------------------------------ MODULE ModelAccess ------------------------------
(***************************************************************************)
(* How the goroutines of the API and the worker reach the language models  *)
(* of a company.  A task resolves its provider: a task with an active      *)
(* route asks the candidates of the route in turn, every other one the     *)
(* provider of the company's agent, which an in-process cache keeps with   *)
(* its circuit breakers and its backup.  Meanwhile the owner edits agents, *)
(* routes, connections and credentials, and catalogs are refreshed.        *)
(***************************************************************************)
EXTENDS Integers, FiniteSets, FiniteSetsExt, Sequences, SequencesExt

CONSTANTS
    Caller, Refresher,   \* goroutines
    Connection, Model,   \* provider connections and their models
    Offered,             \* [credential version -> models the provider lists for it]
    Routes,              \* task routes the owner may activate
    TTL, Delay,          \* of a cached agent; how long resolving a provider may take
    Cooldown, Threshold, \* of a breaker
    MaxRetries,
    EditModes,           \* failover modes the owner gives an agent
    Pins,                \* selections of a model users make, beside none
    Plans                \* bounds: first route and modes, and what may happen how often

Modes == {"off", "error", "quota"}
Legs  == {"primary", "backup"}
NoRoute == [cands |-> <<>>]
NoPin == [conn |-> 0, model |-> ""]
Kinds == {"call", "edit", "route", "connection", "refresh", "fault", "tick"}

ASSUME ModelAccessAssumption ==
    /\ {TTL, Delay, Cooldown, Threshold} \subseteq Nat \ {0}
    /\ MaxRetries \in Nat /\ EditModes \subseteq Modes /\ IsFiniteSet(Caller)
    /\ Connection \subseteq Nat \ {0} /\ "" \notin Model
    /\ 1 \in DOMAIN Offered /\ DOMAIN Offered \subseteq Nat
    /\ \A v \in DOMAIN Offered : Offered[v] \subseteq Model
    /\ Routes \subseteq [cands : Seq([conn : Connection, model : Model]), max : 1..10,
                         fallback : SUBSET STRING, substitution : BOOLEAN]
    /\ \A r \in Routes : Len(r.cands) \in 1..10
    /\ Pins \subseteq [conn : Connection \union {0}, model : Model \union {""}]
    /\ \A p \in Plans : /\ p.route \in Routes \union {NoRoute} /\ p.modes \subseteq Modes
                        /\ p.may \in [Kinds -> Nat]

VARIABLES
    now,
    agent,     \* the active row of ai_agents: id (0 = none) and failover mode
    replaced,  \* when each row of ai_agents ceased to be the active one, -1 = not yet
    route,     \* the active version of the task's route
    conns,     \* ai_provider_connections: active, credential, models
    cache,     \* the resolver's entry of the company: agent, provider (0 = nil), expires
    providers, \* providers built: their agent, and a breaker per leg
    calls,     \* the call a goroutine makes
    refreshes, \* the catalog refresh a goroutine makes
    since,     \* history: per provider and leg, what happened since its breaker last opened
    left       \* how often each kind of thing may still happen

vars == <<now, agent, replaced, route, conns, cache, providers, calls, refreshes, since, left>>
config == <<agent, replaced, route, conns>>
legacy == <<cache, providers, since>>

\* When a breaker last opened, the calls admitted since, and whether one that was admitted
\* before has succeeded since.  One that never opened is as good as closed by such a call.
NotOpened == [at |-> 0, calls |-> {}, late |-> TRUE]

Provider == 1..Cardinality(Caller) + 1
Idle == [pc |-> "idle"]
NoEntry == [agent |-> [id |-> 0, mode |-> "off"], provider |-> 0, expires |-> -1]

Closed == [state |-> "closed", failures |-> 0, openedAt |-> 0]
Fresh(a) == [agent |-> a, breaker |-> [leg \in Legs |-> Closed]]

Init ==
    /\ now = 0
    /\ \E p \in Plans :
          /\ \E mode \in p.modes : agent = [id |-> 1, mode |-> mode]
          /\ route = p.route
          /\ left = p.may
    /\ replaced = [id \in {1} |-> -1]
    /\ conns = [n \in Connection |-> [active |-> TRUE, credential |-> 1, models |-> Offered[1]]]
    /\ cache = NoEntry
    /\ providers = [p \in Provider |-> Fresh(NoEntry.agent)]
    /\ calls = [c \in Caller |-> Idle]
    /\ refreshes = [r \in Refresher |-> Idle]
    /\ since = [p \in Provider |-> [leg \in Legs |-> NotOpened]]

Spend(kind) ==
    /\ left[kind] > 0
    /\ left' = [left EXCEPT ![kind] = @ - 1]

Become(c, call) == calls' = [calls EXCEPT ![c] = call]
Goto(c, pc) == Become(c, [calls[c] EXCEPT !.pc = pc])

At(c, pc) == calls[c].pc = pc

-----------------------------------------------------------------------------
(***************************************************************************)
(* ResolveTask: the route first, then the agent of the company.            *)
(***************************************************************************)
Call(op, pin) ==
    [pc |-> "cache", op |-> op, pin |-> pin, began |-> now, live |-> TRUE,
     agent |-> NoEntry.agent, provider |-> 0, leg |-> "primary", tries |-> 0,
     route |-> NoRoute, next |-> 1, attempts |-> 0, asked |-> {}]

\* A selection needs a route, whose own errors end the call as well.
ResolveTask(c) ==
    /\ calls[c] = Idle
    /\ Spend("call")
    /\ \E op \in {"generate", "stream"}, pin \in Pins \union {NoPin} :
          \/ route = NoRoute /\ pin = NoPin /\ Become(c, Call(op, pin))
          \/ route # NoRoute /\ Become(c, [Call(op, pin) EXCEPT !.pc = "agent", !.route = route])
    /\ UNCHANGED <<now, config, legacy, refreshes>>

\* The confidence threshold is read through the same cache.
AgentFor(c) ==
    /\ calls[c] = Idle
    /\ Spend("call")
    /\ Become(c, Call("agent", NoPin))
    /\ UNCHANGED <<now, config, legacy, refreshes>>

HitForever == cache.agent.id # 0

Hit == cache.agent.id # 0 /\ now <= cache.expires

GetEntry(c) ==
    /\ At(c, "cache")
    /\ Become(c,
         IF ~Hit THEN [calls[c] EXCEPT !.pc = "lookup"]
         ELSE IF calls[c].op = "agent" THEN Idle
         ELSE IF cache.provider # 0 THEN [calls[c] EXCEPT !.pc = "admit", !.provider = cache.provider]
         ELSE [calls[c] EXCEPT !.pc = "store", !.agent = cache.agent])
    /\ UNCHANGED <<now, config, legacy, refreshes, left>>

\* Without an active row AI is off.  That is not cached, nor is an error.
LookupAgent(c) ==
    /\ At(c, "lookup")
    /\ \/ /\ Become(c, IF agent.id = 0 THEN Idle ELSE [calls[c] EXCEPT !.pc = "store", !.agent = agent])
          /\ UNCHANGED left
       \/ Spend("fault") /\ Become(c, Idle)
    /\ UNCHANGED <<now, config, legacy, refreshes>>

InUse(p) == (p = cache.provider) \/ \E c \in Caller : ~(calls[c] = Idle) /\ calls[c].provider = p

\* Each build makes breakers of its own.
Build(c) ==
    LET p == Min({q \in Provider : ~InUse(q)})
    IN  /\ providers' = [providers EXCEPT ![p] = Fresh(calls[c].agent)]
        /\ since' = [since EXCEPT ![p] = [leg \in Legs |-> NotOpened]]
        /\ cache' = [agent |-> calls[c].agent, provider |-> p, expires |-> now + TTL]
        /\ Become(c, [calls[c] EXCEPT !.pc = "admit", !.provider = p])

\* The last to store wins; AgentFor stores no provider.  A provider that cannot be
\* built (no key, an unknown vendor) ends the call.
Store(c) ==
    /\ At(c, "store")
    /\ \/ /\ IF calls[c].op = "agent"
             THEN /\ cache' = [agent |-> calls[c].agent, provider |-> 0, expires |-> now + TTL]
                  /\ Become(c, Idle)
                  /\ UNCHANGED <<providers, since>>
             ELSE Build(c)
          /\ UNCHANGED left
       \/ calls[c].op # "agent" /\ Spend("fault") /\ Become(c, Idle) /\ UNCHANGED legacy
    /\ UNCHANGED <<now, config, refreshes>>

-----------------------------------------------------------------------------
(***************************************************************************)
(* The provider of an agent: a breaker around each leg, retries inside it, *)
(* and the backup behind the primary.                                      *)
(***************************************************************************)
Breaker(c) == providers[calls[c].provider].breaker[calls[c].leg]

SetBreaker(c, b) ==
    providers' = [providers EXCEPT ![calls[c].provider].breaker[calls[c].leg] = b]

\* allow(): whether a call may pass, and the breaker afterwards.
AllowAnyTime(b) == [ok |-> TRUE, breaker |-> IF b.state = "open" THEN [b EXCEPT !.state = "half-open"] ELSE b]

Allow(b) ==
    IF b.state = "open"
    THEN IF now - b.openedAt >= Cooldown
         THEN [ok |-> TRUE, breaker |-> [b EXCEPT !.state = "half-open"]]
         ELSE [ok |-> FALSE, breaker |-> b]
    ELSE [ok |-> TRUE, breaker |-> b]

RecordFailureUnstamped(b) ==
    IF b.state = "half-open" THEN [b EXCEPT !.state = "open"]
    ELSE IF b.failures + 1 < Threshold THEN [b EXCEPT !.failures = @ + 1]
    ELSE [b EXCEPT !.failures = Threshold, !.state = "open", !.openedAt = now]

RecordFailureUntil(b) ==
    IF b.failures + 1 < Threshold THEN [b EXCEPT !.failures = @ + 1]
    ELSE [b EXCEPT !.state = "open", !.openedAt = now + Cooldown]

\* Failures are counted up to the threshold, beyond which the count is not read.
RecordFailure(b) ==
    IF b.state = "half-open" THEN [b EXCEPT !.state = "open", !.openedAt = now]
    ELSE IF b.failures + 1 < Threshold THEN [b EXCEPT !.failures = @ + 1]
    ELSE [b EXCEPT !.failures = Threshold, !.state = "open", !.openedAt = now]

RecordSuccess(b) == [b EXCEPT !.state = "closed", !.failures = 0]

\* Bookkeeping for CooldownIsKept.  A failure opens the breaker, or opens it anew.
Trips(b) == b.state = "half-open" \/ b.failures + 1 >= Threshold

Since(c) == since[calls[c].provider][calls[c].leg]
NoteSince(c, s) == since' = [since EXCEPT ![calls[c].provider][calls[c].leg] = s]

AfterEntry(c)   == [Since(c) EXCEPT !.calls = @ \union {c}]
AfterLeaving(c) == [Since(c) EXCEPT !.calls = @ \ {c}]
AfterAnswer(c)  == [AfterLeaving(c) EXCEPT !.late = @ \/ c \notin Since(c).calls]
AfterFailure(c) == IF Trips(Breaker(c)) THEN [at |-> now, calls |-> {}, late |-> FALSE] ELSE AfterLeaving(c)

IsQuota(outcome) == outcome \in {"circuit open", "throttled", "rate_limit"}

ShouldTryBackup(c, outcome) ==
    /\ calls[c].leg = "primary"
    /\ LET mode == providers[calls[c].provider].agent.mode
       IN  mode = "error" \/ (mode = "quota" /\ IsQuota(outcome))

\* The leg fails: on to the backup, or back to the caller.
LegFails(c, outcome) ==
    Become(c, IF ShouldTryBackup(c, outcome)
              THEN [calls[c] EXCEPT !.pc = "admit", !.leg = "backup", !.tries = 0]
              ELSE Idle)

Admit(c) ==
    /\ At(c, "admit")
    /\ LET a == Allow(Breaker(c))
       IN  /\ SetBreaker(c, a.breaker)
           /\ IF a.ok THEN Goto(c, "attempt") /\ NoteSince(c, AfterEntry(c))
                      ELSE LegFails(c, "circuit open") /\ UNCHANGED since
    /\ UNCHANGED <<now, config, cache, refreshes, left>>

Retryable(outcome) == outcome \in {"rate_limit", "unavailable"}

\* The limiter refuses a call before its first attempt, never later.
Outcomes(c) ==
    IF ~calls[c].live THEN {"canceled"}
    ELSE {"ok", "rate_limit", "unavailable", "rejected", "timeout"}
         \union (IF calls[c].tries = 0 THEN {"throttled"} ELSE {})

\* call(): a caller that goes away is a failure of the provider too.
Generate(c, outcome) ==
    IF outcome = "ok"
    THEN /\ SetBreaker(c, RecordSuccess(Breaker(c)))
         /\ NoteSince(c, AfterAnswer(c))
         /\ Become(c, Idle)
    ELSE IF Retryable(outcome) /\ calls[c].tries < MaxRetries
    THEN /\ Become(c, [calls[c] EXCEPT !.tries = @ + 1])
         /\ UNCHANGED <<providers, since>>
    ELSE /\ SetBreaker(c, RecordFailure(Breaker(c)))
         /\ NoteSince(c, AfterFailure(c))
         /\ LegFails(c, outcome)

\* Stream() asks the breaker and tells it nothing.
Stream(c, outcome) ==
    /\ IF outcome = "ok" THEN Goto(c, "stream") ELSE LegFails(c, outcome)
    /\ NoteSince(c, AfterLeaving(c))
    /\ UNCHANGED providers

Attempt(c) ==
    /\ At(c, "attempt")
    /\ \E outcome \in Outcomes(c) :
          /\ IF outcome \in {"ok", "canceled"} THEN UNCHANGED left ELSE Spend("fault")
          /\ IF calls[c].op = "stream" THEN Stream(c, outcome) ELSE Generate(c, outcome)
    /\ UNCHANGED <<now, config, cache, refreshes>>

-----------------------------------------------------------------------------
(***************************************************************************)
(* A routed call.                                                          *)
(***************************************************************************)
\* Whether AI is on is read afresh for a routed call.
CheckAgent(c) ==
    /\ At(c, "agent")
    /\ \/ /\ IF agent.id = 0 THEN Become(c, Idle) ELSE Goto(c, "select")
          /\ UNCHANGED left
       \/ Spend("fault") /\ Become(c, Idle)
    /\ UNCHANGED <<now, config, legacy, refreshes>>

Chosen(cand, pin) == IF pin.model = "" THEN cand ELSE [cand EXCEPT !.model = pin.model]

\* The candidates a selection may stand for, first to last.
Selectable(cands, pin) ==
    {i \in DOMAIN cands :
        /\ pin.conn \in {0, cands[i].conn}
        /\ conns[cands[i].conn].active
        /\ Chosen(cands[i], pin).model \in conns[cands[i].conn].models}

SelectAnyway(cfg, pin) ==
    IF pin = NoPin \/ Selectable(cfg.cands, pin) = {} THEN cfg.cands
    ELSE LET i == Min(Selectable(cfg.cands, pin))
         IN  <<Chosen(cfg.cands[i], pin)>> \o RemoveAt(cfg.cands, i)

SelectCandidates(cfg, pin) ==
    IF pin = NoPin THEN cfg.cands
    ELSE IF Selectable(cfg.cands, pin) = {} THEN <<>>
    ELSE LET i == Min(Selectable(cfg.cands, pin))
             first == <<Chosen(cfg.cands[i], pin)>>
         IN  IF cfg.substitution THEN first \o RemoveAt(cfg.cands, i) ELSE first

\* A selection the route does not allow is refused.
Select(c) ==
    /\ At(c, "select")
    /\ LET cands == SelectCandidates(calls[c].route, calls[c].pin)
       IN  Become(c, IF cands = <<>> THEN Idle
                     ELSE [calls[c] EXCEPT !.pc = "load", !.route.cands = cands])
    /\ UNCHANGED <<now, config, legacy, refreshes, left>>

Cand(c) == calls[c].route.cands[calls[c].next]

\* The candidate did not answer: on to the next one, or back to the caller.
CandidateFails(c, outcome) ==
    Become(c, IF calls[c].live /\ outcome \in calls[c].route.fallback
              THEN [calls[c] EXCEPT !.pc = "load", !.next = @ + 1, !.attempts = @ + 1]
              ELSE Idle)

\* A connection is read again for every attempt: one that was disabled
\* meanwhile is passed over and is not counted.
LoadCandidate(c) ==
    /\ At(c, "load")
    /\ IF \/ calls[c].next > Len(calls[c].route.cands)
          \/ calls[c].attempts >= calls[c].route.max
          \/ ~calls[c].live
       THEN Become(c, Idle) /\ UNCHANGED left
       ELSE \/ /\ ~conns[Cand(c).conn].active
               /\ Become(c, [calls[c] EXCEPT !.next = @ + 1])
               /\ UNCHANGED left
            \/ /\ conns[Cand(c).conn].active
               /\ IF Cand(c).model \in conns[Cand(c).conn].models
                  THEN Become(c, [calls[c] EXCEPT !.pc = "ask", !.asked = @ \union {Cand(c)}])
                  ELSE CandidateFails(c, "error")
               /\ UNCHANGED left
            \/ Spend("fault") /\ CandidateFails(c, "error")
    /\ UNCHANGED <<now, config, legacy, refreshes>>

\* Once a stream is open it is never replayed on another model.
Ask(c) ==
    /\ At(c, "ask")
    /\ \E outcome \in Outcomes(c) \ {"throttled"} :
          /\ IF outcome \in {"ok", "canceled"} THEN UNCHANGED left ELSE Spend("fault")
          /\ IF outcome # "ok" THEN CandidateFails(c, outcome)
             ELSE IF calls[c].op = "stream" THEN Goto(c, "stream") ELSE Become(c, Idle)
    /\ UNCHANGED <<now, config, legacy, refreshes>>

\* The stream ends or breaks off; neither is told to a breaker.
StreamEnds(c) ==
    /\ At(c, "stream")
    /\ Become(c, Idle)
    /\ UNCHANGED <<now, config, legacy, refreshes, left>>

\* The client hangs up, or the timeout of the request or the route strikes.
Cancel(c) ==
    /\ calls[c].pc \in {"attempt", "load", "ask"} /\ calls[c].live
    /\ Spend("fault")
    /\ Become(c, [calls[c] EXCEPT !.live = FALSE])
    /\ UNCHANGED <<now, config, legacy, refreshes>>

-----------------------------------------------------------------------------
(***************************************************************************)
(* Refreshing the catalog of a connection.                                 *)
(***************************************************************************)
Refresh(r) ==
    /\ refreshes[r] = Idle
    /\ Spend("refresh")
    /\ \E n \in Connection :
          refreshes' = [refreshes EXCEPT ![r] =
              [pc |-> "discover", conn |-> n, credential |-> conns[n].credential]]
    /\ UNCHANGED <<now, config, legacy, calls>>

\* A discovery that fails leaves the catalog alone.
Discover(r) ==
    /\ refreshes[r].pc = "discover"
    /\ \/ refreshes' = [refreshes EXCEPT ![r].pc = "save"] /\ UNCHANGED left
       \/ refreshes' = [refreshes EXCEPT ![r] = Idle] /\ Spend("fault")
    /\ UNCHANGED <<now, config, legacy, calls>>

SaveCatalogUnchecked(r) ==
    LET task == refreshes[r]
    IN  /\ task.pc = "save"
        /\ conns' = [conns EXCEPT ![task.conn].models = Offered[task.credential]]
        /\ refreshes' = [refreshes EXCEPT ![r] = Idle]
        /\ UNCHANGED <<now, agent, replaced, route, legacy, calls, left>>

\* The credential the catalog was discovered with must still be the one.
SaveCatalog(r) ==
    LET task == refreshes[r]
    IN  /\ task.pc = "save"
        /\ conns' = IF conns[task.conn].credential = task.credential
                    THEN [conns EXCEPT ![task.conn].models = Offered[task.credential]]
                    ELSE conns
        /\ refreshes' = [refreshes EXCEPT ![r] = Idle]
        /\ UNCHANGED <<now, agent, replaced, route, legacy, calls, left>>

-----------------------------------------------------------------------------
(***************************************************************************)
(* The owner, and time.                                                    *)
(***************************************************************************)
\* Agents are added, switched over and switched off.
EditAgent ==
    /\ Spend("edit")
    /\ \/ /\ agent.id # 0
          /\ agent' = NoEntry.agent
          /\ replaced' = [replaced EXCEPT ![agent.id] = now]
       \/ LET id == Cardinality(DOMAIN replaced) + 1
          IN  /\ \E mode \in EditModes : agent' = [id |-> id, mode |-> mode]
              /\ replaced' = [i \in 1..id |-> IF i = id THEN -1
                                              ELSE IF i = agent.id THEN now ELSE replaced[i]]
    /\ UNCHANGED <<now, route, conns, legacy, calls, refreshes>>

EditRoute ==
    /\ Spend("route")
    /\ route' \in (Routes \union {NoRoute}) \ {route}
    /\ UNCHANGED <<now, agent, replaced, conns, legacy, calls, refreshes>>

EditConnection ==
    /\ Spend("connection")
    /\ \E n \in Connection :
          \/ conns' = [conns EXCEPT ![n].active = ~@]
          \/ /\ conns[n].credential + 1 \in DOMAIN Offered
             /\ conns' = [conns EXCEPT ![n].credential = @ + 1]
    /\ UNCHANGED <<now, agent, replaced, route, legacy, calls, refreshes>>

Resolving(c) == calls[c].pc \in {"cache", "lookup", "store"}

\* Delay bounds the lookup of an agent.
Tick ==
    /\ Spend("tick")
    /\ \A c \in Caller : Resolving(c) => now < calls[c].began + Delay
    /\ now' = now + 1
    /\ UNCHANGED <<config, legacy, calls, refreshes>>

Resolve(c) == ResolveTask(c) \/ AgentFor(c) \/ GetEntry(c) \/ LookupAgent(c) \/ Store(c)
Routed(c) == CheckAgent(c) \/ Select(c) \/ LoadCandidate(c) \/ Ask(c)
Catalog(r) == Refresh(r) \/ Discover(r) \/ SaveCatalog(r)

Next ==
    \/ \E c \in Caller : \/ Resolve(c) \/ Routed(c)
                         \/ Admit(c) \/ Attempt(c) \/ StreamEnds(c) \/ Cancel(c)
    \/ \E r \in Refresher : Catalog(r)
    \/ EditAgent \/ EditRoute \/ EditConnection \/ Tick

Spec == Init /\ [][Next]_vars

-----------------------------------------------------------------------------
(***************************************************************************)
(* Properties.                                                             *)
(***************************************************************************)
BreakerState == [state : {"closed", "open", "half-open"}, failures : 0..Threshold, openedAt : 0..now]
AgentRow == [id : {0} \union DOMAIN replaced, mode : Modes]

\* The state has its type: clocks, rows, breakers and what the goroutines do.
TypeOK ==
    /\ now \in Nat
    /\ agent \in AgentRow
    /\ \A id \in DOMAIN replaced : replaced[id] \in -1..now
    /\ route \in Routes \union {NoRoute}
    /\ conns \in [Connection -> [active : BOOLEAN, credential : DOMAIN Offered, models : SUBSET Model]]
    /\ cache \in [agent : AgentRow, provider : {0} \union Provider, expires : -1..now + TTL]
    /\ providers \in [Provider -> [agent : AgentRow, breaker : [Legs -> BreakerState]]]
    /\ \A c \in Caller : calls[c] # Idle =>
          /\ calls[c].pc \in {"cache", "lookup", "store", "admit", "attempt", "agent", "select",
                              "load", "ask", "stream"}
          /\ calls[c].provider \in {0} \union Provider /\ calls[c].tries \in 0..MaxRetries
          /\ calls[c].asked \subseteq [conn : Connection, model : Model]
    /\ \A r \in Refresher : refreshes[r] # Idle =>
          refreshes[r] \in [pc : {"discover", "save"}, conn : Connection, credential : DOMAIN Offered]
    /\ since \in [Provider -> [Legs -> [at : 0..now, calls : SUBSET Caller, late : BOOLEAN]]]
    /\ left \in [Kinds -> Nat]

\* An agent that was edited or switched off answers calls for two lifetimes of a cache
\* entry at most: AgentFor caches it without a provider, ResolveFor stores that entry
\* again with one, and nothing stores it a third time.
ServedIsRecent ==
    \A c \in Caller : calls[c].pc \in {"admit", "attempt"} =>
        LET served == providers[calls[c].provider].agent.id
        IN  served # 0 /\ (replaced[served] # -1 => calls[c].began - replaced[served] <= 2 * (TTL + Delay))

\* A provider that was given up is spared for the cooldown, whoever asks and however calls
\* overlap: within the cooldown of the latest opening a call is let through only after one
\* that was admitted before that opening has come back with an answer.  A late failure, of a
\* call let through half-open or of one from before, begins the cooldown again.
CooldownIsKept ==
    [][\A c \in Caller : At(c, "admit") /\ At(c, "attempt")' =>
          Since(c).late \/ now >= Since(c).at + Cooldown]_vars

\* A user who selected a model is not answered by another one unless the route allows
\* substitution, whatever fails, is disabled or refreshed on the way.
SelectionIsHonoured ==
    \A c \in Caller : (calls[c] # Idle /\ calls[c].asked # {} /\ ~calls[c].route.substitution) =>
        \A cand \in calls[c].asked : /\ calls[c].pin.conn \in {0, cand.conn}
                                     /\ calls[c].pin.model \in {"", cand.model}

\* A catalog that is saved is the one of the connection's credential, although the
\* credential may be rotated while the models are being discovered.
CatalogIsCurrent ==
    [][\A n \in Connection : conns'[n].models # conns[n].models =>
          conns'[n].models = Offered[conns'[n].credential]]_vars

\* Both: what answers is the agent the company has configured and the model it selected.
ServedAsConfigured == ServedIsRecent /\ SelectionIsHonoured
===============================================================================
