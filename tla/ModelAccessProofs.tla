--------------------------- MODULE ModelAccessProofs ---------------------------
(***************************************************************************)
(* Proofs about the access to the models, for any number of goroutines,    *)
(* every set of connections, routes and selections, every lifetime, delay, *)
(* threshold and number of retries, and whatever happens how often; and    *)
(* about the log of the calls that were made.                              *)
(***************************************************************************)
EXTENDS ModelAccess, UsageReport, TLAPS, FiniteSetTheorems, SequenceTheorems, FunctionTheorems,
        WellFoundedInduction

-----------------------------------------------------------------------------
(***************************************************************************)
(* The inductive invariant.                                                *)
(***************************************************************************)
Row        == [id : Nat, mode : Modes]
Candidates == [conn : Connection, model : Model]
Pinned     == [conn : Connection \union {0}, model : Model \union {""}]
RouteRow   == [cands : Seq(Candidates), max : 1..10, fallback : SUBSET STRING,
               substitution : BOOLEAN]
Breakers   == [state : {"closed", "open", "half-open"}, failures : 0..Threshold, openedAt : Nat]
Openings   == [at : Nat, calls : SUBSET Caller, late : BOOLEAN]
Pcs        == {"cache", "lookup", "store", "admit", "attempt", "agent", "select", "load", "ask",
               "stream"}

CallRecord ==
    [pc : Pcs, op : {"generate", "stream", "agent"}, pin : Pinned, began : Nat, live : BOOLEAN,
     agent : Row, provider : {0} \union Provider, leg : Legs, tries : 0..MaxRetries,
     route : RouteRow \union {NoRoute}, next : Nat \ {0}, attempts : Nat,
     asked : SUBSET Candidates]

Task == [pc : {"discover", "save"}, conn : Connection, credential : DOMAIN Offered]

Typed ==
    /\ now \in Nat /\ agent \in Row
    /\ \E n \in Nat \ {0} : replaced \in [1..n -> Int]
    /\ route \in Routes \union {NoRoute}
    /\ conns \in [Connection -> [active : BOOLEAN, credential : DOMAIN Offered, models : SUBSET Model]]
    /\ cache \in [agent : Row, provider : {0} \union Provider, expires : Int]
    /\ providers \in [Provider -> [agent : Row, breaker : [Legs -> Breakers]]]
    /\ calls \in [Caller -> {Idle} \union CallRecord]
    /\ refreshes \in [Refresher -> {Idle} \union Task]
    /\ since \in [Provider -> [Legs -> Openings]]
    /\ left \in [Kinds -> Nat]

\* Agents and moments of the past.
RowIds == {0} \union DOMAIN replaced

Past ==
    /\ \A id \in DOMAIN replaced : -1 <= replaced[id] /\ replaced[id] <= now
    /\ agent.id \in RowIds /\ cache.agent.id \in RowIds
    /\ \A p \in Provider : /\ providers[p].agent.id \in RowIds
                           /\ \A leg \in Legs : /\ providers[p].breaker[leg].openedAt <= now
                                                /\ since[p][leg].at <= now
    /\ -1 <= cache.expires /\ cache.expires <= now + TTL

\* The active row is nobody's replacement yet.
ActiveStands == agent.id # 0 => replaced[agent.id] = -1

\* At the moment t the row had not been replaced for longer than d.
Within(id, t, d) == replaced[id] # -1 => t <= replaced[id] + d

Life == TTL + Delay

\* An entry without a provider is one lifetime behind at most, one with a provider two.
CacheIsRecent ==
    /\ cache.provider # 0 =>
          cache.agent.id # 0 /\ providers[cache.provider].agent = cache.agent
    /\ cache.agent.id # 0 =>
          Within(cache.agent.id, cache.expires, IF cache.provider = 0 THEN Life ELSE 2 * Life)

Fits(cand, pin) == pin.conn \in {0, cand.conn} /\ pin.model \in {"", cand.model}

\* A call resolves its provider in time, asks a provider that was recent when the call
\* began, and has only candidates that fit its selection.
GoodCall(k) ==
    /\ k \in CallRecord /\ k.agent.id \in RowIds /\ k.began <= now
    /\ k.pc \in {"cache", "lookup", "store"} => now <= k.began + Delay /\ k.provider = 0
    /\ k.pc = "store" =>
          k.agent.id # 0 /\ Within(k.agent.id, k.began, IF k.op = "agent" THEN 0 ELSE Life)
    /\ k.pc \in {"admit", "attempt"} =>
          /\ k.provider # 0 /\ providers[k.provider].agent.id # 0
          /\ Within(providers[k.provider].agent.id, k.began, 2 * Life)
    /\ k.pc \in {"agent", "select", "load", "ask"} => k.route \in RouteRow
    /\ k.pc \notin {"load", "ask", "stream"} => k.asked = {}
    /\ k.asked # {} => k.route \in RouteRow
    /\ k.route \in RouteRow /\ ~k.route.substitution =>
          /\ \A cand \in k.asked : Fits(cand, k.pin)
          /\ k.pc \in {"load", "ask"} =>
                \A i \in DOMAIN k.route.cands : Fits(k.route.cands[i], k.pin)

GoodCalls == \A c \in Caller : calls[c] # Idle => GoodCall(calls[c])

\* Within the cooldown, unless a late answer has ended it, the breaker is open since its
\* latest opening and has let nobody through.
Rests(b, s) ==
    ~s.late /\ now < s.at + Cooldown => b.state = "open" /\ b.openedAt = s.at /\ s.calls = {}

BreakersRest == \A p \in Provider, leg \in Legs : Rests(providers[p].breaker[leg], since[p][leg])

Inv == Typed /\ Past /\ ActiveStands /\ CacheIsRecent /\ GoodCalls /\ BreakersRest

-----------------------------------------------------------------------------
(***************************************************************************)
(* Calls.                                                                  *)
(***************************************************************************)
LEMMA IdleIsNone ==
  /\ Idle.pc = "idle" /\ Idle \notin CallRecord /\ Idle \notin Task
  BY DEF Idle, CallRecord, Task, Pcs

LEMMA Constants ==
  /\ TTL \in Nat \ {0} /\ Delay \in Nat \ {0} /\ Cooldown \in Nat \ {0} /\ Threshold \in Nat \ {0}
  /\ MaxRetries \in Nat /\ Life \in Nat /\ Life = TTL + Delay
  <1>1. {TTL, Delay, Cooldown, Threshold} \subseteq Nat \ {0} /\ MaxRetries \in Nat
    BY ModelAccessAssumption
  <1> QED BY <1>1 DEF Life

LEMMA CallersCounted == Cardinality(Caller) \in Nat
  <1>1. IsFiniteSet(Caller)
    BY ModelAccessAssumption
  <1> QED BY <1>1, FS_CardinalityType

LEMMA Spending ==
  ASSUME Inv, NEW kind \in Kinds, Spend(kind)
  PROVE  left' \in [Kinds -> Nat]
  BY DEF Inv, Typed, Spend

LEMMA Unspent == Inv /\ UNCHANGED left => left' \in [Kinds -> Nat]
  BY DEF Inv, Typed

\* A goroutine that is at a call.
LEMMA InACall ==
  ASSUME Inv, NEW c \in Caller, calls[c].pc # "idle"
  PROVE  calls[c] \in CallRecord /\ GoodCall(calls[c])
  BY IdleIsNone DEF Inv, GoodCalls, GoodCall

\* A good call stays one when providers keep their agents and no row is replaced.
LEMMA GoodCallStays ==
  ASSUME Inv, UNCHANGED <<now, replaced>>,
         \A p \in Provider : providers'[p].agent = providers[p].agent,
         NEW k, GoodCall(k)
  PROVE  GoodCall(k)'
  <1>1. k \in CallRecord
    BY DEF GoodCall
  <1>2. k.provider # 0 => k.provider \in Provider
    BY <1>1 DEF CallRecord
  <1> QED BY <1>1, <1>2 DEF GoodCall, Within, RowIds

LEMMA BreakerStep ==
  ASSUME Inv, NEW c \in Caller, UNCHANGED <<now, config, cache, refreshes>>,
         left' \in [Kinds -> Nat], NEW k, k = Idle \/ GoodCall(k), Become(c, k),
         providers' \in [Provider -> [agent : Row, breaker : [Legs -> Breakers]]],
         \A p \in Provider : /\ providers'[p].agent = providers[p].agent
                             /\ \A leg \in Legs : /\ providers'[p].breaker[leg].openedAt <= now
                                                  /\ since'[p][leg].at <= now,
         since' \in [Provider -> [Legs -> Openings]], BreakersRest'
  PROVE  Inv'
  <1>1. UNCHANGED <<now, agent, replaced, route, conns, cache, refreshes>>
    BY DEF config
  <1>2. /\ calls' \in [Caller -> {Idle} \union CallRecord] /\ calls'[c] = k
        /\ \A d \in Caller \ {c} : calls'[d] = calls[d]
    BY DEF Become, GoodCall, Inv, Typed
  <1>3. Typed'
    BY <1>1, <1>2 DEF Inv, Typed
  <1>4. Past' /\ ActiveStands'
    BY <1>1 DEF Inv, Past, RowIds, ActiveStands
  <1>5. CacheIsRecent'
    <2>1. cache.provider # 0 => cache.provider \in Provider
      BY DEF Inv, Typed
    <2> QED BY <1>1, <2>1 DEF Inv, CacheIsRecent, Within
  <1>6. GoodCalls'
    <2> SUFFICES ASSUME NEW d \in Caller, calls'[d] # Idle PROVE GoodCall(calls[d])'
      BY DEF GoodCalls
    <2>1. PICK x : x = calls'[d]
      OBVIOUS
    <2>2. GoodCall(x)
      BY <1>2, <2>1 DEF Inv, GoodCalls
    <2>3. GoodCall(x)'
      BY <1>1, <2>2, GoodCallStays
    <2> QED BY <2>1, <2>3 DEF GoodCall, Within, RowIds
  <1> QED BY <1>3, <1>4, <1>5, <1>6 DEF Inv

\* A step of a goroutine that touches nothing it shares.
LEMMA CallStep ==
  ASSUME Inv, NEW c \in Caller, UNCHANGED <<now, config, legacy, refreshes>>,
         left' \in [Kinds -> Nat], NEW k, k = Idle \/ GoodCall(k), Become(c, k)
  PROVE  Inv'
  <1>1. UNCHANGED <<now, config, cache, refreshes, providers, since>>
    BY DEF legacy
  <1>2. /\ providers' \in [Provider -> [agent : Row, breaker : [Legs -> Breakers]]]
        /\ \A p \in Provider : /\ providers'[p].agent = providers[p].agent
                               /\ \A leg \in Legs : /\ providers'[p].breaker[leg].openedAt <= now
                                                    /\ since'[p][leg].at <= now
        /\ since' \in [Provider -> [Legs -> Openings]]
    BY <1>1 DEF Inv, Typed, Past
  <1>3. BreakersRest'
    BY <1>1 DEF Inv, BreakersRest, Rests
  <1> QED BY <1>1, <1>2, <1>3, BreakerStep

-----------------------------------------------------------------------------
(***************************************************************************)
(* Resolving a provider.                                                   *)
(***************************************************************************)
LEMMA FreshCall ==
  ASSUME Inv, NEW op \in {"generate", "stream", "agent"}, NEW pin \in Pins \union {NoPin}
  PROVE  /\ GoodCall(Call(op, pin))
         /\ route # NoRoute => GoodCall([Call(op, pin) EXCEPT !.pc = "agent", !.route = route])
  <1> DEFINE k == Call(op, pin)
  <1>1. pin \in Pinned
    <2>1. Pins \subseteq Pinned
      BY ModelAccessAssumption DEF Pinned
    <2>2. NoPin \in Pinned
      BY DEF NoPin, Pinned
    <2> QED BY <2>1, <2>2
  <1>2. NoEntry.agent \in Row /\ NoEntry.agent.id = 0
    BY DEF NoEntry, Row, Modes
  <1>3. k \in CallRecord /\ k.pc = "cache" /\ k.agent.id = 0 /\ k.began = now /\ k.provider = 0
        /\ k.asked = {}
    BY <1>1, <1>2, Constants DEF Call, CallRecord, Inv, Typed, Pcs, Legs
  <1>4. now <= now + Delay
    BY Constants DEF Inv, Typed
  <1>5. GoodCall(k)
    BY <1>3, <1>4 DEF GoodCall, RowIds, Inv, Typed
  <1> HIDE DEF k
  <1>6. ASSUME route # NoRoute PROVE GoodCall([k EXCEPT !.pc = "agent", !.route = route])
    <2> DEFINE m == [k EXCEPT !.pc = "agent", !.route = route]
    <2>1. route \in RouteRow
      BY <1>6, ModelAccessAssumption DEF Inv, Typed, RouteRow, Candidates
    <2>2. /\ m \in CallRecord /\ m.pc = "agent" /\ m.agent.id = 0 /\ m.began = now
          /\ m.asked = {} /\ m.route = route
      BY <1>3, <2>1 DEF CallRecord, Pcs
    <2> HIDE DEF m
    <2>3. now <= now
      BY DEF Inv, Typed
    <2> QED BY <2>1, <2>2, <2>3 DEF GoodCall, RowIds, m
  <1> QED BY <1>5, <1>6 DEF k

LEMMA ResolveTaskStep ==
  ASSUME Inv, NEW c \in Caller, ResolveTask(c)
  PROVE  Inv'
  <1>1. left' \in [Kinds -> Nat]
    BY Spending DEF ResolveTask, Kinds
  <1>2. PICK op \in {"generate", "stream"}, pin \in Pins \union {NoPin} :
          \/ route = NoRoute /\ pin = NoPin /\ Become(c, Call(op, pin))
          \/ route # NoRoute /\ Become(c, [Call(op, pin) EXCEPT !.pc = "agent", !.route = route])
    BY DEF ResolveTask
  <1>3. UNCHANGED <<now, config, legacy, refreshes>>
    BY DEF ResolveTask
  <1> QED BY <1>1, <1>2, <1>3, FreshCall, CallStep

LEMMA AgentForStep ==
  ASSUME Inv, NEW c \in Caller, AgentFor(c)
  PROVE  Inv'
  <1>1. left' \in [Kinds -> Nat]
    BY Spending DEF AgentFor, Kinds
  <1>2. Become(c, Call("agent", NoPin)) /\ UNCHANGED <<now, config, legacy, refreshes>>
    BY DEF AgentFor
  <1> QED BY <1>1, <1>2, FreshCall, CallStep

LEMMA GetEntryStep ==
  ASSUME Inv, NEW c \in Caller, GetEntry(c)
  PROVE  Inv'
  <1>1. /\ calls[c].pc = "cache" /\ UNCHANGED <<now, config, legacy, refreshes>>
        /\ left' \in [Kinds -> Nat]
    BY Unspent DEF GetEntry, At
  <1>2. PICK k \in CallRecord : k = calls[c]
    BY <1>1, InACall
  <1>3. GoodCall(k) /\ k.pc = "cache" /\ k.provider = 0 /\ k.asked = {} /\ k.began \in Nat
    BY <1>1, <1>2, InACall DEF GoodCall, CallRecord
  <1>4. CASE ~Hit
    <2> DEFINE m == [k EXCEPT !.pc = "lookup"]
    <2>1. /\ m \in CallRecord /\ m.pc = "lookup" /\ m.provider = 0 /\ m.began = k.began
          /\ m.agent = k.agent /\ m.asked = {}
      BY <1>3 DEF CallRecord, Pcs
    <2>2. Become(c, m)
      BY <1>2, <1>4 DEF GetEntry
    <2> HIDE DEF m
    <2>3. GoodCall(m)
      BY <1>3, <2>1 DEF GoodCall
    <2> QED BY <1>1, <2>2, <2>3, CallStep
  <1>5. CASE Hit /\ calls[c].op = "agent"
    <2>1. Become(c, Idle)
      BY <1>5 DEF GetEntry
    <2> QED BY <1>1, <2>1, CallStep
  <1> DEFINE id == cache.agent.id
  <1>6. ASSUME Hit
        PROVE  /\ id # 0 /\ id \in DOMAIN replaced /\ replaced[id] \in Int
               /\ replaced[id] # -1 =>
                    k.began <= replaced[id] + (IF cache.provider = 0 THEN Life ELSE 2 * Life)
    <2>1. id # 0 /\ now <= cache.expires /\ id \in DOMAIN replaced
      BY <1>6 DEF Hit, Inv, Past, RowIds
    <2>2. replaced[id] \in Int /\ now \in Nat /\ cache.expires \in Int
      BY <2>1 DEF Inv, Typed
    <2>3. replaced[id] # -1 =>
            cache.expires <= replaced[id] + (IF cache.provider = 0 THEN Life ELSE 2 * Life)
      BY <2>1 DEF Inv, CacheIsRecent, Within
    <2>4. Life \in Nat /\ k.began <= now
      BY <1>3, Constants DEF GoodCall
    <2> HIDE DEF id
    <2> QED BY <1>3, <2>1, <2>2, <2>3, <2>4
  <1>7. CASE Hit /\ calls[c].op # "agent" /\ cache.provider # 0
    <2> DEFINE m == [k EXCEPT !.pc = "admit", !.provider = cache.provider]
    <2>1. /\ m \in CallRecord /\ m.pc = "admit" /\ m.provider = cache.provider /\ m.began = k.began
          /\ m.agent = k.agent /\ m.asked = {}
      BY <1>3 DEF CallRecord, Pcs, Inv, Typed
    <2>2. Become(c, m)
      BY <1>2, <1>7 DEF GetEntry
    <2>3. providers[cache.provider].agent = cache.agent
      BY <1>7 DEF Inv, CacheIsRecent
    <2> HIDE DEF m
    <2>4. GoodCall(m)
      BY <1>3, <1>6, <1>7, <2>1, <2>3 DEF GoodCall, Within
    <2> QED BY <1>1, <2>2, <2>4, CallStep
  <1>8. CASE Hit /\ calls[c].op # "agent" /\ cache.provider = 0
    <2> DEFINE m == [k EXCEPT !.pc = "store", !.agent = cache.agent]
    <2>1. /\ m \in CallRecord /\ m.pc = "store" /\ m.provider = 0 /\ m.began = k.began
          /\ m.agent = cache.agent /\ m.asked = {} /\ m.op = k.op
      BY <1>3 DEF CallRecord, Pcs, Inv, Typed
    <2>2. Become(c, m)
      BY <1>2, <1>8 DEF GetEntry
    <2>3. k.op # "agent" /\ now <= k.began + Delay
      BY <1>2, <1>3, <1>8 DEF GoodCall
    <2> HIDE DEF m
    <2>4. GoodCall(m)
      BY <1>3, <1>6, <1>8, <2>1, <2>3 DEF GoodCall, Within, RowIds
    <2> QED BY <1>1, <2>2, <2>4, CallStep
  <1> QED BY <1>4, <1>5, <1>7, <1>8

LEMMA LookupAgentStep ==
  ASSUME Inv, NEW c \in Caller, LookupAgent(c)
  PROVE  Inv'
  <1>1. /\ calls[c].pc = "lookup" /\ UNCHANGED <<now, config, legacy, refreshes>>
        /\ left' \in [Kinds -> Nat]
    BY Unspent, Spending DEF LookupAgent, At, Kinds
  <1>2. PICK k \in CallRecord : k = calls[c]
    BY <1>1, InACall
  <1>3. /\ GoodCall(k) /\ k.pc = "lookup" /\ k.provider = 0 /\ k.asked = {} /\ k.began \in Nat
        /\ now <= k.began + Delay
    BY <1>1, <1>2, InACall DEF GoodCall, CallRecord
  <1>4. CASE Become(c, Idle)
    BY <1>1, <1>4, CallStep
  <1>5. CASE agent.id # 0 /\ Become(c, [k EXCEPT !.pc = "store", !.agent = agent])
    <2> DEFINE m == [k EXCEPT !.pc = "store", !.agent = agent]
    <2>1. /\ m \in CallRecord /\ m.pc = "store" /\ m.provider = 0 /\ m.began = k.began
          /\ m.agent = agent /\ m.asked = {}
      BY <1>3 DEF CallRecord, Pcs, Inv, Typed
    <2>2. Become(c, m)
      BY <1>5
    <2> HIDE DEF m
    <2>3. replaced[agent.id] = -1 /\ agent.id \in RowIds
      BY <1>5 DEF Inv, ActiveStands, Past
    <2>4. GoodCall(m)
      BY <1>3, <1>5, <2>1, <2>3 DEF GoodCall, Within
    <2> QED BY <1>1, <2>2, <2>4, CallStep
  <1> QED BY <1>2, <1>4, <1>5 DEF LookupAgent

-----------------------------------------------------------------------------
(***************************************************************************)
(* Storing what was looked up.                                             *)
(***************************************************************************)
LEMMA Smallest ==
  ASSUME NEW S \in SUBSET Nat, S # {}
  PROVE  Min(S) \in S /\ \A k \in S : Min(S) <= k
  <1>1. PICK x \in S : \A y \in S : ~ (<<y, x>> \in OpToRel(<, Nat))
    BY NatLessThanWellFounded, WFMin
  <1>2. ASSUME NEW y \in S PROVE x <= y
    <2>1. <<y, x>> \notin {ss \in Nat \X Nat : ss[1] < ss[2]}
      BY <1>1 DEF OpToRel
    <2> QED BY <2>1
  <1> QED BY <1>2 DEF Min

\* There is one more provider than callers: the cache and the other callers leave one free.
LEMMA FreeProvider ==
  ASSUME Inv, NEW c \in Caller, calls[c].provider = 0
  PROVE  \E q \in Provider : ~InUse(q)
  <1> DEFINE others == Caller \ {c}
             theirs == {calls[d].provider : d \in others}
             used == theirs \union {cache.provider}
             n == Cardinality(Caller)
  <1>1. IsFiniteSet(Caller) /\ n \in Nat
    BY ModelAccessAssumption, FS_CardinalityType
  <1>2. IsFiniteSet(others) /\ Cardinality(others) = n - 1
    BY <1>1, FS_RemoveElement
  <1>3. IsFiniteSet(theirs) /\ Cardinality(theirs) <= n - 1
    <2> DEFINE asks == [d \in others |-> calls[d].provider]
    <2>1. asks \in Surjection(others, theirs)
      BY DEF Surjection
    <2> HIDE DEF others, theirs, n, asks
    <2>2. IsFiniteSet(theirs) /\ Cardinality(theirs) <= Cardinality(others)
      BY <1>2, <2>1, FS_Surjection
    <2> QED BY <1>2, <2>2
  <1>4. Cardinality(theirs) \in Nat
    BY <1>3, FS_CardinalityType
  <1>5. IsFiniteSet(used) /\ Cardinality(used) <= n
    <2> HIDE DEF n, theirs
    <2> QED BY <1>1, <1>3, <1>4, FS_AddElement
  <1>6. IsFiniteSet(Provider) /\ Cardinality(Provider) = n + 1
    BY <1>1, FS_Interval DEF Provider
  <1>7. ~(Provider \subseteq used)
    <2> SUFFICES ASSUME Provider \in SUBSET used PROVE FALSE
      OBVIOUS
    <2>1. Cardinality(Provider) <= Cardinality(used) /\ Cardinality(used) \in Nat
      <3> HIDE DEF used
      <3> QED BY <1>5, FS_Subset, FS_CardinalityType
    <2> HIDE DEF used, n
    <2> QED BY <1>1, <1>5, <1>6, <2>1
  <1>8. PICK q \in Provider : q \notin used
    BY <1>7
  <1>9. q # 0
    BY <1>1, <1>8 DEF Provider
  <1>10. q # cache.provider /\ \A d \in others : q # calls[d].provider
    BY <1>8
  <1> QED BY <1>8, <1>9, <1>10 DEF InUse

\* A new provider is in nobody's hands.
LEMMA BuildStep ==
  ASSUME Inv, NEW c \in Caller, calls[c].pc = "store", UNCHANGED <<now, config, refreshes>>,
         left' \in [Kinds -> Nat], Build(c)
  PROVE  Inv'
  <1>1. PICK k \in CallRecord : k = calls[c] /\ GoodCall(k)
    BY InACall
  <1>2. /\ k.pc = "store" /\ k.provider = 0 /\ k.asked = {} /\ k.began \in Nat /\ k.agent \in Row
        /\ now <= k.began + Delay /\ k.agent.id # 0 /\ k.agent.id \in DOMAIN replaced
        /\ Within(k.agent.id, k.began, IF k.op = "agent" THEN 0 ELSE Life)
    BY <1>1 DEF GoodCall, CallRecord, RowIds
  <1> DEFINE free == {q \in Provider : ~InUse(q)}
             p == Min(free)
             m == [k EXCEPT !.pc = "admit", !.provider = p]
             entry == [agent |-> k.agent, provider |-> p, expires |-> now + TTL]
             legs == [leg \in Legs |-> NotOpened]
  <1>3. /\ providers' = [providers EXCEPT ![p] = Fresh(k.agent)]
        /\ since' = [since EXCEPT ![p] = legs]
        /\ cache' = entry /\ Become(c, m)
    BY <1>1 DEF Build
  <1>4. p \in Provider /\ p # 0 /\ ~InUse(p)
    <2>1. Provider \subseteq Nat
      BY DEF Provider
    <2>2. free # {} /\ free \in SUBSET Nat
      BY <1>1, <1>2, <2>1, FreeProvider
    <2>3. p \in free
      <3>1. PICK S \in SUBSET Nat : S = free /\ S # {}
        BY <2>2
      <3>2. Min(S) \in S
        BY <3>1, Smallest
      <3> QED BY <3>1, <3>2
    <2>4. \A q \in Provider : q # 0
      BY CallersCounted DEF Provider
    <2>5. p \in Provider /\ ~InUse(p)
      BY <2>3
    <2> HIDE DEF p, free
    <2> QED BY <2>4, <2>5
  <1> HIDE DEF p
  <1>5. /\ m \in CallRecord /\ m.pc = "admit" /\ m.provider = p /\ m.began = k.began
        /\ m.agent = k.agent /\ m.asked = {}
    BY <1>2, <1>4 DEF CallRecord, Pcs
  <1>6. now \in Nat /\ TTL \in Nat /\ now <= now + TTL /\ Life \in Nat /\ Life = TTL + Delay
        /\ replaced[k.agent.id] \in Int
    BY <1>2, Constants DEF Inv, Typed
  <1>7. /\ entry \in [agent : Row, provider : {0} \union Provider, expires : Int]
        /\ entry.agent = k.agent /\ entry.provider = p /\ entry.expires = now + TTL
    BY <1>2, <1>4, <1>6
  <1>8. LET f == Fresh(k.agent) IN
        /\ f \in [agent : Row, breaker : [Legs -> Breakers]] /\ f.agent = k.agent
        /\ \A leg \in Legs : f.breaker[leg] = Closed
    <2>1. Closed \in Breakers
      BY Constants DEF Closed, Breakers
    <2> QED BY <1>2, <2>1 DEF Fresh
  <1> DEFINE f == Fresh(k.agent)
  <1>9. /\ f \in [agent : Row, breaker : [Legs -> Breakers]] /\ f.agent = k.agent
        /\ \A leg \in Legs : f.breaker[leg] = Closed
        /\ legs \in [Legs -> Openings] /\ \A leg \in Legs : legs[leg].late /\ legs[leg].at = 0
    BY <1>8 DEF NotOpened, Openings
  <1>10. Closed.openedAt = 0 /\ Closed.state = "closed"
    BY DEF Closed
  <1> HIDE DEF m, entry, f, free, legs
  <1>11. /\ providers' \in [Provider -> [agent : Row, breaker : [Legs -> Breakers]]]
         /\ providers'[p] = f /\ \A q \in Provider \ {p} : providers'[q] = providers[q]
    BY <1>3, <1>4, <1>9 DEF Inv, Typed, f
  <1>12. /\ since' \in [Provider -> [Legs -> Openings]]
         /\ since'[p] = legs /\ \A q \in Provider \ {p} : since'[q] = since[q]
    BY <1>3, <1>4, <1>9 DEF Inv, Typed
  <1>13. /\ calls' \in [Caller -> {Idle} \union CallRecord] /\ calls'[c] = m
         /\ \A d \in Caller \ {c} : calls'[d] = calls[d]
    BY <1>3, <1>5 DEF Become, Inv, Typed
  <1>14. UNCHANGED <<now, agent, replaced, route, conns, refreshes>>
    BY DEF config
  <1>15. Typed'
    BY <1>3, <1>7, <1>11, <1>12, <1>13, <1>14 DEF Inv, Typed
  <1>16. Past'
    BY <1>2, <1>3, <1>6, <1>7, <1>9, <1>10, <1>11, <1>12, <1>14 DEF Inv, Past, RowIds
  <1>17. ActiveStands'
    BY <1>14 DEF Inv, ActiveStands
  <1>18. CacheIsRecent'
    <2>1. cache'.agent = k.agent /\ cache'.provider = p /\ cache'.expires = now + TTL
      BY <1>3, <1>7
    <2>2. providers'[p].agent = k.agent
      BY <1>9, <1>11
    <2>3. replaced[k.agent.id] # -1 => now + TTL <= replaced[k.agent.id] + 2 * Life
      BY <1>2, <1>6, Constants DEF Within
    <2> QED BY <1>2, <1>4, <1>14, <2>1, <2>2, <2>3 DEF CacheIsRecent, Within
  <1>19. GoodCalls'
    <2> SUFFICES ASSUME NEW d \in Caller, calls'[d] # Idle PROVE GoodCall(calls[d])'
      BY DEF GoodCalls
    <2>1. CASE d = c
      <3>1. replaced[k.agent.id] # -1 => k.began <= replaced[k.agent.id] + 2 * Life
        BY <1>2, <1>6 DEF Within
      <3>2. providers'[p].agent = k.agent
        BY <1>9, <1>11
      <3>3. m.agent.id \in RowIds /\ m.began <= now
        BY <1>1, <1>5 DEF GoodCall
      <3> QED BY <1>2, <1>4, <1>5, <1>13, <1>14, <2>1, <3>1, <3>2, <3>3 DEF GoodCall, Within, RowIds
    <2>2. CASE d # c
      <3>1. PICK x : x = calls[d] /\ x = calls'[d] /\ GoodCall(x)
        BY <1>13, <2>2 DEF Inv, GoodCalls
      <3>2. x.provider # p
        BY <1>4, <1>13, <2>2, <3>1 DEF InUse
      <3>3. x.provider # 0 => x.provider \in Provider \ {p}
        BY <3>1, <3>2 DEF GoodCall, CallRecord
      <3> QED BY <1>11, <1>14, <3>1, <3>3 DEF GoodCall, Within, RowIds
    <2> QED BY <2>1, <2>2
  <1>20. BreakersRest'
    <2> SUFFICES ASSUME NEW q \in Provider, NEW leg \in Legs
                 PROVE  Rests(providers[q].breaker[leg], since[q][leg])'
      BY DEF BreakersRest
    <2>1. CASE q = p
      BY <1>9, <1>12, <2>1 DEF Rests
    <2>2. CASE q # p
      BY <1>11, <1>12, <1>14, <2>2 DEF Inv, BreakersRest, Rests
    <2> QED BY <2>1, <2>2
  <1> QED BY <1>15, <1>16, <1>17, <1>18, <1>19, <1>20 DEF Inv

\* AgentFor caches the agent without a provider.
LEMMA StoreAgentStep ==
  ASSUME Inv, NEW c \in Caller, calls[c].pc = "store", calls[c].op = "agent",
         UNCHANGED <<now, config, refreshes, providers, since>>, left' \in [Kinds -> Nat],
         cache' = [agent |-> calls[c].agent, provider |-> 0, expires |-> now + TTL],
         Become(c, Idle)
  PROVE  Inv'
  <1>1. PICK k \in CallRecord : k = calls[c] /\ GoodCall(k)
    BY InACall
  <1>2. /\ k.began \in Nat /\ k.agent \in Row
        /\ now <= k.began + Delay /\ k.agent.id # 0 /\ k.agent.id \in DOMAIN replaced
        /\ Within(k.agent.id, k.began, 0)
    BY <1>1 DEF GoodCall, CallRecord, RowIds
  <1>3. now \in Nat /\ TTL \in Nat /\ now <= now + TTL /\ Life \in Nat /\ Life = TTL + Delay
        /\ replaced[k.agent.id] \in Int
    BY <1>2, Constants DEF Inv, Typed
  <1>4. /\ cache' \in [agent : Row, provider : {0} \union Provider, expires : Int]
        /\ cache'.agent = k.agent /\ cache'.provider = 0 /\ cache'.expires = now + TTL
    BY <1>1, <1>2, <1>3
  <1>5. /\ calls' \in [Caller -> {Idle} \union CallRecord] /\ calls'[c] = Idle
        /\ \A d \in Caller \ {c} : calls'[d] = calls[d]
    BY DEF Become, Inv, Typed
  <1>6. UNCHANGED <<now, agent, replaced, route, conns, refreshes, providers, since>>
    BY DEF config
  <1>7. Typed'
    BY <1>4, <1>5, <1>6 DEF Inv, Typed
  <1>8. Past' /\ ActiveStands'
    BY <1>2, <1>3, <1>4, <1>6 DEF Inv, Past, RowIds, ActiveStands
  <1>9. CacheIsRecent'
    <2>1. replaced[k.agent.id] # -1 => now + TTL <= replaced[k.agent.id] + Life
      BY <1>2, <1>3, Constants DEF Within
    <2> QED BY <1>2, <1>4, <1>6, <2>1 DEF CacheIsRecent, Within
  <1>10. GoodCalls'
    <2> SUFFICES ASSUME NEW d \in Caller, calls'[d] # Idle PROVE GoodCall(calls[d])'
      BY DEF GoodCalls
    <2>1. PICK x : x = calls'[d]
      OBVIOUS
    <2>2. GoodCall(x)
      BY <1>5, <2>1 DEF Inv, GoodCalls
    <2>3. GoodCall(x)'
      BY <1>6, <2>2, GoodCallStays
    <2> QED BY <2>1, <2>3 DEF GoodCall, Within, RowIds
  <1>11. BreakersRest'
    BY <1>6 DEF Inv, BreakersRest, Rests
  <1> QED BY <1>7, <1>8, <1>9, <1>10, <1>11 DEF Inv

LEMMA StoreStep ==
  ASSUME Inv, NEW c \in Caller, Store(c)
  PROVE  Inv'
  <1>1. /\ calls[c].pc = "store" /\ UNCHANGED <<now, config, refreshes>>
        /\ left' \in [Kinds -> Nat]
    BY Unspent, Spending DEF Store, At, Kinds
  <1>2. CASE Build(c)
    BY <1>1, <1>2, BuildStep
  <1>3. CASE /\ calls[c].op = "agent"
             /\ cache' = [agent |-> calls[c].agent, provider |-> 0, expires |-> now + TTL]
             /\ Become(c, Idle) /\ UNCHANGED <<providers, since>>
    BY <1>1, <1>3, StoreAgentStep
  <1>4. CASE Become(c, Idle) /\ UNCHANGED legacy
    BY <1>1, <1>4, CallStep
  <1> QED BY <1>2, <1>3, <1>4 DEF Store

-----------------------------------------------------------------------------
(***************************************************************************)
(* The provider of an agent and its breakers.                              *)
(***************************************************************************)
\* A caller that is at a leg of its provider.
LEMMA AtLeg ==
  ASSUME Inv, NEW c \in Caller, calls[c].pc \in {"admit", "attempt"}
  PROVE  /\ calls[c] \in CallRecord /\ GoodCall(calls[c])
         /\ calls[c].provider \in Provider /\ calls[c].leg \in Legs
         /\ Breaker(c) \in Breakers /\ Breaker(c).openedAt <= now
         /\ Since(c) \in Openings /\ Since(c).at <= now /\ Rests(Breaker(c), Since(c))
  <1>1. calls[c] \in CallRecord /\ GoodCall(calls[c])
    BY InACall
  <1>2. calls[c].provider \in Provider /\ calls[c].leg \in Legs
    BY <1>1 DEF GoodCall, CallRecord
  <1>3. /\ Breaker(c) \in Breakers /\ Breaker(c).openedAt <= now
        /\ Since(c) \in Openings /\ Since(c).at <= now
    BY <1>2 DEF Breaker, Since, Inv, Typed, Past
  <1>4. Rests(Breaker(c), Since(c))
    BY <1>2 DEF Breaker, Since, Inv, BreakersRest
  <1> QED BY <1>1, <1>2, <1>3, <1>4

\* The breaker of a leg is set, and what happened since it opened is noted.
LEMMA LegStep ==
  ASSUME Inv, NEW c \in Caller, calls[c].pc \in {"admit", "attempt"},
         UNCHANGED <<now, config, cache, refreshes>>, left' \in [Kinds -> Nat],
         NEW k, k = Idle \/ GoodCall(k), Become(c, k),
         NEW b \in Breakers, b.openedAt <= now, NEW s \in Openings, s.at <= now,
         SetBreaker(c, b) \/ (UNCHANGED providers /\ b = Breaker(c)),
         NoteSince(c, s) \/ (UNCHANGED since /\ s = Since(c)),
         Rests(b, s)
  PROVE  Inv'
  <1> DEFINE p == calls[c].provider
             leg == calls[c].leg
  <1>1. p \in Provider /\ leg \in Legs
    BY AtLeg
  <1>2. /\ providers' \in [Provider -> [agent : Row, breaker : [Legs -> Breakers]]]
        /\ \A q \in Provider : providers'[q].agent = providers[q].agent
        /\ providers'[p].breaker[leg] = b
        /\ \A q \in Provider, l \in Legs :
              q # p \/ l # leg => providers'[q].breaker[l] = providers[q].breaker[l]
    <2>1. CASE SetBreaker(c, b)
      <3>1. providers' = [providers EXCEPT ![p].breaker[leg] = b]
        BY <2>1 DEF SetBreaker
      <3>2. providers \in [Provider -> [agent : Row, breaker : [Legs -> Breakers]]]
        BY DEF Inv, Typed
      <3> HIDE DEF p, leg
      <3> QED BY <1>1, <3>1, <3>2
    <2>2. CASE UNCHANGED providers /\ b = Breaker(c)
      BY <1>1, <2>2 DEF Breaker, Inv, Typed
    <2> QED BY <2>1, <2>2
  <1>3. /\ since' \in [Provider -> [Legs -> Openings]]
        /\ since'[p][leg] = s
        /\ \A q \in Provider, l \in Legs : q # p \/ l # leg => since'[q][l] = since[q][l]
    <2>1. CASE NoteSince(c, s)
      <3>1. since' = [since EXCEPT ![p][leg] = s]
        BY <2>1 DEF NoteSince
      <3>2. since \in [Provider -> [Legs -> Openings]]
        BY DEF Inv, Typed
      <3> HIDE DEF p, leg
      <3> QED BY <1>1, <3>1, <3>2
    <2>2. CASE UNCHANGED since /\ s = Since(c)
      BY <1>1, <2>2 DEF Since, Inv, Typed
    <2> QED BY <2>1, <2>2
  <1> HIDE DEF p, leg
  <1>4. \A q \in Provider, l \in Legs : providers'[q].breaker[l].openedAt <= now /\ since'[q][l].at <= now
    BY <1>1, <1>2, <1>3 DEF Inv, Past
  <1>5. BreakersRest'
    <2> SUFFICES ASSUME NEW q \in Provider, NEW l \in Legs
                 PROVE  Rests(providers[q].breaker[l], since[q][l])'
      BY DEF BreakersRest
    <2>1. CASE q = p /\ l = leg
      BY <1>2, <1>3, <2>1 DEF Rests
    <2>2. CASE q # p \/ l # leg
      BY <1>2, <1>3, <2>2 DEF Inv, BreakersRest, Rests
    <2> QED BY <2>1, <2>2
  <1> QED BY <1>2, <1>3, <1>4, <1>5, BreakerStep

\* The call goes on to the backup or ends.
LEMMA LegFailsTo ==
  ASSUME Inv, NEW c \in Caller, calls[c].pc \in {"admit", "attempt"}, NEW outcome,
         LegFails(c, outcome)
  PROVE  \E k : (k = Idle \/ GoodCall(k)) /\ Become(c, k)
  <1>1. CASE Become(c, Idle)
    BY <1>1
  <1>2. CASE Become(c, [calls[c] EXCEPT !.pc = "admit", !.leg = "backup", !.tries = 0])
    <2>1. PICK k \in CallRecord : k = calls[c] /\ GoodCall(k) /\ k.pc \in {"admit", "attempt"}
      BY AtLeg
    <2> DEFINE m == [k EXCEPT !.pc = "admit", !.leg = "backup", !.tries = 0]
    <2>2. /\ m \in CallRecord /\ m.pc = "admit" /\ m.provider = k.provider /\ m.began = k.began
          /\ m.agent = k.agent /\ m.asked = k.asked
      <3>1. 0 \in 0..MaxRetries /\ "backup" \in Legs /\ "admit" \in Pcs
        BY Constants DEF Legs, Pcs
      <3> QED BY <2>1, <3>1 DEF CallRecord
    <2>3. Become(c, m)
      BY <1>2, <2>1
    <2> HIDE DEF m
    <2>4. GoodCall(m)
      BY <2>1, <2>2 DEF GoodCall
    <2> QED BY <2>3, <2>4
  <1> QED BY <1>1, <1>2 DEF LegFails

\* Within the same call, pc, tries and whether the client is there may change.
LEMMA SameCall ==
  ASSUME NEW k, GoodCall(k), NEW m \in CallRecord, m.pc = k.pc,
         m.op = k.op, m.pin = k.pin, m.began = k.began, m.agent = k.agent,
         m.provider = k.provider, m.route = k.route, m.asked = k.asked
  PROVE  GoodCall(m)
  BY DEF GoodCall

\* A breaker that rests lets nobody through, and one that is past its cooldown goes on so.
LEMMA AllowKeeps ==
  ASSUME now \in Nat, NEW b \in Breakers, NEW s \in Openings, Rests(b, s)
  PROVE  /\ Allow(b).breaker \in Breakers /\ Allow(b).breaker.openedAt = b.openedAt
         /\ Allow(b).ok => s.late \/ now >= s.at + Cooldown
         /\ ~Allow(b).ok => Allow(b).breaker = b
  <1>1. b.openedAt \in Nat /\ s.at \in Nat /\ Cooldown \in Nat
    BY Constants DEF Breakers, Openings
  <1>2. Allow(b).breaker \in Breakers /\ Allow(b).breaker.openedAt = b.openedAt
    BY DEF Allow, Breakers
  <1>3. ASSUME Allow(b).ok, ~s.late
        PROVE  now >= s.at + Cooldown
    <2>1. SUFFICES ASSUME now < s.at + Cooldown PROVE FALSE
      BY <1>1
    <2>2. b.state = "open" /\ b.openedAt = s.at
      BY <1>3, <2>1 DEF Rests
    <2> QED BY <1>1, <1>3, <2>1, <2>2 DEF Allow
  <1>4. ~Allow(b).ok => Allow(b).breaker = b
    BY DEF Allow
  <1> QED BY <1>2, <1>3, <1>4

LEMMA AdmitStep ==
  ASSUME Inv, NEW c \in Caller, Admit(c)
  PROVE  /\ Inv'
         /\ At(c, "attempt")' => Since(c).late \/ now >= Since(c).at + Cooldown
  <1> DEFINE a == Allow(Breaker(c))
  <1>1. /\ calls[c].pc = "admit" /\ UNCHANGED <<now, config, cache, refreshes>>
        /\ left' \in [Kinds -> Nat] /\ SetBreaker(c, a.breaker)
    BY Unspent DEF Admit, At
  <1>2. PICK k \in CallRecord : k = calls[c] /\ GoodCall(k)
    BY <1>1, AtLeg
  <1>3. PICK s \in Openings : s = Since(c) /\ s.at <= now /\ Rests(Breaker(c), s)
    BY <1>1, AtLeg
  <1>4. /\ Breaker(c) \in Breakers /\ Breaker(c).openedAt <= now /\ now \in Nat
    BY <1>1, AtLeg DEF Inv, Typed
  <1>5. /\ a.breaker \in Breakers /\ a.breaker.openedAt <= now
        /\ a.ok => s.late \/ now >= s.at + Cooldown
        /\ ~a.ok => a.breaker = Breaker(c)
    BY <1>3, <1>4, AllowKeeps
  <1> HIDE DEF a
  <1>6. CASE a.ok
    <2> DEFINE m == [k EXCEPT !.pc = "attempt"]
               e == [s EXCEPT !.calls = @ \union {c}]
    <2>1. /\ m \in CallRecord /\ m.pc = "attempt" /\ m.provider = k.provider /\ m.began = k.began
          /\ m.agent = k.agent /\ m.asked = k.asked /\ k.pc = "admit"
      BY <1>1, <1>2 DEF CallRecord, Pcs
    <2>2. Become(c, m) /\ NoteSince(c, e)
      BY <1>2, <1>3, <1>6 DEF Admit, Goto, a, AfterEntry
    <2> HIDE DEF m
    <2>3. GoodCall(m)
      BY <1>2, <2>1 DEF GoodCall
    <2>4. e \in Openings /\ e.at = s.at /\ e.late = s.late
      BY <1>3 DEF Openings
    <2> HIDE DEF e
    <2>5. s.at \in Nat /\ Cooldown \in Nat
      BY Constants DEF Openings
    <2>6. Rests(a.breaker, e) /\ e.at <= now
      BY <1>3, <1>4, <1>5, <1>6, <2>4, <2>5 DEF Rests
    <2>7. Inv'
      BY <1>1, <1>5, <2>2, <2>3, <2>4, <2>6, LegStep
    <2> QED BY <1>3, <1>5, <1>6, <2>7
  <1>7. CASE ~a.ok
    <2>1. LegFails(c, "circuit open") /\ UNCHANGED since
      BY <1>7 DEF Admit, a
    <2>2. PICK m : (m = Idle \/ GoodCall(m)) /\ Become(c, m)
      BY <1>1, <2>1, LegFailsTo
    <2>3. Inv'
      BY <1>1, <1>3, <1>4, <1>5, <1>7, <2>1, <2>2, LegStep
    <2>4. calls'[c].pc # "attempt"
      <3>1. calls \in [Caller -> {Idle} \union CallRecord]
        BY DEF Inv, Typed
      <3>2. [calls[c] EXCEPT !.pc = "admit", !.leg = "backup", !.tries = 0].pc = "admit"
        BY <1>2 DEF CallRecord
      <3> QED BY <2>1, <3>1, <3>2 DEF LegFails, Become, Idle
    <2> QED BY <2>3, <2>4 DEF At
  <1> QED BY <1>6, <1>7

LEMMA Records ==
  ASSUME NEW b \in Breakers, b.openedAt <= now, now \in Nat
  PROVE  /\ RecordFailure(b) \in Breakers /\ RecordFailure(b).openedAt <= now
         /\ RecordSuccess(b) \in Breakers /\ RecordSuccess(b).openedAt <= now
         /\ Trips(b) => RecordFailure(b).state = "open" /\ RecordFailure(b).openedAt = now
         /\ ~Trips(b) => /\ RecordFailure(b).state = b.state
                          /\ RecordFailure(b).openedAt = b.openedAt
         /\ RecordSuccess(b).openedAt = b.openedAt
  <1>1. /\ b.failures \in 0..Threshold /\ Threshold \in Nat \ {0} /\ now <= now
        /\ 0 \in 0..Threshold /\ Threshold \in 0..Threshold
    BY Constants DEF Breakers
  <1>2. RecordSuccess(b) \in Breakers /\ RecordSuccess(b).openedAt = b.openedAt
    <2>1. ASSUME NEW n \in 0..Threshold
          PROVE  /\ [b EXCEPT !.state = "closed", !.failures = n] \in Breakers
                 /\ [b EXCEPT !.state = "closed", !.failures = n].openedAt = b.openedAt
      BY DEF Breakers
    <2>2. RecordSuccess(b) = [b EXCEPT !.state = "closed", !.failures = 0]
      BY DEF RecordSuccess
    <2>3. /\ [b EXCEPT !.state = "closed", !.failures = 0] \in Breakers
          /\ [b EXCEPT !.state = "closed", !.failures = 0].openedAt = b.openedAt
      BY <1>1, <2>1
    <2> QED BY <2>2, <2>3
  <1>3. CASE b.state = "half-open"
    <2>1. ASSUME NEW t \in Nat
          PROVE  /\ [b EXCEPT !.state = "open", !.openedAt = t] \in Breakers
                 /\ [b EXCEPT !.state = "open", !.openedAt = t].openedAt = t
                 /\ [b EXCEPT !.state = "open", !.openedAt = t].state = "open"
      BY DEF Breakers
    <2>2. RecordFailure(b) = [b EXCEPT !.state = "open", !.openedAt = now]
      BY <1>3 DEF RecordFailure
    <2>3. /\ [b EXCEPT !.state = "open", !.openedAt = now] \in Breakers
          /\ [b EXCEPT !.state = "open", !.openedAt = now].openedAt = now
          /\ [b EXCEPT !.state = "open", !.openedAt = now].state = "open"
      BY <2>1
    <2>4. Trips(b)
      BY <1>3 DEF Trips
    <2> QED BY <1>1, <1>2, <2>2, <2>3, <2>4
  <1>4. CASE b.state # "half-open" /\ b.failures + 1 < Threshold
    <2> DEFINE n == b.failures + 1
    <2>1. n \in 0..Threshold
      BY <1>1, <1>4
    <2>2. RecordFailure(b) = [b EXCEPT !.failures = n]
      BY <1>4 DEF RecordFailure
    <2> HIDE DEF n
    <2>3. /\ [b EXCEPT !.failures = n] \in Breakers /\ [b EXCEPT !.failures = n].openedAt = b.openedAt
          /\ [b EXCEPT !.failures = n].state = b.state
      BY <2>1 DEF Breakers
    <2>4. ~Trips(b)
      BY <1>1, <1>4 DEF Trips
    <2> QED BY <1>1, <1>2, <2>2, <2>3, <2>4
  <1>5. CASE b.state # "half-open" /\ ~(b.failures + 1 < Threshold)
    <2>1. ASSUME NEW n \in 0..Threshold, NEW t \in Nat
          PROVE  /\ [b EXCEPT !.failures = n, !.state = "open", !.openedAt = t] \in Breakers
                 /\ [b EXCEPT !.failures = n, !.state = "open", !.openedAt = t].openedAt = t
                 /\ [b EXCEPT !.failures = n, !.state = "open", !.openedAt = t].state = "open"
      BY DEF Breakers
    <2>2. RecordFailure(b) = [b EXCEPT !.failures = Threshold, !.state = "open", !.openedAt = now]
      BY <1>5 DEF RecordFailure
    <2>3. /\ [b EXCEPT !.failures = Threshold, !.state = "open", !.openedAt = now] \in Breakers
          /\ [b EXCEPT !.failures = Threshold, !.state = "open", !.openedAt = now].openedAt = now
          /\ [b EXCEPT !.failures = Threshold, !.state = "open", !.openedAt = now].state = "open"
      BY <1>1, <2>1
    <2>4. Trips(b)
      BY <1>1, <1>5 DEF Trips
    <2> QED BY <1>1, <1>2, <2>2, <2>3, <2>4
  <1> QED BY <1>2, <1>3, <1>4, <1>5

\* What became of an attempt, with the breaker told about it or not.
LEMMA AttemptStep ==
  ASSUME Inv, NEW c \in Caller, Attempt(c)
  PROVE  Inv'
  <1>1. /\ calls[c].pc = "attempt" /\ UNCHANGED <<now, config, cache, refreshes>>
        /\ left' \in [Kinds -> Nat]
    BY Unspent, Spending DEF Attempt, At, Kinds
  <1>2. PICK outcome : IF calls[c].op = "stream" THEN Stream(c, outcome) ELSE Generate(c, outcome)
    BY DEF Attempt
  <1>3. PICK k \in CallRecord : k = calls[c] /\ GoodCall(k) /\ k.pc = "attempt"
    BY <1>1, AtLeg
  <1> DEFINE old == Breaker(c)
             s == Since(c)
  <1>4. /\ old \in Breakers /\ old.openedAt <= now /\ s \in Openings /\ s.at <= now
        /\ Rests(old, s) /\ now \in Nat
    BY <1>1, AtLeg DEF Inv, Typed
  <1> DEFINE rest == [s EXCEPT !.calls = @ \ {c}]
  <1>5. /\ rest \in Openings /\ rest.at = s.at /\ rest.late = s.late
        /\ s.calls = {} => rest.calls = {}
    BY <1>4 DEF Openings
  <1> HIDE DEF rest
  <1>8. rest.at <= now /\ Rests(old, rest)
    BY <1>4, <1>5 DEF Rests
  <1>9. AfterLeaving(c) = rest
    BY DEF AfterLeaving, rest
  <1> HIDE DEF old, s
  <1>6. CASE Stream(c, outcome)
    <2>1. UNCHANGED providers /\ NoteSince(c, rest) /\ old = Breaker(c)
      BY <1>6, <1>9 DEF Stream, old
    <2>2. CASE LegFails(c, outcome)
      <3>1. PICK m : (m = Idle \/ GoodCall(m)) /\ Become(c, m)
        BY <1>1, <2>2, LegFailsTo
      <3> QED BY <1>1, <1>4, <1>5, <1>8, <2>1, <3>1, LegStep
    <2>3. CASE Goto(c, "stream")
      <3> DEFINE m == [k EXCEPT !.pc = "stream"]
      <3>1. /\ m \in CallRecord /\ m.pc = "stream" /\ m.provider = k.provider /\ m.began = k.began
            /\ m.agent = k.agent /\ m.asked = {}
        BY <1>3 DEF CallRecord, Pcs, GoodCall
      <3>2. Become(c, m)
        BY <1>3, <2>3 DEF Goto
      <3> HIDE DEF m
      <3>3. GoodCall(m)
        BY <1>3, <3>1 DEF GoodCall
      <3> QED BY <1>1, <1>4, <1>5, <1>8, <2>1, <3>2, <3>3, LegStep
    <2> QED BY <1>6, <2>2, <2>3 DEF Stream
  <1>7. CASE Generate(c, outcome)
    <2>1. CASE outcome = "ok"
      <3> DEFINE b == RecordSuccess(old)
                 answered == [rest EXCEPT !.late = @ \/ c \notin s.calls]
      <3>1. SetBreaker(c, b) /\ NoteSince(c, answered) /\ Become(c, Idle)
        BY <1>7, <1>9, <2>1 DEF Generate, AfterAnswer, old, s
      <3>2. b \in Breakers /\ b.openedAt <= now
        BY <1>4, Records
      <3>3. /\ answered \in Openings /\ answered.at = s.at
            /\ answered.late = (s.late \/ c \notin s.calls)
        BY <1>5 DEF Openings
      <3> HIDE DEF b, answered
      <3>4. Rests(b, answered)
        <4>1. s.late \/ c \notin s.calls \/ ~(now < s.at + Cooldown)
          BY <1>4 DEF Rests
        <4> QED BY <3>3, <4>1 DEF Rests
      <3> QED BY <1>1, <1>4, <3>1, <3>2, <3>3, <3>4, LegStep
    <2>2. CASE Become(c, [calls[c] EXCEPT !.tries = @ + 1]) /\ UNCHANGED <<providers, since>>
                 /\ calls[c].tries < MaxRetries
      <3> DEFINE n == k.tries + 1
                 m == [k EXCEPT !.tries = n]
      <3>1. n \in 0..MaxRetries
        BY <1>3, <2>2, Constants DEF CallRecord
      <3>2. Become(c, m)
        BY <1>3, <2>2
      <3> HIDE DEF n
      <3>3. /\ m \in CallRecord /\ m.pc = k.pc /\ m.op = k.op /\ m.pin = k.pin /\ m.began = k.began
            /\ m.agent = k.agent /\ m.provider = k.provider /\ m.route = k.route /\ m.asked = k.asked
        BY <1>3, <3>1 DEF CallRecord
      <3> HIDE DEF m
      <3>4. GoodCall(m)
        BY <1>3, <3>3, SameCall
      <3>5. UNCHANGED <<now, config, legacy, refreshes>>
        BY <1>1, <2>2 DEF legacy
      <3> QED BY <1>1, <3>2, <3>4, <3>5, CallStep
    <2>3. ASSUME SetBreaker(c, RecordFailure(old)), LegFails(c, outcome), NoteSince(c, AfterFailure(c))
          PROVE  Inv'
      <3> DEFINE b == RecordFailure(old)
                 opened == [at |-> now, calls |-> {}, late |-> FALSE]
      <3>1. PICK e : e = (IF Trips(old) THEN opened ELSE rest) /\ NoteSince(c, e) /\ SetBreaker(c, b)
        BY <1>9, <2>3 DEF AfterFailure, old
      <3>2. /\ b \in Breakers /\ b.openedAt <= now
            /\ Trips(old) => b.state = "open" /\ b.openedAt = now
            /\ ~Trips(old) => b.state = old.state /\ b.openedAt = old.openedAt
        BY <1>4, Records
      <3>3. opened \in Openings
        BY <1>4 DEF Openings
      <3> HIDE DEF b
      <3>4. e \in Openings /\ e.at <= now
        BY <1>4, <1>5, <1>8, <3>1, <3>3
      <3>5. Rests(b, e)
        BY <1>8, <3>1, <3>2 DEF Rests
      <3>6. PICK m : (m = Idle \/ GoodCall(m)) /\ Become(c, m)
        BY <1>1, <2>3, LegFailsTo
      <3> QED BY <1>1, <3>1, <3>2, <3>4, <3>5, <3>6, LegStep
    <2> QED BY <1>7, <2>1, <2>2, <2>3 DEF Generate, old
  <1> QED BY <1>2, <1>6, <1>7

-----------------------------------------------------------------------------
(***************************************************************************)
(* A routed call.                                                          *)
(***************************************************************************)
LEMMA CheckAgentStep ==
  ASSUME Inv, NEW c \in Caller, CheckAgent(c)
  PROVE  Inv'
  <1>1. /\ calls[c].pc = "agent" /\ UNCHANGED <<now, config, legacy, refreshes>>
        /\ left' \in [Kinds -> Nat]
    BY Unspent, Spending DEF CheckAgent, At, Kinds
  <1>2. PICK k \in CallRecord : k = calls[c] /\ GoodCall(k)
    BY <1>1, InACall
  <1>3. CASE Become(c, Idle)
    BY <1>1, <1>3, CallStep
  <1>4. CASE Goto(c, "select")
    <2> DEFINE m == [k EXCEPT !.pc = "select"]
    <2>1. /\ m \in CallRecord /\ m.pc = "select" /\ m.began = k.began /\ m.agent = k.agent
          /\ m.asked = {} /\ m.route = k.route /\ k.route \in RouteRow
      BY <1>1, <1>2 DEF CallRecord, Pcs, GoodCall
    <2>2. Become(c, m)
      BY <1>2, <1>4 DEF Goto
    <2> HIDE DEF m
    <2>3. GoodCall(m)
      BY <1>2, <2>1 DEF GoodCall
    <2> QED BY <1>1, <2>2, <2>3, CallStep
  <1> QED BY <1>3, <1>4 DEF CheckAgent

\* A chosen candidate is the selected one; the rest stands behind it only where the route
\* allows substitution.
LEMMA SelectionFits ==
  ASSUME NEW r \in RouteRow, NEW pin \in Pinned, NEW s, s = SelectCandidates(r, pin)
  PROVE  /\ s \in Seq(Candidates)
         /\ ~r.substitution => \A i \in DOMAIN s : Fits(s[i], pin)
  <1> DEFINE cands == r.cands
             may == Selectable(cands, pin)
             i == Min(may)
             chosen == Chosen(cands[i], pin)
  <1>1. cands \in Seq(Candidates)
    BY DEF RouteRow
  <1> HIDE DEF cands
  <1>2. CASE pin = NoPin
    <2>1. s = cands
      BY <1>2 DEF SelectCandidates, cands
    <2>2. \A cand : Fits(cand, pin)
      BY <1>2 DEF Fits, NoPin
    <2> QED BY <1>1, <2>1, <2>2
  <1>3. CASE pin # NoPin /\ may = {}
    <2>1. s = <<>>
      BY <1>3 DEF SelectCandidates, cands
    <2> QED BY <2>1
  <1>4. CASE pin # NoPin /\ may # {}
    <2>1. i \in may /\ i \in DOMAIN cands /\ pin.conn \in {0, cands[i].conn}
      <3>1. may \in SUBSET Nat
        BY <1>1 DEF Selectable
      <3>2. i \in may
        <4> HIDE DEF may
        <4> QED BY <1>4, <3>1, Smallest
      <3> HIDE DEF i
      <3> QED BY <3>2 DEF Selectable
    <2> HIDE DEF i, may
    <2>2. cands[i] \in Candidates /\ i \in Nat /\ 1 <= i /\ i <= Len(cands) /\ Len(cands) \in Nat
      BY <1>1, <2>1
    <2>3. chosen \in Candidates /\ Fits(chosen, pin)
      <3>1. PICK cand \in Candidates : cand = cands[i]
        BY <2>2
      <3>2. CASE pin.model = ""
        BY <2>1, <3>1, <3>2 DEF Chosen, Fits
      <3>3. CASE pin.model # ""
        <4>1. pin.model \in Model
          BY <3>3 DEF Pinned
        <4>2. chosen = [cand EXCEPT !.model = pin.model]
          BY <3>1, <3>3 DEF Chosen
        <4>3. chosen \in Candidates /\ chosen.conn = cand.conn /\ chosen.model = pin.model
          BY <4>1, <4>2 DEF Candidates
        <4> QED BY <2>1, <3>1, <4>3 DEF Fits
      <3> QED BY <3>2, <3>3
    <2> HIDE DEF chosen
    <2>4. /\ <<chosen>> \in Seq(Candidates)
          /\ \A j \in DOMAIN <<chosen>> : Fits(<<chosen>>[j], pin)
      BY <2>3
    <2>5. CASE ~r.substitution
      <3>1. s = <<chosen>>
        BY <1>4, <2>5 DEF SelectCandidates, cands, i, may, chosen
      <3> QED BY <2>4, <3>1
    <2>6. CASE r.substitution
      <3>1. s = <<chosen>> \o RemoveAt(cands, i)
        BY <1>4, <2>6 DEF SelectCandidates, cands, i, may, chosen
      <3>2. SubSeq(cands, 1, i - 1) \in Seq(Candidates)
        <4>1. i - 1 \in Int /\ \A j \in 1..i - 1 : cands[j] \in Candidates
          BY <1>1, <2>2
        <4> QED BY <4>1, SubSeqProperties
      <3>3. SubSeq(cands, i + 1, Len(cands)) \in Seq(Candidates)
        <4>1. i + 1 \in Int /\ Len(cands) \in Int
              /\ \A j \in i + 1..Len(cands) : cands[j] \in Candidates
          BY <1>1, <2>2
        <4> QED BY <4>1, SubSeqProperties
      <3>4. RemoveAt(cands, i) \in Seq(Candidates)
        BY <3>2, <3>3, ConcatProperties DEF RemoveAt
      <3> QED BY <2>4, <2>6, <3>1, <3>4, ConcatProperties
    <2> QED BY <2>5, <2>6
  <1> QED BY <1>2, <1>3, <1>4

LEMMA SelectStep ==
  ASSUME Inv, NEW c \in Caller, Select(c)
  PROVE  Inv'
  <1>1. /\ calls[c].pc = "select" /\ UNCHANGED <<now, config, legacy, refreshes>>
        /\ left' \in [Kinds -> Nat]
    BY Unspent DEF Select, At
  <1>2. PICK k \in CallRecord : k = calls[c] /\ GoodCall(k)
    BY <1>1, InACall
  <1>3. k.route \in RouteRow /\ k.pin \in Pinned /\ k.asked = {} /\ k.pc = "select"
    BY <1>1, <1>2 DEF GoodCall, CallRecord
  <1>4. PICK cands : cands = SelectCandidates(k.route, k.pin)
    OBVIOUS
  <1>5. CASE cands = <<>>
    <2>1. Become(c, Idle)
      BY <1>2, <1>4, <1>5 DEF Select
    <2> QED BY <1>1, <2>1, CallStep
  <1>6. CASE cands # <<>>
    <2> DEFINE r == [k.route EXCEPT !.cands = cands]
               m == [k EXCEPT !.pc = "load", !.route = r]
    <2>1. /\ cands \in Seq(Candidates)
          /\ ~k.route.substitution => \A i \in DOMAIN cands : Fits(cands[i], k.pin)
      BY <1>3, <1>4, SelectionFits
    <2>2. r \in RouteRow /\ r.cands = cands /\ r.substitution = k.route.substitution
      BY <1>3, <2>1 DEF RouteRow
    <2>3. Become(c, m)
      BY <1>2, <1>4, <1>6 DEF Select
    <2> HIDE DEF r
    <2>4. /\ m \in CallRecord /\ m.pc = "load" /\ m.began = k.began /\ m.agent = k.agent
          /\ m.asked = {} /\ m.route = r /\ m.pin = k.pin
      BY <1>3, <2>2 DEF CallRecord, Pcs
    <2> HIDE DEF m
    <2>5. GoodCall(m)
      BY <1>2, <2>1, <2>2, <2>4 DEF GoodCall
    <2> QED BY <1>1, <2>3, <2>5, CallStep
  <1> QED BY <1>5, <1>6

\* A routed call that has its candidates.
LEMMA AtCandidates ==
  ASSUME Inv, NEW c \in Caller, calls[c].pc \in {"load", "ask"}
  PROVE  \E k \in CallRecord :
            /\ k = calls[c] /\ GoodCall(k) /\ k.route \in RouteRow
            /\ ~k.route.substitution =>
                  /\ \A cand \in k.asked : Fits(cand, k.pin)
                  /\ \A i \in DOMAIN k.route.cands : Fits(k.route.cands[i], k.pin)
  BY InACall DEF GoodCall

LEMMA CandidateFailsTo ==
  ASSUME Inv, NEW c \in Caller, calls[c].pc \in {"load", "ask"}, NEW outcome,
         CandidateFails(c, outcome)
  PROVE  \E k : (k = Idle \/ GoodCall(k)) /\ Become(c, k)
  <1>1. CASE Become(c, Idle)
    BY <1>1
  <1>2. CASE Become(c, [calls[c] EXCEPT !.pc = "load", !.next = @ + 1, !.attempts = @ + 1])
    <2>1. PICK k \in CallRecord :
            /\ k = calls[c] /\ GoodCall(k) /\ k.route \in RouteRow
            /\ ~k.route.substitution =>
                  /\ \A cand \in k.asked : Fits(cand, k.pin)
                  /\ \A i \in DOMAIN k.route.cands : Fits(k.route.cands[i], k.pin)
      BY AtCandidates
    <2> DEFINE n == k.next + 1
               a == k.attempts + 1
               m == [k EXCEPT !.pc = "load", !.next = n, !.attempts = a]
    <2>2. n \in Nat \ {0} /\ a \in Nat
      BY DEF CallRecord
    <2>3. Become(c, m)
      BY <1>2, <2>1
    <2> HIDE DEF n, a
    <2>4. /\ m \in CallRecord /\ m.pc = "load" /\ m.began = k.began /\ m.agent = k.agent
          /\ m.asked = k.asked /\ m.route = k.route /\ m.pin = k.pin
      BY <2>2 DEF CallRecord, Pcs
    <2> HIDE DEF m
    <2>5. GoodCall(m)
      BY <2>1, <2>4 DEF GoodCall
    <2> QED BY <2>3, <2>5
  <1> QED BY <1>1, <1>2 DEF CandidateFails

LEMMA LoadCandidateStep ==
  ASSUME Inv, NEW c \in Caller, LoadCandidate(c)
  PROVE  Inv'
  <1>1. /\ calls[c].pc = "load" /\ UNCHANGED <<now, config, legacy, refreshes>>
        /\ left' \in [Kinds -> Nat]
    BY Unspent, Spending DEF LoadCandidate, At, Kinds
  <1>2. PICK k \in CallRecord :
            /\ k = calls[c] /\ GoodCall(k) /\ k.route \in RouteRow
            /\ ~k.route.substitution =>
                  /\ \A cand \in k.asked : Fits(cand, k.pin)
                  /\ \A i \in DOMAIN k.route.cands : Fits(k.route.cands[i], k.pin)
    BY <1>1, AtCandidates
  <1>3. CASE Become(c, Idle)
    BY <1>1, <1>3, CallStep
  <1>4. CASE Become(c, [calls[c] EXCEPT !.next = @ + 1])
    <2> DEFINE n == k.next + 1
               m == [k EXCEPT !.next = n]
    <2>1. n \in Nat \ {0}
      BY DEF CallRecord
    <2>2. Become(c, m)
      BY <1>2, <1>4
    <2> HIDE DEF n
    <2>3. /\ m \in CallRecord /\ m.pc = k.pc /\ m.op = k.op /\ m.pin = k.pin /\ m.began = k.began
          /\ m.agent = k.agent /\ m.provider = k.provider /\ m.route = k.route /\ m.asked = k.asked
      BY <2>1 DEF CallRecord
    <2> HIDE DEF m
    <2>4. GoodCall(m)
      BY <1>2, <2>3, SameCall
    <2> QED BY <1>1, <2>2, <2>4, CallStep
  <1>5. CASE /\ k.next <= Len(k.route.cands)
             /\ Become(c, [calls[c] EXCEPT !.pc = "ask", !.asked = @ \union {Cand(c)}])
    <2>1. PICK cand : cand = k.route.cands[k.next]
      OBVIOUS
    <2>2. k.next \in DOMAIN k.route.cands /\ cand \in Candidates
      <3>1. k.route.cands \in Seq(Candidates) /\ k.next \in Nat \ {0}
        BY <1>2 DEF RouteRow, CallRecord
      <3>2. k.next \in 1..Len(k.route.cands)
        BY <1>5, <3>1
      <3> QED BY <2>1, <3>1, <3>2
    <2> DEFINE S == k.asked \union {cand}
               m == [k EXCEPT !.pc = "ask", !.asked = S]
    <2>3. S \in SUBSET Candidates
      BY <2>2 DEF CallRecord
    <2>4. Become(c, m)
      BY <1>2, <1>5, <2>1 DEF Cand
    <2>5. ~k.route.substitution => \A x \in S : Fits(x, k.pin)
      BY <1>2, <2>1, <2>2
    <2> HIDE DEF S
    <2>6. /\ m \in CallRecord /\ m.pc = "ask" /\ m.began = k.began /\ m.agent = k.agent
          /\ m.asked = S /\ m.route = k.route /\ m.pin = k.pin
      BY <2>3 DEF CallRecord, Pcs
    <2> HIDE DEF m
    <2>7. GoodCall(m)
      BY <1>2, <2>5, <2>6 DEF GoodCall
    <2> QED BY <1>1, <2>4, <2>7, CallStep
  <1>6. CASE \E outcome : CandidateFails(c, outcome)
    <2>1. PICK m : (m = Idle \/ GoodCall(m)) /\ Become(c, m)
      BY <1>1, <1>6, CandidateFailsTo
    <2> QED BY <1>1, <2>1, CallStep
  <1>7. k.next \in Nat /\ Len(k.route.cands) \in Nat
    BY <1>2 DEF RouteRow, CallRecord
  <1>8. k.next <= Len(k.route.cands) \/ k.next > Len(k.route.cands)
    BY <1>7
  <1> QED BY <1>2, <1>3, <1>4, <1>5, <1>6, <1>8 DEF LoadCandidate

\* An open stream has asked what it was to ask.
LEMMA ToStream ==
  ASSUME Inv, NEW c \in Caller, calls[c].pc \in {"load", "ask"}, Goto(c, "stream")
  PROVE  \E k : (k = Idle \/ GoodCall(k)) /\ Become(c, k)
  <1>1. PICK k \in CallRecord : k = calls[c] /\ GoodCall(k) /\ k.route \in RouteRow
    BY AtCandidates
  <1> DEFINE m == [k EXCEPT !.pc = "stream"]
  <1>2. Become(c, m)
    BY <1>1 DEF Goto
  <1>3. /\ m \in CallRecord /\ m.pc = "stream" /\ m.began = k.began /\ m.agent = k.agent
        /\ m.asked = k.asked /\ m.route = k.route /\ m.pin = k.pin
    BY DEF CallRecord, Pcs
  <1> HIDE DEF m
  <1>4. GoodCall(m)
    BY <1>1, <1>3 DEF GoodCall
  <1> QED BY <1>2, <1>4

LEMMA AskStep ==
  ASSUME Inv, NEW c \in Caller, Ask(c)
  PROVE  Inv'
  <1>1. /\ calls[c].pc = "ask" /\ UNCHANGED <<now, config, legacy, refreshes>>
        /\ left' \in [Kinds -> Nat]
    BY Unspent, Spending DEF Ask, At, Kinds
  <1>2. CASE Become(c, Idle)
    BY <1>1, <1>2, CallStep
  <1>3. CASE Goto(c, "stream")
    <2>1. PICK m : (m = Idle \/ GoodCall(m)) /\ Become(c, m)
      BY <1>1, <1>3, ToStream
    <2> QED BY <1>1, <2>1, CallStep
  <1>4. CASE \E outcome : CandidateFails(c, outcome)
    <2>1. PICK m : (m = Idle \/ GoodCall(m)) /\ Become(c, m)
      BY <1>1, <1>4, CandidateFailsTo
    <2> QED BY <1>1, <2>1, CallStep
  <1> QED BY <1>2, <1>3, <1>4 DEF Ask

LEMMA StreamEndsStep ==
  ASSUME Inv, NEW c \in Caller, StreamEnds(c)
  PROVE  Inv'
  <1>1. /\ Become(c, Idle) /\ UNCHANGED <<now, config, legacy, refreshes>>
        /\ left' \in [Kinds -> Nat]
    BY Unspent DEF StreamEnds
  <1> QED BY <1>1, CallStep

LEMMA CancelStep ==
  ASSUME Inv, NEW c \in Caller, Cancel(c)
  PROVE  Inv'
  <1>1. /\ calls[c].pc # "idle" /\ UNCHANGED <<now, config, legacy, refreshes>>
        /\ left' \in [Kinds -> Nat]
    BY Spending DEF Cancel, Kinds
  <1>2. PICK k \in CallRecord : k = calls[c] /\ GoodCall(k)
    BY <1>1, InACall
  <1> DEFINE m == [k EXCEPT !.live = FALSE]
  <1>3. Become(c, m)
    BY <1>2 DEF Cancel
  <1>4. /\ m \in CallRecord /\ m.pc = k.pc /\ m.op = k.op /\ m.pin = k.pin /\ m.began = k.began
        /\ m.agent = k.agent /\ m.provider = k.provider /\ m.route = k.route /\ m.asked = k.asked
    BY DEF CallRecord
  <1> HIDE DEF m
  <1>5. GoodCall(m)
    BY <1>2, <1>4, SameCall
  <1> QED BY <1>1, <1>3, <1>5, CallStep

-----------------------------------------------------------------------------
(***************************************************************************)
(* Catalogs, the owner and time.                                           *)
(***************************************************************************)
LEMMA ConfigStep ==
  ASSUME Inv, UNCHANGED <<now, agent, replaced, legacy, calls>>,
         route' \in Routes \union {NoRoute},
         conns' \in [Connection -> [active : BOOLEAN, credential : DOMAIN Offered, models : SUBSET Model]],
         refreshes' \in [Refresher -> {Idle} \union Task], left' \in [Kinds -> Nat]
  PROVE  Inv'
  <1>1. UNCHANGED <<now, agent, replaced, cache, providers, since, calls>>
    BY DEF legacy
  <1>2. Typed'
    BY <1>1 DEF Inv, Typed
  <1>3. Past' /\ ActiveStands' /\ CacheIsRecent' /\ BreakersRest'
    BY <1>1 DEF Inv, Past, RowIds, ActiveStands, CacheIsRecent, Within, BreakersRest, Rests
  <1>4. GoodCalls'
    <2> SUFFICES ASSUME NEW d \in Caller, calls'[d] # Idle PROVE GoodCall(calls[d])'
      BY DEF GoodCalls
    <2>1. PICK x : x = calls[d] /\ x = calls'[d]
      BY <1>1
    <2>2. GoodCall(x)
      BY <1>1, <2>1 DEF Inv, GoodCalls
    <2>3. GoodCall(x)'
      BY <1>1, <2>2, GoodCallStays
    <2> QED BY <2>1, <2>3 DEF GoodCall, Within, RowIds
  <1> QED BY <1>2, <1>3, <1>4 DEF Inv

\* A refresh that is under way.
LEMMA Refreshing ==
  ASSUME Inv, NEW r \in Refresher, refreshes[r].pc # "idle"
  PROVE  refreshes[r] \in Task
  BY IdleIsNone DEF Inv, Typed

LEMMA CatalogStep ==
  ASSUME Inv, NEW r \in Refresher, Catalog(r)
  PROVE  Inv'
  <1>1. UNCHANGED <<now, agent, replaced, route, legacy, calls>> /\ left' \in [Kinds -> Nat]
    BY Unspent, Spending DEF Catalog, Refresh, Discover, SaveCatalog, config, Kinds
  <1>2. route' \in Routes \union {NoRoute}
    BY <1>1 DEF Inv, Typed
  <1> DEFINE Conns == [Connection -> [active : BOOLEAN, credential : DOMAIN Offered, models : SUBSET Model]]
  <1>3. conns \in Conns /\ refreshes \in [Refresher -> {Idle} \union Task]
    BY DEF Inv, Typed
  <1>4. CASE Refresh(r)
    <2>1. PICK n \in Connection : refreshes' = [refreshes EXCEPT ![r] =
              [pc |-> "discover", conn |-> n, credential |-> conns[n].credential]]
      BY <1>4 DEF Refresh
    <2>2. [pc |-> "discover", conn |-> n, credential |-> conns[n].credential] \in Task
      BY <1>3 DEF Task
    <2>3. UNCHANGED conns
      BY <1>4 DEF Refresh, config
    <2> QED BY <1>1, <1>2, <1>3, <2>1, <2>2, <2>3, ConfigStep
  <1>5. CASE Discover(r)
    <2>1. PICK t \in Task : t = refreshes[r]
      BY <1>5, Refreshing DEF Discover
    <2>2. [t EXCEPT !.pc = "save"] \in Task
      BY DEF Task
    <2>3. UNCHANGED conns
      BY <1>5 DEF Discover, config
    <2>4. \/ refreshes' = [refreshes EXCEPT ![r] = [t EXCEPT !.pc = "save"]]
          \/ refreshes' = [refreshes EXCEPT ![r] = Idle]
      BY <1>3, <1>5, <2>1 DEF Discover
    <2>5. refreshes' \in [Refresher -> {Idle} \union Task]
      BY <1>3, <2>2, <2>4
    <2> QED BY <1>1, <1>2, <1>3, <2>3, <2>5, ConfigStep
  <1>6. CASE SaveCatalog(r)
    <2>1. PICK t \in Task : t = refreshes[r]
      BY <1>6, Refreshing DEF SaveCatalog
    <2>2. t.conn \in Connection /\ t.credential \in DOMAIN Offered
      BY DEF Task
    <2>3. Offered[t.credential] \in SUBSET Model
      BY <2>2, ModelAccessAssumption
    <2>4. conns' = [conns EXCEPT ![t.conn].models = Offered[t.credential]] \/ conns' = conns
      BY <1>6, <2>1 DEF SaveCatalog
    <2>5. conns' \in Conns
      BY <1>3, <2>2, <2>3, <2>4
    <2>6. refreshes' \in [Refresher -> {Idle} \union Task]
      BY <1>3, <1>6 DEF SaveCatalog
    <2> QED BY <1>1, <1>2, <2>5, <2>6, ConfigStep
  <1> QED BY <1>4, <1>5, <1>6 DEF Catalog

LEMMA EditRouteStep ==
  ASSUME Inv, EditRoute
  PROVE  Inv'
  <1>1. left' \in [Kinds -> Nat]
    BY Spending DEF EditRoute, Kinds
  <1>2. /\ UNCHANGED <<now, agent, replaced, legacy, calls, conns, refreshes>>
        /\ route' \in Routes \union {NoRoute}
    BY DEF EditRoute
  <1> QED BY <1>1, <1>2, ConfigStep DEF Inv, Typed

LEMMA EditConnectionStep ==
  ASSUME Inv, EditConnection
  PROVE  Inv'
  <1>1. left' \in [Kinds -> Nat]
    BY Spending DEF EditConnection, Kinds
  <1>2. UNCHANGED <<now, agent, replaced, route, legacy, calls, refreshes>>
    BY DEF EditConnection
  <1> DEFINE Conn == [active : BOOLEAN, credential : DOMAIN Offered, models : SUBSET Model]
  <1>3. conns \in [Connection -> Conn]
    BY DEF Inv, Typed
  <1>4. PICK n \in Connection :
          \/ conns' = [conns EXCEPT ![n].active = ~@]
          \/ /\ conns[n].credential + 1 \in DOMAIN Offered
             /\ conns' = [conns EXCEPT ![n].credential = @ + 1]
    BY DEF EditConnection
  <1>5. conns' \in [Connection -> Conn]
    BY <1>3, <1>4
  <1> QED BY <1>1, <1>2, <1>5, ConfigStep DEF Inv, Typed

\* The active row is replaced now or not at all.
LEMMA RowsStep ==
  ASSUME Inv, UNCHANGED <<now, route, conns, legacy, calls, refreshes>>, left' \in [Kinds -> Nat],
         agent' \in Row, NEW n \in Nat \ {0}, replaced' \in [1..n -> Int],
         DOMAIN replaced \subseteq DOMAIN replaced', agent'.id \in {0} \union DOMAIN replaced',
         agent'.id # 0 => replaced'[agent'.id] = -1,
         \A id \in DOMAIN replaced' : -1 <= replaced'[id] /\ replaced'[id] <= now,
         \A id \in DOMAIN replaced : replaced'[id] = replaced[id] \/ replaced'[id] = now
  PROVE  Inv'
  <1>1. UNCHANGED <<now, route, conns, cache, providers, since, calls, refreshes>>
    BY DEF legacy
  <1>2. Typed'
    BY <1>1 DEF Inv, Typed
  <1>3. Past' /\ ActiveStands' /\ BreakersRest'
    BY <1>1 DEF Inv, Past, RowIds, ActiveStands, BreakersRest, Rests
  <1>4. ASSUME NEW id \in DOMAIN replaced, NEW t \in Int, NEW d \in Nat, Within(id, t, d), t <= now + d
        PROVE  replaced'[id] # -1 => t <= replaced'[id] + d
    BY <1>4 DEF Within
  <1>5. cache.agent.id \in RowIds /\ cache.expires \in Int /\ cache.expires <= now + TTL
    BY DEF Inv, Past, Typed
  <1>6. now \in Nat /\ TTL \in Nat /\ Life \in Nat /\ 2 * Life \in Nat /\ 0 \in Nat /\ TTL <= Life
        /\ Life <= 2 * Life
    BY Constants DEF Inv, Typed
  <1>7. CacheIsRecent'
    <2> DEFINE id == cache.agent.id
               d == IF cache.provider = 0 THEN Life ELSE 2 * Life
    <2>1. ASSUME id # 0 PROVE replaced'[id] # -1 => cache.expires <= replaced'[id] + d
      <3>1. id \in DOMAIN replaced /\ Within(id, cache.expires, d)
        BY <1>5, <2>1 DEF RowIds, Inv, CacheIsRecent
      <3>2. d \in Nat /\ cache.expires <= now + d
        BY <1>5, <1>6
      <3> HIDE DEF id, d
      <3> QED BY <1>4, <1>5, <3>1, <3>2
    <2> QED BY <1>1, <2>1 DEF Inv, CacheIsRecent, Within
  <1>8. GoodCalls'
    <2> SUFFICES ASSUME NEW x \in Caller, calls'[x] # Idle PROVE GoodCall(calls[x])'
      BY DEF GoodCalls
    <2>1. PICK k : k = calls[x] /\ k = calls'[x]
      BY <1>1
    <2>2. GoodCall(k)
      BY <1>1, <2>1 DEF Inv, GoodCalls
    <2>3. k \in CallRecord /\ k.agent.id \in RowIds /\ k.began <= now /\ k.began \in Nat
      BY <2>2 DEF GoodCall, CallRecord
    <2>4. k.pc = "store" => LET d == IF k.op = "agent" THEN 0 ELSE Life
                            IN replaced'[k.agent.id] # -1 => k.began <= replaced'[k.agent.id] + d
      <3> SUFFICES ASSUME k.pc = "store"
                   PROVE  replaced'[k.agent.id] # -1 =>
                            k.began <= replaced'[k.agent.id] + (IF k.op = "agent" THEN 0 ELSE Life)
        OBVIOUS
      <3> DEFINE d == IF k.op = "agent" THEN 0 ELSE Life
      <3>1. k.agent.id \in DOMAIN replaced /\ Within(k.agent.id, k.began, d)
        BY <2>2, <2>3 DEF GoodCall, RowIds
      <3>2. d \in Nat /\ k.began <= now + d /\ k.began \in Int
        BY <1>6, <2>3
      <3> HIDE DEF d
      <3>3. replaced'[k.agent.id] # -1 => k.began <= replaced'[k.agent.id] + d
        BY <1>4, <3>1, <3>2
      <3> QED BY <3>3 DEF d
    <2>5. k.pc \in {"admit", "attempt"} =>
            LET id == providers[k.provider].agent.id
            IN replaced'[id] # -1 => k.began <= replaced'[id] + 2 * Life
      <3> SUFFICES ASSUME k.pc \in {"admit", "attempt"}
                   PROVE  replaced'[providers[k.provider].agent.id] # -1 =>
                            k.began <= replaced'[providers[k.provider].agent.id] + 2 * Life
        OBVIOUS
      <3> DEFINE id == providers[k.provider].agent.id
      <3>1. k.provider \in Provider /\ id # 0 /\ Within(id, k.began, 2 * Life)
        BY <2>2, <2>3 DEF GoodCall, CallRecord
      <3>2. id \in DOMAIN replaced
        BY <3>1 DEF Inv, Past, RowIds
      <3>3. k.began <= now + 2 * Life /\ k.began \in Int
        BY <1>6, <2>3
      <3> HIDE DEF id
      <3>4. replaced'[id] # -1 => k.began <= replaced'[id] + 2 * Life
        BY <1>4, <1>6, <3>1, <3>2, <3>3
      <3> QED BY <3>4 DEF id
    <2> QED BY <1>1, <2>1, <2>2, <2>3, <2>4, <2>5 DEF GoodCall, Within, RowIds
  <1> QED BY <1>2, <1>3, <1>7, <1>8 DEF Inv

LEMMA EditAgentStep ==
  ASSUME Inv, EditAgent
  PROVE  Inv'
  <1>1. left' \in [Kinds -> Nat] /\ UNCHANGED <<now, route, conns, legacy, calls, refreshes>>
    BY Spending DEF EditAgent, Kinds
  <1>2. PICK n \in Nat \ {0} : replaced \in [1..n -> Int]
    BY DEF Inv, Typed
  <1>3. /\ now \in Nat /\ agent \in Row /\ agent.id \in {0} \union 1..n
        /\ \A id \in 1..n : -1 <= replaced[id] /\ replaced[id] <= now
    BY <1>2 DEF Inv, Typed, Past, RowIds
  <1>4. CASE agent.id # 0 /\ agent' = NoEntry.agent /\ replaced' = [replaced EXCEPT ![agent.id] = now]
    <2>1. /\ replaced' \in [1..n -> Int] /\ DOMAIN replaced = 1..n /\ DOMAIN replaced' = 1..n
          /\ \A id \in 1..n : replaced'[id] = replaced[id] \/ replaced'[id] = now
      BY <1>2, <1>3, <1>4
    <2>2. agent' \in Row /\ agent'.id = 0
      BY <1>4 DEF NoEntry, Row, Modes
    <2>3. \A id \in 1..n : -1 <= replaced'[id] /\ replaced'[id] <= now
      BY <1>3, <2>1
    <2> QED BY <1>1, <2>1, <2>2, <2>3, RowsStep
  <1>5. ASSUME NEW id, id = Cardinality(DOMAIN replaced) + 1, NEW mode \in EditModes,
               agent' = [id |-> id, mode |-> mode],
               replaced' = [i \in 1..id |-> IF i = id THEN -1
                                            ELSE IF i = agent.id THEN now ELSE replaced[i]]
        PROVE  Inv'
    <2>1. DOMAIN replaced = 1..n /\ Cardinality(1..n) = n
      BY <1>2, FS_Interval
    <2>2. id = n + 1 /\ id \in Nat \ {0}
      BY <1>5, <2>1
    <2>3. agent' \in Row /\ agent'.id = id
      BY <1>5, <2>2, ModelAccessAssumption DEF Row
    <2>4. \A i \in 1..id : i # id => i \in 1..n
      BY <2>2
    <2>5. /\ replaced' \in [1..id -> Int] /\ DOMAIN replaced' = 1..id /\ replaced'[id] = -1
          /\ \A i \in 1..n : i \in 1..id /\ (replaced'[i] = replaced[i] \/ replaced'[i] = now)
      BY <1>2, <1>3, <1>5, <2>2, <2>4
    <2>6. \A i \in 1..id : -1 <= replaced'[i] /\ replaced'[i] <= now
      BY <1>3, <2>4, <2>5
    <2>7. id \in 1..id /\ 1..n \subseteq 1..id
      BY <2>2
    <2> QED BY <1>1, <2>1, <2>2, <2>3, <2>5, <2>6, <2>7, RowsStep
  <1> QED BY <1>4, <1>5 DEF EditAgent

LEMMA TickStep ==
  ASSUME Inv, Tick
  PROVE  Inv'
  <1>1. left' \in [Kinds -> Nat] /\ now' = now + 1 /\ now \in Nat
        /\ UNCHANGED <<agent, replaced, route, conns, cache, providers, since, calls, refreshes>>
    BY Spending DEF Tick, Kinds, config, legacy, Inv, Typed
  <1>2. Typed'
    <2>1. now' \in Nat
      BY <1>1
    <2> QED BY <1>1, <2>1 DEF Inv, Typed
  <1>3. Past'
    <2>1. TTL \in Nat /\ cache.expires \in Int
      BY Constants DEF Inv, Typed
    <2>2. \A id \in DOMAIN replaced : replaced[id] \in Int
      BY DEF Inv, Typed
    <2>3. \A p \in Provider, leg \in Legs : providers[p].breaker[leg].openedAt \in Nat /\ since[p][leg].at \in Nat
      BY DEF Inv, Typed, Breakers, Openings
    <2> QED BY <1>1, <2>1, <2>2, <2>3 DEF Inv, Past, RowIds
  <1>4. ActiveStands' /\ CacheIsRecent'
    BY <1>1 DEF Inv, ActiveStands, CacheIsRecent, Within
  <1>6. BreakersRest'
    <2> SUFFICES ASSUME NEW p \in Provider, NEW leg \in Legs
                 PROVE  Rests(providers[p].breaker[leg], since[p][leg])'
      BY DEF BreakersRest
    <2>1. since[p][leg].at \in Nat /\ Cooldown \in Nat
      BY Constants DEF Inv, Typed, Openings
    <2> QED BY <1>1, <2>1 DEF Inv, BreakersRest, Rests
  <1>5. GoodCalls'
    <2> SUFFICES ASSUME NEW d \in Caller, calls'[d] # Idle PROVE GoodCall(calls[d])'
      BY DEF GoodCalls
    <2>1. PICK k : k = calls[d] /\ k = calls'[d]
      BY <1>1
    <2>2. GoodCall(k)
      BY <1>1, <2>1 DEF Inv, GoodCalls
    <2>3. k.began \in Nat /\ Delay \in Nat /\ k.began <= now
      BY <2>2, Constants DEF GoodCall, CallRecord
    <2>4. k.pc \in {"cache", "lookup", "store"} => now < k.began + Delay
      BY <2>1 DEF Tick, Resolving
    <2>5. k.began <= now' /\ (k.pc \in {"cache", "lookup", "store"} => now' <= k.began + Delay)
      BY <1>1, <2>3, <2>4
    <2> QED BY <1>1, <2>1, <2>2, <2>5 DEF GoodCall, Within, RowIds
  <1> QED BY <1>2, <1>3, <1>4, <1>5, <1>6 DEF Inv

-----------------------------------------------------------------------------
(***************************************************************************)
(* The theorems.                                                           *)
(***************************************************************************)
LEMMA InvInit == Init => Inv
  <1> SUFFICES ASSUME Init PROVE Inv
    OBVIOUS
  <1>1. PICK p \in Plans : /\ \E mode \in p.modes : agent = [id |-> 1, mode |-> mode]
                           /\ route = p.route /\ left = p.may
    BY DEF Init
  <1>2. /\ p.route \in Routes \union {NoRoute} /\ p.modes \subseteq Modes /\ p.may \in [Kinds -> Nat]
    BY ModelAccessAssumption
  <1>3. agent \in Row /\ agent.id = 1
    BY <1>1, <1>2 DEF Row
  <1>4. DOMAIN replaced = {1} /\ replaced[1] = -1 /\ replaced \in [1..1 -> Int] /\ 1 \in Nat \ {0}
    BY DEF Init
  <1>5. conns \in [Connection -> [active : BOOLEAN, credential : DOMAIN Offered, models : SUBSET Model]]
    BY ModelAccessAssumption DEF Init
  <1>6. /\ NoEntry.agent \in Row /\ NoEntry.agent.id = 0 /\ NoEntry.provider = 0
        /\ NoEntry.expires = -1 /\ cache = NoEntry
        /\ NoEntry \in [agent : Row, provider : {0} \union Provider, expires : Int]
    BY DEF Init, NoEntry, Row, Modes
  <1>7. Closed \in Breakers /\ Closed.openedAt = 0 /\ Closed.state = "closed"
    BY Constants DEF Closed, Breakers
  <1> DEFINE f == Fresh(NoEntry.agent)
  <1>8. /\ f \in [agent : Row, breaker : [Legs -> Breakers]] /\ f.agent = NoEntry.agent
        /\ \A leg \in Legs : f.breaker[leg] = Closed
    BY <1>6, <1>7 DEF Fresh
  <1> HIDE DEF f
  <1>9. providers \in [Provider -> [agent : Row, breaker : [Legs -> Breakers]]]
        /\ \A q \in Provider : providers[q] = f
    BY <1>8 DEF Init, f
  <1>10. /\ calls \in [Caller -> {Idle} \union CallRecord] /\ \A c \in Caller : calls[c] = Idle
         /\ refreshes \in [Refresher -> {Idle} \union Task]
         /\ since \in [Provider -> [Legs -> Openings]] /\ now = 0
         /\ \A q \in Provider, leg \in Legs : since[q][leg].late /\ since[q][leg].at = 0
    BY DEF Init, NotOpened, Openings
  <1>11. Typed
    <2>1. now \in Nat /\ route \in Routes \union {NoRoute} /\ left \in [Kinds -> Nat]
      BY <1>1, <1>2, <1>10
    <2>2. \E n \in Nat \ {0} : replaced \in [1..n -> Int]
      BY <1>4
    <2>3. cache \in [agent : Row, provider : {0} \union Provider, expires : Int]
      BY <1>6
    <2> QED BY <1>3, <1>5, <1>9, <1>10, <2>1, <2>2, <2>3 DEF Typed
  <1>12. Past /\ ActiveStands
    BY <1>3, <1>4, <1>6, <1>7, <1>8, <1>9, <1>10, Constants DEF Past, RowIds, ActiveStands
  <1>13. CacheIsRecent /\ GoodCalls /\ BreakersRest
    BY <1>6, <1>7, <1>8, <1>9, <1>10 DEF CacheIsRecent, GoodCalls, BreakersRest, Rests
  <1> QED BY <1>11, <1>12, <1>13 DEF Inv

LEMMA InvNext == Inv /\ [Next]_vars => Inv'
  <1> SUFFICES ASSUME Inv, [Next]_vars PROVE Inv'
    OBVIOUS
  <1>1. ASSUME NEW c \in Caller, Resolve(c) PROVE Inv'
    BY <1>1, ResolveTaskStep, AgentForStep, GetEntryStep, LookupAgentStep, StoreStep DEF Resolve
  <1>2. ASSUME NEW c \in Caller, Routed(c) PROVE Inv'
    BY <1>2, CheckAgentStep, SelectStep, LoadCandidateStep, AskStep DEF Routed
  <1>3. ASSUME NEW c \in Caller, Admit(c) \/ Attempt(c) \/ StreamEnds(c) \/ Cancel(c) PROVE Inv'
    BY <1>3, AdmitStep, AttemptStep, StreamEndsStep, CancelStep
  <1>4. ASSUME NEW r \in Refresher, Catalog(r) PROVE Inv'
    BY <1>4, CatalogStep
  <1>5. CASE EditAgent \/ EditRoute \/ EditConnection \/ Tick
    BY <1>5, EditAgentStep, EditRouteStep, EditConnectionStep, TickStep
  <1>6. CASE UNCHANGED vars
    <2>1. UNCHANGED <<now, agent, replaced, route, conns, legacy, calls, refreshes, left>>
      BY <1>6 DEF vars, legacy
    <2> QED BY <2>1, ConfigStep DEF Inv, Typed
  <1> QED BY <1>1, <1>2, <1>3, <1>4, <1>5, <1>6 DEF Next

LEMMA InvAlways == Spec => []Inv
  BY InvInit, InvNext, PTL DEF Spec

\* Clocks, rows of ai_agents, breakers, calls and refreshes always have their type.
THEOREM ModelAccessTypeCorrect == Spec => []TypeOK
  <1>1. Inv => TypeOK
    <2> SUFFICES ASSUME Inv PROVE TypeOK
      OBVIOUS
    <2>1. now \in Nat /\ TTL \in Nat
      BY Constants DEF Inv, Typed
    <2>2. agent \in AgentRow /\ \A id \in DOMAIN replaced : replaced[id] \in -1..now
      BY <2>1 DEF Inv, Typed, Past, RowIds, AgentRow, Row
    <2>3. cache \in [agent : AgentRow, provider : {0} \union Provider, expires : -1..now + TTL]
      BY <2>1 DEF Inv, Typed, Past, RowIds, AgentRow, Row
    <2>4. providers \in [Provider -> [agent : AgentRow, breaker : [Legs -> BreakerState]]]
      <3>1. ASSUME NEW p \in Provider
            PROVE  providers[p] \in [agent : AgentRow, breaker : [Legs -> BreakerState]]
        <4>1. /\ providers[p] \in [agent : Row, breaker : [Legs -> Breakers]]
              /\ providers[p].agent.id \in RowIds
              /\ \A leg \in Legs : providers[p].breaker[leg].openedAt <= now
          BY DEF Inv, Typed, Past
        <4>2. providers[p].agent \in AgentRow
          BY <4>1 DEF AgentRow, Row, RowIds
        <4>3. \A leg \in Legs : providers[p].breaker[leg] \in BreakerState
          BY <2>1, <4>1 DEF Breakers, BreakerState
        <4> QED BY <4>1, <4>2, <4>3
      <3>2. providers = [p \in Provider |-> providers[p]]
        BY DEF Inv, Typed
      <3> QED BY <3>1, <3>2
    <2>5. \A c \in Caller : calls[c] # Idle =>
            /\ calls[c].pc \in Pcs /\ calls[c].provider \in {0} \union Provider
            /\ calls[c].tries \in 0..MaxRetries /\ calls[c].asked \subseteq Candidates
      BY DEF Inv, Typed, CallRecord
    <2>6. \A r \in Refresher : refreshes[r] # Idle => refreshes[r] \in Task
      BY DEF Inv, Typed
    <2>7. since \in [Provider -> [Legs -> [at : 0..now, calls : SUBSET Caller, late : BOOLEAN]]]
      <3>1. ASSUME NEW p \in Provider, NEW leg \in Legs
            PROVE  since[p][leg] \in [at : 0..now, calls : SUBSET Caller, late : BOOLEAN]
        <4>1. since[p][leg] \in Openings /\ since[p][leg].at <= now
          BY DEF Inv, Typed, Past
        <4> QED BY <2>1, <4>1 DEF Openings
      <3>2. since \in [Provider -> [Legs -> Openings]]
        BY DEF Inv, Typed
      <3> QED BY <3>1, <3>2
    <2> QED BY <2>1, <2>2, <2>3, <2>4, <2>5, <2>6, <2>7 DEF TypeOK, Inv, Typed, Pcs, Candidates, Task
  <1> QED BY <1>1, InvAlways, PTL

\* Within the cooldown of its latest opening a breaker lets a call through only after one
\* admitted before that opening has been answered, however calls overlap, fail late or are
\* let through half-open (allow, recordFailure and recordSuccess of the circuit breaker).
THEOREM CooldownsAreKept == Spec => CooldownIsKept
  <1> DEFINE Kept == \A c \in Caller : At(c, "admit") /\ At(c, "attempt")' =>
                        Since(c).late \/ now >= Since(c).at + Cooldown
  <1>1. ASSUME Inv, [Next]_vars PROVE Kept
    <2> SUFFICES ASSUME NEW c \in Caller, At(c, "admit"), At(c, "attempt")'
                 PROVE  Since(c).late \/ now >= Since(c).at + Cooldown
      OBVIOUS
    <2>1. calls \in [Caller -> {Idle} \union CallRecord] /\ calls[c].pc = "admit" /\ calls'[c].pc = "attempt"
      BY <1>1 DEF Inv, Typed, At
    <2>2. ASSUME NEW d \in Caller, Resolve(d) \/ Routed(d) \/ Admit(d) \/ Attempt(d) \/ StreamEnds(d) \/ Cancel(d)
          PROVE  d = c /\ Admit(c)
      <3>1. \E k : Become(d, k)
        BY <2>2 DEF Resolve, Routed, ResolveTask, AgentFor, GetEntry, LookupAgent, Store, Build, CheckAgent,
           Select, LoadCandidate, Ask, Admit, Attempt, Stream, Generate, StreamEnds, Cancel, Goto, LegFails,
           CandidateFails
      <3>2. d = c
        BY <2>1, <3>1 DEF Become
      <3>3. ~Resolve(d)
        <4>1. calls[d].pc = "admit" /\ calls[d] # Idle
          BY <2>1, <3>2 DEF Idle
        <4>2. ~ResolveTask(d) /\ ~AgentFor(d)
          BY <4>1 DEF ResolveTask, AgentFor
        <4>3. ~GetEntry(d) /\ ~LookupAgent(d) /\ ~Store(d)
          BY <4>1 DEF GetEntry, LookupAgent, Store, At
        <4> QED BY <4>2, <4>3 DEF Resolve
      <3>4. ~Routed(d)
        BY <2>1, <3>2 DEF Routed, CheckAgent, Select, LoadCandidate, Ask, At
      <3>5. ~Attempt(d) /\ ~StreamEnds(d) /\ ~Cancel(d)
        BY <2>1, <3>2 DEF Attempt, StreamEnds, Cancel, At
      <3> QED BY <2>2, <3>2, <3>3, <3>4, <3>5
    <2>3. \/ \E d \in Caller : \/ Resolve(d) \/ Routed(d) \/ Admit(d) \/ Attempt(d)
                                 \/ StreamEnds(d) \/ Cancel(d)
          \/ UNCHANGED calls
      BY <1>1 DEF Next, vars, Catalog, Refresh, Discover, SaveCatalog, EditAgent, EditRoute, EditConnection, Tick
    <2>4. Admit(c)
      BY <2>1, <2>2, <2>3
    <2> QED BY <1>1, <2>4, AdmitStep
  <1> QED BY <1>1, InvAlways, PTL DEF Spec, CooldownIsKept

\* Whoever asks a provider asks one of an agent that was active at most twice a lifetime and
\* a lookup before its call began, and a selection without substitution is what is asked.
THEOREM CallsAreServedAsConfigured == Spec => []ServedAsConfigured
  <1>1. Inv => ServedIsRecent
    <2> SUFFICES ASSUME Inv, NEW c \in Caller, calls[c].pc \in {"admit", "attempt"}
                 PROVE  LET served == providers[calls[c].provider].agent.id
                        IN  /\ served # 0
                            /\ replaced[served] # -1 =>
                                 calls[c].began - replaced[served] <= 2 * (TTL + Delay)
      BY DEF ServedIsRecent
    <2> DEFINE served == providers[calls[c].provider].agent.id
    <2>1. /\ calls[c] \in CallRecord /\ calls[c].provider \in Provider /\ served # 0
          /\ Within(served, calls[c].began, 2 * Life)
      BY AtLeg DEF GoodCall
    <2>2. served \in DOMAIN replaced
      BY <2>1 DEF Inv, Past, RowIds
    <2>3. replaced[served] \in Int /\ calls[c].began \in Nat
      BY <2>1, <2>2 DEF Inv, Typed, CallRecord
    <2> HIDE DEF served
    <2>4. replaced[served] # -1 => calls[c].began - replaced[served] <= 2 * (TTL + Delay)
      BY <2>1, <2>3, Constants DEF Within
    <2> QED BY <2>1, <2>4 DEF served
  <1>2. Inv => SelectionIsHonoured
    BY DEF Inv, GoodCalls, GoodCall, Fits, SelectionIsHonoured
  <1> QED BY <1>1, <1>2, InvAlways, PTL DEF ServedAsConfigured

\* A catalog that changes becomes the list of the credential the connection has at that moment.
THEOREM CatalogsAreCurrent == Spec => CatalogIsCurrent
  <1> DEFINE Current == \A n \in Connection : conns'[n].models # conns[n].models =>
                           conns'[n].models = Offered[conns'[n].credential]
  <1>1. ASSUME Inv, [Next]_vars PROVE Current
    <2>0. conns \in [Connection -> [active : BOOLEAN, credential : DOMAIN Offered, models : SUBSET Model]]
      BY <1>1 DEF Inv, Typed
    <2>1. CASE UNCHANGED conns
      BY <2>1
    <2>2. ASSUME NEW r \in Refresher, SaveCatalog(r) PROVE Current
      <3>1. PICK t \in Task : t = refreshes[r]
        BY <1>1, <2>2, Refreshing DEF SaveCatalog
      <3>2. \/ conns' = conns
            \/ /\ conns[t.conn].credential = t.credential
               /\ conns' = [conns EXCEPT ![t.conn].models = Offered[t.credential]]
        BY <2>2, <3>1 DEF SaveCatalog
      <3>3. t.conn \in Connection
        BY DEF Task
      <3> QED BY <2>0, <3>2, <3>3
    <2>3. CASE EditConnection
      <3>1. PICK n \in Connection :
              \/ conns' = [conns EXCEPT ![n].active = ~@]
              \/ conns' = [conns EXCEPT ![n].credential = @ + 1]
        BY <2>3 DEF EditConnection
      <3>2. \A x \in Connection : conns'[x].models = conns[x].models
        BY <2>0, <3>1
      <3> QED BY <3>2
    <2>4. \/ UNCHANGED conns \/ EditConnection \/ \E r \in Refresher : SaveCatalog(r)
      BY <1>1 DEF Next, vars, Resolve, Routed, Catalog, ResolveTask, AgentFor, GetEntry, LookupAgent,
         Store, CheckAgent, Select, LoadCandidate, Ask, Admit, Attempt, StreamEnds, Cancel, Refresh,
         Discover, EditAgent, EditRoute, Tick, config
    <2> QED BY <2>1, <2>2, <2>3, <2>4
  <1> QED BY <1>1, InvAlways, PTL DEF Spec, CatalogIsCurrent
-----------------------------------------------------------------------------
(***************************************************************************)
(* The log of model calls.                                                 *)
(***************************************************************************)
Called ==
    [pc : {"generate", "stream", "open", "ended"}, company : Companies, began : Nat,
     live : BOOLEAN, last : [vendor : Vendor \union {""}, tokens : Nat]]

\* What may still happen.
Allowance ==
    [may : [{"request", "report", "tick", "fault"} -> Nat], ops : SUBSET {"generate", "stream"},
     companies : SUBSET Companies, asked : SUBSET Int]

Reading == {"none", "totals", "latencies", "today", "daily", "by vendor", "by status",
            "by model", "models daily", "recent", "answered"}

UsageTyped ==
    /\ clock \in Nat
    /\ requests \in [Request -> {NotAsked} \union Called]
    /\ \A q \in Request : requests[q] # NotAsked => requests[q].began <= clock
    /\ detached \in Seq(EntryType) /\ logs \in Seq(EntryType)
    /\ \A i \in DOMAIN logs : logs[i].company > 0
    /\ unlogged \subseteq Request
    /\ "pc" \in DOMAIN report /\ report.pc \in Reading
    /\ quota \in Allowance

\* The calls that entries are about, and that no two of them are about one.
CallsIn(entries) == {entries[i].request : i \in DOMAIN entries}
Single(entries) == \A i, j \in DOMAIN entries : entries[i].request = entries[j].request => i = j

\* A call is over exactly when it is in the log, on its way there, or given up, and in
\* one of the three only.
Tracked ==
    /\ Single(logs) /\ Single(detached)
    /\ CallsIn(logs) \intersect CallsIn(detached) = {}
    /\ unlogged \intersect (CallsIn(logs) \union CallsIn(detached)) = {}
    /\ \A q \in Request :
          requests[q].pc = "ended" <=> q \in CallsIn(logs) \union CallsIn(detached) \union unlogged

UsageInv == UsageTyped /\ Tracked

-----------------------------------------------------------------------------
(* Sequences of entries.                                                     *)
LEMMA AppendEntry ==
    ASSUME NEW s \in Seq(EntryType), NEW e \in EntryType
    PROVE  /\ Append(s, e) \in Seq(EntryType)
           /\ CallsIn(Append(s, e)) = CallsIn(s) \union {e.request}
           /\ Single(s) /\ e.request \notin CallsIn(s) => Single(Append(s, e))
<1>1. PICK n \in Nat : n = Len(s) /\ DOMAIN s = 1..n
    OBVIOUS
<1>2. PICK t : t = Append(s, e)
    OBVIOUS
<1>3. /\ t \in Seq(EntryType) /\ DOMAIN t = 1..(n + 1)
      /\ \A i \in 1..n : t[i] = s[i]
      /\ t[n + 1] = e
    BY <1>1, <1>2
<1>4. \A i \in 1..(n + 1) : i \in 1..n \/ i = n + 1
    BY <1>1
<1>5. CallsIn(t) = CallsIn(s) \union {e.request}
    BY <1>1, <1>3, <1>4 DEF CallsIn
<1>6. Single(s) /\ e.request \notin CallsIn(s) => Single(t)
    BY <1>1, <1>3, <1>4 DEF Single, CallsIn
<1> QED BY <1>2, <1>3, <1>5, <1>6

LEMMA RemoveEntry ==
    ASSUME NEW s \in Seq(EntryType), NEW k \in DOMAIN s
    PROVE  /\ RemoveAt(s, k) \in Seq(EntryType)
           /\ Single(s) => /\ Single(RemoveAt(s, k))
                           /\ CallsIn(RemoveAt(s, k)) = CallsIn(s) \ {s[k].request}
<1>1. PICK n \in Nat : n = Len(s) /\ DOMAIN s = 1..n
    OBVIOUS
<1>2. PICK t : t = RemoveAt(s, k)
    OBVIOUS
<1>3. /\ t \in Seq(EntryType) /\ DOMAIN t = 1..(n - 1)
      /\ \A i \in 1..(n - 1) : t[i] = s[IF i < k THEN i ELSE i + 1]
    <2>1. k \in 1..n
        BY <1>1
    <2>2. PICK a : a = SubSeq(s, 1, k - 1)
        OBVIOUS
    <2>3. PICK b : b = SubSeq(s, k + 1, n)
        OBVIOUS
    <2>4. a \in Seq(EntryType) /\ Len(a) = k - 1 /\ \A i \in 1..(k - 1) : a[i] = s[i]
        BY <1>1, <2>1, <2>2
    <2>5. b \in Seq(EntryType) /\ Len(b) = n - k /\ \A i \in 1..(n - k) : b[i] = s[k + i]
        BY <1>1, <2>1, <2>3
    <2>6. t = a \o b
        BY <1>1, <1>2, <2>2, <2>3 DEF RemoveAt
    <2>7. t \in Seq(EntryType) /\ Len(t) = n - 1
        BY <1>1, <2>1, <2>4, <2>5, <2>6
    <2>8. ASSUME NEW i \in 1..(n - 1) PROVE t[i] = s[IF i < k THEN i ELSE i + 1]
        <3>1. CASE i < k
            BY <1>1, <2>1, <2>4, <2>5, <2>6, <3>1
        <3>2. CASE ~(i < k)
            <4>1. i - (k - 1) \in 1..(n - k) /\ k + (i - (k - 1)) = i + 1
                BY <1>1, <2>1, <3>2
            <4>2. t[i] = b[i - (k - 1)]
                BY SMTT(30), <1>1, <2>1, <2>4, <2>5, <2>6, <3>2, <4>1
            <4> QED BY <2>5, <3>2, <4>1, <4>2
        <3> QED BY <3>1, <3>2
    <2> QED BY <1>1, <2>7, <2>8
<1>4. ASSUME NEW j \in 1..n, j # k
      PROVE  \E i \in 1..(n - 1) : j = IF i < k THEN i ELSE i + 1
    <2>1. CASE j < k
        BY <1>1, <2>1
    <2>2. CASE ~(j < k)
        <3>1. j - 1 \in 1..(n - 1) /\ ~(j - 1 < k) /\ (j - 1) + 1 = j
            BY <1>1, <1>4, <2>2
        <3> QED BY <3>1
    <2> QED BY <2>1, <2>2
<1>5. \A i \in 1..(n - 1) :
          /\ (IF i < k THEN i ELSE i + 1) \in 1..n
          /\ (IF i < k THEN i ELSE i + 1) # k
    BY <1>1
<1>6. ASSUME Single(s) PROVE Single(t)
    <2>1. \A i, j \in 1..(n - 1) :
              (IF i < k THEN i ELSE i + 1) = (IF j < k THEN j ELSE j + 1) => i = j
        BY <1>1
    <2> SUFFICES ASSUME NEW i \in 1..(n - 1), NEW j \in 1..(n - 1), t[i].request = t[j].request
                 PROVE  i = j
        BY <1>3 DEF Single
    <2>2. PICK x \in 1..n : x = IF i < k THEN i ELSE i + 1
        BY <1>5
    <2>3. PICK y \in 1..n : y = IF j < k THEN j ELSE j + 1
        BY <1>5
    <2>4. s[x].request = s[y].request
        BY <1>3, <2>2, <2>3
    <2>5. x = y
        BY <1>1, <1>6, <2>4 DEF Single
    <2> QED BY <2>1, <2>2, <2>3, <2>5
<1>7. ASSUME Single(s) PROVE CallsIn(t) = CallsIn(s) \ {s[k].request}
    <2>1. \A j \in 1..n : j # k => s[j].request # s[k].request
        BY <1>1, <1>7 DEF Single
    <2>2. \A i \in 1..(n - 1) : \E j \in 1..n : j # k /\ t[i] = s[j]
        BY <1>3, <1>5
    <2>3. \A j \in 1..n : j # k => \E i \in 1..(n - 1) : t[i] = s[j]
        BY <1>3, <1>4
    <2>4. CallsIn(t) = {t[i].request : i \in 1..(n - 1)} /\ CallsIn(s) = {s[j].request : j \in 1..n}
        BY <1>1, <1>3 DEF CallsIn
    <2>5. ASSUME NEW x \in CallsIn(t) PROVE x \in CallsIn(s) \ {s[k].request}
        <3>1. PICK i \in 1..(n - 1) : x = t[i].request
            BY <2>4
        <3>2. PICK j \in 1..n : j # k /\ t[i] = s[j]
            BY <2>2
        <3> QED BY <2>1, <2>4, <3>1, <3>2
    <2>6. ASSUME NEW x \in CallsIn(s) \ {s[k].request} PROVE x \in CallsIn(t)
        <3>1. PICK j \in 1..n : x = s[j].request
            BY <2>4
        <3>2. PICK i \in 1..(n - 1) : t[i] = s[j]
            BY <2>3, <3>1
        <3> QED BY <2>4, <3>1, <3>2
    <2> QED BY <2>5, <2>6
<1> QED BY <1>2, <1>3, <1>6, <1>7

-----------------------------------------------------------------------------
(* What becomes of a call.                                                   *)

RequestsTyped ==
    /\ requests \in [Request -> {NotAsked} \union Called]
    /\ \A q \in Request : requests[q] # NotAsked => requests[q].began <= clock

\* A call takes another state, and the others keep theirs.
LEMMA CallBecomes ==
    ASSUME UsageTyped, NEW q \in Request, NEW c \in Called, c.began <= clock, clock' = clock,
           requests' = [requests EXCEPT ![q] = c]
    PROVE  /\ RequestsTyped' /\ requests'[q] = c
           /\ \A r \in Request : r # q => requests'[r] = requests[r]
BY DEF UsageTyped, RequestsTyped

LEMMA CallEnds ==
    ASSUME UsageTyped, NEW q \in Request, requests[q] # NotAsked, clock' = clock,
           NEW step \in {"open", "ended"}, requests' = [requests EXCEPT ![q].pc = step]
    PROVE  /\ RequestsTyped' /\ requests'[q].pc = step
           /\ \A r \in Request : r # q => requests'[r] = requests[r]
<1>1. requests[q] \in Called /\ requests[q].began <= clock
    BY DEF UsageTyped
<1>2. PICK c : c = [requests[q] EXCEPT !.pc = step]
    OBVIOUS
<1>3. c \in Called /\ c.began = requests[q].began /\ c.pc = step
    BY <1>1, <1>2 DEF Called
<1>4. requests' = [requests EXCEPT ![q] = c]
    BY <1>2
<1> QED BY <1>1, <1>3, <1>4, CallBecomes

LEMMA Elapsed ==
    ASSUME NEW from \in Nat, NEW until \in Nat, from <= until
    PROVE  until - from \in Nat
OBVIOUS

LEMMA EntryTyped ==
    ASSUME UsageTyped, NEW q \in Request, requests[q] # NotAsked,
           NEW completion \in [vendor : Vendor \union {""}, tokens : Nat],
           NEW err \in HTTPStatus \union {0, NoError}
    PROVE  Entry(q, completion, err) \in EntryType /\ Entry(q, completion, err).request = q
<1>1. requests[q] \in Called /\ requests[q].began <= clock /\ clock \in Nat
    BY DEF UsageTyped
<1>2. requests[q].company \in Companies /\ clock - requests[q].began \in Nat
    <2>1. PICK n \in Nat : n = requests[q].began
        BY <1>1 DEF Called
    <2>2. n <= clock /\ clock \in Nat
        BY <1>1, <2>1
    <2>3. PICK t \in Nat : t = clock
        BY <2>2
    <2>4. t - n \in Nat
        BY <2>2, <2>3, Elapsed
    <2> QED BY <1>1, <2>1, <2>3, <2>4 DEF Called
<1>3. (IF completion.vendor = "" THEN Configured ELSE completion.vendor) \in Vendor
      /\ completion.tokens \in Nat
    BY UsageAssumption
<1>4. (IF err = NoError THEN 0 ELSE err) \in HTTPStatus \union {0}
      /\ (IF err = NoError THEN "ok" ELSE "error") \in {"ok", "error"}
    BY DEF NoError
<1> QED BY <1>2, <1>3, <1>4 DEF Entry, EntryType

\* A call that was not over ends with its entry.
LEMMA EntryTracked ==
    ASSUME UsageInv, NEW q \in Request, requests[q] # NotAsked, requests[q].pc # "ended",
           NEW completion \in [vendor : Vendor \union {""}, tokens : Nat],
           NEW err \in HTTPStatus \union {0, NoError},
           RecordEntry(q, completion, err), Ended(q), UNCHANGED <<clock, logs, unlogged>>
    PROVE  RequestsTyped' /\ detached' \in Seq(EntryType) /\ Tracked'
<1>1. PICK e : e = Entry(q, completion, err)
    OBVIOUS
<1>2. e \in EntryType /\ e.request = q
    BY <1>1, EntryTyped DEF UsageInv
<1>3. /\ RequestsTyped' /\ requests'[q].pc = "ended"
      /\ \A r \in Request : r # q => requests'[r] = requests[r]
    BY CallEnds DEF UsageInv, Ended
<1>4. q \notin CallsIn(logs) \union CallsIn(detached) \union unlogged
    BY DEF UsageInv, Tracked
<1>5. detached' = Append(detached, e) /\ detached \in Seq(EntryType)
    BY <1>1 DEF RecordEntry, UsageInv, UsageTyped
<1>6. /\ detached' \in Seq(EntryType)
      /\ CallsIn(detached') = CallsIn(detached) \union {q}
      /\ Single(detached')
    BY <1>2, <1>4, <1>5, AppendEntry DEF UsageInv, Tracked
<1>7. /\ Single(logs)' /\ CallsIn(logs)' = CallsIn(logs) /\ unlogged' = unlogged
    <2>1. logs' = logs /\ Single(logs)
        BY DEF UsageInv, Tracked
    <2> QED BY <2>1 DEF Single, CallsIn
<1>10. Single(detached)' /\ CallsIn(detached)' = CallsIn(detached) \union {q}
    BY <1>6 DEF Single, CallsIn
<1>8. \A r \in Request : requests'[r].pc = "ended" <=> r = q \/ requests[r].pc = "ended"
    BY <1>3
<1>9. Tracked'
    <2>1. /\ CallsIn(logs) \intersect CallsIn(detached) = {}
          /\ unlogged \intersect (CallsIn(logs) \union CallsIn(detached)) = {}
          /\ \A r \in Request : requests[r].pc = "ended"
                               <=> r \in CallsIn(logs) \union CallsIn(detached) \union unlogged
        BY DEF UsageInv, Tracked
    <2>2. CallsIn(logs)' \intersect CallsIn(detached)' = {}
        BY <1>4, <1>7, <1>10, <2>1
    <2>3. (unlogged \intersect (CallsIn(logs) \union CallsIn(detached)))' = {}
        BY <1>4, <1>7, <1>10, <2>1
    <2>4. \A r \in Request : (requests[r].pc = "ended"
                               <=> r \in CallsIn(logs) \union CallsIn(detached) \union unlogged)'
        BY <1>7, <1>8, <1>10, <2>1
    <2> QED BY <1>7, <1>10, <2>2, <2>3, <2>4 DEF Tracked
<1> QED BY <1>3, <1>6, <1>9

\* What neither ends a call nor touches an entry.
LEMMA TrackedStays ==
    ASSUME Tracked, UNCHANGED <<detached, logs, unlogged>>,
           \A q \in Request : requests'[q].pc = "ended" <=> requests[q].pc = "ended"
    PROVE  Tracked'
BY DEF Tracked

LEMMA DrawTyped ==
    ASSUME UsageTyped, NEW kind \in {"request", "report", "tick", "fault"}, Draw(kind)
    PROVE  quota' \in Allowance
<1>1. quota \in Allowance
    BY DEF UsageTyped
<1>2. PICK m : m = [quota.may EXCEPT ![kind] = @ - 1]
    OBVIOUS
<1>3. m \in [{"request", "report", "tick", "fault"} -> Nat]
    BY <1>1, <1>2 DEF Draw, Allowance
<1>4. quota' = [quota EXCEPT !.may = m]
    BY <1>2 DEF Draw
<1> QED BY <1>1, <1>3, <1>4 DEF Allowance

\* A read adds what it read and moves on, or the report fails.
LEMMA ReadTyped ==
    ASSUME UsageInv, NEW pc, NEW result, NEW next \in Reading, Read(pc, result, next)
    PROVE  UsageInv'
<1>1. "pc" \in DOMAIN report' /\ report'.pc \in Reading
    <2>1. CASE report' = NoReport
        BY <2>1 DEF NoReport, Reading
    <2>2. CASE report' = Noted(result, next)
        <3>1. "pc" \in (DOMAIN report) \union DOMAIN result
            BY DEF UsageInv, UsageTyped
        <3> QED BY <2>2, <3>1 DEF Noted
    <2> QED BY <2>1, <2>2 DEF Read
<1>2. quota' \in Allowance
    BY DrawTyped DEF Read, UsageInv, UsageTyped
<1>3. UNCHANGED <<clock, requests, detached, unlogged, logs>>
    BY DEF Read, calling
<1>4. UsageTyped'
    BY <1>1, <1>2, <1>3 DEF UsageInv, UsageTyped
<1>5. Tracked'
    BY <1>3, TrackedStays DEF UsageInv
<1> QED BY <1>4, <1>5 DEF UsageInv

-----------------------------------------------------------------------------
(***************************************************************************)
(* Every action keeps the invariant.                                       *)
(***************************************************************************)
QuotaTyped == quota \in Allowance

\* A call is made, or moves on, or ends with its entry: the rest stays.
LEMMA CallKeeps ==
    ASSUME UsageInv, RequestsTyped', detached' \in Seq(EntryType), Tracked', QuotaTyped',
           UNCHANGED <<clock, logs, unlogged, report>>
    PROVE  UsageInv'
BY DEF UsageInv, UsageTyped, RequestsTyped, QuotaTyped

LEMMA StartKeeps ==
    ASSUME UsageInv, NEW q \in Request, StartRequest(q)
    PROVE  UsageInv'
<1>1. requests[q] = NotAsked /\ clock \in Nat /\ quota.ops \subseteq {"generate", "stream"}
      /\ quota.companies \subseteq Companies
    BY DEF StartRequest, UsageInv, UsageTyped, Allowance
<1>2. PICK op \in quota.ops, company \in quota.companies :
          requests' = [requests EXCEPT ![q] =
              [pc |-> op, company |-> company, began |-> clock, live |-> TRUE,
               last |-> NoCompletion]]
    BY DEF StartRequest
<1>3. PICK c : c = [pc |-> op, company |-> company, began |-> clock, live |-> TRUE,
                    last |-> NoCompletion]
    OBVIOUS
<1>4. c \in Called /\ c.began <= clock /\ c.pc # "ended"
    <2>1. op \in {"generate", "stream"} /\ company \in Companies /\ clock \in Nat
        BY <1>1
    <2>2. [vendor |-> "", tokens |-> 0] \in [vendor : Vendor \union {""}, tokens : Nat]
        OBVIOUS
    <2>3. c.began = clock /\ c.pc = op
        BY <1>3
    <2>4. clock <= clock
        BY <2>1
    <2>5. c \in Called
        BY <1>3, <2>1, <2>2 DEF Called, NoCompletion
    <2> QED BY <2>1, <2>3, <2>4, <2>5
<1>5. requests' = [requests EXCEPT ![q] = c]
    BY <1>2, <1>3
<1>6. RequestsTyped' /\ \A r \in Request : requests'[r].pc = "ended" <=> requests[r].pc = "ended"
    <2>1. RequestsTyped' /\ requests'[q] = c /\ \A r \in Request : r # q => requests'[r] = requests[r]
        BY <1>4, <1>5, CallBecomes DEF StartRequest, UsageInv
    <2>2. requests[q].pc # "ended"
        BY <1>1 DEF NotAsked
    <2> QED BY <1>4, <2>1, <2>2
<1>7. Tracked'
    BY <1>6, TrackedStays DEF StartRequest, UsageInv
<1>8. QuotaTyped'
    BY DrawTyped DEF StartRequest, UsageInv, QuotaTyped
<1> QED BY <1>6, <1>7, <1>8, CallKeeps DEF StartRequest, UsageInv, UsageTyped

LEMMA GenerateKeeps ==
    ASSUME UsageInv, NEW q \in Request, RecordGenerate(q)
    PROVE  UsageInv'
<1>1. requests[q] # NotAsked /\ requests[q].pc # "ended"
    BY DEF RecordGenerate, NotAsked
<1>2. PICK completion \in [vendor : Vendor \union {""}, tokens : Nat],
           err \in HTTPStatus \union {0, NoError} : RecordEntry(q, completion, err)
    BY DEF RecordGenerate, NoCompletion
<1>3. Ended(q) /\ UNCHANGED <<clock, logs, unlogged, report, quota>>
    BY DEF RecordGenerate
<1>4. RequestsTyped' /\ detached' \in Seq(EntryType) /\ Tracked'
    BY <1>1, <1>2, <1>3, EntryTracked
<1> QED BY <1>3, <1>4, CallKeeps DEF UsageInv, UsageTyped, QuotaTyped

LEMMA CloseKeeps ==
    ASSUME UsageInv, NEW q \in Request, CloseStream(q)
    PROVE  UsageInv'
<1>1. requests[q] # NotAsked /\ requests[q].pc # "ended" /\ requests[q] \in Called
    BY DEF CloseStream, NotAsked, UsageInv, UsageTyped
<1>2. PICK err : err = IF requests[q].live THEN NoError ELSE 0
    OBVIOUS
<1>3. PICK completion : completion = requests[q].last
    OBVIOUS
<1>4. completion \in [vendor : Vendor \union {""}, tokens : Nat]
      /\ err \in HTTPStatus \union {0, NoError}
    BY <1>1, <1>2, <1>3 DEF Called
<1>5. RecordEntry(q, completion, err) /\ Ended(q) /\ UNCHANGED <<clock, logs, unlogged, report, quota>>
    BY <1>2, <1>3 DEF CloseStream
<1>6. RequestsTyped' /\ detached' \in Seq(EntryType) /\ Tracked'
    BY <1>1, <1>4, <1>5, EntryTracked
<1> QED BY <1>5, <1>6, CallKeeps DEF UsageInv, UsageTyped, QuotaTyped

LEMMA OpenKeeps ==
    ASSUME UsageInv, NEW q \in Request, OpenStream(q)
    PROVE  UsageInv'
<1>1. requests[q] # NotAsked /\ requests[q].pc = "stream"
    BY DEF OpenStream, NotAsked
<1>2. UNCHANGED <<clock, logs, unlogged, report, quota>>
    BY DEF OpenStream
<1>3. CASE requests' = [requests EXCEPT ![q].pc = "open"] /\ UNCHANGED detached
    <2>1. RequestsTyped' /\ \A r \in Request : requests'[r].pc = "ended" <=> requests[r].pc = "ended"
        BY <1>1, <1>2, <1>3, CallEnds DEF UsageInv
    <2>2. Tracked'
        BY <1>2, <1>3, <2>1, TrackedStays DEF UsageInv
    <2> QED BY <1>2, <1>3, <2>1, <2>2, CallKeeps DEF UsageInv, UsageTyped, QuotaTyped
<1>4. CASE \E err \in HTTPStatus : RecordEntry(q, NoCompletion, err) /\ Ended(q)
    <2>1. NoCompletion \in [vendor : Vendor \union {""}, tokens : Nat]
        BY DEF NoCompletion
    <2>2. RequestsTyped' /\ detached' \in Seq(EntryType) /\ Tracked'
        BY <1>1, <1>2, <1>4, <2>1, EntryTracked
    <2> QED BY <1>2, <2>2, CallKeeps DEF UsageInv, UsageTyped, QuotaTyped
<1> QED BY <1>3, <1>4 DEF OpenStream

\* A chunk arrives, or the reader goes: the stream is open still.
LEMMA OpenStays ==
    ASSUME UsageInv, NEW q \in Request, UsageChunk(q) \/ HangUp(q)
    PROVE  UsageInv'
<1>1. requests[q].pc = "open" /\ requests[q] \in Called /\ requests[q].began <= clock
    BY DEF UsageChunk, HangUp, NotAsked, UsageInv, UsageTyped
<1>2. UNCHANGED <<clock, detached, logs, unlogged, report, quota>>
    BY DEF UsageChunk, HangUp
<1>3. PICK c : requests' = [requests EXCEPT ![q] = c] /\ c \in Called /\ c.pc = "open"
               /\ c.began = requests[q].began
    <2>1. CASE UsageChunk(q)
        <3>1. PICK vendor \in Vendor :
                  requests' = [requests EXCEPT ![q].last = [vendor |-> vendor, tokens |-> 1]]
            BY <2>1 DEF UsageChunk
        <3>2. PICK c : c = [requests[q] EXCEPT !.last = [vendor |-> vendor, tokens |-> 1]]
            OBVIOUS
        <3>3. c \in Called /\ c.pc = "open" /\ c.began = requests[q].began
            BY <1>1, <3>2 DEF Called
        <3> QED BY <3>1, <3>2, <3>3
    <2>2. CASE HangUp(q)
        <3>1. PICK c : c = [requests[q] EXCEPT !.live = FALSE]
            OBVIOUS
        <3>2. c \in Called /\ c.pc = "open" /\ c.began = requests[q].began
            BY <1>1, <3>1 DEF Called
        <3> QED BY <2>2, <3>1, <3>2 DEF HangUp
    <2> QED BY <2>1, <2>2
<1>4. RequestsTyped' /\ \A r \in Request : requests'[r].pc = "ended" <=> requests[r].pc = "ended"
    BY <1>1, <1>2, <1>3, CallBecomes DEF UsageInv
<1>5. Tracked'
    BY <1>2, <1>4, TrackedStays DEF UsageInv
<1> QED BY <1>2, <1>4, <1>5, CallKeeps DEF UsageInv, UsageTyped, QuotaTyped

\* An entry goes to the log, or is given up.
LEMMA RecordKeeps ==
    ASSUME UsageInv, NEW i \in DOMAIN detached, Record(i)
    PROVE  UsageInv'
<1>1. PICK entry : entry = detached[i]
    OBVIOUS
<1>2. entry \in EntryType /\ detached \in Seq(EntryType) /\ logs \in Seq(EntryType) /\ clock \in Nat
    BY <1>1 DEF UsageInv, UsageTyped
<1>3. /\ detached' = RemoveAt(detached, i) /\ UNCHANGED <<clock, requests, report>>
      /\ \/ /\ entry.company > 0 /\ logs' = Append(logs, [entry EXCEPT !.at = clock])
            /\ UNCHANGED <<unlogged, quota>>
         \/ /\ Draw("fault") \/ UNCHANGED quota
            /\ unlogged' = unlogged \union {entry.request} /\ UNCHANGED logs
    <2>1. Companies \subseteq Nat
        BY UsageAssumption DEF Companies
    <2>2. entry.company > 0 \/ entry.company <= 0
        <3>1. PICK n \in Nat : n = entry.company
            BY <1>2, <2>1 DEF EntryType
        <3>2. n > 0 \/ n <= 0
            OBVIOUS
        <3> QED BY <3>1, <3>2
    <2> QED BY <1>1, <2>2 DEF Record
<1>4. /\ detached' \in Seq(EntryType) /\ Single(detached)'
      /\ CallsIn(detached)' = CallsIn(detached) \ {entry.request}
      /\ entry.request \in CallsIn(detached) /\ entry.request \in Request
    <2>1. Single(detached) /\ entry.request \in CallsIn(detached) /\ entry.request \in Request
        BY <1>1, <1>2 DEF UsageInv, Tracked, CallsIn, EntryType
    <2>2. detached' \in Seq(EntryType) /\ Single(detached')
          /\ CallsIn(detached') = CallsIn(detached) \ {detached[i].request}
        BY <1>2, <1>3, <2>1, RemoveEntry
    <2> QED BY <1>1, <2>1, <2>2 DEF Single, CallsIn
<1>5. QuotaTyped'
    BY <1>3, DrawTyped DEF UsageInv, UsageTyped, QuotaTyped
<1>6. /\ CallsIn(logs) \intersect CallsIn(detached) = {}
      /\ unlogged \intersect (CallsIn(logs) \union CallsIn(detached)) = {}
      /\ \A r \in Request : requests[r].pc = "ended"
                           <=> r \in CallsIn(logs) \union CallsIn(detached) \union unlogged
      /\ Single(logs)
    BY DEF UsageInv, Tracked
<1>7. CASE entry.company > 0 /\ logs' = Append(logs, [entry EXCEPT !.at = clock]) /\ UNCHANGED unlogged
    <2>1. PICK row : row = [entry EXCEPT !.at = clock]
        OBVIOUS
    <2>2. row \in EntryType /\ row.request = entry.request /\ row.company > 0
        BY <1>2, <1>7, <2>1 DEF EntryType
    <2>3. row.request \notin CallsIn(logs) /\ logs' = Append(logs, row)
        BY <1>4, <1>6, <1>7, <2>1, <2>2
    <2>4. logs' \in Seq(EntryType) /\ Single(logs') /\ CallsIn(logs') = CallsIn(logs) \union {entry.request}
        BY <1>2, <1>6, <2>2, <2>3, AppendEntry
    <2>5. Single(logs)' /\ CallsIn(logs)' = CallsIn(logs) \union {entry.request}
        BY <2>4 DEF Single, CallsIn
    <2>6. Tracked'
        <3>1. Single(logs)' /\ Single(detached)'
            BY <1>4, <2>5
        <3>2. CallsIn(logs)' \intersect CallsIn(detached)' = {}
            BY <1>4, <1>6, <2>5
        <3>3. unlogged' \intersect (CallsIn(logs)' \union CallsIn(detached)') = {}
            BY <1>4, <1>6, <1>7, <2>5
        <3>4. ASSUME NEW q \in Request
              PROVE  requests'[q].pc = "ended" <=> q \in CallsIn(logs)' \union CallsIn(detached)' \union unlogged'
            BY <1>3, <1>4, <1>6, <1>7, <2>5
        <3> QED BY <3>1, <3>2, <3>3, <3>4 DEF Tracked
    <2>7. \A k \in DOMAIN logs' : logs'[k].company > 0
        <3>1. \A k \in DOMAIN logs : logs[k].company > 0
            BY DEF UsageInv, UsageTyped
        <3> QED BY <1>2, <2>2, <2>3, <3>1
    <2> QED BY <1>3, <1>4, <1>5, <1>7, <2>4, <2>6, <2>7 DEF UsageInv, UsageTyped, QuotaTyped
<1>8. CASE unlogged' = unlogged \union {entry.request} /\ UNCHANGED logs
    <2>1. Single(logs)' /\ CallsIn(logs)' = CallsIn(logs)
        BY <1>6, <1>8 DEF Single, CallsIn
    <2>2. Tracked'
        BY <1>3, <1>4, <1>6, <1>8, <2>1 DEF Tracked
    <2> QED BY <1>3, <1>4, <1>5, <1>8, <2>2 DEF UsageInv, UsageTyped, QuotaTyped
<1> QED BY <1>3, <1>7, <1>8

\* The process ends: what ran is over, and what was on its way is lost.
LEMMA ExitKeeps ==
    ASSUME UsageInv, ProcessExit
    PROVE  UsageInv'
<1>1. PICK cut : cut = {q \in Request : requests[q].pc \in {"generate", "stream", "open"}}
    OBVIOUS
<1>2. /\ requests' = [q \in Request |-> IF q \in cut THEN [requests[q] EXCEPT !.pc = "ended"]
                                        ELSE requests[q]]
      /\ unlogged' = unlogged \union cut \union CallsIn(detached)
      /\ detached' = <<>> /\ report' = NoReport /\ UNCHANGED <<clock, logs>>
    BY <1>1 DEF ProcessExit, CallsIn
<1>3. \A q \in Request : requests[q] = NotAsked \/ requests[q] \in Called
    BY DEF UsageInv, UsageTyped
<1>4. \A q \in cut : q \in Request /\ requests[q] \in Called
    BY <1>1, <1>3 DEF NotAsked
<1>5. ASSUME NEW q \in Request, q \in cut
      PROVE  /\ requests'[q] \in Called /\ requests'[q].began = requests[q].began
             /\ requests'[q].pc = "ended"
    BY <1>2, <1>4, <1>5 DEF Called
<1>6. RequestsTyped'
    <2>1. \A q \in Request : q \notin cut => requests'[q] = requests[q]
        BY <1>2
    <2>2. \A q \in Request : requests[q] # NotAsked => requests[q].began <= clock
        BY DEF UsageInv, UsageTyped
    <2>3. \A q \in cut : requests[q] # NotAsked
        BY <1>1 DEF NotAsked
    <2>4. \A q \in Request : requests'[q] \in {NotAsked} \union Called
        BY <1>3, <1>5, <2>1
    <2>5. \A q \in Request : requests'[q] # NotAsked => requests'[q].began <= clock'
        BY <1>2, <1>4, <1>5, <2>1, <2>2, <2>3
    <2>6. requests' \in [Request -> {NotAsked} \union Called]
        BY <1>2, <2>4
    <2> QED BY <2>5, <2>6 DEF RequestsTyped
<1>7. CallsIn(detached)' = {} /\ Single(detached)' /\ detached' \in Seq(EntryType)
    BY <1>2 DEF CallsIn, Single
<1>8. Tracked'
    <2>1. /\ Single(logs) /\ CallsIn(logs) \intersect CallsIn(detached) = {}
          /\ unlogged \intersect (CallsIn(logs) \union CallsIn(detached)) = {}
          /\ \A r \in Request : requests[r].pc = "ended"
                               <=> r \in CallsIn(logs) \union CallsIn(detached) \union unlogged
        BY DEF UsageInv, Tracked
    <2>2. Single(logs)' /\ CallsIn(logs)' = CallsIn(logs)
        BY <1>2, <2>1 DEF Single, CallsIn
    <2>3. \A r \in cut : r \in Request /\ requests[r].pc # "ended"
        BY <1>1
    <2>4. \A r \in Request : requests'[r].pc = "ended" <=> r \in cut \/ requests[r].pc = "ended"
        BY <1>2, <1>5
    <2>5. (unlogged \intersect (CallsIn(logs) \union CallsIn(detached)))' = {}
        BY <1>2, <1>7, <2>1, <2>2, <2>3
    <2>6. \A r \in Request : (requests[r].pc = "ended"
                             <=> r \in CallsIn(logs) \union CallsIn(detached) \union unlogged)'
        BY <1>2, <1>7, <2>1, <2>2, <2>4
    <2> QED BY <1>7, <2>2, <2>5, <2>6 DEF Tracked
<1>9. QuotaTyped'
    BY DrawTyped DEF ProcessExit, UsageInv, QuotaTyped
<1>10. "pc" \in DOMAIN report' /\ report'.pc \in Reading
    BY <1>2 DEF NoReport, Reading
<1>11. unlogged' \subseteq Request
    <2>1. \A i \in DOMAIN detached : detached[i].request \in Request
        <3>1. \A i \in DOMAIN detached : detached[i] \in EntryType
            BY DEF UsageInv, UsageTyped
        <3> QED BY <3>1 DEF EntryType
    <2> QED BY <1>1, <1>2, <2>1 DEF UsageInv, UsageTyped, CallsIn
<1> QED BY <1>2, <1>6, <1>7, <1>8, <1>9, <1>10, <1>11
        DEF UsageInv, UsageTyped, RequestsTyped, QuotaTyped

\* A report begins, is sent, or time passes: no call is touched.
LEMMA BesidesKeeps ==
    ASSUME UsageInv, BeginReport \/ Usage \/ Advance
    PROVE  UsageInv'
<1>1. UNCHANGED <<requests, detached, unlogged, logs>>
    BY DEF BeginReport, Usage, Advance, calling
<1>2. QuotaTyped'
    BY DrawTyped DEF BeginReport, Usage, Advance, UsageInv, UsageTyped, QuotaTyped
<1>3. clock' \in Nat /\ clock <= clock'
    BY DEF BeginReport, Usage, Advance, UsageInv, UsageTyped
<1>4. \A q \in Request : requests[q] # NotAsked => requests[q].began <= clock'
    <2>1. \A q \in Request : requests[q] # NotAsked =>
              requests[q].began \in Nat /\ requests[q].began <= clock /\ clock \in Nat
        BY DEF UsageInv, UsageTyped, Called
    <2> QED BY <1>3, <2>1
<1>5. "pc" \in DOMAIN report' /\ report'.pc \in Reading
    <2>1. CASE BeginReport
        <3>1. PICK company, days, started, from, rows, day :
                  report' = [pc |-> "totals", company |-> company, days |-> days,
                             started |-> started, from |-> from, rows |-> rows, day |-> day]
            BY <2>1 DEF BeginReport
        <3> QED BY <3>1 DEF Reading
    <2>2. CASE Usage
        BY <2>2 DEF Usage, NoReport, Reading
    <2>3. CASE Advance
        BY <2>3 DEF Advance, UsageInv, UsageTyped
    <2> QED BY <2>1, <2>2, <2>3
<1>6. Tracked'
    BY <1>1, TrackedStays DEF UsageInv
<1> QED BY <1>1, <1>2, <1>3, <1>4, <1>5, <1>6 DEF UsageInv, UsageTyped, QuotaTyped

LEMMA UsageNextKeeps == UsageInv /\ [UsageNext]_usageVars => UsageInv'
<1> SUFFICES ASSUME UsageInv, [UsageNext]_usageVars PROVE UsageInv'
    OBVIOUS
<1>1. CASE \E q \in Request : Calling(q)
    BY <1>1, StartKeeps, GenerateKeeps, OpenKeeps, OpenStays, CloseKeeps DEF Calling
<1>2. CASE \E i \in DOMAIN detached : Record(i)
    BY <1>2, RecordKeeps
<1>3. CASE UsageTotals \/ UsageLatencies \/ UsageToday \/ UsageDaily \/ UsageDailyByVendor
           \/ UsageDailyByStatus \/ UsageByModel \/ UsageModelsDaily \/ UsageRecent
    <2>1. \E pc, result : \E next \in Reading : Read(pc, result, next)
        BY <1>3 DEF UsageTotals, UsageLatencies, UsageToday, UsageDaily, UsageDailyByVendor,
           UsageDailyByStatus, UsageByModel, UsageModelsDaily, UsageRecent, Reading
    <2> QED BY <2>1, ReadTyped
<1>4. CASE BeginReport \/ Usage \/ Advance
    BY <1>4, BesidesKeeps
<1>5. CASE ProcessExit
    BY <1>5, ExitKeeps
<1>6. CASE UNCHANGED usageVars
    <2>1. UNCHANGED <<clock, requests, detached, logs, unlogged, report, quota>>
        BY <1>6 DEF usageVars
    <2> QED BY <2>1, TrackedStays DEF UsageInv, UsageTyped
<1> QED BY <1>1, <1>2, <1>3, <1>4, <1>5, <1>6 DEF UsageNext

LEMMA UsageStarts == UsageInit => UsageInv
<1> SUFFICES ASSUME UsageInit PROVE UsageInv
    OBVIOUS
<1>1. clock \in Nat
    <2>1. DayLength \in Nat /\ DayLength > 0
        BY UsageAssumption
    <2> QED BY <2>1 DEF UsageInit
<1>2. QuotaTyped
    <2>1. quota \in Quotas
        BY DEF UsageInit
    <2>2. quota.companies \subseteq Companies
        BY <2>1 DEF Companies
    <2> QED BY <2>1, <2>2, UsageAssumption DEF QuotaTyped, Allowance
<1>3. UsageTyped
    BY <1>1, <1>2 DEF UsageInit, UsageTyped, QuotaTyped, NoReport, Reading
<1>4. Tracked
    BY DEF UsageInit, Tracked, Single, CallsIn, NotAsked
<1> QED BY <1>3, <1>4 DEF UsageInv

LEMMA UsageInvariant == UsageSpec => []UsageInv
BY UsageStarts, UsageNextKeeps, PTL DEF UsageSpec

(***************************************************************************)
(* The state of the log and of its report has its type: what a goroutine   *)
(* writes is about a call of a known company, and a logged company is not  *)
(* the missing one.                                                        *)
(***************************************************************************)
THEOREM UsageTypeCorrect == UsageSpec => []UsageTypeOK
<1>1. UsageInv => UsageTypeOK
    <2> SUFFICES ASSUME UsageInv PROVE UsageTypeOK
        OBVIOUS
    <2>1. ASSUME NEW q \in Request, requests[q] # NotAsked
          PROVE  /\ requests[q].pc \in {"generate", "stream", "open", "ended"}
                 /\ requests[q].company \in Companies
                 /\ requests[q].last \in [vendor : Vendor \union {""}, tokens : Nat]
        <3>1. requests[q] \in Called
            BY <2>1 DEF UsageInv, UsageTyped
        <3> QED BY <3>1 DEF Called
    <2>2. \A i \in DOMAIN detached : detached[i] \in EntryType
        BY DEF UsageInv, UsageTyped
    <2>3. \A i \in DOMAIN logs : logs[i] \in EntryType /\ logs[i].company > 0
        BY DEF UsageInv, UsageTyped
    <2>4. clock \in Nat /\ unlogged \subseteq Request /\ report.pc \in Reading
        BY DEF UsageInv, UsageTyped
    <2> QED BY <2>1, <2>2, <2>3, <2>4 DEF UsageTypeOK, Reading
<1> QED BY <1>1, UsageInvariant, PTL

(***************************************************************************)
(* A call that ended has one row of ai_request_logs, or one entry on its   *)
(* way there, or was given up, and in one of the three only; a call that   *)
(* runs has none: however many calls there are, in whatever order their    *)
(* goroutines write, whichever way a stream ends, and though writes fail   *)
(* and the process dies.                                                   *)
(***************************************************************************)
THEOREM CallsAreLoggedOnce == UsageSpec => []LoggedOnce
<1>1. ASSUME NEW entries \in Seq(EntryType), NEW q, Single(entries)
      PROVE  Cardinality({i \in DOMAIN entries : entries[i].request = q})
                 = IF q \in CallsIn(entries) THEN 1 ELSE 0
    <2>1. CASE q \in CallsIn(entries)
        <3>1. PICK k \in DOMAIN entries : entries[k].request = q
            BY <2>1 DEF CallsIn
        <3>2. {i \in DOMAIN entries : entries[i].request = q} = {k}
            BY <1>1, <3>1 DEF Single
        <3> QED BY <2>1, <3>2, FS_Singleton
    <2>2. CASE q \notin CallsIn(entries)
        <3>1. {i \in DOMAIN entries : entries[i].request = q} = {}
            BY <2>2 DEF CallsIn
        <3> QED BY <2>2, <3>1, FS_EmptySet
    <2> QED BY <2>1, <2>2
<1>2. UsageInv => LoggedOnce
    <2> SUFFICES ASSUME UsageInv, NEW q \in Request
                 PROVE  Cardinality({i \in DOMAIN logs : logs[i].request = q})
                        + Cardinality({i \in DOMAIN detached : detached[i].request = q})
                        + Cardinality({q} \intersect unlogged)
                        = (IF requests[q].pc = "ended" THEN 1 ELSE 0)
        BY DEF LoggedOnce
    <2>1. /\ Cardinality({i \in DOMAIN logs : logs[i].request = q})
                 = IF q \in CallsIn(logs) THEN 1 ELSE 0
          /\ Cardinality({i \in DOMAIN detached : detached[i].request = q})
                 = IF q \in CallsIn(detached) THEN 1 ELSE 0
        BY <1>1 DEF UsageInv, UsageTyped, Tracked
    <2>2. Cardinality({q} \intersect unlogged) = IF q \in unlogged THEN 1 ELSE 0
        <3>1. CASE q \in unlogged
            BY <3>1, {q} \intersect unlogged = {q}, FS_Singleton
        <3>2. CASE q \notin unlogged
            BY <3>2, {q} \intersect unlogged = {}, FS_EmptySet
        <3> QED BY <3>1, <3>2
    <2>3. /\ q \in CallsIn(logs) => q \notin CallsIn(detached) /\ q \notin unlogged
          /\ q \in CallsIn(detached) => q \notin unlogged
          /\ requests[q].pc = "ended"
                 <=> q \in CallsIn(logs) \/ q \in CallsIn(detached) \/ q \in unlogged
        BY DEF UsageInv, Tracked
    <2> QED BY <2>1, <2>2, <2>3
<1> QED BY <1>2, UsageInvariant, PTL

-----------------------------------------------------------------------------
(* Sums, counted as pairs.                                                   *)
Ones(f) == UNION {{x} \X (1..f[x]) : x \in DOMAIN f}

LEMMA OnesAre ==
    ASSUME NEW K, NEW f \in [K -> Nat]
    PROVE  /\ \A x \in K : \A n \in 1..f[x] : <<x, n>> \in Ones(f)
           /\ \A u \in Ones(f) : \E x \in K : \E n \in 1..f[x] : u = <<x, n>>
<1>1. DOMAIN f = K
    OBVIOUS
<1>2. ASSUME NEW x \in K, NEW n \in 1..f[x]
      PROVE  <<x, n>> \in Ones(f)
    <2>1. <<x, n>> \in {x} \X (1..f[x])
        OBVIOUS
    <2> QED BY <1>1, <2>1 DEF Ones
<1>3. ASSUME NEW u \in Ones(f)
      PROVE  \E x \in K : \E n \in 1..f[x] : u = <<x, n>>
    <2>1. PICK x \in K : u \in {x} \X (1..f[x])
        BY <1>1 DEF Ones
    <2> QED BY <2>1
<1> QED BY <1>2, <1>3

\* A finite set S falls into pieces, one per value that "part" has, of the sizes f gives.
Splits(S, K, part, pieces, f) ==
    /\ IsFiniteSet(S) /\ part \in [S -> K] /\ f \in [K -> Nat]
    /\ \A x \in K : pieces[x] \subseteq S /\ f[x] = Cardinality(pieces[x])
    /\ \A x \in K : \A s \in S : s \in pieces[x] <=> part[s] = x

\* Together the pieces are as many as the whole.
LEMMA PartsAddUp ==
    ASSUME NEW S, NEW K, NEW part, NEW pieces, NEW f, Splits(S, K, part, pieces, f)
    PROVE  Total(f) = Cardinality(S)
<1> DEFINE number == [x \in K |-> CHOOSE g : g \in Bijection(1..f[x], pieces[x])]
           element == [u \in Ones(f) |-> number[u[1]][u[2]]]
<1> USE DEF Splits
<1>1. \A x \in K : number[x] \in Bijection(1..f[x], pieces[x])
    <2> TAKE x \in K
    <2>1. IsFiniteSet(pieces[x])
        BY FS_Subset
    <2>2. ExistsBijection(1..f[x], pieces[x])
        BY <2>1, FS_CardinalityType
    <2>3. \E g : g \in Bijection(1..f[x], pieces[x])
        BY <2>2 DEF ExistsBijection
    <2> QED BY <2>3
<1> HIDE DEF number
<1>2. \A x \in K : /\ \A n \in 1..f[x] : number[x][n] \in pieces[x]
                   /\ \A n, m \in 1..f[x] : number[x][n] = number[x][m] => n = m
                   /\ \A s \in pieces[x] : \E n \in 1..f[x] : number[x][n] = s
    BY <1>1 DEF Bijection, Injection, Surjection, IsInjective
<1>3. \A x \in K : \A n \in 1..f[x] : element[<<x, n>>] = number[x][n]
    BY OnesAre
<1> HIDE DEF element
<1>4. element \in [Ones(f) -> S]
    <2>1. \A u \in Ones(f) : element[u] \in S
        BY <1>2, <1>3, OnesAre
    <2> QED BY <2>1 DEF element
<1>5. \A u, w \in Ones(f) : element[u] = element[w] => u = w
    <2> TAKE u, w \in Ones(f)
    <2> HAVE element[u] = element[w]
    <2>1. PICK x \in K : \E n \in 1..f[x] : u = <<x, n>>
        BY OnesAre
    <2>2. PICK n \in 1..f[x] : u = <<x, n>>
        BY <2>1
    <2>3. PICK y \in K : \E m \in 1..f[y] : w = <<y, m>>
        BY OnesAre
    <2>4. PICK m \in 1..f[y] : w = <<y, m>>
        BY <2>3
    <2>5. number[x][n] = number[y][m]
        BY <1>3, <2>2, <2>4
    <2>6. part[number[x][n]] = x /\ part[number[y][m]] = y
        BY <1>2
    <2>7. x = y
        BY <2>5, <2>6
    <2> QED BY <1>2, <2>2, <2>4, <2>5, <2>7
<1>6. \A s \in S : \E u \in Ones(f) : element[u] = s
    <2> TAKE s \in S
    <2>1. PICK n \in 1..f[part[s]] : number[part[s]][n] = s
        BY <1>2
    <2>2. <<part[s], n>> \in Ones(f)
        BY <2>1, OnesAre
    <2>3. element[<<part[s], n>>] = s
        BY <1>3, <2>1
    <2> QED BY <2>2, <2>3
<1>7. element \in Bijection(Ones(f), S)
    BY <1>4, <1>5, <1>6 DEF Bijection, Injection, Surjection, IsInjective
<1>8. ExistsBijection(S, Ones(f))
    BY <1>7, Fun_ExistsBijSymmetric DEF ExistsBijection
<1> QED BY <1>8, FS_Bijection DEF Total, Ones

\* A part of a finite set of pairs.
LEMMA FiniteOnes ==
    ASSUME NEW K, IsFiniteSet(K), NEW f \in [K -> Nat]
    PROVE  IsFiniteSet(Ones(f))
<1>1. PICK parts : parts = {{x} \X (1..f[x]) : x \in K}
    OBVIOUS
<1>2. PICK map : map = [x \in K |-> {x} \X (1..f[x])]
    OBVIOUS
<1>3. map \in Surjection(K, parts)
    BY <1>1, <1>2 DEF Surjection
<1>4. IsFiniteSet(parts)
    BY <1>3, FS_Surjection
<1>5. ASSUME NEW x \in K
      PROVE  IsFiniteSet({x} \X (1..f[x]))
    <2>1. PICK n \in Nat : n = f[x]
        OBVIOUS
    <2>2. IsFiniteSet(1..n)
        BY FS_Interval
    <2>3. IsFiniteSet({x})
        BY FS_Singleton
    <2> QED BY <2>1, <2>2, <2>3, FS_Product
<1>6. \A p \in parts : IsFiniteSet(p)
    BY <1>1, <1>5
<1>7. IsFiniteSet(UNION parts)
    BY <1>4, <1>6, FS_UNION
<1>8. Ones(f) = UNION parts
    BY <1>1 DEF Ones
<1> QED BY <1>7, <1>8

-----------------------------------------------------------------------------
(* What a read counts, in the rows of a log.                                 *)
Columns == {"requests", "errors", "tokens"}

Window(log, R) == {i \in DOMAIN log : log[i].company = R.company /\ log[i].at >= R.from}
On(log, rows, day) == {i \in rows : DayOf(log[i].at) = day}
By(log, rows, vendor) == {i \in rows : log[i].vendor = vendor}
With(log, rows, status) == {i \in rows : log[i].http = status}
Bad(log, rows) == {i \in rows : log[i].status = "error"}

Sheet(log, rows) ==
    [requests |-> Cardinality(rows), errors |-> Cardinality(Bad(log, rows)),
     tokens |-> Total([i \in rows |-> log[i].tokens])]

\* What a row adds to a column, and the pairs counted there.
Share(log, i, name) ==
    IF name = "requests" THEN 1
    ELSE IF name = "errors" THEN IF log[i].status = "error" THEN 1 ELSE 0 ELSE log[i].tokens
Counted(log, rows, name) == Ones([i \in rows |-> Share(log, i, name)])

LEMMA WeightTyped ==
    ASSUME NEW log \in Seq(EntryType), NEW i \in DOMAIN log, NEW name
    PROVE  Share(log, i, name) \in Nat
<1>1. log[i] \in EntryType
    OBVIOUS
<1>2. log[i].tokens \in Nat
    BY <1>1 DEF EntryType
<1> QED BY <1>2 DEF Share

\* A column is the sum of what the rows add to it.
LEMMA SheetCounts ==
    ASSUME NEW log \in Seq(EntryType), NEW rows \in SUBSET DOMAIN log, NEW name \in Columns
    PROVE  /\ IsFiniteSet(rows) /\ IsFiniteSet(Counted(log, rows, name))
           /\ Sheet(log, rows)[name] = Cardinality(Counted(log, rows, name))
           /\ Sheet(log, rows)[name] \in Nat
<1>1. IsFiniteSet(rows)
    <2>1. PICK n \in Nat : DOMAIN log = 1..n
        OBVIOUS
    <2> QED BY <2>1, FS_Interval, FS_Subset
<1>2. PICK f : f = [i \in rows |-> Share(log, i, name)]
    OBVIOUS
<1>3. f \in [rows -> Nat]
    BY <1>2, WeightTyped
<1>4. IsFiniteSet(Counted(log, rows, name)) /\ Counted(log, rows, name) = Ones(f)
    BY <1>1, <1>2, <1>3, FiniteOnes DEF Counted
<1>5. Total(f) = Cardinality(Counted(log, rows, name))
    BY <1>4 DEF Total, Ones
<1>6. Sheet(log, rows)[name] = Total(f)
    <2>1. CASE name = "requests"
        <3>1. PICK part : part = [i \in rows |-> i]
            OBVIOUS
        <3>2. PICK pieces : pieces = [x \in rows |-> {x}]
            OBVIOUS
        <3>3. /\ part \in [rows -> rows]
              /\ \A x \in rows : pieces[x] \subseteq rows
              /\ \A x \in rows : \A s \in rows : s \in pieces[x] <=> part[s] = x
              /\ \A x \in rows : f[x] = Cardinality(pieces[x])
            BY <1>2, <2>1, <3>1, <3>2, FS_Singleton DEF Share
        <3>4. Splits(rows, rows, part, pieces, f)
            BY <1>1, <1>3, <3>3 DEF Splits
        <3>5. Total(f) = Cardinality(rows)
            BY <3>4, PartsAddUp
        <3> QED BY <2>1, <3>5 DEF Sheet
    <2>2. CASE name = "errors"
        <3>1. PICK part : part = [i \in Bad(log, rows) |-> i]
            OBVIOUS
        <3>2. part \in [Bad(log, rows) -> rows] /\ IsFiniteSet(Bad(log, rows))
            BY <1>1, <3>1, FS_Subset DEF Bad
        <3>3. PICK pieces : pieces = [x \in rows |-> IF log[x].status = "error" THEN {x} ELSE {}]
            OBVIOUS
        <3>4. /\ \A x \in rows : pieces[x] \subseteq Bad(log, rows)
              /\ \A x \in rows : \A s \in Bad(log, rows) : s \in pieces[x] <=> part[s] = x
            BY <3>1, <3>3 DEF Bad
        <3>5. \A x \in rows : f[x] = Cardinality(pieces[x])
            BY <1>2, <2>2, <3>3, FS_Singleton, FS_EmptySet DEF Share
        <3>6. Splits(Bad(log, rows), rows, part, pieces, f)
            BY <1>3, <3>2, <3>4, <3>5 DEF Splits
        <3>7. Total(f) = Cardinality(Bad(log, rows))
            BY <3>6, PartsAddUp
        <3> QED BY <2>2, <3>7 DEF Sheet
    <2>3. CASE name = "tokens"
        <3>1. f = [i \in rows |-> log[i].tokens]
            BY <1>2, <2>3 DEF Share
        <3> QED BY <2>3, <3>1 DEF Sheet
    <2> QED BY <2>1, <2>2, <2>3 DEF Columns
<1> QED BY <1>1, <1>4, <1>5, <1>6, FS_CardinalityType

\* The parts of rows that are told apart by a key add up.
Under(rows, key, x) == {i \in rows : key[i] = x}

\* f has a column of each part.
Broken(log, rows, name, K, key, f) ==
    /\ log \in Seq(EntryType) /\ rows \in SUBSET DOMAIN log /\ name \in Columns
    /\ key \in [rows -> K] /\ f \in [K -> Nat]
    /\ \A x \in K : f[x] = Sheet(log, Under(rows, key, x))[name]

LEMMA SheetsAddUp ==
    ASSUME NEW log, NEW rows, NEW name, NEW K, NEW key, NEW f, Broken(log, rows, name, K, key, f)
    PROVE  Total(f) = Sheet(log, rows)[name]
<1> USE DEF Broken
<1>1. PICK S : S = Counted(log, rows, name)
    OBVIOUS
<1>2. IsFiniteSet(S) /\ Sheet(log, rows)[name] = Cardinality(S)
    BY <1>1, SheetCounts
<1>3. \A part \in SUBSET rows : \A u : u \in Counted(log, part, name) <=>
          \E i \in part : \E n \in 1..Share(log, i, name) : u = <<i, n>>
    <2> TAKE part \in SUBSET rows
    <2>1. PICK g : g = [i \in part |-> Share(log, i, name)]
        OBVIOUS
    <2>2. g \in [part -> Nat] /\ Counted(log, part, name) = Ones(g)
        BY <2>1, WeightTyped DEF Counted
    <2> QED BY <2>1, <2>2, OnesAre
<1>4. PICK part : part = [u \in S |-> key[u[1]]]
    OBVIOUS
<1>5. \A u \in S : u[1] \in rows
    BY <1>1, <1>3
<1>6. part \in [S -> K]
    BY <1>4, <1>5
<1>7. PICK pieces : pieces = [x \in K |-> {u \in S : part[u] = x}]
    OBVIOUS
<1>8. ASSUME NEW x \in K
      PROVE  f[x] = Cardinality(pieces[x])
    <2>1. PICK mine \in SUBSET rows : mine = {i \in rows : key[i] = x}
        OBVIOUS
    <2>2. f[x] = Cardinality(Counted(log, mine, name))
        BY <2>1, SheetCounts DEF Under
    <2>3. \A u : u \in Counted(log, mine, name) <=>
              \E i \in mine : \E n \in 1..Share(log, i, name) : u = <<i, n>>
        BY <1>3
    <2>4. \A u : u \in S <=> \E i \in rows : \E n \in 1..Share(log, i, name) : u = <<i, n>>
        BY <1>1, <1>3
    <2>5. \A i \in rows : \A n \in 1..Share(log, i, name) : part[<<i, n>>] = key[i]
        BY <1>4, <2>4
    <2>6. ASSUME NEW u \in Counted(log, mine, name)
          PROVE  u \in S /\ part[u] = x
        <3>1. PICK i \in mine : \E n \in 1..Share(log, i, name) : u = <<i, n>>
            BY <2>3
        <3>2. PICK n \in 1..Share(log, i, name) : u = <<i, n>>
            BY <3>1
        <3>3. i \in rows /\ key[i] = x
            BY <2>1
        <3> QED BY <2>4, <2>5, <3>2, <3>3
    <2>7. ASSUME NEW u \in S, part[u] = x
          PROVE  u \in Counted(log, mine, name)
        <3>1. PICK i \in rows : \E n \in 1..Share(log, i, name) : u = <<i, n>>
            BY <2>4
        <3>2. PICK n \in 1..Share(log, i, name) : u = <<i, n>>
            BY <3>1
        <3>3. i \in mine
            BY <2>1, <2>5, <2>7, <3>2
        <3> QED BY <2>3, <3>2, <3>3
    <2>8. Counted(log, mine, name) = pieces[x]
        BY <1>7, <2>6, <2>7
    <2> QED BY <2>2, <2>8
<1>9. /\ \A x \in K : pieces[x] \subseteq S
      /\ \A x \in K : \A s \in S : s \in pieces[x] <=> part[s] = x
    BY <1>7
<1>10. Splits(S, K, part, pieces, f)
    BY <1>2, <1>6, <1>8, <1>9 DEF Splits
<1> QED BY <1>2, <1>10, PartsAddUp

\* More rows count for no less.
LEMMA SheetGrows ==
    ASSUME NEW log \in Seq(EntryType), NEW rows \in SUBSET DOMAIN log, NEW fewer \in SUBSET rows,
           NEW name \in Columns
    PROVE  Sheet(log, fewer)[name] <= Sheet(log, rows)[name]
<1>1. ASSUME NEW part \in SUBSET rows, NEW u
      PROVE  u \in Counted(log, part, name) <=>
                 \E i \in part : \E n \in 1..Share(log, i, name) : u = <<i, n>>
    <2>1. PICK g : g = [i \in part |-> Share(log, i, name)]
        OBVIOUS
    <2>2. g \in [part -> Nat] /\ Counted(log, part, name) = Ones(g)
        BY <2>1, WeightTyped DEF Counted
    <2> QED BY <2>1, <2>2, OnesAre
<1>2. Counted(log, fewer, name) \subseteq Counted(log, rows, name)
    BY <1>1
<1> QED BY <1>2, SheetCounts, FS_Subset

\* A row more leaves what was counted in the old ones.
LEMMA SheetStays ==
    ASSUME NEW log \in Seq(EntryType), NEW entry \in EntryType, NEW rows \in SUBSET DOMAIN log
    PROVE  Sheet(Append(log, entry), rows) = Sheet(log, rows)
<1>1. PICK more : more = Append(log, entry)
    OBVIOUS
<1>2. \A i \in DOMAIN log : more[i] = log[i]
    BY <1>1
<1>3. Bad(more, rows) = Bad(log, rows)
    BY <1>2 DEF Bad
<1>4. [i \in rows |-> more[i].tokens] = [i \in rows |-> log[i].tokens]
    BY <1>2
<1> QED BY <1>1, <1>3, <1>4 DEF Sheet

-----------------------------------------------------------------------------
(***************************************************************************)
(* A report under way.  Of two numbers that are to fit, the first is held  *)
(* against the second once that is read, and until then against what the   *)
(* second would be if it were read now: rows are only added, so that moves *)
(* away from the first in one direction, and not at all in a quiet log.    *)
(***************************************************************************)
FromStart == {"company", "days", "started", "from", "rows", "day"}
Parts == {"totals", "p50", "p95", "today", "daily", "by_vendor", "by_status", "by_model", "models_daily",
          "recent", "rows_after", "day_after"}

Agrees(R, log, count, field, later, current) ==
    /\ count \in Nat
    /\ Accords(count, IF field \in DOMAIN R THEN later ELSE current, R.rows = Len(log))

VendorsAgree(R, log, d) ==
    "daily" \in DOMAIN R =>
        Agrees(R, log, R.daily[d].requests, "by_vendor", Total(R.by_vendor[d]),
               Sheet(log, On(log, Window(log, R), d))["requests"])
StatusesAgree(R, log, d) ==
    "daily" \in DOMAIN R =>
        Agrees(R, log, R.daily[d].errors, "by_status", Total(R.by_status[d]),
               Sheet(log, On(log, Window(log, R), d))["errors"])
TokensAgree(R, log, d) ==
    "daily" \in DOMAIN R =>
        Agrees(R, log, R.daily[d].tokens, "models_daily",
               Column([v \in Vendor |-> R.models_daily[v][d]], "tokens"),
               Sheet(log, On(log, Window(log, R), d))["tokens"])
ModelsAgree(R, log, name) ==
    "totals" \in DOMAIN R =>
        Agrees(R, log, R.totals[name], "by_model", Column(R.by_model, name),
               Sheet(log, Window(log, R))[name])

\* Until midnight every row is of one of the days of the report.
DaysAgree(R, log, tick, name) ==
    "totals" \in DOMAIN R /\ R.day = DayOf(tick) =>
        Agrees(R, log, R.totals[name], "daily", Column(R.daily, name), Sheet(log, Window(log, R))[name])
ModelDaysAgree(R, log, tick, v, name) ==
    "by_model" \in DOMAIN R /\ R.day = DayOf(tick) =>
        Agrees(R, log, R.by_model[v][name], "models_daily", Column(R.models_daily[v], name),
               Sheet(log, By(log, Window(log, R), v))[name])

\* The rows it reads begin at "from"; "days" days end with the one it began on.
Bounds(R, log, tick) ==
    /\ FromStart \subseteq DOMAIN R
    /\ R.started \in Int /\ R.from \in Int /\ R.days \in Nat /\ R.started <= R.from
    /\ R.rows \in Nat /\ R.rows <= Len(log)
    /\ R.day = DayOf(R.started) + R.days - 1 /\ R.day <= DayOf(tick)

Days(R) == DailyDateRange(R.started, R.days)

Agreement(R, log, tick) ==
    /\ \A d \in Days(R) : VendorsAgree(R, log, d) /\ StatusesAgree(R, log, d) /\ TokensAgree(R, log, d)
    /\ \A name \in Columns : ModelsAgree(R, log, name) /\ DaysAgree(R, log, tick, name)
    /\ \A v \in Vendor : \A name \in Columns : ModelDaysAgree(R, log, tick, v, name)

Steps == Reading \ {"none", "answered"}

\* What was read, by the read that is next.
PartsAt(R) ==
    /\ "totals" \in DOMAIN R <=> R.pc \in Steps \ {"totals"}
    /\ "p50" \in DOMAIN R <=> R.pc \in Steps \ {"totals", "latencies"}
    /\ "p95" \in DOMAIN R <=> R.pc \in Steps \ {"totals", "latencies"}
    /\ "daily" \in DOMAIN R
           <=> R.pc \in {"by vendor", "by status", "by model", "models daily", "recent"}
    /\ "by_vendor" \in DOMAIN R <=> R.pc \in {"by status", "by model", "models daily", "recent"}
    /\ "by_status" \in DOMAIN R <=> R.pc \in {"by model", "models daily", "recent"}
    /\ "by_model" \in DOMAIN R <=> R.pc \in {"models daily", "recent"}
    /\ "models_daily" \in DOMAIN R <=> R.pc = "recent"

UnderWay(R, log, tick) ==
    /\ "pc" \in DOMAIN R /\ R.pc \in Steps
    /\ PartsAt(R)
    /\ Bounds(R, log, tick)
    /\ Agreement(R, log, tick)
    /\ "p95" \in DOMAIN R => R.p50 <= R.p95

-----------------------------------------------------------------------------
(* A row more.                                                               *)
LEMMA AgreesGrows ==
    ASSUME NEW R, NEW log \in Seq(EntryType), NEW entry \in EntryType,
           R.rows \in Nat, R.rows <= Len(log),
           NEW count, NEW field, NEW later, NEW current \in Nat, NEW more \in Nat, current <= more,
           Agrees(R, log, count, field, later, current)
    PROVE  Agrees(R, Append(log, entry), count, field, later, more)
<1>1. PICK rows \in Nat : rows = R.rows
    OBVIOUS
<1>2. PICK n \in Nat : n = Len(log)
    OBVIOUS
<1>3. Len(Append(log, entry)) = n + 1 /\ rows <= n
    BY <1>1, <1>2
<1>4. R.rows # Len(Append(log, entry))
    BY <1>1, <1>3
<1>5. CASE field \in DOMAIN R
    BY <1>4, <1>5 DEF Agrees, Accords
<1>6. CASE field \notin DOMAIN R
    <2>1. count \in Nat /\ count <= current
        BY <1>6 DEF Agrees, Accords
    <2>2. count <= more
        BY <2>1
    <2> QED BY <1>4, <1>6, <2>1, <2>2 DEF Agrees, Accords
<1> QED BY <1>5, <1>6

\* The rows of a part stay in it.
LEMMA RowsGrow ==
    ASSUME NEW R, NEW log \in Seq(EntryType), NEW entry \in EntryType, NEW more,
           more = Append(log, entry)
    PROVE  /\ more \in Seq(EntryType)
           /\ Window(log, R) \subseteq Window(more, R)
           /\ Window(log, R) \subseteq DOMAIN log /\ Window(more, R) \subseteq DOMAIN more
           /\ \A d : /\ On(log, Window(log, R), d) \subseteq On(more, Window(more, R), d)
                     /\ On(log, Window(log, R), d) \subseteq DOMAIN log
                     /\ On(more, Window(more, R), d) \subseteq DOMAIN more
           /\ \A v : /\ By(log, Window(log, R), v) \subseteq By(more, Window(more, R), v)
                     /\ By(log, Window(log, R), v) \subseteq DOMAIN log
                     /\ By(more, Window(more, R), v) \subseteq DOMAIN more
<1>1. /\ more \in Seq(EntryType)
      /\ \A i \in DOMAIN log : i \in DOMAIN more /\ more[i] = log[i]
    OBVIOUS
<1>2. Window(log, R) \subseteq Window(more, R)
    BY <1>1 DEF Window
<1>3. Window(log, R) \subseteq DOMAIN log /\ Window(more, R) \subseteq DOMAIN more
    BY DEF Window
<1> QED BY <1>1, <1>2, <1>3 DEF On, By

LEMMA SheetMore ==
    ASSUME NEW log \in Seq(EntryType), NEW entry \in EntryType, NEW more, more = Append(log, entry),
           NEW fewer \in SUBSET DOMAIN log, NEW rows \in SUBSET DOMAIN more, fewer \subseteq rows,
           NEW name \in Columns
    PROVE  /\ Sheet(log, fewer)[name] \in Nat /\ Sheet(more, rows)[name] \in Nat
           /\ Sheet(log, fewer)[name] <= Sheet(more, rows)[name]
<1>1. more \in Seq(EntryType)
    OBVIOUS
<1>2. Sheet(more, fewer) = Sheet(log, fewer)
    BY SheetStays
<1>3. Sheet(more, fewer)[name] <= Sheet(more, rows)[name]
    BY <1>1, SheetGrows
<1> QED BY <1>1, <1>2, <1>3, SheetCounts

LEMMA ReportGrows ==
    ASSUME NEW R, NEW log \in Seq(EntryType), NEW entry \in EntryType, NEW tick,
           UnderWay(R, log, tick)
    PROVE  UnderWay(R, Append(log, entry), tick)
<1>1. PICK more : more = Append(log, entry)
    OBVIOUS
<1>2. R.rows \in Nat /\ R.rows <= Len(log)
    BY DEF UnderWay, Bounds
<1>3. Columns = {"requests", "errors", "tokens"}
    BY DEF Columns
<1>4. Bounds(R, more, tick)
    <2>1. PICK n \in Nat : n = Len(log)
        OBVIOUS
    <2>2. PICK rows \in Nat : rows = R.rows
        BY <1>2
    <2>3. Len(more) = n + 1 /\ rows <= n
        BY <1>1, <1>2, <2>1, <2>2
    <2>4. R.rows <= Len(more)
        BY <2>2, <2>3
    <2> QED BY <2>4 DEF UnderWay, Bounds
<1>5. ASSUME NEW d \in Days(R)
      PROVE  VendorsAgree(R, more, d) /\ StatusesAgree(R, more, d) /\ TokensAgree(R, more, d)
    <2>1. VendorsAgree(R, log, d) /\ StatusesAgree(R, log, d) /\ TokensAgree(R, log, d)
        BY DEF UnderWay, Agreement
    <2>2. PICK fewer \in SUBSET DOMAIN log : fewer = On(log, Window(log, R), d)
        BY <1>1, RowsGrow
    <2>3. PICK rows \in SUBSET DOMAIN more : rows = On(more, Window(more, R), d)
        BY <1>1, RowsGrow
    <2>4. fewer \subseteq rows
        BY <1>1, <2>2, <2>3, RowsGrow
    <2>5. \A name \in Columns : /\ Sheet(log, fewer)[name] \in Nat /\ Sheet(more, rows)[name] \in Nat
                                /\ Sheet(log, fewer)[name] <= Sheet(more, rows)[name]
        BY <1>1, <2>4, SheetMore
    <2>6. VendorsAgree(R, more, d)
        BY <1>1, <1>2, <1>3, <2>1, <2>2, <2>3, <2>5, AgreesGrows DEF VendorsAgree
    <2>7. StatusesAgree(R, more, d)
        BY <1>1, <1>2, <1>3, <2>1, <2>2, <2>3, <2>5, AgreesGrows DEF StatusesAgree
    <2>8. TokensAgree(R, more, d)
        BY <1>1, <1>2, <1>3, <2>1, <2>2, <2>3, <2>5, AgreesGrows DEF TokensAgree
    <2> QED BY <2>6, <2>7, <2>8
<1>6. ASSUME NEW name \in Columns
      PROVE  ModelsAgree(R, more, name) /\ DaysAgree(R, more, tick, name)
    <2>1. ModelsAgree(R, log, name) /\ DaysAgree(R, log, tick, name)
        BY DEF UnderWay, Agreement
    <2>2. PICK fewer \in SUBSET DOMAIN log : fewer = Window(log, R)
        BY <1>1, RowsGrow
    <2>3. PICK rows \in SUBSET DOMAIN more : rows = Window(more, R)
        BY <1>1, RowsGrow
    <2>4. fewer \subseteq rows
        BY <1>1, <2>2, <2>3, RowsGrow
    <2>5. /\ Sheet(log, fewer)[name] \in Nat /\ Sheet(more, rows)[name] \in Nat
          /\ Sheet(log, fewer)[name] <= Sheet(more, rows)[name]
        BY <1>1, <2>4, SheetMore
    <2>6. ModelsAgree(R, more, name)
        BY <1>1, <1>2, <2>1, <2>2, <2>3, <2>5, AgreesGrows DEF ModelsAgree
    <2>7. DaysAgree(R, more, tick, name)
        BY <1>1, <1>2, <2>1, <2>2, <2>3, <2>5, AgreesGrows DEF DaysAgree
    <2> QED BY <2>6, <2>7
<1>7. ASSUME NEW v \in Vendor, NEW name \in Columns
      PROVE  ModelDaysAgree(R, more, tick, v, name)
    <2>1. ModelDaysAgree(R, log, tick, v, name)
        BY DEF UnderWay, Agreement
    <2>2. PICK fewer \in SUBSET DOMAIN log : fewer = By(log, Window(log, R), v)
        BY <1>1, RowsGrow
    <2>3. PICK rows \in SUBSET DOMAIN more : rows = By(more, Window(more, R), v)
        BY <1>1, RowsGrow
    <2>4. fewer \subseteq rows
        BY <1>1, <2>2, <2>3, RowsGrow
    <2>5. /\ Sheet(log, fewer)[name] \in Nat /\ Sheet(more, rows)[name] \in Nat
          /\ Sheet(log, fewer)[name] <= Sheet(more, rows)[name]
        BY <1>1, <2>4, SheetMore
    <2> QED BY <1>1, <1>2, <2>1, <2>2, <2>3, <2>5, AgreesGrows DEF ModelDaysAgree
<1>8. Agreement(R, more, tick)
    BY <1>5, <1>6, <1>7 DEF Agreement
<1> QED BY <1>1, <1>4, <1>8 DEF UnderWay

-----------------------------------------------------------------------------
(* Days.                                                                     *)
LEMMA DayBounds ==
    ASSUME NEW t \in Int
    PROVE  /\ DayOf(t) \in Int
           /\ DayLength * DayOf(t) <= t /\ t < DayLength * DayOf(t) + DayLength
<1>1. DayLength \in Nat /\ DayLength > 0
    BY UsageAssumption
<1> QED BY <1>1 DEF DayOf

LEMMA Trichotomy ==
    ASSUME NEW a \in Int, NEW b \in Int
    PROVE  a < b \/ b < a \/ a = b
OBVIOUS

LEMMA DayIsTheOnly ==
    ASSUME NEW t \in Int, NEW d \in Int,
           DayLength * d <= t, t < DayLength * d + DayLength
    PROVE  DayOf(t) = d
<1>1. DayLength \in Nat /\ DayLength > 0
    BY UsageAssumption
<1>2. PICK L \in Nat : L = DayLength /\ L > 0
    BY <1>1
<1>3. PICK e \in Int : e = DayOf(t) /\ L * e <= t /\ t < L * e + L
    BY <1>2, DayBounds
<1>4. ~ (e < d)
    <2> SUFFICES ASSUME e < d PROVE FALSE
        OBVIOUS
    <2>1. e + 1 <= d
        OBVIOUS
    <2>2. L * (e + 1) <= L * d
        BY <1>2, <2>1
    <2>3. L * (e + 1) = L * e + L
        BY <1>2
    <2> QED BY <1>2, <1>3, <2>2, <2>3
<1>5. ~ (d < e)
    <2> SUFFICES ASSUME d < e PROVE FALSE
        OBVIOUS
    <2>1. d + 1 <= e
        OBVIOUS
    <2>2. L * (d + 1) <= L * e
        BY <1>2, <2>1
    <2>3. L * (d + 1) = L * d + L
        BY <1>2
    <2> QED BY <1>2, <1>3, <2>2, <2>3
<1> QED BY <1>3, <1>4, <1>5, Trichotomy, Zenon

LEMMA DaysPass ==
    ASSUME NEW t \in Int, NEW u \in Int, t <= u
    PROVE  DayOf(t) <= DayOf(u)
<1>1. PICK L \in Nat : L = DayLength /\ L > 0
    BY UsageAssumption
<1>2. PICK d \in Int : d = DayOf(t) /\ L * d <= t
    BY <1>1, DayBounds
<1>3. PICK e \in Int : e = DayOf(u) /\ u < L * e + L
    BY <1>1, DayBounds
<1>4. ~ (e < d)
    <2> SUFFICES ASSUME e < d PROVE FALSE
        OBVIOUS
    <2>1. e + 1 <= d
        OBVIOUS
    <2>2. L * (e + 1) <= L * d
        BY <1>1, <2>1
    <2>3. L * (e + 1) = L * e + L
        BY <1>1
    <2> QED BY <1>1, <1>2, <1>3, <2>2, <2>3
<1> QED BY <1>2, <1>3, <1>4

LEMMA DaysBack ==
    ASSUME NEW t \in Int, NEW m \in Int
    PROVE  DayOf(t - m * DayLength) = DayOf(t) - m
<1>1. PICK L \in Nat : L = DayLength /\ L > 0
    BY UsageAssumption
<1>2. PICK d \in Int : d = DayOf(t) /\ L * d <= t /\ t < L * d + L
    BY <1>1, DayBounds
<1>3. PICK x \in Int : x = m * L
    BY <1>1
<1>4. L * (d - m) = L * d - x
    BY <1>1, <1>3
<1>5. PICK y \in Int : y = L * d
    BY <1>1
<1>6. L * (d - m) <= t - x /\ t - x < L * (d - m) + L
    BY <1>1, <1>2, <1>4, <1>5
<1>7. t - x \in Int /\ d - m \in Int
    OBVIOUS
<1>8. DayOf(t - x) = d - m
    BY <1>1, <1>6, <1>7, DayIsTheOnly
<1> QED BY <1>1, <1>2, <1>3, <1>8

\* Time passes.
LEMMA ReportWaits ==
    ASSUME NEW R, NEW log, NEW t \in Int, NEW u \in Int, t <= u, UnderWay(R, log, t)
    PROVE  UnderWay(R, log, u)
<1>1. DayOf(t) \in Int /\ DayOf(u) \in Int /\ DayOf(t) <= DayOf(u)
    BY DayBounds, DaysPass
<1>2. R.day \in Int /\ R.day <= DayOf(t)
    <2>1. PICK s \in Int : s = R.started
        BY DEF UnderWay, Bounds
    <2>2. DayOf(s) \in Int
        BY DayBounds
    <2>3. PICK n \in Nat : n = R.days
        BY DEF UnderWay, Bounds
    <2>4. R.day = DayOf(s) + n - 1
        BY <2>1, <2>3 DEF UnderWay, Bounds
    <2> QED BY <2>2, <2>4 DEF UnderWay, Bounds
<1>3. R.day <= DayOf(u) /\ (R.day = DayOf(u) => R.day = DayOf(t))
    BY <1>1, <1>2
<1>4. Bounds(R, log, u)
    BY <1>3 DEF UnderWay, Bounds
<1>5. Agreement(R, log, u)
    BY <1>3 DEF UnderWay, Agreement, DaysAgree, ModelDaysAgree
<1> QED BY <1>4, <1>5 DEF UnderWay

\* No row is of a later time than the clock's.
WrittenBy(log, tick) == \A i \in DOMAIN log : log[i].at <= tick

\* Until midnight the days of the report hold every row it reads.
LEMMA DaysCover ==
    ASSUME NEW R, NEW log \in Seq(EntryType), NEW tick \in Int, Bounds(R, log, tick),
           R.day = DayOf(tick), WrittenBy(log, tick), NEW i \in Window(log, R)
    PROVE  DayOf(log[i].at) \in Days(R)
<1>1. i \in DOMAIN log /\ log[i].at >= R.from /\ log[i].at <= tick
    BY DEF Window, WrittenBy
<1>2. log[i] \in EntryType
    BY <1>1
<1>3. PICK t \in Int : t = log[i].at
    BY <1>2 DEF EntryType
<1>4. PICK s \in Int : s = R.started
    BY DEF Bounds
<1>5. PICK f \in Int : f = R.from
    BY DEF Bounds
<1>6. PICK n \in Nat : n = R.days
    BY DEF Bounds
<1>7. s <= t /\ t <= tick
    <2>1. s <= f
        BY <1>4, <1>5 DEF Bounds
    <2>2. f <= t /\ t <= tick
        BY <1>1, <1>3, <1>5
    <2> QED BY <2>1, <2>2
<1>8. DayOf(s) <= DayOf(t) /\ DayOf(t) <= DayOf(tick)
    BY <1>7, DaysPass
<1>9. DayOf(s) \in Int /\ DayOf(t) \in Int /\ DayOf(tick) = DayOf(s) + n - 1
    BY <1>4, <1>6, DayBounds DEF Bounds
<1>10. Days(R) = DayOf(s)..(DayOf(s) + n - 1)
    BY <1>4, <1>6 DEF Days, DailyDateRange
<1> QED BY <1>3, <1>8, <1>9, <1>10

-----------------------------------------------------------------------------
(* A read.                                                                   *)
Note(R, result, next) ==
    [name \in DOMAIN R \union DOMAIN result |->
        IF name = "pc" THEN next ELSE IF name \in DOMAIN result THEN result[name] ELSE R[name]]

\* The report goes on with more fields.
Continues(R, more, fields) ==
    /\ \A name \in FromStart : more[name] = R[name]
    /\ DOMAIN more = DOMAIN R \union fields
    /\ \A name \in DOMAIN R \ fields : name # "pc" => more[name] = R[name]

Adds(R, fields, result, next, more) ==
    /\ "pc" \in DOMAIN R /\ FromStart \subseteq DOMAIN R /\ fields \in SUBSET Parts
    /\ DOMAIN result = fields
    /\ more = Note(R, result, next)

Has(R, fields, result, next, more) ==
    /\ Continues(R, more, fields) /\ "pc" \in DOMAIN more /\ more.pc = next
    /\ \A name \in fields : more[name] = result[name]

LEMMA Noting ==
    ASSUME NEW R, NEW fields, NEW result, NEW next, NEW more, Adds(R, fields, result, next, more)
    PROVE  Has(R, fields, result, next, more)
<1> USE DEF Adds
<1>1. "pc" \notin Parts /\ "pc" \notin FromStart /\ Parts \intersect FromStart = {}
    BY DEF Parts, FromStart
<1>2. \A name \in DOMAIN R \union fields : more[name] =
          IF name = "pc" THEN next ELSE IF name \in fields THEN result[name] ELSE R[name]
    BY DEF Note
<1>3. DOMAIN more = DOMAIN R \union fields
    BY DEF Note
<1> QED BY <1>1, <1>2, <1>3 DEF Has, Continues

LEMMA ContinuesTheSame ==
    ASSUME NEW R, NEW more, NEW fields, Continues(R, more, fields)
    PROVE  /\ more.company = R.company /\ more.from = R.from /\ more.started = R.started
           /\ more.days = R.days /\ more.rows = R.rows /\ more.day = R.day
           /\ \A log : Window(log, more) = Window(log, R)
           /\ Days(more) = Days(R)
<1>1. /\ more.company = R.company /\ more.from = R.from /\ more.started = R.started
      /\ more.days = R.days /\ more.rows = R.rows /\ more.day = R.day
    BY DEF Continues, FromStart
<1> QED BY <1>1 DEF Window, Days

\* What is neither read nor held against what is read stays as it was.
LEMMA PairsStay ==
    ASSUME NEW R, NEW log, NEW tick, UnderWay(R, log, tick),
           NEW fields \in SUBSET Parts, NEW more, Continues(R, more, fields)
    PROVE  /\ Bounds(more, log, tick)
           /\ {"daily", "by_vendor"} \intersect fields = {}
                  => \A d \in Days(R) : VendorsAgree(more, log, d)
           /\ {"daily", "by_status"} \intersect fields = {}
                  => \A d \in Days(R) : StatusesAgree(more, log, d)
           /\ {"daily", "models_daily"} \intersect fields = {}
                  => \A d \in Days(R) : TokensAgree(more, log, d)
           /\ {"totals", "by_model"} \intersect fields = {}
                  => \A name \in Columns : ModelsAgree(more, log, name)
           /\ {"totals", "daily"} \intersect fields = {}
                  => \A name \in Columns : DaysAgree(more, log, tick, name)
           /\ {"by_model", "models_daily"} \intersect fields = {}
                  => \A v \in Vendor : \A name \in Columns : ModelDaysAgree(more, log, tick, v, name)
           /\ {"p50", "p95"} \intersect fields = {} => ("p95" \in DOMAIN more => more.p50 <= more.p95)
<1>1. /\ more.company = R.company /\ more.from = R.from /\ more.started = R.started
      /\ more.days = R.days /\ more.rows = R.rows /\ more.day = R.day
      /\ Window(log, more) = Window(log, R)
    BY ContinuesTheSame
<1>2. \A name \in Parts \ fields : /\ name \in DOMAIN more <=> name \in DOMAIN R
                                   /\ name \in DOMAIN R => more[name] = R[name]
    BY DEF Continues, Parts
<1>3. Bounds(more, log, tick)
    BY <1>1 DEF UnderWay, Bounds, Continues
<1>4. {"daily", "by_vendor"} \intersect fields = {} => \A d \in Days(R) : VendorsAgree(more, log, d)
    <2> SUFFICES ASSUME {"daily", "by_vendor"} \intersect fields = {}, NEW d \in Days(R)
                 PROVE  VendorsAgree(more, log, d)
        OBVIOUS
    <2>1. VendorsAgree(R, log, d)
        BY DEF UnderWay, Agreement
    <2> QED BY <1>1, <1>2, <2>1 DEF VendorsAgree, Agrees, Parts
<1>5. {"daily", "by_status"} \intersect fields = {} => \A d \in Days(R) : StatusesAgree(more, log, d)
    <2> SUFFICES ASSUME {"daily", "by_status"} \intersect fields = {}, NEW d \in Days(R)
                 PROVE  StatusesAgree(more, log, d)
        OBVIOUS
    <2>1. StatusesAgree(R, log, d)
        BY DEF UnderWay, Agreement
    <2> QED BY <1>1, <1>2, <2>1 DEF StatusesAgree, Agrees, Parts
<1>6. {"daily", "models_daily"} \intersect fields = {} => \A d \in Days(R) : TokensAgree(more, log, d)
    <2> SUFFICES ASSUME {"daily", "models_daily"} \intersect fields = {}, NEW d \in Days(R)
                 PROVE  TokensAgree(more, log, d)
        OBVIOUS
    <2>1. TokensAgree(R, log, d)
        BY DEF UnderWay, Agreement
    <2> QED BY <1>1, <1>2, <2>1 DEF TokensAgree, Agrees, Parts
<1>7. {"totals", "by_model"} \intersect fields = {} => \A name \in Columns : ModelsAgree(more, log, name)
    <2> SUFFICES ASSUME {"totals", "by_model"} \intersect fields = {}, NEW name \in Columns
                 PROVE  ModelsAgree(more, log, name)
        OBVIOUS
    <2>1. ModelsAgree(R, log, name)
        BY DEF UnderWay, Agreement
    <2> QED BY <1>1, <1>2, <2>1 DEF ModelsAgree, Agrees, Parts
<1>8. {"totals", "daily"} \intersect fields = {} => \A name \in Columns : DaysAgree(more, log, tick, name)
    <2> SUFFICES ASSUME {"totals", "daily"} \intersect fields = {}, NEW name \in Columns
                 PROVE  DaysAgree(more, log, tick, name)
        OBVIOUS
    <2>1. DaysAgree(R, log, tick, name)
        BY DEF UnderWay, Agreement
    <2> QED BY <1>1, <1>2, <2>1 DEF DaysAgree, Agrees, Parts
<1>9. {"by_model", "models_daily"} \intersect fields = {}
          => \A v \in Vendor : \A name \in Columns : ModelDaysAgree(more, log, tick, v, name)
    <2> SUFFICES ASSUME {"by_model", "models_daily"} \intersect fields = {}, NEW v \in Vendor,
                        NEW name \in Columns
                 PROVE  ModelDaysAgree(more, log, tick, v, name)
        OBVIOUS
    <2>1. ModelDaysAgree(R, log, tick, v, name)
        BY DEF UnderWay, Agreement
    <2> QED BY <1>1, <1>2, <2>1 DEF ModelDaysAgree, Agrees, Parts
<1>10. {"p50", "p95"} \intersect fields = {} => ("p95" \in DOMAIN more => more.p50 <= more.p95)
    <2>1. "p95" \in DOMAIN R => "p50" \in DOMAIN R /\ R.p50 <= R.p95
        BY DEF UnderWay, PartsAt
    <2> QED BY <1>2, <2>1 DEF Parts
<1> QED BY <1>3, <1>4, <1>5, <1>6, <1>7, <1>8, <1>9, <1>10

-----------------------------------------------------------------------------
(* The sums of a report.                                                     *)
OfVendors(log, rows, name, f) ==
    /\ log \in Seq(EntryType) /\ rows \in SUBSET DOMAIN log /\ name \in Columns
    /\ f = [v \in Vendor |-> Sheet(log, By(log, rows, v))[name]]

LEMMA VendorsAddUp ==
    ASSUME NEW log, NEW rows, NEW name, NEW f, OfVendors(log, rows, name, f)
    PROVE  Total(f) = Sheet(log, rows)[name]
<1> USE DEF OfVendors
<1>1. PICK key : key = [i \in rows |-> log[i].vendor]
    OBVIOUS
<1>2. \A i \in DOMAIN log : log[i].vendor \in Vendor
    <2>1. \A i \in DOMAIN log : log[i] \in EntryType
        OBVIOUS
    <2> QED BY <2>1 DEF EntryType
<1>3. key \in [rows -> Vendor]
    BY <1>1, <1>2
<1>4. \A v \in Vendor : By(log, rows, v) \in SUBSET DOMAIN log /\ Under(rows, key, v) = By(log, rows, v)
    BY <1>1 DEF By, Under
<1>5. \A v \in Vendor : f[v] \in Nat /\ f[v] = Sheet(log, Under(rows, key, v))[name]
    BY <1>4, SheetCounts
<1>6. f \in [Vendor -> Nat]
    BY <1>5
<1>7. Broken(log, rows, name, Vendor, key, f)
    BY <1>3, <1>5, <1>6 DEF Broken
<1> QED BY <1>7, SheetsAddUp

OfStatuses(log, rows, f) ==
    /\ log \in Seq(EntryType) /\ rows \in SUBSET DOMAIN log
    /\ f = [s \in HTTPStatus \union {0} |-> Cardinality(With(log, Bad(log, rows), s))]

LEMMA StatusesAddUp ==
    ASSUME NEW log, NEW rows, NEW f, OfStatuses(log, rows, f)
    PROVE  Total(f) = Sheet(log, rows)["errors"]
<1> USE DEF OfStatuses
<1>1. PICK key : key = [i \in rows |-> log[i].http]
    OBVIOUS
<1>2. \A i \in DOMAIN log : log[i].http \in HTTPStatus \union {0}
    <2>1. \A i \in DOMAIN log : log[i] \in EntryType
        OBVIOUS
    <2> QED BY <2>1 DEF EntryType
<1>3. key \in [rows -> HTTPStatus \union {0}]
    BY <1>1, <1>2
<1>4. ASSUME NEW s \in HTTPStatus \union {0}
      PROVE  f[s] \in Nat /\ f[s] = Sheet(log, Under(rows, key, s))["errors"]
    <2>1. With(log, Bad(log, rows), s) = Bad(log, Under(rows, key, s))
        BY <1>1 DEF With, Bad, Under
    <2>2. f[s] = Sheet(log, Under(rows, key, s))["errors"]
        BY <2>1 DEF Sheet
    <2>3. Under(rows, key, s) \in SUBSET DOMAIN log /\ "errors" \in Columns
        BY DEF Under, Columns
    <2> QED BY <2>2, <2>3, SheetCounts
<1>5. f \in [HTTPStatus \union {0} -> Nat]
    BY <1>4
<1>6. "errors" \in Columns
    BY DEF Columns
<1>7. Broken(log, rows, "errors", HTTPStatus \union {0}, key, f)
    BY <1>3, <1>4, <1>5, <1>6 DEF Broken
<1> QED BY <1>7, SheetsAddUp

OfDays(log, rows, name, D, f) ==
    /\ log \in Seq(EntryType) /\ rows \in SUBSET DOMAIN log /\ name \in Columns
    /\ \A i \in rows : DayOf(log[i].at) \in D
    /\ f = [d \in D |-> Sheet(log, On(log, rows, d))[name]]

LEMMA DaysAddUp ==
    ASSUME NEW log, NEW rows, NEW name, NEW D, NEW f, OfDays(log, rows, name, D, f)
    PROVE  Total(f) = Sheet(log, rows)[name]
<1> USE DEF OfDays
<1>1. PICK key : key = [i \in rows |-> DayOf(log[i].at)]
    OBVIOUS
<1>2. key \in [rows -> D]
    BY <1>1
<1>3. \A d \in D : On(log, rows, d) \in SUBSET DOMAIN log /\ Under(rows, key, d) = On(log, rows, d)
    BY <1>1 DEF On, Under
<1>4. \A d \in D : f[d] \in Nat /\ f[d] = Sheet(log, Under(rows, key, d))[name]
    BY <1>3, SheetCounts
<1>5. f \in [D -> Nat]
    BY <1>4
<1>6. Broken(log, rows, name, D, key, f)
    BY <1>2, <1>4, <1>5 DEF Broken
<1> QED BY <1>6, SheetsAddUp

-----------------------------------------------------------------------------
(* Each read of a report.                                                    *)
LEMMA AgreesAtOnce ==
    ASSUME NEW R, NEW log, NEW field, NEW later, NEW current \in Nat,
           field \in DOMAIN R => later = current
    PROVE  Agrees(R, log, current, field, later, current)
BY DEF Agrees, Accords

LEMMA TotalsRead ==
    ASSUME NEW R, NEW log \in Seq(EntryType), NEW tick, UnderWay(R, log, tick), R.pc = "totals",
           NEW more, more = Note(R, [totals |-> Sheet(log, Window(log, R))], "latencies")
    PROVE  UnderWay(more, log, tick)
<1>0. PICK fields : fields = {"totals"}
    OBVIOUS
<1>1. /\ fields \in SUBSET Parts /\ Continues(R, more, fields)
      /\ "pc" \in DOMAIN more /\ more.pc = "latencies"
      /\ more.totals = Sheet(log, Window(log, R))
    <2>1. PICK result : result = [totals |-> Sheet(log, Window(log, R))]
        OBVIOUS
    <2>2. DOMAIN result = fields /\ result.totals = Sheet(log, Window(log, R))
        BY <1>0, <2>1
    <2>3. Adds(R, fields, result, "latencies", more)
        BY <1>0, <2>1, <2>2 DEF Adds, Parts, UnderWay, Bounds
    <2>4. Has(R, fields, result, "latencies", more)
        BY <2>3, Noting
    <2> QED BY <1>0, <2>2, <2>3, <2>4 DEF Adds, Has
<1>2. PartsAt(more)
    BY <1>0, <1>1 DEF UnderWay, PartsAt, Continues, Steps, Reading
<1>3. "by_model" \notin DOMAIN more /\ "daily" \notin DOMAIN more
    BY <1>1, <1>2 DEF PartsAt
<1>4. Window(log, more) = Window(log, R) /\ Days(more) = Days(R)
    BY <1>1, ContinuesTheSame
<1>5. ASSUME NEW name \in Columns
      PROVE  ModelsAgree(more, log, name) /\ DaysAgree(more, log, tick, name)
    <2>1. PICK rows \in SUBSET DOMAIN log : rows = Window(log, R)
        BY DEF Window
    <2>2. Sheet(log, rows)[name] \in Nat
        BY SheetCounts
    <2> QED BY <1>1, <1>3, <1>4, <2>1, <2>2, AgreesAtOnce DEF ModelsAgree, DaysAgree
<1>6. Agreement(more, log, tick)
    BY <1>0, <1>1, <1>4, <1>5, PairsStay DEF Agreement
<1> QED BY <1>0, <1>1, <1>2, <1>6, PairsStay DEF UnderWay, Steps, Reading

LEMMA TodayRead ==
    ASSUME NEW R, NEW log \in Seq(EntryType), NEW tick, UnderWay(R, log, tick), R.pc = "today",
           NEW today, NEW more, more = Note(R, [today |-> today], "daily")
    PROVE  UnderWay(more, log, tick)
<1>0. PICK fields : fields = {"today"}
    OBVIOUS
<1>1. /\ fields \in SUBSET Parts /\ Continues(R, more, fields)
      /\ "pc" \in DOMAIN more /\ more.pc = "daily"
    <2>1. PICK result : result = [today |-> today]
        OBVIOUS
    <2>2. DOMAIN result = fields
        BY <1>0, <2>1
    <2>3. Adds(R, fields, result, "daily", more)
        BY <1>0, <2>1, <2>2 DEF Adds, Parts, UnderWay, Bounds
    <2>4. Has(R, fields, result, "daily", more)
        BY <2>3, Noting
    <2> QED BY <1>0, <2>2, <2>3, <2>4 DEF Adds, Has
<1>2. PartsAt(more)
    BY <1>0, <1>1 DEF UnderWay, PartsAt, Continues, Steps, Reading
<1>3. Days(more) = Days(R)
    BY <1>1, ContinuesTheSame
<1>4. Agreement(more, log, tick)
    BY <1>0, <1>1, <1>3, PairsStay DEF Agreement
<1> QED BY <1>0, <1>1, <1>2, <1>4, PairsStay DEF UnderWay, Steps, Reading

DailyOf(log, R) == [d \in Days(R) |-> Sheet(log, On(log, Window(log, R), d))]

LEMMA DailyRead ==
    ASSUME NEW R, NEW log \in Seq(EntryType), NEW tick \in Int, UnderWay(R, log, tick), R.pc = "daily",
           WrittenBy(log, tick), NEW more, more = Note(R, [daily |-> DailyOf(log, R)], "by vendor")
    PROVE  UnderWay(more, log, tick)
<1>0. PICK fields : fields = {"daily"}
    OBVIOUS
<1>1. /\ fields \in SUBSET Parts /\ Continues(R, more, fields)
      /\ "pc" \in DOMAIN more /\ more.pc = "by vendor" /\ more.daily = DailyOf(log, R)
    <2>1. PICK result : result = [daily |-> DailyOf(log, R)]
        OBVIOUS
    <2>2. DOMAIN result = fields /\ result.daily = DailyOf(log, R)
        BY <1>0, <2>1
    <2>3. Adds(R, fields, result, "by vendor", more)
        BY <1>0, <2>1, <2>2 DEF Adds, Parts, UnderWay, Bounds
    <2>4. Has(R, fields, result, "by vendor", more)
        BY <2>3, Noting
    <2> QED BY <1>0, <2>2, <2>3, <2>4 DEF Adds, Has
<1>2. PartsAt(more)
    BY <1>0, <1>1 DEF UnderWay, PartsAt, Continues, Steps, Reading
<1>3. /\ "by_vendor" \notin DOMAIN more /\ "by_status" \notin DOMAIN more
      /\ "models_daily" \notin DOMAIN more /\ "daily" \in DOMAIN more
    BY <1>1, <1>2 DEF PartsAt
<1>4. /\ Window(log, more) = Window(log, R) /\ Days(more) = Days(R)
      /\ more.day = R.day /\ more.rows = R.rows
    BY ZenonT(40), <1>1, ContinuesTheSame
<1>5. ASSUME NEW d \in Days(R)
      PROVE  VendorsAgree(more, log, d) /\ StatusesAgree(more, log, d) /\ TokensAgree(more, log, d)
    <2>1. PICK rows \in SUBSET DOMAIN log : rows = On(log, Window(log, R), d)
        BY DEF Window, On
    <2>2. {"requests", "errors", "tokens"} = Columns
        BY DEF Columns
    <2>3. \A name \in Columns : Sheet(log, rows)[name] \in Nat
        BY SheetCounts
    <2>4. more.daily[d] = Sheet(log, rows)
        BY <1>1, <2>1 DEF DailyOf
    <2>5. VendorsAgree(more, log, d)
        BY <1>3, <1>4, <2>1, <2>2, <2>3, <2>4, AgreesAtOnce DEF VendorsAgree
    <2>6. StatusesAgree(more, log, d)
        BY <1>3, <1>4, <2>1, <2>2, <2>3, <2>4, AgreesAtOnce DEF StatusesAgree
    <2>7. TokensAgree(more, log, d)
        BY <1>3, <1>4, <2>1, <2>2, <2>3, <2>4, AgreesAtOnce DEF TokensAgree
    <2> QED BY <2>5, <2>6, <2>7
<1>6. ASSUME NEW name \in Columns
      PROVE  DaysAgree(more, log, tick, name)
    <2> SUFFICES ASSUME "totals" \in DOMAIN more, more.day = DayOf(tick)
                 PROVE  DaysAgree(more, log, tick, name)
        BY DEF DaysAgree
    <2>1. PICK rows \in SUBSET DOMAIN log : rows = Window(log, R)
        BY DEF Window
    <2>2. PICK daily : daily = DailyOf(log, R)
        OBVIOUS
    <2>3. PICK f : f = [d \in DOMAIN daily |-> daily[d][name]] /\ f = [d \in Days(R) |-> Sheet(log, On(log, rows, d))[name]]
        BY <2>1, <2>2 DEF DailyOf
    <2>4. \A i \in rows : DayOf(log[i].at) \in Days(R)
        BY <1>4, <2>1, DaysCover DEF UnderWay
    <2>5. OfDays(log, rows, name, Days(R), f)
        BY <2>3, <2>4 DEF OfDays
    <2>6. Total(f) = Sheet(log, rows)[name]
        BY ZenonT(40), <2>5, DaysAddUp
    <2>7. Column(more.daily, name) = Sheet(log, rows)[name]
        BY <1>1, <2>2, <2>3, <2>6 DEF Column
    <2>8. "totals" \in DOMAIN R /\ more.totals = R.totals
        BY <1>0, <1>1 DEF Continues
    <2>9. DaysAgree(R, log, tick, name)
        BY DEF UnderWay, Agreement
    <2>10. "daily" \notin DOMAIN R
        BY DEF UnderWay, PartsAt
    <2> QED BY <1>3, <1>4, <2>1, <2>7, <2>8, <2>9, <2>10 DEF DaysAgree, Agrees
<1>7. Agreement(more, log, tick)
    BY <1>0, <1>1, <1>4, <1>5, <1>6, PairsStay DEF Agreement
<1> QED BY <1>0, <1>1, <1>2, <1>7, PairsStay DEF UnderWay, Steps, Reading

LEMMA LatenciesRead ==
    ASSUME NEW R, NEW log \in Seq(EntryType), NEW tick \in Int, UnderWay(R, log, tick), R.pc = "latencies",
           NEW p50, NEW p95, p50 <= p95, NEW more, more = Note(R, [p50 |-> p50, p95 |-> p95], "today")
    PROVE  UnderWay(more, log, tick)
<1>0. PICK fields : fields = {"p50", "p95"}
    OBVIOUS
<1>1. /\ fields \in SUBSET Parts /\ Continues(R, more, fields)
      /\ "pc" \in DOMAIN more /\ more.pc = "today" /\ more.p50 = p50 /\ more.p95 = p95
    <2>1. PICK result : result = [p50 |-> p50, p95 |-> p95]
        OBVIOUS
    <2>2. DOMAIN result = fields /\ result.p50 = p50 /\ result.p95 = p95
        BY <1>0, <2>1
    <2>3. Adds(R, fields, result, "today", more)
        BY <1>0, <2>1, <2>2 DEF Adds, Parts, UnderWay, Bounds
    <2>4. Has(R, fields, result, "today", more)
        BY <2>3, Noting
    <2> QED BY <1>0, <2>2, <2>3, <2>4 DEF Adds, Has
<1>2. PartsAt(more)
    BY <1>0, <1>1 DEF UnderWay, PartsAt, Continues, Steps, Reading
<1>3. /\ Window(log, more) = Window(log, R) /\ Days(more) = Days(R)
      /\ more.day = R.day /\ more.rows = R.rows
    BY <1>1, ContinuesTheSame
<1>4. Agreement(more, log, tick)
    BY <1>0, <1>1, <1>3, PairsStay DEF Agreement
<1> QED BY <1>0, <1>1, <1>2, <1>4, PairsStay DEF UnderWay, Steps, Reading

ByVendorOf(log, R) ==
    [d \in Days(R) |-> [v \in Vendor |-> Cardinality(By(log, On(log, Window(log, R), d), v))]]

LEMMA ByVendorRead ==
    ASSUME NEW R, NEW log \in Seq(EntryType), NEW tick \in Int, UnderWay(R, log, tick), R.pc = "by vendor",
           NEW more, more = Note(R, [by_vendor |-> ByVendorOf(log, R)], "by status")
    PROVE  UnderWay(more, log, tick)
<1>0. PICK fields : fields = {"by_vendor"}
    OBVIOUS
<1>1. /\ fields \in SUBSET Parts /\ Continues(R, more, fields)
      /\ "pc" \in DOMAIN more /\ more.pc = "by status" /\ more.by_vendor = ByVendorOf(log, R)
    <2>1. PICK result : result = [by_vendor |-> ByVendorOf(log, R)]
        OBVIOUS
    <2>2. DOMAIN result = fields /\ result.by_vendor = ByVendorOf(log, R)
        BY <1>0, <2>1
    <2>3. Adds(R, fields, result, "by status", more)
        BY <1>0, <2>1, <2>2 DEF Adds, Parts, UnderWay, Bounds
    <2>4. Has(R, fields, result, "by status", more)
        BY <2>3, Noting
    <2> QED BY <1>0, <2>2, <2>3, <2>4 DEF Adds, Has
<1>2. PartsAt(more)
    BY <1>0, <1>1 DEF UnderWay, PartsAt, Continues, Steps, Reading
<1>3. /\ Window(log, more) = Window(log, R) /\ Days(more) = Days(R)
      /\ more.day = R.day /\ more.rows = R.rows
    BY ZenonT(40), <1>1, ContinuesTheSame
<1>4. "by_vendor" \in DOMAIN more /\ "by_vendor" \notin DOMAIN R
      /\ "daily" \in DOMAIN R /\ more.daily = R.daily
    BY <1>0, <1>1, <1>2 DEF PartsAt, UnderWay, Continues
<1>5. ASSUME NEW d \in Days(R)
      PROVE  VendorsAgree(more, log, d)
    <2>1. PICK rows \in SUBSET DOMAIN log : rows = On(log, Window(log, R), d)
        BY DEF Window, On
    <2>2. PICK f : f = [v \in Vendor |-> Cardinality(By(log, rows, v))]
        OBVIOUS
    <2>3. f = [v \in Vendor |-> Sheet(log, By(log, rows, v))["requests"]]
        BY <2>2 DEF Sheet
    <2>4. OfVendors(log, rows, "requests", f)
        BY <2>3 DEF OfVendors, Columns
    <2>5. Total(f) = Sheet(log, rows)["requests"]
        BY <2>4, VendorsAddUp
    <2>6. more.by_vendor[d] = f
        BY ZenonT(40), <1>1, <2>1, <2>2 DEF ByVendorOf
    <2>7. VendorsAgree(R, log, d)
        BY DEF UnderWay, Agreement
    <2> QED BY <1>3, <1>4, <2>1, <2>5, <2>6, <2>7 DEF VendorsAgree, Agrees
<1>6. Agreement(more, log, tick)
    BY <1>0, <1>1, <1>3, <1>5, PairsStay DEF Agreement
<1> QED BY <1>0, <1>1, <1>2, <1>6, PairsStay DEF UnderWay, Steps, Reading

ByStatusOf(log, R) ==
    [d \in Days(R) |-> [s \in HTTPStatus \union {0} |->
        Cardinality(With(log, Bad(log, On(log, Window(log, R), d)), s))]]

LEMMA ByStatusRead ==
    ASSUME NEW R, NEW log \in Seq(EntryType), NEW tick \in Int, UnderWay(R, log, tick), R.pc = "by status",
           NEW more, more = Note(R, [by_status |-> ByStatusOf(log, R)], "by model")
    PROVE  UnderWay(more, log, tick)
<1>0. PICK fields : fields = {"by_status"}
    OBVIOUS
<1>1. /\ fields \in SUBSET Parts /\ Continues(R, more, fields)
      /\ "pc" \in DOMAIN more /\ more.pc = "by model" /\ more.by_status = ByStatusOf(log, R)
    <2>1. PICK result : result = [by_status |-> ByStatusOf(log, R)]
        OBVIOUS
    <2>2. DOMAIN result = fields /\ result.by_status = ByStatusOf(log, R)
        BY <1>0, <2>1
    <2>3. Adds(R, fields, result, "by model", more)
        BY <1>0, <2>1, <2>2 DEF Adds, Parts, UnderWay, Bounds
    <2>4. Has(R, fields, result, "by model", more)
        BY <2>3, Noting
    <2> QED BY <1>0, <2>2, <2>3, <2>4 DEF Adds, Has
<1>2. PartsAt(more)
    BY <1>0, <1>1 DEF UnderWay, PartsAt, Continues, Steps, Reading
<1>3. /\ Window(log, more) = Window(log, R) /\ Days(more) = Days(R)
      /\ more.day = R.day /\ more.rows = R.rows
    BY ZenonT(40), <1>1, ContinuesTheSame
<1>4. "by_status" \in DOMAIN more /\ "by_status" \notin DOMAIN R
      /\ "daily" \in DOMAIN R /\ more.daily = R.daily
    BY <1>0, <1>1, <1>2 DEF PartsAt, UnderWay, Continues
<1>5. ASSUME NEW d \in Days(R)
      PROVE  StatusesAgree(more, log, d)
    <2>1. PICK rows \in SUBSET DOMAIN log : rows = On(log, Window(log, R), d)
        BY DEF Window, On
    <2>2. PICK f : f = [s \in HTTPStatus \union {0} |-> Cardinality(With(log, Bad(log, rows), s))]
        OBVIOUS
    <2>3. OfStatuses(log, rows, f)
        BY <2>2 DEF OfStatuses
    <2>4. Total(f) = Sheet(log, rows)["errors"]
        BY <2>3, StatusesAddUp
    <2>5. more.by_status[d] = f
        BY ZenonT(40), <1>1, <2>1, <2>2 DEF ByStatusOf
    <2>6. StatusesAgree(R, log, d)
        BY DEF UnderWay, Agreement
    <2> QED BY <1>3, <1>4, <2>1, <2>4, <2>5, <2>6 DEF StatusesAgree, Agrees
<1>6. Agreement(more, log, tick)
    BY <1>0, <1>1, <1>3, <1>5, PairsStay DEF Agreement
<1> QED BY <1>0, <1>1, <1>2, <1>6, PairsStay DEF UnderWay, Steps, Reading

ByModelOf(log, R) == [v \in Vendor |-> Sheet(log, By(log, Window(log, R), v))]

LEMMA ByModelRead ==
    ASSUME NEW R, NEW log \in Seq(EntryType), NEW tick \in Int, UnderWay(R, log, tick), R.pc = "by model",
           NEW more, more = Note(R, [by_model |-> ByModelOf(log, R)], "models daily")
    PROVE  UnderWay(more, log, tick)
<1>0. PICK fields : fields = {"by_model"}
    OBVIOUS
<1>1. /\ fields \in SUBSET Parts /\ Continues(R, more, fields)
      /\ "pc" \in DOMAIN more /\ more.pc = "models daily" /\ more.by_model = ByModelOf(log, R)
    <2>1. PICK result : result = [by_model |-> ByModelOf(log, R)]
        OBVIOUS
    <2>2. DOMAIN result = fields /\ result.by_model = ByModelOf(log, R)
        BY <1>0, <2>1
    <2>3. Adds(R, fields, result, "models daily", more)
        BY <1>0, <2>1, <2>2 DEF Adds, Parts, UnderWay, Bounds
    <2>4. Has(R, fields, result, "models daily", more)
        BY <2>3, Noting
    <2> QED BY <1>0, <2>2, <2>3, <2>4 DEF Adds, Has
<1>2. PartsAt(more)
    BY <1>0, <1>1 DEF UnderWay, PartsAt, Continues, Steps, Reading
<1>3. /\ Window(log, more) = Window(log, R) /\ Days(more) = Days(R)
      /\ more.day = R.day /\ more.rows = R.rows
    BY ZenonT(40), <1>1, ContinuesTheSame
<1>4. /\ "by_model" \in DOMAIN more /\ "by_model" \notin DOMAIN R /\ "models_daily" \notin DOMAIN more
      /\ "totals" \in DOMAIN R /\ more.totals = R.totals
    BY <1>0, <1>1, <1>2 DEF PartsAt, UnderWay, Continues, Steps, Reading
<1>5. PICK rows \in SUBSET DOMAIN log : rows = Window(log, R)
    BY DEF Window
<1>6. ASSUME NEW name \in Columns
      PROVE  ModelsAgree(more, log, name)
    <2>1. PICK models : models = ByModelOf(log, R)
        OBVIOUS
    <2>2. PICK f : f = [v \in DOMAIN models |-> models[v][name]]
        OBVIOUS
    <2>3. f = [v \in Vendor |-> Sheet(log, By(log, rows, v))[name]]
        BY <1>5, <2>1, <2>2 DEF ByModelOf
    <2>4. OfVendors(log, rows, name, f)
        BY <2>3 DEF OfVendors
    <2>5. Total(f) = Sheet(log, rows)[name]
        BY <2>4, VendorsAddUp
    <2>6. Column(more.by_model, name) = Sheet(log, rows)[name]
        BY <1>1, <2>1, <2>2, <2>5 DEF Column
    <2>7. ModelsAgree(R, log, name)
        BY DEF UnderWay, Agreement
    <2> QED BY <1>3, <1>4, <1>5, <2>6, <2>7 DEF ModelsAgree, Agrees
<1>7. ASSUME NEW v \in Vendor, NEW name \in Columns
      PROVE  ModelDaysAgree(more, log, tick, v, name)
    <2>1. PICK mine \in SUBSET DOMAIN log : mine = By(log, rows, v)
        BY DEF By
    <2>2. Sheet(log, mine)[name] \in Nat
        BY SheetCounts
    <2>3. more.by_model[v] = Sheet(log, mine)
        BY <1>1, <1>5, <2>1 DEF ByModelOf
    <2> QED BY <1>3, <1>4, <1>5, <2>1, <2>2, <2>3, AgreesAtOnce DEF ModelDaysAgree
<1>8. Agreement(more, log, tick)
    BY <1>0, <1>1, <1>3, <1>6, <1>7, PairsStay DEF Agreement
<1> QED BY <1>0, <1>1, <1>2, <1>8, PairsStay DEF UnderWay, Steps, Reading

ModelsDailyOf(log, R) ==
    [v \in Vendor |-> [d \in Days(R) |-> Sheet(log, On(log, By(log, Window(log, R), v), d))]]

LEMMA ModelsDailyRead ==
    ASSUME NEW R, NEW log \in Seq(EntryType), NEW tick \in Int, UnderWay(R, log, tick), R.pc = "models daily",
           WrittenBy(log, tick), NEW more, more = Note(R, [models_daily |-> ModelsDailyOf(log, R)], "recent")
    PROVE  UnderWay(more, log, tick)
<1>0. PICK fields : fields = {"models_daily"}
    OBVIOUS
<1>1. /\ fields \in SUBSET Parts /\ Continues(R, more, fields)
      /\ "pc" \in DOMAIN more /\ more.pc = "recent" /\ more.models_daily = ModelsDailyOf(log, R)
    <2>1. PICK result : result = [models_daily |-> ModelsDailyOf(log, R)]
        OBVIOUS
    <2>2. DOMAIN result = fields /\ result.models_daily = ModelsDailyOf(log, R)
        BY <1>0, <2>1
    <2>3. Adds(R, fields, result, "recent", more)
        BY <1>0, <2>1, <2>2 DEF Adds, Parts, UnderWay, Bounds
    <2>4. Has(R, fields, result, "recent", more)
        BY <2>3, Noting
    <2> QED BY <1>0, <2>2, <2>3, <2>4 DEF Adds, Has
<1>2. PartsAt(more)
    BY <1>0, <1>1 DEF UnderWay, PartsAt, Continues, Steps, Reading
<1>3. /\ Window(log, more) = Window(log, R) /\ Days(more) = Days(R)
      /\ more.day = R.day /\ more.rows = R.rows
    BY ZenonT(40), <1>1, ContinuesTheSame
<1>4. /\ "models_daily" \in DOMAIN more /\ "models_daily" \notin DOMAIN R
      /\ "daily" \in DOMAIN R /\ more.daily = R.daily
      /\ "by_model" \in DOMAIN R /\ more.by_model = R.by_model
    BY <1>0, <1>1, <1>2 DEF PartsAt, UnderWay, Continues
<1>5. PICK rows \in SUBSET DOMAIN log : rows = Window(log, R)
    BY DEF Window
<1>6. ASSUME NEW d \in Days(R)
      PROVE  TokensAgree(more, log, d)
    <2>1. PICK day \in SUBSET DOMAIN log : day = On(log, rows, d)
        BY DEF On
    <2>2. PICK f : f = [v \in Vendor |-> more.models_daily[v][d]]
        OBVIOUS
    <2>3. PICK g : g = [v \in DOMAIN f |-> f[v]["tokens"]]
        OBVIOUS
    <2>4. \A v \in Vendor : By(log, day, v) = On(log, By(log, rows, v), d)
        BY <2>1 DEF By, On
    <2>5. ASSUME NEW v \in Vendor
          PROVE  f[v] = Sheet(log, By(log, day, v))
        <3>1. ModelsDailyOf(log, R)[v] = [x \in Days(R) |-> Sheet(log, On(log, By(log, rows, v), x))]
            BY <1>5 DEF ModelsDailyOf
        <3>2. f[v] = Sheet(log, On(log, By(log, rows, v), d))
            BY <1>1, <2>2, <3>1
        <3> QED BY <2>4, <3>2
    <2>6. g = [v \in Vendor |-> Sheet(log, By(log, day, v))["tokens"]]
        BY <2>2, <2>3, <2>5
    <2>7. OfVendors(log, day, "tokens", g)
        BY <2>6 DEF OfVendors, Columns
    <2>8. Total(g) = Sheet(log, day)["tokens"]
        BY <2>7, VendorsAddUp
    <2>9. Column(f, "tokens") = Sheet(log, day)["tokens"]
        BY <2>3, <2>8 DEF Column
    <2>10. TokensAgree(R, log, d)
        BY DEF UnderWay, Agreement
    <2> QED BY <1>3, <1>4, <1>5, <2>1, <2>2, <2>9, <2>10 DEF TokensAgree, Agrees
<1>7. ASSUME NEW v \in Vendor, NEW name \in Columns
      PROVE  ModelDaysAgree(more, log, tick, v, name)
    <2> SUFFICES ASSUME more.day = DayOf(tick)
                 PROVE  ModelDaysAgree(more, log, tick, v, name)
        BY DEF ModelDaysAgree
    <2>1. PICK mine \in SUBSET DOMAIN log : mine = By(log, rows, v)
        BY DEF By
    <2>2. PICK days : days = more.models_daily[v]
        OBVIOUS
    <2>3. PICK f : f = [d \in DOMAIN days |-> days[d][name]]
        OBVIOUS
    <2>4. days = [d \in Days(R) |-> Sheet(log, On(log, mine, d))]
        BY ZenonT(40), <1>1, <1>5, <2>1, <2>2 DEF ModelsDailyOf
    <2>5. f = [d \in Days(R) |-> Sheet(log, On(log, mine, d))[name]]
        BY <2>3, <2>4
    <2>6. \A i \in mine : DayOf(log[i].at) \in Days(R)
        BY <1>3, <1>5, <2>1, DaysCover DEF UnderWay, By
    <2>7. OfDays(log, mine, name, Days(R), f)
        BY <2>5, <2>6 DEF OfDays
    <2>8. Total(f) = Sheet(log, mine)[name]
        BY ZenonT(40), <2>7, DaysAddUp
    <2>9. Column(days, name) = Sheet(log, mine)[name]
        BY <2>3, <2>8 DEF Column
    <2>10. ModelDaysAgree(R, log, tick, v, name)
        BY DEF UnderWay, Agreement
    <2> QED BY <1>3, <1>4, <1>5, <2>1, <2>2, <2>9, <2>10 DEF ModelDaysAgree, Agrees
<1>8. Agreement(more, log, tick)
    BY <1>0, <1>1, <1>3, <1>6, <1>7, PairsStay DEF Agreement
<1> QED BY <1>0, <1>1, <1>2, <1>8, PairsStay DEF UnderWay, Steps, Reading

\* A report with everything read.
AddsUp(R) ==
    LET quiet == R.rows = R.rows_after
    IN  /\ \A d \in Days(R) :
              /\ Accords(R.daily[d].requests, Total(R.by_vendor[d]), quiet)
              /\ Accords(R.daily[d].errors, Total(R.by_status[d]), quiet)
              /\ Accords(R.daily[d].tokens,
                         Column([v \in Vendor |-> R.models_daily[v][d]], "tokens"), quiet)
        /\ \A name \in Columns :
              /\ Accords(R.totals[name], Column(R.by_model, name), quiet)
              /\ R.day = R.day_after =>
                    /\ Accords(R.totals[name], Column(R.daily, name), quiet)
                    /\ \A v \in Vendor :
                          Accords(R.by_model[v][name], Column(R.models_daily[v], name), quiet)
        /\ R.p50 <= R.p95

LEMMA RecentRead ==
    ASSUME NEW R, NEW log \in Seq(EntryType), NEW tick \in Int, UnderWay(R, log, tick),
           R.pc = "recent", NEW recent, NEW more,
           more = Note(R, [recent |-> recent, rows_after |-> Len(log), day_after |-> DayOf(tick)],
                       "answered")
    PROVE  "pc" \in DOMAIN more /\ more.pc = "answered" /\ AddsUp(more)
<1>0. PICK fields : fields = {"recent", "rows_after", "day_after"}
    OBVIOUS
<1>1. /\ Continues(R, more, fields) /\ "pc" \in DOMAIN more /\ more.pc = "answered"
      /\ more.rows_after = Len(log) /\ more.day_after = DayOf(tick)
    <2>1. PICK result : result = [recent |-> recent, rows_after |-> Len(log), day_after |-> DayOf(tick)]
        OBVIOUS
    <2>2. DOMAIN result = fields /\ result.rows_after = Len(log) /\ result.day_after = DayOf(tick)
        BY <1>0, <2>1
    <2>3. Adds(R, fields, result, "answered", more)
        BY <1>0, <2>1, <2>2 DEF Adds, Parts, UnderWay, Bounds
    <2>4. Has(R, fields, result, "answered", more)
        BY <2>3, Noting
    <2> QED BY <1>0, <2>2, <2>3, <2>4 DEF Adds, Has
<1>2. Days(more) = Days(R) /\ more.day = R.day /\ more.rows = R.rows
    BY <1>1, ContinuesTheSame
<1>3. {"totals", "p50", "p95", "daily", "by_vendor", "by_status", "by_model", "models_daily"}
          \subseteq DOMAIN R
    BY DEF UnderWay, PartsAt, Steps, Reading
<1>4. /\ more.totals = R.totals /\ more.p50 = R.p50 /\ more.p95 = R.p95 /\ more.daily = R.daily
      /\ more.by_vendor = R.by_vendor /\ more.by_status = R.by_status
      /\ more.by_model = R.by_model /\ more.models_daily = R.models_daily
    BY <1>0, <1>1, <1>3 DEF Continues
<1>5. PICK quiet : quiet = (more.rows = more.rows_after) /\ quiet = (R.rows = Len(log))
    BY <1>1, <1>2
<1>6. ASSUME NEW d \in Days(R)
      PROVE  /\ Accords(R.daily[d].requests, Total(R.by_vendor[d]), quiet)
             /\ Accords(R.daily[d].errors, Total(R.by_status[d]), quiet)
             /\ Accords(R.daily[d].tokens,
                        Column([v \in Vendor |-> R.models_daily[v][d]], "tokens"), quiet)
    <2>1. VendorsAgree(R, log, d) /\ StatusesAgree(R, log, d) /\ TokensAgree(R, log, d)
        BY DEF UnderWay, Agreement
    <2>2. Accords(R.daily[d].requests, Total(R.by_vendor[d]), quiet)
        BY <1>3, <1>5, <2>1 DEF VendorsAgree, Agrees
    <2>3. Accords(R.daily[d].errors, Total(R.by_status[d]), quiet)
        BY <1>3, <1>5, <2>1 DEF StatusesAgree, Agrees
    <2>4. Accords(R.daily[d].tokens, Column([v \in Vendor |-> R.models_daily[v][d]], "tokens"), quiet)
        BY <1>3, <1>5, <2>1 DEF TokensAgree, Agrees
    <2> QED BY <2>2, <2>3, <2>4
<1>7. ASSUME NEW name \in Columns
      PROVE  /\ Accords(R.totals[name], Column(R.by_model, name), quiet)
             /\ R.day = DayOf(tick) =>
                   /\ Accords(R.totals[name], Column(R.daily, name), quiet)
                   /\ \A v \in Vendor :
                         Accords(R.by_model[v][name], Column(R.models_daily[v], name), quiet)
    <2>1. ModelsAgree(R, log, name) /\ DaysAgree(R, log, tick, name)
        BY DEF UnderWay, Agreement
    <2>2. \A v \in Vendor : ModelDaysAgree(R, log, tick, v, name)
        BY DEF UnderWay, Agreement
    <2>3. Accords(R.totals[name], Column(R.by_model, name), quiet)
        BY <1>3, <1>5, <2>1 DEF ModelsAgree, Agrees
    <2>4. R.day = DayOf(tick) => Accords(R.totals[name], Column(R.daily, name), quiet)
        BY <1>3, <1>5, <2>1 DEF DaysAgree, Agrees
    <2>5. R.day = DayOf(tick) =>
              \A v \in Vendor : Accords(R.by_model[v][name], Column(R.models_daily[v], name), quiet)
        BY <1>3, <1>5, <2>2 DEF ModelDaysAgree, Agrees
    <2> QED BY <2>3, <2>4, <2>5
<1>8. R.p50 <= R.p95
    BY <1>3 DEF UnderWay
<1> QED BY <1>1, <1>2, <1>4, <1>5, <1>6, <1>7, <1>8 DEF AddsUp

LEMMA ReportBegins ==
    ASSUME NEW log \in Seq(EntryType), NEW tick \in Int, NEW company, NEW n \in Nat, n > 0,
           NEW fraction \in {0, 1}, NEW R,
           R = [pc |-> "totals", company |-> company, days |-> n,
                started |-> tick - (n - 1) * DayLength, from |-> tick - (n - 1) * DayLength + fraction,
                rows |-> Len(log), day |-> DayOf(tick)]
    PROVE  UnderWay(R, log, tick)
<1>1. PICK s \in Int : s = tick - (n - 1) * DayLength
    BY UsageAssumption
<1>2. PICK m \in Int : m = n - 1
    OBVIOUS
<1>3. DayOf(s) = DayOf(tick) - (n - 1) /\ DayOf(tick) \in Int
    BY <1>1, <1>2, DaysBack, DayBounds
<1>4. /\ DOMAIN R = {"pc", "company", "days", "started", "from", "rows", "day"}
      /\ R.pc = "totals" /\ R.days = n /\ R.started = s /\ R.from = s + fraction
      /\ R.rows = Len(log) /\ R.day = DayOf(tick)
    BY <1>1
<1>5. Bounds(R, log, tick)
    <2>1. FromStart \subseteq DOMAIN R
        BY <1>4 DEF FromStart
    <2>2. R.day = DayOf(R.started) + R.days - 1 /\ R.day <= DayOf(tick)
        BY <1>3, <1>4
    <2>3. R.from \in Int /\ R.started <= R.from
        BY <1>4
    <2>4. R.rows \in Nat /\ R.rows <= Len(log)
        <3>1. Len(log) \in Nat
            OBVIOUS
        <3> QED BY <1>4, <3>1
    <2> QED BY <1>4, <2>1, <2>2, <2>3, <2>4 DEF Bounds
<1>6. PartsAt(R)
    BY <1>4 DEF PartsAt, Steps, Reading
<1>7. Agreement(R, log, tick)
    <2>1. "daily" \notin DOMAIN R /\ "totals" \notin DOMAIN R /\ "by_model" \notin DOMAIN R
        BY <1>4
    <2> QED BY <2>1 DEF Agreement, VendorsAgree, StatusesAgree, TokensAgree, ModelsAgree, DaysAgree,
               ModelDaysAgree
<1> QED BY <1>4, <1>5, <1>6, <1>7 DEF UnderWay, Steps, Reading

-----------------------------------------------------------------------------
(* The latencies.                                                            *)
LEMMA LeastOf ==
    ASSUME NEW S \in SUBSET Nat, S # {}
    PROVE  Min(S) \in S /\ \A y \in S : Min(S) <= y
<1>1. PICK x \in S : \A y \in S : ~ (<<y, x>> \in OpToRel(<, Nat))
    BY NatLessThanWellFounded, WFMin
<1>2. ASSUME NEW y \in S
      PROVE  x <= y
    <2>1. <<y, x>> \notin {p \in Nat \X Nat : p[1] < p[2]}
        BY <1>1 DEF OpToRel
    <2> QED BY <2>1
<1>3. \E m \in S : \A y \in S : m <= y
    BY <1>2
<1> QED BY <1>3 DEF Min

\* Among rows there is one that no other is slower than.
LEMMA Slowest ==
    ASSUME NEW rows, rows # {}, IsFiniteSet(rows), NEW slow \in [rows -> Nat]
    PROVE  \E i \in rows : \A j \in rows : slow[j] <= slow[i]
<1> DEFINE upTo(i) == {j \in rows : slow[j] <= slow[i]}
           above(i) == Cardinality(rows) - Cardinality(upTo(i))
<1>1. \A i \in rows : above(i) \in Nat
    <2> TAKE i \in rows
    <2>1. PICK part \in SUBSET rows : part = upTo(i)
        OBVIOUS
    <2>2. IsFiniteSet(part) /\ Cardinality(part) <= Cardinality(rows)
        BY FS_Subset
    <2>3. Cardinality(part) \in Nat /\ Cardinality(rows) \in Nat
        BY <2>2, FS_CardinalityType
    <2> QED BY <2>1, <2>2, <2>3
<1>2. PICK S \in SUBSET Nat : S = {above(i) : i \in rows}
    BY <1>1
<1>3. Min(S) \in S /\ \A y \in S : Min(S) <= y
    <2>1. PICK i \in rows : TRUE
        OBVIOUS
    <2>2. above(i) \in S
        BY <1>2
    <2>3. S # {}
        BY <2>2
    <2> QED BY <2>3, LeastOf
<1>4. PICK i \in rows : above(i) = Min(S)
    BY <1>2, <1>3
<1>5. ASSUME NEW j \in rows, ~ (slow[j] <= slow[i])
      PROVE  FALSE
    <2>1. PICK fewer : fewer = upTo(i)
        OBVIOUS
    <2>2. PICK part \in SUBSET rows : part = upTo(j)
        OBVIOUS
    <2>3. fewer \subseteq part /\ j \in part /\ j \notin fewer
        BY <1>5, <2>1, <2>2
    <2>4. IsFiniteSet(part) /\ IsFiniteSet(fewer)
        BY <2>3, FS_Subset
    <2>5. Cardinality(fewer) <= Cardinality(part) /\ Cardinality(fewer) # Cardinality(part)
        BY <2>3, <2>4, FS_Subset
    <2>6. Cardinality(fewer) \in Nat /\ Cardinality(part) \in Nat /\ Cardinality(rows) \in Nat
        BY <2>4, FS_CardinalityType
    <2>7. above(j) < above(i)
        BY <2>1, <2>2, <2>5, <2>6
    <2>8. above(j) \in S /\ above(j) \in Nat /\ above(i) \in Nat
        BY <1>1, <1>2
    <2>9. above(i) <= above(j)
        BY <1>3, <1>4, <2>8
    <2> QED BY <2>7, <2>8, <2>9
<1> QED BY <1>5

LEMMA RanksOrdered ==
    ASSUME NEW n \in Nat, n > 0
    PROVE  /\ Rank(n, 50) \in Int /\ Rank(n, 95) \in Int
           /\ Rank(n, 50) <= Rank(n, 95) /\ Rank(n, 95) <= n
BY DEF Rank

\* A lower rank is reached at no higher latency.
LEMMA LatenciesOrdered ==
    ASSUME logs \in Seq(EntryType), NEW rows \in SUBSET DOMAIN logs, rows # {},
           NEW k \in Int, NEW m \in Int, k <= m, m <= Cardinality(rows)
    PROVE  Latency(rows, k) <= Latency(rows, m)
<1> DEFINE upTo(l) == {i \in rows : logs[i].latency <= l}
           reach(r) == {l \in {logs[i].latency : i \in rows} : Cardinality(upTo(l)) >= r}
<1>1. \A i \in rows : logs[i].latency \in Nat
    <2>1. \A i \in rows : logs[i] \in EntryType
        OBVIOUS
    <2> QED BY <2>1 DEF EntryType
<1>2. IsFiniteSet(rows)
    <2>1. PICK n \in Nat : DOMAIN logs = 1..n
        OBVIOUS
    <2> QED BY <2>1, FS_Interval, FS_Subset
<1>3. \A l : Cardinality(upTo(l)) \in Nat
    <2> TAKE l
    <2>1. IsFiniteSet(upTo(l))
        BY <1>2, FS_Subset
    <2> QED BY <2>1, FS_CardinalityType
<1>4. PICK low \in SUBSET Nat : low = reach(k)
    BY <1>1
<1>5. PICK high \in SUBSET Nat : high = reach(m)
    BY <1>1
<1>6. high \subseteq low
    <2>1. \A l : Cardinality(upTo(l)) >= m => Cardinality(upTo(l)) >= k
        <3> TAKE l
        <3>1. PICK c \in Nat : c = Cardinality(upTo(l))
            BY <1>3
        <3> QED BY <3>1
    <2> QED BY <1>4, <1>5, <2>1
<1>7. high # {}
    <2>1. PICK slow : slow = [i \in rows |-> logs[i].latency]
        OBVIOUS
    <2>2. slow \in [rows -> Nat]
        BY <1>1, <2>1
    <2>3. PICK i \in rows : \A j \in rows : slow[j] <= slow[i]
        BY <1>2, <2>2, Slowest
    <2>4. upTo(logs[i].latency) = rows
        BY <2>1, <2>3
    <2>5. Cardinality(upTo(logs[i].latency)) >= m
        <3>1. Cardinality(rows) \in Nat
            BY <1>2, FS_CardinalityType
        <3> QED BY <2>4, <3>1
    <2>6. logs[i].latency \in high
        BY <1>5, <2>5
    <2> QED BY <2>6
<1>8. low # {}
    BY <1>6, <1>7
<1>9. Min(high) \in high
    BY <1>7, LeastOf
<1>10. \A l \in low : Min(low) <= l
    BY <1>8, LeastOf
<1>11. Min(low) <= Min(high)
    BY <1>6, <1>9, <1>10
<1>12. Latency(rows, k) = Min(low) /\ Latency(rows, m) = Min(high)
    BY <1>4, <1>5 DEF Latency
<1> QED BY <1>11, <1>12

LEMMA PercentilesOrdered ==
    ASSUME logs \in Seq(EntryType), NEW rows \in SUBSET DOMAIN logs
    PROVE  Percentile(rows, 50) <= Percentile(rows, 95)
<1>1. CASE rows = {}
    BY <1>1 DEF Percentile
<1>2. CASE rows # {}
    <2>1. IsFiniteSet(rows)
        <3>1. PICK n \in Nat : DOMAIN logs = 1..n
            OBVIOUS
        <3> QED BY <3>1, FS_Interval, FS_Subset
    <2>2. PICK c \in Nat : c = Cardinality(rows) /\ c # 0
        BY <1>2, <2>1, FS_CardinalityType, FS_EmptySet
    <2>3. LatencyLimit \in Nat /\ LatencyLimit > 0
        BY UsageAssumption
    <2>4. PICK n \in Nat : n = Limited(rows) /\ n > 0 /\ n <= c
        BY <2>2, <2>3 DEF Limited
    <2>5. PICK k \in Int : k = Rank(n, 50)
        BY <2>4, RanksOrdered
    <2>6. PICK m \in Int : m = Rank(n, 95)
        BY <2>4, RanksOrdered
    <2>7. k <= m /\ m <= c
        BY <2>2, <2>4, <2>5, <2>6, RanksOrdered
    <2>8. Latency(rows, k) <= Latency(rows, m)
        BY <1>2, <2>2, <2>7, LatenciesOrdered
    <2> QED BY <1>2, <2>4, <2>5, <2>6, <2>8 DEF Percentile
<1> QED BY <1>1, <1>2

-----------------------------------------------------------------------------
(***************************************************************************)
(* The report is none, under way, or complete; no row is of the future.    *)
(***************************************************************************)
ReportInv ==
    /\ WrittenBy(logs, clock)
    /\ \/ report.pc = "none"
       \/ report.pc = "answered" /\ AddsUp(report)
       \/ UnderWay(report, logs, clock)

LEMMA ReportsStart == UsageInit => ReportInv
BY DEF UsageInit, ReportInv, WrittenBy, NoReport

LEMMA ReportsRest ==
    ASSUME ReportInv, UNCHANGED <<clock, logs>>, report' = report \/ report' = NoReport
    PROVE  ReportInv'
BY DEF ReportInv, NoReport

LEMMA ReportsRecord ==
    ASSUME UsageInv, ReportInv, NEW i \in DOMAIN detached, Record(i)
    PROVE  ReportInv'
<1>1. PICK sent \in EntryType : sent = detached[i]
    BY DEF UsageInv, UsageTyped
<1>2. PICK entry : entry = [sent EXCEPT !.at = clock]
    OBVIOUS
<1>3. logs \in Seq(EntryType) /\ clock \in Nat
    BY DEF UsageInv, UsageTyped
<1>4. entry \in EntryType /\ entry.at = clock
    BY <1>1, <1>2, <1>3 DEF EntryType
<1>5. UNCHANGED <<clock, report>>
    BY DEF Record
<1>6. CASE logs' = Append(logs, entry)
    <2>1. PICK n \in Nat : n = Len(logs) /\ DOMAIN logs = 1..n
        BY <1>3
    <2>2. DOMAIN logs' = 1..(n + 1) /\ logs'[n + 1] = entry /\ \A j \in 1..n : logs'[j] = logs[j]
        BY <1>3, <1>4, <1>6, <2>1
    <2>3. WrittenBy(logs, clock)'
        <3>1. \A j \in 1..n : logs[j].at <= clock
            BY <2>1 DEF ReportInv, WrittenBy
        <3>2. \A j \in 1..(n + 1) : j \in 1..n \/ j = n + 1
            BY <2>1
        <3>3. \A j \in DOMAIN logs' : logs'[j].at <= clock
            BY <1>3, <1>4, <2>2, <3>1, <3>2
        <3> QED BY <1>5, <3>3 DEF WrittenBy
    <2>4. UnderWay(report, logs, clock) => UnderWay(report, Append(logs, entry), clock)
        BY <1>3, <1>4, ReportGrows
    <2> QED BY <1>5, <1>6, <2>3, <2>4 DEF ReportInv
<1>7. CASE logs' = logs
    BY <1>5, <1>7, ReportsRest
<1>8. logs' = Append(logs, entry) \/ logs' = logs
    BY <1>1, <1>2 DEF Record
<1> QED BY <1>6, <1>7, <1>8

LEMMA ReportsAge ==
    ASSUME UsageInv, ReportInv, Advance
    PROVE  ReportInv'
<1>1. clock \in Nat /\ clock' = clock + 1 /\ logs' = logs /\ report' = report
    BY DEF UsageInv, UsageTyped, Advance
<1>2. PICK t \in Int : t = clock
    BY <1>1
<1>3. PICK u \in Int : u = clock' /\ t <= u
    BY <1>1, <1>2
<1>4. UnderWay(report, logs, t) => UnderWay(report, logs, u)
    BY <1>3, ReportWaits
<1>5. WrittenBy(logs, u)
    <2>1. \A i \in DOMAIN logs : logs[i].at <= t /\ logs[i].at \in Int
        <3>1. \A i \in DOMAIN logs : logs[i] \in EntryType
            BY DEF UsageInv, UsageTyped
        <3> QED BY <1>2, <3>1 DEF ReportInv, WrittenBy, EntryType
    <2> QED BY <1>3, <2>1 DEF WrittenBy
<1> QED BY <1>1, <1>2, <1>3, <1>4, <1>5 DEF ReportInv

LEMMA ReportsBegin ==
    ASSUME UsageInv, ReportInv, BeginReport
    PROVE  ReportInv'
<1>1. PICK company \in quota.companies \ {0}, asked \in quota.asked, fraction \in {0, 1} :
          report' = [pc |-> "totals", company |-> company, days |-> ClampDays(asked),
                     started |-> clock - (ClampDays(asked) - 1) * DayLength,
                     from |-> clock - (ClampDays(asked) - 1) * DayLength + fraction,
                     rows |-> Len(logs), day |-> DayOf(clock)]
    BY DEF BeginReport
<1>2. asked \in Int
    BY DEF UsageInv, UsageTyped, Allowance
<1>3. PICK n \in Nat : n = ClampDays(asked) /\ n > 0
    <2>1. DefaultDays \in Nat /\ DefaultDays > 0 /\ MaxDays \in Nat /\ MaxDays > 0
        BY UsageAssumption
    <2>2. CASE asked < 1
        BY <2>1, <2>2 DEF ClampDays
    <2>3. CASE ~ (asked < 1)
        <3>0. asked \in Nat /\ asked > 0
            BY <1>2, <2>3
        <3>1. PICK few \in SUBSET Nat : few = {asked, MaxDays}
            BY <2>1, <3>0
        <3>2. few # {}
            BY <3>1
        <3>3. Min(few) \in few
            BY <3>2, LeastOf
        <3> QED BY <2>1, <2>3, <3>0, <3>1, <3>3 DEF ClampDays
    <2> QED BY <2>2, <2>3
<1>4. logs \in Seq(EntryType) /\ clock \in Int /\ UNCHANGED <<clock, logs>>
    BY DEF UsageInv, UsageTyped, BeginReport
<1>5. UnderWay(report', logs, clock)
    BY <1>1, <1>3, <1>4, ReportBegins
<1> QED BY <1>4, <1>5 DEF ReportInv

-----------------------------------------------------------------------------
(* The reads as steps.                                                       *)
LEMMA InTheModel ==
    /\ \A rows : Tally(rows) = Sheet(logs, rows)
    /\ InWindow = Window(logs, report)
    /\ DailyRange = Days(report)
    /\ \A result, next : Noted(result, next) = Note(report, result, next)
    /\ \A rows, d : OnDay(rows, d) = On(logs, rows, d)
    /\ \A rows, v : OfVendor(rows, v) = By(logs, rows, v)
    /\ \A rows, s : Keyed(Failed(rows), s) = With(logs, Bad(logs, rows), s)
<1>1. \A rows : Tally(rows) = Sheet(logs, rows)
    BY DEF Tally, Sheet, Failed, Bad
<1>2. InWindow = Window(logs, report)
    BY DEF InWindow, Rows, Window
<1>3. DailyRange = Days(report)
    BY DEF DailyRange, Days
<1>4. \A result, next : Noted(result, next) = Note(report, result, next)
    BY DEF Noted, Note
<1>5. /\ \A rows, d : OnDay(rows, d) = On(logs, rows, d)
      /\ \A rows, v : OfVendor(rows, v) = By(logs, rows, v)
    BY DEF OnDay, On, OfVendor, By
<1>6. \A rows, s : Keyed(Failed(rows), s) = With(logs, Bad(logs, rows), s)
    BY DEF Keyed, Failed, StatusKey, With, Bad
<1> QED BY <1>1, <1>2, <1>3, <1>4, <1>5, <1>6

\* A read does not fail, or there is no report any more.
LEMMA ReadsOn ==
    ASSUME UsageInv, ReportInv, NEW pc, pc \notin {"none", "answered"}, NEW result, NEW next,
           Read(pc, result, next)
    PROVE  /\ UnderWay(report, logs, clock) /\ report.pc = pc
           /\ WrittenBy(logs, clock) /\ logs \in Seq(EntryType) /\ clock \in Int
           /\ UNCHANGED <<clock, logs>>
           /\ report' = NoReport \/ report' = Note(report, result, next)
<1>1. /\ report.pc = pc /\ UNCHANGED <<clock, logs>>
      /\ report' = NoReport \/ report' = Noted(result, next)
    BY DEF Read
<1>2. UnderWay(report, logs, clock) /\ WrittenBy(logs, clock)
    BY <1>1 DEF ReportInv
<1>3. logs \in Seq(EntryType) /\ clock \in Int
    BY DEF UsageInv, UsageTyped
<1> QED BY <1>1, <1>2, <1>3, InTheModel

LEMMA UsageTotalsKeeps ==
    ASSUME UsageInv, ReportInv, UsageTotals
    PROVE  ReportInv'
<1>1. PICK value : value = Tally(InWindow)
    OBVIOUS
<1>2. value = Sheet(logs, Window(logs, report))
    BY <1>1, InTheModel
<1>3. Read("totals", [totals |-> value], "latencies")
    BY <1>1 DEF UsageTotals
<1>4. /\ UnderWay(report, logs, clock) /\ report.pc = "totals"
      /\ WrittenBy(logs, clock) /\ logs \in Seq(EntryType) /\ clock \in Int
      /\ UNCHANGED <<clock, logs>>
      /\ report' = NoReport \/ report' = Note(report, [totals |-> value], "latencies")
    BY <1>3, ReadsOn
<1>5. CASE report' = Note(report, [totals |-> value], "latencies")
    <2>1. UnderWay(report', logs, clock)
        BY <1>2, <1>4, <1>5, TotalsRead
    <2> QED BY <1>4, <2>1 DEF ReportInv
<1> QED BY <1>4, <1>5, ReportsRest

LEMMA UsageDailyKeeps ==
    ASSUME UsageInv, ReportInv, UsageDaily
    PROVE  ReportInv'
<1>1. PICK value : value = [d \in DailyRange |-> Tally(OnDay(InWindow, d))]
    OBVIOUS
<1>2. value = DailyOf(logs, report)
    BY <1>1, InTheModel DEF DailyOf
<1>3. Read("daily", [daily |-> value], "by vendor")
    BY <1>1 DEF UsageDaily
<1>4. /\ UnderWay(report, logs, clock) /\ report.pc = "daily"
      /\ WrittenBy(logs, clock) /\ logs \in Seq(EntryType) /\ clock \in Int
      /\ UNCHANGED <<clock, logs>>
      /\ report' = NoReport \/ report' = Note(report, [daily |-> value], "by vendor")
    BY <1>3, ReadsOn
<1>5. CASE report' = Note(report, [daily |-> value], "by vendor")
    <2>1. UnderWay(report', logs, clock)
        BY <1>2, <1>4, <1>5, DailyRead
    <2> QED BY <1>4, <2>1 DEF ReportInv
<1> QED BY <1>4, <1>5, ReportsRest

LEMMA UsageDailyByVendorKeeps ==
    ASSUME UsageInv, ReportInv, UsageDailyByVendor
    PROVE  ReportInv'
<1>1. PICK value : value = [d \in DailyRange |-> [v \in Vendor |->
                Cardinality(OfVendor(OnDay(InWindow, d), v))]]
    OBVIOUS
<1>2. value = ByVendorOf(logs, report)
    BY <1>1, InTheModel DEF ByVendorOf
<1>3. Read("by vendor", [by_vendor |-> value], "by status")
    BY <1>1 DEF UsageDailyByVendor
<1>4. /\ UnderWay(report, logs, clock) /\ report.pc = "by vendor"
      /\ WrittenBy(logs, clock) /\ logs \in Seq(EntryType) /\ clock \in Int
      /\ UNCHANGED <<clock, logs>>
      /\ report' = NoReport \/ report' = Note(report, [by_vendor |-> value], "by status")
    BY <1>3, ReadsOn
<1>5. CASE report' = Note(report, [by_vendor |-> value], "by status")
    <2>1. UnderWay(report', logs, clock)
        BY <1>2, <1>4, <1>5, ByVendorRead
    <2> QED BY <1>4, <2>1 DEF ReportInv
<1> QED BY <1>4, <1>5, ReportsRest

LEMMA UsageDailyByStatusKeeps ==
    ASSUME UsageInv, ReportInv, UsageDailyByStatus
    PROVE  ReportInv'
<1>1. PICK value : value = [d \in DailyRange |-> [s \in HTTPStatus \union {0} |->
                Cardinality(Keyed(Failed(OnDay(InWindow, d)), s))]]
    OBVIOUS
<1>2. value = ByStatusOf(logs, report)
    BY <1>1, InTheModel DEF ByStatusOf
<1>3. Read("by status", [by_status |-> value], "by model")
    BY <1>1 DEF UsageDailyByStatus
<1>4. /\ UnderWay(report, logs, clock) /\ report.pc = "by status"
      /\ WrittenBy(logs, clock) /\ logs \in Seq(EntryType) /\ clock \in Int
      /\ UNCHANGED <<clock, logs>>
      /\ report' = NoReport \/ report' = Note(report, [by_status |-> value], "by model")
    BY <1>3, ReadsOn
<1>5. CASE report' = Note(report, [by_status |-> value], "by model")
    <2>1. UnderWay(report', logs, clock)
        BY <1>2, <1>4, <1>5, ByStatusRead
    <2> QED BY <1>4, <2>1 DEF ReportInv
<1> QED BY <1>4, <1>5, ReportsRest

LEMMA UsageByModelKeeps ==
    ASSUME UsageInv, ReportInv, UsageByModel
    PROVE  ReportInv'
<1>1. PICK value : value = [v \in Vendor |-> Tally(OfVendor(InWindow, v))]
    OBVIOUS
<1>2. value = ByModelOf(logs, report)
    BY <1>1, InTheModel DEF ByModelOf
<1>3. Read("by model", [by_model |-> value], "models daily")
    BY <1>1 DEF UsageByModel
<1>4. /\ UnderWay(report, logs, clock) /\ report.pc = "by model"
      /\ WrittenBy(logs, clock) /\ logs \in Seq(EntryType) /\ clock \in Int
      /\ UNCHANGED <<clock, logs>>
      /\ report' = NoReport \/ report' = Note(report, [by_model |-> value], "models daily")
    BY <1>3, ReadsOn
<1>5. CASE report' = Note(report, [by_model |-> value], "models daily")
    <2>1. UnderWay(report', logs, clock)
        BY <1>2, <1>4, <1>5, ByModelRead
    <2> QED BY <1>4, <2>1 DEF ReportInv
<1> QED BY <1>4, <1>5, ReportsRest

LEMMA UsageModelsDailyKeeps ==
    ASSUME UsageInv, ReportInv, UsageModelsDaily
    PROVE  ReportInv'
<1>1. PICK value : value = [v \in Vendor |-> [d \in DailyRange |->
                Tally(OnDay(OfVendor(InWindow, v), d))]]
    OBVIOUS
<1>2. value = ModelsDailyOf(logs, report)
    BY <1>1, InTheModel DEF ModelsDailyOf
<1>3. Read("models daily", [models_daily |-> value], "recent")
    BY <1>1 DEF UsageModelsDaily
<1>4. /\ UnderWay(report, logs, clock) /\ report.pc = "models daily"
      /\ WrittenBy(logs, clock) /\ logs \in Seq(EntryType) /\ clock \in Int
      /\ UNCHANGED <<clock, logs>>
      /\ report' = NoReport \/ report' = Note(report, [models_daily |-> value], "recent")
    BY <1>3, ReadsOn
<1>5. CASE report' = Note(report, [models_daily |-> value], "recent")
    <2>1. UnderWay(report', logs, clock)
        BY <1>2, <1>4, <1>5, ModelsDailyRead
    <2> QED BY <1>4, <2>1 DEF ReportInv
<1> QED BY <1>4, <1>5, ReportsRest

LEMMA UsageTodayKeeps ==
    ASSUME UsageInv, ReportInv, UsageToday
    PROVE  ReportInv'
<1>1. PICK value : value = Tally(OnDay(Rows(report.company, 0), DayOf(clock)))
    OBVIOUS
<1>2. Read("today", [today |-> value], "daily")
    BY <1>1 DEF UsageToday
<1>3. /\ UnderWay(report, logs, clock) /\ report.pc = "today"
      /\ WrittenBy(logs, clock) /\ logs \in Seq(EntryType) /\ clock \in Int
      /\ UNCHANGED <<clock, logs>>
      /\ report' = NoReport \/ report' = Note(report, [today |-> value], "daily")
    BY <1>2, ReadsOn
<1>4. CASE report' = Note(report, [today |-> value], "daily")
    <2>1. UnderWay(report', logs, clock)
        BY <1>3, <1>4, TodayRead
    <2> QED BY <1>3, <2>1 DEF ReportInv
<1> QED BY <1>3, <1>4, ReportsRest

LEMMA UsageLatenciesKeeps ==
    ASSUME UsageInv, ReportInv, UsageLatencies
    PROVE  ReportInv'
<1>1. PICK p50 : p50 = Percentile(InWindow, 50)
    OBVIOUS
<1>2. PICK p95 : p95 = Percentile(InWindow, 95)
    OBVIOUS
<1>3. Read("latencies", [p50 |-> p50, p95 |-> p95], "today")
    BY <1>1, <1>2 DEF UsageLatencies
<1>4. /\ UnderWay(report, logs, clock) /\ report.pc = "latencies"
      /\ WrittenBy(logs, clock) /\ logs \in Seq(EntryType) /\ clock \in Int
      /\ UNCHANGED <<clock, logs>>
      /\ report' = NoReport \/ report' = Note(report, [p50 |-> p50, p95 |-> p95], "today")
    BY <1>3, ReadsOn
<1>5. p50 <= p95
    <2>1. InWindow \in SUBSET DOMAIN logs
        BY DEF InWindow, Rows
    <2> QED BY <1>1, <1>2, <1>4, <2>1, PercentilesOrdered
<1>6. CASE report' = Note(report, [p50 |-> p50, p95 |-> p95], "today")
    <2>1. UnderWay(report', logs, clock)
        BY <1>4, <1>5, <1>6, LatenciesRead
    <2> QED BY <1>4, <2>1 DEF ReportInv
<1> QED BY <1>4, <1>6, ReportsRest

LEMMA UsageRecentKeeps ==
    ASSUME UsageInv, ReportInv, UsageRecent
    PROVE  ReportInv'
<1>1. PICK mine : mine = SelectSeq(logs, LAMBDA row : row.company = report.company)
    OBVIOUS
<1>2. PICK recent : recent = SubSeq(Reverse(mine), 1, Min({RecentLimit, Len(mine)}))
    OBVIOUS
<1>3. PICK result : result = [recent |-> recent, rows_after |-> Len(logs), day_after |-> DayOf(clock)]
    OBVIOUS
<1>4. Read("recent", result, "answered")
    BY <1>1, <1>2, <1>3 DEF UsageRecent
<1>5. /\ UnderWay(report, logs, clock) /\ report.pc = "recent"
      /\ WrittenBy(logs, clock) /\ logs \in Seq(EntryType) /\ clock \in Int
      /\ UNCHANGED <<clock, logs>>
      /\ report' = NoReport \/ report' = Note(report, result, "answered")
    BY <1>4, ReadsOn
<1>6. CASE report' = Note(report, result, "answered")
    <2>1. report'.pc = "answered" /\ AddsUp(report')
        BY <1>3, <1>5, <1>6, RecentRead
    <2> QED BY <1>5, <2>1 DEF ReportInv
<1> QED BY <1>5, <1>6, ReportsRest

LEMMA ReportsKeep == UsageInv /\ ReportInv /\ [UsageNext]_usageVars => ReportInv'
<1> SUFFICES ASSUME UsageInv, ReportInv, [UsageNext]_usageVars PROVE ReportInv'
    OBVIOUS
<1>1. CASE \E q \in Request : Calling(q)
    <2>1. UNCHANGED <<clock, logs, report>>
        BY <1>1 DEF Calling, StartRequest, RecordGenerate, OpenStream, UsageChunk, HangUp, CloseStream
    <2> QED BY <2>1, ReportsRest
<1>2. CASE \E i \in DOMAIN detached : Record(i)
    BY <1>2, ReportsRecord
<1>3. CASE UsageTotals \/ UsageLatencies \/ UsageToday \/ UsageDaily
    BY <1>3, UsageTotalsKeeps, UsageLatenciesKeeps, UsageTodayKeeps, UsageDailyKeeps
<1>4. CASE UsageDailyByVendor \/ UsageDailyByStatus \/ UsageByModel
    BY <1>4, UsageDailyByVendorKeeps, UsageDailyByStatusKeeps, UsageByModelKeeps
<1>5. CASE UsageModelsDaily \/ UsageRecent
    BY <1>5, UsageModelsDailyKeeps, UsageRecentKeeps
<1>6. CASE BeginReport \/ Advance
    BY <1>6, ReportsBegin, ReportsAge
<1>7. CASE Usage \/ ProcessExit \/ UNCHANGED usageVars
    <2>1. UNCHANGED <<clock, logs>> /\ (report' = report \/ report' = NoReport)
        BY <1>7 DEF Usage, ProcessExit, usageVars, calling
    <2> QED BY <2>1, ReportsRest
<1> QED BY <1>1, <1>2, <1>3, <1>4, <1>5, <1>6, <1>7 DEF UsageNext

LEMMA ReportInvariant == UsageSpec => []ReportInv
BY UsageInvariant, ReportsStart, ReportsKeep, PTL DEF UsageSpec

(***************************************************************************)
(* Every call is counted once, and counted the same wherever a report      *)
(* shows it: for any number of calls, companies, vendors and days, however *)
(* many rows are written between the nine reads of a report, the totals    *)
(* fit the models, each day fits its vendors and its statuses, until       *)
(* midnight the totals fit the days and the models their days, the reads   *)
(* agree exactly when the log was quiet, and the median is not above the   *)
(* 95th percentile.                                                        *)
(***************************************************************************)
THEOREM UsageAddsUp == UsageSpec => []UsageIsCounted
<1>1. UsageInv /\ ReportInv => ReportAddsUp
    <2> SUFFICES ASSUME UsageInv, ReportInv, report.pc = "answered"
                 PROVE  ReportAddsUp
        BY DEF ReportAddsUp
    <2>1. AddsUp(report)
        BY DEF ReportInv, UnderWay, Steps
    <2>2. DailyRange = Days(report)
        BY InTheModel
    <2> QED BY <2>1, <2>2 DEF ReportAddsUp, AddsUp, Columns
<1>2. UsageSpec => []ReportAddsUp
    BY <1>1, UsageInvariant, ReportInvariant, PTL
<1> QED BY <1>2, CallsAreLoggedOnce, PTL DEF UsageIsCounted
================================================================================
