-------------------------------- MODULE Gateway --------------------------------
(***************************************************************************)
(* How a request of /v1, or a job of the worker, comes to the rows of a    *)
(* company: deadline, service token, permission and feature, and then for  *)
(* every statement the company's database.  The main application moves     *)
(* companies to databases of their own and turns features off meanwhile.   *)
(***************************************************************************)
EXTENDS Integers, FiniteSets

CONSTANTS
    Tenant,      \* companies
    Database,    \* databases besides the central one
    Server,      \* goroutines of the API and the worker
    Central,     \* the central database
    Nothing,     \* no token, permission, feature or route
    Token,       \* tokens the main application, or somebody else, signed
    Route,       \* endpoints requested
    Family,      \* [permission ending in .* -> permissions]
    Timeout,     \* timeouts callers ask for, 0 = none
    Policy,      \* [fallback, headroom, min, max]: the budget of a request
    Ttl,         \* how long the flags of a company are kept
    Skew,        \* tolerance for the times of a token, 30 s in the code
    Horizon,     \* later than every time
    GatewayPlans \* [secured, requireAuth, statements, may]: whether key material is configured,
                 \* whether requests must have a token, the statements of a request, and bounds:
                 \* [request, job, move, toggle, trouble, tick]

ASSUME GatewayAssumption ==
    /\ Central \notin Database
    /\ {Policy.fallback, Policy.max} \subseteq Nat \ {0} /\ {Policy.headroom, Policy.min} \subseteq Nat
    /\ {Ttl, Skew, Horizon} \subseteq Nat /\ 0 \notin Tenant
    /\ Timeout \subseteq Nat /\ \A token \in Token : token.cov \subseteq Tenant
    /\ \A plan \in GatewayPlans :
          /\ plan.may \in [{"request", "job", "move", "toggle", "trouble", "tick"} -> Nat]
          /\ plan.may.tick < Horizon /\ plan.statements \in Nat \ {0}

VARIABLES
    routed,   \* company_routes and tenants: the database of a company, or Nothing
    allowed,  \* companies.entitlements: whether a feature is on
    opened,   \* how often a database was opened and is not closed
    cached,   \* the databases of the pool
    entries,  \* the flags of companies in memory
    time,     \* of every clock
    serving,  \* what a goroutine does
    offSince, \* history: when a feature was turned off
    allowance, \* what may still happen
    mode      \* the plan

gatewayVars == <<routed, allowed, opened, cached, entries, time, serving, offSince, allowance, mode>>
tables == <<routed, allowed, offSince>>
memory == <<opened, cached, entries>>

AiReply(feature) == [perm |-> "ai:reply:create", feature |-> feature]
Only(perm) == [perm |-> perm, feature |-> Nothing]

\* Permission and feature of the endpoints.
Register ==
    [reply    |-> AiReply("feature.ai.enabled"),
     search   |-> AiReply("feature.knowledge.semantic_search"),
     feedback |-> Only("ai:feedback:create"),
     approve  |-> Only("ai:review:approve"),
     reject   |-> Only("ai:review:reject"),
     reports  |-> Only("ai:reports:read"),
     models   |-> Only("activity.view")]

ASSUME RouteAssumption == Route \subseteq DOMAIN Register

Feature == {Register[e].feature : e \in DOMAIN Register} \ {Nothing}

Free == [pc |-> "free"]

\* A request let in, or a job.
Serve(first, principal, token, e, deadline) ==
    [pc |-> first, company |-> principal.company, coverage |-> principal.coverage, token |-> token,
     endpoint |-> e, deadline |-> deadline, left |-> mode.statements, flags |-> Nothing, stale |-> 0,
     db |-> Nothing, homes |-> {}, rows |-> {}]

GatewayInit ==
    /\ routed = [c \in Tenant |-> Nothing]
    /\ allowed = [c \in Tenant |-> [f \in Feature |-> TRUE]]
    /\ offSince = [c \in Tenant |-> [f \in Feature |-> Horizon]]
    /\ opened = [d \in Database |-> 0] /\ cached = {}
    /\ entries = [c \in Tenant |-> [flags |-> Nothing, expires |-> 0]]
    /\ time = 0
    /\ serving = [g \in Server |-> Free]
    /\ mode \in GatewayPlans
    /\ allowance = mode.may

Consume(what) == allowance[what] > 0 /\ allowance' = [allowance EXCEPT ![what] = @ - 1]

Doing(g, job) == serving' = [serving EXCEPT ![g] = job]
Goes(g, pc) == Doing(g, [serving[g] EXCEPT !.pc = pc])

HomeOf(c) == IF routed[c] = Nothing THEN Central ELSE routed[c]

-----------------------------------------------------------------------------
(* Deadline, token, permission                                             *)

Lesser(a, b) == IF a < b THEN a ELSE b
Greater(a, b) == IF a > b THEN a ELSE b

\* What the caller waits for, up to a maximum, less what the answer needs.
ResolveTimeout(timeout) ==
    Greater(Lesser(IF timeout > 0 THEN timeout ELSE Policy.fallback, Policy.max) - Policy.headroom, Policy.min)

\* Signed by the main application as a service token for this one, and its time is now.
Verify(token) ==
    /\ token # Nothing
    /\ token.sound /\ token.cid \in Tenant
    /\ time <= token.exp + Skew /\ token.nbf <= time + Skew

NormalizeCoverage(set, cid) == set \union {cid}

Rejected == [company |-> 0, perms |-> {}, coverage |-> {}]

\* The header is compared with the token; without key material it is believed.
RequireCompany(token, header) ==
    IF mode.secured
    THEN IF Verify(token) /\ header \in {0, token.cid}
         THEN [company |-> token.cid, perms |-> token.perms, coverage |-> NormalizeCoverage(token.cov, token.cid)]
         ELSE Rejected
    ELSE IF ~mode.requireAuth /\ header # 0
         THEN [company |-> header, perms |-> {"*"}, coverage |-> NormalizeCoverage({}, header)]
         ELSE Rejected

Can(granted, required) ==
    \E p \in granted : p \in {"*", required} \/ (p \in DOMAIN Family /\ required \in Family[p])

ServeRequest(g) ==
    /\ serving[g] = Free /\ Consume("request")
    /\ \E token \in Token \union {Nothing}, header \in Tenant \union {0}, e \in Route, t \in Timeout :
          LET principal == RequireCompany(token, header) IN
          Doing(g, IF principal = Rejected \/ ~Can(principal.perms, Register[e].perm) THEN Free
                   ELSE Serve(IF Register[e].feature = Nothing THEN "statement" ELSE "flags",
                              principal, token, e, time + ResolveTimeout(t)))
    /\ UNCHANGED <<tables, memory, time, mode>>

\* A job names its company, or every company, which no statement accepts.
Job(g) ==
    /\ serving[g] = Free /\ Consume("job")
    /\ \E c \in Tenant \union {0} :
          Doing(g, IF c = 0 THEN Free
                   ELSE Serve("statement", [company |-> c, coverage |-> {c}], Nothing, Nothing, Horizon))
    /\ UNCHANGED <<tables, memory, time, mode>>

-----------------------------------------------------------------------------
(* Feature                                                                 *)

Late(g) == time > serving[g].deadline
FeatureOf(g) == Register[serving[g].endpoint].feature

\* How long the feature had been off when it was found on.
Staleness(g) ==
    IF allowed[serving[g].company][FeatureOf(g)] THEN 0
    ELSE time - offSince[serving[g].company][FeatureOf(g)]

Enabled(g, flags) ==
    Doing(g, IF flags[FeatureOf(g)]
             THEN [serving[g] EXCEPT !.pc = "statement", !.stale = Staleness(g), !.flags = Nothing]
             ELSE Free)

FreshEntryForever(c) == entries[c].flags # Nothing
FreshEntry(c) == entries[c].flags # Nothing /\ time < entries[c].expires

LookUpFlags(g) ==
    LET c == serving[g].company IN
    /\ serving[g].pc = "flags"
    /\ IF FreshEntry(c) THEN Enabled(g, entries[c].flags) ELSE Goes(g, "column")
    /\ UNCHANGED <<tables, memory, time, allowance, mode>>

\* The central database answers, but the answer is still to come.
ReadEntitlements(g) ==
    /\ serving[g].pc = "column"
    /\ Doing(g, [serving[g] EXCEPT !.pc = "answer", !.flags = allowed[serving[g].company]])
    /\ UNCHANGED <<tables, memory, time, allowance, mode>>

\* The last to hear from the database has its answer kept, whoever asked last.
StoreFlags(g) ==
    /\ serving[g].pc = "answer" /\ ~Late(g)
    /\ entries' = [entries EXCEPT ![serving[g].company] = [flags |-> serving[g].flags, expires |-> time + Ttl]]
    /\ Enabled(g, serving[g].flags)
    /\ UNCHANGED <<tables, opened, cached, time, allowance, mode>>

\* A feature that cannot be read is on, and nothing is kept.
FlagsUnread(g) ==
    /\ serving[g].pc \in {"column", "answer"}
    /\ IF Late(g) THEN UNCHANGED allowance ELSE Consume("trouble")
    /\ Doing(g, [serving[g] EXCEPT !.pc = "statement", !.flags = Nothing])
    /\ UNCHANGED <<tables, memory, time, mode>>

-----------------------------------------------------------------------------
(* Statements                                                              *)

\* The route is read for each statement; `homes` are the databases the company has been in since.
StartStatement(g) ==
    /\ serving[g].pc = "statement" /\ ~Late(g)
    /\ Doing(g, [serving[g] EXCEPT !.pc = "route", !.homes = {HomeOf(serving[g].company)}])
    /\ UNCHANGED <<tables, memory, time, allowance, mode>>

TenantDBNameOrCentral(g) ==
    /\ serving[g].pc = "route"
    /\ \/ Doing(g, [serving[g] EXCEPT !.pc = "pool", !.db = HomeOf(serving[g].company)]) /\ UNCHANGED allowance
       \/ Consume("trouble") /\ Doing(g, [serving[g] EXCEPT !.pc = "pool", !.db = Central])
    /\ UNCHANGED <<tables, memory, time, mode>>

\* No row, or a row without a name, means the central database; an error means none.
TenantDBName(g) ==
    /\ serving[g].pc = "route"
    /\ \/ Doing(g, [serving[g] EXCEPT !.pc = "pool", !.db = HomeOf(serving[g].company)]) /\ UNCHANGED allowance
       \/ Consume("trouble") /\ Doing(g, Free)
    /\ UNCHANGED <<tables, memory, time, mode>>

\* Under the read lock.
Pooled(g) ==
    /\ serving[g].pc = "pool"
    /\ Goes(g, IF serving[g].db \in cached \union {Central} THEN "execute" ELSE "open")
    /\ UNCHANGED <<tables, memory, time, allowance, mode>>

OpenForDB(d) ==
    /\ opened' = [opened EXCEPT ![d] = @ + 1]
    /\ cached' = cached \union {d}

\* Under the write lock, where another may have been before.
OpenPooledBlindly(g) ==
    /\ serving[g].pc = "open"
    /\ OpenForDB(serving[g].db)
    /\ Goes(g, "execute")
    /\ UNCHANGED <<tables, entries, time, allowance, mode>>

OpenPooled(g) ==
    /\ serving[g].pc = "open"
    /\ IF serving[g].db \in cached THEN UNCHANGED <<opened, cached>> ELSE OpenForDB(serving[g].db)
    /\ Goes(g, "execute")
    /\ UNCHANGED <<tables, entries, time, allowance, mode>>

\* The rows of the companies covered that this database has.
RowsIn(g) == {c \in serving[g].coverage : HomeOf(c) = serving[g].db}

Execute(g) ==
    /\ serving[g].pc = "execute" /\ ~Late(g)
    /\ Doing(g, [serving[g] EXCEPT !.pc = "rows", !.rows = RowsIn(g)])
    /\ UNCHANGED <<tables, memory, time, allowance, mode>>

NextStatement(g) ==
    LET job == serving[g] IN
    /\ job.pc = "rows"
    /\ Doing(g, IF job.left = 1 THEN Free
                ELSE [job EXCEPT !.pc = "statement", !.left = @ - 1, !.db = Nothing, !.homes = {}, !.rows = {}])
    /\ UNCHANGED <<tables, memory, time, allowance, mode>>

\* A statement that cannot begin, open or finish ends the request; so does its deadline.
StatementFails(g) ==
    /\ serving[g].pc \in {"statement", "open", "execute"}
    /\ IF Late(g) THEN UNCHANGED allowance ELSE Consume("trouble")
    /\ Doing(g, Free)
    /\ UNCHANGED <<tables, memory, time, mode>>

-----------------------------------------------------------------------------
(* The main application, and time                                          *)

MoveTenant(c) ==
    /\ Consume("move")
    /\ \E d \in (Database \union {Nothing}) \ {routed[c]} : routed' = [routed EXCEPT ![c] = d]
    /\ serving' = [g \in Server |->
          IF serving[g] # Free /\ serving[g].company = c /\ serving[g].homes # {}
          THEN [serving[g] EXCEPT !.homes = @ \union {HomeOf(c)'}] ELSE serving[g]]
    /\ UNCHANGED <<allowed, offSince, memory, time, mode>>

ToggleFeature(c, f) ==
    /\ Consume("toggle")
    /\ allowed' = [allowed EXCEPT ![c][f] = ~@]
    /\ offSince' = [offSince EXCEPT ![c][f] = IF allowed[c][f] THEN time ELSE Horizon]
    /\ UNCHANGED <<routed, memory, time, serving, mode>>

TickClock ==
    /\ Consume("tick")
    /\ time' = time + 1
    /\ UNCHANGED <<tables, memory, serving, mode>>

GatewayStep(g) ==
    \/ ServeRequest(g) \/ Job(g)
    \/ LookUpFlags(g) \/ ReadEntitlements(g) \/ StoreFlags(g) \/ FlagsUnread(g)
    \/ StartStatement(g) \/ TenantDBName(g) \/ Pooled(g) \/ OpenPooled(g) \/ Execute(g)
    \/ NextStatement(g) \/ StatementFails(g)

GatewayNext ==
    \/ \E g \in Server : GatewayStep(g)
    \/ \E c \in Tenant : MoveTenant(c) \/ \E f \in Feature : ToggleFeature(c, f)
    \/ TickClock

GatewaySpec == GatewayInit /\ [][GatewayNext]_gatewayVars

-----------------------------------------------------------------------------
GatewayTypeOK ==
    /\ routed \in [Tenant -> Database \union {Nothing}]
    /\ allowed \in [Tenant -> [Feature -> BOOLEAN]] /\ offSince \in [Tenant -> [Feature -> 0..Horizon]]
    /\ opened \in [Database -> Nat] /\ cached \subseteq Database
    /\ \A c \in Tenant : entries[c].flags \in [Feature -> BOOLEAN] \union {Nothing}
    /\ time \in 0..Horizon
    /\ \A g \in Server : serving[g] # Free => serving[g].company \in Tenant

(***************************************************************************)
(* A database is opened once per process, however many requests miss it in *)
(* the pool at the same time: a second handle would replace the first in   *)
(* the pool, and nothing would close it.                                   *)
(***************************************************************************)
OneHandle == \A d \in Database : opened[d] <= 1

(***************************************************************************)
(* Rows reach a request from a database its company was in while the       *)
(* statement ran, never from the central one because the route could not   *)
(* be read; they are those of companies the token covers; and the company  *)
(* is the one of a token that the main application signed and that carries *)
(* the endpoint's permission, whatever the header says.                    *)
(***************************************************************************)
RowsAreOwn ==
    \A g \in Server : serving[g].pc = "rows" =>
        LET job == serving[g] IN
        /\ job.db \in job.homes
        /\ mode.secured /\ job.endpoint # Nothing =>
              /\ job.token # Nothing /\ job.token.sound /\ job.token.cid = job.company
              /\ job.rows \subseteq job.token.cov \union {job.company}
              /\ Can(job.token.perms, Register[job.endpoint].perm)

(***************************************************************************)
(* A feature turned off is off for every request after the time its flags  *)
(* are kept and the longest a request may wait for them, unless they could *)
(* not be read: a slow reader may keep an old answer anew, but not longer. *)
(***************************************************************************)
LongestBudget == Greater(Policy.max - Policy.headroom, Policy.min)

StaleAtMost == \A g \in Server : serving[g] # Free => serving[g].stale <= Ttl + LongestBudget
===============================================================================
