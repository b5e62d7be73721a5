------------------------------ MODULE FrontProofs ------------------------------
(***************************************************************************)
(* Proofs about the requests of the API: the handles of the gateway, the   *)
(* webhook, and the assessment of mails, for every number of requests,     *)
(* tenants, webhooks, mails and settings, and any number of changes,       *)
(* failures and deaths.                                                    *)
(***************************************************************************)
EXTENDS MCFront, ModelAccessProofs, TLAPS, SequenceTheorems, WellFoundedInduction, NaturalsInduction

-----------------------------------------------------------------------------
(***************************************************************************)
(* The gateway: the inductive invariant.                                   *)
(***************************************************************************)
Home == Database \union {Central}
Flags == [Feature -> BOOLEAN]

Asking == {"flags", "column", "answer"}
Routing == {"route", "pool", "open", "execute", "rows"}

ServingTask ==
    [pc: Asking \union Routing \union {"statement"}, company: Tenant, coverage: SUBSET Tenant,
     token: Token \union {Nothing}, endpoint: Route \union {Nothing}, deadline: Nat,
     left: Nat \ {0}, flags: Flags \union {Nothing}, stale: Int, db: Home \union {Nothing},
     homes: SUBSET Home, rows: SUBSET Tenant]

\* A request asks about a feature only within its budget; a flag that was on
\* when it was read, and is off now, was read by a request that began before.
AskedInTime(job) ==
    job.pc \in Asking =>
        /\ job.endpoint \in Route /\ Register[job.endpoint].feature \in Feature
        /\ job.deadline <= time + LongestBudget

AnswerIsRecent(job) ==
    job.pc = "answer" =>
        /\ job.flags \in Flags
        /\ \A f \in Feature : job.flags[f] /\ ~allowed[job.company][f] =>
              job.deadline <= offSince[job.company][f] + LongestBudget

\* A statement knows the homes of its company, and its own is one of them.
RoutedHome(job) ==
    /\ job.pc \in Routing => HomeOf(job.company) \in job.homes
    /\ job.pc \in Routing \ {"route"} => job.db \in job.homes
    /\ job.pc = "open" => job.db \in Database

\* What a request shows, a token of its company allows.
Vouched(job) ==
    /\ job.rows \subseteq job.coverage
    /\ mode.secured /\ job.endpoint # Nothing =>
          /\ job.token # Nothing /\ job.token.sound /\ job.token.cid = job.company
          /\ job.coverage \subseteq job.token.cov \union {job.company}
          /\ Can(job.token.perms, Register[job.endpoint].perm)

GoodJob(job) ==
    /\ job \in ServingTask /\ job.stale <= Ttl + LongestBudget
    /\ AskedInTime(job) /\ AnswerIsRecent(job) /\ RoutedHome(job) /\ Vouched(job)

JobsAreGood == \A g \in Server : serving[g] = Free \/ GoodJob(serving[g])

\* The flags in memory are no older than their lifetime and a budget.
EntriesAreRecent ==
    \A c \in Tenant : entries[c].flags # Nothing =>
        /\ entries[c].flags \in Flags /\ entries[c].expires <= time + Ttl
        /\ \A f \in Feature : entries[c].flags[f] /\ ~allowed[c][f] =>
              entries[c].expires <= offSince[c][f] + LongestBudget + Ttl

\* A database is open exactly when it is in the pool.
OpenIsPooled == \A d \in Database : opened[d] = IF d \in cached THEN 1 ELSE 0

Types ==
    /\ routed \in [Tenant -> Database \union {Nothing}]
    /\ allowed \in [Tenant -> Flags] /\ offSince \in [Tenant -> [Feature -> 0..Horizon]]
    /\ opened \in [Database -> Nat] /\ cached \subseteq Database
    /\ entries \in [Tenant -> [flags: Flags \union {Nothing}, expires: Nat]]
    /\ time \in Nat /\ mode \in GatewayPlans
    /\ allowance \in [{"request", "job", "move", "toggle", "trouble", "tick"} -> Nat]
    /\ time + allowance.tick < Horizon
    /\ DOMAIN serving = Server

GatewayInv == Types /\ JobsAreGood /\ EntriesAreRecent /\ OpenIsPooled

-----------------------------------------------------------------------------
(***************************************************************************)
(* Steps of one server: what it serves changes, and little else.           *)
(***************************************************************************)
Frame == UNCHANGED <<routed, allowed, offSince, time, mode>>

LEMMA BudgetType ==
  LongestBudget \in Nat /\ \A t \in Nat : ResolveTimeout(t) \in Nat /\ ResolveTimeout(t) <= LongestBudget
  BY GatewayAssumption DEF LongestBudget, ResolveTimeout, Greater, Lesser

LEMMA ConsumeType ==
  ASSUME Types, NEW what \in {"request", "job", "move", "toggle", "trouble", "tick"}, Consume(what)
  PROVE  /\ allowance' \in [{"request", "job", "move", "toggle", "trouble", "tick"} -> Nat]
         /\ allowance'.tick <= allowance.tick
         /\ what = "tick" => allowance'.tick = allowance.tick - 1
  BY DEF Types, Consume

LEMMA BusyIsGood ==
  ASSUME GatewayInv, NEW g \in Server, serving[g].pc # "free"
  PROVE  GoodJob(serving[g]) /\ serving[g] \in ServingTask
  BY DEF GatewayInv, JobsAreGood, GoodJob, Free

\* A server that goes on with a good task, or none, leaves the tasks good.
LEMMA OneMoves ==
  ASSUME GatewayInv, Frame, NEW g \in Server, NEW job, job = Free \/ GoodJob(job), Doing(g, job)
  PROVE  JobsAreGood' /\ DOMAIN serving' = Server
  <1>1. DOMAIN serving = Server /\ DOMAIN serving' = Server
    BY DEF GatewayInv, Types, Doing
  <1>2. \A h \in Server : serving'[h] = Free \/ GoodJob(serving'[h])
    BY <1>1 DEF GatewayInv, JobsAreGood, Doing
  <1>3. \A h \in Server : GoodJob(serving'[h]) => GoodJob(serving[h])'
    BY DEF Frame, GoodJob, AskedInTime, AnswerIsRecent, RoutedHome, Vouched, HomeOf, Can
  <1> QED BY <1>1, <1>2, <1>3 DEF JobsAreGood

\* A step that leaves the tables, the clock and the memory alone.
LEMMA RestStays ==
  ASSUME GatewayInv, Frame, UNCHANGED <<memory, time>>, JobsAreGood', DOMAIN serving' = Server,
         \/ allowance' = allowance
         \/ \E what \in {"request", "job", "move", "toggle", "trouble"} : Consume(what)
  PROVE  GatewayInv'
  <1>1. /\ allowance' \in [{"request", "job", "move", "toggle", "trouble", "tick"} -> Nat]
        /\ allowance'.tick <= allowance.tick
    <2>1. CASE allowance' = allowance
      BY <2>1 DEF GatewayInv, Types
    <2>2. CASE \E what \in {"request", "job", "move", "toggle", "trouble"} : Consume(what)
      BY <2>2, ConsumeType DEF GatewayInv
    <2> QED BY <2>1, <2>2
  <1>2. Types'
    <2>1. time + allowance'.tick < Horizon
      BY <1>1, GatewayAssumption DEF GatewayInv, Types
    <2> QED BY <1>1, <2>1 DEF GatewayInv, Types, Frame, memory
  <1>3. EntriesAreRecent' /\ OpenIsPooled'
    BY DEF GatewayInv, EntriesAreRecent, OpenIsPooled, Frame, memory
  <1> QED BY <1>2, <1>3 DEF GatewayInv

(***************************************************************************)
(* A request is let in with what its token allows, and a job with nothing. *)
(***************************************************************************)
LEMMA ServeRequestStep ==
  ASSUME GatewayInv, NEW g \in Server, ServeRequest(g)
  PROVE  GatewayInv'
  <1>1. PICK token \in Token \union {Nothing}, header \in Tenant \union {0}, e \in Route, t \in Timeout :
           LET principal == RequireCompany(token, header) IN
           Doing(g, IF principal = Rejected \/ ~Can(principal.perms, Register[e].perm) THEN Free
                    ELSE Serve(IF Register[e].feature = Nothing THEN "statement" ELSE "flags",
                               principal, token, e, time + ResolveTimeout(t)))
    BY DEF ServeRequest
  <1> DEFINE principal == RequireCompany(token, header)
             first == IF Register[e].feature = Nothing THEN "statement" ELSE "flags"
             job == Serve(first, principal, token, e, time + ResolveTimeout(t))
  <1>2. Frame /\ UNCHANGED <<memory, time>> /\ Consume("request")
    BY DEF ServeRequest, Frame, tables
  <1>3. CASE principal = Rejected \/ ~Can(principal.perms, Register[e].perm)
    <2>1. Doing(g, Free)
      BY <1>1, <1>3
    <2> QED BY <1>2, <2>1, OneMoves, RestStays
  <1>4. CASE ~(principal = Rejected \/ ~Can(principal.perms, Register[e].perm))
    <2>1. Can(principal.perms, Register[e].perm) /\ principal # Rejected
      BY <1>4
    <2>2. /\ principal.company \in Tenant /\ principal.coverage \subseteq Tenant
          /\ mode.secured =>
                /\ token # Nothing /\ token.sound /\ token.cid = principal.company
                /\ principal.coverage = token.cov \union {principal.company}
                /\ principal.perms = token.perms
      <3>1. CASE mode.secured
        <4>1. /\ Verify(token)
              /\ principal = [company |-> token.cid, perms |-> token.perms,
                              coverage |-> NormalizeCoverage(token.cov, token.cid)]
          BY <2>1, <3>1 DEF RequireCompany
        <4>2. /\ principal.company = token.cid /\ principal.perms = token.perms
              /\ principal.coverage = token.cov \union {token.cid}
          BY <4>1 DEF NormalizeCoverage
        <4>3. token \in Token /\ token.cid \in Tenant /\ token.sound /\ token # Nothing
          BY <4>1 DEF Verify
        <4> QED BY <4>2, <4>3, GatewayAssumption
      <3>2. CASE ~mode.secured
        <4>1. /\ header # 0
              /\ principal = [company |-> header, perms |-> {"*"},
                              coverage |-> NormalizeCoverage({}, header)]
          BY <2>1, <3>2 DEF RequireCompany
        <4>2. principal.company = header /\ principal.coverage = {header}
          BY <4>1 DEF NormalizeCoverage
        <4> QED BY <3>2, <4>1, <4>2
      <3> QED BY <3>1, <3>2
    <2>3. time + ResolveTimeout(t) \in Nat /\ time + ResolveTimeout(t) <= time + LongestBudget
      BY BudgetType, GatewayAssumption DEF GatewayInv, Types
    <2>4. mode.statements \in Nat \ {0}
      BY GatewayAssumption DEF GatewayInv, Types
    <2>5. first \in {"statement", "flags"} /\ (first = "flags" => Register[e].feature \in Feature)
      BY RouteAssumption DEF Feature
    <2>6. /\ job.pc = first /\ job.company = principal.company /\ job.coverage = principal.coverage
          /\ job.token = token /\ job.endpoint = e /\ job.deadline = time + ResolveTimeout(t)
          /\ job.left = mode.statements /\ job.flags = Nothing /\ job.stale = 0
          /\ job.db = Nothing /\ job.homes = {} /\ job.rows = {}
      BY DEF Serve
    <2>7. job \in ServingTask
      BY <2>2, <2>3, <2>4, <2>5 DEF ServingTask, Serve, Asking, Routing
    <2>8. GoodJob(job)
      <3> HIDE DEF job, principal, first
      <3>1. AskedInTime(job) /\ AnswerIsRecent(job) /\ RoutedHome(job)
        BY <2>3, <2>5, <2>6 DEF AskedInTime, AnswerIsRecent, RoutedHome, Asking, Routing
      <3>2. Vouched(job)
        BY <2>1, <2>2, <2>6 DEF Vouched
      <3>3. job.stale <= Ttl + LongestBudget
        BY <2>6, BudgetType, GatewayAssumption
      <3> QED BY <2>7, <3>1, <3>2, <3>3 DEF GoodJob
    <2>9. Doing(g, job)
      BY <1>1, <1>4
    <2> HIDE DEF job
    <2> QED BY <1>2, <2>8, <2>9, OneMoves, RestStays
  <1> QED BY <1>3, <1>4

LEMMA JobStep ==
  ASSUME GatewayInv, NEW g \in Server, Job(g)
  PROVE  GatewayInv'
  <1>1. PICK c \in Tenant \union {0} :
          Doing(g, IF c = 0 THEN Free
                   ELSE Serve("statement", [company |-> c, coverage |-> {c}], Nothing, Nothing, Horizon))
    BY DEF Job
  <1> DEFINE job == Serve("statement", [company |-> c, coverage |-> {c}], Nothing, Nothing, Horizon)
  <1>2. Frame /\ UNCHANGED <<memory, time>> /\ Consume("job")
    BY DEF Job, Frame, tables
  <1>3. CASE c = 0
    <2>1. Doing(g, Free)
      BY <1>1, <1>3
    <2> QED BY <1>2, <2>1, OneMoves, RestStays
  <1>4. CASE c # 0
    <2>1. mode.statements \in Nat \ {0} /\ c \in Tenant
      BY <1>4, GatewayAssumption DEF GatewayInv, Types
    <2>2. /\ job.pc = "statement" /\ job.coverage = {c} /\ job.endpoint = Nothing
          /\ job.rows = {} /\ job.stale = 0 /\ job \in ServingTask
      BY <2>1, GatewayAssumption DEF Serve, ServingTask, Asking, Routing
    <2>3. GoodJob(job)
      <3> HIDE DEF job
      <3>1. job.stale <= Ttl + LongestBudget
        BY <2>2, BudgetType, GatewayAssumption
      <3> QED BY <2>2, <3>1
          DEF GoodJob, AskedInTime, AnswerIsRecent, RoutedHome, Vouched, Asking, Routing
    <2>4. Doing(g, job)
      BY <1>1, <1>4
    <2> HIDE DEF job
    <2> QED BY <1>2, <2>3, <2>4, OneMoves, RestStays
  <1> QED BY <1>3, <1>4

-----------------------------------------------------------------------------
(***************************************************************************)
(* Flags.                                                                  *)
(***************************************************************************)

\* A request goes on with a flag that is on, and is not too stale, or ends.
LEMMA EnabledIsGood ==
  ASSUME GatewayInv, NEW g \in Server, serving[g].pc \in {"flags", "answer"}, NEW flags \in Flags,
         \A f \in Feature : flags[f] /\ ~allowed[serving[g].company][f] =>
            time <= offSince[serving[g].company][f] + LongestBudget + Ttl
  PROVE  LET job == [serving[g] EXCEPT !.pc = "statement", !.stale = Staleness(g), !.flags = Nothing]
         IN  flags[FeatureOf(g)] => GoodJob(job)
  <1> DEFINE job == [serving[g] EXCEPT !.pc = "statement", !.stale = Staleness(g), !.flags = Nothing]
  <1> SUFFICES ASSUME flags[FeatureOf(g)] PROVE GoodJob(job)
    OBVIOUS
  <1>1. GoodJob(serving[g]) /\ serving[g] \in ServingTask
    BY BusyIsGood
  <1>2. FeatureOf(g) \in Feature /\ serving[g].company \in Tenant
    BY <1>1 DEF GoodJob, AskedInTime, FeatureOf, Asking, ServingTask
  <1>3. /\ time \in Nat /\ offSince[serving[g].company][FeatureOf(g)] \in Nat
        /\ Ttl \in Nat /\ LongestBudget \in Nat
    BY <1>2, BudgetType, GatewayAssumption DEF GatewayInv, Types
  <1>4. Staleness(g) \in Int /\ Staleness(g) <= Ttl + LongestBudget
    BY <1>2, <1>3 DEF Staleness
  <1>5. /\ job \in ServingTask /\ job.pc = "statement" /\ job.stale = Staleness(g)
        /\ job.company = serving[g].company /\ job.coverage = serving[g].coverage
        /\ job.token = serving[g].token /\ job.endpoint = serving[g].endpoint
        /\ job.rows = serving[g].rows
    BY <1>1, <1>4 DEF ServingTask
  <1>6. Vouched(job)
    BY <1>1, <1>5 DEF GoodJob, Vouched
  <1> HIDE DEF job
  <1> QED BY <1>4, <1>5, <1>6 DEF GoodJob, AskedInTime, AnswerIsRecent, RoutedHome, Asking, Routing

LEMMA LookUpFlagsStep ==
  ASSUME GatewayInv, NEW g \in Server, LookUpFlags(g)
  PROVE  GatewayInv'
  <1> DEFINE c == serving[g].company
  <1>1. serving[g].pc = "flags" /\ Frame /\ UNCHANGED <<memory, time, allowance>>
    BY DEF LookUpFlags, Frame, tables
  <1>2. GoodJob(serving[g]) /\ serving[g] \in ServingTask /\ c \in Tenant
    BY <1>1, BusyIsGood DEF ServingTask
  <1>3. CASE FreshEntry(c)
    <2>1. Enabled(g, entries[c].flags) /\ entries[c].flags \in Flags
      BY <1>2, <1>3 DEF LookUpFlags, GatewayInv, EntriesAreRecent, FreshEntry
    <2>2. ASSUME NEW f \in Feature, entries[c].flags[f], ~allowed[c][f]
          PROVE  time <= offSince[c][f] + LongestBudget + Ttl
      <3>1. entries[c].expires <= offSince[c][f] + LongestBudget + Ttl /\ time < entries[c].expires
        BY <1>2, <1>3, <2>2 DEF GatewayInv, EntriesAreRecent, FreshEntry
      <3>2. /\ time \in Nat /\ entries[c].expires \in Nat /\ offSince[c][f] \in Nat
            /\ Ttl \in Nat /\ LongestBudget \in Nat
        BY <1>2, BudgetType, GatewayAssumption DEF GatewayInv, Types
      <3> QED BY <3>1, <3>2
    <2>3. CASE entries[c].flags[FeatureOf(g)]
      <3>1. GoodJob([serving[g] EXCEPT !.pc = "statement", !.stale = Staleness(g), !.flags = Nothing])
        BY <1>1, <2>1, <2>2, <2>3, EnabledIsGood
      <3>2. Doing(g, [serving[g] EXCEPT !.pc = "statement", !.stale = Staleness(g), !.flags = Nothing])
        BY <2>1, <2>3 DEF Enabled
      <3> QED BY <1>1, <3>1, <3>2, OneMoves, RestStays
    <2>4. CASE ~entries[c].flags[FeatureOf(g)]
      <3>1. Doing(g, Free)
        BY <2>1, <2>4 DEF Enabled
      <3> QED BY <1>1, <3>1, OneMoves, RestStays
    <2> QED BY <2>3, <2>4
  <1>4. CASE ~FreshEntry(c)
    <2> DEFINE job == [serving[g] EXCEPT !.pc = "column"]
    <2>1. Doing(g, job)
      BY <1>4 DEF LookUpFlags, Goes
    <2>2. GoodJob(job)
      BY <1>1, <1>2
      DEF GoodJob, ServingTask, AskedInTime, AnswerIsRecent, RoutedHome, Vouched, Asking, Routing
    <2> HIDE DEF job
    <2> QED BY <1>1, <2>1, <2>2, OneMoves, RestStays
  <1> QED BY <1>3, <1>4

LEMMA ReadEntitlementsStep ==
  ASSUME GatewayInv, NEW g \in Server, ReadEntitlements(g)
  PROVE  GatewayInv'
  <1> DEFINE job == [serving[g] EXCEPT !.pc = "answer", !.flags = allowed[serving[g].company]]
  <1>1. /\ serving[g].pc = "column" /\ Frame /\ UNCHANGED <<memory, time, allowance>> /\ Doing(g, job)
    BY DEF ReadEntitlements, Frame, tables
  <1>2. GoodJob(serving[g]) /\ serving[g] \in ServingTask /\ allowed[serving[g].company] \in Flags
    BY <1>1, BusyIsGood DEF ServingTask, GatewayInv, Types
  <1>3. /\ job \in ServingTask /\ job.pc = "answer" /\ job.flags = allowed[serving[g].company]
        /\ job.company = serving[g].company /\ job.coverage = serving[g].coverage
        /\ job.token = serving[g].token /\ job.endpoint = serving[g].endpoint
        /\ job.rows = serving[g].rows /\ job.deadline = serving[g].deadline
        /\ job.stale = serving[g].stale
    BY <1>2 DEF ServingTask, Asking
  <1>4. GoodJob(job)
    <2> HIDE DEF job
    <2>1. AskedInTime(job) /\ Vouched(job)
      BY <1>1, <1>2, <1>3 DEF GoodJob, AskedInTime, Vouched, Asking
    <2>2. AnswerIsRecent(job) /\ RoutedHome(job)
      BY <1>2, <1>3 DEF AnswerIsRecent, RoutedHome, Routing
    <2> QED BY <1>2, <1>3, <2>1, <2>2 DEF GoodJob
  <1> HIDE DEF job
  <1> QED BY <1>1, <1>4, OneMoves, RestStays

LEMMA StoreFlagsStep ==
  ASSUME GatewayInv, NEW g \in Server, StoreFlags(g)
  PROVE  GatewayInv'
  <1> DEFINE c == serving[g].company
             flags == serving[g].flags
  <1>1. /\ serving[g].pc = "answer" /\ ~Late(g) /\ Frame
        /\ UNCHANGED <<opened, cached, time, allowance>> /\ Enabled(g, flags)
        /\ entries' = [entries EXCEPT ![c] = [flags |-> flags, expires |-> time + Ttl]]
    BY DEF StoreFlags, Frame, tables
  <1>2. GoodJob(serving[g]) /\ serving[g] \in ServingTask /\ c \in Tenant
    BY <1>1, BusyIsGood DEF ServingTask
  <1>3. flags \in Flags
    BY <1>1, <1>2 DEF GoodJob, AnswerIsRecent
  <1>4. time \in Nat /\ Ttl \in Nat /\ LongestBudget \in Nat
    BY BudgetType, GatewayAssumption DEF GatewayInv, Types
  <1>5. ASSUME NEW f \in Feature, flags[f], ~allowed[c][f]
        PROVE  offSince[c][f] \in Nat /\ time <= offSince[c][f] + LongestBudget
    <2>1. serving[g].deadline <= offSince[c][f] + LongestBudget
      BY <1>1, <1>2, <1>5 DEF GoodJob, AnswerIsRecent
    <2>2. serving[g].deadline \in Nat /\ time <= serving[g].deadline
      BY <1>1, <1>2, <1>4 DEF Late, ServingTask
    <2>3. offSince[c][f] \in Nat
      BY <1>2, GatewayAssumption DEF GatewayInv, Types
    <2> QED BY <1>4, <2>1, <2>2, <2>3
  <1>6. \A f \in Feature : flags[f] /\ ~allowed[c][f] =>
           /\ time <= offSince[c][f] + LongestBudget + Ttl
           /\ time + Ttl <= offSince[c][f] + LongestBudget + Ttl
    BY <1>4, <1>5
  <1>7. JobsAreGood' /\ DOMAIN serving' = Server
    <2>1. CASE flags[FeatureOf(g)]
      <3>1. GoodJob([serving[g] EXCEPT !.pc = "statement", !.stale = Staleness(g), !.flags = Nothing])
        BY <1>1, <1>3, <1>6, <2>1, EnabledIsGood
      <3>2. Doing(g, [serving[g] EXCEPT !.pc = "statement", !.stale = Staleness(g), !.flags = Nothing])
        BY <1>1, <2>1 DEF Enabled
      <3> QED BY <1>1, <3>1, <3>2, OneMoves
    <2>2. CASE ~flags[FeatureOf(g)]
      <3>1. Doing(g, Free)
        BY <1>1, <2>2 DEF Enabled
      <3> QED BY <1>1, <3>1, OneMoves
    <2> QED BY <2>1, <2>2
  <1>8. entries' \in [Tenant -> [flags: Flags \union {Nothing}, expires: Nat]]
    <2>1. [flags |-> flags, expires |-> time + Ttl] \in [flags: Flags \union {Nothing}, expires: Nat]
      BY <1>3, <1>4
    <2> QED BY <1>1, <1>2, <2>1 DEF GatewayInv, Types
  <1>9. Types'
    BY <1>1, <1>7, <1>8 DEF GatewayInv, Types, Frame
  <1>10. EntriesAreRecent'
    <2> SUFFICES ASSUME NEW d \in Tenant, entries'[d].flags # Nothing
                 PROVE  /\ entries'[d].flags \in Flags /\ entries'[d].expires <= time + Ttl
                        /\ \A f \in Feature : entries'[d].flags[f] /\ ~allowed[d][f] =>
                              entries'[d].expires <= offSince[d][f] + LongestBudget + Ttl
      BY <1>1 DEF EntriesAreRecent, Frame
    <2>1. CASE d = c
      <3>1. entries'[c].flags = flags /\ entries'[c].expires = time + Ttl
        BY <1>1, <1>2 DEF GatewayInv, Types
      <3> QED BY <1>3, <1>4, <1>6, <2>1, <3>1
    <2>2. CASE d # c
      <3>1. entries'[d] = entries[d]
        BY <1>1, <2>2 DEF GatewayInv, Types
      <3> QED BY <3>1 DEF GatewayInv, EntriesAreRecent
    <2> QED BY <2>1, <2>2
  <1>11. OpenIsPooled'
    BY <1>1 DEF GatewayInv, OpenIsPooled
  <1> QED BY <1>7, <1>9, <1>10, <1>11 DEF GatewayInv

LEMMA FlagsUnreadStep ==
  ASSUME GatewayInv, NEW g \in Server, FlagsUnread(g)
  PROVE  GatewayInv'
  <1> DEFINE job == [serving[g] EXCEPT !.pc = "statement", !.flags = Nothing]
  <1>1. /\ serving[g].pc \in {"column", "answer"} /\ Frame /\ UNCHANGED <<memory, time>> /\ Doing(g, job)
        /\ allowance' = allowance \/ Consume("trouble")
    BY DEF FlagsUnread, Frame, tables
  <1>2. GoodJob(serving[g]) /\ serving[g] \in ServingTask
    BY <1>1, BusyIsGood
  <1>3. PICK p, q : p = serving[g] /\ q = job
    OBVIOUS
  <1>4. q \in ServingTask
    BY <1>2, <1>3 DEF ServingTask
  <1>5. /\ q.pc = "statement" /\ q.rows = p.rows /\ q.coverage = p.coverage /\ q.endpoint = p.endpoint
        /\ q.token = p.token /\ q.company = p.company /\ q.stale = p.stale
    BY <1>2, <1>3 DEF ServingTask
  <1>6. AskedInTime(q) /\ AnswerIsRecent(q) /\ RoutedHome(q)
    BY <1>5 DEF AskedInTime, AnswerIsRecent, RoutedHome, Asking, Routing
  <1>7. Vouched(q) /\ q.stale <= Ttl + LongestBudget
    BY <1>2, <1>3, <1>5 DEF GoodJob, Vouched
  <1>8. GoodJob(job)
    BY <1>3, <1>4, <1>6, <1>7 DEF GoodJob
  <1> HIDE DEF job
  <1> QED BY <1>1, <1>8, OneMoves, RestStays

-----------------------------------------------------------------------------
(***************************************************************************)
(* Statements.                                                             *)
(***************************************************************************)
LEMMA HomeType ==
  ASSUME GatewayInv, NEW c \in Tenant
  PROVE  HomeOf(c) \in Home
  BY DEF GatewayInv, Types, HomeOf, Home

LEMMA StartStatementStep ==
  ASSUME GatewayInv, NEW g \in Server, StartStatement(g)
  PROVE  GatewayInv'
  <1> DEFINE job == [serving[g] EXCEPT !.pc = "route", !.homes = {HomeOf(serving[g].company)}]
  <1>1. /\ serving[g].pc = "statement" /\ Frame /\ UNCHANGED <<memory, time, allowance>> /\ Doing(g, job)
    BY DEF StartStatement, Frame, tables
  <1>2. GoodJob(serving[g]) /\ serving[g] \in ServingTask /\ HomeOf(serving[g].company) \in Home
    BY <1>1, BusyIsGood, HomeType DEF ServingTask
  <1>3. /\ job \in ServingTask /\ job.pc = "route" /\ job.homes = {HomeOf(serving[g].company)}
        /\ job.company = serving[g].company /\ job.coverage = serving[g].coverage
        /\ job.token = serving[g].token /\ job.endpoint = serving[g].endpoint
        /\ job.rows = serving[g].rows /\ job.stale = serving[g].stale
    BY <1>2 DEF ServingTask, Routing
  <1>4. GoodJob(job)
    <2> HIDE DEF job
    <2> QED BY <1>2, <1>3
        DEF GoodJob, AskedInTime, AnswerIsRecent, RoutedHome, Vouched, Asking, Routing
  <1> HIDE DEF job
  <1> QED BY <1>1, <1>4, OneMoves, RestStays

LEMMA TenantDBNameStep ==
  ASSUME GatewayInv, NEW g \in Server, TenantDBName(g)
  PROVE  GatewayInv'
  <1> DEFINE job == [serving[g] EXCEPT !.pc = "pool", !.db = HomeOf(serving[g].company)]
  <1>1. /\ serving[g].pc = "route" /\ Frame /\ UNCHANGED <<memory, time>>
        /\ \/ Doing(g, job) /\ UNCHANGED allowance
           \/ Doing(g, Free) /\ Consume("trouble")
    BY DEF TenantDBName, Frame, tables
  <1>2. GoodJob(serving[g]) /\ serving[g] \in ServingTask /\ HomeOf(serving[g].company) \in Home
    BY <1>1, BusyIsGood, HomeType DEF ServingTask
  <1>3. /\ job \in ServingTask /\ job.pc = "pool" /\ job.db = HomeOf(serving[g].company)
        /\ job.homes = serving[g].homes
        /\ job.company = serving[g].company /\ job.coverage = serving[g].coverage
        /\ job.token = serving[g].token /\ job.endpoint = serving[g].endpoint
        /\ job.rows = serving[g].rows /\ job.stale = serving[g].stale
    BY <1>2 DEF ServingTask, Routing
  <1>4. GoodJob(job)
    <2> HIDE DEF job
    <2> QED BY <1>1, <1>2, <1>3
        DEF GoodJob, AskedInTime, AnswerIsRecent, RoutedHome, Vouched, Asking, Routing
  <1> HIDE DEF job
  <1> QED BY <1>1, <1>4, OneMoves, RestStays

\* The task after a step that moves the server only.
LEMMA MovedOn ==
  ASSUME GatewayInv, NEW g \in Server, serving[g].pc \in Routing \ {"route"},
         NEW pc \in {"open", "execute"}, pc = "open" => serving[g].db \in Database
  PROVE  GoodJob([serving[g] EXCEPT !.pc = pc])
  <1> DEFINE job == [serving[g] EXCEPT !.pc = pc]
  <1>1. GoodJob(serving[g]) /\ serving[g] \in ServingTask
    BY BusyIsGood DEF Routing
  <1>2. /\ job \in ServingTask /\ job.pc = pc /\ job.db = serving[g].db /\ job.homes = serving[g].homes
        /\ job.company = serving[g].company /\ job.coverage = serving[g].coverage
        /\ job.token = serving[g].token /\ job.endpoint = serving[g].endpoint
        /\ job.rows = serving[g].rows /\ job.stale = serving[g].stale
    BY <1>1 DEF ServingTask, Routing
  <1> HIDE DEF job
  <1>3. GoodJob(job)
    BY <1>1, <1>2 DEF GoodJob, AskedInTime, AnswerIsRecent, RoutedHome, Vouched, Asking, Routing
  <1> QED BY <1>3 DEF job

LEMMA PooledStep ==
  ASSUME GatewayInv, NEW g \in Server, Pooled(g)
  PROVE  GatewayInv'
  <1> DEFINE next == IF serving[g].db \in cached \union {Central} THEN "execute" ELSE "open"
  <1>1. /\ serving[g].pc = "pool" /\ Frame /\ UNCHANGED <<memory, time, allowance>>
        /\ Doing(g, [serving[g] EXCEPT !.pc = next])
    BY DEF Pooled, Goes, Frame, tables
  <1>2. next \in {"open", "execute"} /\ (next = "open" => serving[g].db \in Database)
    <2>1. GoodJob(serving[g]) /\ serving[g].homes \subseteq Home
      BY <1>1, BusyIsGood DEF ServingTask
    <2>2. serving[g].db \in Home
      BY <1>1, <2>1 DEF GoodJob, RoutedHome, Routing
    <2> QED BY <2>2 DEF Home
  <1> HIDE DEF next
  <1>3. GoodJob([serving[g] EXCEPT !.pc = next])
    BY <1>1, <1>2, MovedOn DEF Routing
  <1> QED BY <1>1, <1>3, OneMoves, RestStays

LEMMA OpenPooledStep ==
  ASSUME GatewayInv, NEW g \in Server, OpenPooled(g)
  PROVE  GatewayInv'
  <1> DEFINE d == serving[g].db
  <1>1. /\ serving[g].pc = "open" /\ Frame /\ UNCHANGED <<entries, time, allowance>>
        /\ Doing(g, [serving[g] EXCEPT !.pc = "execute"])
        /\ \/ d \in cached /\ UNCHANGED <<opened, cached>>
           \/ d \notin cached /\ OpenForDB(d)
    BY DEF OpenPooled, Goes, Frame, tables
  <1>2. d \in Database
    BY <1>1, BusyIsGood DEF GoodJob, RoutedHome
  <1>3. GoodJob([serving[g] EXCEPT !.pc = "execute"])
    BY <1>1, MovedOn DEF Routing
  <1>4. JobsAreGood' /\ DOMAIN serving' = Server
    BY <1>1, <1>3, OneMoves
  <1>5. OpenIsPooled' /\ opened' \in [Database -> Nat] /\ cached' \subseteq Database
    <2>1. opened \in [Database -> Nat] /\ cached \subseteq Database /\ OpenIsPooled
      BY DEF GatewayInv, Types
    <2>2. CASE d \in cached
      BY <1>1, <2>1, <2>2 DEF OpenIsPooled
    <2>3. CASE d \notin cached
      <3>1. opened' = [opened EXCEPT ![d] = @ + 1] /\ cached' = cached \union {d}
        BY <1>1, <2>3 DEF OpenForDB
      <3>2. opened[d] = 0
        BY <1>2, <2>1, <2>3 DEF OpenIsPooled
      <3> HIDE DEF d
      <3>3. \A e \in Database : opened'[e] = IF e \in cached' THEN 1 ELSE 0
        BY <1>2, <2>1, <3>1, <3>2 DEF OpenIsPooled
      <3> QED BY <1>2, <2>1, <3>1, <3>3 DEF OpenIsPooled
    <2> QED BY <2>2, <2>3
  <1>6. Types' /\ EntriesAreRecent'
    BY <1>1, <1>4, <1>5 DEF GatewayInv, Types, EntriesAreRecent, Frame
  <1> QED BY <1>4, <1>5, <1>6 DEF GatewayInv

LEMMA ExecuteStep ==
  ASSUME GatewayInv, NEW g \in Server, Execute(g)
  PROVE  GatewayInv'
  <1> DEFINE job == [serving[g] EXCEPT !.pc = "rows", !.rows = RowsIn(g)]
  <1>1. /\ serving[g].pc = "execute" /\ Frame /\ UNCHANGED <<memory, time, allowance>> /\ Doing(g, job)
    BY DEF Execute, Frame, tables
  <1>2. GoodJob(serving[g]) /\ serving[g] \in ServingTask /\ RowsIn(g) \subseteq serving[g].coverage
    BY <1>1, BusyIsGood DEF RowsIn
  <1>3. /\ job \in ServingTask /\ job.pc = "rows" /\ job.rows = RowsIn(g)
        /\ job.db = serving[g].db /\ job.homes = serving[g].homes
        /\ job.company = serving[g].company /\ job.coverage = serving[g].coverage
        /\ job.token = serving[g].token /\ job.endpoint = serving[g].endpoint
        /\ job.stale = serving[g].stale
    <2>1. RowsIn(g) \subseteq Tenant
      BY <1>2 DEF ServingTask
    <2> QED BY <1>2, <2>1 DEF ServingTask, Routing
  <1>4. GoodJob(job)
    <2> HIDE DEF job
    <2> QED BY <1>1, <1>2, <1>3
        DEF GoodJob, AskedInTime, AnswerIsRecent, RoutedHome, Vouched, Asking, Routing
  <1> HIDE DEF job
  <1> QED BY <1>1, <1>4, OneMoves, RestStays

LEMMA NextStatementStep ==
  ASSUME GatewayInv, NEW g \in Server, NextStatement(g)
  PROVE  GatewayInv'
  <1> DEFINE job == [serving[g] EXCEPT !.pc = "statement", !.left = @ - 1, !.db = Nothing,
                                       !.homes = {}, !.rows = {}]
  <1>1. /\ serving[g].pc = "rows" /\ Frame /\ UNCHANGED <<memory, time, allowance>>
        /\ Doing(g, IF serving[g].left = 1 THEN Free ELSE job)
    BY DEF NextStatement, Frame, tables
  <1>2. GoodJob(serving[g]) /\ serving[g] \in ServingTask
    BY <1>1, BusyIsGood
  <1>3. CASE serving[g].left = 1
    BY <1>1, <1>3, OneMoves, RestStays
  <1>4. CASE serving[g].left # 1
    <2>1. serving[g].left - 1 \in Nat \ {0}
      BY <1>2, <1>4 DEF ServingTask
    <2>2. /\ job \in ServingTask /\ job.pc = "statement" /\ job.rows = {}
          /\ job.company = serving[g].company /\ job.coverage = serving[g].coverage
          /\ job.token = serving[g].token /\ job.endpoint = serving[g].endpoint
          /\ job.stale = serving[g].stale
      BY <1>2, <2>1 DEF ServingTask
    <2>3. GoodJob(job)
      <3> HIDE DEF job
      <3> QED BY <1>2, <2>2
          DEF GoodJob, AskedInTime, AnswerIsRecent, RoutedHome, Vouched, Asking, Routing
    <2>4. Doing(g, job)
      BY <1>1, <1>4
    <2> HIDE DEF job
    <2> QED BY <1>1, <2>3, <2>4, OneMoves, RestStays
  <1> QED BY <1>3, <1>4

LEMMA StatementFailsStep ==
  ASSUME GatewayInv, NEW g \in Server, StatementFails(g)
  PROVE  GatewayInv'
  <1>1. /\ Frame /\ UNCHANGED <<memory, time>> /\ Doing(g, Free)
        /\ allowance' = allowance \/ Consume("trouble")
    BY DEF StatementFails, Frame, tables
  <1> QED BY <1>1, OneMoves, RestStays

-----------------------------------------------------------------------------
(***************************************************************************)
(* The main application, and time.                                         *)
(***************************************************************************)
\* What a server is doing when a company gets a new home.
LEMMA MovedJob ==
  ASSUME UNCHANGED <<allowed, offSince, time, mode>>, NEW c \in Tenant, NEW home \in Home,
         HomeOf(c)' = home, \A e \in Tenant \ {c} : HomeOf(e)' = HomeOf(e),
         NEW was, GoodJob(was), NEW job,
         \/ job = was /\ ~(job.company = c /\ job.homes # {})
         \/ was.company = c /\ job = [was EXCEPT !.homes = @ \union {home}]
  PROVE  GoodJob(job)'
  <1>1. was \in ServingTask
    BY DEF GoodJob
  <1>2. CASE job = was /\ ~(job.company = c /\ job.homes # {})
    <2>1. job.pc \in Routing => job.homes # {} /\ job.company # c
      BY <1>2 DEF GoodJob, RoutedHome
    <2>2. job.pc \in Routing => HomeOf(job.company)' \in job.homes
      BY <1>1, <1>2, <2>1 DEF GoodJob, RoutedHome, ServingTask
    <2>3. RoutedHome(job)'
      BY <1>2, <2>2 DEF GoodJob, RoutedHome, HomeOf
    <2> QED BY <1>2, <2>3 DEF GoodJob, AskedInTime, AnswerIsRecent, Vouched, Can
  <1>3. CASE was.company = c /\ job = [was EXCEPT !.homes = @ \union {home}]
    <2>1. /\ job \in ServingTask /\ job.homes = was.homes \union {home}
          /\ job.pc = was.pc /\ job.db = was.db
          /\ job.company = was.company /\ job.coverage = was.coverage
          /\ job.token = was.token /\ job.endpoint = was.endpoint
          /\ job.rows = was.rows /\ job.stale = was.stale
          /\ job.deadline = was.deadline /\ job.flags = was.flags
      BY <1>1, <1>3 DEF ServingTask
    <2>2. AskedInTime(job)' /\ AnswerIsRecent(job)' /\ Vouched(job)'
      BY <2>1 DEF GoodJob, AskedInTime, AnswerIsRecent, Vouched, Can
    <2>3. HomeOf(job.company)' \in job.homes
      BY <1>3, <2>1 DEF HomeOf
    <2>4. RoutedHome(job)'
      BY <2>1, <2>3 DEF GoodJob, RoutedHome, HomeOf
    <2> QED BY <2>1, <2>2, <2>4 DEF GoodJob
  <1> QED BY <1>2, <1>3

LEMMA MoveTenantStep ==
  ASSUME GatewayInv, NEW c \in Tenant, MoveTenant(c)
  PROVE  GatewayInv'
  <1>1. /\ Consume("move") /\ UNCHANGED <<allowed, offSince, memory, time, mode>>
        /\ routed' \in [Tenant -> Database \union {Nothing}]
        /\ \A e \in Tenant \ {c} : routed'[e] = routed[e]
    BY DEF MoveTenant, GatewayInv, Types
  <1>2. serving' = [g \in Server |->
          IF serving[g] # Free /\ serving[g].company = c /\ serving[g].homes # {}
          THEN [serving[g] EXCEPT !.homes = @ \union {HomeOf(c)'}] ELSE serving[g]]
    BY DEF MoveTenant
  <1>3. HomeOf(c)' \in Home /\ \A e \in Tenant \ {c} : HomeOf(e)' = HomeOf(e)
    BY <1>1 DEF HomeOf, Home
  <1>4. ASSUME NEW g \in Server, serving[g] # Free PROVE GoodJob(serving[g])'
    <2>1. GoodJob(serving[g])
      BY <1>4 DEF GatewayInv, JobsAreGood
    <2>2. PICK job : job = serving'[g]
      OBVIOUS
    <2>3. PICK home : home = HomeOf(c)'
      OBVIOUS
    <2>4. \/ job = serving[g] /\ ~(job.company = c /\ job.homes # {})
          \/ serving[g].company = c /\ job = [serving[g] EXCEPT !.homes = @ \union {home}]
      BY <1>2, <1>4, <2>2, <2>3
    <2>5. GoodJob(job)'
      BY <1>1, <1>3, <2>1, <2>3, <2>4, MovedJob
    <2> QED BY <2>2, <2>5
        DEF GoodJob, AskedInTime, AnswerIsRecent, RoutedHome, Vouched, HomeOf, Can
  <1>5. JobsAreGood' /\ DOMAIN serving' = Server
    <2>1. \A g \in Server : serving[g] = Free => serving'[g] = Free
      BY <1>2
    <2> QED BY <1>2, <1>4, <2>1 DEF JobsAreGood
  <1>6. Types'
    <2>1. /\ allowance' \in [{"request", "job", "move", "toggle", "trouble", "tick"} -> Nat]
          /\ allowance'.tick <= allowance.tick
      BY <1>1, ConsumeType DEF GatewayInv
    <2>2. time + allowance'.tick < Horizon
      BY <2>1, GatewayAssumption DEF GatewayInv, Types
    <2> QED BY <1>1, <1>5, <2>1, <2>2 DEF GatewayInv, Types, memory
  <1>7. EntriesAreRecent' /\ OpenIsPooled'
    BY <1>1 DEF GatewayInv, EntriesAreRecent, OpenIsPooled, memory
  <1> QED BY <1>5, <1>6, <1>7 DEF GatewayInv

LEMMA ToggleFeatureStep ==
  ASSUME GatewayInv, NEW c \in Tenant, NEW f \in Feature, ToggleFeature(c, f)
  PROVE  GatewayInv'
  <1>1. /\ Consume("toggle") /\ UNCHANGED <<routed, memory, time, serving, mode>>
        /\ allowed' = [allowed EXCEPT ![c][f] = ~@]
        /\ offSince' = [offSince EXCEPT ![c][f] = IF allowed[c][f] THEN time ELSE Horizon]
    BY DEF ToggleFeature
  <1>2. time \in Nat /\ time <= Horizon /\ Horizon \in Nat /\ LongestBudget \in Nat /\ Ttl \in Nat
    BY GatewayAssumption, BudgetType DEF GatewayInv, Types
  <1>3. allowed' \in [Tenant -> Flags]
    BY <1>1 DEF GatewayInv, Types, Flags
  <1>4. offSince' \in [Tenant -> [Feature -> 0..Horizon]]
    BY <1>1, <1>2 DEF GatewayInv, Types
  \* What is off now was off before, or went off now.
  <1>5. \A d \in Tenant, x \in Feature : ~allowed'[d][x] =>
           \/ ~allowed[d][x] /\ offSince'[d][x] = offSince[d][x]
           \/ offSince'[d][x] = time
    BY <1>1 DEF GatewayInv, Types, Flags
  <1>6. ASSUME NEW g \in Server PROVE serving[g] = Free \/ GoodJob(serving[g])'
    <2> SUFFICES ASSUME serving[g] # Free PROVE GoodJob(serving[g])'
      OBVIOUS
    <2>1. GoodJob(serving[g]) /\ serving[g] \in ServingTask /\ serving' = serving
      BY <1>1 DEF GatewayInv, JobsAreGood, GoodJob
    <2>2. AnswerIsRecent(serving[g])'
      <3> SUFFICES ASSUME serving[g].pc = "answer", NEW x \in Feature, serving[g].flags[x],
                          ~allowed'[serving[g].company][x]
                   PROVE  serving[g].deadline <= offSince'[serving[g].company][x] + LongestBudget
        BY <2>1 DEF GoodJob, AnswerIsRecent
      <3>1. serving[g].company \in Tenant /\ serving[g].deadline <= time + LongestBudget
        BY <2>1 DEF GoodJob, AskedInTime, Asking, ServingTask
      <3>2. ~allowed[serving[g].company][x] =>
               serving[g].deadline <= offSince[serving[g].company][x] + LongestBudget
        BY <2>1 DEF GoodJob, AnswerIsRecent
      <3> QED BY <1>5, <3>1, <3>2
    <2> QED BY <1>1, <2>1, <2>2
        DEF GoodJob, AskedInTime, RoutedHome, Vouched, Can, HomeOf
  <1>7. JobsAreGood' /\ DOMAIN serving' = Server
    BY <1>1, <1>6 DEF GatewayInv, Types, JobsAreGood
  <1>8. EntriesAreRecent'
    <2> SUFFICES ASSUME NEW d \in Tenant, entries[d].flags # Nothing, NEW x \in Feature,
                        entries[d].flags[x], ~allowed'[d][x]
                 PROVE  entries[d].expires <= offSince'[d][x] + LongestBudget + Ttl
      BY <1>1 DEF GatewayInv, EntriesAreRecent, memory
    <2>1. entries[d].expires <= time + Ttl /\ entries[d].expires \in Nat
      BY DEF GatewayInv, EntriesAreRecent, Types
    <2>2. ~allowed[d][x] => entries[d].expires <= offSince[d][x] + LongestBudget + Ttl
      BY DEF GatewayInv, EntriesAreRecent
    <2> QED BY <1>2, <1>5, <2>1, <2>2
  <1>9. Types'
    <2>1. /\ allowance' \in [{"request", "job", "move", "toggle", "trouble", "tick"} -> Nat]
          /\ allowance'.tick <= allowance.tick
      BY <1>1, ConsumeType DEF GatewayInv
    <2>2. time + allowance'.tick < Horizon
      BY <1>2, <2>1 DEF GatewayInv, Types
    <2> QED BY <1>1, <1>3, <1>4, <1>7, <2>1, <2>2 DEF GatewayInv, Types, memory
  <1>10. OpenIsPooled'
    BY <1>1 DEF GatewayInv, OpenIsPooled, memory
  <1> QED BY <1>7, <1>8, <1>9, <1>10 DEF GatewayInv

LEMMA TickClockStep ==
  ASSUME GatewayInv, TickClock
  PROVE  GatewayInv'
  <1>1. /\ Consume("tick") /\ time' = time + 1
        /\ UNCHANGED <<routed, allowed, offSince, opened, cached, entries, serving, mode>>
    BY DEF TickClock, tables, memory
  <1>2. time \in Nat /\ LongestBudget \in Nat /\ Ttl \in Nat
    BY GatewayAssumption, BudgetType DEF GatewayInv, Types
  <1>3. ASSUME NEW g \in Server, serving[g] # Free PROVE GoodJob(serving[g])'
    <2>1. GoodJob(serving[g]) /\ serving[g] \in ServingTask
      BY <1>3 DEF GatewayInv, JobsAreGood, GoodJob
    <2>2. AskedInTime(serving[g])'
      BY <1>1, <1>2, <2>1 DEF GoodJob, AskedInTime, ServingTask
    <2> QED BY <1>1, <2>1, <2>2 DEF GoodJob, AnswerIsRecent, RoutedHome, Vouched, Can, HomeOf
  <1>4. JobsAreGood'
    BY <1>1, <1>3 DEF JobsAreGood
  <1>5. Types'
    <2>1. /\ allowance' \in [{"request", "job", "move", "toggle", "trouble", "tick"} -> Nat]
          /\ allowance'.tick = allowance.tick - 1
      BY <1>1, ConsumeType DEF GatewayInv
    <2>2. time' + allowance'.tick < Horizon /\ time' \in Nat
      BY <1>1, <1>2, <2>1, GatewayAssumption DEF GatewayInv, Types
    <2> QED BY <1>1, <2>1, <2>2 DEF GatewayInv, Types
  <1>6. EntriesAreRecent'
    <2>1. \A c \in Tenant : entries[c].flags # Nothing => entries[c].expires <= time' + Ttl
      BY <1>1, <1>2 DEF GatewayInv, EntriesAreRecent, Types
    <2> QED BY <1>1, <2>1 DEF GatewayInv, EntriesAreRecent
  <1>7. OpenIsPooled'
    BY <1>1 DEF GatewayInv, OpenIsPooled
  <1> QED BY <1>4, <1>5, <1>6, <1>7 DEF GatewayInv

-----------------------------------------------------------------------------
(***************************************************************************)
(* The theorems.                                                           *)
(***************************************************************************)
LEMMA GatewayInvInit == GatewayInit => GatewayInv
  <1> SUFFICES ASSUME GatewayInit PROVE GatewayInv
    OBVIOUS
  <1>1. JobsAreGood /\ DOMAIN serving = Server
    BY DEF GatewayInit, JobsAreGood
  <1>2. EntriesAreRecent
    BY DEF GatewayInit, EntriesAreRecent
  <1>3. OpenIsPooled
    BY DEF GatewayInit, OpenIsPooled
  <1>4. /\ allowance \in [{"request", "job", "move", "toggle", "trouble", "tick"} -> Nat]
        /\ time + allowance.tick < Horizon /\ time \in Nat /\ mode \in GatewayPlans
    BY GatewayAssumption DEF GatewayInit
  <1>5. /\ routed \in [Tenant -> Database \union {Nothing}] /\ allowed \in [Tenant -> Flags]
        /\ opened \in [Database -> Nat] /\ cached \subseteq Database
    BY DEF GatewayInit, Flags
  <1>6. offSince \in [Tenant -> [Feature -> 0..Horizon]]
    BY GatewayAssumption DEF GatewayInit
  <1>7. entries \in [Tenant -> [flags: Flags \union {Nothing}, expires: Nat]]
    BY DEF GatewayInit
  <1> QED BY <1>1, <1>2, <1>3, <1>4, <1>5, <1>6, <1>7 DEF GatewayInv, Types

LEMMA GatewayInvNext == GatewayInv /\ [GatewayNext]_gatewayVars => GatewayInv'
  <1> SUFFICES ASSUME GatewayInv, [GatewayNext]_gatewayVars PROVE GatewayInv'
    OBVIOUS
  <1>1. ASSUME NEW g \in Server, GatewayStep(g) PROVE GatewayInv'
    BY <1>1, ServeRequestStep, JobStep, LookUpFlagsStep, ReadEntitlementsStep, StoreFlagsStep,
       FlagsUnreadStep, StartStatementStep, TenantDBNameStep, PooledStep, OpenPooledStep,
       ExecuteStep, NextStatementStep, StatementFailsStep
    DEF GatewayStep
  <1>2. CASE UNCHANGED gatewayVars
    <2>1. Frame /\ UNCHANGED <<memory, time, allowance, serving>>
      BY <1>2 DEF gatewayVars, Frame, memory
    <2>2. JobsAreGood' /\ DOMAIN serving' = Server
      BY <2>1
      DEF GatewayInv, Types, JobsAreGood, GoodJob, AskedInTime, AnswerIsRecent, RoutedHome, Vouched,
          HomeOf, Can, Frame
    <2> QED BY <2>1, <2>2, RestStays
  <1> QED BY <1>1, <1>2, MoveTenantStep, ToggleFeatureStep, TickClockStep DEF GatewayNext

LEMMA GatewayInvAlways == GatewaySpec => []GatewayInv
  BY GatewayInvInit, GatewayInvNext, PTL DEF GatewaySpec

(***************************************************************************)
(* The gateway's variables keep their types, and the clock its bound.      *)
(***************************************************************************)
THEOREM GatewayTypeCorrect == GatewaySpec => []GatewayTypeOK
  <1>1. GatewayInv => GatewayTypeOK
    <2> SUFFICES ASSUME GatewayInv PROVE GatewayTypeOK
      OBVIOUS
    <2>1. \A g \in Server : serving[g] # Free => serving[g].company \in Tenant
      BY DEF GatewayInv, JobsAreGood, GoodJob, ServingTask
    <2>2. time \in 0..Horizon
      BY GatewayAssumption DEF GatewayInv, Types
    <2>3. \A c \in Tenant : entries[c].flags \in [Feature -> BOOLEAN] \union {Nothing}
      BY DEF GatewayInv, Types, Flags
    <2> QED BY <2>1, <2>2, <2>3 DEF GatewayInv, Types, Flags, GatewayTypeOK
  <1> QED BY GatewayInvAlways, <1>1, PTL

(***************************************************************************)
(* However many requests miss a database in the pool at the same time, it  *)
(* is opened once: no handle is replaced in the pool and left open.        *)
(***************************************************************************)
THEOREM DatabaseOpenedOnce == GatewaySpec => []OneHandle
  <1>1. GatewayInv => OneHandle
    BY DEF GatewayInv, OpenIsPooled, OneHandle
  <1> QED BY GatewayInvAlways, <1>1, PTL

(***************************************************************************)
(* Rows come from a database their company was in while the statement ran, *)
(* are those of companies the token covers, and are shown for a token of   *)
(* the main application that carries the endpoint's permission, whatever   *)
(* is moved or cannot be read meanwhile.                                   *)
(***************************************************************************)
THEOREM RequestsSeeOwnRows == GatewaySpec => []RowsAreOwn
  <1>1. GatewayInv => RowsAreOwn
    <2> SUFFICES ASSUME GatewayInv, NEW g \in Server, serving[g].pc = "rows"
                 PROVE  LET job == serving[g] IN
                        /\ job.db \in job.homes
                        /\ mode.secured /\ job.endpoint # Nothing =>
                              /\ job.token # Nothing /\ job.token.sound
                              /\ job.token.cid = job.company
                              /\ job.rows \subseteq job.token.cov \union {job.company}
                              /\ Can(job.token.perms, Register[job.endpoint].perm)
      BY DEF RowsAreOwn
    <2>1. GoodJob(serving[g])
      BY BusyIsGood
    <2> QED BY <2>1 DEF GoodJob, RoutedHome, Vouched, Routing
  <1> QED BY GatewayInvAlways, <1>1, PTL

(***************************************************************************)
(* A request finds a feature on at most the lifetime of the flags and the  *)
(* longest budget of a request after it was turned off.                    *)
(***************************************************************************)
THEOREM FlagsAreBoundedlyStale == GatewaySpec => []StaleAtMost
  <1>1. GatewayInv => StaleAtMost
    BY DEF GatewayInv, JobsAreGood, GoodJob, StaleAtMost
  <1> QED BY GatewayInvAlways, <1>1, PTL

-----------------------------------------------------------------------------
(***************************************************************************)
(* The webhook: the inductive invariant.                                   *)
(***************************************************************************)
RequestFields == {"pc", "hook", "at", "keys", "lookups", "account", "clean", "files", "row", "processed",
                  "failed", "unknown", "new"}

SameMessage(x, y) == x.event = y.event /\ CompanyOfAccount(x.account) = CompanyOfAccount(y.account)

\* A request that stored a message counts it when it is done with it.
Tallied(job) ==
    job.pc # "waiting" =>
        /\ RequestFields \subseteq DOMAIN job
        /\ job.new \in BOOLEAN /\ job.processed \in BOOLEAN
        /\ job.new => job.pc # "signature" /\ (job.processed \/ job.pc \in {"promote", "backfill", "sender"})

\* No file a request still has to hand over was handed over, and no other request hands it over.
Unhanded(job) ==
    job.pc = "promote" =>
        /\ job.row \in DOMAIN stored
        /\ \A k \in DOMAIN media : media[k].row = job.row => media[k].file \notin job.files

TablesTrue ==
    /\ stored \in Seq({stored[k] : k \in DOMAIN stored})
    /\ media \in Seq({media[k] : k \in DOMAIN media})
    /\ \A j, k \in DOMAIN stored : SameMessage(stored[j], stored[k]) => j = k
    /\ \A k \in DOMAIN media : media[k].row \in DOMAIN stored
    /\ \A j, k \in DOMAIN media : media[j] = media[k] => j = k
    /\ \A k \in DOMAIN media : media[k] = [row |-> media[k].row, file |-> media[k].file]

RoutingInv ==
    /\ DOMAIN handling = Receiver
    /\ \A s \in Receiver : Tallied(handling[s]) /\ Unhanded(handling[s])
    /\ \A s, t \in Receiver :
          handling[s].pc = "promote" /\ handling[t].pc = "promote" /\ handling[s].row = handling[t].row => s = t
    /\ TablesTrue
    /\ ErrorStoresNothing

-----------------------------------------------------------------------------
(***************************************************************************)
(* The steps of a request.                                                 *)
(***************************************************************************)
\* What the tables and the other requests do not depend on.
Aside(n) == Tallied(n) /\ n.pc # "promote"

LEMMA RequestMoves ==
  ASSUME RoutingInv, NEW s \in Receiver, NEW n, Aside(n), handling' = [handling EXCEPT ![s] = n],
         UNCHANGED <<stored, media, answers>>
  PROVE  RoutingInv'
  BY DEF RoutingInv, Aside, Tallied, Unhanded, TablesTrue, SameMessage, CompanyOfAccount, ErrorStoresNothing

LEMMA TurnIs ==
  ASSUME NEW job, RequestFields \subseteq DOMAIN job, NEW n, n = Turn(job)
  PROVE  /\ DOMAIN n = DOMAIN job /\ n.pc \in {"answer", "verify", "resolve"}
         /\ n.new = job.new /\ n.processed = job.processed
  <1>1. PICK later : later = {k \in DOMAIN job.hook.events : job.at < k /\ Kept(job.hook.events[k])}
    OBVIOUS
  <1>2. CASE later = {}
    <2>1. n = [job EXCEPT !.pc = "answer"]
      BY <1>1, <1>2 DEF Turn
    <2> QED BY <2>1 DEF RequestFields
  <1>3. CASE later # {}
    <2>1. PICK next : next = CHOOSE k \in later : \A j \in later : k <= j
      OBVIOUS
    <2>2. PICK e : e = job.hook.events[next]
      OBVIOUS
    <2>3. PICK keys, lookups, start :
             keys = RoutingKeysFrom(e) /\ lookups = Lookups(e) /\ start = Start(e)
      OBVIOUS
    <2>4. start \in {"verify", "resolve"}
      BY <2>3 DEF Start
    <2>5. n = [job EXCEPT !.at = next, !.pc = start, !.keys = keys,
                          !.lookups = lookups, !.clean = TRUE, !.files = {}]
      BY <1>1, <1>3, <2>1, <2>2, <2>3 DEF Turn
    <2> QED BY <2>4, <2>5 DEF RequestFields
  <1> QED BY <1>2, <1>3

LEMMA ProcessedIs ==
  ASSUME NEW job, RequestFields \subseteq DOMAIN job, job.new \in BOOLEAN, NEW n, n = Processed(job)
  PROVE  Aside(n) /\ n.pc # "waiting"
  <1>1. PICK over : over = [job EXCEPT !.processed = TRUE, !.unknown = FALSE]
    OBVIOUS
  <1>2. RequestFields \subseteq DOMAIN over /\ over.new = job.new /\ over.processed = TRUE
    BY <1>1 DEF RequestFields
  <1>3. n = Turn(over)
    BY <1>1 DEF Processed
  <1>4. /\ DOMAIN n = DOMAIN over /\ n.pc \in {"answer", "verify", "resolve"}
        /\ n.new = over.new /\ n.processed = over.processed
    BY <1>2, <1>3, TurnIs
  <1> QED BY <1>2, <1>4 DEF Aside, Tallied

LEMMA FailedIs ==
  ASSUME NEW job, Tallied(job), job.pc \notin {"waiting", "promote", "backfill", "sender"},
         NEW notFound, NEW n, n = EventFailed(job, notFound)
  PROVE  Aside(n) /\ n.pc # "waiting"
  <1>1. PICK over : over = [job EXCEPT !.failed = TRUE, !.unknown = job.unknown /\ notFound]
    OBVIOUS
  <1>2. RequestFields \subseteq DOMAIN over /\ over.new = job.new /\ over.processed = job.processed
    BY <1>1 DEF RequestFields, Tallied
  <1>3. n = Turn(over)
    BY <1>1 DEF EventFailed
  <1>4. /\ DOMAIN n = DOMAIN over /\ n.pc \in {"answer", "verify", "resolve"}
        /\ n.new = over.new /\ n.processed = over.processed
    BY <1>2, <1>3, TurnIs
  <1> QED BY <1>2, <1>4 DEF Aside, Tallied

LEMMA AnswerKeeps ==
  ASSUME RoutingInv, NEW s \in Receiver, NEW status, Answer(s, status), status # 200 => ~handling[s].new,
         UNCHANGED <<stored, media>>
  PROVE  RoutingInv'
  <1>1. PICK new : new = [hook |-> handling[s].hook, status |-> status, new |-> handling[s].new]
    OBVIOUS
  <1>2. /\ answers' = answers \union {new} /\ new.status = status /\ new.new = handling[s].new
        /\ handling' = [handling EXCEPT ![s] = Waiting]
    BY <1>1 DEF Answer, Handle
  <1>3. ErrorStoresNothing'
    BY <1>2 DEF RoutingInv, ErrorStoresNothing
  <1>4. Waiting.pc = "waiting"
    BY DEF Waiting
  <1> QED BY <1>2, <1>3, <1>4 DEF RoutingInv, Tallied, Unhanded, TablesTrue, SameMessage, CompanyOfAccount

LEMMA ReceiveKeeps ==
  ASSUME RoutingInv, NEW s \in Receiver, NEW hook \in Hook, Receive(s, hook)
  PROVE  RoutingInv'
  <1>1. PICK a : a = CHOOSE b \in Account : TRUE
    OBVIOUS
  <1>2. PICK n :
           n = [pc |-> "signature", hook |-> hook, at |-> 0, keys |-> {}, lookups |-> {}, account |-> a,
                clean |-> TRUE, files |-> {}, row |-> 0, processed |-> FALSE, failed |-> FALSE,
                unknown |-> TRUE, new |-> FALSE]
    OBVIOUS
  <1>3. Aside(n)
    BY <1>2 DEF Aside, Tallied, RequestFields
  <1>4. handling' = [handling EXCEPT ![s] = n] /\ UNCHANGED <<stored, media, answers>>
    BY <1>1, <1>2 DEF Receive, Handle
  <1> QED BY <1>3, <1>4, RequestMoves

LEMMA CheckSignatureKeeps ==
  ASSUME RoutingInv, NEW s \in Receiver, CheckSignature(s)
  PROVE  RoutingInv'
  <1>1. PICK good : Parse(s, good)
    BY DEF CheckSignature
  <1>2. PICK p : p = handling[s]
    OBVIOUS
  <1>3. p.pc = "signature" /\ Tallied(p) /\ UNCHANGED <<stored, media>>
    BY <1>2 DEF CheckSignature, Stands, RoutingInv
  <1>4. p.new = FALSE
    BY <1>3 DEF Tallied
  <1>5. CASE \E status : Answer(s, status)
    BY <1>2, <1>3, <1>4, <1>5, AnswerKeeps
  <1>6. CASE handling' = [handling EXCEPT ![s] = Turn(p)] /\ UNCHANGED answers
    <2>1. PICK n : n = Turn(p)
      OBVIOUS
    <2>2. /\ DOMAIN n = DOMAIN p /\ n.pc \in {"answer", "verify", "resolve"}
          /\ n.new = p.new /\ n.processed = p.processed
      BY <1>3, <2>1, TurnIs DEF Tallied
    <2>3. Aside(n)
      BY <1>3, <1>4, <2>2 DEF Aside, Tallied
    <2> QED BY <1>3, <1>6, <2>1, <2>3, RequestMoves
  <1> QED BY <1>1, <1>2, <1>5, <1>6 DEF Parse, Handle

\* Between two steps a request may learn that the accounts changed, and nothing else.
LEMMA MuddledIs ==
  ASSUME NEW job, Tallied(job), NEW n, n = Muddled(job)
  PROVE  /\ Tallied(n) /\ n.pc = job.pc
         /\ n.pc # "waiting" => n.files = job.files /\ n.row = job.row
  <1>1. CASE job.pc \in {"resolve", "store"}
    <2>1. n = [job EXCEPT !.clean = FALSE]
      BY <1>1 DEF Muddled
    <2> QED BY <1>1, <2>1 DEF Tallied, RequestFields
  <1>2. CASE job.pc \notin {"resolve", "store"}
    BY <1>2 DEF Muddled
  <1> QED BY <1>1, <1>2

LEMMA OthersMuddled ==
  ASSUME RoutingInv, NEW t \in Receiver, handling'[t] = Muddled(handling[t]), UNCHANGED <<stored, media>>
  PROVE  /\ Tallied(handling'[t]) /\ handling'[t].pc = handling[t].pc
         /\ Unhanded(handling[t])'
         /\ handling'[t].pc = "promote" => handling'[t].row = handling[t].row
  <1>1. PICK p, n : p = handling[t] /\ n = Muddled(p)
    OBVIOUS
  <1>2. Tallied(p) /\ Unhanded(p)
    BY <1>1 DEF RoutingInv
  <1>3. Tallied(n) /\ n.pc = p.pc /\ (n.pc # "waiting" => n.files = p.files /\ n.row = p.row)
    BY <1>1, <1>2, MuddledIs
  <1> QED BY <1>1, <1>2, <1>3 DEF Unhanded

LEMMA MarkVerifiedKeeps ==
  ASSUME RoutingInv, NEW s \in Receiver, MarkVerified(s)
  PROVE  RoutingInv'
  <1>1. PICK p : p = handling[s] /\ p.pc = "verify" /\ Tallied(p)
    BY DEF MarkVerified, Stands, RoutingInv
  <1>2. UNCHANGED <<stored, media, answers>>
    BY DEF MarkVerified
  <1>3. CASE handling' = [t \in Receiver |->
                IF t = s THEN [p EXCEPT !.pc = "readback"] ELSE Muddled(handling[t])]
    <2>1. PICK n : n = [p EXCEPT !.pc = "readback"]
      OBVIOUS
    <2>2. Aside(n)
      BY <1>1, <2>1 DEF Aside, Tallied, RequestFields
    <2>3. handling' = [t \in Receiver |-> IF t = s THEN n ELSE Muddled(handling[t])]
      BY <1>3, <2>1
    <2>4. \A t \in Receiver \ {s} :
             /\ Tallied(handling'[t]) /\ handling'[t].pc = handling[t].pc /\ Unhanded(handling[t])'
             /\ handling'[t].pc = "promote" => handling'[t].row = handling[t].row
      BY <1>2, <2>3, OthersMuddled
    <2>5. handling'[s] = n /\ DOMAIN handling' = Receiver
      BY <2>3
    <2>6. Tallied(handling'[s]) /\ handling'[s].pc # "promote" /\ Unhanded(handling[s])'
      BY <2>2, <2>5 DEF Aside, Unhanded
    <2> QED BY <1>2, <2>4, <2>5, <2>6 DEF RoutingInv, TablesTrue, SameMessage, CompanyOfAccount, ErrorStoresNothing
  <1>4. CASE handling' = [handling EXCEPT ![s] = [p EXCEPT !.pc = "confirm"]]
    <2>1. PICK n : n = [p EXCEPT !.pc = "confirm"]
      OBVIOUS
    <2>2. Aside(n)
      BY <1>1, <2>1 DEF Aside, Tallied, RequestFields
    <2> QED BY <1>2, <1>4, <2>1, <2>2, RequestMoves
  <1> QED BY <1>1, <1>3, <1>4 DEF MarkVerified, Handle

LEMMA ReadBackKeeps ==
  ASSUME RoutingInv, NEW s \in Receiver, ReadBack(s)
  PROVE  RoutingInv'
  <1>1. PICK p : p = handling[s] /\ p.pc = "readback" /\ Tallied(p)
    BY DEF ReadBack, Stands, RoutingInv
  <1>2. PICK n : /\ handling' = [handling EXCEPT ![s] = n]
                 /\ n = Processed(p) \/ n = [p EXCEPT !.pc = "confirm"]
    BY <1>1 DEF ReadBack, Handle
  <1>3. CASE n = Processed(p)
    BY <1>1, <1>2, <1>3, ProcessedIs, RequestMoves DEF ReadBack, Tallied
  <1>4. CASE n = [p EXCEPT !.pc = "confirm"]
    <2>1. Aside(n)
      BY <1>1, <1>4 DEF Aside, Tallied, RequestFields
    <2> QED BY <1>2, <2>1, RequestMoves DEF ReadBack
  <1> QED BY <1>2, <1>3, <1>4

LEMMA StoreForwardConfirmKeeps ==
  ASSUME RoutingInv, NEW s \in Receiver, StoreForwardConfirm(s)
  PROVE  RoutingInv'
  <1>1. PICK p : p = handling[s] /\ p.pc = "confirm" /\ Tallied(p)
    BY DEF StoreForwardConfirm, Stands, RoutingInv
  <1>2. PICK n : /\ handling' = [handling EXCEPT ![s] = n]
                 /\ \/ n = Processed(p) \/ n = [p EXCEPT !.pc = "resolve"]
                    \/ \E k : n = [p EXCEPT !.keys = p.keys \ {k}]
    BY <1>1 DEF StoreForwardConfirm, Handle
  <1>3. UNCHANGED <<stored, media, answers>>
    BY DEF StoreForwardConfirm
  <1>4. CASE n = Processed(p)
    BY <1>1, <1>2, <1>3, <1>4, ProcessedIs, RequestMoves DEF Tallied
  <1>5. CASE n = [p EXCEPT !.pc = "resolve"]
    <2>1. Aside(n)
      BY <1>1, <1>5 DEF Aside, Tallied, RequestFields
    <2> QED BY <1>2, <1>3, <2>1, RequestMoves
  <1>6. CASE \E k : n = [p EXCEPT !.keys = p.keys \ {k}]
    <2>1. Aside(n)
      BY <1>1, <1>6 DEF Aside, Tallied, RequestFields
    <2> QED BY <1>2, <1>3, <2>1, RequestMoves
  <1> QED BY <1>2, <1>4, <1>5, <1>6

LEMMA ResolveAccountKeeps ==
  ASSUME RoutingInv, NEW s \in Receiver, ResolveAccount(s)
  PROVE  RoutingInv'
  <1>1. PICK p : p = handling[s] /\ p.pc = "resolve" /\ Tallied(p)
    BY DEF ResolveAccount, Stands, RoutingInv
  <1>2. PICK unclear : unclear = [p EXCEPT !.clean = FALSE]
    OBVIOUS
  <1>3. Tallied(unclear) /\ unclear.pc = "resolve"
    BY <1>1, <1>2 DEF Tallied, RequestFields
  <1>4. PICK n : /\ handling' = [handling EXCEPT ![s] = n]
                 /\ \/ \E a \in Account : n = [p EXCEPT !.pc = "store", !.account = a]
                    \/ n = Processed(p)
                    \/ \E b : n = EventFailed(p, b)
                    \/ n = EventFailed(unclear, TRUE)
                    \/ \E l : n = [p EXCEPT !.lookups = p.lookups \ {l}]
                    \/ \E l : n = [unclear EXCEPT !.lookups = unclear.lookups \ {l}]
    <2>1. \A l : \A a \in Found(EventOf(s), l) : a \in Account
      BY DEF Found, ByRoutingKey, ByAlias, ByChannelAndExternalID
    <2>2. PICK l : \/ \E a \in Found(EventOf(s), l) : Handle(s, Resolved(s, a))
                   \/ Handle(s, NextLookup(p, l))
                   \/ Handle(s, EventFailed(p, FALSE))
                   \/ Handle(s, NextLookup(unclear, l))
      BY <1>1, <1>2 DEF ResolveAccount
    <2>3. CASE \E a \in Found(EventOf(s), l) : Handle(s, Resolved(s, a))
      BY <1>1, <2>1, <2>3 DEF Handle, Resolved
    <2>4. CASE Handle(s, NextLookup(p, l))
      BY <2>4 DEF Handle, NextLookup
    <2>5. CASE Handle(s, EventFailed(p, FALSE))
      BY <2>5 DEF Handle
    <2>6. CASE Handle(s, NextLookup(unclear, l))
      BY <2>6 DEF Handle, NextLookup
    <2> QED BY <2>2, <2>3, <2>4, <2>5, <2>6
  <1>5. UNCHANGED <<stored, media, answers>>
    BY DEF ResolveAccount
  <1>6. Aside(n)
    <2>1. CASE \E a \in Account : n = [p EXCEPT !.pc = "store", !.account = a]
      BY <1>1, <2>1 DEF Aside, Tallied, RequestFields
    <2>2. CASE n = Processed(p)
      BY <1>1, <2>2, ProcessedIs DEF Tallied
    <2>3. CASE \E b : n = EventFailed(p, b)
      BY <1>1, <2>3, FailedIs
    <2>4. CASE n = EventFailed(unclear, TRUE)
      BY <1>3, <2>4, FailedIs
    <2>5. CASE \E l : n = [p EXCEPT !.lookups = p.lookups \ {l}]
      BY <1>1, <2>5 DEF Aside, Tallied, RequestFields
    <2>6. CASE \E l : n = [unclear EXCEPT !.lookups = unclear.lookups \ {l}]
      BY <1>3, <2>6 DEF Aside, Tallied, RequestFields
    <2> QED BY <1>4, <2>1, <2>2, <2>3, <2>4, <2>5, <2>6
  <1> QED BY <1>4, <1>5, <1>6, RequestMoves

LEMMA StoreMessageKeeps ==
  ASSUME RoutingInv, NEW s \in Receiver, StoreMessage(s)
  PROVE  RoutingInv'
  <1>1. PICK p : p = handling[s] /\ p.pc = "store" /\ Tallied(p)
    BY DEF StoreMessage, Stands, RoutingInv
  <1>2. UNCHANGED <<media, answers>>
    BY DEF StoreMessage
  <1>3. CASE handling' = [handling EXCEPT ![s] = Processed(p)] /\ UNCHANGED stored
    BY <1>1, <1>2, <1>3, ProcessedIs, RequestMoves DEF Tallied
  <1>4. CASE handling' = [handling EXCEPT ![s] = EventFailed(p, FALSE)] /\ UNCHANGED stored
    BY <1>1, <1>2, <1>4, FailedIs, RequestMoves
  <1>5. CASE /\ Duplicate(EventOf(s), CompanyOfAccount(p.account)) = {}
             /\ \E conv : stored' = Append(stored, [event |-> EventOf(s), account |-> p.account, conv |-> conv])
             /\ handling' = [handling EXCEPT ![s] = [p EXCEPT !.pc = "promote", !.files = Attached(EventOf(s)),
                                                              !.row = Len(stored) + 1, !.new = TRUE]]
    <2>1. PICK new : /\ stored' = Append(stored, new)
                     /\ new.event = EventOf(s) /\ new.account = p.account
      BY <1>5
    <2>2. stored \in Seq({stored[k] : k \in DOMAIN stored}) /\ DOMAIN handling = Receiver
      BY DEF RoutingInv, TablesTrue
    <2>3. PICK rows : rows = {stored[k] : k \in DOMAIN stored} \union {new}
      OBVIOUS
    <2>4. stored \in Seq(rows) /\ new \in rows
      BY <2>2, <2>3
    <2>5. /\ Len(stored) \in Nat /\ DOMAIN stored = 1..Len(stored)
          /\ DOMAIN stored' = 1..(Len(stored) + 1)
          /\ \A k \in DOMAIN stored : stored'[k] = stored[k]
          /\ stored'[Len(stored) + 1] = new
          /\ stored' \in Seq(rows)
      BY <2>1, <2>4
    <2>6. PICK row : row = Len(stored) + 1 /\ row \notin DOMAIN stored /\ row \in DOMAIN stored'
                     /\ DOMAIN stored' = DOMAIN stored \union {row}
      BY <2>5
    <2>7. stored' \in Seq({stored'[k] : k \in DOMAIN stored'})
      BY <2>5, <2>6
    <2>8. \A k \in DOMAIN stored : ~SameMessage(stored[k], new)
      BY <1>5, <2>1 DEF Duplicate, SameMessage
    <2>9. \A j, k \in DOMAIN stored' : SameMessage(stored'[j], stored'[k]) => j = k
      <3>1. \A k \in DOMAIN stored : ~SameMessage(new, stored[k])
        BY <2>8 DEF SameMessage
      <3>2. \A j, k \in DOMAIN stored : SameMessage(stored[j], stored[k]) => j = k
        BY DEF RoutingInv, TablesTrue
      <3> HIDE DEF SameMessage
      <3> QED BY <2>5, <2>6, <2>8, <3>1, <3>2
    <2>10. TablesTrue'
      BY <1>2, <2>6, <2>7, <2>9 DEF RoutingInv, TablesTrue, SameMessage, CompanyOfAccount
    <2>11. PICK files, n : /\ n = [p EXCEPT !.pc = "promote", !.files = files, !.row = row, !.new = TRUE]
                           /\ handling' = [handling EXCEPT ![s] = n]
      BY <1>5, <2>6
    <2>12. Tallied(n) /\ n.pc = "promote" /\ n.row = row
      BY <1>1, <2>11 DEF Tallied, RequestFields
    <2>13. handling'[s] = n /\ DOMAIN handling' = Receiver
           /\ \A t \in Receiver \ {s} : handling'[t] = handling[t]
      BY <2>2, <2>11
    <2>14. Unhanded(handling[s])'
      <3>1. \A k \in DOMAIN media : media[k].row # row
        BY <2>6 DEF RoutingInv, TablesTrue
      <3> QED BY <1>2, <2>6, <2>12, <2>13, <3>1 DEF Unhanded
    <2>15. \A t \in Receiver \ {s} : Tallied(handling'[t]) /\ Unhanded(handling[t])'
      BY <1>2, <2>6, <2>13 DEF RoutingInv, Unhanded
    <2>16. \A t \in Receiver \ {s} : handling'[t].pc = "promote" => handling'[t].row # row
      BY <2>6, <2>13 DEF RoutingInv, Unhanded
    <2>17. \A t, u \in Receiver :
             handling'[t].pc = "promote" /\ handling'[u].pc = "promote" /\ handling'[t].row = handling'[u].row
                => t = u
      BY <2>12, <2>13, <2>16 DEF RoutingInv
    <2>18. ErrorStoresNothing'
      BY <1>2 DEF RoutingInv, ErrorStoresNothing
    <2> QED BY <2>10, <2>12, <2>13, <2>14, <2>15, <2>17, <2>18 DEF RoutingInv
  <1> QED BY <1>1, <1>3, <1>4, <1>5 DEF StoreMessage, Handle

LEMMA PromoteAttachmentsKeeps ==
  ASSUME RoutingInv, NEW s \in Receiver, PromoteAttachments(s)
  PROVE  RoutingInv'
  <1>1. PICK p : p = handling[s] /\ p.pc = "promote" /\ Tallied(p) /\ Unhanded(p)
    BY DEF PromoteAttachments, Stands, RoutingInv
  <1>2. UNCHANGED <<stored, answers>>
    BY DEF PromoteAttachments
  <1>3. CASE handling' = [handling EXCEPT ![s] = [p EXCEPT !.pc = "backfill"]] /\ UNCHANGED media
    <2>1. PICK n : n = [p EXCEPT !.pc = "backfill"]
      OBVIOUS
    <2>2. Aside(n)
      BY <1>1, <2>1 DEF Aside, Tallied, RequestFields
    <2> QED BY <1>2, <1>3, <2>1, <2>2, RequestMoves
  <1>4. ASSUME NEW k \in p.files, handling' = [handling EXCEPT ![s] = [p EXCEPT !.files = p.files \ {k}]],
               media' = Append(media, [row |-> p.row, file |-> k]) \/ media' = media
        PROVE  RoutingInv'
    <2>1. PICK n : n = [p EXCEPT !.files = p.files \ {k}]
      OBVIOUS
    <2>2. /\ Tallied(n) /\ n.pc = "promote" /\ n.row = p.row /\ n.files = p.files \ {k}
          /\ n.row \in DOMAIN stored
      BY <1>1, <2>1 DEF Tallied, RequestFields, Unhanded
    <2>3. DOMAIN handling = Receiver /\ TablesTrue
      BY DEF RoutingInv
    <2>4. handling'[s] = n /\ DOMAIN handling' = Receiver
          /\ \A t \in Receiver \ {s} : handling'[t] = handling[t]
      BY <1>4, <2>1, <2>3
    <2>5. \A t, u \in Receiver :
             handling'[t].pc = "promote" /\ handling'[u].pc = "promote" /\ handling'[t].row = handling'[u].row
                => t = u
      BY <1>1, <2>2, <2>4 DEF RoutingInv
    <2>6. ErrorStoresNothing'
      BY <1>2 DEF RoutingInv, ErrorStoresNothing
    <2>7. CASE media' = media
      <3>1. TablesTrue'
        BY <1>2, <2>3, <2>7 DEF TablesTrue, SameMessage, CompanyOfAccount
      <3>2. \A t \in Receiver : Unhanded(handling[t])'
        BY <1>1, <1>2, <2>2, <2>4, <2>7 DEF RoutingInv, Unhanded
      <3> QED BY <2>2, <2>4, <2>5, <2>6, <3>1, <3>2 DEF RoutingInv
    <2>8. CASE media' = Append(media, [row |-> p.row, file |-> k])
      <3>1. PICK new : new = [row |-> p.row, file |-> k] /\ media' = Append(media, new)
        BY <2>8
      <3>2. new.row = p.row /\ new.file = k
        BY <3>1
      <3>3. media \in Seq({media[j] : j \in DOMAIN media})
        BY <2>3 DEF TablesTrue
      <3>4. PICK given : given = {media[j] : j \in DOMAIN media} \union {new}
        OBVIOUS
      <3>5. media \in Seq(given) /\ new \in given
        BY <3>3, <3>4
      <3>6. /\ Len(media) \in Nat /\ DOMAIN media = 1..Len(media)
            /\ DOMAIN media' = 1..(Len(media) + 1)
            /\ \A j \in DOMAIN media : media'[j] = media[j]
            /\ media'[Len(media) + 1] = new
            /\ media' \in Seq(given)
        BY <3>1, <3>5
      <3>7. PICK last : last = Len(media) + 1 /\ last \notin DOMAIN media
                        /\ DOMAIN media' = DOMAIN media \union {last} /\ media'[last] = new
        BY <3>6
      <3>8. media' \in Seq({media'[j] : j \in DOMAIN media'})
        BY <3>6, <3>7
      <3>9. \A j \in DOMAIN media : media[j] # new
        BY <1>1, <3>2 DEF Unhanded
      <3>10. \A i, j \in DOMAIN media' : media'[i] = media'[j] => i = j
        <4>1. \A i, j \in DOMAIN media : media[i] = media[j] => i = j
          BY <2>3 DEF TablesTrue
        <4> QED BY <3>6, <3>7, <3>9, <4>1
      <3>11. /\ \A j \in DOMAIN media' : media'[j].row \in DOMAIN stored
             /\ \A j \in DOMAIN media' : media'[j] = [row |-> media'[j].row, file |-> media'[j].file]
        <4>1. ASSUME NEW j \in DOMAIN media
              PROVE  media[j].row \in DOMAIN stored /\ media[j] = [row |-> media[j].row, file |-> media[j].file]
          BY <2>3 DEF TablesTrue
        <4>2. new.row \in DOMAIN stored /\ new = [row |-> new.row, file |-> new.file]
          BY <2>2, <3>1, <3>2
        <4> QED BY <3>6, <3>7, <4>1, <4>2
      <3>15. TablesTrue'
        BY <1>2, <2>3, <3>8, <3>10, <3>11 DEF TablesTrue, SameMessage, CompanyOfAccount
      <3>12. Unhanded(handling[s])'
        BY <1>1, <1>2, <2>2, <2>4, <3>2, <3>6, <3>7 DEF Unhanded
      <3>13. \A t \in Receiver \ {s} : handling[t].pc = "promote" => handling[t].row # p.row
        BY <1>1 DEF RoutingInv
      <3>14. \A t \in Receiver \ {s} : Unhanded(handling[t])'
        BY <1>2, <2>4, <3>2, <3>6, <3>7, <3>13 DEF RoutingInv, Unhanded
      <3> QED BY <2>2, <2>4, <2>5, <2>6, <3>12, <3>14, <3>15 DEF RoutingInv
    <2> QED BY <1>4, <2>7, <2>8
  <1> QED BY <1>1, <1>3, <1>4 DEF PromoteAttachments, Handle

LEMMA BackfillsKeep ==
  ASSUME RoutingInv, NEW s \in Receiver, BackfillReferencedCase(s) \/ BackfillSenderCustomer(s)
  PROVE  RoutingInv'
  <1>1. PICK p : p = handling[s] /\ p.pc \in {"backfill", "sender"} /\ Tallied(p)
    BY DEF BackfillReferencedCase, BackfillSenderCustomer, Stands, RoutingInv
  <1>2. UNCHANGED <<stored, media, answers>>
    BY DEF BackfillReferencedCase, BackfillSenderCustomer
  <1>3. PICK n : /\ handling' = [handling EXCEPT ![s] = n]
                 /\ n = Processed(p) \/ n = [p EXCEPT !.pc = "sender"]
    BY <1>1 DEF BackfillReferencedCase, BackfillSenderCustomer, Handle
  <1>4. CASE n = Processed(p)
    BY <1>1, <1>2, <1>3, <1>4, ProcessedIs, RequestMoves DEF Tallied
  <1>5. CASE n = [p EXCEPT !.pc = "sender"]
    <2>1. Aside(n)
      BY <1>1, <1>5 DEF Aside, Tallied, RequestFields
    <2> QED BY <1>2, <1>3, <2>1, RequestMoves
  <1> QED BY <1>3, <1>4, <1>5

\* Nobody is told to come again after a message was stored.
LEMMA Respond200Keeps ==
  ASSUME RoutingInv, NEW s \in Receiver, Respond200(s)
  PROVE  RoutingInv'
  <1>1. PICK p : p = handling[s] /\ p.pc = "answer" /\ Tallied(p)
    BY DEF Respond200, Stands, RoutingInv
  <1>2. PICK status : Answer(s, status) /\ (status # 200 => NotFound(p))
    BY <1>1 DEF Respond200
  <1>3. NotFound(p) => ~p.new
    BY <1>1 DEF NotFound, Tallied
  <1> QED BY <1>1, <1>2, <1>3, AnswerKeeps DEF Respond200

LEMMA ToggleKeeps ==
  ASSUME RoutingInv, NEW a \in Account, Toggle(a)
  PROVE  RoutingInv'
  <1>1. UNCHANGED <<stored, media, answers>> /\ handling' = [t \in Receiver |-> Muddled(handling[t])]
    BY DEF Toggle
  <1>2. \A t \in Receiver :
           /\ Tallied(handling'[t]) /\ handling'[t].pc = handling[t].pc /\ Unhanded(handling[t])'
           /\ handling'[t].pc = "promote" => handling'[t].row = handling[t].row
    BY <1>1, OthersMuddled
  <1>3. DOMAIN handling' = Receiver
    BY <1>1
  <1>4. TablesTrue' /\ ErrorStoresNothing'
    BY <1>1 DEF RoutingInv, TablesTrue, SameMessage, CompanyOfAccount, ErrorStoresNothing
  <1>5. \A s, t \in Receiver :
           handling'[s].pc = "promote" /\ handling'[t].pc = "promote" /\ handling'[s].row = handling'[t].row
              => s = t
    BY <1>2 DEF RoutingInv
  <1> QED BY <1>2, <1>3, <1>4, <1>5 DEF RoutingInv

LEMMA CrashKeeps ==
  ASSUME RoutingInv, NEW s \in Receiver, Crash(s)
  PROVE  RoutingInv'
  <1>1. Aside(Waiting)
    BY DEF Aside, Tallied, Waiting
  <1> QED BY <1>1, RequestMoves DEF Crash, Handle

-----------------------------------------------------------------------------
LEMMA RoutingStarts == RoutingInit => RoutingInv
  <1> SUFFICES ASSUME RoutingInit
               PROVE  RoutingInv
    OBVIOUS
  <1>1. /\ DOMAIN handling = Receiver /\ \A s \in Receiver : handling[s].pc = "waiting"
        /\ stored = <<>> /\ media = <<>> /\ answers = {}
    BY DEF RoutingInit, Waiting
  <1>2. TablesTrue
    BY <1>1 DEF TablesTrue
  <1> QED BY <1>1, <1>2 DEF RoutingInv, Tallied, Unhanded, ErrorStoresNothing

LEMMA RoutingGoesOn == RoutingInv /\ [RoutingNext]_routingVars => RoutingInv'
  <1> SUFFICES ASSUME RoutingInv, [RoutingNext]_routingVars
               PROVE  RoutingInv'
    OBVIOUS
  <1>1. CASE UNCHANGED routingVars
    <2>1. handling' = handling /\ stored' = stored /\ media' = media /\ answers' = answers
      BY <1>1 DEF routingVars
    <2> QED BY <2>1 DEF RoutingInv, Tallied, Unhanded, TablesTrue, SameMessage, CompanyOfAccount,
                        ErrorStoresNothing
  <1>2. ASSUME NEW s \in Receiver, NEW hook \in Hook, Receive(s, hook)
        PROVE  RoutingInv'
    BY <1>2, ReceiveKeeps
  <1>3. ASSUME NEW s \in Receiver,
               \/ CheckSignature(s) \/ MarkVerified(s) \/ ReadBack(s) \/ StoreForwardConfirm(s)
               \/ ResolveAccount(s) \/ StoreMessage(s) \/ PromoteAttachments(s)
               \/ BackfillReferencedCase(s) \/ BackfillSenderCustomer(s)
               \/ Respond200(s) \/ Crash(s)
        PROVE  RoutingInv'
    BY <1>3, CheckSignatureKeeps, MarkVerifiedKeeps, ReadBackKeeps, StoreForwardConfirmKeeps,
       ResolveAccountKeeps, StoreMessageKeeps, PromoteAttachmentsKeeps, BackfillsKeep, Respond200Keeps,
       CrashKeeps
  <1>4. ASSUME NEW a \in Account, Toggle(a)
        PROVE  RoutingInv'
    BY <1>4, ToggleKeeps
  <1> QED BY <1>1, <1>2, <1>3, <1>4 DEF RoutingNext

LEMMA RoutingIsEnough == RoutingInv => RedeliveryIsHarmless
  <1> SUFFICES ASSUME RoutingInv
               PROVE  RedeliveryIsHarmless
    OBVIOUS
  <1>1. ASSUME NEW j \in DOMAIN media, NEW k \in DOMAIN media, FileGiven(j) = FileGiven(k)
        PROVE  j = k
    <2>1. PICK r \in DOMAIN stored, q \in DOMAIN stored : r = media[j].row /\ q = media[k].row
      BY DEF RoutingInv, TablesTrue
    <2>2. stored[r].event = stored[q].event /\ stored[r].account = stored[q].account
          /\ media[j].file = media[k].file
      BY <1>1, <2>1 DEF FileGiven
    <2>3. SameMessage(stored[r], stored[q])
      BY <2>2 DEF SameMessage
    <2>4. media[j].row = media[k].row
      BY <2>1, <2>3 DEF RoutingInv, TablesTrue
    <2>5. media[j] = media[k]
      BY <2>2, <2>4 DEF RoutingInv, TablesTrue
    <2> QED BY <2>5 DEF RoutingInv, TablesTrue
  <1>2. ErrorStoresNothing
    BY DEF RoutingInv
  <1> QED BY <1>1, <1>2 DEF RedeliveryIsHarmless, MediaOnce

(***************************************************************************)
(* A sender that delivers a webhook again changes nothing the first        *)
(* delivery left behind: an error is answered only if nothing of the       *)
(* webhook was stored, and a file reaches the main application once,       *)
(* however many requests run at once, whoever dies, and whatever fails     *)
(* (transport/http/handlers/inbound.go, workflows/omnichannel).            *)
(***************************************************************************)
THEOREM RedeliveriesAreHarmless == RoutingSpec => []RedeliveryIsHarmless
  <1>1. RoutingSpec => []RoutingInv
    BY RoutingStarts, RoutingGoesOn, PTL DEF RoutingSpec
  <1> QED BY <1>1, RoutingIsEnough, PTL

-----------------------------------------------------------------------------
(***************************************************************************)
(* The way of a request to its account: the inductive invariant.  What was *)
(* looked up found nothing, and comes before what is still to be looked    *)
(* up; so the account found is the first the order allows.                 *)
(***************************************************************************)
EventIn(job) == job.hook.events[job.at]
Tried(job) == Lookups(EventIn(job)) \ job.lookups

OnItsWay(job) ==
    /\ job.pc # "waiting" => job.hook \in Hook
    /\ job.pc \notin {"waiting", "signature", "answer"} => job.at \in DOMAIN job.hook.events
    /\ job.pc \in {"verify", "readback", "confirm", "resolve"} => job.lookups # {} /\ job.lookups \subseteq Lookups(EventIn(job))
    /\ job.pc \in {"verify", "readback", "confirm"} => Tried(job) = {}
    /\ job.pc = "resolve" /\ job.clean =>
          \A l \in Tried(job) : Found(EventIn(job), l) = {} /\ \A m \in job.lookups : Before(l, m)
    /\ job.pc = "store" => job.account \in Account /\ (job.clean => job.account \in Owners(EventIn(job)))

AllOnTheirWay == \A s \in Receiver : OnItsWay(handling[s])

RowsTyped ==
    /\ DOMAIN accounts = Account
    /\ \A a \in Account : accounts[a].active \in BOOLEAN /\ accounts[a].verified \in BOOLEAN
    /\ hint \in Seq({hint[k] : k \in DOMAIN hint}) /\ Len(hint) = Len(stored)
    /\ \A k \in DOMAIN stored : stored[k].conv \in 1..k /\ stored[k].account \in Account
    /\ sendable \subseteq Hook

WayInv == AllOnTheirWay /\ RowsTyped

-----------------------------------------------------------------------------
(***************************************************************************)
(* The lookups of an event.                                                *)
(***************************************************************************)
LEMMA FirstOf ==
  ASSUME NEW S \in SUBSET Nat, S # {}
  PROVE  \E x \in S : \A y \in S : x <= y
  BY LeastOf

\* An event of a webhook.
Event(e) == \E h \in Hook : \E k \in DOMAIN h.events : e = h.events[k]

LEMMA EventHasRecipient ==
  ASSUME NEW e, Event(e)
  PROVE  1 \in DOMAIN e.to /\ DOMAIN e.to \in SUBSET Nat
  BY RoutingAssumption DEF Event

LEMMA LookupsAre ==
  ASSUME NEW e, NEW l \in Lookups(e)
  PROVE  /\ l \in [by : {"key", "alias", "to", "candidate"}, at : DOMAIN e.to]
         /\ l.by = "key" => IsMail(e) /\ l.at \in RoutingKeysFrom(e)
         /\ l.by = "alias" => IsMail(e) /\ l.at \in EmailCandidates(e)
  BY DEF Lookups

LEMMA SomeLookup ==
  ASSUME NEW e, Event(e)
  PROVE  Lookups(e) # {}
  <1>1. PICK l : l = [by |-> "to", at |-> 1]
    OBVIOUS
  <1>2. l \in [by : {"key", "alias", "to", "candidate"}, at : DOMAIN e.to] /\ l.by = "to" /\ l.at = 1
    BY <1>1, EventHasRecipient
  <1>3. l \in Lookups(e)
    BY <1>2 DEF Lookups
  <1> QED BY <1>3

\* An owner by key is found by a lookup of a key, and one by alias by a lookup of an alias.
LEMMA KeyIsLookedUp ==
  ASSUME NEW e, Event(e), IsMail(e), NEW a \in OwnersByKey(e)
  PROVE  \E l \in Lookups(e) : l.by = "key" /\ a \in Found(e, l)
  <1>1. PICK k \in DOMAIN e.to : e.to[k].key # "" /\ Registered[a].key = e.to[k].key
    BY DEF OwnersByKey
  <1>2. PICK same : same = {j \in DOMAIN e.to : e.to[j].key = e.to[k].key}
    OBVIOUS
  <1>3. same \in SUBSET Nat /\ same # {}
    BY <1>2, EventHasRecipient
  <1>4. PICK x \in same : \A y \in same : x <= y
    BY <1>3, FirstOf
  <1>5. x \in RoutingKeysFrom(e) /\ x \in DOMAIN e.to /\ e.to[x].key = Registered[a].key
    BY <1>1, <1>2, <1>4 DEF RoutingKeysFrom
  <1>6. PICK l : l = [by |-> "key", at |-> x]
    OBVIOUS
  <1>7. l.by = "key" /\ l.at = x /\ l \in [by : {"key", "alias", "to", "candidate"}, at : DOMAIN e.to]
    BY <1>5, <1>6
  <1>8. l \in Lookups(e)
    BY <1>5, <1>7 DEF Lookups
  <1>9. a \in Found(e, l)
    BY <1>5, <1>7 DEF Found, ByRoutingKey, OwnersByKey
  <1> QED BY <1>7, <1>8, <1>9

LEMMA AliasIsLookedUp ==
  ASSUME NEW e, Event(e), IsMail(e), NEW a \in OwnersByAlias(e)
  PROVE  \E l \in Lookups(e) : l.by = "alias" /\ a \in Found(e, l)
  <1>1. PICK k \in DOMAIN e.to : e.to[k].addr # "" /\ e.to[k].addr \in Registered[a].aliases
    BY DEF OwnersByAlias
  <1>2. PICK same : same = {j \in DOMAIN e.to : e.to[j].addr = e.to[k].addr}
    OBVIOUS
  <1>3. same \in SUBSET Nat /\ same # {}
    BY <1>2, EventHasRecipient
  <1>4. PICK x \in same : \A y \in same : x <= y
    BY <1>3, FirstOf
  <1>5. x \in EmailCandidates(e) /\ x \in DOMAIN e.to /\ e.to[x].addr \in Registered[a].aliases
    BY <1>1, <1>2, <1>4 DEF EmailCandidates
  <1>6. PICK l : l = [by |-> "alias", at |-> x]
    OBVIOUS
  <1>7. l.by = "alias" /\ l.at = x /\ l \in [by : {"key", "alias", "to", "candidate"}, at : DOMAIN e.to]
    BY <1>5, <1>6
  <1>8. l \in Lookups(e)
    BY <1>5, <1>7 DEF Lookups
  <1>9. a \in Found(e, l)
    BY <1>5, <1>7 DEF Found, ByAlias, OwnersByAlias, Usable
  <1> QED BY <1>7, <1>8, <1>9

\* What comes before a lookup of another kind.
LEMMA KeysComeFirst ==
  ASSUME NEW e, NEW l \in Lookups(e), NEW m \in Lookups(e), Before(l, m), m.by \in {"key", "alias"}
  PROVE  l.by \in {"key", "alias"} /\ (m.by = "key" => l.by = "key")
  BY LookupsAre DEF Before, Order

\* The account of the first lookup that finds one is the one the message is for.
LEMMA FirstFoundOwns ==
  ASSUME NEW e, Event(e), NEW untried, untried \subseteq Lookups(e), NEW l \in untried, \A m \in untried : Before(l, m),
         \A m \in Lookups(e) \ untried : Found(e, m) = {}, NEW a \in Found(e, l)
  PROVE  a \in Account /\ a \in Owners(e)
  <1>1. /\ l \in [by : {"key", "alias", "to", "candidate"}, at : DOMAIN e.to]
        /\ l.by = "key" => IsMail(e) /\ l.at \in RoutingKeysFrom(e)
        /\ l.by = "alias" => IsMail(e) /\ l.at \in EmailCandidates(e)
    BY LookupsAre
  <1>2. a \in Account
    BY DEF Found, ByRoutingKey, ByAlias, ByChannelAndExternalID
  <1>3. l.by \notin {"key"} /\ IsMail(e) => OwnersByKey(e) = {}
    <2> SUFFICES ASSUME l.by # "key", IsMail(e), NEW b \in OwnersByKey(e)
                 PROVE  FALSE
      OBVIOUS
    <2>1. PICK m \in Lookups(e) : m.by = "key" /\ b \in Found(e, m)
      BY KeyIsLookedUp
    <2>2. m \in untried
      BY <2>1
    <2> QED BY <2>1, <2>2, KeysComeFirst
  <1>4. l.by \notin {"key", "alias"} /\ IsMail(e) => OwnersByAlias(e) = {}
    <2> SUFFICES ASSUME l.by \notin {"key", "alias"}, IsMail(e), NEW b \in OwnersByAlias(e)
                 PROVE  FALSE
      OBVIOUS
    <2>1. PICK m \in Lookups(e) : m.by = "alias" /\ b \in Found(e, m)
      BY AliasIsLookedUp
    <2>2. m \in untried
      BY <2>1
    <2> QED BY <2>1, <2>2, KeysComeFirst
  <1>5. CASE l.by = "key"
    <2>1. l.at \in DOMAIN e.to /\ e.to[l.at].key # "" /\ a \in ByRoutingKey(e.to[l.at].key)
      BY <1>1, <1>5 DEF Found, RoutingKeysFrom
    <2>2. a \in OwnersByKey(e)
      BY <2>1 DEF ByRoutingKey, OwnersByKey
    <2> QED BY <1>1, <1>2, <1>5, <2>2 DEF Owners
  <1>6. CASE l.by = "alias"
    <2>1. l.at \in DOMAIN e.to /\ e.to[l.at].addr # "" /\ a \in ByAlias(e.to[l.at].addr)
      BY <1>1, <1>6 DEF Found, EmailCandidates
    <2>2. a \in OwnersByAlias(e)
      BY <2>1 DEF ByAlias, OwnersByAlias, Usable
    <2> QED BY <1>1, <1>2, <1>3, <1>6, <2>2 DEF Owners
  <1>7. CASE l.by \in {"to", "candidate"}
    <2>1. l.at \in DOMAIN e.to /\ a \in ByChannelAndExternalID(e.channel, e.to[l.at].addr)
      BY <1>1, <1>7 DEF Found
    <2>2. a \in OwnersByAddress(e)
      BY <2>1 DEF ByChannelAndExternalID, OwnersByAddress
    <2> QED BY <1>2, <1>3, <1>4, <1>7, <2>2 DEF Owners
  <1> QED BY <1>1, <1>5, <1>6, <1>7

-----------------------------------------------------------------------------
(***************************************************************************)
(* The steps of a request keep it on its way.                              *)
(***************************************************************************)
\* The lookups see the same accounts.
SameUse == \A a \in Account : accounts'[a].active = accounts[a].active /\ accounts'[a].verified = accounts[a].verified

LEMMA TurnGoesOn ==
  ASSUME NEW job, RequestFields \subseteq DOMAIN job, job.hook \in Hook, NEW n, n = Turn(job)
  PROVE  OnItsWay(n)
  <1>1. PICK later : later = {k \in DOMAIN job.hook.events : job.at < k /\ Kept(job.hook.events[k])}
    OBVIOUS
  <1>2. CASE later = {}
    <2>1. n = [job EXCEPT !.pc = "answer"]
      BY <1>1, <1>2 DEF Turn
    <2> QED BY <2>1 DEF RequestFields, OnItsWay
  <1>3. CASE later # {}
    <2>1. PICK next : next = CHOOSE k \in later : \A j \in later : k <= j
      OBVIOUS
    <2>2. next \in later
      <3>1. later \in SUBSET Nat
        BY <1>1, RoutingAssumption
      <3> QED BY <1>3, <2>1, <3>1, FirstOf
    <2>3. PICK e : e = job.hook.events[next]
      OBVIOUS
    <2>4. PICK keys, lookups, start :
             keys = RoutingKeysFrom(e) /\ lookups = Lookups(e) /\ start = Start(e)
      OBVIOUS
    <2>5. start \in {"verify", "resolve"}
      BY <2>4 DEF Start
    <2>6. n = [job EXCEPT !.at = next, !.pc = start, !.keys = keys,
                          !.lookups = lookups, !.clean = TRUE, !.files = {}]
      BY <1>1, <1>3, <2>1, <2>3, <2>4 DEF Turn
    <2>7. /\ n.hook = job.hook /\ n.at = next /\ n.pc = start /\ n.lookups = lookups
      BY <2>6 DEF RequestFields
    <2>8. EventIn(n) = e /\ next \in DOMAIN job.hook.events /\ Event(e)
      BY <1>1, <2>2, <2>3, <2>7 DEF EventIn, Event
    <2>9. n.lookups # {} /\ n.lookups \subseteq Lookups(EventIn(n)) /\ Tried(n) = {}
      BY <2>4, <2>7, <2>8, SomeLookup DEF Tried
    <2> QED BY <2>5, <2>7, <2>8, <2>9 DEF OnItsWay
  <1> QED BY <1>2, <1>3

LEMMA ProcessedGoesOn ==
  ASSUME NEW job, RequestFields \subseteq DOMAIN job, job.hook \in Hook, NEW n, n = Processed(job)
  PROVE  OnItsWay(n)
  <1>1. PICK over : over = [job EXCEPT !.processed = TRUE, !.unknown = FALSE]
    OBVIOUS
  <1>2. RequestFields \subseteq DOMAIN over /\ over.hook = job.hook
    BY <1>1 DEF RequestFields
  <1>3. n = Turn(over)
    BY <1>1 DEF Processed
  <1> QED BY <1>2, <1>3, TurnGoesOn

LEMMA FailedGoesOn ==
  ASSUME NEW job, RequestFields \subseteq DOMAIN job, job.hook \in Hook, NEW notFound,
         NEW n, n = EventFailed(job, notFound)
  PROVE  OnItsWay(n)
  <1>1. PICK over : over = [job EXCEPT !.failed = TRUE, !.unknown = job.unknown /\ notFound]
    OBVIOUS
  <1>2. RequestFields \subseteq DOMAIN over /\ over.hook = job.hook
    BY <1>1 DEF RequestFields
  <1>3. n = Turn(over)
    BY <1>1 DEF EventFailed
  <1> QED BY <1>2, <1>3, TurnGoesOn

LEMMA SameFound ==
  ASSUME SameUse, NEW e
  PROVE  Owners(e)' = Owners(e) /\ \A l : Found(e, l)' = Found(e, l)
  <1>1. \A a \in Account : Usable(a)' <=> Usable(a)
    BY DEF SameUse, Usable
  <1>2. \A key : ByRoutingKey(key)' = ByRoutingKey(key)
    BY <1>1 DEF ByRoutingKey
  <1>3. \A addr : ByAlias(addr)' = ByAlias(addr)
    BY DEF ByAlias, SameUse
  <1>4. \A channel, addr : ByChannelAndExternalID(channel, addr)' = ByChannelAndExternalID(channel, addr)
    BY <1>1 DEF ByChannelAndExternalID
  <1>5. OwnersByKey(e)' = OwnersByKey(e) /\ OwnersByAddress(e)' = OwnersByAddress(e)
    BY <1>1 DEF OwnersByKey, OwnersByAddress
  <1>6. OwnersByAlias(e)' = OwnersByAlias(e)
    BY <1>1 DEF OwnersByAlias, SameUse
  <1>7. Owners(e)' = Owners(e)
    BY <1>5, <1>6 DEF Owners, IsMail
  <1>8. \A l : Found(e, l)' = Found(e, l)
    BY <1>2, <1>3, <1>4 DEF Found
  <1> QED BY <1>7, <1>8

LEMMA WayKept ==
  ASSUME SameUse, NEW n, OnItsWay(n)
  PROVE  OnItsWay(n)'
  <1>1. PICK e : e = EventIn(n)
    OBVIOUS
  <1>2. Owners(e)' = Owners(e) /\ \A l : Found(e, l)' = Found(e, l)
    BY SameFound
  <1> QED BY <1>1, <1>2 DEF OnItsWay, EventIn, Tried, Lookups, IsMail, RoutingKeysFrom, EmailCandidates

LEMMA WayMoves ==
  ASSUME RoutingInv, AllOnTheirWay, SameUse, NEW s \in Receiver, NEW n, OnItsWay(n),
         handling' = [handling EXCEPT ![s] = n]
  PROVE  AllOnTheirWay'
  <1>1. DOMAIN handling = Receiver
    BY DEF RoutingInv
  <1>2. ASSUME NEW t \in Receiver PROVE OnItsWay(handling[t])'
    <2>1. PICK p : p = IF t = s THEN n ELSE handling[t]
      OBVIOUS
    <2>2. OnItsWay(p) /\ handling'[t] = p
      BY <1>1, <2>1 DEF AllOnTheirWay
    <2>3. OnItsWay(p)'
      BY <2>2, WayKept
    <2> QED BY <2>2, <2>3 DEF OnItsWay, EventIn, Tried
  <1> QED BY <1>2 DEF AllOnTheirWay

\* A request that is past its lookups or before them is on its way, whatever the accounts are.
LEMMA ElsewhereOnItsWay ==
  ASSUME NEW n, n.pc # "waiting" => n.hook \in Hook,
         n.pc \notin {"waiting", "signature", "answer"} => n.at \in DOMAIN n.hook.events,
         n.pc \notin {"verify", "readback", "confirm", "resolve", "store"}
  PROVE  OnItsWay(n)
  BY DEF OnItsWay

LEMMA UnclearGoesOn ==
  ASSUME NEW n, OnItsWay(n), n.pc \notin {"resolve", "store"} \/ n.clean = FALSE
  PROVE  OnItsWay(n)'
  BY DEF OnItsWay, EventIn, Tried, Lookups, IsMail, RoutingKeysFrom, EmailCandidates

LEMMA MuddledGoesOn ==
  ASSUME NEW job, Tallied(job), OnItsWay(job), NEW n, n = Muddled(job)
  PROVE  OnItsWay(n)'
  <1>1. CASE job.pc \in {"resolve", "store"}
    <2>1. n = [job EXCEPT !.clean = FALSE]
      BY <1>1 DEF Muddled
    <2>2. /\ n.pc = job.pc /\ n.hook = job.hook /\ n.at = job.at /\ n.lookups = job.lookups
          /\ n.clean = FALSE /\ n.account = job.account
      BY <1>1, <2>1 DEF Tallied, RequestFields
    <2>3. EventIn(n) = EventIn(job) /\ Tried(n) = Tried(job)
      BY <2>2 DEF EventIn, Tried
    <2>4. OnItsWay(n)
      BY <1>1, <2>2, <2>3 DEF OnItsWay
    <2> QED BY <2>2, <2>4, UnclearGoesOn
  <1>2. CASE job.pc \notin {"resolve", "store"}
    <2>1. n = job
      BY <1>2 DEF Muddled
    <2> QED BY <1>2, <2>1, UnclearGoesOn
  <1> QED BY <1>1, <1>2

\* The tables, if no row of them changes.
LEMMA RowsStay ==
  ASSUME RowsTyped, UNCHANGED <<accounts, stored, hint, sendable>>
  PROVE  RowsTyped'
  BY DEF RowsTyped

LEMMA ReceiveOnWay ==
  ASSUME RoutingInv, WayInv, NEW s \in Receiver, NEW hook \in Hook, Receive(s, hook)
  PROVE  WayInv'
  <1>1. PICK a : a = CHOOSE b \in Account : TRUE
    OBVIOUS
  <1>2. PICK n :
           n = [pc |-> "signature", hook |-> hook, at |-> 0, keys |-> {}, lookups |-> {}, account |-> a,
                clean |-> TRUE, files |-> {}, row |-> 0, processed |-> FALSE, failed |-> FALSE,
                unknown |-> TRUE, new |-> FALSE]
    OBVIOUS
  <1>3. n.pc = "signature" /\ n.hook = hook
    BY <1>2
  <1>4. OnItsWay(n)
    BY <1>3 DEF OnItsWay
  <1>5. handling' = [handling EXCEPT ![s] = n] /\ UNCHANGED <<accounts, stored, hint, sendable>>
    BY <1>1, <1>2 DEF Receive, Handle
  <1>6. SameUse
    BY <1>5 DEF SameUse
  <1> QED BY <1>4, <1>5, <1>6, WayMoves, RowsStay DEF WayInv

LEMMA WaitingOnItsWay == OnItsWay(Waiting)
  BY DEF OnItsWay, Waiting

LEMMA CheckSignatureOnWay ==
  ASSUME RoutingInv, WayInv, NEW s \in Receiver, CheckSignature(s)
  PROVE  WayInv'
  <1>1. PICK good : Parse(s, good)
    BY DEF CheckSignature
  <1>2. PICK p : p = handling[s] /\ p.pc = "signature" /\ Tallied(p) /\ OnItsWay(p)
    BY DEF CheckSignature, Stands, RoutingInv, WayInv, AllOnTheirWay
  <1>3. UNCHANGED <<accounts, stored, hint, sendable>>
    BY DEF CheckSignature
  <1>4. PICK n : handling' = [handling EXCEPT ![s] = n] /\ (n = Waiting \/ n = Turn(p))
    BY <1>1, <1>2 DEF Parse, Handle, Answer
  <1>5. OnItsWay(n)
    BY <1>2, <1>4, TurnGoesOn, WaitingOnItsWay DEF Tallied, OnItsWay
  <1>6. SameUse
    BY <1>3 DEF SameUse
  <1> QED BY <1>3, <1>4, <1>5, <1>6, WayMoves, RowsStay DEF WayInv

LEMMA ConfirmOnItsWay ==
  ASSUME NEW p, Tallied(p), OnItsWay(p), p.pc \in {"verify", "readback"},
         NEW pc \in {"readback", "confirm"}, NEW n, n = [p EXCEPT !.pc = pc]
  PROVE  OnItsWay(n)
  <1>1. n.pc = pc /\ n.hook = p.hook /\ n.at = p.at /\ n.lookups = p.lookups
    BY DEF Tallied, RequestFields
  <1> QED BY <1>1 DEF OnItsWay, EventIn, Tried

\* The accounts changed for one request, and the others that look for theirs learn of it.
LEMMA OthersGoOn ==
  ASSUME RoutingInv, AllOnTheirWay, NEW t \in Receiver, handling'[t] = Muddled(handling[t])
  PROVE  OnItsWay(handling[t])'
  <1>1. PICK p, n : p = handling[t] /\ n = Muddled(p)
    OBVIOUS
  <1>2. Tallied(p) /\ OnItsWay(p)
    BY <1>1 DEF RoutingInv, AllOnTheirWay
  <1>3. OnItsWay(n)'
    BY <1>1, <1>2, MuddledGoesOn
  <1> QED BY <1>1, <1>3 DEF OnItsWay, EventIn, Tried

LEMMA MarkVerifiedOnWay ==
  ASSUME RoutingInv, WayInv, NEW s \in Receiver, MarkVerified(s)
  PROVE  WayInv'
  <1>1. PICK p : p = handling[s] /\ p.pc = "verify" /\ Tallied(p) /\ OnItsWay(p)
    BY DEF MarkVerified, Stands, RoutingInv, WayInv, AllOnTheirWay
  <1>2. UNCHANGED <<stored, hint, sendable>>
    BY DEF MarkVerified
  <1>3. CASE \E a \in Account :
                /\ Alter(a, [accounts[a] EXCEPT !.verified = TRUE])
                /\ handling' = [t \in Receiver |-> IF t = s THEN [p EXCEPT !.pc = "readback"] ELSE Muddled(handling[t])]
    <2>1. PICK a, row, n :
             /\ a \in Account /\ row = [accounts[a] EXCEPT !.verified = TRUE] /\ Alter(a, row)
             /\ n = [p EXCEPT !.pc = "readback"]
             /\ handling' = [t \in Receiver |-> IF t = s THEN n ELSE Muddled(handling[t])]
      BY <1>3
    <2>2. row.active \in BOOLEAN /\ row.verified \in BOOLEAN
      <3>1. PICK old : old = accounts[a] /\ old.active \in BOOLEAN /\ old.verified \in BOOLEAN
        BY <2>1 DEF WayInv, RowsTyped
      <3>2. row = [old EXCEPT !.verified = TRUE]
        BY <2>1, <3>1
      <3>3. row.active = old.active /\ row.verified \in {TRUE, old.verified}
        BY <3>2
      <3> QED BY <3>1, <3>3
    <2>3. OnItsWay(n)
      BY <1>1, <2>1, ConfirmOnItsWay
    <2>4. n.pc = "readback"
      BY <1>1, <2>1 DEF Tallied, RequestFields
    <2>5. OnItsWay(n)'
      BY <2>3, <2>4, UnclearGoesOn
    <2>6. \A t \in Receiver \ {s} : OnItsWay(handling[t])'
      BY <2>1, OthersGoOn DEF WayInv
    <2>7. OnItsWay(handling[s])'
      <3>1. handling'[s] = n
        BY <2>1
      <3> QED BY <2>5, <3>1 DEF OnItsWay, EventIn, Tried
    <2>8. RowsTyped'
      <3>1. RowsTyped
        BY DEF WayInv
      <3>2. accounts' = [accounts EXCEPT ![a] = row]
        BY <2>1 DEF Alter
      <3> QED BY <1>2, <2>2, <3>1, <3>2 DEF RowsTyped
    <2> QED BY <2>6, <2>7, <2>8 DEF WayInv, AllOnTheirWay
  <1>4. CASE handling' = [handling EXCEPT ![s] = [p EXCEPT !.pc = "confirm"]] /\ UNCHANGED accounts
    <2>1. PICK n : n = [p EXCEPT !.pc = "confirm"] /\ handling' = [handling EXCEPT ![s] = n]
      BY <1>4
    <2>2. OnItsWay(n)
      BY <1>1, <2>1, ConfirmOnItsWay
    <2>3. SameUse
      BY <1>4 DEF SameUse
    <2> QED BY <1>2, <1>4, <2>1, <2>2, <2>3, WayMoves, RowsStay DEF WayInv
  <1>5. \A code : Pending(code) \subseteq Account
    BY DEF Pending
  <1> QED BY <1>1, <1>3, <1>4, <1>5 DEF MarkVerified, Handle

LEMMA ReadBackOnWay ==
  ASSUME RoutingInv, WayInv, NEW s \in Receiver, ReadBack(s)
  PROVE  WayInv'
  <1>1. PICK p : p = handling[s] /\ p.pc = "readback" /\ Tallied(p) /\ OnItsWay(p)
    BY DEF ReadBack, Stands, RoutingInv, WayInv, AllOnTheirWay
  <1>2. PICK n : /\ handling' = [handling EXCEPT ![s] = n]
                 /\ n = Processed(p) \/ n = [p EXCEPT !.pc = "confirm"]
    BY <1>1 DEF ReadBack, Handle
  <1>3. OnItsWay(n)
    BY <1>1, <1>2, ProcessedGoesOn, ConfirmOnItsWay DEF Tallied, OnItsWay
  <1>4. UNCHANGED <<accounts, stored, hint, sendable>> /\ SameUse
    BY DEF ReadBack, SameUse
  <1> QED BY <1>2, <1>3, <1>4, WayMoves, RowsStay DEF WayInv

LEMMA StoreForwardConfirmOnWay ==
  ASSUME RoutingInv, WayInv, NEW s \in Receiver, StoreForwardConfirm(s)
  PROVE  WayInv'
  <1>1. PICK p : p = handling[s] /\ p.pc = "confirm" /\ Tallied(p) /\ OnItsWay(p)
    BY DEF StoreForwardConfirm, Stands, RoutingInv, WayInv, AllOnTheirWay
  <1>2. PICK n : /\ handling' = [handling EXCEPT ![s] = n]
                 /\ \/ n = Processed(p) \/ n = [p EXCEPT !.pc = "resolve"]
                    \/ \E k : n = [p EXCEPT !.keys = p.keys \ {k}]
    BY <1>1 DEF StoreForwardConfirm, Handle
  <1>3. UNCHANGED <<stored, hint, sendable>>
    BY DEF StoreForwardConfirm
  <1>4. OnItsWay(n)
    <2>1. CASE n = Processed(p)
      BY <1>1, <2>1, ProcessedGoesOn DEF Tallied, OnItsWay
    <2>2. CASE n = [p EXCEPT !.pc = "resolve"]
      <3>1. n.pc = "resolve" /\ n.hook = p.hook /\ n.at = p.at /\ n.lookups = p.lookups
        BY <1>1, <2>2 DEF Tallied, RequestFields
      <3>2. EventIn(n) = EventIn(p) /\ Tried(n) = Tried(p)
        BY <3>1 DEF EventIn, Tried
      <3> QED BY <1>1, <3>1, <3>2 DEF OnItsWay
    <2>3. CASE \E k : n = [p EXCEPT !.keys = p.keys \ {k}]
      <3>1. n.pc = "confirm" /\ n.hook = p.hook /\ n.at = p.at /\ n.lookups = p.lookups
        BY <1>1, <2>3 DEF Tallied, RequestFields
      <3>2. EventIn(n) = EventIn(p) /\ Tried(n) = Tried(p)
        BY <3>1 DEF EventIn, Tried
      <3> QED BY <1>1, <3>1, <3>2 DEF OnItsWay
    <2> QED BY <1>2, <2>1, <2>2, <2>3
  <1>5. CASE UNCHANGED accounts
    <2>1. SameUse
      BY <1>5 DEF SameUse
    <2> QED BY <1>2, <1>3, <1>4, <1>5, <2>1, WayMoves, RowsStay DEF WayInv
  <1>6. CASE \E a \in Account : Alter(a, [accounts[a] EXCEPT !.confirm = EventOf(s).confirm])
    <2>1. PICK a, old, code, row : /\ a \in Account /\ old = accounts[a] /\ row = [old EXCEPT !.confirm = code]
                                   /\ accounts' = [accounts EXCEPT ![a] = row]
      BY <1>6 DEF Alter
    <2>2. row.active = old.active /\ row.verified = old.verified
      BY <2>1
    <2>3. RowsTyped
      BY DEF WayInv
    <2>4. SameUse
      BY <2>1, <2>2, <2>3 DEF SameUse, RowsTyped
    <2>5. row.active \in BOOLEAN /\ row.verified \in BOOLEAN
      BY <2>1, <2>2, <2>3 DEF RowsTyped
    <2>6. RowsTyped'
      BY <1>3, <2>1, <2>3, <2>5 DEF RowsTyped
    <2> QED BY <1>2, <1>4, <2>4, <2>6, WayMoves DEF WayInv
  <1> QED BY <1>5, <1>6 DEF StoreForwardConfirm

\* A lookup that found nothing, with what is left of them.
LEMMA NextLookupGoesOn ==
  ASSUME NEW p, Tallied(p), OnItsWay(p), p.pc = "resolve", NEW l \in p.lookups, \A m \in p.lookups : Before(l, m),
         Found(EventIn(p), l) = {} \/ p.clean = FALSE, NEW n, n = NextLookup(p, l)
  PROVE  OnItsWay(n)
  <1>1. CASE p.lookups = {l}
    BY <1>1, FailedGoesOn DEF NextLookup, Tallied, OnItsWay
  <1>2. CASE p.lookups # {l}
    <2>1. n = [p EXCEPT !.lookups = p.lookups \ {l}]
      BY <1>2 DEF NextLookup
    <2>2. /\ n.pc = p.pc /\ n.hook = p.hook /\ n.at = p.at /\ n.clean = p.clean
          /\ n.lookups = p.lookups \ {l}
      BY <2>1 DEF Tallied, RequestFields
    <2>3. EventIn(n) = EventIn(p)
      BY <2>2 DEF EventIn
    <2>4. \A m \in Tried(n) : m \in Tried(p) \/ m = l
      BY <2>2, <2>3 DEF Tried
    <2>5. n.lookups # {} /\ n.lookups \subseteq Lookups(EventIn(n))
      BY <1>2, <2>2, <2>3 DEF OnItsWay
    <2>6. ASSUME n.clean PROVE \A m \in Tried(n) : Found(EventIn(n), m) = {} /\ \A o \in n.lookups : Before(m, o)
      <3>1. \A m \in Tried(p) : Found(EventIn(p), m) = {} /\ \A o \in p.lookups : Before(m, o)
        BY <2>2, <2>6 DEF OnItsWay
      <3>2. Found(EventIn(p), l) = {}
        BY <2>2, <2>6
      <3> QED BY <2>2, <2>3, <2>4, <3>1, <3>2
    <2> QED BY <2>2, <2>3, <2>5, <2>6 DEF OnItsWay
  <1> QED BY <1>1, <1>2

LEMMA ResolvedGoesOn ==
  ASSUME NEW p, Tallied(p), OnItsWay(p), p.pc = "resolve", NEW l \in p.lookups, \A m \in p.lookups : Before(l, m),
         NEW a \in Found(EventIn(p), l), NEW n, n = [p EXCEPT !.pc = "store", !.account = a]
  PROVE  OnItsWay(n)
  <1>1. /\ n.pc = "store" /\ n.hook = p.hook /\ n.at = p.at /\ n.clean = p.clean /\ n.account = a
    BY DEF Tallied, RequestFields
  <1>2. EventIn(n) = EventIn(p)
    BY <1>1 DEF EventIn
  <1>3. PICK e : e = EventIn(p)
    OBVIOUS
  <1>4. Event(e) /\ p.lookups \subseteq Lookups(e)
    BY <1>3 DEF Event, EventIn, OnItsWay
  <1>5. a \in Account
    BY DEF Found, ByRoutingKey, ByAlias, ByChannelAndExternalID
  <1>6. ASSUME p.clean PROVE a \in Owners(e)
    <2>1. \A m \in Lookups(e) \ p.lookups : Found(e, m) = {}
      BY <1>3, <1>6 DEF OnItsWay, Tried
    <2> QED BY <1>3, <1>4, <2>1, FirstFoundOwns
  <1> QED BY <1>1, <1>2, <1>3, <1>5, <1>6 DEF OnItsWay

LEMMA ResolveAccountOnWay ==
  ASSUME RoutingInv, WayInv, NEW s \in Receiver, ResolveAccount(s)
  PROVE  WayInv'
  <1>1. PICK p : p = handling[s] /\ p.pc = "resolve" /\ Tallied(p) /\ OnItsWay(p)
    BY DEF ResolveAccount, Stands, RoutingInv, WayInv, AllOnTheirWay
  <1>2. PICK unclear : unclear = [p EXCEPT !.clean = FALSE]
    OBVIOUS
  <1>3. /\ unclear.pc = "resolve" /\ unclear.hook = p.hook /\ unclear.at = p.at /\ unclear.lookups = p.lookups
        /\ unclear.clean = FALSE
    BY <1>1, <1>2 DEF Tallied, RequestFields
  <1>4. Tallied(unclear)
    BY <1>1, <1>2 DEF Tallied, RequestFields
  <1>5. OnItsWay(unclear)
    <2>1. EventIn(unclear) = EventIn(p)
      BY <1>3 DEF EventIn
    <2> QED BY <1>1, <1>3, <2>1 DEF OnItsWay
  <1>6. EventOf(s) = EventIn(p)
    BY <1>1 DEF EventOf, EventIn
  <1>7. PICK l \in p.lookups :
           /\ \A m \in p.lookups : Before(l, m)
           /\ \/ \E a \in Found(EventIn(p), l) : Handle(s, Resolved(s, a))
              \/ Found(EventIn(p), l) = {} /\ Handle(s, NextLookup(p, l))
              \/ Handle(s, EventFailed(p, FALSE))
              \/ Handle(s, NextLookup(unclear, l))
    BY <1>1, <1>2, <1>6 DEF ResolveAccount
  <1>8. \E n : handling' = [handling EXCEPT ![s] = n] /\ OnItsWay(n)
    <2>1. ASSUME NEW a \in Found(EventIn(p), l), Handle(s, Resolved(s, a))
          PROVE  \E n : handling' = [handling EXCEPT ![s] = n] /\ OnItsWay(n)
      <3>1. PICK n : n = Resolved(s, a)
        OBVIOUS
      <3>2. ASSUME n = [p EXCEPT !.pc = "store", !.account = a] PROVE OnItsWay(n)
        BY <1>1, <1>7, <3>2, ResolvedGoesOn
      <3>3. ASSUME n = Processed(p) PROVE OnItsWay(n)
        BY <1>1, <3>3, ProcessedGoesOn DEF Tallied, OnItsWay
      <3>4. OnItsWay(n)
        BY <1>1, <3>1, <3>2, <3>3 DEF Resolved
      <3> QED BY <2>1, <3>1, <3>4 DEF Handle
    <2>2. ASSUME Found(EventIn(p), l) = {}, Handle(s, NextLookup(p, l))
          PROVE  \E n : handling' = [handling EXCEPT ![s] = n] /\ OnItsWay(n)
      <3>1. PICK n : n = NextLookup(p, l)
        OBVIOUS
      <3>2. OnItsWay(n)
        BY <1>1, <1>7, <2>2, <3>1, NextLookupGoesOn
      <3> QED BY <2>2, <3>1, <3>2 DEF Handle
    <2>3. ASSUME Handle(s, EventFailed(p, FALSE))
          PROVE  \E n : handling' = [handling EXCEPT ![s] = n] /\ OnItsWay(n)
      <3>1. PICK n : n = EventFailed(p, FALSE)
        OBVIOUS
      <3>2. OnItsWay(n)
        BY <1>1, <3>1, FailedGoesOn DEF Tallied, OnItsWay
      <3> QED BY <2>3, <3>1, <3>2 DEF Handle
    <2>4. ASSUME Handle(s, NextLookup(unclear, l))
          PROVE  \E n : handling' = [handling EXCEPT ![s] = n] /\ OnItsWay(n)
      <3>1. PICK n : n = NextLookup(unclear, l)
        OBVIOUS
      <3>2. l \in unclear.lookups /\ \A m \in unclear.lookups : Before(l, m)
        BY <1>3, <1>7
      <3>3. OnItsWay(n)
        BY <1>3, <1>4, <1>5, <3>1, <3>2, NextLookupGoesOn
      <3> QED BY <2>4, <3>1, <3>3 DEF Handle
    <2> QED BY <1>7, <2>1, <2>2, <2>3, <2>4
  <1>9. UNCHANGED <<accounts, stored, hint, sendable>> /\ SameUse
    BY DEF ResolveAccount, SameUse
  <1> QED BY <1>8, <1>9, WayMoves, RowsStay DEF WayInv

LEMMA ThreadIsEarlier ==
  ASSUME RowsTyped, TablesTrue, NEW e, NEW a, NEW c \in ThreadOf(e, a)
  PROVE  c \in 1..(Len(stored) + 1)
  <1>1. PICK k \in DOMAIN stored : c = stored[k].conv
    BY DEF ThreadOf
  <1>2. k \in 1..Len(stored) /\ Len(stored) \in Nat
    BY DEF TablesTrue
  <1>3. c \in 1..k
    BY <1>1 DEF RowsTyped
  <1> QED BY <1>2, <1>3

LEMMA StoreMessageOnWay ==
  ASSUME RoutingInv, WayInv, NEW s \in Receiver, StoreMessage(s)
  PROVE  WayInv'
  <1>1. PICK p : p = handling[s] /\ p.pc = "store" /\ Tallied(p) /\ OnItsWay(p)
    BY DEF StoreMessage, Stands, RoutingInv, WayInv, AllOnTheirWay
  <1>2. UNCHANGED <<accounts, sendable>> /\ SameUse
    BY DEF StoreMessage, SameUse
  <1>3. RowsTyped /\ TablesTrue
    BY DEF WayInv, RoutingInv
  <1>4. CASE /\ handling' = [handling EXCEPT ![s] = Processed(p)] \/ handling' = [handling EXCEPT ![s] = EventFailed(p, FALSE)]
             /\ UNCHANGED <<stored, hint>>
    <2>1. PICK n : handling' = [handling EXCEPT ![s] = n] /\ (n = Processed(p) \/ n = EventFailed(p, FALSE))
      BY <1>4
    <2>2. OnItsWay(n)
      BY <1>1, <2>1, ProcessedGoesOn, FailedGoesOn DEF Tallied, OnItsWay
    <2> QED BY <1>2, <1>4, <2>1, <2>2, WayMoves, RowsStay DEF WayInv
  <1>5. CASE /\ \E conv \in 1..(Len(stored) + 1) :
                   stored' = Append(stored, [event |-> EventOf(s), account |-> p.account, conv |-> conv])
             /\ hint' = Append(hint, [customer |-> 0, source |-> ""])
             /\ handling' = [handling EXCEPT ![s] = [p EXCEPT !.pc = "promote", !.files = Attached(EventOf(s)),
                                                              !.row = Len(stored) + 1, !.new = TRUE]]
    <2>1. PICK conv, new, blank, files, n :
             /\ conv \in 1..(Len(stored) + 1) /\ new.conv = conv /\ new.account = p.account /\ stored' = Append(stored, new)
             /\ hint' = Append(hint, blank)
             /\ n = [p EXCEPT !.pc = "promote", !.files = files, !.row = Len(stored) + 1, !.new = TRUE]
             /\ handling' = [handling EXCEPT ![s] = n]
      <3>1. PICK conv \in 1..(Len(stored) + 1) :
               stored' = Append(stored, [event |-> EventOf(s), account |-> p.account, conv |-> conv])
        BY <1>5
      <3>2. PICK new : new = [event |-> EventOf(s), account |-> p.account, conv |-> conv]
        OBVIOUS
      <3>3. new.conv = conv /\ new.account = p.account
        BY <3>2
      <3> QED BY <1>5, <3>1, <3>2, <3>3
    <2>2. n.pc = "promote" /\ n.hook = p.hook /\ n.at = p.at
      BY <1>1, <2>1 DEF Tallied, RequestFields
    <2>3. OnItsWay(n)
      BY <1>1, <2>2, ElsewhereOnItsWay DEF OnItsWay
    <2>4. AllOnTheirWay'
      BY <1>2, <2>1, <2>3, WayMoves DEF WayInv
    <2>5. PICK rows, hints : rows = {stored[k] : k \in DOMAIN stored} \union {new}
                             /\ hints = {hint[k] : k \in DOMAIN hint} \union {blank}
      OBVIOUS
    <2>6. stored \in Seq(rows) /\ new \in rows /\ hint \in Seq(hints) /\ blank \in hints
      BY <1>3, <2>5 DEF RowsTyped, TablesTrue
    <2>7. /\ Len(stored) \in Nat /\ DOMAIN stored = 1..Len(stored)
          /\ DOMAIN stored' = 1..(Len(stored) + 1) /\ Len(stored') = Len(stored) + 1
          /\ \A k \in DOMAIN stored : stored'[k] = stored[k]
          /\ stored'[Len(stored) + 1] = new
      BY <2>1, <2>6
    <2>8. /\ Len(hint) \in Nat /\ hint' \in Seq(hints) /\ Len(hint') = Len(hint) + 1
      BY <2>1, <2>6
    <2>9. hint' \in Seq({hint'[k] : k \in DOMAIN hint'}) /\ Len(hint') = Len(stored')
      <3>1. Len(hint') = Len(stored')
        BY <1>3, <2>7, <2>8 DEF RowsTyped
      <3>2. DOMAIN hint' = 1..Len(hint') /\ Len(hint') \in Nat
        BY <2>8
      <3>3. hint' \in Seq({hint'[k] : k \in DOMAIN hint'})
        BY <2>8, <3>2
      <3> QED BY <3>1, <3>3
    <2>10. \A k \in DOMAIN stored' : stored'[k].conv \in 1..k /\ stored'[k].account \in Account
      <3>1. p.account \in Account
        BY <1>1 DEF OnItsWay
      <3>2. ASSUME NEW k \in DOMAIN stored' PROVE stored'[k].conv \in 1..k /\ stored'[k].account \in Account
        <4>1. CASE k = Len(stored) + 1
          BY <2>1, <2>7, <3>1, <4>1
        <4>2. CASE k # Len(stored) + 1
          BY <1>3, <2>7, <4>2 DEF RowsTyped
        <4> QED BY <4>1, <4>2
      <3> QED BY <3>2
    <2>11. RowsTyped'
      BY <1>2, <1>3, <2>9, <2>10 DEF RowsTyped
    <2> QED BY <2>4, <2>11 DEF WayInv
  <1>6. \/ /\ handling' = [handling EXCEPT ![s] = Processed(p)] \/ handling' = [handling EXCEPT ![s] = EventFailed(p, FALSE)]
           /\ UNCHANGED <<stored, hint>>
        \/ /\ \E conv \in 1..(Len(stored) + 1) :
                 stored' = Append(stored, [event |-> EventOf(s), account |-> p.account, conv |-> conv])
           /\ hint' = Append(hint, [customer |-> 0, source |-> ""])
           /\ handling' = [handling EXCEPT ![s] = [p EXCEPT !.pc = "promote", !.files = Attached(EventOf(s)),
                                                            !.row = Len(stored) + 1, !.new = TRUE]]
    <2>1. PICK conv : conv = IF ThreadOf(EventOf(s), p.account) = {} THEN Len(stored) + 1
                             ELSE CHOOSE c \in ThreadOf(EventOf(s), p.account) : TRUE
      OBVIOUS
    <2>2. conv \in 1..(Len(stored) + 1)
      <3>1. Len(stored) \in Nat
        BY <1>3 DEF TablesTrue
      <3>2. CASE ThreadOf(EventOf(s), p.account) = {}
        BY <2>1, <3>1, <3>2
      <3>3. CASE ThreadOf(EventOf(s), p.account) # {}
        BY <1>3, <2>1, <3>3, ThreadIsEarlier
      <3> QED BY <3>2, <3>3
    <2>3. \/ Handle(s, Processed(p)) /\ UNCHANGED <<stored, hint>>
          \/ Handle(s, EventFailed(p, FALSE)) /\ UNCHANGED <<stored, hint>>
          \/ /\ stored' = Append(stored, [event |-> EventOf(s), account |-> p.account, conv |-> conv])
             /\ hint' = Append(hint, [customer |-> 0, source |-> ""])
             /\ Handle(s, [p EXCEPT !.pc = "promote", !.files = Attached(EventOf(s)), !.row = Len(stored) + 1, !.new = TRUE])
      BY <1>1, <2>1 DEF StoreMessage
    <2> QED BY <2>2, <2>3 DEF Handle
  <1> QED BY <1>4, <1>5, <1>6

LEMMA PromoteAttachmentsOnWay ==
  ASSUME RoutingInv, WayInv, NEW s \in Receiver, PromoteAttachments(s)
  PROVE  WayInv'
  <1>1. PICK p : p = handling[s] /\ p.pc = "promote" /\ Tallied(p) /\ OnItsWay(p)
    BY DEF PromoteAttachments, Stands, RoutingInv, WayInv, AllOnTheirWay
  <1>2. UNCHANGED <<accounts, stored, hint, sendable>> /\ SameUse
    BY DEF PromoteAttachments, SameUse
  <1>3. PICK n : /\ handling' = [handling EXCEPT ![s] = n]
                 /\ n = [p EXCEPT !.pc = "backfill"] \/ \E k : n = [p EXCEPT !.files = p.files \ {k}]
    BY <1>1 DEF PromoteAttachments, Handle
  <1>4. n.pc \in {"promote", "backfill"} /\ n.hook = p.hook /\ n.at = p.at
    BY <1>1, <1>3 DEF Tallied, RequestFields
  <1>5. OnItsWay(n)
    BY <1>1, <1>4, ElsewhereOnItsWay DEF OnItsWay
  <1> QED BY <1>2, <1>3, <1>5, WayMoves, RowsStay DEF WayInv

\* The customer written over the hint of a conversation.
LEMMA HintTyped ==
  ASSUME RowsTyped, NEW c, NEW x, hint' = [hint EXCEPT ![c] = x] \/ UNCHANGED hint,
         UNCHANGED <<accounts, stored, sendable>>
  PROVE  RowsTyped'
  <1>1. CASE hint' = [hint EXCEPT ![c] = x]
    <2>1. PICK hints : hints = {hint[k] : k \in DOMAIN hint} \union {x}
      OBVIOUS
    <2>2. hint \in Seq(hints) /\ x \in hints /\ Len(hint) = Len(stored)
      BY <2>1 DEF RowsTyped
    <2>3. hint' \in Seq(hints) /\ Len(hint') = Len(hint)
      <3>1. Len(hint) \in Nat /\ hint \in [1..Len(hint) -> hints]
        BY <2>2
      <3>2. hint' \in [1..Len(hint) -> hints]
        BY <1>1, <2>2, <3>1
      <3> QED BY <3>1, <3>2
    <2>4. DOMAIN hint' = 1..Len(hint') /\ Len(hint') \in Nat
      BY <2>3
    <2>5. hint' \in Seq({hint'[k] : k \in DOMAIN hint'})
      BY <2>3, <2>4
    <2> QED BY <2>2, <2>3, <2>5 DEF RowsTyped
  <1>2. CASE UNCHANGED hint
    BY <1>2 DEF RowsTyped
  <1> QED BY <1>1, <1>2

LEMMA BackfillsOnWay ==
  ASSUME RoutingInv, WayInv, NEW s \in Receiver, BackfillReferencedCase(s) \/ BackfillSenderCustomer(s)
  PROVE  WayInv'
  <1>1. PICK p : p = handling[s] /\ p.pc \in {"backfill", "sender"} /\ Tallied(p) /\ OnItsWay(p)
    BY DEF BackfillReferencedCase, BackfillSenderCustomer, Stands, RoutingInv, WayInv, AllOnTheirWay
  <1>2. UNCHANGED <<accounts, stored, sendable>> /\ SameUse
    BY DEF BackfillReferencedCase, BackfillSenderCustomer, SameUse
  <1>3. PICK n : /\ handling' = [handling EXCEPT ![s] = n]
                 /\ n = Processed(p) \/ n = [p EXCEPT !.pc = "sender"]
    BY <1>1 DEF BackfillReferencedCase, BackfillSenderCustomer, Handle
  <1>4. OnItsWay(n)
    <2>1. ASSUME n = [p EXCEPT !.pc = "sender"] PROVE OnItsWay(n)
      <3>1. n.pc = "sender" /\ n.hook = p.hook /\ n.at = p.at
        BY <1>1, <2>1 DEF Tallied, RequestFields
      <3> QED BY <1>1, <3>1, ElsewhereOnItsWay DEF OnItsWay
    <2>2. ASSUME n = Processed(p) PROVE OnItsWay(n)
      BY <1>1, <2>2, ProcessedGoesOn DEF Tallied, OnItsWay
    <2> QED BY <1>3, <2>1, <2>2
  <1>5. \E c, x : hint' = [hint EXCEPT ![c] = x] \/ UNCHANGED hint
    BY DEF BackfillReferencedCase, BackfillSenderCustomer, WriteBackfill
  <1>6. RowsTyped'
    BY <1>2, <1>5, HintTyped DEF WayInv
  <1> QED BY <1>2, <1>3, <1>4, <1>6, WayMoves DEF WayInv

LEMMA EndsOnWay ==
  ASSUME RoutingInv, WayInv, NEW s \in Receiver, Respond200(s) \/ Crash(s)
  PROVE  WayInv'
  <1>1. UNCHANGED <<accounts, stored, hint, sendable>> /\ SameUse
    BY DEF Respond200, Crash, SameUse
  <1>2. handling' = [handling EXCEPT ![s] = Waiting]
    BY DEF Respond200, Crash, Answer, Handle
  <1> QED BY <1>1, <1>2, WaitingOnItsWay, WayMoves, RowsStay DEF WayInv

LEMMA ToggleOnWay ==
  ASSUME RoutingInv, WayInv, NEW a \in Account, Toggle(a)
  PROVE  WayInv'
  <1>1. /\ UNCHANGED <<stored, hint, sendable>>
        /\ handling' = [s \in Receiver |-> Muddled(handling[s])]
    BY DEF Toggle
  <1>2. PICK old, row : old = accounts[a] /\ row = [old EXCEPT !.active = ~old.active]
                        /\ accounts' = [accounts EXCEPT ![a] = row]
    BY DEF Toggle, Alter
  <1>3. RowsTyped
    BY DEF WayInv
  <1>4. old.active \in BOOLEAN /\ old.verified \in BOOLEAN
    BY <1>2, <1>3 DEF RowsTyped
  <1>5. row.active \in BOOLEAN /\ row.verified \in BOOLEAN
    BY <1>2, <1>4
  <1>6. RowsTyped'
    BY <1>1, <1>2, <1>3, <1>5 DEF RowsTyped
  <1>7. \A t \in Receiver : OnItsWay(handling[t])'
    BY <1>1, OthersGoOn DEF WayInv
  <1> QED BY <1>6, <1>7 DEF WayInv, AllOnTheirWay

LEMMA WayStarts == RoutingInit => WayInv
  <1> SUFFICES ASSUME RoutingInit
               PROVE  WayInv
    OBVIOUS
  <1>1. /\ \A s \in Receiver : handling[s] = Waiting
        /\ stored = <<>> /\ hint = <<>>
        /\ accounts = [a \in Account |-> [active |-> TRUE, verified |-> Registered[a].verified, confirm |-> ""]]
        /\ sendable \subseteq Hook
    BY RoutingAssumption DEF RoutingInit
  <1>2. AllOnTheirWay
    BY <1>1, WaitingOnItsWay DEF AllOnTheirWay
  <1>3. \A a \in Account : accounts[a].active \in BOOLEAN /\ accounts[a].verified \in BOOLEAN
    BY <1>1, RoutingAssumption
  <1>4. hint \in Seq({hint[k] : k \in DOMAIN hint}) /\ Len(hint) = Len(stored) /\ DOMAIN stored = {}
    <2>1. hint \in Seq({hint[k] : k \in DOMAIN hint})
      BY <1>1, EmptySeq
    <2>2. Len(hint) = 0
      BY <1>1, EmptySeq
    <2>3. Len(stored) = 0 /\ stored \in Seq({})
      BY <1>1, EmptySeq
    <2>4. DOMAIN stored = 1..0
      BY <2>3
    <2> QED BY <2>1, <2>2, <2>3, <2>4
  <1>5. RowsTyped
    BY <1>1, <1>3, <1>4 DEF RowsTyped
  <1> QED BY <1>2, <1>5 DEF WayInv

LEMMA WayGoesOn == RoutingInv /\ WayInv /\ [RoutingNext]_routingVars => WayInv'
  <1> SUFFICES ASSUME RoutingInv, WayInv, [RoutingNext]_routingVars
               PROVE  WayInv'
    OBVIOUS
  <1>1. CASE UNCHANGED routingVars
    <2>1. handling' = handling /\ UNCHANGED <<accounts, stored, hint, sendable>> /\ SameUse
      BY <1>1 DEF routingVars, SameUse
    <2>2. AllOnTheirWay'
      <3>1. ASSUME NEW t \in Receiver PROVE OnItsWay(handling[t])'
        <4>1. PICK p : p = handling[t]
          OBVIOUS
        <4>2. OnItsWay(p)'
          BY <2>1, <4>1, WayKept DEF WayInv, AllOnTheirWay
        <4> QED BY <2>1, <4>1, <4>2 DEF OnItsWay, EventIn, Tried
      <3> QED BY <3>1 DEF AllOnTheirWay
    <2> QED BY <2>1, <2>2, RowsStay DEF WayInv
  <1>2. ASSUME NEW s \in Receiver, NEW hook \in Hook, Receive(s, hook)
        PROVE  WayInv'
    BY <1>2, ReceiveOnWay
  <1>3. ASSUME NEW s \in Receiver,
               \/ CheckSignature(s) \/ MarkVerified(s) \/ ReadBack(s) \/ StoreForwardConfirm(s)
               \/ ResolveAccount(s) \/ StoreMessage(s) \/ PromoteAttachments(s)
               \/ BackfillReferencedCase(s) \/ BackfillSenderCustomer(s)
               \/ Respond200(s) \/ Crash(s)
        PROVE  WayInv'
    BY <1>3, CheckSignatureOnWay, MarkVerifiedOnWay, ReadBackOnWay, StoreForwardConfirmOnWay,
       ResolveAccountOnWay, StoreMessageOnWay, PromoteAttachmentsOnWay, BackfillsOnWay, EndsOnWay
  <1>4. ASSUME NEW a \in Account, Toggle(a)
        PROVE  WayInv'
    BY <1>4, ToggleOnWay
  <1> QED BY <1>1, <1>2, <1>3, <1>4 DEF RoutingNext

LEMMA WayAlways == RoutingSpec => [](RoutingInv /\ WayInv)
  <1>1. RoutingInit => RoutingInv /\ WayInv
    BY RoutingStarts, WayStarts
  <1>2. (RoutingInv /\ WayInv) /\ [RoutingNext]_routingVars => (RoutingInv /\ WayInv)'
    BY RoutingGoesOn, WayGoesOn
  <1> QED BY <1>1, <1>2, PTL DEF RoutingSpec

(***************************************************************************)
(* A request that still looks for its account has a lookup left, and every *)
(* message, hint and file belongs to a row there is: ResolveAccount never  *)
(* looks at nothing (src/internal/application/workflows/omnichannel).      *)
(***************************************************************************)
THEOREM RoutingTypeCorrect == RoutingSpec => []RoutingTypeOK
  <1>1. RoutingInv /\ WayInv => RoutingTypeOK
    BY DEF RoutingInv, TablesTrue, WayInv, RowsTyped, AllOnTheirWay, OnItsWay, RoutingTypeOK, Stands
  <1> QED BY <1>1, WayAlways, PTL

-----------------------------------------------------------------------------
\* Only a request that stores a message goes on to its files.
LEMMA OnlyStoreStores ==
  ASSUME RoutingInv, NEW s \in Receiver, Stands(s, "store"), handling'[s].pc = "promote",
         [RoutingNext]_routingVars
  PROVE  StoreMessage(s)
  <1>1. PICK p : p = handling[s] /\ p.pc = "store" /\ Tallied(p)
    BY DEF Stands, RoutingInv
  <1>2. DOMAIN handling = Receiver
    BY DEF RoutingInv
  <1>3. Muddled(p).pc = "store"
    BY <1>1, MuddledIs
  <1>4. handling'[s] # p /\ handling'[s] # Muddled(p)
    BY <1>1, <1>3
  <1>5. ASSUME NEW t \in Receiver, t # s, \E n : handling' = [handling EXCEPT ![t] = n]
        PROVE  FALSE
    BY <1>1, <1>2, <1>4, <1>5
  <1>6. ~(UNCHANGED routingVars)
    BY <1>1, <1>4 DEF routingVars
  <1>7. ASSUME NEW a \in Account, Toggle(a) PROVE FALSE
    BY <1>1, <1>4, <1>7 DEF Toggle
  <1>8. ASSUME NEW t \in Receiver, NEW hook \in Hook, Receive(t, hook) PROVE FALSE
    BY <1>1, <1>5, <1>8 DEF Receive, Stands, Handle
  <1>9. ASSUME NEW t \in Receiver, MarkVerified(t) PROVE FALSE
    <2>1. t # s
      BY <1>1, <1>9 DEF MarkVerified, Stands
    <2>2. handling'[s] = Muddled(p) \/ \E n : handling' = [handling EXCEPT ![t] = n]
      BY <1>1, <1>9, <2>1 DEF MarkVerified, Handle
    <2> QED BY <1>4, <1>5, <2>1, <2>2
  <1>10. ASSUME NEW t \in Receiver, CheckSignature(t) PROVE FALSE
    BY <1>1, <1>5, <1>10 DEF CheckSignature, Parse, Answer, Stands, Handle
  <1>11. ASSUME NEW t \in Receiver, ReadBack(t) PROVE FALSE
    BY <1>1, <1>5, <1>11 DEF ReadBack, Stands, Handle
  <1>12. ASSUME NEW t \in Receiver, StoreForwardConfirm(t) PROVE FALSE
    BY <1>1, <1>5, <1>12 DEF StoreForwardConfirm, Stands, Handle
  <1>13. ASSUME NEW t \in Receiver, ResolveAccount(t) PROVE FALSE
    BY <1>1, <1>5, <1>13 DEF ResolveAccount, Stands, Handle
  <1>14. ASSUME NEW t \in Receiver, StoreMessage(t) PROVE t = s
    BY <1>5, <1>14 DEF StoreMessage, Handle
  <1>15. ASSUME NEW t \in Receiver, PromoteAttachments(t) PROVE FALSE
    BY <1>1, <1>5, <1>15 DEF PromoteAttachments, Stands, Handle
  <1>16. ASSUME NEW t \in Receiver, BackfillReferencedCase(t) \/ BackfillSenderCustomer(t) PROVE FALSE
    BY <1>1, <1>5, <1>16 DEF BackfillReferencedCase, BackfillSenderCustomer, Stands, Handle
  <1>17. ASSUME NEW t \in Receiver, Respond200(t) \/ Crash(t) PROVE FALSE
    <2>1. handling' = [handling EXCEPT ![t] = Waiting]
      BY <1>17 DEF Respond200, Crash, Answer, Handle
    <2>2. Waiting.pc = "waiting"
      BY DEF Waiting
    <2>3. t # s
      BY <1>2, <2>1, <2>2
    <2> QED BY <1>5, <2>1, <2>3
  <1> QED BY <1>6, <1>7, <1>8, <1>9, <1>10, <1>11, <1>12, <1>13, <1>14, <1>15, <1>16, <1>17 DEF RoutingNext

LEMMA StoredForOwner ==
  ASSUME RoutingInv, WayInv, NEW s \in Receiver, handling[s].clean, handling'[s].pc = "promote", StoreMessage(s)
  PROVE  Last(stored').account \in Owners(EventOf(s))
  <1>1. PICK p : p = handling[s] /\ p.pc = "store" /\ Tallied(p) /\ OnItsWay(p) /\ p.clean
    BY DEF StoreMessage, Stands, RoutingInv, WayInv, AllOnTheirWay
  <1>2. DOMAIN handling = Receiver
    BY DEF RoutingInv
  <1>3. EventOf(s) = EventIn(p)
    BY <1>1 DEF EventOf, EventIn
  <1>4. p.account \in Owners(EventIn(p))
    BY <1>1 DEF OnItsWay
  <1>5. \A n : n = Processed(p) \/ n = EventFailed(p, FALSE) => n.pc # "promote"
    <2>1. ASSUME NEW n, n = Processed(p) PROVE n.pc # "promote"
      BY <1>1, <2>1, ProcessedIs DEF Aside, Tallied
    <2>2. ASSUME NEW n, n = EventFailed(p, FALSE) PROVE n.pc # "promote"
      BY <1>1, <2>2, FailedIs DEF Aside
    <2> QED BY <2>1, <2>2
  <1>6. ~(handling' = [handling EXCEPT ![s] = Processed(p)]) /\ ~(handling' = [handling EXCEPT ![s] = EventFailed(p, FALSE)])
    BY <1>2, <1>5
  <1>7. PICK conv, new : /\ new = [event |-> EventOf(s), account |-> p.account, conv |-> conv]
                         /\ stored' = Append(stored, new)
    BY <1>1, <1>6 DEF StoreMessage, Handle
  <1>8. PICK rows : rows = {stored[k] : k \in DOMAIN stored} \union {new}
    OBVIOUS
  <1>9. stored \in Seq(rows) /\ new \in rows
    BY <1>8 DEF RoutingInv, TablesTrue
  <1>10. stored'[Len(stored')] = new
    BY <1>7, <1>9
  <1>11. Last(stored') = new
    BY <1>10 DEF Last
  <1>12. new.account = p.account
    BY <1>7
  <1> QED BY <1>3, <1>4, <1>11, <1>12

(***************************************************************************)
(* Whatever recipients a mail names, in whatever order, and however many   *)
(* accounts there are: a request whose lookups all answered, while no      *)
(* account changed, stores its message for an account in use that the most *)
(* preferred kind of recipient names - a routing key before an alias, an   *)
(* alias before an address (resolveAccount, workflows/omnichannel).        *)
(***************************************************************************)
THEOREM MailsReachTheirAccount == RoutingSpec => RoutedByPriority
  <1>1. RoutingInv /\ WayInv /\ [RoutingNext]_routingVars =>
           \A s \in Receiver : Stands(s, "store") /\ handling[s].clean /\ handling'[s].pc = "promote" =>
              Last(stored').account \in Owners(EventOf(s))
    BY OnlyStoreStores, StoredForOwner
  <1>2. RoutingInv /\ WayInv /\ [RoutingNext]_routingVars =>
           [\A s \in Receiver : Stands(s, "store") /\ handling[s].clean /\ handling'[s].pc = "promote" =>
              Last(stored').account \in Owners(EventOf(s))]_routingVars
    BY <1>1
  <1> QED BY <1>2, WayAlways, PTL DEF RoutingSpec, RoutedByPriority

-----------------------------------------------------------------------------
(***************************************************************************)
(* The assessment of mails: the inductive invariant.                       *)
(***************************************************************************)
JobFields == {"pc", "mail", "mode", "attempt", "had", "trees", "policy", "keyword", "threshold",
              "score", "reasons", "required", "products", "result"}

Mails == UNION {p.mails : p \in AssessPlans}

\* The threshold and the evidence of a job are read, and not those of the last attempt.
Weighed(job) ==
    \/ job.pc \in {"spec", "provider", "products", "model"}
    \/ job.pc \in {"write", "decide"} /\ job.policy.evaluation

NamesProduct(job, status, product) ==
    status = "ready" /\ "product" \in job.required => \E titles \in job.trees : Contains(titles, product)

\* What a job holds is of the settings and the trees its company had.
Grounded(job) ==
    /\ JobFields \subseteq DOMAIN job
    /\ job.mail \in Mails /\ job.had \subseteq Settings /\ job.trees \subseteq Trees
    /\ job.policy \in job.had
    /\ Weighed(job) =>
          /\ \E s \in job.had : job.threshold = ParsePromoteThreshold(s.threshold)
          /\ job.policy.rules => job.mail.evidence \subseteq job.reasons
    /\ job.pc = "model" => \E titles \in job.trees : job.products = ProductList(titles)
    /\ job.pc = "write" => NamesProduct(job, job.result.status, job.result.product)

GroundedInv ==
    /\ settings \in Settings /\ tree \in Trees
    /\ DOMAIN assessing = Conversation /\ DOMAIN complete = Conversation
    /\ \A c \in Conversation :
          /\ Grounded(assessing[c]) /\ settings \in assessing[c].had /\ tree \in assessing[c].trees
          /\ assessing[c].pc = "decide" => NamesProduct(assessing[c], complete[c].status, complete[c].product)
    /\ PromotedAsConfigured /\ JunkIsHeld

-----------------------------------------------------------------------------
(***************************************************************************)
(* The confidence.                                                         *)
(***************************************************************************)
LEMMA ClampIs ==
  ASSUME NEW n \in Int
  PROVE  Clamp(n) = IF n < 5 THEN 5 ELSE IF n > 95 THEN 95 ELSE n
  <1>1. Min({95, n}) = IF n > 95 THEN 95 ELSE n
    BY DEF Min
  <1>2. PICK m \in Int : m = Min({95, n}) /\ m = IF n > 95 THEN 95 ELSE n
    BY <1>1
  <1>3. Max({5, m}) = IF m < 5 THEN 5 ELSE m
    BY DEF Max
  <1> QED BY <1>2, <1>3 DEF Clamp

LEMMA ConfidenceIs ==
  ASSUME NEW job
  PROVE  /\ Confidence(job) \in 5..95
         /\ JunkStrong \cap job.reasons # {} /\ "referenced_case" \notin job.mail.evidence =>
               Confidence(job) <= 50
  <1> DEFINE junk == JunkStrong \cap job.reasons # {}
             clean == ~junk /\ (Positive \cap job.reasons # {} \/ job.score >= 50)
             sum == Base(job.result.class) + If(junk, -25) + If(clean, 5)
                    + If("referenced_case" \in job.mail.evidence, 20) + If(job.result.missing = {}, 8)
                    + If(job.result.catalog = "yes", 7) + If(job.result.catalog = "no", -10)
  <1>1. Base(job.result.class) \in Int /\ Base(job.result.class) <= 60
    BY DEF Base
  <1>2. /\ If(junk, -25) \in {-25, 0} /\ (junk => If(junk, -25) = -25)
        /\ If(clean, 5) \in {0, 5} /\ (junk => If(clean, 5) = 0)
    BY DEF If
  <1>3. /\ If("referenced_case" \in job.mail.evidence, 20) \in {0, 20}
        /\ "referenced_case" \notin job.mail.evidence => If("referenced_case" \in job.mail.evidence, 20) = 0
        /\ If(job.result.missing = {}, 8) \in {0, 8}
        /\ If(job.result.catalog = "yes", 7) \in {0, 7} /\ If(job.result.catalog = "no", -10) \in {-10, 0}
    BY DEF If
  <1>4. sum \in Int /\ (junk /\ "referenced_case" \notin job.mail.evidence => sum <= 50)
    <2> HIDE DEF junk, clean
    <2> QED BY <1>1, <1>2, <1>3
  <1>5. Confidence(job) = Clamp(sum)
    BY DEF Confidence
  <1> HIDE DEF sum
  <1>6. Clamp(sum) = IF sum < 5 THEN 5 ELSE IF sum > 95 THEN 95 ELSE sum
    BY <1>4, ClampIs
  <1> QED BY <1>4, <1>5, <1>6

-----------------------------------------------------------------------------
(***************************************************************************)
(* The steps of an assessment.                                             *)
(***************************************************************************)
LEMMA JobMoves ==
  ASSUME GroundedInv, NEW c \in Conversation, NEW n, assessing' = [assessing EXCEPT ![c] = n],
         UNCHANGED <<settings, tree, complete, ticketed>>,
         Grounded(n), settings \in n.had, tree \in n.trees, n.pc # "decide"
  PROVE  GroundedInv'
  BY DEF GroundedInv, PromotedAsConfigured, JunkIsHeld

\* What stays of a job while it goes on.
Same(p, q) ==
    /\ DOMAIN q = DOMAIN p /\ q.mail = p.mail /\ q.mode = p.mode /\ q.attempt = p.attempt
    /\ q.had = p.had /\ q.trees = p.trees

SameRead(p, q) ==
    /\ Same(p, q) /\ q.policy = p.policy /\ q.threshold = p.threshold /\ q.reasons = p.reasons
    /\ q.required = p.required

LEMMA SettledGrounded ==
  ASSUME NEW p, Grounded(p), p.policy.evaluation => Weighed(p), NEW result,
         NamesProduct(p, result.status, result.product), NEW n, n = Settled(p, result)
  PROVE  Grounded(n) /\ n.had = p.had /\ n.trees = p.trees /\ n.pc = "write"
  <1>1. SameRead(p, n) /\ n.pc = "write" /\ n.result = result
    BY DEF Settled, Grounded, JobFields, SameRead, Same
  <1> QED BY <1>1 DEF Grounded, SameRead, Same, Weighed, NamesProduct

\* Without a product nothing is ready.
LEMMA UnreadyGrounded ==
  ASSUME NEW p, NEW class, NEW required
  PROVE  /\ NamesProduct(p, Unknown(class).status, Unknown(class).product)
         /\ NamesProduct(p, EmptyResult(required).status, EmptyResult(required).product)
  BY DEF NamesProduct, Unknown, EmptyResult

LEMMA JobIs ==
  ASSUME GroundedInv, NEW c \in Conversation
  PROVE  /\ Grounded(assessing[c]) /\ settings \in assessing[c].had /\ tree \in assessing[c].trees
         /\ settings \in Settings /\ tree \in Trees
  BY DEF GroundedInv

LEMMA ConfigurationForKeeps ==
  ASSUME GroundedInv, NEW c \in Conversation, ConfigurationFor(c)
  PROVE  GroundedInv'
  <1>1. PICK p : p = assessing[c] /\ p.pc = "policy"
    BY DEF ConfigurationFor, Running
  <1>2. Grounded(p) /\ settings \in p.had /\ tree \in p.trees
    BY <1>1, JobIs
  <1>3. PICK job : job = [p EXCEPT !.policy = settings]
    OBVIOUS
  <1>4. /\ DOMAIN job = DOMAIN p /\ job.pc = "policy" /\ job.mail = p.mail /\ job.had = p.had
        /\ job.trees = p.trees /\ job.policy = settings
    BY <1>1, <1>2, <1>3 DEF Grounded, JobFields
  <1>5. Grounded(job)
    BY <1>2, <1>4 DEF Grounded, Weighed
  <1>6. PICK n : /\ assessing' = [assessing EXCEPT ![c] = n]
                 /\ n = IF settings.evaluation THEN [job EXCEPT !.pc = "keywords"] ELSE Settled(job, Unknown(""))
    BY <1>1, <1>3 DEF ConfigurationFor, GoOn
  <1>7. Grounded(n) /\ n.had = p.had /\ n.trees = p.trees /\ n.pc # "decide"
    <2>1. CASE settings.evaluation
      <3>1. SameRead(job, n) /\ n.pc = "keywords"
        BY <1>5, <1>6, <2>1 DEF Grounded, JobFields, SameRead, Same
      <3> QED BY <1>4, <1>5, <3>1 DEF Grounded, SameRead, Same, Weighed
    <2>2. CASE ~settings.evaluation
      <3>1. n = Settled(job, Unknown("")) /\ ~job.policy.evaluation
        BY <1>4, <1>6, <2>2
      <3>2. NamesProduct(job, Unknown("").status, Unknown("").product)
        BY UnreadyGrounded
      <3>3. Grounded(n) /\ n.had = job.had /\ n.trees = job.trees /\ n.pc = "write"
        BY <1>5, <3>1, <3>2, SettledGrounded
      <3> QED BY <1>4, <3>3
    <2> QED BY <2>1, <2>2
  <1> QED BY <1>2, <1>6, <1>7, JobMoves DEF ConfigurationFor, ReadsOnly

LEMMA IntentKeywordsKeeps ==
  ASSUME GroundedInv, NEW c \in Conversation, IntentKeywords(c)
  PROVE  GroundedInv'
  <1>1. PICK p : p = assessing[c]
    OBVIOUS
  <1>2. Grounded(p) /\ settings \in p.had /\ tree \in p.trees
    BY <1>1, JobIs
  <1>3. PICK n : /\ assessing' = [assessing EXCEPT ![c] = n]
                 /\ n = [p EXCEPT !.keyword = settings.keywords /\ p.mail.words, !.pc = "threshold"]
    BY <1>1 DEF IntentKeywords, GoOn
  <1>4. SameRead(p, n) /\ n.pc = "threshold"
    BY <1>2, <1>3 DEF Grounded, JobFields, SameRead, Same
  <1>5. Grounded(n)
    BY <1>2, <1>4 DEF Grounded, SameRead, Same, Weighed
  <1> QED BY <1>2, <1>3, <1>4, <1>5, JobMoves DEF IntentKeywords, ReadsOnly, SameRead, Same

\* The evidence is all of the mail's, or the company does not want it graded.
LEMMA PromoteThresholdKeeps ==
  ASSUME GroundedInv, NEW c \in Conversation, PromoteThreshold(c)
  PROVE  GroundedInv'
  <1>1. PICK p : p = assessing[c]
    OBVIOUS
  <1>2. Grounded(p) /\ settings \in p.had /\ tree \in p.trees
    BY <1>1, JobIs
  <1>3. PICK r : r = [p EXCEPT !.threshold = ParsePromoteThreshold(settings.threshold)]
    OBVIOUS
  <1>4. PICK n : assessing' = [assessing EXCEPT ![c] = n] /\ n = Graded(r)
    BY <1>1, <1>3 DEF PromoteThreshold, GoOn
  <1>5. /\ Same(p, r) /\ r.policy = p.policy /\ r.threshold = ParsePromoteThreshold(settings.threshold)
    BY <1>2, <1>3 DEF Grounded, JobFields, Same
  <1>6. PICK reasons, score, g :
          /\ reasons = IF ~r.policy.rules THEN {}
                       ELSE r.mail.evidence \union (IF r.keyword THEN {"intent_keyword_match"} ELSE {})
          /\ score = IF r.policy.rules THEN Score(reasons) ELSE 0
          /\ g = [r EXCEPT !.reasons = reasons, !.score = score]
    OBVIOUS
  <1>7. \/ n = Settled(g, Unknown("")) \/ n = Settled(g, Unknown("not_actionable"))
        \/ n = [g EXCEPT !.pc = "spec"]
    BY <1>4, <1>6 DEF Graded
  <1>8. /\ Same(p, g) /\ g.policy = p.policy /\ g.threshold = ParsePromoteThreshold(settings.threshold)
        /\ g.reasons = reasons /\ (p.policy.rules => p.mail.evidence \subseteq g.reasons)
    BY <1>2, <1>5, <1>6 DEF Grounded, JobFields, Same
  <1>9. ASSUME NEW m, Same(g, m), m.policy = g.policy, m.threshold = g.threshold, m.reasons = g.reasons,
               m.pc \in {"write", "spec"}, m.pc = "write" => NamesProduct(m, m.result.status, m.result.product)
        PROVE  Grounded(m) /\ m.had = p.had /\ m.trees = p.trees /\ m.pc # "decide"
    BY <1>2, <1>8, <1>9 DEF Grounded, Same, Weighed
  <1>10. Grounded(n) /\ n.had = p.had /\ n.trees = p.trees /\ n.pc # "decide"
    <2>1. ASSUME NEW class, n = Settled(g, Unknown(class))
          PROVE  Grounded(n) /\ n.had = p.had /\ n.trees = p.trees /\ n.pc # "decide"
      <3>1. /\ Same(g, n) /\ n.policy = g.policy /\ n.threshold = g.threshold /\ n.reasons = g.reasons
            /\ n.pc = "write" /\ n.result = Unknown(class)
        BY <1>2, <1>8, <2>1 DEF Settled, Grounded, JobFields, Same
      <3> QED BY <1>9, <3>1, UnreadyGrounded
    <2>2. CASE n = [g EXCEPT !.pc = "spec"]
      <3>1. /\ Same(g, n) /\ n.policy = g.policy /\ n.threshold = g.threshold /\ n.reasons = g.reasons
            /\ n.pc = "spec"
        BY <1>2, <1>8, <2>2 DEF Grounded, JobFields, Same
      <3> QED BY <1>9, <3>1
    <2> QED BY <1>7, <2>1, <2>2
  <1> QED BY <1>2, <1>4, <1>10, JobMoves DEF PromoteThreshold, ReadsOnly

\* A step from a job that is weighed to one with the same settings and evidence.
LEMMA WeighedMoves ==
  ASSUME NEW p, NEW n, Grounded(p), Weighed(p), SameRead(p, n),
         n.pc \in {"provider", "products", "write"},
         n.pc = "write" => NamesProduct(n, n.result.status, n.result.product)
  PROVE  Grounded(n) /\ n.had = p.had /\ n.trees = p.trees /\ n.pc # "decide"
  BY DEF Grounded, SameRead, Same, Weighed

LEMMA ResolveSpecKeeps ==
  ASSUME GroundedInv, NEW c \in Conversation, ResolveSpec(c)
  PROVE  GroundedInv'
  <1>1. PICK p : p = assessing[c] /\ p.pc = "spec"
    BY DEF ResolveSpec, Running
  <1>2. Grounded(p) /\ settings \in p.had /\ tree \in p.trees /\ Weighed(p)
    BY <1>1, JobIs DEF Weighed
  <1>3. PICK n : /\ assessing' = [assessing EXCEPT ![c] = n]
                 /\ \/ n = Settled(p, EmptyResult(SpecFor))
                    \/ n = [p EXCEPT !.required = SpecFor, !.pc = "provider"]
    BY <1>1 DEF ResolveSpec, GoOn
  <1>4. Grounded(n) /\ n.had = p.had /\ n.trees = p.trees /\ n.pc # "decide"
    <2>1. CASE n = Settled(p, EmptyResult(SpecFor))
      <3>1. PICK spec : spec = SpecFor
        OBVIOUS
      <3>2. NamesProduct(p, EmptyResult(spec).status, EmptyResult(spec).product)
        BY UnreadyGrounded
      <3> QED BY <1>2, <2>1, <3>1, <3>2, SettledGrounded
    <2>2. CASE n = [p EXCEPT !.required = SpecFor, !.pc = "provider"]
      <3>1. Same(p, n) /\ n.policy = p.policy /\ n.threshold = p.threshold /\ n.reasons = p.reasons
            /\ n.pc = "provider"
        BY <1>2, <2>2 DEF Grounded, JobFields, Same
      <3> QED BY <1>2, <3>1 DEF Grounded, Same, Weighed
    <2> QED BY <1>3, <2>1, <2>2
  <1> QED BY <1>2, <1>3, <1>4, JobMoves DEF ResolveSpec, ReadsOnly

LEMMA ResolveProviderKeeps ==
  ASSUME GroundedInv, NEW c \in Conversation, ResolveProvider(c)
  PROVE  GroundedInv'
  <1>1. PICK p : p = assessing[c] /\ p.pc = "provider"
    BY DEF ResolveProvider, Running
  <1>2. Grounded(p) /\ settings \in p.had /\ tree \in p.trees /\ Weighed(p)
    BY <1>1, JobIs DEF Weighed
  <1>3. PICK n : /\ assessing' = [assessing EXCEPT ![c] = n]
                 /\ n = [p EXCEPT !.pc = "products"] \/ n = Settled(p, Unknown(""))
    BY <1>1 DEF ResolveProvider, GoOn
  <1>4. Grounded(n) /\ n.had = p.had /\ n.trees = p.trees /\ n.pc # "decide"
    <2>1. CASE n = Settled(p, Unknown(""))
      <3>1. NamesProduct(p, Unknown("").status, Unknown("").product)
        BY UnreadyGrounded
      <3> QED BY <1>2, <2>1, <3>1, SettledGrounded
    <2>2. CASE n = [p EXCEPT !.pc = "products"]
      <3>1. SameRead(p, n) /\ n.pc = "products"
        BY <1>2, <2>2 DEF Grounded, JobFields, SameRead, Same
      <3> QED BY <1>2, <3>1, WeighedMoves
    <2> QED BY <1>3, <2>1, <2>2
  <1> QED BY <1>2, <1>3, <1>4, JobMoves DEF ResolveProvider, ReadsOnly

LEMMA ProductsKeeps ==
  ASSUME GroundedInv, NEW c \in Conversation, Products(c)
  PROVE  GroundedInv'
  <1>1. PICK p : p = assessing[c] /\ p.pc = "products"
    BY DEF Products, Running
  <1>2. Grounded(p) /\ settings \in p.had /\ tree \in p.trees /\ Weighed(p)
    BY <1>1, JobIs DEF Weighed
  <1>3. PICK n : /\ assessing' = [assessing EXCEPT ![c] = n]
                 /\ n = [p EXCEPT !.products = ProductList(tree), !.pc = "model"]
    BY <1>1 DEF Products, GoOn
  <1>4. SameRead(p, n) /\ n.pc = "model" /\ n.products = ProductList(tree)
    BY <1>2, <1>3 DEF Grounded, JobFields, SameRead, Same
  <1>5. Grounded(n) /\ n.had = p.had /\ n.trees = p.trees
    BY <1>2, <1>4 DEF Grounded, SameRead, Same, Weighed
  <1> QED BY <1>2, <1>3, <1>4, <1>5, JobMoves DEF Products, ReadsOnly

\* What the model is told is a part of the tree.
LEMMA ListIsOfTree ==
  ASSUME NEW titles \in Trees, NEW product, Contains(ProductList(titles), product)
  PROVE  Contains(titles, product)
  <1>1. titles \in Seq(STRING) /\ MaxProductHints \in Nat
    BY AssessmentAssumption
  <1>2. PICK n : n = Min({Len(titles), MaxProductHints})
    OBVIOUS
  <1>3. n \in Nat /\ n <= Len(titles)
    BY <1>1, <1>2 DEF Min
  <1>4. ProductList(titles) = SubSeq(titles, 1, n)
    BY <1>2 DEF ProductList
  <1>5. PICK i \in 1..Len(SubSeq(titles, 1, n)) : SubSeq(titles, 1, n)[i] = product
    BY <1>4 DEF Contains
  <1>6. i \in 1..n /\ titles[i] = product
    BY <1>1, <1>3, <1>5
  <1> QED BY <1>1, <1>3, <1>6 DEF Contains

\* A product that is not the company's is struck out, and a report without one is not ready.
LEMMA AssessedNames ==
  ASSUME NEW p, Grounded(p), p.pc = "model", NEW answer \in p.mail.answers
  PROVE  NamesProduct(p, Assessed(p, answer).status, Assessed(p, answer).product)
  <1>1. "product" \notin answer.fields
    BY AssessmentAssumption DEF Grounded, Mails
  <1>2. PICK product, fields, missing :
          /\ product = IF UnknownProduct(answer.product, p.products) THEN "" ELSE answer.product
          /\ fields = answer.fields \union (IF product = "" THEN {} ELSE {"product"})
          /\ missing = Missing(p.required, fields)
    OBVIOUS
  <1>3. /\ Assessed(p, answer).product = product
        /\ Assessed(p, answer).status = "ready" => missing = {} /\ p.products # <<>>
    BY <1>2 DEF Assessed
  <1>4. ASSUME Assessed(p, answer).status = "ready", "product" \in p.required
        PROVE  \E titles \in p.trees : Contains(titles, Assessed(p, answer).product)
    <2>1. missing = {} /\ p.products # <<>>
      BY <1>3, <1>4
    <2>2. product # ""
      BY <1>1, <1>2, <1>4, <2>1 DEF Missing
    <2>3. Contains(p.products, product)
      BY <1>2, <2>1, <2>2 DEF UnknownProduct
    <2>4. PICK titles \in p.trees : p.products = ProductList(titles)
      BY DEF Grounded
    <2>5. Contains(titles, product)
      BY <2>3, <2>4, ListIsOfTree DEF Grounded
    <2> QED BY <1>3, <2>5
  <1> QED BY <1>4 DEF NamesProduct

LEMMA GenerateJSONKeeps ==
  ASSUME GroundedInv, NEW c \in Conversation, GenerateJSON(c)
  PROVE  GroundedInv'
  <1>1. PICK p : p = assessing[c] /\ p.pc = "model"
    BY DEF GenerateJSON, Running
  <1>2. Grounded(p) /\ settings \in p.had /\ tree \in p.trees /\ Weighed(p)
    BY <1>1, JobIs DEF Weighed
  <1>3. PICK answer \in p.mail.answers : assessing' = [assessing EXCEPT ![c] = Settled(p, Assessed(p, answer))]
    BY <1>1 DEF GenerateJSON, GoOn
  <1>4. PICK result, n : result = Assessed(p, answer) /\ n = Settled(p, result)
    OBVIOUS
  <1>5. Grounded(n) /\ n.had = p.had /\ n.trees = p.trees /\ n.pc = "write"
    BY <1>1, <1>2, <1>4, AssessedNames, SettledGrounded
  <1> QED BY <1>2, <1>3, <1>4, <1>5, JobMoves DEF GenerateJSON, ReadsOnly

LEMMA WriteCompletenessKeeps ==
  ASSUME GroundedInv, NEW c \in Conversation, WriteCompleteness(c)
  PROVE  GroundedInv'
  <1>1. PICK p : p = assessing[c] /\ p.pc = "write"
    BY DEF WriteCompleteness, Running
  <1>2. Grounded(p) /\ settings \in p.had /\ tree \in p.trees
    BY <1>1, JobIs
  <1>3. PICK n, row : /\ assessing' = [assessing EXCEPT ![c] = n] /\ n = [p EXCEPT !.pc = "decide"]
                      /\ complete' = [complete EXCEPT ![c] = row]
                      /\ row = [status |-> p.result.status, product |-> p.result.product]
    BY <1>1 DEF WriteCompleteness, GoOn
  <1>4. SameRead(p, n) /\ n.pc = "decide"
    BY <1>2, <1>3 DEF Grounded, JobFields, SameRead, Same
  <1>5. Grounded(n) /\ n.had = p.had /\ n.trees = p.trees /\ NamesProduct(n, row.status, row.product)
    BY <1>1, <1>2, <1>3, <1>4 DEF Grounded, SameRead, Same, Weighed, NamesProduct
  <1>6. /\ \A d \in Conversation \ {c} : assessing'[d] = assessing[d] /\ complete'[d] = complete[d]
        /\ assessing'[c] = n /\ complete'[c] = row
        /\ DOMAIN assessing' = Conversation /\ DOMAIN complete' = Conversation
    BY <1>3 DEF GroundedInv
  <1> QED BY <1>2, <1>5, <1>6 DEF WriteCompleteness, GroundedInv, PromotedAsConfigured, JunkIsHeld

\* Without a name of a case, junk speaks for 50 at most.
LEMMA TicketGrounded ==
  ASSUME NEW p, Grounded(p), p.pc = "decide", ~AutoCreateDisabled(p.policy),
         ConfidencePromotable(p.result.class, Confidence(p), p.threshold)
  PROVE  /\ \E s \in p.had : s.evaluation /\ s.ai /\ s.auto
         /\ \E s \in p.had : Confidence(p) >= IF s.threshold \in 1..95 THEN s.threshold ELSE 55
         /\ \/ p.mail.evidence \cap {"list_unsubscribe", "auto_submitted", "sender_no_reply"} = {}
            \/ "referenced_case" \in p.mail.evidence
            \/ \E s \in p.had : s.threshold \in 1..50 \/ ~s.rules
  <1>1. p.policy \in p.had /\ p.policy.evaluation /\ p.policy.ai /\ p.policy.auto
    BY DEF AutoCreateDisabled, Grounded
  <1>2. /\ \E s \in p.had : p.threshold = ParsePromoteThreshold(s.threshold)
        /\ p.policy.rules => p.mail.evidence \subseteq p.reasons
    BY <1>1 DEF Grounded, Weighed
  <1>3. PICK s \in p.had : p.threshold = ParsePromoteThreshold(s.threshold)
    BY <1>2
  <1>4. s.threshold \in Int
    BY AssessmentAssumption DEF Grounded
  <1>5. PICK n \in Int : n = Confidence(p)
    BY ConfidenceIs
  <1>6. /\ s.threshold \in 1..95 => n >= s.threshold
        /\ s.threshold \notin 1..95 => n >= 55
    BY <1>3, <1>4, <1>5 DEF ConfidencePromotable, ParsePromoteThreshold, DefaultThreshold
  <1>7. ASSUME p.mail.evidence \cap {"list_unsubscribe", "auto_submitted", "sender_no_reply"} # {},
               "referenced_case" \notin p.mail.evidence, p.policy.rules
        PROVE  s.threshold \in 1..50
    <2>1. JunkStrong \cap p.reasons # {}
      BY <1>2, <1>7 DEF JunkStrong
    <2>2. n <= 50
      BY <1>5, <1>7, <2>1, ConfidenceIs
    <2> QED BY <1>4, <1>6, <2>2
  <1> QED BY <1>1, <1>5, <1>6, <1>7

LEMMA EnqueueTicketKeeps ==
  ASSUME GroundedInv, NEW c \in Conversation, EnqueueTicket(c)
  PROVE  GroundedInv'
  <1>1. PICK p : p = assessing[c] /\ p.pc = "decide"
    BY DEF EnqueueTicket, Running
  <1>2. Grounded(p) /\ settings \in p.had /\ tree \in p.trees
    BY <1>1, JobIs
  <1>3. PICK over : over = [p EXCEPT !.pc = "over"]
    OBVIOUS
  <1>4. /\ SameRead(p, over) /\ over.pc = "over" /\ over.result = p.result /\ over.score = p.score
    BY <1>2, <1>3 DEF Grounded, JobFields, SameRead, Same
  <1>5. Grounded(over)
    BY <1>1, <1>2, <1>4 DEF Grounded, SameRead, Same, Weighed
  <1>6. /\ assessing' = [assessing EXCEPT ![c] = over]
        /\ IF ~AutoCreateDisabled(p.policy) /\ ConfidencePromotable(p.result.class, Confidence(p), p.threshold)
           THEN ticketed' = ticketed \union {[conv |-> c, by |-> over]}
           ELSE UNCHANGED ticketed
        /\ UNCHANGED <<settings, tree, complete>>
    BY <1>1, <1>3 DEF EnqueueTicket, GoOn
  <1>7. Confidence(over) = Confidence(p)
    BY <1>4 DEF Confidence, SameRead, Same
  <1>8. PromotedAsConfigured' /\ JunkIsHeld'
    <2>1. CASE ticketed' = ticketed
      BY <2>1 DEF GroundedInv, PromotedAsConfigured, JunkIsHeld
    <2>2. CASE /\ ticketed' = ticketed \union {[conv |-> c, by |-> over]}
               /\ ~AutoCreateDisabled(p.policy)
               /\ ConfidencePromotable(p.result.class, Confidence(p), p.threshold)
      <3>1. /\ \E s \in over.had : s.evaluation /\ s.ai /\ s.auto
            /\ \E s \in over.had : Confidence(over) >= IF s.threshold \in 1..95 THEN s.threshold ELSE 55
            /\ \/ over.mail.evidence \cap {"list_unsubscribe", "auto_submitted", "sender_no_reply"} = {}
               \/ "referenced_case" \in over.mail.evidence
               \/ \E s \in over.had : s.threshold \in 1..50 \/ ~s.rules
        BY <1>1, <1>2, <1>4, <1>7, <2>2, TicketGrounded DEF SameRead, Same
      <3>2. PromotedAsConfigured /\ JunkIsHeld
        BY DEF GroundedInv
      <3>3. PromotedAsConfigured'
        BY <2>2, <3>1, <3>2 DEF PromotedAsConfigured
      <3>4. JunkIsHeld'
        BY <2>2, <3>1, <3>2 DEF JunkIsHeld
      <3> QED BY <3>3, <3>4
    <2> QED BY <1>6, <2>1, <2>2
  <1>9. /\ \A d \in Conversation \ {c} : assessing'[d] = assessing[d]
        /\ assessing'[c] = over /\ DOMAIN assessing' = Conversation
    BY <1>6 DEF GroundedInv
  <1> QED BY <1>2, <1>4, <1>5, <1>6, <1>8, <1>9 DEF GroundedInv, SameRead, Same

LEMMA BegunGrounded ==
  ASSUME settings \in Settings, tree \in Trees, NEW mail \in Mails, NEW way, NEW attempt,
         NEW n, n = Begun(mail, way, attempt)
  PROVE  Grounded(n) /\ settings \in n.had /\ tree \in n.trees /\ n.pc = "policy"
  <1>1. /\ JobFields \subseteq DOMAIN n /\ n.pc = "policy" /\ n.mail = mail /\ n.had = {settings}
        /\ n.trees = {tree} /\ n.policy = settings
    BY DEF Begun, JobFields
  <1> QED BY <1>1 DEF Grounded, Weighed

LEMMA FailKeeps ==
  ASSUME GroundedInv, NEW c \in Conversation, Fail(c)
  PROVE  GroundedInv'
  <1>1. PICK p : p = assessing[c]
    OBVIOUS
  <1>2. Grounded(p) /\ settings \in p.had /\ tree \in p.trees /\ settings \in Settings /\ tree \in Trees
    BY <1>1, JobIs
  <1>3. PICK n : assessing' = [assessing EXCEPT ![c] = n] /\ n = Again(p)
    BY <1>1 DEF Fail, Err, GoOn
  <1>4. Grounded(n) /\ settings \in n.had /\ tree \in n.trees /\ n.pc # "decide"
    <2>1. CASE p.mode = "queued" /\ p.attempt < MaxAttempts
      <3>1. PICK k : k = p.attempt + 1
        OBVIOUS
      <3>2. n = Begun(p.mail, "queued", k)
        BY <1>3, <2>1, <3>1 DEF Again
      <3>3. p.mail \in Mails
        BY <1>2 DEF Grounded
      <3>4. Grounded(n) /\ settings \in n.had /\ tree \in n.trees /\ n.pc = "policy"
        BY <1>2, <3>2, <3>3, BegunGrounded
      <3> QED BY <3>4
    <2>2. CASE ~(p.mode = "queued" /\ p.attempt < MaxAttempts)
      <3>1. n = [p EXCEPT !.pc = "over"]
        BY <1>3, <2>2 DEF Again
      <3>2. SameRead(p, n) /\ n.pc = "over"
        BY <1>2, <3>1 DEF Grounded, JobFields, SameRead, Same
      <3> QED BY <1>2, <3>2 DEF Grounded, SameRead, Same, Weighed
    <2> QED BY <2>1, <2>2
  <1> QED BY <1>3, <1>4, JobMoves DEF Fail, Err

LEMMA SaveKeeps ==
  ASSUME GroundedInv, NEW value \in Settings, Save(value)
  PROVE  GroundedInv'
  <1>1. ASSUME NEW c \in Conversation
        PROVE  /\ Grounded(assessing'[c]) /\ settings' \in assessing'[c].had /\ tree' \in assessing'[c].trees
               /\ assessing'[c].pc = "decide" => NamesProduct(assessing'[c], complete[c].status, complete[c].product)
    <2>1. PICK p : p = assessing[c]
      OBVIOUS
    <2>2. /\ Grounded(p) /\ settings \in p.had /\ tree \in p.trees
          /\ p.pc = "decide" => NamesProduct(p, complete[c].status, complete[c].product)
      BY <2>1 DEF GroundedInv
    <2>3. PICK n : n = [p EXCEPT !.had = p.had \union {value}]
      OBVIOUS
    <2>4. n.had = p.had \union {value} /\ JobFields \subseteq DOMAIN n
          /\ \A f \in JobFields \ {"had"} : n[f] = p[f]
      BY <2>2, <2>3 DEF Grounded, JobFields
    <2>5. /\ n.pc = p.pc /\ n.mail = p.mail /\ n.trees = p.trees /\ n.policy = p.policy
          /\ n.threshold = p.threshold /\ n.reasons = p.reasons /\ n.required = p.required
          /\ n.products = p.products /\ n.result = p.result
      BY <2>4 DEF JobFields
    <2>6. assessing'[c] = n /\ settings' = value /\ tree' = tree
      BY <2>1, <2>3 DEF Save
    <2>7. Grounded(n)
      BY <2>2, <2>4, <2>5 DEF Grounded, Weighed, NamesProduct
    <2>8. p.pc = "decide" => NamesProduct(n, complete[c].status, complete[c].product)
      BY <2>2, <2>5 DEF NamesProduct
    <2> QED BY <2>2, <2>4, <2>5, <2>6, <2>7, <2>8
  <1>2. /\ settings' \in Settings /\ tree' \in Trees /\ DOMAIN assessing' = Conversation
        /\ DOMAIN complete' = Conversation /\ complete' = complete /\ ticketed' = ticketed
    BY DEF Save, GroundedInv
  <1>3. PromotedAsConfigured' /\ JunkIsHeld'
    BY <1>2 DEF GroundedInv, PromotedAsConfigured, JunkIsHeld
  <1> QED BY <1>1, <1>2, <1>3 DEF GroundedInv

LEMMA EditTreeKeeps ==
  ASSUME GroundedInv, NEW titles \in Trees, EditTree(titles)
  PROVE  GroundedInv'
  <1>1. ASSUME NEW c \in Conversation
        PROVE  /\ Grounded(assessing'[c]) /\ settings' \in assessing'[c].had /\ tree' \in assessing'[c].trees
               /\ assessing'[c].pc = "decide" => NamesProduct(assessing'[c], complete[c].status, complete[c].product)
    <2>1. PICK p : p = assessing[c]
      OBVIOUS
    <2>2. /\ Grounded(p) /\ settings \in p.had /\ tree \in p.trees
          /\ p.pc = "decide" => NamesProduct(p, complete[c].status, complete[c].product)
      BY <2>1 DEF GroundedInv
    <2>3. PICK n : n = [p EXCEPT !.trees = p.trees \union {titles}]
      OBVIOUS
    <2>4. n.trees = p.trees \union {titles} /\ JobFields \subseteq DOMAIN n
          /\ \A f \in JobFields \ {"trees"} : n[f] = p[f]
      BY <2>2, <2>3 DEF Grounded, JobFields
    <2>5. /\ n.pc = p.pc /\ n.mail = p.mail /\ n.had = p.had /\ n.policy = p.policy
          /\ n.threshold = p.threshold /\ n.reasons = p.reasons /\ n.required = p.required
          /\ n.products = p.products /\ n.result = p.result
      BY <2>4 DEF JobFields
    <2>6. assessing'[c] = n /\ settings' = settings /\ tree' = titles
      BY <2>1, <2>3 DEF EditTree
    <2>7. Grounded(n)
      BY <2>2, <2>4, <2>5 DEF Grounded, Weighed, NamesProduct
    <2>8. p.pc = "decide" => NamesProduct(n, complete[c].status, complete[c].product)
      BY <2>2, <2>4, <2>5 DEF NamesProduct
    <2> QED BY <2>2, <2>4, <2>5, <2>6, <2>7, <2>8
  <1>2. /\ settings' \in Settings /\ tree' \in Trees /\ DOMAIN assessing' = Conversation
        /\ DOMAIN complete' = Conversation /\ complete' = complete /\ ticketed' = ticketed
    BY DEF EditTree, GroundedInv
  <1>3. PromotedAsConfigured' /\ JunkIsHeld'
    BY <1>2 DEF GroundedInv, PromotedAsConfigured, JunkIsHeld
  <1> QED BY <1>1, <1>2, <1>3 DEF GroundedInv

LEMMA AssessStarts == AssessInit => GroundedInv
  <1> SUFFICES ASSUME AssessInit
               PROVE  GroundedInv
    OBVIOUS
  <1>1. PICK p \in AssessPlans :
          /\ settings = p.settings /\ tree = p.tree
          /\ \E mails \in [Conversation -> p.mails], way \in p.modes :
                assessing = [c \in Conversation |-> Begun(mails[c], way, 1)]
    BY DEF AssessInit
  <1>2. settings \in Settings /\ tree \in Trees
    BY <1>1, AssessmentAssumption
  <1>3. PICK mails \in [Conversation -> p.mails], way \in p.modes :
          assessing = [c \in Conversation |-> Begun(mails[c], way, 1)]
    BY <1>1
  <1>4. ASSUME NEW c \in Conversation
        PROVE  Grounded(assessing[c]) /\ settings \in assessing[c].had /\ tree \in assessing[c].trees
               /\ assessing[c].pc = "policy"
    <2>1. PICK mail : mail = mails[c]
      OBVIOUS
    <2>2. mail \in Mails
      BY <1>3, <2>1 DEF Mails
    <2>3. PICK n : n = Begun(mail, way, 1) /\ n = assessing[c]
      BY <1>3, <2>1
    <2>4. Grounded(n) /\ settings \in n.had /\ tree \in n.trees /\ n.pc = "policy"
      BY <1>2, <2>2, <2>3, BegunGrounded
    <2> QED BY <2>3, <2>4
  <1>5. DOMAIN assessing = Conversation /\ DOMAIN complete = Conversation /\ ticketed = {}
    BY <1>3 DEF AssessInit
  <1>6. PromotedAsConfigured /\ JunkIsHeld
    BY <1>5 DEF PromotedAsConfigured, JunkIsHeld
  <1> QED BY <1>2, <1>4, <1>5, <1>6 DEF GroundedInv

LEMMA AssessmentGoesOn == GroundedInv /\ [AssessNext]_assessVars => GroundedInv'
  <1> SUFFICES ASSUME GroundedInv, [AssessNext]_assessVars
               PROVE  GroundedInv'
    OBVIOUS
  <1>1. CASE UNCHANGED assessVars
    <2>1. /\ settings' = settings /\ tree' = tree /\ assessing' = assessing
          /\ complete' = complete /\ ticketed' = ticketed
      BY <1>1 DEF assessVars
    <2> QED BY <2>1 DEF GroundedInv, PromotedAsConfigured, JunkIsHeld
  <1>2. ASSUME NEW c \in Conversation,
               \/ ConfigurationFor(c) \/ IntentKeywords(c) \/ PromoteThreshold(c) \/ ResolveSpec(c)
               \/ ResolveProvider(c) \/ Products(c) \/ GenerateJSON(c) \/ WriteCompleteness(c)
               \/ EnqueueTicket(c) \/ Fail(c)
        PROVE  GroundedInv'
    BY <1>2, ConfigurationForKeeps, IntentKeywordsKeeps, PromoteThresholdKeeps, ResolveSpecKeeps,
       ResolveProviderKeeps, ProductsKeeps, GenerateJSONKeeps, WriteCompletenessKeeps,
       EnqueueTicketKeeps, FailKeeps
  <1>3. ASSUME NEW value \in Settings, Save(value)
        PROVE  GroundedInv'
    BY <1>3, SaveKeeps
  <1>4. ASSUME NEW titles \in Trees, EditTree(titles)
        PROVE  GroundedInv'
    BY <1>4, EditTreeKeeps
  <1> QED BY <1>1, <1>2, <1>3, <1>4 DEF AssessNext

LEMMA GroundedIsEnough == GroundedInv => AssessmentIsGrounded
  <1> SUFFICES ASSUME GroundedInv
               PROVE  AssessmentIsGrounded
    OBVIOUS
  <1>1. PromotedAsConfigured /\ JunkIsHeld
    BY DEF GroundedInv
  <1>2. ReadyNamesProduct
    BY DEF GroundedInv, ReadyNamesProduct, Running, NamesProduct
  <1> QED BY <1>1, <1>2 DEF AssessmentIsGrounded

(***************************************************************************)
(* What an assessment decides and records is what some settings and some   *)
(* tree the company had during it, and the evidence of the mail, allow,    *)
(* whatever a model answers (src/internal/application/workflows/intake).   *)
(***************************************************************************)
THEOREM AssessmentsAreGrounded == AssessSpec => []AssessmentIsGrounded
  <1>1. AssessSpec => []GroundedInv
    BY AssessStarts, AssessmentGoesOn, PTL DEF AssessSpec
  <1> QED BY <1>1, GroundedIsEnough, PTL

-----------------------------------------------------------------------------
(***************************************************************************)
(* The assessment: its type.  A mail is graded by its evidence or not at   *)
(* all, and a task is begun again as often as it may be.                   *)
(***************************************************************************)
Graduated == {0} \union 5..95
Statuses == {"none", "unknown", "incomplete", "unverified", "ready"}

Graduate(job) ==
    /\ job.score \in Graduated /\ job.attempt \in 1..MaxAttempts
    /\ job.pc = "write" => job.result.status \in Statuses

AssessTyped ==
    /\ \A c \in Conversation : Graduate(assessing[c])
    /\ \A c \in Conversation : complete[c].status \in Statuses

LEMMA ScoreIs == ASSUME NEW reasons PROVE Score(reasons) \in 5..95
  <1> DEFINE points(reason) == If(reason \in reasons, Weight[reason])
             sum == 50 + points("list_unsubscribe") + points("auto_submitted") + points("sender_no_reply")
                    + points("precedence_bulk") + points("referenced_case") + points("thread_matched")
                    + points("has_attachments") + points("body_thin") + points("link_heavy")
                    + points("intent_keyword_match")
  <1>1. /\ points("list_unsubscribe") \in Int /\ points("auto_submitted") \in Int
        /\ points("sender_no_reply") \in Int /\ points("precedence_bulk") \in Int
        /\ points("referenced_case") \in Int /\ points("thread_matched") \in Int
        /\ points("has_attachments") \in Int /\ points("body_thin") \in Int
        /\ points("link_heavy") \in Int /\ points("intent_keyword_match") \in Int
    BY DEF If, Weight
  <1>2. sum \in Int
    <2> HIDE DEF points
    <2> QED BY <1>1
  <1>3. Score(reasons) = Clamp(sum)
    BY DEF Score
  <1> HIDE DEF sum
  <1>4. Clamp(sum) = IF sum < 5 THEN 5 ELSE IF sum > 95 THEN 95 ELSE sum
    BY <1>2, ClampIs
  <1> QED BY <1>2, <1>3, <1>4

\* What a job settled with says, it is in.
LEMMA SettledGraduate ==
  ASSUME NEW p, Grounded(p), Graduate(p), NEW result, result.status \in Statuses, NEW n, n = Settled(p, result)
  PROVE  Graduate(n) /\ n.pc = "write"
  <1>1. n.score = p.score /\ n.attempt = p.attempt /\ n.pc = "write" /\ n.result = result
    BY DEF Settled, Grounded, JobFields
  <1> QED BY <1>1 DEF Graduate

\* A job that goes on keeps its score and its attempt.
LEMMA GoesOn ==
  ASSUME NEW p, Graduate(p), NEW n, n.score = p.score, n.attempt = p.attempt, n.pc # "write"
  PROVE  Graduate(n)
  BY DEF Graduate

\* Nothing that is settled without a product is ready, but it has a status.
LEMMA StatusesAre ==
  /\ \A class : Unknown(class).status \in Statuses
  /\ \A required : EmptyResult(required).status \in Statuses
  /\ \A p, answer : Assessed(p, answer).status \in Statuses
  <1>1. \A class : Unknown(class).status \in Statuses
    BY DEF Unknown, Statuses
  <1>2. \A required : EmptyResult(required).status \in Statuses
    BY DEF EmptyResult, Statuses
  <1>3. ASSUME NEW p, NEW answer PROVE Assessed(p, answer).status \in Statuses
    BY DEF Assessed, Statuses
  <1> QED BY <1>1, <1>2, <1>3

LEMMA GraduateMoves ==
  ASSUME GroundedInv, AssessTyped, NEW c \in Conversation, NEW n, assessing' = [assessing EXCEPT ![c] = n],
         Graduate(n), complete' = complete
  PROVE  AssessTyped'
  BY DEF AssessTyped, GroundedInv

LEMMA ReadingGraduates ==
  ASSUME GroundedInv, AssessTyped, NEW c \in Conversation,
         \/ ConfigurationFor(c) \/ IntentKeywords(c) \/ ResolveSpec(c) \/ ResolveProvider(c) \/ Products(c)
         \/ GenerateJSON(c)
  PROVE  AssessTyped'
  <1>1. PICK p : p = assessing[c]
    OBVIOUS
  <1>2. Grounded(p) /\ Graduate(p) /\ complete' = complete
    BY <1>1, JobIs DEF AssessTyped, ConfigurationFor, IntentKeywords, ResolveSpec, ResolveProvider, Products,
                       GenerateJSON, ReadsOnly
  <1>3. \E n : Graduate(n) /\ assessing' = [assessing EXCEPT ![c] = n]
    <2>1. CASE ConfigurationFor(c)
      <3>1. PICK r : r = [p EXCEPT !.policy = settings]
        OBVIOUS
      <3>2. DOMAIN r = DOMAIN p /\ r.score = p.score /\ r.attempt = p.attempt /\ r.pc = p.pc /\ p.pc = "policy"
        BY <1>1, <1>2, <2>1, <3>1 DEF Grounded, JobFields, ConfigurationFor, Running
      <3>3. PICK n : /\ assessing' = [assessing EXCEPT ![c] = n]
                     /\ n = [r EXCEPT !.pc = "keywords"] \/ n = Settled(r, Unknown(""))
        BY <1>1, <2>1, <3>1 DEF ConfigurationFor, GoOn
      <3>4. CASE n = [r EXCEPT !.pc = "keywords"]
        <4>1. n.score = p.score /\ n.attempt = p.attempt /\ n.pc = "keywords"
          BY <1>2, <3>2, <3>4 DEF Grounded, JobFields
        <4> QED BY <1>2, <3>3, <4>1, GoesOn
      <3>5. CASE n = Settled(r, Unknown(""))
        <4>1. n.score = p.score /\ n.attempt = p.attempt /\ n.result = Unknown("")
          BY <1>2, <3>2, <3>5 DEF Settled, Grounded, JobFields
        <4> QED BY <1>2, <3>3, <4>1, StatusesAre DEF Graduate
      <3> QED BY <3>3, <3>4, <3>5
    <2>2. CASE IntentKeywords(c)
      <3>1. PICK n : /\ assessing' = [assessing EXCEPT ![c] = n]
                     /\ n = [p EXCEPT !.keyword = settings.keywords /\ p.mail.words, !.pc = "threshold"]
        BY <1>1, <2>2 DEF IntentKeywords, GoOn
      <3>2. n.score = p.score /\ n.attempt = p.attempt /\ n.pc = "threshold"
        BY <1>2, <3>1 DEF Grounded, JobFields
      <3> QED BY <1>2, <3>1, <3>2, GoesOn
    <2>3. CASE ResolveSpec(c)
      <3>1. PICK spec : spec = SpecFor
        OBVIOUS
      <3>2. PICK n : /\ assessing' = [assessing EXCEPT ![c] = n]
                     /\ \/ n = Settled(p, EmptyResult(spec))
                        \/ n = [p EXCEPT !.required = spec, !.pc = "provider"]
        BY <1>1, <2>3, <3>1 DEF ResolveSpec, GoOn
      <3>3. CASE n = Settled(p, EmptyResult(spec))
        <4>1. EmptyResult(spec).status \in Statuses
          BY StatusesAre
        <4> QED BY <1>2, <3>2, <3>3, <4>1, SettledGraduate
      <3>4. CASE n = [p EXCEPT !.required = spec, !.pc = "provider"]
        <4>1. n.score = p.score /\ n.attempt = p.attempt /\ n.pc = "provider"
          BY <1>2, <3>4 DEF Grounded, JobFields
        <4> QED BY <1>2, <3>2, <4>1, GoesOn
      <3> QED BY <3>2, <3>3, <3>4
    <2>4. CASE ResolveProvider(c)
      <3>1. PICK n : /\ assessing' = [assessing EXCEPT ![c] = n]
                     /\ n = [p EXCEPT !.pc = "products"] \/ n = Settled(p, Unknown(""))
        BY <1>1, <2>4 DEF ResolveProvider, GoOn
      <3>2. CASE n = [p EXCEPT !.pc = "products"]
        <4>1. n.score = p.score /\ n.attempt = p.attempt /\ n.pc = "products"
          BY <1>2, <3>2 DEF Grounded, JobFields
        <4> QED BY <1>2, <3>1, <4>1, GoesOn
      <3>3. CASE n = Settled(p, Unknown(""))
        <4>1. Unknown("").status \in Statuses
          BY StatusesAre
        <4> QED BY <1>2, <3>1, <3>3, <4>1, SettledGraduate
      <3> QED BY <3>1, <3>2, <3>3
    <2>5. CASE Products(c)
      <3>1. PICK n : /\ assessing' = [assessing EXCEPT ![c] = n]
                     /\ n = [p EXCEPT !.products = ProductList(tree), !.pc = "model"]
        BY <1>1, <2>5 DEF Products, GoOn
      <3>2. n.score = p.score /\ n.attempt = p.attempt /\ n.pc = "model"
        BY <1>2, <3>1 DEF Grounded, JobFields
      <3> QED BY <1>2, <3>1, <3>2, GoesOn
    <2>6. CASE GenerateJSON(c)
      <3>1. PICK answer \in p.mail.answers : assessing' = [assessing EXCEPT ![c] = Settled(p, Assessed(p, answer))]
        BY <1>1, <2>6 DEF GenerateJSON, GoOn
      <3>2. PICK result, n : result = Assessed(p, answer) /\ n = Settled(p, result)
        OBVIOUS
      <3>3. result.status \in Statuses
        BY <3>2, StatusesAre
      <3>4. Graduate(n)
        BY <1>2, <3>2, <3>3, SettledGraduate
      <3> QED BY <3>1, <3>2, <3>4
    <2> QED BY <2>1, <2>2, <2>3, <2>4, <2>5, <2>6
  <1>4. PICK n : Graduate(n) /\ assessing' = [assessing EXCEPT ![c] = n]
    BY <1>3
  <1> QED BY <1>2, <1>4, GraduateMoves

LEMMA PromoteThresholdGraduates ==
  ASSUME GroundedInv, AssessTyped, NEW c \in Conversation, PromoteThreshold(c)
  PROVE  AssessTyped'
  <1>1. PICK p : p = assessing[c]
    OBVIOUS
  <1>2. Grounded(p) /\ Graduate(p) /\ complete' = complete /\ p.pc = "threshold"
    BY <1>1, JobIs DEF AssessTyped, PromoteThreshold, ReadsOnly, Running
  <1>3. PICK r : r = [p EXCEPT !.threshold = ParsePromoteThreshold(settings.threshold)]
    OBVIOUS
  <1>4. PICK n : assessing' = [assessing EXCEPT ![c] = n] /\ n = Graded(r)
    BY <1>1, <1>3 DEF PromoteThreshold, GoOn
  <1>5. PICK reasons, score, g :
          /\ score = IF r.policy.rules THEN Score(reasons) ELSE 0
          /\ g = [r EXCEPT !.reasons = reasons, !.score = score]
          /\ \/ n = Settled(g, Unknown("")) \/ n = Settled(g, Unknown("not_actionable"))
             \/ n = [g EXCEPT !.pc = "spec"]
    BY <1>4 DEF Graded
  <1>6. score \in Graduated
    BY <1>5, ScoreIs DEF Graduated
  <1>7. /\ DOMAIN g = DOMAIN p /\ g.score = score /\ g.attempt = p.attempt
    BY <1>2, <1>3, <1>5 DEF Grounded, JobFields
  <1>8. Graduate(n)
    <2>1. CASE n = [g EXCEPT !.pc = "spec"]
      <3>1. n.score = score /\ n.attempt = p.attempt /\ n.pc = "spec"
        BY <1>2, <1>7, <2>1 DEF Grounded, JobFields
      <3> QED BY <1>2, <1>6, <3>1 DEF Graduate
    <2>2. ASSUME NEW class, n = Settled(g, Unknown(class)) PROVE Graduate(n)
      <3>1. n.score = score /\ n.attempt = p.attempt /\ n.result = Unknown(class)
        BY <1>2, <1>7, <2>2 DEF Settled, Grounded, JobFields
      <3> QED BY <1>2, <1>6, <3>1, StatusesAre DEF Graduate
    <2> QED BY <1>5, <2>1, <2>2
  <1> QED BY <1>2, <1>4, <1>8, GraduateMoves

LEMMA WriteCompletenessGraduates ==
  ASSUME GroundedInv, AssessTyped, NEW c \in Conversation, WriteCompleteness(c)
  PROVE  AssessTyped'
  <1>1. PICK p : p = assessing[c] /\ p.pc = "write"
    BY DEF WriteCompleteness, Running
  <1>2. Grounded(p) /\ Graduate(p)
    BY <1>1, JobIs DEF AssessTyped
  <1>3. PICK n, row : /\ assessing' = [assessing EXCEPT ![c] = n] /\ n = [p EXCEPT !.pc = "decide"]
                      /\ complete' = [complete EXCEPT ![c] = row]
                      /\ row = [status |-> p.result.status, product |-> p.result.product]
    BY <1>1 DEF WriteCompleteness, GoOn
  <1>4. n.score = p.score /\ n.attempt = p.attempt /\ n.pc = "decide" /\ row.status \in Statuses
    BY <1>1, <1>2, <1>3 DEF Grounded, JobFields, Graduate
  <1>5. Graduate(n)
    BY <1>2, <1>4, GoesOn
  <1> QED BY <1>3, <1>4, <1>5 DEF AssessTyped, GroundedInv

LEMMA EnqueueTicketGraduates ==
  ASSUME GroundedInv, AssessTyped, NEW c \in Conversation, EnqueueTicket(c)
  PROVE  AssessTyped'
  <1>1. PICK p : p = assessing[c]
    OBVIOUS
  <1>2. Grounded(p) /\ Graduate(p) /\ complete' = complete
    BY <1>1, JobIs DEF AssessTyped, EnqueueTicket
  <1>3. PICK n : assessing' = [assessing EXCEPT ![c] = n] /\ n = [p EXCEPT !.pc = "over"]
    BY <1>1 DEF EnqueueTicket, GoOn
  <1>4. n.score = p.score /\ n.attempt = p.attempt /\ n.pc = "over"
    BY <1>2, <1>3 DEF Grounded, JobFields
  <1>5. Graduate(n)
    BY <1>2, <1>4, GoesOn
  <1> QED BY <1>2, <1>3, <1>5, GraduateMoves

LEMMA BegunGraduate ==
  ASSUME NEW mail, NEW way, NEW attempt \in 1..MaxAttempts, NEW n, n = Begun(mail, way, attempt)
  PROVE  Graduate(n)
  <1>1. n.score = 0 /\ n.attempt = attempt /\ n.pc = "policy"
    BY DEF Begun
  <1> QED BY <1>1 DEF Graduate, Graduated

LEMMA FailGraduates ==
  ASSUME GroundedInv, AssessTyped, NEW c \in Conversation, Fail(c)
  PROVE  AssessTyped'
  <1>1. PICK p : p = assessing[c]
    OBVIOUS
  <1>2. Grounded(p) /\ Graduate(p) /\ complete' = complete
    BY <1>1, JobIs DEF AssessTyped, Fail, Err
  <1>3. PICK n : assessing' = [assessing EXCEPT ![c] = n] /\ n = Again(p)
    BY <1>1 DEF Fail, Err, GoOn
  <1>4. Graduate(n)
    <2>1. CASE p.mode = "queued" /\ p.attempt < MaxAttempts
      <3>1. PICK k \in 1..MaxAttempts : k = p.attempt + 1
        BY <1>2, <2>1, AssessmentAssumption DEF Graduate
      <3>2. n = Begun(p.mail, "queued", k)
        BY <1>3, <2>1, <3>1 DEF Again
      <3> QED BY <3>2, BegunGraduate
    <2>2. CASE ~(p.mode = "queued" /\ p.attempt < MaxAttempts)
      <3>1. n = [p EXCEPT !.pc = "over"]
        BY <1>3, <2>2 DEF Again
      <3>2. n.score = p.score /\ n.attempt = p.attempt /\ n.pc = "over"
        BY <1>2, <3>1 DEF Grounded, JobFields
      <3> QED BY <1>2, <3>2, GoesOn
    <2> QED BY <2>1, <2>2
  <1> QED BY <1>2, <1>3, <1>4, GraduateMoves

\* The company's saves become history of an assessment, and are not what it says.
LEMMA SavingGraduates ==
  ASSUME GroundedInv, AssessTyped,
         (\E value \in Settings : Save(value)) \/ (\E titles \in Trees : EditTree(titles))
  PROVE  AssessTyped'
  <1>1. ASSUME NEW c \in Conversation PROVE Graduate(assessing'[c])
    <2>1. PICK p : p = assessing[c]
      OBVIOUS
    <2>2. Grounded(p) /\ Graduate(p)
      BY <2>1, JobIs DEF AssessTyped
    <2>3. PICK value, n : n = assessing'[c] /\ (n = [p EXCEPT !.had = p.had \union {value}]
                                                \/ n = [p EXCEPT !.trees = p.trees \union {value}])
      BY <2>1 DEF Save, EditTree
    <2>4. n.score = p.score /\ n.attempt = p.attempt /\ n.pc = p.pc /\ n.result = p.result
      BY <2>2, <2>3 DEF Grounded, JobFields
    <2> QED BY <2>2, <2>3, <2>4 DEF Graduate
  <1>2. complete' = complete
    BY DEF Save, EditTree
  <1> QED BY <1>1, <1>2 DEF AssessTyped

LEMMA AssessStartsTyped == AssessInit => AssessTyped
  <1> SUFFICES ASSUME AssessInit
               PROVE  AssessTyped
    OBVIOUS
  <1>1. PICK p \in AssessPlans :
          \E mails \in [Conversation -> p.mails], way \in p.modes :
             assessing = [c \in Conversation |-> Begun(mails[c], way, 1)]
    BY DEF AssessInit
  <1>2. PICK mails \in [Conversation -> p.mails], way \in p.modes :
          assessing = [c \in Conversation |-> Begun(mails[c], way, 1)]
    BY <1>1
  <1>3. PICK first \in 1..MaxAttempts : first = 1
    BY AssessmentAssumption
  <1>4. ASSUME NEW c \in Conversation PROVE Graduate(assessing[c])
    <2>1. PICK mail, n : mail = mails[c] /\ n = Begun(mail, way, first) /\ n = assessing[c]
      BY <1>2, <1>3
    <2> QED BY <2>1, BegunGraduate
  <1>5. \A c \in Conversation : complete[c].status \in Statuses
    BY DEF AssessInit, Unassessed, Statuses
  <1> QED BY <1>4, <1>5 DEF AssessTyped

LEMMA AssessmentGraduates == GroundedInv /\ AssessTyped /\ [AssessNext]_assessVars => AssessTyped'
  <1> SUFFICES ASSUME GroundedInv, AssessTyped, [AssessNext]_assessVars
               PROVE  AssessTyped'
    OBVIOUS
  <1>1. CASE UNCHANGED assessVars
    <2>1. assessing' = assessing /\ complete' = complete
      BY <1>1 DEF assessVars
    <2> QED BY <2>1 DEF AssessTyped
  <1>2. ASSUME NEW c \in Conversation,
               \/ ConfigurationFor(c) \/ IntentKeywords(c) \/ PromoteThreshold(c) \/ ResolveSpec(c)
               \/ ResolveProvider(c) \/ Products(c) \/ GenerateJSON(c) \/ WriteCompleteness(c)
               \/ EnqueueTicket(c) \/ Fail(c)
        PROVE  AssessTyped'
    BY <1>2, ReadingGraduates, PromoteThresholdGraduates, WriteCompletenessGraduates, EnqueueTicketGraduates,
       FailGraduates
  <1>3. CASE (\E value \in Settings : Save(value)) \/ (\E titles \in Trees : EditTree(titles))
    BY <1>3, SavingGraduates
  <1> QED BY <1>1, <1>2, <1>3 DEF AssessNext

(***************************************************************************)
(* Scores, attempts, completeness rows and the confidence keep their       *)
(* types: no score or confidence is 0 or 100, however the evidence adds up *)
(* (score.go, confidence.go).                                              *)
(***************************************************************************)
THEOREM AssessTypeCorrect == AssessSpec => []AssessTypeOK
  <1>1. AssessInit => GroundedInv /\ AssessTyped
    BY AssessStarts, AssessStartsTyped
  <1>2. GroundedInv /\ AssessTyped /\ [AssessNext]_assessVars => (GroundedInv /\ AssessTyped)'
    BY AssessmentGoesOn, AssessmentGraduates
  <1>3. AssessTyped => AssessTypeOK
    <2> SUFFICES ASSUME AssessTyped
                 PROVE  AssessTypeOK
      OBVIOUS
    <2>1. ASSUME NEW c \in Conversation
          PROVE  /\ assessing[c].score \in {0} \union 5..95 /\ assessing[c].attempt \in 1..MaxAttempts
                 /\ complete[c].status \in {"none", "unknown", "incomplete", "unverified", "ready"}
      BY DEF AssessTyped, Graduate, Graduated, Statuses
    <2>2. ASSUME NEW c \in Conversation
          PROVE  Confidence(assessing[c]) \in 5..95
      <3>1. PICK job : job = assessing[c]
        OBVIOUS
      <3>2. Confidence(job) \in 5..95
        BY ConfidenceIs
      <3> QED BY <3>1, <3>2
    <2> QED BY <2>1, <2>2 DEF AssessTypeOK
  <1> QED BY <1>1, <1>2, <1>3, PTL DEF AssessSpec

-----------------------------------------------------------------------------
(***************************************************************************)
(* What a request meets: the gateway, the webhook, the assessment, the     *)
(* models and their log share no state, and what is said of each holds     *)
(* when they run together.                                                 *)
(***************************************************************************)
THEOREM RequestsMeetEach == MCSpec => GatewaySpec /\ RoutingSpec /\ AssessSpec /\ Spec /\ UsageSpec
  <1>1. MCInit => GatewayInit /\ RoutingInit /\ AssessInit /\ Init /\ UsageInit
    BY DEF MCInit
  <1> DEFINE all == <<gatewayVars, routingVars, assessVars, vars, usageVars>>
  <1>2. [MCNext]_all => [GatewayNext]_gatewayVars /\ [RoutingNext]_routingVars
    BY DEF MCNext
  <1>3. [MCNext]_all => [AssessNext]_assessVars /\ [Next]_vars /\ [UsageNext]_usageVars
    BY DEF MCNext
  <1> QED BY <1>1, <1>2, <1>3, PTL DEF MCSpec, GatewaySpec, RoutingSpec, AssessSpec, Spec, UsageSpec

(***************************************************************************)
(* So the variables of all five keep their types.                          *)
(***************************************************************************)
THEOREM FrontTypeCorrect == MCSpec => []MCTypeOK
  <1>1. GatewayTypeOK /\ RoutingTypeOK /\ AssessTypeOK /\ TypeOK /\ UsageTypeOK => MCTypeOK
    BY DEF MCTypeOK
  <1> QED BY <1>1, RequestsMeetEach, GatewayTypeCorrect, RoutingTypeCorrect, AssessTypeCorrect,
             ModelAccessTypeCorrect, UsageTypeCorrect, PTL
================================================================================
