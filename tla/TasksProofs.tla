------------------------------ MODULE TasksProofs ------------------------------
(***************************************************************************)
(* Proofs about the tasks of the worker and about the review of new        *)
(* symptoms: for every number of goroutines, every set of jobs, reports    *)
(* and answers, every limit, and any number of retries, failures and       *)
(* deaths.                                                                 *)
(***************************************************************************)
EXTENDS MCTasks, TLAPS, FiniteSetTheorems, SequenceTheorems, WellFoundedInduction

-----------------------------------------------------------------------------
(***************************************************************************)
(* The worker: the inductive invariant.                                    *)
(***************************************************************************)

\* A goroutine runs a task that redis still has, and the calls of its kind.
TicketMade(t) == IdempotencyKey(t.job) \in tickets

Held ==
    \A w \in Slot : slot[w] # Idle =>
        LET t == slot[w].task IN
        /\ t \in Tasks
        /\ slot[w].at \in {"assess", "promote"} => t.kind = "assess"
        /\ slot[w].at = "deliver" => t.kind = "ticket"
        /\ slot[w].at = "done" /\ t.kind = "ticket" => TicketMade(t)

\* No two goroutines run one task.
Apart ==
    \A v, w \in Slot :
        slot[v] # Idle /\ slot[w] # Idle /\ slot[v].task = slot[w].task => v = w

\* An assessment that is still to be made, or to ask for its ticket.
Unfinished(t) == \A w \in Slot : slot[w] # Idle /\ slot[w].task = t => slot[w].at # "done"

Remembered(c) ==
    \/ \E key \in tickets : ConvOf(key) = c
    \/ \E t \in archived : t.job.conv = c
    \/ \E t \in Tasks : t.job.conv = c /\ (t.kind = "ticket" \/ Unfinished(t))

PromotedIsRemembered == \A c \in DOMAIN intake : intake[c] = "promote" => Remembered(c)

Inv == TypeOK /\ Held /\ Apart /\ PromotedIsRemembered

-----------------------------------------------------------------------------
(***************************************************************************)
(* Tasks and what redis does with them.                                    *)
(***************************************************************************)
LEMMA TaskFields ==
  \A kind, job : Task(kind, job).kind = kind /\ Task(kind, job).job = job
  BY DEF Task

LEMMA TasksAre ==
  \A t : t \in Tasks <=>
           \/ \E j \in assessQ : t = Task("assess", j)
           \/ \E j \in ticketQ : t = Task("ticket", j)
  BY DEF Tasks

LEMMA QueuedIsTask ==
  \A j : /\ Task("assess", j) \in Tasks <=> j \in assessQ
         /\ Task("ticket", j) \in Tasks <=> j \in ticketQ
  BY TaskFields, TasksAre

LEMMA TasksType ==
  ASSUME assessQ \subseteq QueueJob, ticketQ \subseteq QueueJob
  PROVE  Tasks \subseteq AllTasks
  BY TasksAre DEF Task, AllTasks, Kind

LEMMA TaskOfJob ==
  ASSUME NEW t \in AllTasks
  PROVE  t = Task(t.kind, t.job) /\ t.job \in QueueJob
  BY DEF AllTasks, Task

\* What a goroutine has in its hands.
LEMMA BusySlot ==
  ASSUME Inv, NEW w \in Slot, slot[w].at # "idle"
  PROVE  /\ slot[w] \in Busy /\ slot[w] # Idle /\ slot[w].task \in Tasks
         /\ slot[w].task \in AllTasks /\ JobOf(w) \in QueueJob
  <1>1. slot[w] # Idle
    BY DEF Idle
  <1>2. slot[w] \in Busy
    BY <1>1 DEF Inv, TypeOK
  <1>3. slot[w].task \in AllTasks
    BY <1>2 DEF Busy
  <1> QED BY <1>1, <1>2, <1>3 DEF Inv, Held, JobOf, AllTasks

\* Fail: a task is retried or archived, and no other task is touched.
LEMMA FailKeeps ==
  ASSUME Inv, NEW T \in SUBSET Tasks, NEW jobs \in SUBSET QueueJob, Fail(T, jobs)
  PROVE  /\ assessQ' \subseteq QueueJob /\ ticketQ' \subseteq QueueJob /\ archived' \subseteq AllTasks
         /\ IsABag(retried') /\ BagToSet(retried') \subseteq AllTasks
         /\ archived \subseteq archived'
         /\ \A t \in Tasks : t \in Tasks' \/ t \in archived'
         /\ \A t \in Tasks \ T : t \in Tasks'
         /\ \A j \in jobs : Task("ticket", j) \in Tasks' \cup archived'
  <1> DEFINE spent == {t \in T : Retries(t) >= MaxRetry[t.kind]}
  <1>1. /\ archived' = archived \cup spent
        /\ retried' = [t \in (BagToSet(retried) \cup T) \ spent |->
                          Retries(t) + (IF t \in T THEN 1 ELSE 0)]
        /\ assessQ' = {j \in assessQ : Task("assess", j) \notin spent}
        /\ ticketQ' = {j \in ticketQ \cup jobs : Task("ticket", j) \notin spent}
    BY DEF Fail
  <1>2. spent \subseteq T /\ T \subseteq Tasks /\ Tasks \subseteq AllTasks
    BY TasksType DEF Inv, TypeOK
  <1> HIDE DEF spent
  <1>3. assessQ' \subseteq QueueJob /\ ticketQ' \subseteq QueueJob /\ archived' \subseteq AllTasks
    BY <1>1, <1>2 DEF Inv, TypeOK
  <1>4. IsABag(retried') /\ BagToSet(retried') \subseteq AllTasks
    <2>1. IsABag(retried) /\ BagToSet(retried) \subseteq AllTasks
      BY DEF Inv, TypeOK
    <2>2. \A t : /\ t \in BagToSet(retried) => Retries(t) \in Nat \ {0}
                 /\ t \notin BagToSet(retried) => Retries(t) = 0
      BY <2>1 DEF IsABag, Retries, BagIn, BagToSet
    <2>3. \A t \in (BagToSet(retried) \cup T) \ spent :
             Retries(t) + (IF t \in T THEN 1 ELSE 0) \in Nat \ {0}
      BY <2>2
    <2>4. DOMAIN retried' = (BagToSet(retried) \cup T) \ spent
      BY <1>1
    <2>5. retried' \in [DOMAIN retried' -> {n \in Nat : n > 0}]
      BY <1>1, <2>3
    <2> QED BY <1>2, <2>1, <2>4, <2>5 DEF IsABag, BagToSet
  <1>5. \A j : /\ Task("assess", j) \in Tasks' <=> j \in assessQ'
               /\ Task("ticket", j) \in Tasks' <=> j \in ticketQ'
    <2>1. \A t : t \in Tasks' <=> \/ \E j \in assessQ' : t = Task("assess", j)
                                  \/ \E j \in ticketQ' : t = Task("ticket", j)
      BY DEF Tasks
    <2> QED BY <2>1, TaskFields
  <1>6. \A t \in Tasks : t \notin spent => t \in Tasks'
    BY <1>1, <1>5, TasksAre
  <1>7. \A j \in jobs : Task("ticket", j) \in Tasks' \cup archived'
    BY <1>1, <1>5
  <1> QED BY <1>1, <1>2, <1>3, <1>4, <1>6, <1>7

\* What becomes of the tasks that are not Done: the memory of a conversation.
LEMMA RememberedStays ==
  ASSUME Inv, tickets \subseteq tickets', archived \subseteq archived', NEW c,
         \A t \in Tasks : t \in Tasks' \/ t \in archived',
         \A t \in Tasks : t.kind # "ticket" /\ Unfinished(t) => Unfinished(t)' \/ Remembered(c)'
                                                                  \/ t.job.conv # c,
         Remembered(c)
  PROVE  Remembered(c)'
  BY DEF Remembered

-----------------------------------------------------------------------------
(***************************************************************************)
(* The steps.                                                              *)
(***************************************************************************)

\* No goroutine but w changes, and w is idle or as a handler leaves it.
Others(w) == \A v \in Slot \ {w} : slot'[v] = slot[v]

LEMMA TakeStep ==
  ASSUME Inv, NEW w \in Slot, Take(w)
  PROVE  Inv'
  <1>1. PICK t \in Tasks \ Running :
          slot' = [slot EXCEPT ![w] =
                     [at |-> IF t.kind = "assess" THEN "assess" ELSE "deliver", task |-> t]]
    BY DEF Take
  <1>2. /\ UNCHANGED <<queues, intake, retried, archived, batchDue, tickets>>
        /\ slot[w] = Idle /\ Tasks' = Tasks
    BY DEF Take, Tasks, queues
  <1>3. t \in AllTasks /\ t.kind \in {"assess", "ticket"}
    BY TasksType DEF Inv, TypeOK, AllTasks, Kind
  <1> DEFINE new == [at |-> IF t.kind = "assess" THEN "assess" ELSE "deliver", task |-> t]
  <1>4. /\ new \in Busy /\ new.task = t /\ new # Idle
        /\ new.at = IF t.kind = "assess" THEN "assess" ELSE "deliver"
    BY <1>3 DEF Busy, Idle
  <1>5. slot'[w] = new /\ Others(w)
    BY <1>1 DEF Inv, TypeOK, Others
  <1> HIDE DEF new
  <1>6. TypeOK'
    <2>1. slot' \in [Slot -> {Idle} \cup Busy]
      BY <1>1, <1>4 DEF Inv, TypeOK, new
    <2> QED BY <1>2, <2>1 DEF Inv, TypeOK, queues
  <1>7. Held'
    BY <1>2, <1>3, <1>4, <1>5 DEF Inv, Held, Others, TicketMade
  <1>8. Apart'
    <2>1. \A v \in Slot : slot[v] # Idle => slot[v].task # t
      BY <1>1 DEF Running
    <2> QED BY <1>4, <1>5, <2>1 DEF Inv, Apart, Others
  <1>9. PromotedIsRemembered'
    <2>1. \A x \in Tasks : Unfinished(x) => Unfinished(x)'
      BY <1>3, <1>4, <1>5 DEF Unfinished, Others
    <2>2. \A c : Remembered(c) => Remembered(c)'
      BY <1>2, <2>1 DEF Remembered
    <2> QED BY <1>2, <2>2 DEF Inv, PromotedIsRemembered
  <1> QED BY <1>6, <1>7, <1>8, <1>9 DEF Inv

\* A handler goes on to another call.
LEMMA ProceedSlot ==
  ASSUME Inv, NEW w \in Slot, slot[w].at # "idle", NEW call \in {"promote", "done"},
         Proceed(w, call)
  PROVE  /\ slot' \in [Slot -> {Idle} \cup Busy] /\ Others(w) /\ Apart'
         /\ slot'[w].at = call /\ slot'[w].task = slot[w].task /\ slot'[w] # Idle
         /\ \A t \in Tasks \ {slot[w].task} : Unfinished(t) => Unfinished(t)'
  <1>1. slot[w] \in Busy /\ slot \in [Slot -> {Idle} \cup Busy] /\ slot[w] # Idle
    BY BusySlot DEF Inv, TypeOK
  <1>2. [slot[w] EXCEPT !.at = call] \in Busy
    BY <1>1 DEF Busy
  <1>3. slot'[w] = [slot[w] EXCEPT !.at = call] /\ Others(w)
    BY <1>1 DEF Proceed, Others
  <1>4. slot'[w].at = call /\ slot'[w].task = slot[w].task /\ slot'[w] # Idle
    BY <1>1, <1>3 DEF Busy, Idle
  <1>5. slot' \in [Slot -> {Idle} \cup Busy]
    BY <1>1, <1>2, <1>3 DEF Proceed
  <1>6. Apart'
    <2>1. \A u \in Slot : /\ slot'[u] # Idle => slot[u] # Idle
                         /\ slot'[u].task = slot[u].task
      BY <1>1, <1>3, <1>4 DEF Others
    <2> QED BY <2>1 DEF Inv, Apart
  <1>7. \A t \in Tasks \ {slot[w].task} : Unfinished(t) => Unfinished(t)'
    BY <1>3, <1>4 DEF Unfinished, Others
  <1> QED BY <1>3, <1>4, <1>5, <1>6, <1>7

\* Nothing is lost when tasks fail, whoever ran them.
LEMMA FailStep ==
  ASSUME Inv, NEW T \in SUBSET Tasks, NEW jobs \in SUBSET QueueJob, Fail(T, jobs),
         slot' \in [Slot -> {Idle} \cup Busy],
         \A w \in Slot : slot'[w] = Idle \/ (slot'[w] = slot[w] /\ slot[w].task \notin T),
         tickets \subseteq tickets', tickets' \subseteq {IdempotencyKey(j) : j \in QueueJob},
         batchDue' \in BOOLEAN, UNCHANGED intake
  PROVE  Inv'
  <1>1. TypeOK'
    BY FailKeeps DEF Inv, TypeOK
  <1>2. Held'
    BY FailKeeps DEF Inv, Held, TicketMade
  <1>3. Apart'
    BY DEF Inv, Apart
  <1>4. PromotedIsRemembered'
    <2>1. \A t : Unfinished(t) => Unfinished(t)'
      BY DEF Unfinished
    <2>2. \A c : Remembered(c) => Remembered(c)'
      BY <2>1, FailKeeps DEF Remembered
    <2> QED BY <2>2 DEF Inv, PromotedIsRemembered
  <1> QED BY <1>1, <1>2, <1>3, <1>4 DEF Inv

LEMMA ReturnErrorStep ==
  ASSUME Inv, NEW w \in Slot, slot[w].at # "idle", NEW jobs \in SUBSET QueueJob,
         ReturnError(w, jobs), tickets \subseteq tickets',
         tickets' \subseteq {IdempotencyKey(j) : j \in QueueJob},
         batchDue' \in BOOLEAN, UNCHANGED intake
  PROVE  Inv'
  <1> DEFINE T == {slot[w].task}
  <1>1. slot[w] # Idle /\ T \in SUBSET Tasks
    BY BusySlot
  <1>2. Fail(T, jobs) /\ slot' = [slot EXCEPT ![w] = Idle]
    BY DEF ReturnError
  <1>3. slot' \in [Slot -> {Idle} \cup Busy]
    BY <1>2 DEF Inv, TypeOK
  <1>4. \A v \in Slot : slot'[v] = Idle \/ (slot'[v] = slot[v] /\ slot[v].task \notin T)
    <2> SUFFICES ASSUME NEW v \in Slot, slot'[v] # Idle
                 PROVE  slot'[v] = slot[v] /\ slot[v].task \notin T
      OBVIOUS
    <2>1. v # w /\ slot'[v] = slot[v]
      BY <1>2 DEF Inv, TypeOK
    <2>2. slot[v] # Idle
      BY <2>1
    <2> QED BY <1>1, <2>1, <2>2 DEF Inv, Apart
  <1> HIDE DEF T
  <1> QED BY <1>1, <1>2, <1>3, <1>4, FailStep

LEMMA AssessStep ==
  ASSUME Inv, NEW w \in Slot, Assess(w)
  PROVE  Inv'
  <1>1. slot[w].at = "assess" /\ UNCHANGED <<batchDue, tickets>>
    BY DEF Assess, At
  <1>2. /\ slot[w] # Idle /\ slot[w].task \in Tasks /\ slot[w].task.kind = "assess"
        /\ slot[w].task.job = JobOf(w)
    BY <1>1, BusySlot DEF Inv, Held, JobOf
  <1>3. CASE ReturnError(w, {}) /\ UNCHANGED intake
    BY <1>1, <1>3, ReturnErrorStep DEF Inv, TypeOK
  <1>4. ASSUME NEW v \in Verdict, WriteCompleteness(JobOf(w).conv, v),
               Proceed(w, IF v = "promote" THEN "promote" ELSE "done"),
               UNCHANGED <<queues, retried, archived>>
        PROVE  Inv'
    <2> DEFINE call == IF v = "promote" THEN "promote" ELSE "done"
               conv == JobOf(w).conv
    <2>1. /\ slot' \in [Slot -> {Idle} \cup Busy] /\ Others(w) /\ Apart'
          /\ slot'[w].at = call /\ slot'[w].task = slot[w].task /\ slot'[w] # Idle
          /\ \A t \in Tasks \ {slot[w].task} : Unfinished(t) => Unfinished(t)'
      BY <1>1, <1>4, ProceedSlot
    <2>2. Tasks' = Tasks
      BY <1>4 DEF Tasks, queues
    <2>3. intake' = [c \in DOMAIN intake \cup {conv} |-> IF c = conv THEN v ELSE intake[c]]
      BY <1>4 DEF WriteCompleteness
    <2>4. TypeOK'
      BY <1>1, <1>4, <2>1, <2>3 DEF Inv, TypeOK, queues
    <2>5. Held'
      BY <1>1, <1>2, <2>1, <2>2 DEF Inv, Held, Others, TicketMade
    <2>6. PromotedIsRemembered'
      <3> SUFFICES ASSUME NEW c \in DOMAIN intake', intake'[c] = "promote"
                   PROVE  Remembered(c)'
        BY DEF PromotedIsRemembered
      <3>1. CASE c = conv
        <4>1. v = "promote" /\ slot'[w].at = "promote"
          BY <2>1, <2>3, <3>1
        <4>2. PICK t \in Tasks : t = slot[w].task
          BY <1>2
        <4>3. t = slot'[w].task /\ t.job.conv = c /\ t \in Tasks'
          BY <1>2, <2>1, <2>2, <3>1, <4>2
        <4>4. \A u \in Slot : slot'[u] # Idle /\ slot'[u].task = t => u = w
          BY <2>1, <4>3 DEF Apart
        <4>5. Unfinished(t)'
          BY <4>1, <4>4 DEF Unfinished
        <4> QED BY <4>3, <4>5 DEF Remembered
      <3>2. CASE c # conv
        <4>1. Remembered(c)
          BY <2>3, <3>2 DEF Inv, PromotedIsRemembered
        <4>2. \A t \in Tasks : t.kind # "ticket" /\ Unfinished(t) =>
                 Unfinished(t)' \/ t.job.conv # c
          BY <1>2, <2>1, <3>2
        <4> QED BY <1>1, <1>4, <2>2, <4>1, <4>2, RememberedStays
      <3> QED BY <3>1, <3>2
    <2> QED BY <2>1, <2>4, <2>5, <2>6 DEF Inv
  <1> QED BY <1>3, <1>4 DEF Assess

LEMMA PromoteStep ==
  ASSUME Inv, NEW w \in Slot, Promote(w)
  PROVE  Inv'
  <1>1. slot[w].at = "promote" /\ UNCHANGED <<intake, batchDue, tickets>>
    BY DEF Promote, At
  <1>2. /\ slot[w] # Idle /\ slot[w].task \in Tasks /\ slot[w].task.kind = "assess"
        /\ slot[w].task.job = JobOf(w) /\ JobOf(w) \in QueueJob
    BY <1>1, BusySlot DEF Inv, Held, JobOf
  <1>3. CASE ReturnError(w, {}) \/ ReturnError(w, {JobOf(w)})
    BY <1>1, <1>2, <1>3, ReturnErrorStep DEF Inv, TypeOK
  <1>4. CASE /\ ticketQ' = ticketQ \cup {JobOf(w)}
             /\ Proceed(w, "done")
             /\ UNCHANGED <<assessQ, retried, archived>>
    <2>1. /\ slot' \in [Slot -> {Idle} \cup Busy] /\ Others(w) /\ Apart'
          /\ slot'[w].at = "done" /\ slot'[w].task = slot[w].task /\ slot'[w] # Idle
          /\ \A t \in Tasks \ {slot[w].task} : Unfinished(t) => Unfinished(t)'
      BY <1>1, <1>4, ProceedSlot
    <2>2. Tasks \subseteq Tasks' /\ Task("ticket", JobOf(w)) \in Tasks'
      BY <1>4 DEF Tasks
    <2>3. TypeOK'
      BY <1>1, <1>2, <1>4, <2>1 DEF Inv, TypeOK
    <2>4. Held'
      BY <1>1, <1>2, <2>1, <2>2 DEF Inv, Held, Others, TicketMade
    <2>5. PromotedIsRemembered'
      <3> SUFFICES ASSUME NEW c \in DOMAIN intake, Remembered(c) PROVE Remembered(c)'
        BY <1>1 DEF Inv, PromotedIsRemembered
      <3>1. JobOf(w).conv = c => Remembered(c)'
        BY <2>2, TaskFields DEF Remembered
      <3>2. \A t \in Tasks : t.kind # "ticket" /\ Unfinished(t) =>
               Unfinished(t)' \/ Remembered(c)' \/ t.job.conv # c
        BY <1>2, <2>1, <3>1
      <3> QED BY <1>1, <1>4, <2>2, <3>2, RememberedStays
    <2> QED BY <2>1, <2>3, <2>4, <2>5 DEF Inv
  <1> QED BY <1>3, <1>4 DEF Promote

LEMMA DeliverStep ==
  ASSUME Inv, NEW w \in Slot, Deliver(w)
  PROVE  Inv'
  <1>1. slot[w].at = "deliver" /\ UNCHANGED intake
    BY DEF Deliver, At
  <1>2. /\ slot[w] # Idle /\ slot[w].task \in Tasks /\ slot[w].task.kind = "ticket"
        /\ slot[w].task.job = JobOf(w) /\ JobOf(w) \in QueueJob
    BY <1>1, BusySlot DEF Inv, Held, JobOf
  <1> DEFINE made == tickets \cup {IdempotencyKey(JobOf(w))}
  <1>3. made \subseteq {IdempotencyKey(j) : j \in QueueJob} /\ tickets \subseteq made
    BY <1>2 DEF Inv, TypeOK
  <1>4. CASE ReturnError(w, {}) /\ (tickets' = made \/ tickets' = tickets) /\ batchDue' = batchDue
    BY <1>1, <1>3, <1>4, ReturnErrorStep DEF Inv, TypeOK
  <1>5. CASE /\ tickets' = made /\ batchDue' \in BOOLEAN
             /\ Proceed(w, "done")
             /\ UNCHANGED <<queues, retried, archived>>
    <2>1. /\ slot' \in [Slot -> {Idle} \cup Busy] /\ Others(w) /\ Apart'
          /\ slot'[w].at = "done" /\ slot'[w].task = slot[w].task /\ slot'[w] # Idle
          /\ \A t \in Tasks \ {slot[w].task} : Unfinished(t) => Unfinished(t)'
      BY <1>1, <1>5, ProceedSlot
    <2>2. Tasks' = Tasks
      BY <1>5 DEF Tasks, queues
    <2>3. TypeOK'
      BY <1>1, <1>3, <1>5, <2>1 DEF Inv, TypeOK, queues
    <2>4. Held'
      <3>1. TicketMade(slot[w].task)'
        BY <1>2, <1>5, <2>1 DEF TicketMade
      <3>2. \A v \in Slot : TicketMade(slot[v].task) => IdempotencyKey(slot[v].task.job) \in tickets'
        BY <1>5 DEF TicketMade
      <3> QED BY <1>2, <1>5, <2>1, <2>2, <3>1, <3>2 DEF Inv, Held, Others, TicketMade
    <2>5. PromotedIsRemembered'
      <3> SUFFICES ASSUME NEW c \in DOMAIN intake, Remembered(c) PROVE Remembered(c)'
        BY <1>1 DEF Inv, PromotedIsRemembered
      <3>1. \A t \in Tasks : t.kind # "ticket" /\ Unfinished(t) =>
               Unfinished(t)' \/ Remembered(c)' \/ t.job.conv # c
        BY <1>2, <2>1
      <3> QED BY <1>3, <1>5, <2>2, <3>1, RememberedStays
    <2> QED BY <2>1, <2>3, <2>4, <2>5 DEF Inv
  <1> QED BY <1>4, <1>5 DEF Deliver, Inv, TypeOK

\* Redis drops a task whose handler has returned nil.
LEMMA DoneStep ==
  ASSUME Inv, NEW w \in Slot, Done(w)
  PROVE  Inv'
  <1> DEFINE mine == slot[w].task
  <1>1. /\ slot[w].at = "done" /\ UNCHANGED <<intake, archived, batchDue, tickets>>
        /\ slot' = [slot EXCEPT ![w] = Idle] /\ retried' = Forget({mine})
        /\ assessQ' = {j \in assessQ : Task("assess", j) # mine}
        /\ ticketQ' = {j \in ticketQ : Task("ticket", j) # mine}
    BY DEF Done, At, Discard
  <1>2. slot[w] # Idle /\ mine \in Tasks /\ mine \in AllTasks
    BY <1>1, BusySlot
  <1>3. slot' \in [Slot -> {Idle} \cup Busy] /\ slot'[w] = Idle /\ Others(w)
    BY <1>1 DEF Inv, TypeOK, Others
  <1> HIDE DEF mine
  <1>4. \A t \in Tasks : t # mine => t \in Tasks'
    BY <1>1 DEF Tasks
  <1>5. TypeOK'
    <2>1. IsABag(retried') /\ BagToSet(retried') \subseteq AllTasks
      <3>1. IsABag(retried) /\ BagToSet(retried) \subseteq AllTasks
        BY DEF Inv, TypeOK
      <3>2. DOMAIN retried' = DOMAIN retried \ {mine}
            /\ \A t \in DOMAIN retried' : retried'[t] = retried[t]
        BY <1>1 DEF Forget, BagToSet
      <3>3. \A t \in DOMAIN retried' : retried'[t] \in {n \in Nat : n > 0}
        BY <3>1, <3>2 DEF IsABag
      <3>4. retried' = [t \in DOMAIN retried' |-> retried'[t]]
        BY <1>1 DEF Forget, BagToSet
      <3>5. retried' \in [DOMAIN retried' -> {n \in Nat : n > 0}]
        BY <3>3, <3>4
      <3> QED BY <3>1, <3>2, <3>5 DEF IsABag, BagToSet
    <2> QED BY <1>1, <1>3, <2>1 DEF Inv, TypeOK
  <1>6. ASSUME NEW v \in Slot, slot'[v] # Idle
        PROVE  slot'[v] = slot[v] /\ slot[v] # Idle /\ slot[v].task # mine /\ slot[v].task \in Tasks'
    <2>1. v # w /\ slot'[v] = slot[v] /\ slot[v] # Idle
      BY <1>3, <1>6 DEF Others
    <2>2. slot[v].task # mine
      BY <1>2, <2>1 DEF Inv, Apart, mine
    <2> QED BY <1>4, <2>1, <2>2 DEF Inv, Held
  <1>7. Held'
    BY <1>1, <1>6 DEF Inv, Held, TicketMade
  <1>8. Apart'
    BY <1>6 DEF Inv, Apart
  <1>9. PromotedIsRemembered'
    <2> SUFFICES ASSUME NEW c \in DOMAIN intake, Remembered(c) PROVE Remembered(c)'
      BY <1>1 DEF Inv, PromotedIsRemembered
    <2>1. \A t : Unfinished(t) => Unfinished(t)'
      BY <1>6 DEF Unfinished
    <2>2. CASE \E key \in tickets : ConvOf(key) = c
      BY <1>1, <2>2 DEF Remembered
    <2>3. CASE \E t \in archived : t.job.conv = c
      BY <1>1, <2>3 DEF Remembered
    <2>4. CASE \E t \in Tasks : t.job.conv = c /\ (t.kind = "ticket" \/ Unfinished(t))
      <3>1. PICK t \in Tasks : t.job.conv = c /\ (t.kind = "ticket" \/ Unfinished(t))
        BY <2>4
      <3>2. CASE t # mine
        BY <1>4, <2>1, <3>1, <3>2 DEF Remembered
      <3>3. CASE t = mine
        <4>1. t.kind = "ticket"
          BY <1>1, <1>2, <3>1, <3>3 DEF Unfinished, mine
        <4>2. IdempotencyKey(t.job) \in tickets
          BY <1>1, <1>2, <3>3, <4>1 DEF Inv, Held, TicketMade, mine
        <4>3. ConvOf(IdempotencyKey(t.job)) = c
          BY <3>1 DEF ConvOf, IdempotencyKey
        <4> QED BY <1>1, <4>2, <4>3 DEF Remembered
      <3> QED BY <3>2, <3>3
    <2> QED BY <2>2, <2>3, <2>4 DEF Remembered
  <1> QED BY <1>5, <1>7, <1>8, <1>9 DEF Inv

LEMMA DieStep ==
  ASSUME Inv, Die
  PROVE  Inv'
  <1>1. /\ Fail(Running, {}) /\ slot' = [w \in Slot |-> Idle] /\ UNCHANGED <<intake, batchDue, tickets>>
    BY DEF Die
  <1>2. Running \in SUBSET Tasks
    BY DEF Inv, Held, Running
  <1>3. /\ slot' \in [Slot -> {Idle} \cup Busy] /\ \A w \in Slot : slot'[w] = Idle
        /\ batchDue' \in BOOLEAN /\ tickets' \subseteq {IdempotencyKey(j) : j \in QueueJob}
    BY <1>1 DEF Inv, TypeOK
  <1>4. {} \in SUBSET QueueJob /\ tickets \subseteq tickets' /\ UNCHANGED intake
    BY <1>1
  <1> DEFINE T == Running
             jobs == {}
  <1>5. T \in SUBSET Tasks /\ jobs \in SUBSET QueueJob /\ Fail(T, jobs)
        /\ \A w \in Slot : slot'[w] = Idle \/ (slot'[w] = slot[w] /\ slot[w].task \notin T)
    BY <1>1, <1>2, <1>3
  <1> HIDE DEF T, jobs
  <1> QED BY <1>3, <1>4, <1>5, FailStep

LEMMA RunBatchStep ==
  ASSUME Inv, RunBatch
  PROVE  Inv'
  <1>1. /\ UNCHANGED <<assessQ, ticketQ, intake, slot, retried, archived, tickets>>
        /\ batchDue' \in BOOLEAN /\ Tasks' = Tasks
    BY DEF RunBatch, queues, Tasks
  <1>2. TypeOK'
    BY <1>1 DEF Inv, TypeOK
  <1>3. Held' /\ Apart'
    BY <1>1 DEF Inv, Held, Apart, TicketMade
  <1>4. PromotedIsRemembered'
    <2>1. \A c : Remembered(c) => Remembered(c)'
      BY <1>1 DEF Remembered, Unfinished
    <2> QED BY <1>1, <2>1 DEF Inv, PromotedIsRemembered
  <1> QED BY <1>2, <1>3, <1>4 DEF Inv

-----------------------------------------------------------------------------
(***************************************************************************)
(* The theorems.                                                           *)
(***************************************************************************)
LEMMA InvInit == Init => Inv
  <1> SUFFICES ASSUME Init PROVE Inv
    OBVIOUS
  <1>1. IsABag(EmptyBag) /\ BagToSet(EmptyBag) \subseteq AllTasks
    BY DEF IsABag, EmptyBag, BagToSet, SetToBag
  <1>2. TypeOK
    BY <1>1 DEF Init, WorkerInit, TypeOK
  <1>3. Held /\ Apart
    BY DEF Init, WorkerInit, Held, Apart
  <1>4. PromotedIsRemembered
    BY DEF Init, PromotedIsRemembered
  <1> QED BY <1>2, <1>3, <1>4 DEF Inv

LEMMA InvNext == Inv /\ [WorkerNext \/ RunBatch]_vars => Inv'
  <1> SUFFICES ASSUME Inv, [WorkerNext \/ RunBatch]_vars PROVE Inv'
    OBVIOUS
  <1>1. ASSUME NEW w \in Slot, Handle(w) PROVE Inv'
    BY <1>1, TakeStep, AssessStep, PromoteStep, DeliverStep, DoneStep DEF Handle
  <1>2. CASE UNCHANGED vars
    <2>1. /\ UNCHANGED <<assessQ, ticketQ, intake, slot, retried, archived, batchDue, tickets>>
          /\ Tasks' = Tasks
      BY <1>2 DEF vars, queues, ours, Tasks
    <2>2. TypeOK' /\ Held' /\ Apart'
      BY <2>1 DEF Inv, TypeOK, Held, Apart, TicketMade
    <2>3. \A c : Remembered(c) => Remembered(c)'
      BY <2>1 DEF Remembered, Unfinished
    <2> QED BY <2>1, <2>2, <2>3 DEF Inv, PromotedIsRemembered
  <1> QED BY <1>1, <1>2, DieStep, RunBatchStep DEF WorkerNext

LEMMA InvAlways == Spec => []Inv
  BY InvInit, InvNext, PTL DEF Spec

(***************************************************************************)
(* The worker's variables keep their types.                                *)
(***************************************************************************)
THEOREM WorkerTypeCorrect == Spec => []TypeOK
  <1>1. Inv => TypeOK
    BY DEF Inv
  <1> QED BY InvAlways, <1>1, PTL

(***************************************************************************)
(* An assessment that calls for a ticket is not forgotten between its task *)
(* and the ticket's, whatever fails and whenever the worker dies.          *)
(***************************************************************************)
THEOREM PromotionIsNotForgotten == Spec => []PromotedIsTicketed
  <1>1. Inv => PromotedIsTicketed
    BY DEF Inv, PromotedIsRemembered, Remembered, PromotedIsTicketed
  <1> QED BY InvAlways, <1>1, PTL

(***************************************************************************)
(* A ticket task leaves redis with its ticket made, or into the archive.   *)
(***************************************************************************)
THEOREM TicketTasksSettle == Spec => TicketTaskSettles
  <1> DEFINE Settled == \A j \in ticketQ \ ticketQ' :
                  IdempotencyKey(j) \in tickets' \/ Task("ticket", j) \in archived'
  <1>1. Inv /\ [WorkerNext \/ RunBatch]_vars => [Settled]_vars
    <2> SUFFICES ASSUME Inv, WorkerNext \/ RunBatch, NEW j \in ticketQ, j \notin ticketQ'
                 PROVE  IdempotencyKey(j) \in tickets' \/ Task("ticket", j) \in archived'
      OBVIOUS
    <2> DEFINE t == Task("ticket", j)
    <2>1. t \in Tasks /\ t \notin Tasks' /\ t.kind = "ticket" /\ t.job = j
      <3>1. t.kind = "ticket" /\ t.job = j
        BY TaskFields
      <3>2. \A k \in assessQ' : Task("assess", k) # t
        BY <3>1, TaskFields
      <3>3. \A k \in ticketQ' : Task("ticket", k) # t
        BY <3>1, TaskFields
      <3> QED BY <3>1, <3>2, <3>3 DEF Tasks
    <2> HIDE DEF t
    <2>2. ASSUME NEW T \in SUBSET Tasks, NEW jobs \in SUBSET QueueJob, Fail(T, jobs)
          PROVE  t \in archived'
      BY <2>1, <2>2, FailKeeps
    <2>3. ASSUME NEW w \in Slot, slot[w].at # "idle", NEW jobs \in SUBSET QueueJob, ReturnError(w, jobs)
          PROVE  t \in archived'
      BY <2>2, <2>3, BusySlot DEF ReturnError
    <2>4. ASSUME NEW w \in Slot, Take(w) PROVE FALSE
      BY <2>4 DEF Take, queues
    <2>5. ASSUME NEW w \in Slot, Assess(w) PROVE t \in archived'
      BY <2>3, <2>5 DEF Assess, At, queues
    <2>6. ASSUME NEW w \in Slot, Promote(w) PROVE t \in archived'
      <3>1. slot[w].at = "promote" /\ JobOf(w) \in QueueJob
        BY <2>6, BusySlot DEF Promote, At
      <3> QED BY <2>3, <2>6, <3>1 DEF Promote
    <2>7. ASSUME NEW w \in Slot, Deliver(w) PROVE t \in archived'
      BY <2>3, <2>7 DEF Deliver, At, queues
    <2>8. ASSUME NEW w \in Slot, Done(w) PROVE IdempotencyKey(j) \in tickets'
      <3>1. slot[w].at = "done" /\ slot[w] # Idle /\ tickets' = tickets
        BY <2>8, BusySlot DEF Done, At
      <3>2. slot[w].task = t
        BY <2>1, <2>8 DEF Done, Discard, t
      <3> QED BY <2>1, <3>1, <3>2 DEF Inv, Held, TicketMade
    <2>9. CASE Die
      <3>1. Running \in SUBSET Tasks
        BY DEF Inv, Held, Running
      <3> QED BY <2>2, <2>9, <3>1 DEF Die, t
    <2>10. CASE RunBatch
      BY <2>10 DEF RunBatch, queues
    <2> QED BY <2>4, <2>5, <2>6, <2>7, <2>8, <2>9, <2>10 DEF WorkerNext, Handle, t
  <1> QED BY InvAlways, <1>1, PTL DEF Spec, TicketTaskSettles

-----------------------------------------------------------------------------
(***************************************************************************)
(* The review of new symptoms: the inductive invariant.                    *)
(***************************************************************************)
Symptom == [name: STRING, status: {"proposed", "active"}]
Item    == [payload: Payload, status: Decision]
Record  == [report: Report, node: Nat, isNew: BOOLEAN]

\* What the goroutines hold.
Some(S) == (SUBSET S) \ {{}}

BatchTask ==
    [pc: {"model"}, left: Some(Report)]
    \cup [pc: {"find", "insert", "enqueue", "write"}, left: Some(Report), answer: Answer, node: Nat]

FlushTask ==
    [pc: {"push"}, left: Some(Nat)]
    \cup [pc: {"mark"}, left: Some(Nat), outcome: {"sent", "failed"}]

PromotionTask == [pc: {"activate", "approve"}, payload: Payload]

Typed ==
    /\ nodes \in Seq(Symptom) /\ outbox \in Seq(OutboxRow)
    /\ classified \subseteq Record /\ review \subseteq Item
    /\ batch \in [Classifier -> {NoTask} \cup BatchTask]
    /\ flush \in [Flusher -> {NoTask} \cup FlushTask]
    /\ promotion \in [Reviewer -> {NoTask} \cup PromotionTask]
    /\ unqueued \subseteq Report /\ faults \in 0..MaxFaults

\* The symptoms and the rows that are referred to are there.
Known ==
    /\ \A rec \in classified : rec.node \in DOMAIN nodes
    /\ \A k \in DOMAIN outbox : outbox[k].payload.node \in DOMAIN nodes
    /\ \A i \in review : i.payload.node \in DOMAIN nodes
    /\ \A c \in Classifier : batch[c].pc \in {"enqueue", "write"} => batch[c].node \in DOMAIN nodes
    /\ \A f \in Flusher : flush[f] # NoTask => flush[f].left \subseteq DOMAIN outbox
    /\ \A p \in Reviewer : promotion[p] # NoTask => promotion[p].payload.node \in DOMAIN nodes

OneItem == \A i, j \in review : i.payload = j.payload => i = j

\* Flushes that overlap add an attempt each to the rows they hold.
Holders(k) == {f \in Flusher : flush[f] # NoTask /\ k \in flush[f].left}

AttemptsAreBounded ==
    \A k \in DOMAIN outbox :
        outbox[k].attempts + Cardinality(Holders(k)) < AttemptLimit + Cardinality(Flusher)

\* A classification that is about to be written has its proposal in the outbox.
HasRow(n) == \E k \in DOMAIN outbox : outbox[k].payload.node = n

Proposed ==
    /\ \A rec \in classified : rec.isNew /\ rec.report \notin unqueued => HasRow(rec.node)
    /\ \A c \in Classifier :
          batch[c].pc = "write" /\ batch[c].answer.isNew /\ Current(c) \notin unqueued
            => HasRow(batch[c].node)

\* So has a row that is about to be marked as sent its review item.
Delivered ==
    /\ SentIsInReview
    /\ \A f \in Flusher : flush[f].pc = "mark" /\ flush[f].outcome = "sent" => InReview(Min(flush[f].left))

\* And the symptom of an approval that is about to be recorded is active.
Activation ==
    /\ ApprovedIsActive
    /\ \A p \in Reviewer : promotion[p].pc = "approve" => nodes[promotion[p].payload.node].status = "active"

IInv == Typed /\ Known /\ OneItem /\ AttemptsAreBounded /\ Proposed /\ Delivered /\ Activation

-----------------------------------------------------------------------------
(***************************************************************************)
(* The reports and rows a task holds.                                      *)
(***************************************************************************)
LEMMA Smallest ==
  ASSUME NEW S \in SUBSET Nat, S # {}
  PROVE  Min(S) \in S /\ \A k \in S : Min(S) <= k
  <1>1. PICK x \in S : \A y \in S : ~ (<<y, x>> \in OpToRel(<, Nat))
    BY NatLessThanWellFounded, WFMin
  <1>2. ASSUME NEW y \in S PROVE x <= y
    <2>1. <<y, x>> \notin {ss \in Nat \X Nat : ss[1] < ss[2]}
      BY <1>1 DEF OpToRel
    <2> QED BY <2>1
  <1> QED BY <1>2 DEF Min

\* A limit leaves something of what there is to do.
LEMMA FirstOfSome ==
  ASSUME NEW S \in SUBSET Nat, S # {}, NEW limit \in Nat \ {0}
  PROVE  FirstOf(S, limit) \subseteq S /\ FirstOf(S, limit) # {}
  <1> DEFINE Less(k) == {j \in S : j < k}
  <1>1. Min(S) \in S /\ \A k \in S : Min(S) <= k
    BY Smallest
  <1>2. ASSUME NEW k \in S PROVE ~(k < Min(S))
    <2>1. k \in Nat /\ Min(S) \in Nat /\ Min(S) <= k
      BY <1>1
    <2> HIDE <1>1
    <2> QED BY <2>1
  <1>3. Less(Min(S)) = {}
    BY <1>2
  <1>4. Cardinality(Less(Min(S))) < limit
    BY <1>3, FS_EmptySet
  <1> QED BY <1>1, <1>4 DEF FirstOf

LEMMA NoTaskIsNone ==
  /\ NoTask.pc = "idle" /\ NoTask \notin BatchTask
  /\ NoTask \notin FlushTask /\ NoTask \notin PromotionTask
  BY DEF NoTask, BatchTask, FlushTask, PromotionTask

LEMMA CurrentReport ==
  ASSUME IInv, NEW c \in Classifier, batch[c] \in BatchTask
  PROVE  Current(c) \in Report /\ batch[c].left \in Some(Report)
  <1>1. batch[c].left \in Some(Report)
    BY DEF BatchTask
  <1>2. batch[c].left \in SUBSET Nat /\ batch[c].left # {}
    BY <1>1, ProposalsAssumption DEF Some
  <1> QED BY <1>1, <1>2, Smallest DEF Current, Some

\* The rows of a flush, and the one it is at.
LEMMA RowsOfFlush ==
  ASSUME IInv, NEW f \in Flusher, flush[f].pc # "idle"
  PROVE  /\ flush[f] \in FlushTask /\ flush[f] # NoTask
         /\ flush[f].left \in Some(Nat) /\ flush[f].left \subseteq DOMAIN outbox
         /\ Min(flush[f].left) \in flush[f].left /\ Min(flush[f].left) \in DOMAIN outbox
         /\ outbox[Min(flush[f].left)] \in OutboxRow
  <1>1. flush[f] # NoTask
    BY NoTaskIsNone
  <1>2. flush[f] \in FlushTask /\ flush[f].left \subseteq DOMAIN outbox
    BY <1>1 DEF IInv, Typed, Known
  <1>3. flush[f].left \in Some(Nat)
    BY <1>2 DEF FlushTask
  <1>4. Min(flush[f].left) \in flush[f].left
    BY <1>3, Smallest DEF Some
  <1>5. \A k \in DOMAIN outbox : outbox[k] \in OutboxRow
    BY DEF IInv, Typed
  <1> QED BY <1>1, <1>2, <1>3, <1>4, <1>5

-----------------------------------------------------------------------------
(***************************************************************************)
(* Steps of a classifier.                                                  *)
(***************************************************************************)

\* The next report of the batch, or the end of the task.
LEMMA NextReportTask ==
  ASSUME IInv, NEW c \in Classifier, batch[c] \in BatchTask, NextReport(c)
  PROVE  /\ batch' \in [Classifier -> {NoTask} \cup BatchTask]
         /\ \A d \in Classifier \ {c} : batch'[d] = batch[d]
         /\ batch'[c].pc \in {"idle", "model"}
  <1> DEFINE rest == batch[c].left \ {Current(c)}
             new == IF rest = {} THEN NoTask ELSE [pc |-> "model", left |-> rest]
  <1>1. batch' = [batch EXCEPT ![c] = new]
    BY DEF NextReport
  <1>2. rest \subseteq Report
    BY CurrentReport DEF Some
  <1>3. new \in {NoTask} \cup BatchTask /\ new.pc \in {"idle", "model"}
    BY <1>2, NoTaskIsNone DEF BatchTask, Some
  <1> HIDE DEF new
  <1> QED BY <1>1, <1>3 DEF IInv, Typed

\* What a classifier does keeps the invariant: it adds symptoms and rows, and changes
\* neither the symptoms that are there nor what the rows say.
LEMMA ClassifierStep ==
  ASSUME IInv, UNCHANGED <<review, flush, promotion>>, NEW c \in Classifier,
         nodes' \in Seq(Symptom), DOMAIN nodes \subseteq DOMAIN nodes',
         \A n \in DOMAIN nodes : nodes'[n] = nodes[n],
         outbox' \in Seq(OutboxRow), DOMAIN outbox \subseteq DOMAIN outbox',
         \A k \in DOMAIN outbox :
            /\ outbox'[k].payload = outbox[k].payload
            /\ outbox'[k].attempts = outbox[k].attempts
            /\ outbox'[k].status = "sent" => outbox[k].status = "sent",
         \A k \in DOMAIN outbox' \ DOMAIN outbox :
            /\ outbox'[k].payload.node \in DOMAIN nodes
            /\ outbox'[k].attempts = 0 /\ outbox'[k].status = "pending",
         classified' \subseteq Record, \A rec \in classified' : rec.node \in DOMAIN nodes',
         unqueued \subseteq unqueued', unqueued' \subseteq Report, faults' \in 0..MaxFaults,
         \A rec \in classified' \ classified :
            rec.isNew /\ rec.report \notin unqueued' => HasRow(rec.node)',
         batch' \in [Classifier -> {NoTask} \cup BatchTask],
         \A d \in Classifier \ {c} : batch'[d] = batch[d],
         batch'[c].pc \in {"enqueue", "write"} => batch'[c].node \in DOMAIN nodes',
         batch'[c].pc = "write" /\ batch'[c].answer.isNew /\ Current(c)' \notin unqueued'
            => \E k \in DOMAIN outbox' : outbox'[k].payload.node = batch'[c].node
  PROVE  IInv'
  <1>1. Typed'
    BY DEF IInv, Typed
  <1>2. Known'
    <2>1. \A k \in DOMAIN outbox' : outbox'[k].payload.node \in DOMAIN nodes'
      BY DEF IInv, Known
    <2> QED BY <2>1 DEF IInv, Known
  <1>3. OneItem'
    BY DEF IInv, OneItem
  <1>4. AttemptsAreBounded'
    <2> SUFFICES ASSUME NEW k \in DOMAIN outbox'
                 PROVE  outbox'[k].attempts + Cardinality(Holders(k)') < AttemptLimit + Cardinality(Flusher)
      BY DEF AttemptsAreBounded
    <2>1. Holders(k)' = Holders(k)
      BY DEF Holders
    <2>2. CASE k \in DOMAIN outbox
      BY <2>1, <2>2 DEF IInv, AttemptsAreBounded
    <2>3. CASE k \notin DOMAIN outbox
      <3>1. Holders(k) = {}
        BY <2>3 DEF IInv, Known, Holders
      <3> QED BY <2>1, <2>3, <3>1, FS_EmptySet, FS_CardinalityType, ProposalsAssumption
    <2> QED BY <2>2, <2>3
  <1>5. Proposed'
    <2>1. \A n : HasRow(n) => HasRow(n)'
      BY DEF HasRow
    <2>2. ASSUME NEW d \in Classifier, batch'[d].pc = "write", batch'[d].answer.isNew,
                 Current(d)' \notin unqueued'
          PROVE  \E k \in DOMAIN outbox' : outbox'[k].payload.node = batch'[d].node
      <3>1. CASE d # c
        <4>1. batch'[d] = batch[d] /\ Current(d)' = Current(d)
          BY <3>1 DEF Current
        <4>2. HasRow(batch[d].node)
          BY <2>2, <4>1 DEF IInv, Proposed
        <4>3. PICK k \in DOMAIN outbox : outbox[k].payload.node = batch[d].node
          BY <4>2 DEF HasRow
        <4> QED BY <4>1, <4>3
      <3> QED BY <2>2, <3>1
    <2>3. ASSUME NEW rec \in classified', rec.isNew, rec.report \notin unqueued'
          PROVE  HasRow(rec.node)'
      BY <2>1, <2>3 DEF IInv, Proposed
    <2> QED BY <2>2, <2>3 DEF Proposed, HasRow
  <1>6. Delivered'
    <2>1. \A k \in DOMAIN outbox : InReview(k) => InReview(k)'
      BY DEF InReview
    <2>2. SentIsInReview'
      BY <2>1 DEF IInv, Delivered, SentIsInReview
    <2>3. ASSUME NEW f \in Flusher, flush[f].pc = "mark", flush[f].outcome = "sent"
          PROVE  InReview(Min(flush[f].left))'
      <3>1. Min(flush[f].left) \in DOMAIN outbox
        BY <2>3, RowsOfFlush
      <3>2. PICK i \in review : i.payload = outbox[Min(flush[f].left)].payload
        BY <2>3 DEF IInv, Delivered, InReview
      <3> QED BY <3>1, <3>2 DEF InReview
    <2> QED BY <2>2, <2>3 DEF Delivered
  <1>7. Activation'
    <2>1. ApprovedIsActive'
      BY DEF IInv, Activation, ApprovedIsActive, Known
    <2>2. \A p \in Reviewer : promotion[p].pc = "approve" => promotion[p] # NoTask
      BY NoTaskIsNone
    <2> QED BY <2>1, <2>2 DEF IInv, Activation, Known
  <1> QED BY <1>1, <1>2, <1>3, <1>4, <1>5, <1>6, <1>7 DEF IInv

\* A step that moves the classifier and writes nothing.
LEMMA ClassifierMove ==
  ASSUME IInv, UNCHANGED <<nodes, classified, outbox, review, flush, promotion, unqueued>>,
         NEW c \in Classifier, faults' \in 0..MaxFaults,
         batch' \in [Classifier -> {NoTask} \cup BatchTask],
         \A d \in Classifier \ {c} : batch'[d] = batch[d],
         batch'[c].pc \in {"enqueue", "write"} => batch'[c].node \in DOMAIN nodes,
         batch'[c].pc = "write" => ~batch'[c].answer.isNew
  PROVE  IInv'
  BY ClassifierStep DEF IInv, Typed, Known

LEMMA Faulty == MayFault /\ IInv => faults' \in 0..MaxFaults
  BY ProposalsAssumption DEF MayFault, IInv, Typed

LEMMA ListReportsStep ==
  ASSUME IInv, NEW c \in Classifier, ListReports(c)
  PROVE  IInv'
  <1> DEFINE new == [pc |-> "model", left |-> FirstOf(Unclassified, BatchLimit)]
  <1>1. /\ Unclassified # {} /\ batch' = [batch EXCEPT ![c] = new]
        /\ UNCHANGED <<nodes, classified, outbox, review, flush, promotion, unqueued, faults>>
    BY DEF ListReports
  <1>2. Unclassified \in SUBSET Nat /\ Unclassified \in SUBSET Report
    BY ProposalsAssumption DEF Unclassified
  <1>3. new \in BatchTask /\ new.pc = "model"
    BY <1>1, <1>2, FirstOfSome, ProposalsAssumption DEF BatchTask, Some
  <1> HIDE DEF new
  <1>4. /\ batch' \in [Classifier -> {NoTask} \cup BatchTask] /\ batch'[c] = new
        /\ \A d \in Classifier \ {c} : batch'[d] = batch[d]
    BY <1>1, <1>3 DEF IInv, Typed
  <1>5. faults' \in 0..MaxFaults
    BY <1>1 DEF IInv, Typed
  <1> QED BY <1>1, <1>3, <1>4, <1>5, ClassifierMove

\* The task of a classifier that is at a call.
LEMMA Working ==
  ASSUME IInv, NEW c \in Classifier, batch[c].pc # "idle"
  PROVE  /\ batch[c] \in BatchTask
         /\ batch[c].pc # "model" =>
               batch[c] \in [pc: {"find", "insert", "enqueue", "write"}, left: Some(Report),
                             answer: Answer, node: Nat]
  <1>1. batch[c] \in BatchTask
    BY NoTaskIsNone DEF IInv, Typed
  <1> QED BY <1>1 DEF BatchTask

\* The batch goes on to its next report, and nothing is written.
LEMMA GiveUpStep ==
  ASSUME IInv, NEW c \in Classifier, batch[c].pc # "idle", NextReport(c), faults' \in 0..MaxFaults,
         UNCHANGED <<nodes, classified, outbox, review, flush, promotion, unqueued>>
  PROVE  IInv'
  <1>1. batch[c] \in BatchTask
    BY Working
  <1>2. /\ batch' \in [Classifier -> {NoTask} \cup BatchTask]
        /\ \A d \in Classifier \ {c} : batch'[d] = batch[d]
        /\ batch'[c].pc \in {"idle", "model"}
    BY <1>1, NextReportTask
  <1> QED BY <1>2, ClassifierMove

LEMMA AskModelStep ==
  ASSUME IInv, NEW c \in Classifier, AskModel(c)
  PROVE  IInv'
  <1>1. batch[c].pc = "model" /\ UNCHANGED <<nodes, classified, outbox, review, flush, promotion, unqueued>>
    BY DEF AskModel
  <1>2. CASE NextReport(c) /\ (UNCHANGED faults \/ MayFault)
    BY <1>1, <1>2, Faulty, GiveUpStep DEF IInv, Typed
  <1>3. ASSUME NEW a \in Answers[Current(c)], UNCHANGED faults,
               batch' = [batch EXCEPT ![c] = [pc |-> "find", left |-> @.left, answer |-> a, node |-> 0]]
        PROVE  IInv'
    <2> DEFINE new == [pc |-> "find", left |-> batch[c].left, answer |-> a, node |-> 0]
    <2>1. batch[c] \in BatchTask /\ batch[c].left \in Some(Report) /\ Current(c) \in Report
      BY <1>1, Working, CurrentReport
    <2>2. a \in Answer
      BY <1>3, <2>1, ProposalsAssumption
    <2>3. new \in BatchTask /\ new.pc = "find"
      BY <2>1, <2>2 DEF BatchTask
    <2>4. batch' = [batch EXCEPT ![c] = new]
      BY <1>3
    <2> HIDE DEF new
    <2>5. /\ batch' \in [Classifier -> {NoTask} \cup BatchTask] /\ batch'[c] = new
          /\ \A d \in Classifier \ {c} : batch'[d] = batch[d]
      BY <2>3, <2>4 DEF IInv, Typed
    <2>6. faults' \in 0..MaxFaults
      BY <1>3 DEF IInv, Typed
    <2> QED BY <1>1, <2>3, <2>5, <2>6, ClassifierMove
  <1> QED BY <1>1, <1>2, <1>3 DEF AskModel

\* The symptom that is preferred is one of those that have the name.
LEMMA PreferredIsOne ==
  ASSUME IInv, NEW name, Named(name) # {}
  PROVE  Preferred(Named(name)) \in DOMAIN nodes /\ Preferred(Named(name)) \in Nat
  <1> DEFINE active == {n \in Named(name) : nodes[n].status = "active"}
             S == IF active # {} THEN active ELSE Named(name)
  <1>1. S # {} /\ S \subseteq DOMAIN nodes /\ DOMAIN nodes \subseteq Nat
    BY DEF Named, IInv, Typed
  <1>2. Preferred(Named(name)) = Min(S)
    BY DEF Preferred
  <1> HIDE DEF S
  <1> QED BY <1>1, <1>2, Smallest

\* Found: the task goes on with a symptom.
LEMMA FoundTask ==
  ASSUME IInv, NEW c \in Classifier, batch[c].pc \in {"find", "insert"}, NEW n \in Nat,
         NEW then \in {"insert", "enqueue", "write"}, Found(c, n, then)
  PROVE  /\ batch' \in [Classifier -> {NoTask} \cup BatchTask]
         /\ \A d \in Classifier \ {c} : batch'[d] = batch[d]
         /\ batch'[c].pc = then /\ batch'[c].node = n /\ batch'[c].answer = batch[c].answer
         /\ batch[c].answer \in Answer
  <1> DEFINE new == [batch[c] EXCEPT !.node = n, !.pc = then]
  <1>1. batch[c] \in [pc: {"find", "insert", "enqueue", "write"}, left: Some(Report),
                      answer: Answer, node: Nat]
    BY Working
  <1>2. new \in BatchTask /\ new.pc = then /\ new.node = n /\ new.answer = batch[c].answer
    BY <1>1 DEF BatchTask
  <1>3. batch' = [batch EXCEPT ![c] = new]
    BY DEF Found, IInv, Typed
  <1> HIDE DEF new
  <1> QED BY <1>1, <1>2, <1>3 DEF IInv, Typed

LEMMA FindSymptomStep ==
  ASSUME IInv, NEW c \in Classifier, FindSymptom(c)
  PROVE  IInv'
  <1> DEFINE S == Named(batch[c].answer.name)
  <1>1. batch[c].pc = "find" /\ UNCHANGED <<nodes, classified, outbox, review, flush, promotion, unqueued>>
    BY DEF FindSymptom
  <1>2. CASE Found(c, 0, "insert") /\ UNCHANGED faults
    <2>1. faults' \in 0..MaxFaults
      BY <1>2 DEF IInv, Typed
    <2> QED BY <1>1, <1>2, <2>1, FoundTask, ClassifierMove
  <1>3. CASE S # {} /\ Found(c, Preferred(S), AfterUpsert(c)) /\ UNCHANGED faults
    <2>1. faults' \in 0..MaxFaults
      BY <1>3 DEF IInv, Typed
    <2> DEFINE n == Preferred(S)
               then == AfterUpsert(c)
    <2>2. n \in DOMAIN nodes /\ n \in Nat
      BY <1>3, PreferredIsOne
    <2>3. then \in {"enqueue", "write"} /\ (then = "write" => ~batch[c].answer.isNew)
      BY DEF AfterUpsert
    <2>4. Found(c, n, then)
      BY <1>3
    <2> HIDE DEF n, then
    <2>5. /\ batch' \in [Classifier -> {NoTask} \cup BatchTask]
          /\ \A d \in Classifier \ {c} : batch'[d] = batch[d]
          /\ batch'[c].pc = then /\ batch'[c].node = n /\ batch'[c].answer = batch[c].answer
      BY <1>1, <2>2, <2>3, <2>4, FoundTask
    <2> QED BY <1>1, <2>1, <2>2, <2>3, <2>5, ClassifierMove
  <1>4. CASE MayFault /\ NextReport(c)
    BY <1>1, <1>4, Faulty, GiveUpStep
  <1> QED BY <1>1, <1>2, <1>3, <1>4 DEF FindSymptom

\* A new symptom is added behind the others.
LEMMA NodesGrow ==
  ASSUME IInv, NEW a \in Answer,
         NEW grown \in {nodes, Append(nodes, [name |-> a.name,
                                              status |-> IF a.isNew THEN "proposed" ELSE "active"])}
  PROVE  /\ grown \in Seq(Symptom) /\ DOMAIN nodes \subseteq DOMAIN grown
         /\ \A n \in DOMAIN nodes : grown[n] = nodes[n]
  <1> DEFINE new == [name |-> a.name, status |-> IF a.isNew THEN "proposed" ELSE "active"]
  <1>1. new \in Symptom
    BY DEF Answer, Symptom
  <1> HIDE DEF new
  <1>2. nodes \in Seq(Symptom)
    BY DEF IInv, Typed
  <1>3. /\ Append(nodes, new) \in Seq(Symptom) /\ DOMAIN nodes \subseteq DOMAIN Append(nodes, new)
        /\ \A n \in DOMAIN nodes : Append(nodes, new)[n] = nodes[n]
    BY <1>1, <1>2
  <1> QED BY <1>2, <1>3 DEF new

LEMMA InsertSymptomStep ==
  ASSUME IInv, NEW c \in Classifier, InsertSymptom(c)
  PROVE  IInv'
  <1> DEFINE a == batch[c].answer
             longer == Append(nodes, [name |-> a.name,
                                      status |-> IF a.isNew THEN "proposed" ELSE "active"])
  <1>1. batch[c].pc = "insert" /\ UNCHANGED <<classified, outbox, review, flush, promotion, unqueued>>
    BY DEF InsertSymptom
  <1>2. a \in Answer /\ batch[c] \in BatchTask
    BY <1>1, Working
  <1>3. nodes' \in {nodes, longer}
    BY DEF InsertSymptom
  <1>4. /\ nodes' \in Seq(Symptom) /\ DOMAIN nodes \subseteq DOMAIN nodes'
        /\ \A n \in DOMAIN nodes : nodes'[n] = nodes[n]
    BY <1>2, <1>3, NodesGrow
  <1>5. faults' \in 0..MaxFaults
    BY Faulty DEF InsertSymptom, IInv, Typed
  <1>6. /\ classified' \subseteq Record /\ \A rec \in classified' : rec.node \in DOMAIN nodes'
        /\ outbox' \in Seq(OutboxRow) /\ unqueued' \subseteq Report
    BY <1>1, <1>4 DEF IInv, Typed, Known
  <1>7. CASE nodes' = longer /\ Found(c, Len(nodes) + 1, AfterUpsert(c))
    <2> DEFINE then == AfterUpsert(c)
               n == Len(nodes) + 1
    <2>1. then \in {"enqueue", "write"} /\ (then = "write" => ~batch[c].answer.isNew)
      BY DEF AfterUpsert
    <2>2. n \in Nat /\ n \in DOMAIN nodes' /\ Found(c, n, then)
      <3>1. nodes \in Seq(Symptom) /\ longer \in Seq(Symptom)
        BY <1>4, <1>7 DEF IInv, Typed
      <3>2. Len(longer) = Len(nodes) + 1
        BY <3>1
      <3> QED BY <1>7, <3>1, <3>2
    <2> HIDE DEF n, then
    <2>3. /\ batch' \in [Classifier -> {NoTask} \cup BatchTask]
          /\ \A d \in Classifier \ {c} : batch'[d] = batch[d]
          /\ batch'[c].pc = then /\ batch'[c].node = n /\ batch'[c].answer = batch[c].answer
      BY <1>1, <2>1, <2>2, FoundTask
    <2>4. batch'[c].pc = "write" => ~batch'[c].answer.isNew
      BY <2>1, <2>3
    <2> QED BY <1>1, <1>4, <1>5, <1>6, <2>1, <2>2, <2>3, <2>4, ClassifierStep
  <1>8. CASE NextReport(c)
    <2>1. /\ batch' \in [Classifier -> {NoTask} \cup BatchTask]
          /\ \A d \in Classifier \ {c} : batch'[d] = batch[d]
          /\ batch'[c].pc \in {"idle", "model"}
      BY <1>2, <1>8, NextReportTask
    <2> QED BY <1>1, <1>4, <1>5, <1>6, <2>1, ClassifierStep
  <1> QED BY <1>7, <1>8 DEF InsertSymptom

\* The outbox takes a payload in, once.
LEMMA WithRowKeeps ==
  ASSUME IInv, NEW payload \in Payload, payload.node \in DOMAIN nodes,
         NEW queued \in {outbox, WithRow(payload)}
  PROVE  /\ queued \in Seq(OutboxRow) /\ DOMAIN outbox \subseteq DOMAIN queued
         /\ \A k \in DOMAIN outbox :
               /\ queued[k].payload = outbox[k].payload
               /\ queued[k].attempts = outbox[k].attempts
               /\ queued[k].status = "sent" => outbox[k].status = "sent"
         /\ \A k \in DOMAIN queued \ DOMAIN outbox :
               /\ queued[k].payload.node \in DOMAIN nodes
               /\ queued[k].attempts = 0 /\ queued[k].status = "pending"
         /\ queued = WithRow(payload) => \E k \in DOMAIN queued : queued[k].payload = payload
  <1> DEFINE same == {k \in DOMAIN outbox : outbox[k].payload = payload}
             new == [payload |-> payload, status |-> "pending", attempts |-> 0]
             again == [k \in DOMAIN outbox |->
                         IF k \in same /\ outbox[k].status = "failed"
                         THEN [outbox[k] EXCEPT !.status = "pending"] ELSE outbox[k]]
  <1>1. outbox \in Seq(OutboxRow) /\ \A k \in DOMAIN outbox : outbox[k] \in OutboxRow
    BY DEF IInv, Typed
  <1>2. CASE queued = outbox /\ queued # WithRow(payload)
    BY <1>1, <1>2
  <1>3. CASE queued = WithRow(payload) /\ same = {}
    <2>1. new \in OutboxRow /\ new.payload = payload /\ new.attempts = 0 /\ new.status = "pending"
      BY DEF OutboxRow
    <2>2. queued = Append(outbox, new)
      BY <1>3 DEF WithRow
    <2> HIDE DEF new
    <2>3. /\ queued \in Seq(OutboxRow) /\ Len(queued) = Len(outbox) + 1
          /\ \A k \in DOMAIN outbox : queued[k] = outbox[k]
          /\ queued[Len(outbox) + 1] = new
      BY <1>1, <2>1, <2>2
    <2>4. /\ DOMAIN outbox = 1..Len(outbox) /\ DOMAIN queued = 1..(Len(outbox) + 1)
          /\ Len(outbox) \in Nat
      BY <1>1, <2>3
    <2>5. \A k \in DOMAIN queued \ DOMAIN outbox : k = Len(outbox) + 1
      BY <2>4
    <2>6. Len(outbox) + 1 \in DOMAIN queued /\ DOMAIN outbox \subseteq DOMAIN queued
      BY <2>4
    <2> QED BY <2>1, <2>3, <2>5, <2>6
  <1>4. CASE queued = WithRow(payload) /\ same # {}
    <2>1. queued = again
      BY <1>4 DEF WithRow
    <2>2. \A k \in DOMAIN outbox : outbox[k].status = "failed" =>
             /\ [outbox[k] EXCEPT !.status = "pending"] \in OutboxRow
             /\ [outbox[k] EXCEPT !.status = "pending"].payload = outbox[k].payload
             /\ [outbox[k] EXCEPT !.status = "pending"].attempts = outbox[k].attempts
             /\ [outbox[k] EXCEPT !.status = "pending"].status = "pending"
      BY <1>1 DEF OutboxRow
    <2>3. DOMAIN queued = DOMAIN outbox
      BY <2>1
    <2>4. \A k \in DOMAIN outbox :
             /\ queued[k] \in OutboxRow /\ queued[k].payload = outbox[k].payload
             /\ queued[k].attempts = outbox[k].attempts
             /\ queued[k].status = "sent" => outbox[k].status = "sent"
      BY <1>1, <2>1, <2>2
    <2>5. queued \in Seq(OutboxRow)
      <3>1. Len(outbox) \in Nat /\ DOMAIN outbox = 1..Len(outbox)
        BY <1>1
      <3>2. queued \in [1..Len(outbox) -> OutboxRow]
        BY <2>1, <2>4, <3>1
      <3> QED BY <3>1, <3>2, SeqDef
    <2>6. \E k \in DOMAIN queued : queued[k].payload = payload
      BY <1>4, <2>3, <2>4
    <2> QED BY <2>3, <2>4, <2>5, <2>6
  <1> QED BY <1>2, <1>3, <1>4

LEMMA EnqueueStep ==
  ASSUME IInv, NEW c \in Classifier, Enqueue(c)
  PROVE  IInv'
  <1> DEFINE payload == [report |-> Current(c), node |-> batch[c].node,
                         confidence |-> batch[c].answer.confidence]
             new == [batch[c] EXCEPT !.pc = "write"]
  <1>1. /\ batch[c].pc = "enqueue" /\ UNCHANGED <<nodes, classified, review, flush, promotion>>
        /\ batch' = [batch EXCEPT ![c] = new]
    BY DEF Enqueue
  <1>2. /\ batch[c] \in [pc: {"find", "insert", "enqueue", "write"}, left: Some(Report),
                         answer: Answer, node: Nat]
        /\ batch[c] \in BatchTask /\ Current(c) \in Report
    BY <1>1, Working, CurrentReport
  <1>3. payload \in Payload /\ payload.node = batch[c].node /\ payload.node \in DOMAIN nodes
    BY <1>1, <1>2 DEF Payload, Answer, IInv, Known
  <1>4. /\ new \in BatchTask /\ new.pc = "write" /\ new.node = batch[c].node
        /\ new.left = batch[c].left
    BY <1>2 DEF BatchTask
  <1> HIDE DEF payload, new
  <1>5. /\ batch' \in [Classifier -> {NoTask} \cup BatchTask] /\ batch'[c] = new
        /\ \A d \in Classifier \ {c} : batch'[d] = batch[d]
    BY <1>1, <1>4 DEF IInv, Typed
  <1>6. Current(c)' = Current(c)
    BY <1>4, <1>5 DEF Current
  <1>7. /\ outbox' \in {outbox, WithRow(payload)}
        /\ outbox' = WithRow(payload) \/ Current(c) \in unqueued'
        /\ unqueued \subseteq unqueued' /\ unqueued' \subseteq Report /\ faults' \in 0..MaxFaults
    BY <1>2, Faulty DEF Enqueue, IInv, Typed, payload
  <1>8. /\ outbox' \in Seq(OutboxRow) /\ DOMAIN outbox \subseteq DOMAIN outbox'
        /\ \A k \in DOMAIN outbox :
              /\ outbox'[k].payload = outbox[k].payload
              /\ outbox'[k].attempts = outbox[k].attempts
              /\ outbox'[k].status = "sent" => outbox[k].status = "sent"
        /\ \A k \in DOMAIN outbox' \ DOMAIN outbox :
              /\ outbox'[k].payload.node \in DOMAIN nodes
              /\ outbox'[k].attempts = 0 /\ outbox'[k].status = "pending"
        /\ outbox' = WithRow(payload) => \E k \in DOMAIN outbox' : outbox'[k].payload = payload
    BY <1>3, <1>7, WithRowKeeps
  <1>9. Current(c)' \notin unqueued' =>
           \E k \in DOMAIN outbox' : outbox'[k].payload.node = batch'[c].node
    BY <1>3, <1>4, <1>5, <1>6, <1>7, <1>8
  <1>10. /\ nodes' \in Seq(Symptom) /\ classified' \subseteq Record
         /\ \A rec \in classified' : rec.node \in DOMAIN nodes'
    BY <1>1 DEF IInv, Typed, Known
  <1> QED BY <1>1, <1>3, <1>4, <1>5, <1>7, <1>8, <1>9, <1>10, ClassifierStep

LEMMA WriteClassificationStep ==
  ASSUME IInv, NEW c \in Classifier, WriteClassification(c)
  PROVE  IInv'
  <1> DEFINE rec == [report |-> Current(c), node |-> batch[c].node, isNew |-> batch[c].answer.isNew]
  <1>1. /\ batch[c].pc = "write" /\ NextReport(c)
        /\ UNCHANGED <<nodes, outbox, review, flush, promotion, unqueued>>
    BY DEF WriteClassification
  <1>2. CASE MayFault /\ UNCHANGED classified
    BY <1>1, <1>2, Faulty, GiveUpStep
  <1>3. CASE /\ classified' = {old \in classified : old.report # Current(c)} \cup {rec}
             /\ UNCHANGED faults
    <2>1. /\ batch[c] \in [pc: {"find", "insert", "enqueue", "write"}, left: Some(Report),
                           answer: Answer, node: Nat]
          /\ batch[c] \in BatchTask /\ Current(c) \in Report
      BY <1>1, Working, CurrentReport
    <2>2. /\ rec \in Record /\ rec.report = Current(c) /\ rec.node = batch[c].node
          /\ rec.isNew = batch[c].answer.isNew /\ rec.node \in DOMAIN nodes
      BY <1>1, <2>1 DEF Record, Answer, IInv, Known
    <2> HIDE DEF rec
    <2>3. /\ batch' \in [Classifier -> {NoTask} \cup BatchTask]
          /\ \A d \in Classifier \ {c} : batch'[d] = batch[d]
          /\ batch'[c].pc \in {"idle", "model"}
      BY <1>1, <2>1, NextReportTask
    <2>4. classified' \subseteq classified \cup {rec}
      BY <1>3
    <2>5. /\ classified' \subseteq Record /\ \A r \in classified' : r.node \in DOMAIN nodes
      BY <2>2, <2>4 DEF IInv, Typed, Known
    <2>6. \A r \in classified' \ classified : r.isNew /\ r.report \notin unqueued' => HasRow(r.node)'
      <3>1. rec.isNew /\ rec.report \notin unqueued => HasRow(rec.node)
        BY <1>1, <2>2 DEF IInv, Proposed
      <3>2. \A n : HasRow(n) => HasRow(n)'
        BY <1>1 DEF HasRow
      <3> QED BY <1>1, <2>4, <3>1, <3>2
    <2>7. /\ nodes' \in Seq(Symptom) /\ outbox' \in Seq(OutboxRow) /\ faults' \in 0..MaxFaults
          /\ unqueued' \subseteq Report
      BY <1>1, <1>3 DEF IInv, Typed
    <2> QED BY <1>1, <2>3, <2>5, <2>6, <2>7, ClassifierStep
  <1> QED BY <1>2, <1>3 DEF WriteClassification

-----------------------------------------------------------------------------
(***************************************************************************)
(* Steps of a flush.                                                       *)
(***************************************************************************)

\* A flush takes rows in hand that may still be tried, or lets rows go.
LEMMA HoldersOf ==
  ASSUME IInv, NEW f \in Flusher, \A g \in Flusher \ {f} : flush'[g] = flush[g], NEW k
  PROVE  /\ IsFiniteSet(Holders(k)) /\ Cardinality(Holders(k)) \in Nat
         /\ IsFiniteSet(Holders(k)') /\ Cardinality(Holders(k)') \in Nat
         /\ Cardinality(Holders(k)') <= Cardinality(Flusher)
         /\ ~(flush'[f] # NoTask /\ k \in flush'[f].left) => Holders(k)' = Holders(k) \ {f}
         /\ (flush[f] # NoTask /\ k \in flush[f].left) => Holders(k)' \subseteq Holders(k)
         /\ Cardinality(Flusher) \in Nat
  <1>1. Holders(k) \subseteq Flusher /\ Holders(k)' \subseteq Flusher /\ IsFiniteSet(Flusher)
    BY ProposalsAssumption DEF Holders
  <1>2. /\ IsFiniteSet(Holders(k)) /\ Cardinality(Holders(k)) \in Nat
        /\ IsFiniteSet(Holders(k)') /\ Cardinality(Holders(k)') \in Nat
        /\ Cardinality(Holders(k)') <= Cardinality(Flusher)
        /\ Cardinality(Flusher) \in Nat
    BY <1>1, FS_Subset, FS_CardinalityType
  <1>3. ~(flush'[f] # NoTask /\ k \in flush'[f].left) => Holders(k)' = Holders(k) \ {f}
    BY DEF Holders
  <1>4. (flush[f] # NoTask /\ k \in flush[f].left) => Holders(k)' \subseteq Holders(k)
    BY DEF Holders
  <1> QED BY <1>2, <1>3, <1>4

\* A step of a flush that leaves the outbox alone.
LEMMA FlusherStep ==
  ASSUME IInv, UNCHANGED <<nodes, classified, outbox, batch, promotion, unqueued>>,
         NEW f \in Flusher, faults' \in 0..MaxFaults,
         review' = review \/ \E payload \in Payload :
                                payload.node \in DOMAIN nodes /\ review' = Received(payload),
         flush' \in [Flusher -> {NoTask} \cup FlushTask],
         \A g \in Flusher \ {f} : flush'[g] = flush[g],
         flush'[f] # NoTask => flush'[f].left \subseteq DOMAIN outbox,
         \A k \in DOMAIN outbox :
            flush'[f] # NoTask /\ k \in flush'[f].left =>
               \/ flush[f] # NoTask /\ k \in flush[f].left
               \/ outbox[k].attempts < AttemptLimit,
         flush'[f].pc = "mark" /\ flush'[f].outcome = "sent" =>
            \E i \in review' : i.payload = outbox[Min(flush'[f].left)].payload
  PROVE  IInv'
  <1>1. /\ review \subseteq review' /\ review' \subseteq Item
        /\ \A i \in review' : i.payload.node \in DOMAIN nodes
        /\ OneItem' /\ \A i \in review' \ review : i.status = "pending"
    <2>1. CASE review' = review
      BY <2>1 DEF IInv, Typed, Known, OneItem
    <2>2. ASSUME NEW payload \in Payload, payload.node \in DOMAIN nodes, review' = Received(payload)
          PROVE  <1>1!:
      <3> DEFINE new == [payload |-> payload, status |-> "pending"]
      <3>1. new \in Item /\ new.payload = payload /\ new.status = "pending"
        BY DEF Item, Decision
      <3>2. review' = review \cup (IF \E i \in review : i.payload = payload THEN {} ELSE {new})
        BY <2>2 DEF Received
      <3> HIDE DEF new
      <3> QED BY <2>2, <3>1, <3>2 DEF IInv, Typed, Known, OneItem
    <2> QED BY <2>1, <2>2
  <1>2. Typed'
    BY <1>1 DEF IInv, Typed
  <1>3. Known'
    BY <1>1 DEF IInv, Known
  <1>4. AttemptsAreBounded'
    <2> SUFFICES ASSUME NEW k \in DOMAIN outbox
                 PROVE  outbox[k].attempts + Cardinality(Holders(k)') < AttemptLimit + Cardinality(Flusher)
      BY DEF AttemptsAreBounded
    <2>1. outbox[k].attempts \in Nat /\ AttemptLimit \in Nat
      <3>1. outbox[k] \in OutboxRow
        BY DEF IInv, Typed
      <3> QED BY <3>1, ProposalsAssumption DEF OutboxRow
    <2>2. /\ IsFiniteSet(Holders(k)) /\ Cardinality(Holders(k)) \in Nat
          /\ Cardinality(Holders(k)') \in Nat /\ Cardinality(Flusher) \in Nat
          /\ Cardinality(Holders(k)') <= Cardinality(Flusher)
      BY HoldersOf
    <2>3. CASE Holders(k)' \subseteq Holders(k)
      <3>1. Cardinality(Holders(k)') <= Cardinality(Holders(k))
        BY <2>2, <2>3, FS_Subset
      <3> QED BY <2>1, <2>2, <3>1 DEF IInv, AttemptsAreBounded
    <2>4. CASE outbox[k].attempts < AttemptLimit
      BY <2>1, <2>2, <2>4
    <2>5. Holders(k)' \subseteq Holders(k) \/ outbox[k].attempts < AttemptLimit
      BY HoldersOf
    <2> QED BY <2>3, <2>4, <2>5
  <1>5. Proposed'
    BY DEF IInv, Proposed, HasRow, Current
  <1>6. Delivered'
    <2>1. SentIsInReview'
      BY <1>1 DEF IInv, Delivered, SentIsInReview, InReview
    <2>2. ASSUME NEW g \in Flusher, flush'[g].pc = "mark", flush'[g].outcome = "sent"
          PROVE  \E i \in review' : i.payload = outbox[Min(flush'[g].left)].payload
      <3>1. CASE g = f
        BY <2>2, <3>1
      <3>2. CASE g # f
        <4>1. flush'[g] = flush[g]
          BY <3>2
        <4>2. InReview(Min(flush[g].left))
          BY <2>2, <4>1 DEF IInv, Delivered
        <4> QED BY <1>1, <4>1, <4>2 DEF InReview
      <3> QED BY <3>1, <3>2
    <2> QED BY <2>1, <2>2 DEF Delivered, InReview
  <1>7. Activation'
    BY <1>1 DEF IInv, Activation, ApprovedIsActive
  <1> QED BY <1>1, <1>2, <1>3, <1>4, <1>5, <1>6, <1>7 DEF IInv

LEMMA ListPendingStep ==
  ASSUME IInv, NEW f \in Flusher, ListPending(f)
  PROVE  IInv'
  <1> DEFINE new == [pc |-> "push", left |-> FirstOf(PendingReviewOutbox, FlushLimit)]
  <1>1. /\ PendingReviewOutbox # {} /\ flush' = [flush EXCEPT ![f] = new]
        /\ UNCHANGED <<nodes, classified, outbox, review, batch, promotion, unqueued, faults>>
    BY DEF ListPending
  <1>2. /\ PendingReviewOutbox \subseteq DOMAIN outbox /\ DOMAIN outbox \subseteq Nat
        /\ \A k \in PendingReviewOutbox : outbox[k].attempts < AttemptLimit
    BY DEF PendingReviewOutbox, IInv, Typed
  <1>3. /\ FirstOf(PendingReviewOutbox, FlushLimit) \subseteq PendingReviewOutbox
        /\ FirstOf(PendingReviewOutbox, FlushLimit) # {}
    BY <1>1, <1>2, FirstOfSome, ProposalsAssumption
  <1>4. new \in FlushTask /\ new.pc = "push" /\ new.left \subseteq PendingReviewOutbox
    BY <1>2, <1>3 DEF FlushTask, Some
  <1> HIDE DEF new
  <1>5. /\ flush' \in [Flusher -> {NoTask} \cup FlushTask] /\ flush'[f] = new
        /\ \A g \in Flusher \ {f} : flush'[g] = flush[g]
    BY <1>1, <1>4 DEF IInv, Typed
  <1>6. faults' \in 0..MaxFaults
    BY <1>1 DEF IInv, Typed
  <1> QED BY <1>1, <1>2, <1>4, <1>5, <1>6, FlusherStep

LEMMA PushReviewItemStep ==
  ASSUME IInv, NEW f \in Flusher, PushReviewItem(f)
  PROVE  IInv'
  <1> DEFINE k == Min(flush[f].left)
             payload == outbox[k].payload
  <1>1. /\ flush[f].pc = "push"
        /\ UNCHANGED <<nodes, classified, outbox, batch, promotion, unqueued>>
    BY DEF PushReviewItem
  <1>2. /\ flush[f] # NoTask /\ flush[f].left \in Some(Nat) /\ flush[f].left \subseteq DOMAIN outbox
        /\ k \in DOMAIN outbox /\ outbox[k] \in OutboxRow
    BY <1>1, RowsOfFlush
  <1>3. payload \in Payload /\ payload.node \in DOMAIN nodes
    BY <1>2 DEF OutboxRow, IInv, Known
  <1>4. ASSUME NEW outcome \in {"sent", "failed"}, Pushed(f, outcome),
               outcome = "sent" => review' = Received(payload),
               review' \in {review, Received(payload)}, faults' \in 0..MaxFaults
        PROVE  IInv'
    <2> DEFINE new == [pc |-> "mark", left |-> flush[f].left, outcome |-> outcome]
    <2>1. flush' = [flush EXCEPT ![f] = new]
      BY <1>4 DEF Pushed
    <2>2. new \in FlushTask /\ new.left = flush[f].left /\ new.outcome = outcome
      BY <1>2 DEF FlushTask
    <2> HIDE DEF new
    <2>3. /\ flush' \in [Flusher -> {NoTask} \cup FlushTask] /\ flush'[f] = new
          /\ \A g \in Flusher \ {f} : flush'[g] = flush[g]
      BY <2>1, <2>2 DEF IInv, Typed
    <2>4. outcome = "sent" => \E i \in review' : i.payload = payload
      <3>1. [payload |-> payload, status |-> "pending"].payload = payload
        OBVIOUS
      <3> QED BY <1>4, <3>1 DEF Received
    <2>5. flush'[f].outcome = "sent" =>
             \E i \in review' : i.payload = outbox[Min(flush'[f].left)].payload
      BY <2>2, <2>3, <2>4
    <2>6. review' = review \/ \E x \in Payload : x.node \in DOMAIN nodes /\ review' = Received(x)
      BY <1>3, <1>4
    <2> QED BY <1>1, <1>2, <1>4, <2>2, <2>3, <2>5, <2>6, FlusherStep
  <1>5. faults' \in 0..MaxFaults
    BY Faulty DEF PushReviewItem, IInv, Typed
  <1> QED BY <1>4, <1>5 DEF PushReviewItem

\* Marking a row adds an attempt, and lets the row go.
LEMMA MarkReviewOutboxStep ==
  ASSUME IInv, NEW f \in Flusher, MarkReviewOutbox(f)
  PROVE  IInv'
  <1> DEFINE k == Min(flush[f].left)
             rest == flush[f].left \ {k}
             new == IF rest = {} THEN NoTask ELSE [pc |-> "push", left |-> rest]
             row == [outbox[k] EXCEPT !.status = flush[f].outcome, !.attempts = @ + 1]
  <1>1. /\ flush[f].pc = "mark"
        /\ UNCHANGED <<nodes, classified, review, batch, promotion, unqueued>>
    BY DEF MarkReviewOutbox
  <1>2. /\ flush[f] # NoTask /\ flush[f] \in FlushTask /\ flush[f].left \in Some(Nat)
        /\ flush[f].left \subseteq DOMAIN outbox
        /\ k \in flush[f].left /\ k \in DOMAIN outbox /\ outbox[k] \in OutboxRow
    BY <1>1, RowsOfFlush
  <1>3. faults' \in 0..MaxFaults
    BY Faulty DEF MarkReviewOutbox, IInv, Typed
  <1>4. CASE UNCHANGED outbox /\ flush' = [flush EXCEPT ![f] = NoTask]
    <2>1. /\ flush' \in [Flusher -> {NoTask} \cup FlushTask] /\ flush'[f] = NoTask
          /\ \A g \in Flusher \ {f} : flush'[g] = flush[g]
      BY <1>4 DEF IInv, Typed
    <2> QED BY <1>1, <1>3, <1>4, <2>1, NoTaskIsNone, FlusherStep
  <1>5. CASE Marked(k, flush[f].outcome) /\ FlushDone(f) /\ UNCHANGED faults
    <2>1. /\ row \in OutboxRow /\ row.payload = outbox[k].payload /\ row.status = flush[f].outcome
          /\ row.attempts = outbox[k].attempts + 1 /\ flush[f].outcome \in {"sent", "failed"}
      <3>1. flush[f].outcome \in {"sent", "failed"}
        BY <1>1, <1>2 DEF FlushTask
      <3>2. PICK old \in OutboxRow : old = outbox[k]
        BY <1>2
      <3>3. row = [old EXCEPT !.status = flush[f].outcome, !.attempts = @ + 1]
        BY <3>2
      <3> DEFINE outcome == flush[f].outcome
      <3>4. old.attempts \in Nat /\ old.attempts + 1 \in Nat
        BY DEF OutboxRow
      <3>5. row = [old EXCEPT !.status = outcome, !.attempts = old.attempts + 1]
        BY <3>3
      <3> HIDE DEF row, k, outcome
      <3>6. outcome \in {"sent", "failed"}
        BY <3>1 DEF outcome
      <3>7. row \in OutboxRow /\ row.payload = old.payload /\ row.status = outcome
            /\ row.attempts = old.attempts + 1
        <4>1. PICK n \in Nat : n = old.attempts + 1
          BY <3>4
        <4>2. PICK o \in {"sent", "failed"} : o = outcome
          BY <3>6
        <4>3. PICK r : r = [old EXCEPT !.status = o, !.attempts = n]
          OBVIOUS
        <4>4. r \in OutboxRow /\ r.payload = old.payload /\ r.status = o /\ r.attempts = n
          BY <4>3 DEF OutboxRow
        <4>5. row = r
          BY <3>5, <4>1, <4>2, <4>3
        <4> QED BY <4>1, <4>2, <4>4, <4>5
      <3> QED BY <3>1, <3>2, <3>7 DEF outcome
    <2>2. /\ new \in {NoTask} \cup FlushTask /\ (new # NoTask => new.left = rest)
          /\ new.pc # "mark" /\ k \notin rest
      BY <1>2, NoTaskIsNone DEF FlushTask, Some
    <2>3. /\ outbox' = [outbox EXCEPT ![k] = row] /\ flush' = [flush EXCEPT ![f] = new]
      BY <1>2, <1>5 DEF Marked, FlushDone, IInv, Typed
    <2> HIDE DEF row, new, k
    <2>4. /\ outbox' \in Seq(OutboxRow) /\ DOMAIN outbox' = DOMAIN outbox /\ outbox'[k] = row
          /\ \A j \in DOMAIN outbox \ {k} : outbox'[j] = outbox[j]
      BY <1>2, <2>1, <2>3 DEF IInv, Typed
    <2>5. /\ flush' \in [Flusher -> {NoTask} \cup FlushTask] /\ flush'[f] = new
          /\ \A g \in Flusher \ {f} : flush'[g] = flush[g]
      BY <2>2, <2>3 DEF IInv, Typed
    <2>6. \A j \in DOMAIN outbox : outbox'[j].payload = outbox[j].payload
      BY <2>1, <2>4
    <2>7. Typed'
      BY <1>1, <1>3, <2>4, <2>5 DEF IInv, Typed
    <2>8. Known'
      <3>1. \A g \in Flusher : flush'[g] # NoTask => flush'[g].left \subseteq DOMAIN outbox'
        BY <1>2, <2>2, <2>4, <2>5 DEF IInv, Known
      <3> QED BY <1>1, <2>4, <2>6, <3>1 DEF IInv, Known
    <2>9. AttemptsAreBounded'
      <3> SUFFICES ASSUME NEW j \in DOMAIN outbox
                   PROVE  outbox'[j].attempts + Cardinality(Holders(j)') < AttemptLimit + Cardinality(Flusher)
        BY <2>4 DEF AttemptsAreBounded
      <3>1. outbox[j].attempts \in Nat /\ AttemptLimit \in Nat
        <4>1. outbox[j] \in OutboxRow
          BY DEF IInv, Typed
        <4> QED BY <4>1, ProposalsAssumption DEF OutboxRow
      <3>2. /\ IsFiniteSet(Holders(j)) /\ Cardinality(Holders(j)) \in Nat
            /\ Cardinality(Holders(j)') \in Nat /\ Cardinality(Flusher) \in Nat
            /\ ~(flush'[f] # NoTask /\ j \in flush'[f].left) => Holders(j)' = Holders(j) \ {f}
            /\ (flush[f] # NoTask /\ j \in flush[f].left) => Holders(j)' \subseteq Holders(j)
        BY <2>5, HoldersOf
      <3>3. outbox[j].attempts + Cardinality(Holders(j)) < AttemptLimit + Cardinality(Flusher)
        BY DEF IInv, AttemptsAreBounded
      <3>4. CASE j = k
        <4>1. f \in Holders(j)
          BY <1>2, <3>4 DEF Holders
        <4>2. Holders(j)' = Holders(j) \ {f}
          BY <2>2, <2>5, <3>2, <3>4
        <4>3. Cardinality(Holders(j)') = Cardinality(Holders(j)) - 1
          BY <3>2, <4>1, <4>2, FS_RemoveElement
        <4> QED BY <2>1, <2>4, <3>1, <3>2, <3>3, <3>4, <4>3
      <3>5. CASE j # k
        <4>1. Holders(j)' \subseteq Holders(j)
          BY <1>2, <2>2, <2>5, <3>2
        <4>2. Cardinality(Holders(j)') <= Cardinality(Holders(j))
          BY <3>2, <4>1, FS_Subset
        <4>3. outbox'[j].attempts = outbox[j].attempts
          BY <2>4, <3>5
        <4> QED BY <3>1, <3>2, <3>3, <4>2, <4>3
      <3> QED BY <3>4, <3>5
    <2>10. Proposed'
      BY <1>1, <2>4, <2>6 DEF IInv, Proposed, HasRow, Current
    <2>11. Delivered'
      <3>1. SentIsInReview'
        <4>1. flush[f].outcome = "sent" => InReview(k)
          BY <1>1 DEF IInv, Delivered, k
        <4>2. \A j \in DOMAIN outbox : InReview(j) => InReview(j)'
          BY <1>1, <2>6 DEF InReview
        <4>3. \A j \in DOMAIN outbox : outbox'[j].status = "sent" => InReview(j)
          BY <2>1, <2>4, <4>1 DEF IInv, Delivered, SentIsInReview
        <4> QED BY <2>4, <4>2, <4>3 DEF SentIsInReview
      <3>2. ASSUME NEW g \in Flusher, flush'[g].pc = "mark", flush'[g].outcome = "sent"
            PROVE  \E i \in review' : i.payload = outbox'[Min(flush'[g].left)].payload
        <4>1. flush'[g] = flush[g] /\ flush[g].pc = "mark" /\ flush[g].outcome = "sent"
          BY <2>2, <2>5, <3>2
        <4>2. InReview(Min(flush[g].left)) /\ Min(flush[g].left) \in DOMAIN outbox
          BY <4>1, RowsOfFlush DEF IInv, Delivered
        <4> QED BY <1>1, <2>6, <4>1, <4>2 DEF InReview
      <3> QED BY <3>1, <3>2 DEF Delivered, InReview
    <2>12. OneItem' /\ Activation'
      BY <1>1 DEF IInv, OneItem, Activation, ApprovedIsActive
    <2> QED BY <2>7, <2>8, <2>9, <2>10, <2>11, <2>12 DEF IInv
  <1> QED BY <1>4, <1>5 DEF MarkReviewOutbox

-----------------------------------------------------------------------------
(***************************************************************************)
(* Decisions.                                                              *)
(***************************************************************************)

\* A pending item is decided: the item keeps its payload, and an approval needs the
\* symptom to be active.
LEMMA DecideStep ==
  ASSUME IInv, UNCHANGED <<nodes, classified, outbox, batch, flush, unqueued, faults>>,
         NEW i \in review, i.status = "pending", NEW status \in {"approved", "rejected"},
         review' = Decided(i, status),
         status = "approved" => nodes[i.payload.node].status = "active",
         promotion' \in [Reviewer -> {NoTask} \cup PromotionTask],
         \A p \in Reviewer : promotion'[p] = promotion[p] \/ promotion'[p] = NoTask
  PROVE  IInv'
  <1> DEFINE new == [i EXCEPT !.status = status]
  <1>1. new \in Item /\ new.payload = i.payload /\ new.status = status
    BY DEF Item, Decision, IInv, Typed
  <1>2. review' = (review \ {i}) \cup {new}
    BY DEF Decided
  <1> HIDE DEF new
  <1>3. \A j \in review' : j = new \/ (j \in review /\ j # i)
    BY <1>2
  <1>4. \A j \in review : \E m \in review' : m.payload = j.payload
    BY <1>1, <1>2
  <1>5. Typed'
    BY <1>1, <1>2 DEF IInv, Typed
  <1>6. Known'
    <2>1. \A j \in review' : j.payload.node \in DOMAIN nodes
      BY <1>1, <1>3 DEF IInv, Known
    <2> QED BY <2>1 DEF IInv, Known
  <1>7. OneItem'
    BY <1>1, <1>3 DEF IInv, OneItem
  <1>8. AttemptsAreBounded' /\ Proposed'
    BY DEF IInv, AttemptsAreBounded, Holders, Proposed, HasRow, Current
  <1>9. Delivered'
    <2>1. \A k \in DOMAIN outbox : InReview(k) => InReview(k)'
      BY <1>4 DEF InReview
    <2>2. SentIsInReview'
      BY <2>1 DEF IInv, Delivered, SentIsInReview
    <2>3. ASSUME NEW f \in Flusher, flush[f].pc = "mark", flush[f].outcome = "sent"
          PROVE  \E m \in review' : m.payload = outbox[Min(flush[f].left)].payload
      BY <1>4, <2>3 DEF IInv, Delivered, InReview
    <2> QED BY <2>2, <2>3 DEF Delivered, InReview
  <1>10. Activation'
    <2>1. ApprovedIsActive'
      BY <1>1, <1>3 DEF IInv, Activation, ApprovedIsActive
    <2> QED BY <2>1, NoTaskIsNone DEF IInv, Activation
  <1> QED BY <1>5, <1>6, <1>7, <1>8, <1>9, <1>10 DEF IInv

\* Steps of a reviewer that decide nothing: symptoms may become active.
LEMMA ReviewerStep ==
  ASSUME IInv, UNCHANGED <<classified, outbox, review, batch, flush, unqueued>>, NEW p \in Reviewer,
         faults' \in 0..MaxFaults,
         nodes' \in Seq(Symptom), DOMAIN nodes' = DOMAIN nodes,
         \A n \in DOMAIN nodes : nodes[n].status = "active" => nodes'[n].status = "active",
         promotion' \in [Reviewer -> {NoTask} \cup PromotionTask],
         \A q \in Reviewer \ {p} : promotion'[q] = promotion[q],
         promotion'[p] # NoTask => promotion'[p].payload.node \in DOMAIN nodes,
         promotion'[p].pc = "approve" => nodes'[promotion'[p].payload.node].status = "active"
  PROVE  IInv'
  <1>1. Typed'
    BY DEF IInv, Typed
  <1>2. Known'
    BY DEF IInv, Known
  <1>3. OneItem' /\ AttemptsAreBounded' /\ Proposed'
    BY DEF IInv, OneItem, AttemptsAreBounded, Holders, Proposed, HasRow, Current
  <1>4. Delivered'
    BY DEF IInv, Delivered, SentIsInReview, InReview
  <1>5. Activation'
    <2>1. ApprovedIsActive'
      BY DEF IInv, Activation, ApprovedIsActive, Known
    <2>2. ASSUME NEW q \in Reviewer \ {p}, promotion[q].pc = "approve"
          PROVE  nodes'[promotion[q].payload.node].status = "active"
      BY <2>2, NoTaskIsNone DEF IInv, Activation, Known
    <2> QED BY <2>1, <2>2 DEF Activation
  <1> QED BY <1>1, <1>2, <1>3, <1>4, <1>5 DEF IInv

LEMMA GetStep ==
  ASSUME IInv, NEW p \in Reviewer, Get(p)
  PROVE  IInv'
  <1>1. PICK i \in Pending :
           promotion' = [promotion EXCEPT ![p] = [pc |-> "activate", payload |-> i.payload]]
    BY DEF Get
  <1> DEFINE new == [pc |-> "activate", payload |-> i.payload]
  <1>2. i \in review /\ i.payload \in Payload /\ i.payload.node \in DOMAIN nodes
    BY DEF Pending, IInv, Typed, Item, Known
  <1>3. new \in PromotionTask /\ new.pc = "activate" /\ new.payload = i.payload
    BY <1>2 DEF PromotionTask
  <1> HIDE DEF new
  <1>4. /\ promotion' \in [Reviewer -> {NoTask} \cup PromotionTask] /\ promotion'[p] = new
        /\ \A q \in Reviewer \ {p} : promotion'[q] = promotion[q]
    BY <1>1, <1>3 DEF IInv, Typed, new
  <1>5. UNCHANGED <<nodes, classified, outbox, review, batch, flush, unqueued, faults>>
    BY DEF Get
  <1>6. nodes' \in Seq(Symptom) /\ faults' \in 0..MaxFaults
    BY <1>5 DEF IInv, Typed
  <1> QED BY <1>2, <1>3, <1>4, <1>5, <1>6, ReviewerStep

\* The task of a reviewer that is at a call.
LEMMA Reviewing ==
  ASSUME IInv, NEW p \in Reviewer, promotion[p].pc # "idle"
  PROVE  promotion[p] \in PromotionTask /\ promotion[p].payload.node \in DOMAIN nodes
  BY NoTaskIsNone DEF IInv, Typed, Known

LEMMA ActivateSymptomStep ==
  ASSUME IInv, NEW p \in Reviewer, ActivateSymptom(p)
  PROVE  IInv'
  <1> DEFINE n == promotion[p].payload.node
             symptom == [nodes[n] EXCEPT !.status = "active"]
             new == [promotion[p] EXCEPT !.pc = "approve"]
  <1>1. promotion[p].pc = "activate" /\ UNCHANGED <<classified, outbox, review, batch, flush, unqueued>>
    BY DEF ActivateSymptom
  <1>2. promotion[p] \in PromotionTask /\ n \in DOMAIN nodes
    BY <1>1, Reviewing
  <1>3. nodes[n] \in Symptom
    BY <1>2 DEF IInv, Typed
  <1>4. symptom \in Symptom /\ symptom.status = "active"
    BY <1>3 DEF Symptom
  <1>5. /\ Activated(p) \in Seq(Symptom) /\ DOMAIN Activated(p) = DOMAIN nodes
        /\ Activated(p)[n].status = "active"
        /\ \A m \in DOMAIN nodes : nodes[m].status = "active" => Activated(p)[m].status = "active"
    <2>1. Activated(p) = [nodes EXCEPT ![n] = symptom]
      BY <1>2 DEF Activated, IInv, Typed
    <2>2. nodes \in Seq(Symptom)
      BY DEF IInv, Typed
    <2> HIDE DEF symptom, n
    <2> QED BY <1>2, <1>4, <2>1, <2>2
  <1>6. /\ faults' \in 0..MaxFaults /\ nodes' \in {nodes, Activated(p)}
    BY Faulty DEF ActivateSymptom, IInv, Typed
  <1>7. /\ nodes' \in Seq(Symptom) /\ DOMAIN nodes' = DOMAIN nodes
        /\ \A m \in DOMAIN nodes : nodes[m].status = "active" => nodes'[m].status = "active"
    BY <1>5, <1>6 DEF IInv, Typed
  <1>8. CASE nodes' = Activated(p) /\ Activating(p)
    <2>1. /\ new \in PromotionTask /\ new.pc = "approve" /\ new.payload = promotion[p].payload
      BY <1>2 DEF PromotionTask
    <2>2. promotion' = [promotion EXCEPT ![p] = new]
      BY <1>8 DEF Activating, IInv, Typed
    <2> HIDE DEF new
    <2>3. /\ promotion' \in [Reviewer -> {NoTask} \cup PromotionTask] /\ promotion'[p] = new
          /\ \A q \in Reviewer \ {p} : promotion'[q] = promotion[q]
      BY <2>1, <2>2 DEF IInv, Typed
    <2>4. nodes'[promotion'[p].payload.node].status = "active"
      BY <1>5, <1>8, <2>1, <2>3
    <2> QED BY <1>1, <1>2, <1>6, <1>7, <2>1, <2>3, <2>4, ReviewerStep
  <1>9. CASE promotion' = [promotion EXCEPT ![p] = NoTask]
    <2>1. /\ promotion' \in [Reviewer -> {NoTask} \cup PromotionTask] /\ promotion'[p] = NoTask
          /\ \A q \in Reviewer \ {p} : promotion'[q] = promotion[q]
      BY <1>9 DEF IInv, Typed
    <2> QED BY <1>1, <1>6, <1>7, <2>1, NoTaskIsNone, ReviewerStep
  <1> QED BY <1>8, <1>9 DEF ActivateSymptom

LEMMA MarkApprovedStep ==
  ASSUME IInv, NEW p \in Reviewer, MarkApproved(p)
  PROVE  IInv'
  <1>1. /\ promotion[p].pc = "approve" /\ promotion' = [promotion EXCEPT ![p] = NoTask]
        /\ UNCHANGED <<nodes, classified, outbox, batch, flush, unqueued>>
    BY DEF MarkApproved
  <1>2. /\ promotion' \in [Reviewer -> {NoTask} \cup PromotionTask] /\ promotion'[p] = NoTask
        /\ \A q \in Reviewer \ {p} : promotion'[q] = promotion[q]
    BY <1>1 DEF IInv, Typed
  <1>3. ASSUME NEW i \in Pending, i.payload = promotion[p].payload,
               review' = Decided(i, "approved"), UNCHANGED faults
        PROVE  IInv'
    <2>1. nodes[i.payload.node].status = "active"
      BY <1>1, <1>3 DEF IInv, Activation
    <2>2. i \in review /\ i.status = "pending"
      BY DEF Pending
    <2> QED BY <1>1, <1>2, <1>3, <2>1, <2>2, DecideStep
  <1>4. CASE UNCHANGED review
    <2>1. nodes' \in Seq(Symptom) /\ faults' \in 0..MaxFaults
      BY <1>1, Faulty DEF MarkApproved, IInv, Typed
    <2> QED BY <1>1, <1>2, <1>4, <2>1, NoTaskIsNone, ReviewerStep
  <1> QED BY <1>3, <1>4 DEF MarkApproved

LEMMA MarkRejectedStep ==
  ASSUME IInv, MarkRejected
  PROVE  IInv'
  <1>1. PICK i \in Pending : review' = Decided(i, "rejected")
    BY DEF MarkRejected
  <1>2. i \in review /\ i.status = "pending"
    BY DEF Pending
  <1>3. UNCHANGED <<nodes, classified, outbox, batch, flush, promotion, unqueued, faults>>
    BY DEF MarkRejected
  <1>4. promotion' \in [Reviewer -> {NoTask} \cup PromotionTask]
    BY <1>3 DEF IInv, Typed
  <1> QED BY <1>1, <1>2, <1>3, <1>4, DecideStep

\* What was being done ends where it is.
LEMMA ProcessDiesStep ==
  ASSUME IInv, ProcessDies
  PROVE  IInv'
  <1>1. /\ UNCHANGED <<nodes, classified, outbox, review, unqueued>> /\ faults' \in 0..MaxFaults
    BY Faulty DEF ProcessDies
  <1>2. nodes' \in Seq(Symptom)
    BY <1>1 DEF IInv, Typed
  <1>3. ASSUME NEW c \in Classifier, batch' = [batch EXCEPT ![c] = NoTask],
               UNCHANGED <<flush, promotion>>
        PROVE  IInv'
    <2>1. /\ batch' \in [Classifier -> {NoTask} \cup BatchTask] /\ batch'[c] = NoTask
          /\ \A d \in Classifier \ {c} : batch'[d] = batch[d]
      BY <1>3 DEF IInv, Typed
    <2> QED BY <1>1, <1>3, <2>1, NoTaskIsNone, ClassifierMove
  <1>4. ASSUME NEW f \in Flusher, flush' = [flush EXCEPT ![f] = NoTask],
               UNCHANGED <<batch, promotion>>
        PROVE  IInv'
    <2>1. /\ flush' \in [Flusher -> {NoTask} \cup FlushTask] /\ flush'[f] = NoTask
          /\ \A g \in Flusher \ {f} : flush'[g] = flush[g]
      BY <1>4 DEF IInv, Typed
    <2> QED BY <1>1, <1>4, <2>1, NoTaskIsNone, FlusherStep
  <1>5. ASSUME NEW p \in Reviewer, promotion' = [promotion EXCEPT ![p] = NoTask],
               UNCHANGED <<batch, flush>>
        PROVE  IInv'
    <2>1. /\ promotion' \in [Reviewer -> {NoTask} \cup PromotionTask] /\ promotion'[p] = NoTask
          /\ \A q \in Reviewer \ {p} : promotion'[q] = promotion[q]
      BY <1>5 DEF IInv, Typed
    <2> QED BY <1>1, <1>2, <1>5, <2>1, NoTaskIsNone, ReviewerStep
  <1> QED BY <1>3, <1>4, <1>5 DEF ProcessDies

-----------------------------------------------------------------------------
(***************************************************************************)
(* The theorems.                                                           *)
(***************************************************************************)
LEMMA IInvInit == ProposalsInit => IInv
  <1> SUFFICES ASSUME ProposalsInit PROVE IInv
    OBVIOUS
  <1>1. /\ nodes = <<>> /\ outbox = <<>> /\ classified = {} /\ review = {} /\ unqueued = {}
        /\ faults = 0 /\ DOMAIN nodes = {} /\ DOMAIN outbox = {}
        /\ batch = [c \in Classifier |-> NoTask] /\ flush = [f \in Flusher |-> NoTask]
        /\ promotion = [p \in Reviewer |-> NoTask]
    BY DEF ProposalsInit
  <1>2. Typed
    BY <1>1, ProposalsAssumption DEF Typed
  <1>3. Known /\ OneItem /\ AttemptsAreBounded
    BY <1>1, NoTaskIsNone DEF Known, OneItem, AttemptsAreBounded
  <1>4. Proposed /\ Delivered /\ Activation
    BY <1>1, NoTaskIsNone DEF Proposed, Delivered, SentIsInReview, Activation, ApprovedIsActive
  <1> QED BY <1>2, <1>3, <1>4 DEF IInv

LEMMA IInvNext == IInv /\ [ProposalsNext]_proposalVars => IInv'
  <1> SUFFICES ASSUME IInv, [ProposalsNext]_proposalVars PROVE IInv'
    OBVIOUS
  <1>1. ASSUME NEW c \in Classifier, Classify(c) PROVE IInv'
    BY <1>1, ListReportsStep, AskModelStep, FindSymptomStep, InsertSymptomStep, EnqueueStep,
       WriteClassificationStep
    DEF Classify
  <1>2. ASSUME NEW f \in Flusher, Flush(f) PROVE IInv'
    BY <1>2, ListPendingStep, PushReviewItemStep, MarkReviewOutboxStep DEF Flush
  <1>3. ASSUME NEW p \in Reviewer, Approve(p) PROVE IInv'
    BY <1>3, GetStep, ActivateSymptomStep, MarkApprovedStep DEF Approve
  <1>4. CASE UNCHANGED proposalVars
    <2> USE <1>4 DEF proposalVars
    <2>1. Typed' /\ Known'
      BY DEF IInv, Typed, Known
    <2>2. OneItem' /\ AttemptsAreBounded'
      BY DEF IInv, OneItem, AttemptsAreBounded, Holders
    <2>3. Proposed'
      BY DEF IInv, Proposed, HasRow, Current
    <2>4. Delivered' /\ Activation'
      BY DEF IInv, Delivered, SentIsInReview, InReview, Activation, ApprovedIsActive
    <2> QED BY <2>1, <2>2, <2>3, <2>4 DEF IInv
  <1> QED BY <1>1, <1>2, <1>3, <1>4, MarkRejectedStep, ProcessDiesStep DEF ProposalsNext

LEMMA IInvAlways == ProposalsSpec => []IInv
  BY IInvInit, IInvNext, PTL DEF ProposalsSpec

(***************************************************************************)
(* The variables keep their types, and overlapping flushes try a row less  *)
(* than AttemptLimit + Cardinality(Flusher) times.                         *)
(***************************************************************************)
THEOREM ProposalsTypeCorrect == ProposalsSpec => []ProposalsTypeOK
  <1>1. IInv => ProposalsTypeOK
    <2> SUFFICES ASSUME IInv PROVE ProposalsTypeOK
      OBVIOUS
    <2>1. classified \subseteq [report: Report, node: DOMAIN nodes, isNew: BOOLEAN]
      BY DEF IInv, Typed, Known, Record
    <2>2. ASSUME NEW k \in DOMAIN outbox
          PROVE  outbox[k].attempts < AttemptLimit + Cardinality(Flusher)
      <3>1. outbox[k] \in OutboxRow
        BY DEF IInv, Typed
      <3>2. Holders(k) \subseteq Flusher /\ IsFiniteSet(Flusher)
        BY ProposalsAssumption DEF Holders
      <3>3. Cardinality(Holders(k)) \in Nat /\ Cardinality(Flusher) \in Nat
        BY <3>2, FS_Subset, FS_CardinalityType
      <3>4. outbox[k].attempts + Cardinality(Holders(k)) < AttemptLimit + Cardinality(Flusher)
        BY DEF IInv, AttemptsAreBounded
      <3> QED BY <3>1, <3>3, <3>4, ProposalsAssumption DEF OutboxRow
    <2>3. /\ \A c \in Classifier : batch[c].pc \in {"idle", "model", "find", "insert", "enqueue", "write"}
          /\ \A f \in Flusher : flush[f].pc \in {"idle", "push", "mark"}
          /\ \A p \in Reviewer : promotion[p].pc \in {"idle", "activate", "approve"}
      BY DEF IInv, Typed, NoTask, BatchTask, FlushTask, PromotionTask
    <2> QED BY <2>1, <2>2, <2>3 DEF IInv, Typed, Known, OneItem, ProposalsTypeOK, Symptom, Item
  <1> QED BY IInvAlways, <1>1, PTL

(***************************************************************************)
(* No report is classified with a new symptom that nobody will review, but *)
(* for those whose write to the outbox failed.                             *)
(***************************************************************************)
THEOREM NewSymptomsAreProposed == ProposalsSpec => []NewSymptomIsProposed
  <1>1. IInv => NewSymptomIsProposed
    BY DEF IInv, Proposed, HasRow, NewSymptomIsProposed
  <1> QED BY IInvAlways, <1>1, PTL

(***************************************************************************)
(* The outbox, the review and the symptoms do not contradict each other:   *)
(* what is sent has its item, and what is approved is active.              *)
(***************************************************************************)
THEOREM ReviewStaysFaithful == ProposalsSpec => []ReviewIsFaithful
  <1>1. IInv => ReviewIsFaithful
    BY DEF IInv, Delivered, Activation, ReviewIsFaithful
  <1> QED BY IInvAlways, <1>1, PTL

(***************************************************************************)
(* No step takes back a decision: approvals in progress, rejections and    *)
(* what flushes push anew find only pending items to decide.               *)
(***************************************************************************)
THEOREM DecisionsStand == ProposalsSpec => DecisionStands
  <1> DEFINE Stands == \A i \in review : i.status # "pending" => i \in review'
  <1>1. [ProposalsNext]_proposalVars => [Stands]_proposalVars
    <2> SUFFICES ASSUME ProposalsNext, NEW i \in review, i.status # "pending"
                 PROVE  i \in review'
      OBVIOUS
    <2>1. ASSUME NEW j \in Pending, NEW status, review' = Decided(j, status) PROVE i \in review'
      BY <2>1 DEF Pending, Decided
    <2>2. ASSUME NEW payload, review' = Received(payload) PROVE i \in review'
      BY <2>2 DEF Received
    <2>3. ASSUME NEW c \in Classifier, Classify(c) PROVE i \in review'
      BY <2>3 DEF Classify, ListReports, AskModel, FindSymptom, InsertSymptom, Enqueue,
                  WriteClassification
    <2>4. ASSUME NEW f \in Flusher, Flush(f) PROVE i \in review'
      <3>1. CASE PushReviewItem(f)
        BY <2>2, <3>1 DEF PushReviewItem
      <3> QED BY <2>4, <3>1 DEF Flush, ListPending, MarkReviewOutbox
    <2>5. ASSUME NEW p \in Reviewer, Approve(p) PROVE i \in review'
      <3>1. CASE MarkApproved(p)
        BY <2>1, <3>1 DEF MarkApproved
      <3> QED BY <2>5, <3>1 DEF Approve, Get, ActivateSymptom
    <2>6. CASE MarkRejected
      BY <2>1, <2>6 DEF MarkRejected
    <2>7. CASE ProcessDies
      BY <2>7 DEF ProcessDies
    <2> QED BY <2>3, <2>4, <2>5, <2>6, <2>7 DEF ProposalsNext
  <1> QED BY <1>1, PTL DEF ProposalsSpec, DecisionStands

-----------------------------------------------------------------------------
(***************************************************************************)
(* The worker of cmd/worker runs the tasks of both packages.  What is said *)
(* of each kind of task holds of the behaviours in which they are run      *)
(* together: a step is a step of one of the two and leaves the other's     *)
(* state alone.                                                            *)
(***************************************************************************)
THEOREM TasksStayApart == MCSpec => Spec /\ ProposalsSpec
  <1>1. MCInit => Init /\ ProposalsInit
    BY DEF MCInit
  <1>2. [MCNext]_<<vars, proposalVars>> => [WorkerNext \/ RunBatch]_vars /\ [ProposalsNext]_proposalVars
    BY DEF MCNext
  <1> QED BY <1>1, <1>2, PTL DEF MCSpec, Spec, ProposalsSpec

(***************************************************************************)
(* So the variables of both keep their types.                              *)
(***************************************************************************)
THEOREM TasksTypeCorrect == MCSpec => []MCTypeOK
  <1>1. TypeOK /\ ProposalsTypeOK => MCTypeOK
    BY DEF MCTypeOK
  <1> QED BY <1>1, TasksStayApart, WorkerTypeCorrect, ProposalsTypeCorrect, PTL
================================================================================
