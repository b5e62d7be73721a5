-------------------------------- MODULE Worker --------------------------------
(***************************************************************************)
(* The worker process: the goroutines of the asynq server and the handlers *)
(* of intake:assess and ticket:create jobs.  Redis keeps a task until its  *)
(* handler has returned nil.  A handler that returns an error, or a worker *)
(* that dies under it, costs the task one of its retries, and a task out   *)
(* of retries is archived.  The main application makes one ticket of all   *)
(* the deliveries with the same idempotency key.                           *)
(***************************************************************************)
EXTENDS Integers, Bags

CONSTANTS
    Slot,         \* handler goroutines, Concurrency of the asynq server
    QueueJob,     \* payloads: records with channel, conv and row at least
    MaxRetry,     \* [Kind -> Nat], 5 for an assessment and 25 for a ticket
    WorkerFaults  \* the failures that may happen

Kind == {"assess", "ticket"}

(***************************************************************************)
(* assess: the model or the database fails.  queue: redis refuses a job.   *)
(* commit: redis has the job and reports an error.  post: the main         *)
(* application refuses a ticket.  reply: it makes the ticket and its reply *)
(* is lost.  die: the worker process dies.                                 *)
(***************************************************************************)
WorkerFaultKind == {"assess", "queue", "commit", "post", "reply", "die"}

ASSUME WorkerAssumption ==
    /\ MaxRetry \in [Kind -> Nat]
    /\ WorkerFaults \in SUBSET WorkerFaultKind

VARIABLES
    assessQ,   \* payloads of the intake:assess tasks in redis
    ticketQ,   \* payloads of the ticket:create tasks in redis
    intake,    \* conversations.intake_*: the last assessment written
    slot,      \* the call a goroutine is about to make, and for which task
    retried,   \* the bag of the failed runs of the tasks in redis
    archived,  \* tasks that are out of retries
    batchDue,  \* an extract:batch job is in redis
    tickets    \* idempotency keys of the tickets of the main application

queues == <<assessQ, ticketQ>>
ours   == <<slot, retried, archived, batchDue, tickets>>
vars   == <<queues, intake, ours>>

Verdict == {"promote", "disabled", "hold"}

Task(kind, job) == [kind |-> kind, job |-> job]

Tasks == {Task("assess", j) : j \in assessQ} \cup {Task("ticket", j) : j \in ticketQ}

AllTasks == [kind: Kind, job: QueueJob]

\* tickets.Payload.IdempotencyKey.
IdempotencyKey(j) == <<j.channel, j.conv, j.row>>

Idle == [at |-> "idle"]

Busy == [at: {"assess", "promote", "deliver", "done"}, task: AllTasks]

TypeOK ==
    /\ assessQ \subseteq QueueJob /\ ticketQ \subseteq QueueJob
    /\ \A c \in DOMAIN intake : intake[c] \in Verdict
    /\ slot \in [Slot -> {Idle} \cup Busy]
    /\ IsABag(retried) /\ BagToSet(retried) \subseteq AllTasks
    /\ archived \subseteq AllTasks
    /\ batchDue \in BOOLEAN
    /\ tickets \subseteq {IdempotencyKey(j) : j \in QueueJob}

WorkerInit ==
    /\ slot = [w \in Slot |-> Idle]
    /\ retried = EmptyBag
    /\ archived = {} /\ tickets = {} /\ batchDue = FALSE

-----------------------------------------------------------------------------
MayFail(kind) == kind \in WorkerFaults

Running == {slot[w].task : w \in {v \in Slot : slot[v] # Idle}}

At(w, call) == slot[w].at = call

\* The job in the hands of w.
JobOf(w) == slot[w].task.job

Proceed(w, call) == slot' = [slot EXCEPT ![w].at = call]

\* Every trace of the tasks T leaves redis.
Discard(T) ==
    /\ assessQ' = {j \in assessQ : Task("assess", j) \notin T}
    /\ ticketQ' = {j \in ticketQ : Task("ticket", j) \notin T}

\* How often a task has failed.
Retries(t) == IF BagIn(t, retried) THEN retried[t] ELSE 0

Forget(T) == [t \in BagToSet(retried) \ T |-> retried[t]]

(***************************************************************************)
(* The tasks T, which are running, fail: redis counts a retry, or archives *)
(* the task when it has had MaxRetry of them.  jobs are the ticket jobs    *)
(* the failed handlers have put into redis all the same.                   *)
(***************************************************************************)
Fail(T, jobs) ==
    LET spent == {t \in T : Retries(t) >= MaxRetry[t.kind]} IN
    /\ archived' = archived \cup spent
    /\ retried' = [t \in (BagToSet(retried) \cup T) \ spent |->
                      Retries(t) + (IF t \in T THEN 1 ELSE 0)]
    /\ assessQ' = {j \in assessQ : Task("assess", j) \notin spent}
    /\ ticketQ' = {j \in ticketQ \cup jobs : Task("ticket", j) \notin spent}

\* A handler returns an error.
ReturnError(w, jobs) ==
    Fail({slot[w].task}, jobs) /\ slot' = [slot EXCEPT ![w] = Idle]

-----------------------------------------------------------------------------
\* A goroutine takes a task nobody runs; the task stays in redis meanwhile.
TakeRemoves(w) ==
    /\ slot[w] = Idle
    /\ \E t \in Tasks \ Running :
          /\ slot' = [slot EXCEPT ![w] =
                        [at |-> IF t.kind = "assess" THEN "assess" ELSE "deliver", task |-> t]]
          /\ Discard({t})
    /\ UNCHANGED <<intake, retried, archived, batchDue, tickets>>

Take(w) ==
    /\ slot[w] = Idle
    /\ \E t \in Tasks \ Running :
          slot' = [slot EXCEPT ![w] =
                     [at |-> IF t.kind = "assess" THEN "assess" ELSE "deliver", task |-> t]]
    /\ UNCHANGED <<queues, intake, retried, archived, batchDue, tickets>>

(***************************************************************************)
(* intake:assess.  Service.Assess extracts and writes the assessment, and  *)
(* an assessment that promotes asks for a ticket.                          *)
(***************************************************************************)
WriteCompletenessUnknown(conv, v) ==
    intake' = [c \in DOMAIN intake \cup {conv} |-> IF c = conv THEN "unknown" ELSE intake[c]]

WriteCompleteness(conv, v) ==
    intake' = [c \in DOMAIN intake \cup {conv} |-> IF c = conv THEN v ELSE intake[c]]

Assess(w) ==
    /\ At(w, "assess")
    /\ \/ \E v \in Verdict :
             /\ WriteCompleteness(JobOf(w).conv, v)
             /\ Proceed(w, IF v = "promote" THEN "promote" ELSE "done")
             /\ UNCHANGED <<queues, retried, archived>>
       \/ MayFail("assess") /\ ReturnError(w, {}) /\ UNCHANGED intake
    /\ UNCHANGED <<batchDue, tickets>>

\* The handler returns what EnqueueTicket returns.
PromoteIgnoresError(w) ==
    /\ At(w, "promote")
    /\ ticketQ' \in {ticketQ \cup {JobOf(w)}, ticketQ}
    /\ Proceed(w, "done")
    /\ UNCHANGED <<assessQ, intake, retried, archived, batchDue, tickets>>

Promote(w) ==
    /\ At(w, "promote")
    /\ \/ /\ ticketQ' = ticketQ \cup {JobOf(w)}
          /\ Proceed(w, "done")
          /\ UNCHANGED <<assessQ, retried, archived>>
       \/ MayFail("queue") /\ ReturnError(w, {})
       \/ MayFail("commit") /\ ReturnError(w, {JobOf(w)})
    /\ UNCHANGED <<intake, batchDue, tickets>>

(***************************************************************************)
(* ticket:create.  The ticket is posted to the main application; then an   *)
(* extract:batch job is asked for, whatever comes of it.                   *)
(***************************************************************************)
DeliverAgain(w) ==
    /\ At(w, "deliver")
    /\ \/ /\ tickets' = tickets \cup {IdempotencyKey(JobOf(w))}
          /\ Proceed(w, "done") /\ UNCHANGED retried
       \/ /\ MayFail("post") /\ UNCHANGED tickets
          /\ retried' = Forget({slot[w].task}) /\ slot' = [slot EXCEPT ![w] = Idle]
    /\ UNCHANGED <<queues, intake, archived, batchDue>>

Deliver(w) ==
    /\ At(w, "deliver")
    /\ \/ /\ tickets' = tickets \cup {IdempotencyKey(JobOf(w))}
          /\ batchDue' = TRUE \/ (MayFail("queue") /\ UNCHANGED batchDue)
          /\ Proceed(w, "done")
          /\ UNCHANGED <<queues, retried, archived>>
       \/ /\ MayFail("reply")
          /\ tickets' = tickets \cup {IdempotencyKey(JobOf(w))}
          /\ ReturnError(w, {}) /\ UNCHANGED batchDue
       \/ MayFail("post") /\ ReturnError(w, {}) /\ UNCHANGED <<batchDue, tickets>>
    /\ UNCHANGED intake

\* The handler has returned nil, and redis drops the task.
Done(w) ==
    /\ At(w, "done")
    /\ Discard({slot[w].task})
    /\ retried' = Forget({slot[w].task})
    /\ slot' = [slot EXCEPT ![w] = Idle]
    /\ UNCHANGED <<intake, archived, batchDue, tickets>>

Handle(w) == Take(w) \/ Assess(w) \/ Promote(w) \/ Deliver(w) \/ Done(w)

(***************************************************************************)
(* The worker process dies.  The leases of its tasks expire, which counts  *)
(* as a failure of each.                                                   *)
(***************************************************************************)
Die ==
    /\ MayFail("die") /\ Running # {}
    /\ Fail(Running, {})
    /\ slot' = [w \in Slot |-> Idle]
    /\ UNCHANGED <<intake, batchDue, tickets>>

\* The extract:batch handler takes the job.
RunBatch ==
    /\ batchDue
    /\ batchDue' = FALSE
    /\ UNCHANGED <<queues, intake, slot, retried, archived, tickets>>

WorkerNext == (\E w \in Slot : Handle(w)) \/ Die

(***************************************************************************)
(* The worker by itself: any tasks may be waiting for it, and no others    *)
(* come but those it makes.                                                *)
(***************************************************************************)
Init ==
    /\ assessQ \in SUBSET {j \in QueueJob : j.channel = "email"}
    /\ ticketQ \in SUBSET QueueJob
    /\ intake = [c \in {} |-> "hold"]
    /\ WorkerInit

Spec == Init /\ [][WorkerNext \/ RunBatch]_vars

-----------------------------------------------------------------------------
(***************************************************************************)
(* cmd/worker/intake.go returns the error of EnqueueTicket to asynq: an    *)
(* assessment that calls for a ticket is not forgotten between the two     *)
(* jobs.  Its own task, a ticket task or a ticket of the conversation is   *)
(* there, or one of the tasks ran out of retries and is archived.          *)
(***************************************************************************)
ConvOf(key) == key[2]

PromotedIsTicketed ==
    \A c \in DOMAIN intake : intake[c] = "promote" =>
        \/ \E t \in Tasks \cup archived : t.job.conv = c
        \/ \E key \in tickets : ConvOf(key) = c

(***************************************************************************)
(* A ticket task leaves redis with its ticket made or into the archive,    *)
(* although its worker may die before and after the delivery.              *)
(***************************************************************************)
TicketTaskSettles ==
    [][\A j \in ticketQ \ ticketQ' :
          IdempotencyKey(j) \in tickets' \/ Task("ticket", j) \in archived']_vars

===============================================================================
