------------------------------- MODULE Pipeline -------------------------------
(***************************************************************************)
(* The intake of tickets from end to end: the requests of the API          *)
(* processes (Inbound) and the handlers of the worker (Worker), which      *)
(* share the queues in redis and the conversations table, and the endpoint *)
(* by which an operator has a pending conversation assessed again.         *)
(***************************************************************************)
EXTENDS Inbound

CONSTANTS
    Slot, MaxRetry, WorkerFaults,  \* of the worker
    ByHand,                        \* operators use POST /v1/intake/assess
    Tenant                         \* the company the refinement looks at

VARIABLES
    slot, retried, archived, batchDue, tickets,
    byHand  \* conversations assessed by hand; no action reads it

W == INSTANCE Worker

worker   == <<slot, retried, archived, batchDue, tickets>>
pipeline == <<vars, worker, byHand>>

PipelineInit == Init /\ W!WorkerInit /\ byHand = {}

(***************************************************************************)
(* IntakeAssessHandler.Create: LoadAssessmentDraft takes the newest        *)
(* message of a pending conversation, and writes it down as an e-mail.     *)
(***************************************************************************)
ReassessAny(c) ==
    /\ ByHand /\ c.open
    /\ \E w \in Newest(rows) :
          assessQ' = assessQ \cup {[channel |-> "email", conv |-> c.id, row |-> w.id,
                                    ext |-> w.ext]}
    /\ byHand' = byHand \cup {c.id}
    /\ UNCHANGED <<pc, job, lock, tables, intake, ticketQ, senders, worker>>

Reassess(c) ==
    /\ ByHand /\ c.open
    /\ \E w \in Newest(RowsIn(c.id)) :
          assessQ' = assessQ \cup {[channel |-> "email", conv |-> c.id, row |-> w.id,
                                    ext |-> w.ext]}
    /\ byHand' = byHand \cup {c.id}
    /\ UNCHANGED <<pc, job, lock, tables, intake, ticketQ, senders, worker>>

ApiNext ==
    \/ Next /\ UNCHANGED <<worker, byHand>>
    \/ \E c \in convs : Reassess(c)

WorkerNext == W!WorkerNext /\ UNCHANGED <<pc, job, lock, tables, senders, byHand>>

PipelineNext == ApiNext \/ WorkerNext

PipelineSpec == PipelineInit /\ [][PipelineNext]_pipeline

Handle(w) == W!Handle(w) /\ UNCHANGED <<pc, job, lock, tables, senders, byHand>>

\* As in Inbound; every handler of the worker has a deadline, so a goroutine that can
\* take a step takes one.
PipelineFairSpec ==
    /\ PipelineSpec
    /\ \A r \in Request :
          /\ WF_pipeline(Run(r) /\ UNCHANGED <<worker, byHand>>)
          /\ SF_pipeline(AcquireLock(r) /\ UNCHANGED <<worker, byHand>>)
    /\ \A w \in Slot : WF_pipeline(Handle(w))

-----------------------------------------------------------------------------
(***************************************************************************)
(* The refinement.  A thread is the message rows of a conversation, and    *)
(* the oldest of them its opening; conversations without messages are      *)
(* nobody's.                                                               *)
(***************************************************************************)
Threaded == {w.conv : w \in {v \in rows : StoredFor(v, Tenant)}}

Threads == [conv \in Threaded |-> {w.ext : w \in RowsIn(conv)}]

Openings == [conv \in Threaded |-> (CHOOSE w \in Oldest(RowsIn(conv)) : TRUE).ext]

MessageOf(row) == (CHOOSE w \in rows : w.id = row).ext

Ticketed ==
    {<<key[1], key[2], MessageOf(key[3])>> :
        key \in {k \in tickets : \E c \in convs : c.id = k[2] /\ CompanyOf[c.acct] = Tenant}}

Intake ==
    INSTANCE TicketIntake WITH
        thread <- Threads, opening <- Openings, ticket <- Ticketed,
        asked <- byHand \cap Threaded

-----------------------------------------------------------------------------
(***************************************************************************)
(* TestRunIsIdempotentOnDuplicateMessageID and the idempotency key         *)
(* ai:channel:conversation:message, from end to end: although senders      *)
(* deliver again, jobs run again and processes die, a company keeps every  *)
(* message in one conversation and gets at most one ticket for each        *)
(* conversation, about its opening message.  A conversation that was       *)
(* assessed by hand may get more, at most one for each of its messages and *)
(* all under the key of an e-mail: a LINE message that opened it may so be *)
(* ticketed a second time, an e-mail is not.                               *)
(* (Intake!Spec, with the steps that leave the mapped variables alone put  *)
(* first because TLC evaluates a disjunction from the left.)               *)
(***************************************************************************)
OneTicketPerThread ==
    Intake!Init /\ [][UNCHANGED <<rows, convs, tickets, byHand>> \/ Intake!Next]_pipeline

(***************************************************************************)
(* The package comment of services/tickets: inbound messages produce a     *)
(* ticket:create job that the worker hands off to Laravel.  When no API    *)
(* process dies, redis takes its jobs, the flags of the company can be     *)
(* read and the inserts report what they did, a LINE message that opens a  *)
(* conversation of a company without a bot is ticketed in the end, or its  *)
(* task is in the archive.                                                 *)
(***************************************************************************)
Opens(w) ==
    /\ ChannelOf[w.ext] = "line" /\ Oldest(RowsIn(w.conv)) = {w}
    /\ \E k \in Company \ LineBot : StoredFor(w, k)

TicketedOrArchived(w) ==
    <<"line", w.conv, w.id>> \in tickets \/ \E t \in archived : t.job.row = w.id

OpeningIsTicketed ==
    \A m \in Message :
        (\E w \in rows : w.ext = m /\ Opens(w))
        ~> (\E w \in rows : w.ext = m /\ TicketedOrArchived(w))

(***************************************************************************)
(* Every task is done with or archived: once the senders are answered, a   *)
(* task that always fails does not occupy the worker for ever.             *)
(***************************************************************************)
QueuesDrain == <>[](W!Tasks = {})

(***************************************************************************)
(* Both: neither a request nor a task is left hanging for good.            *)
(***************************************************************************)
EverythingSettles == EveryDeliveryEnds /\ QueuesDrain

=============================================================================
