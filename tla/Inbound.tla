------------------------------- MODULE Inbound -------------------------------
(***************************************************************************)
(* The inbound pipeline of the API process: InboundHandler.Receive and the *)
(* omnichannel Workflow.Run it calls for every message, down to the SQL    *)
(* statements of the channels repository.                                  *)
(*                                                                         *)
(* A request is a goroutine that walks through Run one database or queue   *)
(* call at a time.  Requests of the same API process share its striped     *)
(* conversation locks; requests of all processes share the tables and the  *)
(* queues.  A sender (the IMAP poller, the Gmail poller, the LINE          *)
(* platform) delivers a message again for as long as it has no answer.     *)
(***************************************************************************)
EXTENDS Integers, FiniteSets

CONSTANTS
    Message,      \* external messages: an e-mail Message-ID or a LINE message id
    Account,      \* channel accounts
    Customer,     \* external senders
    Company,      \* tenants
    Proc,         \* API processes
    Request,      \* request goroutines
    Stripe,       \* mutexes of one process (64 in the code)
    NoRequest,    \* the value of a free mutex
    ChannelOf,    \* [Message -> Channel]
    CustomerOf,   \* [Message -> Customer]
    RefsOf,       \* [Message -> SUBSET Message], In-Reply-To and References
    AccountsOf,   \* [Message -> SUBSET Account], the accounts a delivery may resolve to
    CompanyOf,    \* [Account -> Company]
    ProcOf,       \* [Request -> Proc]
    StripeOf,     \* [Account \X Customer -> Stripe], the hash of the lock key
    AssessAsync,  \* cfg.Intake.AssessMode = "async" with a queue configured
    LineBot,      \* companies whose feature line_bot is on, or not set, which counts as on
    Faults,       \* the failures that may happen
    MaxAttempts   \* bound: deliveries of one message

Channel == {"email", "line"}

(***************************************************************************)
(* What the intake assessment says of a message: promote (a ticket is      *)
(* called for), disabled (it is, but the company has automatic tickets     *)
(* off), hold (not a ticket, or not confident enough), and none when there *)
(* is no assessment.                                                       *)
(***************************************************************************)
Verdict == {"promote", "disabled", "hold"}

(***************************************************************************)
(* lookup, insert, delete: that kind of SQL statement fails.  flags: the   *)
(* lookup of the company's feature flags fails.  commit: the insert of a   *)
(* message or an enqueue reports an error and is done all the same;        *)
(* create: so does the insert of a conversation.  queue: redis refuses a   *)
(* job.  llm: the assessment fails.  cancel: the request context ends and  *)
(* every statement after it fails.  crash: the process dies.  answer: the  *)
(* HTTP answer does not reach the sender.                                  *)
(***************************************************************************)
FaultKind == {"lookup", "flags", "insert", "create", "delete", "commit", "queue", "llm",
              "cancel", "crash", "answer"}

ASSUME ConstantsAssumption ==
    /\ Message # {} /\ Account # {}
    /\ NoRequest \notin Request
    /\ ChannelOf \in [Message -> Channel]
    /\ CustomerOf \in [Message -> Customer]
    /\ RefsOf \in [Message -> SUBSET Message]
    /\ AccountsOf \in [Message -> SUBSET Account]
    /\ CompanyOf \in [Account -> Company]
    /\ ProcOf \in [Request -> Proc]
    /\ StripeOf \in [Account \X Customer -> Stripe]
    /\ AssessAsync \in BOOLEAN
    /\ LineBot \in SUBSET Company
    /\ Faults \in SUBSET FaultKind
    /\ MaxAttempts \in Nat
    /\ \A m \in Message : ChannelOf[m] = "line" => RefsOf[m] = {}

VARIABLES
    pc,        \* the call of Run a request is about to make
    job,       \* the local variables of Receive and Run
    lock,      \* convLocks of every process
    convs,     \* table conversations
    rows,      \* table messages
    nextConv,  \* AUTO_INCREMENT of conversations
    nextRow,   \* AUTO_INCREMENT of messages
    intake,    \* conversations.intake_*: the last assessment written
    assessQ,   \* intake:assess jobs in redis
    ticketQ,   \* ticket:create jobs in redis
    answered,  \* what the sender knows of a message
    attempts   \* deliveries of a message so far

tables  == <<convs, rows, nextConv, nextRow>>
queues  == <<assessQ, ticketQ>>
senders == <<answered, attempts>>
vars    == <<pc, job, lock, tables, intake, queues, senders>>

(***************************************************************************)
(* Types.  A message row carries, beside its columns, the lock under which *)
(* it was written; no action reads it.                                     *)
(***************************************************************************)
Step == {"idle", "resolve", "lock", "dedup", "thread", "select", "create", "store",
         "cleanup", "assess", "ticket", "respond"}

Critical == {"dedup", "thread", "select", "create", "store", "cleanup", "assess", "ticket"}

Job == [msg: Message, acct: Account, conv: Nat, created: BOOLEAN, row: Nat,
        verdict: Verdict \cup {"none"}, status: {"ok", "rejected"}]

ConvRow    == [id: Nat, acct: Account, customer: Customer, scoped: BOOLEAN, open: BOOLEAN]
MessageRow == [id: Nat, conv: Nat, ext: Message, via: Proc \X Stripe]
QueueJob   == [channel: Channel, conv: Nat, row: Nat, ext: Message]

TypeOK ==
    /\ pc \in [Request -> Step]
    /\ job \in [Request -> Job]
    /\ lock \in [Proc \X Stripe -> Request \cup {NoRequest}]
    /\ convs \in SUBSET ConvRow
    /\ rows \in SUBSET MessageRow
    /\ nextConv \in Nat \ {0} /\ nextRow \in Nat \ {0}
    /\ DOMAIN intake \in SUBSET Nat /\ \A c \in DOMAIN intake : intake[c] \in Verdict
    /\ assessQ \in SUBSET QueueJob
    /\ ticketQ \in SUBSET QueueJob
    /\ answered \in [Message -> {"pending", "ok", "rejected"}]
    /\ attempts \in [Message -> Nat]

NoJob == [msg |-> CHOOSE m \in Message : TRUE, acct |-> CHOOSE a \in Account : TRUE,
          conv |-> 0, created |-> FALSE, row |-> 0, verdict |-> "none", status |-> "ok"]

Init ==
    /\ pc = [r \in Request |-> "idle"]
    /\ job = [r \in Request |-> NoJob]
    /\ lock = [k \in Proc \X Stripe |-> NoRequest]
    /\ convs = {} /\ rows = {}
    /\ nextConv = 1 /\ nextRow = 1
    /\ intake = [c \in {} |-> "hold"]
    /\ assessQ = {} /\ ticketQ = {}
    /\ answered = [m \in Message |-> "pending"]
    /\ attempts = [m \in Message |-> 0]

-----------------------------------------------------------------------------
(***************************************************************************)
(* Queries.                                                                *)
(***************************************************************************)
MayFail(kind) == kind \in Faults

Msg(r)       == job[r].msg
IsEmail(r)   == ChannelOf[Msg(r)] = "email"
CompanyFor(r) == CompanyOf[job[r].acct]

\* conversationLock: convLocks is a variable of the process, and the key names
\* the company, the account (which implies the company) and the customer.
LockKey(r) == <<ProcOf[r], StripeOf[<<job[r].acct, CustomerOf[Msg(r)]>>]>>

\* The row joined with its conversation belongs to the company.
StoredFor(w, company) == \E c \in convs : c.id = w.conv /\ CompanyOf[c.acct] = company

\* FindByExternalID: messages joined with the conversations of the company.
RowsNamed(ext, company) == {w \in rows : w.ext = ext /\ StoredFor(w, company)}

\* ORDER BY id LIMIT 1, ascending and descending: the set of the row picked.
Oldest(S) == {w \in S : \A v \in S : w.id <= v.id}
Newest(S) == {w \in S : \A v \in S : w.id >= v.id}

\* The pending conversations of the account and the customer.
PendingFor(r) ==
    {c \in convs : c.acct = job[r].acct /\ c.customer = CustomerOf[Msg(r)] /\ c.open}

RowsIn(conv) == {w \in rows : w.conv = conv}

\* The payload of a job for the conversation and the message row of r.
Payload(r) == [channel |-> ChannelOf[Msg(r)], conv |-> job[r].conv, row |-> job[r].row,
               ext |-> Msg(r)]

-----------------------------------------------------------------------------
(***************************************************************************)
(* Control: move to the next call, or return from Run, which releases the  *)
(* lock (defer mu.Unlock) and leaves the answer to Receive.                *)
(***************************************************************************)
Goto(r, step, j) ==
    /\ pc' = [pc EXCEPT ![r] = step]
    /\ job' = [job EXCEPT ![r] = j]

\* The results of resolveConversation.
WithConversation(r, conv, created) == [job[r] EXCEPT !.conv = conv, !.created = created]

Return(r) ==
    /\ Goto(r, "respond", [job[r] EXCEPT !.status = "ok"])
    /\ lock' = [lock EXCEPT ![LockKey(r)] = NoRequest]

ReturnWithoutUnlock(r) ==
    Goto(r, "respond", [job[r] EXCEPT !.status = "ok"]) /\ UNCHANGED lock

\* Run found the message stored and returns the identifiers it has.
ReturnDuplicate(r) == Return(r)

\* Run on an InsertMessage error: a conversation it opened is cleaned up first.
FailWithoutCleanup(r) == Return(r)

FailInsert(r) ==
    IF job[r].created THEN Goto(r, "cleanup", job[r]) /\ UNCHANGED lock ELSE Return(r)

(***************************************************************************)
(* A sender without an answer delivers its message.  Nothing stops two     *)
(* deliveries of it from being in progress at once: the poller gives up on *)
(* a slow request after 15 s, and a mailbox may be read by both pollers.   *)
(***************************************************************************)
Deliver(r, m) ==
    /\ pc[r] = "idle"
    /\ answered[m] = "pending"
    /\ attempts[m] < MaxAttempts
    /\ attempts' = [attempts EXCEPT ![m] = @ + 1]
    /\ Goto(r, "resolve", [NoJob EXCEPT !.msg = m])
    /\ UNCHANGED <<lock, tables, intake, queues, answered>>

(***************************************************************************)
(* resolveAccount.  A routing key or alias whose lookup fails, for any     *)
(* reason, falls through to the next candidate, so a delivery may resolve  *)
(* to any of the accounts its addresses name.  No account is the one error *)
(* Receive answers with 404; every other error is answered with 200.       *)
(***************************************************************************)
ResolveAccount(r) ==
    /\ pc[r] = "resolve"
    /\ \/ \E a \in AccountsOf[Msg(r)] : Goto(r, "lock", [job[r] EXCEPT !.acct = a])
       \/ /\ AccountsOf[Msg(r)] = {}
          /\ Goto(r, "respond", [job[r] EXCEPT !.status = "rejected"])
       \/ MayFail("lookup") /\ Goto(r, "respond", job[r])
    /\ UNCHANGED <<lock, tables, intake, queues, senders>>

AcquireLockShared(r) ==
    /\ pc[r] = "lock"
    /\ lock' = [lock EXCEPT ![LockKey(r)] = r]
    /\ Goto(r, "dedup", job[r])
    /\ UNCHANGED <<tables, intake, queues, senders>>

AcquireLock(r) ==
    /\ pc[r] = "lock"
    /\ lock[LockKey(r)] = NoRequest
    /\ lock' = [lock EXCEPT ![LockKey(r)] = r]
    /\ Goto(r, "dedup", job[r])
    /\ UNCHANGED <<tables, intake, queues, senders>>

\* findExisting: a message already stored for the company ends the run here.
FindExisting(r) ==
    /\ pc[r] = "dedup"
    /\ \/ RowsNamed(Msg(r), CompanyFor(r)) # {} /\ ReturnDuplicate(r)
       \/ /\ RowsNamed(Msg(r), CompanyFor(r)) = {}
          /\ Goto(r, "thread", job[r]) /\ UNCHANGED lock
       \/ MayFail("lookup") /\ Return(r)
    /\ UNCHANGED <<tables, intake, queues, senders>>

(***************************************************************************)
(* resolveThreadConversation, whose failing lookups are skipped.  The      *)
(* order of the references is abstracted: any that is stored may be hit.   *)
(***************************************************************************)
ResolveThread(r) ==
    LET hits == {ref \in RefsOf[Msg(r)] : RowsNamed(ref, CompanyFor(r)) # {}} IN
    /\ pc[r] = "thread"
    /\ \/ \E ref \in hits : \E w \in Oldest(RowsNamed(ref, CompanyFor(r))) :
             Goto(r, "store", WithConversation(r, w.conv, FALSE))
       \/ /\ hits = {} \/ MayFail("lookup")
          /\ Goto(r, IF IsEmail(r) THEN "create" ELSE "select", job[r])
    /\ UNCHANGED <<lock, tables, intake, queues, senders>>

\* UpsertConversation without ForceNew: reuse the newest pending conversation.
SelectPending(r) ==
    /\ pc[r] = "select"
    /\ \/ /\ \E c \in Newest(PendingFor(r)) :
                Goto(r, "store", WithConversation(r, c.id, FALSE))
          /\ UNCHANGED lock
       \/ PendingFor(r) = {} /\ Goto(r, "create", job[r]) /\ UNCHANGED lock
       \/ MayFail("lookup") /\ Return(r)
    /\ UNCHANGED <<tables, intake, queues, senders>>

(***************************************************************************)
(* UpsertConversation, the INSERT.  A thread-scoped (LINE) conversation is *)
(* unique while pending, and a duplicate key falls back to the row that is *)
(* there; an e-mail forces a new conversation.  Run returns on an error of *)
(* the INSERT, which may have been committed: it does not know of any      *)
(* conversation to clean up then.                                          *)
(***************************************************************************)
DuplicateKey(r) == ~IsEmail(r) /\ \E c \in PendingFor(r) : c.scoped

InsertConversation(r) ==
    /\ ~DuplicateKey(r)
    /\ convs' = convs \cup {[id |-> nextConv, acct |-> job[r].acct, open |-> TRUE,
                             customer |-> CustomerOf[Msg(r)], scoped |-> ~IsEmail(r)]}
    /\ nextConv' = nextConv + 1

CreateConversation(r) ==
    /\ pc[r] = "create"
    /\ \/ /\ InsertConversation(r)
          /\ Goto(r, "store", WithConversation(r, nextConv, TRUE))
          /\ UNCHANGED lock
       \/ MayFail("create") /\ InsertConversation(r) /\ Return(r)
       \/ /\ DuplicateKey(r)
          /\ \E c \in Newest(PendingFor(r)) :
                Goto(r, "store", WithConversation(r, c.id, FALSE))
          /\ UNCHANGED <<lock, convs, nextConv>>
       \/ MayFail("insert") /\ Return(r) /\ UNCHANGED <<convs, nextConv>>
    /\ UNCHANGED <<rows, nextRow, intake, queues, senders>>

(***************************************************************************)
(* InsertMessage: the row of the same external id in the conversation if   *)
(* there is one, a new row otherwise.  The unique key on (conversation_id, *)
(* external_id) with its fallback makes lookup and insert one step.  A     *)
(* conversation deleted meanwhile may refuse the row or take it: the       *)
(* schema, and with it the foreign key, belongs to the main application.   *)
(* An insert that reports an error may still have been committed.          *)
(***************************************************************************)
InsertRow(r) ==
    /\ rows' = rows \cup {[id |-> nextRow, conv |-> job[r].conv, ext |-> Msg(r),
                           via |-> LockKey(r)]}
    /\ nextRow' = nextRow + 1

StoreMessage(r) ==
    LET same == {w \in RowsIn(job[r].conv) : w.ext = Msg(r)}
        next == IF IsEmail(r) THEN "assess" ELSE "ticket" IN
    /\ pc[r] = "store"
    /\ \/ /\ \E w \in Oldest(same) : Goto(r, next, [job[r] EXCEPT !.row = w.id])
          /\ UNCHANGED <<lock, rows, nextRow>>
       \/ /\ same = {}
          /\ InsertRow(r)
          /\ Goto(r, next, [job[r] EXCEPT !.row = nextRow])
          /\ UNCHANGED lock
       \/ MayFail("commit") /\ same = {} /\ InsertRow(r) /\ FailInsert(r)
       \/ /\ MayFail("insert") \/ ~ \E c \in convs : c.id = job[r].conv
          /\ UNCHANGED <<rows, nextRow>>
          /\ FailInsert(r)
    /\ UNCHANGED <<convs, nextConv, intake, queues, senders>>

\* DeleteConversationIfEmpty, whose failure is only logged.
CleanupDeletesAnyway(r) ==
    /\ pc[r] = "cleanup"
    /\ convs' = {c \in convs : c.id # job[r].conv}
    /\ Return(r)
    /\ UNCHANGED <<rows, nextConv, nextRow, intake, queues, senders>>

CleanupConversation(r) ==
    /\ pc[r] = "cleanup"
    /\ \/ convs' = {c \in convs : ~(c.id = job[r].conv /\ c.open /\ RowsIn(c.id) = {})}
       \/ MayFail("delete") /\ UNCHANGED convs
    /\ Return(r)
    /\ UNCHANGED <<rows, nextConv, nextRow, intake, queues, senders>>

-----------------------------------------------------------------------------
\* WriteCompleteness.
WriteIntakeUnassessed(conv, v) ==
    intake' = [c \in DOMAIN intake \cup {conv} |-> IF c = conv THEN "none" ELSE intake[c]]

WriteIntake(conv, v) ==
    intake' = [c \in DOMAIN intake \cup {conv} |-> IF c = conv THEN v ELSE intake[c]]

(***************************************************************************)
(* assessIntake.  The message that opened a conversation is handed to the  *)
(* worker in async mode, and the run ends there.  If the queue refuses it, *)
(* and in every other case, the assessment runs inline; when it fails the  *)
(* run goes on without one.                                                *)
(***************************************************************************)
AssessIntake(r) ==
    LET async   == AssessAsync /\ job[r].created
        enqueue == assessQ' = assessQ \cup {Payload(r)} IN
    /\ pc[r] = "assess"
    /\ \/ async /\ enqueue /\ Return(r) /\ UNCHANGED intake
       \/ /\ \/ (~async \/ MayFail("queue")) /\ UNCHANGED assessQ
             \/ async /\ MayFail("commit") /\ enqueue
          /\ \/ \E v \in Verdict :
                  /\ WriteIntake(job[r].conv, v)
                  /\ Goto(r, "ticket", [job[r] EXCEPT !.verdict = v])
             \/ MayFail("llm") /\ Goto(r, "ticket", job[r]) /\ UNCHANGED intake
          /\ UNCHANGED lock
    /\ UNCHANGED <<tables, ticketQ, senders>>

(***************************************************************************)
(* enqueueTicket: only the run that opened the conversation asks for a     *)
(* ticket.  A LINE company with a bot gets none, and flags that cannot be  *)
(* read say that it has one.                                               *)
(***************************************************************************)
TicketDueReused(r) ==
    IF IsEmail(r) THEN job[r].verdict = "promote" ELSE CompanyFor(r) \notin LineBot

TicketDue(r) ==
    /\ job[r].created
    /\ IF IsEmail(r) THEN job[r].verdict = "promote" ELSE CompanyFor(r) \notin LineBot

EnqueueTicket(r) ==
    /\ pc[r] = "ticket"
    /\ \/ TicketDue(r) /\ ticketQ' = ticketQ \cup {Payload(r)}
       \/ /\ ~TicketDue(r) \/ MayFail("queue") \/ (MayFail("flags") /\ ~IsEmail(r))
          /\ UNCHANGED ticketQ
    /\ Return(r)
    /\ UNCHANGED <<tables, intake, assessQ, senders>>

\* Receive writes the answer; it may be lost on the way to the sender.
Respond(r) ==
    /\ pc[r] = "respond"
    /\ \/ answered' = [answered EXCEPT ![Msg(r)] = job[r].status]
       \/ MayFail("answer") /\ UNCHANGED answered
    /\ Goto(r, "idle", NoJob)
    /\ UNCHANGED <<lock, tables, intake, queues, attempts>>

-----------------------------------------------------------------------------
(***************************************************************************)
(* The environment.                                                        *)
(***************************************************************************)

(***************************************************************************)
(* The request context ends (the client hung up, the deadline passed): the *)
(* call in hand and every later one fail, the clean-up included, and Run   *)
(* returns.  A mutex is waited for regardless of the context.              *)
(***************************************************************************)
Cancel(r) ==
    /\ MayFail("cancel")
    /\ \/ pc[r] \in Critical /\ Return(r)
       \/ pc[r] = "resolve" /\ Goto(r, "respond", job[r]) /\ UNCHANGED lock
    /\ UNCHANGED <<tables, intake, queues, senders>>

\* A process dies with its requests and its mutexes; the tables remain.
Crash(p) ==
    /\ MayFail("crash")
    /\ pc' = [r \in Request |-> IF ProcOf[r] = p THEN "idle" ELSE pc[r]]
    /\ job' = [r \in Request |-> IF ProcOf[r] = p THEN NoJob ELSE job[r]]
    /\ lock' = [k \in Proc \X Stripe |-> IF k[1] = p THEN NoRequest ELSE lock[k]]
    /\ UNCHANGED <<tables, intake, queues, senders>>

\* The main application resolves or promotes a pending conversation.
CloseConversation(c) ==
    /\ c.open
    /\ convs' = (convs \ {c}) \cup {[c EXCEPT !.open = FALSE]}
    /\ UNCHANGED <<pc, job, lock, rows, nextConv, nextRow, intake, queues, senders>>

Run(r) ==
    \/ ResolveAccount(r) \/ AcquireLock(r) \/ FindExisting(r) \/ ResolveThread(r)
    \/ SelectPending(r) \/ CreateConversation(r) \/ StoreMessage(r)
    \/ CleanupConversation(r) \/ AssessIntake(r) \/ EnqueueTicket(r) \/ Respond(r)

Next ==
    \/ \E r \in Request, m \in Message : Deliver(r, m)
    \/ \E r \in Request : Run(r) \/ Cancel(r)
    \/ \E p \in Proc : Crash(p)
    \/ \E c \in convs : CloseConversation(c)

Spec == Init /\ [][Next]_vars

(***************************************************************************)
(* Every statement, HTTP call and assessment of Run has a timeout, so a    *)
(* request that can take a step takes one.  A Go mutex hands itself to a   *)
(* waiter that has starved for a millisecond, so a request whose mutex is  *)
(* free again and again gets it.                                           *)
(***************************************************************************)
Fairness == \A r \in Request : WF_vars(Run(r)) /\ SF_vars(AcquireLock(r))

FairSpec == Spec /\ Fairness

-----------------------------------------------------------------------------
(***************************************************************************)
(* Properties.                                                             *)
(***************************************************************************)

(***************************************************************************)
(* TestRunIsIdempotentOnDuplicateMessageID, for every interleaving: two    *)
(* runs that found each other's lock never store the same external message *)
(* twice for one company, whatever fails, is cancelled or crashes.         *)
(***************************************************************************)
StoredOncePerLock ==
    \A v, w \in rows, k \in Company :
        v.ext = w.ext /\ v.via = w.via /\ StoredFor(v, k) /\ StoredFor(w, k) => v = w

(***************************************************************************)
(* The same without the lock: no company ever has two rows of one external *)
(* message.  The lock is per process and per account; the lookup it        *)
(* protects is per company.                                                *)
(***************************************************************************)
StoredOnce ==
    \A v, w \in rows, k \in Company :
        v.ext = w.ext /\ StoredFor(v, k) /\ StoredFor(w, k) => v = w

(***************************************************************************)
(* DeleteConversationIfEmpty never takes a conversation away from under a  *)
(* message: neither one that is stored nor one about to be.                *)
(***************************************************************************)
NoOrphanMessage ==
    /\ \A w \in rows : \E c \in convs : c.id = w.conv
    /\ \A r \in Request : pc[r] = "store" => \E c \in convs : c.id = job[r].conv

(***************************************************************************)
(* However many messages and deliveries a conversation receives, the jobs  *)
(* that leave Run for it, assessments and tickets, name one message: the   *)
(* idempotency key ai:channel:conversation:message makes one ticket of     *)
(* them.                                                                   *)
(***************************************************************************)
OneJobPerConversation ==
    \A j, k \in assessQ \cup ticketQ : j.conv = k.conv => j = k

(***************************************************************************)
(* TestRunRemovesNewEmptyConversationWhenMessageInsertFails: a pending     *)
(* conversation without messages is still in the hands of the run that     *)
(* opened it.  One that is left behind swallows the customer's next LINE   *)
(* message without a ticket.  (An INSERT of the conversation that reports  *)
(* an error, a clean-up that fails, a cancelled request and a crash do     *)
(* leave one.)                                                             *)
(***************************************************************************)
NoAbandonedConversation ==
    \A c \in convs :
        \/ ~c.open \/ RowsIn(c.id) # {}
        \/ \E r \in Request : pc[r] \in {"store", "cleanup"} /\ job[r].created
                               /\ job[r].conv = c.id

(***************************************************************************)
(* The package comment of services/tickets: inbound messages produce a     *)
(* ticket:create job.  A stored LINE message that is the first of its      *)
(* conversation has its job, when the company has no bot, or the run that  *)
(* stored it is about to enqueue it.  (Flags that cannot be read lose the  *)
(* job as a crash does, and so does every fault that RunsAreServed of      *)
(* IntakeProofs names.)                                                    *)
(***************************************************************************)
OpeningMessageTicketed ==
    \A w \in rows :
        /\ ChannelOf[w.ext] = "line" /\ \A v \in RowsIn(w.conv) : w.id <= v.id
        /\ \E k \in Company \ LineBot : StoredFor(w, k)
        => \/ \E j \in ticketQ : j.conv = w.conv /\ j.row = w.id
           \/ \E r \in Request : pc[r] = "ticket" /\ job[r].row = w.id

(***************************************************************************)
(* Every delivery is answered or its process dies: no run waits forever    *)
(* for a conversation lock, whichever path its holder left Run by.         *)
(***************************************************************************)
EveryDeliveryEnds == \A r \in Request : pc[r] = "resolve" ~> pc[r] = "idle"

=============================================================================
