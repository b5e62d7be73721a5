---------------------------- MODULE IntakeProofs ----------------------------
(***************************************************************************)
(* Proofs about the intake.  The inbound pipeline, for every number of     *)
(* messages, accounts, companies, processes, requests and mutexes, every   *)
(* assignment of lock keys to mutexes, and every set of failures; and that *)
(* the intake from end to end implements TicketIntake, for every number of *)
(* messages, requests, accounts, handler goroutines and retries.           *)
(***************************************************************************)
EXTENDS Pipeline, TLAPS

USE DEF Channel, Verdict, FaultKind

-----------------------------------------------------------------------------
(***************************************************************************)
(* Control: what a move of one request does to the variables of the type   *)
(* invariant, whichever action makes it.                                   *)
(***************************************************************************)
LEMMA NoJobType == NoJob \in Job
  BY ConstantsAssumption DEF NoJob, Job

\* A request moves to a step with well-typed locals.
LEMMA GotoType ==
  ASSUME TypeOK, NEW r \in Request, NEW step \in Step, NEW j \in Job, Goto(r, step, j)
  PROVE  pc' \in [Request -> Step] /\ job' \in [Request -> Job]
  BY DEF TypeOK, Goto

\* The key of a conversation lock is a mutex of the request's process.
LEMMA LockKeyType ==
  ASSUME TypeOK, NEW r \in Request
  PROVE  LockKey(r) \in Proc \X Stripe
  <1>1. job[r].acct \in Account /\ job[r].msg \in Message
    BY DEF TypeOK, Job
  <1> QED BY <1>1, ConstantsAssumption DEF LockKey, Msg

\* The locals after resolveConversation.
LEMMA WithConversationType ==
  ASSUME TypeOK, NEW r \in Request, NEW n \in Nat, NEW b \in BOOLEAN
  PROVE  LET j == WithConversation(r, n, b) IN
         /\ j \in Job /\ j.conv = n /\ j.created = b
         /\ j.msg = job[r].msg /\ j.acct = job[r].acct
  <1>1. job[r] \in Job
    BY DEF TypeOK
  <1> QED BY <1>1 DEF Job, WithConversation

\* Run returns: the request is about to answer and the mutex is free.
LEMMA ReturnType ==
  ASSUME TypeOK, NEW r \in Request, Return(r)
  PROVE  /\ pc' \in [Request -> Step] /\ job' \in [Request -> Job]
         /\ lock' \in [Proc \X Stripe -> Request \cup {NoRequest}]
  <1>0. job[r] \in Job
    BY DEF TypeOK
  <1>1. [job[r] EXCEPT !.status = "ok"] \in Job
    BY <1>0 DEF Job
  <1>2. pc' \in [Request -> Step] /\ job' \in [Request -> Job]
    BY <1>1, GotoType DEF Return, Step
  <1>3. lock' \in [Proc \X Stripe -> Request \cup {NoRequest}]
    BY LockKeyType DEF TypeOK, Return
  <1> QED BY <1>2, <1>3

\* The same for the two ways InsertMessage fails.
LEMMA FailInsertType ==
  ASSUME TypeOK, NEW r \in Request, FailInsert(r)
  PROVE  /\ pc' \in [Request -> Step] /\ job' \in [Request -> Job]
         /\ lock' \in [Proc \X Stripe -> Request \cup {NoRequest}]
  <1>1. CASE job[r].created
    <2>1. job[r] \in Job
      BY DEF TypeOK
    <2>2. Goto(r, "cleanup", job[r]) /\ UNCHANGED lock
      BY <1>1 DEF FailInsert
    <2> QED BY <2>1, <2>2, GotoType DEF Step, TypeOK
  <1>2. CASE ~job[r].created
    BY <1>2, ReturnType DEF FailInsert
  <1> QED BY <1>1, <1>2

\* A payload names a conversation, a row and a message.
LEMMA PayloadType ==
  ASSUME TypeOK, NEW r \in Request
  PROVE  Payload(r) \in QueueJob
  BY ConstantsAssumption DEF TypeOK, Job, Payload, QueueJob, Msg

-----------------------------------------------------------------------------
(***************************************************************************)
(* Type correctness.                                                       *)
(***************************************************************************)
LEMMA TypeInit == Init => TypeOK
  BY NoJobType, ConstantsAssumption DEF Init, TypeOK, Step

LEMMA TypeNext == TypeOK /\ [Next]_vars => TypeOK'
<1> SUFFICES ASSUME TypeOK, [Next]_vars PROVE TypeOK'
  OBVIOUS
<1> USE DEF tables, queues, senders
<1>1. ASSUME NEW r \in Request, NEW m \in Message, Deliver(r, m) PROVE TypeOK'
  <2>1. [NoJob EXCEPT !.msg = m] \in Job
    BY NoJobType DEF Job
  <2>2. pc' \in [Request -> Step] /\ job' \in [Request -> Job]
    BY <1>1, <2>1, GotoType DEF Deliver, Step
  <2>3. attempts' \in [Message -> Nat]
    BY <1>1 DEF Deliver, TypeOK
  <2> QED BY <1>1, <2>2, <2>3 DEF Deliver, TypeOK
<1>2. ASSUME NEW r \in Request, ResolveAccount(r) PROVE TypeOK'
  <2>1. \A a \in Account : [job[r] EXCEPT !.acct = a] \in Job
    BY SMTT(40) DEF TypeOK, Job
  <2>2. [job[r] EXCEPT !.status = "rejected"] \in Job /\ job[r] \in Job
    BY DEF TypeOK, Job
  <2>3. AccountsOf[Msg(r)] \subseteq Account
    BY ConstantsAssumption DEF TypeOK, Job, Msg
  <2>4. pc' \in [Request -> Step] /\ job' \in [Request -> Job]
    BY <1>2, <2>1, <2>2, <2>3, GotoType DEF ResolveAccount, Step
  <2> QED BY <1>2, <2>4 DEF ResolveAccount, TypeOK
<1>3. ASSUME NEW r \in Request, AcquireLock(r) PROVE TypeOK'
  <2>1. job[r] \in Job /\ LockKey(r) \in Proc \X Stripe
    BY LockKeyType DEF TypeOK
  <2>2. pc' \in [Request -> Step] /\ job' \in [Request -> Job]
    BY <1>3, <2>1, GotoType DEF AcquireLock, Step
  <2> QED BY <1>3, <2>1, <2>2 DEF AcquireLock, TypeOK
<1>4. ASSUME NEW r \in Request, FindExisting(r) PROVE TypeOK'
  <2>1. job[r] \in Job
    BY DEF TypeOK
  <2>2. /\ pc' \in [Request -> Step] /\ job' \in [Request -> Job]
        /\ lock' \in [Proc \X Stripe -> Request \cup {NoRequest}]
    BY <1>4, <2>1, GotoType, ReturnType DEF FindExisting, ReturnDuplicate, Step, TypeOK
  <2> QED BY <1>4, <2>2 DEF FindExisting, TypeOK
<1>5. ASSUME NEW r \in Request, ResolveThread(r) PROVE TypeOK'
  <2>1. \A w \in rows : WithConversation(r, w.conv, FALSE) \in Job
    BY WithConversationType DEF TypeOK, MessageRow
  <2>2. job[r] \in Job
    BY DEF TypeOK
  <2>3. \A ref : Oldest(RowsNamed(ref, CompanyFor(r))) \subseteq rows
    BY DEF Oldest, RowsNamed
  <2>4. pc' \in [Request -> Step] /\ job' \in [Request -> Job]
    BY <1>5, <2>1, <2>2, <2>3, GotoType DEF ResolveThread, Step
  <2> QED BY <1>5, <2>4 DEF ResolveThread, TypeOK
<1>6. ASSUME NEW r \in Request, SelectPending(r) PROVE TypeOK'
  <2>1. \A c \in convs : WithConversation(r, c.id, FALSE) \in Job
    BY WithConversationType DEF TypeOK, ConvRow
  <2>2. job[r] \in Job
    BY DEF TypeOK
  <2>3. Newest(PendingFor(r)) \subseteq convs
    BY DEF Newest, PendingFor
  <2>4. /\ pc' \in [Request -> Step] /\ job' \in [Request -> Job]
        /\ lock' \in [Proc \X Stripe -> Request \cup {NoRequest}]
    BY <1>6, <2>1, <2>2, <2>3, GotoType, ReturnType DEF SelectPending, Step, TypeOK
  <2> QED BY <1>6, <2>4 DEF SelectPending, TypeOK
<1>7. ASSUME NEW r \in Request, CreateConversation(r) PROVE TypeOK'
  <2>1. \A c \in convs : WithConversation(r, c.id, FALSE) \in Job
    BY WithConversationType DEF TypeOK, ConvRow
  <2>2. WithConversation(r, nextConv, TRUE) \in Job
    BY WithConversationType DEF TypeOK
  <2>3. Newest(PendingFor(r)) \subseteq convs
    BY DEF Newest, PendingFor
  <2>4. /\ pc' \in [Request -> Step] /\ job' \in [Request -> Job]
        /\ lock' \in [Proc \X Stripe -> Request \cup {NoRequest}]
    BY <1>7, <2>1, <2>2, <2>3, GotoType, ReturnType DEF CreateConversation, Step, TypeOK
  <2> DEFINE new == [id |-> nextConv, acct |-> job[r].acct, open |-> TRUE,
                     customer |-> CustomerOf[Msg(r)], scoped |-> ~IsEmail(r)]
  <2>5. new \in ConvRow
    BY ConstantsAssumption DEF TypeOK, Job, Msg, ConvRow, IsEmail
  <2>6. \/ convs' = convs \cup {new} /\ nextConv' = nextConv + 1
        \/ UNCHANGED <<convs, nextConv>>
    BY <1>7 DEF CreateConversation, InsertConversation
  <2> HIDE DEF new
  <2>7. convs' \in SUBSET ConvRow /\ nextConv' \in Nat \ {0}
    BY <2>5, <2>6 DEF TypeOK
  <2> QED BY <1>7, <2>4, <2>7 DEF CreateConversation, TypeOK
<1>8. ASSUME NEW r \in Request, StoreMessage(r) PROVE TypeOK'
  <2> DEFINE same == {w \in RowsIn(job[r].conv) : w.ext = Msg(r)}
             next == IF IsEmail(r) THEN "assess" ELSE "ticket"
  <2>1. next \in Step
    BY DEF Step
  <2> HIDE DEF same, next
  <2>2. \A w \in Oldest(same) : [job[r] EXCEPT !.row = w.id] \in Job
    <3>1. Oldest(same) \subseteq rows
      BY DEF Oldest, RowsIn, same
    <3> QED BY <3>1 DEF TypeOK, Job, MessageRow
  <2>3. [job[r] EXCEPT !.row = nextRow] \in Job
    <3>1. job[r] \in Job /\ nextRow \in Nat
      BY DEF TypeOK
    <3> QED BY <3>1 DEF Job
  <2>4. InsertRow(r) => rows' \in SUBSET MessageRow /\ nextRow' \in Nat \ {0}
    <3>1. job[r].conv \in Nat /\ Msg(r) \in Message
      BY DEF TypeOK, Job, Msg
    <3>2. [id |-> nextRow, conv |-> job[r].conv, ext |-> Msg(r), via |-> LockKey(r)] \in MessageRow
      BY <3>1, LockKeyType DEF TypeOK, MessageRow
    <3>3. rows \subseteq MessageRow /\ nextRow \in Nat
      BY DEF TypeOK
    <3> QED BY <3>2, <3>3 DEF InsertRow
  <2> DEFINE Typed ==
        /\ pc' \in [Request -> Step] /\ job' \in [Request -> Job]
        /\ lock' \in [Proc \X Stripe -> Request \cup {NoRequest}]
        /\ rows' \in SUBSET MessageRow /\ nextRow' \in Nat \ {0}
  <2>5. Typed
    <3>1. ASSUME NEW w \in Oldest(same), Goto(r, next, [job[r] EXCEPT !.row = w.id]),
                 UNCHANGED <<lock, rows, nextRow>>
          PROVE Typed
      BY <2>1, <2>2, <3>1, GotoType DEF TypeOK
    <3>2. ASSUME InsertRow(r), Goto(r, next, [job[r] EXCEPT !.row = nextRow]), UNCHANGED lock
          PROVE Typed
      BY <2>1, <2>3, <2>4, <3>2, GotoType DEF TypeOK
    <3>3. ASSUME InsertRow(r), FailInsert(r) PROVE Typed
      BY <2>4, <3>3, FailInsertType
    <3>4. ASSUME UNCHANGED <<rows, nextRow>>, FailInsert(r) PROVE Typed
      BY <3>4, FailInsertType DEF TypeOK
    <3> QED BY <1>8, <3>1, <3>2, <3>3, <3>4 DEF StoreMessage, same, next
  <2> QED BY <1>8, <2>5 DEF StoreMessage, TypeOK
<1>9. ASSUME NEW r \in Request, CleanupConversation(r) PROVE TypeOK'
  BY <1>9, ReturnType DEF CleanupConversation, TypeOK
<1>10. ASSUME NEW r \in Request, AssessIntake(r) PROVE TypeOK'
  <2>1. \A v \in Verdict : [job[r] EXCEPT !.verdict = v] \in Job
    BY DEF TypeOK, Job
  <2>2. job[r] \in Job /\ job[r].conv \in Nat
    BY DEF TypeOK, Job
  <2>3. /\ pc' \in [Request -> Step] /\ job' \in [Request -> Job]
        /\ lock' \in [Proc \X Stripe -> Request \cup {NoRequest}]
    BY <1>10, <2>1, <2>2, GotoType, ReturnType DEF AssessIntake, Step, TypeOK
  <2>4. assessQ' \in SUBSET QueueJob
    BY <1>10, PayloadType DEF AssessIntake, TypeOK
  <2>5. DOMAIN intake' \in SUBSET Nat /\ \A c \in DOMAIN intake' : intake'[c] \in Verdict
    BY <1>10, <2>2 DEF AssessIntake, WriteIntake, TypeOK
  <2> QED BY <1>10, <2>3, <2>4, <2>5 DEF AssessIntake, TypeOK
<1>11. ASSUME NEW r \in Request, EnqueueTicket(r) PROVE TypeOK'
  <2>1. ticketQ' \in SUBSET QueueJob
    BY <1>11, PayloadType DEF EnqueueTicket, TypeOK
  <2> QED BY <1>11, <2>1, ReturnType DEF EnqueueTicket, TypeOK
<1>12. ASSUME NEW r \in Request, Respond(r) PROVE TypeOK'
  <2>1. pc' \in [Request -> Step] /\ job' \in [Request -> Job]
    BY <1>12, NoJobType, GotoType DEF Respond, Step
  <2>2. answered' \in [Message -> {"pending", "ok", "rejected"}]
    BY <1>12 DEF Respond, TypeOK, Job, Msg
  <2> QED BY <1>12, <2>1, <2>2 DEF Respond, TypeOK
<1>13. ASSUME NEW r \in Request, Cancel(r) PROVE TypeOK'
  <2>1. job[r] \in Job
    BY DEF TypeOK
  <2>2. /\ pc' \in [Request -> Step] /\ job' \in [Request -> Job]
        /\ lock' \in [Proc \X Stripe -> Request \cup {NoRequest}]
    BY <1>13, <2>1, GotoType, ReturnType DEF Cancel, Step, TypeOK
  <2> QED BY <1>13, <2>2 DEF Cancel, TypeOK
<1>14. ASSUME NEW p \in Proc, Crash(p) PROVE TypeOK'
  <2>1. pc' \in [Request -> Step] /\ job' \in [Request -> Job]
    BY <1>14, NoJobType DEF Crash, TypeOK, Step
  <2>2. lock' \in [Proc \X Stripe -> Request \cup {NoRequest}]
    BY <1>14 DEF Crash, TypeOK
  <2> QED BY <1>14, <2>1, <2>2 DEF Crash, TypeOK
<1>15. ASSUME NEW c \in convs, CloseConversation(c) PROVE TypeOK'
  <2>1. [c EXCEPT !.open = FALSE] \in ConvRow
    BY <1>15 DEF TypeOK, ConvRow
  <2> QED BY <1>15, <2>1 DEF CloseConversation, TypeOK
<1>16. CASE UNCHANGED vars
  BY <1>16 DEF vars, TypeOK
<1> QED
  BY <1>1, <1>2, <1>3, <1>4, <1>5, <1>6, <1>7, <1>8, <1>9, <1>10, <1>11, <1>12, <1>13,
     <1>14, <1>15, <1>16 DEF Next, Run

(***************************************************************************)
(* Every variable of the pipeline keeps its type: in particular a request  *)
(* never leaves Run holding a mutex that is not one of its process, and    *)
(* every job put on a queue names a conversation and a row.                *)
(***************************************************************************)
THEOREM TypeCorrect == Spec => []TypeOK
  BY TypeInit, TypeNext, PTL DEF Spec

-----------------------------------------------------------------------------
(***************************************************************************)
(* The strengthening of StoredOncePerLock.                                 *)
(***************************************************************************)

\* AUTO_INCREMENT: nothing names a conversation that is yet to be inserted,
\* and an identifier stands for one account and one customer for ever.
FreshConversations ==
    /\ \A c \in convs : c.id < nextConv
    /\ \A c, d \in convs : c.id = d.id => c.acct = d.acct /\ c.customer = d.customer
    /\ \A w \in rows : w.conv < nextConv
    /\ \A r \in Request : pc[r] \in {"store", "cleanup", "assess", "ticket"}
                           => job[r].conv < nextConv

\* A request between lock and unlock is the one its mutex is held by.
HoldsLock == \A r \in Request : pc[r] \in Critical => lock[LockKey(r)] = r

\* The conversation a message is about to join belongs to the company the
\* message was looked up in.
JoinsOwnCompany ==
    \A r \in Request, c \in convs :
        pc[r] = "store" /\ c.id = job[r].conv => CompanyOf[c.acct] = CompanyFor(r)

\* What findExisting saw stays true until the insert, as far as the requests
\* go that need the same mutex.
StillUnstored ==
    \A r \in Request, w \in rows :
        /\ pc[r] \in {"thread", "select", "create", "store"}
        /\ w.ext = Msg(r) /\ w.via = LockKey(r)
        => ~StoredFor(w, CompanyFor(r))

DedupInv ==
    /\ TypeOK
    /\ FreshConversations
    /\ HoldsLock
    /\ JoinsOwnCompany
    /\ StillUnstored
    /\ StoredOncePerLock

-----------------------------------------------------------------------------
(***************************************************************************)
(* The two shapes of a step between lock and unlock: it goes on with the   *)
(* message and the account it has, or it returns.                          *)
(***************************************************************************)
KeepsKey(r, j) == j \in Job /\ j.msg = job[r].msg /\ j.acct = job[r].acct

Continues(r) ==
    /\ UNCHANGED lock
    /\ \E step \in Critical : \E j : KeepsKey(r, j) /\ Goto(r, step, j)

\* A move of one request leaves the others where they are.
LEMMA OthersStay ==
  ASSUME TypeOK, NEW r \in Request, NEW step, NEW j, Goto(r, step, j),
         NEW s \in Request, s # r
  PROVE  pc'[s] = pc[s] /\ job'[s] = job[s]
  BY DEF TypeOK, Goto

LEMMA MovesTo ==
  ASSUME TypeOK, NEW r \in Request, NEW step, NEW j, Goto(r, step, j)
  PROVE  pc'[r] = step /\ job'[r] = j
  BY DEF TypeOK, Goto

\* Locals that keep the message and the account keep everything derived.
LEMMA SameLocals ==
  ASSUME NEW s, job'[s].msg = job[s].msg, job'[s].acct = job[s].acct
  PROVE  Msg(s)' = Msg(s) /\ CompanyFor(s)' = CompanyFor(s) /\ LockKey(s)' = LockKey(s)
  BY DEF Msg, CompanyFor, LockKey

\* Every field but msg and acct may be written between lock and unlock.
LEMMA LocalsKeepKey ==
  ASSUME TypeOK, NEW r \in Request
  PROVE  /\ KeepsKey(r, job[r])
         /\ \A n \in Nat, b \in BOOLEAN : KeepsKey(r, WithConversation(r, n, b))
         /\ \A n \in Nat : KeepsKey(r, [job[r] EXCEPT !.row = n])
         /\ \A v \in Verdict : KeepsKey(r, [job[r] EXCEPT !.verdict = v])
  <1>1. job[r] \in Job
    BY DEF TypeOK
  <1>2. ASSUME NEW n \in Nat
        PROVE  /\ \A b \in BOOLEAN : KeepsKey(r, WithConversation(r, n, b))
               /\ KeepsKey(r, [job[r] EXCEPT !.row = n])
    BY <1>1, WithConversationType DEF KeepsKey, Job
  <1>3. ASSUME NEW v \in Verdict PROVE KeepsKey(r, [job[r] EXCEPT !.verdict = v])
    BY <1>1 DEF KeepsKey, Job
  <1>4. KeepsKey(r, job[r])
    BY <1>1 DEF KeepsKey
  <1> QED BY <1>2, <1>3, <1>4

LEMMA CriticalSteps ==
  ASSUME TypeOK, NEW r \in Request
  PROVE  /\ FindExisting(r) \/ ResolveThread(r) \/ SelectPending(r) \/ CreateConversation(r)
            \/ StoreMessage(r) \/ CleanupConversation(r) \/ AssessIntake(r)
            \/ EnqueueTicket(r)
            => pc[r] \in Critical /\ (Continues(r) \/ Return(r))
  <1> USE LocalsKeepKey
  <1>1. ASSUME FindExisting(r) PROVE pc[r] \in Critical /\ (Continues(r) \/ Return(r))
    BY <1>1 DEF FindExisting, ReturnDuplicate, Continues, Critical
  <1>2. ASSUME ResolveThread(r) PROVE pc[r] \in Critical /\ (Continues(r) \/ Return(r))
    <2>1. \A ref : Oldest(RowsNamed(ref, CompanyFor(r))) \subseteq rows
      BY DEF Oldest, RowsNamed
    <2>2. \A w \in rows : w.conv \in Nat
      BY DEF TypeOK, MessageRow
    <2> QED BY <1>2, <2>1, <2>2 DEF ResolveThread, Continues, Critical
  <1>3. ASSUME SelectPending(r) PROVE pc[r] \in Critical /\ (Continues(r) \/ Return(r))
    <2>1. \A c \in Newest(PendingFor(r)) : c.id \in Nat
      BY DEF Newest, PendingFor, TypeOK, ConvRow
    <2> QED BY <1>3, <2>1 DEF SelectPending, Continues, Critical
  <1>4. ASSUME CreateConversation(r) PROVE pc[r] \in Critical /\ (Continues(r) \/ Return(r))
    <2>1. \A c \in Newest(PendingFor(r)) : c.id \in Nat
      BY DEF Newest, PendingFor, TypeOK, ConvRow
    <2>2. nextConv \in Nat
      BY DEF TypeOK
    <2> QED BY <1>4, <2>1, <2>2 DEF CreateConversation, Continues, Critical
  <1>5. FailInsert(r) => Continues(r) \/ Return(r)
    BY DEF FailInsert, Continues, Critical
  <1>6. ASSUME StoreMessage(r) PROVE pc[r] \in Critical /\ (Continues(r) \/ Return(r))
    <2> DEFINE same == {w \in RowsIn(job[r].conv) : w.ext = Msg(r)}
               next == IF IsEmail(r) THEN "assess" ELSE "ticket"
    <2>1. next \in Critical /\ pc[r] \in Critical
      BY <1>6 DEF Critical, StoreMessage
    <2> HIDE DEF same, next
    <2>2. \A w \in Oldest(same) : w.id \in Nat
      BY DEF Oldest, same, RowsIn, TypeOK, MessageRow
    <2>3. nextRow \in Nat
      BY DEF TypeOK
    <2>4. \/ \E w \in Oldest(same) : Goto(r, next, [job[r] EXCEPT !.row = w.id]) /\ UNCHANGED lock
          \/ Goto(r, next, [job[r] EXCEPT !.row = nextRow]) /\ UNCHANGED lock
          \/ FailInsert(r)
      BY <1>6 DEF StoreMessage, same, next
    <2> QED BY <1>5, <2>1, <2>2, <2>3, <2>4 DEF Continues
  <1>7. ASSUME CleanupConversation(r) PROVE pc[r] \in Critical /\ (Continues(r) \/ Return(r))
    BY <1>7 DEF CleanupConversation, Critical
  <1>8. ASSUME AssessIntake(r) PROVE pc[r] \in Critical /\ (Continues(r) \/ Return(r))
    BY <1>8 DEF AssessIntake, Continues, Critical
  <1>9. ASSUME EnqueueTicket(r) PROVE pc[r] \in Critical /\ (Continues(r) \/ Return(r))
    BY <1>9 DEF EnqueueTicket, Critical
  <1> QED BY <1>1, <1>2, <1>3, <1>4, <1>6, <1>7, <1>8, <1>9

-----------------------------------------------------------------------------
(***************************************************************************)
(* HoldsLock.                                                              *)
(***************************************************************************)

\* A request that stays outside the critical section touches no mutex.
LEMMA HoldsOutside ==
  ASSUME TypeOK, HoldsLock, UNCHANGED lock,
         NEW r \in Request, NEW step, NEW j, step \notin Critical, Goto(r, step, j)
  PROVE  HoldsLock'
  <1> SUFFICES ASSUME NEW s \in Request, pc'[s] \in Critical PROVE lock'[LockKey(s)'] = s
    BY DEF HoldsLock
  <1>1. s # r
    BY MovesTo
  <1> QED BY <1>1, OthersStay, SameLocals DEF HoldsLock

LEMMA HoldsContinues ==
  ASSUME TypeOK, HoldsLock, NEW r \in Request, pc[r] \in Critical, Continues(r)
  PROVE  HoldsLock'
  <1> SUFFICES ASSUME NEW s \in Request, pc'[s] \in Critical PROVE lock'[LockKey(s)'] = s
    BY DEF HoldsLock
  <1>1. PICK step \in Critical : \E j : KeepsKey(r, j) /\ Goto(r, step, j)
    BY DEF Continues
  <1>2. PICK j : KeepsKey(r, j) /\ Goto(r, step, j)
    BY <1>1
  <1>3. CASE s = r
    BY <1>2, <1>3, MovesTo, SameLocals DEF HoldsLock, KeepsKey, Continues
  <1>4. CASE s # r
    BY <1>2, <1>4, OthersStay, SameLocals DEF HoldsLock, Continues
  <1> QED BY <1>3, <1>4

LEMMA HoldsReturn ==
  ASSUME TypeOK, HoldsLock, NEW r \in Request, pc[r] \in Critical, Return(r)
  PROVE  HoldsLock'
  <1> SUFFICES ASSUME NEW s \in Request, pc'[s] \in Critical PROVE lock'[LockKey(s)'] = s
    BY DEF HoldsLock
  <1>1. Goto(r, "respond", [job[r] EXCEPT !.status = "ok"])
    BY DEF Return
  <1>2. s # r
    BY <1>1, MovesTo DEF Critical
  <1>3. pc[s] \in Critical /\ LockKey(s)' = LockKey(s) /\ lock[LockKey(s)] = s
    BY <1>1, <1>2, OthersStay, SameLocals DEF HoldsLock
  <1>4. LockKey(s) # LockKey(r)
    BY <1>2, <1>3 DEF HoldsLock
  <1> QED BY <1>3, <1>4, LockKeyType DEF Return, TypeOK

LEMMA HoldsNext == TypeOK /\ HoldsLock /\ [Next]_vars => HoldsLock'
<1> SUFFICES ASSUME TypeOK, HoldsLock, [Next]_vars PROVE HoldsLock'
  OBVIOUS
<1>1. ASSUME NEW r \in Request, NEW m \in Message, Deliver(r, m) PROVE HoldsLock'
  BY <1>1, HoldsOutside DEF Deliver, Critical
<1>2. ASSUME NEW r \in Request, ResolveAccount(r) PROVE HoldsLock'
  BY <1>2, HoldsOutside DEF ResolveAccount, Critical
<1>3. ASSUME NEW r \in Request, AcquireLock(r) PROVE HoldsLock'
  <2> SUFFICES ASSUME NEW s \in Request, pc'[s] \in Critical PROVE lock'[LockKey(s)'] = s
    BY DEF HoldsLock
  <2>1. Goto(r, "dedup", job[r]) /\ lock' = [lock EXCEPT ![LockKey(r)] = r]
    BY <1>3 DEF AcquireLock
  <2>2. CASE s = r
    BY <2>1, <2>2, MovesTo, SameLocals, LockKeyType DEF TypeOK
  <2>3. CASE s # r
    <3>1. pc[s] \in Critical /\ LockKey(s)' = LockKey(s)
      BY <2>1, <2>3, OthersStay, SameLocals
    <3>2. LockKey(s) # LockKey(r)
      BY <1>3, <3>1, ConstantsAssumption DEF AcquireLock, HoldsLock
    <3> QED BY <2>1, <3>1, <3>2, LockKeyType DEF HoldsLock, TypeOK
  <2> QED BY <2>2, <2>3
<1>4. ASSUME NEW r \in Request, pc[r] \in Critical, Continues(r) \/ Return(r)
      PROVE HoldsLock'
  BY <1>4, HoldsContinues, HoldsReturn
<1>5. ASSUME NEW r \in Request, Respond(r) PROVE HoldsLock'
  BY <1>5, HoldsOutside DEF Respond, Critical
<1>6. ASSUME NEW r \in Request, Cancel(r) PROVE HoldsLock'
  BY <1>6, HoldsOutside, HoldsReturn DEF Cancel, Critical
<1>7. ASSUME NEW p \in Proc, Crash(p) PROVE HoldsLock'
  <2> SUFFICES ASSUME NEW s \in Request, pc'[s] \in Critical PROVE lock'[LockKey(s)'] = s
    BY DEF HoldsLock
  <2>1. ProcOf[s] # p /\ pc[s] \in Critical /\ job'[s] = job[s]
    BY <1>7 DEF Crash, Critical, TypeOK
  <2>2. LockKey(s)' = LockKey(s) /\ LockKey(s)[1] = ProcOf[s]
    BY <2>1, SameLocals DEF LockKey
  <2> QED BY <1>7, <2>1, <2>2, LockKeyType DEF Crash, HoldsLock
<1>8. ASSUME NEW c \in convs, CloseConversation(c) PROVE HoldsLock'
  BY <1>8 DEF CloseConversation, HoldsLock, LockKey, Msg
<1>9. CASE UNCHANGED vars
  BY <1>9 DEF vars, HoldsLock, LockKey, Msg
<1> QED
  BY <1>1, <1>2, <1>3, <1>4, <1>5, <1>6, <1>7, <1>8, <1>9, CriticalSteps DEF Next, Run

-----------------------------------------------------------------------------
(***************************************************************************)
(* What a step does to the two tables.                                     *)
(***************************************************************************)

\* A conversation is an old one, closed perhaps, or the one inserted now.
LEMMA ConvsStep ==
  ASSUME TypeOK, FreshConversations, [Next]_vars
  PROVE  /\ nextConv' \in Nat /\ nextConv' >= nextConv
         /\ \A c \in convs' :
              \/ \E d \in convs : d.id = c.id /\ d.acct = c.acct /\ d.customer = c.customer
              \/ c.id = nextConv /\ nextConv' = nextConv + 1
         /\ \A c, d \in convs' : c.id = nextConv /\ d.id = nextConv => c = d
  <1> DEFINE Goal ==
         /\ nextConv' \in Nat /\ nextConv' >= nextConv
         /\ \A c \in convs' :
              \/ \E d \in convs : d.id = c.id /\ d.acct = c.acct /\ d.customer = c.customer
              \/ c.id = nextConv /\ nextConv' = nextConv + 1
         /\ \A c, d \in convs' : c.id = nextConv /\ d.id = nextConv => c = d
  <1>0. nextConv \in Nat /\ \A c \in convs : c \in ConvRow /\ c.id \in Nat /\ c.id # nextConv
    BY DEF TypeOK, FreshConversations, ConvRow
  <1>1. ASSUME nextConv' = nextConv, convs' \subseteq convs PROVE Goal
    BY <1>0, <1>1
  <1>2. ASSUME NEW r \in Request, CreateConversation(r) PROVE Goal
    <2> DEFINE new == [id |-> nextConv, acct |-> job[r].acct, open |-> TRUE,
                       customer |-> CustomerOf[Msg(r)], scoped |-> ~IsEmail(r)]
    <2>1. \/ convs' = convs \cup {new} /\ nextConv' = nextConv + 1
          \/ UNCHANGED <<convs, nextConv>>
      BY <1>2 DEF CreateConversation, InsertConversation
    <2>2. new.id = nextConv
      OBVIOUS
    <2> HIDE DEF new
    <2> QED BY <1>0, <1>1, <2>1, <2>2
  <1>3. ASSUME NEW e \in convs, CloseConversation(e) PROVE Goal
    <2> DEFINE closed == [e EXCEPT !.open = FALSE]
    <2>1. closed.id = e.id /\ closed.acct = e.acct /\ closed.customer = e.customer
      BY <1>0 DEF ConvRow
    <2>2. convs' = (convs \ {e}) \cup {closed} /\ nextConv' = nextConv
      BY <1>3 DEF CloseConversation
    <2> HIDE DEF closed
    <2> QED BY <1>0, <2>1, <2>2
  <1>4. ASSUME NEW r \in Request, CleanupConversation(r) PROVE Goal
    BY <1>1, <1>4 DEF CleanupConversation
  <1> QED
    BY <1>1, <1>2, <1>3, <1>4 DEF Next, Run, vars, tables, queues, senders, Deliver, ResolveAccount,
       AcquireLock, FindExisting, ResolveThread, SelectPending, StoreMessage, AssessIntake,
       EnqueueTicket, Respond, Cancel, Crash

\* A row that was stored is stored for no company it was not stored for.
LEMMA StoredForStep ==
  ASSUME TypeOK, FreshConversations, [Next]_vars, NEW w \in rows, NEW k, StoredFor(w, k)'
  PROVE  StoredFor(w, k)
  <1>1. w.conv < nextConv /\ w.conv \in Nat /\ nextConv \in Nat
    BY DEF FreshConversations, TypeOK, MessageRow
  <1>2. PICK c \in convs' : c.id = w.conv /\ CompanyOf[c.acct] = k
    BY DEF StoredFor
  <1>3. \E d \in convs : d.id = c.id /\ d.acct = c.acct
    BY <1>1, <1>2, ConvsStep
  <1> QED BY <1>2, <1>3 DEF StoredFor

\* Only StoreMessage inserts a row.
LEMMA RowsStep ==
  ASSUME [Next]_vars
  PROVE  rows' = rows \/ \E r \in Request : StoreMessage(r) /\ InsertRow(r)
  BY DEF Next, Run, vars, tables, queues, senders, Deliver, ResolveAccount, AcquireLock,
     FindExisting, ResolveThread, SelectPending, CreateConversation, StoreMessage,
     CleanupConversation, AssessIntake, EnqueueTicket, Respond, Cancel, Crash,
     CloseConversation

-----------------------------------------------------------------------------
(***************************************************************************)
(* What a step does to one request: the ways into each call of Run.        *)
(***************************************************************************)

\* It stays where it is, or it is outside the critical section afterwards.
Rests(s) == pc'[s] = pc[s] /\ job'[s] = job[s]
Leaves(s) == pc'[s] \notin Critical

\* The calls before there is a conversation.
Searches(s) ==
    /\ job'[s] = job[s]
    /\ \/ pc[s] = "lock" /\ pc'[s] = "dedup"
       \/ pc[s] = "dedup" /\ pc'[s] = "thread" /\ RowsNamed(Msg(s), CompanyFor(s)) = {}
       \/ pc[s] \in {"thread", "select"} /\ pc'[s] \in {"select", "create"}

\* It joins the conversation of a stored row, or a pending conversation.
Joins(s) ==
    /\ pc'[s] = "store" /\ UNCHANGED <<convs, nextConv>>
    /\ \/ /\ pc[s] = "thread"
          /\ \E w \in rows : /\ StoredFor(w, CompanyFor(s))
                             /\ job'[s] = WithConversation(s, w.conv, FALSE)
       \/ /\ pc[s] \in {"select", "create"}
          /\ \E c \in PendingFor(s) : job'[s] = WithConversation(s, c.id, FALSE)

NewConversation(s) ==
    [id |-> nextConv, acct |-> job[s].acct, open |-> TRUE,
     customer |-> CustomerOf[Msg(s)], scoped |-> ~IsEmail(s)]

Founds(s) ==
    /\ pc[s] = "create" /\ pc'[s] = "store"
    /\ job'[s] = WithConversation(s, nextConv, TRUE)
    /\ convs' = convs \cup {NewConversation(s)} /\ nextConv' = nextConv + 1

\* The calls after the insert, with the conversation there is.
Follows(s) ==
    /\ \/ pc[s] = "store" /\ pc'[s] \in {"assess", "ticket"}
       \/ pc[s] = "store" /\ pc'[s] = "cleanup" /\ job[s].created
       \/ pc[s] = "assess" /\ pc'[s] = "ticket" /\ job'[s].row = job[s].row
    /\ job'[s].conv = job[s].conv /\ job'[s].created = job[s].created
    /\ job'[s].msg = job[s].msg /\ job'[s].acct = job[s].acct

Moves(s) == Rests(s) \/ Leaves(s) \/ Searches(s) \/ Joins(s) \/ Founds(s) \/ Follows(s)

\* A request on its way out, or not yet in, is outside the critical section.
LEMMA LeavesGoto ==
  ASSUME TypeOK, NEW s \in Request, NEW step, NEW j, Goto(s, step, j), step \notin Critical
  PROVE  Leaves(s)
  BY MovesTo DEF Leaves

LEMMA LeavesReturn ==
  ASSUME TypeOK, NEW s \in Request, Return(s)
  PROVE  Leaves(s)
  BY LeavesGoto DEF Return, Critical

\* A step of another request moves only that one.
LEMMA RestsGoto ==
  ASSUME TypeOK, NEW r \in Request, NEW step, NEW j, Goto(r, step, j),
         NEW s \in Request, s # r
  PROVE  Rests(s)
  BY OthersStay DEF Rests

\* The step of a request itself.
LEMMA OwnStep ==
  ASSUME TypeOK, NEW s \in Request, Run(s)
  PROVE  Moves(s)
  <1> USE MovesTo, LeavesGoto, LeavesReturn
  <1>0. job[s] \in Job
    BY DEF TypeOK
  <1>1. CASE ResolveAccount(s)
    BY <1>1 DEF ResolveAccount, Moves, Critical
  <1>2. CASE AcquireLock(s)
    BY <1>2 DEF AcquireLock, Moves, Searches
  <1>3. CASE FindExisting(s)
    BY <1>3 DEF FindExisting, ReturnDuplicate, Moves, Searches
  <1>4. CASE ResolveThread(s)
    <2>1. CASE \E step \in {"create", "select"} : Goto(s, step, job[s])
      BY <1>4, <2>1 DEF ResolveThread, Moves, Searches
    <2>2. ASSUME NEW ref, NEW w \in Oldest(RowsNamed(ref, CompanyFor(s))),
                 Goto(s, "store", WithConversation(s, w.conv, FALSE))
          PROVE  Moves(s)
      <3>1. w \in rows /\ StoredFor(w, CompanyFor(s))
        BY DEF Oldest, RowsNamed
      <3> QED BY <1>4, <2>2, <3>1 DEF ResolveThread, tables, Moves, Joins
    <2> QED BY <1>4, <2>1, <2>2 DEF ResolveThread
  <1>5. CASE SelectPending(s)
    <2>1. Newest(PendingFor(s)) \subseteq PendingFor(s)
      BY DEF Newest
    <2> QED BY <1>5, <2>1 DEF SelectPending, tables, Moves, Searches, Joins
  <1>6. CASE CreateConversation(s)
    <2>1. Newest(PendingFor(s)) \subseteq PendingFor(s)
      BY DEF Newest
    <2> QED BY <1>6, <2>1 DEF CreateConversation, InsertConversation, Moves, Joins, Founds,
                            NewConversation
  <1>7. CASE StoreMessage(s)
    <2> DEFINE same == {w \in RowsIn(job[s].conv) : w.ext = Msg(s)}
               next == IF IsEmail(s) THEN "assess" ELSE "ticket"
    <2>1. next \in {"assess", "ticket"} /\ pc[s] = "store"
      BY <1>7 DEF StoreMessage
    <2> HIDE DEF same, next
    <2>2. \/ \E n : Goto(s, next, [job[s] EXCEPT !.row = n])
          \/ FailInsert(s)
      BY <1>7 DEF StoreMessage, same, next
    <2>3. ASSUME NEW n, Goto(s, next, [job[s] EXCEPT !.row = n]) PROVE Follows(s)
      <3>1. pc'[s] = next /\ job'[s] = [job[s] EXCEPT !.row = n]
        BY <2>3
      <3> QED BY <1>0, <2>1, <3>1 DEF Follows, Job
    <2>4. FailInsert(s) => Leaves(s) \/ Follows(s)
      BY <2>1 DEF FailInsert, Follows
    <2> QED BY <2>2, <2>3, <2>4 DEF Moves
  <1>8. CASE CleanupConversation(s)
    BY <1>8 DEF CleanupConversation, Moves
  <1>9. CASE AssessIntake(s)
    <2>1. \/ Return(s)
          \/ pc[s] = "assess" /\ Goto(s, "ticket", job[s])
          \/ pc[s] = "assess" /\ \E v : Goto(s, "ticket", [job[s] EXCEPT !.verdict = v])
      BY <1>9 DEF AssessIntake
    <2>2. ASSUME NEW v, pc[s] = "assess", Goto(s, "ticket", [job[s] EXCEPT !.verdict = v])
          PROVE  Follows(s)
      <3>1. pc'[s] = "ticket" /\ job'[s] = [job[s] EXCEPT !.verdict = v]
        BY <2>2
      <3> QED BY <1>0, <2>2, <3>1 DEF Follows, Job
    <2> QED BY <2>1, <2>2 DEF Follows, Moves
  <1>10. CASE EnqueueTicket(s)
    BY <1>10 DEF EnqueueTicket, Moves
  <1>11. CASE Respond(s)
    BY <1>11 DEF Respond, Moves, Critical
  <1> QED
    BY <1>1, <1>2, <1>3, <1>4, <1>5, <1>6, <1>7, <1>8, <1>9, <1>10, <1>11 DEF Run

\* Whatever the system does, a request makes one of these moves.
LEMMA RequestStep ==
  ASSUME TypeOK, [Next]_vars, NEW s \in Request
  PROVE  Moves(s)
  <1> USE RestsGoto, LeavesGoto DEF Moves
  <1>1. ASSUME NEW r \in Request, NEW m \in Message, Deliver(r, m) PROVE Moves(s)
    BY <1>1 DEF Deliver, Critical
  <1>2. ASSUME NEW r \in Request, Run(r) PROVE Moves(s)
    <2>1. \E step, j : Goto(r, step, j)
      BY <1>2 DEF Run, ResolveAccount, AcquireLock, FindExisting, ReturnDuplicate, Return,
         ResolveThread, SelectPending, CreateConversation, StoreMessage, FailInsert,
         CleanupConversation, AssessIntake, EnqueueTicket, Respond
    <2> QED BY <1>2, <2>1, OwnStep
  <1>3. ASSUME NEW r \in Request, Cancel(r) PROVE Moves(s)
    BY <1>3, LeavesReturn DEF Cancel, Return, Critical
  <1>4. ASSUME NEW p \in Proc, Crash(p) PROVE Moves(s)
    BY <1>4 DEF Crash, Rests, Leaves, Critical
  <1>5. ASSUME NEW c \in convs, CloseConversation(c) PROVE Moves(s)
    BY <1>5 DEF CloseConversation, Rests
  <1>6. CASE UNCHANGED vars
    BY <1>6 DEF vars, Rests
  <1> QED BY <1>1, <1>2, <1>3, <1>4, <1>5, <1>6 DEF Next

-----------------------------------------------------------------------------
(***************************************************************************)
(* The rest of DedupInv.                                                   *)
(***************************************************************************)
LEMMA FreshNext ==
  ASSUME TypeOK, TypeOK', FreshConversations, [Next]_vars
  PROVE  FreshConversations'
  <1>0. nextConv \in Nat /\ nextConv' \in Nat /\ nextConv' >= nextConv
    <2>1. nextConv \in Nat
      BY DEF TypeOK
    <2> QED BY <2>1, ConvsStep
  <1>1. \A c \in convs' : c.id < nextConv'
    <2>1. \A c \in convs : c.id < nextConv /\ c.id \in Nat
      BY DEF FreshConversations, TypeOK, ConvRow
    <2> QED BY <1>0, <2>1, ConvsStep
  <1>2. \A c, d \in convs' : c.id = d.id => c.acct = d.acct /\ c.customer = d.customer
    <2>1. \A c \in convs : c.id # nextConv
      BY <1>0 DEF FreshConversations, TypeOK, ConvRow
    <2> QED BY <2>1, ConvsStep DEF FreshConversations
  <1>3. \A w \in rows' : w.conv < nextConv'
    <2>1. \A w \in rows : w.conv < nextConv /\ w.conv \in Nat
      BY DEF FreshConversations, TypeOK, MessageRow
    <2>2. ASSUME NEW r \in Request, StoreMessage(r), InsertRow(r)
          PROVE  \A w \in rows' : w \in rows \/ w.conv = job[r].conv
      BY <2>2 DEF InsertRow
    <2>3. ASSUME NEW r \in Request, StoreMessage(r)
          PROVE  job[r].conv < nextConv /\ job[r].conv \in Nat
      BY <2>3 DEF StoreMessage, FreshConversations, TypeOK, Job
    <2> QED BY <1>0, <2>1, <2>2, <2>3, RowsStep
  <1>4. ASSUME NEW s \in Request, pc'[s] \in {"store", "cleanup", "assess", "ticket"}
        PROVE  job'[s].conv < nextConv'
    <2>0. job[s] \in Job /\ job[s].conv \in Nat
      BY DEF TypeOK, Job
    <2>1. CASE Rests(s)
      BY <1>0, <1>4, <2>0, <2>1 DEF Rests, FreshConversations
    <2>2. CASE Joins(s)
      <3>1. ASSUME NEW w \in rows, job'[s] = WithConversation(s, w.conv, FALSE)
            PROVE  job'[s].conv < nextConv'
        <4>1. job'[s].conv = w.conv /\ w.conv < nextConv /\ w.conv \in Nat
          BY <2>0, <3>1 DEF Job, WithConversation, FreshConversations, TypeOK, MessageRow
        <4> QED BY <1>0, <4>1
      <3>2. ASSUME NEW c \in PendingFor(s), job'[s] = WithConversation(s, c.id, FALSE)
            PROVE  job'[s].conv < nextConv'
        <4>1. job'[s].conv = c.id /\ c.id < nextConv /\ c.id \in Nat
          BY <2>0, <3>2 DEF Job, WithConversation, PendingFor, FreshConversations, TypeOK, ConvRow
        <4> QED BY <1>0, <4>1
      <3> QED BY <2>2, <3>1, <3>2 DEF Joins
    <2>3. CASE Founds(s)
      <3>1. job'[s].conv = nextConv /\ nextConv' = nextConv + 1
        BY <2>0, <2>3 DEF Founds, Job, WithConversation
      <3> QED BY <1>0, <3>1
    <2>4. CASE Follows(s)
      <3>1. job[s].conv < nextConv /\ job'[s].conv = job[s].conv
        BY <2>4 DEF Follows, FreshConversations
      <3> QED BY <1>0, <2>0, <3>1
    <2> QED BY <1>4, <2>1, <2>2, <2>3, <2>4, RequestStep DEF Moves, Leaves, Searches, Critical
  <1> QED BY <1>1, <1>2, <1>3, <1>4 DEF FreshConversations

LEMMA JoinsNext ==
  ASSUME TypeOK, FreshConversations, JoinsOwnCompany, [Next]_vars
  PROVE  JoinsOwnCompany'
  <1> SUFFICES ASSUME NEW s \in Request, NEW c \in convs',
                      pc'[s] = "store", c.id = job'[s].conv
               PROVE  CompanyOf[c.acct] = CompanyFor(s)'
    BY DEF JoinsOwnCompany
  <1>0. job[s] \in Job /\ nextConv \in Nat /\ \A d \in convs : d.id < nextConv /\ d.id \in Nat
    BY DEF TypeOK, FreshConversations, ConvRow
  <1>1. CASE Rests(s)
    <2>1. pc[s] = "store" /\ job'[s] = job[s] /\ job[s].conv < nextConv /\ job[s].conv \in Nat
      BY <1>0, <1>1 DEF Rests, FreshConversations, Job
    <2>2. PICK d \in convs : d.id = c.id /\ d.acct = c.acct
      BY <1>0, <2>1, ConvsStep
    <2> QED BY <2>1, <2>2, SameLocals DEF JoinsOwnCompany
  <1>2. CASE Joins(s)
    <2>1. ASSUME NEW w \in rows, StoredFor(w, CompanyFor(s)),
                 job'[s] = WithConversation(s, w.conv, FALSE)
          PROVE  CompanyOf[c.acct] = CompanyFor(s)'
      <3>1. job'[s].conv = w.conv /\ job'[s].msg = job[s].msg /\ job'[s].acct = job[s].acct
        BY <1>0, <2>1 DEF Job, WithConversation
      <3>2. PICK d \in convs : d.id = w.conv /\ CompanyOf[d.acct] = CompanyFor(s)
        BY <2>1 DEF StoredFor
      <3>3. c.acct = d.acct
        BY <1>2, <3>1, <3>2 DEF Joins, FreshConversations
      <3> QED BY <3>1, <3>2, <3>3, SameLocals
    <2>2. ASSUME NEW d \in PendingFor(s), job'[s] = WithConversation(s, d.id, FALSE)
          PROVE  CompanyOf[c.acct] = CompanyFor(s)'
      <3>1. job'[s].conv = d.id /\ job'[s].msg = job[s].msg /\ job'[s].acct = job[s].acct
        BY <1>0, <2>2 DEF Job, WithConversation
      <3>2. d \in convs /\ d.acct = job[s].acct
        BY DEF PendingFor
      <3>3. c.acct = d.acct
        BY <1>2, <3>1, <3>2 DEF Joins, FreshConversations
      <3> QED BY <3>1, <3>2, <3>3 DEF CompanyFor
    <2> QED BY <1>2, <2>1, <2>2 DEF Joins
  <1>3. CASE Founds(s)
    <2>1. job'[s].conv = nextConv /\ job'[s].acct = job[s].acct
      BY <1>0, <1>3 DEF Founds, Job, WithConversation
    <2>2. c \notin convs
      BY <1>0, <2>1
    <2>3. c = NewConversation(s)
      BY <1>3, <2>2 DEF Founds
    <2> QED BY <2>1, <2>3 DEF CompanyFor, NewConversation
  <1> QED BY <1>1, <1>2, <1>3, RequestStep DEF Moves, Leaves, Searches, Follows, Critical

LEMMA UnstoredNext ==
  ASSUME TypeOK, FreshConversations, HoldsLock, StillUnstored, [Next]_vars
  PROVE  StillUnstored'
  <1> SUFFICES ASSUME NEW s \in Request, NEW w \in rows',
                      pc'[s] \in {"thread", "select", "create", "store"},
                      w.ext = Msg(s)', w.via = LockKey(s)', StoredFor(w, CompanyFor(s))'
               PROVE  FALSE
    BY DEF StillUnstored
  <1>0. job[s] \in Job
    BY DEF TypeOK
  <1>1. /\ Msg(s)' = Msg(s) /\ CompanyFor(s)' = CompanyFor(s) /\ LockKey(s)' = LockKey(s)
        /\ pc[s] \in Critical
        /\ \/ pc[s] \in {"thread", "select", "create", "store"}
           \/ RowsNamed(Msg(s), CompanyFor(s)) = {}
    <2>1. /\ job'[s].msg = job[s].msg /\ job'[s].acct = job[s].acct
          /\ pc[s] \in Critical
          /\ \/ pc[s] \in {"thread", "select", "create", "store"}
             \/ RowsNamed(Msg(s), CompanyFor(s)) = {}
      <3>1. Rests(s) \/ Searches(s) \/ Joins(s) \/ Founds(s)
        BY RequestStep DEF Moves, Leaves, Follows, Critical
      <3>2. CASE Rests(s) \/ Searches(s)
        BY <3>2 DEF Rests, Searches, Critical
      <3>3. CASE Joins(s)
        BY <1>0, <3>3 DEF Joins, Job, WithConversation, Critical
      <3>4. CASE Founds(s)
        BY <1>0, <3>4 DEF Founds, Job, WithConversation, Critical
      <3> QED BY <3>1, <3>2, <3>3, <3>4
    <2> QED BY <2>1, SameLocals
  <1>2. CASE w \in rows
    <2>1. StoredFor(w, CompanyFor(s))
      BY <1>1, <1>2, StoredForStep
    <2> QED BY <1>1, <1>2, <2>1 DEF StillUnstored, RowsNamed
  <1>3. CASE w \notin rows
    <2>1. PICK r \in Request : StoreMessage(r) /\ InsertRow(r)
      BY <1>3, RowsStep
    <2>2. w.via = LockKey(r) /\ pc[r] = "store"
      BY <1>3, <2>1 DEF InsertRow, StoreMessage
    <2>3. r = s
      BY <1>1, <2>2 DEF HoldsLock, Critical
    <2>4. pc'[s] \in {"assess", "ticket", "cleanup", "respond"}
      <3>1. \/ \E j : Goto(s, IF IsEmail(s) THEN "assess" ELSE "ticket", j)
            \/ FailInsert(s)
        BY <2>1, <2>3 DEF StoreMessage
      <3> QED BY <3>1, MovesTo DEF FailInsert, Return
    <2> QED BY <2>4
  <1> QED BY <1>2, <1>3

LEMMA StoredOncePerLockNext ==
  ASSUME TypeOK, FreshConversations, JoinsOwnCompany, StillUnstored, StoredOncePerLock,
         [Next]_vars
  PROVE  StoredOncePerLock'
  <1>1. CASE rows' = rows
    BY <1>1, StoredForStep DEF StoredOncePerLock
  <1>2. ASSUME NEW r \in Request, StoreMessage(r), InsertRow(r)
        PROVE  StoredOncePerLock'
    <2> DEFINE new == [id |-> nextRow, conv |-> job[r].conv, ext |-> Msg(r), via |-> LockKey(r)]
    <2>1. pc[r] = "store" /\ rows' = rows \cup {new} /\ convs' = convs
      BY <1>2 DEF StoreMessage, InsertRow
    <2>2. ASSUME NEW v \in rows, NEW k \in Company, v.ext = new.ext, v.via = new.via,
                 StoredFor(v, k), StoredFor(new, k)
          PROVE  FALSE
      <3>1. k = CompanyFor(r)
        BY <2>1, <2>2 DEF StoredFor, JoinsOwnCompany
      <3> QED BY <2>1, <2>2, <3>1 DEF StillUnstored
    <2>3. \A v, k : StoredFor(v, k)' <=> StoredFor(v, k)
      BY <2>1 DEF StoredFor
    <2> HIDE DEF new
    <2> QED BY <2>1, <2>2, <2>3 DEF StoredOncePerLock
  <1> QED BY <1>1, <1>2, RowsStep

(***************************************************************************)
(* Whatever fails, is cancelled or crashes, and however requests           *)
(* interleave, two runs that share a conversation lock never store one     *)
(* external message twice for a company.  The lookup of findExisting is    *)
(* still true at the insert because every insert that could falsify it     *)
(* needs the mutex the request holds.                                      *)
(***************************************************************************)
THEOREM MessagesStoredOncePerLock == Spec => []StoredOncePerLock
<1>1. Init => DedupInv
  <2> SUFFICES ASSUME Init PROVE DedupInv
    OBVIOUS
  <2> QED BY TypeInit DEF Init, DedupInv, FreshConversations, HoldsLock, JoinsOwnCompany,
             StillUnstored, StoredOncePerLock, Critical
<1>2. DedupInv /\ [Next]_vars => DedupInv'
  BY TypeNext, FreshNext, HoldsNext, JoinsNext, UnstoredNext, StoredOncePerLockNext
     DEF DedupInv
<1>3. DedupInv => StoredOncePerLock
  BY DEF DedupInv
<1> QED BY <1>1, <1>2, <1>3, PTL DEF Spec

-----------------------------------------------------------------------------
(***************************************************************************)
(* StoredOnce, which two accounts of a company or two processes break      *)
(* (inbound_two_accounts), holds where neither is the case.                *)
(***************************************************************************)
SingleProcess == \A r, s \in Request : ProcOf[r] = ProcOf[s]

SingleAccounts ==
    \A m \in Message : \A a, b \in AccountsOf[m] : CompanyOf[a] = CompanyOf[b] => a = b

\* A run works for an account its message resolves to.
AccountsResolved ==
    \A r \in Request : pc[r] \in Critical \cup {"lock"} => job[r].acct \in AccountsOf[Msg(r)]

\* A row was written under the lock of an account of the company it is stored for.
RowsByAccount ==
    \A w \in rows, k \in Company : StoredFor(w, k) =>
        \E r \in Request, a \in AccountsOf[w.ext] :
            /\ CompanyOf[a] = k
            /\ w.via = <<ProcOf[r], StripeOf[<<a, CustomerOf[w.ext]>>]>>

OnceInv == DedupInv /\ AccountsResolved /\ RowsByAccount

\* A request comes to its lock from resolveAccount.
LEMMA ResolvedStep ==
  ASSUME TypeOK, [Next]_vars, NEW s \in Request, pc'[s] = "lock"
  PROVE  Rests(s) \/ \E a \in AccountsOf[Msg(s)] : job'[s] = [job[s] EXCEPT !.acct = a]
  <1> DEFINE Goal == Rests(s) \/ \E a \in AccountsOf[Msg(s)] : job'[s] = [job[s] EXCEPT !.acct = a]
  <1>1. ASSUME NEW r \in Request, NEW m \in Message, Deliver(r, m) PROVE Goal
    BY <1>1, MovesTo, RestsGoto DEF Deliver
  <1>2. ASSUME NEW r \in Request, ResolveAccount(r) PROVE Goal
    <2>1. CASE r = s
      BY <1>2, <2>1, MovesTo DEF ResolveAccount
    <2>2. CASE r # s
      BY <1>2, <2>2, RestsGoto DEF ResolveAccount
    <2> QED BY <2>1, <2>2
  <1>3. ASSUME NEW r \in Request, NEW step, NEW j, step # "lock", Goto(r, step, j) PROVE Goal
    BY <1>3, MovesTo, RestsGoto
  <1>4. ASSUME NEW r \in Request, Continues(r) \/ Return(r) PROVE Goal
    BY <1>3, <1>4 DEF Continues, Return, Critical
  <1>5. ASSUME NEW r \in Request, Cancel(r) PROVE Goal
    BY <1>3, <1>5 DEF Cancel, Return
  <1>6. ASSUME NEW p \in Proc, Crash(p) PROVE Goal
    BY <1>6 DEF Crash, Rests, TypeOK
  <1>7. ASSUME NEW c \in convs, CloseConversation(c) PROVE Goal
    BY <1>7 DEF CloseConversation, Rests
  <1>8. CASE UNCHANGED vars
    BY <1>8 DEF vars, Rests
  <1> QED
    BY <1>1, <1>2, <1>3, <1>4, <1>5, <1>6, <1>7, <1>8, CriticalSteps
       DEF Next, Run, AcquireLock, Respond

LEMMA ResolvedNext ==
  ASSUME TypeOK, AccountsResolved, [Next]_vars
  PROVE  AccountsResolved'
  <1> SUFFICES ASSUME NEW s \in Request, pc'[s] \in Critical \cup {"lock"}
               PROVE  job'[s].acct \in AccountsOf[job'[s].msg]
    BY DEF AccountsResolved, Msg
  <1>0. job[s] \in Job
    BY DEF TypeOK
  <1>1. CASE Rests(s)
    BY <1>1 DEF Rests, AccountsResolved, Msg
  <1>2. CASE pc'[s] = "lock" /\ ~Rests(s)
    <2>1. PICK a \in AccountsOf[Msg(s)] : job'[s] = [job[s] EXCEPT !.acct = a]
      BY <1>2, ResolvedStep
    <2> QED BY <1>0, <2>1 DEF Job, Msg
  <1>3. CASE pc'[s] \in Critical /\ ~Rests(s)
    <2>1. Searches(s) \/ Joins(s) \/ Founds(s) \/ Follows(s)
      BY <1>3, RequestStep DEF Moves, Leaves
    <2>2. pc[s] \in Critical \cup {"lock"} /\ job'[s].acct = job[s].acct /\ job'[s].msg = job[s].msg
      <3>1. CASE Searches(s) \/ Follows(s)
        BY <3>1 DEF Searches, Follows, Critical
      <3>2. CASE Joins(s)
        BY <1>0, <3>2 DEF Joins, Job, WithConversation, Critical
      <3>3. CASE Founds(s)
        BY <1>0, <3>3 DEF Founds, Job, WithConversation, Critical
      <3> QED BY <2>1, <3>1, <3>2, <3>3
    <2> QED BY <2>2 DEF AccountsResolved, Msg
  <1> QED BY <1>1, <1>2, <1>3

LEMMA ByAccountNext ==
  ASSUME OnceInv, [Next]_vars
  PROVE  RowsByAccount'
  <1> USE DEF OnceInv, DedupInv
  <1> SUFFICES ASSUME NEW w \in rows', NEW k \in Company, StoredFor(w, k)'
               PROVE  \E r \in Request, a \in AccountsOf[w.ext] :
                         /\ CompanyOf[a] = k
                         /\ w.via = <<ProcOf[r], StripeOf[<<a, CustomerOf[w.ext]>>]>>
    BY DEF RowsByAccount
  <1>1. CASE w \in rows
    BY <1>1, StoredForStep DEF RowsByAccount
  <1>2. CASE w \notin rows
    <2>1. PICK r \in Request : StoreMessage(r) /\ InsertRow(r)
      BY <1>2, RowsStep
    <2>2. /\ pc[r] = "store" /\ convs' = convs
          /\ w.conv = job[r].conv /\ w.ext = Msg(r) /\ w.via = LockKey(r)
      BY <1>2, <2>1 DEF StoreMessage, InsertRow
    <2>3. k = CompanyFor(r)
      BY <2>2 DEF StoredFor, JoinsOwnCompany
    <2>4. job[r].acct \in AccountsOf[Msg(r)]
      BY <2>2 DEF AccountsResolved, Critical
    <2> QED BY <2>2, <2>3, <2>4 DEF LockKey, CompanyFor
  <1> QED BY <1>1, <1>2

\* What a message has been stored as is written under the lock its next run needs.
LEMMA SameVia ==
  ASSUME OnceInv, SingleProcess, SingleAccounts, NEW w \in rows, NEW k \in Company, StoredFor(w, k),
         NEW r \in Request, NEW a \in AccountsOf[w.ext], CompanyOf[a] = k, w.ext \in Message
  PROVE  w.via = <<ProcOf[r], StripeOf[<<a, CustomerOf[w.ext]>>]>>
  <1>1. PICK q \in Request, b \in AccountsOf[w.ext] :
           CompanyOf[b] = k /\ w.via = <<ProcOf[q], StripeOf[<<b, CustomerOf[w.ext]>>]>>
    BY DEF OnceInv, RowsByAccount
  <1>2. a = b /\ ProcOf[q] = ProcOf[r]
    BY <1>1 DEF SingleProcess, SingleAccounts
  <1> QED BY <1>1, <1>2

LEMMA StoredOnceHolds ==
  ASSUME OnceInv, SingleProcess, SingleAccounts
  PROVE  StoredOnce
  <1> SUFFICES ASSUME NEW v \in rows, NEW w \in rows, NEW k \in Company,
                      v.ext = w.ext, StoredFor(v, k), StoredFor(w, k)
               PROVE  v = w
    BY DEF StoredOnce
  <1>1. w.ext \in Message
    BY DEF OnceInv, DedupInv, TypeOK, MessageRow
  <1>2. PICK r \in Request, a \in AccountsOf[w.ext] :
           CompanyOf[a] = k /\ w.via = <<ProcOf[r], StripeOf[<<a, CustomerOf[w.ext]>>]>>
    BY DEF OnceInv, RowsByAccount
  <1>3. v.via = w.via
    BY <1>1, <1>2, SameVia
  <1> QED BY <1>3 DEF OnceInv, DedupInv, StoredOncePerLock

LEMMA OnceInit == Init => OnceInv
  <1> SUFFICES ASSUME Init PROVE OnceInv
    OBVIOUS
  <1> QED BY TypeInit DEF Init, OnceInv, DedupInv, FreshConversations, HoldsLock, JoinsOwnCompany,
             StillUnstored, StoredOncePerLock, AccountsResolved, RowsByAccount, Critical

LEMMA OnceNext == OnceInv /\ [Next]_vars => OnceInv'
  BY TypeNext, FreshNext, HoldsNext, JoinsNext, UnstoredNext, StoredOncePerLockNext,
     ResolvedNext, ByAccountNext DEF OnceInv, DedupInv

(***************************************************************************)
(* TestRunIsIdempotentOnDuplicateMessageID without the lock: when one      *)
(* process serves the deliveries and no message resolves to two accounts   *)
(* of a company, a company never has two rows of one message.              *)
(***************************************************************************)
THEOREM MessagesStoredOnce ==
  ASSUME SingleProcess, SingleAccounts
  PROVE  Spec => []StoredOnce
  BY OnceInit, OnceNext, StoredOnceHolds, PTL DEF Spec

-----------------------------------------------------------------------------
(***************************************************************************)
(* OneJobPerConversation.                                                  *)
(***************************************************************************)
AfterOpening == {"store", "cleanup", "assess", "ticket"}

\* r opened the conversation and has not returned yet.
Opener(r, conv) == pc[r] \in AfterOpening /\ job[r].created /\ job[r].conv = conv

OneOpener == \A r, s \in Request, n \in Nat : Opener(r, n) /\ Opener(s, n) => r = s

\* A job for a conversation whose opener is still in Run was refused only in
\* appearance, and is the one the opener may enqueue again.
JobsOfOpeners ==
    \A j \in assessQ \cup ticketQ :
        /\ j.conv < nextConv
        /\ \A r \in Request : Opener(r, j.conv) => pc[r] = "ticket" /\ j = Payload(r)

JobInv ==
    /\ TypeOK
    /\ FreshConversations
    /\ OneOpener
    /\ JobsOfOpeners
    /\ OneJobPerConversation

\* An opener was the opener before the step, or opens the next conversation.
LEMMA OpenerStep ==
  ASSUME TypeOK, FreshConversations, [Next]_vars, NEW s \in Request, NEW n \in Nat,
         Opener(s, n)'
  PROVE  \/ Opener(s, n) /\ (Rests(s) \/ Follows(s))
         \/ n = nextConv /\ nextConv' = nextConv + 1 /\ pc[s] = "create"
  <1>0. /\ pc'[s] \in AfterOpening /\ job'[s].created /\ job'[s].conv = n
        /\ job[s] \in Job /\ nextConv \in Nat
    BY DEF Opener, TypeOK
  <1>1. CASE Rests(s)
    BY <1>0, <1>1 DEF Rests, Opener
  <1>2. CASE Joins(s)
    <2>1. \/ \E w \in rows : job'[s] = WithConversation(s, w.conv, FALSE)
          \/ \E c \in PendingFor(s) : job'[s] = WithConversation(s, c.id, FALSE)
      BY <1>2 DEF Joins
    <2>2. ~job'[s].created
      BY <1>0, <2>1 DEF WithConversation, Job
    <2> QED BY <1>0, <2>2
  <1>3. CASE Founds(s)
    <2>1. job'[s].conv = nextConv
      BY <1>0, <1>3 DEF Founds, WithConversation, Job
    <2> QED BY <1>0, <1>3, <2>1 DEF Founds
  <1>4. CASE Follows(s)
    BY <1>0, <1>4 DEF Follows, Opener, AfterOpening
  <1> QED
    BY <1>0, <1>1, <1>2, <1>3, <1>4, RequestStep
       DEF Moves, Leaves, Searches, AfterOpening, Critical

\* No step but a crash moves two requests.
LEMMA OneMoves ==
  ASSUME TypeOK, [Next]_vars, NEW r \in Request, NEW s \in Request, r # s
  PROVE  Rests(r) \/ Rests(s) \/ pc'[r] = "idle"
  <1>1. ASSUME NEW q \in Request, \E step, j : Goto(q, step, j) PROVE Rests(r) \/ Rests(s)
    BY <1>1, RestsGoto
  <1>2. ASSUME NEW q \in Request, Run(q) PROVE \E step, j : Goto(q, step, j)
    BY <1>2 DEF Run, ResolveAccount, AcquireLock, FindExisting, ReturnDuplicate, Return,
       ResolveThread, SelectPending, CreateConversation, StoreMessage, FailInsert,
       CleanupConversation, AssessIntake, EnqueueTicket, Respond
  <1>3. ASSUME NEW q \in Request, Cancel(q) PROVE \E step, j : Goto(q, step, j)
    BY <1>3 DEF Cancel, Return
  <1>4. ASSUME NEW q \in Request, NEW m \in Message, Deliver(q, m)
        PROVE  \E step, j : Goto(q, step, j)
    BY <1>4 DEF Deliver
  <1>5. ASSUME NEW p \in Proc, Crash(p) PROVE Rests(r) \/ pc'[r] = "idle"
    BY <1>5 DEF Crash, Rests, TypeOK
  <1>6. CASE (\E c \in convs : CloseConversation(c)) \/ UNCHANGED vars
    BY <1>6 DEF CloseConversation, vars, Rests
  <1> QED BY <1>1, <1>2, <1>3, <1>4, <1>5, <1>6 DEF Next

LEMMA OneOpenerNext ==
  ASSUME TypeOK, FreshConversations, OneOpener, [Next]_vars
  PROVE  OneOpener'
  <1> SUFFICES ASSUME NEW r \in Request, NEW s \in Request, NEW n \in Nat,
                      Opener(r, n)', Opener(s, n)', r # s
               PROVE  FALSE
    BY DEF OneOpener
  <1>1. ASSUME NEW q \in Request, Opener(q, n), n = nextConv PROVE FALSE
    BY <1>1 DEF Opener, AfterOpening, FreshConversations, TypeOK, Job
  <1>2. CASE n = nextConv
    <2>1. pc[r] = "create" /\ pc[s] = "create"
      BY <1>1, <1>2, OpenerStep
    <2>2. pc'[r] \in AfterOpening /\ pc'[s] \in AfterOpening
      BY DEF Opener
    <2> QED BY <2>1, <2>2, OneMoves DEF Rests, AfterOpening
  <1>3. CASE n # nextConv
    BY <1>3, OpenerStep DEF OneOpener
  <1> QED BY <1>2, <1>3

\* A job leaves Run from the hands of the opener of its conversation.
LEMMA QueueStep ==
  ASSUME TypeOK, [Next]_vars
  PROVE  \/ assessQ' \cup ticketQ' = assessQ \cup ticketQ
         \/ \E r \in Request :
               /\ assessQ' \cup ticketQ' = assessQ \cup ticketQ \cup {Payload(r)}
               /\ pc[r] \in {"assess", "ticket"} /\ job[r].created
               /\ pc'[r] = "respond" \/ (pc'[r] = "ticket" /\ Payload(r)' = Payload(r))
               /\ nextConv' = nextConv
  <1> DEFINE Goal ==
        \/ assessQ' \cup ticketQ' = assessQ \cup ticketQ
        \/ \E r \in Request :
               /\ assessQ' \cup ticketQ' = assessQ \cup ticketQ \cup {Payload(r)}
               /\ pc[r] \in {"assess", "ticket"} /\ job[r].created
               /\ pc'[r] = "respond" \/ (pc'[r] = "ticket" /\ Payload(r)' = Payload(r))
               /\ nextConv' = nextConv
  <1>1. ASSUME NEW r \in Request, AssessIntake(r) PROVE Goal
    <2>1. CASE assessQ' = assessQ
      BY <1>1, <2>1 DEF AssessIntake
    <2>2. CASE assessQ' = assessQ \cup {Payload(r)} /\ job[r].created
      <3>1. assessQ' \cup ticketQ' = assessQ \cup ticketQ \cup {Payload(r)}
        BY <1>1, <2>2 DEF AssessIntake
      <3>2. \/ Return(r)
            \/ Goto(r, "ticket", job[r])
            \/ \E v : Goto(r, "ticket", [job[r] EXCEPT !.verdict = v])
        BY <1>1 DEF AssessIntake
      <3>3. Return(r) => pc'[r] = "respond"
        BY MovesTo DEF Return
      <3>4. ASSUME NEW j, Goto(r, "ticket", j), j.conv = job[r].conv, j.row = job[r].row,
                   j.msg = job[r].msg
            PROVE  pc'[r] = "ticket" /\ Payload(r)' = Payload(r)
        BY <3>4, MovesTo DEF Payload, Msg
      <3>5. ASSUME NEW v PROVE LET j == [job[r] EXCEPT !.verdict = v] IN
                      j.conv = job[r].conv /\ j.row = job[r].row /\ j.msg = job[r].msg
        BY DEF TypeOK, Job
      <3>6. pc'[r] = "respond" \/ (pc'[r] = "ticket" /\ Payload(r)' = Payload(r))
        BY <3>2, <3>3, <3>4, <3>5
      <3>7. pc[r] = "assess" /\ nextConv' = nextConv
        BY <1>1 DEF AssessIntake, tables
      <3> QED BY <2>2, <3>1, <3>6, <3>7
    <2> QED BY <1>1, <2>1, <2>2 DEF AssessIntake
  <1>2. ASSUME NEW r \in Request, EnqueueTicket(r) PROVE Goal
    <2>1. pc'[r] = "respond" /\ pc[r] = "ticket" /\ nextConv' = nextConv
      BY <1>2, MovesTo DEF EnqueueTicket, Return, tables
    <2> QED BY <1>2, <2>1 DEF EnqueueTicket, TicketDue
  <1> QED
    BY <1>1, <1>2 DEF Next, Run, vars, tables, queues, senders, Deliver, ResolveAccount,
       AcquireLock, FindExisting, ResolveThread, SelectPending, CreateConversation,
       StoreMessage, CleanupConversation, Respond, Cancel, Crash, CloseConversation

LEMMA JobsNext ==
  ASSUME JobInv, OneOpener', [Next]_vars
  PROVE  JobsOfOpeners' /\ OneJobPerConversation'
  <1> USE DEF JobInv
  <1>1. \A j \in assessQ \cup ticketQ : j.conv \in Nat /\ j.conv < nextConv
    BY DEF JobsOfOpeners, TypeOK, QueueJob
  <1>2. nextConv \in Nat /\ nextConv' \in Nat /\ nextConv' >= nextConv
    <2>1. nextConv \in Nat
      BY DEF TypeOK
    <2> QED BY <2>1, ConvsStep
  \* An old job keeps its relation to the opener.
  <1>3. ASSUME NEW j \in assessQ \cup ticketQ, NEW s \in Request, Opener(s, j.conv)'
        PROVE  pc'[s] = "ticket" /\ j = Payload(s)'
    <2>1. Opener(s, j.conv) /\ (Rests(s) \/ Follows(s))
      BY <1>1, <1>2, <1>3, OpenerStep
    <2>2. pc[s] = "ticket" /\ j = Payload(s)
      BY <2>1 DEF JobsOfOpeners
    <2>3. Rests(s)
      BY <2>1, <2>2 DEF Follows
    <2> QED BY <2>2, <2>3 DEF Rests, Payload, Msg
  <1>4. CASE assessQ' \cup ticketQ' = assessQ \cup ticketQ
    <2>1. JobsOfOpeners'
      BY <1>1, <1>2, <1>3, <1>4 DEF JobsOfOpeners
    <2> QED BY <1>4, <2>1 DEF OneJobPerConversation
  <1>5. ASSUME NEW r \in Request,
               assessQ' \cup ticketQ' = assessQ \cup ticketQ \cup {Payload(r)},
               pc[r] \in {"assess", "ticket"}, job[r].created,
               pc'[r] = "respond" \/ (pc'[r] = "ticket" /\ Payload(r)' = Payload(r)),
               nextConv' = nextConv
        PROVE  JobsOfOpeners' /\ OneJobPerConversation'
    <2>0. PICK n \in Nat : n = job[r].conv
      BY DEF TypeOK, Job
    <2>1. Payload(r).conv = n
      BY <2>0 DEF Payload
    <2>2. Opener(r, n) /\ n < nextConv
      BY <1>5, <2>0 DEF Opener, AfterOpening, FreshConversations
    <2>3. \A j \in assessQ \cup ticketQ : j.conv = n => j = Payload(r)
      BY <2>2, <1>1 DEF JobsOfOpeners
    <2>4. ASSUME NEW s \in Request, Opener(s, n)' PROVE pc'[s] = "ticket" /\ Payload(r) = Payload(s)'
      <3>1. Opener(s, n)
        BY <2>2, <2>4, <1>2, OpenerStep
      <3>2. s = r
        BY <2>1, <2>2, <3>1 DEF OneOpener
      <3>3. pc'[s] # "respond"
        BY <2>4 DEF Opener, AfterOpening
      <3> QED BY <1>5, <3>2, <3>3
    <2>5. JobsOfOpeners'
      BY <1>1, <1>2, <1>3, <1>5, <2>1, <2>2, <2>4 DEF JobsOfOpeners
    <2>6. OneJobPerConversation'
      BY <1>5, <2>1, <2>3 DEF OneJobPerConversation
    <2> QED BY <2>5, <2>6
  <1> QED BY <1>4, <1>5, QueueStep

(***************************************************************************)
(* All jobs that ever leave Run for a conversation are one job, for any    *)
(* number of API processes and without help from their locks: only the run *)
(* that inserted the conversation enqueues, AUTO_INCREMENT gives each run  *)
(* a conversation of its own, and a job it retries is the same job.        *)
(***************************************************************************)
THEOREM OneJobLeavesRun == Spec => []OneJobPerConversation
<1>1. Init => JobInv
  <2> SUFFICES ASSUME Init PROVE JobInv
    OBVIOUS
  <2> QED BY TypeInit DEF Init, JobInv, FreshConversations, OneOpener, Opener, AfterOpening,
             JobsOfOpeners, OneJobPerConversation
<1>2. JobInv /\ [Next]_vars => JobInv'
  BY TypeNext, FreshNext, OneOpenerNext, JobsNext DEF JobInv
<1>3. JobInv => OneJobPerConversation
  BY DEF JobInv
<1> QED BY <1>1, <1>2, <1>3, PTL DEF Spec

-----------------------------------------------------------------------------
(***************************************************************************)
(* NoOrphanMessage.  A clean-up deletes the conversation its own run       *)
(* opened.  Another run may have joined it meanwhile, through a message    *)
(* stored in it or as the pending conversation of its customer; in the     *)
(* first case it is not empty, in the second both runs need one mutex, if  *)
(* they run in one process.                                                *)
(***************************************************************************)

\* The conversation a message is about to join, or that is about to be cleaned up, is
\* there, and has a message or belongs to the account and the customer of the run.
Owned(s) ==
    pc[s] \in {"store", "cleanup"} =>
        \E c \in convs :
            /\ c.id = job[s].conv
            /\ \/ RowsIn(c.id) # {}
               \/ c.acct = job[s].acct /\ c.customer = CustomerOf[Msg(s)]

RunsOwn == \A s \in Request : Owned(s)

RowsHaveConversations == \A w \in rows : \E c \in convs : c.id = w.conv

OrphanInv ==
    /\ TypeOK
    /\ FreshConversations
    /\ HoldsLock
    /\ RunsOwn
    /\ RowsHaveConversations

\* A conversation stays, or an empty one is taken away by the run that cleans up.
LEMMA ConvsKept ==
  ASSUME TypeOK, [Next]_vars, NEW c \in convs
  PROVE  \/ \E d \in convs' : d.id = c.id /\ d.acct = c.acct /\ d.customer = c.customer
         \/ \E r \in Request : CleanupConversation(r) /\ c.id = job[r].conv /\ RowsIn(c.id) = {}
  <1> DEFINE Goal ==
         \/ \E d \in convs' : d.id = c.id /\ d.acct = c.acct /\ d.customer = c.customer
         \/ \E r \in Request : CleanupConversation(r) /\ c.id = job[r].conv /\ RowsIn(c.id) = {}
  <1>1. ASSUME convs \subseteq convs' PROVE Goal
    BY <1>1
  <1>2. ASSUME NEW r \in Request, CreateConversation(r) PROVE Goal
    BY <1>1, <1>2 DEF CreateConversation, InsertConversation
  <1>3. ASSUME NEW e \in convs, CloseConversation(e) PROVE Goal
    <2> DEFINE closed == [e EXCEPT !.open = FALSE]
    <2>1. closed.id = e.id /\ closed.acct = e.acct /\ closed.customer = e.customer
      BY DEF TypeOK, ConvRow
    <2>2. convs' = (convs \ {e}) \cup {closed}
      BY <1>3 DEF CloseConversation
    <2> HIDE DEF closed
    <2> QED BY <2>1, <2>2
  <1>4. ASSUME NEW r \in Request, CleanupConversation(r) PROVE Goal
    <2>1. \/ convs' = {d \in convs : ~(d.id = job[r].conv /\ d.open /\ RowsIn(d.id) = {})}
          \/ convs' = convs
      BY <1>4 DEF CleanupConversation
    <2>2. CASE c \in convs'
      BY <2>2
    <2>3. CASE c.id = job[r].conv /\ RowsIn(c.id) = {}
      BY <1>4, <2>3
    <2> QED BY <2>1, <2>2, <2>3
  <1> QED
    BY <1>1, <1>2, <1>3, <1>4 DEF Next, Run, vars, tables, queues, senders, Deliver, ResolveAccount,
       AcquireLock, FindExisting, ResolveThread, SelectPending, StoreMessage, AssessIntake,
       EnqueueTicket, Respond, Cancel, Crash

LEMMA RowsGrow ==
  ASSUME [Next]_vars
  PROVE  rows \subseteq rows'
  BY RowsStep DEF InsertRow

\* Two runs of one process that own one empty conversation are one.
LEMMA EmptyIsShared ==
  ASSUME OrphanInv, NEW r \in Request, NEW s \in Request, ProcOf[r] = ProcOf[s],
         {pc[r], pc[s]} \subseteq {"store", "cleanup"}, job[r].conv = job[s].conv,
         RowsIn(job[r].conv) = {}
  PROVE  r = s
  <1>1. PICK c \in convs : c.id = job[r].conv /\ c.acct = job[r].acct
                           /\ c.customer = CustomerOf[Msg(r)]
    BY DEF OrphanInv, RunsOwn, Owned
  <1>2. PICK d \in convs : d.id = job[s].conv /\ d.acct = job[s].acct
                           /\ d.customer = CustomerOf[Msg(s)]
    BY DEF OrphanInv, RunsOwn, Owned
  <1>3. LockKey(r) = LockKey(s)
    BY <1>1, <1>2 DEF OrphanInv, FreshConversations, LockKey
  <1>4. lock[LockKey(r)] = r /\ lock[LockKey(s)] = s
    BY DEF OrphanInv, HoldsLock, Critical
  <1> QED BY <1>3, <1>4

LEMMA OwnsNext ==
  ASSUME OrphanInv, [Next]_vars, \A r, s \in Request : ProcOf[r] = ProcOf[s]
  PROVE  RunsOwn'
  <1> SUFFICES ASSUME NEW s \in Request, pc'[s] \in {"store", "cleanup"}
               PROVE  \E d \in convs' :
                         /\ d.id = job'[s].conv
                         /\ \/ \E w \in rows' : w.conv = d.id
                            \/ d.acct = job'[s].acct /\ d.customer = CustomerOf[job'[s].msg]
    BY DEF RunsOwn, Owned, RowsIn, Msg
  <1>0. TypeOK /\ rows \subseteq rows' /\ job[s] \in Job
    BY RowsGrow DEF OrphanInv, TypeOK
  <1>1. Rests(s) \/ Joins(s) \/ Founds(s) \/ Follows(s)
    BY <1>0, RequestStep DEF Moves, Leaves, Searches, Critical
  <1>2. CASE pc[s] \in {"store", "cleanup"} /\ job'[s].conv = job[s].conv
             /\ job'[s].acct = job[s].acct /\ job'[s].msg = job[s].msg
    <2>1. PICK c \in convs :
            /\ c.id = job[s].conv
            /\ RowsIn(c.id) # {} \/ (c.acct = job[s].acct /\ c.customer = CustomerOf[Msg(s)])
      BY <1>2 DEF OrphanInv, RunsOwn, Owned
    <2>2. ASSUME NEW r \in Request, CleanupConversation(r), c.id = job[r].conv, RowsIn(c.id) = {}
          PROVE  FALSE
      <3>1. pc[r] = "cleanup" /\ pc'[r] = "respond"
        BY <1>0, <2>2, MovesTo DEF CleanupConversation, Return
      <3>2. r = s
        BY <1>2, <2>1, <2>2, <3>1, EmptyIsShared
      <3> QED BY <3>1, <3>2
    <2>3. PICK d \in convs' : d.id = c.id /\ d.acct = c.acct /\ d.customer = c.customer
      BY <1>0, <2>2, ConvsKept
    <2> QED BY <1>0, <1>2, <2>1, <2>3 DEF RowsIn, Msg
  <1>3. CASE Joins(s)
    <2>1. CASE \E w \in rows : StoredFor(w, CompanyFor(s)) /\ job'[s] = WithConversation(s, w.conv, FALSE)
      <3>1. PICK w \in rows : StoredFor(w, CompanyFor(s)) /\ job'[s] = WithConversation(s, w.conv, FALSE)
        BY <2>1
      <3>2. job'[s].conv = w.conv
        BY <1>0, <3>1 DEF Job, WithConversation
      <3>3. \E c \in convs : c.id = w.conv
        BY <3>1 DEF StoredFor
      <3> QED BY <1>0, <1>3, <3>2, <3>3 DEF Joins
    <2>2. CASE \E c \in PendingFor(s) : job'[s] = WithConversation(s, c.id, FALSE)
      <3>1. PICK c \in PendingFor(s) : job'[s] = WithConversation(s, c.id, FALSE)
        BY <2>2
      <3>2. c \in convs /\ c.acct = job[s].acct /\ c.customer = CustomerOf[Msg(s)] /\ c.id \in Nat
        BY <1>0, <3>1 DEF PendingFor, TypeOK, ConvRow
      <3>3. job'[s].conv = c.id /\ job'[s].acct = job[s].acct /\ job'[s].msg = job[s].msg
        BY <1>0, <3>1 DEF Job, WithConversation
      <3> QED BY <1>3, <3>2, <3>3 DEF Joins, Msg
    <2> QED BY <1>3, <2>1, <2>2 DEF Joins
  <1>4. CASE Founds(s)
    <2> DEFINE new == NewConversation(s)
    <2>1. /\ new \in convs' /\ new.id = nextConv /\ new.acct = job[s].acct
          /\ new.customer = CustomerOf[Msg(s)]
      BY <1>4 DEF Founds, NewConversation
    <2>2. job'[s].conv = nextConv /\ job'[s].acct = job[s].acct /\ job'[s].msg = job[s].msg
      BY <1>0, <1>4 DEF Founds, Job, WithConversation
    <2> HIDE DEF new
    <2> QED BY <2>1, <2>2 DEF Msg
  <1> QED BY <1>1, <1>2, <1>3, <1>4 DEF Rests, Follows

LEMMA RowsKeepNext ==
  ASSUME OrphanInv, [Next]_vars
  PROVE  RowsHaveConversations'
  <1> SUFFICES ASSUME NEW w \in rows' PROVE \E d \in convs' : d.id = w.conv
    BY DEF RowsHaveConversations
  <1>1. CASE w \in rows
    <2>1. PICK c \in convs : c.id = w.conv
      BY <1>1 DEF OrphanInv, RowsHaveConversations
    <2>2. RowsIn(c.id) # {}
      BY <1>1, <2>1 DEF RowsIn
    <2> QED BY <2>1, <2>2, ConvsKept DEF OrphanInv
  <1>2. CASE w \notin rows
    <2>1. PICK r \in Request : StoreMessage(r) /\ InsertRow(r)
      BY <1>2, RowsStep
    <2>2. w.conv = job[r].conv /\ pc[r] = "store" /\ convs' = convs
      BY <1>2, <2>1 DEF StoreMessage, InsertRow
    <2> QED BY <2>2 DEF OrphanInv, RunsOwn, Owned
  <1> QED BY <1>1, <1>2

(***************************************************************************)
(* No clean-up takes a conversation away from a message that is stored or  *)
(* about to be, whatever fails, is cancelled or crashes, when one process  *)
(* serves the deliveries: resolveConversation and the clean-up then run    *)
(* under one mutex for one account and customer.                           *)
(***************************************************************************)
THEOREM MessagesKeepTheirConversation ==
  ASSUME \A r, s \in Request : ProcOf[r] = ProcOf[s]
  PROVE  Spec => []NoOrphanMessage
<1>1. Init => OrphanInv
  <2> SUFFICES ASSUME Init PROVE OrphanInv
    OBVIOUS
  <2> QED BY TypeInit DEF Init, OrphanInv, FreshConversations, HoldsLock, RunsOwn, Owned,
             RowsHaveConversations, Critical
<1>2. OrphanInv /\ [Next]_vars => OrphanInv'
  BY TypeNext, FreshNext, HoldsNext, OwnsNext, RowsKeepNext DEF OrphanInv
<1>3. OrphanInv => NoOrphanMessage
  BY DEF OrphanInv, RunsOwn, Owned, RowsHaveConversations, NoOrphanMessage
<1> QED BY <1>1, <1>2, <1>3, PTL DEF Spec

-----------------------------------------------------------------------------
(***************************************************************************)
(* The inductive invariant.                                                *)
(***************************************************************************)

\* The jobs waiting for the worker, and those its goroutines have in hand.
InHand == {slot[w].task.job : w \in {v \in Slot : slot[v] # W!Idle}}

Jobs == assessQ \cup ticketQ \cup InHand

SlotsTyped == slot \in [Slot -> {W!Idle} \cup W!Busy]

\* AUTO_INCREMENT of messages: a row is told by its identifier, and the rows of a
\* conversation have a first one.
RowsInOrder ==
    /\ \A w \in rows : w.id < nextRow
    /\ \A v, w \in rows : v.id = w.id => v = w
    /\ \A w \in rows : Oldest(RowsIn(w.conv)) # {}

\* Who opened a conversation stores its first message.
OpenersStoreFirst ==
    \A r \in Request : job[r].created =>
        /\ pc[r] = "store" => RowsIn(job[r].conv) = {}
        /\ pc[r] \in {"assess", "ticket"} =>
              \E w \in Oldest(RowsIn(job[r].conv)) : w.id = job[r].row /\ w.ext = Msg(r)

\* A job is about the message that opened its conversation, and names the channel of it,
\* unless the conversation was assessed by hand and the job calls the message an e-mail.
AboutOpening(j, w) == j.channel = ChannelOf[w.ext] /\ w \in Oldest(RowsIn(j.conv))

AskedFor(j) == j.channel = "email" /\ j.conv \in byHand

IsDue(j) == \E w \in RowsIn(j.conv) : w.id = j.row /\ (AskedFor(j) \/ AboutOpening(j, w))

JobsAreDue == \A j \in Jobs : IsDue(j)

\* A ticket names a row of its conversation.
TicketsNameRows == \A key \in tickets : \E w \in RowsIn(key[2]) : w.id = key[3]

AskedHaveRows == \A c \in byHand : RowsIn(c) # {}

IntakeInv ==
    /\ OnceInv /\ RunsOwn /\ RowsHaveConversations
    /\ SlotsTyped /\ RowsInOrder /\ OpenersStoreFirst
    /\ JobsAreDue /\ TicketsNameRows /\ AskedHaveRows

LEMMA InvOrphan ==
  ASSUME IntakeInv
  PROVE  OrphanInv /\ TypeOK
  BY DEF IntakeInv, OnceInv, DedupInv, OrphanInv

-----------------------------------------------------------------------------
(***************************************************************************)
(* The worker: it has no jobs but those it is given, and makes tickets of  *)
(* no others.                                                              *)
(***************************************************************************)
LEMMA JobsTyped ==
  ASSUME TypeOK, SlotsTyped
  PROVE  Jobs \subseteq QueueJob
  <1>1. ASSUME NEW w \in Slot, slot[w] # W!Idle PROVE slot[w].task.job \in QueueJob
    BY <1>1 DEF SlotsTyped, W!Busy, W!AllTasks
  <1> QED BY <1>1 DEF Jobs, InHand, TypeOK

\* The task of a goroutine that is at work.
LEMMA AtWork ==
  ASSUME SlotsTyped, NEW w \in Slot, NEW call, W!At(w, call), call # "idle"
  PROVE  slot[w] \in W!Busy /\ slot[w].task.job \in Jobs
  <1>1. slot[w] # W!Idle
    BY DEF W!At, W!Idle
  <1> QED BY <1>1 DEF SlotsTyped, Jobs, InHand

\* One goroutine goes on, or is idle.
LEMMA SlotMoves ==
  ASSUME SlotsTyped, NEW w \in Slot, NEW x \in {W!Idle} \cup W!Busy,
         slot' = [slot EXCEPT ![w] = x], x = W!Idle \/ x.task.job \in Jobs,
         assessQ' \cup ticketQ' \subseteq Jobs
  PROVE  SlotsTyped' /\ Jobs' \subseteq Jobs
  <1>1. SlotsTyped'
    BY DEF SlotsTyped
  <1>2. ASSUME NEW v \in Slot, slot'[v] # W!Idle PROVE slot'[v].task.job \in Jobs
    <2>1. CASE v = w
      BY <1>2, <2>1 DEF SlotsTyped
    <2>2. CASE v # w
      BY <1>2, <2>2 DEF SlotsTyped, Jobs, InHand
    <2> QED BY <2>1, <2>2
  <1> QED BY <1>1, <1>2 DEF Jobs, InHand, W!Idle

LEMMA Proceeds ==
  ASSUME SlotsTyped, NEW w \in Slot, NEW call \in {"promote", "done"}, slot[w] \in W!Busy,
         slot[w].task.job \in Jobs, W!Proceed(w, call), assessQ' \cup ticketQ' \subseteq Jobs
  PROVE  SlotsTyped' /\ Jobs' \subseteq Jobs
  <1> DEFINE x == [slot[w] EXCEPT !.at = call]
  <1>1. x \in W!Busy /\ x.task.job \in Jobs
    BY DEF W!Busy
  <1>2. slot' = [slot EXCEPT ![w] = x]
    BY DEF W!Proceed
  <1> HIDE DEF x
  <1> QED BY <1>1, <1>2, SlotMoves

LEMMA Fails ==
  ASSUME SlotsTyped, NEW w \in Slot, NEW jobs, jobs \subseteq Jobs, W!ReturnError(w, jobs)
  PROVE  SlotsTyped' /\ Jobs' \subseteq Jobs
  <1>1. slot' = [slot EXCEPT ![w] = W!Idle]
    BY DEF W!ReturnError
  <1>2. assessQ' \cup ticketQ' \subseteq Jobs
    BY DEF W!ReturnError, W!Fail, Jobs
  <1> QED BY <1>1, <1>2, SlotMoves

LEMMA WorkerStep ==
  ASSUME TypeOK, SlotsTyped, WorkerNext
  PROVE  /\ SlotsTyped' /\ Jobs' \subseteq Jobs
         /\ \/ tickets' = tickets
            \/ \E j \in Jobs : tickets' = tickets \cup {W!IdempotencyKey(j)}
         /\ DOMAIN intake' \in SUBSET Nat /\ \A c \in DOMAIN intake' : intake'[c] \in Verdict
  <1> DEFINE Kept == SlotsTyped' /\ Jobs' \subseteq Jobs
             Posted == \/ tickets' = tickets
                       \/ \E j \in Jobs : tickets' = tickets \cup {W!IdempotencyKey(j)}
             Assessed == DOMAIN intake' \in SUBSET Nat
                         /\ \A c \in DOMAIN intake' : intake'[c] \in Verdict
  <1>0. assessQ \cup ticketQ \subseteq Jobs /\ (intake' = intake => Assessed)
    BY DEF Jobs, TypeOK
  <1>1. ASSUME NEW w \in Slot, W!Take(w) PROVE Kept /\ Posted /\ Assessed
    <2>1. PICK t \in W!Tasks :
             slot' = [slot EXCEPT ![w] =
                        [at |-> IF t.kind = "assess" THEN "assess" ELSE "deliver", task |-> t]]
      BY <1>1 DEF W!Take
    <2> DEFINE x == [at |-> IF t.kind = "assess" THEN "assess" ELSE "deliver", task |-> t]
    <2>2. t \in W!AllTasks /\ t.job \in Jobs
      BY DEF W!Tasks, W!Task, W!AllTasks, W!Kind, Jobs, TypeOK
    <2>3. x \in W!Busy /\ x.task.job \in Jobs
      BY <2>2 DEF W!Busy
    <2>4. slot' = [slot EXCEPT ![w] = x]
      BY <2>1
    <2> HIDE DEF x
    <2>5. UNCHANGED <<assessQ, ticketQ, intake, tickets>>
      BY <1>1 DEF W!Take, W!queues
    <2>6. Kept
      BY <1>0, <2>3, <2>4, <2>5, SlotMoves
    <2> QED BY <1>0, <2>5, <2>6
  <1>2. ASSUME NEW w \in Slot, W!Assess(w) PROVE Kept /\ Posted /\ Assessed
    <2>1. slot[w] \in W!Busy /\ slot[w].task.job \in Jobs /\ tickets' = tickets
      BY <1>2, AtWork DEF W!Assess
    <2>2. ASSUME NEW v \in Verdict, W!WriteCompleteness(W!JobOf(w).conv, v),
                 W!Proceed(w, IF v = "promote" THEN "promote" ELSE "done"),
                 UNCHANGED <<assessQ, ticketQ>>
          PROVE  Kept /\ Assessed
      <3>1. W!JobOf(w).conv \in Nat
        BY <2>1, JobsTyped DEF W!JobOf, QueueJob
      <3>2. Assessed
        BY <2>2, <3>1 DEF W!WriteCompleteness, TypeOK
      <3> QED BY <1>0, <2>1, <2>2, <3>2, Proceeds
    <2>3. ASSUME W!ReturnError(w, {}), UNCHANGED intake PROVE Kept /\ Assessed
      BY <1>0, <2>3, Fails
    <2> QED BY <1>2, <2>1, <2>2, <2>3 DEF W!Assess, W!queues, W!Verdict, Verdict
  <1>3. ASSUME NEW w \in Slot, W!Promote(w) PROVE Kept /\ Posted /\ Assessed
    <2>1. /\ slot[w] \in W!Busy /\ slot[w].task.job \in Jobs
          /\ tickets' = tickets /\ intake' = intake
      BY <1>3, AtWork DEF W!Promote
    <2>2. CASE ticketQ' = ticketQ \cup {W!JobOf(w)} /\ W!Proceed(w, "done") /\ assessQ' = assessQ
      BY <1>0, <2>1, <2>2, Proceeds DEF W!JobOf
    <2>3. CASE W!ReturnError(w, {})
      BY <2>1, <2>3, <1>0, Fails
    <2>4. CASE W!ReturnError(w, {W!JobOf(w)})
      BY <2>1, <2>4, <1>0, Fails DEF W!JobOf
    <2> QED BY <1>0, <1>3, <2>1, <2>2, <2>3, <2>4 DEF W!Promote
  <1>4. ASSUME NEW w \in Slot, W!Deliver(w) PROVE Kept /\ Posted /\ Assessed
    <2>1. slot[w] \in W!Busy /\ slot[w].task.job \in Jobs /\ intake' = intake
      BY <1>4, AtWork DEF W!Deliver
    <2>2. \/ W!Proceed(w, "done") /\ UNCHANGED <<assessQ, ticketQ>>
          \/ W!ReturnError(w, {})
      BY <1>4 DEF W!Deliver, W!queues
    <2>3. Kept
      BY <1>0, <2>1, <2>2, Proceeds, Fails
    <2>4. tickets' = tickets \/ tickets' = tickets \cup {W!IdempotencyKey(W!JobOf(w))}
      BY <1>4 DEF W!Deliver
    <2> QED BY <1>0, <2>1, <2>3, <2>4 DEF W!JobOf
  <1>5. ASSUME NEW w \in Slot, W!Done(w) PROVE Kept /\ Posted /\ Assessed
    <2>1. /\ slot' = [slot EXCEPT ![w] = W!Idle] /\ tickets' = tickets /\ intake' = intake
          /\ assessQ' \cup ticketQ' \subseteq Jobs
      BY <1>5 DEF W!Done, W!Discard, Jobs
    <2> QED BY <1>0, <2>1, SlotMoves
  <1>6. ASSUME W!Die PROVE Kept /\ Posted /\ Assessed
    <2>1. /\ slot' = [w \in Slot |-> W!Idle] /\ tickets' = tickets /\ intake' = intake
          /\ assessQ' \cup ticketQ' \subseteq assessQ \cup ticketQ
      BY <1>6 DEF W!Die, W!Fail
    <2> QED BY <1>0, <2>1 DEF SlotsTyped, Jobs, InHand
  <1>7. ASSUME NEW w \in Slot, W!Handle(w) PROVE Kept /\ Posted /\ Assessed
    <2> HIDE DEF Kept, Posted, Assessed
    <2> QED BY <1>1, <1>2, <1>3, <1>4, <1>5, <1>7 DEF W!Handle
  <1>8. Kept /\ Posted /\ Assessed
    <2>1. (\E w \in Slot : W!Handle(w)) \/ W!Die
      BY DEF WorkerNext, W!WorkerNext
    <2> HIDE DEF Kept, Posted, Assessed
    <2> QED BY <1>6, <1>7, <2>1
  <1> QED BY <1>8

-----------------------------------------------------------------------------
(***************************************************************************)
(* The API: rows come one at a time, behind those that are there.          *)
(***************************************************************************)
NewRow(r) == [id |-> nextRow, conv |-> job[r].conv, ext |-> Msg(r), via |-> LockKey(r)]

LEMMA Inserts ==
  ASSUME TypeOK, [Next]_vars
  PROVE  \/ rows' = rows /\ nextRow' = nextRow
         \/ \E r \in Request :
               /\ StoreMessage(r) /\ pc[r] = "store"
               /\ rows' = rows \cup {NewRow(r)} /\ nextRow' = nextRow + 1
               /\ convs' = convs /\ nextConv' = nextConv
  <1> DEFINE kept == rows' = rows /\ nextRow' = nextRow
             stored(r) == /\ StoreMessage(r) /\ pc[r] = "store"
                          /\ rows' = rows \cup {NewRow(r)} /\ nextRow' = nextRow + 1
                          /\ convs' = convs /\ nextConv' = nextConv
  <1>1. ASSUME NEW r \in Request, StoreMessage(r) PROVE kept \/ stored(r)
    BY <1>1 DEF StoreMessage, InsertRow, NewRow
  <1>2. ASSUME NEW r \in Request, ResolveAccount(r) \/ AcquireLock(r) \/ FindExisting(r) \/ ResolveThread(r)
        PROVE  kept
    BY <1>2 DEF ResolveAccount, AcquireLock, FindExisting, ResolveThread, tables
  <1>3. ASSUME NEW r \in Request, SelectPending(r) \/ CreateConversation(r) \/ CleanupConversation(r)
        PROVE  kept
    BY <1>3 DEF SelectPending, CreateConversation, CleanupConversation, tables
  <1>4. ASSUME NEW r \in Request, AssessIntake(r) \/ EnqueueTicket(r) \/ Respond(r) \/ Cancel(r)
        PROVE  kept
    BY <1>4 DEF AssessIntake, EnqueueTicket, Respond, Cancel, tables
  <1>5. ASSUME (\E r \in Request, m \in Message : Deliver(r, m)) \/ (\E p \in Proc : Crash(p))
               \/ (\E c \in convs : CloseConversation(c)) \/ UNCHANGED vars
        PROVE  kept
    BY <1>5 DEF Deliver, Crash, CloseConversation, vars, tables
  <1> HIDE DEF kept
  <1>6. kept \/ \E r \in Request : stored(r)
    <2> HIDE DEF stored
    <2> QED BY <1>1, <1>2, <1>3, <1>4, <1>5 DEF Next, Run
  <1> QED BY <1>6 DEF kept

LEMMA OldestKept ==
  ASSUME TypeOK, RowsInOrder, [Next]_vars, NEW conv, NEW w \in Oldest(RowsIn(conv))
  PROVE  w \in Oldest(RowsIn(conv))'
  <1>1. w \in rows /\ w.conv = conv /\ \A v \in rows : v.conv = conv => w.id <= v.id
    BY DEF Oldest, RowsIn
  <1>2. w.id < nextRow /\ w.id \in Nat /\ nextRow \in Nat
    BY <1>1 DEF RowsInOrder, TypeOK, MessageRow
  <1>3. w \in rows' /\ \A v \in rows' : v.conv = conv => w.id <= v.id
    <2>1. ASSUME NEW r \in Request, rows' = rows \cup {NewRow(r)}
          PROVE  \A v \in rows' : v \in rows \/ v.id = nextRow
      BY <2>1 DEF NewRow
    <2> QED BY <1>1, <1>2, <2>1, Inserts
  <1> QED BY <1>1, <1>3 DEF Oldest, RowsIn

LEMMA InOrderNext ==
  ASSUME TypeOK, RowsInOrder, [Next]_vars
  PROVE  RowsInOrder'
  <1>0. nextRow \in Nat /\ \A w \in rows : w.id \in Nat /\ w.id < nextRow
    BY DEF TypeOK, MessageRow, RowsInOrder
  <1>1. CASE rows' = rows /\ nextRow' = nextRow
    BY <1>1 DEF RowsInOrder, Oldest, RowsIn
  <1>2. ASSUME NEW r \in Request, rows' = rows \cup {NewRow(r)}, nextRow' = nextRow + 1
        PROVE  RowsInOrder'
    <2> DEFINE new == NewRow(r)
    <2>1. new.id = nextRow
      BY DEF NewRow
    <2>2. rows' = rows \cup {new}
      BY <1>2
    <2> HIDE DEF new
    <2>3. \A w \in rows' : w.id < nextRow'
      BY <1>0, <1>2, <2>1, <2>2
    <2>4. \A v, w \in rows' : v.id = w.id => v = w
      BY <1>0, <2>1, <2>2 DEF RowsInOrder
    <2>5. ASSUME NEW w \in rows' PROVE Oldest(RowsIn(w.conv))' # {}
      <3>1. CASE \E v \in rows : v.conv = w.conv
        <4>1. PICK v \in rows : v.conv = w.conv
          BY <3>1
        <4>2. PICK u \in Oldest(RowsIn(w.conv)) : TRUE
          BY <4>1 DEF RowsInOrder
        <4> QED BY <4>2, OldestKept
      <3>2. CASE ~ \E v \in rows : v.conv = w.conv
        <4>1. w = new /\ \A v \in rows' : v.conv = w.conv => v = w
          BY <2>2, <2>5, <3>2
        <4> QED BY <1>0, <2>1, <2>5, <4>1 DEF Oldest, RowsIn
      <3> QED BY <3>1, <3>2
    <2> QED BY <2>3, <2>4, <2>5 DEF RowsInOrder
  <1> QED BY <1>1, <1>2, Inserts

\* A request comes from the insert to what follows it by storing its message.
LEMMA StoreStep ==
  ASSUME TypeOK, [Next]_vars, NEW s \in Request, pc[s] = "store",
         pc'[s] \in {"assess", "ticket"}
  PROVE  StoreMessage(s)
  <1>1. ASSUME NEW r \in Request, NEW m \in Message, Deliver(r, m) PROVE FALSE
    BY <1>1, MovesTo, OthersStay DEF Deliver
  <1>2. ASSUME NEW r \in Request, Run(r) PROVE StoreMessage(s)
    <2>1. PICK step, j : Goto(r, step, j)
      BY <1>2 DEF Run, ResolveAccount, AcquireLock, FindExisting, ReturnDuplicate, Return,
         ResolveThread, SelectPending, CreateConversation, StoreMessage, FailInsert,
         CleanupConversation, AssessIntake, EnqueueTicket, Respond
    <2>2. r = s
      BY <2>1, OthersStay
    <2> QED
      BY <1>2, <2>2 DEF Run, ResolveAccount, AcquireLock, FindExisting, ResolveThread,
         SelectPending, CreateConversation, CleanupConversation, AssessIntake, EnqueueTicket,
         Respond
  <1>3. ASSUME NEW r \in Request, Cancel(r) PROVE FALSE
    <2>1. PICK j : Goto(r, "respond", j)
      BY <1>3 DEF Cancel, Return
    <2> QED BY <2>1, MovesTo, OthersStay
  <1>4. ASSUME NEW p \in Proc, Crash(p) PROVE FALSE
    BY <1>4 DEF Crash, TypeOK
  <1>5. ASSUME NEW c \in convs, CloseConversation(c) PROVE FALSE
    BY <1>5 DEF CloseConversation
  <1>6. CASE UNCHANGED vars
    BY <1>6 DEF vars
  <1> QED BY <1>1, <1>2, <1>3, <1>4, <1>5, <1>6 DEF Next

\* The first message of a conversation is stored in a row of its own.
LEMMA FirstIsStored ==
  ASSUME TypeOK, RowsInOrder, [Next]_vars, NEW s \in Request, StoreMessage(s),
         pc'[s] \in {"assess", "ticket"}, RowsIn(job[s].conv) = {}
  PROVE  /\ job'[s].row = nextRow
         /\ NewRow(s) \in rows' /\ NewRow(s).conv = job[s].conv /\ NewRow(s).id = nextRow
         /\ NewRow(s).ext = job[s].msg
         /\ \A v \in rows' : v.conv = job[s].conv => nextRow <= v.id
  <1> DEFINE same == {w \in RowsIn(job[s].conv) : w.ext = Msg(s)}
             next == IF IsEmail(s) THEN "assess" ELSE "ticket"
  <1>1. same = {} /\ Oldest(same) = {}
    BY DEF Oldest
  <1>2. ~FailInsert(s)
    BY MovesTo DEF FailInsert, Return
  <1>3. InsertRow(s) /\ Goto(s, next, [job[s] EXCEPT !.row = nextRow])
    BY <1>1, <1>2 DEF StoreMessage
  <1>4. job'[s] = [job[s] EXCEPT !.row = nextRow] /\ job[s] \in Job
    BY <1>3, MovesTo DEF TypeOK
  <1>5. /\ rows' = rows \cup {NewRow(s)} /\ NewRow(s).conv = job[s].conv
        /\ NewRow(s).id = nextRow /\ NewRow(s).ext = job[s].msg
    BY <1>3 DEF InsertRow, NewRow, Msg
  <1>6. \A v \in rows' : v.conv = job[s].conv => v = NewRow(s)
    BY <1>5 DEF RowsIn
  <1>7. nextRow \in Nat
    BY DEF TypeOK
  <1> QED BY <1>4, <1>5, <1>6, <1>7 DEF Job

LEMMA OpenersNext ==
  ASSUME IntakeInv, SingleProcess, [Next]_vars
  PROVE  OpenersStoreFirst'
  <1> USE InvOrphan
  <1> SUFFICES ASSUME NEW s \in Request, job'[s].created
               PROVE  /\ pc'[s] = "store" => \A v \in rows' : v.conv # job'[s].conv
                      /\ pc'[s] \in {"assess", "ticket"} =>
                            \E w \in rows' :
                               /\ w.conv = job'[s].conv /\ w.id = job'[s].row
                               /\ w.ext = job'[s].msg
                               /\ \A v \in rows' : v.conv = job'[s].conv => w.id <= v.id
    BY DEF OpenersStoreFirst, RowsIn, Oldest, Msg
  <1>0. job[s] \in Job /\ job[s].conv \in Nat /\ RowsInOrder /\ nextConv \in Nat
    BY DEF TypeOK, Job, IntakeInv
  <1>1. ASSUME pc[s] \in {"assess", "ticket"}, job[s].created
        PROVE  \E w \in rows' : /\ w.conv = job[s].conv /\ w.id = job[s].row
                                /\ w.ext = job[s].msg
                                /\ \A v \in rows' : v.conv = job[s].conv => w.id <= v.id
    <2>0. PICK conv \in Nat : conv = job[s].conv
      BY <1>0
    <2>1. PICK w \in Oldest(RowsIn(conv)) : w.id = job[s].row /\ w.ext = job[s].msg
      BY <2>0, <1>0, <1>1 DEF IntakeInv, OpenersStoreFirst, Msg
    <2>2. w \in Oldest(RowsIn(conv))'
      BY <1>0, <2>1, OldestKept
    <2> QED BY <2>0, <2>1, <2>2 DEF RowsIn, Oldest
  <1>2. CASE Rests(s)
    <2>1. ASSUME pc[s] = "store" PROVE \A v \in rows' : v.conv # job[s].conv
      <3>1. RowsIn(job[s].conv) = {}
        BY <1>2, <2>1 DEF IntakeInv, OpenersStoreFirst, Rests
      <3>2. ASSUME NEW r \in Request, StoreMessage(r), pc[r] = "store", job[r].conv = job[s].conv
            PROVE  FALSE
        <4>1. r = s
          BY <2>1, <3>1, <3>2, EmptyIsShared DEF SingleProcess
        <4>2. \/ \E j : Goto(r, IF IsEmail(r) THEN "assess" ELSE "ticket", j)
              \/ FailInsert(r)
          BY <3>2 DEF StoreMessage
        <4>3. pc'[r] # "store"
          BY <4>2, MovesTo DEF FailInsert, Return
        <4> QED BY <1>2, <2>1, <4>1, <4>3 DEF Rests
      <3> QED BY <3>1, <3>2, Inserts DEF RowsIn, NewRow
    <2> QED BY <1>1, <1>2, <2>1 DEF Rests
  <1>3. CASE Joins(s)
    <2>1. \/ \E w \in rows : job'[s] = WithConversation(s, w.conv, FALSE)
          \/ \E c \in PendingFor(s) : job'[s] = WithConversation(s, c.id, FALSE)
      BY <1>3 DEF Joins
    <2>2. ~job'[s].created
      BY <1>0, <2>1 DEF WithConversation, Job
    <2> QED BY <2>2
  <1>4. CASE Founds(s)
    <2>1. job'[s].conv = nextConv /\ pc'[s] = "store" /\ nextConv' # nextConv
      BY <1>0, <1>4 DEF Founds, WithConversation, Job
    <2>2. rows' = rows
      BY <2>1, Inserts
    <2>3. \A w \in rows : w.conv # nextConv
      BY <1>0 DEF OrphanInv, FreshConversations
    <2> QED BY <2>1, <2>2, <2>3
  <1>5. CASE Follows(s)
    <2>1. /\ job'[s].conv = job[s].conv /\ job[s].created /\ pc'[s] # "store"
          /\ job'[s].msg = job[s].msg
      BY <1>5 DEF Follows
    <2>2. CASE pc[s] = "store" /\ pc'[s] \in {"assess", "ticket"}
      <3>1. RowsIn(job[s].conv) = {}
        BY <2>1, <2>2 DEF IntakeInv, OpenersStoreFirst
      <3>2. StoreMessage(s)
        BY <2>2, StoreStep
      <3>3. /\ job'[s].row = nextRow
            /\ NewRow(s) \in rows' /\ NewRow(s).conv = job[s].conv /\ NewRow(s).id = nextRow
            /\ NewRow(s).ext = job[s].msg
            /\ \A v \in rows' : v.conv = job[s].conv => nextRow <= v.id
        BY <1>0, <2>2, <3>1, <3>2, FirstIsStored
      <3> QED BY <2>1, <3>3
    <2>3. CASE pc[s] = "assess" /\ pc'[s] = "ticket" /\ job'[s].row = job[s].row
      BY <1>1, <2>1, <2>3
    <2>4. CASE pc'[s] = "cleanup"
      BY <2>4
    <2> QED BY <1>5, <2>1, <2>2, <2>3, <2>4 DEF Follows
  <1>6. CASE Leaves(s) \/ Searches(s)
    BY <1>6 DEF Leaves, Searches, Critical
  <1> QED BY <1>2, <1>3, <1>4, <1>5, <1>6, RequestStep DEF Moves

-----------------------------------------------------------------------------
(***************************************************************************)
(* The invariant is inductive.                                             *)
(***************************************************************************)
LEMMA RowsStay ==
  ASSUME TypeOK, [Next]_vars, NEW conv
  PROVE  RowsIn(conv) \subseteq RowsIn(conv)'
  BY RowsGrow DEF RowsIn

LEMMA DueKept ==
  ASSUME TypeOK, RowsInOrder, [Next]_vars, byHand' = byHand, NEW j, IsDue(j)
  PROVE  IsDue(j)'
  <1>1. PICK w \in RowsIn(j.conv) : w.id = j.row /\ (AskedFor(j) \/ AboutOpening(j, w))
    BY DEF IsDue
  <1>2. AboutOpening(j, w) => AboutOpening(j, w)'
    BY OldestKept DEF AboutOpening
  <1> QED BY <1>1, <1>2, RowsStay DEF IsDue, AskedFor

LEMMA ApiKeepsDue ==
  ASSUME IntakeInv, [Next]_vars, UNCHANGED <<worker, byHand>>
  PROVE  JobsAreDue'
  <1> SUFFICES ASSUME NEW j \in Jobs' PROVE IsDue(j)'
    BY DEF JobsAreDue
  <1>0. TypeOK /\ RowsInOrder /\ byHand' = byHand
    BY InvOrphan DEF IntakeInv
  <1>1. CASE j \in Jobs
    BY <1>0, <1>1, DueKept DEF IntakeInv, JobsAreDue
  <1>2. CASE j \notin Jobs
    <2>1. PICK r \in Request : j = Payload(r) /\ pc[r] \in {"assess", "ticket"} /\ job[r].created
      BY <1>0, <1>2, QueueStep DEF Jobs, InHand, worker
    <2>2. j.conv = job[r].conv /\ j.row = job[r].row /\ j.channel = ChannelOf[Msg(r)]
      BY <2>1 DEF Payload
    <2>3. IsDue(j)
      BY <2>1, <2>2 DEF IntakeInv, OpenersStoreFirst, IsDue, AboutOpening, Oldest
    <2> QED BY <1>0, <2>3, DueKept
  <1> QED BY <1>1, <1>2

LEMMA ApiKeepsInv ==
  ASSUME IntakeInv, SingleProcess, [Next]_vars, UNCHANGED <<worker, byHand>>
  PROVE  IntakeInv'
  <1>0. TypeOK /\ RowsInOrder /\ OrphanInv /\ byHand' = byHand /\ tickets' = tickets /\ slot' = slot
    BY InvOrphan DEF IntakeInv, worker
  <1>1. OnceInv' /\ RunsOwn' /\ RowsHaveConversations'
    BY <1>0, OnceNext, OwnsNext, RowsKeepNext DEF IntakeInv, SingleProcess
  <1>2. SlotsTyped' /\ RowsInOrder' /\ OpenersStoreFirst' /\ JobsAreDue'
    BY <1>0, InOrderNext, OpenersNext, ApiKeepsDue DEF IntakeInv, SlotsTyped
  <1>3. TicketsNameRows'
    <2> SUFFICES ASSUME NEW key \in tickets PROVE \E w \in RowsIn(key[2])' : w.id = key[3]
      BY <1>0 DEF TicketsNameRows, RowsIn
    <2>1. PICK w \in RowsIn(key[2]) : w.id = key[3]
      BY DEF IntakeInv, TicketsNameRows
    <2> QED BY <1>0, <2>1, RowsStay
  <1>4. AskedHaveRows'
    <2> SUFFICES ASSUME NEW c \in byHand PROVE RowsIn(c)' # {}
      BY <1>0 DEF AskedHaveRows, RowsIn
    <2>1. RowsIn(c) # {}
      BY DEF IntakeInv, AskedHaveRows
    <2> QED BY <1>0, <2>1, RowsStay
  <1> QED BY <1>1, <1>2, <1>3, <1>4 DEF IntakeInv

\* What the steps of the worker and of the operators leave alone.
ApiRests == UNCHANGED <<pc, job, lock, convs, rows, nextConv, nextRow, answered, attempts>>

LEMMA RestKeepsInv ==
  ASSUME IntakeInv, ApiRests, assessQ' \cup ticketQ' \subseteq QueueJob,
         DOMAIN intake' \in SUBSET Nat, \A c \in DOMAIN intake' : intake'[c] \in Verdict
  PROVE  /\ OnceInv' /\ RunsOwn' /\ RowsHaveConversations'
         /\ RowsInOrder' /\ OpenersStoreFirst'
  <1>1. TypeOK'
    BY InvOrphan DEF TypeOK, ApiRests
  <1>2. /\ FreshConversations' /\ HoldsLock' /\ JoinsOwnCompany' /\ StillUnstored'
        /\ StoredOncePerLock'
    BY DEF IntakeInv, OnceInv, DedupInv, ApiRests, FreshConversations, HoldsLock, LockKey, Msg,
       JoinsOwnCompany, CompanyFor, StillUnstored, StoredFor, StoredOncePerLock
  <1>3. AccountsResolved' /\ RowsByAccount' /\ RunsOwn' /\ RowsHaveConversations'
    BY DEF IntakeInv, OnceInv, ApiRests, AccountsResolved, Msg, RowsByAccount, StoredFor,
       RunsOwn, Owned, RowsIn, RowsHaveConversations
  <1>4. RowsInOrder' /\ OpenersStoreFirst'
    BY DEF IntakeInv, ApiRests, RowsInOrder, Oldest, RowsIn, OpenersStoreFirst, Msg
  <1> QED BY <1>1, <1>2, <1>3, <1>4 DEF OnceInv, DedupInv

LEMMA WorkerKeepsInv ==
  ASSUME IntakeInv, WorkerNext
  PROVE  IntakeInv'
  <1>0. TypeOK /\ SlotsTyped /\ ApiRests /\ byHand' = byHand
    BY InvOrphan DEF IntakeInv, WorkerNext, ApiRests, tables, senders
  <1>1. /\ SlotsTyped' /\ Jobs' \subseteq Jobs
        /\ \/ tickets' = tickets
           \/ \E j \in Jobs : tickets' = tickets \cup {W!IdempotencyKey(j)}
        /\ DOMAIN intake' \in SUBSET Nat /\ \A c \in DOMAIN intake' : intake'[c] \in Verdict
    BY <1>0, WorkerStep
  <1>2. assessQ' \cup ticketQ' \subseteq QueueJob
    BY <1>0, <1>1, JobsTyped DEF Jobs
  <1>3. \A j : IsDue(j)' <=> IsDue(j)
    BY <1>0 DEF ApiRests, IsDue, AskedFor, AboutOpening, Oldest, RowsIn
  <1>4. JobsAreDue'
    BY <1>1, <1>3 DEF IntakeInv, JobsAreDue
  <1>5. TicketsNameRows' /\ AskedHaveRows'
    <2>1. \A j \in Jobs : \E w \in RowsIn(j.conv) : w.id = j.row
      BY DEF IntakeInv, JobsAreDue, IsDue
    <2>2. \A j : W!IdempotencyKey(j)[2] = j.conv /\ W!IdempotencyKey(j)[3] = j.row
      BY DEF W!IdempotencyKey
    <2>3. \A key \in tickets' : \E w \in rows : w.conv = key[2] /\ w.id = key[3]
      BY <1>1, <2>1, <2>2 DEF IntakeInv, TicketsNameRows, RowsIn
    <2> QED BY <1>0, <2>3 DEF ApiRests, TicketsNameRows, AskedHaveRows, RowsIn, IntakeInv
  <1> QED BY <1>0, <1>1, <1>2, <1>4, <1>5, RestKeepsInv DEF IntakeInv

LEMMA ReassessKeepsInv ==
  ASSUME IntakeInv, NEW c \in convs, Reassess(c)
  PROVE  IntakeInv'
  <1>1. PICK w \in Newest(RowsIn(c.id)) :
           assessQ' = assessQ \cup {[channel |-> "email", conv |-> c.id, row |-> w.id,
                                     ext |-> w.ext]}
    BY DEF Reassess
  <1> DEFINE new == [channel |-> "email", conv |-> c.id, row |-> w.id, ext |-> w.ext]
  <1>2. TypeOK /\ w \in rows /\ w.conv = c.id
    BY InvOrphan DEF Newest, RowsIn
  <1>3. /\ ApiRests /\ UNCHANGED <<intake, ticketQ, slot, tickets>> /\ byHand' = byHand \cup {c.id}
    BY DEF Reassess, ApiRests, tables, senders, worker
  <1>4. new \in QueueJob
    BY <1>2 DEF TypeOK, MessageRow, ConvRow, QueueJob, Channel
  <1>5. /\ new.conv = c.id /\ new.row = w.id /\ new.channel = "email"
        /\ assessQ' = assessQ \cup {new}
    BY <1>1
  <1> HIDE DEF new
  <1>6. assessQ' \cup ticketQ' \subseteq QueueJob
    BY <1>2, <1>3, <1>4, <1>5 DEF TypeOK
  <1>7. Jobs' = Jobs \cup {new}
    BY <1>3, <1>5 DEF Jobs, InHand
  <1>8. \A j : IsDue(j) => IsDue(j)'
    BY <1>3 DEF ApiRests, IsDue, AskedFor, AboutOpening, Oldest, RowsIn
  <1>9. IsDue(new)'
    BY <1>2, <1>3, <1>5 DEF ApiRests, IsDue, AskedFor, RowsIn
  <1>10. JobsAreDue'
    BY <1>7, <1>8, <1>9 DEF IntakeInv, JobsAreDue
  <1>11. SlotsTyped' /\ TicketsNameRows' /\ AskedHaveRows'
    BY <1>2, <1>3 DEF ApiRests, SlotsTyped, TicketsNameRows, AskedHaveRows, RowsIn, IntakeInv
  <1>12. DOMAIN intake' \in SUBSET Nat /\ \A d \in DOMAIN intake' : intake'[d] \in Verdict
    BY <1>2, <1>3 DEF TypeOK
  <1> QED BY <1>3, <1>6, <1>10, <1>11, <1>12, RestKeepsInv DEF IntakeInv

LEMMA IntakeInit == PipelineInit => IntakeInv
  <1> SUFFICES ASSUME PipelineInit PROVE IntakeInv
    OBVIOUS
  <1>1. OnceInv /\ rows = {} /\ assessQ = {} /\ ticketQ = {} /\ tickets = {} /\ byHand = {}
        /\ (\A r \in Request : pc[r] = "idle") /\ slot = [w \in Slot |-> W!Idle]
    BY OnceInit DEF PipelineInit, Init, W!WorkerInit
  <1> QED BY <1>1 DEF IntakeInv, RunsOwn, Owned, RowsHaveConversations, SlotsTyped, RowsInOrder,
             OpenersStoreFirst, JobsAreDue, Jobs, InHand, TicketsNameRows, AskedHaveRows

LEMMA IntakeNext ==
  ASSUME IntakeInv, SingleProcess, [PipelineNext]_pipeline
  PROVE  IntakeInv'
  <1>1. CASE Next /\ UNCHANGED <<worker, byHand>>
    BY <1>1, ApiKeepsInv
  <1>2. CASE \E c \in convs : Reassess(c)
    BY <1>2, ReassessKeepsInv
  <1>3. CASE WorkerNext
    BY <1>3, WorkerKeepsInv
  <1>4. CASE UNCHANGED pipeline
    BY <1>4, ApiKeepsInv DEF pipeline
  <1> QED BY <1>1, <1>2, <1>3, <1>4 DEF PipelineNext, ApiNext

-----------------------------------------------------------------------------
(***************************************************************************)
(* The refinement: what a step does to the threads and the tickets.        *)
(***************************************************************************)

\* A stored row is stored for the companies it was stored for.
LEMMA StoredForKept ==
  ASSUME IntakeInv, [Next]_vars, NEW w \in rows
  PROVE  StoredFor(w, Tenant)' <=> StoredFor(w, Tenant)
  <1>0. OrphanInv /\ TypeOK
    BY InvOrphan
  <1>1. StoredFor(w, Tenant)' => StoredFor(w, Tenant)
    BY <1>0, StoredForStep DEF OrphanInv
  <1>2. ASSUME StoredFor(w, Tenant) PROVE StoredFor(w, Tenant)'
    <2>1. PICK c \in convs : c.id = w.conv /\ CompanyOf[c.acct] = Tenant
      BY <1>2 DEF StoredFor
    <2>2. RowsIn(c.id) # {}
      BY <2>1 DEF RowsIn
    <2>3. PICK d \in convs' : d.id = c.id /\ d.acct = c.acct
      BY <1>0, <2>2, ConvsKept
    <2> QED BY <2>1, <2>3 DEF StoredFor
  <1> QED BY <1>1, <1>2

\* A row is named by its identifier, and the first row of a conversation opened it.
LEMMA RowNamed ==
  ASSUME RowsInOrder, NEW w \in rows
  PROVE  MessageOf(w.id) = w.ext
  <1>1. \E v \in rows : v.id = w.id
    OBVIOUS
  <1>2. (CHOOSE v \in rows : v.id = w.id) = w
    BY <1>1 DEF RowsInOrder
  <1> QED BY <1>2 DEF MessageOf

LEMMA FirstOpens ==
  ASSUME TypeOK, RowsInOrder, NEW conv \in Threaded, NEW w \in Oldest(RowsIn(conv))
  PROVE  Openings[conv] = w.ext
  <1>1. \A v \in Oldest(RowsIn(conv)) : v = w
    <2>1. \A v \in Oldest(RowsIn(conv)) : v \in rows /\ v.id \in Nat /\ v.id <= w.id /\ w.id <= v.id
      BY DEF Oldest, RowsIn, TypeOK, MessageRow
    <2> QED BY <2>1 DEF RowsInOrder
  <1>2. (CHOOSE v \in Oldest(RowsIn(conv)) : TRUE) = w
    BY <1>1
  <1> QED BY <1>2 DEF Openings

\* A thread is a conversation with rows, whose conversations are the company's.
LEMMA InThread ==
  ASSUME NEW w \in rows
  PROVE  StoredFor(w, Tenant) <=> w.conv \in Threaded
  BY DEF Threaded, StoredFor

\* The conversations the tickets of the company are about.
TicketConv(key) == \E c \in convs : c.id = key[2] /\ CompanyOf[c.acct] = Tenant

LEMMA TicketConvs ==
  ASSUME IntakeInv, NEW key \in tickets
  PROVE  \E w \in rows : w.conv = key[2] /\ w.id = key[3]
                         /\ (TicketConv(key) <=> StoredFor(w, Tenant))
  <1>1. PICK w \in RowsIn(key[2]) : w.id = key[3]
    BY DEF IntakeInv, TicketsNameRows
  <1> QED BY <1>1 DEF RowsIn, TicketConv, StoredFor

\* Steps that store no row and make no ticket leave the threads as they are.
LEMMA ThreadsStay ==
  ASSUME IntakeInv, rows' = rows, tickets' = tickets, byHand' = byHand,
         \A w \in rows : StoredFor(w, Tenant)' <=> StoredFor(w, Tenant)
  PROVE  UNCHANGED Intake!vars
  <1>1. Threaded' = Threaded
    BY DEF Threaded
  <1>2. Threads' = Threads /\ Openings' = Openings
    BY <1>1 DEF Threads, Openings, RowsIn, Oldest
  <1>3. \A n : MessageOf(n)' = MessageOf(n)
    BY DEF MessageOf
  <1>4. ASSUME NEW key \in tickets PROVE TicketConv(key)' <=> TicketConv(key)
    <2>1. PICK w \in rows : w.conv = key[2] /\ (TicketConv(key) <=> StoredFor(w, Tenant))
      BY TicketConvs
    <2>2. TicketConv(key)' <=> StoredFor(w, Tenant)'
      BY <2>1 DEF TicketConv, StoredFor
    <2> QED BY <2>1, <2>2
  <1>5. Ticketed' = Ticketed
    BY <1>3, <1>4 DEF Ticketed, TicketConv
  <1> QED BY <1>1, <1>2, <1>5 DEF Intake!vars

\* The message of a row that is about to be stored is in no thread yet.
LEMMA NotKept ==
  ASSUME IntakeInv, SingleProcess, SingleAccounts, NEW r \in Request, pc[r] = "store",
         CompanyFor(r) = Tenant, Tenant \in Company
  PROVE  Msg(r) \notin Intake!Kept
  <1>1. ASSUME NEW w \in rows, w.ext = Msg(r), StoredFor(w, Tenant) PROVE FALSE
    <2>1. job[r].acct \in AccountsOf[w.ext] /\ w.ext \in Message /\ CompanyOf[job[r].acct] = Tenant
      <3>1. TypeOK
        BY InvOrphan
      <3> QED BY <1>1, <3>1 DEF IntakeInv, OnceInv, AccountsResolved, Critical, TypeOK, MessageRow,
                                CompanyFor
    <2>2. OnceInv
      BY DEF IntakeInv
    <2>3. w.via = LockKey(r)
      <3>1. PICK a \in AccountsOf[w.ext] : a = job[r].acct
        BY <2>1
      <3>2. w.via = <<ProcOf[r], StripeOf[<<a, CustomerOf[w.ext]>>]>>
        BY <1>1, <2>1, <2>2, <3>1, SameVia
      <3> QED BY <1>1, <3>1, <3>2 DEF LockKey
    <2> QED BY <1>1, <2>2, <2>3 DEF OnceInv, DedupInv, StillUnstored
  <1>2. ASSUME NEW conv \in Threaded, NEW w \in RowsIn(conv) PROVE w.ext # Msg(r)
    <2>1. StoredFor(w, Tenant) /\ w \in rows
      BY <1>2, InThread DEF RowsIn
    <2> QED BY <1>1, <2>1
  <1> QED BY <1>2 DEF Intake!Kept, Threads

\* Tickets and requests by hand are not touched by a row that is stored.
LEMMA OthersOfInsert ==
  ASSUME IntakeInv, NEW r \in Request, rows' = rows \cup {NewRow(r)}, convs' = convs,
         tickets' = tickets
  PROVE  /\ Ticketed' = Ticketed
         /\ \A conv : RowsIn(conv)' = IF conv = job[r].conv THEN RowsIn(conv) \cup {NewRow(r)}
                                                             ELSE RowsIn(conv)
  <1> DEFINE new == NewRow(r)
  <1>1. new.id = nextRow /\ new.conv = job[r].conv /\ rows' = rows \cup {new}
    BY DEF NewRow
  <1> HIDE DEF new
  <1>2. ASSUME NEW key \in tickets PROVE MessageOf(key[3])' = MessageOf(key[3])
    <2>1. PICK w \in rows : w.conv = key[2] /\ w.id = key[3]
      BY TicketConvs
    <2>2. w.id \in Nat /\ nextRow \in Nat /\ w.id < nextRow
      BY InvOrphan DEF IntakeInv, RowsInOrder, TypeOK, MessageRow
    <2>3. \A v : v \in rows' /\ v.id = key[3] <=> v \in rows /\ v.id = key[3]
      BY <1>1, <2>1, <2>2
    <2>4. \A v \in rows : v.id = key[3] => v = w
      BY <2>1 DEF IntakeInv, RowsInOrder
    <2>5. (CHOOSE v \in rows : v.id = key[3]) = w
      BY <2>1, <2>4
    <2>6. (CHOOSE v \in rows' : v.id = key[3]) = w
      BY <2>1, <2>3, <2>4
    <2> QED BY <2>5, <2>6 DEF MessageOf
  <1>3. Ticketed' = Ticketed
    BY <1>2 DEF Ticketed
  <1>4. \A conv : RowsIn(conv)' = IF conv = job[r].conv THEN RowsIn(conv) \cup {new} ELSE RowsIn(conv)
    BY <1>1 DEF RowsIn
  <1> QED BY <1>3, <1>4 DEF new

(***************************************************************************)
(* InsertMessage opens a thread of the company, joins one, or is the       *)
(* business of another company.                                            *)
(***************************************************************************)
LEMMA InsertImplements ==
  ASSUME IntakeInv, SingleProcess, SingleAccounts, NEW r \in Request, pc[r] = "store",
         rows' = rows \cup {NewRow(r)}, convs' = convs, tickets' = tickets, byHand' = byHand
  PROVE  UNCHANGED Intake!vars \/ Intake!Next
  <1>0. TypeOK /\ RowsInOrder /\ Msg(r) \in Message /\ nextRow \in Nat
    BY InvOrphan DEF IntakeInv, TypeOK, Job, Msg
  <1> DEFINE new == NewRow(r)
  <1>1. new.conv = job[r].conv /\ new.ext = Msg(r) /\ new.id = nextRow
    BY DEF NewRow
  <1>2. Ticketed' = Ticketed
    BY OthersOfInsert
  <1>3. PICK n : n = job[r].conv
    OBVIOUS
  <1>4. /\ RowsIn(n)' = RowsIn(n) \cup {new}
        /\ \A conv : conv # n => RowsIn(conv)' = RowsIn(conv)
    BY <1>3, OthersOfInsert
  <1>5. rows' = rows \cup {new} /\ new.conv = n
    BY <1>1, <1>3
  <1> HIDE DEF new
  <1>6. PICK c \in convs : c.id = n
    BY <1>3 DEF IntakeInv, RunsOwn, Owned
  <1>7. \A d \in convs : d.id = n => CompanyOf[d.acct] = CompanyFor(r)
    BY <1>3 DEF IntakeInv, OnceInv, DedupInv, JoinsOwnCompany
  <1>8. \A w : StoredFor(w, Tenant)' <=> StoredFor(w, Tenant)
    BY DEF StoredFor
  <1>9. Threaded' = {w.conv : w \in {v \in rows \cup {new} : StoredFor(v, Tenant)}}
    BY <1>5, <1>8 DEF Threaded
  <1>10. CASE CompanyFor(r) # Tenant
    <2>1. ~StoredFor(new, Tenant) /\ n \notin Threaded
      BY <1>5, <1>7, <1>10 DEF StoredFor, Threaded
    <2>2. Threaded' = Threaded
      BY <1>9, <2>1 DEF Threaded
    <2>3. \A conv \in Threaded : RowsIn(conv)' = RowsIn(conv)
      BY <1>4, <2>1
    <2>4. Threads' = Threads
      BY <2>2, <2>3 DEF Threads
    <2>5. Openings' = Openings
      <3>1. \A d \in Threaded : Oldest(RowsIn(d)') = Oldest(RowsIn(d))
        BY <2>3
      <3>2. Openings' = [d \in Threaded |-> (CHOOSE w \in Oldest(RowsIn(d)') : TRUE).ext]
        BY <2>2 DEF Openings, Oldest
      <3> QED BY <3>1, <3>2 DEF Openings
    <2> QED BY <1>2, <2>2, <2>4, <2>5 DEF Intake!vars
  <1>11. CASE CompanyFor(r) = Tenant
    <2>1. StoredFor(new, Tenant)
      BY <1>5, <1>6, <1>7, <1>11 DEF StoredFor
    <2>2. Threaded' = Threaded \cup {n}
      BY <1>5, <1>9, <2>1 DEF Threaded
    <2>3. Tenant \in Company
      BY <1>0, <1>11, ConstantsAssumption DEF CompanyFor, TypeOK, Job
    <2>4. Msg(r) \notin Intake!Kept
      BY <1>11, <2>3, NotKept
    <2>5. DOMAIN Threads = Threaded /\ DOMAIN Openings = Threaded /\ DOMAIN Threads' = Threaded'
      BY DEF Threads, Openings
    <2>6. CASE RowsIn(n) = {}
      <3>1. n \notin Threaded
        BY <2>6 DEF Threaded, RowsIn
      <3>2. Threads' = [d \in Threaded \cup {n} |-> IF d = n THEN {Msg(r)} ELSE Threads[d]]
        <4>1. {w.ext : w \in RowsIn(n)'} = {Msg(r)}
          BY <1>1, <1>4, <2>6
        <4>2. \A d \in Threaded : {w.ext : w \in RowsIn(d)'} = Threads[d]
          BY <1>4, <3>1 DEF Threads
        <4> QED BY <2>2, <3>1, <4>1, <4>2 DEF Threads
      <3>3. Openings' = [d \in Threaded \cup {n} |-> IF d = n THEN Msg(r) ELSE Openings[d]]
        <4>1. RowsIn(n)' = {new}
          BY <1>4, <2>6
        <4>2. Oldest({new}) = {new}
          BY <1>0, <1>1 DEF Oldest
        <4>3. (CHOOSE w \in {new} : TRUE) = new
          OBVIOUS
        <4>4. (CHOOSE w \in Oldest(RowsIn(n)') : TRUE).ext = Msg(r)
          BY <1>1, <4>1, <4>2, <4>3
        <4>5. ASSUME NEW d \in Threaded
              PROVE  (CHOOSE w \in Oldest(RowsIn(d)') : TRUE).ext = Openings[d]
          <5>1. RowsIn(d)' = RowsIn(d)
            BY <1>4, <3>1
          <5>2. Openings[d] = (CHOOSE w \in Oldest(RowsIn(d)) : TRUE).ext
            BY DEF Openings
          <5> QED BY <5>1, <5>2
        <4> QED BY <2>2, <3>1, <4>4, <4>5 DEF Openings, Oldest
      <3>4. byHand' \cap Threaded' = byHand \cap Threaded
        BY <2>2, <2>6 DEF IntakeInv, AskedHaveRows
      <3>5. Intake!Open(n, Msg(r))
        BY <1>2, <2>4, <2>5, <3>1, <3>2, <3>3, <3>4 DEF Intake!Open
      <3> QED BY <1>0, <2>2, <2>5, <3>5 DEF Intake!Next, Intake!Keep
    <2>7. CASE RowsIn(n) # {}
      <3>1. n \in Threaded
        <4>1. PICK w \in rows : w.conv = n
          BY <2>7 DEF RowsIn
        <4>2. StoredFor(w, Tenant)
          BY <1>5, <2>1, <4>1 DEF StoredFor
        <4> QED BY <4>1, <4>2, InThread
      <3>2. Threads' = [Threads EXCEPT ![n] = @ \cup {Msg(r)}]
        <4>1. {w.ext : w \in RowsIn(n)'} = Threads[n] \cup {Msg(r)}
          BY <1>1, <1>4, <3>1 DEF Threads
        <4>2. \A d \in Threaded \ {n} : {w.ext : w \in RowsIn(d)'} = Threads[d]
          BY <1>4 DEF Threads
        <4>3. Threads' = [d \in Threaded |-> {w.ext : w \in RowsIn(d)'}]
          BY <2>2, <3>1 DEF Threads
        <4> QED BY <2>5, <3>1, <4>1, <4>2, <4>3
      <3>3. Openings' = Openings
        <4>1. Oldest(RowsIn(n)') = Oldest(RowsIn(n))
          <5>1. \A w \in RowsIn(n) : w.id \in Nat /\ w.id < nextRow
            BY <1>0 DEF RowsIn, TypeOK, MessageRow, RowsInOrder
          <5> QED BY <1>0, <1>1, <1>4, <2>7, <5>1 DEF Oldest
        <4>2. \A d \in Threaded : Oldest(RowsIn(d)') = Oldest(RowsIn(d))
          BY <1>4, <4>1
        <4>3. Openings' = [d \in Threaded |-> (CHOOSE w \in Oldest(RowsIn(d)') : TRUE).ext]
          BY <2>2, <3>1 DEF Openings, Oldest
        <4> QED BY <4>2, <4>3 DEF Openings
      <3>4. byHand' \cap Threaded' = byHand \cap Threaded
        BY <2>2, <3>1
      <3>5. Intake!Join(n, Msg(r))
        BY <1>2, <2>4, <2>5, <3>1, <3>2, <3>3, <3>4 DEF Intake!Join
      <3> QED BY <1>0, <2>2, <2>5, <3>5 DEF Intake!Next, Intake!Keep
    <2> QED BY <2>6, <2>7
  <1> QED BY <1>10, <1>11

\* The worker's ticket is about the opening of its thread, or was asked for by hand.
LEMMA WorkerImplements ==
  ASSUME IntakeInv, WorkerNext
  PROVE  UNCHANGED <<rows, convs, tickets, byHand>> \/ Intake!Next
  <1>0. /\ TypeOK /\ RowsInOrder /\ SlotsTyped
        /\ rows' = rows /\ convs' = convs /\ byHand' = byHand
    BY InvOrphan DEF IntakeInv, WorkerNext, tables
  <1>1. \/ tickets' = tickets
        \/ \E j \in Jobs : tickets' = tickets \cup {W!IdempotencyKey(j)}
    BY <1>0, WorkerStep
  <1>2. ASSUME NEW j \in Jobs, tickets' = tickets \cup {W!IdempotencyKey(j)} PROVE Intake!Next
    <2> DEFINE key == W!IdempotencyKey(j)
    <2>1. /\ key[1] = j.channel /\ key[2] = j.conv /\ key[3] = j.row
          /\ tickets' = tickets \cup {key}
      BY <1>2 DEF W!IdempotencyKey
    <2> HIDE DEF key
    <2>2. PICK w \in RowsIn(j.conv) : w.id = j.row /\ (AskedFor(j) \/ AboutOpening(j, w))
      BY DEF IntakeInv, JobsAreDue, IsDue
    <2>3. w \in rows /\ w.conv = j.conv /\ MessageOf(j.row) = w.ext
      BY <1>0, <2>2, RowNamed DEF RowsIn
    <2>4. /\ Threaded' = Threaded /\ Threads' = Threads /\ Openings' = Openings
          /\ (byHand \cap Threaded)' = byHand \cap Threaded
      BY <1>0 DEF Threaded, StoredFor, Threads, Openings, RowsIn, Oldest
    <2>5. TicketConv(key) <=> j.conv \in Threaded
      BY <2>1, <2>3, InThread DEF TicketConv, StoredFor
    <2>6. Ticketed' = {<<k[1], k[2], MessageOf(k[3])>> : k \in {k \in tickets \cup {key} : TicketConv(k)}}
      BY <1>0, <2>1 DEF Ticketed, MessageOf, TicketConv
    <2>7. CASE ~TicketConv(key)
      <3>1. Ticketed' = Ticketed
        BY <2>6, <2>7 DEF Ticketed, TicketConv
      <3> QED BY <2>4, <3>1 DEF Intake!Next, Intake!vars
    <2>8. CASE TicketConv(key)
      <3>1. Ticketed' = Ticketed \cup {<<j.channel, j.conv, w.ext>>}
        BY <2>1, <2>3, <2>6, <2>8 DEF Ticketed, TicketConv
      <3>2. Intake!Ticket(j.channel, j.conv, w.ext)
        BY <2>4, <3>1 DEF Intake!Ticket
      <3>3. j.conv \in DOMAIN Threads
        BY <2>5, <2>8 DEF Threads
      <3>4. CASE AboutOpening(j, w)
        <4>1. Openings[j.conv] = w.ext /\ j.channel = ChannelOf[w.ext]
          BY <1>0, <2>5, <2>8, <3>4, FirstOpens DEF AboutOpening
        <4>2. Intake!TicketOpening(j.conv)
          BY <3>2, <3>3, <4>1 DEF Intake!TicketOpening
        <4> QED BY <3>3, <4>2 DEF Intake!Next, Intake!Serve
      <3>5. CASE AskedFor(j)
        <4>1. w.ext \in Threads[j.conv]
          BY <2>2, <2>5, <2>8 DEF Threads
        <4>2. Intake!TicketAsked(j.conv)
          BY <2>5, <2>8, <3>2, <3>5, <4>1 DEF Intake!TicketAsked, AskedFor
        <4> QED BY <3>3, <4>2 DEF Intake!Next, Intake!Serve
      <3> QED BY <2>2, <3>4, <3>5
    <2> QED BY <2>7, <2>8
  <1> QED BY <1>0, <1>1, <1>2

LEMMA ReassessImplements ==
  ASSUME IntakeInv, NEW c \in convs, Reassess(c)
  PROVE  Intake!Next
  <1>1. /\ rows' = rows /\ convs' = convs /\ tickets' = tickets /\ byHand' = byHand \cup {c.id}
        /\ RowsIn(c.id) # {}
    BY DEF Reassess, tables, worker, Newest
  <1>2. /\ Threaded' = Threaded /\ Threads' = Threads /\ Openings' = Openings
        /\ Ticketed' = Ticketed
    BY <1>1 DEF Threaded, StoredFor, Threads, Openings, RowsIn, Oldest, Ticketed, MessageOf
  <1>3. CASE c.id \in Threaded
    <2>1. (byHand \cap Threaded)' = (byHand \cap Threaded) \cup {c.id} /\ c.id \in DOMAIN Threads
      BY <1>1, <1>2, <1>3 DEF Threads
    <2>2. Intake!Ask(c.id)
      BY <1>2, <2>1 DEF Intake!Ask
    <2> QED BY <2>1, <2>2 DEF Intake!Next, Intake!Serve
  <1>4. CASE c.id \notin Threaded
    <2>1. (byHand \cap Threaded)' = byHand \cap Threaded
      BY <1>1, <1>2, <1>4
    <2> QED BY <1>2, <2>1 DEF Intake!Next, Intake!vars
  <1> QED BY <1>3, <1>4

LEMMA ApiImplements ==
  ASSUME IntakeInv, SingleProcess, SingleAccounts, [Next]_vars, UNCHANGED <<worker, byHand>>
  PROVE  Intake!Next
  <1>0. TypeOK /\ tickets' = tickets /\ byHand' = byHand
    BY InvOrphan DEF worker
  <1>1. CASE rows' = rows
    BY <1>0, <1>1, StoredForKept, ThreadsStay DEF Intake!Next
  <1>2. CASE \E r \in Request : pc[r] = "store" /\ rows' = rows \cup {NewRow(r)} /\ convs' = convs
    BY <1>0, <1>2, InsertImplements DEF Intake!Next
  <1> QED BY <1>0, <1>1, <1>2, Inserts

(***************************************************************************)
(* What TestRunIsIdempotentOnDuplicateMessageID and the idempotency key    *)
(* ai:channel:conversation:message promise, from end to end: the API, the  *)
(* worker and the assessment by hand implement TicketIntake for a company  *)
(* with one process and no message that resolves to two of its accounts,   *)
(* although deliveries are repeated, jobs run again, redis and the main    *)
(* application lose their answers, and processes die.                      *)
(***************************************************************************)
THEOREM IntakeIsImplemented ==
  ASSUME SingleProcess, SingleAccounts
  PROVE  PipelineSpec => OneTicketPerThread
<1>1. PipelineInit => Intake!Init
  <2> SUFFICES ASSUME PipelineInit PROVE Intake!Init
    OBVIOUS
  <2>1. rows = {} /\ tickets = {} /\ byHand = {}
    BY DEF PipelineInit, Init, W!WorkerInit
  <2> QED BY <2>1 DEF Intake!Init, Threaded, Threads, Openings, Ticketed
<1>2. PipelineInit => IntakeInv
  BY IntakeInit
<1>3. IntakeInv /\ [PipelineNext]_pipeline => IntakeInv'
  BY IntakeNext
<1>4. IntakeInv /\ [PipelineNext]_pipeline
      => [UNCHANGED <<rows, convs, tickets, byHand>> \/ Intake!Next]_pipeline
  <2> SUFFICES ASSUME IntakeInv, [PipelineNext]_pipeline
               PROVE  [UNCHANGED <<rows, convs, tickets, byHand>> \/ Intake!Next]_pipeline
    OBVIOUS
  <2>1. CASE Next /\ UNCHANGED <<worker, byHand>>
    BY <2>1, ApiImplements
  <2>2. CASE \E c \in convs : Reassess(c)
    BY <2>2, ReassessImplements
  <2>3. CASE WorkerNext
    BY <2>3, WorkerImplements
  <2>4. CASE UNCHANGED pipeline
    BY <2>4
  <2> QED BY <2>1, <2>2, <2>3, <2>4 DEF PipelineNext, ApiNext
<1> QED BY <1>1, <1>2, <1>3, <1>4, PTL DEF PipelineSpec, OneTicketPerThread

-----------------------------------------------------------------------------
(***************************************************************************)
(* NoAbandonedConversation, while clean-ups and requests come to their     *)
(* ends.  It is inductive with the types: the run that opened a            *)
(* conversation stores a message in it, or goes on to the clean-up, which  *)
(* leaves it only if it has one, or is closed.                             *)
(***************************************************************************)
CleanupsSucceed == {"create", "delete", "cancel", "crash"} \cap Faults = {}

\* The run that opened the conversation is about to store its message, or to clean up.
InTheHandsOf(n, r) == pc[r] \in {"store", "cleanup"} /\ job[r].created /\ job[r].conv = n

\* The run whose conversation it is stores a message or keeps it in hand.
LEMMA StoreKeepsHold ==
  ASSUME TypeOK, NEW r \in Request, StoreMessage(r), NEW n, InTheHandsOf(n, r)
  PROVE  RowsIn(n)' # {} \/ InTheHandsOf(n, r)'
  <1> DEFINE same == {w \in RowsIn(job[r].conv) : w.ext = Msg(r)}
  <1>1. CASE \E w \in Oldest(same) : UNCHANGED rows
    BY <1>1 DEF Oldest, RowsIn, InTheHandsOf
  <1>2. CASE InsertRow(r)
    <2>1. NewRow(r) \in rows' /\ NewRow(r).conv = n
      BY <1>2 DEF InsertRow, NewRow, InTheHandsOf
    <2> HIDE DEF NewRow
    <2> QED BY <2>1 DEF RowsIn
  <1>3. CASE FailInsert(r)
    <2>1. pc'[r] = "cleanup" /\ job'[r] = job[r]
      BY <1>3, MovesTo DEF FailInsert, InTheHandsOf
    <2> QED BY <2>1 DEF InTheHandsOf
  <1> QED BY <1>1, <1>2, <1>3 DEF StoreMessage

LEMMA AbandonedNext ==
  ASSUME CleanupsSucceed, TypeOK, NoAbandonedConversation, [Next]_vars
  PROVE  NoAbandonedConversation'
  <1> SUFFICES ASSUME NEW c \in convs', c.open
               PROVE  RowsIn(c.id)' # {} \/ \E r \in Request : InTheHandsOf(c.id, r)'
    BY DEF NoAbandonedConversation, InTheHandsOf
  <1>1. CASE c \in convs
    <2>1. CASE RowsIn(c.id) # {}
      BY <2>1, RowsGrow DEF RowsIn
    <2>2. CASE \E r \in Request : InTheHandsOf(c.id, r)
      <3>1. PICK r \in Request : InTheHandsOf(c.id, r)
        BY <2>2
      <3>2. Rests(r) => InTheHandsOf(c.id, r)'
        BY <3>1 DEF Rests, InTheHandsOf
      <3>3. CASE StoreMessage(r)
        BY <3>1, <3>3, StoreKeepsHold
      <3>4. CASE CleanupConversation(r)
        <4>1. convs' = {d \in convs : ~(d.id = job[r].conv /\ d.open /\ RowsIn(d.id) = {})}
          BY <3>4 DEF CleanupConversation, MayFail, CleanupsSucceed
        <4>2. RowsIn(c.id) # {}
          BY <3>1, <4>1 DEF InTheHandsOf
        <4> QED BY <2>1, <4>2
      <3>5. Rests(r) \/ StoreMessage(r) \/ CleanupConversation(r)
        <4>1. ASSUME NEW s \in Request, Run(s), s # r PROVE Rests(r)
          <5>1. \E step, j : Goto(s, step, j)
            BY <4>1 DEF Run, ResolveAccount, AcquireLock, FindExisting, ReturnDuplicate, Return,
               ResolveThread, SelectPending, CreateConversation, StoreMessage, FailInsert,
               CleanupConversation, AssessIntake, EnqueueTicket, Respond
          <5> QED BY <4>1, <5>1, RestsGoto
        <4>2. Run(r) => StoreMessage(r) \/ CleanupConversation(r)
          BY <3>1 DEF InTheHandsOf, Run, ResolveAccount, AcquireLock, FindExisting,
             ResolveThread, SelectPending, CreateConversation, AssessIntake, EnqueueTicket,
             Respond
        <4>3. ASSUME NEW s \in Request, NEW m \in Message, Deliver(s, m) PROVE Rests(r)
          BY <3>1, <4>3, RestsGoto DEF Deliver, InTheHandsOf
        <4>4. (UNCHANGED vars => Rests(r)) /\ \A d \in convs : CloseConversation(d) => Rests(r)
          BY DEF vars, Rests, CloseConversation
        <4>5. (\A s \in Request : ~Cancel(s)) /\ (\A p \in Proc : ~Crash(p))
          BY DEF CleanupsSucceed, Cancel, Crash, MayFail
        <4> QED BY <4>1, <4>2, <4>3, <4>4, <4>5 DEF Next
      <3> QED BY <3>2, <3>3, <3>4, <3>5
    <2> QED BY <1>1, <2>1, <2>2 DEF NoAbandonedConversation, InTheHandsOf
  <1>2. CASE c \notin convs
    <2>1. ASSUME NEW d \in convs, CloseConversation(d) PROVE FALSE
      <3>1. c = [d EXCEPT !.open = FALSE]
        BY <1>2, <2>1 DEF CloseConversation
      <3>2. d \in ConvRow
        BY DEF TypeOK
      <3> QED BY <3>1, <3>2 DEF ConvRow
    <2>2. convs' \subseteq convs \/ \E r \in Request : CreateConversation(r)
      BY <2>1 DEF Next, Run, vars, tables, queues, senders, Deliver, ResolveAccount, AcquireLock,
         FindExisting, ResolveThread, SelectPending, StoreMessage, CleanupConversation,
         AssessIntake, EnqueueTicket, Respond, Cancel, Crash
    <2>3. PICK r \in Request : CreateConversation(r)
      BY <1>2, <2>2
    <2>4. c = NewConversation(r) /\ Goto(r, "store", WithConversation(r, nextConv, TRUE))
      BY <1>2, <2>3 DEF CreateConversation, InsertConversation, NewConversation, MayFail,
         CleanupsSucceed
    <2>5. c.id = nextConv
      BY <2>4 DEF NewConversation
    <2>6. /\ WithConversation(r, nextConv, TRUE).created
          /\ WithConversation(r, nextConv, TRUE).conv = nextConv
      <3>1. nextConv \in Nat
        BY DEF TypeOK
      <3> QED BY <3>1, WithConversationType
    <2>7. pc'[r] = "store" /\ job'[r].created /\ job'[r].conv = nextConv
      BY <2>4, <2>6, MovesTo
    <2> QED BY <2>5, <2>7 DEF InTheHandsOf
  <1> QED BY <1>1, <1>2

\* The types of the pipeline, however many processes serve it.
LEMMA PipelineTypesNext ==
  ASSUME TypeOK, SlotsTyped, [PipelineNext]_pipeline
  PROVE  TypeOK' /\ SlotsTyped'
  <1>1. CASE [Next]_vars /\ UNCHANGED <<worker, byHand>>
    <2>1. slot' = slot
      BY <1>1 DEF worker
    <2> QED BY <1>1, <2>1, TypeNext DEF SlotsTyped
  <1>2. ASSUME NEW c \in convs, Reassess(c) PROVE TypeOK' /\ SlotsTyped'
    <2>1. PICK w \in Newest(RowsIn(c.id)) :
             assessQ' = assessQ \cup {[channel |-> "email", conv |-> c.id, row |-> w.id,
                                       ext |-> w.ext]}
      BY <1>2 DEF Reassess
    <2>2. w \in rows
      BY DEF Newest, RowsIn
    <2>3. assessQ' \subseteq QueueJob
      BY <2>1, <2>2 DEF TypeOK, MessageRow, ConvRow, QueueJob, Channel
    <2> QED BY <1>2, <2>3 DEF Reassess, TypeOK, SlotsTyped, tables, senders, worker
  <1>3. CASE WorkerNext
    <2>1. ApiRests /\ SlotsTyped' /\ Jobs' \subseteq Jobs
          /\ DOMAIN intake' \in SUBSET Nat /\ \A c \in DOMAIN intake' : intake'[c] \in Verdict
      BY <1>3, WorkerStep DEF WorkerNext, ApiRests, tables, senders
    <2>2. assessQ' \subseteq QueueJob /\ ticketQ' \subseteq QueueJob
      BY <2>1, JobsTyped DEF Jobs
    <2> QED BY <2>1, <2>2 DEF TypeOK, ApiRests
  <1>4. UNCHANGED pipeline => [Next]_vars /\ UNCHANGED <<worker, byHand>>
    BY DEF pipeline
  <1> QED BY <1>1, <1>2, <1>3, <1>4 DEF PipelineNext, ApiNext

(***************************************************************************)
(* TestRunRemovesNewEmptyConversationWhenMessageInsertFails, for every     *)
(* interleaving: with any number of processes, and whatever other          *)
(* statements, jobs and answers fail, no empty pending conversation is     *)
(* left behind, as long as no conversation is inserted by a statement that *)
(* reports an error, clean-ups do not fail, contexts live and processes do *)
(* not die.  Any one of these four leaves one.                             *)
(***************************************************************************)
THEOREM ConversationsAreNotAbandoned ==
  ASSUME CleanupsSucceed
  PROVE  PipelineSpec => []NoAbandonedConversation
<1>1. PipelineInit => TypeOK /\ SlotsTyped /\ NoAbandonedConversation
  BY TypeInit DEF PipelineInit, Init, W!WorkerInit, SlotsTyped, NoAbandonedConversation
<1>2. TypeOK /\ SlotsTyped /\ NoAbandonedConversation /\ [PipelineNext]_pipeline
      => (TypeOK /\ SlotsTyped /\ NoAbandonedConversation)'
  <2> SUFFICES ASSUME TypeOK, SlotsTyped, NoAbandonedConversation, [PipelineNext]_pipeline
               PROVE  (TypeOK /\ SlotsTyped /\ NoAbandonedConversation)'
    OBVIOUS
  <2>1. TypeOK' /\ SlotsTyped'
    BY PipelineTypesNext
  <2>2. [Next]_vars \/ UNCHANGED <<pc, job, convs, rows>>
    BY DEF PipelineNext, ApiNext, WorkerNext, Reassess, tables, pipeline
  <2>3. ASSUME UNCHANGED <<pc, job, convs, rows>> PROVE NoAbandonedConversation'
    BY <2>3 DEF NoAbandonedConversation, RowsIn
  <2>4. NoAbandonedConversation'
    BY <2>2, <2>3, AbandonedNext
  <2> QED BY <2>1, <2>4
<1> QED BY <1>1, <1>2, PTL DEF PipelineSpec

-----------------------------------------------------------------------------
(***************************************************************************)
(* OpeningMessageTicketed, where Run comes to its end and what it is told  *)
(* of its inserts and jobs is true.  The run that stores the first message *)
(* of a conversation is the one that opened it, because every other run    *)
(* finds a message there; and that one goes on to the ticket.              *)
(***************************************************************************)
RunsAreServed ==
    {"flags", "create", "commit", "queue", "delete", "cancel", "crash"} \cap Faults = {}

\* A run that reuses a conversation comes behind its first message.
JoinersFollow ==
    \A r \in Request : pc[r] = "store" /\ ~job[r].created => RowsIn(job[r].conv) # {}

\* The first LINE message of a conversation of a company without a bot.
CallsForTicket(w) ==
    /\ ChannelOf[w.ext] = "line" /\ \A v \in RowsIn(w.conv) : w.id <= v.id
    /\ \E k \in Company \ LineBot : StoredFor(w, k)

\* The run that stored the row is about to enqueue its ticket, and will.
AboutToTicket(r, w) ==
    /\ pc[r] = "ticket" /\ TicketDue(r) /\ ~IsEmail(r)
    /\ job[r].conv = w.conv /\ job[r].row = w.id

TicketQueued(w) == \E j \in ticketQ : j.conv = w.conv /\ j.row = w.id

OpeningsInHand ==
    \A w \in rows : CallsForTicket(w) => TicketQueued(w) \/ \E r \in Request : AboutToTicket(r, w)

OpeningInv ==
    /\ OrphanInv
    /\ RowsInOrder
    /\ NoAbandonedConversation
    /\ JoinersFollow
    /\ OpeningsInHand

LEMMA JoinersNext ==
  ASSUME OpeningInv, SingleProcess, [Next]_vars
  PROVE  JoinersFollow'
  <1> SUFFICES ASSUME NEW s \in Request, pc'[s] = "store", ~job'[s].created
               PROVE  \E w \in rows : w.conv = job'[s].conv
    BY RowsGrow DEF JoinersFollow, RowsIn
  <1>0. TypeOK /\ OrphanInv /\ job[s] \in Job /\ nextConv \in Nat
    BY DEF OpeningInv, OrphanInv, TypeOK
  <1>1. CASE Rests(s)
    BY <1>1 DEF Rests, OpeningInv, JoinersFollow, RowsIn
  <1>2. CASE Joins(s)
    <2>1. ASSUME NEW w \in rows, job'[s] = WithConversation(s, w.conv, FALSE)
          PROVE  w.conv = job'[s].conv
      BY <1>0, <2>1 DEF Job, WithConversation
    <2>2. ASSUME NEW c \in PendingFor(s), job'[s] = WithConversation(s, c.id, FALSE),
                 pc[s] \in {"select", "create"}
          PROVE  \E w \in rows : w.conv = job'[s].conv
      <3>1. /\ c \in convs /\ c.open /\ c.acct = job[s].acct
            /\ c.customer = CustomerOf[Msg(s)] /\ job'[s].conv = c.id
        BY <1>0, <2>2 DEF PendingFor, Job, WithConversation
      <3>2. ASSUME NEW r \in Request, pc[r] \in {"store", "cleanup"}, job[r].conv = c.id,
                   RowsIn(c.id) = {}
            PROVE  FALSE
        <4>1. PICK d \in convs : d.id = c.id /\ d.acct = job[r].acct
                                 /\ d.customer = CustomerOf[Msg(r)]
          BY <1>0, <3>2 DEF OrphanInv, RunsOwn, Owned
        <4>2. LockKey(r) = LockKey(s)
          BY <1>0, <3>1, <4>1 DEF OrphanInv, FreshConversations, LockKey, SingleProcess
        <4>3. lock[LockKey(r)] = r /\ lock[LockKey(s)] = s
          BY <1>0, <2>2, <3>2 DEF OrphanInv, HoldsLock, Critical
        <4> QED BY <2>2, <3>2, <4>2, <4>3
      <3>3. RowsIn(c.id) # {}
        BY <3>1, <3>2 DEF OpeningInv, NoAbandonedConversation
      <3> QED BY <3>1, <3>3 DEF RowsIn
    <2> QED BY <1>2, <2>1, <2>2 DEF Joins
  <1>3. CASE Founds(s)
    BY <1>0, <1>3 DEF Founds, WithConversation, Job
  <1> QED BY <1>0, <1>1, <1>2, <1>3, RequestStep
          DEF Moves, Leaves, Searches, Follows, Critical

\* The ticket that is about to be enqueued is still about to be, or there.
LEMMA AboutToTicketKept ==
  ASSUME TypeOK, RunsAreServed, [Next]_vars, NEW r \in Request, NEW w, AboutToTicket(r, w)
  PROVE  TicketQueued(w)' \/ AboutToTicket(r, w)'
  <1>1. CASE Rests(r)
    BY <1>1 DEF Rests, AboutToTicket, TicketDue, IsEmail, Msg, CompanyFor
  <1>2. CASE EnqueueTicket(r)
    <2>1. ticketQ' = ticketQ \cup {Payload(r)}
      BY <1>2 DEF EnqueueTicket, AboutToTicket, MayFail, RunsAreServed
    <2>2. Payload(r).conv = w.conv /\ Payload(r).row = w.id
      BY DEF Payload, AboutToTicket
    <2> HIDE DEF Payload
    <2> QED BY <2>1, <2>2 DEF TicketQueued
  <1>3. ASSUME NEW s \in Request, Run(s), s # r PROVE Rests(r)
    <2>1. \E step, j : Goto(s, step, j)
      BY <1>3 DEF Run, ResolveAccount, AcquireLock, FindExisting, ReturnDuplicate, Return,
         ResolveThread, SelectPending, CreateConversation, StoreMessage, FailInsert,
         CleanupConversation, AssessIntake, EnqueueTicket, Respond
    <2> QED BY <1>3, <2>1, RestsGoto
  <1>4. Run(r) => EnqueueTicket(r)
    BY DEF AboutToTicket, Run, ResolveAccount, AcquireLock, FindExisting, ResolveThread,
       SelectPending, CreateConversation, StoreMessage, CleanupConversation, AssessIntake,
       Respond
  <1>5. ASSUME NEW s \in Request, NEW m \in Message, Deliver(s, m) PROVE Rests(r)
    BY <1>5, RestsGoto DEF Deliver, AboutToTicket
  <1>6. (UNCHANGED vars => Rests(r)) /\ \A d \in convs : CloseConversation(d) => Rests(r)
    BY DEF vars, Rests, CloseConversation
  <1>7. (\A s \in Request : ~Cancel(s)) /\ (\A p \in Proc : ~Crash(p))
    BY DEF RunsAreServed, Cancel, Crash, MayFail
  <1> QED BY <1>1, <1>2, <1>3, <1>4, <1>5, <1>6, <1>7 DEF Next

\* No step of the API takes a ticket job away.
LEMMA TicketJobsStay ==
  ASSUME [Next]_vars
  PROVE  ticketQ \subseteq ticketQ'
  BY DEF Next, Run, vars, queues, tables, senders, Deliver, ResolveAccount, AcquireLock,
     FindExisting, ResolveThread, SelectPending, CreateConversation, StoreMessage,
     CleanupConversation, AssessIntake, EnqueueTicket, Respond, Cancel, Crash,
     CloseConversation

\* The run that inserts the first row of a conversation opened it.
LEMMA OpenerInserts ==
  ASSUME OpeningInv, RunsAreServed, NEW r \in Request, StoreMessage(r),
         NEW new, new = NewRow(r), new \notin rows, rows' = rows \cup {new}, convs' = convs,
         CallsForTicket(new)'
  PROVE  AboutToTicket(r, new)'
  <1> DEFINE ticketed == [job[r] EXCEPT !.row = nextRow]
  <1>0. /\ TypeOK /\ RowsInOrder /\ job[r] \in Job /\ nextRow \in Nat
        /\ pc[r] = "store"
        /\ new.id = nextRow /\ new.conv = job[r].conv /\ new.ext = Msg(r)
    BY DEF OpeningInv, OrphanInv, TypeOK, NewRow, StoreMessage
  <1>1. /\ ChannelOf[new.ext] = "line" /\ \A v \in rows' : v.conv = new.conv => new.id <= v.id
        /\ \E k \in Company \ LineBot : \E c \in convs : c.id = new.conv /\ CompanyOf[c.acct] = k
    BY DEF CallsForTicket, RowsIn, StoredFor
  <1>2. RowsIn(job[r].conv) = {}
    <2>1. \A v \in rows : v \in rows' /\ v.id \in Nat /\ v.id < nextRow
      BY <1>0 DEF RowsInOrder, TypeOK, MessageRow
    <2> QED BY <1>0, <1>1, <2>1 DEF RowsIn
  <1>3. job[r].created
    BY <1>0, <1>2 DEF OpeningInv, JoinersFollow
  <1>4. CompanyFor(r) \notin LineBot
    <2>1. PICK c \in convs : c.id = job[r].conv /\ c.acct = job[r].acct
      BY <1>0, <1>2 DEF OpeningInv, OrphanInv, RunsOwn, Owned
    <2>2. \A d \in convs : d.id = c.id => d.acct = c.acct
      BY <2>1 DEF OpeningInv, OrphanInv, FreshConversations
    <2> QED BY <1>0, <1>1, <2>1, <2>2 DEF CompanyFor
  <1>5. Goto(r, "ticket", ticketed)
    <2>1. ~IsEmail(r)
      BY <1>0, <1>1 DEF IsEmail
    <2>2. rows' # rows
      OBVIOUS
    <2>3. Oldest({w \in RowsIn(job[r].conv) : w.ext = Msg(r)}) = {}
      BY <1>2 DEF Oldest
    <2> QED BY <2>1, <2>2, <2>3 DEF StoreMessage, MayFail, RunsAreServed
  <1>6. pc'[r] = "ticket" /\ job'[r] = ticketed
    BY <1>0, <1>5, MovesTo
  <1>7. /\ job'[r].msg = job[r].msg /\ job'[r].acct = job[r].acct /\ job'[r].created
        /\ job'[r].conv = new.conv /\ job'[r].row = new.id
    BY <1>0, <1>3, <1>6 DEF Job
  <1>8. Msg(r)' = Msg(r) /\ CompanyFor(r)' = CompanyFor(r)
    BY <1>7, SameLocals
  <1>9. ~IsEmail(r)' /\ TicketDue(r)'
    BY <1>0, <1>1, <1>4, <1>7, <1>8 DEF IsEmail, TicketDue
  <1> QED BY <1>6, <1>7, <1>9 DEF AboutToTicket

LEMMA OpeningsNext ==
  ASSUME OpeningInv, RunsAreServed, [Next]_vars
  PROVE  OpeningsInHand'
  <1> SUFFICES ASSUME NEW w \in rows', CallsForTicket(w)'
               PROVE  TicketQueued(w)' \/ \E r \in Request : AboutToTicket(r, w)'
    BY DEF OpeningsInHand
  <1>0. TypeOK /\ FreshConversations
    BY DEF OpeningInv, OrphanInv
  <1>1. CASE w \in rows
    <2>1. CallsForTicket(w)
      <3>1. \A v \in RowsIn(w.conv) : w.id <= v.id
        BY RowsGrow DEF CallsForTicket, RowsIn
      <3>2. \E k \in Company \ LineBot : StoredFor(w, k)
        BY <1>0, <1>1, StoredForStep DEF CallsForTicket
      <3> QED BY <3>1, <3>2 DEF CallsForTicket
    <2>2. CASE TicketQueued(w)
      BY <2>2, TicketJobsStay DEF TicketQueued
    <2>3. CASE \E r \in Request : AboutToTicket(r, w)
      BY <1>0, <2>3, AboutToTicketKept
    <2> QED BY <1>1, <2>1, <2>2, <2>3 DEF OpeningInv, OpeningsInHand
  <1>2. CASE w \notin rows
    <2>1. PICK r \in Request : StoreMessage(r) /\ rows' = rows \cup {NewRow(r)} /\ convs' = convs
      BY <1>0, <1>2, Inserts
    <2>2. w = NewRow(r)
      BY <1>2, <2>1
    <2> QED BY <1>2, <2>1, <2>2, OpenerInserts
  <1> QED BY <1>1, <1>2

(***************************************************************************)
(* The package comment of services/tickets, for every interleaving: when   *)
(* one process serves the deliveries, the first LINE message of a          *)
(* conversation has its ticket:create job, or the run that stored it is    *)
(* about to enqueue it, whatever inserts, assessments and answers fail,    *)
(* and whatever lookups but that of the company's flags, without which Run *)
(* takes the company to have a bot.  Each hypothesis is needed: a second process, or any one of the   *)
(* faults that are left out, loses a ticket (a clean-up that fails, after  *)
(* an insert that does).                                                   *)
(***************************************************************************)
THEOREM OpeningsAreTicketed ==
  ASSUME SingleProcess, RunsAreServed
  PROVE  Spec => []OpeningMessageTicketed
<1>1. Init => OpeningInv
  <2> SUFFICES ASSUME Init PROVE OpeningInv
    OBVIOUS
  <2> QED BY TypeInit DEF Init, OpeningInv, OrphanInv, FreshConversations, HoldsLock, RunsOwn,
             Owned, RowsHaveConversations, Critical, RowsInOrder, NoAbandonedConversation,
             JoinersFollow, OpeningsInHand
<1>2. OpeningInv /\ [Next]_vars => OpeningInv'
  <2> SUFFICES ASSUME OpeningInv, [Next]_vars PROVE OpeningInv'
    OBVIOUS
  <2>1. TypeOK /\ CleanupsSucceed
    BY DEF OpeningInv, OrphanInv, CleanupsSucceed, RunsAreServed
  <2>2. OrphanInv'
    BY TypeNext, FreshNext, HoldsNext, OwnsNext, RowsKeepNext
       DEF OpeningInv, OrphanInv, SingleProcess
  <2>3. RowsInOrder' /\ NoAbandonedConversation'
    BY <2>1, InOrderNext, AbandonedNext DEF OpeningInv
  <2> QED BY <2>2, <2>3, JoinersNext, OpeningsNext DEF OpeningInv
<1>3. OpeningInv => OpeningMessageTicketed
  BY DEF OpeningInv, OpeningsInHand, CallsForTicket, TicketQueued, AboutToTicket,
     OpeningMessageTicketed
<1> QED BY <1>1, <1>2, <1>3, PTL DEF Spec
===============================================================================
