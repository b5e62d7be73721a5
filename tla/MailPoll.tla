------------------------------- MODULE MailPoll -------------------------------
(***************************************************************************)
(* The IMAP poller (cmd/mailpoll): one mailbox, one poller process, and a  *)
(* cursor in a state file.  A tick opens a session, searches the mailbox,  *)
(* forwards what it found to the inbound API one message at a time, and    *)
(* writes the cursor back as it goes.  Meanwhile mail arrives, the owner   *)
(* of the mailbox reads and deletes it, the server renumbers it, and the   *)
(* poller may stop between any two of its effects.                         *)
(***************************************************************************)
EXTENDS Integers, FiniteSets, FiniteSetsExt

CONSTANTS
    Mail,         \* messages that may arrive
    MaxAttempts,  \* cfg.maxAttempts
    Limits,       \* values cfg.max may have, 0 for no limit
    AnswersOf,    \* [Mail -> SUBSET Answer], what the inbound API may answer
    MaxFaults,    \* bound: lost connections, failed writes, stops of the poller
    MaxValidity   \* bound: UIDVALIDITY values the server gives the mailbox

(***************************************************************************)
(* ok: a 2xx.  rejected: a 4xx other than 408 and 429.  failed: any other  *)
(* answer, a timeout, or a message that cannot be fetched.                 *)
(***************************************************************************)
Answer == {"ok", "rejected", "failed"}

ASSUME ConstantsAssumption ==
    /\ MaxAttempts \in Nat \ {0}
    /\ Limits \subseteq Nat /\ MaxFaults \in Nat /\ MaxValidity \in Nat \ {0}
    /\ AnswersOf \in [Mail -> (SUBSET Answer) \ {{}}]

VARIABLES
    \* the mailbox
    uidOf,     \* UID of a message, 0 when it is not in the mailbox
    uidNext,   \* the UID the next message gets
    validity,  \* UIDVALIDITY
    seen,      \* messages with the \Seen flag
    arrived,   \* messages that have arrived, deleted ones included
    opened,    \* messages the owner of the mailbox has read or deleted
    \* the poller
    max,       \* cfg.max, read once at the start
    pc,        \* the effect the poller is about to have
    st,        \* uidState in memory
    disk,      \* uidState in the state file
    boot,      \* bootstrap
    limit,     \* UidNext as SELECT reported it
    batch,     \* the UIDs that are left, which go out smallest first
    then,      \* where the poller goes after a saveState
    \* what has become of a message
    accepted,  \* answered ok
    refused,   \* answered rejected
    failures,  \* failed attempts, counted up to MaxAttempts
    faults     \* faults so far

mailbox == <<uidOf, uidNext, validity, seen, arrived, opened>>
locals  == <<st, boot, limit, batch, then>>
record  == <<accepted, refused, failures>>
vars    == <<mailbox, max, pc, locals, disk, record, faults>>

State == [validity: Nat, last: Nat, failUid: Nat, failCount: Nat]
NoState == [validity |-> 0, last |-> 0, failUid |-> 0, failCount |-> 0]

TypeOK ==
    /\ uidOf \in [Mail -> Nat] /\ uidNext \in Nat \ {0} /\ validity \in Nat \ {0}
    /\ seen \subseteq Mail /\ arrived \subseteq Mail /\ opened \subseteq Mail
    /\ max \in Limits
    /\ pc \in {"wait", "search", "batch", "mark", "save"}
    /\ then \in {"wait", "batch"}
    /\ st \in State /\ disk \in State /\ boot \in BOOLEAN /\ limit \in Nat
    /\ batch \subseteq Nat
    /\ accepted \subseteq Mail /\ refused \subseteq Mail
    /\ failures \in [Mail -> 0..MaxAttempts] /\ faults \in 0..MaxFaults

Init ==
    /\ uidOf = [m \in Mail |-> 0] /\ uidNext = 1 /\ validity = 1
    /\ seen = {} /\ arrived = {} /\ opened = {}
    /\ max \in Limits
    /\ pc = "wait" /\ then = "wait"
    /\ st = NoState /\ disk = NoState /\ boot = FALSE /\ limit = 0 /\ batch = {}
    /\ accepted = {} /\ refused = {} /\ failures = [m \in Mail |-> 0]
    /\ faults = 0

-----------------------------------------------------------------------------
InBox == {m \in Mail : uidOf[m] # 0}

\* The message a UID of the batch stands for, if it is still there.
With(uid) == {m \in Mail : uidOf[m] = uid}

MayFault == faults < MaxFaults /\ faults' = faults + 1

\* saveState, after which the poller goes on with the batch or ends the tick.
Save(s, next) == st' = s /\ then' = next /\ pc' = "save"

\* pollOnce returns, and its locals are gone.
EndTick ==
    /\ pc' = "wait" /\ then' = "wait"
    /\ st' = NoState /\ boot' = FALSE /\ limit' = 0 /\ batch' = {}

Advanced(uid) == [st EXCEPT !.last = uid, !.failUid = 0, !.failCount = 0]

(***************************************************************************)
(* The tick: loadState, and a state file of another UIDVALIDITY counts for *)
(* nothing.  A dial, login or select that fails leaves everything as it    *)
(* is, so it is no step.                                                   *)
(***************************************************************************)
Loaded ==
    IF disk.validity = validity THEN disk ELSE [NoState EXCEPT !.validity = validity]

Select ==
    /\ pc = "wait"
    /\ st' = Loaded
    /\ boot' = (Loaded.last = 0)
    /\ limit' = uidNext
    /\ pc' = "search"
    /\ UNCHANGED <<mailbox, disk, batch, then, record, faults>>

(***************************************************************************)
(* UidSearch: the unread messages of a mailbox never polled before, the    *)
(* messages above the cursor otherwise, in UID order and up to cfg.max.    *)
(* A bootstrap that finds nothing puts the cursor below UidNext.           *)
(***************************************************************************)
Hits == IF boot THEN InBox \ seen ELSE {m \in InBox : uidOf[m] > st.last}

Capped(uids) ==
    IF max = 0 THEN uids
    ELSE {u \in uids : Cardinality({v \in uids : v < u}) < max}

Search ==
    /\ pc = "search"
    /\ \/ /\ Hits # {}
          /\ batch' = Capped({uidOf[m] : m \in Hits})
          /\ pc' = "batch"
          /\ UNCHANGED <<st, boot, limit, then, faults>>
       \/ /\ Hits = {} /\ boot
          /\ Save([st EXCEPT !.last = limit - 1], "wait")
          /\ UNCHANGED <<boot, limit, batch, faults>>
       \/ Hits = {} /\ ~boot /\ EndTick /\ UNCHANGED faults
    /\ UNCHANGED <<mailbox, disk, record>>

-----------------------------------------------------------------------------
(***************************************************************************)
(* skipUID: count the consecutive failures of one UID, and give up on it   *)
(* after cfg.maxAttempts.  Giving up moves the cursor and goes on with the *)
(* batch; a failure that is to be retried ends the tick.                   *)
(***************************************************************************)
SkipUncounted(uid) ==
    LET count == IF st.failUid = uid THEN st.failCount + 1 ELSE 1 IN
    IF count < MaxAttempts
    THEN st' = st /\ then' = "wait" /\ pc' = "save"
    ELSE Save(Advanced(uid), "batch")

SkipUID(uid) ==
    LET count == IF st.failUid = uid THEN st.failCount + 1 ELSE 1 IN
    IF count < MaxAttempts
    THEN Save([st EXCEPT !.failUid = uid, !.failCount = count], "wait")
    ELSE Save(Advanced(uid), "batch")

\* The outcomes of fetchPayload and Forward for one UID of the batch.
ForwardAccepted(uid) ==
    /\ \E m \in With(uid) : "ok" \in AnswersOf[m] /\ accepted' = accepted \cup {m}
    /\ st' = IF st.failUid = uid THEN [st EXCEPT !.failUid = 0, !.failCount = 0] ELSE st
    /\ pc' = "mark"
    /\ UNCHANGED <<batch, then, refused, failures>>

ForwardRejected(uid) ==
    /\ \E m \in With(uid) : "rejected" \in AnswersOf[m] /\ refused' = refused \cup {m}
    /\ batch' = batch \ {Min(batch)}
    /\ Save(Advanced(uid), "batch")
    /\ UNCHANGED <<accepted, failures>>

ForwardFailed(uid) ==
    /\ \/ \E m \in With(uid) :
             /\ "failed" \in AnswersOf[m]
             /\ failures' = [failures EXCEPT ![m] = IF @ < MaxAttempts THEN @ + 1 ELSE @]
       \/ With(uid) = {} /\ UNCHANGED failures
    /\ batch' = batch \ {Min(batch)}
    /\ SkipUID(uid)
    /\ UNCHANGED <<accepted, refused>>

Forward ==
    /\ pc = "batch" /\ batch # {}
    /\ LET uid == Min(batch) IN
          ForwardAccepted(uid) \/ ForwardRejected(uid) \/ ForwardFailed(uid)
    /\ UNCHANGED <<mailbox, disk, boot, limit, faults>>

(***************************************************************************)
(* markSeen, whose error is dropped, and the cursor.  A bootstrap keeps    *)
(* the cursor at 0 for the messages it accepts.                            *)
(***************************************************************************)
MarkSeen ==
    /\ pc = "mark"
    /\ \/ seen' = seen \cup With(Min(batch)) /\ UNCHANGED faults
       \/ MayFault /\ UNCHANGED seen
    /\ batch' = batch \ {Min(batch)}
    /\ IF boot THEN pc' = "batch" /\ UNCHANGED <<st, then>>
       ELSE Save([st EXCEPT !.last = Min(batch)], "batch")
    /\ UNCHANGED <<uidOf, uidNext, validity, arrived, opened, disk, boot, limit, record>>

(***************************************************************************)
(* The batch is done.  Only a bootstrap that was not cut short has covered *)
(* everything below UidNext.                                               *)
(***************************************************************************)
FinishUncapped ==
    /\ pc = "batch" /\ batch = {}
    /\ IF boot
       THEN Save([st EXCEPT !.last = limit - 1], "wait") /\ UNCHANGED <<boot, limit, batch>>
       ELSE EndTick
    /\ UNCHANGED <<mailbox, disk, record, faults>>

Finish ==
    /\ pc = "batch" /\ batch = {}
    /\ IF boot /\ max = 0
       THEN Save([st EXCEPT !.last = limit - 1], "wait") /\ UNCHANGED <<boot, limit, batch>>
       ELSE EndTick
    /\ UNCHANGED <<mailbox, disk, record, faults>>

(***************************************************************************)
(* WriteFile.  A failure is logged and forgotten; the process may also     *)
(* stop while the file is truncated, and a file that does not parse is a   *)
(* zero state.                                                             *)
(***************************************************************************)
Proceed == IF then = "batch" THEN pc' = then /\ UNCHANGED locals ELSE EndTick

SaveState ==
    /\ pc = "save"
    /\ \/ disk' = st /\ Proceed /\ UNCHANGED faults
       \/ MayFault /\ UNCHANGED disk /\ Proceed
       \/ MayFault /\ disk' = NoState /\ EndTick
    /\ UNCHANGED <<mailbox, record>>

\* The process stops, or its session breaks, and the next tick starts over.
Stop ==
    /\ pc # "wait" /\ MayFault
    /\ EndTick
    /\ UNCHANGED <<mailbox, disk, record>>

Poll ==
    /\ Select \/ Search \/ Forward \/ MarkSeen \/ Finish \/ SaveState \/ Stop
    /\ UNCHANGED max

-----------------------------------------------------------------------------
(***************************************************************************)
(* The mailbox, which the poller only reads and marks.                     *)
(***************************************************************************)
Arrive(m) ==
    /\ m \notin arrived
    /\ arrived' = arrived \cup {m}
    /\ uidOf' = [uidOf EXCEPT ![m] = uidNext]
    /\ uidNext' = uidNext + 1
    /\ UNCHANGED <<validity, seen, opened, pc, locals, disk, record, faults>>

\* The owner of the mailbox reads a message, or deletes it.
Open(m) ==
    /\ m \in InBox
    /\ opened' = opened \cup {m}
    /\ \/ seen' = seen \cup {m} /\ UNCHANGED uidOf
       \/ uidOf' = [uidOf EXCEPT ![m] = 0] /\ UNCHANGED seen
    /\ UNCHANGED <<uidNext, validity, arrived, pc, locals, disk, record, faults>>

\* The server rebuilds the mailbox and numbers its messages anew.
Renumber ==
    /\ validity < MaxValidity /\ pc = "wait"
    /\ validity' = validity + 1
    /\ uidNext' = Cardinality(InBox) + 1
    /\ \E f \in [InBox -> 1..Cardinality(InBox)] :
          /\ \A m, n \in InBox : f[m] = f[n] => m = n
          /\ uidOf' = [m \in Mail |-> IF m \in InBox THEN f[m] ELSE 0]
    /\ UNCHANGED <<seen, arrived, opened, pc, locals, disk, record, faults>>

Mailbox == ((\E m \in Mail : Arrive(m) \/ Open(m)) \/ Renumber) /\ UNCHANGED max

Next == Poll \/ Mailbox

Spec == Init /\ [][Next]_vars

\* The ticker fires for ever, and every call of a tick has a deadline.
FairSpec == Spec /\ WF_vars(Poll)

-----------------------------------------------------------------------------
(***************************************************************************)
(* The comments of skipUID and ErrRejected: the cursor passes a message    *)
(* that was not accepted only if the API rejected it, or it failed         *)
(* maxAttempts times, and such a message is left unread.  The owner of the *)
(* mailbox may have opened it in the meantime.                             *)
(***************************************************************************)
SettledOrVisible(m) ==
    \/ m \in accepted \/ m \in opened
    \/ m \notin seen /\ (m \in refused \/ failures[m] = MaxAttempts)

NothingPassedOver ==
    \A m \in InBox :
        disk.validity = validity /\ uidOf[m] <= disk.last => SettledOrVisible(m)

(***************************************************************************)
(* skipUID: a message the API never accepts does not block the ones behind *)
(* it.  Every message that arrives is settled, whatever the API answers    *)
(* and although the poller may stop and lose its state file on the way.    *)
(***************************************************************************)
EveryMessageSettled ==
    \A m \in Mail :
        m \in arrived ~>
            \/ m \in accepted \/ m \in opened \/ m \in refused
            \/ failures[m] = MaxAttempts

(***************************************************************************)
(* TestSkipUIDRetriesThenSkips: "The skip must survive a restart".  The    *)
(* cursor in the state file never moves back in one numbering of the       *)
(* mailbox.                                                                *)
(***************************************************************************)
CursorNeverMovesBack ==
    [][disk'.validity = disk.validity => disk'.last >= disk.last]_vars

===============================================================================
