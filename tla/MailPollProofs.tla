---------------------------- MODULE MailPollProofs ----------------------------
(***************************************************************************)
(* Proofs about the IMAP poller, for every set of messages, every answer   *)
(* of the API, every batch limit, every number of attempts, of faults and  *)
(* of renumberings of the mailbox.                                         *)
(***************************************************************************)
EXTENDS MailPoll, TLAPS, FiniteSetTheorems, WellFoundedInduction

-----------------------------------------------------------------------------
(***************************************************************************)
(* The inductive invariant.                                                *)
(***************************************************************************)

\* The server gives every message of a numbering a UID of its own.
Numbered ==
    /\ \A m \in Mail : uidOf[m] < uidNext
    /\ \A m, n \in InBox : uidOf[m] = uidOf[n] => m = n
    /\ InBox \subseteq arrived /\ IsFiniteSet(arrived)

\* Only the owner of the mailbox and an accepted message set \Seen.
SeenIsSettled == seen \subseteq accepted \cup opened

\* What a cursor of the present numbering says of the mailbox is true.
Faithful(s) ==
    /\ s.last < uidNext /\ s.failUid < uidNext
    /\ \A m \in InBox :
          /\ uidOf[m] <= s.last => SettledOrVisible(m)
          /\ uidOf[m] = s.failUid => failures[m] >= s.failCount

Current(s) ==
    /\ s.validity <= validity
    /\ s.validity = validity => Faithful(s)

\* A tick works on a cursor of the present numbering.
InTick ==
    pc # "wait" => st.validity = validity /\ 0 < limit /\ limit <= uidNext

\* The poller is in the middle of a batch.
Sending == pc \in {"batch", "mark"} \/ (pc = "save" /\ then = "batch")

\* The batch has left out nothing that the cursor is going to pass.
Passed(m) ==
    \/ boot /\ max = 0 /\ uidOf[m] < limit
    \/ \E u \in batch : uidOf[m] <= u

BatchIsWhole ==
    /\ \A u \in batch : 0 < u /\ u < uidNext
    /\ \A m \in InBox : Passed(m) => uidOf[m] \in batch \/ SettledOrVisible(m)

NothingLeftOut == Sending => BatchIsWhole

\* A message is marked seen only after the API accepted it.
Marking == pc = "mark" => batch # {} /\ With(Min(batch)) \subseteq accepted

IInv ==
    /\ Numbered /\ SeenIsSettled /\ Current(disk) /\ Current(st)
    /\ InTick /\ NothingLeftOut /\ Marking

Inv == TypeOK /\ IInv

-----------------------------------------------------------------------------
(***************************************************************************)
(* The batch: its first UID, and what a batch limit leaves of it.          *)
(***************************************************************************)

\* A batch that is not empty has a smallest UID.
LEMMA FirstUID ==
  ASSUME NEW S \in SUBSET Nat, S # {}
  PROVE  Min(S) \in S /\ \A u \in S : Min(S) <= u
  <1>1. PICK x \in S : \A y \in S : ~ (<<y, x>> \in OpToRel(<, Nat))
    BY NatLessThanWellFounded, WFMin
  <1>2. ASSUME NEW y \in S PROVE x <= y
    <2>1. <<y, x>> \notin {ss \in Nat \X Nat : ss[1] < ss[2]}
      BY <1>1 DEF OpToRel
    <2>2. x \in Nat /\ y \in Nat
      OBVIOUS
    <2> QED BY <2>1, <2>2
  <1> QED BY <1>2 DEF Min

\* cfg.max keeps the smallest UIDs.
LEMMA CappedIsPrefix ==
  ASSUME NEW S \in SUBSET Nat, max \in Nat, NEW u \in Capped(S), NEW v \in S, v < u
  PROVE  v \in Capped(S)
  <1> DEFINE Below(x) == {y \in S : y < x}
  <1>1. CASE max = 0
    BY <1>1 DEF Capped
  <1>2. CASE max # 0
    <2>1. u \in S /\ Cardinality(Below(u)) < max
      BY <1>2 DEF Capped
    <2>2. IsFiniteSet(Below(u))
      <3>1. u \in Nat
        BY <2>1
      <3>2. \A y \in S : y \in Nat /\ (y < u => y <= u)
        BY <3>1
      <3>3. Below(u) \in SUBSET Nat /\ \A y \in Below(u) : y <= u
        BY <3>2 DEF Below
      <3> HIDE DEF Below
      <3> QED BY <3>1, <3>3, FS_BoundedSetOfNaturals
    <2>3. Below(v) \in SUBSET Below(u)
      <3>1. \A y \in S : y < v => y < u
        BY <2>1
      <3> QED BY <3>1 DEF Below
    <2>4. IsFiniteSet(Below(v)) /\ Cardinality(Below(v)) <= Cardinality(Below(u))
      <3> HIDE DEF Below
      <3> QED BY <2>2, <2>3, FS_Subset
    <2>5. Cardinality(Below(v)) \in Nat /\ Cardinality(Below(u)) \in Nat
      <3> HIDE DEF Below
      <3> QED BY <2>2, <2>4, FS_CardinalityType
    <2>6. Cardinality(Below(v)) < max
      <3> HIDE DEF Below
      <3> QED BY <2>1, <2>4, <2>5
    <2> QED BY <1>2, <2>6 DEF Capped
  <1> QED BY <1>1, <1>2

LEMMA CappedIsPart ==
  ASSUME NEW S PROVE Capped(S) \subseteq S
  BY DEF Capped

-----------------------------------------------------------------------------
(***************************************************************************)
(* Type correctness.                                                       *)
(***************************************************************************)
LEMMA NoStateType == NoState \in State
  BY DEF NoState, State

LEMMA TypeInit == Init => TypeOK
  <1>1. 0 \in 0..MaxAttempts /\ 0 \in 0..MaxFaults
    BY ConstantsAssumption
  <1>2. Init => uidOf \in [Mail -> Nat] /\ uidNext \in Nat \ {0} /\ validity \in Nat \ {0}
    BY DEF Init
  <1>3. Init => failures \in [Mail -> 0..MaxAttempts] /\ faults \in 0..MaxFaults
    BY <1>1 DEF Init
  <1>4. Init => boot \in BOOLEAN /\ st \in State /\ disk \in State
    BY NoStateType DEF Init
  <1>5. Init => seen \subseteq Mail /\ arrived \subseteq Mail /\ opened \subseteq Mail
    BY DEF Init
  <1>6. Init => /\ max \in Limits /\ pc \in {"wait", "search", "batch", "mark", "save"}
                /\ then \in {"wait", "batch"} /\ limit \in Nat /\ batch \subseteq Nat
                /\ accepted \subseteq Mail /\ refused \subseteq Mail
    BY DEF Init
  <1> QED BY <1>2, <1>3, <1>4, <1>5, <1>6 DEF TypeOK

\* A saveState of a well-typed cursor, and the end of a tick.
LEMMA SaveType ==
  ASSUME NEW s \in State, NEW next \in {"wait", "batch"}, Save(s, next)
  PROVE  st' \in State /\ then' \in {"wait", "batch"} /\ pc' = "save"
  BY DEF Save

LEMMA EndTickType ==
  ASSUME EndTick
  PROVE  /\ pc' = "wait" /\ then' \in {"wait", "batch"} /\ st' \in State
         /\ boot' \in BOOLEAN /\ limit' \in Nat /\ batch' \subseteq Nat
  BY NoStateType DEF EndTick

LEMMA FaultType ==
  ASSUME faults \in 0..MaxFaults, MayFault
  PROVE  faults' \in 0..MaxFaults
  BY ConstantsAssumption DEF MayFault

LEMMA SkipUIDType ==
  ASSUME TypeOK, NEW uid \in Nat, SkipUID(uid)
  PROVE  st' \in State /\ then' \in {"wait", "batch"} /\ pc' = "save"
  <1> DEFINE count == IF st.failUid = uid THEN st.failCount + 1 ELSE 1
  <1>1. st \in State /\ count \in Nat
    BY DEF TypeOK, State
  <1>2. [st EXCEPT !.failUid = uid, !.failCount = count] \in State
    BY <1>1 DEF State
  <1>3. Advanced(uid) \in State
    BY <1>1 DEF State, Advanced
  <1> QED BY <1>2, <1>3, SaveType DEF SkipUID

LEMMA TypeNext == Inv /\ [Next]_vars => TypeOK'
  <1> SUFFICES ASSUME Inv, [Next]_vars PROVE TypeOK'
    OBVIOUS
  <1> USE ConstantsAssumption
  <1>0. TypeOK /\ InTick /\ Numbered /\ Marking
    BY DEF Inv, IInv
  <1>1. CASE Select /\ UNCHANGED max
    BY <1>0, <1>1 DEF TypeOK, Select, Loaded, State, NoState, mailbox, record
  <1>2. CASE Search /\ UNCHANGED max
    <2>1. UNCHANGED <<mailbox, max, disk, record>>
      BY <1>2 DEF Search
    <2>2. CASE Hits # {} /\ pc' = "batch" /\ UNCHANGED <<st, boot, limit, then, faults>>
                 /\ batch' = Capped({uidOf[m] : m \in Hits})
      <3>1. {uidOf[m] : m \in Hits} \subseteq Nat
        BY <1>0 DEF TypeOK, Hits, InBox
      <3>2. batch' \subseteq Nat
        BY <2>2, <3>1, CappedIsPart
      <3> QED BY <1>0, <2>1, <2>2, <3>2 DEF TypeOK, mailbox, record
    <2>3. CASE /\ Save([st EXCEPT !.last = limit - 1], "wait")
               /\ UNCHANGED <<boot, limit, batch, faults>>
      <3>1. limit \in Nat /\ 0 < limit
        BY <1>0, <1>2 DEF TypeOK, InTick, Search
      <3>2. [st EXCEPT !.last = limit - 1] \in State
        BY <1>0, <3>1 DEF TypeOK, State
      <3> QED BY <1>0, <2>1, <2>3, <3>2, SaveType DEF TypeOK, mailbox, record
    <2>4. CASE EndTick /\ UNCHANGED faults
      BY <1>0, <2>1, <2>4, EndTickType DEF TypeOK, mailbox, record
    <2> QED BY <1>2, <2>2, <2>3, <2>4 DEF Search
  <1>3. CASE Forward /\ UNCHANGED max
    <2> DEFINE uid == Min(batch)
    <2>1. uid \in Nat
      BY <1>0, <1>3, FirstUID DEF TypeOK, Forward
    <2>2. UNCHANGED <<mailbox, max, disk, boot, limit, faults>>
      BY <1>3 DEF Forward
    <2>3. CASE ForwardAccepted(uid)
      <3>1. accepted' \subseteq Mail
        BY <1>0, <2>3 DEF TypeOK, ForwardAccepted, With
      <3>2. st' \in State
        BY <1>0, <2>3 DEF TypeOK, ForwardAccepted, State
      <3> QED BY <1>0, <2>2, <2>3, <3>1, <3>2 DEF TypeOK, ForwardAccepted, mailbox
    <2>4. CASE ForwardRejected(uid)
      <3>1. refused' \subseteq Mail
        BY <1>0, <2>4 DEF TypeOK, ForwardRejected, With
      <3>2. Advanced(uid) \in State
        BY <1>0, <2>1 DEF TypeOK, Advanced, State
      <3> QED BY <1>0, <2>2, <2>4, <3>1, <3>2, SaveType DEF TypeOK, ForwardRejected, mailbox
    <2>5. CASE ForwardFailed(uid)
      <3>1. failures' \in [Mail -> 0..MaxAttempts]
        BY <1>0, <2>5 DEF TypeOK, ForwardFailed, With
      <3>2. st' \in State /\ then' \in {"wait", "batch"} /\ pc' = "save"
        BY <1>0, <2>1, <2>5, SkipUIDType DEF ForwardFailed
      <3> QED BY <1>0, <2>2, <2>5, <3>1, <3>2 DEF TypeOK, ForwardFailed, mailbox
    <2> QED BY <1>3, <2>3, <2>4, <2>5 DEF Forward
  <1>4. CASE MarkSeen /\ UNCHANGED max
    <2>1. batch # {}
      BY <1>0, <1>4 DEF MarkSeen, Marking
    <2>2. Min(batch) \in Nat
      BY <1>0, <2>1, FirstUID DEF TypeOK
    <2>3. seen' \subseteq Mail
      BY <1>0, <1>4 DEF TypeOK, MarkSeen, With
    <2>4. faults' \in 0..MaxFaults
      BY <1>0, <1>4, FaultType DEF TypeOK, MarkSeen
    <2>5. st' \in State /\ then' \in {"wait", "batch"} /\ pc' \in {"batch", "save"}
      <3>1. [st EXCEPT !.last = Min(batch)] \in State
        BY <1>0, <2>2 DEF TypeOK, State
      <3> QED BY <1>0, <1>4, <3>1, SaveType DEF TypeOK, MarkSeen
    <2>6. UNCHANGED <<uidOf, uidNext, validity, arrived, opened, max, disk, boot, limit, record>>
          /\ batch' \subseteq batch
      BY <1>4 DEF MarkSeen
    <2> QED BY <1>0, <2>3, <2>4, <2>5, <2>6 DEF TypeOK, record
  <1>5. CASE Finish /\ UNCHANGED max
    <2>1. limit \in Nat /\ 0 < limit
      BY <1>0, <1>5 DEF TypeOK, InTick, Finish
    <2>2. [st EXCEPT !.last = limit - 1] \in State
      BY <1>0, <2>1 DEF TypeOK, State
    <2>3. UNCHANGED <<mailbox, max, disk, record, faults>>
      BY <1>5 DEF Finish
    <2>4. /\ st' \in State /\ then' \in {"wait", "batch"} /\ pc' \in {"wait", "save"}
          /\ boot' \in BOOLEAN /\ limit' \in Nat /\ batch' \subseteq Nat
      BY <1>0, <1>5, <2>2, SaveType, EndTickType DEF Finish, TypeOK
    <2> QED BY <1>0, <2>3, <2>4 DEF TypeOK, mailbox, record
  <1>6. CASE SaveState /\ UNCHANGED max
    <2>1. disk' \in State
      BY <1>0, <1>6, NoStateType DEF TypeOK, SaveState
    <2>2. faults' \in 0..MaxFaults
      BY <1>0, <1>6, FaultType DEF TypeOK, SaveState
    <2>3. /\ st' \in State /\ then' \in {"wait", "batch"} /\ pc' \in {"wait", "batch"}
          /\ boot' \in BOOLEAN /\ limit' \in Nat /\ batch' \subseteq Nat
      BY <1>0, <1>6, EndTickType DEF SaveState, Proceed, TypeOK, locals
    <2>4. UNCHANGED <<mailbox, max, record>>
      BY <1>6 DEF SaveState
    <2> QED BY <1>0, <2>1, <2>2, <2>3, <2>4 DEF TypeOK, mailbox, record
  <1>7. CASE Stop /\ UNCHANGED max
    BY <1>0, <1>7, EndTickType, FaultType DEF TypeOK, Stop, mailbox, record
  <1>8. ASSUME NEW m \in Mail, Arrive(m), UNCHANGED max PROVE TypeOK'
    BY <1>0, <1>8 DEF TypeOK, Arrive, locals, record
  <1>9. ASSUME NEW m \in Mail, Open(m), UNCHANGED max PROVE TypeOK'
    BY <1>0, <1>9 DEF TypeOK, Open, locals, record
  <1>10. CASE Renumber /\ UNCHANGED max
    <2>1. Cardinality(InBox) \in Nat
      BY <1>0, FS_Subset, FS_CardinalityType DEF Numbered
    <2>2. uidOf' \in [Mail -> Nat]
      BY <1>10, <2>1 DEF Renumber
    <2>3. uidNext' \in Nat \ {0} /\ validity' \in Nat \ {0}
      BY <1>0, <1>10, <2>1 DEF TypeOK, Renumber
    <2>4. UNCHANGED <<seen, arrived, opened, pc, locals, disk, record, faults, max>>
      BY <1>10 DEF Renumber
    <2> QED BY <1>0, <2>2, <2>3, <2>4 DEF TypeOK, locals, record
  <1>11. CASE UNCHANGED vars
    BY <1>0, <1>11 DEF TypeOK, vars, mailbox, locals, record
  <1> QED
    BY <1>1, <1>2, <1>3, <1>4, <1>5, <1>6, <1>7, <1>8, <1>9, <1>10, <1>11
    DEF Next, Poll, Mailbox

-----------------------------------------------------------------------------
(***************************************************************************)
(* What a step may do to the record of a message: it only grows, and only  *)
(* an accepted message or one its owner opened becomes seen.               *)
(***************************************************************************)
RecordGrows ==
    /\ accepted \subseteq accepted' /\ refused \subseteq refused' /\ opened \subseteq opened'
    /\ \A m \in Mail : failures[m] <= failures'[m]
    /\ seen' \subseteq seen \cup accepted \cup opened'

SameMailbox == UNCHANGED <<uidOf, uidNext, validity, arrived, opened>>

LEMMA ForwardKeeps ==
  ASSUME Inv, Forward
  PROVE  RecordGrows /\ SameMailbox
  <1> DEFINE uid == Min(batch)
  <1>1. TypeOK
    BY DEF Inv
  <1>2. SameMailbox /\ seen' = seen
    BY DEF Forward, mailbox, SameMailbox
  <1>3. ForwardAccepted(uid) \/ ForwardRejected(uid) \/ ForwardFailed(uid)
    BY DEF Forward
  <1>4. accepted \subseteq accepted' /\ refused \subseteq refused'
    BY <1>3 DEF ForwardAccepted, ForwardRejected, ForwardFailed
  <1>5. \A m \in Mail : failures[m] \in Nat
    BY <1>1, ConstantsAssumption DEF TypeOK
  <1>6. \A m \in Mail : failures[m] <= failures'[m]
    <2>1. CASE UNCHANGED failures
      BY <2>1, <1>5
    <2>2. CASE ForwardFailed(uid)
      BY <2>2, <1>1, <1>5, ConstantsAssumption DEF ForwardFailed, TypeOK
    <2> QED BY <1>3, <2>1, <2>2 DEF ForwardAccepted, ForwardRejected
  <1> QED BY <1>2, <1>4, <1>6 DEF RecordGrows, SameMailbox

LEMMA PollKeeps ==
  ASSUME Inv, Poll
  PROVE  RecordGrows /\ SameMailbox
  <1>1. TypeOK /\ Marking
    BY DEF Inv, IInv
  <1>2. \A m \in Mail : failures[m] <= failures[m]
    BY <1>1, ConstantsAssumption DEF TypeOK
  <1>3. CASE Forward
    BY <1>3, ForwardKeeps
  <1>4. CASE MarkSeen
    <2>1. SameMailbox /\ UNCHANGED record
      BY <1>4 DEF MarkSeen, SameMailbox
    <2>2. seen' \subseteq seen \cup accepted
      BY <1>1, <1>4 DEF MarkSeen, Marking
    <2> QED BY <1>2, <2>1, <2>2 DEF RecordGrows, SameMailbox, record
  <1>5. CASE Select \/ Search \/ Finish \/ SaveState \/ Stop
    <2>1. UNCHANGED <<mailbox, record>>
      BY <1>5 DEF Select, Search, Finish, SaveState, Stop
    <2> QED BY <1>2, <2>1 DEF RecordGrows, SameMailbox, mailbox, record
  <1> QED BY <1>3, <1>4, <1>5 DEF Poll

\* What is settled stays settled.
LEMMA SettledStays ==
  ASSUME Inv, TypeOK', RecordGrows, NEW m \in Mail, SettledOrVisible(m)
  PROVE  SettledOrVisible(m)'
  <1>1. /\ failures[m] \in 0..MaxAttempts /\ failures'[m] \in 0..MaxAttempts
        /\ failures[m] <= failures'[m]
    BY DEF Inv, TypeOK, RecordGrows
  <1>2. failures[m] = MaxAttempts => failures'[m] = MaxAttempts
    BY <1>1, ConstantsAssumption
  <1> QED BY <1>2 DEF RecordGrows, SettledOrVisible

\* An unsettled message is not seen, so giving it up settles it.
LEMMA UnseenUnlessSettled ==
  ASSUME SeenIsSettled', NEW m \in Mail, m \in refused' \/ failures'[m] = MaxAttempts
  PROVE  SettledOrVisible(m)'
  BY DEF SeenIsSettled, SettledOrVisible

\* A cursor that was true before a step of the poller is true after it.
LEMMA FaithfulStays ==
  ASSUME Inv, TypeOK', RecordGrows, SameMailbox
  PROVE  \A s \in State : Current(s) => Current(s)'
  <1> SUFFICES ASSUME NEW s \in State, Current(s) PROVE Current(s)'
    OBVIOUS
  <1>1. s.validity <= validity' /\ validity' = validity
    BY DEF Current, SameMailbox
  <1>2. ASSUME s.validity = validity' PROVE Faithful(s)'
    <2>1. Faithful(s) /\ s.failCount \in Nat
      BY <1>1, <1>2 DEF Current, State
    <2>2. s.last < uidNext' /\ s.failUid < uidNext'
      BY <2>1 DEF Faithful, SameMailbox
    <2>3. ASSUME NEW m \in InBox'
          PROVE  /\ uidOf'[m] <= s.last => SettledOrVisible(m)'
                 /\ uidOf'[m] = s.failUid => failures'[m] >= s.failCount
      <3>1. m \in InBox /\ m \in Mail /\ uidOf'[m] = uidOf[m]
        BY <2>3 DEF InBox, SameMailbox
      <3>2. uidOf[m] <= s.last => SettledOrVisible(m)'
        BY <2>1, <3>1, SettledStays DEF Faithful
      <3>3. failures[m] \in Nat /\ failures'[m] \in Nat /\ failures[m] <= failures'[m]
        BY <3>1, ConstantsAssumption DEF Inv, TypeOK, RecordGrows
      <3>4. uidOf[m] = s.failUid => failures'[m] >= s.failCount
        BY <2>1, <3>1, <3>3 DEF Faithful
      <3> QED BY <3>1, <3>2, <3>4
    <2> QED BY <2>2, <2>3 DEF Faithful
  <1> QED BY <1>1, <1>2 DEF Current

\* A file that cannot be read is a cursor of no numbering.
LEMMA NoStateCurrent ==
  ASSUME TypeOK
  PROVE  Current(NoState)
  BY DEF TypeOK, Current, NoState

-----------------------------------------------------------------------------
(***************************************************************************)
(* The parts of the invariant that every step of the poller keeps.         *)
(***************************************************************************)
LEMMA PollFrame ==
  ASSUME Inv, Poll
  PROVE  Numbered' /\ SeenIsSettled'
  <1>1. RecordGrows /\ SameMailbox
    BY PollKeeps
  <1>2. Numbered'
    BY <1>1 DEF Inv, IInv, Numbered, SameMailbox, InBox
  <1>3. SeenIsSettled'
    BY <1>1 DEF Inv, IInv, SeenIsSettled, RecordGrows
  <1> QED BY <1>2, <1>3

\* The first UID of a batch stands for at most one message.
LEMMA FirstOfBatch ==
  ASSUME Inv, Sending, batch # {}
  PROVE  /\ Min(batch) \in batch /\ Min(batch) \in Nat \ {0} /\ Min(batch) < uidNext
         /\ \A u \in batch : Min(batch) <= u
         /\ With(Min(batch)) \subseteq InBox
         /\ \A m, n \in With(Min(batch)) : m = n
  <1>1. TypeOK /\ BatchIsWhole /\ Numbered
    BY DEF Inv, IInv, NothingLeftOut
  <1>2. Min(batch) \in batch /\ \A u \in batch : Min(batch) <= u
    BY <1>1, FirstUID DEF TypeOK
  <1>3. Min(batch) \in Nat \ {0} /\ Min(batch) < uidNext
    <2>1. \A u \in batch : u \in Nat /\ 0 < u /\ u < uidNext
      BY <1>1 DEF TypeOK, BatchIsWhole
    <2> QED BY <1>2, <2>1
  <1>4. With(Min(batch)) \subseteq InBox
    BY <1>3 DEF With, InBox
  <1>5. \A m, n \in With(Min(batch)) : m = n
    BY <1>1, <1>4 DEF With, Numbered
  <1> QED BY <1>2, <1>3, <1>4, <1>5

(***************************************************************************)
(* A step that settles the message of the first UID of a batch: everything *)
(* up to that UID is settled, and the rest of the batch is still whole.    *)
(***************************************************************************)
LEMMA FirstSettled ==
  ASSUME Inv, TypeOK', RecordGrows, SameMailbox, Sending, batch # {},
         \A m \in With(Min(batch)) : SettledOrVisible(m)'
  PROVE  \A m \in InBox' : uidOf'[m] <= Min(batch) => SettledOrVisible(m)'
  <1> SUFFICES ASSUME NEW m \in InBox', uidOf'[m] <= Min(batch)
               PROVE  SettledOrVisible(m)'
    OBVIOUS
  <1>1. m \in InBox /\ m \in Mail /\ uidOf[m] <= Min(batch) /\ uidOf[m] \in Nat
    BY DEF InBox, SameMailbox, Inv, TypeOK
  <1>2. CASE uidOf[m] = Min(batch)
    BY <1>1, <1>2 DEF With
  <1>3. CASE uidOf[m] # Min(batch)
    <2>1. uidOf[m] \notin batch /\ Passed(m)
      BY <1>1, <1>3, FirstOfBatch DEF Passed
    <2>2. SettledOrVisible(m)
      BY <1>1, <2>1 DEF Inv, IInv, NothingLeftOut, BatchIsWhole
    <2> QED BY <1>1, <2>2, SettledStays
  <1> QED BY <1>2, <1>3

LEMMA RestIsWhole ==
  ASSUME Inv, TypeOK', RecordGrows, SameMailbox, Sending, batch # {},
         UNCHANGED <<boot, limit, max>>, batch' = batch \ {Min(batch)},
         \A m \in With(Min(batch)) : SettledOrVisible(m)'
  PROVE  BatchIsWhole'
  <1>1. BatchIsWhole
    BY DEF Inv, IInv, NothingLeftOut
  <1>2. \A u \in batch' : 0 < u /\ u < uidNext'
    BY <1>1 DEF BatchIsWhole, SameMailbox
  <1>3. ASSUME NEW m \in InBox', Passed(m)'
        PROVE  uidOf'[m] \in batch' \/ SettledOrVisible(m)'
    <2>1. m \in InBox /\ m \in Mail /\ uidOf'[m] = uidOf[m]
      BY <1>3 DEF InBox, SameMailbox
    <2>2. Passed(m)
      BY <1>3, <2>1 DEF Passed
    <2>3. CASE uidOf[m] = Min(batch)
      BY <2>1, <2>3 DEF With
    <2>4. CASE uidOf[m] # Min(batch)
      <3>1. uidOf[m] \in batch \/ SettledOrVisible(m)
        BY <1>1, <2>1, <2>2 DEF BatchIsWhole
      <3> QED BY <2>1, <2>4, <3>1, SettledStays
    <2> QED BY <2>3, <2>4
  <1> QED BY <1>2, <1>3 DEF BatchIsWhole

\* The cursor after a message has been passed.
LEMMA PassedFirst ==
  ASSUME Inv, TypeOK', RecordGrows, SameMailbox, Sending, batch # {},
         \A m \in With(Min(batch)) : SettledOrVisible(m)',
         pc # "wait",
         \/ st' = Advanced(Min(batch))
         \/ st' = [st EXCEPT !.last = Min(batch)]
  PROVE  Current(st)' /\ st'.validity = validity'
  <1> DEFINE uid == Min(batch)
  <1>1. st.validity = validity /\ validity' = validity /\ uidNext' = uidNext
    BY DEF Inv, IInv, InTick, SameMailbox
  <1>2. st \in State /\ Faithful(st)
    BY <1>1 DEF Inv, IInv, TypeOK, Current
  <1>3. st'.validity = validity' /\ st'.last = uid
    BY <1>1, <1>2 DEF State, Advanced
  <1>4. \A m \in InBox' : uidOf'[m] <= st'.last => SettledOrVisible(m)'
    BY <1>3, FirstSettled
  <1>5. uid < uidNext' /\ 0 < uidNext' /\ uidNext' \in Nat
    BY <1>1, FirstOfBatch DEF Inv, TypeOK
  <1>6. CASE st' = Advanced(uid)
    <2>1. st'.failUid = 0 /\ st'.failCount = 0
      BY <1>2, <1>6 DEF State, Advanced
    <2>2. \A m \in InBox' : uidOf'[m] # 0
      BY DEF InBox
    <2>3. Faithful(st)'
      BY <1>3, <1>4, <1>5, <2>1, <2>2 DEF Faithful
    <2> QED BY <1>3, <2>3 DEF Current, TypeOK
  <1>7. CASE st' = [st EXCEPT !.last = uid]
    <2>1. st'.failUid = st.failUid /\ st'.failCount = st.failCount
      BY <1>2, <1>7 DEF State
    <2>2. ASSUME NEW m \in InBox', uidOf'[m] = st'.failUid
          PROVE  failures'[m] >= st'.failCount
      <3>1. m \in InBox /\ m \in Mail /\ uidOf[m] = st.failUid
        BY <2>1, <2>2 DEF InBox, SameMailbox
      <3>2. failures[m] >= st.failCount
        BY <1>2, <3>1 DEF Faithful
      <3>3. failures[m] \in Nat /\ failures'[m] \in Nat /\ failures[m] <= failures'[m]
        BY <3>1, ConstantsAssumption DEF Inv, TypeOK, RecordGrows
      <3>4. st.failCount \in Nat
        BY <1>2 DEF State
      <3> QED BY <2>1, <3>2, <3>3, <3>4
    <2>3. st'.failUid < uidNext'
      BY <1>1, <1>2, <2>1 DEF Faithful
    <2>4. Faithful(st)'
      BY <1>3, <1>4, <1>5, <2>2, <2>3 DEF Faithful
    <2> QED BY <1>3, <2>4 DEF Current, TypeOK
  <1> QED BY <1>6, <1>7

-----------------------------------------------------------------------------
(***************************************************************************)
(* The steps of the poller.                                                *)
(***************************************************************************)

\* The cursor and the batch after a step: what is left of the invariant.
Locals == Current(disk) /\ Current(st) /\ InTick /\ NothingLeftOut /\ Marking

\* A step that leaves the cursors alone, or replaces one by the other.
LEMMA CursorsStay ==
  ASSUME Inv, TypeOK', Poll
  PROVE  /\ disk' = disk \/ disk' = NoState \/ disk' = st => Current(disk)'
         /\ st' = st \/ st' = NoState \/ st' = disk => Current(st)'
  <1>1. RecordGrows /\ SameMailbox
    BY PollKeeps
  <1>2. st \in State /\ disk \in State /\ NoState \in State
    BY NoStateType DEF Inv, TypeOK
  <1>3. Current(st) /\ Current(disk) /\ Current(NoState)
    BY NoStateCurrent DEF Inv, IInv
  <1>4. \A s \in State : Current(s) => Current(s)'
    BY <1>1, FaithfulStays
  <1>5. \A s \in State : Current(s) =>
           /\ s.validity <= validity'
           /\ s.validity = validity' =>
                 /\ s.last < uidNext' /\ s.failUid < uidNext'
                 /\ \A m \in InBox' :
                       /\ uidOf'[m] <= s.last => SettledOrVisible(m)'
                       /\ uidOf'[m] = s.failUid => failures'[m] >= s.failCount
    BY <1>4 DEF Current, Faithful
  <1> QED BY <1>2, <1>3, <1>5 DEF Current, Faithful

LEMMA EndTickLocals ==
  ASSUME EndTick, Current(disk)', Current(st)'
  PROVE  Locals'
  BY DEF EndTick, Locals, InTick, NothingLeftOut, Sending, Marking

LEMMA SelectStep ==
  ASSUME Inv, TypeOK', Poll, Select
  PROVE  Locals'
  <1>1. /\ SameMailbox /\ disk' = disk /\ st' = Loaded /\ pc' = "search"
        /\ limit' = uidNext /\ uidNext \in Nat \ {0}
    BY DEF Select, SameMailbox, mailbox, Inv, TypeOK
  <1>2. Current(disk)'
    BY <1>1, CursorsStay
  <1>3. Current(st)' /\ st'.validity = validity'
    <2>1. CASE disk.validity = validity
      <3>1. st' = disk
        BY <1>1, <2>1 DEF Loaded
      <3>2. Current(st)'
        BY <3>1, CursorsStay
      <3> QED BY <1>1, <2>1, <3>1, <3>2 DEF SameMailbox
    <2>2. CASE disk.validity # validity
      <3>1. st' = [NoState EXCEPT !.validity = validity]
        BY <1>1, <2>2 DEF Loaded
      <3>2. st'.validity = validity' /\ st'.last = 0 /\ st'.failUid = 0 /\ st'.failCount = 0
        BY <1>1, <3>1 DEF NoState, SameMailbox
      <3>3. \A m \in InBox' : uidOf'[m] \in Nat \ {0}
        BY DEF InBox, TypeOK
      <3>4. uidNext' \in Nat \ {0} /\ validity' \in Nat
        BY DEF TypeOK
      <3>5. Faithful(st)'
        BY <3>2, <3>3, <3>4 DEF Faithful
      <3> QED BY <3>2, <3>4, <3>5 DEF Current
    <2> QED BY <2>1, <2>2
  <1>4. InTick'
    BY <1>1, <1>3 DEF InTick, SameMailbox
  <1> QED BY <1>1, <1>2, <1>3, <1>4 DEF Locals, NothingLeftOut, Sending, Marking

\* A message that a search of the poller does not find is settled.
LEMMA NotHitIsSettled ==
  ASSUME Inv, pc = "search", NEW m \in InBox \ Hits
  PROVE  SettledOrVisible(m)
  <1>1. CASE boot
    BY <1>1 DEF Hits, Inv, IInv, SeenIsSettled, SettledOrVisible
  <1>2. CASE ~boot
    <2>1. st.validity = validity /\ Faithful(st)
      BY DEF Inv, IInv, InTick, Current
    <2>2. uidOf[m] \in Nat /\ st.last \in Nat /\ ~ (uidOf[m] > st.last)
      BY <1>2 DEF Hits, InBox, Inv, TypeOK, State
    <2> QED BY <2>1, <2>2 DEF Faithful
  <1> QED BY <1>1, <1>2

\* A cursor below UidNext, at the end of a bootstrap.
LEMMA BootstrapDone ==
  ASSUME Inv, TypeOK', Poll, pc # "wait", UNCHANGED limit,
         Save([st EXCEPT !.last = limit - 1], "wait"), UNCHANGED disk,
         \A m \in InBox : uidOf[m] < limit => SettledOrVisible(m)
  PROVE  Locals'
  <1>1. RecordGrows /\ SameMailbox
    BY PollKeeps
  <1>2. Current(disk)'
    BY CursorsStay
  <1>3. st.validity = validity /\ 0 < limit /\ limit <= uidNext /\ limit \in Nat /\ uidNext \in Nat
    BY DEF Inv, IInv, InTick, TypeOK
  <1>4. /\ st' = [st EXCEPT !.last = limit - 1] /\ st \in State /\ pc' = "save" /\ then' = "wait"
    BY DEF Save, Inv, TypeOK
  <1>5. /\ st'.validity = validity' /\ st'.last = limit - 1
        /\ st'.failUid = st.failUid /\ st'.failCount = st.failCount
    BY <1>1, <1>3, <1>4 DEF State, SameMailbox
  <1>6. /\ st.failUid < uidNext'
        /\ \A m \in InBox' : uidOf'[m] = st.failUid => failures'[m] >= st.failCount
    <2>1. \A s \in State : Current(s) => Current(s)'
      BY <1>1, FaithfulStays
    <2>2. \A s \in State : Current(s) /\ s.validity = validity' =>
             /\ s.failUid < uidNext'
             /\ \A m \in InBox' : uidOf'[m] = s.failUid => failures'[m] >= s.failCount
      BY <2>1 DEF Current, Faithful
    <2>3. Current(st) /\ st.validity = validity'
      BY <1>1, <1>3 DEF Inv, IInv, SameMailbox
    <2> QED BY <1>4, <2>2, <2>3
  <1>7. \A m \in InBox' : uidOf'[m] <= st'.last => SettledOrVisible(m)'
    <2> SUFFICES ASSUME NEW m \in InBox', uidOf'[m] <= st'.last
                 PROVE  SettledOrVisible(m)'
      OBVIOUS
    <2>1. m \in InBox /\ m \in Mail /\ uidOf[m] \in Nat /\ uidOf[m] <= limit - 1
      BY <1>1, <1>5 DEF InBox, SameMailbox, Inv, TypeOK
    <2>2. SettledOrVisible(m)
      BY <1>3, <2>1
    <2> QED BY <1>1, <2>1, <2>2, SettledStays
  <1>8. Faithful(st)'
    <2>1. st'.last < uidNext'
      BY <1>1, <1>3, <1>5 DEF SameMailbox
    <2> QED BY <1>5, <1>6, <1>7, <2>1 DEF Faithful
  <1>9. Current(st)' /\ InTick'
    <2>1. validity' \in Nat
      BY DEF TypeOK
    <2> QED BY <1>1, <1>3, <1>5, <1>8, <2>1 DEF Current, InTick, SameMailbox
  <1> QED BY <1>2, <1>4, <1>9 DEF Locals, NothingLeftOut, Sending, Marking

LEMMA SearchStep ==
  ASSUME Inv, TypeOK', Poll, Search
  PROVE  Locals'
  <1>0. /\ pc = "search" /\ SameMailbox /\ disk' = disk
        /\ accepted' = accepted /\ refused' = refused /\ failures' = failures /\ seen' = seen
    BY DEF Search, SameMailbox, mailbox, record
  <1>1. CASE /\ batch' = Capped({uidOf[m] : m \in Hits}) /\ pc' = "batch"
             /\ UNCHANGED <<st, boot, limit, then, faults>>
    <2> DEFINE S == {uidOf[m] : m \in Hits}
    <2>1. Hits \subseteq InBox /\ InBox \subseteq Mail
      BY DEF Hits, InBox
    <2>2. S \in SUBSET Nat /\ max \in Nat /\ batch' \subseteq S
      BY <1>1, <2>1, CappedIsPart, ConstantsAssumption DEF Inv, TypeOK
    <2>3. \A u \in batch' : 0 < u /\ u < uidNext'
      <3>1. \A m \in InBox : 0 < uidOf[m] /\ uidOf[m] < uidNext'
        BY <1>0, <2>1 DEF Inv, IInv, TypeOK, Numbered, InBox, SameMailbox
      <3> QED BY <2>1, <2>2, <3>1
    <2>4. ASSUME NEW m \in InBox', Passed(m)'
          PROVE  uidOf'[m] \in batch' \/ SettledOrVisible(m)'
      <3>1. m \in InBox /\ uidOf'[m] = uidOf[m]
        BY <1>0 DEF InBox, SameMailbox
      <3>2. CASE m \notin Hits
        <4>1. SettledOrVisible(m)
          BY <1>0, <3>1, <3>2, NotHitIsSettled
        <4> QED BY <1>0, <4>1 DEF SettledOrVisible, SameMailbox
      <3>3. CASE m \in Hits
        <4>1. uidOf[m] \in S
          BY <3>3
        <4>2. CASE max' = 0
          <5>1. batch' = S
            BY <1>1, <4>2, <1>0 DEF Capped, Poll
          <5> QED BY <3>1, <4>1, <5>1
        <4>3. CASE \E u \in batch' : uidOf'[m] <= u
          <5>1. PICK u \in batch' : uidOf[m] <= u
            BY <3>1, <4>3
          <5>2. u \in Nat /\ uidOf[m] \in Nat
            BY <2>2, <4>1
          <5>3. CASE uidOf[m] = u
            BY <3>1, <5>3
          <5>4. CASE uidOf[m] < u
            <6> HIDE DEF S
            <6>1. u \in Capped(S)
              BY <1>1 DEF S
            <6>2. uidOf[m] \in Capped(S)
              BY <2>2, <4>1, <5>4, <6>1, CappedIsPrefix
            <6> QED BY <1>1, <3>1, <6>2 DEF S
          <5> QED BY <5>1, <5>2, <5>3, <5>4
        <4> QED BY <2>4, <4>2, <4>3 DEF Passed
      <3> QED BY <3>2, <3>3
    <2>5. BatchIsWhole'
      BY <2>3, <2>4 DEF BatchIsWhole
    <2>6. Current(disk)' /\ Current(st)'
      BY <1>0, <1>1, CursorsStay
    <2>7. InTick'
      BY <1>0, <1>1 DEF Inv, IInv, InTick, SameMailbox
    <2> QED BY <1>1, <2>5, <2>6, <2>7 DEF Locals, NothingLeftOut, Marking
  <1>2. CASE /\ Hits = {} /\ Save([st EXCEPT !.last = limit - 1], "wait")
             /\ UNCHANGED <<boot, limit, batch, faults>>
    <2>1. \A m \in InBox : SettledOrVisible(m)
      BY <1>0, <1>2, NotHitIsSettled
    <2> QED BY <1>0, <1>2, <2>1, BootstrapDone
  <1>3. CASE EndTick
    <2>1. Current(disk)' /\ Current(st)'
      BY <1>0, <1>3, CursorsStay DEF EndTick
    <2> QED BY <1>3, <2>1, EndTickLocals
  <1> QED BY <1>1, <1>2, <1>3 DEF Search

\* The next step is a saveState, which the end of the tick follows.
LEMMA LastSave ==
  ASSUME pc' = "save", then' = "wait", Current(disk)', Current(st)', InTick'
  PROVE  Locals'
  BY DEF Locals, NothingLeftOut, Sending, Marking

\* skipUID keeps its count of the failures of a message within its record.
LEMMA SkipUIDStep ==
  ASSUME Inv, TypeOK', Poll, Forward, ForwardFailed(Min(batch))
  PROVE  Locals'
  <1> DEFINE uid == Min(batch)
             count == IF st.failUid = uid THEN st.failCount + 1 ELSE 1
  <1>1. RecordGrows /\ SameMailbox /\ SeenIsSettled'
    BY PollKeeps, PollFrame
  <1>2. /\ pc = "batch" /\ batch # {} /\ Sending
        /\ UNCHANGED <<boot, limit, disk, max>> /\ batch' = batch \ {uid}
    BY DEF Forward, Sending, ForwardFailed, Poll
  <1>3. Current(disk)'
    BY <1>2, CursorsStay
  <1>4. st.validity = validity /\ limit <= uidNext /\ 0 < limit /\ st \in State /\ Faithful(st)
    BY <1>2 DEF Inv, IInv, InTick, TypeOK, Current
  <1>5. /\ uid \in Nat \ {0} /\ uid < uidNext /\ With(uid) \subseteq InBox
        /\ \A m, n \in With(uid) : m = n
    BY <1>2, FirstOfBatch
  <1>6. count \in Nat
    BY <1>4 DEF State
  <1>7. ASSUME NEW m \in With(uid)
        PROVE  /\ failures'[m] \in 0..MaxAttempts
               /\ failures'[m] >= count \/ failures'[m] = MaxAttempts
    <2>1. m \in Mail /\ m \in InBox /\ uidOf[m] = uid
      BY <1>5 DEF With
    <2>2. failures' = [failures EXCEPT ![m] = IF @ < MaxAttempts THEN @ + 1 ELSE @]
      BY <1>5 DEF ForwardFailed
    <2>3. failures[m] \in 0..MaxAttempts /\ failures'[m] \in 0..MaxAttempts
      BY <2>1 DEF Inv, TypeOK
    <2>4. failures'[m] = IF failures[m] < MaxAttempts THEN failures[m] + 1 ELSE failures[m]
      BY <2>1, <2>2 DEF Inv, TypeOK
    <2>5. st.failUid = uid => failures[m] >= st.failCount
      BY <1>4, <2>1 DEF Faithful
    <2>6. st.failCount \in Nat
      BY <1>4 DEF State
    <2>7. failures[m] + 1 >= count
      BY <2>3, <2>5, <2>6, ConstantsAssumption
    <2> QED BY <1>6, <2>3, <2>4, <2>7, ConstantsAssumption
  <1>8. CASE count < MaxAttempts
    <2>1. /\ st' = [st EXCEPT !.failUid = uid, !.failCount = count]
          /\ then' = "wait" /\ pc' = "save"
      BY <1>8 DEF ForwardFailed, SkipUID, Save
    <2>2. st'.validity = validity' /\ st'.last = st.last /\ st'.failUid = uid /\ st'.failCount = count
      BY <1>1, <1>4, <2>1 DEF State, SameMailbox
    <2>3. ASSUME NEW m \in InBox'
          PROVE  /\ uidOf'[m] <= st.last => SettledOrVisible(m)'
                 /\ uidOf'[m] = uid => failures'[m] >= count
      <3>1. m \in InBox /\ m \in Mail /\ uidOf'[m] = uidOf[m]
        BY <1>1 DEF InBox, SameMailbox
      <3>2. uidOf[m] <= st.last => SettledOrVisible(m)'
        BY <1>1, <1>4, <3>1, SettledStays DEF Faithful
      <3>3. uidOf[m] = uid => failures'[m] >= count
        BY <1>6, <1>7, <1>8, <3>1, ConstantsAssumption DEF With
      <3> QED BY <3>1, <3>2, <3>3
    <2>4. st.last < uidNext' /\ uid < uidNext'
      BY <1>1, <1>4, <1>5 DEF Faithful, SameMailbox
    <2>5. Faithful(st)'
      BY <2>2, <2>3, <2>4 DEF Faithful
    <2>6. Current(st)' /\ InTick'
      <3>1. validity' \in Nat
        BY DEF TypeOK
      <3> QED BY <1>1, <1>2, <1>4, <2>2, <2>5, <3>1 DEF Current, InTick, SameMailbox
    <2> QED BY <1>3, <2>1, <2>6, LastSave
  <1>9. CASE ~ (count < MaxAttempts)
    <2>1. st' = Advanced(uid) /\ then' = "batch" /\ pc' = "save"
      BY <1>9 DEF ForwardFailed, SkipUID, Save
    <2>2. \A m \in With(uid) : SettledOrVisible(m)'
      <3> SUFFICES ASSUME NEW m \in With(uid) PROVE SettledOrVisible(m)'
        OBVIOUS
      <3>1. failures'[m] = MaxAttempts
        BY <1>6, <1>7, <1>9, ConstantsAssumption
      <3> QED BY <1>1, <3>1, UnseenUnlessSettled DEF With
    <2>3. Current(st)' /\ st'.validity = validity'
      BY <1>1, <1>2, <2>1, <2>2, PassedFirst
    <2>4. BatchIsWhole'
      BY <1>1, <1>2, <2>2, RestIsWhole
    <2>5. InTick'
      BY <1>1, <1>2, <1>4, <2>3 DEF InTick, SameMailbox
    <2> QED BY <1>3, <2>1, <2>3, <2>4, <2>5 DEF Locals, NothingLeftOut, Marking
  <1> QED BY <1>8, <1>9

LEMMA ForwardStep ==
  ASSUME Inv, TypeOK', Poll, Forward
  PROVE  Locals'
  <1> DEFINE uid == Min(batch)
  <1>1. RecordGrows /\ SameMailbox /\ SeenIsSettled'
    BY PollKeeps, PollFrame
  <1>2. pc = "batch" /\ batch # {} /\ Sending /\ UNCHANGED <<boot, limit, disk, max>>
    BY DEF Forward, Sending, Poll
  <1>3. Current(disk)'
    BY <1>2, CursorsStay
  <1>4. st.validity = validity /\ limit <= uidNext /\ 0 < limit /\ st \in State /\ Faithful(st)
    BY <1>2 DEF Inv, IInv, InTick, TypeOK, Current
  <1>5. /\ uid \in Nat \ {0} /\ uid < uidNext /\ With(uid) \subseteq InBox
        /\ \A m, n \in With(uid) : m = n
    BY <1>2, FirstOfBatch
  <1>6. CASE ForwardAccepted(uid)
    <2>1. /\ pc' = "mark" /\ batch' = batch
          /\ st' = IF st.failUid = uid THEN [st EXCEPT !.failUid = 0, !.failCount = 0] ELSE st
      BY <1>6 DEF ForwardAccepted
    <2>2. Marking'
      <3>1. With(uid) \subseteq accepted'
        BY <1>5, <1>6 DEF ForwardAccepted
      <3>2. With(uid)' = {m \in Mail : uidOf'[m] = Min(batch')} /\ batch' # {}
        BY <1>2, <2>1 DEF With
      <3>3. {m \in Mail : uidOf'[m] = Min(batch')} = With(uid)
        BY <1>1, <2>1 DEF With, SameMailbox
      <3> QED BY <3>1, <3>2, <3>3 DEF Marking, With
    <2>3. Current(st)' /\ st'.validity = validity'
      <3>1. CASE st' = st
        BY <1>1, <1>4, <3>1, CursorsStay DEF SameMailbox
      <3>2. CASE st' = [st EXCEPT !.failUid = 0, !.failCount = 0]
        <4>1. /\ st'.validity = validity' /\ st'.last = st.last
              /\ st'.failUid = 0 /\ st'.failCount = 0
          BY <1>1, <1>4, <3>2 DEF State, SameMailbox
        <4>2. \A m \in InBox' : uidOf'[m] # 0
          BY DEF InBox
        <4>3. \A m \in InBox' : uidOf'[m] <= st.last => SettledOrVisible(m)'
          <5> SUFFICES ASSUME NEW m \in InBox', uidOf'[m] <= st.last PROVE SettledOrVisible(m)'
            OBVIOUS
          <5>1. m \in InBox /\ m \in Mail /\ uidOf[m] <= st.last
            BY <1>1 DEF InBox, SameMailbox
          <5> QED BY <1>1, <1>4, <5>1, SettledStays DEF Faithful
        <4>4. st.last < uidNext' /\ 0 < uidNext' /\ validity' \in Nat
          BY <1>1, <1>4 DEF Faithful, SameMailbox, TypeOK
        <4>5. Faithful(st)'
          BY <4>1, <4>2, <4>3, <4>4 DEF Faithful
        <4> QED BY <4>1, <4>4, <4>5 DEF Current
      <3> QED BY <2>1, <3>1, <3>2
    <2>4. InTick'
      BY <1>1, <1>2, <1>4, <2>3 DEF InTick, SameMailbox
    <2>5. BatchIsWhole'
      <3>1. BatchIsWhole
        BY <1>2 DEF Inv, IInv, NothingLeftOut
      <3>2. \A u \in batch' : 0 < u /\ u < uidNext'
        BY <1>1, <2>1, <3>1 DEF BatchIsWhole, SameMailbox
      <3>3. ASSUME NEW m \in InBox', Passed(m)'
            PROVE  uidOf'[m] \in batch' \/ SettledOrVisible(m)'
        <4>1. m \in InBox /\ m \in Mail /\ uidOf'[m] = uidOf[m] /\ Passed(m)
          BY <1>1, <1>2, <2>1, <3>3 DEF InBox, SameMailbox, Passed
        <4>2. uidOf[m] \in batch \/ SettledOrVisible(m)
          BY <3>1, <4>1 DEF BatchIsWhole
        <4> QED BY <1>1, <2>1, <4>1, <4>2, SettledStays
      <3> QED BY <3>2, <3>3 DEF BatchIsWhole
    <2> QED BY <1>3, <2>2, <2>3, <2>4, <2>5 DEF Locals, NothingLeftOut
  <1>7. CASE ForwardRejected(uid)
    <2>1. /\ st' = Advanced(uid) /\ then' = "batch" /\ pc' = "save"
          /\ batch' = batch \ {uid} /\ With(uid) \subseteq refused'
      BY <1>5, <1>7 DEF ForwardRejected, Save
    <2>2. \A m \in With(uid) : SettledOrVisible(m)'
      BY <1>1, <2>1, UnseenUnlessSettled DEF With
    <2>3. Current(st)' /\ st'.validity = validity'
      BY <1>1, <1>2, <2>1, <2>2, PassedFirst
    <2>4. BatchIsWhole'
      BY <1>1, <1>2, <2>1, <2>2, RestIsWhole
    <2>5. InTick'
      BY <1>1, <1>2, <1>4, <2>3 DEF InTick, SameMailbox
    <2> QED BY <1>3, <2>1, <2>3, <2>4, <2>5 DEF Locals, NothingLeftOut, Marking
  <1>8. CASE ForwardFailed(uid)
    BY <1>8, SkipUIDStep
  <1> QED BY <1>6, <1>7, <1>8 DEF Forward

LEMMA MarkSeenStep ==
  ASSUME Inv, TypeOK', Poll, MarkSeen
  PROVE  Locals'
  <1> DEFINE uid == Min(batch)
  <1>1. RecordGrows /\ SameMailbox
    BY PollKeeps
  <1>2. /\ pc = "mark" /\ batch # {} /\ Sending /\ With(uid) \subseteq accepted
        /\ UNCHANGED <<boot, limit, disk, max>> /\ batch' = batch \ {uid}
    BY DEF MarkSeen, Sending, Poll, Inv, IInv, Marking
  <1>3. Current(disk)'
    BY <1>2, CursorsStay
  <1>4. st.validity = validity /\ limit <= uidNext /\ 0 < limit
    BY <1>2 DEF Inv, IInv, InTick
  <1>5. \A m \in With(uid) : SettledOrVisible(m)'
    BY <1>1, <1>2 DEF RecordGrows, SettledOrVisible
  <1>6. BatchIsWhole'
    BY <1>1, <1>2, <1>5, RestIsWhole
  <1>7. pc' # "mark"
    BY DEF MarkSeen, Save
  <1>8. Current(st)' /\ st'.validity = validity'
    <2>1. CASE st' = st
      BY <1>1, <1>4, <2>1, CursorsStay DEF SameMailbox
    <2>2. CASE st' = [st EXCEPT !.last = uid]
      BY <1>1, <1>2, <1>5, <2>2, PassedFirst
    <2> QED BY <2>1, <2>2 DEF MarkSeen, Save
  <1>9. InTick'
    BY <1>1, <1>2, <1>4, <1>8 DEF InTick, SameMailbox
  <1> QED BY <1>3, <1>6, <1>7, <1>8, <1>9 DEF Locals, NothingLeftOut, Marking

LEMMA FinishStep ==
  ASSUME Inv, TypeOK', Poll, Finish
  PROVE  Locals'
  <1>1. pc = "batch" /\ batch = {} /\ Sending /\ UNCHANGED disk
    BY DEF Finish, Sending
  <1>2. CASE boot /\ max = 0
    <2>1. \A m \in InBox : uidOf[m] < limit => SettledOrVisible(m)
      BY <1>1, <1>2 DEF Inv, IInv, NothingLeftOut, BatchIsWhole, Passed
    <2>2. Save([st EXCEPT !.last = limit - 1], "wait") /\ UNCHANGED limit
      BY <1>2 DEF Finish
    <2> QED BY <1>1, <2>1, <2>2, BootstrapDone
  <1>3. CASE ~ (boot /\ max = 0)
    <2>1. EndTick
      BY <1>3 DEF Finish
    <2>2. Current(disk)' /\ Current(st)'
      BY <1>1, <2>1, CursorsStay DEF EndTick
    <2> QED BY <2>1, <2>2, EndTickLocals
  <1> QED BY <1>2, <1>3

LEMMA SaveStateStep ==
  ASSUME Inv, TypeOK', Poll, SaveState
  PROVE  Locals'
  <1>1. SameMailbox /\ UNCHANGED record /\ seen' = seen /\ max' = max
    BY DEF SaveState, SameMailbox, mailbox, Poll
  <1>2. Current(disk)' /\ (EndTick \/ st' = st)
    BY CursorsStay DEF SaveState, Proceed, locals
  <1>3. Current(st)'
    BY <1>2, CursorsStay DEF EndTick
  <1>4. CASE EndTick
    BY <1>2, <1>3, <1>4, EndTickLocals
  <1>5. CASE then = "batch" /\ pc' = then /\ UNCHANGED locals
    <2>1. pc = "save" /\ Sending /\ pc' = "batch"
      BY <1>5 DEF SaveState, Sending
    <2>2. BatchIsWhole /\ InTick
      BY <2>1 DEF Inv, IInv, NothingLeftOut
    <2>3. BatchIsWhole'
      BY <1>1, <1>5, <2>2
      DEF BatchIsWhole, InBox, Passed, SettledOrVisible, SameMailbox, locals, record
    <2>4. InTick'
      BY <1>1, <1>5, <2>1, <2>2 DEF InTick, SameMailbox, locals
    <2> QED BY <1>2, <1>3, <2>1, <2>3, <2>4 DEF Locals, NothingLeftOut, Marking
  <1> QED BY <1>4, <1>5 DEF SaveState, Proceed

LEMMA StopStep ==
  ASSUME Inv, TypeOK', Poll, Stop
  PROVE  Locals'
  <1>1. EndTick /\ UNCHANGED disk
    BY DEF Stop
  <1>2. Current(disk)' /\ Current(st)'
    BY <1>1, CursorsStay DEF EndTick
  <1> QED BY <1>1, <1>2, EndTickLocals

LEMMA PollStep ==
  ASSUME Inv, TypeOK', Poll
  PROVE  IInv'
  <1>1. Numbered' /\ SeenIsSettled'
    BY PollFrame
  <1>2. Locals'
    BY SelectStep, SearchStep, ForwardStep, MarkSeenStep, FinishStep, SaveStateStep, StopStep
    DEF Poll
  <1> QED BY <1>1, <1>2 DEF IInv, Locals

-----------------------------------------------------------------------------
(***************************************************************************)
(* The steps of the mailbox.                                               *)
(***************************************************************************)
LEMMA ArriveStep ==
  ASSUME Inv, TypeOK', NEW m0 \in Mail, Arrive(m0), max' = max
  PROVE  IInv'
  <1>1. /\ UNCHANGED <<validity, seen, opened, pc, locals, disk, record>>
        /\ uidNext' = uidNext + 1 /\ uidOf' = [uidOf EXCEPT ![m0] = uidNext]
        /\ arrived' = arrived \cup {m0} /\ m0 \notin arrived
    BY DEF Arrive
  <1>2. TypeOK /\ IInv
    BY DEF Inv
  <1>3. /\ uidNext \in Nat \ {0} /\ m0 \notin InBox /\ InBox' = InBox \cup {m0}
        /\ uidOf'[m0] = uidNext /\ \A m \in InBox : uidOf'[m] = uidOf[m] /\ m # m0
    BY <1>1, <1>2 DEF TypeOK, IInv, Numbered, InBox
  <1>4. \A m \in Mail : SettledOrVisible(m)' <=> SettledOrVisible(m)
    BY <1>1 DEF SettledOrVisible, record
  <1>5. Numbered'
    <2>1. IsFiniteSet(arrived')
      BY <1>1, <1>2, FS_AddElement DEF IInv, Numbered
    <2>2. \A m \in Mail : uidOf[m] \in Nat /\ uidOf[m] < uidNext
      BY <1>2 DEF TypeOK, IInv, Numbered
    <2>3. \A m \in Mail : uidOf'[m] < uidNext'
      BY <1>1, <1>2, <1>3, <2>2 DEF TypeOK
    <2>4. \A m, n \in InBox' : uidOf'[m] = uidOf'[n] => m = n
      <3>1. \A m \in InBox : m \in Mail /\ uidOf[m] # uidNext
        BY <1>3, <2>2 DEF InBox
      <3> QED BY <1>2, <1>3, <3>1 DEF IInv, Numbered
    <2>5. InBox' \subseteq arrived'
      BY <1>1, <1>2, <1>3 DEF IInv, Numbered
    <2> QED BY <2>1, <2>3, <2>4, <2>5 DEF Numbered
  <1>6. SeenIsSettled'
    BY <1>1, <1>2 DEF IInv, SeenIsSettled, record
  <1>7. \A s \in State : Current(s) => Current(s)'
    <2> SUFFICES ASSUME NEW s \in State, Current(s), s.validity = validity
                 PROVE  Faithful(s)'
      BY <1>1 DEF Current
    <2>1. Faithful(s) /\ s.last \in Nat /\ s.failUid \in Nat
      BY DEF Current, State
    <2>2. s.last < uidNext' /\ s.failUid < uidNext' /\ s.last < uidNext /\ s.failUid < uidNext
      BY <1>1, <1>3, <2>1 DEF Faithful
    <2>3. ASSUME NEW m \in InBox'
          PROVE  /\ uidOf'[m] <= s.last => SettledOrVisible(m)'
                 /\ uidOf'[m] = s.failUid => failures'[m] >= s.failCount
      <3>1. CASE m = m0
        BY <1>3, <2>1, <2>2, <3>1
      <3>2. CASE m \in InBox
        BY <1>1, <1>3, <1>4, <2>1, <3>2 DEF Faithful, InBox, record
      <3> QED BY <1>3, <2>3, <3>1, <3>2
    <2> QED BY <2>2, <2>3 DEF Faithful
  <1>8. Current(disk)' /\ Current(st)'
    <2>1. \A s \in State : Current(s) => s.validity <= validity' /\ (s.validity = validity' =>
             /\ s.last < uidNext' /\ s.failUid < uidNext'
             /\ \A m \in InBox' :
                   /\ uidOf'[m] <= s.last => SettledOrVisible(m)'
                   /\ uidOf'[m] = s.failUid => failures'[m] >= s.failCount)
      BY <1>7 DEF Current, Faithful
    <2>2. disk' = disk /\ st' = st /\ disk \in State /\ st \in State
      BY <1>1, <1>2 DEF TypeOK, locals
    <2> QED BY <1>2, <2>1, <2>2 DEF IInv, Current, Faithful
  <1>9. InTick'
    BY <1>1, <1>2, <1>3 DEF IInv, InTick, TypeOK, locals
  <1>10. NothingLeftOut'
    <2> SUFFICES ASSUME Sending PROVE BatchIsWhole'
      BY <1>1 DEF NothingLeftOut, Sending, locals
    <2>1. BatchIsWhole /\ batch' = batch /\ limit <= uidNext /\ batch \subseteq Nat /\ limit \in Nat
      BY <1>1, <1>2 DEF IInv, NothingLeftOut, InTick, Sending, locals, TypeOK
    <2>2. \A u \in batch : 0 < u /\ u < uidNext /\ u \in Nat
      BY <2>1 DEF BatchIsWhole
    <2>3. \A u \in batch' : 0 < u /\ u < uidNext'
      BY <1>1, <1>3, <2>1, <2>2
    <2>4. ~ Passed(m0)'
      BY <1>1, <1>3, <2>1, <2>2 DEF Passed, locals
    <2>5. \A m \in InBox : Passed(m)' => Passed(m)
      BY <1>1, <1>3, max' = max DEF Passed, locals
    <2> QED BY <1>3, <1>4, <2>1, <2>3, <2>4, <2>5 DEF BatchIsWhole, InBox
  <1>11. Marking'
    <2> SUFFICES ASSUME pc = "mark" PROVE batch' # {} /\ With(Min(batch))' \subseteq accepted'
      BY <1>1 DEF Marking
    <2>1. batch # {} /\ batch' = batch /\ accepted' = accepted /\ With(Min(batch)) \subseteq accepted
      BY <1>1, <1>2 DEF IInv, Marking, locals, record
    <2>2. Min(batch) \in Nat \ {0} /\ Min(batch) < uidNext
      BY <2>1, FirstOfBatch DEF Sending
    <2>3. {m \in Mail : uidOf'[m] = Min(batch')} \subseteq With(Min(batch))
      BY <1>1, <1>2, <1>3, <2>1, <2>2 DEF With, TypeOK
    <2> QED BY <2>1, <2>3 DEF With
  <1> QED BY <1>5, <1>6, <1>8, <1>9, <1>10, <1>11 DEF IInv

LEMMA OpenStep ==
  ASSUME Inv, TypeOK', NEW m0 \in Mail, Open(m0), max' = max
  PROVE  IInv'
  <1>1. /\ UNCHANGED <<uidNext, validity, arrived, pc, locals, disk, record>>
        /\ opened' = opened \cup {m0} /\ seen' \subseteq seen \cup {m0}
        /\ uidOf' = uidOf \/ uidOf' = [uidOf EXCEPT ![m0] = 0]
    BY DEF Open
  <1>2. TypeOK /\ IInv
    BY DEF Inv
  <1>3. InBox' \subseteq InBox /\ \A m \in InBox' : m \in Mail /\ uidOf'[m] = uidOf[m]
    BY <1>1, <1>2 DEF TypeOK, InBox
  <1>4. RecordGrows
    <2>1. \A m \in Mail : failures[m] <= failures[m]
      BY <1>2, ConstantsAssumption DEF TypeOK
    <2> QED BY <1>1, <2>1 DEF RecordGrows, record
  <1>5. Numbered'
    <2>1. \A m \in Mail : uidOf'[m] < uidNext'
      BY <1>1, <1>2 DEF TypeOK, IInv, Numbered
    <2>2. \A m, n \in InBox' : uidOf'[m] = uidOf'[n] => m = n
      BY <1>2, <1>3 DEF IInv, Numbered
    <2>3. InBox' \subseteq arrived' /\ IsFiniteSet(arrived')
      BY <1>1, <1>2, <1>3 DEF IInv, Numbered
    <2> QED BY <2>1, <2>2, <2>3 DEF Numbered
  <1>6. SeenIsSettled'
    BY <1>1, <1>2 DEF IInv, SeenIsSettled, record
  <1>7. Current(disk)' /\ Current(st)'
    <2>1. ASSUME NEW s \in State, Current(s), s.validity = validity', NEW m \in InBox'
          PROVE  /\ uidOf'[m] <= s.last => SettledOrVisible(m)'
                 /\ uidOf'[m] = s.failUid => failures'[m] >= s.failCount
      BY <1>1, <1>3, <1>4, <2>1, SettledStays DEF Current, Faithful, record
    <2>2. disk' = disk /\ st' = st /\ disk \in State /\ st \in State
      BY <1>1, <1>2 DEF TypeOK, locals
    <2> QED BY <1>1, <1>2, <2>1, <2>2 DEF IInv, Current, Faithful
  <1>8. InTick'
    BY <1>1, <1>2 DEF IInv, InTick, locals
  <1>9. NothingLeftOut'
    <2> SUFFICES ASSUME Sending PROVE BatchIsWhole'
      BY <1>1 DEF NothingLeftOut, Sending, locals
    <2>1. BatchIsWhole /\ batch' = batch
      BY <1>1, <1>2 DEF IInv, NothingLeftOut, locals
    <2>2. \A m \in InBox' : Passed(m)' => Passed(m)
      BY <1>1, <1>3, max' = max DEF Passed, locals
    <2>3. \A m \in InBox' : Passed(m)' => uidOf'[m] \in batch' \/ SettledOrVisible(m)'
      BY <1>3, <1>4, <2>1, <2>2, SettledStays DEF BatchIsWhole
    <2> QED BY <1>1, <2>1, <2>3 DEF BatchIsWhole
  <1>10. Marking'
    <2> SUFFICES ASSUME pc = "mark" PROVE batch' # {} /\ With(Min(batch))' \subseteq accepted'
      BY <1>1 DEF Marking
    <2>1. batch # {} /\ batch' = batch /\ accepted' = accepted /\ With(Min(batch)) \subseteq accepted
      BY <1>1, <1>2 DEF IInv, Marking, locals, record
    <2>2. Min(batch) \in Nat \ {0}
      BY <2>1, FirstOfBatch DEF Sending
    <2>3. {m \in Mail : uidOf'[m] = Min(batch')} \subseteq With(Min(batch))
      BY <1>1, <1>2, <2>1, <2>2 DEF With, TypeOK
    <2> QED BY <2>1, <2>3 DEF With
  <1> QED BY <1>5, <1>6, <1>7, <1>8, <1>9, <1>10 DEF IInv

\* After a renumbering no cursor is of the present numbering.
LEMMA RenumberStep ==
  ASSUME Inv, TypeOK', Renumber, max' = max
  PROVE  IInv'
  <1>1. /\ UNCHANGED <<seen, arrived, opened, pc, locals, disk, record>>
        /\ validity' = validity + 1 /\ pc = "wait" /\ uidNext' = Cardinality(InBox) + 1
    BY DEF Renumber
  <1>2. TypeOK /\ IInv
    BY DEF Inv
  <1>3. Cardinality(InBox) \in Nat
    BY <1>2, FS_Subset, FS_CardinalityType DEF IInv, Numbered
  <1>4. PICK f \in [InBox -> 1..Cardinality(InBox)] :
           /\ \A m, n \in InBox : f[m] = f[n] => m = n
           /\ uidOf' = [m \in Mail |-> IF m \in InBox THEN f[m] ELSE 0]
    BY DEF Renumber
  <1>5. InBox' = InBox /\ \A m \in InBox : m \in Mail /\ uidOf'[m] = f[m]
    BY <1>3, <1>4 DEF InBox
  <1>6. Numbered'
    <2>1. \A m \in Mail : uidOf'[m] < uidNext'
      BY <1>1, <1>3, <1>4
    <2>2. \A m, n \in InBox' : uidOf'[m] = uidOf'[n] => m = n
      BY <1>4, <1>5
    <2>3. InBox' \subseteq arrived' /\ IsFiniteSet(arrived')
      BY <1>1, <1>2, <1>5 DEF IInv, Numbered
    <2> QED BY <2>1, <2>2, <2>3 DEF Numbered
  <1>7. SeenIsSettled'
    BY <1>1, <1>2 DEF IInv, SeenIsSettled, record
  <1>8. Current(disk)' /\ Current(st)'
    <2>1. /\ disk' = disk /\ st' = st /\ validity \in Nat
          /\ disk.validity \in Nat /\ st.validity \in Nat
      BY <1>1, <1>2 DEF TypeOK, locals, State
    <2>2. disk.validity <= validity /\ st.validity <= validity
      BY <1>2 DEF IInv, Current
    <2>3. /\ disk'.validity <= validity' /\ disk'.validity # validity'
          /\ st'.validity <= validity' /\ st'.validity # validity'
      BY <1>1, <2>1, <2>2
    <2> QED BY <2>3 DEF Current
  <1>9. InTick' /\ NothingLeftOut' /\ Marking'
    BY <1>1 DEF InTick, NothingLeftOut, Sending, Marking
  <1> QED BY <1>6, <1>7, <1>8, <1>9 DEF IInv

-----------------------------------------------------------------------------
(***************************************************************************)
(* The theorems.                                                           *)
(***************************************************************************)
LEMMA InvInit == Init => Inv
  <1> SUFFICES ASSUME Init PROVE IInv
    BY TypeInit DEF Inv
  <1>1. InBox = {}
    BY DEF Init, InBox
  <1>2. Numbered
    BY <1>1, FS_EmptySet DEF Init, Numbered
  <1>3. Current(NoState)
    BY TypeInit, NoStateCurrent
  <1> QED
    BY <1>2, <1>3
    DEF Init, IInv, SeenIsSettled, InTick, NothingLeftOut, Sending, Marking

LEMMA InvNext == Inv /\ [Next]_vars => Inv'
  <1> SUFFICES ASSUME Inv, [Next]_vars PROVE IInv'
    BY TypeNext DEF Inv
  <1>1. TypeOK'
    BY TypeNext
  <1>2. CASE Poll
    BY <1>1, <1>2, PollStep
  <1>3. CASE Mailbox
    BY <1>1, <1>3, ArriveStep, OpenStep, RenumberStep DEF Mailbox
  <1>4. CASE UNCHANGED vars
    BY <1>4
    DEF Inv, IInv, vars, mailbox, locals, record, Numbered, InBox, SeenIsSettled, Current,
        Faithful, SettledOrVisible, InTick, NothingLeftOut, Sending, BatchIsWhole, Passed,
        Marking, With
  <1> QED BY <1>2, <1>3, <1>4 DEF Next

(***************************************************************************)
(* The poller's variables keep their types.                                *)
(***************************************************************************)
THEOREM TypeCorrect == Spec => []TypeOK
  <1>1. Inv => TypeOK
    BY DEF Inv
  <1> QED BY InvInit, InvNext, <1>1, PTL DEF Spec

(***************************************************************************)
(* The cursor in the state file passes a message that was not accepted     *)
(* only if the API rejected it, or it failed maxAttempts times, and such a *)
(* message is left unread, whatever arrives, is deleted or renumbered, and *)
(* wherever the poller stops.                                              *)
(***************************************************************************)
THEOREM CursorPassesNothing == Spec => []NothingPassedOver
  <1>1. Inv => NothingPassedOver
    BY DEF Inv, IInv, Current, Faithful, NothingPassedOver
  <1> QED BY InvInit, InvNext, <1>1, PTL DEF Spec
===============================================================================
