---------------------------- MODULE BackgroundProofs ----------------------------
(***************************************************************************)
(* Proofs about what runs by itself: the Gmail poller, for every set of    *)
(* accounts and messages and every size of the seen set and of the         *)
(* fallback, and the tasks that embed the knowledge base, for every set of *)
(* companies, reports and runners, every batch size and any number of      *)
(* tasks, edits, failures and deaths.                                      *)
(***************************************************************************)
EXTENDS MCBackground, TLAPS, FiniteSetTheorems, SequenceTheorems

-----------------------------------------------------------------------------
(***************************************************************************)
(* The Gmail poller: the inductive invariant.                              *)
(***************************************************************************)
Passable == settled \cup failed \cup passed

\* Below the history id every message of the account is settled or known to be left out.
Covered(a, id) == id <= HistoryId(a) /\ Below(a, id) \subseteq Passable

\* Every message is in the inbox of its account, and a batch comes from one inbox.
OwnMail ==
    /\ \A a \in Mailbox : \A m \in ToSet(box[a]) : AccountOf[m] = a
    /\ pc \in {"profile", "batch", "save"} => ToSet(ids) \subseteq ToSet(box[acc.acct])

\* What is stored, and what a tick has read of it, passes nothing over.
IdsAreCovered ==
    /\ \A a \in Mailbox : Covered(a, lastId[a])
    /\ \A row \in todo \cup {acc} : Covered(row.acct, row.start)

\* What the batch has left, and what a fallback has not listed, is all that the new
\* history id would pass over.
BatchIsWhole ==
    /\ pc \in {"batch", "save"} =>
          /\ fresh <= HistoryId(acc.acct)
          /\ Below(acc.acct, fresh) \subseteq Passable \cup unlisted \cup ToSet(ids)
    /\ pc = "save" => ids = <<>>

Distinct(s) == \A i, j \in DOMAIN s : s[i] = s[j] => i = j

\* The seen set of an account has settled messages of that account, each once.
SeenIsHandled ==
    /\ IsFiniteSet(settled)
    /\ \A a \in Mailbox : ToSet(seen[a]) \subseteq Handled(a) /\ Distinct(seen[a])

Outgrown(a) == Cardinality(Handled(a)) > SeenCap

\* A message the process has sent is in the seen set, or the account has outgrown it.
SentIsSeen ==
    \A m \in Mail : /\ sent[m] > 0 => m \in ToSet(seen[AccountOf[m]]) \/ Outgrown(AccountOf[m])
                    /\ sent[m] > 1 => Outgrown(AccountOf[m])

IInv == OwnMail /\ IdsAreCovered /\ BatchIsWhole /\ SeenIsHandled /\ SentIsSeen

Inv == GmailTypeOK /\ IInv

-----------------------------------------------------------------------------
(***************************************************************************)
(* Inboxes and seen sets.                                                  *)
(***************************************************************************)
LEMMA NoRowIsRow == NoRow \in Row /\ NoRow.start = 0 /\ NoRow.acct \in Mailbox
  BY GmailAssumption DEF NoRow, Row

LEMMA Elements ==
  ASSUME NEW S, NEW s \in Seq(S), NEW m
  PROVE  /\ m \in ToSet(s) <=> \E i \in 1..Len(s) : s[i] = m
         /\ Contains(s, m) <=> m \in ToSet(s)
         /\ ToSet(s) \subseteq S
  BY LenProperties DEF ToSet, Contains

LEMMA NoElements == ToSet(<<>>) = {} /\ Distinct(<<>>)
  BY DEF ToSet, Distinct

\* The first message of a batch, and the ones behind it.
LEMMA HeadAndTail ==
  ASSUME NEW S, NEW s \in Seq(S), s # <<>>
  PROVE  /\ Head(s) \in S /\ Head(s) \in ToSet(s) /\ Tail(s) \in Seq(S)
         /\ ToSet(s) = {Head(s)} \cup ToSet(Tail(s))
  <1> DEFINE t == Tail(s)
  <1>1. /\ Len(s) \in Nat \ {0} /\ Head(s) = s[1] /\ Head(s) \in S
        /\ t \in Seq(S) /\ Len(t) = Len(s) - 1
        /\ \A i \in 1..Len(t) : t[i] = s[i + 1]
    BY HeadTailProperties, EmptySeq
  <1> HIDE DEF t
  <1>2. Head(s) \in ToSet(s)
    BY <1>1, Elements
  <1>3. ASSUME NEW m \in ToSet(t) PROVE m \in ToSet(s)
    <2>1. PICK i \in 1..Len(t) : t[i] = m
      BY <1>1, Elements
    <2>2. i + 1 \in 1..Len(s) /\ s[i + 1] = m
      BY <1>1, <2>1
    <2> QED BY <2>2, Elements
  <1>4. ASSUME NEW m \in ToSet(s), m # Head(s) PROVE m \in ToSet(t)
    <2>1. PICK i \in 1..Len(s) : s[i] = m
      BY Elements
    <2>2. i # 1
      BY <1>1, <1>4, <2>1
    <2>3. i - 1 \in 1..Len(t) /\ t[i - 1] = m
      <3>1. i - 1 \in 1..Len(t) /\ (i - 1) + 1 = i
        BY <1>1, <2>2
      <3> QED BY <1>1, <2>1, <3>1
    <2> QED BY <1>1, <2>3, Elements
  <1>5. ToSet(s) = {Head(s)} \cup ToSet(t)
    BY <1>2, <1>3, <1>4
  <1> QED BY <1>1, <1>2, <1>5 DEF t

\* A part of an inbox.
LEMMA PartOf ==
  ASSUME NEW S, NEW s \in Seq(S), NEW m \in Nat \ {0}, NEW n \in Nat, n <= Len(s)
  PROVE  /\ SubSeq(s, m, n) \in Seq(S) /\ ToSet(SubSeq(s, m, n)) \subseteq ToSet(s)
         /\ \A k \in m..n : s[k] \in ToSet(SubSeq(s, m, n))
         /\ m <= n + 1 => Len(SubSeq(s, m, n)) = n - m + 1
  <1> DEFINE part == SubSeq(s, m, n)
  <1>1. /\ part \in Seq(S) /\ Len(part) = IF m <= n THEN n - m + 1 ELSE 0
        /\ \A i \in 1..n - m + 1 : part[i] = s[m + i - 1]
    <2>1. \A i \in m..n : s[i] \in S
      BY LenProperties
    <2> QED BY <2>1, SubSeqProperties
  <1> HIDE DEF part
  <1>2. ASSUME NEW x \in ToSet(part) PROVE x \in ToSet(s)
    <2>1. PICK i \in 1..Len(part) : part[i] = x
      BY <1>1, Elements
    <2>2. m <= n
      BY <1>1, <2>1
    <2>3. i \in 1..n - m + 1 /\ m + i - 1 \in 1..Len(s)
      BY <1>1, <2>1, <2>2, LenProperties
    <2>4. s[m + i - 1] = x
      BY <1>1, <2>1, <2>3
    <2> QED BY <2>3, <2>4, Elements
  <1>3. ASSUME NEW k \in m..n PROVE s[k] \in ToSet(part)
    <2>1. k - m + 1 \in 1..n - m + 1 /\ k - m + 1 \in 1..Len(part) /\ m + (k - m + 1) - 1 = k
      BY <1>1
    <2>2. part[k - m + 1] = s[k]
      BY <1>1, <2>1
    <2> QED BY <1>1, <2>1, <2>2, Elements
  <1>4. m <= n + 1 => Len(part) = n - m + 1
    BY <1>1
  <1> QED BY <1>1, <1>2, <1>3, <1>4 DEF part

LEMMA Reversed ==
  ASSUME NEW S, NEW s \in Seq(S)
  PROVE  Reverse(s) \in Seq(S) /\ ToSet(Reverse(s)) \subseteq ToSet(s)
  <1> DEFINE n == Len(s)
             r == Reverse(s)
  <1>1. n \in Nat /\ \A i \in 1..n : n - i + 1 \in 1..n /\ s[n - i + 1] \in S
    BY LenProperties
  <1>2. r = [i \in 1..n |-> s[n - i + 1]]
    BY DEF Reverse
  <1> HIDE DEF n, r
  <1>3. r \in [1..n -> S] /\ r \in Seq(S) /\ DOMAIN r = 1..n
    BY <1>1, <1>2, SeqDef
  <1>4. ASSUME NEW x \in ToSet(r) PROVE x \in ToSet(s)
    <2>1. PICK i \in 1..n : r[i] = x
      BY <1>3 DEF ToSet
    <2>2. n - i + 1 \in 1..Len(s) /\ s[n - i + 1] = x
      BY <1>1, <1>2, <2>1 DEF n
    <2> QED BY <2>2, Elements
  <1> QED BY <1>3, <1>4 DEF r

\* A seen set without repetitions is as large as it is long.
LEMMA DistinctCounts ==
  ASSUME NEW S, NEW s \in Seq(S), Distinct(s)
  PROVE  IsFiniteSet(ToSet(s)) /\ Cardinality(ToSet(s)) = Len(s)
  <1>1. s \in [1..Len(s) -> S] /\ Len(s) \in Nat /\ DOMAIN s = 1..Len(s)
    BY LenProperties
  <1>2. s \in Bijection(1..Len(s), ToSet(s))
    BY <1>1 DEF Bijection, Injection, Surjection, IsInjective, Distinct, ToSet
  <1>3. ExistsBijection(1..Len(s), ToSet(s))
    BY <1>2 DEF ExistsBijection
  <1> QED BY <1>1, <1>3, FS_CountingElements, FS_NatBijection

\* seenSet.Add: a full set gives up its oldest entry.
LEMMA Adding ==
  ASSUME NEW s \in Seq(Mail), NEW m \in Mail, Len(s) <= SeenCap, Distinct(s)
  PROVE  /\ Add(s, m) \in Seq(Mail) /\ Len(Add(s, m)) <= SeenCap /\ Distinct(Add(s, m))
         /\ m \in ToSet(Add(s, m)) /\ ToSet(Add(s, m)) \subseteq ToSet(s) \cup {m}
         /\ ToSet(s) \subseteq ToSet(Add(s, m)) \/ (Len(s) = SeenCap /\ m \notin ToSet(s))
  <1>1. CASE m \in ToSet(s)
    <2>1. Add(s, m) = s
      BY <1>1, Elements DEF Add
    <2> QED BY <1>1, <2>1
  <1>2. CASE m \notin ToSet(s)
    <2> DEFINE t == IF Len(s) = SeenCap THEN Tail(s) ELSE s
               new == Append(t, m)
    <2>1. Add(s, m) = new
      BY <1>2, Elements DEF Add
    <2>2. Len(s) \in Nat /\ SeenCap \in Nat \ {0} /\ (s = <<>> => Len(s) = 0)
      BY GmailAssumption, EmptySeq, LenProperties
    <2>3. /\ t \in Seq(Mail) /\ Len(t) < SeenCap /\ Distinct(t) /\ ToSet(t) \subseteq ToSet(s)
          /\ Len(s) # SeenCap => t = s
      <3>1. CASE Len(s) = SeenCap
        <4>1. s # <<>> /\ t = Tail(s)
          BY <2>2, <3>1
        <4>2. /\ t \in Seq(Mail) /\ Len(t) = Len(s) - 1
              /\ \A i \in 1..Len(t) : t[i] = s[i + 1]
          BY <4>1, HeadTailProperties
        <4>3. ToSet(t) \subseteq ToSet(s)
          BY <4>1, HeadAndTail
        <4> HIDE DEF t
        <4>4. Distinct(t)
          <5> SUFFICES ASSUME NEW i \in DOMAIN t, NEW j \in DOMAIN t, t[i] = t[j] PROVE i = j
            BY DEF Distinct
          <5>1. i \in 1..Len(t) /\ j \in 1..Len(t) /\ DOMAIN s = 1..Len(s) /\ Len(t) \in Nat
            BY <4>2, LenProperties
          <5>2. i + 1 \in DOMAIN s /\ j + 1 \in DOMAIN s /\ s[i + 1] = s[j + 1]
            BY <2>2, <4>2, <5>1
          <5>3. i + 1 = j + 1
            BY <5>2 DEF Distinct
          <5> QED BY <5>1, <5>3
        <4> QED BY <2>2, <3>1, <4>2, <4>3, <4>4
      <3>2. CASE Len(s) # SeenCap
        BY <2>2, <3>2
      <3> QED BY <3>1, <3>2
    <2> HIDE DEF t
    <2>4. /\ new \in Seq(Mail) /\ Len(new) = Len(t) + 1 /\ new[Len(t) + 1] = m /\ Len(t) \in Nat
          /\ \A i \in 1..Len(t) : new[i] = t[i]
      BY <2>3, LenProperties
    <2> HIDE DEF new
    <2>5. m \in ToSet(new) /\ ToSet(t) \subseteq ToSet(new)
      <3>1. Len(t) + 1 \in 1..Len(new) /\ \A i \in 1..Len(t) : i \in 1..Len(new)
        BY <2>4
      <3>2. ASSUME NEW x \in ToSet(t) PROVE x \in ToSet(new)
        <4>1. PICK i \in 1..Len(t) : t[i] = x
          BY <2>3, Elements
        <4> QED BY <2>4, <3>1, <4>1, Elements
      <3> QED BY <2>4, <3>1, <3>2, Elements
    <2>6. ASSUME NEW x \in ToSet(new) PROVE x \in ToSet(s) \cup {m}
      <3>1. PICK i \in 1..Len(new) : new[i] = x
        BY <2>4, Elements
      <3>2. CASE i = Len(t) + 1
        BY <2>4, <3>1, <3>2
      <3>3. CASE i \in 1..Len(t)
        BY <2>3, <2>4, <3>1, <3>3, Elements
      <3> QED BY <2>4, <3>2, <3>3
    <2>7. Distinct(new)
      <3> SUFFICES ASSUME NEW i \in DOMAIN new, NEW j \in DOMAIN new, new[i] = new[j] PROVE i = j
        BY DEF Distinct
      <3>1. /\ i \in 1..Len(t) + 1 /\ j \in 1..Len(t) + 1 /\ DOMAIN t = 1..Len(t)
        BY <2>3, <2>4, LenProperties
      <3>2. \A k \in 1..Len(t) : new[k] # m
        BY <1>2, <2>3, <2>4, Elements
      <3>3. CASE i \in 1..Len(t) /\ j \in 1..Len(t)
        BY <2>3, <2>4, <3>1, <3>3 DEF Distinct
      <3>4. CASE i = Len(t) + 1 \/ j = Len(t) + 1
        BY <2>4, <3>1, <3>2, <3>4
      <3> QED BY <2>4, <3>1, <3>3, <3>4
    <2>8. Len(new) <= SeenCap
      BY <2>2, <2>3, <2>4
    <2>9. ToSet(s) \subseteq ToSet(new) \/ Len(s) = SeenCap
      BY <2>3, <2>5
    <2> QED BY <1>2, <2>1, <2>4, <2>5, <2>6, <2>7, <2>8, <2>9
  <1> QED BY <1>1, <1>2

-----------------------------------------------------------------------------
(***************************************************************************)
(* History ids.                                                            *)
(***************************************************************************)
LEMMA Inboxes ==
  ASSUME Inv, NEW a \in Mailbox
  PROVE  /\ box[a] \in Seq(Mail) /\ Len(box[a]) \in Nat /\ HistoryId(a) = Len(box[a]) + 1
         /\ HistoryId(a) \in Nat /\ lastId[a] \in Nat /\ Covered(a, lastId[a])
  <1>1. box[a] \in Seq(Mail) /\ lastId[a] \in Nat
    BY DEF Inv, GmailTypeOK
  <1> QED BY <1>1, LenProperties DEF HistoryId, Inv, IInv, IdsAreCovered

\* Below an id that Gmail has given out are messages of the inbox.
LEMMA BelowIsInBox ==
  ASSUME Inv, NEW a \in Mailbox, NEW id \in Nat, id <= HistoryId(a)
  PROVE  Below(a, id) \subseteq ToSet(box[a])
  <1> SUFFICES ASSUME NEW k \in 1..id - 1 PROVE box[a][k] \in ToSet(box[a])
    BY DEF Below
  <1>1. k \in 1..Len(box[a])
    BY Inboxes
  <1> QED BY <1>1, Inboxes, Elements

\* Nothing is below the id 0, with which a row starts.
LEMMA NothingBelowZero ==
  ASSUME Inv, NEW a \in Mailbox
  PROVE  Covered(a, 0)
  <1>1. Below(a, 0) = {}
    BY DEF Below
  <1> QED BY <1>1, Inboxes DEF Covered

LEMMA CoveredStays ==
  ASSUME UNCHANGED box, Passable \subseteq Passable', NEW a, NEW id, Covered(a, id)
  PROVE  Covered(a, id)'
  BY DEF Covered, HistoryId, Below

\* The poller goes on, and nothing has become of a message.
LEMMA QuietStep ==
  ASSUME Inv, UNCHANGED <<box, lastId, seen, fate>>, GmailTypeOK',
         \A row \in todo' \cup {acc'} :
            \/ row \in todo \cup {acc, NoRow}
            \/ row.acct \in Mailbox /\ row.start = lastId[row.acct],
         pc' \in {"profile", "batch", "save"} => ToSet(ids') \subseteq ToSet(box[acc'.acct]),
         BatchIsWhole'
  PROVE  Inv'
  <1>1. UNCHANGED <<box, lastId, seen, sent, settled, failed, passed>>
    BY DEF fate
  <1>2. OwnMail'
    BY <1>1 DEF Inv, IInv, OwnMail
  <1>3. UNCHANGED Passable
    BY <1>1 DEF Passable
  <1>4. IdsAreCovered'
    <2>1. ASSUME NEW a \in Mailbox PROVE Covered(a, lastId[a])'
      <3>1. PICK id : id = lastId[a]
        OBVIOUS
      <3>2. Covered(a, id)'
        BY <1>1, <1>3, <2>1, <3>1, Inboxes, CoveredStays
      <3> QED BY <1>1, <3>1, <3>2 DEF Covered, Below
    <2>2. ASSUME NEW row \in todo' \cup {acc'} PROVE Covered(row.acct, row.start)'
      <3>1. Covered(row.acct, row.start)
        <4>1. CASE row \in todo \cup {acc}
          BY <4>1 DEF Inv, IInv, IdsAreCovered
        <4>2. CASE row = NoRow
          BY <4>2, NoRowIsRow, NothingBelowZero
        <4>3. CASE row.acct \in Mailbox /\ row.start = lastId[row.acct]
          BY <4>3, Inboxes
        <4> QED BY <4>1, <4>2, <4>3
      <3> QED BY <1>1, <1>3, <3>1, CoveredStays
    <2> QED BY <2>1, <2>2 DEF IdsAreCovered
  <1>5. SeenIsHandled' /\ SentIsSeen'
    BY <1>1 DEF Inv, IInv, SeenIsHandled, SentIsSeen, Handled, Outgrown
  <1> QED BY <1>2, <1>4, <1>5 DEF Inv, IInv

-----------------------------------------------------------------------------
(***************************************************************************)
(* A tick, up to its batches.                                              *)
(***************************************************************************)
LEMMA Faulting ==
  ASSUME Inv, NEW kind, MayFault(kind) PROVE faults' \in 0..MaxFaults
  BY GmailAssumption DEF MayFault, Inv, GmailTypeOK

LEMMA NoMessages == <<>> \in Seq(Mail)
  BY EmptySeq

\* The poller leaves the account in hand.
LEMMA NextAccountStep ==
  ASSUME Inv, NextAccount, UNCHANGED <<box, lastId, token, valid, seen, fate, todo>>,
         state' \in [Mailbox -> {"ok", "needs_reconnect"}], faults' \in 0..MaxFaults
  PROVE  Inv'
  <1>1. GmailTypeOK'
    BY NoRowIsRow, NoMessages DEF Inv, GmailTypeOK, NextAccount, fate
  <1>2. BatchIsWhole' /\ pc' = "next"
    BY DEF NextAccount, BatchIsWhole
  <1> QED BY <1>1, <1>2, QuietStep DEF NextAccount

LEMMA ListAccountsStep ==
  ASSUME Inv, ListAccounts
  PROVE  Inv'
  <1>1. /\ UNCHANGED <<box, token, valid, lastId, state, acc, ids, fresh, unlisted, seen, fate, faults>>
        /\ pc' = "next"
        /\ todo' = {[acct |-> a, start |-> lastId[a], token |-> token[a]] : a \in Mailbox}
    BY DEF ListAccounts, mailboxes
  <1>2. ASSUME NEW row \in todo' PROVE row \in Row /\ row.start = lastId[row.acct]
    <2>1. PICK a \in Mailbox : row = [acct |-> a, start |-> lastId[a], token |-> token[a]]
      BY <1>1, <1>2
    <2>2. lastId[a] \in Nat /\ token[a] \in Nat
      BY DEF Inv, GmailTypeOK
    <2> QED BY <2>1, <2>2 DEF Row
  <1>3. GmailTypeOK'
    BY <1>1, <1>2 DEF Inv, GmailTypeOK, fate
  <1>4. BatchIsWhole'
    BY <1>1 DEF BatchIsWhole
  <1>5. \A row \in todo' : row.acct \in Mailbox
    BY <1>2 DEF Row
  <1> QED BY <1>1, <1>2, <1>3, <1>4, <1>5, QuietStep

LEMMA PollAccountStep ==
  ASSUME Inv, PollAccount
  PROVE  Inv'
  <1>1. /\ UNCHANGED <<box, token, valid, lastId, state, ids, fresh, unlisted, seen, fate, faults>>
        /\ pc' \in {"token", "wait"} /\ todo' \subseteq todo /\ acc' \in todo \cup {acc}
    BY DEF PollAccount, mailboxes
  <1>2. GmailTypeOK'
    BY <1>1 DEF Inv, GmailTypeOK, fate
  <1>3. BatchIsWhole'
    BY <1>1 DEF BatchIsWhole
  <1> QED BY <1>1, <1>2, <1>3, QuietStep

LEMMA AccessTokenStep ==
  ASSUME Inv, AccessToken
  PROVE  Inv'
  <1>1. UNCHANGED <<box, token, valid, lastId, seen, fate>>
    BY DEF AccessToken
  <1>2. CASE pc' = "history" /\ UNCHANGED <<state, tick, faults>>
    <2>1. UNCHANGED <<todo, acc, ids, fresh, unlisted>>
      BY <1>2 DEF tick
    <2>2. GmailTypeOK'
      BY <1>1, <1>2, <2>1 DEF Inv, GmailTypeOK, fate
    <2>3. BatchIsWhole'
      BY <1>2 DEF BatchIsWhole
    <2> QED BY <1>1, <1>2, <2>1, <2>2, <2>3, QuietStep
  <1>3. CASE MayFault("token") /\ NextAccount /\ UNCHANGED <<state, todo>>
    <2>1. faults' \in 0..MaxFaults /\ state' \in [Mailbox -> {"ok", "needs_reconnect"}]
      BY <1>3, Faulting DEF Inv, GmailTypeOK
    <2> QED BY <1>1, <1>3, <2>1, NextAccountStep
  <1>4. CASE TokenRejected
    <2>1. faults' \in 0..MaxFaults /\ state' \in [Mailbox -> {"ok", "needs_reconnect"}]
      BY <1>4, Faulting DEF TokenRejected, MarkNeedsReconnect, Inv, GmailTypeOK
    <2> QED BY <1>1, <1>4, <2>1, NextAccountStep DEF TokenRejected
  <1> QED BY <1>2, <1>3, <1>4 DEF AccessToken

LEMMA CallFailsStep ==
  ASSUME Inv, CallFails, UNCHANGED <<mailboxes, todo, seen, fate>>
  PROVE  Inv'
  <1>1. UNCHANGED <<box, token, valid, lastId, state>> /\ NextAccount /\ MayFault("history")
    BY DEF mailboxes, CallFails
  <1>2. faults' \in 0..MaxFaults /\ state' \in [Mailbox -> {"ok", "needs_reconnect"}]
    BY <1>1, Faulting DEF Inv, GmailTypeOK
  <1> QED BY <1>1, <1>2, NextAccountStep

\* The account in hand.
LEMMA InHand ==
  ASSUME Inv
  PROVE  /\ acc \in Row /\ acc.acct \in Mailbox /\ acc.start \in Nat
         /\ Covered(acc.acct, acc.start)
  <1>1. acc \in Row
    BY DEF Inv, GmailTypeOK
  <1> QED BY <1>1 DEF Row, Inv, IInv, IdsAreCovered

\* Since the stored id everything that was added is in the batch.
LEMMA HistoryStep ==
  ASSUME Inv, History
  PROVE  Inv'
  <1>1. UNCHANGED <<box, token, valid, lastId, state, todo, seen, fate>>
    BY DEF History, mailboxes
  <1> DEFINE a == acc.acct
             n == Len(box[a])
             part == SubSeq(box[a], acc.start, n)
  <1>2. a \in Mailbox /\ acc.start \in Nat /\ Covered(a, acc.start)
    BY InHand
  <1>3. /\ box[a] \in Seq(Mail) /\ n \in Nat /\ HistoryId(a) = n + 1 /\ HistoryId(a) \in Nat
    BY <1>2, Inboxes
  <1>4. CASE acc.start > 0 /\ ids' = part /\ fresh' = HistoryId(a) /\ pc' = "batch"
             /\ UNCHANGED <<acc, unlisted, faults>>
    <2>1. /\ part \in Seq(Mail) /\ ToSet(part) \subseteq ToSet(box[a])
          /\ \A k \in acc.start..n : box[a][k] \in ToSet(part)
      <3>1. acc.start \in Nat \ {0} /\ n <= n
        BY <1>2, <1>3, <1>4
      <3> HIDE DEF a
      <3> QED BY <1>3, <3>1, PartOf
    <2> HIDE DEF part
    <2>2. GmailTypeOK'
      BY <1>1, <1>3, <1>4, <2>1 DEF Inv, GmailTypeOK, fate
    <2>3. ToSet(ids') \subseteq ToSet(box[acc'.acct])
      BY <1>4, <2>1
    <2>4. ASSUME NEW m \in Below(a, HistoryId(a)) PROVE m \in Passable \cup ToSet(part)
      <3>1. PICK k \in 1..n : m = box[a][k]
        BY <1>3, <2>4 DEF Below
      <3>2. CASE k < acc.start
        <4>1. m \in Below(a, acc.start)
          BY <1>2, <3>1, <3>2 DEF Below
        <4> QED BY <1>2, <4>1 DEF Covered
      <3>3. CASE k >= acc.start
        <4>1. k \in acc.start..n
          BY <1>2, <1>3, <3>1, <3>3
        <4> QED BY <2>1, <3>1, <4>1
      <3> QED BY <1>2, <3>1, <3>2, <3>3
    <2>5. BatchIsWhole'
      <3>1. Below(a, HistoryId(a)) \subseteq Passable \cup ToSet(part) /\ HistoryId(a) <= HistoryId(a)
        BY <1>3, <2>4
      <3>2. UNCHANGED <<box, acc, settled, failed, passed>> /\ pc' = "batch"
        BY <1>1, <1>4 DEF fate
      <3> QED BY <1>4, <3>1, <3>2 DEF BatchIsWhole, Below, HistoryId, Passable
    <2> QED BY <1>1, <1>4, <2>2, <2>3, <2>5, QuietStep
  <1>5. CASE FallBack
    <2>1. pc' = "recent" /\ UNCHANGED <<acc, ids, fresh, unlisted>> /\ faults' \in 0..MaxFaults
      BY <1>5, Faulting DEF FallBack, Inv, GmailTypeOK
    <2>2. GmailTypeOK'
      BY <1>1, <2>1 DEF Inv, GmailTypeOK, fate
    <2>3. BatchIsWhole'
      BY <2>1 DEF BatchIsWhole
    <2> QED BY <1>1, <2>1, <2>2, <2>3, QuietStep
  <1>6. CASE CallFails
    BY <1>6, CallFailsStep DEF History
  <1> QED BY <1>4, <1>5, <1>6 DEF History

LEMMA FallbackRecentStep ==
  ASSUME Inv, FallbackRecent
  PROVE  Inv'
  <1>1. UNCHANGED <<box, token, valid, lastId, state, todo, seen, fate>>
    BY DEF FallbackRecent, mailboxes
  <1> DEFINE a == acc.acct
             l == Len(box[a])
  <1>2. a \in Mailbox /\ box[a] \in Seq(Mail) /\ l \in Nat
    BY InHand, Inboxes
  <1>3. ASSUME NEW n \in 0..l, ids' = Reverse(SubSeq(box[a], l - n + 1, l)),
               pc' = "profile", UNCHANGED <<acc, fresh, unlisted, faults>>
        PROVE  Inv'
    <2> DEFINE part == SubSeq(box[a], l - n + 1, l)
    <2>1. part \in Seq(Mail) /\ ToSet(part) \subseteq ToSet(box[a])
      <3>1. l - n + 1 \in Nat \ {0} /\ l <= Len(box[a])
        BY <1>2
      <3> QED BY <1>2, <3>1, PartOf
    <2> HIDE DEF part
    <2>2. ids' \in Seq(Mail) /\ ToSet(ids') \subseteq ToSet(box[a])
      BY <1>3, <2>1, Reversed DEF part
    <2>3. GmailTypeOK'
      BY <1>1, <1>3, <2>2 DEF Inv, GmailTypeOK, fate
    <2>4. BatchIsWhole'
      BY <1>3 DEF BatchIsWhole
    <2> QED BY <1>1, <1>3, <2>2, <2>3, <2>4, QuietStep
  <1>4. CASE CallFails
    BY <1>4, CallFailsStep DEF FallbackRecent
  <1> QED BY <1>3, <1>4 DEF FallbackRecent

\* What arrived before the profile was asked for is listed or noted as not listed.
LEMMA ProfileStep ==
  ASSUME Inv, Profile
  PROVE  Inv'
  <1>1. UNCHANGED <<box, token, valid, lastId, state, todo, seen, fate>>
    BY DEF Profile, mailboxes
  <1> DEFINE a == acc.acct
  <1>2. /\ a \in Mailbox /\ box[a] \in Seq(Mail) /\ HistoryId(a) \in Nat /\ ids \in Seq(Mail)
        /\ ToSet(box[a]) \subseteq Mail
    BY InHand, Inboxes, Elements DEF Inv, GmailTypeOK
  <1>3. CASE /\ fresh' = HistoryId(a) /\ unlisted' = ToSet(box[a]) \ ToSet(ids)
             /\ pc' = "batch" /\ UNCHANGED <<acc, ids, faults>>
    <2>1. GmailTypeOK'
      BY <1>1, <1>2, <1>3 DEF Inv, GmailTypeOK, fate
    <2>2. ToSet(ids') \subseteq ToSet(box[acc'.acct])
      BY <1>3 DEF Profile, Inv, IInv, OwnMail
    <2>3. BatchIsWhole'
      <3>1. Below(a, HistoryId(a)) \subseteq unlisted' \cup ToSet(ids) /\ HistoryId(a) <= HistoryId(a)
        BY <1>2, <1>3, BelowIsInBox
      <3>2. UNCHANGED <<box, acc, ids>> /\ pc' = "batch"
        BY <1>1, <1>3
      <3> QED BY <1>3, <3>1, <3>2 DEF BatchIsWhole, Below, HistoryId
    <2> QED BY <1>1, <1>3, <2>1, <2>2, <2>3, QuietStep
  <1>4. CASE CallFails
    BY <1>4, CallFailsStep DEF Profile
  <1> QED BY <1>3, <1>4 DEF Profile

-----------------------------------------------------------------------------
(***************************************************************************)
(* The batch.                                                              *)
(***************************************************************************)

\* What an account has handled only grows, and a message too many outgrows its seen set.
LEMMA HandledGrows ==
  ASSUME Inv, settled \subseteq settled', IsFiniteSet(settled'), NEW a
  PROVE  /\ Handled(a) \subseteq {m \in settled' : AccountOf[m] = a}
         /\ IsFiniteSet({m \in settled' : AccountOf[m] = a})
         /\ Outgrown(a) => Cardinality({m \in settled' : AccountOf[m] = a}) > SeenCap
  <1> DEFINE old == Handled(a)
             new == {m \in settled' : AccountOf[m] = a}
  <1>1. old \subseteq new /\ new \subseteq settled'
    BY DEF Handled
  <1> HIDE DEF old, new
  <1>2. IsFiniteSet(new)
    BY <1>1, FS_Subset
  <1>3. /\ IsFiniteSet(old) /\ Cardinality(old) <= Cardinality(new)
        /\ Cardinality(old) \in Nat /\ Cardinality(new) \in Nat
    BY <1>1, <1>2, FS_Subset, FS_CardinalityType
  <1>4. Cardinality(old) > SeenCap => Cardinality(new) > SeenCap
    BY <1>3, GmailAssumption
  <1> QED BY <1>1, <1>2, <1>4 DEF old, new, Outgrown

\* A message of the batch is seen by now: it was ignored, or accepted.
LEMMA SeenStep ==
  ASSUME Inv, NEW a \in Mailbox, NEW m \in Mail, AccountOf[m] = a, m \notin ToSet(seen[a]),
         seen' = [seen EXCEPT ![a] = Add(seen[a], m)], settled' = settled \cup {m},
         sent' = sent \/ sent' = [sent EXCEPT ![m] = @ + 1]
  PROVE  /\ seen' \in [Mailbox -> Seq(Mail)] /\ \A b \in Mailbox : Len(seen'[b]) <= SeenCap
         /\ sent' \in [Mail -> Nat]
         /\ SeenIsHandled' /\ SentIsSeen'
  <1> DEFINE s == seen[a]
             t == Add(seen[a], m)
             new(b) == {x \in settled' : AccountOf[x] = b}
  <1>1. s \in Seq(Mail) /\ Len(s) <= SeenCap /\ Distinct(s) /\ ToSet(s) \subseteq Handled(a)
    BY DEF Inv, IInv, GmailTypeOK, SeenIsHandled
  <1>2. /\ t \in Seq(Mail) /\ Len(t) <= SeenCap /\ Distinct(t)
        /\ m \in ToSet(t) /\ ToSet(t) \subseteq ToSet(s) \cup {m}
        /\ ToSet(s) \subseteq ToSet(t) \/ Len(s) = SeenCap
    BY <1>1, Adding
  <1>3. seen \in [Mailbox -> Seq(Mail)] /\ sent \in [Mail -> Nat]
        /\ \A b \in Mailbox : Len(seen[b]) <= SeenCap
    BY DEF Inv, GmailTypeOK
  <1>4. settled \subseteq settled' /\ IsFiniteSet(settled')
    BY FS_AddElement DEF Inv, IInv, SeenIsHandled
  <1>5. ASSUME NEW b
        PROVE  /\ Handled(b) \subseteq new(b) /\ IsFiniteSet(new(b))
               /\ Outgrown(b) => Cardinality(new(b)) > SeenCap
    BY <1>4, HandledGrows
  <1>6. m \in new(a)
    OBVIOUS
  <1>7. Len(s) = SeenCap => Cardinality(new(a)) > SeenCap
    <2> SUFFICES ASSUME Len(s) = SeenCap PROVE Cardinality(new(a)) > SeenCap
      OBVIOUS
    <2> DEFINE both == ToSet(s) \cup {m}
               all == new(a)
    <2>1. IsFiniteSet(ToSet(s)) /\ Cardinality(ToSet(s)) = SeenCap
      BY <1>1, DistinctCounts
    <2>2. Cardinality(both) = SeenCap + 1
      BY <2>1, FS_AddElement
    <2>3. both \subseteq all /\ IsFiniteSet(all)
      BY <1>1, <1>5, <1>6
    <2> HIDE DEF both, all
    <2>4. Cardinality(both) <= Cardinality(all) /\ Cardinality(all) \in Nat
      BY <2>3, FS_Subset, FS_CardinalityType
    <2>5. Cardinality(all) > SeenCap
      BY <2>2, <2>4, GmailAssumption
    <2> QED BY <2>5 DEF all
  <1> HIDE DEF t
  <1>8. /\ seen' \in [Mailbox -> Seq(Mail)] /\ seen'[a] = t
        /\ \A b \in Mailbox \ {a} : seen'[b] = seen[b]
    BY <1>2, <1>3 DEF t
  <1>9. \A b \in Mailbox : Len(seen'[b]) <= SeenCap
    BY <1>2, <1>3, <1>8
  <1>10. /\ sent' \in [Mail -> Nat] /\ sent'[m] \in {sent[m], sent[m] + 1}
         /\ \A x \in Mail \ {m} : sent'[x] = sent[x]
    BY <1>3
  <1>11. SeenIsHandled'
    <2>1. ASSUME NEW b \in Mailbox PROVE ToSet(seen'[b]) \subseteq new(b) /\ Distinct(seen'[b])
      <3>1. CASE b = a
        BY <1>1, <1>2, <1>5, <1>6, <1>8, <3>1
      <3>2. CASE b # a
        <4>1. ToSet(seen[b]) \subseteq Handled(b) /\ Distinct(seen[b])
          BY DEF Inv, IInv, SeenIsHandled
        <4> QED BY <1>5, <1>8, <3>2, <4>1
      <3> QED BY <3>1, <3>2
    <2> QED BY <1>4, <2>1 DEF SeenIsHandled, Handled, Distinct
  <1>12. SentIsSeen'
    <2> DEFINE Big(b) == Cardinality(new(b)) > SeenCap
    <2>1. ASSUME NEW x \in Mail
          PROVE  /\ sent'[x] > 0 => x \in ToSet(seen'[AccountOf[x]]) \/ Big(AccountOf[x])
                 /\ sent'[x] > 1 => Big(AccountOf[x])
      <3>1. PICK b \in Mailbox : b = AccountOf[x]
        BY GmailAssumption
      <3>2. Outgrown(b) => Big(b)
        BY <1>5
      <3>3. /\ sent[x] > 0 => x \in ToSet(seen[b]) \/ Outgrown(b)
            /\ sent[x] > 1 => Outgrown(b)
        BY <3>1 DEF Inv, IInv, SentIsSeen
      <3>4. sent[x] \in Nat /\ sent[m] \in Nat
        BY <1>3
      <3> HIDE DEF Big, new
      <3>5. CASE x = m
        <4>1. b = a /\ x \in ToSet(seen'[b])
          BY <1>2, <1>8, <3>1, <3>5
        <4>2. sent'[x] > 1 => sent[x] > 0
          BY <1>10, <3>4, <3>5
        <4>3. sent'[x] > 1 => Big(b)
          BY <3>2, <3>3, <3>5, <4>1, <4>2
        <4> QED BY <3>1, <4>1, <4>3
      <3>6. CASE x # m /\ b # a
        BY <1>8, <1>10, <3>1, <3>2, <3>3, <3>6
      <3>7. CASE x # m /\ b = a
        <4>1. Len(s) = SeenCap => Big(b)
          BY <1>7, <3>7 DEF Big
        <4>2. x \in ToSet(seen[b]) => x \in ToSet(seen'[b]) \/ Big(b)
          BY <1>2, <1>8, <3>7, <4>1
        <4> QED BY <1>10, <3>1, <3>2, <3>3, <3>7, <4>2
      <3> QED BY <3>5, <3>6, <3>7
    <2> QED BY <2>1 DEF SentIsSeen, Outgrown, Handled
  <1> QED BY <1>8, <1>9, <1>10, <1>11, <1>12

\* The first message of the batch leaves it: it is settled, or it has failed.
LEMMA ForwardStep ==
  ASSUME Inv, Forward
  PROVE  Inv'
  <1> DEFINE a == acc.acct
             m == Head(ids)
  <1>1. /\ UNCHANGED <<box, token, valid, lastId, state, pc, todo, acc, fresh, unlisted>>
        /\ pc = "batch" /\ ids # <<>> /\ ids' = Tail(ids)
    BY DEF Forward, mailboxes
  <1>2. ids \in Seq(Mail) /\ seen \in [Mailbox -> Seq(Mail)] /\ a \in Mailbox
    BY InHand DEF Inv, GmailTypeOK
  <1>3. /\ m \in Mail /\ m \in ToSet(ids) /\ ids' \in Seq(Mail)
        /\ ToSet(ids) = {m} \cup ToSet(ids')
    BY <1>1, <1>2, HeadAndTail
  <1>4. ToSet(ids) \subseteq ToSet(box[a]) /\ AccountOf[m] = a
    BY <1>1, <1>2, <1>3 DEF Inv, IInv, OwnMail
  <1> HIDE DEF m
  <1>5. ASSUME Passable \subseteq Passable', m \in Passable', settled' \subseteq Mail,
               failed' \subseteq Mail, UNCHANGED passed, faults' \in 0..MaxFaults,
               seen' \in [Mailbox -> Seq(Mail)], \A b \in Mailbox : Len(seen'[b]) <= SeenCap,
               sent' \in [Mail -> Nat], SeenIsHandled', SentIsSeen'
        PROVE  Inv'
    <2>1. GmailTypeOK'
      BY <1>1, <1>3, <1>5 DEF Inv, GmailTypeOK
    <2>2. OwnMail'
      BY <1>1, <1>3, <1>4 DEF Inv, IInv, OwnMail
    <2>3. IdsAreCovered'
      <3>1. ASSUME NEW b \in Mailbox PROVE Covered(b, lastId[b])'
        <4>1. PICK id : id = lastId[b]
          OBVIOUS
        <4>2. Covered(b, id)'
          BY <1>1, <1>5, <4>1, Inboxes, CoveredStays
        <4> QED BY <1>1, <4>1, <4>2 DEF Covered, Below
      <3>2. ASSUME NEW row \in todo' \cup {acc'} PROVE Covered(row.acct, row.start)'
        <4>1. Covered(row.acct, row.start)
          BY <1>1 DEF Inv, IInv, IdsAreCovered
        <4> QED BY <1>1, <1>5, <4>1, CoveredStays
      <3> QED BY <3>1, <3>2 DEF IdsAreCovered
    <2>4. BatchIsWhole'
      <3>1. /\ fresh <= HistoryId(a)
            /\ Below(a, fresh) \subseteq Passable \cup unlisted \cup ToSet(ids)
        BY <1>1 DEF Inv, IInv, BatchIsWhole
      <3>2. Below(a, fresh) \subseteq Passable' \cup unlisted \cup ToSet(ids')
        BY <1>3, <1>5, <3>1
      <3> QED BY <1>1, <3>1, <3>2 DEF BatchIsWhole, Below, HistoryId
    <2> QED BY <1>5, <2>1, <2>2, <2>3, <2>4 DEF Inv, IInv
  <1>6. CASE Skip(m)
    <2>1. m \in ToSet(seen[a]) /\ UNCHANGED <<seen, sent, settled, failed, passed, faults>>
      BY <1>2, <1>6, Elements DEF Skip, fate
    <2>2. m \in settled
      BY <1>2, <2>1 DEF Inv, IInv, SeenIsHandled, Handled
    <2>3. SeenIsHandled' /\ SentIsSeen'
      BY <2>1 DEF Inv, IInv, SeenIsHandled, SentIsSeen, Handled, Outgrown
    <2> QED BY <1>5, <2>1, <2>2, <2>3 DEF Passable, Inv, GmailTypeOK
  <1>7. CASE ~Contains(seen[a], m) /\ (Ignore(m) \/ Accept(m))
    <2>1. /\ m \notin ToSet(seen[a]) /\ seen' = [seen EXCEPT ![a] = Add(seen[a], m)]
          /\ settled' = settled \cup {m} /\ UNCHANGED <<failed, passed, faults>>
          /\ sent' = sent \/ sent' = [sent EXCEPT ![m] = @ + 1]
      BY <1>2, <1>7, Elements DEF Ignore, Accept, MarkSeen
    <2>2. /\ seen' \in [Mailbox -> Seq(Mail)] /\ \A b \in Mailbox : Len(seen'[b]) <= SeenCap
          /\ sent' \in [Mail -> Nat] /\ SeenIsHandled' /\ SentIsSeen'
      BY <1>2, <1>3, <1>4, <2>1, SeenStep
    <2>3. /\ Passable \subseteq Passable' /\ m \in Passable' /\ settled' \subseteq Mail
          /\ failed' \subseteq Mail /\ faults' \in 0..MaxFaults
      BY <1>3, <2>1 DEF Passable, Inv, GmailTypeOK
    <2> QED BY <1>5, <2>1, <2>2, <2>3
  <1>8. CASE ForwardFails(m)
    <2>1. UNCHANGED <<seen, sent, settled, passed>> /\ failed' = failed \cup {m}
      BY <1>8 DEF ForwardFails
    <2>2. faults' \in 0..MaxFaults
      BY <1>8, Faulting DEF ForwardFails
    <2>3. SeenIsHandled' /\ SentIsSeen'
      BY <2>1 DEF Inv, IInv, SeenIsHandled, SentIsSeen, Handled, Outgrown
    <2> QED BY <1>3, <1>5, <2>1, <2>2, <2>3 DEF Passable, Inv, GmailTypeOK
  <1> QED BY <1>6, <1>7, <1>8 DEF Forward, m

LEMMA BatchDoneStep ==
  ASSUME Inv, BatchDone
  PROVE  Inv'
  <1>1. /\ UNCHANGED <<box, token, valid, lastId, state, todo, acc, ids, fresh, unlisted, seen,
                       fate, faults>>
        /\ pc = "batch" /\ pc' = "save" /\ ids = <<>>
    BY DEF BatchDone, mailboxes, tick
  <1>2. GmailTypeOK'
    BY <1>1 DEF Inv, GmailTypeOK, fate
  <1>3. ToSet(ids') \subseteq ToSet(box[acc'.acct])
    BY <1>1 DEF Inv, IInv, OwnMail
  <1>4. BatchIsWhole'
    BY <1>1 DEF Inv, IInv, BatchIsWhole, Below, HistoryId, Passable, fate
  <1> QED BY <1>1, <1>2, <1>3, <1>4, QuietStep

\* The stored id passes what the batch has settled and what was noted as not listed.
LEMMA SaveHistoryIDStep ==
  ASSUME Inv, SaveHistoryID
  PROVE  Inv'
  <1> DEFINE a == acc.acct
  <1>1. /\ UNCHANGED <<box, token, valid, state, todo, seen, sent, settled, failed>>
        /\ pc = "save" /\ NextAccount
    BY DEF SaveHistoryID
  <1>2. CASE /\ lastId' = [lastId EXCEPT ![a] = fresh] /\ passed' = passed \cup unlisted
             /\ UNCHANGED faults
    <2>1. a \in Mailbox /\ fresh \in Nat /\ lastId \in [Mailbox -> Nat] /\ unlisted \subseteq Mail
      BY InHand DEF Inv, GmailTypeOK
    <2>2. lastId' \in [Mailbox -> Nat] /\ lastId'[a] = fresh
          /\ \A b \in Mailbox \ {a} : lastId'[b] = lastId[b]
      BY <1>2, <2>1
    <2>3. Passable' = Passable \cup unlisted
      BY <1>1, <1>2 DEF Passable
    <2>4. /\ GmailTypeOK'
      BY <1>1, <1>2, <2>1, <2>2, NoRowIsRow, NoMessages DEF Inv, GmailTypeOK, NextAccount
    <2>5. OwnMail' /\ BatchIsWhole'
      BY <1>1 DEF NextAccount, Inv, IInv, OwnMail, BatchIsWhole
    <2>6. SeenIsHandled' /\ SentIsSeen'
      BY <1>1 DEF Inv, IInv, SeenIsHandled, SentIsSeen, Handled, Outgrown
    <2>7. IdsAreCovered'
      <3>1. ASSUME NEW b \in Mailbox PROVE Covered(b, lastId[b])'
        <4>1. PICK id : id = lastId'[b]
          OBVIOUS
        <4>2. id <= HistoryId(b) /\ Below(b, id) \subseteq Passable \cup unlisted
          <5>1. CASE b = a
            <6>1. /\ id <= HistoryId(b)
                  /\ Below(b, id) \subseteq Passable \cup unlisted \cup ToSet(<<>>)
              BY <1>1, <2>2, <4>1, <5>1 DEF Inv, IInv, BatchIsWhole
            <6> QED BY <6>1, NoElements
          <5>2. CASE b # a
            BY <2>2, <4>1, <5>2, Inboxes DEF Covered
          <5> QED BY <5>1, <5>2
        <4> QED BY <1>1, <2>3, <4>1, <4>2 DEF Covered, HistoryId, Below
      <3>2. ASSUME NEW row \in todo' \cup {acc'} PROVE Covered(row.acct, row.start)'
        <4>1. Covered(row.acct, row.start)
          <5>1. CASE row \in todo
            BY <5>1 DEF Inv, IInv, IdsAreCovered
          <5>2. CASE row = NoRow
            BY <5>2, NoRowIsRow, NothingBelowZero
          <5> QED BY <1>1, <5>1, <5>2 DEF NextAccount
        <4> QED BY <1>1, <2>3, <4>1, CoveredStays
      <3> QED BY <3>1, <3>2 DEF IdsAreCovered
    <2> QED BY <2>4, <2>5, <2>6, <2>7 DEF Inv, IInv
  <1>3. CASE MayFault("save") /\ UNCHANGED <<lastId, passed>>
    <2>1. faults' \in 0..MaxFaults /\ state' \in [Mailbox -> {"ok", "needs_reconnect"}]
      BY <1>1, <1>3, Faulting DEF Inv, GmailTypeOK
    <2> QED BY <1>1, <1>3, <2>1, NextAccountStep DEF fate
  <1> QED BY <1>2, <1>3 DEF SaveHistoryID

-----------------------------------------------------------------------------
(***************************************************************************)
(* The process, Gmail and the owners.                                      *)
(***************************************************************************)
LEMMA StopStep ==
  ASSUME Inv, Stop
  PROVE  Inv'
  <1>1. /\ UNCHANGED <<box, token, valid, lastId, state, settled, failed, passed>>
        /\ pc' = "wait" /\ todo' = {} /\ acc' = NoRow /\ ids' = <<>> /\ fresh' = 0
        /\ unlisted' = {} /\ seen' = [a \in Mailbox |-> <<>>] /\ sent' = [m \in Mail |-> 0]
    BY DEF Stop, mailboxes
  <1>2. faults' \in 0..MaxFaults
    BY Faulting DEF Stop
  <1>3. \A a \in Mailbox : seen'[a] = <<>> /\ Len(seen'[a]) <= SeenCap
    <2>1. Len(<<>>) = 0 /\ 0 <= SeenCap
      BY EmptySeq, GmailAssumption
    <2> QED BY <1>1, <2>1
  <1>4. GmailTypeOK'
    BY <1>1, <1>2, <1>3, NoRowIsRow, NoMessages DEF Inv, GmailTypeOK
  <1>5. OwnMail' /\ BatchIsWhole'
    BY <1>1 DEF Inv, IInv, OwnMail, BatchIsWhole
  <1>6. UNCHANGED Passable
    BY <1>1 DEF Passable
  <1>7. IdsAreCovered'
    <2>1. ASSUME NEW b \in Mailbox PROVE Covered(b, lastId[b])'
      BY <1>1, <1>6, Inboxes DEF Covered, HistoryId, Below
    <2>2. ASSUME NEW row \in todo' \cup {acc'} PROVE Covered(row.acct, row.start)'
      <3>1. Covered(row.acct, row.start)
        BY <1>1, NoRowIsRow, NothingBelowZero
      <3> QED BY <1>1, <1>6, <3>1, CoveredStays
    <2> QED BY <2>1, <2>2 DEF IdsAreCovered
  <1>8. SeenIsHandled'
    BY <1>1, <1>3, NoElements DEF Inv, IInv, SeenIsHandled, Distinct
  <1>9. SentIsSeen'
    BY <1>1 DEF SentIsSeen
  <1> QED BY <1>4, <1>5, <1>7, <1>8, <1>9 DEF Inv, IInv

\* A message that arrives comes after every history id that Gmail has given out.
LEMMA ArriveStep ==
  ASSUME Inv, NEW m \in Mail, Arrive(m)
  PROVE  Inv'
  <1> DEFINE a == AccountOf[m]
             new == Append(box[a], m)
  <1>1. /\ UNCHANGED <<token, valid, lastId, state, pc, todo, acc, ids, fresh, unlisted, seen,
                       sent, settled, failed, passed, faults>>
        /\ box' = [box EXCEPT ![a] = new]
    BY DEF Arrive, tick, fate
  <1>2. a \in Mailbox /\ box \in [Mailbox -> Seq(Mail)]
    BY GmailAssumption DEF Inv, GmailTypeOK
  <1>3. /\ box[a] \in Seq(Mail) /\ new \in Seq(Mail) /\ Len(new) = Len(box[a]) + 1
        /\ Len(box[a]) \in Nat /\ \A k \in 1..Len(box[a]) : new[k] = box[a][k]
        /\ new[Len(box[a]) + 1] = m
    BY <1>2, LenProperties
  <1>4. ToSet(box[a]) \subseteq ToSet(new) /\ ToSet(new) \subseteq ToSet(box[a]) \cup {m}
    <2> DEFINE old == box[a]
    <2> HIDE DEF new, old
    <2>1. /\ old \in Seq(Mail) /\ new \in Seq(Mail) /\ Len(new) = Len(old) + 1 /\ Len(old) \in Nat
          /\ \A k \in 1..Len(old) : new[k] = old[k] /\ k \in 1..Len(new)
          /\ new[Len(old) + 1] = m
      BY <1>3 DEF old
    <2>2. ASSUME NEW x \in ToSet(old) PROVE x \in ToSet(new)
      <3>1. PICK i \in 1..Len(old) : old[i] = x
        BY <2>1, Elements
      <3> QED BY <2>1, <3>1, Elements
    <2>3. ASSUME NEW x \in ToSet(new) PROVE x \in ToSet(old) \cup {m}
      <3>1. PICK i \in 1..Len(new) : new[i] = x
        BY <2>1, Elements
      <3>2. i \in 1..Len(old) \/ i = Len(old) + 1
        BY <2>1
      <3> QED BY <2>1, <3>1, <3>2, Elements
    <2> QED BY <2>2, <2>3 DEF old
  <1> HIDE DEF new
  <1>5. /\ box' \in [Mailbox -> Seq(Mail)] /\ box'[a] = new
        /\ \A b \in Mailbox \ {a} : box'[b] = box[b]
    BY <1>1, <1>2, <1>3
  <1>6. GmailTypeOK'
    BY <1>1, <1>5 DEF Inv, GmailTypeOK
  <1>7. OwnMail'
    <2>1. ASSUME NEW b \in Mailbox, NEW x \in ToSet(box'[b]) PROVE AccountOf[x] = b
      <3>1. x \in ToSet(box[b]) \/ (b = a /\ x = m)
        BY <1>4, <1>5, <2>1
      <3> QED BY <3>1 DEF Inv, IInv, OwnMail
    <2>2. \A b \in Mailbox : ToSet(box[b]) \subseteq ToSet(box'[b])
      BY <1>4, <1>5
    <2>3. pc \in {"profile", "batch", "save"} => ToSet(ids) \subseteq ToSet(box'[acc.acct])
      BY <2>2, InHand DEF Inv, IInv, OwnMail
    <2> QED BY <1>1, <2>1, <2>3 DEF OwnMail
  <1>8. ASSUME NEW b \in Mailbox, NEW id \in Nat, id <= HistoryId(b)
        PROVE  /\ id <= Len(box'[b]) + 1
               /\ {box'[b][k] : k \in 1..id - 1} = Below(b, id)
    <2>1. CASE b = a
      <3>1. id <= Len(box[a]) + 1 /\ \A k \in 1..id - 1 : k \in 1..Len(box[a])
        BY <1>3, <1>8, <2>1, Inboxes
      <3>2. \A k \in 1..id - 1 : box'[a][k] = box[a][k]
        BY <1>3, <1>5, <3>1
      <3>3. id <= Len(box'[a]) + 1
        BY <1>3, <1>5, <3>1
      <3> QED BY <2>1, <3>2, <3>3 DEF Below
    <2>2. CASE b # a
      BY <1>5, <1>8, <2>2 DEF HistoryId, Below
    <2> QED BY <2>1, <2>2
  <1>9. UNCHANGED Passable
    BY <1>1 DEF Passable
  <1>10. ASSUME NEW b \in Mailbox, NEW id \in Nat, Covered(b, id) PROVE Covered(b, id)'
    BY <1>8, <1>9, <1>10 DEF Covered, HistoryId, Below
  <1>11. IdsAreCovered'
    <2>1. ASSUME NEW b \in Mailbox PROVE Covered(b, lastId[b])'
      <3>1. PICK id \in Nat : id = lastId[b] /\ Covered(b, id)
        BY Inboxes
      <3>2. Covered(b, id)'
        BY <1>10, <3>1
      <3> QED BY <1>1, <3>1, <3>2 DEF Covered, Below
    <2>2. ASSUME NEW row \in todo' \cup {acc'} PROVE Covered(row.acct, row.start)'
      <3>1. Covered(row.acct, row.start) /\ row.acct \in Mailbox /\ row.start \in Nat
        BY <1>1 DEF Inv, IInv, IdsAreCovered, GmailTypeOK, Row
      <3> QED BY <1>10, <3>1
    <2> QED BY <2>1, <2>2 DEF IdsAreCovered
  <1>12. BatchIsWhole'
    <2> SUFFICES ASSUME pc \in {"batch", "save"}
                 PROVE  /\ fresh <= Len(box'[acc.acct]) + 1
                        /\ {box'[acc.acct][k] : k \in 1..fresh - 1}
                              \subseteq Passable \cup unlisted \cup ToSet(ids)
      BY <1>1, <1>9 DEF Inv, IInv, BatchIsWhole, HistoryId, Below
    <2>1. /\ fresh \in Nat /\ fresh <= HistoryId(acc.acct) /\ acc.acct \in Mailbox
          /\ Below(acc.acct, fresh) \subseteq Passable \cup unlisted \cup ToSet(ids)
      BY InHand DEF Inv, IInv, GmailTypeOK, BatchIsWhole
    <2> QED BY <1>8, <2>1
  <1>13. SeenIsHandled' /\ SentIsSeen'
    BY <1>1 DEF Inv, IInv, SeenIsHandled, SentIsSeen, Handled, Outgrown
  <1> QED BY <1>6, <1>7, <1>11, <1>12, <1>13 DEF Inv, IInv

LEMMA ConsentStep ==
  ASSUME Inv, NEW a \in Mailbox, Revoke(a) \/ Reconnect(a)
  PROVE  Inv'
  <1>1. /\ UNCHANGED <<box, lastId, pc, todo, acc, ids, fresh, unlisted, seen, fate, faults>>
        /\ valid' \subseteq Mailbox
    BY DEF Revoke, Reconnect, tick, Inv, GmailTypeOK
  <1>2. token' \in [Mailbox -> Nat] /\ state' \in [Mailbox -> {"ok", "needs_reconnect"}]
    <2>1. token \in [Mailbox -> Nat] /\ state \in [Mailbox -> {"ok", "needs_reconnect"}]
      BY DEF Inv, GmailTypeOK
    <2>2. \/ token' = token /\ state' = state
          \/ /\ token' = [token EXCEPT ![a] = @ + 1]
             /\ state' = [state EXCEPT ![a] = "ok"]
      BY DEF Revoke, Reconnect
    <2>3. token' \in [Mailbox -> Nat]
      BY <2>1, <2>2
    <2> QED BY <2>1, <2>2, <2>3
  <1>3. GmailTypeOK'
    BY <1>1, <1>2 DEF Inv, GmailTypeOK, fate
  <1>4. pc' \in {"profile", "batch", "save"} => ToSet(ids') \subseteq ToSet(box[acc'.acct])
    BY <1>1 DEF Inv, IInv, OwnMail
  <1>5. BatchIsWhole'
    BY <1>1 DEF Inv, IInv, BatchIsWhole, Below, HistoryId, Passable, fate
  <1> QED BY <1>1, <1>3, <1>4, <1>5, QuietStep

-----------------------------------------------------------------------------
(***************************************************************************)
(* The theorems.                                                           *)
(***************************************************************************)
LEMMA InvInit == GmailInit => Inv
  <1> SUFFICES ASSUME GmailInit PROVE Inv
    OBVIOUS
  <1>1. Len(<<>>) = 0 /\ 0 <= SeenCap /\ 0 \in 0..MaxFaults
    BY EmptySeq, GmailAssumption
  <1>2. GmailTypeOK
    BY <1>1, NoRowIsRow, NoMessages DEF GmailInit, GmailTypeOK
  <1>3. OwnMail /\ BatchIsWhole
    BY NoElements DEF GmailInit, OwnMail, BatchIsWhole
  <1>4. ASSUME NEW a \in Mailbox PROVE Covered(a, 0)
    <2>1. box[a] = <<>> /\ Below(a, 0) = {}
      BY DEF GmailInit, Below
    <2> QED BY <1>1, <2>1 DEF Covered, HistoryId
  <1>5. IdsAreCovered
    BY <1>4, NoRowIsRow DEF GmailInit, IdsAreCovered
  <1>6. SeenIsHandled
    BY NoElements, FS_EmptySet DEF GmailInit, SeenIsHandled
  <1>7. SentIsSeen
    BY DEF GmailInit, SentIsSeen
  <1> QED BY <1>2, <1>3, <1>5, <1>6, <1>7 DEF Inv, IInv

LEMMA InvNext == Inv /\ [GmailNext]_gmailVars => Inv'
  <1> SUFFICES ASSUME Inv, [GmailNext]_gmailVars PROVE Inv'
    OBVIOUS
  <1>1. CASE Poll
    BY <1>1, ListAccountsStep, PollAccountStep, AccessTokenStep, HistoryStep, FallbackRecentStep,
       ProfileStep, ForwardStep, BatchDoneStep, SaveHistoryIDStep DEF Poll
  <1>2. CASE Stop
    BY <1>2, StopStep
  <1>3. CASE Outside
    BY <1>3, ArriveStep, ConsentStep DEF Outside
  <1>4. CASE UNCHANGED gmailVars
    <2>1. UNCHANGED <<box, token, valid, lastId, state, pc, todo, acc, ids, fresh, unlisted, seen,
                      sent, settled, failed, passed, faults>>
      BY <1>4 DEF gmailVars, mailboxes, tick, fate
    <2>2. GmailTypeOK' /\ OwnMail' /\ BatchIsWhole' /\ SeenIsHandled' /\ SentIsSeen'
      BY <2>1 DEF Inv, IInv, GmailTypeOK, OwnMail, BatchIsWhole, SeenIsHandled, SentIsSeen, Handled,
         Outgrown, Below, HistoryId, Passable
    <2>3. IdsAreCovered'
      BY <2>1 DEF Inv, IInv, IdsAreCovered, Covered, Below, HistoryId, Passable
    <2> QED BY <2>2, <2>3 DEF Inv, IInv
  <1> QED BY <1>1, <1>2, <1>3, <1>4 DEF GmailNext

LEMMA InvAlways == GmailSpec => []Inv
  BY InvInit, InvNext, PTL DEF GmailSpec

\* Accounts, ticks, batches and seen sets have their type, and no seen set grows over its cap.
THEOREM GmailTypeCorrect == GmailSpec => []GmailTypeOK
  <1>1. Inv => GmailTypeOK
    BY DEF Inv
  <1> QED BY <1>1, InvAlways, PTL

\* The process hears of two acceptances of a message only when its account has had more
\* messages than the seen set holds, whatever was asked for anew (pollAccount and seenSet.Add).
THEOREM MessagesAreAcceptedOnce == GmailSpec => []AcceptedOnce
  <1>1. Inv => AcceptedOnce
    BY DEF Inv, IInv, SentIsSeen, Outgrown, AcceptedOnce
  <1> QED BY <1>1, InvAlways, PTL

\* Below a stored history id every message is settled, was forwarded in vain, or was not
\* listed by a fallback: a history id never runs ahead of its batch (pollAccount).
THEOREM HistoryPassesNothingUnseen == GmailSpec => []NothingPassedOver
  <1>1. Inv => NothingPassedOver
    BY DEF Inv, IInv, IdsAreCovered, Covered, Passable, NothingPassedOver
  <1> QED BY <1>1, InvAlways, PTL

-----------------------------------------------------------------------------
(***************************************************************************)
(* The index: the inductive invariant.                                     *)
(***************************************************************************)
ChunkRow == [report : Report, ver : Nat \ {0}, kind : {"parent", "child"}]
ChunkText == [id : Nat, ver : Nat]
Job == [texts : SUBSET ChunkText, provider : {"pending", "succeeded", "failed"},
        row : {"active", "ingested", "failed"}]

Ingesting  == {"article", "insert"}
Indexing   == {"next", "upsert", "mark"}
Collecting == {"poll", "ingest", "ingested"}
Submitters == {"submit", "record"}
Reembeds   == {"inspect", "recreate", "ensure", "report"}

IngestFields == {"pc", "company", "todo"}
IndexFields  == {"pc", "company", "after", "limit", "done", "texts"}
BatchFields  == {"pc", "busy", "scope", "wave", "todo", "job", "left", "texts"}
SubmitFields == {"pc", "texts", "wave"}
ReembedFields == {"pc", "company", "dim", "todo"}

IndexTables ==
    /\ chunks \in Seq(ChunkRow)
    /\ embedded \in Seq(Nat) /\ Len(embedded) = Len(chunks)
    /\ \A id \in Id : embedded[id] <= chunks[id].ver
    /\ DOMAIN collection = Company
    /\ \A c \in Company : {"dim", "points"} \subseteq DOMAIN collection[c]
    /\ DOMAIN runner = Runner
    /\ jobs \in Seq(Job)
    /\ ghost \in [raced : SUBSET Nat, reembedded : SUBSET Company]

\* A text that was read from a chunk there is.
Listed(t) == t \in ChunkText /\ t.id \in Id

\* The text is what the chunk says, or an old text of the chunk is being embedded.
Current(t) == Listed(t) /\ (t.id \notin ghost.raced => t.ver = chunks[t.id].ver)

\* The chunk may be marked: its vector is in the collection, and of its present content.
Vectored(id) ==
    CompanyOf(id) \notin ghost.reembedded =>
        /\ id \in DOMAIN collection[CompanyOf(id)].points
        /\ collection[CompanyOf(id)].points[id].kind = "chunk"
        /\ id \notin ghost.raced => collection[CompanyOf(id)].points[id].ver = chunks[id].ver

Shaped(run) ==
    /\ run.pc \in {"idle"} \union Ingesting \union Indexing \union Collecting \union Submitters \union Reembeds
    /\ run.pc \in Ingesting => IngestFields \subseteq DOMAIN run /\ run.company \in Company /\ run.todo \subseteq Report
    /\ run.pc \in Indexing => IndexFields \subseteq DOMAIN run /\ run.company \in Company
    /\ run.pc \in Collecting => BatchFields \subseteq DOMAIN run /\ run.todo \subseteq DOMAIN jobs
    /\ run.pc \in {"ingest", "ingested"} => run.job \in DOMAIN jobs
    /\ run.pc \in Submitters => SubmitFields \subseteq DOMAIN run
    /\ run.pc \in Reembeds => ReembedFields \subseteq DOMAIN run /\ run.company \in Company
    /\ run.pc = "report" => run.company \in ghost.reembedded

Task(run) ==
    /\ Shaped(run)
    /\ \A t \in TextsOf(run) : Current(t)
    /\ run.pc \in Submitters => \A t \in run.texts : Listed(t)
    /\ run.pc \in {"upsert", "mark"} => \A t \in run.texts : CompanyOf(t.id) = run.company
    /\ run.pc \in {"mark", "ingested"} => \A t \in run.texts : Vectored(t.id)

TasksRun == \A w \in Runner : Task(runner[w])
JobsListed == \A k \in DOMAIN jobs : \A t \in jobs[k].texts : Listed(t)

TrueMarks ==
    \A id \in Id : CompanyOf(id) \notin ghost.reembedded =>
        /\ embedded[id] # 0 =>
              /\ id \in DOMAIN collection[CompanyOf(id)].points
              /\ collection[CompanyOf(id)].points[id].kind = "chunk"
        /\ id \notin ghost.raced /\ embedded[id] = chunks[id].ver =>
              collection[CompanyOf(id)].points[id].ver = chunks[id].ver

IndexInv == IndexTables /\ TasksRun /\ JobsListed /\ TrueMarks

-----------------------------------------------------------------------------
(***************************************************************************)
(* What a step has to see to.                                              *)
(***************************************************************************)
LEMMA IndexAssumed ==
  /\ Owner \in [Report -> Company] /\ Pieces \in [Report -> Nat] /\ Report \subseteq Nat
  /\ ParentGroup \in Nat \ {0} /\ Stride \in Nat \ {0}
  BY VectorIndexAssumption

LEMMA RowIs ==
  ASSUME IndexTables, NEW id \in Id
  PROVE  /\ id \in Nat \ {0} /\ chunks[id] \in ChunkRow /\ chunks[id].ver \in Nat \ {0}
         /\ CompanyOf(id) \in Company /\ embedded[id] \in Nat
  <1>1. /\ chunks \in Seq(ChunkRow) /\ Len(chunks) \in Nat /\ id \in 1..Len(chunks)
        /\ embedded \in Seq(Nat) /\ Len(embedded) = Len(chunks)
    BY DEF IndexTables, Id
  <1>2. chunks[id] \in ChunkRow /\ embedded[id] \in Nat
    BY <1>1
  <1>3. PICK row : row = chunks[id] /\ row \in ChunkRow
    BY <1>2
  <1>4. row.ver \in Nat \ {0} /\ row.report \in Report
    BY <1>3 DEF ChunkRow
  <1>5. CompanyOf(id) \in Company
    BY <1>3, <1>4, IndexAssumed DEF CompanyOf
  <1>6. id \in Nat \ {0}
    BY <1>1
  <1> QED BY <1>2, <1>3, <1>4, <1>5, <1>6

\* The tables and the jobs stay: the task that moves is all right, and no vector is lost.
LEMMA TaskMoves ==
  ASSUME IndexInv, UNCHANGED <<chunks, jobs, ghost>>, IndexTables', TrueMarks',
         \A w \in Runner : runner'[w] = runner[w] \/ Task(runner[w])',
         \A id \in Id : Vectored(id) => Vectored(id)'
  PROVE  IndexInv'
  <1>1. ASSUME NEW w \in Runner, runner'[w] = runner[w]
        PROVE  Task(runner[w])'
    <2>1. PICK run : run = runner[w]
      OBVIOUS
    <2>2. Task(run)
      BY <2>1 DEF IndexInv, TasksRun
    <2>3. Shaped(run)' /\ TextsOf(run)' = TextsOf(run)
      BY <2>2 DEF Task, Shaped, TextsOf
    <2>4. \A t : (Current(t) => Current(t)') /\ (Listed(t) => Listed(t)')
      BY DEF Current, Listed, Id
    <2>5. \A id : CompanyOf(id)' = CompanyOf(id)
      BY DEF CompanyOf
    <2>6. run.pc \in {"mark", "ingested"} => \A t \in run.texts : Vectored(t.id)'
      <3> SUFFICES ASSUME run.pc \in {"mark", "ingested"}, NEW t \in run.texts
                   PROVE  Vectored(t.id)'
        OBVIOUS
      <3>1. Current(t) /\ Vectored(t.id)
        BY <2>2 DEF Task, TextsOf
      <3> QED BY <3>1 DEF Current, Listed, Id
    <2>7. Task(run)'
      BY <2>2, <2>3, <2>4, <2>5, <2>6 DEF Task
    <2> QED BY <1>1, <2>1, <2>7
  <1>2. TasksRun'
    BY <1>1 DEF TasksRun
  <1>3. JobsListed'
    BY DEF IndexInv, JobsListed, Listed, Id
  <1> QED BY <1>2, <1>3 DEF IndexInv

\* A task moves, and nothing else.
LEMMA OnlyTaskMoves ==
  ASSUME IndexInv, NEW w \in Runner, NEW run, Become(w, run), Task(run),
         UNCHANGED <<chunks, embedded, collection, jobs, ghost>>
  PROVE  IndexInv'
  <1>1. /\ runner'[w] = run /\ DOMAIN runner' = Runner
        /\ \A v \in Runner \ {w} : runner'[v] = runner[v]
    BY DEF Become, IndexInv, IndexTables, Id
  <1>2. Task(run)'
    <2>1. Shaped(run)' /\ TextsOf(run)' = TextsOf(run)
      BY DEF Task, Shaped, TextsOf
    <2> QED BY <2>1 DEF Task, Current, Listed, Vectored, CompanyOf, Id
  <1>3. \A v \in Runner : runner'[v] = runner[v] \/ Task(runner[v])'
    BY <1>1, <1>2
  <1>4. IndexTables' /\ TrueMarks'
    BY <1>1 DEF IndexInv, IndexTables, TrueMarks, CompanyOf, Id
  <1>5. \A id \in Id : Vectored(id) => Vectored(id)'
    BY DEF Vectored, CompanyOf, Id
  <1> QED BY <1>3, <1>4, <1>5, TaskMoves

\* Jobs come and go: their texts get no more.
LEMMA JobsMove ==
  ASSUME IndexInv, UNCHANGED <<chunks, embedded, collection, ghost>>, DOMAIN runner' = Runner,
         jobs' \in Seq(Job), DOMAIN jobs \subseteq DOMAIN jobs',
         \A k \in DOMAIN jobs' :
            (k \in DOMAIN jobs /\ jobs'[k].texts \subseteq jobs[k].texts) \/ \A t \in jobs'[k].texts : Listed(t),
         \A w \in Runner : runner'[w] = runner[w] \/ Task(runner[w])'
  PROVE  IndexInv'
  <1>1. \A t : (Current(t) => Current(t)') /\ (Listed(t) => Listed(t)')
    BY DEF Current, Listed, Id
  <1>2. ASSUME NEW w \in Runner, runner'[w] = runner[w]
        PROVE  Task(runner[w])'
    <2>1. PICK run : run = runner[w]
      OBVIOUS
    <2>2. Task(run)
      BY <2>1 DEF IndexInv, TasksRun
    <2>3. Shaped(run)' /\ TextsOf(run)' = TextsOf(run)
      BY <2>2 DEF Task, Shaped, TextsOf
    <2>4. Task(run)'
      BY <1>1, <2>2, <2>3 DEF Task, Vectored, CompanyOf, Id
    <2> QED BY <1>2, <2>1, <2>4
  <1>3. TasksRun'
    BY <1>2 DEF TasksRun
  <1>4. JobsListed'
    BY <1>1 DEF IndexInv, JobsListed
  <1>5. IndexTables' /\ TrueMarks'
    BY DEF IndexInv, IndexTables, TrueMarks, CompanyOf, Id
  <1> QED BY <1>3, <1>4, <1>5 DEF IndexInv

\* More chunks are given up: less is said of them.
LEMMA RacedGrows ==
  ASSUME IndexInv, UNCHANGED <<chunks, embedded, collection, jobs>>,
         NEW w \in Runner, NEW run, Become(w, run), Task(run)',
         ghost' \in [raced : SUBSET Nat, reembedded : SUBSET Company],
         ghost'.reembedded = ghost.reembedded, ghost.raced \subseteq ghost'.raced
  PROVE  IndexInv'
  <1>1. /\ runner'[w] = run /\ DOMAIN runner' = Runner
        /\ \A v \in Runner \ {w} : runner'[v] = runner[v]
    BY DEF Become, IndexInv, IndexTables
  <1>2. \A t : (Current(t) => Current(t)') /\ (Listed(t) => Listed(t)')
    BY DEF Current, Listed, Id
  <1>3. \A id : Vectored(id) => Vectored(id)'
    BY DEF Vectored, CompanyOf
  <1>4. ASSUME NEW q, Task(q)
        PROVE  Task(q)'
    <2>1. Shaped(q)' /\ TextsOf(q)' = TextsOf(q)
      BY <1>4 DEF Task, Shaped, TextsOf
    <2> QED BY <1>2, <1>3, <1>4, <2>1 DEF Task, CompanyOf
  <1>5. TasksRun'
    BY <1>1, <1>4 DEF IndexInv, TasksRun
  <1>6. JobsListed' /\ IndexTables'
    BY <1>1, <1>2 DEF IndexInv, JobsListed, IndexTables, Id
  <1>7. TrueMarks'
    BY DEF IndexInv, TrueMarks, CompanyOf, Id
  <1> QED BY <1>5, <1>6, <1>7 DEF IndexInv

-----------------------------------------------------------------------------
(***************************************************************************)
(* The collection.                                                         *)
(***************************************************************************)
LEMMA UpsertIs ==
  ASSUME IndexTables, NEW c \in Company, NEW dim, NEW new, Upsert(c, dim, new)
  PROVE  /\ DOMAIN collection' = Company
         /\ \A d \in Company \ {c} : collection'[d] = collection[d]
         /\ {"dim", "points"} \subseteq DOMAIN collection'[c]
         /\ DOMAIN collection'[c].points = DOMAIN collection[c].points \union DOMAIN new
         /\ \A id \in DOMAIN collection'[c].points :
               collection'[c].points[id] = IF id \in DOMAIN new THEN new[id] ELSE collection[c].points[id]
  <1>1. PICK old : old = collection[c] /\ {"dim", "points"} \subseteq DOMAIN old
    BY DEF IndexTables
  <1>2. PICK coll : /\ coll = EnsureCollection(old, dim)
                    /\ {"dim", "points"} \subseteq DOMAIN coll /\ coll.points = old.points
    <2>1. PICK e : e = [old EXCEPT !.dim = dim]
      OBVIOUS
    <2>2. {"dim", "points"} \subseteq DOMAIN e /\ e.points = old.points
      BY <1>1, <2>1
    <2> QED BY <1>1, <2>1, <2>2 DEF EnsureCollection
  <1>3. PICK points : points = [id \in DOMAIN coll.points \union DOMAIN new |->
                                  IF id \in DOMAIN new THEN new[id] ELSE coll.points[id]]
    OBVIOUS
  <1>4. PICK now : now = [coll EXCEPT !.points = points]
    OBVIOUS
  <1>5. collection' = [collection EXCEPT ![c] = now]
    BY <1>1, <1>2, <1>3, <1>4 DEF Upsert, WithPoints
  <1>6. {"dim", "points"} \subseteq DOMAIN now /\ now.points = points
    BY <1>2, <1>4
  <1>7. DOMAIN collection' = Company /\ collection'[c] = now
        /\ \A d \in Company \ {c} : collection'[d] = collection[d]
    BY <1>5 DEF IndexTables
  <1> QED BY <1>1, <1>2, <1>3, <1>6, <1>7

LEMMA ChunkPointsAre ==
  ASSUME NEW texts
  PROVE  /\ DOMAIN ChunkPoints(texts) = IdsOf(texts)
         /\ \A id \in IdsOf(texts) :
               /\ ChunkPoints(texts)[id].kind = "chunk"
               /\ \E t \in texts : t.id = id /\ ChunkPoints(texts)[id].ver = t.ver
  <1>1. ASSUME NEW id \in IdsOf(texts)
        PROVE  /\ ChunkPoints(texts)[id].kind = "chunk"
               /\ \E t \in texts : t.id = id /\ ChunkPoints(texts)[id].ver = t.ver
    <2>1. PICK t : t = CHOOSE u \in texts : u.id = id
      OBVIOUS
    <2>2. t \in texts /\ t.id = id
      BY <2>1 DEF IdsOf
    <2>3. ChunkPoints(texts)[id] = [kind |-> "chunk", ver |-> t.ver]
      BY <2>1 DEF ChunkPoints
    <2> QED BY <2>2, <2>3
  <1> QED BY <1>1 DEF ChunkPoints

\* Texts that are current, of one company, get vectors, and no chunk loses its own.
LEMMA Upserted ==
  ASSUME IndexTables, TrueMarks, NEW c \in Company, NEW texts,
         \A t \in texts : Current(t) /\ CompanyOf(t.id) = c,
         Upsert(c, Dim, ChunkPoints(texts)), UNCHANGED <<chunks, embedded, jobs, ghost>>, DOMAIN runner' = Runner
  PROVE  /\ IndexTables' /\ TrueMarks'
         /\ \A t \in texts : Vectored(t.id)'
         /\ \A id \in Id : Vectored(id) => Vectored(id)'
  <1>1. PICK new : new = ChunkPoints(texts)
    OBVIOUS
  <1>2. /\ DOMAIN collection' = Company
        /\ \A d \in Company \ {c} : collection'[d] = collection[d]
        /\ {"dim", "points"} \subseteq DOMAIN collection'[c]
        /\ DOMAIN collection'[c].points = DOMAIN collection[c].points \union DOMAIN new
        /\ \A id \in DOMAIN collection'[c].points :
              collection'[c].points[id] = IF id \in DOMAIN new THEN new[id] ELSE collection[c].points[id]
    BY <1>1, UpsertIs
  <1>3. /\ DOMAIN new = IdsOf(texts)
        /\ \A id \in IdsOf(texts) :
              new[id].kind = "chunk" /\ \E t \in texts : t.id = id /\ new[id].ver = t.ver
    BY <1>1, ChunkPointsAre
  <1>4. \A id \in DOMAIN new : /\ new[id].kind = "chunk"
                               /\ id \notin ghost.raced => new[id].ver = chunks[id].ver
    BY <1>3 DEF Current
  <1>5. \A id : CompanyOf(id)' = CompanyOf(id)
    BY DEF CompanyOf
  <1>6. IndexTables'
    BY <1>2 DEF IndexTables, Id
  <1>7. \A t \in texts : Vectored(t.id)'
    <2> SUFFICES ASSUME NEW t \in texts
                 PROVE  Vectored(t.id)'
      OBVIOUS
    <2>1. t.id \in DOMAIN new /\ CompanyOf(t.id) = c
      BY <1>3 DEF IdsOf
    <2> QED BY <1>2, <1>4, <1>5, <2>1 DEF Vectored
  <1>8. ASSUME NEW id \in Id
        PROVE  /\ CompanyOf(id) \in Company
               /\ CompanyOf(id) # c => collection'[CompanyOf(id)] = collection[CompanyOf(id)]
    BY <1>2, <1>8, RowIs
  <1>9. ASSUME NEW id \in Id, Vectored(id)
        PROVE  Vectored(id)'
    BY <1>2, <1>4, <1>5, <1>8, <1>9 DEF Vectored
  <1>10. TrueMarks'
    <2> SUFFICES ASSUME NEW id \in Id, CompanyOf(id) \notin ghost.reembedded
                 PROVE  /\ embedded[id] # 0 =>
                              /\ id \in DOMAIN collection'[CompanyOf(id)].points
                              /\ collection'[CompanyOf(id)].points[id].kind = "chunk"
                        /\ id \notin ghost.raced /\ embedded[id] = chunks[id].ver =>
                              collection'[CompanyOf(id)].points[id].ver = chunks[id].ver
      BY <1>5 DEF TrueMarks, Id
    <2>1. /\ embedded[id] # 0 =>
                /\ id \in DOMAIN collection[CompanyOf(id)].points
                /\ collection[CompanyOf(id)].points[id].kind = "chunk"
          /\ id \notin ghost.raced /\ embedded[id] = chunks[id].ver =>
                collection[CompanyOf(id)].points[id].ver = chunks[id].ver
      BY DEF TrueMarks
    <2>2. embedded[id] = chunks[id].ver => embedded[id] # 0
      BY RowIs
    <2> QED BY <1>2, <1>4, <1>8, <2>1, <2>2
  <1> QED BY <1>6, <1>7, <1>9, <1>10

-----------------------------------------------------------------------------
(***************************************************************************)
(* The tasks that read the tables.                                         *)
(***************************************************************************)
LEMMA TaskIs ==
  ASSUME IndexInv, NEW w \in Runner
  PROVE  Task(runner[w]) /\ DOMAIN runner = Runner
  BY DEF IndexInv, TasksRun, IndexTables

\* What is read is current.
LEMMA ReadIsCurrent ==
  ASSUME IndexTables, NEW some \in SUBSET Id
  PROVE  /\ \A t \in Text(some) : Current(t) /\ t.id \in some
         /\ IdsOf(Text(some)) = some
  <1>1. ASSUME NEW t \in Text(some)
        PROVE  Current(t) /\ t.id \in some
    <2>1. PICK id \in some : t = [id |-> id, ver |-> chunks[id].ver]
      BY DEF Text
    <2>2. id \in Nat /\ chunks[id].ver \in Nat
      BY RowIs
    <2> QED BY <2>1, <2>2 DEF Current, Listed, ChunkText
  <1>2. IdsOf(Text(some)) = some
    <2>1. \A id \in some : \E t \in Text(some) : t.id = id
      <3> SUFFICES ASSUME NEW id \in some
                   PROVE  \E t \in Text(some) : t.id = id
        OBVIOUS
      <3>1. PICK t : t = [id |-> id, ver |-> chunks[id].ver]
        OBVIOUS
      <3> QED BY <3>1 DEF Text
    <2> QED BY <1>1, <2>1 DEF IdsOf
  <1> QED BY <1>1, <1>2

\* A task with no text in its hands needs its shape only.
LEMMA BareTask ==
  ASSUME NEW run, Shaped(run), run.pc \in {"idle", "next"} \union Ingesting \union Reembeds
  PROVE  Task(run)
  BY DEF Task, TextsOf, Submitters, Ingesting, Reembeds

LEMMA IdleTask == Task(Idle)
  BY BareTask DEF Shaped, Idle, Ingesting, Indexing, Collecting, Submitters, Reembeds

LEMMA IndexRunTask ==
  ASSUME NEW c \in Company, NEW limit, NEW run, run = IndexRun(c, limit)
  PROVE  Task(run)
  BY BareTask DEF Shaped, IndexRun, IndexFields, Ingesting, Indexing, Collecting, Submitters, Reembeds

LEMMA StartsKeep ==
  ASSUME IndexInv, NEW w \in Runner, NEW c \in Company, NEW dim,
         StartIngest(w, c) \/ StartRefresh(w, c) \/ StartReembed(w, c, dim)
  PROVE  IndexInv'
  <1>1. CASE StartIngest(w, c)
    <2>1. PICK run : /\ run = [pc |-> "article", company |-> c, todo |-> ReadReports(c)] /\ Become(w, run)
      BY <1>1 DEF StartIngest
    <2>2. Shaped(run) /\ run.pc = "article"
      BY <2>1 DEF Shaped, IngestFields, ReadReports, ReportsOf, Ingesting, Indexing, Collecting,
                  Submitters, Reembeds
    <2>3. Task(run)
      BY <2>2, BareTask DEF Ingesting
    <2> QED BY <1>1, <2>1, <2>3, OnlyTaskMoves DEF StartIngest, Tables
  <1>2. CASE StartRefresh(w, c)
    <2>1. PICK run : run = IndexRun(c, RefreshMax) /\ Become(w, run)
      BY <1>2 DEF StartRefresh
    <2>2. Task(run)
      BY <2>1, IndexRunTask
    <2> QED BY <1>2, <2>1, <2>2, OnlyTaskMoves DEF StartRefresh, Tables
  <1>3. CASE StartReembed(w, c, dim)
    <2>1. PICK run : run = [pc |-> "inspect", company |-> c, dim |-> dim, todo |-> {}] /\ Become(w, run)
      BY <1>3 DEF StartReembed
    <2>2. Shaped(run) /\ run.pc = "inspect"
      BY <2>1 DEF Shaped, ReembedFields, Ingesting, Indexing, Collecting, Submitters, Reembeds
    <2>3. Task(run)
      BY <2>2, BareTask DEF Reembeds
    <2> QED BY <1>3, <2>1, <2>3, OnlyTaskMoves DEF StartReembed, Tables
  <1> QED BY <1>1, <1>2, <1>3

LEMMA FindArticleKeeps ==
  ASSUME IndexInv, NEW w \in Runner, FindArticle(w)
  PROVE  IndexInv'
  <1>1. PICK p : p = runner[w] /\ p.pc = "article" /\ Shaped(p)
    BY TaskIs DEF FindArticle, Task
  <1>2. p.company \in Company /\ p.todo \subseteq Report /\ IngestFields \subseteq DOMAIN p
    BY <1>1 DEF Shaped, Ingesting
  <1>3. UNCHANGED <<chunks, embedded, collection, jobs, ghost>>
    BY DEF FindArticle, Tables
  <1>4. CASE Become(w, IndexRun(p.company, 0))
    BY <1>2, <1>3, <1>4, IndexRunTask, OnlyTaskMoves
  <1>5. ASSUME NEW r, Become(w, [p EXCEPT !.todo = p.todo \ {r}])
        PROVE  IndexInv'
    <2>1. PICK run : run = [p EXCEPT !.todo = p.todo \ {r}]
      OBVIOUS
    <2>2. Shaped(run) /\ run.pc = "article"
      BY <1>1, <1>2, <2>1 DEF Shaped, IngestFields, Ingesting, Indexing, Collecting, Submitters, Reembeds
    <2> QED BY <1>3, <1>5, <2>1, <2>2, BareTask, OnlyTaskMoves DEF Ingesting
  <1>6. CASE Become(w, [p EXCEPT !.pc = "insert"])
    <2>1. PICK run : run = [p EXCEPT !.pc = "insert"]
      OBVIOUS
    <2>2. Shaped(run) /\ run.pc = "insert"
      BY <1>1, <1>2, <2>1 DEF Shaped, IngestFields, Ingesting, Indexing, Collecting, Submitters, Reembeds
    <2> QED BY <1>3, <1>6, <2>1, <2>2, BareTask, OnlyTaskMoves DEF Ingesting
  <1>7. \/ Become(w, IndexRun(p.company, 0))
        \/ \E r : Become(w, [p EXCEPT !.todo = p.todo \ {r}])
        \/ Become(w, [p EXCEPT !.pc = "insert"])
    BY <1>1 DEF FindArticle
  <1> QED BY <1>4, <1>5, <1>6, <1>7

\* Chunks are only added, and none of the new ones is embedded.
LEMMA ChunkRowsAre ==
  ASSUME NEW r \in Report
  PROVE  ChunkRows(r) \in Seq(ChunkRow)
  <1>1. PICK n : n = (Pieces[r] + ParentGroup - 1) \div ParentGroup /\ n \in Nat
    <2>1. Pieces[r] + ParentGroup - 1 \in Nat /\ ParentGroup \in Nat \ {0}
      BY IndexAssumed
    <2>2. ASSUME NEW a \in Nat, NEW b \in Nat \ {0}
          PROVE  a \div b \in Nat
      OBVIOUS
    <2> QED BY <2>1, <2>2
  <1>2. PICK m \in Nat : m = Pieces[r] + n
    BY <1>1, IndexAssumed
  <1>3. ChunkRows(r) = [k \in 1..m |->
            [report |-> r, ver |-> 1,
             kind |-> IF (k - 1) % (ParentGroup + 1) = 0 THEN "parent" ELSE "child"]]
    BY <1>1, <1>2 DEF ChunkRows
  <1>4. \A k \in 1..m : [report |-> r, ver |-> 1,
             kind |-> IF (k - 1) % (ParentGroup + 1) = 0 THEN "parent" ELSE "child"] \in ChunkRow
    BY DEF ChunkRow
  <1>5. ChunkRows(r) \in [1..m -> ChunkRow]
    BY <1>3, <1>4
  <1> QED BY <1>2, <1>5

LEMMA InsertArticleKeeps ==
  ASSUME IndexInv, NEW w \in Runner, InsertArticle(w)
  PROVE  IndexInv'
  <1>1. PICK p : p = runner[w] /\ p.pc = "insert" /\ Shaped(p)
    BY TaskIs DEF InsertArticle, Task
  <1>2. p.company \in Company /\ p.todo \subseteq Report /\ IngestFields \subseteq DOMAIN p
    BY <1>1 DEF Shaped, Ingesting
  <1>3. PICK r \in Report :
          /\ chunks' = chunks \o ChunkRows(r)
          /\ embedded' = embedded \o [k \in DOMAIN ChunkRows(r) |-> 0]
          /\ Become(w, [p EXCEPT !.pc = "article", !.todo = p.todo \ {r}])
    BY <1>1, <1>2 DEF InsertArticle, Foremost
  <1>4. UNCHANGED <<collection, jobs, ghost>>
    BY DEF InsertArticle
  <1>5. PICK rows, zeros : /\ rows = ChunkRows(r) /\ rows \in Seq(ChunkRow)
                           /\ zeros = [k \in DOMAIN rows |-> 0]
    BY ChunkRowsAre
  <1>6. zeros \in Seq(Nat) /\ Len(zeros) = Len(rows) /\ \A k \in 1..Len(zeros) : zeros[k] = 0
    BY <1>5
  <1>7. chunks \in Seq(ChunkRow) /\ embedded \in Seq(Nat) /\ Len(embedded) = Len(chunks)
    BY DEF IndexInv, IndexTables
  <1>8. chunks' \in Seq(ChunkRow) /\ Len(chunks') = Len(chunks) + Len(rows)
        /\ \A id \in 1..Len(chunks) : chunks'[id] = chunks[id]
    BY <1>3, <1>5, <1>7
  <1>9. PICK n \in Nat, m \in Nat : n = Len(chunks) /\ m = Len(rows)
    BY <1>5, <1>7
  <1>10. /\ Id \subseteq Id'
         /\ \A id \in Id : chunks'[id] = chunks[id] /\ embedded'[id] = embedded[id]
         /\ \A id \in Id' \ Id : embedded'[id] = 0
         /\ embedded' \in Seq(Nat) /\ Len(embedded') = Len(chunks')
    <2>1. embedded' = embedded \o zeros
      BY <1>3, <1>5
    <2>2. Len(embedded) = n /\ Len(zeros) = m /\ Len(chunks') = n + m
      BY <1>6, <1>7, <1>8, <1>9
    <2>3. embedded' \in Seq(Nat) /\ Len(embedded') = n + m
          /\ \A id \in 1..(n + m) : embedded'[id] = IF id <= n THEN embedded[id] ELSE zeros[id - n]
      BY <1>6, <1>7, <2>1, <2>2, ConcatProperties
    <2>4. ASSUME NEW id \in 1..(n + m)
          PROVE  /\ id \in 1..n => chunks'[id] = chunks[id] /\ embedded'[id] = embedded[id]
                 /\ id \notin 1..n => embedded'[id] = 0
      <3>1. CASE id \in 1..n
        BY <1>8, <1>9, <2>3, <3>1
      <3>2. CASE id \notin 1..n
        <4>1. id - n \in 1..m /\ ~(id <= n)
          BY <3>2
        <4> QED BY <1>6, <2>2, <2>3, <3>2, <4>1
      <3> QED BY <3>1, <3>2
    <2>5. DOMAIN chunks = 1..n /\ DOMAIN chunks' = 1..(n + m)
      BY <1>7, <1>8, <1>9, <2>2
    <2>6. 1..n \subseteq 1..(n + m)
      OBVIOUS
    <2> QED BY <2>2, <2>3, <2>4, <2>5, <2>6 DEF Id
  <1>11. \A id \in Id' : chunks'[id] \in ChunkRow /\ chunks'[id].ver \in Nat \ {0}
    <2>1. \A id \in Id' : chunks'[id] \in ChunkRow
      BY <1>8 DEF Id
    <2> QED BY <2>1 DEF ChunkRow
  <1>12. PICK run : run = [p EXCEPT !.pc = "article", !.todo = p.todo \ {r}]
    OBVIOUS
  <1>13. Shaped(run) /\ run.pc = "article"
    BY <1>1, <1>2, <1>12 DEF Shaped, IngestFields, Ingesting, Indexing, Collecting, Submitters, Reembeds
  <1>14. Task(run)
    BY <1>13, BareTask DEF Ingesting
  <1>15. /\ DOMAIN runner = Runner /\ DOMAIN runner' = Runner
         /\ runner'[w] = run /\ \A v \in Runner \ {w} : runner'[v] = runner[v]
    BY <1>3, <1>12 DEF Become, IndexInv, IndexTables
  <1>16. \A t : (Current(t) => Current(t)') /\ (Listed(t) => Listed(t)')
    BY <1>4, <1>10 DEF Current, Listed
  <1>17. \A id \in Id : CompanyOf(id)' = CompanyOf(id) /\ (Vectored(id) => Vectored(id)')
    BY <1>4, <1>10 DEF CompanyOf, Vectored
  <1>18. ASSUME NEW q, Task(q)
         PROVE  Task(q)'
    <2>1. Shaped(q)' /\ TextsOf(q)' = TextsOf(q)
      BY <1>4, <1>18 DEF Task, Shaped, TextsOf
    <2>2. q.pc \in {"upsert", "mark", "ingested"} => \A t \in q.texts : t.id \in Id
      BY <1>18 DEF Task, TextsOf, Current, Listed
    <2> QED BY <1>16, <1>17, <1>18, <2>1, <2>2 DEF Task
  <1>19. TasksRun'
    BY <1>14, <1>15, <1>18 DEF IndexInv, TasksRun
  <1>20. JobsListed'
    BY <1>4, <1>16 DEF IndexInv, JobsListed
  <1>21. IndexTables'
    <2>1. \A id \in Id' : embedded'[id] <= chunks'[id].ver
      <3> SUFFICES ASSUME NEW id \in Id'
                   PROVE  embedded'[id] <= chunks'[id].ver
        OBVIOUS
      <3>1. CASE id \in Id
        BY <1>10, <3>1 DEF IndexInv, IndexTables
      <3>2. CASE id \notin Id
        BY <1>10, <1>11, <3>2
      <3> QED BY <3>1, <3>2
    <2> QED BY <1>4, <1>8, <1>10, <1>15, <2>1 DEF IndexInv, IndexTables
  <1>22. TrueMarks'
    <2> SUFFICES ASSUME NEW id \in Id'
                 PROVE  (CompanyOf(id) \notin ghost.reembedded =>
                           /\ embedded[id] # 0 =>
                                 /\ id \in DOMAIN collection[CompanyOf(id)].points
                                 /\ collection[CompanyOf(id)].points[id].kind = "chunk"
                           /\ id \notin ghost.raced /\ embedded[id] = chunks[id].ver =>
                                 collection[CompanyOf(id)].points[id].ver = chunks[id].ver)'
      BY DEF TrueMarks
    <2>1. CASE id \in Id
      BY <1>4, <1>10, <1>17, <2>1 DEF IndexInv, TrueMarks
    <2>2. CASE id \notin Id
      BY <1>10, <1>11, <2>2
    <2> QED BY <2>1, <2>2
  <1> QED BY <1>19, <1>20, <1>21, <1>22 DEF IndexInv

-----------------------------------------------------------------------------
(***************************************************************************)
(* The Indexer.                                                            *)
(***************************************************************************)
LEMMA UnembeddedAre ==
  ASSUME NEW c, NEW after, NEW n
  PROVE  /\ \A id \in Unembedded(c) : id \in Id /\ CompanyOf(id) = c
         /\ NextChunks(c, after, n) \subseteq Unembedded(c)
  BY DEF Unembedded, NextChunks, First

LEMMA NextBatchKeeps ==
  ASSUME IndexInv, NEW w \in Runner, NextBatch(w)
  PROVE  IndexInv'
  <1>1. PICK p : p = runner[w] /\ p.pc = "next" /\ Shaped(p)
    BY TaskIs DEF NextBatch, Task
  <1>2. p.company \in Company /\ IndexFields \subseteq DOMAIN p
    BY <1>1 DEF Shaped, Indexing
  <1>3. UNCHANGED <<chunks, embedded, collection, jobs, ghost>>
    BY DEF NextBatch, Tables
  <1>4. PICK batch : /\ batch = NextChunks(p.company, p.after, ReadLimit(p))
                     /\ Become(w, IF batch = {} THEN Idle
                                  ELSE [p EXCEPT !.pc = "upsert", !.texts = Text(batch)])
    BY <1>1 DEF NextBatch
  <1>5. CASE batch = {}
    BY <1>3, <1>4, <1>5, IdleTask, OnlyTaskMoves
  <1>6. CASE batch # {}
    <2>1. PICK run : run = [p EXCEPT !.pc = "upsert", !.texts = Text(batch)]
      OBVIOUS
    <2>2. run.pc = "upsert" /\ run.texts = Text(batch) /\ run.company = p.company
          /\ IndexFields \subseteq DOMAIN run
      BY <1>2, <2>1 DEF IndexFields
    <2>3. batch \subseteq Id /\ \A id \in batch : CompanyOf(id) = p.company
      BY <1>4, UnembeddedAre
    <2>4. \A t \in run.texts : Current(t) /\ CompanyOf(t.id) = run.company
      BY <2>2, <2>3, ReadIsCurrent DEF IndexInv
    <2>5. Shaped(run)
      BY <1>2, <2>2 DEF Shaped, Ingesting, Indexing, Collecting, Submitters, Reembeds
    <2>6. Task(run)
      BY <2>2, <2>4, <2>5 DEF Task, TextsOf, Collecting, Submitters
    <2> QED BY <1>3, <1>4, <1>6, <2>1, <2>6, OnlyTaskMoves
  <1> QED BY <1>5, <1>6

LEMMA IndexUpsertKeeps ==
  ASSUME IndexInv, NEW w \in Runner, IndexUpsert(w)
  PROVE  IndexInv'
  <1>1. PICK p : p = runner[w] /\ p.pc = "upsert" /\ Task(p)
    BY TaskIs DEF IndexUpsert
  <1>2. p.company \in Company /\ IndexFields \subseteq DOMAIN p
    BY <1>1 DEF Task, Shaped, Indexing
  <1>3. UNCHANGED <<chunks, embedded, jobs, ghost>>
    BY DEF IndexUpsert, Tables
  <1>4. PICK run : run = [p EXCEPT !.pc = "mark"] /\ Become(w, run)
    BY <1>1 DEF IndexUpsert
  <1>5. \A t \in p.texts : Current(t) /\ CompanyOf(t.id) = p.company
    BY <1>1 DEF Task, TextsOf
  <1>6. /\ DOMAIN runner' = Runner /\ runner'[w] = run
        /\ \A v \in Runner \ {w} : runner'[v] = runner[v]
    BY <1>4 DEF Become, IndexInv, IndexTables
  <1>7. /\ IndexTables' /\ TrueMarks'
        /\ \A t \in p.texts : Vectored(t.id)'
        /\ \A id \in Id : Vectored(id) => Vectored(id)'
    BY <1>1, <1>2, <1>3, <1>5, <1>6, Upserted DEF IndexUpsert, IndexInv
  <1>8. /\ run.pc = "mark" /\ run.texts = p.texts /\ run.company = p.company
        /\ IndexFields \subseteq DOMAIN run
    BY <1>2, <1>4 DEF IndexFields
  <1>9. Task(run)'
    <2>1. Shaped(run)'
      BY <1>2, <1>8 DEF Shaped, Ingesting, Indexing, Collecting, Submitters, Reembeds
    <2>2. TextsOf(run)' = p.texts
      BY <1>8 DEF TextsOf, Collecting
    <2>3. \A t \in p.texts : Current(t)' /\ (CompanyOf(t.id) = run.company)'
      BY <1>3, <1>5, <1>8 DEF Current, Listed, CompanyOf, Id
    <2> QED BY <1>7, <1>8, <2>1, <2>2, <2>3 DEF Task, Submitters
  <1> QED BY <1>3, <1>6, <1>7, <1>9, TaskMoves

\* A mark is set only where there is a vector.
LEMMA Marked ==
  ASSUME IndexTables, TrueMarks, NEW some \in SUBSET Id, \A id \in some : Vectored(id), Mark(some),
         UNCHANGED <<chunks, collection, jobs, ghost>>, DOMAIN runner' = Runner
  PROVE  /\ IndexTables' /\ TrueMarks'
         /\ \A id \in Id : Vectored(id) => Vectored(id)'
  <1>1. PICK n \in Nat : n = Len(chunks) /\ Id = 1..n /\ DOMAIN embedded = 1..n
    BY DEF IndexTables, Id
  <1>2. embedded' = [id \in 1..n |-> IF id \in some THEN chunks[id].ver ELSE embedded[id]]
    BY <1>1 DEF Mark
  <1>3. \A id \in 1..n : chunks[id].ver \in Nat \ {0} /\ embedded[id] \in Nat
    BY <1>1, RowIs
  <1>4. embedded' \in [1..n -> Nat]
    BY <1>2, <1>3
  <1>5. embedded' \in Seq(Nat) /\ Len(embedded') = n
    BY <1>4
  <1>6. \A id \in 1..n : embedded'[id] <= chunks[id].ver
    BY <1>1, <1>2, <1>3 DEF IndexTables
  <1>7. IndexTables'
    BY <1>1, <1>5, <1>6 DEF IndexTables, Id
  <1>8. \A id \in Id : CompanyOf(id)' = CompanyOf(id) /\ (Vectored(id) => Vectored(id)')
    BY DEF CompanyOf, Vectored
  <1>9. TrueMarks'
    <2> SUFFICES ASSUME NEW id \in Id, CompanyOf(id) \notin ghost.reembedded
                 PROVE  /\ embedded'[id] # 0 =>
                              /\ id \in DOMAIN collection[CompanyOf(id)].points
                              /\ collection[CompanyOf(id)].points[id].kind = "chunk"
                        /\ id \notin ghost.raced /\ embedded'[id] = chunks[id].ver =>
                              collection[CompanyOf(id)].points[id].ver = chunks[id].ver
      BY <1>8 DEF TrueMarks, Id
    <2>1. CASE id \in some
      BY <2>1 DEF Vectored
    <2>2. CASE id \notin some
      BY <1>1, <1>2, <2>2 DEF TrueMarks
    <2> QED BY <2>1, <2>2
  <1> QED BY <1>7, <1>8, <1>9

LEMMA IndexMarkKeeps ==
  ASSUME IndexInv, NEW w \in Runner, IndexMark(w)
  PROVE  IndexInv'
  <1>1. PICK p : p = runner[w] /\ p.pc = "mark" /\ Task(p)
    BY TaskIs DEF IndexMark
  <1>2. p.company \in Company /\ \A t \in p.texts : Current(t) /\ Vectored(t.id)
    BY <1>1 DEF Task, Shaped, Indexing, TextsOf
  <1>3. PICK some : some = IdsOf(p.texts) /\ Mark(some)
    BY <1>1 DEF IndexMark
  <1>4. some \in SUBSET Id /\ \A id \in some : Vectored(id)
    BY <1>2, <1>3 DEF IdsOf, Current, Listed
  <1>5. PICK start, after, done : start = IndexRun(p.company, p.limit) /\ after = Max(some)
                                  /\ done = p.done + Cardinality(some)
    OBVIOUS
  <1>6. PICK run : run = [start EXCEPT !.after = after, !.done = done]
    OBVIOUS
  <1>7. Become(w, run)
    BY <1>1, <1>3, <1>5, <1>6 DEF IndexMark
  <1>8. UNCHANGED <<chunks, collection, jobs, ghost>>
    BY DEF IndexMark
  <1>9. /\ DOMAIN runner' = Runner /\ runner'[w] = run
        /\ \A v \in Runner \ {w} : runner'[v] = runner[v]
    BY <1>7 DEF Become, IndexInv, IndexTables
  <1>10. /\ IndexTables' /\ TrueMarks'
         /\ \A id \in Id : Vectored(id) => Vectored(id)'
    BY <1>3, <1>4, <1>8, <1>9, Marked DEF IndexInv
  <1>11. run.pc = "next" /\ run.company = p.company /\ IndexFields \subseteq DOMAIN run
    BY <1>5, <1>6 DEF IndexRun, IndexFields
  <1>12. Task(run)'
    BY <1>2, <1>11 DEF Task, TextsOf, Shaped, Ingesting, Indexing, Collecting, Submitters, Reembeds
  <1> QED BY <1>8, <1>9, <1>10, <1>12, TaskMoves

\* An upsert of which a part arrived.
LEMMA UpsertTornKeeps ==
  ASSUME IndexInv, NEW w \in Runner, UpsertTorn(w)
  PROVE  IndexInv'
  <1>1. PICK p : p = runner[w] /\ p.pc = "upsert" /\ Task(p)
    BY TaskIs DEF UpsertTorn
  <1>2. PICK part \in SUBSET p.texts : Upsert(p.company, Dim, ChunkPoints(part))
    BY <1>1 DEF UpsertTorn
  <1>3. p.company \in Company /\ \A t \in part : Current(t) /\ CompanyOf(t.id) = p.company
    BY <1>1, <1>2 DEF Task, Shaped, Indexing, TextsOf
  <1>4. Become(w, Idle) /\ UNCHANGED <<chunks, embedded, jobs, ghost>>
    BY DEF UpsertTorn, Tables
  <1>5. /\ DOMAIN runner' = Runner /\ runner'[w] = Idle
        /\ \A v \in Runner \ {w} : runner'[v] = runner[v]
    BY <1>4 DEF Become, IndexInv, IndexTables
  <1>6. /\ IndexTables' /\ TrueMarks'
        /\ \A id \in Id : Vectored(id) => Vectored(id)'
    BY <1>2, <1>3, <1>4, <1>5, Upserted DEF IndexInv
  <1>7. Task(Idle)'
    BY DEF Task, TextsOf, Shaped, Idle, Ingesting, Indexing, Collecting, Submitters, Reembeds
  <1> QED BY <1>4, <1>5, <1>6, <1>7, TaskMoves

LEMMA EndsKeep ==
  ASSUME IndexInv, NEW w \in Runner, Abort(w) \/ UpsertRefused(w)
  PROVE  IndexInv'
  <1>1. Become(w, Idle) /\ UNCHANGED <<chunks, embedded, collection, jobs, ghost>>
    BY DEF Abort, UpsertRefused, Tables
  <1> QED BY <1>1, IdleTask, OnlyTaskMoves

-----------------------------------------------------------------------------
(***************************************************************************)
(* The batch jobs.                                                         *)
(***************************************************************************)
\* A collector between two jobs.
Polls(run) ==
    run.pc = "poll" /\ BatchFields \subseteq DOMAIN run /\ run.todo \subseteq DOMAIN jobs /\ run.left = {}

LEMMA PollsTask ==
  ASSUME NEW run, Polls(run)
  PROVE  /\ Task(run)
         /\ DOMAIN jobs' = DOMAIN jobs => Task(run)'
  BY DEF Polls, Task, TextsOf, Shaped, Ingesting, Indexing, Collecting, Submitters, Reembeds

LEMMA StartBatchKeeps ==
  ASSUME IndexInv, NEW w \in Runner, NEW cs, NEW collects, StartBatch(w, cs, collects)
  PROVE  IndexInv'
  <1>1. PICK loaded, run :
          /\ loaded \in LoadBatchJobs(cs, collects)
          /\ run = [pc |-> "poll", busy |-> FALSE, scope |-> cs, wave |-> collects,
                    todo |-> loaded, job |-> 0, left |-> {}, texts |-> {}]
          /\ Become(w, run)
    BY DEF StartBatch
  <1>2. run.todo \subseteq DOMAIN jobs
    <2>1. LoadBatchJobs(cs, collects) \subseteq SUBSET DOMAIN jobs
      <3>1. CASE ~collects
        BY <3>1 DEF LoadBatchJobs
      <3>2. CASE collects /\ cs # {}
        BY <3>2 DEF LoadBatchJobs, ListActive
      <3>3. CASE collects /\ cs = {}
        BY <3>3 DEF LoadBatchJobs, ListActive
      <3>4. collects \/ ~collects
        OBVIOUS
      <3> QED BY <3>1, <3>2, <3>3, <3>4
    <2> QED BY <1>1, <2>1
  <1>3. Polls(run)
    BY <1>1, <1>2 DEF Polls, BatchFields
  <1> QED BY <1>1, <1>3, PollsTask, OnlyTaskMoves DEF StartBatch, Tables

\* What a collector holds.
LEMMA CollectorIs ==
  ASSUME NEW p, Task(p), p.pc \in Collecting
  PROVE  /\ BatchFields \subseteq DOMAIN p /\ p.todo \subseteq DOMAIN jobs
         /\ p.pc \in {"ingest", "ingested"} => p.job \in DOMAIN jobs /\ \A t \in p.left : Current(t)
  BY DEF Task, Shaped, TextsOf

LEMMA JobIsOne ==
  ASSUME IndexTables, NEW k \in DOMAIN jobs
  PROVE  /\ jobs[k] \in Job /\ jobs[k].texts \subseteq ChunkText
         /\ {"texts", "provider", "row"} \subseteq DOMAIN jobs[k]
  <1>1. jobs[k] \in Job
    BY DEF IndexTables
  <1> QED BY <1>1 DEF Job

\* A job gets another row or other texts.
LEMMA JobChanges ==
  ASSUME IndexTables, NEW k \in DOMAIN jobs, NEW job \in Job, jobs' = [jobs EXCEPT ![k] = job]
  PROVE  /\ jobs' \in Seq(Job) /\ DOMAIN jobs' = DOMAIN jobs /\ jobs'[k] = job
         /\ \A i \in DOMAIN jobs \ {k} : jobs'[i] = jobs[i]
  <1>1. jobs \in Seq(Job)
    BY DEF IndexTables
  <1> QED BY <1>1

\* The row of a job changes, and the collector goes on.
LEMMA RowMoves ==
  ASSUME IndexInv, NEW w \in Runner, NEW run, Become(w, run), DOMAIN jobs' = DOMAIN jobs => Task(run)',
         NEW k \in DOMAIN jobs, NEW row \in {"active", "ingested", "failed"},
         jobs' = [jobs EXCEPT ![k].row = row], UNCHANGED <<chunks, embedded, collection, ghost>>
  PROVE  IndexInv'
  <1>1. PICK job : job = jobs[k] /\ job \in Job /\ {"texts", "provider", "row"} \subseteq DOMAIN job
    BY JobIsOne DEF IndexInv
  <1>2. PICK over : over = [job EXCEPT !.row = row]
    OBVIOUS
  <1>3. over \in Job /\ over.texts = job.texts
    BY <1>1, <1>2 DEF Job
  <1>4. jobs' = [jobs EXCEPT ![k] = over]
    BY <1>1, <1>2
  <1>5. /\ jobs' \in Seq(Job) /\ DOMAIN jobs' = DOMAIN jobs
        /\ \A i \in DOMAIN jobs' : i \in DOMAIN jobs /\ jobs'[i].texts \subseteq jobs[i].texts
    BY <1>1, <1>3, <1>4, JobChanges DEF IndexInv
  <1>6. Task(run)'
    BY <1>5
  <1>7. /\ DOMAIN runner' = Runner /\ runner'[w] = run
        /\ \A v \in Runner \ {w} : runner'[v] = runner[v]
    BY DEF Become, IndexInv, IndexTables
  <1> QED BY <1>5, <1>6, <1>7, JobsMove

LEMMA PollJobKeeps ==
  ASSUME IndexInv, NEW w \in Runner, NEW k \in DOMAIN jobs, PollJob(w, k)
  PROVE  IndexInv'
  <1>1. PICK p : p = runner[w] /\ p.pc = "poll" /\ Task(p) /\ k \in p.todo
    BY TaskIs DEF PollJob
  <1>2. BatchFields \subseteq DOMAIN p /\ p.todo \subseteq DOMAIN jobs
    BY <1>1, CollectorIs DEF Collecting
  <1>3. PICK job : job = jobs[k] /\ job \in Job /\ {"texts", "provider", "row"} \subseteq DOMAIN job
    BY JobIsOne DEF IndexInv
  <1>4. job.provider \in {"pending", "failed", "succeeded"}
    BY <1>3 DEF Job
  <1>5. UNCHANGED <<chunks, embedded, collection>>
    BY DEF PollJob, Tables
  <1>6. CASE job.provider = "pending"
    <2>1. PICK run : run = [p EXCEPT !.todo = p.todo \ {k}, !.busy = TRUE] /\ Become(w, run)
      BY <1>1, <1>3, <1>6 DEF PollJob
    <2>2. BatchFields \subseteq DOMAIN run /\ run.pc = "poll" /\ run.todo \subseteq DOMAIN jobs
      BY <1>1, <1>2, <2>1 DEF BatchFields
    <2>3. Task(run)
      BY <2>2 DEF Task, TextsOf, Shaped, Ingesting, Indexing, Collecting, Submitters, Reembeds
    <2>4. jobs' = jobs /\ ghost' = ghost
      BY <1>3, <1>6 DEF PollJob
    <2> QED BY <1>5, <2>1, <2>3, <2>4, OnlyTaskMoves
  <1>7. CASE job.provider = "succeeded"
    <2>1. PICK run : run = [p EXCEPT !.pc = "ingest", !.job = k, !.left = job.texts] /\ Become(w, run)
      BY <1>1, <1>3, <1>7 DEF PollJob, Collect
    <2>2. /\ BatchFields \subseteq DOMAIN run /\ run.pc = "ingest" /\ run.todo = p.todo
          /\ run.left = jobs[k].texts /\ run.job = k
      BY <1>1, <1>2, <1>3, <2>1 DEF BatchFields
    <2>3. jobs' = jobs
      BY <1>3, <1>7 DEF PollJob
    <2>4. ghost \in [raced : SUBSET Nat, reembedded : SUBSET Company]
      BY DEF IndexInv, IndexTables
    <2>5. PICK after : after = [ghost EXCEPT !.raced = ghost.raced \union Outdated(k)] /\ ghost' = after
      BY <1>3, <1>7 DEF PollJob
    <2>6. \A t \in jobs[k].texts : Listed(t)
      BY DEF IndexInv, JobsListed
    <2>7. Outdated(k) \subseteq Nat
      <3>1. Id \subseteq Nat
        BY RowIs DEF IndexInv
      <3> QED BY <2>6, <3>1 DEF Outdated, IdsOf, Listed
    <2>8. /\ ghost' \in [raced : SUBSET Nat, reembedded : SUBSET Company]
          /\ ghost'.reembedded = ghost.reembedded /\ ghost'.raced = ghost.raced \union Outdated(k)
      BY <2>4, <2>5, <2>7
    <2>9. \A t \in run.left : Current(t)'
      <3>1. \A t \in jobs[k].texts : t.id \notin Outdated(k) => t.ver = chunks[t.id].ver
        BY DEF Outdated, IdsOf
      <3> QED BY <1>5, <2>2, <2>6, <2>8, <3>1 DEF Current, Listed, Id
    <2>10. Task(run)'
      <3>1. Shaped(run)'
        BY <1>2, <2>2, <2>3 DEF Shaped, Ingesting, Indexing, Collecting, Submitters, Reembeds
      <3>2. TextsOf(run)' = run.left
        BY <2>2 DEF TextsOf
      <3> QED BY <2>2, <2>9, <3>1, <3>2 DEF Task, Submitters
    <2> QED BY <1>5, <2>1, <2>3, <2>8, <2>10, RacedGrows
  <1>8. CASE job.provider = "failed"
    <2>1. PICK run : run = [p EXCEPT !.todo = p.todo \ {k}] /\ Become(w, run)
      BY <1>1, <1>3, <1>8 DEF PollJob
    <2>2. BatchFields \subseteq DOMAIN run /\ run.pc = "poll" /\ run.todo \subseteq DOMAIN jobs
      BY <1>1, <1>2, <2>1 DEF BatchFields
    <2>3. jobs' = [jobs EXCEPT ![k].row = "failed"] /\ ghost' = ghost
      BY <1>3, <1>8 DEF PollJob
    <2>4. DOMAIN jobs' = DOMAIN jobs => Task(run)'
      BY <2>2 DEF Task, TextsOf, Shaped, Ingesting, Indexing, Collecting, Submitters, Reembeds
    <2> QED BY <1>5, <2>1, <2>3, <2>4, RowMoves
  <1> QED BY <1>4, <1>6, <1>7, <1>8

LEMMA IngestUpsertKeeps ==
  ASSUME IndexInv, NEW w \in Runner, NEW c \in Company, IngestUpsert(w, c)
  PROVE  IndexInv'
  <1>1. PICK p : p = runner[w] /\ p.pc = "ingest" /\ Task(p)
    BY TaskIs DEF IngestUpsert
  <1>2. /\ BatchFields \subseteq DOMAIN p /\ p.todo \subseteq DOMAIN jobs /\ p.job \in DOMAIN jobs
        /\ \A t \in p.left : Current(t)
    BY <1>1, CollectorIs DEF Collecting
  <1>3. PICK mine : mine = {t \in p.left : CompanyOf(t.id) = c}
    OBVIOUS
  <1>4. PICK run : run = [p EXCEPT !.pc = "ingested", !.texts = mine, !.left = p.left \ mine]
    OBVIOUS
  <1>5. Upsert(c, Dim, ChunkPoints(mine)) /\ Become(w, run)
    BY <1>1, <1>3, <1>4 DEF IngestUpsert
  <1>6. UNCHANGED <<chunks, embedded, jobs, ghost>>
    BY DEF IngestUpsert, Tables
  <1>7. \A t \in mine : Current(t) /\ CompanyOf(t.id) = c
    BY <1>2, <1>3
  <1>8. /\ DOMAIN runner' = Runner /\ runner'[w] = run
        /\ \A v \in Runner \ {w} : runner'[v] = runner[v]
    BY <1>5 DEF Become, IndexInv, IndexTables
  <1>9. /\ IndexTables' /\ TrueMarks'
        /\ \A t \in mine : Vectored(t.id)'
        /\ \A id \in Id : Vectored(id) => Vectored(id)'
    BY <1>5, <1>6, <1>7, <1>8, Upserted DEF IndexInv
  <1>10. /\ BatchFields \subseteq DOMAIN run /\ run.pc = "ingested" /\ run.texts = mine
         /\ run.left = p.left \ mine /\ run.todo = p.todo /\ run.job = p.job
    BY <1>2, <1>4 DEF BatchFields
  <1>11. Task(run)'
    <2>1. Shaped(run)'
      BY <1>2, <1>6, <1>10 DEF Shaped, Ingesting, Indexing, Collecting, Submitters, Reembeds
    <2>2. \A t \in TextsOf(run)' : Current(t)
      BY <1>2, <1>6, <1>7, <1>10 DEF TextsOf, Collecting
    <2>3. \A t : Current(t) => Current(t)'
      BY <1>6 DEF Current, Listed, Id
    <2> QED BY <1>9, <1>10, <2>1, <2>2, <2>3 DEF Task, Submitters
  <1> QED BY <1>6, <1>8, <1>9, <1>11, TaskMoves

LEMMA IngestMarkKeeps ==
  ASSUME IndexInv, NEW w \in Runner, IngestMark(w)
  PROVE  IndexInv'
  <1>1. PICK p : p = runner[w] /\ p.pc = "ingested" /\ Task(p)
    BY TaskIs DEF IngestMark
  <1>2. /\ BatchFields \subseteq DOMAIN p /\ p.todo \subseteq DOMAIN jobs /\ p.job \in DOMAIN jobs
        /\ \A t \in p.left : Current(t)
    BY <1>1, CollectorIs DEF Collecting
  <1>3. PICK some : some = IdsOf(p.texts) /\ Mark(some)
    BY <1>1 DEF IngestMark
  <1>4. some \in SUBSET Id /\ \A id \in some : Vectored(id)
    BY <1>1, <1>3 DEF Task, TextsOf, IdsOf, Current, Listed
  <1>5. PICK run : run = [p EXCEPT !.pc = "ingest", !.texts = {}] /\ Become(w, run)
    BY <1>1 DEF IngestMark
  <1>6. UNCHANGED <<chunks, collection, jobs, ghost>>
    BY DEF IngestMark
  <1>7. /\ DOMAIN runner' = Runner /\ runner'[w] = run
        /\ \A v \in Runner \ {w} : runner'[v] = runner[v]
    BY <1>5 DEF Become, IndexInv, IndexTables
  <1>8. /\ IndexTables' /\ TrueMarks'
        /\ \A id \in Id : Vectored(id) => Vectored(id)'
    BY <1>3, <1>4, <1>6, <1>7, Marked DEF IndexInv
  <1>9. /\ BatchFields \subseteq DOMAIN run /\ run.pc = "ingest"
        /\ run.left = p.left /\ run.todo = p.todo /\ run.job = p.job
    BY <1>2, <1>5 DEF BatchFields
  <1>10. Task(run)'
    <2>1. Shaped(run)'
      BY <1>2, <1>6, <1>9 DEF Shaped, Ingesting, Indexing, Collecting, Submitters, Reembeds
    <2>2. \A t \in TextsOf(run)' : Current(t)
      BY <1>2, <1>6, <1>9 DEF TextsOf, Collecting
    <2>3. \A t : Current(t) => Current(t)'
      BY <1>6 DEF Current, Listed, Id
    <2> QED BY <1>9, <2>1, <2>2, <2>3 DEF Task, Submitters
  <1> QED BY <1>6, <1>7, <1>8, <1>10, TaskMoves

\* The collector goes on to the next job.
LEMMA NextJobTask ==
  ASSUME IndexInv, NEW w \in Runner, runner[w].pc \in Collecting, NEW run, run = NextJob(w)
  PROVE  Polls(run)
  <1>1. PICK p : p = runner[w] /\ Task(p) /\ p.pc \in Collecting
    BY TaskIs
  <1>2. BatchFields \subseteq DOMAIN p /\ p.todo \subseteq DOMAIN jobs
    BY <1>1, CollectorIs
  <1>3. run = [p EXCEPT !.pc = "poll", !.todo = p.todo \ {p.job}, !.job = 0, !.left = {}, !.texts = {}]
    BY <1>1 DEF NextJob
  <1> QED BY <1>2, <1>3 DEF Polls, BatchFields

LEMMA MarkIngestedKeeps ==
  ASSUME IndexInv, NEW w \in Runner, MarkIngested(w)
  PROVE  IndexInv'
  <1>1. PICK p : p = runner[w] /\ p.pc = "ingest" /\ Task(p)
    BY TaskIs DEF MarkIngested
  <1>2. PICK k \in DOMAIN jobs : k = p.job
    BY <1>1 DEF Task, Shaped
  <1>3. PICK run : run = NextJob(w) /\ Become(w, run)
    BY DEF MarkIngested
  <1>4. Polls(run)
    BY <1>1, <1>3, NextJobTask DEF Collecting
  <1>5. jobs' = [jobs EXCEPT ![k].row = "ingested"] /\ UNCHANGED <<chunks, embedded, collection, ghost>>
    BY <1>1, <1>2 DEF MarkIngested, Tables
  <1> QED BY <1>3, <1>4, <1>5, PollsTask, RowMoves

LEMMA JobFailsKeeps ==
  ASSUME IndexInv, NEW w \in Runner, JobFails(w)
  PROVE  IndexInv'
  <1>1. UNCHANGED <<chunks, embedded, collection, ghost>>
    BY DEF JobFails, Tables
  <1>2. PICK p : p = runner[w] /\ Task(p) /\ p.pc \in Collecting
    BY TaskIs DEF JobFails, Collecting
  <1>3. BatchFields \subseteq DOMAIN p /\ p.todo \subseteq DOMAIN jobs
    BY <1>2, CollectorIs
  <1>4. PICK k, run : k \in DOMAIN jobs /\ UpdateState(k) /\ Become(w, run) /\ Task(run)
                      /\ (DOMAIN jobs' = DOMAIN jobs => Task(run)')
    <2>1. CASE p.pc \in {"ingest", "ingested"} /\ UpdateState(p.job) /\ Become(w, NextJob(w))
      <3>1. p.job \in DOMAIN jobs
        BY <1>2, <2>1, CollectorIs
      <3>2. PICK run : run = NextJob(w) /\ Polls(run)
        BY <1>2, NextJobTask
      <3> QED BY <2>1, <3>1, <3>2, PollsTask
    <2>2. ASSUME p.pc = "poll", NEW k \in p.todo, UpdateState(k),
                 Become(w, [p EXCEPT !.todo = p.todo \ {k}])
          PROVE  \E i, run : i \in DOMAIN jobs /\ UpdateState(i) /\ Become(w, run) /\ Task(run)
                             /\ (DOMAIN jobs' = DOMAIN jobs => Task(run)')
      <3>1. PICK run : run = [p EXCEPT !.todo = p.todo \ {k}] /\ Become(w, run)
        BY <2>2
      <3>2. BatchFields \subseteq DOMAIN run /\ run.pc = "poll" /\ run.todo \subseteq DOMAIN jobs
        BY <1>3, <2>2, <3>1 DEF BatchFields
      <3>3. Task(run) /\ (DOMAIN jobs' = DOMAIN jobs => Task(run)')
        BY <3>2 DEF Task, TextsOf, Shaped, Ingesting, Indexing, Collecting, Submitters, Reembeds
      <3> QED BY <1>3, <2>2, <3>1, <3>3
    <2> QED BY <1>2, <2>1, <2>2 DEF JobFails
  <1>5. CASE jobs' = jobs
    BY <1>1, <1>4, <1>5, OnlyTaskMoves
  <1>6. CASE jobs' = [jobs EXCEPT ![k].row = "active"]
    BY <1>1, <1>4, <1>6, RowMoves
  <1> QED BY <1>4, <1>5, <1>6 DEF UpdateState

\* Who submits has the texts that are left to submit.
LEMMA SubmitterTask ==
  ASSUME NEW run, run.pc \in Submitters, SubmitFields \subseteq DOMAIN run, \A t \in run.texts : Listed(t)
  PROVE  Task(run)
  BY DEF Task, TextsOf, Shaped, Ingesting, Indexing, Collecting, Submitters, Reembeds

LEMMA CollectRequestsKeeps ==
  ASSUME IndexInv, NEW w \in Runner, CollectRequests(w)
  PROVE  IndexInv'
  <1>1. PICK p : p = runner[w]
    OBVIOUS
  <1>2. PICK left, some :
          /\ left = UNION {Unembedded(c) : c \in p.scope}
          /\ some = IF p.wave THEN First(left, WaveSize) ELSE left
          /\ Become(w, IF p.busy \/ some = {} THEN Idle
                       ELSE [pc |-> "submit", texts |-> Text(some), wave |-> p.wave])
    BY <1>1 DEF CollectRequests
  <1>3. some \in SUBSET Id
    BY <1>2 DEF Unembedded, First
  <1>4. PICK run : run = [pc |-> "submit", texts |-> Text(some), wave |-> p.wave]
    OBVIOUS
  <1>5. Task(run)
    BY <1>3, <1>4, ReadIsCurrent, SubmitterTask DEF IndexInv, Submitters, SubmitFields, Current
  <1>6. Become(w, Idle) \/ Become(w, run)
    BY <1>2, <1>4
  <1> QED BY <1>5, <1>6, IdleTask, OnlyTaskMoves DEF CollectRequests, Tables

LEMMA SubmitterIs ==
  ASSUME NEW p, Task(p), p.pc \in Submitters
  PROVE  SubmitFields \subseteq DOMAIN p /\ \A t \in p.texts : Listed(t)
  BY DEF Task, TextsOf, Shaped, Submitters

LEMMA CreateEmbedBatchKeeps ==
  ASSUME IndexInv, NEW w \in Runner, CreateEmbedBatch(w)
  PROVE  IndexInv'
  <1>1. PICK p : p = runner[w] /\ p.pc = "submit" /\ Task(p)
    BY TaskIs DEF CreateEmbedBatch
  <1>2. SubmitFields \subseteq DOMAIN p /\ \A t \in p.texts : Listed(t)
    BY <1>1, SubmitterIs DEF Submitters
  <1>3. PICK run : run = [p EXCEPT !.pc = "record"] /\ Become(w, run)
    BY <1>1 DEF CreateEmbedBatch
  <1>4. run.pc = "record" /\ run.texts = p.texts /\ SubmitFields \subseteq DOMAIN run
    BY <1>2, <1>3 DEF SubmitFields
  <1>5. Task(run)
    BY <1>2, <1>4, SubmitterTask DEF Submitters
  <1> QED BY <1>3, <1>5, OnlyTaskMoves DEF CreateEmbedBatch, Tables

LEMMA InsertJobKeeps ==
  ASSUME IndexInv, NEW w \in Runner, InsertJob(w)
  PROVE  IndexInv'
  <1>1. PICK p : p = runner[w] /\ p.pc = "record" /\ Task(p)
    BY TaskIs DEF InsertJob
  <1>2. SubmitFields \subseteq DOMAIN p /\ \A t \in p.texts : Listed(t)
    BY <1>1, SubmitterIs DEF Submitters
  <1>3. PICK requests : requests = ChunkRequests(p)
    OBVIOUS
  <1>4. requests \subseteq p.texts
    BY <1>3 DEF ChunkRequests
  <1>5. PICK rest : rest = [p EXCEPT !.pc = "submit", !.texts = p.texts \ requests]
    OBVIOUS
  <1>6. rest.pc = "submit" /\ rest.texts = p.texts \ requests /\ SubmitFields \subseteq DOMAIN rest
    BY <1>2, <1>5 DEF SubmitFields
  <1>7. Task(rest)
    BY <1>2, <1>6, SubmitterTask DEF Submitters
  <1>8. PICK run : (run = Idle \/ run = rest) /\ Become(w, run)
    BY <1>1, <1>3, <1>5 DEF InsertJob, Submitted, Submitting
  <1>9. Task(run)
    BY <1>7, <1>8, IdleTask
  <1>10. UNCHANGED <<chunks, embedded, collection, ghost>>
    BY DEF InsertJob, Tables
  <1>11. CASE jobs' = jobs
    BY <1>8, <1>9, <1>10, <1>11, OnlyTaskMoves
  <1>12. CASE jobs' = Append(jobs, [texts |-> requests, provider |-> "pending", row |-> "active"])
    <2>1. PICK job : job = [texts |-> requests, provider |-> "pending", row |-> "active"]
      OBVIOUS
    <2>2. job \in Job /\ job.texts = requests
      BY <1>2, <1>4, <2>1 DEF Job, Listed
    <2>3. PICK n \in Nat : n = Len(jobs) /\ jobs \in Seq(Job) /\ DOMAIN jobs = 1..n
      BY DEF IndexInv, IndexTables
    <2>4. /\ jobs' \in Seq(Job) /\ DOMAIN jobs' = 1..(n + 1) /\ jobs'[n + 1] = job
          /\ \A i \in 1..n : jobs'[i] = jobs[i]
      BY <1>12, <2>1, <2>2, <2>3
    <2>5. DOMAIN jobs \subseteq DOMAIN jobs'
      BY <2>3, <2>4
    <2>6. \A i \in DOMAIN jobs' :
             (i \in DOMAIN jobs /\ jobs'[i].texts \subseteq jobs[i].texts) \/ \A t \in jobs'[i].texts : Listed(t)
      <3> SUFFICES ASSUME NEW i \in DOMAIN jobs'
                   PROVE  (i \in DOMAIN jobs /\ jobs'[i].texts \subseteq jobs[i].texts)
                          \/ \A t \in jobs'[i].texts : Listed(t)
        OBVIOUS
      <3>1. CASE i = n + 1
        BY <1>2, <1>4, <2>2, <2>4, <3>1
      <3>2. CASE i # n + 1
        <4>1. i \in 1..n
          BY <2>4, <3>2
        <4> QED BY <2>3, <2>4, <4>1
      <3> QED BY <3>1, <3>2
    <2>7. /\ DOMAIN runner' = Runner /\ runner'[w] = run
          /\ \A v \in Runner \ {w} : runner'[v] = runner[v]
      BY <1>8 DEF Become, IndexInv, IndexTables
    <2>8. Task(run)'
      <3>1. run.pc \in {"idle", "submit"}
        BY <1>6, <1>8 DEF Idle
      <3>2. \A t : Listed(t) => Listed(t)'
        BY <1>10 DEF Listed, Id
      <3> QED BY <1>9, <3>1, <3>2 DEF Task, TextsOf, Shaped, Ingesting, Indexing, Collecting, Submitters, Reembeds
    <2> QED BY <1>10, <2>4, <2>5, <2>6, <2>7, <2>8, JobsMove
  <1> QED BY <1>1, <1>3, <1>11, <1>12 DEF InsertJob

LEMMA ProviderEndsKeeps ==
  ASSUME IndexInv, NEW k \in DOMAIN jobs, ProviderEnds(k)
  PROVE  IndexInv'
  <1>1. PICK job : job = jobs[k] /\ job \in Job /\ {"texts", "provider", "row"} \subseteq DOMAIN job
    BY JobIsOne DEF IndexInv
  <1>2. PICK over : /\ jobs' = [jobs EXCEPT ![k] = over]
                    /\ over \in Job /\ over.texts \subseteq job.texts /\ over.row = job.row
    <2>1. CASE \E done \in Results(jobs[k].texts) :
                  jobs' = [jobs EXCEPT ![k].texts = done, ![k].provider = "succeeded"]
      <3>1. PICK done \in SUBSET job.texts :
                  jobs' = [jobs EXCEPT ![k].texts = done, ![k].provider = "succeeded"]
        BY <1>1, <2>1 DEF Results
      <3>2. PICK over : over = [job EXCEPT !.texts = done, !.provider = "succeeded"]
        OBVIOUS
      <3>3. over \in Job /\ over.texts = done /\ over.row = job.row
        BY <1>1, <3>1, <3>2 DEF Job
      <3>4. jobs' = [jobs EXCEPT ![k] = over]
        BY <1>1, <3>1, <3>2
      <3> QED BY <3>3, <3>4
    <2>2. CASE jobs' = [jobs EXCEPT ![k].provider = "failed"]
      <3>1. PICK over : over = [job EXCEPT !.provider = "failed"]
        OBVIOUS
      <3>2. over \in Job /\ over.texts = job.texts /\ over.row = job.row
        BY <1>1, <3>1 DEF Job
      <3>3. jobs' = [jobs EXCEPT ![k] = over]
        BY <1>1, <2>2, <3>1
      <3> QED BY <3>2, <3>3
    <2> QED BY <2>1, <2>2 DEF ProviderEnds
  <1>3. /\ jobs' \in Seq(Job) /\ DOMAIN jobs' = DOMAIN jobs /\ jobs'[k] = over
        /\ \A i \in DOMAIN jobs \ {k} : jobs'[i] = jobs[i]
    BY <1>2, JobChanges DEF IndexInv
  <1>4. \A i \in DOMAIN jobs' : i \in DOMAIN jobs /\ jobs'[i].texts \subseteq jobs[i].texts
    BY <1>1, <1>2, <1>3
  <1>5. UNCHANGED <<chunks, embedded, collection, ghost, runner>>
    BY DEF ProviderEnds, Tables
  <1>6. DOMAIN runner' = Runner
    BY <1>5 DEF IndexInv, IndexTables
  <1> QED BY <1>3, <1>4, <1>5, <1>6, JobsMove

-----------------------------------------------------------------------------
(***************************************************************************)
(* Reembed, and the edits.                                                 *)
(***************************************************************************)
LEMMA InspectDimensionKeeps ==
  ASSUME IndexInv, NEW w \in Runner, InspectDimension(w)
  PROVE  IndexInv'
  <1>1. PICK p : p = runner[w] /\ p.pc = "inspect" /\ Shaped(p)
    BY TaskIs DEF InspectDimension, Task
  <1>2. p.company \in Company /\ ReembedFields \subseteq DOMAIN p
    BY <1>1 DEF Shaped, Reembeds
  <1>3. PICK next \in {"recreate", "ensure"} : Become(w, [p EXCEPT !.pc = next])
    BY <1>1 DEF InspectDimension
  <1>4. PICK run : run = [p EXCEPT !.pc = next]
    OBVIOUS
  <1>5. Shaped(run) /\ run.pc \in {"recreate", "ensure"}
    BY <1>2, <1>4 DEF Shaped, ReembedFields, Ingesting, Indexing, Collecting, Submitters, Reembeds
  <1>6. Task(run)
    BY <1>5, BareTask DEF Reembeds
  <1> QED BY <1>3, <1>4, <1>6, OnlyTaskMoves DEF InspectDimension, Tables

\* From here on nothing is said of the company whose collection is made again.
LEMMA ReconcileDimensionKeeps ==
  ASSUME IndexInv, NEW w \in Runner, ReconcileDimension(w)
  PROVE  IndexInv'
  <1>1. PICK p : p = runner[w] /\ p.pc \in {"recreate", "ensure"} /\ Shaped(p)
    BY TaskIs DEF ReconcileDimension, Task
  <1>2. PICK c \in Company : c = p.company /\ ReembedFields \subseteq DOMAIN p
    BY <1>1 DEF Shaped, Reembeds
  <1>3. UNCHANGED <<chunks, embedded, jobs>>
    BY DEF ReconcileDimension, Tables
  <1>4. PICK old : old = collection[c] /\ {"dim", "points"} \subseteq DOMAIN old
    BY DEF IndexInv, IndexTables
  <1>5. PICK coll : /\ collection' = [collection EXCEPT ![c] = coll]
                    /\ {"dim", "points"} \subseteq DOMAIN coll
    <2>1. PICK made : made = [dim |-> p.dim, points |-> <<>>]
      OBVIOUS
    <2>2. PICK kept : kept = [old EXCEPT !.dim = p.dim]
      OBVIOUS
    <2>3. {"dim", "points"} \subseteq DOMAIN made /\ {"dim", "points"} \subseteq DOMAIN kept
      BY <1>4, <2>1, <2>2
    <2>4. \/ collection' = [collection EXCEPT ![c] = made]
          \/ collection' = [collection EXCEPT ![c] = kept]
          \/ collection' = [collection EXCEPT ![c] = old]
      BY <1>1, <1>2, <1>4, <2>1, <2>2 DEF ReconcileDimension, RecreateCollection, EnsureCollection
    <2> QED BY <1>4, <2>3, <2>4
  <1>6. /\ DOMAIN collection' = Company
        /\ \A d \in Company : {"dim", "points"} \subseteq DOMAIN collection'[d]
        /\ \A d \in Company \ {c} : collection'[d] = collection[d]
    BY <1>5 DEF IndexInv, IndexTables
  <1>7. PICK after : /\ after = [ghost EXCEPT !.reembedded = ghost.reembedded \union {c}]
                     /\ ghost' = after
    BY <1>1, <1>2 DEF ReconcileDimension
  <1>8. /\ ghost' \in [raced : SUBSET Nat, reembedded : SUBSET Company]
        /\ ghost'.raced = ghost.raced /\ ghost'.reembedded = ghost.reembedded \union {c}
    BY <1>7 DEF IndexInv, IndexTables
  <1>9. PICK run : run = [p EXCEPT !.pc = "report", !.todo = ReadReports(c)] /\ Become(w, run)
    BY <1>1, <1>2 DEF ReconcileDimension
  <1>10. run.pc = "report" /\ run.company = c /\ ReembedFields \subseteq DOMAIN run
    BY <1>2, <1>9 DEF ReembedFields
  <1>11. /\ DOMAIN runner' = Runner /\ runner'[w] = run
         /\ \A v \in Runner \ {w} : runner'[v] = runner[v]
    BY <1>9 DEF Become, IndexInv, IndexTables
  <1>12. Task(run)'
    BY <1>8, <1>10 DEF Task, TextsOf, Shaped, Ingesting, Indexing, Collecting, Submitters, Reembeds
  <1>13. \A t : (Current(t) => Current(t)') /\ (Listed(t) => Listed(t)')
    BY <1>3, <1>8 DEF Current, Listed, Id
  <1>14. \A id : CompanyOf(id)' = CompanyOf(id)
    BY <1>3 DEF CompanyOf
  <1>15. ASSUME NEW id \in Id, Vectored(id)
         PROVE  Vectored(id)'
    <2>1. CompanyOf(id) \in Company
      BY RowIs DEF IndexInv
    <2> QED BY <1>3, <1>6, <1>8, <1>14, <1>15, <2>1 DEF Vectored
  <1>16. ASSUME NEW q, Task(q)
         PROVE  Task(q)'
    <2>1. Shaped(q)' /\ TextsOf(q)' = TextsOf(q)
      BY <1>3, <1>8, <1>16 DEF Task, Shaped, TextsOf
    <2>2. q.pc \in {"upsert", "mark", "ingested"} => \A t \in q.texts : t.id \in Id
      BY <1>16 DEF Task, TextsOf, Current, Listed
    <2> QED BY <1>13, <1>14, <1>15, <1>16, <2>1, <2>2 DEF Task
  <1>17. TasksRun'
    BY <1>11, <1>12, <1>16 DEF IndexInv, TasksRun
  <1>18. JobsListed'
    BY <1>3, <1>13 DEF IndexInv, JobsListed
  <1>19. IndexTables'
    BY <1>3, <1>6, <1>8, <1>11 DEF IndexInv, IndexTables, Id
  <1>20. TrueMarks'
    <2> SUFFICES ASSUME NEW id \in Id, CompanyOf(id) \notin ghost'.reembedded
                 PROVE  /\ embedded[id] # 0 =>
                              /\ id \in DOMAIN collection'[CompanyOf(id)].points
                              /\ collection'[CompanyOf(id)].points[id].kind = "chunk"
                        /\ id \notin ghost'.raced /\ embedded[id] = chunks[id].ver =>
                              collection'[CompanyOf(id)].points[id].ver = chunks[id].ver
      BY <1>3, <1>14 DEF TrueMarks, Id
    <2>1. CompanyOf(id) \in Company \ {c} /\ CompanyOf(id) \notin ghost.reembedded
      BY <1>8, RowIs DEF IndexInv
    <2> QED BY <1>6, <1>8, <2>1 DEF IndexInv, TrueMarks
  <1> QED BY <1>17, <1>18, <1>19, <1>20 DEF IndexInv

\* Points of reports go to a collection of which nothing is said.
LEMMA ReembedReportKeeps ==
  ASSUME IndexInv, NEW w \in Runner, ReembedReport(w)
  PROVE  IndexInv'
  <1>1. PICK p : p = runner[w] /\ p.pc = "report" /\ Shaped(p)
    BY TaskIs DEF ReembedReport, Task
  <1>2. PICK c \in Company : c = p.company /\ c \in ghost.reembedded /\ ReembedFields \subseteq DOMAIN p
    BY <1>1 DEF Shaped, Reembeds
  <1>3. UNCHANGED <<chunks, embedded, jobs, ghost>>
    BY DEF ReembedReport, Tables
  <1>4. CASE Become(w, Idle) /\ UNCHANGED collection
    BY <1>3, <1>4, IdleTask, OnlyTaskMoves
  <1>5. ASSUME NEW r, Upsert(c, p.dim, ReportPoints(r)), Become(w, [p EXCEPT !.todo = p.todo \ {r}])
        PROVE  IndexInv'
    <2>1. PICK run : run = [p EXCEPT !.todo = p.todo \ {r}] /\ Become(w, run)
      BY <1>5
    <2>2. run.pc = "report" /\ run.company = c /\ ReembedFields \subseteq DOMAIN run
      BY <1>1, <1>2, <2>1 DEF ReembedFields
    <2>3. /\ DOMAIN runner' = Runner /\ runner'[w] = run
          /\ \A v \in Runner \ {w} : runner'[v] = runner[v]
      BY <2>1 DEF Become, IndexInv, IndexTables
    <2>4. Task(run)'
      BY <1>2, <1>3, <2>2 DEF Task, TextsOf, Shaped, Ingesting, Indexing, Collecting, Submitters, Reembeds
    <2>5. PICK points : points = ReportPoints(r)
      OBVIOUS
    <2>6. PICK dim : dim = p.dim /\ Upsert(c, dim, points)
      BY <1>5, <2>5
    <2>7. /\ DOMAIN collection' = Company
          /\ \A d \in Company \ {c} : collection'[d] = collection[d]
          /\ {"dim", "points"} \subseteq DOMAIN collection'[c]
      BY <2>6, UpsertIs DEF IndexInv
    <2>8. IndexTables'
      BY <1>3, <2>3, <2>7 DEF IndexInv, IndexTables, Id
    <2>9. \A id : CompanyOf(id)' = CompanyOf(id)
      BY <1>3 DEF CompanyOf
    <2>10. \A id \in Id : CompanyOf(id) \in Company
      BY RowIs DEF IndexInv
    <2>11. ASSUME NEW id \in Id, CompanyOf(id) \notin ghost.reembedded
           PROVE  collection'[CompanyOf(id)] = collection[CompanyOf(id)]
      BY <1>2, <2>7, <2>10, <2>11
    <2>12. \A id \in Id : Vectored(id) => Vectored(id)'
      BY <1>3, <2>9, <2>11 DEF Vectored
    <2>13. TrueMarks'
      BY <1>3, <2>9, <2>11 DEF IndexInv, TrueMarks, Id
    <2> QED BY <1>3, <2>3, <2>4, <2>8, <2>12, <2>13, TaskMoves
  <1> QED BY <1>1, <1>2, <1>4, <1>5 DEF ReembedReport

\* An edit: whose text is out is raced, and no mark is of the new content.
LEMMA EditKeeps ==
  ASSUME IndexInv, NEW e \in Id, Edit(e)
  PROVE  IndexInv'
  <1>1. UNCHANGED <<embedded, collection, runner, jobs>>
    BY DEF Edit
  <1>2. PICK row \in ChunkRow : row = chunks[e]
    BY RowIs DEF IndexInv
  <1>3. PICK over : over = [row EXCEPT !.ver = row.ver + 1]
    OBVIOUS
  <1>4. over \in ChunkRow /\ over.ver = row.ver + 1 /\ over.report = row.report
    BY <1>2, <1>3 DEF ChunkRow
  <1>5. chunks' = [chunks EXCEPT ![e] = over]
    BY <1>2, <1>3 DEF Edit
  <1>6. chunks \in Seq(ChunkRow) /\ e \in DOMAIN chunks
    BY DEF IndexInv, IndexTables, Id
  <1>7. /\ chunks' \in Seq(ChunkRow) /\ Len(chunks') = Len(chunks) /\ DOMAIN chunks' = DOMAIN chunks
        /\ chunks'[e] = over /\ \A id \in DOMAIN chunks \ {e} : chunks'[id] = chunks[id]
    BY <1>4, <1>5, <1>6
  <1>8. /\ ghost' \in [raced : SUBSET Nat, reembedded : SUBSET Company]
        /\ ghost'.reembedded = ghost.reembedded /\ ghost.raced \subseteq ghost'.raced
        /\ e \in IdsOf(TextsOut) => e \in ghost'.raced
    <2>1. e \in Nat /\ ghost \in [raced : SUBSET Nat, reembedded : SUBSET Company]
      BY RowIs DEF IndexInv, IndexTables
    <2>2. PICK after : after = [ghost EXCEPT !.raced = ghost.raced \union {e}]
      OBVIOUS
    <2>3. /\ after \in [raced : SUBSET Nat, reembedded : SUBSET Company]
          /\ after.reembedded = ghost.reembedded /\ after.raced = ghost.raced \union {e}
      BY <2>1, <2>2
    <2>4. ghost' = IF e \in IdsOf(TextsOut) THEN after ELSE ghost
      BY <2>2 DEF Edit
    <2> QED BY <2>1, <2>3, <2>4
  <1>9. Id' = Id /\ \A id \in Id : CompanyOf(id)' = CompanyOf(id)
    BY <1>2, <1>4, <1>7 DEF Id, CompanyOf
  <1>10. ASSUME NEW t \in TextsOut, Current(t)
         PROVE  Current(t)'
    <2>1. t.id = e => e \in ghost'.raced
      BY <1>8 DEF IdsOf
    <2> QED BY <1>7, <1>8, <1>9, <1>10, <2>1 DEF Current, Listed, Id
  <1>11. ASSUME NEW t \in TextsOut, t.id \in Id, Vectored(t.id)
         PROVE  Vectored(t.id)'
    <2>1. t.id = e => e \in ghost'.raced
      BY <1>8 DEF IdsOf
    <2> QED BY <1>1, <1>7, <1>8, <1>9, <1>11, <2>1 DEF Vectored, Id
  <1>12. TasksRun'
    <2> SUFFICES ASSUME NEW w \in Runner
                 PROVE  Task(runner[w])'
      BY DEF TasksRun
    <2>1. PICK run : run = runner[w] /\ Task(run)
      BY TaskIs
    <2>2. TextsOf(run) \subseteq TextsOut
      BY <2>1 DEF TextsOut
    <2>3. Shaped(run)' /\ TextsOf(run)' = TextsOf(run)
      BY <1>1, <1>8, <2>1 DEF Task, Shaped, TextsOf
    <2>4. \A t \in TextsOf(run) : Current(t)'
      BY <1>10, <2>1, <2>2 DEF Task
    <2>5. ASSUME run.pc \in {"upsert", "mark", "ingested"}, NEW t \in run.texts
          PROVE  t \in TextsOut /\ t.id \in Id
      BY <2>1, <2>2, <2>5 DEF Task, TextsOf, Current, Listed
    <2>6. run.pc \in {"upsert", "mark"} => \A t \in run.texts : CompanyOf(t.id)' = run.company
      BY <1>9, <2>1, <2>5 DEF Task
    <2>7. run.pc \in {"mark", "ingested"} => \A t \in run.texts : Vectored(t.id)'
      BY <1>11, <2>1, <2>5 DEF Task
    <2>8. Task(run)'
      BY <1>9, <2>1, <2>3, <2>4, <2>6, <2>7 DEF Task, Listed
    <2> QED BY <1>1, <2>1, <2>8
  <1>13. JobsListed'
    BY <1>1, <1>9 DEF IndexInv, JobsListed, Listed
  <1>14. \A id \in Id : embedded[id] \in Nat /\ embedded[id] <= chunks[id].ver
                        /\ chunks[id].ver \in Nat
    BY RowIs DEF IndexInv, IndexTables
  <1>15. embedded[e] <= over.ver /\ embedded[e] # over.ver
    BY <1>2, <1>4, <1>14
  <1>16. IndexTables'
    BY <1>1, <1>7, <1>8, <1>9, <1>14, <1>15 DEF IndexInv, IndexTables, Id
  <1>17. TrueMarks'
    <2> SUFFICES ASSUME NEW id \in Id, CompanyOf(id) \notin ghost.reembedded
                 PROVE  /\ embedded[id] # 0 =>
                              /\ id \in DOMAIN collection[CompanyOf(id)].points
                              /\ collection[CompanyOf(id)].points[id].kind = "chunk"
                        /\ id \notin ghost'.raced /\ embedded[id] = chunks'[id].ver =>
                              collection[CompanyOf(id)].points[id].ver = chunks'[id].ver
      BY <1>1, <1>8, <1>9 DEF TrueMarks
    <2>1. CASE id = e
      BY <1>7, <1>15, <2>1 DEF IndexInv, TrueMarks
    <2>2. CASE id # e
      BY <1>7, <1>8, <2>2 DEF IndexInv, TrueMarks, Id
    <2> QED BY <2>1, <2>2
  <1> QED BY <1>12, <1>13, <1>16, <1>17 DEF IndexInv

-----------------------------------------------------------------------------
(***************************************************************************)
(* All of it.                                                              *)
(***************************************************************************)
LEMMA IndexInitHolds == IndexInit => IndexInv
  <1> SUFFICES ASSUME IndexInit
               PROVE  IndexInv
    OBVIOUS
  <1>1. PICK New : New = [report : Report, ver : {1}, kind : {"parent", "child"}] /\ chunks \in Seq(New)
    BY VectorIndexAssumption DEF IndexInit
  <1>2. PICK n \in Nat : n = Len(chunks) /\ DOMAIN chunks = 1..n
    BY <1>1
  <1>3. \A id \in 1..n : chunks[id] \in New
    <2>1. chunks \in Seq(New)
      BY <1>1
    <2> QED BY <1>2, <2>1, ElementOfSeq
  <1>4. \A id \in 1..n : chunks[id] \in ChunkRow /\ chunks[id].ver = 1
    BY <1>1, <1>3 DEF ChunkRow
  <1>5. chunks \in Seq(ChunkRow)
    BY <1>1, <1>2, <1>4
  <1>6. embedded = [id \in 1..n |-> 0]
    BY <1>2 DEF IndexInit
  <1>7. embedded \in Seq(Nat) /\ Len(embedded) = n /\ \A id \in 1..n : embedded[id] = 0
    BY <1>6
  <1>8. \A w \in Runner : runner[w] = Idle
    BY DEF IndexInit
  <1>9. \A c \in Company : {"dim", "points"} \subseteq DOMAIN collection[c]
    BY DEF IndexInit, Absent
  <1>10. jobs \in Seq(Job) /\ DOMAIN jobs = {}
    BY DEF IndexInit
  <1>11. ghost \in [raced : SUBSET Nat, reembedded : SUBSET Company]
    BY DEF IndexInit
  <1>12. IndexTables
    BY <1>2, <1>4, <1>5, <1>7, <1>9, <1>10, <1>11 DEF IndexInit, IndexTables, Id
  <1>13. TasksRun
    BY <1>8, IdleTask DEF TasksRun
  <1>14. JobsListed
    BY <1>10 DEF JobsListed
  <1>15. TrueMarks
    BY <1>2, <1>4, <1>7 DEF TrueMarks, Id
  <1> QED BY <1>12, <1>13, <1>14, <1>15 DEF IndexInv

LEMMA StepsKeep ==
  ASSUME IndexInv, NEW w \in Runner, Step(w)
  PROVE  IndexInv'
  <1>1. CASE \/ FindArticle(w) \/ InsertArticle(w)
             \/ NextBatch(w) \/ IndexUpsert(w) \/ IndexMark(w) \/ UpsertRefused(w)
    BY <1>1, FindArticleKeeps, InsertArticleKeeps, NextBatchKeeps, IndexUpsertKeeps, IndexMarkKeeps, EndsKeep
  <1>2. CASE \E k \in DOMAIN jobs : PollJob(w, k)
    BY <1>2, PollJobKeeps
  <1>3. CASE \E c \in Company : IngestUpsert(w, c)
    BY <1>3, IngestUpsertKeeps
  <1>4. CASE IngestMark(w) \/ MarkIngested(w) \/ CollectRequests(w) \/ CreateEmbedBatch(w) \/ InsertJob(w)
    BY <1>4, IngestMarkKeeps, MarkIngestedKeeps, CollectRequestsKeeps, CreateEmbedBatchKeeps, InsertJobKeeps
  <1>5. CASE InspectDimension(w) \/ ReconcileDimension(w) \/ ReembedReport(w)
    BY <1>5, InspectDimensionKeeps, ReconcileDimensionKeeps, ReembedReportKeeps
  <1> QED BY <1>1, <1>2, <1>3, <1>4, <1>5 DEF Step

LEMMA IndexNextKeeps == IndexInv /\ [IndexNext]_indexVars => IndexInv'
  <1> SUFFICES ASSUME IndexInv, [IndexNext]_indexVars
               PROVE  IndexInv'
    OBVIOUS
  <1>1. ASSUME NEW w \in Runner, Step(w)
        PROVE  IndexInv'
    BY <1>1, StepsKeep
  <1>2. ASSUME NEW w \in Runner, JobFails(w) \/ Abort(w) \/ UpsertTorn(w)
        PROVE  IndexInv'
    BY <1>2, JobFailsKeeps, EndsKeep, UpsertTornKeeps
  <1>3. ASSUME NEW w \in Runner, NEW c \in Company,
               \/ StartIngest(w, c) \/ StartRefresh(w, c)
               \/ \E dim \in {Dim, OtherDim} : StartReembed(w, c, dim)
        PROVE  IndexInv'
    BY <1>3, StartsKeep
  <1>4. ASSUME NEW w \in Runner, NEW cs \in Scopes, NEW collects \in BOOLEAN, StartBatch(w, cs, collects)
        PROVE  IndexInv'
    BY <1>4, StartBatchKeeps
  <1>5. ASSUME NEW k \in DOMAIN jobs, ProviderEnds(k)
        PROVE  IndexInv'
    BY <1>5, ProviderEndsKeeps
  <1>6. ASSUME NEW id \in Id, Edit(id)
        PROVE  IndexInv'
    BY <1>6, EditKeeps
  <1>7. CASE UNCHANGED indexVars
    <2>1. UNCHANGED <<chunks, embedded, collection, runner, jobs, ghost>>
      BY <1>7 DEF indexVars
    <2>2. IndexTables' /\ TrueMarks' /\ \A id \in Id : Vectored(id) => Vectored(id)'
      BY <2>1 DEF IndexInv, IndexTables, TrueMarks, Vectored, CompanyOf, Id
    <2> QED BY <2>1, <2>2, TaskMoves
  <1> QED BY <1>1, <1>2, <1>3, <1>4, <1>5, <1>6, <1>7 DEF IndexNext

(***************************************************************************)
(* kb_embeddings tells the truth about Qdrant, whatever tasks run at once, *)
(* fail between Upsert and Mark, collect the same job or, by its name, one *)
(* that was ingested before: a marked chunk has its point, and one whose   *)
(* mark is its hash has the vector of its present content, except where    *)
(* the code itself gives it up (a reembedded company, a chunk edited while *)
(* a text of it was embedded, a job collected that read it before an edit). *)
(***************************************************************************)
THEOREM MarksStayTrue == IndexSpec => []MarksAreTrue
  <1>1. IndexInv => MarksAreTrue
    <2> SUFFICES ASSUME IndexInv, NEW id \in Id, CompanyOf(id) \notin ghost.reembedded
                 PROVE  /\ embedded[id] # 0 =>
                              /\ id \in Retrievable(CompanyOf(id))
                              /\ collection[CompanyOf(id)].points[id].kind = "chunk"
                        /\ id \notin ghost.raced /\ embedded[id] = chunks[id].ver =>
                              /\ id \in Retrievable(CompanyOf(id))
                              /\ collection[CompanyOf(id)].points[id].ver = chunks[id].ver
      BY DEF MarksAreTrue, MarkedIsIndexed, MarkedIsCurrent
    <2>1. chunks[id].ver # 0
      BY RowIs DEF IndexInv
    <2>2. embedded[id] # 0 => id \in Retrievable(CompanyOf(id))
      BY DEF IndexInv, TrueMarks, Retrievable, ChunkIdFromHit
    <2> QED BY <2>1, <2>2 DEF IndexInv, TrueMarks
  <1> QED BY <1>1, IndexInitHolds, IndexNextKeeps, PTL DEF IndexSpec

-----------------------------------------------------------------------------
(***************************************************************************)
(* The index: its type.  A collection has no points before it has a        *)
(* dimension, a reembed makes it of one of the two, a collected job is one *)
(* the provider ended, and a provider does not take back what it said.     *)
(***************************************************************************)
Sized(coll) == coll.dim \in {0, Dim, OtherDim} /\ (coll.dim = 0 => coll.points = <<>>)

Doing(run, held) ==
    /\ run.pc = "insert" => run.todo # {}
    /\ run.pc \in Reembeds => run.dim \in {Dim, OtherDim}
    /\ run.pc \in {"ingest", "ingested"} => held[run.job].provider = "succeeded"

Told(job, numbers) ==
    /\ \A t \in job.texts : t.id \in numbers
    /\ job.row = "failed" => job.provider = "failed"
    /\ job.row = "ingested" => job.provider = "succeeded"

IndexTyped ==
    /\ \A c \in Company : Sized(collection[c])
    /\ \A w \in Runner : Doing(runner[w], jobs)
    /\ \A k \in DOMAIN jobs : Told(jobs[k], Id)

\* Jobs go on: what the provider ended well stays so, and what they hold are chunks.
JobsGoOn ==
    /\ \A k \in DOMAIN jobs : k \in DOMAIN jobs' /\ (jobs[k].provider = "succeeded" => jobs'[k].provider = "succeeded")
    /\ \A k \in DOMAIN jobs' : Told(jobs'[k], Id')

LEMMA TypeMoves ==
  ASSUME IndexInv, IndexTyped, NEW w \in Runner, NEW run, Become(w, run), Doing(run, jobs'),
         \A c \in Company : Sized(collection'[c]), JobsGoOn
  PROVE  IndexTyped'
  <1>1. /\ DOMAIN runner = Runner /\ runner'[w] = run
        /\ \A v \in Runner \ {w} : runner'[v] = runner[v]
    BY DEF Become, IndexInv, IndexTables
  <1>2. ASSUME NEW v \in Runner, v # w
        PROVE  Doing(runner[v], jobs')
    <2>1. PICK p : p = runner[v] /\ Shaped(p) /\ Doing(p, jobs)
      BY TaskIs DEF Task, IndexTyped
    <2>2. p.pc \in {"ingest", "ingested"} => p.job \in DOMAIN jobs
      BY <2>1 DEF Shaped
    <2>3. p.pc \in {"ingest", "ingested"} => jobs'[p.job].provider = "succeeded"
      BY <2>1, <2>2 DEF Doing, JobsGoOn
    <2> QED BY <2>1, <2>3 DEF Doing
  <1>3. \A v \in Runner : Doing(runner'[v], jobs')
    BY <1>1, <1>2
  <1> QED BY <1>3 DEF IndexTyped, JobsGoOn

LEMMA JobsStay ==
  ASSUME IndexTyped, UNCHANGED jobs, Id \subseteq Id'
  PROVE  JobsGoOn
  BY DEF IndexTyped, JobsGoOn, Told

\* A task moves, and nothing else.
LEMMA OnlyTypeMoves ==
  ASSUME IndexInv, IndexTyped, NEW w \in Runner, NEW run, Become(w, run), Doing(run, jobs),
         UNCHANGED <<chunks, collection, jobs>>
  PROVE  IndexTyped'
  <1>1. JobsGoOn
    BY JobsStay DEF Id
  <1>2. Doing(run, jobs') /\ \A c \in Company : Sized(collection'[c])
    BY DEF IndexTyped
  <1> QED BY <1>1, <1>2, TypeMoves

\* Nothing is to be said of most of what tasks do.
Plain(run) == run.pc \notin {"insert", "ingest", "ingested"} \union Reembeds

LEMMA PlainDoing ==
  ASSUME NEW run, Plain(run), NEW held
  PROVE  Doing(run, held)
  BY DEF Plain, Doing

LEMMA PlainMoves ==
  ASSUME IndexInv, IndexTyped, NEW w \in Runner, NEW run, Become(w, run), Plain(run),
         UNCHANGED <<chunks, collection, jobs>>
  PROVE  IndexTyped'
  BY PlainDoing, OnlyTypeMoves

LEMMA IdlePlain == Plain(Idle)
  BY DEF Plain, Idle, Reembeds

LEMMA UpsertSized ==
  ASSUME IndexInv, IndexTyped, NEW c \in Company, NEW dim \in {Dim, OtherDim}, NEW new, Upsert(c, dim, new)
  PROVE  \A d \in Company : Sized(collection'[d])
  <1>1. PICK old : old = collection[c] /\ {"dim", "points"} \subseteq DOMAIN old
    BY DEF IndexInv, IndexTables
  <1>2. PICK coll : /\ coll = EnsureCollection(old, dim) /\ coll.dim = dim
                    /\ {"dim", "points"} \subseteq DOMAIN coll
    <2>1. PICK e : e = [old EXCEPT !.dim = dim]
      OBVIOUS
    <2>2. {"dim", "points"} \subseteq DOMAIN e
      BY <1>1, <2>1
    <2> QED BY <1>1, <2>1, <2>2 DEF EnsureCollection, Upsert
  <1>3. PICK now : now = WithPoints(coll, new)
    OBVIOUS
  <1>4. now.dim = dim
    BY <1>2, <1>3 DEF WithPoints
  <1>5. collection' = [collection EXCEPT ![c] = now]
    BY <1>1, <1>2, <1>3 DEF Upsert
  <1>6. collection'[c] = now /\ \A d \in Company \ {c} : collection'[d] = collection[d]
    BY <1>5 DEF IndexInv, IndexTables
  <1>7. Sized(now)
    BY <1>4, VectorIndexAssumption DEF Sized
  <1> QED BY <1>6, <1>7 DEF IndexTyped

-----------------------------------------------------------------------------
LEMMA StartsTyped ==
  ASSUME IndexInv, IndexTyped, NEW w \in Runner
  PROVE  /\ \A c \in Company : StartIngest(w, c) \/ StartRefresh(w, c) => IndexTyped'
         /\ \A c \in Company, dim \in {Dim, OtherDim} : StartReembed(w, c, dim) => IndexTyped'
         /\ \A cs \in Scopes, collects \in BOOLEAN : StartBatch(w, cs, collects) => IndexTyped'
  <1>1. ASSUME NEW c \in Company, StartIngest(w, c)
        PROVE  IndexTyped'
    <2>1. PICK run : run = [pc |-> "article", company |-> c, todo |-> ReadReports(c)] /\ Become(w, run)
      BY <1>1 DEF StartIngest
    <2>2. Plain(run)
      BY <2>1 DEF Plain, Reembeds
    <2> QED BY <1>1, <2>1, <2>2, PlainMoves DEF StartIngest, Tables
  <1>2. ASSUME NEW c \in Company, StartRefresh(w, c)
        PROVE  IndexTyped'
    <2>1. PICK run : run = IndexRun(c, RefreshMax) /\ Become(w, run)
      BY <1>2 DEF StartRefresh
    <2>2. Plain(run)
      BY <2>1 DEF Plain, Reembeds, IndexRun
    <2> QED BY <1>2, <2>1, <2>2, PlainMoves DEF StartRefresh, Tables
  <1>3. ASSUME NEW c \in Company, NEW dim \in {Dim, OtherDim}, StartReembed(w, c, dim)
        PROVE  IndexTyped'
    <2>1. PICK run : run = [pc |-> "inspect", company |-> c, dim |-> dim, todo |-> {}] /\ Become(w, run)
      BY <1>3 DEF StartReembed
    <2>2. Doing(run, jobs)
      BY <2>1 DEF Doing
    <2> QED BY <1>3, <2>1, <2>2, OnlyTypeMoves DEF StartReembed, Tables
  <1>4. ASSUME NEW cs \in Scopes, NEW collects \in BOOLEAN, StartBatch(w, cs, collects)
        PROVE  IndexTyped'
    <2>1. PICK run : run.pc = "poll" /\ Become(w, run)
      BY <1>4 DEF StartBatch
    <2>2. Plain(run)
      BY <2>1 DEF Plain, Reembeds
    <2> QED BY <1>4, <2>1, <2>2, PlainMoves DEF StartBatch, Tables
  <1> QED BY <1>1, <1>2, <1>3, <1>4

LEMMA IngestTyped ==
  ASSUME IndexInv, IndexTyped, NEW w \in Runner, FindArticle(w) \/ InsertArticle(w)
  PROVE  IndexTyped'
  <1>1. PICK p : p = runner[w] /\ Shaped(p)
    BY TaskIs DEF Task
  <1>2. CASE FindArticle(w)
    <2>1. IngestFields \subseteq DOMAIN p /\ p.pc = "article"
      BY <1>1, <1>2 DEF FindArticle, Shaped, Ingesting
    <2>2. UNCHANGED <<chunks, collection, jobs>>
      BY <1>2 DEF FindArticle, Tables
    <2>3. CASE Become(w, IndexRun(p.company, 0))
      <3>1. PICK run : run = IndexRun(p.company, 0) /\ Become(w, run)
        BY <2>3
      <3>2. Plain(run)
        BY <3>1 DEF Plain, Reembeds, IndexRun
      <3> QED BY <2>2, <3>1, <3>2, PlainMoves
    <2>4. ASSUME NEW r, Become(w, [p EXCEPT !.todo = p.todo \ {r}])
          PROVE  IndexTyped'
      <3>1. PICK run : run = [p EXCEPT !.todo = p.todo \ {r}] /\ Become(w, run)
        BY <2>4
      <3>2. run.pc = "article"
        BY <2>1, <3>1
      <3>3. Plain(run)
        BY <3>2 DEF Plain, Reembeds
      <3> QED BY <2>2, <3>1, <3>3, PlainMoves
    <2>5. ASSUME NEW r \in p.todo, Become(w, [p EXCEPT !.pc = "insert"])
          PROVE  IndexTyped'
      <3>1. PICK run : run = [p EXCEPT !.pc = "insert"] /\ Become(w, run)
        BY <2>5
      <3>2. run.pc = "insert" /\ run.todo = p.todo
        BY <2>1, <3>1 DEF IngestFields
      <3>3. Doing(run, jobs)
        BY <2>5, <3>2 DEF Doing, Reembeds
      <3> QED BY <2>2, <3>1, <3>3, OnlyTypeMoves
    <2>6. \/ Become(w, IndexRun(p.company, 0))
          \/ \E r \in p.todo : \/ Become(w, [p EXCEPT !.todo = p.todo \ {r}])
                               \/ Become(w, [p EXCEPT !.pc = "insert"])
      BY <1>1, <1>2 DEF FindArticle, Foremost
    <2> QED BY <2>3, <2>4, <2>5, <2>6
  <1>3. CASE InsertArticle(w)
    <2>1. IngestFields \subseteq DOMAIN p /\ p.pc = "insert"
      BY <1>1, <1>3 DEF InsertArticle, Shaped, Ingesting
    <2>2. PICK r \in Report : /\ chunks' = chunks \o ChunkRows(r)
                              /\ Become(w, [p EXCEPT !.pc = "article", !.todo = p.todo \ {r}])
      BY <1>1, <1>3, <2>1 DEF InsertArticle, Foremost, Shaped, Ingesting
    <2>3. PICK run : run = [p EXCEPT !.pc = "article", !.todo = p.todo \ {r}] /\ Become(w, run)
      BY <2>2
    <2>4. run.pc = "article"
      BY <2>1, <2>3 DEF IngestFields
    <2>5. Doing(run, jobs')
      BY <2>4 DEF Doing, Reembeds
    <2>6. UNCHANGED <<collection, jobs>>
      BY <1>3 DEF InsertArticle
    <2>7. Id \subseteq Id'
      <3>1. PICK rows : rows = ChunkRows(r) /\ rows \in Seq(ChunkRow)
        BY ChunkRowsAre
      <3>2. chunks \in Seq(ChunkRow) /\ chunks' = chunks \o rows
        BY <2>2, <3>1 DEF IndexInv, IndexTables
      <3> QED BY <3>1, <3>2 DEF Id
    <2>8. JobsGoOn
      BY <2>6, <2>7, JobsStay
    <2>9. \A c \in Company : Sized(collection'[c])
      BY <2>6 DEF IndexTyped
    <2> QED BY <2>3, <2>5, <2>8, <2>9, TypeMoves
  <1> QED BY <1>2, <1>3

LEMMA IndexingTyped ==
  ASSUME IndexInv, IndexTyped, NEW w \in Runner,
         NextBatch(w) \/ IndexUpsert(w) \/ IndexMark(w) \/ UpsertTorn(w)
  PROVE  IndexTyped'
  <1>1. PICK p : p = runner[w] /\ Shaped(p)
    BY TaskIs DEF Task
  <1>2. p.pc \in Indexing /\ p.company \in Company /\ IndexFields \subseteq DOMAIN p
    BY <1>1 DEF NextBatch, IndexUpsert, IndexMark, UpsertTorn, Shaped, Indexing
  <1>3. UNCHANGED <<chunks, jobs>>
    BY DEF NextBatch, IndexUpsert, IndexMark, UpsertTorn, Tables
  <1>4. JobsGoOn
    BY <1>3, JobsStay DEF Id
  <1>5. PICK run : Become(w, run) /\ Plain(run)
    <2>1. CASE NextBatch(w)
      <3>1. PICK texts, run : (run = Idle \/ run = [p EXCEPT !.pc = "upsert", !.texts = texts]) /\ Become(w, run)
        BY <1>1, <2>1 DEF NextBatch
      <3>2. Plain(run)
        BY <1>2, <3>1, IdlePlain DEF Plain, Reembeds, IndexFields
      <3> QED BY <3>1, <3>2
    <2>2. CASE IndexUpsert(w)
      <3>1. PICK run : run = [p EXCEPT !.pc = "mark"] /\ Become(w, run)
        BY <1>1, <2>2 DEF IndexUpsert
      <3>2. Plain(run)
        BY <1>2, <3>1 DEF Plain, Reembeds, IndexFields
      <3> QED BY <3>1, <3>2
    <2>3. CASE IndexMark(w)
      <3>1. PICK next : next = IndexRun(p.company, p.limit)
        OBVIOUS
      <3>2. PICK after, done, run : run = [next EXCEPT !.after = after, !.done = done] /\ Become(w, run)
        BY <1>1, <2>3, <3>1 DEF IndexMark
      <3>3. Plain(run)
        BY <3>1, <3>2 DEF Plain, Reembeds, IndexRun
      <3> QED BY <3>2, <3>3
    <2>4. CASE UpsertTorn(w)
      BY <2>4, IdlePlain DEF UpsertTorn
    <2> QED BY <2>1, <2>2, <2>3, <2>4
  <1>6. \A c \in Company : Sized(collection'[c])
    <2>1. CASE UNCHANGED collection
      BY <2>1 DEF IndexTyped
    <2>2. CASE \E new : Upsert(p.company, Dim, new)
      BY <1>2, <2>2, UpsertSized
    <2>3. UNCHANGED collection \/ \E new : Upsert(p.company, Dim, new)
      BY <1>1 DEF NextBatch, IndexUpsert, IndexMark, UpsertTorn
    <2> QED BY <2>1, <2>2, <2>3
  <1>7. Doing(run, jobs')
    BY <1>5, PlainDoing
  <1> QED BY <1>4, <1>5, <1>6, <1>7, TypeMoves

LEMMA EndsTyped ==
  ASSUME IndexInv, IndexTyped, NEW w \in Runner, Abort(w) \/ UpsertRefused(w)
  PROVE  IndexTyped'
  BY IdlePlain, PlainMoves DEF Abort, UpsertRefused, Tables

-----------------------------------------------------------------------------
\* The job a runner has in its hands.
LEMMA CollectorDoes ==
  ASSUME IndexInv, IndexTyped, NEW w \in Runner, runner[w].pc \in Collecting
  PROVE  /\ BatchFields \subseteq DOMAIN runner[w] /\ runner[w].todo \subseteq DOMAIN jobs
         /\ runner[w].pc \in {"ingest", "ingested"} =>
               /\ runner[w].job \in DOMAIN jobs /\ jobs[runner[w].job].provider = "succeeded"
  <1>1. Shaped(runner[w]) /\ Doing(runner[w], jobs)
    BY TaskIs DEF Task, IndexTyped
  <1> QED BY <1>1 DEF Shaped, Doing, Collecting

\* A job changes, and nothing else.
LEMMA JobGoesOn ==
  ASSUME IndexInv, IndexTyped, NEW k \in DOMAIN jobs, NEW over \in Job, jobs' = [jobs EXCEPT ![k] = over],
         UNCHANGED chunks, over.texts \subseteq jobs[k].texts, Told(over, Id),
         jobs[k].provider = "succeeded" => over.provider = "succeeded"
  PROVE  JobsGoOn
  <1>1. /\ DOMAIN jobs' = DOMAIN jobs /\ jobs'[k] = over
        /\ \A i \in DOMAIN jobs \ {k} : jobs'[i] = jobs[i]
    BY JobChanges DEF IndexInv
  <1>2. Id' = Id
    BY DEF Id
  <1> QED BY <1>1, <1>2 DEF JobsGoOn, IndexTyped

LEMMA PollJobTyped ==
  ASSUME IndexInv, IndexTyped, NEW w \in Runner, NEW k \in DOMAIN jobs, PollJob(w, k)
  PROVE  IndexTyped'
  <1>1. PICK p : p = runner[w] /\ p.pc = "poll"
    BY DEF PollJob
  <1>2. BatchFields \subseteq DOMAIN p
    BY <1>1, CollectorDoes DEF Collecting
  <1>3. PICK job : job = jobs[k] /\ job \in Job /\ {"texts", "provider", "row"} \subseteq DOMAIN job
    BY JobIsOne DEF IndexInv
  <1>4. job.provider \in {"pending", "failed", "succeeded"}
    BY <1>3 DEF Job
  <1>5. UNCHANGED <<chunks, collection>>
    BY DEF PollJob, Tables
  <1>6. CASE job.provider = "pending"
    <2>1. PICK run : run = [p EXCEPT !.todo = p.todo \ {k}, !.busy = TRUE] /\ Become(w, run)
      BY <1>1, <1>3, <1>6 DEF PollJob
    <2>2. Plain(run)
      BY <1>1, <1>2, <2>1 DEF BatchFields, Plain, Reembeds
    <2>3. jobs' = jobs
      BY <1>3, <1>6 DEF PollJob
    <2> QED BY <1>5, <2>1, <2>2, <2>3, PlainMoves
  <1>7. CASE job.provider = "succeeded"
    <2>1. PICK run : run = [p EXCEPT !.pc = "ingest", !.job = k, !.left = job.texts] /\ Become(w, run)
      BY <1>1, <1>3, <1>7 DEF PollJob, Collect
    <2>2. run.pc = "ingest" /\ run.job = k
      BY <1>1, <1>2, <2>1 DEF BatchFields
    <2>3. Doing(run, jobs)
      BY <1>3, <1>7, <2>2 DEF Doing, Reembeds
    <2>4. jobs' = jobs
      BY <1>3, <1>7 DEF PollJob
    <2> QED BY <1>5, <2>1, <2>3, <2>4, OnlyTypeMoves
  <1>8. CASE job.provider = "failed"
    <2>1. PICK run : run = [p EXCEPT !.todo = p.todo \ {k}] /\ Become(w, run)
      BY <1>1, <1>3, <1>8 DEF PollJob
    <2>2. Plain(run)
      BY <1>1, <1>2, <2>1 DEF BatchFields, Plain, Reembeds
    <2>3. PICK over : over = [job EXCEPT !.row = "failed"]
      OBVIOUS
    <2>4. over \in Job /\ over.texts = job.texts /\ over.row = "failed" /\ over.provider = "failed"
      BY <1>3, <1>8, <2>3 DEF Job
    <2>5. jobs' = [jobs EXCEPT ![k] = over]
      BY <1>3, <1>8, <2>3 DEF PollJob
    <2>6. Told(job, Id)
      BY <1>3 DEF IndexTyped
    <2>7. Told(over, Id)
      BY <2>4, <2>6 DEF Told
    <2>8. JobsGoOn
      BY <1>3, <1>5, <1>8, <2>4, <2>5, <2>7, JobGoesOn
    <2>9. Doing(run, jobs') /\ \A c \in Company : Sized(collection'[c])
      BY <1>5, <2>2, PlainDoing DEF IndexTyped
    <2> QED BY <2>1, <2>8, <2>9, TypeMoves
  <1> QED BY <1>4, <1>6, <1>7, <1>8

LEMMA CollectTyped ==
  ASSUME IndexInv, IndexTyped, NEW w \in Runner,
         (\E c \in Company : IngestUpsert(w, c)) \/ IngestMark(w) \/ MarkIngested(w)
  PROVE  IndexTyped'
  <1>1. PICK p : p = runner[w] /\ p.pc \in {"ingest", "ingested"}
    BY DEF IngestUpsert, IngestMark, MarkIngested
  <1>2. BatchFields \subseteq DOMAIN p /\ p.job \in DOMAIN jobs /\ jobs[p.job].provider = "succeeded"
    BY <1>1, CollectorDoes DEF Collecting
  <1>3. ASSUME NEW c \in Company, IngestUpsert(w, c)
        PROVE  IndexTyped'
    <2>1. UNCHANGED <<chunks, jobs>>
      BY <1>3 DEF IngestUpsert, Tables
    <2>2. PICK mine : /\ Upsert(c, Dim, ChunkPoints(mine))
                      /\ Become(w, [p EXCEPT !.pc = "ingested", !.texts = mine, !.left = p.left \ mine])
      BY <1>1, <1>3 DEF IngestUpsert
    <2>3. PICK run : run = [p EXCEPT !.pc = "ingested", !.texts = mine, !.left = p.left \ mine] /\ Become(w, run)
      BY <2>2
    <2>4. run.pc = "ingested" /\ run.job = p.job
      BY <1>2, <2>3 DEF BatchFields
    <2>5. Doing(run, jobs')
      BY <1>2, <2>1, <2>4 DEF Doing, Reembeds
    <2>6. JobsGoOn
      BY <2>1, JobsStay DEF Id
    <2>7. \A d \in Company : Sized(collection'[d])
      BY <2>2, UpsertSized
    <2> QED BY <2>3, <2>5, <2>6, <2>7, TypeMoves
  <1>4. CASE IngestMark(w)
    <2>1. PICK run : run = [p EXCEPT !.pc = "ingest", !.texts = {}] /\ Become(w, run)
      BY <1>1, <1>4 DEF IngestMark
    <2>2. run.pc = "ingest" /\ run.job = p.job
      BY <1>2, <2>1 DEF BatchFields
    <2>3. Doing(run, jobs)
      BY <1>2, <2>2 DEF Doing, Reembeds
    <2> QED BY <1>4, <2>1, <2>3, OnlyTypeMoves DEF IngestMark
  <1>5. CASE MarkIngested(w)
    <2>1. PICK k \in DOMAIN jobs : k = p.job
      BY <1>2
    <2>2. PICK job : job = jobs[k] /\ job \in Job /\ {"texts", "provider", "row"} \subseteq DOMAIN job
      BY JobIsOne DEF IndexInv
    <2>3. PICK over : over = [job EXCEPT !.row = "ingested"]
      OBVIOUS
    <2>4. over \in Job /\ over.texts = job.texts /\ over.row = "ingested" /\ over.provider = "succeeded"
      BY <1>2, <2>1, <2>2, <2>3 DEF Job
    <2>5. jobs' = [jobs EXCEPT ![k] = over]
      BY <1>1, <1>5, <2>1, <2>2, <2>3 DEF MarkIngested
    <2>6. Told(job, Id)
      BY <2>2 DEF IndexTyped
    <2>7. Told(over, Id)
      BY <2>4, <2>6 DEF Told
    <2>8. UNCHANGED <<chunks, collection>>
      BY <1>5 DEF MarkIngested, Tables
    <2>9. JobsGoOn
      BY <2>2, <2>4, <2>5, <2>7, <2>8, JobGoesOn
    <2>10. PICK run : run = NextJob(w) /\ Become(w, run)
      BY <1>5 DEF MarkIngested
    <2>11. run.pc = "poll"
      BY <1>1, <1>2, <2>10 DEF NextJob, BatchFields
    <2>12. Doing(run, jobs') /\ \A c \in Company : Sized(collection'[c])
      BY <2>8, <2>11 DEF Doing, Reembeds, IndexTyped
    <2> QED BY <2>9, <2>10, <2>12, TypeMoves
  <1> QED BY <1>3, <1>4, <1>5

LEMMA JobFailsTyped ==
  ASSUME IndexInv, IndexTyped, NEW w \in Runner, JobFails(w)
  PROVE  IndexTyped'
  <1>1. PICK p : p = runner[w] /\ p.pc \in Collecting
    BY DEF JobFails, Collecting
  <1>2. /\ BatchFields \subseteq DOMAIN p /\ p.todo \subseteq DOMAIN jobs
        /\ p.pc \in {"ingest", "ingested"} => p.job \in DOMAIN jobs
    BY <1>1, CollectorDoes
  <1>3. UNCHANGED <<chunks, collection>>
    BY DEF JobFails, Tables
  <1>4. PICK k, run : k \in DOMAIN jobs /\ UpdateState(k) /\ Become(w, run) /\ Plain(run)
    <2>1. CASE p.pc \in {"ingest", "ingested"} /\ UpdateState(p.job) /\ Become(w, NextJob(w))
      <3>1. PICK run : run = NextJob(w) /\ Become(w, run)
        BY <2>1
      <3>2. Plain(run)
        BY <1>1, <1>2, <3>1 DEF NextJob, BatchFields, Plain, Reembeds
      <3> QED BY <1>2, <2>1, <3>1, <3>2
    <2>2. ASSUME p.pc = "poll", NEW i \in p.todo, UpdateState(i), Become(w, [p EXCEPT !.todo = p.todo \ {i}])
          PROVE  \E k, run : k \in DOMAIN jobs /\ UpdateState(k) /\ Become(w, run) /\ Plain(run)
      <3>1. PICK run : run = [p EXCEPT !.todo = p.todo \ {i}] /\ Become(w, run)
        BY <2>2
      <3>2. Plain(run)
        BY <1>2, <2>2, <3>1 DEF BatchFields, Plain, Reembeds
      <3> QED BY <1>2, <2>2, <3>1, <3>2
    <2> QED BY <1>1, <2>1, <2>2 DEF JobFails
  <1>5. CASE jobs' = jobs
    BY <1>3, <1>4, <1>5, PlainMoves
  <1>6. CASE jobs' = [jobs EXCEPT ![k].row = "active"]
    <2>1. PICK job : job = jobs[k] /\ job \in Job /\ {"texts", "provider", "row"} \subseteq DOMAIN job
      BY <1>4, JobIsOne DEF IndexInv
    <2>2. PICK over : over = [job EXCEPT !.row = "active"]
      OBVIOUS
    <2>3. over \in Job /\ over.texts = job.texts /\ over.row = "active" /\ over.provider = job.provider
      BY <2>1, <2>2 DEF Job
    <2>4. jobs' = [jobs EXCEPT ![k] = over]
      BY <1>6, <2>1, <2>2
    <2>5. Told(job, Id)
      BY <1>4, <2>1 DEF IndexTyped
    <2>6. Told(over, Id)
      BY <2>3, <2>5 DEF Told
    <2>7. JobsGoOn
      BY <1>3, <1>4, <2>1, <2>3, <2>4, <2>6, JobGoesOn
    <2>8. Doing(run, jobs') /\ \A c \in Company : Sized(collection'[c])
      BY <1>3, <1>4, PlainDoing DEF IndexTyped
    <2> QED BY <1>4, <2>7, <2>8, TypeMoves
  <1> QED BY <1>4, <1>5, <1>6 DEF UpdateState

LEMMA SubmitTyped ==
  ASSUME IndexInv, IndexTyped, NEW w \in Runner, CollectRequests(w) \/ CreateEmbedBatch(w)
  PROVE  IndexTyped'
  <1>1. CASE CollectRequests(w)
    <2>1. PICK texts, wave, run : /\ run = Idle \/ run = [pc |-> "submit", texts |-> texts, wave |-> wave]
                                  /\ Become(w, run)
      BY <1>1 DEF CollectRequests
    <2>2. Plain(run)
      BY <2>1, IdlePlain DEF Plain, Reembeds
    <2> QED BY <1>1, <2>1, <2>2, PlainMoves DEF CollectRequests, Tables
  <1>2. CASE CreateEmbedBatch(w)
    <2>1. PICK p : p = runner[w] /\ p.pc = "submit" /\ Task(p)
      BY <1>2, TaskIs DEF CreateEmbedBatch
    <2>2. SubmitFields \subseteq DOMAIN p
      BY <2>1, SubmitterIs DEF Submitters
    <2>3. PICK run : run = [p EXCEPT !.pc = "record"] /\ Become(w, run)
      BY <1>2, <2>1 DEF CreateEmbedBatch
    <2>4. Plain(run)
      BY <2>2, <2>3 DEF Plain, Reembeds, SubmitFields
    <2> QED BY <1>2, <2>3, <2>4, PlainMoves DEF CreateEmbedBatch, Tables
  <1> QED BY <1>1, <1>2

LEMMA InsertJobTyped ==
  ASSUME IndexInv, IndexTyped, NEW w \in Runner, InsertJob(w)
  PROVE  IndexTyped'
  <1>1. PICK p : p = runner[w] /\ p.pc = "record" /\ Task(p)
    BY TaskIs DEF InsertJob
  <1>2. SubmitFields \subseteq DOMAIN p /\ \A t \in p.texts : Listed(t)
    BY <1>1, SubmitterIs DEF Submitters
  <1>3. PICK requests : requests = ChunkRequests(p) /\ requests \subseteq p.texts
    BY DEF ChunkRequests
  <1>4. PICK rest : rest = [p EXCEPT !.pc = "submit", !.texts = p.texts \ requests]
    OBVIOUS
  <1>5. PICK run : (run = Idle \/ run = rest) /\ Become(w, run)
    BY <1>1, <1>3, <1>4 DEF InsertJob, Submitted, Submitting
  <1>6. Plain(run)
    BY <1>2, <1>4, <1>5, IdlePlain DEF Plain, Reembeds, SubmitFields
  <1>7. UNCHANGED <<chunks, collection>>
    BY DEF InsertJob, Tables
  <1>8. CASE jobs' = jobs
    BY <1>5, <1>6, <1>7, <1>8, PlainMoves
  <1>9. CASE jobs' = Append(jobs, [texts |-> requests, provider |-> "pending", row |-> "active"])
    <2>1. PICK job : job = [texts |-> requests, provider |-> "pending", row |-> "active"]
      OBVIOUS
    <2>2. job \in Job /\ job.texts = requests /\ job.row = "active"
      BY <1>2, <1>3, <2>1 DEF Job, Listed
    <2>3. PICK n \in Nat : n = Len(jobs) /\ jobs \in Seq(Job) /\ DOMAIN jobs = 1..n
      BY DEF IndexInv, IndexTables
    <2>4. /\ jobs' \in Seq(Job) /\ DOMAIN jobs' = 1..(n + 1) /\ jobs'[n + 1] = job
          /\ \A i \in 1..n : jobs'[i] = jobs[i]
      BY <1>9, <2>1, <2>2, <2>3
    <2>5. Told(job, Id) /\ Id' = Id
      BY <1>2, <1>3, <1>7, <2>2 DEF Told, Listed, Id
    <2>6. \A i \in 1..n : Told(jobs[i], Id)
      BY <2>3 DEF IndexTyped
    <2>7. ASSUME NEW i \in 1..(n + 1)
          PROVE  Told(jobs'[i], Id)
      <3>1. i \in 1..n \/ i = n + 1
        OBVIOUS
      <3> QED BY <2>4, <2>5, <2>6, <3>1
    <2>8. 1..n \subseteq 1..(n + 1)
      OBVIOUS
    <2>9. JobsGoOn
      BY <2>3, <2>4, <2>5, <2>7, <2>8 DEF JobsGoOn
    <2>10. Doing(run, jobs') /\ \A c \in Company : Sized(collection'[c])
      BY <1>6, <1>7, PlainDoing DEF IndexTyped
    <2> QED BY <1>5, <2>9, <2>10, TypeMoves
  <1> QED BY <1>1, <1>3, <1>8, <1>9 DEF InsertJob

LEMMA ProviderEndsTyped ==
  ASSUME IndexInv, IndexTyped, NEW k \in DOMAIN jobs, ProviderEnds(k)
  PROVE  IndexTyped'
  <1>1. PICK job : job = jobs[k] /\ job \in Job /\ {"texts", "provider", "row"} \subseteq DOMAIN job
    BY JobIsOne DEF IndexInv
  <1>2. Told(job, Id) /\ job.provider = "pending" /\ job.row \in {"active", "ingested", "failed"}
    BY <1>1 DEF IndexTyped, ProviderEnds, Job
  <1>3. job.row = "active"
    BY <1>2 DEF Told
  <1>4. PICK over : /\ jobs' = [jobs EXCEPT ![k] = over]
                    /\ over \in Job /\ over.texts \subseteq job.texts /\ over.row = job.row
    <2>1. ASSUME NEW done \in SUBSET job.texts,
                 jobs' = [jobs EXCEPT ![k].texts = done, ![k].provider = "succeeded"]
          PROVE  \E over : /\ jobs' = [jobs EXCEPT ![k] = over]
                           /\ over \in Job /\ over.texts \subseteq job.texts /\ over.row = job.row
      <3>1. PICK over : over = [[job EXCEPT !.texts = done] EXCEPT !.provider = "succeeded"]
        OBVIOUS
      <3>2. over \in Job /\ over.texts = done /\ over.row = job.row
        BY <1>1, <2>1, <3>1 DEF Job
      <3>3. jobs' = [jobs EXCEPT ![k] = over]
        BY <1>1, <2>1, <3>1
      <3> QED BY <2>1, <3>2, <3>3
    <2>2. CASE jobs' = [jobs EXCEPT ![k].provider = "failed"]
      <3>1. PICK over : over = [job EXCEPT !.provider = "failed"]
        OBVIOUS
      <3>2. over \in Job /\ over.texts = job.texts /\ over.row = job.row
        BY <1>1, <3>1 DEF Job
      <3>3. jobs' = [jobs EXCEPT ![k] = over]
        BY <1>1, <2>2, <3>1
      <3> QED BY <3>2, <3>3
    <2> QED BY <1>1, <2>1, <2>2 DEF ProviderEnds, Results
  <1>5. Told(over, Id)
    BY <1>2, <1>3, <1>4 DEF Told
  <1>6. UNCHANGED <<chunks, collection, runner>>
    BY DEF ProviderEnds, Tables
  <1>7. JobsGoOn
    BY <1>1, <1>2, <1>4, <1>5, <1>6, JobGoesOn
  <1>8. ASSUME NEW w \in Runner
        PROVE  Doing(runner[w], jobs')
    <2>1. PICK p : p = runner[w] /\ Shaped(p) /\ Doing(p, jobs)
      BY TaskIs DEF Task, IndexTyped
    <2>2. p.pc \in {"ingest", "ingested"} => p.job \in DOMAIN jobs
      BY <2>1 DEF Shaped
    <2> QED BY <1>7, <2>1, <2>2 DEF Doing, JobsGoOn
  <1> QED BY <1>6, <1>7, <1>8 DEF IndexTyped, JobsGoOn

-----------------------------------------------------------------------------
LEMMA ReembedTyped ==
  ASSUME IndexInv, IndexTyped, NEW w \in Runner,
         InspectDimension(w) \/ ReconcileDimension(w) \/ ReembedReport(w)
  PROVE  IndexTyped'
  <1>1. PICK p : p = runner[w] /\ p.pc \in Reembeds /\ Shaped(p) /\ Doing(p, jobs)
    BY TaskIs DEF Task, IndexTyped, InspectDimension, ReconcileDimension, ReembedReport, Reembeds
  <1>2. PICK dim \in {Dim, OtherDim} : dim = p.dim
    BY <1>1 DEF Doing
  <1>3. ReembedFields \subseteq DOMAIN p /\ p.company \in Company
    BY <1>1 DEF Shaped
  <1>4. UNCHANGED <<chunks, jobs>>
    BY DEF InspectDimension, ReconcileDimension, ReembedReport, Tables
  <1>5. JobsGoOn
    BY <1>4, JobsStay DEF Id
  <1>6. PICK run : Become(w, run) /\ Doing(run, jobs')
    <2>1. CASE InspectDimension(w)
      <3>1. PICK now, run : run = [p EXCEPT !.pc = now] /\ now \in {"recreate", "ensure"} /\ Become(w, run)
        BY <1>1, <2>1 DEF InspectDimension
      <3>2. run.pc \in {"recreate", "ensure"} /\ run.dim = dim
        BY <1>2, <1>3, <3>1 DEF ReembedFields
      <3>3. Doing(run, jobs')
        BY <1>2, <3>2 DEF Doing
      <3> QED BY <3>1, <3>3
    <2>2. CASE ReconcileDimension(w)
      <3>1. PICK run : run = [p EXCEPT !.pc = "report", !.todo = ReadReports(p.company)] /\ Become(w, run)
        BY <1>1, <2>2 DEF ReconcileDimension
      <3>2. run.pc = "report" /\ run.dim = dim
        BY <1>2, <1>3, <3>1 DEF ReembedFields
      <3>3. Doing(run, jobs')
        BY <1>2, <3>2 DEF Doing
      <3> QED BY <3>1, <3>3
    <2>3. CASE ReembedReport(w)
      <3>1. PICK r, run : (run = Idle \/ run = [p EXCEPT !.todo = p.todo \ {r}]) /\ Become(w, run)
        BY <1>1, <2>3 DEF ReembedReport
      <3>2. p.pc = "report"
        BY <1>1, <2>3 DEF ReembedReport
      <3>3. CASE run = Idle
        BY <3>1, <3>3, IdlePlain, PlainDoing
      <3>4. CASE run = [p EXCEPT !.todo = p.todo \ {r}]
        <4>1. run.pc = "report" /\ run.dim = dim
          BY <1>2, <1>3, <3>2, <3>4 DEF ReembedFields
        <4>2. Doing(run, jobs')
          BY <1>2, <4>1 DEF Doing
        <4> QED BY <3>1, <4>2
      <3> QED BY <3>1, <3>3, <3>4
    <2> QED BY <2>1, <2>2, <2>3
  <1>7. \A c \in Company : Sized(collection'[c])
    <2>1. CASE UNCHANGED collection
      BY <2>1 DEF IndexTyped
    <2>2. CASE \E r : Upsert(p.company, dim, ReportPoints(r))
      BY <1>3, <2>2, UpsertSized
    <2>3. CASE ReconcileDimension(w)
      <3>1. PICK c \in Company : c = p.company
        BY <1>3
      <3>2. PICK old : old = collection[c] /\ {"dim", "points"} \subseteq DOMAIN old /\ Sized(old)
        BY DEF IndexInv, IndexTables, IndexTyped
      <3>3. PICK coll : /\ coll = RecreateCollection(dim) \/ coll = EnsureCollection(old, dim)
                        /\ collection' = [collection EXCEPT ![c] = coll]
        BY <1>1, <1>2, <2>3, <3>1, <3>2 DEF ReconcileDimension
      <3>4. dim # 0
        BY VectorIndexAssumption
      <3>5. ASSUME coll = RecreateCollection(dim)
            PROVE  Sized(coll)
        BY <3>4, <3>5 DEF RecreateCollection, Sized
      <3>6. ASSUME coll = EnsureCollection(old, dim)
            PROVE  Sized(coll)
        <4>1. CASE old.dim = 0
          <5>1. coll = [old EXCEPT !.dim = dim]
            BY <3>6, <4>1 DEF EnsureCollection
          <5>2. coll.dim = dim
            BY <3>2, <5>1
          <5> QED BY <3>4, <5>2 DEF Sized
        <4>2. CASE old.dim # 0
          BY <3>2, <3>6, <4>2 DEF EnsureCollection
        <4> QED BY <4>1, <4>2
      <3>7. Sized(coll)
        BY <3>3, <3>5, <3>6
      <3>8. collection'[c] = coll /\ \A d \in Company \ {c} : collection'[d] = collection[d]
        BY <3>3 DEF IndexInv, IndexTables
      <3> QED BY <3>7, <3>8 DEF IndexTyped
    <2>4. UNCHANGED collection \/ (\E r : Upsert(p.company, dim, ReportPoints(r))) \/ ReconcileDimension(w)
      BY <1>1, <1>2 DEF InspectDimension, ReembedReport
    <2> QED BY <2>1, <2>2, <2>3, <2>4
  <1> QED BY <1>5, <1>6, <1>7, TypeMoves

LEMMA EditTyped ==
  ASSUME IndexInv, IndexTyped, NEW e \in Id, Edit(e)
  PROVE  IndexTyped'
  <1>1. UNCHANGED <<collection, runner, jobs>>
    BY DEF Edit
  <1>2. Id' = Id
    BY DEF Edit, Id
  <1> QED BY <1>1, <1>2 DEF IndexTyped

LEMMA StepsTyped ==
  ASSUME IndexInv, IndexTyped, NEW w \in Runner, Step(w)
  PROVE  IndexTyped'
  <1>1. CASE FindArticle(w) \/ InsertArticle(w)
    BY <1>1, IngestTyped
  <1>2. CASE NextBatch(w) \/ IndexUpsert(w) \/ IndexMark(w) \/ UpsertRefused(w)
    BY <1>2, IndexingTyped, EndsTyped
  <1>3. CASE \E k \in DOMAIN jobs : PollJob(w, k)
    BY <1>3, PollJobTyped
  <1>4. CASE (\E c \in Company : IngestUpsert(w, c)) \/ IngestMark(w) \/ MarkIngested(w)
    BY <1>4, CollectTyped
  <1>5. CASE CollectRequests(w) \/ CreateEmbedBatch(w) \/ InsertJob(w)
    BY <1>5, SubmitTyped, InsertJobTyped
  <1>6. CASE InspectDimension(w) \/ ReconcileDimension(w) \/ ReembedReport(w)
    BY <1>6, ReembedTyped
  <1> QED BY <1>1, <1>2, <1>3, <1>4, <1>5, <1>6 DEF Step

LEMMA IndexNextTyped == IndexInv /\ IndexTyped /\ [IndexNext]_indexVars => IndexTyped'
  <1> SUFFICES ASSUME IndexInv, IndexTyped, [IndexNext]_indexVars
               PROVE  IndexTyped'
    OBVIOUS
  <1>1. ASSUME NEW w \in Runner, Step(w)
        PROVE  IndexTyped'
    BY <1>1, StepsTyped
  <1>2. ASSUME NEW w \in Runner, JobFails(w) \/ Abort(w) \/ UpsertTorn(w)
        PROVE  IndexTyped'
    BY <1>2, JobFailsTyped, EndsTyped, IndexingTyped
  <1>3. ASSUME NEW w \in Runner, NEW c \in Company,
               \/ StartIngest(w, c) \/ StartRefresh(w, c)
               \/ \E dim \in {Dim, OtherDim} : StartReembed(w, c, dim)
        PROVE  IndexTyped'
    BY <1>3, StartsTyped
  <1>4. ASSUME NEW w \in Runner, NEW cs \in Scopes, NEW collects \in BOOLEAN, StartBatch(w, cs, collects)
        PROVE  IndexTyped'
    BY <1>4, StartsTyped
  <1>5. ASSUME NEW k \in DOMAIN jobs, ProviderEnds(k)
        PROVE  IndexTyped'
    BY <1>5, ProviderEndsTyped
  <1>6. ASSUME NEW id \in Id, Edit(id)
        PROVE  IndexTyped'
    BY <1>6, EditTyped
  <1>7. CASE UNCHANGED indexVars
    BY <1>7 DEF indexVars, IndexTyped, Id
  <1> QED BY <1>1, <1>2, <1>3, <1>4, <1>5, <1>6, <1>7 DEF IndexNext

LEMMA IndexInitTyped == IndexInit => IndexTyped
  <1> SUFFICES ASSUME IndexInit
               PROVE  IndexTyped
    OBVIOUS
  <1>1. DOMAIN jobs = {}
    BY DEF IndexInit
  <1>2. \A w \in Runner : Doing(runner[w], jobs)
    BY IdlePlain, PlainDoing DEF IndexInit
  <1>3. \A c \in Company : Sized(collection[c])
    BY DEF IndexInit, Absent, Sized
  <1> QED BY <1>1, <1>2, <1>3 DEF IndexTyped

(***************************************************************************)
(* The index keeps its type: a collection is empty until it has one of the *)
(* two dimensions, an article is inserted only for a report that is left,  *)
(* a job holds chunks there are, and its row says it was ingested or       *)
(* failed only when the provider ended it so.                              *)
(***************************************************************************)
THEOREM IndexTypeCorrect == IndexSpec => []IndexTypeOK
  <1>1. IndexInv /\ IndexTyped => IndexTypeOK
    <2> SUFFICES ASSUME IndexInv, IndexTyped
                 PROVE  IndexTypeOK
      OBVIOUS
    <2>1. chunks \in Seq(ChunkRow) /\ embedded \in [Id -> Nat]
      BY DEF IndexInv, IndexTables, Id
    <2>2. ASSUME NEW k \in DOMAIN jobs
          PROVE  /\ IdsOf(jobs[k].texts) \subseteq Id
                 /\ jobs[k].row \in {"ingested", "failed"} =>
                       jobs[k].provider = IF jobs[k].row = "failed" THEN "failed" ELSE "succeeded"
      BY DEF IndexTyped, Told, IdsOf
    <2> QED BY <2>1, <2>2 DEF IndexTypeOK, IndexTyped, Sized, Doing, ChunkRow
  <1>2. IndexInit => IndexInv /\ IndexTyped
    BY IndexInitHolds, IndexInitTyped
  <1>3. IndexInv /\ IndexTyped /\ [IndexNext]_indexVars => (IndexInv /\ IndexTyped)'
    BY IndexNextKeeps, IndexNextTyped
  <1> QED BY <1>1, <1>2, <1>3, PTL DEF IndexSpec

-----------------------------------------------------------------------------
(***************************************************************************)
(* The poller and the tasks of the knowledge base run in one process and   *)
(* share no state: what is said of each holds when they run together.      *)
(***************************************************************************)
THEOREM BackgroundStaysApart == MCSpec => GmailSpec /\ IndexSpec
  <1>1. MCInit => GmailInit /\ IndexInit
    BY DEF MCInit
  <1>2. [MCNext]_<<gmailVars, indexVars>> => [GmailNext]_gmailVars /\ [IndexNext]_indexVars
    BY DEF MCNext
  <1> QED BY <1>1, <1>2, PTL DEF MCSpec, GmailSpec, IndexSpec

(***************************************************************************)
(* So the variables of both keep their types.                              *)
(***************************************************************************)
THEOREM BackgroundTypeCorrect == MCSpec => []MCTypeOK
  <1>1. GmailTypeOK /\ IndexTypeOK => MCTypeOK
    BY DEF MCTypeOK
  <1> QED BY <1>1, BackgroundStaysApart, GmailTypeCorrect, IndexTypeCorrect, PTL
====
