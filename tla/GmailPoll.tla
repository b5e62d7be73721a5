------------------------------- MODULE GmailPoll -------------------------------
(***************************************************************************)
(* The Gmail poller (cmd/gmailpoll, internal/gmailconn): one process that  *)
(* goes through the connected accounts tick after tick, asks Gmail for     *)
(* what was added to the inbox since the history id it stored, forwards it *)
(* to the inbound API and stores the new history id.  Meanwhile mail       *)
(* arrives, owners revoke their consent and connect again, and the process *)
(* may stop.                                                               *)
(***************************************************************************)
EXTENDS Integers, FiniteSets, Sequences, SequencesExt

CONSTANTS
    Mailbox,    \* connected accounts
    Mail,       \* messages that may arrive
    AccountOf,  \* [Mail -> Mailbox]
    Ignored,    \* messages that do not parse, or that the system itself sent
    SeenCap,    \* seenCap, 500 in the code
    RecentCap,  \* maxResults of the fallback, 50 in the code
    Faults,     \* the failures that may happen
    MaxFaults,  \* bound: failures and stops
    MaxRevokes  \* bound: consents withdrawn

(***************************************************************************)
(* token: the token endpoint fails for now.  history: a call for the       *)
(* history, the recent messages or the profile fails.  aged: Gmail has     *)
(* forgotten the history id (404).  forward: the message cannot be         *)
(* fetched, or the API does not accept it.  save: MySQL refuses a write.   *)
(* stop: the process stops.                                                *)
(***************************************************************************)
FaultKind == {"token", "history", "aged", "forward", "save", "stop"}

ASSUME GmailAssumption ==
    /\ Mailbox # {} /\ AccountOf \in [Mail -> Mailbox] /\ Ignored \subseteq Mail
    /\ SeenCap \in Nat \ {0} /\ RecentCap \in Nat \ {0}
    /\ Faults \subseteq FaultKind /\ MaxFaults \in Nat /\ MaxRevokes \in Nat

VARIABLES
    \* Gmail and the accounts in MySQL
    box,      \* the messages of an account in the order of arrival
    token,    \* the refresh token of an account, by number
    valid,    \* accounts whose consent stands
    lastId,   \* oauth_history_id, 0 when empty
    state,    \* oauth_state
    \* the poller
    pc,       \* the call it is about to make
    todo,     \* accounts of this tick that are left, as ListOAuthGmail read them
    acc,      \* the account in hand
    ids,      \* message ids that are left
    fresh,    \* newHistoryID
    seen,     \* seenSet of every account
    \* what has become of a message
    sent,     \* times this process heard that the API accepted it
    settled,  \* accepted or ignored by this process or an earlier one
    failed,   \* forwarded in vain at least once, as far as the poller knows
    unlisted, \* of the tick: in the inbox, but not in what the fallback listed
    passed,   \* passed by a history id that came from the fallback
    faults    \* failures so far

mailboxes == <<box, token, valid, lastId, state>>
tick == <<todo, acc, ids, fresh, unlisted>>
fate == <<sent, settled, failed, passed>>
gmailVars == <<mailboxes, pc, tick, seen, fate, faults>>

Row == [acct: Mailbox, start: Nat, token: Nat]

GmailTypeOK ==
    /\ box \in [Mailbox -> Seq(Mail)]
    /\ token \in [Mailbox -> Nat] /\ valid \subseteq Mailbox
    /\ lastId \in [Mailbox -> Nat] /\ state \in [Mailbox -> {"ok", "needs_reconnect"}]
    /\ pc \in {"wait", "next", "token", "history", "recent", "profile", "batch", "save"}
    /\ todo \subseteq Row /\ acc \in Row
    /\ ids \in Seq(Mail) /\ fresh \in Nat /\ unlisted \subseteq Mail
    /\ seen \in [Mailbox -> Seq(Mail)]
    /\ \A a \in Mailbox : Len(seen[a]) <= SeenCap
    /\ sent \in [Mail -> Nat]
    /\ settled \subseteq Mail /\ failed \subseteq Mail /\ passed \subseteq Mail
    /\ faults \in 0..MaxFaults

NoRow == [acct |-> CHOOSE a \in Mailbox : TRUE, start |-> 0, token |-> 0]

GmailInit ==
    /\ box = [a \in Mailbox |-> <<>>]
    /\ token = [a \in Mailbox |-> 0] /\ valid = Mailbox
    /\ lastId = [a \in Mailbox |-> 0] /\ state = [a \in Mailbox |-> "ok"]
    /\ pc = "wait" /\ todo = {} /\ acc = NoRow
    /\ ids = <<>> /\ fresh = 0 /\ unlisted = {}
    /\ seen = [a \in Mailbox |-> <<>>]
    /\ sent = [m \in Mail |-> 0]
    /\ settled = {} /\ failed = {} /\ passed = {} /\ faults = 0

-----------------------------------------------------------------------------
Arrived == UNION {ToSet(box[a]) : a \in Mailbox}

\* The current history id of an account; the messages below an id.
HistoryId(a) == Len(box[a]) + 1

Below(a, id) == {box[a][k] : k \in 1..(id - 1)}

MayFault(kind) == kind \in Faults /\ faults < MaxFaults /\ faults' = faults + 1

\* pollAccount returns, and the next account is polled.
NextAccount ==
    /\ pc' = "next" /\ acc' = NoRow
    /\ ids' = <<>> /\ fresh' = 0 /\ unlisted' = {}

\* A tick starts: ListOAuthGmail, an error of which is no step.
ListAccounts ==
    /\ pc = "wait"
    /\ todo' = {[acct |-> a, start |-> lastId[a], token |-> token[a]] : a \in Mailbox}
    /\ pc' = "next"
    /\ UNCHANGED <<mailboxes, acc, ids, fresh, unlisted, seen, fate, faults>>

PollAccount ==
    /\ pc = "next"
    /\ \/ \E row \in todo : acc' = row /\ todo' = todo \ {row} /\ pc' = "token"
       \/ todo = {} /\ pc' = "wait" /\ UNCHANGED <<acc, todo>>
    /\ UNCHANGED <<mailboxes, ids, fresh, unlisted, seen, fate, faults>>

(***************************************************************************)
(* AccessToken.  A cached access token may outlive the consent; without    *)
(* one Google rejects the refresh token that was listed, if the consent    *)
(* was withdrawn or given anew since, and MarkOAuthState records it.       *)
(***************************************************************************)
Rejected == acc.acct \notin valid \/ acc.token # token[acc.acct]

NothingMarked == UNCHANGED <<state, faults>>

MarkNeedsReconnect ==
    \/ state' = [state EXCEPT ![acc.acct] = "needs_reconnect"] /\ UNCHANGED faults
    \/ MayFault("save") /\ UNCHANGED state

RejectedEndsTick ==
    /\ Rejected /\ MarkNeedsReconnect
    /\ pc' = "wait" /\ todo' = {} /\ acc' = NoRow
    /\ UNCHANGED <<ids, fresh, unlisted>>

TokenRejected == Rejected /\ MarkNeedsReconnect /\ NextAccount /\ UNCHANGED todo

AccessToken ==
    /\ pc = "token"
    /\ \/ pc' = "history" /\ UNCHANGED <<state, tick, faults>>
       \/ MayFault("token") /\ NextAccount /\ UNCHANGED <<state, todo>>
       \/ TokenRejected
    /\ UNCHANGED <<box, token, valid, lastId, seen, fate>>

(***************************************************************************)
(* History: what was added since the stored id, in the order of arrival.   *)
(* An account without an id, and one whose id has aged out, fall back to   *)
(* the recent messages: the newest RecentCap of those younger than a day,  *)
(* and the history id of the profile, asked for afterwards.                *)
(***************************************************************************)
CallFails == MayFault("history") /\ NextAccount

FallBack ==
    /\ \/ acc.start = 0 /\ UNCHANGED faults
       \/ acc.start > 0 /\ MayFault("aged")
    /\ pc' = "recent" /\ UNCHANGED <<acc, ids, fresh, unlisted>>

HistoryFirstPage ==
    /\ pc = "history"
    /\ \/ /\ acc.start > 0
          /\ ids' = SubSeq(box[acc.acct], acc.start, Min({acc.start, Len(box[acc.acct])}))
          /\ fresh' = HistoryId(acc.acct)
          /\ pc' = "batch" /\ UNCHANGED <<acc, unlisted, faults>>
       \/ FallBack \/ CallFails
    /\ UNCHANGED <<mailboxes, todo, seen, fate>>

History ==
    /\ pc = "history"
    /\ \/ /\ acc.start > 0
          /\ ids' = SubSeq(box[acc.acct], acc.start, Len(box[acc.acct]))
          /\ fresh' = HistoryId(acc.acct)
          /\ pc' = "batch" /\ UNCHANGED <<acc, unlisted, faults>>
       \/ FallBack \/ CallFails
    /\ UNCHANGED <<mailboxes, todo, seen, fate>>

FallbackRecent ==
    /\ pc = "recent"
    /\ \/ /\ \E n \in 0..Len(box[acc.acct]) :
                /\ n <= RecentCap
                /\ ids' = Reverse(SubSeq(box[acc.acct], Len(box[acc.acct]) - n + 1,
                                         Len(box[acc.acct])))
          /\ pc' = "profile" /\ UNCHANGED <<acc, fresh, unlisted, faults>>
       \/ CallFails
    /\ UNCHANGED <<mailboxes, todo, seen, fate>>

Profile ==
    /\ pc = "profile"
    /\ \/ /\ fresh' = HistoryId(acc.acct)
          /\ unlisted' = ToSet(box[acc.acct]) \ ToSet(ids)
          /\ pc' = "batch" /\ UNCHANGED <<acc, ids, faults>>
       \/ CallFails
    /\ UNCHANGED <<mailboxes, todo, seen, fate>>

-----------------------------------------------------------------------------
(***************************************************************************)
(* The messages of the batch.  seenSet.Add drops the oldest entry when it  *)
(* is full.                                                                *)
(***************************************************************************)
AddUncapped(s, m) == IF Contains(s, m) THEN s ELSE Append(s, m)

Add(s, m) == IF Contains(s, m) THEN s ELSE
             Append(IF Len(s) = SeenCap THEN Tail(s) ELSE s, m)

MarkSeen(m) == seen' = [seen EXCEPT ![acc.acct] = Add(@, m)]

Skip(m) == Contains(seen[acc.acct], m) /\ UNCHANGED <<seen, fate, faults>>

Ignore(m) ==
    /\ m \in Ignored /\ MarkSeen(m)
    /\ settled' = settled \cup {m}
    /\ UNCHANGED <<sent, failed, passed, faults>>

AcceptUnmarked(m) ==
    /\ m \notin Ignored
    /\ sent' = [sent EXCEPT ![m] = @ + 1]
    /\ settled' = settled \cup {m}
    /\ UNCHANGED <<seen, failed, passed, faults>>

Accept(m) ==
    /\ m \notin Ignored /\ MarkSeen(m)
    /\ sent' = [sent EXCEPT ![m] = @ + 1]
    /\ settled' = settled \cup {m}
    /\ UNCHANGED <<failed, passed, faults>>

\* Not fetched, not accepted, or accepted without an answer: all the same here.
ForwardFails(m) ==
    /\ MayFault("forward")
    /\ failed' = failed \cup {m}
    /\ UNCHANGED <<seen, sent, settled, passed>>

Forward ==
    /\ pc = "batch" /\ ids # <<>>
    /\ LET m == Head(ids) IN
          \/ Skip(m)
          \/ ~Contains(seen[acc.acct], m) /\ (Ignore(m) \/ Accept(m) \/ ForwardFails(m))
    /\ ids' = Tail(ids)
    /\ UNCHANGED <<mailboxes, pc, todo, acc, fresh, unlisted>>

BatchDone ==
    /\ pc = "batch" /\ ids = <<>>
    /\ pc' = "save"
    /\ UNCHANGED <<mailboxes, tick, seen, fate, faults>>

\* The new history id is stored whatever became of the messages.
SaveHistoryID ==
    /\ pc = "save"
    /\ \/ /\ lastId' = [lastId EXCEPT ![acc.acct] = fresh]
          /\ passed' = passed \cup unlisted
          /\ UNCHANGED faults
       \/ MayFault("save") /\ UNCHANGED <<lastId, passed>>
    /\ NextAccount
    /\ UNCHANGED <<box, token, valid, state, todo, seen, sent, settled, failed>>

\* The process stops, in a tick or between two, and starts again.
Stop ==
    /\ MayFault("stop")
    /\ pc' = "wait" /\ todo' = {} /\ acc' = NoRow
    /\ ids' = <<>> /\ fresh' = 0 /\ unlisted' = {}
    /\ seen' = [a \in Mailbox |-> <<>>]
    /\ sent' = [m \in Mail |-> 0]
    /\ UNCHANGED <<mailboxes, settled, failed, passed>>

Poll ==
    \/ ListAccounts \/ PollAccount \/ AccessToken \/ History \/ FallbackRecent \/ Profile
    \/ Forward \/ BatchDone \/ SaveHistoryID

-----------------------------------------------------------------------------
(***************************************************************************)
(* Gmail and the owners of the accounts.                                   *)
(***************************************************************************)
Arrive(m) ==
    /\ m \notin Arrived
    /\ box' = [box EXCEPT ![AccountOf[m]] = Append(@, m)]
    /\ UNCHANGED <<token, valid, lastId, state, pc, tick, seen, fate, faults>>

\* Every consent given anew was withdrawn before.
Withdrawals == MapThenSumSet(LAMBDA a : token[a], Mailbox) + Cardinality(Mailbox \ valid)

Revoke(a) ==
    /\ a \in valid /\ Withdrawals < MaxRevokes
    /\ valid' = valid \ {a}
    /\ UNCHANGED <<box, token, lastId, state, pc, tick, seen, fate, faults>>

\* The consent flow of the main application.
Reconnect(a) ==
    /\ a \notin valid
    /\ valid' = valid \cup {a} /\ token' = [token EXCEPT ![a] = @ + 1]
    /\ state' = [state EXCEPT ![a] = "ok"]
    /\ UNCHANGED <<box, lastId, pc, tick, seen, fate, faults>>

Outside ==
    \/ \E m \in Mail : Arrive(m)
    \/ \E a \in Mailbox : Revoke(a) \/ Reconnect(a)

GmailNext == Poll \/ Stop \/ Outside

GmailSpec == GmailInit /\ [][GmailNext]_gmailVars

\* The ticker fires for ever, and every call has a timeout.  A cached access token
\* expires within the hour, so a rejected refresh token is noticed in the end.
GmailFairSpec ==
    /\ GmailSpec
    /\ WF_gmailVars(Poll)
    /\ \A a \in Mailbox : SF_gmailVars(AccessToken /\ acc.acct = a /\ TokenRejected)

-----------------------------------------------------------------------------
(***************************************************************************)
(* Properties.                                                             *)
(***************************************************************************)

(***************************************************************************)
(* TestPollAccountDedupeOnRepeatHistory: a message is not forwarded again  *)
(* because a history id could not be stored or a fallback lists it anew.   *)
(* The process hears of two acceptances only if the account has had more   *)
(* messages than the seen set holds.                                       *)
(***************************************************************************)
Handled(a) == {m \in settled : AccountOf[m] = a}

AcceptedOnce ==
    \A m \in Mail : sent[m] > 1 => Cardinality(Handled(AccountOf[m])) > SeenCap

(***************************************************************************)
(* "last Gmail historyId processed for this account" (OAuthAccount): below *)
(* the stored history id every message is settled, but for those that      *)
(* were forwarded in vain and those a fallback did not list.               *)
(***************************************************************************)
NothingPassedOver ==
    \A a \in Mailbox : Below(a, lastId[a]) \subseteq settled \cup failed \cup passed

(***************************************************************************)
(* The same of the messages that failed: they are not passed over either.  *)
(***************************************************************************)
HistoryIsProcessed ==
    \A a \in Mailbox : Below(a, lastId[a]) \subseteq settled \cup passed

(***************************************************************************)
(* pollAccount: "one account's failure must never stop the other accounts  *)
(* in the batch from being polled".  Every message is dealt with unless    *)
(* its own account has lost its consent, whatever happens to the others.   *)
(***************************************************************************)
EveryMessageHandled ==
    \A m \in Mail : []<>(\/ m \in Arrived => m \in settled \cup failed \cup passed
                         \/ AccountOf[m] \notin valid)

(***************************************************************************)
(* ErrNeedsReconnect: an account whose consent stays withdrawn is shown as *)
(* one that needs to be connected again.                                   *)
(***************************************************************************)
RevocationIsShown ==
    \A a \in Mailbox : []<>(a \notin valid => state[a] = "needs_reconnect")

(***************************************************************************)
(* Both: what the other accounts of a tick go through keeps no account     *)
(* from being read or from being shown as lost.                            *)
(***************************************************************************)
EveryAccountServed == EveryMessageHandled /\ RevocationIsShown

===============================================================================
