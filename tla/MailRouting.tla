------------------------------ MODULE MailRouting ------------------------------
(***************************************************************************)
(* The webhook of the channels, around the storing of a message (Inbound): *)
(* the signature of a webhook, its events, the account an event belongs    *)
(* to, the mails that verify an account or confirm a forwarding and never  *)
(* reach a conversation, the files handed to the main application, and the *)
(* customer suggested for a conversation.  Goroutines serve webhooks at    *)
(* once while the main application changes accounts.                       *)
(***************************************************************************)
EXTENDS Naturals, Sequences, SequencesExt, FiniteSets

CONSTANTS
    Receiver,              \* goroutines that serve a webhook
    Account, Registered, \* rows of channel_accounts, and the columns of them nobody changes
    Hook,                \* webhooks: channel, signature and events
    EnvSecret,           \* LINE secret of the environment, "" = none
    Cases,               \* company and customer (0 = none) of a case
    SenderCustomer,      \* customer a company has for a sender
    MaxAttachmentBytes,  \* of the files of a mail
    RoutingPlans         \* bounds: the webhooks sent, and what may happen how often

RoutingKinds == {"send", "fault", "change"}

ASSUME RoutingAssumption ==
    /\ DOMAIN Registered = Account
    /\ \A a \in Account : Registered[a].channel \in {"line", "email"} /\ Registered[a].verified \in BOOLEAN
    /\ \A h \in Hook : /\ DOMAIN h.events \subseteq Nat
                       /\ \A k \in DOMAIN h.events :
                             1 \in DOMAIN h.events[k].to /\ DOMAIN h.events[k].to \subseteq Nat
    /\ MaxAttachmentBytes \in Nat
    /\ \A p \in RoutingPlans : p.hooks \subseteq Hook /\ p.may \in [RoutingKinds -> Nat]

VARIABLES
    accounts, \* of a row of channel_accounts: is_active, verified_at, forward_confirm_code
    handling, \* the request a goroutine serves
    stored,   \* table messages, with the conversation and the account of each
    media,    \* files the main application was given: message row and number of the file
    hint,     \* intake_customer_id and intake_backfill_source, by conversation
    answers,  \* history: the answers to webhooks, and whether the request stored a message
    sendable, \* the webhooks that may be sent
    chances   \* how often each kind of thing may still happen

routingVars == <<accounts, handling, stored, media, hint, answers, sendable, chances>>

Waiting == [pc |-> "waiting"]

RoutingInit ==
    /\ accounts = [a \in Account |-> [active |-> TRUE, verified |-> Registered[a].verified, confirm |-> ""]]
    /\ handling = [s \in Receiver |-> Waiting]
    /\ stored = <<>> /\ media = <<>> /\ hint = <<>>
    /\ answers = {}
    /\ \E p \in RoutingPlans : sendable = p.hooks /\ chances = p.may

Chance(kind) ==
    /\ chances[kind] > 0
    /\ chances' = [chances EXCEPT ![kind] = @ - 1]

Stands(s, stage) == handling[s].pc = stage
Handle(s, job) == handling' = [handling EXCEPT ![s] = job]
EventOf(s) == handling[s].hook.events[handling[s].at]
IsMail(e) == e.channel = "email"
CompanyOfAccount(a) == Registered[a].company

-------------------------------------------------------------------------------
(***************************************************************************)
(* What a payload says.  An address of the form sjt-<key> is an address    *)
(* and a routing key; a recipient without one has the key "".              *)
(***************************************************************************)
\* The recipients that are the first with their key, and the first with their address.
RoutingKeysFrom(e) ==
    {k \in DOMAIN e.to : e.to[k].key # "" /\ \A j \in DOMAIN e.to : e.to[j].key = e.to[k].key => k <= j}
EmailCandidates(e) ==
    {k \in DOMAIN e.to : e.to[k].addr # "" /\ \A j \in DOMAIN e.to : e.to[j].addr = e.to[k].addr => k <= j}

\* The files of a mail are kept until one goes over the limit.  A message of LINE is one file.
SizeOf(sizes) == FoldLeft(LAMBDA sum, size : sum + size, 0, sizes)
Attached(e) ==
    IF IsMail(e)
    THEN {k \in DOMAIN e.files : SizeOf(SubSeq(e.files, 1, k)) <= MaxAttachmentBytes}
    ELSE DOMAIN e.files

\* Events without a source, and of types LINE may add, are left out.
Kept(e) == e.sender # "" /\ e.type # "other"
Unreadable(events) ==
    /\ \A k \in DOMAIN events : ~Kept(events[k])
    /\ \E k \in DOMAIN events : events[k].sender = ""

-------------------------------------------------------------------------------
(***************************************************************************)
(* The tables of the accounts.                                             *)
(***************************************************************************)
Usable(a) == accounts[a].active /\ (Registered[a].channel = "email" => accounts[a].verified)

ByChannelAndExternalID(channel, addr) ==
    {a \in Account : Registered[a].channel = channel /\ Registered[a].address = addr /\ Usable(a)}

ByRoutingKey(key) == {a \in Account : Registered[a].key = key /\ Usable(a)}

ByAliasUnverified(addr) == {a \in Account : addr \in Registered[a].aliases /\ accounts[a].active}

ByAlias(addr) ==
    {a \in Account : addr \in Registered[a].aliases /\ accounts[a].active /\ accounts[a].verified}

LineChannelSecret(destination) ==
    {Registered[a].secret : a \in {b \in Account :
        Registered[b].channel = "line" /\ Registered[b].address = destination /\ accounts[b].active}}

Pending(code) ==
    {a \in Account : Registered[a].channel = "email" /\ Registered[a].code = code /\ ~accounts[a].verified}

\* The accounts change under the requests that look for theirs.
Alter(a, row) == accounts' = [accounts EXCEPT ![a] = row]
Muddled(job) == IF job.pc \in {"resolve", "store"} THEN [job EXCEPT !.clean = FALSE] ELSE job

-------------------------------------------------------------------------------
(***************************************************************************)
(* Receive.                                                                *)
(***************************************************************************)
\* The lookups of resolveAccount: what by, and for which recipient.  "to" is the one the mail names first.
Lookups(e) ==
    {l \in [by : {"key", "alias", "to", "candidate"}, at : DOMAIN e.to] :
        CASE l.by = "to"    -> l.at = 1
          [] l.by = "key"   -> IsMail(e) /\ l.at \in RoutingKeysFrom(e)
          [] l.by = "alias" -> IsMail(e) /\ l.at \in EmailCandidates(e)
          [] OTHER -> IsMail(e) /\ l.at \in EmailCandidates(e) /\ e.to[l.at].addr # e.to[1].addr}

Order == [key |-> 1, alias |-> 2, to |-> 3, candidate |-> 4]
Before(l, m) == Order[l.by] < Order[m.by] \/ (l.by = m.by /\ l.at <= m.at)

Start(e) == IF IsMail(e) THEN "verify" ELSE "resolve"

\* The next event that is kept, or the answer.
Turn(job) ==
    LET later == {k \in DOMAIN job.hook.events : job.at < k /\ Kept(job.hook.events[k])}
        next == CHOOSE k \in later : \A j \in later : k <= j
        e == job.hook.events[next]
    IN  IF later = {} THEN [job EXCEPT !.pc = "answer"]
        ELSE [job EXCEPT !.at = next, !.pc = Start(e), !.keys = RoutingKeysFrom(e),
                         !.lookups = Lookups(e), !.clean = TRUE, !.files = {}]

Processed(job) == Turn([job EXCEPT !.processed = TRUE, !.unknown = FALSE])
EventFailed(job, notFound) == Turn([job EXCEPT !.failed = TRUE, !.unknown = @ /\ notFound])

Answer(s, status) ==
    /\ answers' = answers \union {[hook |-> handling[s].hook, status |-> status, new |-> handling[s].new]}
    /\ Handle(s, Waiting)

Receive(s, hook) ==
    /\ Stands(s, "waiting") /\ hook \in sendable /\ Chance("send")
    /\ Handle(s, [pc |-> "signature", hook |-> hook, at |-> 0, keys |-> {}, lookups |-> {},
                 account |-> CHOOSE a \in Account : TRUE, clean |-> TRUE, files |-> {}, row |-> 0, processed |-> FALSE, failed |-> FALSE,
                 unknown |-> TRUE, new |-> FALSE])
    /\ UNCHANGED <<accounts, stored, media, hint, answers, sendable>>

\* The secret of the account, or else that of the environment, no matter why.
VerifyLine(hook, secrets) ==
    LET secret == IF secrets \subseteq {""} THEN EnvSecret ELSE CHOOSE x \in secrets : TRUE
    IN  secret # "" /\ hook.signed = secret
VerifySignature(hook) == hook.signed = "webhook"

Parse(s, good) ==
    LET hook == handling[s].hook
    IN  IF ~good THEN Answer(s, 401)
        ELSE IF Unreadable(hook.events) THEN Answer(s, 400)
        ELSE Handle(s, Turn(handling[s])) /\ UNCHANGED answers

CheckSignature(s) ==
    /\ Stands(s, "signature")
    /\ LET hook == handling[s].hook
       IN  \/ /\ Parse(s, IF hook.channel = "email" THEN VerifySignature(hook)
                          ELSE VerifyLine(hook, LineChannelSecret(hook.events[1].to[1].addr)))
              /\ UNCHANGED chances
           \/ hook.channel = "line" /\ Chance("fault") /\ Parse(s, VerifyLine(hook, {}))
    /\ UNCHANGED <<accounts, stored, media, hint, sendable>>

(***************************************************************************)
(* tryVerify: a mail with the code of a pending account verifies it.  With *)
(* another code, or after an error, it is a mail like any other.           *)
(***************************************************************************)
MarkVerified(s) ==
    /\ Stands(s, "verify")
    /\ \/ \E a \in Pending(EventOf(s).code) :
             /\ Alter(a, [accounts[a] EXCEPT !.verified = TRUE])
             /\ handling' = [t \in Receiver |-> IF t = s THEN [handling[s] EXCEPT !.pc = "readback"]
                                             ELSE Muddled(handling[t])]
             /\ UNCHANGED chances
       \/ /\ IF Pending(EventOf(s).code) = {} THEN UNCHANGED chances ELSE Chance("fault")
          /\ Handle(s, [handling[s] EXCEPT !.pc = "confirm"])
          /\ UNCHANGED accounts
    /\ UNCHANGED <<stored, media, hint, answers, sendable>>

ReadBack(s) ==
    /\ Stands(s, "readback")
    /\ \/ Handle(s, Processed(handling[s])) /\ UNCHANGED chances
       \/ Chance("fault") /\ Handle(s, [handling[s] EXCEPT !.pc = "confirm"])
    /\ UNCHANGED <<accounts, stored, media, hint, answers, sendable>>

(***************************************************************************)
(* tryForwardConfirm: the code goes to the first routing key that names an *)
(* account; one whose read-back fails keeps it, and the next key is tried. *)
(* The mail counts as handled even if no key names an account.             *)
(***************************************************************************)
StoreForwardConfirm(s) ==
    LET e == EventOf(s)
        job == handling[s]
        OwnersOf(key) == {a \in Account : Registered[a].channel = "email" /\ Registered[a].key = key}
        Confirm(a) == Alter(a, [accounts[a] EXCEPT !.confirm = e.confirm])
    IN  /\ Stands(s, "confirm")
        /\ \/ /\ e.confirm = ""
              /\ Handle(s, [job EXCEPT !.pc = "resolve"])
              /\ UNCHANGED <<accounts, chances>>
           \/ /\ e.confirm # "" /\ job.keys = {}
              /\ Handle(s, Processed(job))
              /\ UNCHANGED <<accounts, chances>>
           \/ \E k \in job.keys :
                 LET owners == OwnersOf(e.to[k].key)
                 IN  /\ e.confirm # "" /\ \A j \in job.keys : k <= j
                     /\ \/ /\ \E a \in owners : Confirm(a)
                           /\ Handle(s, Processed(job))
                           /\ UNCHANGED chances
                        \/ /\ \/ owners = {} /\ UNCHANGED <<accounts, chances>>
                              \/ \E a \in owners : Chance("fault") /\ (UNCHANGED accounts \/ Confirm(a))
                           /\ Handle(s, [job EXCEPT !.keys = @ \ {k}])
        /\ UNCHANGED <<stored, media, hint, answers, sendable>>

-------------------------------------------------------------------------------
(***************************************************************************)
(* resolveAccount, a lookup a step.  Only an error of the exact address    *)
(* the mail names is an error; any other lookup that fails found nothing.  *)
(***************************************************************************)
Found(e, lookup) ==
    LET to == e.to[lookup.at]
    IN  CASE lookup.by = "key"   -> ByRoutingKey(to.key)
          [] lookup.by = "alias" -> ByAlias(to.addr)
          [] OTHER               -> ByChannelAndExternalID(e.channel, to.addr)

\* Events other than messages end with the account.
Resolved(s, a) ==
    IF EventOf(s).type = "message" THEN [handling[s] EXCEPT !.pc = "store", !.account = a]
    ELSE Processed(handling[s])

NextLookupAlways(job, l) == [job EXCEPT !.lookups = @ \ {l}]
NextLookup(job, l) ==
    IF job.lookups = {l} THEN EventFailed(job, TRUE) ELSE [job EXCEPT !.lookups = @ \ {l}]

ResolveAccount(s) ==
    /\ Stands(s, "resolve")
    /\ \E l \in handling[s].lookups :
          LET hits == Found(EventOf(s), l)
          IN  /\ \A m \in handling[s].lookups : Before(l, m)
              /\ \/ \E a \in hits : Handle(s, Resolved(s, a)) /\ UNCHANGED chances
                 \/ hits = {} /\ Handle(s, NextLookup(handling[s], l)) /\ UNCHANGED chances
                 \/ /\ Chance("fault")
                    /\ Handle(s, IF l.by = "to" THEN EventFailed(handling[s], FALSE)
                                ELSE NextLookup([handling[s] EXCEPT !.clean = FALSE], l))
    /\ UNCHANGED <<accounts, stored, media, hint, answers, sendable>>

(***************************************************************************)
(* The message is stored under the lock of its customer, which Inbound     *)
(* shows to be one step; one that is stored already ends the event.  A     *)
(* conversation has the number of its first message.                       *)
(***************************************************************************)
DuplicateNever(e, company) == {}
Duplicate(e, company) ==
    {k \in DOMAIN stored : stored[k].event = e /\ CompanyOfAccount(stored[k].account) = company}

ThreadOf(e, a) ==
    {stored[k].conv : k \in {j \in DOMAIN stored :
        IF IsMail(e) THEN stored[j].event.id = e.ref /\ CompanyOfAccount(stored[j].account) = CompanyOfAccount(a)
        ELSE stored[j].account = a /\ stored[j].event.sender = e.sender}}

StoreMessage(s) ==
    LET e == EventOf(s)
        a == handling[s].account
        row == Len(stored) + 1
        conv == IF ThreadOf(e, a) = {} THEN row ELSE CHOOSE c \in ThreadOf(e, a) : TRUE
    IN  /\ Stands(s, "store")
        /\ \/ /\ Duplicate(e, CompanyOfAccount(a)) # {}
              /\ Handle(s, Processed(handling[s]))
              /\ UNCHANGED <<stored, hint, chances>>
           \/ /\ Duplicate(e, CompanyOfAccount(a)) = {}
              /\ stored' = Append(stored, [event |-> e, account |-> a, conv |-> conv])
              /\ hint' = Append(hint, [customer |-> 0, source |-> ""])
              /\ Handle(s, [handling[s] EXCEPT !.pc = "promote", !.files = Attached(e), !.row = row, !.new = TRUE])
              /\ UNCHANGED chances
           \/ Chance("fault") /\ Handle(s, EventFailed(handling[s], FALSE)) /\ UNCHANGED <<stored, hint>>
        /\ UNCHANGED <<accounts, media, answers, sendable>>

\* A file that cannot be fetched or delivered is only logged.
PromoteAttachments(s) ==
    LET job == handling[s]
        Lowest(k) == \A j \in job.files : k <= j
    IN  /\ Stands(s, "promote")
        /\ \/ job.files = {} /\ Handle(s, [job EXCEPT !.pc = "backfill"]) /\ UNCHANGED <<media, chances>>
           \/ \E k \in job.files :
                 /\ Lowest(k)
                 /\ Handle(s, [job EXCEPT !.files = @ \ {k}])
                 /\ \/ media' = Append(media, [row |-> job.row, file |-> k]) /\ UNCHANGED chances
                    \/ Chance("fault") /\ UNCHANGED media
        /\ UNCHANGED <<accounts, stored, hint, answers, sendable>>

(***************************************************************************)
(* runBackfills: the customer of the case the message names, or else that  *)
(* of the sender, is written over what the conversation had.               *)
(***************************************************************************)
CaseByCode(company, code) ==
    IF code \in DOMAIN Cases /\ Cases[code].company = company THEN Cases[code].customer ELSE 0

CustomerByEmailHash(company, sender) ==
    IF <<company, sender>> \in DOMAIN SenderCustomer THEN SenderCustomer[<<company, sender>>] ELSE 0

WriteBackfill(s, customer, source) ==
    hint' = [hint EXCEPT ![stored[handling[s].row].conv] = [customer |-> customer, source |-> source]]

BackfillReferencedCase(s) ==
    LET row == stored[handling[s].row]
        customer == CaseByCode(CompanyOfAccount(row.account), row.event.case)
    IN  /\ Stands(s, "backfill")
        /\ \/ /\ customer # 0
              /\ WriteBackfill(s, customer, "referenced_case")
              /\ Handle(s, Processed(handling[s]))
              /\ UNCHANGED chances
           \/ /\ IF customer = 0 THEN UNCHANGED chances ELSE Chance("fault")
              /\ Handle(s, [handling[s] EXCEPT !.pc = "sender"])
              /\ UNCHANGED hint
        /\ UNCHANGED <<accounts, stored, media, answers, sendable>>

BackfillSenderCustomer(s) ==
    LET row == stored[handling[s].row]
        customer == CustomerByEmailHash(CompanyOfAccount(row.account), row.event.sender)
    IN  /\ Stands(s, "sender")
        /\ \/ customer # 0 /\ WriteBackfill(s, customer, "sender_email") /\ UNCHANGED chances
           \/ customer = 0 /\ UNCHANGED <<hint, chances>>
           \/ customer # 0 /\ Chance("fault") /\ UNCHANGED hint
        /\ Handle(s, Processed(handling[s]))
        /\ UNCHANGED <<accounts, stored, media, answers, sendable>>

\* 404 asks nobody to come again: no event of the webhook was for an account.
NotFoundAtLast(job) == job.failed
NotFound(job) == ~job.processed /\ job.failed /\ job.unknown

Respond200(s) ==
    /\ Stands(s, "answer")
    /\ Answer(s, IF NotFound(handling[s]) THEN 404 ELSE 200)
    /\ UNCHANGED <<accounts, stored, media, hint, sendable, chances>>

\* The main application turns an account off or on; the API process dies.
Toggle(a) ==
    /\ Chance("change")
    /\ Alter(a, [accounts[a] EXCEPT !.active = ~@])
    /\ handling' = [s \in Receiver |-> Muddled(handling[s])]
    /\ UNCHANGED <<stored, media, hint, answers, sendable>>

Crash(s) ==
    /\ ~Stands(s, "waiting") /\ Chance("fault")
    /\ Handle(s, Waiting)
    /\ UNCHANGED <<accounts, stored, media, hint, answers, sendable>>

RoutingNext ==
    \/ \E s \in Receiver :
          \/ \E hook \in Hook : Receive(s, hook)
          \/ CheckSignature(s) \/ MarkVerified(s) \/ ReadBack(s) \/ StoreForwardConfirm(s)
          \/ ResolveAccount(s) \/ StoreMessage(s) \/ PromoteAttachments(s)
          \/ BackfillReferencedCase(s) \/ BackfillSenderCustomer(s)
          \/ Respond200(s) \/ Crash(s)
    \/ \E a \in Account : Toggle(a)

RoutingSpec == RoutingInit /\ [][RoutingNext]_routingVars

-------------------------------------------------------------------------------
RoutingTypeOK ==
    /\ \A a \in Account : accounts[a].active \in BOOLEAN /\ accounts[a].verified \in BOOLEAN
    /\ Len(hint) = Len(stored)
    /\ \A k \in DOMAIN stored : stored[k].conv \in 1..k /\ stored[k].account \in Account
    /\ \A k \in DOMAIN media : media[k].row \in DOMAIN stored
    /\ \A s \in Receiver : Stands(s, "resolve") => handling[s].lookups # {}

(***************************************************************************)
(* A message is stored for an account in use: a mail for that of a routing *)
(* key among its recipients if any account has one, else that of an alias, *)
(* else that of an address, of the mail's own channel.  Requests whose     *)
(* lookups failed, or whose accounts changed under them, are left out.     *)
(***************************************************************************)
OwnersByKey(e) == {a \in Account : Usable(a) /\ \E k \in DOMAIN e.to : e.to[k].key # "" /\ Registered[a].key = e.to[k].key}
OwnersByAlias(e) ==
    {a \in Account : /\ Usable(a) /\ accounts[a].verified
                    /\ \E k \in DOMAIN e.to : e.to[k].addr # "" /\ e.to[k].addr \in Registered[a].aliases}
OwnersByAddress(e) ==
    {a \in Account : /\ Usable(a) /\ Registered[a].channel = e.channel
                    /\ \E k \in DOMAIN e.to : Registered[a].address = e.to[k].addr}
Owners(e) ==
    IF IsMail(e) /\ OwnersByKey(e) # {} THEN OwnersByKey(e)
    ELSE IF IsMail(e) /\ OwnersByAlias(e) # {} THEN OwnersByAlias(e)
    ELSE OwnersByAddress(e)

RoutedByPriority ==
    [][\A s \in Receiver : Stands(s, "store") /\ handling[s].clean /\ handling'[s].pc = "promote" =>
          Last(stored').account \in Owners(EventOf(s))]_routingVars

\* A sender that gets an error, and so may deliver the webhook again, had nothing of it stored.
ErrorStoresNothing == \A a \in answers : a.status # 200 => ~a.new

(***************************************************************************)
(* The main application gets a file of a message at most once for an       *)
(* account, however often the message is delivered and whoever dies.       *)
(***************************************************************************)
FileGiven(k) ==
    <<stored[media[k].row].event, stored[media[k].row].account, media[k].file>>
MediaOnce == \A j, k \in DOMAIN media : FileGiven(j) = FileGiven(k) => j = k

(***************************************************************************)
(* Both: a sender that delivers a webhook again, because of an error or    *)
(* without any, changes nothing that the first delivery left behind.       *)
(***************************************************************************)
RedeliveryIsHarmless == ErrorStoresNothing /\ MediaOnce
================================================================================
