--------------------------------- MODULE Chat ---------------------------------
(***************************************************************************)
(* The chat of the API.  Requests run at once: a turn is routed, reads     *)
(* rows, proposes an action or asks a model, and is kept in its session;   *)
(* a confirmation executes an action that was proposed.  Proposals and     *)
(* cached answers live in the process and are lost with it; sessions,      *)
(* cases, conversations and the audit are rows of the database.            *)
(***************************************************************************)
EXTENDS ToolSelection, SequencesExt, FiniteSets, Functions

CONSTANTS
    Handler,      \* goroutines that serve a turn or a confirmation
    User, EmployerOf,
    Texts,        \* messages users write
    Guesses,      \* the numbers a model may name, whatever the message says
    Roles,        \* sets of permissions an administrator may give
    MaxCases, MaxSessions,
    ChatPlans     \* bounds: first rows and permissions, and what may happen how often

Kinds == {"ask", "confirm", "fault", "grant", "expire", "restart"}

Writes == {t \in Tool : Catalog[t].write}

\* Rows, by number: a report with the employees responsible for it and the conversation it
\* was made of, a conversation, a session with the cites of its turns, and a proposal.
CaseRow         == [company : STRING, status : {"open"} \union Status, responsible : SUBSET User, from : Nat]
ConversationRow == [company : STRING, status : {"pending", "promoted"}, report : Nat]
SessionRow      == [user : User, turns : Seq(Seq(Cite))]
Proposal        == [user : User, tool : Writes, params : Params]

\* The report a conversation points to was made of it, in its company.
HasItsCase(n, inbound, reports) ==
    LET report == inbound[n].report
    IN  report \in DOMAIN reports /\ reports[report].from = n /\ reports[report].company = inbound[n].company

ASSUME ChatAssumption ==
    /\ IsFiniteSet(Handler)
    /\ EmployerOf \in [User -> STRING]
    /\ Texts \subseteq Text /\ Guesses \subseteq Nat /\ Roles \subseteq SUBSET Permission
    /\ {MaxCases, MaxSessions} \subseteq Nat
    /\ \A p \in ChatPlans :
          /\ p.permitted \in [User -> SUBSET Permission]
          /\ p.cases \in Seq(CaseRow) /\ p.conversations \in Seq(ConversationRow)
          /\ p.sessions \in Seq(SessionRow) /\ p.offered \in Seq(Proposal)
          /\ \A n \in DOMAIN p.conversations :
                p.conversations[n].status = "promoted" => HasItsCase(n, p.conversations, p.cases)
          /\ p.may \in [Kinds -> Nat]

VARIABLES
    permitted,     \* the permissions in the token of a user
    cases,         \* reports
    conversations, \* of the inbox
    pending,       \* the pending store: proposals not yet taken
    audited,       \* rows of ai_actions, by action
    sessions,      \* chat_sessions: owner and the citing turns of each
    cache,         \* the answers cached in the process
    reqs,          \* the request a goroutine serves
    screen,        \* the codes in the last listing a user received
    told,          \* the conversation ids a user received
    offered,       \* history: the proposals made, in order
    done,          \* history: the writes executed, in order
    left           \* how often each kind of thing may still happen

chatVars == <<permitted, cases, conversations, pending, audited, sessions, cache, reqs, screen,
          told, offered, done, left>>
chatTables == <<cases, conversations>>
client == <<screen, told>>
chatMemory == <<pending, cache>>

NoTurn == [pc |-> "idle"]

\* A proposal in the pending store.
Stored(offer) == [user |-> offer.user, tool |-> offer.tool, params |-> offer.params, fresh |-> TRUE]

ChatInit ==
    /\ \E p \in ChatPlans :
          /\ permitted = p.permitted
          /\ cases = p.cases
          /\ conversations = p.conversations
          /\ sessions = p.sessions
          /\ offered = p.offered
          /\ left = p.may
    /\ pending = [id \in DOMAIN offered |-> Stored(offered[id])]
    /\ audited = [t \in Writes |->
          [proposed |-> Cardinality({id \in DOMAIN offered : offered[id].tool = t}), executed |-> 0]]
    /\ cache = {}
    /\ reqs = [r \in Handler |-> NoTurn]
    /\ screen = [u \in User |-> <<>>]
    /\ told = [u \in User |-> {}]
    /\ done = <<>>

Allow(kind) ==
    /\ left[kind] > 0
    /\ left' = [left EXCEPT ![kind] = @ - 1]

At(r, pc) == reqs[r].pc = pc
GoOn(r, job) == reqs' = [reqs EXCEPT ![r] = job]
Move(r, pc) == GoOn(r, [reqs[r] EXCEPT !.pc = pc])
End(r) == GoOn(r, NoTurn)

\* The turn has its answer: the rows it cites, and a key when it may be cached.
RespondTo(r, cites, key) ==
    GoOn(r, [pc |-> "reply", user |-> reqs[r].user, session |-> reqs[r].session,
               cites |-> cites, key |-> key])
NoKey == <<>>

\* An answer without rows: a short cut, a proposal, a failed tool, a question back.
Reply(r) == RespondTo(r, <<>>, NoKey)

\* A statement or a call fails, and the request with it.
GiveUp(r) == Allow("fault") /\ End(r)

CompanyFor(r) == EmployerOf[reqs[r].user]
Covered(r, n) == n \in DOMAIN cases /\ cases[n].company = CompanyFor(r)
Promotable(r, n) == n \in DOMAIN conversations /\ conversations[n].company = CompanyFor(r)
                    /\ conversations[n].status = "pending"
Audit(t, what) == audited' = [audited EXCEPT ![t][what] = @ + 1]

-------------------------------------------------------------------------------
(* A turn                                                                    *)

\* The client names the conversation it continues, or none; any number will do.
Ask(r, u) ==
    /\ At(r, "idle") /\ Allow("ask")
    /\ \E text \in Texts, session \in 0..MaxSessions :
          GoOn(r, [pc |-> "asked", user |-> u, perms |-> permitted[u], text |-> text,
                     session |-> session])
    /\ UNCHANGED <<permitted, chatTables, chatMemory, audited, sessions, client, offered, done>>

Owned(r, s) == s \in DOMAIN sessions /\ sessions[s].user = reqs[r].user

\* What the last turn of the conversation that cites anything cited.
LastCitesOfAnyone(r) ==
    LET s == reqs[r].session IN
    IF s \in DOMAIN sessions /\ sessions[s].turns # <<>> THEN Last(sessions[s].turns) ELSE <<>>

LastCites(r) ==
    LET s == reqs[r].session IN
    IF Owned(r, s) /\ sessions[s].turns # <<>> THEN Last(sessions[s].turns) ELSE <<>>

\* Without one, the codes in the transcript the client sends along.
CiteCandidates(r) ==
    IF LastCites(r) # <<>> THEN LastCites(r) ELSE screen[reqs[r].user]

\* A matched write is proposed, and a matched read executed.
Chosen(job, s, pc) ==
    [pc |-> pc, user |-> job.user, perms |-> job.perms, text |-> job.text, session |-> job.session,
     tool |-> s.tool, params |-> s.params, by |-> s.by]

ExecuteSelectionUnasked(r, s) == GoOn(r, Chosen(reqs[r], s, "propose"))

ExecuteSelection(r, s) ==
    GoOn(r, Chosen(reqs[r], s, IF Catalog[s.tool].write THEN "propose" ELSE "read"))

\* What the selectors may make of the message.
Handle(r) == Selections(reqs[r].perms, reqs[r].text, CiteCandidates(r), Guesses)

\* Without a match the turn is answered at once or goes on to the model.
Classified(r, intent, s) ==
    LET kind == KindOf(intent, s) IN
    CASE kind = "tool"       -> ExecuteSelection(r, s)
      [] kind = "generative" -> Move(r, "generate")
      [] OTHER               -> Reply(r)

Decide(r) ==
    /\ At(r, "asked")
    /\ \/ \E intent \in Intent, s \in Handle(r) : Classified(r, intent, s) /\ UNCHANGED left
       \/ GiveUp(r)
    /\ UNCHANGED <<permitted, chatTables, chatMemory, audited, sessions, client, offered, done>>

\* The rows of a read: cases, or conversations not yet promoted, of the companies the
\* user covers, the newest first.
Newest(S, kind) ==
    {rows \in [1..Cardinality(S) -> [kind : {kind}, n : S]] :
        \A i, j \in DOMAIN rows : i < j => rows[i].n > rows[j].n}

Rows(r) ==
    IF reqs[r].tool = "f1_find_cases"
    THEN Newest({n \in DOMAIN cases : Covered(r, n)}, "case")
    ELSE Newest({n \in DOMAIN conversations : Promotable(r, n)}, "conversation")

RunHandler(r) ==
    /\ At(r, "read")
    /\ \/ \E rows \in Rows(r) : RespondTo(r, rows, NoKey) /\ UNCHANGED left
       \/ Allow("fault") /\ (Reply(r) \/ Move(r, "generate"))
    /\ UNCHANGED <<permitted, chatTables, chatMemory, audited, sessions, client, offered, done>>

AuditProposal(r) ==
    /\ At(r, "propose")
    /\ \/ /\ Audit(reqs[r].tool, "proposed")
          /\ Move(r, "put") /\ UNCHANGED left
       \/ Allow("fault") /\ Reply(r) /\ UNCHANGED audited
    /\ UNCHANGED <<permitted, chatTables, chatMemory, sessions, client, offered, done>>

\* A proposal is kept under a fresh id; the ones that expired are dropped.
PutPending(r) ==
    LET entry == [user |-> reqs[r].user, tool |-> reqs[r].tool, params |-> reqs[r].params]
        id == Len(offered) + 1
        live == {i \in DOMAIN pending : pending[i].fresh}
    IN  /\ At(r, "put")
        /\ pending' = [i \in live \union {id} |-> IF i = id THEN Stored(entry) ELSE pending[i]]
        /\ offered' = Append(offered, entry)
        /\ Reply(r)
        /\ UNCHANGED <<permitted, chatTables, audited, sessions, cache, client, done, left>>

\* An answer of the model is cached by user, permissions and messages, and not by the
\* conversation it was made in.  A stream, a turn that selects a model and a company with
\* an active route bypass the cache.
CacheKeyUserless(job) == <<job.perms, job.text>>
CacheKey(job) == <<job.user, job.perms, job.text>>

CachedResponse(r) == {e \in cache : e.key = CacheKey(reqs[r])}

Generating(job, key) == [pc |-> "generating", user |-> job.user, session |-> job.session, key |-> key]

LookUp(r) ==
    /\ At(r, "generate")
    /\ \/ GoOn(r, Generating(reqs[r], NoKey))
       \/ IF CachedResponse(r) = {}
          THEN GoOn(r, Generating(reqs[r], CacheKey(reqs[r])))
          ELSE \E e \in CachedResponse(r) :
                  GoOn(r, [pc |-> "answer", user |-> reqs[r].user, session |-> e.session,
                             cites |-> <<>>, key |-> NoKey])
    /\ UNCHANGED <<permitted, chatTables, chatMemory, audited, sessions, client, offered, done, left>>

\* An answer with sources, no draft of a case and no search result may be cached.  A
\* client that hangs up in a stream ends the turn.
GenerateAnswer(r) ==
    /\ At(r, "generating")
    /\ \/ \E key \in {reqs[r].key, NoKey} : RespondTo(r, <<>>, key) /\ UNCHANGED left
       \/ GiveUp(r)
    /\ UNCHANGED <<permitted, chatTables, chatMemory, audited, sessions, client, offered, done>>

\* The session the client named, or a new one when it is not the user's.
EnsureSession(r) ==
    /\ At(r, "reply")
    /\ IF reqs[r].session = 0 \/ Owned(r, reqs[r].session)
       THEN /\ Move(r, IF reqs[r].session = 0 THEN "answer" ELSE "append")
            /\ UNCHANGED <<sessions, left>>
       ELSE \/ /\ Len(sessions) < MaxSessions
               /\ sessions' = Append(sessions, [user |-> reqs[r].user, turns |-> <<>>])
               /\ GoOn(r, [reqs[r] EXCEPT !.pc = "append", !.session = Len(sessions) + 1])
               /\ UNCHANGED left
            \/ /\ Allow("fault")
               /\ GoOn(r, [reqs[r] EXCEPT !.pc = "answer", !.session = 0])
               /\ UNCHANGED sessions
    /\ UNCHANGED <<permitted, chatTables, chatMemory, audited, client, offered, done>>

\* Only turns that cite are read again.
AppendTurn(r) ==
    /\ At(r, "append")
    /\ \/ /\ sessions' = IF reqs[r].cites = <<>> THEN sessions
                         ELSE [sessions EXCEPT ![reqs[r].session].turns = Append(@, reqs[r].cites)]
          /\ Move(r, "answer") /\ UNCHANGED left
       \/ Allow("fault") /\ Move(r, "answer") /\ UNCHANGED sessions
    /\ UNCHANGED <<permitted, chatTables, chatMemory, audited, client, offered, done>>

\* The response, which the client may have ceased to wait for, is cached when it may be.
Answer(r) ==
    LET job == reqs[r] IN
    /\ At(r, "answer")
    /\ cache' = IF job.key = NoKey THEN cache
                ELSE {e \in cache : e.key # job.key} \union {[key |-> job.key, session |-> job.session]}
    /\ \/ /\ told' = [told EXCEPT ![job.user] = @ \union ({job.session} \ {0})]
          /\ screen' = IF Codes(job.cites) = <<>> THEN screen ELSE [screen EXCEPT ![job.user] = job.cites]
          /\ UNCHANGED left
       \/ Allow("fault") /\ UNCHANGED client
    /\ End(r)
    /\ UNCHANGED <<permitted, chatTables, pending, audited, sessions, offered, done>>

-------------------------------------------------------------------------------
(* A confirmation                                                            *)

\* Taking the entry removes it, whoever takes it and in whatever state it is.
TakeKeeps(id) == pending' = pending
TakeRemoves(id) == pending' = [i \in DOMAIN pending \ {id} |-> pending[i]]

ValidOnceOffered(u, id) == id \in DOMAIN pending /\ pending[id].user = u /\ pending[id].fresh

Valid(u, id) ==
    /\ id \in DOMAIN pending
    /\ pending[id].user = u
    /\ pending[id].fresh
    /\ Catalog[pending[id].tool].perm \in permitted[u]

Confirm(r, u) ==
    /\ At(r, "idle") /\ Allow("confirm")
    /\ \E id \in DOMAIN offered :
          /\ TakeRemoves(id)
          /\ IF Valid(u, id)
             THEN GoOn(r, [pc |-> "audit", user |-> u, perms |-> permitted[u], id |-> id,
                             tool |-> pending[id].tool, params |-> pending[id].params])
             ELSE UNCHANGED reqs
    /\ UNCHANGED <<permitted, chatTables, cache, audited, sessions, client, offered, done>>

AuditExecutionAnyway(r) ==
    /\ At(r, "audit")
    /\ Move(r, IF reqs[r].tool = "f13_promote_mail" THEN "select" ELSE "locate")
    /\ \/ Audit(reqs[r].tool, "executed") /\ UNCHANGED left
       \/ Allow("fault") /\ UNCHANGED audited
    /\ UNCHANGED <<permitted, chatTables, chatMemory, sessions, client, offered, done>>

AuditExecution(r) ==
    /\ At(r, "audit")
    /\ \/ /\ Audit(reqs[r].tool, "executed")
          /\ Move(r, IF reqs[r].tool = "f13_promote_mail" THEN "select" ELSE "locate")
          /\ UNCHANGED left
       \/ GiveUp(r) /\ UNCHANGED audited
    /\ UNCHANGED <<permitted, chatTables, chatMemory, sessions, client, offered, done>>

\* The handlers see the parameters and no message: whom a case is assigned to stood in
\* the message only.
Employee(text) == None
CanRun(r) ==
    /\ Missing(reqs[r].tool, reqs[r].params) = {}
    /\ reqs[r].tool = "f9_assign_case" => Employee(NoText) # None

CanMutate(r, n) == "report.assign" \in reqs[r].perms \/ reqs[r].user \in cases[n].responsible

LocateAnyCase(r) ==
    /\ At(r, "locate")
    /\ \/ /\ IF CanRun(r) /\ Covered(r, reqs[r].params.target)
             THEN Move(r, "write")
             ELSE End(r)
          /\ UNCHANGED left
       \/ GiveUp(r)
    /\ UNCHANGED <<permitted, chatTables, chatMemory, audited, sessions, client, offered, done>>

Locate(r) ==
    LET n == reqs[r].params.target IN
    /\ At(r, "locate")
    /\ \/ /\ IF CanRun(r) /\ Covered(r, n) /\ CanMutate(r, n)
             THEN Move(r, "write")
             ELSE End(r)
          /\ UNCHANGED left
       \/ GiveUp(r)
    /\ UNCHANGED <<permitted, chatTables, chatMemory, audited, sessions, client, offered, done>>

Executed(r) == done' = Append(done, [id |-> reqs[r].id, user |-> reqs[r].user, tool |-> reqs[r].tool,
                                     params |-> reqs[r].params])

UpdateCaseStatus(r) ==
    LET job == reqs[r] IN
    /\ At(r, "write")
    /\ \/ /\ cases' = [cases EXCEPT ![job.params.target].status =
                          IF job.tool = "f10_close_case" THEN "done" ELSE job.params.status]
          /\ Executed(r) /\ End(r) /\ UNCHANGED left
       \/ GiveUp(r) /\ UNCHANGED <<cases, done>>
    /\ UNCHANGED <<permitted, conversations, chatMemory, audited, sessions, client, offered>>

\* A transaction, whose first statement reads the conversation without locking it.
SelectPromotable(r) ==
    LET n == reqs[r].params.target IN
    /\ At(r, "select")
    /\ \/ /\ IF Promotable(r, n)
             THEN Move(r, "promote")
             ELSE End(r)
          /\ UNCHANGED left
       \/ GiveUp(r)
    /\ UNCHANGED <<permitted, chatTables, chatMemory, audited, sessions, client, offered, done>>

CommitPromotionUnrolled(r) ==
    LET n == reqs[r].params.target
        report == Len(cases) + 1
    IN  /\ At(r, "promote") /\ report <= MaxCases
        /\ conversations' = [conversations EXCEPT ![n].status = "promoted", ![n].report = report]
        /\ \/ /\ cases' = Append(cases,
                    [company |-> CompanyFor(r), status |-> "open", responsible |-> {reqs[r].user}, from |-> n])
              /\ Executed(r) /\ End(r) /\ UNCHANGED left
           \/ GiveUp(r) /\ UNCHANGED <<cases, done>>
        /\ UNCHANGED <<permitted, chatMemory, audited, sessions, client, offered>>

CommitPromotion(r) ==
    LET n == reqs[r].params.target
        report == Len(cases) + 1
    IN  /\ At(r, "promote")
        /\ \/ /\ report <= MaxCases
              /\ cases' = Append(cases,
                    [company |-> CompanyFor(r), status |-> "open", responsible |-> {reqs[r].user}, from |-> n])
              /\ conversations' = [conversations EXCEPT ![n].status = "promoted", ![n].report = report]
              /\ Executed(r) /\ End(r) /\ UNCHANGED left
           \/ GiveUp(r) /\ UNCHANGED <<chatTables, done>>
        /\ UNCHANGED <<permitted, chatMemory, audited, sessions, client, offered>>

-------------------------------------------------------------------------------
(* Around the requests                                                       *)

Grant(u) ==
    /\ Allow("grant")
    /\ \E role \in Roles : permitted' = [permitted EXCEPT ![u] = role]
    /\ UNCHANGED <<chatTables, chatMemory, audited, sessions, reqs, client, offered, done>>

\* Ten minutes pass over a proposal.
ExpirePending(id) ==
    /\ pending[id].fresh /\ Allow("expire")
    /\ pending' = [pending EXCEPT ![id].fresh = FALSE]
    /\ UNCHANGED <<permitted, chatTables, cache, audited, sessions, reqs, client, offered, done>>

\* A cached answer expires or makes room.
Evict(e) ==
    /\ Allow("expire")
    /\ cache' = cache \ {e}
    /\ UNCHANGED <<permitted, chatTables, pending, audited, sessions, reqs, client, offered, done>>

Restart ==
    /\ Allow("restart")
    /\ pending' = <<>> /\ cache' = {}
    /\ reqs' = [r \in Handler |-> NoTurn]
    /\ UNCHANGED <<permitted, chatTables, audited, sessions, client, offered, done>>

Turn(r) ==
    \/ \E u \in User : Ask(r, u)
    \/ Decide(r) \/ RunHandler(r) \/ AuditProposal(r) \/ PutPending(r)
    \/ LookUp(r) \/ GenerateAnswer(r) \/ EnsureSession(r) \/ AppendTurn(r) \/ Answer(r)

Confirmation(r) ==
    \/ \E u \in User : Confirm(r, u)
    \/ AuditExecution(r) \/ Locate(r) \/ UpdateCaseStatus(r)
    \/ SelectPromotable(r) \/ CommitPromotion(r)

ChatNext ==
    \/ \E r \in Handler : Turn(r) \/ Confirmation(r)
    \/ \E u \in User : Grant(u)
    \/ \E id \in DOMAIN pending : ExpirePending(id)
    \/ \E e \in cache : Evict(e)
    \/ Restart

ChatSpec == ChatInit /\ [][ChatNext]_chatVars

-------------------------------------------------------------------------------
(* Properties                                                                *)

Turn_pc == {"asked", "propose", "put", "read", "generate", "generating", "reply", "append", "answer"}
Confirm_pc == {"audit", "locate", "write", "select", "promote"}

ChatTypeOK ==
    /\ permitted \in [User -> SUBSET Permission]
    /\ \A n \in DOMAIN cases : cases[n].responsible \subseteq User /\ cases[n].from \in Nat
    /\ DOMAIN pending \subseteq DOMAIN offered
    /\ offered \in Seq(Proposal)
    /\ audited \in [Writes -> [proposed : Nat, executed : Nat]]
    /\ \A s \in DOMAIN sessions : sessions[s].user \in User /\ \A c \in ToSet(sessions[s].turns) : ToSet(c) \subseteq Cite
    /\ \A r \in Handler : reqs[r] = NoTurn \/ reqs[r].pc \in Turn_pc \union Confirm_pc
    /\ left \in [Kinds -> Nat]

\* The executions under way and done.
Running == {r \in Handler : reqs[r].pc \in Confirm_pc}

\* An action is executed at most once, however often and by whomever its id is sent at the
\* same time, and as its proposer saw it: the parameters are those of the proposal.
ExecutedAsProposed ==
    /\ \A i, j \in DOMAIN done : done[i].id = done[j].id => i = j
    /\ \A r \in Running, i \in DOMAIN done : reqs[r].id # done[i].id
    /\ \A i \in DOMAIN done :
          [user |-> done[i].user, tool |-> done[i].tool, params |-> done[i].params] = offered[done[i].id]

\* Every write of a tool was audited before it ran, every proposal before it was shown:
\* a failed audit stops either.
AuditedBefore ==
    \A t \in Writes :
        /\ Cardinality({i \in DOMAIN done : done[i].tool = t})
           + Cardinality({r \in Running : reqs[r].tool = t /\ reqs[r].pc # "audit"}) <= audited[t].executed
        /\ Cardinality({i \in DOMAIN offered : offered[i].tool = t}) <= audited[t].proposed

\* The conversation an answer names belongs to the user it is sent to, though clients name
\* conversations as they like and answers come from a cache.
ConversationIsOwn ==
    \A u \in User : \A s \in told[u] : s \in DOMAIN sessions /\ sessions[s].user = u

\* A promoted conversation points to the case that was made of it, in its company.
PromotedHasItsCase ==
    \A n \in DOMAIN conversations :
        conversations[n].status = "promoted" => HasItsCase(n, conversations, cases)

\* Where the patterns found what an action is about, the message names it or it was listed
\* to that user before: in a session of the user, or in the transcript the client sends.
ListedTo(u) ==
    (UNION {UNION {Range(Numbers(t)) : t \in ToSet(sessions[s].turns)} :
              s \in {x \in DOMAIN sessions : sessions[x].user = u}})
    \union Range(Numbers(screen[u]))

Referred(r) == ListedTo(reqs[r].user) \union {0, reqs[r].text.code, reqs[r].text.number}

ReferenceIsOwn ==
    [][\A r \in Handler :
          At(r, "asked") /\ At(r, "propose")' /\ reqs'[r].by = "patterns" =>
              reqs'[r].params.target \in Referred(r)]_chatVars

\* A model may invent what it names, and a permission may be gone when the proposal is
\* confirmed: a row changes only for a request whose user, as confirming, had the permission
\* of the tool, whose company owns the row, and who may change that case.
Allowed(r) ==
    /\ At(r, "write") \/ At(r, "promote")
    /\ Catalog[reqs[r].tool].perm \in reqs[r].perms

InCharge(r, n) == "report.assign" \in reqs[r].perms \/ reqs[r].user \in cases[n].responsible

ReachIsKept ==
    [][/\ \A n \in DOMAIN cases : cases'[n] # cases[n] =>
            \E r \in Handler : Allowed(r) /\ cases[n].company = CompanyFor(r) /\ InCharge(r, n)
       /\ \A n \in DOMAIN conversations : conversations'[n] # conversations[n] =>
            \E r \in Handler : Allowed(r) /\ conversations[n].company = CompanyFor(r)]_chatVars

\* A write of a tool is one its user asked for, is audited, and leaves no half of itself.
WritesAreConfirmed == ExecutedAsProposed /\ AuditedBefore /\ PromotedHasItsCase

\* A user neither learns of a conversation of another user, nor acts on another's listing,
\* nor changes what is out of the user's reach.
UsersAreApart == []ConversationIsOwn /\ ReferenceIsOwn /\ ReachIsKept
===============================================================================
