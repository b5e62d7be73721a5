------------------------------ MODULE ChatProofs ------------------------------
(***************************************************************************)
(* Proofs about the chat, for any number of goroutines, users, messages,   *)
(* rows and proposals, and for faults, changed permissions, expiry and     *)
(* restarts however often they happen.                                     *)
(***************************************************************************)
EXTENDS Chat, TLAPS, FiniteSetTheorems, SequenceTheorems

-----------------------------------------------------------------------------
(***************************************************************************)
(* The inductive invariant.                                                *)
(***************************************************************************)

\* What an answer is cached by, or that it may not be.
Key == {NoKey} \union (User \X (SUBSET Permission) \X Text)

\* The requests, by what they have come to.
Asking     == [pc : {"asked", "generate"}, user : User, perms : SUBSET Permission, text : Text, session : Nat]
Acting     == [pc : {"propose", "put", "read", "generate"}, user : User, perms : SUBSET Permission,
               text : Text, session : Nat, tool : Tool, params : Params, by : Finder]
Composing  == [pc : {"generating"}, user : User, session : Nat, key : Key]
Answering  == [pc : {"reply", "append", "answer"}, user : User, session : Nat, cites : Seq(Cite), key : Key]
Confirming == [pc : Confirm_pc, user : User, perms : SUBSET Permission, id : Nat, tool : Writes, params : Params]
Request    == {NoTurn} \union Asking \union Acting \union Composing \union Answering \union Confirming

Executing == Confirm_pc \ {"audit"}

ChatTypes ==
    /\ permitted \in [User -> SUBSET Permission]
    /\ cases \in Seq(CaseRow) /\ conversations \in Seq(ConversationRow)
    /\ offered \in Seq(Proposal)
    /\ pending \in [DOMAIN pending -> [user : User, tool : Writes, params : Params, fresh : BOOLEAN]]
    /\ DOMAIN pending \subseteq DOMAIN offered
    /\ audited \in [Writes -> [proposed : Nat, executed : Nat]]
    /\ sessions \in Seq(SessionRow)
    /\ cache \subseteq [key : Key, session : Nat]
    /\ reqs \in [Handler -> Request]
    /\ screen \in [User -> Seq(Cite)]
    /\ told \in [User -> SUBSET Nat]
    /\ done \in Seq([id : Nat, user : User, tool : Writes, params : Params])
    /\ left \in [Kinds -> Nat]

\* A case is of the company of the user of a request, who may change it.
Reached(job, n) ==
    /\ n \in DOMAIN cases
    /\ cases[n].company = EmployerOf[job.user]
    /\ "report.assign" \in job.perms \/ job.user \in cases[n].responsible

\* What is proposed is a write, and what is executed is permitted and within reach.
Sound(job) ==
    /\ job.pc \in {"propose", "put"} => job.tool \in Writes
    /\ job.pc \in Confirm_pc => Catalog[job.tool].perm \in job.perms
    /\ job.pc = "write" => Reached(job, job.params.target)
    /\ job.pc = "promote" =>
          /\ job.params.target \in DOMAIN conversations
          /\ conversations[job.params.target].company = EmployerOf[job.user]

\* The proposal of an id is in one place: pending, in the hands of a request, or done.
AsOffered(entry, id) ==
    /\ id \in DOMAIN offered
    /\ entry.user = offered[id].user /\ entry.tool = offered[id].tool /\ entry.params = offered[id].params

PendingAsOffered == \A id \in DOMAIN pending : AsOffered(pending[id], id)

Taken(id) == id \notin DOMAIN pending

RunningAsOffered ==
    \A r \in Running :
        /\ AsOffered(reqs[r], reqs[r].id) /\ Taken(reqs[r].id)
        /\ \A q \in Running : q # r => reqs[q].id # reqs[r].id
        /\ \A i \in DOMAIN done : done[i].id # reqs[r].id

DoneAsOffered ==
    \A i \in DOMAIN done :
        /\ AsOffered(done[i], done[i].id) /\ Taken(done[i].id)
        /\ \A j \in DOMAIN done : done[i].id = done[j].id => i = j

\* What the audit counts.
DoneBy(t)      == {i \in DOMAIN done : done[i].tool = t}
ExecutingBy(t) == {r \in Handler : reqs[r].pc \in Executing /\ reqs[r].tool = t}
OfferedBy(t)   == {i \in DOMAIN offered : offered[i].tool = t}
PuttingBy(t)   == {r \in Handler : reqs[r].pc = "put" /\ reqs[r].tool = t}

AuditCounts ==
    \A t \in Writes :
        /\ Cardinality(DoneBy(t)) + Cardinality(ExecutingBy(t)) <= audited[t].executed
        /\ Cardinality(OfferedBy(t)) + Cardinality(PuttingBy(t)) <= audited[t].proposed

\* The session is the user's, and so is the key.
OwnSession(s, u) == s = 0 \/ (s \in DOMAIN sessions /\ sessions[s].user = u)
OwnKey(key, u) == key = NoKey \/ key[1] = u

Private(job) ==
    /\ job.pc \in {"append", "answer"} => OwnSession(job.session, job.user)
    /\ job.pc = "append" => job.session # 0
    /\ job.pc \in {"generating", "reply", "append", "answer"} => OwnKey(job.key, job.user)

CacheIsOwn == \A e \in cache : e.key # NoKey /\ OwnSession(e.session, e.key[1])

\* The proposals are where they should be, and audited.
Confirmed == PendingAsOffered /\ RunningAsOffered /\ DoneAsOffered /\ AuditCounts

\* What a request holds and an answer tells is the user's.
Apart == (\A r \in Handler : Private(reqs[r])) /\ CacheIsOwn /\ ConversationIsOwn

\* A request writes the rows it checked, and the rows agree.
RowsKept == (\A r \in Handler : Sound(reqs[r])) /\ PromotedHasItsCase

ChatInv == ChatTypes /\ Confirmed /\ Apart /\ RowsKept

-----------------------------------------------------------------------------
(* Tools and what selecting them yields.                                     *)

\* The catalog, tool by tool.
LEMMA ToolIs ==
    /\ Tool = {"f1_find_cases", "f8_update_case", "f9_assign_case", "f10_close_case",
               "f12_inbound_read", "f13_promote_mail"}
    /\ Writes = {"f8_update_case", "f9_assign_case", "f10_close_case", "f13_promote_mail"}
    /\ \A t \in Tool : Catalog[t].write <=> t \in Writes
    /\ \A t \in Tool : Catalog[t].needs \subseteq {"target", "status"}
<1>1. Tool = {"f1_find_cases", "f8_update_case", "f9_assign_case", "f10_close_case",
              "f12_inbound_read", "f13_promote_mail"}
    BY DEF Tool, Catalog
<1>2. \A t \in Tool : Catalog[t].needs \subseteq {"target", "status"}
    BY <1>1 DEF Catalog
<1>3. Writes = {"f8_update_case", "f9_assign_case", "f10_close_case", "f13_promote_mail"}
    BY <1>1 DEF Writes, Catalog
<1> QED BY <1>1, <1>2, <1>3 DEF Writes

\* The numbers of cites are natural, and each is the number of a cite.
LEMMA NumbersTyped ==
    ASSUME NEW cites \in Seq(Cite)
    PROVE  /\ Numbers(cites) \in Seq(Nat) /\ Codes(cites) \in Seq(Nat)
           /\ Range(Codes(cites)) \subseteq Range(Numbers(cites))
<1>1. PICK n \in Nat : n = Len(cites) /\ DOMAIN cites = 1..n
    OBVIOUS
<1>2. \A i \in 1..n : cites[i] \in Cite
    BY <1>1, ElementOfSeq
<1>3. Numbers(cites) \in [1..n -> Nat]
    BY <1>1, <1>2 DEF Numbers, Cite
<1>4. Numbers(cites) \in Seq(Nat)
    BY <1>3
<1>5. <<>> \in Seq(Nat) /\ Range(<<>>) = {}
    BY DEF Range
<1> QED BY <1>4, <1>5 DEF Codes

\* A reference resolves to one of the candidates, or to none.
LEMMA ReferenceResolved ==
    ASSUME NEW text, NEW candidates \in Seq(Nat)
    PROVE  ResolveReference(text, candidates) \in {0} \union Range(candidates)
<1>1. PICK n \in Nat : n = Len(candidates) /\ DOMAIN candidates = 1..n
    OBVIOUS
<1>2. n >= 2 => candidates[2] \in Range(candidates)
    BY <1>1 DEF Range
<1>3. n >= 1 => candidates[1] \in Range(candidates)
    BY <1>1 DEF Range
<1>4. candidates # <<>> => n >= 1
    BY <1>1
<1> QED BY <1>1, <1>2, <1>3, <1>4 DEF ResolveReference

\* A target is named by the message or is one of the cites, or is none.
LEMMA TargetNamedOrCited ==
    ASSUME NEW t \in Tool, NEW text \in Text, NEW cites \in Seq(Cite)
    PROVE  TargetOf(t, text, cites) \in {0, text.code, text.number} \union Range(Numbers(cites))
<1>1. ResolveReference(text, Codes(cites)) \in {0} \union Range(Numbers(cites))
    BY NumbersTyped, ReferenceResolved
<1>2. ResolveReference(text, Numbers(cites)) \in {0} \union Range(Numbers(cites))
    BY NumbersTyped, ReferenceResolved
<1> QED BY <1>1, <1>2 DEF TargetOf, CodeOf, ConversationOf

\* A selection that matches a tool has the parameters of that tool; where the patterns
\* found them, its target comes from the message or the cites.
LEMMA SelectionTyped ==
    ASSUME NEW perms, NEW text \in Text, NEW cites \in Seq(Cite), NEW guesses \in SUBSET Nat,
           NEW s \in Selections(perms, text, cites, guesses)
    PROVE  s.tool \in Tool =>
              /\ s.params \in Params /\ s.by \in Finder
              /\ s.by = "patterns" =>
                    s.params.target \in {0, text.code, text.number} \union Range(Numbers(cites))
<1>0. "error" \notin Tool /\ None \notin Tool
    BY ToolIs DEF None
<1>1. /\ Range(Numbers(cites)) \subseteq Nat
      /\ text.code \in Nat /\ text.number \in Nat /\ text.status \in Status
  <2>1. Numbers(cites) \in Seq(Nat)
      BY NumbersTyped
  <2>2. Range(Numbers(cites)) \subseteq Nat
      BY <2>1, ElementOfSeq DEF Range
  <2> QED BY <2>2 DEF Text
<1>2. ASSUME NEW t \in Tool, s = Matched(t, Extract(t, text, cites), "patterns")
      PROVE  /\ s.params \in Params /\ s.by \in Finder
             /\ s.params.target \in {0, text.code, text.number} \union Range(Numbers(cites))
  <2>1. TargetOf(t, text, cites) \in {0, text.code, text.number} \union Range(Numbers(cites))
      BY TargetNamedOrCited
  <2>2. TargetOf(t, text, cites) \in Nat
      BY <2>1, <1>1
  <2>3. /\ s.params = Extract(t, text, cites) /\ s.by = "patterns"
        /\ s.params.target = TargetOf(t, text, cites)
      BY <1>2 DEF Matched, Extract
  <2>4. Extract(t, text, cites) \in Params
      BY <2>2, <1>1 DEF Extract, Params, Status, None
  <2> QED BY <2>1, <2>3, <2>4 DEF Finder
<1>3. ASSUME NEW t \in Tool, NEW p \in Declared(t, guesses), s = Matched(t, p, "model")
      PROVE  s.params \in Params /\ s.by = "model"
  <2>1. s.params = p /\ s.by = "model"
      BY <1>3 DEF Matched
  <2>2. guesses \union {0} \subseteq Nat /\ {0} \subseteq Nat /\ {None} \subseteq Status
      BY DEF Status
  <2>3. PICK targets, statuses :
            /\ p \in [target : targets, status : statuses]
            /\ targets \in {guesses \union {0}, {0}} /\ statuses \in {Status, {None}}
      BY DEF Declared
  <2>4. targets \subseteq Nat /\ statuses \subseteq Status
      BY <2>3, <2>2
  <2>5. p = [target |-> p.target, status |-> p.status] /\ p.target \in Nat /\ p.status \in Status
      BY <2>3, <2>4
  <2>6. p \in Params
      BY <2>5 DEF Params
  <2> QED BY <2>1, <2>6
<1>4. \A missing, filtered : Unmatched(missing, filtered).tool \notin Tool
    BY <1>0 DEF Unmatched, Matched
<1>5. Failed.tool \notin Tool
    BY <1>0 DEF Failed, Unmatched, Matched
<1>6. CASE s \in TierOne(perms, text, cites)
  <2>1. \/ \E t \in Tool : s = Matched(t, Extract(t, text, cites), "patterns")
        \/ \E missing, filtered : s = Unmatched(missing, filtered)
        \/ s = Failed
      BY <1>6 DEF TierOne, Permitted
  <2> QED BY <2>1, <1>2, <1>4, <1>5
<1>7. CASE s \in TierTwo(perms, guesses)
  <2>1. \/ \E t \in Tool : \E p \in Declared(t, guesses) : s = Matched(t, p, "model")
        \/ \E missing, filtered : s = Unmatched(missing, filtered)
      BY <1>7 DEF TierTwo, Permitted
  <2> QED BY <2>1, <1>3, <1>4 DEF Finder
<1> QED BY <1>6, <1>7 DEF Selections

\* What becomes of a turn as a tool has a tool.
LEMMA ToolKindHasTool ==
    ASSUME NEW intent, NEW s, KindOf(intent, s) = "tool", intent \in Intent
    PROVE  s.tool \in Tool
<1>1. SUFFICES ASSUME s.tool \notin Tool PROVE FALSE
    OBVIOUS
<1>2. CASE s.missing # {}
    BY <1>1, <1>2 DEF KindOf, Intent
<1>3. CASE s.missing = {} /\ intent = "authoritative"
    BY <1>1, <1>3 DEF KindOf, Intent
<1>4. CASE s.missing = {} /\ intent # "authoritative"
    BY <1>1, <1>4 DEF KindOf, Intent
<1> QED BY <1>2, <1>3, <1>4

-----------------------------------------------------------------------------
(* Requests.                                                                 *)

\* What a request has is known by how far it has come.
LEMMA RequestByPc ==
    ASSUME NEW job \in Request
    PROVE  /\ job.pc \in {"idle"} \union Turn_pc \union Confirm_pc
           /\ job.pc = "asked" => job \in Asking
           /\ job.pc = "generate" => job \in Asking \union Acting
           /\ job.pc \in {"propose", "put", "read"} => job \in Acting
           /\ job.pc = "generating" => job \in Composing
           /\ job.pc \in {"reply", "append", "answer"} => job \in Answering
           /\ job.pc \in Confirm_pc => job \in Confirming
BY DEF Request, NoTurn, Asking, Acting, Composing, Answering, Confirming, Turn_pc, Confirm_pc

\* Where a request may go on within its kind.
LEMMA RequestMoves ==
    ASSUME NEW job \in Request, NEW pc
    PROVE  /\ job.pc \in {"propose", "put", "read"} /\ pc \in {"propose", "put", "read", "generate"}
                 => [job EXCEPT !.pc = pc] \in Acting
           /\ job.pc = "asked" /\ pc = "generate" => [job EXCEPT !.pc = pc] \in Asking
           /\ job.pc \in {"reply", "append", "answer"} /\ pc \in {"reply", "append", "answer"}
                 => [job EXCEPT !.pc = pc] \in Answering
           /\ job.pc \in Confirm_pc /\ pc \in Confirm_pc => [job EXCEPT !.pc = pc] \in Confirming
           /\ job.pc # "idle" =>
                 /\ [job EXCEPT !.pc = pc].pc = pc
                 /\ [job EXCEPT !.pc = pc].user = job.user
           /\ job.pc \in Confirm_pc =>
                 /\ [job EXCEPT !.pc = pc].id = job.id /\ [job EXCEPT !.pc = pc].tool = job.tool
                 /\ [job EXCEPT !.pc = pc].params = job.params
                 /\ [job EXCEPT !.pc = pc].perms = job.perms
           /\ job.pc \in {"propose", "put", "read"} => [job EXCEPT !.pc = pc].tool = job.tool
           /\ job.pc \in {"reply", "append", "answer"} =>
                 [job EXCEPT !.pc = pc].session = job.session /\ [job EXCEPT !.pc = pc].key = job.key
<1>1. job.pc = "asked" => job \in Asking
    BY RequestByPc
<1>2. job.pc \in {"propose", "put", "read"} => job \in Acting
    BY RequestByPc
<1>3. job.pc \in {"reply", "append", "answer"} => job \in Answering
    BY RequestByPc
<1>4. job.pc \in Confirm_pc => job \in Confirming
    BY RequestByPc
<1>5. job.pc # "idle" => job \in Asking \union Acting \union Composing \union Answering \union Confirming
    BY DEF Request, NoTurn
<1>6. job.pc \in {"propose", "put", "read"} /\ pc \in {"propose", "put", "read", "generate"}
          => [job EXCEPT !.pc = pc] \in Acting
    BY <1>2 DEF Acting
<1>7. job.pc = "asked" /\ pc = "generate" => [job EXCEPT !.pc = pc] \in Asking
    BY <1>1 DEF Asking
<1>8. job.pc \in {"reply", "append", "answer"} /\ pc \in {"reply", "append", "answer"}
          => [job EXCEPT !.pc = pc] \in Answering
    BY <1>3 DEF Answering
<1>9. job.pc \in Confirm_pc /\ pc \in Confirm_pc => [job EXCEPT !.pc = pc] \in Confirming
    BY <1>4 DEF Confirming
<1>10. job.pc # "idle" =>
          /\ [job EXCEPT !.pc = pc].pc = pc
          /\ [job EXCEPT !.pc = pc].user = job.user
    BY <1>5 DEF Asking, Acting, Composing, Answering, Confirming
<1>11. job.pc \in Confirm_pc =>
          /\ [job EXCEPT !.pc = pc].id = job.id /\ [job EXCEPT !.pc = pc].tool = job.tool
          /\ [job EXCEPT !.pc = pc].params = job.params
          /\ [job EXCEPT !.pc = pc].perms = job.perms
    BY <1>4 DEF Confirming
<1>12. job.pc \in {"propose", "put", "read"} => [job EXCEPT !.pc = pc].tool = job.tool
    BY <1>2 DEF Acting
<1>13. job.pc \in {"reply", "append", "answer"} =>
          [job EXCEPT !.pc = pc].session = job.session /\ [job EXCEPT !.pc = pc].key = job.key
    BY <1>3 DEF Answering
<1> QED BY <1>6, <1>7, <1>8, <1>9, <1>10, <1>11, <1>12, <1>13

-----------------------------------------------------------------------------
(* Proposals.                                                                *)

\* A request goes on with the proposal it holds, if it goes on confirming.
CarriesOn(old, new) ==
    new.pc \in Confirm_pc =>
        /\ old.pc \in Confirm_pc
        /\ new.id = old.id /\ new.user = old.user /\ new.tool = old.tool /\ new.params = old.params

\* So, and it begins neither to execute nor to propose.
GoesOn(old, new) ==
    /\ CarriesOn(old, new)
    /\ old.pc = "audit" => new.pc \notin Executing
    /\ new.pc # "put"

LEMMA CountsAreFinite ==
    ASSUME ChatTypes, NEW t
    PROVE  /\ IsFiniteSet(DoneBy(t)) /\ IsFiniteSet(OfferedBy(t))
           /\ IsFiniteSet(ExecutingBy(t)) /\ IsFiniteSet(PuttingBy(t))
<1>5. done \in Seq([id : Nat, user : User, tool : Writes, params : Params]) /\ offered \in Seq(Proposal)
    BY DEF ChatTypes
<1>1. PICK n \in Nat : n = Len(done) /\ DOMAIN done = 1..n
    BY <1>5
<1>2. PICK m \in Nat : m = Len(offered) /\ DOMAIN offered = 1..m
    BY <1>5
<1>3. IsFiniteSet(1..n) /\ IsFiniteSet(1..m)
    BY FS_Interval
<1>4. DoneBy(t) \subseteq 1..n /\ OfferedBy(t) \subseteq 1..m
    BY <1>1, <1>2 DEF DoneBy, OfferedBy
<1>6. ExecutingBy(t) \subseteq Handler /\ PuttingBy(t) \subseteq Handler
    BY DEF ExecutingBy, PuttingBy
<1> QED BY <1>3, <1>4, <1>6, FS_Subset, ChatAssumption

\* A step of one request that carries on leaves every proposal in its place.
LEMMA OffersStay ==
    ASSUME ChatTypes, Confirmed, NEW r \in Handler, NEW job, GoOn(r, job), CarriesOn(reqs[r], job),
           UNCHANGED <<pending, offered, done>>
    PROVE  PendingAsOffered' /\ RunningAsOffered' /\ DoneAsOffered'
<1>1. \A q \in Handler : reqs'[q] = IF q = r THEN job ELSE reqs[q]
    BY DEF GoOn, ChatTypes
<1>2. PendingAsOffered' /\ DoneAsOffered'
    BY DEF Confirmed, PendingAsOffered, DoneAsOffered, AsOffered, Taken
<1>3. \A q \in Handler : reqs'[q].pc \in Confirm_pc =>
          /\ reqs[q].pc \in Confirm_pc
          /\ reqs'[q].id = reqs[q].id /\ reqs'[q].user = reqs[q].user
          /\ reqs'[q].tool = reqs[q].tool /\ reqs'[q].params = reqs[q].params
    BY <1>1 DEF CarriesOn
<1>4. Running' \subseteq Running
    BY <1>3 DEF Running
<1>5. RunningAsOffered'
    BY <1>4, <1>3 DEF Running, Confirmed, RunningAsOffered, AsOffered, Taken
<1> QED BY <1>2, <1>5

\* What the audit counts are numbers.
LEMMA CountsAreNumbers ==
    ASSUME ChatTypes, AuditCounts, NEW t \in Writes
    PROVE  /\ Cardinality(DoneBy(t)) \in Nat /\ Cardinality(OfferedBy(t)) \in Nat
           /\ Cardinality(ExecutingBy(t)) \in Nat /\ Cardinality(PuttingBy(t)) \in Nat
           /\ audited[t].executed \in Nat /\ audited[t].proposed \in Nat
           /\ Cardinality(DoneBy(t)) + Cardinality(ExecutingBy(t)) <= audited[t].executed
           /\ Cardinality(OfferedBy(t)) + Cardinality(PuttingBy(t)) <= audited[t].proposed
<1>1. /\ Cardinality(DoneBy(t)) \in Nat /\ Cardinality(OfferedBy(t)) \in Nat
      /\ Cardinality(ExecutingBy(t)) \in Nat /\ Cardinality(PuttingBy(t)) \in Nat
    BY CountsAreFinite, FS_CardinalityType
<1>2. audited[t].executed \in Nat /\ audited[t].proposed \in Nat
    BY DEF ChatTypes
<1> QED BY <1>1, <1>2 DEF AuditCounts

\* A part of a finite set has a number of elements, and no more of them.
LEMMA FewerOf ==
    ASSUME NEW S, NEW T, IsFiniteSet(S), T \subseteq S
    PROVE  Cardinality(T) \in Nat /\ Cardinality(T) <= Cardinality(S) /\ IsFiniteSet(T)
BY FS_Subset, FS_CardinalityType

\* One element makes a finite set at most one larger.
LEMMA OneMore ==
    ASSUME NEW S, NEW x, IsFiniteSet(S)
    PROVE  /\ IsFiniteSet(S \union {x}) /\ Cardinality(S \union {x}) \in Nat
           /\ Cardinality(S \union {x}) <= Cardinality(S) + 1
<1>1. Cardinality(S) \in Nat
    BY FS_CardinalityType
<1>2. /\ IsFiniteSet(S \union {x})
      /\ Cardinality(S \union {x}) = IF x \in S THEN Cardinality(S) ELSE Cardinality(S) + 1
    BY FS_AddElement
<1> QED BY <1>1, <1>2

\* A step of one request that goes on, and leaves the proposals alone.
LEMMA MoveKeepsConfirmed ==
    ASSUME ChatTypes, Confirmed, NEW r \in Handler, NEW job, GoOn(r, job), GoesOn(reqs[r], job),
           UNCHANGED <<pending, offered, done, audited>>
    PROVE  Confirmed'
<1>1. \A q \in Handler : reqs'[q] = IF q = r THEN job ELSE reqs[q]
    BY DEF GoOn, ChatTypes
<1>2. PendingAsOffered' /\ RunningAsOffered' /\ DoneAsOffered'
    BY OffersStay DEF GoesOn
<1>3. AuditCounts'
  <2> SUFFICES ASSUME NEW t \in Writes
               PROVE  /\ Cardinality(DoneBy(t)') + Cardinality(ExecutingBy(t)') <= audited'[t].executed
                      /\ Cardinality(OfferedBy(t)') + Cardinality(PuttingBy(t)') <= audited'[t].proposed
      BY DEF AuditCounts
  <2>1. DoneBy(t)' = DoneBy(t) /\ OfferedBy(t)' = OfferedBy(t)
      BY DEF DoneBy, OfferedBy
  <2>2. ExecutingBy(t)' \subseteq ExecutingBy(t)
      BY <1>1 DEF ExecutingBy, Executing, GoesOn, CarriesOn
  <2>3. PuttingBy(t)' \subseteq PuttingBy(t)
      BY <1>1 DEF PuttingBy, GoesOn
  <2>4. /\ Cardinality(ExecutingBy(t)') \in Nat /\ Cardinality(ExecutingBy(t)') <= Cardinality(ExecutingBy(t))
        /\ Cardinality(PuttingBy(t)') \in Nat /\ Cardinality(PuttingBy(t)') <= Cardinality(PuttingBy(t))
      BY <2>2, <2>3, CountsAreFinite, FewerOf
  <2> QED BY <2>1, <2>4, CountsAreNumbers DEF Confirmed
<1> QED BY <1>2, <1>3 DEF Confirmed

\* A proposal is audited before it is put.
LEMMA AuditedProposalKeepsConfirmed ==
    ASSUME ChatTypes, Confirmed, NEW r \in Handler, reqs[r].pc = "propose", reqs[r].tool \in Writes,
           NEW job, job.pc = "put", job.tool = reqs[r].tool, GoOn(r, job), Audit(reqs[r].tool, "proposed"),
           UNCHANGED <<pending, offered, done>>
    PROVE  Confirmed'
<1>1. \A q \in Handler : reqs'[q] = IF q = r THEN job ELSE reqs[q]
    BY DEF GoOn, ChatTypes
<1>2. PendingAsOffered' /\ RunningAsOffered' /\ DoneAsOffered'
    BY OffersStay DEF CarriesOn, Confirm_pc
<1>3. AuditCounts'
  <2> SUFFICES ASSUME NEW t \in Writes
               PROVE  /\ Cardinality(DoneBy(t)') + Cardinality(ExecutingBy(t)') <= audited'[t].executed
                      /\ Cardinality(OfferedBy(t)') + Cardinality(PuttingBy(t)') <= audited'[t].proposed
      BY DEF AuditCounts
  <2>1. DoneBy(t)' = DoneBy(t) /\ OfferedBy(t)' = OfferedBy(t)
      BY DEF DoneBy, OfferedBy
  <2>2. ExecutingBy(t)' \subseteq ExecutingBy(t)
      BY <1>1 DEF ExecutingBy, Executing, Confirm_pc
  <2>3. Cardinality(ExecutingBy(t)') \in Nat /\ Cardinality(ExecutingBy(t)') <= Cardinality(ExecutingBy(t))
      BY <2>2, CountsAreFinite, FewerOf
  <2>4. audited[t] \in [proposed : Nat, executed : Nat] /\ audited[reqs[r].tool] \in [proposed : Nat, executed : Nat]
      BY DEF ChatTypes
  <2>5. /\ audited'[t].executed = audited[t].executed
        /\ audited'[t].proposed = IF t = reqs[r].tool THEN audited[t].proposed + 1 ELSE audited[t].proposed
      BY <2>4 DEF Audit, ChatTypes
  <2>6. CASE t = reqs[r].tool
    <3>1. PuttingBy(t)' \subseteq PuttingBy(t) \union {r}
        BY <1>1 DEF PuttingBy
    <3>2. /\ IsFiniteSet(PuttingBy(t) \union {r})
          /\ Cardinality(PuttingBy(t) \union {r}) <= Cardinality(PuttingBy(t)) + 1
          /\ Cardinality(PuttingBy(t) \union {r}) \in Nat
        BY CountsAreFinite, OneMore
    <3>3. Cardinality(PuttingBy(t)') \in Nat /\ Cardinality(PuttingBy(t)') <= Cardinality(PuttingBy(t) \union {r})
        BY <3>1, <3>2, FewerOf
    <3> QED BY <2>1, <2>3, <2>5, <2>6, <3>2, <3>3, CountsAreNumbers DEF Confirmed
  <2>7. CASE t # reqs[r].tool
    <3>1. PuttingBy(t)' \subseteq PuttingBy(t)
        BY <1>1, <2>7 DEF PuttingBy
    <3>2. Cardinality(PuttingBy(t)') \in Nat /\ Cardinality(PuttingBy(t)') <= Cardinality(PuttingBy(t))
        BY <3>1, CountsAreFinite, FewerOf
    <3> QED BY <2>1, <2>3, <2>5, <2>7, <3>2, CountsAreNumbers DEF Confirmed
  <2> QED BY <2>6, <2>7
<1> QED BY <1>2, <1>3 DEF Confirmed

\* An execution is audited before it begins.
LEMMA AuditedExecutionKeepsConfirmed ==
    ASSUME ChatTypes, Confirmed, NEW r \in Handler, reqs[r].pc = "audit", reqs[r].tool \in Writes,
           NEW job, CarriesOn(reqs[r], job), job.pc # "put", job.tool = reqs[r].tool,
           GoOn(r, job), Audit(reqs[r].tool, "executed"), UNCHANGED <<pending, offered, done>>
    PROVE  Confirmed'
<1>1. \A q \in Handler : reqs'[q] = IF q = r THEN job ELSE reqs[q]
    BY DEF GoOn, ChatTypes
<1>2. PendingAsOffered' /\ RunningAsOffered' /\ DoneAsOffered'
    BY OffersStay
<1>3. AuditCounts'
  <2> SUFFICES ASSUME NEW t \in Writes
               PROVE  /\ Cardinality(DoneBy(t)') + Cardinality(ExecutingBy(t)') <= audited'[t].executed
                      /\ Cardinality(OfferedBy(t)') + Cardinality(PuttingBy(t)') <= audited'[t].proposed
      BY DEF AuditCounts
  <2>1. DoneBy(t)' = DoneBy(t) /\ OfferedBy(t)' = OfferedBy(t)
      BY DEF DoneBy, OfferedBy
  <2>2. PuttingBy(t)' \subseteq PuttingBy(t)
      BY <1>1 DEF PuttingBy
  <2>3. Cardinality(PuttingBy(t)') \in Nat /\ Cardinality(PuttingBy(t)') <= Cardinality(PuttingBy(t))
      BY <2>2, CountsAreFinite, FewerOf
  <2>4. audited[t] \in [proposed : Nat, executed : Nat] /\ audited[reqs[r].tool] \in [proposed : Nat, executed : Nat]
      BY DEF ChatTypes
  <2>5. /\ audited'[t].proposed = audited[t].proposed
        /\ audited'[t].executed = IF t = reqs[r].tool THEN audited[t].executed + 1 ELSE audited[t].executed
      BY <2>4 DEF Audit, ChatTypes
  <2>6. CASE t = reqs[r].tool
    <3>1. ExecutingBy(t)' \subseteq ExecutingBy(t) \union {r}
        BY <1>1 DEF ExecutingBy
    <3>2. /\ IsFiniteSet(ExecutingBy(t) \union {r})
          /\ Cardinality(ExecutingBy(t) \union {r}) <= Cardinality(ExecutingBy(t)) + 1
          /\ Cardinality(ExecutingBy(t) \union {r}) \in Nat
        BY CountsAreFinite, OneMore
    <3>3. /\ Cardinality(ExecutingBy(t)') \in Nat
          /\ Cardinality(ExecutingBy(t)') <= Cardinality(ExecutingBy(t) \union {r})
        BY <3>1, <3>2, FewerOf
    <3> QED BY <2>1, <2>3, <2>5, <2>6, <3>2, <3>3, CountsAreNumbers DEF Confirmed
  <2>7. CASE t # reqs[r].tool
    <3>1. ExecutingBy(t)' \subseteq ExecutingBy(t)
        BY <1>1, <2>7 DEF ExecutingBy
    <3>2. Cardinality(ExecutingBy(t)') \in Nat /\ Cardinality(ExecutingBy(t)') <= Cardinality(ExecutingBy(t))
        BY <3>1, CountsAreFinite, FewerOf
    <3> QED BY <2>1, <2>3, <2>5, <2>7, <3>2, CountsAreNumbers DEF Confirmed
  <2> QED BY <2>6, <2>7
<1> QED BY <1>2, <1>3 DEF Confirmed

\* A proposal is put under a fresh id, and the expired ones are dropped.
LEMMA PutKeepsConfirmed ==
    ASSUME ChatTypes, Confirmed, NEW r \in Handler, reqs[r] \in Acting, reqs[r].tool \in Writes, PutPending(r)
    PROVE  Confirmed'
<1> DEFINE entry == [user |-> reqs[r].user, tool |-> reqs[r].tool, params |-> reqs[r].params]
           live == {i \in DOMAIN pending : pending[i].fresh}
<1>1. /\ reqs[r].pc = "put"
      /\ pending' = [i \in live \union {Len(offered) + 1} |->
                        IF i = Len(offered) + 1 THEN Stored(entry) ELSE pending[i]]
      /\ offered' = Append(offered, entry) /\ Reply(r)
      /\ UNCHANGED <<audited, done>>
    BY DEF PutPending, At
<1>2. \A q \in Handler : IF q = r THEN reqs'[q].pc = "reply" ELSE reqs'[q] = reqs[q]
    BY <1>1 DEF Reply, RespondTo, GoOn, ChatTypes
<1>3. PICK m \in Nat : m = Len(offered) /\ DOMAIN offered = 1..m
  <2>1. offered \in Seq(Proposal)
      BY DEF ChatTypes
  <2> QED BY <2>1
<1>4. entry \in Proposal
    BY DEF Acting, Proposal
<1>5. /\ DOMAIN offered' = 1..(m + 1) /\ offered'[m + 1] = entry
      /\ \A i \in 1..m : offered'[i] = offered[i]
  <2>1. offered \in Seq(Proposal)
      BY DEF ChatTypes
  <2> HIDE DEF entry
  <2> QED BY <1>1, <1>3, <1>4, <2>1
<1>6. /\ m + 1 \notin 1..m /\ 1..m \subseteq 1..(m + 1) /\ m + 1 \in 1..(m + 1)
      /\ 1..(m + 1) = 1..m \union {m + 1}
    OBVIOUS
<1>7. DOMAIN pending \subseteq 1..m
    BY <1>3 DEF ChatTypes
<1>8. PendingAsOffered'
  <2> SUFFICES ASSUME NEW id \in DOMAIN pending'
               PROVE  /\ id \in 1..(m + 1) /\ pending'[id].user = offered'[id].user
                      /\ pending'[id].tool = offered'[id].tool /\ pending'[id].params = offered'[id].params
      BY <1>5 DEF PendingAsOffered, AsOffered
  <2>1. CASE id = m + 1
    <3>1. pending'[id] = Stored(entry)
        BY <1>1, <1>3, <2>1
    <3> QED BY <3>1, <1>5, <1>6, <2>1 DEF Stored
  <2>2. CASE id # m + 1
    <3>1. id \in DOMAIN pending /\ pending'[id] = pending[id]
        BY <1>1, <1>3, <2>2
    <3>2. id \in 1..m /\ offered'[id] = offered[id]
        BY <3>1, <1>5, <1>7
    <3> QED BY <3>1, <3>2, <1>6 DEF Confirmed, PendingAsOffered, AsOffered
  <2> QED BY <2>1, <2>2
<1>9. ASSUME NEW id \in 1..m, Taken(id)
      PROVE  Taken(id)'
    BY <1>1, <1>3, <1>6, <1>9 DEF Taken
<1>10. RunningAsOffered'
  <2>1. Running' = Running /\ \A q \in Running : reqs'[q] = reqs[q]
      BY <1>1, <1>2 DEF Running, Confirm_pc
  <2> SUFFICES ASSUME NEW q \in Running
               PROVE  /\ reqs[q].id \in 1..(m + 1) /\ Taken(reqs[q].id)'
                      /\ reqs[q].user = offered'[reqs[q].id].user
                      /\ reqs[q].tool = offered'[reqs[q].id].tool
                      /\ reqs[q].params = offered'[reqs[q].id].params
                      /\ \A p \in Running : p # q => reqs[p].id # reqs[q].id
                      /\ \A i \in DOMAIN done : done[i].id # reqs[q].id
      BY <2>1, <1>1, <1>5 DEF RunningAsOffered, AsOffered
  <2>2. /\ AsOffered(reqs[q], reqs[q].id) /\ Taken(reqs[q].id)
        /\ \A p \in Running : p # q => reqs[p].id # reqs[q].id
        /\ \A i \in DOMAIN done : done[i].id # reqs[q].id
      BY DEF Confirmed, RunningAsOffered
  <2>3. reqs[q].id \in 1..m /\ offered'[reqs[q].id] = offered[reqs[q].id]
      BY <2>2, <1>3, <1>5 DEF AsOffered
  <2>4. Taken(reqs[q].id)'
      BY <2>1, <2>2, <2>3, <1>1, <1>3, <1>6 DEF Taken
  <2> QED BY <2>2, <2>3, <2>4, <1>6 DEF AsOffered
<1>11. DoneAsOffered'
  <2> SUFFICES ASSUME NEW i \in DOMAIN done
               PROVE  /\ done[i].id \in 1..(m + 1) /\ Taken(done[i].id)'
                      /\ done[i].user = offered'[done[i].id].user
                      /\ done[i].tool = offered'[done[i].id].tool
                      /\ done[i].params = offered'[done[i].id].params
                      /\ \A j \in DOMAIN done : done[i].id = done[j].id => i = j
      BY <1>1, <1>5 DEF DoneAsOffered, AsOffered
  <2>1. /\ AsOffered(done[i], done[i].id) /\ Taken(done[i].id)
        /\ \A j \in DOMAIN done : done[i].id = done[j].id => i = j
      BY DEF Confirmed, DoneAsOffered
  <2>2. done[i].id \in 1..m /\ offered'[done[i].id] = offered[done[i].id]
      BY <2>1, <1>3, <1>5 DEF AsOffered
  <2>3. Taken(done[i].id)'
      BY <2>1, <2>2, <1>1, <1>3, <1>6 DEF Taken
  <2> QED BY <2>1, <2>2, <2>3, <1>6 DEF AsOffered
<1>12. AuditCounts'
  <2> SUFFICES ASSUME NEW t \in Writes
               PROVE  /\ Cardinality(DoneBy(t)') + Cardinality(ExecutingBy(t)') <= audited'[t].executed
                      /\ Cardinality(OfferedBy(t)') + Cardinality(PuttingBy(t)') <= audited'[t].proposed
      BY DEF AuditCounts
  <2>1. DoneBy(t)' = DoneBy(t) /\ audited' = audited
      BY <1>1 DEF DoneBy
  <2>2. ExecutingBy(t)' \subseteq ExecutingBy(t)
      BY <1>2 DEF ExecutingBy, Executing, Confirm_pc
  <2>3. Cardinality(ExecutingBy(t)') \in Nat /\ Cardinality(ExecutingBy(t)') <= Cardinality(ExecutingBy(t))
      BY <2>2, CountsAreFinite, FewerOf
  <2>4. PuttingBy(t)' \subseteq PuttingBy(t) \ {r}
      BY <1>2 DEF PuttingBy
  <2>5. CASE t = reqs[r].tool
    <3>1. OfferedBy(t)' \subseteq OfferedBy(t) \union {m + 1}
        BY <1>3, <1>5, <1>6 DEF OfferedBy
    <3>2. /\ IsFiniteSet(OfferedBy(t) \union {m + 1})
          /\ Cardinality(OfferedBy(t) \union {m + 1}) <= Cardinality(OfferedBy(t)) + 1
          /\ Cardinality(OfferedBy(t) \union {m + 1}) \in Nat
        BY CountsAreFinite, OneMore
    <3>3. /\ Cardinality(OfferedBy(t)') \in Nat
          /\ Cardinality(OfferedBy(t)') <= Cardinality(OfferedBy(t) \union {m + 1})
        BY <3>1, <3>2, FewerOf
    <3>4. r \in PuttingBy(t)
        BY <1>1, <2>5 DEF PuttingBy
    <3>5. /\ IsFiniteSet(PuttingBy(t) \ {r})
          /\ Cardinality(PuttingBy(t) \ {r}) = Cardinality(PuttingBy(t)) - 1
        BY <3>4, CountsAreFinite, FS_RemoveElement
    <3>6. Cardinality(PuttingBy(t)') \in Nat /\ Cardinality(PuttingBy(t)') <= Cardinality(PuttingBy(t) \ {r})
        BY <2>4, <3>5, FewerOf
    <3>7. /\ Cardinality(OfferedBy(t)) \in Nat /\ Cardinality(PuttingBy(t)) \in Nat
          /\ audited[t].proposed \in Nat
          /\ Cardinality(OfferedBy(t)) + Cardinality(PuttingBy(t)) <= audited[t].proposed
        BY CountsAreNumbers DEF Confirmed
    <3>8. Cardinality(OfferedBy(t)') + Cardinality(PuttingBy(t)') <= audited[t].proposed
        BY <3>2, <3>3, <3>5, <3>6, <3>7
    <3> QED BY <2>1, <2>3, <3>8, CountsAreNumbers DEF Confirmed
  <2>6. CASE t # reqs[r].tool
    <3>1. OfferedBy(t)' \subseteq OfferedBy(t)
        BY <1>3, <1>5, <1>6, <2>6 DEF OfferedBy
    <3>2. Cardinality(OfferedBy(t)') \in Nat /\ Cardinality(OfferedBy(t)') <= Cardinality(OfferedBy(t))
        BY <3>1, CountsAreFinite, FewerOf
    <3>3. Cardinality(PuttingBy(t)') \in Nat /\ Cardinality(PuttingBy(t)') <= Cardinality(PuttingBy(t))
        BY <2>4, CountsAreFinite, FewerOf
    <3> QED BY <2>1, <2>3, <3>2, <3>3, CountsAreNumbers DEF Confirmed
  <2> QED BY <2>5, <2>6
<1> QED BY <1>8, <1>10, <1>11, <1>12 DEF Confirmed

\* A confirmation takes the proposal, and one request at most holds it from then on.
LEMMA ConfirmKeepsConfirmed ==
    ASSUME ChatTypes, Confirmed, NEW r \in Handler, NEW u \in User, Confirm(r, u)
    PROVE  Confirmed'
<1>1. PICK id \in DOMAIN offered :
          /\ TakeRemoves(id)
          /\ IF Valid(u, id)
             THEN GoOn(r, [pc |-> "audit", user |-> u, perms |-> permitted[u], id |-> id,
                           tool |-> pending[id].tool, params |-> pending[id].params])
             ELSE UNCHANGED reqs
    BY DEF Confirm
<1>2. reqs[r].pc = "idle" /\ UNCHANGED <<audited, offered, done>>
    BY DEF Confirm, At
<1>3. /\ DOMAIN pending' = DOMAIN pending \ {id}
      /\ \A i \in DOMAIN pending' : pending'[i] = pending[i]
    BY <1>1 DEF TakeRemoves
<1>4. PendingAsOffered'
    BY <1>2, <1>3 DEF Confirmed, PendingAsOffered, AsOffered
<1>5. DoneAsOffered'
    BY <1>2, <1>3 DEF Confirmed, DoneAsOffered, AsOffered, Taken
<1>6. CASE ~Valid(u, id)
  <2>1. reqs' = reqs
      BY <1>1, <1>6
  <2>2. RunningAsOffered'
      BY <2>1, <1>2, <1>3 DEF Confirmed, RunningAsOffered, AsOffered, Running, Taken
  <2>3. AuditCounts'
      BY <2>1, <1>2 DEF Confirmed, AuditCounts, DoneBy, ExecutingBy, OfferedBy, PuttingBy
  <2> QED BY <1>4, <1>5, <2>2, <2>3 DEF Confirmed
<1>7. CASE Valid(u, id)
  <2>1. /\ id \in DOMAIN pending /\ pending[id].user = u
        /\ AsOffered(pending[id], id)
      BY <1>7 DEF Valid, Confirmed, PendingAsOffered
  <2>2. /\ reqs'[r].pc = "audit" /\ reqs'[r].user = u /\ reqs'[r].id = id
        /\ reqs'[r].tool = pending[id].tool /\ reqs'[r].params = pending[id].params
        /\ \A q \in Handler : q # r => reqs'[q] = reqs[q]
      BY <1>1, <1>7 DEF GoOn, ChatTypes
  <2>3. Running' = Running \union {r} /\ r \notin Running
      BY <1>2, <2>2 DEF Running, Confirm_pc
  <2>4. \A q \in Running : reqs[q].id # id
      BY <2>1 DEF Confirmed, RunningAsOffered, Taken
  <2>5. \A i \in DOMAIN done : done[i].id # id
      BY <2>1 DEF Confirmed, DoneAsOffered, Taken
  <2>6. ASSUME NEW q \in Running
        PROVE  /\ AsOffered(reqs[q], reqs[q].id) /\ Taken(reqs[q].id)
               /\ \A p \in Running : p # q => reqs[p].id # reqs[q].id
               /\ \A i \in DOMAIN done : done[i].id # reqs[q].id
      BY DEF Confirmed, RunningAsOffered
  <2>7. Running \subseteq Handler
      BY DEF Running
  <2>8. RunningAsOffered'
    <3> SUFFICES ASSUME NEW q \in Running'
                 PROVE  /\ AsOffered(reqs[q], reqs[q].id)' /\ Taken(reqs[q].id)'
                        /\ \A p \in Running' : p # q => reqs'[p].id # reqs'[q].id
                        /\ \A i \in DOMAIN done' : done'[i].id # reqs'[q].id
        BY DEF RunningAsOffered
    <3>1. CASE q = r
        BY <3>1, <1>2, <1>3, <2>1, <2>2, <2>3, <2>4, <2>5, <2>7 DEF AsOffered, Taken
    <3>2. CASE q # r
        BY <3>2, <1>2, <1>3, <2>2, <2>3, <2>4, <2>6, <2>7 DEF AsOffered, Taken
    <3> QED BY <3>1, <3>2
  <2>9. AuditCounts'
    <3> SUFFICES ASSUME NEW t \in Writes
                 PROVE  /\ Cardinality(DoneBy(t)') + Cardinality(ExecutingBy(t)') <= audited'[t].executed
                        /\ Cardinality(OfferedBy(t)') + Cardinality(PuttingBy(t)') <= audited'[t].proposed
        BY DEF AuditCounts
    <3>1. DoneBy(t)' = DoneBy(t) /\ OfferedBy(t)' = OfferedBy(t) /\ audited' = audited
        BY <1>2 DEF DoneBy, OfferedBy
    <3>2. ExecutingBy(t)' \subseteq ExecutingBy(t)
        BY <2>2 DEF ExecutingBy, Executing
    <3>3. PuttingBy(t)' \subseteq PuttingBy(t)
        BY <2>2 DEF PuttingBy
    <3>4. /\ Cardinality(ExecutingBy(t)') \in Nat /\ Cardinality(ExecutingBy(t)') <= Cardinality(ExecutingBy(t))
          /\ Cardinality(PuttingBy(t)') \in Nat /\ Cardinality(PuttingBy(t)') <= Cardinality(PuttingBy(t))
        BY <3>2, <3>3, CountsAreFinite, FewerOf
    <3> QED BY <3>1, <3>4, CountsAreNumbers DEF Confirmed
  <2> QED BY <1>4, <1>5, <2>8, <2>9 DEF Confirmed
<1> QED BY <1>6, <1>7

\* An execution that is done leaves the hands of its request.
LEMMA ExecutedKeepsConfirmed ==
    ASSUME ChatTypes, Confirmed, NEW r \in Handler, reqs[r].pc \in Executing, reqs[r] \in Confirming,
           Executed(r), End(r), UNCHANGED <<pending, offered, audited>>
    PROVE  Confirmed'
<1> DEFINE row == [id |-> reqs[r].id, user |-> reqs[r].user, tool |-> reqs[r].tool, params |-> reqs[r].params]
           Row == [id : Nat, user : User, tool : Writes, params : Params]
<1>1. \A q \in Handler : reqs'[q] = IF q = r THEN NoTurn ELSE reqs[q]
    BY DEF End, GoOn, ChatTypes
<1>2. r \in Running /\ r \notin Running' /\ Running' \subseteq Running
    BY <1>1 DEF Running, Executing, Confirm_pc, NoTurn
<1>3. PICK n \in Nat : n = Len(done) /\ DOMAIN done = 1..n
  <2>1. done \in Seq(Row)
      BY DEF ChatTypes
  <2> QED BY <2>1
<1>4. /\ DOMAIN done' = 1..(n + 1) /\ done'[n + 1] = row
      /\ \A i \in 1..n : done'[i] = done[i]
  <2>1. done \in Seq(Row) /\ row \in Row
      BY DEF ChatTypes, Confirming
  <2>2. done' = Append(done, row)
      BY DEF Executed
  <2> HIDE DEF row, Row
  <2> QED BY <1>3, <2>1, <2>2
<1>5. 1..(n + 1) = 1..n \union {n + 1} /\ n + 1 \notin 1..n
    OBVIOUS
<1>6. PendingAsOffered'
    BY DEF Confirmed, PendingAsOffered, AsOffered
<1>7. ASSUME NEW q \in Running
      PROVE  /\ AsOffered(reqs[q], reqs[q].id) /\ Taken(reqs[q].id)
             /\ \A p \in Running : p # q => reqs[p].id # reqs[q].id
             /\ \A i \in DOMAIN done : done[i].id # reqs[q].id
    BY DEF Confirmed, RunningAsOffered
<1>8. RunningAsOffered'
  <2> SUFFICES ASSUME NEW q \in Running'
               PROVE  /\ AsOffered(reqs[q], reqs[q].id)' /\ Taken(reqs[q].id)'
                      /\ \A p \in Running' : p # q => reqs'[p].id # reqs'[q].id
                      /\ \A i \in DOMAIN done' : done'[i].id # reqs'[q].id
      BY DEF RunningAsOffered
  <2>1. q \in Running /\ q # r /\ \A p \in Running' : reqs'[p] = reqs[p]
      BY <1>1, <1>2 DEF Running
  <2>2. AsOffered(reqs[q], reqs[q].id)' /\ Taken(reqs[q].id)'
      BY <2>1, <1>7 DEF AsOffered, Taken
  <2>3. \A p \in Running' : p # q => reqs'[p].id # reqs'[q].id
      BY <2>1, <1>2, <1>7
  <2>4. \A i \in 1..n : done'[i].id # reqs'[q].id
      BY <2>1, <1>3, <1>4, <1>7
  <2>5. done'[n + 1].id # reqs'[q].id
      BY <2>1, <1>2, <1>4, <1>7
  <2> QED BY <2>2, <2>3, <2>4, <2>5, <1>4, <1>5
<1>9. DoneAsOffered'
  <2>1. ASSUME NEW i \in 1..n
        PROVE  /\ AsOffered(done[i], done[i].id) /\ Taken(done[i].id)
               /\ \A j \in 1..n : done[i].id = done[j].id => i = j
               /\ done[i].id # row.id
      BY <1>2, <1>3, <1>7 DEF Confirmed, DoneAsOffered
  <2>2. AsOffered(row, row.id) /\ Taken(row.id)
      BY <1>2, <1>7 DEF AsOffered
  <2> HIDE DEF row
  <2> SUFFICES ASSUME NEW i \in 1..(n + 1)
               PROVE  /\ AsOffered(done[i], done[i].id)' /\ Taken(done[i].id)'
                      /\ \A j \in 1..(n + 1) : done'[i].id = done'[j].id => i = j
      BY <1>4 DEF DoneAsOffered, AsOffered, Taken
  <2>3. CASE i = n + 1
      BY <2>1, <2>2, <2>3, <1>4, <1>5 DEF AsOffered, Taken
  <2>4. CASE i \in 1..n
      BY <2>1, <2>4, <1>4, <1>5 DEF AsOffered, Taken
  <2> QED BY <2>3, <2>4, <1>5
<1>10. AuditCounts'
  <2> SUFFICES ASSUME NEW t \in Writes
               PROVE  /\ Cardinality(DoneBy(t)') + Cardinality(ExecutingBy(t)') <= audited'[t].executed
                      /\ Cardinality(OfferedBy(t)') + Cardinality(PuttingBy(t)') <= audited'[t].proposed
      BY DEF AuditCounts
  <2>1. OfferedBy(t)' = OfferedBy(t) /\ audited' = audited
      BY DEF OfferedBy
  <2>2. PuttingBy(t)' \subseteq PuttingBy(t)
      BY <1>1 DEF PuttingBy, NoTurn
  <2>3. Cardinality(PuttingBy(t)') \in Nat /\ Cardinality(PuttingBy(t)') <= Cardinality(PuttingBy(t))
      BY <2>2, CountsAreFinite, FewerOf
  <2>4. ExecutingBy(t)' \subseteq ExecutingBy(t) \ {r}
      BY <1>1 DEF ExecutingBy, Executing, Confirm_pc, NoTurn
  <2>5. CASE t = reqs[r].tool
    <3>1. DoneBy(t)' \subseteq DoneBy(t) \union {n + 1}
        BY <1>3, <1>4, <1>5 DEF DoneBy
    <3>2. /\ IsFiniteSet(DoneBy(t) \union {n + 1})
          /\ Cardinality(DoneBy(t) \union {n + 1}) <= Cardinality(DoneBy(t)) + 1
          /\ Cardinality(DoneBy(t) \union {n + 1}) \in Nat
        BY CountsAreFinite, OneMore
    <3>3. /\ Cardinality(DoneBy(t)') \in Nat
          /\ Cardinality(DoneBy(t)') <= Cardinality(DoneBy(t) \union {n + 1})
        BY <3>1, <3>2, FewerOf
    <3>4. r \in ExecutingBy(t)
        BY <2>5 DEF ExecutingBy
    <3>5. /\ IsFiniteSet(ExecutingBy(t) \ {r})
          /\ Cardinality(ExecutingBy(t) \ {r}) = Cardinality(ExecutingBy(t)) - 1
        BY <3>4, CountsAreFinite, FS_RemoveElement
    <3>6. /\ Cardinality(ExecutingBy(t)') \in Nat
          /\ Cardinality(ExecutingBy(t)') <= Cardinality(ExecutingBy(t) \ {r})
        BY <2>4, <3>5, FewerOf
    <3>7. /\ Cardinality(DoneBy(t)) \in Nat /\ Cardinality(ExecutingBy(t)) \in Nat
          /\ audited[t].executed \in Nat
          /\ Cardinality(DoneBy(t)) + Cardinality(ExecutingBy(t)) <= audited[t].executed
        BY CountsAreNumbers DEF Confirmed
    <3>8. Cardinality(DoneBy(t)') + Cardinality(ExecutingBy(t)') <= audited[t].executed
        BY <3>2, <3>3, <3>5, <3>6, <3>7
    <3> QED BY <2>1, <2>3, <3>8, CountsAreNumbers DEF Confirmed
  <2>6. CASE t # reqs[r].tool
    <3>1. DoneBy(t)' \subseteq DoneBy(t)
        BY <1>3, <1>4, <1>5, <2>6 DEF DoneBy
    <3>2. Cardinality(DoneBy(t)') \in Nat /\ Cardinality(DoneBy(t)') <= Cardinality(DoneBy(t))
        BY <3>1, CountsAreFinite, FewerOf
    <3>3. Cardinality(ExecutingBy(t)') \in Nat /\ Cardinality(ExecutingBy(t)') <= Cardinality(ExecutingBy(t))
        BY <2>4, CountsAreFinite, FewerOf
    <3> QED BY <2>1, <2>3, <3>2, <3>3, CountsAreNumbers DEF Confirmed
  <2> QED BY <2>5, <2>6
<1> QED BY <1>6, <1>8, <1>9, <1>10 DEF Confirmed

\* A proposal that expires stays what it is.
LEMMA ExpireKeepsConfirmed ==
    ASSUME ChatTypes, Confirmed, NEW id \in DOMAIN pending, ExpirePending(id)
    PROVE  Confirmed'
<1>1. /\ pending' = [pending EXCEPT ![id].fresh = FALSE]
      /\ UNCHANGED <<reqs, offered, done, audited>>
    BY DEF ExpirePending
<1>2. /\ DOMAIN pending' = DOMAIN pending
      /\ \A i \in DOMAIN pending : /\ pending'[i].user = pending[i].user
                                   /\ pending'[i].tool = pending[i].tool
                                   /\ pending'[i].params = pending[i].params
  <2>1. DOMAIN pending' = DOMAIN pending
      BY <1>1
  <2>2. \A i \in DOMAIN pending : pending[i] \in [user : User, tool : Writes, params : Params, fresh : BOOLEAN]
      BY DEF ChatTypes
  <2>3. \A i \in DOMAIN pending : i # id => pending'[i] = pending[i]
      BY <1>1
  <2>4. pending'[id] = [pending[id] EXCEPT !.fresh = FALSE]
      BY <1>1
  <2>5. /\ pending'[id].user = pending[id].user /\ pending'[id].tool = pending[id].tool
        /\ pending'[id].params = pending[id].params
      BY <2>2, <2>4
  <2> QED BY <2>1, <2>3, <2>5
<1>3. PendingAsOffered'
    BY <1>1, <1>2 DEF Confirmed, PendingAsOffered, AsOffered
<1>4. RunningAsOffered' /\ DoneAsOffered'
    BY <1>1, <1>2 DEF Confirmed, RunningAsOffered, DoneAsOffered, AsOffered, Taken, Running
<1>5. AuditCounts'
    BY <1>1 DEF Confirmed, AuditCounts, DoneBy, ExecutingBy, OfferedBy, PuttingBy
<1> QED BY <1>3, <1>4, <1>5 DEF Confirmed

\* A restart loses proposals and requests, and keeps what was done and audited.
LEMMA RestartKeepsConfirmed ==
    ASSUME ChatTypes, Confirmed, Restart
    PROVE  Confirmed'
<1>1. /\ pending' = <<>> /\ reqs' = [r \in Handler |-> NoTurn]
      /\ UNCHANGED <<offered, done, audited>>
    BY DEF Restart
<1>2. DOMAIN pending' = {}
    BY <1>1
<1>3. Running' = {}
    BY <1>1 DEF Running, NoTurn, Confirm_pc
<1>4. PendingAsOffered' /\ RunningAsOffered'
    BY <1>2, <1>3 DEF PendingAsOffered, RunningAsOffered
<1>5. DoneAsOffered'
    BY <1>1, <1>2 DEF Confirmed, DoneAsOffered, AsOffered, Taken
<1>6. AuditCounts'
  <2> SUFFICES ASSUME NEW t \in Writes
               PROVE  /\ Cardinality(DoneBy(t)') + Cardinality(ExecutingBy(t)') <= audited'[t].executed
                      /\ Cardinality(OfferedBy(t)') + Cardinality(PuttingBy(t)') <= audited'[t].proposed
      BY DEF AuditCounts
  <2>1. DoneBy(t)' = DoneBy(t) /\ OfferedBy(t)' = OfferedBy(t) /\ audited' = audited
      BY <1>1 DEF DoneBy, OfferedBy
  <2>2. ExecutingBy(t)' \subseteq ExecutingBy(t)
      BY <1>1 DEF ExecutingBy, Executing, Confirm_pc, NoTurn
  <2>3. PuttingBy(t)' \subseteq PuttingBy(t)
      BY <1>1 DEF PuttingBy, NoTurn
  <2>4. /\ Cardinality(ExecutingBy(t)') \in Nat /\ Cardinality(ExecutingBy(t)') <= Cardinality(ExecutingBy(t))
        /\ Cardinality(PuttingBy(t)') \in Nat /\ Cardinality(PuttingBy(t)') <= Cardinality(PuttingBy(t))
      BY <2>2, <2>3, CountsAreFinite, FewerOf
  <2> QED BY <2>1, <2>4, CountsAreNumbers DEF Confirmed
<1> QED BY <1>4, <1>5, <1>6 DEF Confirmed

-----------------------------------------------------------------------------
(* Sessions, cached answers and rows.                                        *)

\* Sessions keep their owners.
OwnersStay ==
    \A s \in DOMAIN sessions : s \in DOMAIN sessions' /\ sessions'[s].user = sessions[s].user

\* What was the user's stays the user's, and a request goes on with what is.
LEMMA MoveKeepsApart ==
    ASSUME ChatTypes, Apart, NEW r \in Handler, NEW job, GoOn(r, job), Private(job)', OwnersStay,
           UNCHANGED <<cache, told>>
    PROVE  Apart'
<1>1. \A q \in Handler : reqs'[q] = IF q = r THEN job ELSE reqs[q]
    BY DEF GoOn, ChatTypes
<1>2. ASSUME NEW s, NEW u, OwnSession(s, u)
      PROVE  OwnSession(s, u)'
    BY <1>2 DEF OwnSession, OwnersStay
<1>3. ASSUME NEW q \in Handler
      PROVE  Private(reqs[q])'
  <2>1. CASE q = r
      BY <1>1, <2>1 DEF Private, OwnSession, OwnKey
  <2>2. CASE q # r
    <3>1. reqs'[q] = reqs[q] /\ Private(reqs[q])
        BY <1>1, <2>2 DEF Apart
    <3> QED BY <3>1, <1>2 DEF Private, OwnKey
  <2> QED BY <2>1, <2>2
<1>4. CacheIsOwn'
    BY <1>2 DEF Apart, CacheIsOwn
<1>5. ConversationIsOwn'
    BY DEF Apart, ConversationIsOwn, OwnersStay
<1> QED BY <1>3, <1>4, <1>5 DEF Apart

\* Sessions, cache and requests alone decide it.
LEMMA IdleKeepsApart ==
    ASSUME Apart, UNCHANGED <<sessions, cache, told, reqs>>
    PROVE  Apart'
BY DEF Apart, Private, OwnSession, OwnKey, CacheIsOwn, ConversationIsOwn

\* A request that goes on soundly, with the rows as they were.
LEMMA MoveKeepsRows ==
    ASSUME ChatTypes, RowsKept, NEW r \in Handler, NEW job, GoOn(r, job), Sound(job),
           UNCHANGED <<cases, conversations>>
    PROVE  RowsKept'
<1>1. \A q \in Handler : reqs'[q] = IF q = r THEN job ELSE reqs[q]
    BY DEF GoOn, ChatTypes
<1>2. ASSUME NEW q \in Handler
      PROVE  Sound(reqs[q])'
    BY <1>1 DEF RowsKept, Sound, Reached, Confirm_pc
<1>3. PromotedHasItsCase'
    BY DEF RowsKept, PromotedHasItsCase, HasItsCase
<1> QED BY <1>2, <1>3 DEF RowsKept

LEMMA IdleKeepsRows ==
    ASSUME RowsKept, UNCHANGED <<cases, conversations, reqs>>
    PROVE  RowsKept'
BY DEF RowsKept, Sound, Reached, Confirm_pc, PromotedHasItsCase, HasItsCase

LEMMA IdleKeepsConfirmed ==
    ASSUME Confirmed, UNCHANGED <<pending, reqs, offered, done, audited>>
    PROVE  Confirmed'
<1>1. PendingAsOffered'
  BY DEF Confirmed, PendingAsOffered, AsOffered
<1>2. RunningAsOffered'
  BY DEF Confirmed, RunningAsOffered, AsOffered, Taken, Running
<1>3. DoneAsOffered'
  BY DEF Confirmed, DoneAsOffered, AsOffered, Taken
<1>4. AuditCounts'
  BY DEF Confirmed, AuditCounts, DoneBy, ExecutingBy, OfferedBy, PuttingBy
<1> QED BY <1>1, <1>2, <1>3, <1>4 DEF Confirmed

\* The bounds stay numbers.
LEMMA BoundsStayTyped ==
    ASSUME ChatTypes, NEW kind, Allow(kind) \/ UNCHANGED left
    PROVE  left' \in [Kinds -> Nat]
<1>1. CASE Allow(kind)
  <2>1. left \in [Kinds -> Nat]
      BY DEF ChatTypes
  <2>2. left' = [left EXCEPT ![kind] = left[kind] - 1] /\ left[kind] > 0
      BY <1>1 DEF Allow
  <2>3. \A k \in Kinds : left'[k] = IF k = kind THEN left[k] - 1 ELSE left[k]
      BY <2>1, <2>2
  <2>4. \A k \in Kinds : left'[k] \in Nat
      BY <2>1, <2>2, <2>3
  <2> QED BY <2>1, <2>2, <2>4
<1>2. CASE UNCHANGED left
    BY <1>2 DEF ChatTypes
<1> QED BY <1>1, <1>2

\* A step of one request which disturbs nothing else.
Others == <<permitted, chatTables, chatMemory, audited, sessions, client, offered, done>>

LEMMA MoveKeepsTypes ==
    ASSUME ChatTypes, NEW r \in Handler, NEW job \in Request, GoOn(r, job), left' \in [Kinds -> Nat],
           UNCHANGED Others
    PROVE  ChatTypes'
<1>1. reqs' \in [Handler -> Request]
    BY DEF GoOn, ChatTypes
<1> QED BY <1>1 DEF ChatTypes, Others, chatTables, chatMemory, client

LEMMA MoveKeepsInv ==
    ASSUME ChatInv, NEW r \in Handler, NEW job \in Request, GoOn(r, job), left' \in [Kinds -> Nat],
           UNCHANGED Others, GoesOn(reqs[r], job), Sound(job), Private(job)
    PROVE  ChatInv'
<1>1. UNCHANGED <<permitted, cases, conversations, pending, cache, audited, sessions, screen, told, offered, done>>
    BY DEF Others, chatTables, chatMemory, client
<1>2. ChatTypes'
    BY MoveKeepsTypes DEF ChatInv
<1>3. Confirmed'
    BY <1>1, MoveKeepsConfirmed DEF ChatInv
<1>4. Private(job)' /\ OwnersStay
    BY <1>1 DEF Private, OwnSession, OwnKey, OwnersStay
<1>5. Apart'
    BY <1>1, <1>4, MoveKeepsApart DEF ChatInv
<1>6. RowsKept'
    BY <1>1, MoveKeepsRows DEF ChatInv
<1> QED BY <1>2, <1>3, <1>5, <1>6 DEF ChatInv

\* A request that ends.
LEMMA EndKeepsInv ==
    ASSUME ChatInv, NEW r \in Handler, End(r), left' \in [Kinds -> Nat], UNCHANGED Others
    PROVE  ChatInv'
<1>1. NoTurn \in Request
    BY DEF Request
<1>2. GoesOn(reqs[r], NoTurn) /\ Sound(NoTurn) /\ Private(NoTurn)
    BY DEF NoTurn, GoesOn, CarriesOn, Executing, Confirm_pc, Sound, Private
<1> QED BY <1>1, <1>2, MoveKeepsInv DEF End

LEMMA GiveUpKeepsInv ==
    ASSUME ChatInv, NEW r \in Handler, GiveUp(r), UNCHANGED Others
    PROVE  ChatInv'
BY EndKeepsInv, BoundsStayTyped DEF GiveUp, ChatInv

\* A turn that is answered, with the key it came by or none.
LEMMA RespondKeepsInv ==
    ASSUME ChatInv, NEW r \in Handler, reqs[r].pc \in Turn_pc, NEW cites \in Seq(Cite), NEW key \in Key,
           OwnKey(key, reqs[r].user), RespondTo(r, cites, key), left' \in [Kinds -> Nat], UNCHANGED Others
    PROVE  ChatInv'
<1> DEFINE job == [pc |-> "reply", user |-> reqs[r].user, session |-> reqs[r].session,
                   cites |-> cites, key |-> key]
<1>1. reqs[r] \in Request
    BY DEF ChatInv, ChatTypes
<1>2. reqs[r] \in Asking \union Acting \union Composing \union Answering
    BY <1>1, RequestByPc DEF Turn_pc
<1>3. reqs[r].user \in User /\ reqs[r].session \in Nat
    BY <1>2 DEF Asking, Acting, Composing, Answering
<1>4. job \in Request
    BY <1>3 DEF Request, Answering
<1>5. GoesOn(reqs[r], job) /\ Sound(job) /\ Private(job)
    BY DEF GoesOn, CarriesOn, Executing, Confirm_pc, Sound, Private, Turn_pc
<1>6. GoOn(r, job)
    BY DEF RespondTo
<1> HIDE DEF job
<1> QED BY <1>4, <1>5, <1>6, MoveKeepsInv

-----------------------------------------------------------------------------
(* The steps of a turn.                                                      *)

LEMMA ReqTyped ==
    ASSUME ChatInv, NEW r \in Handler
    PROVE  reqs[r] \in Request /\ Sound(reqs[r]) /\ Private(reqs[r])
BY DEF ChatInv, ChatTypes, Apart, RowsKept

LEMMA AskKeeps ==
    ASSUME ChatInv, NEW r \in Handler, NEW u \in User, Ask(r, u)
    PROVE  ChatInv'
<1>1. PICK text \in Texts, session \in 0..MaxSessions :
          GoOn(r, [pc |-> "asked", user |-> u, perms |-> permitted[u], text |-> text, session |-> session])
    BY DEF Ask
<1> DEFINE job == [pc |-> "asked", user |-> u, perms |-> permitted[u], text |-> text, session |-> session]
<1>2. permitted[u] \in SUBSET Permission
    BY DEF ChatInv, ChatTypes
<1>3. text \in Text /\ session \in Nat
    BY ChatAssumption
<1>4. job \in Request
    BY <1>2, <1>3 DEF Request, Asking
<1>5. GoesOn(reqs[r], job) /\ Sound(job) /\ Private(job)
    BY DEF GoesOn, CarriesOn, Executing, Confirm_pc, Sound, Private
<1>6. left' \in [Kinds -> Nat] /\ UNCHANGED Others
    BY BoundsStayTyped DEF Ask, ChatInv, Others
<1> HIDE DEF job
<1> QED BY <1>1, <1>4, <1>5, <1>6, MoveKeepsInv DEF job

\* The candidates a message may refer to were listed to its user.
LEMMA CandidatesTyped ==
    ASSUME ChatInv, NEW r \in Handler, reqs[r].pc = "asked"
    PROVE  /\ reqs[r] \in Asking
           /\ CiteCandidates(r) \in Seq(Cite)
           /\ Range(Numbers(CiteCandidates(r))) \subseteq ListedTo(reqs[r].user)
<1> DEFINE u == reqs[r].user
           s == reqs[r].session
<1>1. reqs[r] \in Asking /\ u \in User /\ reqs[r].text \in Text
    BY ReqTyped, RequestByPc DEF Asking
<1>2. screen[u] \in Seq(Cite)
    BY <1>1 DEF ChatInv, ChatTypes
<1>3. Range(Numbers(screen[u])) \subseteq ListedTo(u)
    BY DEF ListedTo
<1>4. ASSUME LastCites(r) # <<>>
      PROVE  /\ LastCites(r) \in Seq(Cite)
             /\ Range(Numbers(LastCites(r))) \subseteq ListedTo(u)
  <2>1. /\ s \in DOMAIN sessions /\ sessions[s].user = u
        /\ sessions[s].turns # <<>> /\ LastCites(r) = Last(sessions[s].turns)
      BY <1>4 DEF LastCites, Owned
  <2>2. sessions[s] \in SessionRow
    <3>1. sessions \in Seq(SessionRow)
        BY DEF ChatInv, ChatTypes
    <3> QED BY <2>1, <3>1, ElementOfSeq
  <2>3. sessions[s].turns \in Seq(Seq(Cite))
      BY <2>2 DEF SessionRow
  <2>4. PICK n \in Nat : n = Len(sessions[s].turns) /\ DOMAIN sessions[s].turns = 1..n
      BY <2>3
  <2>5. n >= 1
      BY <2>1, <2>3, <2>4
  <2>6. Last(sessions[s].turns) = sessions[s].turns[n]
      BY <2>4 DEF Last
  <2>7. sessions[s].turns[n] \in Seq(Cite)
      BY <2>3, <2>4, <2>5
  <2>8. sessions[s].turns[n] \in ToSet(sessions[s].turns)
      BY <2>4, <2>5 DEF ToSet
  <2>9. Range(Numbers(sessions[s].turns[n])) \subseteq ListedTo(u)
      BY <2>1, <2>8 DEF ListedTo
  <2> QED BY <2>1, <2>6, <2>7, <2>9
<1>5. CiteCandidates(r) \in Seq(Cite) /\ Range(Numbers(CiteCandidates(r))) \subseteq ListedTo(u)
    BY <1>2, <1>3, <1>4 DEF CiteCandidates
<1> QED BY <1>1, <1>5

\* What is decided of a turn that becomes a tool.
LEMMA DecidedTyped ==
    ASSUME ChatInv, NEW r \in Handler, reqs[r].pc = "asked", NEW s \in Handle(r), s.tool \in Tool
    PROVE  /\ s.params \in Params /\ s.by \in Finder
           /\ s.by = "patterns" => s.params.target \in Referred(r)
<1>1. reqs[r].text \in Text
    BY CandidatesTyped DEF Asking
<1>2. /\ s.params \in Params /\ s.by \in Finder
      /\ s.by = "patterns" => s.params.target \in {0, reqs[r].text.code, reqs[r].text.number}
                                                    \union Range(Numbers(CiteCandidates(r)))
    BY <1>1, CandidatesTyped, SelectionTyped, ChatAssumption DEF Handle
<1> QED BY <1>2, CandidatesTyped DEF Referred

LEMMA DecideKeeps ==
    ASSUME ChatInv, NEW r \in Handler, Decide(r)
    PROVE  ChatInv'
<1>1. reqs[r].pc = "asked" /\ UNCHANGED Others
    BY DEF Decide, At, Others
<1>2. reqs[r] \in Asking /\ reqs[r] \in Request
    BY <1>1, CandidatesTyped, ReqTyped
<1>3. CASE GiveUp(r)
    BY <1>1, <1>3, GiveUpKeepsInv
<1>4. ASSUME NEW intent \in Intent, NEW s \in Handle(r), Classified(r, intent, s), UNCHANGED left
      PROVE  ChatInv'
  <2>1. left' \in [Kinds -> Nat]
      BY <1>4 DEF ChatInv, ChatTypes
  <2>2. CASE KindOf(intent, s) = "tool"
    <3>1. s.tool \in Tool /\ s.params \in Params /\ s.by \in Finder
        BY <1>1, <2>2, ToolKindHasTool, DecidedTyped
    <3>2. PICK pc \in {"propose", "read"} :
              /\ pc = "propose" => s.tool \in Writes
              /\ GoOn(r, Chosen(reqs[r], s, pc))
        BY <1>4, <2>2, <3>1, ToolIs DEF Classified, ExecuteSelection
    <3>3. Chosen(reqs[r], s, pc) \in Request
        BY <1>2, <3>1 DEF Chosen, Request, Acting, Asking
    <3>4. /\ GoesOn(reqs[r], Chosen(reqs[r], s, pc)) /\ Sound(Chosen(reqs[r], s, pc))
          /\ Private(Chosen(reqs[r], s, pc))
        BY <3>2 DEF Chosen, GoesOn, CarriesOn, Executing, Confirm_pc, Sound, Private
    <3> QED BY <1>1, <2>1, <3>2, <3>3, <3>4, MoveKeepsInv
  <2>3. CASE KindOf(intent, s) = "generative"
    <3>1. GoOn(r, [reqs[r] EXCEPT !.pc = "generate"])
        BY <1>4, <2>3 DEF Classified, Move
    <3>2. /\ [reqs[r] EXCEPT !.pc = "generate"] \in Request
          /\ [reqs[r] EXCEPT !.pc = "generate"].pc = "generate"
        BY <1>1, <1>2, RequestMoves DEF Request
    <3>3. /\ GoesOn(reqs[r], [reqs[r] EXCEPT !.pc = "generate"])
          /\ Sound([reqs[r] EXCEPT !.pc = "generate"]) /\ Private([reqs[r] EXCEPT !.pc = "generate"])
        BY <3>2 DEF GoesOn, CarriesOn, Executing, Confirm_pc, Sound, Private
    <3> QED BY <1>1, <2>1, <3>1, <3>2, <3>3, MoveKeepsInv
  <2>4. CASE KindOf(intent, s) \notin {"tool", "generative"}
    <3>1. RespondTo(r, <<>>, NoKey)
        BY <1>4, <2>4 DEF Classified, Reply
    <3>2. <<>> \in Seq(Cite) /\ NoKey \in Key /\ OwnKey(NoKey, reqs[r].user) /\ reqs[r].pc \in Turn_pc
        BY <1>1 DEF Key, OwnKey, Turn_pc
    <3> QED BY <1>1, <2>1, <3>1, <3>2, RespondKeepsInv
  <2> QED BY <2>2, <2>3, <2>4
<1> QED BY <1>3, <1>4 DEF Decide

\* A listing is a sequence of cites.
LEMMA RowsTyped ==
    ASSUME ChatInv, NEW r, NEW rows \in Rows(r)
    PROVE  rows \in Seq(Cite)
<1>1. cases \in Seq(CaseRow) /\ conversations \in Seq(ConversationRow)
    BY DEF ChatInv, ChatTypes
<1>2. PICK n \in Nat, m \in Nat : DOMAIN cases = 1..n /\ DOMAIN conversations = 1..m
  <2>1. PICK n \in Nat : n = Len(cases) /\ DOMAIN cases = 1..n
      BY <1>1
  <2>2. PICK m \in Nat : m = Len(conversations) /\ DOMAIN conversations = 1..m
      BY <1>1
  <2> QED BY <2>1, <2>2
<1>3. PICK S, kind : rows \in Newest(S, kind) /\ kind \in {"case", "conversation"} /\ (S \subseteq 1..n \/ S \subseteq 1..m)
    BY <1>2 DEF Rows
<1>4. S \subseteq Nat /\ Cardinality(S) \in Nat
  <2>1. IsFiniteSet(1..n) /\ IsFiniteSet(1..m)
      BY FS_Interval
  <2> QED BY <1>3, <2>1, FS_Subset, FS_CardinalityType
<1>5. rows \in [1..Cardinality(S) -> [kind : {kind}, n : S]]
    BY <1>3 DEF Newest
<1>6. \A i \in 1..Cardinality(S) : rows[i] \in Cite
    BY <1>3, <1>4, <1>5 DEF Cite
<1>7. rows \in [1..Cardinality(S) -> Cite]
    BY <1>5, <1>6
<1> QED BY <1>4, <1>7

\* An answer without rows.
LEMMA ReplyKeepsInv ==
    ASSUME ChatInv, NEW r \in Handler, reqs[r].pc \in Turn_pc, Reply(r), left' \in [Kinds -> Nat],
           UNCHANGED Others
    PROVE  ChatInv'
<1>1. <<>> \in Seq(Cite) /\ NoKey \in Key /\ OwnKey(NoKey, reqs[r].user)
    BY DEF Key, OwnKey
<1> QED BY <1>1, RespondKeepsInv DEF Reply

LEMMA RunHandlerKeeps ==
    ASSUME ChatInv, NEW r \in Handler, RunHandler(r)
    PROVE  ChatInv'
<1>1. reqs[r].pc = "read" /\ reqs[r].pc \in Turn_pc /\ UNCHANGED Others
    BY DEF RunHandler, At, Others, Turn_pc
<1>2. left' \in [Kinds -> Nat]
    BY BoundsStayTyped DEF RunHandler, ChatInv
<1>3. CASE \E rows \in Rows(r) : RespondTo(r, rows, NoKey)
  <2>1. PICK rows \in Rows(r) : RespondTo(r, rows, NoKey)
      BY <1>3
  <2>2. rows \in Seq(Cite) /\ NoKey \in Key /\ OwnKey(NoKey, reqs[r].user)
      BY RowsTyped DEF Key, OwnKey
  <2> QED BY <1>1, <1>2, <2>1, <2>2, RespondKeepsInv
<1>4. CASE Reply(r)
    BY <1>1, <1>2, <1>4, ReplyKeepsInv
<1>5. CASE Move(r, "generate")
  <2>1. GoOn(r, [reqs[r] EXCEPT !.pc = "generate"])
      BY <1>5 DEF Move
  <2>2. /\ [reqs[r] EXCEPT !.pc = "generate"] \in Request
        /\ [reqs[r] EXCEPT !.pc = "generate"].pc = "generate"
      BY <1>1, ReqTyped, RequestMoves DEF Request
  <2>3. /\ GoesOn(reqs[r], [reqs[r] EXCEPT !.pc = "generate"])
        /\ Sound([reqs[r] EXCEPT !.pc = "generate"]) /\ Private([reqs[r] EXCEPT !.pc = "generate"])
      BY <2>2 DEF GoesOn, CarriesOn, Executing, Confirm_pc, Sound, Private
  <2> QED BY <1>1, <1>2, <2>1, <2>2, <2>3, MoveKeepsInv
<1> QED BY <1>3, <1>4, <1>5 DEF RunHandler

\* What stays as it was keeps its type.
LEMMA AuditKeepsTypes ==
    ASSUME ChatTypes, NEW t \in Writes, NEW what \in {"proposed", "executed"}, Audit(t, what)
    PROVE  audited' \in [Writes -> [proposed : Nat, executed : Nat]]
<1>1. audited \in [Writes -> [proposed : Nat, executed : Nat]]
    BY DEF ChatTypes
<1>2. PICK row : row = [audited[t] EXCEPT ![what] = @ + 1]
    OBVIOUS
<1>3. audited[t] \in [proposed : Nat, executed : Nat]
    BY <1>1
<1>4. row \in [proposed : Nat, executed : Nat]
    BY <1>2, <1>3
<1>5. audited' = [audited EXCEPT ![t] = row]
    BY <1>2 DEF Audit
<1> QED BY <1>1, <1>4, <1>5

LEMMA AuditProposalKeeps ==
    ASSUME ChatInv, NEW r \in Handler, AuditProposal(r)
    PROVE  ChatInv'
<1>1. /\ reqs[r].pc = "propose" /\ reqs[r].pc \in Turn_pc
      /\ UNCHANGED <<permitted, cases, conversations, pending, cache, sessions, screen, told, offered, done>>
    BY DEF AuditProposal, At, Turn_pc, chatTables, chatMemory, client
<1>2. left' \in [Kinds -> Nat]
    BY BoundsStayTyped DEF AuditProposal, ChatInv
<1>3. CASE Reply(r) /\ UNCHANGED audited
  <2>1. UNCHANGED Others
      BY <1>1, <1>3 DEF Others, chatTables, chatMemory, client
  <2> QED BY <1>1, <1>2, <1>3, <2>1, ReplyKeepsInv
<1>4. CASE Audit(reqs[r].tool, "proposed") /\ Move(r, "put")
  <2>1. PICK job : job = [reqs[r] EXCEPT !.pc = "put"]
      OBVIOUS
  <2>2. GoOn(r, job)
      BY <1>4, <2>1 DEF Move
  <2>3. job \in Request /\ job.pc = "put" /\ job.tool = reqs[r].tool
      BY <1>1, <2>1, ReqTyped, RequestMoves DEF Request
  <2>4. reqs[r].tool \in Writes
      BY <1>1, ReqTyped DEF Sound, Confirm_pc
  <2>5. Sound(job) /\ Private(job)' /\ OwnersStay
      BY <1>1, <2>3, <2>4 DEF Sound, Private, OwnersStay, Confirm_pc
  <2>6. audited' \in [Writes -> [proposed : Nat, executed : Nat]]
      BY <1>4, <2>4, AuditKeepsTypes DEF ChatInv
  <2>7. reqs' \in [Handler -> Request]
      BY <2>2, <2>3 DEF GoOn, ChatInv, ChatTypes
  <2>8. ChatTypes'
      BY <1>1, <1>2, <2>6, <2>7 DEF ChatInv, ChatTypes
  <2>9. Confirmed'
      BY <1>1, <1>4, <2>2, <2>3, <2>4, AuditedProposalKeepsConfirmed DEF ChatInv
  <2>10. Apart' /\ RowsKept'
      BY <1>1, <2>2, <2>5, MoveKeepsApart, MoveKeepsRows DEF ChatInv
  <2> QED BY <2>8, <2>9, <2>10 DEF ChatInv
<1> QED BY <1>3, <1>4 DEF AuditProposal

LEMMA PutPendingKeeps ==
    ASSUME ChatInv, NEW r \in Handler, PutPending(r)
    PROVE  ChatInv'
<1> DEFINE entry == [user |-> reqs[r].user, tool |-> reqs[r].tool, params |-> reqs[r].params]
           live == {i \in DOMAIN pending : pending[i].fresh}
           Held == [user : User, tool : Writes, params : Params, fresh : BOOLEAN]
<1>0. PICK job : job = [pc |-> "reply", user |-> reqs[r].user, session |-> reqs[r].session,
                         cites |-> <<>>, key |-> NoKey]
    OBVIOUS
<1>1. /\ reqs[r].pc = "put"
      /\ pending' = [i \in live \union {Len(offered) + 1} |->
                        IF i = Len(offered) + 1 THEN Stored(entry) ELSE pending[i]]
      /\ offered' = Append(offered, entry) /\ GoOn(r, job)
      /\ UNCHANGED <<permitted, cases, conversations, cache, audited, sessions, screen, told, done, left>>
    BY <1>0 DEF PutPending, At, Reply, RespondTo, chatTables, client
<1>2. reqs[r] \in Acting /\ reqs[r].tool \in Writes
    BY <1>1, ReqTyped, RequestByPc DEF Sound, Confirm_pc
<1>3. entry \in Proposal /\ Stored(entry) \in Held
    BY <1>2 DEF Acting, Proposal, Stored
<1>4. job \in Request /\ job.pc = "reply" /\ job.key = NoKey
    BY <1>0, <1>2 DEF Request, Answering, Acting, Key
<1>5. reqs' \in [Handler -> Request]
    BY <1>1, <1>4 DEF GoOn, ChatInv, ChatTypes
<1>6. PICK m \in Nat : m = Len(offered) /\ DOMAIN offered = 1..m
  <2>1. offered \in Seq(Proposal)
      BY DEF ChatInv, ChatTypes
  <2> QED BY <2>1
<1>7. offered' \in Seq(Proposal) /\ DOMAIN offered' = 1..(m + 1)
  <2>1. offered \in Seq(Proposal)
      BY DEF ChatInv, ChatTypes
  <2> HIDE DEF entry
  <2> QED BY <1>1, <1>3, <1>6, <2>1
<1>8. pending' \in [DOMAIN pending' -> Held] /\ DOMAIN pending' \subseteq 1..(m + 1)
  <2>1. pending \in [DOMAIN pending -> Held] /\ DOMAIN pending \subseteq 1..m
      BY <1>6 DEF ChatInv, ChatTypes
  <2>2. DOMAIN pending' = live \union {m + 1}
      BY <1>1, <1>6
  <2>3. \A i \in DOMAIN pending' : pending'[i] \in Held
      BY <1>1, <1>3, <1>6, <2>1, <2>2
  <2>4. live \subseteq 1..m /\ 1..m \subseteq 1..(m + 1) /\ m + 1 \in 1..(m + 1)
      BY <2>1
  <2>5. pending' = [i \in DOMAIN pending' |-> pending'[i]]
      BY <1>1
  <2> HIDE DEF live, entry, Held
  <2> QED BY <2>2, <2>3, <2>4, <2>5
<1>9. ChatTypes'
    BY <1>1, <1>5, <1>7, <1>8 DEF ChatInv, ChatTypes
<1>10. Confirmed'
    BY <1>2, PutKeepsConfirmed DEF ChatInv
<1>11. Sound(job) /\ Private(job)' /\ OwnersStay
    BY <1>1, <1>4 DEF Sound, Private, OwnKey, OwnersStay, Confirm_pc
<1>12. Apart' /\ RowsKept'
    BY <1>1, <1>11, MoveKeepsApart, MoveKeepsRows DEF ChatInv
<1> QED BY <1>9, <1>10, <1>12 DEF ChatInv

\* The key of a request that goes on to generate is its user's.
LEMMA KeyTyped ==
    ASSUME ChatInv, NEW r \in Handler, reqs[r].pc = "generate"
    PROVE  /\ reqs[r].user \in User /\ reqs[r].session \in Nat
           /\ CacheKey(reqs[r]) \in Key /\ CacheKey(reqs[r]) # NoKey
           /\ CacheKey(reqs[r])[1] = reqs[r].user
<1>1. reqs[r] \in Asking \union Acting
    BY ReqTyped, RequestByPc
<1>2. /\ reqs[r].user \in User /\ reqs[r].session \in Nat
      /\ reqs[r].perms \in SUBSET Permission /\ reqs[r].text \in Text
    BY <1>1 DEF Asking, Acting
<1>3. CacheKey(reqs[r]) = <<reqs[r].user, reqs[r].perms, reqs[r].text>>
    BY DEF CacheKey
<1>4. CacheKey(reqs[r]) # NoKey
    BY <1>3 DEF NoKey
<1> QED BY <1>2, <1>3, <1>4 DEF Key

LEMMA LookUpKeeps ==
    ASSUME ChatInv, NEW r \in Handler, LookUp(r)
    PROVE  ChatInv'
<1>1. reqs[r].pc = "generate" /\ left' \in [Kinds -> Nat] /\ UNCHANGED Others
    BY DEF LookUp, At, Others, ChatInv, ChatTypes
<1>2. ASSUME NEW key \in {NoKey, CacheKey(reqs[r])}, GoOn(r, Generating(reqs[r], key))
      PROVE  ChatInv'
  <2>1. key \in Key /\ OwnKey(key, reqs[r].user)
      BY <1>1, KeyTyped DEF Key, OwnKey
  <2>2. Generating(reqs[r], key) \in Request
      BY <1>1, <2>1, KeyTyped DEF Generating, Request, Composing
  <2>3. /\ GoesOn(reqs[r], Generating(reqs[r], key)) /\ Sound(Generating(reqs[r], key))
        /\ Private(Generating(reqs[r], key))
      BY <2>1 DEF Generating, GoesOn, CarriesOn, Executing, Confirm_pc, Sound, Private
  <2> QED BY <1>1, <1>2, <2>2, <2>3, MoveKeepsInv
<1>3. ASSUME NEW e \in CachedResponse(r),
             GoOn(r, [pc |-> "answer", user |-> reqs[r].user, session |-> e.session,
                      cites |-> <<>>, key |-> NoKey])
      PROVE  ChatInv'
  <2> DEFINE job == [pc |-> "answer", user |-> reqs[r].user, session |-> e.session,
                     cites |-> <<>>, key |-> NoKey]
  <2>1. e \in cache /\ e.key = CacheKey(reqs[r])
      BY DEF CachedResponse
  <2>2. e.session \in Nat
      BY <2>1 DEF ChatInv, ChatTypes
  <2>3. OwnSession(e.session, reqs[r].user)
      BY <1>1, <2>1, KeyTyped DEF ChatInv, Apart, CacheIsOwn
  <2>4. job \in Request
      BY <1>1, <2>2, KeyTyped DEF Request, Answering, Key
  <2>5. GoesOn(reqs[r], job) /\ Sound(job) /\ Private(job)
      BY <2>3 DEF GoesOn, CarriesOn, Executing, Confirm_pc, Sound, Private, OwnKey
  <2> HIDE DEF job
  <2> QED BY <1>1, <1>3, <2>4, <2>5, MoveKeepsInv DEF job
<1> QED BY <1>2, <1>3 DEF LookUp

LEMMA GenerateAnswerKeeps ==
    ASSUME ChatInv, NEW r \in Handler, GenerateAnswer(r)
    PROVE  ChatInv'
<1>1. reqs[r].pc = "generating" /\ reqs[r].pc \in Turn_pc /\ UNCHANGED Others
    BY DEF GenerateAnswer, At, Others, Turn_pc
<1>2. CASE GiveUp(r)
    BY <1>1, <1>2, GiveUpKeepsInv
<1>3. ASSUME NEW key \in {reqs[r].key, NoKey}, RespondTo(r, <<>>, key), UNCHANGED left
      PROVE  ChatInv'
  <2>1. left' \in [Kinds -> Nat]
      BY <1>3 DEF ChatInv, ChatTypes
  <2>2. reqs[r] \in Composing /\ OwnKey(reqs[r].key, reqs[r].user)
      BY <1>1, ReqTyped, RequestByPc DEF Private
  <2>3. key \in Key /\ OwnKey(key, reqs[r].user) /\ <<>> \in Seq(Cite)
      BY <2>2 DEF Composing, Key, OwnKey
  <2> QED BY <1>1, <1>3, <2>1, <2>3, RespondKeepsInv
<1> QED BY <1>2, <1>3 DEF GenerateAnswer

LEMMA EnsureSessionKeeps ==
    ASSUME ChatInv, NEW r \in Handler, EnsureSession(r)
    PROVE  ChatInv'
<1>1. /\ reqs[r].pc = "reply"
      /\ UNCHANGED <<permitted, cases, conversations, pending, cache, audited, screen, told, offered, done>>
    BY DEF EnsureSession, At, chatTables, chatMemory, client
<1>2. left' \in [Kinds -> Nat]
    BY BoundsStayTyped DEF EnsureSession, ChatInv
<1>3. reqs[r] \in Answering /\ reqs[r] \in Request /\ OwnKey(reqs[r].key, reqs[r].user)
    BY <1>1, ReqTyped, RequestByPc DEF Private
<1>4. ASSUME NEW job, job \in Answering, job.pc \in {"append", "answer"}, job.user = reqs[r].user, job.key = reqs[r].key,
             job.pc = "append" => job.session # 0,
             OwnSession(job.session, job.user), GoOn(r, job), UNCHANGED sessions
      PROVE  ChatInv'
  <2>1. job \in Request
      BY <1>4 DEF Request
  <2>2. GoesOn(reqs[r], job) /\ Sound(job) /\ Private(job)
      BY <1>3, <1>4 DEF GoesOn, CarriesOn, Executing, Confirm_pc, Sound, Private
  <2>3. UNCHANGED Others
      BY <1>1, <1>4 DEF Others, chatTables, chatMemory, client
  <2> QED BY <1>2, <1>4, <2>1, <2>2, <2>3, MoveKeepsInv
<1>5. CASE /\ reqs[r].session = 0 \/ Owned(r, reqs[r].session)
           /\ Move(r, IF reqs[r].session = 0 THEN "answer" ELSE "append")
           /\ UNCHANGED sessions
  <2>1. PICK pc \in {"append", "answer"} :
            /\ Move(r, pc)
            /\ pc = "append" => reqs[r].session # 0
      BY <1>5
  <2>2. PICK job : job = [reqs[r] EXCEPT !.pc = pc]
      OBVIOUS
  <2>3. /\ job \in Answering /\ job.pc = pc /\ job.user = reqs[r].user
        /\ job.key = reqs[r].key /\ job.session = reqs[r].session
      BY <1>1, <1>3, <2>2, RequestMoves
  <2>4. OwnSession(job.session, job.user)
      BY <1>5, <2>3 DEF OwnSession, Owned
  <2> QED BY <1>4, <1>5, <2>1, <2>2, <2>3, <2>4 DEF Move
<1>6. CASE /\ GoOn(r, [reqs[r] EXCEPT !.pc = "answer", !.session = 0])
           /\ UNCHANGED sessions
  <2>1. PICK job : job = [reqs[r] EXCEPT !.pc = "answer", !.session = 0]
      OBVIOUS
  <2>2. /\ job \in Answering /\ job.pc = "answer" /\ job.user = reqs[r].user
        /\ job.key = reqs[r].key /\ job.session = 0
      BY <1>3, <2>1 DEF Answering
  <2> QED BY <1>4, <1>6, <2>1, <2>2 DEF OwnSession
<1>7. CASE /\ sessions' = Append(sessions, [user |-> reqs[r].user, turns |-> <<>>])
           /\ GoOn(r, [reqs[r] EXCEPT !.pc = "append", !.session = Len(sessions) + 1])
  <2>1. sessions \in Seq(SessionRow)
      BY DEF ChatInv, ChatTypes
  <2>2. PICK n \in Nat : n = Len(sessions) /\ DOMAIN sessions = 1..n
      BY <2>1
  <2>3. PICK row : row = [user |-> reqs[r].user, turns |-> <<>>]
      OBVIOUS
  <2>4. row \in SessionRow /\ row.user = reqs[r].user
      BY <1>3, <2>3 DEF SessionRow, Answering
  <2>5. /\ sessions' \in Seq(SessionRow) /\ DOMAIN sessions' = 1..(n + 1)
        /\ sessions'[n + 1] = row
        /\ \A s \in 1..n : sessions'[s] = sessions[s]
      BY <1>7, <2>1, <2>2, <2>3, <2>4
  <2>6. PICK job : job = [reqs[r] EXCEPT !.pc = "append", !.session = n + 1]
      OBVIOUS
  <2>7. /\ job \in Answering /\ job.pc = "append" /\ job.user = reqs[r].user
        /\ job.key = reqs[r].key /\ job.session = n + 1
    <3>1. n + 1 \in Nat
        OBVIOUS
    <3>2. PICK k \in Nat : k = n + 1
        BY <3>1
    <3>3. job = [reqs[r] EXCEPT !.pc = "append", !.session = k]
        BY <2>6, <3>2
    <3>4. /\ job \in Answering /\ job.pc = "append" /\ job.user = reqs[r].user
          /\ job.key = reqs[r].key /\ job.session = k
        BY <1>3, <3>3 DEF Answering
    <3> QED BY <3>2, <3>4
  <2>8. GoOn(r, job)
      BY <1>7, <2>2, <2>6
  <2>9. OwnersStay
      BY <2>2, <2>5 DEF OwnersStay
  <2>10. n + 1 \in 1..(n + 1) /\ n + 1 # 0
      OBVIOUS
  <2>11. Sound(job) /\ Private(job)' /\ GoesOn(reqs[r], job)
      BY <1>3, <2>4, <2>5, <2>7, <2>10
         DEF Sound, Private, OwnSession, OwnKey, GoesOn, CarriesOn, Executing, Confirm_pc
  <2>12. reqs' \in [Handler -> Request]
      BY <2>7, <2>8 DEF GoOn, ChatInv, ChatTypes, Request
  <2>13. ChatTypes'
      BY <1>1, <1>2, <2>5, <2>12 DEF ChatInv, ChatTypes
  <2>14. Confirmed' /\ Apart' /\ RowsKept'
      BY <1>1, <2>8, <2>9, <2>11, MoveKeepsConfirmed, MoveKeepsApart, MoveKeepsRows DEF ChatInv
  <2> QED BY <2>13, <2>14 DEF ChatInv
<1> QED BY <1>5, <1>6, <1>7 DEF EnsureSession

LEMMA AppendTurnKeeps ==
    ASSUME ChatInv, NEW r \in Handler, AppendTurn(r)
    PROVE  ChatInv'
<1>1. /\ reqs[r].pc = "append" /\ Move(r, "answer")
      /\ UNCHANGED <<permitted, cases, conversations, pending, cache, audited, screen, told, offered, done>>
      /\ \/ UNCHANGED sessions
         \/ sessions' = [sessions EXCEPT ![reqs[r].session].turns = Append(@, reqs[r].cites)]
    BY DEF AppendTurn, At, chatTables, chatMemory, client
<1>2. left' \in [Kinds -> Nat]
    BY BoundsStayTyped DEF AppendTurn, ChatInv
<1>3. /\ reqs[r] \in Answering /\ reqs[r] \in Request /\ OwnKey(reqs[r].key, reqs[r].user)
      /\ OwnSession(reqs[r].session, reqs[r].user)
    BY <1>1, ReqTyped, RequestByPc DEF Private
<1>4. PICK job : job = [reqs[r] EXCEPT !.pc = "answer"]
    OBVIOUS
<1>5. /\ job \in Answering /\ job.pc = "answer" /\ job.user = reqs[r].user
      /\ job.key = reqs[r].key /\ job.session = reqs[r].session
    BY <1>1, <1>3, <1>4, RequestMoves
<1>6. GoOn(r, job) /\ job \in Request
    BY <1>1, <1>4, <1>5 DEF Move, Request
<1>7. sessions \in Seq(SessionRow)
    BY DEF ChatInv, ChatTypes
<1>8. /\ sessions' \in Seq(SessionRow) /\ DOMAIN sessions' = DOMAIN sessions
      /\ \A s \in DOMAIN sessions : sessions'[s].user = sessions[s].user
  <2>1. CASE UNCHANGED sessions
      BY <1>7, <2>1
  <2>2. CASE sessions' = [sessions EXCEPT ![reqs[r].session].turns = Append(@, reqs[r].cites)]
    <3> DEFINE s == reqs[r].session
    <3>1. s \in Nat /\ reqs[r].cites \in Seq(Cite)
        BY <1>3 DEF Answering
    <3>2. PICK row : row = [sessions[s] EXCEPT !.turns = Append(@, reqs[r].cites)]
        OBVIOUS
    <3>3. sessions' = [sessions EXCEPT ![s] = row]
        BY <2>2, <3>2
    <3>4. CASE s \in DOMAIN sessions
      <4>1. sessions[s] \in SessionRow
          BY <1>7, <3>4, ElementOfSeq
      <4>2. sessions[s].turns \in Seq(Seq(Cite)) /\ sessions[s].user \in User
          BY <4>1 DEF SessionRow
      <4>3. Append(sessions[s].turns, reqs[r].cites) \in Seq(Seq(Cite))
          BY <3>1, <4>2
      <4>4. row \in SessionRow /\ row.user = sessions[s].user
          BY <3>2, <4>1, <4>3 DEF SessionRow
      <4>5. /\ DOMAIN sessions' = DOMAIN sessions
            /\ \A q \in DOMAIN sessions : sessions'[q] = IF q = s THEN row ELSE sessions[q]
          BY <3>3
      <4>6. sessions' \in Seq(SessionRow)
          BY <1>7, <3>3, <3>4, <4>4
      <4> QED BY <4>4, <4>5, <4>6
    <3>5. CASE s \notin DOMAIN sessions
      <4>1. sessions' = sessions
          BY <1>7, <3>3, <3>5
      <4> QED BY <4>1, <1>7
    <3> QED BY <3>4, <3>5
  <2> QED BY <1>1, <2>1, <2>2
<1>9. OwnersStay
    BY <1>8 DEF OwnersStay
<1>10. Sound(job) /\ Private(job)' /\ GoesOn(reqs[r], job)
    BY <1>3, <1>5, <1>8
       DEF Sound, Private, OwnSession, OwnKey, GoesOn, CarriesOn, Executing, Confirm_pc
<1>11. reqs' \in [Handler -> Request]
    BY <1>6 DEF GoOn, ChatInv, ChatTypes
<1>12. ChatTypes'
    BY <1>1, <1>2, <1>8, <1>11 DEF ChatInv, ChatTypes
<1>13. Confirmed' /\ Apart' /\ RowsKept'
    BY <1>1, <1>6, <1>9, <1>10, MoveKeepsConfirmed, MoveKeepsApart, MoveKeepsRows DEF ChatInv
<1> QED BY <1>12, <1>13 DEF ChatInv

LEMMA AnswerKeeps ==
    ASSUME ChatInv, NEW r \in Handler, Answer(r)
    PROVE  ChatInv'
<1>1. /\ reqs[r].pc = "answer" /\ End(r)
      /\ UNCHANGED <<permitted, cases, conversations, pending, audited, sessions, offered, done>>
      /\ cache' = IF reqs[r].key = NoKey THEN cache
                  ELSE {e \in cache : e.key # reqs[r].key}
                          \union {[key |-> reqs[r].key, session |-> reqs[r].session]}
    BY DEF Answer, At, chatTables
<1>2. /\ \/ told' = [told EXCEPT ![reqs[r].user] = @ \union ({reqs[r].session} \ {0})]
         \/ told' = told
      /\ screen' = screen \/ screen' = [screen EXCEPT ![reqs[r].user] = reqs[r].cites]
    BY DEF Answer, client
<1>3. left' \in [Kinds -> Nat]
    BY BoundsStayTyped DEF Answer, ChatInv
<1>4. /\ reqs[r] \in Answering
      /\ OwnKey(reqs[r].key, reqs[r].user) /\ OwnSession(reqs[r].session, reqs[r].user)
    BY <1>1, ReqTyped, RequestByPc DEF Private
<1>5. /\ reqs[r].user \in User /\ reqs[r].session \in Nat
      /\ reqs[r].cites \in Seq(Cite) /\ reqs[r].key \in Key
    BY <1>4 DEF Answering
<1>6. PICK e \in [key : Key, session : Nat] :
          e = [key |-> reqs[r].key, session |-> reqs[r].session]
    BY <1>5
<1>7. cache' \subseteq cache \/ (reqs[r].key # NoKey /\ cache' \subseteq cache \union {e})
    BY <1>1, <1>6
<1>8. GoesOn(reqs[r], NoTurn) /\ Sound(NoTurn) /\ Private(NoTurn)' /\ NoTurn \in Request
    BY DEF NoTurn, GoesOn, CarriesOn, Executing, Confirm_pc, Sound, Private, Request
<1>9. ChatTypes'
  <2>1. reqs' \in [Handler -> Request]
      BY <1>1, <1>8 DEF End, GoOn, ChatInv, ChatTypes
  <2>2. cache' \subseteq [key : Key, session : Nat]
      BY <1>7 DEF ChatInv, ChatTypes
  <2>3. told' \in [User -> SUBSET Nat]
    <3>1. told \in [User -> SUBSET Nat]
        BY DEF ChatInv, ChatTypes
    <3>2. told[reqs[r].user] \union ({reqs[r].session} \ {0}) \in SUBSET Nat
        BY <1>5, <3>1
    <3> QED BY <1>2, <3>1, <3>2
  <2>4. screen' \in [User -> Seq(Cite)]
      BY <1>2, <1>5 DEF ChatInv, ChatTypes
  <2> QED BY <1>1, <1>3, <2>1, <2>2, <2>3, <2>4 DEF ChatInv, ChatTypes
<1>10. Confirmed'
    BY <1>1, <1>8, MoveKeepsConfirmed DEF End, ChatInv
<1>11. RowsKept'
    BY <1>1, <1>8, MoveKeepsRows DEF End, ChatInv
<1>12. Apart'
  <2>1. \A q \in Handler : reqs'[q] = IF q = r THEN NoTurn ELSE reqs[q]
      BY <1>1 DEF End, GoOn, ChatInv, ChatTypes
  <2>2. \A q \in Handler : Private(reqs[q])'
      BY <2>1, <1>1, <1>8 DEF ChatInv, Apart, Private, OwnSession, OwnKey
  <2>3. CacheIsOwn'
    <3> SUFFICES ASSUME NEW f \in cache'
                 PROVE  f.key # NoKey /\ OwnSession(f.session, f.key[1])'
        BY DEF CacheIsOwn
    <3>1. CASE f \in cache
        BY <1>1, <3>1 DEF ChatInv, Apart, CacheIsOwn, OwnSession
    <3>2. CASE f \notin cache
      <4>1. f = e /\ reqs[r].key # NoKey
          BY <1>7, <3>2
      <4>2. f.key = reqs[r].key /\ f.session = reqs[r].session
          BY <1>6, <4>1
      <4>3. f.key[1] = reqs[r].user
          BY <1>4, <4>1, <4>2 DEF OwnKey
      <4> QED BY <1>1, <1>4, <4>1, <4>2, <4>3 DEF OwnSession
    <3> QED BY <3>1, <3>2
  <2>4. ConversationIsOwn'
    <3> SUFFICES ASSUME NEW u \in User, NEW s \in told'[u]
                 PROVE  s \in DOMAIN sessions /\ sessions[s].user = u
        BY <1>1 DEF ConversationIsOwn
    <3>1. CASE s \in told[u]
        BY <3>1 DEF ChatInv, Apart, ConversationIsOwn
    <3>2. CASE s \notin told[u]
      <4>1. u = reqs[r].user /\ s = reqs[r].session /\ s # 0
        <5>1. told \in [User -> SUBSET Nat]
            BY DEF ChatInv, ChatTypes
        <5> QED BY <1>2, <3>2, <5>1
      <4> QED BY <1>4, <4>1 DEF OwnSession
    <3> QED BY <3>1, <3>2
  <2> QED BY <2>2, <2>3, <2>4 DEF Apart
<1> QED BY <1>9, <1>10, <1>11, <1>12 DEF ChatInv

-----------------------------------------------------------------------------
(* The steps of a confirmation.                                              *)

LEMMA ConfirmKeeps ==
    ASSUME ChatInv, NEW r \in Handler, NEW u \in User, Confirm(r, u)
    PROVE  ChatInv'
<1> DEFINE Held == [user : User, tool : Writes, params : Params, fresh : BOOLEAN]
<1>1. PICK id \in DOMAIN offered :
          /\ TakeRemoves(id)
          /\ IF Valid(u, id)
             THEN GoOn(r, [pc |-> "audit", user |-> u, perms |-> permitted[u], id |-> id,
                           tool |-> pending[id].tool, params |-> pending[id].params])
             ELSE UNCHANGED reqs
    BY DEF Confirm
<1>2. /\ reqs[r].pc = "idle"
      /\ UNCHANGED <<permitted, cases, conversations, cache, audited, sessions, screen, told, offered, done>>
    BY DEF Confirm, At, chatTables, client
<1>3. left' \in [Kinds -> Nat]
    BY BoundsStayTyped DEF Confirm, ChatInv
<1>4. pending \in [DOMAIN pending -> Held] /\ DOMAIN pending \subseteq DOMAIN offered
    BY DEF ChatInv, ChatTypes
<1>5. pending' \in [DOMAIN pending' -> Held] /\ DOMAIN pending' \subseteq DOMAIN offered
  <2>1. pending' = [i \in DOMAIN pending \ {id} |-> pending[i]]
      BY <1>1 DEF TakeRemoves
  <2> HIDE DEF Held
  <2> QED BY <1>4, <2>1
<1>6. Confirmed'
    BY ConfirmKeepsConfirmed DEF ChatInv
<1>7. CASE ~Valid(u, id)
  <2>1. reqs' = reqs
      BY <1>1, <1>7
  <2>2. ChatTypes'
      BY <1>2, <1>3, <1>5, <2>1 DEF ChatInv, ChatTypes
  <2>3. Apart' /\ RowsKept'
      BY <1>2, <2>1, IdleKeepsApart, IdleKeepsRows DEF ChatInv
  <2> QED BY <1>6, <2>2, <2>3 DEF ChatInv
<1>8. CASE Valid(u, id)
  <2>1. PICK job : job = [pc |-> "audit", user |-> u, perms |-> permitted[u], id |-> id,
                          tool |-> pending[id].tool, params |-> pending[id].params]
      OBVIOUS
  <2>2. GoOn(r, job)
      BY <1>1, <1>8, <2>1
  <2>3. id \in Nat
    <3>1. offered \in Seq(Proposal)
        BY DEF ChatInv, ChatTypes
    <3> QED BY <3>1
  <2>4. pending[id].tool \in Writes /\ pending[id].params \in Params
      BY <1>4, <1>8 DEF Valid
  <2>5. permitted[u] \in SUBSET Permission
      BY DEF ChatInv, ChatTypes
  <2>6. job \in Confirming /\ job.pc = "audit" /\ Catalog[job.tool].perm \in job.perms
      BY <1>8, <2>1, <2>3, <2>4, <2>5 DEF Confirming, Confirm_pc, Valid
  <2>7. Sound(job) /\ Private(job)' /\ OwnersStay
      BY <1>2, <2>6 DEF Sound, Private, OwnersStay, Confirm_pc
  <2>8. reqs' \in [Handler -> Request]
      BY <2>2, <2>6 DEF GoOn, ChatInv, ChatTypes, Request
  <2>9. ChatTypes'
      BY <1>2, <1>3, <1>5, <2>8 DEF ChatInv, ChatTypes
  <2>10. Apart' /\ RowsKept'
      BY <1>2, <2>2, <2>7, MoveKeepsApart, MoveKeepsRows DEF ChatInv
  <2> QED BY <1>6, <2>9, <2>10 DEF ChatInv
<1> QED BY <1>7, <1>8

\* A confirmation that goes on with its execution.
LEMMA ExecutionMoves ==
    ASSUME ChatInv, NEW r \in Handler, reqs[r].pc \in Confirm_pc, NEW pc \in Confirm_pc, NEW job,
           job = [reqs[r] EXCEPT !.pc = pc]
    PROVE  /\ job \in Confirming /\ job \in Request /\ job.pc = pc /\ job.user = reqs[r].user
           /\ job.tool = reqs[r].tool /\ job.params = reqs[r].params /\ job.perms = reqs[r].perms
           /\ CarriesOn(reqs[r], job) /\ Private(job) /\ Catalog[job.tool].perm \in job.perms
<1>1. /\ job \in Confirming /\ job.pc = pc /\ job.user = reqs[r].user /\ job.id = reqs[r].id
      /\ job.tool = reqs[r].tool /\ job.params = reqs[r].params /\ job.perms = reqs[r].perms
    BY ReqTyped, RequestMoves DEF Confirm_pc
<1>2. CarriesOn(reqs[r], job) /\ Private(job)
    BY <1>1 DEF CarriesOn, Private, Confirm_pc
<1>3. Catalog[reqs[r].tool].perm \in reqs[r].perms
    BY DEF ChatInv, RowsKept, Sound, Confirm_pc
<1> QED BY <1>1, <1>2, <1>3 DEF Request

LEMMA AuditExecutionKeeps ==
    ASSUME ChatInv, NEW r \in Handler, AuditExecution(r)
    PROVE  ChatInv'
<1>1. /\ reqs[r].pc = "audit" /\ reqs[r].pc \in Confirm_pc
      /\ UNCHANGED <<permitted, cases, conversations, pending, cache, sessions, screen, told, offered, done>>
    BY DEF AuditExecution, At, Confirm_pc, chatTables, chatMemory, client
<1>2. CASE GiveUp(r) /\ UNCHANGED audited
  <2>1. UNCHANGED Others
      BY <1>1, <1>2 DEF Others, chatTables, chatMemory, client
  <2> QED BY <1>2, <2>1, GiveUpKeepsInv
<1>3. CASE /\ Audit(reqs[r].tool, "executed") /\ UNCHANGED left
           /\ Move(r, IF reqs[r].tool = "f13_promote_mail" THEN "select" ELSE "locate")
  <2>1. PICK pc \in {"select", "locate"} : Move(r, pc)
      BY <1>3
  <2>2. PICK job : job = [reqs[r] EXCEPT !.pc = pc]
      OBVIOUS
  <2>3. /\ job \in Confirming /\ job \in Request /\ job.pc = pc /\ job.tool = reqs[r].tool
        /\ CarriesOn(reqs[r], job) /\ Catalog[job.tool].perm \in job.perms
      BY <1>1, <2>2, ExecutionMoves DEF Confirm_pc
  <2>4. GoOn(r, job)
      BY <2>1, <2>2 DEF Move
  <2>5. reqs[r].tool \in Writes
      BY <1>1, ReqTyped, RequestByPc DEF Confirming
  <2>6. Sound(job) /\ Private(job)' /\ OwnersStay
      BY <1>1, <2>3 DEF Sound, Private, OwnersStay, Confirm_pc
  <2>7. audited' \in [Writes -> [proposed : Nat, executed : Nat]]
      BY <1>3, <2>5, AuditKeepsTypes DEF ChatInv
  <2>8. reqs' \in [Handler -> Request]
      BY <2>3, <2>4 DEF GoOn, ChatInv, ChatTypes
  <2>9. ChatTypes'
      BY <1>1, <1>3, <2>7, <2>8 DEF ChatInv, ChatTypes
  <2>10. Confirmed'
      BY <1>1, <1>3, <2>3, <2>4, <2>5, AuditedExecutionKeepsConfirmed DEF ChatInv
  <2>11. Apart' /\ RowsKept'
      BY <1>1, <2>4, <2>6, MoveKeepsApart, MoveKeepsRows DEF ChatInv
  <2> QED BY <2>9, <2>10, <2>11 DEF ChatInv
<1> QED BY <1>2, <1>3 DEF AuditExecution

LEMMA LocateKeeps ==
    ASSUME ChatInv, NEW r \in Handler, Locate(r)
    PROVE  ChatInv'
<1>1. reqs[r].pc = "locate" /\ reqs[r].pc \in Confirm_pc /\ UNCHANGED Others
    BY DEF Locate, At, Confirm_pc, Others
<1>2. left' \in [Kinds -> Nat]
    BY BoundsStayTyped DEF Locate, GiveUp, ChatInv
<1>3. CASE End(r)
    BY <1>1, <1>2, <1>3, EndKeepsInv
<1>4. CASE /\ Covered(r, reqs[r].params.target) /\ CanMutate(r, reqs[r].params.target)
           /\ Move(r, "write")
  <2>1. PICK job : job = [reqs[r] EXCEPT !.pc = "write"]
      OBVIOUS
  <2>2. /\ job \in Request /\ job.pc = "write" /\ job.params = reqs[r].params
        /\ job.user = reqs[r].user /\ job.perms = reqs[r].perms
        /\ CarriesOn(reqs[r], job) /\ Private(job) /\ Catalog[job.tool].perm \in job.perms
      BY <1>1, <2>1, ExecutionMoves DEF Confirm_pc
  <2>3. GoOn(r, job)
      BY <1>4, <2>1 DEF Move
  <2>4. Sound(job) /\ GoesOn(reqs[r], job)
      BY <1>1, <1>4, <2>2 DEF Sound, Reached, GoesOn, Covered, CompanyFor, CanMutate, Confirm_pc
  <2> QED BY <1>1, <1>2, <2>2, <2>3, <2>4, MoveKeepsInv
<1> QED BY <1>3, <1>4 DEF Locate, GiveUp

LEMMA SelectPromotableKeeps ==
    ASSUME ChatInv, NEW r \in Handler, SelectPromotable(r)
    PROVE  ChatInv'
<1>1. reqs[r].pc = "select" /\ reqs[r].pc \in Confirm_pc /\ UNCHANGED Others
    BY DEF SelectPromotable, At, Confirm_pc, Others
<1>2. left' \in [Kinds -> Nat]
    BY BoundsStayTyped DEF SelectPromotable, GiveUp, ChatInv
<1>3. CASE End(r)
    BY <1>1, <1>2, <1>3, EndKeepsInv
<1>4. CASE Promotable(r, reqs[r].params.target) /\ Move(r, "promote")
  <2>1. PICK job : job = [reqs[r] EXCEPT !.pc = "promote"]
      OBVIOUS
  <2>2. /\ job \in Request /\ job.pc = "promote" /\ job.params = reqs[r].params /\ job.user = reqs[r].user
        /\ CarriesOn(reqs[r], job) /\ Private(job) /\ Catalog[job.tool].perm \in job.perms
      BY <1>1, <2>1, ExecutionMoves DEF Confirm_pc
  <2>3. GoOn(r, job)
      BY <1>4, <2>1 DEF Move
  <2>4. Sound(job) /\ GoesOn(reqs[r], job)
      BY <1>1, <1>4, <2>2 DEF Sound, GoesOn, Promotable, CompanyFor, Confirm_pc
  <2> QED BY <1>1, <1>2, <2>2, <2>3, <2>4, MoveKeepsInv
<1> QED BY <1>3, <1>4 DEF SelectPromotable, GiveUp

\* The rows keep to each other as one case changes its status.
LEMMA UpdateCaseStatusKeeps ==
    ASSUME ChatInv, NEW r \in Handler, UpdateCaseStatus(r)
    PROVE  ChatInv'
<1>1. /\ reqs[r].pc = "write" /\ reqs[r].pc \in Confirm_pc
      /\ UNCHANGED <<permitted, conversations, pending, cache, audited, sessions, screen, told, offered>>
    BY DEF UpdateCaseStatus, At, Confirm_pc, chatMemory, client
<1>2. left' \in [Kinds -> Nat]
    BY BoundsStayTyped DEF UpdateCaseStatus, GiveUp, ChatInv
<1>3. CASE GiveUp(r) /\ UNCHANGED <<cases, done>>
  <2>1. UNCHANGED Others
      BY <1>1, <1>3 DEF Others, chatTables, chatMemory, client
  <2> QED BY <1>3, <2>1, GiveUpKeepsInv
<1>4. ASSUME Executed(r), End(r),
             cases' = [cases EXCEPT ![reqs[r].params.target].status =
                          IF reqs[r].tool = "f10_close_case" THEN "done" ELSE reqs[r].params.status]
      PROVE  ChatInv'
  <2>1. reqs[r] \in Confirming /\ reqs[r].params.target \in DOMAIN cases
      BY <1>1, ReqTyped, RequestByPc DEF Sound, Reached, Confirm_pc
  <2>2. PICK n : n = reqs[r].params.target
      OBVIOUS
  <2>3. PICK status \in Status : cases' = [cases EXCEPT ![n].status = status]
    <3>1. PICK status : status = IF reqs[r].tool = "f10_close_case" THEN "done" ELSE reqs[r].params.status
        OBVIOUS
    <3>2. reqs[r].params.status \in Status
        BY <2>1 DEF Confirming, Params
    <3>3. status \in Status
        BY <3>1, <3>2 DEF Status
    <3>4. cases' = [cases EXCEPT ![n].status = status]
        BY <1>4, <2>2, <3>1
    <3> QED BY <3>3, <3>4
  <2>4. cases \in Seq(CaseRow) /\ n \in DOMAIN cases
      BY <2>1, <2>2 DEF ChatInv, ChatTypes
  <2>5. cases[n] \in CaseRow
      BY <2>4, ElementOfSeq
  <2>6. PICK row : row = [cases[n] EXCEPT !.status = status]
      OBVIOUS
  <2>7. /\ row \in CaseRow /\ row.from = cases[n].from /\ row.company = cases[n].company
        /\ row.responsible = cases[n].responsible
      BY <2>5, <2>6 DEF CaseRow
  <2>8. cases' = [cases EXCEPT ![n] = row]
      BY <2>3, <2>6
  <2>9. cases' \in Seq(CaseRow)
      BY <2>4, <2>7, <2>8
  <2>10. /\ DOMAIN cases' = DOMAIN cases
         /\ \A m \in DOMAIN cases :
               /\ cases'[m].from = cases[m].from /\ cases'[m].company = cases[m].company
               /\ cases'[m].responsible = cases[m].responsible
      BY <2>4, <2>7, <2>8
  <2>11. reqs' \in [Handler -> Request] /\ \A q \in Handler : reqs'[q] = IF q = r THEN NoTurn ELSE reqs[q]
      BY <1>4 DEF End, GoOn, ChatInv, ChatTypes, Request
  <2>12. done' \in Seq([id : Nat, user : User, tool : Writes, params : Params])
    <3> DEFINE Row == [id : Nat, user : User, tool : Writes, params : Params]
    <3>1. done \in Seq(Row)
        BY DEF ChatInv, ChatTypes
    <3>2. PICK last \in Row : done' = Append(done, last)
        BY <1>4, <2>1 DEF Executed, Confirming
    <3> HIDE DEF Row
    <3>3. done' \in Seq(Row)
        BY <3>1, <3>2
    <3> QED BY <3>3 DEF Row
  <2>13. ChatTypes'
      BY <1>1, <1>2, <2>9, <2>11, <2>12 DEF ChatInv, ChatTypes
  <2>14. Confirmed'
      BY <1>1, <1>4, <2>1, ExecutedKeepsConfirmed DEF Executing, ChatInv
  <2>15. Private(NoTurn)' /\ OwnersStay
      BY <1>1 DEF NoTurn, Private, OwnersStay
  <2>16. Apart'
      BY <1>1, <1>4, <2>15, MoveKeepsApart DEF End, ChatInv
  <2>17. RowsKept'
    <3>1. ASSUME NEW q \in Handler
          PROVE  Sound(reqs[q])'
        BY <1>1, <2>10, <2>11 DEF ChatInv, RowsKept, Sound, Reached, NoTurn, Confirm_pc
    <3>2. PromotedHasItsCase'
        BY <1>1, <2>10 DEF ChatInv, RowsKept, PromotedHasItsCase, HasItsCase
    <3> QED BY <3>1, <3>2 DEF RowsKept
  <2> QED BY <2>13, <2>14, <2>16, <2>17 DEF ChatInv
<1> QED BY <1>3, <1>4 DEF UpdateCaseStatus

\* A promotion writes the case and points the conversation to it.
LEMMA CommitPromotionKeeps ==
    ASSUME ChatInv, NEW r \in Handler, CommitPromotion(r)
    PROVE  ChatInv'
<1>1. /\ reqs[r].pc = "promote" /\ reqs[r].pc \in Confirm_pc
      /\ UNCHANGED <<permitted, pending, cache, audited, sessions, screen, told, offered>>
    BY DEF CommitPromotion, At, Confirm_pc, chatMemory, client
<1>2. left' \in [Kinds -> Nat]
    BY BoundsStayTyped DEF CommitPromotion, GiveUp, ChatInv
<1>3. CASE GiveUp(r) /\ UNCHANGED <<chatTables, done>>
  <2>1. UNCHANGED Others
      BY <1>1, <1>3 DEF Others, chatTables, chatMemory, client
  <2> QED BY <1>3, <2>1, GiveUpKeepsInv
<1>4. ASSUME Executed(r), End(r),
             cases' = Append(cases, [company |-> CompanyFor(r), status |-> "open",
                                     responsible |-> {reqs[r].user}, from |-> reqs[r].params.target]),
             conversations' = [conversations EXCEPT ![reqs[r].params.target].status = "promoted",
                                                    ![reqs[r].params.target].report = Len(cases) + 1]
      PROVE  ChatInv'
  <2>1. /\ reqs[r] \in Confirming /\ reqs[r].params.target \in DOMAIN conversations
        /\ conversations[reqs[r].params.target].company = EmployerOf[reqs[r].user]
      BY <1>1, ReqTyped, RequestByPc DEF Sound, Confirm_pc
  <2>2. PICK n : n = reqs[r].params.target
      OBVIOUS
  <2>3. cases \in Seq(CaseRow) /\ conversations \in Seq(ConversationRow) /\ n \in DOMAIN conversations
      BY <2>1, <2>2 DEF ChatInv, ChatTypes
  <2>4. PICK k \in Nat : k = Len(cases) /\ DOMAIN cases = 1..k
      BY <2>3
  <2>5. PICK new : new = [company |-> CompanyFor(r), status |-> "open",
                          responsible |-> {reqs[r].user}, from |-> n]
      OBVIOUS
  <2>6. n \in Nat /\ CompanyFor(r) \in STRING /\ reqs[r].user \in User
    <3>1. reqs[r].user \in User /\ reqs[r].params.target \in Nat
        BY <2>1 DEF Confirming, Params
    <3> QED BY <3>1, <2>2, ChatAssumption DEF CompanyFor
  <2>7. new \in CaseRow /\ new.from = n /\ new.company = conversations[n].company
    <3>1. {reqs[r].user} \in SUBSET User
        BY <2>6
    <3>2. new \in CaseRow
        BY <2>5, <2>6, <3>1 DEF CaseRow
    <3>3. new.from = n /\ new.company = CompanyFor(r)
        BY <2>5
    <3> QED BY <2>1, <2>2, <3>2, <3>3 DEF CompanyFor
  <2>8. cases' = Append(cases, new)
      BY <1>4, <2>2, <2>5
  <2>9. /\ cases' \in Seq(CaseRow) /\ DOMAIN cases' = 1..(k + 1)
        /\ cases'[k + 1] = new /\ \A m \in 1..k : cases'[m] = cases[m]
      BY <2>3, <2>4, <2>7, <2>8
  <2>10. 1..(k + 1) = 1..k \union {k + 1} /\ k + 1 \in Nat
      OBVIOUS
  <2>11. conversations[n] \in ConversationRow
      BY <2>3, ElementOfSeq
  <2>12. PICK row : row = [conversations[n] EXCEPT !.status = "promoted", !.report = k + 1]
      OBVIOUS
  <2>13. row \in ConversationRow /\ row.report = k + 1 /\ row.company = conversations[n].company
    <3>1. PICK j \in Nat : j = k + 1
        BY <2>10
    <3>2. row = [conversations[n] EXCEPT !.status = "promoted", !.report = j]
        BY <2>12, <3>1
    <3>3. row = [company |-> conversations[n].company, status |-> "promoted", report |-> j]
        BY <2>11, <3>2 DEF ConversationRow
    <3>4. conversations[n].company \in STRING
        BY <2>11 DEF ConversationRow
    <3>5. row \in ConversationRow
        BY <3>1, <3>3, <3>4 DEF ConversationRow
    <3>6. row.report = j /\ row.company = conversations[n].company
        BY <3>3
    <3> QED BY <3>1, <3>5, <3>6
  <2>14. conversations' = [conversations EXCEPT ![n] = row]
      BY <1>4, <2>2, <2>3, <2>4, <2>12
  <2>15. /\ conversations' \in Seq(ConversationRow) /\ DOMAIN conversations' = DOMAIN conversations
         /\ \A m \in DOMAIN conversations : conversations'[m] = IF m = n THEN row ELSE conversations[m]
      BY <2>3, <2>13, <2>14
  <2>16. reqs' \in [Handler -> Request] /\ \A q \in Handler : reqs'[q] = IF q = r THEN NoTurn ELSE reqs[q]
      BY <1>4 DEF End, GoOn, ChatInv, ChatTypes, Request
  <2>17. done' \in Seq([id : Nat, user : User, tool : Writes, params : Params])
    <3> DEFINE Row == [id : Nat, user : User, tool : Writes, params : Params]
    <3>1. done \in Seq(Row)
        BY DEF ChatInv, ChatTypes
    <3>2. PICK last \in Row : done' = Append(done, last)
        BY <1>4, <2>1 DEF Executed, Confirming
    <3> HIDE DEF Row
    <3>3. done' \in Seq(Row)
        BY <3>1, <3>2
    <3> QED BY <3>3 DEF Row
  <2>18. ChatTypes'
      BY <1>1, <1>2, <2>9, <2>15, <2>16, <2>17 DEF ChatInv, ChatTypes
  <2>19. Confirmed'
      BY <1>1, <1>4, <2>1, ExecutedKeepsConfirmed DEF Executing, ChatInv
  <2>20. Private(NoTurn)' /\ OwnersStay
      BY <1>1 DEF NoTurn, Private, OwnersStay
  <2>21. Apart'
      BY <1>1, <1>4, <2>20, MoveKeepsApart DEF End, ChatInv
  <2>22. RowsKept'
    <3>1. ASSUME NEW q \in Handler
          PROVE  Sound(reqs[q])'
      <4>1. \A m \in DOMAIN conversations : conversations'[m].company = conversations[m].company
          BY <2>13, <2>15
      <4> QED BY <2>4, <2>9, <2>10, <2>15, <2>16, <4>1 DEF ChatInv, RowsKept, Sound, Reached, NoTurn, Confirm_pc
    <3>2. ASSUME NEW m \in DOMAIN conversations, conversations'[m].status = "promoted"
          PROVE  HasItsCase(m, conversations', cases')
      <4>1. CASE m = n
          BY <4>1, <2>7, <2>9, <2>10, <2>13, <2>15 DEF HasItsCase
      <4>2. CASE m # n
        <5>1. conversations'[m] = conversations[m] /\ HasItsCase(m, conversations, cases)
            BY <2>15, <3>2, <4>2 DEF ChatInv, RowsKept, PromotedHasItsCase
        <5> QED BY <5>1, <2>4, <2>9, <2>10 DEF HasItsCase
      <4> QED BY <4>1, <4>2
    <3>3. PromotedHasItsCase'
        BY <2>15, <3>2 DEF PromotedHasItsCase, HasItsCase
    <3> QED BY <3>1, <3>3 DEF RowsKept
  <2> QED BY <2>18, <2>19, <2>21, <2>22 DEF ChatInv
<1> QED BY <1>3, <1>4 DEF CommitPromotion

-----------------------------------------------------------------------------
(* Around the requests.                                                      *)

LEMMA GrantKeeps ==
    ASSUME ChatInv, NEW u \in User, Grant(u)
    PROVE  ChatInv'
<1>1. PICK role \in Roles : permitted' = [permitted EXCEPT ![u] = role]
    BY DEF Grant
<1>2. UNCHANGED <<cases, conversations, pending, cache, audited, sessions, reqs, screen, told, offered, done>>
    BY DEF Grant, chatTables, chatMemory, client
<1>3. left' \in [Kinds -> Nat]
    BY BoundsStayTyped DEF Grant, ChatInv
<1>4. permitted' \in [User -> SUBSET Permission]
    BY <1>1, ChatAssumption DEF ChatInv, ChatTypes
<1>5. ChatTypes'
    BY <1>2, <1>3, <1>4 DEF ChatInv, ChatTypes
<1> QED BY <1>2, <1>5, IdleKeepsConfirmed, IdleKeepsApart, IdleKeepsRows DEF ChatInv

LEMMA ExpirePendingKeeps ==
    ASSUME ChatInv, NEW id \in DOMAIN pending, ExpirePending(id)
    PROVE  ChatInv'
<1> DEFINE Held == [user : User, tool : Writes, params : Params, fresh : BOOLEAN]
<1>1. /\ pending' = [pending EXCEPT ![id].fresh = FALSE]
      /\ UNCHANGED <<permitted, cases, conversations, cache, audited, sessions, reqs, screen, told, offered, done>>
    BY DEF ExpirePending, chatTables, client
<1>2. left' \in [Kinds -> Nat]
    BY BoundsStayTyped DEF ExpirePending, ChatInv
<1>3. pending \in [DOMAIN pending -> Held]
    BY DEF ChatInv, ChatTypes
<1>4. PICK row : row = [pending[id] EXCEPT !.fresh = FALSE]
    OBVIOUS
<1>5. row \in Held
    BY <1>3, <1>4
<1>6. pending' = [pending EXCEPT ![id] = row]
    BY <1>1, <1>4
<1>7. DOMAIN pending' = DOMAIN pending /\ pending' \in [DOMAIN pending' -> Held]
  <2> HIDE DEF Held
  <2> QED BY <1>3, <1>5, <1>6
<1>8. ChatTypes'
    BY <1>1, <1>2, <1>7 DEF ChatInv, ChatTypes
<1>9. Confirmed'
    BY ExpireKeepsConfirmed DEF ChatInv
<1> QED BY <1>1, <1>8, <1>9, IdleKeepsApart, IdleKeepsRows DEF ChatInv

LEMMA EvictKeeps ==
    ASSUME ChatInv, NEW e, Evict(e)
    PROVE  ChatInv'
<1>1. /\ cache' \subseteq cache
      /\ UNCHANGED <<permitted, cases, conversations, pending, audited, sessions, reqs, screen, told, offered, done>>
    BY DEF Evict, chatTables, client
<1>2. left' \in [Kinds -> Nat]
    BY BoundsStayTyped DEF Evict, ChatInv
<1>3. ChatTypes'
    BY <1>1, <1>2 DEF ChatInv, ChatTypes
<1>4. Apart'
    BY <1>1 DEF ChatInv, Apart, Private, OwnSession, OwnKey, CacheIsOwn, ConversationIsOwn
<1> QED BY <1>1, <1>3, <1>4, IdleKeepsConfirmed, IdleKeepsRows DEF ChatInv

LEMMA RestartKeeps ==
    ASSUME ChatInv, Restart
    PROVE  ChatInv'
<1>1. /\ pending' = <<>> /\ cache' = {} /\ reqs' = [r \in Handler |-> NoTurn]
      /\ UNCHANGED <<permitted, cases, conversations, audited, sessions, screen, told, offered, done>>
    BY DEF Restart, chatTables, client
<1>2. left' \in [Kinds -> Nat]
    BY BoundsStayTyped DEF Restart, ChatInv
<1>3. DOMAIN pending' = {} /\ pending' = [i \in {} |-> 0]
    BY <1>1
<1>4. reqs' \in [Handler -> Request]
    BY <1>1 DEF Request
<1>5. ChatTypes'
    BY <1>1, <1>2, <1>3, <1>4 DEF ChatInv, ChatTypes
<1>6. Confirmed'
    BY RestartKeepsConfirmed DEF ChatInv
<1>7. Apart'
    BY <1>1 DEF ChatInv, Apart, Private, NoTurn, CacheIsOwn, ConversationIsOwn
<1>8. RowsKept'
    BY <1>1 DEF ChatInv, RowsKept, Sound, NoTurn, PromotedHasItsCase, HasItsCase, Confirm_pc
<1> QED BY <1>5, <1>6, <1>7, <1>8 DEF ChatInv

-----------------------------------------------------------------------------
(* The theorems about the chat.                                              *)

LEMMA ChatInitiallySound ==
    ASSUME ChatInit
    PROVE  ChatInv
<1>1. PICK p \in ChatPlans :
          /\ permitted = p.permitted /\ cases = p.cases /\ conversations = p.conversations
          /\ sessions = p.sessions /\ offered = p.offered /\ left = p.may
    BY DEF ChatInit
<1>2. /\ pending = [id \in DOMAIN offered |-> Stored(offered[id])]
      /\ audited = [t \in Writes |->
            [proposed |-> Cardinality({id \in DOMAIN offered : offered[id].tool = t}), executed |-> 0]]
      /\ cache = {} /\ reqs = [r \in Handler |-> NoTurn]
      /\ screen = [u \in User |-> <<>>] /\ told = [u \in User |-> {}] /\ done = <<>>
    BY DEF ChatInit
<1>3. /\ permitted \in [User -> SUBSET Permission]
      /\ cases \in Seq(CaseRow) /\ conversations \in Seq(ConversationRow)
      /\ sessions \in Seq(SessionRow) /\ offered \in Seq(Proposal) /\ left \in [Kinds -> Nat]
      /\ \A n \in DOMAIN conversations :
            conversations[n].status = "promoted" => HasItsCase(n, conversations, cases)
    BY <1>1, ChatAssumption
<1>4. PICK m \in Nat : m = Len(offered) /\ DOMAIN offered = 1..m
    BY <1>3
<1>5. \A id \in DOMAIN offered : offered[id] \in Proposal
    BY <1>3, ElementOfSeq
<1>6. \A t : /\ IsFiniteSet(OfferedBy(t)) /\ Cardinality(OfferedBy(t)) \in Nat
  <2> TAKE t
  <2>1. OfferedBy(t) \subseteq 1..m
      BY <1>4 DEF OfferedBy
  <2>3. IsFiniteSet(1..m)
      BY FS_Interval
  <2>2. IsFiniteSet(OfferedBy(t))
      BY <2>1, <2>3, FS_Subset
  <2> QED BY <2>2, FS_CardinalityType
<1>7. audited = [t \in Writes |-> [proposed |-> Cardinality(OfferedBy(t)), executed |-> 0]]
    BY <1>2 DEF OfferedBy
<1>8. ChatTypes
  <2>1. pending \in [DOMAIN pending -> [user : User, tool : Writes, params : Params, fresh : BOOLEAN]]
    <3>1. \A id \in DOMAIN offered : Stored(offered[id]) \in [user : User, tool : Writes, params : Params, fresh : BOOLEAN]
        BY <1>5 DEF Proposal, Stored
    <3> QED BY <1>2, <3>1
  <2>2. audited \in [Writes -> [proposed : Nat, executed : Nat]]
      BY <1>6, <1>7
  <2>3. DOMAIN pending \subseteq DOMAIN offered
      BY <1>2
  <2>4. reqs \in [Handler -> Request]
      BY <1>2 DEF Request
  <2>5. screen \in [User -> Seq(Cite)] /\ told \in [User -> SUBSET Nat]
      BY <1>2
  <2>6. done \in Seq([id : Nat, user : User, tool : Writes, params : Params])
      BY <1>2
  <2>7. cache \subseteq [key : Key, session : Nat]
      BY <1>2
  <2> QED BY <1>3, <2>1, <2>2, <2>3, <2>4, <2>5, <2>6, <2>7 DEF ChatTypes
<1>9. PendingAsOffered
    BY <1>2 DEF PendingAsOffered, AsOffered, Stored
<1>10. Running = {}
    BY <1>2 DEF Running, NoTurn, Confirm_pc
<1>11. DOMAIN done = {}
    BY <1>2
<1>12. RunningAsOffered /\ DoneAsOffered
    BY <1>10, <1>11 DEF RunningAsOffered, DoneAsOffered
<1>13. AuditCounts
  <2> SUFFICES ASSUME NEW t \in Writes
               PROVE  /\ Cardinality(DoneBy(t)) + Cardinality(ExecutingBy(t)) <= audited[t].executed
                      /\ Cardinality(OfferedBy(t)) + Cardinality(PuttingBy(t)) <= audited[t].proposed
      BY DEF AuditCounts
  <2>1. DoneBy(t) = {} /\ ExecutingBy(t) = {} /\ PuttingBy(t) = {}
      BY <1>2, <1>11 DEF DoneBy, ExecutingBy, PuttingBy, NoTurn, Executing, Confirm_pc
  <2>2. Cardinality({}) = 0
      BY FS_EmptySet
  <2>3. audited[t].executed = 0 /\ audited[t].proposed = Cardinality(OfferedBy(t))
      BY <1>7
  <2> QED BY <1>6, <2>1, <2>2, <2>3
<1>14. Apart
    BY <1>2 DEF Apart, Private, NoTurn, CacheIsOwn, ConversationIsOwn
<1>15. RowsKept
    BY <1>2, <1>3 DEF RowsKept, Sound, NoTurn, PromotedHasItsCase, Confirm_pc
<1> QED BY <1>8, <1>9, <1>12, <1>13, <1>14, <1>15 DEF ChatInv, Confirmed

LEMMA ChatStepsKeep ==
    ASSUME ChatInv, [ChatNext]_chatVars
    PROVE  ChatInv'
<1>1. ASSUME NEW r \in Handler, Turn(r)
      PROVE  ChatInv'
    BY <1>1, AskKeeps, DecideKeeps, RunHandlerKeeps, AuditProposalKeeps, PutPendingKeeps, LookUpKeeps,
       GenerateAnswerKeeps, EnsureSessionKeeps, AppendTurnKeeps, AnswerKeeps DEF Turn
<1>2. ASSUME NEW r \in Handler, Confirmation(r)
      PROVE  ChatInv'
    BY <1>2, ConfirmKeeps, AuditExecutionKeeps, LocateKeeps, UpdateCaseStatusKeeps,
       SelectPromotableKeeps, CommitPromotionKeeps DEF Confirmation
<1>3. CASE UNCHANGED chatVars
  <2>1. UNCHANGED <<permitted, cases, conversations, pending, audited, sessions, cache, reqs, screen,
                    told, offered, done, left>>
      BY <1>3 DEF chatVars
  <2>2. ChatTypes'
      BY <2>1 DEF ChatInv, ChatTypes
  <2> QED BY <2>1, <2>2, IdleKeepsConfirmed, IdleKeepsApart, IdleKeepsRows DEF ChatInv
<1> QED BY <1>1, <1>2, <1>3, GrantKeeps, ExpirePendingKeeps, EvictKeeps, RestartKeeps DEF ChatNext

LEMMA ChatInvariant == ChatSpec => []ChatInv
BY ChatInitiallySound, ChatStepsKeep, PTL DEF ChatSpec

\* Whatever requests, confirmations, expiries and restarts interleave, the chat keeps its
\* types: what a request, the pending store, the audit and a session hold.
THEOREM ChatTypeCorrect == ChatSpec => []ChatTypeOK
<1>1. ASSUME ChatInv
      PROVE  ChatTypeOK
  <2>1. ChatTypes
      BY <1>1 DEF ChatInv
  <2>2. \A n \in DOMAIN cases : cases[n].responsible \subseteq User /\ cases[n].from \in Nat
    <3>1. \A n \in DOMAIN cases : cases[n] \in CaseRow
        BY <2>1, ElementOfSeq DEF ChatTypes
    <3> QED BY <3>1 DEF CaseRow
  <2>3. ASSUME NEW s \in DOMAIN sessions
        PROVE  sessions[s].user \in User /\ \A c \in ToSet(sessions[s].turns) : ToSet(c) \subseteq Cite
    <3>1. sessions[s] \in SessionRow
        BY <2>1, ElementOfSeq DEF ChatTypes
    <3>2. sessions[s].turns \in Seq(Seq(Cite)) /\ sessions[s].user \in User
        BY <3>1 DEF SessionRow
    <3>3. ASSUME NEW c \in ToSet(sessions[s].turns)
          PROVE  ToSet(c) \subseteq Cite
      <4>1. c \in Seq(Cite)
          BY <3>2, ElementOfSeq DEF ToSet
      <4> QED BY <4>1, ElementOfSeq DEF ToSet
    <3> QED BY <3>2, <3>3
  <2>4. ASSUME NEW r \in Handler
        PROVE  reqs[r] = NoTurn \/ reqs[r].pc \in Turn_pc \union Confirm_pc
    <3>1. reqs[r] \in Request
        BY <2>1 DEF ChatTypes
    <3> QED BY <3>1 DEF Request, Asking, Acting, Composing, Answering, Confirming, Turn_pc
  <2> QED BY <2>1, <2>2, <2>3, <2>4 DEF ChatTypes, ChatTypeOK
<1> QED BY <1>1, ChatInvariant, PTL

\* A write of a tool runs at most once, as its proposer saw it, after its audit, and a
\* promoted conversation points to the case that was made of it: for any number of
\* goroutines, users, messages and confirmations, through faults, expiry and restarts.
THEOREM WritesStayConfirmed == ChatSpec => []WritesAreConfirmed
<1>1. ASSUME ChatInv
      PROVE  ExecutedAsProposed
  <2>1. \A i, j \in DOMAIN done : done[i].id = done[j].id => i = j
      BY <1>1 DEF ChatInv, Confirmed, DoneAsOffered
  <2>2. \A r \in Running, i \in DOMAIN done : reqs[r].id # done[i].id
      BY <1>1 DEF ChatInv, Confirmed, RunningAsOffered
  <2>3. ASSUME NEW i \in DOMAIN done
        PROVE  [user |-> done[i].user, tool |-> done[i].tool, params |-> done[i].params] = offered[done[i].id]
    <3>1. AsOffered(done[i], done[i].id)
        BY <1>1 DEF ChatInv, Confirmed, DoneAsOffered
    <3>2. offered \in Seq(Proposal) /\ done[i].id \in DOMAIN offered
        BY <1>1, <3>1 DEF ChatInv, ChatTypes, AsOffered
    <3>3. offered[done[i].id] \in Proposal
        BY <3>2, ElementOfSeq
    <3> QED BY <3>1, <3>3 DEF AsOffered, Proposal
  <2> QED BY <2>1, <2>2, <2>3 DEF ExecutedAsProposed
<1>2. ASSUME ChatInv
      PROVE  AuditedBefore
  <2> SUFFICES ASSUME NEW t \in Writes
               PROVE  /\ Cardinality({i \in DOMAIN done : done[i].tool = t})
                         + Cardinality({r \in Running : reqs[r].tool = t /\ reqs[r].pc # "audit"}) <= audited[t].executed
                      /\ Cardinality({i \in DOMAIN offered : offered[i].tool = t}) <= audited[t].proposed
      BY DEF AuditedBefore
  <2>1. {r \in Running : reqs[r].tool = t /\ reqs[r].pc # "audit"} = ExecutingBy(t)
      BY DEF Running, ExecutingBy, Executing
  <2>2. /\ {i \in DOMAIN done : done[i].tool = t} = DoneBy(t)
        /\ {i \in DOMAIN offered : offered[i].tool = t} = OfferedBy(t)
      BY DEF DoneBy, OfferedBy
  <2>3. ChatTypes /\ AuditCounts
      BY <1>2 DEF ChatInv, Confirmed
  <2>4. /\ Cardinality(DoneBy(t)) + Cardinality(ExecutingBy(t)) <= audited[t].executed
        /\ Cardinality(OfferedBy(t)) <= audited[t].proposed
      BY <2>3, CountsAreNumbers
  <2> QED BY <2>1, <2>2, <2>4
<1>3. ChatInv => WritesAreConfirmed
    BY <1>1, <1>2 DEF WritesAreConfirmed, ChatInv, RowsKept
<1> QED BY <1>3, ChatInvariant, PTL

\* Only deciding proposes, and what the patterns find its user saw listed or named.
LEMMA ProposedFromAsked ==
    ASSUME ChatInv, [ChatNext]_chatVars, NEW r \in Handler, reqs[r].pc = "asked", reqs'[r].pc = "propose"
    PROVE  reqs'[r].by = "patterns" => reqs'[r].params.target \in Referred(r)
<1>0. reqs \in [Handler -> Request]
    BY DEF ChatInv, ChatTypes
<1>1. \A q \in Handler : \A job : GoOn(q, job) /\ q # r => reqs'[r] = reqs[r]
    BY <1>0 DEF GoOn
<1>2. reqs' # reqs
    BY <1>0
<1>3. ASSUME NEW q \in Handler, Turn(q) \/ Confirmation(q)
      PROVE  q = r /\ Decide(r)
  <2>1. q = r
    <3>1. \E job : GoOn(q, job)
        BY <1>2, <1>3 DEF Turn, Confirmation, Ask, Decide, RunHandler, AuditProposal, PutPending, LookUp,
           GenerateAnswer, EnsureSession, AppendTurn, Answer, Confirm, AuditExecution, Locate,
           UpdateCaseStatus, SelectPromotable, CommitPromotion, GiveUp, End, Move, Reply, RespondTo,
           Classified, ExecuteSelection
    <3> QED BY <1>1, <3>1
  <2> QED BY <1>3, <2>1 DEF Turn, Confirmation, Ask, RunHandler, AuditProposal, PutPending, LookUp,
           GenerateAnswer, EnsureSession, AppendTurn, Answer, Confirm, AuditExecution, Locate,
           UpdateCaseStatus, SelectPromotable, CommitPromotion, At
<1>4. Decide(r)
  <2>1. ~Restart
      BY DEF Restart, NoTurn
  <2>2. \/ \E q \in Handler : Turn(q) \/ Confirmation(q)
        \/ reqs' = reqs
        \/ Restart
      BY DEF ChatNext, chatVars, Grant, ExpirePending, Evict
  <2> QED BY <1>2, <1>3, <2>1, <2>2
<1>5. reqs[r] \in Asking
    BY ReqTyped, RequestByPc
<1>6. ~GiveUp(r)
    BY <1>0 DEF GiveUp, End, GoOn, NoTurn
<1>7. PICK intent \in Intent, s \in Handle(r) : Classified(r, intent, s)
    BY <1>4, <1>6 DEF Decide
<1>8. KindOf(intent, s) = "tool"
  <2>1. ~Reply(r)
      BY <1>0 DEF Reply, RespondTo, GoOn
  <2>2. ~Move(r, "generate")
    <3>1. [reqs[r] EXCEPT !.pc = "generate"].pc = "generate"
        BY <1>5 DEF Asking
    <3> QED BY <1>0, <3>1 DEF Move, GoOn
  <2> QED BY <1>7, <2>1, <2>2 DEF Classified
<1>9. reqs'[r].params = s.params /\ reqs'[r].by = s.by
    BY <1>0, <1>7, <1>8 DEF Classified, ExecuteSelection, GoOn, Chosen
<1>10. s.tool \in Tool
    BY <1>8, ToolKindHasTool
<1> QED BY <1>9, <1>10, DecidedTyped

\* Only executing a write changes a row, and it changes the one it checked.
LEMMA ChangedWithinReach ==
    ASSUME ChatInv, [ChatNext]_chatVars
    PROVE  /\ \A n \in DOMAIN cases : cases'[n] # cases[n] =>
                 \E r \in Handler : Allowed(r) /\ cases[n].company = CompanyFor(r) /\ InCharge(r, n)
           /\ \A n \in DOMAIN conversations : conversations'[n] # conversations[n] =>
                 \E r \in Handler : Allowed(r) /\ conversations[n].company = CompanyFor(r)
<1> DEFINE Reach == /\ \A n \in DOMAIN cases : cases'[n] # cases[n] =>
                         \E r \in Handler : Allowed(r) /\ cases[n].company = CompanyFor(r) /\ InCharge(r, n)
                    /\ \A n \in DOMAIN conversations : conversations'[n] # conversations[n] =>
                         \E r \in Handler : Allowed(r) /\ conversations[n].company = CompanyFor(r)
<1>1. cases \in Seq(CaseRow) /\ conversations \in Seq(ConversationRow)
    BY DEF ChatInv, ChatTypes
<1>2. CASE UNCHANGED <<cases, conversations>>
    BY <1>2
<1>3. ASSUME NEW r \in Handler, UpdateCaseStatus(r)
      PROVE  Reach
  <2>1. reqs[r].pc = "write" /\ UNCHANGED conversations
      BY <1>3 DEF UpdateCaseStatus, At
  <2>2. Allowed(r) /\ Reached(reqs[r], reqs[r].params.target)
      BY <2>1 DEF ChatInv, RowsKept, Sound, Allowed, At, Confirm_pc
  <2>3. \A n \in DOMAIN cases : cases'[n] # cases[n] => n = reqs[r].params.target
      BY <1>1, <1>3 DEF UpdateCaseStatus
  <2>4. ASSUME NEW n \in DOMAIN cases, cases'[n] # cases[n]
        PROVE  Allowed(r) /\ cases[n].company = CompanyFor(r) /\ InCharge(r, n)
      BY <2>2, <2>3, <2>4 DEF Reached, CompanyFor, InCharge
  <2> QED BY <2>1, <2>4
<1>4. ASSUME NEW r \in Handler, CommitPromotion(r)
      PROVE  Reach
  <2>1. reqs[r].pc = "promote"
      BY <1>4 DEF CommitPromotion, At
  <2>2. /\ Allowed(r)
        /\ conversations[reqs[r].params.target].company = CompanyFor(r)
      BY <2>1 DEF ChatInv, RowsKept, Sound, Allowed, At, Confirm_pc, CompanyFor
  <2>3. \A n \in DOMAIN cases : cases'[n] = cases[n]
    <3>1. cases' = cases \/ \E row : cases' = Append(cases, row)
        BY <1>4 DEF CommitPromotion, chatTables
    <3>2. PICK k \in Nat : k = Len(cases) /\ DOMAIN cases = 1..k
        BY <1>1
    <3>3. \A row : \A n \in 1..k : Append(cases, row)[n] = cases[n]
        BY <1>1, <3>2
    <3> QED BY <3>1, <3>2, <3>3
  <2>4. \A n \in DOMAIN conversations : conversations'[n] # conversations[n] => n = reqs[r].params.target
      BY <1>1, <1>4 DEF CommitPromotion, chatTables
  <2>5. ASSUME NEW n \in DOMAIN conversations, conversations'[n] # conversations[n]
        PROVE  Allowed(r) /\ conversations[n].company = CompanyFor(r)
      BY <2>2, <2>4, <2>5
  <2> QED BY <2>3, <2>5
<1>5. ASSUME NEW r \in Handler, Turn(r) \/ Confirmation(r)
      PROVE  UNCHANGED <<cases, conversations>> \/ UpdateCaseStatus(r) \/ CommitPromotion(r)
    BY <1>5 DEF Turn, Confirmation, Ask, Decide, RunHandler, AuditProposal, PutPending, LookUp,
       GenerateAnswer, EnsureSession, AppendTurn, Answer, Confirm, AuditExecution, Locate,
       SelectPromotable, chatTables
<1>6. \/ \E r \in Handler : Turn(r) \/ Confirmation(r)
      \/ UNCHANGED <<cases, conversations>>
    BY DEF ChatNext, chatVars, Grant, ExpirePending, Evict, Restart, chatTables
<1> QED BY <1>2, <1>3, <1>4, <1>5, <1>6

\* A user learns of no conversation but the user's own; what the patterns find in a message
\* that does not name it was listed to that user; and whatever a model invents, a row
\* changes only for a user who may change it.
THEOREM UsersStayApart == ChatSpec => UsersAreApart
<1>1. ChatInv => ConversationIsOwn
    BY DEF ChatInv, Apart
<1>2. ChatInv /\ [ChatNext]_chatVars =>
          [\A r \in Handler :
              At(r, "asked") /\ At(r, "propose")' /\ reqs'[r].by = "patterns" =>
                  reqs'[r].params.target \in Referred(r)]_chatVars
    BY ProposedFromAsked DEF At
<1>3. ChatInv /\ [ChatNext]_chatVars =>
          [/\ \A n \in DOMAIN cases : cases'[n] # cases[n] =>
                \E r \in Handler : Allowed(r) /\ cases[n].company = CompanyFor(r) /\ InCharge(r, n)
           /\ \A n \in DOMAIN conversations : conversations'[n] # conversations[n] =>
                \E r \in Handler : Allowed(r) /\ conversations[n].company = CompanyFor(r)]_chatVars
    BY ChangedWithinReach
<1> QED BY <1>1, <1>2, <1>3, ChatInvariant, PTL DEF ChatSpec, UsersAreApart, ReferenceIsOwn, ReachIsKept
================================================================================
