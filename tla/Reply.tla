-------------------------------- MODULE Reply --------------------------------
(***************************************************************************)
(* The suggested replies of the API.  A request runs the RAG pipeline once *)
(* or twice: it retrieves passages of the knowledge base, has a model      *)
(* grade them, write a draft and criticise it, as far as the budget of     *)
(* calls admits, and notes the questions nothing answers.  Requests run at *)
(* once and share the counter of the company's calls, while an editor      *)
(* archives and publishes articles.                                        *)
(***************************************************************************)
EXTENDS Naturals, FiniteSets, FiniteSetsExt, Sequences, TLC

CONSTANTS
    Clerk,                     \* goroutines that serve a request
    Question,                  \* messages of customers
    Tenant, Asker, Coverage,   \* companies, the one that asks, those it may read
    Article, OwnerOf, InGraph, \* articles, their companies, those the graph holds for the symptom
    Chunk, ArticleOf, ParentOf, \* child chunks, the article and the parent (0 = none) of each
    Matches, Indexed,          \* chunks whose text matches a question; chunks in the vector index
    Grades,                    \* what the grader may answer
    MaxCandidates,             \* candidates of a reply, 3 in the code
    MaxPerRequest, MaxPerWindow, \* calls of a pass, of a window of the company; 0 = any number
    DefaultMode,               \* of a request that names none
    MaxWindow,                 \* bound: windows of the budget
    ReplyPlans                 \* bounds: the requests made, and what may happen how often

Modes == {"", "fast_draft", "full_review"}
Retrievers == {"knowledge", "fts", "vector"}
Symptoms == {"none", "confirmed", "likely", "unlikely"} \* of the metadata
ReplyKinds == {"request", "fault", "expire", "edit", "tick", "feedback"}
Verdicts == {"accepted", "edited", "escalated", "rejected"}

ASSUME ReplyAssumption ==
    /\ Asker \in Coverage /\ Coverage \subseteq Tenant \* ctxkey.NormalizeCoverage
    /\ OwnerOf \in [Article -> Tenant] /\ InGraph \subseteq Article
    /\ IsFiniteSet(Article) /\ IsFiniteSet(Chunk) \* rows of tables
    /\ ArticleOf \in [Chunk -> Article] /\ Chunk \subseteq Nat \ {0} /\ ParentOf \in [Chunk -> Nat]
    /\ Matches \in [Question -> SUBSET Chunk] /\ Indexed \subseteq Chunk
    /\ Grades \subseteq [verdict : {"relevant", "partial", "irrelevant"}, confidence : 0..3]
    /\ {MaxCandidates, MaxWindow} \subseteq Nat \ {0} /\ {MaxPerRequest, MaxPerWindow} \subseteq Nat
    /\ DefaultMode \in {"", "fast_draft"}
    /\ \A p \in ReplyPlans :
          /\ p.may \in [ReplyKinds -> Nat]
          /\ p.requests \subseteq [question : Question, mode : Modes, symptom : Symptoms, threshold : 1..3]

VARIABLES
    published, \* articles whose status is 'published'
    window,    \* the minute, or whatever a window of the budget is
    used,      \* the cached counter of calls, by window
    gaps,      \* rows of knowledge_gaps: question and occurrences
    passes,    \* the pass of the pipeline a goroutine runs
    actions,   \* rows of ai_actions: decision and feedback, by id
    granted,   \* history: calls admitted, by window
    raced,     \* history: windows whose counter two requests held at once
    requests,  \* what customers ask, in which mode, at the threshold of their company's agent
    budget     \* how often each kind of thing may still happen

replyVars == <<published, window, used, gaps, passes, actions, granted, raced, requests, budget>>
shared == <<published, window, used, gaps, granted, raced, requests>>

NoPass == [pc |-> "free"]

ReplyInit ==
    /\ published = Article
    /\ window = 1
    /\ used = [w \in 1..MaxWindow |-> 0]
    /\ gaps = <<>>
    /\ passes = [c \in Clerk |-> NoPass]
    /\ actions = <<>>
    /\ granted = [w \in 1..MaxWindow |-> 0]
    /\ raced = {}
    /\ \E p \in ReplyPlans : requests = p.requests /\ budget = p.may

Use(kind) ==
    /\ budget[kind] > 0
    /\ budget' = [budget EXCEPT ![kind] = @ - 1]

On(c, pc) == passes[c].pc = pc
Set(c, pass) == passes' = [passes EXCEPT ![c] = pass]

-------------------------------------------------------------------------------
(***************************************************************************)
(* A request and its passes.                                               *)
(***************************************************************************)

\* Every pass begins a count of its own.  Pass 1 may be tried again, pass 0 may not; pass 2
\* has the first one behind it.
Begin(request, number, first) ==
    [question |-> request.question, mode |-> request.mode, symptom |-> request.symptom,
     threshold |-> request.threshold, pc |-> "retrieve", pass |-> number, first |-> first,
     kept |-> FALSE, late |-> FALSE, asked |-> 0, spent |-> 0, charging |-> FALSE, held |-> 0,
     win |-> 0, visible |-> published, cands |-> {}, verdict |-> "irrelevant", confidence |-> 0,
     graded |-> FALSE, decision |-> "escalate", draft |-> FALSE, sent |-> FALSE, gap |-> 0,
     unnoted |-> FALSE]

\* Only a fast draft the server chose is tried again.
RequestReply(c) ==
    /\ On(c, "free") /\ Use("request")
    /\ \E q \in requests :
          Set(c, IF q.mode = "" /\ DefaultMode = "fast_draft"
                 THEN Begin([q EXCEPT !.mode = DefaultMode], 1, NoPass)
                 ELSE Begin(q, 0, NoPass))
    /\ UNCHANGED <<shared, actions>>

Fast(p) == p.mode = "fast_draft"

\* An error of the first pass ends the request, one of the second keeps the first result.
Fail(p) == IF p.pass = 2 THEN [p.first EXCEPT !.pc = "respond", !.kept = TRUE, !.late = p.late] ELSE NoPass

-------------------------------------------------------------------------------
(***************************************************************************)
(* Retrieval.  A candidate names its retriever, its article, and its chunk *)
(* and parent if any.                                                      *)
(***************************************************************************)
Cand(by, article, chunk, parent) == [by |-> by, article |-> article, chunk |-> chunk, parent |-> parent]

CompanyFilter(article) == OwnerOf[article] \in Coverage \union (IF Coverage = {} THEN {Asker} ELSE {})

Search(q) ==
    {Cand("knowledge", a, 0, 0) : a \in
        {b \in published : CompanyFilter(b) /\ \E ch \in Matches[q] : ArticleOf[ch] = b}}

\* The full-text search does not ask for the status of the article.
SearchChunks(q) ==
    {Cand("fts", ArticleOf[ch], ch, 0) : ch \in {d \in Matches[q] : CompanyFilter(ArticleOf[d])}}

\* The index may hold chunks of articles archived since.
VectorHits == {ch \in Indexed : OwnerOf[ArticleOf[ch]] \in Coverage}
ChunksByAnyIDs(q) == {Cand("vector", ArticleOf[ch], ch, 0) : ch \in VectorHits}

ChunksByIDs(q) ==
    {Cand("vector", ArticleOf[ch], ch, 0) :
        ch \in {d \in VectorHits : CompanyFilter(ArticleOf[d]) /\ ArticleOf[d] \in published}}

Retrieved(q, by) ==
    CASE by = "knowledge" -> Search(q)
      [] by = "fts"       -> SearchChunks(q)
      [] by = "vector"    -> ChunksByIDs(q)

From(q, retrievers) == UNION {Retrieved(q, by) : by \in retrievers}

\* A fast draft asks the vector index only when the cheap retrievers find nothing.
RetrieveCandidates(p, up) ==
    LET cheap == From(p.question, up \ {"vector"})
    IN  IF Fast(p) /\ cheap # {} THEN cheap ELSE From(p.question, up)

\* A symptom a model guessed counts from a confidence on.
GraphAnchored(p) == p.symptom \in {"confirmed", "likely"}

ForSymptom == {b \in InGraph : OwnerOf[b] \in Coverage}

RetrieveGraph(p) == IF GraphAnchored(p) THEN {Cand("graph", a, 0, 0) : a \in ForSymptom} ELSE {}

\* Only published articles of the asking company itself have their chunks expanded.
HasContext(d) == d.chunk # 0 /\ OwnerOf[d.article] = Asker /\ d.article \in published

ParentChunk(d) ==
    IF HasContext(d)
    THEN Cand("parent", d.article, 0, IF ParentOf[d.chunk] = 0 THEN d.chunk ELSE ParentOf[d.chunk])
    ELSE d

-------------------------------------------------------------------------------
(***************************************************************************)
(* The budget: a count of the pass, then one of the company's window,      *)
(* which is read and written in two calls of the cache.                    *)
(***************************************************************************)
\* Denied calls are counted as well.
AllowRequest(p) == MaxPerRequest = 0 \/ p.asked + 1 <= MaxPerRequest

\* A counter that is not there yet is an error of the cache, fatal only when late.
CacheGet(w) == used[w]
CacheSet(w, n) == used' = [used EXCEPT ![w] = n]

AllowWindowUpTo(p) == MaxPerWindow = 0 \/ CacheGet(window) <= MaxPerWindow

AllowWindow(p) ==
    MaxPerWindow = 0 \/ (CacheGet(window) < MaxPerWindow /\ ~(p.late /\ CacheGet(window) = 0))

Charging(w) == {d \in Clerk : passes[d] # NoPass /\ passes[d].charging /\ passes[d].win = w}

-------------------------------------------------------------------------------
(***************************************************************************)
(* What becomes of a pass at each stage, without the model and with it.    *)
(***************************************************************************)
ComputeConfidence(p, grade) ==
    IF p.cands = {} THEN 0
    ELSE IF grade.confidence > 0 THEN grade.confidence
    ELSE CASE grade.verdict = "relevant"   -> 3
           [] grade.verdict = "partial"    -> 2
           [] grade.verdict = "irrelevant" -> 0

\* Confidence 2 is 0.60 at least, 3 the default threshold of 0.85 at least.
RouteDecision(confidence, threshold) ==
    IF confidence >= threshold THEN "auto" ELSE IF confidence >= 2 THEN "draft" ELSE "escalate"

DecisionFor(confidence, threshold, graded) ==
    IF RouteDecision(confidence, threshold) = "auto" /\ ~graded THEN "draft"
    ELSE RouteDecision(confidence, threshold)

\* Whatever was not graded counts as irrelevant, and that as a gap in the knowledge base.
Ungraded == [verdict |-> "irrelevant", confidence |-> 0]

NeedsGapGraded(p) == p.verdict = "irrelevant" /\ p.graded
NeedsGap(p) == p.verdict = "irrelevant"

WillGenerate(p) == p.decision # "escalate" /\ p.verdict # "irrelevant" /\ p.cands # {}
ShouldRunCritic(p) == ~Fast(p) /\ p.decision = "auto" /\ p.draft
IsWeak(p) == p.decision = "escalate" \/ p.verdict = "irrelevant" \/ p.confidence < 2

\* Nothing to send is handed over.  A weak fast draft of the server's choice is tried again.
Settle(p) ==
    LET s == [p EXCEPT !.decision = IF @ = "auto" /\ ~p.draft THEN "escalate" ELSE @]
    IN  {[s EXCEPT !.pc = IF p.pass = 1 /\ IsWeak(s) THEN "retry" ELSE "respond"]}

Critique(p, send) == Settle([p EXCEPT !.sent = send, !.decision = IF send THEN @ ELSE "draft"])

ToCritique(p) == IF ShouldRunCritic(p) THEN {[p EXCEPT !.pc = "critique"]} ELSE Settle(p)

ToDraft(p) == IF WillGenerate(p) THEN {[p EXCEPT !.pc = "draft"]} ELSE ToCritique(p)

Evaluate(p, grade, graded) ==
    LET c == ComputeConfidence(p, grade)
        e == [p EXCEPT !.verdict = grade.verdict, !.graded = graded, !.confidence = c,
                       !.decision = DecisionFor(c, p.threshold, graded)]
    IN  IF NeedsGap(e) THEN {[e EXCEPT !.pc = "gap"]} ELSE ToDraft(e)

ToGrade(p) ==
    IF Fast(p) /\ p.cands = {} THEN Evaluate(p, Ungraded, FALSE) ELSE {[p EXCEPT !.pc = "grade"]}

CutNone(p) == UNION {ToGrade(q) : q \in {p}}

\* The best candidates, in whatever order the scores put them.
Cut(p) ==
    UNION {ToGrade([p EXCEPT !.cands = S]) :
        S \in IF Cardinality(p.cands) > MaxCandidates THEN kSubset(MaxCandidates, p.cands) ELSE {p.cands}}

ToRerank(p) == IF Fast(p) THEN Cut(p) ELSE {[p EXCEPT !.pc = "rerank"]}

\* A stage that the budget denies, or that has nothing to ask.
WithoutReview(p) ==
    CASE p.pc = "rerank"   -> Cut(p)
      [] p.pc = "grade"    -> Evaluate(p, Ungraded, FALSE)
      [] p.pc = "draft"    -> ToCritique(p)
      [] p.pc = "critique" -> Settle(p)

Without(p) ==
    CASE p.pc = "rerank"   -> Cut(p)
      [] p.pc = "grade"    -> Evaluate(p, Ungraded, FALSE)
      [] p.pc = "draft"    -> ToCritique(p)
      [] p.pc = "critique" -> Critique(p, FALSE)

\* The reranker asks nobody about one candidate, the grader about none.
Asks(p) ==
    CASE p.pc = "rerank" -> Cardinality(p.cands) > 1
      [] p.pc = "grade"  -> p.cands # {}
      [] OTHER           -> TRUE

Grade(p) == UNION {Evaluate(p, g, TRUE) : g \in Grades}

\* A draft of blanks is none.
Generate(p) == UNION {ToCritique([p EXCEPT !.draft = d]) : d \in BOOLEAN}

Criticise(p) == UNION {Critique(p, send) : send \in BOOLEAN}

\* Whatever its scores, the reranker only reorders.
Answered(p) ==
    CASE p.pc = "rerank"   -> Cut(p)
      [] p.pc = "grade"    -> Grade(p)
      [] p.pc = "draft"    -> Generate(p)
      [] p.pc = "critique" -> Criticise(p)

\* A grader that fails ends the pass.  The reranker then goes by the text, and the critic
\* sends nothing.
Unanswered(p) == IF p.pc = "grade" THEN {Fail(p)} ELSE Without(p)

-------------------------------------------------------------------------------
(* The stages                                                                *)

\* Retrievers that fail, the graph among them, are skipped.
Retrieve(c) ==
    LET p == passes[c] IN
    /\ On(c, "retrieve")
    /\ ~p.late
    /\ \E down \in SUBSET (Retrievers \union {"graph"}) :
          /\ Cardinality(down) <= budget.fault
          /\ budget' = [budget EXCEPT !.fault = @ - Cardinality(down)]
          /\ LET found == RetrieveCandidates(p, Retrievers \ down)
                          \union (IF "graph" \in down THEN {} ELSE RetrieveGraph(p))
                 next == [p EXCEPT !.cands = found, !.pc = "assemble"]
             IN  IF found # {} THEN Set(c, next) ELSE \E n \in ToRerank(next) : Set(c, n)
    /\ UNCHANGED <<shared, actions>>

\* Past its deadline the request ends; cancelled, it goes on without candidates.
RetrieveLate(c) ==
    LET p == passes[c] IN
    /\ On(c, "retrieve") /\ p.late
    /\ \/ Set(c, Fail(p))
       \/ ~GraphAnchored(p) /\ \E n \in ToRerank(p) : Set(c, n)
    /\ UNCHANGED <<shared, actions, budget>>

Assemble(c) ==
    LET p == passes[c]
        next(cands) == \E n \in ToRerank([p EXCEPT !.cands = cands]) : Set(c, n)
    IN
    /\ On(c, "assemble")
    /\ \/ p.late /\ Set(c, Fail(p)) /\ UNCHANGED budget
       \/ ~p.late /\ next({ParentChunk(d) : d \in p.cands}) /\ UNCHANGED budget
       \/ ~p.late /\ Use("fault") /\ next(p.cands)
    /\ UNCHANGED <<shared, actions>>

Acquire(c) ==
    LET p == IF passes[c] = NoPass THEN NoPass ELSE [passes[c] EXCEPT !.asked = @ + 1] IN
    /\ p.pc \in {"rerank", "grade", "draft", "critique"} /\ ~p.charging
    /\ IF AllowRequest(passes[c]) /\ AllowWindow(p)
       THEN /\ Set(c, [p EXCEPT !.charging = TRUE, !.held = CacheGet(window), !.win = window])
            /\ raced' = IF Charging(window) = {} THEN raced ELSE raced \union {window}
       ELSE /\ \E n \in Without(p) : Set(c, n)
            /\ UNCHANGED raced
    /\ UNCHANGED <<published, window, used, gaps, granted, requests, actions, budget>>

\* The counter is written with what was read, then the model asked.
Charge(c) ==
    LET p == [passes[c] EXCEPT !.charging = FALSE, !.held = 0, !.win = 0, !.spent = @ + 1]
        w == passes[c].win
    IN
    /\ passes[c] # NoPass /\ passes[c].charging
    /\ IF MaxPerWindow = 0 THEN UNCHANGED used ELSE CacheSet(w, passes[c].held + 1)
    /\ granted' = [granted EXCEPT ![w] = @ + 1]
    /\ \/ ~Asks(p) /\ (\E n \in Without(p) : Set(c, n)) /\ UNCHANGED budget
       \/ Asks(p) /\ ~p.late /\ (\E n \in Answered(p) : Set(c, n)) /\ UNCHANGED budget
       \/ Asks(p) /\ (\E n \in Unanswered(p) : Set(c, n))
                  /\ IF p.late THEN UNCHANGED budget ELSE Use("fault")
    /\ UNCHANGED <<published, window, gaps, raced, requests, actions>>

\* A row of the question is looked for, then counted or made, in one transaction
\* that keeps no other one from finding nothing as well.
GapRead(c) ==
    LET p == passes[c]
        rows == {i \in DOMAIN gaps : gaps[i].question = p.question}
    IN
    /\ On(c, "gap")
    /\ \/ /\ ~p.late
          /\ \E i \in IF rows = {} THEN {0} ELSE rows : Set(c, [p EXCEPT !.pc = "note", !.gap = i])
          /\ UNCHANGED budget
       \/ /\ IF p.late THEN UNCHANGED budget ELSE Use("fault")
          /\ \E n \in ToDraft([p EXCEPT !.unnoted = TRUE]) : Set(c, n)
    /\ UNCHANGED <<shared, actions>>

GapWrite(c) ==
    LET p == passes[c] IN
    /\ On(c, "note")
    /\ \E n \in ToDraft([p EXCEPT !.gap = 0, !.unnoted = p.late]) : Set(c, n)
    /\ gaps' = IF p.late THEN gaps
               ELSE IF p.gap = 0 THEN Append(gaps, [question |-> p.question, count |-> 1])
               ELSE [gaps EXCEPT ![p.gap].count = @ + 1]
    /\ UNCHANGED <<published, window, used, granted, raced, requests, actions, budget>>

\* In full review, unless it is too late.
Retry(c) ==
    LET p == passes[c] IN
    /\ On(c, "retry")
    /\ Set(c, IF p.late THEN [p EXCEPT !.pc = "respond"] ELSE Begin([p EXCEPT !.mode = "full_review"], 2, p))
    /\ UNCHANGED <<shared, actions, budget>>

\* What the customer is shown.
Suggestion(p) ==
    IF p.draft THEN "draft" ELSE IF p.decision = "escalate" THEN "handover"
    ELSE IF p.cands = {} THEN "acknowledgement" ELSE "evidence"

Record(p) ==
    actions' = Append(actions, [company |-> Asker, decision |-> p.decision,
                                shown |-> Suggestion(p), feedback |-> "none"])

\* The action is recorded if it can be; without, the response has no id to give feedback on.
Respond(c) ==
    LET p == passes[c] IN
    /\ On(c, "respond") /\ Set(c, NoPass)
    /\ \/ /\ ~p.late /\ UNCHANGED budget
          /\ Record(p)
       \/ UNCHANGED actions /\ IF p.late THEN UNCHANGED budget ELSE Use("fault")
    /\ UNCHANGED shared

-------------------------------------------------------------------------------
(* Around the requests                                                       *)

\* One statement that names the action and the company.
RecordFeedback(company, id, verdict) ==
    actions' = IF actions[id].company = company THEN [actions EXCEPT ![id].feedback = verdict]
               ELSE actions

Feedback(company, id, verdict) ==
    /\ Use("feedback")
    /\ id \in DOMAIN actions
    /\ RecordFeedback(company, id, verdict)
    /\ UNCHANGED <<shared, passes>>

\* The deadline of a request passes, or its client goes away.
Expire(c) ==
    /\ passes[c] # NoPass /\ ~passes[c].late /\ Use("expire")
    /\ Set(c, [passes[c] EXCEPT !.late = TRUE])
    /\ UNCHANGED <<shared, actions>>

Archive(a) ==
    /\ a \in published /\ Use("edit")
    /\ published' = published \ {a}
    /\ UNCHANGED <<window, used, gaps, passes, actions, granted, raced, requests>>

Publish(a) ==
    /\ a \notin published /\ Use("edit")
    /\ published' = published \union {a}
    /\ passes' = [c \in Clerk |-> IF passes[c] = NoPass THEN NoPass
                                  ELSE [passes[c] EXCEPT !.visible = @ \union {a}]]
    /\ UNCHANGED <<window, used, gaps, actions, granted, raced, requests>>

Tick ==
    /\ window < MaxWindow /\ Use("tick")
    /\ window' = window + 1
    /\ UNCHANGED <<published, used, gaps, passes, actions, granted, raced, requests>>

ReplyNext ==
    \/ \E c \in Clerk :
          \/ RequestReply(c) \/ Retrieve(c) \/ RetrieveLate(c) \/ Assemble(c) \/ Acquire(c)
          \/ Charge(c) \/ GapRead(c) \/ GapWrite(c) \/ Retry(c) \/ Respond(c) \/ Expire(c)
    \/ \E company \in Tenant, id \in DOMAIN actions, verdict \in Verdicts : Feedback(company, id, verdict)
    \/ \E a \in Article : Archive(a) \/ Publish(a)
    \/ Tick

ReplySpec == ReplyInit /\ [][ReplyNext]_replyVars

-------------------------------------------------------------------------------
ReplyTypeOK ==
    /\ published \subseteq Article /\ window \in 1..MaxWindow
    /\ used \in [1..MaxWindow -> Nat] /\ granted \in [1..MaxWindow -> Nat] /\ raced \subseteq 1..MaxWindow
    /\ \A i \in DOMAIN gaps : gaps[i] \in [question : Question, count : Nat \ {0}]
    /\ \A c \in Clerk : passes[c] = NoPass \/
          /\ passes[c].cands \subseteq [by : Retrievers \union {"graph", "parent"}, article : Article,
                                        chunk : Chunk \union {0}, parent : Nat]
          /\ On(c, "respond") => Cardinality(passes[c].cands) <= MaxCandidates
          /\ passes[c].pass \in 0..2 /\ passes[c].confidence \in 0..3
          /\ passes[c].gap \in {0} \union DOMAIN gaps
    /\ \A i \in DOMAIN actions : actions[i].feedback \in Verdicts \union {"none"}

\* Nothing goes out as "auto" that a model did not find relevant, write and, but for a
\* fast draft, criticise in that very pass, whatever the budget denied or a model failed at
\* (evaluate, generate).
AutoIsVetted ==
    \A c \in Clerk : On(c, "respond") /\ passes[c].decision = "auto" =>
        LET p == passes[c] IN
        p.graded /\ p.verdict # "irrelevant" /\ p.cands # {} /\ p.draft /\ (Fast(p) \/ p.sent)

\* No pass is admitted more calls than a request may make, and the company no more in a
\* window than it may, unless two requests held its counter at once (Acquire).
BudgetIsKept ==
    /\ MaxPerRequest = 0 \/ \A c \in Clerk : passes[c] = NoPass \/ passes[c].spent <= MaxPerRequest
    /\ MaxPerWindow = 0 \/ \A w \in 1..MaxWindow : w \in raced \/ granted[w] <= MaxPerWindow

\* What a reply cites belongs to a company the asking one may read.  An archived article is
\* cited only for its text or its symptom: the full-text search and the graph do not ask
\* for the status, the other retrievers do.
CitedIsVisible ==
    \A c \in Clerk : On(c, "respond") =>
        \A d \in passes[c].cands :
            /\ OwnerOf[d.article] \in Coverage
            /\ d.by \in {"fts", "graph"} \/ d.article \in passes[c].visible

\* A question answered without any candidate is on record as a gap of the knowledge base,
\* unless the record failed (recordKnowledgeGap).
UnansweredIsNoted ==
    \A c \in Clerk : On(c, "respond") /\ passes[c].cands = {} /\ ~passes[c].unnoted =>
        \E i \in DOMAIN gaps : gaps[i].question = passes[c].question

\* The three: what a reply says was vetted, its reader may see what it cites, and what
\* could not be answered is on record.
ReplyIsSound == AutoIsVetted /\ CitedIsVisible /\ UnansweredIsNoted
===============================================================================
