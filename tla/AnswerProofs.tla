----------------------------- MODULE AnswerProofs -----------------------------
(***************************************************************************)
(* Proofs about the suggested replies, for any number of goroutines, every *)
(* knowledge base, every budget and whatever happens how often; about the  *)
(* search and its graph, for any names, articles, limits and faults; and   *)
(* about the two and the chat beside each other.                           *)
(***************************************************************************)
EXTENDS MCAnswers, ChatProofs, FiniteSetTheorems, SequenceTheorems, NaturalsInduction, WellFoundedInduction, TLAPS

-----------------------------------------------------------------------------
(***************************************************************************)
(* The inductive invariant of the replies.                                 *)
(***************************************************************************)
Fields == {"question", "mode", "symptom", "threshold", "pc", "pass", "first", "kept", "late",
           "asked", "spent", "charging", "held", "win", "visible", "cands", "verdict",
           "confidence", "graded", "decision", "draft", "sent", "gap", "unnoted"}

Early  == {"retrieve", "assemble"}
Stages == {"rerank", "grade", "draft", "critique"}
Ended  == {"retry", "respond"}
Pcs    == Early \union Stages \union {"gap", "note"} \union Ended

\* A draft was written from relevant passages, and an automatic reply graded.
Core(p) ==
    /\ p.draft => p.verdict # "irrelevant" /\ p.cands # {}
    /\ p.decision = "auto" => p.graded

Vetted(p) ==
    /\ Core(p)
    /\ p.pc \in Early \union {"rerank", "grade"} => ~p.draft /\ p.decision = "escalate"
    /\ p.pc = "draft" => p.verdict # "irrelevant" /\ p.cands # {}
    /\ p.pc \in Ended /\ p.decision = "auto" => p.draft /\ (Fast(p) \/ p.sent)
    /\ p.pc = "retry" => p.pass = 1

Visible(cands, visible) ==
    \A d \in cands :
        /\ OwnerOf[d.article] \in Coverage
        /\ d.by \in {"fts", "graph"} \/ d.article \in visible

\* Behind the gap, a pass without candidates has noted its question.
Noted(p, rows) ==
    /\ p.pc \in {"draft", "critique"} \union Ended /\ p.cands = {} /\ ~p.unnoted =>
          \E i \in DOMAIN rows : rows[i].question = p.question
    /\ p.pc = "note" /\ p.gap # 0 => p.gap \in DOMAIN rows /\ rows[p.gap].question = p.question

\* A pass asked for every call it was granted.
Within(p) ==
    /\ p.asked \in Nat /\ p.spent \in Nat
    /\ p.spent <= p.asked /\ (p.charging => p.spent < p.asked)
    /\ MaxPerRequest # 0 => p.spent <= MaxPerRequest /\ (p.charging => p.spent < MaxPerRequest)
    /\ p.charging => p.pc \in Stages /\ p.win \in 1..MaxWindow /\ p.held \in Nat

Honest(p, rows) ==
    /\ Fields \subseteq DOMAIN p /\ p.pc \in Pcs /\ p.question \in Question
    /\ Vetted(p) /\ Visible(p.cands, p.visible) /\ Noted(p, rows) /\ Within(p)

\* A pass still to retrieve knows what is published; a second pass can fall back on the first.
Good(p, rows, shown) ==
    /\ Honest(p, rows)
    /\ p.pc \in Early => shown \subseteq p.visible
    /\ p.pass = 2 => Honest(p.first, rows) /\ p.first.pc = "retry"

Gap == [question : Question, count : Nat]
Inquiry == [question : Question, mode : Modes, symptom : Symptoms, threshold : 1..3]

ReplyTypes ==
    /\ published \subseteq Article
    /\ window \in 1..MaxWindow
    /\ used \in [1..MaxWindow -> Nat] /\ granted \in [1..MaxWindow -> Nat]
    /\ gaps \in Seq(Gap)
    /\ DOMAIN passes = Clerk
    /\ requests \subseteq Inquiry

PassesAreGood == \A c \in Clerk : passes[c] # NoPass => Good(passes[c], gaps, published)

Holds(c, w) == passes[c] # NoPass /\ passes[c].charging /\ passes[c].win = w

\* While one request at most holds the counter of a window, the counter counts.
CounterIsTrue ==
    MaxPerWindow # 0 => \A w \in (1..MaxWindow) \ raced :
        /\ used[w] = granted[w] /\ granted[w] <= MaxPerWindow
        /\ \A c, d \in Clerk : Holds(c, w) /\ Holds(d, w) => c = d
        /\ \A c \in Clerk : Holds(c, w) => passes[c].held = used[w] /\ used[w] < MaxPerWindow

ReplyInv == ReplyTypes /\ PassesAreGood /\ CounterIsTrue

-----------------------------------------------------------------------------
(***************************************************************************)
(* What becomes of a pass at each stage.                                   *)
(***************************************************************************)
Keeps(p, q) ==
    /\ DOMAIN q = DOMAIN p
    /\ q.question = p.question /\ q.mode = p.mode /\ q.pass = p.pass /\ q.first = p.first
    /\ q.visible = p.visible /\ q.late = p.late /\ q.asked = p.asked /\ q.spent = p.spent
    /\ q.charging = p.charging /\ q.win = p.win

\* Behind the evaluation: the candidates are chosen.
Follows(p, q) ==
    /\ Keeps(p, q) /\ Vetted(q)
    /\ q.cands = p.cands /\ q.unnoted = p.unnoted
    /\ q.pc \in {"draft", "critique"} \union Ended

LEMMA SettleFollows ==
  ASSUME NEW p, Fields \subseteq DOMAIN p, Core(p),
         p.decision = "auto" /\ p.draft => Fast(p) \/ p.sent,
         NEW q \in Settle(p)
  PROVE  Follows(p, q) /\ q.pc \in Ended
  <1>1. PICK s : s = [p EXCEPT !.decision = IF @ = "auto" /\ ~p.draft THEN "escalate" ELSE @]
    OBVIOUS
  <1>2. /\ Keeps(p, s) /\ s.cands = p.cands /\ s.unnoted = p.unnoted /\ s.draft = p.draft
        /\ s.verdict = p.verdict /\ s.graded = p.graded /\ s.sent = p.sent
        /\ s.decision = "auto" => p.decision = "auto" /\ p.draft
    BY <1>1 DEF Keeps, Fields
  <1>3. q = [s EXCEPT !.pc = IF p.pass = 1 /\ IsWeak(s) THEN "retry" ELSE "respond"]
    BY <1>1 DEF Settle
  <1>4. /\ Keeps(s, q) /\ q.cands = s.cands /\ q.unnoted = s.unnoted /\ q.draft = s.draft
        /\ q.verdict = s.verdict /\ q.graded = s.graded /\ q.sent = s.sent /\ q.decision = s.decision
        /\ q.pc \in Ended /\ (q.pc = "retry" => p.pass = 1)
    BY <1>2, <1>3 DEF Keeps, Fields, Ended
  <1> QED BY <1>2, <1>4 DEF Follows, Keeps, Vetted, Core, Ended, Early, Fast

LEMMA ToCritiqueFollows ==
  ASSUME NEW p, Fields \subseteq DOMAIN p, Core(p), NEW q \in ToCritique(p)
  PROVE  Follows(p, q) /\ q.pc # "draft"
  <1>1. CASE ShouldRunCritic(p)
    BY <1>1 DEF ToCritique, Follows, Keeps, Vetted, Core, Ended, Early, Fields, Fast
  <1>2. CASE ~ShouldRunCritic(p)
    BY <1>2, SettleFollows DEF ToCritique, ShouldRunCritic, Ended
  <1> QED BY <1>1, <1>2

LEMMA ToDraftFollows ==
  ASSUME NEW p, Fields \subseteq DOMAIN p, Core(p), NEW q \in ToDraft(p)
  PROVE  Follows(p, q)
  <1>1. CASE WillGenerate(p)
    BY <1>1 DEF ToDraft, WillGenerate, Follows, Keeps, Vetted, Core, Ended, Early, Fields, Fast
  <1>2. CASE ~WillGenerate(p)
    BY <1>2, ToCritiqueFollows DEF ToDraft
  <1> QED BY <1>1, <1>2

\* Up to the evaluation: the candidates may become fewer.
Reaches(p, q) ==
    /\ Keeps(p, q) /\ Vetted(q)
    /\ q.cands \subseteq p.cands
    /\ q.pc \in {"rerank", "grade", "gap", "draft", "critique"} \union Ended
    /\ q.pc \in {"draft", "critique"} \union Ended => q.cands # {}

LEMMA EvaluateReaches ==
  ASSUME NEW p, Fields \subseteq DOMAIN p, ~p.draft, NEW grade, NEW graded \in BOOLEAN,
         grade.verdict # "irrelevant" => p.cands # {},
         NEW q \in Evaluate(p, grade, graded)
  PROVE  Reaches(p, q)
  <1> DEFINE c == ComputeConfidence(p, grade)
  <1>1. PICK e : e = [p EXCEPT !.verdict = grade.verdict, !.graded = graded, !.confidence = c,
                               !.decision = DecisionFor(c, p.threshold, graded)]
    OBVIOUS
  <1>2. /\ Keeps(p, e) /\ e.cands = p.cands /\ e.draft = p.draft /\ e.graded = graded
        /\ e.verdict = grade.verdict /\ e.decision = DecisionFor(c, p.threshold, graded)
    BY <1>1 DEF Keeps, Fields
  <1>3. Core(e)
    BY <1>2 DEF Core, DecisionFor
  <1>4. q \in IF NeedsGap(e) THEN {[e EXCEPT !.pc = "gap"]} ELSE ToDraft(e)
    BY <1>1 DEF Evaluate
  <1>5. Fields \subseteq DOMAIN e
    BY <1>2 DEF Keeps
  <1>6. CASE NeedsGap(e)
    <2>1. q = [e EXCEPT !.pc = "gap"]
      BY <1>4, <1>6
    <2>2. /\ Keeps(e, q) /\ q.cands = e.cands /\ q.pc = "gap" /\ q.draft = e.draft
          /\ q.verdict = e.verdict /\ q.graded = e.graded /\ q.decision = e.decision
      BY <1>5, <2>1 DEF Keeps, Fields
    <2> QED BY <1>2, <1>3, <2>2 DEF Reaches, Keeps, Vetted, Core, Ended, Early
  <1>7. CASE ~NeedsGap(e)
    <2>1. Follows(e, q)
      BY <1>3, <1>4, <1>5, <1>7, ToDraftFollows
    <2>2. p.cands # {}
      BY <1>2, <1>7 DEF NeedsGap
    <2> QED BY <1>2, <2>1, <2>2 DEF Reaches, Follows, Keeps
  <1> QED BY <1>6, <1>7

\* A pass that has not been evaluated.
Unread(p) == Fields \subseteq DOMAIN p /\ ~p.draft /\ p.decision = "escalate"

LEMMA ToGradeReaches ==
  ASSUME NEW p, Unread(p), NEW q \in ToGrade(p)
  PROVE  Reaches(p, q)
  <1>1. CASE Fast(p) /\ p.cands = {}
    BY <1>1, EvaluateReaches DEF ToGrade, Unread, Ungraded
  <1>2. CASE ~(Fast(p) /\ p.cands = {})
    <2>1. q = [p EXCEPT !.pc = "grade"]
      BY <1>2 DEF ToGrade
    <2>2. /\ Keeps(p, q) /\ q.cands = p.cands /\ q.pc = "grade" /\ q.draft = p.draft
          /\ q.decision = p.decision
      BY <2>1 DEF Unread, Keeps, Fields
    <2> QED BY <2>2 DEF Unread, Reaches, Vetted, Core, Ended, Early
  <1> QED BY <1>1, <1>2

LEMMA CutReaches ==
  ASSUME NEW p, Unread(p), NEW q \in Cut(p)
  PROVE  Reaches(p, q)
  <1>1. PICK S \in IF Cardinality(p.cands) > MaxCandidates THEN kSubset(MaxCandidates, p.cands)
                   ELSE {p.cands} : q \in ToGrade([p EXCEPT !.cands = S])
    BY DEF Cut
  <1>2. S \subseteq p.cands
    BY <1>1 DEF kSubset
  <1>3. PICK r : r = [p EXCEPT !.cands = S]
    OBVIOUS
  <1>4. Keeps(p, r) /\ r.cands = S /\ Unread(r)
    BY <1>3 DEF Unread, Keeps, Fields
  <1>5. Reaches(r, q)
    BY <1>1, <1>3, <1>4, ToGradeReaches
  <1> QED BY <1>2, <1>4, <1>5 DEF Reaches, Keeps

LEMMA ToRerankReaches ==
  ASSUME NEW p, Unread(p), NEW q \in ToRerank(p)
  PROVE  Reaches(p, q)
  <1>1. CASE Fast(p)
    BY <1>1, CutReaches DEF ToRerank
  <1>2. CASE ~Fast(p)
    <2>1. q = [p EXCEPT !.pc = "rerank"]
      BY <1>2 DEF ToRerank
    <2>2. /\ Keeps(p, q) /\ q.cands = p.cands /\ q.pc = "rerank" /\ q.draft = p.draft
          /\ q.decision = p.decision
      BY <2>1 DEF Unread, Keeps, Fields
    <2> QED BY <2>2 DEF Unread, Reaches, Vetted, Core, Ended, Early
  <1> QED BY <1>1, <1>2

\* A stage ends in what it reaches, or in what follows when its candidates are chosen.
Continues(p, q) == Reaches(p, q) \/ (p.pc \in {"draft", "critique"} /\ Follows(p, q))

LEMMA CritiqueFollows ==
  ASSUME NEW p, Fields \subseteq DOMAIN p, Core(p), NEW send \in BOOLEAN, NEW q \in Critique(p, send)
  PROVE  Follows(p, q)
  <1>1. PICK s : s = [p EXCEPT !.sent = send, !.decision = IF send THEN @ ELSE "draft"]
    OBVIOUS
  <1>2. /\ Keeps(p, s) /\ s.cands = p.cands /\ s.unnoted = p.unnoted /\ s.draft = p.draft
        /\ s.verdict = p.verdict /\ s.graded = p.graded /\ s.sent = send
        /\ s.decision = "auto" => p.decision = "auto" /\ send
    BY <1>1 DEF Keeps, Fields
  <1>3. q \in Settle(s)
    BY <1>1 DEF Critique
  <1>4. Core(s)
    BY <1>2 DEF Core
  <1>5. Fields \subseteq DOMAIN s
    BY <1>2 DEF Keeps
  <1>6. s.decision = "auto" /\ s.draft => Fast(s) \/ s.sent
    BY <1>2
  <1>7. Follows(s, q)
    BY <1>3, <1>4, <1>5, <1>6, SettleFollows
  <1> QED BY <1>2, <1>7 DEF Follows, Keeps

LEMMA WithoutContinues ==
  ASSUME NEW p, Fields \subseteq DOMAIN p, Vetted(p), p.pc \in Stages, NEW q \in Without(p)
  PROVE  Continues(p, q)
  <1>1. CASE p.pc = "rerank"
    BY <1>1, CutReaches DEF Without, Continues, Vetted, Unread
  <1>2. CASE p.pc = "grade"
    BY <1>2, EvaluateReaches DEF Without, Continues, Vetted, Ungraded
  <1>3. CASE p.pc = "draft"
    BY <1>3, ToCritiqueFollows DEF Without, Continues, Vetted
  <1>4. CASE p.pc = "critique"
    BY <1>4, CritiqueFollows DEF Without, Continues, Vetted
  <1> QED BY <1>1, <1>2, <1>3, <1>4 DEF Stages

LEMMA AnsweredContinues ==
  ASSUME NEW p, Fields \subseteq DOMAIN p, Vetted(p), p.pc \in Stages, Asks(p), NEW q \in Answered(p)
  PROVE  Continues(p, q)
  <1>1. CASE p.pc = "rerank"
    BY <1>1, CutReaches DEF Answered, Continues, Vetted, Unread
  <1>2. CASE p.pc = "grade"
    <2>1. PICK g \in Grades : q \in Evaluate(p, g, TRUE)
      BY <1>2 DEF Answered, Grade
    <2>2. p.cands # {}
      BY <1>2 DEF Asks
    <2> QED BY <1>2, <2>1, <2>2, EvaluateReaches DEF Continues, Vetted
  <1>3. CASE p.pc = "draft"
    <2>1. PICK d \in BOOLEAN : q \in ToCritique([p EXCEPT !.draft = d])
      BY <1>3 DEF Answered, Generate
    <2>2. PICK s : s = [p EXCEPT !.draft = d]
      OBVIOUS
    <2>3. /\ Keeps(p, s) /\ s.cands = p.cands /\ s.unnoted = p.unnoted /\ s.draft = d
          /\ s.verdict = p.verdict /\ s.graded = p.graded /\ s.decision = p.decision
      BY <2>2 DEF Keeps, Fields
    <2>4. Core(s) /\ Fields \subseteq DOMAIN s
      BY <1>3, <2>3 DEF Core, Vetted, Keeps
    <2>5. Follows(s, q)
      BY <2>1, <2>2, <2>4, ToCritiqueFollows
    <2> QED BY <1>3, <2>3, <2>5 DEF Continues, Follows, Keeps
  <1>4. CASE p.pc = "critique"
    BY <1>4, CritiqueFollows DEF Answered, Criticise, Continues, Vetted
  <1> QED BY <1>1, <1>2, <1>3, <1>4 DEF Stages

-----------------------------------------------------------------------------
(***************************************************************************)
(* Passes stay good.                                                       *)
(***************************************************************************)
Grows(rows, more) == \A i \in DOMAIN rows : i \in DOMAIN more /\ more[i].question = rows[i].question

LEMMA SoundStays ==
  ASSUME NEW p, NEW rows, NEW more, Honest(p, rows), Grows(rows, more)
  PROVE  Honest(p, more)
  BY DEF Honest, Noted, Grows

LEMMA GoodStays ==
  ASSUME NEW p, NEW rows, NEW more, NEW shown, NEW fewer,
         Good(p, rows, shown), Grows(rows, more), fewer \subseteq shown
  PROVE  Good(p, more, fewer)
  BY SoundStays DEF Good

LEMMA GoodFollows ==
  ASSUME NEW p, NEW q, NEW rows, NEW shown, Good(p, rows, shown), ~p.charging, Follows(p, q),
         p.cands = {} /\ ~p.unnoted => \E i \in DOMAIN rows : rows[i].question = p.question
  PROVE  Good(q, rows, shown) /\ ~q.charging
  <1>1. q.pc \in Pcs \ Early /\ q.pc # "note"
    BY DEF Follows, Pcs, Early, Ended, Stages
  <1>2. Visible(q.cands, q.visible) /\ Within(q) /\ Noted(q, rows)
    BY <1>1 DEF Good, Honest, Follows, Keeps, Within, Noted
  <1> QED BY <1>1, <1>2 DEF Good, Honest, Follows, Keeps

LEMMA GoodReaches ==
  ASSUME NEW p, NEW q, NEW rows, NEW shown, Good(p, rows, shown), ~p.charging, Reaches(p, q)
  PROVE  Good(q, rows, shown) /\ ~q.charging
  <1>1. q.pc \in Pcs \ Early /\ q.pc # "note"
    BY DEF Reaches, Pcs, Early, Ended, Stages
  <1>2. Visible(q.cands, q.visible) /\ Within(q) /\ Noted(q, rows)
    BY <1>1 DEF Good, Honest, Reaches, Keeps, Within, Noted, Visible
  <1> QED BY <1>1, <1>2 DEF Good, Honest, Reaches, Keeps

LEMMA GoodContinues ==
  ASSUME NEW p, NEW q, NEW rows, NEW shown, Good(p, rows, shown), ~p.charging, Continues(p, q)
  PROVE  Good(q, rows, shown) /\ ~q.charging
  <1>1. CASE Reaches(p, q)
    BY <1>1, GoodReaches
  <1>2. CASE p.pc \in {"draft", "critique"} /\ Follows(p, q)
    <2>1. p.cands = {} /\ ~p.unnoted => \E i \in DOMAIN rows : rows[i].question = p.question
      BY <1>2 DEF Good, Honest, Noted
    <2> QED BY <1>2, <2>1, GoodFollows
  <1> QED BY <1>1, <1>2 DEF Continues

\* A pass that fails ends its request or falls back on the first one.
LEMMA GoodFail ==
  ASSUME NEW p, NEW rows, NEW shown, Good(p, rows, shown)
  PROVE  Fail(p) = NoPass \/ (Good(Fail(p), rows, shown) /\ ~Fail(p).charging)
  <1>1. CASE p.pass = 2
    <2>1. PICK q : q = Fail(p)
      OBVIOUS
    <2>2. Honest(p.first, rows) /\ p.first.pc = "retry" /\ p.first.pass = 1 /\ ~p.first.charging
      BY <1>1 DEF Good, Honest, Vetted, Within, Stages
    <2>3. Fields \subseteq DOMAIN p.first
      BY <2>2 DEF Honest
    <2>4. /\ DOMAIN q = DOMAIN p.first
          /\ q.pc = "respond" /\ q.question = p.first.question /\ q.mode = p.first.mode
          /\ q.pass = p.first.pass /\ q.visible = p.first.visible /\ q.asked = p.first.asked
          /\ q.spent = p.first.spent /\ q.charging = p.first.charging /\ q.win = p.first.win
          /\ q.cands = p.first.cands /\ q.unnoted = p.first.unnoted /\ q.draft = p.first.draft
          /\ q.verdict = p.first.verdict /\ q.graded = p.first.graded /\ q.sent = p.first.sent
          /\ q.decision = p.first.decision
      BY <1>1, <2>1, <2>3 DEF Fail, Fields
    <2>5. Vetted(q)
      BY <2>2, <2>4 DEF Honest, Vetted, Core, Ended, Early, Fast
    <2>6. Noted(q, rows) /\ Within(q) /\ Visible(q.cands, q.visible)
      BY <2>2, <2>4 DEF Honest, Noted, Within, Ended
    <2> QED BY <2>1, <2>2, <2>4, <2>5, <2>6 DEF Good, Honest, Pcs, Ended, Early
  <1>2. CASE p.pass # 2
    BY <1>2 DEF Fail
  <1> QED BY <1>1, <1>2

\* The step of one clerk: the others keep their passes.
LEMMA OneIsGood ==
  ASSUME ReplyInv, NEW c \in Clerk, NEW n, passes' = [passes EXCEPT ![c] = n],
         n # NoPass => Good(n, gaps', published'), Grows(gaps, gaps'), published' \subseteq published
  PROVE  /\ DOMAIN passes' = Clerk /\ PassesAreGood'
         /\ passes'[c] = n /\ \A d \in Clerk \ {c} : passes'[d] = passes[d]
  <1>1. DOMAIN passes' = Clerk /\ passes'[c] = n /\ \A d \in Clerk \ {c} : passes'[d] = passes[d]
    BY DEF ReplyInv, ReplyTypes
  <1>2. ASSUME NEW d \in Clerk, passes'[d] # NoPass
        PROVE  Good(passes'[d], gaps', published')
    <2>1. CASE d = c
      BY <1>1, <1>2, <2>1
    <2>2. CASE d # c
      <3>1. Good(passes[d], gaps, published)
        BY <1>1, <1>2, <2>2 DEF ReplyInv, PassesAreGood
      <3>2. Good(passes[d], gaps', published')
        BY <3>1, GoodStays
      <3> QED BY <1>1, <2>2, <3>2
    <2> QED BY <2>1, <2>2
  <1> QED BY <1>1, <1>2 DEF PassesAreGood

\* As long as the counters are left alone, whoever holds one after held it before.
LEMMA OneMoves ==
  ASSUME ReplyInv, NEW c \in Clerk, NEW n, passes' = [passes EXCEPT ![c] = n],
         n # NoPass => Good(n, gaps', published'),
         n # NoPass /\ n.charging => /\ passes[c] # NoPass /\ passes[c].charging
                                     /\ passes[c].win = n.win /\ passes[c].held = n.held,
         Grows(gaps, gaps'), published' \subseteq published, UNCHANGED <<used, granted, raced>>
  PROVE  DOMAIN passes' = Clerk /\ PassesAreGood' /\ CounterIsTrue'
  <1>1. /\ DOMAIN passes' = Clerk /\ PassesAreGood'
        /\ passes'[c] = n /\ \A d \in Clerk \ {c} : passes'[d] = passes[d]
    BY OneIsGood
  <1>2. \A d \in Clerk, w \in 1..MaxWindow : Holds(d, w)' => Holds(d, w) /\ passes'[d].held = passes[d].held
    BY <1>1 DEF Holds
  <1> QED BY <1>1, <1>2 DEF CounterIsTrue, ReplyInv

-----------------------------------------------------------------------------
(***************************************************************************)
(* The steps of a clerk.                                                   *)
(***************************************************************************)

\* What a clerk that is busy with a pass knows.
LEMMA Busy ==
  ASSUME ReplyInv, NEW c \in Clerk, NEW pc \in Pcs, On(c, pc)
  PROVE  Good(passes[c], gaps, published) /\ passes[c] # NoPass
  BY DEF ReplyInv, PassesAreGood, On, NoPass, Pcs, Early, Stages, Ended

LEMMA CallLimits == MaxPerRequest \in Nat /\ MaxPerWindow \in Nat /\ MaxWindow \in Nat \ {0}
  BY ReplyAssumption

LEMMA BeginGood ==
  ASSUME NEW request, request.question \in Question, NEW number \in 0..2, NEW first,
         number = 2 => Honest(first, gaps) /\ first.pc = "retry",
         NEW n, n = Begin(request, number, first)
  PROVE  Good(n, gaps, published) /\ ~n.charging
  <1>1. /\ Fields \subseteq DOMAIN n
        /\ n.pc = "retrieve" /\ n.question = request.question /\ n.pass = number /\ n.first = first
        /\ n.asked = 0 /\ n.spent = 0 /\ n.charging = FALSE /\ n.visible = published /\ n.cands = {}
        /\ n.decision = "escalate" /\ n.draft = FALSE
    BY DEF Begin, Fields
  <1>2. Vetted(n) /\ Visible(n.cands, n.visible) /\ Noted(n, gaps)
    BY <1>1 DEF Vetted, Core, Visible, Noted, Early, Ended
  <1>3. Within(n)
    BY <1>1, CallLimits DEF Within
  <1> QED BY <1>1, <1>2, <1>3 DEF Good, Honest, Pcs, Early

\* What the retrievers find is of companies the asking one may read, and published, unless
\* it was found by its text or its symptom.
LEMMA FoundVisible ==
  ASSUME NEW p, NEW up, up \subseteq Retrievers, NEW visible, published \subseteq visible
  PROVE  Visible(RetrieveCandidates(p, up), visible) /\ Visible(RetrieveGraph(p), visible)
  <1>1. ASSUME NEW by \in Retrievers, NEW q, NEW d \in Retrieved(q, by)
        PROVE  OwnerOf[d.article] \in Coverage /\ (d.by \in {"fts", "graph"} \/ d.article \in visible)
    <2>0. \A a : CompanyFilter(a) <=> OwnerOf[a] \in Coverage
      BY ReplyAssumption DEF CompanyFilter
    <2>1. CASE by = "knowledge"
      BY <1>1, <2>0, <2>1 DEF Retrieved, Search, Cand
    <2>2. CASE by = "fts"
      BY <1>1, <2>0, <2>2 DEF Retrieved, SearchChunks, Cand
    <2>3. CASE by = "vector"
      BY <1>1, <2>0, <2>3 DEF Retrieved, ChunksByIDs, Cand
    <2> QED BY <2>1, <2>2, <2>3 DEF Retrievers
  <1>2. \A q, by, S : S \subseteq Retrievers => Visible(From(q, S), visible)
    BY <1>1 DEF From, Visible
  <1>3. Visible(RetrieveCandidates(p, up), visible)
    BY <1>2 DEF RetrieveCandidates
  <1>4. Visible(RetrieveGraph(p), visible)
    BY DEF RetrieveGraph, ForSymptom, Cand, Visible
  <1> QED BY <1>3, <1>4

LEMMA RequestReplyKeeps ==
  ASSUME ReplyInv, NEW c \in Clerk, RequestReply(c)
  PROVE  ReplyInv'
  <1>1. PICK q \in requests :
           passes' = [passes EXCEPT ![c] = IF q.mode = "" /\ DefaultMode = "fast_draft"
                                            THEN Begin([q EXCEPT !.mode = DefaultMode], 1, NoPass)
                                            ELSE Begin(q, 0, NoPass)]
    BY DEF RequestReply, Set
  <1>2. PICK n : /\ passes' = [passes EXCEPT ![c] = n]
                 /\ Good(n, gaps, published) /\ ~n.charging
    <2>1. PICK r : r = [q EXCEPT !.mode = DefaultMode]
      OBVIOUS
    <2>2. q.question \in Question /\ r.question \in Question
      <3>1. q \in Inquiry
        BY DEF ReplyInv, ReplyTypes
      <3>2. "question" \in DOMAIN q /\ q.question \in Question
        BY <3>1 DEF Inquiry
      <3> QED BY <2>1, <3>2
    <2>3. PICK m, k : m = Begin(r, 1, NoPass) /\ k = Begin(q, 0, NoPass)
      OBVIOUS
    <2>4. Good(m, gaps, published) /\ ~m.charging /\ Good(k, gaps, published) /\ ~k.charging
      BY <2>2, <2>3, BeginGood
    <2>5. passes' = [passes EXCEPT ![c] = m] \/ passes' = [passes EXCEPT ![c] = k]
      BY <1>1, <2>1, <2>3
    <2> QED BY <2>4, <2>5
  <1>3. UNCHANGED shared
    BY DEF RequestReply
  <1>4. DOMAIN passes' = Clerk /\ PassesAreGood' /\ CounterIsTrue'
    BY <1>2, <1>3, OneMoves DEF shared, Grows
  <1> QED BY <1>3, <1>4 DEF ReplyInv, ReplyTypes, shared

LEMMA RetrieveKeeps ==
  ASSUME ReplyInv, NEW c \in Clerk, Retrieve(c)
  PROVE  ReplyInv'
  <1> DEFINE p == passes[c]
  <1>0. Good(p, gaps, published) /\ p.pc = "retrieve"
    BY Busy DEF Retrieve, On, Pcs, Early
  <1>1. UNCHANGED shared
    BY DEF Retrieve
  <1>2. PICK down \in SUBSET (Retrievers \union {"graph"}) :
          LET found == RetrieveCandidates(p, Retrievers \ down)
                       \union (IF "graph" \in down THEN {} ELSE RetrieveGraph(p))
              next == [p EXCEPT !.cands = found, !.pc = "assemble"]
          IN  IF found # {} THEN Set(c, next) ELSE \E n \in ToRerank(next) : Set(c, n)
    BY DEF Retrieve
  <1>3. PICK found : /\ found = RetrieveCandidates(p, Retrievers \ down)
                                \union (IF "graph" \in down THEN {} ELSE RetrieveGraph(p))
    OBVIOUS
  <1>4. PICK next : next = [p EXCEPT !.cands = found, !.pc = "assemble"]
    OBVIOUS
  <1>5. Set(c, next) \/ \E n \in ToRerank(next) : Set(c, n)
    BY <1>2, <1>3, <1>4
  <1>6. Good(next, gaps, published) /\ ~next.charging /\ Unread(next)
    <2>0. Fields \subseteq DOMAIN p
      BY <1>0 DEF Good, Honest
    <2>1. /\ Keeps(p, next) /\ next.pc = "assemble" /\ next.cands = found /\ next.draft = p.draft
          /\ next.decision = p.decision /\ next.unnoted = p.unnoted
      BY <1>4, <2>0 DEF Keeps, Fields
    <2>2. ~p.charging /\ ~p.draft /\ p.decision = "escalate" /\ published \subseteq p.visible
      BY <1>0 DEF Good, Honest, Within, Vetted, Early, Stages
    <2>3. Visible(found, p.visible)
      BY <1>3, <2>2, FoundVisible DEF Visible
    <2>4. Vetted(next) /\ Noted(next, gaps) /\ Within(next)
      BY <1>0, <2>1, <2>2 DEF Good, Honest, Vetted, Core, Noted, Within, Keeps, Early, Ended
    <2> QED BY <1>0, <2>0, <2>1, <2>2, <2>3, <2>4 DEF Good, Honest, Keeps, Unread, Pcs, Early
  <1>7. PICK n : passes' = [passes EXCEPT ![c] = n] /\ Good(n, gaps, published) /\ ~n.charging
    BY <1>5, <1>6, ToRerankReaches, GoodReaches DEF Set
  <1>8. DOMAIN passes' = Clerk /\ PassesAreGood' /\ CounterIsTrue'
    BY <1>1, <1>7, OneMoves DEF shared, Grows
  <1> QED BY <1>1, <1>8 DEF ReplyInv, ReplyTypes, shared

\* A step that leaves the tables alone and a pass that is good and holds no counter.
LEMMA QuietStep ==
  ASSUME ReplyInv, NEW c \in Clerk, NEW n, passes' = [passes EXCEPT ![c] = n], UNCHANGED shared,
         n # NoPass => Good(n, gaps, published) /\ ~n.charging
  PROVE  ReplyInv'
  <1>1. DOMAIN passes' = Clerk /\ PassesAreGood' /\ CounterIsTrue'
    BY OneMoves DEF shared, Grows
  <1> QED BY <1>1 DEF ReplyInv, ReplyTypes, shared

\* Other candidates for a pass that is still to be ranked.
LEMMA WithCands ==
  ASSUME NEW p, Good(p, gaps, published), p.pc \in Early, NEW cands, Visible(cands, p.visible),
         NEW r, r = [p EXCEPT !.cands = cands]
  PROVE  Good(r, gaps, published) /\ ~r.charging /\ Unread(r)
  <1>0. Fields \subseteq DOMAIN p
    BY DEF Good, Honest
  <1>1. /\ Keeps(p, r) /\ r.pc = p.pc /\ r.cands = cands /\ r.draft = p.draft
        /\ r.decision = p.decision /\ r.unnoted = p.unnoted
    BY <1>0 DEF Keeps, Fields
  <1>2. ~p.charging /\ ~p.draft /\ p.decision = "escalate"
    BY DEF Good, Honest, Within, Vetted, Early, Stages
  <1>3. Vetted(r) /\ Noted(r, gaps) /\ Within(r)
    BY <1>1, <1>2 DEF Good, Honest, Vetted, Core, Noted, Within, Keeps, Early, Ended
  <1> QED BY <1>0, <1>1, <1>2, <1>3 DEF Good, Honest, Keeps, Unread

LEMMA RetrieveLateKeeps ==
  ASSUME ReplyInv, NEW c \in Clerk, RetrieveLate(c)
  PROVE  ReplyInv'
  <1> DEFINE p == passes[c]
  <1>0. Good(p, gaps, published) /\ p.pc = "retrieve"
    BY Busy DEF RetrieveLate, On, Pcs, Early
  <1>1. Unread(p) /\ ~p.charging
    BY <1>0 DEF Good, Honest, Within, Vetted, Early, Stages, Unread
  <1>2. PICK n : passes' = [passes EXCEPT ![c] = n] /\ (n = Fail(p) \/ n \in ToRerank(p))
    BY DEF RetrieveLate, Set
  <1>3. n # NoPass => Good(n, gaps, published) /\ ~n.charging
    BY <1>0, <1>1, <1>2, GoodFail, ToRerankReaches, GoodReaches
  <1> QED BY <1>2, <1>3, QuietStep DEF RetrieveLate

LEMMA AssembleKeeps ==
  ASSUME ReplyInv, NEW c \in Clerk, Assemble(c)
  PROVE  ReplyInv'
  <1> DEFINE p == passes[c]
  <1>0. Good(p, gaps, published) /\ p.pc \in Early
    BY Busy DEF Assemble, On, Pcs, Early
  <1>1. PICK n : /\ passes' = [passes EXCEPT ![c] = n]
                 /\ \/ n = Fail(p)
                    \/ \E cands \in {{ParentChunk(d) : d \in p.cands}, p.cands} :
                          n \in ToRerank([p EXCEPT !.cands = cands])
    BY DEF Assemble, Set
  <1>2. ASSUME NEW cands \in {{ParentChunk(d) : d \in p.cands}, p.cands},
               n \in ToRerank([p EXCEPT !.cands = cands])
        PROVE  Good(n, gaps, published) /\ ~n.charging
    <2>1. Visible(p.cands, p.visible) /\ published \subseteq p.visible
      BY <1>0 DEF Good, Honest
    <2>2. ASSUME NEW d \in p.cands
          PROVE  /\ OwnerOf[ParentChunk(d).article] \in Coverage
                 /\ ParentChunk(d).by \in {"fts", "graph"} \/ ParentChunk(d).article \in p.visible
      <3>1. CASE HasContext(d)
        BY <2>1, <3>1 DEF ParentChunk, HasContext, Cand, Visible
      <3>2. CASE ~HasContext(d)
        BY <2>1, <3>2 DEF ParentChunk, Visible
      <3> QED BY <3>1, <3>2
    <2>3. Visible(cands, p.visible)
      BY <2>1, <2>2 DEF Visible
    <2>4. PICK r : r = [p EXCEPT !.cands = cands]
      OBVIOUS
    <2>5. Good(r, gaps, published) /\ ~r.charging /\ Unread(r)
      BY <1>0, <2>3, <2>4, WithCands
    <2> QED BY <1>2, <2>4, <2>5, ToRerankReaches, GoodReaches
  <1>3. n # NoPass => Good(n, gaps, published) /\ ~n.charging
    BY <1>0, <1>1, <1>2, GoodFail
  <1> QED BY <1>1, <1>3, QuietStep DEF Assemble

LEMMA GapReadKeeps ==
  ASSUME ReplyInv, NEW c \in Clerk, GapRead(c)
  PROVE  ReplyInv'
  <1> DEFINE p == passes[c]
  <1>0. Good(p, gaps, published) /\ p.pc = "gap"
    BY Busy DEF GapRead, On, Pcs
  <1>1. PICK n : /\ passes' = [passes EXCEPT ![c] = n]
                 /\ \/ \E i \in {0} \union {k \in DOMAIN gaps : gaps[k].question = p.question} :
                          n = [p EXCEPT !.pc = "note", !.gap = i]
                    \/ n \in ToDraft([p EXCEPT !.unnoted = TRUE])
    BY DEF GapRead, Set
  <1>2. ~p.charging /\ Fields \subseteq DOMAIN p /\ Core(p)
    BY <1>0 DEF Good, Honest, Within, Stages, Vetted
  <1>3. ASSUME NEW i \in {0} \union {k \in DOMAIN gaps : gaps[k].question = p.question},
               n = [p EXCEPT !.pc = "note", !.gap = i]
        PROVE  Good(n, gaps, published) /\ ~n.charging
    <2>1. /\ Keeps(p, n) /\ n.pc = "note" /\ n.gap = i /\ n.cands = p.cands /\ n.draft = p.draft
          /\ n.decision = p.decision /\ n.verdict = p.verdict /\ n.graded = p.graded
      BY <1>2, <1>3 DEF Keeps, Fields
    <2>2. Vetted(n) /\ Noted(n, gaps) /\ Within(n)
      BY <1>0, <1>2, <2>1 DEF Good, Honest, Vetted, Core, Noted, Within, Keeps, Early, Ended
    <2> QED BY <1>0, <1>2, <2>1, <2>2 DEF Good, Honest, Keeps, Pcs, Early
  <1>4. ASSUME n \in ToDraft([p EXCEPT !.unnoted = TRUE])
        PROVE  Good(n, gaps, published) /\ ~n.charging
    <2>1. PICK r : r = [p EXCEPT !.unnoted = TRUE]
      OBVIOUS
    <2>2. /\ Keeps(p, r) /\ r.pc = p.pc /\ r.gap = p.gap /\ r.cands = p.cands /\ r.draft = p.draft
          /\ r.decision = p.decision /\ r.verdict = p.verdict /\ r.graded = p.graded /\ r.unnoted
          /\ r.sent = p.sent
      BY <1>2, <2>1 DEF Keeps, Fields
    <2>3. Vetted(r) /\ Noted(r, gaps) /\ Within(r)
      BY <1>0, <1>2, <2>2 DEF Good, Honest, Vetted, Core, Noted, Within, Keeps, Early, Ended, Fast
    <2>4. Good(r, gaps, published) /\ ~r.charging
      BY <1>0, <1>2, <2>2, <2>3 DEF Good, Honest, Keeps, Pcs, Early
    <2>5. Follows(r, n)
      BY <1>4, <2>1, <2>3, <2>4, ToDraftFollows DEF Good, Honest, Vetted
    <2> QED BY <2>2, <2>4, <2>5, GoodFollows
  <1> QED BY <1>1, <1>3, <1>4, QuietStep DEF GapRead

LEMMA RetryKeeps ==
  ASSUME ReplyInv, NEW c \in Clerk, Retry(c)
  PROVE  ReplyInv'
  <1> DEFINE p == passes[c]
  <1>0. Good(p, gaps, published) /\ p.pc = "retry"
    BY Busy DEF Retry, On, Pcs, Ended
  <1>1. ~p.charging /\ Fields \subseteq DOMAIN p
    BY <1>0 DEF Good, Honest, Within, Stages
  <1>2. PICK n : /\ passes' = [passes EXCEPT ![c] = n]
                 /\ n = IF p.late THEN [p EXCEPT !.pc = "respond"]
                        ELSE Begin([p EXCEPT !.mode = "full_review"], 2, p)
    BY DEF Retry, Set
  <1>3. CASE p.late
    <2>1. n = [p EXCEPT !.pc = "respond"]
      BY <1>2, <1>3
    <2>2. /\ Keeps(p, n) /\ n.pc = "respond" /\ n.gap = p.gap /\ n.cands = p.cands /\ n.draft = p.draft
          /\ n.decision = p.decision /\ n.verdict = p.verdict /\ n.graded = p.graded
          /\ n.sent = p.sent /\ n.unnoted = p.unnoted
      BY <1>1, <2>1 DEF Keeps, Fields
    <2>3. Vetted(n) /\ Noted(n, gaps) /\ Within(n)
      BY <1>0, <1>1, <2>2 DEF Good, Honest, Vetted, Core, Noted, Within, Keeps, Early, Ended, Fast
    <2>4. Good(n, gaps, published) /\ ~n.charging
      BY <1>0, <1>1, <2>2, <2>3 DEF Good, Honest, Keeps, Pcs, Early, Ended
    <2> QED BY <1>2, <2>4, QuietStep DEF Retry
  <1>4. CASE ~p.late
    <2>1. PICK r : r = [p EXCEPT !.mode = "full_review"]
      OBVIOUS
    <2>2. r.question \in Question
      BY <1>0, <1>1, <2>1 DEF Good, Honest, Fields
    <2>3. n = Begin(r, 2, p)
      BY <1>2, <1>4, <2>1
    <2>4. Good(n, gaps, published) /\ ~n.charging
      BY <1>0, <2>2, <2>3, BeginGood DEF Good
    <2> QED BY <1>2, <2>4, QuietStep DEF Retry
  <1> QED BY <1>3, <1>4

\* The question of the pass is on record afterwards, unless the pass was late.
LEMMA GapWriteKeeps ==
  ASSUME ReplyInv, NEW c \in Clerk, GapWrite(c)
  PROVE  ReplyInv'
  <1> DEFINE p == passes[c]
  <1>0. Good(p, gaps, published) /\ p.pc = "note"
    BY Busy DEF GapWrite, On, Pcs
  <1>1. ~p.charging /\ Fields \subseteq DOMAIN p /\ Core(p) /\ p.question \in Question
    BY <1>0 DEF Good, Honest, Within, Stages, Vetted, Early, Ended
  <1>2. gaps \in Seq(Gap)
    BY DEF ReplyInv, ReplyTypes
  <1>3. /\ gaps' \in Seq(Gap) /\ Grows(gaps, gaps')
        /\ ~p.late => \E i \in DOMAIN gaps' : gaps'[i].question = p.question
    <2>1. CASE p.late
      BY <1>2, <2>1 DEF GapWrite, Grows
    <2>2. CASE ~p.late /\ p.gap = 0
      <3>1. PICK row \in Gap : gaps' = Append(gaps, row) /\ row.question = p.question
        BY <1>1, <2>2 DEF GapWrite, Gap
      <3>2. gaps' \in Seq(Gap) /\ DOMAIN gaps' = 1..(Len(gaps) + 1) /\ gaps'[Len(gaps) + 1] = row
        BY <1>2, <3>1
      <3>3. \A i \in DOMAIN gaps : i \in DOMAIN gaps' /\ gaps'[i] = gaps[i]
        BY <1>2, <3>1
      <3>4. Len(gaps) + 1 \in DOMAIN gaps'
        BY <1>2, <3>2
      <3> QED BY <3>1, <3>2, <3>3, <3>4 DEF Grows
    <2>3. CASE ~p.late /\ p.gap # 0
      <3>1. p.gap \in DOMAIN gaps /\ gaps[p.gap].question = p.question
        BY <1>0, <2>3 DEF Good, Honest, Noted
      <3>2. PICK k : k = p.gap
        OBVIOUS
      <3>0. PICK old \in Gap : old = gaps[k]
        BY <1>2, <3>1, <3>2
      <3>3. PICK row \in Gap : /\ row = [gaps[k] EXCEPT !.count = @ + 1]
                               /\ row.question = gaps[k].question
        <4>1. PICK row : row = [old EXCEPT !.count = @ + 1]
          OBVIOUS
        <4>2. row \in Gap /\ row.question = old.question
          BY <4>1 DEF Gap
        <4> QED BY <3>0, <4>1, <4>2
      <3>4. gaps' = [gaps EXCEPT ![k] = row]
        BY <2>3, <3>2, <3>3 DEF GapWrite
      <3>5. gaps' \in Seq(Gap) /\ DOMAIN gaps' = DOMAIN gaps
        BY <1>2, <3>1, <3>2, <3>4
      <3>6. \A i \in DOMAIN gaps : gaps'[i] = IF i = k THEN row ELSE gaps[i]
        BY <1>2, <3>4
      <3> QED BY <3>1, <3>2, <3>3, <3>5, <3>6 DEF Grows
    <2> QED BY <2>1, <2>2, <2>3
  <1>4. PICK n : /\ passes' = [passes EXCEPT ![c] = n]
                 /\ n \in ToDraft([p EXCEPT !.gap = 0, !.unnoted = p.late])
    BY DEF GapWrite, Set
  <1>5. PICK r : r = [p EXCEPT !.gap = 0, !.unnoted = p.late]
    OBVIOUS
  <1>6. /\ Keeps(p, r) /\ r.pc = p.pc /\ r.gap = 0 /\ r.cands = p.cands /\ r.draft = p.draft
        /\ r.decision = p.decision /\ r.verdict = p.verdict /\ r.graded = p.graded
        /\ r.unnoted = p.late /\ r.sent = p.sent
    BY <1>1, <1>5 DEF Keeps, Fields
  <1>7. Good(p, gaps', published)
    BY <1>0, <1>3, GoodStays
  <1>8. Good(r, gaps', published) /\ ~r.charging /\ Core(r)
    <2>1. Vetted(r) /\ Noted(r, gaps') /\ Within(r)
      BY <1>1, <1>6, <1>7, <1>0 DEF Good, Honest, Vetted, Core, Noted, Within, Keeps, Early, Ended, Fast
    <2> QED BY <1>0, <1>1, <1>6, <1>7, <2>1 DEF Good, Honest, Keeps, Pcs, Early, Vetted
  <1>9. Follows(r, n)
    BY <1>4, <1>5, <1>8, ToDraftFollows DEF Good, Honest
  <1>10. Good(n, gaps', published) /\ ~n.charging
    <2>1. r.cands = {} /\ ~r.unnoted => \E i \in DOMAIN gaps' : gaps'[i].question = r.question
      BY <1>3, <1>6 DEF Keeps
    <2> QED BY <1>8, <1>9, <2>1, GoodFollows
  <1>11. published' = published /\ UNCHANGED <<window, used, granted, raced, requests>>
    BY DEF GapWrite
  <1>12. DOMAIN passes' = Clerk /\ PassesAreGood' /\ CounterIsTrue'
    BY <1>3, <1>4, <1>10, <1>11, OneMoves
  <1> QED BY <1>3, <1>11, <1>12 DEF ReplyInv, ReplyTypes

LEMMA RespondKeeps ==
  ASSUME ReplyInv, NEW c \in Clerk, Respond(c)
  PROVE  ReplyInv'
  BY QuietStep DEF Respond, Set

LEMMA ExpireKeeps ==
  ASSUME ReplyInv, NEW c \in Clerk, Expire(c)
  PROVE  ReplyInv'
  <1> DEFINE p == passes[c]
  <1>0. p # NoPass /\ Good(p, gaps, published) /\ UNCHANGED shared
    BY DEF Expire, ReplyInv, PassesAreGood
  <1>1. PICK n : passes' = [passes EXCEPT ![c] = n] /\ n = [p EXCEPT !.late = TRUE]
    BY DEF Expire, Set
  <1>2. Fields \subseteq DOMAIN p
    BY <1>0 DEF Good, Honest
  <1>3. /\ DOMAIN n = DOMAIN p
        /\ n.pc = p.pc /\ n.question = p.question /\ n.mode = p.mode /\ n.pass = p.pass
        /\ n.first = p.first /\ n.visible = p.visible /\ n.asked = p.asked /\ n.spent = p.spent
        /\ n.charging = p.charging /\ n.held = p.held /\ n.win = p.win /\ n.cands = p.cands
        /\ n.unnoted = p.unnoted /\ n.gap = p.gap /\ n.draft = p.draft /\ n.decision = p.decision
        /\ n.verdict = p.verdict /\ n.graded = p.graded /\ n.sent = p.sent
    BY <1>1, <1>2 DEF Fields
  <1>4. Vetted(n) /\ Noted(n, gaps) /\ Within(n)
    BY <1>0, <1>3 DEF Good, Honest, Vetted, Core, Noted, Within, Fast
  <1>5. Good(n, gaps, published)
    BY <1>0, <1>3, <1>4 DEF Good, Honest
  <1>6. DOMAIN passes' = Clerk /\ PassesAreGood' /\ CounterIsTrue'
    BY <1>0, <1>1, <1>3, <1>5, OneMoves DEF shared, Grows
  <1> QED BY <1>0, <1>6 DEF ReplyInv, ReplyTypes, shared

\* The passes do not move.
LEMMA OthersKeep ==
  ASSUME ReplyInv, UNCHANGED <<passes, gaps, used, granted, raced, requests>>,
         published' \subseteq published, window' \in 1..MaxWindow
  PROVE  ReplyInv'
  <1>1. ASSUME NEW c \in Clerk, passes'[c] # NoPass
        PROVE  Good(passes'[c], gaps', published')
    BY <1>1 DEF ReplyInv, PassesAreGood, Good
  <1>2. PassesAreGood'
    BY <1>1 DEF PassesAreGood
  <1> QED BY <1>2 DEF ReplyInv, ReplyTypes, CounterIsTrue, Holds

LEMMA PublishKeeps ==
  ASSUME ReplyInv, NEW a \in Article, Publish(a)
  PROVE  ReplyInv'
  <1>0. UNCHANGED <<window, used, gaps, granted, raced, requests>> /\ published' = published \union {a}
    BY DEF Publish
  <1>1. ASSUME NEW c \in Clerk, passes[c] # NoPass
        PROVE  /\ Good(passes'[c], gaps, published')
               /\ passes'[c].charging = passes[c].charging /\ passes'[c].win = passes[c].win
               /\ passes'[c].held = passes[c].held
    <2>1. PICK p, n : p = passes[c] /\ n = passes'[c]
      OBVIOUS
    <2>2. n = [p EXCEPT !.visible = @ \union {a}]
      BY <1>1, <2>1 DEF Publish
    <2>3. Good(p, gaps, published)
      BY <1>1, <2>1 DEF ReplyInv, PassesAreGood
    <2>4. Fields \subseteq DOMAIN p
      BY <2>3 DEF Good, Honest
    <2>5. /\ DOMAIN n = DOMAIN p /\ n.visible = p.visible \union {a}
          /\ n.pc = p.pc /\ n.question = p.question /\ n.mode = p.mode /\ n.pass = p.pass
          /\ n.first = p.first /\ n.asked = p.asked /\ n.spent = p.spent
          /\ n.charging = p.charging /\ n.held = p.held /\ n.win = p.win /\ n.cands = p.cands
          /\ n.unnoted = p.unnoted /\ n.gap = p.gap /\ n.draft = p.draft /\ n.decision = p.decision
          /\ n.verdict = p.verdict /\ n.graded = p.graded /\ n.sent = p.sent
      BY <2>2, <2>4 DEF Fields
    <2>6. Vetted(n) /\ Noted(n, gaps) /\ Within(n) /\ Visible(n.cands, n.visible)
      BY <2>3, <2>5 DEF Good, Honest, Vetted, Core, Noted, Within, Visible, Fast
    <2>7. n.pc \in Early => published' \subseteq n.visible
      BY <1>0, <2>3, <2>5 DEF Good
    <2>8. Good(n, gaps, published')
      BY <2>3, <2>5, <2>6, <2>7 DEF Good, Honest
    <2> QED BY <2>1, <2>5, <2>8
  <1>2. DOMAIN passes' = Clerk /\ \A c \in Clerk : passes[c] = NoPass => passes'[c] = NoPass
    BY DEF Publish
  <1>3. PassesAreGood'
    BY <1>0, <1>1, <1>2 DEF PassesAreGood
  <1>4. \A c \in Clerk, w \in 1..MaxWindow : Holds(c, w)' => Holds(c, w) /\ passes'[c].held = passes[c].held
    BY <1>1, <1>2 DEF Holds
  <1>5. CounterIsTrue'
    BY <1>0, <1>4 DEF ReplyInv, CounterIsTrue
  <1> QED BY <1>0, <1>2, <1>3, <1>5 DEF ReplyInv, ReplyTypes

\* Whoever holds a counter read it while nobody else held it, or the window has raced.
LEMMA AcquireKeeps ==
  ASSUME ReplyInv, NEW c \in Clerk, Acquire(c)
  PROVE  ReplyInv'
  <1>0. passes[c] # NoPass
    BY DEF Acquire, NoPass
  <1>1. PICK p : p = passes[c]
    OBVIOUS
  <1>2. Good(p, gaps, published) /\ Fields \subseteq DOMAIN p /\ Vetted(p) /\ Within(p)
    BY <1>0, <1>1 DEF ReplyInv, PassesAreGood, Good, Honest
  <1>3. PICK q : q = [p EXCEPT !.asked = @ + 1]
    OBVIOUS
  <1>4. /\ q.pc = p.pc /\ q.pc \in Stages /\ ~p.charging
        /\ IF AllowRequest(p) /\ AllowWindow(q)
           THEN /\ Set(c, [q EXCEPT !.charging = TRUE, !.held = CacheGet(window), !.win = window])
                /\ raced' = IF Charging(window) = {} THEN raced ELSE raced \union {window}
           ELSE (\E n \in Without(q) : Set(c, n)) /\ UNCHANGED raced
        /\ UNCHANGED <<published, window, used, gaps, granted, requests>>
    <2>1. q.pc = p.pc
      BY <1>2, <1>3 DEF Fields
    <2> QED BY <1>0, <1>1, <1>3, <2>1 DEF Acquire, Stages
  <1>5. /\ DOMAIN q = DOMAIN p /\ q.question = p.question /\ q.mode = p.mode /\ q.pass = p.pass
        /\ q.first = p.first /\ q.visible = p.visible /\ q.asked = p.asked + 1 /\ q.spent = p.spent
        /\ q.charging = p.charging /\ q.win = p.win /\ q.held = p.held /\ q.cands = p.cands
        /\ q.unnoted = p.unnoted /\ q.gap = p.gap /\ q.draft = p.draft /\ q.decision = p.decision
        /\ q.verdict = p.verdict /\ q.graded = p.graded /\ q.sent = p.sent /\ q.pc = p.pc
    BY <1>2, <1>3 DEF Fields
  <1>6. Good(q, gaps, published) /\ ~q.charging /\ Vetted(q) /\ Fields \subseteq DOMAIN q
    <2>1. Vetted(q) /\ Noted(q, gaps)
      BY <1>2, <1>5 DEF Good, Honest, Vetted, Core, Noted, Fast
    <2>2. Within(q)
      BY <1>2, <1>4, <1>5 DEF Within
    <2> QED BY <1>2, <1>4, <1>5, <2>1, <2>2 DEF Good, Honest
  <1>7. CASE ~(AllowRequest(p) /\ AllowWindow(q))
    <2>1. PICK n \in Without(q) : passes' = [passes EXCEPT ![c] = n]
      BY <1>4, <1>7 DEF Set
    <2>2. Good(n, gaps, published) /\ ~n.charging
      BY <1>4, <1>6, <2>1, WithoutContinues, GoodContinues
    <2> QED BY <1>4, <1>7, <2>1, <2>2, QuietStep DEF shared
  <1>8. CASE AllowRequest(p) /\ AllowWindow(q)
    <2>1. PICK n : /\ n = [q EXCEPT !.charging = TRUE, !.held = CacheGet(window), !.win = window]
                   /\ passes' = [passes EXCEPT ![c] = n]
      BY <1>4, <1>8 DEF Set
    <2>2. /\ DOMAIN n = DOMAIN q /\ n.question = q.question /\ n.mode = q.mode /\ n.pass = q.pass
          /\ n.first = q.first /\ n.visible = q.visible /\ n.asked = q.asked /\ n.spent = q.spent
          /\ n.charging = TRUE /\ n.win = window /\ n.held = used[window] /\ n.cands = q.cands
          /\ n.unnoted = q.unnoted /\ n.gap = q.gap /\ n.draft = q.draft /\ n.decision = q.decision
          /\ n.verdict = q.verdict /\ n.graded = q.graded /\ n.sent = q.sent /\ n.pc = q.pc
      BY <1>6, <2>1 DEF Fields, CacheGet
    <2>3. window \in 1..MaxWindow /\ used[window] \in Nat
      BY DEF ReplyInv, ReplyTypes
    <2>4. Within(n)
      <3>1. MaxPerRequest # 0 => p.asked + 1 <= MaxPerRequest
        BY <1>8 DEF AllowRequest
      <3>2. p.asked \in Nat /\ p.spent \in Nat /\ p.spent <= p.asked
        BY <1>2 DEF Within
      <3> QED BY <1>4, <1>5, <2>2, <2>3, <3>1, <3>2, CallLimits DEF Within
    <2>5. Vetted(n) /\ Noted(n, gaps)
      BY <1>6, <2>2 DEF Good, Honest, Vetted, Core, Noted, Fast
    <2>6. Good(n, gaps', published')
      BY <1>4, <1>6, <2>2, <2>4, <2>5 DEF Good, Honest
    <2>7. /\ DOMAIN passes' = Clerk /\ PassesAreGood'
          /\ passes'[c] = n /\ \A d \in Clerk \ {c} : passes'[d] = passes[d]
      BY <1>4, <2>1, <2>6, OneIsGood DEF Grows
    <2>8. raced' = IF Charging(window) = {} THEN raced ELSE raced \union {window}
      BY <1>4, <1>8
    <2>9. CounterIsTrue'
      <3> SUFFICES ASSUME MaxPerWindow # 0, NEW w \in (1..MaxWindow) \ raced'
                   PROVE  /\ used[w] = granted[w] /\ granted[w] <= MaxPerWindow
                          /\ \A a, b \in Clerk : Holds(a, w)' /\ Holds(b, w)' => a = b
                          /\ \A a \in Clerk : Holds(a, w)' => /\ passes'[a].held = used[w]
                                                             /\ used[w] < MaxPerWindow
        BY <1>4 DEF CounterIsTrue
      <3>1. w \in (1..MaxWindow) \ raced
        BY <2>8
      <3>2. /\ used[w] = granted[w] /\ granted[w] <= MaxPerWindow
            /\ \A a, b \in Clerk : Holds(a, w) /\ Holds(b, w) => a = b
            /\ \A a \in Clerk : Holds(a, w) => passes[a].held = used[w] /\ used[w] < MaxPerWindow
        BY <3>1 DEF ReplyInv, CounterIsTrue
      <3>3. \A a \in Clerk \ {c} : (Holds(a, w)' <=> Holds(a, w)) /\ passes'[a] = passes[a]
        BY <2>7 DEF Holds
      <3>4. CASE w = window
        <4>1. Charging(window) = {}
          BY <2>8, <3>4
        <4>2. \A a \in Clerk : ~Holds(a, w)
          BY <3>4, <4>1 DEF Charging, Holds
        <4>3. used[window] < MaxPerWindow
          BY <1>8 DEF AllowWindow, CacheGet
        <4> QED BY <2>2, <2>7, <3>2, <3>3, <3>4, <4>2, <4>3
      <3>5. CASE w # window
        <4>1. ~Holds(c, w)'
          BY <2>2, <2>7, <3>5 DEF Holds
        <4> QED BY <3>2, <3>3, <4>1
      <3> QED BY <3>4, <3>5
    <2>10. ReplyTypes'
      BY <1>4, <2>7 DEF ReplyInv, ReplyTypes
    <2> QED BY <2>7, <2>9, <2>10 DEF ReplyInv
  <1> QED BY <1>7, <1>8

\* Where nobody else held the counter, what is written is what was read, and one more.
LEMMA ChargeKeeps ==
  ASSUME ReplyInv, NEW c \in Clerk, Charge(c)
  PROVE  ReplyInv'
  <1>1. PICK p : p = passes[c]
    OBVIOUS
  <1>2. p # NoPass /\ p.charging /\ Good(p, gaps, published)
    BY <1>1 DEF Charge, ReplyInv, PassesAreGood
  <1>3. Fields \subseteq DOMAIN p /\ p.pc \in Stages /\ p.win \in 1..MaxWindow /\ p.held \in Nat
    BY <1>2 DEF Good, Honest, Within
  <1>4. PICK q : q = [p EXCEPT !.charging = FALSE, !.held = 0, !.win = 0, !.spent = @ + 1]
    OBVIOUS
  <1>5. /\ DOMAIN q = DOMAIN p /\ q.question = p.question /\ q.mode = p.mode /\ q.pass = p.pass
        /\ q.first = p.first /\ q.visible = p.visible /\ q.asked = p.asked /\ q.spent = p.spent + 1
        /\ q.charging = FALSE /\ q.cands = p.cands
        /\ q.unnoted = p.unnoted /\ q.gap = p.gap /\ q.draft = p.draft /\ q.decision = p.decision
        /\ q.verdict = p.verdict /\ q.graded = p.graded /\ q.sent = p.sent /\ q.pc = p.pc
    BY <1>3, <1>4 DEF Fields
  <1>6. Good(q, gaps, published) /\ ~q.charging /\ Vetted(q) /\ Fields \subseteq DOMAIN q
    <2>1. Vetted(q) /\ Noted(q, gaps)
      BY <1>2, <1>5 DEF Good, Honest, Vetted, Core, Noted, Fast
    <2>2. Within(q)
      <3>1. /\ p.asked \in Nat /\ p.spent \in Nat /\ p.spent < p.asked
            /\ MaxPerRequest # 0 => p.spent < MaxPerRequest
        BY <1>2 DEF Good, Honest, Within
      <3> QED BY <1>5, <3>1, CallLimits DEF Within
    <2> QED BY <1>2, <1>3, <1>5, <2>1, <2>2 DEF Good, Honest
  <1>7. /\ IF MaxPerWindow = 0 THEN UNCHANGED used ELSE used' = [used EXCEPT ![p.win] = p.held + 1]
        /\ granted' = [granted EXCEPT ![p.win] = @ + 1]
        /\ \/ \E n \in Without(q) : passes' = [passes EXCEPT ![c] = n]
           \/ Asks(q) /\ \E n \in Answered(q) : passes' = [passes EXCEPT ![c] = n]
           \/ \E n \in Unanswered(q) : passes' = [passes EXCEPT ![c] = n]
        /\ UNCHANGED <<published, window, gaps, raced, requests>>
    BY <1>1, <1>4 DEF Charge, Set, CacheSet
  <1>8. PICK n : /\ passes' = [passes EXCEPT ![c] = n]
                 /\ n # NoPass => Good(n, gaps, published) /\ ~n.charging
    <2>1. CASE \E n \in Without(q) : passes' = [passes EXCEPT ![c] = n]
      BY <1>3, <1>5, <1>6, <2>1, WithoutContinues, GoodContinues
    <2>2. CASE Asks(q) /\ \E n \in Answered(q) : passes' = [passes EXCEPT ![c] = n]
      BY <1>3, <1>5, <1>6, <2>2, AnsweredContinues, GoodContinues
    <2>3. CASE \E n \in Unanswered(q) : passes' = [passes EXCEPT ![c] = n]
      <3>1. PICK n : passes' = [passes EXCEPT ![c] = n] /\ (n = Fail(q) \/ n \in Without(q))
        BY <2>3 DEF Unanswered
      <3>2. CASE n = Fail(q)
        BY <1>6, <3>1, <3>2, GoodFail
      <3>3. CASE n \in Without(q)
        <4>1. Continues(q, n)
          BY <1>3, <1>5, <1>6, <3>3, WithoutContinues
        <4>2. Good(n, gaps, published) /\ ~n.charging
          BY <1>6, <4>1, GoodContinues
        <4> QED BY <3>1, <4>2
      <3> QED BY <3>1, <3>2, <3>3
    <2>4. \/ \E n \in Without(q) : passes' = [passes EXCEPT ![c] = n]
          \/ Asks(q) /\ \E n \in Answered(q) : passes' = [passes EXCEPT ![c] = n]
          \/ \E n \in Unanswered(q) : passes' = [passes EXCEPT ![c] = n]
      BY <1>7
    <2> QED BY <2>1, <2>2, <2>3, <2>4
  <1>9. n # NoPass => Good(n, gaps', published')
    BY <1>7, <1>8
  <1>10. /\ DOMAIN passes' = Clerk /\ PassesAreGood'
         /\ passes'[c] = n /\ \A d \in Clerk \ {c} : passes'[d] = passes[d]
    BY <1>7, <1>8, <1>9, OneIsGood DEF Grows
  <1>11. ReplyTypes'
    <2>1. used \in [1..MaxWindow -> Nat] /\ granted \in [1..MaxWindow -> Nat]
      BY DEF ReplyInv, ReplyTypes
    <2>2. used' \in [1..MaxWindow -> Nat]
      BY <1>3, <1>7, <2>1
    <2>3. granted' \in [1..MaxWindow -> Nat]
      BY <1>3, <1>7, <2>1
    <2> QED BY <1>7, <1>10, <2>2, <2>3 DEF ReplyInv, ReplyTypes
  <1>12. CounterIsTrue'
    <2> SUFFICES ASSUME MaxPerWindow # 0, NEW w \in (1..MaxWindow) \ raced
                 PROVE  /\ used'[w] = granted'[w] /\ granted'[w] <= MaxPerWindow
                        /\ \A a, b \in Clerk : Holds(a, w)' /\ Holds(b, w)' => a = b
                        /\ \A a \in Clerk : Holds(a, w)' => /\ passes'[a].held = used'[w]
                                                           /\ used'[w] < MaxPerWindow
      BY <1>7 DEF CounterIsTrue
    <2>1. /\ used[w] = granted[w] /\ granted[w] <= MaxPerWindow
          /\ \A a, b \in Clerk : Holds(a, w) /\ Holds(b, w) => a = b
          /\ \A a \in Clerk : Holds(a, w) => passes[a].held = used[w] /\ used[w] < MaxPerWindow
      BY DEF ReplyInv, CounterIsTrue
    <2>2. /\ \A a \in Clerk \ {c} : (Holds(a, w)' <=> Holds(a, w)) /\ passes'[a] = passes[a]
          /\ ~Holds(c, w)'
      BY <1>8, <1>10 DEF Holds
    <2>3. used \in [1..MaxWindow -> Nat] /\ granted \in [1..MaxWindow -> Nat]
      BY DEF ReplyInv, ReplyTypes
    <2>4. CASE w = p.win
      <3>1. Holds(c, w)
        BY <1>1, <1>2, <2>4 DEF Holds
      <3>2. \A a \in Clerk : ~Holds(a, w)'
        BY <2>1, <2>2, <3>1
      <3>3. p.held = used[w] /\ used[w] < MaxPerWindow
        BY <1>1, <2>1, <3>1
      <3>4. used'[w] = used[w] + 1 /\ granted'[w] = granted[w] + 1
        BY <1>3, <1>7, <2>3, <2>4, <3>3
      <3> QED BY <2>1, <2>3, <3>2, <3>3, <3>4, CallLimits
    <2>5. CASE w # p.win
      <3>1. used'[w] = used[w] /\ granted'[w] = granted[w]
        BY <1>7, <2>3, <2>5
      <3> QED BY <2>1, <2>2, <3>1
    <2> QED BY <2>4, <2>5
  <1> QED BY <1>10, <1>11, <1>12 DEF ReplyInv

-----------------------------------------------------------------------------
(***************************************************************************)
(* The theorems.                                                           *)
(***************************************************************************)
LEMMA ReplyInvInit == ReplyInit => ReplyInv
  <1> SUFFICES ASSUME ReplyInit PROVE ReplyInv
    OBVIOUS
  <1>1. PICK r \in ReplyPlans : requests = r.requests
    BY DEF ReplyInit
  <1>2. requests \subseteq Inquiry
    BY <1>1, ReplyAssumption DEF Inquiry
  <1>3. ReplyTypes
    BY <1>2, CallLimits DEF ReplyInit, ReplyTypes
  <1>4. PassesAreGood
    BY DEF ReplyInit, PassesAreGood
  <1>5. CounterIsTrue
    BY CallLimits DEF ReplyInit, CounterIsTrue, Holds
  <1> QED BY <1>3, <1>4, <1>5 DEF ReplyInv

LEMMA ReplyInvStep == ReplyInv /\ [ReplyNext]_replyVars => ReplyInv'
  <1> SUFFICES ASSUME ReplyInv, [ReplyNext]_replyVars PROVE ReplyInv'
    OBVIOUS
  <1>1. ASSUME NEW c \in Clerk,
               \/ RequestReply(c) \/ Retrieve(c) \/ RetrieveLate(c) \/ Assemble(c) \/ Acquire(c)
               \/ Charge(c) \/ GapRead(c) \/ GapWrite(c) \/ Retry(c) \/ Respond(c) \/ Expire(c)
        PROVE  ReplyInv'
    BY <1>1, RequestReplyKeeps, RetrieveKeeps, RetrieveLateKeeps, AssembleKeeps, AcquireKeeps,
       ChargeKeeps, GapReadKeeps, GapWriteKeeps, RetryKeeps, RespondKeeps, ExpireKeeps
  <1>2. ASSUME NEW company \in Tenant, NEW id \in DOMAIN actions, NEW verdict \in Verdicts,
               Feedback(company, id, verdict)
        PROVE  ReplyInv'
    BY <1>2, OthersKeep DEF Feedback, shared, ReplyInv, ReplyTypes
  <1>3. ASSUME NEW a \in Article, Archive(a)
        PROVE  ReplyInv'
    BY <1>3, OthersKeep DEF Archive, ReplyInv, ReplyTypes
  <1>4. ASSUME NEW a \in Article, Publish(a)
        PROVE  ReplyInv'
    BY <1>4, PublishKeeps
  <1>5. CASE Tick
    <2>1. window' \in 1..MaxWindow
      BY <1>5, CallLimits DEF Tick, ReplyInv, ReplyTypes
    <2> QED BY <1>5, <2>1, OthersKeep DEF Tick
  <1>6. CASE UNCHANGED replyVars
    BY <1>6, OthersKeep DEF replyVars, ReplyInv, ReplyTypes
  <1> QED BY <1>1, <1>2, <1>3, <1>4, <1>5, <1>6 DEF ReplyNext

LEMMA ReplyInvHolds == ReplySpec => []ReplyInv
  BY ReplyInvInit, ReplyInvStep, PTL DEF ReplySpec

\* What a reply says was vetted by a model, its reader may see what it cites, and what could
\* not be answered is on record, whatever the budget denies, fails, expires or is edited
\* meanwhile (the pipeline of workflows/reply and rag).
THEOREM RepliesAreSound == ReplySpec => []ReplyIsSound
  <1>1. ASSUME ReplyInv PROVE ReplyIsSound
    <2>1. ASSUME NEW c \in Clerk, On(c, "respond")
          PROVE  Honest(passes[c], gaps) /\ passes[c].pc = "respond"
      BY <1>1, <2>1, Busy DEF On, Good, Pcs, Ended
    <2>2. AutoIsVetted
      BY <2>1 DEF AutoIsVetted, Honest, Vetted, Core, Ended
    <2>3. CitedIsVisible
      BY <2>1 DEF CitedIsVisible, Honest, Visible
    <2>4. UnansweredIsNoted
      BY <2>1 DEF UnansweredIsNoted, Honest, Noted, Ended
    <2> QED BY <2>2, <2>3, <2>4 DEF ReplyIsSound
  <1> QED BY <1>1, ReplyInvHolds, PTL

\* No pass is admitted more calls than a request may make, and in a window whose counter no
\* two requests held at once the company is admitted no more than it may (the
\* limiter of ai/budget, whose counter is read and written in two calls of the cache).
THEOREM BudgetsAreKept == ReplySpec => []BudgetIsKept
  <1>1. ASSUME ReplyInv PROVE BudgetIsKept
    <2>1. ASSUME MaxPerRequest # 0, NEW c \in Clerk, passes[c] # NoPass
          PROVE  passes[c].spent <= MaxPerRequest
      BY <1>1, <2>1 DEF ReplyInv, PassesAreGood, Good, Honest, Within
    <2>2. ASSUME MaxPerWindow # 0, NEW w \in 1..MaxWindow, w \notin raced
          PROVE  granted[w] <= MaxPerWindow
      BY <1>1, <2>2 DEF ReplyInv, CounterIsTrue
    <2> QED BY <2>1, <2>2 DEF BudgetIsKept
  <1> QED BY <1>1, ReplyInvHolds, PTL

-----------------------------------------------------------------------------
(***************************************************************************)
(* The inductive invariant of the graph and the search.                    *)
(***************************************************************************)
Symptom == [name : Name, canon : Nat, count : Nat]

Distinct(f) == \A i, j \in DOMAIN f : f[i] = f[j] => i = j

\* What a search has found so far, and what it answers.
Listed(t, made) ==
    /\ t.rows \in Seq(Case) /\ Distinct(t.rows)
    /\ t.found \in Seq(DOMAIN made) /\ Distinct(t.found)
    /\ \A i \in DOMAIN t.found : made[t.found[i]] \notin ToSet(t.rows)

Shown(t, made) ==
    /\ \A r, q \in t.results : r.place = q.place \/ (r.type = q.type /\ r.id = q.id) => r = q
    /\ \A r \in t.results : r.place \in 1..Limit
    /\ \A r \in t.results : r.type = "kb" => r.id \in DOMAIN made /\ made[r.id] \notin ToSet(t.rows)
    /\ Limit >= 2 /\ (\E r \in t.results : r.type = "kb") =>
          \E r \in t.results : r.type = "kb" /\ r.place <= 2

\* What an agent works on is there, and a merge looks at each symptom once.
Fit(t, known, made) ==
    /\ t.pc \in {"upsert", "add"} => t.case \in Case /\ t.name \in Name
    /\ t.pc \in {"count", "write"} => t.case \in Case /\ t.symptom \in known
    /\ t.pc = "insert" => t.case \in Case
    /\ t.pc \in {"merge", "repoint"} =>
          /\ t.kept \in Seq(known)
          /\ \A r \in t.rows : r.id \in known
          /\ \A r, q \in t.rows : r.id = q.id => r = q
    /\ t.pc = "repoint" => t.row \in known /\ t.canon \in known
    /\ t.pc = "rows" => t.hits \subseteq Case
    /\ t.pc = "anchors" => Listed(t, made)
    /\ t.pc = "answered" => Shown(t, made)

GraphTypes ==
    /\ symptoms \in Seq(Symptom)
    /\ \A s \in DOMAIN symptoms : symptoms[s].canon \in {0} \union DOMAIN symptoms
    /\ class \in [Case -> {0} \union DOMAIN symptoms]
    /\ articles \in Seq(Case \union {0})
    /\ graph = [nodes |-> graph.nodes, edges |-> graph.edges]
    /\ \A e \in graph.edges : {e.from, e.to} \subseteq graph.nodes
    /\ DOMAIN agent = Agent
    /\ traces \in [torn : BOOLEAN, exact : SUBSET Agent, fresh : BOOLEAN]

AgentsFit == \A a \in Agent : Fit(agent[a], DOMAIN symptoms, articles)

\* What a merge has kept, and what it has still to look at, has no canonical symptom.
Orderly(t, syms) ==
    /\ \A i \in DOMAIN t.kept : syms[t.kept[i]].canon = 0
    /\ \A r \in t.rows : syms[r.id].canon = 0 /\ \A i \in DOMAIN t.kept : t.kept[i] # r.id
    /\ t.pc = "repoint" => syms[t.row].canon = t.canon /\ \E i \in DOMAIN t.kept : t.kept[i] = t.canon

\* While merges run one at a time, only what the running one has to repoint takes two steps.
MergesAreOrderly ==
    ~traces.torn =>
        /\ \A a, b \in Agent : Merging(a) /\ Merging(b) => a = b
        /\ \A a \in Agent : Merging(a) => Orderly(agent[a], symptoms)
        /\ \A s \in DOMAIN symptoms : symptoms[s].canon # 0 =>
              \/ symptoms[symptoms[s].canon].canon = 0
              \/ \E a \in Agent : agent[a].pc = "repoint" /\ agent[a].row = symptoms[s].canon

\* An article whose report has a symptom, the calls a sync makes for it, and what they leave.
Solvable(k) == k \in DOMAIN articles /\ articles[k] # 0 /\ SymptomOf(articles[k]) # 0
CallFor(call, k) ==
    [call |-> call, article |-> k, case |-> articles[k], symptom |-> SymptomOf(articles[k])]
Edge(k) == [type |-> "SOLVES", from |-> Node("article", k), to |-> Node("symptom", SymptomOf(articles[k]))]

\* While what it read stands, what a sync has no longer to do is in the graph.
SyncsAreExact ==
    \A a \in traces.exact :
        /\ agent[a].pc = "sync"
        /\ \A k \in DOMAIN articles : Solvable(k) =>
              /\ CallFor("article", k) \in agent[a].todo \/ Node("article", k) \in graph.nodes
              /\ \/ CallFor("symptom", k) \in agent[a].todo
                 \/ Node("symptom", SymptomOf(articles[k])) \in graph.nodes
              /\ CallFor("solves", k) \in agent[a].todo \/ Edge(k) \in graph.edges

GraphIsFresh == traces.fresh => \A k \in DOMAIN articles : Solvable(k) => Edge(k) \in graph.edges

GraphInv == GraphTypes /\ AgentsFit /\ MergesAreOrderly /\ SyncsAreExact /\ GraphIsFresh

-----------------------------------------------------------------------------
(***************************************************************************)
(* What the operators give.                                                *)
(***************************************************************************)
LEMMA LeastOf ==
  ASSUME NEW S \in SUBSET Nat, S # {}
  PROVE  Min(S) \in S
  <1>1. PICK x \in S : \A y \in S : ~ (<<y, x>> \in OpToRel(<, Nat))
    BY NatLessThanWellFounded, WFMin
  <1>2. ASSUME NEW y \in S PROVE x <= y
    <2>1. <<y, x>> \notin {ss \in Nat \X Nat : ss[1] < ss[2]}
      BY <1>1 DEF OpToRel
    <2> QED BY <2>1
  <1> QED BY <1>2 DEF Min

LEMMA ClosestIsKept ==
  ASSUME NEW s, NEW known, NEW kept \in Seq(known), Closest(s, kept) # 0
  PROVE  Closest(s, kept) \in known /\ \E i \in DOMAIN kept : kept[i] = Closest(s, kept)
  <1> DEFINE near == {i \in DOMAIN kept : Alike(s, kept[i]) > 0}
             best == {i \in near : \A j \in near : Alike(s, kept[j]) <= Alike(s, kept[i])}
  <1>1. DOMAIN kept \subseteq Nat /\ \A i \in DOMAIN kept : kept[i] \in known
    BY ElementOfSeq, LenProperties
  <1>2. best # {} /\ Closest(s, kept) = kept[Min(best)]
    BY DEF Closest
  <1>3. best \in SUBSET DOMAIN kept
    OBVIOUS
  <1> HIDE DEF best
  <1>4. Min(best) \in DOMAIN kept
    BY <1>1, <1>2, <1>3, LeastOf
  <1> QED BY <1>1, <1>2, <1>4

\* What an agent works on stays when rows are added.
LEMMA FitStays ==
  ASSUME NEW t, NEW known, NEW made, NEW known2, NEW made2,
         Fit(t, known, made), known \subseteq known2,
         DOMAIN made \subseteq DOMAIN made2, \A k \in DOMAIN made : made2[k] = made[k]
  PROVE  Fit(t, known2, made2)
  <1>1. t.kept \in Seq(known) => t.kept \in Seq(known2)
    BY SeqDef
  <1>2. Listed(t, made) => Listed(t, made2)
    <2>1. ASSUME Listed(t, made) PROVE t.found \in Seq(DOMAIN made2)
      <3>1. PICK f : f = t.found
        OBVIOUS
      <3>2. f \in Seq(DOMAIN made)
        BY <2>1, <3>1 DEF Listed
      <3>3. f \in Seq(DOMAIN made2)
        BY <3>2, SeqDef
      <3> QED BY <3>1, <3>3
    <2>2. ASSUME Listed(t, made), NEW i \in DOMAIN t.found PROVE made2[t.found[i]] \notin ToSet(t.rows)
      <3>1. t.found[i] \in DOMAIN made
        BY <2>2, ElementOfSeq DEF Listed
      <3> QED BY <2>2, <3>1 DEF Listed
    <2> QED BY <2>1, <2>2 DEF Listed
  <1>3. Shown(t, made) => Shown(t, made2)
    BY DEF Shown
  <1> QED BY <1>1, <1>2, <1>3 DEF Fit

LEMMA AgentsFitStep ==
  ASSUME DOMAIN agent = Agent, AgentsFit, NEW a \in Agent, NEW t, Turns(a, t),
         DOMAIN symptoms \subseteq DOMAIN symptoms',
         DOMAIN articles \subseteq DOMAIN articles', \A k \in DOMAIN articles : articles'[k] = articles[k],
         Fit(t, DOMAIN symptoms', articles')
  PROVE  AgentsFit'
  <1> SUFFICES ASSUME NEW b \in Agent PROVE Fit(agent'[b], DOMAIN symptoms', articles')
    BY DEF AgentsFit
  <1>1. CASE b = a
    BY <1>1 DEF Turns
  <1>2. CASE b # a
    <2>1. PICK u, known, made, known2, made2 :
             u = agent[b] /\ known = DOMAIN symptoms /\ made = articles /\ known2 = DOMAIN symptoms' /\ made2 = articles'
      OBVIOUS
    <2>2. Fit(u, known, made)
      BY <2>1 DEF AgentsFit
    <2>3. Fit(u, known2, made2)
      BY <2>1, <2>2, FitStays
    <2>4. agent'[b] = u
      BY <1>2, <2>1 DEF Turns
    <2> QED BY <2>1, <2>3, <2>4
  <1> QED BY <1>1, <1>2

\* What is not a merge keeps the order: the symptoms it adds have no canonical one.
LEMMA MergesStay ==
  ASSUME DOMAIN agent = Agent, GraphTypes, AgentsFit, MergesAreOrderly, NEW a \in Agent, NEW t, Turns(a, t),
         ~Merging(a), t.pc \notin {"merge", "repoint"},
         DOMAIN symptoms \subseteq DOMAIN symptoms', traces'.torn = traces.torn,
         \A s \in DOMAIN symptoms : symptoms'[s].canon = symptoms[s].canon,
         \A s \in DOMAIN symptoms' \ DOMAIN symptoms : symptoms'[s].canon = 0
  PROVE  MergesAreOrderly'
  <1> SUFFICES ASSUME ~traces.torn
               PROVE  /\ \A b, c \in Agent : Merging(b)' /\ Merging(c)' => b = c
                      /\ \A b \in Agent : Merging(b)' => Orderly(agent'[b], symptoms')
                      /\ \A s \in DOMAIN symptoms' : symptoms'[s].canon # 0 =>
                            \/ symptoms'[symptoms'[s].canon].canon = 0
                            \/ \E b \in Agent : agent'[b].pc = "repoint" /\ agent'[b].row = symptoms'[s].canon
    BY DEF MergesAreOrderly
  <1>1. \A b \in Agent : b # a => agent'[b] = agent[b]
    BY DEF Turns
  <1>2. agent'[a] = t
    BY DEF Turns
  <1>3. \A b \in Agent : Merging(b)' => b # a /\ Merging(b)
    BY <1>1, <1>2 DEF Merging
  <1>4. ASSUME NEW b \in Agent, Merging(b)' PROVE Orderly(agent'[b], symptoms')
    <2>1. PICK u, known, made : u = agent[b] /\ agent'[b] = u /\ known = DOMAIN symptoms /\ made = articles
      BY <1>1, <1>3, <1>4
    <2>2. u.pc \in {"merge", "repoint"} /\ Fit(u, known, made) /\ Orderly(u, symptoms)
      BY <1>3, <1>4, <2>1 DEF Merging, MergesAreOrderly, AgentsFit
    <2>3. u.kept \in Seq(known) /\ \A r \in u.rows : r.id \in known
      BY <2>2 DEF Fit
    <2>4. \A i \in DOMAIN u.kept : u.kept[i] \in known
      BY <2>3, ElementOfSeq
    <2>5. u.pc = "repoint" => u.row \in known
      BY <2>2 DEF Fit
    <2>6. Orderly(u, symptoms')
      BY <2>1, <2>2, <2>3, <2>4, <2>5 DEF Orderly
    <2> QED BY <2>1, <2>6
  <1>5. ASSUME NEW s \in DOMAIN symptoms', symptoms'[s].canon # 0
        PROVE  \/ symptoms'[symptoms'[s].canon].canon = 0
               \/ \E b \in Agent : agent'[b].pc = "repoint" /\ agent'[b].row = symptoms'[s].canon
    <2>1. s \in DOMAIN symptoms /\ symptoms'[s].canon = symptoms[s].canon
      BY <1>5
    <2>2. symptoms[s].canon \in DOMAIN symptoms
      BY <1>5, <2>1 DEF GraphTypes
    <2>3. CASE symptoms[symptoms[s].canon].canon = 0
      BY <2>1, <2>2, <2>3
    <2>4. CASE \E b \in Agent : agent[b].pc = "repoint" /\ agent[b].row = symptoms[s].canon
      <3>1. PICK b \in Agent : agent[b].pc = "repoint" /\ agent[b].row = symptoms[s].canon
        BY <2>4
      <3>2. b # a
        BY <3>1 DEF Merging
      <3> QED BY <1>1, <2>1, <3>1, <3>2
    <2> QED BY <1>5, <2>1, <2>3, <2>4 DEF MergesAreOrderly
  <1>6. \A b, c \in Agent : Merging(b)' /\ Merging(c)' => b = c
    BY <1>3 DEF MergesAreOrderly
  <1> QED BY <1>4, <1>5, <1>6

\* The calls of a sync, and what it left, stand while articles and their symptoms do.
LEMMA SyncsStay ==
  ASSUME DOMAIN agent = Agent, GraphTypes, SyncsAreExact, GraphIsFresh, NEW a \in Agent, NEW t, Turns(a, t),
         UNCHANGED <<articles, graph>>, \A c \in Case : SymptomOf(c)' = SymptomOf(c),
         traces'.exact \subseteq traces.exact \ {a}, traces'.fresh => traces.fresh
  PROVE  SyncsAreExact' /\ GraphIsFresh'
  <1>1. ASSUME NEW k \in DOMAIN articles, Solvable(k)'
        PROVE  /\ Solvable(k) /\ SymptomOf(articles[k])' = SymptomOf(articles[k])
               /\ Edge(k)' = Edge(k) /\ \A call : CallFor(call, k)' = CallFor(call, k)
    <2>1. articles' = articles /\ articles[k] # 0
      BY <1>1 DEF Solvable
    <2>2. articles[k] \in Case
      BY <2>1, ElementOfSeq DEF GraphTypes
    <2>3. PICK c \in Case : c = articles[k]
      BY <2>2
    <2>4. SymptomOf(c)' = SymptomOf(c)
      OBVIOUS
    <2>5. articles[k]' = c /\ SymptomOf(articles[k])' = SymptomOf(c)'
      BY <2>1, <2>3 DEF SymptomOf, Canonical
    <2> QED BY <1>1, <2>1, <2>3, <2>4, <2>5 DEF Solvable, Edge, CallFor
  <1>2. ASSUME NEW b \in traces'.exact
        PROVE  b \in traces.exact /\ agent'[b] = agent[b]
    BY <1>2 DEF Turns, GraphTypes
  <1>3. ASSUME NEW b \in traces'.exact, NEW k \in DOMAIN articles, Solvable(k)'
        PROVE  /\ CallFor("article", k)' \in agent'[b].todo \/ Node("article", k) \in graph'.nodes
               /\ \/ CallFor("symptom", k)' \in agent'[b].todo
                  \/ Node("symptom", SymptomOf(articles[k])') \in graph'.nodes
               /\ CallFor("solves", k)' \in agent'[b].todo \/ Edge(k)' \in graph'.edges
    BY <1>1, <1>2, <1>3 DEF SyncsAreExact
  <1>4. SyncsAreExact'
    BY <1>2, <1>3 DEF SyncsAreExact, Node
  <1>5. GraphIsFresh'
    BY <1>1 DEF GraphIsFresh
  <1> QED BY <1>4, <1>5

LEMMA SyncsOutdated ==
  ASSUME GraphTypes, Outdate
  PROVE  /\ SyncsAreExact' /\ GraphIsFresh' /\ traces'.torn = traces.torn
         /\ traces' \in [torn : BOOLEAN, exact : SUBSET Agent, fresh : BOOLEAN]
  BY DEF GraphTypes, Outdate, SyncsAreExact, GraphIsFresh

\* A step of an agent that neither merges nor syncs, and leaves the tables.
LEMMA PlainStep ==
  ASSUME GraphInv, NEW a \in Agent, NEW t, Turns(a, t), agent[a].pc \notin {"merge", "repoint", "sync"},
         t.pc \notin {"merge", "repoint"}, Fit(t, DOMAIN symptoms, articles),
         UNCHANGED <<symptoms, class, articles, graph, traces>>
  PROVE  GraphInv'
  <1>1. DOMAIN agent' = Agent /\ GraphTypes'
    BY DEF GraphInv, GraphTypes, Turns
  <1>2. AgentsFit'
    BY AgentsFitStep DEF GraphInv, GraphTypes
  <1>3. MergesAreOrderly'
    BY MergesStay DEF GraphInv, GraphTypes, Merging
  <1>4. a \notin traces.exact
    BY DEF GraphInv, SyncsAreExact
  <1>5. \A c \in Case : SymptomOf(c)' = SymptomOf(c)
    BY DEF SymptomOf, Canonical
  <1>6. SyncsAreExact' /\ GraphIsFresh'
    BY <1>4, <1>5, SyncsStay DEF GraphInv, GraphTypes
  <1> QED BY <1>1, <1>2, <1>3, <1>6 DEF GraphInv

-----------------------------------------------------------------------------
(***************************************************************************)
(* Classification.                                                         *)
(***************************************************************************)
LEMMA GraphInvInit == GraphInit => GraphInv
  <1> SUFFICES ASSUME GraphInit PROVE GraphInv
    OBVIOUS
  <1>1. PICK m \in Missions :
          /\ symptoms = [i \in DOMAIN m.names |-> [name |-> m.names[i], canon |-> 0, count |-> m.counts[i]]]
          /\ class = m.class /\ articles = m.articles
          /\ graph = [nodes |-> {}, edges |-> {}] /\ agent = [a \in Agent |-> Resting]
          /\ traces = [torn |-> FALSE, exact |-> {}, fresh |-> FALSE]
    BY DEF GraphInit
  <1>2. /\ m.names \in Seq(Name) /\ m.counts \in [DOMAIN m.names -> Nat]
        /\ m.class \in [Case -> DOMAIN m.names \union {0}] /\ m.articles \in Seq(Case \union {0})
    BY KnowledgeGraphAssumption
  <1>3. DOMAIN m.names = 1..Len(m.names) /\ Len(m.names) \in Nat
    BY <1>2, LenProperties
  <1>4. ASSUME NEW i \in DOMAIN symptoms PROVE symptoms[i] \in Symptom /\ symptoms[i].canon = 0
    <2>1. m.names[i] \in Name
      BY <1>1, <1>2, ElementOfSeq
    <2>2. m.counts[i] \in Nat
      BY <1>1, <1>2
    <2> QED BY <1>1, <2>1, <2>2 DEF Symptom
  <1>5. symptoms \in [1..Len(m.names) -> Symptom]
    BY <1>1, <1>3, <1>4
  <1>6. symptoms \in Seq(Symptom)
    BY <1>3, <1>5, SeqDef
  <1>7. GraphTypes
    BY <1>1, <1>2, <1>4, <1>6 DEF GraphTypes
  <1>8. AgentsFit
    BY <1>1 DEF AgentsFit, Fit, Resting
  <1>9. MergesAreOrderly
    BY <1>1, <1>4 DEF MergesAreOrderly, Merging, Resting
  <1> QED BY <1>1, <1>7, <1>8, <1>9 DEF GraphInv, SyncsAreExact, GraphIsFresh

LEMMA StartClassifyKeeps ==
  ASSUME GraphInv, NEW a \in Agent, NEW c \in Case, NEW n \in Name, StartClassify(a, c, n)
  PROVE  GraphInv'
  <1>1. PICK t : t = [pc |-> "upsert", case |-> c, name |-> n] /\ Turns(a, t)
    BY DEF StartClassify
  <1>2. Fit(t, DOMAIN symptoms, articles) /\ t.pc = "upsert"
    BY <1>1 DEF Fit
  <1>3. agent[a].pc = "resting"
    BY DEF StartClassify, Resting
  <1> QED BY <1>1, <1>2, <1>3, PlainStep DEF StartClassify

LEMMA CanonicalIsThere ==
  ASSUME GraphTypes, NEW s \in DOMAIN symptoms
  PROVE  Canonical(s) \in DOMAIN symptoms
  BY DEF GraphTypes, Canonical

LEMMA SymptomsAre ==
  ASSUME GraphTypes
  PROVE  /\ Len(symptoms) \in Nat /\ DOMAIN symptoms = 1..Len(symptoms)
         /\ \A s \in DOMAIN symptoms :
               /\ symptoms[s] \in Symptom
               /\ symptoms[s].name \in Name /\ symptoms[s].count \in Nat
  <1>1. symptoms \in Seq(Symptom)
    BY DEF GraphTypes
  <1>2. \A s \in DOMAIN symptoms : symptoms[s] \in Symptom
    BY <1>1, ElementOfSeq
  <1> QED BY <1>1, <1>2, LenProperties DEF Symptom

LEMMA UpsertSymptomKeeps ==
  ASSUME GraphInv, NEW a \in Agent, UpsertSymptom(a)
  PROVE  GraphInv'
  <1>1. Fit(agent[a], DOMAIN symptoms, articles) /\ agent[a].pc = "upsert"
    BY DEF GraphInv, AgentsFit, UpsertSymptom
  <1>2. PICK same : same = {s \in DOMAIN symptoms : symptoms[s].name = agent[a].name}
    OBVIOUS
  <1>3. PICK t : /\ Turns(a, t)
                 /\ t = IF same = {} THEN [pc |-> "add", case |-> agent[a].case, name |-> agent[a].name]
                        ELSE [pc |-> "count", case |-> agent[a].case, symptom |-> Canonical(Min(same))]
    BY <1>2 DEF UpsertSymptom
  <1>4. agent[a].case \in Case /\ agent[a].name \in Name
    BY <1>1 DEF Fit
  <1>5. CASE same = {}
    <2>1. t = [pc |-> "add", case |-> agent[a].case, name |-> agent[a].name]
      BY <1>3, <1>5
    <2>2. Fit(t, DOMAIN symptoms, articles) /\ t.pc = "add"
      BY <1>4, <2>1 DEF Fit
    <2> QED BY <1>1, <1>3, <2>2, PlainStep DEF UpsertSymptom
  <1>6. CASE same # {}
    <2>1. same \in SUBSET Nat
      BY <1>2, SymptomsAre DEF GraphInv
    <2>2. Min(same) \in DOMAIN symptoms
      BY <1>2, <1>6, <2>1, LeastOf
    <2>3. PICK s : s = Canonical(Min(same)) /\ s \in DOMAIN symptoms
      BY <2>2, CanonicalIsThere DEF GraphInv
    <2>4. t = [pc |-> "count", case |-> agent[a].case, symptom |-> s]
      BY <1>3, <1>6, <2>3
    <2>5. Fit(t, DOMAIN symptoms, articles) /\ t.pc = "count"
      BY <1>4, <2>3, <2>4 DEF Fit
    <2> QED BY <1>1, <1>3, <2>5, PlainStep DEF UpsertSymptom
  <1> QED BY <1>5, <1>6

LEMMA InsertSymptomKeeps ==
  ASSUME GraphInv, NEW a \in Agent, InsertSymptom(a)
  PROVE  GraphInv'
  <1>1. Fit(agent[a], DOMAIN symptoms, articles) /\ agent[a].pc = "add"
    BY DEF GraphInv, AgentsFit, InsertSymptom
  <1>2. agent[a].case \in Case /\ agent[a].name \in Name
    BY <1>1 DEF Fit
  <1>3. PICK new, last, c : new = [name |-> agent[a].name, canon |-> 0, count |-> 1]
                            /\ last = Len(symptoms) + 1 /\ c = agent[a].case
    OBVIOUS
  <1>4. new \in Symptom /\ new.canon = 0
    BY <1>2, <1>3 DEF Symptom
  <1>5. /\ symptoms' = Append(symptoms, new) /\ symptoms \in Seq(Symptom)
        /\ Len(symptoms) \in Nat /\ DOMAIN symptoms = 1..Len(symptoms)
    BY <1>3, SymptomsAre DEF InsertSymptom, GraphInv, GraphTypes
  <1>6. /\ symptoms' \in Seq(Symptom) /\ DOMAIN symptoms' = DOMAIN symptoms \union {last}
        /\ last \notin DOMAIN symptoms /\ symptoms'[last] = new
        /\ \A s \in DOMAIN symptoms : symptoms'[s] = symptoms[s]
    BY <1>3, <1>4, <1>5
  <1>7. PICK t : t = [pc |-> "write", case |-> c, symptom |-> last] /\ Turns(a, t)
    BY <1>3 DEF InsertSymptom
  <1>8. Fit(t, DOMAIN symptoms', articles') /\ t.pc = "write"
    BY <1>2, <1>3, <1>6, <1>7 DEF Fit
  <1>9. UNCHANGED <<class, articles, graph, traces>> /\ DOMAIN agent = Agent /\ DOMAIN agent' = Agent
    BY <1>7 DEF InsertSymptom, GraphInv, GraphTypes, Turns
  <1>10. GraphTypes'
    <2>1. \A s \in DOMAIN symptoms' : symptoms'[s].canon \in {0} \union DOMAIN symptoms'
      BY <1>4, <1>6 DEF GraphInv, GraphTypes
    <2>2. class' \in [Case -> {0} \union DOMAIN symptoms']
      BY <1>6, <1>9 DEF GraphInv, GraphTypes
    <2> QED BY <1>6, <1>9, <2>1, <2>2 DEF GraphInv, GraphTypes
  <1>11. AgentsFit'
    BY <1>6, <1>7, <1>8, <1>9, AgentsFitStep DEF GraphInv
  <1>12. MergesAreOrderly'
    <2>1. ~Merging(a)
      BY <1>1 DEF Merging
    <2> QED BY <1>4, <1>6, <1>7, <1>8, <1>9, <2>1, MergesStay DEF GraphInv
  <1>13. ASSUME NEW d \in Case PROVE SymptomOf(d)' = SymptomOf(d)
    <2>1. class'[d] = class[d] /\ class[d] \in {0} \union DOMAIN symptoms
      BY <1>9 DEF GraphInv, GraphTypes
    <2>2. class[d] # 0 => symptoms'[class[d]] = symptoms[class[d]]
      BY <1>6, <2>1
    <2> QED BY <2>1, <2>2 DEF SymptomOf, Canonical
  <1>14. SyncsAreExact' /\ GraphIsFresh'
    <2>1. a \notin traces.exact
      BY <1>1 DEF GraphInv, SyncsAreExact
    <2> QED BY <1>7, <1>9, <1>13, <2>1, SyncsStay DEF GraphInv
  <1> QED BY <1>10, <1>11, <1>12, <1>14 DEF GraphInv

LEMMA CountOccurrenceKeeps ==
  ASSUME GraphInv, NEW a \in Agent, CountOccurrence(a)
  PROVE  GraphInv'
  <1>1. Fit(agent[a], DOMAIN symptoms, articles) /\ agent[a].pc = "count"
    BY DEF GraphInv, AgentsFit, CountOccurrence
  <1>2. PICK c, s : c = agent[a].case /\ s = agent[a].symptom /\ c \in Case /\ s \in DOMAIN symptoms
    BY <1>1 DEF Fit
  <1>3. PICK t : t = [pc |-> "write", case |-> c, symptom |-> s] /\ Turns(a, t)
    BY <1>2 DEF CountOccurrence
  <1>4. Fit(t, DOMAIN symptoms, articles) /\ t.pc = "write"
    BY <1>2, <1>3 DEF Fit
  <1>5. UNCHANGED <<class, articles, graph, traces>> /\ DOMAIN agent = Agent /\ DOMAIN agent' = Agent
    BY <1>3 DEF CountOccurrence, GraphInv, GraphTypes, Turns
  <1>6. CASE symptoms' = symptoms
    BY <1>1, <1>3, <1>4, <1>5, <1>6, PlainStep
  <1>7. CASE symptoms' = [symptoms EXCEPT ![s].count = @ + 1]
    <2>1. PICK old, new : old = symptoms[s] /\ new = [old EXCEPT !.count = @ + 1]
      OBVIOUS
    <2>2. old \in Symptom
      BY <1>2, <2>1, SymptomsAre DEF GraphInv
    <2>3. new \in Symptom /\ new.canon = old.canon
      BY <2>1, <2>2 DEF Symptom
    <2>4. /\ symptoms' = [symptoms EXCEPT ![s] = new] /\ symptoms \in Seq(Symptom)
          /\ symptoms' \in Seq(Symptom) /\ DOMAIN symptoms' = DOMAIN symptoms
      BY <1>2, <1>7, <2>1, <2>3, ExceptSeq DEF GraphInv, GraphTypes
    <2>5. \A r \in DOMAIN symptoms : symptoms'[r].canon = symptoms[r].canon
      BY <2>1, <2>3, <2>4
    <2>6. GraphTypes'
      BY <1>5, <2>4, <2>5 DEF GraphInv, GraphTypes
    <2>7. AgentsFit'
      BY <1>3, <1>4, <1>5, <2>4, AgentsFitStep DEF GraphInv
    <2>8. MergesAreOrderly'
      <3>1. ~Merging(a)
        BY <1>1 DEF Merging
      <3> QED BY <1>3, <1>4, <1>5, <2>4, <2>5, <3>1, MergesStay DEF GraphInv
    <2>9. ASSUME NEW d \in Case PROVE SymptomOf(d)' = SymptomOf(d)
      <3>1. class'[d] = class[d] /\ class[d] \in {0} \union DOMAIN symptoms
        BY <1>5 DEF GraphInv, GraphTypes
      <3> QED BY <2>5, <3>1 DEF SymptomOf, Canonical
    <2>10. SyncsAreExact' /\ GraphIsFresh'
      <3>1. a \notin traces.exact
        BY <1>1 DEF GraphInv, SyncsAreExact
      <3> QED BY <1>3, <1>5, <2>9, <3>1, SyncsStay DEF GraphInv
    <2> QED BY <2>6, <2>7, <2>8, <2>10 DEF GraphInv
  <1> QED BY <1>2, <1>6, <1>7 DEF CountOccurrence

LEMMA WriteSymptomKeeps ==
  ASSUME GraphInv, NEW a \in Agent, WriteSymptom(a)
  PROVE  GraphInv'
  <1>1. Fit(agent[a], DOMAIN symptoms, articles) /\ agent[a].pc = "write"
    BY DEF GraphInv, AgentsFit, WriteSymptom
  <1>2. PICK t : t = Resting /\ Turns(a, t)
    BY DEF WriteSymptom
  <1>3. Fit(t, DOMAIN symptoms, articles) /\ t.pc = "resting"
    BY <1>2 DEF Fit, Resting
  <1>4. UNCHANGED <<symptoms, articles, graph>> /\ DOMAIN agent = Agent /\ DOMAIN agent' = Agent
    BY <1>2 DEF WriteSymptom, GraphInv, GraphTypes, Turns
  <1>5. /\ SyncsAreExact' /\ GraphIsFresh' /\ traces'.torn = traces.torn
        /\ traces' \in [torn : BOOLEAN, exact : SUBSET Agent, fresh : BOOLEAN]
    BY SyncsOutdated DEF WriteSymptom, GraphInv
  <1>6. GraphTypes'
    <2>1. class' \in [Case -> {0} \union DOMAIN symptoms]
      BY <1>1 DEF WriteSymptom, GraphInv, GraphTypes, Fit
    <2> QED BY <1>4, <1>5, <2>1 DEF GraphInv, GraphTypes
  <1>7. AgentsFit'
    BY <1>2, <1>3, <1>4, AgentsFitStep DEF GraphInv
  <1>8. MergesAreOrderly'
    <2>1. ~Merging(a)
      BY <1>1 DEF Merging
    <2> QED BY <1>2, <1>3, <1>4, <1>5, <2>1, MergesStay DEF GraphInv
  <1> QED BY <1>5, <1>6, <1>7, <1>8 DEF GraphInv

-----------------------------------------------------------------------------
(***************************************************************************)
(* Symptom merge.                                                          *)
(***************************************************************************)
\* The other agents of a merge that runs alone do not merge.
LEMMA MergesAlone ==
  ASSUME GraphInv, NEW a \in Agent, Merging(a), ~traces.torn
  PROVE  /\ \A b \in Agent : Merging(b) => b = a
         /\ Orderly(agent[a], symptoms)
  BY DEF GraphInv, MergesAreOrderly

LEMMA StartMergeKeeps ==
  ASSUME GraphInv, NEW a \in Agent, StartMerge(a)
  PROVE  GraphInv'
  <1>1. agent[a].pc = "resting" /\ ~Merging(a) /\ a \notin traces.exact
    BY DEF StartMerge, Resting, Merging, GraphInv, SyncsAreExact
  <1>2. PICK t : t = [pc |-> "merge", rows |-> UnmergedSymptoms, kept |-> <<>>] /\ Turns(a, t)
    BY DEF StartMerge
  <1>3. t.kept = <<>> /\ DOMAIN t.kept = {} /\ t.kept \in Seq(DOMAIN symptoms)
    BY <1>2, EmptySeq
  <1>4. \A r \in t.rows : r.id \in DOMAIN symptoms /\ symptoms[r.id].canon = 0
    BY <1>2 DEF UnmergedSymptoms
  <1>5. \A r, q \in t.rows : r.id = q.id => r = q
    BY <1>2 DEF UnmergedSymptoms
  <1>6. Fit(t, DOMAIN symptoms, articles) /\ t.pc = "merge"
    BY <1>2, <1>3, <1>4, <1>5 DEF Fit
  <1>7. /\ UNCHANGED <<symptoms, class, articles, graph>> /\ DOMAIN agent = Agent /\ DOMAIN agent' = Agent
        /\ agent'[a] = t /\ \A b \in Agent : b # a => agent'[b] = agent[b]
    BY <1>2 DEF StartMerge, GraphInv, GraphTypes, Turns
  <1>8. PICK others : /\ others = (\E b \in Agent : Merging(b)) /\ others \in BOOLEAN
                      /\ traces' = [traces EXCEPT !.torn = @ \/ others]
    BY DEF StartMerge
  <1>9. /\ traces'.torn = (traces.torn \/ others) /\ traces'.exact = traces.exact /\ traces'.fresh = traces.fresh
        /\ traces' \in [torn : BOOLEAN, exact : SUBSET Agent, fresh : BOOLEAN]
    BY <1>8 DEF GraphInv, GraphTypes
  <1>10. GraphTypes'
    BY <1>7, <1>9 DEF GraphInv, GraphTypes
  <1>11. AgentsFit'
    BY <1>2, <1>6, <1>7, AgentsFitStep DEF GraphInv
  <1>12. MergesAreOrderly'
    <2> SUFFICES ASSUME ~traces'.torn PROVE MergesAreOrderly'
      BY DEF MergesAreOrderly
    <2>1. ~traces.torn /\ \A b \in Agent : ~Merging(b)
      BY <1>8, <1>9
    <2>2. \A b \in Agent : Merging(b)' => b = a
      BY <1>7, <2>1 DEF Merging
    <2>3. Orderly(t, symptoms)
      BY <1>3, <1>4, <1>6 DEF Orderly
    <2>4. Orderly(agent'[a], symptoms')
      BY <1>7, <2>3
    <2>5. \A s \in DOMAIN symptoms : symptoms[s].canon # 0 => symptoms[symptoms[s].canon].canon = 0
      BY <2>1 DEF GraphInv, MergesAreOrderly, Merging
    <2> QED BY <1>7, <2>2, <2>4, <2>5 DEF MergesAreOrderly
  <1>13. SyncsAreExact' /\ GraphIsFresh'
    <2>1. \A c \in Case : SymptomOf(c)' = SymptomOf(c)
      BY <1>7 DEF SymptomOf, Canonical
    <2> QED BY <1>1, <1>2, <1>7, <1>9, <2>1, SyncsStay DEF GraphInv
  <1> QED BY <1>10, <1>11, <1>12, <1>13 DEF GraphInv

\* The row that is kept had no canonical symptom, and none of those left is the row.
LEMMA MergeRowKeeps ==
  ASSUME GraphInv, NEW a \in Agent, MergeRow(a)
  PROVE  GraphInv'
  <1>1. Fit(agent[a], DOMAIN symptoms, articles) /\ agent[a].pc = "merge" /\ Merging(a) /\ a \notin traces.exact
    BY DEF GraphInv, AgentsFit, MergeRow, Merging, SyncsAreExact
  <1>2. PICK row, others, canon :
          /\ row \in agent[a].rows /\ others = agent[a].rows \ {row} /\ canon = Closest(row.id, agent[a].kept)
          /\ IF canon = 0
             THEN /\ Turns(a, [pc |-> "merge", rows |-> others, kept |-> Append(agent[a].kept, row.id)])
                  /\ UNCHANGED <<symptoms, traces>>
             ELSE /\ symptoms' = [symptoms EXCEPT ![row.id].canon = canon]
                  /\ Turns(a, [pc |-> "repoint", rows |-> others, kept |-> agent[a].kept,
                               row |-> row.id, canon |-> canon])
                  /\ Outdate
    BY DEF MergeRow
  <1>3. PICK known, kept, id : known = DOMAIN symptoms /\ kept = agent[a].kept /\ id = row.id
    OBVIOUS
  <1>4. /\ kept \in Seq(known) /\ id \in known
        /\ \A r \in others : r.id \in known /\ r.id # id
        /\ \A r, q \in others : r.id = q.id => r = q
    BY <1>1, <1>2, <1>3 DEF Fit
  <1>5. UNCHANGED <<class, articles, graph>> /\ DOMAIN agent = Agent
    BY DEF MergeRow, GraphInv, GraphTypes
  <1>6. ~traces.torn =>
          /\ \A b \in Agent : Merging(b) => b = a
          /\ \A i \in DOMAIN kept : symptoms[kept[i]].canon = 0 /\ kept[i] # id
          /\ symptoms[id].canon = 0
          /\ \A r \in others : symptoms[r.id].canon = 0 /\ \A i \in DOMAIN kept : kept[i] # r.id
          /\ \A s \in DOMAIN symptoms : symptoms[s].canon # 0 => symptoms[symptoms[s].canon].canon = 0
    <2> SUFFICES ASSUME ~traces.torn
                 PROVE /\ \A b \in Agent : Merging(b) => b = a
                       /\ \A i \in DOMAIN kept : symptoms[kept[i]].canon = 0 /\ kept[i] # id
                       /\ symptoms[id].canon = 0
                       /\ \A r \in others : symptoms[r.id].canon = 0 /\ \A i \in DOMAIN kept : kept[i] # r.id
                       /\ \A s \in DOMAIN symptoms : symptoms[s].canon # 0 => symptoms[symptoms[s].canon].canon = 0
      OBVIOUS
    <2>1. (\A b \in Agent : Merging(b) => b = a) /\ Orderly(agent[a], symptoms)
      BY <1>1, MergesAlone
    <2>2. \A b \in Agent : agent[b].pc # "repoint"
      BY <1>1, <2>1 DEF Merging
    <2>3. \A s \in DOMAIN symptoms : symptoms[s].canon # 0 => symptoms[symptoms[s].canon].canon = 0
      BY <2>2 DEF GraphInv, MergesAreOrderly
    <2> QED BY <1>2, <1>3, <2>1, <2>3 DEF Orderly
  <1>7. CASE canon = 0
    <2>1. PICK longer : longer = Append(kept, id)
      OBVIOUS
    <2>2. /\ longer \in Seq(known) /\ DOMAIN longer = DOMAIN kept \union {Len(kept) + 1}
          /\ longer[Len(kept) + 1] = id /\ \A i \in DOMAIN kept : longer[i] = kept[i]
      BY <1>4, <2>1
    <2>3. PICK t : t = [pc |-> "merge", rows |-> others, kept |-> longer] /\ Turns(a, t)
      BY <1>2, <1>3, <1>7, <2>1
    <2>4. UNCHANGED <<symptoms, traces>>
      BY <1>2, <1>7
    <2>5. /\ DOMAIN agent' = Agent /\ agent'[a] = t /\ \A b \in Agent : b # a => agent'[b] = agent[b]
      BY <1>5, <2>3 DEF Turns
    <2>6. Fit(t, DOMAIN symptoms, articles) /\ t.pc = "merge"
      BY <1>3, <1>4, <2>2, <2>3 DEF Fit
    <2>7. GraphTypes'
      BY <1>5, <2>4, <2>5 DEF GraphInv, GraphTypes
    <2>8. AgentsFit'
      BY <1>5, <2>3, <2>4, <2>6, AgentsFitStep DEF GraphInv
    <2>9. MergesAreOrderly'
      <3> SUFFICES ASSUME ~traces.torn PROVE MergesAreOrderly'
        BY <2>4 DEF MergesAreOrderly
      <3>1. \A b \in Agent : Merging(b)' => b = a
        BY <1>6, <2>5 DEF Merging
      <3>2. Orderly(t, symptoms)
        BY <1>4, <1>6, <2>2, <2>3 DEF Orderly
      <3>3. Orderly(agent'[a], symptoms')
        BY <2>4, <2>5, <3>2
      <3> QED BY <1>6, <2>4, <3>1, <3>3 DEF MergesAreOrderly
    <2>10. SyncsAreExact' /\ GraphIsFresh'
      <3>1. \A c \in Case : SymptomOf(c)' = SymptomOf(c)
        BY <1>5, <2>4 DEF SymptomOf, Canonical
      <3> QED BY <1>1, <1>5, <2>3, <2>4, <3>1, SyncsStay DEF GraphInv
    <2> QED BY <2>7, <2>8, <2>9, <2>10 DEF GraphInv
  <1>8. CASE canon # 0
    <2>1. canon \in known /\ \E i \in DOMAIN kept : kept[i] = canon
      BY <1>2, <1>3, <1>4, <1>8, ClosestIsKept
    <2>2. PICK old, new : old = symptoms[id] /\ new = [old EXCEPT !.canon = canon]
      OBVIOUS
    <2>3. old \in Symptom /\ canon \in Nat
      BY <1>3, <1>4, <2>1, <2>2, SymptomsAre DEF GraphInv
    <2>4. new \in Symptom /\ new.canon = canon
      BY <2>2, <2>3 DEF Symptom
    <2>5. /\ symptoms' = [symptoms EXCEPT ![id] = new] /\ symptoms \in Seq(Symptom)
          /\ symptoms' \in Seq(Symptom) /\ DOMAIN symptoms' = DOMAIN symptoms
      <3>1. symptoms' = [symptoms EXCEPT ![id].canon = canon]
        BY <1>2, <1>3, <1>8
      <3>2. symptoms' = [symptoms EXCEPT ![id] = new]
        BY <2>2, <3>1
      <3> QED BY <1>3, <1>4, <2>4, <3>2, ExceptSeq DEF GraphInv, GraphTypes
    <2>6. symptoms'[id].canon = canon /\ \A s \in DOMAIN symptoms : s # id => symptoms'[s] = symptoms[s]
      BY <1>3, <1>4, <2>4, <2>5
    <2>7. PICK t : t = [pc |-> "repoint", rows |-> others, kept |-> kept, row |-> id, canon |-> canon] /\ Turns(a, t)
      BY <1>2, <1>3, <1>8
    <2>8. /\ SyncsAreExact' /\ GraphIsFresh' /\ traces'.torn = traces.torn
          /\ traces' \in [torn : BOOLEAN, exact : SUBSET Agent, fresh : BOOLEAN]
      BY <1>2, <1>8, SyncsOutdated DEF GraphInv
    <2>9. /\ DOMAIN agent' = Agent /\ agent'[a] = t /\ \A b \in Agent : b # a => agent'[b] = agent[b]
      BY <1>5, <2>7 DEF Turns
    <2>10. Fit(t, DOMAIN symptoms', articles') /\ t.pc = "repoint"
      BY <1>3, <1>4, <2>1, <2>5, <2>7 DEF Fit
    <2>11. GraphTypes'
      <3>1. \A s \in DOMAIN symptoms' : symptoms'[s].canon \in {0} \union DOMAIN symptoms'
        BY <1>3, <2>1, <2>5, <2>6 DEF GraphInv, GraphTypes
      <3> QED BY <1>5, <2>5, <2>8, <2>9, <3>1 DEF GraphInv, GraphTypes
    <2>12. AgentsFit'
      BY <1>5, <2>5, <2>7, <2>10, AgentsFitStep DEF GraphInv
    <2>13. MergesAreOrderly'
      <3> SUFFICES ASSUME ~traces.torn PROVE MergesAreOrderly'
        BY <2>8 DEF MergesAreOrderly
      <3>1. \A b \in Agent : Merging(b)' => b = a
        BY <1>6, <2>9 DEF Merging
      <3>2. \A i \in DOMAIN kept : kept[i] \in known /\ symptoms'[kept[i]].canon = 0
        <4>1. \A i \in DOMAIN kept : kept[i] \in known
          BY <1>4, ElementOfSeq
        <4> QED BY <1>3, <1>6, <2>6, <4>1
      <3>3. \A r \in others : symptoms'[r.id].canon = 0 /\ \A i \in DOMAIN kept : kept[i] # r.id
        BY <1>3, <1>4, <1>6, <2>6
      <3>4. Orderly(t, symptoms')
        BY <2>1, <2>6, <2>7, <3>2, <3>3 DEF Orderly
      <3>5. Orderly(agent'[a], symptoms')
        BY <2>9, <3>4
      <3>6. ASSUME NEW s \in DOMAIN symptoms', symptoms'[s].canon # 0
            PROVE  symptoms'[symptoms'[s].canon].canon = 0 \/ symptoms'[s].canon = id
        <4>1. CASE s = id
          BY <2>1, <2>6, <3>2, <4>1
        <4>2. CASE s # id
          <5>1. symptoms'[s].canon = symptoms[s].canon /\ symptoms[s].canon \in DOMAIN symptoms
            BY <2>5, <2>6, <3>6, <4>2 DEF GraphInv, GraphTypes
          <5> QED BY <1>6, <2>5, <2>6, <3>6, <5>1
        <4> QED BY <4>1, <4>2
      <3>7. agent'[a].pc = "repoint" /\ agent'[a].row = id
        BY <2>7, <2>9
      <3> QED BY <3>1, <3>5, <3>6, <3>7 DEF MergesAreOrderly
    <2> QED BY <2>8, <2>11, <2>12, <2>13 DEF GraphInv
  <1> QED BY <1>7, <1>8

LEMMA RepointKeeps ==
  ASSUME GraphInv, NEW a \in Agent, Repoint(a)
  PROVE  GraphInv'
  <1>1. Fit(agent[a], DOMAIN symptoms, articles) /\ agent[a].pc = "repoint" /\ Merging(a)
    BY DEF GraphInv, AgentsFit, Repoint, Merging
  <1>2. PICK rows, kept, id, canon :
          rows = agent[a].rows /\ kept = agent[a].kept /\ id = agent[a].row /\ canon = agent[a].canon
    OBVIOUS
  <1>13. symptoms' = [s \in DOMAIN symptoms |->
            IF symptoms[s].canon = id THEN [symptoms[s] EXCEPT !.canon = canon] ELSE symptoms[s]]
    BY <1>2, Zenon DEF Repoint
  <1>3. PICK t : t = [pc |-> "merge", rows |-> rows, kept |-> kept] /\ Turns(a, t)
    BY <1>2 DEF Repoint
  <1>4. /\ DOMAIN agent = Agent /\ DOMAIN agent' = Agent /\ agent'[a] = t
        /\ \A b \in Agent : b # a => agent'[b] = agent[b]
        /\ UNCHANGED <<class, articles, graph>>
    BY <1>3 DEF Repoint, Turns, GraphInv, GraphTypes
  <1>5. /\ id \in DOMAIN symptoms /\ canon \in DOMAIN symptoms /\ canon \in Nat /\ id # 0
    BY <1>1, <1>2, SymptomsAre DEF Fit, GraphInv
  <1>6. ASSUME NEW s \in DOMAIN symptoms
        PROVE  /\ symptoms'[s] \in Symptom
               /\ symptoms'[s].canon = IF symptoms[s].canon = id THEN canon ELSE symptoms[s].canon
    <2>1. PICK old, new : old = symptoms[s] /\ new = [old EXCEPT !.canon = canon] /\ old \in Symptom
      BY SymptomsAre DEF GraphInv
    <2>2. new \in Symptom /\ new.canon = canon
      BY <1>5, <2>1 DEF Symptom
    <2>3. symptoms'[s] = IF old.canon = id THEN new ELSE old
      BY <1>13, <2>1
    <2> QED BY <2>1, <2>2, <2>3
  <1>7. DOMAIN symptoms' = DOMAIN symptoms /\ symptoms' \in Seq(Symptom)
    <2>1. Len(symptoms) \in Nat /\ DOMAIN symptoms = 1..Len(symptoms)
      BY SymptomsAre DEF GraphInv
    <2>2. symptoms' \in [1..Len(symptoms) -> Symptom]
      BY <1>13, <1>6, <2>1
    <2> QED BY <2>1, <2>2, SeqDef
  <1>8. /\ SyncsAreExact' /\ GraphIsFresh' /\ traces'.torn = traces.torn
        /\ traces' \in [torn : BOOLEAN, exact : SUBSET Agent, fresh : BOOLEAN]
    BY SyncsOutdated DEF GraphInv, Repoint
  <1>9. Fit(t, DOMAIN symptoms', articles') /\ t.pc = "merge"
    BY <1>1, <1>2, <1>3, <1>4, <1>7 DEF Fit
  <1>10. GraphTypes'
    <2>1. \A s \in DOMAIN symptoms' : symptoms'[s].canon \in {0} \union DOMAIN symptoms'
      BY <1>5, <1>6, <1>7 DEF GraphInv, GraphTypes
    <2> QED BY <1>4, <1>7, <1>8, <2>1 DEF GraphInv, GraphTypes
  <1>11. AgentsFit'
    BY <1>3, <1>4, <1>7, <1>9, AgentsFitStep DEF GraphInv
  <1>12. MergesAreOrderly'
    <2> SUFFICES ASSUME ~traces.torn PROVE MergesAreOrderly'
      BY <1>8 DEF MergesAreOrderly
    <2>1. (\A b \in Agent : Merging(b) => b = a) /\ Orderly(agent[a], symptoms)
      BY <1>1, MergesAlone
    <2>2. /\ \A i \in DOMAIN kept : symptoms[kept[i]].canon = 0
          /\ \A r \in rows : symptoms[r.id].canon = 0 /\ \A i \in DOMAIN kept : kept[i] # r.id
          /\ symptoms[canon].canon = 0
      BY <1>1, <1>2, <2>1 DEF Orderly
    <2>3. \A b \in Agent : Merging(b)' => b = a
      BY <1>4, <2>1 DEF Merging
    <2>4. \A i \in DOMAIN kept : kept[i] \in DOMAIN symptoms
      BY <1>1, <1>2, ElementOfSeq DEF Fit
    <2>5. \A r \in rows : r.id \in DOMAIN symptoms
      BY <1>1, <1>2 DEF Fit
    <2>6. Orderly(t, symptoms')
      BY <1>3, <1>5, <1>6, <2>2, <2>4, <2>5 DEF Orderly
    <2>7. Orderly(agent'[a], symptoms')
      BY <1>4, <2>6
    <2>8. ASSUME NEW s \in DOMAIN symptoms', symptoms'[s].canon # 0
          PROVE  symptoms'[symptoms'[s].canon].canon = 0
      <3>1. CASE symptoms[s].canon = id
        BY <1>5, <1>6, <1>7, <2>2, <3>1
      <3>2. CASE symptoms[s].canon # id
        <4>1. symptoms'[s].canon = symptoms[s].canon /\ symptoms[s].canon \in DOMAIN symptoms
          BY <1>6, <1>7, <2>8, <3>2 DEF GraphInv, GraphTypes
        <4>2. \A b \in Agent : agent[b].pc = "repoint" => agent[b].row = id
          BY <1>2, <2>1 DEF Merging
        <4>3. symptoms[symptoms[s].canon].canon = 0
          BY <1>7, <2>8, <3>2, <4>1, <4>2 DEF GraphInv, MergesAreOrderly
        <4> QED BY <1>5, <1>6, <4>1, <4>3
      <3> QED BY <3>1, <3>2
    <2> QED BY <2>3, <2>7, <2>8 DEF MergesAreOrderly
  <1> QED BY <1>8, <1>10, <1>11, <1>12 DEF GraphInv

LEMMA EndMergeKeeps ==
  ASSUME GraphInv, NEW a \in Agent, EndMerge(a)
  PROVE  GraphInv'
  <1>1. agent[a].pc = "merge" /\ Merging(a) /\ a \notin traces.exact
    BY DEF EndMerge, Merging, GraphInv, SyncsAreExact
  <1>2. PICK t : t = Resting /\ Turns(a, t)
    BY DEF EndMerge
  <1>3. Fit(t, DOMAIN symptoms, articles) /\ t.pc = "resting"
    BY <1>2 DEF Fit, Resting
  <1>4. /\ UNCHANGED <<symptoms, class, articles, graph, traces>> /\ DOMAIN agent = Agent /\ DOMAIN agent' = Agent
        /\ agent'[a] = t /\ \A b \in Agent : b # a => agent'[b] = agent[b]
    BY <1>2 DEF EndMerge, GraphInv, GraphTypes, Turns
  <1>5. GraphTypes'
    BY <1>4 DEF GraphInv, GraphTypes
  <1>6. AgentsFit'
    BY <1>2, <1>3, <1>4, AgentsFitStep DEF GraphInv
  <1>7. MergesAreOrderly'
    <2> SUFFICES ASSUME ~traces.torn PROVE MergesAreOrderly'
      BY <1>4 DEF MergesAreOrderly
    <2>1. \A b \in Agent : Merging(b) => b = a
      BY <1>1, MergesAlone
    <2>2. \A b \in Agent : ~Merging(b)'
      BY <1>3, <1>4, <2>1 DEF Merging
    <2>3. \A s \in DOMAIN symptoms : symptoms[s].canon # 0 => symptoms[symptoms[s].canon].canon = 0
      BY <1>1, <2>1 DEF GraphInv, MergesAreOrderly, Merging
    <2> QED BY <1>4, <2>2, <2>3 DEF MergesAreOrderly
  <1>8. SyncsAreExact' /\ GraphIsFresh'
    <2>1. \A c \in Case : SymptomOf(c)' = SymptomOf(c)
      BY <1>4 DEF SymptomOf, Canonical
    <2> QED BY <1>1, <1>2, <1>4, <2>1, SyncsStay DEF GraphInv
  <1> QED BY <1>5, <1>6, <1>7, <1>8 DEF GraphInv

\* What a merge left between its two statements is no longer in order.
LEMMA FailsKeeps ==
  ASSUME GraphInv, NEW a \in Agent, Fails(a)
  PROVE  GraphInv'
  <1>1. PICK t : t = Resting /\ Turns(a, t)
    BY DEF Fails
  <1>2. Fit(t, DOMAIN symptoms, articles) /\ t.pc = "resting"
    BY <1>1 DEF Fit, Resting
  <1>3. /\ UNCHANGED <<symptoms, class, articles, graph>> /\ DOMAIN agent = Agent /\ DOMAIN agent' = Agent
        /\ agent'[a] = t /\ \A b \in Agent : b # a => agent'[b] = agent[b]
    BY <1>1 DEF Fails, GraphInv, GraphTypes, Turns
  <1>4. PICK torn : /\ torn = (agent[a].pc = "repoint") /\ torn \in BOOLEAN
                    /\ traces' = [traces EXCEPT !.torn = @ \/ torn, !.exact = @ \ {a}]
    BY DEF Fails
  <1>5. /\ traces'.torn = (traces.torn \/ torn) /\ traces'.exact = traces.exact \ {a} /\ traces'.fresh = traces.fresh
        /\ traces' \in [torn : BOOLEAN, exact : SUBSET Agent, fresh : BOOLEAN]
    BY <1>4 DEF GraphInv, GraphTypes
  <1>6. GraphTypes'
    BY <1>3, <1>5 DEF GraphInv, GraphTypes
  <1>7. AgentsFit'
    BY <1>1, <1>2, <1>3, AgentsFitStep DEF GraphInv
  <1>8. MergesAreOrderly'
    <2> SUFFICES ASSUME ~traces'.torn PROVE MergesAreOrderly'
      BY DEF MergesAreOrderly
    <2>1. ~traces.torn /\ agent[a].pc # "repoint"
      BY <1>4, <1>5
    <2>2. \A b \in Agent : Merging(b)' => b # a /\ Merging(b)
      BY <1>2, <1>3 DEF Merging
    <2>3. \A b, c \in Agent : Merging(b)' /\ Merging(c)' => b = c
      BY <2>1, <2>2 DEF GraphInv, MergesAreOrderly
    <2>4. ASSUME NEW b \in Agent, Merging(b)' PROVE Orderly(agent'[b], symptoms')
      <3>1. PICK u : u = agent[b] /\ agent'[b] = u
        BY <1>3, <2>2, <2>4
      <3>2. Orderly(u, symptoms)
        BY <2>1, <2>2, <2>4, <3>1 DEF GraphInv, MergesAreOrderly
      <3>3. Orderly(u, symptoms')
        BY <1>3, <3>2
      <3> QED BY <3>1, <3>3
    <2>5. ASSUME NEW s \in DOMAIN symptoms', symptoms'[s].canon # 0
          PROVE  \/ symptoms'[symptoms'[s].canon].canon = 0
                 \/ \E b \in Agent : agent'[b].pc = "repoint" /\ agent'[b].row = symptoms'[s].canon
      BY <1>3, <2>1, <2>5 DEF GraphInv, MergesAreOrderly
    <2> QED BY <2>3, <2>4, <2>5 DEF MergesAreOrderly
  <1>9. SyncsAreExact' /\ GraphIsFresh'
    <2>1. \A c \in Case : SymptomOf(c)' = SymptomOf(c)
      BY <1>3 DEF SymptomOf, Canonical
    <2> QED BY <1>1, <1>3, <1>5, <2>1, SyncsStay DEF GraphInv
  <1> QED BY <1>6, <1>7, <1>8, <1>9 DEF GraphInv

-----------------------------------------------------------------------------
(***************************************************************************)
(* Articles and their graph.                                               *)
(***************************************************************************)
LEMMA StartArticleKeeps ==
  ASSUME GraphInv, NEW a \in Agent, NEW c \in Case, StartArticle(a, c)
  PROVE  GraphInv'
  <1>1. PICK t : t = [pc |-> "insert", case |-> c, since |-> Len(articles) + 1] /\ Turns(a, t)
    BY DEF StartArticle
  <1>2. Fit(t, DOMAIN symptoms, articles) /\ t.pc = "insert"
    BY <1>1 DEF Fit
  <1>3. agent[a].pc = "resting"
    BY DEF StartArticle, Resting
  <1> QED BY <1>1, <1>2, <1>3, PlainStep DEF StartArticle

LEMMA AddArticleKeeps ==
  ASSUME GraphInv, NEW a \in Agent, AddArticle(a)
  PROVE  GraphInv'
  <1>1. Fit(agent[a], DOMAIN symptoms, articles) /\ agent[a].pc = "insert"
    BY DEF GraphInv, AgentsFit, AddArticle
  <1>2. PICK c : c = agent[a].case /\ c \in Case
    BY <1>1 DEF Fit
  <1>3. PICK t : t = [pc |-> "read", since |-> agent[a].since, limit |-> 1 + SyncSlack] /\ Turns(a, t)
    BY DEF AddArticle
  <1>4. /\ articles \in Seq(Case \union {0}) /\ articles' = Append(articles, c)
        /\ UNCHANGED <<symptoms, class, graph>> /\ DOMAIN agent = Agent /\ DOMAIN agent' = Agent
    BY <1>2, <1>3 DEF AddArticle, GraphInv, GraphTypes, Turns
  <1>5. /\ articles' \in Seq(Case \union {0}) /\ DOMAIN articles \subseteq DOMAIN articles'
        /\ \A k \in DOMAIN articles : articles'[k] = articles[k]
    BY <1>2, <1>4
  <1>6. Fit(t, DOMAIN symptoms', articles') /\ t.pc = "read"
    BY <1>3 DEF Fit
  <1>7. /\ SyncsAreExact' /\ GraphIsFresh' /\ traces'.torn = traces.torn
        /\ traces' \in [torn : BOOLEAN, exact : SUBSET Agent, fresh : BOOLEAN]
    BY SyncsOutdated DEF GraphInv, AddArticle
  <1>8. GraphTypes'
    BY <1>4, <1>5, <1>7 DEF GraphInv, GraphTypes
  <1>9. AgentsFit'
    BY <1>3, <1>4, <1>5, <1>6, AgentsFitStep DEF GraphInv
  <1>10. MergesAreOrderly'
    <2>1. ~Merging(a)
      BY <1>1 DEF Merging
    <2> QED BY <1>3, <1>4, <1>6, <1>7, <2>1, MergesStay DEF GraphInv
  <1> QED BY <1>7, <1>8, <1>9, <1>10 DEF GraphInv

LEMMA StartGraphSyncKeeps ==
  ASSUME GraphInv, NEW a \in Agent, StartGraphSync(a)
  PROVE  GraphInv'
  <1>1. PICK t : t = [pc |-> "read", since |-> 1, limit |-> SyncMax] /\ Turns(a, t)
    BY DEF StartGraphSync
  <1>2. Fit(t, DOMAIN symptoms, articles) /\ t.pc = "read"
    BY <1>1 DEF Fit
  <1>3. agent[a].pc = "resting"
    BY DEF StartGraphSync, Resting
  <1> QED BY <1>1, <1>2, <1>3, PlainStep DEF StartGraphSync

\* A step of a sync leaves the tables and the merges.
LEMMA SyncStep ==
  ASSUME GraphInv, NEW a \in Agent, NEW t, Turns(a, t), agent[a].pc \in {"read", "sync"},
         t.pc \in {"sync", "resting"}, UNCHANGED <<symptoms, class, articles>>, traces'.torn = traces.torn,
         traces' \in [torn : BOOLEAN, exact : SUBSET Agent, fresh : BOOLEAN],
         graph' = [nodes |-> graph'.nodes, edges |-> graph'.edges],
         \A e \in graph'.edges : {e.from, e.to} \subseteq graph'.nodes
  PROVE  GraphTypes' /\ AgentsFit' /\ MergesAreOrderly'
  <1>1. Fit(t, DOMAIN symptoms, articles) /\ ~Merging(a)
    BY DEF Fit, Merging
  <1>2. GraphTypes'
    BY DEF GraphInv, GraphTypes, Turns
  <1>3. AgentsFit'
    BY <1>1, AgentsFitStep DEF GraphInv, GraphTypes
  <1>4. MergesAreOrderly'
    BY <1>1, MergesStay DEF GraphInv, GraphTypes
  <1> QED BY <1>2, <1>3, <1>4

LEMMA CallsFor ==
  ASSUME NEW k, Solvable(k)
  PROVE  {CallFor("article", k), CallFor("symptom", k), CallFor("solves", k)} \subseteq Calls(k)
  BY DEF Solvable, Calls, CallFor

\* While articles and symptoms stand, so do the calls for them.
LEMMA CallsStay ==
  ASSUME UNCHANGED <<symptoms, class, articles>>, NEW k
  PROVE  /\ Solvable(k)' = Solvable(k) /\ Edge(k)' = Edge(k)
         /\ SymptomOf(articles[k])' = SymptomOf(articles[k])
         /\ \A call : CallFor(call, k)' = CallFor(call, k)
  <1>1. SymptomOf(articles[k])' = SymptomOf(articles[k])
    BY DEF SymptomOf, Canonical
  <1> QED BY <1>1 DEF Solvable, Edge, CallFor, Node

LEMMA ReadArticlesKeeps ==
  ASSUME GraphInv, NEW a \in Agent, ReadArticles(a)
  PROVE  GraphInv'
  <1>1. agent[a].pc = "read" /\ a \notin traces.exact
    BY DEF ReadArticles, GraphInv, SyncsAreExact
  <1>2. PICK read : /\ read = ArticlesSince(agent[a].since, agent[a].limit)
                    /\ Turns(a, [pc |-> "sync", todo |-> UNION {Calls(k) : k \in read}])
                    /\ traces' = IF read = DOMAIN articles THEN [traces EXCEPT !.exact = @ \union {a}] ELSE traces
    BY DEF ReadArticles
  <1>3. PICK t : t = [pc |-> "sync", todo |-> UNION {Calls(k) : k \in read}] /\ Turns(a, t)
    BY <1>2
  <1>4. /\ UNCHANGED <<symptoms, class, articles, graph>> /\ agent'[a] = t /\ t.pc = "sync"
        /\ \A b \in Agent : b # a => agent'[b] = agent[b]
    BY <1>3 DEF ReadArticles, Turns, GraphInv, GraphTypes
  <1>5. /\ traces' \in [torn : BOOLEAN, exact : SUBSET Agent, fresh : BOOLEAN]
        /\ traces'.torn = traces.torn /\ traces'.fresh = traces.fresh
        /\ traces'.exact = IF read = DOMAIN articles THEN traces.exact \union {a} ELSE traces.exact
    <2>1. traces \in [torn : BOOLEAN, exact : SUBSET Agent, fresh : BOOLEAN]
      BY DEF GraphInv, GraphTypes
    <2>2. CASE read = DOMAIN articles
      BY <1>2, <2>1, <2>2
    <2>3. CASE read # DOMAIN articles
      BY <1>2, <2>1, <2>3
    <2> QED BY <2>2, <2>3
  <1>6. GraphTypes' /\ AgentsFit' /\ MergesAreOrderly'
    BY <1>1, <1>3, <1>4, <1>5, SyncStep DEF GraphInv, GraphTypes
  <1>7. ASSUME NEW b \in traces'.exact
        PROVE  /\ agent'[b].pc = "sync"
               /\ \A k \in DOMAIN articles : Solvable(k) =>
                     /\ CallFor("article", k) \in agent'[b].todo \/ Node("article", k) \in graph.nodes
                     /\ \/ CallFor("symptom", k) \in agent'[b].todo
                        \/ Node("symptom", SymptomOf(articles[k])) \in graph.nodes
                     /\ CallFor("solves", k) \in agent'[b].todo \/ Edge(k) \in graph.edges
    <2>1. CASE b = a
      <3>1. read = DOMAIN articles
        BY <1>1, <1>5, <1>7, <2>1
      <3>2. ASSUME NEW k \in DOMAIN articles, Solvable(k)
            PROVE  {CallFor("article", k), CallFor("symptom", k), CallFor("solves", k)} \subseteq t.todo
        BY <1>3, <3>1, <3>2, CallsFor
      <3> QED BY <1>4, <2>1, <3>2
    <2>2. CASE b # a
      <3>1. b \in traces.exact /\ b \in Agent
        BY <1>5, <1>7, <2>2
      <3> QED BY <1>4, <2>2, <3>1 DEF GraphInv, SyncsAreExact
    <2> QED BY <2>1, <2>2
  <1>8. SyncsAreExact'
    BY <1>4, <1>7, CallsStay DEF SyncsAreExact, Node
  <1>9. GraphIsFresh'
    BY <1>4, <1>5, CallsStay DEF GraphInv, GraphIsFresh
  <1> QED BY <1>6, <1>8, <1>9 DEF GraphInv

\* The SOLVES edge is asked for after the two nodes it joins.
LEMMA NodesBeforeEdge ==
  ASSUME NEW todo, NEW k \in Nat, CallFor("solves", k) \in todo,
         \A later \in todo \ {CallFor("solves", k)} : Sooner(CallFor("solves", k), later)
  PROVE  CallFor("article", k) \notin todo /\ CallFor("symptom", k) \notin todo
  <1>1. ASSUME NEW call \in {"article", "symptom"}, CallFor(call, k) \in todo PROVE FALSE
    <2>1. Sooner(CallFor("solves", k), CallFor(call, k))
      BY <1>1 DEF CallFor
    <2>2. CallOrder["solves"] < CallOrder[call]
      BY <2>1 DEF Sooner, CallFor
    <2> QED BY <1>1, <2>2 DEF CallOrder
  <1> QED BY <1>1

LEMMA SyncCallKeeps ==
  ASSUME GraphInv, NEW a \in Agent, SyncCall(a)
  PROVE  GraphInv'
  <1>1. PICK todo : todo = agent[a].todo /\ agent[a].pc = "sync"
    BY DEF SyncCall
  <1>2. PICK now \in todo :
          /\ \A later \in todo \ {now} : Sooner(now, later)
          /\ \/ now.call = "report"   /\ UpsertNode("report", now.case)
             \/ now.call = "article"  /\ UpsertNode("article", now.article)
             \/ now.call = "produced" /\ UpsertEdge("PRODUCED", Node("report", now.case), Node("article", now.article))
             \/ now.call = "symptom"  /\ UpsertNode("symptom", now.symptom)
             \/ now.call = "solves"   /\ UpsertEdge("SOLVES", Node("article", now.article), Node("symptom", now.symptom))
          /\ Turns(a, [pc |-> "sync", todo |-> todo \ {now}])
    BY <1>1 DEF SyncCall
  <1>3. PICK t : t = [pc |-> "sync", todo |-> todo \ {now}] /\ Turns(a, t)
    BY <1>2
  <1>4. /\ UNCHANGED <<symptoms, class, articles, traces>> /\ agent'[a] = t /\ t.pc = "sync"
        /\ \A b \in Agent : b # a => agent'[b] = agent[b]
    BY <1>3 DEF SyncCall, Turns, GraphInv, GraphTypes
  <1>5. PICK nodes, edges : nodes = graph.nodes /\ edges = graph.edges /\ graph = [nodes |-> nodes, edges |-> edges]
    BY DEF GraphInv, GraphTypes
  <1>6. \A e \in edges : {e.from, e.to} \subseteq nodes
    BY <1>5 DEF GraphInv, GraphTypes
  <1>7. ASSUME NEW kind, NEW id, UpsertNode(kind, id)
        PROVE  graph' = [nodes |-> nodes \union {Node(kind, id)}, edges |-> edges]
    BY <1>5, <1>7 DEF UpsertNode
  <1>8. ASSUME NEW type, NEW from, NEW to, UpsertEdge(type, from, to)
        PROVE  graph' = [nodes |-> nodes,
                         edges |-> IF {from, to} \subseteq nodes
                                   THEN edges \union {[type |-> type, from |-> from, to |-> to]} ELSE edges]
    BY <1>5, <1>8 DEF UpsertEdge
  <1>9. /\ graph' = [nodes |-> graph'.nodes, edges |-> graph'.edges]
        /\ nodes \subseteq graph'.nodes /\ edges \subseteq graph'.edges
        /\ \A e \in graph'.edges : {e.from, e.to} \subseteq graph'.nodes
        /\ now.call = "article" => Node("article", now.article) \in graph'.nodes
        /\ now.call = "symptom" => Node("symptom", now.symptom) \in graph'.nodes
        /\ now.call = "solves" /\ {Node("article", now.article), Node("symptom", now.symptom)} \subseteq nodes =>
              [type |-> "SOLVES", from |-> Node("article", now.article), to |-> Node("symptom", now.symptom)]
                 \in graph'.edges
    <2>1. CASE now.call = "report" /\ UpsertNode("report", now.case)
      BY <1>6, <1>7, <2>1
    <2>2. CASE now.call = "article" /\ UpsertNode("article", now.article)
      BY <1>6, <1>7, <2>2
    <2>3. CASE now.call = "produced" /\ UpsertEdge("PRODUCED", Node("report", now.case), Node("article", now.article))
      BY <1>6, <1>8, <2>3
    <2>4. CASE now.call = "symptom" /\ UpsertNode("symptom", now.symptom)
      BY <1>6, <1>7, <2>4
    <2>5. CASE now.call = "solves" /\ UpsertEdge("SOLVES", Node("article", now.article), Node("symptom", now.symptom))
      BY <1>6, <1>8, <2>5
    <2> QED BY <1>2, <2>1, <2>2, <2>3, <2>4, <2>5
  <1>10. GraphTypes' /\ AgentsFit' /\ MergesAreOrderly'
    BY <1>1, <1>3, <1>4, <1>9, SyncStep DEF GraphInv, GraphTypes
  <1>11. ASSUME NEW b \in traces.exact, NEW k \in DOMAIN articles, Solvable(k)
         PROVE  /\ agent'[b].pc = "sync"
                /\ CallFor("article", k) \in agent'[b].todo \/ Node("article", k) \in graph'.nodes
                /\ \/ CallFor("symptom", k) \in agent'[b].todo
                   \/ Node("symptom", SymptomOf(articles[k])) \in graph'.nodes
                /\ CallFor("solves", k) \in agent'[b].todo \/ Edge(k) \in graph'.edges
    <2>1. /\ agent[b].pc = "sync" /\ b \in Agent
          /\ CallFor("article", k) \in agent[b].todo \/ Node("article", k) \in nodes
          /\ CallFor("symptom", k) \in agent[b].todo \/ Node("symptom", SymptomOf(articles[k])) \in nodes
          /\ CallFor("solves", k) \in agent[b].todo \/ Edge(k) \in edges
      BY <1>5, <1>11 DEF GraphInv, SyncsAreExact, GraphTypes
    <2>2. CASE b # a
      BY <1>4, <1>9, <2>1, <2>2
    <2>3. CASE b = a
      <3>1. agent'[b].todo = todo \ {now} /\ agent'[b].pc = "sync"
        BY <1>3, <1>4, <2>3
      <3>2. CallFor("article", k) \in agent'[b].todo \/ Node("article", k) \in graph'.nodes
        <4>1. CASE now = CallFor("article", k)
          <5>1. now.call = "article" /\ now.article = k
            BY <4>1 DEF CallFor
          <5> QED BY <1>9, <5>1
        <4>2. CASE now # CallFor("article", k)
          BY <1>1, <1>9, <2>1, <2>3, <3>1, <4>2
        <4> QED BY <4>1, <4>2
      <3>3. CallFor("symptom", k) \in agent'[b].todo \/ Node("symptom", SymptomOf(articles[k])) \in graph'.nodes
        <4>1. CASE now = CallFor("symptom", k)
          <5>1. now.call = "symptom" /\ now.symptom = SymptomOf(articles[k])
            BY <4>1 DEF CallFor
          <5> QED BY <1>9, <5>1
        <4>2. CASE now # CallFor("symptom", k)
          BY <1>1, <1>9, <2>1, <2>3, <3>1, <4>2
        <4> QED BY <4>1, <4>2
      <3>4. CallFor("solves", k) \in agent'[b].todo \/ Edge(k) \in graph'.edges
        <4>1. CASE now = CallFor("solves", k)
          <5>1. now.call = "solves" /\ now.article = k /\ now.symptom = SymptomOf(articles[k])
            BY <4>1 DEF CallFor
          <5>2. k \in Nat
            <6>1. articles \in Seq(Case \union {0})
              BY DEF GraphInv, GraphTypes
            <6> QED BY <1>11, <6>1, LenProperties
          <5>3. CallFor("article", k) \notin todo /\ CallFor("symptom", k) \notin todo
            BY <1>2, <4>1, <5>2, NodesBeforeEdge
          <5>4. {Node("article", k), Node("symptom", SymptomOf(articles[k]))} \subseteq nodes
            BY <1>1, <2>1, <2>3, <5>3
          <5> QED BY <1>9, <5>1, <5>4 DEF Edge
        <4>2. CASE now # CallFor("solves", k)
          BY <1>1, <1>9, <2>1, <2>3, <3>1, <4>2
        <4> QED BY <4>1, <4>2
      <3> QED BY <3>1, <3>2, <3>3, <3>4
    <2> QED BY <2>2, <2>3
  <1>12. SyncsAreExact'
    <2>1. \A b \in traces.exact : agent'[b].pc = "sync"
      BY <1>3, <1>4 DEF GraphInv, SyncsAreExact, GraphTypes
    <2> QED BY <1>4, <1>11, <2>1, CallsStay DEF SyncsAreExact, Node
  <1>13. GraphIsFresh'
    BY <1>4, <1>5, <1>9, CallsStay DEF GraphInv, GraphIsFresh
  <1> QED BY <1>10, <1>12, <1>13 DEF GraphInv

LEMMA EndSyncKeeps ==
  ASSUME GraphInv, NEW a \in Agent, EndSync(a)
  PROVE  GraphInv'
  <1>1. agent[a].pc = "sync" /\ agent[a].todo = {}
    BY DEF EndSync
  <1>2. PICK t : t = Resting /\ Turns(a, t)
    BY DEF EndSync
  <1>3. /\ UNCHANGED <<symptoms, class, articles, graph>> /\ agent'[a] = t /\ t.pc = "resting"
        /\ \A b \in Agent : b # a => agent'[b] = agent[b]
    BY <1>2 DEF EndSync, Turns, GraphInv, GraphTypes, Resting
  <1>4. traces' = [traces EXCEPT !.fresh = @ \/ a \in traces.exact, !.exact = @ \ {a}]
    BY DEF EndSync
  <1>5. /\ traces' \in [torn : BOOLEAN, exact : SUBSET Agent, fresh : BOOLEAN]
        /\ traces'.torn = traces.torn /\ traces'.fresh = (traces.fresh \/ a \in traces.exact)
        /\ traces'.exact = traces.exact \ {a}
    BY <1>4 DEF GraphInv, GraphTypes
  <1>6. GraphTypes' /\ AgentsFit' /\ MergesAreOrderly'
    BY <1>1, <1>2, <1>3, <1>5, SyncStep DEF GraphInv, GraphTypes
  <1>7. ASSUME NEW b \in traces'.exact PROVE agent'[b] = agent[b] /\ b \in traces.exact
    BY <1>3, <1>5, <1>7
  <1>8. SyncsAreExact'
    BY <1>3, <1>7, CallsStay DEF GraphInv, SyncsAreExact, Node
  <1>9. GraphIsFresh'
    <2> SUFFICES ASSUME traces'.fresh, NEW k \in DOMAIN articles, Solvable(k) PROVE Edge(k) \in graph.edges
      BY <1>3, CallsStay DEF GraphIsFresh
    <2>1. CASE traces.fresh
      BY <2>1 DEF GraphInv, GraphIsFresh
    <2>2. CASE a \in traces.exact
      BY <1>1, <2>2 DEF GraphInv, SyncsAreExact
    <2> QED BY <1>5, <2>1, <2>2
  <1> QED BY <1>6, <1>8, <1>9 DEF GraphInv

-----------------------------------------------------------------------------
(***************************************************************************)
(* Search.                                                                 *)
(***************************************************************************)
LEMMA SeqsOf ==
  ASSUME NEW S, IsFiniteSet(S), NEW f \in SetToSeqs(S)
  PROVE  f \in Seq(S) /\ Distinct(f) /\ ToSet(f) \subseteq S
  <1>1. Cardinality(S) \in Nat
    BY FS_CardinalityType
  <1>2. f \in [1..Cardinality(S) -> S] /\ \A i, j \in 1..Cardinality(S) : i # j => f[i] # f[j]
    BY DEF SetToSeqs
  <1>3. f \in Seq(S)
    BY <1>1, <1>2, SeqDef
  <1> QED BY <1>2, <1>3 DEF Distinct, ToSet

LEMMA StartSearchKeeps ==
  ASSUME GraphInv, NEW a \in Agent, StartSearch(a)
  PROVE  GraphInv'
  <1>1. PICK hits, wanted : /\ hits \in SUBSET Case
                            /\ Turns(a, IF hits = {} THEN Resting ELSE [pc |-> "rows", hits |-> hits, wanted |-> wanted])
    BY DEF StartSearch
  <1>2. PICK t : t = (IF hits = {} THEN Resting ELSE [pc |-> "rows", hits |-> hits, wanted |-> wanted]) /\ Turns(a, t)
    BY <1>1
  <1>3. Fit(t, DOMAIN symptoms, articles) /\ t.pc \in {"resting", "rows"}
    <2>1. CASE hits = {}
      BY <1>2, <2>1 DEF Fit, Resting
    <2>2. CASE hits # {}
      BY <1>1, <1>2, <2>2 DEF Fit
    <2> QED BY <2>1, <2>2
  <1>4. agent[a].pc = "resting"
    BY DEF StartSearch, Resting
  <1> QED BY <1>2, <1>3, <1>4, PlainStep DEF StartSearch

LEMMA CasesByIDsKeeps ==
  ASSUME GraphInv, NEW a \in Agent, CasesByIDs(a)
  PROVE  GraphInv'
  <1>1. agent[a].pc = "rows" /\ Fit(agent[a], DOMAIN symptoms, articles)
    BY DEF CasesByIDs, GraphInv, AgentsFit
  <1>2. PICK hits, wanted : hits = agent[a].hits /\ wanted = agent[a].wanted /\ hits \in SUBSET Case
    BY <1>1 DEF Fit
  <1>3. PICK rows \in SetToSeqs(hits) :
          Turns(a, [pc |-> "anchors", rows |-> rows, wanted |-> wanted, todo |-> SymptomsOf(rows), found |-> <<>>])
    BY <1>2 DEF CasesByIDs
  <1>4. PICK t : /\ t = [pc |-> "anchors", rows |-> rows, wanted |-> wanted, todo |-> SymptomsOf(rows), found |-> <<>>]
                 /\ Turns(a, t)
    BY <1>3
  <1>5. rows \in Seq(hits) /\ Distinct(rows)
    BY <1>2, <1>3, SeqsOf, FS_Subset, KnowledgeGraphAssumption
  <1>6. rows \in Seq(Case)
    BY <1>2, <1>5, SeqDef
  <1>7. t.found = <<>> /\ DOMAIN t.found = {} /\ t.found \in Seq(DOMAIN articles)
    BY <1>4, EmptySeq
  <1>8. Listed(t, articles)
    BY <1>4, <1>5, <1>6, <1>7 DEF Listed, Distinct
  <1>9. Fit(t, DOMAIN symptoms, articles) /\ t.pc = "anchors"
    BY <1>4, <1>8 DEF Fit
  <1> QED BY <1>1, <1>4, <1>9, PlainStep DEF CasesByIDs

\* What is listed for another symptom was not listed before.
LEMMA GraphArticlesKeeps ==
  ASSUME GraphInv, NEW a \in Agent, GraphArticles(a)
  PROVE  GraphInv'
  <1>1. agent[a].pc = "anchors" /\ Fit(agent[a], DOMAIN symptoms, articles)
    BY DEF GraphArticles, GraphInv, AgentsFit
  <1>2. PICK rows, found, wanted, todo :
          rows = agent[a].rows /\ found = agent[a].found /\ wanted = agent[a].wanted /\ todo = agent[a].todo
    OBVIOUS
  <1>3. /\ rows \in Seq(Case) /\ Distinct(rows) /\ found \in Seq(DOMAIN articles) /\ Distinct(found)
        /\ \A i \in DOMAIN found : articles[found[i]] \notin ToSet(rows)
    BY <1>1, <1>2 DEF Fit, Listed
  <1>4. PICK anchor, top, listed :
          /\ top \in SUBSET Solving(anchor.symptom) /\ listed \in SetToSeqs(NewArticles(a, top))
          /\ Turns(a, [pc |-> "anchors", rows |-> rows, wanted |-> wanted,
                       todo |-> todo \ {anchor}, found |-> found \o listed])
    BY <1>2 DEF GraphArticles, kSubset
  <1>5. PICK new : new = NewArticles(a, top)
    OBVIOUS
  <1>6. new \in SUBSET DOMAIN articles /\ \A k \in new : k \notin ToSet(found) /\ articles[k] \notin ToSet(rows)
    BY <1>2, <1>4, <1>5 DEF NewArticles, Solving
  <1>7. IsFiniteSet(DOMAIN articles)
    <2>1. articles \in Seq(Case \union {0})
      BY DEF GraphInv, GraphTypes
    <2>2. Len(articles) \in Nat /\ DOMAIN articles = 1..Len(articles)
      BY <2>1, LenProperties
    <2> QED BY <2>2, FS_Interval
  <1>8. listed \in Seq(new) /\ Distinct(listed) /\ ToSet(listed) \subseteq new
    BY <1>4, <1>5, <1>6, <1>7, FS_Subset, SeqsOf
  <1>9. listed \in Seq(DOMAIN articles)
    BY <1>6, <1>8, SeqDef
  <1>10. PICK all : all = found \o listed
    OBVIOUS
  <1>11. PICK n, m : n = Len(found) /\ m = Len(listed) /\ n \in Nat /\ m \in Nat
                     /\ DOMAIN found = 1..n /\ DOMAIN listed = 1..m
    BY <1>3, <1>9, LenProperties
  <1>12. /\ all \in Seq(DOMAIN articles) /\ DOMAIN all = 1..(n + m)
         /\ \A i \in 1..n : all[i] = found[i]
         /\ \A i \in 1..(n + m) : i > n => all[i] = listed[i - n]
    BY <1>3, <1>9, <1>10, <1>11
  <1>13. ASSUME NEW i \in DOMAIN all
         PROVE  IF i <= n THEN i \in DOMAIN found /\ all[i] = found[i]
                ELSE i - n \in DOMAIN listed /\ all[i] = listed[i - n] /\ all[i] \in new
    <2>1. CASE i <= n
      BY <1>11, <1>12, <2>1
    <2>2. CASE i > n
      <3>1. i - n \in DOMAIN listed /\ all[i] = listed[i - n]
        BY <1>11, <1>12, <2>2
      <3> QED BY <1>8, <1>11, <1>12, <2>2, <3>1 DEF ToSet
    <2> QED BY <1>11, <1>12, <2>1, <2>2
  <1>14. Distinct(all)
    <2> SUFFICES ASSUME NEW i \in DOMAIN all, NEW j \in DOMAIN all, all[i] = all[j] PROVE i = j
      BY DEF Distinct
    <2>1. i \in Nat /\ j \in Nat
      BY <1>12
    <2>2. CASE i <= n /\ j <= n
      BY <1>3, <1>13, <2>2 DEF Distinct
    <2>3. CASE i > n /\ j > n
      <3>1. i - n = j - n
        BY <1>8, <1>11, <1>13, <2>1, <2>3 DEF Distinct
      <3> QED BY <1>11, <2>1, <3>1
    <2>4. CASE i <= n /\ j > n
      <3>1. all[i] \in ToSet(found) /\ all[j] \in new
        BY <1>11, <1>13, <2>1, <2>4 DEF ToSet
      <3> QED BY <1>6, <3>1
    <2>5. CASE i > n /\ j <= n
      <3>1. all[j] \in ToSet(found) /\ all[i] \in new
        BY <1>11, <1>13, <2>1, <2>5 DEF ToSet
      <3> QED BY <1>6, <3>1
    <2> QED BY <1>11, <2>1, <2>2, <2>3, <2>4, <2>5
  <1>15. \A i \in DOMAIN all : articles[all[i]] \notin ToSet(rows)
    BY <1>3, <1>6, <1>13
  <1>16. PICK t : /\ t = [pc |-> "anchors", rows |-> rows, wanted |-> wanted, todo |-> todo \ {anchor}, found |-> all]
                  /\ Turns(a, t)
    BY <1>4, <1>10
  <1>17. Listed(t, articles)
    BY <1>3, <1>12, <1>14, <1>15, <1>16 DEF Listed
  <1>18. Fit(t, DOMAIN symptoms, articles) /\ t.pc = "anchors"
    BY <1>16, <1>17 DEF Fit
  <1> QED BY <1>1, <1>16, <1>18, PlainStep DEF GraphArticles

\* The results of a source: each at its rank.
LEMMA ResultsAre ==
  ASSUME NEW type, NEW K, NEW ids \in Seq(K), Distinct(ids)
  PROVE  /\ IsFiniteSet(Results(type, ids))
         /\ \A r \in Results(type, ids) :
               r.type = type /\ r.rank \in Nat \ {0} /\ r.rank \in DOMAIN ids /\ r.id = ids[r.rank]
         /\ \A r, q \in Results(type, ids) : r.rank = q.rank \/ r.id = q.id => r = q
  <1>1. DOMAIN ids = 1..Len(ids) /\ Len(ids) \in Nat
    BY LenProperties
  <1>2. PICK f : f = [i \in DOMAIN ids |-> [type |-> type, id |-> ids[i], rank |-> i]]
    OBVIOUS
  <1>3. f \in Surjection(DOMAIN ids, Results(type, ids))
    BY <1>2 DEF Surjection, Results
  <1>4. IsFiniteSet(DOMAIN ids)
    BY <1>1, FS_Interval
  <1>5. IsFiniteSet(Results(type, ids))
    BY <1>3, <1>4, FS_Surjection
  <1>6. ASSUME NEW r \in Results(type, ids)
        PROVE  /\ r = [type |-> type, id |-> r.id, rank |-> r.rank]
               /\ r.rank \in Nat \ {0} /\ r.rank \in DOMAIN ids /\ r.id = ids[r.rank]
    BY <1>1 DEF Results
  <1>7. ASSUME NEW r \in Results(type, ids), NEW q \in Results(type, ids), r.rank = q.rank \/ r.id = q.id
        PROVE  r = q
    <2>1. r.rank = q.rank
      BY <1>6, <1>7 DEF Distinct
    <2> QED BY <1>6, <2>1
  <1> QED BY <1>5, <1>6, <1>7

\* Two sources whose ids differ, each with its ranks.
Ranked(S) ==
    /\ IsFiniteSet(S)
    /\ \A r \in S : r.type \in Types /\ r.rank \in Nat \ {0}
    /\ \A r, q \in S : r.type = q.type /\ (r.rank = q.rank \/ r.id = q.id) => r = q

LEMMA PlacesAre ==
  ASSUME NEW S, Ranked(S), NEW r \in S
  PROVE  Place(r, S) \in Nat \ {0} /\ IsFiniteSet({x \in S : Ahead(x, r)})
  <1>1. IsFiniteSet({x \in S : Ahead(x, r)})
    BY FS_Subset DEF Ranked
  <1>2. Cardinality({x \in S : Ahead(x, r)}) \in Nat
    BY <1>1, FS_CardinalityType
  <1> QED BY <1>1, <1>2 DEF Place

LEMMA AheadPlaces ==
  ASSUME NEW S, Ranked(S), NEW r \in S, NEW q \in S, Ahead(r, q)
  PROVE  Place(r, S) # Place(q, S)
  <1> DEFINE before(y) == {x \in S : Ahead(x, y)}
  <1>1. \A x \in S : x.rank \in Nat /\ x.type \in Types
    BY DEF Ranked
  <1>2. before(r) \in SUBSET before(q)
    BY <1>1 DEF Ahead, Types
  <1>3. r \in before(q) /\ r \notin before(r)
    BY <1>1 DEF Ahead
  <1>4. IsFiniteSet(before(q)) /\ IsFiniteSet(before(r))
    BY PlacesAre
  <1>5. Cardinality(before(r)) # Cardinality(before(q))
    BY <1>2, <1>3, <1>4, FS_Subset
  <1>6. PICK m, n : m = Cardinality(before(r)) /\ n = Cardinality(before(q)) /\ m \in Nat /\ n \in Nat
    BY <1>4, FS_CardinalityType
  <1>7. Place(r, S) = 1 + m /\ Place(q, S) = 1 + n
    BY <1>6 DEF Place
  <1> QED BY <1>5, <1>6, <1>7

LEMMA PlacesDiffer ==
  ASSUME NEW S, Ranked(S), NEW r \in S, NEW q \in S, Place(r, S) = Place(q, S)
  PROVE  r = q
  <1>1. ~Ahead(r, q) /\ ~Ahead(q, r)
    BY AheadPlaces
  <1>2. r.rank \in Nat /\ q.rank \in Nat /\ r.type \in Types /\ q.type \in Types
    BY DEF Ranked
  <1>3. r.rank = q.rank /\ r.type = q.type
    BY <1>1, <1>2 DEF Ahead, Types
  <1> QED BY <1>3 DEF Ranked

\* Only the first report is ahead of the first article.
LEMMA FirstArticleEarly ==
  ASSUME NEW S, Ranked(S), NEW first \in S, first.type = "kb", first.rank = 1
  PROVE  Place(first, S) <= 2
  <1> DEFINE before == {x \in S : Ahead(x, first)}
  <1>1. \A x \in before : x.rank = 1 /\ x.type = "report"
    BY DEF Ranked, Ahead
  <1>2. \A x, y \in before : x = y
    BY <1>1 DEF Ranked
  <1>3. IsFiniteSet(before)
    BY PlacesAre
  <1> HIDE DEF before
  <1>4. CASE before = {}
    <2>1. Cardinality(before) = 0
      BY <1>4, FS_EmptySet
    <2> QED BY <2>1 DEF Place, before
  <1>5. CASE before # {}
    <2>1. PICK x : before = {x}
      BY <1>2, <1>5
    <2>2. Cardinality(before) = 1
      BY <2>1, FS_Singleton
    <2> QED BY <2>2 DEF Place, before
  <1> QED BY <1>4, <1>5

LEMMA AnswerSearchKeeps ==
  ASSUME GraphInv, NEW a \in Agent, AnswerSearch(a)
  PROVE  GraphInv'
  <1>1. agent[a].pc = "anchors" /\ Fit(agent[a], DOMAIN symptoms, articles)
    BY DEF AnswerSearch, GraphInv, AgentsFit
  <1>2. PICK rows, found, wanted : rows = agent[a].rows /\ found = agent[a].found /\ wanted = agent[a].wanted
    OBVIOUS
  <1>3. /\ rows \in Seq(Case) /\ Distinct(rows) /\ found \in Seq(DOMAIN articles) /\ Distinct(found)
        /\ \A i \in DOMAIN found : articles[found[i]] \notin ToSet(rows)
    BY <1>1, <1>2 DEF Fit, Listed
  <1>4. PICK reports, kbs, S :
          /\ reports = (IF "report" \in wanted THEN Results("report", rows) ELSE {})
          /\ kbs = Results("kb", found) /\ S = reports \union kbs
    OBVIOUS
  <1>5. PICK t : t = [pc |-> "answered", rows |-> rows, results |-> RrfMerge(S)] /\ Turns(a, t)
    BY <1>2, <1>4 DEF AnswerSearch
  <1>6. /\ IsFiniteSet(reports) /\ \A r \in reports : r.type = "report" /\ r.rank \in Nat \ {0}
        /\ \A r, q \in reports : r.rank = q.rank \/ r.id = q.id => r = q
    <2>1. CASE "report" \in wanted
      BY <1>3, <1>4, <2>1, ResultsAre
    <2>2. CASE "report" \notin wanted
      BY <1>4, <2>2, FS_EmptySet
    <2> QED BY <2>1, <2>2
  <1>7. /\ IsFiniteSet(kbs)
        /\ \A r \in kbs : r.type = "kb" /\ r.rank \in Nat \ {0} /\ r.rank \in DOMAIN found /\ r.id = found[r.rank]
        /\ \A r, q \in kbs : r.rank = q.rank \/ r.id = q.id => r = q
    BY <1>3, <1>4, ResultsAre
  <1>8. Ranked(S)
    <2>1. IsFiniteSet(S)
      BY <1>4, <1>6, <1>7, FS_Union
    <2>2. \A r \in S : r.type \in Types /\ r.rank \in Nat \ {0}
      BY <1>4, <1>6, <1>7 DEF Types
    <2>3. \A r, q \in S : r.type = q.type /\ (r.rank = q.rank \/ r.id = q.id) => r = q
      BY <1>4, <1>6, <1>7
    <2> QED BY <2>1, <2>2, <2>3 DEF Ranked
  <1>9. ASSUME NEW x \in RrfMerge(S)
        PROVE  \E r \in S : /\ x = [type |-> r.type, id |-> r.id, place |-> Place(r, S)]
                            /\ Place(r, S) <= Limit
    BY DEF RrfMerge
  <1>10. \A r \in S : r.type = "kb" => r.id \in DOMAIN articles /\ articles[r.id] \notin ToSet(rows)
    <2>1. ASSUME NEW r \in S, r.type = "kb" PROVE r.id \in DOMAIN articles /\ articles[r.id] \notin ToSet(rows)
      <3>1. r \in kbs
        BY <1>4, <1>6, <2>1
      <3>2. r.rank \in DOMAIN found /\ r.id = found[r.rank]
        BY <1>7, <3>1
      <3> QED BY <1>3, <3>2, ElementOfSeq
    <2> QED BY <2>1
  <1>11. ASSUME NEW x \in RrfMerge(S), NEW y \in RrfMerge(S), x.place = y.place \/ (x.type = y.type /\ x.id = y.id)
         PROVE  x = y
    <2>1. PICK r \in S : x = [type |-> r.type, id |-> r.id, place |-> Place(r, S)]
      BY <1>9
    <2>2. PICK q \in S : y = [type |-> q.type, id |-> q.id, place |-> Place(q, S)]
      BY <1>9
    <2>3. r = q
      <3>1. CASE x.place = y.place
        BY <1>8, <2>1, <2>2, <3>1, PlacesDiffer
      <3>2. CASE x.type = y.type /\ x.id = y.id
        BY <1>8, <2>1, <2>2, <3>2 DEF Ranked
      <3> QED BY <1>11, <3>1, <3>2
    <2> QED BY <2>1, <2>2, <2>3
  <1>12. ASSUME NEW x \in RrfMerge(S)
         PROVE  /\ x.place \in 1..Limit
                /\ x.type = "kb" => x.id \in DOMAIN articles /\ articles[x.id] \notin ToSet(rows)
    <2>1. PICK r \in S : x = [type |-> r.type, id |-> r.id, place |-> Place(r, S)] /\ Place(r, S) <= Limit
      BY <1>9
    <2>2. PICK n \in Nat \ {0} : n = Place(r, S)
      BY <1>8, PlacesAre
    <2>3. x.place \in 1..Limit
      BY <2>1, <2>2, KnowledgeGraphAssumption
    <2> QED BY <1>10, <2>1, <2>3
  <1>13. ASSUME Limit >= 2, NEW x \in RrfMerge(S), x.type = "kb"
         PROVE  \E y \in RrfMerge(S) : y.type = "kb" /\ y.place <= 2
    <2>1. PICK r \in S : x = [type |-> r.type, id |-> r.id, place |-> Place(r, S)]
      BY <1>9
    <2>2. r \in kbs
      BY <1>4, <1>6, <1>13, <2>1
    <2>3. 1 \in DOMAIN found
      <3>1. r.rank \in DOMAIN found /\ r.rank \in Nat \ {0}
        BY <1>7, <2>2
      <3>2. DOMAIN found = 1..Len(found) /\ Len(found) \in Nat
        BY <1>3, LenProperties
      <3> QED BY <3>1, <3>2
    <2>4. PICK first : first = [type |-> "kb", id |-> found[1], rank |-> 1]
      OBVIOUS
    <2>5. first \in S /\ first.type = "kb" /\ first.rank = 1
      BY <1>4, <2>3, <2>4 DEF Results
    <2>6. PICK n \in Nat : n = Place(first, S) /\ n <= 2
      BY <1>8, <2>5, PlacesAre, FirstArticleEarly
    <2>7. PICK y : y = [type |-> "kb", id |-> first.id, place |-> n]
      OBVIOUS
    <2>8. y \in RrfMerge(S)
      <3>1. Place(first, S) <= Limit
        BY <1>13, <2>6, KnowledgeGraphAssumption
      <3> QED BY <2>5, <2>6, <2>7, <3>1 DEF RrfMerge
    <2> QED BY <2>6, <2>7, <2>8
  <1>14. Shown(t, articles)
    <2>1. t.results = RrfMerge(S) /\ t.rows = rows
      BY <1>5
    <2> QED BY <1>11, <1>12, <1>13, <2>1 DEF Shown
  <1>15. Fit(t, DOMAIN symptoms, articles) /\ t.pc = "answered"
    BY <1>5, <1>14 DEF Fit
  <1> QED BY <1>1, <1>5, <1>15, PlainStep DEF AnswerSearch

LEMMA EndSearchKeeps ==
  ASSUME GraphInv, NEW a \in Agent, EndSearch(a)
  PROVE  GraphInv'
  <1>1. PICK t : t = Resting /\ Turns(a, t)
    BY DEF EndSearch
  <1>2. Fit(t, DOMAIN symptoms, articles) /\ t.pc = "resting"
    BY <1>1 DEF Fit, Resting
  <1> QED BY <1>1, <1>2, PlainStep DEF EndSearch

-----------------------------------------------------------------------------
(***************************************************************************)
(* The search.                                                             *)
(***************************************************************************)
LEMMA GraphInvStep == GraphInv /\ [GraphNext]_graphVars => GraphInv'
  <1> SUFFICES ASSUME GraphInv, [GraphNext]_graphVars PROVE GraphInv'
    OBVIOUS
  <1>1. CASE UNCHANGED graphVars
    <2>1. UNCHANGED <<symptoms, class, articles, graph, agent, traces>>
      BY <1>1 DEF graphVars
    <2>2. \A k : CallFor("article", k)' = CallFor("article", k) /\ CallFor("symptom", k)' = CallFor("symptom", k)
                 /\ CallFor("solves", k)' = CallFor("solves", k) /\ Solvable(k)' = Solvable(k)
                 /\ Edge(k)' = Edge(k) /\ SymptomOf(articles[k])' = SymptomOf(articles[k])
      BY <2>1, CallsStay
    <2>3. GraphTypes'
      BY <2>1 DEF GraphInv, GraphTypes
    <2>4. AgentsFit'
      BY <2>1 DEF GraphInv, AgentsFit, Fit, Listed, Shown
    <2>5. MergesAreOrderly'
      BY <2>1 DEF GraphInv, MergesAreOrderly, Merging, Orderly
    <2>6. SyncsAreExact' /\ GraphIsFresh'
      BY <2>1, <2>2 DEF GraphInv, SyncsAreExact, GraphIsFresh, Node
    <2> QED BY <2>3, <2>4, <2>5, <2>6 DEF GraphInv
  <1>2. CASE GraphNext
    <2>1. PICK a \in Agent :
            \/ \E c \in Case : StartArticle(a, c) \/ \E n \in Name : StartClassify(a, c, n)
            \/ UpsertSymptom(a) \/ InsertSymptom(a) \/ CountOccurrence(a) \/ WriteSymptom(a)
            \/ StartMerge(a) \/ MergeRow(a) \/ Repoint(a) \/ EndMerge(a)
            \/ AddArticle(a) \/ StartGraphSync(a) \/ ReadArticles(a) \/ SyncCall(a) \/ EndSync(a)
            \/ StartSearch(a) \/ CasesByIDs(a) \/ GraphArticles(a) \/ AnswerSearch(a) \/ EndSearch(a)
            \/ Fails(a)
      BY <1>2 DEF GraphNext
    <2>2. CASE \E c \in Case : StartArticle(a, c) \/ \E n \in Name : StartClassify(a, c, n)
      BY <2>2, StartArticleKeeps, StartClassifyKeeps
    <2>3. CASE UpsertSymptom(a) \/ InsertSymptom(a) \/ CountOccurrence(a) \/ WriteSymptom(a)
      BY <2>3, UpsertSymptomKeeps, InsertSymptomKeeps, CountOccurrenceKeeps, WriteSymptomKeeps
    <2>4. CASE StartMerge(a) \/ MergeRow(a) \/ Repoint(a) \/ EndMerge(a)
      BY <2>4, StartMergeKeeps, MergeRowKeeps, RepointKeeps, EndMergeKeeps
    <2>5. CASE AddArticle(a) \/ StartGraphSync(a) \/ ReadArticles(a) \/ SyncCall(a) \/ EndSync(a)
      BY <2>5, AddArticleKeeps, StartGraphSyncKeeps, ReadArticlesKeeps, SyncCallKeeps, EndSyncKeeps
    <2>6. CASE StartSearch(a) \/ CasesByIDs(a) \/ GraphArticles(a) \/ AnswerSearch(a) \/ EndSearch(a)
      BY <2>6, StartSearchKeeps, CasesByIDsKeeps, GraphArticlesKeeps, AnswerSearchKeeps, EndSearchKeeps
    <2> QED BY <2>1, <2>2, <2>3, <2>4, <2>5, <2>6, FailsKeeps
  <1> QED BY <1>1, <1>2

LEMMA GraphInvHolds == GraphSpec => []GraphInv
  <1>1. GraphInit => GraphInv
    BY GraphInvInit
  <1>2. GraphInv /\ [GraphNext]_graphVars => GraphInv'
    BY GraphInvStep
  <1> QED BY <1>1, <1>2, PTL DEF GraphSpec

(***************************************************************************)
(* SetCanonical, graphsync and rrfMerge, for any names however alike, any  *)
(* number of goroutines and articles, every limit and whatever breaks off: *)
(* merges that ran alone leave one step to every canonical symptom, a sync *)
(* that read every article leaves every edge that a search follows, and a  *)
(* search lists nothing twice.                                             *)
(***************************************************************************)
THEOREM SearchesAreSound == GraphSpec => []SearchIsSound
  <1>1. GraphInv => SearchIsSound
    <2> SUFFICES ASSUME GraphInv PROVE SearchIsSound
      OBVIOUS
    <2>1. MergedIsFlat
      BY DEF GraphInv, MergesAreOrderly, MergedIsFlat
    <2>2. SyncedIsFound
      BY DEF GraphInv, GraphIsFresh, SyncedIsFound, Solving, Solvable, Edge
    <2>3. ResultsAreDistinct
      <3> SUFFICES ASSUME NEW a \in Agent, agent[a].pc = "answered" PROVE
            /\ \A r, q \in agent[a].results : r.place = q.place \/ (r.type = q.type /\ r.id = q.id) => r = q
            /\ \A r \in agent[a].results : r.place \in 1..Limit
            /\ \A r \in agent[a].results : r.type = "kb" => articles[r.id] \notin ToSet(agent[a].rows)
            /\ Limit >= 2 /\ (\E r \in agent[a].results : r.type = "kb") =>
                  \E r \in agent[a].results : r.type = "kb" /\ r.place <= 2
        BY DEF ResultsAreDistinct
      <3>1. Shown(agent[a], articles)
        BY DEF GraphInv, AgentsFit, Fit
      <3> QED BY <3>1 DEF Shown
    <2> QED BY <2>1, <2>2, <2>3 DEF SearchIsSound
  <1> QED BY <1>1, GraphInvHolds, PTL

\* The tables of the graph have the types they are given.
THEOREM GraphTypeCorrect == GraphSpec => []GraphTypeOK
  <1>1. GraphInv => GraphTypeOK
    <2> SUFFICES ASSUME GraphInv PROVE GraphTypeOK
      OBVIOUS
    <2>1. /\ Len(symptoms) \in Nat /\ DOMAIN symptoms = 1..Len(symptoms)
          /\ \A s \in DOMAIN symptoms : symptoms[s].name \in Name /\ symptoms[s].count \in Nat
      BY SymptomsAre DEF GraphInv
    <2>2. 0..Len(symptoms) = {0} \union DOMAIN symptoms
      BY <2>1
    <2> QED BY <2>1, <2>2 DEF GraphInv, GraphTypes, GraphTypeOK
  <1> QED BY <1>1, GraphInvHolds, PTL

-----------------------------------------------------------------------------
(***************************************************************************)
(* The replies: their types.  A pass has finitely many candidates, and no  *)
(* more than a reply cites once they are chosen; the pass a second one can *)
(* fall back on has chosen its own.                                        *)
(***************************************************************************)
Candidate == [by : Retrievers \union {"graph", "parent"}, article : Article,
              chunk : Chunk \union {0}, parent : Nat]
Decisions == {"auto", "draft", "escalate"}
Action == [company : Tenant, decision : Decisions,
           shown : {"draft", "handover", "acknowledgement", "evidence"}, feedback : Verdicts \union {"none"}]

Few(cands) == Cardinality(cands) <= MaxCandidates

Lasting(p, rows) ==
    /\ Fields \subseteq DOMAIN p
    /\ p.cands \subseteq Candidate /\ IsFiniteSet(p.cands)
    /\ p.pass \in 0..2 /\ p.confidence \in 0..3 /\ p.decision \in Decisions
    /\ p.gap \in {0} \union rows

\* Of a pass whose candidates need not be chosen yet.
Kept(p, rows) ==
    /\ Lasting(p, rows)
    /\ p.pass = 2 => Lasting(p.first, rows) /\ Few(p.first.cands) /\ p.first.pass = 1

PassTyped(p, rows) ==
    /\ Kept(p, rows)
    /\ p.pc \notin Early \union {"rerank"} => Few(p.cands)

PassesTyped == \A c \in Clerk : passes[c] # NoPass => PassTyped(passes[c], DOMAIN gaps)

ReplyTyped ==
    /\ raced \subseteq 1..MaxWindow
    /\ \A i \in DOMAIN gaps : gaps[i].count # 0
    /\ actions \in Seq(Action)
    /\ PassesTyped

-----------------------------------------------------------------------------
(***************************************************************************)
(* What is found is finite.                                                *)
(***************************************************************************)
LEMMA ImageIsFinite ==
  ASSUME NEW S, IsFiniteSet(S), NEW f, DOMAIN f = S, f = [x \in S |-> f[x]]
  PROVE  IsFiniteSet({f[x] : x \in S})
  <1>1. PICK T : T = {f[x] : x \in S}
    OBVIOUS
  <1>2. f \in Surjection(S, T)
    BY <1>1 DEF Surjection
  <1> QED BY <1>1, <1>2, FS_Surjection

Found(cands) == cands \subseteq Candidate /\ IsFiniteSet(cands)

LEMMA ChunkIs ==
  ASSUME NEW ch \in Chunk
  PROVE  ch \in Nat /\ ch # 0 /\ ArticleOf[ch] \in Article /\ ParentOf[ch] \in Nat
  BY ReplyAssumption

LEMMA SearchFound ==
  ASSUME published \subseteq Article, NEW q
  PROVE  Found(Search(q))
  <1>1. PICK S : S = {b \in published : CompanyFilter(b) /\ \E ch \in Matches[q] : ArticleOf[ch] = b}
    OBVIOUS
  <1>2. PICK f : f = [a \in S |-> Cand("knowledge", a, 0, 0)]
    OBVIOUS
  <1>3. IsFiniteSet(S) /\ S \subseteq Article
    BY <1>1, ReplyAssumption, FS_Subset
  <1>4. Search(q) = {f[a] : a \in S}
    BY <1>1, <1>2 DEF Search
  <1>5. IsFiniteSet(Search(q))
    BY <1>2, <1>3, <1>4, ImageIsFinite
  <1>6. \A a \in Article : Cand("knowledge", a, 0, 0) \in Candidate
    BY DEF Cand, Candidate, Retrievers
  <1> QED BY <1>2, <1>3, <1>4, <1>5, <1>6 DEF Found

\* Whatever finds chunks of the table.
LEMMA ChunksFound ==
  ASSUME NEW S \in SUBSET Chunk, NEW by \in Retrievers
  PROVE  Found({Cand(by, ArticleOf[ch], ch, 0) : ch \in S})
  <1>1. PICK f : f = [ch \in S |-> Cand(by, ArticleOf[ch], ch, 0)]
    OBVIOUS
  <1>2. IsFiniteSet(S)
    BY ReplyAssumption, FS_Subset
  <1>3. {Cand(by, ArticleOf[ch], ch, 0) : ch \in S} = {f[ch] : ch \in S}
    BY <1>1
  <1>4. IsFiniteSet({f[ch] : ch \in S})
    BY <1>1, <1>2, ImageIsFinite
  <1>5. \A ch \in S : Cand(by, ArticleOf[ch], ch, 0) \in Candidate
    BY ChunkIs DEF Cand, Candidate
  <1> QED BY <1>3, <1>4, <1>5 DEF Found

LEMMA RetrievedFound ==
  ASSUME published \subseteq Article, NEW q \in Question
  PROVE  Found(Search(q)) /\ Found(SearchChunks(q)) /\ Found(ChunksByIDs(q))
  <1>1. Found(SearchChunks(q))
    <2>1. PICK S : S = {d \in Matches[q] : CompanyFilter(ArticleOf[d])}
      OBVIOUS
    <2>2. S \in SUBSET Chunk
      BY <2>1, ReplyAssumption
    <2>3. PICK by \in Retrievers : by = "fts"
      BY DEF Retrievers
    <2>4. SearchChunks(q) = {Cand(by, ArticleOf[ch], ch, 0) : ch \in S}
      BY <2>1, <2>3 DEF SearchChunks
    <2> QED BY <2>2, <2>4, ChunksFound
  <1>2. Found(ChunksByIDs(q))
    <2>1. PICK S : S = {d \in VectorHits : CompanyFilter(ArticleOf[d]) /\ ArticleOf[d] \in published}
      OBVIOUS
    <2>2. S \in SUBSET Chunk
      BY <2>1, ReplyAssumption DEF VectorHits
    <2>3. PICK by \in Retrievers : by = "vector"
      BY DEF Retrievers
    <2>4. ChunksByIDs(q) = {Cand(by, ArticleOf[ch], ch, 0) : ch \in S}
      BY <2>1, <2>3 DEF ChunksByIDs
    <2> QED BY <2>2, <2>4, ChunksFound
  <1> QED BY <1>1, <1>2, SearchFound

LEMMA FoundPart ==
  ASSUME NEW S, Found(S), NEW T \in SUBSET S
  PROVE  Found(T)
  BY FS_Subset DEF Found

LEMMA FoundBoth ==
  ASSUME NEW S, Found(S), NEW T, Found(T)
  PROVE  Found(S \union T)
  BY FS_Union DEF Found

LEMMA GraphFound ==
  ASSUME NEW p
  PROVE  Found(RetrieveGraph(p))
  <1>1. PICK f : f = [a \in ForSymptom |-> Cand("graph", a, 0, 0)]
    OBVIOUS
  <1>2. IsFiniteSet(ForSymptom) /\ ForSymptom \subseteq Article
    BY ReplyAssumption, FS_Subset DEF ForSymptom
  <1>3. IsFiniteSet({f[a] : a \in ForSymptom})
    BY <1>1, <1>2, ImageIsFinite
  <1>4. {Cand("graph", a, 0, 0) : a \in ForSymptom} = {f[a] : a \in ForSymptom}
    BY <1>1
  <1>5. \A a \in Article : Cand("graph", a, 0, 0) \in Candidate
    BY DEF Cand, Candidate
  <1>6. Found({Cand("graph", a, 0, 0) : a \in ForSymptom})
    BY <1>2, <1>3, <1>4, <1>5 DEF Found
  <1>7. Found({})
    BY FS_EmptySet DEF Found
  <1> QED BY <1>6, <1>7 DEF RetrieveGraph

LEMMA CandidatesFound ==
  ASSUME published \subseteq Article, NEW p, p.question \in Question, NEW up, up \subseteq Retrievers
  PROVE  Found(RetrieveCandidates(p, up))
  <1>1. PICK all : all = Search(p.question) \union SearchChunks(p.question) \union ChunksByIDs(p.question)
    OBVIOUS
  <1>2. Found(all)
    BY <1>1, RetrievedFound, FoundBoth
  <1>3. \A S : S \subseteq Retrievers => From(p.question, S) \subseteq all
    BY <1>1 DEF From, Retrieved, Retrievers
  <1>4. RetrieveCandidates(p, up) \subseteq all
    BY <1>3 DEF RetrieveCandidates
  <1> QED BY <1>2, <1>4, FoundPart

LEMMA ParentsFound ==
  ASSUME NEW S, Found(S)
  PROVE  Found({ParentChunk(d) : d \in S})
  <1>1. PICK f : f = [d \in S |-> ParentChunk(d)]
    OBVIOUS
  <1>2. IsFiniteSet({f[d] : d \in S})
    BY <1>1, ImageIsFinite DEF Found
  <1>3. {ParentChunk(d) : d \in S} = {f[d] : d \in S}
    BY <1>1
  <1>4. ASSUME NEW d \in S
        PROVE  ParentChunk(d) \in Candidate
    <2>1. d \in Candidate
      BY DEF Found
    <2>2. CASE HasContext(d)
      <3>1. d.chunk \in Chunk /\ d.article \in Article
        BY <2>1, <2>2 DEF HasContext, Candidate
      <3>2. PICK parent \in Nat : parent = IF ParentOf[d.chunk] = 0 THEN d.chunk ELSE ParentOf[d.chunk]
        BY <3>1, ChunkIs
      <3> QED BY <2>2, <3>1, <3>2 DEF ParentChunk, Cand, Candidate
    <2>3. CASE ~HasContext(d)
      BY <2>1, <2>3 DEF ParentChunk
    <2> QED BY <2>2, <2>3
  <1> QED BY <1>2, <1>3, <1>4 DEF Found

-----------------------------------------------------------------------------
(***************************************************************************)
(* What becomes of a pass at each stage keeps its type.                    *)
(***************************************************************************)

\* The stage changes neither the pass nor the row it noted.
Stays(p, q) == DOMAIN q = DOMAIN p /\ q.pass = p.pass /\ q.first = p.first /\ q.gap = p.gap

LEMMA KeptStays ==
  ASSUME NEW p, NEW q, NEW rows, Kept(p, rows), Stays(p, q), q.cands \subseteq p.cands,
         q.confidence \in 0..3, q.decision \in Decisions
  PROVE  Kept(q, rows)
  <1>1. IsFiniteSet(q.cands)
    BY FS_Subset DEF Kept, Lasting
  <1> QED BY <1>1 DEF Kept, Lasting, Stays

\* As it does when only the stage changes, or what its type does not say.
Unmoved(p, q) == Stays(p, q) /\ q.cands = p.cands /\ q.confidence = p.confidence /\ q.decision = p.decision

LEMMA KeptUnmoved ==
  ASSUME NEW p, NEW q, NEW rows, Kept(p, rows), Unmoved(p, q)
  PROVE  Kept(q, rows)
  BY KeptStays DEF Unmoved, Kept, Lasting

LEMMA SettleTyped ==
  ASSUME NEW p, NEW rows, Kept(p, rows), Few(p.cands), NEW q \in Settle(p)
  PROVE  PassTyped(q, rows)
  <1>0. Fields \subseteq DOMAIN p /\ p.decision \in Decisions /\ p.confidence \in 0..3
    BY DEF Kept, Lasting
  <1>1. PICK s : s = [p EXCEPT !.decision = IF @ = "auto" /\ ~p.draft THEN "escalate" ELSE @]
    OBVIOUS
  <1>2. /\ Stays(p, s) /\ s.cands = p.cands /\ s.confidence = p.confidence
        /\ s.decision \in {p.decision, "escalate"}
    BY <1>0, <1>1 DEF Stays, Fields
  <1>3. Kept(s, rows)
    BY <1>0, <1>2, KeptStays DEF Decisions
  <1>4. PICK pc : q = [s EXCEPT !.pc = pc]
    BY <1>1 DEF Settle
  <1>5. Unmoved(s, q)
    BY <1>0, <1>2, <1>4 DEF Unmoved, Stays, Fields
  <1>6. Kept(q, rows)
    BY <1>3, <1>5, KeptUnmoved
  <1> QED BY <1>2, <1>5, <1>6 DEF PassTyped, Unmoved

LEMMA ToCritiqueTyped ==
  ASSUME NEW p, NEW rows, Kept(p, rows), Few(p.cands), NEW q \in ToCritique(p)
  PROVE  PassTyped(q, rows)
  <1>1. CASE ShouldRunCritic(p)
    <2>1. q = [p EXCEPT !.pc = "critique"]
      BY <1>1 DEF ToCritique
    <2>2. Unmoved(p, q)
      BY <2>1 DEF Kept, Lasting, Unmoved, Stays, Fields
    <2>3. Kept(q, rows)
      BY <2>2, KeptUnmoved
    <2> QED BY <2>2, <2>3 DEF PassTyped, Unmoved
  <1>2. CASE ~ShouldRunCritic(p)
    BY <1>2, SettleTyped DEF ToCritique
  <1> QED BY <1>1, <1>2

LEMMA ToDraftTyped ==
  ASSUME NEW p, NEW rows, Kept(p, rows), Few(p.cands), NEW q \in ToDraft(p)
  PROVE  PassTyped(q, rows)
  <1>1. CASE WillGenerate(p)
    <2>1. q = [p EXCEPT !.pc = "draft"]
      BY <1>1 DEF ToDraft
    <2>2. Unmoved(p, q)
      BY <2>1 DEF Kept, Lasting, Unmoved, Stays, Fields
    <2>3. Kept(q, rows)
      BY <2>2, KeptUnmoved
    <2> QED BY <2>2, <2>3 DEF PassTyped, Unmoved
  <1>2. CASE ~WillGenerate(p)
    BY <1>2, ToCritiqueTyped DEF ToDraft
  <1> QED BY <1>1, <1>2

GradeIs(grade) == grade.verdict \in {"relevant", "partial", "irrelevant"} /\ grade.confidence \in 0..3

LEMMA EvaluateTyped ==
  ASSUME NEW p, NEW rows, Kept(p, rows), Few(p.cands), NEW grade, GradeIs(grade), NEW graded,
         NEW q \in Evaluate(p, grade, graded)
  PROVE  PassTyped(q, rows)
  <1>0. Fields \subseteq DOMAIN p
    BY DEF Kept, Lasting
  <1>1. PICK n \in 0..3 : n = ComputeConfidence(p, grade)
    BY DEF ComputeConfidence, GradeIs
  <1>2. PICK decision \in Decisions : decision = DecisionFor(n, p.threshold, graded)
    BY DEF DecisionFor, RouteDecision, Decisions
  <1>3. PICK e : e = [p EXCEPT !.verdict = grade.verdict, !.graded = graded, !.confidence = n,
                               !.decision = decision]
    OBVIOUS
  <1>4. Stays(p, e) /\ e.cands = p.cands /\ e.confidence = n /\ e.decision = decision
    BY <1>0, <1>3 DEF Stays, Fields
  <1>5. Kept(e, rows)
    BY <1>4, KeptStays
  <1>6. q \in IF NeedsGap(e) THEN {[e EXCEPT !.pc = "gap"]} ELSE ToDraft(e)
    BY <1>1, <1>2, <1>3 DEF Evaluate
  <1>7. CASE NeedsGap(e)
    <2>1. q = [e EXCEPT !.pc = "gap"]
      BY <1>6, <1>7
    <2>2. Unmoved(e, q)
      BY <1>0, <1>4, <2>1 DEF Unmoved, Stays, Fields
    <2>3. Kept(q, rows)
      BY <1>5, <2>2, KeptUnmoved
    <2> QED BY <1>4, <2>2, <2>3 DEF PassTyped, Unmoved
  <1>8. CASE ~NeedsGap(e)
    BY <1>4, <1>5, <1>6, <1>8, ToDraftTyped
  <1> QED BY <1>7, <1>8

LEMMA UngradedIs == GradeIs(Ungraded)
  BY DEF GradeIs, Ungraded

LEMMA ToGradeTyped ==
  ASSUME NEW p, NEW rows, Kept(p, rows), Few(p.cands), NEW q \in ToGrade(p)
  PROVE  PassTyped(q, rows)
  <1>1. CASE Fast(p) /\ p.cands = {}
    <2>1. PICK grade, graded : grade = Ungraded /\ graded = FALSE
      OBVIOUS
    <2>2. q \in Evaluate(p, grade, graded) /\ GradeIs(grade)
      BY <1>1, <2>1, UngradedIs DEF ToGrade
    <2> QED BY <2>2, EvaluateTyped
  <1>2. CASE ~(Fast(p) /\ p.cands = {})
    <2>1. q = [p EXCEPT !.pc = "grade"]
      BY <1>2 DEF ToGrade
    <2>2. Unmoved(p, q)
      BY <2>1 DEF Kept, Lasting, Unmoved, Stays, Fields
    <2>3. Kept(q, rows)
      BY <2>2, KeptUnmoved
    <2> QED BY <2>2, <2>3 DEF PassTyped, Unmoved
  <1> QED BY <1>1, <1>2

LEMMA CutTyped ==
  ASSUME NEW p, NEW rows, Kept(p, rows), NEW q \in Cut(p)
  PROVE  PassTyped(q, rows)
  <1>0. Fields \subseteq DOMAIN p /\ IsFiniteSet(p.cands) /\ p.confidence \in 0..3 /\ p.decision \in Decisions
    BY DEF Kept, Lasting
  <1>1. PICK S \in IF Cardinality(p.cands) > MaxCandidates THEN kSubset(MaxCandidates, p.cands)
                   ELSE {p.cands} : q \in ToGrade([p EXCEPT !.cands = S])
    BY DEF Cut
  <1>2. S \subseteq p.cands /\ Few(S)
    <2>1. Cardinality(p.cands) \in Nat /\ MaxCandidates \in Nat
      BY <1>0, FS_CardinalityType, ReplyAssumption
    <2> QED BY <1>1, <2>1 DEF kSubset, Few
  <1>3. PICK r : r = [p EXCEPT !.cands = S]
    OBVIOUS
  <1>4. Stays(p, r) /\ r.cands = S /\ r.confidence = p.confidence /\ r.decision = p.decision
    BY <1>0, <1>3 DEF Stays, Fields
  <1>5. Kept(r, rows)
    BY <1>0, <1>2, <1>4, KeptStays
  <1> QED BY <1>1, <1>2, <1>3, <1>4, <1>5, ToGradeTyped

LEMMA ToRerankTyped ==
  ASSUME NEW p, NEW rows, Kept(p, rows), NEW q \in ToRerank(p)
  PROVE  PassTyped(q, rows)
  <1>1. CASE Fast(p)
    BY <1>1, CutTyped DEF ToRerank
  <1>2. CASE ~Fast(p)
    <2>1. q = [p EXCEPT !.pc = "rerank"]
      BY <1>2 DEF ToRerank
    <2>2. Unmoved(p, q) /\ q.pc = "rerank"
      BY <2>1 DEF Kept, Lasting, Unmoved, Stays, Fields
    <2>3. Kept(q, rows)
      BY <2>2, KeptUnmoved
    <2> QED BY <2>2, <2>3 DEF PassTyped
  <1> QED BY <1>1, <1>2

LEMMA CritiqueTyped ==
  ASSUME NEW p, NEW rows, Kept(p, rows), Few(p.cands), NEW send, NEW q \in Critique(p, send)
  PROVE  PassTyped(q, rows)
  <1>0. Fields \subseteq DOMAIN p /\ p.decision \in Decisions /\ p.confidence \in 0..3
    BY DEF Kept, Lasting
  <1>1. PICK s : s = [p EXCEPT !.sent = send, !.decision = IF send THEN @ ELSE "draft"]
    OBVIOUS
  <1>2. /\ Stays(p, s) /\ s.cands = p.cands /\ s.confidence = p.confidence
        /\ s.decision \in {p.decision, "draft"}
    BY <1>0, <1>1 DEF Stays, Fields
  <1>3. Kept(s, rows)
    BY <1>0, <1>2, KeptStays DEF Decisions
  <1>4. q \in Settle(s)
    BY <1>1 DEF Critique
  <1> QED BY <1>2, <1>3, <1>4, SettleTyped

\* A stage that chooses the candidates or follows when they are chosen.
LEMMA WithoutTyped ==
  ASSUME NEW p, NEW rows, PassTyped(p, rows), p.pc \in Stages, NEW q \in Without(p)
  PROVE  PassTyped(q, rows)
  <1>0. Kept(p, rows) /\ (p.pc # "rerank" => Few(p.cands))
    BY DEF PassTyped, Stages, Early
  <1>1. CASE p.pc = "rerank"
    BY <1>0, <1>1, CutTyped DEF Without
  <1>2. CASE p.pc = "grade"
    <2>1. PICK grade, graded : grade = Ungraded /\ graded = FALSE
      OBVIOUS
    <2>2. q \in Evaluate(p, grade, graded) /\ GradeIs(grade)
      BY <1>2, <2>1, UngradedIs DEF Without
    <2> QED BY <1>0, <1>2, <2>2, EvaluateTyped
  <1>3. CASE p.pc = "draft"
    BY <1>0, <1>3, ToCritiqueTyped DEF Without
  <1>4. CASE p.pc = "critique"
    <2>1. PICK send : q \in Critique(p, send)
      BY <1>4 DEF Without
    <2> QED BY <1>0, <1>4, <2>1, CritiqueTyped
  <1> QED BY <1>1, <1>2, <1>3, <1>4 DEF Stages

LEMMA AnsweredTyped ==
  ASSUME NEW p, NEW rows, PassTyped(p, rows), p.pc \in Stages, NEW q \in Answered(p)
  PROVE  PassTyped(q, rows)
  <1>0. Kept(p, rows) /\ (p.pc # "rerank" => Few(p.cands)) /\ Fields \subseteq DOMAIN p
    BY DEF PassTyped, Stages, Early, Kept, Lasting
  <1>1. CASE p.pc = "rerank"
    BY <1>0, <1>1, CutTyped DEF Answered
  <1>2. CASE p.pc = "grade"
    <2>1. PICK g \in Grades : q \in Evaluate(p, g, TRUE)
      BY <1>2 DEF Answered, Grade
    <2>2. PICK graded : graded = TRUE
      OBVIOUS
    <2>3. GradeIs(g)
      BY ReplyAssumption DEF GradeIs
    <2> QED BY <1>0, <1>2, <2>1, <2>2, <2>3, EvaluateTyped
  <1>3. CASE p.pc = "draft"
    <2>1. PICK d \in BOOLEAN : q \in ToCritique([p EXCEPT !.draft = d])
      BY <1>3 DEF Answered, Generate
    <2>2. PICK s : s = [p EXCEPT !.draft = d]
      OBVIOUS
    <2>3. Unmoved(p, s)
      BY <1>0, <2>2 DEF Unmoved, Stays, Fields
    <2>4. Kept(s, rows) /\ Few(s.cands)
      BY <1>0, <1>3, <2>3, KeptUnmoved DEF Unmoved
    <2> QED BY <2>1, <2>2, <2>4, ToCritiqueTyped
  <1>4. CASE p.pc = "critique"
    <2>1. PICK send : q \in Critique(p, send)
      BY <1>4 DEF Answered, Criticise
    <2> QED BY <1>0, <1>4, <2>1, CritiqueTyped
  <1> QED BY <1>1, <1>2, <1>3, <1>4 DEF Stages

\* A pass that falls back on the first one is a first one.
LEMMA FailTyped ==
  ASSUME NEW p, NEW rows, Kept(p, rows)
  PROVE  Fail(p) = NoPass \/ PassTyped(Fail(p), rows)
  <1>1. CASE p.pass = 2
    <2>1. PICK first, q : first = p.first /\ q = Fail(p)
      OBVIOUS
    <2>2. Lasting(first, rows) /\ Few(first.cands) /\ first.pass = 1
      BY <1>1, <2>1 DEF Kept
    <2>3. q = [first EXCEPT !.pc = "respond", !.kept = TRUE, !.late = p.late]
      BY <1>1, <2>1 DEF Fail
    <2>4. Unmoved(first, q)
      BY <2>2, <2>3 DEF Lasting, Unmoved, Stays, Fields
    <2>5. Kept(first, rows)
      BY <2>2 DEF Kept
    <2>6. Kept(q, rows)
      BY <2>4, <2>5, KeptUnmoved
    <2> QED BY <2>1, <2>2, <2>4, <2>6 DEF PassTyped, Unmoved
  <1>2. CASE p.pass # 2
    BY <1>2 DEF Fail
  <1> QED BY <1>1, <1>2

-----------------------------------------------------------------------------
(***************************************************************************)
(* The steps.                                                              *)
(***************************************************************************)
LEMMA TypedStays ==
  ASSUME NEW p, NEW rows, NEW more, PassTyped(p, rows), rows \subseteq more
  PROVE  PassTyped(p, more)
  BY DEF PassTyped, Kept, Lasting

LEMMA OneTyped ==
  ASSUME ReplyInv, PassesTyped, NEW c \in Clerk, NEW n, passes' = [passes EXCEPT ![c] = n],
         DOMAIN gaps \subseteq DOMAIN gaps', n # NoPass => PassTyped(n, DOMAIN gaps')
  PROVE  PassesTyped'
  <1> SUFFICES ASSUME NEW d \in Clerk, passes'[d] # NoPass
               PROVE  PassTyped(passes'[d], DOMAIN gaps')
    BY DEF PassesTyped
  <1>1. DOMAIN passes = Clerk
    BY DEF ReplyInv, ReplyTypes
  <1>2. CASE d = c
    BY <1>1, <1>2
  <1>3. CASE d # c
    <2>1. passes'[d] = passes[d] /\ PassTyped(passes[d], DOMAIN gaps)
      BY <1>1, <1>3 DEF PassesTyped
    <2> QED BY <2>1, TypedStays
  <1> QED BY <1>2, <1>3

LEMMA QuietTyped ==
  ASSUME ReplyInv, ReplyTyped, NEW c \in Clerk, NEW n, passes' = [passes EXCEPT ![c] = n],
         UNCHANGED <<gaps, raced, actions>>, n # NoPass => PassTyped(n, DOMAIN gaps)
  PROVE  ReplyTyped'
  <1>1. PassesTyped'
    BY OneTyped DEF ReplyTyped
  <1> QED BY <1>1 DEF ReplyTyped

\* What is known of the pass of a clerk that is busy.
LEMMA BusyTyped ==
  ASSUME ReplyInv, ReplyTyped, NEW c \in Clerk, passes[c] # NoPass
  PROVE  /\ PassTyped(passes[c], DOMAIN gaps) /\ Kept(passes[c], DOMAIN gaps)
         /\ Fields \subseteq DOMAIN passes[c] /\ Good(passes[c], gaps, published)
  BY DEF ReplyTyped, PassesTyped, PassTyped, Kept, Lasting, ReplyInv, PassesAreGood

LEMMA BusyAt ==
  ASSUME NEW c \in Clerk, NEW pc \in Pcs, On(c, pc)
  PROVE  passes[c] # NoPass
  BY DEF On, NoPass, Pcs, Early, Stages, Ended

LEMMA BeginTyped ==
  ASSUME NEW request, NEW number \in 0..2, NEW first, NEW rows,
         number = 2 => Lasting(first, rows) /\ Few(first.cands) /\ first.pass = 1,
         NEW n, n = Begin(request, number, first)
  PROVE  PassTyped(n, rows)
  <1>1. /\ Fields \subseteq DOMAIN n
        /\ n.pc = "retrieve" /\ n.pass = number /\ n.first = first /\ n.cands = {}
        /\ n.confidence = 0 /\ n.decision = "escalate" /\ n.gap = 0
    BY DEF Begin, Fields
  <1> QED BY <1>1, FS_EmptySet DEF PassTyped, Kept, Lasting, Decisions, Early

LEMMA RequestReplyTypes ==
  ASSUME ReplyInv, ReplyTyped, NEW c \in Clerk, RequestReply(c)
  PROVE  ReplyTyped'
  <1>1. PICK q \in requests :
           passes' = [passes EXCEPT ![c] = IF q.mode = "" /\ DefaultMode = "fast_draft"
                                            THEN Begin([q EXCEPT !.mode = DefaultMode], 1, NoPass)
                                            ELSE Begin(q, 0, NoPass)]
    BY DEF RequestReply, Set
  <1>2. PICK r : r = [q EXCEPT !.mode = DefaultMode]
    OBVIOUS
  <1>3. PICK m, k : m = Begin(r, 1, NoPass) /\ k = Begin(q, 0, NoPass)
    OBVIOUS
  <1>4. PassTyped(m, DOMAIN gaps) /\ PassTyped(k, DOMAIN gaps)
    BY <1>3, BeginTyped
  <1>5. passes' = [passes EXCEPT ![c] = m] \/ passes' = [passes EXCEPT ![c] = k]
    BY <1>1, <1>2, <1>3
  <1> QED BY <1>4, <1>5, QuietTyped DEF RequestReply, shared

LEMMA RetrieveTypes ==
  ASSUME ReplyInv, ReplyTyped, NEW c \in Clerk, Retrieve(c)
  PROVE  ReplyTyped'
  <1>0. PICK p : p = passes[c]
    OBVIOUS
  <1>1. Kept(p, DOMAIN gaps) /\ Fields \subseteq DOMAIN p /\ p.question \in Question
    BY <1>0, BusyAt, BusyTyped DEF Retrieve, Pcs, Early, Good, Honest
  <1>2. PICK down \in SUBSET (Retrievers \union {"graph"}) :
          LET found == RetrieveCandidates(p, Retrievers \ down)
                       \union (IF "graph" \in down THEN {} ELSE RetrieveGraph(p))
              next == [p EXCEPT !.cands = found, !.pc = "assemble"]
          IN  IF found # {} THEN Set(c, next) ELSE \E n \in ToRerank(next) : Set(c, n)
    BY <1>0 DEF Retrieve
  <1>3. PICK found : /\ found = RetrieveCandidates(p, Retrievers \ down)
                                \union (IF "graph" \in down THEN {} ELSE RetrieveGraph(p))
    OBVIOUS
  <1>4. PICK next : next = [p EXCEPT !.cands = found, !.pc = "assemble"]
    OBVIOUS
  <1>5. Set(c, next) \/ \E n \in ToRerank(next) : Set(c, n)
    BY <1>2, <1>3, <1>4
  <1>6. Found(found)
    <2>1. PICK up : up = Retrievers \ down
      OBVIOUS
    <2>2. Found(RetrieveCandidates(p, up))
      BY <1>1, <2>1, CandidatesFound DEF ReplyInv, ReplyTypes
    <2>3. PICK more : more = IF "graph" \in down THEN {} ELSE RetrieveGraph(p)
      OBVIOUS
    <2>4. Found(more)
      BY <2>3, GraphFound, FS_EmptySet DEF Found
    <2> QED BY <1>3, <2>1, <2>2, <2>3, <2>4, FoundBoth
  <1>7. /\ Stays(p, next) /\ next.pc = "assemble" /\ next.cands = found
        /\ next.confidence = p.confidence /\ next.decision = p.decision /\ Fields \subseteq DOMAIN next
    BY <1>1, <1>4 DEF Stays, Fields
  <1>8. Kept(next, DOMAIN gaps)
    BY <1>1, <1>6, <1>7 DEF Kept, Lasting, Stays, Found
  <1>9. PassTyped(next, DOMAIN gaps)
    BY <1>7, <1>8 DEF PassTyped, Early
  <1>10. PICK n : passes' = [passes EXCEPT ![c] = n] /\ PassTyped(n, DOMAIN gaps)
    BY <1>5, <1>8, <1>9, ToRerankTyped DEF Set
  <1> QED BY <1>10, QuietTyped DEF Retrieve, shared

LEMMA RetrieveLateTypes ==
  ASSUME ReplyInv, ReplyTyped, NEW c \in Clerk, RetrieveLate(c)
  PROVE  ReplyTyped'
  <1>0. PICK p : p = passes[c]
    OBVIOUS
  <1>1. Kept(p, DOMAIN gaps)
    BY <1>0, BusyAt, BusyTyped DEF RetrieveLate, Pcs, Early
  <1>2. PICK n : passes' = [passes EXCEPT ![c] = n] /\ (n = Fail(p) \/ n \in ToRerank(p))
    BY <1>0 DEF RetrieveLate, Set
  <1>3. n # NoPass => PassTyped(n, DOMAIN gaps)
    BY <1>1, <1>2, FailTyped, ToRerankTyped
  <1> QED BY <1>2, <1>3, QuietTyped DEF RetrieveLate, shared

LEMMA AssembleTypes ==
  ASSUME ReplyInv, ReplyTyped, NEW c \in Clerk, Assemble(c)
  PROVE  ReplyTyped'
  <1>0. PICK p : p = passes[c]
    OBVIOUS
  <1>1. Kept(p, DOMAIN gaps) /\ Fields \subseteq DOMAIN p
    BY <1>0, BusyAt, BusyTyped DEF Assemble, Pcs, Early
  <1>2. PICK n : /\ passes' = [passes EXCEPT ![c] = n]
                 /\ \/ n = Fail(p)
                    \/ \E cands \in {{ParentChunk(d) : d \in p.cands}, p.cands} :
                          n \in ToRerank([p EXCEPT !.cands = cands])
    BY <1>0 DEF Assemble, Set
  <1>3. ASSUME NEW cands \in {{ParentChunk(d) : d \in p.cands}, p.cands},
               n \in ToRerank([p EXCEPT !.cands = cands])
        PROVE  PassTyped(n, DOMAIN gaps)
    <2>1. Found(p.cands)
      BY <1>1 DEF Kept, Lasting, Found
    <2>2. Found(cands)
      <3>1. PICK S : S = p.cands
        OBVIOUS
      <3>2. Found({ParentChunk(d) : d \in S})
        BY <2>1, <3>1, ParentsFound
      <3> QED BY <2>1, <3>1, <3>2
    <2>3. PICK r : r = [p EXCEPT !.cands = cands]
      OBVIOUS
    <2>4. /\ Stays(p, r) /\ r.cands = cands /\ r.confidence = p.confidence /\ r.decision = p.decision
          /\ Fields \subseteq DOMAIN r
      BY <1>1, <2>3 DEF Stays, Fields
    <2>5. Kept(r, DOMAIN gaps)
      BY <1>1, <2>2, <2>4 DEF Kept, Lasting, Stays, Found
    <2> QED BY <1>3, <2>3, <2>5, ToRerankTyped
  <1>4. n # NoPass => PassTyped(n, DOMAIN gaps)
    BY <1>1, <1>2, <1>3, FailTyped
  <1> QED BY <1>2, <1>4, QuietTyped DEF Assemble, shared

LEMMA AcquireTypes ==
  ASSUME ReplyInv, ReplyTyped, NEW c \in Clerk, Acquire(c)
  PROVE  ReplyTyped'
  <1>0. passes[c] # NoPass
    BY DEF Acquire, NoPass
  <1>1. PICK p, q : p = passes[c] /\ q = [p EXCEPT !.asked = @ + 1]
    OBVIOUS
  <1>2. PassTyped(p, DOMAIN gaps) /\ Kept(p, DOMAIN gaps) /\ Fields \subseteq DOMAIN p
    BY <1>0, <1>1, BusyTyped
  <1>3. Unmoved(p, q) /\ q.pc = p.pc
    BY <1>1, <1>2 DEF Unmoved, Stays, Fields
  <1>4. PassTyped(q, DOMAIN gaps)
    BY <1>2, <1>3, KeptUnmoved DEF PassTyped, Unmoved
  <1>5. q.pc \in Stages
    BY <1>0, <1>1 DEF Acquire, Stages
  <1>6. PICK n : /\ passes' = [passes EXCEPT ![c] = n]
                 /\ \/ n = [q EXCEPT !.charging = TRUE, !.held = CacheGet(window), !.win = window]
                    \/ n \in Without(q)
    BY <1>0, <1>1 DEF Acquire, Set
  <1>7. PassTyped(n, DOMAIN gaps)
    <2>1. CASE n \in Without(q)
      BY <1>4, <1>5, <2>1, WithoutTyped
    <2>2. CASE n = [q EXCEPT !.charging = TRUE, !.held = CacheGet(window), !.win = window]
      <3>1. Unmoved(q, n) /\ n.pc = q.pc
        BY <1>2, <1>3, <2>2 DEF Unmoved, Stays, Fields
      <3> QED BY <1>4, <3>1, KeptUnmoved DEF PassTyped, Unmoved
    <2> QED BY <1>6, <2>1, <2>2
  <1>8. UNCHANGED <<gaps, actions>> /\ raced' \subseteq 1..MaxWindow
    BY DEF Acquire, ReplyTyped, ReplyInv, ReplyTypes
  <1>9. PassesTyped'
    BY <1>6, <1>7, <1>8, OneTyped DEF ReplyTyped
  <1> QED BY <1>8, <1>9 DEF ReplyTyped

LEMMA ChargeTypes ==
  ASSUME ReplyInv, ReplyTyped, NEW c \in Clerk, Charge(c)
  PROVE  ReplyTyped'
  <1>0. passes[c] # NoPass /\ passes[c].charging
    BY DEF Charge
  <1>1. PICK p, q : p = passes[c] /\ q = [p EXCEPT !.charging = FALSE, !.held = 0, !.win = 0, !.spent = @ + 1]
    OBVIOUS
  <1>2. PassTyped(p, DOMAIN gaps) /\ Kept(p, DOMAIN gaps) /\ Fields \subseteq DOMAIN p /\ p.pc \in Stages
    BY <1>0, <1>1, BusyTyped DEF Good, Honest, Within
  <1>3. Unmoved(p, q) /\ q.pc = p.pc
    BY <1>1, <1>2 DEF Unmoved, Stays, Fields
  <1>4. PassTyped(q, DOMAIN gaps) /\ Kept(q, DOMAIN gaps)
    BY <1>2, <1>3, KeptUnmoved DEF PassTyped, Unmoved
  <1>5. PICK n : /\ passes' = [passes EXCEPT ![c] = n]
                 /\ n = Fail(q) \/ n \in Without(q) \/ n \in Answered(q)
    <2>1. \/ \E n \in Without(q) : Set(c, n)
          \/ \E n \in Answered(q) : Set(c, n)
          \/ \E n \in Unanswered(q) : Set(c, n)
      BY <1>1 DEF Charge
    <2> QED BY <2>1 DEF Set, Unanswered
  <1>6. n # NoPass => PassTyped(n, DOMAIN gaps)
    BY <1>2, <1>3, <1>4, <1>5, FailTyped, WithoutTyped, AnsweredTyped
  <1> QED BY <1>5, <1>6, QuietTyped DEF Charge

LEMMA GapReadTypes ==
  ASSUME ReplyInv, ReplyTyped, NEW c \in Clerk, GapRead(c)
  PROVE  ReplyTyped'
  <1>0. PICK p : p = passes[c] /\ p.pc = "gap"
    BY DEF GapRead, On
  <1>1. PassTyped(p, DOMAIN gaps) /\ Kept(p, DOMAIN gaps) /\ Fields \subseteq DOMAIN p /\ Few(p.cands)
    BY <1>0, BusyAt, BusyTyped DEF GapRead, Pcs, PassTyped, Early
  <1>2. PICK n : /\ passes' = [passes EXCEPT ![c] = n]
                 /\ \/ \E i \in {0} \union DOMAIN gaps : n = [p EXCEPT !.pc = "note", !.gap = i]
                    \/ n \in ToDraft([p EXCEPT !.unnoted = TRUE])
    BY <1>0 DEF GapRead, Set
  <1>3. ASSUME NEW i \in {0} \union DOMAIN gaps, n = [p EXCEPT !.pc = "note", !.gap = i]
        PROVE  PassTyped(n, DOMAIN gaps)
    <2>1. /\ DOMAIN n = DOMAIN p /\ n.pass = p.pass /\ n.first = p.first /\ n.gap = i /\ n.cands = p.cands
          /\ n.confidence = p.confidence /\ n.decision = p.decision
      BY <1>1, <1>3 DEF Fields
    <2> QED BY <1>1, <2>1 DEF PassTyped, Kept, Lasting
  <1>4. ASSUME n \in ToDraft([p EXCEPT !.unnoted = TRUE])
        PROVE  PassTyped(n, DOMAIN gaps)
    <2>1. PICK r : r = [p EXCEPT !.unnoted = TRUE]
      OBVIOUS
    <2>2. Unmoved(p, r)
      BY <1>1, <2>1 DEF Unmoved, Stays, Fields
    <2>3. Kept(r, DOMAIN gaps) /\ Few(r.cands)
      BY <1>1, <2>2, KeptUnmoved DEF Unmoved
    <2> QED BY <1>4, <2>1, <2>3, ToDraftTyped
  <1>5. PassTyped(n, DOMAIN gaps)
    BY <1>2, <1>3, <1>4
  <1> QED BY <1>2, <1>5, QuietTyped DEF GapRead, shared

LEMMA GapWriteTypes ==
  ASSUME ReplyInv, ReplyTyped, NEW c \in Clerk, GapWrite(c)
  PROVE  ReplyTyped'
  <1>0. PICK p : p = passes[c] /\ p.pc = "note"
    BY DEF GapWrite, On
  <1>1. Kept(p, DOMAIN gaps) /\ Fields \subseteq DOMAIN p /\ Few(p.cands) /\ p.gap \in {0} \union DOMAIN gaps
    BY <1>0, BusyAt, BusyTyped DEF GapWrite, Pcs, PassTyped, Kept, Lasting, Early
  <1>2. gaps \in Seq(Gap) /\ \A i \in DOMAIN gaps : gaps[i].count # 0
    BY DEF ReplyInv, ReplyTypes, ReplyTyped
  <1>3. DOMAIN gaps \subseteq DOMAIN gaps' /\ \A i \in DOMAIN gaps' : gaps'[i].count # 0
    <2>1. CASE p.late
      BY <1>0, <1>2, <2>1 DEF GapWrite
    <2>2. CASE ~p.late /\ p.gap = 0
      <3>1. PICK row : gaps' = Append(gaps, row) /\ row.count = 1
        BY <1>0, <2>2 DEF GapWrite
      <3>2. /\ DOMAIN gaps' = 1..(Len(gaps) + 1) /\ gaps'[Len(gaps) + 1] = row
            /\ \A i \in 1..Len(gaps) : gaps'[i] = gaps[i]
        BY <1>2, <3>1
      <3> QED BY <1>2, <3>1, <3>2
    <2>3. CASE ~p.late /\ p.gap # 0
      <3>1. PICK k \in DOMAIN gaps : k = p.gap
        BY <1>1, <2>3
      <3>2. PICK old \in Gap : old = gaps[k]
        BY <1>2
      <3>3. PICK row : row = [old EXCEPT !.count = @ + 1]
        OBVIOUS
      <3>4. gaps' = [gaps EXCEPT ![k] = row]
        BY <1>0, <2>3, <3>1, <3>2, <3>3 DEF GapWrite
      <3>5. row.count # 0
        BY <3>3 DEF Gap
      <3> QED BY <1>2, <3>4, <3>5
    <2> QED BY <2>1, <2>2, <2>3
  <1>4. PICK n : /\ passes' = [passes EXCEPT ![c] = n]
                 /\ n \in ToDraft([p EXCEPT !.gap = 0, !.unnoted = p.late])
    BY <1>0 DEF GapWrite, Set
  <1>5. PICK r : r = [p EXCEPT !.gap = 0, !.unnoted = p.late]
    OBVIOUS
  <1>6. /\ DOMAIN r = DOMAIN p /\ r.pass = p.pass /\ r.first = p.first /\ r.gap = 0 /\ r.cands = p.cands
        /\ r.confidence = p.confidence /\ r.decision = p.decision
    BY <1>1, <1>5 DEF Fields
  <1>7. Kept(r, DOMAIN gaps) /\ Few(r.cands)
    BY <1>1, <1>6 DEF Kept, Lasting
  <1>8. PassTyped(n, DOMAIN gaps)
    BY <1>4, <1>5, <1>7, ToDraftTyped
  <1>9. PassTyped(n, DOMAIN gaps')
    BY <1>3, <1>8, TypedStays
  <1>10. PassesTyped'
    BY <1>3, <1>4, <1>9, OneTyped DEF ReplyTyped
  <1> QED BY <1>3, <1>10 DEF GapWrite, ReplyTyped

LEMMA RetryTypes ==
  ASSUME ReplyInv, ReplyTyped, NEW c \in Clerk, Retry(c)
  PROVE  ReplyTyped'
  <1>0. PICK p : p = passes[c] /\ p.pc = "retry"
    BY DEF Retry, On
  <1>1. /\ Kept(p, DOMAIN gaps) /\ Fields \subseteq DOMAIN p /\ Few(p.cands) /\ Lasting(p, DOMAIN gaps)
        /\ p.pass = 1
    BY <1>0, BusyAt, BusyTyped DEF Retry, Pcs, Ended, PassTyped, Kept, Early, Good, Honest, Vetted
  <1>2. PICK n : /\ passes' = [passes EXCEPT ![c] = n]
                 /\ n = IF p.late THEN [p EXCEPT !.pc = "respond"]
                        ELSE Begin([p EXCEPT !.mode = "full_review"], 2, p)
    BY <1>0 DEF Retry, Set
  <1>3. CASE p.late
    <2>1. Unmoved(p, n)
      BY <1>1, <1>2, <1>3 DEF Unmoved, Stays, Fields
    <2>2. PassTyped(n, DOMAIN gaps)
      BY <1>1, <2>1, KeptUnmoved DEF PassTyped, Unmoved
    <2> QED BY <1>2, <2>2, QuietTyped DEF Retry, shared
  <1>4. CASE ~p.late
    <2>1. PICK r : r = [p EXCEPT !.mode = "full_review"]
      OBVIOUS
    <2>2. n = Begin(r, 2, p)
      BY <1>2, <1>4, <2>1
    <2>3. PassTyped(n, DOMAIN gaps)
      BY <1>1, <2>2, BeginTyped
    <2> QED BY <1>2, <2>3, QuietTyped DEF Retry, shared
  <1> QED BY <1>3, <1>4

LEMMA RespondTypes ==
  ASSUME ReplyInv, ReplyTyped, NEW c \in Clerk, Respond(c)
  PROVE  ReplyTyped'
  <1>0. PICK p : p = passes[c]
    OBVIOUS
  <1>1. p.decision \in Decisions
    BY <1>0, BusyAt, BusyTyped DEF Respond, Pcs, Ended, Kept, Lasting
  <1>2. PICK row : row = [company |-> Asker, decision |-> p.decision, shown |-> Suggestion(p), feedback |-> "none"]
    OBVIOUS
  <1>3. row \in Action
    <2>1. Asker \in Tenant
      BY ReplyAssumption
    <2>2. Suggestion(p) \in {"draft", "handover", "acknowledgement", "evidence"}
      BY DEF Suggestion
    <2> QED BY <1>1, <1>2, <2>1, <2>2 DEF Action
  <1>4. actions' = Append(actions, row) \/ actions' = actions
    BY <1>0, <1>2 DEF Respond, Record
  <1>5. actions' \in Seq(Action)
    BY <1>3, <1>4 DEF ReplyTyped
  <1>6. PICK n : n = NoPass /\ passes' = [passes EXCEPT ![c] = n]
    BY DEF Respond, Set
  <1>7. gaps' = gaps /\ raced' = raced
    BY DEF Respond, shared
  <1>8. PassesTyped'
    BY <1>6, <1>7, OneTyped DEF ReplyTyped
  <1> QED BY <1>5, <1>7, <1>8 DEF ReplyTyped

LEMMA ExpireTypes ==
  ASSUME ReplyInv, ReplyTyped, NEW c \in Clerk, Expire(c)
  PROVE  ReplyTyped'
  <1>0. PICK p, n : p = passes[c] /\ n = [p EXCEPT !.late = TRUE]
    OBVIOUS
  <1>1. PassTyped(p, DOMAIN gaps) /\ Kept(p, DOMAIN gaps) /\ Fields \subseteq DOMAIN p
    BY <1>0, BusyTyped DEF Expire
  <1>2. Unmoved(p, n) /\ n.pc = p.pc
    BY <1>0, <1>1 DEF Unmoved, Stays, Fields
  <1>3. PassTyped(n, DOMAIN gaps)
    BY <1>1, <1>2, KeptUnmoved DEF PassTyped, Unmoved
  <1>4. passes' = [passes EXCEPT ![c] = n]
    BY <1>0 DEF Expire, Set
  <1> QED BY <1>3, <1>4, QuietTyped DEF Expire, shared

LEMMA PublishTypes ==
  ASSUME ReplyInv, ReplyTyped, NEW a \in Article, Publish(a)
  PROVE  ReplyTyped'
  <1>1. ASSUME NEW c \in Clerk, passes'[c] # NoPass
        PROVE  PassTyped(passes'[c], DOMAIN gaps)
    <2>1. passes[c] # NoPass
      BY <1>1 DEF Publish
    <2>2. PICK p, n : p = passes[c] /\ n = passes'[c]
      OBVIOUS
    <2>3. n = [p EXCEPT !.visible = @ \union {a}]
      BY <2>1, <2>2 DEF Publish
    <2>4. PassTyped(p, DOMAIN gaps) /\ Kept(p, DOMAIN gaps) /\ Fields \subseteq DOMAIN p
      BY <2>1, <2>2, BusyTyped
    <2>5. Unmoved(p, n) /\ n.pc = p.pc
      BY <2>3, <2>4 DEF Unmoved, Stays, Fields
    <2>6. PassTyped(n, DOMAIN gaps)
      BY <2>4, <2>5, KeptUnmoved DEF PassTyped, Unmoved
    <2> QED BY <2>2, <2>6
  <1> QED BY <1>1 DEF Publish, ReplyTyped, PassesTyped

LEMMA FeedbackTypes ==
  ASSUME ReplyInv, ReplyTyped, NEW company, NEW id \in DOMAIN actions, NEW verdict \in Verdicts,
         Feedback(company, id, verdict)
  PROVE  ReplyTyped'
  <1>1. PICK old \in Action : old = actions[id]
    BY DEF ReplyTyped
  <1>2. PICK row : row = [old EXCEPT !.feedback = verdict]
    OBVIOUS
  <1>3. row \in Action
    BY <1>2 DEF Action
  <1>4. actions' = [actions EXCEPT ![id] = row] \/ actions' = actions
    BY <1>1, <1>2 DEF Feedback, RecordFeedback
  <1>5. actions' \in Seq(Action)
    BY <1>3, <1>4 DEF ReplyTyped
  <1> QED BY <1>5 DEF Feedback, shared, ReplyTyped, PassesTyped

LEMMA ReplyTypedInit == ReplyInit => ReplyTyped
  <1> SUFFICES ASSUME ReplyInit PROVE ReplyTyped
    OBVIOUS
  <1>1. gaps = <<>> /\ actions = <<>> /\ raced = {} /\ \A c \in Clerk : passes[c] = NoPass
    BY DEF ReplyInit
  <1>2. actions \in Seq(Action) /\ DOMAIN gaps = {}
    BY <1>1, EmptySeq
  <1> QED BY <1>1, <1>2 DEF ReplyTyped, PassesTyped

LEMMA ReplyTypedStep == ReplyInv /\ ReplyTyped /\ [ReplyNext]_replyVars => ReplyTyped'
  <1> SUFFICES ASSUME ReplyInv, ReplyTyped, [ReplyNext]_replyVars PROVE ReplyTyped'
    OBVIOUS
  <1>1. ASSUME NEW c \in Clerk,
               \/ RequestReply(c) \/ Retrieve(c) \/ RetrieveLate(c) \/ Assemble(c) \/ Acquire(c)
               \/ Charge(c) \/ GapRead(c) \/ GapWrite(c) \/ Retry(c) \/ Respond(c) \/ Expire(c)
        PROVE  ReplyTyped'
    BY <1>1, RequestReplyTypes, RetrieveTypes, RetrieveLateTypes, AssembleTypes, AcquireTypes,
       ChargeTypes, GapReadTypes, GapWriteTypes, RetryTypes, RespondTypes, ExpireTypes
  <1>2. ASSUME NEW company \in Tenant, NEW id \in DOMAIN actions, NEW verdict \in Verdicts,
               Feedback(company, id, verdict)
        PROVE  ReplyTyped'
    BY <1>2, FeedbackTypes
  <1>3. ASSUME NEW a \in Article, Publish(a)
        PROVE  ReplyTyped'
    BY <1>3, PublishTypes
  <1>4. CASE (\E a \in Article : Archive(a)) \/ Tick \/ UNCHANGED replyVars
    <2>1. UNCHANGED <<raced, gaps, actions, passes>>
      BY <1>4 DEF Archive, Tick, replyVars
    <2> QED BY <2>1 DEF ReplyTyped, PassesTyped
  <1> QED BY <1>1, <1>2, <1>3, <1>4 DEF ReplyNext

(***************************************************************************)
(* A reply cites no more than it may, a pass counts the gap it found, and  *)
(* what is recorded of a reply is one of the decisions, whatever is        *)
(* denied, fails, expires or is edited meanwhile (workflows/reply and rag).*)
(***************************************************************************)
THEOREM ReplyTypeCorrect == ReplySpec => []ReplyTypeOK
  <1>1. ReplyInit => ReplyInv /\ ReplyTyped
    BY ReplyInvInit, ReplyTypedInit
  <1>2. ReplyInv /\ ReplyTyped /\ [ReplyNext]_replyVars => (ReplyInv /\ ReplyTyped)'
    BY ReplyInvStep, ReplyTypedStep
  <1>3. ReplyInv /\ ReplyTyped => ReplyTypeOK
    <2> SUFFICES ASSUME ReplyInv, ReplyTyped PROVE ReplyTypeOK
      OBVIOUS
    <2>1. ASSUME NEW i \in DOMAIN gaps PROVE gaps[i] \in [question : Question, count : Nat \ {0}]
      <3>1. PICK row \in Gap : row = gaps[i]
        BY DEF ReplyInv, ReplyTypes
      <3>2. row.count # 0
        BY <3>1 DEF ReplyTyped
      <3> QED BY <3>1, <3>2 DEF Gap
    <2>2. ASSUME NEW c \in Clerk, passes[c] # NoPass
          PROVE  /\ passes[c].cands \subseteq Candidate
                 /\ On(c, "respond") => Cardinality(passes[c].cands) <= MaxCandidates
                 /\ passes[c].pass \in 0..2 /\ passes[c].confidence \in 0..3
                 /\ passes[c].gap \in {0} \union DOMAIN gaps
      BY <2>2, BusyTyped DEF PassTyped, Kept, Lasting, Few, On, Early
    <2>3. ASSUME NEW i \in DOMAIN actions PROVE actions[i].feedback \in Verdicts \union {"none"}
      <3>1. actions[i] \in Action
        BY DEF ReplyTyped
      <3> QED BY <3>1 DEF Action
    <2>4. /\ published \subseteq Article /\ window \in 1..MaxWindow
          /\ used \in [1..MaxWindow -> Nat] /\ granted \in [1..MaxWindow -> Nat] /\ raced \subseteq 1..MaxWindow
      BY DEF ReplyInv, ReplyTypes, ReplyTyped
    <2> QED BY <2>1, <2>2, <2>3, <2>4 DEF ReplyTypeOK, Candidate
  <1> QED BY <1>1, <1>2, <1>3, PTL DEF ReplySpec

-----------------------------------------------------------------------------
(***************************************************************************)
(* The search, the replies and the chat share no state, and what is said   *)
(* of each holds when they run together.                                   *)
(***************************************************************************)
THEOREM AnswersStayApart == MCSpec => GraphSpec /\ ReplySpec /\ ChatSpec
  <1>1. MCInit => GraphInit /\ ReplyInit /\ ChatInit
    BY DEF MCInit
  <1>2. [MCNext]_<<graphVars, replyVars, chatVars>> => [GraphNext]_graphVars /\ [ReplyNext]_replyVars /\ [ChatNext]_chatVars
    BY DEF MCNext
  <1> QED BY <1>1, <1>2, PTL DEF MCSpec, GraphSpec, ReplySpec, ChatSpec

(***************************************************************************)
(* So the variables of all three keep their types.                         *)
(***************************************************************************)
THEOREM AnswersTypeCorrect == MCSpec => []MCTypeOK
  <1>1. GraphTypeOK /\ ReplyTypeOK /\ ChatTypeOK => MCTypeOK
    BY DEF MCTypeOK
  <1> QED BY <1>1, AnswersStayApart, GraphTypeCorrect, ReplyTypeCorrect, ChatTypeCorrect, PTL
===============================================================================
