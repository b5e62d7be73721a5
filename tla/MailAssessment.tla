---------------------------- MODULE MailAssessment ----------------------------
(***************************************************************************)
(* The assessment of a mail that opens a conversation: the settings of the *)
(* company, the score of the evidence, the fields a model finds, the       *)
(* confidence, the completeness row and the ticket.  The API runs it once; *)
(* the worker runs it again after an error.  What it reads it reads in     *)
(* queries of their own, while the company changes it.                     *)
(***************************************************************************)
EXTENDS Integers, Sequences, SequencesExt, FiniteSets, FiniteSetsExt

CONSTANTS
    Conversation,     \* conversations with a mail to assess
    Settings,         \* values of companies.intake_settings
    Trees,            \* values of the company's tree: titles below the roots, by id
    Path,             \* companies.path, the company itself last
    Definitions,      \* the fields each company of the path defines: key and is_required
    MaxProductHints,
    LineageMaxAncestors,
    MaxAttempts,      \* of a task
    AssessPlans       \* bounds: the mails, how they are assessed, and what may happen

ASSUME AssessmentAssumption ==
    /\ MaxProductHints \in Nat /\ LineageMaxAncestors \in Nat \ {0} /\ MaxAttempts \in Nat \ {0}
    /\ Settings \subseteq [evaluation : BOOLEAN, rules : BOOLEAN, ai : BOOLEAN, auto : BOOLEAN,
                            keywords : BOOLEAN, threshold : Int]
    /\ Trees \subseteq Seq(STRING)
    /\ \A p \in AssessPlans : p.settings \in Settings /\ p.tree \in Trees /\ {p.saves, p.errors} \subseteq Nat
    /\ \A p \in AssessPlans : \A mail \in p.mails : \A answer \in mail.answers :
          "product" \notin answer.fields \* an answer names its product apart

VARIABLES
    settings,  \* companies.intake_settings
    tree,      \* nodes
    assessing, \* the assessment of a conversation
    complete,  \* the completeness columns of a conversation
    ticketed,  \* conversations whose ticket was queued, with the assessment that did
    remaining  \* how often the company may still save, and calls may fail

assessVars == <<settings, tree, assessing, complete, ticketed, remaining>>

Unassessed == [status |-> "none", product |-> ""]

\* The settings and trees the company had since the assessment began are history.
Begun(mail, mode, attempt) ==
    [pc |-> "policy", mail |-> mail, mode |-> mode, attempt |-> attempt, had |-> {settings}, trees |-> {tree},
     policy |-> settings, keyword |-> FALSE, threshold |-> 0, score |-> 0, reasons |-> {}, required |-> {},
     products |-> <<>>, result |-> Unassessed]

AssessInit ==
    /\ \E p \in AssessPlans :
          /\ settings = p.settings /\ tree = p.tree
          /\ \E mails \in [Conversation -> p.mails], mode \in p.modes :
                assessing = [c \in Conversation |-> Begun(mails[c], mode, 1)]
          /\ remaining = [saves |-> p.saves, errors |-> p.errors]
    /\ complete = [c \in Conversation |-> Unassessed]
    /\ ticketed = {}

Running(c, stage) == assessing[c].pc = stage
GoOn(c, job) == assessing' = [assessing EXCEPT ![c] = job]

\* An assessment that fails says nothing.  A task is tried again from the start.
Again(job) ==
    IF job.mode = "queued" /\ job.attempt < MaxAttempts THEN Begun(job.mail, "queued", job.attempt + 1)
    ELSE [job EXCEPT !.pc = "over"]

Err(c) ==
    /\ remaining.errors > 0
    /\ remaining' = [remaining EXCEPT !.errors = @ - 1]
    /\ GoOn(c, Again(assessing[c]))
    /\ UNCHANGED <<settings, tree, complete, ticketed>>

ReadsOnly == UNCHANGED <<settings, tree, complete, ticketed, remaining>>

-------------------------------------------------------------------------------
(***************************************************************************)
(* Score, of evidence no model is asked for.                               *)
(***************************************************************************)
Weight ==
    [list_unsubscribe |-> -40, auto_submitted |-> -35, sender_no_reply |-> -18, precedence_bulk |-> -6,
     referenced_case |-> 30, thread_matched |-> 30, has_attachments |-> 12, body_thin |-> -8, link_heavy |-> -8,
     intent_keyword_match |-> 30]

Clamp(n) == Max({5, Min({95, n})})
If(condition, points) == IF condition THEN points ELSE 0
Score(reasons) ==
    LET points(reason) == If(reason \in reasons, Weight[reason])
    IN  Clamp(50 + points("list_unsubscribe") + points("auto_submitted") + points("sender_no_reply")
                 + points("precedence_bulk") + points("referenced_case") + points("thread_matched")
                 + points("has_attachments") + points("body_thin") + points("link_heavy")
                 + points("intent_keyword_match"))

SkipModelBelowScore == 20

(***************************************************************************)
(* Confidence: the model's classification, and what else speaks for it.    *)
(***************************************************************************)
Base(classification) ==
    CASE classification \in {"new_issue", "follow_up"} -> 60
      [] classification = "status_query"   -> 35
      [] classification = "unclear"        -> 25
      [] classification = "not_actionable" -> 10
      [] OTHER -> 30

JunkStrongNotAuto == {"list_unsubscribe", "sender_no_reply"}
JunkStrong == {"list_unsubscribe", "auto_submitted", "sender_no_reply"}
Positive == {"referenced_case", "thread_matched", "has_attachments"}

Confidence(job) ==
    LET junk == JunkStrong \cap job.reasons # {}
        clean == ~junk /\ (Positive \cap job.reasons # {} \/ job.score >= 50)
    IN  Clamp(Base(job.result.class) + If(junk, -25) + If(clean, 5)
                + If("referenced_case" \in job.mail.evidence, 20) + If(job.result.missing = {}, 8)
                + If(job.result.catalog = "yes", 7) + If(job.result.catalog = "no", -10))

DefaultThreshold == 55
PromotableFrom(classification, confidence, threshold) ==
    confidence >= threshold /\ classification \in {"new_issue", "follow_up"}
ConfidencePromotable(classification, confidence, threshold) ==
    /\ confidence >= IF threshold <= 0 THEN DefaultThreshold ELSE threshold
    /\ classification \in {"new_issue", "follow_up"}

ParsePromoteThreshold(n) == IF n < 0 \/ n > 95 THEN 0 ELSE n

-------------------------------------------------------------------------------
(***************************************************************************)
(* The fields a report needs are those of the nearest company of the       *)
(* lineage that defines any; optional ones change nothing else.            *)
(***************************************************************************)
DefaultRequired == {"problem_detail", "product"}
Lineage == SubSeq(Reverse(Path), 1, Min({Len(Path), LineageMaxAncestors}))
Defining == SelectSeq(Lineage, LAMBDA company : Definitions[company] # {})
SpecFromDefinitions(defs) ==
    LET required == {d.key : d \in {e \in defs : e.required}}
    IN  IF required = {} THEN DefaultRequired ELSE required
SpecFor == IF Defining = <<>> THEN DefaultRequired ELSE SpecFromDefinitions(Definitions[Head(Defining)])

ProductList(titles) == SubSeq(titles, 1, Min({Len(titles), MaxProductHints}))
NoProductUnknown(product, products) == FALSE
UnknownProduct(product, products) == product # "" /\ products # <<>> /\ ~Contains(products, product)

Missing(required, fields) == required \ fields

\* What an answer of the model makes of the mail; one that cannot be read names no fields.
\* Whether the images show something of the catalogue is kept only of a mail with images.
Assessed(job, answer) ==
    LET product == IF UnknownProduct(answer.product, job.products) THEN "" ELSE answer.product
        fields == answer.fields \union (IF product = "" THEN {} ELSE {"product"})
        missing == Missing(job.required, fields)
    IN  [status |-> CASE missing # {} -> "incomplete" [] job.products = <<>> -> "unverified" [] OTHER -> "ready",
         product |-> product, missing |-> missing, catalog |-> IF job.mail.images THEN answer.catalog ELSE "",
         class |-> IF answer.catalog = "no" THEN "not_actionable" ELSE answer.class]

Unknown(class) == [status |-> "unknown", product |-> "", missing |-> {}, catalog |-> "", class |-> class]
EmptyResult(required) ==
    [status |-> "incomplete", product |-> "", missing |-> required, catalog |-> "", class |-> ""]

Settled(job, result) == [job EXCEPT !.pc = "write", !.result = result]

-------------------------------------------------------------------------------
(***************************************************************************)
(* Extract, a query a step.                                                *)
(***************************************************************************)
ConfigurationFor(c) ==
    /\ Running(c, "policy")
    /\ LET job == [assessing[c] EXCEPT !.policy = settings]
       IN  GoOn(c, IF settings.evaluation THEN [job EXCEPT !.pc = "keywords"] ELSE Settled(job, Unknown("")))
    /\ ReadsOnly

IntentKeywords(c) ==
    /\ Running(c, "keywords")
    /\ GoOn(c, [assessing[c] EXCEPT !.keyword = settings.keywords /\ assessing[c].mail.words, !.pc = "threshold"])
    /\ ReadsOnly

\* The evidence is graded, and a mail that looks like bulk is never shown to a model.
Graded(job) ==
    LET reasons == IF ~job.policy.rules THEN {}
                   ELSE job.mail.evidence \union (IF job.keyword THEN {"intent_keyword_match"} ELSE {})
        graded == [job EXCEPT !.reasons = reasons, !.score = IF job.policy.rules THEN Score(reasons) ELSE 0]
    IN  IF ~job.policy.ai THEN Settled(graded, Unknown(""))
        ELSE IF job.policy.rules /\ graded.score <= SkipModelBelowScore THEN Settled(graded, Unknown("not_actionable"))
        ELSE [graded EXCEPT !.pc = "spec"]

PromoteThreshold(c) ==
    /\ Running(c, "threshold")
    /\ GoOn(c, Graded([assessing[c] EXCEPT !.threshold = ParsePromoteThreshold(settings.threshold)]))
    /\ ReadsOnly

ResolveSpec(c) ==
    /\ Running(c, "spec")
    /\ GoOn(c, IF assessing[c].mail.empty THEN Settled(assessing[c], EmptyResult(SpecFor))
               ELSE [assessing[c] EXCEPT !.required = SpecFor, !.pc = "provider"])
    /\ ReadsOnly

\* The company may have no provider, which is no error.
ResolveProvider(c) ==
    /\ Running(c, "provider")
    /\ \/ GoOn(c, [assessing[c] EXCEPT !.pc = "products"])
       \/ ~assessing[c].mail.provider /\ GoOn(c, Settled(assessing[c], Unknown("")))
    /\ ReadsOnly

Products(c) ==
    /\ Running(c, "products")
    /\ GoOn(c, [assessing[c] EXCEPT !.products = ProductList(tree), !.pc = "model"])
    /\ ReadsOnly

GenerateJSON(c) ==
    /\ Running(c, "model")
    /\ \E answer \in assessing[c].mail.answers : GoOn(c, Settled(assessing[c], Assessed(assessing[c], answer)))
    /\ ReadsOnly

WriteCompleteness(c) ==
    LET job == assessing[c]
    IN  /\ Running(c, "write")
        /\ complete' = [complete EXCEPT ![c] = [status |-> job.result.status, product |-> job.result.product]]
        /\ GoOn(c, [job EXCEPT !.pc = "decide"])
        /\ UNCHANGED <<settings, tree, ticketed, remaining>>

AutoCreateDisabled(policy) == ~policy.auto \/ ~policy.ai \/ ~policy.evaluation

\* A ticket the queue refuses is tried again by a task, and by the API never.
EnqueueTicket(c) ==
    LET job == assessing[c]
        over == [job EXCEPT !.pc = "over"]
    IN  /\ Running(c, "decide")
        /\ IF ~AutoCreateDisabled(job.policy) /\ ConfidencePromotable(job.result.class, Confidence(job), job.threshold)
           THEN ticketed' = ticketed \union {[conv |-> c, by |-> over]}
           ELSE UNCHANGED ticketed
        /\ GoOn(c, over)
        /\ UNCHANGED <<settings, tree, complete, remaining>>

Fail(c) == assessing[c].pc # "over" /\ Err(c)

\* The company saves its settings or its tree.
Save(value) ==
    /\ remaining.saves > 0 /\ value # settings
    /\ remaining' = [remaining EXCEPT !.saves = @ - 1]
    /\ settings' = value
    /\ assessing' = [c \in Conversation |-> [assessing[c] EXCEPT !.had = @ \union {value}]]
    /\ UNCHANGED <<tree, complete, ticketed>>

EditTree(titles) ==
    /\ remaining.saves > 0 /\ titles # tree
    /\ remaining' = [remaining EXCEPT !.saves = @ - 1]
    /\ tree' = titles
    /\ assessing' = [c \in Conversation |-> [assessing[c] EXCEPT !.trees = @ \union {titles}]]
    /\ UNCHANGED <<settings, complete, ticketed>>

AssessNext ==
    \/ \E c \in Conversation :
          \/ ConfigurationFor(c) \/ IntentKeywords(c) \/ PromoteThreshold(c) \/ ResolveSpec(c)
          \/ ResolveProvider(c) \/ Products(c) \/ GenerateJSON(c) \/ WriteCompleteness(c)
          \/ EnqueueTicket(c) \/ Fail(c)
    \/ \E value \in Settings : Save(value)
    \/ \E titles \in Trees : EditTree(titles)

AssessSpec == AssessInit /\ [][AssessNext]_assessVars

-------------------------------------------------------------------------------
AssessTypeOK ==
    \A c \in Conversation :
        /\ assessing[c].score \in {0} \union 5..95 /\ assessing[c].attempt \in 1..MaxAttempts
        /\ complete[c].status \in {"none", "unknown", "incomplete", "unverified", "ready"}
        /\ Running(c, "decide") => Confidence(assessing[c]) \in 5..95

(***************************************************************************)
(* A ticket nobody asked for is one the company's settings ask for: at     *)
(* some moment of the assessment tickets were on, and at some moment the   *)
(* threshold was low enough, though the two are read apart.  No threshold, *)
(* or one out of range, is that of the program.                            *)
(***************************************************************************)
PromotedAsConfigured ==
    \A t \in ticketed :
        /\ \E s \in t.by.had : s.evaluation /\ s.ai /\ s.auto
        /\ \E s \in t.by.had : Confidence(t.by) >= IF s.threshold \in 1..95 THEN s.threshold ELSE 55

(***************************************************************************)
(* A mail of a list, of a robot or of an address nobody reads becomes no   *)
(* ticket unless it names a case or the company lowered its threshold,     *)
(* whatever a model says of it and however good the rest of it looks.      *)
(***************************************************************************)
JunkIsHeld ==
    \A t \in ticketed :
        LET mail == t.by.mail.evidence
        IN  \/ mail \cap {"list_unsubscribe", "auto_submitted", "sender_no_reply"} = {}
            \/ "referenced_case" \in mail
            \/ \E s \in t.by.had : s.threshold \in 1..50 \/ ~s.rules

(***************************************************************************)
(* What is called ready is about a product of the company, as its tree was *)
(* at some moment of the assessment.                                       *)
(***************************************************************************)
ReadyNamesProduct ==
    \A c \in Conversation :
        Running(c, "decide") /\ complete[c].status = "ready" /\ "product" \in assessing[c].required =>
            \E titles \in assessing[c].trees : Contains(titles, complete[c].product)

(***************************************************************************)
(* The three: what an assessment decides and records is what some settings *)
(* of the company and the evidence of the mail allow, whatever a model     *)
(* answers and however the reads fall between the company's saves.         *)
(***************************************************************************)
AssessmentIsGrounded == PromotedAsConfigured /\ JunkIsHeld /\ ReadyNamesProduct
===============================================================================
