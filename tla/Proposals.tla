------------------------------- MODULE Proposals -------------------------------
(***************************************************************************)
(* New symptoms of one company, from the report in which a model finds one *)
(* to the decision about it.  extract:batch (workflows/classify) adds a    *)
(* proposed symptom and leaves a review item in the outbox, outbox:flush   *)
(* (services/reviewoutbox) pushes it to the review queue of the main       *)
(* application, and an approval (workflows/promote) activates the symptom. *)
(* All of them run at once, and each may fail or die between its calls.    *)
(***************************************************************************)
EXTENDS Integers, FiniteSets, Sequences, FiniteSetsExt

CONSTANTS
    Report,       \* reports, by id
    Answers,      \* [Report -> the answers the model may give]
    Refused,      \* reports whose proposal the main application refuses
    Classifier,   \* goroutines that run extract:batch
    Flusher,      \* goroutines that run outbox:flush
    Reviewer,     \* requests and tasks that approve
    BatchLimit,   \* limit of a batch, 25 in the code
    FlushLimit,   \* limit of a flush, 50 in the code
    AttemptLimit, \* 10 in the code
    MaxFaults     \* bound: failing calls and deaths

\* What a model says of a report: its symptom, and whether the symptom is new.
Answer == [name: STRING, isNew: BOOLEAN, confidence: Nat]

ASSUME ProposalsAssumption ==
    /\ Report \subseteq Nat /\ IsFiniteSet(Report) /\ IsFiniteSet(Flusher)
    /\ \A r \in Report : Answers[r] \subseteq Answer
    /\ Refused \subseteq Report
    /\ BatchLimit \in Nat \ {0} /\ FlushLimit \in Nat \ {0} /\ AttemptLimit \in Nat \ {0}
    /\ MaxFaults \in Nat

VARIABLES
    nodes,      \* symptom_nodes, by id
    classified, \* report_classification
    outbox,     \* ai_review_outbox, by id
    review,     \* review_queue of the main application
    batch,      \* extract:batch of a goroutine
    flush,      \* outbox:flush of a goroutine
    promotion,  \* promote.Workflow.Run of a reviewer
    unqueued,   \* reports whose proposal could not be written to the outbox
    faults      \* failures so far

proposalVars == <<nodes, classified, outbox, review, batch, flush, promotion, unqueued, faults>>

Payload == [report: Report, node: Nat, confidence: Nat]
OutboxRow == [payload: Payload, status: {"pending", "failed", "sent"}, attempts: Nat]
Decision == {"pending", "approved", "rejected"}

NoTask == [pc |-> "idle"]

ProposalsTypeOK ==
    /\ nodes \in Seq([name: STRING, status: {"proposed", "active"}])
    /\ classified \subseteq [report: Report, node: DOMAIN nodes, isNew: BOOLEAN]
    /\ outbox \in Seq(OutboxRow)
    /\ \A k \in DOMAIN outbox :
          /\ outbox[k].payload.node \in DOMAIN nodes
          /\ outbox[k].attempts < AttemptLimit + Cardinality(Flusher)
    /\ \A i, j \in review : i.payload = j.payload => i = j
    /\ review \subseteq [payload: Payload, status: Decision]
    /\ \A c \in Classifier : batch[c].pc \in {"idle", "model", "find", "insert", "enqueue", "write"}
    /\ \A f \in Flusher : flush[f].pc \in {"idle", "push", "mark"}
    /\ \A p \in Reviewer : promotion[p].pc \in {"idle", "activate", "approve"}
    /\ unqueued \subseteq Report /\ faults \in 0..MaxFaults

ProposalsInit ==
    /\ nodes = <<>> /\ classified = {} /\ outbox = <<>> /\ review = {}
    /\ batch = [c \in Classifier |-> NoTask]
    /\ flush = [f \in Flusher |-> NoTask]
    /\ promotion = [p \in Reviewer |-> NoTask]
    /\ unqueued = {} /\ faults = 0

MayFault == faults < MaxFaults /\ faults' = faults + 1

-----------------------------------------------------------------------------
(***************************************************************************)
(* extract:batch.                                                          *)
(***************************************************************************)
Unclassified == Report \ {rec.report : rec \in classified}

\* The first of them by id, which is how a task goes through them as well.
FirstOf(S, limit) == {k \in S : Cardinality({j \in S : j < k}) < limit}

Current(c) == Min(batch[c].left)

\* The next report of the batch, or the end of the task.
NextReport(c) ==
    LET rest == batch[c].left \ {Current(c)} IN
    batch' = [batch EXCEPT ![c] = IF rest = {} THEN NoTask ELSE [pc |-> "model", left |-> rest]]

ListReports(c) ==
    /\ batch[c] = NoTask /\ Unclassified # {}
    /\ batch' = [batch EXCEPT ![c] =
                    [pc |-> "model", left |-> FirstOf(Unclassified, BatchLimit)]]
    /\ UNCHANGED <<nodes, classified, outbox, review, flush, promotion, unqueued, faults>>

\* runStages, tried three times.  Some reports have nothing to classify.
AskModel(c) ==
    /\ batch[c].pc = "model"
    /\ \/ /\ \E a \in Answers[Current(c)] :
                batch' = [batch EXCEPT ![c] =
                             [pc |-> "find", left |-> @.left, answer |-> a, node |-> 0]]
          /\ UNCHANGED faults
       \/ Answers[Current(c)] = {} /\ NextReport(c) /\ UNCHANGED faults
       \/ MayFault /\ NextReport(c)
    /\ UNCHANGED <<nodes, classified, outbox, review, flush, promotion, unqueued>>

\* The symptom is known by name or has just been added.
Found(c, n, then) == batch' = [batch EXCEPT ![c].node = n, ![c].pc = then]

AfterUpsert(c) == IF batch[c].answer.isNew THEN "enqueue" ELSE "write"

Named(name) == {n \in DOMAIN nodes : nodes[n].name = name}

\* ORDER BY status = 'active' DESC, id ASC
Preferred(S) ==
    LET active == {n \in S : nodes[n].status = "active"}
    IN  Min(IF active # {} THEN active ELSE S)

FindSymptomKnown(c) ==
    /\ batch[c].pc = "find"
    /\ LET S == Named(batch[c].answer.name) IN
          \/ S = {} /\ Found(c, 0, "insert") /\ UNCHANGED faults
          \/ S # {} /\ Found(c, Preferred(S), "write") /\ UNCHANGED faults
          \/ MayFault /\ NextReport(c)
    /\ UNCHANGED <<nodes, classified, outbox, review, flush, promotion, unqueued>>

FindSymptom(c) ==
    /\ batch[c].pc = "find"
    /\ LET S == Named(batch[c].answer.name) IN
          \/ S = {} /\ Found(c, 0, "insert") /\ UNCHANGED faults
          \/ S # {} /\ Found(c, Preferred(S), AfterUpsert(c)) /\ UNCHANGED faults
          \/ MayFault /\ NextReport(c)
    /\ UNCHANGED <<nodes, classified, outbox, review, flush, promotion, unqueued>>

InsertSymptom(c) ==
    /\ batch[c].pc = "insert"
    /\ LET a == batch[c].answer
           new == [name |-> a.name, status |-> IF a.isNew THEN "proposed" ELSE "active"]
       IN \/ /\ nodes' = Append(nodes, new)
             /\ Found(c, Len(nodes) + 1, AfterUpsert(c)) /\ UNCHANGED faults
          \/ MayFault /\ NextReport(c) /\ nodes' \in {nodes, Append(nodes, new)}
    /\ UNCHANGED <<classified, outbox, review, flush, promotion, unqueued>>

\* INSERT ... ON DUPLICATE KEY UPDATE on the hash of the payload.
WithRow(payload) ==
    LET same == {k \in DOMAIN outbox : outbox[k].payload = payload} IN
    IF same = {}
    THEN Append(outbox, [payload |-> payload, status |-> "pending", attempts |-> 0])
    ELSE [k \in DOMAIN outbox |->
            IF k \in same /\ outbox[k].status = "failed"
            THEN [outbox[k] EXCEPT !.status = "pending"] ELSE outbox[k]]

\* An error is logged, and the classification goes on.
Enqueue(c) ==
    /\ batch[c].pc = "enqueue"
    /\ batch' = [batch EXCEPT ![c].pc = "write"]
    /\ LET queued == WithRow([report |-> Current(c), node |-> batch[c].node,
                              confidence |-> batch[c].answer.confidence])
       IN \/ outbox' = queued /\ UNCHANGED <<unqueued, faults>>
          \/ /\ MayFault /\ unqueued' = unqueued \cup {Current(c)}
             /\ outbox' \in {outbox, queued}
    /\ UNCHANGED <<nodes, classified, review, flush, promotion>>

WriteClassification(c) ==
    /\ batch[c].pc = "write" /\ NextReport(c)
    /\ LET r == Current(c)
           rec == [report |-> r, node |-> batch[c].node, isNew |-> batch[c].answer.isNew]
       IN \/ /\ classified' = {old \in classified : old.report # r} \cup {rec}
             /\ UNCHANGED faults
          \/ MayFault /\ UNCHANGED classified
    /\ UNCHANGED <<nodes, outbox, review, flush, promotion, unqueued>>

Classify(c) ==
    \/ ListReports(c) \/ AskModel(c) \/ FindSymptom(c) \/ InsertSymptom(c) \/ Enqueue(c)
    \/ WriteClassification(c)

-----------------------------------------------------------------------------
(***************************************************************************)
(* outbox:flush, once a minute.  The scheduler's lock on the task is       *)
(* shorter than a slow flush, so two may run at once.                      *)
(***************************************************************************)
PendingOnly ==
    {k \in DOMAIN outbox : outbox[k].status = "pending" /\ outbox[k].attempts < AttemptLimit}

PendingReviewOutbox ==
    {k \in DOMAIN outbox : /\ outbox[k].status \in {"pending", "failed"}
                           /\ outbox[k].attempts < AttemptLimit}

ListPending(f) ==
    /\ flush[f] = NoTask /\ PendingReviewOutbox # {}
    /\ flush' = [flush EXCEPT ![f] =
                    [pc |-> "push", left |-> FirstOf(PendingReviewOutbox, FlushLimit)]]
    /\ UNCHANGED <<nodes, classified, outbox, review, batch, promotion, unqueued, faults>>

\* The main application keeps one review item for one hash.
Received(payload) ==
    review \cup IF \E i \in review : i.payload = payload THEN {}
                ELSE {[payload |-> payload, status |-> "pending"]}

Pushed(f, outcome) ==
    flush' = [flush EXCEPT ![f] = [pc |-> "mark", left |-> @.left, outcome |-> outcome]]

\* PushReviewItem: accepted, refused, not delivered, or accepted without an answer.
PushReviewItem(f) ==
    /\ flush[f].pc = "push"
    /\ LET payload == outbox[Min(flush[f].left)].payload IN
          \/ /\ payload.report \notin Refused /\ review' = Received(payload)
             /\ Pushed(f, "sent") /\ UNCHANGED faults
          \/ /\ payload.report \in Refused /\ Pushed(f, "failed")
             /\ UNCHANGED <<review, faults>>
          \/ /\ payload.report \notin Refused /\ MayFault /\ Pushed(f, "failed")
             /\ review' \in {review, Received(payload)}
    /\ UNCHANGED <<nodes, classified, outbox, batch, promotion, unqueued>>

FlushDone(f) ==
    LET rest == flush[f].left \ {Min(flush[f].left)} IN
    flush' = [flush EXCEPT ![f] = IF rest = {} THEN NoTask ELSE [pc |-> "push", left |-> rest]]

Marked(k, status) ==
    outbox' = [outbox EXCEPT ![k].status = status, ![k].attempts = @ + 1]

\* MarkReviewOutboxSent and MarkReviewOutboxFailed, whatever the row says by now.
MarkAlwaysSent(f) ==
    /\ flush[f].pc = "mark"
    /\ \/ Marked(Min(flush[f].left), "sent") /\ FlushDone(f) /\ UNCHANGED faults
       \/ MayFault /\ flush' = [flush EXCEPT ![f] = NoTask] /\ UNCHANGED outbox
    /\ UNCHANGED <<nodes, classified, review, batch, promotion, unqueued>>

MarkReviewOutbox(f) ==
    /\ flush[f].pc = "mark"
    /\ \/ /\ Marked(Min(flush[f].left), flush[f].outcome)
          /\ FlushDone(f) /\ UNCHANGED faults
       \/ MayFault /\ flush' = [flush EXCEPT ![f] = NoTask] /\ UNCHANGED outbox
    /\ UNCHANGED <<nodes, classified, review, batch, promotion, unqueued>>

Flush(f) == ListPending(f) \/ PushReviewItem(f) \/ MarkReviewOutbox(f)

-----------------------------------------------------------------------------
(***************************************************************************)
(* Decisions: POST approve, the promote tasks, and POST reject.            *)
(***************************************************************************)
Pending == {i \in review : i.status = "pending"}

Decided(i, status) == (review \ {i}) \cup {[i EXCEPT !.status = status]}

Get(p) ==
    /\ promotion[p] = NoTask
    /\ \E i \in Pending :
          promotion' = [promotion EXCEPT ![p] = [pc |-> "activate", payload |-> i.payload]]
    /\ UNCHANGED <<nodes, classified, outbox, review, batch, flush, unqueued, faults>>

Activated(p) == [nodes EXCEPT ![promotion[p].payload.node].status = "active"]

Activating(p) == promotion' = [promotion EXCEPT ![p].pc = "approve"]

ActivateIgnoresError(p) ==
    /\ promotion[p].pc = "activate" /\ Activating(p)
    /\ \/ nodes' = Activated(p) /\ UNCHANGED faults
       \/ MayFault /\ nodes' \in {nodes, Activated(p)}
    /\ UNCHANGED <<classified, outbox, review, batch, flush, unqueued>>

ActivateSymptom(p) ==
    /\ promotion[p].pc = "activate"
    /\ \/ nodes' = Activated(p) /\ Activating(p) /\ UNCHANGED faults
       \/ /\ MayFault /\ nodes' \in {nodes, Activated(p)}
          /\ promotion' = [promotion EXCEPT ![p] = NoTask]
    /\ UNCHANGED <<classified, outbox, review, batch, flush, unqueued>>

ApproveAnyway(p) ==
    /\ promotion[p].pc = "approve"
    /\ promotion' = [promotion EXCEPT ![p] = NoTask]
    /\ \E i \in review : i.payload = promotion[p].payload /\ review' = Decided(i, "approved")
    /\ UNCHANGED <<nodes, classified, outbox, batch, flush, unqueued, faults>>

\* No row to update is no error.
MarkApproved(p) ==
    /\ promotion[p].pc = "approve"
    /\ promotion' = [promotion EXCEPT ![p] = NoTask]
    /\ \/ /\ \E i \in Pending :
                i.payload = promotion[p].payload /\ review' = Decided(i, "approved")
          /\ UNCHANGED faults
       \/ /\ \A i \in Pending : i.payload # promotion[p].payload
          /\ UNCHANGED <<review, faults>>
       \/ MayFault /\ UNCHANGED review
    /\ UNCHANGED <<nodes, classified, outbox, batch, flush, unqueued>>

Approve(p) == Get(p) \/ ActivateSymptom(p) \/ MarkApproved(p)

MarkRejected ==
    /\ \E i \in Pending : review' = Decided(i, "rejected")
    /\ UNCHANGED <<nodes, classified, outbox, batch, flush, promotion, unqueued, faults>>

\* A process dies, and what it was doing ends where it is.
ProcessDies ==
    /\ MayFault
    /\ \/ /\ \E c \in Classifier : batch[c] # NoTask /\ batch' = [batch EXCEPT ![c] = NoTask]
          /\ UNCHANGED <<flush, promotion>>
       \/ /\ \E f \in Flusher : flush[f] # NoTask /\ flush' = [flush EXCEPT ![f] = NoTask]
          /\ UNCHANGED <<batch, promotion>>
       \/ /\ \E p \in Reviewer :
                promotion[p] # NoTask /\ promotion' = [promotion EXCEPT ![p] = NoTask]
          /\ UNCHANGED <<batch, flush>>
    /\ UNCHANGED <<nodes, classified, outbox, review, unqueued>>

ProposalsNext ==
    \/ \E c \in Classifier : Classify(c)
    \/ \E f \in Flusher : Flush(f)
    \/ \E p \in Reviewer : Approve(p)
    \/ MarkRejected \/ ProcessDies

ProposalsSpec == ProposalsInit /\ [][ProposalsNext]_proposalVars

\* The scheduler asks for a flush every minute, and every call of one has a timeout.
ProposalsFairSpec == ProposalsSpec /\ \A f \in Flusher : WF_proposalVars(Flush(f))

-----------------------------------------------------------------------------
(***************************************************************************)
(* Properties.                                                             *)
(***************************************************************************)

InReview(k) == \E i \in review : i.payload = outbox[k].payload

(***************************************************************************)
(* TestRunEnqueuesNewSymptomForReview: a report is not classified with a   *)
(* new symptom that nobody will review.  It stays unclassified until its   *)
(* proposal is in the outbox, over retries and deaths in between, unless   *)
(* the write to the outbox failed, which classifyOne only logs.            *)
(***************************************************************************)
NewSymptomIsProposed ==
    \A rec \in classified :
        rec.isNew /\ rec.report \notin unqueued =>
            \E k \in DOMAIN outbox : outbox[k].payload.node = rec.node

(***************************************************************************)
(* A row of the outbox is sent only when the review queue has its item,    *)
(* however flushes overlap and answers are lost: sent rows are not looked  *)
(* at again.                                                               *)
(***************************************************************************)
SentIsInReview ==
    \A k \in DOMAIN outbox :
        outbox[k].status = "sent" => InReview(k)

(***************************************************************************)
(* promote: an approved item has its symptom activated, whatever failed on *)
(* the way and whoever approved at the same time.                          *)
(***************************************************************************)
ApprovedIsActive ==
    \A i \in review : i.status = "approved" => nodes[i.payload.node].status = "active"

(***************************************************************************)
(* A decision stands: an approval in progress does not override a          *)
(* rejection made meanwhile, nor the other way around.                     *)
(***************************************************************************)
DecisionStands ==
    [][\A i \in review : i.status # "pending" => i \in review']_proposalVars

(***************************************************************************)
(* Every proposal reaches the review queue or has used up its attempts,    *)
(* also behind one that the main application always refuses.               *)
(***************************************************************************)
Unsettled(r) ==
    {k \in DOMAIN outbox : /\ outbox[k].payload.report = r
                           /\ outbox[k].attempts < AttemptLimit /\ ~InReview(k)}

ProposalsReachReview == \A r \in Report : Unsettled(r) # {} ~> Unsettled(r) = {}


(***************************************************************************)
(* Both: the outbox, the review and the symptoms do not contradict each    *)
(* other, whatever was flushed or approved twice.                          *)
(***************************************************************************)
ReviewIsFaithful == SentIsInReview /\ ApprovedIsActive
===============================================================================
