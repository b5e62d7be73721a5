SPECIFICATION MCSpec
CONSTANTS
    Slot = {"w1", "w2"}
    QueueJob <- AllJobs
    MaxRetry <- MCMaxRetry
    WorkerFaults = {"assess", "queue", "commit", "post", "reply", "die"}
    Report <- MCReport
    Answers <- MCAnswers
    Refused <- MCRefused
    Classifier = {"c"}
    Flusher = {"f", "g"}
    Reviewer = {"p", "q"}
    BatchLimit = 3
    FlushLimit = 1
    AttemptLimit = 2
    MaxFaults = 1
INVARIANTS
    MCTypeOK
    PromotedIsTicketed
    NewSymptomIsProposed
    ReviewIsFaithful
PROPERTIES
    TicketTaskSettles
    DecisionStands
    ProposalsReachReview
CHECK_DEADLOCK FALSE
