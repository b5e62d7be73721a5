SPECIFICATION PipelineFairSpec
CONSTANTS
    Message <- ProgressMessages
    Account <- MCAccount
    Customer <- MCCustomer
    Company <- MCCompany
    Proc = {"api1"}
    ProcOf <- OneProcess
    Request = {"r1", "r2"}
    Stripe = {0, 1, 2, 3}
    NoRequest = NoRequest
    ChannelOf <- MCChannelOf
    CustomerOf <- MCCustomerOf
    RefsOf <- MCRefsOf
    AccountsOf <- MCAccountsOf
    CompanyOf <- MCCompanyOf
    StripeOf <- MCStripeOf
    AssessAsync = TRUE
    LineBot = {"globex"}
    Faults <- GracefulFaults
    MaxAttempts = 3
    Slot = {"w1"}
    MaxRetry <- MCMaxRetry
    WorkerFaults <- AllWorkerFaults
    ByHand = FALSE
    Tenant = "acme"
INVARIANTS
    NoAbandonedConversation
PROPERTIES
    OpeningIsTicketed
    EverythingSettles
CONSTRAINT
    OneMessage
CHECK_DEADLOCK FALSE
