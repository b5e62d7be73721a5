SPECIFICATION PipelineSpec
CONSTANTS
    Message <- PipelineMessages
    Account <- MCAccount
    Customer <- MCCustomer
    Company <- MCCompany
    Proc = {"api1"}
    ProcOf <- OneProcess
    Request = {"r1", "r2"}
    Stripe = {0, 1, 2, 3}
    NoRequest = NoRequest
    ChannelOf <- MCChannelOf
    CustomerOf <- MCCustomerOf
    RefsOf <- MCRefsOf
    AccountsOf <- MCAccountsOf
    CompanyOf <- MCCompanyOf
    StripeOf <- MCStripeOf
    AssessAsync = TRUE
    LineBot = {"globex"}
    Faults <- CrashFault
    MaxAttempts = 2
    Slot = {"w1"}
    MaxRetry <- MCMaxRetry
    WorkerFaults <- DeathOfWorker
    ByHand = TRUE
    Tenant = "acme"
PROPERTIES
    OneTicketPerThread
CONSTRAINT
    OneByOne
CHECK_DEADLOCK FALSE
