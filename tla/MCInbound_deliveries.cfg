SPECIFICATION Spec
CONSTANTS
    Message <- ThreadMessages
    Account <- MCAccount
    Customer <- MCCustomer
    Company <- MCCompany
    Proc = {"api1"}
    ProcOf <- OneProcess
    Request = {"r1", "r2"}
    Stripe = {0, 1, 2, 3}
    NoRequest = NoRequest
    ChannelOf <- MCChannelOf
    CustomerOf <- MCCustomerOf
    RefsOf <- MCRefsOf
    AccountsOf <- MCAccountsOf
    CompanyOf <- MCCompanyOf
    StripeOf <- MCStripeOf
    AssessAsync = TRUE
    LineBot = {"globex"}
    Faults <- AllFaults
    MaxAttempts = 2
INVARIANTS
    TypeOK
    StoredOncePerLock
    NoOrphanMessage
    OneJobPerConversation
CONSTRAINT
    OneChannel
CHECK_DEADLOCK FALSE
