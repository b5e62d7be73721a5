SPECIFICATION MCSpec
CONSTANTS
    Tenant = {1, 2}
    Database = {"own", "other"}
    Server = {p, q}
    Central = "central"
    Nothing = Nothing
    Token <- MCToken
    Route = {"reply", "models"}
    Family <- MCFamily
    Timeout = {0, 3}
    Policy <- MCPolicy
    Ttl = 1
    Skew = 1
    Horizon = 4
    GatewayPlans <- MCGatewayPlans
    Caller = {p, q}
    Refresher = {r, s}
    Connection <- MCConnection
    Model = {"m", "n"}
    Offered <- MCOffered
    Routes <- MCRoutes
    TTL = 1
    Delay = 1
    Cooldown = 1
    Threshold = 2
    MaxRetries = 1
    EditModes = {"quota"}
    Pins <- MCPins
    Plans <- MCPlans
    Request = {1, 2}
    Vendor = {"v", "w"}
    Configured = "v"
    HTTPStatus = {0, 429}
    DayLength = 2
    DefaultDays = 2
    MaxDays = 2
    LatencyLimit = 2
    RecentLimit = 1
    Quotas <- MCQuotas
    Receiver = {p, q}
    Account = {1, 2, 3, 4}
    Registered <- MCRegistered
    Hook <- MCHooks
    EnvSecret = "env"
    Cases <- MCCases
    SenderCustomer <- MCSenderCustomer
    MaxAttachmentBytes = 3
    RoutingPlans <- MCRoutingPlans
    Conversation = {c1}
    Settings <- MCSettings
    Trees <- MCTrees
    Path <- MCPath
    Definitions <- MCDefinitions
    MaxProductHints = 2
    LineageMaxAncestors = 2
    MaxAttempts = 2
    AssessPlans <- MCAssessPlans
SYMMETRY Clerks
INVARIANTS
    MCTypeOK
    OneHandle
    RowsAreOwn
    StaleAtMost
    RedeliveryIsHarmless
    AssessmentIsGrounded
    ServedAsConfigured
    UsageIsCounted
PROPERTIES
    CooldownIsKept
    RoutedByPriority
    CatalogIsCurrent
CHECK_DEADLOCK FALSE
