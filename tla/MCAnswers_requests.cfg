SPECIFICATION MCSpec
CONSTANTS
    Case = {1, 2, 3}
    Name = {"jam", "stuck", "slow"}
    Close <- MCClose
    Agent = {"p", "q"}
    SyncMax = 3
    SyncSlack = 1
    GraphLimit = 2
    Limit = 3
    Missions <- MCMissions
    Clerk = {c, d}
    Question = {"known", "new"}
    Tenant = {"us", "sub", "them"}
    Asker = "us"
    Coverage = {"us", "sub"}
    Article = {1, 2, 3}
    OwnerOf <- MCOwnerOf
    InGraph = {2}
    Chunk = {1, 2, 3}
    ArticleOf <- MCArticleOf
    ParentOf <- MCParentOf
    Matches <- MCMatches
    Indexed = {1, 2}
    Grades <- MCGrades
    MaxCandidates = 3
    MaxPerRequest = 3
    MaxPerWindow = 3
    DefaultMode = "fast_draft"
    MaxWindow = 2
    ReplyPlans <- MCReplyPlans
    Handler = {"q", "r"}
    User = {"u1", "u2"}
    EmployerOf <- MCEmployerOf
    Texts <- MCTexts
    Guesses = {1, 2, 3, 4}
    Roles <- MCRoles
    MaxCases = 5
    MaxSessions = 2
    ChatPlans <- MCChatPlans
SYMMETRY Clerks
INVARIANTS
    MCTypeOK
    SearchIsSound
    ReplyIsSound
    BudgetIsKept
    WritesAreConfirmed
PROPERTIES
    UsersAreApart
CHECK_DEADLOCK FALSE
