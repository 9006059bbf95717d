SPECIFICATION ReviewSpec
CONSTANTS
    None = None
    Restaurants = {"a", "b"}
    Evaluations <- MCEvaluations
    Sessions = {1, 2}
    OpenPages = {{1, 2}, {3, 4}, {5, 6}}
    MayValidate = {1, 2}
    MayLock = {1, 2}
    MaxEvents = 4
    MaxChanges = 2
    Registries <- MCRegistries
    Statements <- MCStatements
    BankReferences = {"x"}
    Officers = {3, 4}
    MaxHistory = 3
    Workspaces <- MCWorkspaces
    Failures <- MCFailures
    Reviewers = {5, 6}
    Decisions = {"IN_REVIEW", "RESOLVED"}
    MaxDecisions = 2
CHECK_DEADLOCK FALSE
CONSTRAINT Followed
INVARIANTS
    LockedFiguresWereValidated
    HistoryExplainsItself
    ReconciliationIsSound
    DecidedIssuesWereSeen
PROPERTIES
    ValidatedPaysWhatIsShown
