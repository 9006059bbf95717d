SPECIFICATION Spec
CONSTANTS
    None = None
    Scripts = {p1, p2}
    Packages = {"a"}
    Configs <- MCConfigs
    MaxRows = 4
    MaxFaults = 1
    Clerks = {c1, c2}
    Types <- MCTypes
    DraftsEnabled = TRUE
    SendsEnabled = TRUE
    MaxFigures = 2
    MaxDocuments = 2
    MaxAuthorizations = 2
    MaxMessages = 2
    MaxRecords = 2
SYMMETRY Symmetry
CHECK_DEADLOCK FALSE
INVARIANTS
    OneDraftPerKey
    DraftAnswersAreTrue
    InvalidatedDocumentsAreStale
    DeliveredFiguresWereApproved
    ResendIsExplained
