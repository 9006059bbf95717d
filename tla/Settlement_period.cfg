SPECIFICATION Spec
CONSTANTS
    None = None
    o1 = o1  o2 = o2  r1 = r1  r2 = r2  n1 = n1  n2 = n2
    Precision = 4
    Period <- MCPeriod
    MonthLength = 29
    Orders <- MCOrders
    RestaurantIds <- MCIds
    Names <- MCNames
    Contradicting <- MCContradicting
    Sources <- AllSources
    Followed <- TwoSources
    Evaluators = {e1}
    Reviewers = {u1, u2}
    ReviewChoices = {"PAY_PARTNER", "EXCLUDE"}
    MaxOverrides = 3
    MaxClock = 4
    MaxChanges = 1
    MaxEvaluations = 2
SYMMETRY ReviewerSymmetry
INVARIANTS
    PaidOnce
    ReadyAccountsForEveryOrder
    DecidingOverrideStands
CHECK_DEADLOCK FALSE
