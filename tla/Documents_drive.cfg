SPECIFICATION Spec
CONSTANTS
    None = None
    Actors = {"s1", "s2", "p1", "p2"}
    Teams = {{"s1", "s2"}, {"p1", "p2"}}
    Callers = {"s1", "s2"}
    Scripts = {"p1", "p2"}
    Registry <- MCRegistry
    RSTIds = {"a", "b"}
    Sheets <- MCSheets
    Kinds = {"INVOICE", "PARTNER_STATEMENT"}
    Settlements <- MCSettlements
    TTL = 2
    MaxClock = 4
    MaxVersions = 2
    MaxFaults = 2
    MaxRuns = 4
    Unit = 4
CONSTRAINT Followed
CHECK_DEADLOCK FALSE
INVARIANTS
    AnswersAreFreshOrFlagged
    PublishedRowsHoldTheirFile
    PublishedOnce
    PublishedNamesAreUndisputed
    PublishedFiguresAddUp
