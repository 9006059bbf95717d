SPECIFICATION CenterSpec
CONSTANTS
    p1 = p1
    p2 = p2
    t1 = t1
    t2 = t2
    s1 = s1
    NoPartner = NoPartner
    Sessions = {t1, s1}
    Tabs = {t1}
    Partners = {p1}
    Snapshots = {1, 2}
    Documents <- AllReady
    Ready <- ReadyInOne
    DocVersion <- SameDocuments
    Content <- DataNumber
    AuthorizedModes = {"DRAFT", "SEND"}
    MaxAuths = 2
    MaxFaults = 0
INVARIANTS
    SendFollowsAuthorization
    SentUnderAuthorization
PROPERTIES
    NeverReactivated
