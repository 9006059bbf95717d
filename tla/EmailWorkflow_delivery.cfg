SPECIFICATION Spec
CONSTANTS
    p1 = p1
    p2 = p2
    s1 = s1
    s2 = s2
    NoPartner = NoPartner
    Sessions = {s1, s2}
    Partners = {p1, p2}
    Snapshots = {1, 2}
    DocVersion <- DataNumber
    Content <- DataNumber
    AuthorizedModes = {"DRAFT", "SEND"}
    MaxAuths = 2
    MaxFaults = 1
SYMMETRY NameSymmetry
INVARIANTS
    SentMeansDelivered
    UniqueActive
    CompleteCloseAddsUp
PROPERTIES
    NoSilentDuplicate
    ImplementsLedger
CONSTRAINT Followed
