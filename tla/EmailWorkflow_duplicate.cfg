SPECIFICATION Spec
CONSTANTS
    p1 = p1
    p2 = p2
    s1 = s1
    s2 = s2
    NoPartner = NoPartner
    Sessions = {s1, s2}
    Partners = {p1, p2}
    Snapshots = {1}
    DocVersion <- SameDocuments
    Content <- DataNumber
    AuthorizedModes = {"DRAFT", "SEND"}
    MaxAuths = 1
    MaxFaults = 1
SYMMETRY NameSymmetry
INVARIANTS
    AtMostOneDelivery
