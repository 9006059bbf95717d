SPECIFICATION FairSpec
CONSTANTS
    Publishers = {"p1"}
    Packages = {"m1"}
    Docs = {"d1"}
    Contents = {"c1", "c2", "c3", "c4"}
    Pdfs = {"c1", "c2", "c3", "c4"}
    Rendering <- SamePages
    Figures <- OwnPages
    Drafts = {"c4"}
    MaxChanges = 2
    MaxVersion = 3
    MaxRetries = 1
INVARIANTS
    CurrentIsStored
    BatchIsCurrent
    AttachmentsMatch
PROPERTIES
    WithdrawnForSuccessor
    BatchEnds
