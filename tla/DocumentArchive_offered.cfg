SPECIFICATION Spec
CONSTANTS
    Publishers = {"p1"}
    Packages = {}
    Docs = {"d1"}
    Contents = {"c1", "c2"}
    Pdfs = {"c1", "c2"}
    Rendering <- OwnPages
    Figures <- OwnPages
    Drafts = {}
    MaxChanges = 1
    MaxVersion = 2
    MaxRetries = 1
INVARIANTS
    PublishedIsOffered
