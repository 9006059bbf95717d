SPECIFICATION SourcesSpec
CONSTANTS
    None = None
    Unreadable = Unreadable
    Runs = {1, 2}
    Files = {1, 2}
    Artifacts <- MCArtifacts
    Folders <- SmallFolders
    Usable <- MCUsable
    Configured = {}
    Attempts = 3
    MaxFaults = 1
    MaxChanges = 1
    Checks = {1, 2}
    Kinds <- MCKinds
    DriveFiles = {1, 2}
    Shapes <- MCShapes
    Drives <- MCDrives
    Accesses <- MCAccesses
    MaxEdits = 1
CHECK_DEADLOCK FALSE
INVARIANTS
    EveryRowAccountedFor
    EveryVersionIsReported
    ReadyMeansSeen
PROPERTIES
    PublishesAllOrNothing
