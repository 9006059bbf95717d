CONSTANTS
    None = None
    Null = Null
    Blank = Blank
    Bad = Bad
    NoSnapshot = NoSnapshot
    Missing = Missing
    Invalid = Invalid
    Precision = 4
    PolicyVersion = "cashco_legacy_v1"
    Meaning <- MCMeaning
    RequiredFields <- MCRequired
    AdminTables <- MCAdminTables
    ScopeTables <- MCScopeTables
    RstTables <- MCRstTables
    ColumnMaps <- MCColumnMaps
    Periods <- MCPeriods
    Conflicts <- MCConflicts
    Duplicates <- MCDuplicates
    Issues <- MCIssues
    SourceFiles <- MCSources
    CanonicalOrders <- MCCanonical
    EvidenceSets <- MCEvidence
    Histories <- MCHistories
    Cases <- MCCases
SPECIFICATION AnalysisSpec
INVARIANTS
    EligibleIsScopedAndUncontested
    EnrichedFromAgreeingRows
    DiagnosisAddsUp
    AutoResolvableIsHarmless
    CertificateStandsForHistory
