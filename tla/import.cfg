SPECIFICATION FairSpec
CONSTANTS
    Policy <- MCPolicy
    MaxDefinitions = 3
    MaxSnapshots = 1
    MaxSourceNodes = 4
    MaxNesting = 3
    MaxClipboardNodes = 4
    CurrentVersion = "3"
    Missing = Missing
    KnownCapabilities = {"layout.auto.v1"}
    Documents <- MCDocuments
    Foreign <- MCForeign
    Payloads <- MCPayloads
    Templates <- MCTemplates
    Supplied <- MCSupplied
    Presets <- MCPresets
    Candidates <- MCCandidates
    Registered <- MCRegistered
    MaxMinted = 14
    MaxPage = 5
INVARIANTS DocumentStaysSound PastedPicturesKept LockedNodesKept UndoneOrRefused BudgetVerdictIsRight
PROPERTIES ChainEnds
CHECK_DEADLOCK FALSE
