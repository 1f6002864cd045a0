SPECIFICATION Spec
CONSTANTS
    MaxInterrupts = 2
    Folders = {1, 2, 3}
    SourcesBelow <- MCSourcesBelow
    DiskText <- MCDiskText
    Uris = {1, 2}
    FileOf <- MCFileOf
    Texts = {"a", "b", "long"}
    Oversized = {"long"}
    Versions = {1, 2}
    MaxRoots = 1
    MaxFiles = 2
    Files = {1, 2, 3, 4, 5, 6, 7}
    Kind <- MCKind
    Holds <- MCHolds
    Digests = {1, 2, 3, 4}
    Shards <- MCShards
    Cells = {"scalar", "low", "high"}
    Tables = {"table"}
    TableOf <- MCTableOf
    Max = 3
    MaxShards = 2
    Inputs <- MCInputs
    Destinations = {"executable", "profile"}
    RequestLists <- MCRequests
    FaultyOps = {"stage", "backup", "replace", "restore"}
    MaxFaults = 1
    KirFunctions = {f1, f2}
    Roots = 2
    Units <- MCUnits
    Work <- MCWork
    ModuleUnits = 13
    Scores = {8, 9, 10}
    Callers = {c1, c2}
INVARIANTS
    TypeOK
    NoOrphan
    UnmarkedIsExact
    MergesEveryListedRun
    OutputsFollowTraining
    OmissionIsReportedBelowLimits
    ArtifactIsVerified
    OnlyBrokenPassesFail
    OneVariantPerRoot
    BestTierForEveryHost
PROPERTIES
    InterruptReachesChild
    StrayOnlyBeforeDisarm
    OpenTextShadowsDisk
CHECK_DEADLOCK FALSE
