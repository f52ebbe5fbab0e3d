CONSTANTS
    BatchSize = 2
    Modulus = 8
    ReportedHeights <- SafeHeights
    Endpoints = {e1, e2}
    DefaultEndpoint = e1
    NoValue = NoValue

SPECIFICATION FairSpec

INVARIANT TypeOK
INVARIANT SyncFlagMatchesStatus
INVARIANT SyncedMeansCaughtUp
INVARIANT SyncedCoversAllHeights

PROPERTY SyncTerminates
PROPERTY HeightNeverBacktracksInRun
PROPERTY SyncRefinesAbstract
