SPECIFICATION FairSpec
CONSTANTS
    Actors  <- Keepers
    Env     = {"vanish"}
    MaxPush = 2
    Overlap = {}
INVARIANTS
    RecordedHeld
    ReconcileTruthful
PROPERTIES
    OnlyCopyKept
    PromiseKept
    SweepConvergesUntorn
