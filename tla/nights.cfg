SPECIFICATION FairSpec
CONSTANTS
    Actors  <- Nights
    Env     = {}
    MaxPush = 2
    Overlap = {"backup", "backup_sweep"}
PROPERTIES
    SweepConvergesUntorn
    OnlyCopyKept
    RedundantOnly
INVARIANT ReconcileTruthful
