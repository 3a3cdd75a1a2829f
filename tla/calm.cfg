SPECIFICATION Spec
CONSTANTS
    Actors  <- Keepers
    Env     = {}
    MaxPush = 3
    Overlap = {}
INVARIANTS
    TypeOK
    WatermarkSound
    SkipSound
