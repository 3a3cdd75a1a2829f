SPECIFICATION Spec
CONSTANTS
    Actors  <- Keepers
    Env     = {"fail"}
    MaxPush = 2
    Overlap = {}
PROPERTIES
    OnlyCopyKept
