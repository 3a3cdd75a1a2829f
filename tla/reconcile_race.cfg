SPECIFICATION Spec
CONSTANTS
    Actors  <- Meeting
    Env     = {}
    MaxPush = 2
    Overlap <- Meeting
PROPERTIES
    RedundantOnly
