SPECIFICATION FairSpec
CONSTANTS
    Actors  <- Sweeping
    Env     = {}
    MaxPush = 2
    Overlap = {}
PROPERTIES
    TagsCopied
