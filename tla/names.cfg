SPECIFICATION FairSpec
CONSTANTS
    r1 = r1
    r2 = r2
    a = a
    b = b
    c = c
    Nothing = Nothing
    Ids <- Repos
    Names <- Three
    Starts <- Both
    MaxEvents = 3
INVARIANTS
    TypeOK
    NoOrphan
PROPERTIES
    SyncKeepsFiles
    SyncComplete
    SyncSettles
