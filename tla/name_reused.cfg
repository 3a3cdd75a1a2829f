SPECIFICATION Spec
CONSTANTS
    r1 = r1
    r2 = r2
    a = a
    b = b
    c = c
    Nothing = Nothing
    Ids <- Repos
    Names <- TwoNames
    Starts <- Both
    MaxEvents = 2
PROPERTIES
    GoneKept
