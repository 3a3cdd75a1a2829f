SPECIFICATION Spec
CONSTANTS
    Actors  <- Everyone
    Env     = {"fail", "lose", "rot", "vanish"}
    MaxPush = 2
    Overlap = {}
INVARIANTS
    WatermarkBehindSync
PROPERTIES
    CloneRetired
    BundleRetired
