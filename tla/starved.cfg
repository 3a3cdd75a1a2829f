SPECIFICATION FairSpec
CONSTANTS
    r1 = r1
    r2 = r2
    r3 = r3
    daily = daily
    hourly = hourly
    h1 = h1
    h2 = h2
    Listing <- Three
    Broken <- First
    Limit = 2
    Schedules = {daily, hourly}
    Default = daily
    Handlers = {h1}
    MaxEvents = 0
PROPERTIES
    OthersServed
