SPECIFICATION FairSpec
CONSTANTS
    Mice = {"m1", "m2", "m3"}
    Vendor <- MCVendor
    Product <- MCProduct
    NoMouse = NoMouse
    MaxDisturbances = 3
CHECK_DEADLOCK FALSE
INVARIANTS TypeOK ServedAlike
PROPERTIES UnfinishedStays EventuallyRuns
