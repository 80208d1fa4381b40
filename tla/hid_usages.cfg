SPECIFICATION Spec
CONSTANTS
    Items <- UsageItems
    MaxCollections = 1
    MaxStack = 1
    MaxUsages = 2
    MaxFields = 4
    MaxItems = 6
PROPERTY UsagesAssigned
CHECK_DEADLOCK FALSE
