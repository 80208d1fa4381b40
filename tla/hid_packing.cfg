SPECIFICATION Spec
CONSTANTS
    Items <- LayoutItems
    MaxCollections = 3
    MaxStack = 1
    MaxUsages = 2
    MaxFields = 3
    MaxItems = 7
INVARIANT AllFieldsPacked
CHECK_DEADLOCK FALSE
