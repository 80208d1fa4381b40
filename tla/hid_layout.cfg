SPECIFICATION Spec
CONSTANTS
    Items <- LayoutItems
    MaxCollections = 2
    MaxStack = 1
    MaxUsages = 2
    MaxFields = 6
    MaxItems = 8
INVARIANTS TypeOK NestingKept ReportsTile FirstByteFindsSize SameApplication
CHECK_DEADLOCK FALSE
