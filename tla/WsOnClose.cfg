CONSTANTS
    MaxFrame = 4
    MaxControl = 4
    Slots <- MCSlots
    Conns <- MCConns
    Descriptors <- MCDescriptors
    Users <- MCUsers
    Threshold = 1
    Scenarios <- MCScenarios
SPECIFICATION Spec
CHECK_DEADLOCK FALSE
INVARIANT
    OnCloseAlwaysOccurs
