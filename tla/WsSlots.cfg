CONSTANTS
    MaxFrame = 4
    MaxControl = 4
    Slots <- MCSlots
    Conns <- MCConns
    Descriptors <- MCDescriptors
    Users <- MCUsers
    Threshold = 1
    Scenarios <- MCFewScenarios
SPECIFICATION Spec
CHECK_DEADLOCK FALSE
PROPERTY
    SlotsComeBack
