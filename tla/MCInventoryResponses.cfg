SPECIFICATION Spec
CONSTANTS
    MainSlots = 1
    HotbarSlots = 1
    MaxStackCount = 2
    ItemTypes = {stone}
    NoItem = NoItem
    Creative = FALSE
    RequestIDs = {1, 2}
    ResponseCap = 1
    Namespaces <- OneNamePerRequest
    MaxStackID = 3
INVARIANTS
    ClientViewAccurate
    ResponsesBounded
