SPECIFICATION Spec
CONSTANTS
    MainSlots = 2
    HotbarSlots = 2
    MaxStackCount = 2
    ItemTypes = {stone}
    NoItem = NoItem
    Creative = TRUE
    RequestIDs = {0}
    ResponseCap = 1
    Namespaces <- OneName
    MaxStackID = 3
INVARIANTS
    TypeOK
    StackIDsUnique
    NoItemsCreated
    ClientViewAccurate
    HeldItemShown
