SPECIFICATION Spec
CONSTANTS
    MainSlots = 2
    HotbarSlots = 2
    MaxStackCount = 2
    ItemTypes = {stone}
    NoItem = NoItem
    Creative = TRUE
    RequestIDs = {0}
    ResponseCap = 1
    Namespaces <- MixedNames
    MaxStackID = 3
INVARIANT NoItemsCreated
