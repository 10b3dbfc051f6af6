SPECIFICATION Spec
CONSTANTS
    noRef = noRef
    anyType = anyType
    NoRef = noRef
    AnyType = anyType
    Projects <- MCProjects
    FilesOf <- AllFiles
    ModulesOf <- AllModules
    LayersOf <- AllLayers
    RefsOf <- AllRefs
    DefaultOf <- AllDefaults
    Archives = {"zip"}
CHECK_DEADLOCK FALSE
INVARIANTS FilesAreWhole SettledIsOffline
PROPERTY UnforcedKeepsFiles
