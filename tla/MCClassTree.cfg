SPECIFICATION TreeSpec
CONSTANTS
    NoPath = NoPath
    NameOrder <- MCNameOrder
    ComposeTargetName = FALSE
    ClassWildcards = TRUE
    IgnoreClassNotFound = FALSE
    Universe <- MCUniverse
    ClassRefs <- MCClassRefs
    Includers <- MCIncluders
    ClassLists <- MCClassLists
INVARIANTS ShadowingIsReversible ExpansionSettles
PROPERTY ProbesDecide
