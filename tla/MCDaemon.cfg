SPECIFICATION Spec
CONSTANTS
    absent = absent
    nopath = nopath
    Absent = absent
    NoPath = nopath
    NameOrder <- MCNameOrder
    ComposeTargetName = FALSE
    ClassWildcards = TRUE
    IgnoreClassNotFound = FALSE
    Path <- MCPath
    Real <- MCReal
    Document <- MCDocument
    Outside <- MCOutside
    ConfigSource <- MCConfigSource
    Worlds <- Passing
    InitialDisks <- MCInitialDisks
    Versions <- MCVersions
    Trees <- MCTrees
    MaxEdits <- MCMaxEdits
    Lossy <- MCLossy
CHECK_DEADLOCK FALSE
INVARIANTS IndexExact AnswersCoverSpecs StaleOnlyIfPending SettledExact
