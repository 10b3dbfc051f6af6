SPECIFICATION Spec
CONSTANTS
    noKey = noKey
    noSecret = noSecret
    noPin = noPin
    free = free
    NoKey = noKey
    NoSecret = noSecret
    NoPin = noPin
    Free = free
    Projects <- MCProjects
CHECK_DEADLOCK FALSE
INVARIANTS OutputsMatchFiles TargetsResolve VaultHasTheSecrets RotationIsComplete
PROPERTY ExistingRefsKept
