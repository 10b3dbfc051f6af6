SPECIFICATION Spec
CONSTANTS
    gone = gone
    unrendered = unrendered
    norun = norun
    junk = junk
    Gone = gone
    Unrendered = unrendered
    NoRun = norun
    Junk = junk
    Projects <- Passing
    TargetOrder <- Order
    DocsOf <- Docs
    Document <- AllDocument
    ContentsOf <- OneFile
    Bad = "bad"
    Settings <- AllSettings
    Selections <- AllSelections
    Workers <- AllWorkers
    MaxEdits <- EditBounds
    EditsDuringRuns <- Busy
    MaxCrashes <- CrashBounds
INVARIANTS UpToDateIsExact FullRunExact FullRunSettles
