SPECIFICATION Spec
CONSTANTS
    File <- Files
    Key <- Keys
    Others = "other"
    Program <- Programs
    Projects <- AllProjects
    Settings = {"now", "other"}
    Absent = Absent
    Bad = Bad
    Late = Late
    Made = Made
    NoSettings = NoSettings
    NoRun = NoRun
INVARIANT SettlesAtOnce
PROPERTY ReuseIsInvisible
