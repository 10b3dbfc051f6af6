CONSTANTS
  Procs <- MCProcs
  Users <- MCUsers
  Jobs <- MCQuietJobs
  HelmProcs <- MCHelmProcs
  HelmThreads <- MCThreads
  HelmJobs <- MCHelmJobs
  Values <- MCValues
  Dirs <- MCDirs
  Quiet <- MCQuiet
  NoRequests <- MCIdle
SPECIFICATION CacheDirSpec
CHECK_DEADLOCK FALSE
INVARIANTS EnvironmentsAreExact RememberedIsTrue ChoiceIsRight ChartsAreTrue
