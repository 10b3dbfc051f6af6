SPECIFICATION FairSpec
CONSTANTS
    c1 = c1
    Clients <- OneClient
    HistoryLimit = 2
    MaxPasses = 4
    MaxEpochs = 3
CHECK_DEADLOCK FALSE
INVARIANTS AnswersComplete NothingMissed
PROPERTIES EveryPassReachesClients EditorsFollowRestarts
