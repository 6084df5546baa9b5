\* Restarts of the manager and the daemon, broken watches and signals at any step.
SPECIFICATION FairSpec
CONSTANTS
  Confs <- OneConf
  Contents <- TwoContents
  None = "none"
  MaxPending = 3
  Loops <- TwoLoops
  MaxSignals = 1
INVARIANTS TypeOK NotificationsFit StoreFollows HandlersFollow
PROPERTIES ConfsArrive DeletedConfsLeave StopsOnceListed
