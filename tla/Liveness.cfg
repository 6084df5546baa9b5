\* One bridge that may have been there before, and a pod interface that others add, attach,
\* detach and delete; the configuration is edited between a selector and none, the node
\* relabelled, netlink requests fail, the process is killed.  Fairness as in FairSpec.
SPECIFICATION FairSpec
CONSTANTS
  Bridges <- OneBridge
  Nics = {}
  Vlans = {}
  Veths <- OneVeth
  Parent <- ParentOfNone
  Index = {1, 2, 3, 4, 5, 6, 7, 8}
  FirstIndex <- FirstIndexes
  NoLink = "nolink"
  Labels = {"marked"}
  Everywhere <- Everyone
  Confs <- EverywhereOrMarked
  NoConf <- None
  Prebuilt = {"br0"}
  Outside <- OneVeth
  Faults <- ProgressFaults
  MaxQueue = 1
PROPERTIES RecordsFollow ConfiguredBridgeExists DeletedIsForgotten
