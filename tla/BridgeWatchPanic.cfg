\* A configuration that selects other nodes only: bridgeWatch takes this daemon down.
SPECIFICATION Spec
CONSTANTS
  Bridges <- OneBridge
  Nics <- OneNic
  Vlans = {}
  Veths = {}
  Parent <- ParentOfNone
  Index = {1, 2, 3, 4, 5, 6, 7, 8}
  FirstIndex <- FirstIndexes
  NoLink = "nolink"
  Labels = {"marked"}
  Everywhere <- Everyone
  Confs <- EverywhereOrMarked
  NoConf <- None
  Prebuilt = {}
  Outside = {}
  Faults = {}
  MaxQueue = 1
PROPERTY OtherNodesConfigIsHarmless
