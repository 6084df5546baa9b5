\* Two bridges compete for one interface, one of them may have been there before;
\* it may fail to be attached or detached, and the process is killed or panics at any step.
\* Everyone is selected by every configuration.
SPECIFICATION Spec
CONSTANTS
  Bridges <- TwoBridges
  Nics <- OneNic
  Vlans = {}
  Veths = {}
  Parent <- ParentOfNone
  Index = {1, 2, 3, 4, 5, 6, 7, 8}
  FirstIndex <- FirstIndexes
  NoLink = "nolink"
  Labels = {}
  Everywhere <- Everyone
  Confs <- WithNic
  NoConf <- None
  Prebuilt = {"br0"}
  Outside = {}
  Faults = {"crash", "LinkSetMaster", "LinkSetNoMaster"}
  MaxQueue = 1
INVARIANTS ManagedPortIsAttached RecordedBridgeExists
PROPERTY KeepsOwnership
