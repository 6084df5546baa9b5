\* Two bridges whose configurations name the same vlan interface.
SPECIFICATION Spec
CONSTANTS
  Bridges <- TwoBridges
  Nics <- OneNic
  Vlans <- OneVlan
  Veths = {}
  Parent <- ParentOfVlan
  Index = {1, 2, 3, 4, 5, 6, 7, 8}
  FirstIndex <- FirstIndexes
  NoLink = "nolink"
  Labels = {}
  Everywhere <- Everyone
  Confs <- WithVlan
  NoConf <- None
  Prebuilt = {}
  Outside = {}
  Faults = {}
  MaxQueue = 1
INVARIANTS OneManager
