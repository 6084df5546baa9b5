\* The port watch records an interface between LinkSetMaster and SetPortManagement.
SPECIFICATION Spec
CONSTANTS
  Bridges <- OneBridge
  Nics <- OneNic
  Vlans = {}
  Veths = {}
  Parent <- ParentOfNone
  Index = {1, 2, 3, 4, 5, 6, 7, 8}
  FirstIndex <- FirstIndexes
  NoLink = "nolink"
  Labels = {}
  Everywhere <- Everyone
  Confs <- WithNic
  NoConf <- None
  Prebuilt = {}
  Outside = {}
  Faults = {}
  MaxQueue = 1
PROPERTY AttachedIsManaged
