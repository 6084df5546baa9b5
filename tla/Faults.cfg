\* One bridge and a vlan interface, either of which may have been there before; its
\* configuration is edited between a selector and none, the node relabelled, the node read
\* or any netlink request fails, the process is killed at any step.
SPECIFICATION Spec
CONSTANTS
  Bridges <- OneBridge
  Nics <- OneNic
  Vlans <- OneVlan
  Veths = {}
  Parent <- ParentOfVlan
  Index = {1, 2, 3, 4, 5, 6, 7, 8}
  FirstIndex <- FirstIndexes
  NoLink = "nolink"
  Labels = {"marked"}
  Everywhere <- Everyone
  Confs <- MarkedVlanOrNone
  NoConf <- None
  Prebuilt = {"br0", "eth0.1"}
  Outside = {}
  Faults <- OwnershipFaults
  MaxQueue = 1
INVARIANTS TypeOK ManagedBridgeIsOurs OwnershipInv
PROPERTIES KeepsOwnership LeavesOthersPorts DeletesOwnVlans
