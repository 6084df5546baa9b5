----------------------------- MODULE PortRegistry -----------------------------
(***************************************************************************)
(* What the daemon remembers of the bridges and ports it looks after: the  *)
(* maps Server.managedBridges and managedBridgePortsInfo.managedBridgePorts*)
(* of pkg/server/server.go.  A key that is missing from a map is "absent"; *)
(* portMaps is the set of bridges that have an inner map.                  *)
(*                                                                         *)
(* The mutexes are held over single writes only, and every reader reads    *)
(* without them, so each critical section is one step and each unlocked    *)
(* test is a step of its own wherever another thread can come in between.  *)
(***************************************************************************)
EXTENDS NodeLinks

VARIABLES
  managedBridges,      \* managedBridges[b]: TRUE, FALSE or no such key
  portMaps,            \* the keys of managedBridgePorts
  managedBridgePorts   \* managedBridgePorts[b][p]: TRUE, FALSE or no such key

registry == <<managedBridges, portMaps, managedBridgePorts>>

Mark == {"absent", "managed", "unmanaged"}

\* Mutant: managed and unmanaged swapped.
MarkInverted(isManaged) == IF isManaged THEN "unmanaged" ELSE "managed"

MarkOf(isManaged) == IF isManaged THEN "managed" ELSE "unmanaged"

NoPorts == [p \in Ports |-> "absent"]

RegistryInit ==
  /\ managedBridges = [b \in Bridges |-> "absent"]
  /\ portMaps = {}
  /\ managedBridgePorts = [b \in Bridges |-> NoPorts]

\* The process is gone, and the maps with it.
RegistryLost ==
  /\ managedBridges' = [b \in Bridges |-> "absent"]
  /\ portMaps' = {}
  /\ managedBridgePorts' = [b \in Bridges |-> NoPorts]

\* Keeps what a key already says (both of its errors leave the map alone).
SetBridgeManagement(b, mark) ==
  IF managedBridges[b] # "absent"
  THEN UNCHANGED registry
  ELSE /\ managedBridges' = [managedBridges EXCEPT ![b] = mark]
       /\ portMaps' = portMaps \cup {b}
       /\ managedBridgePorts' =
            IF b \in portMaps THEN managedBridgePorts
                              ELSE [managedBridgePorts EXCEPT ![b] = NoPorts]

\* Mutant: only the bridge's own entry goes, its map of ports stays.
UnsetKeepsPortMap(b) ==
  /\ managedBridges' = [managedBridges EXCEPT ![b] = "absent"]
  /\ UNCHANGED <<portMaps, managedBridgePorts>>

UnsetBridgeManagement(b) ==
  /\ managedBridges' = [managedBridges EXCEPT ![b] = "absent"]
  /\ portMaps' = portMaps \ {b}
  /\ managedBridgePorts' = [managedBridgePorts EXCEPT ![b] = NoPorts]

\* Mutant: every port on record counts as managed.
IsPortRecorded(b, p) == b \in portMaps /\ managedBridgePorts[b][p] # "absent"

IsPortManaged(b, p) == b \in portMaps /\ managedBridgePorts[b][p] = "managed"

Recorded(b) == {p \in Ports : b \in portMaps /\ managedBridgePorts[b][p] # "absent"}

\* The unlocked test of SetPortManagement ...
CanSetPort(b, p) == b \in portMaps /\ managedBridgePorts[b][p] = "absent"

\* ... and the assignment under the mutex, for a bridge that has a map.
WritePort(b, p, mark) ==
  /\ managedBridgePorts' = [managedBridgePorts EXCEPT ![b][p] = mark]
  /\ UNCHANGED <<managedBridges, portMaps>>

\* Mutant: the record stays.
RemoveNothing(b, p) == UNCHANGED registry

RemovePortManagement(b, p) ==
  /\ managedBridgePorts' =
       IF b \in portMaps THEN [managedBridgePorts EXCEPT ![b][p] = "absent"]
                         ELSE managedBridgePorts
  /\ UNCHANGED <<managedBridges, portMaps>>

=============================================================================
