------------------------------ MODULE NodeLinks ------------------------------
(***************************************************************************)
(* The network links of one node, as the daemon sees them through netlink: *)
(* which named links exist, under which interface index, and the bridge    *)
(* each port is enslaved to.  The kernel is not part of the repository; it *)
(* is modelled from the way pkg/server calls vishvananda/netlink: a link   *)
(* is looked up by NAME, every later request names it by INDEX, so a       *)
(* request made with an index that is no longer live fails.                *)
(***************************************************************************)
EXTENDS Naturals, FiniteSets

CONSTANTS
  Bridges,      \* names of the bridges that configurations may name
  Nics,         \* interfaces an EgressInterface may name
  Vlans,        \* vlan interfaces, as generateEgressVlanInterfaceName names them
  Veths,        \* ports that only others (the bridge CNI plugin) ever attach
  Parent,       \* Parent[v]: the interface the vlan interface v is made on
  Index,        \* interface indexes; 0 is "no link" and "no master"
  FirstIndex,   \* the index a link has if it exists when the story starts
  NoLink        \* not the name of any link

Ports == Nics \cup Vlans \cup Veths
Links == Bridges \cup Ports

ASSUME LinkAssumption ==
  /\ Bridges \cap Ports = {} /\ Nics \cap Vlans = {}
  /\ Nics \cap Veths = {} /\ Vlans \cap Veths = {}
  /\ NoLink \notin Links
  /\ Parent \in [Vlans -> Nics]
  /\ Index \subseteq Nat \ {0}
  /\ FirstIndex \in [Links -> Index]
  /\ \A k, l \in Links : FirstIndex[k] = FirstIndex[l] => k = l

VARIABLES
  ifindex,      \* ifindex[l]: the index of link l, 0 while there is no such link
  master        \* master[p]: the index of the bridge p is a port of, 0 if none

links == <<ifindex, master>>

Exists(l) == ifindex[l] # 0

\* The bridge that has index i (netlink.LinkByIndex), as a set of at most one.
BridgeAt(i) == {b \in Bridges : i # 0 /\ ifindex[b] = i}

\* Deleting an interface also deletes the vlan interfaces made on it.
GoneWith(l) == {l} \cup {v \in Vlans : Parent[v] = l}

LinkAdd(l, i) ==
  /\ ifindex' = [ifindex EXCEPT ![l] = i]
  /\ UNCHANGED master

LinkDel(l) ==
  /\ ifindex' = [k \in Links |-> IF k \in GoneWith(l) THEN 0 ELSE ifindex[k]]
  /\ master' = [p \in Ports |->
                  IF p \in GoneWith(l) \/ master[p] = ifindex[l] THEN 0 ELSE master[p]]

LinkSetMaster(p, i) ==
  /\ master' = [master EXCEPT ![p] = i]
  /\ UNCHANGED ifindex

LinkSetNoMaster(p) == LinkSetMaster(p, 0)

=============================================================================
