---------------------------- MODULE MCBridgeDaemon ----------------------------
(***************************************************************************)
(* Small nodes for TLC: links and labels are strings so that index 1, 2,   *)
(* ... can be given to them in a fixed order.                              *)
(***************************************************************************)
EXTENDS BridgeDaemon

\* A selector that no node of these runs has.
Everyone == "everyone"
Conf(sel, ports) == [sel |-> sel, ports |-> ports]
None == [sel |-> "none", ports |-> {}]

\* Two bridges that compete for one interface, and a pod interface.
TwoBridges == {"br0", "br1"}
OneBridge == {"br0"}
OneNic == {"eth0"}
OneVlan == {"eth0.1"}
OneVeth == {"veth"}

ParentOfNone == [v \in {} |-> "eth0"]
ParentOfVlan == [v \in OneVlan |-> "eth0"]

FirstIndexes ==
  [l \in Links |-> CASE l = "br0" -> 1 [] l = "br1" -> 2 [] l = "eth0" -> 3
                     [] l = "veth" -> 4 [] OTHER -> 5]

WithNic == {Conf(Everyone, OneNic)}
WithVlan == {Conf(Everyone, OneVlan)}
EverywhereOrMarked == {Conf(Everyone, {}), Conf("marked", {})}
MarkedVlanOrNone == {Conf("marked", OneVlan), Conf(Everyone, {})}

\* Every request but the lookup that bridgeIsConfigured takes for an answer, and every
\* one without which records and bridges can still be had.
OwnershipFaults == (Requests \ {"bridgeIsConfigured"}) \cup {"crash", "node", "relabel"}
ProgressFaults == (Requests \ {"LinkAdd", "LinkList"}) \cup {"crash", "relabel"}

=============================================================================
