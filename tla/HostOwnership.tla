----------------------------- MODULE HostOwnership -----------------------------
(***************************************************************************)
(* What bridge-operator-daemon promises the node it runs on, whatever      *)
(* happens to the process: of the links of the node it deletes only those  *)
(* it created, it takes an interface only when no bridge holds it, and it  *)
(* takes a port off a bridge only if it put it there.  "Create, update,    *)
(* delete" of README.md, without the machinery (registry, handlers,        *)
(* restarts) that has to keep the promise.                                 *)
(***************************************************************************)
CONSTANTS Bridges, Nics, Vlans, Veths, NoLink

VARIABLES
  present,   \* the links that exist
  ours,      \* the bridges and vlan interfaces the operator created
  on,        \* on[p]: the bridge p is a port of, or NoLink
  by         \* the ports that the operator put where they are

host == <<present, ours, on, by>>

Ports == Nics \cup Vlans \cup Veths

Free(p) == on[p] = NoLink

\* The ports of b are free when b is gone.
WithoutBridge(b) == [p \in Ports |-> IF on[p] = b THEN NoLink ELSE on[p]]

Init ==
  /\ present \in SUBSET (Bridges \cup Ports)
  /\ ours = {} /\ by = {}
  /\ on \in [Ports -> (present \cap Bridges) \cup {NoLink}]
  /\ \A p \in Ports \ present : Free(p)

Create(l) ==
  /\ l \notin present
  /\ present' = present \cup {l} /\ ours' = ours \cup {l}
  /\ UNCHANGED <<on, by>>

DeleteBridge(b) ==
  /\ b \in ours
  /\ present' = present \ {b} /\ ours' = ours \ {b}
  /\ on' = WithoutBridge(b)
  /\ by' = {p \in by : on[p] # b}

DeleteVlan(v) ==
  /\ v \in ours /\ Free(v)
  /\ present' = present \ {v} /\ ours' = ours \ {v}
  /\ UNCHANGED <<on, by>>

\* A vlan interface may also be taken over from another bridge.
Join(p, b) ==
  /\ {p, b} \subseteq present
  /\ p \in Nics => Free(p)
  /\ on' = [on EXCEPT ![p] = b] /\ by' = by \cup {p}
  /\ UNCHANGED <<present, ours>>

Leave(p) ==
  /\ p \in by
  /\ on' = [on EXCEPT ![p] = NoLink] /\ by' = by \ {p}
  /\ UNCHANGED <<present, ours>>

Operator ==
  \/ \E l \in Bridges \cup Vlans : Create(l)
  \/ \E b \in Bridges : DeleteBridge(b)
  \/ \E v \in Vlans : DeleteVlan(v)
  \/ \E p \in Nics \cup Vlans, b \in Bridges : Join(p, b)
  \/ \E p \in Nics \cup Vlans : Leave(p)

\* The pods' interfaces come and go as the bridge CNI plugin wants.
Pod(v) ==
  /\ present' \in {present \cup {v}, present \ {v}}
  /\ \E b \in (present \cap Bridges) \cup {NoLink} : on' = [on EXCEPT ![v] = b]
  /\ v \notin present' => on'[v] = NoLink
  /\ UNCHANGED <<ours, by>>

Next == Operator \/ \E v \in Veths : Pod(v)

Spec == Init /\ [][Next]_host

=============================================================================
