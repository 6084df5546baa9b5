------------------------------ MODULE LatestConfs ------------------------------
(***************************************************************************)
(* What BridgeConfMap and BridgeConfChangeTracker promise together: the    *)
(* map is a snapshot of the configurations that were notified, taken all   *)
(* at once, whatever came and went between two snapshots.                  *)
(***************************************************************************)
CONSTANTS Names, Confs, Absent

VARIABLES
  latest,   \* latest[n]: the configuration n as last notified, or Absent
  applied   \* applied[n]: the configuration n at the last snapshot

vars == <<latest, applied>>

Init ==
  /\ latest = [n \in Names |-> Absent]
  /\ applied = [n \in Names |-> Absent]

Notify(n, conf) ==
  /\ latest' = [latest EXCEPT ![n] = conf]
  /\ UNCHANGED applied

Snapshot ==
  /\ applied' = latest
  /\ UNCHANGED latest

Next == (\E n \in Names, conf \in Confs \cup {Absent} : Notify(n, conf)) \/ Snapshot

Spec == Init /\ [][Next]_vars

=============================================================================
