----------------------------- MODULE MCBridgeInfo -----------------------------
(***************************************************************************)
(* Small clusters for TLC, whose names of nodes and bridges have no dash.  *)
(***************************************************************************)
EXTENDS BridgeInfo, Sequences

TwoNodes == {"a", "b"}
OneBridge == {"br0"}

\* infoName := fmt.Sprintf("%s-%s", s.Hostname, bridgeName)
DashName == [n \in TwoNodes |-> [b \in OneBridge |-> n \o "-" \o b]]
DashNames == {DashName[n][b] : n \in TwoNodes, b \in OneBridge}

=============================================================================
