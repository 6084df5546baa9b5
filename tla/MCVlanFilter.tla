---------------------------- MODULE MCVlanFilter ----------------------------
(***************************************************************************)
(* Small bridges for TLC.                                                  *)
(***************************************************************************)
EXTENDS VlanFilter

OneEgress == {"eth0"}
TwoEgresses == {"eth0", "eth1"}
OnePod == {"veth0"}

=============================================================================
