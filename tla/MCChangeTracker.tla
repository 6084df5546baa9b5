---------------------------- MODULE MCChangeTracker ----------------------------
(***************************************************************************)
(* Three names and two contents for TLC.                                   *)
(***************************************************************************)
EXTENDS ChangeTracker

ThreeNames == {"x", "y", "z"}
TwoConfs == {"c1", "c2"}

=============================================================================
