---------------------------- MODULE MCDaemonProcess ----------------------------
(***************************************************************************)
(* One configuration with two contents, and two of the three loops.        *)
(***************************************************************************)
EXTENDS DaemonProcess

OneConf == {"x"}
TwoContents == {"c1", "c2"}
TwoLoops == {"bridgeWatcher", "bridgePortWatcher"}

=============================================================================
