----------------------------- MODULE DaemonProcess -----------------------------
(***************************************************************************)
(* The life of the daemon on one node: the manager (main.go) creates the   *)
(* DaemonSet, the kubelet keeps a process running, its main goroutine      *)
(* starts the informer (ConfInformer) and waits for a signal, the          *)
(* goroutine of BridgeConfConfig.Run waits for the first list and starts   *)
(* the three loops, and a signal makes its way from the catcher's channel  *)
(* over stopCh to syncRunnerStopCh, on which the loops listen.             *)
(***************************************************************************)
EXTENDS ConfInformer

CONSTANTS
  Loops,       \* the frequency runners of the server
  MaxSignals   \* the capacity of signalCh: more signals are dropped

ASSUME ProcessAssumption == MaxSignals \in Nat

VARIABLES
  manager,     \* the manager: "down", "setup" or "active"
  daemonSet,   \* is the DaemonSet there
  main,        \* the main goroutine: "off", "new", "waiting" or "stopping"
  signals,     \* the signals in signalCh
  catcher,     \* the goroutine of main.go: "idle", or "stop" in Options.Stop
  loops        \* loops[l]: "off", "select" or "running"

process == <<main, signals, catcher, loops>>
vars == <<api, informer, process, manager, daemonSet>>

Init ==
  /\ api \in [Confs -> Contents \cup {None}]
  /\ InformerOff
  /\ main = "off" /\ signals = 0 /\ catcher = "idle" /\ loops = [l \in Loops |-> "off"]
  /\ manager = "down" /\ daemonSet = FALSE

Up == main \in {"waiting", "stopping"}

(***************************************************************************)
(* The manager.                                                            *)
(***************************************************************************)
SetupManager ==
  /\ manager = "down" /\ manager' = "setup"
  /\ UNCHANGED <<api, informer, process, daemonSet>>

\* Create, and only then mgr.Start; any error, AlreadyExists too, is the end of it.  The
\* DaemonSet may have been made although no answer came.
CreateDaemonSet ==
  /\ manager = "setup"
  /\ \/ ~daemonSet /\ daemonSet' = TRUE /\ manager' = "active"
     \/ daemonSet' \in {daemonSet, TRUE} /\ manager' = "down"
  /\ UNCHANGED <<api, informer, process>>

ManagerDies ==
  /\ manager # "down" /\ manager' = "down"
  /\ UNCHANGED <<api, informer, process, daemonSet>>

(***************************************************************************)
(* The process of the daemon.                                              *)
(***************************************************************************)
\* The kubelet starts a container, at first and whenever the last one has ended.
StartDaemon ==
  /\ daemonSet /\ main = "off"
  /\ main' = "new"
  /\ UNCHANGED <<api, informer, signals, catcher, loops, manager, daemonSet>>

\* What was in the memory of the process goes with it.
Exits ==
  /\ main' = "off" /\ signals' = 0 /\ catcher' = "idle"
  /\ loops' = [l \in Loops |-> "off"]
  /\ InformerReset
  /\ UNCHANGED <<api, manager, daemonSet>>

\* Mutant: the informer is never started.
NewServerAlone ==
  /\ main = "new" /\ main' = "waiting"
  /\ UNCHANGED <<api, informer, signals, catcher, loops, manager, daemonSet>>

\* Server.Run registers the handlers, starts the informer and waits for stopCh.
Run ==
  /\ main' = "waiting" /\ conn' = "list"
  /\ UNCHANGED <<api, fifo, populated, initial, store, listener, view, signals, catcher,
                 loops, manager, daemonSet>>

\* A kubeconfig, client or host name that cannot be had ends the process.
NewServer == main = "new" /\ (Run \/ Exits)

Kill == (Up \/ main = "new") /\ Exits

Signal ==
  /\ Up \/ main = "new"
  /\ signals < MaxSignals /\ signals' = signals + 1
  /\ UNCHANGED <<api, informer, main, catcher, loops, manager, daemonSet>>

Catch ==
  /\ catcher = "idle" /\ signals > 0
  /\ catcher' = "stop" /\ signals' = signals - 1
  /\ UNCHANGED <<api, informer, main, loops, manager, daemonSet>>

\* stopCh has no buffer: Options.Stop and Server.Run meet.
Stop ==
  /\ catcher = "stop" /\ main = "waiting"
  /\ catcher' = "idle" /\ main' = "stopping"
  /\ UNCHANGED <<api, informer, signals, loops, manager, daemonSet>>

\* BridgeConfConfig.Run, in a goroutine of its own: WaitForNamedCacheSync and then
\* OnBridgeConfigSynced, one loop after the other.
OnBridgeConfigSynced(l) ==
  /\ Up /\ HasSynced /\ loops[l] = "off"
  /\ loops' = [loops EXCEPT ![l] = "select"]
  /\ UNCHANGED <<api, informer, main, signals, catcher, manager, daemonSet>>

\* The timer or a Run wakes the loop and the limiter lets it.
tryRun(l) ==
  /\ Up /\ loops[l] = "select"
  /\ loops' = [loops EXCEPT ![l] = "running"]
  /\ UNCHANGED <<api, informer, main, signals, catcher, manager, daemonSet>>

Ran(l) ==
  /\ Up /\ loops[l] = "running"
  /\ loops' = [loops EXCEPT ![l] = "select"]
  /\ UNCHANGED <<api, informer, main, signals, catcher, manager, daemonSet>>

\* Mutant: the loops never look at the channel.
NoLoopStops(l) == FALSE /\ UNCHANGED vars

\* syncRunnerStopCh has no buffer: Server.Run and one loop at its select meet.  Run
\* returns, and with it main: the other loops go in the middle of what they do.
LoopStops(l) == main = "stopping" /\ loops[l] = "select" /\ Exits

Informer ==
  /\ Up
  /\ Disconnect \/ List \/ Pop \/ Handle
  /\ UNCHANGED <<process, manager, daemonSet>>

Users ==
  /\ \E c \in Confs, content \in Contents \cup {None} : Change(c, content)
  /\ UNCHANGED <<process, manager, daemonSet>>

Next ==
  \/ SetupManager \/ CreateDaemonSet \/ ManagerDies
  \/ StartDaemon \/ NewServer \/ Kill \/ Signal \/ Catch \/ Stop
  \/ \E l \in Loops : OnBridgeConfigSynced(l) \/ tryRun(l) \/ Ran(l) \/ LoopStops(l)
  \/ Informer \/ Users

Spec == Init /\ [][Next]_vars

\* The goroutines of the process run when they can; a select picks at random among
\* what is ready, so the stop is not passed over for ever.  Nothing is assumed of the
\* API server, of users and of the manager.
Fairness ==
  /\ WF_vars(Up /\ (Pop \/ Handle) /\ UNCHANGED <<process, manager, daemonSet>>)
  /\ WF_vars(Catch) /\ WF_vars(Stop)
  /\ \A l \in Loops : WF_vars(OnBridgeConfigSynced(l)) /\ WF_vars(Ran(l))
  /\ SF_vars(\E l \in Loops : LoopStops(l))

FairSpec == Spec /\ Fairness

(***************************************************************************)
(* Properties.                                                             *)
(***************************************************************************)
Deltas == [conf : Confs, kind : {"put", "gone", "tombstone"}, content : Contents]

Notifications == [conf : Confs, old : Contents \cup {None}, new : Contents \cup {None},
                  tombstone : BOOLEAN]

Configurations == [Confs -> Contents \cup {None}]

\* The shape of every variable: a process that is not up has nothing but its state.
TypeOK ==
  /\ api \in Configurations /\ store \in Configurations /\ view \in Configurations
  /\ conn \in {"off", "list", "watch"} /\ populated \in BOOLEAN
  /\ fifo \in Seq(Deltas) /\ listener \in Seq(Notifications) /\ initial \in 0 .. Len(fifo)
  /\ manager \in {"down", "setup", "active"} /\ daemonSet \in BOOLEAN
  /\ main \in {"off", "new", "waiting", "stopping"}
  /\ signals \in 0 .. MaxSignals /\ catcher \in {"idle", "stop"}
  /\ loops \in [Loops -> {"off", "select", "running"}]
  /\ Up <=> conn # "off"
  /\ ~Up => InformerOff /\ \A l \in Loops : loops[l] = "off"
  /\ main = "off" => signals = 0 /\ catcher = "idle"

\* A configuration that stays as it is reaches the handlers as it is, if the process
\* and a watch stay, whatever was changed and lost before.
ConfsArrive ==
  \A c \in Confs, content \in Contents :
    <>[](Up /\ conn = "watch" /\ api[c] = content) => <>[](view[c] = content)

\* A configuration that is gone for good is gone for the handlers, if relists keep
\* coming.  (One relist is not enough: it does not see what waits in the queue and is
\* not yet in the store, and with no further relist such a configuration stays.)
DeletedConfsLeave ==
  \A c \in Confs :
    <>[](Up /\ api[c] = None) /\ []<>(conn = "list") /\ []<>(conn = "watch")
      => <>[](view[c] = None)

\* A signal ends the process if the first list has come, busy as the loops may be and
\* however the connection fares then.  (Before the first list no loop listens on
\* syncRunnerStopCh, and Server.Run waits at server.go:420.)
StopsOnceListed ==
  (signals > 0 \/ catcher = "stop") /\ main = "waiting" /\ populated ~> main = "off"

=============================================================================
