# bridge-operator in TLA+

bridge-operator configures Linux bridges on the nodes of a Kubernetes cluster.
Users write `BridgeConfiguration` objects (a node selector, egress interfaces,
egress vlan interfaces); on every node a daemon creates the bridge, attaches the
interfaces, undoes both when the object goes, keeps a record of which bridges and
ports it may undo, and reports that record as `BridgeInformation` objects.  This
directory models the daemon and the manager that deploys it, checks them with TLC
and proves the safety properties with TLAPS.  Paths below are relative to the repository.

## 1. The system

| component | code | state | operations |
|---|---|---|---|
| links of the node | the kernel, through the vendored `vishvananda/netlink` | names, indexes, masters, vlan ids of the ports | `LinkByName`, `LinkByIndex`, `LinkList`, `LinkAdd`, `LinkDel`, `LinkSetMaster`, `LinkSetNoMaster`, `BridgeVlanAdd`, `BridgeVlanDel` |
| registry | `pkg/server/server.go:62-87,290-369` | `managedBridges`, `managedBridgePorts` | `SetBridgeManagement`, `UnsetBridgeManagement`, `SetPortManagement`, `RemovePortManagement`, `IsPortManaged` |
| configuration handlers | `pkg/server/server.go:432-552`, `pkg/server/bridgeconfig.go` | locals of the informer's goroutine | `OnBridgeConfigAdd`, `OnBridgeConfigUpdate`, `OnBridgeConfigDelete` |
| port watch | `pkg/server/server.go:173-220` | locals of its goroutine (a `LinkList`) | one round every 3 s, or sooner |
| bridge watch | `pkg/server/server.go:387-402`, `bridgeconfig.go:325-418` | none | one round of vlan filtering over every configuration |
| information update | `pkg/server/server.go:218-288` | `BridgeInformation` objects at the API server | one round of list, delete, get or create, update |
| configuration informer | client-go, `pkg/client/informers`, `pkg/controllers/bridgeconfig.go:32-128` | connection, delta queue, store, waiting notifications | list, watch, relist, pop; `handleAdd/Update/DeleteBridgeConf` |
| change tracker | `pkg/controllers/bridgeconfig.go:130-250` | `items`, `BridgeConfMap` | `Update`, `apply`; nothing calls them in this commit |
| lifecycle | `cmd/bridge-operator-daemon/main.go`, `pkg/server/options.go`, `server.go:99-171,371-387,401-423` | two unbuffered stop channels, the signal channel | `NewServer`, `Run`, `Stop`, signals, start of the loops |
| frequency runner | vendored `k8s.io/kubernetes/pkg/util/async` | timer, limiter | `Loop`, `Run`, `tryRun` |
| manager | `main.go`, `controllers/` | the daemon's `DaemonSet` | create it at start; two empty reconcilers |
| API types, generated client | `api/`, `pkg/client/` | none | requests, deep copies |
| deployment | `config/`, `Makefile`, `Dockerfile*` | none | manifests |

How they meet.  The informer calls the handlers one after the other on one
goroutine; the three watch loops each have a goroutine.  All four share the two
maps of the registry.  The two mutexes are held over single assignments only and
no reader takes them, so any test may be out of date when the assignment that
follows it is made.  The kernel's links are shared with the bridge CNI plugin,
administrators and hardware.  A panic in any of the goroutines, or a kill, ends
the process; the DaemonSet starts it again with empty maps, and the informer
hands it every configuration as an Add, on a node that is as the last process
left it.  The reports of all nodes lie side by side at the API server; what keeps
the daemons apart there is the name of an object and the node in its status.

What is hard here, and what makes each part correct:

* *ownership*: the daemon may delete a bridge or a vlan interface only if it
  created it, detach a port only if it attached it, and take an interface only
  when it is free; all of this rests on marks in maps that other goroutines write,
  that are lost in a crash, and that are set before or after the step they are
  about;
* *the registry follows the kernel*: the port watch acts on a stale snapshot
  while handlers and CNI plugins move ports;
* *selectors*: whether a configuration selects the node is computed anew at each
  notification, from labels that change and that may fail to be read;
* *partial failure*: any request may fail between two others;
* *progress*: a configured bridge is there in the end, a deleted one is forgotten;
* *reports*: each is put together from two maps that change, over requests that fail
  or go unanswered, next to the reports of other nodes;
* *notifications*: a watch that breaks loses events, and what a relist makes up for
  them must fit what the handlers know;
* *start and stop*: the loops start after the first list only, and the stop is a
  meeting of goroutines on channels without a buffer.

`PROJECT.json` lists every hazard at its line.

## 2. The modules

| module | models |
|---|---|
| `NodeLinks` | the links of the node: `ifindex`, `master`, and the requests |
| `PortRegistry` | the two maps, each operation split at the lock |
| `BridgeDaemon` | handlers, port watch, bridge watch, informer, process, and what others do to the links; the properties |
| `HostOwnership` | the abstract specification: what the daemon promises its node |
| `VlanFilter` | the vlan filtering of one bridge by the handler and the bridge watch |
| `BridgeInfo` | `bridgeInfoUpdate` of several nodes against one API server |
| `ConfInformer` | the way of a configuration from the API server to the handlers |
| `DaemonProcess` | manager, process, loops and signals; extends `ConfInformer` |
| `ChangeTracker` | the change tracker and the map its changes are applied to |
| `LatestConfs` | the abstract specification: what tracker and map promise together |
| `MC...` | the constants of the TLC runs |
| `BridgeDaemonProofs` | `TypeCorrect` and lemmas about the operators |
| `OwnershipProofs` | the ports half of the ownership invariant, under any faults |
| `RefinementProofs` | the bridges half, that a bridge on record exists, and that `BridgeDaemon` implements `HostOwnership` |
| `MarksProofs` | marks are backed by the links, and no port has two managers |
| `VlanFilterProofs`, `BridgeInfoProofs`, `ChangeTrackerProofs` | the proofs about these modules |
| `DaemonProcessProofs` | the proofs about `DaemonProcess` and the `ConfInformer` in it |

`BridgeDaemon` composes `PortRegistry`, `NodeLinks` and a short form of the informer
(store and queue, no broken watch); `ConfInformer` is the long form, composed in
`DaemonProcess` with the life of the process.  `BridgeInfo` has the registry's
operations once more, each in one step and for several nodes: a report reads each map
once, so the finer steps of `PortRegistry` would show it nothing new.

### State and code

* `ifindex[l]` is 0 while link `l` does not exist.  The code looks links up by
  name and names them by index afterwards; `h.br`, `h.link`, `h.slave` and `w.idx`
  are the indexes that a goroutine still holds, and a request with an index that
  is no longer live fails.  The kernel counts indexes upwards; `NewIndex` takes one
  that neither a link has nor a goroutine holds, which the code cannot tell apart
  from a larger number.  A link that a run names gets its `FirstIndex` back when
  nobody holds it any more, so that equal nodes are equal states.
* `managedBridges[b]` and `managedBridgePorts[b][p]` are `"managed"` (true),
  `"unmanaged"` (false) or `"absent"` (no key); `portMaps` are the bridges with an
  inner map.  A write to the inner map of a bridge that has none is Go's "assignment
  to entry in nil map" panic (`WatchRecord`).
* `h` is the handler: `pc` says which call is next, `name` the configuration, `rem`
  and `add` the rest of `tobeRemove` and `tobeAdd`, `del` that it was called from
  `bridgeUnconfigured`.  Each pc is one netlink request or one access to the maps.
* `w` is the port watch: `snap` the rest of its `LinkList`, `left` and `ports` the
  rest of its two ranges over maps.  Go's range visits a key that stays, does not
  visit one that went before it was reached, and may or may not visit one that
  came: it visits it unless it is one of the `skipped` of `SetBridge` or `SetPortLocked`.
  (A key that goes after its visit and comes back within the same range is not visited
  a second time, as Go may; the next round visits it.)  `WatchBridge` takes the next key (`pc = "bridge"`), `WatchLookup` looks
  the bridge up, which may be off the record and gone by then.
* `store` and `queue` are the informer's: `Sync` brings the store up to date and
  queues a notification with the old and the new object, several edits coalescing
  into one.  `listed` are the bridges that the store has had a configuration for since
  the process started: what a round of the bridge watch may still have in its list.
* `made` and `joined` are history: the indexes of the links a daemon created, the
  ports whose master a daemon was the last to set.  No guard reads them.

| action | code |
|---|---|
| `OnBridgeConfigAdd/Update/Delete` | the node's labels, the selector, the branch taken |
| `IsConfigured`, `SetBridge`, `BridgeLinkAdd`, `BridgeLinkUp` | `bridgeIsConfigured`, `SetBridgeManagement`, `bridgeConfigured` |
| `bridgeUpdate`, `bridgeUnconfigured` | their `LinkByName` |
| `RemoveItem`, `LookupPort`, `Detach`, `VlanLinkDel`, `Forget` | the `tobeRemove` loops of both egress reconcilers |
| `AddItem`, `VlanLookup`, `VlanLinkAdd`, `SetPortManagement`, `SetPortLocked`, `Attach` | the `tobeAdd` loops |
| `CheckPorts`, `BridgeLinkDel`, `UnsetBridge` | the rest of `bridgeUnconfigured` and `OnBridgeConfigDelete` |
| `WatchLinks` ... `WatchDone` | `bridgePortWatch` |
| `BridgeWatch` | `bridgeWatch`, as far as it ends the process (`BridgeDaemon`) |
| `Crash`, `Panic`, `Restart` | the ends and starts of the process |

`VlanFilter` has the ports of one bridge with their vlan tables (`vlans`, `pvid`), and in
`r[g]` the round of goroutine `g`: first the tables it has read, then per egress port
the ids to delete and to add.  `BridgeVlanList`, `getBridgePorts`, `VlanDel`,
`VlanAdd` are one netlink request each.  It is checked on its own: it shares nothing
with `BridgeDaemon` but the ports, whose coming and going (`Join`, `Leave`) is left
entirely open here.

`BridgeInfo`: `objs[x]` is the status of object `x`.  `r[n]` is the round of node `n`:
`items` the rest of the list, `left` the rest of the range over `managedBridges` (a key
that goes and comes back may be passed over: `seen` in `UnsetBridgeManagement`), and
the object that is being filled in.  `fresh[n]` stands for the resourceVersion: it says
that nobody wrote the object since this round read it, and an `UpdateStatus` without it
is refused.  A `Create` that goes unanswered may have happened.  After any error of
`Create` the code goes on with the empty object that the client returned, whose
`UpdateStatus` the client refuses for want of a name: `name = Nobody`.

`ConfInformer`: `fifo` holds the deltas in the order in which they came, `store` is what
the lister returns, `listener` the notifications for the handlers, `view` (history) what
they were told last.  `Listed` is `DeltaFIFO.Replace`: what is in the list (`There`), then a
tombstone for what is in the store and neither in the list nor about to be deleted by the
queue (`GoneFromList`), each in any order, as Go ranges over a map.  The deltas of one
configuration are those of `fifo` with its name; `dedupDeltas` looks at the last of them
(`IsLast`).  `DaemonProcess` adds the goroutines: `main`, `catcher` (which ranges over
`signalCh` and blocks in `Options.Stop`), and the `loops`.  A send and a receive on a
channel without buffer are one step of both goroutines (`Stop`, `LoopStops`).

`ChangeTracker`: `items[n]` is the change kept for `n`, `todo` what the running `apply` has
still to make; the lock is held from `apply` to `Applied`.

### Abstractions to know of

* A configuration is a selector and a set of ports.  Duplicates in a list, and a
  vlan interface of which only the `protocol` changes, are left out; a vlan
  interface's name stands for its parent and id, as
  `generateEgressVlanInterfaceName` makes it.
* Of the selector only its three outcomes matter: everything, one label, or
  something `LabelSelectorAsMap` rejects (matches nothing).
* Masters are bridges of the model (no bonds, no bridges that no configuration
  could name).
* The handlers and watches may run before the informer's first sync; the code
  starts the watches after it, so the model has more interleavings, not fewer.
* A bridge is not a port of another bridge, and no configuration is named like a link
  that is not a bridge (the type assertion of `bridgeconfig.go:362` would panic on it).
* `WatchNewPort` is `LinkByIndex` and the tests of the maps in one step: what comes between
  them may as well come before `WatchRecord`, which is a step of its own.
* `VlanFilter` starts with a bridge that stays; a bridge that is gone makes every request
  fail (covered by `faults`) or ends the process (`BridgeWatch` in `BridgeDaemon`).  Of
  an entry's flags only PVID is kept: nothing in the code reads the other.
* `BridgeInfo` takes a port and its mark as one name (`Ports`), and its nodes are daemons
  that are always started again.
* `ConfInformer` has no resync, as the daemon's `ConfigSyncPeriod` is never set, and no
  objects of another type: the typed client decodes only `BridgeConfiguration`.
* `DaemonProcess` leaves out on which nodes the DaemonSet runs, the limiter's timing
  (`tryRun` may come at any time), and what a round does.
* Nothing calls `ChangeTracker`'s operations, so the model calls them as the handlers could:
  with the old and new object of each notification.
* The data race on the maps themselves (Go may abort on it) needs steps finer than
  one map access and is not modelled.

## 3. The runs

Every run of `MCBridgeDaemon` has one or two bridges, and an interface, a vlan or a pod interface where
its question needs one.  Two configurations suffice for every conflict of the
code, which compares pairs; one item per list suffices because the items of a list
share nothing but the registry.  `MaxQueue` is 1: the handler takes one
notification at a time and reads nothing ahead.  Eight indexes are more than
the links and the held indexes of any state need (`HaveFresh` never blocks a step
there).

| run | shows |
|---|---|
| `Ownership` | two bridges compete for one interface, one of the bridges was there before, attaching and detaching may fail, the process dies anywhere: `ManagedPortIsAttached`, a bridge on record exists but for two moments (`RecordedBridgeExists`), and every step is one `HostOwnership` allows |
| `Vlans` | two configurations name one vlan interface: never marked managed in both (`OneManager`) |
| `Faults` | one bridge and a vlan interface, both possibly there before, edits, relabelling, crashes, failing node reads, any netlink request failing but one: types, `ManagedBridgeIsOurs`, the inductive invariant, `HostOwnership`, the daemon detaches only what a daemon attached (`LeavesOthersPorts`) and deletes only vlan interfaces that a daemon made (`DeletesOwnVlans`) |
| `Liveness` | one bridge, possibly there before, and a pod interface that comes and goes; edits, relabelling, crashes, netlink requests that fail: the records settle on the links (`RecordsFollow`), the bridge comes to exist (`ConfiguredBridgeExists`), a deleted configuration leaves the books (`DeletedIsForgotten`) |
| `VlanFilter` | one egress port, one pod, two ids, one failing request, both goroutines: ids in use reach the egress port and stay (`UsedVlansReachEgress`), others go (`UnusedVlansLeaveEgress`), untagged frames pass where no id is in use (`UntaggedGetsThrough`) |
| `Reports` | two nodes, one bridge each, one fault (a failing or unanswered request, or a user who deletes a report), crashes: reports settle on the records (`ReportsSettle`), no daemon touches the other's (`KeepsOthersReports`, `ReportsNamed`) |
| `Changes` | three configurations with two contents: the tracker is the difference between map and notifications (`TracksDifference`), the map goes from snapshot to snapshot (`AppliesLatest`, the refinement of `LatestConfs`) |
| `Process` | one configuration with two contents, three deltas or notifications on the way, two loops, one signal: notifications fit what handlers know (`NotificationsFit`), the store follows an open watch (`StoreFollows`), the handlers end up with what the lister returns (`HandlersFollow`), configurations arrive and leave, and a signal ends the process once the first list has come (`StopsOnceListed`) |

The constant `Faults` names what may fail.  The one request that the run `Faults` leaves out is the `LinkByName`
of `bridgeIsConfigured` (`bridgeconfig.go:66-76`): any error of it makes an existing bridge of
others count as absent, and then as the daemon's own, so that `ManagedBridgeIsOurs` and what
rests on it do not hold when it may fail.  `Liveness` leaves out `LinkAdd`, which is tried
once, and `LinkList`, without which the port watch sees nothing.  That a failing read of the
node is never made up for (`server.go:451`, `:533`) is why `Liveness` has none.

Two of the liveness properties are conditional, because the code is.
`ConfiguredBridgeExists` is about a bridge whose configurations select the node whenever an
Add of it is handled (`SelectsWhenAdded`): `OnBridgeConfigAdd` is the only place that
creates a bridge (`server.go:460`), and a configuration that comes to select the node by an
edit never gets one, against "false -> true: create new bridge" (`server.go:497`).
`DeletedIsForgotten` is about a bridge whose configurations select the node whenever a Delete
is handled (`SelectsWhenDeleted`): a configuration that was edited so that it no longer
matches, or whose node was relabelled, and is then deleted is never unset, because
`OnBridgeConfigDelete` returns (`server.go:541`).  `Liveness` has selectors that are edited
and labels that change, so the premises are met by some of its behaviours and not by others.

Why these bounds.  `Liveness` has one bridge and a pod interface only: two bridges meet only
in their ports, whichever of its requests about ports fail a handler goes on to the same
request about the bridge, and the port watch writes and erases records alike for every kind
of port; what a handler and the port watch do to one record at once is in `Ownership` and
`PortRace`.  Reports meet only in a name or in `Status.Node`, so two nodes are
enough for every conflict, and two rounds of one node never overlap.  In
`Process` one configuration suffices because configurations share only the connection;
two loops show one loop that takes the stop value and one that does not; three places for
deltas and notifications let a relist meet a delta and a notification of the time
before it.  In `Changes` three names let `apply` stop between two of them with a third
pending.  In `VlanFilter` and `Reports` faults are counted
down, so their liveness properties are about what follows the last of them.

Four more runs each check one sentence of the repository that the code does not
live up to; TLC finds a counterexample in each.

| run | sentence | what happens |
|---|---|---|
| `SelectorChange` | "true -> false: delete new bridge" (`server.go:511`) | both matches are computed from the old configuration, so the branch is never taken |
| `TwoEgress` | "delete vlan if not in newVlanIDs" (`bridgeconfig.go:333`) | the first egress port uses up the set of ids that the second is reconciled with (`bridgeconfig.go:341`): the second loses ids that pods use, until a later round |
| `PortRace` | "whether this port is manged by bridge-operator" (`types.go:140`) | the port watch records the port first, as unmanaged; it is never detached again |
| `BridgeWatchPanic` | "in the node that has the label" (`README.md:25`) | the daemons of all other nodes keep crashing |

More things the models show but no run states.

* After a restart the daemon takes its own
  bridges and interfaces for somebody else's and never undoes them (the safe direction,
  `KeepsOwnership`, is checked).
* A bridge that is there before its configuration never gets its interfaces, because
  `LinkAdd` fails first.
* Removing a vlan interface from one of two configurations that name it takes it off the
  other's bridge.
* `bridgePortWatch` dereferences the nil link of a bridge that is on record and not there
  (`server.go:202-206`), which is so between `SetBridgeManagement` and `LinkAdd` and between
  `LinkDel` and `UnsetBridgeManagement`; `RecordedBridgeExists` says that it is so at no
  other time while nobody else deletes the bridge.  The second window is wider for the
  panic than for the record: the range may have taken the key before `LinkDel` and look
  the bridge up after `UnsetBridgeManagement` (`server.go:201-202`, `WatchLookup`).
* `bridgeWatch` lists once per round: the bridge of a configuration that is deleted while
  the round goes on is looked up all the same, and its nil link dereferenced.
* A vlan interface whose `LinkSetUp` fails is found there by the next handler, marked
  unmanaged and never deleted; and one failing lookup of the port watch (`server.go:210-213`)
  loses the managed mark of a port for good.
* The check for unmanaged ports before `LinkDel` reads the records of the last port watch
  (`bridgeconfig.go:121-134`): a pod interface attached since then loses its bridge.
* Node `a` with bridge `b-c` and node `a-b` with bridge `c` write one report in turns: all
  that is said of reports supposes that names are distinct (`NamesDistinct`).
* A report that was created and never filled in, because the process died in between,
  carries no node: if its bridge goes too, no daemon deletes it.
* A configuration whose Add waits in the queue when the watch breaks, and that is deleted
  before the next list, stays in the store and with the handlers until a further relist:
  hence the premise of `DeletedConfsLeave`.
* Before the first list no loop runs, and a signal leaves `Server.Run` waiting on
  `syncRunnerStopCh` (`server.go:420`) until it has come; of the three loops one gets the
  stop value, the others end with the process.
* A manager that is started again finds its DaemonSet, and exits (`main.go:124-128`).
* `BridgeConfChangeTracker.Update` returns `len(items) >= 0`, which is always true.

### Fairness

`FairSpec` has weak fairness of the handler goroutine, of the port watch, of the
informer and of `Restart`: the Go scheduler runs a goroutine that can go on, the
frequency runner starts a round at least every 3 s, the informer's watch is
resumed until it is up to date, and the DaemonSet restarts the pod.  None is
assumed of `BridgeWatch` (all it can do in that model is end the process), of
users, of others, or of any fault.  `BridgeInfo` has weak fairness of every node's
`bridgeInfoUpdate`, for the same reason.  `DaemonProcess` has weak fairness of what runs in
the process (the informer's two goroutines, the catcher, the start of the loops, the end
of a round) and strong fairness of the stop: a loop at its `select` with the stop and a
timer ready picks one at random, so it does not pick the timer for ever.  Nothing is
assumed of the API server, of the manager, of users, or that a watch is reopened; the
properties that need it say so in their premises.  `VlanFilter` has weak fairness of both
goroutines, and its liveness is about behaviours with at most `MaxFaults` failing requests.  The liveness properties are conditional on the
process staying up from some point on, because panics alone can keep it from ever
doing anything (`BridgeWatchPanic` shows one).

## 4. The proofs

* `BridgeDaemonProofs!TypeCorrect`: `Spec => []TypeOK`, for all constants that
  satisfy the assumptions.  `TypeOK` says more than types: a bridge has an inner map
  exactly when it has a mark, and `h.pc = "writePort"` implies that the handler's
  bridge has one, which is why only the port watch can hit the nil map.
* `OwnershipProofs`: with `Outside \subseteq Veths` (others touch pod interfaces
  only) and any faults, `LinksConsistent /\ PortMarksTrue` is inductive: indexes are
  unique, a master is a bridge that exists, and whatever is marked managed, or is
  held by the handler between its test and its `LinkSetNoMaster` or `LinkDel`, was
  attached (a vlan interface: created) by a daemon.  The invariant must speak of the
  handler's program counter because the test and the act are separate steps, and of
  both the bridges' marks at once because two bridges may hold records of one port.
  `LeavesOthersPortsAlone` and `DeletesOwnVlansOnly` follow from it: what is held for a
  `LinkDel` is in `made`, and no other step of the handler in that place takes a link away.
* `RefinementProofs`: if in addition the lookup of `bridgeIsConfigured` does not fail at random, the
  bridges' marks are true too (`BridgeMarksTrue`); section 3 says why
  the assumption is needed.  `OwnershipInv` is then inductive, `ManagedBridgeOurs` and
  `DaemonKeepsOwnership` (`Spec => KeepsOwnership`, the refinement of
  `HostOwnership`) follow: the mapping takes links to their names, and one lemma per
  kind of request (`LinkAdd`, `LinkDel`, `LinkSetMaster`, ...) shows that it maps to
  the abstract step or to a stutter; every other action leaves the mapped state alone.
* `RefinementProofs!RecordedBridgesExist`: if nobody else deletes bridges
  (`Outside \cap Bridges = {}`) and `LinkAdd` does not fail at random, a bridge on record
  exists outside the two gaps of its handler.  With the types it is inductive as it stands:
  the record is written and erased by the handler alone, the gap before `LinkAdd` is left
  only with the bridge there, and the gap after `LinkDel` only with the record gone.  Both
  hypotheses are needed: a `LinkAdd` that fails for no reason leaves the record without its
  bridge, and so does an administrator who deletes it.
* `MarksProofs`: again with `Outside \subseteq Veths` and any faults.  `OneManager` alone is
  not inductive: a mark is written steps after the test it rests on.  `MarksInv` adds that
  a managed mark is backed by the link (`MarksBacked`: the port is on that bridge), that a
  handler about to write one holds what it says (`ClaimsBacked`), and that pod interfaces are
  never managed (`VethsUnmanaged`).  Backed marks of one port in two bridges would put it on
  two bridges at once; `OneManagerCorrect` and `ManagedPortsAttached` follow.
* `VlanFilterProofs`: `TypeCorrect`, for every bridge and any number of failing requests.
* `BridgeInfoProofs`: `TypeCorrect`, `ReportsNamedCorrect` (a report is named by the node and
  bridge in its status, and what a round holds is named by its node; inductive together
  with the types), and from it `OthersReportsKept`, which needs `NamesDistinct`.
* `ChangeTrackerProofs`: `TypeCorrect`, `TracksCorrect`, and `TrackerAppliesLatest`: the map as
  it was when the running `apply` began (`appliedBar`) implements `LatestConfs`; `apply` and
  its single steps map to stutters, `Applied` to the snapshot.
* `DaemonProcessProofs`: for any finite set of configurations, any contents and loops, and
  queues of any length.  `TypeCorrect`; `NotificationsAlwaysFit`, `StoreAlwaysFollows` and
  `HandlersAlwaysFollow`.  `NotificationsFit` is not inductive: what `Pop`
  hands on fits only if the delta did.  `ConfInv` adds `DeltasFit` (each waiting deletion is of
  what the store will have when it is its turn) and takes the other two in: an event of the
  watch deletes what `StoreFollows` says was told last, a tombstone is of what the store has,
  or will have from a put that waits, and the new notification is fitted to the last one
  by `HandlersFollow`.  The lemmas `Appended` and `Taken` say what appending to a queue and
  taking its head do to the neighbours of one configuration; `NamedOnce`, that a list names
  everything once.  TLC found `ConfInv` to hold of two configurations before it was proved.

The assumptions on constants that all of this rests on are `LinkAssumption`,
`DaemonAssumption`, `VlanAssumption`, `InfoAssumption`, `AbsentAssumption`, `InformerAssumption` and
`ProcessAssumption`: names are distinct, a vlan interface has a parent, markers are not data,
`Confs` is finite, bounds are natural numbers.  TLC evaluates them in the runs.

Every invariant and every action property of the passing runs is proved.  Only
model-checked are the liveness properties (temporal proofs under fairness are out of the
prover's reach): `RecordsFollow`, `ConfiguredBridgeExists`, `DeletedIsForgotten`,
`UsedVlansReachEgress`, `UnusedVlansLeaveEgress`, `UntaggedGetsThrough`, `ReportsSettle`,
`ConfsArrive`, `DeletedConfsLeave`, `StopsOnceListed`.

## 5. What is left

1. The liveness of `VlanFilter` with two egress ports, where `TwoEgress` shows ids to come and
   go, and with two configurations: the present bounds already take much of a run's time.
2. `BridgeDaemon` on top of `ConfInformer`: the handlers' properties under broken watches.  The
   short form's notifications have as their old object what the store had, and those of the
   long form fit what the handlers know (`NotificationsAlwaysFit`), up to a tombstone's content.

### Not modelled, and why

The client's `Update`, `Patch` and `DeleteCollection`, its fakes, and the factory's `Shutdown` and
`WaitForCacheSync` are generated code that nothing calls.  Scheme registration is
declarations, and a deep copy is what a value is in TLA+ anyway.  The two reconcilers of the manager are
empty.  Manifests and build files hold no state.  Of the frequency runner only the timing
is left out: a loop may start a round whenever the last one has ended.  Events are
recorded by nobody: the broadcaster is started and never given one.
