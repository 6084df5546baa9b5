----------------------------- MODULE BridgeDaemon -----------------------------
(***************************************************************************)
(* bridge-operator-daemon on one node (pkg/server): the informer's handler *)
(* goroutine running OnBridgeConfigAdd/Update/Delete, the port watch loop  *)
(* (bridgePortWatch) and the bridge watch loop (bridgeWatch) next to it,   *)
(* all on the unlocked maps of PortRegistry and the links of NodeLinks,    *)
(* with crashes, panics and restarts of the process.                       *)
(*                                                                         *)
(* One step is one netlink request or one access to the shared maps; what  *)
(* a goroutine keeps in its own variables between two of them is in h (the *)
(* handler) and w (the port watch).                                        *)
(***************************************************************************)
EXTENDS PortRegistry, Sequences

CONSTANTS
  Labels,       \* the node labels a configuration may select
  Everywhere,   \* the selector of a configuration with no nodeSelector
  Confs,        \* the BridgeConfigurations users write
  NoConf,       \* "there is no such configuration"
  Prebuilt,     \* links that may exist before the daemon is first deployed
  Outside,      \* links that others also create, delete, attach and detach
  Faults,       \* what may go wrong: netlink requests (Requests), the read of the
                \* node ("node"), the process ("crash"), the node's labels ("relabel")
  MaxQueue      \* bound on the notifications waiting for the handler

\* The netlink requests that may fail for no reason of the daemon's.  The LinkByName of
\* bridgeIsConfigured, whose error counts as an answer, is known by the name of its caller.
Requests ==
  {"bridgeIsConfigured", "LinkByName", "LinkByIndex", "LinkList", "LinkAdd", "LinkSetUp",
   "LinkDel", "LinkSetMaster", "LinkSetNoMaster"}

\* A selector that is neither Everywhere nor a label is one LabelSelectorAsMap
\* rejects: it matches no node.
ASSUME DaemonAssumption ==
  /\ \A c \in Confs : c.ports \subseteq Nics \cup Vlans
  /\ NoConf \notin Confs
  /\ Everywhere \notin Labels
  /\ Prebuilt \subseteq Links /\ Outside \subseteq Links
  /\ Faults \subseteq Requests \cup {"node", "crash", "relabel"}
  /\ MaxQueue \in Nat \ {0}

VARIABLES
  api,       \* api[b]: the BridgeConfiguration named b at the API server
  labels,    \* the labels of this node
  store,     \* store[b]: what the informer's store has for b
  listed,    \* the bridges it has had a configuration for since the process started
  queue,     \* notifications the handler has yet to be called with
  up,        \* "running", or how the process last went down
  h,         \* the handler goroutine
  w,         \* the port watch goroutine
  made,      \* history: indexes of the links that a daemon created
  joined     \* history: ports whose master a daemon was the last to set

conf == <<api, labels>>
informer == <<store, listed, queue>>
history == <<made, joined>>
vars == <<links, registry, conf, informer, up, h, w, history>>

Event(b, old, new) == [name |-> b, old |-> old, new |-> new]

Asleep == [pc |-> "sleep", snap |-> {}, left |-> {}, br |-> NoLink, idx |-> 0,
           ports |-> {}, port |-> NoLink]

Call(pc, b, rem, add, del) ==
  [pc |-> pc, name |-> b, br |-> 0, rem |-> rem, add |-> add, del |-> del,
   port |-> NoLink, link |-> 0, slave |-> 0, mark |-> "absent"]

Idle == Call("idle", NoLink, {}, {}, FALSE)

\* Where the process can die of its own: the bridge watch, the port watch's two
\* lookups, the port watch's write to an inner map that is gone, the handler.
Panics == {"bridgeWatch", "portWatch", "nilMap", "handler"}

\* Indexes some link has or some goroutine still holds: the kernel counts
\* upwards, so none of these is ever given to a new link.
InUse == {ifindex[l] : l \in Links} \cup {h.br, h.link, h.slave, w.idx}
           \cup {s.master : s \in w.snap}
HaveFresh == \E i \in Index : i \notin InUse
NewIndex(l) ==
  IF FirstIndex[l] \notin InUse THEN FirstIndex[l] ELSE CHOOSE i \in Index : i \notin InUse

\* A netlink request fails when the kernel cannot do it, or for no reason of ours.
Fails(request, possible) == ~possible \/ request \in Faults

Keep(set) == {p \in set : master'[p] = master[p]}
Live(set) == {i \in set : \E l \in Links : ifindex'[l] = i}

(***************************************************************************)
(* Process start, crash and panic.  A panic in any goroutine ends the      *)
(* process (client-go's HandleCrash panics again, async.Loop does not      *)
(* recover), the DaemonSet starts it anew, and all it remembers is gone.   *)
(***************************************************************************)
Init ==
  /\ \E live \in SUBSET Prebuilt :
       ifindex = [l \in Links |-> IF l \in live \cup Nics THEN FirstIndex[l] ELSE 0]
  /\ master \in [Ports -> {0} \cup {ifindex[b] : b \in Bridges}]
  /\ \A p \in Ports : ~Exists(p) => master[p] = 0
  /\ RegistryInit
  /\ api = [b \in Bridges |-> NoConf]
  /\ labels \in SUBSET Labels
  /\ store = [b \in Bridges |-> NoConf]
  /\ listed = {}
  /\ queue = <<>>
  /\ up = "running"
  /\ h = Idle
  /\ w = Asleep
  /\ made = {}
  /\ joined = {}

Dies(how) ==
  /\ up' = how
  /\ RegistryLost
  /\ store' = [b \in Bridges |-> NoConf] /\ listed' = {}
  /\ queue' = <<>>
  /\ h' = Idle
  /\ w' = Asleep

Panic(where) == Dies(where) /\ UNCHANGED <<links, conf, history>>

Crash ==
  /\ "crash" \in Faults /\ up = "running"
  /\ Dies("killed")
  /\ UNCHANGED <<links, conf, history>>

Restart ==
  /\ up # "running"
  /\ up' = "running"
  /\ UNCHANGED <<links, registry, conf, informer, h, w, history>>

(***************************************************************************)
(* Configurations: users write them at the API server; the informer brings *)
(* its store up to date and queues a notification with what it had before. *)
(* After a restart the store is empty, so every configuration is an Add.   *)
(***************************************************************************)
Configure(b, c) ==
  /\ c # api[b]
  /\ api' = [api EXCEPT ![b] = c]
  /\ UNCHANGED <<links, registry, labels, informer, up, h, w, history>>

Relabel(ls) ==
  /\ "relabel" \in Faults /\ ls # labels
  /\ labels' = ls
  /\ UNCHANGED <<links, registry, api, informer, up, h, w, history>>

Sync(b) ==
  /\ up = "running" /\ store[b] # api[b] /\ Len(queue) < MaxQueue
  /\ store' = [store EXCEPT ![b] = api[b]]
  /\ queue' = Append(queue, Event(b, store[b], api[b]))
  /\ listed' = listed \cup {b}
  /\ UNCHANGED <<links, registry, conf, up, h, w, history>>

(***************************************************************************)
(* The three handlers.  The node is fetched first; when that fails the     *)
(* client returns a node with no labels and the handler goes on with it.   *)
(***************************************************************************)
NodeLabels == {labels} \cup (IF "node" \in Faults THEN {{}} ELSE {})

bridgeConfMatchesNodeLabel(seen, c) == c.sel = Everywhere \/ c.sel \in seen

\* Mutant: an Add goes straight to bridgeUpdate, nobody creates the bridge.
ConfiguredByUpdate(ev) == Call("bridgeUpdate", ev.name, {}, ev.new.ports, FALSE)

Configured(ev) == Call("isConfigured", ev.name, {}, ev.new.ports, FALSE)

Unconfigured(b, c) == Call("unconfigured", b, c.ports, {}, TRUE)

Updated(ev) ==
  Call("bridgeUpdate", ev.name, ev.old.ports \ ev.new.ports, ev.new.ports \ ev.old.ports, FALSE)

\* The handler is idle and is called for the next notification.
TakesNext ==
  /\ up = "running" /\ h.pc = "idle" /\ queue # <<>>
  /\ queue' = Tail(queue)
  /\ UNCHANGED <<links, registry, conf, store, listed, up, w, history>>

OnBridgeConfigAdd ==
  \E seen \in NodeLabels :
    LET ev == Head(queue)
    IN /\ TakesNext /\ ev.old = NoConf
       /\ h' = IF bridgeConfMatchesNodeLabel(seen, ev.new) THEN Configured(ev) ELSE Idle

\* Both matches are computed from oldConfig.
OnBridgeConfigUpdate ==
  \E seen \in NodeLabels :
    LET ev == Head(queue)
        oldMatches == bridgeConfMatchesNodeLabel(seen, ev.old)
        matches == bridgeConfMatchesNodeLabel(seen, ev.old)
    IN /\ TakesNext /\ ev.old # NoConf /\ ev.new # NoConf
       /\ h' = IF matches = oldMatches THEN Updated(ev)
               ELSE IF matches THEN Configured(ev) ELSE Unconfigured(ev.name, ev.new)

OnBridgeConfigDelete ==
  \E seen \in NodeLabels :
    LET ev == Head(queue)
    IN /\ TakesNext /\ ev.new = NoConf
       /\ h' = IF bridgeConfMatchesNodeLabel(seen, ev.old)
               THEN Unconfigured(ev.name, ev.old) ELSE Idle

At(pc) == up = "running" /\ h.pc = pc

\* What every step of the handler leaves alone.
HandlerFrame == UNCHANGED <<conf, informer, up, w>>

IsConfigured ==
  /\ At("isConfigured")
  /\ \E found \in {Exists(h.name)} \cup (IF "bridgeIsConfigured" \in Faults THEN {FALSE} ELSE {}) :
       h' = [h EXCEPT !.pc = "setBridge", !.mark = MarkOf(~found)]
  /\ UNCHANGED <<links, registry, history>> /\ HandlerFrame

\* A range of the port watch that is under way may pass over the key that is added.
SetBridge ==
  /\ At("setBridge")
  /\ SetBridgeManagement(h.name, h.mark)
  /\ h' = [h EXCEPT !.pc = "linkAdd", !.mark = "absent"]
  /\ \E skipped \in SUBSET (w.left \cap ({h.name} \ portMaps)) :
       w' = [w EXCEPT !.left = @ \ skipped]
  /\ UNCHANGED <<links, conf, informer, up, history>>

\* bridgeConfigured: LinkAdd, LinkSetUp, then bridgeUpdate(nil, config, ...).
BridgeLinkAdd ==
  /\ At("linkAdd")
  /\ \/ /\ ~Exists(h.name) /\ HaveFresh
        /\ LinkAdd(h.name, NewIndex(h.name))
        /\ made' = made \cup {ifindex'[h.name]}
        /\ h' = [h EXCEPT !.pc = "linkUp", !.br = ifindex'[h.name]]
     \/ /\ Fails("LinkAdd", ~Exists(h.name))
        /\ h' = Idle
        /\ UNCHANGED <<links, made>>
  /\ UNCHANGED <<registry, joined>> /\ HandlerFrame

BridgeLinkUp ==
  /\ At("linkUp")
  /\ LET live == ifindex[h.name] = h.br
     IN \/ live /\ h' = [h EXCEPT !.pc = "bridgeUpdate", !.br = 0]
        \/ Fails("LinkSetUp", live) /\ h' = Idle
  /\ UNCHANGED <<links, registry, history>> /\ HandlerFrame

\* LinkByName of bridgeUpdate and of bridgeUnconfigured.
LookupBridge(pc, failed) ==
  /\ At(pc)
  /\ \/ Exists(h.name) /\ h' = [h EXCEPT !.pc = "reconcile", !.br = ifindex[h.name]]
     \/ Fails("LinkByName", Exists(h.name)) /\ h' = failed
  /\ UNCHANGED <<links, registry, history>> /\ HandlerFrame

bridgeUpdate == LookupBridge("bridgeUpdate", Idle)

\* Mutant: the handler returns where the bridge cannot be looked up.
UnconfiguredReturns == LookupBridge("unconfigured", Idle)

bridgeUnconfigured == LookupBridge("unconfigured", [h EXCEPT !.pc = "unset"])

(***************************************************************************)
(* egressInterfaceReconcile and egressVlanInterfaceReconcile.  tobeRemove  *)
(* and tobeAdd are functions of the two configurations alone, so they are  *)
(* h.rem and h.add from the start; the ports of a list come in any order,  *)
(* the interfaces before the vlan interfaces and, of each, those to remove *)
(* before those to add.                                                    *)
(***************************************************************************)
FirstOf(p, list) ==
  /\ p \in list
  /\ p \in Vlans => (h.rem \cup h.add) \cap Nics = {}

\* continue: on to the next item of the list.
NextItem == [h EXCEPT !.pc = "reconcile", !.port = NoLink, !.link = 0,
                      !.slave = 0, !.mark = "absent"]

RemoveItem ==
  /\ At("reconcile")
  /\ \E p \in h.rem :
       /\ FirstOf(p, h.rem)
       /\ h' = [h EXCEPT !.rem = @ \ {p}, !.port = p,
                  !.pc = IF IsPortManaged(h.name, p) THEN "lookup" ELSE "forget"]
  /\ UNCHANGED <<links, registry, history>> /\ HandlerFrame

LookupPort ==
  /\ At("lookup")
  /\ LET enslaved == Exists(h.port) /\ master[h.port] # 0
     IN \/ enslaved /\ h' = [h EXCEPT !.pc = "detach", !.link = ifindex[h.port]]
        \/ Fails("LinkByName", enslaved) /\ h' = NextItem
  /\ UNCHANGED <<links, registry, history>> /\ HandlerFrame

Detach ==
  /\ At("detach")
  /\ LET live == ifindex[h.port] = h.link
     IN \/ /\ live
           /\ LinkSetNoMaster(h.port)
           /\ h' = [h EXCEPT !.pc = IF h.port \in Vlans THEN "vlanDel" ELSE "forget"]
        \/ Fails("LinkSetNoMaster", live) /\ h' = NextItem /\ UNCHANGED links
  /\ joined' = Keep(joined)
  /\ UNCHANGED <<registry, made>> /\ HandlerFrame

VlanLinkDel ==
  /\ At("vlanDel")
  /\ LET live == ifindex[h.port] = h.link
     IN \/ live /\ LinkDel(h.port) /\ h' = [h EXCEPT !.pc = "forget"]
        \/ Fails("LinkDel", live) /\ h' = NextItem /\ UNCHANGED links
  /\ joined' = Keep(joined) /\ made' = Live(made)
  /\ UNCHANGED registry /\ HandlerFrame

Forget ==
  /\ At("forget")
  /\ RemovePortManagement(h.name, h.port)
  /\ h' = NextItem
  /\ UNCHANGED <<links, history>> /\ HandlerFrame

\* Mutant: an interface is taken from the bridge it is on.
AttachableAlways(p, l) == Exists(l)

\* LinkByName of the interface to attach, or of a vlan interface's parent.
Attachable(p, l) == Exists(l) /\ (p \in Vlans \/ master[l] = 0)

AddItem ==
  /\ At("reconcile")
  /\ \E p \in h.add :
       LET isVlan == p \in Vlans
           l == IF isVlan THEN Parent[p] ELSE p
           ok == Attachable(p, l)
           next == [h EXCEPT !.add = @ \ {p}]
       IN /\ FirstOf(p, h.add)
          /\ h.rem \cap (IF isVlan THEN Vlans ELSE Nics) = {}
          /\ \/ ok /\ h' = [next EXCEPT !.pc = IF isVlan THEN "vlanLookup" ELSE "attach",
                                        !.port = p, !.link = ifindex[l]]
             \/ Fails("LinkByName", ok) /\ h' = next
  /\ UNCHANGED <<links, registry, history>> /\ HandlerFrame

\* Mutant: a vlan interface that was there before counts as the daemon's.
ExistingVlanManaged ==
  [h EXCEPT !.pc = "setPort", !.link = ifindex[h.port], !.slave = master[h.port],
            !.mark = "managed"]

\* A vlan interface that is there already is recorded as unmanaged.
ExistingVlan ==
  [h EXCEPT !.pc = "setPort", !.link = ifindex[h.port], !.slave = master[h.port],
            !.mark = "unmanaged"]

\* A lookup that fails for another reason than "not found" leaves link nil,
\* and link.Attrs() panics.
VlanLookup ==
  /\ At("vlanLookup")
  /\ \/ /\ h' = IF Exists(h.port)
                THEN ExistingVlan
                ELSE [h EXCEPT !.pc = "vlanAdd"]
        /\ UNCHANGED <<links, registry, history>> /\ HandlerFrame
     \/ "LinkByName" \in Faults /\ Panic("handler")

\* LinkAdd and LinkSetUp; after a LinkSetUp that failed the interface stays.
VlanLinkAdd ==
  /\ At("vlanAdd")
  /\ LET possible == ~Exists(h.port) /\ ifindex[Parent[h.port]] = h.link
     IN \/ /\ possible /\ HaveFresh
           /\ LinkAdd(h.port, NewIndex(h.port))
           /\ made' = made \cup {ifindex'[h.port]}
           /\ \/ h' = [h EXCEPT !.pc = "setPort", !.link = ifindex'[h.port], !.mark = "managed"]
              \/ "LinkSetUp" \in Faults /\ h' = NextItem
        \/ Fails("LinkAdd", possible) /\ h' = NextItem /\ UNCHANGED <<links, made>>
  /\ UNCHANGED <<registry, joined>> /\ HandlerFrame

\* An interface is recorded once it is attached, a vlan interface before.
Attach ==
  /\ At("attach")
  /\ LET possible == ifindex[h.port] = h.link /\ ifindex[h.name] = h.br
         done == IF h.port \in Vlans
                 THEN NextItem ELSE [h EXCEPT !.pc = "setPort", !.mark = "managed"]
     IN \/ /\ possible
           /\ LinkSetMaster(h.port, h.br)
           /\ joined' = Keep(joined) \cup {h.port}
           /\ h' = done
        \/ Fails("LinkSetMaster", possible) /\ h' = NextItem /\ UNCHANGED <<links, joined>>
  /\ UNCHANGED <<registry, made>> /\ HandlerFrame

AfterSetPort ==
  IF h.port \in Vlans /\ h.slave # h.br
  THEN [h EXCEPT !.pc = "attach", !.slave = 0, !.mark = "absent"] ELSE NextItem

SetPortManagement ==
  /\ At("setPort")
  /\ h' = IF CanSetPort(h.name, h.port) THEN [h EXCEPT !.pc = "writePort"] ELSE AfterSetPort
  /\ UNCHANGED <<links, registry, history>> /\ HandlerFrame

\* A range over the map that is written may pass over the key that comes.
Skippable ==
  IF w.idx # 0 /\ w.br = h.name /\ h.port \notin Recorded(h.name)
  THEN w.ports \cap {h.port} ELSE {}

\* Only this goroutine takes a bridge's map away, so here it is still there.
SetPortLocked ==
  /\ At("writePort")
  /\ WritePort(h.name, h.port, h.mark)
  /\ h' = AfterSetPort
  /\ \E skipped \in SUBSET Skippable : w' = [w EXCEPT !.ports = @ \ skipped]
  /\ UNCHANGED <<links, conf, informer, up, history>>

\* bridgeUpdate returns; bridgeUnconfigured goes on to the bridge itself.
Reconciled ==
  /\ At("reconcile") /\ h.rem \cup h.add = {}
  /\ h' = IF h.del THEN [h EXCEPT !.pc = "checkPorts"] ELSE Idle
  /\ UNCHANGED <<links, registry, history>> /\ HandlerFrame

\* Mutant: a bridge that was there before is deleted too.
DeletableUnmanaged(b) ==
  b \in portMaps /\ \A p \in Ports : managedBridgePorts[b][p] # "unmanaged"

\* isManaged is read before the bridge is looked up, but only this goroutine
\* writes managedBridges.
Deletable(b) ==
  /\ managedBridges[b] = "managed"
  /\ b \in portMaps /\ \A p \in Ports : managedBridgePorts[b][p] # "unmanaged"

CheckPorts ==
  /\ At("checkPorts")
  /\ h' = [h EXCEPT !.pc = IF Deletable(h.name) THEN "linkDel" ELSE "unset"]
  /\ UNCHANGED <<links, registry, history>> /\ HandlerFrame

BridgeLinkDel ==
  /\ At("linkDel")
  /\ LET live == ifindex[h.name] = h.br
     IN \/ live /\ LinkDel(h.name)
        \/ Fails("LinkDel", live) /\ UNCHANGED links
  /\ h' = [h EXCEPT !.pc = "unset", !.br = 0]
  /\ joined' = Keep(joined) /\ made' = Live(made)
  /\ UNCHANGED registry /\ HandlerFrame

\* Reached on every path of OnBridgeConfigDelete, errors included.  The port watch
\* may be in the middle of the inner map that is emptied here.
UnsetBridge ==
  /\ At("unset")
  /\ UnsetBridgeManagement(h.name)
  /\ h' = Idle
  /\ w' = [w EXCEPT !.ports = IF w.br = h.name THEN {} ELSE @]
  /\ UNCHANGED <<links, conf, informer, up, history>>

Handler ==
  \/ OnBridgeConfigAdd \/ OnBridgeConfigUpdate \/ OnBridgeConfigDelete
  \/ IsConfigured \/ SetBridge \/ BridgeLinkAdd \/ BridgeLinkUp
  \/ bridgeUpdate \/ bridgeUnconfigured
  \/ RemoveItem \/ LookupPort \/ Detach \/ VlanLinkDel \/ Forget
  \/ AddItem \/ VlanLookup \/ VlanLinkAdd \/ Attach
  \/ SetPortManagement \/ SetPortLocked
  \/ Reconciled \/ CheckPorts \/ BridgeLinkDel \/ UnsetBridge

(***************************************************************************)
(* bridgePortWatch, run every few seconds by its BoundedFrequencyRunner.   *)
(***************************************************************************)
WatchAt(pc) == up = "running" /\ w.pc = pc

WatchFrame == UNCHANGED <<links, conf, informer, up, h, history>>

\* LinkList; when it fails the loop over the links has nothing to visit.
WatchLinks ==
  /\ WatchAt("sleep")
  /\ \E enslaved \in {{p \in Ports : master[p] # 0}}
                       \cup (IF "LinkList" \in Faults THEN {{}} ELSE {}) :
       w' = [w EXCEPT !.pc = "scan",
               !.snap = {[port |-> p, master |-> master[p]] : p \in enslaved}]
  /\ UNCHANGED registry /\ WatchFrame

\* watch new bridge ports: LinkByIndex(masterIndex), then the unlocked tests.
WatchNewPort ==
  /\ WatchAt("scan")
  /\ \E s \in w.snap :
       \/ /\ \E b \in BridgeAt(s.master) :
               w' = IF CanSetPort(b, s.port)
                    THEN [w EXCEPT !.pc = "record", !.br = b, !.port = s.port,
                                   !.snap = @ \ {s}]
                    ELSE [w EXCEPT !.snap = @ \ {s}]
          /\ UNCHANGED registry /\ WatchFrame
       \/ Fails("LinkByIndex", BridgeAt(s.master) # {}) /\ Panic("portWatch")

WatchRecord ==
  /\ WatchAt("record")
  /\ IF w.br \in portMaps
     THEN /\ WritePort(w.br, w.port, "unmanaged")
          /\ w' = [w EXCEPT !.pc = "scan", !.br = NoLink, !.port = NoLink]
          /\ WatchFrame
     ELSE Panic("nilMap")

\* check the port status.  A range over a map visits every key that stays, and of those
\* that come while it runs the ones that it does not pass over (SetBridge, SetPortLocked).
WatchBridges ==
  /\ WatchAt("scan") /\ w.snap = {}
  /\ w' = [w EXCEPT !.pc = "bridges", !.left = Bridges]
  /\ UNCHANGED registry /\ WatchFrame

\* The next key and its inner map ...
WatchBridge ==
  /\ WatchAt("bridges")
  /\ \E b \in w.left \cap portMaps :
       w' = [w EXCEPT !.pc = "bridge", !.left = @ \ {b}, !.br = b, !.ports = Ports]
  /\ UNCHANGED registry /\ WatchFrame

\* ... then LinkByName, by when the bridge may be off the record and the map of this
\* range emptied for good (UnsetBridge), then the range over the map.
WatchLookup ==
  /\ WatchAt("bridge")
  /\ \/ /\ Exists(w.br)
        /\ w' = [w EXCEPT !.pc = "ports", !.idx = ifindex[w.br]]
        /\ UNCHANGED registry /\ WatchFrame
     \/ Fails("LinkByName", Exists(w.br)) /\ Panic("portWatch")

WatchPort ==
  /\ WatchAt("ports")
  /\ \E p \in w.ports \cap Recorded(w.br) :
       LET isPort == master[p] = w.idx
           next == [w EXCEPT !.ports = @ \ {p}]
       IN \/ isPort /\ w' = next
          \/ Fails("LinkByName", isPort) /\ w' = [next EXCEPT !.pc = "remove", !.port = p]
  /\ UNCHANGED registry /\ WatchFrame

WatchRemove ==
  /\ WatchAt("remove")
  /\ RemovePortManagement(w.br, w.port)
  /\ w' = [w EXCEPT !.pc = "ports", !.port = NoLink]
  /\ WatchFrame

WatchPortsDone ==
  /\ WatchAt("ports") /\ w.ports \cap Recorded(w.br) = {}
  /\ w' = [w EXCEPT !.pc = "bridges", !.br = NoLink, !.idx = 0, !.ports = {}]
  /\ UNCHANGED registry /\ WatchFrame

WatchDone ==
  /\ WatchAt("bridges") /\ w.left \cap portMaps = {}
  /\ w' = Asleep
  /\ UNCHANGED registry /\ WatchFrame

PortWatch ==
  \/ WatchLinks \/ WatchNewPort \/ WatchRecord
  \/ WatchBridges \/ WatchBridge \/ WatchLookup \/ WatchPort \/ WatchRemove
  \/ WatchPortsDone \/ WatchDone

\* Where the bridge is not found, bridgeReconcile logs the error and goes on with
\* a nil link.
bridgeReconcilePanics(b) == Fails("LinkByName", Exists(b))

\* bridgeWatch reconciles every configuration of its list, selected for this node or
\* not.  Its list is of the time when the round began: a slow round comes to bridges
\* whose configuration has left the store.
BridgeWatch ==
  /\ up = "running"
  /\ \E b \in listed : bridgeReconcilePanics(b)
  /\ Panic("bridgeWatch")

(***************************************************************************)
(* What others do to the links of the node: administrators, hardware, and  *)
(* the bridge CNI plugin attaching the pods' interfaces.                   *)
(***************************************************************************)
OutsideFrame == UNCHANGED <<registry, conf, informer, up, h, w>>

OutsideAdd(l) ==
  /\ l \in Outside /\ ~Exists(l) /\ HaveFresh
  /\ l \in Vlans => Exists(Parent[l])
  /\ LinkAdd(l, NewIndex(l))
  /\ UNCHANGED history /\ OutsideFrame

OutsideDel(l) ==
  /\ l \in Outside /\ Exists(l)
  /\ LinkDel(l)
  /\ joined' = Keep(joined) /\ made' = Live(made)
  /\ OutsideFrame

OutsideAttach(p, b) ==
  /\ p \in Outside /\ Exists(p) /\ Exists(b) /\ master[p] # ifindex[b]
  /\ LinkSetMaster(p, ifindex[b])
  /\ joined' = Keep(joined)
  /\ UNCHANGED made /\ OutsideFrame

OutsideDetach(p) ==
  /\ p \in Outside /\ master[p] # 0
  /\ LinkSetNoMaster(p)
  /\ joined' = Keep(joined)
  /\ UNCHANGED made /\ OutsideFrame

Others ==
  \/ \E l \in Links : OutsideAdd(l) \/ OutsideDel(l)
  \/ \E p \in Ports, b \in Bridges : OutsideAttach(p, b)
  \/ \E p \in Ports : OutsideDetach(p)

Users ==
  \/ \E b \in Bridges, c \in Confs \cup {NoConf} : Configure(b, c)
  \/ \E ls \in SUBSET Labels : Relabel(ls)

Informer == \E b \in Bridges : Sync(b)

Next ==
  \/ Handler \/ PortWatch \/ BridgeWatch \/ Informer
  \/ Crash \/ Restart \/ Users \/ Others

Spec == Init /\ [][Next]_vars

\* Goroutines are scheduled, notifications delivered, dead pods started again.
Fairness ==
  /\ WF_vars(Handler) /\ WF_vars(PortWatch) /\ WF_vars(Informer)
  /\ WF_vars(Restart)

FairSpec == Spec /\ Fairness

(***************************************************************************)
(* Types.                                                                  *)
(***************************************************************************)
Specs == Confs \cup {NoConf}

Notifications == {ev \in [name : Bridges, old : Specs, new : Specs] : ev.old # ev.new}

LinksOK ==
  /\ ifindex \in [Links -> Index \cup {0}]
  /\ master \in [Ports -> Index \cup {0}]

RegistryOK ==
  /\ managedBridges \in [Bridges -> Mark]
  /\ managedBridgePorts \in [Bridges -> [Ports -> Mark]]
  /\ portMaps = {b \in Bridges : managedBridges[b] # "absent"}
  /\ \A b \in Bridges \ portMaps : managedBridgePorts[b] = NoPorts

InformerOK ==
  /\ api \in [Bridges -> Specs] /\ store \in [Bridges -> Specs]
  /\ labels \in SUBSET Labels
  /\ {b \in Bridges : store[b] # NoConf} \subseteq listed /\ listed \subseteq Bridges
  /\ queue \in Seq(Notifications) /\ Len(queue) <= MaxQueue

PortSteps ==
  {"lookup", "detach", "vlanDel", "forget", "vlanLookup", "vlanAdd",
   "attach", "setPort", "writePort"}

HandlerOK ==
  /\ h \in [pc : {"idle", "isConfigured", "setBridge", "linkAdd", "linkUp",
                  "bridgeUpdate", "unconfigured", "reconcile", "checkPorts",
                  "linkDel", "unset"} \cup PortSteps,
            name : Bridges \cup {NoLink}, br : Index \cup {0},
            rem : SUBSET (Nics \cup Vlans), add : SUBSET (Nics \cup Vlans),
            del : BOOLEAN, port : Nics \cup Vlans \cup {NoLink},
            link : Index \cup {0}, slave : Index \cup {0}, mark : Mark]
  /\ IF h.pc = "idle" THEN h = Idle ELSE h.name # NoLink
  /\ h.pc \in PortSteps <=> h.port # NoLink
  /\ h.pc \in {"setBridge", "setPort", "writePort"} => h.mark # "absent"
  /\ h.pc = "writePort" => h.name \in portMaps
  /\ h.pc \in {"reconcile", "checkPorts", "linkDel", "linkUp"} \cup PortSteps => h.br # 0
  /\ h.pc \in PortSteps \ {"lookup", "forget"} => h.link # 0
  /\ h.pc \in {"vlanLookup", "vlanAdd", "vlanDel"} => h.port \in Vlans

WatchOK ==
  /\ w \in [pc : {"sleep", "scan", "record", "bridges", "bridge", "ports", "remove"},
            snap : SUBSET [port : Ports, master : Index], left : SUBSET Bridges,
            br : Bridges \cup {NoLink}, idx : Index \cup {0},
            ports : SUBSET Ports, port : Ports \cup {NoLink}]
  /\ w.pc \in {"record", "bridge", "ports", "remove"} <=> w.br # NoLink
  /\ w.pc \in {"record", "remove"} <=> w.port # NoLink
  /\ w.pc \in {"ports", "remove"} <=> w.idx # 0

\* The shape of every variable: a map entry exists exactly for a bridge that is
\* looked after, the handler only writes to such an entry, and a goroutine that is
\* at rest holds nothing of its last run.
TypeOK ==
  /\ LinksOK /\ RegistryOK /\ InformerOK /\ HandlerOK /\ WatchOK
  /\ up \in {"running", "killed"} \cup Panics
  /\ made \subseteq Index /\ joined \subseteq Ports

(***************************************************************************)
(* Safety.  "Others" touch no bridge, interface or vlan interface where a  *)
(* property below says so (Outside is a set of pod interfaces).            *)
(***************************************************************************)
IsManaged(b, p) == managedBridgePorts[b][p] = "managed"

\* A bridge that is marked managed (and may so be deleted with its configuration)
\* is one a daemon created, whatever was configured, unconfigured, relabelled or
\* restarted before (OnBridgeConfigAdd's exists == false, server.go:462-466).
ManagedBridgeIsOurs ==
  \A b \in Bridges : managedBridges[b] = "managed" /\ Exists(b) => ifindex[b] \in made

\* An interface that is marked managed in a bridge is a port of that bridge, put
\* there by a daemon, but for the moments between giving it up and saying so
\* (SetPortManagement(..., true) in bridgeconfig.go:215-219).
ManagedPortIsAttached ==
  \A b \in Bridges, p \in Nics :
    IsManaged(b, p) =>
      \/ Exists(b) /\ master[p] = ifindex[b] /\ p \in joined
      \/ h.name = b /\ h.port = p /\ h.pc = "forget"
      \/ h.name = b /\ h.pc = "unset"

\* A bridge that is on record exists, but for the moments between SetBridgeManagement
\* and LinkAdd and between LinkDel and UnsetBridgeManagement, as long as nobody else
\* deletes it and no LinkAdd fails: the port watch trusts the record (server.go:202-206),
\* and its lookup of a bridge that is not there ends the process.
RecordedBridgeExists ==
  \A b \in portMaps : Exists(b) \/ (h.name = b /\ h.pc \in {"linkAdd", "unset"})

\* No port is marked managed in two bridges: each removes it from a bridge, and for
\* a vlan interface from the node, that the other counts on.
OneManager ==
  \A p \in Ports, b, c \in Bridges : IsManaged(b, p) /\ IsManaged(c, p) => b = c

\* When a handler takes an interface or a vlan interface off a bridge, it is a daemon
\* that put it there (IsPortManaged guards LinkSetNoMaster, bridgeconfig.go:180,255).
LeavesOthersPorts ==
  [][\A p \in Nics \cup Vlans :
       h.pc = "detach" /\ master[p] # 0 /\ master'[p] = 0 => p \in joined]_vars

\* What a handler deletes of the node's vlan interfaces a daemon made, although the
\* record is all it goes by and any request of an earlier handler may have failed
\* (egressVlanInterfaceReconcile, bridgeconfig.go:255-274).
DeletesOwnVlans ==
  [][\A v \in Vlans : h.pc = "vlanDel" /\ Exists(v) /\ ifindex'[v] = 0
       => ifindex[v] \in made]_vars

\* The links of the node as HostOwnership sees them.
BridgeOf(p) ==
  IF master[p] = 0 THEN NoLink ELSE CHOOSE b \in Bridges : ifindex[b] = master[p]

Ownership ==
  INSTANCE HostOwnership WITH
    present <- {l \in Links : Exists(l)},
    ours <- {l \in Bridges \cup Vlans : Exists(l) /\ ifindex[l] \in made},
    on <- [p \in Ports |-> BridgeOf(p)],
    by <- joined

\* Every step of every goroutine, crash and restart is one the ownership rules
\* allow: only links the daemon made are deleted, only free interfaces taken,
\* only ports it attached detached (the guards all over pkg/server/bridgeconfig.go).
KeepsOwnership == Ownership!Spec

\* Why the rules are kept: the inductive invariant of the ownership proof.  A port
\* the daemon may take off its bridge is free or put there by a daemon, a link it
\* may delete is absent or made by one, whatever the handler is in the middle of.
SafeToDetach(p) == master[p] # 0 => p \in joined

SafeToDelete(l) == Exists(l) => ifindex[l] \in made

LinksConsistent ==
  /\ \A k, l \in Links : Exists(k) /\ ifindex[k] = ifindex[l] => k = l
  /\ \A p \in Ports : master[p] # 0 => Exists(p) /\ BridgeAt(master[p]) # {}
  /\ \A i \in made : \E l \in Bridges \cup Vlans : ifindex[l] = i
  /\ \A p \in joined : master[p] # 0 /\ p \in Nics \cup Vlans

SafeToRemove(p) == SafeToDetach(p) /\ (p \in Vlans => SafeToDelete(p))

PortMarksTrue ==
  /\ \A b \in Bridges, p \in Nics \cup Vlans : IsManaged(b, p) => SafeToRemove(p)
  /\ h.pc \in {"setPort", "writePort"} /\ h.mark = "managed" => SafeToRemove(h.port)
  /\ h.pc \in {"lookup", "detach", "vlanDel"} => SafeToRemove(h.port)
  /\ h.pc = "vlanDel" => master[h.port] = 0
  /\ h.pc = "attach" /\ h.port \in Nics => master[h.port] = 0

BridgeMarksTrue ==
  /\ \A b \in Bridges : managedBridges[b] = "managed" => SafeToDelete(b)
  /\ h.pc = "setBridge" /\ h.mark = "managed" => SafeToDelete(h.name)
  /\ h.pc = "linkDel" => SafeToDelete(h.name)

OwnershipInv == LinksConsistent /\ PortMarksTrue /\ BridgeMarksTrue

(***************************************************************************)
(* Liveness, while the process does not keep dying.                        *)
(***************************************************************************)
Holds(b, p) == Exists(b) /\ master[p] = ifindex[b]

\* The registry follows the kernel: a port that stays on a bridge that is looked
\* after is on record for it again and again, one that stays off it is off the
\* record again and again, whatever stale snapshots and half-done handlers the
\* steps of bridgePortWatch come in between.
RecordsFollow ==
  \A b \in Bridges, p \in Ports :
    /\ <>[](up = "running" /\ b \in portMaps /\ Holds(b, p)) =>
         []<>(managedBridgePorts[b][p] # "absent")
    /\ <>[](up = "running" /\ ~Holds(b, p)) => []<>(managedBridgePorts[b][p] = "absent")

Selected(b) == api[b] # NoConf /\ bridgeConfMatchesNodeLabel(labels, api[b])

\* What the handlers' two properties suppose: a configuration selects this node for as
\* long as its Add, or its Delete, is the next to be handled.
SelectsWhenAdded(b) ==
  queue # <<>> /\ Head(queue).name = b /\ Head(queue).old = NoConf
    => bridgeConfMatchesNodeLabel(labels, Head(queue).new)

SelectsWhenDeleted(b) ==
  queue # <<>> /\ Head(queue).name = b /\ Head(queue).new = NoConf
    => bridgeConfMatchesNodeLabel(labels, Head(queue).old)

\* A bridge whose configurations select the node when they are added (server.go:460)
\* exists in the end if its configuration stays and selects the node, whatever else was
\* edited, relabelled, deleted or killed in between, whoever made it and whichever requests
\* failed, as long as nobody else deletes it and the one LinkAdd that is tried does not
\* fail.  (For a configuration that comes to select the node by an edit it does not hold,
\* against "false -> true: create new bridge", server.go:497: see DeselectedIsForgotten.)
ConfiguredBridgeExists ==
  \A b \in Bridges :
    []SelectsWhenAdded(b) /\ <>[](up = "running" /\ Selected(b)) => <>[]Exists(b)

\* A bridge whose configurations select the node when they are deleted (server.go:541) is
\* out of the daemon's books once its configuration is gone, whichever requests of
\* whichever handlers failed before, as long as the node can be read.
DeletedIsForgotten ==
  \A b \in Bridges :
    []SelectsWhenDeleted(b) /\ <>[](up = "running" /\ api[b] = NoConf)
      => <>[](b \notin portMaps)

(***************************************************************************)
(* What the program's own words say and the code does not do: each of      *)
(* these is checked in a run of its own, which TLC must find violated.     *)
(***************************************************************************)

\* "true -> false: delete new bridge" (server.go:511): a bridge whose configuration
\* stops selecting the node is eventually out of the books.
DeselectedIsForgotten ==
  \A b \in Bridges :
    <>[](up = "running" /\ api[b] # NoConf /\ ~Selected(b)) => <>[](b \notin portMaps)

\* "Managed specifies whether this port is manged by bridge-operator" (types.go:140):
\* once a handler has attached an interface, it is on record as managed.
AttachedIsManaged ==
  [][h.pc \in {"setPort", "writePort"} /\ h.port \in Nics /\ h'.pc = "reconcile"
       => managedBridgePorts'[h.name][h.port] = "managed"]_vars

\* "create linux bridge 'sample2' in the node that has the label" (README.md:25): a
\* configuration that does not select this node does no harm on it.  (Of one that was
\* deleted since the bridge watch listed it nothing is said.)
OtherNodesConfigIsHarmless ==
  [][up = "running" /\ up' = "bridgeWatch" =>
       \E b \in listed : store[b] = NoConf \/ bridgeConfMatchesNodeLabel(labels, store[b])]_vars

=============================================================================
