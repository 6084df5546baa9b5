----------------------------- MODULE VlanFilter -----------------------------
(***************************************************************************)
(* The vlan filtering of one bridge: bridgeVlanFilteringReconcile and      *)
(* bridgeVlanIDReconcile of pkg/server/bridgeconfig.go give the egress     *)
(* ports the vlan ids that the other ports of the bridge (the pods') use.  *)
(* Two goroutines run it on the same ports without any lock: bridgeWatch   *)
(* every few seconds, with the configuration in the informer's store, and  *)
(* the handler at the end of bridgeUpdate, with the one it was called      *)
(* with.  Pods' interfaces come, go and change their id meanwhile.         *)
(*                                                                         *)
(* The bridge itself stays: what its absence does is in BridgeDaemon.      *)
(***************************************************************************)
EXTENDS Naturals, FiniteSets, Sequences

CONSTANTS
  Egress,     \* ports that a configuration may name
  Pods,       \* ports that only the bridge CNI plugin attaches
  Vids,       \* vlan ids; 1 is the kernel's default for a new port
  MaxFaults,  \* bound on the netlink requests that fail for no reason of ours
  MaxNotes    \* bound on the notifications waiting for the handler

Ports == Egress \cup Pods

ASSUME VlanAssumption ==
  /\ Egress \cap Pods = {}
  /\ Vids \subseteq Nat \ {0} /\ 1 \in Vids
  /\ MaxFaults \in Nat /\ MaxNotes \in Nat \ {0}

VARIABLES
  member,      \* the ports of the bridge
  vlans,       \* vlans[p]: the vlan ids of port p
  pvid,        \* pvid[p]: the id that untagged frames get, 0 if none
  filtering,   \* the bridge's vlan_filtering
  conf,        \* the egress ports of the configuration in the store
  notes,       \* configurations the handler has yet to be called with
  faults,      \* how many requests may still fail
  r            \* r[g]: goroutine g's round

kernel == <<member, vlans, pvid, filtering>>
vars == <<kernel, conf, notes, faults, r>>

Goroutines == {"bridgeWatch", "handler"}

NoVlans == [p \in Ports |-> {}]
NoPvids == [p \in Ports |-> 0]

\* What a round will not read again is reset; used is history: the ids that the
\* round found in use by other ports.
Idle == [pc |-> "idle", conf |-> {}, vlans |-> NoVlans, pvid |-> NoPvids,
         ids |-> {}, todo |-> {}, port |-> {}, del |-> {}, add |-> {}, used |-> {}]

Init ==
  /\ member = {} /\ vlans = NoVlans /\ pvid = NoPvids
  /\ filtering \in BOOLEAN
  /\ conf = {} /\ notes = <<>> /\ faults = MaxFaults
  /\ r = [g \in Goroutines |-> Idle]

(***************************************************************************)
(* The kernel's side: BridgeVlanAdd and BridgeVlanDel on a port.           *)
(***************************************************************************)
BridgeVlanAdd(p, vid, isPvid) ==
  /\ vlans' = [vlans EXCEPT ![p] = @ \cup {vid}]
  /\ pvid' = [pvid EXCEPT ![p] = IF isPvid THEN vid ELSE IF @ = vid THEN 0 ELSE @]
  /\ UNCHANGED <<member, filtering>>

BridgeVlanDel(p, vid) ==
  /\ vlans' = [vlans EXCEPT ![p] = @ \ {vid}]
  /\ pvid' = [pvid EXCEPT ![p] = IF @ = vid THEN 0 ELSE @]
  /\ UNCHANGED <<member, filtering>>

Succeeds(possible) == possible /\ UNCHANGED faults

Fails(possible) ==
  IF possible THEN faults > 0 /\ faults' = faults - 1 ELSE UNCHANGED faults

(***************************************************************************)
(* One round.                                                              *)
(***************************************************************************)
At(g, pc) == r[g].pc = pc
Goes(g, next) == r' = [r EXCEPT ![g] = next] /\ UNCHANGED conf

Started(c) ==
  [Idle EXCEPT !.pc = IF filtering THEN "list" ELSE "enable", !.conf = c]

\* bridgeWatch takes the configuration from the lister ...
WatchRound ==
  /\ At("bridgeWatch", "idle")
  /\ Goes("bridgeWatch", Started(conf))
  /\ UNCHANGED <<kernel, notes, faults>>

\* ... and the handler gets its own with the call, which may end before this.
HandlerRound ==
  /\ At("handler", "idle") /\ notes # <<>>
  /\ notes' = Tail(notes)
  /\ \/ Goes("handler", Started(Head(notes)))
     \/ Goes("handler", Idle)
  /\ UNCHANGED <<kernel, faults>>

EnableFiltering(g) ==
  /\ At(g, "enable")
  /\ \/ Succeeds(TRUE) /\ filtering' = TRUE /\ Goes(g, [r[g] EXCEPT !.pc = "list"])
     \/ Fails(TRUE) /\ UNCHANGED filtering /\ Goes(g, Idle)
  /\ UNCHANGED <<member, vlans, pvid, notes>>

BridgeVlanList(g) ==
  /\ At(g, "list")
  /\ \/ Succeeds(TRUE) /\ Goes(g, [r[g] EXCEPT !.pc = "ports", !.vlans = vlans, !.pvid = pvid])
     \/ Fails(TRUE) /\ Goes(g, Idle)
  /\ UNCHANGED <<kernel, notes>>

\* Mutant: the egress ports' own ids count.
IdsOfAll(round, others) == UNION {round.vlans[p] : p \in Ports}

\* vlanIDSet: the ids that the ports which are not egress ports assign.
vlanIDSet(round, others) == {round.pvid[p] : p \in others} \ {0}

Reading(round, ports) ==
  LET ids == vlanIDSet(round, ports \ round.conf)
      todo == ports \cap round.conf
  IN [Idle EXCEPT !.pc = "vlans", !.ids = ids, !.used = ids, !.todo = todo,
                  !.vlans = [p \in Ports |-> IF p \in todo THEN round.vlans[p] ELSE {}]]

\* When its LinkList fails there are no ports.
getBridgePorts(g) ==
  /\ At(g, "ports")
  /\ \/ Succeeds(TRUE) /\ Goes(g, Reading(r[g], member))
     \/ Fails(TRUE) /\ Goes(g, Reading(r[g], {}))
  /\ UNCHANGED <<kernel, notes>>

\* Mutant: the default is not added.
AddNoDefault(ids) == [vid : ids, isPvid : {FALSE}]

\* Mutant: the default is no vlan id at all.
AddZero(ids) == IF ids = {} THEN {[vid |-> 0, isPvid |-> TRUE]}
                            ELSE [vid : ids, isPvid : {FALSE}]

\* Only when no id is left to add is it the default.
Add(ids) == IF ids = {} THEN {[vid |-> 1, isPvid |-> TRUE]}
                        ELSE [vid : ids, isPvid : {FALSE}]

\* Mutant: ids that stay are taken out of the set before it is asked what to delete.
ReconcileDeletesAll(round, p) ==
  LET old == round.vlans[p]
      left == round.ids \ old
  IN [round EXCEPT !.todo = @ \ {p}, !.port = {p}, !.vlans[p] = {},
                   !.ids = left, !.del = old \ left, !.add = Add(left)]

\* What happens to a port that had the ids old; the caller's set is left without them.
ReconcilePort(round, p) ==
  LET old == round.vlans[p]
      left == round.ids \ old
  IN [round EXCEPT !.todo = @ \ {p}, !.port = {p}, !.vlans[p] = {},
                   !.ids = left, !.del = old \ round.ids, !.add = Add(left)]

\* Every request for the port at hand is made.
PortDone(g) == At(g, "vlans") /\ r[g].del = {} /\ r[g].add = {}

\* The ports come in the order of their indexes, which may be any.
bridgeVlanIDReconcile(g) ==
  /\ PortDone(g)
  /\ \E p \in r[g].todo : Goes(g, ReconcilePort(r[g], p))
  /\ UNCHANGED <<kernel, notes, faults>>

\* An error of either request is logged, and the loop goes on.
VlanDel(g) ==
  /\ At(g, "vlans")
  /\ \E p \in r[g].port, vid \in r[g].del :
       LET possible == p \in member /\ vid \in vlans[p]
       IN /\ \/ Succeeds(possible) /\ BridgeVlanDel(p, vid)
             \/ Fails(possible) /\ UNCHANGED kernel
          /\ Goes(g, [r[g] EXCEPT !.del = @ \ {vid}])
  /\ UNCHANGED notes

VlanAdd(g) ==
  /\ At(g, "vlans") /\ r[g].del = {}
  /\ \E p \in r[g].port, a \in r[g].add :
       /\ \/ Succeeds(p \in member) /\ BridgeVlanAdd(p, a.vid, a.isPvid)
          \/ Fails(p \in member) /\ UNCHANGED kernel
       /\ Goes(g, [r[g] EXCEPT !.add = @ \ {a}])
  /\ UNCHANGED notes

RoundDone(g) ==
  /\ PortDone(g) /\ r[g].todo = {}
  /\ Goes(g, Idle)
  /\ UNCHANGED <<kernel, notes, faults>>

bridgeVlanFilteringReconcile(g) ==
  \/ EnableFiltering(g) \/ BridgeVlanList(g) \/ getBridgePorts(g)
  \/ bridgeVlanIDReconcile(g) \/ VlanDel(g) \/ VlanAdd(g) \/ RoundDone(g)

Watch == WatchRound \/ bridgeVlanFilteringReconcile("bridgeWatch")
Handler == HandlerRound \/ bridgeVlanFilteringReconcile("handler")

(***************************************************************************)
(* Users, the CNI plugin, and the handler's other steps (BridgeDaemon).    *)
(***************************************************************************)
Configure(c) ==
  /\ c # conf /\ Len(notes) < MaxNotes
  /\ conf' = c /\ notes' = Append(notes, c)
  /\ UNCHANGED <<kernel, faults, r>>

Join(p) ==
  /\ p \notin member
  /\ member' = member \cup {p}
  /\ vlans' = [vlans EXCEPT ![p] = {1}] /\ pvid' = [pvid EXCEPT ![p] = 1]
  /\ UNCHANGED <<filtering, conf, notes, faults, r>>

Leave(p) ==
  /\ p \in member
  /\ member' = member \ {p}
  /\ vlans' = [vlans EXCEPT ![p] = {}] /\ pvid' = [pvid EXCEPT ![p] = 0]
  /\ UNCHANGED <<filtering, conf, notes, faults, r>>

\* The CNI plugin gives a pod's interface its vlan.
Assign(p, vid) ==
  /\ p \in Pods \cap member /\ pvid[p] # vid
  /\ BridgeVlanAdd(p, vid, TRUE)
  /\ UNCHANGED <<conf, notes, faults, r>>

Others ==
  \/ \E c \in SUBSET Egress : Configure(c)
  \/ \E p \in Ports : Join(p) \/ Leave(p)
  \/ \E p \in Ports, vid \in Vids : Assign(p, vid)

Next == Watch \/ Handler \/ Others

Spec == Init /\ [][Next]_vars

FairSpec == Spec /\ WF_vars(Watch) /\ WF_vars(Handler)

(***************************************************************************)
(* Properties.                                                             *)
(***************************************************************************)
VlanSets == [Ports -> SUBSET Vids]
Pvids == [Ports -> Vids \cup {0}]

Rounds ==
  [pc : {"idle", "enable", "list", "ports", "vlans"},
   conf : SUBSET Egress, vlans : VlanSets, pvid : Pvids,
   ids : SUBSET Vids, todo : SUBSET Egress, port : SUBSET Egress,
   del : SUBSET Vids, add : SUBSET [vid : Vids, isPvid : BOOLEAN], used : SUBSET Vids]

KernelOK ==
  /\ member \subseteq Ports /\ filtering \in BOOLEAN
  /\ vlans \in VlanSets /\ pvid \in Pvids
  /\ \A p \in Ports : /\ pvid[p] # 0 => pvid[p] \in vlans[p]
                      /\ vlans[p] # {} => p \in member

NotesOK ==
  /\ conf \subseteq Egress
  /\ notes \in Seq(SUBSET Egress) /\ Len(notes) <= MaxNotes

\* The shape of every variable: a port off the bridge has no vlans, a port assigns
\* only an id that it has, and a round that is over keeps nothing.
TypeOK ==
  /\ KernelOK /\ NotesOK /\ faults \in 0 .. MaxFaults
  /\ r \in [Goroutines -> Rounds]
  /\ \A g \in Goroutines : r[g].pc = "idle" => r[g] = Idle

\* The ids that the ports of the bridge other than the egress ports assign.
Used == {pvid[p] : p \in member \ conf} \ {0}

\* A bridge's only egress port ends up with the id of every port that stays, and
\* keeps it, whatever rounds with old tables and old configurations were under way.
UsedVlansReachEgress ==
  \A e \in Egress, p \in Ports, vid \in Vids :
    <>[](conf \cap member = {e} /\ p \in member \ conf /\ pvid[p] = vid)
      => <>[](filtering /\ vid \in vlans[e])

\* An egress port ends up without any id that stays out of use (the default aside,
\* which comes and goes).
UnusedVlansLeaveEgress ==
  \A e \in Egress, vid \in Vids \ {1} :
    <>[](e \in conf \cap member /\ vid \notin Used) => <>[](vid \notin vlans[e])

\* Where nothing else is on the bridge, untagged frames get through again and again
\* (the default is deleted and added anew in every round).
UntaggedGetsThrough ==
  \A e \in Egress :
    <>[](e \in conf \cap member /\ Used = {}) => []<>(pvid[e] = 1)

(***************************************************************************)
(* What the program's own words say and the code does not do where a       *)
(* bridge has two egress ports: checked in a run that TLC must find        *)
(* violated.                                                               *)
(***************************************************************************)

\* "delete vlan if not in newVlanIDs" (bridgeconfig.go:333), which are the "vlan IDs
\* from other interfaces" (:387): a round takes no id from an egress port that it
\* found in use by another.
DeletesOnlyUnused ==
  [][\A g \in Goroutines, p \in Egress, vid \in Vids :
       /\ p \in r[g].port /\ r'[g] # r[g]
       /\ vid \in vlans[p] /\ vid \notin vlans'[p]
       => vid \notin r[g].used]_vars

=============================================================================
