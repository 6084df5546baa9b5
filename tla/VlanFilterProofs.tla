--------------------------- MODULE VlanFilterProofs ---------------------------
(***************************************************************************)
(* The types of VlanFilter, for every bridge and any number of failing     *)
(* requests.                                                               *)
(***************************************************************************)
EXTENDS VlanFilter, SequenceTheorems, TLAPS

USE VlanAssumption

\* A goroutine that is between two rounds has an empty round.
LEMMA IdleRound == Idle \in Rounds
<1>1. NoVlans \in VlanSets BY DEF NoVlans, VlanSets
<1>2. NoPvids \in Pvids BY DEF NoPvids, Pvids
<1> QED BY <1>1, <1>2 DEF Idle, Rounds

\* The kernel's requests keep its tables well formed for a port of the bridge.
LEMMA VlanAddOK ==
  ASSUME KernelOK, NEW p \in member, NEW vid \in Vids, NEW b \in BOOLEAN,
         BridgeVlanAdd(p, vid, b)
  PROVE  KernelOK'
BY DEF KernelOK, BridgeVlanAdd, VlanSets, Pvids

LEMMA VlanDelOK ==
  ASSUME KernelOK, NEW p \in Ports, NEW vid, BridgeVlanDel(p, vid)
  PROVE  KernelOK'
BY DEF KernelOK, BridgeVlanDel, VlanSets, Pvids

LEMMA KernelFrame == ASSUME KernelOK, UNCHANGED kernel PROVE KernelOK'
BY DEF KernelOK, kernel

\* A step of goroutine g to a round that is well formed.
RoundsOK ==
  /\ r \in [Goroutines -> Rounds]
  /\ \A g \in Goroutines : r[g].pc = "idle" => r[g] = Idle

LEMMA GoesOK ==
  ASSUME RoundsOK, NEW g \in Goroutines, NEW next \in Rounds, next.pc = "idle" => next = Idle,
         Goes(g, next)
  PROVE  RoundsOK'
BY DEF RoundsOK, Goes

\* The faults only become fewer.
LEMMA FaultsOK ==
  ASSUME faults \in 0 .. MaxFaults, NEW possible \in BOOLEAN,
         Succeeds(possible) \/ Fails(possible)
  PROVE  faults' \in 0 .. MaxFaults
BY DEF Succeeds, Fails

\* What a round computes from the tables it read is well formed.
LEMMA ReadingOK ==
  ASSUME NEW round \in Rounds, NEW ports \in SUBSET Ports
  PROVE  Reading(round, ports) \in Rounds /\ Reading(round, ports).pc = "vlans"
<1> DEFINE todo == ports \cap round.conf
           ids == vlanIDSet(round, ports \ round.conf)
           read == [p \in Ports |-> IF p \in todo THEN round.vlans[p] ELSE {}]
<1>1. todo \in SUBSET Egress BY DEF Rounds
<1>2. ids \in SUBSET Vids
  <2>1. \A p \in ports : round.pvid[p] \in Vids \cup {0} BY DEF Rounds, Pvids
  <2> QED BY <2>1 DEF vlanIDSet
<1>3. read \in VlanSets BY DEF Rounds, VlanSets
<1>4. Reading(round, ports) = [Idle EXCEPT !.pc = "vlans", !.ids = ids, !.used = ids,
                                 !.todo = todo, !.vlans = read]
  BY DEF Reading
<1> HIDE DEF todo, ids, read
<1> QED BY <1>1, <1>2, <1>3, <1>4, IdleRound DEF Rounds, Idle

LEMMA ReconcilePortOK ==
  ASSUME NEW round \in Rounds, NEW p \in round.todo
  PROVE  LET next == ReconcilePort(round, p)
         IN next \in Rounds /\ next.pc = round.pc
<1> DEFINE old == round.vlans[p]
           left == round.ids \ old
           without == [round.vlans EXCEPT ![p] = {}]
<1>1. p \in Egress /\ p \in Ports BY DEF Rounds, Ports
<1>2. old \in SUBSET Vids /\ left \in SUBSET Vids BY <1>1 DEF Rounds, VlanSets
<1>3. without \in VlanSets BY <1>1 DEF Rounds, VlanSets
<1> HIDE DEF old, left, without
<1>4. Add(left) \in SUBSET [vid : Vids, isPvid : BOOLEAN]
  <2>1. CASE left = {}
    <3>1. Add(left) = {[vid |-> 1, isPvid |-> TRUE]} BY <2>1 DEF Add
    <3> QED BY <3>1
  <2>2. CASE left # {}
    <3>1. Add(left) = [vid : left, isPvid : {FALSE}] BY <2>2 DEF Add
    <3>2. \A a \in [vid : left, isPvid : {FALSE}] : a \in [vid : Vids, isPvid : BOOLEAN]
      BY <1>2
    <3> QED BY <3>1, <3>2
  <2> QED BY <2>1, <2>2
<1> DEFINE next == [round EXCEPT !.todo = @ \ {p}, !.port = {p}, !.vlans = without,
                                 !.ids = left, !.del = old \ round.ids, !.add = Add(left)]
<1>5. ReconcilePort(round, p) = next
  BY DEF ReconcilePort, Rounds, old, left, without
<1>6. next \in Rounds /\ next.pc = round.pc
  <2> DEFINE todo == round.todo \ {p}
             del == old \ round.ids
             add == Add(left)
  <2>1. todo \in SUBSET Egress /\ del \in SUBSET Vids /\ {p} \in SUBSET Egress
    BY <1>1, <1>2 DEF Rounds
  <2>2. add \in SUBSET [vid : Vids, isPvid : BOOLEAN] BY <1>4
  <2>3. next = [round EXCEPT !.todo = todo, !.port = {p}, !.vlans = without,
                             !.ids = left, !.del = del, !.add = add]
    BY DEF Rounds
  <2> HIDE DEF todo, del, add, next
  <2> QED BY <1>2, <1>3, <2>1, <2>2, <2>3 DEF Rounds
<1> QED BY <1>5, <1>6

LEMMA NotesFrame == ASSUME NotesOK, UNCHANGED <<conf, notes>> PROVE NotesOK'
BY DEF NotesOK

\* Taking a configuration off the queue, and putting one there.
LEMMA NotesTaken ==
  ASSUME NotesOK, notes # <<>>, notes' = Tail(notes), UNCHANGED conf
  PROVE  NotesOK' /\ Head(notes) \in SUBSET Egress
BY HeadTailProperties DEF NotesOK

LEMMA NotesPut ==
  ASSUME NotesOK, NEW c \in SUBSET Egress, Configure(c)
  PROVE  NotesOK'
BY AppendProperties DEF NotesOK, Configure

\* What a round is started with.
LEMMA StartedOK ==
  ASSUME NEW c \in SUBSET Egress
  PROVE  Started(c) \in Rounds /\ Started(c).pc # "idle"
<1> DEFINE pc == IF filtering THEN "list" ELSE "enable"
<1>1. Started(c) = [Idle EXCEPT !.pc = pc, !.conf = c] BY DEF Started
<1>2. pc \in {"list", "enable"} OBVIOUS
<1> HIDE DEF pc
<1> QED BY <1>1, <1>2, IdleRound DEF Rounds, Idle

LEMMA WatchRoundTypes == ASSUME TypeOK, WatchRound PROVE TypeOK'
<1>1. KernelOK' /\ NotesOK' /\ faults' \in 0 .. MaxFaults
  BY KernelFrame, NotesFrame DEF TypeOK, WatchRound, Goes
<1>2. RoundsOK'
  <2>1. Started(conf) \in Rounds /\ Started(conf).pc # "idle"
    BY StartedOK DEF TypeOK, NotesOK
  <2> QED BY <2>1, GoesOK DEF TypeOK, RoundsOK, WatchRound, Goroutines
<1> QED BY <1>1, <1>2 DEF TypeOK, RoundsOK

LEMMA HandlerRoundTypes == ASSUME TypeOK, HandlerRound PROVE TypeOK'
<1>1. NotesOK' /\ Head(notes) \in SUBSET Egress
  BY NotesTaken DEF TypeOK, HandlerRound, Goes
<1>2. KernelOK' /\ faults' \in 0 .. MaxFaults
  BY KernelFrame DEF TypeOK, HandlerRound
<1>3. RoundsOK'
  <2>1. Started(Head(notes)) \in Rounds /\ Started(Head(notes)).pc # "idle"
    BY <1>1, StartedOK
  <2>2. "handler" \in Goroutines BY DEF Goroutines
  <2>3. CASE Goes("handler", Started(Head(notes)))
    BY <2>1, <2>2, <2>3, GoesOK DEF TypeOK, RoundsOK
  <2>4. CASE Goes("handler", Idle)
    BY <2>2, <2>4, GoesOK, IdleRound DEF TypeOK, RoundsOK
  <2> QED BY <2>3, <2>4 DEF HandlerRound
<1> QED BY <1>1, <1>2, <1>3 DEF TypeOK, RoundsOK

LEMMA EnableFilteringTypes ==
  ASSUME TypeOK, NEW g \in Goroutines, EnableFiltering(g) PROVE TypeOK'
<1>1. NotesOK' BY NotesFrame DEF TypeOK, EnableFiltering, Goes
<1>2. KernelOK' BY DEF TypeOK, KernelOK, EnableFiltering
<1>3. faults' \in 0 .. MaxFaults BY FaultsOK DEF TypeOK, EnableFiltering
<1>4. RoundsOK'
  <2> DEFINE next == [r[g] EXCEPT !.pc = "list"]
  <2>1. next \in Rounds /\ next.pc # "idle" BY DEF TypeOK, Rounds
  <2>2. Goes(g, next) \/ Goes(g, Idle) BY DEF EnableFiltering
  <2> HIDE DEF next
  <2> QED BY <2>1, <2>2, GoesOK, IdleRound DEF TypeOK, RoundsOK
<1> QED BY <1>1, <1>2, <1>3, <1>4 DEF TypeOK, RoundsOK

LEMMA BridgeVlanListTypes ==
  ASSUME TypeOK, NEW g \in Goroutines, BridgeVlanList(g) PROVE TypeOK'
<1>1. KernelOK' /\ NotesOK'
  BY KernelFrame, NotesFrame DEF TypeOK, BridgeVlanList, Goes
<1>2. faults' \in 0 .. MaxFaults BY FaultsOK DEF TypeOK, BridgeVlanList
<1>3. RoundsOK'
  <2> DEFINE next == [r[g] EXCEPT !.pc = "ports", !.vlans = vlans, !.pvid = pvid]
  <2>1. next \in Rounds /\ next.pc # "idle" BY DEF TypeOK, Rounds, KernelOK
  <2>2. Goes(g, next) \/ Goes(g, Idle) BY DEF BridgeVlanList
  <2> HIDE DEF next
  <2> QED BY <2>1, <2>2, GoesOK, IdleRound DEF TypeOK, RoundsOK
<1> QED BY <1>1, <1>2, <1>3 DEF TypeOK, RoundsOK

LEMMA getBridgePortsTypes ==
  ASSUME TypeOK, NEW g \in Goroutines, getBridgePorts(g) PROVE TypeOK'
<1>1. KernelOK' /\ NotesOK'
  BY KernelFrame, NotesFrame DEF TypeOK, getBridgePorts, Goes
<1>2. faults' \in 0 .. MaxFaults BY FaultsOK DEF TypeOK, getBridgePorts
<1>3. RoundsOK'
  <2>1. r[g] \in Rounds /\ member \in SUBSET Ports BY DEF TypeOK, KernelOK
  <2>2. PICK ports \in {member, {}} : Goes(g, Reading(r[g], ports))
    BY DEF getBridgePorts
  <2>3. Reading(r[g], ports) \in Rounds /\ Reading(r[g], ports).pc = "vlans"
    BY <2>1, <2>2, ReadingOK
  <2> QED BY <2>2, <2>3, GoesOK DEF TypeOK, RoundsOK
<1> QED BY <1>1, <1>2, <1>3 DEF TypeOK, RoundsOK

LEMMA bridgeVlanIDReconcileTypes ==
  ASSUME TypeOK, NEW g \in Goroutines, bridgeVlanIDReconcile(g) PROVE TypeOK'
<1>1. KernelOK' /\ NotesOK' /\ faults' \in 0 .. MaxFaults
  BY KernelFrame, NotesFrame DEF TypeOK, bridgeVlanIDReconcile, Goes
<1>2. RoundsOK'
  <2>1. PICK p \in r[g].todo : Goes(g, ReconcilePort(r[g], p))
    BY DEF bridgeVlanIDReconcile
  <2>2. r[g] \in Rounds /\ r[g].pc = "vlans"
    BY DEF TypeOK, bridgeVlanIDReconcile, PortDone, At
  <2>3. ReconcilePort(r[g], p) \in Rounds /\ ReconcilePort(r[g], p).pc = "vlans"
    BY <2>1, <2>2, ReconcilePortOK
  <2> QED BY <2>1, <2>3, GoesOK DEF TypeOK, RoundsOK
<1> QED BY <1>1, <1>2 DEF TypeOK, RoundsOK

LEMMA VlanDelTypes == ASSUME TypeOK, NEW g \in Goroutines, VlanDel(g) PROVE TypeOK'
<1>1. PICK p \in r[g].port, vid \in r[g].del :
        LET possible == p \in member /\ vid \in vlans[p]
        IN /\ \/ Succeeds(possible) /\ BridgeVlanDel(p, vid)
              \/ Fails(possible) /\ UNCHANGED kernel
           /\ Goes(g, [r[g] EXCEPT !.del = @ \ {vid}])
  BY DEF VlanDel
<1>2. NotesOK' BY <1>1, NotesFrame DEF TypeOK, VlanDel, Goes
<1>3. KernelOK'
  <2>1. p \in Ports BY DEF TypeOK, Rounds, Ports
  <2> QED BY <1>1, <2>1, KernelFrame, VlanDelOK DEF TypeOK
<1>4. faults' \in 0 .. MaxFaults BY <1>1, FaultsOK DEF TypeOK
<1>5. RoundsOK'
  <2> DEFINE next == [r[g] EXCEPT !.del = @ \ {vid}]
  <2>1. next \in Rounds /\ next.pc # "idle" BY DEF TypeOK, Rounds, VlanDel, At
  <2>2. Goes(g, next) BY <1>1
  <2> HIDE DEF next
  <2> QED BY <2>1, <2>2, GoesOK DEF TypeOK, RoundsOK
<1> QED BY <1>2, <1>3, <1>4, <1>5 DEF TypeOK, RoundsOK

LEMMA VlanAddTypes == ASSUME TypeOK, NEW g \in Goroutines, VlanAdd(g) PROVE TypeOK'
<1>1. PICK p \in r[g].port, a \in r[g].add :
        /\ \/ Succeeds(p \in member) /\ BridgeVlanAdd(p, a.vid, a.isPvid)
           \/ Fails(p \in member) /\ UNCHANGED kernel
        /\ Goes(g, [r[g] EXCEPT !.add = @ \ {a}])
  BY DEF VlanAdd
<1>2. NotesOK' BY <1>1, NotesFrame DEF TypeOK, VlanAdd, Goes
<1>3. KernelOK'
  <2>1. a.vid \in Vids /\ a.isPvid \in BOOLEAN BY DEF TypeOK, Rounds
  <2>2. CASE Succeeds(p \in member) /\ BridgeVlanAdd(p, a.vid, a.isPvid)
    BY <2>1, <2>2, VlanAddOK DEF TypeOK, Succeeds
  <2>3. CASE UNCHANGED kernel
    BY <2>3, KernelFrame DEF TypeOK
  <2> QED BY <1>1, <2>2, <2>3
<1>4. faults' \in 0 .. MaxFaults
  <2>1. Succeeds(p \in member) \/ Fails(p \in member) BY <1>1
  <2> QED BY <2>1 DEF TypeOK, Succeeds, Fails
<1>5. RoundsOK'
  <2> DEFINE next == [r[g] EXCEPT !.add = @ \ {a}]
  <2>1. next \in Rounds /\ next.pc # "idle" BY DEF TypeOK, Rounds, VlanAdd, At
  <2>2. Goes(g, next) BY <1>1
  <2> HIDE DEF next
  <2> QED BY <2>1, <2>2, GoesOK DEF TypeOK, RoundsOK
<1> QED BY <1>2, <1>3, <1>4, <1>5 DEF TypeOK, RoundsOK

LEMMA RoundDoneTypes == ASSUME TypeOK, NEW g \in Goroutines, RoundDone(g) PROVE TypeOK'
<1>1. KernelOK' /\ NotesOK' /\ faults' \in 0 .. MaxFaults
  BY KernelFrame, NotesFrame DEF TypeOK, RoundDone, Goes
<1>2. RoundsOK' BY GoesOK, IdleRound DEF TypeOK, RoundsOK, RoundDone
<1> QED BY <1>1, <1>2 DEF TypeOK, RoundsOK

LEMMA OthersTypes == ASSUME TypeOK, Others PROVE TypeOK'
<1>1. faults' \in 0 .. MaxFaults /\ RoundsOK'
  BY DEF TypeOK, RoundsOK, Others, Configure, Join, Leave, Assign
<1>2. NotesOK'
  <2>1. CASE \E c \in SUBSET Egress : Configure(c) BY <2>1, NotesPut DEF TypeOK
  <2>2. CASE UNCHANGED <<conf, notes>> BY <2>2, NotesFrame DEF TypeOK
  <2> QED BY <2>1, <2>2 DEF Others, Join, Leave, Assign
<1>3. KernelOK'
  <2>1. CASE \E c \in SUBSET Egress : Configure(c)
    BY <2>1, KernelFrame DEF TypeOK, Configure
  <2>2. ASSUME NEW p \in Ports, Join(p) PROVE KernelOK'
    BY <2>2 DEF TypeOK, KernelOK, Join, VlanSets, Pvids
  <2>3. ASSUME NEW p \in Ports, Leave(p) PROVE KernelOK'
    BY <2>3 DEF TypeOK, KernelOK, Leave, VlanSets, Pvids
  <2>4. ASSUME NEW p \in Ports, NEW vid \in Vids, Assign(p, vid) PROVE KernelOK'
    BY <2>4, VlanAddOK DEF TypeOK, Assign
  <2> QED BY <2>1, <2>2, <2>3, <2>4 DEF Others
<1> QED BY <1>1, <1>2, <1>3 DEF TypeOK, RoundsOK

LEMMA InitTypes == ASSUME Init PROVE TypeOK
<1>1. NotesOK BY EmptySeq DEF Init, NotesOK
<1>2. KernelOK BY DEF Init, KernelOK, NoVlans, NoPvids, VlanSets, Pvids
<1> QED BY <1>1, <1>2, IdleRound DEF Init, TypeOK

LEMMA NextTypes == ASSUME TypeOK, [Next]_vars PROVE TypeOK'
<1>1. CASE UNCHANGED vars
  BY <1>1 DEF TypeOK, vars, kernel, KernelOK, NotesOK
<1>2. CASE WatchRound BY <1>2, WatchRoundTypes
<1>3. CASE HandlerRound BY <1>3, HandlerRoundTypes
<1>4. ASSUME NEW g \in Goroutines, bridgeVlanFilteringReconcile(g) PROVE TypeOK'
  BY <1>4, EnableFilteringTypes, BridgeVlanListTypes, getBridgePortsTypes,
     bridgeVlanIDReconcileTypes, VlanDelTypes, VlanAddTypes, RoundDoneTypes
  DEF bridgeVlanFilteringReconcile
<1>5. CASE Others BY <1>5, OthersTypes
<1> QED BY <1>1, <1>2, <1>3, <1>4, <1>5 DEF Next, Watch, Handler, Goroutines

\* Every variable keeps its shape, for every bridge and any number of failing
\* requests: a port off the bridge has no vlans, a port assigns only an id that it
\* has, and the goroutines give it no id but one in use and the default.
THEOREM TypeCorrect == Spec => []TypeOK
<1>1. Init => TypeOK BY InitTypes
<1>2. TypeOK /\ [Next]_vars => TypeOK' BY NextTypes
<1> QED BY <1>1, <1>2, PTL DEF Spec

=============================================================================
