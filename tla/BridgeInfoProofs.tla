--------------------------- MODULE BridgeInfoProofs ---------------------------
(***************************************************************************)
(* What the reports loop does for every set of nodes, bridges and names:   *)
(* the types, the naming of the objects, and that a daemon keeps its hands *)
(* off the reports of other nodes as long as no two nodes share a name.    *)
(***************************************************************************)
EXTENDS BridgeInfo, TLAPS

USE DEF At, Goes, Fault

\* None, Blank and a report are statuses.
LEMMA StatusTypes ==
  /\ None \in Statuses /\ Blank \in Statuses
  /\ None.node = Nobody /\ Blank.node = Nobody
  /\ \A n \in Nodes, b \in Bridges, mark \in BOOLEAN, ports \in SUBSET Ports :
       /\ Report(n, b, mark, ports) \in Statuses
       /\ Report(n, b, mark, ports).node = n /\ Report(n, b, mark, ports).bridge = b
BY DEF None, Blank, Statuses, Report

\* Idle is a round.
LEMMA IdleType ==
  /\ Idle \in Rounds
  /\ Idle.pc = "idle" /\ Idle.items = {} /\ Idle.name = Nobody
BY DEF Idle, Rounds

LEMMA InitTypes == Init => TypeOK
<1> SUFFICES ASSUME Init PROVE TypeOK
  OBVIOUS
<1>1. ObjectsOK
  BY StatusTypes, InfoAssumption DEF Init, ObjectsOK
<1>2. RegistryOK
  BY DEF Init, RegistryOK, Mark
<1>3. r \in [Nodes -> Rounds] /\ fresh \in [Nodes -> BOOLEAN] /\ faults \in 0 .. MaxFaults
  BY IdleType, InfoAssumption DEF Init
<1>4. \A n \in Nodes : RoundOK(n)
  BY IdleType DEF Init, RoundOK
<1> QED BY <1>1, <1>2, <1>3, <1>4 DEF TypeOK

\* What a write leaves of the objects and of who is up to date.
LEMMA WriteTypes ==
  ASSUME TypeOK, NEW x \in Names, NEW status \in Statuses,
         status.node \in Nodes => status.bridge \in Bridges, Write(x, status)
  PROVE  /\ ObjectsOK' /\ fresh' \in [Nodes -> BOOLEAN]
         /\ \A n \in Nodes : fresh'[n] => fresh[n]
BY DEF TypeOK, ObjectsOK, Write, RoundOK

\* A round that moves on takes no other round with it.
LEMMA MoveTypes ==
  ASSUME TypeOK, NEW n \in Nodes, NEW next \in Rounds, Goes(n, next),
         fresh' \in [Nodes -> BOOLEAN],
         \A m \in Nodes : m # n /\ fresh'[m] => fresh[m],
         next.pc \in {"get", "create", "mark", "ports", "update"} => next.bridge \in Bridges,
         next.pc = "delete" => next.name \in Names,
         fresh'[n] => next.pc \in {"mark", "ports", "update"} /\ next.name \in Names
  PROVE  r' \in [Nodes -> Rounds] /\ \A m \in Nodes : RoundOK(m)'
<1>1. r' \in [Nodes -> Rounds] /\ r'[n] = next /\ \A m \in Nodes : m # n => r'[m] = r[m]
  BY DEF TypeOK
<1>2. RoundOK(n)'
  BY <1>1 DEF RoundOK
<1>3. ASSUME NEW m \in Nodes, m # n PROVE RoundOK(m)'
  BY <1>1, <1>3 DEF TypeOK, RoundOK
<1> QED BY <1>1, <1>2, <1>3

\* A fault is one less to come.
LEMMA FaultTypes ==
  ASSUME TypeOK, Fault \/ UNCHANGED faults
  PROVE  faults' \in 0 .. MaxFaults
BY InfoAssumption DEF TypeOK

\* The steps that only move the round of one node.
LEMMA RoundStepTypes ==
  ASSUME TypeOK, NEW n \in Nodes, UNCHANGED <<objs, registry>>, faults' \in 0 .. MaxFaults,
         fresh' \in [Nodes -> BOOLEAN], r' \in [Nodes -> Rounds], \A m \in Nodes : RoundOK(m)'
  PROVE  TypeOK'
BY DEF TypeOK, ObjectsOK, RegistryOK, registry

LEMMA ListTypes ==
  ASSUME TypeOK, NEW n \in Nodes, List(n)
  PROVE  TypeOK'
<1>1. Items(n) \subseteq [name : Names, bridge : Bridges]
  BY DEF Items, TypeOK, ObjectsOK
<1>2. faults' \in 0 .. MaxFaults
  BY InfoAssumption DEF List, TypeOK
<1>3. ~fresh[n] /\ fresh' = fresh
  BY DEF List, TypeOK, RoundOK
<1>4. PICK next \in Rounds : Goes(n, next) /\ next.pc = "items"
  <2>1. CASE Goes(n, [Idle EXCEPT !.pc = "items", !.items = Items(n)])
    <3>1. /\ [Idle EXCEPT !.pc = "items", !.items = Items(n)] \in Rounds
          /\ [Idle EXCEPT !.pc = "items", !.items = Items(n)].pc = "items"
      BY <1>1, IdleType DEF Rounds
    <3> QED BY <2>1, <3>1
  <2>2. CASE Goes(n, [Idle EXCEPT !.pc = "items"])
    <3>1. [Idle EXCEPT !.pc = "items"] \in Rounds /\ [Idle EXCEPT !.pc = "items"].pc = "items"
      BY IdleType DEF Rounds
    <3> QED BY <2>2, <3>1
  <2> QED BY <2>1, <2>2 DEF List
<1>6. r' \in [Nodes -> Rounds] /\ \A m \in Nodes : RoundOK(m)'
  BY <1>3, <1>4, MoveTypes DEF TypeOK
<1> QED BY <1>2, <1>3, <1>6, RoundStepTypes DEF List, TypeOK

LEMMA ItemCheckTypes ==
  ASSUME TypeOK, NEW n \in Nodes, ItemCheck(n)
  PROVE  TypeOK'
<1> PICK i \in r[n].items :
      LET next == [r[n] EXCEPT !.items = @ \ {i}]
      IN Goes(n, IF Stale(n, i.bridge) THEN [next EXCEPT !.pc = "delete", !.name = i.name]
                                       ELSE next)
  BY DEF ItemCheck
<1> DEFINE next == [r[n] EXCEPT !.items = @ \ {i}]
<1> DEFINE goal == IF Stale(n, i.bridge) THEN [next EXCEPT !.pc = "delete", !.name = i.name]
                                         ELSE next
<1>1. r[n] \in Rounds /\ r[n].pc = "items" /\ ~fresh[n] /\ fresh' = fresh
  BY DEF ItemCheck, TypeOK, RoundOK
<1>2. i.name \in Names
  BY <1>1 DEF Rounds
<1>3. next \in Rounds /\ next.pc = "items"
  BY <1>1 DEF Rounds
<1>4. goal \in Rounds /\ goal.pc \in {"items", "delete"}
      /\ (goal.pc = "delete" => goal.name \in Names)
  <2>1. CASE Stale(n, i.bridge)
    BY <1>2, <1>3, <2>1 DEF Rounds
  <2>2. CASE ~Stale(n, i.bridge)
    BY <1>3, <2>2
  <2> QED BY <2>1, <2>2
<1>5. Goes(n, goal)
  OBVIOUS
<1>6. r' \in [Nodes -> Rounds] /\ \A m \in Nodes : RoundOK(m)'
  <2> HIDE DEF goal
  <2> QED BY <1>1, <1>4, <1>5, MoveTypes DEF TypeOK
<1> QED BY <1>6, RoundStepTypes DEF ItemCheck, TypeOK

LEMMA DeleteTypes ==
  ASSUME TypeOK, NEW n \in Nodes, Delete(n)
  PROVE  TypeOK'
<1> DEFINE next == [r[n] EXCEPT !.pc = "items", !.name = Nobody]
<1>1. r[n] \in Rounds /\ r[n].pc = "delete" /\ r[n].name \in Names /\ ~fresh[n]
  BY DEF Delete, TypeOK, RoundOK
<1>2. ObjectsOK' /\ fresh' \in [Nodes -> BOOLEAN] /\ \A m \in Nodes : fresh'[m] => fresh[m]
  <2>1. CASE Write(r[n].name, None)
    BY <1>1, <2>1, StatusTypes, WriteTypes, InfoAssumption
  <2>2. CASE UNCHANGED <<objs, fresh>>
    BY <2>2 DEF TypeOK, ObjectsOK
  <2> QED BY <2>1, <2>2 DEF Delete
<1>3. next \in Rounds /\ next.pc = "items"
  BY <1>1 DEF Rounds
<1>4. r' \in [Nodes -> Rounds] /\ \A m \in Nodes : RoundOK(m)'
  <2>1. Goes(n, next)
    BY DEF Delete
  <2> HIDE DEF next
  <2> QED BY <1>1, <1>2, <1>3, <2>1, MoveTypes DEF TypeOK
<1>5. RegistryOK' /\ faults' \in 0 .. MaxFaults
  BY InfoAssumption DEF Delete, TypeOK, RegistryOK, registry
<1> QED BY <1>2, <1>4, <1>5 DEF TypeOK

LEMMA RangeTypes ==
  ASSUME TypeOK, NEW n \in Nodes, Range(n)
  PROVE  TypeOK'
<1> PICK more \in SUBSET (Bridges \ Keys(n)) :
      Goes(n, [r[n] EXCEPT !.pc = "range", !.left = Keys(n) \cup more])
  BY DEF Range
<1> DEFINE next == [r[n] EXCEPT !.pc = "range", !.left = Keys(n) \cup more]
<1>1. r[n] \in Rounds /\ ~fresh[n] /\ fresh' = fresh
  BY DEF Range, TypeOK, RoundOK
<1>2. next \in Rounds /\ next.pc = "range"
  BY <1>1 DEF Rounds, Keys
<1>3. Goes(n, next)
  OBVIOUS
<1>4. r' \in [Nodes -> Rounds] /\ \A m \in Nodes : RoundOK(m)'
  <2> HIDE DEF next
  <2> QED BY <1>1, <1>2, <1>3, MoveTypes DEF TypeOK
<1> QED BY <1>4, RoundStepTypes DEF Range, TypeOK

LEMMA VisitTypes ==
  ASSUME TypeOK, NEW n \in Nodes, Visit(n)
  PROVE  TypeOK'
<1> PICK b \in r[n].left \cap Keys(n) :
      Goes(n, [r[n] EXCEPT !.pc = "get", !.left = @ \ {b}, !.bridge = b])
  BY DEF Visit
<1> DEFINE next == [r[n] EXCEPT !.pc = "get", !.left = @ \ {b}, !.bridge = b]
<1>1. r[n] \in Rounds /\ ~fresh[n] /\ fresh' = fresh
  BY DEF Visit, TypeOK, RoundOK
<1>2. b \in Bridges
  BY DEF Keys
<1>3. next \in Rounds /\ next.pc = "get" /\ next.bridge \in Bridges
  BY <1>1, <1>2 DEF Rounds
<1>4. Goes(n, next)
  OBVIOUS
<1>5. r' \in [Nodes -> Rounds] /\ \A m \in Nodes : RoundOK(m)'
  <2> HIDE DEF next
  <2> QED BY <1>1, <1>3, <1>4, MoveTypes DEF TypeOK
<1> QED BY <1>5, RoundStepTypes DEF Visit, TypeOK

LEMMA GetTypes ==
  ASSUME TypeOK, NEW n \in Nodes, Get(n)
  PROVE  TypeOK'
<1> DEFINE x == InfoName[n][r[n].bridge]
<1>1. r[n] \in Rounds /\ r[n].bridge \in Bridges /\ ~fresh[n]
  BY DEF Get, TypeOK, RoundOK
<1>2. x \in Names
  BY <1>1, InfoAssumption
<1>3. faults' \in 0 .. MaxFaults
  <2>1. Fault \/ UNCHANGED faults
    BY DEF Get
  <2> QED BY <2>1, FaultTypes
<1>4. fresh' \in [Nodes -> BOOLEAN] /\ \A m \in Nodes : m # n => fresh'[m] = fresh[m]
  BY DEF Get, TypeOK
<1>5. r' \in [Nodes -> Rounds] /\ \A m \in Nodes : RoundOK(m)'
  <2>1. CASE Goes(n, [r[n] EXCEPT !.pc = "mark", !.name = x])
    <3> DEFINE next == [r[n] EXCEPT !.pc = "mark", !.name = x]
    <3>1. next \in Rounds /\ next.pc = "mark" /\ next.bridge \in Bridges /\ next.name \in Names
      BY <1>1, <1>2 DEF Rounds
    <3>2. Goes(n, next)
      BY <2>1
    <3> HIDE DEF next
    <3> QED BY <1>4, <3>1, <3>2, MoveTypes DEF TypeOK
  <2>2. CASE Goes(n, [r[n] EXCEPT !.pc = "create"]) /\ UNCHANGED fresh
    <3> DEFINE next == [r[n] EXCEPT !.pc = "create"]
    <3>1. next \in Rounds /\ next.pc = "create" /\ next.bridge \in Bridges
      BY <1>1 DEF Rounds
    <3>2. Goes(n, next)
      BY <2>2
    <3> HIDE DEF next
    <3> QED BY <1>1, <1>4, <2>2, <3>1, <3>2, MoveTypes DEF TypeOK
  <2> QED BY <2>1, <2>2 DEF Get
<1> QED BY <1>3, <1>4, <1>5, RoundStepTypes DEF Get

LEMMA CreateTypes ==
  ASSUME TypeOK, NEW n \in Nodes, Create(n)
  PROVE  TypeOK'
<1> DEFINE x == InfoName[n][r[n].bridge]
<1>1. r[n] \in Rounds /\ r[n].bridge \in Bridges /\ ~fresh[n]
  BY DEF Create, TypeOK, RoundOK
<1>2. x \in Names
  BY <1>1, InfoAssumption
<1>3. faults' \in 0 .. MaxFaults /\ RegistryOK'
  <2>1. Fault \/ UNCHANGED faults
    BY DEF Create
  <2>2. UNCHANGED registry
    BY DEF Create
  <2> QED BY <2>1, <2>2, FaultTypes DEF TypeOK, RegistryOK, registry
<1>4. CASE /\ objs' = [objs EXCEPT ![x] = Blank]
           /\ fresh' = [fresh EXCEPT ![n] = TRUE]
           /\ Goes(n, [r[n] EXCEPT !.pc = "mark", !.name = x])
  <2> DEFINE next == [r[n] EXCEPT !.pc = "mark", !.name = x]
  <2>1. next \in Rounds /\ next.pc = "mark" /\ next.bridge \in Bridges /\ next.name \in Names
    BY <1>1, <1>2 DEF Rounds
  <2>2. Goes(n, next) /\ fresh' \in [Nodes -> BOOLEAN]
        /\ \A m \in Nodes : m # n => fresh'[m] = fresh[m]
    BY <1>4 DEF TypeOK
  <2>3. r' \in [Nodes -> Rounds] /\ \A m \in Nodes : RoundOK(m)'
    <3> HIDE DEF next
    <3> QED BY <2>1, <2>2, MoveTypes DEF TypeOK
  <2>4. ObjectsOK'
    BY <1>4, StatusTypes, InfoAssumption DEF TypeOK, ObjectsOK
  <2> QED BY <1>3, <2>2, <2>3, <2>4 DEF TypeOK
<1>5. CASE /\ Goes(n, [r[n] EXCEPT !.pc = "mark"])
           /\ UNCHANGED <<objs, fresh>> \/ Write(x, Blank)
  <2> DEFINE next == [r[n] EXCEPT !.pc = "mark"]
  <2>1. next \in Rounds /\ next.pc = "mark" /\ next.bridge \in Bridges
    BY <1>1 DEF Rounds
  <2>2. ObjectsOK' /\ fresh' \in [Nodes -> BOOLEAN] /\ \A m \in Nodes : fresh'[m] => fresh[m]
    <3>1. CASE UNCHANGED <<objs, fresh>>
      BY <3>1 DEF TypeOK, ObjectsOK
    <3>2. CASE Write(x, Blank)
      BY <1>2, <3>2, StatusTypes, WriteTypes, InfoAssumption
    <3> QED BY <1>5, <3>1, <3>2
  <2>3. Goes(n, next)
    BY <1>5
  <2>4. r' \in [Nodes -> Rounds] /\ \A m \in Nodes : RoundOK(m)'
    <3> HIDE DEF next
    <3> QED BY <1>1, <2>1, <2>2, <2>3, MoveTypes DEF TypeOK
  <2> QED BY <1>3, <2>2, <2>4 DEF TypeOK
<1> QED BY <1>4, <1>5 DEF Create

LEMMA ReadMarkTypes ==
  ASSUME TypeOK, NEW n \in Nodes, ReadMark(n)
  PROVE  TypeOK'
<1> DEFINE next == [r[n] EXCEPT !.pc = "ports",
                      !.managed = managedBridges[n][r[n].bridge] = "managed"]
<1>1. r[n] \in Rounds /\ r[n].bridge \in Bridges /\ r[n].pc = "mark" /\ fresh' = fresh
  BY DEF ReadMark, TypeOK, RoundOK
<1>2. next \in Rounds /\ next.pc = "ports" /\ next.bridge \in Bridges
      /\ next.name = r[n].name
  BY <1>1 DEF Rounds
<1>3. fresh[n] => next.name \in Names
  BY <1>2 DEF TypeOK, RoundOK
<1>4. Goes(n, next)
  BY DEF ReadMark
<1>5. r' \in [Nodes -> Rounds] /\ \A m \in Nodes : RoundOK(m)'
  <2> HIDE DEF next
  <2> QED BY <1>1, <1>2, <1>3, <1>4, MoveTypes DEF TypeOK
<1> QED BY <1>5, RoundStepTypes DEF ReadMark, TypeOK

LEMMA ReadPortsTypes ==
  ASSUME TypeOK, NEW n \in Nodes, ReadPorts(n)
  PROVE  TypeOK'
<1> DEFINE next == [r[n] EXCEPT !.pc = "update",
                      !.ports = managedBridgePorts[n][r[n].bridge]]
<1>1. r[n] \in Rounds /\ r[n].bridge \in Bridges /\ r[n].pc = "ports" /\ fresh' = fresh
  BY DEF ReadPorts, TypeOK, RoundOK
<1>2. managedBridgePorts[n][r[n].bridge] \in SUBSET Ports
  BY <1>1 DEF TypeOK, RegistryOK
<1>3. next \in Rounds /\ next.pc = "update" /\ next.bridge \in Bridges
      /\ next.name = r[n].name
  BY <1>1, <1>2 DEF Rounds
<1>4. fresh[n] => next.name \in Names
  BY <1>3 DEF TypeOK, RoundOK
<1>5. Goes(n, next)
  BY DEF ReadPorts
<1>6. r' \in [Nodes -> Rounds] /\ \A m \in Nodes : RoundOK(m)'
  <2> HIDE DEF next
  <2> QED BY <1>1, <1>3, <1>4, <1>5, MoveTypes DEF TypeOK
<1> QED BY <1>6, RoundStepTypes DEF ReadPorts, TypeOK

LEMMA UpdateStatusTypes ==
  ASSUME TypeOK, NEW n \in Nodes, UpdateStatus(n)
  PROVE  TypeOK'
<1> DEFINE status == Report(n, r[n].bridge, r[n].managed, r[n].ports)
<1> DEFINE next == [Idle EXCEPT !.pc = "range", !.left = r[n].left]
<1>1. r[n] \in Rounds /\ r[n].bridge \in Bridges /\ r[n].pc = "update"
  BY DEF UpdateStatus, TypeOK, RoundOK
<1>2. status \in Statuses /\ status.bridge \in Bridges
  <2>1. r[n].managed \in BOOLEAN /\ r[n].ports \in SUBSET Ports
    BY <1>1 DEF Rounds
  <2> QED BY <1>1, <2>1, StatusTypes
<1>3. /\ ObjectsOK' /\ fresh' \in [Nodes -> BOOLEAN] /\ ~fresh'[n]
      /\ \A m \in Nodes : fresh'[m] => fresh[m]
  <2>1. CASE fresh[n] /\ Write(r[n].name, status)
    <3>1. r[n].name \in Names
      BY <2>1 DEF TypeOK, RoundOK
    <3>2. ~fresh'[n]
      BY <2>1 DEF Write
    <3> HIDE DEF status
    <3> QED BY <1>2, <2>1, <3>1, <3>2, WriteTypes
  <2>2. CASE fresh' = [fresh EXCEPT ![n] = FALSE] /\ UNCHANGED objs
    BY <2>2 DEF TypeOK, ObjectsOK
  <2> QED BY <2>1, <2>2 DEF UpdateStatus
<1>4. next \in Rounds /\ next.pc = "range"
  BY <1>1, IdleType DEF Rounds
<1>5. r' \in [Nodes -> Rounds] /\ \A m \in Nodes : RoundOK(m)'
  <2>1. Goes(n, next)
    BY DEF UpdateStatus
  <2> HIDE DEF next
  <2> QED BY <1>3, <1>4, <2>1, MoveTypes DEF TypeOK
<1>6. RegistryOK' /\ faults' \in 0 .. MaxFaults
  <2>1. Fault \/ UNCHANGED faults
    BY DEF UpdateStatus
  <2>2. UNCHANGED registry
    BY DEF UpdateStatus
  <2> QED BY <2>1, <2>2, FaultTypes DEF TypeOK, RegistryOK, registry
<1> QED BY <1>3, <1>5, <1>6 DEF TypeOK

LEMMA RoundDoneTypes ==
  ASSUME TypeOK, NEW n \in Nodes, RoundDone(n)
  PROVE  TypeOK'
<1>1. ~fresh[n] /\ fresh' = fresh
  BY DEF RoundDone, TypeOK, RoundOK
<1>2. r' \in [Nodes -> Rounds] /\ \A m \in Nodes : RoundOK(m)'
  BY <1>1, IdleType, MoveTypes DEF RoundDone, TypeOK
<1> QED BY <1>2, RoundStepTypes DEF RoundDone, TypeOK

\* A key that leaves the map takes itself, at most, out of the range under way.
LEMMA UnsetTypes ==
  ASSUME TypeOK, NEW n \in Nodes, NEW b \in Bridges, UnsetBridgeManagement(n, b)
  PROVE  TypeOK'
<1>1. PICK seen \in SUBSET (r[n].left \cap {b}) : Goes(n, [r[n] EXCEPT !.left = @ \ seen])
  BY DEF UnsetBridgeManagement
<1> DEFINE next == [r[n] EXCEPT !.left = @ \ seen]
<1>2. RoundOK(n) /\ r[n] \in Rounds /\ fresh' = fresh
  BY DEF UnsetBridgeManagement, TypeOK
<1>3. /\ next \in Rounds /\ next.pc = r[n].pc
      /\ next.bridge = r[n].bridge /\ next.name = r[n].name
  BY <1>2 DEF Rounds
<1>4. r' \in [Nodes -> Rounds] /\ \A m \in Nodes : RoundOK(m)'
  <2>1. Goes(n, next) BY <1>1
  <2> HIDE DEF next
  <2> QED BY <1>2, <1>3, <2>1, MoveTypes DEF TypeOK, RoundOK
<1>5. RegistryOK'
  BY DEF UnsetBridgeManagement, TypeOK, RegistryOK, Mark
<1>6. UNCHANGED <<objs, fresh, faults>>
  BY DEF UnsetBridgeManagement
<1> QED BY <1>4, <1>5, <1>6 DEF TypeOK, ObjectsOK

LEMMA RegistryStepTypes ==
  ASSUME TypeOK, NEW n \in Nodes, NEW b \in Bridges,
         \/ \E mark \in Mark \ {"absent"} : SetBridgeManagement(n, b, mark)
         \/ \E p \in Ports : SetPortManagement(n, b, p) \/ RemovePortManagement(n, b, p)
  PROVE  TypeOK'
<1>1. UNCHANGED <<objs, r, fresh, faults>>
  BY DEF SetBridgeManagement, SetPortManagement, RemovePortManagement
<1>2. RegistryOK'
  <2>1. ASSUME NEW mark \in Mark \ {"absent"}, SetBridgeManagement(n, b, mark)
        PROVE  RegistryOK'
    BY <2>1 DEF SetBridgeManagement, TypeOK, RegistryOK
  <2>2. ASSUME NEW p \in Ports, SetPortManagement(n, b, p) PROVE RegistryOK'
    BY <2>2 DEF SetPortManagement, TypeOK, RegistryOK
  <2>3. ASSUME NEW p \in Ports, RemovePortManagement(n, b, p) PROVE RegistryOK'
    BY <2>3 DEF RemovePortManagement, TypeOK, RegistryOK
  <2> QED BY <2>1, <2>2, <2>3
<1> QED BY <1>1, <1>2 DEF TypeOK, ObjectsOK, RoundOK

LEMMA CrashTypes ==
  ASSUME TypeOK, NEW n \in Nodes, Crash(n)
  PROVE  TypeOK'
<1>1. RegistryOK'
  BY DEF Crash, TypeOK, RegistryOK, Mark
<1>2. fresh' \in [Nodes -> BOOLEAN] /\ ~fresh'[n] /\ \A m \in Nodes : fresh'[m] => fresh[m]
  BY DEF Crash, TypeOK
<1>3. r' \in [Nodes -> Rounds] /\ \A m \in Nodes : RoundOK(m)'
  BY <1>2, IdleType, MoveTypes DEF Crash, TypeOK
<1>4. UNCHANGED <<objs, faults>>
  BY DEF Crash
<1> QED BY <1>1, <1>2, <1>3, <1>4 DEF TypeOK, ObjectsOK

LEMMA UserDeleteTypes ==
  ASSUME TypeOK, NEW x \in Names, UserDelete(x)
  PROVE  TypeOK'
<1>1. ObjectsOK' /\ fresh' \in [Nodes -> BOOLEAN] /\ \A m \in Nodes : fresh'[m] => fresh[m]
  BY StatusTypes, WriteTypes, InfoAssumption DEF UserDelete
<1>2. UNCHANGED <<managedBridges, managedBridgePorts, r>> /\ Fault
  BY DEF UserDelete, registry
<1>3. faults' \in 0 .. MaxFaults
  BY <1>2, FaultTypes
<1> QED BY <1>1, <1>2, <1>3 DEF TypeOK, RegistryOK, RoundOK

\* Every variable keeps its type, for every cluster: a round never writes an object
\* without a name, and no ports stay on record for a bridge that is not.
THEOREM TypeCorrect == Spec => []TypeOK
<1>1. TypeOK /\ [Next]_vars => TypeOK'
  <2> SUFFICES ASSUME TypeOK, [Next]_vars PROVE TypeOK'
    OBVIOUS
  <2>1. ASSUME NEW n \in Nodes, bridgeInfoUpdate(n) PROVE TypeOK'
    BY <2>1, ListTypes, ItemCheckTypes, DeleteTypes, RangeTypes, VisitTypes, GetTypes,
       CreateTypes, ReadMarkTypes, ReadPortsTypes, UpdateStatusTypes, RoundDoneTypes
       DEF bridgeInfoUpdate
  <2>2. ASSUME Others PROVE TypeOK'
    BY <2>2, UnsetTypes, RegistryStepTypes, CrashTypes, UserDeleteTypes DEF Others
  <2>3. CASE UNCHANGED vars
    BY <2>3 DEF vars, registry, TypeOK, ObjectsOK, RegistryOK, RoundOK
  <2> QED BY <2>1, <2>2, <2>3 DEF Next
<1> QED BY <1>1, InitTypes, PTL DEF Spec

(***************************************************************************)
(* The names of the objects.                                               *)
(***************************************************************************)
LEMMA WriteNamed ==
  ASSUME TypeOK, ObjectsNamed, NEW x \in Names, NEW status, Write(x, status),
         status.node # Nobody => x = InfoName[status.node][status.bridge]
  PROVE  ObjectsNamed'
BY DEF TypeOK, ObjectsOK, ObjectsNamed, Write

LEMMA MoveNamed ==
  ASSUME TypeOK, ReportsNamed, NEW n \in Nodes, NEW next, Goes(n, next),
         \A i \in next.items : i.name = InfoName[n][i.bridge],
         next.name # Nobody => next.name \in OwnNames(n),
         next.pc \in {"items", "range", "get", "create"} => next.name = Nobody,
         next.pc \in {"mark", "ports", "update"} =>
           next.name \in {Nobody, InfoName[n][next.bridge]}
  PROVE  \A m \in Nodes : RoundNamed(m)'
<1>1. r'[n] = next /\ \A m \in Nodes : m # n => r'[m] = r[m]
  BY DEF TypeOK
<1>2. RoundNamed(n)'
  BY <1>1 DEF RoundNamed, OwnNames
<1>3. ASSUME NEW m \in Nodes, m # n PROVE RoundNamed(m)'
  BY <1>1, <1>3 DEF ReportsNamed, RoundNamed, OwnNames
<1> QED BY <1>1, <1>2, <1>3

\* The list of a node's own reports has their own names.
LEMMA ListNamed ==
  ASSUME TypeOK, ReportsNamed, NEW n \in Nodes, List(n)
  PROVE  ReportsNamed'
<1>1. \A i \in Items(n) : i.name = InfoName[n][i.bridge]
  BY InfoAssumption DEF Items, ReportsNamed, ObjectsNamed
<1>2. PICK next : /\ Goes(n, next) /\ next.pc = "items" /\ next.name = Nobody
                  /\ \A i \in next.items : i.name = InfoName[n][i.bridge]
  <2>1. CASE Goes(n, [Idle EXCEPT !.pc = "items", !.items = Items(n)])
    <3>1. /\ [Idle EXCEPT !.pc = "items", !.items = Items(n)].items = Items(n)
          /\ [Idle EXCEPT !.pc = "items", !.items = Items(n)].pc = "items"
          /\ [Idle EXCEPT !.pc = "items", !.items = Items(n)].name = Nobody
      BY IdleType DEF Rounds
    <3> QED BY <1>1, <2>1, <3>1
  <2>2. CASE Goes(n, [Idle EXCEPT !.pc = "items"])
    <3>1. /\ [Idle EXCEPT !.pc = "items"].items = {}
          /\ [Idle EXCEPT !.pc = "items"].pc = "items"
          /\ [Idle EXCEPT !.pc = "items"].name = Nobody
      BY IdleType DEF Rounds
    <3> QED BY <2>2, <3>1
  <2> QED BY <2>1, <2>2 DEF List
<1>3. \A m \in Nodes : RoundNamed(m)'
  BY <1>2, MoveNamed
<1>4. ObjectsNamed'
  BY DEF List, ReportsNamed, ObjectsNamed
<1> QED BY <1>3, <1>4 DEF ReportsNamed

LEMMA ItemCheckNamed ==
  ASSUME TypeOK, ReportsNamed, NEW n \in Nodes, ItemCheck(n)
  PROVE  ReportsNamed'
<1> PICK i \in r[n].items :
      LET next == [r[n] EXCEPT !.items = @ \ {i}]
      IN Goes(n, IF Stale(n, i.bridge) THEN [next EXCEPT !.pc = "delete", !.name = i.name]
                                       ELSE next)
  BY DEF ItemCheck
<1> DEFINE next == [r[n] EXCEPT !.items = @ \ {i}]
<1> DEFINE goal == IF Stale(n, i.bridge) THEN [next EXCEPT !.pc = "delete", !.name = i.name]
                                         ELSE next
<1>1. r[n] \in Rounds /\ r[n].pc = "items" /\ RoundNamed(n)
  BY DEF ItemCheck, TypeOK, ReportsNamed
<1>2. i.name = InfoName[n][i.bridge] /\ i.bridge \in Bridges
  BY <1>1 DEF RoundNamed, Rounds
<1>3. /\ next \in Rounds /\ next.pc = "items" /\ next.name = r[n].name
      /\ next.items \subseteq r[n].items
  BY <1>1 DEF Rounds
<1>4. /\ goal.pc \in {"items", "delete"} /\ goal.items \subseteq r[n].items
      /\ goal.name # Nobody => goal.name \in OwnNames(n)
      /\ goal.pc = "items" => goal.name = Nobody
  <2>1. CASE Stale(n, i.bridge)
    <3>1. goal.pc = "delete" /\ goal.name = i.name /\ goal.items = next.items
      BY <1>3, <2>1 DEF Rounds
    <3> QED BY <1>2, <1>3, <3>1 DEF OwnNames
  <2>2. CASE ~Stale(n, i.bridge)
    BY <1>1, <1>3, <2>2 DEF RoundNamed
  <2> QED BY <2>1, <2>2
<1>5. Goes(n, goal)
  OBVIOUS
<1>6. \A m \in Nodes : RoundNamed(m)'
  <2> HIDE DEF goal
  <2>1. \A j \in goal.items : j.name = InfoName[n][j.bridge]
    BY <1>1, <1>4 DEF RoundNamed
  <2> QED BY <1>4, <1>5, <2>1, MoveNamed
<1>7. ObjectsNamed'
  BY DEF ItemCheck, ReportsNamed, ObjectsNamed
<1> QED BY <1>6, <1>7 DEF ReportsNamed

LEMMA DeleteNamed ==
  ASSUME TypeOK, ReportsNamed, NEW n \in Nodes, Delete(n)
  PROVE  ReportsNamed'
<1> DEFINE next == [r[n] EXCEPT !.pc = "items", !.name = Nobody]
<1>1. r[n] \in Rounds /\ r[n].name \in Names /\ RoundNamed(n)
  BY DEF Delete, TypeOK, RoundOK, ReportsNamed
<1>2. next.pc = "items" /\ next.name = Nobody /\ next.items = r[n].items
  BY <1>1 DEF Rounds
<1>3. Goes(n, next)
  BY DEF Delete
<1>4. \A m \in Nodes : RoundNamed(m)'
  <2>1. \A i \in next.items : i.name = InfoName[n][i.bridge]
    BY <1>1, <1>2 DEF RoundNamed
  <2> HIDE DEF next
  <2> QED BY <1>2, <1>3, <2>1, MoveNamed
<1>5. ObjectsNamed'
  <2>1. CASE Write(r[n].name, None)
    BY <1>1, <2>1, StatusTypes, WriteNamed DEF ReportsNamed
  <2>2. CASE UNCHANGED objs
    BY <2>2 DEF ReportsNamed, ObjectsNamed
  <2> QED BY <2>1, <2>2 DEF Delete
<1> QED BY <1>4, <1>5 DEF ReportsNamed

\* The steps that look at the maps.
LEMMA RangeNamed ==
  ASSUME TypeOK, ReportsNamed, NEW n \in Nodes, Range(n) \/ Visit(n)
  PROVE  ReportsNamed'
<1>1. r[n] \in Rounds /\ RoundNamed(n)
  BY DEF TypeOK, ReportsNamed
<1>2. PICK next : /\ Goes(n, next) /\ next.pc \in {"range", "get"}
                  /\ next.items = r[n].items /\ next.name = r[n].name
  <2>1. CASE Range(n)
    <3> PICK more \in SUBSET (Bridges \ Keys(n)) :
          Goes(n, [r[n] EXCEPT !.pc = "range", !.left = Keys(n) \cup more])
      BY <2>1 DEF Range
    <3> DEFINE to == [r[n] EXCEPT !.pc = "range", !.left = Keys(n) \cup more]
    <3>1. to.pc = "range" /\ to.items = r[n].items /\ to.name = r[n].name
      BY <1>1 DEF Rounds
    <3> QED BY <3>1
  <2>2. CASE Visit(n)
    <3> PICK b \in r[n].left \cap Keys(n) :
          Goes(n, [r[n] EXCEPT !.pc = "get", !.left = @ \ {b}, !.bridge = b])
      BY <2>2 DEF Visit
    <3> DEFINE to == [r[n] EXCEPT !.pc = "get", !.left = @ \ {b}, !.bridge = b]
    <3>1. to.pc = "get" /\ to.items = r[n].items /\ to.name = r[n].name
      BY <1>1 DEF Rounds
    <3> QED BY <3>1
  <2> QED BY <2>1, <2>2
<1>3. \A m \in Nodes : RoundNamed(m)'
  <2>1. r[n].pc \in {"items", "range"} /\ r[n].name = Nobody
    BY <1>1 DEF Range, Visit, RoundNamed
  <2>2. \A i \in next.items : i.name = InfoName[n][i.bridge]
    BY <1>1, <1>2 DEF RoundNamed
  <2>3. next.name = Nobody /\ next.pc \notin {"mark", "ports", "update"}
    BY <1>2, <2>1
  <2> QED BY <1>2, <2>2, <2>3, MoveNamed
<1>4. ObjectsNamed'
  BY DEF Range, Visit, ReportsNamed, ObjectsNamed
<1> QED BY <1>3, <1>4 DEF ReportsNamed

\* The steps that find the object, or make it.
LEMMA GetNamed ==
  ASSUME TypeOK, ReportsNamed, NEW n \in Nodes, Get(n)
  PROVE  ReportsNamed'
<1> DEFINE x == InfoName[n][r[n].bridge]
<1>1. r[n] \in Rounds /\ RoundNamed(n) /\ r[n].bridge \in Bridges
  BY DEF Get, TypeOK, RoundOK, ReportsNamed
<1>2. PICK next : /\ Goes(n, next) /\ next.items = r[n].items
                  /\ \/ next.pc = "mark" /\ next.name = x /\ next.bridge = r[n].bridge
                     \/ next.pc = "create" /\ next.name = Nobody
  <2>1. CASE Goes(n, [r[n] EXCEPT !.pc = "mark", !.name = x])
    <3> DEFINE to == [r[n] EXCEPT !.pc = "mark", !.name = x]
    <3>1. to.pc = "mark" /\ to.items = r[n].items /\ to.name = x /\ to.bridge = r[n].bridge
      BY <1>1 DEF Rounds
    <3> QED BY <2>1, <3>1
  <2>2. CASE Goes(n, [r[n] EXCEPT !.pc = "create"])
    <3> DEFINE to == [r[n] EXCEPT !.pc = "create"]
    <3>1. to.pc = "create" /\ to.items = r[n].items /\ to.name = Nobody
      BY <1>1 DEF Get, Rounds, RoundNamed
    <3> QED BY <2>2, <3>1
  <2> QED BY <2>1, <2>2 DEF Get
<1>3. next.name # Nobody => next.name \in OwnNames(n)
  BY <1>1, <1>2 DEF RoundNamed, OwnNames
<1>4. next.pc \in {"mark", "ports", "update"} => next.name \in {Nobody, InfoName[n][next.bridge]}
  BY <1>2
<1>5. \A m \in Nodes : RoundNamed(m)'
  <2>1. \A i \in next.items : i.name = InfoName[n][i.bridge]
    BY <1>1, <1>2 DEF RoundNamed
  <2>2. next.pc \in {"items", "range", "get", "create"} => next.name = Nobody
    BY <1>2
  <2> QED BY <1>2, <1>3, <1>4, <2>1, <2>2, MoveNamed
<1>6. ObjectsNamed'
  BY DEF Get, ReportsNamed, ObjectsNamed
<1> QED BY <1>5, <1>6 DEF ReportsNamed

LEMMA CreateNamed ==
  ASSUME TypeOK, ReportsNamed, NEW n \in Nodes, Create(n)
  PROVE  ReportsNamed'
<1> DEFINE x == InfoName[n][r[n].bridge]
<1>1. r[n] \in Rounds /\ RoundNamed(n) /\ r[n].bridge \in Bridges /\ r[n].name = Nobody
  BY DEF Create, TypeOK, RoundOK, ReportsNamed, RoundNamed
<1>2. x \in Names
  BY <1>1, InfoAssumption
<1>3. PICK next : /\ Goes(n, next) /\ next.items = r[n].items /\ next.pc = "mark"
                  /\ next.name \in {Nobody, x} /\ next.bridge = r[n].bridge
  <2>1. CASE Goes(n, [r[n] EXCEPT !.pc = "mark", !.name = x])
    <3> DEFINE to == [r[n] EXCEPT !.pc = "mark", !.name = x]
    <3>1. to.pc = "mark" /\ to.items = r[n].items /\ to.name = x /\ to.bridge = r[n].bridge
      BY <1>1 DEF Rounds
    <3> QED BY <2>1, <3>1
  <2>2. CASE Goes(n, [r[n] EXCEPT !.pc = "mark"])
    <3> DEFINE to == [r[n] EXCEPT !.pc = "mark"]
    <3>1. to.pc = "mark" /\ to.items = r[n].items /\ to.name = Nobody /\ to.bridge = r[n].bridge
      BY <1>1 DEF Rounds
    <3> QED BY <2>2, <3>1
  <2> QED BY <2>1, <2>2 DEF Create
<1>4. \A m \in Nodes : RoundNamed(m)'
  <2>1. next.name # Nobody => next.name \in OwnNames(n)
    BY <1>1, <1>3 DEF OwnNames
  <2>2. \A i \in next.items : i.name = InfoName[n][i.bridge]
    BY <1>1, <1>3 DEF RoundNamed
  <2>3. next.name \in {Nobody, InfoName[n][next.bridge]}
    BY <1>3
  <2> QED BY <1>3, <2>1, <2>2, <2>3, MoveNamed
<1>5. ObjectsNamed'
  <2>1. objs' = [objs EXCEPT ![x] = Blank] \/ UNCHANGED objs
    BY DEF Create, Write
  <2> QED BY <1>2, <2>1, StatusTypes DEF TypeOK, ObjectsOK, ReportsNamed, ObjectsNamed
<1> QED BY <1>4, <1>5 DEF ReportsNamed

\* What the update will say is read.
LEMMA ReadNamed ==
  ASSUME TypeOK, ReportsNamed, NEW n \in Nodes, ReadMark(n) \/ ReadPorts(n)
  PROVE  ReportsNamed'
<1>1. r[n] \in Rounds /\ RoundNamed(n) /\ r[n].pc \in {"mark", "ports"}
  BY DEF ReadMark, ReadPorts, TypeOK, ReportsNamed
<1>2. PICK next : /\ Goes(n, next) /\ next.pc \in {"ports", "update"}
                  /\ next.items = r[n].items /\ next.name = r[n].name
                  /\ next.bridge = r[n].bridge
  <2>1. CASE ReadMark(n)
    <3> DEFINE to == [r[n] EXCEPT !.pc = "ports",
                        !.managed = managedBridges[n][r[n].bridge] = "managed"]
    <3>1. /\ to.pc = "ports" /\ to.items = r[n].items
          /\ to.name = r[n].name /\ to.bridge = r[n].bridge
      BY <1>1 DEF Rounds
    <3>2. Goes(n, to)
      BY <2>1 DEF ReadMark
    <3> HIDE DEF to
    <3> QED BY <3>1, <3>2
  <2>2. CASE ReadPorts(n)
    <3> DEFINE to == [r[n] EXCEPT !.pc = "update",
                        !.ports = managedBridgePorts[n][r[n].bridge]]
    <3>1. /\ to.pc = "update" /\ to.items = r[n].items
          /\ to.name = r[n].name /\ to.bridge = r[n].bridge
      BY <1>1 DEF Rounds
    <3>2. Goes(n, to)
      BY <2>2 DEF ReadPorts
    <3> HIDE DEF to
    <3> QED BY <3>1, <3>2
  <2> QED BY <2>1, <2>2
<1>3. \A m \in Nodes : RoundNamed(m)'
  <2>1. \A i \in next.items : i.name = InfoName[n][i.bridge]
    BY <1>1, <1>2 DEF RoundNamed
  <2>2. /\ next.name # Nobody => next.name \in OwnNames(n)
        /\ next.name \in {Nobody, InfoName[n][next.bridge]}
    BY <1>1, <1>2 DEF RoundNamed
  <2> QED BY <1>2, <2>1, <2>2, MoveNamed
<1>4. ObjectsNamed'
  BY DEF ReadMark, ReadPorts, ReportsNamed, ObjectsNamed
<1> QED BY <1>3, <1>4 DEF ReportsNamed

LEMMA UpdateStatusNamed ==
  ASSUME TypeOK, ReportsNamed, NEW n \in Nodes, UpdateStatus(n)
  PROVE  ReportsNamed'
<1> DEFINE status == Report(n, r[n].bridge, r[n].managed, r[n].ports)
<1> DEFINE next == [Idle EXCEPT !.pc = "range", !.left = r[n].left]
<1>1. r[n] \in Rounds /\ RoundNamed(n) /\ r[n].pc = "update"
  BY DEF UpdateStatus, TypeOK, ReportsNamed
<1>2. next.pc = "range" /\ next.items = {} /\ next.name = Nobody
  BY IdleType DEF Rounds
<1>3. Goes(n, next)
  BY DEF UpdateStatus
<1>4. \A m \in Nodes : RoundNamed(m)'
  <2> HIDE DEF next
  <2> QED BY <1>2, <1>3, MoveNamed
<1>5. ObjectsNamed'
  <2>1. CASE fresh[n] /\ Write(r[n].name, status)
    <3>1. r[n].name \in Names
      BY <2>1 DEF TypeOK, RoundOK
    <3>2. r[n].name = InfoName[n][r[n].bridge]
      BY <1>1, <3>1, InfoAssumption DEF RoundNamed
    <3>3. status.node = n /\ status.bridge = r[n].bridge
      BY DEF Report
    <3> HIDE DEF status
    <3> QED BY <2>1, <3>1, <3>2, <3>3, WriteNamed DEF ReportsNamed
  <2>2. CASE UNCHANGED objs
    BY <2>2 DEF ReportsNamed, ObjectsNamed
  <2> QED BY <2>1, <2>2 DEF UpdateStatus
<1> QED BY <1>4, <1>5 DEF ReportsNamed

LEMMA IdleNamed ==
  ASSUME TypeOK, ReportsNamed, NEW n \in Nodes, RoundDone(n) \/ Crash(n)
  PROVE  ReportsNamed'
<1>1. Goes(n, Idle) /\ UNCHANGED objs
  BY DEF RoundDone, Crash
<1>2. \A m \in Nodes : RoundNamed(m)'
  BY <1>1, IdleType, MoveNamed
<1> QED BY <1>1, <1>2 DEF ReportsNamed, ObjectsNamed

LEMMA OthersNamed ==
  ASSUME TypeOK, ReportsNamed, Others
  PROVE  ReportsNamed'
<1>1. ASSUME NEW n \in Nodes, NEW b \in Bridges,
             \/ \E mark \in Mark \ {"absent"} : SetBridgeManagement(n, b, mark)
             \/ \E p \in Ports : SetPortManagement(n, b, p) \/ RemovePortManagement(n, b, p)
      PROVE  ReportsNamed'
  <2>1. UNCHANGED <<objs, r>>
    BY <1>1 DEF SetBridgeManagement, SetPortManagement, RemovePortManagement
  <2> QED BY <2>1 DEF ReportsNamed, ObjectsNamed, RoundNamed, OwnNames
<1>2. ASSUME NEW x \in Names, UserDelete(x) PROVE ReportsNamed'
  <2>1. Write(x, None) /\ UNCHANGED r
    BY <1>2 DEF UserDelete
  <2>2. ObjectsNamed'
    BY <2>1, StatusTypes, WriteNamed DEF ReportsNamed
  <2> QED BY <2>1, <2>2 DEF ReportsNamed, RoundNamed, OwnNames
<1>3. ASSUME NEW n \in Nodes, NEW b \in Bridges, UnsetBridgeManagement(n, b)
      PROVE  ReportsNamed'
  <2>1. PICK seen \in SUBSET (r[n].left \cap {b}) : Goes(n, [r[n] EXCEPT !.left = @ \ seen])
    BY <1>3 DEF UnsetBridgeManagement
  <2> DEFINE next == [r[n] EXCEPT !.left = @ \ seen]
  <2>2. /\ next.items = r[n].items /\ next.pc = r[n].pc
        /\ next.bridge = r[n].bridge /\ next.name = r[n].name
    BY DEF TypeOK, Rounds
  <2>3. RoundNamed(n) BY DEF ReportsNamed
  <2>4. \A m \in Nodes : RoundNamed(m)'
    <3>1. Goes(n, next) BY <2>1
    <3> HIDE DEF next
    <3>2. /\ \A i \in next.items : i.name = InfoName[n][i.bridge]
          /\ next.name # Nobody => next.name \in OwnNames(n)
          /\ next.pc \in {"items", "range", "get", "create"} => next.name = Nobody
          /\ next.pc \in {"mark", "ports", "update"} =>
               next.name \in {Nobody, InfoName[n][next.bridge]}
      BY <2>2, <2>3 DEF RoundNamed
    <3> QED BY <3>1, <3>2, MoveNamed
  <2>5. UNCHANGED objs BY <1>3 DEF UnsetBridgeManagement
  <2> QED BY <2>4, <2>5 DEF ReportsNamed, ObjectsNamed
<1> QED BY <1>1, <1>2, <1>3, IdleNamed DEF Others

LEMMA NamedInductive == TypeOK /\ ReportsNamed /\ [Next]_vars => ReportsNamed'
<1> SUFFICES ASSUME TypeOK, ReportsNamed, [Next]_vars PROVE ReportsNamed'
  OBVIOUS
<1>1. ASSUME NEW n \in Nodes, bridgeInfoUpdate(n) PROVE ReportsNamed'
  BY <1>1, ListNamed, ItemCheckNamed, DeleteNamed, RangeNamed, GetNamed, CreateNamed,
     ReadNamed, UpdateStatusNamed, IdleNamed DEF bridgeInfoUpdate
<1>2. CASE UNCHANGED vars
  BY <1>2 DEF vars, ReportsNamed, ObjectsNamed, RoundNamed, OwnNames
<1> QED BY <1>1, <1>2, OthersNamed DEF Next

LEMMA NamedInit == Init => ReportsNamed
BY StatusTypes, IdleType DEF Init, ReportsNamed, ObjectsNamed, RoundNamed

\* Every filled in object is named after the node and the bridge in its status, and
\* every object a daemon is about to write or delete after that daemon's node.
THEOREM ReportsNamedCorrect == Spec => []ReportsNamed
BY NamedInit, NamedInductive, TypeCorrect, PTL DEF Spec

\* A write of node n's daemon is to an object of that node, or to one that no daemon
\* has filled in.
LEMMA KeepsOthersStep ==
  ASSUME TypeOK, ReportsNamed, NamesDistinct, Next,
         NEW n \in Nodes, NEW x \in Names, r'[n] # r[n], objs'[x] # objs[x]
  PROVE  objs[x].node \in {n, Nobody}
<1>1. bridgeInfoUpdate(n)
  <2>1. ASSUME NEW m \in Nodes, bridgeInfoUpdate(m) PROVE m = n
    <3>1. \E next : Goes(m, next)
      BY <2>1 DEF bridgeInfoUpdate, List, ItemCheck, Delete, Range, Visit, Get, Create,
                  ReadMark, ReadPorts, UpdateStatus, RoundDone
    <3> QED BY <3>1 DEF TypeOK
  <2>2. ~Others
    BY DEF Others, SetBridgeManagement, UnsetBridgeManagement, SetPortManagement,
           RemovePortManagement, Crash, UserDelete
  <2> QED BY <2>1, <2>2 DEF Next
<1>2. Delete(n) \/ Create(n) \/ UpdateStatus(n)
  BY <1>1 DEF bridgeInfoUpdate, List, ItemCheck, Range, Visit, Get, ReadMark, ReadPorts,
              RoundDone
<1>3. CASE Create(n)
  <2>1. objs[x] = None
    BY <1>3 DEF Create, Write, TypeOK, ObjectsOK
  <2> QED BY <2>1, StatusTypes
<1>4. CASE Delete(n) \/ UpdateStatus(n)
  <2>1. x = r[n].name
    BY <1>4 DEF Delete, UpdateStatus, Write, TypeOK, ObjectsOK
  <2>2. PICK b \in Bridges : x = InfoName[n][b]
    BY <2>1, InfoAssumption DEF ReportsNamed, RoundNamed, OwnNames
  <2>3. CASE objs[x].node # Nobody
    <3>1. objs[x].node \in Nodes /\ objs[x].bridge \in Bridges
      BY <2>3 DEF TypeOK, ObjectsOK, Statuses
    <3>2. x = InfoName[objs[x].node][objs[x].bridge]
      BY <2>3 DEF ReportsNamed, ObjectsNamed
    <3> QED BY <2>2, <3>1, <3>2 DEF NamesDistinct
  <2> QED BY <2>3
<1> QED BY <1>2, <1>3, <1>4

\* In a cluster where no two pairs of a node and a bridge share a name, no daemon
\* deletes or overwrites the report of another node, whatever fails or restarts.
THEOREM OthersReportsKept ==
  ASSUME NamesDistinct
  PROVE  Spec => KeepsOthersReports
<1>1. TypeOK /\ ReportsNamed /\ [Next]_vars =>
        [\A n \in Nodes, x \in Names :
           r'[n] # r[n] /\ objs'[x] # objs[x] => objs[x].node \in {n, Nobody}]_vars
  BY KeepsOthersStep
<1> QED BY <1>1, TypeCorrect, ReportsNamedCorrect, PTL DEF Spec, KeepsOthersReports

=============================================================================
