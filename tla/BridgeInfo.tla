------------------------------ MODULE BridgeInfo ------------------------------
(***************************************************************************)
(* The reports of the daemons: every few seconds bridgeInfoUpdate          *)
(* (pkg/server/server.go) of each node brings the BridgeInformation        *)
(* objects at the API server in line with the node's managedBridges and    *)
(* managedBridgePorts, which the handler and the port watch change         *)
(* meanwhile.  Objects are cluster wide; what keeps the nodes apart is the *)
(* name of an object and the node in its status.                           *)
(*                                                                         *)
(* One step is one request of the generated client                         *)
(* (pkg/client/clientset/.../bridgeinformation.go) or one access to the    *)
(* shared maps.                                                            *)
(***************************************************************************)
EXTENDS Naturals

CONSTANTS
  Nodes, Bridges,
  Ports,      \* a port of a bridge together with its mark
  Names,      \* names of BridgeInformation objects
  InfoName,   \* InfoName[n][b]: the name of node n's object for bridge b
  Nobody,     \* the empty string, as the name of a node, bridge or object
  MaxFaults   \* bound on the requests that fail and the objects users delete

ASSUME InfoAssumption ==
  /\ InfoName \in [Nodes -> [Bridges -> Names]]
  /\ Nobody \notin Nodes \cup Bridges \cup Names
  /\ MaxFaults \in Nat

\* fmt.Sprintf("%s-%s") does not guarantee it: node "a" with bridge "b-c" and node
\* "a-b" with bridge "c" meet in one name.
NamesDistinct ==
  \A m, n \in Nodes, b, c \in Bridges : InfoName[m][b] = InfoName[n][c] => m = n /\ b = c

VARIABLES
  objs,                \* objs[x]: the status of object x, None if there is no x
  managedBridges,      \* managedBridges[n][b] at node n: a mark or "absent"
  managedBridgePorts,  \* managedBridgePorts[n][b]: the ports on record there
  r,                   \* r[n]: the round of node n's daemon
  fresh,               \* fresh[n]: the object it read last was not written since
  faults               \* how many requests may still fail

registry == <<managedBridges, managedBridgePorts>>
vars == <<objs, registry, r, fresh, faults>>

\* A key of a map that is not there, an object that is not there.
Mark == {"absent", "managed", "unmanaged"}
None == [node |-> Nobody, bridge |-> "none", managed |-> FALSE, ports |-> {}]

\* newBridgeInfo has a name and no status, nor would Create keep one.
Blank == [None EXCEPT !.bridge = Nobody]

Report(n, b, isManaged, ports) ==
  [node |-> n, bridge |-> b, managed |-> isManaged, ports |-> ports]

Idle == [pc |-> "idle", items |-> {}, left |-> {}, bridge |-> Nobody,
         name |-> Nobody, managed |-> FALSE, ports |-> {}]

Init ==
  /\ objs = [x \in Names |-> None]
  /\ managedBridges = [n \in Nodes |-> [b \in Bridges |-> "absent"]]
  /\ managedBridgePorts = [n \in Nodes |-> [b \in Bridges |-> {}]]
  /\ r = [n \in Nodes |-> Idle]
  /\ fresh = [n \in Nodes |-> FALSE]
  /\ faults = MaxFaults

(***************************************************************************)
(* The API server.                                                         *)
(***************************************************************************)
Fault == faults > 0 /\ faults' = faults - 1

\* A write gives the object a new resourceVersion: whoever read it before is behind.
Write(x, status) ==
  /\ objs' = [objs EXCEPT ![x] = status]
  /\ fresh' = [n \in Nodes |-> fresh[n] /\ r[n].name # x]

(***************************************************************************)
(* One round of bridgeInfoUpdate at node n.                                *)
(***************************************************************************)
At(n, pc) == r[n].pc = pc
Goes(n, next) == r' = [r EXCEPT ![n] = next]
Keys(n) == {b \in Bridges : managedBridges[n][b] # "absent"}

\* Mutant: the node of an item is not looked at.
ItemsOfAll(n) == {[name |-> x, bridge |-> objs[x].bridge] :
                    x \in {y \in Names : objs[y].bridge \in Bridges}}

\* The items of the list that the loop does not pass over.
Items(n) == {[name |-> x, bridge |-> objs[x].bridge] :
               x \in {y \in Names : objs[y].node = n}}

List(n) ==
  /\ At(n, "idle")
  /\ \/ Goes(n, [Idle EXCEPT !.pc = "items", !.items = Items(n)]) /\ UNCHANGED faults
     \/ Goes(n, [Idle EXCEPT !.pc = "items"]) /\ Fault
  /\ UNCHANGED <<objs, registry, fresh>>

\* Mutant: no report is ever taken down.
NotStale(n, b) == FALSE

Stale(n, b) == b \notin Keys(n)

ItemCheck(n) ==
  /\ At(n, "items")
  /\ \E i \in r[n].items :
       LET next == [r[n] EXCEPT !.items = @ \ {i}]
       IN Goes(n, IF Stale(n, i.bridge) THEN [next EXCEPT !.pc = "delete", !.name = i.name]
                                        ELSE next)
  /\ UNCHANGED <<objs, registry, fresh, faults>>

Delete(n) ==
  /\ At(n, "delete")
  /\ \/ Write(r[n].name, None) /\ UNCHANGED faults
     \/ Fault /\ UNCHANGED <<objs, fresh>>
  /\ Goes(n, [r[n] EXCEPT !.pc = "items", !.name = Nobody])
  /\ UNCHANGED registry

\* The range over managedBridges visits every key that stays, and may or may not
\* visit one that comes while it runs.
Range(n) ==
  /\ At(n, "items") /\ r[n].items = {}
  /\ \E more \in SUBSET (Bridges \ Keys(n)) :
       Goes(n, [r[n] EXCEPT !.pc = "range", !.left = Keys(n) \cup more])
  /\ UNCHANGED <<objs, registry, fresh, faults>>

Visit(n) ==
  /\ At(n, "range")
  /\ \E b \in r[n].left \cap Keys(n) :
       Goes(n, [r[n] EXCEPT !.pc = "get", !.left = @ \ {b}, !.bridge = b])
  /\ UNCHANGED <<objs, registry, fresh, faults>>

\* Not found or any other error: an object is to be created.
Get(n) ==
  /\ At(n, "get")
  /\ LET x == InfoName[n][r[n].bridge]
     IN \/ /\ objs[x] # None
           /\ Goes(n, [r[n] EXCEPT !.pc = "mark", !.name = x])
           /\ fresh' = [fresh EXCEPT ![n] = TRUE]
           /\ UNCHANGED faults
        \/ /\ IF objs[x] # None THEN Fault ELSE UNCHANGED faults
           /\ Goes(n, [r[n] EXCEPT !.pc = "create"])
           /\ UNCHANGED fresh
  /\ UNCHANGED <<objs, registry>>

\* After an error (the object is there, or no answer came, whatever the server did)
\* the round goes on with an object that has no name.
Create(n) ==
  /\ At(n, "create")
  /\ LET x == InfoName[n][r[n].bridge]
     IN \/ /\ objs[x] = None /\ UNCHANGED faults
           /\ objs' = [objs EXCEPT ![x] = Blank]
           /\ fresh' = [fresh EXCEPT ![n] = TRUE]
           /\ Goes(n, [r[n] EXCEPT !.pc = "mark", !.name = x])
        \/ /\ Goes(n, [r[n] EXCEPT !.pc = "mark"])
           /\ \/ UNCHANGED <<objs, fresh>> /\ IF objs[x] = None THEN Fault ELSE UNCHANGED faults
              \/ objs[x] = None /\ Fault /\ Write(x, Blank)
  /\ UNCHANGED registry

\* newBridgeInfo.Status is filled in from the two maps, one after the other.
ReadMark(n) ==
  /\ At(n, "mark")
  /\ Goes(n, [r[n] EXCEPT !.pc = "ports",
                !.managed = managedBridges[n][r[n].bridge] = "managed"])
  /\ UNCHANGED <<objs, registry, fresh, faults>>

ReadPorts(n) ==
  /\ At(n, "ports")
  /\ Goes(n, [r[n] EXCEPT !.pc = "update", !.ports = managedBridgePorts[n][r[n].bridge]])
  /\ UNCHANGED <<objs, registry, fresh, faults>>

\* The client refuses an object without a name, the server one that was written or
\* deleted since it was read.
UpdateStatus(n) ==
  /\ At(n, "update")
  /\ \/ /\ fresh[n] /\ UNCHANGED faults
        /\ Write(r[n].name, Report(n, r[n].bridge, r[n].managed, r[n].ports))
     \/ /\ IF fresh[n] THEN Fault ELSE UNCHANGED faults
        /\ fresh' = [fresh EXCEPT ![n] = FALSE]
        /\ UNCHANGED objs
  /\ Goes(n, [Idle EXCEPT !.pc = "range", !.left = r[n].left])
  /\ UNCHANGED registry

RoundDone(n) ==
  /\ At(n, "range") /\ r[n].left \cap Keys(n) = {}
  /\ Goes(n, Idle)
  /\ UNCHANGED <<objs, registry, fresh, faults>>

bridgeInfoUpdate(n) ==
  \/ List(n) \/ ItemCheck(n) \/ Delete(n) \/ Range(n) \/ Visit(n)
  \/ Get(n) \/ Create(n) \/ ReadMark(n) \/ ReadPorts(n) \/ UpdateStatus(n)
  \/ RoundDone(n)

(***************************************************************************)
(* The other goroutines of the daemon at work on the maps, its end, users. *)
(***************************************************************************)
SetBridgeManagement(n, b, mark) ==
  /\ managedBridges[n][b] = "absent"
  /\ managedBridges' = [managedBridges EXCEPT ![n][b] = mark]
  /\ UNCHANGED <<objs, managedBridgePorts, r, fresh, faults>>

\* Mutant: the ports stay on record.
UnsetKeepsPorts(n, b) ==
  /\ managedBridges[n][b] # "absent"
  /\ managedBridges' = [managedBridges EXCEPT ![n][b] = "absent"]
  /\ UNCHANGED <<objs, managedBridgePorts, r, fresh, faults>>

\* Should the key come back, a range that has yet to come to it may pass it over (seen).
UnsetBridgeManagement(n, b) ==
  /\ managedBridges[n][b] # "absent"
  /\ managedBridges' = [managedBridges EXCEPT ![n][b] = "absent"]
  /\ managedBridgePorts' = [managedBridgePorts EXCEPT ![n][b] = {}]
  /\ \E seen \in SUBSET (r[n].left \cap {b}) : Goes(n, [r[n] EXCEPT !.left = @ \ seen])
  /\ UNCHANGED <<objs, fresh, faults>>

SetPortManagement(n, b, p) ==
  /\ managedBridges[n][b] # "absent" /\ p \notin managedBridgePorts[n][b]
  /\ managedBridgePorts' = [managedBridgePorts EXCEPT ![n][b] = @ \cup {p}]
  /\ UNCHANGED <<objs, managedBridges, r, fresh, faults>>

RemovePortManagement(n, b, p) ==
  /\ p \in managedBridgePorts[n][b]
  /\ managedBridgePorts' = [managedBridgePorts EXCEPT ![n][b] = @ \ {p}]
  /\ UNCHANGED <<objs, managedBridges, r, fresh, faults>>

\* The process dies at any step; the next one starts with empty maps.
Crash(n) ==
  /\ <<managedBridges[n], managedBridgePorts[n], r[n]>>
       # <<[b \in Bridges |-> "absent"], [b \in Bridges |-> {}], Idle>>
  /\ managedBridges' = [managedBridges EXCEPT ![n] = [b \in Bridges |-> "absent"]]
  /\ managedBridgePorts' = [managedBridgePorts EXCEPT ![n] = [b \in Bridges |-> {}]]
  /\ Goes(n, Idle) /\ fresh' = [fresh EXCEPT ![n] = FALSE]
  /\ UNCHANGED <<objs, faults>>

UserDelete(x) ==
  /\ objs[x] # None /\ Fault
  /\ Write(x, None)
  /\ UNCHANGED <<registry, r>>

Others ==
  \/ \E n \in Nodes, b \in Bridges :
       \/ \E mark \in Mark \ {"absent"} : SetBridgeManagement(n, b, mark)
       \/ UnsetBridgeManagement(n, b)
       \/ \E p \in Ports : SetPortManagement(n, b, p) \/ RemovePortManagement(n, b, p)
  \/ \E n \in Nodes : Crash(n)
  \/ \E x \in Names : UserDelete(x)

Next == (\E n \in Nodes : bridgeInfoUpdate(n)) \/ Others

Spec == Init /\ [][Next]_vars

\* The frequency runner starts a round at least every three seconds.
FairSpec == Spec /\ \A n \in Nodes : WF_vars(bridgeInfoUpdate(n))

(***************************************************************************)
(* Properties.                                                             *)
(***************************************************************************)
OwnNames(n) == {InfoName[n][b] : b \in Bridges}

Statuses == [node : Nodes \cup {Nobody}, bridge : Bridges \cup {Nobody, "none"},
             managed : BOOLEAN, ports : SUBSET Ports]

Rounds == [pc : {"idle", "items", "delete", "range", "get", "create", "mark",
                 "ports", "update"},
           items : SUBSET [name : Names, bridge : Bridges], left : SUBSET Bridges,
           bridge : Bridges \cup {Nobody}, name : Names \cup {Nobody},
           managed : BOOLEAN, ports : SUBSET Ports]

\* A report that was filled in has a node and a bridge, or neither.
ObjectsOK ==
  /\ objs \in [Names -> Statuses]
  /\ \A x \in Names : objs[x].node \in Nodes => objs[x].bridge \in Bridges

RegistryOK ==
  /\ managedBridges \in [Nodes -> [Bridges -> Mark]]
  /\ managedBridgePorts \in [Nodes -> [Bridges -> SUBSET Ports]]
  /\ \A n \in Nodes, b \in Bridges :
       managedBridgePorts[n][b] # {} => managedBridges[n][b] # "absent"

\* A round is about a bridge from the Get to the UpdateStatus.
RoundOK(n) ==
  /\ r[n] \in Rounds
  /\ r[n].pc \in {"get", "create", "mark", "ports", "update"} => r[n].bridge \in Bridges
  /\ r[n].pc = "delete" => r[n].name \in Names
  /\ fresh[n] => r[n].pc \in {"mark", "ports", "update"} /\ r[n].name \in Names

\* The shape of every variable: only a bridge on record has ports, and a round has
\* the name of an object whenever it writes one (server.go:244, :283).
TypeOK ==
  /\ ObjectsOK
  /\ RegistryOK
  /\ r \in [Nodes -> Rounds] /\ fresh \in [Nodes -> BOOLEAN] /\ faults \in 0 .. MaxFaults
  /\ \A n \in Nodes : RoundOK(n)

\* A daemon deletes and overwrites only what is its own node's, or what nobody has
\* filled in yet, however old its list and its copy are (the test of Status.Node,
\* server.go:241, and the resourceVersion sent back in UpdateStatus, :283).
KeepsOthersReports ==
  [][\A n \in Nodes, x \in Names :
       r'[n] # r[n] /\ objs'[x] # objs[x] => objs[x].node \in {n, Nobody}]_vars

\* Why: an object that carries a node's name is named by that node, and so is every
\* object that the node's daemon is about to write or delete (infoName,
\* server.go:254, is the only name that Create is given).
ObjectsNamed ==
  \A x \in Names : objs[x].node # Nobody => x = InfoName[objs[x].node][objs[x].bridge]

RoundNamed(n) ==
  /\ \A i \in r[n].items : i.name = InfoName[n][i.bridge]
  /\ r[n].name # Nobody => r[n].name \in OwnNames(n)
  /\ r[n].pc \in {"items", "range", "get", "create"} => r[n].name = Nobody
  /\ r[n].pc \in {"mark", "ports", "update"} =>
       r[n].name \in {Nobody, InfoName[n][r[n].bridge]}

ReportsNamed == ObjectsNamed /\ \A n \in Nodes : RoundNamed(n)

\* What the report of a bridge should be: the ports and the mark on record, or no
\* report when there is no record.  (An object that was created and never filled in
\* may stay for ever: nothing in it tells whose it is.)
Reported(n, b) ==
  LET o == objs[InfoName[n][b]]
  IN IF b \in Keys(n)
     THEN o = Report(n, b, managedBridges[n][b] = "managed", managedBridgePorts[n][b])
     ELSE o \in {None, Blank}

\* When the record of a bridge stops changing and the daemon stays up, the report of
\* the bridge settles on the record, whatever was lost, refused, deleted or half done
\* before (bridgeInfoUpdate tells nobody of an error and starts anew, server.go:230-288).
ReportsSettle ==
  \A n \in Nodes, b \in Bridges :
    <>[][/\ UNCHANGED <<managedBridges[n][b], managedBridgePorts[n][b]>>
         /\ r'[n] # r[n] =>
              bridgeInfoUpdate(n) \/ \E c \in Bridges : UnsetBridgeManagement(n, c)]_vars
      => <>[]Reported(n, b)

=============================================================================
