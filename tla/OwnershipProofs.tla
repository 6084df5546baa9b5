--------------------------- MODULE OwnershipProofs ---------------------------
(***************************************************************************)
(* Ports: what the daemon may detach it attached. Every step changes the   *)
(* links in one of few ways (LinkStep); each of these keeps the links      *)
(* consistent and what is safe to give up safe (Keeps); and no step marks  *)
(* a port managed unless it is safe. The one assumption is that others     *)
(* create, delete, attach and detach only pod interfaces.                  *)
(***************************************************************************)
EXTENDS BridgeDaemonProofs

\* The ways a step may change the links, told by what it does to them.
Makes(l) ==
  /\ ~Exists(l)
  /\ \E i \in Index \ InUse : LinkAdd(l, i)
  /\ made' = made \cup {ifindex'[l]}
  /\ UNCHANGED joined

Joins(p, b) ==
  /\ Exists(p) /\ Exists(b) /\ (p \in Nics => master[p] = 0)
  /\ LinkSetMaster(p, ifindex[b])
  /\ joined' = Keep(joined) \cup {p}
  /\ UNCHANGED made

Leaves(p) ==
  /\ SafeToDetach(p)
  /\ LinkSetNoMaster(p)
  /\ joined' = Keep(joined)
  /\ UNCHANGED made

Deletes(l) ==
  /\ Exists(l)
  /\ l \in Vlans => SafeToDelete(l) /\ master[l] = 0
  /\ LinkDel(l)
  /\ joined' = Keep(joined) /\ made' = Live(made)

PodStep(v) ==
  \/ OutsideAdd(v) \/ OutsideDel(v)
  \/ \E b \in Bridges : OutsideAttach(v, b)
  \/ OutsideDetach(v)

LinkStep ==
  \/ UNCHANGED <<links, history>>
  \/ \E l \in Bridges \cup Vlans : Makes(l)
  \/ \E p \in Nics \cup Vlans, b \in Bridges : Joins(p, b)
  \/ \E p \in Nics \cup Vlans : Leaves(p)
  \/ \E v \in Vlans : Deletes(v)
  \/ \E b \in Bridges : h.pc = "linkDel" /\ h.name = b /\ Deletes(b)
  \/ \E v \in Veths : PodStep(v)

\* What stays true of links that others do not touch.
Keeps ==
  /\ \A p \in Nics \cup Vlans : SafeToDetach(p) => SafeToDetach(p)'
  /\ \A l \in Bridges \cup Vlans : SafeToDelete(l) => SafeToDelete(l)'

USE LinkAssumption

\* Creating a link keeps the table of links consistent, and every port and link
\* that was safe to give up or delete is still so.
LEMMA MakesKeeps ==
  ASSUME TypeOK, LinksConsistent, NEW l \in Bridges \cup Vlans, Makes(l)
  PROVE  LinksConsistent' /\ Keeps
<1>1. PICK i \in Index \ InUse : LinkAdd(l, i) BY DEF Makes
<1>a. \A k \in Links : ifindex[k] # i BY DEF InUse
<1>2. /\ ifindex' = [ifindex EXCEPT ![l] = i] /\ master' = master
      /\ ifindex[l] = 0 /\ made' = made \cup {i} /\ joined' = joined
      /\ i # 0 /\ l \in Links
      /\ \A k \in Links : ifindex[k] # i
  BY <1>1, <1>a DEF Makes, LinkAdd, Exists, TypeOK, LinksOK, Links, Ports
<1> USE DEF LinksConsistent, Exists, BridgeAt
<1>3. \A k, m \in Links : Exists(k)' /\ ifindex'[k] = ifindex'[m] => k = m
  BY <1>2 DEF TypeOK, LinksOK
<1>4. \A p \in Ports : master'[p] # 0 => Exists(p)' /\ BridgeAt(master[p])' # {}
  BY <1>2 DEF TypeOK, LinksOK, Links, Ports
<1>5. \A j \in made' : \E m \in Bridges \cup Vlans : ifindex'[m] = j
  BY <1>2 DEF TypeOK, LinksOK, Links, Ports
<1>6. \A p \in joined' : master'[p] # 0 /\ p \in Nics \cup Vlans BY <1>2
<1>7. Keeps BY <1>2 DEF Keeps, SafeToDetach, SafeToDelete, TypeOK, LinksOK, Links, Ports
<1> QED BY <1>3, <1>4, <1>5, <1>6, <1>7

\* So does enslaving a port or freeing it, when the ports of the daemon's kinds
\* only move by its own hand.
LEMMA SetMasterKeeps ==
  ASSUME TypeOK, LinksConsistent, NEW p \in Ports, Exists(p), NEW b \in Bridges,
         NEW i \in {0, ifindex[b]}, LinkSetMaster(p, i), made' = made,
         joined' = Keep(joined) \/ (joined' = Keep(joined) \cup {p} /\ p \in Nics \cup Vlans /\ i # 0),
         p \in Nics \cup Vlans => i = 0 \/ p \in joined'
  PROVE  LinksConsistent' /\ Keeps
<1>1. /\ ifindex' = ifindex /\ master' = [master EXCEPT ![p] = i]
      /\ master'[p] = i /\ \A q \in Ports \ {p} : master'[q] = master[q]
  BY DEF LinkSetMaster, TypeOK, LinksOK
<1> USE DEF LinksConsistent, Exists, BridgeAt
<1>2. \A k, m \in Links : Exists(k)' /\ ifindex'[k] = ifindex'[m] => k = m
  BY <1>1
<1>3. \A q \in Ports : master'[q] # 0 => Exists(q)' /\ BridgeAt(master[q])' # {}
  <2>1. CASE i = 0 BY <1>1, <2>1
  <2>2. CASE i # 0
    <3>1. i = ifindex[b] BY <2>2
    <3> QED BY <1>1, <2>2, <3>1
  <2> QED BY <2>1, <2>2
<1>4. \A j \in made' : \E m \in Bridges \cup Vlans : ifindex'[m] = j
  BY <1>1
<1>5. \A q \in joined' : master'[q] # 0 /\ q \in Nics \cup Vlans
  BY <1>1 DEF Keep, TypeOK
<1>6. Keeps
  BY <1>1 DEF Keeps, SafeToDetach, SafeToDelete, Keep, Ports
<1> QED BY <1>2, <1>3, <1>4, <1>5, <1>6

\* So does deleting a link; the ports of a deleted bridge are free.
LEMMA DeletesKeeps ==
  ASSUME TypeOK, LinksConsistent, NEW l \in Links \ Nics, Exists(l), LinkDel(l),
         joined' = Keep(joined), made' = Live(made)
  PROVE  /\ LinksConsistent' /\ Keeps
         /\ ifindex' = [ifindex EXCEPT ![l] = 0]
         /\ \A p \in Ports :
              master'[p] = IF p = l \/ master[p] = ifindex[l] THEN 0 ELSE master[p]
<1>1. GoneWith(l) = {l} BY DEF GoneWith
<1>2. /\ ifindex' = [ifindex EXCEPT ![l] = 0]
      /\ \A p \in Ports :
           master'[p] = IF p = l \/ master[p] = ifindex[l] THEN 0 ELSE master[p]
  BY <1>1 DEF LinkDel, TypeOK, LinksOK
<1>3. \A k \in Links : ifindex'[k] = IF k = l THEN 0 ELSE ifindex[k]
  BY <1>2 DEF TypeOK, LinksOK
<1> USE DEF LinksConsistent, Exists, BridgeAt
<1>4. \A k, m \in Links : Exists(k)' /\ ifindex'[k] = ifindex'[m] => k = m
  BY <1>3
<1>5. \A q \in Ports : master'[q] # 0 => Exists(q)' /\ BridgeAt(master[q])' # {}
  BY <1>2, <1>3 DEF Links
<1>6. \A j \in made' : \E m \in Bridges \cup Vlans : ifindex'[m] = j
  <2> TAKE j \in made'
  <2>1. j \in made /\ \E m \in Links : ifindex'[m] = j BY DEF Live
  <2>2. PICK k \in Bridges \cup Vlans : ifindex[k] = j BY <2>1
  <2>3. j # 0 BY <2>1 DEF TypeOK
  <2>4. PICK m \in Links : ifindex'[m] = j BY <2>1
  <2>5. m = k BY <1>3, <2>2, <2>3, <2>4 DEF Links, Ports
  <2> QED BY <2>2, <2>4, <2>5
<1>7. \A q \in joined' : master'[q] # 0 /\ q \in Nics \cup Vlans
  BY DEF Keep, TypeOK
<1>8. Keeps
  <2>1. \A p \in Nics \cup Vlans : SafeToDetach(p) => SafeToDetach(p)'
    BY <1>2 DEF SafeToDetach, Keep, Ports
  <2>2. \A k \in Bridges \cup Vlans : SafeToDelete(k) => SafeToDelete(k)'
    BY <1>3 DEF SafeToDelete, Live, Links, Ports
  <2> QED BY <2>1, <2>2 DEF Keeps
<1> QED BY <1>2, <1>4, <1>5, <1>6, <1>7, <1>8

\* Every step of the daemon, of users and of others does one of these things.
LEMMA LinkSteps ==
  ASSUME TypeOK, PortMarksTrue, LinksConsistent, Outside \subseteq Veths, [Next]_vars
  PROVE  LinkStep
<1> USE DEF LinkStep, At
<1>1. CASE UNCHANGED <<links, history>> BY <1>1
<1>2. CASE BridgeLinkAdd
  <2>1. h.name \in Bridges BY <1>2 DEF TypeOK, HandlerOK, BridgeLinkAdd
  <2>2. CASE UNCHANGED <<links, made>> BY <1>1, <1>2, <2>2 DEF BridgeLinkAdd, history
  <2>3. CASE /\ ~Exists(h.name) /\ HaveFresh /\ LinkAdd(h.name, NewIndex(h.name))
             /\ made' = made \cup {ifindex'[h.name]}
    BY <1>2, <2>1, <2>3, NewIndexFresh DEF BridgeLinkAdd, Makes, Links
  <2> QED BY <1>2, <2>2, <2>3 DEF BridgeLinkAdd
<1>3. CASE VlanLinkAdd
  <2>1. h.port \in Vlans BY <1>3 DEF TypeOK, HandlerOK, VlanLinkAdd
  <2>2. CASE UNCHANGED <<links, made>> BY <1>1, <1>3, <2>2 DEF VlanLinkAdd, history
  <2>3. CASE /\ ~Exists(h.port) /\ HaveFresh /\ LinkAdd(h.port, NewIndex(h.port))
             /\ made' = made \cup {ifindex'[h.port]}
    BY <1>3, <2>1, <2>3, NewIndexFresh DEF VlanLinkAdd, Makes, Links, Ports
  <2> QED BY <1>3, <2>2, <2>3 DEF VlanLinkAdd
<1>4. CASE Attach
  <2>1. h.port \in Nics \cup Vlans /\ h.name \in Bridges /\ h.link # 0 /\ h.br # 0
    BY <1>4 DEF TypeOK, HandlerOK, Attach, PortSteps
  <2>2. CASE UNCHANGED <<links, joined>> BY <1>1, <1>4, <2>2 DEF Attach, history
  <2>3. CASE /\ ifindex[h.port] = h.link /\ ifindex[h.name] = h.br
             /\ LinkSetMaster(h.port, h.br) /\ joined' = Keep(joined) \cup {h.port}
    BY <1>4, <2>1, <2>3 DEF Attach, Joins, Exists, PortMarksTrue
  <2> QED BY <1>4, <2>2, <2>3 DEF Attach
<1>5. CASE Detach
  <2>1. h.port \in Nics \cup Vlans BY <1>5 DEF TypeOK, HandlerOK, Detach, PortSteps
  <2>2. CASE UNCHANGED links
    BY <1>1, <1>5, <2>2 DEF Detach, Keep, links, history, TypeOK
  <2>3. CASE LinkSetNoMaster(h.port)
    BY <1>5, <2>1, <2>3 DEF Detach, Leaves, PortMarksTrue, SafeToRemove
  <2> QED BY <1>5, <2>2, <2>3 DEF Detach
<1>6. CASE VlanLinkDel
  <2>1. h.port \in Vlans /\ h.link # 0
    BY <1>6 DEF TypeOK, HandlerOK, VlanLinkDel, PortSteps
  <2>2. CASE UNCHANGED links
    <3>1. UNCHANGED <<ifindex, master>> BY <2>2 DEF links
    <3>2. joined' = joined BY <1>6, <3>1 DEF VlanLinkDel, Keep
    <3>3. made' = made BY <1>6, <3>1 DEF VlanLinkDel, Live, LinksConsistent, Links, Ports
    <3> QED BY <1>1, <3>1, <3>2, <3>3 DEF links, history
  <2>3. CASE ifindex[h.port] = h.link /\ LinkDel(h.port)
    BY <1>6, <2>1, <2>3 DEF VlanLinkDel, Deletes, PortMarksTrue, SafeToRemove, Exists
  <2> QED BY <1>6, <2>2, <2>3 DEF VlanLinkDel
<1>7. CASE BridgeLinkDel
  <2>1. h.name \in Bridges /\ h.br # 0 /\ h.name \notin Vlans
    BY <1>7 DEF TypeOK, HandlerOK, BridgeLinkDel, Ports
  <2>2. CASE UNCHANGED links
    <3>1. UNCHANGED <<ifindex, master>> BY <2>2 DEF links
    <3>2. joined' = joined BY <1>7, <3>1 DEF BridgeLinkDel, Keep
    <3>3. made' = made BY <1>7, <3>1 DEF BridgeLinkDel, Live, LinksConsistent, Links, Ports
    <3> QED BY <1>1, <3>1, <3>2, <3>3 DEF links, history
  <2>3. CASE ifindex[h.name] = h.br /\ LinkDel(h.name)
    BY <1>7, <2>1, <2>3 DEF BridgeLinkDel, Deletes, Exists
  <2> QED BY <1>7, <2>2, <2>3 DEF BridgeLinkDel
<1>8. CASE Others
  BY <1>8 DEF Others, PodStep, OutsideAdd, OutsideDel, OutsideAttach, OutsideDetach
<1>9. CASE UNCHANGED vars BY <1>1, <1>9 DEF vars
<1> HIDE DEF LinkStep
<1>10. CASE Handler
  BY <1>1, <1>2, <1>3, <1>4, <1>5, <1>6, <1>7, <1>10
     DEF Handler, OnBridgeConfigAdd, OnBridgeConfigUpdate, OnBridgeConfigDelete, TakesNext,
         IsConfigured, SetBridge, BridgeLinkUp, bridgeUpdate, bridgeUnconfigured,
         LookupBridge, RemoveItem, LookupPort, Forget, AddItem, VlanLookup, Panic,
         SetPortManagement, SetPortLocked, Reconciled, CheckPorts, UnsetBridge
<1>11. CASE PortWatch
  BY <1>1, <1>11
     DEF PortWatch, WatchLinks, WatchNewPort, WatchRecord, WatchBridges,
         WatchBridge, WatchLookup,
         WatchPort, WatchRemove, WatchPortsDone, WatchDone, WatchFrame, Panic
<1>12. CASE BridgeWatch \/ Informer \/ Crash \/ Restart \/ Users
  BY <1>1, <1>12
     DEF BridgeWatch, Panic, Informer, Sync, Crash, Restart, Users, Configure, Relabel
<1> QED BY <1>8, <1>9, <1>10, <1>11, <1>12 DEF Next

\* What others do to their pod interfaces does not touch the rest.
LEMMA PodStepKeeps ==
  ASSUME TypeOK, LinksConsistent, NEW v \in Veths, PodStep(v)
  PROVE  /\ LinksConsistent' /\ Keeps
         /\ \A p \in Nics \cup Vlans : master[p] = 0 => master'[p] = 0
<1> v \in Ports /\ v \in Links /\ v \notin Nics \cup Vlans \cup Bridges BY DEF Ports, Links
<1>1. CASE OutsideAdd(v)
  <2>1. PICK i \in Index \ InUse : LinkAdd(v, i)
    BY <1>1, NewIndexFresh DEF OutsideAdd
  <2>2. \A k \in Links : ifindex[k] # i BY DEF InUse
  <2>3. /\ ifindex' = [ifindex EXCEPT ![v] = i] /\ master' = master
        /\ ifindex[v] = 0 /\ made' = made /\ joined' = joined
        /\ i # 0
    BY <1>1, <2>1 DEF OutsideAdd, LinkAdd, Exists, history
  <2> USE DEF LinksConsistent, Exists, BridgeAt
  <2>4. \A k, m \in Links : Exists(k)' /\ ifindex'[k] = ifindex'[m] => k = m
    BY <2>2, <2>3 DEF TypeOK, LinksOK
  <2>5. \A p \in Ports : master'[p] # 0 => Exists(p)' /\ BridgeAt(master[p])' # {}
    BY <2>3 DEF TypeOK, LinksOK, Links, Ports
  <2>6. \A j \in made' : \E m \in Bridges \cup Vlans : ifindex'[m] = j
    BY <2>3 DEF TypeOK, LinksOK, Links, Ports
  <2>7. Keeps
    BY <2>3 DEF Keeps, SafeToDetach, SafeToDelete, TypeOK, LinksOK, Links, Ports
  <2> QED BY <2>3, <2>4, <2>5, <2>6, <2>7
<1>2. CASE OutsideDel(v)
  <2>1. /\ LinksConsistent' /\ Keeps
        /\ \A p \in Ports :
             master'[p] = IF p = v \/ master[p] = ifindex[v] THEN 0 ELSE master[p]
    BY <1>2, DeletesKeeps DEF OutsideDel
  <2> QED BY <2>1 DEF Ports
<1>3. ASSUME NEW b \in Bridges, OutsideAttach(v, b)
      PROVE  /\ LinksConsistent' /\ Keeps
             /\ \A p \in Nics \cup Vlans : master[p] = 0 => master'[p] = 0
  <2>1. LinksConsistent' /\ Keeps BY <1>3, SetMasterKeeps DEF OutsideAttach
  <2> QED BY <1>3, <2>1 DEF OutsideAttach, LinkSetMaster, TypeOK, LinksOK, Ports
<1>4. CASE OutsideDetach(v)
  <2>1. PICK b \in Bridges : ifindex[b] = master[v] /\ Exists(v)
    BY <1>4 DEF OutsideDetach, LinksConsistent, BridgeAt
  <2>2. LinksConsistent' /\ Keeps
    BY <1>4, <2>1, SetMasterKeeps DEF OutsideDetach, LinkSetNoMaster
  <2> QED
    BY <1>4, <2>2 DEF OutsideDetach, LinkSetNoMaster, LinkSetMaster, TypeOK, LinksOK, Ports
<1> QED BY <1>1, <1>2, <1>3, <1>4 DEF PodStep

\* All the ways a step may change the links keep them consistent, and keep what
\* is safe to detach or to delete so.
LEMMA LinkStepKeeps ==
  ASSUME TypeOK, LinksConsistent, LinkStep
  PROVE  LinksConsistent' /\ Keeps
<1>1. CASE UNCHANGED <<links, history>>
  <2>1. UNCHANGED <<ifindex, master, made, joined>> BY <1>1 DEF links, history
  <2> QED
    BY <2>1 DEF LinksConsistent, Keeps, SafeToDetach, SafeToDelete, Exists, BridgeAt
<1>2. ASSUME NEW l \in Bridges \cup Vlans, Makes(l) PROVE LinksConsistent' /\ Keeps
  BY <1>2, MakesKeeps
<1>3. ASSUME NEW p \in Nics \cup Vlans, NEW b \in Bridges, Joins(p, b)
      PROVE  LinksConsistent' /\ Keeps
  <2>1. p \in Ports BY DEF Ports
  <2>2. p \in joined' /\ ifindex[b] # 0 BY <1>3 DEF Joins, Exists
  <2> QED BY <1>3, <2>1, <2>2, SetMasterKeeps DEF Joins
<1>4. ASSUME NEW p \in Nics \cup Vlans, Leaves(p) PROVE LinksConsistent' /\ Keeps
  <2>0. p \in Ports BY DEF Ports
  <2>1. CASE master[p] = 0
    <3>1. /\ UNCHANGED <<ifindex, made>> /\ \A q \in Ports : master'[q] = master[q]
          /\ joined' \subseteq joined /\ \A q \in joined : q \in joined'
      BY <1>4, <2>0, <2>1
         DEF Leaves, LinkSetNoMaster, LinkSetMaster, Keep, TypeOK, LinksOK
    <3> QED
      BY <3>1 DEF LinksConsistent, Keeps, SafeToDetach, SafeToDelete, Exists, BridgeAt, Ports
  <2>2. CASE master[p] # 0
    <3>1. PICK b \in Bridges : ifindex[b] = master[p] /\ Exists(p)
      BY <2>0, <2>2 DEF LinksConsistent, BridgeAt
    <3> QED BY <1>4, <2>0, <3>1, SetMasterKeeps DEF Leaves, LinkSetNoMaster
  <2> QED BY <2>1, <2>2
<1>5. ASSUME NEW l \in Bridges \cup Vlans, Deletes(l) PROVE LinksConsistent' /\ Keeps
  BY <1>5, DeletesKeeps DEF Deletes, Links, Ports
<1> QED BY <1>1, <1>2, <1>3, <1>4, <1>5, PodStepKeeps DEF LinkStep

(***************************************************************************)
(* The marks of ports.                                                     *)
(***************************************************************************)
FewerMarks == \A b \in Bridges, p \in Ports : IsManaged(b, p)' => IsManaged(b, p)

\* A step that leaves the handler and the free ports alone keeps the marks true.
LEMMA QuietKeepsMarks ==
  ASSUME TypeOK, PortMarksTrue, Keeps, FewerMarks, h' = h,
         \A p \in Nics \cup Vlans : master[p] = 0 => master'[p] = 0
  PROVE  PortMarksTrue'
<1>1. h.pc \in PortSteps => h.port \in Nics \cup Vlans
  BY DEF TypeOK, HandlerOK
<1>2. \A p \in Nics \cup Vlans : SafeToRemove(p) => SafeToRemove(p)'
  BY DEF Keeps, SafeToRemove
<1>3. \A b \in Bridges, p \in Nics \cup Vlans : IsManaged(b, p)' => SafeToRemove(p)'
  BY <1>2 DEF PortMarksTrue, FewerMarks, Ports
<1> QED BY <1>1, <1>2, <1>3 DEF PortMarksTrue, PortSteps

\* So does one after which the handler holds no port it might move.
LEMMA RestKeepsMarks ==
  ASSUME PortMarksTrue, Keeps, FewerMarks,
         h'.pc \notin {"setPort", "writePort", "lookup", "detach", "vlanDel", "attach"}
  PROVE  PortMarksTrue'
<1>1. \A p \in Nics \cup Vlans : SafeToRemove(p) => SafeToRemove(p)'
  BY DEF Keeps, SafeToRemove
<1>2. \A b \in Bridges, p \in Nics \cup Vlans : IsManaged(b, p)' => SafeToRemove(p)'
  BY <1>1 DEF PortMarksTrue, FewerMarks, Ports
<1> QED BY <1>2 DEF PortMarksTrue

\* A new process has no marks.
LEMMA LostMarks == ASSUME TypeOK, RegistryLost PROVE FewerMarks
BY DEF FewerMarks, RegistryLost, NoPorts, IsManaged

\* A step that leaves the registry alone adds no mark.
LEMMA SameMarks == ASSUME UNCHANGED registry PROVE FewerMarks
BY DEF FewerMarks, registry, IsManaged

\* Only the handler marks a port managed, and only at "writePort".
LEMMA WatchMarks == ASSUME TypeOK, PortWatch PROVE FewerMarks
<1> USE DEF WatchAt
<1>1. CASE UNCHANGED registry BY <1>1, SameMarks
<1>2. CASE WatchRecord
  <2>1. CASE WritePort(w.br, w.port, "unmanaged")
    BY <2>1 DEF FewerMarks, WritePort, IsManaged, TypeOK, RegistryOK
  <2> QED BY <1>2, <2>1, LostMarks DEF WatchRecord, Panic, Dies
<1>3. CASE WatchRemove
  BY <1>3 DEF WatchRemove, FewerMarks, RemovePortManagement, IsManaged, TypeOK, RegistryOK
<1> QED
  BY <1>1, <1>2, <1>3, LostMarks
     DEF PortWatch, WatchLinks, WatchNewPort, WatchBridges,
         WatchBridge, WatchLookup,
         WatchPort, WatchPortsDone, WatchDone, Panic, Dies

\* The loops over tobeRemove keep the marks true: a port is detached (and a vlan
\* interface deleted) only past IsPortManaged, and is still recorded when one of
\* the requests fails.
LEMMA RemovingKeepsMarks ==
  ASSUME TypeOK, LinksConsistent, PortMarksTrue, Keeps, LinksConsistent',
         RemoveItem \/ LookupPort \/ Detach \/ VlanLinkDel \/ Forget
  PROVE  PortMarksTrue'
<1> USE DEF At
<1>0. \A p \in Nics \cup Vlans : SafeToRemove(p) => SafeToRemove(p)'
  BY DEF Keeps, SafeToRemove
<1>1. CASE Forget
  <2>1. FewerMarks
    BY <1>1 DEF Forget, FewerMarks, RemovePortManagement, IsManaged, TypeOK, RegistryOK
  <2>2. h'.pc = "reconcile" BY <1>1 DEF Forget, NextItem, TypeOK, HandlerOK
  <2> QED BY <2>1, <2>2, RestKeepsMarks
<1>2. ASSUME UNCHANGED registry
      PROVE  /\ FewerMarks
             /\ \A b \in Bridges, p \in Nics \cup Vlans : IsManaged(b, p)' => SafeToRemove(p)'
  BY <1>0, <1>2, SameMarks DEF FewerMarks, PortMarksTrue, Ports
<1>3. CASE RemoveItem
  <2>1. PICK p \in h.rem :
          h' = [h EXCEPT !.rem = @ \ {p}, !.port = p,
                  !.pc = IF IsPortManaged(h.name, p) THEN "lookup" ELSE "forget"]
    BY <1>3 DEF RemoveItem
  <2>2. p \in Nics \cup Vlans /\ h.name \in Bridges
    BY <1>3 DEF TypeOK, HandlerOK, RemoveItem
  <2>3. FewerMarks BY <1>2, <1>3 DEF RemoveItem
  <2>4. CASE IsPortManaged(h.name, p)
    <3>1. h'.pc = "lookup" /\ h'.port = p BY <2>1, <2>4 DEF TypeOK, HandlerOK
    <3>2. SafeToRemove(p) BY <2>2, <2>4 DEF PortMarksTrue, IsPortManaged, IsManaged
    <3> QED BY <1>0, <1>2, <1>3, <2>2, <3>1, <3>2 DEF PortMarksTrue, RemoveItem
  <2>5. CASE ~IsPortManaged(h.name, p)
    <3>1. h'.pc = "forget" BY <2>1, <2>5 DEF TypeOK, HandlerOK
    <3> QED BY <2>3, <3>1, RestKeepsMarks
  <2> QED BY <2>4, <2>5
<1>4. CASE LookupPort
  <2>1. h.pc = "lookup" /\ h.port \in Nics \cup Vlans
    BY <1>4 DEF TypeOK, HandlerOK, LookupPort, PortSteps
  <2>2. CASE h' = NextItem
    <3>1. h'.pc = "reconcile" BY <2>2 DEF NextItem, TypeOK, HandlerOK
    <3> QED BY <1>2, <1>4, <3>1, RestKeepsMarks DEF LookupPort
  <2>3. CASE h' = [h EXCEPT !.pc = "detach", !.link = ifindex[h.port]]
    <3>1. h'.pc = "detach" /\ h'.port = h.port BY <2>3 DEF TypeOK, HandlerOK
    <3>2. SafeToRemove(h.port) BY <2>1 DEF PortMarksTrue
    <3> QED BY <1>0, <1>2, <1>4, <2>1, <3>1, <3>2 DEF PortMarksTrue, LookupPort
  <2> QED BY <1>4, <2>2, <2>3 DEF LookupPort
<1>5. CASE Detach
  <2>1. h.pc = "detach" /\ h.port \in Nics \cup Vlans
    BY <1>5 DEF TypeOK, HandlerOK, Detach, PortSteps
  <2>2. CASE h' = NextItem
    <3>1. h'.pc = "reconcile" BY <2>2 DEF NextItem, TypeOK, HandlerOK
    <3> QED BY <1>2, <1>5, <3>1, RestKeepsMarks DEF Detach
  <2>3. CASE /\ LinkSetNoMaster(h.port)
             /\ h' = [h EXCEPT !.pc = IF h.port \in Vlans THEN "vlanDel" ELSE "forget"]
    <3>1. h'.port = h.port BY <2>3 DEF TypeOK, HandlerOK
    <3>2. h'.pc \in {"vlanDel", "forget"} BY <2>3 DEF TypeOK, HandlerOK
    <3>3. master'[h.port] = 0
      BY <2>1, <2>3 DEF LinkSetNoMaster, LinkSetMaster, TypeOK, LinksOK, Ports
    <3>4. SafeToRemove(h.port) BY <2>1 DEF PortMarksTrue
    <3> QED
      BY <1>0, <1>2, <1>5, <2>1, <3>1, <3>2, <3>3, <3>4 DEF PortMarksTrue, Detach
  <2> QED BY <1>5, <2>2, <2>3 DEF Detach
<1>6. CASE VlanLinkDel
  <2>1. h'.pc \in {"forget", "reconcile"}
    BY <1>6, HandlerHasPc DEF VlanLinkDel, NextItem
  <2> QED BY <1>2, <1>6, <2>1, RestKeepsMarks DEF VlanLinkDel
<1> QED BY <1>1, <1>3, <1>4, <1>5, <1>6

\* The loops over tobeAdd keep the marks true: a port is marked managed only
\* after the daemon created or attached it, and a vlan interface found there is
\* marked unmanaged.
LEMMA AddingKeepsMarks ==
  ASSUME TypeOK, LinksConsistent, PortMarksTrue, Keeps, LinksConsistent',
         AddItem \/ VlanLookup \/ VlanLinkAdd \/ Attach \/ SetPortManagement \/ SetPortLocked
  PROVE  PortMarksTrue'
<1> USE DEF At
<1>0. \A p \in Nics \cup Vlans : SafeToRemove(p) => SafeToRemove(p)'
  BY DEF Keeps, SafeToRemove
<1>1. ASSUME UNCHANGED registry
      PROVE  /\ FewerMarks
             /\ \A b \in Bridges, p \in Nics \cup Vlans : IsManaged(b, p)' => SafeToRemove(p)'
  BY <1>0, <1>1, SameMarks DEF FewerMarks, PortMarksTrue, Ports
<1>2. CASE AddItem
  <2>1. PICK p \in h.add :
          LET isVlan == p \in Vlans
              l == IF isVlan THEN Parent[p] ELSE p
              next == [h EXCEPT !.add = @ \ {p}]
          IN \/ /\ Attachable(p, l)
                /\ h' = [next EXCEPT !.pc = IF isVlan THEN "vlanLookup" ELSE "attach",
                                     !.port = p, !.link = ifindex[l]]
             \/ h' = next
    BY <1>2 DEF AddItem
  <2>2. p \in Nics \cup Vlans /\ h.pc = "reconcile" /\ UNCHANGED <<registry, master>>
    BY <1>2 DEF TypeOK, HandlerOK, AddItem, links
  <2>3. CASE h'.pc \in {"reconcile", "vlanLookup"}
    BY <1>1, <2>2, <2>3, RestKeepsMarks
  <2>4. CASE h'.pc = "attach" /\ h'.port = p /\ master[p] = 0
    BY <1>1, <2>2, <2>4 DEF PortMarksTrue
  <2>5. CASE h' = [h EXCEPT !.add = @ \ {p}]
    <3>1. h'.pc = "reconcile" BY <2>2, <2>5 DEF TypeOK, HandlerOK
    <3> QED BY <2>3, <3>1
  <2>6. CASE p \in Vlans /\ h' = [h EXCEPT !.add = @ \ {p}, !.pc = "vlanLookup", !.port = p,
                                           !.link = ifindex[Parent[p]]]
    <3>1. h'.pc = "vlanLookup" BY <2>6 DEF TypeOK, HandlerOK
    <3> QED BY <2>3, <3>1
  <2>7. CASE /\ p \notin Vlans /\ Attachable(p, p)
             /\ h' = [h EXCEPT !.add = @ \ {p}, !.pc = "attach", !.port = p, !.link = ifindex[p]]
    <3>1. h'.pc = "attach" /\ h'.port = p BY <2>7 DEF TypeOK, HandlerOK
    <3> QED BY <2>4, <2>7, <3>1 DEF Attachable
  <2> QED BY <2>1, <2>5, <2>6, <2>7
<1>3. CASE VlanLookup
  <2>1. CASE Panic("handler")
    <3>1. h' = Idle /\ FewerMarks BY <2>1, LostMarks DEF Panic, Dies
    <3>2. h'.pc = "idle" BY <3>1 DEF Idle, Call
    <3> QED BY <3>1, <3>2, RestKeepsMarks
  <2>2. CASE UNCHANGED registry /\ h' = [h EXCEPT !.pc = "vlanAdd"]
    <3>1. h'.pc = "vlanAdd" BY <2>2 DEF TypeOK, HandlerOK
    <3> QED BY <1>1, <2>2, <3>1, RestKeepsMarks
  <2>3. CASE UNCHANGED registry /\ h' = ExistingVlan
    <3>1. h'.pc = "setPort" /\ h'.mark = "unmanaged"
      BY <2>3 DEF ExistingVlan, TypeOK, HandlerOK
    <3> QED BY <1>1, <2>3, <3>1 DEF PortMarksTrue
  <2> QED BY <1>3, <2>1, <2>2, <2>3 DEF VlanLookup
<1>4. CASE VlanLinkAdd
  <2>1. h.port \in Vlans BY <1>4 DEF TypeOK, HandlerOK, VlanLinkAdd
  <2>2. UNCHANGED registry BY <1>4 DEF VlanLinkAdd
  <2>3. CASE h' = NextItem
    <3>1. h'.pc = "reconcile" BY <2>3 DEF NextItem, TypeOK, HandlerOK
    <3> QED BY <1>1, <2>2, <3>1, RestKeepsMarks
  <2>4. CASE /\ ~Exists(h.port) /\ LinkAdd(h.port, NewIndex(h.port))
             /\ made' = made \cup {ifindex'[h.port]}
             /\ h' = [h EXCEPT !.pc = "setPort", !.link = ifindex'[h.port], !.mark = "managed"]
    <3>1. h'.pc = "setPort" /\ h'.port = h.port BY <2>4 DEF TypeOK, HandlerOK
    <3>2. master'[h.port] = 0
      BY <2>1, <2>4 DEF LinkAdd, LinksConsistent, Ports
    <3>3. SafeToRemove(h.port)'
      BY <2>4, <3>2 DEF SafeToRemove, SafeToDetach, SafeToDelete
    <3> QED BY <1>1, <2>2, <3>1, <3>3 DEF PortMarksTrue
  <2> QED BY <1>4, <2>3, <2>4 DEF VlanLinkAdd
<1>5. CASE Attach
  <2>1. h.port \in Nics \cup Vlans BY <1>5 DEF TypeOK, HandlerOK, Attach, PortSteps
  <2>2. UNCHANGED registry BY <1>5 DEF Attach
  <2>3. CASE h' = NextItem
    <3>1. h'.pc = "reconcile" BY <2>3 DEF NextItem, TypeOK, HandlerOK
    <3> QED BY <1>1, <2>2, <3>1, RestKeepsMarks
  <2>4. CASE /\ h.port \notin Vlans /\ joined' = Keep(joined) \cup {h.port}
             /\ h' = [h EXCEPT !.pc = "setPort", !.mark = "managed"]
    <3>1. h'.pc = "setPort" /\ h'.port = h.port BY <2>4 DEF TypeOK, HandlerOK
    <3>2. SafeToRemove(h.port)' BY <2>4, <3>1 DEF SafeToRemove, SafeToDetach
    <3> QED BY <1>1, <2>2, <3>1, <3>2 DEF PortMarksTrue
  <2> QED BY <1>5, <2>3, <2>4 DEF Attach
<1>6. ASSUME h.pc \in {"setPort", "writePort"}, h' = AfterSetPort
      PROVE  h'.pc = "reconcile" \/ (h'.pc = "attach" /\ h'.port \in Vlans)
  BY <1>6 DEF AfterSetPort, NextItem, TypeOK, HandlerOK
<1>7. CASE SetPortManagement
  <2>1. UNCHANGED registry /\ h.pc = "setPort" BY <1>7 DEF SetPortManagement
  <2>2. h.port \in Nics \cup Vlans BY <2>1 DEF TypeOK, HandlerOK, PortSteps
  <2>3. CASE h' = [h EXCEPT !.pc = "writePort"]
    <3>1. h'.pc = "writePort" /\ h'.port = h.port /\ h'.mark = h.mark
      BY <2>3 DEF TypeOK, HandlerOK
    <3> QED BY <1>0, <1>1, <2>1, <2>2, <3>1 DEF PortMarksTrue
  <2>4. CASE h' = AfterSetPort
    BY <1>1, <1>6, <2>1, <2>4, LinkAssumption DEF PortMarksTrue
  <2> QED BY <1>7, <2>3, <2>4 DEF SetPortManagement
<1>8. CASE SetPortLocked
  <2>1. h.pc = "writePort" /\ WritePort(h.name, h.port, h.mark) /\ h' = AfterSetPort
    BY <1>8 DEF SetPortLocked
  <2>2. h.port \in Nics \cup Vlans BY <2>1 DEF TypeOK, HandlerOK, PortSteps
  <2>3. ASSUME NEW b \in Bridges, NEW p \in Nics \cup Vlans, IsManaged(b, p)'
        PROVE  SafeToRemove(p)
    <3>1. IsManaged(b, p) \/ (p = h.port /\ h.mark = "managed")
      BY <2>1, <2>3 DEF WritePort, IsManaged, TypeOK, RegistryOK, Ports
    <3> QED BY <2>1, <3>1 DEF PortMarksTrue
  <2> QED BY <1>0, <1>6, <2>1, <2>3 DEF PortMarksTrue
<1> QED BY <1>2, <1>3, <1>4, <1>5, <1>7, <1>8

\* The other steps of the handler hold no port and mark none managed.
LEMMA OtherHandlerMarks ==
  ASSUME TypeOK, PortMarksTrue, Keeps, Handler,
         ~ (RemoveItem \/ LookupPort \/ Detach \/ VlanLinkDel \/ Forget),
         ~ (AddItem \/ VlanLookup \/ VlanLinkAdd \/ Attach \/ SetPortManagement \/ SetPortLocked)
  PROVE  PortMarksTrue'
<1> DEFINE Quiet == {"idle", "isConfigured", "setBridge", "linkAdd", "linkUp", "bridgeUpdate",
                     "unconfigured", "reconcile", "checkPorts", "linkDel", "unset"}
<1> USE DEF At
<1>1. ASSUME h'.pc \in Quiet, FewerMarks PROVE PortMarksTrue'
  BY <1>1, RestKeepsMarks
<1>2. Idle.pc = "idle" BY DEF Idle, Call
<1>3. CASE OnBridgeConfigAdd \/ OnBridgeConfigUpdate \/ OnBridgeConfigDelete
  <2>1. UNCHANGED registry
    BY <1>3 DEF OnBridgeConfigAdd, OnBridgeConfigUpdate, OnBridgeConfigDelete, TakesNext
  <2>2. h'.pc \in {"idle", "isConfigured", "bridgeUpdate", "unconfigured"}
    <3>1. CASE OnBridgeConfigAdd
      BY <1>2, <3>1 DEF OnBridgeConfigAdd, Configured, Call
    <3>2. CASE OnBridgeConfigUpdate
      BY <1>2, <3>2 DEF OnBridgeConfigUpdate, Configured, Unconfigured, Updated, Call
    <3>3. CASE OnBridgeConfigDelete
      BY <1>2, <3>3 DEF OnBridgeConfigDelete, Unconfigured, Call
    <3> QED BY <1>3, <3>1, <3>2, <3>3
  <2> QED BY <1>1, <2>1, <2>2, SameMarks
<1>4. CASE SetBridge
  <2>1. FewerMarks
    BY <1>4 DEF SetBridge, SetBridgeManagement, FewerMarks, registry, NoPorts, IsManaged,
                TypeOK, RegistryOK
  <2>2. h'.pc = "linkAdd" BY <1>4 DEF SetBridge, TypeOK, HandlerOK
  <2> QED BY <1>1, <2>1, <2>2
<1>5. CASE UnsetBridge
  <2>1. FewerMarks
    BY <1>5 DEF UnsetBridge, UnsetBridgeManagement, FewerMarks, NoPorts, IsManaged,
                TypeOK, RegistryOK
  <2> QED BY <1>1, <1>2, <1>5, <2>1 DEF UnsetBridge
<1>6. CASE IsConfigured
  <2>1. h'.pc = "setBridge" BY <1>6 DEF IsConfigured, TypeOK, HandlerOK
  <2> QED BY <1>1, <1>6, <2>1, SameMarks DEF IsConfigured
<1>7. CASE BridgeLinkAdd
  <2>1. h'.pc \in {"linkUp", "idle"} BY <1>2, <1>7 DEF BridgeLinkAdd, TypeOK, HandlerOK
  <2> QED BY <1>1, <1>7, <2>1, SameMarks DEF BridgeLinkAdd
<1>8. CASE BridgeLinkUp
  <2>1. h'.pc \in {"bridgeUpdate", "idle"} BY <1>2, <1>8 DEF BridgeLinkUp, TypeOK, HandlerOK
  <2> QED BY <1>1, <1>8, <2>1, SameMarks DEF BridgeLinkUp
<1>9. CASE bridgeUpdate \/ bridgeUnconfigured
  <2>1. h'.pc \in {"reconcile", "idle", "unset"}
    BY <1>2, <1>9 DEF bridgeUpdate, bridgeUnconfigured, LookupBridge, TypeOK, HandlerOK
  <2> QED BY <1>1, <1>9, <2>1, SameMarks DEF bridgeUpdate, bridgeUnconfigured, LookupBridge
<1>10. CASE Reconciled \/ CheckPorts
  <2>1. h'.pc \in {"checkPorts", "idle", "linkDel", "unset"}
    BY <1>2, <1>10 DEF Reconciled, CheckPorts, TypeOK, HandlerOK
  <2> QED BY <1>1, <1>10, <2>1, SameMarks DEF Reconciled, CheckPorts
<1>11. CASE BridgeLinkDel
  <2>1. h'.pc = "unset" BY <1>11 DEF BridgeLinkDel, TypeOK, HandlerOK
  <2> QED BY <1>1, <1>11, <2>1, SameMarks DEF BridgeLinkDel
<1> QED
  BY <1>3, <1>4, <1>5, <1>6, <1>7, <1>8, <1>9, <1>10, <1>11 DEF Handler

\* Every step, of any goroutine and of anybody else, keeps the links consistent
\* and the marks of ports true.
LEMMA PortMarksStep ==
  ASSUME TypeOK, LinksConsistent, PortMarksTrue, Outside \subseteq Veths, [Next]_vars
  PROVE  LinksConsistent' /\ Keeps /\ PortMarksTrue'
<1>1. LinkStep BY LinkSteps
<1>2. LinksConsistent' /\ Keeps BY <1>1, LinkStepKeeps
<1>3. CASE Handler
  BY <1>2, <1>3, RemovingKeepsMarks, AddingKeepsMarks, OtherHandlerMarks
<1>4. ASSUME UNCHANGED links, UNCHANGED h, FewerMarks PROVE PortMarksTrue'
  BY <1>2, <1>4, QuietKeepsMarks DEF links
<1>5. CASE PortWatch
  <2>1. FewerMarks BY <1>5, WatchMarks
  <2>2. (UNCHANGED links /\ UNCHANGED h) \/ h' = Idle
    BY <1>5 DEF PortWatch, WatchLinks, WatchNewPort, WatchRecord, WatchBridges,
                WatchBridge, WatchLookup,
                WatchPort, WatchRemove, WatchPortsDone, WatchDone, WatchFrame, Panic, Dies
  <2> QED BY <1>2, <1>4, <2>1, <2>2, RestKeepsMarks DEF Idle, Call
<1>6. CASE BridgeWatch \/ Crash
  <2>1. h' = Idle /\ FewerMarks BY <1>6, LostMarks DEF BridgeWatch, Crash, Panic, Dies
  <2> QED BY <1>2, <2>1, RestKeepsMarks DEF Idle, Call
<1>7. CASE Informer \/ Restart \/ Users
  <2>1. UNCHANGED links /\ UNCHANGED h /\ UNCHANGED registry
    BY <1>7 DEF Informer, Sync, Restart, Users, Configure, Relabel
  <2> QED BY <1>2, <1>4, <2>1, SameMarks
<1>8. CASE Others
  <2>1. PICK v \in Veths : PodStep(v)
    BY <1>8 DEF Others, PodStep, OutsideAdd, OutsideDel, OutsideAttach, OutsideDetach
  <2>2. h' = h /\ FewerMarks
    BY <1>8, SameMarks
       DEF Others, OutsideAdd, OutsideDel, OutsideAttach, OutsideDetach, OutsideFrame
  <2> QED BY <1>2, <2>1, <2>2, PodStepKeeps, QuietKeepsMarks
<1>9. CASE UNCHANGED vars
  <2>1. UNCHANGED links /\ UNCHANGED h /\ UNCHANGED registry BY <1>9 DEF vars
  <2> QED BY <1>2, <1>4, <2>1, SameMarks
<1> QED BY <1>2, <1>3, <1>5, <1>6, <1>7, <1>8, <1>9 DEF Next

\* When the daemon is first deployed nothing is marked, so all marks are true.
LEMMA InitMarks == Init => LinksConsistent /\ PortMarksTrue /\ BridgeMarksTrue
<1> SUFFICES ASSUME Init PROVE LinksConsistent /\ PortMarksTrue /\ BridgeMarksTrue
  OBVIOUS
<1>1. h.pc = "idle" BY DEF Init, Idle, Call
<1>2. LinksConsistent
  <2>1. \A k, l \in Links : Exists(k) /\ ifindex[k] = ifindex[l] => k = l
    BY DEF Init, Exists
  <2>2. \A p \in Ports : master[p] # 0 => Exists(p) /\ BridgeAt(master[p]) # {}
    BY DEF Init, BridgeAt
  <2> QED BY <2>1, <2>2 DEF Init, LinksConsistent
<1>3. PortMarksTrue
  BY <1>1 DEF Init, RegistryInit, NoPorts, PortMarksTrue, IsManaged, Ports
<1>4. BridgeMarksTrue BY <1>1 DEF Init, RegistryInit, BridgeMarksTrue
<1> QED BY <1>2, <1>3, <1>4

\* Whatever fails, crashes or is reordered: a port that is marked managed in any
\* bridge, or that the handler is about to take off one past its IsPortManaged
\* test, is free or was put there by a daemon, as long as others touch only pod
\* interfaces.
THEOREM PortMarksCorrect ==
  ASSUME Outside \subseteq Veths
  PROVE  Spec => [](LinksConsistent /\ PortMarksTrue)
<1>1. TypeOK /\ LinksConsistent /\ PortMarksTrue /\ [Next]_vars
        => (LinksConsistent /\ PortMarksTrue)'
  BY PortMarksStep
<1> QED BY InitMarks, TypeCorrect, <1>1, PTL DEF Spec

\* The daemon never takes off a bridge an interface or vlan interface that it
\* did not put there (the guards of bridgeconfig.go:180 and 255), even with
\* failing netlink requests, crashes and the port watch in between.
THEOREM LeavesOthersPortsAlone ==
  ASSUME Outside \subseteq Veths
  PROVE  Spec => LeavesOthersPorts
<1>1. TypeOK /\ LinksConsistent /\ PortMarksTrue /\ [Next]_vars
        => [\A p \in Nics \cup Vlans :
              h.pc = "detach" /\ master[p] # 0 /\ master'[p] = 0 => p \in joined]_vars
  <2> SUFFICES ASSUME TypeOK, LinksConsistent, PortMarksTrue, [Next]_vars,
                      NEW p \in Nics \cup Vlans, h.pc = "detach", master[p] # 0, master'[p] = 0
               PROVE  p \in joined
    OBVIOUS
  <2>1. LinkStep BY LinkSteps
  <2>2. p \in Ports /\ SafeToDetach(h.port) /\ Exists(p)
    BY DEF PortMarksTrue, SafeToRemove, Ports, LinksConsistent
  <2>3. ASSUME NEW l \in Vlans \cup Veths PROVE master[p] # ifindex[l]
    BY <2>2 DEF LinksConsistent, BridgeAt, Exists, Links, Ports
  <2>4. ASSUME NEW q \in Ports, NEW i, LinkSetMaster(q, i) PROVE q = p /\ i = 0
    BY <2>2, <2>4 DEF LinkSetMaster, TypeOK, LinksOK
  <2>5. ASSUME NEW l \in Vlans \cup Veths, Exists(l), LinkDel(l) PROVE l = p
    BY <2>2, <2>3, <2>5 DEF LinkDel, GoneWith, Links, Ports
  <2>6. ASSUME NEW l, NEW i, LinkAdd(l, i) PROVE FALSE
    BY <2>2, <2>6 DEF LinkAdd
  <2>7. ~ UNCHANGED links BY DEF links
  <2>8. CASE \E v \in Veths : PodStep(v)
    BY <2>4, <2>5, <2>6, <2>8
       DEF PodStep, OutsideAdd, OutsideDel, OutsideAttach, OutsideDetach, LinkSetNoMaster, Ports
  <2>9. CASE \E q \in Nics \cup Vlans, b \in Bridges : Joins(q, b)
    BY <2>4, <2>9 DEF Joins, Exists, Ports
  <2>10. CASE \E q \in Nics \cup Vlans : Leaves(q)
    BY <2>4, <2>10 DEF Leaves, LinkSetNoMaster, SafeToDetach, Ports
  <2>11. CASE \E v \in Vlans : Deletes(v)
    BY <2>5, <2>11 DEF Deletes
  <2>12. CASE \E l \in Bridges \cup Vlans : Makes(l)
    BY <2>6, <2>12 DEF Makes
  <2> QED BY <2>1, <2>7, <2>8, <2>9, <2>10, <2>11, <2>12 DEF LinkStep
<1> QED BY PortMarksCorrect, TypeCorrect, <1>1, PTL DEF Spec, LeavesOthersPorts

\* Nor does it delete a vlan interface that no daemon made (bridgeconfig.go:271), under
\* the same faults.
THEOREM DeletesOwnVlansOnly ==
  ASSUME Outside \subseteq Veths
  PROVE  Spec => DeletesOwnVlans
<1>1. TypeOK /\ LinksConsistent /\ PortMarksTrue /\ [Next]_vars
        => [\A v \in Vlans : h.pc = "vlanDel" /\ Exists(v) /\ ifindex'[v] = 0
              => ifindex[v] \in made]_vars
  <2> SUFFICES ASSUME TypeOK, LinksConsistent, PortMarksTrue, [Next]_vars,
                      NEW v \in Vlans, h.pc = "vlanDel", Exists(v), ifindex'[v] = 0
               PROVE  ifindex[v] \in made
    OBVIOUS
  <2>1. LinkStep BY LinkSteps
  <2>2. v \in Links /\ v \notin Bridges \cup Veths \cup Nics BY DEF Links, Ports
  <2>3. ASSUME NEW l \in Vlans \cup Veths \cup Bridges, LinkDel(l) PROVE l = v
    <3>1. l # Parent[v] BY DEF Ports
    <3>2. v \in GoneWith(l) BY <2>2, <2>3 DEF LinkDel, Exists
    <3> QED BY <3>1, <3>2 DEF GoneWith
  <2>4. ASSUME NEW l \in Links, NEW i \in Index, LinkAdd(l, i) PROVE FALSE
    BY <2>2, <2>4 DEF LinkAdd, Exists, TypeOK, LinksOK
  <2>5. ifindex' # ifindex BY DEF Exists
  <2>6. CASE \E u \in Veths : PodStep(u)
    <3>1. PICK u \in Veths : PodStep(u) BY <2>6
    <3>2. u \in Links /\ u \notin Vlans BY DEF Links, Ports
    <3>3. ~OutsideAdd(u) BY <2>4, <3>2, NewIndexFresh DEF OutsideAdd
    <3>4. ~OutsideDel(u) BY <2>3, <3>2 DEF OutsideDel
    <3> QED
      BY <2>5, <3>1, <3>3, <3>4
         DEF PodStep, OutsideAttach, OutsideDetach, LinkSetMaster, LinkSetNoMaster
  <2>7. CASE \E l \in Bridges \cup Vlans : Deletes(l)
    BY <2>3, <2>7 DEF Deletes, SafeToDelete
  <2>8. CASE \E l \in Bridges \cup Vlans : Makes(l)
    BY <2>4, <2>8 DEF Makes, Links, Ports
  <2>9. CASE (\E p \in Nics \cup Vlans, b \in Bridges : Joins(p, b))
              \/ (\E p \in Nics \cup Vlans : Leaves(p))
    BY <2>5, <2>9 DEF Joins, Leaves, LinkSetMaster, LinkSetNoMaster
  <2> QED BY <2>1, <2>5, <2>6, <2>7, <2>8, <2>9 DEF LinkStep, links
<1> QED BY PortMarksCorrect, TypeCorrect, <1>1, PTL DEF Spec, DeletesOwnVlans

=============================================================================
