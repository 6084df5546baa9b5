--------------------------- MODULE RefinementProofs ---------------------------
(***************************************************************************)
(* Bridges, and the refinement of HostOwnership: OwnershipInv is           *)
(* inductive, and under it every step of BridgeDaemon maps to one of       *)
(* HostOwnership or to a stutter.                                          *)
(***************************************************************************)
EXTENDS OwnershipProofs

USE LinkAssumption

\* Every step keeps the marks of bridges true: a bridge marked managed, or one
\* the handler is about to delete, is absent or made by a daemon. It needs
\* bridgeIsConfigured's own LinkByName not to fail on an existing link, since any error
\* is taken for absence; every other request may fail.
LEMMA BridgeMarksStep ==
  ASSUME TypeOK, BridgeMarksTrue, Keeps, "bridgeIsConfigured" \notin Faults, [Next]_vars
  PROVE  BridgeMarksTrue'
<1> USE DEF At
<1>0. \A b \in Bridges : SafeToDelete(b) => SafeToDelete(b)' BY DEF Keeps
<1>1. Idle.pc = "idle" BY DEF Idle, Call
<1>2. ASSUME \A b \in Bridges : managedBridges'[b] = "managed" => managedBridges[b] = "managed",
             h' = h \/ h'.pc \notin {"setBridge", "linkDel"}
      PROVE  BridgeMarksTrue'
  <2>1. h.pc \in {"setBridge", "linkDel"} => h.name \in Bridges BY DEF TypeOK, HandlerOK
  <2> QED BY <1>0, <1>2, <2>1 DEF BridgeMarksTrue
<1>3. ASSUME UNCHANGED registry, h' = h \/ h'.pc \notin {"setBridge", "linkDel"}
      PROVE  BridgeMarksTrue'
  BY <1>2, <1>3 DEF registry
<1>4. ASSUME NEW how, Dies(how) PROVE BridgeMarksTrue'
  BY <1>1, <1>2, <1>4 DEF Dies, RegistryLost
<1>5. CASE IsConfigured
  <2>1. h.name \in Bridges BY <1>5 DEF TypeOK, HandlerOK, IsConfigured
  <2>2. h' = [h EXCEPT !.pc = "setBridge", !.mark = MarkOf(~Exists(h.name))]
    BY <1>5, Zenon DEF IsConfigured
  <2>3. h'.pc = "setBridge" /\ h'.name = h.name /\ h'.mark = MarkOf(~Exists(h.name))
    BY <2>2 DEF TypeOK, HandlerOK
  <2>4. h'.mark = "managed" => SafeToDelete(h.name)
    BY <2>3 DEF MarkOf, SafeToDelete
  <2> QED BY <1>0, <1>5, <2>1, <2>3, <2>4 DEF BridgeMarksTrue, IsConfigured, registry
<1>6. CASE SetBridge
  <2>1. h.name \in Bridges /\ h.pc = "setBridge" BY <1>6 DEF TypeOK, HandlerOK, SetBridge
  <2>2. h'.pc = "linkAdd" BY <1>6 DEF SetBridge, TypeOK, HandlerOK
  <2>3. ASSUME NEW b \in Bridges, managedBridges'[b] = "managed" PROVE SafeToDelete(b)
    BY <1>6, <2>1, <2>3
       DEF SetBridge, SetBridgeManagement, registry, BridgeMarksTrue, TypeOK, RegistryOK
  <2> QED BY <1>0, <2>2, <2>3 DEF BridgeMarksTrue
<1>7. CASE CheckPorts
  <2>1. h.name \in Bridges /\ h.pc = "checkPorts" BY <1>7 DEF TypeOK, HandlerOK, CheckPorts
  <2>2. CASE Deletable(h.name) /\ h' = [h EXCEPT !.pc = "linkDel"]
    <3>1. h'.pc = "linkDel" /\ h'.name = h.name BY <2>2 DEF TypeOK, HandlerOK
    <3>2. SafeToDelete(h.name) BY <2>1, <2>2 DEF Deletable, BridgeMarksTrue
    <3> QED BY <1>0, <1>7, <2>1, <3>1, <3>2 DEF BridgeMarksTrue, CheckPorts, registry
  <2>3. CASE h' = [h EXCEPT !.pc = "unset"]
    <3>1. h'.pc = "unset" BY <2>3 DEF TypeOK, HandlerOK
    <3> QED BY <1>3, <1>7, <3>1 DEF CheckPorts
  <2> QED BY <1>7, <2>2, <2>3 DEF CheckPorts
<1>8. CASE UnsetBridge
  BY <1>1, <1>2, <1>8 DEF UnsetBridge, UnsetBridgeManagement, TypeOK, RegistryOK
<1>9. CASE Forget \/ SetPortLocked
  <2>1. managedBridges' = managedBridges
    BY <1>9 DEF Forget, RemovePortManagement, SetPortLocked, WritePort
  <2>2. h' = NextItem \/ h' = AfterSetPort BY <1>9 DEF Forget, SetPortLocked
  <2>3. h'.pc \in {"reconcile", "attach"} BY <2>2, HandlerHasPc DEF AfterSetPort, NextItem
  <2> QED BY <1>2, <2>1, <2>3
<1>10. CASE OnBridgeConfigAdd \/ OnBridgeConfigUpdate \/ OnBridgeConfigDelete
  <2>1. h'.pc \in {"idle", "isConfigured", "bridgeUpdate", "unconfigured"}
    <3>1. CASE OnBridgeConfigAdd
      BY <1>1, <3>1 DEF OnBridgeConfigAdd, Configured, Call
    <3>2. CASE OnBridgeConfigUpdate
      BY <1>1, <3>2 DEF OnBridgeConfigUpdate, Configured, Unconfigured, Updated, Call
    <3>3. CASE OnBridgeConfigDelete
      BY <1>1, <3>3 DEF OnBridgeConfigDelete, Unconfigured, Call
    <3> QED BY <1>10, <3>1, <3>2, <3>3
  <2> QED
    BY <1>3, <1>10, <2>1
       DEF OnBridgeConfigAdd, OnBridgeConfigUpdate, OnBridgeConfigDelete, TakesNext
<1>11. CASE BridgeLinkAdd \/ BridgeLinkUp \/ bridgeUpdate \/ bridgeUnconfigured
            \/ Reconciled \/ BridgeLinkDel
  <2>1. h'.pc \in {"idle", "linkUp", "bridgeUpdate", "reconcile", "unset", "checkPorts"}
    BY <1>1, <1>11, HandlerHasPc
       DEF BridgeLinkAdd, BridgeLinkUp, bridgeUpdate, bridgeUnconfigured, LookupBridge,
           Reconciled, BridgeLinkDel
  <2> QED
    BY <1>3, <1>11, <2>1 DEF BridgeLinkAdd, BridgeLinkUp, bridgeUpdate, bridgeUnconfigured,
                             LookupBridge, Reconciled, BridgeLinkDel
<1>12. CASE RemoveItem \/ AddItem
  <2>1. PICK pc \in {"lookup", "forget", "reconcile", "vlanLookup", "attach"} : h'.pc = pc
    <3>1. CASE RemoveItem
      <4>1. PICK p \in h.rem :
              h' = [h EXCEPT !.rem = @ \ {p}, !.port = p,
                      !.pc = IF IsPortManaged(h.name, p) THEN "lookup" ELSE "forget"]
        BY <3>1 DEF RemoveItem
      <4> QED BY <4>1 DEF TypeOK, HandlerOK
    <3>2. CASE AddItem
      <4>1. PICK p \in h.add :
              LET l == IF p \in Vlans THEN Parent[p] ELSE p
                  next == [h EXCEPT !.add = @ \ {p}]
              IN \/ h' = [next EXCEPT !.pc = IF p \in Vlans THEN "vlanLookup" ELSE "attach",
                                      !.port = p, !.link = ifindex[l]]
                 \/ h' = next
        BY <3>2 DEF AddItem
      <4>2. h.pc = "reconcile" BY <3>2 DEF AddItem
      <4> QED BY <4>1, <4>2, HandlerHasPc
    <3> QED BY <1>12, <3>1, <3>2
  <2> QED BY <1>3, <1>12, <2>1 DEF RemoveItem, AddItem
<1>13. CASE LookupPort \/ Detach \/ VlanLinkDel \/ VlanLinkAdd \/ Attach \/ SetPortManagement
  <2>1. h'.pc \in PortSteps \cup {"reconcile"}
    <3> USE HandlerHasPc DEF NextItem, PortSteps
    <3>1. CASE LookupPort BY <3>1 DEF LookupPort
    <3>2. CASE Detach BY <3>2 DEF Detach
    <3>3. CASE VlanLinkDel BY <3>3 DEF VlanLinkDel
    <3>4. CASE VlanLinkAdd BY <3>4 DEF VlanLinkAdd
    <3>5. CASE Attach
      <4>1. h' = NextItem \/ h' = [h EXCEPT !.pc = "setPort", !.mark = "managed"]
        BY <3>5, Zenon DEF Attach
      <4> QED BY <4>1
    <3>6. CASE SetPortManagement BY <3>6 DEF SetPortManagement, AfterSetPort
    <3> QED BY <1>13, <3>1, <3>2, <3>3, <3>4, <3>5, <3>6
  <2> QED
    BY <1>3, <1>13, <2>1 DEF LookupPort, Detach, VlanLinkDel, VlanLinkAdd, Attach,
                             SetPortManagement, PortSteps
<1>14. CASE VlanLookup
  <2>1. CASE Panic("handler") BY <1>4, <2>1 DEF Panic
  <2>2. CASE UNCHANGED registry /\ (h' = ExistingVlan \/ h' = [h EXCEPT !.pc = "vlanAdd"])
    <3>1. h'.pc \in {"setPort", "vlanAdd"} BY <2>2, HandlerHasPc DEF ExistingVlan
    <3> QED BY <1>3, <2>2, <3>1
  <2> QED BY <1>14, <2>1, <2>2 DEF VlanLookup
<1>15. CASE Handler
  BY <1>5, <1>6, <1>7, <1>8, <1>9, <1>10, <1>11, <1>12, <1>13, <1>14, <1>15 DEF Handler
<1>16. CASE PortWatch
  BY <1>2, <1>4, <1>16
     DEF PortWatch, WatchLinks, WatchNewPort, WatchRecord, WatchBridges,
         WatchBridge, WatchLookup, WatchPort,
         WatchRemove, WatchPortsDone, WatchDone, WatchFrame, Panic, WritePort,
         RemovePortManagement, registry
<1>17. CASE BridgeWatch \/ Crash BY <1>4, <1>17 DEF BridgeWatch, Crash, Panic
<1>18. CASE Informer \/ Restart \/ Users \/ Others
  BY <1>3, <1>18
     DEF Informer, Sync, Restart, Users, Configure, Relabel, Others, OutsideAdd, OutsideDel,
         OutsideAttach, OutsideDetach, OutsideFrame
<1>19. CASE UNCHANGED vars
  <2>1. UNCHANGED registry /\ UNCHANGED h BY <1>19 DEF vars
  <2> QED BY <1>3, <2>1
<1> QED BY <1>15, <1>16, <1>17, <1>18, <1>19 DEF Next

\* The whole inductive invariant of the ownership rules holds of the daemon,
\* when others touch only pod interfaces and any request may fail but the lookup of
\* bridgeIsConfigured.
THEOREM OwnershipInvariant ==
  ASSUME Outside \subseteq Veths, "bridgeIsConfigured" \notin Faults
  PROVE  Spec => []OwnershipInv
<1>1. TypeOK /\ OwnershipInv /\ [Next]_vars => OwnershipInv'
  BY PortMarksStep, BridgeMarksStep DEF OwnershipInv
<1>2. Init => OwnershipInv BY InitMarks DEF OwnershipInv
<1> QED BY TypeCorrect, <1>1, <1>2, PTL DEF Spec

\* Hence a bridge on record as managed is one a daemon created
\* (OnBridgeConfigAdd's exists == false, server.go:462-466).
THEOREM ManagedBridgeOurs ==
  ASSUME Outside \subseteq Veths, "bridgeIsConfigured" \notin Faults
  PROVE  Spec => []ManagedBridgeIsOurs
<1>1. OwnershipInv => ManagedBridgeIsOurs
  BY DEF OwnershipInv, BridgeMarksTrue, SafeToDelete, ManagedBridgeIsOurs
<1> QED BY OwnershipInvariant, <1>1, PTL

(***************************************************************************)
(* A bridge on record.                                                     *)
(***************************************************************************)
\* A step that deletes no bridge, puts none on record and leaves the handler where it
\* is, or was in neither of the two gaps, keeps what is on record in existence.
LEMMA QuietKeepsRecorded ==
  ASSUME RecordedBridgeExists, portMaps' \subseteq portMaps, portMaps \subseteq Bridges,
         \A b \in Bridges : Exists(b) => Exists(b)',
         h' = h \/ h.pc \notin {"linkAdd", "unset"}
  PROVE  RecordedBridgeExists'
BY DEF RecordedBridgeExists

\* Creating a link, moving a port, and deleting a port delete no bridge.
LEMMA BridgesStay ==
  ASSUME TypeOK,
         \/ UNCHANGED links
         \/ \E l \in Links, i \in Index : LinkAdd(l, i)
         \/ \E p, i : LinkSetMaster(p, i)
         \/ \E p \in Ports : LinkDel(p)
  PROVE  \A b \in Bridges : Exists(b) => Exists(b)'
<1> SUFFICES ASSUME NEW b \in Bridges, Exists(b) PROVE Exists(b)'
  OBVIOUS
<1>1. b \in Links /\ b \notin Ports /\ b \notin Vlans BY DEF Links, Ports
<1>2. CASE UNCHANGED links BY <1>2 DEF links, Exists
<1>3. ASSUME NEW l \in Links, NEW i \in Index, LinkAdd(l, i) PROVE Exists(b)'
  BY <1>1, <1>3 DEF LinkAdd, Exists, TypeOK, LinksOK
<1>4. ASSUME NEW p, NEW i, LinkSetMaster(p, i) PROVE Exists(b)'
  BY <1>4 DEF LinkSetMaster, Exists
<1>5. ASSUME NEW p \in Ports, LinkDel(p) PROVE Exists(b)'
  BY <1>1, <1>5 DEF LinkDel, GoneWith, Exists
<1> QED BY <1>2, <1>3, <1>4, <1>5

\* The steps of the handler that touch the bridge or its record: each leaves the gap it
\* came from only when the bridge is there, or off the record.
LEMMA BridgeStepRecorded ==
  ASSUME TypeOK, RecordedBridgeExists, "LinkAdd" \notin Faults,
         SetBridge \/ BridgeLinkAdd \/ BridgeLinkDel \/ UnsetBridge
  PROVE  RecordedBridgeExists'
<1> USE DEF At
<1>0. portMaps \subseteq Bridges BY DEF TypeOK, RegistryOK
<1>1. CASE SetBridge
  <2>1. h.name \in Bridges BY <1>1 DEF SetBridge, TypeOK, HandlerOK
  <2>2. h'.pc = "linkAdd" /\ h'.name = h.name BY <1>1 DEF SetBridge, TypeOK, HandlerOK
  <2>3. portMaps' \subseteq portMaps \cup {h.name}
    BY <1>1 DEF SetBridge, SetBridgeManagement, registry
  <2> QED
    BY <1>1, <2>2, <2>3 DEF SetBridge, RecordedBridgeExists, Exists, links
<1>2. CASE BridgeLinkAdd
  <2>1. h.name \in Bridges /\ h.name \in Links
    BY <1>2 DEF BridgeLinkAdd, TypeOK, HandlerOK, Links
  <2>2. \A b \in Bridges : Exists(b) => Exists(b)'
    BY <1>2, <2>1, NewIndexFresh, BridgesStay DEF BridgeLinkAdd
  <2>3. ifindex'[h.name] # 0
    <3>1. CASE ~Exists(h.name) /\ HaveFresh /\ LinkAdd(h.name, NewIndex(h.name))
      <4>1. NewIndex(h.name) \in Index /\ NewIndex(h.name) # 0
        BY <2>1, <3>1, NewIndexFresh
      <4> QED BY <2>1, <3>1, <4>1 DEF LinkAdd, TypeOK, LinksOK
    <3>2. CASE Fails("LinkAdd", ~Exists(h.name)) BY <2>1, <2>2, <3>2 DEF Fails, Exists
    <3> QED BY <1>2, <3>1, <3>2 DEF BridgeLinkAdd
  <2>4. portMaps' = portMaps BY <1>2 DEF BridgeLinkAdd, registry
  <2> QED
    BY <1>0, <1>2, <2>2, <2>3, <2>4 DEF BridgeLinkAdd, RecordedBridgeExists, Exists
<1>3. CASE BridgeLinkDel
  <2>1. h.name \in Bridges BY <1>3 DEF BridgeLinkDel, TypeOK, HandlerOK
  <2>2. h'.pc = "unset" /\ h'.name = h.name
    BY <1>3 DEF BridgeLinkDel, TypeOK, HandlerOK
  <2>3. \A b \in Bridges \ {h.name} : Exists(b) => Exists(b)'
    BY <1>3, <2>1 DEF BridgeLinkDel, LinkDel, GoneWith, Exists, links, Links, Ports
  <2> QED
    BY <1>0, <1>3, <2>2, <2>3 DEF BridgeLinkDel, RecordedBridgeExists, registry
<1>4. CASE UnsetBridge
  BY <1>0, <1>4
     DEF UnsetBridge, UnsetBridgeManagement, RecordedBridgeExists, Exists, links
<1> QED BY <1>1, <1>2, <1>3, <1>4

\* Every step keeps it, of others as well if they do not delete bridges.
LEMMA RecordedStep ==
  ASSUME TypeOK, RecordedBridgeExists, Outside \cap Bridges = {}, "LinkAdd" \notin Faults,
         [Next]_vars
  PROVE  RecordedBridgeExists'
<1> USE DEF At
<1>0. portMaps \subseteq Bridges BY DEF TypeOK, RegistryOK
<1>1. ASSUME NEW how, Dies(how) PROVE RecordedBridgeExists'
  BY <1>1 DEF Dies, RegistryLost, RecordedBridgeExists
<1>2. ASSUME UNCHANGED links, portMaps' = portMaps, h' = h \/ h.pc \notin {"linkAdd", "unset"}
      PROVE  RecordedBridgeExists'
  BY <1>0, <1>2, BridgesStay, QuietKeepsRecorded
<1>3. CASE SetBridge \/ BridgeLinkAdd \/ BridgeLinkDel \/ UnsetBridge
  BY <1>3, BridgeStepRecorded
<1>4. CASE \/ OnBridgeConfigAdd \/ OnBridgeConfigUpdate \/ OnBridgeConfigDelete
           \/ IsConfigured \/ BridgeLinkUp \/ bridgeUpdate \/ bridgeUnconfigured
           \/ RemoveItem \/ LookupPort \/ Forget \/ AddItem
           \/ SetPortManagement \/ SetPortLocked \/ Reconciled \/ CheckPorts
  <2>1. portMaps' = portMaps /\ UNCHANGED links /\ h.pc \notin {"linkAdd", "unset"}
    BY <1>4
       DEF OnBridgeConfigAdd, OnBridgeConfigUpdate, OnBridgeConfigDelete, TakesNext,
           IsConfigured, BridgeLinkUp, bridgeUpdate, bridgeUnconfigured, LookupBridge,
           RemoveItem, LookupPort, Forget, RemovePortManagement, AddItem,
           SetPortManagement, SetPortLocked, WritePort, Reconciled, CheckPorts, registry
  <2> QED BY <1>2, <2>1
<1>5. CASE VlanLookup
  <2>1. CASE Panic("handler") BY <1>1, <2>1 DEF Panic
  <2>2. CASE UNCHANGED <<links, registry, history>>
    BY <1>2, <1>5, <2>2 DEF VlanLookup, registry
  <2> QED BY <1>5, <2>1, <2>2 DEF VlanLookup
<1>6. CASE VlanLinkAdd \/ Attach \/ Detach \/ VlanLinkDel
  <2>1. h.port \in Ports /\ h.port \in Links
    BY <1>6 DEF VlanLinkAdd, Attach, Detach, VlanLinkDel, TypeOK, HandlerOK, PortSteps,
                Ports, Links
  <2>2. portMaps' = portMaps /\ h.pc \notin {"linkAdd", "unset"}
    BY <1>6 DEF VlanLinkAdd, Attach, Detach, VlanLinkDel, registry
  <2>3. \A b \in Bridges : Exists(b) => Exists(b)'
    BY <1>6, <2>1, NewIndexFresh, BridgesStay
       DEF VlanLinkAdd, Attach, Detach, VlanLinkDel, LinkSetNoMaster, links
  <2> QED BY <1>0, <2>2, <2>3, QuietKeepsRecorded
<1>7. CASE PortWatch
  <2>1. CASE \E how : Dies(how) BY <1>1, <2>1
  <2>2. CASE portMaps' = portMaps /\ UNCHANGED links /\ h' = h BY <1>2, <2>2
  <2> QED
    BY <1>7, <2>1, <2>2
       DEF PortWatch, WatchLinks, WatchNewPort, WatchRecord, WatchBridges,
           WatchBridge, WatchLookup,
           WatchPort, WatchRemove, WatchPortsDone, WatchDone, WatchFrame, Panic, WritePort,
           RemovePortManagement, registry
<1>8. CASE BridgeWatch \/ Crash BY <1>1, <1>8 DEF BridgeWatch, Crash, Panic
<1>9. CASE Informer \/ Restart \/ Users \/ UNCHANGED vars
  <2>1. portMaps' = portMaps /\ UNCHANGED links /\ h' = h
    BY <1>9 DEF Informer, Sync, Restart, Users, Configure, Relabel, vars, registry
  <2> QED BY <1>2, <2>1
<1>10. CASE Others
  <2>1. portMaps' = portMaps /\ h' = h
    BY <1>10 DEF Others, OutsideAdd, OutsideDel, OutsideAttach, OutsideDetach, OutsideFrame,
                 registry
  <2>2. \A b \in Bridges : Exists(b) => Exists(b)'
    BY <1>10, NewIndexFresh, BridgesStay
       DEF Others, OutsideAdd, OutsideDel, OutsideAttach, OutsideDetach, LinkSetNoMaster,
           Links
  <2> QED BY <1>0, <2>1, <2>2, QuietKeepsRecorded
<1> QED
  BY <1>3, <1>4, <1>5, <1>6, <1>7, <1>8, <1>9, <1>10 DEF Next, Handler

\* A bridge on record exists but in the two gaps of its handler (server.go:462-466 and
\* bridgeconfig.go:136), whatever others do to ports, however often the process dies and
\* whatever request fails but LinkAdd: what the port watch relies on when it looks up every
\* bridge on record.
THEOREM RecordedBridgesExist ==
  ASSUME Outside \cap Bridges = {}, "LinkAdd" \notin Faults
  PROVE  Spec => []RecordedBridgeExists
<1>1. Init => RecordedBridgeExists BY DEF Init, RegistryInit, RecordedBridgeExists
<1>2. TypeOK /\ RecordedBridgeExists /\ [Next]_vars => RecordedBridgeExists'
  BY RecordedStep
<1> QED BY TypeCorrect, <1>1, <1>2, PTL DEF Spec

(***************************************************************************)
(* BridgeDaemon implements HostOwnership.                                  *)
(***************************************************************************)

\* In a consistent table of links a port's master index names one bridge.
LEMMA BridgeOfPort ==
  TypeOK /\ LinksConsistent =>
    \A p \in Ports :
      /\ BridgeOf(p) = NoLink <=> master[p] = 0
      /\ \A b \in Bridges : BridgeOf(p) = b <=> Exists(b) /\ master[p] = ifindex[b]
      /\ master[p] # 0 => BridgeOf(p) \in Bridges
<1> SUFFICES ASSUME TypeOK, LinksConsistent, NEW p \in Ports
             PROVE  /\ BridgeOf(p) = NoLink <=> master[p] = 0
                    /\ \A b \in Bridges : BridgeOf(p) = b <=> Exists(b) /\ master[p] = ifindex[b]
                    /\ master[p] # 0 => BridgeOf(p) \in Bridges
  OBVIOUS
<1> USE DEF LinksConsistent, BridgeAt, Exists
<1>1. CASE master[p] = 0
  BY <1>1 DEF BridgeOf, Links
<1>2. CASE master[p] # 0
  <2>1. PICK b \in Bridges : ifindex[b] = master[p] BY <1>2
  <2>2. BridgeOf(p) \in Bridges /\ ifindex[BridgeOf(p)] = master[p]
    BY <1>2, <2>1 DEF BridgeOf
  <2>3. \A c \in Bridges : ifindex[c] = master[p] => c = BridgeOf(p)
    BY <1>2, <2>2 DEF Links
  <2> QED BY <1>2, <2>2, <2>3 DEF Links
<1> QED BY <1>1, <1>2

\* The daemon's initial states are initial states of HostOwnership.
LEMMA InitOwnership == Init => Ownership!Init
<1> SUFFICES ASSUME Init PROVE Ownership!Init
  OBVIOUS
<1>1. TypeOK /\ LinksConsistent BY InitTypes, InitMarks
<1>2. \A p \in Ports : BridgeOf(p) = NoLink \/ (BridgeOf(p) \in Bridges /\ Exists(BridgeOf(p)))
  BY <1>1, BridgeOfPort
<1>3. \A p \in Ports : ~Exists(p) => BridgeOf(p) = NoLink
  BY <1>1, BridgeOfPort DEF Init
<1>4. made = {} /\ joined = {} BY DEF Init
<1> QED
  BY <1>2, <1>3, <1>4 DEF Ownership!Init, Ownership!Ports, Ownership!Free, Ports, Links

\* Every way a step changes the links is an operation of HostOwnership, or
\* changes nothing it sees.
LEMMA StepOwnership ==
  ASSUME TypeOK, OwnershipInv, TypeOK', OwnershipInv', LinkStep
  PROVE  Ownership!Next \/ UNCHANGED Ownership!host
<1> DEFINE present == {l \in Links : Exists(l)}
           ours == {l \in Bridges \cup Vlans : Exists(l) /\ ifindex[l] \in made}
           on == [p \in Ports |-> BridgeOf(p)]
<1>1. LinksConsistent /\ LinksConsistent' BY DEF OwnershipInv
<1>2. \A p \in Ports :
        /\ BridgeOf(p) = NoLink <=> master[p] = 0
        /\ \A b \in Bridges : BridgeOf(p) = b <=> Exists(b) /\ master[p] = ifindex[b]
        /\ master[p] # 0 => BridgeOf(p) \in Bridges
  BY <1>1, BridgeOfPort
<1>3. \A p \in Ports :
        /\ BridgeOf(p)' = NoLink <=> master'[p] = 0
        /\ \A b \in Bridges : BridgeOf(p)' = b <=> Exists(b)' /\ master'[p] = ifindex'[b]
        /\ master'[p] # 0 => BridgeOf(p)' \in Bridges
  <2>1. (TypeOK /\ LinksConsistent =>
           \A p \in Ports :
             /\ BridgeOf(p) = NoLink <=> master[p] = 0
             /\ \A b \in Bridges : BridgeOf(p) = b <=> Exists(b) /\ master[p] = ifindex[b]
             /\ master[p] # 0 => BridgeOf(p) \in Bridges)'
    BY BridgeOfPort, PTL
  <2> QED BY <1>1, <2>1
<1>4. /\ \A l \in Bridges \cup Vlans : l \in Links
      /\ \A p \in Nics \cup Vlans \cup Veths : p \in Ports /\ p \in Links
      /\ \A b \in Bridges : b \in Links /\ b \notin Ports
      /\ Nics \cap Vlans = {} /\ Nics \cap Veths = {} /\ Vlans \cap Veths = {}
      /\ NoLink \notin Bridges /\ Ports = Ownership!Ports
  BY DEF Links, Ports, Ownership!Ports
<1>5. \A p \in Ports : BridgeOf(p) \in Bridges \cup {NoLink} BY <1>2
<1>6. \A p \in Ports : BridgeOf(p)' \in Bridges \cup {NoLink} BY <1>3
\* What stays where it is.
<1>7. ASSUME UNCHANGED <<ifindex, master>> PROVE UNCHANGED <<present, on>>
  BY <1>7 DEF BridgeOf, Exists
<1>8. CASE UNCHANGED <<links, history>>
  <2>1. UNCHANGED <<ifindex, master, made, joined>> BY <1>8 DEF links, history
  <2>2. UNCHANGED ours BY <2>1 DEF Exists
  <2> QED BY <1>7, <2>1, <2>2 DEF Ownership!host
<1>9. ASSUME NEW l \in Bridges \cup Vlans, Makes(l) PROVE Ownership!Create(l)
  <2>1. PICK i \in Index \ InUse : LinkAdd(l, i) BY <1>9 DEF Makes
  <2>2. \A k \in Links : ifindex[k] # i BY DEF InUse
  <2>3. /\ ifindex' = [ifindex EXCEPT ![l] = i] /\ master' = master
        /\ ifindex[l] = 0 /\ made' = made \cup {i} /\ joined' = joined /\ i # 0
    BY <1>4, <1>9, <2>1 DEF Makes, LinkAdd, Exists, TypeOK, LinksOK
  <2>4. \A k \in Links : ifindex'[k] = IF k = l THEN i ELSE ifindex[k]
    BY <2>3 DEF TypeOK, LinksOK
  <2>5. l \notin present /\ present' = present \cup {l}
    BY <1>4, <2>3, <2>4 DEF Exists
  <2>6. ours' = ours \cup {l}
    BY <1>4, <2>2, <2>3, <2>4 DEF Exists
  <2>7. \A p \in Ports : BridgeOf(p)' = BridgeOf(p)
    BY <1>2, <1>3, <1>4, <1>5, <1>6, <2>3, <2>4 DEF Exists
  <2> QED BY <2>3, <2>5, <2>6, <2>7 DEF Ownership!Create
<1>10. ASSUME NEW p \in Ports, NEW b \in Bridges \cup {NoLink}, UNCHANGED <<ifindex, made>>,
              master' = [master EXCEPT ![p] = IF b = NoLink THEN 0 ELSE ifindex[b]],
              b # NoLink => Exists(b)
       PROVE  UNCHANGED <<present, ours>> /\ on' = [on EXCEPT ![p] = b]
  <2>1. UNCHANGED <<present, ours>> BY <1>10 DEF Exists
  <2>2. \A q \in Ports \ {p} : master'[q] = master[q] BY <1>10 DEF TypeOK, LinksOK
  <2>3. master'[p] = IF b = NoLink THEN 0 ELSE ifindex[b] BY <1>10 DEF TypeOK, LinksOK
  <2>4. \A q \in Ports \ {p} : BridgeOf(q)' = BridgeOf(q)
    BY <1>2, <1>3, <1>5, <1>6, <1>10, <2>2 DEF Exists
  <2>5. BridgeOf(p)' = b BY <1>3, <1>4, <1>10, <2>3 DEF Exists
  <2> QED BY <2>1, <2>4, <2>5
<1>11. ASSUME NEW p \in Nics \cup Vlans, NEW b \in Bridges, Joins(p, b)
       PROVE  Ownership!Join(p, b)
  <2>1. /\ UNCHANGED <<ifindex, made>> /\ master' = [master EXCEPT ![p] = ifindex[b]]
        /\ Exists(p) /\ Exists(b) /\ p \in Ports /\ b # NoLink
    BY <1>4, <1>11 DEF Joins, LinkSetMaster
  <2>2. UNCHANGED <<present, ours>> /\ on' = [on EXCEPT ![p] = b] BY <1>10, <2>1
  <2>3. {p, b} \subseteq present BY <1>4, <2>1
  <2>4. p \in Nics => on[p] = NoLink BY <1>2, <1>11, <2>1 DEF Joins
  <2>5. joined' = joined \cup {p}
    BY <1>11, <2>1 DEF Joins, Keep, TypeOK, LinksOK
  <2> QED BY <2>2, <2>3, <2>4, <2>5 DEF Ownership!Join, Ownership!Free
<1>12. ASSUME NEW p \in Nics \cup Vlans, Leaves(p)
       PROVE  Ownership!Leave(p) \/ UNCHANGED Ownership!host
  <2>1. /\ UNCHANGED <<ifindex, made>> /\ master' = [master EXCEPT ![p] = 0]
        /\ joined' = Keep(joined) /\ p \in Ports
    BY <1>4, <1>12 DEF Leaves, LinkSetNoMaster, LinkSetMaster
  <2>2. CASE master[p] = 0
    <3>1. master' = master BY <2>1, <2>2 DEF TypeOK, LinksOK
    <3>2. joined' = joined BY <2>1, <3>1 DEF Keep
    <3>3. UNCHANGED ours BY <2>1 DEF Exists
    <3> QED BY <1>7, <2>1, <3>1, <3>2, <3>3 DEF Ownership!host
  <2>3. CASE master[p] # 0
    <3>1. p \in joined BY <1>12, <2>3 DEF Leaves, SafeToDetach
    <3>2. UNCHANGED <<present, ours>> /\ on' = [on EXCEPT ![p] = NoLink] BY <1>10, <2>1
    <3>3. joined' = joined \ {p} BY <2>1, <2>3 DEF Keep, TypeOK, LinksOK
    <3> QED BY <3>1, <3>2, <3>3 DEF Ownership!Leave
  <2> QED BY <2>2, <2>3
\* A link goes, and with it the masters that named it.
<1>13. ASSUME NEW l \in Links \ Nics, Exists(l), LinkDel(l), made' = Live(made)
       PROVE  /\ present' = present \ {l} /\ ours' = ours \ {l}
              /\ \A p \in Ports :
                   master'[p] = IF p = l \/ master[p] = ifindex[l] THEN 0 ELSE master[p]
              /\ \A p \in Ports :
                   BridgeOf(p)' = IF p = l \/ BridgeOf(p) = l THEN NoLink ELSE BridgeOf(p)
  <2>1. GoneWith(l) = {l} BY DEF GoneWith
  <2>2. /\ \A k \in Links : ifindex'[k] = IF k = l THEN 0 ELSE ifindex[k]
        /\ \A p \in Ports :
             master'[p] = IF p = l \/ master[p] = ifindex[l] THEN 0 ELSE master[p]
    BY <1>13, <2>1 DEF LinkDel, TypeOK, LinksOK
  <2>3. present' = present \ {l} BY <2>2 DEF Exists
  <2>4. \A k \in Bridges \cup Vlans : Exists(k)' /\ ifindex'[k] \in made'
                                        <=> k # l /\ Exists(k) /\ ifindex[k] \in made
    BY <1>4, <1>13, <2>2 DEF Exists, Live
  <2>5. ours' = ours \ {l} BY <2>4
  <2>6. \A p \in Ports : master[p] # 0 => (master[p] = ifindex[l] <=> BridgeOf(p) = l)
    BY <1>1, <1>2, <1>4, <1>13 DEF LinksConsistent, BridgeAt, Exists
  <2>7. ASSUME NEW p \in Ports
        PROVE  BridgeOf(p)' = IF p = l \/ BridgeOf(p) = l THEN NoLink ELSE BridgeOf(p)
    <3>1. CASE master'[p] = 0
      BY <1>2, <1>3, <1>4, <1>13, <2>2, <2>6, <3>1 DEF Exists
    <3>2. CASE master'[p] # 0
      <4>1. p # l /\ master[p] # 0 /\ master'[p] = master[p] /\ BridgeOf(p) # l
        BY <2>2, <2>6, <3>2
      <4>2. BridgeOf(p) \in Bridges /\ Exists(BridgeOf(p)) /\ master[p] = ifindex[BridgeOf(p)]
        BY <1>2, <4>1
      <4>3. Exists(BridgeOf(p))' \/ ifindex'[BridgeOf(p)] = ifindex[BridgeOf(p)]
        BY <1>4, <2>2, <4>1, <4>2
      <4> QED BY <1>3, <1>4, <2>2, <4>1, <4>2 DEF Exists
    <3> QED BY <3>1, <3>2
  <2> QED BY <2>2, <2>3, <2>5, <2>7
<1>14. ASSUME NEW v \in Vlans, Deletes(v) PROVE Ownership!DeleteVlan(v)
  <2>1. /\ Exists(v) /\ LinkDel(v) /\ made' = Live(made) /\ joined' = Keep(joined)
        /\ v \in Links \ Nics /\ v \notin Bridges /\ v \in Ports
        /\ ifindex[v] \in made /\ master[v] = 0
    BY <1>4, <1>14 DEF Deletes, SafeToDelete
  <2>2. \A p \in Ports : BridgeOf(p) # v BY <1>4, <1>5, <2>1 DEF Links
  <2>3. BridgeOf(v) = NoLink BY <1>2, <2>1
  <2>4. on' = on BY <1>13, <2>1, <2>2, <2>3
  <2>5. \A p \in Ports : master[p] # ifindex[v]
    BY <1>1, <1>4, <2>1 DEF LinksConsistent, BridgeAt, Exists
  <2>6. joined' = joined BY <1>13, <2>1, <2>5 DEF Keep, TypeOK
  <2>7. v \in ours BY <2>1
  <2> QED
    BY <1>13, <2>1, <2>3, <2>4, <2>6, <2>7 DEF Ownership!DeleteVlan, Ownership!Free
<1>15. ASSUME NEW b \in Bridges, h.pc = "linkDel", h.name = b, Deletes(b)
       PROVE  Ownership!DeleteBridge(b)
  <2>1. /\ Exists(b) /\ LinkDel(b) /\ made' = Live(made) /\ joined' = Keep(joined)
        /\ b \in Links \ Nics /\ b \notin Ports /\ b # NoLink
    BY <1>4, <1>15 DEF Deletes
  <2>2. b \in ours
    BY <1>15, <2>1 DEF OwnershipInv, BridgeMarksTrue, SafeToDelete
  <2>3. on' = Ownership!WithoutBridge(b)
    BY <1>4, <1>13, <2>1 DEF Ownership!WithoutBridge
  <2>4. joined' = {p \in joined : on[p] # b}
    BY <1>1, <1>2, <1>13, <2>1 DEF Keep, TypeOK, LinksConsistent, Exists
  <2> QED BY <1>13, <2>1, <2>2, <2>3, <2>4 DEF Ownership!DeleteBridge
<1>16. ASSUME NEW v \in Veths, PodStep(v) PROVE Ownership!Pod(v)
  <2>0. v \in Ports /\ v \in Links /\ v \notin Nics \cup Vlans \cup Bridges
    BY <1>4
  <2>1. CASE OutsideAdd(v)
    <3>1. PICK i \in Index \ InUse : LinkAdd(v, i) BY <2>0, <2>1, NewIndexFresh DEF OutsideAdd
    <3>2. /\ \A k \in Links : ifindex'[k] = IF k = v THEN i ELSE ifindex[k]
          /\ master' = master /\ ifindex[v] = 0 /\ made' = made /\ joined' = joined /\ i # 0
      BY <2>0, <2>1, <3>1 DEF OutsideAdd, LinkAdd, Exists, TypeOK, LinksOK, history
    <3>3. present' = present \cup {v} BY <2>0, <3>2 DEF Exists
    <3>4. ours' = ours BY <1>4, <2>0, <3>2 DEF Exists
    <3>5. \A p \in Ports : BridgeOf(p)' = BridgeOf(p)
      BY <1>2, <1>3, <1>4, <1>5, <1>6, <2>0, <3>2 DEF Exists
    <3>6. BridgeOf(v) = NoLink
      BY <1>1, <1>2, <2>0, <3>2 DEF LinksConsistent, Exists
    <3>7. on' = [on EXCEPT ![v] = NoLink] BY <2>0, <3>5, <3>6
    <3> QED BY <2>0, <3>2, <3>3, <3>4, <3>7 DEF Ownership!Pod
  <2>2. CASE OutsideDel(v)
    <3>1. Exists(v) /\ LinkDel(v) /\ made' = Live(made) /\ joined' = Keep(joined)
      BY <2>2 DEF OutsideDel
    <3>2. \A p \in Ports : BridgeOf(p) # v BY <1>4, <1>5, <2>0, LinkAssumption
    <3>3. on' = [on EXCEPT ![v] = NoLink]
      <4>1. \A p \in Ports : BridgeOf(p)' = IF p = v THEN NoLink ELSE BridgeOf(p)
        BY <1>13, <2>0, <3>1, <3>2
      <4> QED BY <2>0, <4>1
    <3>4. \A p \in Ports : master[p] # ifindex[v]
      BY <1>1, <1>4, <2>0, <3>1 DEF LinksConsistent, BridgeAt, Exists
    <3>5. joined' = joined
      BY <1>1, <1>13, <2>0, <3>1, <3>4 DEF Keep, TypeOK, LinksConsistent
    <3>6. present' = present \ {v} /\ ours' = ours BY <1>13, <2>0, <3>1
    <3>7. on'[v] = NoLink BY <1>13, <2>0, <3>1
    <3> QED BY <3>3, <3>5, <3>6, <3>7 DEF Ownership!Pod
  <2>3. ASSUME NEW b \in Bridges \cup {NoLink}, UNCHANGED <<ifindex, made>>, Exists(v),
               master' = [master EXCEPT ![v] = IF b = NoLink THEN 0 ELSE ifindex[b]],
               b # NoLink => Exists(b), joined' = Keep(joined)
        PROVE  Ownership!Pod(v)
    <3>1. UNCHANGED <<present, ours>> /\ on' = [on EXCEPT ![v] = b]
      BY <1>10, <2>0, <2>3
    <3>2. joined' = joined
      BY <1>1, <2>0, <2>3 DEF Keep, TypeOK, LinksOK, LinksConsistent
    <3>3. v \in present /\ b \in (present \cap Bridges) \cup {NoLink} BY <1>4, <2>0, <2>3
    <3>4. present' = present \cup {v} BY <3>1, <3>3
    <3> QED BY <3>1, <3>2, <3>3, <3>4 DEF Ownership!Pod
  <2>4. ASSUME NEW b \in Bridges, OutsideAttach(v, b) PROVE Ownership!Pod(v)
    BY <1>4, <2>3, <2>4 DEF OutsideAttach, LinkSetMaster
  <2>5. CASE OutsideDetach(v)
    BY <1>1, <2>0, <2>3, <2>5
       DEF OutsideDetach, LinkSetNoMaster, LinkSetMaster, LinksConsistent
  <2> QED BY <1>16, <2>1, <2>2, <2>4, <2>5 DEF PodStep
<1>17. ASSUME NEW l \in Bridges \cup Vlans, Makes(l) PROVE Ownership!Next
  BY <1>9, <1>17 DEF Ownership!Next, Ownership!Operator
<1>18. ASSUME NEW p \in Nics \cup Vlans, NEW b \in Bridges, Joins(p, b) PROVE Ownership!Next
  BY <1>11, <1>18 DEF Ownership!Next, Ownership!Operator
<1>19. ASSUME NEW p \in Nics \cup Vlans, Leaves(p)
       PROVE  Ownership!Next \/ UNCHANGED Ownership!host
  BY <1>12, <1>19 DEF Ownership!Next, Ownership!Operator
<1>20. ASSUME NEW v \in Vlans, Deletes(v) PROVE Ownership!Next
  BY <1>14, <1>20 DEF Ownership!Next, Ownership!Operator
<1>21. ASSUME NEW b \in Bridges, h.pc = "linkDel", h.name = b, Deletes(b) PROVE Ownership!Next
  BY <1>15, <1>21 DEF Ownership!Next, Ownership!Operator
<1>22. ASSUME NEW v \in Veths, PodStep(v) PROVE Ownership!Next
  BY <1>16, <1>22 DEF Ownership!Next
<1> QED
  BY <1>8, <1>17, <1>18, <1>19, <1>20, <1>21, <1>22, Zenon DEF LinkStep

\* BridgeDaemon implements HostOwnership: for any node and any configurations,
\* with crashes, restarts and relabelling at any step and any failing request but the
\* lookup of bridgeIsConfigured (bridgeconfig.go:66-76), the daemon deletes only
\* links it created, takes only free interfaces and detaches only ports it
\* attached (bridgeconfig.go:120-145, 180, 206, 255).
THEOREM DaemonKeepsOwnership ==
  ASSUME Outside \subseteq Veths, "bridgeIsConfigured" \notin Faults
  PROVE  Spec => KeepsOwnership
<1>1. TypeOK /\ OwnershipInv /\ TypeOK' /\ OwnershipInv' /\ [Next]_vars
        => [Ownership!Next]_Ownership!host
  BY LinkSteps, StepOwnership DEF OwnershipInv
<1> QED
  BY InitOwnership, TypeCorrect, OwnershipInvariant, <1>1, PTL
     DEF Spec, KeepsOwnership, Ownership!Spec

=============================================================================
