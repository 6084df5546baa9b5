----------------------------- MODULE MarksProofs -----------------------------
(***************************************************************************)
(* What "managed" means for a port: the interface is on that bridge, the   *)
(* vlan interface exists, and no other bridge's map says the same. The     *)
(* handler gives a port up and says so in two steps, hence Exempt; it      *)
(* makes a port its own and says so in two steps, hence Claims.            *)
(***************************************************************************)
EXTENDS OwnershipProofs

\* What there must be of a port that bridge b's map marks managed.
Backed(b, p) == IF p \in Nics THEN Holds(b, p) ELSE Exists(p)

\* The handler has given the port, or the bridge, up and not yet forgotten it.
Exempt(b, p) == h.name = b /\ (h.pc = "unset" \/ (h.pc = "forget" /\ h.port = p))

Sole(b, p) == \A c \in Bridges : IsManaged(c, p) => c = b

\* The handler is about to give up a managed port, or to mark one.
Claims ==
  \/ h.pc \in {"lookup", "detach"}
  \/ h.pc \in {"setPort", "writePort"} /\ h.mark = "managed"

MarksBacked ==
  \A b \in Bridges, p \in Nics \cup Vlans : IsManaged(b, p) => Backed(b, p) \/ Exempt(b, p)

VethsUnmanaged == \A b \in Bridges, p \in Veths : ~IsManaged(b, p)

ClaimsBacked ==
  /\ Claims => Backed(h.name, h.port)
  /\ Claims \/ h.pc = "vlanDel" => Sole(h.name, h.port)

\* The inductive invariant.
MarksInv == OneManager /\ MarksBacked /\ VethsUnmanaged /\ ClaimsBacked

\* A step that takes nothing away from a mark.
StaysPut == \A b \in Bridges, p \in Nics \cup Vlans : Backed(b, p) => Backed(b, p)'

USE LinkAssumption

\* A step that adds no mark, takes nothing from one and forgets what it gave up keeps
\* the invariant if it keeps the handler's part of it.
LEMMA StepKeepsMarks ==
  ASSUME MarksInv, FewerMarks, StaysPut, ClaimsBacked',
         \A b \in Bridges, p \in Nics \cup Vlans :
           IsManaged(b, p)' /\ Exempt(b, p) => Exempt(b, p)'
  PROVE  MarksInv'
<1>1. OneManager' BY DEF MarksInv, OneManager, FewerMarks
<1>2. VethsUnmanaged' BY DEF MarksInv, VethsUnmanaged, FewerMarks, Ports
<1>3. MarksBacked'
  BY DEF MarksInv, MarksBacked, FewerMarks, StaysPut, Ports
<1> QED BY <1>1, <1>2, <1>3 DEF MarksInv

\* Such a step of somebody else keeps the handler's part too.
LEMMA QuietStepKeepsMarks ==
  ASSUME TypeOK, MarksInv, FewerMarks, StaysPut, h' = h
  PROVE  MarksInv'
<1>1. h.pc \in PortSteps => h.port \in Nics \cup Vlans /\ h.name \in Bridges
  BY DEF TypeOK, HandlerOK, PortSteps, Idle, Call
<1>2. Claims' <=> Claims BY DEF Claims
<1>3. ClaimsBacked'
  <2>1. Claims => Backed(h.name, h.port)'
    BY <1>1 DEF MarksInv, ClaimsBacked, StaysPut, Claims, PortSteps
  <2>2. Claims \/ h.pc = "vlanDel" => Sole(h.name, h.port)'
    BY <1>1 DEF MarksInv, ClaimsBacked, Sole, FewerMarks, Ports, Claims, PortSteps
  <2> QED BY <1>2, <2>1, <2>2 DEF ClaimsBacked
<1>4. \A b \in Bridges, p \in Nics \cup Vlans : Exempt(b, p) => Exempt(b, p)'
  BY DEF Exempt
<1> QED BY <1>3, <1>4, StepKeepsMarks

\* So does a step of the handler that gives nothing up and claims nothing.
LEMMA RestStepKeepsMarks ==
  ASSUME MarksInv, FewerMarks, StaysPut, h.pc \notin {"forget", "unset"},
         h'.pc \notin {"lookup", "detach", "vlanDel", "setPort", "writePort"}
  PROVE  MarksInv'
<1>1. ClaimsBacked' BY DEF ClaimsBacked, Claims
<1> QED BY <1>1, StepKeepsMarks DEF Exempt

\* A new process has no marks and is in the middle of nothing.
LEMMA DeathKeepsMarks ==
  ASSUME TypeOK, RegistryLost, h' = Idle
  PROVE  MarksInv'
<1>1. \A b \in Bridges, p \in Ports : ~IsManaged(b, p)'
  BY DEF RegistryLost, NoPorts, IsManaged
<1>2. h'.pc = "idle" BY DEF Idle, Call
<1>3. OneManager' BY <1>1 DEF OneManager
<1>4. MarksBacked' /\ VethsUnmanaged' BY <1>1 DEF MarksBacked, VethsUnmanaged, Ports
<1>5. ClaimsBacked' BY <1>2 DEF ClaimsBacked, Claims
<1> QED BY <1>3, <1>4, <1>5 DEF MarksInv

(***************************************************************************)
(* Which changes of the links take nothing from a mark.                    *)
(***************************************************************************)
LEMMA SameLinksStay == ASSUME UNCHANGED links PROVE StaysPut
BY DEF StaysPut, Backed, Holds, Exists, links

\* A new link: no port is on it yet.
LEMMA LinkAddStays ==
  ASSUME TypeOK, NEW l \in Links, NEW i \in Index, ~Exists(l), LinkAdd(l, i)
  PROVE  StaysPut
<1>1. /\ \A k \in Links : Exists(k) => ifindex'[k] = ifindex[k]
      /\ master' = master
  BY DEF LinkAdd, Exists, TypeOK, LinksOK
<1>2. \A p \in Nics, b \in Bridges : Holds(b, p) => Holds(b, p)'
  BY <1>1 DEF Holds, Exists, Links, Ports
<1>3. \A p \in Vlans : Exists(p) => Exists(p)' BY <1>1 DEF Exists, Links, Ports
<1> QED BY <1>2, <1>3 DEF StaysPut, Backed

\* A port that is on no bridge, or that is no interface, is put on one or taken off.
LEMMA SetMasterStays ==
  ASSUME TypeOK, NEW p \in Ports, NEW i, LinkSetMaster(p, i), p \in Nics => master[p] = 0
  PROVE  StaysPut
<1>1. /\ ifindex' = ifindex
      /\ \A q \in Ports : q # p => master'[q] = master[q]
  BY DEF LinkSetMaster, TypeOK, LinksOK
<1>2. \A q \in Nics, b \in Bridges : Holds(b, q) => Holds(b, q)'
  BY <1>1 DEF Holds, Exists, Ports
<1>3. \A q \in Vlans : Exists(q) => Exists(q)' BY <1>1 DEF Exists
<1> QED BY <1>2, <1>3 DEF StaysPut, Backed

\* A pod interface goes.
LEMMA PodDelStays ==
  ASSUME TypeOK, LinksConsistent, NEW v \in Veths, Exists(v), LinkDel(v)
  PROVE  StaysPut
<1>1. GoneWith(v) = {v} BY DEF GoneWith
<1>2. v \in Links /\ v \notin Nics \cup Vlans \cup Bridges BY DEF Links, Ports
<1>3. \A k \in Links : k # v => ifindex'[k] = ifindex[k] BY <1>1 DEF LinkDel
<1>4. \A p \in Nics, b \in Bridges : Holds(b, p) => Holds(b, p)'
  <2> TAKE p \in Nics, b \in Bridges
  <2>1. Exists(b) => ifindex[b] # ifindex[v]
    BY <1>2 DEF LinksConsistent, Links
  <2>2. p \notin GoneWith(v) /\ p \in Ports BY <1>1, <1>2 DEF Ports
  <2>3. Holds(b, p) => master'[p] = master[p] BY <2>1, <2>2 DEF LinkDel, Holds
  <2> QED BY <1>2, <1>3, <2>3 DEF Holds, Exists, Links
<1>5. \A p \in Vlans : Exists(p) => Exists(p)' BY <1>2, <1>3 DEF Exists, Links, Ports
<1> QED BY <1>4, <1>5 DEF StaysPut, Backed

LEMMA PodStepStays ==
  ASSUME TypeOK, LinksConsistent, NEW v \in Veths, PodStep(v)
  PROVE  StaysPut
<1> v \in Ports /\ v \in Links /\ v \notin Nics BY DEF Ports, Links
<1>1. CASE OutsideAdd(v) BY <1>1, NewIndexFresh, LinkAddStays DEF OutsideAdd
<1>2. CASE OutsideDel(v) BY <1>2, PodDelStays DEF OutsideDel
<1>3. CASE \E b \in Bridges : OutsideAttach(v, b) BY <1>3, SetMasterStays DEF OutsideAttach
<1>4. CASE OutsideDetach(v) BY <1>4, SetMasterStays DEF OutsideDetach, LinkSetNoMaster
<1> QED BY <1>1, <1>2, <1>3, <1>4 DEF PodStep

(***************************************************************************)
(* The steps.                                                              *)
(***************************************************************************)
\* The handler before and after its loops: it holds no port.
LEMMA OutsideLoopsMarks ==
  ASSUME TypeOK, LinksConsistent, MarksInv, Handler,
         ~ (RemoveItem \/ LookupPort \/ Detach \/ VlanLinkDel \/ Forget),
         ~ (AddItem \/ VlanLookup \/ VlanLinkAdd \/ Attach \/ SetPortManagement \/ SetPortLocked)
  PROVE  MarksInv'
<1> DEFINE Quiet == {"idle", "isConfigured", "setBridge", "linkAdd", "linkUp", "bridgeUpdate",
                     "unconfigured", "reconcile", "checkPorts", "linkDel", "unset"}
<1> USE DEF At
<1>1. ASSUME h.pc \notin {"forget", "unset"}, h'.pc \in Quiet, FewerMarks, UNCHANGED links
      PROVE  MarksInv'
  BY <1>1, SameLinksStay, RestStepKeepsMarks
<1>2. Idle.pc = "idle" BY DEF Idle, Call
<1>3. CASE OnBridgeConfigAdd \/ OnBridgeConfigUpdate \/ OnBridgeConfigDelete
  <2>1. UNCHANGED registry /\ UNCHANGED links /\ h.pc = "idle"
    BY <1>3 DEF OnBridgeConfigAdd, OnBridgeConfigUpdate, OnBridgeConfigDelete, TakesNext
  <2>2. h'.pc \in {"idle", "isConfigured", "bridgeUpdate", "unconfigured"}
    <3>1. CASE OnBridgeConfigAdd
      BY <1>2, <3>1 DEF OnBridgeConfigAdd, Configured, Call
    <3>2. CASE OnBridgeConfigUpdate
      BY <1>2, <3>2 DEF OnBridgeConfigUpdate, Configured, Unconfigured, Updated, Call
    <3>3. CASE OnBridgeConfigDelete
      BY <1>2, <3>3 DEF OnBridgeConfigDelete, Unconfigured, Call
    <3> QED BY <1>3, <3>1, <3>2, <3>3
  <2> QED BY <1>1, <2>1, <2>2, SameMarks
<1>4. CASE SetBridge
  <2>1. FewerMarks
    BY <1>4 DEF SetBridge, SetBridgeManagement, FewerMarks, registry, NoPorts, IsManaged,
                TypeOK, RegistryOK
  <2>2. h'.pc = "linkAdd" BY <1>4 DEF SetBridge, TypeOK, HandlerOK
  <2> QED BY <1>1, <1>4, <2>1, <2>2 DEF SetBridge
<1>5. CASE IsConfigured
  <2>1. h'.pc = "setBridge" BY <1>5 DEF IsConfigured, TypeOK, HandlerOK
  <2> QED BY <1>1, <1>5, <2>1, SameMarks DEF IsConfigured
<1>6. CASE BridgeLinkAdd
  <2>1. h'.pc \in {"linkUp", "idle"} BY <1>2, <1>6 DEF BridgeLinkAdd, TypeOK, HandlerOK
  <2>2. h.name \in Links BY <1>6 DEF BridgeLinkAdd, TypeOK, HandlerOK, Links
  <2>3. StaysPut
    BY <1>6, <2>2, NewIndexFresh, LinkAddStays, SameLinksStay DEF BridgeLinkAdd
  <2>4. h.pc = "linkAdd" /\ FewerMarks BY <1>6, SameMarks DEF BridgeLinkAdd
  <2> QED BY <2>1, <2>3, <2>4, RestStepKeepsMarks
<1>7. CASE BridgeLinkUp
  <2>1. h'.pc \in {"bridgeUpdate", "idle"} BY <1>2, <1>7 DEF BridgeLinkUp, TypeOK, HandlerOK
  <2> QED BY <1>1, <1>7, <2>1, SameMarks DEF BridgeLinkUp
<1>8. CASE bridgeUpdate \/ bridgeUnconfigured
  <2>1. h'.pc \in {"reconcile", "idle", "unset"}
    BY <1>2, <1>8 DEF bridgeUpdate, bridgeUnconfigured, LookupBridge, TypeOK, HandlerOK
  <2>2. h.pc \in {"bridgeUpdate", "unconfigured"} /\ UNCHANGED registry /\ UNCHANGED links
    BY <1>8 DEF bridgeUpdate, bridgeUnconfigured, LookupBridge
  <2> QED BY <1>1, <2>1, <2>2, SameMarks
<1>9. CASE Reconciled \/ CheckPorts
  <2>1. h'.pc \in {"checkPorts", "idle", "linkDel", "unset"}
    BY <1>2, <1>9 DEF Reconciled, CheckPorts, TypeOK, HandlerOK
  <2> QED BY <1>1, <1>9, <2>1, SameMarks DEF Reconciled, CheckPorts
<1>10. CASE BridgeLinkDel
  <2>1. h' = [h EXCEPT !.pc = "unset", !.br = 0] /\ h.pc = "linkDel" /\ UNCHANGED registry
    BY <1>10 DEF BridgeLinkDel
  <2>2. h'.pc = "unset" /\ h'.name = h.name BY <2>1 DEF TypeOK, HandlerOK
  <2>3. h.name \in Bridges /\ h.br # 0 BY <2>1 DEF TypeOK, HandlerOK, PortSteps, Idle, Call
  <2>4. CASE UNCHANGED links BY <1>1, <2>1, <2>2, <2>4, SameMarks
  <2>5. CASE ifindex[h.name] = h.br /\ LinkDel(h.name)
    <3>1. Exists(h.name) BY <2>3, <2>5 DEF Exists
    <3>2. h.name \in Links \ Nics /\ h.name \notin Ports BY <2>3 DEF Links, Ports
    <3>3. /\ ifindex' = [ifindex EXCEPT ![h.name] = 0]
          /\ \A p \in Ports :
               master'[p] = IF p = h.name \/ master[p] = ifindex[h.name] THEN 0 ELSE master[p]
      BY <1>10, <2>5, <3>1, <3>2, DeletesKeeps DEF BridgeLinkDel
    <3>4. \A k \in Links : k # h.name => ifindex'[k] = ifindex[k]
      BY <3>3 DEF TypeOK, LinksOK
    <3>5. \A b \in Bridges, p \in Nics \cup Vlans :
            b # h.name /\ Backed(b, p) => Backed(b, p)'
      <4> TAKE b \in Bridges, p \in Nics \cup Vlans
      <4>1. b \in Links /\ p \in Links /\ p \in Ports /\ p # h.name
        BY <3>2 DEF Links, Ports
      <4>2. b # h.name /\ Exists(b) => ifindex[b] # ifindex[h.name]
        BY <3>2, <4>1 DEF LinksConsistent
      <4>3. b # h.name /\ Holds(b, p) => Holds(b, p)'
        BY <3>3, <3>4, <4>1, <4>2 DEF Holds, Exists
      <4>4. Exists(p) => Exists(p)' BY <3>4, <4>1 DEF Exists
      <4> QED BY <4>3, <4>4 DEF Backed
    <3>6. \A b \in Bridges, p \in Ports : IsManaged(b, p)' <=> IsManaged(b, p)
      BY <2>1 DEF registry, IsManaged
    <3>7. MarksBacked'
      BY <2>1, <2>2, <3>5, <3>6 DEF MarksInv, MarksBacked, Exempt, Ports
    <3>8. OneManager' /\ VethsUnmanaged'
      BY <3>6 DEF MarksInv, OneManager, VethsUnmanaged, Ports
    <3>9. ClaimsBacked' BY <2>2 DEF ClaimsBacked, Claims
    <3> QED BY <3>7, <3>8, <3>9 DEF MarksInv
  <2> QED BY <1>10, <2>4, <2>5 DEF BridgeLinkDel
<1>11. CASE UnsetBridge
  <2>1. FewerMarks
    BY <1>11 DEF UnsetBridge, UnsetBridgeManagement, FewerMarks, NoPorts, IsManaged,
                TypeOK, RegistryOK
  <2>2. h.pc = "unset" /\ h.name \in Bridges /\ UNCHANGED links /\ h' = Idle
    BY <1>11 DEF UnsetBridge, TypeOK, HandlerOK, Idle, Call
  <2>3. \A b \in Bridges, p \in Ports : b = h.name => ~IsManaged(b, p)'
    BY <1>11, <2>2 DEF UnsetBridge, UnsetBridgeManagement, IsManaged, NoPorts, TypeOK, RegistryOK
  <2>4. \A b \in Bridges, p \in Nics \cup Vlans :
          IsManaged(b, p)' /\ Exempt(b, p) => Exempt(b, p)'
    BY <2>3 DEF Exempt, Ports
  <2>5. ClaimsBacked' BY <1>2, <2>2 DEF ClaimsBacked, Claims
  <2> QED BY <2>1, <2>2, <2>4, <2>5, SameLinksStay, StepKeepsMarks
<1> QED
  BY <1>3, <1>4, <1>5, <1>6, <1>7, <1>8, <1>9, <1>10, <1>11 DEF Handler

\* The loops over tobeRemove: between its test and its word a port is backed by the
\* bridge it is taken from, and by no other.
LEMMA RemovingMarks ==
  ASSUME TypeOK, LinksConsistent, MarksInv,
         RemoveItem \/ LookupPort \/ Detach \/ VlanLinkDel \/ Forget
  PROVE  MarksInv'
<1> USE DEF At
<1>a. ASSUME UNCHANGED registry
      PROVE  FewerMarks /\ \A b \in Bridges, p \in Ports : IsManaged(b, p)' <=> IsManaged(b, p)
  BY <1>a, SameMarks DEF registry, IsManaged
<1>b. ASSUME h' = NextItem, UNCHANGED registry, UNCHANGED links,
             h.pc \in {"lookup", "detach", "vlanDel"}
      PROVE  MarksInv'
  <2>1. h'.pc = "reconcile" BY <1>b DEF NextItem, TypeOK, HandlerOK
  <2> QED BY <1>a, <1>b, <2>1, SameLinksStay, RestStepKeepsMarks
<1>1. CASE RemoveItem
  <2>1. PICK p \in h.rem :
          h' = [h EXCEPT !.rem = @ \ {p}, !.port = p,
                  !.pc = IF IsPortManaged(h.name, p) THEN "lookup" ELSE "forget"]
    BY <1>1 DEF RemoveItem
  <2>2. p \in Nics \cup Vlans /\ p \in Ports /\ h.name \in Bridges
        /\ h.pc = "reconcile" /\ UNCHANGED registry /\ UNCHANGED links
    BY <1>1 DEF TypeOK, HandlerOK, RemoveItem, Ports
  <2>3. FewerMarks /\ StaysPut BY <1>a, <2>2, SameLinksStay
  <2>4. CASE ~IsPortManaged(h.name, p)
    <3>1. h'.pc = "forget" BY <2>1, <2>4 DEF TypeOK, HandlerOK
    <3> QED BY <2>2, <2>3, <3>1, RestStepKeepsMarks
  <2>5. CASE IsPortManaged(h.name, p)
    <3>1. h'.pc = "lookup" /\ h'.port = p /\ h'.name = h.name
      BY <2>1, <2>5 DEF TypeOK, HandlerOK
    <3>2. IsManaged(h.name, p) BY <2>5 DEF IsPortManaged, IsManaged
    <3>3. Backed(h.name, p) BY <2>2, <3>2 DEF MarksInv, MarksBacked, Exempt
    <3>4. Sole(h.name, p) BY <2>2, <3>2 DEF MarksInv, OneManager, Sole
    <3>5. Backed(h.name, h.port)' BY <2>2, <2>3, <3>1, <3>3 DEF StaysPut
    <3>6. Sole(h.name, h.port)' BY <1>a, <2>2, <3>1, <3>4 DEF Sole
    <3>7. ClaimsBacked' BY <3>5, <3>6 DEF ClaimsBacked
    <3> QED BY <2>2, <2>3, <3>7, StepKeepsMarks DEF Exempt
  <2> QED BY <2>4, <2>5
<1>2. CASE LookupPort
  <2>1. h.pc = "lookup" /\ h.port \in Nics \cup Vlans /\ h.port \in Ports /\ h.name \in Bridges
        /\ UNCHANGED registry /\ UNCHANGED links
    BY <1>2 DEF TypeOK, HandlerOK, LookupPort, PortSteps, Ports, Idle, Call
  <2>2. CASE h' = NextItem BY <1>b, <2>1, <2>2
  <2>3. CASE h' = [h EXCEPT !.pc = "detach", !.link = ifindex[h.port]]
    <3>1. h'.pc = "detach" /\ h'.port = h.port /\ h'.name = h.name
      BY <2>3 DEF TypeOK, HandlerOK
    <3>2. FewerMarks /\ StaysPut BY <1>a, <2>1, SameLinksStay
    <3>3. Backed(h.name, h.port) /\ Sole(h.name, h.port)
      BY <2>1 DEF MarksInv, ClaimsBacked, Claims
    <3>4. Backed(h.name, h.port)' BY <2>1, <3>1, <3>2, <3>3 DEF StaysPut
    <3>5. Sole(h.name, h.port)' BY <1>a, <2>1, <3>1, <3>3 DEF Sole
    <3> QED BY <2>1, <3>2, <3>4, <3>5, StepKeepsMarks DEF Exempt, ClaimsBacked
  <2> QED BY <1>2, <2>2, <2>3 DEF LookupPort
<1>3. CASE Detach
  <2>1. h.pc = "detach" /\ h.port \in Nics \cup Vlans /\ h.port \in Ports /\ h.name \in Bridges
        /\ UNCHANGED registry
    BY <1>3 DEF TypeOK, HandlerOK, Detach, PortSteps, Ports, Idle, Call
  <2>2. Sole(h.name, h.port) BY <2>1 DEF MarksInv, ClaimsBacked, Claims
  <2>3. CASE h' = NextItem /\ UNCHANGED links BY <1>b, <2>1, <2>3
  <2>4. CASE /\ LinkSetNoMaster(h.port)
             /\ h' = [h EXCEPT !.pc = IF h.port \in Vlans THEN "vlanDel" ELSE "forget"]
    <3>1. /\ h'.port = h.port /\ h'.name = h.name
          /\ h'.pc = IF h.port \in Vlans THEN "vlanDel" ELSE "forget"
      BY <2>4 DEF TypeOK, HandlerOK
    <3>2. ifindex' = ifindex /\ \A q \in Ports : q # h.port => master'[q] = master[q]
      BY <2>4 DEF LinkSetNoMaster, LinkSetMaster, TypeOK, LinksOK
    <3>3. \A b \in Bridges, q \in Nics \cup Vlans :
            q # h.port \/ q \in Vlans => (Backed(b, q) => Backed(b, q)')
      BY <3>2 DEF Backed, Holds, Exists, Ports
    <3>4. MarksBacked'
      <4> SUFFICES ASSUME NEW b \in Bridges, NEW q \in Nics \cup Vlans, IsManaged(b, q)'
                   PROVE  Backed(b, q)' \/ Exempt(b, q)'
        BY DEF MarksBacked
      <4>1. IsManaged(b, q) /\ Backed(b, q)
        BY <1>a, <2>1 DEF MarksInv, MarksBacked, Exempt, Ports
      <4>2. CASE q # h.port \/ q \in Vlans BY <3>3, <4>1, <4>2
      <4>3. CASE q = h.port /\ q \notin Vlans
        <5>1. b = h.name BY <2>2, <4>1, <4>3 DEF Sole
        <5> QED BY <3>1, <4>3, <5>1 DEF Exempt
      <4> QED BY <4>2, <4>3
    <3>5. Sole(h.name, h.port)' BY <1>a, <2>1, <2>2, <3>1 DEF Sole
    <3>6. ClaimsBacked' BY <3>1, <3>5 DEF ClaimsBacked, Claims
    <3>7. OneManager' /\ VethsUnmanaged'
      BY <1>a, <2>1 DEF MarksInv, OneManager, VethsUnmanaged, Ports
    <3> QED BY <3>4, <3>6, <3>7 DEF MarksInv
  <2> QED BY <1>3, <2>3, <2>4 DEF Detach
<1>4. CASE VlanLinkDel
  <2>1. h.pc = "vlanDel" /\ h.port \in Vlans /\ h.port \in Ports /\ h.name \in Bridges
        /\ UNCHANGED registry /\ h.link # 0
    BY <1>4 DEF TypeOK, HandlerOK, VlanLinkDel, PortSteps, Ports, Idle, Call
  <2>2. Sole(h.name, h.port) BY <2>1 DEF MarksInv, ClaimsBacked
  <2>3. CASE h' = NextItem /\ UNCHANGED links BY <1>b, <2>1, <2>3
  <2>4. CASE /\ ifindex[h.port] = h.link /\ LinkDel(h.port)
             /\ h' = [h EXCEPT !.pc = "forget"]
    <3>1. h'.pc = "forget" /\ h'.port = h.port /\ h'.name = h.name
      BY <2>4 DEF TypeOK, HandlerOK
    <3>2. Exists(h.port) /\ h.port \in Links \ Nics /\ h.port \notin Bridges
      BY <2>1, <2>4 DEF Exists, Links, Ports
    <3>3. /\ ifindex' = [ifindex EXCEPT ![h.port] = 0]
          /\ \A p \in Ports :
               master'[p] = IF p = h.port \/ master[p] = ifindex[h.port] THEN 0 ELSE master[p]
      BY <1>4, <2>4, <3>2, DeletesKeeps DEF VlanLinkDel
    <3>4. \A k \in Links : k # h.port => ifindex'[k] = ifindex[k]
      BY <3>3 DEF TypeOK, LinksOK
    <3>5. \A b \in Bridges, q \in Nics \cup Vlans : q # h.port /\ Backed(b, q) => Backed(b, q)'
      <4> TAKE b \in Bridges, q \in Nics \cup Vlans
      <4>1. b \in Links /\ q \in Links /\ q \in Ports /\ b # h.port
        BY <3>2 DEF Links, Ports
      <4>2. Exists(b) => ifindex[b] # ifindex[h.port]
        BY <3>2, <4>1 DEF LinksConsistent
      <4>3. q # h.port /\ Holds(b, q) => Holds(b, q)'
        BY <3>3, <3>4, <4>1, <4>2 DEF Holds, Exists
      <4>4. q # h.port /\ Exists(q) => Exists(q)' BY <3>4, <4>1 DEF Exists
      <4> QED BY <4>3, <4>4 DEF Backed
    <3>6. MarksBacked'
      <4> SUFFICES ASSUME NEW b \in Bridges, NEW q \in Nics \cup Vlans, IsManaged(b, q)'
                   PROVE  Backed(b, q)' \/ Exempt(b, q)'
        BY DEF MarksBacked
      <4>1. IsManaged(b, q) /\ Backed(b, q)
        BY <1>a, <2>1 DEF MarksInv, MarksBacked, Exempt, Ports
      <4>2. CASE q # h.port BY <3>5, <4>1, <4>2
      <4>3. CASE q = h.port
        <5>1. b = h.name BY <2>2, <4>1, <4>3 DEF Sole
        <5> QED BY <3>1, <4>3, <5>1 DEF Exempt
      <4> QED BY <4>2, <4>3
    <3>7. ClaimsBacked' BY <3>1 DEF ClaimsBacked, Claims
    <3>8. OneManager' /\ VethsUnmanaged'
      BY <1>a, <2>1 DEF MarksInv, OneManager, VethsUnmanaged, Ports
    <3> QED BY <3>6, <3>7, <3>8 DEF MarksInv
  <2> QED BY <1>4, <2>3, <2>4 DEF VlanLinkDel
<1>5. CASE Forget
  <2>1. FewerMarks
    BY <1>5 DEF Forget, FewerMarks, RemovePortManagement, IsManaged, TypeOK, RegistryOK
  <2>2. h.pc = "forget" /\ h.name \in Bridges /\ h.port \in Ports /\ UNCHANGED links
        /\ h' = NextItem
    BY <1>5 DEF Forget, TypeOK, HandlerOK, PortSteps, Ports, Idle, Call
  <2>3. \A b \in Bridges, p \in Ports : b = h.name /\ p = h.port => ~IsManaged(b, p)'
    BY <1>5, <2>2 DEF Forget, RemovePortManagement, IsManaged, TypeOK, RegistryOK, NoPorts
  <2>4. \A b \in Bridges, p \in Nics \cup Vlans :
          IsManaged(b, p)' /\ Exempt(b, p) => Exempt(b, p)'
    BY <2>2, <2>3 DEF Exempt, Ports
  <2>5. h'.pc = "reconcile" BY <2>2 DEF NextItem, TypeOK, HandlerOK
  <2>6. ClaimsBacked' BY <2>5 DEF ClaimsBacked, Claims
  <2> QED BY <2>1, <2>2, <2>4, <2>6, SameLinksStay, StepKeepsMarks
<1> QED BY <1>1, <1>2, <1>3, <1>4, <1>5

\* The loops over tobeAdd: what the handler marks managed it has just put on the bridge,
\* or created, and no map said so before.
LEMMA AddingMarks ==
  ASSUME TypeOK, LinksConsistent, PortMarksTrue, MarksInv,
         AddItem \/ VlanLookup \/ VlanLinkAdd \/ Attach \/ SetPortManagement \/ SetPortLocked
  PROVE  MarksInv'
<1> USE DEF At
<1>a. ASSUME UNCHANGED registry
      PROVE  FewerMarks /\ \A b \in Bridges, p \in Ports : IsManaged(b, p)' <=> IsManaged(b, p)
  BY <1>a, SameMarks DEF registry, IsManaged
<1>b. ASSUME h'.pc \in {"reconcile", "vlanLookup", "vlanAdd", "attach"}, FewerMarks, StaysPut,
             h.pc \notin {"forget", "unset"}
      PROVE  MarksInv'
  BY <1>b, RestStepKeepsMarks
<1>c. ASSUME h' = NextItem PROVE h'.pc = "reconcile"
  BY <1>c DEF NextItem, TypeOK, HandlerOK
<1>1. CASE AddItem
  <2>1. h.pc = "reconcile" /\ UNCHANGED registry /\ UNCHANGED links BY <1>1 DEF AddItem
  <2>2. PICK p \in h.add :
          LET isVlan == p \in Vlans
              l == IF isVlan THEN Parent[p] ELSE p
              next == [h EXCEPT !.add = @ \ {p}]
          IN \/ h' = [next EXCEPT !.pc = IF isVlan THEN "vlanLookup" ELSE "attach",
                                  !.port = p, !.link = ifindex[l]]
             \/ h' = next
    BY <1>1 DEF AddItem
  <2>3. h'.pc \in {"reconcile", "vlanLookup", "attach"}
    <3>1. CASE h' = [h EXCEPT !.add = @ \ {p}]
      BY <2>1, <3>1 DEF TypeOK, HandlerOK
    <3>2. CASE p \in Vlans /\ h' = [h EXCEPT !.add = @ \ {p}, !.pc = "vlanLookup", !.port = p,
                                             !.link = ifindex[Parent[p]]]
      BY <3>2 DEF TypeOK, HandlerOK
    <3>3. CASE p \notin Vlans /\ h' = [h EXCEPT !.add = @ \ {p}, !.pc = "attach", !.port = p,
                                                !.link = ifindex[p]]
      BY <3>3 DEF TypeOK, HandlerOK
    <3> QED BY <2>2, <3>1, <3>2, <3>3
  <2> QED BY <1>a, <1>b, <2>1, <2>3, SameLinksStay
<1>2. CASE VlanLookup
  <2>1. CASE Panic("handler") BY <2>1, DeathKeepsMarks DEF Panic, Dies
  <2>2. CASE UNCHANGED registry /\ UNCHANGED links /\ h' = [h EXCEPT !.pc = "vlanAdd"]
    <3>1. h'.pc = "vlanAdd" BY <2>2 DEF TypeOK, HandlerOK
    <3> QED BY <1>2, <1>a, <1>b, <2>2, <3>1, SameLinksStay DEF VlanLookup
  <2>3. CASE UNCHANGED registry /\ UNCHANGED links /\ h' = ExistingVlan
    <3>1. h'.pc = "setPort" /\ h'.mark = "unmanaged"
      BY <2>3 DEF ExistingVlan, TypeOK, HandlerOK
    <3>2. ClaimsBacked' BY <3>1 DEF ClaimsBacked, Claims
    <3>3. h.pc = "vlanLookup" BY <1>2 DEF VlanLookup
    <3> QED BY <1>a, <2>3, <3>2, <3>3, SameLinksStay, StepKeepsMarks DEF Exempt
  <2> QED BY <1>2, <2>1, <2>2, <2>3 DEF VlanLookup
<1>d. ASSUME UNCHANGED registry, StaysPut, h'.pc = "setPort", h'.port = h.port, h'.name = h.name,
             h.name \in Bridges, h.port \in Ports, h.pc \notin {"forget", "unset"},
             Backed(h.name, h.port)', \A b \in Bridges : ~IsManaged(b, h.port)
      PROVE  MarksInv'
  <2>1. Sole(h.name, h.port)' BY <1>a, <1>d DEF Sole
  <2>2. ClaimsBacked' BY <1>d, <2>1 DEF ClaimsBacked
  <2> QED BY <1>a, <1>d, <2>2, StepKeepsMarks DEF Exempt
<1>3. CASE VlanLinkAdd
  <2>1. h.port \in Vlans /\ h.pc = "vlanAdd" /\ h.name \in Bridges /\ h.port \in Links
        /\ h.port \in Ports /\ UNCHANGED registry
    BY <1>3 DEF TypeOK, HandlerOK, VlanLinkAdd, PortSteps, Links, Ports, Idle, Call
  <2>2. CASE h' = NextItem
    <3>1. StaysPut
      BY <1>3, <2>1, NewIndexFresh, LinkAddStays, SameLinksStay DEF VlanLinkAdd
    <3> QED BY <1>a, <1>b, <1>c, <2>1, <2>2, <3>1
  <2>3. CASE /\ ~Exists(h.port) /\ HaveFresh /\ LinkAdd(h.port, NewIndex(h.port))
             /\ h' = [h EXCEPT !.pc = "setPort", !.link = ifindex'[h.port], !.mark = "managed"]
    <3>1. h'.pc = "setPort" /\ h'.port = h.port /\ h'.name = h.name
      BY <2>3 DEF TypeOK, HandlerOK
    <3>2. NewIndex(h.port) \in Index BY <2>1, <2>3, NewIndexFresh
    <3>3. StaysPut BY <2>1, <2>3, <3>2, LinkAddStays
    <3>4. ifindex'[h.port] # 0 BY <2>1, <2>3, <3>2 DEF LinkAdd, TypeOK, LinksOK
    <3>5. Backed(h.name, h.port)' BY <2>1, <3>1, <3>4 DEF Backed, Exists
    <3>6. \A b \in Bridges : ~IsManaged(b, h.port)
      BY <2>1, <2>3 DEF MarksInv, MarksBacked, Backed, Exempt
    <3> QED BY <1>d, <2>1, <3>1, <3>3, <3>5, <3>6
  <2> QED BY <1>3, <2>2, <2>3 DEF VlanLinkAdd
<1>4. CASE Attach
  <2>1. h.port \in Nics \cup Vlans /\ h.pc = "attach" /\ h.name \in Bridges
        /\ h.port \in Ports /\ UNCHANGED registry /\ h.br # 0
    BY <1>4 DEF TypeOK, HandlerOK, Attach, PortSteps, Ports, Idle, Call
  <2>2. h.port \in Nics => master[h.port] = 0 BY <2>1 DEF PortMarksTrue
  <2>3. StaysPut BY <1>4, <2>1, <2>2, SetMasterStays, SameLinksStay DEF Attach, links, LinkSetMaster
  <2>4. CASE h' = NextItem BY <1>a, <1>b, <1>c, <2>1, <2>3, <2>4
  <2>5. CASE /\ h.port \notin Vlans /\ ifindex[h.name] = h.br
             /\ LinkSetMaster(h.port, h.br)
             /\ h' = [h EXCEPT !.pc = "setPort", !.mark = "managed"]
    <3>1. h'.pc = "setPort" /\ h'.port = h.port /\ h'.name = h.name
      BY <2>5 DEF TypeOK, HandlerOK
    <3>2. master'[h.port] = h.br /\ ifindex' = ifindex
      BY <2>1, <2>5 DEF LinkSetMaster, TypeOK, LinksOK
    <3>3. Backed(h.name, h.port)' BY <2>1, <2>5, <3>1, <3>2 DEF Backed, Holds, Exists
    <3>4. \A b \in Bridges : ~IsManaged(b, h.port)
      BY <2>1, <2>2, <2>5 DEF MarksInv, MarksBacked, Backed, Holds, Exists, Exempt
    <3> QED BY <1>d, <2>1, <2>3, <3>1, <3>3, <3>4
  <2> QED BY <1>4, <2>4, <2>5 DEF Attach
<1>5. ASSUME h.pc \in {"setPort", "writePort"}, h' = AfterSetPort
      PROVE  h'.pc \in {"reconcile", "attach"}
  BY <1>5 DEF AfterSetPort, NextItem, TypeOK, HandlerOK
<1>6. CASE SetPortManagement
  <2>1. UNCHANGED registry /\ h.pc = "setPort" /\ UNCHANGED links BY <1>6 DEF SetPortManagement
  <2>2. h.port \in Nics \cup Vlans /\ h.name \in Bridges
    BY <2>1 DEF TypeOK, HandlerOK, PortSteps, Idle, Call
  <2>3. CASE h' = AfterSetPort BY <1>5, <1>a, <1>b, <2>1, <2>3, SameLinksStay
  <2>4. CASE h' = [h EXCEPT !.pc = "writePort"]
    <3>1. h'.pc = "writePort" /\ h'.port = h.port /\ h'.mark = h.mark /\ h'.name = h.name
      BY <2>4 DEF TypeOK, HandlerOK
    <3>2. Claims' => Backed(h.name, h.port)'
      BY <2>1, <2>2, <3>1, SameLinksStay DEF Claims, MarksInv, ClaimsBacked, StaysPut
    <3>3. Claims' => Sole(h.name, h.port)'
      BY <1>a, <2>1, <2>2, <3>1 DEF Claims, MarksInv, ClaimsBacked, Sole, Ports
    <3>4. ClaimsBacked' BY <3>1, <3>2, <3>3 DEF ClaimsBacked
    <3> QED BY <1>a, <2>1, <3>4, SameLinksStay, StepKeepsMarks DEF Exempt
  <2> QED BY <1>6, <2>3, <2>4 DEF SetPortManagement
<1>7. CASE SetPortLocked
  <2>1. h.pc = "writePort" /\ WritePort(h.name, h.port, h.mark) /\ h' = AfterSetPort
        /\ UNCHANGED links
    BY <1>7 DEF SetPortLocked
  <2>2. h.port \in Nics \cup Vlans /\ h.name \in Bridges /\ h.port \in Ports
    BY <2>1 DEF TypeOK, HandlerOK, PortSteps, Ports, Idle, Call
  <2>3. \A b \in Bridges, p \in Ports :
          IsManaged(b, p)' => \/ IsManaged(b, p)
                              \/ b = h.name /\ p = h.port /\ h.mark = "managed"
    BY <2>1 DEF WritePort, IsManaged, TypeOK, RegistryOK
  <2>4. h.mark = "managed" => Backed(h.name, h.port) /\ Sole(h.name, h.port)
    BY <2>1 DEF MarksInv, ClaimsBacked, Claims
  <2>5. OneManager'
    BY <2>2, <2>3, <2>4 DEF MarksInv, OneManager, Sole
  <2>6. MarksBacked'
    BY <2>1, <2>2, <2>3, <2>4, SameLinksStay DEF MarksInv, MarksBacked, StaysPut, Exempt, Ports
  <2>7. VethsUnmanaged' BY <2>2, <2>3 DEF MarksInv, VethsUnmanaged, Ports
  <2>8. ClaimsBacked' BY <1>5, <2>1 DEF ClaimsBacked, Claims
  <2> QED BY <2>5, <2>6, <2>7, <2>8 DEF MarksInv
<1> QED BY <1>1, <1>2, <1>3, <1>4, <1>6, <1>7

\* Every step, of any goroutine and of anybody else.
LEMMA MarksStep ==
  ASSUME TypeOK, LinksConsistent, PortMarksTrue, MarksInv, Outside \subseteq Veths, [Next]_vars
  PROVE  MarksInv'
<1>1. CASE Handler BY <1>1, OutsideLoopsMarks, RemovingMarks, AddingMarks
<1>2. ASSUME UNCHANGED links, UNCHANGED h, FewerMarks PROVE MarksInv'
  BY <1>2, SameLinksStay, QuietStepKeepsMarks
<1>3. CASE PortWatch
  <2>1. FewerMarks BY <1>3, WatchMarks
  <2>2. (UNCHANGED links /\ UNCHANGED h) \/ (h' = Idle /\ RegistryLost)
    BY <1>3 DEF PortWatch, WatchLinks, WatchNewPort, WatchRecord, WatchBridges,
                WatchBridge, WatchLookup,
                WatchPort, WatchRemove, WatchPortsDone, WatchDone, WatchFrame, Panic, Dies
  <2> QED BY <1>2, <2>1, <2>2, DeathKeepsMarks
<1>4. CASE BridgeWatch \/ Crash
  BY <1>4, DeathKeepsMarks DEF BridgeWatch, Crash, Panic, Dies
<1>5. CASE Informer \/ Restart \/ Users
  <2>1. UNCHANGED links /\ UNCHANGED h /\ UNCHANGED registry
    BY <1>5 DEF Informer, Sync, Restart, Users, Configure, Relabel
  <2> QED BY <1>2, <2>1, SameMarks
<1>6. CASE Others
  <2>1. PICK v \in Veths : PodStep(v)
    BY <1>6 DEF Others, PodStep, OutsideAdd, OutsideDel, OutsideAttach, OutsideDetach
  <2>2. h' = h /\ FewerMarks
    BY <1>6, SameMarks
       DEF Others, OutsideAdd, OutsideDel, OutsideAttach, OutsideDetach, OutsideFrame
  <2> QED BY <2>1, <2>2, PodStepStays, QuietStepKeepsMarks
<1>7. CASE UNCHANGED vars
  <2>1. UNCHANGED links /\ UNCHANGED h /\ UNCHANGED registry BY <1>7 DEF vars
  <2> QED BY <1>2, <2>1, SameMarks
<1> QED BY <1>1, <1>3, <1>4, <1>5, <1>6, <1>7 DEF Next

\* At first nothing is marked.
LEMMA InitMarksInv == Init => MarksInv
<1> SUFFICES ASSUME Init PROVE MarksInv
  OBVIOUS
<1>1. h.pc = "idle" BY DEF Init, Idle, Call
<1>2. \A b \in Bridges, p \in Ports : ~IsManaged(b, p)
  BY DEF Init, RegistryInit, NoPorts, IsManaged
<1> QED
  BY <1>1, <1>2 DEF MarksInv, OneManager, MarksBacked, VethsUnmanaged, ClaimsBacked, Claims, Ports

\* Under any faults: no port is marked managed in the maps of two bridges, as long as
\* others touch only pod interfaces.
THEOREM OneManagerCorrect ==
  ASSUME Outside \subseteq Veths
  PROVE  Spec => []OneManager
<1>1. TypeOK /\ LinksConsistent /\ PortMarksTrue /\ MarksInv /\ [Next]_vars => MarksInv'
  BY MarksStep
<1>2. MarksInv => OneManager BY DEF MarksInv
<1> QED BY InitMarksInv, TypeCorrect, PortMarksCorrect, <1>1, <1>2, PTL DEF Spec

\* And an interface that is marked managed is on the bridge that has the mark, put there
\* by a daemon, but between the step that gives it up and the one that forgets it.
THEOREM ManagedPortsAttached ==
  ASSUME Outside \subseteq Veths
  PROVE  Spec => []ManagedPortIsAttached
<1>1. TypeOK /\ LinksConsistent /\ PortMarksTrue /\ MarksInv /\ [Next]_vars => MarksInv'
  BY MarksStep
<1>2. TypeOK /\ LinksConsistent /\ PortMarksTrue /\ MarksInv => ManagedPortIsAttached
  <2> SUFFICES ASSUME TypeOK, LinksConsistent, PortMarksTrue, MarksInv,
                      NEW b \in Bridges, NEW p \in Nics, IsManaged(b, p)
               PROVE  \/ Exists(b) /\ master[p] = ifindex[b] /\ p \in joined
                      \/ h.name = b /\ h.port = p /\ h.pc = "forget"
                      \/ h.name = b /\ h.pc = "unset"
    BY DEF ManagedPortIsAttached
  <2>1. Holds(b, p) \/ Exempt(b, p) BY DEF MarksInv, MarksBacked, Backed
  <2>2. master[p] # 0 => p \in joined BY DEF PortMarksTrue, SafeToRemove, SafeToDetach
  <2> QED BY <2>1, <2>2 DEF Exempt, Holds, Exists
<1> QED BY InitMarksInv, TypeCorrect, PortMarksCorrect, <1>1, <1>2, PTL DEF Spec

=============================================================================
