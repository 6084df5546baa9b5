-------------------------- MODULE BridgeDaemonProofs --------------------------
(***************************************************************************)
(* Type correctness of BridgeDaemon, for every value of the constants. One *)
(* lemma per group of actions; under each action one step per part of      *)
(* TypeOK that the action can disturb.                                     *)
(***************************************************************************)
EXTENDS BridgeDaemon, TLAPS, SequenceTheorems

\* netlink.LinkAdd keeps the table of links well typed.
LEMMA LinkAddOK ==
  ASSUME LinksOK, NEW l \in Links, NEW i \in Index, LinkAdd(l, i)
  PROVE  LinksOK'
BY LinkAssumption DEF LinksOK, LinkAdd

\* So does netlink.LinkSetMaster, for a live bridge or for none.
LEMMA LinkSetMasterOK ==
  ASSUME LinksOK, NEW p \in Ports, NEW i \in Index \cup {0}, LinkSetMaster(p, i)
  PROVE  LinksOK'
BY LinkAssumption DEF LinksOK, LinkSetMaster

\* So does netlink.LinkDel, whatever vlan interfaces go with the link.
LEMMA LinkDelOK ==
  ASSUME LinksOK, NEW l \in Links, LinkDel(l)
  PROVE  LinksOK'
BY LinkAssumption DEF LinksOK, LinkDel

\* A new link gets an index that no link has and no goroutine still holds.
LEMMA NewIndexFresh ==
  ASSUME HaveFresh, NEW l \in Links
  PROVE  NewIndex(l) \in Index \ InUse
BY LinkAssumption DEF HaveFresh, NewIndex

\* A link that exists has an interface index.
LEMMA IndexOfLink ==
  ASSUME LinksOK, NEW l \in Links, Exists(l)
  PROVE  ifindex[l] \in Index /\ ifindex[l] # 0
BY DEF LinksOK, Exists

\* The handler between two notifications is well typed.
LEMMA IdleOK == ASSUME h' = Idle PROVE HandlerOK'
BY LinkAssumption DEF HandlerOK, Idle, Call, PortSteps, Mark, Ports, Links

\* The handler's locals are a record, whatever is in it.
LEMMA HandlerHasPc == ASSUME TypeOK PROVE "pc" \in DOMAIN h
BY DEF TypeOK, HandlerOK

\* The handler that goes on to the next item of its list is well typed.
LEMMA NextItemOK ==
  ASSUME HandlerOK, h.pc \in PortSteps \cup {"reconcile"}, h' = NextItem
  PROVE  HandlerOK'
<1>1. h.name # NoLink /\ h.br # 0 BY DEF HandlerOK, PortSteps, Idle, Call
<1>2. h' = [h EXCEPT !.pc = "reconcile", !.port = NoLink, !.link = 0, !.slave = 0,
                     !.mark = "absent"]
  BY DEF NextItem
<1>3. /\ h' \in [DOMAIN h -> {h'[f] : f \in DOMAIN h}]
      /\ h'.pc = "reconcile" /\ h'.port = NoLink /\ h'.link = 0 /\ h'.slave = 0
      /\ h'.mark = "absent" /\ h'.br = h.br /\ h'.name = h.name
  BY <1>2 DEF HandlerOK
<1>4. NoLink \notin Nics \cup Vlans BY LinkAssumption DEF Links, Ports
<1> QED BY <1>1, <1>2, <1>3, <1>4 DEF HandlerOK, PortSteps, Mark

\* SetBridgeManagement gives a bridge its mark and its map of ports together.
LEMMA SetBridgeRegistryOK ==
  ASSUME RegistryOK, NEW b \in Bridges, NEW mark \in Mark \ {"absent"},
         SetBridgeManagement(b, mark)
  PROVE  RegistryOK'
BY DEF RegistryOK, SetBridgeManagement, Mark, NoPorts, registry

\* UnsetBridgeManagement takes both away together.
LEMMA UnsetRegistryOK ==
  ASSUME RegistryOK, NEW b \in Bridges, UnsetBridgeManagement(b)
  PROVE  RegistryOK'
BY DEF RegistryOK, UnsetBridgeManagement, Mark, NoPorts

\* Recording a port of a bridge that has a map keeps the registry well formed.
LEMMA WritePortRegistryOK ==
  ASSUME RegistryOK, NEW b \in portMaps, NEW p \in Ports, NEW mark \in Mark,
         WritePort(b, p, mark)
  PROVE  RegistryOK'
BY DEF RegistryOK, WritePort, Mark, NoPorts

\* So does removing one, whether or not the bridge has a map.
LEMMA RemovePortRegistryOK ==
  ASSUME RegistryOK, NEW b \in Bridges, NEW p \in Ports, RemovePortManagement(b, p)
  PROVE  RegistryOK'
BY DEF RegistryOK, RemovePortManagement, Mark, NoPorts

\* The empty registry of a new process is well formed.
LEMMA RegistryLostOK == ASSUME RegistryLost PROVE RegistryOK'
BY DEF RegistryOK, RegistryLost, Mark, NoPorts

\* Links nobody touches stay well typed.
LEMMA LinksFrame == ASSUME LinksOK, UNCHANGED links PROVE LinksOK'
BY DEF LinksOK, links

\* A registry nobody writes stays well formed.
LEMMA RegistryFrame == ASSUME RegistryOK, UNCHANGED registry PROVE RegistryOK'
BY DEF RegistryOK, registry, NoPorts

\* The API server, the store and the queue stay well typed when they stay.
LEMMA InformerFrame == ASSUME InformerOK, UNCHANGED <<conf, informer>> PROVE InformerOK'
BY DEF InformerOK, conf, informer

\* The port watch stays well typed when it rests.
LEMMA WatchFrameOK == ASSUME WatchOK, UNCHANGED w PROVE WatchOK'
BY DEF WatchOK

\* The handler stays well typed when it rests and no bridge is added or dropped.
LEMMA HandlerFrameOK == ASSUME HandlerOK, UNCHANGED <<h, portMaps>> PROVE HandlerOK'
BY DEF HandlerOK, Idle, Call

\* The parts of TypeOK that a step of the handler leaves alone.
LEMMA HandlerFrameTypes ==
  ASSUME TypeOK, HandlerFrame
  PROVE  InformerOK' /\ WatchOK' /\ up' \in {"running", "killed"} \cup Panics
BY InformerFrame, WatchFrameOK DEF TypeOK, HandlerFrame

\* After a panic in any goroutine the state is well typed: all of it but the
\* links and the API server is new.
LEMMA PanicTypes ==
  ASSUME TypeOK, NEW where \in Panics, Panic(where)
  PROVE  TypeOK'
<1>1. LinksOK' BY LinksFrame DEF TypeOK, Panic
<1>2. RegistryOK' BY RegistryLostOK DEF Panic, Dies
<1>3. InformerOK'
  <2>1. <<>> \in Seq(Notifications) /\ Len(<<>>) <= MaxQueue
    BY DaemonAssumption, EmptySeq
  <2> QED BY <2>1 DEF TypeOK, InformerOK, Panic, Dies, conf, Specs
<1>4. HandlerOK' BY IdleOK DEF Panic, Dies
<1>5. WatchOK' BY LinkAssumption DEF Panic, Dies, WatchOK, Asleep, Ports, Links
<1> QED BY <1>1, <1>2, <1>3, <1>4, <1>5 DEF TypeOK, Panic, Dies, history

\* Which configurations a notification carries.
LEMMA NotificationTypes ==
  ASSUME TypeOK, queue # <<>>
  PROVE  /\ Head(queue) \in Notifications
         /\ Tail(queue) \in Seq(Notifications)
         /\ Len(Tail(queue)) <= MaxQueue
BY DaemonAssumption, HeadTailProperties DEF TypeOK, InformerOK

\* Taking a notification off the queue types everything but the handler itself.
LEMMA TakesNextTypes ==
  ASSUME TypeOK, TakesNext, HandlerOK'
  PROVE  TypeOK'
<1>1. InformerOK'
  BY NotificationTypes DEF TypeOK, InformerOK, TakesNext, conf
<1> QED
  BY <1>1, LinksFrame, RegistryFrame, WatchFrameOK DEF TypeOK, TakesNext, history

\* A call of a handler, with any lists of ports of the configurations, is well
\* typed.
LEMMA CallOK ==
  ASSUME NEW pc \in {"isConfigured", "bridgeUpdate", "unconfigured"}, NEW b \in Bridges,
         NEW rem \in SUBSET (Nics \cup Vlans), NEW add \in SUBSET (Nics \cup Vlans),
         NEW del \in BOOLEAN, h' = Call(pc, b, rem, add, del)
  PROVE  HandlerOK'
BY LinkAssumption DEF HandlerOK, Call, PortSteps, Mark, Ports, Links

\* OnBridgeConfigAdd, OnBridgeConfigUpdate and OnBridgeConfigDelete keep the
\* types, whichever branch they take.
LEMMA OnBridgeConfigTypes ==
  ASSUME TypeOK, OnBridgeConfigAdd \/ OnBridgeConfigUpdate \/ OnBridgeConfigDelete
  PROVE  TypeOK'
<1> DEFINE ev == Head(queue)
<1>1. TakesNext /\ queue # <<>>
  BY DEF OnBridgeConfigAdd, OnBridgeConfigUpdate, OnBridgeConfigDelete, TakesNext
<1>2. ev \in Notifications BY <1>1, NotificationTypes
<1>3. ev.name \in Bridges /\ ev.old \in Specs /\ ev.new \in Specs /\ ev.old # ev.new
  BY <1>2 DEF Notifications
<1>4. \A c \in Specs \ {NoConf} : c.ports \in SUBSET (Nics \cup Vlans)
  BY DaemonAssumption DEF Specs
<1>5. ASSUME NEW c \in Specs \ {NoConf}, h' = Unconfigured(ev.name, c) PROVE HandlerOK'
  BY <1>3, <1>4, <1>5, CallOK DEF Unconfigured
<1>6. ASSUME ev.new # NoConf, h' = Configured(ev) PROVE HandlerOK'
  BY <1>3, <1>4, <1>6, CallOK DEF Configured
<1>7. ASSUME ev.new # NoConf, ev.old # NoConf, h' = Updated(ev) PROVE HandlerOK'
  <2>1. ev.old.ports \ ev.new.ports \in SUBSET (Nics \cup Vlans)
        /\ ev.new.ports \ ev.old.ports \in SUBSET (Nics \cup Vlans)
    BY <1>3, <1>4, <1>7
  <2> QED BY <1>3, <1>7, <2>1, CallOK DEF Updated
<1>8. HandlerOK'
  <2>1. CASE OnBridgeConfigAdd
    BY <1>3, <1>6, <2>1, IdleOK DEF OnBridgeConfigAdd
  <2>2. CASE OnBridgeConfigUpdate
    BY <1>3, <1>5, <1>6, <1>7, <2>2, IdleOK DEF OnBridgeConfigUpdate
  <2>3. CASE OnBridgeConfigDelete
    BY <1>3, <1>5, <2>3, IdleOK DEF OnBridgeConfigDelete
  <2> QED BY <2>1, <2>2, <2>3
<1> QED BY <1>1, <1>8, TakesNextTypes

\* The steps of the handler that touch neither the links nor the registry.
LEMMA LocalStepTypes ==
  ASSUME TypeOK, HandlerOK', UNCHANGED <<links, registry, history>>, HandlerFrame
  PROVE  TypeOK'
BY HandlerFrameTypes, LinksFrame, RegistryFrame DEF TypeOK, history

\* The steps of bridgeIsConfigured, SetBridgeManagement, bridgeConfigured and
\* the lookups keep the types.
LEMMA ConfigureTypes ==
  ASSUME TypeOK,
         IsConfigured \/ SetBridge \/ BridgeLinkAdd \/ BridgeLinkUp
           \/ bridgeUpdate \/ bridgeUnconfigured
  PROVE  TypeOK'
<1> USE DEF At
<1>1. CASE IsConfigured
  <2>1. PICK mark \in {"managed", "unmanaged"} :
          h' = [h EXCEPT !.pc = "setBridge", !.mark = mark]
    BY <1>1, Zenon DEF IsConfigured, MarkOf
  <2>2. HandlerOK'
    BY <1>1, <2>1 DEF TypeOK, IsConfigured, HandlerOK, PortSteps, Mark
  <2> QED BY <1>1, <2>2, LocalStepTypes DEF IsConfigured
<1>2. CASE SetBridge
  <2>1. h.name \in Bridges /\ h.mark \in Mark \ {"absent"}
    BY <1>2 DEF TypeOK, HandlerOK, SetBridge
  <2>2. RegistryOK'
    BY <1>2, <2>1, SetBridgeRegistryOK DEF TypeOK, SetBridge
  <2>3. HandlerOK'
    BY <1>2 DEF TypeOK, SetBridge, HandlerOK, PortSteps, Mark
  <2>4. WatchOK'
    <3>1. PICK skipped \in SUBSET (w.left \cap ({h.name} \ portMaps)) :
            w' = [w EXCEPT !.left = @ \ skipped]
      BY <1>2 DEF SetBridge
    <3> QED BY <3>1 DEF TypeOK, WatchOK
  <2> QED
    BY <1>2, <2>2, <2>3, <2>4, LinksFrame, InformerFrame DEF TypeOK, SetBridge, history
<1>3. CASE BridgeLinkAdd
  <2>0. h.name \in Bridges
    BY <1>3 DEF TypeOK, HandlerOK, BridgeLinkAdd
  <2>1. CASE LinkAdd(h.name, NewIndex(h.name)) /\ HaveFresh
             /\ made' = made \cup {ifindex'[h.name]}
             /\ h' = [h EXCEPT !.pc = "linkUp", !.br = ifindex'[h.name]]
    <3>1. NewIndex(h.name) \in Index BY <2>0, <2>1, NewIndexFresh DEF Links
    <3>2. LinksOK' BY <2>0, <2>1, <3>1, LinkAddOK DEF TypeOK, Links
    <3>3. ifindex'[h.name] \in Index
      BY <2>0, <2>1, <3>1 DEF LinkAdd, TypeOK, LinksOK, Links
    <3>4. HandlerOK'
      BY <1>3, <2>0, <2>1, <3>3, LinkAssumption
         DEF TypeOK, BridgeLinkAdd, HandlerOK, PortSteps, Mark
    <3> QED
      BY <1>3, <2>1, <3>2, <3>3, <3>4, HandlerFrameTypes, RegistryFrame
         DEF TypeOK, BridgeLinkAdd
  <2>2. CASE h' = Idle /\ UNCHANGED <<links, made>>
    BY <1>3, <2>2, IdleOK, LocalStepTypes DEF BridgeLinkAdd, history
  <2> QED BY <1>3, <2>1, <2>2 DEF BridgeLinkAdd
<1>4. CASE BridgeLinkUp
  <2>1. HandlerOK'
    BY <1>4, IdleOK DEF TypeOK, BridgeLinkUp, HandlerOK, PortSteps, Mark
  <2> QED BY <1>4, <2>1, LocalStepTypes DEF BridgeLinkUp
<1>5. ASSUME NEW pc \in {"bridgeUpdate", "unconfigured"},
             NEW failed, LookupBridge(pc, failed), h' = failed => HandlerOK'
      PROVE  TypeOK'
  <2>1. ASSUME Exists(h.name), h' = [h EXCEPT !.pc = "reconcile", !.br = ifindex[h.name]]
        PROVE  HandlerOK'
    BY <1>5, <2>1 DEF TypeOK, LookupBridge, HandlerOK, LinksOK, Exists, Links, PortSteps, Mark
  <2> QED BY <1>5, <2>1, LocalStepTypes DEF LookupBridge
<1>6. CASE bridgeUpdate
  BY <1>5, <1>6, IdleOK DEF bridgeUpdate
<1>7. CASE bridgeUnconfigured
  <2>1. h' = [h EXCEPT !.pc = "unset"] => HandlerOK'
    BY <1>7 DEF TypeOK, bridgeUnconfigured, LookupBridge, HandlerOK, PortSteps, Mark
  <2> QED BY <1>5, <1>7, <2>1 DEF bridgeUnconfigured
<1> QED BY <1>1, <1>2, <1>3, <1>4, <1>6, <1>7

\* The loop bodies over tobeRemove (bridgeconfig.go:179-197, 253-277) keep the
\* types.
LEMMA RemoveTypes ==
  ASSUME TypeOK, RemoveItem \/ LookupPort \/ Detach \/ VlanLinkDel \/ Forget
  PROVE  TypeOK'
<1> USE DEF At
<1>1. CASE RemoveItem
  <2>1. PICK p \in h.rem, pc \in {"lookup", "forget"} :
          h' = [h EXCEPT !.rem = @ \ {p}, !.port = p, !.pc = pc]
    BY <1>1, Zenon DEF RemoveItem
  <2>2. h.pc = "reconcile" BY <1>1 DEF RemoveItem
  <2>3. p \in Nics \cup Vlans /\ p # NoLink
    BY <2>1, LinkAssumption DEF TypeOK, HandlerOK, Ports, Links
  <2>4. CASE pc = "lookup"
    <3>1. HandlerOK' BY <2>1, <2>2, <2>3, <2>4 DEF TypeOK, HandlerOK, PortSteps
    <3> QED BY <1>1, <3>1, LocalStepTypes DEF RemoveItem
  <2>5. CASE pc = "forget"
    <3>1. HandlerOK' BY <2>1, <2>2, <2>3, <2>5 DEF TypeOK, HandlerOK, PortSteps
    <3> QED BY <1>1, <3>1, LocalStepTypes DEF RemoveItem
  <2> QED BY <2>1, <2>4, <2>5
<1>2. CASE LookupPort
  <2>1. h.port \in Nics \cup Vlans
    BY <1>2 DEF TypeOK, HandlerOK, LookupPort, PortSteps
  <2>2. h.pc = "lookup" BY <1>2 DEF LookupPort
  <2>3. CASE Exists(h.port) /\ h' = [h EXCEPT !.pc = "detach", !.link = ifindex[h.port]]
    <3>1. ifindex[h.port] \in Index /\ ifindex[h.port] # 0
      BY <2>1, <2>3, IndexOfLink DEF TypeOK, Links, Ports
    <3>2. HandlerOK' BY <2>1, <2>2, <2>3, <3>1 DEF TypeOK, HandlerOK, PortSteps
    <3> QED BY <1>2, <3>2, LocalStepTypes DEF LookupPort
  <2>4. CASE h' = NextItem
    <3>1. HandlerOK' BY <2>2, <2>4, NextItemOK DEF TypeOK, PortSteps
    <3> QED BY <1>2, <3>1, LocalStepTypes DEF LookupPort
  <2> QED BY <1>2, <2>3, <2>4 DEF LookupPort
<1>3. CASE Detach
  <2>1. h.port \in Nics \cup Vlans
    BY <1>3 DEF TypeOK, HandlerOK, Detach, PortSteps
  <2>2. LinksOK'
    BY <1>3, <2>1, LinkSetMasterOK, LinksFrame
       DEF TypeOK, Detach, LinkSetNoMaster, Ports
  <2>3. HandlerOK'
    BY <1>3, <2>1, NextItemOK DEF TypeOK, Detach, HandlerOK, PortSteps, Mark
  <2> QED
    BY <1>3, <2>2, <2>3, HandlerFrameTypes, RegistryFrame DEF TypeOK, Detach, Keep
<1>4. CASE VlanLinkDel
  <2>1. h.port \in Nics \cup Vlans
    BY <1>4 DEF TypeOK, HandlerOK, VlanLinkDel, PortSteps
  <2>2. LinksOK'
    BY <1>4, <2>1, LinkDelOK, LinksFrame DEF TypeOK, VlanLinkDel, Ports, Links
  <2>3. HandlerOK'
    BY <1>4, <2>1, NextItemOK DEF TypeOK, VlanLinkDel, HandlerOK, PortSteps, Mark
  <2> QED
    BY <1>4, <2>2, <2>3, HandlerFrameTypes, RegistryFrame DEF TypeOK, VlanLinkDel, Keep, Live
<1>5. CASE Forget
  <2>1. h.name \in Bridges /\ h.port \in Ports
    BY <1>5 DEF TypeOK, HandlerOK, Forget, PortSteps, Ports
  <2>2. RegistryOK' BY <1>5, <2>1, RemovePortRegistryOK DEF TypeOK, Forget
  <2>3. HandlerOK' BY <1>5, NextItemOK DEF TypeOK, Forget, PortSteps
  <2> QED
    BY <1>5, <2>2, <2>3, HandlerFrameTypes, LinksFrame DEF TypeOK, Forget, history
<1> QED BY <1>1, <1>2, <1>3, <1>4, <1>5

\* The loop bodies over tobeAdd (bridgeconfig.go:199-221, 278-326) keep the
\* types; here writePort needs the bridge's map to be still there.
LEMMA AddTypes ==
  ASSUME TypeOK,
         AddItem \/ VlanLookup \/ VlanLinkAdd \/ Attach \/ SetPortManagement \/ SetPortLocked
  PROVE  TypeOK'
<1> USE DEF At
<1>1. CASE AddItem
  <2>1. PICK p \in h.add :
          LET l == IF p \in Vlans THEN Parent[p] ELSE p
              next == [h EXCEPT !.add = @ \ {p}]
          IN \/ /\ Exists(l)
                /\ h' = [next EXCEPT !.pc = IF p \in Vlans THEN "vlanLookup" ELSE "attach",
                                     !.port = p, !.link = ifindex[l]]
             \/ h' = next
    BY <1>1 DEF AddItem, Attachable
  <2>2. p \in Nics \cup Vlans BY <2>1, <1>1 DEF TypeOK, HandlerOK
  <2>3. (IF p \in Vlans THEN Parent[p] ELSE p) \in Nics
    BY <2>2, LinkAssumption
  <2>4. h.pc = "reconcile" BY <1>1 DEF AddItem
  <2>5. HandlerOK'
    <3> DEFINE l == IF p \in Vlans THEN Parent[p] ELSE p
               next == [h EXCEPT !.add = @ \ {p}]
    <3>1. l \in Nics BY <2>3
    <3>2. CASE h' = next
      BY <2>2, <2>4, <3>2 DEF TypeOK, HandlerOK, PortSteps
    <3>3. ASSUME NEW pc \in {"vlanLookup", "attach"}, pc = "vlanLookup" => p \in Vlans, Exists(l),
                 h' = [next EXCEPT !.pc = pc, !.port = p, !.link = ifindex[l]]
          PROVE  HandlerOK'
      <4>1. ifindex[l] \in Index /\ ifindex[l] # 0
        BY <3>1, <3>3, IndexOfLink DEF TypeOK, Links, Ports
      <4>2. p # NoLink BY <2>2, LinkAssumption DEF Ports, Links
      <4> HIDE DEF l
      <4>3. CASE pc = "vlanLookup"
        BY <2>2, <2>4, <3>3, <4>1, <4>2, <4>3 DEF TypeOK, HandlerOK, PortSteps
      <4>4. CASE pc = "attach"
        BY <2>2, <2>4, <3>3, <4>1, <4>2, <4>4 DEF TypeOK, HandlerOK, PortSteps
      <4> QED BY <4>3, <4>4
    <3> QED BY <2>1, <3>2, <3>3
  <2> QED BY <1>1, <2>5, LocalStepTypes DEF AddItem
<1>2. CASE VlanLookup
  <2>1. CASE Panic("handler")
    BY <2>1, PanicTypes DEF Panics
  <2>2. CASE /\ Exists(h.port) /\ h' = ExistingVlan
             /\ UNCHANGED <<links, registry, history>> /\ HandlerFrame
    <3>1. h.port \in Nics \cup Vlans /\ h.pc = "vlanLookup"
      BY <1>2 DEF TypeOK, HandlerOK, VlanLookup, PortSteps
    <3>2. ifindex[h.port] \in Index /\ ifindex[h.port] # 0 /\ master[h.port] \in Index \cup {0}
      BY <2>2, <3>1, IndexOfLink DEF TypeOK, LinksOK, Links, Ports
    <3>3. HandlerOK'
      BY <2>2, <3>1, <3>2 DEF TypeOK, ExistingVlan, HandlerOK, PortSteps, Mark
    <3> QED BY <2>2, <3>3, LocalStepTypes
  <2>3. CASE /\ h' = [h EXCEPT !.pc = "vlanAdd"]
             /\ UNCHANGED <<links, registry, history>> /\ HandlerFrame
    <3>1. HandlerOK'
      BY <1>2, <2>3 DEF TypeOK, VlanLookup, HandlerOK, PortSteps, Mark
    <3> QED BY <2>3, <3>1, LocalStepTypes
  <2> QED BY <1>2, <2>1, <2>2, <2>3 DEF VlanLookup
<1>3. CASE VlanLinkAdd
  <2>1. h.port \in Nics \cup Vlans
    BY <1>3 DEF TypeOK, HandlerOK, VlanLinkAdd, PortSteps
  <2>2. CASE /\ LinkAdd(h.port, NewIndex(h.port)) /\ HaveFresh
             /\ made' = made \cup {ifindex'[h.port]}
             /\ \/ h' = [h EXCEPT !.pc = "setPort", !.link = ifindex'[h.port],
                                  !.mark = "managed"]
                \/ h' = NextItem
    <3>1. h.port \in Links BY <2>1 DEF Links, Ports
    <3>2. NewIndex(h.port) \in Index BY <2>2, <3>1, NewIndexFresh
    <3>3. LinksOK' BY <2>2, <3>1, <3>2, LinkAddOK DEF TypeOK
    <3>4. ifindex'[h.port] \in Index
      BY <2>2, <3>1, <3>2 DEF LinkAdd, TypeOK, LinksOK
    <3>5. ifindex'[h.port] # 0 /\ h.pc = "vlanAdd"
      BY <1>3, <3>4, LinkAssumption DEF VlanLinkAdd
    <3>6. CASE h' = NextItem
      <4>1. HandlerOK' BY <3>5, <3>6, NextItemOK DEF TypeOK, PortSteps
      <4> QED
        BY <1>3, <2>2, <3>3, <3>4, <4>1, HandlerFrameTypes, RegistryFrame
           DEF TypeOK, VlanLinkAdd
    <3>7. CASE h' = [h EXCEPT !.pc = "setPort", !.link = ifindex'[h.port], !.mark = "managed"]
      <4>1. HandlerOK'
        BY <2>1, <3>4, <3>5, <3>7 DEF TypeOK, HandlerOK, PortSteps, Mark
      <4> QED
        BY <1>3, <2>2, <3>3, <3>4, <4>1, HandlerFrameTypes, RegistryFrame
           DEF TypeOK, VlanLinkAdd
    <3> QED BY <2>2, <3>6, <3>7
  <2>3. CASE h' = NextItem /\ UNCHANGED <<links, made>>
    BY <1>3, <2>3, NextItemOK, LocalStepTypes DEF TypeOK, VlanLinkAdd, history, PortSteps
  <2> QED BY <1>3, <2>2, <2>3 DEF VlanLinkAdd
<1>4. CASE Attach
  <2>1. h.port \in Nics \cup Vlans
    BY <1>4 DEF TypeOK, HandlerOK, Attach, PortSteps
  <2>2. LinksOK'
    BY <1>4, <2>1, LinkSetMasterOK, LinksFrame DEF TypeOK, HandlerOK, Attach, Ports
  <2>3. HandlerOK'
    <3>1. CASE h' = NextItem BY <1>4, <3>1, NextItemOK DEF TypeOK, Attach, PortSteps
    <3>2. CASE h' = [h EXCEPT !.pc = "setPort", !.mark = "managed"]
      BY <1>4, <2>1, <3>2 DEF TypeOK, Attach, HandlerOK, PortSteps, Mark
    <3> QED BY <1>4, <3>1, <3>2 DEF Attach
  <2> QED
    BY <1>4, <2>1, <2>2, <2>3, HandlerFrameTypes, RegistryFrame DEF TypeOK, Attach, Keep, Ports
<1>5. ASSUME h.pc \in {"setPort", "writePort"}, h' = AfterSetPort
      PROVE  HandlerOK'
  BY <1>5, NextItemOK DEF TypeOK, AfterSetPort, HandlerOK, PortSteps, Mark
<1>6. CASE SetPortManagement
  <2>1. HandlerOK'
    <3>1. CASE CanSetPort(h.name, h.port) /\ h' = [h EXCEPT !.pc = "writePort"]
      <4>1. h.pc = "setPort" /\ h.name \in portMaps /\ portMaps' = portMaps
        BY <1>6, <3>1 DEF SetPortManagement, CanSetPort, registry
      <4> QED BY <3>1, <4>1 DEF TypeOK, HandlerOK, PortSteps
    <3> QED BY <1>5, <1>6, <3>1 DEF SetPortManagement
  <2> QED BY <1>6, <2>1, LocalStepTypes DEF SetPortManagement
<1>7. CASE SetPortLocked
  <2>1. /\ h.name \in portMaps /\ h.port \in Ports /\ h.mark \in Mark
        /\ h.pc = "writePort" /\ portMaps' = portMaps
    BY <1>7 DEF TypeOK, HandlerOK, SetPortLocked, PortSteps, Ports, WritePort
  <2>2. RegistryOK'
    BY <1>7, <2>1, WritePortRegistryOK DEF TypeOK, SetPortLocked
  <2>3. HandlerOK' BY <1>5, <1>7, <2>1 DEF SetPortLocked
  <2>4. WatchOK'
    <3>1. PICK skipped \in SUBSET Skippable : w' = [w EXCEPT !.ports = @ \ skipped]
      BY <1>7 DEF SetPortLocked
    <3> QED BY <3>1 DEF TypeOK, WatchOK
  <2> QED
    BY <1>7, <2>2, <2>3, <2>4, LinksFrame, InformerFrame DEF TypeOK, SetPortLocked, history
<1> QED BY <1>1, <1>2, <1>3, <1>4, <1>6, <1>7

\* The end of bridgeUpdate and of bridgeUnconfigured, and UnsetBridgeManagement,
\* keep the types.
LEMMA FinishTypes ==
  ASSUME TypeOK, Reconciled \/ CheckPorts \/ BridgeLinkDel \/ UnsetBridge
  PROVE  TypeOK'
<1> USE DEF At
<1>1. CASE Reconciled
  <2>1. HandlerOK'
    BY <1>1, IdleOK DEF TypeOK, Reconciled, HandlerOK, PortSteps
  <2> QED BY <1>1, <2>1, LocalStepTypes DEF Reconciled
<1>2. CASE CheckPorts
  <2>1. PICK pc \in {"linkDel", "unset"} : h' = [h EXCEPT !.pc = pc]
    BY <1>2, Zenon DEF CheckPorts
  <2>2. h.pc = "checkPorts" BY <1>2 DEF CheckPorts
  <2>3. HandlerOK' BY <2>1, <2>2 DEF TypeOK, HandlerOK, PortSteps
  <2> QED BY <1>2, <2>3, LocalStepTypes DEF CheckPorts
<1>3. CASE BridgeLinkDel
  <2>1. h.name \in Bridges BY <1>3 DEF TypeOK, HandlerOK, BridgeLinkDel
  <2>2. LinksOK' BY <1>3, <2>1, LinkDelOK, LinksFrame DEF TypeOK, BridgeLinkDel, Links
  <2>3. HandlerOK' BY <1>3 DEF TypeOK, BridgeLinkDel, HandlerOK, PortSteps
  <2> QED
    BY <1>3, <2>2, <2>3, HandlerFrameTypes, RegistryFrame
       DEF TypeOK, BridgeLinkDel, Keep, Live
<1>4. CASE UnsetBridge
  <2>1. h.name \in Bridges BY <1>4 DEF TypeOK, HandlerOK, UnsetBridge
  <2>2. RegistryOK' BY <1>4, <2>1, UnsetRegistryOK DEF TypeOK, UnsetBridge
  <2>3. WatchOK'
    <3>1. PICK ports \in SUBSET Ports : w' = [w EXCEPT !.ports = ports]
      BY <1>4 DEF TypeOK, WatchOK, UnsetBridge
    <3> QED BY <3>1 DEF TypeOK, WatchOK
  <2> QED
    BY <1>4, <2>2, <2>3, IdleOK, LinksFrame, InformerFrame
       DEF TypeOK, UnsetBridge, history
<1> QED BY <1>1, <1>2, <1>3, <1>4

\* Every step of the handler goroutine keeps the types.
LEMMA HandlerTypes == ASSUME TypeOK, Handler PROVE TypeOK'
BY OnBridgeConfigTypes, ConfigureTypes, RemoveTypes, AddTypes, FinishTypes DEF Handler

\* What a step of the port watch leaves alone, if it is not a panic.
LEMMA WatchStepTypes ==
  ASSUME TypeOK, RegistryOK', WatchOK', UNCHANGED portMaps, WatchFrame
  PROVE  TypeOK'
BY LinksFrame, InformerFrame, HandlerFrameOK DEF TypeOK, WatchFrame, history

\* NoLink is neither a bridge nor a port.
LEMMA NoLinkIsNoName == \A l \in Bridges \cup Ports : l # NoLink
BY LinkAssumption DEF Links

\* Every step of bridgePortWatch keeps the types, panics included: it never adds
\* or drops the map of a bridge.
LEMMA PortWatchTypes == ASSUME TypeOK, PortWatch PROVE TypeOK'
<1> USE DEF WatchAt
<1>0. ASSUME WatchOK', UNCHANGED registry, WatchFrame PROVE TypeOK'
  BY <1>0, RegistryFrame, WatchStepTypes DEF TypeOK, registry
<1>1. CASE WatchLinks
  <2>1. PICK enslaved \in SUBSET {p \in Ports : master[p] # 0} :
          w' = [w EXCEPT !.pc = "scan",
                  !.snap = {[port |-> p, master |-> master[p]] : p \in enslaved}]
    BY <1>1 DEF WatchLinks
  <2> DEFINE snap == {[port |-> p, master |-> master[p]] : p \in enslaved}
  <2>2. snap \in SUBSET [port : Ports, master : Index] BY DEF TypeOK, LinksOK
  <2>3. w' = [w EXCEPT !.pc = "scan", !.snap = snap] BY <2>1
  <2>4. w.pc = "sleep" BY <1>1 DEF WatchLinks
  <2> HIDE DEF snap
  <2>5. WatchOK' BY <2>2, <2>3, <2>4 DEF TypeOK, WatchOK
  <2> QED BY <1>0, <1>1, <2>5 DEF WatchLinks
<1>2. CASE WatchNewPort
  <2>1. PICK s \in w.snap :
          \/ /\ \E b \in BridgeAt(s.master) :
                   w' = IF CanSetPort(b, s.port)
                        THEN [w EXCEPT !.pc = "record", !.br = b, !.port = s.port,
                                       !.snap = @ \ {s}]
                        ELSE [w EXCEPT !.snap = @ \ {s}]
             /\ UNCHANGED registry /\ WatchFrame
          \/ Panic("portWatch")
    BY <1>2 DEF WatchNewPort
  <2>2. w.pc = "scan" /\ s.port \in Ports /\ s.port # NoLink
    <3>1. s \in [port : Ports, master : Index] BY DEF TypeOK, WatchOK
    <3>2. w.pc = "scan" BY <1>2 DEF WatchNewPort
    <3> QED BY <3>1, <3>2, NoLinkIsNoName
  <2>3. ASSUME NEW b \in BridgeAt(s.master),
               w' = [w EXCEPT !.pc = "record", !.br = b, !.port = s.port, !.snap = @ \ {s}]
        PROVE  WatchOK'
    <3>1. b \in Bridges /\ b # NoLink BY LinkAssumption DEF BridgeAt, Links
    <3> QED BY <2>2, <2>3, <3>1 DEF TypeOK, WatchOK
  <2>4. ASSUME w' = [w EXCEPT !.snap = @ \ {s}] PROVE WatchOK'
    BY <2>2, <2>4 DEF TypeOK, WatchOK
  <2>5. CASE Panic("portWatch") BY <2>5, PanicTypes DEF Panics
  <2> QED BY <1>0, <2>1, <2>3, <2>4, <2>5
<1>3. CASE WatchRecord
  <2>1. CASE Panic("nilMap") BY <2>1, PanicTypes DEF Panics
  <2>2. CASE /\ w.br \in portMaps
             /\ WritePort(w.br, w.port, "unmanaged")
             /\ w' = [w EXCEPT !.pc = "scan", !.br = NoLink, !.port = NoLink]
             /\ WatchFrame
    <3>1. w.pc = "record" /\ w.port \in Ports
      BY <1>3 DEF TypeOK, WatchOK, WatchRecord
    <3>2. RegistryOK' /\ UNCHANGED portMaps
      BY <2>2, <3>1, WritePortRegistryOK DEF TypeOK, Mark, WritePort
    <3>3. WatchOK' BY <2>2, <3>1 DEF TypeOK, WatchOK
    <3> QED BY <2>2, <3>2, <3>3, WatchStepTypes
  <2> QED BY <1>3, <2>1, <2>2 DEF WatchRecord
<1>4. CASE WatchBridges
  <2>1. PICK left \in SUBSET Bridges : w' = [w EXCEPT !.pc = "bridges", !.left = left]
    BY <1>4 DEF TypeOK, RegistryOK, WatchBridges
  <2>2. w.pc = "scan" BY <1>4 DEF WatchBridges
  <2>3. WatchOK' BY <2>1, <2>2 DEF TypeOK, WatchOK
  <2> QED BY <1>0, <1>4, <2>3 DEF WatchBridges
<1>5. CASE WatchBridge
  <2>1. PICK b \in w.left \cap portMaps :
          w' = [w EXCEPT !.pc = "bridge", !.left = @ \ {b}, !.br = b, !.ports = Ports]
    BY <1>5 DEF WatchBridge
  <2>2. w.pc = "bridges" /\ b \in Bridges /\ b # NoLink
    <3>1. b \in Bridges BY DEF TypeOK, WatchOK
    <3>2. w.pc = "bridges" BY <1>5 DEF WatchBridge
    <3> QED BY <3>1, <3>2, NoLinkIsNoName
  <2>3. WatchOK' BY <2>1, <2>2 DEF TypeOK, WatchOK
  <2> QED BY <1>0, <1>5, <2>3 DEF WatchBridge
<1>10. CASE WatchLookup
  <2>1. CASE Panic("portWatch") BY <2>1, PanicTypes DEF Panics
  <2>2. ASSUME Exists(w.br), WatchFrame, UNCHANGED registry,
               NEW more \in SUBSET (w.ports \ Recorded(w.br)),
               w' = [w EXCEPT !.pc = "ports", !.idx = ifindex[w.br],
                              !.ports = (@ \cap Recorded(w.br)) \cup more]
        PROVE  TypeOK'
    <3>1. w.pc = "bridge" /\ w.br \in Bridges BY <1>10 DEF TypeOK, WatchOK, WatchLookup
    <3>2. ifindex[w.br] \in Index /\ ifindex[w.br] # 0
      BY <2>2, <3>1, LinkAssumption DEF TypeOK, LinksOK, Exists, Links
    <3>3. (w.ports \cap Recorded(w.br)) \cup more \in SUBSET Ports
      BY DEF TypeOK, WatchOK
    <3>4. WatchOK' BY <2>2, <3>1, <3>2, <3>3 DEF TypeOK, WatchOK
    <3> QED BY <1>0, <2>2, <3>4
  <2> QED BY <1>10, <2>1, <2>2 DEF WatchLookup
<1>6. CASE WatchPort
  <2>1. PICK p \in w.ports :
          LET next == [w EXCEPT !.ports = @ \ {p}]
          IN w' = next \/ w' = [next EXCEPT !.pc = "remove", !.port = p]
    BY <1>6 DEF WatchPort
  <2>2. w.pc = "ports" /\ p \in Ports /\ p # NoLink
    BY <1>6, LinkAssumption DEF TypeOK, WatchOK, WatchPort, Ports, Links
  <2>3. CASE w' = [w EXCEPT !.ports = @ \ {p}]
    <3>1. WatchOK' BY <2>2, <2>3 DEF TypeOK, WatchOK
    <3> QED BY <1>0, <1>6, <3>1 DEF WatchPort
  <2>4. CASE w' = [w EXCEPT !.ports = @ \ {p}, !.pc = "remove", !.port = p]
    <3>1. WatchOK' BY <2>2, <2>4 DEF TypeOK, WatchOK
    <3> QED BY <1>0, <1>6, <3>1 DEF WatchPort
  <2> QED BY <2>1, <2>3, <2>4
<1>7. CASE WatchRemove
  <2>1. w.br \in Bridges /\ w.port \in Ports BY <1>7 DEF TypeOK, WatchOK, WatchRemove
  <2>2. RegistryOK' /\ UNCHANGED portMaps
    BY <1>7, <2>1, RemovePortRegistryOK DEF TypeOK, WatchRemove, RemovePortManagement
  <2>3. WatchOK' BY <1>7 DEF TypeOK, WatchRemove, WatchOK
  <2> QED BY <1>7, <2>2, <2>3, WatchStepTypes DEF WatchRemove
<1>8. CASE WatchPortsDone
  <2>1. WatchOK' BY <1>8 DEF TypeOK, WatchPortsDone, WatchOK
  <2> QED BY <1>0, <1>8, <2>1 DEF WatchPortsDone
<1>9. CASE WatchDone
  <2>1. WatchOK' BY <1>9, LinkAssumption DEF WatchDone, WatchOK, Asleep, Ports, Links
  <2> QED BY <1>0, <1>9, <2>1 DEF WatchDone
<1> QED
  BY <1>1, <1>2, <1>3, <1>4, <1>5, <1>6, <1>7, <1>8, <1>9, <1>10 DEF PortWatch

\* The bridge watch, the informer, crashes, restarts, users and others keep the
\* types.
LEMMA EnvironmentTypes ==
  ASSUME TypeOK,
         BridgeWatch \/ Informer \/ Crash \/ Restart \/ Users \/ Others
  PROVE  TypeOK'
<1>1. CASE BridgeWatch BY <1>1, PanicTypes DEF BridgeWatch, Panics
<1>2. CASE Crash
  <2>1. InformerOK'
    <3>1. <<>> \in Seq(Notifications) /\ Len(<<>>) <= MaxQueue
      BY DaemonAssumption, EmptySeq
    <3> QED BY <1>2, <3>1 DEF TypeOK, InformerOK, Crash, Dies, conf, Specs
  <2>2. WatchOK' BY <1>2, LinkAssumption DEF Crash, Dies, WatchOK, Asleep, Ports, Links
  <2>3. HandlerOK' BY <1>2, IdleOK DEF Crash, Dies
  <2>4. RegistryOK' BY <1>2, RegistryLostOK DEF Crash, Dies
  <2> QED
    BY <1>2, <2>1, <2>2, <2>3, <2>4, LinksFrame DEF TypeOK, Crash, Dies, history
<1>3. CASE Restart
  BY <1>3, LinksFrame, RegistryFrame, InformerFrame, HandlerFrameOK, WatchFrameOK
     DEF TypeOK, Restart, history, registry
<1>4. ASSUME InformerOK', UNCHANGED <<links, registry, up, h, w, history>> PROVE TypeOK'
  BY <1>4, LinksFrame, RegistryFrame, HandlerFrameOK, WatchFrameOK
     DEF TypeOK, history, registry
<1>5. CASE Informer
  <2>1. PICK b \in Bridges : Sync(b) BY <1>5 DEF Informer
  <2>2. Event(b, store[b], api[b]) \in Notifications
    BY <2>1 DEF TypeOK, InformerOK, Sync, Event, Notifications
  <2>3. queue' \in Seq(Notifications) /\ Len(queue') <= MaxQueue
    BY <2>1, <2>2, AppendProperties, DaemonAssumption, LenProperties DEF TypeOK, InformerOK, Sync
  <2>4. InformerOK' BY <2>1, <2>3 DEF TypeOK, InformerOK, Sync, conf
  <2> QED BY <1>4, <2>1, <2>4 DEF Sync
<1>6. CASE Users
  <2>1. ASSUME NEW b \in Bridges, NEW c \in Confs \cup {NoConf}, Configure(b, c)
        PROVE  TypeOK'
    <3>1. InformerOK' BY <2>1 DEF TypeOK, InformerOK, Configure, informer, Specs
    <3> QED BY <1>4, <2>1, <3>1 DEF Configure
  <2>2. ASSUME NEW ls \in SUBSET Labels, Relabel(ls) PROVE TypeOK'
    <3>1. InformerOK' BY <2>2 DEF TypeOK, InformerOK, Relabel, informer
    <3> QED BY <1>4, <2>2, <3>1 DEF Relabel
  <2> QED BY <1>6, <2>1, <2>2 DEF Users
<1>7. CASE Others
  <2>1. ASSUME LinksOK', made' \subseteq Index, joined' \subseteq Ports, OutsideFrame
        PROVE  TypeOK'
    BY <2>1, RegistryFrame, InformerFrame, HandlerFrameOK, WatchFrameOK
       DEF TypeOK, OutsideFrame, registry
  <2>2. ASSUME NEW l \in Links, OutsideAdd(l) PROVE TypeOK'
    <3>1. LinksOK'
      BY <2>2, NewIndexFresh, LinkAddOK DEF TypeOK, OutsideAdd
    <3> QED BY <2>1, <2>2, <3>1 DEF OutsideAdd, TypeOK, history
  <2>3. ASSUME NEW l \in Links, OutsideDel(l) PROVE TypeOK'
    <3>1. LinksOK' BY <2>3, LinkDelOK DEF TypeOK, OutsideDel
    <3> QED BY <2>1, <2>3, <3>1 DEF OutsideDel, TypeOK, Keep, Live
  <2>4. ASSUME NEW p \in Ports, NEW b \in Bridges, OutsideAttach(p, b) PROVE TypeOK'
    <3>1. ifindex[b] \in Index \cup {0} BY DEF TypeOK, LinksOK, Links
    <3>2. LinksOK' BY <2>4, <3>1, LinkSetMasterOK DEF TypeOK, OutsideAttach
    <3> QED BY <2>1, <2>4, <3>2 DEF OutsideAttach, TypeOK, Keep
  <2>5. ASSUME NEW p \in Ports, OutsideDetach(p) PROVE TypeOK'
    <3>1. LinksOK'
      BY <2>5, LinkSetMasterOK DEF TypeOK, OutsideDetach, LinkSetNoMaster
    <3> QED BY <2>1, <2>5, <3>1 DEF OutsideDetach, TypeOK, Keep
  <2> QED BY <1>7, <2>2, <2>3, <2>4, <2>5 DEF Others
<1> QED BY <1>1, <1>2, <1>3, <1>5, <1>6, <1>7

\* The states the daemon is first deployed in are well typed.
LEMMA InitTypes == Init => TypeOK
<1> SUFFICES ASSUME Init PROVE TypeOK
  OBVIOUS
<1>1. LinksOK
  BY LinkAssumption DEF Init, LinksOK, Links
<1>2. RegistryOK BY DEF Init, RegistryInit, RegistryOK, Mark, NoPorts
<1>3. InformerOK
  <2>1. <<>> \in Seq(Notifications) /\ Len(<<>>) <= MaxQueue
    BY DaemonAssumption, EmptySeq
  <2> QED BY <2>1 DEF Init, InformerOK, Specs
<1>4. HandlerOK
  BY LinkAssumption DEF Init, HandlerOK, Idle, Call, PortSteps, Mark, Ports, Links
<1>5. WatchOK BY LinkAssumption DEF Init, WatchOK, Asleep, Ports, Links
<1> QED BY <1>1, <1>2, <1>3, <1>4, <1>5 DEF Init, TypeOK

\* In every reachable state, for any node, links, configurations and faults,
\* every variable is well typed: a bridge has a map of ports exactly while it
\* has a mark (the two maps of server.go:290-325 never disagree), and the
\* handler's write of SetPortManagement never meets a nil map.
THEOREM TypeCorrect == Spec => []TypeOK
<1>1. TypeOK /\ [Next]_vars => TypeOK'
  <2> SUFFICES ASSUME TypeOK, [Next]_vars PROVE TypeOK'
    OBVIOUS
  <2>1. CASE Next BY <2>1, HandlerTypes, PortWatchTypes, EnvironmentTypes DEF Next
  <2>2. CASE UNCHANGED vars
    BY <2>2, LinksFrame, RegistryFrame, InformerFrame, HandlerFrameOK, WatchFrameOK
       DEF vars, TypeOK, history, registry
  <2> QED BY <2>1, <2>2
<1> QED BY InitTypes, <1>1, PTL DEF Spec

=============================================================================
