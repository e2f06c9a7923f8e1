------------------------- MODULE AgentChannelProofs -------------------------
(***************************************************************************)
(* Proofs about AgentChannel for any number of machines and connections.   *)
(***************************************************************************)
EXTENDS AgentChannel, TLAPS

USE DEF Kind

-----------------------------------------------------------------------------
(* Type correctness *)

LEMMA ResolvedType ==
    ASSUME NEW m \in Machine, latest \in [Machine -> Kind]
    PROVE  Resolved(m) \in Uuid
<1>1. Named(m) \subseteq Kind
  BY DEF Named
<1>2. Named(m) # {} => (CHOOSE k \in Named(m) : TRUE) \in Named(m)
  OBVIOUS
<1>3. PICK k \in Kind : Resolved(m) = <<m, k>>
  BY <1>1, <1>2 DEF Resolved
<1> QED BY <1>3 DEF Uuid

LEMMA PresenceType ==
    ASSUME NEW u \in Uuid, DevicesTypeOK, PresenceOn(u) \/ PresenceOff(u)
    PROVE  devices' \in [Uuid -> Row \union {None}] /\ latest' \in [Machine -> Kind]
<1>1. u[1] \in Machine /\ u[2] \in Kind
  BY DEF Uuid
<1>2. CASE ~Exists(u)
  BY <1>2 DEF PresenceOn, PresenceOff, DevicesTypeOK
<1>3. CASE Exists(u)
  <2>1. devices[u] \in Row
    BY <1>3 DEF Exists, DevicesTypeOK
  <2>2. [devices[u] EXCEPT !.online = TRUE] \in Row /\ [devices[u] EXCEPT !.online = FALSE] \in Row
    BY <2>1 DEF Row
  <2>3. \E b \in BOOLEAN : devices' = [devices EXCEPT ![u] = [devices[u] EXCEPT !.online = b]]
    BY <1>3 DEF PresenceOn, PresenceOff
  <2> QED BY <1>1, <1>3, <2>2, <2>3 DEF PresenceOn, PresenceOff, Seen, DevicesTypeOK
<1> QED BY <1>2, <1>3

\* Writing fields of a row, or a whole row, at a uuid keeps the table typed.
LEMMA RowUpdate ==
    ASSUME NEW r \in Row, NEW a \in BOOLEAN, NEW b \in BOOLEAN
    PROVE  /\ [r EXCEPT !.online = a] \in Row
           /\ [r EXCEPT !.deleted = a] \in Row
           /\ [r EXCEPT !.deleted = a, !.online = b] \in Row
           /\ [r EXCEPT !.online = a, !.named = b] \in Row
BY DEF Row

LEMMA TableUpdate ==
    ASSUME DevicesTypeOK, NEW u \in Uuid, NEW r \in Row \union {None},
           devices' = [devices EXCEPT ![u] = r]
    PROVE  devices' \in [Uuid -> Row \union {None}]
BY DEF DevicesTypeOK

LEMMA SeenType ==
    ASSUME DevicesTypeOK, NEW u \in Uuid, Seen(u)
    PROVE  latest' \in [Machine -> Kind]
BY DEF DevicesTypeOK, Seen, Uuid

LEMMA DeviceStepType ==
    ASSUME TypeOK, DeviceStep
    PROVE  TypeOK'
<1> USE DEF TypeOK, DevicesTypeOK, channelVars, Fault, Uuid
<1>0. ChannelTypeOK'
  BY DEF DeviceStep, ChannelTypeOK
<1>1. ASSUME NEW m \in Machine, NEW req \in {"heartbeat", "sysinfo"}, DeletePlaceholder(m, req)
      PROVE  DevicesTypeOK'
  BY <1>1 DEF DeletePlaceholder
<1>2. ASSUME NEW m \in Machine, UpsertNative(m)
      PROVE  DevicesTypeOK'
  <2> DEFINE u == <<m, "native">>
             named == client[m] = "sysinfo"
  <2>1. u \in Uuid /\ named \in BOOLEAN
    OBVIOUS
  <2>2. CASE Active(u) /\ Seen(u)
             /\ devices' = [devices EXCEPT ![u].online = TRUE, ![u].named = @ \/ named]
    <3>1. devices[u] \in Row /\ devices[u].named \in BOOLEAN
      BY <2>1, <2>2 DEF Active, Exists, Row
    <3>2. [devices[u] EXCEPT !.online = TRUE, !.named = devices[u].named \/ named] \in Row
      BY <2>1, <3>1, RowUpdate
    <3> QED BY <1>2, <2>1, <2>2, <3>2, SeenType DEF UpsertNative
  <2>3. CASE Seen(u)
             /\ devices' = [devices EXCEPT ![u] =
                   [rid |-> "id", deleted |-> FALSE, online |-> TRUE, named |-> named]]
    <3>1. [rid |-> "id", deleted |-> FALSE, online |-> TRUE, named |-> named] \in Row
      BY <2>1 DEF Row
    <3> QED BY <1>2, <2>1, <2>3, <3>1, SeenType, TableUpdate DEF UpsertNative
  <2>4. CASE UNCHANGED <<devices, latest>>
    BY <1>2, <2>4 DEF UpsertNative
  <2> QED BY <1>2, <2>2, <2>3, <2>4 DEF UpsertNative
<1>3. ASSUME NEW m \in Machine, DevicePower(m)
      PROVE  DevicesTypeOK'
  BY <1>3, FaultsAssumption DEF DevicePower
<1>4. ASSUME RefreshQuery
      PROVE  DevicesTypeOK'
  BY <1>4 DEF RefreshQuery
<1>5. ASSUME RefreshApply
      PROVE  DevicesTypeOK'
  <2>1. ASSUME NEW u \in Uuid
        PROVE  (IF Confirmed(u) THEN [devices[u] EXCEPT !.online = TRUE] ELSE devices[u])
                  \in Row \union {None}
    <3>1. devices[u] \in Row \union {None} /\ (Confirmed(u) => devices[u] \in Row)
      BY DEF Confirmed, Active, Exists
    <3> QED
      BY <3>1, RowUpdate
  <2>2. devices' \in [Uuid -> Row \union {None}]
    BY <1>5, <2>1 DEF RefreshApply
  <2>3. latest' \in [Machine -> Kind]
    <3>1. \A m \in Machine : (\E k \in Kind : Confirmed(<<m, k>>))
              => (CHOOSE k \in Kind : Confirmed(<<m, k>>)) \in Kind
      OBVIOUS
    <3> QED
      BY <1>5, <3>1 DEF RefreshApply
  <2> QED
    BY <1>5, <2>2, <2>3 DEF RefreshApply
<1>6. ASSUME NEW u \in Uuid, Sweep(u) \/ DeleteDevice(u) \/ RestoreDevice(u) \/ PurgeDevice(u)
      PROVE  DevicesTypeOK'
  <2>1. Exists(u)
    BY <1>6 DEF Sweep, DeleteDevice, RestoreDevice, PurgeDevice, Active, Trashed
  <2>2. devices[u] \in Row
    BY <2>1 DEF Exists
  <2>3. PICK r \in Row \union {None} : devices' = [devices EXCEPT ![u] = r]
    BY <1>6, <2>2, RowUpdate DEF Sweep, DeleteDevice, RestoreDevice, PurgeDevice
  <2>4. devices' \in [Uuid -> Row \union {None}]
    BY <2>3, TableUpdate
  <2>5. faults' \in 0..MaxFaults
    BY <1>6, FaultsAssumption DEF Sweep, DeleteDevice, RestoreDevice, PurgeDevice
  <2> QED BY <1>6, <2>4, <2>5 DEF Sweep, DeleteDevice, RestoreDevice, PurgeDevice
<1> QED BY <1>0, <1>1, <1>2, <1>4, <1>5, <1>6 DEF DeviceStep

LEMMA HandlerStepType ==
    ASSUME TypeOK, NEW c \in Conn, HandlerStep(c)
    PROVE  TypeOK'
<1> USE DEF TypeOK, ChannelTypeOK, HandlerState, Step, Goto, GotoWithKey
<1>1. key(c) \in Uuid /\ machine(c) \in Machine
  BY DEF key, machine, Uuid
<1>2. CASE MatchRid(c)
  <2> DEFINE found == {u \in {<<machine(c), k>> : k \in Kind} : Active(u) /\ HasRid(u, "id")}
  <2>1. CASE machine(c) \in knowsId /\ found # {}
    <3>1. PICK u \in found : /\ u = CHOOSE w \in found : TRUE
                             /\ Seen(u)
                             /\ GotoWithKey(c, "register", u)
                             /\ devices' = [devices EXCEPT ![u].online = TRUE, ![u].named = TRUE]
      BY <1>2, <2>1 DEF MatchRid
    <3>2. u \in Uuid
      BY <1>1 DEF Uuid
    <3>3. devices[u] \in Row
      BY <3>2 DEF Active, Exists, DevicesTypeOK
    <3>4. [devices[u] EXCEPT !.online = TRUE, !.named = TRUE] \in Row
      BY <3>3, RowUpdate
    <3>5. devices' \in [Uuid -> Row \union {None}]
      BY <3>1, <3>2, <3>4 DEF DevicesTypeOK
    <3>6. latest' \in [Machine -> Kind]
      BY <3>1, <3>2, SeenType
    <3> QED BY <1>2, <3>1, <3>2, <3>5, <3>6 DEF MatchRid, DevicesTypeOK
  <2>2. CASE ~(machine(c) \in knowsId /\ found # {})
    BY <1>2, <2>2 DEF MatchRid, DevicesTypeOK
  <2> QED BY <2>1, <2>2
<1>3. CASE CreatePlaceholder(c)
  <2> DEFINE u == <<machine(c), "host">>
             rid == IF machine(c) \in knowsId THEN "id" ELSE "agent"
             row == [rid |-> rid, deleted |-> FALSE, online |-> TRUE, named |-> TRUE]
  <2>1. u \in Uuid /\ row \in Row
    BY <1>1 DEF Uuid, Row
  <2>2. CASE devices' = [devices EXCEPT ![u] = row] /\ Seen(u) /\ GotoWithKey(c, "register", u)
    <3>1. devices' \in [Uuid -> Row \union {None}] /\ latest' \in [Machine -> Kind]
      BY <2>1, <2>2, TableUpdate, SeenType
    <3> QED BY <1>3, <2>1, <2>2, <3>1 DEF CreatePlaceholder, DevicesTypeOK
  <2>3. CASE Goto(c, "resolve") /\ UNCHANGED <<devices, latest>>
    BY <1>3, <2>3 DEF CreatePlaceholder, DevicesTypeOK
  <2> QED BY <1>3, <2>2, <2>3 DEF CreatePlaceholder
<1>4. CASE ResolveKey(c)
  BY <1>1, <1>4, ResolvedType DEF ResolveKey, DevicesTypeOK, deviceVars
<1>5. CASE Register(c)
  BY <1>1, <1>5 DEF Register, DevicesTypeOK, deviceVars
<1>6. CASE Announce(c)
  BY <1>1, <1>6, PresenceType DEF Announce, DevicesTypeOK
<1>7. CASE PresenceTick(c)
  BY <1>1, <1>7, PresenceType DEF PresenceTick, DevicesTypeOK, channelVars
<1>8. CASE ChannelEnds(c) \/ SocketEnds(c)
  BY <1>8 DEF ChannelEnds, SocketEnds, DevicesTypeOK, deviceVars
<1>9. CASE Unregister(c)
  BY <1>1, <1>9 DEF Unregister, DevicesTypeOK, deviceVars
<1>10. CASE GoOffline(c)
  BY <1>1, <1>10, PresenceType DEF GoOffline, Unlink, DevicesTypeOK
<1> QED BY <1>2, <1>3, <1>4, <1>5, <1>6, <1>7, <1>8, <1>9, <1>10 DEF HandlerStep

LEMMA TypeStep == TypeOK /\ [Next]_vars => TypeOK'
<1> SUFFICES ASSUME TypeOK, [Next]_vars
             PROVE  TypeOK'
  OBVIOUS
<1>1. CASE DeviceStep
  BY <1>1, DeviceStepType
<1>2. ASSUME NEW m \in Machine, NEW c \in Conn, Connect(m, c)
      PROVE  TypeOK'
  BY <1>2 DEF Connect, GotoWithKey, TypeOK, DevicesTypeOK, ChannelTypeOK, HandlerState, Step,
              Uuid, deviceVars
<1>3. ASSUME NEW m \in Machine, Refuse(m)
      PROVE  TypeOK'
  BY <1>3, ResolvedType, PresenceType
     DEF Refuse, TypeOK, DevicesTypeOK, ChannelTypeOK, channelVars
<1>4. ASSUME NEW m \in Machine, LoseLink(m)
      PROVE  TypeOK'
  BY <1>4, FaultsAssumption DEF LoseLink, Break, Fault, TypeOK, DevicesTypeOK, ChannelTypeOK
<1>5. ASSUME NEW m \in Machine, Power(m)
      PROVE  TypeOK'
  BY <1>5, FaultsAssumption
     DEF Power, DevicePower, Break, Fault, TypeOK, DevicesTypeOK, ChannelTypeOK
<1>6. ASSUME NEW c \in Conn, HandlerStep(c)
      PROVE  TypeOK'
  BY <1>6, HandlerStepType
<1>7. CASE ServerRestart
  <2>1. enabled' \in BOOLEAN /\ served' \in BOOLEAN
    BY <1>7, BootAssumption DEF ServerRestart, TypeOK, ChannelTypeOK
  <2>2. DevicesTypeOK'
    BY <1>7, FaultsAssumption DEF ServerRestart, Fault, TypeOK, DevicesTypeOK
  <2>3. handler' \in [Conn -> HandlerState]
    BY <1>7 DEF ServerRestart, TypeOK, ChannelTypeOK, HandlerState, Step
  <2> QED
    BY <1>7, <2>1, <2>2, <2>3 DEF ServerRestart, TypeOK, ChannelTypeOK
<1>8. CASE UNCHANGED vars
  BY <1>8 DEF vars, deviceVars, channelVars, TypeOK, DevicesTypeOK, ChannelTypeOK
<1> QED BY <1>1, <1>2, <1>3, <1>4, <1>5, <1>6, <1>7, <1>8 DEF Next

\* Every reachable state is well typed, for any machines, connections and bounds.
THEOREM TypeCorrect == Spec => []TypeOK
<1>1. Init => TypeOK
  BY FaultsAssumption, BootAssumption
     DEF Init, DevicesInit, TypeOK, DevicesTypeOK, ChannelTypeOK, HandlerState, Step
<1> QED BY <1>1, TypeStep, PTL DEF Spec

-----------------------------------------------------------------------------
(* The map of senders *)

\* An agent reads from a connection whose task serves its own machine.
LinkServesOwner ==
    \A m \in Machine : link[m] # None => Live(link[m]) /\ machine(link[m]) = m

\* Together with TypeOK this is inductive: a task enters the map under its own key,
\* its key no longer changes then, and it leaves the map before it ends, because the
\* entry its cleanup removes is the only one it may have.
MapInv == RegisteredIsLive /\ LinkServesOwner

LEMMA HandlerStepMap ==
    ASSUME TypeOK, MapInv, NEW c \in Conn, HandlerStep(c)
    PROVE  MapInv'
<1> USE DEF TypeOK, ChannelTypeOK, HandlerState, MapInv, RegisteredIsLive, LinkServesOwner,
            Goto, GotoWithKey, key, pc, machine, Live
<1>1. key(c) \in Uuid /\ machine(c) \in Machine
  BY DEF Uuid
<1>2. CASE MatchRid(c)
  <2>1. pc(c) = "match" /\ agents' = agents /\ link' = link
    BY <1>2 DEF MatchRid
  <2>2. \A u \in Uuid : agents[u] # c
    BY <2>1, ConnAssumption
  <2>3. \A d \in Conn \ {c} : handler'[d] = handler[d]
    BY <1>2 DEF MatchRid
  <2>4. Live(c)' /\ machine(c)' = machine(c)
    <3> DEFINE found == {u \in {<<machine(c), k>> : k \in Kind} : Active(u) /\ HasRid(u, "id")}
    <3>1. CASE machine(c) \in knowsId /\ found # {}
      <4>1. PICK u \in found : GotoWithKey(c, "register", u)
        BY <1>2, <3>1 DEF MatchRid
      <4>2. u[1] = machine(c)
        OBVIOUS
      <4> QED BY <4>1, <4>2
    <3>2. CASE ~(machine(c) \in knowsId /\ found # {})
      BY <1>2, <3>2 DEF MatchRid
    <3> QED BY <3>1, <3>2
  <2>5. RegisteredIsLive'
    BY <2>1, <2>2, <2>3
  <2>6. LinkServesOwner'
    BY <2>1, <2>3, <2>4
  <2> QED BY <2>5, <2>6
<1>3. CASE CreatePlaceholder(c)
  <2>1. pc(c) = "create" /\ agents' = agents /\ link' = link
    BY <1>3 DEF CreatePlaceholder
  <2>2. \A u \in Uuid : agents[u] # c
    BY <2>1, ConnAssumption
  <2>3. \A d \in Conn \ {c} : handler'[d] = handler[d]
    BY <1>3 DEF CreatePlaceholder
  <2>4. Live(c)' /\ machine(c)' = machine(c)
    BY <1>3 DEF CreatePlaceholder
  <2>5. RegisteredIsLive'
    BY <2>1, <2>2, <2>3
  <2>6. LinkServesOwner'
    BY <2>1, <2>3, <2>4
  <2> QED BY <2>5, <2>6
<1>4. CASE ResolveKey(c)
  <2>1. pc(c) = "resolve" /\ agents' = agents /\ link' = link
    BY <1>4 DEF ResolveKey
  <2>2. \A u \in Uuid : agents[u] # c
    BY <2>1, ConnAssumption
  <2>3. \A d \in Conn \ {c} : handler'[d] = handler[d]
    BY <1>4 DEF ResolveKey
  <2>4. Live(c)' /\ machine(c)' = machine(c)
    BY <1>4 DEF ResolveKey, Resolved
  <2>5. RegisteredIsLive'
    BY <2>1, <2>2, <2>3
  <2>6. LinkServesOwner'
    BY <2>1, <2>3, <2>4
  <2> QED BY <2>5, <2>6
<1>5. CASE Register(c)
  BY <1>1, <1>5, ConnAssumption DEF Register
<1>6. CASE Announce(c)
  BY <1>6, ConnAssumption DEF Announce
<1>7. CASE PresenceTick(c)
  BY <1>7 DEF PresenceTick, channelVars
<1>8. CASE ChannelEnds(c) \/ SocketEnds(c)
  BY <1>8, ConnAssumption DEF ChannelEnds, SocketEnds
<1>9. CASE Unregister(c)
  BY <1>1, <1>9, ConnAssumption DEF Unregister
<1>10. CASE GoOffline(c)
  BY <1>10, ConnAssumption DEF GoOffline, Unlink
<1> QED BY <1>2, <1>3, <1>4, <1>5, <1>6, <1>7, <1>8, <1>9, <1>10 DEF HandlerStep

LEMMA MapStep == TypeOK /\ MapInv /\ [Next]_vars => MapInv'
<1> SUFFICES ASSUME TypeOK, MapInv, [Next]_vars
             PROVE  MapInv'
  OBVIOUS
<1> USE DEF TypeOK, ChannelTypeOK, HandlerState, MapInv, RegisteredIsLive, LinkServesOwner,
            key, pc, machine, Live
<1>1. CASE DeviceStep
  BY <1>1 DEF DeviceStep, channelVars
<1>2. ASSUME NEW m \in Machine, NEW c \in Conn, Connect(m, c)
      PROVE  MapInv'
  BY <1>2, ConnAssumption DEF Connect, GotoWithKey, Uuid
<1>3. ASSUME NEW m \in Machine, Refuse(m)
      PROVE  MapInv'
  BY <1>3 DEF Refuse, channelVars
<1>4. ASSUME NEW m \in Machine, LoseLink(m) \/ Power(m)
      PROVE  MapInv'
  BY <1>4 DEF LoseLink, Power, Break
<1>5. ASSUME NEW c \in Conn, HandlerStep(c)
      PROVE  MapInv'
  BY <1>5, HandlerStepMap
<1>6. CASE ServerRestart
  BY <1>6 DEF ServerRestart
<1>7. CASE UNCHANGED vars
  BY <1>7 DEF vars, channelVars
<1> QED BY <1>1, <1>2, <1>3, <1>4, <1>5, <1>6, <1>7 DEF Next

LEMMA MapInvariant == Spec => []MapInv
<1>1. Init => MapInv
  BY DEF Init, MapInv, RegisteredIsLive, LinkServesOwner
<1> QED BY <1>1, MapStep, TypeCorrect, PTL DEF Spec

\* No cleanup leaves an entry behind and no send reaches a finished task, however
\* takeovers, losses and restarts interleave.
THEOREM RegistrationCorrect == Spec => []RegisteredIsLive
BY MapInvariant, PTL DEF MapInv

\* A message sent under a device's uuid is never read by another machine's agent.
THEOREM DeliveryCorrect == Spec => []DeliveredToOwner
<1>1. TypeOK /\ MapInv => DeliveredToOwner
  BY DEF TypeOK, ChannelTypeOK, MapInv, RegisteredIsLive, LinkServesOwner, DeliveredToOwner,
         machine, key
<1> QED BY <1>1, MapInvariant, TypeCorrect, PTL

-----------------------------------------------------------------------------
(* The trash of a server that was not yet started with AGENT_ENABLED (the default) *)

\* No connection is ever served, so no placeholder exists and nothing writes a row
\* without looking at deleted_at.
AgentlessInv ==
    ~served =>
        /\ ~enabled
        /\ \A c \in Conn : ~Live(c)
        /\ \A m \in Machine : ~Exists(<<m, "host">>)
        /\ \A u \in Uuid : Trashed(u) => ~devices[u].online

LEMMA ServedStays ==
    ASSUME served, [Next]_vars
    PROVE  served'
BY DEF Next, DeviceStep, Connect, Refuse, LoseLink, Power, HandlerStep, MatchRid,
       CreatePlaceholder, ResolveKey, Register, Announce, PresenceTick, ChannelEnds,
       SocketEnds, Unregister, GoOffline, ServerRestart, vars, channelVars

LEMMA AgentlessStep ==
    ASSUME TypeOK, AgentlessInv, ~served, [Next]_vars
    PROVE  /\ AgentlessInv'
           /\ \A u \in Uuid : Trashed(u) /\ faults' = faults => Trashed(u)'
<1> DEFINE Kept == \A u \in Uuid : Trashed(u) /\ faults' = faults => Trashed(u)'
<1> USE DEF AgentlessInv, Trashed, Exists, Live, pc
<1>0. faults \in Nat
  BY FaultsAssumption DEF TypeOK, DevicesTypeOK
<1>1. \A c \in Conn : ~HandlerStep(c)
  BY DEF HandlerStep, MatchRid, CreatePlaceholder, ResolveKey, Register, Announce,
         PresenceTick, ChannelEnds, SocketEnds, Unregister, GoOffline
<1>2. CASE DeviceStep
  <2> USE DEF channelVars
  <2>0. enabled' = enabled /\ handler' = handler
    BY <1>2 DEF DeviceStep
  <2>1. ASSUME NEW m \in Machine, NEW req \in {"heartbeat", "sysinfo"}, DeletePlaceholder(m, req)
        PROVE  AgentlessInv' /\ Kept
    BY <2>0, <2>1 DEF DeletePlaceholder, HasRid
  <2>2. ASSUME NEW m \in Machine, UpsertNative(m)
        PROVE  AgentlessInv' /\ Kept
    <3>1. \A k \in Machine : ~Exists(<<k, "host">>)
      OBVIOUS
    <3>2. served' = served
      BY <1>2 DEF DeviceStep
    <3>3. /\ \A k \in Machine : ~(devices'[<<k, "host">>] # None)
          /\ \A u \in Uuid : (devices'[u] # None) /\ devices'[u].deleted => ~devices'[u].online
          /\ Kept
      BY <2>2 DEF UpsertNative, Active, TypeOK, DevicesTypeOK, Row, Uuid
    <3> QED
      BY <2>0, <3>2, <3>3
  <2>3. CASE (\E m \in Machine : DevicePower(m)) \/ RefreshQuery
    BY <2>0, <2>3 DEF DevicePower, RefreshQuery
  <2>4. CASE RefreshApply
    BY <2>0, <2>4 DEF RefreshApply, Confirmed, Active, TypeOK, DevicesTypeOK, Row, Uuid
  <2>5. ASSUME NEW u \in Uuid, Sweep(u)
        PROVE  AgentlessInv' /\ Kept
    BY <2>0, <2>5 DEF Sweep, TypeOK, DevicesTypeOK, Row, Uuid
  <2>6. ASSUME NEW u \in Uuid, DeleteDevice(u) \/ RestoreDevice(u) \/ PurgeDevice(u)
        PROVE  AgentlessInv' /\ Kept
    <3>1. Kept
      BY <1>0, <2>6 DEF DeleteDevice, RestoreDevice, PurgeDevice, Fault
    <3>2. Exists(u)
      BY <2>6 DEF DeleteDevice, RestoreDevice, PurgeDevice, Active
    <3>3. devices[u] \in Row
      BY <3>2 DEF TypeOK, DevicesTypeOK
    <3>4. AgentlessInv'
      BY <2>0, <2>6, <3>2, <3>3
         DEF DeleteDevice, RestoreDevice, PurgeDevice, Active, TypeOK, DevicesTypeOK, Row, Uuid
    <3> QED BY <3>1, <3>4
  <2> QED BY <1>2, <2>1, <2>2, <2>3, <2>4, <2>5, <2>6 DEF DeviceStep
<1>3. ASSUME NEW m \in Machine, Refuse(m)
      PROVE  AgentlessInv' /\ Kept
  <2>1. Resolved(m) \in Uuid /\ PresenceOff(Resolved(m))
    BY <1>3, ResolvedType DEF Refuse, TypeOK, DevicesTypeOK
  <2>2. PICK u \in Uuid :
          devices' = IF Exists(u) THEN [devices EXCEPT ![u].online = FALSE] ELSE devices
    BY <2>1 DEF PresenceOff
  <2>3. enabled' = enabled /\ handler' = handler
    BY <1>3 DEF Refuse, channelVars
  <2>4. CASE ~Exists(u)
    BY <2>2, <2>3, <2>4
  <2>5. CASE Exists(u)
    <3>1. devices[u] \in Row
      BY <2>5 DEF TypeOK, DevicesTypeOK
    <3>2. [devices[u] EXCEPT !.online = FALSE] # None
      BY <3>1, RowUpdate, NoneAssumption
    <3> QED BY <2>2, <2>3, <2>5, <3>1, <3>2 DEF TypeOK, DevicesTypeOK, Row, Uuid
  <2> QED BY <2>4, <2>5
<1>4. ASSUME NEW m \in Machine, LoseLink(m) \/ Power(m)
      PROVE  AgentlessInv' /\ Kept
  BY <1>4 DEF LoseLink, Power, DevicePower
<1>5. CASE ServerRestart
  BY <1>5 DEF ServerRestart, TypeOK, ChannelTypeOK, HandlerState
<1>6. CASE UNCHANGED vars
  BY <1>6 DEF vars, deviceVars, channelVars
<1>7. ASSUME NEW m \in Machine, NEW c \in Conn, Connect(m, c)
      PROVE  FALSE
  BY <1>7 DEF Connect
<1> QED BY <1>1, <1>2, <1>3, <1>4, <1>5, <1>6, <1>7 DEF Next

LEMMA AgentlessInvariant == Spec => []AgentlessInv
<1>1. Init => AgentlessInv
  BY DEF Init, DevicesInit, AgentlessInv, Live, pc, Exists, Trashed, Uuid
<1>2. TypeOK /\ AgentlessInv /\ [Next]_vars => AgentlessInv'
  <2> SUFFICES ASSUME TypeOK, AgentlessInv, [Next]_vars PROVE AgentlessInv'
    OBVIOUS
  <2>1. CASE ~served
    BY <2>1, AgentlessStep
  <2>2. CASE served
    <3>1. served'
      BY <2>2, ServedStays
    <3> QED
      BY <3>1 DEF AgentlessInv
  <2> QED
    BY <2>1, <2>2
<1> QED BY <1>1, <1>2, TypeCorrect, PTL DEF Spec

\* Until an agent is served, a row in the trash is offline.
THEOREM AgentlessTrashOffline == Spec => []TrashedOffline
<1>1. AgentlessInv => TrashedOffline
  BY DEF AgentlessInv, TrashedOffline
<1> QED BY <1>1, AgentlessInvariant, PTL

\* Until an agent is served, only an administrator's operation takes a row out of the trash.
THEOREM AgentlessTrashPersists == Spec => TrashPersists
<1>1. TypeOK /\ AgentlessInv /\ [Next]_vars =>
        [~served => \A u \in Uuid : Trashed(u) /\ faults' = faults => Trashed(u)']_vars
  BY AgentlessStep
<1> QED BY <1>1, AgentlessInvariant, TypeCorrect, PTL DEF Spec, TrashPersists

=============================================================================
