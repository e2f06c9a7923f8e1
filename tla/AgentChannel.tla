---------------------------- MODULE AgentChannel ----------------------------
(***************************************************************************)
(* The WebSocket channel between the Go agents and plus-api: one           *)
(* handle_agent task per connection, the map of senders it shares with the *)
(* routes that reach agents, and what it writes to the devices table.      *)
(*                                                                         *)
(* A handler owns its receiver; the map owns the only sender.  Replacing   *)
(* or removing a map entry therefore closes the channel of the connection  *)
(* that was registered there, which its handler sees as rx.recv() = None.  *)
(***************************************************************************)
EXTENDS Devices

CONSTANTS Conn,        \* pool of connections (a free one is reused)
          BootEnabled  \* values of AGENT_ENABLED the server may be started with

ASSUME ConnAssumption == None \notin Conn
ASSUME BootAssumption == BootEnabled \in (SUBSET BOOLEAN) \ {{}}

VARIABLES
    enabled,  \* AGENT_ENABLED of the running server
    served,   \* history: AGENT_ENABLED was on at some time
    agents,   \* uuid -> connection whose sender the map holds, or None
    handler,  \* connection -> state of its handle_agent task
    socket,   \* connection -> what the server can observe of its TCP stream
    link,     \* machine -> connection its agent is reading from, or None
    knowsId   \* machines whose agent obtained the RustDesk id when it started

channelVars == <<enabled, served, agents, handler, socket, link, knowsId>>
vars == <<deviceVars, channelVars>>

Step == {"idle", "match", "create", "resolve", "register", "announce",
         "loop", "unregister", "goOffline"}

\* The key of an agent task that never connected is arbitrary.
HandlerState == [pc: Step, key: Uuid]

ChannelTypeOK ==
    /\ enabled \in BOOLEAN /\ served \in BOOLEAN
    /\ agents \in [Uuid -> Conn \union {None}]
    /\ handler \in [Conn -> HandlerState]
    /\ socket \in [Conn -> {"open", "closed", "silent"}]
    /\ link \in [Machine -> Conn \union {None}]
    /\ knowsId \subseteq Machine

\* Every variable holds a value of its kind.
TypeOK == DevicesTypeOK /\ ChannelTypeOK

Init ==
    /\ DevicesInit
    /\ enabled \in BootEnabled /\ served = enabled
    /\ agents = [u \in Uuid |-> None]
    /\ handler \in {[c \in Conn |-> [pc |-> "idle", key |-> u]] : u \in Uuid}
    /\ socket = [c \in Conn |-> "closed"]
    /\ link = [m \in Machine |-> None]
    /\ knowsId \in SUBSET Machine

-----------------------------------------------------------------------------
pc(c) == handler[c].pc
key(c) == handler[c].key
machine(c) == key(c)[1]
Live(c) == pc(c) # "idle"

Goto(c, step) == handler' = [handler EXCEPT ![c].pc = step]
GotoWithKey(c, step, u) == handler' = [handler EXCEPT ![c] = [pc |-> step, key |-> u]]

\* No sender is left for c: its receiver yields None.
ChannelClosed(c) == \A u \in Uuid : agents[u] # c

\* Only the agent's link is lost from the agent's point of view.
Unlink(c) == link' = [m \in Machine |-> IF link[m] = c THEN None ELSE link[m]]

Named(m) == {k \in Kind : Exists(<<m, k>>) /\ devices[<<m, k>>].named}

\* resolve_device_uuid of host-<hostname>: newest row with that hostname, trashed
\* rows included; the agent's own uuid if there is none.
Resolved(m) ==
    <<m, IF latest[m] \in Named(m) THEN latest[m]
         ELSE IF Named(m) # {} THEN CHOOSE k \in Named(m) : TRUE
         ELSE "host">>

\* update_agent_presence: no deleted_at condition
PresenceOn(u) ==
    IF Exists(u)
    THEN devices' = [devices EXCEPT ![u].online = TRUE] /\ Seen(u)
    ELSE UNCHANGED <<devices, latest>>

PresenceOff(u) ==
    /\ devices' = IF Exists(u) THEN [devices EXCEPT ![u].online = FALSE] ELSE devices
    /\ UNCHANGED latest

-----------------------------------------------------------------------------
\* The agent dials in.
Connect(m, c) ==
    /\ enabled /\ m \in up
    /\ link[m] = None /\ ~Live(c)
    /\ link' = [link EXCEPT ![m] = c]
    /\ socket' = [socket EXCEPT ![c] = "open"]
    /\ GotoWithKey(c, "match", <<m, "host">>)
    /\ UNCHANGED <<deviceVars, enabled, served, agents, knowsId>>

\* With AGENT_ENABLED off it is told to hibernate, and its device goes offline.
Refuse(m) ==
    /\ ~enabled /\ m \in up
    /\ PresenceOff(Resolved(m))
    /\ UNCHANGED <<client, up, probed, faults, channelVars>>

\* ensure_agent_device, first statement: find the active row of the RustDesk id
MatchRid(c) ==
    LET m == machine(c)
        found == {u \in {<<m, k>> : k \in Kind} : Active(u) /\ HasRid(u, "id")}
    IN  /\ pc(c) = "match"
        /\ IF m \in knowsId /\ found # {}
           THEN LET u == CHOOSE u \in found : TRUE
                IN  /\ devices' = [devices EXCEPT ![u].online = TRUE, ![u].named = TRUE]
                    /\ Seen(u)
                    /\ GotoWithKey(c, "register", u)
           ELSE /\ Goto(c, "create")
                /\ UNCHANGED <<devices, latest>>
        /\ UNCHANGED <<client, up, probed, faults, enabled, served, agents, socket, link, knowsId>>

\* ensure_agent_device, second statement: upsert the row of the agent's own uuid
CreatePlaceholder(c) ==
    LET m == machine(c)
        u == <<m, "host">>
        rid == IF m \in knowsId THEN "id" ELSE "agent"
    IN  /\ pc(c) = "create"
        /\ \/ /\ ~Trashed(u) /\ ~RidTaken(u, rid)
              /\ devices' = [devices EXCEPT ![u] =
                    [rid |-> rid, deleted |-> FALSE, online |-> TRUE, named |-> TRUE]]
              /\ Seen(u)
              /\ GotoWithKey(c, "register", u)
           \/ /\ Trashed(u) \/ RidTaken(u, rid)
              /\ Goto(c, "resolve")
              /\ UNCHANGED <<devices, latest>>
        /\ UNCHANGED <<client, up, probed, faults, enabled, served, agents, socket, link, knowsId>>

\* Mutant: the hostname is not compared.
ResolveAny(c) ==
    /\ pc(c) = "resolve"
    /\ \E m \in Machine : GotoWithKey(c, "register", Resolved(m))
    /\ UNCHANGED <<deviceVars, enabled, served, agents, socket, link, knowsId>>

ResolveKey(c) ==
    /\ pc(c) = "resolve"
    /\ GotoWithKey(c, "register", Resolved(machine(c)))
    /\ UNCHANGED <<deviceVars, enabled, served, agents, socket, link, knowsId>>

\* agents.insert drops the sender that was there.
Register(c) ==
    /\ pc(c) = "register"
    /\ agents' = [agents EXCEPT ![key(c)] = c]
    /\ Goto(c, "announce")
    /\ UNCHANGED <<deviceVars, enabled, served, socket, link, knowsId>>

Announce(c) ==
    /\ pc(c) = "announce"
    /\ PresenceOn(key(c))
    /\ Goto(c, "loop")
    /\ UNCHANGED <<client, up, probed, faults, enabled, served, agents, socket, link, knowsId>>

\* Mutant: the tick does not refresh presence.
TickOnly(c) ==
    /\ pc(c) = "loop"
    /\ enabled
    /\ UNCHANGED vars

\* The 20 s tick.  Its test of AGENT_ENABLED cannot fail: the variable is read from
\* the environment of the process, which does not change while it runs.
PresenceTick(c) ==
    /\ pc(c) = "loop"
    /\ enabled
    /\ PresenceOn(key(c))
    /\ UNCHANGED <<client, up, probed, faults, channelVars>>

\* Mutant: rx.recv() = None is ignored.
IgnoreClosedChannel(c) ==
    /\ pc(c) = "loop"
    /\ ChannelClosed(c)
    /\ UNCHANGED vars

\* rx.recv() = None
ChannelEnds(c) ==
    /\ pc(c) = "loop"
    /\ ChannelClosed(c)
    /\ Goto(c, "unregister")
    /\ UNCHANGED <<deviceVars, enabled, served, agents, socket, link, knowsId>>

\* socket.recv() or socket.send() fails.  A silent loss is noticed only if the
\* server happens to write to the socket.
SocketEnds(c) ==
    /\ pc(c) = "loop"
    /\ socket[c] # "open"
    /\ Goto(c, "unregister")
    /\ UNCHANGED <<deviceVars, enabled, served, agents, socket, link, knowsId>>

\* Mutant: the cleanup leaves the entry in the map.
KeepEntry(c) ==
    /\ pc(c) = "unregister"
    /\ Goto(c, "goOffline")
    /\ UNCHANGED <<deviceVars, enabled, served, agents, socket, link, knowsId>>

\* Cleanup removes the entry of its key, whoever owns it by now.
Unregister(c) ==
    /\ pc(c) = "unregister"
    /\ agents' = [agents EXCEPT ![key(c)] = None]
    /\ Goto(c, "goOffline")
    /\ UNCHANGED <<deviceVars, enabled, served, socket, link, knowsId>>

\* The task returns: the socket is dropped and the agent, if still there, sees it.
GoOffline(c) ==
    /\ pc(c) = "goOffline"
    /\ PresenceOff(key(c))
    /\ Goto(c, "idle")
    /\ socket' = [socket EXCEPT ![c] = "closed"]
    /\ Unlink(c)
    /\ UNCHANGED <<client, up, probed, faults, enabled, served, agents, knowsId>>

HandlerStep(c) ==
    \/ MatchRid(c) \/ CreatePlaceholder(c) \/ ResolveKey(c) \/ Register(c) \/ Announce(c)
    \/ PresenceTick(c) \/ ChannelEnds(c) \/ SocketEnds(c) \/ Unregister(c) \/ GoOffline(c)

-----------------------------------------------------------------------------
\* A connection breaks; the server is told (FIN, RST) or not (silent).
Break(m) ==
    /\ link' = [link EXCEPT ![m] = None]
    /\ \E how \in {"closed", "silent"} :
          socket' = [c \in Conn |-> IF c = link[m] THEN how ELSE socket[c]]

LoseLink(m) ==
    /\ Fault
    /\ link[m] # None
    /\ Break(m)
    /\ UNCHANGED <<devices, latest, client, up, probed, enabled, served, agents, handler, knowsId>>

\* Machine off or on; the agent asks RustDesk for its id when its process starts.
Power(m) ==
    /\ DevicePower(m)
    /\ Break(m)
    /\ \E known \in SUBSET {m} : knowsId' = (knowsId \ {m}) \union known
    /\ UNCHANGED <<enabled, served, agents, handler>>

\* plus-api restarts: tasks, map and requests in flight are gone, rows stay.
ServerRestart ==
    /\ Fault
    /\ enabled' \in BootEnabled /\ served' = IF enabled' THEN TRUE ELSE served
    /\ agents' = [u \in Uuid |-> None]
    /\ handler' = [c \in Conn |-> [handler[c] EXCEPT !.pc = "idle"]]
    /\ socket' = [c \in Conn |-> "closed"]
    /\ link' = [m \in Machine |-> None]
    /\ client' = [m \in Machine |-> "idle"]
    /\ probed' = {}
    /\ UNCHANGED <<devices, latest, up, knowsId>>

-----------------------------------------------------------------------------
\* Something refreshes last_seen_at of u at least every 60 s.
HasSource(u) ==
    \/ u[2] = "native" /\ u[1] \in up /\ Active(u)
    \/ \E c \in Conn : key(c) = u /\ pc(c) \in {"announce", "loop"}

DeviceStep ==
    /\ \/ \E m \in Machine, req \in {"heartbeat", "sysinfo"} : DeletePlaceholder(m, req)
       \/ \E m \in Machine : UpsertNative(m)
       \/ RefreshQuery \/ RefreshApply
       \/ \E u \in Uuid : \/ ~HasSource(u) /\ Sweep(u)
                          \/ DeleteDevice(u) \/ RestoreDevice(u) \/ PurgeDevice(u)
    /\ UNCHANGED channelVars

Next ==
    \/ DeviceStep
    \/ \E m \in Machine, c \in Conn : Connect(m, c)
    \/ \E m \in Machine : Refuse(m) \/ LoseLink(m) \/ Power(m)
    \/ \E c \in Conn : HandlerStep(c)
    \/ ServerRestart

Spec == Init /\ [][Next]_vars

\* Fairness: tokio runs every ready task, agents and clients retry for ever while
\* their machine is on, the sweeper is periodic.  Nothing makes the server notice a
\* silent loss, and no disturbance is bound to happen.
Fairness ==
    /\ \A c \in Conn :
        /\ WF_vars(MatchRid(c) \/ CreatePlaceholder(c) \/ ResolveKey(c) \/ Register(c)
                     \/ Announce(c) \/ Unregister(c) \/ GoOffline(c))
        /\ WF_vars(ChannelEnds(c) \/ (socket[c] = "closed" /\ SocketEnds(c)))
        /\ WF_vars(PresenceTick(c))
    /\ \A m \in Machine :
        /\ WF_vars(\E c \in Conn : Connect(m, c))
        /\ WF_vars(UNCHANGED channelVars /\ UpsertNative(m))
        /\ WF_vars(UNCHANGED channelVars /\ DeletePlaceholder(m, "heartbeat"))
    /\ WF_vars(UNCHANGED channelVars /\ RefreshApply)
    /\ \A u \in Uuid : WF_vars(UNCHANGED channelVars /\ ~HasSource(u) /\ Sweep(u))

FairSpec == Spec /\ Fairness

-----------------------------------------------------------------------------
(* Safety *)

\* The map holds the sender of a task only under the key of that task and only while
\* the task runs: nothing is sent to a connection that is gone, and a cleanup leaves
\* no entry behind although it does not check whose entry it removes.
RegisteredIsLive ==
    \A u \in Uuid : agents[u] # None =>
        /\ key(agents[u]) = u
        /\ pc(agents[u]) \in {"announce", "loop", "unregister"}

\* What is sent under a device's uuid is read by the agent of that machine only,
\* through takeovers, stale cleanups and connections reused after a restart.
DeliveredToOwner ==
    \A u \in Uuid, m \in Machine :
        agents[u] # None /\ agents[u] = link[m] => m = u[1]

\* A row in the trash is shown offline, if no agent was ever served (delete_device).
TrashedOffline == ~served => \A u \in Uuid : Trashed(u) => ~devices[u].online

\* If no agent was ever served, only an operation of an administrator removes a row from
\* the trash: heartbeats, sysinfo posts and presence neither restore nor delete it (soft
\* delete).
TrashPersists ==
    [][~served => \A u \in Uuid : Trashed(u) /\ faults' = faults => Trashed(u)']_vars

-----------------------------------------------------------------------------
(* Liveness *)

Reachable(m) ==
    /\ link[m] # None
    /\ pc(link[m]) = "loop"
    /\ agents[key(link[m])] = link[m]

\* Once nothing disturbs it any more, the agent of a machine that is on ends up
\* registered for good, although every takeover makes the old task remove the
\* registration of the new one.
AgentConverges ==
    \A m \in Machine : <>[](enabled /\ m \in up => Reachable(m))

\* ... and the device of its key, if it exists, is shown online for good.
PresenceConverges ==
    \A m \in Machine :
        <>[](enabled /\ m \in up =>
                /\ link[m] # None
                /\ Exists(key(link[m])) => devices[key(link[m])].online)

\* The placeholder that holds the RustDesk id of a running client disappears.
PlaceholderMerges ==
    \A m \in Machine : <>[](m \in up => ~HasRid(<<m, "host">>, "id"))

\* A machine that is off ends up offline through the sweeper, unless a task serves a
\* connection whose loss the server was never told of: that task keeps the row fresh.
HalfOpen(m) == \E c \in Conn : pc(c) = "loop" /\ machine(c) = m /\ socket[c] = "silent"

MissingPeersExpire ==
    \A m \in Machine, k \in Kind :
        <>[](m \notin up /\ ~HalfOpen(m) /\ Exists(<<m, k>>) => ~devices[<<m, k>>].online)

=============================================================================
