------------------------------ MODULE Devices ------------------------------
(***************************************************************************)
(* The devices table of one tenant (PostgreSQL) and everything that writes *)
(* to it except the management agent: the heartbeat and sysinfo posts of   *)
(* the native RustDesk client, the presence refresh and the sweeper of     *)
(* plus-api, and the trash operations of the dashboard.                    *)
(*                                                                         *)
(* A machine may own two rows, told apart by their uuid: the "host" row    *)
(* (uuid host-<hostname>, the placeholder the agent inserts) and the       *)
(* "native" row (the uuid RustDesk itself reports).  Hostnames and         *)
(* RustDesk ids are unique per machine.  Every SQL statement is one step,  *)
(* because every statement commits on its own.                             *)
(***************************************************************************)
EXTENDS Naturals

CONSTANTS Machine,       \* managed PCs
          None,          \* no row, no connection
          HbbsPresence,  \* HBBS_PRESENCE_ADDR is set: hbbs is asked who is online
          MaxFaults      \* bound on disturbances: losses, restarts, trash operations

ASSUME PresenceAssumption == HbbsPresence \in BOOLEAN
ASSUME FaultsAssumption == MaxFaults \in Nat

Kind == {"host", "native"}
Uuid == Machine \X Kind

\* rid: the numeric RustDesk id or the synthetic agent:<hostname>
\* named: hostname IS NOT NULL
Row == [rid: {"id", "agent"}, deleted: BOOLEAN, online: BOOLEAN, named: BOOLEAN]

ASSUME NoneAssumption == None \notin Row

VARIABLES
    devices,   \* uuid -> row or None
    latest,    \* machine -> kind of its row with the newest last_seen_at
    client,    \* machine -> statement its native client's request is about to run
    up,        \* machines switched on: their RustDesk client runs and reaches hbbs
    probed,    \* answer of hbbs that presence::refresh has not applied yet
    faults     \* disturbances so far

deviceVars == <<devices, latest, client, up, probed, faults>>

DevicesTypeOK ==
    /\ devices \in [Uuid -> Row \union {None}]
    /\ latest \in [Machine -> Kind]
    /\ client \in [Machine -> {"idle", "heartbeat", "sysinfo"}]
    /\ up \subseteq Machine
    /\ probed \subseteq Machine
    /\ faults \in 0..MaxFaults

DevicesInit ==
    /\ devices = [u \in Uuid |-> None]
    /\ latest = [m \in Machine |-> "host"]
    /\ client = [m \in Machine |-> "idle"]
    /\ up = Machine
    /\ probed = {}
    /\ faults = 0

-----------------------------------------------------------------------------
Exists(u) == devices[u] # None
Active(u) == Exists(u) /\ ~devices[u].deleted
Trashed(u) == Exists(u) /\ devices[u].deleted
HasRid(u, rid) == Exists(u) /\ devices[u].rid = rid

Other(u) == <<u[1], CHOOSE k \in Kind : k # u[2]>>

\* UNIQUE (tenant_id, rustdesk_id): a write of rid to u would be refused
RidTaken(u, rid) == HasRid(Other(u), rid)

\* last_seen_at = now()
Seen(u) == latest' = [latest EXCEPT ![u[1]] = u[2]]

Fault == faults < MaxFaults /\ faults' = faults + 1

-----------------------------------------------------------------------------
\* Mutant: only a sysinfo post deletes the placeholder.
DeleteOnSysinfo(m, req) ==
    /\ m \in up
    /\ client[m] = "idle"
    /\ client' = [client EXCEPT ![m] = req]
    /\ devices' = IF req = "sysinfo" /\ HasRid(<<m, "host">>, "id")
                  THEN [devices EXCEPT ![<<m, "host">>] = None]
                  ELSE devices
    /\ UNCHANGED <<latest, up, probed, faults>>

\* The native client's post: first the placeholder of the same RustDesk id is
\* deleted, whatever its deleted_at ...
DeletePlaceholder(m, req) ==
    /\ m \in up
    /\ client[m] = "idle"
    /\ client' = [client EXCEPT ![m] = req]
    /\ devices' = IF HasRid(<<m, "host">>, "id")
                  THEN [devices EXCEPT ![<<m, "host">>] = None]
                  ELSE devices
    /\ UNCHANGED <<latest, up, probed, faults>>

\* Mutant: the upsert clears deleted_at.
UpsertRevives(m) ==
    LET u == <<m, "native">>
        named == client[m] = "sysinfo"
    IN  /\ client[m] # "idle"
        /\ client' = [client EXCEPT ![m] = "idle"]
        /\ devices' = [devices EXCEPT ![u] =
              [rid |-> "id", deleted |-> FALSE, online |-> TRUE, named |-> named]]
        /\ Seen(u)
        /\ UNCHANGED <<up, probed, faults>>

\* ... then the row of its own uuid is inserted or, unless it is in the trash,
\* updated.  A clash of RustDesk ids makes the request fail (500).
UpsertNative(m) ==
    LET u == <<m, "native">>
        named == client[m] = "sysinfo"
    IN  /\ client[m] # "idle"
        /\ client' = [client EXCEPT ![m] = "idle"]
        /\ \/ /\ Active(u)
              /\ devices' = [devices EXCEPT ![u].online = TRUE,
                                            ![u].named = @ \/ named]
              /\ Seen(u)
           \/ /\ ~Exists(u)
              /\ ~RidTaken(u, "id")
              /\ devices' = [devices EXCEPT ![u] =
                    [rid |-> "id", deleted |-> FALSE, online |-> TRUE, named |-> named]]
              /\ Seen(u)
           \/ /\ Trashed(u) \/ (~Exists(u) /\ RidTaken(u, "id"))
              /\ UNCHANGED <<devices, latest>>
        /\ UNCHANGED <<up, probed, faults>>

-----------------------------------------------------------------------------
\* Mutant: every peer is reported online.
QueryAll ==
    /\ HbbsPresence
    /\ probed = {}
    /\ probed' = {m \in Machine : \E k \in Kind : Active(<<m, k>>) /\ HasRid(<<m, k>>, "id")}
    /\ probed' # {}
    /\ UNCHANGED <<devices, latest, client, up, faults>>

\* presence::refresh: the ids of the active rows are sent to hbbs ...
RefreshQuery ==
    /\ HbbsPresence
    /\ probed = {}
    /\ probed' = {m \in up : \E k \in Kind : Active(<<m, k>>) /\ HasRid(<<m, k>>, "id")}
    /\ probed' # {}
    /\ UNCHANGED <<devices, latest, client, up, faults>>

Confirmed(u) == u[1] \in probed /\ Active(u) /\ HasRid(u, "id")

\* ... and the rows it confirmed are brought online, unless trashed meanwhile.
RefreshApply ==
    /\ probed # {}
    /\ devices' = [u \in Uuid |-> IF Confirmed(u)
                                  THEN [devices[u] EXCEPT !.online = TRUE]
                                  ELSE devices[u]]
    /\ latest' = [m \in Machine |->
                    IF \E k \in Kind : Confirmed(<<m, k>>)
                    THEN CHOOSE k \in Kind : Confirmed(<<m, k>>)
                    ELSE latest[m]]
    /\ probed' = {}
    /\ UNCHANGED <<client, up, faults>>

\* The sweeper clears a row nothing has touched for 60 s.  Time is abstract: the
\* caller says which rows have no live source of presence (heartbeats and agent
\* ticks come more often than every 60 s).
Sweep(u) ==
    /\ Exists(u) /\ devices[u].online
    /\ devices' = [devices EXCEPT ![u].online = FALSE]
    /\ UNCHANGED <<latest, client, up, probed, faults>>

-----------------------------------------------------------------------------
\* Trash operations of the dashboard
DeleteDevice(u) ==
    /\ Fault
    /\ Active(u)
    /\ devices' = [devices EXCEPT ![u].deleted = TRUE, ![u].online = FALSE]
    /\ UNCHANGED <<latest, client, up, probed>>

RestoreDevice(u) ==
    /\ Fault
    /\ Trashed(u)
    /\ devices' = [devices EXCEPT ![u].deleted = FALSE]
    /\ UNCHANGED <<latest, client, up, probed>>

PurgeDevice(u) ==
    /\ Fault
    /\ Trashed(u)
    /\ devices' = [devices EXCEPT ![u] = None]
    /\ UNCHANGED <<latest, client, up, probed>>

\* A machine is switched off or on, and its RustDesk client with it.
DevicePower(m) ==
    /\ Fault
    /\ up' = IF m \in up THEN up \ {m} ELSE up \union {m}
    /\ UNCHANGED <<devices, latest, client, probed>>

=============================================================================
