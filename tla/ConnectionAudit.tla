--------------------------- MODULE ConnectionAudit ---------------------------
(***************************************************************************)
(* The audit of remote connections: a click of the dashboard enters a      *)
(* launch, and the RustDesk client of the controlled PC posts that a       *)
(* connection is new, who its peer is, and that it was closed.  A post is  *)
(* one PostgreSQL transaction under READ COMMITTED: a statement sees what  *)
(* was committed when it began, waits for a row another transaction has    *)
(* locked, and goes on with that row as it is then.                        *)
(*                                                                         *)
(* The client repeats a post with the same nonce until it is answered, and *)
(* sends the next one whether or not the last was answered.  Names,        *)
(* addresses and times are left out, and that a nonce is forgotten after a *)
(* day.                                                                    *)
(***************************************************************************)
EXTENDS Naturals, Sequences

CONSTANTS Device, Session, Tx, None,
          Target,    \* the device a session connects to
          MaxClicks, \* bound on clicks on "Conectar"
          MaxPosts,  \* bound on posts, repeated ones included
          MaxFaults  \* bound on launches that expire, failing transactions, lost answers

ASSUME TargetAssumption == Target \in [Session -> Device]
ASSUME NoneAssumption == None \notin Session
ASSUME BoundsAssumption == {MaxClicks, MaxPosts, MaxFaults} \subseteq Nat

\* In the order the client sends them
Action == <<"new", "peer", "close">>
Msg == [session: Session, action: {"new", "peer", "close"}]

\* fresh: launched within the last two minutes; ended: ended_at is set
Row == [target: Device, session: Session \union {None},
        status: {"launched", "connecting", "active", "closed"}, fresh: BOOLEAN, ended: BOOLEAN]

VARIABLES
    rows,    \* the table connection_audit in the order of created_at, as committed
    nonces,  \* connection_audit_nonces, as committed; the nonce is that of the message
    tx,      \* transaction -> how far it is
    sent,  \* messages posted at least once
    told,    \* messages the client knows to be handled
    clicks, posts, faults, \* counters, for the bounds
    hurried, \* history: sessions that posted a message before the last one was answered
    crossed  \* history: sessions closed while their peer message had found the row

counters == <<clicks, posts, faults>>
auditVars == <<rows, nonces, tx, sent, told, counters, hurried, crossed>>

\* cand: rows the statement found and has not looked at yet; pick: the row it locked, 0 if
\* none; seen: history, all it found.
TxState == [pc: {"idle", "nonce", "find", "lock", "commit"}, msg: Msg \union {None},
            cand: SUBSET Nat, pick: Nat, seen: SUBSET Nat]

\* Every variable holds a value of its kind, and only a launch has no session.
AuditTypeOK ==
    /\ rows \in Seq(Row)
    /\ \A r \in DOMAIN rows : rows[r].session = None <=> rows[r].status = "launched"
    /\ nonces \subseteq Msg
    /\ tx \in [Tx -> TxState]
    /\ \A t \in Tx : /\ tx[t].pick \in 0..Len(rows)
                     /\ tx[t].cand \union tx[t].seen \subseteq DOMAIN rows
    /\ sent \subseteq Msg /\ told \subseteq sent
    /\ clicks \in 0..MaxClicks /\ posts \in 0..MaxPosts /\ faults \in 0..MaxFaults
    /\ hurried \subseteq Session /\ crossed \subseteq Session

NoTx == [pc |-> "idle", msg |-> None, cand |-> {}, pick |-> 0, seen |-> {}]

AuditInit ==
    /\ rows = << >> /\ nonces = {}
    /\ tx = [t \in Tx |-> NoTx]
    /\ sent = {} /\ told = {}
    /\ clicks = 0 /\ posts = 0 /\ faults = 0
    /\ hurried = {} /\ crossed = {}

-----------------------------------------------------------------------------
(* Clicks and posts *)

\* register_launch
RegisterLaunch(d) ==
    /\ clicks < MaxClicks /\ clicks' = clicks + 1
    /\ rows' = Append(rows, [target |-> d, session |-> None, status |-> "launched",
                             fresh |-> TRUE, ended |-> FALSE])
    /\ UNCHANGED <<nonces, tx, sent, told, posts, faults, hurried, crossed>>

Fault == faults < MaxFaults /\ faults' = faults + 1

\* Two minutes pass.
Expire(r) ==
    /\ rows[r].status = "launched" /\ rows[r].fresh
    /\ Fault
    /\ rows' = [rows EXCEPT ![r].fresh = FALSE]
    /\ UNCHANGED <<nonces, tx, sent, told, clicks, posts, hurried, crossed>>

Before(m) ==
    {p \in Msg : /\ p.session = m.session
                 /\ \E i, j \in 1..3 : i < j /\ p.action = Action[i] /\ m.action = Action[j]}

\* Messages are posted in their order, a refused connection has no peer.  One is posted
\* again as long as it was not answered.
Post(t, m) ==
    /\ tx[t].pc = "idle" /\ m \notin told
    /\ \/ m \in sent
       \/ /\ m.action # "new" => [m EXCEPT !.action = "new"] \in sent
          /\ \A p \in sent : m \notin Before(p)
    /\ posts < MaxPosts /\ posts' = posts + 1
    /\ tx' = [tx EXCEPT ![t] = [NoTx EXCEPT !.pc = "nonce", !.msg = m]]
    /\ sent' = sent \union {m}
    /\ hurried' = IF Before(m) \intersect sent \subseteq told THEN hurried
                  ELSE hurried \union {m.session}
    /\ UNCHANGED <<rows, nonces, told, clicks, faults, crossed>>

-----------------------------------------------------------------------------
(* receive_connection_audit, statement by statement *)

\* The client gets the answer, or not.
Answer(m) ==
    \/ told' = told \union {m} /\ UNCHANGED faults
    \/ Fault /\ UNCHANGED told

\* Mutant: looks for the nonce without waiting for who is about to insert it.
NoWait(t) == FALSE

\* Another transaction has inserted the nonce and is not committed.
NonceHeld(t) ==
    \E u \in Tx \ {t} : tx[u].msg = tx[t].msg /\ tx[u].pc \in {"find", "lock", "commit"}

\* INSERT ... ON CONFLICT DO NOTHING waits for who has inserted the same nonce.
InsertNonce(t) ==
    /\ tx[t].pc = "nonce" /\ ~NonceHeld(t)
    /\ IF tx[t].msg \in nonces
       THEN tx' = [tx EXCEPT ![t] = NoTx] /\ Answer(tx[t].msg)
       ELSE tx' = [tx EXCEPT ![t].pc = "find"] /\ UNCHANGED <<told, faults>>
    /\ UNCHANGED <<rows, nonces, sent, clicks, posts, hurried, crossed>>

\* The launches a new connection may take
Launches(s) == {r \in DOMAIN rows : rows[r].target = Target[s] /\ rows[r].status = "launched"
                                    /\ rows[r].fresh}

\* Mutant: without ended_at IS NULL.
AnyRows(s) == {r \in DOMAIN rows : rows[r].session = s}

\* The rows a peer or a close message is about
OpenRows(s) == {r \in DOMAIN rows : rows[r].session = s /\ ~rows[r].ended}

\* The last of some rows
Newest(found) == {r \in found : \A q \in found : q <= r}

\* What the SELECT of a message finds: launches by age, or the newest open row.
Found(m) ==
    LET s == m.session
    IN IF m.action = "new" THEN Launches(s)
       ELSE Newest(OpenRows(s))

FindRow(t) ==
    /\ tx[t].pc = "find"
    /\ LET found == Found(tx[t].msg)
       IN tx' = [tx EXCEPT ![t].pc = "lock", ![t].cand = found, ![t].seen = found]
    /\ UNCHANGED <<rows, nonces, sent, told, counters, hurried, crossed>>

\* Another transaction has locked row r.
Locked(t, r) == \E u \in Tx \ {t} : tx[u].pc = "commit" /\ tx[u].pick = r

\* After waiting, FOR UPDATE tests again whether a launch was taken; UPDATE only tests the
\* id again, whose subquery is not evaluated a second time.
StillRight(t, r) == tx[t].msg.action = "new" => rows[r].status = "launched"

\* Mutant: LIMIT 1 is applied before the lock.
LockOnce(t) ==
    /\ tx[t].pc = "lock"
    /\ \/ tx[t].cand = {} /\ tx' = [tx EXCEPT ![t].pc = "commit"]
       \/ \E r \in Newest(tx[t].cand) :
             /\ ~Locked(t, r)
             /\ tx' = IF StillRight(t, r) THEN [tx EXCEPT ![t].pc = "commit", ![t].pick = r]
                      ELSE [tx EXCEPT ![t].cand = {}]
    /\ UNCHANGED <<rows, nonces, sent, told, counters, hurried, crossed>>

\* The newest row found is locked, when no one else has it; one that does not fit any more
\* is passed over for the next.
LockRow(t) ==
    /\ tx[t].pc = "lock"
    /\ \/ tx[t].cand = {} /\ tx' = [tx EXCEPT ![t].pc = "commit"]
       \/ \E r \in Newest(tx[t].cand) :
             /\ ~Locked(t, r)
             /\ tx' = IF StillRight(t, r) THEN [tx EXCEPT ![t].pc = "commit", ![t].pick = r]
                      ELSE [tx EXCEPT ![t].cand = @ \ {r}]
    /\ UNCHANGED <<rows, nonces, sent, told, counters, hurried, crossed>>

\* Mutant: a launch that is taken keeps its status.
WrittenLaunch(t) ==
    LET m == tx[t].msg
        r == tx[t].pick
    IN CASE r = 0 -> rows
         [] r # 0 /\ m.action = "new" -> [rows EXCEPT ![r].session = m.session]
         [] r # 0 /\ m.action = "peer" -> [rows EXCEPT ![r].status = "active"]
         [] r # 0 /\ m.action = "close" -> [rows EXCEPT ![r].status = "closed", ![r].ended = TRUE]

\* The table when t is committed
Written(t) ==
    LET m == tx[t].msg
        r == tx[t].pick
    IN CASE m.action = "new" /\ r = 0 ->
              Append(rows, [target |-> Target[m.session], session |-> m.session,
                            status |-> "connecting", fresh |-> FALSE, ended |-> FALSE])
         [] m.action = "new" /\ r # 0 ->
              [rows EXCEPT ![r].session = m.session, ![r].status = "connecting"]
         [] m.action = "peer" /\ r # 0 -> [rows EXCEPT ![r].status = "active"]
         [] m.action = "close" /\ r # 0 -> [rows EXCEPT ![r].status = "closed", ![r].ended = TRUE]
         [] OTHER -> rows

\* The peer message of session s has found row r and waits for it.
PeerWaits(s, r) ==
    \E u \in Tx : /\ tx[u].pc = "lock" /\ r \in tx[u].cand
                  /\ tx[u].msg = [session |-> s, action |-> "peer"]

Commit(t) ==
    LET m == tx[t].msg
    IN /\ tx[t].pc = "commit"
       /\ rows' = Written(t)
       /\ nonces' = nonces \union {m}
       /\ tx' = [tx EXCEPT ![t] = NoTx]
       /\ Answer(m)
       /\ crossed' = IF m.action = "close" /\ PeerWaits(m.session, tx[t].pick)
                     THEN crossed \union {m.session} ELSE crossed
       /\ UNCHANGED <<sent, clicks, posts, hurried>>

\* Mutant: the nonce is committed on its own.
AbortKeepsNonce(t) ==
    /\ tx[t].pc # "idle"
    /\ Fault
    /\ tx' = [tx EXCEPT ![t] = NoTx]
    /\ nonces' = IF tx[t].pc = "nonce" THEN nonces ELSE nonces \union {tx[t].msg}
    /\ UNCHANGED <<rows, sent, told, clicks, posts, hurried, crossed>>

\* A statement fails, or plus-api stops: nothing of the transaction stays.
Abort(t) ==
    /\ tx[t].pc # "idle"
    /\ Fault
    /\ tx' = [tx EXCEPT ![t] = NoTx]
    /\ UNCHANGED <<rows, nonces, sent, told, clicks, posts, hurried, crossed>>

TxStep(t) == InsertNonce(t) \/ FindRow(t) \/ LockRow(t) \/ Commit(t)

AuditNext ==
    \/ \E d \in Device : RegisterLaunch(d)
    \/ \E r \in DOMAIN rows : Expire(r)
    \/ \E t \in Tx, m \in Msg : Post(t, m)
    \/ \E t \in Tx : TxStep(t) \/ Abort(t)

AuditSpec == AuditInit /\ [][AuditNext]_auditVars

-----------------------------------------------------------------------------
(* Properties *)

Told(s, action) == [session |-> s, action |-> action] \in told

\* However often a message is repeated, also while it is being handled, a connection has at
\* most one row (connection_audit_nonces).
OneRowPerSession ==
    \A q, r \in DOMAIN rows : rows[q].session = rows[r].session /\ rows[q].session # None => q = r

\* What a client was told stands in the table: its connection, also if a repetition was
\* answered (connection_audit_nonces, rolled back with the rest), and its end, if it waits
\* for each answer (close).
AnsweredIsDone ==
    \A s \in Session :
        /\ Told(s, "new") => \E r \in DOMAIN rows :
              rows[r].session = s /\ rows[r].target = Target[s]
        /\ s \notin hurried /\ Told(s, "close") => \E r \in DOMAIN rows :
              rows[r].session = s /\ rows[r].ended /\ rows[r].status = "closed"

\* A connection is entered without a launch only if each one its statement found has been
\* taken by another connection (ORDER BY launched_at DESC LIMIT 1 FOR UPDATE).
NoLaunchIsWasted ==
    [][\A t \in Tx : tx[t].pc = "commit" /\ Len(rows') > Len(rows) /\ tx'[t].pc = "idle" =>
         \A r \in tx[t].seen : rows[r].status # "launched"]_auditVars

\* A row that was closed stays as it is, unless the peer message of the connection had
\* found it before: that one waits, and sets it to active again (UPDATE ... WHERE id =).
ClosedIsFinal ==
    [][\A r \in DOMAIN rows :
         rows[r].ended /\ rows[r].session \notin crossed => rows'[r] = rows[r]]_auditVars

=============================================================================
