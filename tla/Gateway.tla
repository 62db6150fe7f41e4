------------------------------- MODULE Gateway -------------------------------
(***************************************************************************)
(* The connection table of the realtime gateway (services/realtime:        *)
(* manager.py, and the endpoint of app.py that fills it).                  *)
(*                                                                         *)
(* One event loop runs an endpoint and a forwarding task for each socket,  *)
(* and the endpoints broadcast to all sockets.  They interleave at every   *)
(* await: a send waits for the lock of its socket, and then for the        *)
(* network, while another task may find the socket stale, drop it from the *)
(* table and throw its lock away.  A lock that was thrown away may still   *)
(* be held: locks have an identity here, and a new one is made when none   *)
(* is found.                                                               *)
(***************************************************************************)
EXTENDS Integers, FiniteSets

CONSTANTS
    Sockets, UserOf,   \* the sockets and their users; one user may have several
    Tasks,             \* coroutines that send
    MaxSends           \* bound on the sends started

ASSUME GatewayAssumption == MaxSends \in Nat /\ Sockets # {}

VARIABLES
    wire,      \* the state of each socket, as _is_connected sees it
    table,     \* manager.connections
    lock,      \* manager._locks: the lock a socket has now; 0 is none
    made,      \* locks made so far
    held,      \* the locks that are held, thrown away or not
    pc,        \* where each task stands: "idle", "waiting", "sending", "stale"
    to,        \* the socket it sends to
    mine,      \* the lock it waits for or holds
    sends

gatewayVars == <<wire, table, lock, made, held, pc, to, mine, sends>>

GatewayInit ==
    /\ wire = [ws \in Sockets |-> "new"]
    /\ table = {}
    /\ lock = [ws \in Sockets |-> 0]
    /\ made = 0
    /\ held = {}
    /\ pc = [t \in Tasks |-> "idle"]
    /\ to = [t \in Tasks |-> CHOOSE ws \in Sockets : TRUE]
    /\ mine = [t \in Tasks |-> 0]
    /\ sends = 0

IsConnected(ws) == wire[ws] = "open"

\* self._locks.setdefault(id(websocket), asyncio.Lock())
LockFor(ws) == IF lock[ws] = 0 THEN made + 1 ELSE lock[ws]
TakesLock(ws) ==
    /\ lock' = [lock EXCEPT ![ws] = LockFor(ws)]
    /\ made' = IF lock[ws] = 0 THEN made + 1 ELSE made

\* manager.connect: the socket is accepted and registered.
Connect(ws) ==
    /\ wire[ws] = "new"
    /\ wire' = [wire EXCEPT ![ws] = "open"]
    /\ table' = table \cup {ws}
    /\ TakesLock(ws)
    /\ UNCHANGED <<held, pc, to, mine, sends>>

\* manager.disconnect, which does nothing for a user who has no socket left.
Drop(ws) ==
    IF \E other \in table : UserOf[other] = UserOf[ws]
    THEN table' = table \ {ws} /\ lock' = [lock EXCEPT ![ws] = 0]
    ELSE UNCHANGED <<table, lock>>

\* The client goes away: receive_text raises, or a send will.
Break(ws) ==
    /\ wire[ws] = "open"
    /\ wire' = [wire EXCEPT ![ws] = "broken"]
    /\ UNCHANGED <<table, lock, made, held, pc, to, mine, sends>>

\* The endpoint ends on a socket that is gone.
End(ws) ==
    /\ wire[ws] = "broken"
    /\ wire' = [wire EXCEPT ![ws] = "closed"]
    /\ Drop(ws)
    /\ UNCHANGED <<made, held, pc, to, mine, sends>>

\* It ends on text that is not JSON: the socket is dropped while still connected.
EndOnBadText(ws) ==
    /\ wire[ws] = "open" /\ ws \in table
    /\ Drop(ws)
    /\ UNCHANGED <<wire, made, held, pc, to, mine, sends>>

\* The server closes the socket of an endpoint that has returned.
Close(ws) ==
    /\ wire[ws] = "open" /\ ws \notin table
    /\ wire' = [wire EXCEPT ![ws] = "closed"]
    /\ UNCHANGED <<table, lock, made, held, pc, to, mine, sends>>

-----------------------------------------------------------------------------
(***************************************************************************)
(* safe_send_text and its callers                                          *)
(***************************************************************************)
At(t, here, next) == pc[t] = here /\ pc' = [pc EXCEPT ![t] = next]

\* Mistake: every send makes a lock of its own.
BeginWithOwnLock(t, ws) ==
    /\ IsConnected(ws) /\ sends < MaxSends
    /\ At(t, "idle", "waiting")
    /\ made' = made + 1
    /\ mine' = [mine EXCEPT ![t] = made + 1]
    /\ to' = [to EXCEPT ![t] = ws]
    /\ sends' = sends + 1
    /\ UNCHANGED <<wire, table, lock, held>>

Begin(t, ws) ==
    /\ IsConnected(ws) /\ sends < MaxSends
    /\ At(t, "idle", "waiting")
    /\ TakesLock(ws)
    /\ mine' = [mine EXCEPT ![t] = LockFor(ws)]
    /\ to' = [to EXCEPT ![t] = ws]
    /\ sends' = sends + 1
    /\ UNCHANGED <<wire, table, held>>

\* A socket listed before, and gone meanwhile, is stale without a lock.
FindGone(t, ws) ==
    /\ wire[ws] \in {"broken", "closed"} /\ sends < MaxSends
    /\ At(t, "idle", "stale")
    /\ to' = [to EXCEPT ![t] = ws]
    /\ sends' = sends + 1
    /\ UNCHANGED <<wire, table, lock, made, held, mine>>

\* The lock is free: the socket is checked again before anything is sent.
Acquire(t) ==
    /\ mine[t] \notin held
    /\ IF IsConnected(to[t])
       THEN At(t, "waiting", "sending") /\ held' = held \cup {mine[t]}
       ELSE At(t, "waiting", "stale") /\ UNCHANGED held
    /\ UNCHANGED <<wire, table, lock, made, to, mine, sends>>

\* The text is sent, or sending it has failed.
Finish(t, next) ==
    /\ At(t, "sending", next)
    /\ next = "idle" => IsConnected(to[t])
    /\ held' = held \ {mine[t]}
    /\ UNCHANGED <<wire, table, lock, made, to, mine, sends>>

\* A broadcast drops the sockets it could not reach.
DropStale(t) ==
    /\ At(t, "stale", "idle")
    /\ Drop(to[t])
    /\ UNCHANGED <<wire, made, held, to, mine, sends>>

\* A forwarding task, or the reply to an unknown event, drops nothing.
GiveUp(t) ==
    /\ At(t, "stale", "idle")
    /\ UNCHANGED <<wire, table, lock, made, held, to, mine, sends>>

GatewayNext ==
    \/ \E ws \in Sockets :
          \/ Connect(ws) \/ Break(ws) \/ End(ws) \/ EndOnBadText(ws) \/ Close(ws)
          \/ \E t \in Tasks : Begin(t, ws) \/ FindGone(t, ws)
    \/ \E t \in Tasks :
          Acquire(t) \/ DropStale(t) \/ GiveUp(t) \/ \E next \in {"idle", "stale"} : Finish(t, next)

-----------------------------------------------------------------------------
\* A socket in the table has one writer at a time: the frames of two events never
\* mix, although sockets are dropped, and their locks with them, while sends wait.
OneWriter ==
    \A ws \in table :
        Cardinality({t \in Tasks : pc[t] = "sending" /\ to[t] = ws}) <= 1

=============================================================================
