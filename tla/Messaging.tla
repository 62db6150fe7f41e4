------------------------------ MODULE Messaging ------------------------------
(***************************************************************************)
(* One message thread (apps/messaging/views.py and serializers.py): sends  *)
(* that carry a client_uuid, delivery acknowledgements and read marks of   *)
(* its members, each a request of a web worker on PostgreSQL at READ       *)
(* COMMITTED.                                                              *)
(*                                                                         *)
(* A message takes its id when the object is made and is seen by others    *)
(* when its transaction commits, so ids do not appear in order.  ack and   *)
(* mark_read run without a transaction or a lock: they load rows, decide   *)
(* on the copies and write columns back, one statement at a time.          *)
(***************************************************************************)
EXTENDS Integers, FiniteSetsExt

CONSTANTS
    Members,      \* the members of the thread, who stay
    Uuids,        \* client_uuid values a client makes up
    NoUuid,       \* a send without one
    Requests,     \* the HTTP requests, each sent once
    NoRequest,    \* the holder of the free Thread row
    MaxMessages   \* bound on the messages

ASSUME MessagingAssumption ==
    /\ NoUuid \notin Uuids
    /\ NoRequest \notin Requests
    /\ MaxMessages \in Nat
    /\ IsFiniteSet(Requests)

Ids == 1..MaxMessages

VARIABLES
    message,     \* the committed Message rows, by id
    last_read,   \* ThreadMember.last_read_message; 0: null
    given,       \* how many ids were given out
    lock,        \* the transaction that holds the Thread row
    pc, op,
    id,          \* the message a request makes, acknowledges or reads up to
    listed,      \* the unread messages a read mark has still to save
    answer

vars == <<message, last_read, given, lock, pc, op, id, listed, answer>>

store == <<message, last_read, given, lock>>

Statuses == {"sent", "delivered", "read"}

Row == [sender : Members, uuid : Uuids \cup {NoUuid}, status : Statuses,
        delivered_at : BOOLEAN, read_at : BOOLEAN]

Absent == [status |-> "absent"]

Stored(m) == message[m] # Absent

Sends == [kind : {"send"}, user : Members, uuid : Uuids \cup {NoUuid}]
Acks  == [kind : {"ack"}, user : Members, target : Ids]
Reads == [kind : {"read"}, user : Members, target : Ids \cup {0}]

NoOperation == [kind |-> "none"]

Working == {"lookup", "insert", "touch", "commit",
            "load", "deliver",
            "target", "member", "advance", "list", "mark"}

TypeOK ==
    /\ message \in [Ids -> Row \cup {Absent}]
    /\ last_read \in [Members -> Ids \cup {0}]
    /\ given \in 0..MaxMessages
    /\ lock \in Requests \cup {NoRequest}
    /\ pc \in [Requests -> Working \cup {"new", "ended"}]
    /\ op \in [Requests -> Sends \cup Acks \cup Reads \cup {NoOperation}]
    /\ id \in [Requests -> Ids \cup {0}]
    /\ listed \in [Requests -> SUBSET Ids]
    /\ answer \in [Requests -> {"none", "created", "deduped", "ok", "empty",
                                "missing", "error", "lost"}]

Init ==
    /\ message = [m \in Ids |-> Absent]
    /\ last_read = [u \in Members |-> 0]
    /\ given = 0
    /\ lock = NoRequest
    /\ pc = [r \in Requests |-> "new"]
    /\ op = [r \in Requests |-> NoOperation]
    /\ id = [r \in Requests |-> 0]
    /\ listed = [r \in Requests |-> {}]
    /\ answer = [r \in Requests |-> "none"]

-----------------------------------------------------------------------------
GoTo(r, there) ==
    /\ pc' = [pc EXCEPT ![r] = there]
    /\ UNCHANGED answer

End(r, result) ==
    /\ pc' = [pc EXCEPT ![r] = "ended"]
    /\ answer' = [answer EXCEPT ![r] = result]

SendsBegun == {r \in Requests : op[r].kind = "send"}

\* A member's request arrives, a send while the bound on the messages allows.
Begin(r) ==
    /\ pc[r] = "new"
    /\ \E o \in Sends \cup Acks \cup Reads :
          /\ o.kind = "send" => Cardinality(SendsBegun) < MaxMessages
          /\ op' = [op EXCEPT ![r] = o]
          /\ GoTo(r, CASE o.kind = "send" -> "lookup"
                       [] o.kind = "ack"  -> "load"
                       [] o.kind = "read" -> "target")
    /\ UNCHANGED <<store, id, listed>>

-----------------------------------------------------------------------------
(***************************************************************************)
(* POST messages/                                                          *)
(***************************************************************************)
HasUuid(r) == op[r].uuid # NoUuid

\* Mistake: the message of another sender counts.
AnyWithUuid(r) == {m \in Ids : Stored(m) /\ message[m].uuid = op[r].uuid}

\* The committed message this send repeats.
Repeated(r) ==
    {m \in Ids : /\ Stored(m)
                 /\ message[m].sender = op[r].user
                 /\ message[m].uuid = op[r].uuid}

\* MessageSerializer.create looks for it, or makes a Message, which takes an id.
LookUp(r) ==
    /\ pc[r] = "lookup"
    /\ \/ /\ HasUuid(r) /\ Repeated(r) # {}
          /\ End(r, "deduped")
          /\ UNCHANGED <<given, id>>
       \/ /\ ~HasUuid(r) \/ Repeated(r) = {}
          /\ given' = given + 1
          /\ id' = [id EXCEPT ![r] = given']
          /\ GoTo(r, "insert")
    /\ UNCHANGED <<message, last_read, lock, op, listed>>

Inserted(r) == pc[r] \in {"touch", "commit"}

\* Mistake: no unique (thread, client_uuid).
UuidFree(r) == FALSE

UuidTaken(r) ==
    HasUuid(r) /\ \E m \in Ids : Stored(m) /\ message[m].uuid = op[r].uuid

\* Another transaction has inserted the key and may still roll back.
UuidUndecided(r) ==
    /\ HasUuid(r)
    /\ \E s \in Requests : Inserted(s) /\ op[s].uuid = op[r].uuid

\* The INSERT waits for the other transaction, and fails if the key is taken.
\* The handler of the IntegrityError queries inside the broken transaction, so
\* it raises as well.
Insert(r) ==
    /\ pc[r] = "insert"
    /\ ~UuidUndecided(r)
    /\ IF UuidTaken(r) THEN End(r, "error") ELSE GoTo(r, "touch")
    /\ UNCHANGED <<store, op, id, listed>>

\* thread.save() locks the Thread row.
Touch(r) ==
    /\ pc[r] = "touch"
    /\ lock = NoRequest
    /\ lock' = r
    /\ GoTo(r, "commit")
    /\ UNCHANGED <<message, last_read, given, op, id, listed>>

\* Mistake: the row lock outlives the transaction.
NeverReleased(r) == lock

Released(r) == IF lock = r THEN NoRequest ELSE lock

NewMessage(r) == [sender |-> op[r].user, uuid |-> op[r].uuid, status |-> "sent",
                  delivered_at |-> FALSE, read_at |-> FALSE]

Commit(r) ==
    /\ pc[r] = "commit"
    /\ message' = [message EXCEPT ![id[r]] = NewMessage(r)]
    /\ lock' = Released(r)
    /\ End(r, "created")
    /\ UNCHANGED <<last_read, given, op, id, listed>>

-----------------------------------------------------------------------------
(***************************************************************************)
(* POST messages/<id>/ack/                                                 *)
(***************************************************************************)
\* get_object, and the test of the status on the loaded copy.
Load(r) ==
    LET m == op[r].target
    IN /\ pc[r] = "load"
       /\ \/ /\ ~Stored(m)
             /\ End(r, "missing")
             /\ UNCHANGED id
          \/ /\ Stored(m) /\ message[m].status # "sent"
             /\ End(r, "ok")
             /\ UNCHANGED id
          \/ /\ Stored(m) /\ message[m].status = "sent"
             /\ id' = [id EXCEPT ![r] = m]
             /\ GoTo(r, "deliver")
       /\ UNCHANGED <<store, op, listed>>

\* message.save(update_fields=["status", "delivered_at", ...]).
Deliver(r) ==
    /\ pc[r] = "deliver"
    /\ message' = [message EXCEPT ![id[r]] =
                      [@ EXCEPT !.status = "delivered", !.delivered_at = TRUE]]
    /\ End(r, "ok")
    /\ UNCHANGED <<last_read, given, lock, op, id, listed>>

-----------------------------------------------------------------------------
(***************************************************************************)
(* POST threads/<id>/read/                                                 *)
(***************************************************************************)
Committed == {m \in Ids : Stored(m)}

\* The message named, or the latest if there is no such message.
Target(r) ==
    /\ pc[r] = "target"
    /\ IF Committed = {}
       THEN End(r, "empty") /\ UNCHANGED id
       ELSE /\ id' = [id EXCEPT ![r] =
                         IF op[r].target \in Committed
                         THEN op[r].target ELSE Max(Committed)]
            /\ GoTo(r, "member")
    /\ UNCHANGED <<store, op, listed>>

\* last_read_message moves forward only, judged on the row loaded here.
Member(r) ==
    /\ pc[r] = "member"
    /\ IF last_read[op[r].user] >= id[r]
       THEN id' = [id EXCEPT ![r] = last_read[op[r].user]] /\ GoTo(r, "list")
       ELSE UNCHANGED id /\ GoTo(r, "advance")
    /\ UNCHANGED <<store, op, listed>>

Advance(r) ==
    /\ pc[r] = "advance"
    /\ last_read' = [last_read EXCEPT ![op[r].user] = id[r]]
    /\ GoTo(r, "list")
    /\ UNCHANGED <<message, given, lock, op, id, listed>>

\* Mistake: one's own messages are not excluded.
UpTo(r) == {m \in Committed : m <= id[r] /\ message[m].status # "read"}

\* What the others sent up to there and is not marked read.
Unread(r) ==
    {m \in Committed : /\ m <= id[r]
                       /\ message[m].sender # op[r].user
                       /\ message[m].status # "read"}

List(r) ==
    /\ pc[r] = "list"
    /\ listed' = [listed EXCEPT ![r] = Unread(r)]
    /\ GoTo(r, "mark")
    /\ UNCHANGED <<store, op, id>>

\* One save: delivered_at is the one loaded, or now if there was none.
Marked(row) ==
    [row EXCEPT !.status = "read", !.read_at = TRUE, !.delivered_at = TRUE]

MarkRead(r) ==
    /\ pc[r] = "mark"
    /\ \/ /\ listed[r] = {}
          /\ End(r, "ok")
          /\ UNCHANGED <<message, listed>>
       \/ \E m \in listed[r] :
             /\ message' = [message EXCEPT ![m] = Marked(@)]
             /\ listed' = [listed EXCEPT ![r] = @ \ {m}]
             /\ GoTo(r, "mark")
    /\ UNCHANGED <<last_read, given, lock, op, id>>

-----------------------------------------------------------------------------
\* A worker dies: its transaction is rolled back, its other writes stay.
Crash(r) ==
    /\ pc[r] \in Working
    /\ End(r, "lost")
    /\ lock' = Released(r)
    /\ UNCHANGED <<message, last_read, given, op, id, listed>>

Step(r) ==
    \/ LookUp(r) \/ Insert(r) \/ Touch(r) \/ Commit(r)
    \/ Load(r) \/ Deliver(r)
    \/ Target(r) \/ Member(r) \/ Advance(r) \/ List(r) \/ MarkRead(r)

Next == \E r \in Requests : Begin(r) \/ Step(r) \/ Crash(r)

\* Workers run, and PostgreSQL serves the waiters of a key or a row in turn: a
\* step that can be taken again and again is taken.
Fairness == \A r \in Requests : SF_vars(Step(r))

Spec == Init /\ [][Next]_vars /\ Fairness

-----------------------------------------------------------------------------
(***************************************************************************)
(* Properties                                                              *)
(***************************************************************************)
\* However often and however concurrently a client repeats a send, the thread
\* holds one message with its client_uuid.
StoredOncePerUuid ==
    \A m, n \in Committed :
        message[m].uuid = message[n].uuid /\ message[m].uuid # NoUuid => m = n

\* What the sender is told is so: a created message is the one asked for, a
\* deduplicated one is the sender's own, and a failed send stored nothing.
SendAnswerIsTrue ==
    \A r \in Requests : op[r].kind = "send" =>
        /\ answer[r] = "created" =>
              /\ id[r] \in Committed
              /\ message[id[r]].sender = op[r].user
              /\ message[id[r]].uuid = op[r].uuid
        /\ answer[r] = "deduped" =>
              \E m \in Committed : /\ message[m].sender = op[r].user
                                   /\ message[m].uuid = op[r].uuid
        /\ answer[r] \in {"error", "lost"} => id[r] \notin Committed

\* Status and timestamps of a message tell one story, whichever stale copies
\* acks and read marks are saved from: what is read was delivered, and a
\* message that is still "sent" has neither time.
TimesMatchStatus ==
    \A m \in Committed :
        /\ message[m].read_at => message[m].delivered_at
        /\ message[m].status = "read" => message[m].read_at
        /\ message[m].status = "sent" <=> ~message[m].delivered_at

\* A read receipt is real: someone other than the sender asked to have the
\* thread read up to this message or beyond.
ReadByARecipient ==
    \A m \in Committed : message[m].read_at =>
        \E r \in Requests : /\ op[r].kind = "read"
                            /\ op[r].user # message[m].sender
                            /\ id[r] >= m

\* Every row is well formed, and receipts are true: read by a recipient, and in agreement with the status.
ReceiptsAreTrue == TypeOK /\ ReadByARecipient /\ TimesMatchStatus

\* Every request ends, whoever else inserts the same key or holds the thread.
\* Each is sent once, so at last none is at work.
EveryRequestEnds == <>[](\A r \in Requests : pc[r] \notin Working)

\* tests/test_messaging_reliability.py: "Marking read moves status forward;
\* another ack should not regress it."
StatusForwardOnly ==
    [][\A m \in Committed :
          message[m].status = "read" => message'[m].status = "read"]_vars

=============================================================================
