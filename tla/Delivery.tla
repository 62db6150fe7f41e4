------------------------------ MODULE Delivery ------------------------------
(***************************************************************************)
(* How the messages of a thread reach one member: the ids they are stored  *)
(* under (libs/idgen.py through apps/core/models.py), the event published  *)
(* after the commit (apps/messaging/events.py, apps/core/pubsub.py), the   *)
(* gateway's subscription (services/realtime/app.py) and the sync request  *)
(* (ThreadViewSet.sync).                                                   *)
(*                                                                         *)
(* A push is lost if nobody is subscribed when it is published; sync       *)
(* returns what is stored above the id the client sends.  Ids are taken    *)
(* before the commit, so a message may appear below a cursor.  The client  *)
(* is not part of the repository: it is taken to sync from where its last  *)
(* sync ended, when it sees its own "online" event, which the gateway      *)
(* broadcasts after it has subscribed (its "connected" ack comes before).  *)
(***************************************************************************)
EXTENDS Integers, FiniteSets, FiniteSetsExt

CONSTANTS
    Sends,            \* the messages others send to the thread
    MaxConnections    \* bound on how often the client connects

ASSUME DeliveryAssumption == MaxConnections \in Nat /\ IsFiniteSet(Sends)

VARIABLES
    stage,      \* of each send: "none", "numbered", "stored", "announced"
    id,         \* the id each send has taken
    lost,       \* the messages whose publish failed, or never happened
    socket,     \* the client's socket at the gateway
    announced,  \* the client has been told that it is online
    pushed,     \* events in the subscription's buffer
    has,        \* the messages the client has
    synced,     \* it has synced on this connection
    cursor,     \* the largest id its last sync has seen
    below,      \* messages stored only after a sync had passed their id
    connections

deliveryVars == <<stage, id, lost, socket, announced, pushed, has, synced, cursor,
                  below, connections>>
sendVars == <<stage, id, lost>>
clientVars == <<socket, announced, has, synced, cursor, connections>>

DeliveryInit ==
    /\ stage = [m \in Sends |-> "none"]
    /\ id = [m \in Sends |-> 0]
    /\ lost = {}
    /\ socket = "off"
    /\ announced = FALSE
    /\ pushed = {}
    /\ has = {}
    /\ synced = FALSE
    /\ cursor = 0
    /\ below = {}
    /\ connections = 0

Stored == {m \in Sends : stage[m] \in {"stored", "announced"}}
Largest(messages) == Max({0} \cup {id[m] : m \in messages})

-----------------------------------------------------------------------------
(***************************************************************************)
(* Senders                                                                 *)
(***************************************************************************)
To(m, next) == stage' = [stage EXCEPT ![m] = next]

\* Message() takes its id when the object is made, BaseModel.id's default.
Number(m) ==
    /\ stage[m] = "none"
    /\ To(m, "numbered")
    /\ id' = [id EXCEPT ![m] = 1 + Largest(Sends)]
    /\ UNCHANGED <<lost, clientVars, pushed, below>>

Store(m) ==
    /\ stage[m] = "numbered"
    /\ To(m, "stored")
    /\ below' = IF id[m] < cursor THEN below \cup {m} ELSE below
    /\ UNCHANGED <<id, lost, clientVars, pushed>>

\* publish_message_event, after the commit: Redis hands it to whoever is subscribed.
Publish(m) ==
    /\ stage[m] = "stored"
    /\ To(m, "announced")
    /\ pushed' = IF socket = "subscribed" THEN pushed \cup {m} ELSE pushed
    /\ UNCHANGED <<id, lost, clientVars, below>>

\* Redis is away, which publish_event only logs, or the worker has died.
LosePublish(m) ==
    /\ stage[m] = "stored"
    /\ To(m, "announced")
    /\ lost' = lost \cup {m}
    /\ UNCHANGED <<id, clientVars, pushed, below>>

-----------------------------------------------------------------------------
(***************************************************************************)
(* The gateway and the client                                              *)
(***************************************************************************)
\* The socket is accepted, registered and acknowledged.
AcceptClient ==
    /\ socket = "off" /\ connections < MaxConnections
    /\ socket' = "accepted"
    /\ connections' = connections + 1
    /\ UNCHANGED <<sendVars, announced, pushed, has, synced, cursor, below>>

Subscribe ==
    /\ socket = "accepted"
    /\ socket' = "subscribed"
    /\ UNCHANGED <<sendVars, announced, pushed, has, synced, cursor, below, connections>>

\* Mistake: the user is announced as soon as the socket is accepted.
PresenceFirst ==
    /\ socket # "off" /\ ~announced
    /\ announced' = TRUE
    /\ UNCHANGED <<sendVars, socket, pushed, has, synced, cursor, below, connections>>

\* _publish_presence(user_id, "online").
Presence ==
    /\ socket = "subscribed" /\ ~announced
    /\ announced' = TRUE
    /\ UNCHANGED <<sendVars, socket, pushed, has, synced, cursor, below, connections>>

\* _forward_pubsub.
Forward(m) ==
    /\ m \in pushed
    /\ pushed' = pushed \ {m}
    /\ has' = has \cup {m}
    /\ UNCHANGED <<sendVars, socket, announced, synced, cursor, below, connections>>

\* The socket breaks, with all that is buffered for it.
Disconnect ==
    /\ socket # "off"
    /\ socket' = "off"
    /\ announced' = FALSE
    /\ synced' = FALSE
    /\ pushed' = {}
    /\ UNCHANGED <<sendVars, has, cursor, below, connections>>

\* GET sync?since=<cursor>.
Sync ==
    /\ announced /\ ~synced
    /\ has' = has \cup {m \in Stored : id[m] > cursor}
    /\ cursor' = Largest(Stored)
    /\ synced' = TRUE
    /\ UNCHANGED <<sendVars, socket, announced, pushed, below, connections>>

DeliveryNext ==
    \/ \E m \in Sends : Number(m) \/ Store(m) \/ Publish(m) \/ LosePublish(m) \/ Forward(m)
    \/ AcceptClient \/ Subscribe \/ Presence \/ Disconnect \/ Sync

-----------------------------------------------------------------------------
\* A client that has synced on its connection lacks only what is on its way to it,
\* what was never published, and what was stored below the cursor of a sync: with
\* the subscription before the sync nothing falls between the two.
OnlyLateOrLostIsMissed ==
    synced =>
        \A m \in Stored \ has :
            m \in pushed \cup lost \cup below \/ stage[m] = "stored"

=============================================================================
