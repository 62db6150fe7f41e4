------------------------------- MODULE Notify -------------------------------
(***************************************************************************)
(* The notifications of a message (apps/notifications, called by the send  *)
(* handlers of apps/messaging): one row in the app for every other member  *)
(* of the thread, and a Celery task that sends a push to the devices.      *)
(*                                                                         *)
(* A block between two users, either way, refuses the message in a direct  *)
(* thread; in a group it leaves the pair out of the notifications.  A mute *)
(* leaves out the push alone.  All are read with statements of their own,  *)
(* after the message is committed, and written one by one; whoever repeats *)
(* a send with its client_uuid gets the stored message and notifies        *)
(* nobody.                                                                 *)
(***************************************************************************)
EXTENDS Integers

CONSTANTS
    Letters,      \* messages of one sender, each with a client_uuid of its own
    DirectLetters,       \* the messages of a direct thread
    Recipients,   \* the other members
    MaxTries      \* bound on the requests that send a message

ASSUME NotifyAssumption == DirectLetters \subseteq Letters /\ MaxTries \in Nat \ {0}

VARIABLES
    blocks,      \* the recipients with a Block row, by who made it
    mutes,       \* the recipients who mute the sender
    letter,      \* per message: [pc, try, to, loud, left]: its latest request
    posted,      \* the messages in the database
    noted,       \* how many Notification rows each message gave each recipient
    waiting,     \* push tasks that wait for a worker
    buzzed,      \* how many pushes reached each recipient's devices
    stood,       \* what stood between them at some time of a request
    broken       \* messages whose request died after the commit

notifyVars == <<blocks, mutes, letter, posted, noted, waiting, buzzed, stood, broken>>

Zero == [m \in Letters |-> [u \in Recipients |-> 0]]

NotifyInit ==
    /\ blocks = [by |-> {}, of |-> {}]
    /\ mutes = {}
    /\ letter = [m \in Letters |-> [pc |-> "new", try |-> 0, to |-> {}, loud |-> {}, left |-> {}]]
    /\ posted = {}
    /\ noted = Zero
    /\ waiting = Zero
    /\ buzzed = Zero
    /\ stood = [m \in Letters |-> {}]
    /\ broken = {}

Stage(m, pc) == letter[m].pc = pc
OnItsWay(m) == letter[m].pc \notin {"new", "done"}
rest == <<posted, noted, waiting, buzzed, broken>>

\* Block rows of the pair in either direction.
Blocked == blocks.by \cup blocks.of

Standing(B, M) ==
    {<<u, "blocked">> : u \in B} \cup {<<u, "free">> : u \in Recipients \ B}
    \cup {<<u, "heard">> : u \in Recipients \ M}

Watch ==
    stood' = [m \in Letters |->
                IF OnItsWay(m) THEN stood[m] \cup Standing(blocks'.by \cup blocks'.of, mutes')
                ELSE stood[m]]

SetBlock(u, side) ==
    /\ blocks' = [blocks EXCEPT ![side] = IF u \in @ THEN @ \ {u} ELSE @ \cup {u}]
    /\ UNCHANGED <<mutes, letter, rest>>
    /\ Watch

SetMute(u) ==
    /\ mutes' = IF u \in mutes THEN mutes \ {u} ELSE mutes \cup {u}
    /\ UNCHANGED <<blocks, letter, rest>>
    /\ Watch

-----------------------------------------------------------------------------
(***************************************************************************)
(* The request                                                             *)
(***************************************************************************)
Send(m) ==
    /\ Stage(m, "new") \/ (Stage(m, "done") /\ letter[m].try < MaxTries)
    /\ letter' = [letter EXCEPT ![m] = [@ EXCEPT !.pc = "check", !.try = letter[m].try + 1]]
    /\ stood' = [stood EXCEPT ![m] = @ \cup Standing(blocks.by \cup blocks.of, mutes)]
    /\ UNCHANGED <<blocks, mutes, rest>>

\* _is_blocked_between.
CheckBlocks(m) ==
    /\ Stage(m, "check")
    /\ letter' = [letter EXCEPT ![m].pc =
                    IF m \in DirectLetters /\ Blocked # {} THEN "done" ELSE "save"]
    /\ UNCHANGED <<blocks, mutes, rest, stood>>

\* Mistake: a repeated send is told from the first by nothing.
NeverRepeated(m) == FALSE

\* _deduped: the message with this client_uuid is there.
Repeats(m) == m \in posted

SaveLetter(m) ==
    /\ Stage(m, "save")
    /\ posted' = posted \cup {m}
    /\ letter' = [letter EXCEPT ![m].pc = IF Repeats(m) THEN "done" ELSE "blocks"]
    /\ UNCHANGED <<blocks, mutes, noted, waiting, buzzed, stood, broken>>

\* notify_thread_message: the blocks, then the mutes.
ReadBlocks(m) ==
    /\ Stage(m, "blocks")
    /\ letter' = [letter EXCEPT ![m] = [@ EXCEPT !.pc = "mutes", !.to = Recipients \ Blocked]]
    /\ UNCHANGED <<blocks, mutes, rest, stood>>

ReadMutes(m) ==
    /\ Stage(m, "mutes")
    /\ letter' = [letter EXCEPT ![m] = [@ EXCEPT !.pc = "note", !.left = letter[m].to,
                                                !.loud = letter[m].to \ mutes]]
    /\ UNCHANGED <<blocks, mutes, rest, stood>>

\* create_in_app_notification, for one after the other.
Note(m, u) ==
    /\ Stage(m, "note") /\ u \in letter[m].left
    /\ noted' = [noted EXCEPT ![m][u] = @ + 1]
    /\ letter' = [letter EXCEPT ![m].left = @ \ {u}]
    /\ UNCHANGED <<blocks, mutes, posted, waiting, buzzed, stood, broken>>

\* notify_new_message.delay, for one after the other.
QueuePush(m, u) ==
    /\ Stage(m, "note") /\ letter[m].left = {} /\ u \in letter[m].loud
    /\ waiting' = [waiting EXCEPT ![m][u] = @ + 1]
    /\ letter' = [letter EXCEPT ![m].loud = @ \ {u}]
    /\ UNCHANGED <<blocks, mutes, posted, noted, buzzed, stood, broken>>

Finished(m) ==
    /\ Stage(m, "note") /\ letter[m].left = {} /\ letter[m].loud = {}
    /\ letter' = [letter EXCEPT ![m].pc = "done"]
    /\ UNCHANGED <<blocks, mutes, rest, stood>>

DieSending(m) ==
    /\ OnItsWay(m)
    /\ letter' = [letter EXCEPT ![m].pc = "done"]
    /\ broken' = IF m \in posted THEN broken \cup {m} ELSE broken
    /\ UNCHANGED <<blocks, mutes, posted, noted, waiting, buzzed, stood>>

\* Whether push is enabled, the quiet hours and the devices decide.
Rings(m, u) == {buzzed, [buzzed EXCEPT ![m][u] = @ + 1]}

\* The task does not read blocks and mutes again.
RunPush(m, u) ==
    /\ waiting[m][u] > 0
    /\ waiting' = [waiting EXCEPT ![m][u] = @ - 1]
    /\ buzzed' \in Rings(m, u)
    /\ UNCHANGED <<blocks, mutes, letter, posted, noted, stood, broken>>

NotifyNext ==
    \/ \E u \in Recipients :
          \/ SetMute(u) \/ \E side \in {"by", "of"} : SetBlock(u, side)
          \/ \E m \in Letters : Note(m, u) \/ QueuePush(m, u) \/ RunPush(m, u)
    \/ \E m \in Letters :
          \/ Send(m) \/ CheckBlocks(m) \/ SaveLetter(m) \/ ReadBlocks(m) \/ ReadMutes(m)
          \/ Finished(m) \/ DieSending(m)

-----------------------------------------------------------------------------
\* However often a message is sent again, it gives a member one row and at most one
\* push: none if a block stood between the two, or for the push a mute, all the time.
\* No row is missing unless there was a block or the request died after the commit.
NotifiedAsAllowed ==
    \A m \in Letters, u \in Recipients :
        /\ noted[m][u] <= 1 /\ buzzed[m][u] <= noted[m][u]
        /\ noted[m][u] > 0 => <<u, "free">> \in stood[m]
        /\ buzzed[m][u] > 0 => <<u, "heard">> \in stood[m]
        /\ m \in posted /\ ~OnItsWay(m) /\ noted[m][u] = 0 =>
              m \in broken \/ <<u, "blocked">> \in stood[m]

=============================================================================
