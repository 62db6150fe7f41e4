------------------------------ MODULE Threads -------------------------------
(***************************************************************************)
(* Who is in a thread: POST threads, threads/direct and threads/<id>/leave *)
(* of apps/messaging/views.py with ThreadSerializer.create.                *)
(*                                                                         *)
(* direct looks for a thread of the two users and makes one if there is    *)
(* none; leave deletes the membership and then asks who remains.  Nothing  *)
(* is locked between the two steps of either, and an open transaction does *)
(* not see the deletions of another.  Requests that are refused (a blocked *)
(* pair, an unknown user, a stranger to the thread) change nothing and are *)
(* not actions.                                                            *)
(***************************************************************************)
EXTENDS Integers, Sequences, FiniteSets

CONSTANTS
    People,
    Calls,        \* requests
    MaxThreads    \* bound on the threads made

ASSUME ThreadsAssumption == MaxThreads \in Nat

VARIABLES
    threads,   \* sequence of [members, group, exists, maker]
    call,      \* per request: [op, by, with, thread, remaining, pc]
    overlaps   \* pairs of requests that were in progress at the same time

threadVars == <<threads, call, overlaps>>

Started(op, by, with, t, pc) ==
    [op |-> op, by |-> by, with |-> with, thread |-> t, remaining |-> {}, pc |-> pc]

ThreadsInit ==
    /\ threads = <<>>
    /\ call = [c \in Calls |-> [pc |-> "new"]]
    /\ overlaps = {}

Running(c) == call[c].pc \notin {"new", "done"}
\* A request that begins overlaps all that run.
Meets(c) == overlaps' = overlaps \cup {{c, d} : d \in {e \in Calls : Running(e)}}
Becomes(c, value) == call' = [call EXCEPT ![c] = value]
Ends(c) == Becomes(c, [call[c] EXCEPT !.pc = "done"])

\* thread.members.filter(user=request.user).exists(), of get_object.
IsMember(u, t) == threads[t].exists /\ u \in threads[t].members

\* The transaction of ThreadSerializer.create: the thread, its members, a first message.
NewThread(c, members, group) ==
    /\ Len(threads) < MaxThreads
    /\ threads' = Append(threads,
         [members |-> members, group |-> group, exists |-> TRUE, maker |-> c])

-----------------------------------------------------------------------------
(***************************************************************************)
(* POST threads: validate_participant_ids adds the caller, and somebody    *)
(* else must be there.                                                     *)
(***************************************************************************)
Create(c) ==
    /\ call[c].pc = "new"
    /\ \E by \in People, others \in SUBSET People, group \in BOOLEAN :
          /\ others \ {by} # {}
          /\ NewThread(c, others \cup {by}, group)
          /\ Becomes(c, Started("create", by, others, 0, "done"))
    /\ Meets(c)

-----------------------------------------------------------------------------
(***************************************************************************)
(* POST threads/direct                                                     *)
(***************************************************************************)
FoundDirect(u, v) ==
    {t \in 1..Len(threads) :
        threads[t].exists /\ ~threads[t].group /\ threads[t].members = {u, v}}

Direct(c) ==
    /\ call[c].pc = "new"
    /\ \E by \in People : \E with \in People \ {by} :
          /\ IF FoundDirect(by, with) # {}
             THEN \E t \in FoundDirect(by, with) :
                     Becomes(c, Started("direct", by, {with}, t, "done"))
             ELSE Becomes(c, Started("direct", by, {with}, 0, "creating"))
    /\ Meets(c)
    /\ UNCHANGED threads

CreateDirect(c) ==
    /\ call[c].pc = "creating"
    /\ NewThread(c, {call[c].by} \cup call[c].with, FALSE)
    /\ Becomes(c, [call[c] EXCEPT !.thread = Len(threads) + 1, !.pc = "done"])
    /\ UNCHANGED overlaps

-----------------------------------------------------------------------------
(***************************************************************************)
(* POST threads/<id>/leave                                                 *)
(***************************************************************************)
\* Mistake: the members are listed before the membership is deleted.
RemainingBefore(u, t) == threads[t].members

Remaining(u, t) == threads[t].members \ {u}

\* The membership is deleted, not yet committed, and the others are listed.
Leave(c) ==
    /\ call[c].pc = "new"
    /\ \E by \in People, t \in 1..Len(threads) :
          /\ IsMember(by, t)
          /\ Becomes(c, [Started("leave", by, {}, t, "leaving") EXCEPT
                           !.remaining = Remaining(by, t)])
    /\ Meets(c)
    /\ UNCHANGED threads

CommitLeave(c) ==
    /\ call[c].pc = "leaving"
    /\ LET t == call[c].thread
       IN threads' = [threads EXCEPT ![t] =
                        [@ EXCEPT !.members = threads[t].members \ {call[c].by},
                                  !.exists = threads[t].exists /\ call[c].remaining # {}]]
    /\ Ends(c)
    /\ UNCHANGED overlaps

-----------------------------------------------------------------------------
\* The worker dies, or the transaction fails: nothing was written.
Abort(c) ==
    /\ Running(c)
    /\ Ends(c)
    /\ UNCHANGED <<threads, overlaps>>

ThreadsNext ==
    \E c \in Calls :
        Create(c) \/ Direct(c) \/ CreateDirect(c) \/ Leave(c) \/ CommitLeave(c) \/ Abort(c)

-----------------------------------------------------------------------------
\* Two direct threads of the same pair, and nobody else, exist only if the requests
\* that made them overlapped: one after the other, the second finds the first.
OneDirectThread ==
    \A t, u \in 1..Len(threads) :
        /\ t # u /\ threads[t].exists /\ threads[u].exists
        /\ threads[t].members = threads[u].members /\ Cardinality(threads[t].members) = 2
        /\ \A x \in {t, u} : call[threads[x].maker].op = "direct"
        => {threads[t].maker, threads[u].maker} \in overlaps

\* A thread is left behind without members only by requests that overlapped: the last
\* to leave otherwise deletes it.
EmptyOnlyByOverlap ==
    \A t \in 1..Len(threads) :
        threads[t].exists /\ threads[t].members = {} =>
            \E pair \in overlaps :
                \A c \in pair : call[c].op = "leave" /\ call[c].thread = t

\* Threads are made twice, or left behind empty, only by requests that overlapped.
ThreadsAreKept == OneDirectThread /\ EmptyOnlyByOverlap

=============================================================================
