------------------------------- MODULE Mentor -------------------------------
(***************************************************************************)
(* Questions to the mentor (apps/mentor): the endpoints, which answer at   *)
(* once or hand the question to a Celery task, the tasks, and the status   *)
(* the client polls.  The questions are of one user.                       *)
(*                                                                         *)
(* A kind of question differs in what it shares and in what guards it:     *)
(*   chat    one active session, with a task, a stream or a reply at once; *)
(*           a task looks up the reply before it makes one                 *)
(*   entry   one session a day, whose question and answer are overwritten; *)
(*           a task looks up the reply before it makes one                 *)
(*   chart   (natal, daily and soulmatch) a task has a session of its own  *)
(*           and no lookup; an answer at once is not stored                *)
(*   ask     a session of its own, and a memory the user's questions share *)
(* The language model is slow: calling it is a step of its own, and what   *)
(* was read before it may be stale after it.  It never fails a task: an    *)
(* error becomes the text of the reply.  The broker acknowledges a task    *)
(* when a worker takes it, so one that dies loses it; one that waits too   *)
(* long is delivered again.  Histories are short enough to be read whole.  *)
(***************************************************************************)
EXTENDS Integers, Sequences, FiniteSets

CONSTANTS
    Questions,
    Mixes,            \* which kinds of question come together
    Workers,          \* Celery workers
    MaxDeliveries     \* bound on the deliveries of a task

QuestionKinds == {"chat", "entry", "chart", "ask"}

ASSUME MentorAssumption ==
    /\ MaxDeliveries \in Nat
    /\ Mixes \subseteq [Questions -> QuestionKinds]

VARIABLES
    sessions,    \* sequence of [kind, question, answer]
    asked,       \* per question: [pc, kind, session]
    talk,        \* the messages in the order they are stored: [of, role]
    heard,       \* per question: the messages its prompt was made with
    memory,      \* MentorMemory: the questions it has, as messages
    queued,      \* deliveries that wait for a worker
    delivered,   \* deliveries so far
    worker,      \* per worker: [pc, question]
    doubled,     \* questions two workers have run at once
    abandoned    \* questions whose worker, or request, has died

mentorVars == <<sessions, asked, talk, heard, memory, queued, delivered, worker, doubled, abandoned>>
viewVars == <<queued, delivered, worker, doubled>>

MentorInit ==
    /\ sessions = <<>>
    /\ \E kinds \in Mixes :
          asked = [q \in Questions |-> [pc |-> "new", kind |-> kinds[q], session |-> 0]]
    /\ talk = <<>>
    /\ heard = [q \in Questions |-> {}]
    /\ memory = {}
    /\ queued = [q \in Questions |-> 0]
    /\ delivered = [q \in Questions |-> 0]
    /\ worker = [w \in Workers |-> [pc |-> "idle", question |-> CHOOSE q \in Questions : TRUE]]
    /\ doubled = {}
    /\ abandoned = {}

KindOf(q) == asked[q].kind
Message(q, role) == [of |-> q, role |-> role]
Said(q, role) == \E i \in 1..Len(talk) : talk[i] = Message(q, role)
Goes(q, here, there) == asked[q].pc = here /\ asked' = [asked EXCEPT ![q].pc = there]

\* The newest session of the user in this mode, and of this day.
SessionFor(q) ==
    LET same == {s \in 1..Len(sessions) : sessions[s].kind = KindOf(q)}
    IN IF same = {} \/ KindOf(q) \in {"chart", "ask"} THEN 0
       ELSE CHOOSE s \in same : \A t \in same : t <= s

\* The messages of a session, or of the mode when there is no session yet; only the chat
\* leaves the question's own message out.
History(q, s) ==
    {talk[i] : i \in {j \in 1..Len(talk) :
        LET r == talk[j].of
        IN /\ IF s = 0 THEN KindOf(r) = KindOf(q) ELSE asked[r].session = s
           /\ KindOf(q) = "chat" => r # q}}

\* What the prompt is made with, besides the question.
Context(q, s) ==
    CASE KindOf(q) = "chart" -> {}
      [] KindOf(q) = "ask"   -> memory
      [] OTHER               -> History(q, s)

-----------------------------------------------------------------------------
(***************************************************************************)
(* The endpoints                                                           *)
(***************************************************************************)
\* In the same request a session is looked for and, if the answer is to come at once, the
\* history read.
LookForSession(q, mode) ==
    /\ asked[q].pc = "new"
    /\ mode = "sync" => KindOf(q) # "chat"
    /\ mode = "live" => KindOf(q) = "chat"
    /\ mode = "async" => KindOf(q) # "ask"
    /\ asked' = [asked EXCEPT ![q] = [@ EXCEPT !.pc = mode, !.session = SessionFor(q)]]
    /\ heard' = IF mode = "sync" THEN [heard EXCEPT ![q] = Context(q, SessionFor(q))] ELSE heard
    /\ UNCHANGED <<sessions, talk, memory, viewVars, abandoned>>

\* The session is made, or takes the new question; the answer is left as it was.
WithQuestion(q, s) ==
    IF s = 0 THEN Append(sessions, [kind |-> KindOf(q), question |-> {q}, answer |-> {}])
    ELSE IF KindOf(q) = "entry" THEN [sessions EXCEPT ![s].question = {q}]
    ELSE sessions

Enter(q, here, there) ==
    /\ asked[q].pc = here
    /\ LET s == asked[q].session
       IN /\ sessions' = WithQuestion(q, s)
          /\ asked' = [asked EXCEPT ![q] =
                       [@ EXCEPT !.pc = there,
                                 !.session = IF s = 0 THEN Len(sessions) + 1 ELSE s]]
    /\ UNCHANGED <<talk, heard, memory, viewVars, abandoned>>

\* The user's message is stored and the task handed to the broker.
Enqueue(q) ==
    /\ Goes(q, "entered", "enqueued")
    /\ talk' = Append(talk, Message(q, "user"))
    /\ queued' = [queued EXCEPT ![q] = @ + 1]
    /\ delivered' = [delivered EXCEPT ![q] = @ + 1]
    /\ UNCHANGED <<sessions, heard, memory, worker, doubled, abandoned>>

\* The task id is saved with the message, and the client gets it.
Tell(q) ==
    /\ Goes(q, "enqueued", "told")
    /\ UNCHANGED <<sessions, talk, heard, memory, viewVars, abandoned>>

\* What the client is told when it polls with the task id.
Status(q) ==
    IF Said(q, "mentor") THEN "ready"
    ELSE IF asked[q].pc = "told" THEN "pending" ELSE "not found"

\* The memory as it was read, and the question: what was saved meanwhile is lost.
Remembered(q) == heard[q] \cup {Message(q, "user")}

WithPair(q, s) ==
    LET pair == [kind |-> KindOf(q), question |-> {q}, answer |-> {q}]
    IN IF s = 0 THEN Append(sessions, pair) ELSE [sessions EXCEPT ![s] = pair]

\* Without a task, the model has answered: an entry's session gets question and answer in
\* one save, the memory the question.
SaveNow(q) ==
    /\ Goes(q, "sync", "saved")
    /\ sessions' = IF KindOf(q) = "entry" THEN WithPair(q, asked[q].session) ELSE sessions
    /\ memory' = IF KindOf(q) = "ask" THEN Remembered(q) ELSE memory
    /\ UNCHANGED <<talk, heard, viewVars, abandoned>>

\* Then the entry's messages, or the session of the one that was asked.
StoreNow(q) ==
    /\ Goes(q, "saved", "answered")
    /\ talk' = IF KindOf(q) = "entry"
               THEN talk \o <<Message(q, "user"), Message(q, "mentor")>> ELSE talk
    /\ sessions' = IF KindOf(q) = "ask" THEN WithPair(q, 0) ELSE sessions
    /\ UNCHANGED <<heard, memory, viewVars, abandoned>>

\* A chat that is streamed, or answered at once: the message, the history, then the reply,
\* which is stored only when it is whole.
AskLive(q) ==
    /\ Goes(q, "opened", "said")
    /\ talk' = Append(talk, Message(q, "user"))
    /\ UNCHANGED <<sessions, heard, memory, viewVars, abandoned>>

HearLive(q) ==
    /\ Goes(q, "said", "streaming")
    /\ heard' = [heard EXCEPT ![q] = Context(q, asked[q].session)]
    /\ UNCHANGED <<sessions, talk, memory, viewVars, abandoned>>

ReplyLive(q) ==
    /\ Goes(q, "streaming", "streamed")
    /\ talk' = Append(talk, Message(q, "mentor"))
    /\ UNCHANGED <<sessions, heard, memory, viewVars, abandoned>>

-----------------------------------------------------------------------------
(***************************************************************************)
(* The tasks                                                               *)
(***************************************************************************)
Runs(w, here, there) == worker[w].pc = here /\ worker' = [worker EXCEPT ![w].pc = there]

\* Mistake: the reply is looked up under the session, which is shared.
AnsweredInSession(q) ==
    \E r \in Questions : Said(r, "mentor") /\ asked[r].session = asked[q].session

\* meta__request_id of a stored reply; chart questions do not look.
Answered(q) == KindOf(q) # "chart" /\ Said(q, "mentor")

Take(w, q) ==
    /\ worker[w].pc = "idle" /\ queued[q] > 0
    /\ queued' = [queued EXCEPT ![q] = @ - 1]
    /\ worker' = [worker EXCEPT ![w] =
                    [pc |-> IF Answered(q) THEN "idle" ELSE "calling", question |-> q]]
    /\ heard' = IF Answered(q) THEN heard
                ELSE [heard EXCEPT ![q] = Context(q, asked[q].session)]
    /\ doubled' = IF \E v \in Workers : worker[v].pc # "idle" /\ worker[v].question = q
                  THEN doubled \cup {q} ELSE doubled
    /\ UNCHANGED <<sessions, asked, talk, memory, delivered, abandoned>>

\* Mistake: only the answer is saved, the question being there already.
AnswerOnly(s, q) == [sessions EXCEPT ![s].answer = {q}]

Paired(s, q) ==
    IF KindOf(q) = "chat" THEN sessions
    ELSE [sessions EXCEPT ![s] = [@ EXCEPT !.question = {q}, !.answer = {q}]]

\* The language model has answered: session.save.
SaveSession(w) ==
    /\ Runs(w, "calling", "saved")
    /\ sessions' = Paired(asked[worker[w].question].session, worker[w].question)
    /\ UNCHANGED <<asked, talk, heard, memory, queued, delivered, doubled, abandoned>>

Reply(w) ==
    /\ Runs(w, "saved", "idle")
    /\ talk' = Append(talk, Message(worker[w].question, "mentor"))
    /\ UNCHANGED <<sessions, asked, heard, memory, queued, delivered, doubled, abandoned>>

\* A task that no worker has taken in time is delivered to another as well.
Redeliver(q) ==
    /\ queued[q] > 0 /\ delivered[q] < MaxDeliveries
    /\ queued' = [queued EXCEPT ![q] = @ + 1]
    /\ delivered' = [delivered EXCEPT ![q] = @ + 1]
    /\ UNCHANGED <<sessions, asked, talk, heard, memory, worker, doubled, abandoned>>

Die(w) ==
    /\ worker[w].pc # "idle"
    /\ worker' = [worker EXCEPT ![w].pc = "idle"]
    /\ abandoned' = abandoned \cup {worker[w].question}
    /\ UNCHANGED <<sessions, asked, talk, heard, memory, queued, delivered, doubled>>

\* The web worker dies, the client of a stream goes away, or the model fails a request
\* that waits for it or takes too long.
Fail(q) ==
    /\ asked[q].pc \notin {"new", "told", "answered", "streamed", "failed"}
    /\ asked' = [asked EXCEPT ![q].pc = "failed"]
    /\ abandoned' = abandoned \cup {q}
    /\ UNCHANGED <<sessions, talk, heard, memory, viewVars>>

Work == \E w \in Workers : SaveSession(w) \/ Reply(w) \/ \E q \in Questions : Take(w, q)

MentorNext ==
    \/ \E q \in Questions :
          \/ \E mode \in {"sync", "live", "async"} : LookForSession(q, mode)
          \/ Enter(q, "async", "entered") \/ Enqueue(q) \/ Tell(q) \/ Redeliver(q)
          \/ SaveNow(q) \/ StoreNow(q)
          \/ Enter(q, "live", "opened") \/ AskLive(q) \/ HearLive(q) \/ ReplyLive(q)
          \/ Fail(q)
    \/ \E w \in Workers : Die(w)
    \/ Work

-----------------------------------------------------------------------------
\* At rest, a session shows an answer to the question it shows, whatever the order in
\* which the questions of a day were asked and answered.
Resting(s) ==
    \A q \in Questions :
        asked[q].session = s =>
            q \notin abandoned /\ asked[q].pc \in {"told", "answered"} /\ queued[q] = 0
            /\ \A w \in Workers : worker[w].question = q => worker[w].pc = "idle"

SessionShowsAPair ==
    \A s \in 1..Len(sessions) :
        Resting(s) /\ sessions[s].kind # "chat" => sessions[s].question = sessions[s].answer

\* A question of a kind that is looked up has two replies only if two workers have run
\* it at the same time.
OneReplyUnlessDoubled ==
    \A q \in Questions :
        KindOf(q) # "chart"
        /\ Cardinality({i \in 1..Len(talk) : talk[i] = Message(q, "mentor")}) > 1
            => q \in doubled

\* The memory lacks a question that was answered only if it overlapped another: neither
\* was in the memory the other's prompt was made with.
ForgottenOnlyByOverlap ==
    \A q \in Questions :
        KindOf(q) = "ask" /\ asked[q].pc \in {"saved", "answered"}
            => \/ Message(q, "user") \in memory
               \/ \E r \in Questions : Message(q, "user") \notin heard[r]
                                       /\ Message(r, "user") \notin heard[q]
                                       /\ r # q /\ Message(r, "user") \in memory

\* Except where the history was read before the question was stored (an entry answered at
\* once), a reply is made with all that its session had before the question.
PromptHasTheTalk ==
    \A i, j \in 1..Len(talk) :
        LET q == talk[j].of
        IN i < j /\ talk[j].role = "user" /\ Said(q, "mentor") /\ asked[q].pc # "answered"
           /\ asked[talk[i].of].session = asked[q].session /\ KindOf(q) # "chart"
              => talk[i] \in heard[q]

\* Not so for a diary entry whose task reads the history: the entry's own message is in it
\* by then, and the prompt, to which the question is added, has it twice.
AskedOnce == \A q \in Questions : Message(q, "user") \notin heard[q]

\* A client that was given a task id finds the reply in the end, unless a worker died.
ToldIsAnswered ==
    \A q \in Questions : asked[q].pc = "told" ~> (Status(q) = "ready" \/ q \in abandoned)

\* What a user sees after any interleaving of questions, deliveries and deaths: pairs
\* that belong together, one reply to a question that was looked up, and prompts and a
\* memory that lack only what overlapped.
RepliesAreInPlace ==
    SessionShowsAPair /\ OneReplyUnlessDoubled /\ ForgottenOnlyByOverlap /\ PromptHasTheTalk

=============================================================================
