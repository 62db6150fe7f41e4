------------------------------- MODULE Search -------------------------------
(***************************************************************************)
(* The search index (apps/search): every save and every deletion of a user *)
(* or a post hands a Celery task to the broker, which copies the row into  *)
(* OpenSearch or removes the document.                                     *)
(*                                                                         *)
(* The signals run inside the transaction of a new post and of a deletion, *)
(* so a task may read the row of before the commit.  A task reads the row  *)
(* and writes the document in two steps, which others may overtake, and a  *)
(* worker that dies loses the task it took.                                *)
(***************************************************************************)
EXTENDS Integers

CONSTANTS
    Items,        \* rows of users and posts
    PostItems,    \* the posts: created in a transaction with their media
    Indexers,     \* Celery workers
    MaxWrites     \* bound on the saves and deletions

ASSUME SearchAssumption == PostItems \subseteq Items /\ MaxWrites \in Nat

NoRow == 0

VARIABLES
    content,      \* the content of each row; NoRow if there is none
    writing,     \* the request at work on each row: [pc, content]
    written,     \* saves and deletions so far: a content is the number of its save
    made,        \* the rows there have been
    tasks,       \* how many tasks of each kind wait for each row
    indexer,     \* per worker: [pc, item, content]
    document,    \* the document of each row in the index
    outrun       \* rows of which a task was lost, read before a commit,
                 \* or read before and wrote after another task

searchVars == <<content, writing, written, made, tasks, indexer, document, outrun>>

SearchInit ==
    /\ content = [i \in Items |-> NoRow]
    /\ writing = [i \in Items |-> [pc |-> "none"]]
    /\ written = 0
    /\ made = {}
    /\ tasks = [i \in Items |-> [index |-> 0, delete |-> 0]]
    /\ indexer = [w \in Indexers |-> [pc |-> "idle"]]
    /\ document = [i \in Items |-> NoRow]
    /\ outrun = {}

WritingAt(i, pc) == writing[i].pc = pc
Writes(i, pc, c) == writing' = [writing EXCEPT ![i] = [pc |-> pc, content |-> c]]
Handled(i) == writing' = [writing EXCEPT ![i] = [pc |-> "none"]]

-----------------------------------------------------------------------------
(***************************************************************************)
(* The rows and the signals                                                *)
(***************************************************************************)
\* A new user or an edited row is saved and committed, then the signal runs.
SaveRow(i) ==
    /\ WritingAt(i, "none") /\ written < MaxWrites
    /\ content[i] # NoRow \/ i \notin made \cup PostItems
    /\ written' = written + 1
    /\ made' = made \cup {i}
    /\ content' = [content EXCEPT ![i] = written']
    /\ Writes(i, "saved", written')
    /\ UNCHANGED <<tasks, indexer, document, outrun>>

\* trigger_user_index, trigger_post_index after a save that is committed.
SendIndex(i) ==
    /\ WritingAt(i, "saved")
    /\ tasks' = [tasks EXCEPT ![i].index = @ + 1]
    /\ Handled(i)
    /\ UNCHANGED <<content, written, made, indexer, document, outrun>>

\* PostSerializer.create: the signal runs before the images are stored.
CreatePost(i) ==
    /\ i \in PostItems \ made /\ written < MaxWrites
    /\ written' = written + 1
    /\ made' = made \cup {i}
    /\ tasks' = [tasks EXCEPT ![i].index = @ + 1]
    /\ Writes(i, "commit", written')
    /\ UNCHANGED <<content, indexer, document, outrun>>

\* Mistake: no task removes the document of a deleted row.
SendNothing(i) == tasks[i]

\* trigger_user_delete, trigger_post_delete.
SendDelete(i) == [tasks[i] EXCEPT !.delete = @ + 1]

\* The deletion of a row and its dependants is a transaction that ends after the signal.
DeleteRow(i) ==
    /\ WritingAt(i, "none") /\ content[i] # NoRow /\ written < MaxWrites
    /\ written' = written + 1
    /\ tasks' = [tasks EXCEPT ![i] = SendDelete(i)]
    /\ Writes(i, "commit", NoRow)
    /\ UNCHANGED <<content, made, indexer, document, outrun>>

CommitRow(i) ==
    /\ WritingAt(i, "commit")
    /\ content' = [content EXCEPT ![i] = writing[i].content]
    /\ Handled(i)
    /\ UNCHANGED <<written, made, tasks, indexer, document, outrun>>

\* The web worker dies before the signal, or the transaction is rolled back after it:
\* only the task of a post that was never made does no harm.
DieWriting(i) ==
    /\ writing[i].pc # "none"
    /\ outrun' = IF WritingAt(i, "saved") \/ writing[i].content = NoRow
                 THEN outrun \cup {i} ELSE outrun
    /\ Handled(i)
    /\ UNCHANGED <<content, written, made, tasks, indexer, document>>

-----------------------------------------------------------------------------
(***************************************************************************)
(* The tasks                                                               *)
(***************************************************************************)
AnotherTask(w, i) == \E v \in Indexers \ {w} : indexer[v].pc = "write" /\ indexer[v].item = i
Unsettled(w, i) == WritingAt(i, "commit") \/ AnotherTask(w, i)

\* User.objects.get, Post.objects.get: a row that is not there removes the document.
ReadRow(w, i) ==
    /\ indexer[w].pc = "idle" /\ tasks[i].index > 0
    /\ tasks' = [tasks EXCEPT ![i].index = @ - 1]
    /\ indexer' = [indexer EXCEPT ![w] = [pc |-> "write", item |-> i, content |-> content[i]]]
    /\ outrun' = IF Unsettled(w, i) THEN outrun \cup {i} ELSE outrun
    /\ UNCHANGED <<content, writing, written, made, document>>

TakeDelete(w, i) ==
    /\ indexer[w].pc = "idle" /\ tasks[i].delete > 0
    /\ tasks' = [tasks EXCEPT ![i].delete = @ - 1]
    /\ indexer' = [indexer EXCEPT ![w] = [pc |-> "write", item |-> i, content |-> NoRow]]
    /\ outrun' = IF Unsettled(w, i) THEN outrun \cup {i} ELSE outrun
    /\ UNCHANGED <<content, writing, written, made, document>>

\* _index_document, _delete_document.
WriteDocument(w) ==
    /\ indexer[w].pc = "write"
    /\ document' = [document EXCEPT ![indexer[w].item] = indexer[w].content]
    /\ indexer' = [indexer EXCEPT ![w] = [pc |-> "idle"]]
    /\ UNCHANGED <<content, writing, written, made, tasks, outrun>>

DieIndexing(w) ==
    /\ indexer[w].pc = "write"
    /\ outrun' = outrun \cup {indexer[w].item}
    /\ indexer' = [indexer EXCEPT ![w] = [pc |-> "idle"]]
    /\ UNCHANGED <<content, writing, written, made, tasks, document>>

SearchNext ==
    \/ \E i \in Items :
          \/ SaveRow(i) \/ SendIndex(i) \/ CreatePost(i) \/ DeleteRow(i)
          \/ CommitRow(i) \/ DieWriting(i)
          \/ \E w \in Indexers : ReadRow(w, i) \/ TakeDelete(w, i)
    \/ \E w \in Indexers : WriteDocument(w) \/ DieIndexing(w)

-----------------------------------------------------------------------------
\* The answer of UserSearchView and PostSearchView: the documents that match, as far
\* as their rows still exist; without OpenSearch, the rows that match.
Hits(c) == {i \in Items : document[i] = c /\ content[i] # NoRow}
DbSearch(c) == {i \in Items : content[i] = c}

\* Once the tasks of a row have run, the search finds it by exactly what it says now,
\* as the database search would, and no document of a deleted row takes up the limit,
\* unless a task of the row was lost, read before a commit, or overlapped another.
Idle(i) ==
    /\ writing[i].pc = "none" /\ tasks[i].index = 0 /\ tasks[i].delete = 0
    /\ \A w \in Indexers : indexer[w].pc = "write" => indexer[w].item # i

SearchMatchesRows ==
    \A i \in Items \ outrun :
        Idle(i) =>
            /\ \A c \in 1..MaxWrites : i \in Hits(c) <=> i \in DbSearch(c)
            /\ content[i] = NoRow => document[i] = NoRow

=============================================================================
