--------------------------- MODULE DerivedProofs ---------------------------
(***************************************************************************)
(* Proofs about what is derived from other rows and kept: the monthly      *)
(* snapshot of the ledger (Snapshot), the search index (Search), charts    *)
(* and scores (Astrology), the timeline with its cached pages (Feed) and   *)
(* the cards of the day among the posts of a page (Insights).  What is     *)
(* kept may lag behind its source; each theorem says how far, and when.    *)
(***************************************************************************)
EXTENDS Snapshot, Search, Astrology, Feed, Insights, SequenceTheorems, WellFoundedInduction, TLAPS

-----------------------------------------------------------------------------
(***************************************************************************)
(* Snapshot: files and the row that vouches for them                       *)
(***************************************************************************)
SnapshotSpec == SnapshotInit /\ [][SnapshotNext]_snapshotVars

CommandStates == {"new", "checking", "storing", "writing", "written", "done", "failed", "killed"}
WrittenFile == [by : SUBSET Commands, entries : SUBSET Postings]

SnapshotTypeOK ==
    /\ over \in BOOLEAN
    /\ stamp \in [Postings -> {"none", "month", "after"}]
    /\ stored \in SUBSET Postings
    /\ command \in [Commands -> [pc : CommandStates, dry : BOOLEAN,
                                 entries : SUBSET Postings, ended : BOOLEAN]]
    /\ snapshots \in SUBSET Commands
    /\ late \in SUBSET Postings
    /\ csv \in WrittenFile
    /\ manifest \in WrittenFile

\* What was committed has its time, and what a command has not read came too late for it.
NothingElseIsLacking ==
    /\ \A p \in stored : stamp[p] # "none"
    /\ \A c \in Commands : command[c].pc # "new" => InMonth \ command[c].entries \subseteq late

\* There is one row, and a command that writes without being a dry run has stored it.
WritersHaveStored ==
    /\ \A c, d \in snapshots : c = d
    /\ \A c \in snapshots : /\ ~command[c].dry
                            /\ command[c].pc \in {"writing", "written", "done", "killed"}
    /\ \A c \in Commands :
          /\ command[c].pc \in {"writing", "written", "done"} => command[c].dry \/ c \in snapshots
          /\ command[c].pc \in {"new", "checking", "storing"} => ~command[c].dry

\* A file is the last one that some command has written.
FileIsOf(file, states) ==
    /\ \A c \in file.by : /\ command[c].entries = file.entries
                          /\ command[c].pc \in states \cup {"killed"}
                          /\ command[c].dry \/ c \in snapshots
    /\ (\E c \in Commands : command[c].pc \in states) => file.by # {}

SnapshotInv ==
    /\ SnapshotTypeOK
    /\ NothingElseIsLacking
    /\ WritersHaveStored
    /\ FileIsOf(csv, {"written", "done"})
    /\ FileIsOf(manifest, {"done"})

\* Nothing is stored or written at first.
LEMMA InitSnapshotInv == SnapshotInit => SnapshotInv
<1> SUFFICES ASSUME SnapshotInit PROVE SnapshotInv
  OBVIOUS
<1>1. NoFile \in WrittenFile /\ NoFile.by = {}
  BY DEF NoFile, WrittenFile
<1>2. SnapshotTypeOK
  BY <1>1 DEF SnapshotInit, SnapshotTypeOK, CommandStates
<1>3. NothingElseIsLacking /\ WritersHaveStored
  BY DEF SnapshotInit, NothingElseIsLacking, WritersHaveStored
<1>4. FileIsOf(csv, {"written", "done"}) /\ FileIsOf(manifest, {"done"})
  BY <1>1 DEF SnapshotInit, FileIsOf
<1> QED BY <1>2, <1>3, <1>4 DEF SnapshotInv

\* Every step keeps what a snapshot and its files rest on.
LEMMA NextSnapshotInv == SnapshotInv /\ [SnapshotNext]_snapshotVars => SnapshotInv'
<1> SUFFICES ASSUME SnapshotInv, [SnapshotNext]_snapshotVars PROVE SnapshotInv'
  OBVIOUS
<1> USE DEF SnapshotInv, SnapshotTypeOK, WrittenFile, CommandStates, Ledger, Files
<1>1. ASSUME NEW p \in Postings, Stamp(p) PROVE SnapshotInv'
  <2>1. SnapshotTypeOK'
    BY <1>1 DEF Stamp
  <2>2. stored' = stored /\ InMonth' = InMonth
    BY <1>1 DEF Stamp, InMonth, NothingElseIsLacking
  <2>3. NothingElseIsLacking'
    BY <1>1, <2>2 DEF Stamp, NothingElseIsLacking
  <2>4. WritersHaveStored' /\ FileIsOf(csv, {"written", "done"})' /\ FileIsOf(manifest, {"done"})'
    BY <1>1 DEF Stamp, WritersHaveStored, FileIsOf
  <2> QED BY <2>1, <2>3, <2>4
<1>2. ASSUME NEW p \in Postings, Commit(p) PROVE SnapshotInv'
  <2>1. SnapshotTypeOK'
    BY <1>2 DEF Commit
  <2>2. NothingElseIsLacking'
    BY <1>2 DEF Commit, NothingElseIsLacking, InMonth
  <2>3. WritersHaveStored' /\ FileIsOf(csv, {"written", "done"})' /\ FileIsOf(manifest, {"done"})'
    BY <1>2 DEF Commit, WritersHaveStored, FileIsOf
  <2> QED BY <2>1, <2>2, <2>3
<1>3. ASSUME EndMonth PROVE SnapshotInv'
  BY <1>3 DEF EndMonth, NothingElseIsLacking, InMonth, WritersHaveStored, FileIsOf
<1>4. ASSUME NEW c \in Commands, NEW dry \in BOOLEAN, ReadMonth(c, dry) PROVE SnapshotInv'
  <2>1. SnapshotTypeOK'
    BY <1>4 DEF ReadMonth, InMonth
  <2>2. NothingElseIsLacking'
    BY <1>4 DEF ReadMonth, NothingElseIsLacking, InMonth
  <2>3. c \notin snapshots /\ c \notin csv.by /\ c \notin manifest.by
    BY <1>4 DEF ReadMonth, WritersHaveStored, FileIsOf
  <2>4. WritersHaveStored' /\ FileIsOf(csv, {"written", "done"})' /\ FileIsOf(manifest, {"done"})'
    BY <1>4, <2>3 DEF ReadMonth, WritersHaveStored, FileIsOf
  <2> QED BY <2>1, <2>2, <2>4
<1>5. ASSUME NEW c \in Commands, Check(c) PROVE SnapshotInv'
  <2>1. SnapshotTypeOK' /\ NothingElseIsLacking'
    BY <1>5 DEF Check, Goes, NothingElseIsLacking, InMonth
  <2>2. WritersHaveStored' /\ FileIsOf(csv, {"written", "done"})' /\ FileIsOf(manifest, {"done"})'
    BY <1>5 DEF Check, Goes, WritersHaveStored, FileIsOf
  <2> QED BY <2>1, <2>2
<1>6. ASSUME NEW c \in Commands, Store(c) PROVE SnapshotInv'
  <2>1. SnapshotTypeOK' /\ NothingElseIsLacking'
    BY <1>6 DEF Store, Goes, NothingElseIsLacking, InMonth
  <2>2. c \notin csv.by /\ c \notin manifest.by /\ c \notin snapshots
    BY <1>6 DEF Store, Goes, WritersHaveStored, FileIsOf
  <2>3. WritersHaveStored'
    <3>1. CASE snapshots = {}
      BY <1>6, <2>2, <3>1 DEF Store, Goes, WritersHaveStored
    <3>2. CASE snapshots # {}
      BY <1>6, <2>2, <3>2 DEF Store, Goes, WritersHaveStored
    <3> QED BY <3>1, <3>2
  <2>4. FileIsOf(csv, {"written", "done"})' /\ FileIsOf(manifest, {"done"})'
    BY <1>6, <2>2 DEF Store, Goes, FileIsOf
  <2> QED BY <2>1, <2>3, <2>4
<1>7. ASSUME NEW c \in Commands, WriteCsv(c) PROVE SnapshotInv'
  <2>1. SnapshotTypeOK' /\ NothingElseIsLacking'
    BY <1>7 DEF WriteCsv, Goes, NothingElseIsLacking, InMonth
  <2>2. WritersHaveStored' /\ FileIsOf(csv, {"written", "done"})' /\ FileIsOf(manifest, {"done"})'
    BY <1>7 DEF WriteCsv, Goes, WritersHaveStored, FileIsOf
  <2> QED BY <2>1, <2>2
<1>8. ASSUME NEW c \in Commands, WriteManifest(c) PROVE SnapshotInv'
  <2>1. SnapshotTypeOK' /\ NothingElseIsLacking'
    BY <1>8 DEF WriteManifest, Goes, NothingElseIsLacking, InMonth
  <2>2. WritersHaveStored' /\ FileIsOf(csv, {"written", "done"})' /\ FileIsOf(manifest, {"done"})'
    BY <1>8 DEF WriteManifest, Goes, WritersHaveStored, FileIsOf
  <2> QED BY <2>1, <2>2
<1>9. ASSUME NEW c \in Commands, Kill(c) PROVE SnapshotInv'
  <2>1. SnapshotTypeOK' /\ NothingElseIsLacking'
    BY <1>9 DEF Kill, NothingElseIsLacking, InMonth
  <2>2. WritersHaveStored' /\ FileIsOf(csv, {"written", "done"})' /\ FileIsOf(manifest, {"done"})'
    BY <1>9 DEF Kill, WritersHaveStored, FileIsOf
  <2> QED BY <2>1, <2>2
<1>10. CASE UNCHANGED snapshotVars
  BY <1>10 DEF snapshotVars, NothingElseIsLacking, InMonth, WritersHaveStored, FileIsOf
<1> QED
  BY <1>1, <1>2, <1>3, <1>4, <1>5, <1>6, <1>7, <1>8, <1>9, <1>10 DEF SnapshotNext

\* A snapshot taken after the end of its month lacks only entries that committed late, and
\* without dry runs and killed commands the files beside it are those it is the hash of
\* (coin_snapshot_month): for any number of commands for the month and of postings.
THEOREM SnapshotsAreComplete == SnapshotSpec => []SnapshotIsComplete
<1>1. SnapshotInv => SnapshotIsComplete
  <2> SUFFICES ASSUME SnapshotInv, NEW s \in snapshots
      PROVE /\ InMonth \ command[s].entries \subseteq late
            /\ (\A c \in Commands : command[c].pc \in {"new", "done", "failed"} /\ ~command[c].dry)
                  => csv.entries = command[s].entries /\ manifest = csv
    BY DEF SnapshotIsComplete
  <2> USE DEF SnapshotInv, SnapshotTypeOK, WrittenFile
  <2>1. s \in Commands /\ command[s].pc # "new"
    BY DEF WritersHaveStored
  <2>2. ASSUME \A c \in Commands : command[c].pc \in {"new", "done", "failed"} /\ ~command[c].dry
        PROVE  csv.entries = command[s].entries /\ manifest = csv
    <3>1. command[s].pc = "done"
      BY <2>2 DEF WritersHaveStored
    <3>2. csv.by = {s} /\ csv.entries = command[s].entries
      BY <2>2, <3>1 DEF WritersHaveStored, FileIsOf
    <3>3. manifest.by = {s} /\ manifest.entries = command[s].entries
      BY <2>2, <3>1 DEF WritersHaveStored, FileIsOf
    <3>4. csv = [by |-> csv.by, entries |-> csv.entries]
      OBVIOUS
    <3>5. manifest = [by |-> manifest.by, entries |-> manifest.entries]
      OBVIOUS
    <3> QED BY <3>2, <3>3, <3>4, <3>5
  <2> QED BY <2>1, <2>2 DEF NothingElseIsLacking
<1> QED
  BY <1>1, InitSnapshotInv, NextSnapshotInv, PTL DEF SnapshotSpec

-----------------------------------------------------------------------------
(***************************************************************************)
(* Search: the task of the last commit has the last word                   *)
(***************************************************************************)
SearchSpec == SearchInit /\ [][SearchNext]_searchVars

SearchTypeOK ==
    /\ content \in [Items -> Nat]
    /\ writing \in [Items -> [pc : {"none"}] \cup [pc : {"saved", "commit"}, content : Nat]]
    /\ written \in Nat
    /\ made \in SUBSET Items
    /\ tasks \in [Items -> [index : Nat, delete : Nat]]
    /\ indexer \in [Indexers -> [pc : {"idle"}] \cup [pc : {"write"}, item : Items, content : Nat]]
    /\ document \in [Items -> Nat]
    /\ outrun \in SUBSET Items

WriterOf(w, i) == indexer[w].pc = "write" /\ indexer[w].item = i

\* Rows that there are, or that somebody works on, were made.
MadeIsMade ==
    \A i \in Items :
        content[i] # NoRow \/ writing[i].pc # "none" \/ tasks[i].delete > 0 => i \in made

\* What a task that waits will find, and the task that waits for each commit.
TasksFit ==
    \A i \in Items \ outrun :
        /\ tasks[i].delete > 0 =>
              IF WritingAt(i, "commit") THEN writing[i].content = NoRow ELSE content[i] = NoRow
        /\ WritingAt(i, "commit") =>
              IF writing[i].content = NoRow THEN tasks[i].delete > 0 ELSE tasks[i].index > 0

\* One task at a time writes a document, and the last one writes what the row says.
LastTaskIsRight ==
    \A i \in Items \ outrun :
        /\ \A v, w \in Indexers : WriterOf(v, i) /\ WriterOf(w, i) => v = w
        /\ WritingAt(i, "none") /\ tasks[i].index = 0 /\ tasks[i].delete = 0 =>
              /\ \A w \in Indexers : WriterOf(w, i) => indexer[w].content = content[i]
              /\ (\A w \in Indexers : ~WriterOf(w, i)) => document[i] = content[i]

SearchInv == SearchTypeOK /\ MadeIsMade /\ TasksFit /\ LastTaskIsRight

\* Nothing is indexed at first.
LEMMA InitSearchInv == SearchInit => SearchInv
<1> SUFFICES ASSUME SearchInit PROVE SearchInv
  OBVIOUS
<1> USE DEF SearchInit, NoRow
<1>1. SearchTypeOK
  BY DEF SearchTypeOK
<1>2. MadeIsMade /\ TasksFit /\ LastTaskIsRight
  BY DEF MadeIsMade, TasksFit, LastTaskIsRight, WritingAt, WriterOf
<1> QED BY <1>1, <1>2 DEF SearchInv

\* Every step keeps what the index rests on.
LEMMA NextSearchInv == SearchInv /\ [SearchNext]_searchVars => SearchInv'
<1> SUFFICES ASSUME SearchInv, [SearchNext]_searchVars PROVE SearchInv'
  OBVIOUS
<1> USE SearchAssumption DEF SearchInv, SearchTypeOK, WritingAt, Writes, Handled, NoRow
<1>1. ASSUME NEW i \in Items, SaveRow(i) PROVE SearchInv'
  <2>0. written + 1 \in Nat \ {0}
    OBVIOUS
  <2>1. SearchTypeOK'
    BY <1>1, <2>0 DEF SaveRow
  <2>2. MadeIsMade'
    BY <1>1 DEF SaveRow, MadeIsMade
  <2>3. i \in outrun \/ tasks[i].delete = 0
    BY <1>1 DEF SaveRow, MadeIsMade, TasksFit
  <2>4. TasksFit'
    BY <1>1, <2>3 DEF SaveRow, TasksFit
  <2>5. LastTaskIsRight'
    BY <1>1 DEF SaveRow, LastTaskIsRight, WriterOf
  <2> QED BY <2>1, <2>2, <2>4, <2>5
<1>2. ASSUME NEW i \in Items, SendIndex(i) PROVE SearchInv'
  <2>1. SearchTypeOK'
    BY <1>2 DEF SendIndex
  <2>2. MadeIsMade' /\ TasksFit'
    BY <1>2 DEF SendIndex, MadeIsMade, TasksFit
  <2>3. LastTaskIsRight'
    BY <1>2 DEF SendIndex, LastTaskIsRight, WriterOf
  <2> QED BY <2>1, <2>2, <2>3
<1>3. ASSUME NEW i \in Items, CreatePost(i) PROVE SearchInv'
  <2>0. written + 1 \in Nat \ {0}
    OBVIOUS
  <2>1. SearchTypeOK'
    BY <1>3, <2>0 DEF CreatePost
  <2>2. MadeIsMade'
    BY <1>3 DEF CreatePost, MadeIsMade
  <2>3. tasks[i].delete = 0
    BY <1>3 DEF CreatePost, MadeIsMade
  <2>4. TasksFit'
    BY <1>3, <2>0, <2>3 DEF CreatePost, TasksFit
  <2>5. LastTaskIsRight'
    BY <1>3 DEF CreatePost, LastTaskIsRight, WriterOf
  <2> QED BY <2>1, <2>2, <2>4, <2>5
<1>4. ASSUME NEW i \in Items, DeleteRow(i) PROVE SearchInv'
  <2>1. SearchTypeOK'
    BY <1>4 DEF DeleteRow, SendDelete
  <2>2. MadeIsMade'
    BY <1>4 DEF DeleteRow, SendDelete, MadeIsMade
  <2>3. TasksFit'
    BY <1>4 DEF DeleteRow, SendDelete, TasksFit
  <2>4. LastTaskIsRight'
    BY <1>4 DEF DeleteRow, SendDelete, LastTaskIsRight, WriterOf
  <2> QED BY <2>1, <2>2, <2>3, <2>4
<1>5. ASSUME NEW i \in Items, CommitRow(i) PROVE SearchInv'
  <2>1. SearchTypeOK'
    BY <1>5 DEF CommitRow
  <2>2. MadeIsMade' /\ TasksFit'
    BY <1>5 DEF CommitRow, MadeIsMade, TasksFit
  <2>3. LastTaskIsRight'
    BY <1>5 DEF CommitRow, LastTaskIsRight, TasksFit, WriterOf
  <2> QED BY <2>1, <2>2, <2>3
<1>6. ASSUME NEW i \in Items, DieWriting(i) PROVE SearchInv'
  <2>1. SearchTypeOK'
    BY <1>6 DEF DieWriting
  <2>2. MadeIsMade' /\ TasksFit'
    BY <1>6 DEF DieWriting, MadeIsMade, TasksFit
  <2>3. LastTaskIsRight'
    BY <1>6 DEF DieWriting, LastTaskIsRight, TasksFit, WriterOf
  <2> QED BY <2>1, <2>2, <2>3
<1>7. ASSUME NEW i \in Items, NEW w \in Indexers, ReadRow(w, i) PROVE SearchInv'
  <2>1. SearchTypeOK'
    BY <1>7 DEF ReadRow
  <2>2. MadeIsMade' /\ TasksFit'
    BY <1>7 DEF ReadRow, MadeIsMade, TasksFit, Unsettled
  <2>3. LastTaskIsRight'
    BY <1>7 DEF ReadRow, LastTaskIsRight, WriterOf, Unsettled, AnotherTask
  <2> QED BY <2>1, <2>2, <2>3
<1>8. ASSUME NEW i \in Items, NEW w \in Indexers, TakeDelete(w, i) PROVE SearchInv'
  <2>1. SearchTypeOK'
    BY <1>8 DEF TakeDelete
  <2>2. MadeIsMade' /\ TasksFit'
    BY <1>8 DEF TakeDelete, MadeIsMade, TasksFit, Unsettled
  <2>3. LastTaskIsRight'
    BY <1>8 DEF TakeDelete, LastTaskIsRight, TasksFit, WriterOf, Unsettled, AnotherTask
  <2> QED BY <2>1, <2>2, <2>3
<1>9. ASSUME NEW w \in Indexers, WriteDocument(w) PROVE SearchInv'
  <2>1. SearchTypeOK'
    BY <1>9 DEF WriteDocument
  <2>2. MadeIsMade' /\ TasksFit'
    BY <1>9 DEF WriteDocument, MadeIsMade, TasksFit
  <2>3. LastTaskIsRight'
    BY <1>9 DEF WriteDocument, LastTaskIsRight, WriterOf
  <2> QED BY <2>1, <2>2, <2>3
<1>10. ASSUME NEW w \in Indexers, DieIndexing(w) PROVE SearchInv'
  <2>1. SearchTypeOK'
    BY <1>10 DEF DieIndexing
  <2>2. MadeIsMade' /\ TasksFit'
    BY <1>10 DEF DieIndexing, MadeIsMade, TasksFit
  <2>3. LastTaskIsRight'
    BY <1>10 DEF DieIndexing, LastTaskIsRight, WriterOf
  <2> QED BY <2>1, <2>2, <2>3
<1>11. CASE UNCHANGED searchVars
  BY <1>11 DEF searchVars, MadeIsMade, TasksFit, LastTaskIsRight, WriterOf
<1> QED
  BY <1>1, <1>2, <1>3, <1>4, <1>5, <1>6, <1>7, <1>8, <1>9, <1>10, <1>11 DEF SearchNext

\* Once its tasks have run the search finds a row by exactly what it says now, unless a task of
\* the row was lost, read before a commit or overlapped another (apps/search): for any number
\* of rows, tasks and workers.
THEOREM SearchFindsRows == SearchSpec => []SearchMatchesRows
<1>1. SearchInv => SearchMatchesRows
  BY DEF SearchInv, SearchTypeOK, LastTaskIsRight, SearchMatchesRows, Idle, Hits, DbSearch,
         WritingAt, WriterOf, NoRow
<1> QED
  BY <1>1, InitSearchInv, NextSearchInv, PTL DEF SearchSpec

-----------------------------------------------------------------------------
(***************************************************************************)
(* Astrology: one job at a time is on charts                               *)
(***************************************************************************)
AstrologySpec == AstrologyInit /\ [][AstrologyNext]_astrologyVars

Birth == Births \cup {NoBirth}
Score == [about : Owners, of : [Owners -> Birth]]
JobStates == Charting \cup {"done", "failed", "scored", "storing", "shown"}
Begun == [pc : JobStates, owner : Owners, born : Birth, got : SUBSET (Birth \cup Score)]

Rows == [Jobs -> [pc : {"new"}] \cup Begun]

AstrologyTypeOK ==
    /\ birth \in [Owners -> Birth]
    /\ chart \in [Owners -> Birth]
    /\ results \in SUBSET Birth
    /\ cached \in [Births -> SUBSET Owners]
    /\ score \in SUBSET (Birth \cup Score)
    /\ job \in Rows
    /\ repeated \in SUBSET Owners
    /\ mingled \in BOOLEAN
    /\ failed \in BOOLEAN

\* A score that a task has stored or found is the pair's only one.
ScoreIsTold ==
    \A j \in Jobs : /\ JobAt(j, "scored") => score # NoScore /\ job[j].got = score
                    /\ JobAt(j, "storing") => job[j].got # NoScore

\* What the chart cache knows has a result, and a chart is computed from birth data.
CacheHasResults ==
    /\ \A b \in Births : cached[b] # {} => b \in results
    /\ \A j \in Jobs : OnChart(j) =>
          job[j].born \in Births /\ birth[job[j].owner] \in Births

\* One job at a time is on charts; it has its user's latest birth data, which are new
\* until the chart is computed, and every other user has his chart.
OneChartAtATime ==
    /\ \A j, k \in Jobs : OnChart(j) /\ OnChart(k) => j = k
    /\ \A j \in Jobs : OnChart(j) =>
          /\ job[j].born = birth[job[j].owner]
          /\ ~JobAt(j, "recording") => job[j].born \notin results
    /\ \A u \in Owners : chart[u] = birth[u] \/
          \E j \in Jobs : OnChart(j) /\ ~JobAt(j, "recording") /\ job[j].owner = u

AstrologyInv ==
    /\ AstrologyTypeOK /\ ScoreIsTold /\ CacheHasResults
    /\ ~mingled /\ ~failed /\ repeated = {} => OneChartAtATime

\* No chart is there at first, and no score.
LEMMA InitAstrologyInv == AstrologyInit => AstrologyInv
<1> SUFFICES ASSUME AstrologyInit PROVE AstrologyInv
  OBVIOUS
<1> USE DEF AstrologyInit, NoScore
<1>1. AstrologyTypeOK
  BY DEF AstrologyTypeOK, Birth, Rows
<1>2. ScoreIsTold /\ CacheHasResults /\ OneChartAtATime
  BY DEF ScoreIsTold, CacheHasResults, OneChartAtATime, JobAt, OnChart, Charting
<1> QED BY <1>1, <1>2 DEF AstrologyInv

\* The row of one job is written, and the other rows stay.
LEMMA JobMoves ==
  ASSUME AstrologyTypeOK, NEW j \in Jobs, NEW next \in Begun, job' = [job EXCEPT ![j] = next]
  PROVE  /\ job' \in Rows /\ job'[j] = next
         /\ \A k \in Jobs \ {j} : job'[k] = job[k]
<1> HIDE DEF Begun
<1> QED BY DEF AstrologyTypeOK, Rows

\* Every step keeps what charts and scores rest on.
LEMMA NextAstrologyInv == AstrologyInv /\ [AstrologyNext]_astrologyVars => AstrologyInv'
<1> SUFFICES ASSUME AstrologyInv, [AstrologyNext]_astrologyVars PROVE AstrologyInv'
  OBVIOUS
<1>0. /\ birth \in [Owners -> Birth] /\ chart \in [Owners -> Birth]
      /\ cached \in [Births -> SUBSET Owners] /\ results \in SUBSET Birth
      /\ score \in SUBSET (Birth \cup Score) /\ job \in Rows /\ AstrologyTypeOK
      /\ repeated \in SUBSET Owners /\ mingled \in BOOLEAN /\ failed \in BOOLEAN
      /\ Births \subseteq Birth
  BY DEF AstrologyInv, AstrologyTypeOK, Birth
<1>m. \A k \in Jobs : job[k].pc # "new" =>
        /\ job[k] \in Begun /\ job[k].owner \in Owners /\ job[k].born \in Birth
        /\ job[k].got \in SUBSET (Birth \cup Score)
  BY <1>0 DEF Begun, Rows
<1>p. ScoreIsTold /\ CacheHasResults /\ (~mingled /\ ~failed /\ repeated = {} => OneChartAtATime)
  BY DEF AstrologyInv
<1> USE DEF JobAt, OnChart, Charting
<1>1. ASSUME NEW b \in Births, ExpireChart(b) PROVE AstrologyInv'
  <2>1. AstrologyTypeOK'
    BY <1>0, <1>1 DEF ExpireChart, AstrologyTypeOK, History
  <2> QED BY <1>0, <1>1, <1>p, <2>1
          DEF ExpireChart, AstrologyInv, ScoreIsTold, CacheHasResults, OneChartAtATime, History
<1>2. ASSUME NEW j \in Jobs, NEW u \in Owners, NEW b \in Births, NEW pc \in {"looking", "queued"},
             Submit(j, u, b, pc)
      PROVE  AstrologyInv'
  <2> DEFINE next == [pc |-> pc, owner |-> u, born |-> b, got |-> {}]
  <2>1. next \in Begun /\ next.pc = pc /\ next.owner = u /\ next.born = b
    BY <1>0, <1>2, <1>m DEF Submit, Begun, JobStates
  <2>2. job' = [job EXCEPT ![j] = next]
    BY <1>2 DEF Submit
  <2> HIDE DEF next
  <2>3. /\ job' \in Rows /\ job'[j] = next
        /\ \A k \in Jobs \ {j} : job'[k] = job[k]
    BY <1>0, <2>1, <2>2, JobMoves
  <2>4. /\ birth' \in [Owners -> Birth] /\ birth'[u] = b
        /\ \A v \in Owners \ {u} : birth'[v] = birth[v]
    BY <1>0, <1>2 DEF Submit, GiveBirth
  <2>9. job[j].pc = "new"
    BY <1>2 DEF Submit
  <2>5. AstrologyTypeOK'
    BY <1>0, <1>2, <2>1, <2>3, <2>4, <2>9 DEF Submit, AstrologyTypeOK, Charts, History
  <2>6. ScoreIsTold'
    BY <1>0, <1>p, <1>2, <2>1, <2>3, <2>4, <2>9 DEF Submit, ScoreIsTold, Charts, History
  <2>7. CacheHasResults'
    BY <1>0, <1>p, <1>m, <1>2, <2>1, <2>3, <2>4, <2>9 DEF Submit, CacheHasResults, Charts, History
  <2>8. ASSUME ~mingled', ~failed', repeated' = {} PROVE OneChartAtATime'
    <3>1. OneChartAtATime /\ (\A k \in Jobs : ~OnChart(k)) /\ b \notin results
      BY <1>0, <1>p, <1>2, <2>8 DEF Submit
    <3>2. chart' = chart /\ results' = results
      BY <1>2 DEF Submit
    <3> QED BY <1>0, <1>m, <2>1, <2>3, <2>4, <2>9, <3>1, <3>2 DEF OneChartAtATime
  <2> QED BY <2>5, <2>6, <2>7, <2>8 DEF AstrologyInv
<1>3. ASSUME NEW j \in Jobs, Take(j) PROVE AstrologyInv'
  <2> DEFINE next == [job[j] EXCEPT !.pc = "looking", !.born = birth[job[j].owner]]
  <2>1. next \in Begun /\ next.pc = "looking" /\ next.owner = job[j].owner /\ next.got = job[j].got
        /\ next.born = birth[job[j].owner] /\ next.born \in Births
    BY <1>0, <1>3, <1>m, <1>p DEF Take, Begun, JobStates, CacheHasResults
  <2>2. job' = [job EXCEPT ![j] = next]
    BY <1>3 DEF Take
  <2> HIDE DEF next
  <2>3. /\ job' \in Rows /\ job'[j] = next
        /\ \A k \in Jobs \ {j} : job'[k] = job[k]
    BY <1>0, <2>1, <2>2, JobMoves
  <2>5. AstrologyTypeOK'
    BY <1>0, <1>3, <2>1, <2>3 DEF Take, AstrologyTypeOK, Charts, History
  <2>6. ScoreIsTold'
    BY <1>0, <1>p, <1>3, <2>1, <2>3 DEF Take, ScoreIsTold, Charts, History
  <2>7. CacheHasResults'
    BY <1>0, <1>p, <1>m, <1>3, <2>1, <2>3 DEF Take, CacheHasResults, Charts, History
  <2>8. ASSUME ~mingled', ~failed', repeated' = {} PROVE OneChartAtATime'
    BY <1>0, <1>p, <1>m, <1>3, <2>1, <2>3, <2>8 DEF Take, OneChartAtATime, Charts, History
  <2> QED BY <2>5, <2>6, <2>7, <2>8 DEF AstrologyInv
<1>4. ASSUME NEW j \in Jobs, Look(j) PROVE AstrologyInv'
  <2>0. job[j] \in Begun
    BY <1>4, <1>m DEF Look
  <2> DEFINE next == IF Known(j) THEN [job[j] EXCEPT !.pc = "done", !.got = {chart[job[j].owner]}]
                     ELSE [job[j] EXCEPT !.pc = "calculating"]
  <2>1. /\ next \in Begun /\ next.owner = job[j].owner /\ next.born = job[j].born
        /\ next.pc = IF Known(j) THEN "done" ELSE "calculating"
    BY <1>0, <2>0 DEF Begun, JobStates
  <2>2. job' = [job EXCEPT ![j] = next]
    <3>1. CASE Known(j)
      BY <1>4, <3>1 DEF Look, JobEnds
    <3>2. CASE ~Known(j)
      BY <1>4, <2>0, <3>2 DEF Look, To
    <3> QED BY <3>1, <3>2
  <2> HIDE DEF next
  <2>3. /\ job' \in Rows /\ job'[j] = next
        /\ \A k \in Jobs \ {j} : job'[k] = job[k]
    BY <1>0, <2>1, <2>2, JobMoves
  <2>5. AstrologyTypeOK'
    BY <1>0, <1>4, <2>0, <2>1, <2>3 DEF Look, AstrologyTypeOK, Charts, History
  <2>6. ScoreIsTold'
    BY <1>0, <1>p, <1>4, <2>0, <2>1, <2>3 DEF Look, ScoreIsTold, Charts, History
  <2>7. CacheHasResults'
    BY <1>0, <1>p, <1>m, <1>4, <2>0, <2>1, <2>3 DEF Look, CacheHasResults, Charts, History
  <2>8. ASSUME ~mingled', ~failed', repeated' = {} PROVE OneChartAtATime'
    BY <1>0, <1>p, <1>m, <1>4, <2>0, <2>1, <2>3, <2>8 
       DEF Look, Known, OneChartAtATime, Charts, History
  <2> QED BY <2>5, <2>6, <2>7, <2>8 DEF AstrologyInv
<1>5. ASSUME NEW j \in Jobs, Calculate(j) PROVE AstrologyInv'
  <2> DEFINE u == job[j].owner
             b == job[j].born
  <2>0. /\ job[j] \in Begun /\ u \in Owners /\ b \in Births /\ job[j].pc = "calculating"
        /\ birth' = birth /\ score' = score
        /\ repeated' = repeated /\ mingled' = mingled /\ failed' = failed
    BY <1>5, <1>m, <1>p DEF Calculate, CacheHasResults, History
  <2>e. ASSUME NEW got \in Birth, job' = [job EXCEPT ![j] =
                                            [job[j] EXCEPT !.pc = "recording", !.got = {got}]]
        PROVE  /\ job' \in Rows
               /\ job'[j].pc = "recording" /\ job'[j].owner = u /\ job'[j].born = b
               /\ \A k \in Jobs \ {j} : job'[k] = job[k]
    <3> DEFINE next == [job[j] EXCEPT !.pc = "recording", !.got = {got}]
    <3>1. next \in Begun /\ next.pc = "recording" /\ next.owner = u /\ next.born = b
      BY <2>0 DEF Begun, JobStates
    <3>2. job' = [job EXCEPT ![j] = next]
      BY <2>e
    <3> HIDE DEF next
    <3> QED BY <1>0, <3>1, <3>2, JobMoves
  <2>1. CASE cached[b] # {}
    <3>1. PICK v \in cached[b] : job' = [job EXCEPT ![j] =
                                  [job[j] EXCEPT !.pc = "recording", !.got = {chart[v]}]]
      BY <1>5, <2>1 DEF Calculate
    <3>2. chart[v] \in Birth
      BY <1>0, <2>0
    <3>3. chart' = chart /\ results' = results /\ cached' = cached
      BY <1>5, <2>1 DEF Calculate
    <3>4. /\ job' \in Rows
          /\ job'[j].pc = "recording" /\ job'[j].owner = u /\ job'[j].born = b
          /\ \A k \in Jobs \ {j} : job'[k] = job[k]
      BY <2>e, <3>1, <3>2
    <3> HIDE DEF u, b
    <3>5. AstrologyTypeOK'
      BY <1>0, <2>0, <3>3, <3>4 DEF AstrologyTypeOK
    <3>6. ScoreIsTold'
      BY <1>p, <2>0, <3>4 DEF ScoreIsTold
    <3>7. CacheHasResults'
      BY <1>p, <2>0, <3>3, <3>4 DEF CacheHasResults, u, b
    <3>8. ASSUME ~mingled', ~failed', repeated' = {} PROVE OneChartAtATime'
      <4>1. OneChartAtATime /\ b \in results
        BY <1>p, <2>0, <2>1, <3>8 DEF CacheHasResults
      <4> QED BY <2>0, <4>1 DEF OneChartAtATime, b
    <3> QED BY <3>5, <3>6, <3>7, <3>8 DEF AstrologyInv
  <2>2. CASE cached[b] = {}
    <3>1. job' = [job EXCEPT ![j] = [job[j] EXCEPT !.pc = "recording", !.got = {b}]]
      BY <1>5, <2>2 DEF Calculate
    <3>2. /\ chart' = [chart EXCEPT ![u] = b]
          /\ results' = results \cup {b}
          /\ cached' = [cached EXCEPT ![b] = {u}]
      BY <1>5, <2>2 DEF Calculate
    <3>4. /\ job' \in Rows
          /\ job'[j].pc = "recording" /\ job'[j].owner = u /\ job'[j].born = b
          /\ \A k \in Jobs \ {j} : job'[k] = job[k]
      BY <1>0, <2>0, <2>e, <3>1
    <3> HIDE DEF u, b
    <3>3. /\ chart' \in [Owners -> Birth] /\ results' \in SUBSET Birth
          /\ cached' \in [Births -> SUBSET Owners]
          /\ chart'[u] = b /\ \A v \in Owners \ {u} : chart'[v] = chart[v]
          /\ \A c \in Births \ {b} : cached'[c] = cached[c]
      BY <1>0, <2>0, <3>2
    <3>5. AstrologyTypeOK'
      BY <1>0, <2>0, <3>3, <3>4 DEF AstrologyTypeOK
    <3>6. ScoreIsTold'
      BY <1>p, <2>0, <3>4 DEF ScoreIsTold
    <3>7. CacheHasResults'
      BY <1>p, <2>0, <3>2, <3>3, <3>4 DEF CacheHasResults, u, b
    <3>8. ASSUME ~mingled', ~failed', repeated' = {} PROVE OneChartAtATime'
      <4>1. OneChartAtATime
        BY <1>p, <2>0, <3>8
      <4>2. b = birth[u] /\ \A k \in Jobs : OnChart(k) => k = j
        BY <2>0, <4>1 DEF OneChartAtATime, u, b
      <4>3. \A v \in Owners \ {u} : chart[v] = birth[v]
        BY <2>0, <4>1, <4>2 DEF OneChartAtATime, u
      <4> QED BY <2>0, <3>3, <3>4, <4>2, <4>3 DEF OneChartAtATime
    <3> QED BY <3>5, <3>6, <3>7, <3>8 DEF AstrologyInv
  <2> QED BY <2>1, <2>2
<1>6. ASSUME NEW j \in Jobs, Record(j) PROVE AstrologyInv'
  <2> DEFINE next == [job[j] EXCEPT !.pc = "done"]
  <2>1. next \in Begun /\ next.pc = "done" /\ next.owner = job[j].owner /\ next.born = job[j].born
    BY <1>0, <1>6, <1>m DEF Record, Begun, JobStates
  <2>2. job' = [job EXCEPT ![j] = next]
    BY <1>6 DEF Record, To
  <2> HIDE DEF next
  <2>3. /\ job' \in Rows /\ job'[j] = next
        /\ \A k \in Jobs \ {j} : job'[k] = job[k]
    BY <1>0, <2>1, <2>2, JobMoves
  <2>5. AstrologyTypeOK'
    BY <1>0, <1>6, <1>m, <2>1, <2>3 DEF Record, AstrologyTypeOK, Charts, History
  <2>6. ScoreIsTold'
    BY <1>0, <1>p, <1>6, <2>1, <2>3 DEF Record, ScoreIsTold, Charts, History
  <2>7. CacheHasResults'
    BY <1>0, <1>p, <1>m, <1>6, <2>1, <2>3 DEF Record, CacheHasResults, Charts, History
  <2>8. ASSUME ~mingled', ~failed', repeated' = {} PROVE OneChartAtATime'
    BY <1>0, <1>p, <1>m, <1>6, <2>1, <2>3, <2>8 DEF Record, OneChartAtATime, Charts, History
  <2> QED BY <2>5, <2>6, <2>7, <2>8 DEF AstrologyInv
<1>7. ASSUME NEW j \in Jobs, Fail(j) PROVE AstrologyInv'
  <2> DEFINE next == [job[j] EXCEPT !.pc = "failed"]
  <2>1. next \in Begun /\ next.pc = "failed" /\ next.owner = job[j].owner /\ next.born = job[j].born
    BY <1>0, <1>7, <1>m DEF Fail, Begun, JobStates
  <2>2. job' = [job EXCEPT ![j] = next]
    BY <1>7 DEF Fail, To
  <2> HIDE DEF next
  <2>3. /\ job' \in Rows /\ job'[j] = next
        /\ \A k \in Jobs \ {j} : job'[k] = job[k]
    BY <1>0, <2>1, <2>2, JobMoves
  <2>5. AstrologyTypeOK'
    BY <1>0, <1>7, <2>1, <2>3 DEF Fail, AstrologyTypeOK, Charts, History
  <2>6. ScoreIsTold'
    BY <1>0, <1>p, <1>7, <2>1, <2>3 DEF Fail, ScoreIsTold, Charts, History
  <2>7. CacheHasResults'
    BY <1>0, <1>p, <1>m, <1>7, <2>1, <2>3 DEF Fail, CacheHasResults, Charts, History
  <2>8. ASSUME ~mingled', ~failed', repeated' = {} PROVE OneChartAtATime'
    BY <1>0, <1>p, <1>m, <1>7, <2>1, <2>3, <2>8 DEF Fail, OneChartAtATime, Charts, History
  <2> QED BY <2>5, <2>6, <2>7, <2>8 DEF AstrologyInv
<1>8. ASSUME NEW j \in Jobs, StoreScore(j) PROVE AstrologyInv'
  <2>0. /\ job[j].pc = "storing" /\ job[j] \in Begun /\ score' \in SUBSET (Birth \cup Score)
        /\ score' = IF score = NoScore THEN job[j].got ELSE score
    BY <1>0, <1>8, <1>m DEF StoreScore
  <2> DEFINE next == [job[j] EXCEPT !.pc = "scored", !.got = score']
  <2>1. next \in Begun /\ next.pc = "scored" /\ next.got = score'
    BY <1>0, <1>8, <1>m, <2>0 DEF StoreScore, Begun, JobStates
  <2>2. job' = [job EXCEPT ![j] = next]
    BY <1>8 DEF StoreScore
  <2> HIDE DEF next
  <2>3. /\ job' \in Rows /\ job'[j] = next
        /\ \A k \in Jobs \ {j} : job'[k] = job[k]
    BY <1>0, <2>1, <2>2, JobMoves
  <2>5. AstrologyTypeOK'
    BY <1>0, <1>8, <2>0, <2>1, <2>3 DEF StoreScore, AstrologyTypeOK, Charts, History
  <2>6. ScoreIsTold'
    BY <1>0, <1>p, <1>8, <2>0, <2>1, <2>3 DEF StoreScore, ScoreIsTold, Charts, History
  <2>7. CacheHasResults'
    BY <1>0, <1>p, <1>m, <1>8, <2>0, <2>1, <2>3 DEF StoreScore, CacheHasResults, Charts, History
  <2>8. ASSUME ~mingled', ~failed', repeated' = {} PROVE OneChartAtATime'
    BY <1>0, <1>p, <1>m, <1>8, <2>0, <2>1, <2>3, <2>8 
       DEF StoreScore, OneChartAtATime, Charts, History
  <2> QED BY <2>5, <2>6, <2>7, <2>8 DEF AstrologyInv
<1>9. ASSUME NEW j \in Jobs, NEW u \in Owners, AskScore(j, u) \/ ScoreNow(j, u)
      PROVE  AstrologyInv'
  <2>0. {ScoreOf(u)} \in SUBSET (Birth \cup Score) /\ job[j].pc = "new"
    BY <1>0, <1>9 DEF ScoreOf, Score, AskScore, ScoreNow
  <2>1. PICK next \in Begun :
          /\ job' = [job EXCEPT ![j] = next]
          /\ next.pc \in {"scored", "storing", "shown"}
          /\ next.pc = "scored" => score # NoScore /\ next.got = score
          /\ next.pc = "storing" => next.got # NoScore
    <3> DEFINE new(pc, got) == [pc |-> pc, owner |-> u, born |-> NoBirth, got |-> got]
    <3>1. ASSUME NEW got \in SUBSET (Birth \cup Score), NEW pc \in {"scored", "storing", "shown"}
          PROVE  new(pc, got) \in Begun
      BY DEF Begun, JobStates, Birth
    <3>2. new("scored", score) \in Begun /\ new("storing", {ScoreOf(u)}) \in Begun
          /\ new("shown", {ScoreOf(u)}) \in Begun
      BY <1>0, <2>0, <3>1
    <3>3. CASE ScoreNow(j, u)
      BY <3>2, <3>3 DEF ScoreNow
    <3>4. CASE AskScore(j, u) /\ score # NoScore
      BY <3>2, <3>4 DEF AskScore
    <3>5. CASE AskScore(j, u) /\ score = NoScore
      BY <3>2, <3>5 DEF AskScore, NoScore
    <3> QED BY <1>9, <3>3, <3>4, <3>5
  <2>3. /\ job' \in Rows /\ job'[j] = next
        /\ \A k \in Jobs \ {j} : job'[k] = job[k]
    BY <1>0, <2>1, JobMoves
  <2>4. UNCHANGED <<birth, chart, results, cached, score, repeated, mingled, failed>>
    BY <1>9 DEF AskScore, ScoreNow, Charts, History
  <2>5. AstrologyTypeOK'
    BY <1>0, <2>3, <2>4 DEF AstrologyTypeOK
  <2>6. ScoreIsTold'
    BY <1>p, <2>1, <2>3, <2>4 DEF ScoreIsTold
  <2>7. CacheHasResults'
    BY <1>p, <2>0, <2>1, <2>3, <2>4 DEF CacheHasResults
  <2>8. ASSUME ~mingled', ~failed', repeated' = {} PROVE OneChartAtATime'
    BY <1>p, <2>0, <2>1, <2>3, <2>4, <2>8 DEF OneChartAtATime
  <2> QED BY <2>5, <2>6, <2>7, <2>8 DEF AstrologyInv
<1>10. CASE UNCHANGED astrologyVars
  BY <1>10 DEF astrologyVars, AstrologyInv, AstrologyTypeOK, ScoreIsTold, CacheHasResults,
     OneChartAtATime
<1> QED
  BY <1>1, <1>2, <1>3, <1>4, <1>5, <1>6, <1>7, <1>8, <1>9, <1>10 DEF AstrologyNext

\* When nothing is under way, overlapped or failed and nobody gave the same birth data twice, every
\* user has the chart of his latest birth data, and all tasks that score a pair answer the same
\* (apps/astro, apps/matching): for any number of users, of birth data and of requests.
THEOREM RememberedStaysRight == AstrologySpec => []RememberedIsRight
<1>1. AstrologyInv => RememberedIsRight
  BY DEF AstrologyInv, OneChartAtATime, ScoreIsTold, RememberedIsRight, NewBirthHasItsChart,
         ScoresAgree, Settled, Current
<1> QED
  BY <1>1, InitAstrologyInv, NextAstrologyInv, PTL DEF AstrologySpec

(***************************************************************************)
(* Numbers                                                                 *)
(***************************************************************************)
\* Every set of natural numbers that is not empty has a least element.
LEMMA LeastNat ==
  ASSUME NEW S \in SUBSET Nat, S # {}
  PROVE  \E n \in S : \A m \in S : n <= m
<1>1. IsWellFoundedOn({ss \in Nat \X Nat : ss[1] < ss[2]}, Nat)
  BY NatLessThanWellFounded DEF OpToRel
<1>2. PICK n \in S : \A m \in S : ~(<<m, n>> \in {ss \in Nat \X Nat : ss[1] < ss[2]})
  BY <1>1, WFMin
<1> QED
  <2>1. ASSUME NEW m \in S PROVE n <= m
    <3>1. ~(m < n)
      BY <1>2
    <3> QED BY <3>1
  <2> QED BY <2>1

\* What holds of zero, and of the successor of each number it holds of, holds of all.
LEMMA NatIsAll ==
  ASSUME NEW S, 0 \in S, \A n \in Nat : n \in S => n + 1 \in S
  PROVE  Nat \subseteq S
<1> SUFFICES ASSUME Nat \ S # {} PROVE FALSE
  OBVIOUS
<1>1. PICK n \in Nat \ S : \A m \in Nat \ S : n <= m
  BY LeastNat
<1>2. n # 0 /\ n - 1 \in Nat /\ n - 1 \in S
  BY <1>1
<1> QED BY <1>1, <1>2

\* A function on the first numbers is defined by its first value and its steps.
Steps(N, V) == [1..N -> [V -> V]]
MadeBySteps(f, N, V, a, step) ==
    /\ f \in [0..N -> V]
    /\ f[0] = a
    /\ \A n \in 1..N : f[n] = step[n][f[n - 1]]

\* Such a function exists.
LEMMA StepsMakeFunction ==
  ASSUME NEW V, NEW N \in Nat, NEW a \in V, NEW step, step \in Steps(N, V)
  PROVE  \E f : MadeBySteps(f, N, V, a, step)
<1> USE DEF Steps, MadeBySteps
<1> DEFINE Fits(f, n) == f \in [0..n -> V] /\ f[0] = a /\ \A k \in 1..n : f[k] = step[k][f[k - 1]]
           S == {n \in Nat : n <= N => \E f : Fits(f, n)}
<1>1. 0 \in S
  <2>1. Fits([k \in 0..0 |-> a], 0)
    OBVIOUS
  <2> QED BY <2>1
<1>2. ASSUME NEW n \in Nat, n \in S PROVE n + 1 \in S
  <2> SUFFICES ASSUME n + 1 <= N PROVE \E f : Fits(f, n + 1)
    OBVIOUS
  <2>1. PICK f : Fits(f, n)
    BY <1>2
  <2> DEFINE g == [k \in 0..(n + 1) |-> IF k = n + 1 THEN step[n + 1][f[n]] ELSE f[k]]
  <2>2. f[n] \in V /\ step[n + 1] \in [V -> V]
    BY <2>1
  <2>3. g \in [0..(n + 1) -> V] /\ g[0] = a
    BY <2>1, <2>2
  <2>4. ASSUME NEW k \in 1..(n + 1) PROVE g[k] = step[k][g[k - 1]]
    <3>1. CASE k = n + 1
      BY <3>1
    <3>2. CASE k # n + 1
      <4>1. k \in 1..n /\ g[k] = f[k] /\ g[k - 1] = f[k - 1]
        BY <3>2
      <4> QED BY <2>1, <4>1
    <3> QED BY <3>1, <3>2
  <2> QED BY <2>3, <2>4
<1>3. N \in S
  <2> HIDE DEF S
  <2> QED BY <1>1, <1>2, NatIsAll
<1> QED BY <1>3

(***************************************************************************)
(* Feed                                                                    *)
(***************************************************************************)
\* A sequence put behind another adds its elements.
LEMMA SetOfConcat ==
  ASSUME NEW T, NEW s \in Seq(T), NEW u \in Seq(T)
  PROVE  ToSet(s \o u) = ToSet(s) \cup ToSet(u)
<1>1. Len(s) \in Nat /\ Len(u) \in Nat
  BY LenProperties
<1>2. /\ DOMAIN s = 1..Len(s) /\ DOMAIN u = 1..Len(u)
      /\ DOMAIN (s \o u) = 1..(Len(s) + Len(u))
  BY ConcatProperties, LenProperties
<1>3. \A i \in 1..(Len(s) + Len(u)) :
         (s \o u)[i] = IF i <= Len(s) THEN s[i] ELSE u[i - Len(s)]
  BY ConcatProperties
<1>4. ASSUME NEW i \in 1..Len(s) PROVE s[i] \in ToSet(s \o u)
  <2>1. i \in 1..(Len(s) + Len(u)) /\ i <= Len(s)
    BY <1>1
  <2> QED BY <1>2, <1>3, <2>1 DEF ToSet
<1>5. ASSUME NEW i \in 1..Len(u) PROVE u[i] \in ToSet(s \o u)
  <2>1. i + Len(s) \in 1..(Len(s) + Len(u)) /\ ~(i + Len(s) <= Len(s)) /\ i + Len(s) - Len(s) = i
    BY <1>1
  <2>2. (s \o u)[i + Len(s)] = u[i]
    BY <1>3, <2>1
  <2> QED BY <1>2, <2>1, <2>2 DEF ToSet
<1>6. ASSUME NEW i \in 1..(Len(s) + Len(u)) PROVE (s \o u)[i] \in ToSet(s) \cup ToSet(u)
  <2>1. CASE i <= Len(s)
    <3>1. i \in 1..Len(s)
      BY <1>1, <2>1
    <3> QED BY <1>2, <1>3, <2>1, <3>1 DEF ToSet
  <2>2. CASE ~(i <= Len(s))
    <3>1. i - Len(s) \in 1..Len(u)
      BY <1>1, <2>2
    <3> QED BY <1>2, <1>3, <2>2, <3>1 DEF ToSet
  <2> QED BY <2>1, <2>2
<1> QED BY <1>2, <1>4, <1>5, <1>6 DEF ToSet

\* The posts that a rebuilt timeline is made of.
LEMMA NewestFirstIs ==
  ASSUME posts \in Seq([author : {"reader", "author"}, visible : BOOLEAN])
  PROVE  /\ NewestFirst \in [0..Len(posts) -> Seq(Nat)]
         /\ NewestFirst[0] = <<>>
         /\ \A n \in 1..Len(posts) :
               NewestFirst[n] = (IF Chosen(n) THEN <<n>> ELSE <<>>) \o NewestFirst[n - 1]
<1> DEFINE N == Len(posts)
           V == Seq(Nat)
           next(n, s) == (IF Chosen(n) THEN <<n>> ELSE <<>>) \o s
           step == [n \in 1..N |-> [s \in V |-> next(n, s)]]
           Is(f) == f = [n \in 0..N |-> IF n = 0 THEN <<>> ELSE next(n, f[n - 1])]
<1>1. N \in Nat /\ <<>> \in V
  BY LenProperties
<1>0. ASSUME NEW n \in 1..N, NEW s \in V PROVE next(n, s) \in V
  <2>1. n \in Nat
    BY <1>1
  <2>2. (IF Chosen(n) THEN <<n>> ELSE <<>>) \in Seq(Nat)
    BY <2>1
  <2> HIDE DEF N
  <2> QED BY <2>2, ConcatProperties
<1>5. (\E f : Is(f)) => Is(NewestFirst)
  BY DEF NewestFirst
<1>s. \A n \in 1..N : NewestFirst[n] = next(n, NewestFirst[n - 1]) =>
        NewestFirst[n] = (IF Chosen(n) THEN <<n>> ELSE <<>>) \o NewestFirst[n - 1]
  OBVIOUS
<1> HIDE DEF N, V, next
<1>2. step \in [1..N -> [V -> V]]
  BY <1>0
<1>3. PICK f \in [0..N -> V] : f[0] = <<>> /\ \A n \in 1..N : f[n] = step[n][f[n - 1]]
  <2> HIDE DEF step
  <2>1. step \in Steps(N, V)
    BY <1>2 DEF Steps
  <2>2. PICK f : MadeBySteps(f, N, V, <<>>, step)
    BY <1>1, <2>1, StepsMakeFunction
  <2> QED BY <2>2 DEF MadeBySteps
<1>4. Is(f)
  <2>1. ASSUME NEW n \in 1..N PROVE f[n] = next(n, f[n - 1])
    <3>1. f[n - 1] \in V
      BY <1>1
    <3> QED BY <1>3, <3>1
  <2>2. \A n \in 0..N : f[n] = IF n = 0 THEN <<>> ELSE next(n, f[n - 1])
    <3>1. \A n \in 0..N : n = 0 \/ n \in 1..N
      BY <1>1
    <3> QED BY <1>3, <2>1, <3>1
  <2> QED BY <2>2
<1>6. ASSUME NEW g, Is(g)
      PROVE  /\ DOMAIN g = 0..N /\ g = [n \in 0..N |-> g[n]]
             /\ g[0] = <<>> /\ \A n \in 1..N : g[n] = next(n, g[n - 1])
  <2>1. \A n \in 0..N : g[n] = IF n = 0 THEN <<>> ELSE next(n, g[n - 1])
    BY <1>6
  <2>2. 0 \in 0..N /\ \A n \in 1..N : n \in 0..N /\ n # 0
    BY <1>1
  <2> QED BY <1>6, <2>1, <2>2
<1>8. Is(NewestFirst)
  BY <1>4, <1>5
<1>9. /\ DOMAIN NewestFirst = 0..N /\ NewestFirst = [n \in 0..N |-> NewestFirst[n]]
      /\ NewestFirst[0] = <<>>
      /\ \A n \in 1..N : NewestFirst[n] = next(n, NewestFirst[n - 1])
  <2> HIDE DEF Is
  <2> QED BY <1>6, <1>8
<1>7. NewestFirst \in [0..N -> V]
  <2> DEFINE S == {n \in Nat : n <= N => NewestFirst[n] \in V}
  <2>1. 0 \in S
    BY <1>1, <1>9
  <2>2. ASSUME NEW n \in Nat, n \in S PROVE n + 1 \in S
    <3> SUFFICES ASSUME n + 1 <= N PROVE NewestFirst[n + 1] \in V
      OBVIOUS
    <3>1. n + 1 \in 1..N /\ NewestFirst[n] \in V /\ (n + 1) - 1 = n
      BY <1>1, <2>2
    <3>2. NewestFirst[n + 1] = next(n + 1, NewestFirst[n])
      BY <1>9, <3>1
    <3> QED BY <1>0, <3>1, <3>2
  <2>3. \A n \in 0..N : NewestFirst[n] \in V
    <3> HIDE DEF S
    <3>1. Nat \subseteq S
      BY <2>1, <2>2, NatIsAll
    <3> QED BY <1>1, <3>1 DEF S
  <2> QED BY <1>9, <2>3
<1> QED BY <1>7, <1>9, <1>s DEF N, V

\* The rows of a rebuilt timeline are the open posts of those the reader follows.
LEMMA CandidatesAre ==
  ASSUME posts \in Seq([author : {"reader", "author"}, visible : BOOLEAN])
  PROVE  /\ Candidates \in Seq(Nat)
         /\ ToSet(Candidates) = {p \in 1..Len(posts) : Chosen(p)}
<1> DEFINE N == Len(posts)
           S == {n \in Nat : n <= N => ToSet(NewestFirst[n]) = {p \in 1..n : Chosen(p)}}
<1>0. N \in Nat
  BY LenProperties
<1>1. 0 \in S
  <2>1. ToSet(<<>>) = {} /\ 1..0 = {}
    BY DEF ToSet
  <2>2. {p \in 1..0 : Chosen(p)} = {}
    BY <2>1
  <2>3. NewestFirst[0] = <<>>
    BY NewestFirstIs
  <2> HIDE DEF N
  <2> QED BY <2>1, <2>2, <2>3
<1>2. ASSUME NEW n \in Nat, n \in S PROVE n + 1 \in S
  <2> SUFFICES ASSUME n + 1 <= N
               PROVE  ToSet(NewestFirst[n + 1]) = {p \in 1..(n + 1) : Chosen(p)}
    OBVIOUS
  <2> DEFINE first == IF Chosen(n + 1) THEN <<n + 1>> ELSE <<>>
             rest == NewestFirst[n]
  <2>1. n + 1 \in 1..N /\ n \in 0..N /\ (n + 1) - 1 = n
    BY <1>0
  <2>2. NewestFirst[n + 1] = first \o rest /\ rest \in Seq(Nat) /\ first \in Seq(Nat)
    <3>1. first \in Seq(Nat)
      OBVIOUS
    <3>2. rest \in Seq(Nat)
      BY <2>1, NewestFirstIs
    <3>3. NewestFirst[n + 1] = first \o NewestFirst[(n + 1) - 1]
      BY <2>1, NewestFirstIs
    <3> HIDE DEF first
    <3> QED BY <2>1, <3>1, <3>2, <3>3
  <2>3. ToSet(first) = IF Chosen(n + 1) THEN {n + 1} ELSE {}
    <3>1. Len(<<n + 1>>) = 1 /\ <<n + 1>>[1] = n + 1 /\ DOMAIN <<n + 1>> = {1}
      OBVIOUS
    <3> HIDE DEF N
    <3> QED BY <3>1 DEF ToSet
  <2>4. ToSet(rest) = {p \in 1..n : Chosen(p)}
    BY <1>0, <1>2, <2>1
  <2>5. ToSet(first \o rest) = ToSet(first) \cup ToSet(rest)
    <3> HIDE DEF first, rest
    <3> QED BY <2>2, SetOfConcat
  <2>6. 1..(n + 1) = {n + 1} \cup 1..n
    OBVIOUS
  <2> HIDE DEF first, rest, N
  <2> QED BY <2>2, <2>3, <2>4, <2>5, <2>6
<1>3. N \in S
  <2> HIDE DEF S
  <2> QED BY <1>0, <1>1, <1>2, NatIsAll
<1> QED BY <1>0, <1>3, NewestFirstIs DEF Candidates

FeedSpec == FeedInit /\ [][FeedNext]_feedVars

Written == [author : {"reader", "author"}, visible : BOOLEAN]
Drafts == [author : {"reader", "author"}, visible : BOOLEAN, fans : BOOLEAN]
Pages == [posts : Seq(Nat), shows : SUBSET Clicks, cached : BOOLEAN]
Reads == Drafts \cup Seq(Nat) \cup Pages
Rebuilding == {"rebuilding", "selected", "emptied"}
ClickStates == {"posting", "written", "composing", "composed", "done"} \cup Rebuilding
ClickOps == {"post", "other", "follow", "unfollow", "rebuild", "view"}
Clicked == [pc : ClickStates, op : ClickOps, read : Reads]
ClickRows == [Clicks -> {[pc |-> "new", op |-> "none"]} \cup Clicked]

FeedTypeOK ==
    /\ posts \in Seq(Written)
    /\ follows \in BOOLEAN
    /\ timeline \in Seq(Nat)
    /\ page \in Pages
    /\ click \in ClickRows
    /\ during \in SUBSET SUBSET Clicks
    /\ broken \in SUBSET Clicks

\* Every request is where a request of its kind can be, with what it has read there.
ClicksFit ==
    \A c \in Clicks :
        /\ click[c].pc = "posting" =>
              /\ click[c].op \in {"post", "other"} /\ Loaded(c) \in Drafts
              /\ click[c].op = "post" <=> Loaded(c).author = "reader"
        /\ click[c].pc \in Rebuilding => click[c].op \in {"follow", "unfollow", "rebuild"}
        /\ click[c].pc \in {"selected", "emptied"} => Loaded(c) \in Seq(Nat)
        /\ click[c].pc = "written" => click[c].op \in {"post", "follow", "unfollow"}
        /\ click[c].pc \in {"composing", "composed"} => click[c].op = "view"
        /\ click[c].pc = "composed" => Loaded(c) \in Pages

\* Requests that are in progress at the same time are on record.
OverlapsKnown ==
    /\ \A c, d \in Clicks : Pending(c) /\ Pending(d) /\ c # d => {c, d} \in during
    /\ \A pair \in during : \A c \in pair : click[c].pc # "new"

\* Nothing failed, and what overlapped were views.
Calm == broken = {} /\ \A pair \in during : \E c \in pair : click[c].op = "view"

Right ==
    \A p \in 1..Len(posts) :
        posts[p].author = "author" =>
            /\ follows /\ posts[p].visible => Contains(timeline, p)
            /\ ~follows => ~Contains(timeline, p)

\* The timeline is right except while it is being rebuilt, from the right posts.
RebuiltInTime ==
    /\ ToSet(timeline) \subseteq 1..Len(posts)
    /\ (\A c \in Clicks : click[c].pc \notin Rebuilding) => Right
    /\ \A c \in Clicks :
          /\ click[c].pc = "posting" =>
                Loaded(c).fans = (Loaded(c).author = "reader" \/ follows)
          /\ click[c].pc \in {"selected", "emptied"} =>
                ToSet(Loaded(c)) = {p \in 1..Len(posts) : Chosen(p)}
          /\ click[c].pc = "emptied" => timeline = <<>>

\* A composed page lacks only the changes that were made since, in its own time.
PagesAreRecent ==
    \A v \in Clicks : click[v].pc = "composed" =>
        \A c \in OwnChanges \ (Loaded(v).shows \cup broken) : {v, c} \in during

FeedInv ==
    /\ FeedTypeOK /\ ClicksFit /\ OverlapsKnown /\ PagesAreRecent /\ StalePageOverlapped
    /\ Calm => RebuiltInTime

\* What a request that begins, and one that goes on, do to the requests.
Began(c) ==
    /\ click[c].pc = "new" /\ click'[c].pc # "new"
    /\ \A d \in Clicks \ {c} : click'[d] = click[d]
    /\ during' = during \cup {{c, d} : d \in {e \in Clicks : Pending(e)}}
WentOn(c) ==
    /\ Pending(c) /\ click'[c].pc # "new" /\ click'[c].op = click[c].op
    /\ \A d \in Clicks \ {c} : click'[d] = click[d]
    /\ during' = during

\* A request that starts.
LEMMA StartBegins ==
  ASSUME FeedTypeOK, NEW c \in Clicks, NEW op \in ClickOps, NEW pc \in ClickStates,
         NEW read \in Reads, Start(c, op, pc, read)
  PROVE  /\ Began(c) /\ click' \in ClickRows
         /\ click'[c].pc = pc /\ click'[c].op = op /\ click'[c].read = read
<1> DEFINE next == [pc |-> pc, op |-> op, read |-> read]
<1>1. /\ next \in Clicked /\ next.pc = pc /\ next.op = op /\ next.read = read
      /\ next.pc # "new"
  BY DEF Clicked, ClickStates, Rebuilding
<1>2. click' = [click EXCEPT ![c] = next] /\ click[c].pc = "new"
  BY DEF Start
<1> HIDE DEF next
<1>3. click' \in ClickRows /\ click'[c] = next /\ \A d \in Clicks \ {c} : click'[d] = click[d]
  <2> HIDE DEF Clicked
  <2> QED BY <1>1, <1>2 DEF FeedTypeOK, ClickRows
<1> QED BY <1>1, <1>2, <1>3 DEF Began, Start

\* A request that goes on.
LEMMA StepGoesOn ==
  ASSUME FeedTypeOK, NEW c \in Clicks, NEW here \in ClickStates \ {"done"},
         NEW there \in ClickStates, NEW read \in Reads, Step(c, here, there, read)
  PROVE  /\ WentOn(c) /\ click' \in ClickRows
         /\ click[c].pc = here /\ click'[c].pc = there
         /\ there # "done" => click'[c].read = read
<1> DEFINE next == [click[c] EXCEPT !.pc = there, !.read = IF there = "done" THEN <<>> ELSE read]
<1>1. click[c] \in Clicked /\ click[c].pc = here /\ here # "new"
  BY DEF FeedTypeOK, ClickRows, Step, ClickStates, Rebuilding
<1>2. <<>> \in Reads
  BY DEF Reads
<1>3. /\ next \in Clicked /\ next.pc = there /\ next.op = click[c].op /\ next.pc # "new"
      /\ there # "done" => next.read = read
  BY <1>1, <1>2 DEF Clicked, ClickStates, Rebuilding
<1>4. click' = [click EXCEPT ![c] = next] /\ during' = during
  BY DEF Step
<1> HIDE DEF next
<1>5. click' \in ClickRows /\ click'[c] = next /\ \A d \in Clicks \ {c} : click'[d] = click[d]
  <2> HIDE DEF Clicked
  <2> QED BY <1>3, <1>4 DEF FeedTypeOK, ClickRows
<1> QED BY <1>1, <1>3, <1>4, <1>5 DEF WentOn, Pending

\* A request that begins or goes on finds those it overlaps with on record, and the
\* record only grows.
LEMMA RecordGrows ==
  ASSUME FeedInv, NEW c \in Clicks, Began(c) \/ WentOn(c), broken \subseteq broken'
  PROVE  /\ OverlapsKnown' /\ during \subseteq during' /\ during' \in SUBSET SUBSET Clicks
         /\ Calm' => Calm /\ \A d, e \in Clicks :
               Pending(d)' /\ Pending(e)' /\ click'[d].op # "view" /\ click'[e].op # "view"
                  => d = e
         /\ \A d \in Clicks : click[d].pc # "new" =>
               click'[d].pc # "new" /\ click'[d].op = click[d].op
<1>1. \A d \in Clicks : click[d].pc # "new" =>
        click'[d].pc # "new" /\ click'[d].op = click[d].op
  BY DEF Began, WentOn, Pending
<1>2. during \subseteq during' /\ during' \in SUBSET SUBSET Clicks
  BY DEF Began, WentOn, FeedInv, FeedTypeOK
<1>3. OverlapsKnown
  BY DEF FeedInv
<1>4. ASSUME NEW d \in Clicks, NEW e \in Clicks, Pending(d)', Pending(e)', d # e
      PROVE  {d, e} \in during'
  <2>1. CASE Pending(d) /\ Pending(e)
    BY <1>2, <1>3, <1>4, <2>1 DEF OverlapsKnown
  <2>2. CASE Began(c)
    <3>1. \A f \in Clicks : f # c => (Pending(f)' <=> Pending(f))
      BY <2>2 DEF Began, Pending
    <3>2. \A f \in Clicks : Pending(f) => {c, f} \in during'
      BY <2>2 DEF Began
    <3>3. {d, e} = {e, d}
      OBVIOUS
    <3> QED BY <1>4, <2>1, <3>1, <3>2, <3>3
  <2>3. CASE WentOn(c)
    <3>1. \A f \in Clicks : Pending(f)' => Pending(f)
      BY <2>3 DEF WentOn, Pending
    <3> QED BY <1>4, <2>1, <3>1
  <2> QED BY <2>2, <2>3
<1>5. ASSUME NEW pair \in during', NEW d \in pair PROVE click'[d].pc # "new"
  <2>1. CASE pair \in during
    <3>1. d \in Clicks /\ click[d].pc # "new"
      BY <1>3, <1>5, <2>1 DEF OverlapsKnown, FeedInv, FeedTypeOK
    <3> QED BY <1>1, <3>1
  <2>2. CASE Began(c) /\ pair \notin during
    <3>1. PICK e \in Clicks : Pending(e) /\ pair = {c, e}
      BY <1>5, <2>2 DEF Began
    <3>2. click'[c].pc # "new" /\ click'[e].pc # "new"
      BY <1>1, <2>2, <3>1 DEF Began, Pending
    <3> QED BY <1>5, <3>1, <3>2
  <2> QED BY <1>5, <2>1, <2>2 DEF WentOn
<1>6. ASSUME Calm' PROVE Calm
  <2>1. broken = {}
    BY <1>6 DEF Calm
  <2>2. ASSUME NEW pair \in during PROVE \E d \in pair : click[d].op = "view"
    <3>1. PICK d \in pair : click'[d].op = "view"
      BY <1>2, <1>6, <2>2 DEF Calm
    <3>2. d \in Clicks /\ click[d].pc # "new"
      BY <1>3, <2>2 DEF OverlapsKnown, FeedInv, FeedTypeOK
    <3> QED BY <1>1, <3>1, <3>2
  <2> QED BY <2>1, <2>2 DEF Calm
<1>7. ASSUME Calm', NEW d \in Clicks, NEW e \in Clicks, Pending(d)', Pending(e)',
             click'[d].op # "view", click'[e].op # "view"
      PROVE  d = e
  BY <1>4, <1>7 DEF Calm
<1> QED BY <1>1, <1>2, <1>4, <1>5, <1>6, <1>7 DEF OverlapsKnown

\* In a calm time one request at a time changes something.
LEMMA OneAtATime ==
  ASSUME OverlapsKnown, Calm, NEW c \in Clicks, NEW d \in Clicks, Pending(c), Pending(d),
         click[c].op # "view", click[d].op # "view"
  PROVE  c = d
<1> SUFFICES ASSUME c # d PROVE FALSE
  OBVIOUS
<1>1. {c, d} \in during
  BY DEF OverlapsKnown
<1> QED BY <1>1 DEF Calm

\* A step that composes a page from what has been answered, drops the page, or keeps the
\* page it has composed leaves no page that lacks more than it may.
LEMMA PagesStay ==
  ASSUME FeedInv, NEW c \in Clicks, Began(c) \/ WentOn(c), broken \subseteq broken',
         \A d \in OwnChanges' \ broken' :
            d \in OwnChanges \/ (d = c /\ WentOn(c) /\ ~page'.cached),
         \A v \in Clicks : click'[v].pc = "composed" =>
            \/ click[v].pc = "composed" /\ click'[v].read = click[v].read
            \/ OwnChanges' \subseteq click'[v].read.shows,
         \/ page' = page \/ ~page'.cached
         \/ click[c].pc = "composed" /\ page' = Loaded(c) /\ WentOn(c)
  PROVE  PagesAreRecent' /\ StalePageOverlapped'
<1>0. during \subseteq during' /\ \A d \in Clicks : click[d].pc # "new" =>
                                     click'[d].pc # "new" /\ click'[d].op = click[d].op
  BY RecordGrows
<1>1. ASSUME NEW v \in Clicks, click'[v].pc = "composed",
             NEW d \in OwnChanges', d \notin click'[v].read.shows, d \notin broken'
      PROVE  {v, d} \in during'
  <2>1. click[v].pc = "composed" /\ click'[v].read = click[v].read
    BY <1>1
  <2>2. CASE d \in OwnChanges
    <3>1. d \in OwnChanges \ (Loaded(v).shows \cup broken)
      BY <1>1, <2>1, <2>2 DEF Loaded
    <3> QED BY <1>0, <2>1, <3>1 DEF FeedInv, PagesAreRecent
  <2>3. CASE d = c /\ WentOn(c)
    <3>1. Pending(v) /\ Pending(d) /\ v # d
      BY <1>1, <2>1, <2>3 DEF WentOn, Pending, OwnChanges
    <3> QED BY <1>0, <2>3, <3>1 DEF FeedInv, OverlapsKnown
  <2> QED BY <1>1, <2>2, <2>3
<1>2. ASSUME page'.cached, NEW d \in OwnChanges', d \notin page'.shows, d \notin broken'
      PROVE  \E v \in Clicks : click'[v].op = "view" /\ {v, d} \in during'
  <2>1. d \in OwnChanges
    BY <1>2
  <2>2. CASE page' = page
    <3>1. d \in OwnChanges \ (page.shows \cup broken)
      BY <1>2, <2>1, <2>2
    <3>2. PICK v \in Clicks : click[v].op = "view" /\ {v, d} \in during
      BY <1>2, <2>2, <3>1 DEF FeedInv, StalePageOverlapped
    <3>3. click[v].pc # "new"
      BY <3>2 DEF FeedInv, OverlapsKnown
    <3> QED BY <1>0, <3>2, <3>3
  <2>3. CASE click[c].pc = "composed" /\ page' = Loaded(c) /\ WentOn(c)
    <3>1. d \in OwnChanges \ (Loaded(c).shows \cup broken)
      BY <1>2, <2>1, <2>3
    <3>2. {c, d} \in during
      BY <2>3, <3>1 DEF FeedInv, PagesAreRecent
    <3>3. click[c].op = "view" /\ click[c].pc # "new"
      BY <2>3 DEF FeedInv, ClicksFit
    <3> QED BY <1>0, <3>2, <3>3
  <2> QED BY <1>2, <2>2, <2>3
<1>3. PagesAreRecent'
  BY <1>1 DEF PagesAreRecent, Loaded
<1>4. StalePageOverlapped'
  BY <1>2 DEF StalePageOverlapped
<1> QED BY <1>3, <1>4

\* A step of a request that neither rebuilds nor posts leaves the timeline right.
LEMMA TimelineStays ==
  ASSUME FeedInv, NEW c \in Clicks, Began(c) \/ WentOn(c), broken \subseteq broken',
         UNCHANGED <<posts, follows, timeline>>,
         click[c].pc \notin Rebuilding, click'[c].pc \notin Rebuilding \cup {"posting"}
  PROVE  Calm' => RebuiltInTime'
<1> SUFFICES ASSUME Calm' PROVE RebuiltInTime'
  OBVIOUS
<1>1. RebuiltInTime
  BY RecordGrows DEF FeedInv
<1>2. \A d \in Clicks \ {c} : click'[d] = click[d]
  BY DEF Began, WentOn
<1>3. (\A d \in Clicks : click'[d].pc \notin Rebuilding) =>
         \A d \in Clicks : click[d].pc \notin Rebuilding
  BY <1>2
<1>4. Right => Right'
  BY DEF Right
<1>5. \A p : Chosen(p)' <=> Chosen(p)
  BY DEF Chosen
<1> QED BY <1>1, <1>2, <1>3, <1>4, <1>5 DEF RebuiltInTime, Rebuilding, Loaded

\* Contains looks for the element.
LEMMA ContainsIsIn ==
  ASSUME NEW T, NEW s \in Seq(T), NEW e
  PROVE  Contains(s, e) <=> e \in ToSet(s)
BY LenProperties DEF Contains, ToSet

\* An element put at the end joins the set.
LEMMA SetOfAppend ==
  ASSUME NEW T, NEW s \in Seq(T), NEW e \in T
  PROVE  ToSet(Append(s, e)) = ToSet(s) \cup {e}
<1> DEFINE n == Len(s)
           u == Append(s, e)
<1>1. /\ n \in Nat /\ DOMAIN s = 1..n /\ DOMAIN u = 1..(n + 1)
      /\ u[n + 1] = e /\ \A i \in 1..n : u[i] = s[i]
  BY AppendProperties, LenProperties
<1>2. 1..(n + 1) = 1..n \cup {n + 1}
  BY <1>1
<1> HIDE DEF n, u
<1>3. ToSet(u) = ToSet(s) \cup {e}
  BY <1>1, <1>2 DEF ToSet
<1> QED BY <1>3 DEF u

\* A sequence read backwards.
LEMMA ReverseIsSeq ==
  ASSUME NEW T, NEW s \in Seq(T)
  PROVE  Reverse(s) \in Seq(T)
<1>1. Len(s) \in Nat
      /\ \A i \in 1..Len(s) : (Len(s) - i) + 1 \in 1..Len(s) /\ s[(Len(s) - i) + 1] \in T
  BY LenProperties, ElementOfSeq
<1> DEFINE n == Len(s)
<1>2. [i \in 1..n |-> s[(n - i) + 1]] \in [1..n -> T]
  BY <1>1
<1>3. n \in Nat
  BY <1>1
<1> HIDE DEF n
<1>4. [i \in 1..n |-> s[(n - i) + 1]] \in Seq(T)
  BY <1>2, <1>3, SeqDef
<1> QED BY <1>4 DEF Reverse, n

\* Every step keeps what the timeline and the pages rest on.
LEMMA NextFeedInv == FeedInv /\ [FeedNext]_feedVars => FeedInv'
<1> SUFFICES ASSUME FeedInv, [FeedNext]_feedVars PROVE FeedInv'
  OBVIOUS
<1>0. /\ FeedInv /\ FeedTypeOK /\ ClicksFit
      /\ posts \in Seq(Written) /\ follows \in BOOLEAN /\ timeline \in Seq(Nat) /\ page \in Pages
      /\ during \in SUBSET SUBSET Clicks /\ broken \in SUBSET Clicks
  BY DEF FeedInv, FeedTypeOK
<1>e. None \in Pages /\ ~None.cached
  BY DEF None, Pages
<1>c. Candidates \in Seq(Nat)
  BY <1>0, CandidatesAre DEF Written
<1>r. \A c \in Clicks : click[c].pc # "new" => Loaded(c) \in Reads
  BY <1>0 DEF FeedTypeOK, ClickRows, Clicked, Loaded
<1>1. CASE ExpirePage
  <2>1. UNCHANGED <<posts, follows, timeline, click, during, broken>> /\ page' = None
    BY <1>1 DEF ExpirePage
  <2>2. FeedTypeOK'
    BY <1>0, <1>e, <2>1 DEF FeedTypeOK
  <2>3. ClicksFit' /\ OverlapsKnown' /\ PagesAreRecent'
    BY <1>0, <2>1 DEF FeedInv, ClicksFit, OverlapsKnown, PagesAreRecent, OwnChanges, Loaded, Pending
  <2>4. StalePageOverlapped'
    BY <1>e, <2>1 DEF StalePageOverlapped
  <2>5. Calm' => RebuiltInTime'
    BY <1>0, <2>1 DEF FeedInv, Calm, RebuiltInTime, Right, Chosen, Loaded
  <2> QED BY <2>2, <2>3, <2>4, <2>5 DEF FeedInv
<1>2. ASSUME NEW c \in Clicks, NEW author \in {"reader", "author"}, NEW visible \in BOOLEAN, 
             Post(c, author, visible)
      PROVE FeedInv'
  <2>1. /\ Began(c) /\ click' \in ClickRows /\ broken \subseteq broken'
        /\ click'[c].pc = "posting"
        /\ click'[c].op = IF author = "reader" THEN "post" ELSE "other"
        /\ click'[c].read = [author |-> author, visible |-> visible,
                             fans |-> author = "reader" \/ follows]
        /\ click'[c].read \in Drafts
    <3>1. [author |-> author, visible |-> visible, fans |-> author = "reader" \/ follows] \in Drafts
      BY <1>0 DEF Drafts
    <3> DEFINE op == IF author = "reader" THEN "post" ELSE "other"
               read == [author |-> author, visible |-> visible,
                        fans |-> author = "reader" \/ follows]
    <3>2. Start(c, op, "posting", read) /\ broken' = broken
      BY <1>2 DEF Post
    <3>3. op \in ClickOps /\ read \in Reads /\ "posting" \in ClickStates
      BY <3>1 DEF ClickOps, Reads, ClickStates
    <3>4. read \in Drafts
      BY <3>1
    <3> HIDE DEF op, read
    <3>5. /\ Began(c) /\ click' \in ClickRows
          /\ click'[c].pc = "posting" /\ click'[c].op = op /\ click'[c].read = read
      BY <1>0, <3>2, <3>3, StartBegins
    <3> QED BY <3>2, <3>4, <3>5 DEF op, read
  <2>2. \A d \in Clicks \ {c} : click'[d] = click[d]
    BY <2>1 DEF Began, WentOn
  <2>3. /\ OverlapsKnown' /\ during' \in SUBSET SUBSET Clicks
        /\ Calm' => Calm /\ RebuiltInTime
        /\ Calm' => \A d, e \in Clicks :
              Pending(d)' /\ Pending(e)' /\ click'[d].op # "view" /\ click'[e].op # "view" => d = e
    BY <1>0, <2>1, RecordGrows DEF FeedInv
  <2>4. FeedTypeOK'
    BY <1>0, <1>2, <1>e, <2>1, <2>3 DEF Post, FeedTypeOK
  <2>5. ClicksFit'
    BY <1>0, <2>1, <2>2 DEF ClicksFit, Loaded, Rebuilding, Reads
  <2>6. PagesAreRecent' /\ StalePageOverlapped'
    <3>1. OwnChanges' \ broken' \subseteq OwnChanges
      BY <1>0, <2>1, <2>2 DEF OwnChanges, Began, WentOn, ClicksFit
    <3>2. \A v \in Clicks : click'[v].pc = "composed" =>
             click[v].pc = "composed" /\ click'[v].read = click[v].read
      BY <2>1, <2>2
    <3> QED BY <1>0, <1>2, <1>e, <2>1, <3>1, <3>2, PagesStay DEF Post
  <2>7. Calm' => RebuiltInTime'
    <3> SUFFICES ASSUME Calm' PROVE RebuiltInTime'
      OBVIOUS
    <3>1. RebuiltInTime /\ UNCHANGED <<posts, follows, timeline>>
      BY <1>2, <2>3 DEF Post
    <3>2. (\A d \in Clicks : click'[d].pc \notin Rebuilding) => Right'
      <4>1. (\A d \in Clicks : click'[d].pc \notin Rebuilding) =>
               \A d \in Clicks : click[d].pc \notin Rebuilding
        BY <2>1, <2>2 DEF Began, Rebuilding
      <4> QED BY <3>1, <4>1 DEF RebuiltInTime, Right
    <3>3. \A p : Chosen(p)' <=> Chosen(p)
      BY <3>1 DEF Chosen
    <3> QED BY <2>1, <2>2, <3>1, <3>2, <3>3 DEF RebuiltInTime, Loaded
  <2> QED BY <2>3, <2>4, <2>5, <2>6, <2>7 DEF FeedInv
<1>3. ASSUME NEW c \in Clicks, CommitPost(c) PROVE FeedInv'
  <2> DEFINE post == [author |-> Loaded(c).author, visible |-> Loaded(c).visible]
  <2>1. /\ WentOn(c) /\ click' \in ClickRows /\ broken \subseteq broken'
        /\ click[c].pc = "posting" /\ Loaded(c) \in Drafts
        /\ click[c].op = "post" <=> Loaded(c).author = "reader"
        /\ click[c].op \in {"post", "other"} /\ click'[c].op = click[c].op
        /\ click'[c].pc = IF Loaded(c).author = "reader" THEN "written" ELSE "done"
        /\ posts' = Append(posts, post) /\ post \in Written
        /\ timeline' = IF Loaded(c).fans THEN Append(timeline, Len(posts) + 1) ELSE timeline
        /\ UNCHANGED <<follows, page>>
    <3>1. click[c].pc = "posting" /\ UNCHANGED <<follows, page, broken>>
      BY <1>3 DEF CommitPost, Step
    <3>2. /\ Loaded(c) \in Drafts /\ click[c].op \in {"post", "other"}
          /\ click[c].op = "post" <=> Loaded(c).author = "reader"
      BY <1>0, <3>1 DEF ClicksFit
    <3>3. Loaded(c) \in Reads /\ post \in Written
      BY <3>2 DEF Reads, Drafts, Written
    <3> DEFINE there == IF Loaded(c).author = "reader" THEN "written" ELSE "done"
    <3>4. there \in ClickStates /\ "posting" \in ClickStates \ {"done"}
      BY DEF ClickStates
    <3>5. Step(c, "posting", there, Loaded(c))
      BY <1>3 DEF CommitPost
    <3>6. WentOn(c) /\ click' \in ClickRows /\ click'[c].pc = there
      <4> HIDE DEF there
      <4> QED BY <1>0, <3>3, <3>4, <3>5, StepGoesOn
    <3>7. posts' = Append(posts, post) /\
          timeline' = IF Loaded(c).fans THEN Append(timeline, Len(posts) + 1) ELSE timeline
      BY <1>3 DEF CommitPost
    <3> HIDE DEF post
    <3> QED BY <3>1, <3>2, <3>3, <3>6, <3>7 DEF WentOn
  <2>2. \A d \in Clicks \ {c} : click'[d] = click[d]
    BY <2>1 DEF Began, WentOn
  <2>3. /\ OverlapsKnown' /\ during' \in SUBSET SUBSET Clicks
        /\ Calm' => Calm /\ RebuiltInTime
        /\ Calm' => \A d, e \in Clicks :
              Pending(d)' /\ Pending(e)' /\ click'[d].op # "view" /\ click'[e].op # "view" => d = e
    BY <1>0, <2>1, RecordGrows DEF FeedInv
  <2>4. FeedTypeOK'
    <3> HIDE DEF post
    <3>1. posts' \in Seq(Written)
      BY <1>0, <2>1, AppendProperties
    <3>2. Len(posts) + 1 \in Nat
      BY <1>0, LenProperties
    <3>3. timeline' \in Seq(Nat)
      BY <1>0, <2>1, <3>2, AppendProperties
    <3> QED BY <1>0, <1>3, <2>1, <2>3, <3>1, <3>3 DEF FeedTypeOK, CommitPost
  <2>5. ClicksFit'
    BY <1>0, <2>1, <2>2 DEF ClicksFit, Loaded, Rebuilding, Reads
  <2>6. PagesAreRecent' /\ StalePageOverlapped'
    <3>1. OwnChanges' \ broken' \subseteq OwnChanges
      BY <1>0, <2>1, <2>2 DEF OwnChanges, Began, WentOn, ClicksFit
    <3>2. \A v \in Clicks : click'[v].pc = "composed" =>
             click[v].pc = "composed" /\ click'[v].read = click[v].read
      BY <2>1, <2>2
    <3> QED BY <1>0, <2>1, <3>1, <3>2, PagesStay DEF CommitPost, None
  <2>7. Calm' => RebuiltInTime'
    <3> SUFFICES ASSUME Calm' PROVE RebuiltInTime'
      OBVIOUS
    <3>1. RebuiltInTime /\ Calm /\ OverlapsKnown
      BY <1>0, <2>3 DEF FeedInv
    <3>2. \A d \in Clicks : Pending(d) /\ click[d].op # "view" => d = c
      BY <2>1, <3>1, OneAtATime DEF Pending
    <3>3. \A d \in Clicks : click[d].pc \notin Rebuilding
      BY <1>0, <2>1, <3>2 DEF ClicksFit, Rebuilding, Pending
    <3>4. \A d \in Clicks : click'[d].pc \notin Rebuilding \cup {"posting"}
      BY <1>0, <2>1, <2>2, <3>2 DEF ClicksFit, Rebuilding, Pending
    <3>5. Right /\ ToSet(timeline) \subseteq 1..Len(posts)
          /\ Loaded(c).fans = (Loaded(c).author = "reader" \/ follows)
      BY <2>1, <3>1, <3>3 DEF RebuiltInTime
    <3> DEFINE n == Len(posts)
    <3> HIDE DEF post
    <3>6. /\ n \in Nat /\ Len(posts') = n + 1 /\ posts'[n + 1] = post
          /\ \A p \in 1..n : posts'[p] = posts[p]
      BY <1>0, <2>1, AppendProperties, LenProperties
    <3> HIDE DEF n
    <3>7. \A p : Contains(timeline', p) <=>
                    Contains(timeline, p) \/ (Loaded(c).fans /\ p = n + 1)
      <4>1. ToSet(Append(timeline, n + 1)) = ToSet(timeline) \cup {n + 1}
        BY <1>0, <3>6, SetOfAppend
      <4>2. timeline' \in Seq(Nat)
        BY <2>4 DEF FeedTypeOK
      <4> QED BY <1>0, <2>1, <4>1, <4>2, ContainsIsIn DEF n
    <3>8. ~Contains(timeline, n + 1) /\ ToSet(timeline') \subseteq 1..(n + 1)
      <4>1. n + 1 \notin ToSet(timeline) /\ ToSet(timeline) \subseteq 1..(n + 1)
        BY <3>5, <3>6 DEF n
      <4>2. timeline' \in Seq(Nat)
        BY <2>4 DEF FeedTypeOK
      <4>3. n + 1 \in 1..(n + 1)
        BY <3>6
      <4> QED BY <1>0, <3>7, <4>1, <4>2, <4>3, ContainsIsIn
    <3>9. ASSUME NEW p \in 1..(n + 1), posts'[p].author = "author"
          PROVE  /\ follows' /\ posts'[p].visible => Contains(timeline', p)
                 /\ ~follows' => ~Contains(timeline', p)
      <4>1. CASE p \in 1..n
        <5>1. p # n + 1 /\ posts'[p] = posts[p]
          BY <3>6, <4>1
        <5> QED BY <2>1, <3>5, <3>7, <3>9, <4>1, <5>1 DEF Right, n
      <4>2. CASE p = n + 1
        <5>1. Loaded(c).author = "author"
          BY <3>6, <3>9, <4>2 DEF post
        <5> QED BY <2>1, <3>5, <3>7, <3>8, <4>2, <5>1
      <4> QED BY <3>6, <4>1, <4>2
    <3> QED BY <3>4, <3>6, <3>8, <3>9 DEF RebuiltInTime, Right, Rebuilding
  <2> QED BY <2>3, <2>4, <2>5, <2>6, <2>7 DEF FeedInv
<1>4. ASSUME NEW c \in Clicks, NEW op \in {"follow", "unfollow"}, Follow(c, op) PROVE FeedInv'
  <2>1. /\ Began(c) /\ click' \in ClickRows /\ broken \subseteq broken'
        /\ click'[c].pc = "rebuilding" /\ click'[c].op \in {"follow", "unfollow"}
        /\ UNCHANGED <<posts, timeline, page>>
    <3>1. Start(c, op, "rebuilding", <<>>) /\ UNCHANGED <<posts, timeline, page, broken>>
      BY <1>4 DEF Follow
    <3>2. op \in ClickOps /\ "rebuilding" \in ClickStates /\ <<>> \in Reads
      BY DEF ClickOps, ClickStates, Rebuilding, Reads
    <3> QED BY <1>0, <3>1, <3>2, StartBegins
  <2>2. \A d \in Clicks \ {c} : click'[d] = click[d]
    BY <2>1 DEF Began, WentOn
  <2>3. /\ OverlapsKnown' /\ during' \in SUBSET SUBSET Clicks
        /\ Calm' => Calm /\ RebuiltInTime
        /\ Calm' => \A d, e \in Clicks :
              Pending(d)' /\ Pending(e)' /\ click'[d].op # "view" /\ click'[e].op # "view" => d = e
    BY <1>0, <2>1, RecordGrows DEF FeedInv
  <2>4. FeedTypeOK'
    BY <1>0, <1>4, <2>1, <2>3 DEF Follow, FeedTypeOK
  <2>5. ClicksFit'
    BY <1>0, <2>1, <2>2 DEF ClicksFit, Loaded, Rebuilding, Reads
  <2>6. PagesAreRecent' /\ StalePageOverlapped'
    <3>1. OwnChanges' \ broken' \subseteq OwnChanges
      BY <1>0, <2>1, <2>2 DEF OwnChanges, Began, WentOn, ClicksFit
    <3>2. \A v \in Clicks : click'[v].pc = "composed" =>
             click[v].pc = "composed" /\ click'[v].read = click[v].read
      BY <2>1, <2>2
    <3> QED BY <1>0, <2>1, <3>1, <3>2, PagesStay
  <2>7. Calm' => RebuiltInTime'
    <3> SUFFICES ASSUME Calm' PROVE RebuiltInTime'
      OBVIOUS
    <3>1. RebuiltInTime
      BY <2>3
    <3>2. \A d \in Clicks \ {c} : click'[d].pc \notin Rebuilding \cup {"posting"}
      BY <2>1, <2>3, <2>5 DEF ClicksFit, Rebuilding, Pending
    <3> QED BY <2>1, <3>1, <3>2 DEF RebuiltInTime, Rebuilding
  <2> QED BY <2>3, <2>4, <2>5, <2>6, <2>7 DEF FeedInv
<1>5. ASSUME NEW c \in Clicks, Rebuild(c) PROVE FeedInv'
  <2>1. /\ Began(c) /\ click' \in ClickRows /\ broken \subseteq broken'
        /\ click'[c].pc = "rebuilding" /\ click'[c].op = "rebuild"
        /\ UNCHANGED <<posts, timeline, page>>
    <3>1. Start(c, "rebuild", "rebuilding", <<>>) /\ UNCHANGED <<posts, timeline, page, broken>>
      BY <1>5 DEF Rebuild
    <3>2. "rebuild" \in ClickOps /\ "rebuilding" \in ClickStates /\ <<>> \in Reads
      BY DEF ClickOps, ClickStates, Rebuilding, Reads
    <3> QED BY <1>0, <3>1, <3>2, StartBegins
  <2>2. \A d \in Clicks \ {c} : click'[d] = click[d]
    BY <2>1 DEF Began, WentOn
  <2>3. /\ OverlapsKnown' /\ during' \in SUBSET SUBSET Clicks
        /\ Calm' => Calm /\ RebuiltInTime
        /\ Calm' => \A d, e \in Clicks :
              Pending(d)' /\ Pending(e)' /\ click'[d].op # "view" /\ click'[e].op # "view" => d = e
    BY <1>0, <2>1, RecordGrows DEF FeedInv
  <2>4. FeedTypeOK'
    BY <1>0, <1>5, <2>1, <2>3 DEF Rebuild, FeedTypeOK
  <2>5. ClicksFit'
    BY <1>0, <2>1, <2>2 DEF ClicksFit, Loaded, Rebuilding, Reads
  <2>6. PagesAreRecent' /\ StalePageOverlapped'
    <3>1. OwnChanges' \ broken' \subseteq OwnChanges
      BY <1>0, <2>1, <2>2 DEF OwnChanges, Began, WentOn, ClicksFit
    <3>2. \A v \in Clicks : click'[v].pc = "composed" =>
             click[v].pc = "composed" /\ click'[v].read = click[v].read
      BY <2>1, <2>2
    <3> QED BY <1>0, <2>1, <3>1, <3>2, PagesStay
  <2>7. Calm' => RebuiltInTime'
    <3> SUFFICES ASSUME Calm' PROVE RebuiltInTime'
      OBVIOUS
    <3>1. RebuiltInTime
      BY <2>3
    <3>2. \A d \in Clicks \ {c} : click'[d].pc \notin Rebuilding \cup {"posting"}
      BY <2>1, <2>3, <2>5 DEF ClicksFit, Rebuilding, Pending
    <3> QED BY <2>1, <3>1, <3>2 DEF RebuiltInTime, Rebuilding
  <2> QED BY <2>3, <2>4, <2>5, <2>6, <2>7 DEF FeedInv
<1>6. ASSUME NEW c \in Clicks, Select(c) PROVE FeedInv'
  <2>1. /\ WentOn(c) /\ click' \in ClickRows /\ broken \subseteq broken'
        /\ click[c].pc = "rebuilding" /\ click'[c].pc = "selected"
        /\ click'[c].read = Candidates /\ click'[c].read \in Seq(Nat)
        /\ click[c].op \in {"follow", "unfollow", "rebuild"} /\ click'[c].op = click[c].op
        /\ UNCHANGED <<posts, follows, timeline, page, broken>>
    <3>1. Step(c, "rebuilding", "selected", Candidates) /\ click[c].pc = "rebuilding"
      BY <1>6 DEF Select, Step
    <3>2. /\ "rebuilding" \in ClickStates \ {"done"} /\ "selected" \in ClickStates
          /\ Candidates \in Seq(Nat) /\ Candidates \in Reads
      BY <1>0, <3>1, <1>c DEF ClickStates, Rebuilding, Reads, ClicksFit
    <3>3. click[c].op \in {"follow", "unfollow", "rebuild"}
      BY <1>0, <3>1 DEF ClicksFit, Rebuilding
    <3>4. /\ WentOn(c) /\ click' \in ClickRows
          /\ click[c].pc = "rebuilding" /\ click'[c].pc = "selected" /\ click'[c].read = Candidates
      BY <1>0, <3>1, <3>2, StepGoesOn
    <3>5. UNCHANGED <<posts, follows, timeline, page, broken>>
      BY <1>6 DEF Select
    <3> QED BY <3>2, <3>3, <3>4, <3>5 DEF WentOn
  <2>2. \A d \in Clicks \ {c} : click'[d] = click[d]
    BY <2>1 DEF Began, WentOn
  <2>3. /\ OverlapsKnown' /\ during' \in SUBSET SUBSET Clicks
        /\ Calm' => Calm /\ RebuiltInTime
        /\ Calm' => \A d, e \in Clicks :
              Pending(d)' /\ Pending(e)' /\ click'[d].op # "view" /\ click'[e].op # "view" => d = e
    BY <1>0, <2>1, RecordGrows DEF FeedInv
  <2>4. FeedTypeOK'
    BY <1>0, <2>1, <2>3 DEF FeedTypeOK
  <2>5. ClicksFit'
    BY <1>0, <2>1, <2>2 DEF ClicksFit, Loaded, Rebuilding, Reads
  <2>6. PagesAreRecent' /\ StalePageOverlapped'
    <3>1. OwnChanges' \ broken' \subseteq OwnChanges
      BY <1>0, <2>1, <2>2 DEF OwnChanges, Began, WentOn, ClicksFit
    <3>2. \A v \in Clicks : click'[v].pc = "composed" =>
             click[v].pc = "composed" /\ click'[v].read = click[v].read
      BY <2>1, <2>2
    <3> QED BY <1>0, <2>1, <3>1, <3>2, PagesStay
  <2>7. Calm' => RebuiltInTime'
    <3> SUFFICES ASSUME Calm' PROVE RebuiltInTime'
      OBVIOUS
    <3>1. RebuiltInTime
      BY <2>3
    <3>2. \A d \in Clicks \ {c} : click'[d].pc \notin Rebuilding \cup {"posting"}
      BY <2>1, <2>3, <2>5 DEF ClicksFit, Rebuilding, Pending
    <3>3. ToSet(Candidates) = {p \in 1..Len(posts) : Chosen(p)}
      BY <1>0, CandidatesAre DEF Written
    <3>4. \A p : Chosen(p)' <=> Chosen(p)
      BY <2>1 DEF Chosen
    <3> QED BY <2>1, <3>1, <3>2, <3>3, <3>4 DEF RebuiltInTime, Rebuilding, Loaded
  <2> QED BY <2>3, <2>4, <2>5, <2>6, <2>7 DEF FeedInv
<1>7. ASSUME NEW c \in Clicks, DeleteRows(c) PROVE FeedInv'
  <2>1. /\ WentOn(c) /\ click' \in ClickRows /\ broken \subseteq broken'
        /\ click[c].pc = "selected" /\ click'[c].pc = "emptied"
        /\ click'[c].read = Loaded(c) /\ click'[c].read \in Seq(Nat)
        /\ click[c].op \in {"follow", "unfollow", "rebuild"} /\ click'[c].op = click[c].op
        /\ timeline' = <<>> /\ UNCHANGED <<posts, follows, page, broken>>
    <3>1. Step(c, "selected", "emptied", Loaded(c)) /\ click[c].pc = "selected"
      BY <1>7 DEF DeleteRows, Step
    <3>2. /\ "selected" \in ClickStates \ {"done"} /\ "emptied" \in ClickStates
          /\ Loaded(c) \in Seq(Nat) /\ Loaded(c) \in Reads
      BY <1>0, <3>1 DEF ClickStates, Rebuilding, Reads, ClicksFit
    <3>3. click[c].op \in {"follow", "unfollow", "rebuild"}
      BY <1>0, <3>1 DEF ClicksFit, Rebuilding
    <3>4. /\ WentOn(c) /\ click' \in ClickRows
          /\ click[c].pc = "selected" /\ click'[c].pc = "emptied" /\ click'[c].read = Loaded(c)
      BY <1>0, <3>1, <3>2, StepGoesOn
    <3>5. timeline' = <<>> /\ UNCHANGED <<posts, follows, page, broken>>
      BY <1>7 DEF DeleteRows
    <3> QED BY <3>2, <3>3, <3>4, <3>5 DEF WentOn
  <2>2. \A d \in Clicks \ {c} : click'[d] = click[d]
    BY <2>1 DEF Began, WentOn
  <2>3. /\ OverlapsKnown' /\ during' \in SUBSET SUBSET Clicks
        /\ Calm' => Calm /\ RebuiltInTime
        /\ Calm' => \A d, e \in Clicks :
              Pending(d)' /\ Pending(e)' /\ click'[d].op # "view" /\ click'[e].op # "view" => d = e
    BY <1>0, <2>1, RecordGrows DEF FeedInv
  <2>4. FeedTypeOK'
    BY <1>0, <2>1, <2>3 DEF FeedTypeOK
  <2>5. ClicksFit'
    BY <1>0, <2>1, <2>2 DEF ClicksFit, Loaded, Rebuilding, Reads
  <2>6. PagesAreRecent' /\ StalePageOverlapped'
    <3>1. OwnChanges' \ broken' \subseteq OwnChanges
      BY <1>0, <2>1, <2>2 DEF OwnChanges, Began, WentOn, ClicksFit
    <3>2. \A v \in Clicks : click'[v].pc = "composed" =>
             click[v].pc = "composed" /\ click'[v].read = click[v].read
      BY <2>1, <2>2
    <3> QED BY <1>0, <2>1, <3>1, <3>2, PagesStay
  <2>7. Calm' => RebuiltInTime'
    <3> SUFFICES ASSUME Calm' PROVE RebuiltInTime'
      OBVIOUS
    <3>1. RebuiltInTime
      BY <2>3
    <3>2. \A d \in Clicks \ {c} : click'[d].pc \notin Rebuilding \cup {"posting"}
      BY <2>1, <2>3, <2>5 DEF ClicksFit, Rebuilding, Pending
    <3>3. \A p : Chosen(p)' <=> Chosen(p)
      BY <2>1 DEF Chosen
    <3>4. ToSet(timeline') = {}
      BY <2>1 DEF ToSet
    <3> QED BY <2>1, <3>1, <3>2, <3>3, <3>4 DEF RebuiltInTime, Rebuilding, Loaded
  <2> QED BY <2>3, <2>4, <2>5, <2>6, <2>7 DEF FeedInv
<1>8. ASSUME NEW c \in Clicks, InsertRows(c) PROVE FeedInv'
  <2> DEFINE clash == \E p \in ToSet(Loaded(c)) : Contains(timeline, p)
  <2>1. /\ WentOn(c) /\ click' \in ClickRows /\ broken \subseteq broken'
        /\ click[c].pc = "emptied" /\ Loaded(c) \in Seq(Nat)
        /\ click[c].op \in {"follow", "unfollow", "rebuild"} /\ click'[c].op = click[c].op
        /\ \/ /\ clash /\ click'[c].pc = "done" /\ timeline' = timeline
              /\ broken' = broken \cup {c}
           \/ /\ ~clash /\ click'[c].pc = (IF click[c].op = "rebuild" THEN "done" ELSE "written")
              /\ timeline' = timeline \o Loaded(c) /\ broken' = broken
        /\ UNCHANGED <<posts, follows, page>>
    <3> DEFINE next == IF click[c].op = "rebuild" THEN "done" ELSE "written"
               there == IF clash THEN "done" ELSE next
    <3>1. /\ Step(c, "emptied", there, Loaded(c)) /\ click[c].pc = "emptied"
          /\ timeline' = (IF clash THEN timeline ELSE timeline \o Loaded(c))
          /\ broken' = (IF clash THEN broken \cup {c} ELSE broken)
          /\ UNCHANGED <<posts, follows, page>>
      BY <1>8 DEF InsertRows, Step
    <3>2. there \in ClickStates /\ "emptied" \in ClickStates \ {"done"}
      BY DEF ClickStates, Rebuilding
    <3>3. /\ Loaded(c) \in Seq(Nat) /\ Loaded(c) \in Reads
          /\ click[c].op \in {"follow", "unfollow", "rebuild"}
      BY <1>0, <3>1 DEF ClicksFit, Rebuilding, Reads
    <3>4. WentOn(c) /\ click' \in ClickRows /\ click'[c].pc = there
      <4> HIDE DEF there
      <4> QED BY <1>0, <3>1, <3>2, <3>3, StepGoesOn
    <3> HIDE DEF clash
    <3> QED BY <3>1, <3>3, <3>4 DEF WentOn
  <2>2. \A d \in Clicks \ {c} : click'[d] = click[d]
    BY <2>1 DEF Began, WentOn
  <2>3. /\ OverlapsKnown' /\ during' \in SUBSET SUBSET Clicks
        /\ Calm' => Calm /\ RebuiltInTime
        /\ Calm' => \A d, e \in Clicks :
              Pending(d)' /\ Pending(e)' /\ click'[d].op # "view" /\ click'[e].op # "view" => d = e
    BY <1>0, <2>1, RecordGrows DEF FeedInv
  <2>4. FeedTypeOK'
    <3> HIDE DEF clash
    <3>1. timeline' \in Seq(Nat)
      BY <1>0, <2>1, ConcatProperties
    <3>2. broken' \in SUBSET Clicks
      BY <1>0, <2>1
    <3> QED BY <1>0, <2>1, <2>3, <3>1, <3>2 DEF FeedTypeOK
  <2>5. ClicksFit'
    BY <1>0, <2>1, <2>2 DEF ClicksFit, Loaded, Rebuilding, Reads
  <2>6. PagesAreRecent' /\ StalePageOverlapped'
    <3> HIDE DEF clash
    <3>1. OwnChanges' \ broken' \subseteq OwnChanges
      BY <1>0, <2>1, <2>2 DEF OwnChanges, Began, WentOn, ClicksFit
    <3>2. \A v \in Clicks : click'[v].pc = "composed" =>
             click[v].pc = "composed" /\ click'[v].read = click[v].read
      BY <2>1, <2>2
    <3> QED BY <1>0, <2>1, <3>1, <3>2, PagesStay
  <2>7. Calm' => RebuiltInTime'
    <3> HIDE DEF clash
    <3> SUFFICES ASSUME Calm' PROVE RebuiltInTime'
      OBVIOUS
    <3>1. RebuiltInTime
      BY <2>3
    <3>2. \A d \in Clicks \ {c} : click'[d].pc \notin Rebuilding \cup {"posting"}
      <4>1. Calm /\ OverlapsKnown
        BY <1>0, <2>3 DEF FeedInv
      <4>2. \A d \in Clicks : Pending(d) /\ click[d].op # "view" => d = c
        BY <2>1, <4>1, OneAtATime DEF Pending
      <4> QED BY <1>0, <2>1, <2>2, <4>2 DEF ClicksFit, Rebuilding, Pending
    <3>3. ~clash /\ timeline = <<>> /\ ToSet(Loaded(c)) = {p \in 1..Len(posts) : Chosen(p)}
      <4> HIDE DEF clash
      <4> QED BY <2>1, <3>1 DEF Calm, RebuiltInTime
    <3>4. timeline' = Loaded(c)
      <4> HIDE DEF clash
      <4>1. timeline' = <<>> \o Loaded(c)
        BY <2>1, <3>3
      <4> QED BY <2>1, <4>1, ConcatEmptySeq
    <3>5. ToSet(timeline') \subseteq 1..Len(posts')
      <4> HIDE DEF clash
      <4> QED BY <2>1, <3>3, <3>4
    <3>6. \A p \in 1..Len(posts) : Contains(timeline', p) <=> Chosen(p)
      BY <2>1, <3>3, <3>4, ContainsIsIn
    <3>7. Right'
      <4> HIDE DEF clash
      <4> QED BY <2>1, <3>6 DEF Right, Chosen
    <3> HIDE DEF clash
    <3> QED BY <2>1, <3>2, <3>5, <3>7 DEF RebuiltInTime, Rebuilding
  <2> QED BY <2>3, <2>4, <2>5, <2>6, <2>7 DEF FeedInv
<1>9. ASSUME NEW c \in Clicks, Drop(c) PROVE FeedInv'
  <2>1. /\ WentOn(c) /\ click' \in ClickRows /\ broken \subseteq broken'
        /\ click[c].pc = "written" /\ click'[c].pc = "done" /\ page' = None
        /\ UNCHANGED <<posts, follows, timeline, broken>>
    <3>1. /\ Step(c, "written", "done", Loaded(c)) /\ click[c].pc = "written" /\ page' = None
          /\ UNCHANGED <<posts, follows, timeline, broken>>
      BY <1>9 DEF Drop, Step
    <3>2. Loaded(c) \in Reads /\ "written" \in ClickStates \ {"done"} /\ "done" \in ClickStates
      BY <1>r, <3>1 DEF ClickStates
    <3> QED BY <1>0, <3>1, <3>2, StepGoesOn
  <2>2. \A d \in Clicks \ {c} : click'[d] = click[d]
    BY <2>1 DEF Began, WentOn
  <2>3. /\ OverlapsKnown' /\ during' \in SUBSET SUBSET Clicks
        /\ Calm' => Calm /\ RebuiltInTime
        /\ Calm' => \A d, e \in Clicks :
              Pending(d)' /\ Pending(e)' /\ click'[d].op # "view" /\ click'[e].op # "view" => d = e
    BY <1>0, <2>1, RecordGrows DEF FeedInv
  <2>4. FeedTypeOK'
    BY <1>0, <1>e, <2>1, <2>3 DEF FeedTypeOK
  <2>5. ClicksFit'
    BY <1>0, <2>1, <2>2 DEF ClicksFit, Loaded, Rebuilding, Reads
  <2>6. PagesAreRecent' /\ StalePageOverlapped'
    <3>1. \A d \in OwnChanges' \ broken' : d \in OwnChanges \/ (d = c /\ WentOn(c) /\ ~page'.cached)
      BY <1>e, <2>1, <2>2 DEF OwnChanges
    <3>2. \A v \in Clicks : click'[v].pc = "composed" =>
             click[v].pc = "composed" /\ click'[v].read = click[v].read
      BY <2>1, <2>2
    <3> QED BY <1>0, <1>e, <2>1, <3>1, <3>2, PagesStay
  <2>7. Calm' => RebuiltInTime'
    BY <1>0, <2>1, TimelineStays DEF Rebuilding
  <2> QED BY <2>3, <2>4, <2>5, <2>6, <2>7 DEF FeedInv
<1>10. ASSUME NEW c \in Clicks, View(c) PROVE FeedInv'
  <2>1. /\ Began(c) /\ click' \in ClickRows /\ broken \subseteq broken'
        /\ click'[c].pc \in {"composing", "done"} /\ click'[c].op = "view"
        /\ UNCHANGED <<posts, follows, timeline, page, broken>>
    <3>1. PICK pc \in {"composing", "done"} : Start(c, "view", pc, <<>>)
      BY <1>10 DEF View
    <3>2. "view" \in ClickOps /\ pc \in ClickStates /\ <<>> \in Reads
      BY DEF ClickOps, ClickStates, Reads
    <3>3. Began(c) /\ click' \in ClickRows /\ click'[c].pc = pc /\ click'[c].op = "view"
      BY <1>0, <3>1, <3>2, StartBegins
    <3> QED BY <1>10, <3>3 DEF View
  <2>2. \A d \in Clicks \ {c} : click'[d] = click[d]
    BY <2>1 DEF Began, WentOn
  <2>3. /\ OverlapsKnown' /\ during' \in SUBSET SUBSET Clicks
        /\ Calm' => Calm /\ RebuiltInTime
        /\ Calm' => \A d, e \in Clicks :
              Pending(d)' /\ Pending(e)' /\ click'[d].op # "view" /\ click'[e].op # "view" => d = e
    BY <1>0, <2>1, RecordGrows DEF FeedInv
  <2>4. FeedTypeOK'
    BY <1>0, <2>1, <2>3 DEF FeedTypeOK
  <2>5. ClicksFit'
    BY <1>0, <2>1, <2>2 DEF ClicksFit, Loaded, Rebuilding, Reads
  <2>6. PagesAreRecent' /\ StalePageOverlapped'
    <3>1. OwnChanges' \ broken' \subseteq OwnChanges
      BY <1>0, <2>1, <2>2 DEF OwnChanges, Began, WentOn, ClicksFit
    <3>2. \A v \in Clicks : click'[v].pc = "composed" =>
             click[v].pc = "composed" /\ click'[v].read = click[v].read
      BY <2>1, <2>2
    <3> QED BY <1>0, <2>1, <3>1, <3>2, PagesStay
  <2>7. Calm' => RebuiltInTime'
    BY <1>0, <2>1, TimelineStays DEF Rebuilding, Began
  <2> QED BY <2>3, <2>4, <2>5, <2>6, <2>7 DEF FeedInv
<1>11. ASSUME NEW c \in Clicks, Compose(c) PROVE FeedInv'
  <2>1. /\ WentOn(c) /\ click' \in ClickRows /\ broken \subseteq broken'
        /\ click[c].pc = "composing" /\ click'[c].pc = "composed"
        /\ click'[c].read = Page(Composed, OwnChanges) /\ click'[c].read \in Pages
        /\ click'[c].op = "view"
        /\ UNCHANGED <<posts, follows, timeline, page, broken>>
    <3>1. /\ Step(c, "composing", "composed", Page(Composed, OwnChanges))
          /\ click[c].pc = "composing" /\ UNCHANGED <<posts, follows, timeline, page, broken>>
      BY <1>11 DEF Compose, Step
    <3>2. Page(Composed, OwnChanges) \in Pages
      <4>1. Composed \in Seq(Nat)
        BY <1>0, ReverseIsSeq DEF Composed
      <4> QED BY <4>1 DEF Pages, Page, OwnChanges
    <3>3. /\ Page(Composed, OwnChanges) \in Reads
          /\ "composing" \in ClickStates \ {"done"} /\ "composed" \in ClickStates
      BY <3>2 DEF ClickStates, Reads
    <3>4. click[c].op = "view"
      BY <1>0, <3>1 DEF ClicksFit
    <3>5. /\ WentOn(c) /\ click' \in ClickRows /\ click'[c].pc = "composed"
          /\ click'[c].read = Page(Composed, OwnChanges)
      BY <1>0, <3>1, <3>3, StepGoesOn
    <3> QED BY <3>1, <3>2, <3>4, <3>5 DEF WentOn
  <2>2. \A d \in Clicks \ {c} : click'[d] = click[d]
    BY <2>1 DEF Began, WentOn
  <2>3. /\ OverlapsKnown' /\ during' \in SUBSET SUBSET Clicks
        /\ Calm' => Calm /\ RebuiltInTime
        /\ Calm' => \A d, e \in Clicks :
              Pending(d)' /\ Pending(e)' /\ click'[d].op # "view" /\ click'[e].op # "view" => d = e
    BY <1>0, <2>1, RecordGrows DEF FeedInv
  <2>4. FeedTypeOK'
    BY <1>0, <2>1, <2>3 DEF FeedTypeOK
  <2>5. ClicksFit'
    BY <1>0, <2>1, <2>2 DEF ClicksFit, Loaded, Rebuilding, Reads
  <2>6. PagesAreRecent' /\ StalePageOverlapped'
    <3>1. OwnChanges' = OwnChanges
      BY <2>1, <2>2 DEF OwnChanges
    <3>2. click'[c].read.shows = OwnChanges
      BY <2>1 DEF Page
    <3>3. \A v \in Clicks : click'[v].pc = "composed" =>
             \/ click[v].pc = "composed" /\ click'[v].read = click[v].read
             \/ OwnChanges' \subseteq click'[v].read.shows
      BY <2>1, <2>2, <3>1, <3>2
    <3> QED BY <1>0, <2>1, <3>1, <3>3, PagesStay
  <2>7. Calm' => RebuiltInTime'
    BY <1>0, <2>1, TimelineStays DEF Rebuilding
  <2> QED BY <2>3, <2>4, <2>5, <2>6, <2>7 DEF FeedInv
<1>12. ASSUME NEW c \in Clicks, Keep(c) PROVE FeedInv'
  <2>1. /\ WentOn(c) /\ click' \in ClickRows /\ broken \subseteq broken'
        /\ click[c].pc = "composed" /\ click'[c].pc = "done" /\ page' = Loaded(c)
        /\ Loaded(c) \in Pages /\ click[c].op = "view" /\ click'[c].op = "view"
        /\ UNCHANGED <<posts, follows, timeline, broken>>
    <3>1. /\ Step(c, "composed", "done", Loaded(c)) /\ click[c].pc = "composed"
          /\ page' = Loaded(c) /\ UNCHANGED <<posts, follows, timeline, broken>>
      BY <1>12 DEF Keep, Step
    <3>2. Loaded(c) \in Pages /\ click[c].op = "view"
      BY <1>0, <3>1 DEF ClicksFit
    <3>3. Loaded(c) \in Reads /\ "composed" \in ClickStates \ {"done"} /\ "done" \in ClickStates
      BY <3>2 DEF ClickStates, Reads
    <3>4. WentOn(c) /\ click' \in ClickRows /\ click'[c].pc = "done"
      BY <1>0, <3>1, <3>3, StepGoesOn
    <3> QED BY <3>1, <3>2, <3>4 DEF WentOn
  <2>2. \A d \in Clicks \ {c} : click'[d] = click[d]
    BY <2>1 DEF Began, WentOn
  <2>3. /\ OverlapsKnown' /\ during' \in SUBSET SUBSET Clicks
        /\ Calm' => Calm /\ RebuiltInTime
        /\ Calm' => \A d, e \in Clicks :
              Pending(d)' /\ Pending(e)' /\ click'[d].op # "view" /\ click'[e].op # "view" => d = e
    BY <1>0, <2>1, RecordGrows DEF FeedInv
  <2>4. FeedTypeOK'
    BY <1>0, <2>1, <2>3 DEF FeedTypeOK
  <2>5. ClicksFit'
    BY <1>0, <2>1, <2>2 DEF ClicksFit, Loaded, Rebuilding, Reads
  <2>6. PagesAreRecent' /\ StalePageOverlapped'
    <3>1. OwnChanges' \ broken' \subseteq OwnChanges
      BY <1>0, <2>1, <2>2 DEF OwnChanges, Began, WentOn, ClicksFit
    <3>2. \A v \in Clicks : click'[v].pc = "composed" =>
             click[v].pc = "composed" /\ click'[v].read = click[v].read
      BY <2>1, <2>2
    <3> QED BY <1>0, <2>1, <3>1, <3>2, PagesStay
  <2>7. Calm' => RebuiltInTime'
    BY <1>0, <2>1, TimelineStays DEF Rebuilding
  <2> QED BY <2>3, <2>4, <2>5, <2>6, <2>7 DEF FeedInv
<1>13. ASSUME NEW c \in Clicks, DieMidway(c) PROVE FeedInv'
  <2>1. /\ WentOn(c) /\ click' \in ClickRows /\ broken \subseteq broken'
        /\ click'[c].pc = "done" /\ click'[c].op = click[c].op
        /\ broken' = broken \cup {c} /\ UNCHANGED <<posts, follows, timeline, page>>
    <3> DEFINE next == [click[c] EXCEPT !.pc = "done", !.read = <<>>]
    <3>1. click[c] \in Clicked /\ Pending(c)
      BY <1>0, <1>13 DEF DieMidway, Pending, FeedTypeOK, ClickRows
    <3>2. next \in Clicked /\ next.pc = "done" /\ next.op = click[c].op
      <4>1. <<>> \in Reads
        BY DEF Reads
      <4> QED BY <3>1, <4>1 DEF Clicked, ClickStates
    <3>3. click' = [click EXCEPT ![c] = next] /\ during' = during
      BY <1>13 DEF DieMidway
    <3> HIDE DEF next
    <3>4. click' \in ClickRows /\ click'[c] = next /\ \A d \in Clicks \ {c} : click'[d] = click[d]
      <4> HIDE DEF Clicked
      <4> QED BY <1>0, <3>2, <3>3 DEF FeedTypeOK, ClickRows
    <3>5. broken' = broken \cup {c} /\ UNCHANGED <<posts, follows, timeline, page>>
      BY <1>13 DEF DieMidway
    <3> QED BY <3>1, <3>2, <3>3, <3>4, <3>5 DEF WentOn
  <2>2. \A d \in Clicks \ {c} : click'[d] = click[d]
    BY <2>1 DEF Began, WentOn
  <2>3. /\ OverlapsKnown' /\ during' \in SUBSET SUBSET Clicks
        /\ Calm' => Calm /\ RebuiltInTime
        /\ Calm' => \A d, e \in Clicks :
              Pending(d)' /\ Pending(e)' /\ click'[d].op # "view" /\ click'[e].op # "view" => d = e
    BY <1>0, <2>1, RecordGrows DEF FeedInv
  <2>4. FeedTypeOK'
    BY <1>0, <2>1, <2>3 DEF FeedTypeOK
  <2>5. ClicksFit'
    BY <1>0, <2>1, <2>2 DEF ClicksFit, Loaded, Rebuilding, Reads
  <2>6. PagesAreRecent' /\ StalePageOverlapped'
    <3>1. OwnChanges' \ broken' \subseteq OwnChanges
      BY <1>0, <2>1, <2>2 DEF OwnChanges, Began, WentOn, ClicksFit
    <3>2. \A v \in Clicks : click'[v].pc = "composed" =>
             click[v].pc = "composed" /\ click'[v].read = click[v].read
      BY <2>1, <2>2
    <3> QED BY <1>0, <2>1, <3>1, <3>2, PagesStay
  <2>7. Calm' => RebuiltInTime'
    BY <2>1 DEF Calm
  <2> QED BY <2>3, <2>4, <2>5, <2>6, <2>7 DEF FeedInv
<1>14. CASE UNCHANGED feedVars
  BY <1>0, <1>14 DEF feedVars, FeedInv, FeedTypeOK, ClicksFit, OverlapsKnown, PagesAreRecent,
       StalePageOverlapped,
     Calm, RebuiltInTime, Right, Chosen, Loaded, OwnChanges, Pending
<1> QED
  BY <1>1, <1>2, <1>3, <1>4, <1>5, <1>6, <1>7, <1>8, <1>9, <1>10, <1>11, <1>12, <1>13, <1>14
     DEF FeedNext

\* No request has begun, and the timeline is empty, at first.
LEMMA InitFeedInv == FeedInit => FeedInv
<1> SUFFICES ASSUME FeedInit PROVE FeedInv
  OBVIOUS
<1> USE DEF FeedInit
<1>1. FeedTypeOK
  <2>1. None \in Pages /\ click \in ClickRows
    BY DEF None, Pages, ClickRows
  <2>2. posts \in Seq(Written) /\ timeline \in Seq(Nat)
    OBVIOUS
  <2>3. follows \in BOOLEAN /\ during \in SUBSET SUBSET Clicks /\ broken \in SUBSET Clicks
    OBVIOUS
  <2> QED BY <2>1, <2>2, <2>3 DEF FeedTypeOK
<1>2. ClicksFit /\ OverlapsKnown /\ PagesAreRecent
  BY DEF ClicksFit, OverlapsKnown, PagesAreRecent, Pending, Rebuilding
<1>3. StalePageOverlapped
  BY DEF StalePageOverlapped, None
<1>4. RebuiltInTime
  <2>1. ToSet(<<>>) = {} /\ Len(posts) = 0
    BY DEF ToSet
  <2> QED BY <2>1 DEF RebuiltInTime, Right, Rebuilding
<1> QED BY <1>1, <1>2, <1>3, <1>4 DEF FeedInv

\* The timeline is right unless a change failed or changes overlapped, and a page lacks only
\* what changed after it was composed, within its time (apps/feed): for any number of
\* requests, of whatever kinds, and however long the timeline.
THEOREM FeedStaysRight == FeedSpec => []FeedFollows
<1>1. FeedInv => FeedFollows
  <2> SUFFICES ASSUME FeedInv PROVE TimelineFollows
    BY DEF FeedInv, FeedFollows
  <2>1. ASSUME Calm, \A c \in Clicks : ~Pending(c) PROVE Right
    BY <2>1 DEF FeedInv, RebuiltInTime, Pending, Rebuilding
  <2> QED BY <2>1 DEF TimelineFollows, Right, Calm
<1> QED
  BY <1>1, InitFeedInv, NextFeedInv, PTL DEF FeedSpec

-----------------------------------------------------------------------------
(***************************************************************************)
(* Insights: the page as it should be and the page that is made are the    *)
(* same parts in the same order: runs of posts, and a card where it was    *)
(* found.                                                                  *)
(***************************************************************************)
\* What a page consists of: a run of posts, and a card if it was found.
Tiles == Cards \cup {"post"}
Posts(k) == [i \in 1..k |-> "post"]
IfFound(card, found) == IF card \in found THEN <<card>> ELSE <<>>

\* A run of posts.
LEMMA PostsAre ==
  ASSUME NEW k \in Nat
  PROVE  /\ Posts(k) \in Seq(Tiles) /\ Len(Posts(k)) = k
         /\ \A i \in 1..k : Posts(k)[i] = "post"
<1>1. Posts(k) \in [1..k -> Tiles]
  BY DEF Posts, Tiles
<1> QED BY <1>1 DEF Posts

\* Two runs of posts are one.
LEMMA PostsAdd ==
  ASSUME NEW k \in Nat, NEW j \in Nat
  PROVE  Posts(k) \o Posts(j) = Posts(k + j)
<1>1. /\ Posts(k) \in Seq(Tiles) /\ Len(Posts(k)) = k /\ \A i \in 1..k : Posts(k)[i] = "post"
      /\ Posts(j) \in Seq(Tiles) /\ Len(Posts(j)) = j /\ \A i \in 1..j : Posts(j)[i] = "post"
  BY PostsAre
<1>2. /\ Posts(k + j) \in Seq(Tiles) /\ Len(Posts(k + j)) = k + j
      /\ \A i \in 1..(k + j) : Posts(k + j)[i] = "post"
  BY PostsAre
<1> DEFINE both == Posts(k) \o Posts(j)
<1>3. /\ both \in Seq(Tiles) /\ Len(both) = k + j
      /\ \A i \in 1..(k + j) : both[i] = IF i <= k THEN Posts(k)[i] ELSE Posts(j)[i - k]
  <2>1. /\ both \in Seq(Tiles) /\ Len(both) = Len(Posts(k)) + Len(Posts(j))
        /\ \A i \in 1..(Len(Posts(k)) + Len(Posts(j))) :
              both[i] = IF i <= Len(Posts(k)) THEN Posts(k)[i] ELSE Posts(j)[i - Len(Posts(k))]
    <3>1. Posts(k) \in Seq(Tiles) /\ Posts(j) \in Seq(Tiles)
      BY <1>1
    <3> QED BY ONLY <3>1, ConcatProperties
  <2> HIDE DEF both
  <2> QED BY <1>1, <2>1
<1> HIDE DEF both
<1>4. \A i \in 1..(k + j) : both[i] = "post"
  <2> SUFFICES ASSUME NEW i \in 1..(k + j) PROVE both[i] = "post"
    OBVIOUS
  <2>1. CASE i <= k
    BY <1>1, <1>3, <2>1
  <2>2. CASE ~(i <= k)
    <3>1. i - k \in 1..j
      BY <2>2
    <3> QED BY <1>1, <1>3, <2>2, <3>1
  <2> QED BY <2>1, <2>2
<1>5. both = Posts(k + j)
  BY <1>2, <1>3, <1>4, SeqEqual
<1> QED BY <1>5 DEF both

\* No post, and one.
LEMMA NoPosts ==
  /\ Posts(0) = <<>> /\ Posts(1) = <<"post">>
  /\ <<>> \in Seq(Tiles) /\ <<"post">> \in Seq(Tiles)
<1>1. <<>> \in Seq(Tiles) /\ <<"post">> \in Seq(Tiles)
  BY DEF Tiles
<1>2. Posts(0) = <<>>
  <2>1. Posts(0) \in Seq(Tiles) /\ Len(Posts(0)) = 0
    BY PostsAre
  <2> QED BY <2>1, EmptySeq
<1>3. Posts(1) = <<"post">>
  <2>1. Posts(1) \in Seq(Tiles) /\ Len(Posts(1)) = 1 /\ \A i \in 1..1 : Posts(1)[i] = "post"
    BY PostsAre
  <2>2. Len(<<"post">>) = 1 /\ \A i \in 1..1 : <<"post">>[i] = "post"
    OBVIOUS
  <2> QED BY <1>1, <2>1, <2>2, SeqEqual
<1> QED BY <1>1, <1>2, <1>3

\* A card that may have been found.
LEMMA CardIs ==
  ASSUME NEW card \in Cards, NEW found
  PROVE  /\ IfFound(card, found) \in Seq(Tiles) /\ <<card>> \in Seq(Tiles)
         /\ Len(IfFound(card, found)) = IF card \in found THEN 1 ELSE 0
<1>1. card \in Tiles
  BY DEF Tiles
<1>2. <<card>> \in Seq(Tiles) /\ Len(<<card>>) = 1
  BY <1>1
<1>3. <<>> \in Seq(Tiles) /\ Len(<<>>) = 0
  BY EmptySeq
<1> QED BY <1>2, <1>3 DEF IfFound

\* Three parts of a page, in the order in which they stand.
LEMMA Regroup ==
  ASSUME NEW s \in Seq(Tiles), NEW t \in Seq(Tiles), NEW u \in Seq(Tiles)
  PROVE  (s \o t) \o u = s \o (t \o u)
BY ConcatAssociative

\* What is inserted at the end of a first part stands between it and the second.
LEMMA InsertBetween ==
  ASSUME NEW s \in Seq(Tiles), NEW u \in Seq(Tiles), NEW e \in Tiles,
         NEW k, k = Len(s) + 1
  PROVE  InsertAt(s \o u, k, e) = (s \o <<e>>) \o u
<1> DEFINE both == s \o u
           front == SubSeq(both, 1, k - 1)
           back == SubSeq(both, k, Len(both))
<1>1. Len(s) \in Nat /\ Len(u) \in Nat /\ k \in Nat /\ k - 1 = Len(s)
  BY LenProperties
<1>2. /\ both \in Seq(Tiles) /\ Len(both) = Len(s) + Len(u)
      /\ \A i \in 1..(Len(s) + Len(u)) : both[i] = IF i <= Len(s) THEN s[i] ELSE u[i - Len(s)]
  BY ConcatProperties
<1> HIDE DEF both
<1>3. front = s
  <2>1. \A i \in 1..(k - 1) : both[i] \in Tiles
    BY <1>1, <1>2
  <2>2. /\ front \in Seq(Tiles) /\ Len(front) = Len(s)
        /\ \A i \in 1..Len(s) : front[i] = both[i]
    <3>1. /\ front \in Seq(Tiles)
          /\ Len(front) = IF 1 <= k - 1 THEN (k - 1) - 1 + 1 ELSE 0
          /\ \A i \in 1..((k - 1) - 1 + 1) : front[i] = both[1 + i - 1]
      BY <1>1, <2>1, SubSeqProperties
    <3> HIDE DEF front
    <3> QED BY <1>1, <3>1
  <2> HIDE DEF front
  <2>3. \A i \in 1..Len(s) : front[i] = s[i]
    BY <1>1, <1>2, <2>2
  <2> QED BY <2>2, <2>3, SeqEqual
<1>4. back = u
  <2>1. \A i \in k..Len(both) : both[i] \in Tiles
    BY <1>1, <1>2
  <2>2. /\ back \in Seq(Tiles) /\ Len(back) = Len(u)
        /\ \A i \in 1..Len(u) : back[i] = both[Len(s) + i]
    <3>1. /\ back \in Seq(Tiles)
          /\ Len(back) = IF k <= Len(both) THEN Len(both) - k + 1 ELSE 0
          /\ \A i \in 1..(Len(both) - k + 1) : back[i] = both[k + i - 1]
      BY <1>1, <1>2, <2>1, SubSeqProperties
    <3> HIDE DEF back
    <3>2. Len(back) = Len(u)
      BY <1>1, <1>2, <3>1
    <3>3. \A i \in 1..Len(u) : /\ i \in 1..(Len(both) - k + 1)
                             /\ k + i - 1 = Len(s) + i
      BY <1>1, <1>2
    <3> QED BY <3>1, <3>2, <3>3
  <2> HIDE DEF back
  <2>3. \A i \in 1..Len(u) : back[i] = u[i]
    <3> SUFFICES ASSUME NEW i \in 1..Len(u) PROVE back[i] = u[i]
      OBVIOUS
    <3>1. /\ Len(s) + i \in 1..(Len(s) + Len(u)) /\ ~(Len(s) + i <= Len(s))
          /\ (Len(s) + i) - Len(s) = i
      BY <1>1
    <3>2. both[Len(s) + i] = u[(Len(s) + i) - Len(s)]
      BY <1>2, <3>1
    <3> QED BY <2>2, <3>1, <3>2
  <2> QED BY <2>2, <2>3, SeqEqual
<1>5. InsertAt(both, k, e) = front \o <<e>> \o back
  BY DEF InsertAt
<1> HIDE DEF front, back
<1> QED BY <1>3, <1>4, <1>5 DEF both

Then(s, u) == s \o u

\* f grows by a post and by what comes after it; without cards it grows by posts only.
Grows(f, g, N) ==
    /\ f \in [0..N -> Seq(Tiles)] /\ g \in [0..N -> Seq(Tiles)]
    /\ f[0] = g[0]
    /\ \A n \in 1..N : f[n] = Append(f[n - 1], "post") \o g[n]
Bare(g, a, b) == \A n \in a..b : n # a => g[n] = <<>>

\* Where no card follows there are posts only.
LEMMA PostsInARow ==
  ASSUME NEW N \in Nat, NEW f, NEW g, Grows(f, g, N), NEW a \in 0..N, NEW b \in a..N,
         NEW c, c = b - a, Bare(g, a, b)
  PROVE  f[b] = Then(f[a], Posts(c))
<1> DEFINE S == {k \in Nat : a + k <= b => f[a + k] = f[a] \o Posts(k)}
<1>1. a \in Nat /\ b \in Nat /\ b - a \in Nat /\ f[a] \in Seq(Tiles)
  BY DEF Grows
<1>2. 0 \in S
  <2>1. f[a] \o Posts(0) = f[a]
    BY <1>1, NoPosts, ConcatEmptySeq
  <2> QED BY <1>1, <2>1
<1>3. ASSUME NEW k \in Nat, k \in S PROVE k + 1 \in S
  <2>0. k + 1 \in Nat
    OBVIOUS
  <2> SUFFICES ASSUME a + (k + 1) <= b PROVE f[a + (k + 1)] = f[a] \o Posts(k + 1)
    BY <2>0
  <2> DEFINE n == a + (k + 1)
  <2>1. n \in 1..N /\ n - 1 \in 0..N /\ n - 1 = a + k /\ n \in (a + 1)..b /\ a + k <= b
    BY <1>1
  <2>3. f[n - 1] = f[a] \o Posts(k)
    <3>1. f[a + k] = f[a] \o Posts(k)
      BY <1>3, <2>1
    <3> QED BY <2>1, <3>1
  <2> HIDE DEF n, S
  <2>2. f[n] = Append(f[n - 1], "post") \o g[n] /\ g[n] = <<>> /\ f[n - 1] \in Seq(Tiles)
    <3>1. n \in a..b /\ n # a
      BY <1>1, <2>1
    <3> QED BY <2>1, <3>1 DEF Grows, Bare
  <2>4. "post" \in Tiles
    BY DEF Tiles
  <2>5. Append(f[n - 1], "post") = f[n - 1] \o Posts(1)
    BY <2>2, <2>4, AppendIsConcat, NoPosts
  <2>6. Append(f[n - 1], "post") \in Seq(Tiles)
    BY <2>2, <2>4, AppendProperties
  <2>7. f[n] = Append(f[n - 1], "post")
    BY <2>2, <2>6, ConcatEmptySeq
  <2>8. Posts(k) \in Seq(Tiles) /\ Posts(1) \in Seq(Tiles)
    BY PostsAre
  <2>9. (f[a] \o Posts(k)) \o Posts(1) = f[a] \o (Posts(k) \o Posts(1))
    <3>1. f[a] \in Seq(Tiles)
      BY <1>1
    <3> QED BY <2>8, <3>1, Regroup
  <2>10. Posts(k) \o Posts(1) = Posts(k + 1)
    BY PostsAdd
  <2> QED BY <2>3, <2>5, <2>7, <2>9, <2>10 DEF n
<1>4. ASSUME NEW k \in Nat, a + k = b PROVE f[a + k] = f[a] \o Posts(k)
  <2>1. k \in S
    <3> HIDE DEF S
    <3> QED BY <1>2, <1>3, NatIsAll
  <2> QED BY <1>1, <1>4, <2>1
<1>5. c \in Nat /\ a + c = b
  BY <1>1
<1> QED BY <1>4, <1>5 DEF Then

\* Up to the next card there are posts only, and then that card.
LEMMA NextStop ==
  ASSUME NEW N \in Nat, NEW f, NEW g, Grows(f, g, N), NEW a \in 0..N, NEW b \in (a + 1)..N,
         NEW c, c = b - a, Bare(g, a, b - 1)
  PROVE  f[b] = Then(Then(f[a], Posts(c)), g[b])
<1> DEFINE d == b - 1
           k == d - a
<1>1. /\ a \in Nat /\ b \in 1..N /\ d \in 0..N /\ d \in a..N /\ d = b - 1
      /\ k \in Nat /\ k = d - a /\ k + 1 = c
  OBVIOUS
<1> HIDE DEF d, k
<1>2. f[a] \in Seq(Tiles) /\ f[d] \in Seq(Tiles)
  BY <1>1 DEF Grows
<1>3. Bare(g, a, d)
  BY <1>1 DEF Bare
<1>4. f[d] = f[a] \o Posts(k)
  <2>1. f[d] = Then(f[a], Posts(k))
    BY <1>1, <1>3, PostsInARow
  <2> QED BY <2>1 DEF Then
<1>5. f[b] = Append(f[d], "post") \o g[b]
  BY <1>1 DEF Grows
<1>6. Append(f[d], "post") = f[d] \o Posts(1)
  <2>1. "post" \in Tiles
    BY DEF Tiles
  <2> QED BY <1>2, <2>1, AppendIsConcat, NoPosts
<1>7. Posts(k) \in Seq(Tiles) /\ Posts(1) \in Seq(Tiles)
  BY <1>1, PostsAre
<1>8. (f[a] \o Posts(k)) \o Posts(1) = f[a] \o (Posts(k) \o Posts(1))
  BY ONLY <1>2, <1>7, Regroup
<1>9. Posts(k) \o Posts(1) = Posts(c)
  BY <1>1, PostsAdd
<1> QED BY <1>4, <1>5, <1>6, <1>8, <1>9 DEF Then

\* The cards that Show puts behind the first n posts.
Here(card, n, F, at) == IF card \in F /\ at[card] = n THEN <<card>> ELSE <<>>
Behind(n, F, at) ==
    Here("mentor", n, F, at) \o Here("soulmatch", n, F, at) \o Here("matrix", n, F, at)

\* The page as it should be grows post by post.
LEMMA ShowGrows ==
  ASSUME NEW p \in Nat, NEW F, NEW at
  PROVE  \E f : /\ Grows(f, [n \in 0..p |-> Behind(n, F, at)], p)
                /\ Show(p, F, at) = f[p]
<1> DEFINE V == Seq(Tiles)
           g == [n \in 0..p |-> Behind(n, F, at)]
           next(n, s) == Append(s, "post") \o Behind(n, F, at)
           step == [n \in 1..p |-> [s \in V |-> next(n, s)]]
           up[n \in 0..p] == IF n = 0 THEN Behind(0, F, at)
                             ELSE Append(up[n - 1], "post") \o Behind(n, F, at)
           Is(f) == f = [n \in 0..p |-> IF n = 0 THEN Behind(0, F, at)
                                        ELSE Append(f[n - 1], "post") \o Behind(n, F, at)]
<1>1. Show(p, F, at) = up[p]
  BY DEF Show, Behind, Here
<1>2. (\E f : Is(f)) => Is(up)
  OBVIOUS
<1> HIDE DEF up
<1>3. ASSUME NEW n PROVE Behind(n, F, at) \in V
  <2>1. ASSUME NEW card \in Cards PROVE Here(card, n, F, at) \in V
    <3>1. card \in Tiles /\ <<>> \in V
      BY DEF Tiles
    <3> QED BY <3>1 DEF Here
  <2> DEFINE a == Here("mentor", n, F, at)
             b == Here("soulmatch", n, F, at)
             c == Here("matrix", n, F, at)
  <2>2. a \in V /\ b \in V /\ c \in V
    BY <2>1 DEF Cards
  <2>4. Behind(n, F, at) = (a \o b) \o c
    BY DEF Behind
  <2> HIDE DEF a, b, c
  <2>3. (a \o b) \o c \in V
    BY <2>2, ConcatProperties
  <2> QED BY <2>3, <2>4
<1>4. ASSUME NEW n, NEW s \in V PROVE next(n, s) \in V
  <2> DEFINE e == Behind(n, F, at)
             t == Append(s, "post")
  <2>1. e \in V
    BY <1>3
  <2>2. t \in V
    <3>1. "post" \in Tiles
      BY DEF Tiles
    <3> QED BY <3>1, AppendProperties
  <2> HIDE DEF e, t
  <2>3. t \o e \in V
    BY <2>1, <2>2, ConcatProperties
  <2> QED BY <2>3 DEF e, t
<1>n. \A f, n : Append(f[n - 1], "post") \o Behind(n, F, at) = next(n, f[n - 1])
  OBVIOUS
<1>5. PICK f \in [0..p -> V] : f[0] = Behind(0, F, at) /\ \A n \in 1..p : f[n] = step[n][f[n - 1]]
  <2>1. step \in Steps(p, V)
    <3> HIDE DEF V, next
    <3> QED BY <1>4 DEF Steps
  <2>2. Behind(0, F, at) \in V
    BY <1>3
  <2> HIDE DEF step, V
  <2>3. PICK f : MadeBySteps(f, p, V, Behind(0, F, at), step)
    BY <2>1, <2>2, StepsMakeFunction
  <2> QED BY <2>3 DEF MadeBySteps
<1> HIDE DEF V
<1>6. ASSUME NEW n \in 1..p PROVE f[n] = next(n, f[n - 1]) /\ n - 1 \in 0..p
  <2>1. n - 1 \in 0..p
    OBVIOUS
  <2>2. f[n - 1] \in V
    BY <1>5, <2>1
  <2> HIDE DEF next
  <2> QED BY <1>5, <2>1, <2>2
<1> HIDE DEF step
<1>7. Is(f)
  <2> DEFINE r(n) == IF n = 0 THEN Behind(0, F, at) ELSE next(n, f[n - 1])
  <2>1. \A n \in 0..p : n = 0 \/ n \in 1..p
    OBVIOUS
  <2>2. \A n \in 0..p : f[n] = r(n)
    <3> HIDE DEF next
    <3> QED BY <1>5, <1>6, <2>1
  <2>3. f = [n \in 0..p |-> r(n)]
    <3> HIDE DEF r
    <3> QED BY <1>5, <2>2
  <2> QED BY <2>3
<1>8. Is(up)
  BY <1>2, <1>7
<1>9. Grows(up, g, p)
  <2>1. ASSUME NEW n \in 0..p
        PROVE  up[n] = IF n = 0 THEN Behind(0, F, at) ELSE next(n, up[n - 1])
    BY <1>8
  <2>2. DOMAIN up = 0..p /\ up = [n \in 0..p |-> up[n]]
    <3> DEFINE w(n) == IF n = 0 THEN Behind(0, F, at)
                       ELSE Append(up[n - 1], "post") \o Behind(n, F, at)
    <3>1. up = [n \in 0..p |-> w(n)]
      BY <1>8
    <3> HIDE DEF w
    <3> QED BY <3>1
  <2>3. g \in [0..p -> V] /\ \A n \in 0..p : g[n] = Behind(n, F, at)
    BY <1>3
  <2> HIDE DEF next, Is
  <2>4. up[0] = Behind(0, F, at) /\ \A n \in 1..p : up[n] = next(n, up[n - 1])
    <3>1. 0 \in 0..p /\ \A n \in 1..p : n \in 0..p /\ n # 0
      OBVIOUS
    <3> QED BY <2>1, <3>1
  <2>5. up \in [0..p -> V]
    <3> DEFINE S == {n \in Nat : n <= p => up[n] \in V}
    <3>1. 0 \in S
      BY <1>3, <2>4
    <3>2. ASSUME NEW n \in Nat, n \in S PROVE n + 1 \in S
      <4>0. n + 1 \in Nat
        OBVIOUS
      <4> SUFFICES ASSUME n + 1 <= p PROVE up[n + 1] \in V
        BY <4>0
      <4>1. n + 1 \in 1..p /\ up[n] \in V /\ (n + 1) - 1 = n
        BY <3>2
      <4>2. up[n + 1] = next(n + 1, up[n])
        BY <2>4, <4>1
      <4> QED BY <1>4, <4>1, <4>2
    <3>3. \A n \in 0..p : up[n] \in V
      <4> HIDE DEF S
      <4>1. Nat \subseteq S
        BY <3>1, <3>2, NatIsAll
      <4> QED BY <4>1 DEF S
    <3> QED BY <2>2, <3>3
  <2>6. \A n \in 1..p : up[n] = Append(up[n - 1], "post") \o g[n]
    <3>1. \A n \in 1..p : up[n] = Append(up[n - 1], "post") \o Behind(n, F, at)
      BY <2>4 DEF next
    <3>2. \A n \in 1..p : g[n] = Behind(n, F, at)
      BY <2>3
    <3> HIDE DEF g
    <3> QED BY <3>1, <3>2
  <2>7. up[0] = g[0]
    BY <2>3, <2>4
  <2> HIDE DEF g
  <2> QED BY <2>3, <2>5, <2>6, <2>7 DEF Grows, V
<1> QED BY <1>1, <1>9

\* The cards between the posts.
Top(p, found) == (Posts(2) \o IfFound("mentor", found)) \o Posts(Lesser(4, p) - 2)
Row(p, found) ==
    IF p <= 2 THEN (Posts(p) \o IfFound("mentor", found)) \o IfFound("soulmatch", found)
    ELSE IF p < 6
    THEN (Top(p, found) \o IfFound("soulmatch", found)) \o Posts(p - Lesser(4, p))
    ELSE (((Top(p, found) \o IfFound("soulmatch", found)) \o Posts(2)) \o
                 IfFound("matrix", found)) \o Posts(p - 6)

Places(p) == [mentor |-> Lesser(2, p), soulmatch |-> Lesser(4, p), matrix |-> 6]
Fitting(p, found) == IF p < 6 THEN found \ {"matrix"} ELSE found

\* The cards that follow the first n posts.
LEMMA BehindIs ==
  ASSUME NEW p \in Nat, NEW found \in SUBSET Cards, NEW n \in 0..p,
         NEW m, m = IfFound("mentor", found), NEW s, s = IfFound("soulmatch", found),
         NEW x, x = IfFound("matrix", found),
         NEW F, F = Fitting(p, found), NEW at, at = Places(p)
  PROVE  /\ n # Lesser(2, p) /\ n # Lesser(4, p) /\ n # 6 => Behind(n, F, at) = <<>>
         /\ n = 2 /\ n # Lesser(4, p) => Behind(n, F, at) = m
         /\ n = Lesser(4, p) /\ n # Lesser(2, p) => Behind(n, F, at) = s
         /\ n = Lesser(4, p) /\ n = Lesser(2, p) => Behind(n, F, at) = Then(m, s)
         /\ n = 6 => Behind(n, F, at) = x
<1> DEFINE a == Here("mentor", n, F, at)
           b == Here("soulmatch", n, F, at)
           c == Here("matrix", n, F, at)
<1>1. at["mentor"] = Lesser(2, p) /\ at["soulmatch"] = Lesser(4, p) /\ at["matrix"] = 6
  BY DEF Places
<1>2. /\ "mentor" \in F <=> "mentor" \in found
      /\ "soulmatch" \in F <=> "soulmatch" \in found
      /\ n = 6 => ("matrix" \in F <=> "matrix" \in found)
  BY DEF Fitting
<1>3. /\ a = IF n = Lesser(2, p) THEN m ELSE <<>>
      /\ b = IF n = Lesser(4, p) THEN s ELSE <<>>
  BY <1>1, <1>2 DEF Here, IfFound
<1>4. c = IF n = 6 THEN x ELSE <<>>
  BY <1>1, <1>2 DEF Here, IfFound
<1>5. m \in Seq(Tiles) /\ s \in Seq(Tiles) /\ x \in Seq(Tiles) /\ <<>> \in Seq(Tiles)
  BY CardIs, NoPosts DEF Cards
<1>6. Behind(n, F, at) = (a \o b) \o c
  BY DEF Behind
<1> HIDE DEF a, b, c
<1>7. Lesser(2, p) <= 2 /\ Lesser(4, p) <= 4 /\ (n = 2 => n = Lesser(2, p))
  BY DEF Lesser
<1>8. \A t \in Seq(Tiles) : t \o <<>> = t /\ <<>> \o t = t
  BY ConcatEmptySeq
<1>9. m \o s \in Seq(Tiles)
  BY <1>5, ConcatProperties
<1>10. CASE n = 6
  <2>1. n # Lesser(2, p) /\ n # Lesser(4, p)
    BY <1>7, <1>10
  <2>2. Behind(n, F, at) = (<<>> \o <<>>) \o x
    BY <1>3, <1>4, <1>6, <1>10, <2>1
  <2>3. Behind(n, F, at) = x
    BY <1>5, <1>8, <2>2
  <2> QED BY <1>10, <2>1, <2>3
<1>11. CASE n # 6 /\ n # Lesser(2, p) /\ n # Lesser(4, p)
  <2>1. Behind(n, F, at) = (<<>> \o <<>>) \o <<>>
    BY <1>3, <1>4, <1>6, <1>11
  <2>2. Behind(n, F, at) = <<>>
    BY <1>5, <1>8, <2>1
  <2> QED BY <1>7, <1>11, <2>2
<1>12. CASE n # 6 /\ n = Lesser(2, p) /\ n # Lesser(4, p)
  <2>1. Behind(n, F, at) = (m \o <<>>) \o <<>>
    BY <1>3, <1>4, <1>6, <1>12
  <2>2. Behind(n, F, at) = m
    BY <1>5, <1>8, <2>1
  <2> QED BY <1>12, <2>2
<1>13. CASE n # 6 /\ n # Lesser(2, p) /\ n = Lesser(4, p)
  <2>1. Behind(n, F, at) = (<<>> \o s) \o <<>>
    BY <1>3, <1>4, <1>6, <1>13
  <2>2. Behind(n, F, at) = s
    BY <1>5, <1>8, <2>1
  <2> QED BY <1>7, <1>13, <2>2
<1>14. CASE n # 6 /\ n = Lesser(2, p) /\ n = Lesser(4, p)
  <2>1. Behind(n, F, at) = (m \o s) \o <<>>
    BY <1>3, <1>4, <1>6, <1>14
  <2>2. Behind(n, F, at) = m \o s
    BY <1>8, <1>9, <2>1
  <2> QED BY <1>14, <2>2 DEF Then
<1> QED BY <1>10, <1>11, <1>12, <1>13, <1>14

\* The page as it should be.
LEMMA ShowIs ==
  ASSUME NEW p \in Nat, NEW found \in SUBSET Cards
  PROVE  Show(p, Fitting(p, found), Places(p)) = Row(p, found)
<1> DEFINE m == IfFound("mentor", found)
           s == IfFound("soulmatch", found)
           x == IfFound("matrix", found)
           F == Fitting(p, found)
           at == Places(p)
           g == [n \in 0..p |-> Behind(n, F, at)]
           r == Lesser(4, p)
<1>1. PICK f : Grows(f, g, p) /\ Show(p, F, at) = f[p]
  BY ShowGrows
<1>2. m \in Seq(Tiles) /\ s \in Seq(Tiles) /\ x \in Seq(Tiles) /\ <<>> \in Seq(Tiles)
  BY CardIs, NoPosts DEF Cards
<1>3. \A k \in Nat : Posts(k) \in Seq(Tiles)
  BY PostsAre
<1>4. \A t \in Seq(Tiles) : t \o <<>> = t /\ <<>> \o t = t
  BY ConcatEmptySeq
<1>5. Lesser(2, p) = (IF p <= 2 THEN p ELSE 2) /\ r = (IF p <= 4 THEN p ELSE 4) /\ r \in Nat
  BY DEF Lesser
<1>m. m = IfFound("mentor", found) /\ s = IfFound("soulmatch", found)
      /\ x = IfFound("matrix", found) /\ F = Fitting(p, found) /\ at = Places(p)
      /\ r = Lesser(4, p)
  OBVIOUS
<1>g. \A n \in 0..p : g[n] = Behind(n, F, at)
  OBVIOUS
<1> HIDE DEF m, s, x, F, at, g, r
<1>6. ASSUME NEW n \in 0..p
      PROVE  /\ n # Lesser(2, p) /\ n # r /\ n # 6 => g[n] = <<>>
             /\ n = 2 /\ n # r => g[n] = m
             /\ n = r /\ n # Lesser(2, p) => g[n] = s
             /\ n = r /\ n = Lesser(2, p) => g[n] = Then(m, s)
             /\ n = 6 => g[n] = x
  <2>1. g[n] = Behind(n, F, at)
    BY <1>g
  <2> QED BY <1>m, <2>1, BehindIs
<1>7. f[0] = g[0]
  BY <1>1 DEF Grows
<1>8. CASE p <= 2
  <2>1. Row(p, found) = (Posts(p) \o m) \o s
    BY <1>8, <1>m DEF Row
  <2>2. (Posts(p) \o m) \o s = Posts(p) \o (m \o s)
    <3>1. Posts(p) \in Seq(Tiles) /\ m \in Seq(Tiles) /\ s \in Seq(Tiles)
      BY <1>2, <1>3
    <3> QED BY ONLY <3>1, Regroup
  <2>3. g[p] = m \o s /\ r = p
    <3>1. p \in 0..p /\ p = r /\ p = Lesser(2, p)
      BY <1>5, <1>8
    <3> QED BY <1>6, <3>1 DEF Then
  <2>4. CASE p = 0
    <3>1. f[p] = m \o s
      BY <1>7, <2>3, <2>4
    <3>2. Posts(p) = <<>>
      BY <2>4, NoPosts
    <3>3. m \o s \in Seq(Tiles)
      BY <1>2, ConcatProperties
    <3>4. Posts(p) \o (m \o s) = m \o s
      BY <1>4, <3>2, <3>3
    <3> QED BY <1>1, <1>m, <2>1, <2>2, <3>1, <3>4
  <2>5. CASE p # 0
    <3>1. /\ 0 \in 0..p /\ p \in (0 + 1)..p /\ p = p - 0
          /\ 0 # Lesser(2, p) /\ 0 # r
      BY <1>5, <2>5
    <3>2. Bare(g, 0, p - 1)
      <4> SUFFICES ASSUME NEW n \in 0..(p - 1), n # 0 PROVE g[n] = <<>>
        BY DEF Bare
      <4>1. n \in 0..p /\ n # Lesser(2, p) /\ n # r /\ n # 6
        BY <1>5, <1>8
      <4> QED BY <1>6, <4>1
    <3>3. f[p] = Then(Then(f[0], Posts(p)), g[p])
      BY <1>1, <3>1, <3>2, NextStop
    <3>4. f[0] = <<>>
      BY <1>6, <1>7, <3>1
    <3>5. <<>> \o Posts(p) = Posts(p)
      BY <1>3, <1>4
    <3>6. f[p] = Posts(p) \o (m \o s)
      BY <2>3, <3>3, <3>4, <3>5 DEF Then
    <3> QED BY <1>1, <1>m, <2>1, <2>2, <3>6
  <2> QED BY <2>4, <2>5
<1>9. ASSUME ~(p <= 2)
      PROVE  /\ f[r] = Top(p, found) \o s
             /\ r \in 3..p /\ Lesser(2, p) = 2 /\ r <= 4
  <2>1. r \in 3..p /\ Lesser(2, p) = 2 /\ 2 \in 0..p /\ 0 \in 0..p /\ r \in 0..p /\ r <= 4
    BY <1>5, <1>9
  <2>2. g[0] = <<>> /\ g[2] = m /\ g[r] = s
    <3>1. g[0] = <<>>
      BY <1>6, <2>1
    <3>2. g[2] = m
      BY <1>6, <2>1
    <3>3. g[r] = s
      BY <1>6, <2>1
    <3> QED BY <3>1, <3>2, <3>3
  <2>3. f[2] = Posts(2) \o m
    <3> DEFINE two == 2
    <3>0. two = 2
      OBVIOUS
    <3> HIDE DEF two
    <3>1. Bare(g, 0, two - 1)
      <4> SUFFICES ASSUME NEW n \in 0..(two - 1), n # 0 PROVE g[n] = <<>>
        BY DEF Bare
      <4>1. n \in 0..p /\ n # Lesser(2, p) /\ n # r /\ n # 6
        BY <2>1, <3>0
      <4> QED BY <1>6, <4>1
    <3>2. two \in (0 + 1)..p /\ two = two - 0
      BY <2>1, <3>0
    <3>3. f[two] = Then(Then(f[0], Posts(two)), g[two])
      BY <1>1, <2>1, <3>1, <3>2, NextStop
    <3>4. <<>> \o Posts(2) = Posts(2)
      BY <1>3, <1>4
    <3> QED BY <1>7, <2>2, <3>0, <3>3, <3>4 DEF Then
  <2>4. f[r] = ((Posts(2) \o m) \o Posts(r - 2)) \o s
    <3> DEFINE k == r - 2
    <3>1. k = r - 2 /\ r \in (2 + 1)..p
      BY <2>1
    <3> HIDE DEF k
    <3>2. Bare(g, 2, r - 1)
      <4> SUFFICES ASSUME NEW n \in 2..(r - 1), n # 2 PROVE g[n] = <<>>
        BY DEF Bare
      <4>1. n \in 0..p /\ n # Lesser(2, p) /\ n # r /\ n # 6
        BY <2>1
      <4> QED BY <1>6, <4>1
    <3>3. f[r] = Then(Then(f[2], Posts(k)), g[r])
      BY <1>1, <2>1, <3>1, <3>2, NextStop
    <3> QED BY <2>2, <2>3, <3>1, <3>3 DEF Then
  <2>5. Top(p, found) = (Posts(2) \o m) \o Posts(r - 2)
    BY <1>m DEF Top
  <2> QED BY <2>1, <2>4, <2>5
<1>10. CASE ~(p <= 2) /\ p < 6
  <2> DEFINE k == p - r
  <2>1. k = p - r /\ r \in 0..p /\ p \in r..p
    BY <1>9, <1>10
  <2> HIDE DEF k
  <2>2. Bare(g, r, p)
    <3> SUFFICES ASSUME NEW n \in r..p, n # r PROVE g[n] = <<>>
      BY DEF Bare
    <3>1. n \in 0..p /\ n # Lesser(2, p) /\ n # r /\ n # 6
      BY <1>9, <1>10
    <3> QED BY <1>6, <3>1
  <2>3. f[p] = Then(f[r], Posts(k))
    BY <1>1, <2>1, <2>2, PostsInARow
  <2>4. Row(p, found) = (Top(p, found) \o s) \o Posts(p - r)
    BY <1>10, <1>m DEF Row
  <2> QED BY <1>1, <1>m, <1>9, <1>10, <2>1, <2>3, <2>4 DEF Then
<1>11. CASE ~(p <= 2) /\ ~(p < 6)
  <2>1. r = 4
    BY <1>5, <1>11
  <2>2. f[6] = ((Top(p, found) \o s) \o Posts(2)) \o x
    <3> DEFINE six == 6
               k == 2
    <3>1. k = six - r /\ six = 6 /\ k = 2 /\ six \in (r + 1)..p /\ r \in 0..p /\ six \in 0..p
      BY <1>11, <2>1
    <3> HIDE DEF six, k
    <3>2. Bare(g, r, six - 1)
      <4> SUFFICES ASSUME NEW n \in r..(six - 1), n # r PROVE g[n] = <<>>
        BY DEF Bare
      <4>1. n \in 0..p /\ n # Lesser(2, p) /\ n # r /\ n # 6
        BY <1>9, <1>11, <2>1, <3>1
      <4> QED BY <1>6, <4>1
    <3>3. f[six] = Then(Then(f[r], Posts(k)), g[six])
      BY <1>1, <3>1, <3>2, NextStop
    <3>4. g[six] = x
      BY <1>6, <3>1
    <3> QED BY <1>9, <1>11, <3>1, <3>3, <3>4 DEF Then
  <2>3. f[p] = (((Top(p, found) \o s) \o Posts(2)) \o x) \o Posts(p - 6)
    <3> DEFINE k == p - 6
    <3>1. k = p - 6 /\ 6 \in 0..p /\ p \in 6..p
      BY <1>11
    <3> HIDE DEF k
    <3>2. Bare(g, 6, p)
      <4> SUFFICES ASSUME NEW n \in 6..p, n # 6 PROVE g[n] = <<>>
        BY DEF Bare
      <4>1. n \in 0..p /\ n # Lesser(2, p) /\ n # r /\ n # 6
        BY <1>9, <1>11, <2>1
      <4> QED BY <1>6, <4>1
    <3>3. f[p] = Then(f[6], Posts(k))
      BY <1>1, <3>1, <3>2, PostsInARow
    <3> QED BY <2>2, <3>1, <3>3 DEF Then
  <2>4. Row(p, found) = (((Top(p, found) \o s) \o Posts(2)) \o x) \o Posts(p - 6)
    BY <1>11, <1>m DEF Row
  <2> QED BY <1>1, <1>m, <2>3, <2>4
<1> QED BY <1>8, <1>10, <1>11

Placed(s, u, k, card, found) ==
    IF card \in found THEN InsertAt(s \o u, k, card) ELSE s \o u

\* A card is inserted if it was found.
LEMMA InsertIfFound ==
  ASSUME NEW s \in Seq(Tiles), NEW u \in Seq(Tiles), NEW card \in Cards, NEW found,
         NEW k, k = Len(s) + 1
  PROVE  Placed(s, u, k, card, found) = Then(Then(s, IfFound(card, found)), u)
<1>1. CASE card \in found
  <2>1. card \in Tiles
    BY DEF Tiles
  <2>2. InsertAt(s \o u, k, card) = (s \o <<card>>) \o u
    BY <2>1, InsertBetween
  <2> QED BY <1>1, <2>2 DEF IfFound, Placed, Then
<1>2. CASE card \notin found
  <2>1. s \o <<>> = s
    BY ConcatEmptySeq
  <2> QED BY <1>2, <2>1 DEF IfFound, Placed, Then
<1> QED BY <1>1, <1>2

\* Four are not more than four or more.
LEMMA LesserIsFour ==
  ASSUME NEW n \in Nat, n >= 4
  PROVE  Lesser(4, n) = 4
BY DEF Lesser

\* The page that _insert_insights makes: no insertion moves a card that is in its place.
LEMMA WithCardsIs ==
  ASSUME NEW p \in Nat, NEW found \in SUBSET Cards
  PROVE  WithCards(p, found) = Row(p, found)
<1> DEFINE m == IfFound("mentor", found)
           s == IfFound("soulmatch", found)
           x == IfFound("matrix", found)
           q == Lesser(2, p)
           r == Lesser(4, p)
           mentorAt == IF "mentor" \in found THEN Lesser(2, p) ELSE -1
           one == IF mentorAt >= 0 THEN InsertAt(Posts(p), mentorAt + 1, "mentor") ELSE Posts(p)
           matrixFits == p >= 6 /\ "matrix" \in found
           matrixAt == IF ~matrixFits THEN -1
                       ELSE Lesser(IF mentorAt >= 0 THEN 7 ELSE 6, Len(one))
           two == IF matrixFits THEN InsertAt(one, matrixAt + 1, "matrix") ELSE one
           target == Lesser(4, Len(two))
           moved == IF mentorAt >= 0 /\ mentorAt <= target THEN target + 1 ELSE target
           again == IF matrixAt >= 0 /\ matrixAt <= moved THEN moved + 1 ELSE moved
           last == Lesser(again, Len(two)) + 1
<1>1. WithCards(p, found) = IF "soulmatch" \in found THEN InsertAt(two, last, "soulmatch") ELSE two
  BY DEF WithCards, Posts
<1>2. /\ m \in Seq(Tiles) /\ Len(m) = IF "mentor" \in found THEN 1 ELSE 0
      /\ s \in Seq(Tiles)
      /\ x \in Seq(Tiles) /\ Len(x) = IF "matrix" \in found THEN 1 ELSE 0
      /\ <<>> \in Seq(Tiles)
  BY CardIs, NoPosts DEF Cards
<1>3. \A k \in Nat : Posts(k) \in Seq(Tiles) /\ Len(Posts(k)) = k
  BY PostsAre
<1>4. \A t \in Seq(Tiles) : t \o <<>> = t
  BY ConcatEmptySeq
<1>5. /\ q = IF p <= 2 THEN p ELSE 2
      /\ r = IF p <= 4 THEN p ELSE 4
  BY DEF Lesser
<1>m. /\ m = IfFound("mentor", found) /\ s = IfFound("soulmatch", found)
      /\ x = IfFound("matrix", found) /\ r = Lesser(4, p)
  OBVIOUS
<1>6. mentorAt = IF "mentor" \in found THEN q ELSE -1
  OBVIOUS
<1>7. one = IF mentorAt >= 0 THEN InsertAt(Posts(p), mentorAt + 1, "mentor") ELSE Posts(p)
  OBVIOUS
<1>8. /\ p < 6 => two = one /\ matrixAt = -1
      /\ "matrix" \notin found => two = one /\ matrixAt = -1
      /\ p >= 6 /\ "matrix" \in found =>
            /\ two = InsertAt(one, matrixAt + 1, "matrix")
            /\ matrixAt = Lesser(IF mentorAt >= 0 THEN 7 ELSE 6, Len(one))
  OBVIOUS
<1>t. target = Lesser(4, Len(two))
  OBVIOUS
<1>v. moved = IF mentorAt >= 0 /\ mentorAt <= target THEN target + 1 ELSE target
  OBVIOUS
<1>a. again = IF matrixAt >= 0 /\ matrixAt <= moved THEN moved + 1 ELSE moved
  OBVIOUS
<1>9. last = Lesser(again, Len(two)) + 1
  OBVIOUS
<1> HIDE DEF m, s, x, q, r, mentorAt, one, matrixAt, two, target, moved, again, last
<1>10. q \in Nat /\ p - q \in Nat /\ q + (p - q) = p /\ mentorAt \in Int
  BY <1>5, <1>6
<1>11. /\ one = (Posts(q) \o m) \o Posts(p - q)
       /\ Posts(q) \o m \in Seq(Tiles) /\ Len(Posts(q) \o m) = q + Len(m)
       /\ one \in Seq(Tiles) /\ Len(one) = p + Len(m)
  <2> DEFINE a == Posts(q)
             b == Posts(p - q)
             k == q + 1
  <2>1. a \in Seq(Tiles) /\ b \in Seq(Tiles) /\ Len(a) = q /\ Len(b) = p - q
    BY <1>3, <1>10
  <2>2. Posts(p) = a \o b
    <3>1. Posts(q) \o Posts(p - q) = Posts(q + (p - q))
      BY <1>10, PostsAdd
    <3> QED BY <1>10, <3>1
  <2>3. one = IF "mentor" \in found THEN InsertAt(Posts(p), k, "mentor") ELSE Posts(p)
    BY <1>6, <1>7, <1>10
  <2>4. k = q + 1 /\ a = Posts(q) /\ b = Posts(p - q)
    OBVIOUS
  <2> HIDE DEF a, b, k
  <2>5. one = (a \o m) \o b
    <3>1. k = Len(a) + 1 /\ "mentor" \in Cards
      BY <2>1, <2>4 DEF Cards
    <3>2. Placed(a, b, k, "mentor", found) = Then(Then(a, IfFound("mentor", found)), b)
      BY <2>1, <3>1, InsertIfFound
    <3> QED BY <1>m, <2>2, <2>3, <3>2 DEF Placed, Then
  <2>6. a \o m \in Seq(Tiles) /\ Len(a \o m) = q + Len(m)
    BY <1>2, <2>1, ConcatProperties
  <2>7. (a \o m) \o b \in Seq(Tiles) /\ Len((a \o m) \o b) = Len(a \o m) + Len(b)
    BY <2>1, <2>6, ConcatProperties
  <2>8. Len(m) \in Nat
    BY <1>2
  <2>9. (q + Len(m)) + (p - q) = p + Len(m)
    BY <1>10, <2>8
  <2> QED BY <2>1, <2>4, <2>5, <2>6, <2>7, <2>9
<1>12. Len(m) = IF mentorAt >= 0 THEN 1 ELSE 0
  BY <1>2, <1>6, <1>10
<1>13. ASSUME NEW front \in Seq(Tiles), NEW back \in Seq(Tiles), two = front \o back,
              last = Len(front) + 1
       PROVE  WithCards(p, found) = (front \o s) \o back
  <2>1. "soulmatch" \in Cards
    BY DEF Cards
  <2>2. Placed(front, back, last, "soulmatch", found)
           = Then(Then(front, IfFound("soulmatch", found)), back)
    BY <1>13, <2>1, InsertIfFound
  <2> QED BY <1>1, <1>m, <1>13, <2>2 DEF Placed, Then
<1>14. CASE p <= 2
  <2>1. q = p /\ p - q = 0
    BY <1>5, <1>14
  <2>2. one = Posts(p) \o m
    <3>1. Posts(p - q) = <<>>
      BY <2>1, NoPosts
    <3> QED BY <1>4, <1>11, <2>1, <3>1
  <2>3. two = one /\ matrixAt = -1
    BY <1>8, <1>14
  <2>4. Len(two) \in 0..3 /\ Len(one) = Len(two)
    BY <1>11, <1>12, <1>14, <2>3
  <2>5. target = Len(two) /\ (again = target \/ again = target + 1)
    <3>1. target = Len(two)
      BY <1>t, <2>4 DEF Lesser
    <3>2. again = moved
      BY <1>a, <2>3
    <3> QED BY <1>v, <3>1, <3>2
  <2>6. last = Len(one) + 1
    BY <1>9, <2>4, <2>5 DEF Lesser
  <2>7. two = one \o <<>>
    BY <1>4, <1>11, <2>3
  <2>8. WithCards(p, found) = (one \o s) \o <<>>
    BY <1>2, <1>11, <1>13, <2>6, <2>7
  <2>9. one \o s \in Seq(Tiles)
    BY <1>2, <1>11, ConcatProperties
  <2>10. WithCards(p, found) = one \o s
    BY <1>4, <2>8, <2>9
  <2>11. Row(p, found) = (Posts(p) \o m) \o s
    BY <1>14, <1>m DEF Row
  <2> QED BY <2>2, <2>10, <2>11
<1>15. ASSUME ~(p <= 2)
       PROVE  /\ Top(p, found) \in Seq(Tiles) /\ Len(Top(p, found)) = r + Len(m)
              /\ r \in 3..4 /\ r <= p /\ one = Top(p, found) \o Posts(p - r)
              /\ p >= 4 => r = 4
  <2> DEFINE a == Posts(2) \o m
             j == r - 2
             k == p - r
             b == Posts(j)
             c == Posts(k)
  <2>1. q = 2 /\ r \in 3..4 /\ r <= p /\ j \in Nat /\ k \in Nat /\ j + k = p - q
        /\ (p >= 4 => r = 4)
    BY <1>5, <1>15
  <2>2. b \in Seq(Tiles) /\ c \in Seq(Tiles) /\ Len(b) = j
    BY <1>3, <2>1
  <2>3. a \in Seq(Tiles) /\ Len(a) = 2 + Len(m)
    BY <1>11, <2>1
  <2>4. one = a \o Posts(p - q)
    BY <1>11, <2>1
  <2>5. Posts(p - q) = b \o c
    <3> HIDE DEF j, k
    <3>1. b \o c = Posts(j + k)
      BY <2>1, PostsAdd
    <3> QED BY <2>1, <3>1
  <2>6. Top(p, found) = a \o b
    BY <1>m DEF Top
  <2>7. c = Posts(p - r) /\ j = r - 2
    OBVIOUS
  <2> HIDE DEF a, b, c, j, k
  <2>8. (a \o b) \o c = a \o (b \o c)
    BY <2>2, <2>3, Regroup
  <2>9. a \o b \in Seq(Tiles) /\ Len(a \o b) = Len(a) + Len(b)
    BY <2>2, <2>3, ConcatProperties
  <2>10. Len(m) \in Nat
    BY <1>2
  <2>11. Len(a) + Len(b) = r + Len(m)
    BY <2>1, <2>2, <2>3, <2>7, <2>10
  <2> QED BY <2>1, <2>4, <2>5, <2>6, <2>7, <2>8, <2>9, <2>11
<1>16. CASE ~(p <= 2) /\ p < 6
  <2>1. two = one /\ matrixAt = -1
    BY <1>8, <1>16
  <2>2. last = r + Len(m) + 1
    <3>1. Len(two) = p + Len(m) /\ r \in 3..4 /\ r <= p /\ (p >= 4 => r = 4)
      BY <1>11, <1>15, <1>16, <2>1
    <3>2. mentorAt = (IF Len(m) = 1 THEN 2 ELSE -1) /\ Len(m) \in {0, 1}
      BY <1>2, <1>5, <1>6, <1>16
    <3>3. target = (IF p + Len(m) <= 4 THEN p + Len(m) ELSE 4)
      BY <1>t, <3>1, <3>2 DEF Lesser
    <3>4. again = target + Len(m)
      <4>1. again = moved
        BY <1>a, <2>1
      <4>2. target \in 3..4
        BY <1>16, <3>2, <3>3
      <4>3. CASE Len(m) = 1
        BY <1>v, <3>2, <4>1, <4>2, <4>3
      <4>4. CASE Len(m) = 0
        <5>1. ~(mentorAt >= 0)
          BY <3>2, <4>4
        <5> QED BY <1>v, <4>1, <4>2, <4>4, <5>1
      <4> QED BY <3>2, <4>3, <4>4
    <3>5. last = (IF again < p + Len(m) THEN again ELSE p + Len(m)) + 1
      BY <1>9, <3>1 DEF Lesser
    <3> QED BY <1>16, <3>1, <3>2, <3>3, <3>4, <3>5
  <2> DEFINE top == Top(p, found)
             rest == Posts(p - r)
  <2>3. top \in Seq(Tiles) /\ rest \in Seq(Tiles) /\ two = top \o rest /\ last = Len(top) + 1
    <3>1. p - r \in Nat
      BY <1>15, <1>16
    <3> QED BY <1>3, <1>15, <1>16, <2>1, <2>2, <3>1
  <2>4. Row(p, found) = (top \o s) \o rest
    BY <1>16, <1>m DEF Row
  <2> HIDE DEF top, rest
  <2> QED BY <1>13, <2>3, <2>4
<1>17. CASE ~(p <= 2) /\ ~(p < 6)
  <2> DEFINE top == Top(p, found)
             a == Posts(2)
             b == Posts(p - 6)
             six == top \o a
             k == matrixAt + 1
  <2>1. /\ r = 4 /\ top \in Seq(Tiles) /\ Len(top) = 4 + Len(m) /\ one = top \o Posts(p - 4)
        /\ p - 6 \in Nat /\ 2 + (p - 6) = p - 4
    <3>1. r = 4
      BY <1>15, <1>17
    <3> QED BY <1>15, <1>17, <3>1
  <2>2. a \in Seq(Tiles) /\ b \in Seq(Tiles) /\ Len(a) = 2
    BY <1>3, <2>1
  <2>3. Posts(p - 4) = a \o b
    <3>1. a \o b = Posts(2 + (p - 6))
      BY <2>1, PostsAdd
    <3> QED BY <2>1, <3>1
  <2>4. mentorAt = (IF Len(m) = 1 THEN 2 ELSE -1) /\ Len(m) \in {0, 1}
    BY <1>2, <1>5, <1>6, <1>17
  <2>5. "matrix" \in found => matrixAt = 6 + Len(m)
    <3>1. Len(one) = p + Len(m)
      BY <1>11
    <3>2. (IF mentorAt >= 0 THEN 7 ELSE 6) = 6 + Len(m)
      <4>1. CASE Len(m) = 1
        BY <2>4, <4>1
      <4>2. CASE Len(m) = 0
        <5>1. ~(mentorAt >= 0)
          BY <2>4, <4>2
        <5> QED BY <4>2, <5>1
      <4> QED BY <2>4, <4>1, <4>2
    <3>3. "matrix" \in found => matrixAt = Lesser(6 + Len(m), p + Len(m))
      BY <1>8, <1>17, <3>1, <3>2
    <3> QED BY <1>17, <2>4, <3>3 DEF Lesser
  <2>r. Row(p, found) = (((top \o s) \o a) \o x) \o b
    BY <1>17, <1>m, <2>1 DEF Row
  <2>6. k = matrixAt + 1
    OBVIOUS
  <2>7. "matrix" \in found => two = InsertAt(one, k, "matrix")
    BY <1>8, <1>17
  <2>s. six = top \o a
    OBVIOUS
  <2> HIDE DEF top, a, b, k, six
  <2>8. six \in Seq(Tiles) /\ Len(six) = 6 + Len(m)
    <3>1. six \in Seq(Tiles) /\ Len(six) = Len(top) + Len(a)
      BY <2>1, <2>2, <2>s, ConcatProperties
    <3> QED BY <2>1, <2>2, <2>4, <3>1
  <2>9. one = six \o b
    <3>1. (top \o a) \o b = top \o (a \o b)
      BY <2>1, <2>2, Regroup
    <3> QED BY <2>1, <2>3, <2>s, <3>1
  <2>10. two = (six \o x) \o b
    <3>1. CASE "matrix" \in found
      <4>1. k = Len(six) + 1 /\ "matrix" \in Cards
        BY <2>4, <2>5, <2>6, <2>8, <3>1 DEF Cards
      <4>2. Placed(six, b, k, "matrix", found) = Then(Then(six, IfFound("matrix", found)), b)
        BY <2>2, <2>8, <4>1, InsertIfFound
      <4> QED BY <1>m, <2>7, <2>9, <3>1, <4>2 DEF Placed, Then
    <3>2. CASE "matrix" \notin found
      <4>1. x = <<>>
        BY <1>m, <3>2 DEF IfFound
      <4>2. six \o <<>> = six
        BY <1>4, <2>8
      <4> QED BY <1>8, <2>9, <3>2, <4>1, <4>2
    <3> QED BY <3>1, <3>2
  <2> DEFINE c == a \o x
             d == c \o b
  <2>11. c \in Seq(Tiles) /\ d \in Seq(Tiles)
    <3>1. c \in Seq(Tiles)
      BY <1>2, <2>2, ConcatProperties
    <3> HIDE DEF c
    <3>2. d \in Seq(Tiles)
      BY <2>2, <3>1, ConcatProperties
    <3> QED BY <3>1, <3>2
  <2>12. two = top \o d
    <3>1. (top \o a) \o x = top \o c
      <4>1. top \in Seq(Tiles) /\ a \in Seq(Tiles) /\ x \in Seq(Tiles)
        BY <1>2, <2>1, <2>2
      <4>2. (top \o a) \o x = top \o (a \o x)
        BY ONLY <4>1, Regroup
      <4> QED BY <4>2
    <3>3. c \in Seq(Tiles)
      BY <2>11
    <3> HIDE DEF c
    <3>2. (top \o c) \o b = top \o (c \o b)
      BY <2>1, <2>2, <3>3, Regroup
    <3> QED BY <2>10, <2>s, <3>1, <3>2
  <2>13. last = Len(top) + 1
    <3>1. Len(two) \in Nat /\ Len(two) >= 4 + Len(m)
      <4> HIDE DEF d
      <4>1. Len(two) = Len(top) + Len(d) /\ Len(d) \in Nat
        BY <2>1, <2>11, <2>12, ConcatProperties, LenProperties
      <4> QED BY <2>1, <2>4, <4>1
    <3>2. target = 4
      <4>1. Len(two) >= 4
        BY <2>4, <3>1
      <4>2. Len(two) \in Nat
        BY <3>1
      <4>3. Lesser(4, Len(two)) = 4
        BY <4>1, <4>2, LesserIsFour
      <4> QED BY <1>t, <4>3
    <3>3. moved = 4 + Len(m)
      <4>1. mentorAt >= 0 /\ mentorAt <= target <=> Len(m) = 1
        BY <2>4, <3>2
      <4> QED BY <1>v, <2>4, <3>2, <4>1
    <3>4. again = moved
      <4>1. matrixAt = -1 \/ matrixAt = 6 + Len(m)
        BY <1>8, <2>5
      <4> QED BY <1>a, <2>4, <3>3, <4>1
    <3>5. last = 4 + Len(m) + 1
      BY <1>9, <2>4, <3>1, <3>3, <3>4 DEF Lesser
    <3> QED BY <2>1, <3>5
  <2>14. WithCards(p, found) = (top \o s) \o d
    <3>1. d \in Seq(Tiles)
      BY <2>11
    <3> HIDE DEF d
    <3> QED BY <1>13, <2>1, <2>12, <2>13, <3>1
  <2>15. (top \o s) \o d = (((top \o s) \o a) \o x) \o b
    <3> DEFINE e == top \o s
               h == e \o a
    <3>1. e \in Seq(Tiles)
      BY <1>2, <2>1, ConcatProperties
    <3>2. c \in Seq(Tiles)
      BY <2>11
    <3> HIDE DEF e
    <3>3. h \in Seq(Tiles)
      BY <2>2, <3>1, ConcatProperties
    <3>4. (e \o a) \o x = e \o c
      <4>1. e \in Seq(Tiles) /\ a \in Seq(Tiles) /\ x \in Seq(Tiles)
        BY <1>2, <2>2, <3>1
      <4>2. (e \o a) \o x = e \o (a \o x)
        BY ONLY <4>1, Regroup
      <4> QED BY <4>2
    <3> HIDE DEF c
    <3>5. (e \o c) \o b = e \o d
      BY <2>2, <3>1, <3>2, Regroup
    <3> QED BY <3>4, <3>5 DEF e
  <2> QED BY <2>r, <2>14, <2>15
<1> QED BY <1>14, <1>16, <1>17

InsightSpec == InsightInit /\ [][InsightNext]_insightVars

Shown == {<<>>} \cup {WithCards(n, found) : n \in Nat, found \in SUBSET Cards}
Asking == [pc : {"asking", "missed"}, posts : Nat, card : Cards, found : SUBSET Cards,
           shown : Shown]
Answered == [pc : {"done"}, posts : Nat, card : {"all"}, found : SUBSET Cards, shown : Shown]
ReaderRows == [Readers -> {[pc |-> "new"]} \cup Asking \cup Answered]
Computing == [pc : {"computed"}, card : Cards]
TaskRows == [Tasks -> {[pc |-> "new"], [pc |-> "done"]} \cup Computing]

InsightsTypeOK ==
    /\ kept \in [Cards -> {"none", "light", "computed"}]
    /\ reader \in ReaderRows
    /\ task \in TaskRows
    /\ raced \in SUBSET Cards
    /\ lost \in SUBSET Cards

\* A page that is answered was put together from the posts and the cards that were found.
PagesFollow ==
    \A r \in Readers :
        reader[r].pc = "done" => reader[r].shown = WithCards(reader[r].posts, reader[r].found)

\* A card that was missed, and is computed now, was set in between.
MissedFits ==
    \A r \in Readers :
        reader[r].pc = "missed" /\ kept[reader[r].card] = "computed" => reader[r].card \in raced

InsightsInv == InsightsTypeOK /\ PagesFollow /\ MissedFits /\ ComputedStays

\* A request that asks for its next card or puts the page together.
LEMMA WentGoesOn ==
  ASSUME InsightsTypeOK, NEW r \in Readers, reader[r].pc \in {"asking", "missed"},
         NEW found \in SUBSET Cards, Went(r, found)
  PROVE  /\ reader' \in ReaderRows
         /\ \A d \in Readers \ {r} : reader'[d] = reader[d]
         /\ reader'[r].pc # "missed"
         /\ reader'[r].pc = "done" =>
               reader'[r].shown = WithCards(reader'[r].posts, reader'[r].found)
<1> DEFINE row == reader[r]
           next == NextCard[row.card]
           page1 == IF next = "all" THEN WithCards(row.posts, found) ELSE <<>>
           new == [row EXCEPT !.pc = IF next = "all" THEN "done" ELSE "asking",
                              !.card = next, !.found = found, !.shown = page1]
<1>1. row \in Asking
  BY DEF InsightsTypeOK, ReaderRows, Answered
<1>2. next \in Cards \cup {"all"}
  BY <1>1 DEF Asking, NextCard, Cards
<1>3. page1 \in Shown /\ (next = "all" => page1 = WithCards(row.posts, found))
  BY <1>1 DEF Shown, Asking
<1>4. reader' = [reader EXCEPT ![r] = new]
  BY DEF Went
<1> HIDE DEF next, page1
<1>5. /\ new.pc = (IF next = "all" THEN "done" ELSE "asking")
      /\ new.posts = row.posts /\ new.found = found /\ new.shown = page1
  BY <1>1 DEF Asking
<1>6. new \in Asking \cup Answered
  <2>1. CASE next = "all"
    BY <1>1, <1>3, <2>1 DEF Asking, Answered
  <2>2. CASE next # "all"
    BY <1>1, <1>2, <1>3, <2>2 DEF Asking
  <2> QED BY <2>1, <2>2
<1> HIDE DEF new
<1>7. /\ reader' \in ReaderRows /\ reader'[r] = new
      /\ \A d \in Readers \ {r} : reader'[d] = reader[d]
  <2> HIDE DEF row
  <2> QED BY <1>4, <1>6 DEF InsightsTypeOK, ReaderRows
<1> QED BY <1>3, <1>5, <1>7

\* Every step keeps what the cards rest on.
LEMMA NextInsightsInv == InsightsInv /\ [InsightNext]_insightVars => InsightsInv'
<1> SUFFICES ASSUME InsightsInv, [InsightNext]_insightVars PROVE InsightsInv'
  OBVIOUS
<1>0. /\ InsightsTypeOK /\ PagesFollow /\ MissedFits /\ ComputedStays
      /\ kept \in [Cards -> {"none", "light", "computed"}] /\ reader \in ReaderRows
      /\ task \in TaskRows /\ raced \in SUBSET Cards /\ lost \in SUBSET Cards
  BY DEF InsightsInv, InsightsTypeOK
<1>r. ASSUME NEW r \in Readers, reader[r].pc \in {"asking", "missed"} PROVE reader[r] \in Asking
  BY <1>0, <1>r DEF ReaderRows, Answered
<1>1. ASSUME NEW t \in Tasks, NEW card \in Cards, Compute(t, card) PROVE InsightsInv'
  <2>1. task' \in TaskRows
    <3> DEFINE new == [pc |-> "computed", card |-> card]
    <3>1. new \in Computing
      BY DEF Computing
    <3>2. task' = [task EXCEPT ![t] = new]
      BY <1>1 DEF Compute
    <3> HIDE DEF new
    <3> QED BY <1>0, <3>1, <3>2 DEF TaskRows
  <2>2. UNCHANGED <<kept, reader, raced, lost>>
    BY <1>1 DEF Compute, history
  <2> QED BY <1>0, <2>1, <2>2 DEF InsightsInv, InsightsTypeOK, PagesFollow, MissedFits,
             ComputedStays
<1>2. ASSUME NEW t \in Tasks, FailTask(t) PROVE InsightsInv'
  <2>1. task' \in TaskRows
    <3>1. task' = [task EXCEPT ![t] = [pc |-> "done"]]
      BY <1>2 DEF FailTask
    <3> QED BY <1>0, <3>1 DEF TaskRows
  <2>2. UNCHANGED <<kept, reader, raced, lost>>
    BY <1>2 DEF FailTask, history
  <2> QED BY <1>0, <2>1, <2>2 DEF InsightsInv, InsightsTypeOK, PagesFollow, MissedFits,
             ComputedStays
<1>3. ASSUME NEW t \in Tasks, SetComputed(t) PROVE InsightsInv'
  <2> DEFINE card == task[t].card
  <2>1. card \in Cards
    BY <1>0, <1>3 DEF SetComputed, TaskRows, Computing
  <2>2. /\ task' = [task EXCEPT ![t] = [pc |-> "done"]]
        /\ kept' = [kept EXCEPT ![card] = "computed"]
        /\ raced' = (IF Missing(card) # {} THEN raced \cup {card} ELSE raced)
        /\ UNCHANGED <<reader, lost>>
    BY <1>3 DEF SetComputed
  <2> HIDE DEF card
  <2>3. task' \in TaskRows
    BY <1>0, <2>2 DEF TaskRows
  <2>4. /\ kept' \in [Cards -> {"none", "light", "computed"}] /\ raced' \in SUBSET Cards
        /\ raced \subseteq raced' /\ \A c \in Cards \ {card} : kept'[c] = kept[c]
    BY <1>0, <2>1, <2>2
  <2>5. MissedFits'
    <3> SUFFICES ASSUME NEW r \in Readers, reader[r].pc = "missed",
                        kept'[reader[r].card] = "computed"
                 PROVE  reader[r].card \in raced'
      BY <2>2 DEF MissedFits
    <3>1. CASE reader[r].card = card
      <4>1. r \in Missing(card)
        BY <3>1 DEF Missing
      <4> QED BY <2>2, <3>1, <4>1
    <3>2. CASE reader[r].card # card
      <4>1. reader[r].card \in Cards
        BY <1>r DEF Asking
      <4> QED BY <1>0, <2>4, <3>2, <4>1 DEF MissedFits
    <3> QED BY <3>1, <3>2
  <2>6. InsightsTypeOK'
    BY <1>0, <2>2, <2>3, <2>4 DEF InsightsTypeOK
  <2> QED BY <1>0, <2>2, <2>4, <2>5, <2>6 DEF InsightsInv, PagesFollow, ComputedStays
<1>4. ASSUME NEW r \in Readers, NEW n \in 0..MaxPage, Open(r, n) PROVE InsightsInv'
  <2> DEFINE there == {c \in Cards : kept[c] # "none"}
             empty == WithCards(0, there)
             whole == [pc |-> "done", posts |-> 0, card |-> "all", found |-> there,
                       shown |-> empty]
             ask == [pc |-> "asking", posts |-> n, card |-> "mentor", found |-> {},
                     shown |-> <<>>]
             new == IF n = 0 THEN whole ELSE ask
  <2>1. reader' = [reader EXCEPT ![r] = new] /\ UNCHANGED <<kept, task, raced, lost>>
    BY <1>4 DEF Open, history
  <2>2. ask \in Asking /\ ask.pc = "asking"
    <3>1. <<>> \in Shown /\ n \in Nat /\ "mentor" \in Cards
      BY InsightsAssumption DEF Shown, Cards
    <3> QED BY <3>1 DEF Asking
  <2>3. /\ whole \in Answered /\ whole.pc = "done"
        /\ whole.shown = WithCards(whole.posts, whole.found)
    <3>1. empty \in Shown /\ there \in SUBSET Cards
      <4>1. there \in SUBSET Cards
        OBVIOUS
      <4> HIDE DEF there
      <4> QED BY <4>1 DEF Shown
    <3>2. whole.pc = "done" /\ whole.shown = empty /\ whole.posts = 0 /\ whole.found = there
      OBVIOUS
    <3>3. empty = WithCards(0, there)
      OBVIOUS
    <3> HIDE DEF empty, there
    <3>4. whole \in Answered
      BY <3>1 DEF Answered
    <3> HIDE DEF whole
    <3> QED BY <3>2, <3>3, <3>4
  <2> HIDE DEF ask, whole
  <2>4. /\ new \in Asking \cup Answered /\ new.pc # "missed"
        /\ new.pc = "done" => new.shown = WithCards(new.posts, new.found)
    BY <2>2, <2>3
  <2> HIDE DEF new
  <2>5. /\ reader' \in ReaderRows /\ reader'[r] = new
        /\ \A d \in Readers \ {r} : reader'[d] = reader[d]
    BY <1>0, <2>1, <2>4 DEF ReaderRows
  <2>6. InsightsTypeOK'
    BY <1>0, <2>1, <2>5 DEF InsightsTypeOK
  <2>7. PagesFollow'
    BY <1>0, <2>4, <2>5 DEF PagesFollow
  <2>8. MissedFits' /\ ComputedStays'
    BY <1>0, <2>1, <2>4, <2>5 DEF MissedFits, ComputedStays
  <2> QED BY <2>6, <2>7, <2>8 DEF InsightsInv
<1>5. ASSUME NEW r \in Readers, Get(r) PROVE InsightsInv'
  <2>1. /\ reader[r].pc = "asking" /\ reader[r] \in Asking
        /\ UNCHANGED <<kept, task, raced, lost>>
    BY <1>5, <1>r DEF Get, history
  <2>2. CASE kept[reader[r].card] # "none"
    <3>1. Went(r, reader[r].found \cup {reader[r].card})
      BY <1>5, <2>2 DEF Get
    <3>2. reader[r].found \cup {reader[r].card} \in SUBSET Cards
      BY <2>1 DEF Asking
    <3>3. /\ reader' \in ReaderRows
          /\ \A d \in Readers \ {r} : reader'[d] = reader[d]
          /\ reader'[r].pc # "missed"
          /\ reader'[r].pc = "done" =>
                reader'[r].shown = WithCards(reader'[r].posts, reader'[r].found)
      BY <1>0, <2>1, <3>1, <3>2, WentGoesOn
    <3>4. InsightsTypeOK'
      BY <1>0, <2>1, <3>3 DEF InsightsTypeOK
    <3>5. PagesFollow'
      BY <1>0, <3>3 DEF PagesFollow
    <3>6. MissedFits' /\ ComputedStays'
      BY <1>0, <2>1, <3>3 DEF MissedFits, ComputedStays
    <3> QED BY <3>4, <3>5, <3>6 DEF InsightsInv
  <2>3. CASE kept[reader[r].card] = "none"
    <3> DEFINE new == [reader[r] EXCEPT !.pc = "missed"]
    <3>1. reader' = [reader EXCEPT ![r] = new]
      BY <1>5, <2>3 DEF Get
    <3>2. new \in Asking /\ new.pc = "missed" /\ new.card = reader[r].card
      BY <2>1 DEF Asking
    <3> HIDE DEF new
    <3>3. /\ reader' \in ReaderRows /\ reader'[r] = new
          /\ \A d \in Readers \ {r} : reader'[d] = reader[d]
      BY <1>0, <3>1, <3>2 DEF ReaderRows
    <3>4. InsightsTypeOK'
      BY <1>0, <2>1, <3>3 DEF InsightsTypeOK
    <3>5. PagesFollow'
      BY <1>0, <3>2, <3>3 DEF PagesFollow
    <3>6. MissedFits' /\ ComputedStays'
      BY <1>0, <2>1, <2>3, <3>2, <3>3 DEF MissedFits, ComputedStays
    <3> QED BY <3>4, <3>5, <3>6 DEF InsightsInv
  <2> QED BY <2>2, <2>3
<1>6. ASSUME NEW r \in Readers, SetLight(r) PROVE InsightsInv'
  <2> DEFINE card == reader[r].card
  <2>1. /\ reader[r].pc = "missed" /\ reader[r] \in Asking /\ card \in Cards
        /\ card = reader[r].card
    BY <1>6, <1>r DEF SetLight, Asking
  <2>2. /\ kept' = [kept EXCEPT ![card] = "light"]
        /\ lost' = (IF kept[card] = "computed" THEN lost \cup {card} ELSE lost)
        /\ Went(r, reader[r].found \cup {card}) /\ UNCHANGED <<task, raced>>
    BY <1>6 DEF SetLight
  <2> HIDE DEF card
  <2>3. reader[r].found \cup {card} \in SUBSET Cards
    BY <2>1 DEF Asking
  <2>4. /\ reader' \in ReaderRows
        /\ \A d \in Readers \ {r} : reader'[d] = reader[d]
        /\ reader'[r].pc # "missed"
        /\ reader'[r].pc = "done" =>
              reader'[r].shown = WithCards(reader'[r].posts, reader'[r].found)
    BY <1>0, <2>1, <2>2, <2>3, WentGoesOn
  <2>5. /\ kept' \in [Cards -> {"none", "light", "computed"}] /\ lost' \in SUBSET Cards
        /\ \A c \in Cards : kept'[c] = "computed" => kept[c] = "computed"
    BY <1>0, <2>1, <2>2
  <2>6. InsightsTypeOK'
    BY <1>0, <2>2, <2>4, <2>5 DEF InsightsTypeOK
  <2>7. PagesFollow'
    BY <1>0, <2>4 DEF PagesFollow
  <2>8. MissedFits'
    <3> SUFFICES ASSUME NEW d \in Readers, reader'[d].pc = "missed",
                        kept'[reader'[d].card] = "computed"
                 PROVE  reader'[d].card \in raced'
      BY DEF MissedFits
    <3>1. reader'[d] = reader[d]
      BY <2>4
    <3>2. reader[d].card \in Cards
      BY <1>r, <3>1 DEF Asking
    <3> QED BY <1>0, <2>2, <2>5, <3>1, <3>2 DEF MissedFits
  <2>9. ComputedStays'
    BY <1>0, <2>1, <2>2 DEF MissedFits, ComputedStays
  <2> QED BY <2>6, <2>7, <2>8, <2>9 DEF InsightsInv
<1>7. ASSUME NEW r \in Readers, FailCard(r) PROVE InsightsInv'
  <2>1. /\ reader[r].pc = "missed" /\ reader[r] \in Asking
        /\ UNCHANGED <<kept, task, raced, lost>> /\ Went(r, reader[r].found)
    BY <1>7, <1>r DEF FailCard, history
  <2>2. reader[r].found \in SUBSET Cards
    BY <2>1 DEF Asking
  <2>3. /\ reader' \in ReaderRows
        /\ \A d \in Readers \ {r} : reader'[d] = reader[d]
        /\ reader'[r].pc # "missed"
        /\ reader'[r].pc = "done" =>
              reader'[r].shown = WithCards(reader'[r].posts, reader'[r].found)
    BY <1>0, <2>1, <2>2, WentGoesOn
  <2>4. InsightsTypeOK'
    BY <1>0, <2>1, <2>3 DEF InsightsTypeOK
  <2>5. PagesFollow'
    BY <1>0, <2>3 DEF PagesFollow
  <2>6. MissedFits' /\ ComputedStays'
    BY <1>0, <2>1, <2>3 DEF MissedFits, ComputedStays
  <2> QED BY <2>4, <2>5, <2>6 DEF InsightsInv
<1>8. CASE UNCHANGED insightVars
  BY <1>0, <1>8 DEF insightVars, history, InsightsInv, InsightsTypeOK, PagesFollow, MissedFits,
     ComputedStays
<1> QED BY <1>1, <1>2, <1>3, <1>4, <1>5, <1>6, <1>7, <1>8 DEF InsightNext

\* Nobody has asked, and no card is kept, at first.
LEMMA InitInsightsInv == InsightInit => InsightsInv
<1> SUFFICES ASSUME InsightInit PROVE InsightsInv
  OBVIOUS
<1> USE DEF InsightInit
<1>1. kept \in [Cards -> {"none", "light", "computed"}] /\ \A c \in Cards : kept[c] = "none"
  OBVIOUS
<1>2. reader \in ReaderRows /\ \A r \in Readers : reader[r].pc = "new"
  BY DEF ReaderRows
<1>3. task \in TaskRows
  BY DEF TaskRows
<1>4. raced \in SUBSET Cards /\ lost \in SUBSET Cards /\ lost = {}
  OBVIOUS
<1> QED BY <1>1, <1>2, <1>3, <1>4 DEF InsightsInv, InsightsTypeOK, PagesFollow, MissedFits,
           ComputedStays

\* A page that follows from what was found has its cards in their places.
LEMMA AnsweredInPlace == InsightsInv => CardsAreInPlace
<1> SUFFICES ASSUME InsightsInv, NEW r \in Readers, reader[r].pc = "done"
             PROVE  reader[r].shown =
                       Show(reader[r].posts, Fitting(reader[r].posts, reader[r].found),
                            Places(reader[r].posts))
  BY DEF CardsAreInPlace, Fitting, Places
<1>1. reader[r].posts \in Nat /\ reader[r].found \in SUBSET Cards
  BY DEF InsightsInv, InsightsTypeOK, ReaderRows, Asking, Answered
<1>2. reader[r].shown = WithCards(reader[r].posts, reader[r].found)
  BY DEF InsightsInv, PagesFollow
<1> QED BY <1>1, <1>2, ShowIs, WithCardsIs

\* Every card of a page stands behind as many posts as it should, and a computed card is
\* replaced by a light one only when requests and tasks overlapped (apps/feed/composer.py): for
\* any number of requests and of tasks, and any length of page.
THEOREM CardsStayRight == InsightSpec => []CardsAreRight
<1>1. InsightsInv => CardsAreRight
  BY AnsweredInPlace DEF InsightsInv, CardsAreRight
<1> QED BY <1>1, InitInsightsInv, NextInsightsInv, PTL DEF InsightSpec

=============================================================================
