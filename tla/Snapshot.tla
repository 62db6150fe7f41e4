------------------------------ MODULE Snapshot ------------------------------
(***************************************************************************)
(* The snapshot of a month of the coin ledger                              *)
(* (apps/coin/services/snapshot.py, the command coin_snapshot_month): the  *)
(* entries of the month are read and hashed, the row is stored under its   *)
(* unique period, then the CSV and its manifest are written to the month's *)
(* directory.  Entries take created_at before their transaction commits.   *)
(* An entry stands for the row the hash and the CSV have of it; a hash is  *)
(* the set of entries it is of.                                            *)
(***************************************************************************)
EXTENDS Integers, FiniteSets

CONSTANTS
    Postings,   \* entries posted to the ledger in this month or the next
    Commands    \* runs of coin_snapshot_month for this month

VARIABLES
    over,       \* the month has ended
    stamp,      \* of each posting: "none", "month" or "after"
    stored,     \* postings that are committed
    command,    \* per command: [pc, dry, entries, ended]
    snapshots,  \* the rows of MonthlyCoinSnapshot, as the commands that stored them
    late,       \* postings of the month that were committed after a command had read
    csv,        \* what the CSV in the directory has: [by, entries]
    manifest    \* what the manifest says of it
snapshotVars == <<over, stamp, stored, command, snapshots, late, csv, manifest>>

NoFile == [by |-> {}, entries |-> {}]

SnapshotInit ==
    /\ over = FALSE
    /\ stamp = [p \in Postings |-> "none"]
    /\ stored = {}
    /\ command = [c \in Commands |-> [pc |-> "new", dry |-> FALSE, entries |-> {}, ended |-> FALSE]]
    /\ snapshots = {}
    /\ late = {}
    /\ csv = NoFile
    /\ manifest = NoFile

Ledger == <<over, stamp, stored, late>>
Files == <<csv, manifest>>
Goes(c, here, there) == command[c].pc = here /\ command' = [command EXCEPT ![c].pc = there]

-----------------------------------------------------------------------------
(***************************************************************************)
(* post_event_and_entries, as the snapshot sees it                         *)
(***************************************************************************)
Stamp(p) ==
    /\ stamp[p] = "none"
    /\ stamp' = [stamp EXCEPT ![p] = IF over THEN "after" ELSE "month"]
    /\ UNCHANGED <<over, stored, command, snapshots, late, Files>>

Commit(p) ==
    /\ stamp[p] # "none" /\ p \notin stored
    /\ stored' = stored \cup {p}
    /\ late' = IF stamp[p] = "month" /\ \E c \in Commands : command[c].pc # "new"
               THEN late \cup {p} ELSE late
    /\ UNCHANGED <<over, stamp, command, snapshots, Files>>

EndMonth ==
    /\ ~over
    /\ over' = TRUE
    /\ UNCHANGED <<stamp, stored, command, snapshots, late, Files>>

-----------------------------------------------------------------------------
(***************************************************************************)
(* generate_monthly_coin_snapshot and the command around it                *)
(***************************************************************************)
InMonth == {p \in stored : stamp[p] = "month"}

ReadMonth(c, dry) ==
    /\ command[c].pc = "new"
    /\ command' = [command EXCEPT ![c] =
                     [pc |-> IF dry THEN "writing" ELSE "checking", dry |-> dry,
                      entries |-> InMonth, ended |-> over]]
    /\ UNCHANGED <<Ledger, snapshots, Files>>

\* Mistake: an existing snapshot is taken for the command's own.
CheckOrGoOn(c) ==
    /\ Goes(c, "checking", IF snapshots = {} THEN "storing" ELSE "writing")
    /\ UNCHANGED <<Ledger, snapshots, Files>>

Check(c) ==
    /\ Goes(c, "checking", IF snapshots = {} THEN "storing" ELSE "failed")
    /\ UNCHANGED <<Ledger, snapshots, Files>>

\* The period is unique: the second of two that have both found none fails.
Store(c) ==
    /\ Goes(c, "storing", IF snapshots = {} THEN "writing" ELSE "failed")
    /\ snapshots' = IF snapshots = {} THEN {c} ELSE snapshots
    /\ UNCHANGED <<Ledger, Files>>

WriteCsv(c) ==
    /\ Goes(c, "writing", "written")
    /\ csv' = [by |-> {c}, entries |-> command[c].entries]
    /\ UNCHANGED <<Ledger, snapshots, manifest>>

WriteManifest(c) ==
    /\ Goes(c, "written", "done")
    /\ manifest' = [by |-> {c}, entries |-> command[c].entries]
    /\ UNCHANGED <<Ledger, snapshots, csv>>

Kill(c) ==
    /\ command[c].pc \notin {"new", "done", "failed", "killed"}
    /\ command' = [command EXCEPT ![c].pc = "killed"]
    /\ UNCHANGED <<Ledger, snapshots, Files>>

SnapshotNext ==
    \/ \E p \in Postings : Stamp(p) \/ Commit(p)
    \/ EndMonth
    \/ \E c \in Commands :
          \/ \E dry \in BOOLEAN : ReadMonth(c, dry)
          \/ Check(c) \/ Store(c) \/ WriteCsv(c) \/ WriteManifest(c) \/ Kill(c)

-----------------------------------------------------------------------------
\* A snapshot taken after the end of its month lacks only entries that were stamped in
\* the month and not committed when it read them; without dry runs and killed commands
\* the files beside it are the ones it is the hash of.
SnapshotIsComplete ==
    \A s \in snapshots :
        /\ command[s].ended => InMonth \ command[s].entries \subseteq late
        /\ (\A c \in Commands : command[c].pc \in {"new", "done", "failed"} /\ ~command[c].dry)
              => csv.entries = command[s].entries /\ manifest = csv

=============================================================================
