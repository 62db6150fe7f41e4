------------------------------- MODULE MCIdGen -------------------------------
(***************************************************************************)
(* Small instances of IdGen for TLC: every process has node 1.             *)
(***************************************************************************)
EXTENDS IdGen, TLC

CONSTANTS t1, t2, t3, api, celery

TwoProcesses == t1 :> api @@ t2 :> api @@ t3 :> celery
MCNode == [p \in Processes |-> 1]

=============================================================================
