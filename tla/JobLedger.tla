------------------------------ MODULE JobLedger ------------------------------
(***************************************************************************)
(* What the control plane promises about the ingestion jobs of one paper   *)
(* version, whatever runs concurrently: the first job opens the ledger, the*)
(* active job is moved between settled statuses, and a job that failed is  *)
(* closed for good in the same step that opens its successor.  A reader    *)
(* therefore finds no job or exactly one active job, never a gap.          *)
(***************************************************************************)
EXTENDS IngestionStateMachine

CONSTANTS JobId, None

VARIABLE jobs

\* A status a finished request may leave behind: an in-progress status of a
\* stage is never left behind, except GRAPH_INDEXING, where extraction stops.
Settled == {"DOWNLOADED", "PARSED", "CHUNKED", "VECTOR_INDEXED",
            "GRAPH_INDEXING", "GRAPH_INDEXED"}

Init == jobs = [j \in JobId |-> None]

\* The first job of the version appears, already moved on by its request.
Open(j, s) ==
    /\ \A k \in JobId : jobs[k] = None
    /\ jobs' = [jobs EXCEPT ![j] = s]

\* The active job's status is rewritten.
Move(j, s) ==
    /\ jobs[j] \in Settled
    /\ jobs' = [jobs EXCEPT ![j] = s]

\* The active job fails and its successor opens, in one step.
Replace(i, j, s) ==
    /\ jobs[i] \in Settled
    /\ jobs[j] = None
    /\ jobs' = [jobs EXCEPT ![i] = "FAILED", ![j] = s]

Next ==
    \E j \in JobId, s \in Settled :
        \/ Open(j, s)
        \/ Move(j, s)
        \/ \E i \in JobId : Replace(i, j, s)

Spec == Init /\ [][Next]_jobs
==============================================================================
