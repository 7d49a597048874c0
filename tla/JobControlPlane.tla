--------------------------- MODULE JobControlPlane ---------------------------
(***************************************************************************)
(* The operational control plane of ingestion: the rows of ingestion_jobs  *)
(* for one paper version, and the six stage requests (ingest, parse, chunk,*)
(* vector-index, extract-graph, graph-index) that drive them concurrently. *)
(*                                                                         *)
(* A request is one HTTP call, run in a thread of its own with one session *)
(* and ONE database transaction: the repositories only flush, the session  *)
(* commits when the endpoint returns and rolls back when it raises         *)
(* (get_db_session).  PostgreSQL is modelled at READ COMMITTED:            *)
(*   - a SELECT sees the committed rows and the transaction's own writes;  *)
(*     the session keeps no row between calls (its identity map is weak),  *)
(*     so session.get reads again, but a service keeps the domain object   *)
(*     of its last call (snap below);                                      *)
(*   - an UPDATE waits for the transaction that holds the row's lock, then *)
(*     overwrites whatever that transaction committed: no version check;   *)
(*   - the partial unique index over the active rows makes an INSERT or an *)
(*     UPDATE wait for a transaction that may still take or free the slot, *)
(*     and raises IntegrityError when the slot is taken for good;          *)
(*   - a cycle of waiting transactions is broken by aborting one of them.  *)
(* What a stage finds on disk or in Qdrant/Neo4j is abstracted: an         *)
(* artifact once written, which no rollback takes back, may at any later   *)
(* time be valid (reuse) or lost, corrupt or stale (redo), and the work    *)
(* may be done or raise.  Step rows and diagnostic columns decide nothing  *)
(* here and are left out.  Each mutant stands before the definition it is  *)
(* a broken form of; none is used by the specification.                    *)
(***************************************************************************)
EXTENDS IngestionStateMachine

CONSTANTS Request,   \* the request threads
          JobId,     \* ids build_ingestion_job_id can return (bounds the jobs)
          Op,        \* the endpoints in use
          None       \* no row, no write, nobody

Operations == {"INGEST", "PARSE", "CHUNK", "VECTOR_INDEX", "EXTRACT_GRAPH", "GRAPH_INDEX"}

ASSUME OpAssumption == Op \subseteq Operations
ASSUME NoneAssumption == None \notin Request \cup JobId \cup Status \cup Operations

VARIABLES
    jobs,         \* [JobId -> status of the committed row, or None]
    writes,       \* [Request -> [JobId -> uncommitted status, or None]]
    versionLock,  \* the request whose transaction updated the paper_versions row
    req,          \* [Request -> local state of the request's thread]
    stored        \* the operations whose artifact was written at least once

vars == <<jobs, writes, versionLock, req, stored>>

-----------------------------------------------------------------------------
(* The six services as one table. *)

\* The status a stage moves the job to before its external work, and after.
Busy == [INGEST        |-> "DOWNLOADING",
         PARSE         |-> "PARSING",
         CHUNK         |-> "CHUNKING",
         VECTOR_INDEX  |-> "VECTOR_INDEXING",
         EXTRACT_GRAPH |-> "GRAPH_INDEXING",
         GRAPH_INDEX   |-> "GRAPH_INDEXING"]

Done == [INGEST        |-> "DOWNLOADED",
         PARSE         |-> "PARSED",
         CHUNK         |-> "CHUNKED",
         VECTOR_INDEX  |-> "VECTOR_INDEXED",
         EXTRACT_GRAPH |-> "GRAPH_INDEXING",
         GRAPH_INDEX   |-> "GRAPH_INDEXED"]

\* The statuses for which a missing or stale artifact closes the job as failed
\* and opens a new one.  Ingest and parse compare with one status only.
ClaimsDone ==
    [INGEST        |-> {"DOWNLOADED"},
     PARSE         |-> {"PARSED"},
     CHUNK         |-> {"CHUNKED", "VECTOR_INDEXING", "VECTOR_INDEXED",
                        "GRAPH_INDEXING", "GRAPH_INDEXED"},
     VECTOR_INDEX  |-> {"VECTOR_INDEXED", "GRAPH_INDEXING", "GRAPH_INDEXED"},
     EXTRACT_GRAPH |-> {"GRAPH_INDEXING", "GRAPH_INDEXED"},
     GRAPH_INDEX   |-> {"GRAPH_INDEXED"}]

\* Mutant: chunking returns without its last transition.
FinishWithoutTransition ==
    [INGEST |-> "ensure", PARSE |-> "transition", CHUNK |-> "commit",
     VECTOR_INDEX |-> "transition", EXTRACT_GRAPH |-> "commit", GRAPH_INDEX |-> "transition"]

\* How the job is moved to Done after the work: _advance_job_to_downloaded
\* skips what is behind the job, a bare transition_job_status does not, and
\* extraction leaves the job where it is.
Finish == [INGEST        |-> "ensure",
           PARSE         |-> "transition",
           CHUNK         |-> "transition",
           VECTOR_INDEX  |-> "transition",
           EXTRACT_GRAPH |-> "commit",
           GRAPH_INDEX   |-> "transition"]

\* Whose artifact a stage validates before anything else; ingest needs none,
\* and extraction needs the chunks only, not the vectors.
Upstream == [INGEST        |-> {},
             PARSE         |-> {"INGEST"},
             CHUNK         |-> {"PARSE"},
             VECTOR_INDEX  |-> {"CHUNK"},
             EXTRACT_GRAPH |-> {"CHUNK"},
             GRAPH_INDEX   |-> {"EXTRACT_GRAPH"}]

-----------------------------------------------------------------------------
(* Rows as a transaction sees them. *)

View(r, j) == IF writes[r][j] # None THEN writes[r][j] ELSE jobs[j]

\* get_active_job_for_version
VisibleActive(r) == {j \in JobId : View(r, j) \in ActiveStatus}

\* s holds the lock of row j: it wrote the row and has not ended.
Holds(s, j) == writes[s][j] # None

RowFree(r, j) == \A s \in Request \ {r} : ~Holds(s, j)

\* s may still take or free the version's slot in the partial unique index.
SlotPending(r, s) ==
    \E k \in JobId : Holds(s, k) /\ (jobs[k] \in ActiveStatus \/ writes[s][k] \in ActiveStatus)
SlotFree(r) == \A s \in Request \ {r} : ~SlotPending(r, s)

\* Mutant: the index is missing.
SlotTakenNever(r, j) == FALSE

\* A row other than j that is active to this transaction: the unique index
\* rejects a second one.
SlotTaken(r, j) == \E k \in JobId \ {j} : View(r, k) \in ActiveStatus

UnusedId(j) == jobs[j] = None /\ \A s \in Request : writes[s][j] = None

-----------------------------------------------------------------------------
(* The local state of a request. pc names the next call of the service:      *)
(*   create, insert, reselect   create_ingestion_job                         *)
(*   reconcile                  _reconcile_existing_*                        *)
(*   failRead, failWrite        mark_job_failed: session.get, then UPDATE    *)
(*   ensure, ensureWrite        the chain of transitions of _ensure_job_at_* *)
(*   work                       download, parse, chunk, embed, extract, graph*)
(*   version                    update_version_*                             *)
(*   transition                 the bare transition_job_status at the end    *)
(*   commit, abort, failed      leaving: return, raise, raise after failing  *)
PC == {"idle", "create", "insert", "reselect", "reconcile", "failRead", "failWrite",
       "ensure", "ensureWrite", "work", "version", "transition", "commit",
       "illegal", "abort", "failed"}

Idle == [pc |-> "idle", op |-> None, job |-> None, snap |-> None, mode |-> None]

\* mode: the first pass ("first"), redoing after closing a stale job
\* ("recreate") or not ("redo"), reusing ("reuse"), finishing ("finish"),
\* and failing ("fail").
Mode == {"first", "recreate", "redo", "reuse", "finish", "fail"}

\* The status the current chain of transitions leads to.
Target(q) == IF q.mode \in {"recreate", "redo"} THEN Busy[q.op] ELSE Done[q.op]

Goto(r, pc) == req' = [req EXCEPT ![r].pc = pc]

Init ==
    /\ jobs = [j \in JobId |-> None]
    /\ writes = [r \in Request |-> [j \in JobId |-> None]]
    /\ versionLock = None
    /\ req = [r \in Request |-> Idle]
    /\ stored = {}

\* A request passed the checks that touch no job: paper and version resolved,
\* upstream artifact valid.  One that fails them raises without a trace.
Begin(r) ==
    /\ req[r].pc = "idle"
    /\ \E op \in Op :
        /\ Upstream[op] \subseteq stored
        /\ req' = [req EXCEPT ![r] = [Idle EXCEPT !.pc = "create", !.op = op, !.mode = "first"]]
    /\ UNCHANGED <<jobs, writes, versionLock, stored>>

\* create_ingestion_job returned a job: on the first pass reconcile with it,
\* on the second move the fresh job on towards the work.
Obtained(r, j, s) ==
    LET next == IF req[r].mode = "first" THEN "reconcile" ELSE "ensure" IN
    req' = [req EXCEPT ![r] = [@ EXCEPT !.job = j, !.snap = s, !.pc = next]]

\* create_ingestion_job, lines 108-110: reuse the active job, if one is visible.
CreateSelect(r) ==
    /\ req[r].pc = "create"
    /\ \/ \E j \in VisibleActive(r) : Obtained(r, j, View(r, j))
       \/ VisibleActive(r) = {} /\ Goto(r, "insert")
    /\ UNCHANGED <<jobs, writes, versionLock, stored>>

\* create_ingestion_job, lines 112-125: insert under a savepoint.
CreateInsert(r) ==
    /\ req[r].pc = "insert"
    /\ SlotFree(r)
    /\ ~SlotTaken(r, None)
    /\ \E j \in JobId :
        /\ UnusedId(j)
        /\ writes' = [writes EXCEPT ![r][j] = "DISCOVERED"]
        /\ Obtained(r, j, "DISCOVERED")
    /\ UNCHANGED <<jobs, versionLock, stored>>

\* The bound: no id is left, the request gives up.
NoIdLeft(r) ==
    /\ req[r].pc = "insert"
    /\ ~ \E j \in JobId : UnusedId(j)
    /\ Goto(r, "abort")
    /\ UNCHANGED <<jobs, writes, versionLock, stored>>

\* create_ingestion_job, line 126: the unique index rejected the insert.
CreateLost(r) ==
    /\ req[r].pc = "insert"
    /\ SlotFree(r)
    /\ SlotTaken(r, None)
    /\ Goto(r, "reselect")
    /\ UNCHANGED <<jobs, writes, versionLock, stored>>

\* create_ingestion_job, lines 130-133: return the job that won, else re-raise.
CreateReselect(r) ==
    /\ req[r].pc = "reselect"
    /\ \/ \E j \in VisibleActive(r) : Obtained(r, j, View(r, j))
       \/ VisibleActive(r) = {} /\ Goto(r, "abort")
    /\ UNCHANGED <<jobs, writes, versionLock, stored>>

\* _reconcile_existing_*: the artifact is valid and current.
ReconcileReuse(r) ==
    /\ req[r].pc = "reconcile"
    /\ req[r].op \in stored
    /\ req' = [req EXCEPT ![r] = [@ EXCEPT !.pc = "version", !.mode = "reuse"]]
    /\ UNCHANGED <<jobs, writes, versionLock, stored>>

\* _reconcile_existing_*: the artifact is missing, corrupt or stale.  A job that
\* claims the stage done is closed first (_recreate_job_if_stale*).
ReconcileRedo(r) ==
    /\ req[r].pc = "reconcile"
    /\ \/ /\ req[r].snap \in ClaimsDone[req[r].op]
          /\ req' = [req EXCEPT ![r] = [@ EXCEPT !.pc = "failRead", !.mode = "recreate"]]
       \/ /\ req[r].snap \notin ClaimsDone[req[r].op]
          /\ req' = [req EXCEPT ![r] = [@ EXCEPT !.pc = "ensure", !.mode = "redo"]]
    /\ UNCHANGED <<jobs, writes, versionLock, stored>>

\* mark_job_failed, lines 171-176: read the row, validate active -> FAILED.
FailRead(r) ==
    /\ req[r].pc = "failRead"
    /\ Goto(r, IF CanTransition(View(r, req[r].job), "FAILED") THEN "failWrite" ELSE "illegal")
    /\ UNCHANGED <<jobs, writes, versionLock, stored>>

\* Mutant: a status string that is not in IngestionStatus.
FailWriteOtherStatus(r) ==
    /\ req[r].pc = "failWrite"
    /\ RowFree(r, req[r].job)
    /\ writes' = [writes EXCEPT ![r][req[r].job] = "ERROR"]
    /\ Goto(r, IF req[r].mode = "recreate" THEN "create" ELSE "failed")
    /\ UNCHANGED <<jobs, versionLock, stored>>

\* mark_job_failed, lines 178-186: the UPDATE.  In _recreate_job_if_stale* a new
\* job is created next; in the `except` of the work the exception is re-raised.
FailWrite(r) ==
    /\ req[r].pc = "failWrite"
    /\ RowFree(r, req[r].job)
    /\ writes' = [writes EXCEPT ![r][req[r].job] = "FAILED"]
    /\ Goto(r, IF req[r].mode = "recreate" THEN "create" ELSE "failed")
    /\ UNCHANGED <<jobs, versionLock, stored>>

\* _ensure_job_at_* / _advance_job_to_*: nothing to do once the job is there;
\* otherwise transition_job_status reads the row again and validates the step.
\* A redo goes on to the work, a reuse or a finished ingest to the commit.
EnsureRead(r) ==
    LET q == req[r] IN
    /\ q.pc = "ensure"
    /\ Goto(r, IF ~Before(q.snap, Target(q))
               THEN IF q.mode \in {"recreate", "redo"} THEN "work" ELSE "commit"
               ELSE IF CanTransition(View(r, q.job), LinearNext(q.snap))
                    THEN "ensureWrite" ELSE "illegal")
    /\ UNCHANGED <<jobs, writes, versionLock, stored>>

\* The UPDATE: it waits for the row and for the slot of the unique index; from
\* here the row is locked and the rest of the chain is this transaction's own.
UpdateWaits(r) == ~RowFree(r, req[r].job) \/ ~SlotFree(r)

\* Mutant: the index covers INSERTs only, a closed job can be moved again.
EnsureWriteUnchecked(r) ==
    LET q == req[r] IN
    /\ q.pc = "ensureWrite"
    /\ ~UpdateWaits(r)
    /\ writes' = [writes EXCEPT ![r][q.job] = Target(q)]
    /\ req' = [req EXCEPT ![r] = [@ EXCEPT !.snap = Target(q), !.pc = "ensure"]]
    /\ UNCHANGED <<jobs, versionLock, stored>>

EnsureWrite(r) ==
    LET q == req[r] IN
    /\ q.pc = "ensureWrite"
    /\ ~UpdateWaits(r)
    /\ ~SlotTaken(r, q.job)
    /\ writes' = [writes EXCEPT ![r][q.job] = Target(q)]
    /\ req' = [req EXCEPT ![r] = [@ EXCEPT !.snap = Target(q), !.pc = "ensure"]]
    /\ UNCHANGED <<jobs, versionLock, stored>>

\* The UPDATE would make a second active row: IntegrityError.
EnsureRejected(r) ==
    /\ req[r].pc = "ensureWrite"
    /\ ~UpdateWaits(r)
    /\ SlotTaken(r, req[r].job)
    /\ Goto(r, "abort")
    /\ UNCHANGED <<jobs, writes, versionLock, stored>>

\* The external work and the write of its artifact succeeded.
WorkDone(r) ==
    /\ req[r].pc = "work"
    /\ req' = [req EXCEPT ![r] = [@ EXCEPT !.pc = "version", !.mode = "finish"]]
    /\ stored' = stored \cup {req[r].op}
    /\ UNCHANGED <<jobs, writes, versionLock>>

\* It raised: the `except` records the failure before re-raising.
WorkFails(r) ==
    /\ req[r].pc = "work"
    /\ req' = [req EXCEPT ![r] = [@ EXCEPT !.pc = "failRead", !.mode = "fail"]]
    /\ UNCHANGED <<jobs, writes, versionLock, stored>>

\* update_version_*: locks the paper_versions row, unless (reuse only) the row
\* already holds every value and the flush has nothing to emit.
UpdateVersion(r) ==
    LET q == req[r] IN
    /\ q.pc = "version"
    /\ \/ versionLock \in {None, r} /\ versionLock' = r
       \/ q.mode = "reuse" /\ versionLock' = versionLock
    /\ Goto(r, IF q.mode = "reuse" THEN "ensure" ELSE Finish[q.op])
    /\ UNCHANGED <<jobs, writes, stored>>

\* The bare transition_job_status(Done) after the work.
Transition(r) ==
    LET q == req[r] IN
    /\ q.pc = "transition"
    /\ Goto(r, IF CanTransition(View(r, q.job), Done[q.op]) THEN "ensureWrite" ELSE "illegal")
    /\ UNCHANGED <<jobs, writes, versionLock, stored>>

\* The endpoint returned: the session commits.
Commit(r) ==
    /\ req[r].pc = "commit"
    /\ jobs' = [j \in JobId |-> View(r, j)]
    /\ writes' = [writes EXCEPT ![r] = [j \in JobId |-> None]]
    /\ versionLock' = IF versionLock = r THEN None ELSE versionLock
    /\ req' = [req EXCEPT ![r] = Idle]
    /\ UNCHANGED stored

\* Mutant: the session is not closed, its locks stay.
RollbackLeavesLocks(r) ==
    /\ req' = [req EXCEPT ![r] = Idle]
    /\ UNCHANGED <<jobs, writes, versionLock, stored>>

\* The session rolls back and closes.
RollbackSession(r) ==
    /\ UNCHANGED jobs
    /\ writes' = [writes EXCEPT ![r] = [j \in JobId |-> None]]
    /\ versionLock' = IF versionLock = r THEN None ELSE versionLock
    /\ req' = [req EXCEPT ![r] = Idle]
    /\ UNCHANGED stored

\* Mutant: a recorded failure is committed before the exception goes on.
RaiseCommitsFailure(r) ==
    /\ req[r].pc \in {"illegal", "abort", "failed"}
    /\ jobs' = IF req[r].pc = "failed" THEN [j \in JobId |-> View(r, j)] ELSE jobs
    /\ writes' = [writes EXCEPT ![r] = [j \in JobId |-> None]]
    /\ versionLock' = IF versionLock = r THEN None ELSE versionLock
    /\ req' = [req EXCEPT ![r] = Idle]
    /\ UNCHANGED stored

\* An exception left the endpoint.
Raise(r) == req[r].pc \in {"illegal", "abort", "failed"} /\ RollbackSession(r)

\* The process dies or the connection is lost anywhere before the commit.
Crash(r) == req[r].pc # "idle" /\ RollbackSession(r)

\* r's next statement waits for s to end.
WaitsFor(r, s) ==
    /\ s # r
    /\ \/ req[r].pc \in {"failWrite", "ensureWrite"} /\ Holds(s, req[r].job)
       \/ req[r].pc \in {"insert", "ensureWrite"} /\ SlotPending(r, s)
       \/ req[r].pc = "version" /\ versionLock = s

\* The deadlock detector aborts a transaction of a cycle.
DeadlockVictim(r) ==
    /\ \E cycle \in SUBSET Request :
        /\ r \in cycle
        /\ \A p \in cycle : \E q \in cycle : WaitsFor(p, q)
        /\ \A q \in cycle : \E p \in cycle : WaitsFor(p, q)
    /\ RollbackSession(r)

Step(r) ==
    \/ CreateSelect(r) \/ CreateInsert(r) \/ NoIdLeft(r) \/ CreateLost(r) \/ CreateReselect(r)
    \/ ReconcileReuse(r) \/ ReconcileRedo(r) \/ FailRead(r) \/ FailWrite(r)
    \/ EnsureRead(r) \/ EnsureWrite(r) \/ EnsureRejected(r)
    \/ WorkDone(r) \/ WorkFails(r) \/ UpdateVersion(r) \/ Transition(r)
    \/ Commit(r) \/ Raise(r) \/ DeadlockVictim(r)

Next == \E r \in Request : Begin(r) \/ Step(r) \/ Crash(r)

Spec == Init /\ [][Next]_vars

-----------------------------------------------------------------------------
LocalState ==
    [pc : PC, op : Operations \cup {None}, job : JobId \cup {None},
     snap : Status \cup {None}, mode : Mode \cup {None}]

\* Every row holds an IngestionStatus and every request is at a known call.
TypeOK ==
    /\ jobs \in [JobId -> Status \cup {None}]
    /\ writes \in [Request -> [JobId -> Status \cup {None}]]
    /\ versionLock \in Request \cup {None}
    /\ req \in [Request -> LocalState]
    /\ stored \subseteq Operations

\* At most one job of the version is active, whatever the requests interleave:
\* what uq_ingestion_jobs_one_active_per_version and the select-insert-reselect of
\* create_ingestion_job are for.
OneActiveJob ==
    \A j, k \in JobId : jobs[j] \in ActiveStatus /\ jobs[k] \in ActiveStatus => j = k

\* Once the version has a job it never stands without an active one: closing a
\* stale job and opening its successor are one transaction, and no failure of a
\* stage is committed (see FailureIsRecorded).
ActiveJobRemains ==
    (\E j \in JobId : jobs[j] # None) => \E k \in JobId : jobs[k] \in ActiveStatus

\* create_ingestion_job, lines 130-133: after an IntegrityError the winner is
\* there to be returned; its bare `raise` is never reached.
LostRaceFindsWinner ==
    \A r \in Request : req[r].pc = "reselect" => VisibleActive(r) # {}

\* FAILED is terminal for the committed row, even against a request that read
\* the row while it was active and writes it after it was closed.
FailedIsFinal ==
    [][\A j \in JobId : jobs[j] = "FAILED" => jobs'[j] = "FAILED"]_vars

\* The rows change only as the ledger of JobLedger says: readers never see an
\* in-progress status or a gap between a closed job and its successor.
Ledger == INSTANCE JobLedger
ImplementsLedger == Ledger!Spec

\* The server's threads are scheduled, external calls return or time out, and
\* PostgreSQL grants a lock to its waiters in turn.
Fairness == \A r \in Request : SF_vars(Step(r))
FairSpec == Spec /\ Fairness

\* Every request ends: with row locks, the version lock and the unique index all
\* waited for in different orders, no request waits forever.
EveryRequestEnds == \A r \in Request : req[r].pc # "idle" ~> req[r].pc = "idle"

\* A committed active job never falls back to an earlier stage.  main.py calls a
\* stale concurrent request a state-machine conflict; the code overwrites the
\* row a concurrent request has advanced since it was read.
StatusNeverMovesBack ==
    [][\A j \in JobId : jobs[j] \in ActiveStatus /\ jobs'[j] \in ActiveStatus
                          => ~Before(jobs'[j], jobs[j])]_vars

\* A request never asks for a transition the rules reject.  With one request at a
\* time the later stages keep this; redoing the parse of a job past PARSED does not.
NoIllegalTransition == \A r \in Request : req[r].pc # "illegal"

\* When a stage fails and raises, the job it marked failed is FAILED in the
\* database.  The session rolls the mark back with everything else.
FailureIsRecorded ==
    [][\A r \in Request : Raise(r) /\ req[r].pc = "failed"
                            => jobs'[req[r].job] = "FAILED"]_vars
==============================================================================
