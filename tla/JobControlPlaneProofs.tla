------------------------ MODULE JobControlPlaneProofs ------------------------
(***************************************************************************)
(* Proofs about JobControlPlane, for every set of requests, job ids and    *)
(* operations.  The argument:                                              *)
(*   - a row that another transaction wrote cannot be written (RowLocks),  *)
(*     and the slot of the partial unique index is waited for, so no two   *)
(*     transactions hold an uncommitted active status (OneSlotWriter) and  *)
(*     each transaction sees at most one active row (OneActiveInView);     *)
(*     committing a view therefore leaves one active job;                  *)
(*   - a transaction that closes the committed active job is, until it     *)
(*     holds the successor, somewhere from which it cannot commit          *)
(*     (ClosedHasSuccessor); committing therefore never leaves a gap, and  *)
(*     a job closed by somebody else cannot be reopened, because its       *)
(*     successor takes the slot.                                           *)
(***************************************************************************)
EXTENDS JobControlPlane, TLAPS

\* The statuses the program writes: READY is never reached.
WrittenStatus == ActiveStatus \cup {"FAILED"}

\* The calls for which create_ingestion_job has already returned a job.
HasJob == {"reconcile", "failRead", "failWrite", "ensure", "ensureWrite",
           "work", "version", "transition"}

RowsOK ==
    /\ jobs \in [JobId -> WrittenStatus \cup {None}]
    /\ writes \in [Request -> [JobId -> WrittenStatus \cup {None}]]
    /\ versionLock \in Request \cup {None}
    /\ req \in [Request -> LocalState]
    /\ stored \subseteq Operations

RowLocks ==
    \A r, s \in Request : \A j \in JobId :
        writes[r][j] # None /\ writes[s][j] # None => r = s

OneSlotWriter ==
    \A r, s \in Request : \A j, k \in JobId :
        writes[r][j] \in ActiveStatus /\ writes[s][k] \in ActiveStatus => r = s

OneActiveInView ==
    \A r \in Request : \A j, k \in JobId :
        View(r, j) \in ActiveStatus /\ View(r, k) \in ActiveStatus => j = k

HoldsNoActive(r) == \A j \in JobId : writes[r][j] \notin ActiveStatus

LocalOK(r) ==
    /\ req[r].pc \in HasJob => req[r].job \in JobId
    /\ req[r].pc # "idle" => req[r].op \in Operations
    /\ req[r].pc = "idle" => writes[r] = [j \in JobId |-> None]
    /\ req[r].pc \in {"create", "insert", "reselect"} => HoldsNoActive(r)
    /\ \/ req[r].pc = "reconcile" /\ req[r].snap # "DISCOVERED"
       \/ req[r].pc \in {"failRead", "failWrite"} /\ req[r].mode = "recreate"
       => HoldsNoActive(r) /\ jobs[req[r].job] # None
    /\ req[r].pc = "reselect" => \E j \in JobId : jobs[j] # None

\* A FAILED that is not committed yet closes a committed row, unless the request
\* is about to raise.
FailedWasRow(r) ==
    \A j \in JobId : writes[r][j] = "FAILED" => jobs[j] # None \/ req[r].pc = "failed"

\* A request that closed the committed active job either holds its successor or
\* is at a call from which it cannot commit.
ClosedHasSuccessor(r) ==
    \A j \in JobId :
        writes[r][j] = "FAILED" /\ jobs[j] \in ActiveStatus
          => \/ req[r].pc \in {"create", "insert", "abort", "failed"}
             \/ req[r].job \in JobId /\ writes[r][req[r].job] \in ActiveStatus

\* The request writes no active status over a committed FAILED.
FailedStays(r) ==
    \A j \in JobId : jobs[j] = "FAILED" => writes[r][j] \notin ActiveStatus

RequestOK(r) == LocalOK(r) /\ FailedWasRow(r) /\ ClosedHasSuccessor(r) /\ FailedStays(r)

IInv ==
    /\ RowsOK
    /\ RowLocks
    /\ OneSlotWriter
    /\ OneActiveInView
    /\ OneActiveJob
    /\ ActiveJobRemains
    /\ \A r \in Request : RequestOK(r)

-----------------------------------------------------------------------------
\* The statuses the stages write are active; FAILED and None are not.
LEMMA StatusFacts ==
    /\ "DISCOVERED" \in ActiveStatus
    /\ "FAILED" \notin ActiveStatus
    /\ None \notin ActiveStatus
    /\ None \notin JobId
    /\ None # "FAILED"
    /\ WrittenStatus \subseteq Status
    /\ \A op \in Operations : Busy[op] \in ActiveStatus /\ Done[op] \in ActiveStatus
  BY NoneAssumption
     DEF ActiveStatus, TerminalStatus, WrittenStatus, Status, Operations, Busy, Done

\* Before the first request the invariant holds: there is no row and no write.
LEMMA InitInvariant == Init => IInv
<1> SUFFICES ASSUME Init PROVE IInv
  OBVIOUS
<1>1. RowsOK
  BY StatusFacts DEF Init, RowsOK, Idle, LocalState, PC
<1>2. RowLocks /\ OneSlotWriter /\ OneActiveInView /\ OneActiveJob /\ ActiveJobRemains
  BY StatusFacts DEF Init, RowLocks, OneSlotWriter, OneActiveInView, View, OneActiveJob,
                     ActiveJobRemains
<1>3. \A r \in Request : RequestOK(r)
  BY StatusFacts DEF Init, RequestOK, LocalOK, HoldsNoActive, HasJob, FailedWasRow,
                     ClosedHasSuccessor, FailedStays, Idle
<1> QED
  BY <1>1, <1>2, <1>3 DEF IInv

-----------------------------------------------------------------------------
(* Types. *)

\* The request's local state stays well-typed when only its pc changes ...
LEMMA GotoType ==
    ASSUME req \in [Request -> LocalState], NEW r \in Request, NEW pc \in PC, Goto(r, pc)
    PROVE  req' \in [Request -> LocalState]
  BY DEF Goto, LocalState

\* ... when its mode changes too ...
LEMMA ModeType ==
    ASSUME req \in [Request -> LocalState], NEW r \in Request,
           NEW pc \in PC, NEW mode \in Mode,
           req' = [req EXCEPT ![r] = [@ EXCEPT !.pc = pc, !.mode = mode]]
    PROVE  req' \in [Request -> LocalState]
  BY DEF LocalState

\* ... and when create_ingestion_job returns a job.
LEMMA ObtainedType ==
    ASSUME req \in [Request -> LocalState], NEW r \in Request,
           NEW j \in JobId, NEW s \in Status, Obtained(r, j, s)
    PROVE  req' \in [Request -> LocalState]
<1> DEFINE next == IF req[r].mode = "first" THEN "reconcile" ELSE "ensure"
           q == [req[r] EXCEPT !.job = j, !.snap = s, !.pc = next]
<1>1. req[r] \in LocalState
  OBVIOUS
<1>2. next \in PC
  BY DEF PC
<1>3. req' = [req EXCEPT ![r] = q]
  BY DEF Obtained
<1> HIDE DEF next
<1>4. q \in LocalState
  BY <1>1, <1>2 DEF LocalState
<1> HIDE DEF q
<1> QED
  BY <1>3, <1>4

\* A row a transaction sees holds a written status.
LEMMA ViewType ==
    ASSUME RowsOK, NEW r \in Request, NEW j \in JobId
    PROVE  View(r, j) \in WrittenStatus \cup {None}
  BY DEF RowsOK, View

\* A step writes only statuses of the state machine and stays at known calls.
LEMMA RowsStep ==
    ASSUME RowsOK, NEW r \in Request, LocalOK(r), Begin(r) \/ Step(r) \/ Crash(r)
    PROVE  RowsOK'
<1> USE DEF RowsOK
<1>1. ASSUME NEW pc \in PC, Goto(r, pc), UNCHANGED <<jobs, writes, stored>>,
             versionLock' \in Request \cup {None}
      PROVE  RowsOK'
  BY <1>1, GotoType
<1>2. ASSUME NEW j \in JobId, NEW s \in Status, Obtained(r, j, s),
             UNCHANGED <<jobs, versionLock, stored>>,
             writes' \in [Request -> [JobId -> WrittenStatus \cup {None}]]
      PROVE  RowsOK'
  BY <1>2, ObtainedType
<1>3. ASSUME RollbackSession(r) PROVE RowsOK'
  BY <1>3 DEF RollbackSession, Idle, LocalState, PC
<1>4. ASSUME Begin(r) PROVE RowsOK'
  <2>1. PICK op \in Operations :
            req' = [req EXCEPT ![r] = [Idle EXCEPT !.pc = "create", !.op = op, !.mode = "first"]]
    BY <1>4, OpAssumption DEF Begin
  <2>2. [Idle EXCEPT !.pc = "create", !.op = op, !.mode = "first"] \in LocalState
    BY <2>1 DEF Idle, LocalState, PC, Mode
  <2> QED
    BY <1>4, <2>1, <2>2 DEF Begin
<1>5. ASSUME CreateSelect(r) \/ CreateReselect(r) PROVE RowsOK'
  <2>1. CASE \E pc \in PC : Goto(r, pc)
    BY <2>1, <1>1, <1>5 DEF CreateSelect, CreateReselect
  <2>2. CASE \E j \in VisibleActive(r) : Obtained(r, j, View(r, j))
    <3>1. PICK j \in VisibleActive(r) : Obtained(r, j, View(r, j))
      BY <2>2
    <3>2. j \in JobId /\ View(r, j) \in Status
      BY <3>1 DEF VisibleActive, ActiveStatus
    <3> QED
      BY <1>2, <1>5, <3>1, <3>2 DEF CreateSelect, CreateReselect
  <2> QED
    BY <1>5, <2>1, <2>2 DEF CreateSelect, CreateReselect, PC
<1>6. ASSUME CreateInsert(r) PROVE RowsOK'
  <2>1. PICK j \in JobId : /\ writes' = [writes EXCEPT ![r][j] = "DISCOVERED"]
                           /\ Obtained(r, j, "DISCOVERED")
    BY <1>6 DEF CreateInsert
  <2>2. "DISCOVERED" \in Status /\ "DISCOVERED" \in WrittenStatus
    BY StatusFacts DEF Status, WrittenStatus
  <2>3. writes' \in [Request -> [JobId -> WrittenStatus \cup {None}]]
    BY <2>1, <2>2
  <2> QED
    BY <1>2, <1>6, <2>1, <2>2, <2>3 DEF CreateInsert
<1>7. ASSUME NoIdLeft(r) \/ CreateLost(r) \/ FailRead(r) \/ EnsureRead(r)
             \/ EnsureRejected(r) \/ Transition(r)
      PROVE  RowsOK'
  <2>1. PICK pc \in PC : Goto(r, pc)
    BY <1>7 DEF NoIdLeft, CreateLost, FailRead, EnsureRead, EnsureRejected, Transition, PC
  <2> QED
    BY <1>1, <1>7, <2>1
       DEF NoIdLeft, CreateLost, FailRead, EnsureRead, EnsureRejected, Transition
<1>8. ASSUME UpdateVersion(r) PROVE RowsOK'
  <2>1. PICK pc \in PC : Goto(r, pc)
    <3>1. req[r].op \in Operations
      BY <1>8 DEF LocalOK, UpdateVersion
    <3>2. Finish[req[r].op] \in PC
      BY <3>1 DEF Finish, Operations, PC
    <3> QED
      BY <1>8, <3>2 DEF UpdateVersion, PC
  <2> QED
    BY <1>1, <1>8, <2>1 DEF UpdateVersion
<1>9. ASSUME ReconcileReuse(r) \/ ReconcileRedo(r) PROVE RowsOK'
  <2>1. PICK pc \in PC, mode \in Mode :
            req' = [req EXCEPT ![r] = [@ EXCEPT !.pc = pc, !.mode = mode]]
    BY <1>9 DEF ReconcileReuse, ReconcileRedo, PC, Mode
  <2> QED
    BY <1>9, <2>1, ModeType DEF ReconcileReuse, ReconcileRedo
<1>10. ASSUME WorkDone(r) \/ WorkFails(r) PROVE RowsOK'
  <2>1. req[r].op \in Operations
    BY <1>10 DEF LocalOK, WorkDone, WorkFails
  <2> QED
    <3>1. PICK pc \in PC, mode \in Mode :
              req' = [req EXCEPT ![r] = [@ EXCEPT !.pc = pc, !.mode = mode]]
      BY <1>10 DEF WorkDone, WorkFails, PC, Mode
    <3> QED
      BY <1>10, <2>1, <3>1, ModeType DEF WorkDone, WorkFails
<1>11. ASSUME FailWrite(r) PROVE RowsOK'
  <2>1. writes' \in [Request -> [JobId -> WrittenStatus \cup {None}]]
    BY <1>11 DEF FailWrite, WrittenStatus
  <2>2. PICK pc \in PC : Goto(r, pc)
    BY <1>11 DEF FailWrite, PC
  <2> QED
    BY <1>11, <2>1, <2>2, GotoType DEF FailWrite
<1>12. ASSUME EnsureWrite(r) PROVE RowsOK'
  <2>1. Target(req[r]) \in ActiveStatus
    BY <1>12, StatusFacts DEF LocalOK, EnsureWrite, Target
  <2>2. Target(req[r]) \in Status /\ Target(req[r]) \in WrittenStatus
    BY <2>1 DEF ActiveStatus, WrittenStatus
  <2>3. writes' \in [Request -> [JobId -> WrittenStatus \cup {None}]]
    BY <1>12, <2>2 DEF EnsureWrite
  <2>4. req' \in [Request -> LocalState]
    BY <1>12, <2>2 DEF EnsureWrite, LocalState, PC
  <2> QED
    BY <1>12, <2>3, <2>4 DEF EnsureWrite
<1>13. ASSUME Commit(r) PROVE RowsOK'
  <2>1. jobs' \in [JobId -> WrittenStatus \cup {None}]
    BY <1>13, ViewType DEF Commit
  <2> QED
    BY <1>13, <2>1 DEF Commit, Idle, LocalState, PC
<1> QED
  BY <1>3, <1>4, <1>5, <1>6, <1>7, <1>8, <1>9, <1>10, <1>11, <1>12, <1>13
     DEF Step, Raise, Crash, DeadlockVictim

-----------------------------------------------------------------------------
(* Locks and the slot of the unique index. *)

SlotInv == RowLocks /\ OneSlotWriter /\ OneActiveInView /\ OneActiveJob

\* A step that neither writes a row nor commits.
Quiet == UNCHANGED <<jobs, writes>>

\* A step that neither writes nor commits leaves the slot of the unique index as it is.
LEMMA QuietSlot ==
    ASSUME SlotInv, Quiet
    PROVE  SlotInv'
  BY DEF SlotInv, Quiet, RowLocks, OneSlotWriter, OneActiveInView, OneActiveJob, View

\* An INSERT or UPDATE that makes row j active, after its waits.
LEMMA ActiveWriteSlot ==
    ASSUME RowsOK, SlotInv, NEW r \in Request, NEW j \in JobId, NEW v \in ActiveStatus,
           RowFree(r, j), SlotFree(r), ~SlotTaken(r, j),
           writes' = [writes EXCEPT ![r][j] = v], UNCHANGED jobs
    PROVE  SlotInv'
<1>1. /\ \A s \in Request, k \in JobId :
            writes'[s][k] = IF s = r /\ k = j THEN v ELSE writes[s][k]
      /\ \A s \in Request, k \in JobId :
            View(s, k)' = IF s = r /\ k = j THEN v ELSE View(s, k)
  BY StatusFacts DEF RowsOK, View
<1>2. \A s \in Request \ {r}, k \in JobId : writes[s][k] \notin ActiveStatus
  BY StatusFacts DEF SlotFree, SlotPending, Holds
<1>3. RowLocks'
  BY <1>1 DEF SlotInv, RowLocks, RowFree, Holds
<1>4. OneSlotWriter'
  BY <1>1, <1>2 DEF SlotInv, OneSlotWriter
<1>5. OneActiveInView'
  BY <1>1 DEF SlotInv, OneActiveInView, SlotTaken
<1> QED
  BY <1>3, <1>4, <1>5 DEF SlotInv, OneActiveJob

\* The UPDATE that closes row j.
LEMMA FailedWriteSlot ==
    ASSUME RowsOK, SlotInv, NEW r \in Request, NEW j \in JobId, RowFree(r, j),
           writes' = [writes EXCEPT ![r][j] = "FAILED"], UNCHANGED jobs
    PROVE  SlotInv'
<1>1. /\ \A s \in Request, k \in JobId :
            writes'[s][k] = IF s = r /\ k = j THEN "FAILED" ELSE writes[s][k]
      /\ \A s \in Request, k \in JobId :
            View(s, k)' = IF s = r /\ k = j THEN "FAILED" ELSE View(s, k)
  BY StatusFacts DEF RowsOK, View
<1>2. RowLocks'
  BY <1>1 DEF SlotInv, RowLocks, RowFree, Holds
<1>3. OneSlotWriter'
  BY <1>1, StatusFacts DEF SlotInv, OneSlotWriter
<1>4. OneActiveInView'
  BY <1>1, StatusFacts DEF SlotInv, OneActiveInView
<1> QED
  BY <1>2, <1>3, <1>4 DEF SlotInv, OneActiveJob

\* A rollback gives up writes only, so no second active row can appear.
LEMMA RollbackSlot ==
    ASSUME RowsOK, SlotInv, NEW r \in Request, RollbackSession(r)
    PROVE  SlotInv'
<1>1. /\ UNCHANGED jobs
      /\ \A s \in Request, k \in JobId :
            writes'[s][k] = IF s = r THEN None ELSE writes[s][k]
  BY DEF RollbackSession, RowsOK
<1>2. RowLocks' /\ OneSlotWriter'
  BY <1>1, StatusFacts DEF SlotInv, RowLocks, OneSlotWriter
<1>3. OneActiveInView'
  BY <1>1, StatusFacts DEF SlotInv, OneActiveInView, OneActiveJob, View
<1> QED
  BY <1>1, <1>2, <1>3 DEF SlotInv, OneActiveJob

\* A commit publishes rows that were the only active ones in the transaction's view,
\* and no other transaction has a write pending on the slot.
LEMMA CommitSlot ==
    ASSUME RowsOK, SlotInv, NEW r \in Request, Commit(r)
    PROVE  SlotInv'
<1>1. /\ \A k \in JobId : jobs'[k] = View(r, k)
      /\ \A s \in Request, k \in JobId :
            writes'[s][k] = IF s = r THEN None ELSE writes[s][k]
  BY DEF Commit, RowsOK
<1>2. RowLocks' /\ OneSlotWriter'
  BY <1>1, StatusFacts DEF SlotInv, RowLocks, OneSlotWriter
<1>3. OneActiveJob'
  BY <1>1 DEF SlotInv, OneActiveInView, OneActiveJob
<1>4. ASSUME NEW s \in Request, NEW j \in JobId, NEW k \in JobId,
             View(s, j)' \in ActiveStatus, View(s, k)' \in ActiveStatus
      PROVE  j = k
  <2>1. CASE s = r
    BY <1>1, <1>3, <1>4, <2>1 DEF View, OneActiveJob
  <2>2. CASE s # r
    <3>1. /\ View(s, j)' = IF writes[s][j] # None THEN writes[s][j] ELSE View(r, j)
          /\ View(s, k)' = IF writes[s][k] # None THEN writes[s][k] ELSE View(r, k)
      BY <1>1, <2>2 DEF View
    <3>2. CASE writes[s][j] = None /\ writes[s][k] = None
      BY <1>4, <3>1, <3>2 DEF SlotInv, OneActiveInView
    <3>3. CASE writes[s][j] # None
      BY <1>4, <2>2, <3>1, <3>3, StatusFacts
         DEF SlotInv, OneActiveInView, OneSlotWriter, View
    <3>4. CASE writes[s][k] # None
      BY <1>4, <2>2, <3>1, <3>4, StatusFacts
         DEF SlotInv, OneActiveInView, OneSlotWriter, View
    <3> QED
      BY <3>2, <3>3, <3>4
  <2> QED
    BY <2>1, <2>2
<1> QED
  BY <1>2, <1>3, <1>4 DEF SlotInv, OneActiveInView

\* Every step keeps the locks, the single slot writer and the single active row.
LEMMA SlotStep ==
    ASSUME RowsOK, SlotInv, NEW r \in Request, LocalOK(r), Begin(r) \/ Step(r) \/ Crash(r)
    PROVE  SlotInv'
<1>1. CASE Quiet
  BY <1>1, QuietSlot
<1>2. CASE RollbackSession(r)
  BY <1>2, RollbackSlot
<1>3. CASE Commit(r)
  BY <1>3, CommitSlot
<1>4. CASE CreateInsert(r)
  <2>1. PICK j \in JobId : UnusedId(j) /\ writes' = [writes EXCEPT ![r][j] = "DISCOVERED"]
    BY <1>4 DEF CreateInsert
  <2>2. RowFree(r, j)
    BY <2>1 DEF UnusedId, RowFree, Holds
  <2>3. SlotFree(r) /\ ~SlotTaken(r, j) /\ UNCHANGED jobs
    BY <1>4, StatusFacts DEF CreateInsert, SlotTaken
  <2> QED
    BY <2>1, <2>2, <2>3, ActiveWriteSlot, StatusFacts
<1>5. CASE EnsureWrite(r)
  <2>1. req[r].job \in JobId /\ req[r].op \in Operations
    BY <1>5 DEF LocalOK, HasJob, EnsureWrite
  <2>2. Target(req[r]) \in ActiveStatus
    BY <2>1, StatusFacts DEF Target
  <2> QED
    BY <1>5, <2>1, <2>2, ActiveWriteSlot DEF EnsureWrite, UpdateWaits
<1>6. CASE FailWrite(r)
  <2>1. req[r].job \in JobId
    BY <1>6 DEF LocalOK, HasJob, FailWrite
  <2> QED
    BY <1>6, <2>1, FailedWriteSlot DEF FailWrite
<1> QED
  BY <1>1, <1>2, <1>3, <1>4, <1>5, <1>6
     DEF Step, Begin, Crash, Raise, DeadlockVictim, Quiet, CreateSelect, NoIdLeft, CreateLost,
         CreateReselect, ReconcileReuse, ReconcileRedo, FailRead, EnsureRead, EnsureRejected,
         WorkDone, WorkFails, UpdateVersion, Transition

-----------------------------------------------------------------------------
(* What a step of r leaves alone. *)

\* A step of r touches the local state and the writes of r only, and the committed
\* rows only when it commits.
LEMMA StepEffect ==
    ASSUME RowsOK, NEW r \in Request, Begin(r) \/ Step(r) \/ Crash(r)
    PROVE  /\ \A s \in Request \ {r} : req'[s] = req[s] /\ writes'[s] = writes[s]
           /\ UNCHANGED jobs \/ Commit(r)
<1>1. \A s \in Request \ {r} : req'[s] = req[s]
  BY DEF RowsOK, Step, Begin, Crash, Raise, DeadlockVictim, RollbackSession, Goto, Obtained,
         CreateSelect, CreateInsert, NoIdLeft, CreateLost, CreateReselect, ReconcileReuse,
         ReconcileRedo, FailRead, FailWrite, EnsureRead, EnsureWrite, EnsureRejected, WorkDone,
         WorkFails, UpdateVersion, Transition, Commit
<1>2. \A s \in Request \ {r} : writes'[s] = writes[s]
  BY DEF RowsOK, Step, Begin, Crash, Raise, DeadlockVictim, RollbackSession,
         CreateSelect, CreateInsert, NoIdLeft, CreateLost, CreateReselect, ReconcileReuse,
         ReconcileRedo, FailRead, FailWrite, EnsureRead, EnsureWrite, EnsureRejected, WorkDone,
         WorkFails, UpdateVersion, Transition, Commit
<1>3. UNCHANGED jobs \/ Commit(r)
  BY DEF Step, Begin, Crash, Raise, DeadlockVictim, RollbackSession,
         CreateSelect, CreateInsert, NoIdLeft, CreateLost, CreateReselect, ReconcileReuse,
         ReconcileRedo, FailRead, FailWrite, EnsureRead, EnsureWrite, EnsureRejected, WorkDone,
         WorkFails, UpdateVersion, Transition
<1> QED
  BY <1>1, <1>2, <1>3

\* A committed row changes only to what the committing request wrote on it.
LEMMA CommittedRow ==
    ASSUME RowsOK, NEW r \in Request, Begin(r) \/ Step(r) \/ Crash(r), NEW j \in JobId
    PROVE  \/ jobs'[j] = jobs[j]
           \/ Commit(r) /\ jobs'[j] = writes[r][j] /\ writes[r][j] # None
  BY StepEffect DEF Commit, View

\* The requests that do not take the step keep their invariant.
LEMMA OthersStep ==
    ASSUME IInv, NEW r \in Request, Begin(r) \/ Step(r) \/ Crash(r),
           NEW s \in Request \ {r}
    PROVE  RequestOK(s)'
<1>1. RowsOK /\ RequestOK(s) /\ req'[s] = req[s] /\ writes'[s] = writes[s]
  BY StepEffect DEF IInv
<1>2. \A j \in JobId : jobs[j] # None => jobs'[j] # None
  BY <1>1, CommittedRow
<1>3. \A j \in JobId : writes[s][j] # None => jobs'[j] = jobs[j]
  BY <1>1, CommittedRow DEF IInv, RowLocks
<1>4. LocalOK(s)'
  <2>1. HoldsNoActive(s)' <=> HoldsNoActive(s)
    BY <1>1 DEF HoldsNoActive
  <2> QED
    BY <1>1, <1>2, <2>1 DEF RequestOK, LocalOK, HasJob
<1>5. FailedWasRow(s)'
  BY <1>1, <1>2 DEF RequestOK, FailedWasRow
<1>6. ClosedHasSuccessor(s)'
  BY <1>1, <1>3, StatusFacts DEF RequestOK, ClosedHasSuccessor
<1>7. FailedStays(s)'
  <2> SUFFICES ASSUME NEW j \in JobId, jobs'[j] = "FAILED", writes[s][j] \in ActiveStatus
               PROVE  FALSE
    BY <1>1 DEF FailedStays
  <2> QED
    BY <1>1, <1>3, StatusFacts DEF RequestOK, FailedStays
<1> QED
  BY <1>4, <1>5, <1>6, <1>7 DEF RequestOK

\* What a request that is about to commit writes leaves an active job behind.
LEMMA CommitRemains ==
    ASSUME IInv, NEW r \in Request, Commit(r)
    PROVE  ActiveJobRemains'
<1>1. RowsOK /\ ActiveJobRemains /\ RequestOK(r) /\ req[r].pc = "commit"
  BY DEF IInv, Commit
<1>2. \A k \in JobId : jobs'[k] = View(r, k)
  BY DEF Commit
<1>3. ASSUME NEW k \in JobId, jobs[k] \in ActiveStatus
      PROVE  \E m \in JobId : jobs'[m] \in ActiveStatus
  <2>1. CASE writes[r][k] = "FAILED"
    <3>1. req[r].job \in JobId /\ writes[r][req[r].job] \in ActiveStatus
      BY <1>1, <1>3, <2>1 DEF RequestOK, ClosedHasSuccessor
    <3> QED
      BY <1>2, <3>1, StatusFacts DEF View
  <2>2. CASE writes[r][k] # "FAILED"
    BY <1>1, <1>2, <1>3, <2>2 DEF RowsOK, WrittenStatus, View
  <2> QED
    BY <2>1, <2>2
<1>4. ASSUME NEW j \in JobId, jobs'[j] # None
      PROVE  \E m \in JobId : jobs'[m] \in ActiveStatus
  <2>1. CASE jobs[j] # None
    BY <1>1, <1>3, <2>1 DEF ActiveJobRemains
  <2>2. CASE jobs[j] = None
    <3>1. writes[r][j] # None
      BY <1>2, <1>4, <2>2 DEF View
    <3>2. writes[r][j] # "FAILED"
      BY <1>1, <2>2 DEF RequestOK, FailedWasRow
    <3> QED
      BY <1>1, <1>2, <3>1, <3>2 DEF RowsOK, WrittenStatus, View
  <2> QED
    BY <2>1, <2>2
<1> QED
  BY <1>4 DEF ActiveJobRemains

\* No step leaves a version that has jobs without an active one.
LEMMA RemainsStep ==
    ASSUME IInv, NEW r \in Request, Begin(r) \/ Step(r) \/ Crash(r)
    PROVE  ActiveJobRemains'
<1>1. CASE UNCHANGED jobs
  BY <1>1 DEF IInv, ActiveJobRemains
<1>2. CASE Commit(r)
  BY <1>2, CommitRemains
<1> QED
  BY <1>1, <1>2, StepEffect DEF IInv

-----------------------------------------------------------------------------
(* The request that takes the step. *)

\* A request without a job that sees no active row has closed no active job, and
\* one that sees an active row sees a committed one.
LEMMA NoOwnActive ==
    ASSUME RowsOK, NEW r \in Request, HoldsNoActive(r), NEW j \in JobId,
           View(r, j) \in ActiveStatus
    PROVE  writes[r][j] = None /\ jobs[j] \in ActiveStatus
  BY DEF View, HoldsNoActive

\* While some other row is the active one, no row closed by r is.
LEMMA NothingClosed ==
    ASSUME RowsOK, OneActiveJob, NEW r \in Request, HoldsNoActive(r), NEW j \in JobId,
           View(r, j) \in ActiveStatus
    PROVE  \A k \in JobId : ~(writes[r][k] = "FAILED" /\ jobs[k] \in ActiveStatus)
  BY NoOwnActive, StatusFacts DEF OneActiveJob

\* A step that writes nothing and after which r is at a call the bookkeeping
\* of closed jobs says nothing new about.
LEMMA QuietOwn ==
    ASSUME IInv, NEW r \in Request, Quiet, LocalOK(r)', req'[r].job = req[r].job,
           req[r].pc \notin {"create", "insert", "failed", "abort"}
             \/ req'[r].pc \in {"insert", "abort"},
           req[r].pc # "failed"
    PROVE  RequestOK(r)'
<1>1. RequestOK(r)
  BY DEF IInv
<1>2. FailedWasRow(r)' /\ FailedStays(r)'
  BY <1>1 DEF RequestOK, FailedWasRow, FailedStays, Quiet
<1>3. ClosedHasSuccessor(r)'
  BY <1>1 DEF RequestOK, ClosedHasSuccessor, Quiet
<1> QED
  BY <1>2, <1>3 DEF RequestOK

\* A request that ended holds nothing, so its bookkeeping is trivially right.
LEMMA EndOwn ==
    ASSUME RowsOK, NEW r \in Request,
           req'[r] = Idle, writes'[r] = [j \in JobId |-> None]
    PROVE  RequestOK(r)'
  BY StatusFacts DEF RequestOK, LocalOK, HasJob, HoldsNoActive, FailedWasRow,
                     ClosedHasSuccessor, FailedStays, Idle

\* A request that begins has no job yet and has written nothing.
LEMMA BeginOwn ==
    ASSUME IInv, NEW r \in Request, Begin(r)
    PROVE  RequestOK(r)'
<1>1. RowsOK /\ RequestOK(r)
  BY DEF IInv
<1>2. /\ writes'[r] = [j \in JobId |-> None]
      /\ req'[r].pc = "create" /\ req'[r].op \in Operations
  BY <1>1, OpAssumption DEF Begin, Idle, RowsOK, RequestOK, LocalOK
<1> QED
  BY <1>2, StatusFacts DEF RequestOK, LocalOK, HasJob, HoldsNoActive, FailedWasRow,
                           ClosedHasSuccessor, FailedStays

\* create_ingestion_job returns a committed active job.
LEMMA SelectOwn ==
    ASSUME IInv, NEW r \in Request, req[r].pc \in {"create", "reselect"}, Quiet,
           NEW j \in VisibleActive(r), Obtained(r, j, View(r, j))
    PROVE  RequestOK(r)'
<1>1. RowsOK /\ OneActiveJob /\ RequestOK(r) /\ HoldsNoActive(r)
  BY DEF IInv, RequestOK, LocalOK
<1>2. j \in JobId /\ View(r, j) \in ActiveStatus
  BY DEF VisibleActive
<1>3. /\ req'[r].pc \in {"reconcile", "ensure"} /\ req'[r].job = j
      /\ req'[r].op = req[r].op
  BY <1>1 DEF Obtained, RowsOK
<1>4. jobs[j] # None
  BY <1>1, <1>2, NoOwnActive, StatusFacts
<1>5. HoldsNoActive(r)'
  BY <1>1 DEF HoldsNoActive, Quiet
<1>6. LocalOK(r)'
  BY <1>1, <1>2, <1>3, <1>4, <1>5 DEF RequestOK, LocalOK, HasJob, Quiet
<1>7. ClosedHasSuccessor(r)'
  BY <1>1, <1>2, NothingClosed DEF ClosedHasSuccessor, Quiet
<1>8. FailedWasRow(r)' /\ FailedStays(r)'
  BY <1>1 DEF RequestOK, FailedWasRow, FailedStays, Quiet
<1> QED
  BY <1>6, <1>7, <1>8 DEF RequestOK

\* An inserted job is r's own uncommitted row, and the successor of what r closed.
LEMMA InsertOwn ==
    ASSUME IInv, NEW r \in Request, CreateInsert(r)
    PROVE  RequestOK(r)'
<1>1. RowsOK /\ RequestOK(r) /\ HoldsNoActive(r)
  BY DEF IInv, RequestOK, LocalOK, CreateInsert
<1>2. PICK j \in JobId : /\ UnusedId(j)
                         /\ writes' = [writes EXCEPT ![r][j] = "DISCOVERED"]
                         /\ Obtained(r, j, "DISCOVERED")
  BY DEF CreateInsert
<1>3. /\ req'[r].pc \in {"reconcile", "ensure"} /\ req'[r].job = j
      /\ req'[r].op = req[r].op /\ req'[r].snap = "DISCOVERED"
  BY <1>1, <1>2 DEF Obtained, RowsOK
<1>4. /\ \A k \in JobId : writes'[r][k] = IF k = j THEN "DISCOVERED" ELSE writes[r][k]
      /\ UNCHANGED jobs
  BY <1>1, <1>2 DEF CreateInsert, RowsOK
<1>5. LocalOK(r)'
  BY <1>1, <1>3 DEF RequestOK, LocalOK, HasJob, CreateInsert
<1>6. FailedWasRow(r)'
  BY <1>1, <1>4 DEF RequestOK, FailedWasRow, CreateInsert
<1>7. ClosedHasSuccessor(r)'
  BY <1>3, <1>4, StatusFacts DEF ClosedHasSuccessor
<1>8. FailedStays(r)'
  BY <1>1, <1>2, <1>4, StatusFacts DEF RequestOK, FailedStays, UnusedId
<1> QED
  BY <1>5, <1>6, <1>7, <1>8 DEF RequestOK

\* The insert was rejected: another transaction committed the active job, so r
\* had closed none.
LEMMA LostOwn ==
    ASSUME IInv, NEW r \in Request, CreateLost(r)
    PROVE  RequestOK(r)'
<1>1. /\ RowsOK /\ OneActiveJob /\ RequestOK(r) /\ HoldsNoActive(r) /\ Quiet
      /\ req'[r].pc = "reselect" /\ req'[r].job = req[r].job /\ req'[r].op = req[r].op
  BY DEF IInv, RequestOK, LocalOK, CreateLost, Goto, RowsOK, Quiet
<1>2. PICK j \in JobId : View(r, j) \in ActiveStatus
  BY DEF CreateLost, SlotTaken
<1>3. jobs[j] # None
  BY <1>1, <1>2, NoOwnActive, StatusFacts
<1>4. HoldsNoActive(r)'
  BY <1>1 DEF HoldsNoActive, Quiet
<1>5. LocalOK(r)'
  BY <1>1, <1>3, <1>4 DEF RequestOK, LocalOK, HasJob, Quiet, CreateLost
<1>6. ClosedHasSuccessor(r)'
  BY <1>1, <1>2, NothingClosed DEF ClosedHasSuccessor, Quiet
<1>7. FailedWasRow(r)' /\ FailedStays(r)'
  BY <1>1 DEF RequestOK, FailedWasRow, FailedStays, Quiet, CreateLost
<1> QED
  BY <1>5, <1>6, <1>7 DEF RequestOK

\* Closing a job: the row r marks FAILED was a committed active row.
LEMMA FailWriteOwn ==
    ASSUME IInv, NEW r \in Request, FailWrite(r)
    PROVE  RequestOK(r)'
<1>1. RowsOK /\ RequestOK(r) /\ LocalOK(r)
  BY DEF IInv, RequestOK
<1>2. req[r].job \in JobId
  BY <1>1 DEF LocalOK, HasJob, FailWrite
<1>3. /\ \A k \in JobId :
            writes'[r][k] = IF k = req[r].job THEN "FAILED" ELSE writes[r][k]
      /\ UNCHANGED jobs
      /\ req'[r].job = req[r].job /\ req'[r].op = req[r].op
      /\ req'[r].pc = IF req[r].mode = "recreate" THEN "create" ELSE "failed"
  BY <1>1, <1>2 DEF FailWrite, RowsOK, Goto
<1>4. req[r].mode = "recreate" => HoldsNoActive(r) /\ jobs[req[r].job] # None
  BY <1>1 DEF LocalOK, FailWrite
<1>5. req[r].mode = "recreate" => HoldsNoActive(r)'
  BY <1>3, <1>4, StatusFacts DEF HoldsNoActive
<1>6. LocalOK(r)'
  BY <1>1, <1>3, <1>5 DEF LocalOK, HasJob, FailWrite
<1>7. FailedWasRow(r)'
  BY <1>1, <1>3, <1>4 DEF RequestOK, FailedWasRow, FailWrite
<1>8. ClosedHasSuccessor(r)'
  BY <1>3 DEF ClosedHasSuccessor
<1>9. FailedStays(r)'
  BY <1>1, <1>3, StatusFacts DEF RequestOK, FailedStays
<1> QED
  BY <1>6, <1>7, <1>8, <1>9 DEF RequestOK

\* The UPDATE that moves the job: its row cannot be a committed FAILED, because
\* the row's successor holds the slot and r has not closed that successor.
LEMMA EnsureWriteOwn ==
    ASSUME IInv, NEW r \in Request, EnsureWrite(r)
    PROVE  RequestOK(r)'
<1>1. RowsOK /\ RequestOK(r) /\ LocalOK(r) /\ ActiveJobRemains
  BY DEF IInv, RequestOK
<1> DEFINE job == req[r].job
<1>2. job \in JobId /\ req[r].op \in Operations
  BY <1>1 DEF LocalOK, HasJob, EnsureWrite
<1>3. Target(req[r]) \in ActiveStatus
  BY <1>2, StatusFacts DEF Target
<1>4. /\ \A k \in JobId : writes'[r][k] = IF k = job THEN Target(req[r]) ELSE writes[r][k]
      /\ UNCHANGED jobs
      /\ req'[r].job = job /\ req'[r].op = req[r].op /\ req'[r].pc = "ensure"
  BY <1>1, <1>2 DEF EnsureWrite, RowsOK
<1>5. LocalOK(r)'
  BY <1>2, <1>4 DEF LocalOK, HasJob
<1>6. FailedWasRow(r)'
  BY <1>1, <1>3, <1>4, StatusFacts DEF RequestOK, FailedWasRow, EnsureWrite
<1>7. ClosedHasSuccessor(r)'
  BY <1>2, <1>3, <1>4 DEF ClosedHasSuccessor
<1>8. jobs[job] # "FAILED"
  <2> SUFFICES ASSUME jobs[job] = "FAILED" PROVE FALSE
    OBVIOUS
  <2>1. PICK k \in JobId : jobs[k] \in ActiveStatus
    BY <1>1, <1>2, StatusFacts DEF ActiveJobRemains
  <2>2. k # job
    BY <2>1, StatusFacts
  <2>3. View(r, k) \notin ActiveStatus
    BY <2>1, <2>2 DEF EnsureWrite, SlotTaken
  <2>4. writes[r][k] = "FAILED"
    BY <1>1, <2>1, <2>3 DEF View, RowsOK, WrittenStatus
  <2>5. writes[r][job] \in ActiveStatus
    BY <1>1, <2>1, <2>4 DEF RequestOK, ClosedHasSuccessor, EnsureWrite
  <2> QED
    BY <1>1, <1>2, <2>5 DEF RequestOK, FailedStays
<1>9. FailedStays(r)'
  BY <1>1, <1>4, <1>8 DEF RequestOK, FailedStays
<1> QED
  BY <1>5, <1>6, <1>7, <1>9 DEF RequestOK

\* The steps that only read, decide or work.
LEMMA ReadFields ==
    ASSUME RowsOK, NEW r \in Request
    PROVE  /\ \A pc \in PC : Goto(r, pc) =>
                /\ req'[r].pc = pc /\ req'[r].job = req[r].job
                /\ req'[r].op = req[r].op /\ req'[r].mode = req[r].mode
           /\ \A pc \in PC, mode \in Mode :
                (req' = [req EXCEPT ![r] = [@ EXCEPT !.pc = pc, !.mode = mode]]) =>
                  /\ req'[r].pc = pc /\ req'[r].job = req[r].job
                  /\ req'[r].op = req[r].op /\ req'[r].mode = mode
<1>1. req \in [Request -> LocalState] /\ req[r] \in LocalState
  BY DEF RowsOK
<1>2. ASSUME NEW pc \in PC, Goto(r, pc)
      PROVE  /\ req'[r].pc = pc /\ req'[r].job = req[r].job
             /\ req'[r].op = req[r].op /\ req'[r].mode = req[r].mode
  <2>1. req'[r] = [req[r] EXCEPT !.pc = pc]
    BY <1>1, <1>2 DEF Goto
  <2> QED
    BY <1>1, <2>1 DEF LocalState
<1>3. ASSUME NEW pc \in PC, NEW mode \in Mode,
             req' = [req EXCEPT ![r] = [@ EXCEPT !.pc = pc, !.mode = mode]]
      PROVE  /\ req'[r].pc = pc /\ req'[r].job = req[r].job
             /\ req'[r].op = req[r].op /\ req'[r].mode = mode
  <2>1. req'[r] = [req[r] EXCEPT !.pc = pc, !.mode = mode]
    BY <1>1, <1>3
  <2> QED
    BY <1>1, <2>1 DEF LocalState
<1> QED
  BY <1>2, <1>3

\* Those steps keep the bookkeeping of r.
LEMMA ReadOwn ==
    ASSUME IInv, NEW r \in Request,
           \/ NoIdLeft(r) \/ ReconcileReuse(r) \/ ReconcileRedo(r) \/ FailRead(r)
           \/ EnsureRead(r) \/ EnsureRejected(r) \/ WorkDone(r) \/ WorkFails(r)
           \/ UpdateVersion(r) \/ Transition(r)
    PROVE  RequestOK(r)'
<1>1. RowsOK /\ LocalOK(r)
  BY DEF IInv, RequestOK
<1>2. Quiet
  BY DEF NoIdLeft, ReconcileReuse, ReconcileRedo, FailRead, EnsureRead, EnsureRejected,
         WorkDone, WorkFails, UpdateVersion, Transition, Quiet
<1>3. HoldsNoActive(r)' <=> HoldsNoActive(r)
  BY <1>2 DEF HoldsNoActive, Quiet
<1>4. req'[r].job = req[r].job /\ req'[r].op = req[r].op
  <2>1. CASE NoIdLeft(r) \/ FailRead(r) \/ EnsureRead(r) \/ EnsureRejected(r)
    <3>1. \E pc \in PC : Goto(r, pc)
      BY <2>1 DEF NoIdLeft, FailRead, EnsureRead, EnsureRejected, PC
    <3> QED
      BY <1>1, <3>1, ReadFields
  <2>2. CASE UpdateVersion(r) \/ Transition(r)
    <3>1. req[r].op \in Operations
      BY <1>1, <2>2 DEF LocalOK, UpdateVersion, Transition
    <3>2. Finish[req[r].op] \in PC
      BY <3>1 DEF Finish, Operations, PC
    <3>3. \E pc \in PC : Goto(r, pc)
      BY <2>2, <3>2 DEF UpdateVersion, Transition, PC
    <3> QED
      BY <1>1, <3>3, ReadFields
  <2>3. CASE ReconcileReuse(r) \/ ReconcileRedo(r) \/ WorkDone(r) \/ WorkFails(r)
    <3>1. PICK pc \in PC, mode \in Mode :
            req' = [req EXCEPT ![r] = [@ EXCEPT !.pc = pc, !.mode = mode]]
      <4>1. CASE ReconcileReuse(r)
        BY <4>1 DEF ReconcileReuse, PC, Mode
      <4>2. CASE ReconcileRedo(r)
        BY <4>2 DEF ReconcileRedo, PC, Mode
      <4>3. CASE WorkDone(r)
        BY <4>3 DEF WorkDone, PC, Mode
      <4>4. CASE WorkFails(r)
        BY <4>4 DEF WorkFails, PC, Mode
      <4> QED
        BY <2>3, <4>1, <4>2, <4>3, <4>4
    <3> QED
      BY <1>1, <3>1, ReadFields
  <2> QED
    BY <2>1, <2>2, <2>3
<1>5. CASE NoIdLeft(r)
  <2>1. req'[r].pc = "abort" /\ req[r].pc = "insert"
    BY <1>1, <1>5 DEF NoIdLeft, Goto, RowsOK
  <2>2. LocalOK(r)'
    BY <1>1, <1>4, <2>1 DEF LocalOK, HasJob
  <2> QED
    BY <1>2, <1>4, <2>1, <2>2, QuietOwn
<1>6. CASE ReconcileRedo(r)
  <2>1. /\ req[r].pc = "reconcile"
        /\ \/ req'[r].pc = "failRead" /\ req[r].snap \in ClaimsDone[req[r].op]
           \/ req'[r].pc = "ensure"
    BY <1>1, <1>6, ReadFields DEF ReconcileRedo, PC, Mode
  <2>2. req[r].op \in Operations /\ req[r].job \in JobId
    BY <1>1, <2>1 DEF LocalOK, HasJob
  <2>3. req[r].snap \in ClaimsDone[req[r].op] => req[r].snap # "DISCOVERED"
    BY <2>2 DEF ClaimsDone, Operations
  <2>4. LocalOK(r)'
    BY <1>1, <1>2, <1>3, <1>4, <2>1, <2>2, <2>3 DEF LocalOK, HasJob, Quiet
  <2> QED
    BY <1>2, <1>4, <2>1, <2>4, QuietOwn
<1>7. CASE FailRead(r)
  <2>1. /\ req[r].pc = "failRead" /\ req'[r].pc \in {"failWrite", "illegal"}
        /\ req'[r].mode = req[r].mode
    BY <1>1, <1>7 DEF FailRead, Goto, RowsOK
  <2>2. LocalOK(r)'
    BY <1>1, <1>2, <1>3, <1>4, <2>1 DEF LocalOK, HasJob, Quiet
  <2> QED
    BY <1>2, <1>4, <2>1, <2>2, QuietOwn
<1>8. CASE WorkFails(r)
  <2>1. req[r].pc = "work" /\ req'[r].pc = "failRead" /\ req'[r].mode = "fail"
    BY <1>1, <1>8 DEF WorkFails, RowsOK
  <2>2. LocalOK(r)'
    BY <1>1, <1>4, <2>1 DEF LocalOK, HasJob
  <2> QED
    BY <1>2, <1>4, <2>1, <2>2, QuietOwn
<1>9. CASE ReconcileReuse(r) \/ EnsureRead(r) \/ EnsureRejected(r) \/ WorkDone(r)
           \/ UpdateVersion(r) \/ Transition(r)
  <2>1. req[r].pc \in {"reconcile", "ensure", "ensureWrite", "work", "version", "transition"}
    BY <1>9 DEF ReconcileReuse, EnsureRead, EnsureRejected, WorkDone, UpdateVersion, Transition
  <2>2. req[r].op \in Operations /\ req[r].job \in JobId
    BY <1>1, <2>1 DEF LocalOK, HasJob
  <2>3. Finish[req[r].op] \in {"ensure", "transition", "commit"}
    BY <2>2 DEF Finish, Operations
  <2>4. req'[r].pc \in {"ensure", "ensureWrite", "work", "version", "transition",
                        "commit", "illegal", "abort"}
    <3>1. CASE EnsureRead(r) \/ EnsureRejected(r) \/ UpdateVersion(r) \/ Transition(r)
      BY <1>1, <2>3, <3>1, ReadFields
         DEF EnsureRead, EnsureRejected, UpdateVersion, Transition, PC
    <3>2. CASE ReconcileReuse(r) \/ WorkDone(r)
      BY <1>1, <3>2, ReadFields DEF ReconcileReuse, WorkDone, PC, Mode
    <3> QED
      BY <1>9, <3>1, <3>2
  <2>5. LocalOK(r)'
    BY <1>4, <2>2, <2>4 DEF LocalOK, HasJob
  <2> QED
    BY <1>2, <1>4, <2>1, <2>5, QuietOwn
<1> QED
  BY <1>5, <1>6, <1>7, <1>8, <1>9

\* Every step of r keeps the invariant of r itself.
LEMMA OwnStep ==
    ASSUME IInv, NEW r \in Request, Begin(r) \/ Step(r) \/ Crash(r)
    PROVE  RequestOK(r)'
<1>1. RowsOK
  BY DEF IInv
<1>2. CASE RollbackSession(r) \/ Commit(r)
  <2>1. req'[r] = Idle /\ writes'[r] = [j \in JobId |-> None]
    BY <1>1, <1>2 DEF RollbackSession, Commit, RowsOK
  <2> QED
    BY <1>1, <2>1, EndOwn
<1>3. CASE CreateSelect(r) \/ CreateReselect(r)
  <2>1. Quiet /\ req[r].pc \in {"create", "reselect"}
    BY <1>3 DEF CreateSelect, CreateReselect, Quiet
  <2>2. CASE \E j \in VisibleActive(r) : Obtained(r, j, View(r, j))
    BY <2>1, <2>2, SelectOwn
  <2>3. CASE Goto(r, "insert") /\ req[r].pc = "create"
    <3>1. req'[r] = [req[r] EXCEPT !.pc = "insert"]
      BY <1>1, <2>3 DEF Goto, RowsOK
    <3>2. req[r] \in LocalState /\ LocalOK(r)
      BY <1>1 DEF RowsOK, IInv, RequestOK
    <3>3. req'[r].pc = "insert" /\ req'[r].job = req[r].job /\ req'[r].op = req[r].op
      BY <3>1, <3>2 DEF LocalState
    <3>4. LocalOK(r)'
      BY <2>1, <2>3, <3>2, <3>3 DEF LocalOK, HasJob, HoldsNoActive, Quiet
    <3> QED
      BY <2>1, <2>3, <3>3, <3>4, QuietOwn
  <2>4. CASE Goto(r, "abort") /\ req[r].pc = "reselect"
    <3>1. req'[r] = [req[r] EXCEPT !.pc = "abort"]
      BY <1>1, <2>4 DEF Goto, RowsOK
    <3>2. req[r] \in LocalState /\ LocalOK(r)
      BY <1>1 DEF RowsOK, IInv, RequestOK
    <3>3. req'[r].pc = "abort" /\ req'[r].job = req[r].job /\ req'[r].op = req[r].op
      BY <3>1, <3>2 DEF LocalState
    <3>4. LocalOK(r)'
      BY <2>4, <3>2, <3>3 DEF LocalOK, HasJob
    <3> QED
      BY <2>1, <2>4, <3>3, <3>4, QuietOwn
  <2> QED
    BY <1>3, <2>2, <2>3, <2>4 DEF CreateSelect, CreateReselect
<1> QED
  BY <1>2, <1>3, BeginOwn, InsertOwn, LostOwn, FailWriteOwn, EnsureWriteOwn, ReadOwn
     DEF Step, Crash, Raise, DeadlockVictim

-----------------------------------------------------------------------------
(* The invariant and what follows from it. *)

\* The invariant is inductive.
LEMMA NextInvariant == IInv /\ [Next]_vars => IInv'
<1> SUFFICES ASSUME IInv, [Next]_vars PROVE IInv'
  OBVIOUS
<1>1. CASE UNCHANGED vars
  BY <1>1 DEF vars, IInv, RowsOK, RowLocks, OneSlotWriter, OneActiveInView, View, OneActiveJob,
              ActiveJobRemains, RequestOK, LocalOK, HoldsNoActive, FailedWasRow,
              ClosedHasSuccessor, FailedStays
<1>2. ASSUME NEW r \in Request, Begin(r) \/ Step(r) \/ Crash(r)
      PROVE  IInv'
  <2>1. RowsOK /\ SlotInv /\ LocalOK(r)
    BY DEF IInv, SlotInv, RequestOK
  <2>2. RowsOK'
    BY <1>2, <2>1, RowsStep
  <2>3. SlotInv'
    BY <1>2, <2>1, SlotStep
  <2>4. ActiveJobRemains'
    BY <1>2, RemainsStep
  <2>5. \A s \in Request : RequestOK(s)'
    BY <1>2, OwnStep, OthersStep
  <2> QED
    BY <2>2, <2>3, <2>4, <2>5 DEF IInv, SlotInv
<1> QED
  BY <1>1, <1>2 DEF Next

\* The invariant holds in every reachable state.
LEMMA Invariant == Spec => []IInv
  BY InitInvariant, NextInvariant, PTL DEF Spec

\* Every row and every request's local state is well-typed in every reachable
\* state, for any requests, job ids and operations.
THEOREM TypeCorrect == Spec => []TypeOK
<1>1. IInv => TypeOK
  BY StatusFacts DEF IInv, RowsOK, TypeOK
<1> QED
  BY <1>1, Invariant, PTL

\* However many requests race for a version, at most one of its jobs is active.
THEOREM OneActive == Spec => []OneActiveJob
<1>1. IInv => OneActiveJob
  BY DEF IInv
<1> QED
  BY <1>1, Invariant, PTL

\* However many requests fail, crash or are aborted, the version never stands
\* without an active job once it has one.
THEOREM ActiveRemains == Spec => []ActiveJobRemains
<1>1. IInv => ActiveJobRemains
  BY DEF IInv
<1> QED
  BY <1>1, Invariant, PTL

\* A request that lost the race to insert always finds the job that won: the
\* re-raise at the end of create_ingestion_job is unreachable.
THEOREM WinnerFound == Spec => []LostRaceFindsWinner
<1>1. ASSUME IInv, NEW r \in Request, req[r].pc = "reselect"
      PROVE  VisibleActive(r) # {}
  <2>1. /\ RowsOK /\ ActiveJobRemains /\ RequestOK(r) /\ HoldsNoActive(r)
        /\ \E j \in JobId : jobs[j] # None
    BY <1>1 DEF IInv, RequestOK, LocalOK
  <2>2. PICK k \in JobId : jobs[k] \in ActiveStatus
    BY <2>1 DEF ActiveJobRemains
  <2>3. writes[r][k] # "FAILED"
    BY <1>1, <2>1, <2>2 DEF RequestOK, ClosedHasSuccessor, HoldsNoActive
  <2>4. View(r, k) \in ActiveStatus
    BY <2>1, <2>2, <2>3 DEF View, RowsOK, WrittenStatus, HoldsNoActive
  <2> QED
    BY <2>4 DEF VisibleActive
<1>2. IInv => LostRaceFindsWinner
  BY <1>1 DEF LostRaceFindsWinner
<1> QED
  BY <1>2, Invariant, PTL

\* A job committed as FAILED is never moved again, whoever still holds it.
THEOREM FailedFinal == Spec => FailedIsFinal
<1>1. ASSUME IInv, [Next]_vars
      PROVE  [\A j \in JobId : jobs[j] = "FAILED" => jobs'[j] = "FAILED"]_vars
  <2>1. CASE UNCHANGED vars
    BY <2>1
  <2>2. ASSUME NEW r \in Request, Begin(r) \/ Step(r) \/ Crash(r),
               NEW j \in JobId, jobs[j] = "FAILED"
        PROVE  jobs'[j] = "FAILED"
    BY <1>1, <2>2, CommittedRow DEF IInv, RequestOK, FailedStays, RowsOK, WrittenStatus
  <2> QED
    BY <1>1, <2>1, <2>2 DEF Next
<1> QED
  BY <1>1, Invariant, PTL DEF Spec, FailedIsFinal

-----------------------------------------------------------------------------
(***************************************************************************)
(* The control plane implements JobLedger.  What is needed beyond the      *)
(* invariant above is which status a transaction holds  *)
(* uncommitted at each call: only its own job is active, its snapshot of   *)
(* that job is what it wrote, and at the commit the stage is complete      *)
(* (StageOK).  Committing is then one step of the ledger, and every other  *)
(* step leaves the committed rows alone.                                   *)
(***************************************************************************)
Settled == Ledger!Settled

\* The mode of the request at each call that tells modes apart.
ModeOK(r) ==
    /\ req[r].pc \in {"create", "insert", "reselect"} => req[r].mode \in {"first", "recreate"}
    /\ req[r].pc \in {"ensure", "ensureWrite"}
         => req[r].mode \in {"recreate", "redo", "reuse", "finish"}
    /\ req[r].pc = "work" => req[r].mode \in {"recreate", "redo"}
    /\ req[r].pc = "version" => req[r].mode \in {"reuse", "finish"}
    /\ req[r].pc = "transition" => req[r].mode = "finish"

\* The active status w that r holds uncommitted on row j.
StatusAt(r, w) ==
    LET q == req[r] IN
    /\ q.pc = "reconcile" => w = "DISCOVERED"
    /\ q.pc \in {"ensure", "ensureWrite"} /\ q.mode \in {"recreate", "redo"}
         => w \in {"DISCOVERED", Busy[q.op]}
    /\ q.pc \in {"ensure", "ensureWrite"} /\ q.mode = "reuse"
         => w \in {"DISCOVERED", Done[q.op]}
    /\ q.pc \in {"ensure", "ensureWrite", "transition"} /\ q.mode = "finish"
         => w \in {Busy[q.op], Done[q.op]}
    /\ q.pc = "work" => w = Busy[q.op]
    /\ q.pc = "version" => w = IF q.mode = "reuse" THEN "DISCOVERED" ELSE Busy[q.op]
    /\ q.pc = "commit" => w \in Settled

StageOK(r) ==
    \A j \in JobId : writes[r][j] \in ActiveStatus =>
        /\ j = req[r].job
        /\ writes[r][j] = req[r].snap
        /\ StatusAt(r, writes[r][j])

CommittedSettled == \A j \in JobId : jobs[j] \in ActiveStatus => jobs[j] \in Settled

RInv ==
    /\ CommittedSettled
    /\ \A r \in Request : ModeOK(r) /\ StageOK(r)

-----------------------------------------------------------------------------
\* Position inverts Pipeline: no status occurs twice.
LEMMA PositionOf == \A i \in DOMAIN Pipeline : Position(Pipeline[i]) = i
<1>1. \A i, j \in DOMAIN Pipeline : Pipeline[i] = Pipeline[j] => i = j
  BY DEF Pipeline
<1> QED
  BY <1>1 DEF Position

\* A fresh job is before every stage, and a stage's busy status before its done
\* status; extraction has one status for both.
LEMMA StageOrder ==
    \A op \in Operations :
        /\ Before("DISCOVERED", Busy[op])
        /\ Before("DISCOVERED", Done[op])
        /\ Busy[op] \in Settled \/ Before(Busy[op], Done[op])
        /\ Done[op] \in Settled
        /\ Finish[op] = "commit" => Busy[op] \in Settled
<1>1. DOMAIN Pipeline = 1..12
  BY DEF Pipeline
<1>2. /\ Position("DISCOVERED") = 1 /\ Position("DOWNLOADING") = 2
      /\ Position("DOWNLOADED") = 3 /\ Position("PARSING") = 4
      /\ Position("PARSED") = 5 /\ Position("CHUNKING") = 6
      /\ Position("CHUNKED") = 7 /\ Position("VECTOR_INDEXING") = 8
      /\ Position("VECTOR_INDEXED") = 9 /\ Position("GRAPH_INDEXING") = 10
      /\ Position("GRAPH_INDEXED") = 11
  BY <1>1, PositionOf DEF Pipeline
<1> QED
  BY <1>2 DEF Before, Busy, Done, Finish, Operations, Settled, Ledger!Settled

\* A settled status is active.
LEMMA SettledActive == Settled \subseteq ActiveStatus
  BY DEF Settled, Ledger!Settled, ActiveStatus, Status, TerminalStatus

\* A request that has not begun is at no stage.
LEMMA InitStage == Init => RInv
  BY StatusFacts DEF Init, RInv, CommittedSettled, ModeOK, StageOK, Idle

-----------------------------------------------------------------------------
(* Preservation. *)

\* A request that holds no active status has nothing to account for.
LEMMA NoActiveStage ==
    ASSUME NEW r \in Request, HoldsNoActive(r)
    PROVE  StageOK(r)
  BY DEF HoldsNoActive, StageOK

\* A request that ended is at no stage.
LEMMA EndStage ==
    ASSUME NEW r \in Request, req'[r] = Idle, writes'[r] = [j \in JobId |-> None]
    PROVE  ModeOK(r)' /\ StageOK(r)'
  BY StatusFacts DEF ModeOK, StageOK, Idle

\* create_ingestion_job returned: the request holds at most the fresh row.
LEMMA ObtainedStage ==
    ASSUME RowsOK, NEW r \in Request, HoldsNoActive(r), req[r].mode \in {"first", "recreate"},
           NEW j \in JobId, NEW s \in Status, Obtained(r, j, s),
           \/ writes'[r] = writes[r]
           \/ writes' = [writes EXCEPT ![r][j] = s] /\ s = "DISCOVERED"
    PROVE  ModeOK(r)' /\ StageOK(r)'
<1>1. /\ req'[r].job = j /\ req'[r].snap = s /\ req'[r].op = req[r].op
      /\ req'[r].mode = req[r].mode
      /\ req'[r].pc = IF req[r].mode = "first" THEN "reconcile" ELSE "ensure"
  BY DEF RowsOK, LocalState, Obtained
<1>2. ModeOK(r)'
  BY <1>1 DEF ModeOK
<1>3. \A k \in JobId : writes'[r][k] \in ActiveStatus => k = j /\ writes'[r][k] = "DISCOVERED"
                                                         /\ s = "DISCOVERED"
  BY DEF HoldsNoActive, RowsOK
<1>4. StageOK(r)'
  BY <1>1, <1>3 DEF StageOK, StatusAt
<1> QED
  BY <1>2, <1>4

\* A job handed out by create_ingestion_job is the request's own DISCOVERED row or a
\* committed, hence settled, one.
LEMMA CreateStage ==
    ASSUME IInv, NEW r \in Request, ModeOK(r),
           CreateSelect(r) \/ CreateInsert(r) \/ CreateLost(r) \/ CreateReselect(r) \/ NoIdLeft(r)
    PROVE  ModeOK(r)' /\ StageOK(r)'
<1>1. /\ RowsOK /\ HoldsNoActive(r) /\ req[r].mode \in {"first", "recreate"}
      /\ req[r].pc \in {"create", "insert", "reselect"}
  BY DEF IInv, RequestOK, LocalOK, ModeOK, CreateSelect, CreateInsert, CreateLost,
         CreateReselect, NoIdLeft
<1>2. CASE /\ \E pc \in {"insert", "reselect", "abort"} : Goto(r, pc)
           /\ UNCHANGED writes
  <2>1. PICK pc \in {"insert", "reselect", "abort"} : Goto(r, pc)
    BY <1>2
  <2>2. pc \in PC
    BY DEF PC
  <2>3. req'[r].pc = pc /\ req'[r].mode = req[r].mode
    BY <1>1, <2>1, <2>2, ReadFields
  <2>4. HoldsNoActive(r)'
    BY <1>1, <1>2 DEF HoldsNoActive
  <2>5. StageOK(r)'
    BY <2>4 DEF HoldsNoActive, StageOK
  <2> QED
    BY <1>1, <2>3, <2>5 DEF ModeOK
<1>3. CASE (\E j \in VisibleActive(r) : Obtained(r, j, View(r, j))) /\ UNCHANGED writes
  <2>1. PICK j \in VisibleActive(r) : Obtained(r, j, View(r, j))
    BY <1>3
  <2>2. j \in JobId /\ View(r, j) \in Status
    BY DEF VisibleActive, ActiveStatus
  <2> QED
    BY <1>1, <1>3, <2>1, <2>2, ObtainedStage
<1>4. CASE CreateInsert(r)
  <2>1. PICK j \in JobId : /\ writes' = [writes EXCEPT ![r][j] = "DISCOVERED"]
                           /\ Obtained(r, j, "DISCOVERED")
    BY <1>4 DEF CreateInsert
  <2>2. "DISCOVERED" \in Status
    BY DEF Status
  <2> QED
    BY <1>1, <2>1, <2>2, ObtainedStage
<1> QED
  BY <1>2, <1>3, <1>4 DEF CreateSelect, CreateReselect, CreateLost, NoIdLeft

\* The steps that write no row: the status at the next call follows from the
\* status at this one.
LEMMA ReadStage ==
    ASSUME IInv, NEW r \in Request, ModeOK(r), StageOK(r),
           \/ ReconcileReuse(r) \/ ReconcileRedo(r) \/ FailRead(r)
           \/ EnsureRead(r) \/ EnsureRejected(r) \/ WorkDone(r) \/ WorkFails(r)
           \/ UpdateVersion(r) \/ Transition(r)
    PROVE  ModeOK(r)' /\ StageOK(r)'
<1>1. RowsOK /\ LocalOK(r)
  BY DEF IInv, RequestOK
<1>2. UNCHANGED writes
  BY DEF ReconcileReuse, ReconcileRedo, FailRead, EnsureRead, EnsureRejected,
         WorkDone, WorkFails, UpdateVersion, Transition
<1>3. req[r].op \in Operations
  BY <1>1 DEF LocalOK, ReconcileReuse, ReconcileRedo, FailRead, EnsureRead, EnsureRejected,
              WorkDone, WorkFails, UpdateVersion, Transition
<1>4. ASSUME NEW pc \in PC, NEW mode \in Mode,
             \/ Goto(r, pc) /\ mode = req[r].mode
             \/ req' = [req EXCEPT ![r] = [@ EXCEPT !.pc = pc, !.mode = mode]]
      PROVE  /\ req'[r].pc = pc /\ req'[r].mode = mode
             /\ req'[r].job = req[r].job /\ req'[r].op = req[r].op
             /\ req'[r].snap = req[r].snap
  <2>1. req[r] \in LocalState /\ req \in [Request -> LocalState]
    BY <1>1 DEF RowsOK
  <2>2. CASE Goto(r, pc) /\ mode = req[r].mode
    <3>1. req'[r] = [req[r] EXCEPT !.pc = pc]
      BY <2>1, <2>2 DEF Goto
    <3> QED
      BY <2>1, <2>2, <3>1 DEF LocalState
  <2>3. CASE req' = [req EXCEPT ![r] = [@ EXCEPT !.pc = pc, !.mode = mode]]
    <3>1. req'[r] = [req[r] EXCEPT !.pc = pc, !.mode = mode]
      BY <2>1, <2>3
    <3> QED
      BY <2>1, <3>1 DEF LocalState
  <2> QED
    BY <1>4, <2>2, <2>3
<1>5. CASE ReconcileReuse(r)
  <2>1. /\ req[r].pc = "reconcile" /\ req'[r].pc = "version" /\ req'[r].mode = "reuse"
        /\ req'[r].job = req[r].job /\ req'[r].snap = req[r].snap
    BY <1>4, <1>5 DEF ReconcileReuse, PC, Mode
  <2> QED
    BY <1>2, <2>1 DEF ModeOK, StageOK, StatusAt
<1>6. CASE ReconcileRedo(r)
  <2>1. /\ req[r].pc = "reconcile"
        /\ \/ req'[r].pc = "failRead" /\ req'[r].mode = "recreate"
           \/ req'[r].pc = "ensure" /\ req'[r].mode = "redo"
        /\ req'[r].job = req[r].job /\ req'[r].snap = req[r].snap
    <3>1. CASE req' = [req EXCEPT ![r] = [@ EXCEPT !.pc = "failRead", !.mode = "recreate"]]
      BY <1>4, <1>6, <3>1 DEF ReconcileRedo, PC, Mode
    <3>2. CASE req' = [req EXCEPT ![r] = [@ EXCEPT !.pc = "ensure", !.mode = "redo"]]
      BY <1>4, <1>6, <3>2 DEF ReconcileRedo, PC, Mode
    <3> QED
      BY <1>6, <3>1, <3>2 DEF ReconcileRedo
  <2> QED
    BY <1>2, <2>1 DEF ModeOK, StageOK, StatusAt
<1>7. CASE FailRead(r) \/ EnsureRejected(r) \/ WorkFails(r)
  <2>1. /\ req'[r].pc \in {"failRead", "failWrite", "illegal", "abort"}
        /\ req'[r].job = req[r].job /\ req'[r].snap = req[r].snap
    <3>1. CASE FailRead(r) \/ EnsureRejected(r)
      <4>1. PICK pc \in {"failWrite", "illegal", "abort"} : Goto(r, pc)
        BY <3>1 DEF FailRead, EnsureRejected
      <4>2. pc \in PC
        BY DEF PC
      <4>3. req'[r] = [req[r] EXCEPT !.pc = pc] /\ req[r] \in LocalState
        BY <1>1, <4>1 DEF RowsOK, Goto
      <4> QED
        BY <4>3 DEF LocalState
    <3>2. CASE WorkFails(r)
      BY <1>4, <3>2 DEF WorkFails, PC, Mode
    <3> QED
      BY <1>7, <3>1, <3>2
  <2> QED
    BY <1>2, <2>1 DEF ModeOK, StageOK, StatusAt
<1>8. CASE WorkDone(r)
  <2>1. /\ req[r].pc = "work" /\ req'[r].pc = "version" /\ req'[r].mode = "finish"
        /\ req'[r].job = req[r].job /\ req'[r].snap = req[r].snap /\ req'[r].op = req[r].op
    BY <1>4, <1>8 DEF WorkDone, PC, Mode
  <2> QED
    BY <1>2, <2>1 DEF ModeOK, StageOK, StatusAt
<1>9. CASE UpdateVersion(r)
  <2>1. req[r].pc = "version" /\ req[r].mode \in {"reuse", "finish"}
    BY <1>9 DEF UpdateVersion, ModeOK
  <2>2. Finish[req[r].op] \in PC
    BY <1>3 DEF Finish, Operations, PC
  <2>3. /\ req'[r].pc = IF req[r].mode = "reuse" THEN "ensure" ELSE Finish[req[r].op]
        /\ req'[r].mode = req[r].mode
        /\ req'[r].job = req[r].job /\ req'[r].snap = req[r].snap /\ req'[r].op = req[r].op
    BY <1>4, <1>9, <2>1, <2>2 DEF UpdateVersion, PC, Mode
  <2>4. /\ Finish[req[r].op] \in {"ensure", "transition", "commit"}
        /\ Finish[req[r].op] = "commit" => Busy[req[r].op] \in Settled
    BY <1>3, StageOrder DEF Finish, Operations
  <2>5. ModeOK(r)'
    BY <2>1, <2>3, <2>4 DEF ModeOK
  <2>6. StageOK(r)'
    BY <1>2, <2>1, <2>3, <2>4 DEF StageOK, StatusAt
  <2> QED
    BY <2>5, <2>6
<1>10. CASE Transition(r)
  <2>1. req[r].pc = "transition" /\ req[r].mode = "finish"
    BY <1>10 DEF Transition, ModeOK
  <2>2. /\ req'[r].pc \in {"ensureWrite", "illegal"} /\ req'[r].mode = "finish"
        /\ req'[r].job = req[r].job /\ req'[r].snap = req[r].snap /\ req'[r].op = req[r].op
    BY <1>4, <1>10, <2>1 DEF Transition, PC, Mode
  <2> QED
    BY <1>2, <2>1, <2>2 DEF ModeOK, StageOK, StatusAt
<1>11. CASE EnsureRead(r)
  <2>1. req[r].pc = "ensure" /\ req[r].mode \in {"recreate", "redo", "reuse", "finish"}
    BY <1>11 DEF EnsureRead, ModeOK
  <2>2. req[r].mode \in Mode
    BY <2>1 DEF Mode
  <2>3. /\ \/ req'[r].pc \in {"ensureWrite", "illegal"}
           \/ /\ ~Before(req[r].snap, Target(req[r]))
              /\ req'[r].pc = IF req[r].mode \in {"recreate", "redo"} THEN "work" ELSE "commit"
        /\ req'[r].mode = req[r].mode
        /\ req'[r].job = req[r].job /\ req'[r].snap = req[r].snap /\ req'[r].op = req[r].op
    <3>1. PICK pc \in {"ensureWrite", "illegal", "work", "commit"} :
            /\ Goto(r, pc)
            /\ \/ pc \in {"ensureWrite", "illegal"}
               \/ /\ ~Before(req[r].snap, Target(req[r]))
                  /\ pc = IF req[r].mode \in {"recreate", "redo"} THEN "work" ELSE "commit"
      BY <1>11 DEF EnsureRead
    <3>2. pc \in PC
      BY DEF PC
    <3> QED
      BY <1>4, <2>2, <3>1, <3>2
  <2>4. ModeOK(r)'
    BY <2>1, <2>3 DEF ModeOK
  <2>5. ASSUME NEW j \in JobId, writes[r][j] \in ActiveStatus,
               ~Before(req[r].snap, Target(req[r]))
        PROVE  writes[r][j] = Target(req[r]) \/ writes[r][j] \in Settled
    BY <1>3, <2>1, <2>5, StageOrder DEF StageOK, StatusAt, Target
  <2>6. ASSUME NEW j \in JobId, writes[r][j] \in ActiveStatus
        PROVE  StatusAt(r, writes[r][j])'
    <3>1. CASE req'[r].pc = "commit"
      BY <1>2, <1>3, <2>1, <2>3, <2>5, <2>6, <3>1, StageOrder DEF StatusAt, Target
    <3>2. CASE req'[r].pc = "work"
      BY <1>2, <1>3, <2>1, <2>3, <2>6, <3>2, StageOrder DEF StageOK, StatusAt, Target
    <3>3. CASE req'[r].pc \in {"ensureWrite", "illegal"}
      BY <1>2, <2>1, <2>3, <2>6, <3>3 DEF StageOK, StatusAt
    <3> QED
      BY <2>3, <3>1, <3>2, <3>3
  <2>7. StageOK(r)'
    BY <1>2, <2>3, <2>6 DEF StageOK
  <2> QED
    BY <2>4, <2>7
<1> QED
  BY <1>5, <1>6, <1>7, <1>8, <1>9, <1>10, <1>11

\* The chain of transitions moves the request's row towards the target of its mode.
LEMMA WriteStage ==
    ASSUME IInv, NEW r \in Request, ModeOK(r), StageOK(r), FailWrite(r) \/ EnsureWrite(r)
    PROVE  ModeOK(r)' /\ StageOK(r)'
<1>1. RowsOK /\ LocalOK(r)
  BY DEF IInv, RequestOK
<1>2. req[r].job \in JobId /\ req[r].op \in Operations
  BY <1>1 DEF LocalOK, HasJob, FailWrite, EnsureWrite
<1>3. CASE FailWrite(r)
  <2>1. /\ \A k \in JobId :
              writes'[r][k] = IF k = req[r].job THEN "FAILED" ELSE writes[r][k]
        /\ req'[r].pc = IF req[r].mode = "recreate" THEN "create" ELSE "failed"
        /\ req'[r].mode = req[r].mode
    BY <1>1, <1>2, <1>3 DEF FailWrite, RowsOK, Goto
  <2>2. ModeOK(r)'
    BY <2>1 DEF ModeOK
  <2>3. StageOK(r)'
    BY <2>1, StatusFacts DEF StageOK
  <2> QED
    BY <2>2, <2>3
<1>4. CASE EnsureWrite(r)
  <2>1. /\ req[r].pc = "ensureWrite"
        /\ req[r].mode \in {"recreate", "redo", "reuse", "finish"}
    BY <1>4 DEF EnsureWrite, ModeOK
  <2>2. \A k \in JobId : writes'[r][k] = IF k = req[r].job THEN Target(req[r]) ELSE writes[r][k]
    BY <1>1, <1>2, <1>4 DEF EnsureWrite, RowsOK
  <2>3. req'[r] = [req[r] EXCEPT !.snap = Target(req[r]), !.pc = "ensure"] /\ req[r] \in LocalState
    BY <1>1, <1>4 DEF EnsureWrite, RowsOK
  <2>4. /\ req'[r].pc = "ensure" /\ req'[r].mode = req[r].mode /\ req'[r].op = req[r].op
        /\ req'[r].job = req[r].job /\ req'[r].snap = Target(req[r])
    BY <2>3 DEF LocalState
  <2>5. ModeOK(r)'
    BY <2>1, <2>4 DEF ModeOK
  <2>6. StatusAt(r, Target(req[r]))'
    BY <2>1, <2>4 DEF StatusAt, Target
  <2>7. \A k \in JobId : writes'[r][k] \in ActiveStatus
                           => k = req[r].job /\ writes'[r][k] = Target(req[r])
    BY <2>2 DEF StageOK
  <2>8. StageOK(r)'
    BY <2>4, <2>6, <2>7 DEF StageOK, StatusAt, Target
  <2> QED
    BY <2>5, <2>8
<1> QED
  BY <1>3, <1>4

\* Every step of r keeps what is known of the stage r has reached.
LEMMA OwnStage ==
    ASSUME IInv, NEW r \in Request, ModeOK(r), StageOK(r), Begin(r) \/ Step(r) \/ Crash(r)
    PROVE  ModeOK(r)' /\ StageOK(r)'
<1>1. RowsOK
  BY DEF IInv
<1>2. CASE RollbackSession(r) \/ Commit(r)
  <2>1. req'[r] = Idle /\ writes'[r] = [j \in JobId |-> None]
    BY <1>1, <1>2 DEF RollbackSession, Commit, RowsOK
  <2> QED
    BY <2>1, EndStage
<1>3. CASE Begin(r)
  <2>1. /\ req'[r].pc = "create" /\ req'[r].mode = "first"
        /\ writes'[r] = [j \in JobId |-> None]
    BY <1>1, <1>3 DEF Begin, Idle, RowsOK, IInv, RequestOK, LocalOK
  <2> QED
    BY <2>1, StatusFacts DEF ModeOK, StageOK
<1> QED
  BY <1>2, <1>3, CreateStage, ReadStage, WriteStage
     DEF Step, Crash, Raise, DeadlockVictim

\* What a request commits is a settled status or FAILED.
LEMMA CommittedStage ==
    ASSUME IInv, RInv, NEW r \in Request, Begin(r) \/ Step(r) \/ Crash(r)
    PROVE  CommittedSettled'
<1> SUFFICES ASSUME NEW j \in JobId, jobs'[j] \in ActiveStatus
             PROVE  jobs'[j] \in Settled
  BY DEF CommittedSettled, Settled, Ledger!Settled
<1>1. CASE jobs'[j] = jobs[j]
  BY <1>1 DEF RInv, CommittedSettled
<1>2. CASE Commit(r) /\ jobs'[j] = writes[r][j]
  BY <1>2 DEF RInv, StageOK, StatusAt, Commit
<1> QED
  BY <1>1, <1>2, CommittedRow DEF IInv

\* The strengthened invariant is inductive.
LEMMA NextStage == IInv /\ RInv /\ [Next]_vars => RInv'
<1> SUFFICES ASSUME IInv, RInv, [Next]_vars PROVE RInv'
  OBVIOUS
<1>1. CASE UNCHANGED vars
  BY <1>1 DEF vars, RInv, CommittedSettled, ModeOK, StageOK, StatusAt, Settled, Ledger!Settled
<1>2. ASSUME NEW r \in Request, Begin(r) \/ Step(r) \/ Crash(r)
      PROVE  RInv'
  <2>1. ASSUME NEW s \in Request \ {r} PROVE ModeOK(s)' /\ StageOK(s)'
    <3>1. req'[s] = req[s] /\ writes'[s] = writes[s]
      BY <1>2, <2>1, StepEffect DEF IInv
    <3> QED
      BY <2>1, <3>1 DEF RInv, ModeOK, StageOK, StatusAt, Settled, Ledger!Settled
  <2> QED
    BY <1>2, <2>1, OwnStage, CommittedStage DEF RInv
<1> QED
  BY <1>1, <1>2 DEF Next

-----------------------------------------------------------------------------
(* The refinement. *)

\* The initial states map to the ledger's initial state.
LEMMA InitLedger == Init => Ledger!Init
  BY DEF Init, Ledger!Init

\* A commit opens the ledger, moves its active job, replaces it, or, when the
\* request wrote nothing active, changes nothing.
LEMMA CommitLedger ==
    ASSUME IInv, RInv, NEW r \in Request, Commit(r)
    PROVE  [Ledger!Next]_jobs
<1>1. /\ RowsOK /\ OneActiveJob /\ ActiveJobRemains /\ OneActiveInView
      /\ RequestOK(r) /\ StageOK(r) /\ req[r].pc = "commit"
  BY DEF IInv, RInv, Commit
<1>2. jobs' = [k \in JobId |-> View(r, k)]
  BY DEF Commit
<1> DEFINE Closed(i) == writes[r][i] = "FAILED" /\ jobs[i] \in ActiveStatus
<1>3. ASSUME NEW k \in JobId, writes[r][k] \notin ActiveStatus, ~Closed(k)
      PROVE  jobs'[k] = jobs[k]
  <2>1. CASE writes[r][k] = None
    BY <1>2, <2>1 DEF View
  <2>2. CASE writes[r][k] = "FAILED"
    <3>1. jobs[k] = "FAILED"
      BY <1>1, <1>3, <2>2 DEF RequestOK, FailedWasRow, RowsOK, WrittenStatus
    <3> QED
      BY <1>2, <2>2, <3>1 DEF View
  <2> QED
    BY <1>1, <1>3, <2>1, <2>2 DEF RowsOK, WrittenStatus
<1>4. CASE \A k \in JobId : writes[r][k] \notin ActiveStatus
  <2>1. \A k \in JobId : ~Closed(k)
    BY <1>1, <1>4 DEF RequestOK, ClosedHasSuccessor
  <2>2. \A k \in JobId : jobs'[k] = jobs[k]
    BY <1>3, <1>4, <2>1
  <2>3. jobs' = jobs
    BY <1>1, <1>2, <2>2 DEF RowsOK
  <2> QED
    BY <2>3
<1>5. ASSUME NEW j \in JobId, writes[r][j] \in ActiveStatus
      PROVE  Ledger!Next
  <2> DEFINE s == writes[r][j]
  <2>1. s \in Settled /\ s # None /\ s # "FAILED"
    BY <1>1, <1>5, StatusFacts DEF StageOK, StatusAt
  <2>2. \A k \in JobId \ {j} : writes[r][k] \notin ActiveStatus
    BY <1>1, <1>5 DEF StageOK
  <2>3. jobs'[j] = s
    BY <1>2, <2>1 DEF View
  <2>4. jobs[j] # "FAILED"
    BY <1>1, <1>5 DEF RequestOK, FailedStays
  <2>5. CASE \E i \in JobId : Closed(i)
    <3>1. PICK i \in JobId : Closed(i)
      BY <2>5
    <3>2. i # j
      BY <2>1, <3>1
    <3>3. jobs[j] = None
      BY <1>1, <2>4, <3>1, <3>2 DEF OneActiveJob, RowsOK, WrittenStatus
    <3>4. jobs[i] \in Settled
      BY <3>1 DEF RInv, CommittedSettled
    <3>5. \A k \in JobId \ {i, j} : jobs'[k] = jobs[k]
      <4> SUFFICES ASSUME NEW k \in JobId \ {i, j} PROVE jobs'[k] = jobs[k]
        OBVIOUS
      <4>1. ~Closed(k)
        BY <1>1, <3>1 DEF OneActiveJob
      <4> QED
        BY <1>3, <2>2, <4>1
    <3>6. jobs'[i] = "FAILED"
      BY <1>2, <3>1, StatusFacts DEF View
    <3>7. jobs' = [jobs EXCEPT ![i] = "FAILED", ![j] = s]
      BY <1>1, <1>2, <2>3, <3>2, <3>5, <3>6 DEF RowsOK
    <3>8. Ledger!Replace(i, j, s)
      BY <3>3, <3>4, <3>7 DEF Ledger!Replace, Settled
    <3> QED
      BY <2>1, <3>8 DEF Ledger!Next, Settled
  <2>6. CASE \A i \in JobId : ~Closed(i)
    <3>1. \A k \in JobId \ {j} : jobs'[k] = jobs[k]
      BY <1>3, <2>2, <2>6
    <3>2. jobs' = [jobs EXCEPT ![j] = s]
      BY <1>1, <1>2, <2>3, <3>1 DEF RowsOK
    <3>3. CASE jobs[j] \in ActiveStatus
      <4>1. Ledger!Move(j, s)
        BY <3>2, <3>3 DEF Ledger!Move, Settled, RInv, CommittedSettled
      <4> QED
        BY <2>1, <4>1 DEF Ledger!Next, Settled
    <3>4. CASE jobs[j] = None
      <4>1. ASSUME NEW k \in JobId, jobs[k] # None PROVE FALSE
        <5>1. PICK m \in JobId : jobs[m] \in ActiveStatus
          BY <1>1, <4>1 DEF ActiveJobRemains
        <5>2. m # j
          BY <3>4, <5>1, StatusFacts
        <5>3. jobs'[m] \in ActiveStatus /\ jobs'[j] \in ActiveStatus
          BY <1>5, <2>3, <3>1, <5>1, <5>2
        <5> QED
          BY <1>1, <1>2, <5>2, <5>3 DEF OneActiveInView
      <4>2. Ledger!Open(j, s)
        BY <3>2, <4>1 DEF Ledger!Open
      <4> QED
        BY <2>1, <4>2 DEF Ledger!Next, Settled
    <3> QED
      BY <1>1, <2>4, <3>3, <3>4 DEF RowsOK, WrittenStatus
  <2> QED
    BY <2>5, <2>6
<1> QED
  BY <1>4, <1>5

\* A step of the control plane is a step of the ledger or leaves the rows alone.
LEMMA StepLedger == IInv /\ RInv /\ [Next]_vars => [Ledger!Next]_jobs
<1> SUFFICES ASSUME IInv, RInv, [Next]_vars PROVE [Ledger!Next]_jobs
  OBVIOUS
<1>1. CASE UNCHANGED vars
  BY <1>1 DEF vars
<1>2. ASSUME NEW r \in Request, Begin(r) \/ Step(r) \/ Crash(r)
      PROVE  [Ledger!Next]_jobs
  BY <1>2, StepEffect, CommitLedger DEF IInv
<1> QED
  BY <1>1, <1>2 DEF Next

\* The rows of a version change only as the ledger allows: a first job, a settled
\* status of the active job, or a closed job together with its successor.
THEOREM Refinement == Spec => ImplementsLedger
<1>1. Init => IInv /\ RInv
  BY InitInvariant, InitStage
<1>2. IInv /\ RInv /\ [Next]_vars => (IInv /\ RInv)'
  BY NextInvariant, NextStage
<1>3. Spec => [](IInv /\ RInv)
  BY <1>1, <1>2, PTL DEF Spec
<1> QED
  BY <1>3, InitLedger, StepLedger, PTL DEF Spec, ImplementsLedger, Ledger!Spec
==============================================================================
