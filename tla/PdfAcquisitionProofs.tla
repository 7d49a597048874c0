------------------------- MODULE PdfAcquisitionProofs -------------------------
(***************************************************************************)
(* As long as nothing outside the service touches the stored files, any    *)
(* number of concurrent, failing, retried and restarted ingests keep the   *)
(* promises of PdfAcquisition.  The argument: without damage a job implies *)
(* its file, so nobody closes a job; then whoever downloads has inserted   *)
(* the version's first job and holds the slot of the unique index, which   *)
(* makes the shared temporary file its own until it ends.                  *)
(***************************************************************************)
EXTENDS PdfAcquisition, TLAPS

Downloading == {"open", "stream", "validate", "checksum", "finalize", "cleanup"}
Reconciling == {"isFile", "hash", "stat", "commit"}

FilesOK ==
    /\ data \in [Inode -> Seq({"pdf", "zero", "bad"})]
    /\ part \in Inode \cup {None}
    /\ final \in Inode \cup {None}
    /\ final # None => data[final] = Complete /\ part # final

Job == [id : Nat, status : {"none", "downloaded", "past"}]

Local == [pc : PC, version : {None, Complete}, snap : Job, handle : Inode \cup {None},
          offset : Nat, retries : Nat, sum : {None, Complete}]

RowsOK ==
    /\ recorded \in {None, Complete}
    /\ job \in Job
    /\ req \in [Request -> Local]
    /\ job.status # "none" => final # None
    /\ slot # None => job.status = "none"

\* Where a request can be, and that it holds the slot unless it found a job.
PlaceOK(r) ==
    /\ req[r].pc \in Downloading \cup Reconciling \cup {"idle", "create", "abort"}
    /\ req[r].pc \in Downloading => slot = r /\ final = None
    /\ req[r].pc \in Reconciling => slot = r \/ job.status # "none"
    /\ req[r].pc = "isFile" /\ req[r].snap.status # "none" => job.status # "none"
    /\ req[r].pc \in {"hash", "stat", "commit"} => final # None

\* What the downloading request has on disk.
DownloadOK(r) ==
    /\ req[r].pc = "stream" =>
         /\ req[r].offset \in 0..Blocks
         /\ req[r].handle = part /\ part # None
         /\ data[part] = [i \in 1..req[r].offset |-> "pdf"]
    /\ req[r].handle # None => req[r].pc = "stream"
    /\ req[r].pc \in {"validate", "checksum", "finalize"} => part # None /\ data[part] = Complete
    /\ req[r].pc \in {"finalize", "stat", "commit"} => req[r].sum = Complete

RequestOK(r) == PlaceOK(r) /\ DownloadOK(r)

IInv == FilesOK /\ RowsOK /\ \A r \in Request : RequestOK(r)

-----------------------------------------------------------------------------
\* The empty directory and the empty tables satisfy the invariant.
LEMMA InitInvariant == Init => IInv
  BY NoneIsNothing DEF Init, IInv, FilesOK, RowsOK, Local, Job, PC, RequestOK, PlaceOK, DownloadOK,
                       Idle, Downloading, Reconciling

\* A block written at the end of a file of k blocks makes it k + 1 blocks long.
LEMMA WrittenAtEnd ==
    ASSUME NEW k \in Nat
    PROVE  Written([i \in 1..k |-> "pdf"], k) = [i \in 1..(k + 1) |-> "pdf"]
<1> DEFINE d == [i \in 1..k |-> "pdf"]
<1>1. Len(d) = k
  BY DEF d
<1> QED
  BY <1>1 DEF Written

\* What a step of r may not do to anybody else: end another's hold on the slot,
\* undo a job, remove the stored file, or touch the files without the slot.
StepKeeps(r) ==
    /\ \A s \in Request \ {r} : req'[s] = req[s] /\ (slot = s => slot' = s)
    /\ job.status # "none" => job'.status # "none"
    /\ final # None => final' # None
    /\ slot = r \/ UNCHANGED Files

\* A step of r that keeps to this leaves the other requests' invariant alone.
LEMMA OthersStep ==
    ASSUME IInv, NEW r \in Request, StepKeeps(r), NEW s \in Request \ {r}
    PROVE  RequestOK(s)'
<1>1. RequestOK(s) /\ req'[s] = req[s]
  BY DEF IInv, StepKeeps
<1>2. slot = s => UNCHANGED Files
  BY DEF StepKeeps
<1>3. PlaceOK(s)'
  BY <1>1, <1>2 DEF RequestOK, PlaceOK, StepKeeps, Files, Downloading, Reconciling
<1>4. req[s].pc \in Downloading => UNCHANGED Files
  BY <1>1, <1>2 DEF RequestOK, PlaceOK
<1>5. DownloadOK(s)'
  BY <1>1, <1>4 DEF RequestOK, DownloadOK, Files, Downloading
<1> QED
  BY <1>3, <1>5 DEF RequestOK

\* What a step of r establishes.
Good(r) == FilesOK' /\ RowsOK' /\ RequestOK(r)' /\ StepKeeps(r)

\* The steps that leave files and rows alone and only move on: the new place and
\* what is known there decide.
LEMMA MoveOn ==
    ASSUME IInv, NEW r \in Request, NEW pc \in PC, Goto(r, pc), UNCHANGED <<Files, Rows>>,
           pc \in Downloading \cup Reconciling \cup {"abort"},
           pc \in Downloading => slot = r /\ final = None,
           pc \in Reconciling => (slot = r \/ job.status # "none") /\ pc # "isFile",
           pc \in {"hash", "stat", "commit"} => final # None,
           req[r].handle = None, pc # "stream",
           pc \in {"validate", "checksum", "finalize"} => part # None /\ data[part] = Complete,
           pc \in {"finalize", "stat", "commit"} => req[r].sum = Complete
    PROVE  Good(r)
<1>1. /\ req' \in [Request -> Local]
      /\ req'[r].pc = pc /\ req'[r].handle = None /\ req'[r].sum = req[r].sum
      /\ \A s \in Request \ {r} : req'[s] = req[s]
  BY DEF Goto, IInv, RowsOK, Local
<1>2. FilesOK' /\ RowsOK' /\ StepKeeps(r)
  BY <1>1 DEF IInv, FilesOK, RowsOK, StepKeeps, Files, Rows
<1>3. RequestOK(r)'
  BY <1>1, NoneIsNothing DEF RequestOK, PlaceOK, DownloadOK, Files, Rows, Downloading, Reconciling
<1> QED
  BY <1>2, <1>3 DEF Good

\* The decisions of reconciliation and of the checks on the temporary file.
LEMMA DecideStep ==
    ASSUME IInv, NEW r \in Request, IsFile(r) \/ Stat(r) \/ Validate(r)
    PROVE  Good(r)
<1>1. RequestOK(r) /\ req[r].handle = None
  BY DEF IInv, RequestOK, DownloadOK, IsFile, Stat, Validate
<1>2. CASE IsFile(r)
  <2>1. CASE final = None
    <3>1. slot = r /\ req[r].snap.status = "none" /\ StaleOrNew(r) = "open"
      BY <1>1, <1>2, <2>1 DEF IInv, RowsOK, RequestOK, PlaceOK, IsFile, StaleOrNew, Reconciling
    <3>2. Goto(r, "open") /\ UNCHANGED <<Files, Rows>>
      BY <1>2, <2>1, <3>1 DEF IsFile
    <3> QED
      BY <1>1, <2>1, <3>1, <3>2, MoveOn DEF PC, Downloading, Reconciling
  <2>2. CASE final # None
    <3>1. Goto(r, "hash") /\ UNCHANGED <<Files, Rows>> /\ (slot = r \/ job.status # "none")
      BY <1>1, <1>2, <2>2 DEF IsFile, RequestOK, PlaceOK, Reconciling
    <3> QED
      BY <1>1, <2>2, <3>1, MoveOn DEF PC, Downloading, Reconciling
  <2> QED
    BY <2>1, <2>2
<1>3. CASE Stat(r)
  <2>1. /\ Goto(r, "commit") /\ UNCHANGED <<Files, Rows>> /\ final # None
        /\ (slot = r \/ job.status # "none") /\ req[r].sum = Complete
    BY <1>1, <1>3 DEF Stat, RequestOK, PlaceOK, DownloadOK, Reconciling
  <2> QED
    BY <1>1, <2>1, MoveOn DEF PC, Downloading, Reconciling
<1>4. CASE Validate(r)
  <2>1. /\ part # None /\ data[part] = Complete /\ slot = r /\ final = None
    BY <1>1, <1>4 DEF Validate, RequestOK, PlaceOK, DownloadOK, Downloading
  <2>2. \E pc \in {"checksum", "cleanup"} : Goto(r, pc) /\ UNCHANGED <<Files, Rows>>
    BY <1>4 DEF Validate
  <2> QED
    BY <1>1, <2>1, <2>2, MoveOn DEF PC, Downloading, Reconciling
<1> QED
  BY <1>2, <1>3, <1>4

\* A request begins, obtains its job, or hashes a file.
LEMMA ReadStep ==
    ASSUME IInv, NEW r \in Request, Begin(r) \/ Create(r) \/ Hash(r) \/ Checksum(r)
    PROVE  Good(r)
<1>1. RequestOK(r) /\ req[r].handle = None /\ FilesOK /\ RowsOK
  BY DEF IInv, RequestOK, DownloadOK, Begin, Create, Hash, Checksum
<1>t. req \in [Request -> Local] /\ job \in Job
  BY <1>1 DEF RowsOK
<1>2. CASE Begin(r)
  <2>1. /\ req'[r].pc = "create" /\ req'[r].handle = None
        /\ \A s \in Request \ {r} : req'[s] = req[s]
    BY <1>1, <1>2 DEF Begin, RowsOK, Idle
  <2>2. RowsOK'
    BY <1>1, <1>2 DEF Begin, RowsOK, Local, Idle, PC, Job, Files, Rows
  <2> QED
    BY <1>1, <1>2, <2>1, <2>2
    DEF Good, Begin, FilesOK, RequestOK, PlaceOK, DownloadOK, StepKeeps, Files, Rows,
        Downloading, Reconciling
<1>3. CASE Create(r)
  <2>1. /\ req'[r].pc = "isFile" /\ req'[r].handle = None /\ req'[r].snap = job
        /\ \A s \in Request \ {r} : req'[s] = req[s]
        /\ UNCHANGED <<Files, recorded, job>>
        /\ slot' = slot \/ slot = None
        /\ slot' = r \/ job.status # "none"
    BY <1>1, <1>3 DEF Create, RowsOK, MayInsert
  <2> req' = [req EXCEPT ![r] = [@ EXCEPT !.pc = "isFile", !.snap = job]]
    BY <1>3 DEF Create
  <2>2. req' \in [Request -> Local]
    BY <1>t DEF Local, PC
  <2>3. RowsOK'
    BY <1>1, <1>3, <2>2, NoneIsNothing DEF Create, RowsOK, Files, MayInsert
  <2> QED
    BY <1>1, <2>1, <2>3, NoneIsNothing
    DEF Good, FilesOK, RequestOK, PlaceOK, DownloadOK, StepKeeps, Files,
        Downloading, Reconciling
<1>4. CASE Hash(r)
  <2>1. /\ final # None /\ data[final] = Complete /\ (slot = r \/ job.status # "none")
    BY <1>1, <1>4 DEF Hash, RequestOK, PlaceOK, FilesOK, Reconciling
  <2>2. req[r].version \in {None, Complete}
    BY <1>t DEF Local
  <2>3. /\ req' = [req EXCEPT ![r] = [@ EXCEPT !.sum = Complete, !.pc = "stat"]]
        /\ UNCHANGED <<Files, Rows>>
    BY <1>4, <2>1, <2>2 DEF Hash
  <2>4. /\ req'[r].pc = "stat" /\ req'[r].handle = None /\ req'[r].sum = Complete
        /\ \A s \in Request \ {r} : req'[s] = req[s]
    BY <1>1, <2>3 DEF RowsOK
  <2> req' \in [Request -> Local]
    BY <1>t, <2>3 DEF Local, PC
  <2>5. RowsOK'
    BY <1>1, <2>3 DEF RowsOK, Files, Rows
  <2> QED
    BY <1>1, <2>1, <2>3, <2>4, <2>5
    DEF Good, FilesOK, RequestOK, PlaceOK, DownloadOK, StepKeeps, Files, Rows,
        Downloading, Reconciling
<1>5. CASE Checksum(r)
  <2>1. /\ part # None /\ data[part] = Complete /\ slot = r /\ final = None
    BY <1>1, <1>5 DEF Checksum, RequestOK, PlaceOK, DownloadOK, Downloading
  <2>2. /\ req' = [req EXCEPT ![r] = [@ EXCEPT !.pc = "finalize", !.sum = Complete]]
        /\ UNCHANGED <<Files, Rows>>
    BY <1>5, <2>1 DEF Checksum
  <2>3. /\ req'[r].pc = "finalize" /\ req'[r].handle = None /\ req'[r].sum = Complete
        /\ \A s \in Request \ {r} : req'[s] = req[s]
    BY <1>1, <2>2 DEF RowsOK
  <2> req' \in [Request -> Local]
    BY <1>t, <2>2 DEF Local, PC
  <2>4. RowsOK'
    BY <1>1, <2>2 DEF RowsOK, Files, Rows
  <2> QED
    BY <1>1, <2>1, <2>2, <2>3, <2>4
    DEF Good, FilesOK, RequestOK, PlaceOK, DownloadOK, StepKeeps, Files, Rows,
        Downloading, Reconciling
<1> QED
  BY <1>2, <1>3, <1>4, <1>5

\* An attempt that ended leaves the holder of the slot without an open file.
LEMMA LeaveFile ==
    ASSUME IInv, NEW r \in Request, slot = r, final = None,
           NEW q \in Local, q.pc \in {"open", "cleanup"}, q.handle = None,
           req' = [req EXCEPT ![r] = q],
           UNCHANGED <<final, data, Rows>>, part' \in {part, None}
    PROVE  Good(r)
<1>1. /\ req' \in [Request -> Local] /\ req'[r] = q
      /\ \A s \in Request \ {r} : req'[s] = req[s]
  BY DEF IInv, RowsOK
<1>2. RowsOK' /\ FilesOK' /\ StepKeeps(r)
  BY <1>1 DEF IInv, FilesOK, RowsOK, Rows, StepKeeps
<1>3. RequestOK(r)'
  BY <1>1 DEF RequestOK, PlaceOK, DownloadOK, Rows, Downloading, Reconciling
<1> QED
  BY <1>2, <1>3 DEF Good

\* The steps of the download client, which only the holder of the slot takes.
LEMMA ClientStep ==
    ASSUME IInv, NEW r \in Request,
           Open(r) \/ Write(r) \/ Downloaded(r) \/ TransientFailure(r) \/ PermanentFailure(r)
    PROVE  Good(r)
<1>1. /\ RequestOK(r) /\ FilesOK /\ RowsOK /\ slot = r /\ final = None
      /\ req[r].pc \in {"open", "stream"}
  BY DEF IInv, RequestOK, PlaceOK, Open, Write, Downloaded, TransientFailure, PermanentFailure,
         Downloading
<1>t. req \in [Request -> Local]
  BY <1>1 DEF RowsOK
<1>2. CASE Open(r)
  <2>1. PICK i \in Inode :
          /\ part' = i
          /\ data' = [data EXCEPT ![i] = <<>>]
          /\ req' = [req EXCEPT ![r] = [@ EXCEPT !.pc = "stream", !.handle = i, !.offset = 0]]
    BY <1>2 DEF Open
  <2>2. /\ req'[r].pc = "stream" /\ req'[r].handle = i /\ req'[r].offset = 0
        /\ \A s \in Request \ {r} : req'[s] = req[s]
    BY <1>1, <2>1 DEF RowsOK
  <2> req' \in [Request -> Local]
    BY <1>t, <2>1 DEF Local, PC
  <2>3. RowsOK' /\ UNCHANGED <<final, Rows>>
    BY <1>1, <1>2 DEF Open, RowsOK, Rows
  <2>4. FilesOK' /\ data'[i] = [k \in 1..0 |-> "pdf"]
    BY <1>1, <2>1, <2>3, NoneIsNothing DEF FilesOK
  <2> QED
    BY <1>1, <2>1, <2>2, <2>3, <2>4, NoneIsNothing, BoundAssumption
    DEF Good, RequestOK, PlaceOK, DownloadOK, StepKeeps, Files, Rows, Downloading, Reconciling
<1>3. CASE Write(r)
  <2> DEFINE n == req[r].offset
  <2>1. /\ n \in 0..Blocks /\ n < Blocks /\ part # None /\ req[r].handle = part
        /\ data[part] = [k \in 1..n |-> "pdf"] /\ n \in Nat /\ part \in Inode
    BY <1>1, <1>3 DEF Write, RequestOK, DownloadOK, RowsOK, FilesOK
  <2>2. /\ data' = [data EXCEPT ![part] = [k \in 1..(n + 1) |-> "pdf"]]
        /\ req' = [req EXCEPT ![r].offset = n + 1] /\ UNCHANGED <<final, part, Rows>>
    BY <1>3, <2>1, WrittenAtEnd DEF Write
  <2>3. /\ req'[r].pc = "stream" /\ req'[r].handle = part /\ req'[r].offset = n + 1
        /\ \A s \in Request \ {r} : req'[s] = req[s]
    BY <1>1, <1>3, <2>1, <2>2 DEF RowsOK, Write
  <2>n. n + 1 \in Nat
    BY <2>1
  <2> req' \in [Request -> Local]
    <3> HIDE DEF n
    <3> QED
      BY <1>t, <2>n, <2>2 DEF Local
  <2>4. RowsOK'
    BY <1>1, <2>1, <2>2 DEF RowsOK, Rows
  <2>5. [k \in 1..(n + 1) |-> "pdf"] \in Seq({"pdf", "zero", "bad"})
    BY <2>1
  <2>6. FilesOK' /\ data'[part'] = [k \in 1..(n + 1) |-> "pdf"] /\ n + 1 \in 0..Blocks
    BY <1>1, <2>1, <2>2, <2>5, BoundAssumption DEF FilesOK
  <2> QED
    BY <1>1, <2>1, <2>2, <2>3, <2>4, <2>6
    DEF Good, RequestOK, PlaceOK, DownloadOK, StepKeeps, Files, Rows, Downloading, Reconciling
<1>4. CASE Downloaded(r)
  <2>1. /\ part # None /\ data[part] = Complete
    BY <1>1, <1>4 DEF Downloaded, RequestOK, DownloadOK, Complete
  <2>2. /\ req'[r].pc = "validate" /\ req'[r].handle = None
        /\ \A s \in Request \ {r} : req'[s] = req[s]
    BY <1>1, <1>4 DEF RowsOK, Downloaded
  <2> req' \in [Request -> Local]
    BY <1>t, <1>4 DEF Local, PC, Downloaded
  <2>3. RowsOK' /\ UNCHANGED <<Files, Rows>>
    BY <1>1, <1>4 DEF RowsOK, Downloaded, Files, Rows
  <2> QED
    BY <1>1, <2>1, <2>2, <2>3
    DEF Good, FilesOK, RequestOK, PlaceOK, DownloadOK, StepKeeps, Files, Rows,
        Downloading, Reconciling
<1>5. CASE TransientFailure(r) \/ PermanentFailure(r)
  <2>1. /\ UNCHANGED <<final, data, Rows>> /\ part' \in {part, None}
        /\ req[r].retries \in Nat /\ req[r].retries + 1 \in Nat
    BY <1>t, <1>5 DEF TransientFailure, PermanentFailure, Files, Rows, Local
  <2>2. CASE req' = [req EXCEPT ![r] = [@ EXCEPT !.pc = "open", !.retries = req[r].retries + 1,
                                                 !.handle = None, !.offset = 0]]
    <3> DEFINE q == [req[r] EXCEPT !.pc = "open", !.retries = req[r].retries + 1,
                                   !.handle = None, !.offset = 0]
    <3>1. q \in Local /\ q.pc = "open" /\ q.handle = None
      BY <1>t, <2>1 DEF Local, PC
    <3>2. req' = [req EXCEPT ![r] = q]
      BY <2>2
    <3> QED
      BY <1>1, <2>1, <3>1, <3>2, LeaveFile
  <2>3. CASE req' = [req EXCEPT ![r] = [@ EXCEPT !.pc = "cleanup",
                                                 !.handle = None, !.offset = 0]]
    <3> DEFINE q == [req[r] EXCEPT !.pc = "cleanup", !.handle = None, !.offset = 0]
    <3>1. q \in Local /\ q.pc = "cleanup" /\ q.handle = None
      BY <1>t DEF Local, PC
    <3>2. req' = [req EXCEPT ![r] = q]
      BY <2>3, Zenon
    <3> QED
      BY <1>1, <2>1, <3>1, <3>2, LeaveFile
  <2> QED
    BY <1>5, <2>2, <2>3 DEF TransientFailure, PermanentFailure
<1> QED
  BY <1>2, <1>3, <1>4, <1>5

\* Publishing or removing the temporary file, and the end of the request.
LEMMA EndStep ==
    ASSUME IInv, NEW r \in Request, Finalize(r) \/ Cleanup(r) \/ Commit(r) \/ Abort(r)
    PROVE  Good(r)
<1>1. RequestOK(r) /\ FilesOK /\ RowsOK
  BY DEF IInv
<1>t. req \in [Request -> Local]
  BY <1>1 DEF RowsOK
<1>2. CASE Finalize(r)
  <2>1. /\ slot = r /\ final = None /\ part # None /\ data[part] = Complete
        /\ req[r].sum = Complete /\ req[r].handle = None
    BY <1>1, <1>2 DEF Finalize, RequestOK, PlaceOK, DownloadOK, Downloading
  <2>2. Goto(r, "commit") /\ final' = part /\ part' = None /\ UNCHANGED <<data, Rows>>
    BY <1>2, <2>1 DEF Finalize
  <2>3. /\ req'[r].pc = "commit" /\ req'[r].handle = None /\ req'[r].sum = Complete
        /\ \A s \in Request \ {r} : req'[s] = req[s]
    BY <1>1, <2>1, <2>2 DEF RowsOK, Goto
  <2> req' \in [Request -> Local]
    BY <1>t, <2>2 DEF Local, PC, Goto
  <2>4. RowsOK'
    BY <1>1, <2>1, <2>2 DEF RowsOK, Rows
  <2> QED
    BY <1>1, <2>1, <2>2, <2>3, <2>4
    DEF Good, FilesOK, RequestOK, PlaceOK, DownloadOK, StepKeeps, Files, Rows,
        Downloading, Reconciling
<1>3. CASE Cleanup(r)
  <2>1. slot = r /\ final = None /\ req[r].handle = None
    BY <1>1, <1>3 DEF Cleanup, RequestOK, PlaceOK, DownloadOK, Downloading
  <2>2. /\ req'[r].pc = "abort" /\ req'[r].handle = None
        /\ \A s \in Request \ {r} : req'[s] = req[s]
    BY <1>1, <1>3, <2>1 DEF RowsOK, Goto, Cleanup
  <2> req' \in [Request -> Local]
    BY <1>t, <1>3 DEF Local, PC, Goto, Cleanup
  <2>3. RowsOK' /\ UNCHANGED <<final, data, Rows>> /\ part' = None
    BY <1>1, <1>3 DEF RowsOK, Rows, Cleanup
  <2> QED
    BY <1>1, <2>1, <2>2, <2>3
    DEF Good, FilesOK, RequestOK, PlaceOK, DownloadOK, StepKeeps, Files, Rows,
        Downloading, Reconciling
<1>4. CASE Commit(r) \/ Abort(r)
  <2>1. /\ req'[r] = Idle /\ \A s \in Request \ {r} : req'[s] = req[s]
        /\ UNCHANGED Files /\ slot' = IF slot = r THEN None ELSE slot
    BY <1>1, <1>4 DEF RowsOK, Commit, Abort, Release
  <2>2. /\ req[r].pc = "commit" /\ Commit(r) => final # None /\ req[r].sum = Complete
        /\ Commit(r) => req[r].pc = "commit"
    BY <1>1 DEF RequestOK, PlaceOK, DownloadOK, Commit
  <2>3. recorded' \in {None, Complete} /\ job' \in Job
        /\ (job'.status # "none" => final # None)
        /\ (job.status # "none" => job'.status # "none")
        /\ (job' = job \/ slot' = None)
    BY <1>1, <1>4, <2>2 DEF RowsOK, Commit, Abort, Job, Release
  <2>4. RowsOK'
    BY <1>1, <1>4, <2>1, <2>3 DEF RowsOK, Commit, Abort, Idle, Local, Job, PC, Files
  <2> QED
    BY <1>1, <2>1, <2>3, <2>4
    DEF Good, FilesOK, RequestOK, PlaceOK, DownloadOK, StepKeeps, Files, Idle,
        Downloading, Reconciling
<1> QED
  BY <1>2, <1>3, <1>4

\* Without damage no step preserves less than the invariant.
LEMMA NextInvariant == ASSUME Damage = {} PROVE IInv /\ [Next]_vars => IInv'
<1> SUFFICES ASSUME IInv, [Next]_vars PROVE IInv'
  OBVIOUS
<1>1. CASE UNCHANGED vars
  BY <1>1 DEF vars, IInv, FilesOK, RowsOK, RequestOK, PlaceOK, DownloadOK
<1>2. ASSUME NEW r \in Request, Step(r)
      PROVE  IInv'
  <2>1. ~FailRead(r) /\ ~FailWrite(r) /\ ~Recreate(r) /\ ~Delete(r)
    BY DEF IInv, RequestOK, PlaceOK, FailRead, FailWrite, Recreate, Delete,
           Downloading, Reconciling
  <2>2. Good(r)
    BY <1>2, <2>1, DecideStep, ReadStep, ClientStep, EndStep DEF Step
  <2>3. \A s \in Request : RequestOK(s)'
    BY <2>2, OthersStep DEF Good
  <2> QED
    BY <2>2, <2>3 DEF Good, IInv
<1>3. CASE Restart
  BY <1>3, NoneIsNothing
  DEF Restart, Files, IInv, FilesOK, RowsOK, Local, Job, PC, RequestOK, PlaceOK, DownloadOK, Idle,
      Downloading, Reconciling
<1>4. CASE Advance
  <2>1. /\ UNCHANGED <<Files, recorded, slot, req>> /\ job' \in Job
        /\ job.status # "none" /\ job'.status # "none" /\ slot = None
    BY <1>4 DEF Advance, IInv, RowsOK, Job
  <2> QED
    BY <2>1, NoneIsNothing DEF Files, IInv, FilesOK, RowsOK, RequestOK, PlaceOK, DownloadOK
<1>5. ~Harm
  BY DEF Harm
<1> QED
  BY <1>1, <1>2, <1>3, <1>4, <1>5 DEF Next

\* The invariant holds in every reachable state when nothing damages the files.
LEMMA Invariant == ASSUME Damage = {} PROVE Spec => []IInv
  BY InitInvariant, NextInvariant, PTL DEF Spec

-----------------------------------------------------------------------------
\* For any number of concurrent ingests, failures, retries and restarts, the final
\* path never shows a partial file while nothing outside touches it.
THEOREM NeverPartial == ASSUME Damage = {} PROVE Spec => []FinalNeverPartial
<1>1. IInv => FinalNeverPartial
  BY DEF IInv, FilesOK, FinalNeverPartial
<1> QED
  BY <1>1, Invariant, PTL

\* Under the same assumption no checksum of a partial file is ever recorded.
THEOREM RecordedComplete == ASSUME Damage = {} PROVE Spec => []RecordedIsComplete
<1>1. IInv => RecordedIsComplete
  BY DEF IInv, RowsOK, RecordedIsComplete
<1> QED
  BY <1>1, Invariant, PTL

\* Under the same assumption every success is truthful: the file is there, complete,
\* and what the row records is its checksum.
THEOREM Truthful == ASSUME Damage = {} PROVE Spec => TruthfulResult
<1>1. IInv /\ [Next]_vars =>
        [\A r \in Request : Commit(r)
           => final # None /\ data[final] = Complete /\ recorded' = Complete]_vars
  <2> SUFFICES ASSUME IInv, NEW r \in Request, Commit(r)
               PROVE  final # None /\ data[final] = Complete /\ recorded' = Complete
    OBVIOUS
  <2>1. RequestOK(r) /\ req[r].pc = "commit" /\ recorded' = req[r].sum /\ FilesOK
    BY DEF IInv, Commit
  <2> QED
    BY <2>1 DEF RequestOK, PlaceOK, DownloadOK, FilesOK
<1> QED
  BY <1>1, Invariant, PTL DEF Spec, TruthfulResult

-----------------------------------------------------------------------------
(* Types hold whatever happens to the stored files: a file with a handle is *)
(* never a damaged one, and only its holder closes a job.                   *)

Plain == UNION {[1..n -> {"pdf", "zero"}] : n \in 0..Blocks}

LocalOK(q) ==
    /\ q.handle # None => q.pc = "stream"
    /\ q.pc = "stream" => q.handle # None
    /\ q.pc = "failWrite" => q.snap.id < MaxJobs

JobOK ==
    /\ slot # None => job.id < MaxJobs
    /\ job.status = "none" => job.id = 0

HandlesOK == \A r \in Request : req[r].handle # None => data[req[r].handle] \in Plain

TInv == TypeOK /\ JobOK /\ HandlesOK /\ \A r \in Request : LocalOK(req[r])

\* The contents of a file, and the bounds on what is counted.
LEMMA PlainContent ==
    /\ Plain \subseteq Content /\ <<>> \in Plain /\ Damaged \in Content
    /\ 0 \in 0..Blocks /\ 0 \in 0..MaxRetries /\ MaxJobs \in Nat \ {0}
<1>1. 0 \in 0..Blocks /\ 0 \in 0..MaxRetries /\ MaxJobs \in Nat \ {0}
  BY BoundAssumption
<1>2. <<>> \in [1..0 -> {"pdf", "zero"}]
  OBVIOUS
<1>3. <<>> \in Plain
  BY <1>1, <1>2 DEF Plain
<1>4. Content = Plain \cup {Damaged}
  BY DEF Plain, Content
<1> QED
  BY <1>1, <1>3, <1>4

\* A block more is a content that a download can have written.
LEMMA WrittenPlain ==
    ASSUME NEW d \in Plain, NEW n \in 0..Blocks, n < Blocks
    PROVE  Written(d, n) \in Plain
<1>1. PICK m \in 0..Blocks : d \in [1..m -> {"pdf", "zero"}]
  BY DEF Plain
<1>2. Len(d) = m /\ m \in Nat
  BY <1>1, BoundAssumption
<1> DEFINE k == IF m > n THEN m ELSE n + 1
<1>3. k \in 0..Blocks
  BY <1>1, BoundAssumption
<1>4. Written(d, n) \in [1..k -> {"pdf", "zero"}]
  BY <1>1, <1>2, BoundAssumption DEF Written
<1> QED
  BY <1>3, <1>4 DEF Plain

\* One request moves to a well-typed state; files and rows stay.
LEMMA OneMoves ==
    ASSUME TInv, NEW r \in Request, NEW x \in LocalState, LocalOK(x),
           req' = [req EXCEPT ![r] = x],
           data' = data, final' \in {final, part, None}, part' \in {part, None},
           x.handle \in {None, req[r].handle},
           recorded' \in Content \cup {None}, job' = job,
           slot' \in {slot, None} \/ (slot' = r /\ job.id < MaxJobs)
    PROVE  TInv'
<1>1. req' \in [Request -> LocalState] /\ req'[r] = x /\ \A s \in Request \ {r} : req'[s] = req[s]
  BY DEF TInv, TypeOK
<1>2. TypeOK'
  BY <1>1 DEF TInv, TypeOK
<1>3. HandlesOK' /\ JobOK'
  BY <1>1, NoneIsNothing DEF TInv, HandlesOK, JobOK
<1>4. \A s \in Request : LocalOK(req'[s])
  BY <1>1 DEF TInv
<1>5. \A s \in Request : LocalOK(req[s])'
  BY <1>4 DEF LocalOK
<1> QED
  BY <1>2, <1>3, <1>5 DEF TInv

\* The same for the actions that only move on.
LEMMA GoesTo ==
    ASSUME TInv, NEW r \in Request, NEW pc \in PC, Goto(r, pc),
           pc # "stream", req[r].pc # "stream", pc = "failWrite" => req[r].snap.id < MaxJobs,
           data' = data, final' \in {final, part, None}, part' \in {part, None},
           recorded' = recorded, job' = job,
           slot' = slot \/ (slot' = r /\ job.id < MaxJobs)
    PROVE  TInv'
<1> DEFINE x == [req[r] EXCEPT !.pc = pc]
<1>1. req[r] \in LocalState /\ LocalOK(req[r]) /\ recorded \in Content \cup {None}
  BY DEF TInv, TypeOK
<1>2. x \in LocalState /\ x.pc = pc /\ x.handle = req[r].handle /\ x.snap = req[r].snap
  BY <1>1 DEF LocalState
<1>3. req' = [req EXCEPT ![r] = x]
  BY DEF Goto, TInv, TypeOK
<1> HIDE DEF x
<1>4. LocalOK(x)
  BY <1>1, <1>2 DEF LocalOK
<1> QED
  BY <1>1, <1>2, <1>3, <1>4, OneMoves

\* A request that has ended is a legal state of one.
LEMMA IdleLocal == Idle \in LocalState /\ LocalOK(Idle) /\ Idle.handle = None
<1>1. [id |-> 0, status |-> "none"] \in JobState
  BY PlainContent DEF JobState
<1> QED
  BY <1>1, PlainContent DEF Idle, LocalState, PC, LocalOK

\* create, isFile, hash, delete, stat and the rows.
LEMMA JobTypes ==
    ASSUME TInv, NEW r \in Request,
           \/ Begin(r) \/ Create(r) \/ FailRead(r) \/ FailWrite(r) \/ Recreate(r)
           \/ IsFile(r) \/ Hash(r) \/ Delete(r) \/ Stat(r)
    PROVE  TInv'
<1>1. /\ req[r] \in LocalState /\ LocalOK(req[r]) /\ job \in JobState
      /\ recorded \in Content \cup {None} /\ data \in [Inode -> Content]
      /\ final \in Inode \cup {None}
  BY DEF TInv, TypeOK
<1>2. CASE Begin(r)
  <2> DEFINE x == [Idle EXCEPT !.pc = "create", !.version = recorded]
  <2>1. x \in LocalState /\ x.pc = "create" /\ x.handle = None
    BY <1>1, IdleLocal DEF LocalState, PC
  <2>2. LocalOK(x)
    BY <2>1 DEF LocalOK
  <2> QED
    BY <1>1, <1>2, <2>1, <2>2, OneMoves DEF Begin, Files, Rows
<1>3. CASE Create(r) \/ Recreate(r)
  <2> DEFINE pc == IF Create(r) THEN "isFile" ELSE "open"
             x == [req[r] EXCEPT !.pc = pc, !.snap = job]
  <2>1. pc \in PC /\ pc \notin {"stream", "failWrite"}
    BY DEF PC
  <2>2. req' = [req EXCEPT ![r] = x] /\ req[r].handle = None
    BY <1>1, <1>3 DEF Create, Recreate, LocalOK
  <2> HIDE DEF pc
  <2>3. x \in LocalState /\ x.pc = pc /\ x.handle = None
    BY <1>1, <2>1, <2>2 DEF LocalState
  <2> HIDE DEF x
  <2>4. LocalOK(x)
    BY <2>1, <2>3 DEF LocalOK
  <2>5. slot' = slot \/ (slot' = r /\ job.id < MaxJobs)
    BY <1>3, PlainContent DEF Create, Recreate, Rows, TInv, JobOK
  <2>6. data' = data /\ final' = final /\ part' = part /\ recorded' = recorded /\ job' = job
    BY <1>3 DEF Create, Recreate, Files, Rows
  <2> QED
    BY <1>1, <2>2, <2>3, <2>4, <2>5, <2>6, OneMoves
<1>4. CASE FailRead(r) \/ FailWrite(r) \/ Delete(r) \/ Stat(r) \/ IsFile(r)
  <2>1. PICK pc \in {"failWrite", "abort", "recreate", "failRead", "open", "hash", "commit"} :
          Goto(r, pc) /\ (pc = "failWrite" => req[r].snap.id < MaxJobs)
    BY <1>1, <1>4 DEF FailRead, FailWrite, Delete, Stat, IsFile, StaleOrNew
  <2>2. req[r].pc # "stream"
    BY <1>4 DEF FailRead, FailWrite, Delete, Stat, IsFile
  <2>3. slot' = slot \/ (slot' = r /\ job.id < MaxJobs)
    BY <1>1, <1>4 DEF FailRead, FailWrite, Delete, Stat, IsFile, Rows, LocalOK
  <2>4. data' = data /\ final' \in {final, None} /\ part' = part /\ recorded' = recorded /\ job' = job
    BY <1>4 DEF FailRead, FailWrite, Delete, Stat, IsFile, Files, Rows
  <2>5. pc \in PC /\ pc # "stream"
    BY <2>1 DEF PC
  <2> QED
    BY <2>1, <2>2, <2>3, <2>4, <2>5, GoesTo
<1>5. CASE Hash(r)
  <2>1. CASE final = None
    <3>1. Goto(r, "abort") /\ "abort" \in PC
      BY <1>5, <2>1 DEF Hash, PC
    <3> QED
      BY <1>5, <3>1, GoesTo DEF Hash, Files, Rows
  <2>2. CASE final # None
    <3> DEFINE pc == IF req[r].version \in {None, data[final]} THEN "stat" ELSE "delete"
               x == [req[r] EXCEPT !.sum = data[final], !.pc = pc]
    <3>1. pc \in PC /\ pc \notin {"stream", "failWrite"}
      BY DEF PC
    <3>2. req' = [req EXCEPT ![r] = x] /\ req[r].handle = None
      BY <1>1, <1>5, <2>2 DEF Hash, LocalOK
    <3> HIDE DEF pc
    <3>3. x \in LocalState /\ x.pc = pc /\ x.handle = None
      BY <1>1, <2>2, <3>1, <3>2 DEF LocalState
    <3> HIDE DEF x
    <3>4. LocalOK(x)
      BY <3>1, <3>3 DEF LocalOK
    <3> QED
      BY <1>1, <1>5, <3>2, <3>3, <3>4, OneMoves DEF Hash, Files, Rows
  <2> QED
    BY <2>1, <2>2
<1> QED
  BY <1>2, <1>3, <1>4, <1>5

\* The download client.
LEMMA ClientTypes ==
    ASSUME TInv, NEW r \in Request,
           \/ Open(r) \/ Write(r) \/ Downloaded(r) \/ TransientFailure(r) \/ PermanentFailure(r)
    PROVE  TInv'
<1>1. /\ req[r] \in LocalState /\ LocalOK(req[r]) /\ recorded \in Content \cup {None}
      /\ data \in [Inode -> Content] /\ req \in [Request -> LocalState]
  BY DEF TInv, TypeOK
<1>2. CASE Open(r)
  <2>1. PICK i \in Inode :
          /\ part' = i /\ data' = [data EXCEPT ![i] = <<>>]
          /\ req' = [req EXCEPT ![r] = [@ EXCEPT !.pc = "stream", !.handle = i, !.offset = 0]]
    BY <1>2 DEF Open
  <2> DEFINE x == [req[r] EXCEPT !.pc = "stream", !.handle = i, !.offset = 0]
  <2>2. x \in LocalState /\ x.pc = "stream" /\ x.handle = i
    BY <1>1, PlainContent DEF LocalState, PC
  <2>3. req' = [req EXCEPT ![r] = x]
    BY <2>1
  <2> HIDE DEF x
  <2>4. LocalOK(x)
    BY <2>2, NoneIsNothing DEF LocalOK
  <2>5. /\ req' \in [Request -> LocalState] /\ req'[r] = x
        /\ \A s \in Request \ {r} : req'[s] = req[s]
    BY <1>1, <2>2, <2>3
  <2>6. data' \in [Inode -> Content] /\ data'[i] = <<>> /\ \A j \in Inode \ {i} : data'[j] = data[j]
    BY <1>1, <2>1, PlainContent
  <2>7. UNCHANGED <<final, Rows>>
    BY <1>2 DEF Open
  <2>8. TypeOK' /\ JobOK'
    BY <2>1, <2>5, <2>6, <2>7 DEF TInv, TypeOK, JobOK, Rows
  <2>9. HandlesOK'
    <3> SUFFICES ASSUME NEW s \in Request, req'[s].handle # None
                 PROVE  data'[req'[s].handle] \in Plain
      BY DEF HandlesOK
    <3>1. req'[s].handle \in Inode
      BY <2>5 DEF LocalState
    <3>2. CASE s = r
      BY <2>2, <2>5, <2>6, <3>2, PlainContent
    <3>3. CASE s # r
      BY <2>5, <2>6, <3>1, <3>3, PlainContent DEF TInv, HandlesOK
    <3> QED
      BY <3>2, <3>3
  <2>10. \A s \in Request : LocalOK(req'[s])
    BY <2>4, <2>5 DEF TInv
  <2> QED
    BY <2>8, <2>9, <2>10 DEF TInv, LocalOK
<1>3. CASE Write(r)
  <2> DEFINE i == req[r].handle
             n == req[r].offset
             x == [req[r] EXCEPT !.offset = n + 1]
  <2>1. /\ i \in Inode /\ n \in 0..Blocks /\ n < Blocks /\ data[i] \in Plain
        /\ req[r].pc = "stream"
    BY <1>1, <1>3 DEF Write, LocalOK, LocalState, TInv, HandlesOK
  <2>2. data' = [data EXCEPT ![i] = Written(data[i], n)] /\ req' = [req EXCEPT ![r] = x]
        /\ UNCHANGED <<final, part, Rows>>
    BY <1>1, <1>3 DEF Write
  <2>3. Written(data[i], n) \in Plain
    BY <2>1, WrittenPlain
  <2>n. n + 1 \in 0..Blocks
    BY <2>1, BoundAssumption
  <2>4. x \in LocalState /\ x.pc = req[r].pc /\ x.handle = i /\ x.snap = req[r].snap
    <3> HIDE DEF n
    <3> QED
      BY <1>1, <2>n DEF LocalState
  <2> HIDE DEF x, i, n
  <2>5. /\ req' \in [Request -> LocalState] /\ req'[r] = x
        /\ \A s \in Request \ {r} : req'[s] = req[s]
    BY <1>1, <2>2, <2>4
  <2>6. data' \in [Inode -> Content] /\ data'[i] \in Plain
        /\ \A j \in Inode \ {i} : data'[j] = data[j]
    BY <1>1, <2>1, <2>2, <2>3, PlainContent
  <2>7. TypeOK' /\ JobOK'
    BY <2>2, <2>5, <2>6 DEF TInv, TypeOK, JobOK, Rows
  <2>8. HandlesOK'
    <3> SUFFICES ASSUME NEW s \in Request, req'[s].handle # None
                 PROVE  data'[req'[s].handle] \in Plain
      BY DEF HandlesOK
    <3>1. req'[s].handle \in Inode /\ req'[s].handle = req[s].handle
      BY <2>4, <2>5 DEF LocalState, i
    <3> QED
      BY <2>6, <3>1 DEF TInv, HandlesOK
  <2>9. LocalOK(x)
    BY <1>1, <2>4 DEF LocalOK, i
  <2>10. \A s \in Request : LocalOK(req'[s])
    BY <2>5, <2>9 DEF TInv
  <2> QED
    BY <2>7, <2>8, <2>10 DEF TInv, LocalOK
<1>4. CASE Downloaded(r) \/ TransientFailure(r) \/ PermanentFailure(r)
  <2>1. PICK pc \in {"validate", "open", "cleanup"}, n \in 0..MaxRetries :
          req' = [req EXCEPT ![r] = [@ EXCEPT !.pc = pc, !.retries = n, !.handle = None, !.offset = 0]]
    <3>1. req[r].retries \in 0..MaxRetries /\ (MayRetry(r) => req[r].retries + 1 \in 0..MaxRetries)
      BY <1>1, BoundAssumption DEF LocalState, MayRetry
    <3>2. [req[r] EXCEPT !.retries = req[r].retries] = req[r]
      BY <1>1 DEF LocalState
    <3>3. \A p : [req[r] EXCEPT !.pc = p, !.handle = None, !.offset = 0]
                = [req[r] EXCEPT !.pc = p, !.retries = req[r].retries, !.handle = None, !.offset = 0]
      BY <1>1 DEF LocalState
    <3>4. CASE Downloaded(r)
      BY <1>1, <3>1, <3>3, <3>4 DEF Downloaded
    <3>5. CASE PermanentFailure(r)
      BY <1>1, <3>1, <3>3, <3>5 DEF PermanentFailure
    <3>6. CASE TransientFailure(r)
      BY <1>1, <3>1, <3>3, <3>6 DEF TransientFailure
    <3> QED
      BY <1>4, <3>4, <3>5, <3>6
  <2> DEFINE x == [req[r] EXCEPT !.pc = pc, !.retries = n, !.handle = None, !.offset = 0]
  <2>2. x \in LocalState /\ x.pc = pc /\ x.handle = None
    BY <1>1, PlainContent DEF LocalState, PC
  <2>3. req' = [req EXCEPT ![r] = x]
    BY <2>1
  <2> HIDE DEF x
  <2>4. LocalOK(x)
    BY <2>2 DEF LocalOK
  <2>5. /\ data' = data /\ final' = final /\ part' \in {part, None}
        /\ recorded' = recorded /\ job' = job /\ slot' = slot
    BY <1>4 DEF Downloaded, TransientFailure, PermanentFailure, Files, Rows
  <2> QED
    BY <1>1, <2>2, <2>3, <2>4, <2>5, OneMoves
<1> QED
  BY <1>2, <1>3, <1>4

\* The checks on the temporary file and the end of a request.
LEMMA EndTypes ==
    ASSUME TInv, NEW r \in Request,
           \/ Validate(r) \/ Checksum(r) \/ Finalize(r) \/ Cleanup(r) \/ Commit(r) \/ Abort(r)
    PROVE  TInv'
<1>1. /\ req[r] \in LocalState /\ LocalOK(req[r]) /\ recorded \in Content \cup {None}
      /\ data \in [Inode -> Content] /\ req \in [Request -> LocalState]
      /\ part \in Inode \cup {None} /\ job \in JobState /\ slot \in Request \cup {None}
  BY DEF TInv, TypeOK
<1>2. CASE Validate(r) \/ Finalize(r) \/ Cleanup(r)
  <2>1. PICK pc \in {"checksum", "cleanup", "commit", "abort"} : Goto(r, pc)
    BY <1>2 DEF Validate, Finalize, Cleanup
  <2>2. req[r].pc # "stream" /\ pc \in PC
    BY <1>2 DEF Validate, Finalize, Cleanup, PC
  <2>3. /\ data' = data /\ final' \in {final, part} /\ part' \in {part, None}
        /\ recorded' = recorded /\ job' = job /\ slot' = slot
    BY <1>2 DEF Validate, Finalize, Cleanup, Files, Rows
  <2> QED
    BY <2>1, <2>2, <2>3, GoesTo
<1>3. CASE Checksum(r)
  <2>1. CASE part = None
    <3>1. Goto(r, "cleanup") /\ "cleanup" \in PC
      BY <1>3, <2>1 DEF Checksum, PC
    <3> QED
      BY <1>3, <3>1, GoesTo DEF Checksum, Files, Rows
  <2>2. CASE part # None
    <3> DEFINE x == [req[r] EXCEPT !.pc = "finalize", !.sum = data[part]]
    <3>1. x \in LocalState /\ x.pc = "finalize" /\ x.handle = req[r].handle
      BY <1>1, <2>2 DEF LocalState, PC
    <3>2. LocalOK(x)
      BY <1>1, <1>3, <3>1 DEF LocalOK, Checksum
    <3> QED
      BY <1>1, <1>3, <2>2, <3>1, <3>2, OneMoves DEF Checksum, Files, Rows
  <2> QED
    BY <2>1, <2>2
<1>4. CASE Abort(r)
  BY <1>1, <1>4, IdleLocal, OneMoves DEF Abort, Release, Files
<1>5. CASE Commit(r)
  <2>1. /\ req' = [req EXCEPT ![r] = Idle] /\ UNCHANGED Files /\ recorded' \in Content \cup {None}
        /\ slot' \in {slot, None} /\ (slot = r => slot' = None)
    BY <1>1, <1>5 DEF Commit, Release, LocalState
  <2>2. job' \in JobState /\ (slot' # None => job' = job) /\ (job'.status = "none" => job'.id = 0)
    <3>1. CASE slot = r
      <4>1. job.id \in 0..MaxJobs /\ job.id < MaxJobs
        BY <1>1, <3>1, NoneIsNothing DEF TInv, JobOK, JobState
      <4>2. job' = [id |-> job.id + 1, status |-> "downloaded"] /\ job.id + 1 \in 0..MaxJobs
        BY <1>5, <3>1, <4>1, BoundAssumption DEF Commit
      <4> QED
        BY <2>1, <3>1, <4>2 DEF JobState
    <3>2. CASE slot # r
      BY <1>1, <1>5, <3>2 DEF Commit, TInv, JobOK
    <3> QED
      BY <3>1, <3>2
  <2>3. /\ req' \in [Request -> LocalState] /\ req'[r] = Idle
        /\ \A s \in Request \ {r} : req'[s] = req[s]
    BY <1>1, <2>1, IdleLocal
  <2>4. TypeOK' /\ JobOK'
    BY <1>1, <2>1, <2>2, <2>3 DEF TInv, TypeOK, JobOK, Files
  <2>5. HandlesOK'
    BY <2>1, <2>3, IdleLocal DEF TInv, HandlesOK, Files
  <2>6. \A s \in Request : LocalOK(req'[s])
    BY <2>3, IdleLocal DEF TInv
  <2> QED
    BY <2>4, <2>5, <2>6 DEF TInv, LocalOK
<1> QED
  BY <1>2, <1>3, <1>4, <1>5

\* Every step keeps the types.
LEMMA TypesStep == TInv /\ [Next]_vars => TInv'
<1> SUFFICES ASSUME TInv, [Next]_vars PROVE TInv'
  OBVIOUS
<1>1. ASSUME NEW r \in Request, Step(r) PROVE TInv'
  BY <1>1, JobTypes, ClientTypes, EndTypes DEF Step
<1>2. CASE Restart
  <2>1. req' = [s \in Request |-> Idle] /\ slot' = None /\ UNCHANGED <<Files, recorded, job>>
    BY <1>2 DEF Restart
  <2>2. TypeOK' /\ JobOK'
    BY <2>1, IdleLocal DEF TInv, TypeOK, JobOK, Files
  <2>3. HandlesOK' /\ \A s \in Request : LocalOK(req'[s])
    BY <2>1, IdleLocal DEF HandlesOK
  <2> QED
    BY <2>2, <2>3 DEF TInv, LocalOK
<1>3. CASE Advance
  <2>1. /\ UNCHANGED <<Files, recorded, slot, req>> /\ job' = [job EXCEPT !.status = "past"]
        /\ job \in JobState
    BY <1>3 DEF Advance, TInv, TypeOK
  <2>2. job' \in JobState /\ job'.id = job.id /\ job'.status = "past"
    BY <2>1 DEF JobState
  <2> QED
    BY <2>1, <2>2 DEF TInv, TypeOK, JobOK, HandlesOK, LocalOK, Files
<1>4. CASE Harm
  <2>1. /\ UNCHANGED <<part, Rows, req>> /\ final' \in {final, None}
        /\ data' \in [Inode -> Content] /\ \A s \in Request : req[s].pc = "idle"
    BY <1>4, PlainContent DEF Harm, Quiet, TInv, TypeOK
  <2>2. \A s \in Request : req[s].handle = None
    BY <2>1 DEF TInv, LocalOK
  <2> QED
    BY <2>1, <2>2 DEF TInv, TypeOK, JobOK, HandlesOK, LocalOK, Rows
<1>5. CASE UNCHANGED vars
  BY <1>5 DEF vars, TInv, TypeOK, JobOK, HandlesOK, LocalOK
<1> QED
  BY <1>1, <1>2, <1>3, <1>4, <1>5 DEF Next

\* Whatever happens to the stored files, for any requests, blocks and retries: files
\* hold blocks, rows hold checksums of files, retries stay within their limit.
THEOREM TypeCorrect == Spec => []TypeOK
<1>1. Init => TInv
  <2> SUFFICES ASSUME Init PROVE TInv
    OBVIOUS
  <2>1. TypeOK
    BY PlainContent, IdleLocal DEF Init, TypeOK, JobState
  <2> QED
    BY <2>1, IdleLocal DEF Init, TInv, JobOK, HandlesOK
<1>2. TInv => TypeOK
  BY DEF TInv
<1> QED
  BY <1>1, <1>2, TypesStep, PTL DEF Spec
==============================================================================
