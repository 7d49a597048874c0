---------------------------- MODULE PdfAcquisition ----------------------------
(***************************************************************************)
(* PdfAcquisitionService.ingest against the two stores it must keep in     *)
(* step: the directory of one paper version, with paper.pdf and            *)
(* paper.pdf.part, and the version's row and active job in PostgreSQL.     *)
(*                                                                         *)
(* The file system is POSIX: a directory entry names an inode, an open     *)
(* file keeps its inode whatever happens to the entry, open("wb") truncates*)
(* the inode the entry names, rename moves the entry, and a write lands at *)
(* the handle's own offset.  A file is the sequence of blocks written to   *)
(* it, and its SHA-256 is that sequence.                                   *)
(*                                                                         *)
(* JobControlPlane shows that a version has one active job, closed and     *)
(* reopened under one lock; here that is a job number with a status class  *)
(* and the request that holds the slot.  A request that neither inserts    *)
(* nor closes a job takes no lock until its last statements, which are one *)
(* step with the commit.  Each mutant stands before the definition it      *)
(* is a broken form of; none is used by the specification.                 *)
(***************************************************************************)
EXTENDS Naturals, Sequences

CONSTANTS Request,       \* the request threads
          Inode,         \* enough inodes: two entries and one handle per request
          None,
          Blocks,        \* blocks of a complete PDF
          MaxRetries,    \* PDF_DOWNLOAD_MAX_RETRIES
          MaxJobs,       \* bound on the jobs of the version
          Damage,        \* what may happen to a stored file from outside
          StagesFollow   \* whether later stages move the job past DOWNLOADED

ASSUME BoundAssumption ==
    /\ Blocks \in Nat \ {0} /\ MaxRetries \in Nat /\ MaxJobs \in Nat \ {0}
    /\ Damage \subseteq {"lose", "corrupt"} /\ StagesFollow \in BOOLEAN
ASSUME NoneIsNothing == None \notin Request \cup Inode

VARIABLES
    final,      \* the inode paper.pdf names, or None
    part,       \* the inode paper.pdf.part names, or None
    data,       \* [Inode -> the blocks of the file]
    recorded,   \* paper_versions.checksum, or None
    job,        \* number and status class of the active job ("none": no job yet)
    slot,       \* the request that has inserted or closed a job and not ended
    req         \* [Request -> local state of the request's thread]

vars == <<final, part, data, recorded, job, slot, req>>

Complete == [i \in 1..Blocks |-> "pdf"]
Damaged == <<"bad">>
Content == (UNION {[1..n -> {"pdf", "zero"}] : n \in 0..Blocks}) \cup {Damaged}

\* pc names the next step: create, isFile, hash, delete, stat, failRead,
\* failWrite, recreate, open, stream, validate, checksum, finalize, cleanup,
\* commit, abort.
PC == {"idle", "create", "isFile", "hash", "delete", "stat", "failRead", "failWrite", "recreate",
       "open", "stream", "validate", "checksum", "finalize", "cleanup", "commit", "abort"}

Idle == [pc |-> "idle", version |-> None, snap |-> [id |-> 0, status |-> "none"],
         handle |-> None, offset |-> 0, retries |-> 0, sum |-> None]

Goto(r, pc) == req' = [req EXCEPT ![r].pc = pc]
Files == <<final, part, data>>
Rows == <<recorded, job, slot>>

Init ==
    /\ final = None /\ part = None
    /\ data = [i \in Inode |-> <<>>]
    /\ recorded = None
    /\ job = [id |-> 0, status |-> "none"]
    /\ slot = None
    /\ req = [r \in Request |-> Idle]

-----------------------------------------------------------------------------
(* The job. *)

\* ingest: the version row is read once, before the job.
Begin(r) ==
    /\ req[r].pc = "idle"
    /\ req' = [req EXCEPT ![r] = [Idle EXCEPT !.pc = "create", !.version = recorded]]
    /\ UNCHANGED <<Files, Rows>>

\* Mutant: two inserts can be open at the same time.
MayInsertAlways == TRUE

\* The unique index makes an insert wait for the transaction that holds the slot.
MayInsert == slot = None

\* create_ingestion_job: the committed active job, or a fresh one.
Create(r) ==
    /\ req[r].pc = "create"
    /\ \/ job.status # "none" /\ slot' = slot
       \/ job.status = "none" /\ MayInsert /\ slot' = r
    /\ req' = [req EXCEPT ![r] = [@ EXCEPT !.pc = "isFile", !.snap = job]]
    /\ UNCHANGED <<Files, recorded, job>>

\* _recreate_job_if_stale: only a job at DOWNLOADED is closed.
StaleOrNew(r) == IF req[r].snap.status = "downloaded" THEN "failRead" ELSE "open"

\* mark_job_failed reads the row: closed meanwhile, it raises.  The second
\* disjunct is the bound on the jobs.
FailRead(r) ==
    /\ req[r].pc = "failRead"
    /\ \/ job.id = req[r].snap.id /\ job.id < MaxJobs /\ Goto(r, "failWrite")
       \/ (job.id # req[r].snap.id \/ job.id = MaxJobs) /\ Goto(r, "abort")
    /\ UNCHANGED <<Files, Rows>>

\* Its UPDATE waits for whoever is closing the same job; a job that was closed
\* meanwhile is closed again, and its successor stays the active one.
FailWrite(r) ==
    /\ req[r].pc = "failWrite"
    /\ \/ job.id = req[r].snap.id /\ slot = None /\ slot' = r
       \/ job.id # req[r].snap.id /\ slot' = slot
    /\ Goto(r, "recreate")
    /\ UNCHANGED <<Files, recorded, job>>

\* The second create_ingestion_job: a fresh job, or the one that succeeded.
Recreate(r) ==
    /\ req[r].pc = "recreate"
    /\ req' = [req EXCEPT ![r] = [@ EXCEPT !.pc = "open", !.snap = job]]
    /\ UNCHANGED <<Files, Rows>>

-----------------------------------------------------------------------------
(* _reconcile_existing_artifact: the file first, whatever the row says. *)

\* Mutant: database first, a recorded checksum is taken for the file.
IsFileByRow(r) ==
    /\ req[r].pc = "isFile"
    /\ req' = [req EXCEPT ![r] =
                 IF req[r].version # None THEN [@ EXCEPT !.pc = "commit", !.sum = req[r].version]
                 ELSE [@ EXCEPT !.pc = IF final = None THEN StaleOrNew(r) ELSE "hash"]]
    /\ UNCHANGED <<Files, Rows>>

IsFile(r) ==
    /\ req[r].pc = "isFile"
    /\ Goto(r, IF final = None THEN StaleOrNew(r) ELSE "hash")
    /\ UNCHANGED <<Files, Rows>>

\* Mutant: the hash is recorded, not compared.
HashUnchecked(r) ==
    /\ req[r].pc = "hash"
    /\ IF final = None
       THEN Goto(r, "abort")
       ELSE req' = [req EXCEPT ![r] = [@ EXCEPT !.sum = data[final], !.pc = "stat"]]
    /\ UNCHANGED <<Files, Rows>>

\* sha256_file(final_path), compared with the checksum of the version read at
\* the start; nothing recorded means nothing to compare with.
Hash(r) ==
    /\ req[r].pc = "hash"
    /\ IF final = None
       THEN Goto(r, "abort")
       ELSE req' = [req EXCEPT ![r] = [@ EXCEPT
                      !.sum = data[final],
                      !.pc = IF req[r].version \in {None, data[final]} THEN "stat" ELSE "delete"]]
    /\ UNCHANGED <<Files, Rows>>

\* PaperStorage.delete: whatever paper.pdf names by now.
Delete(r) ==
    /\ req[r].pc = "delete"
    /\ final' = None
    /\ Goto(r, StaleOrNew(r))
    /\ UNCHANGED <<part, data, Rows>>

\* final_path.stat() for the size.
Stat(r) ==
    /\ req[r].pc = "stat"
    /\ Goto(r, IF final = None THEN "abort" ELSE "commit")
    /\ UNCHANGED <<Files, Rows>>

-----------------------------------------------------------------------------
(* _download_and_finalize and PdfDownloadClient.download. *)

Unnamed(i) == i \notin {final, part} /\ \A r \in Request : req[r].handle # i

\* open(dest_path, "wb"): a new file, or the one there truncated.
Open(r) ==
    /\ req[r].pc = "open"
    /\ \E i \in Inode :
        /\ IF part = None THEN Unnamed(i) ELSE i = part
        /\ part' = i
        /\ data' = [data EXCEPT ![i] = <<>>]
        /\ req' = [req EXCEPT ![r] = [@ EXCEPT !.pc = "stream", !.handle = i, !.offset = 0]]
    /\ UNCHANGED <<final, Rows>>

\* The file d with a block written after its first n: what was never written
\* before n reads as zeros.
Written(d, n) ==
    [k \in 1..(IF Len(d) > n THEN Len(d) ELSE n + 1) |->
        IF k = n + 1 THEN "pdf" ELSE IF k <= Len(d) THEN d[k] ELSE "zero"]

\* A chunk of the response is written at the handle's offset.
Write(r) ==
    LET q == req[r] IN
    /\ q.pc = "stream" /\ q.offset < Blocks
    /\ data' = [data EXCEPT ![q.handle] = Written(@, q.offset)]
    /\ req' = [req EXCEPT ![r].offset = @ + 1]
    /\ UNCHANGED <<final, part, Rows>>

\* The response ended: the file is closed.
Downloaded(r) ==
    /\ req[r].pc = "stream" /\ req[r].offset = Blocks
    /\ req' = [req EXCEPT ![r] = [@ EXCEPT !.pc = "validate", !.handle = None, !.offset = 0]]
    /\ UNCHANGED <<Files, Rows>>

\* Mutant: a download cut short goes on like a complete one.
TransientFailureIgnored(r) ==
    /\ req[r].pc = "stream"
    /\ req' = [req EXCEPT ![r] = [@ EXCEPT !.pc = "validate", !.handle = None, !.offset = 0]]
    /\ UNCHANGED <<Files, Rows>>

\* Mutant: one retry too many.
MayRetryOnceMore(r) == req[r].retries <= MaxRetries

MayRetry(r) == req[r].retries < MaxRetries

\* A timeout, a transport error or HTTP 429/5xx: the partial file is removed by
\* name, and the attempt repeated or given up.
TransientFailure(r) ==
    /\ req[r].pc \in {"open", "stream"}
    /\ part' = None
    /\ \/ /\ MayRetry(r)
          /\ req' = [req EXCEPT ![r] = [@ EXCEPT !.pc = "open", !.retries = req[r].retries + 1,
                                                 !.handle = None, !.offset = 0]]
       \/ /\ ~MayRetry(r)
          /\ req' = [req EXCEPT ![r] = [@ EXCEPT !.pc = "cleanup",
                                                 !.handle = None, !.offset = 0]]
    /\ UNCHANGED <<final, data, Rows>>

\* HTTP 404 and other errors, an oversized response, a full disk.
PermanentFailure(r) ==
    /\ req[r].pc \in {"open", "stream"}
    /\ req' = [req EXCEPT ![r] = [@ EXCEPT !.pc = "cleanup", !.handle = None, !.offset = 0]]
    /\ UNCHANGED <<Files, Rows>>

\* _validate_pdf_signature(temp_path): the first bytes are those of a PDF.
Validate(r) ==
    /\ req[r].pc = "validate"
    /\ Goto(r, IF part # None /\ Len(data[part]) > 0 /\ data[part][1] = "pdf"
               THEN "checksum" ELSE "cleanup")
    /\ UNCHANGED <<Files, Rows>>

\* sha256_file(temp_path).
Checksum(r) ==
    /\ req[r].pc = "checksum"
    /\ IF part = None
       THEN Goto(r, "cleanup")
       ELSE req' = [req EXCEPT ![r] = [@ EXCEPT !.pc = "finalize", !.sum = data[part]]]
    /\ UNCHANGED <<Files, Rows>>

\* PaperStorage.finalize: os.replace.
Finalize(r) ==
    /\ req[r].pc = "finalize"
    /\ IF part = None
       THEN Goto(r, "cleanup") /\ UNCHANGED <<final, part>>
       ELSE Goto(r, "commit") /\ final' = part /\ part' = None
    /\ UNCHANGED <<data, Rows>>

\* The `except`: cleanup_temp, by name; what it writes to the rows is rolled
\* back when the exception leaves the endpoint.
Cleanup(r) ==
    /\ req[r].pc = "cleanup"
    /\ part' = None
    /\ Goto(r, "abort")
    /\ UNCHANGED <<final, data, Rows>>

-----------------------------------------------------------------------------
(* The end of a request. *)

Release(r) == slot' = IF slot = r THEN None ELSE slot

\* update_version_artifact, the job at DOWNLOADED if it was not yet, commit.
Commit(r) ==
    /\ req[r].pc = "commit"
    /\ recorded' = req[r].sum
    /\ job' = IF slot = r THEN [id |-> job.id + 1, status |-> "downloaded"] ELSE job
    /\ Release(r)
    /\ req' = [req EXCEPT ![r] = Idle]
    /\ UNCHANGED Files

\* An exception left the endpoint, or the database failed a statement: the
\* session rolls back, the files stay.
Abort(r) ==
    /\ req[r].pc \in {"abort", "create", "failRead", "failWrite", "recreate", "commit"}
    /\ Release(r)
    /\ req' = [req EXCEPT ![r] = Idle]
    /\ UNCHANGED <<Files, recorded, job>>

\* The process dies with every request in it.
Restart ==
    /\ \E r \in Request : req[r].pc # "idle"
    /\ slot' = None
    /\ req' = [r \in Request |-> Idle]
    /\ UNCHANGED <<Files, recorded, job>>

Quiet == \A r \in Request : req[r].pc = "idle"

\* A later stage commits: the job is past DOWNLOADED.
Advance ==
    /\ StagesFollow
    /\ job.status = "downloaded" /\ slot = None
    /\ job' = [job EXCEPT !.status = "past"]
    /\ UNCHANGED <<Files, recorded, slot, req>>

\* The stored file is lost, or damaged in a way its recorded checksum reveals,
\* while no request is running.
Harm ==
    /\ Quiet /\ final # None
    /\ \/ "lose" \in Damage /\ final' = None /\ data' = data
       \/ "corrupt" \in Damage /\ recorded # None
          /\ data' = [data EXCEPT ![final] = Damaged] /\ final' = final
    /\ UNCHANGED <<part, Rows, req>>

Step(r) ==
    \/ Begin(r) \/ Create(r) \/ FailRead(r) \/ FailWrite(r) \/ Recreate(r)
    \/ IsFile(r) \/ Hash(r) \/ Delete(r) \/ Stat(r)
    \/ Open(r) \/ Write(r) \/ Downloaded(r) \/ TransientFailure(r) \/ PermanentFailure(r)
    \/ Validate(r) \/ Checksum(r) \/ Finalize(r) \/ Cleanup(r) \/ Commit(r) \/ Abort(r)

Next == (\E r \in Request : Step(r)) \/ Restart \/ Advance \/ Harm

Spec == Init /\ [][Next]_vars

-----------------------------------------------------------------------------
JobState == [id : 0..MaxJobs, status : {"none", "downloaded", "past"}]

LocalState ==
    [pc : PC, version : Content \cup {None}, snap : JobState, handle : Inode \cup {None},
     offset : 0..Blocks, retries : 0..MaxRetries, sum : Content \cup {None}]

\* Files hold blocks, rows hold checksums of files, and no download is retried
\* more often than configured.
TypeOK ==
    /\ final \in Inode \cup {None} /\ part \in Inode \cup {None}
    /\ data \in [Inode -> Content]
    /\ recorded \in Content \cup {None}
    /\ job \in JobState
    /\ slot \in Request \cup {None}
    /\ req \in [Request -> LocalState]

\* PaperStorage.finalize: a reader can never observe a partially written file at
\* the final path, whatever fails, restarts or runs beside the download.
FinalNeverPartial == final # None => data[final] \in {Complete, Damaged}

\* The checksum of a half-written file is never recorded: it would make that file
\* pass every later verification.
RecordedIsComplete == recorded \in {None, Complete}

\* A request that returns success leaves a complete file behind, and the row
\* holds its checksum: ARCHITECTURE.md's "the caller always gets a truthful,
\* currently-valid result", also after the file was lost.
TruthfulResult ==
    [][\A r \in Request : Commit(r)
         => final # None /\ data[final] = Complete /\ recorded' = Complete]_vars
==============================================================================
