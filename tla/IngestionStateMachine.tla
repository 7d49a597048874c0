------------------------ MODULE IngestionStateMachine ------------------------
(***************************************************************************)
(* The pure rules of the ingestion state machine (app/domain/ingestion.py  *)
(* and app/domain/enums.py): the statuses of an ingestion job, which of    *)
(* them are terminal, and which transitions the rules allow.  The module   *)
(* holds no state; the control plane applies these rules to rows.          *)
(***************************************************************************)
EXTENDS Naturals, Sequences

\* The happy path of _LINEAR_TRANSITIONS, in order.
Pipeline ==
    <<"DISCOVERED", "DOWNLOADING", "DOWNLOADED", "PARSING", "PARSED",
      "CHUNKING", "CHUNKED", "VECTOR_INDEXING", "VECTOR_INDEXED",
      "GRAPH_INDEXING", "GRAPH_INDEXED", "READY">>

\* IngestionStatus: what the `status` column of a job can hold.
Status ==
    {"DISCOVERED", "DOWNLOADING", "DOWNLOADED", "PARSING", "PARSED",
     "CHUNKING", "CHUNKED", "VECTOR_INDEXING", "VECTOR_INDEXED",
     "GRAPH_INDEXING", "GRAPH_INDEXED", "READY", "FAILED"}

\* TERMINAL_STATUSES: nothing leaves them; every other status is active.
TerminalStatus == {"READY", "FAILED"}
ActiveStatus == Status \ TerminalStatus

Position(s) == CHOOSE i \in DOMAIN Pipeline : Pipeline[i] = s

\* s is still on the way to t: the question the chains of `if job.status == ...`
\* in every _ensure_job_at_* helper answer.
Before(s, t) == Position(s) < Position(t)

\* _LINEAR_TRANSITIONS.get(s), for an active s.
LinearNext(s) == Pipeline[Position(s) + 1]

\* allowed_transitions and can_transition.
AllowedTransitions(current) ==
    IF current \in TerminalStatus THEN {} ELSE {LinearNext(current), "FAILED"}

CanTransition(current, target) == target \in AllowedTransitions(current)
==============================================================================
