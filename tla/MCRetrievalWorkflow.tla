------------------------ MODULE MCRetrievalWorkflow ------------------------
(***************************************************************************)
(* RetrievalWorkflow with the round limit of the default configuration     *)
(* (src/app/core/config.py:149): one refinement after the first retrieval. *)
(* Two text items and one graph item are the least that let a refinement   *)
(* add evidence of either type, the context leave an item out, and a       *)
(* citation name an item the context, or the pool, does not hold.          *)
(***************************************************************************)
EXTENDS RetrievalWorkflow

CONSTANTS t1, t2, g1

MCItem      == {t1, t2, g1}
MCText      == {t1, t2}
MCMaxRounds == 2
MCRoom      == {"vector", "graph"}
=============================================================================
