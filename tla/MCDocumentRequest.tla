-------------------------- MODULE MCDocumentRequest --------------------------
(***************************************************************************)
(* A schema with one required field, for TLC: what the loop makes of many  *)
(* schemas and replies is the run of ExtractionLoop, this one is about the *)
(* uploads in front of it.                                                 *)
(***************************************************************************)
EXTENDS DocumentRequest

MCNames == {"tin"}

MCSchema == [tin |-> [required |-> TRUE, pattern |-> TRUE, type |-> "CHECKED"]]

Good == [value |-> "text", matches |-> TRUE, valid |-> TRUE, excerpt |-> "verbatim",
         anchored |-> TRUE, confidence |-> 9, wellFormed |-> TRUE]

\* A good answer, a fabricated one, none, and no JSON.
MCReplies ==
    {[kind |-> "unparseable"]}
        \cup {[kind |-> "fields", items |-> [tin |-> t]] :
                 t \in {Good, [Good EXCEPT !.anchored = FALSE], [Good EXCEPT !.value = "null"]}}

MCVerdicts == {[kind |-> "unusable"], [kind |-> "groundings", denied |-> {"tin"}]}
=============================================================================
