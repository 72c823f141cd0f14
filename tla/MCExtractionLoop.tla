-------------------------- MODULE MCExtractionLoop --------------------------
(***************************************************************************)
(* A small schema and a small set of replies for TLC: one required field   *)
(* with a pattern and a checked type, one optional date, and a name the    *)
(* schema does not have.                                                   *)
(***************************************************************************)
EXTENDS ExtractionLoop

MCNames == {"tin", "signed", "extra"}

MCSchema == [tin    |-> [required |-> TRUE,  pattern |-> TRUE,  type |-> "CHECKED"],
             signed |-> [required |-> FALSE, pattern |-> FALSE, type |-> "DATE"]]

Good == [value |-> "text", matches |-> TRUE, valid |-> TRUE, excerpt |-> "verbatim",
         anchored |-> TRUE, confidence |-> 9, wellFormed |-> TRUE]

\* What the model may answer for the required field ...
TinItems ==
    {Good,
     [Good EXCEPT !.anchored = FALSE],
     [Good EXCEPT !.excerpt = "misquoted"],
     [Good EXCEPT !.matches = FALSE, !.excerpt = "none"],
     [Good EXCEPT !.valid = FALSE, !.excerpt = "none"],
     [Good EXCEPT !.value = "null", !.excerpt = "none"],
     [Good EXCEPT !.value = "empty"],
     [Good EXCEPT !.value = "blank", !.valid = FALSE],
     [Good EXCEPT !.wellFormed = FALSE]}

\* ... and for the date.
SignedItems ==
    {[Good EXCEPT !.anchored = FALSE], [Good EXCEPT !.value = "null", !.excerpt = "none"]}

Payloads(tin, signed, extra) ==
    {[n \in MCNames |-> IF n = "tin" THEN t ELSE IF n = "signed" THEN s ELSE e] :
        t \in tin, s \in signed, e \in extra}

MCPayloads == Payloads(TinItems, SignedItems, {NoEntry})
                \cup Payloads(TinItems, {NoEntry}, {Good})
                \cup Payloads({NoEntry}, SignedItems, {NoEntry})

MCReplies == {[kind |-> "unparseable"], [kind |-> "no_fields"]}
                \cup {[kind |-> "fields", items |-> p] : p \in MCPayloads}

MCVerdicts == {[kind |-> "unusable"]}
                \cup {[kind |-> "groundings", denied |-> d] :
                        d \in {{}, {"tin"}, {"signed", "extra"}, {"tin", "signed"}}}
=============================================================================
