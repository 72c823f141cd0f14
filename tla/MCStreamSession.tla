-------------------------- MODULE MCStreamSession --------------------------
(***************************************************************************)
(* Two versions of the schema, streams of up to three deltas, and a reply  *)
(* of each kind: unusable, malformed, faultless and with missing values.   *)
(***************************************************************************)
EXTENDS StreamSession

MCNames == {"tin", "signed"}

MCSchema == [tin    |-> [required |-> TRUE,  pattern |-> TRUE,  type |-> "CHECKED"],
             signed |-> [required |-> FALSE, pattern |-> FALSE, type |-> "DATE"]]

Good == [value |-> "text", matches |-> TRUE, valid |-> TRUE, excerpt |-> "verbatim",
         anchored |-> TRUE, confidence |-> 9, wellFormed |-> TRUE]

TinItems == {Good, [Good EXCEPT !.anchored = FALSE], [Good EXCEPT !.value = "empty"],
             [Good EXCEPT !.matches = FALSE], [Good EXCEPT !.wellFormed = FALSE], NoEntry}

MCReplies == {[kind |-> "unparseable"], [kind |-> "no_fields"]}
                \cup {[kind |-> "fields", items |-> [tin |-> t, signed |-> s]] :
                        t \in TinItems, s \in {Good, NoEntry}}
============================================================================
