-------------------------- MODULE MCCoercionCases --------------------------
(***************************************************************************)
(* Every kind of field - required or not, with a pattern or not, of each   *)
(* type - against every kind of entry; short texts of two letters, one in  *)
(* both cases, and two kinds of white space; replies of up to six tokens.  *)
(***************************************************************************)
EXTENDS CoercionCases

MCNames == BOOLEAN \X BOOLEAN \X {"PLAIN", "CHECKED", "DATE"}

MCSchema == [n \in MCNames |-> [required |-> n[1], pattern |-> n[2], type |-> n[3]]]

MCEntries == [value : {"null", "empty", "blank", "text", "scalar"},
              matches : BOOLEAN, valid : BOOLEAN,
              excerpt : {"none", "misquoted", "verbatim"}, anchored : BOOLEAN,
              confidence : {-1, 0, 8, 9, 11}, wellFormed : {TRUE}]
                \cup [value : {"text"}, matches : {TRUE}, valid : {TRUE},
                      excerpt : {"none"}, anchored : {TRUE},
                      confidence : {9}, wellFormed : {FALSE}]

MCFaultless == [value |-> "text", matches |-> TRUE, valid |-> TRUE,
                excerpt |-> "verbatim", anchored |-> TRUE, confidence |-> 10,
                wellFormed |-> TRUE]

MCChars == {"a", "A", "b", " ", "tab"}
MCWhite == {" ", "tab"}
MCLower == [c \in MCChars |-> IF c = "A" THEN "a" ELSE c]

\* Values, excerpts and documents that meet every branch of the checks.
MCTexts == [value    : SeqOf({"a", "b", " "}, 2),
            excerpt  : SeqOf({"A", "b", " "}, 3),
            document : SeqOf({"a", "b", "tab"}, 3)]

MCRaws == SeqOf(Tokens \ {"fence"}, 5) \cup
          {<<"fence">> \o r \o <<"fence">> : r \in SeqOf({"{", "}", "prose"}, 4)}
============================================================================
