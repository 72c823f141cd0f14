------------------------------ MODULE ReplyText ------------------------------
(***************************************************************************)
(* The two places where ExtractionService looks at the characters of a     *)
(* text: _parse_json finds the JSON object in a reply, and citations.py    *)
(* looks for an excerpt in the document and for a value in its excerpt.    *)
(* A text is a sequence of characters, a reply one of the tokens that      *)
(* decide how it is parsed.                                                *)
(***************************************************************************)
EXTENDS Integers, SequencesExt

CONSTANTS Chars,   \* characters
          White,   \* those that \s matches and strip() takes off
          Lower    \* casefold, character by character

ASSUME CharsAssumption ==
    /\ White \subseteq Chars
    /\ Lower \in [Chars -> Chars]

----------------------------------------------------------------------------
\* citations.py.

\* The character every run of white space is replaced by.
Space == " "

\* Every run of white space becomes one space, but for a leading one ...
Collapse(t) ==
    FoldLeft(LAMBDA s, c : IF c \notin White THEN Append(s, Lower[c])
                           ELSE IF s = <<>> \/ Last(s) = Space THEN s
                           ELSE Append(s, Space),
             <<>>, t)

\* ... and a trailing one.
Normalize(t) ==
    LET s == Collapse(t)
    IN  IF s # <<>> /\ Last(s) = Space THEN Front(s) ELSE s

\* Python's "s in t".
InText(s, t) == \E k \in 0 .. Len(t) - Len(s) : \A i \in 1 .. Len(s) : s[i] = t[k + i]

\* Mutant: the operands of "in" are swapped.
VerbatimSwapped(document, excerpt) ==
    Normalize(excerpt) # <<>> /\ InText(Normalize(document), Normalize(excerpt))

Verbatim(document, excerpt) ==
    Normalize(excerpt) # <<>> /\ InText(Normalize(excerpt), Normalize(document))

Anchored(value, excerpt) ==
    value # <<>> /\ excerpt # <<>> /\ InText(Normalize(value), Normalize(excerpt))

----------------------------------------------------------------------------
\* _parse_json.

\* Brackets outside of strings, a fence with its white space at the border of a
\* line, and text that is not JSON.  What JSON has between brackets is left out.
Tokens == {"{", "}", "[", "]", "fence", "prose"}

Closes(open, c) == (open = "{" /\ c = "}") \/ (open = "[" /\ c = "]")

\* The brackets that are open after t; what closes none, and prose, stays.
Open(t) ==
    FoldLeft(LAMBDA s, c : IF s # <<>> /\ Closes(Last(s), c) THEN Front(s) ELSE Append(s, c),
             <<>>, t)

\* json.loads accepts t, an object or an array.
IsJson(t) ==
    /\ t # <<>> /\ Open(t) = <<>>
    /\ \A n \in 1 .. Len(t) - 1 : Open(SubSeq(t, 1, n)) # <<>>

IsObject(t) == IsJson(t) /\ t[1] = "{"

StripFences(t) ==
    FoldLeft(LAMBDA s, c : IF c = "fence" THEN s ELSE Append(s, c), <<>>, t)

Braces(t, c) == {i \in DOMAIN t : t[i] = c}

NoObject == <<>>

\* Mutant: the regular expression is not greedy.
BlockNotGreedy(t) ==
    IF \E i \in Braces(t, "{"), j \in Braces(t, "}") : i < j
    THEN LET first == Min(Braces(t, "{"))
         IN  SubSeq(t, first, Min({j \in Braces(t, "}") : j > first}))
    ELSE NoObject

\* From the first opening brace to the last closing one.
Block(t) ==
    IF \E i \in Braces(t, "{"), j \in Braces(t, "}") : i < j
    THEN SubSeq(t, Min(Braces(t, "{")), Max(Braces(t, "}")))
    ELSE NoObject

\* The object in a reply, or NoObject for an ExtractionError.  A reply that is
\* JSON, but no object, is not searched for one.
ParseJson(t) ==
    LET cleaned == StripFences(t)
    IN  IF IsJson(cleaned) THEN IF IsObject(cleaned) THEN cleaned ELSE NoObject
        ELSE IF IsObject(Block(cleaned)) THEN Block(cleaned)
        ELSE NoObject
==============================================================================
