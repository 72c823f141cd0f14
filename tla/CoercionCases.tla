--------------------------- MODULE CoercionCases ---------------------------
(***************************************************************************)
(* _parse_json, _coerce_fields and compute_overall on one reply: any entry  *)
(* for one field of the schema, a faultless entry for the others.  The      *)
(* reply is chosen initially, in one of three ways: by the facts that are   *)
(* true of the entry, by the texts of a value, its excerpt and the document *)
(* from which those facts follow, or by the tokens around and in its JSON.  *)
(***************************************************************************)
EXTENDS FieldCoercion, ReplyText

CONSTANTS Entries,    \* the entries tried
          Faultless,  \* the entry every other field has
          Texts,      \* the values, excerpts and documents tried
          Raws        \* the replies tried, as tokens

NoTexts == [value |-> <<>>, excerpt |-> <<>>, document |-> <<>>]

ASSUME CasesAssumption ==
    /\ Entries \subseteq Item /\ Faultless \in Item
    /\ Texts \subseteq [value : Seq(Chars), excerpt : Seq(Chars), document : Seq(Chars)]
    /\ Raws \subseteq Seq(Tokens)

VARIABLES raw,      \* the reply
          field,    \* the field under test
          entry,    \* its entry in the reply, or NoEntry
          texts,    \* the texts it was made from, or NoTexts
          hasText,  \* text mode, or vision (document_text = "")
          parsed,   \* what _parse_json returns
          result    \* what _coerce_fields returns

cases == <<raw, field, entry, texts, hasText, parsed, result>>

NotParsed == <<"not parsed">>
NotYet    == [fields |-> "none"]

ItemsWith(i) == [n \in Names |-> IF n = field THEN i ELSE Faultless]

ValueOf(t) == IF t = <<>> THEN "empty" ELSE IF Normalize(t) = <<>> THEN "blank" ELSE "text"

\* The entry with these texts for its value and excerpt.
EntryOf(t) ==
    [Faultless EXCEPT
        !.value    = ValueOf(t.value),
        !.excerpt  = IF Verbatim(t.document, t.excerpt) THEN "verbatim" ELSE "misquoted",
        !.anchored = Anchored(t.value, t.excerpt)]

Init ==
    /\ field \in Fields
    /\ \/ /\ entry \in Entries \cup {NoEntry} /\ hasText \in BOOLEAN
          /\ texts = NoTexts /\ raw = <<"{", "}">>
       \/ /\ texts \in Texts /\ entry = EntryOf(texts) /\ hasText = (texts.document # <<>>)
          /\ raw = <<"{", "}">>
       \/ /\ raw \in Raws
          /\ entry = Faultless /\ texts = NoTexts /\ hasText = TRUE
    /\ parsed = NotParsed
    /\ result = NotYet

Parse ==
    /\ parsed = NotParsed
    /\ parsed' = ParseJson(raw)
    /\ UNCHANGED <<raw, field, entry, texts, hasText, result>>

Coerce ==
    /\ parsed \notin {NotParsed, NoObject} /\ result = NotYet
    /\ ~CoercionRaises(ItemsWith(entry))
    /\ result' = CoerceFields(ItemsWith(entry), hasText)
    /\ UNCHANGED <<raw, field, entry, texts, hasText, parsed>>

\* _parse_json, float() or ExtractedField raises, or the reply has been coerced.
Finished ==
    /\ \/ parsed = NoObject
       \/ parsed # NotParsed /\ CoercionRaises(ItemsWith(entry))
       \/ result # NotYet
    /\ UNCHANGED cases

Next == Parse \/ Coerce \/ Finished

Spec == Init /\ [][Next]_cases

----------------------------------------------------------------------------
Coerced == result # NotYet

Spoken == Coerced /\ entry # NoEntry

Confidence == result.fields[field].confidence

\* The confidence the same reply would get with another entry for the field.
ConfidenceWith(i) == CoerceFields(ItemsWith(i), hasText).fields[field].confidence

\* Every confidence is a probability, and so is the overall one: the bonuses
\* never push a field or the weighted mean past 1.0, which the response model
\* would refuse.
ConfidenceIsProbability ==
    Coerced => /\ \A f \in Fields : result.fields[f].confidence \in 0 .. One
               /\ LET o == ComputeOverall(result.fields)
                  IN  o.num \in 0 .. o.den

\* A result with a MISSING_REQUIRED warning never passes an auto-approve
\* threshold: its overall confidence is zero, although the warning is decided
\* on the value the model emitted and the confidence on the value stored.
MissingRequiredZeroesOverall ==
    Coerced /\ result.missing # {} => ComputeOverall(result.fields).num = 0

\* A citation that does not hold - made up, or not containing the value - never
\* earns more than having given no citation at all.
FalseCitationEarnsNothing ==
    Spoken /\ field \in result.citation \cup result.anchor =>
        Confidence = ConfidenceWith([entry EXCEPT !.excerpt = "none"])

\* The validator of the field's type refuses the value, or would if it were asked.
Refusable ==
    /\ Spoken /\ Schema[field].type # "PLAIN"
    /\ entry.value = "blank" \/ (entry.value = "text" /\ ~entry.valid)

\* A value that the validator of its type refuses, and in which the model had any
\* confidence, is told to the caller and worth less than a valid value in its
\* place, with two exceptions and no third.  In a required field of which the
\* model is sure enough (above 10/11 of the scale) the clamp may hide the missing
\* bonus: both values get 1.0.  And when the value does not match the field's
\* pattern the validator is not asked: the value keeps the bonus of one that
\* passed, and what tells it apart is the warning of the pattern.
RefusedValueCosts ==
    Refusable /\ ModelSelf(entry) > 0 =>
        IF <<"pattern mismatch", field>> \in CoercionWarnings(result)
        THEN field \notin result.validator
        ELSE /\ field \in result.validator
             /\ \/ Confidence < ConfidenceWith([entry EXCEPT !.value = "text", !.valid = TRUE])
                \/ /\ Schema[field].required /\ 11 * ModelSelf(entry) >= 10 * Scale
                   /\ Confidence = One

\* A value that earns the citation credit is in the document, up to case and
\* white space: the checks of the excerpt against the document and of the value
\* against the excerpt add up, dates apart.
CreditedValueIsInDocument ==
    /\ Spoken /\ texts # NoTexts /\ Schema[field].type # "DATE"
    /\ Confidence > ConfidenceWith([entry EXCEPT !.excerpt = "none"])
    => InText(Normalize(texts.value), Normalize(texts.document))

\* The objects in a text, as the positions of their outer braces.
ObjectsIn(t) ==
    {p \in (DOMAIN t) \X (DOMAIN t) : p[1] < p[2] /\ IsObject(SubSeq(t, p[1], p[2]))}

\* A reply is read as an object just when it has one that no opening brace
\* precedes and no closing brace follows, unless all of it is a JSON array:
\* prose, fences and brackets around it do no harm, and nothing but a whole object
\* is ever read.  This is what the code does and not what it says: the docstring
\* promises the first {...} block, and two complete objects in a reply, of which
\* that would be one, make it unparseable.
OneObjectIsRead ==
    parsed # NotParsed =>
        LET t     == StripFences(raw)
            whole == {p \in ObjectsIn(t) : /\ \A i \in 1 .. p[1] - 1 : t[i] # "{"
                                           /\ \A i \in p[2] + 1 .. Len(t) : t[i] # "}"}
        IN  IF whole = {} \/ (IsJson(t) /\ t[1] = "[")
            THEN parsed = NoObject
            ELSE \E p \in whole : parsed = SubSeq(t, p[1], p[2])
============================================================================
