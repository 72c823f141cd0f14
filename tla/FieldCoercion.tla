--------------------------- MODULE FieldCoercion ---------------------------
(***************************************************************************)
(* What ExtractionService makes of one parsed model reply: the projection  *)
(* of payload["fields"] onto the schema (_coerce_fields), with the semantic *)
(* validators, the two citation checks and the confidence calibration it   *)
(* calls.  Everything here is a pure operator; the retry loop that uses    *)
(* them is in ExtractionLoop, the streaming path in StreamSession.         *)
(*                                                                         *)
(* Data are abstracted to what the checks can tell apart.  An entry of the *)
(* reply is a record of facts about its value and its source_excerpt;      *)
(* warnings and failure lists are sets of field names.                     *)
(***************************************************************************)
EXTENDS Integers, FiniteSetsExt

CONSTANTS Names,   \* field names a model may write in a reply
          Schema,  \* [fields of the FormSchema -> FieldSpec]
          Scale    \* the model's self-assessed confidence runs over 0 .. Scale

Fields == DOMAIN Schema

\* FieldType, by what the code does with it: "DATE" values are rewritten by
\* their validator, "CHECKED" (SSN, EIN, EMAIL) only tested, "PLAIN" neither.
FieldTypes == {"PLAIN", "CHECKED", "DATE"}

FieldSpec == [required : BOOLEAN, pattern : BOOLEAN, type : FieldTypes]

\* A FormSchema has at least one field, and unique names.
ASSUME SchemaAssumption ==
    /\ Schema \in [Fields -> FieldSpec]
    /\ Fields # {} /\ Fields \subseteq Names
    /\ IsFiniteSet(Names)
    /\ Scale \in Nat \ {0}

\* JSON scalars: null, "", white space only, any other string, and numbers or
\* booleans ("scalar").
Values  == {"null", "empty", "blank", "text", "scalar"}
Strings == {"empty", "blank", "text"}

\* One entry of payload["fields"].  matches: the value matches the field's
\* pattern.  valid: it passes the semantic validator of the field's type.
\* excerpt: "none" is a missing or non-string excerpt, "misquoted" one that is
\* not in the document (or is ""), "verbatim" one that is.  anchored: the value
\* occurs inside the excerpt.  wellFormed is FALSE when the confidence is not a
\* number or the value is a list or an object, which ExtractedField refuses.
Item == [value : Values, matches : BOOLEAN, valid : BOOLEAN,
         excerpt : {"none", "misquoted", "verbatim"}, anchored : BOOLEAN,
         confidence : Int, wellFormed : BOOLEAN]

\* by_name: entries without a name are dropped and a repeated name keeps its
\* last entry, so a name has one entry or none.
NoEntry == [value |-> "no entry"]

Payload == [Names -> Item \cup {NoEntry}]

Given(items) == {f \in Fields : items[f] # NoEntry}

\* A reply from which _parse_json gets no object, one without a "fields"
\* array, or one with entries.
Reply == [kind : {"unparseable", "no_fields"}]
           \cup [kind : {"fields"}, items : Payload]

----------------------------------------------------------------------------
\* Validators and citations.

Empty(v) == v \in {"null", "empty"}

PatternOk(spec, i) == spec.pattern /\ i.value \in {"blank", "text"} => i.matches

\* No SSN, EIN, email or date is blank.
ValidateValue(type, i) ==
    \/ type = "PLAIN"
    \/ i.value \notin {"blank", "text"}
    \/ i.value = "text" /\ i.valid

\* The validator runs only on a non-empty value whose pattern matched;
\* otherwise validator_passed keeps its initial True.
ValidatorPassed(spec, i) ==
    PatternOk(spec, i) /\ ~Empty(i.value) => ValidateValue(spec.type, i)

VerifyExcerpt(i, hasText) == hasText /\ i.excerpt = "verbatim"

\* A blank value normalises to "", which every excerpt contains; "" itself is
\* turned away before that.
ValueAnchored(i) ==
    \/ i.value \notin Strings
    \/ i.value = "blank"
    \/ i.value = "text" /\ i.anchored

Misquoted(i, hasText) == hasText /\ i.excerpt = "misquoted" /\ ~Empty(i.value)

Misanchored(spec, i, hasText) ==
    VerifyExcerpt(i, hasText) /\ spec.type # "DATE" /\ ~ValueAnchored(i)

\* Mutant: the excerpt alone earns the citation credit.
CitationVerifiedByExcerpt(spec, i, hasText) == VerifyExcerpt(i, hasText)

CitationVerified(spec, i, hasText) ==
    VerifyExcerpt(i, hasText) /\ ~Misanchored(spec, i, hasText)

----------------------------------------------------------------------------
\* Confidence, in exact integers: a field's confidence is a count of parts of
\* One, with the bonuses 1.2 and 1.1 as 12/10 and 11/10 and the divisor 2.

Weight(spec) == IF spec.required THEN 2 ELSE 1

One == 200 * Scale

\* NaN is clamped like a number above the range: min(1.0, nan) is 1.0.
ModelSelf(i) == Max({0, Min({Scale, i.confidence})})

\* Mutant: the validator bonus is given to every field.
RawConfidenceFlat(self, spec, validatorPassed, citationVerified) ==
    self * Weight(spec) * 12 * (IF citationVerified THEN 11 ELSE 10)

\* Before the clamp.
RawConfidence(self, spec, validatorPassed, citationVerified) ==
    self * Weight(spec) * (IF validatorPassed THEN 12 ELSE 10)
         * (IF citationVerified THEN 11 ELSE 10)

\* Mutant: no clamp.
ComputeFieldConfidenceUnclamped(self, spec, validatorPassed, citationVerified) ==
    RawConfidence(self, spec, validatorPassed, citationVerified)

ComputeFieldConfidence(self, spec, validatorPassed, citationVerified) ==
    Min({One, RawConfidence(self, spec, validatorPassed, citationVerified)})

\* Mutant: a required field counts as missing only when it is null.
ComputeOverallNullOnly(fields) ==
    [num |-> IF \E f \in Fields : Schema[f].required /\ fields[f].value = "null"
             THEN 0
             ELSE MapThenSumSet(LAMBDA f : fields[f].confidence * Weight(Schema[f]),
                                Fields),
     den |-> One * MapThenSumSet(LAMBDA f : Weight(Schema[f]), Fields)]

\* overall_confidence as the fraction num / den, before the code's rounding to
\* four decimals.  fields: [Fields -> [value, confidence]].
ComputeOverall(fields) ==
    [num |-> IF \E f \in Fields : Schema[f].required /\ Empty(fields[f].value)
             THEN 0
             ELSE MapThenSumSet(LAMBDA f : fields[f].confidence * Weight(Schema[f]),
                                Fields),
     den |-> One * MapThenSumSet(LAMBDA f : Weight(Schema[f]), Fields)]

----------------------------------------------------------------------------
\* _coerce_fields.

\* ExtractedField strips white space from its strings.
StoredValue(v) == IF v = "blank" THEN "empty" ELSE v

ExtractedField(f, items, hasText) ==
    IF f \in Given(items)
    THEN [value |-> StoredValue(items[f].value),
          confidence |->
            ComputeFieldConfidence(ModelSelf(items[f]), Schema[f],
                                   ValidatorPassed(Schema[f], items[f]),
                                   CitationVerified(Schema[f], items[f], hasText))]
    ELSE [value |-> "null", confidence |-> 0]

\* float() or ExtractedField raises: only entries of schema fields are read.
CoercionRaises(items) == \E f \in Given(items) : ~items[f].wellFormed

CoerceFields(items, hasText) ==
    LET given == Given(items)
    IN  [fields    |-> [f \in Fields |-> ExtractedField(f, items, hasText)],
         missing   |-> {f \in Fields : /\ Schema[f].required
                                       /\ f \in given => Empty(items[f].value)},
         absent    |-> {f \in Fields \ given : ~Schema[f].required},
         mismatch  |-> {f \in given : ~PatternOk(Schema[f], items[f])},
         validator |-> {f \in given : ~ValidatorPassed(Schema[f], items[f])},
         citation  |-> {f \in given : Misquoted(items[f], hasText)},
         anchor    |-> {f \in given : Misanchored(Schema[f], items[f], hasText)}]

\* The warnings _coerce_fields returns, as <<text before the name, name>>.
CoercionWarnings(c) ==
    ({"MISSING_REQUIRED"} \X c.missing)
        \cup ({"missing optional field"} \X c.absent)
        \cup ({"pattern mismatch"} \X c.mismatch)
============================================================================
