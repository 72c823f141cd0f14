------------------------- MODULE CoercionCasesProofs -------------------------
(***************************************************************************)
(* Proofs about CoercionCases, for every schema, every scale of the        *)
(* model's confidence, every entry of a reply, every text and every reply. *)
(* What the folds over texts compute is in ReplyTextProofs, whose lemma    *)
(* about folds also gives the sums over the fields.                        *)
(***************************************************************************)
EXTENDS CoercionCases, ReplyTextProofs

\* What _parse_json returns is made from the reply, the result from the entry,
\* and the entry from the texts, where it is from texts.
IInv ==
    /\ field \in Fields
    /\ entry \in Item \cup {NoEntry}
    /\ raw \in Seq(Tokens)
    /\ texts # NoTexts => texts \in Texts /\ entry = EntryOf(texts)
    /\ parsed # NotParsed => parsed = ParseJson(raw)
    /\ Coerced => result = CoerceFields(ItemsWith(entry), hasText)

\* Two elements of a set are a sequence over it.
LEMMA PairIsSequence ==
    ASSUME NEW S, NEW a \in S, NEW b \in S
    PROVE  <<a, b>> \in Seq(S)
OBVIOUS

\* The invariant holds of every case.
LEMMA Invariance == Spec => []IInv
<1>1. Init => IInv
    <2> SUFFICES ASSUME Init PROVE IInv
        OBVIOUS
    <2>1. field \in Fields /\ ~Coerced
        BY DEF Init, Coerced
    <2>2. entry \in Item \cup {NoEntry}
        <3>1. EntryOf(texts) \in Item
            <4> DEFINE v == ValueOf(texts.value)
                       x == IF Verbatim(texts.document, texts.excerpt)
                            THEN "verbatim" ELSE "misquoted"
                       a == Anchored(texts.value, texts.excerpt)
            <4>1. v \in Values /\ x \in {"none", "misquoted", "verbatim"} /\ a \in BOOLEAN
                BY DEF ValueOf, Values, Anchored
            <4> HIDE DEF v, x, a
            <4>2. [Faultless EXCEPT !.value = v, !.excerpt = x, !.anchored = a] \in Item
                BY <4>1, CasesAssumption DEF Item
            <4> QED
                BY <4>2 DEF EntryOf, v, x, a
        <3> QED
            BY <3>1, CasesAssumption DEF Init
    <2>3. raw \in Seq(Tokens)
        <3>1. "{" \in Tokens /\ "}" \in Tokens
            BY DEF Tokens
        <3>2. <<"{", "}">> \in Seq(Tokens)
            BY <3>1, PairIsSequence, Zenon
        <3> QED
            BY <3>2, CasesAssumption DEF Init
    <2>4. texts # NoTexts => texts \in Texts /\ entry = EntryOf(texts)
        BY DEF Init
    <2>5. parsed = NotParsed
        BY DEF Init
    <2> QED
        BY <2>1, <2>2, <2>3, <2>4, <2>5 DEF IInv
<1>2. IInv /\ [Next]_cases => IInv'
    BY DEF IInv, Next, Parse, Coerce, Finished, cases, Coerced, ItemsWith, EntryOf
<1> QED
    BY <1>1, <1>2, PTL DEF Spec

\* The smaller and the larger of two numbers.
LEMMA MinMaxOfPair ==
    ASSUME NEW a \in Int, NEW b \in Int
    PROVE  /\ Min({a, b}) = IF a <= b THEN a ELSE b
           /\ Max({a, b}) = IF a >= b THEN a ELSE b
<1>1. (IF a <= b THEN a ELSE b) \in {a, b}
          /\ \A y \in {a, b} : (IF a <= b THEN a ELSE b) <= y
    OBVIOUS
<1>2. (IF a >= b THEN a ELSE b) \in {a, b}
          /\ \A y \in {a, b} : (IF a >= b THEN a ELSE b) >= y
    OBVIOUS
<1>3. Min({a, b}) \in {a, b} /\ \A y \in {a, b} : Min({a, b}) <= y
    BY <1>1 DEF Min
<1>4. Max({a, b}) \in {a, b} /\ \A y \in {a, b} : Max({a, b}) >= y
    BY <1>2 DEF Max
<1> QED
    BY <1>3, <1>4

\* The clamped self-assessment of the model.
LEMMA ModelSelfType ==
    ASSUME NEW i \in Item
    PROVE  ModelSelf(i) \in 0 .. Scale
<1>1. i.confidence \in Int /\ Scale \in Nat
    BY SchemaAssumption DEF Item
<1> DEFINE m == Min({Scale, i.confidence})
<1>2. m \in Int /\ m <= Scale
    BY <1>1, MinMaxOfPair
<1> HIDE DEF m
<1>3. Max({0, m}) \in 0 .. Scale
    BY <1>1, <1>2, MinMaxOfPair
<1> QED
    BY <1>3 DEF ModelSelf, m

\* A field's confidence is a probability.
LEMMA FieldConfidenceType ==
    ASSUME NEW i \in Item, NEW spec \in FieldSpec, NEW v, NEW c
    PROVE  One \in Nat /\ ComputeFieldConfidence(ModelSelf(i), spec, v, c) \in 0 .. One
<1> DEFINE self == ModelSelf(i)
           p    == RawConfidence(self, spec, v, c)
<1>1. self \in Nat /\ One \in Nat
    BY ModelSelfType, SchemaAssumption DEF One
<1> HIDE DEF self
<1>2. p \in Nat
    BY <1>1 DEF RawConfidence, Weight
<1> HIDE DEF p
<1>3. Min({One, p}) \in 0 .. One
    BY <1>1, <1>2, MinMaxOfPair
<1> QED
    BY <1>1, <1>3 DEF ComputeFieldConfidence, p, self

\* The field under test in the result, for whatever entry.
LEMMA FieldUnderTest ==
    ASSUME NEW i \in Item, field \in Fields
    PROVE  /\ field \in Given(ItemsWith(i)) /\ ItemsWith(i)[field] = i
           /\ ConfidenceWith(i) =
                  ComputeFieldConfidence(ModelSelf(i), Schema[field],
                                         ValidatorPassed(Schema[field], i),
                                         CitationVerified(Schema[field], i, hasText))
<1>1. ItemsWith(i)[field] = i
    BY SchemaAssumption DEF ItemsWith
<1>2. i # NoEntry
    <2>1. i.value \in Values /\ NoEntry.value = "no entry"
        BY DEF Item, NoEntry
    <2> QED
        BY <2>1 DEF Values
<1>3. field \in Given(ItemsWith(i))
    BY <1>1, <1>2 DEF Given
<1> QED
    BY <1>1, <1>3 DEF ConfidenceWith, CoerceFields, ExtractedField

\* Whatever raises the warning of a missing field also zeroes the score, in a
\* reply with any entries.
LEMMA MissingScore ==
    ASSUME NEW items, NEW text, CoerceFields(items, text).missing # {}
    PROVE  ComputeOverall(CoerceFields(items, text).fields).num = 0
<1> DEFINE fs == CoerceFields(items, text).fields
<1>1. PICK f \in Fields : /\ Schema[f].required
                          /\ f \in Given(items) => Empty(items[f].value)
    BY DEF CoerceFields
<1>2. fs[f] = ExtractedField(f, items, text)
    BY DEF CoerceFields
<1>3. Empty(fs[f].value)
    BY <1>1, <1>2 DEF ExtractedField, StoredValue, Empty
<1> QED
    BY <1>1, <1>3 DEF ComputeOverall

\* A result in which a required field is missing, null or "" is worth nothing,
\* whatever the others are.
THEOREM MissingZeroes == Spec => []MissingRequiredZeroesOverall
<1>1. IInv => MissingRequiredZeroesOverall
    BY MissingScore DEF IInv, Coerced, MissingRequiredZeroesOverall
<1> QED
    BY <1>1, Invariance, PTL

\* A citation that is made up, or that does not hold the value, earns what no
\* citation earns.
THEOREM FalseCitations == Spec => []FalseCitationEarnsNothing
<1>1. IInv => FalseCitationEarnsNothing
    <2> SUFFICES ASSUME IInv, Spoken, field \in result.citation \cup result.anchor
                 PROVE  Confidence = ConfidenceWith([entry EXCEPT !.excerpt = "none"])
        BY DEF FalseCitationEarnsNothing
    <2> DEFINE uncited == [entry EXCEPT !.excerpt = "none"]
    <2>1. entry \in Item /\ field \in Fields /\ result = CoerceFields(ItemsWith(entry), hasText)
        BY DEF IInv, Spoken
    <2>2. /\ uncited \in Item /\ uncited.confidence = entry.confidence
          /\ uncited.value = entry.value /\ uncited.matches = entry.matches
          /\ uncited.valid = entry.valid /\ uncited.excerpt = "none"
        BY <2>1 DEF Item
    <2> HIDE DEF uncited
    <2>3. ~CitationVerified(Schema[field], entry, hasText)
        BY <2>1, FieldUnderTest
        DEF CoerceFields, CitationVerified, VerifyExcerpt, Misquoted, Misanchored
    <2>4. ~CitationVerified(Schema[field], uncited, hasText)
        BY <2>2 DEF CitationVerified, VerifyExcerpt
    <2>5. /\ ModelSelf(uncited) = ModelSelf(entry)
          /\ ValidatorPassed(Schema[field], uncited) = ValidatorPassed(Schema[field], entry)
        BY <2>2 DEF ModelSelf, ValidatorPassed, PatternOk, ValidateValue, Empty
    <2>6. Confidence = ConfidenceWith(entry)
        BY <2>1 DEF Confidence, ConfidenceWith
    <2>7. ConfidenceWith(uncited) = ConfidenceWith(entry)
        BY <2>1, <2>2, <2>3, <2>4, <2>5, FieldUnderTest
        DEF ComputeFieldConfidence, RawConfidence
    <2> QED
        BY <2>6, <2>7 DEF uncited
<1> QED
    BY <1>1, Invariance, PTL

\* A value that the validator of its type refuses is reported and worth less than
\* a valid one would be, even where losing the refusal loses the citation too: the
\* bonus of the validator is the larger of the two.  What is left are the two
\* exceptions of RefusedValueCosts, the clamp of a required field and the value
\* that does not match its pattern, for every schema and every scale.
THEOREM RefusalCosts == Spec => []RefusedValueCosts
<1>1. IInv => RefusedValueCosts
    <2> SUFFICES ASSUME IInv, Refusable, ModelSelf(entry) > 0
                 PROVE  IF <<"pattern mismatch", field>> \in CoercionWarnings(result)
                        THEN field \notin result.validator
                        ELSE /\ field \in result.validator
                             /\ \/ Confidence < ConfidenceWith([entry EXCEPT !.value = "text",
                                                                             !.valid = TRUE])
                                \/ /\ Schema[field].required
                                   /\ 11 * ModelSelf(entry) >= 10 * Scale
                                   /\ Confidence = One
        BY DEF RefusedValueCosts
    <2> DEFINE valid == [entry EXCEPT !.value = "text", !.valid = TRUE]
               spec  == Schema[field]
               self  == ModelSelf(entry)
    <2>1. /\ entry \in Item /\ field \in Fields
          /\ result = CoerceFields(ItemsWith(entry), hasText)
        BY DEF IInv, Refusable, Spoken
    <2>w. <<"pattern mismatch", field>> \in CoercionWarnings(result) <=> ~PatternOk(spec, entry)
        <3>1. field \in result.mismatch <=> ~PatternOk(spec, entry)
            BY <2>1, FieldUnderTest DEF CoerceFields
        <3>2. <<"pattern mismatch", field>> \in CoercionWarnings(result)
                  <=> field \in result.mismatch
            BY DEF CoercionWarnings
        <3> QED
            BY <3>1, <3>2
    <2>v. field \in result.validator <=> PatternOk(spec, entry)
        <3>1. field \in result.validator <=> ~ValidatorPassed(spec, entry)
            BY <2>1, FieldUnderTest DEF CoerceFields
        <3>2. ~ValidateValue(spec.type, entry) /\ ~Empty(entry.value)
            BY DEF Refusable, ValidateValue, Empty
        <3> QED
            BY <3>1, <3>2 DEF ValidatorPassed
    <2>2. /\ valid \in Item /\ valid.confidence = entry.confidence
          /\ valid.matches = entry.matches /\ valid.valid = TRUE /\ valid.value = "text"
        BY <2>1 DEF Item, Values
    <2>3. spec \in FieldSpec
        BY <2>1, SchemaAssumption
    <2> SUFFICES ASSUME PatternOk(spec, entry)
                 PROVE  \/ Confidence < ConfidenceWith(valid)
                        \/ /\ spec.required /\ 11 * self >= 10 * Scale
                           /\ Confidence = One
        BY <2>w, <2>v
    <2>4. ~ValidatorPassed(spec, entry)
        BY <2>1, <2>v, FieldUnderTest DEF CoerceFields
    <2> HIDE DEF valid, spec
    <2>5. ValidatorPassed(spec, valid)
        BY <2>2, <2>4 DEF ValidatorPassed, PatternOk, ValidateValue, Empty, Strings
    <2>6. ModelSelf(valid) = self
        BY <2>2 DEF ModelSelf
    <2>7. self \in Nat /\ self > 0 /\ One \in Nat
        BY <2>1, ModelSelfType, SchemaAssumption DEF One
    <2> DEFINE refused == RawConfidence(self, spec, ValidatorPassed(spec, entry),
                                        CitationVerified(spec, entry, hasText))
               passed  == RawConfidence(self, spec, ValidatorPassed(spec, valid),
                                        CitationVerified(spec, valid, hasText))
    <2> HIDE DEF self
    <2>8. refused \in Nat /\ passed \in Nat /\ refused < passed
        <3>1. PICK w \in {1, 2} : w = Weight(spec)
            BY DEF Weight
        <3>2. refused \in {self * w * 10 * 10, self * w * 10 * 11}
            BY <2>4, <3>1 DEF RawConfidence
        <3>3. passed \in {self * w * 12 * 10, self * w * 12 * 11}
            BY <2>5, <3>1 DEF RawConfidence
        <3> HIDE DEF refused, passed
        <3>4. CASE w = 1
            BY <2>7, <3>2, <3>3, <3>4
        <3>5. CASE w = 2
            BY <2>7, <3>2, <3>3, <3>5
        <3> QED
            BY <3>4, <3>5
    <2>9. Confidence = Min({One, refused})
        BY <2>1, FieldUnderTest DEF Confidence, ConfidenceWith, ComputeFieldConfidence, self, spec
    <2>10. ConfidenceWith(valid) = Min({One, passed})
        BY <2>1, <2>2, <2>6, FieldUnderTest DEF ComputeFieldConfidence, spec
    <2> HIDE DEF refused, passed
    <2>11. Confidence < ConfidenceWith(valid) \/ (Confidence = One /\ refused >= One)
        BY <2>7, <2>8, <2>9, <2>10, MinMaxOfPair
    <2>12. refused >= One => spec.required /\ 11 * self >= 10 * Scale
        <3>1. refused \in {self * Weight(spec) * 10 * 10, self * Weight(spec) * 10 * 11}
            BY <2>4 DEF refused, RawConfidence
        <3>2. self <= Scale /\ Scale \in Nat \ {0} /\ One = 200 * Scale
            BY <2>1, ModelSelfType, SchemaAssumption DEF self, One
        <3>3. CASE spec.required
            <4>1. Weight(spec) = 2
                BY <3>3 DEF Weight
            <4> QED
                BY <2>7, <3>1, <3>2, <3>3, <4>1
        <3>4. CASE ~spec.required
            <4>1. Weight(spec) = 1
                BY <3>4 DEF Weight
            <4> QED
                BY <2>7, <3>1, <3>2, <4>1
        <3> QED
            BY <3>3, <3>4
    <2> QED
        BY <2>11, <2>12
<1> QED
    BY <1>1, Invariance, PTL

\* A value that earns the credit occurs in an excerpt that occurs in the document.
THEOREM CreditedInDocument == Spec => []CreditedValueIsInDocument
<1>1. IInv => CreditedValueIsInDocument
    <2> SUFFICES ASSUME IInv, Spoken, texts # NoTexts, Schema[field].type # "DATE",
                        Confidence > ConfidenceWith([entry EXCEPT !.excerpt = "none"])
                 PROVE  InText(Normalize(texts.value), Normalize(texts.document))
        BY DEF CreditedValueIsInDocument
    <2> DEFINE uncited == [entry EXCEPT !.excerpt = "none"]
               E == Chars \cup {Space}
    <2>1. /\ entry \in Item /\ field \in Fields /\ result = CoerceFields(ItemsWith(entry), hasText)
          /\ texts \in Texts /\ entry = EntryOf(texts)
        BY DEF IInv, Spoken
    <2>2. /\ uncited \in Item /\ uncited.confidence = entry.confidence
          /\ uncited.value = entry.value /\ uncited.matches = entry.matches
          /\ uncited.valid = entry.valid /\ uncited.excerpt = "none"
        BY <2>1 DEF Item
    <2> HIDE DEF uncited
    <2>3. CitationVerified(Schema[field], entry, hasText)
        <3> SUFFICES ASSUME ~CitationVerified(Schema[field], entry, hasText) PROVE FALSE
            OBVIOUS
        <3> DEFINE self == ModelSelf(entry)
                   spec == Schema[field]
                   v    == ValidatorPassed(spec, entry)
        <3>1. ~CitationVerified(spec, uncited, hasText)
            BY <2>2 DEF CitationVerified, VerifyExcerpt
        <3>2. ModelSelf(uncited) = self /\ ValidatorPassed(spec, uncited) = v
            BY <2>2 DEF ModelSelf, ValidatorPassed, PatternOk, ValidateValue, Empty
        <3>3. Confidence = ConfidenceWith(entry)
            BY <2>1 DEF Confidence, ConfidenceWith
        <3>4. ConfidenceWith(uncited) = ConfidenceWith(entry)
            BY <2>1, <2>2, <3>1, <3>2, FieldUnderTest
            DEF ComputeFieldConfidence, RawConfidence
        <3>5. ConfidenceWith(entry) \in Int
            BY <2>1, FieldUnderTest, FieldConfidenceType, SchemaAssumption
        <3> QED
            BY <3>3, <3>4, <3>5 DEF uncited
    <2>4. /\ texts.value \in Seq(Chars) /\ texts.excerpt \in Seq(Chars)
          /\ texts.document \in Seq(Chars)
        BY <2>1, CasesAssumption
    <2>5. /\ Normalize(texts.value) \in Seq(E) /\ Normalize(texts.excerpt) \in Seq(E)
          /\ Normalize(texts.document) \in Seq(E)
        BY <2>4, NormalizeType
    <2>6. /\ entry.value = ValueOf(texts.value)
          /\ entry.excerpt = (IF Verbatim(texts.document, texts.excerpt)
                              THEN "verbatim" ELSE "misquoted")
          /\ entry.anchored = Anchored(texts.value, texts.excerpt)
        BY <2>1, CasesAssumption DEF EntryOf, Item
    <2>7. entry.excerpt = "verbatim" /\ ValueAnchored(entry)
        BY <2>3 DEF CitationVerified, VerifyExcerpt, Misanchored
    <2>8. InText(Normalize(texts.excerpt), Normalize(texts.document))
        BY <2>6, <2>7 DEF Verbatim
    <2>9. CASE Normalize(texts.value) = <<>>
        <3>1. \A t \in Seq(E) : InText(<<>>, t)
            <4> SUFFICES ASSUME NEW t \in Seq(E)
                         PROVE  \E k \in 0 .. Len(t) - 0 : \A i \in 1 .. 0 : <<>>[i] = t[k + i]
                BY DEF InText
            <4>1. Len(t) \in Nat
                OBVIOUS
            <4>2. 0 \in 0 .. Len(t) - 0 /\ \A i \in 1 .. 0 : <<>>[i] = t[0 + i]
                BY <4>1
            <4> QED
                BY <4>2
        <3> QED
            BY <2>5, <2>9, <3>1
    <2>10. CASE Normalize(texts.value) # <<>>
        <3>1. texts.value # <<>>
            BY <2>6, <2>7 DEF ValueOf, ValueAnchored, Strings
        <3>2. entry.value = "text"
            BY <2>6, <2>10, <3>1 DEF ValueOf
        <3>3. InText(Normalize(texts.value), Normalize(texts.excerpt))
            BY <2>6, <2>7, <3>2 DEF ValueAnchored, Strings, Anchored
        <3> HIDE DEF E
        <3> QED
            BY <2>5, <2>8, <3>3, InTextTransitive
    <2> QED
        BY <2>9, <2>10
<1> QED
    BY <1>1, Invariance, PTL

\* What ParseJson makes of a reply, without its fences: the object that no opening
\* brace precedes and no closing one follows, where there is one.
LEMMA ParsedObject ==
    ASSUME NEW r \in Seq(Tokens), NEW t, t = StripFences(r), t \in Seq(Tokens)
    PROVE  \/ /\ ParseJson(r) = NoObject
              /\ \/ IsJson(t) /\ t[1] = "["
                 \/ \A i, j \in 1 .. Len(t) : ~Whole(t, i, j)
           \/ /\ ~(IsJson(t) /\ t[1] = "[")
              /\ \E i, j \in 1 .. Len(t) : Whole(t, i, j) /\ ParseJson(r) = SubSeq(t, i, j)
<1>1. CASE IsJson(t) /\ t[1] = "["
    <2>1. ~IsObject(t)
        BY <1>1, "[" # "{" DEF IsObject
    <2> QED
        BY <1>1, <2>1 DEF ParseJson
<1>2. CASE IsJson(t) /\ t[1] # "["
    <2>1. Len(t) >= 2 /\ t[1] = "{"
        BY <1>2, JsonBorders, Zenon
    <2>2. ParseJson(r) = t /\ IsObject(t)
        BY <1>2, <2>1 DEF ParseJson, IsObject
    <2>3. 1 \in 1 .. Len(t) /\ Len(t) \in 1 .. Len(t) /\ 1 < Len(t)
        <3>1. Len(t) >= 2
            BY <2>1
        <3>2. Len(t) \in Nat
            OBVIOUS
        <3> QED
            BY <3>1, <3>2
    <2>4. SubSeq(t, 1, Len(t)) = t
        OBVIOUS
    <2>5. /\ \A k \in 1 .. 1 - 1 : t[k] # "{"
          /\ \A k \in Len(t) + 1 .. Len(t) : t[k] # "}"
        <3>1. Len(t) \in Nat
            OBVIOUS
        <3>2. 1 .. 1 - 1 = {} /\ Len(t) + 1 .. Len(t) = {}
            BY <3>1
        <3> QED
            BY <3>2, Zenon
    <2>6. Whole(t, 1, Len(t))
        BY <2>2, <2>3, <2>4, <2>5 DEF Whole
    <2> QED
        BY <1>2, <2>2, <2>3, <2>4, <2>6
<1>3. CASE ~IsJson(t) /\ IsObject(Block(t))
    <2>1. ParseJson(r) = Block(t)
        BY <1>3 DEF ParseJson
    <2> QED
        BY <1>3, <2>1, BlockIsWhole
<1>4. CASE ~IsJson(t) /\ ~IsObject(Block(t))
    <2>1. ParseJson(r) = NoObject
        BY <1>4 DEF ParseJson
    <2>2. \A i, j \in 1 .. Len(t) : ~Whole(t, i, j)
        BY <1>4, WholeIsBlock DEF Whole
    <2> QED
        BY <2>1, <2>2
<1> QED
    BY <1>1, <1>2, <1>3, <1>4

\* A reply is read as the object in it that no opening brace precedes and no
\* closing brace follows, and is refused when there is none, or an array instead.
THEOREM OneObjectRead == Spec => []OneObjectIsRead
<1>1. IInv => OneObjectIsRead
    <2> SUFFICES ASSUME IInv, parsed # NotParsed
                 PROVE  OneObjectIsRead
        BY DEF OneObjectIsRead
    <2> DEFINE t == StripFences(raw)
               whole == {p \in ObjectsIn(t) : /\ \A i \in 1 .. p[1] - 1 : t[i] # "{"
                                              /\ \A i \in p[2] + 1 .. Len(t) : t[i] # "}"}
    <2>1. raw \in Seq(Tokens) /\ parsed = ParseJson(raw)
        BY DEF IInv
    <2>2. t \in Seq(Tokens)
        BY <2>1, StripFencesType
    <2>3. t = StripFences(raw)
        OBVIOUS
    <2> HIDE DEF t
    <2>4. \A p : p \in whole <=> \E i, j \in 1 .. Len(t) : p = <<i, j>> /\ Whole(t, i, j)
        <3>1. DOMAIN t = 1 .. Len(t)
            BY <2>2
        <3>2. ASSUME NEW p, p \in whole
              PROVE  \E i, j \in 1 .. Len(t) : p = <<i, j>> /\ Whole(t, i, j)
            <4>0. p \in (DOMAIN t) \X (DOMAIN t)
                BY <3>2, Zenon DEF ObjectsIn
            <4>1. PICK i \in 1 .. Len(t), j \in 1 .. Len(t) : p = <<i, j>>
                BY <3>1, <4>0
            <4>2. p[1] = i /\ p[2] = j
                BY <4>1
            <4>3. Whole(t, i, j)
                BY <3>2, <4>2 DEF ObjectsIn, Whole
            <4> QED
                BY <4>1, <4>3
        <3>3. ASSUME NEW i \in 1 .. Len(t), NEW j \in 1 .. Len(t), Whole(t, i, j)
              PROVE  <<i, j>> \in whole
            <4>1. <<i, j>>[1] = i /\ <<i, j>>[2] = j
                OBVIOUS
            <4>2. <<i, j>> \in ObjectsIn(t)
                <5>1. <<i, j>> \in (DOMAIN t) \X (DOMAIN t)
                    BY <3>1
                <5> QED
                    BY <3>3, <4>1, <5>1, Zenon DEF ObjectsIn, Whole
            <4> QED
                BY <3>3, <4>1, <4>2, Zenon DEF Whole
        <3> QED
            BY <3>2, <3>3
    <2> HIDE DEF whole
    <2>5. IF whole = {} \/ (IsJson(t) /\ t[1] = "[")
          THEN parsed = NoObject
          ELSE \E p \in whole : parsed = SubSeq(t, p[1], p[2])
        <3>1. CASE /\ ParseJson(raw) = NoObject
                   /\ \/ IsJson(t) /\ t[1] = "["
                      \/ \A i, j \in 1 .. Len(t) : ~Whole(t, i, j)
            BY <2>1, <2>4, <3>1
        <3>2. CASE /\ ~(IsJson(t) /\ t[1] = "[")
                   /\ \E i, j \in 1 .. Len(t) : /\ Whole(t, i, j)
                                                /\ ParseJson(raw) = SubSeq(t, i, j)
            <4>1. PICK i \in 1 .. Len(t), j \in 1 .. Len(t) :
                      Whole(t, i, j) /\ ParseJson(raw) = SubSeq(t, i, j)
                BY <3>2
            <4>2. <<i, j>> \in whole /\ <<i, j>>[1] = i /\ <<i, j>>[2] = j
                BY <2>4, <4>1
            <4> QED
                BY <2>1, <3>2, <4>1, <4>2
        <3> QED
            BY <2>1, <2>2, <2>3, <3>1, <3>2, ParsedObject
    <2> QED
        BY <2>5 DEF OneObjectIsRead, whole, t
<1> QED
    BY <1>1, Invariance, PTL

\* A sum over a finite set, in the order in which CHOOSE picks its elements.
SumOf(v, s) ==
    CHOOSE g : g = [u \in SUBSET s |-> IF u = {} THEN 0
                                       ELSE v[CHOOSE x \in u : TRUE]
                                                + g[u \ {CHOOSE x \in u : TRUE}]]

\* A sum of naturals is one, and has its elements one by one.
LEMMA SumSteps ==
    ASSUME NEW S, IsFiniteSet(S), NEW v, \A x \in S : v[x] \in Nat
    PROVE  /\ SumOf(v, S)[{}] = 0
           /\ \A u \in SUBSET S :
                  /\ SumOf(v, S)[u] \in Nat
                  /\ u # {} => SumOf(v, S)[u] = v[CHOOSE x \in u : TRUE]
                                    + SumOf(v, S)[u \ {CHOOSE x \in u : TRUE}]
<1> DEFINE pick == [u \in SUBSET S |-> CHOOSE x \in u : TRUE]
           F    == [x \in S |-> [n \in Nat |-> v[x] + n]]
<1>1. \A u \in SUBSET S : pick[u] = (CHOOSE x \in u : TRUE) /\ (u # {} => pick[u] \in u)
    OBVIOUS
<1>2. \A x \in S, n \in Nat : F[x][n] = v[x] + n
    OBVIOUS
<1>3. Picks(pick, S) /\ Steps(F, S, Nat)
    BY <1>1, <1>2 DEF Picks, Steps
<1> HIDE DEF pick, F
<1>4. PICK g \in [SUBSET S -> Nat] : Folds(g, S, 0, pick, F)
    BY <1>3, FoldExists
<1>5. \A u \in SUBSET S :
          g[u] = IF u = {} THEN 0
                 ELSE v[CHOOSE x \in u : TRUE] + g[u \ {CHOOSE x \in u : TRUE}]
    <2> SUFFICES ASSUME NEW u \in SUBSET S
                 PROVE  g[u] = IF u = {} THEN 0
                               ELSE v[CHOOSE x \in u : TRUE] + g[u \ {CHOOSE x \in u : TRUE}]
        OBVIOUS
    <2>1. CASE u = {}
        BY <1>4, <2>1 DEF Folds
    <2>2. CASE u # {}
        <3>1. pick[u] \in S /\ g[u \ {pick[u]}] \in Nat
            BY <1>1, <2>2
        <3>2. g[u] = F[pick[u]][g[u \ {pick[u]}]]
            BY <1>4, <2>2 DEF Folds
        <3>3. g[u] = v[pick[u]] + g[u \ {pick[u]}]
            BY <1>2, <3>1, <3>2
        <3> QED
            BY <1>1, <2>2, <3>3
    <2> QED
        BY <2>1, <2>2
<1>6. g = [u \in SUBSET S |-> IF u = {} THEN 0
                              ELSE v[CHOOSE x \in u : TRUE] + g[u \ {CHOOSE x \in u : TRUE}]]
    BY <1>5
<1> DEFINE s == SumOf(v, S)
<1>7. s = [u \in SUBSET S |-> IF u = {} THEN 0
                              ELSE v[CHOOSE x \in u : TRUE] + s[u \ {CHOOSE x \in u : TRUE}]]
    BY <1>6 DEF SumOf
<1> HIDE DEF s
<1>8. /\ s[{}] = 0
      /\ \A u \in SUBSET S : u # {} =>
             s[u] = v[CHOOSE x \in u : TRUE] + s[u \ {CHOOSE x \in u : TRUE}]
    BY <1>7
<1> DEFINE P == {u \in SUBSET S : s[u] \in Nat}
<1>9. Grows(P, S, pick)
    <2>1. {} \in P
        BY <1>8
    <2>2. ASSUME NEW u \in SUBSET S, u # {}, u \ {pick[u]} \in P PROVE u \in P
        <3>1. pick[u] \in S /\ s[u \ {pick[u]}] \in Nat
            BY <1>1, <2>2
        <3>2. s[u] = v[pick[u]] + s[u \ {pick[u]}]
            BY <1>1, <1>8, <2>2
        <3> QED
            BY <3>1, <3>2
    <2> QED
        BY <2>1, <2>2 DEF Grows
<1> HIDE DEF P
<1>10. SUBSET S \subseteq P
    BY <1>3, <1>9, SetInduction
<1> QED
    BY <1>8, <1>10 DEF P, s

\* A weighted mean of probabilities is one: with the confidences and the weights
\* of the fields, the sum of their products is at most the sum of the weights.
LEMMA OverallType ==
    ASSUME NEW fs, \A f \in Fields : fs[f].confidence \in 0 .. One
    PROVE  LET o == ComputeOverall(fs) IN o.num \in 0 .. o.den
<1> DEFINE num  == [f \in Fields |-> fs[f].confidence * Weight(Schema[f])]
           den  == [f \in Fields |-> Weight(Schema[f])]
           pick == [u \in SUBSET Fields |-> CHOOSE x \in u : TRUE]
           P    == {u \in SUBSET Fields : SumOf(num, Fields)[u] <= One * SumOf(den, Fields)[u]}
<1>1. IsFiniteSet(Fields)
    BY SchemaAssumption, FS_Subset
<1>2. One \in Nat
    BY SchemaAssumption DEF One
<1>3. \A f \in Fields : /\ den[f] \in {1, 2} /\ num[f] \in Nat
                        /\ num[f] <= One * den[f]
    <2> SUFFICES ASSUME NEW f \in Fields
                 PROVE  /\ den[f] \in {1, 2} /\ num[f] \in Nat
                        /\ num[f] <= One * den[f]
        OBVIOUS
    <2>1. PICK c \in Nat : c = fs[f].confidence /\ c <= One
        BY <1>2
    <2>2. PICK w \in {1, 2} : w = Weight(Schema[f])
        BY DEF Weight
    <2>3. den[f] = w /\ num[f] = c * w
        BY <2>1, <2>2
    <2> HIDE DEF num, den
    <2>4. CASE w = 1
        BY <1>2, <2>1, <2>3, <2>4
    <2>5. CASE w = 2
        BY <1>2, <2>1, <2>3, <2>5
    <2> QED
        BY <2>4, <2>5
<1>4. \A u \in SUBSET Fields : pick[u] = (CHOOSE x \in u : TRUE) /\ (u # {} => pick[u] \in u)
    OBVIOUS
<1>5. Picks(pick, Fields)
    BY <1>4 DEF Picks
<1>6. /\ MapThenSumSet(LAMBDA f : fs[f].confidence * Weight(Schema[f]), Fields)
             = SumOf(num, Fields)[Fields]
      /\ MapThenSumSet(LAMBDA f : Weight(Schema[f]), Fields) = SumOf(den, Fields)[Fields]
    BY DEF MapThenSumSet, MapThenFoldSet, SumOf
<1> HIDE DEF num, den, pick
<1>7. /\ SumOf(num, Fields)[{}] = 0 /\ SumOf(den, Fields)[{}] = 0
      /\ \A u \in SUBSET Fields :
             /\ SumOf(num, Fields)[u] \in Nat /\ SumOf(den, Fields)[u] \in Nat
             /\ u # {} => /\ SumOf(num, Fields)[u] = num[pick[u]]
                                                        + SumOf(num, Fields)[u \ {pick[u]}]
                          /\ SumOf(den, Fields)[u] = den[pick[u]]
                                                        + SumOf(den, Fields)[u \ {pick[u]}]
    <2>1. \A f \in Fields : num[f] \in Nat /\ den[f] \in Nat
        BY <1>3
    <2>2. /\ SumOf(num, Fields)[{}] = 0
          /\ \A u \in SUBSET Fields :
                 /\ SumOf(num, Fields)[u] \in Nat
                 /\ u # {} => SumOf(num, Fields)[u] = num[CHOOSE x \in u : TRUE]
                                   + SumOf(num, Fields)[u \ {CHOOSE x \in u : TRUE}]
        BY <1>1, <2>1, SumSteps, Zenon
    <2>3. /\ SumOf(den, Fields)[{}] = 0
          /\ \A u \in SUBSET Fields :
                 /\ SumOf(den, Fields)[u] \in Nat
                 /\ u # {} => SumOf(den, Fields)[u] = den[CHOOSE x \in u : TRUE]
                                   + SumOf(den, Fields)[u \ {CHOOSE x \in u : TRUE}]
        BY <1>1, <2>1, SumSteps, Zenon
    <2> QED
        BY <1>4, <2>2, <2>3
<1>8. Grows(P, Fields, pick)
    <2>1. {} \in P
        BY <1>2, <1>7
    <2>2. ASSUME NEW u \in SUBSET Fields, u # {}, u \ {pick[u]} \in P PROVE u \in P
        <3>1. PICK f \in Fields : f = pick[u]
            BY <1>4, <2>2
        <3>2. PICK a \in Nat : a = SumOf(num, Fields)[u \ {f}]
            BY <1>7
        <3>3. PICK b \in Nat : b = SumOf(den, Fields)[u \ {f}]
            BY <1>7
        <3>4. a <= One * b
            BY <2>2, <3>1, <3>2, <3>3
        <3>5. PICK n \in Nat : n = num[f]
            BY <1>3
        <3>6. PICK w \in {1, 2} : w = den[f]
            BY <1>3
        <3>7. n <= One * w
            BY <1>3, <3>5, <3>6
        <3>8. n + a <= One * (w + b)
            BY <1>2, <3>4, <3>7
        <3>9. SumOf(num, Fields)[u] = n + a /\ SumOf(den, Fields)[u] = w + b
            BY <1>7, <2>2, <3>1, <3>2, <3>3, <3>5, <3>6
        <3> QED
            BY <3>8, <3>9
    <2> QED
        BY <2>1, <2>2 DEF Grows
<1> HIDE DEF P
<1>9. Fields \in P
    BY <1>1, <1>5, <1>8, SetInduction
<1>10. /\ SumOf(num, Fields)[Fields] \in Nat /\ SumOf(den, Fields)[Fields] \in Nat
       /\ SumOf(num, Fields)[Fields] <= One * SumOf(den, Fields)[Fields]
    BY <1>7, <1>9 DEF P
<1>11. ComputeOverall(fs).num \in {0, SumOf(num, Fields)[Fields]}
    BY <1>6 DEF ComputeOverall
<1>12. ComputeOverall(fs).den = One * SumOf(den, Fields)[Fields]
    BY <1>6 DEF ComputeOverall
<1> QED
    BY <1>2, <1>10, <1>11, <1>12

\* The confidence of a field, in a reply with any entries.
LEMMA CoercedConfidence ==
    ASSUME NEW items, NEW text, NEW f \in Fields, \A g \in Given(items) : items[g] \in Item
    PROVE  CoerceFields(items, text).fields[f].confidence \in 0 .. One
<1>1. CoerceFields(items, text).fields[f] = ExtractedField(f, items, text)
    BY DEF CoerceFields
<1>2. Schema[f] \in FieldSpec
    BY SchemaAssumption
<1>3. CASE f \in Given(items)
    <2> DEFINE c == ComputeFieldConfidence(ModelSelf(items[f]), Schema[f],
                        ValidatorPassed(Schema[f], items[f]),
                        CitationVerified(Schema[f], items[f], text))
    <2>1. ExtractedField(f, items, text) = [value |-> StoredValue(items[f].value),
                                            confidence |-> c]
        BY <1>3, Zenon DEF ExtractedField
    <2>2. c \in 0 .. One
        BY <1>2, <1>3, FieldConfidenceType
    <2> HIDE DEF c
    <2> QED
        BY <1>1, <2>1, <2>2
<1>4. CASE f \notin Given(items)
    <2>1. ExtractedField(f, items, text) = [value |-> "null", confidence |-> 0]
        BY <1>4, Zenon DEF ExtractedField
    <2>2. One \in Nat
        BY SchemaAssumption DEF One
    <2> QED
        BY <1>1, <2>1, <2>2
<1> QED
    BY <1>3, <1>4

\* The bench gives one field any entry and the others a faultless one.  These
\* facts hold for replies in which every field has any entry or none: every
\* confidence is a probability, the overall one included, and a missing required
\* field zeroes it.
THEOREM AnyReply ==
    ASSUME NEW items, NEW text, \A f \in Given(items) : items[f] \in Item
    PROVE  LET c == CoerceFields(items, text)
               o == ComputeOverall(c.fields)
           IN  /\ \A f \in Fields : c.fields[f].confidence \in 0 .. One
               /\ o.num \in 0 .. o.den
               /\ c.missing # {} => o.num = 0
<1> DEFINE fs == CoerceFields(items, text).fields
<1>1. \A f \in Fields : fs[f].confidence \in 0 .. One
    BY CoercedConfidence
<1>2. CoerceFields(items, text).missing # {} => ComputeOverall(fs).num = 0
    BY MissingScore
<1> HIDE DEF fs
<1>3. ComputeOverall(fs).num \in 0 .. ComputeOverall(fs).den
    BY <1>1, OverallType
<1> QED
    BY <1>1, <1>2, <1>3 DEF fs

\* Every confidence in a result is a probability, the overall one included, for
\* schemas of any size.
THEOREM ConfidencesAreProbabilities == Spec => []ConfidenceIsProbability
<1>1. IInv => ConfidenceIsProbability
    <2> SUFFICES ASSUME IInv, Coerced PROVE ConfidenceIsProbability
        BY DEF ConfidenceIsProbability
    <2> DEFINE items == ItemsWith(entry)
    <2>1. result = CoerceFields(items, hasText)
        BY DEF IInv
    <2>2. \A f \in Given(items) : items[f] \in Item
        BY CasesAssumption, SchemaAssumption DEF IInv, ItemsWith, Given
    <2> HIDE DEF items
    <2> QED
        BY <2>1, <2>2, AnyReply DEF ConfidenceIsProbability
<1> QED
    BY <1>1, Invariance, PTL
=============================================================================
