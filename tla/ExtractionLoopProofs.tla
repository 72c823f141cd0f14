------------------------ MODULE ExtractionLoopProofs ------------------------
(***************************************************************************)
(* Proofs about ExtractionLoop, for every schema, every set of replies and *)
(* verdicts, and every MaxRetries and Attempts.                            *)
(***************************************************************************)
EXTENDS ExtractionLoop, TLAPS

----------------------------------------------------------------------------
(***************************************************************************)
(* What CoerceFields computes.                                             *)
(***************************************************************************)

\* The smaller and the larger of two integers are one of them.
LEMMA MinMaxOfPair ==
    ASSUME NEW a \in Int, NEW b \in Int
    PROVE  Min({a, b}) \in Int /\ Max({a, b}) \in Int
<1>1. \E x \in {a, b} : \A y \in {a, b} : x <= y
    OBVIOUS
<1>2. \E x \in {a, b} : \A y \in {a, b} : x >= y
    OBVIOUS
<1>3. Min({a, b}) \in {a, b}
    BY <1>1 DEF Min
<1>4. Max({a, b}) \in {a, b}
    BY <1>2 DEF Max
<1> QED
    BY <1>3, <1>4

\* Every field of the schema gets a stored value and an integer confidence.
LEMMA ExtractedFieldType ==
    ASSUME NEW f \in Fields, NEW items \in Payload, NEW hasText \in BOOLEAN
    PROVE  ExtractedField(f, items, hasText) \in FieldResult
<1> DEFINE i == items[f]
           vp == ValidatorPassed(Schema[f], i)
           cv == CitationVerified(Schema[f], i, hasText)
<1>1. CASE f \notin Given(items)
    BY <1>1 DEF ExtractedField, FieldResult, Values
<1>2. CASE f \in Given(items)
    <2>1. i \in Item
        BY <1>2, SchemaAssumption DEF Given, Payload, NoEntry
    <2>2. ModelSelf(i) \in Int
        <3>1. i.confidence \in Int /\ Scale \in Int
            BY <2>1, SchemaAssumption DEF Item
        <3> QED
            BY <3>1, MinMaxOfPair DEF ModelSelf
    <2>3. RawConfidence(ModelSelf(i), Schema[f], vp, cv) \in Int
        BY <2>2 DEF RawConfidence, Weight
    <2>4. ComputeFieldConfidence(ModelSelf(i), Schema[f], vp, cv) \in Int
        BY <2>3, MinMaxOfPair, SchemaAssumption DEF ComputeFieldConfidence, One
    <2>5. StoredValue(i.value) \in Values
        BY <2>1 DEF StoredValue, Item, Values
    <2> QED
        BY <1>2, <2>4, <2>5 DEF ExtractedField, FieldResult
<1> QED
    BY <1>1, <1>2

\* On a reply with entries, the failure lists are the ones the properties
\* restate from the entries, and the results have their types.
LEMMA CoercedFacts ==
    ASSUME reply.kind = "fields", reply.items \in Payload
    PROVE  /\ Coerced.fields \in [Fields -> FieldResult]
           /\ Coerced.missing = Missing
           /\ Coerced.anchor = Fabricated
           /\ Coerced.citation = MadeUpCitations
           /\ Coerced.validator = Refused
           /\ CoercionWarnings(Coerced) \subseteq Warning
           /\ {"MISSING_REQUIRED"} \X Missing \subseteq CoercionWarnings(Coerced)
<1> DEFINE hasText == mode = "text"
           items == reply.items
<1>0. \A f \in Given(items) : items[f] \in Item
    BY SchemaAssumption DEF Given, Payload
<1>1. Coerced.fields \in [Fields -> FieldResult]
    BY ExtractedFieldType DEF Coerced, CoerceFields
<1>2. Coerced.missing = Missing
    BY DEF Coerced, CoerceFields, Missing, Given, Entered, Empty
<1>3. Coerced.anchor = Fabricated
    BY <1>0 DEF Coerced, CoerceFields, Fabricated, Given, Entered, Misanchored,
                VerifyExcerpt, ValueAnchored, Strings, Item, Values
<1>4. Coerced.citation = MadeUpCitations
    BY <1>0 DEF Coerced, CoerceFields, MadeUpCitations, Given, Entered, Misquoted, Empty
<1>5. Coerced.absent \subseteq Fields
      /\ Coerced.mismatch \subseteq Fields /\ Coerced.missing \subseteq Fields
    BY DEF Coerced, CoerceFields, Given
<1>6. CoercionWarnings(Coerced) \subseteq Warning
    BY <1>5 DEF CoercionWarnings, Warning
<1>7. {"MISSING_REQUIRED"} \X Missing \subseteq CoercionWarnings(Coerced)
    BY <1>2 DEF CoercionWarnings
<1>8. Coerced.validator = Refused
    BY <1>0 DEF Coerced, CoerceFields, Refused, Given, Entered, ValidatorPassed, PatternOk,
                ValidateValue, Empty, Item, Values
<1> QED
    BY <1>1, <1>2, <1>3, <1>4, <1>6, <1>7, <1>8

----------------------------------------------------------------------------
(***************************************************************************)
(* The inductive invariant.  TypeOK is not enough for the safety           *)
(* properties: what is decided in "judge" rests on the reply that was      *)
(* coerced before, and what a re-prompt carries rests on the decision of   *)
(* the attempt before.                                                     *)
(***************************************************************************)

\* Where the request stands and what it has heard so far fit together.
Progress ==
    /\ pc # "done" => outcome = NoOutcome
    /\ pc = "idle" => attempt = 0 /\ tries = 0 /\ calls = 0
    /\ pc = "verify" => mode = "vision"
    /\ pc \in {"verify", "judge"} => reply.kind = "fields"

\* A result is the decision Accept takes.
ResultIsDecided ==
    Returned => /\ reply.kind = "fields"
                /\ outcome.warnings = FinalWarnings
                /\ ~Fatal \/ IsLastAttempt

IInv == TypeOK /\ Progress /\ RepromptIsAboutLastReply /\ ResultIsDecided /\ ErrorNamesItsCause

\* The initial states satisfy the invariant.
LEMMA InitInvariant == Init => IInv
<1> SUFFICES ASSUME Init PROVE IInv
    OBVIOUS
<1>1. TypeOK
    BY LoopAssumption DEF Init, TypeOK, NoFailures, Failures, Outcome
<1>2. Progress
    BY DEF Init, Progress
<1>3. RepromptIsAboutLastReply /\ ResultIsDecided /\ ErrorNamesItsCause
    BY DEF Init, RepromptIsAboutLastReply, ResultIsDecided, ErrorNamesItsCause, Returned,
           NoOutcome, Error
<1> QED
    BY <1>1, <1>2, <1>3 DEF IInv

\* Every step keeps the types.
LEMMA TypeInvariance == IInv /\ [Next]_vars => TypeOK'
<1> SUFFICES ASSUME IInv, [Next]_vars PROVE TypeOK'
    OBVIOUS
<1> USE LoopAssumption
<1>0. TypeOK /\ Progress
    BY DEF IInv
<1> USE DEF TypeOK, Outcome, Failures
<1>c. CountCall => calls' \in Nat
    <2>1. calls \in Nat
        BY <1>0
    <2> QED
        BY <2>1 DEF CountCall
<1>e. \A e \in {"KeyError", "BedrockError", "ExtractionError", "ValueError", "other"} :
        Fail(e) => pc' = "done" /\ outcome' \in Outcome
    BY DEF Fail, Error
<1>1. CASE Begin
    BY <1>0, <1>1 DEF Begin
<1>2. CASE RejectSchema
    BY <1>0, <1>2, <1>e DEF RejectSchema
<1>3. CASE TransientFailure
    <2>1. tries' \in 0 .. Attempts - 1
        BY <1>0, <1>3 DEF TransientFailure
    <2> QED
        BY <1>0, <1>3, <1>c, <2>1 DEF TransientFailure
<1>4. CASE InvokeRaises
    BY <1>0, <1>4, <1>c, <1>e DEF InvokeRaises
<1>5. CASE VerifyRaises
    BY <1>0, <1>5, <1>c DEF VerifyRaises
<1>13. CASE RaisesOther
    <2>1. calls' \in Nat
        BY <1>0, <1>13, <1>c DEF RaisesOther
    <2> QED
        BY <1>0, <1>13, <1>e, <2>1 DEF RaisesOther
<1>6. ASSUME NEW r \in Replies, ReplyUnparseable(r) PROVE TypeOK'
    <2>1. previous' \in Failures
        BY <1>6 DEF ReplyUnparseable, AfterParseFailure, NoFailures
    <2>2. pc' \in {"invoke", "done"} /\ attempt' \in 0 .. MaxRetries /\ outcome' \in Outcome
        BY <1>0, <1>6, <1>e DEF ReplyUnparseable, NextAttempt
    <2> QED
        BY <1>0, <1>6, <1>c, <2>1, <2>2 DEF ReplyUnparseable, InvokeReturns
<1>7. ASSUME NEW r \in Replies, ReplyUncoercible(r) PROVE TypeOK'
    BY <1>0, <1>7, <1>c, <1>e DEF ReplyUncoercible, InvokeReturns
<1>8. ASSUME NEW r \in Replies, ReplyCoerced(r) PROVE TypeOK'
    BY <1>0, <1>8, <1>c DEF ReplyCoerced, InvokeReturns
<1>9. ASSUME NEW v \in Verdicts, VerifyReturns(v) PROVE TypeOK'
    BY <1>0, <1>9, <1>c DEF VerifyReturns
<1>h. pc = "judge" => reply.kind = "fields" /\ reply.items \in Payload
    BY <1>0 DEF Progress, Reply
<1>10. CASE Accept
    <2>1. Coerced.fields \in [Fields -> FieldResult]
        BY <1>10, <1>h, CoercedFacts DEF Accept
    <2>2. FinalWarnings \subseteq Warning
        <3>1. CoercionWarnings(Coerced) \subseteq Warning /\ Coerced.anchor \subseteq Fields
            BY <1>10, <1>h, CoercedFacts DEF Accept, Fabricated
        <3> QED
            BY <1>0, <3>1 DEF FinalWarnings, Warning
    <2>3. outcome' \in Outcome
        BY <1>10, <2>1, <2>2 DEF Accept
    <2> QED
        BY <1>0, <1>10, <2>3 DEF Accept
<1>11. CASE Reprompt
    <2>1. AfterRejection \in Failures
        BY <1>0, <1>11, <1>h, CoercedFacts
           DEF Reprompt, AfterRejection, Missing, Fabricated, MadeUpCitations, Refused
    <2>2. pc' \in {"invoke", "done"} /\ attempt' \in 0 .. MaxRetries /\ outcome' \in Outcome
        BY <1>0, <1>11, <1>e DEF Reprompt, NextAttempt
    <2> QED
        BY <1>0, <1>11, <2>1, <2>2 DEF Reprompt
<1>12. CASE UNCHANGED vars
    BY <1>0, <1>12 DEF vars
<1> QED
    BY <1>1, <1>2, <1>3, <1>4, <1>5, <1>6, <1>7, <1>8, <1>9, <1>10, <1>11, <1>12, <1>13
       DEF Next, Serve, Finished

\* Every step keeps the control state and the reply in agreement.
LEMMA ProgressInvariance == IInv /\ [Next]_vars => Progress'
<1> SUFFICES ASSUME IInv, [Next]_vars PROVE Progress'
    OBVIOUS
<1>0. TypeOK /\ Progress
    BY DEF IInv
<1> USE DEF Progress
<1>1. CASE Begin
    BY <1>0, <1>1 DEF Begin
<1>2. CASE RejectSchema
    BY <1>0, <1>2 DEF RejectSchema, Fail
<1>3. CASE TransientFailure
    BY <1>0, <1>3 DEF TransientFailure
<1>4. CASE InvokeRaises
    BY <1>0, <1>4 DEF InvokeRaises, Fail
<1>5. CASE VerifyRaises
    BY <1>0, <1>5 DEF VerifyRaises
<1>13. CASE RaisesOther
    BY <1>0, <1>13 DEF RaisesOther, Fail
<1>6. ASSUME NEW r \in Replies, ReplyUnparseable(r) PROVE Progress'
    BY <1>0, <1>6 DEF ReplyUnparseable, InvokeReturns, NextAttempt, Fail
<1>7. ASSUME NEW r \in Replies, ReplyUncoercible(r) PROVE Progress'
    BY <1>0, <1>7 DEF ReplyUncoercible, InvokeReturns, Fail
<1>8. ASSUME NEW r \in Replies, ReplyCoerced(r) PROVE Progress'
    BY <1>0, <1>8 DEF ReplyCoerced, InvokeReturns
<1>9. ASSUME NEW v \in Verdicts, VerifyReturns(v) PROVE Progress'
    BY <1>0, <1>9 DEF VerifyReturns
<1>10. CASE Accept
    BY <1>0, <1>10 DEF Accept
<1>11. CASE Reprompt
    BY <1>0, <1>11 DEF Reprompt, NextAttempt, Fail
<1>12. CASE UNCHANGED vars
    BY <1>0, <1>12 DEF vars
<1> QED
    BY <1>1, <1>2, <1>3, <1>4, <1>5, <1>6, <1>7, <1>8, <1>9, <1>10, <1>11, <1>12, <1>13
       DEF Next, Serve, Finished

\* While the reply and the mode stay, so does everything said about them.
LEMMA SameReply ==
    ASSUME reply' = reply, mode' = mode, ungrounded' = ungrounded
    PROVE  /\ Missing' = Missing /\ Fabricated' = Fabricated
           /\ MadeUpCitations' = MadeUpCitations /\ Refused' = Refused
           /\ OpenDoubts' = OpenDoubts /\ Coerced' = Coerced
<1>1. /\ Missing' = Missing /\ Fabricated' = Fabricated
      /\ MadeUpCitations' = MadeUpCitations /\ Refused' = Refused
    BY DEF Missing, Fabricated, MadeUpCitations, Refused, Entered
<1> QED
    BY <1>1 DEF OpenDoubts, Coerced

\* Tagging the elements of a set does not make it empty.
LEMMA TaggedEmpty ==
    ASSUME NEW tag, NEW S
    PROVE  {tag} \X S = {} <=> S = {}
<1>1. ASSUME NEW x \in S PROVE {tag} \X S # {}
    <2>1. <<tag, x>> \in {tag} \X S
        OBVIOUS
    <2> QED
        BY <2>1
<1>2. S = {} => {tag} \X S = {}
    OBVIOUS
<1> QED
    BY <1>1, <1>2

\* A rejected reply has an open doubt, and the lists made of it are the ones
\* the properties restate.
LEMMA RejectionFacts ==
    ASSUME TypeOK, Progress, pc = "judge"
    PROVE  /\ reply.kind = "fields" /\ reply.items \in Payload
           /\ Fatal <=> OpenDoubts # {}
           /\ AfterRejection.validation = Missing
           /\ AfterRejection.anchor = Fabricated
           /\ AfterRejection.citation = MadeUpCitations
           /\ AfterRejection.validator = Refused
           /\ AfterRejection.grounding = ungrounded
<1>1. reply.kind = "fields" /\ reply.items \in Payload
    BY DEF TypeOK, Progress, Reply
<1>2. Fatal <=> OpenDoubts # {}
    <2>1. Fatal <=> Missing # {} \/ Fabricated # {} \/ ungrounded # {}
        BY <1>1, CoercedFacts DEF Fatal
    <2>2. OpenDoubts # {} <=> Missing # {} \/ Fabricated # {} \/ ungrounded # {}
        <3>1. OpenDoubts = {} <=> /\ {"MISSING_REQUIRED"} \X Missing = {}
                                  /\ {"UNANCHORED"} \X Fabricated = {}
                                  /\ {"UNGROUNDED"} \X ungrounded = {}
            BY Zenon DEF OpenDoubts
        <3> QED
            BY <3>1, TaggedEmpty
    <2> QED
        BY <2>1, <2>2
<1>3. /\ AfterRejection.validation = Coerced.missing
      /\ AfterRejection.anchor = Coerced.anchor
      /\ AfterRejection.citation = Coerced.citation
      /\ AfterRejection.validator = Coerced.validator
      /\ AfterRejection.grounding = ungrounded
    BY DEF AfterRejection
<1> QED
    BY <1>1, <1>2, <1>3, CoercedFacts

\* Every step keeps what a re-prompt says.
LEMMA RepromptInvariance == IInv /\ [Next]_vars => RepromptIsAboutLastReply'
<1> SUFFICES ASSUME IInv, [Next]_vars PROVE RepromptIsAboutLastReply'
    OBVIOUS
<1>0. TypeOK /\ Progress /\ RepromptIsAboutLastReply
    BY DEF IInv
<1>1. CASE Begin
    BY <1>0, <1>1 DEF Begin, RepromptIsAboutLastReply, Progress
<1>2. CASE RejectSchema \/ InvokeRaises \/ VerifyRaises \/ RaisesOther \/ Accept
    BY <1>2 DEF RejectSchema, InvokeRaises, VerifyRaises, RaisesOther, Accept, Fail,
                RepromptIsAboutLastReply
<1>3. CASE TransientFailure \/ UNCHANGED vars
    <2>1. UNCHANGED <<reply, mode, ungrounded, pc, attempt, previous>>
        BY <1>3 DEF TransientFailure, vars
    <2> QED
        BY <1>0, <2>1, SameReply DEF RepromptIsAboutLastReply, NoFailures
<1>6. ASSUME NEW r \in Replies, ReplyUnparseable(r) PROVE RepromptIsAboutLastReply'
    BY <1>6 DEF ReplyUnparseable, InvokeReturns, AfterParseFailure, NoFailures,
                RepromptIsAboutLastReply
<1>7. ASSUME NEW r \in Replies, ReplyUncoercible(r) PROVE RepromptIsAboutLastReply'
    BY <1>7 DEF ReplyUncoercible, Fail, RepromptIsAboutLastReply
<1>8. ASSUME NEW r \in Replies, ReplyCoerced(r) PROVE RepromptIsAboutLastReply'
    BY <1>8 DEF ReplyCoerced, RepromptIsAboutLastReply
<1>9. ASSUME NEW v \in Verdicts, VerifyReturns(v) PROVE RepromptIsAboutLastReply'
    BY <1>9 DEF VerifyReturns, RepromptIsAboutLastReply
<1>11. CASE Reprompt
    <2>1. UNCHANGED <<reply, mode, ungrounded>> /\ previous' = AfterRejection /\ pc = "judge"
        BY <1>11 DEF Reprompt
    <2>2. Fatal
        BY <1>11 DEF Reprompt
    <2> QED
        BY <1>0, <2>1, <2>2, SameReply, RejectionFacts DEF RepromptIsAboutLastReply
<1> QED
    BY <1>1, <1>2, <1>3, <1>6, <1>7, <1>8, <1>9, <1>11 DEF Next, Serve, Finished

\* Every step keeps a result equal to the decision it came from.
LEMMA ResultInvariance == IInv /\ [Next]_vars => ResultIsDecided'
<1> SUFFICES ASSUME IInv, [Next]_vars PROVE ResultIsDecided'
    OBVIOUS
<1>0. TypeOK /\ Progress /\ ResultIsDecided
    BY DEF IInv
<1>1. CASE UNCHANGED vars
    <2>1. UNCHANGED <<reply, mode, ungrounded, attempt, outcome>>
        BY <1>1 DEF vars
    <2> QED
        BY <1>0, <2>1, SameReply
           DEF ResultIsDecided, Returned, FinalWarnings, Fatal, IsLastAttempt
<1>2. CASE Accept
    <2>1. UNCHANGED <<reply, mode, ungrounded, attempt>> /\ pc = "judge"
          /\ (~Fatal \/ IsLastAttempt) /\ outcome'.warnings = FinalWarnings
        BY <1>2 DEF Accept
    <2> QED
        BY <1>0, <2>1, SameReply
           DEF ResultIsDecided, Progress, FinalWarnings, Fatal, IsLastAttempt
<1>3. ASSUME ~Accept, ~UNCHANGED vars PROVE ResultIsDecided'
    <2>1. pc # "done"
        BY <1>3 DEF Next, Serve, Begin, RejectSchema, TransientFailure, InvokeRaises,
                    VerifyRaises, RaisesOther, ReplyUnparseable, ReplyUncoercible, ReplyCoerced,
                    InvokeReturns, VerifyReturns, Reprompt, Finished
    <2>2. outcome' = outcome \/ \E e \in {"KeyError", "BedrockError", "ExtractionError",
                                          "ValueError", "other"} : outcome' = Error(e)
        BY <1>3 DEF Next, Serve, Begin, RejectSchema, TransientFailure, InvokeRaises,
                    VerifyRaises, RaisesOther, ReplyUnparseable, ReplyUncoercible, ReplyCoerced,
                    InvokeReturns, VerifyReturns, Reprompt, Finished, NextAttempt, Fail
    <2> QED
        BY <1>0, <2>1, <2>2 DEF Progress, NoOutcome, Error, ResultIsDecided, Returned
<1> QED
    BY <1>1, <1>2, <1>3

\* Every step keeps the cause of an extraction error.
LEMMA ErrorInvariance == IInv /\ [Next]_vars => ErrorNamesItsCause'
<1> SUFFICES ASSUME IInv, [Next]_vars PROVE ErrorNamesItsCause'
    OBVIOUS
<1>0. TypeOK /\ Progress /\ ErrorNamesItsCause
    BY DEF IInv
<1>1. CASE UNCHANGED vars
    BY <1>0, <1>1 DEF vars, ErrorNamesItsCause
<1>2. ASSUME NEW r \in Replies, ReplyUnparseable(r) PROVE ErrorNamesItsCause'
    <2>1. reply'.kind = "unparseable" /\ previous'.validation # {}
        BY <1>2 DEF ReplyUnparseable, InvokeReturns, AfterParseFailure, NoFailures
    <2>2. outcome' = NoOutcome \/ attempt' = MaxRetries
        BY <1>0, <1>2, LoopAssumption
           DEF ReplyUnparseable, InvokeReturns, NextAttempt, TypeOK, Progress
    <2> QED
        BY <2>1, <2>2 DEF ErrorNamesItsCause, NoOutcome, Error
<1>3. ASSUME NEW r \in Replies, ReplyUncoercible(r) PROVE ErrorNamesItsCause'
    BY <1>3 DEF ReplyUncoercible, InvokeReturns, Fail, Error, ErrorNamesItsCause
<1>4. CASE Reprompt
    <2>1. outcome' = NoOutcome
        BY <1>0, <1>4, LoopAssumption DEF Reprompt, IsLastAttempt, NextAttempt, TypeOK, Progress
    <2> QED
        BY <2>1 DEF ErrorNamesItsCause, NoOutcome, Error
<1>5. CASE Accept \/ RejectSchema \/ InvokeRaises \/ RaisesOther
    BY <1>5 DEF Accept, RejectSchema, InvokeRaises, RaisesOther, Fail, Error, ErrorNamesItsCause
<1>6. ASSUME \/ Begin \/ TransientFailure \/ VerifyRaises
             \/ \E r \in Replies : ReplyCoerced(r)
             \/ \E v \in Verdicts : VerifyReturns(v)
      PROVE  ErrorNamesItsCause'
    <2>1. outcome' = NoOutcome
        BY <1>0, <1>6 DEF Begin, TransientFailure, VerifyRaises, ReplyCoerced, InvokeReturns,
                          VerifyReturns, Progress
    <2> QED
        BY <2>1 DEF ErrorNamesItsCause, NoOutcome, Error
<1> QED
    BY <1>1, <1>2, <1>3, <1>4, <1>5, <1>6 DEF Next, Serve, Finished

\* Every step keeps the invariant.
LEMMA NextInvariant == IInv /\ [Next]_vars => IInv'
    BY TypeInvariance, ProgressInvariance, RepromptInvariance, ResultInvariance,
       ErrorInvariance DEF IInv

\* IInv is an invariant.
THEOREM Invariance == Spec => []IInv
<1> QED
    BY InitInvariant, NextInvariant, PTL DEF Spec

----------------------------------------------------------------------------
(***************************************************************************)
(* What follows from it.                                                   *)
(***************************************************************************)

\* The types hold throughout.
THEOREM TypeCorrect == Spec => []TypeOK
<1>1. IInv => TypeOK
    BY DEF IInv
<1> QED
    BY <1>1, Invariance, PTL

\* A returned reply has entries, and its doubts are the failures Accept saw.
LEMMA ReturnedFacts ==
    ASSUME IInv, Returned
    PROVE  /\ OpenDoubts = ({"MISSING_REQUIRED"} \X Missing)
                               \cup ({"UNANCHORED"} \X Coerced.anchor)
                               \cup ({"UNGROUNDED"} \X ungrounded)
           /\ {"MISSING_REQUIRED"} \X Missing \subseteq CoercionWarnings(Coerced)
           /\ Coerced.missing = Missing
           /\ outcome.warnings = FinalWarnings
           /\ ~Fatal \/ IsLastAttempt
<1>1. reply.kind = "fields" /\ reply.items \in Payload
    BY DEF IInv, ResultIsDecided, TypeOK, Reply
<1>2. outcome.warnings = FinalWarnings /\ (~Fatal \/ IsLastAttempt)
    BY DEF IInv, ResultIsDecided
<1> QED
    BY <1>1, <1>2, CoercedFacts DEF OpenDoubts

\* What a returned reply is still doubted for is among its warnings.
LEMMA DoubtsFollow == IInv => DoubtsAreFlagged
<1> SUFFICES ASSUME IInv, Returned PROVE OpenDoubts \subseteq outcome.warnings
    BY DEF DoubtsAreFlagged
<1>1. CASE IsLastAttempt
    BY <1>1, ReturnedFacts DEF FinalWarnings
<1>2. CASE ~Fatal
    <2>1. Coerced.anchor = {} /\ ungrounded = {}
        BY <1>2 DEF Fatal
    <2>2. OpenDoubts = {"MISSING_REQUIRED"} \X Missing
        BY <2>1, ReturnedFacts
    <2> QED
        BY <2>2, ReturnedFacts DEF FinalWarnings
<1> QED
    BY <1>1, <1>2, ReturnedFacts

\* A request never gets a result with a doubt the result does not name: not
\* on the early accept, where there is none, and not on the last attempt.
THEOREM NoSilentDoubt == Spec => []DoubtsAreFlagged
<1> QED
    BY DoubtsFollow, Invariance, PTL

\* A result returned before the last attempt has nothing fatal about it.
LEMMA EarlyDoubts == IInv /\ Returned => ~(attempt < MaxRetries) \/ OpenDoubts = {}
<1> SUFFICES ASSUME IInv, Returned, attempt < MaxRetries PROVE OpenDoubts = {}
    OBVIOUS
<1>1. ~IsLastAttempt
    BY LoopAssumption DEF IsLastAttempt, IInv, TypeOK
<1>2. Missing = {} /\ Coerced.anchor = {} /\ ungrounded = {}
    BY <1>1, ReturnedFacts DEF Fatal
<1> QED
    BY <1>2, ReturnedFacts

\* The self-correction is never cut short by an early accept.
THEOREM EarlyResultClean == Spec => []EarlyResultIsClean
<1>1. IInv => EarlyResultIsClean
    BY EarlyDoubts DEF EarlyResultIsClean
<1> QED
    BY <1>1, Invariance, PTL

\* A re-prompt carries exactly the failures of the reply just before it.
THEOREM RepromptFaithful == Spec => []RepromptIsAboutLastReply
<1>1. IInv => RepromptIsAboutLastReply
    BY DEF IInv
<1> QED
    BY <1>1, Invariance, PTL

\* An extraction error has one of its two causes.
THEOREM ErrorsHaveCause == Spec => []ErrorNamesItsCause
<1>1. IInv => ErrorNamesItsCause
    BY DEF IInv
<1> QED
    BY <1>1, Invariance, PTL

\* The verifier's outages and nonsense never end a request: from "verify" every
\* step stays in the attempt, with the reply it has, but for an exception of a
\* class of its own.
THEOREM GroundingFailsOpen == Spec => VerifierFailsOpen
<1>1. IInv /\ [Next]_vars =>
        [pc = "verify" =>
            /\ reply' = reply /\ attempt' = attempt
            /\ pc' \in {"verify", "judge"} \/ outcome' = Error("other")]_vars
    <2> SUFFICES ASSUME [Next]_vars, pc = "verify"
                 PROVE  /\ reply' = reply /\ attempt' = attempt
                        /\ pc' \in {"verify", "judge"} \/ outcome' = Error("other")
        OBVIOUS
    <2> QED
        BY DEF Next, Serve, Begin, RejectSchema, TransientFailure, InvokeRaises, VerifyRaises,
               RaisesOther, Fail, ReplyUnparseable, ReplyUncoercible, ReplyCoerced, InvokeReturns, VerifyReturns,
               Accept, Reprompt, Finished, vars
<1> QED
    BY <1>1, Invariance, PTL DEF Spec, VerifierFailsOpen

----------------------------------------------------------------------------
(***************************************************************************)
(* The call budget.  Its invariant counts the calls phase by phase: the    *)
(* attempts completed have cost at most Spent, and the invocation running  *)
(* at most its tries more.                                                 *)
(***************************************************************************)
PerAttempt == IF mode = "vision" THEN 2 ELSE 1

Spent(n) == Attempts * n * PerAttempt

CallsInv ==
    /\ pc = "idle" => calls = 0
    /\ pc = "invoke" => calls <= Spent(attempt) + tries
    /\ pc = "verify" => calls <= Spent(attempt) + Attempts + tries
    /\ pc = "judge" => calls <= Spent(attempt + 1)
    /\ pc = "done" => calls <= CallBudget(mode)

\* Completed attempts add up, and never to more than the budget.
LEMMA SpentFacts ==
    ASSUME TypeOK
    PROVE  /\ Spent(attempt) \in Nat /\ Spent(attempt + 1) \in Nat /\ CallBudget(mode) \in Nat
           /\ Spent(0) = 0
           /\ Spent(attempt) + Attempts <= Spent(attempt + 1)
           /\ Spent(attempt + 1) <= CallBudget(mode)
           /\ mode = "vision" => Spent(attempt) + Attempts + Attempts <= Spent(attempt + 1)
<1>1. ASSUME NEW a \in Nat, NEW n \in Nat, NEW k \in Nat, NEW p \in {1, 2}, n <= k
      PROVE  /\ a * n * p \in Nat
             /\ a * (n + 1) * p = a * n * p + a * p
             /\ a * (n + 1) * p <= a * (k + 1) * p
    <2>1. a * (k + 1) = a * (n + 1) + a * (k - n) /\ a * (k - n) \in Nat
        BY <1>1
    <2>2. a * n \in Nat /\ a * (n + 1) = a * n + a
        BY <1>1
    <2> QED
        BY <1>1, <2>1, <2>2
<1>2. attempt \in Nat /\ MaxRetries \in Nat /\ Attempts \in Nat /\ attempt <= MaxRetries
    BY LoopAssumption DEF TypeOK
<1>3. PerAttempt \in {1, 2} /\ CallBudget(mode) = Spent(MaxRetries + 1)
    BY DEF PerAttempt, CallBudget, Spent
<1>4. PerAttempt = 1 \/ PerAttempt = 2
    BY <1>3
<1>5. mode = "vision" => PerAttempt = 2
    BY DEF PerAttempt
<1>6. /\ Spent(0) = 0
      /\ Attempts * PerAttempt \in Nat /\ Attempts <= Attempts * PerAttempt
      /\ mode = "vision" => Attempts * PerAttempt = Attempts + Attempts
    BY <1>2, <1>4, <1>5 DEF Spent
<1>7. /\ Spent(attempt) \in Nat /\ Spent(attempt + 1) \in Nat /\ Spent(MaxRetries + 1) \in Nat
      /\ Spent(attempt + 1) = Spent(attempt) + Attempts * PerAttempt
      /\ Spent(attempt + 1) <= Spent(MaxRetries + 1)
    BY <1>1, <1>2, <1>3 DEF Spent
<1>8. /\ Spent(attempt) + Attempts <= Spent(attempt + 1)
      /\ mode = "vision" => Spent(attempt) + Attempts + Attempts <= Spent(attempt + 1)
    BY <1>2, <1>6, <1>7
<1> QED
    BY <1>3, <1>6, <1>7, <1>8

\* A request starts without a call.
LEMMA CallsInvInit == Init => CallsInv
    BY DEF Init, CallsInv

\* Every step keeps the count of its phase.
LEMMA CallsInvariance == IInv /\ CallsInv /\ [Next]_vars => CallsInv'
<1> SUFFICES ASSUME IInv, CallsInv, [Next]_vars PROVE CallsInv'
    OBVIOUS
<1>0. TypeOK /\ TypeOK' /\ Progress
    BY TypeInvariance DEF IInv
<1>t. /\ attempt \in Nat /\ tries \in Nat /\ tries + 1 <= Attempts /\ Attempts \in Nat
      /\ calls \in Nat /\ calls' \in Nat /\ tries' \in Nat
    BY <1>0, LoopAssumption DEF TypeOK
<1>s. /\ Spent(attempt) \in Nat /\ Spent(attempt + 1) \in Nat /\ CallBudget(mode) \in Nat
      /\ Spent(0) = 0
      /\ Spent(attempt) + Attempts <= Spent(attempt + 1)
      /\ Spent(attempt + 1) <= CallBudget(mode)
      /\ mode = "vision" => Spent(attempt) + Attempts + Attempts <= Spent(attempt + 1)
    BY <1>0, SpentFacts
<1>c. CountCall => calls' <= calls + 1
    BY <1>t DEF CountCall
<1>m. mode' = mode =>
        /\ CallBudget(mode)' = CallBudget(mode)
        /\ attempt' = attempt => /\ Spent(attempt)' = Spent(attempt)
                                 /\ Spent(attempt + 1)' = Spent(attempt + 1)
        /\ attempt' = attempt + 1 => Spent(attempt)' = Spent(attempt + 1)
    BY DEF Spent, PerAttempt, CallBudget
<1> USE DEF CallsInv
<1>1. CASE Begin
    <2>1. calls' = 0 /\ tries' = 0 /\ pc' = "invoke" /\ Spent(attempt)' = Spent(attempt)
        BY <1>0, <1>1, <1>m DEF Begin, Progress
    <2> QED
        BY <2>1, <1>s
<1>2. CASE RejectSchema
    BY <1>2, <1>s, <1>m DEF RejectSchema, Fail
<1>3. CASE TransientFailure
    BY <1>3, <1>s, <1>t, <1>c, <1>m DEF TransientFailure
<1>4. CASE InvokeRaises
    BY <1>0, <1>4, <1>s, <1>t, <1>c, <1>m DEF InvokeRaises, Fail, TypeOK
<1>5. CASE VerifyRaises
    BY <1>0, <1>5, <1>s, <1>t, <1>c, <1>m DEF VerifyRaises, Progress, TypeOK
<1>13. CASE RaisesOther
    <2>1. calls' <= calls + 1 /\ pc' = "done" /\ mode' = mode /\ attempt' = attempt
        BY <1>13, <1>c, <1>t DEF RaisesOther, Fail
    <2>2. CASE pc = "invoke"
        BY <2>1, <2>2, <1>s, <1>t, <1>m
    <2>3. CASE pc = "verify"
        BY <1>0, <2>1, <2>3, <1>s, <1>t, <1>m DEF Progress
    <2> QED
        BY <1>13, <2>2, <2>3 DEF RaisesOther
<1>i. ASSUME NEW r \in Replies, InvokeReturns(r)
      PROVE  /\ mode' = mode /\ tries' = 0
             /\ calls' <= Spent(attempt) + Attempts
             /\ calls' <= Spent(attempt + 1) /\ calls' <= CallBudget(mode)
    <2>1. pc = "invoke" /\ tries' = 0 /\ mode' = mode /\ calls' <= calls + 1
        BY <1>i, <1>c DEF InvokeReturns
    <2>2. calls' \in Nat /\ Spent(attempt + 1) \in Nat
        BY <1>0, <1>s, <1>t DEF TypeOK
    <2> QED
        BY <2>1, <2>2, <1>s, <1>t
<1>6. ASSUME NEW r \in Replies, ReplyUnparseable(r) PROVE CallsInv'
    BY <1>0, <1>6, <1>i, <1>s, <1>t, <1>m DEF ReplyUnparseable, NextAttempt, Fail, TypeOK
<1>7. ASSUME NEW r \in Replies, ReplyUncoercible(r) PROVE CallsInv'
    BY <1>0, <1>7, <1>i, <1>s, <1>t, <1>m DEF ReplyUncoercible, Fail, TypeOK
<1>8. ASSUME NEW r \in Replies, ReplyCoerced(r) PROVE CallsInv'
    BY <1>0, <1>8, <1>i, <1>s, <1>t, <1>m DEF ReplyCoerced, TypeOK
<1>9. ASSUME NEW v \in Verdicts, VerifyReturns(v) PROVE CallsInv'
    BY <1>0, <1>9, <1>s, <1>t, <1>c, <1>m DEF VerifyReturns, Progress, TypeOK
<1>10. CASE Accept
    BY <1>10, <1>s, <1>t, <1>m DEF Accept
<1>11. CASE Reprompt
    BY <1>11, <1>s, <1>t, <1>m DEF Reprompt, NextAttempt, Fail
<1>12. CASE UNCHANGED vars
    BY <1>12, <1>m DEF vars
<1> QED
    BY <1>1, <1>2, <1>3, <1>4, <1>5, <1>6, <1>7, <1>8, <1>9, <1>10, <1>11, <1>12, <1>13
       DEF Next, Serve, Finished

\* The calls of the attempts made are within the budget of all attempts.
LEMMA BudgetFollows == IInv /\ CallsInv => CallsWithinBudget
<1> SUFFICES ASSUME TypeOK, Progress, CallsInv PROVE calls <= CallBudget(mode)
    BY DEF IInv, CallsWithinBudget
<1>1. /\ attempt \in Nat /\ tries \in Nat /\ tries + 1 <= Attempts /\ Attempts \in Nat
      /\ calls \in Nat
    BY LoopAssumption DEF TypeOK
<1>2. /\ Spent(attempt) \in Nat /\ Spent(attempt + 1) \in Nat /\ CallBudget(mode) \in Nat
      /\ Spent(attempt) + Attempts <= Spent(attempt + 1)
      /\ Spent(attempt + 1) <= CallBudget(mode)
      /\ mode = "vision" => Spent(attempt) + Attempts + Attempts <= Spent(attempt + 1)
    BY SpentFacts
<1>3. pc = "idle" => calls <= CallBudget(mode)
    BY <1>1, <1>2 DEF CallsInv
<1>4. pc = "invoke" => calls <= CallBudget(mode)
    BY <1>1, <1>2 DEF CallsInv
<1>5. pc = "verify" => calls <= CallBudget(mode)
    BY <1>1, <1>2 DEF CallsInv, Progress
<1>6. pc \in {"judge", "done"} => calls <= CallBudget(mode)
    BY <1>1, <1>2 DEF CallsInv
<1> QED
    BY <1>3, <1>4, <1>5, <1>6 DEF TypeOK

\* No request makes more Bedrock calls than the three bounds multiply to.
THEOREM CallBudgetKept == Spec => []CallsWithinBudget
<1> QED
    BY CallsInvInit, CallsInvariance, BudgetFollows, Invariance, PTL DEF Spec

----------------------------------------------------------------------------
(***************************************************************************)
(* The loop implements ExtractionContract.                                 *)
(***************************************************************************)

\* A returned result flags its doubts and no others.
LEMMA FlagsAreDoubts == IInv /\ Returned => outcome.warnings \cap Doubts = OpenDoubts
<1> SUFFICES ASSUME IInv, Returned PROVE outcome.warnings \cap Doubts = OpenDoubts
    OBVIOUS
<1>1. Missing \subseteq Fields /\ Coerced.anchor \subseteq Fields /\ ungrounded \subseteq Fields
    BY DEF Missing, Coerced, CoerceFields, Given, IInv, TypeOK
<1>2. CoercionWarnings(Coerced) \cap Doubts = {"MISSING_REQUIRED"} \X Missing
    BY <1>1, ReturnedFacts DEF CoercionWarnings, Doubts
<1>3. OpenDoubts \subseteq Doubts
    BY <1>1, ReturnedFacts DEF Doubts
<1>4. CASE IsLastAttempt
    <2>1. outcome.warnings =
            CoercionWarnings(Coerced)
                \cup (({"UNGROUNDED"} \X ungrounded) \cup ({"UNANCHORED"} \X Coerced.anchor))
        BY <1>4, ReturnedFacts DEF FinalWarnings
    <2>2. OpenDoubts = ({"MISSING_REQUIRED"} \X Missing)
                \cup ({"UNANCHORED"} \X Coerced.anchor) \cup ({"UNGROUNDED"} \X ungrounded)
        BY ReturnedFacts
    <2> HIDE DEF OpenDoubts
    <2> QED
        BY <1>2, <1>3, <2>1, <2>2
<1>5. CASE ~IsLastAttempt
    <2>1. outcome.warnings = CoercionWarnings(Coerced)
        BY <1>5, ReturnedFacts DEF FinalWarnings
    <2>2. Coerced.anchor = {} /\ ungrounded = {}
        BY <1>5, ReturnedFacts DEF Fatal
    <2>3. OpenDoubts = {"MISSING_REQUIRED"} \X Missing
        BY <2>2, ReturnedFacts
    <2> QED
        BY <1>2, <2>1, <2>3
<1> QED
    BY <1>4, <1>5

\* Every step of the loop is a step of the contract, or changes nothing that the
\* contract speaks of.
LEMMA NextImplements == IInv /\ IInv' /\ [Next]_vars => [Contract!Next]_Contract!cvars
<1> SUFFICES ASSUME IInv, IInv', [Next]_vars PROVE [Contract!Next]_Contract!cvars
    OBVIOUS
<1>0. TypeOK /\ Progress /\ MaxRetries \in Nat
    BY LoopAssumption DEF IInv
<1>q. pc # "done" => ~Returned
    BY <1>0 DEF Progress, Returned, NoOutcome
<1>r. pc' # "done" => ~Returned'
    BY DEF IInv, Progress, Returned, NoOutcome
<1>e. \A e : Fail(e) => pc' = "done" /\ ~Returned'
    BY DEF Fail, Error, Returned
<1> USE DEF Contract!Next, Contract!cvars
<1>1. CASE Begin
    BY <1>1, <1>q, <1>r DEF Begin, Contract!Open
<1>2. CASE RejectSchema
    BY <1>2, <1>q, <1>e DEF RejectSchema, Contract!Refuse
<1>3. CASE TransientFailure
    BY <1>3, <1>q, <1>r DEF TransientFailure
<1>4. CASE InvokeRaises
    BY <1>4, <1>q, <1>e DEF InvokeRaises, Contract!GiveUp
<1>5. CASE VerifyRaises
    BY <1>5, <1>q, <1>r DEF VerifyRaises
<1>13. CASE RaisesOther
    BY <1>13, <1>q, <1>e DEF RaisesOther, Contract!GiveUp
<1>n. ASSUME pc \notin {"idle", "done"}, NextAttempt
      PROVE  Contract!Reject \/ Contract!GiveUp
    <2>1. CASE attempt < MaxRetries
        BY <1>0, <1>n, <1>q, <1>r, <2>1 DEF NextAttempt, TypeOK, Contract!Reject
    <2>2. CASE ~(attempt < MaxRetries)
        BY <1>n, <1>q, <1>e, <2>2 DEF NextAttempt, Contract!GiveUp
    <2> QED
        BY <2>1, <2>2
<1>6. ASSUME NEW r \in Replies, ReplyUnparseable(r) PROVE Contract!Next
    BY <1>6, <1>n DEF ReplyUnparseable, InvokeReturns
<1>7. ASSUME NEW r \in Replies, ReplyUncoercible(r) PROVE Contract!Next
    BY <1>7, <1>q, <1>e DEF ReplyUncoercible, InvokeReturns, Contract!GiveUp
<1>8. ASSUME NEW r \in Replies, ReplyCoerced(r) PROVE UNCHANGED Contract!cvars
    BY <1>8, <1>q, <1>r DEF ReplyCoerced, InvokeReturns
<1>9. ASSUME NEW v \in Verdicts, VerifyReturns(v) PROVE UNCHANGED Contract!cvars
    BY <1>9, <1>q, <1>r DEF VerifyReturns
<1>10. CASE Accept
    <2>1. pc = "judge" /\ pc' = "done" /\ attempt' = attempt /\ Returned'
        BY <1>10 DEF Accept, Returned
    <2>2. (outcome.warnings \cap Doubts = OpenDoubts)'
        <3>1. (IInv /\ Returned => outcome.warnings \cap Doubts = OpenDoubts)'
            BY FlagsAreDoubts, PTL
        <3> QED
            BY <2>1, <3>1
    <2>3. (OpenDoubts # {} => MaxRetries + 1 - attempt = 1)'
        <3>1. (IInv /\ Returned => ~(attempt < MaxRetries) \/ OpenDoubts = {})'
            BY EarlyDoubts, PTL
        <3>2. attempt' = MaxRetries \/ attempt' < MaxRetries
            BY <1>0, <2>1 DEF TypeOK
        <3> QED
            BY <1>0, <2>1, <3>1, <3>2
    <2>4. OpenDoubts' \subseteq Doubts
        BY <2>2 DEF Doubts
    <2> QED
        BY <1>q, <2>1, <2>2, <2>3, <2>4 DEF Contract!Answer
<1>11. CASE Reprompt
    BY <1>11, <1>n DEF Reprompt
<1>12. CASE UNCHANGED vars
    <2>1. OpenDoubts' = OpenDoubts /\ Returned' = Returned
        BY <1>12, SameReply DEF vars, Returned
    <2> QED
        BY <1>12, <2>1 DEF vars
<1> QED
    BY <1>1, <1>2, <1>3, <1>4, <1>5, <1>6, <1>7, <1>8, <1>9, <1>10, <1>11, <1>12, <1>13
       DEF Next, Serve, Finished

\* Every behaviour of the loop is one of the contract: a doubt reaches the
\* caller on the last attempt only, and never without its flag.
THEOREM LoopImplementsContract == Spec => ImplementsContract
<1>1. Init => Contract!Init
    BY DEF Init, Contract!Init, Returned, NoOutcome
<1> QED
    BY <1>1, NextImplements, Invariance, PTL DEF Spec, ImplementsContract, Contract!Spec

----------------------------------------------------------------------------
(***************************************************************************)
(* The work runs out.  Fairness is out of the provers' reach, but not what *)
(* it acts on: every step of a request, whatever the model, the verifier   *)
(* and Bedrock do, uses up some of a finite amount of work.                *)
(***************************************************************************)

\* The steps the running attempt may still take.
AttemptWork ==
    IF pc = "idle" THEN 2 * Attempts + 2
    ELSE IF pc = "invoke" THEN 2 * Attempts + 1 - tries
    ELSE IF pc = "verify" THEN Attempts + 1 - tries
    ELSE IF pc = "judge" THEN 1
    ELSE 0

\* With those of the attempts that are left.
Work == (MaxRetries - attempt) * (2 * Attempts + 1) + AttemptWork

MostWork == (MaxRetries + 1) * (2 * Attempts + 1) + 1

\* What is left of an attempt is bounded by what an attempt can take.
LEMMA AttemptWorkType ==
    IInv => /\ AttemptWork \in 0 .. 2 * Attempts + 2
            /\ pc = "invoke" => AttemptWork <= 2 * Attempts + 1
            /\ pc # "done" => AttemptWork >= 1
<1> SUFFICES ASSUME IInv PROVE /\ AttemptWork \in 0 .. 2 * Attempts + 2
                               /\ pc = "invoke" => AttemptWork <= 2 * Attempts + 1
                               /\ pc # "done" => AttemptWork >= 1
    OBVIOUS
<1>1. /\ Attempts \in Nat /\ Attempts >= 1 /\ tries \in Nat /\ tries < Attempts
      /\ pc \in {"idle", "invoke", "verify", "judge", "done"}
    BY LoopAssumption DEF IInv, TypeOK
<1> QED
    BY <1>1 DEF AttemptWork

\* The work is finite: no more than MostWork steps.
LEMMA WorkIsFinite == IInv => Work \in 0 .. MostWork
<1> SUFFICES ASSUME IInv PROVE Work \in 0 .. MostWork
    OBVIOUS
<1> DEFINE k == 2 * Attempts + 1
<1>1. /\ Attempts \in Nat /\ Attempts >= 1 /\ tries \in Nat /\ tries < Attempts
      /\ MaxRetries \in Nat /\ attempt \in Nat /\ attempt <= MaxRetries
    BY LoopAssumption DEF IInv, TypeOK
<1>2. AttemptWork \in 0 .. k + 1
    BY <1>1, AttemptWorkType
<1>3. k \in Nat
    BY <1>1
<1> HIDE DEF k
<1>4. (MaxRetries - attempt) * k \in Nat /\ (MaxRetries - attempt) * k <= MaxRetries * k
    <2>1. ASSUME NEW a \in Nat, NEW b \in Nat PROVE a * k \in Nat /\ a * k <= (a + b) * k
        BY <1>3
    <2>2. MaxRetries - attempt \in Nat /\ (MaxRetries - attempt) + attempt = MaxRetries
        BY <1>1
    <2> QED
        BY <1>1, <2>1, <2>2
<1>5. (MaxRetries + 1) * k = MaxRetries * k + k /\ MaxRetries * k \in Nat
    BY <1>1, <1>3
<1>6. Work = (MaxRetries - attempt) * k + AttemptWork /\ MostWork = (MaxRetries + 1) * k + 1
    BY DEF Work, MostWork, k
<1> QED
    BY <1>2, <1>3, <1>4, <1>5, <1>6

\* Every step uses up some of it.
LEMMA StepUsesWork == IInv /\ [Next]_vars => [Work' < Work]_vars
<1> SUFFICES ASSUME IInv, [Next]_vars, vars' # vars PROVE Work' < Work
    OBVIOUS
<1> DEFINE k == 2 * Attempts + 1
<1>0. IInv'
    BY NextInvariant
<1>1. /\ Attempts \in Nat /\ Attempts >= 1 /\ tries \in Nat /\ tries < Attempts
      /\ MaxRetries \in Nat /\ attempt \in Nat /\ attempt <= MaxRetries
      /\ tries' \in Nat /\ tries' < Attempts
    BY <1>0, LoopAssumption DEF IInv, TypeOK
<1>t. /\ AttemptWork \in Nat /\ AttemptWork' \in Nat
      /\ pc # "done" => AttemptWork >= 1
      /\ pc' = "invoke" => AttemptWork' <= k
    <2>1. (IInv => /\ AttemptWork \in 0 .. 2 * Attempts + 2
                   /\ pc = "invoke" => AttemptWork <= 2 * Attempts + 1
                   /\ pc # "done" => AttemptWork >= 1)'
        BY AttemptWorkType, PTL
    <2> QED
        BY <1>0, <1>1, <2>1, AttemptWorkType
<1>2. ASSUME attempt' = attempt, AttemptWork' < AttemptWork PROVE Work' < Work
    <2>1. (MaxRetries - attempt) * k \in Nat
        BY <1>1
    <2> HIDE DEF k
    <2>3. /\ Work = (MaxRetries - attempt) * k + AttemptWork
          /\ Work' = (MaxRetries - attempt) * k + AttemptWork'
        BY <1>2 DEF Work, k
    <2> HIDE DEF AttemptWork
    <2> QED
        BY <1>2, <1>t, <2>1, <2>3
<1>3. ASSUME attempt < MaxRetries, attempt' = attempt + 1, pc' = "invoke", AttemptWork >= 1
      PROVE  Work' < Work
    <2>1. AttemptWork' <= k /\ k \in Nat
        BY <1>1, <1>3, <1>t
    <2> HIDE DEF k
    <2>2. PICK m \in Nat : MaxRetries - attempt = m + 1 /\ MaxRetries - attempt' = m
        <3>1. MaxRetries - attempt' \in Nat
            BY <1>1, <1>3
        <3> QED
            BY <1>1, <1>3, <3>1
    <2>3. (m + 1) * k = m * k + k /\ m * k \in Nat
        BY <2>1
    <2>4. Work = (m + 1) * k + AttemptWork /\ Work' = m * k + AttemptWork'
        BY <2>2 DEF Work, k
    <2>5. PICK x \in Nat : x = m * k /\ (m + 1) * k = x + k
        BY <2>3
    <2>6. Work = x + k + AttemptWork /\ Work' = x + AttemptWork'
        BY <2>4, <2>5
    <2> HIDE DEF AttemptWork, Work
    <2>7. AttemptWork >= 1 /\ AttemptWork \in Nat /\ AttemptWork' \in Nat
        BY <1>3, <1>t
    <2>8. x + AttemptWork' < x + k + AttemptWork
        <3>1. \A y, v, l, w \in Nat : v <= l /\ w >= 1 => y + v < y + l + w
            OBVIOUS
        <3> QED
            BY <2>1, <2>7, <3>1, Zenon
    <2> QED
        BY <2>6, <2>8, Zenon
<1>e. ASSUME pc # "done", pc' = "done", attempt' = attempt PROVE Work' < Work
    <2>1. AttemptWork' = 0
        BY <1>e DEF AttemptWork
    <2> QED
        BY <1>2, <1>t, <1>e, <2>1
<1>n. ASSUME pc # "done", NextAttempt PROVE Work' < Work
    BY <1>3, <1>t, <1>e, <1>n DEF NextAttempt, Fail
<1>4. CASE Begin
    <2>1. AttemptWork' < AttemptWork
        BY <1>1, <1>4 DEF Begin, AttemptWork
    <2> QED
        BY <1>2, <1>4, <2>1 DEF Begin
<1>5. CASE RejectSchema
    BY <1>e, <1>5 DEF RejectSchema, Fail
<1>6. CASE TransientFailure
    <2>1. AttemptWork' < AttemptWork
        BY <1>1, <1>6 DEF TransientFailure, AttemptWork
    <2> QED
        BY <1>2, <1>6, <2>1 DEF TransientFailure
<1>7. CASE InvokeRaises
    BY <1>e, <1>7 DEF InvokeRaises, Fail
<1>8. CASE VerifyRaises
    <2>1. AttemptWork' < AttemptWork
        BY <1>1, <1>8 DEF VerifyRaises, AttemptWork
    <2> QED
        BY <1>2, <1>8, <2>1 DEF VerifyRaises
<1>15. CASE RaisesOther
    BY <1>e, <1>15 DEF RaisesOther, Fail
<1>9. ASSUME NEW r \in Replies, ReplyUnparseable(r) PROVE Work' < Work
    BY <1>n, <1>9 DEF ReplyUnparseable, InvokeReturns
<1>10. ASSUME NEW r \in Replies, ReplyUncoercible(r) PROVE Work' < Work
    BY <1>e, <1>10 DEF ReplyUncoercible, InvokeReturns, Fail
<1>11. ASSUME NEW r \in Replies, ReplyCoerced(r) PROVE Work' < Work
    <2>1. pc = "invoke" /\ pc' \in {"verify", "judge"} /\ attempt' = attempt /\ tries' = 0
        BY <1>11 DEF ReplyCoerced, InvokeReturns
    <2>2. AttemptWork' < AttemptWork
        BY <1>1, <2>1 DEF AttemptWork
    <2> QED
        BY <1>2, <2>1, <2>2
<1>12. ASSUME NEW v \in Verdicts, VerifyReturns(v) PROVE Work' < Work
    <2>1. AttemptWork' < AttemptWork
        BY <1>1, <1>12 DEF VerifyReturns, AttemptWork
    <2> QED
        BY <1>2, <1>12, <2>1 DEF VerifyReturns
<1>13. CASE Accept
    BY <1>e, <1>13 DEF Accept
<1>14. CASE Reprompt
    BY <1>n, <1>14 DEF Reprompt
<1> QED
    BY <1>4, <1>5, <1>6, <1>7, <1>8, <1>9, <1>10, <1>11, <1>12, <1>13, <1>14, <1>15
       DEF Next, Serve, Finished

\* A request, whatever happens to it, is over after at most MostWork steps.
THEOREM WorkRunsOut == Spec => [](Work \in 0 .. MostWork) /\ [][Work' < Work]_vars
<1>1. IInv /\ [Next]_vars => [Work' < Work]_vars
    BY StepUsesWork
<1> QED
    BY <1>1, WorkIsFinite, Invariance, PTL DEF Spec
=============================================================================
