---------------------- MODULE DocumentRequestRefinement ----------------------
(***************************************************************************)
(* A document request implements ExtractionContract.  The upload leaves    *)
(* the extraction loop where it starts; from there the request takes the   *)
(* loop's own steps, so the loop's invariant and its refinement, proved in *)
(* ExtractionLoopProofs, carry over.  L (of DocumentRequest) and LP are    *)
(* two instances of the same definitions: the first lemmas say so.         *)
(***************************************************************************)
EXTENDS DocumentRequestProofs

LP == INSTANCE ExtractionLoopProofs WITH mode <- Mode, pc <- phase

\* The assumptions of the loop hold for each path of a request.
LEMMA SameAssumptions == LP!SchemaAssumption /\ LP!LoopAssumption
<1>1. LP!SchemaAssumption
    BY RequestAssumption
    DEF L!SchemaAssumption, LP!SchemaAssumption, L!FieldSpec, LP!FieldSpec,
        L!FieldTypes, LP!FieldTypes, L!Fields, LP!Fields, L!IsFiniteSet, LP!IsFiniteSet
<1>2. LP!LoopAssumption
    BY RequestAssumption
    DEF L!LoopAssumption, LP!LoopAssumption, L!Reply, LP!Reply, L!Payload, LP!Payload,
        L!Item, LP!Item, L!NoEntry, LP!NoEntry, L!Values, LP!Values, L!Verdict, LP!Verdict
<1> QED
    BY <1>1, <1>2

\* The loop of the proofs coerces a reply as the loop of the request does.
LEMMA SameCoercion ==
    ASSUME NEW items, NEW hasText
    PROVE  L!CoerceFields(items, hasText) = LP!CoerceFields(items, hasText)
    BY DEF L!CoerceFields, LP!CoerceFields, L!Fields, LP!Fields, L!Given, LP!Given,
       L!NoEntry, LP!NoEntry, L!Empty, LP!Empty, L!PatternOk, LP!PatternOk,
       L!Strings, LP!Strings, L!ValidatorPassed, LP!ValidatorPassed,
       L!ValidateValue, LP!ValidateValue, L!Misquoted, LP!Misquoted,
       L!Misanchored, LP!Misanchored, L!ExtractedField, LP!ExtractedField,
       L!VerifyExcerpt, LP!VerifyExcerpt, L!ValueAnchored, LP!ValueAnchored,
       L!CitationVerified, LP!CitationVerified, L!ModelSelf, LP!ModelSelf,
       L!ComputeFieldConfidence, LP!ComputeFieldConfidence,
       L!RawConfidence, LP!RawConfidence, L!Weight, LP!Weight, L!One, LP!One,
       L!StoredValue, LP!StoredValue, L!Min, LP!Min, L!Max, LP!Max

\* The two instances start alike.
LEMMA SameInit == L!Init => LP!Init
    BY DEF L!Init, LP!Init, L!NoFailures, LP!NoFailures, L!NoOutcome, LP!NoOutcome

\* The two instances judge an outcome alike.
LEMMA SameOutcome ==
    /\ L!Returned <=> LP!Returned
    /\ L!Doubts = LP!Doubts
    /\ L!OpenDoubts = LP!OpenDoubts
    BY DEF L!Returned, LP!Returned, L!Doubts, LP!Doubts, L!OpenDoubts, LP!OpenDoubts,
       L!Missing, LP!Missing, L!Fabricated, LP!Fabricated, L!Entered, LP!Entered,
       L!NoEntry, LP!NoEntry, L!Fields, LP!Fields

\* The steps that Extract takes are steps of the loop.
LEMMA SameSteps == L!Begin \/ L!RejectSchema \/ L!Serve => LP!Next
<1> USE DEF L!Fail, LP!Fail, L!Error, LP!Error, L!CountCall, LP!CountCall,
        L!CallBudget, LP!CallBudget, L!Fields, LP!Fields, L!NextAttempt, LP!NextAttempt,
        L!InvokeReturns, LP!InvokeReturns, L!NoFailures, LP!NoFailures
<1>1. L!Begin => LP!Begin
    BY DEF L!Begin, LP!Begin
<1>2. L!RejectSchema => LP!RejectSchema
    BY DEF L!RejectSchema, LP!RejectSchema
<1>3. L!TransientFailure => LP!TransientFailure
    BY DEF L!TransientFailure, LP!TransientFailure
<1>4. L!InvokeRaises => LP!InvokeRaises
    BY DEF L!InvokeRaises, LP!InvokeRaises
<1>5. L!VerifyRaises => LP!VerifyRaises
    BY DEF L!VerifyRaises, LP!VerifyRaises
<1>16. L!RaisesOther => LP!RaisesOther
    BY DEF L!RaisesOther, LP!RaisesOther
<1>6. \A r : L!ReplyUnparseable(r) => LP!ReplyUnparseable(r)
    BY DEF L!ReplyUnparseable, LP!ReplyUnparseable, L!AfterParseFailure, LP!AfterParseFailure
<1>7. \A items : L!CoercionRaises(items) <=> LP!CoercionRaises(items)
    BY DEF L!CoercionRaises, LP!CoercionRaises, L!Given, LP!Given, L!NoEntry, LP!NoEntry
<1>8. \A r : L!ReplyUncoercible(r) => LP!ReplyUncoercible(r)
    BY <1>7 DEF L!ReplyUncoercible, LP!ReplyUncoercible
<1>9. \A items, m : L!Candidates(items, m) = LP!Candidates(items, m)
    BY SameCoercion DEF L!Candidates, LP!Candidates, L!Empty, LP!Empty
<1>10. \A r : L!ReplyCoerced(r) => LP!ReplyCoerced(r)
    BY <1>7, <1>9 DEF L!ReplyCoerced, LP!ReplyCoerced
<1>11. \A v : L!VerifyReturns(v) => LP!VerifyReturns(v)
    BY DEF L!VerifyReturns, LP!VerifyReturns
<1>12. L!Coerced = LP!Coerced /\ L!IsLastAttempt = LP!IsLastAttempt /\ L!Fatal = LP!Fatal
    BY SameCoercion
    DEF L!Coerced, LP!Coerced, L!IsLastAttempt, LP!IsLastAttempt, L!Fatal, LP!Fatal
<1>13. L!FinalWarnings = LP!FinalWarnings
    BY <1>12 DEF L!FinalWarnings, LP!FinalWarnings, L!CoercionWarnings, LP!CoercionWarnings
<1>14. L!Accept => LP!Accept
    BY <1>12, <1>13 DEF L!Accept, LP!Accept
<1>15. L!Reprompt => LP!Reprompt
    BY <1>12 DEF L!Reprompt, LP!Reprompt, L!AfterRejection, LP!AfterRejection
<1> QED
    BY <1>1, <1>2, <1>3, <1>4, <1>5, <1>6, <1>8, <1>10, <1>11, <1>14, <1>15, <1>16
    DEF L!Serve, LP!Serve, LP!Next

----------------------------------------------------------------------------
\* The invariant of the request: the upload's, the loop's, and that the loop
\* waits where it starts until there is a text or an image to extract from.
RequestInv == IInv /\ LP!IInv /\ (~Routed => LP!Init)

\* Reading happens before there is a result, and leaves the loop at its start.
LEMMA ReadingComesFirst ==
    ASSUME RequestInv, ReadUpload
    PROVE  result = NoResult /\ LP!Init /\ LP!Init' /\ LP!IInv'
<1>1. pc # "done"
    BY DEF ReadUpload, Process, Refuse, OpensRaises, ProcessImage, ProcessPdf, PagesRaise,
       ReadPage, FinishText, OpenDocument, OpenRaises, LoadRaises, Render, RenderRaises,
       Convert, ConvertRaises, FinishImages
<1>2. result = NoResult
    BY <1>1 DEF RequestInv, IInv, Unreturned
<1>3. LP!Init
    BY <1>2 DEF RequestInv, Routed, NoResult
<1>4. LP!Init'
    BY <1>3 DEF LP!Init, LP!NoFailures, LP!NoOutcome, ReadUpload, loopVars, Mode
<1>5. (LP!Init => LP!IInv)'
    BY SameAssumptions, LP!InitInvariant, PTL
<1> QED
    BY <1>2, <1>3, <1>4, <1>5

\* Extracting is a step of the loop.
LEMMA ExtractingIsLoopStep ==
    ASSUME RequestInv, Extract \/ UNCHANGED <<vars, loopVars>>
    PROVE  [LP!Next]_LP!vars /\ LP!IInv'
<1>1. [LP!Next]_LP!vars
    BY SameSteps DEF Extract, LP!vars, vars, loopVars, Mode
<1> QED
    BY <1>1, SameAssumptions, LP!NextInvariant DEF RequestInv

\* The invariant of a request holds when it arrives.
LEMMA RequestInvInit == RequestInit => RequestInv
<1>1. RequestInit => IInv
    BY InitInvariant DEF RequestInit
<1>2. RequestInit => LP!Init
    BY SameInit DEF RequestInit
<1>3. LP!Init => LP!IInv
    BY SameAssumptions, LP!InitInvariant
<1> QED
    BY <1>1, <1>2, <1>3 DEF RequestInv

\* Every step of reading and every step of the loop keeps it.
LEMMA RequestInvNext == RequestInv /\ [RequestNext]_<<vars, loopVars>> => RequestInv'
<1> SUFFICES ASSUME RequestInv, [RequestNext]_<<vars, loopVars>> PROVE RequestInv'
    OBVIOUS
<1>1. IInv'
    <2>1. [Next]_vars
        BY DEF RequestNext, ReadUpload, Extract, RequestEnded, Next, vars
    <2> QED
        BY <2>1, NextInvariant DEF RequestInv
<1>2. CASE ReadUpload
    BY <1>1, <1>2, ReadingComesFirst DEF RequestInv
<1>3. CASE Extract
    BY <1>1, <1>3, ExtractingIsLoopStep DEF RequestInv, Extract, Routed, vars
<1>4. CASE UNCHANGED <<vars, loopVars>>
    <2>1. Routed' <=> Routed
        BY <1>4 DEF Routed, vars
    <2>2. LP!Init => LP!Init'
        BY <1>4 DEF LP!Init, LP!NoFailures, LP!NoOutcome, loopVars, vars, Mode
    <2> QED
        BY <1>1, <1>4, <2>1, <2>2, ExtractingIsLoopStep DEF RequestInv
<1> QED
    BY <1>2, <1>3, <1>4 DEF RequestNext, RequestEnded

\* Every step of a document request is a step of the contract, or changes
\* nothing that the contract speaks of.
LEMMA RequestStepImplements ==
    RequestInv /\ RequestInv' /\ [RequestNext]_<<vars, loopVars>> =>
        [Request!Next]_Request!cvars
<1> SUFFICES ASSUME RequestInv, RequestInv', [RequestNext]_<<vars, loopVars>>
             PROVE  [Request!Next]_Request!cvars
    OBVIOUS
<1>s. (/\ L!Returned <=> LP!Returned
       /\ L!Doubts = LP!Doubts
       /\ L!OpenDoubts = LP!OpenDoubts)'
    BY SameOutcome, PTL
<1>1. CASE ReadUpload
    <2>1. result = NoResult /\ phase = "idle" /\ outcome = LP!NoOutcome
        BY <1>1, ReadingComesFirst DEF LP!Init
    <2>2. UNCHANGED <<phase, attempt, outcome>>
        BY <1>1 DEF ReadUpload, loopVars
    <2>3. ~L!Returned /\ ~L!Returned'
        BY <2>1, <2>2 DEF L!Returned, LP!NoOutcome
    <2> QED
        BY <2>1, <2>2, <2>3 DEF Request!Next, Request!Refuse, Request!cvars, NoResult
<1>2. CASE Extract \/ UNCHANGED <<vars, loopVars>>
    <2>1. [LP!Contract!Next]_LP!Contract!cvars
        BY <1>2, ExtractingIsLoopStep, SameAssumptions, LP!NextImplements DEF RequestInv
    <2>2. result' = result
        BY <1>2 DEF Extract, vars
    <2>3. CASE result.mode = "error"
        <3>1. UNCHANGED <<vars, loopVars>>
            BY <1>2, <2>3 DEF Extract, Routed
        <3>2. ~L!Returned /\ ~L!Returned'
            BY <2>3, <3>1 DEF RequestInv, Routed, LP!Init, LP!NoOutcome, L!Returned, loopVars
        <3> QED
            BY <2>2, <2>3, <3>1, <3>2 DEF Request!cvars, loopVars
    <2>4. CASE result.mode # "error"
        <3>1. CASE UNCHANGED LP!Contract!cvars
            BY <1>s, SameOutcome, <2>2, <2>4, <3>1 DEF Request!cvars, LP!Contract!cvars
        <3>2. CASE LP!Contract!Open
            BY <1>s, SameOutcome, <2>2, <2>4, <3>2
            DEF Request!Next, Request!Open, LP!Contract!Open
        <3>3. CASE LP!Contract!Refuse
            BY <1>s, SameOutcome, <2>2, <2>4, <3>3
            DEF Request!Next, Request!Refuse, LP!Contract!Refuse
        <3>4. CASE LP!Contract!Reject
            BY <1>s, SameOutcome, <2>2, <2>4, <3>4
            DEF Request!Next, Request!Reject, LP!Contract!Reject
        <3>5. CASE LP!Contract!Answer
            BY <1>s, SameOutcome, <2>2, <2>4, <3>5
            DEF Request!Next, Request!Answer, LP!Contract!Answer
        <3>6. CASE LP!Contract!GiveUp
            BY <1>s, SameOutcome, <2>2, <2>4, <3>6
            DEF Request!Next, Request!GiveUp, LP!Contract!GiveUp
        <3> QED
            BY <2>1, <3>1, <3>2, <3>3, <3>4, <3>5, <3>6 DEF LP!Contract!Next
    <2> QED
        BY <2>3, <2>4
<1> QED
    BY <1>1, <1>2 DEF RequestNext, RequestEnded

\* Every document request keeps the contract of the extraction, whatever its
\* pages, its schema and the bounds: an upload that cannot be read costs no
\* prompt, and no doubt is returned without its flag on either path.
THEOREM RequestImplementsContract == RequestSpec => ImplementsContract
<1>1. RequestInit => Request!Init
    BY DEF RequestInit, Init, L!Init, L!Returned, L!NoOutcome, NoResult, Request!Init
<1> QED
    BY <1>1, RequestInvInit, RequestInvNext, RequestStepImplements, PTL
    DEF RequestSpec, ImplementsContract, Request!Spec

----------------------------------------------------------------------------
(***************************************************************************)
(* What the loop promises holds of a document request, on both paths.      *)
(***************************************************************************)

\* The invariant of a request, with the count of its Bedrock calls.
THEOREM RequestInvariance == RequestSpec => [](RequestInv /\ LP!CallsInv)
<1>1. RequestInit => LP!CallsInv
    BY SameInit, SameAssumptions, LP!CallsInvInit DEF RequestInit
<1>2. RequestInv /\ LP!CallsInv /\ [RequestNext]_<<vars, loopVars>> => LP!CallsInv'
    <2> SUFFICES ASSUME RequestInv, LP!CallsInv, [RequestNext]_<<vars, loopVars>>
                 PROVE  LP!CallsInv'
        OBVIOUS
    <2>1. CASE ReadUpload
        <3>1. (LP!Init => LP!CallsInv)'
            BY SameAssumptions, LP!CallsInvInit, PTL
        <3> QED
            BY <2>1, <3>1, ReadingComesFirst
    <2>2. CASE Extract \/ UNCHANGED <<vars, loopVars>>
        BY <2>2, ExtractingIsLoopStep, SameAssumptions, LP!CallsInvariance DEF RequestInv
    <2> QED
        BY <2>1, <2>2 DEF RequestNext, RequestEnded
<1> QED
    BY <1>1, <1>2, RequestInvInit, RequestInvNext, PTL DEF RequestSpec

\* No doubt about a document is returned without its flag, from its text or from
\* its images, and none at all before the last attempt.
THEOREM RequestDoubtsFlagged ==
    RequestSpec => [](L!DoubtsAreFlagged /\ L!EarlyResultIsClean)
<1>1. RequestInv => LP!DoubtsAreFlagged
    BY SameAssumptions, LP!DoubtsFollow DEF RequestInv
<1>2. RequestInv => LP!EarlyResultIsClean
    BY SameAssumptions, LP!EarlyDoubts DEF RequestInv, LP!EarlyResultIsClean
<1>3. LP!DoubtsAreFlagged /\ LP!EarlyResultIsClean =>
          L!DoubtsAreFlagged /\ L!EarlyResultIsClean
    BY SameOutcome DEF L!DoubtsAreFlagged, LP!DoubtsAreFlagged,
       L!EarlyResultIsClean, LP!EarlyResultIsClean
<1> QED
    BY <1>1, <1>2, <1>3, RequestInvariance, PTL

\* A document costs no more Bedrock calls than the budget of the path it takes.
THEOREM RequestCallBudget == RequestSpec => []L!CallsWithinBudget
<1>1. RequestInv /\ LP!CallsInv => LP!CallsWithinBudget
    BY SameAssumptions, LP!BudgetFollows DEF RequestInv
<1>2. LP!CallsWithinBudget => L!CallsWithinBudget
    BY DEF L!CallsWithinBudget, LP!CallsWithinBudget, L!CallBudget, LP!CallBudget
<1> QED
    BY <1>1, <1>2, RequestInvariance, PTL

\* An upload that cannot be read costs no call and looks up no schema, and the
\* grounding verifier is asked about images only.
THEOREM RequestRouting ==
    RequestSpec => [](/\ ~Routed => phase = "idle" /\ calls = 0
                      /\ phase = "verify" => result.mode = "image")
<1>1. RequestInv => /\ ~Routed => phase = "idle" /\ calls = 0
                    /\ phase = "verify" => result.mode = "image"
    BY DEF RequestInv, Routed, Mode, LP!Init, LP!IInv, LP!Progress
<1> QED
    BY <1>1, RequestInvariance, PTL

----------------------------------------------------------------------------
(***************************************************************************)
(* A document request comes to an end: each of its steps uses up some of   *)
(* the work of the reading or of the extraction.                           *)
(***************************************************************************)
RequestWork == Work + LP!Work

MostRequestWork == 3 * MaxPages + 4 + LP!MostWork

\* An upload of MaxPages pages is answered or fails within MostRequestWork steps,
\* however it reads and whatever the model and the verifier say.
THEOREM RequestWorkRunsOut ==
    RequestSpec => /\ [](RequestWork \in 0 .. MostRequestWork)
                   /\ [][RequestWork' < RequestWork]_<<vars, loopVars>>
<1>1. RequestInv => /\ Work \in 0 .. 3 * MaxPages + 4 /\ LP!Work \in 0 .. LP!MostWork
                    /\ LP!MostWork \in Int /\ MaxPages \in Nat
    <2>1. LP!MostWork \in Int /\ MaxPages \in Nat
        BY SameAssumptions, UploadAssumption DEF LP!MostWork, LP!LoopAssumption
    <2> QED
        BY <2>1, SameAssumptions, WorkIsFinite, LP!WorkIsFinite DEF RequestInv
<1>2. RequestInv => RequestWork \in 0 .. MostRequestWork
    BY <1>1 DEF RequestWork, MostRequestWork
<1>3. RequestInv /\ RequestInv' /\ [RequestNext]_<<vars, loopVars>> =>
          [RequestWork' < RequestWork]_<<vars, loopVars>>
    <2> SUFFICES ASSUME RequestInv, RequestInv', [RequestNext]_<<vars, loopVars>>,
                        <<vars, loopVars>>' # <<vars, loopVars>>
                 PROVE  RequestWork' < RequestWork
        OBVIOUS
    <2>0. \A a, b, c \in Nat : a < b => a + c < b + c /\ c + a < c + b
        OBVIOUS
    <2>1. /\ Work \in Nat /\ Work' \in Nat
          /\ LP!Work \in Nat /\ LP!Work' \in Nat
        <3>1. (RequestInv => /\ Work \in 0 .. 3 * MaxPages + 4 /\ LP!Work \in 0 .. LP!MostWork
                             /\ LP!MostWork \in Int /\ MaxPages \in Nat)'
            BY <1>1, PTL
        <3> QED
            BY <1>1, <3>1
    <2>2. CASE ReadUpload
        <3>1. LP!Work' = LP!Work /\ vars' # vars
            BY <2>2 DEF ReadUpload, loopVars, LP!Work, LP!AttemptWork
        <3>2. Work' < Work
            BY <2>2, <3>1, ReadingUsesWork DEF RequestInv, ReadUpload, Next
        <3> QED
            BY <2>0, <2>1, <3>1, <3>2, Zenon DEF RequestWork
    <2>3. CASE Extract
        <3>1. Work' = Work /\ LP!vars' # LP!vars
            BY <2>3 DEF Extract, vars, loopVars, LP!vars, Work
        <3>2. LP!Work' < LP!Work
            BY <2>3, <3>1, ExtractingIsLoopStep, SameAssumptions, LP!StepUsesWork
            DEF RequestInv
        <3> QED
            BY <2>0, <2>1, <3>1, <3>2, Zenon DEF RequestWork
    <2> QED
        BY <2>2, <2>3 DEF RequestNext, RequestEnded
<1> QED
    BY <1>2, <1>3, RequestInvariance, PTL DEF RequestSpec
=============================================================================
