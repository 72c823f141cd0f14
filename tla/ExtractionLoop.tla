--------------------------- MODULE ExtractionLoop ---------------------------
(***************************************************************************)
(* One extraction request inside ExtractionService: schema resolution, the *)
(* self-correcting retry loop (_run_extraction_loop), the transient-error  *)
(* retry around every Bedrock call (invoke_with_retry) and, for images,    *)
(* the second-pass grounding check (_verify_vision_grounding).             *)
(*                                                                         *)
(* The model, the verifier and Bedrock are the environment: each call may  *)
(* fail transiently, fail for good, or return any of the replies given.    *)
(***************************************************************************)
EXTENDS FieldCoercion

CONSTANTS MaxRetries,  \* ExtractionService(max_retries): re-prompts allowed
          Attempts,    \* invoke_with_retry(attempts): calls per invocation
          Replies,     \* what the extraction model may answer
          Verdicts     \* what the grounding verifier may answer

\* A verifier response that is not JSON or not of the _GroundingResponse shape
\* is unusable; a usable one denies some names (present = false).
Verdict == [kind : {"unusable"}] \cup [kind : {"groundings"}, denied : SUBSET Names]

ASSUME LoopAssumption ==
    /\ MaxRetries \in Nat
    /\ Attempts \in Nat \ {0}
    /\ Replies \subseteq Reply
    /\ Verdicts \subseteq Verdict

VARIABLES mode,      \* "text" or "vision"
          pc,        \* "idle", "invoke", "verify", "judge" or "done"
          attempt,   \* the loop variable
          tries,     \* failed calls of the running invoke_with_retry
          calls,     \* Bedrock calls made so far (observed, never read)
          reply,     \* the last reply of the extraction model
          ungrounded,\* vision_grounding_failures of this attempt
          previous,  \* the five previous_* lists the retry prompt is made of
          outcome    \* what the caller gets

vars == <<mode, pc, attempt, tries, calls, reply, ungrounded, previous, outcome>>

----------------------------------------------------------------------------
\* The five previous_* lists; "PARSE" is the could-not-parse message.

NoFailures == [validation |-> {}, citation |-> {}, validator |-> {},
               anchor |-> {}, grounding |-> {}]

\* Mutant: the other four lists are not reset.
AfterParseFailureStale == [previous EXCEPT !.validation = {"PARSE"}]

AfterParseFailure == [NoFailures EXCEPT !.validation = {"PARSE"}]

Coerced == CoerceFields(reply.items, mode = "text")

AfterRejection ==
    [validation |-> Coerced.missing, citation |-> Coerced.citation,
     validator |-> Coerced.validator, anchor |-> Coerced.anchor,
     grounding |-> ungrounded]

\* Counting stops one above the most calls the loop can make (CallBudget), so
\* that the counter is bounded and passing the budget stays visible.
CallBudget(m) == Attempts * (MaxRetries + 1) * (IF m = "vision" THEN 2 ELSE 1)

CountCall == calls' = IF calls > CallBudget(mode) THEN calls ELSE calls + 1

NoOutcome == [kind |-> "none"]
Error(e)  == [kind |-> "error", error |-> e]

Fail(e) == pc' = "done" /\ outcome' = Error(e)

----------------------------------------------------------------------------
Init ==
    /\ mode \in {"text", "vision"}
    /\ pc = "idle"
    /\ attempt = 0 /\ tries = 0 /\ calls = 0
    /\ reply = [kind |-> "none"]
    /\ ungrounded = {}
    /\ previous = NoFailures
    /\ outcome = NoOutcome

\* resolve_schema finds the pinned schema and the loop makes its first call.
Begin ==
    /\ pc = "idle"
    /\ pc' = "invoke"
    /\ UNCHANGED <<mode, attempt, tries, calls, reply, ungrounded, previous, outcome>>

\* resolve_schema raises: unknown name, or a version that is not registered.
RejectSchema ==
    /\ pc = "idle"
    /\ Fail("KeyError")
    /\ UNCHANGED <<mode, attempt, tries, calls, reply, ungrounded, previous>>

\* Mutant: one call too many.
TransientFailureOffByOne ==
    /\ pc \in {"invoke", "verify"}
    /\ tries < Attempts
    /\ tries' = tries + 1
    /\ CountCall
    /\ UNCHANGED <<mode, pc, attempt, reply, ungrounded, previous, outcome>>

\* Mutant: no stop condition, the count of tries starts again.
TransientFailureUnbounded ==
    /\ pc \in {"invoke", "verify"}
    /\ tries' = (tries + 1) % Attempts
    /\ CountCall
    /\ UNCHANGED <<mode, pc, attempt, reply, ungrounded, previous, outcome>>

\* invoke_with_retry: a retryable error before the last try is called again.
TransientFailure ==
    /\ pc \in {"invoke", "verify"}
    /\ tries + 1 < Attempts
    /\ tries' = tries + 1
    /\ CountCall
    /\ UNCHANGED <<mode, pc, attempt, reply, ungrounded, previous, outcome>>

\* Any other error of Bedrock or its client (ClientError, BotoCoreError), and a
\* retryable one on the last try, is re-raised.  From the extraction call nothing
\* in the loop catches it ...
InvokeRaises ==
    /\ pc = "invoke"
    /\ Fail("BedrockError")
    /\ CountCall
    /\ UNCHANGED <<mode, attempt, tries, reply, ungrounded, previous>>

\* Mutant: the verifier's transport failures are not caught.
VerifyRaisesThrough ==
    /\ pc = "verify"
    /\ Fail("BedrockError")
    /\ CountCall
    /\ UNCHANGED <<mode, attempt, tries, reply, ungrounded, previous>>

\* ... from the verifier's call it fails open: no failures.
VerifyRaises ==
    /\ pc = "verify"
    /\ pc' = "judge"
    /\ tries' = 0
    /\ ungrounded' = {}
    /\ CountCall
    /\ UNCHANGED <<mode, attempt, reply, previous, outcome>>

\* An exception of another class, which no call of the loop is guarded against:
\* rendering the prompt, before the first try, or the call itself raises it.
RaisesOther ==
    /\ pc \in {"invoke", "verify"}
    /\ Fail("other")
    /\ CountCall \/ (tries = 0 /\ UNCHANGED calls)
    /\ UNCHANGED <<mode, attempt, tries, reply, ungrounded, previous>>

\* Mutant: range() runs one iteration more.
NextAttemptOneMore ==
    IF attempt <= MaxRetries
    THEN attempt' = attempt + 1 /\ pc' = "invoke" /\ UNCHANGED outcome
    ELSE Fail("ExtractionError") /\ UNCHANGED attempt

\* The next iteration of the for loop; past the last one, the final raise.
NextAttempt ==
    IF attempt < MaxRetries
    THEN attempt' = attempt + 1 /\ pc' = "invoke" /\ UNCHANGED outcome
    ELSE Fail("ExtractionError") /\ UNCHANGED attempt

InvokeReturns(r) ==
    /\ pc = "invoke"
    /\ reply' = r
    /\ tries' = 0
    /\ ungrounded' = {}
    /\ CountCall
    /\ UNCHANGED mode

ReplyUnparseable(r) ==
    /\ r.kind = "unparseable"
    /\ InvokeReturns(r)
    /\ previous' = AfterParseFailure
    /\ NextAttempt

\* _coerce_fields raises outside the try: ExtractionError for a missing
\* "fields" array, ValueError or ValidationError for a malformed entry.
ReplyUncoercible(r) ==
    /\ InvokeReturns(r)
    /\ \/ r.kind = "no_fields" /\ Fail("ExtractionError")
       \/ r.kind = "fields" /\ CoercionRaises(r.items) /\ Fail("ValueError")
    /\ UNCHANGED <<attempt, previous>>

\* The verifier is asked about the non-empty values only, and not called when
\* there are none.
Candidates(items, m) ==
    {f \in Fields : ~Empty(CoerceFields(items, m = "text").fields[f].value)}

ReplyCoerced(r) ==
    /\ r.kind = "fields" /\ ~CoercionRaises(r.items)
    /\ InvokeReturns(r)
    /\ pc' = IF mode = "vision" /\ Candidates(r.items, mode) # {}
             THEN "verify" ELSE "judge"
    /\ UNCHANGED <<attempt, previous, outcome>>

\* Denials count for every field of the result, candidate or not.
VerifyReturns(v) ==
    /\ pc = "verify"
    /\ pc' = "judge"
    /\ tries' = 0
    /\ ungrounded' = IF v.kind = "groundings" THEN v.denied \cap Fields ELSE {}
    /\ CountCall
    /\ UNCHANGED <<mode, attempt, reply, previous, outcome>>

----------------------------------------------------------------------------
\* The decision at the end of an attempt.

\* Mutants: a kind of failure is not counted as fatal.
FatalIgnoresGrounding == Coerced.missing # {} \/ Coerced.anchor # {}
FatalIgnoresAnchor == Coerced.missing # {} \/ ungrounded # {}

Fatal == Coerced.missing # {} \/ Coerced.anchor # {} \/ ungrounded # {}

\* Mutant: the loop bound is mistaken for the retry count.
IsLastAttemptOffByOne == attempt = MaxRetries + 1

IsLastAttempt == attempt = MaxRetries

\* Mutant: denied values are not reported.
FinalWarningsSilent ==
    CoercionWarnings(Coerced)
        \cup (IF IsLastAttempt THEN {"UNANCHORED"} \X Coerced.anchor ELSE {})

FinalWarnings ==
    CoercionWarnings(Coerced)
        \cup (IF IsLastAttempt
              THEN ({"UNGROUNDED"} \X ungrounded) \cup ({"UNANCHORED"} \X Coerced.anchor)
              ELSE {})

\* overall_confidence is ComputeOverall of the fields, and nothing reads it.
Accept ==
    /\ pc = "judge"
    /\ ~Fatal \/ IsLastAttempt
    /\ pc' = "done"
    /\ outcome' = [kind |-> "result", fields |-> Coerced.fields, warnings |-> FinalWarnings]
    /\ UNCHANGED <<mode, attempt, tries, calls, reply, ungrounded, previous>>

Reprompt ==
    /\ pc = "judge"
    /\ Fatal /\ ~IsLastAttempt
    /\ previous' = AfterRejection
    /\ NextAttempt
    /\ UNCHANGED <<mode, tries, calls, reply, ungrounded>>

Serve ==
    \/ TransientFailure \/ InvokeRaises \/ VerifyRaises \/ RaisesOther
    \/ \E r \in Replies : ReplyUnparseable(r) \/ ReplyUncoercible(r) \/ ReplyCoerced(r)
    \/ \E v \in Verdicts : VerifyReturns(v)
    \/ Accept \/ Reprompt

Finished == pc = "done" /\ UNCHANGED vars

Next == Begin \/ RejectSchema \/ Serve \/ Finished

Spec == Init /\ [][Next]_vars

\* A request that has begun keeps its worker thread until it ends, and every
\* Bedrock call returns or raises (botocore times a silent call out).
FairSpec == Spec /\ WF_vars(Serve)

----------------------------------------------------------------------------
(***************************************************************************)
(* Properties.  What is wrong with a reply is restated here from its        *)
(* entries, so that the properties do not lean on CoerceFields.             *)
(***************************************************************************)
Entered(f) == reply.kind = "fields" /\ reply.items[f] # NoEntry

\* A required field that the reply leaves out, or sets to null or "".
Missing == {f \in Fields : /\ Schema[f].required
                           /\ ~Entered(f) \/ reply.items[f].value \in {"null", "empty"}}

\* A string that is not in the excerpt it cites, although the document has
\* the excerpt.
Fabricated ==
    {f \in Fields : /\ mode = "text"
                    /\ Entered(f)
                    /\ Schema[f].type # "DATE"
                    /\ reply.items[f].excerpt = "verbatim"
                    /\ \/ reply.items[f].value = "empty"
                       \/ reply.items[f].value = "text" /\ ~reply.items[f].anchored}

\* An excerpt the document does not have, for a value that is not empty.
MadeUpCitations ==
    {f \in Fields : /\ mode = "text"
                    /\ Entered(f)
                    /\ reply.items[f].excerpt = "misquoted"
                    /\ reply.items[f].value \notin {"null", "empty"}}

\* A value that its field's pattern, if there is one, accepts and the validator of
\* its type refuses.
Refused ==
    {f \in Fields : /\ Entered(f)
                    /\ Schema[f].type # "PLAIN"
                    /\ \/ reply.items[f].value = "blank"
                       \/ reply.items[f].value = "text" /\ ~reply.items[f].valid
                    /\ Schema[f].pattern => reply.items[f].matches}

Doubts == {"MISSING_REQUIRED", "UNANCHORED", "UNGROUNDED"} \X Fields

OpenDoubts == ({"MISSING_REQUIRED"} \X Missing)
                \cup ({"UNANCHORED"} \X Fabricated)
                \cup ({"UNGROUNDED"} \X ungrounded)

Returned == outcome.kind = "result"

FieldResult == [value : Values, confidence : Int]
Warning     == {"MISSING_REQUIRED", "missing optional field", "pattern mismatch",
                "UNGROUNDED", "UNANCHORED"} \X Fields
Failures    == [validation : SUBSET (Fields \cup {"PARSE"}), citation : SUBSET Fields,
                validator : SUBSET Fields, anchor : SUBSET Fields,
                grounding : SUBSET Fields]
Outcome     == {NoOutcome}
                 \cup [kind : {"error"},
                       error : {"KeyError", "BedrockError", "ExtractionError",
                                "ValueError", "other"}]
                 \cup [kind : {"result"}, fields : [Fields -> FieldResult],
                       warnings : SUBSET Warning]

\* The type of every variable of the request.
TypeOK ==
    /\ mode \in {"text", "vision"}
    /\ pc \in {"idle", "invoke", "verify", "judge", "done"}
    /\ attempt \in 0 .. MaxRetries
    /\ tries \in 0 .. Attempts - 1
    /\ calls \in Nat
    /\ reply \in Reply \cup {[kind |-> "none"]}
    /\ ungrounded \in SUBSET Fields
    /\ previous \in Failures
    /\ outcome \in Outcome

\* No silent doubt: whatever is still wrong with the returned reply - a
\* required value missing, a value outside its own citation, a value the
\* verifier denied - is named in the result's warnings.
DoubtsAreFlagged == Returned => OpenDoubts \subseteq outcome.warnings

\* The self-correction is not cut short: a result returned before the last
\* attempt has no fatal failure left.
EarlyResultIsClean == Returned /\ attempt < MaxRetries => OpenDoubts = {}

\* A re-prompt is made for a reason, and the reason is the reply just before
\* it: in each of the five lists no failure of an older attempt survives into
\* the prompt and none of the last attempt is left out.
RepromptIsAboutLastReply ==
    pc = "invoke" /\ attempt > 0 =>
        \/ reply.kind = "unparseable" /\ previous = [NoFailures EXCEPT !.validation = {"PARSE"}]
        \/ /\ reply.kind = "fields"
           /\ previous.validation = Missing
           /\ previous.anchor = Fabricated
           /\ previous.citation = MadeUpCitations
           /\ previous.validator = Refused
           /\ previous.grounding = ungrounded
           /\ OpenDoubts # {}

\* The two nested retry loops and the verifier together stay within the
\* product of their bounds.
CallsWithinBudget == calls <= CallBudget(mode)

\* Extraction fails for the reasons it states: a reply that was understood is
\* never thrown away on the last attempt, and the final error lists the parse
\* failure that caused it.
ErrorNamesItsCause ==
    outcome = Error("ExtractionError") =>
        \/ reply.kind = "no_fields"
        \/ reply.kind = "unparseable" /\ attempt = MaxRetries /\ previous.validation # {}

\* The verifier fails open to Bedrock: whether its call is refused, times out,
\* runs out of tries or is answered with something unusable, the attempt it checks
\* goes on to its decision with the same reply.  Only an exception that is neither
\* a ClientError nor a BotoCoreError ends the request here.
VerifierFailsOpen ==
    [][pc = "verify" =>
        /\ reply' = reply /\ attempt' = attempt
        /\ pc' \in {"verify", "judge"} \/ outcome' = Error("other")]_vars

\* Every request that has begun ends, whatever the model answers.
BegunRequestsEnd == pc = "invoke" ~> pc = "done"

\* The loop implements the contract its callers rely on.
Contract == INSTANCE ExtractionContract WITH
    MaxAttempts <- MaxRetries + 1,
    status <- IF pc = "idle" THEN "new"
              ELSE IF pc # "done" THEN "open"
              ELSE IF Returned THEN "answered" ELSE "failed",
    budget <- MaxRetries + 1 - attempt,
    doubts <- IF Returned THEN OpenDoubts ELSE {},
    flags  <- IF Returned THEN outcome.warnings \cap Doubts ELSE {}

ImplementsContract == Contract!Spec

----------------------------------------------------------------------------
(***************************************************************************)
(* A statement of the documentation that the loop does not keep; a run     *)
(* refutes it.                                                             *)
(***************************************************************************)
\* ADR-0011: "Fabricated citations trigger a retry."
FabricatedCitationsTriggerRetry ==
    Returned /\ attempt < MaxRetries => MadeUpCitations = {}
============================================================================
