--------------------------- MODULE DocumentRequest ---------------------------
(***************************************************************************)
(* extract_document: one upload all the way.  process_upload reads it      *)
(* (DocumentUpload), what it returns chooses the text or the vision path,  *)
(* and the extraction loop runs on that path (ExtractionLoop, with this    *)
(* module's phase for its pc).  An exception of the upload ends the        *)
(* request before any schema is looked up and before Bedrock is called.    *)
(***************************************************************************)
EXTENDS DocumentUpload

CONSTANTS Names, Schema, Scale, MaxRetries, Attempts, Replies, Verdicts

VARIABLES phase,  \* where the extraction is: the pc of ExtractionLoop
          attempt, tries, calls, reply, ungrounded, previous, outcome

loopVars == <<phase, attempt, tries, calls, reply, ungrounded, previous, outcome>>

\* The text goes to extract, the images go to _extract_via_vision.
Mode == IF result.mode = "text" THEN "text" ELSE "vision"

L == INSTANCE ExtractionLoop WITH mode <- Mode, pc <- phase

ASSUME RequestAssumption == L!SchemaAssumption /\ L!LoopAssumption

RequestInit == Init /\ L!Init

ReadUpload == Process /\ UNCHANGED loopVars

\* Mutant: a refused upload is taken for an image.
RoutedIfDone == pc = "done"

Routed == result.mode \in {"text", "image"}

Extract ==
    /\ Routed
    /\ UNCHANGED vars
    /\ L!Begin \/ L!RejectSchema \/ L!Serve

Ended == result.mode = "error" \/ phase = "done"

RequestEnded == Ended /\ UNCHANGED <<vars, loopVars>>

RequestNext == ReadUpload \/ Extract \/ RequestEnded

\* Reading is a plain sequence of calls, and the extraction follows in the same
\* worker thread; Bedrock returns or times out.
RequestSpec ==
    /\ RequestInit /\ [][RequestNext]_<<vars, loopVars>>
    /\ WF_<<vars, loopVars>>(ReadUpload)
    /\ WF_<<vars, loopVars>>(Extract)

----------------------------------------------------------------------------
\* A document request keeps the contract of the extraction as a whole: an
\* upload that cannot be read refuses it at no cost, and one that can opens it
\* with the full budget of prompts, on whichever path.
Request == INSTANCE ExtractionContract WITH
    Doubts <- L!Doubts,
    MaxAttempts <- MaxRetries + 1,
    status <- IF result.mode = "error" THEN "failed"
              ELSE IF phase = "idle" THEN "new"
              ELSE IF phase # "done" THEN "open"
              ELSE IF L!Returned THEN "answered" ELSE "failed",
    budget <- MaxRetries + 1 - attempt,
    doubts <- IF L!Returned THEN L!OpenDoubts ELSE {},
    flags  <- IF L!Returned THEN outcome.warnings \cap L!Doubts ELSE {}

ImplementsContract == Request!Spec

\* Every upload gets an answer or an error, however it reads and whatever the
\* model and the verifier say.
UploadEnds == <>Ended
=============================================================================
