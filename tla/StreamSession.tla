--------------------------- MODULE StreamSession ---------------------------
(***************************************************************************)
(* One POST /extract/stream request: the pre-flight of the route, the SSE  *)
(* generator it returns, and ExtractionService.extract_stream behind it,   *)
(* which makes a single attempt.  The schema registry is a global that     *)
(* register_schema may change at any moment; it is read twice, before and  *)
(* after the response has been opened.                                     *)
(*                                                                         *)
(* The response pulls: the next delta is asked for when the frame of the   *)
(* last one is written, so a delta and its frame are one step.             *)
(***************************************************************************)
EXTENDS FieldCoercion, Sequences

CONSTANTS Versions,    \* versions of the schema the request names
          Unversioned, \* no entry in the registry; no schema_version given
          MaxDeltas,   \* text deltas of a stream (bedrock_max_tokens bounds them)
          Replies      \* what the accumulated text may be

ASSUME StreamAssumption ==
    /\ Unversioned \notin Versions
    /\ MaxDeltas \in Nat
    /\ Replies \subseteq Reply

VARIABLES registry,    \* the version registered under the requested name
          pin,         \* schema_version of the request body
          pc,          \* see TypeOK
          prompted,    \* version of the schema in the prompt
          accumulated, \* deltas collected for _parse_json
          frames,      \* SSE frames written to the client
          reply        \* what the accumulated text was

vars == <<registry, pin, pc, prompted, accumulated, frames, reply>>

Pins == Versions \cup {Unversioned}

Chunk(d)   == [event |-> "chunk", text |-> d]
ErrorFrame == [event |-> "error"]

Frame == [event : {"chunk"}, text : 1 .. MaxDeltas]
           \cup [event : {"error"}]
           \cup [event : {"result"}, version : Pins, warnings :
                   SUBSET ({"MISSING_REQUIRED", "missing optional field",
                            "pattern mismatch"} \X Fields)]

Init ==
    /\ registry \in Pins
    /\ pin \in Pins
    /\ pc = "new"
    /\ prompted = Unversioned
    /\ accumulated = <<>> /\ frames = <<>>
    /\ reply = [kind |-> "none"]

\* resolve_schema does not raise KeyError.  Mutant: pins are not compared.
ResolvesUnpinned == registry # Unversioned

Resolves == registry # Unversioned /\ pin \in {Unversioned, registry}

\* register_schema, called by anyone: replaces the entry, never removes it.
Register(v) ==
    /\ registry' = v
    /\ UNCHANGED <<pin, pc, prompted, accumulated, frames, reply>>

\* The route: 404, or the response is opened and its headers are sent.
Preflight ==
    /\ pc = "new"
    /\ pc' = IF Resolves THEN "open" ELSE "rejected"
    /\ UNCHANGED <<registry, pin, prompted, accumulated, frames, reply>>

\* The generator's first step: extract_stream resolves the schema again and
\* renders the prompt.  KeyError is not caught.
StartStream ==
    /\ pc = "open"
    /\ IF Resolves
       THEN pc' = "reading" /\ prompted' = registry
       ELSE pc' = "torn" /\ UNCHANGED prompted
    /\ UNCHANGED <<registry, pin, accumulated, frames, reply>>

\* Mutant: a delta is sent without being collected.
DeltaUncollected ==
    /\ pc = "reading"
    /\ Len(frames) < MaxDeltas
    /\ frames' = Append(frames, Chunk(Len(frames) + 1))
    /\ UNCHANGED <<registry, pin, pc, prompted, accumulated, reply>>

\* Mutant: the length of the stream is not bounded.
DeltaUnbounded ==
    /\ pc = "reading"
    /\ accumulated' = Append(accumulated, Len(accumulated) + 1)
    /\ frames' = Append(frames, Chunk(Len(accumulated) + 1))
    /\ UNCHANGED <<registry, pin, pc, prompted, reply>>

\* stream_async yields a non-empty "data" string; other events are skipped.
Delta ==
    /\ pc = "reading"
    /\ Len(accumulated) < MaxDeltas
    /\ accumulated' = Append(accumulated, Len(accumulated) + 1)
    /\ frames' = Append(frames, Chunk(Len(accumulated) + 1))
    /\ UNCHANGED <<registry, pin, pc, prompted, reply>>

\* Bedrock or the agent raises in the middle: nothing catches it, the
\* connection is dropped.
AgentRaises ==
    /\ pc = "reading"
    /\ pc' = "torn"
    /\ UNCHANGED <<registry, pin, prompted, accumulated, frames, reply>>

Close(frame) == pc' = "closed" /\ frames' = Append(frames, frame)

\* The stream of the agent ends, and its text turns out to be r.
AgentEnds(r) ==
    /\ pc = "reading"
    /\ accumulated = <<>> => r.kind = "unparseable"
    /\ reply' = r
    /\ UNCHANGED <<registry, pin, prompted, accumulated>>

\* Mutant: the return after the error event is missing.
FailFallsThrough(r) ==
    /\ r.kind \in {"unparseable", "no_fields"}
    /\ AgentEnds(r)
    /\ pc' = "closed"
    /\ frames' = frames \o <<ErrorFrame, ErrorFrame>>

\* Mutant: a text that cannot be used is dropped and the next one awaited.
FailWaits(r) ==
    /\ r.kind \in {"unparseable", "no_fields"}
    /\ AgentEnds(r)
    /\ UNCHANGED <<pc, frames>>

\* A parse failure is yielded as an error by extract_stream; the
\* ExtractionError of a missing "fields" array is caught by the route.
Fail(r) ==
    /\ r.kind \in {"unparseable", "no_fields"}
    /\ AgentEnds(r)
    /\ Close(ErrorFrame)

\* ValueError and ValidationError are not caught anywhere.
CoercionTears(r) ==
    /\ r.kind = "fields" /\ CoercionRaises(r.items)
    /\ AgentEnds(r)
    /\ pc' = "torn"
    /\ UNCHANGED frames

\* The terminal result, without the failure lists.
ResultFrame(v, items) ==
    [event |-> "result", version |-> v,
     warnings |-> CoercionWarnings(CoerceFields(items, TRUE))]

\* Mutant: the schema is looked up again for the answer.
AnswerFromRegistry(r) ==
    /\ r.kind = "fields" /\ ~CoercionRaises(r.items)
    /\ AgentEnds(r)
    /\ Close(ResultFrame(registry, r.items))

Answer(r) ==
    /\ r.kind = "fields" /\ ~CoercionRaises(r.items)
    /\ AgentEnds(r)
    /\ Close(ResultFrame(prompted, r.items))

\* The client disconnects; the generator is closed where it stands.
Disconnect ==
    /\ pc \in {"new", "open", "reading"}
    /\ pc' = "gone"
    /\ UNCHANGED <<registry, pin, prompted, accumulated, frames, reply>>

Serve ==
    \/ Preflight \/ StartStream \/ Delta \/ AgentRaises
    \/ \E r \in Replies : Fail(r) \/ CoercionTears(r) \/ Answer(r)

Over == pc \in {"rejected", "closed", "torn", "gone"}

Finished == Over /\ UNCHANGED vars

Next == Serve \/ Disconnect \/ Finished \/ \E v \in Versions : Register(v)

Spec == Init /\ [][Next]_vars

\* The event loop keeps pulling an open response, and the agent's stream
\* yields, ends or raises.
FairSpec == Spec /\ WF_vars(Serve)

----------------------------------------------------------------------------
Terminal(i) == frames[i].event \in {"result", "error"}

\* The positions of the terminal events among the frames written.
Terminals == {i \in DOMAIN frames : Terminal(i)}

\* The type of every variable.
TypeOK ==
    /\ registry \in Pins /\ pin \in Pins /\ prompted \in Pins
    /\ pc \in {"new", "open", "reading", "rejected", "closed", "torn", "gone"}
    /\ accumulated \in Seq(1 .. MaxDeltas)
    /\ frames \in Seq(Frame)
    /\ reply \in Reply \cup {[kind |-> "none"]}

\* The text that is judged is the text the client has seen: delta for delta,
\* in order, and all of it; nothing but the end follows it.
JudgedTextWasSent ==
    /\ \A i \in DOMAIN accumulated : i \in DOMAIN frames /\ frames[i] = Chunk(accumulated[i])
    /\ \A i \in DOMAIN frames \ DOMAIN accumulated : Terminal(i)

\* A pinned request is answered under its pin or not at all, although the
\* registry may change between the pre-flight, the prompt and the answer.
PinIsKept ==
    \A i \in Terminals :
        frames[i].event = "result" /\ pin # Unversioned => frames[i].version = pin

\* The answer is about the schema the model was prompted with, whatever the
\* registry holds by then.
AnswerMatchesPrompt ==
    \A i \in Terminals : frames[i].event = "result" => frames[i].version = prompted

\* An opened response does not stay open.
OpenStreamEnds == pc = "open" ~> Over

\* The session keeps the protocol its clients rely on: frames are never taken
\* back, a stream that is closed properly was told its end by exactly one
\* terminal event, the last frame, and one that is torn was told nothing final.
Protocol == INSTANCE StreamProtocol WITH
    phase <- IF pc = "new" THEN "waiting"
             ELSE IF pc \in {"open", "reading"} THEN "open"
             ELSE IF pc = "closed" THEN "told" ELSE "broken",
    log   <- [i \in DOMAIN frames |-> frames[i].event]

ImplementsProtocol == Protocol!Spec

----------------------------------------------------------------------------
(* Statements of the documentation that a run refutes.                     *)

\* extract_stream and the route: chunks, "followed by exactly one terminal
\* event".
ExactlyOneTerminal ==
    pc \in {"closed", "torn"} => \E i \in DOMAIN frames : Terminals = {i}
============================================================================
