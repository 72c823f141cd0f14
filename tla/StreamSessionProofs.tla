------------------------ MODULE StreamSessionProofs ------------------------
(***************************************************************************)
(* Proofs about StreamSession, for every schema, every set of versions and *)
(* replies, and every bound on the deltas of a stream.                     *)
(***************************************************************************)
EXTENDS StreamSession, TLAPS

\* The warnings of a coerced reply are of the three kinds, about fields.
LEMMA WarningsType ==
    ASSUME NEW items
    PROVE  CoercionWarnings(CoerceFields(items, TRUE)) \in
               SUBSET ({"MISSING_REQUIRED", "missing optional field",
                        "pattern mismatch"} \X Fields)
<1> DEFINE c == CoerceFields(items, TRUE)
<1>1. c.missing \subseteq Fields /\ c.absent \subseteq Fields /\ c.mismatch \subseteq Fields
    BY DEF CoerceFields, Given
<1> HIDE DEF c
<1> QED
    BY <1>1 DEF CoercionWarnings, c

\* The three kinds of frame that are written are frames.
LEMMA FrameTypes ==
    /\ \A d \in 1 .. MaxDeltas : Chunk(d) \in Frame
    /\ ErrorFrame \in Frame
    /\ \A v \in Pins : \A items : ResultFrame(v, items) \in Frame
<1>1. \A d \in 1 .. MaxDeltas : Chunk(d) \in Frame
    BY DEF Chunk, Frame
<1>2. ErrorFrame \in Frame
    BY DEF ErrorFrame, Frame
<1>3. ASSUME NEW v \in Pins, NEW items PROVE ResultFrame(v, items) \in Frame
    BY WarningsType DEF ResultFrame, Frame
<1> QED
    BY <1>1, <1>2, <1>3

----------------------------------------------------------------------------
(***************************************************************************)
(* The inductive invariant.  What the terminal frame says depends on the   *)
(* prompt, what the prompt says on the registry at the second lookup; the  *)
(* frames before it are the deltas, as long as nothing terminal is among   *)
(* them.                                                                   *)
(***************************************************************************)

\* The frames are the deltas and, once the stream is closed, one more.
FramesFit ==
    /\ pc \in {"new", "open", "rejected"} => accumulated = <<>>
    /\ pc # "closed" => Len(frames) = Len(accumulated)
    /\ pc = "closed" => /\ Len(frames) = Len(accumulated) + 1
                        /\ Terminal(Len(frames))
    /\ \A i \in 1 .. Len(accumulated) : frames[i] = Chunk(accumulated[i])

\* The prompt is about the pinned version from the second lookup on, and so is
\* the result.
VersionsFit ==
    /\ pc = "reading" => pin \in {Unversioned, prompted}
    /\ \A i \in DOMAIN frames : frames[i].event = "result" =>
          frames[i].version = prompted /\ pin \in {Unversioned, prompted}

IInv == TypeOK /\ FramesFit /\ VersionsFit

\* The initial states satisfy the invariant.
LEMMA InitInvariant == Init => IInv
    BY DEF Init, IInv, TypeOK, FramesFit, VersionsFit, Pins

\* A terminal frame closes the stream the way the invariant says.
LEMMA CloseKeepsInvariant ==
    ASSUME IInv, pc = "reading", NEW frame \in Frame, Close(frame),
           frame.event \in {"result", "error"},
           frame.event = "result" => frame.version = prompted,
           UNCHANGED <<registry, pin, prompted, accumulated>>,
           reply' \in Reply \cup {[kind |-> "none"]}
    PROVE  IInv'
<1> USE DEF IInv
<1>1. TypeOK'
    BY DEF TypeOK, Close
<1>2. accumulated \in Seq(1 .. MaxDeltas) /\ frames \in Seq(Frame)
    BY DEF TypeOK
<1>3. /\ frames' = Append(frames, frame)
      /\ Len(frames') = Len(frames) + 1
      /\ frames'[Len(frames) + 1] = frame
      /\ \A i \in 1 .. Len(frames) : frames'[i] = frames[i]
    BY <1>2 DEF Close
<1>4. FramesFit'
    BY <1>2, <1>3 DEF FramesFit, Close, Terminal
<1>5. VersionsFit'
    BY <1>2, <1>3 DEF VersionsFit, Close
<1> QED
    BY <1>1, <1>4, <1>5

\* Every step keeps the invariant.
LEMMA NextInvariant == IInv /\ [Next]_vars => IInv'
<1> SUFFICES ASSUME IInv, [Next]_vars PROVE IInv'
    OBVIOUS
<1>0. TypeOK /\ FramesFit /\ VersionsFit
    BY DEF IInv
<1>s. accumulated \in Seq(1 .. MaxDeltas) /\ frames \in Seq(Frame) /\ MaxDeltas \in Nat
    BY <1>0, StreamAssumption DEF TypeOK
<1>1. CASE UNCHANGED vars
    BY <1>0, <1>1 DEF vars, IInv, TypeOK, FramesFit, VersionsFit, Terminal
<1>2. CASE Preflight
    BY <1>0, <1>s, <1>2 DEF Preflight, IInv, TypeOK, FramesFit, VersionsFit, Terminal
<1>3. CASE StartStream
    <2>1. DOMAIN frames = {}
        <3>1. Len(accumulated) = 0 /\ Len(frames) = Len(accumulated)
            BY <1>0, <1>s, <1>3 DEF StartStream, FramesFit
        <3> QED
            BY <1>s, <3>1
    <2> QED
        BY <1>0, <1>s, <1>3, <2>1
        DEF StartStream, Resolves, IInv, TypeOK, FramesFit, VersionsFit, Terminal
<1>4. CASE Delta
    <2> DEFINE n == Len(accumulated) + 1
    <2>1. n \in 1 .. MaxDeltas /\ Chunk(n) \in Frame
        BY <1>s, <1>4, FrameTypes DEF Delta
    <2>2. TypeOK'
        BY <1>0, <1>s, <1>4, <2>1 DEF Delta, TypeOK
    <2>3. /\ Len(accumulated') = n /\ Len(frames') = n
          /\ accumulated'[n] = n /\ frames'[n] = Chunk(n)
          /\ \A i \in 1 .. Len(accumulated) :
                accumulated'[i] = accumulated[i] /\ frames'[i] = frames[i]
        BY <1>0, <1>s, <1>4 DEF Delta, FramesFit
    <2>4. FramesFit'
        BY <1>0, <1>s, <1>4, <2>3 DEF Delta, FramesFit
    <2>5. VersionsFit'
        BY <1>0, <1>s, <1>4, <2>3 DEF Delta, VersionsFit, FramesFit, Chunk
    <2> QED
        BY <2>2, <2>4, <2>5 DEF IInv
<1>5. CASE AgentRaises
    BY <1>0, <1>s, <1>5 DEF AgentRaises, IInv, TypeOK, FramesFit, VersionsFit, Terminal
<1>6. ASSUME NEW r \in Replies, Fail(r) PROVE IInv'
    <2>1. r \in Reply /\ ErrorFrame \in Frame
        BY StreamAssumption, FrameTypes
    <2> QED
        BY <1>6, <2>1, CloseKeepsInvariant DEF Fail, AgentEnds, ErrorFrame
<1>7. ASSUME NEW r \in Replies, CoercionTears(r) PROVE IInv'
    <2>1. r \in Reply
        BY StreamAssumption
    <2> QED
        BY <1>0, <1>s, <1>7, <2>1
        DEF CoercionTears, AgentEnds, IInv, TypeOK, FramesFit, VersionsFit, Terminal
<1>8. ASSUME NEW r \in Replies, Answer(r) PROVE IInv'
    <2>1. r \in Reply /\ prompted \in Pins
        BY <1>0, StreamAssumption DEF TypeOK
    <2>2. ResultFrame(prompted, r.items) \in Frame
        BY <2>1, FrameTypes
    <2>3. /\ ResultFrame(prompted, r.items).event = "result"
          /\ ResultFrame(prompted, r.items).version = prompted
        BY DEF ResultFrame
    <2>4. pc = "reading" /\ Close(ResultFrame(prompted, r.items)) /\ reply' = r
          /\ UNCHANGED <<registry, pin, prompted, accumulated>>
        BY <1>8 DEF Answer, AgentEnds
    <2> QED
        BY <2>1, <2>2, <2>3, <2>4, CloseKeepsInvariant
<1>9. CASE Disconnect
    BY <1>0, <1>s, <1>9 DEF Disconnect, IInv, TypeOK, FramesFit, VersionsFit, Terminal
<1>10. ASSUME NEW v \in Versions, Register(v) PROVE IInv'
    BY <1>0, <1>s, <1>10 DEF Register, Pins, IInv, TypeOK, FramesFit, VersionsFit, Terminal
<1> QED
    BY <1>1, <1>2, <1>3, <1>4, <1>5, <1>6, <1>7, <1>8, <1>9, <1>10
    DEF Next, Serve, Finished

\* The invariant holds in every state of every stream.
THEOREM Invariance == Spec => []IInv
<1> QED
    BY InitInvariant, NextInvariant, PTL DEF Spec

----------------------------------------------------------------------------
(***************************************************************************)
(* The properties.                                                         *)
(***************************************************************************)

\* Every variable of a stream keeps its type.
THEOREM TypeCorrect == Spec => []TypeOK
<1>1. IInv => TypeOK
    BY DEF IInv
<1> QED
    BY <1>1, Invariance, PTL

\* The text that is judged is the text the client has seen.
THEOREM JudgedTextSent == Spec => []JudgedTextWasSent
<1>1. IInv => JudgedTextWasSent
    <2> SUFFICES ASSUME IInv PROVE JudgedTextWasSent
        OBVIOUS
    <2>1. accumulated \in Seq(1 .. MaxDeltas) /\ frames \in Seq(Frame) /\ FramesFit
        BY DEF IInv, TypeOK
    <2> QED
        BY <2>1 DEF FramesFit, JudgedTextWasSent
<1> QED
    BY <1>1, Invariance, PTL

\* A pinned stream is answered under its pin or not at all.
THEOREM PinKept == Spec => []PinIsKept
<1>1. IInv => PinIsKept
    BY DEF IInv, VersionsFit, PinIsKept, Terminals
<1> QED
    BY <1>1, Invariance, PTL

\* The result is about the schema in the prompt.
THEOREM AnswerAboutPrompt == Spec => []AnswerMatchesPrompt
<1>1. IInv => AnswerMatchesPrompt
    BY DEF IInv, VersionsFit, AnswerMatchesPrompt, Terminals
<1> QED
    BY <1>1, Invariance, PTL

----------------------------------------------------------------------------
(***************************************************************************)
(* The refinement.                                                         *)
(***************************************************************************)
\* The log of the protocol.
PLog == [i \in DOMAIN frames |-> frames[i].event]

\* Writing a frame appends its kind to the log.
LEMMA LogGrows ==
    ASSUME frames \in Seq(Frame), NEW frame \in Frame, frames' = Append(frames, frame)
    PROVE  PLog' = Append(PLog, frame.event)
<1>1. DOMAIN frames' = 1 .. Len(frames) + 1 /\ DOMAIN frames = 1 .. Len(frames)
    OBVIOUS
<1>2. frames'[Len(frames) + 1] = frame /\ \A i \in 1 .. Len(frames) : frames'[i] = frames[i]
    OBVIOUS
<1>3. PLog = [i \in 1 .. Len(frames) |-> frames[i].event]
    BY <1>1 DEF PLog
<1>4. PLog' = [i \in 1 .. Len(frames) + 1 |-> frames'[i].event]
    BY <1>1 DEF PLog
<1>5. Len(frames) \in Nat
    OBVIOUS
<1>6. Append(PLog, frame.event)
        = [i \in 1 .. Len(frames) + 1 |->
              IF i <= Len(frames) THEN frames[i].event ELSE frame.event]
    BY <1>3, <1>5
<1> QED
    BY <1>2, <1>4, <1>5, <1>6

\* The session implements the protocol its clients rely on: every step is a
\* step of the protocol or leaves it unchanged.
THEOREM SessionImplementsProtocol == Spec => ImplementsProtocol
<1>1. Init => Protocol!Init
    BY DEF Init, Protocol!Init
<1>2. IInv /\ [Next]_vars => [Protocol!Next]_(Protocol!pvars)
    <2> SUFFICES ASSUME IInv, [Next]_vars PROVE [Protocol!Next]_(Protocol!pvars)
        OBVIOUS
    <2>0. frames \in Seq(Frame) /\ TypeOK
        BY DEF IInv, TypeOK
    <2> USE DEF Protocol!Next, Protocol!pvars
    <2>1. CASE UNCHANGED vars
        BY <2>1 DEF vars
    <2>2. CASE Preflight
        BY <2>2 DEF Preflight, Protocol!Open, Protocol!Break
    <2>3. CASE StartStream
        BY <2>3 DEF StartStream, Protocol!Break
    <2>4. CASE Delta
        <3>1. Len(accumulated) + 1 \in 1 .. MaxDeltas
            BY <2>0, <2>4, StreamAssumption DEF Delta, TypeOK
        <3>2. Chunk(Len(accumulated) + 1) \in Frame /\ Chunk(Len(accumulated) + 1).event = "chunk"
            BY <3>1, FrameTypes DEF Chunk
        <3>3. PLog' = Append(PLog, "chunk")
            BY <2>0, <2>4, <3>2, LogGrows DEF Delta
        <3> QED
            BY <2>4, <3>3 DEF Delta, PLog, Protocol!Send
    <2>5. CASE AgentRaises \/ Disconnect
        BY <2>5 DEF AgentRaises, Disconnect, Protocol!Break
    <2>6. ASSUME NEW r \in Replies, Fail(r) PROVE Protocol!Conclude
        <3>1. ErrorFrame \in Frame /\ ErrorFrame.event = "error"
            BY FrameTypes DEF ErrorFrame
        <3>2. PLog' = Append(PLog, "error")
            BY <2>0, <2>6, <3>1, LogGrows DEF Fail, Close
        <3> QED
            BY <2>6, <3>2 DEF Fail, AgentEnds, Close, PLog, Protocol!Conclude
    <2>7. ASSUME NEW r \in Replies, CoercionTears(r) PROVE Protocol!Break
        BY <2>7 DEF CoercionTears, AgentEnds, Protocol!Break
    <2>8. ASSUME NEW r \in Replies, Answer(r) PROVE Protocol!Conclude
        <3> DEFINE frame == ResultFrame(prompted, r.items)
        <3>1. frame \in Frame /\ frame.event = "result"
            <4>1. prompted \in Pins
                BY <2>0 DEF TypeOK
            <4>2. frame \in Frame
                BY <4>1, FrameTypes
            <4> QED
                BY <4>2 DEF ResultFrame
        <3>2. frames' = Append(frames, frame) /\ pc = "reading" /\ pc' = "closed"
            BY <2>8 DEF Answer, AgentEnds, Close
        <3> HIDE DEF frame
        <3>3. PLog' = Append(PLog, "result")
            BY <2>0, <3>1, <3>2, LogGrows
        <3> QED
            BY <3>2, <3>3 DEF PLog, Protocol!Conclude
    <2>9. ASSUME NEW v \in Versions, Register(v) PROVE UNCHANGED Protocol!pvars
        BY <2>9 DEF Register
    <2> QED
        BY <2>1, <2>2, <2>3, <2>4, <2>5, <2>6, <2>7, <2>8, <2>9 DEF Next, Serve, Finished
<1> QED
    BY <1>1, <1>2, Invariance, PTL DEF Spec, ImplementsProtocol, Protocol!Spec

----------------------------------------------------------------------------
(***************************************************************************)
(* The work runs out.  Fairness is out of the provers' reach, but not what *)
(* it acts on: every step of a session uses up some of a finite amount of  *)
(* work, however often the registry changes meanwhile.                     *)
(***************************************************************************)

\* What changes when a session takes a step of its own.
session == <<pc, prompted, accumulated, frames, reply>>

\* The steps a session may still take: the deltas to come and its end.
Work ==
    IF pc = "new" THEN MaxDeltas + 3
    ELSE IF pc = "open" THEN MaxDeltas + 2
    ELSE IF pc = "reading" THEN MaxDeltas + 1 - Len(accumulated)
    ELSE 0

\* The deltas stay within their bound.
DeltasFit == Len(accumulated) <= MaxDeltas

\* The bound on the deltas is kept by every step.
LEMMA DeltasInvariance == IInv /\ DeltasFit /\ [Next]_vars => DeltasFit'
<1> SUFFICES ASSUME IInv, DeltasFit, [Next]_vars PROVE DeltasFit'
    OBVIOUS
<1>1. accumulated \in Seq(1 .. MaxDeltas) /\ MaxDeltas \in Nat
    BY StreamAssumption DEF IInv, TypeOK
<1>2. CASE Delta
    <2>1. Len(accumulated') = Len(accumulated) + 1
        BY <1>1, <1>2 DEF Delta
    <2> QED
        BY <1>1, <1>2, <2>1 DEF Delta, DeltasFit
<1>3. CASE ~Delta
    <2>1. accumulated' = accumulated
        BY <1>3 DEF Next, Serve, Preflight, StartStream, AgentRaises, Fail, CoercionTears,
               Answer, AgentEnds, Disconnect, Finished, Register, vars
    <2> QED
        BY <2>1 DEF DeltasFit
<1> QED
    BY <1>2, <1>3

\* A step that is the session's own uses up some of the work.
LEMMA StepUsesWork == IInv /\ DeltasFit /\ [Next]_vars => [Work' < Work]_session
<1> SUFFICES ASSUME IInv, DeltasFit, [Next]_vars, session' # session PROVE Work' < Work
    OBVIOUS
<1>1. /\ accumulated \in Seq(1 .. MaxDeltas) /\ MaxDeltas \in Nat
      /\ Len(accumulated) \in Nat /\ Len(accumulated) <= MaxDeltas
    BY StreamAssumption DEF IInv, TypeOK, DeltasFit
<1>2. ASSUME pc \in {"new", "open", "reading"},
             pc' \in {"rejected", "closed", "torn", "gone"}
      PROVE  Work' < Work
    <2>1. Work' = 0
        BY <1>2 DEF Work
    <2>2. Work \in Nat /\ Work > 0
        BY <1>1, <1>2 DEF Work
    <2> QED
        BY <2>1, <2>2
<1>3. CASE Preflight
    <2>1. pc = "new" /\ pc' \in {"open", "rejected"}
        BY <1>3 DEF Preflight
    <2> QED
        BY <1>1, <1>2, <2>1 DEF Work
<1>4. CASE StartStream
    <2>1. pc = "open" /\ pc' \in {"reading", "torn"} /\ accumulated' = accumulated
        BY <1>4 DEF StartStream
    <2> QED
        BY <1>1, <1>2, <2>1 DEF Work
<1>5. CASE Delta
    <2>1. /\ pc = "reading" /\ pc' = "reading"
          /\ Len(accumulated') = Len(accumulated) + 1
        BY <1>1, <1>5 DEF Delta
    <2> QED
        BY <1>1, <2>1 DEF Work
<1>6. CASE AgentRaises \/ Disconnect
    BY <1>2, <1>6 DEF AgentRaises, Disconnect
<1>7. ASSUME NEW r \in Replies, Fail(r) \/ CoercionTears(r) \/ Answer(r)
      PROVE  Work' < Work
    BY <1>2, <1>7 DEF Fail, CoercionTears, Answer, AgentEnds, Close
<1>8. CASE Finished \/ UNCHANGED vars
    BY <1>8 DEF Finished, vars, session
<1>9. ASSUME NEW v \in Versions, Register(v) PROVE Work' < Work
    BY <1>9 DEF Register, session
<1> QED
    BY <1>3, <1>4, <1>5, <1>6, <1>7, <1>8, <1>9 DEF Next, Serve

\* A session is over after MaxDeltas + 3 steps of its own, at most, whatever is
\* registered meanwhile.
THEOREM WorkRunsOut == Spec => [](Work \in 0 .. MaxDeltas + 3) /\ [][Work' < Work]_session
<1>1. Init => DeltasFit
    BY StreamAssumption DEF Init, DeltasFit
<1>2. IInv /\ DeltasFit => Work \in 0 .. MaxDeltas + 3
    <2> SUFFICES ASSUME IInv, DeltasFit PROVE Work \in 0 .. MaxDeltas + 3
        OBVIOUS
    <2>1. Len(accumulated) \in 0 .. MaxDeltas /\ MaxDeltas \in Nat
        BY StreamAssumption DEF IInv, TypeOK, DeltasFit
    <2> QED
        BY <2>1 DEF Work
<1> QED
    BY <1>1, <1>2, DeltasInvariance, StepUsesWork, Invariance, PTL DEF Spec
=============================================================================
