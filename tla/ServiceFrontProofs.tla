------------------------- MODULE ServiceFrontProofs -------------------------
(***************************************************************************)
(* Proofs about ServiceFront, for every set of requests and clients, every *)
(* mix of traffic, authentication mode, limit, and number of threads and   *)
(* of minutes.                                                             *)
(***************************************************************************)
EXTENDS ServiceFront, FiniteSetTheorems, TLAPS

\* What the assumption says of the profile of a request.
LEMMA ProfileType ==
    ASSUME profile \in Traffic, NEW r \in Requests
    PROVE  profile[r] \in Profile /\ Key(r) \in Clients \X Routes
                /\ Key(r)[2] = profile[r].route
    BY FrontAssumption DEF Profile, Key

Outcomes == {"result", "KeyError", "UnsupportedDocumentError", "PdfReadError",
             "ExtractionError", "BedrockError", "ValueError"}

\* A request ends from one of the two stages on its thread, in an outcome: a
\* document is refused and a schema unknown before the first call only.
LEMMA EndCases ==
    ASSUME NEW r \in Requests,
           EndEarly(r) \/ EndLate(r)
    PROVE  \E o \in Outcomes :
              /\ End(r, o)
              /\ stage[r] \in {"opening", "calling"}
              /\ stage[r] = "calling" => o \notin {"KeyError", "UnsupportedDocumentError"}
    BY DEF EndEarly, EndLate, Outcomes

\* The HTTP statuses of the routes, and which outcomes are a client's mistake.
LEMMA HttpStatusFacts ==
    ASSUME NEW route, NEW o \in Outcomes
    PROVE  /\ HttpStatus(route, o) \in {200, 404, 422, 500, 502}
           /\ HttpStatus(route, o) \in {404, 422} =>
                 o \in {"KeyError", "UnsupportedDocumentError"}
    BY DEF HttpStatus, Outcomes

----------------------------------------------------------------------------
(***************************************************************************)
(* Every variable keeps its type, whatever a request does.                 *)
(***************************************************************************)
Stages == {"sent", "tagged", "routed", "reading", "queued", "opening", "calling",
           "streaming", "answered"}

Statuses == {0, 200, 401, 404, 422, 429, 500, 502}

Kinds == {"task", "artifact", "completed", "failed"}

Ids == Requests \cup {NoId}

Contexts == [Requests -> [Places -> Ids]]

Records == Places \X Ids

\* The type invariant over the sets above.
LEMMA Types ==
    TypeOK <=> /\ profile \in Traffic
               /\ stage \in [Requests -> Stages]
               /\ window \in 1 .. MaxWindows
               /\ hits \in [Clients \X Routes -> 0 .. Limit]
               /\ admitted \in [Requests -> 0 .. MaxWindows]
               /\ queue \in Seq(Requests)
               /\ called \in [Requests -> BOOLEAN]
               /\ outcome \in [Requests -> Outcomes \cup {"none"}]
               /\ status \in [Requests -> Statuses]
               /\ events \in [Requests -> Seq(Kinds)]
               /\ context \in Contexts
               /\ echoed \in [Requests -> Ids]
               /\ logged \in [Requests -> SUBSET Records]
<1>1. Outcomes \cup {"none"} =
          {"none", "result", "KeyError", "UnsupportedDocumentError",
           "PdfReadError", "ExtractionError", "BedrockError", "ValueError"}
    BY DEF Outcomes
<1> QED
    BY ONLY <1>1 DEF TypeOK, Stages, Statuses, Kinds, Ids, Contexts, Records

\* The id of a context may change in one place.
LEMMA ContextTypes ==
    ASSUME context \in Contexts, NEW r \in Requests, Handle(r)
    PROVE  context' \in Contexts
<1>1. ASSUME NEW place \in Places, NEW id \in Ids,
             context' = [context EXCEPT ![r][place] = id]
      PROVE  context' \in Contexts
    <2>1. [context[r] EXCEPT ![place] = id] \in [Places -> Ids]
        BY DEF Contexts
    <2> QED
        BY <1>1, <2>1 DEF Contexts
<1>2. CASE Correlate(r)
    <2>1. context' = [context EXCEPT ![r] = [@ EXCEPT !["connection"] = r, !["app"] = r]]
        BY <1>2 DEF Correlate
    <2>2. [context[r] EXCEPT !["connection"] = r, !["app"] = r] \in [Places -> Ids]
        BY DEF Contexts, Ids, Places
    <2> QED
        BY <2>1, <2>2 DEF Contexts
<1>3. CASE context' = [context EXCEPT ![r]["connection"] = NoId]
    BY <1>1, <1>3 DEF Places, Ids
<1>4. CASE context' = [context EXCEPT ![r]["thread"] = context[r]["app"]]
    <2>1. context[r]["app"] \in Ids /\ "thread" \in Places
        BY DEF Contexts, Places
    <2> QED
        BY <1>1, <1>4, <2>1
<1>5. CASE UNCHANGED context
    BY <1>5
<1>6. \A o : End(r, o) => context' = [context EXCEPT ![r]["connection"] = NoId]
    BY DEF End, Answer, AnswerUnhandled, Respond
<1> QED
    BY <1>2, <1>3, <1>4, <1>5, <1>6
    DEF Handle, Unauthorized, KeyLookupRaises, Dispatch, AnswerReadOnly, RejectBody,
        RejectOverLimit, Admit, ReadFile, PreflightFails, OpenStream, EndStream, Start, Call,
        EndEarly, EndLate, Answer, AnswerUnhandled, Respond, ToThread, traces

\* Events are appended to a task.
LEMMA EventTypes ==
    ASSUME events \in [Requests -> Seq(Kinds)], NEW r \in Requests, Handle(r)
    PROVE  events' \in [Requests -> Seq(Kinds)]
<1>1. <<>> \in Seq(Kinds) /\ <<"task">> \in Seq(Kinds) /\ <<"failed">> \in Seq(Kinds)
          /\ <<"artifact", "completed">> \in Seq(Kinds)
    BY DEF Kinds
<1> HIDE DEF Kinds
<1>2. Announced(profile[r]) \in Seq(Kinds)
    BY <1>1 DEF Announced
<1>3. Announced(profile[r]) \o <<"failed">> \in Seq(Kinds)
    BY <1>1, <1>2
<1>4. ASSUME NEW o, End(r, o) PROVE events' \in [Requests -> Seq(Kinds)]
    <2>1. events[r] \in Seq(Kinds) /\ TaskEvents(o) \in Seq(Kinds)
        BY <1>1 DEF TaskEvents
    <2>2. events[r] \o TaskEvents(o) \in Seq(Kinds)
        BY <2>1
    <2> QED
        BY <1>4, <2>2 DEF End
<1>5. CASE RejectBody(r)
    BY <1>3, <1>5 DEF RejectBody
<1>6. CASE Admit(r)
    BY <1>2, <1>6 DEF Admit
<1>7. CASE UNCHANGED events
    BY <1>7
<1> QED
    BY <1>4, <1>5, <1>6, <1>7
    DEF Handle, Correlate, Unauthorized, KeyLookupRaises, Dispatch, AnswerReadOnly,
        RejectOverLimit, ReadFile, PreflightFails, OpenStream, EndStream, Start, Call,
        EndEarly, EndLate

\* Requests join the queue of the thread pool at its end and leave it from its
\* head.
LEMMA QueueTypes ==
    ASSUME queue \in Seq(Requests), NEW r \in Requests, Handle(r)
    PROVE  queue' \in Seq(Requests)
<1>1. CASE Start(r)
    BY <1>1 DEF Start
<1>2. CASE queue' = Append(queue, r)
    BY <1>2
<1>3. CASE UNCHANGED queue
    BY <1>3
<1>4. \A o : End(r, o) => UNCHANGED queue
    BY DEF End
<1> QED
    BY <1>1, <1>2, <1>3, <1>4
    DEF Handle, Correlate, Unauthorized, KeyLookupRaises, Dispatch, AnswerReadOnly,
        RejectBody, RejectOverLimit, Admit, ReadFile, PreflightFails, OpenStream, EndStream,
        Call, EndEarly, EndLate, ToThread, progress

\* The response of a request: its stage, status and id.
LEMMA ResponseTypes ==
    ASSUME stage \in [Requests -> Stages], status \in [Requests -> Statuses],
           echoed \in [Requests -> Ids], NEW r \in Requests, Handle(r)
    PROVE  /\ stage' \in [Requests -> Stages]
           /\ status' \in [Requests -> Statuses]
           /\ echoed' \in [Requests -> Ids]
<1>1. r \in Ids /\ {0, 200, 401, 404, 422, 429, 500, 502} \subseteq Statuses
    BY DEF Ids, Statuses
<1>2. {"tagged", "routed", "reading", "queued", "opening", "calling", "streaming",
       "answered"} \subseteq Stages
    BY DEF Stages
<1> HIDE DEF Ids, Statuses, Stages
<1>3. ASSUME NEW o \in Outcomes, End(r, o)
      PROVE  /\ stage' \in [Requests -> Stages]
             /\ status' \in [Requests -> Statuses]
             /\ echoed' \in [Requests -> Ids]
    <2>1. HttpStatus(profile[r].route, o) \in Statuses
        BY <1>1, HttpStatusFacts
    <2> QED
        BY <1>1, <1>2, <1>3, <2>1 DEF End, Answer, AnswerUnhandled, Respond
<1>4. ASSUME NEW code \in Statuses, NEW ps, Answer(r, code, ps)
      PROVE  /\ stage' \in [Requests -> Stages]
             /\ status' \in [Requests -> Statuses]
             /\ echoed' \in [Requests -> Ids]
    BY <1>1, <1>2, <1>4 DEF Answer, Respond
<1>5. CASE RejectBody(r)
    BY <1>1, <1>4, <1>5 DEF RejectBody
<1>6. CASE Unauthorized(r) \/ AnswerReadOnly(r) \/ RejectOverLimit(r) \/ PreflightFails(r)
    BY <1>1, <1>4, <1>6 DEF Unauthorized, AnswerReadOnly, RejectOverLimit, PreflightFails
<1>7. CASE KeyLookupRaises(r)
    BY <1>1, <1>2, <1>7 DEF KeyLookupRaises, AnswerUnhandled
<1>8. CASE Correlate(r) \/ Dispatch(r) \/ Admit(r) \/ ReadFile(r) \/ EndStream(r)
           \/ Start(r) \/ Call(r)
    BY <1>2, <1>8 DEF Correlate, Dispatch, Admit, ReadFile, EndStream, Start, Call, ToThread,
       traces
<1>9. CASE OpenStream(r)
    BY <1>1, <1>2, <1>9 DEF OpenStream, Respond
<1>10. CASE EndEarly(r) \/ EndLate(r)
    BY <1>3, <1>10, EndCases
<1> QED
    BY <1>5, <1>6, <1>7, <1>8, <1>9, <1>10 DEF Handle

\* What is observed of a request.
LEMMA ObservedTypes ==
    ASSUME called \in [Requests -> BOOLEAN], outcome \in [Requests -> Outcomes \cup {"none"}],
           logged \in [Requests -> SUBSET Records], context \in Contexts,
           NEW r \in Requests, Handle(r)
    PROVE  /\ called' \in [Requests -> BOOLEAN]
           /\ outcome' \in [Requests -> Outcomes \cup {"none"}]
           /\ logged' \in [Requests -> SUBSET Records]
<1>1. \A place \in Places : <<place, context'[r][place]>> \in Records
    BY ContextTypes DEF Contexts, Records
<1>2. {"result", "KeyError", "ExtractionError", "BedrockError", "ValueError"}
          \subseteq Outcomes
    BY DEF Outcomes
<1>p. {"connection", "app", "thread"} \subseteq Places
    BY DEF Places
<1> HIDE DEF Ids, Outcomes, Places, Records
<1>3. ASSUME NEW ps \in SUBSET Places, Log(r, ps)
      PROVE  logged' \in [Requests -> SUBSET Records]
    <2>1. {<<p, context'[r][p]>> : p \in ps} \subseteq Records
        BY <1>1
    <2> DEFINE new == {<<p, context'[r][p]>> : p \in ps}
    <2>2. logged' = [logged EXCEPT ![r] = @ \cup new]
        BY <1>3 DEF Log
    <2> HIDE DEF new
    <2> QED
        BY <2>1, <2>2 DEF new
<1>4. ASSUME NEW code, NEW ps \in SUBSET {"app"}, Answer(r, code, ps) \/ Respond(r, code, ps)
      PROVE  logged' \in [Requests -> SUBSET Records]
    <2>1. ps \cup {"connection"} \in SUBSET Places
        BY <1>p
    <2> QED
        BY <1>3, <1>4, <2>1 DEF Answer, Respond
<1>n. ASSUME AnswerUnhandled(r) PROVE logged' \in [Requests -> SUBSET Records]
    BY <1>3, <1>n, <1>p DEF AnswerUnhandled
<1>5. ASSUME NEW o \in Outcomes, End(r, o)
      PROVE  /\ UNCHANGED called
             /\ outcome' \in [Requests -> Outcomes \cup {"none"}]
             /\ logged' \in [Requests -> SUBSET Records]
    BY <1>4, <1>5, <1>n DEF End, EndRecords
<1>6. CASE EndEarly(r) \/ EndLate(r)
    BY <1>5, <1>6, EndCases
<1>7. CASE Unauthorized(r)
    BY <1>4, <1>7 DEF Unauthorized, progress
<1>8. CASE KeyLookupRaises(r)
    BY <1>n, <1>8 DEF KeyLookupRaises, progress
<1>9. CASE PreflightFails(r) \/ OpenStream(r)
    <2>1. {} \in SUBSET {"app"}
        OBVIOUS
    <2>2. logged' \in [Requests -> SUBSET Records]
        BY <1>4, <1>9, <2>1 DEF PreflightFails, OpenStream
    <2> QED
        BY <1>2, <1>9, <2>2 DEF PreflightFails, OpenStream
<1>10. CASE EndStream(r)
    BY <1>2, <1>3, <1>10, <1>p DEF EndStream, StreamRecords
<1>11. CASE Call(r)
    BY <1>3, <1>11, <1>p DEF Call
<1>12. CASE Correlate(r) \/ Dispatch(r) \/ Admit(r) \/ ReadFile(r) \/ Start(r)
    BY <1>12 DEF Correlate, Dispatch, Admit, ReadFile, Start, progress, traces
<1>13. CASE AnswerReadOnly(r) \/ RejectBody(r) \/ RejectOverLimit(r)
    BY <1>4, <1>13 DEF AnswerReadOnly, RejectBody, RejectOverLimit, progress
<1> QED
    BY <1>6, <1>7, <1>8, <1>9, <1>10, <1>11, <1>12, <1>13 DEF Handle

\* Only Admit touches the limiter, and nothing the traffic.
LEMMA LimitsSteps ==
    ASSUME NEW r \in Requests, Handle(r)
    PROVE  UNCHANGED <<profile, window>> /\ (Admit(r) \/ UNCHANGED <<hits, admitted>>)
<1>1. ASSUME NEW o, End(r, o) PROVE UNCHANGED <<profile, window, hits, admitted>>
    BY <1>1 DEF End, limits
<1> QED
    BY <1>1 DEF Handle, Correlate, Unauthorized, KeyLookupRaises, Dispatch, AnswerReadOnly,
        RejectBody, RejectOverLimit, Admit, ReadFile, PreflightFails, OpenStream, EndStream,
        Start, Call, EndEarly, EndLate, limits

\* Every step keeps the types.
LEMMA TypeInvariance == TypeOK /\ [Next]_vars => TypeOK'
<1> SUFFICES ASSUME TypeOK, [Next]_vars PROVE TypeOK'
    OBVIOUS
<1>1. CASE UNCHANGED vars
    BY <1>1 DEF vars, TypeOK
<1>2. CASE NextWindow
    <2>1. hits' \in [Clients \X Routes -> 0 .. Limit] /\ window' \in 1 .. MaxWindows
        BY <1>2, FrontAssumption DEF NextWindow, TypeOK
    <2> QED
        BY <1>2, <2>1 DEF NextWindow, TypeOK, progress, traces
<1>3. ASSUME NEW r \in Requests, Handle(r) PROVE TypeOK'
    <2>1. /\ profile' \in Traffic
          /\ window' \in 1 .. MaxWindows
        BY <1>3, LimitsSteps DEF TypeOK
    <2>2. hits' \in [Clients \X Routes -> 0 .. Limit] /\ admitted' \in [Requests -> 0 .. MaxWindows]
        <3>1. CASE Admit(r)
            <4>1. Key(r) \in Clients \X Routes /\ Limit \in Nat
                BY ProfileType, FrontAssumption DEF TypeOK
            <4>2. hits[Key(r)] \in 0 .. Limit /\ window \in 0 .. MaxWindows
                BY <4>1, FrontAssumption DEF TypeOK
            <4>3. Metered(profile[r]) => hits[Key(r)] + 1 \in 0 .. Limit
                BY <3>1, <4>1, <4>2 DEF Admit, WithinLimit
            <4>4. /\ hits \in [Clients \X Routes -> 0 .. Limit]
                  /\ admitted \in [Requests -> 0 .. MaxWindows]
                BY DEF TypeOK
            <4>5. hits' = [hits EXCEPT ![Key(r)] = @ + 1] \/ UNCHANGED hits
                BY <3>1 DEF Admit, Count
            <4>6. Metered(profile[r]) \/ UNCHANGED hits
                BY <3>1 DEF Admit, Count
            <4>7. hits' \in [Clients \X Routes -> 0 .. Limit]
                BY <4>1, <4>3, <4>4, <4>5, <4>6
            <4>8. admitted' = [admitted EXCEPT ![r] = window]
                BY <3>1 DEF Admit
            <4> QED
                BY <4>2, <4>4, <4>7, <4>8
        <3> QED
            BY <1>3, <3>1, LimitsSteps DEF TypeOK
    <2>3. queue' \in Seq(Requests) /\ events' \in [Requests -> Seq(Kinds)] /\ context' \in Contexts
        BY <1>3, QueueTypes, EventTypes, ContextTypes, Types
    <2>4. /\ stage' \in [Requests -> Stages] /\ status' \in [Requests -> Statuses]
          /\ echoed' \in [Requests -> Ids]
        BY <1>3, ResponseTypes, Types
    <2>5. /\ called' \in [Requests -> BOOLEAN]
          /\ outcome' \in [Requests -> Outcomes \cup {"none"}]
          /\ logged' \in [Requests -> SUBSET Records]
        BY <1>3, ObservedTypes, Types
    <2>6. (TypeOK <=> /\ profile \in Traffic
                      /\ stage \in [Requests -> Stages]
                      /\ window \in 1 .. MaxWindows
                      /\ hits \in [Clients \X Routes -> 0 .. Limit]
                      /\ admitted \in [Requests -> 0 .. MaxWindows]
                      /\ queue \in Seq(Requests)
                      /\ called \in [Requests -> BOOLEAN]
                      /\ outcome \in [Requests -> Outcomes \cup {"none"}]
                      /\ status \in [Requests -> Statuses]
                      /\ events \in [Requests -> Seq(Kinds)]
                      /\ context \in Contexts
                      /\ echoed \in [Requests -> Ids]
                      /\ logged \in [Requests -> SUBSET Records])'
        BY Types, PTL
    <2> QED
        BY <2>1, <2>2, <2>3, <2>4, <2>5, <2>6 DEF Contexts
<1> QED
    BY <1>1, <1>2, <1>3 DEF Next, Finished

----------------------------------------------------------------------------
(***************************************************************************)
(* The inductive invariant, request by request.                            *)
(***************************************************************************)
Open    == {"sent", "tagged", "routed", "reading", "queued", "opening", "calling"}
Before  == {"sent", "tagged", "routed"}
Uncalled == {"sent", "tagged", "routed", "reading", "queued", "opening"}

\* A context has the id of its request from Correlate on, but for the
\* connection's, which is cleared before anything is logged in it.
Traced(r) ==
    /\ stage[r] \notin {"sent", "answered"} => context[r]["app"] = r
    /\ stage[r] \in {"queued", "opening", "calling"} => context[r]["thread"] = r
    /\ stage[r] = "streaming" => context[r]["connection"] = NoId

\* There is a status just when the response is sent, and the id goes with it.
Responded(r) ==
    /\ stage[r] \in Open => status[r] = 0
    /\ stage[r] = "streaming" => status[r] = 200
    /\ echoed[r] = (IF status[r] \in {0, 500} THEN NoId ELSE r)

\* The first call of Bedrock is behind every refusal.
Paid(r) ==
    /\ stage[r] \in Uncalled => ~called[r]
    /\ status[r] \in 400 .. 499 => ~called[r]

\* Whom the limiter lets through, and when it has not yet been asked.
Admitted(r) ==
    /\ stage[r] \in Before => admitted[r] = 0
    /\ stage[r] \notin {"sent", "tagged", "answered"} => Authorized(profile[r])
    /\ admitted[r] # 0 => /\ Authorized(profile[r]) /\ profile[r].body = "valid"
                          /\ status[r] # 429 /\ ~ReadOnly(profile[r])
    /\ admitted[r] <= window

\* TaskIsToldOnce of one request: e the events, p the profile, o the outcome.
ToldOf(e, p, o) ==
    /\ e # <<>> => p.route = "a2a" /\ (e[1] = "task" <=> p.newTask)
    /\ \A i \in DOMAIN e : e[i] \in {"completed", "failed"} => i = Len(e)
    /\ \A i \in DOMAIN e : e[i] = "artifact" => i + 1 = Len(e) /\ e[i + 1] = "completed"
    /\ e # <<>> => (Last(e) = "completed" <=> o = "result")

Telling(r) ==
    /\ profile[r].route # "a2a" => events[r] = <<>>
    /\ stage[r] \notin {"answered"} => outcome[r] = "none"
    /\ stage[r] \in Before => events[r] = <<>>
    /\ stage[r] = "streaming" => profile[r].route = "stream"
    /\ stage[r] \in {"queued", "opening", "calling"} => events[r] = Announced(profile[r])
    /\ ToldOf(events[r], profile[r], outcome[r])

RowInv(r) == Traced(r) /\ Responded(r) /\ Paid(r) /\ Admitted(r) /\ Telling(r)

\* A request leaves what the others are made of alone.
SameRow(q) ==
    /\ profile' = profile
    /\ stage'[q] = stage[q] /\ admitted'[q] = admitted[q] /\ called'[q] = called[q]
    /\ outcome'[q] = outcome[q] /\ status'[q] = status[q] /\ events'[q] = events[q]
    /\ context'[q] = context[q] /\ echoed'[q] = echoed[q]

\* A step of one request keeps the rows of all others.
LEMMA OthersSame ==
    ASSUME NEW r \in Requests, Handle(r), NEW q \in Requests, q # r, TypeOK
    PROVE  SameRow(q)
<1>1. /\ stage \in [Requests -> Stages]
      /\ admitted \in [Requests -> 0 .. MaxWindows]
      /\ called \in [Requests -> BOOLEAN]
      /\ outcome \in [Requests -> Outcomes \cup {"none"}]
      /\ status \in [Requests -> Statuses]
      /\ events \in [Requests -> Seq(Kinds)]
      /\ context \in [Requests -> [Places -> Ids]]
      /\ echoed \in [Requests -> Ids]
    BY Types DEF Contexts
<1> HIDE DEF Stages, Statuses, Kinds, Ids, Outcomes, Places
<1>2. ASSUME NEW o, End(r, o) PROVE SameRow(q)
    BY <1>1, <1>2 DEF End, Answer, AnswerUnhandled, Respond, SameRow, limits
<1>3. CASE Correlate(r) \/ Dispatch(r) \/ Start(r) \/ Call(r)
    BY <1>1, <1>3
    DEF Correlate, Dispatch, Start, Call, SameRow, limits, progress, traces
<1>4. CASE Unauthorized(r)
    BY <1>1, <1>4 DEF Unauthorized, Answer, Respond, SameRow, limits, progress
<1>5. CASE KeyLookupRaises(r)
    BY <1>1, <1>5 DEF KeyLookupRaises, AnswerUnhandled, SameRow, limits, progress
<1>6. CASE AnswerReadOnly(r) \/ RejectBody(r) \/ RejectOverLimit(r)
    BY <1>1, <1>6 DEF AnswerReadOnly, RejectBody, RejectOverLimit, Answer, Respond, SameRow,
       limits, progress
<1>7. CASE Admit(r)
    BY <1>1, <1>7 DEF Admit, ToThread, SameRow
<1>8. CASE ReadFile(r)
    BY <1>1, <1>8 DEF ReadFile, ToThread, SameRow, limits
<1>9. CASE PreflightFails(r) \/ OpenStream(r) \/ EndStream(r)
    BY <1>1, <1>9
    DEF PreflightFails, OpenStream, EndStream, Answer, Respond, SameRow, limits
<1> QED
    BY <1>2, <1>3, <1>4, <1>5, <1>6, <1>7, <1>8, <1>9 DEF Handle, EndEarly, EndLate

\* The stories a task can be told.
LEMMA Stories ==
    ASSUME NEW p, p.route = "a2a", p.newTask \in BOOLEAN, NEW o, o # "result"
    PROVE  /\ ToldOf(Announced(p), p, o)
           /\ ToldOf(Announced(p) \o <<"failed">>, p, o)
           /\ ToldOf(Announced(p) \o <<"artifact", "completed">>, p, "result")
<1>1. ToldOf(<<>>, p, o)
    BY DEF ToldOf
<1>2. CASE p.newTask
    <2>1. Announced(p) = <<"task">>
        BY <1>2 DEF Announced
    <2>2. <<"task">> \in Seq(Kinds) /\ <<"failed">> \in Seq(Kinds)
              /\ <<"artifact", "completed">> \in Seq(Kinds)
        BY DEF Kinds
    <2>3. ToldOf(<<"task">>, p, o)
        BY <1>2 DEF ToldOf, Last
    <2>4. ToldOf(<<"task">> \o <<"failed">>, p, o)
        <3> DEFINE e == <<"task">> \o <<"failed">>
        <3>1. e \in Seq(Kinds) /\ Len(e) = 2 /\ e[1] = "task" /\ e[2] = "failed"
            BY <2>2
        <3>2. DOMAIN e = 1 .. 2 /\ e # <<>> /\ Last(e) = "failed"
            BY <3>1 DEF Last
        <3> HIDE DEF e
        <3>3. ToldOf(e, p, o)
            BY <1>2, <3>1, <3>2 DEF ToldOf
        <3> QED
            BY <3>3 DEF e
    <2>5. ToldOf(<<"task">> \o <<"artifact", "completed">>, p, "result")
        <3> DEFINE e == <<"task">> \o <<"artifact", "completed">>
        <3>1. /\ e \in Seq(Kinds) /\ Len(e) = 3
              /\ e[1] = "task" /\ e[2] = "artifact" /\ e[3] = "completed"
            BY <2>2
        <3>2. DOMAIN e = 1 .. 3 /\ e # <<>> /\ Last(e) = "completed"
            BY <3>1 DEF Last
        <3> HIDE DEF e
        <3>3. ToldOf(e, p, "result")
            BY <1>2, <3>1, <3>2 DEF ToldOf
        <3> QED
            BY <3>3 DEF e
    <2> QED
        BY <2>1, <2>3, <2>4, <2>5
<1>3. CASE ~p.newTask
    <2>1. Announced(p) = <<>>
        BY <1>3 DEF Announced
    <2>2. <<>> \o <<"failed">> = <<"failed">>
        OBVIOUS
    <2>3. <<>> \o <<"artifact", "completed">> = <<"artifact", "completed">>
        OBVIOUS
    <2>4. ToldOf(<<"failed">>, p, o)
        BY <1>3 DEF ToldOf, Last
    <2>5. ToldOf(<<"artifact", "completed">>, p, "result")
        BY <1>3 DEF ToldOf, Last
    <2> QED
        BY <1>1, <2>1, <2>2, <2>3, <2>4, <2>5
<1> QED
    BY <1>2, <1>3

\* A task of which nothing is told is told nothing wrong.
LEMMA NoStory == \A p, o : ToldOf(<<>>, p, o)
    BY DEF ToldOf

\* The stages before the answer that a request that ends its extraction leaves.
LEMMA EndRow ==
    ASSUME TypeOK, NEW r \in Requests, RowInv(r), NEW o \in Outcomes, End(r, o),
           stage[r] \in {"opening", "calling"},
           stage[r] = "calling" => o \notin {"KeyError", "UnsupportedDocumentError"}
    PROVE  RowInv(r)'
<1>1. /\ stage \in [Requests -> Stages] /\ outcome \in [Requests -> Outcomes \cup {"none"}]
      /\ status \in [Requests -> Statuses] /\ events \in [Requests -> Seq(Kinds)]
      /\ context \in [Requests -> [Places -> Ids]] /\ echoed \in [Requests -> Ids]
      /\ profile[r] \in Profile
    BY Types, ProfileType DEF Contexts
<1> HIDE DEF Stages, Statuses, Kinds, Ids
<1>2. /\ stage'[r] = "answered" /\ outcome'[r] = o /\ profile' = profile
      /\ called'[r] = called[r] /\ admitted'[r] = admitted[r] /\ window' = window
    BY <1>1 DEF End, Answer, AnswerUnhandled, limits
<1>3. r # NoId /\ context[r]["app"] = r /\ status[r] = 0 /\ echoed[r] = NoId
    BY FrontAssumption DEF RowInv, Traced, Responded, Open
<1> DEFINE code == IF profile[r].route = "a2a" THEN 200 ELSE HttpStatus(profile[r].route, o)
<1>4. /\ status'[r] = code
      /\ echoed'[r] = IF code = 500 THEN NoId ELSE r
    <2>1. CASE profile[r].route = "a2a"
        BY <1>1, <1>3, <2>1 DEF End, Answer, Respond
    <2>2. CASE profile[r].route # "a2a" /\ code = 500
        BY <1>1, <1>3, <2>2 DEF End, AnswerUnhandled
    <2>3. CASE profile[r].route # "a2a" /\ code # 500
        BY <1>1, <1>3, <2>3 DEF End, Answer, Respond
    <2> QED
        BY <2>1, <2>2, <2>3
<1>5. /\ code \in {200, 404, 422, 500, 502}
      /\ code \in {404, 422} => o \in {"KeyError", "UnsupportedDocumentError"}
    BY HttpStatusFacts
<1> HIDE DEF code
<1>7. Traced(r)'
    BY <1>2 DEF Traced
<1>8. Responded(r)'
    BY <1>2, <1>4, <1>5 DEF Responded, Open
<1>9. Paid(r)'
    <2>1. code \in 400 .. 499 => ~called[r]
        BY <1>5 DEF RowInv, Paid, Uncalled
    <2> QED
        BY <1>2, <1>4, <2>1 DEF Paid, Uncalled
<1>10. Admitted(r)'
    BY <1>2, <1>4, <1>5 DEF RowInv, Admitted, Before, Authorized, ReadOnly, ApiKeyOk, JwtOk,
       Excluded
<1>11. Telling(r)'
    <2>1. CASE profile[r].route # "a2a"
        <3>1. events'[r] = <<>>
            BY <1>1, <2>1 DEF End, RowInv, Telling
        <3> QED
            BY <1>2, <2>1, <3>1, NoStory DEF Telling, Before
    <2>2. CASE profile[r].route = "a2a"
        <3>1. events[r] = Announced(profile[r])
            BY DEF RowInv, Telling
        <3>2. events'[r] = Announced(profile[r]) \o TaskEvents(o)
            BY <1>1, <2>2, <3>1 DEF End
        <3>3. Announced(profile[r]) \o <<>> = Announced(profile[r])
            BY DEF Announced
        <3>4. profile[r].newTask \in BOOLEAN
            BY <1>1 DEF Profile
        <3>5. ToldOf(Announced(profile[r]) \o TaskEvents(o), profile[r], o)
            <4>1. CASE o = "result"
                BY <2>2, <3>4, <4>1, Stories DEF TaskEvents
            <4>2. CASE o \in {"KeyError", "ExtractionError"}
                BY <2>2, <3>4, <4>2, Stories DEF TaskEvents
            <4>3. CASE o \notin {"result", "KeyError", "ExtractionError"}
                BY <2>2, <3>3, <3>4, <4>3, Stories DEF TaskEvents
            <4> QED
                BY <4>1, <4>2, <4>3
        <3> QED
            BY <1>2, <2>2, <3>2, <3>5 DEF Telling, Before
    <2> QED
        BY <2>1, <2>2
<1> QED
    BY <1>7, <1>8, <1>9, <1>10, <1>11 DEF RowInv

\* A request that is answered before its extraction, with no event told.
LEMMA AnswerRow ==
    ASSUME TypeOK, NEW r \in Requests, RowInv(r), NEW code \in Statuses,
           NEW ps, code \notin {0, 500}, Answer(r, code, ps),
           stage[r] \in {"tagged", "routed", "reading"}, profile' = profile, window' = window,
           called' = called, admitted' = admitted,
           code = 429 => admitted[r] = 0
    PROVE  Traced(r)' /\ Responded(r)' /\ Paid(r)' /\ Admitted(r)'
<1>1. /\ stage \in [Requests -> Stages] /\ status \in [Requests -> Statuses]
      /\ context \in [Requests -> [Places -> Ids]] /\ echoed \in [Requests -> Ids]
    BY Types DEF Contexts
<1> HIDE DEF Stages, Statuses, Ids
<1>2. /\ stage'[r] = "answered" /\ status'[r] = code /\ echoed'[r] = r
    BY <1>1 DEF Answer, Respond
<1>3. context[r]["app"] = r /\ status[r] = 0 /\ ~called[r]
    BY DEF RowInv, Traced, Responded, Paid, Open, Uncalled
<1>4. Traced(r)'
    BY <1>2 DEF Traced
<1>5. Responded(r)' /\ Paid(r)'
    BY <1>2, <1>3 DEF Responded, Paid, Open, Uncalled
<1>6. Admitted(r)'
    BY <1>2, <1>3 DEF RowInv, Admitted, Before, Authorized, ReadOnly, ApiKeyOk, JwtOk, Excluded
<1> QED
    BY <1>4, <1>5, <1>6

\* Every step of a request keeps its row.
LEMMA RowStep ==
    ASSUME TypeOK, NEW r \in Requests, RowInv(r), Handle(r), Start(r) => stage[r] = "queued"
    PROVE  RowInv(r)'
<1>1. /\ stage \in [Requests -> Stages] /\ outcome \in [Requests -> Outcomes \cup {"none"}]
      /\ status \in [Requests -> Statuses] /\ events \in [Requests -> Seq(Kinds)]
      /\ context \in [Requests -> [Places -> Ids]] /\ echoed \in [Requests -> Ids]
      /\ profile[r] \in Profile
      /\ called \in [Requests -> BOOLEAN] /\ admitted \in [Requests -> 0 .. MaxWindows]
      /\ window \in 1 .. MaxWindows /\ MaxWindows \in Nat
    BY Types, ProfileType, FrontAssumption DEF Contexts
<1>2. Traced(r) /\ Responded(r) /\ Paid(r) /\ Admitted(r) /\ Telling(r)
    BY DEF RowInv
<1>3. r # NoId /\ profile[r].newTask \in BOOLEAN
    BY <1>1, FrontAssumption DEF Profile
<1>4. {200, 401, 404, 422, 429} \subseteq Statuses
    BY DEF Statuses
<1> HIDE DEF Stages, Statuses, Kinds, Ids
<1> USE DEF Open, Before, Uncalled, limits, progress, traces
<1>5. CASE Correlate(r)
    <2>1. /\ stage[r] = "sent" /\ stage'[r] = "tagged" /\ context'[r]["app"] = r
          /\ UNCHANGED <<profile, window, admitted, called, outcome, status, events, echoed>>
        BY <1>1, <1>5 DEF Correlate, Places
    <2> QED
        BY <1>2, <2>1 DEF RowInv, Traced, Responded, Paid, Admitted, Telling, ReadOnly
<1>6. CASE Unauthorized(r)
    <2>1. /\ stage[r] = "tagged" /\ stage'[r] = "answered"
          /\ UNCHANGED <<profile, window, admitted, called, outcome, events>>
          /\ \E ps : Answer(r, 401, ps)
        BY <1>1, <1>6 DEF Unauthorized, Answer
    <2>2. Traced(r)' /\ Responded(r)' /\ Paid(r)' /\ Admitted(r)'
        BY <1>2, <1>4, <2>1, AnswerRow
    <2>3. Telling(r)'
        BY <1>2, <2>1 DEF Telling
    <2> QED
        BY <2>2, <2>3 DEF RowInv
<1>7. CASE KeyLookupRaises(r)
    <2>1. /\ stage[r] = "tagged" /\ stage'[r] = "answered" /\ status'[r] = 500
          /\ UNCHANGED <<profile, window, admitted, called, outcome, events, echoed>>
        BY <1>1, <1>7 DEF KeyLookupRaises, AnswerUnhandled
    <2> QED
        BY <1>2, <2>1 DEF RowInv, Traced, Responded, Paid, Admitted, Telling, ReadOnly
<1>8. CASE Dispatch(r)
    <2>1. /\ stage[r] = "tagged" /\ stage'[r] = "routed" /\ Authorized(profile[r])
          /\ UNCHANGED <<profile, window, admitted, called, outcome, status, events, context,
                         echoed>>
        BY <1>1, <1>8 DEF Dispatch
    <2> QED
        BY <1>2, <2>1 DEF RowInv, Traced, Responded, Paid, Admitted, Telling, ReadOnly
<1>9. CASE AnswerReadOnly(r) \/ RejectOverLimit(r)
    <2>1. /\ Answer(r, 200, {}) \/ Answer(r, 429, {})
          /\ stage[r] = "routed" /\ stage'[r] = "answered"
          /\ UNCHANGED <<profile, window, admitted, called, outcome, events>>
        BY <1>1, <1>9 DEF AnswerReadOnly, RejectOverLimit, Callable, Answer
    <2>0. stage[r] = "routed" /\ stage'[r] = "answered"
        BY <1>1, <1>9 DEF AnswerReadOnly, RejectOverLimit, Callable, Answer
    <2>2. admitted[r] = 0
        BY <1>2, <2>0 DEF Admitted
    <2>3. Traced(r)' /\ Responded(r)' /\ Paid(r)' /\ Admitted(r)'
        BY <1>2, <1>4, <2>0, <2>1, <2>2, AnswerRow
    <2>4. Telling(r)'
        BY <1>2, <2>0, <2>1 DEF Telling
    <2> QED
        BY <2>3, <2>4 DEF RowInv
<1>10. CASE RejectBody(r)
    <2>1. /\ stage[r] = "routed" /\ stage'[r] = "answered"
          /\ UNCHANGED <<profile, window, admitted, called, outcome>>
        BY <1>1, <1>10 DEF RejectBody, Answer
    <2>2. Answer(r, 200, {}) \/ Answer(r, 422, {})
        BY <1>10 DEF RejectBody
    <2>3. Traced(r)' /\ Responded(r)' /\ Paid(r)' /\ Admitted(r)'
        BY <1>2, <1>4, <2>1, <2>2, AnswerRow
    <2>4. CASE profile[r].route = "a2a"
        <3>1. events'[r] = Announced(profile[r]) \o <<"failed">> /\ outcome'[r] = "none"
            BY <1>1, <1>2, <1>10, <2>1, <2>4 DEF RejectBody, Telling
        <3>2. ToldOf(Announced(profile[r]) \o <<"failed">>, profile[r], "none")
            BY <1>3, <2>4, Stories
        <3>3. Telling(r)'
            BY <2>1, <2>4, <3>1, <3>2 DEF Telling
        <3> QED
            BY <2>3, <3>3 DEF RowInv
    <2>5. CASE profile[r].route # "a2a"
        <3>1. events' = events
            BY <1>10, <2>5 DEF RejectBody
        <3>2. Telling(r)'
            BY <1>2, <2>1, <3>1 DEF Telling
        <3> QED
            BY <2>3, <3>2 DEF RowInv
    <2> QED
        BY <2>4, <2>5
<1>11. CASE Admit(r)
    <2>1. /\ stage[r] = "routed" /\ stage'[r] \in {"reading", "queued"}
          /\ profile[r].body = "valid" /\ ~ReadOnly(profile[r])
          /\ admitted'[r] = window /\ events'[r] = Announced(profile[r])
          /\ UNCHANGED <<profile, window, called, outcome, status, echoed>>
        BY <1>1, <1>11 DEF Admit, ToThread, Callable
    <2>2. /\ context'[r]["app"] = r
          /\ stage'[r] = "queued" => context'[r]["thread"] = r
        BY <1>1, <1>2, <1>11, <2>1 DEF Admit, ToThread, Traced, Places
    <2>3. ToldOf(Announced(profile[r]), profile[r], "none")
        BY <1>3, Stories, NoStory DEF Announced
    <2>4. profile[r].route # "a2a" => Announced(profile[r]) = <<>>
        BY DEF Announced
    <2>5. Telling(r)'
        BY <1>2, <2>1, <2>3, <2>4 DEF Telling
    <2>6. Admitted(r)'
        BY <1>1, <1>2, <2>1 DEF Admitted, Responded, ReadOnly, Authorized, ApiKeyOk, JwtOk, Excluded
    <2> QED
        BY <1>2, <2>1, <2>2, <2>5, <2>6 DEF RowInv, Traced, Responded, Paid
<1>12. CASE ReadFile(r)
    <2>1. /\ stage[r] = "reading" /\ stage'[r] = "queued" /\ profile[r].route = "document"
          /\ UNCHANGED <<profile, window, admitted, called, outcome, status, events, echoed>>
        BY <1>1, <1>12 DEF ReadFile, ToThread
    <2>2. context'[r]["app"] = r /\ context'[r]["thread"] = r
        BY <1>1, <1>2, <1>12, <2>1 DEF ReadFile, ToThread, Traced, Places
    <2>3. Telling(r)'
        BY <1>2, <2>1 DEF Telling, Announced
    <2> QED
        BY <1>2, <2>1, <2>2, <2>3 DEF RowInv, Traced, Responded, Paid, Admitted, ReadOnly
<1>13. CASE PreflightFails(r)
    <2>1. /\ Answer(r, 404, {}) /\ stage[r] = "reading" /\ stage'[r] = "answered"
          /\ profile[r].route = "stream" /\ outcome'[r] = "KeyError"
          /\ UNCHANGED <<profile, window, admitted, called, events>>
        BY <1>1, <1>13 DEF PreflightFails, Answer
    <2>2. Traced(r)' /\ Responded(r)' /\ Paid(r)' /\ Admitted(r)'
        BY <1>2, <1>4, <2>1, AnswerRow
    <2>3. Telling(r)'
        BY <1>2, <2>1, NoStory DEF Telling
    <2> QED
        BY <2>2, <2>3 DEF RowInv
<1>14. CASE OpenStream(r)
    <2>1. /\ stage[r] = "reading" /\ stage'[r] = "streaming" /\ profile[r].route = "stream"
          /\ status'[r] = 200 /\ echoed'[r] = r
          /\ UNCHANGED <<profile, window, admitted, outcome, events>>
        BY <1>1, <1>14 DEF OpenStream, Respond
    <2>2. context'[r]["app"] = context[r]["app"] /\ context'[r]["connection"] = NoId
        BY <1>1, <1>14 DEF OpenStream, Respond, Places
    <2> QED
        BY <1>2, <2>1, <2>2
        DEF RowInv, Traced, Responded, Paid, Admitted, Telling, ReadOnly
<1>15. CASE EndStream(r)
    <2>1. /\ stage[r] = "streaming" /\ stage'[r] = "answered"
          /\ UNCHANGED <<profile, window, admitted, called, status, events, context, echoed>>
        BY <1>1, <1>15 DEF EndStream
    <2>2. Telling(r)'
        BY <1>2, <2>1, NoStory DEF Telling
    <2> QED
        BY <1>2, <2>1, <2>2 DEF RowInv, Traced, Responded, Paid, Admitted, ReadOnly
<1>16. CASE Start(r)
    <2>1. /\ stage[r] = "queued" /\ stage'[r] = "opening"
          /\ UNCHANGED <<profile, window, admitted, called, outcome, status, events, context,
                         echoed>>
        BY <1>1, <1>16 DEF Start
    <2> QED
        BY <1>2, <2>1 DEF RowInv, Traced, Responded, Paid, Admitted, Telling, ReadOnly
<1>17. CASE Call(r)
    <2>1. /\ stage[r] = "opening" /\ stage'[r] = "calling"
          /\ UNCHANGED <<profile, window, admitted, outcome, status, events, context, echoed>>
        BY <1>1, <1>17 DEF Call
    <2>2. Traced(r)' /\ Responded(r)'
        BY <1>2, <2>1 DEF Traced, Responded
    <2>3. Paid(r)'
        BY <1>2, <2>1 DEF Responded, Paid
    <2>4. Admitted(r)' /\ Telling(r)'
        BY <1>2, <2>1 DEF Admitted, Telling, ReadOnly, Authorized, ApiKeyOk, JwtOk, Excluded
    <2> QED
        BY <2>2, <2>3, <2>4 DEF RowInv
<1>18. CASE EndEarly(r) \/ EndLate(r)
    BY <1>18, EndCases, EndRow
<1> QED
    BY <1>5, <1>6, <1>7, <1>8, <1>9, <1>10, <1>11, <1>12, <1>13, <1>14, <1>15, <1>16, <1>17,
       <1>18 DEF Handle

----------------------------------------------------------------------------
(***************************************************************************)
(* The queue of the thread pool, and the counters of the limiter.          *)
(***************************************************************************)

\* A request waits once, and what waits is at the stage that says so.
QueueFits ==
    /\ \A i \in DOMAIN queue : stage[queue[i]] = "queued"
    /\ \A i, j \in DOMAIN queue : queue[i] = queue[j] => i = j

\* Every step of a request keeps the queue in order.
LEMMA QueueStep ==
    ASSUME TypeOK, QueueFits, NEW r \in Requests, Handle(r)
    PROVE  QueueFits' /\ (Start(r) => stage[r] = "queued")
<1>1. queue \in Seq(Requests) /\ stage \in [Requests -> Stages]
    BY Types
<1> HIDE DEF Stages
<1>2. \A i \in DOMAIN queue : queue[i] \in Requests /\ stage[queue[i]] = "queued"
    BY <1>1 DEF QueueFits
<1>3. CASE Start(r)
    <2>1. /\ queue # <<>> /\ r = queue[1] /\ 1 \in DOMAIN queue
          /\ queue' = Tail(queue) /\ stage' = [stage EXCEPT ![r] = "opening"]
        BY <1>1, <1>3 DEF Start
    <2>2. /\ Len(queue) \in Nat /\ DOMAIN queue = 1 .. Len(queue)
          /\ DOMAIN queue' = 1 .. Len(queue) - 1
          /\ \A i \in DOMAIN queue' : queue'[i] = queue[i + 1] /\ i + 1 \in DOMAIN queue
        BY <1>1, <2>1
    <2>3. \A i \in DOMAIN queue' : queue'[i] # r
        BY <2>1, <2>2 DEF QueueFits
    <2>4. \A i \in DOMAIN queue' : stage'[queue'[i]] = "queued"
        BY <1>1, <1>2, <2>1, <2>2, <2>3
    <2>5. \A i, j \in DOMAIN queue' : queue'[i] = queue'[j] => i = j
        BY <2>2 DEF QueueFits
    <2> QED
        BY <1>2, <2>1, <2>4, <2>5 DEF QueueFits
<1>4. CASE queue' = Append(queue, r) /\ stage[r] # "queued" /\ stage' = [stage EXCEPT ![r] = "queued"]
    <2>1. /\ Len(queue) \in Nat /\ DOMAIN queue = 1 .. Len(queue)
          /\ DOMAIN queue' = 1 .. Len(queue) + 1
          /\ queue'[Len(queue) + 1] = r
          /\ \A i \in DOMAIN queue : queue'[i] = queue[i]
        BY <1>1, <1>4
    <2>2. \A i \in DOMAIN queue : queue[i] # r
        BY <1>2, <1>4
    <2>3. \A i \in DOMAIN queue' : stage'[queue'[i]] = "queued"
        BY <1>1, <1>2, <1>4, <2>1
    <2>4. \A i, j \in DOMAIN queue' : queue'[i] = queue'[j] => i = j
        BY <2>1, <2>2 DEF QueueFits
    <2> QED
        BY <1>2, <1>4, <2>3, <2>4 DEF QueueFits, Start
<1>5. CASE UNCHANGED queue /\ stage[r] # "queued" /\ stage' = [stage EXCEPT ![r] = stage'[r]]
    <2>1. \A i \in DOMAIN queue : queue[i] # r
        BY <1>2, <1>5
    <2> QED
        BY <1>1, <1>2, <1>3, <1>5, <2>1 DEF QueueFits
<1>6. ASSUME NEW o, End(r, o)
      PROVE  UNCHANGED queue /\ stage' = [stage EXCEPT ![r] = "answered"]
    BY <1>6 DEF End, Answer, AnswerUnhandled
<1>7. CASE EndEarly(r) \/ EndLate(r)
    <2>1. stage[r] # "queued" /\ UNCHANGED queue /\ stage' = [stage EXCEPT ![r] = "answered"]
        BY <1>6, <1>7 DEF EndEarly, EndLate
    <2> QED
        BY <1>1, <1>5, <2>1
<1>8. CASE Admit(r) \/ ReadFile(r)
    <2>1. /\ stage[r] # "queued"
          /\ \/ queue' = Append(queue, r) /\ stage' = [stage EXCEPT ![r] = "queued"]
             \/ UNCHANGED queue /\ stage' = [stage EXCEPT ![r] = "reading"]
        BY <1>8 DEF Admit, ReadFile, Callable, ToThread
    <2> QED
        BY <1>1, <1>4, <1>5, <2>1
<1>9. CASE Correlate(r) \/ Dispatch(r) \/ OpenStream(r) \/ EndStream(r) \/ Call(r)
    <2>1. /\ stage[r] # "queued" /\ UNCHANGED queue
          /\ \E s \in Stages : stage' = [stage EXCEPT ![r] = s]
        BY <1>9 DEF Correlate, Dispatch, OpenStream, EndStream, Call, progress, Stages
    <2> QED
        BY <1>1, <1>5, <2>1
<1>10. CASE Unauthorized(r) \/ KeyLookupRaises(r) \/ AnswerReadOnly(r) \/ RejectBody(r)
            \/ RejectOverLimit(r) \/ PreflightFails(r)
    <2>1. /\ stage[r] # "queued" /\ UNCHANGED queue
          /\ stage' = [stage EXCEPT ![r] = "answered"]
        BY <1>10 DEF Unauthorized, KeyLookupRaises, AnswerReadOnly, RejectBody,
           RejectOverLimit, PreflightFails, Callable, Answer, AnswerUnhandled, progress
    <2> QED
        BY <1>1, <1>5, <2>1
<1> QED
    BY <1>3, <1>7, <1>8, <1>9, <1>10 DEF Handle

AdmittedIn(k, w) == {r \in Requests : Key(r) = k /\ admitted[r] = w}

MeteredRoutes == {"extract", "document", "stream"}

\* The counter of a limited route counts the requests it let through in the
\* running minute; nothing is counted of the others.
HitsFit ==
    \A k \in Clients \X Routes :
        hits[k] = IF k[2] \in MeteredRoutes THEN Cardinality(AdmittedIn(k, window)) ELSE 0

\* Minutes that are over kept the limit.
PastFits ==
    \A k \in Clients \X Routes, w \in 1 .. MaxWindows :
        k[2] \in MeteredRoutes /\ w < window => Cardinality(AdmittedIn(k, w)) <= Limit

IInv ==
    /\ TypeOK
    /\ \A r \in Requests : RowInv(r)
    /\ QueueFits
    /\ HitsFit /\ PastFits

\* The requests admitted under a key are finitely many, and none where nothing
\* was admitted.
LEMMA AdmittedFinite ==
    \A k, w : IsFiniteSet(AdmittedIn(k, w)) /\ Cardinality(AdmittedIn(k, w)) \in Nat
<1>1. \A k, w : AdmittedIn(k, w) \subseteq Requests
    BY DEF AdmittedIn
<1>2. \A k, w : IsFiniteSet(AdmittedIn(k, w))
    BY <1>1, FrontAssumption, FS_Subset
<1> QED
    BY <1>2, FS_CardinalityType

\* The initial states satisfy the invariant.
LEMMA InitInvariant == Init => IInv
<1> SUFFICES ASSUME Init PROVE IInv
    OBVIOUS
<1>0. Limit \in Nat \ {0} /\ MaxWindows \in Nat \ {0}
    BY FrontAssumption
<1>1. TypeOK
    BY <1>0 DEF Init, TypeOK, Places
<1>2. ASSUME NEW r \in Requests PROVE RowInv(r)
    BY <1>0, NoStory DEF Init, RowInv, Traced, Responded, Paid, Admitted, Telling, Open, Before,
       Uncalled
<1>3. QueueFits
    BY DEF Init, QueueFits
<1>4. \A k : AdmittedIn(k, window) = {}
    BY DEF Init, AdmittedIn
<1>5. HitsFit
    BY <1>4, FS_EmptySet DEF Init, HitsFit
<1>6. PastFits
    BY DEF Init, PastFits
<1> QED
    BY <1>1, <1>2, <1>3, <1>5, <1>6 DEF IInv

\* A request that is let through is counted, and within the limit.
LEMMA CountStep ==
    ASSUME IInv, NEW r \in Requests, Handle(r)
    PROVE  HitsFit' /\ PastFits'
<1>0. TypeOK /\ HitsFit /\ PastFits /\ RowInv(r)
    BY DEF IInv
<1>1. profile' = profile /\ window' = window
    BY LimitsSteps
<1>2. /\ admitted \in [Requests -> 0 .. MaxWindows] /\ window \in 1 .. MaxWindows
      /\ hits \in [Clients \X Routes -> 0 .. Limit]
      /\ Limit \in Nat /\ MaxWindows \in Nat
      /\ Key(r) \in Clients \X Routes /\ Key(r)[2] = profile[r].route
    BY <1>0, FrontAssumption, ProfileType DEF TypeOK
<1>3. \A q : Key(q)' = Key(q)
    BY <1>1 DEF Key
<1>4. CASE UNCHANGED <<hits, admitted>>
    <2>1. \A k, w : AdmittedIn(k, w)' = AdmittedIn(k, w)
        BY <1>3, <1>4 DEF AdmittedIn
    <2> QED
        BY <1>0, <1>1, <1>4, <2>1 DEF HitsFit, PastFits
<1>5. CASE Admit(r)
    <2>1. admitted' = [admitted EXCEPT ![r] = window] /\ stage[r] = "routed"
        BY <1>5 DEF Admit, Callable
    <2>2. admitted[r] = 0
        BY <1>0, <2>1 DEF RowInv, Admitted, Before
    <2>3. ASSUME NEW k, NEW w, w \in 1 .. MaxWindows, k # Key(r) \/ w # window
          PROVE  AdmittedIn(k, w)' = AdmittedIn(k, w)
        BY <1>2, <1>3, <2>1, <2>2, <2>3 DEF AdmittedIn
    <2>4. ASSUME NEW k, k = Key(r)
          PROVE  /\ AdmittedIn(k, window)' = AdmittedIn(k, window) \cup {r}
                 /\ r \notin AdmittedIn(k, window)
        BY <1>1, <1>2, <1>3, <2>1, <2>2, <2>4 DEF AdmittedIn
    <2>5. \A k : k = Key(r) => Cardinality(AdmittedIn(k, window)')
                                   = Cardinality(AdmittedIn(k, window)) + 1
        BY <2>4, AdmittedFinite, FS_AddElement
    <2>6. Metered(profile[r]) <=> Key(r)[2] \in MeteredRoutes
        BY <1>2 DEF Metered, MeteredRoutes
    <2>7. HitsFit'
        <3> SUFFICES ASSUME NEW k \in Clients \X Routes
                     PROVE  hits'[k] = IF k[2] \in MeteredRoutes
                                       THEN Cardinality(AdmittedIn(k, window)') ELSE 0
            BY <1>1 DEF HitsFit
        <3>1. hits[k] = IF k[2] \in MeteredRoutes
                        THEN Cardinality(AdmittedIn(k, window)) ELSE 0
            BY <1>0 DEF HitsFit
        <3>2. CASE k = Key(r)
            <4>1. hits'[k] = IF Metered(profile[r]) THEN hits[k] + 1 ELSE hits[k]
                BY <1>2, <1>5, <3>2 DEF Admit, Count
            <4> QED
                BY <2>5, <2>6, <3>1, <3>2, <4>1
        <3>3. CASE k # Key(r)
            <4>1. hits'[k] = hits[k]
                BY <1>2, <1>5, <3>3 DEF Admit, Count
            <4>2. AdmittedIn(k, window)' = AdmittedIn(k, window)
                BY <1>1, <1>2, <2>3, <3>3
            <4> QED
                BY <3>1, <4>1, <4>2
        <3> QED
            BY <3>2, <3>3
    <2>8. PastFits'
        <3> SUFFICES ASSUME NEW k \in Clients \X Routes, NEW w \in 1 .. MaxWindows,
                            k[2] \in MeteredRoutes, w < window
                     PROVE  Cardinality(AdmittedIn(k, w)') <= Limit
            BY <1>1 DEF PastFits
        <3>1. AdmittedIn(k, w)' = AdmittedIn(k, w)
            BY <1>2, <2>3
        <3> QED
            BY <1>0, <3>1 DEF PastFits
    <2> QED
        BY <2>7, <2>8
<1> QED
    BY <1>4, <1>5, LimitsSteps

\* Every step keeps the invariant.
LEMMA NextInvariant == IInv /\ [Next]_vars => IInv'
<1> SUFFICES ASSUME IInv, [Next]_vars PROVE IInv'
    OBVIOUS
<1>0. TypeOK /\ QueueFits /\ HitsFit /\ PastFits /\ \A r \in Requests : RowInv(r)
    BY DEF IInv
<1>t. TypeOK'
    BY <1>0, TypeInvariance
<1>1. CASE UNCHANGED vars
    <2>1. \A r \in Requests : RowInv(r)'
        BY <1>0, <1>1 DEF vars, RowInv, Traced, Responded, Paid, Admitted, Telling, Authorized,
           ApiKeyOk, JwtOk, Excluded, ReadOnly, Announced
    <2>2. \A k, w : AdmittedIn(k, w)' = AdmittedIn(k, w)
        BY <1>1 DEF vars, AdmittedIn, Key
    <2>3. HitsFit' /\ PastFits' /\ QueueFits'
        BY <1>0, <1>1, <2>2 DEF vars, HitsFit, PastFits, QueueFits
    <2> QED
        BY <1>t, <2>1, <2>3 DEF IInv
<1>2. CASE NextWindow
    <2>1. /\ window' = window + 1 /\ hits' = [k \in Clients \X Routes |-> 0]
          /\ UNCHANGED <<profile, stage, admitted, queue, called, outcome, status, events,
                         context, echoed>>
        BY <1>2 DEF NextWindow, progress, traces
    <2>2. window \in 1 .. MaxWindows /\ MaxWindows \in Nat /\ Limit \in Nat
              /\ hits \in [Clients \X Routes -> 0 .. Limit]
              /\ admitted \in [Requests -> 0 .. MaxWindows]
        BY <1>0, FrontAssumption DEF TypeOK
    <2>3. ASSUME NEW r \in Requests PROVE RowInv(r)'
        <3>1. Admitted(r)'
            BY <1>0, <2>1, <2>2 DEF RowInv, Admitted, Authorized, ApiKeyOk, JwtOk, Excluded,
               ReadOnly
        <3> QED
            BY <1>0, <2>1, <3>1 DEF RowInv, Traced, Responded, Paid, Telling, Announced
    <2>4. QueueFits'
        BY <1>0, <2>1 DEF QueueFits
    <2>5. \A k, w : w \in Nat => AdmittedIn(k, w)' = AdmittedIn(k, w)
        BY <2>1 DEF AdmittedIn, Key
    <2>6. \A k : AdmittedIn(k, window + 1) = {}
        BY <1>0, <2>2 DEF AdmittedIn, RowInv, Admitted
    <2>7. \A k : Cardinality(AdmittedIn(k, window)') = 0
        <3> SUFFICES ASSUME NEW k PROVE Cardinality(AdmittedIn(k, window)') = 0
            OBVIOUS
        <3>1. AdmittedIn(k, window)' = AdmittedIn(k, window + 1)
            BY <2>1 DEF AdmittedIn, Key
        <3> QED
            BY <2>6, <3>1, FS_EmptySet
    <2>8. HitsFit'
        BY <2>1, <2>7 DEF HitsFit
    <2>9. PastFits'
        <3> SUFFICES ASSUME NEW k \in Clients \X Routes, NEW w \in 1 .. MaxWindows,
                            k[2] \in MeteredRoutes, w < window + 1
                     PROVE  Cardinality(AdmittedIn(k, w)') <= Limit
            BY <2>1 DEF PastFits
        <3>1. AdmittedIn(k, w)' = AdmittedIn(k, w)
            BY <2>5
        <3>2. CASE w < window
            BY <1>0, <3>1, <3>2 DEF PastFits
        <3>3. CASE w = window
            <4>1. Cardinality(AdmittedIn(k, w)) = hits[k] /\ hits[k] \in 0 .. Limit
                BY <1>0, <2>2, <3>3 DEF HitsFit
            <4> QED
                BY <2>2, <3>1, <4>1
        <3> QED
            BY <2>2, <3>2, <3>3
    <2> QED
        BY <1>t, <2>3, <2>4, <2>8, <2>9 DEF IInv
<1>3. ASSUME NEW r \in Requests, Handle(r) PROVE IInv'
    <2>1. QueueFits' /\ (Start(r) => stage[r] = "queued")
        BY <1>0, <1>3, QueueStep
    <2>2. RowInv(r)'
        BY <1>0, <1>3, <2>1, RowStep
    <2>3. ASSUME NEW q \in Requests, q # r PROVE RowInv(q)'
        <3>1. SameRow(q) /\ window' = window /\ RowInv(q)
            BY <1>0, <1>3, <2>3, OthersSame, LimitsSteps
        <3> QED
            BY <3>1 DEF SameRow, RowInv, Traced, Responded, Paid, Admitted, Telling, Authorized,
               ApiKeyOk, JwtOk, Excluded, ReadOnly, Announced
    <2>4. HitsFit' /\ PastFits'
        BY <1>3, CountStep
    <2> QED
        BY <1>t, <2>1, <2>2, <2>3, <2>4 DEF IInv
<1> QED
    BY <1>1, <1>2, <1>3 DEF Next, Finished

\* The invariant holds in every reachable state.
THEOREM Invariance == Spec => []IInv
<1> QED
    BY InitInvariant, NextInvariant, PTL DEF Spec

----------------------------------------------------------------------------
\* The variables have their types.
THEOREM TypeCorrect == Spec => []TypeOK
<1>1. IInv => TypeOK
    BY DEF IInv
<1> QED
    BY <1>1, Invariance, PTL

\* However many requests come, in whatever order they reach the limiter, no
\* client is let through to a limited route more often than the limit in any
\* one minute.
THEOREM Quota == Spec => []QuotaIsKept
<1>1. IInv => QuotaIsKept
    <2> SUFFICES ASSUME IInv, NEW k \in Clients \X Routes, NEW w \in 1 .. MaxWindows, k[2] # "a2a"
                 PROVE  Cardinality(AdmittedIn(k, w)) <= Limit
        BY DEF QuotaIsKept, AdmittedIn
    <2>0. /\ window \in 1 .. MaxWindows /\ MaxWindows \in Nat /\ Limit \in Nat
          /\ hits \in [Clients \X Routes -> 0 .. Limit]
        BY FrontAssumption DEF IInv, TypeOK
    <2>1. CASE k[2] \in MeteredRoutes /\ w < window
        BY <2>1 DEF IInv, PastFits
    <2>2. CASE k[2] \in MeteredRoutes /\ w = window
        <3>1. Cardinality(AdmittedIn(k, w)) = hits[k] /\ hits[k] \in 0 .. Limit
            BY <2>0, <2>2 DEF IInv, HitsFit
        <3> QED
            BY <2>0, <3>1
    <2>3. CASE w > window
        <3>1. AdmittedIn(k, w) = {}
            BY <2>0, <2>3 DEF IInv, RowInv, Admitted, AdmittedIn, TypeOK
        <3> QED
            BY <2>0, <3>1, FS_EmptySet
    <2>4. CASE k[2] \notin MeteredRoutes
        <3>1. AdmittedIn(k, w) = {}
            <4> SUFFICES ASSUME NEW r \in Requests, Key(r) = k, admitted[r] = w PROVE FALSE
                BY DEF AdmittedIn
            <4>1. admitted[r] # 0
                BY <2>0
            <4>2. ~ReadOnly(profile[r])
                BY <4>1 DEF IInv, RowInv, Admitted
            <4>3. profile[r].route = k[2] /\ profile[r].route \in Routes
                BY ProfileType DEF IInv, TypeOK, Profile
            <4> QED
                BY <2>4, <4>2, <4>3 DEF ReadOnly, MeteredRoutes, Routes
        <3> QED
            BY <2>0, <3>1, FS_EmptySet
    <2> QED
        BY <2>0, <2>1, <2>2, <2>3, <2>4
<1> QED
    BY <1>1, Invariance, PTL

\* No refusal has cost a call of Bedrock, and the limiter has counted no request
\* that authentication, validation or itself has refused.
THEOREM RefusalsFree == Spec => []RefusalsAreFree
<1>1. IInv => RefusalsAreFree
    <2> SUFFICES ASSUME IInv PROVE RefusalsAreFree
        OBVIOUS
    <2>1. \A r \in Requests : status[r] \in 400 .. 499 => ~called[r]
        BY DEF IInv, RowInv, Paid
    <2>2. ASSUME NEW k \in Clients \X Routes
          PROVE  hits[k] <= Cardinality({r \in Requests : /\ Key(r) = k
                                                          /\ Authorized(profile[r])
                                                          /\ profile[r].body = "valid"
                                                          /\ status[r] # 429})
        <3> DEFINE S == {r \in Requests : /\ Key(r) = k
                                          /\ Authorized(profile[r])
                                          /\ profile[r].body = "valid"
                                          /\ status[r] # 429}
        <3>1. S \subseteq Requests /\ IsFiniteSet(S) /\ Cardinality(S) \in Nat
            BY FrontAssumption, FS_Subset, FS_CardinalityType
        <3>2. AdmittedIn(k, window) \subseteq S
            <4>1. window # 0
                BY FrontAssumption DEF IInv, TypeOK
            <4> QED
                BY <4>1 DEF AdmittedIn, IInv, RowInv, Admitted
        <3>3. Cardinality(AdmittedIn(k, window)) <= Cardinality(S)
            BY <3>1, <3>2, FS_Subset
        <3> HIDE DEF S
        <3>4. hits[k] <= Cardinality(S)
            BY <3>1, <3>3, AdmittedFinite DEF IInv, HitsFit
        <3> QED
            BY <3>4 DEF S
    <2> QED
        BY <2>1, <2>2 DEF RefusalsAreFree
<1> QED
    BY <1>1, Invariance, PTL

\* A task is announced once and told its end once, whatever other tasks and
\* requests run beside it.
THEOREM ToldOnce == Spec => []TaskIsToldOnce
<1>1. IInv => TaskIsToldOnce
    <2> SUFFICES ASSUME IInv, NEW r \in Requests
                 PROVE  LET e    == events[r]
                            ends == {i \in DOMAIN e : e[i] \in {"completed", "failed"}}
                        IN  /\ e # <<>> => /\ profile[r].route = "a2a"
                                           /\ e[1] = "task" <=> profile[r].newTask
                            /\ ends # {} => ends = {Len(e)}
                            /\ \A i \in DOMAIN e : e[i] = "artifact" =>
                                  i + 1 \in ends /\ e[i + 1] = "completed"
                            /\ e # <<>> => (Last(e) = "completed" <=> outcome[r] = "result")
        BY DEF TaskIsToldOnce
    <2> DEFINE e    == events[r]
               ends == {i \in DOMAIN e : e[i] \in {"completed", "failed"}}
    <2>1. ToldOf(e, profile[r], outcome[r])
        BY DEF IInv, RowInv, Telling
    <2>2. e \in Seq(Kinds)
        BY Types DEF IInv
    <2> HIDE DEF e
    <2>3. Len(e) \in Nat /\ DOMAIN e = 1 .. Len(e)
        BY <2>2
    <2>4. ends # {} => ends = {Len(e)}
        BY <2>1, <2>3 DEF ToldOf
    <2>5. \A i \in DOMAIN e : e[i] = "artifact" => i + 1 \in ends /\ e[i + 1] = "completed"
        BY <2>1, <2>3 DEF ToldOf
    <2>6. /\ e # <<>> => profile[r].route = "a2a" /\ (e[1] = "task" <=> profile[r].newTask)
          /\ e # <<>> => (Last(e) = "completed" <=> outcome[r] = "result")
        BY <2>1 DEF ToldOf
    <2> HIDE DEF ends
    <2> QED
        BY <2>4, <2>5, <2>6 DEF e, ends
<1> QED
    BY <1>1, Invariance, PTL

\* Something is logged in some places, and the context of each has the id that
\* RecordsCarryOwnId asks for.
LogsOwn(r, ps) ==
    /\ Log(r, ps)
    /\ ps \subseteq Places
    /\ \A p \in ps : context'[r][p] = (IF p = "connection" THEN NoId ELSE r)

\* A step of a request logs nothing, or with the right ids.
LEMMA LogStep ==
    ASSUME TypeOK, NEW r \in Requests, Traced(r), Handle(r)
    PROVE  UNCHANGED logged \/ \E ps : LogsOwn(r, ps)
<1>1. context \in [Requests -> [Places -> Ids]]
    BY Types DEF Contexts
<1>2. context' = [context EXCEPT ![r]["connection"] = NoId] =>
          /\ context'[r]["connection"] = NoId
          /\ context'[r]["app"] = context[r]["app"]
    BY <1>1 DEF Places
<1>3. ASSUME NEW ps, ps \in SUBSET {"app"}, context[r]["app"] = r,
             NEW code, Respond(r, code, ps)
      PROVE  LogsOwn(r, ps \cup {"connection"})
    BY <1>2, <1>3 DEF Respond, LogsOwn, Places
<1>4. ASSUME AnswerUnhandled(r) PROVE LogsOwn(r, {"connection"})
    BY <1>2, <1>4 DEF AnswerUnhandled, LogsOwn, Places
<1>5. CASE Unauthorized(r) \/ AnswerReadOnly(r) \/ RejectBody(r) \/ RejectOverLimit(r)
           \/ PreflightFails(r) \/ OpenStream(r)
    <2>1. context[r]["app"] = r
        BY <1>5 DEF Unauthorized, AnswerReadOnly, RejectBody, RejectOverLimit, Callable,
           PreflightFails, OpenStream, Traced
    <2>2. PICK code, ps : ps \in SUBSET {"app"} /\ Respond(r, code, ps)
        <3>1. {} \in SUBSET {"app"} /\ {"app"} \in SUBSET {"app"}
            OBVIOUS
        <3> QED
            BY <1>5, <3>1 DEF Unauthorized, AnswerReadOnly, RejectBody, RejectOverLimit,
               PreflightFails, OpenStream, Answer
    <2>3. LogsOwn(r, ps \cup {"connection"})
        BY <1>3, <2>1, <2>2
    <2> QED
        BY <2>3
<1>6. CASE KeyLookupRaises(r)
    <2>1. LogsOwn(r, {"connection"})
        BY <1>4, <1>6 DEF KeyLookupRaises
    <2> QED
        BY <2>1
<1>7. CASE EndStream(r)
    <2>1. context' = context /\ context[r]["app"] = r /\ context[r]["connection"] = NoId
        BY <1>7 DEF EndStream, Traced
    <2>2. PICK o : Log(r, StreamRecords(o))
        BY <1>7 DEF EndStream
    <2>3. LogsOwn(r, StreamRecords(o))
        BY <2>1, <2>2 DEF StreamRecords, LogsOwn, Places
    <2> QED
        BY <2>3
<1>8. CASE Call(r)
    <2>1. LogsOwn(r, {"thread"})
        BY <1>8 DEF Call, Traced, LogsOwn, Places
    <2> QED
        BY <2>1
<1>9. CASE EndEarly(r) \/ EndLate(r)
    <2>1. context[r]["app"] = r
        BY <1>9 DEF EndEarly, EndLate, Traced
    <2>2. PICK o : End(r, o)
        BY <1>9 DEF EndEarly, EndLate
    <2>3. EndRecords(o) \in SUBSET {"app"}
        BY DEF EndRecords
    <2>4. CASE AnswerUnhandled(r)
        BY <1>4, <2>4
    <2>5. ASSUME NEW code, Respond(r, code, EndRecords(o))
          PROVE  \E ps : LogsOwn(r, ps)
        <3>1. LogsOwn(r, EndRecords(o) \cup {"connection"})
            BY <1>3, <2>1, <2>3, <2>5
        <3> QED
            BY <3>1
    <2> QED
        BY <2>2, <2>4, <2>5 DEF End, Answer
<1>10. CASE Correlate(r) \/ Dispatch(r) \/ Admit(r) \/ ReadFile(r) \/ Start(r)
    BY <1>10 DEF Correlate, Dispatch, Admit, ReadFile, Start, traces
<1> QED
    BY <1>5, <1>6, <1>7, <1>8, <1>9, <1>10 DEF Handle

\* The context variable keeps the ids of concurrent requests apart on the event
\* loop and on the threads: what is logged inside the middleware has its own
\* request's id, what is logged outside it has none.
THEOREM RecordsOwn == Spec => []RecordsCarryOwnId
<1>1. Init => RecordsCarryOwnId
    BY DEF Init, RecordsCarryOwnId
<1>2. IInv /\ RecordsCarryOwnId /\ [Next]_vars => RecordsCarryOwnId'
    <2> SUFFICES ASSUME IInv, RecordsCarryOwnId, [Next]_vars PROVE RecordsCarryOwnId'
        OBVIOUS
    <2>1. CASE UNCHANGED logged
        BY <2>1 DEF RecordsCarryOwnId
    <2>2. ASSUME NEW r \in Requests, Handle(r) PROVE RecordsCarryOwnId'
        <3>1. CASE UNCHANGED logged
            BY <2>1, <3>1
        <3>2. ASSUME NEW ps, LogsOwn(r, ps) PROVE RecordsCarryOwnId'
            <4> DEFINE new == {<<p, context'[r][p]>> : p \in ps}
            <4>1. new \subseteq {<<"app", r>>, <<"thread", r>>, <<"connection", NoId>>}
                BY <3>2 DEF LogsOwn, Places
            <4>2. logged' = [logged EXCEPT ![r] = @ \cup new]
                BY <3>2 DEF LogsOwn, Log
            <4> HIDE DEF new
            <4>3. logged \in [Requests -> SUBSET Records]
                BY Types DEF IInv
            <4> QED
                BY <4>1, <4>2, <4>3 DEF RecordsCarryOwnId
        <3> QED
            BY <2>2, <3>1, <3>2, LogStep DEF IInv, RowInv
    <2> QED
        BY <2>1, <2>2 DEF Next, NextWindow, Finished, vars, traces
<1> QED
    BY <1>1, <1>2, Invariance, PTL DEF Spec

\* Every response but a 500 has the id of its own request in its header.
THEOREM HeadersEcho == Spec => []ResponsesEchoTheId
<1>1. IInv => ResponsesEchoTheId
    BY DEF IInv, RowInv, Responded, ResponsesEchoTheId
<1> QED
    BY <1>1, Invariance, PTL

----------------------------------------------------------------------------
(***************************************************************************)
(* What EveryRequestAnswered needs besides fairness: every request moves   *)
(* forward only, and somebody can always move.                             *)
(***************************************************************************)

\* How far a request is from its answer; a stream and a call each have one step
\* left.
Distance == [sent |-> 7, tagged |-> 6, routed |-> 5, reading |-> 4, queued |-> 3,
             opening |-> 2, streaming |-> 1, calling |-> 1, answered |-> 0]

\* A step of r is a step towards its answer, and nobody else's.
Advances(r) ==
    /\ Distance[stage'[r]] < Distance[stage[r]]
    /\ \A q \in Requests \ {r} : stage'[q] = stage[q]

\* From where to where a step takes a request.
LEMMA StageSteps ==
    ASSUME TypeOK, QueueFits, NEW r \in Requests, Handle(r)
    PROVE  <<stage[r], stage'[r]>> \in
               ({"sent"} \X {"tagged"})
                   \cup ({"tagged"} \X {"routed", "answered"})
                   \cup ({"routed"} \X {"reading", "queued", "answered"})
                   \cup ({"reading"} \X {"queued", "streaming", "answered"})
                   \cup ({"queued"} \X {"opening"})
                   \cup ({"opening"} \X {"calling", "answered"})
                   \cup ({"calling", "streaming"} \X {"answered"})
<1>1. stage \in [Requests -> Stages]
    BY Types
<1> HIDE DEF Stages
<1>2. \A s : stage' = [stage EXCEPT ![r] = s] => stage'[r] = s
    BY <1>1
<1>3. ASSUME NEW o, End(r, o) PROVE stage'[r] = "answered"
    BY <1>2, <1>3 DEF End, Answer, AnswerUnhandled
<1>4. CASE EndEarly(r) \/ EndLate(r)
    BY <1>3, <1>4 DEF EndEarly, EndLate
<1>5. CASE Correlate(r) \/ Dispatch(r) \/ OpenStream(r) \/ EndStream(r) \/ Call(r)
    BY <1>2, <1>5 DEF Correlate, Dispatch, OpenStream, EndStream, Call
<1>6. CASE Admit(r) \/ ReadFile(r)
    BY <1>2, <1>6 DEF Admit, ReadFile, Callable, ToThread
<1>7. CASE Unauthorized(r) \/ KeyLookupRaises(r) \/ AnswerReadOnly(r) \/ RejectBody(r)
           \/ RejectOverLimit(r) \/ PreflightFails(r)
    BY <1>2, <1>7 DEF Unauthorized, KeyLookupRaises, AnswerReadOnly, RejectBody,
       RejectOverLimit, PreflightFails, Callable, Answer, AnswerUnhandled
<1>8. CASE Start(r)
    <2>1. stage[r] = "queued"
        BY <1>8, QueueStep
    <2>2. stage' = [stage EXCEPT ![r] = "opening"]
        BY <1>8 DEF Start
    <2>3. stage'[r] = "opening"
        BY <1>2, <2>2
    <2> QED
        BY <2>1, <2>3
<1> QED
    BY <1>4, <1>5, <1>6, <1>7, <1>8 DEF Handle

\* Whatever is done for a request brings it nearer to its answer.
LEMMA EveryStepAdvances ==
    ASSUME TypeOK, QueueFits, NEW r \in Requests, Handle(r)
    PROVE  Advances(r)
<1>1. Distance[stage'[r]] < Distance[stage[r]]
    <2>1. /\ Distance["sent"] = 7 /\ Distance["tagged"] = 6 /\ Distance["routed"] = 5
          /\ Distance["reading"] = 4 /\ Distance["queued"] = 3 /\ Distance["opening"] = 2
          /\ Distance["streaming"] = 1 /\ Distance["calling"] = 1 /\ Distance["answered"] = 0
        BY DEF Distance
    <2>2. \/ stage[r] = "sent" /\ stage'[r] = "tagged"
          \/ stage[r] = "tagged" /\ stage'[r] \in {"routed", "answered"}
          \/ stage[r] = "routed" /\ stage'[r] \in {"reading", "queued", "answered"}
          \/ stage[r] = "reading" /\ stage'[r] \in {"queued", "streaming", "answered"}
          \/ stage[r] = "queued" /\ stage'[r] = "opening"
          \/ stage[r] = "opening" /\ stage'[r] \in {"calling", "answered"}
          \/ stage[r] \in {"calling", "streaming"} /\ stage'[r] = "answered"
        BY StageSteps
    <2> QED
        BY <2>1, <2>2
<1>2. \A q \in Requests \ {r} : stage'[q] = stage[q]
    BY OthersSame DEF SameRow
<1> QED
    BY <1>1, <1>2 DEF Advances

\* The queue has everyone who waits, no more calls run than there are threads,
\* and only uploads and streams are read on the event loop.
NoneIsLost ==
    /\ \A r \in Requests : stage[r] = "reading" => profile[r].route \in {"document", "stream"}
    /\ \A r \in Requests : stage[r] = "queued" => \E i \in DOMAIN queue : queue[i] = r
    /\ Cardinality(Running) <= Workers

\* A thread is taken by the first in the queue when there is one, and given back
\* by every end.
LEMMA NoneIsLostStep ==
    ASSUME TypeOK, QueueFits, NoneIsLost, NEW r \in Requests, Handle(r)
    PROVE  NoneIsLost'
<1>1. queue \in Seq(Requests) /\ stage \in [Requests -> Stages]
    BY Types
<1>2. IsFiniteSet(Running) /\ Cardinality(Running) \in Nat /\ Workers \in Nat
    BY FrontAssumption, FS_Subset, FS_CardinalityType DEF Running
<1>3. \A q \in Requests \ {r} : stage'[q] = stage[q]
    BY EveryStepAdvances DEF Advances
<1>4. stage[r] # stage'[r] /\ (stage[r] = "queued" <=> stage'[r] = "opening")
          /\ (stage'[r] = "calling" => stage[r] = "opening")
    BY StageSteps
<1>5. \A q \in Requests : stage'[q] = "queued" => \E i \in DOMAIN queue' : queue'[i] = q
    <2>1. CASE Start(r)
        <3>1. /\ queue # <<>> /\ r = queue[1] /\ queue' = Tail(queue) /\ stage'[r] # "queued"
            BY <1>1, <2>1 DEF Start
        <3>2. /\ Len(queue) \in Nat /\ DOMAIN queue = 1 .. Len(queue)
              /\ DOMAIN queue' = 1 .. Len(queue) - 1
              /\ \A i \in DOMAIN queue' : queue'[i] = queue[i + 1]
            BY <1>1, <3>1
        <3> SUFFICES ASSUME NEW q \in Requests, stage'[q] = "queued"
                     PROVE  \E i \in DOMAIN queue' : queue'[i] = q
            OBVIOUS
        <3>3. q # r /\ stage[q] = "queued"
            BY <1>3, <3>1
        <3>4. PICK i \in DOMAIN queue : queue[i] = q
            BY <3>3 DEF NoneIsLost
        <3>5. i # 1 /\ i - 1 \in DOMAIN queue' /\ (i - 1) + 1 = i
            BY <3>1, <3>2, <3>3, <3>4
        <3> QED
            BY <3>2, <3>4, <3>5
    <2>2. CASE queue' = Append(queue, r)
        <3>1. /\ Len(queue) \in Nat /\ DOMAIN queue = 1 .. Len(queue)
              /\ DOMAIN queue' = 1 .. Len(queue) + 1
              /\ queue'[Len(queue) + 1] = r
              /\ \A i \in DOMAIN queue : queue'[i] = queue[i] /\ i \in DOMAIN queue'
            BY <1>1, <2>2
        <3>2. Len(queue) + 1 \in DOMAIN queue'
            BY <3>1
        <3> QED
            BY <1>3, <3>1, <3>2 DEF NoneIsLost
    <2>3. CASE UNCHANGED queue /\ stage'[r] # "queued"
        BY <1>3, <2>3 DEF NoneIsLost
    <2>4. ASSUME NEW o, End(r, o) PROVE UNCHANGED queue /\ stage'[r] = "answered"
        BY <1>1, <2>4 DEF End, Answer, AnswerUnhandled
    <2> QED
        BY <1>1, <2>1, <2>2, <2>3, <2>4
        DEF Handle, Correlate, Unauthorized, KeyLookupRaises, Dispatch, AnswerReadOnly,
            RejectBody, RejectOverLimit, Admit, ReadFile, PreflightFails, OpenStream,
            EndStream, Call, EndEarly, EndLate, ToThread, Answer, AnswerUnhandled, progress
<1>6. Cardinality(Running') <= Workers
    <2>1. CASE stage'[r] = "opening"
        <3>1. Running' = Running \cup {r} /\ r \notin Running
            BY <1>3, <1>4, <2>1 DEF Running
        <3>2. Cardinality(Running') = Cardinality(Running) + 1
            BY <1>2, <3>1, FS_AddElement
        <3>3. Cardinality(Running) < Workers
            <4>1. \A o : End(r, o) => stage'[r] = "answered"
                BY <1>1 DEF End, Answer, AnswerUnhandled
            <4>2. Start(r)
                BY <1>1, <2>1, <4>1
                DEF Handle, Correlate, Unauthorized, KeyLookupRaises, Dispatch, AnswerReadOnly,
                    RejectBody, RejectOverLimit, Admit, ReadFile, PreflightFails, OpenStream,
                    EndStream, Call, EndEarly, EndLate, ToThread, Answer, AnswerUnhandled
            <4> QED
                BY <4>2 DEF Start
        <3> QED
            BY <1>2, <3>2, <3>3
    <2>2. CASE stage'[r] # "opening"
        <3>1. Running' \subseteq Running
            BY <1>3, <1>4, <2>2 DEF Running
        <3> QED
            <4>1. Cardinality(Running') \in Nat /\ Cardinality(Running') <= Cardinality(Running)
                BY <1>2, <3>1, FS_Subset, FS_CardinalityType
            <4>2. Cardinality(Running) <= Workers
                BY DEF NoneIsLost
            <4> QED
                BY <1>2, <4>1, <4>2
    <2> QED
        BY <2>1, <2>2
<1>7. \A q \in Requests : stage'[q] = "reading" => profile'[q].route \in {"document", "stream"}
    <2>1. profile' = profile
        BY LimitsSteps
    <2>2. stage'[r] = "reading" => profile[r].route \in {"document", "stream"}
        <3>1. \A o : End(r, o) => stage'[r] = "answered"
            BY <1>1 DEF End, Answer, AnswerUnhandled
        <3> QED
            BY <1>1, <3>1
            DEF Handle, Correlate, Unauthorized, KeyLookupRaises, Dispatch, AnswerReadOnly,
                RejectBody, RejectOverLimit, Admit, ReadFile, PreflightFails, OpenStream,
                EndStream, Start, Call, EndEarly, EndLate, ToThread, Answer, AnswerUnhandled
    <2> QED
        BY <1>3, <2>1, <2>2 DEF NoneIsLost
<1> QED
    BY <1>5, <1>6, <1>7 DEF NoneIsLost

\* What the guards of Handle ask of a request: that it is on the event loop or on
\* a thread, a file or a stream to read where it is reading, and a free thread
\* for the oldest waiting call.
CanMove(r) ==
    \/ stage[r] \in {"sent", "tagged", "routed", "opening", "calling", "streaming"}
    \/ stage[r] = "reading" /\ profile[r].route \in {"document", "stream"}
    \/ queue # <<>> /\ r = Head(queue) /\ Cardinality(Running) < Workers

\* No place in the queue and no thread is lost, whatever extractions end in: as
\* long as a request is not answered some request can move, so none waits for a
\* thread that never comes free.
THEOREM NobodyIsStuck ==
    Spec => [](NoneIsLost /\ ((\A r \in Requests : stage[r] = "answered")
                                  \/ \E r \in Requests : CanMove(r)))
<1>1. Init => NoneIsLost
    <2> SUFFICES ASSUME Init PROVE NoneIsLost
        OBVIOUS
    <2>1. Running = {} /\ Workers \in Nat
        BY FrontAssumption DEF Init, Running
    <2> QED
        BY <2>1, FS_EmptySet DEF Init, NoneIsLost
<1>2. IInv /\ NoneIsLost /\ [Next]_vars => NoneIsLost'
    <2> SUFFICES ASSUME IInv, NoneIsLost, [Next]_vars PROVE NoneIsLost'
        OBVIOUS
    <2>1. ASSUME NEW r \in Requests, Handle(r) PROVE NoneIsLost'
        BY <2>1, NoneIsLostStep DEF IInv
    <2>2. CASE UNCHANGED <<profile, stage, queue>>
        BY <2>2 DEF NoneIsLost, Running
    <2> QED
        BY <2>1, <2>2 DEF Next, Finished, NextWindow, vars, progress
<1>3. IInv /\ NoneIsLost => (\A r \in Requests : stage[r] = "answered")
                                \/ \E r \in Requests : CanMove(r)
    <2> SUFFICES ASSUME IInv, NoneIsLost, NEW q \in Requests, stage[q] # "answered",
                        \A r \in Requests : stage[r] \in {"queued", "answered"}
                 PROVE  \E r \in Requests : CanMove(r)
        BY Types DEF CanMove, NoneIsLost, IInv, Stages
    <2>1. Running = {} /\ Workers \in Nat \ {0}
        BY FrontAssumption DEF Running
    <2>2. Cardinality(Running) < Workers
        BY <2>1, FS_EmptySet
    <2>3. queue # <<>> /\ Head(queue) \in Requests
        BY DEF IInv, TypeOK, NoneIsLost
    <2> QED
        BY <2>2, <2>3 DEF CanMove
<1> QED
    BY <1>1, <1>2, <1>3, Invariance, PTL DEF Spec

\* A request is worked on in seven steps at most: but for the turn of the
\* limiter's minute, every step brings one request nearer to its answer and
\* leaves the others where they are.
THEOREM StepsAdvance ==
    Spec => [][NextWindow \/ \E r \in Requests : Advances(r)]_vars
<1>1. IInv /\ [Next]_vars => [NextWindow \/ \E r \in Requests : Advances(r)]_vars
    BY EveryStepAdvances DEF IInv, Next, Finished
<1> QED
    BY <1>1, Invariance, PTL DEF Spec
=============================================================================
