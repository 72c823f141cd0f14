---------------------------- MODULE ServiceFront ----------------------------
(***************************************************************************)
(* Concurrent requests on their way to the extraction service and back:    *)
(* CorrelationIdMiddleware, AuthMiddleware, body validation, the slowapi   *)
(* limit of each route, the thread pool behind asyncio.to_thread or the    *)
(* stream on the event loop, and the answer - an HTTP status, or the       *)
(* events of a task for the A2A executor.  What an extraction does is in   *)
(* ExtractionLoop, StreamSession and DocumentUpload; here it ends in one   *)
(* of their outcomes.                                                      *)
(***************************************************************************)
EXTENDS Naturals, FiniteSets, SequencesExt

CONSTANTS Requests,    \* each stands for its correlation id too: read or minted
          NoId,        \* a context in which no correlation id is set
          Clients,     \* what _key_func tells apart: API keys, or addresses
          Traffic,     \* the mixes of requests considered
          AuthMode,    \* Settings.auth_mode
          Limit,       \* Settings.rate_limit_per_minute
          Workers,     \* threads of the event loop's default executor
          MaxWindows   \* minutes considered

Routes == {"health", "schemas", "extract", "document", "stream", "a2a"}

\* A request.  apiKey, bearer: no such header, one that is accepted, or one that
\* is not.  body: accepted by ExtractRequestBody (or as a form), or not.
\* newTask: an A2A message that opens a task, not one to a task under way.
Profile == [route : Routes, client : Clients, apiKey : {"none", "good", "bad"},
            bearer : {"none", "good", "bad"}, body : {"valid", "invalid"},
            newTask : BOOLEAN]

ASSUME FrontAssumption ==
    /\ IsFiniteSet(Requests) /\ NoId \notin Requests
    /\ Traffic \subseteq [Requests -> Profile]
    /\ AuthMode \in {"none", "apikey", "jwt", "both"}
    /\ Limit \in Nat \ {0} /\ Workers \in Nat \ {0} /\ MaxWindows \in Nat \ {0}

VARIABLES profile,   \* the requests sent
          stage,     \* how far each has come, see TypeOK
          window,    \* the current minute of the limiter
          hits,      \* hits counted in it, per client and route
          admitted,  \* the window a request was let through in, or 0 (observed)
          queue,     \* requests waiting for a thread
          called,    \* Bedrock has been called for the request (observed)
          outcome,   \* how the extraction ended, or "none"
          status,    \* of the HTTP response, or 0
          events,    \* events of the A2A task, enqueued in this order
          context,   \* the correlation id in each task or thread of a request
          echoed,    \* the X-Request-ID of the response, or NoId
          logged     \* the log records about a request: the task or thread that
                     \* wrote each, and the id on it (observed)

vars == <<profile, stage, window, hits, admitted, queue, called, outcome, status, events,
          context, echoed, logged>>

limits   == <<window, hits, admitted>>
progress == <<queue, called, outcome>>
traces   == <<context, echoed, logged>>

\* The task of the connection, in which CorrelationIdMiddleware runs; the task
\* call_next makes of everything inside it; the thread of the extraction.
Places == {"connection", "app", "thread"}

\* Mutant: the multipart route is not decorated.
MeteredJsonOnly(p) == p.route \in {"extract", "stream"}

\* All three extraction routes are decorated, each with hits of its own.
Metered(p) == p.route \in {"extract", "document", "stream"}

Running == {r \in Requests : stage[r] \in {"opening", "calling"}}

Init ==
    /\ profile \in Traffic
    /\ stage = [r \in Requests |-> "sent"]
    /\ window = 1
    /\ hits = [k \in Clients \X Routes |-> 0]
    /\ admitted = [r \in Requests |-> 0]
    /\ queue = <<>>
    /\ called = [r \in Requests |-> FALSE]
    /\ outcome = [r \in Requests |-> "none"]
    /\ status = [r \in Requests |-> 0]
    /\ events = [r \in Requests |-> <<>>]
    /\ context = [r \in Requests |-> [p \in Places |-> NoId]]
    /\ echoed = [r \in Requests |-> NoId]
    /\ logged = [r \in Requests |-> {}]

----------------------------------------------------------------------------
\* CorrelationIdMiddleware, outermost but for the handler of unhandled
\* exceptions.

\* Mutant: the id is kept in a global of the module.
CorrelateGlobally(r) ==
    /\ stage[r] = "sent"
    /\ stage' = [stage EXCEPT ![r] = "tagged"]
    /\ context' = [q \in Requests |-> [p \in Places |-> r]]
    /\ UNCHANGED <<profile, limits, progress, status, events, echoed, logged>>

\* The id is set in the connection's context, of which call_next's task gets a
\* copy.
Correlate(r) ==
    /\ stage[r] = "sent"
    /\ stage' = [stage EXCEPT ![r] = "tagged"]
    /\ context' = [context EXCEPT ![r].connection = r, ![r].app = r]
    /\ UNCHANGED <<profile, limits, progress, status, events, echoed, logged>>

\* A record gets the id that the context it is logged in has by then.
Log(r, places) ==
    logged' = [logged EXCEPT ![r] = @ \cup {<<p, context'[r][p]>> : p \in places}]

\* call_next returns a response: the context is cleared and the header set.  The
\* response is sent in the connection's task, and uvicorn's access record with
\* it, which goes through the root handler and its filter like any other
\* (log_config=None).  places: where else something is logged, before.
Respond(r, code, places) ==
    /\ status' = [status EXCEPT ![r] = code]
    /\ context' = [context EXCEPT ![r].connection = NoId]
    /\ echoed' = [echoed EXCEPT ![r] = r]
    /\ Log(r, places \cup {"connection"})

Answer(r, code, places) ==
    /\ stage' = [stage EXCEPT ![r] = "answered"]
    /\ Respond(r, code, places)

\* An exception passes through the middleware, which clears its context but has
\* no response to put the header on; _unhandled logs it in the connection's
\* task, as uvicorn does again, with its access record.
AnswerUnhandled(r) ==
    /\ stage' = [stage EXCEPT ![r] = "answered"]
    /\ status' = [status EXCEPT ![r] = 500]
    /\ context' = [context EXCEPT ![r].connection = NoId]
    /\ Log(r, {"connection"})
    /\ UNCHANGED echoed

----------------------------------------------------------------------------
\* AuthMiddleware.

\* /schemas is not among Settings.auth_excluded_paths.
Excluded(p) == p.route = "health"

ApiKeyOk(p) == AuthMode \in {"apikey", "both"} /\ p.apiKey = "good"
JwtOk(p)    == AuthMode \in {"jwt", "both"} /\ p.bearer = "good"

Authorized(p) == AuthMode = "none" \/ Excluded(p) \/ ApiKeyOk(p) \/ JwtOk(p)

\* Mutant: AuthMiddleware is added last, and runs outside the correlation id.
UnauthorizedOutside(r) ==
    /\ stage[r] = "sent"
    /\ ~Authorized(profile[r])
    /\ stage' = [stage EXCEPT ![r] = "answered"]
    /\ status' = [status EXCEPT ![r] = 401]
    /\ UNCHANGED <<profile, limits, progress, events, traces>>

Unauthorized(r) ==
    /\ stage[r] = "tagged"
    /\ ~Authorized(profile[r])
    /\ Answer(r, 401, IF AuthMode \in {"jwt", "both"} /\ profile[r].bearer = "bad"
                      THEN {"app"} ELSE {})
    /\ UNCHANGED <<profile, limits, progress, events>>

\* The key set cannot be fetched or does not have the token's key: neither is an
\* InvalidTokenError, and the bearer token is looked at whether or not the API
\* key is good.
KeyLookupRaises(r) ==
    /\ stage[r] = "tagged"
    /\ ~Excluded(profile[r])
    /\ AuthMode \in {"jwt", "both"} /\ profile[r].bearer # "none"
    /\ AnswerUnhandled(r)
    /\ UNCHANGED <<profile, limits, progress, events>>

Dispatch(r) ==
    /\ stage[r] = "tagged"
    /\ Authorized(profile[r])
    /\ stage' = [stage EXCEPT ![r] = "routed"]
    /\ UNCHANGED <<profile, limits, progress, status, events, traces>>

----------------------------------------------------------------------------
\* The read-only routes answer from memory, without a limit.  FastAPI validates
\* the body before the limited endpoint is called; the A2A executor announces a
\* new task, validates its payload itself and fails the task.

ReadOnly(p) == p.route \in {"health", "schemas"}

AnswerReadOnly(r) ==
    /\ stage[r] = "routed" /\ ReadOnly(profile[r])
    /\ Answer(r, 200, {})
    /\ UNCHANGED <<profile, limits, progress, events>>

Announced(p) == IF p.route = "a2a" /\ p.newTask THEN <<"task">> ELSE <<>>

RejectBody(r) ==
    /\ stage[r] = "routed" /\ ~ReadOnly(profile[r])
    /\ profile[r].body = "invalid"
    /\ IF profile[r].route = "a2a"
       THEN /\ Answer(r, 200, {})
            /\ events' = [events EXCEPT ![r] = Announced(profile[r]) \o <<"failed">>]
       ELSE Answer(r, 422, {}) /\ UNCHANGED events
    /\ UNCHANGED <<profile, limits, progress>>

Key(r) == <<profile[r].client, profile[r].route>>

\* Mutant: the hit is compared with the limit before it is counted.
WithinLimitOffByOne(r) == Metered(profile[r]) => hits[Key(r)] <= Limit

WithinLimit(r) == Metered(profile[r]) => hits[Key(r)] < Limit

Callable(r) == stage[r] = "routed" /\ ~ReadOnly(profile[r]) /\ profile[r].body = "valid"

RejectOverLimit(r) ==
    /\ Callable(r)
    /\ ~WithinLimit(r)
    /\ Answer(r, 429, {})
    /\ UNCHANGED <<profile, limits, progress, events>>

\* slowapi counts a refused hit too, which refuses no more than is refused
\* anyway, until the window is over.
Count(r) ==
    IF Metered(profile[r]) THEN hits' = [hits EXCEPT ![Key(r)] = @ + 1] ELSE UNCHANGED hits

\* asyncio.to_thread: the call waits for a thread, with a copy of the context.
ToThread(r) ==
    /\ stage' = [stage EXCEPT ![r] = "queued"]
    /\ queue' = Append(queue, r)
    /\ context' = [context EXCEPT ![r].thread = context[r].app]

\* The endpoint is called.  /extract and the executor hand the extraction to the
\* thread pool at once; /extract/document awaits file.read() first, and
\* /extract/stream resolves the schema on the event loop.
Admit(r) ==
    /\ Callable(r)
    /\ WithinLimit(r)
    /\ Count(r)
    /\ admitted' = [admitted EXCEPT ![r] = window]
    /\ IF profile[r].route \in {"document", "stream"}
       THEN stage' = [stage EXCEPT ![r] = "reading"] /\ UNCHANGED <<queue, context>>
       ELSE ToThread(r)
    /\ events' = [events EXCEPT ![r] = Announced(profile[r])]
    /\ UNCHANGED <<profile, window, called, outcome, status, echoed, logged>>

ReadFile(r) ==
    /\ stage[r] = "reading" /\ profile[r].route = "document"
    /\ ToThread(r)
    /\ UNCHANGED <<profile, limits, called, outcome, status, events, echoed, logged>>

\* The pre-flight of a stream fails, or the response is opened: its headers are
\* out before the model is called.
PreflightFails(r) ==
    /\ stage[r] = "reading" /\ profile[r].route = "stream"
    /\ Answer(r, 404, {})
    /\ outcome' = [outcome EXCEPT ![r] = "KeyError"]
    /\ UNCHANGED <<profile, limits, queue, called, events>>

OpenStream(r) ==
    /\ stage[r] = "reading" /\ profile[r].route = "stream"
    /\ stage' = [stage EXCEPT ![r] = "streaming"]
    /\ Respond(r, 200, {})
    /\ called' = [called EXCEPT ![r] = TRUE]
    /\ UNCHANGED <<profile, limits, queue, outcome, events>>

\* A result needs no record.  The generator logs an ExtractionError in the app's
\* task, whose context nobody clears; any other exception tears the response and
\* is logged where it ends up, in the connection's task.
StreamRecords(o) ==
    IF o = "result" THEN {} ELSE IF o = "ExtractionError" THEN {"app"} ELSE {"connection"}

EndStream(r) ==
    /\ stage[r] = "streaming"
    /\ UNCHANGED <<profile, limits, queue, called, status, events, context, echoed>>
    /\ \E o \in {"result", "ExtractionError", "KeyError", "BedrockError", "ValueError"} :
           outcome' = [outcome EXCEPT ![r] = o] /\ Log(r, StreamRecords(o))
    /\ stage' = [stage EXCEPT ![r] = "answered"]

\* A new minute: the fixed window of slowapi's memory storage.  There a window
\* starts with the first hit of its key; here all keys turn together.
NextWindow ==
    /\ window < MaxWindows
    /\ window' = window + 1
    /\ hits' = [k \in Clients \X Routes |-> 0]
    /\ UNCHANGED <<profile, stage, admitted, progress, status, events, traces>>

----------------------------------------------------------------------------
\* The thread pool.

\* Mutant: a thread is lost when the extraction raises.
StartLosesThreads(r) ==
    /\ queue # <<>> /\ r = Head(queue)
    /\ Cardinality(Running) + Cardinality({q \in Requests : status[q] \in {500, 502}}) < Workers
    /\ stage' = [stage EXCEPT ![r] = "opening"]
    /\ queue' = Tail(queue)
    /\ UNCHANGED <<profile, limits, called, outcome, status, events, traces>>

Start(r) ==
    /\ queue # <<>> /\ r = Head(queue)
    /\ Cardinality(Running) < Workers
    /\ stage' = [stage EXCEPT ![r] = "opening"]
    /\ queue' = Tail(queue)
    /\ UNCHANGED <<profile, limits, called, outcome, status, events, traces>>

\* The upload, where there is one, is accepted and the schema resolved; the
\* model is called, and what the extraction logs of that it logs in its thread.
Call(r) ==
    /\ stage[r] = "opening"
    /\ stage' = [stage EXCEPT ![r] = "calling"]
    /\ called' = [called EXCEPT ![r] = TRUE]
    /\ UNCHANGED <<profile, limits, queue, outcome, status, events, context, echoed>>
    /\ Log(r, {"thread"})

\* Mutant: ValueError is caught where UnsupportedDocumentError is.
HttpStatusOfValueError(route, o) ==
    IF o = "result" THEN 200
    ELSE IF o \in {"UnsupportedDocumentError", "ValueError"} /\ route = "document" THEN 422
    ELSE IF o = "KeyError" THEN 404
    ELSE IF o = "ExtractionError" THEN 502
    ELSE 500

\* The except clauses of the route; anything else ends in the app's handler of
\* unhandled exceptions.
HttpStatus(route, o) ==
    IF o = "result" THEN 200
    ELSE IF o = "UnsupportedDocumentError" /\ route = "document" THEN 422
    ELSE IF o = "KeyError" THEN 404
    ELSE IF o = "ExtractionError" THEN 502
    ELSE 500

\* Mutant: no return after the task has failed.
TaskEventsFallThrough(o) ==
    IF o = "result" THEN <<"artifact", "completed">>
    ELSE IF o \in {"KeyError", "ExtractionError"} THEN <<"failed", "artifact", "completed">>
    ELSE <<>>

\* The events after "task".  Other exceptions leave execute.
TaskEvents(o) ==
    IF o = "result" THEN <<"artifact", "completed">>
    ELSE IF o \in {"KeyError", "ExtractionError"} THEN <<"failed">>
    ELSE <<>>

\* The route and the executor log an ExtractionError, in the app's task.
EndRecords(o) == IF o = "ExtractionError" THEN {"app"} ELSE {}

\* The JSON-RPC response of an A2A request is a 200, also for an error.
End(r, o) ==
    /\ outcome' = [outcome EXCEPT ![r] = o]
    /\ IF profile[r].route = "a2a"
       THEN /\ Answer(r, 200, EndRecords(o))
            /\ events' = [events EXCEPT ![r] = @ \o TaskEvents(o)]
       ELSE /\ UNCHANGED events
            /\ IF HttpStatus(profile[r].route, o) = 500
               THEN AnswerUnhandled(r)
               ELSE Answer(r, HttpStatus(profile[r].route, o), EndRecords(o))
    /\ UNCHANGED <<profile, limits, queue, called>>

\* process_upload refuses the document or raises something else, or
\* resolve_schema raises: before the first call.
EndEarly(r) ==
    /\ stage[r] = "opening"
    /\ \/ End(r, "KeyError")
       \/ /\ profile[r].route = "document"
          /\ End(r, "UnsupportedDocumentError") \/ End(r, "PdfReadError")

\* The outcomes of ExtractionLoop once it has begun; ValueError stands for all
\* exceptions that no except clause of a route names.  The code of an extraction
\* raises no KeyError of its own here: one out of a library would be taken for
\* an unknown schema.
EndLate(r) ==
    /\ stage[r] = "calling"
    /\ \E o \in {"result", "ExtractionError", "BedrockError", "ValueError"} : End(r, o)

Handle(r) ==
    \/ Correlate(r) \/ Unauthorized(r) \/ KeyLookupRaises(r) \/ Dispatch(r)
    \/ AnswerReadOnly(r) \/ RejectBody(r) \/ RejectOverLimit(r) \/ Admit(r) \/ ReadFile(r)
    \/ PreflightFails(r) \/ OpenStream(r) \/ EndStream(r)
    \/ Start(r) \/ Call(r) \/ EndEarly(r) \/ EndLate(r)

Finished == (\A r \in Requests : stage[r] = "answered") /\ UNCHANGED vars

Next == (\E r \in Requests : Handle(r)) \/ NextWindow \/ Finished

Spec == Init /\ [][Next]_vars

\* The event loop comes back to every request, a free thread takes the oldest
\* waiting call, and every extraction and every stream ends
\* (ExtractionLoop!BegunRequestsEnd, StreamSession!OpenStreamEnds).
FairSpec == Spec /\ \A r \in Requests : WF_vars(Handle(r))

----------------------------------------------------------------------------
\* The type of every variable.
TypeOK ==
    /\ profile \in Traffic
    /\ stage \in [Requests -> {"sent", "tagged", "routed", "reading", "queued",
                               "opening", "calling", "streaming", "answered"}]
    /\ window \in 1 .. MaxWindows
    /\ hits \in [Clients \X Routes -> 0 .. Limit]
    /\ admitted \in [Requests -> 0 .. MaxWindows]
    /\ queue \in Seq(Requests)
    /\ called \in [Requests -> BOOLEAN]
    /\ outcome \in [Requests -> {"none", "result", "KeyError", "UnsupportedDocumentError",
                                 "PdfReadError", "ExtractionError", "BedrockError",
                                 "ValueError"}]
    /\ status \in [Requests -> {0, 200, 401, 404, 422, 429, 500, 502}]
    /\ events \in [Requests -> Seq({"task", "artifact", "completed", "failed"})]
    /\ context \in [Requests -> [Places -> Requests \cup {NoId}]]
    /\ echoed \in [Requests -> Requests \cup {NoId}]
    /\ logged \in [Requests -> SUBSET (Places \X (Requests \cup {NoId}))]

\* A client reaches each extraction route at most Limit times a minute, however
\* its requests are interleaved with those of others and however long they take:
\* on all of the routes rate_limit_string decorates, and with no burst on top.
QuotaIsKept ==
    \A k \in Clients \X Routes, w \in 1 .. MaxWindows :
        k[2] # "a2a" =>
            Cardinality({r \in Requests : Key(r) = k /\ admitted[r] = w}) <= Limit

\* A request refused with a 4xx has cost nothing: no call of Bedrock, and no
\* hit of anybody's quota unless it had got as far as the service.
RefusalsAreFree ==
    /\ \A r \in Requests : status[r] \in 400 .. 499 => ~called[r]
    /\ \A k \in Clients \X Routes :
        hits[k] <= Cardinality({r \in Requests : /\ Key(r) = k
                                                 /\ Authorized(profile[r])
                                                 /\ profile[r].body = "valid"
                                                 /\ status[r] # 429})

\* A task is announced first, unless it was under way, and told its end at most
\* once, last; it has its artifact just when it is completed, and that when the
\* extraction succeeded.
TaskIsToldOnce ==
    \A r \in Requests :
        LET e    == events[r]
            ends == {i \in DOMAIN e : e[i] \in {"completed", "failed"}}
        IN  /\ e # <<>> => profile[r].route = "a2a" /\ (e[1] = "task" <=> profile[r].newTask)
            /\ ends # {} => ends = {Len(e)}
            /\ \A i \in DOMAIN e : e[i] = "artifact" => i + 1 \in ends /\ e[i + 1] = "completed"
            /\ e # <<>> => (Last(e) = "completed" <=> outcome[r] = "result")

\* What the service logs on the event loop and on threads, after the headers of a
\* stream are sent too, has the id of its own request and never another's,
\* whatever other requests do in between.  Only what is logged in the task of the
\* connection has none: the middleware has cleared it by then.
RecordsCarryOwnId ==
    \A r \in Requests : logged[r] \subseteq {<<"app", r>>, <<"thread", r>>,
                                             <<"connection", NoId>>}

\* Every response is sent with the id of its request, refusals by AuthMiddleware
\* included; only a 500 has it in its body alone.
ResponsesEchoTheId ==
    \A r \in Requests : status[r] # 0 => echoed[r] = (IF status[r] = 500 THEN NoId ELSE r)

\* Every request is answered: no thread and no place in the queue is lost when
\* extractions fail.
EveryRequestAnswered == \A r \in Requests : stage[r] = "sent" ~> stage[r] = "answered"

----------------------------------------------------------------------------
(* Statements of the documentation that a run refutes.                     *)

\* The routes and the consumer guide: 502 is "Upstream Bedrock failure after
\* retry exhaustion".
UpstreamFailureIs502 ==
    \A r \in Requests :
        outcome[r] = "BedrockError" /\ profile[r].route \notin {"a2a", "stream"} => status[r] = 502

\* The consumer guide: every successful request emits its correlation_id in
\* "every JSON log line".
EveryLineHasTheId ==
    \A r \in Requests : status[r] = 200 => \A rec \in logged[r] : rec[2] = r
=============================================================================
