# Verification of bedrock-strands-agent

TLA+ models of the form-extraction service in `src/bedrock_strands_agent`, TLC
configurations that check them, and TLAPS proofs about every component.
Paths below are relative to the root of the repository; `service.py`,
`routes.py` and the like are in `src/bedrock_strands_agent/{extraction,api,agent,a2a}`.

    tlc -workers 2 -config ExtractionLoop.cfg MCExtractionLoop   # a run
    tlapm ExtractionLoopProofs.tla                               # the proofs

`PROJECT.json` lists the runs, maps every definition to the lines it models, and
lists the hazards (what is hard to test in this code) with the properties that
cover them.

## 1. The system

A request names a schema and brings a document. The service prompts a Bedrock
model for a JSON reply, projects the reply onto the schema, checks and scores
every field, and re-prompts when something fatal is wrong.

| Part | State it keeps | Operations | What makes it correct |
|---|---|---|---|
| Field coercion (`service.py` `_parse_json`, `_coerce_fields`, `validators.py`, `citations.py`, `confidence.py`) | none | finding the object in a reply, projection onto the schema, validators, two citation checks, confidence | one whole object is read or none; every confidence is a probability; a false citation earns nothing and a credited value is in the document; a missing required value zeroes the total |
| Extraction loop (`service.py` `_run_extraction_loop`) | attempt, the five `previous_*` lists | prompt, parse, coerce, judge, re-prompt, accept | no silent doubt, no early acceptance, prompts about the last reply, bounded calls, an end |
| Transient retry (`bedrock_retry.py`) | tries | call again, re-raise | bounded, nested in the loop's own bound |
| Vision grounding (`_verify_vision_grounding`, `multimodal.py`) | none | a second model call per attempt | fails open to every error of Bedrock's; its denials count |
| Document upload (`document.py`) | a PDFium document and its bitmaps | read pages, join text, rasterise | all the text or the first pages; no native memory left; a refused upload costs no prompt |
| Streaming (`extract_stream`, `sse_generator`) | accumulated deltas, the open response | forward deltas, judge the text once | at most one terminal event, last, and none only if the response breaks off; the pin is kept |
| Schema registry (`schemas/__init__.py`) | a global dictionary | register, resolve with an optional pin | pin or fail |
| MCP manager (`mcp.py`), `build_agent`, app lifespan | `_stack`, `_tools`, `_started`, subprocesses | start, stop | all or nothing; stop ends everything |
| HTTP front (`app.py`, `auth.py`, `ratelimit.py`, `routes.py`) | hits per client and route, thread pool queue | authenticate, validate, limit, offload or stream, map to a status | quotas; refusals are free; everybody is answered |
| Correlation id (`middleware.py`, `logging.py`) | a context variable per task and thread | set, copy, clear, log, echo | no record or response has another request's id, and what the service logs has its own |
| A2A executor (`executor.py`) | the task's events | validate, extract, publish | one end per task |
| Shared Strands `Agent` (`builder.py`) | a conversation | call, stream | requests do not see each other (they do, see section 6) |
| Prompts, tools, MCP sanitiser, redaction, log formats, telemetry, settings, CLI | templates | pure or I/O | not modelled, see section 7 |

How they interact: the routes and the A2A executor call the service on a thread
of the event loop's default pool (`asyncio.to_thread`); streaming stays on the
event loop. `extract_document` calls `process_upload` first and then the text or
the vision path of the loop. The loop calls the shared `Agent` (text) or Bedrock
directly (vision) through `invoke_with_retry`. The registry is a global that
anyone may change with `register_schema` at any time. The MCP manager is started
by `build_agent`, which copies its tools into the `Agent`, and stopped by the
lifespan hook of the app.

What is hard: three nested bounded loops; state that outlives an attempt; errors
that are not of the class a handler catches; a registry read twice; a response
whose headers are already sent; starts and stops that fail in the middle; a
context variable that tasks and threads copy while requests interleave; one
conversation for all requests.

## 2. Modules

| Module | Models |
|---|---|
| `FieldCoercion` | `_coerce_fields` and everything it calls, as operators on facts about an entry |
| `ReplyText` | `_parse_json` on tokens, and `citations.py` on characters, as operators |
| `CoercionCases` | one reply, parsed and coerced once: the bench for `FieldCoercion` and `ReplyText` |
| `ExtractionContract` | what a caller of an extraction may rely on (abstract) |
| `ExtractionLoop` | one request in the loop; EXTENDS `FieldCoercion`, implements `ExtractionContract` |
| `DocumentUpload` | `process_upload` |
| `DocumentRequest` | `extract_document`: `DocumentUpload` composed with `ExtractionLoop`; implements `ExtractionContract` as a whole |
| `StreamProtocol` | what a client of a stream may rely on (abstract) |
| `StreamSession` | one streamed request and the registry; EXTENDS `FieldCoercion`, implements `StreamProtocol` |
| `ServiceFront` | concurrent requests through middleware, limits, threads and streams, and status or task events, with their correlation ids |
| `SharedAgent` | how requests use the one Strands `Agent`; the library is external |
| `McpManager` | MCP subprocesses through starts, failures and stops |
| `ReplyTextProofs` | lemmas about folds, and about what the operators of `ReplyText` return |
| `CoercionCasesProofs`, `ExtractionLoopProofs`, `DocumentRequestProofs`, `DocumentRequestRefinement`, `StreamSessionProofs`, `ServiceFrontProofs`, `McpManagerProofs` | TLAPS proofs about the module they are named after |
| `MC*` | values of the constants for TLC |

**FieldCoercion.** An entry of the reply is a record of facts: the shape of its
value (`null`, empty, blank, text, other scalar), whether it matches the pattern,
passes the validator of its type, whether its excerpt occurs in the document and
the value in the excerpt, and its confidence. Dates are a type of their own
because their validator rewrites the value, which exempts them from the anchor
check. Confidence is exact: parts of `One = 200 * Scale`, the bonuses 12/10 and
11/10. `StoredValue` is `ExtractedField`'s stripping of white space: what is
judged and what is stored differ.

**ReplyText.** `Normalize` strips, casefolds and collapses white space character
by character; `Verbatim` and `Anchored` are the two substring checks. For
`_parse_json` a reply is a sequence of brackets, fences and prose: `StripFences`
and `Block` are the two regular expressions, `IsJson` stands for `json.loads` and
is external. `CoercionCases` starts from facts, from texts (`EntryOf` derives the
facts from them) or from tokens.

**ExtractionLoop.** `pc` is the position of the thread: `invoke` (the model is
being called), `verify` (the grounding call), `judge` (the decision). `attempt`
is the loop variable, `tries` the failed calls of the running
`invoke_with_retry`, `previous` the five lists, `ungrounded` the grounding
failures of the attempt, `outcome` the result or exception. `calls` counts
Bedrock calls and is never read by an action. Each call may fail transiently
(`TransientFailure`), for good (`InvokeRaises`, `VerifyRaises`), or return any
reply (`ReplyUnparseable`, `ReplyUncoercible`, `ReplyCoerced`, `VerifyReturns`);
`Accept` and `Reprompt` are the two ends of an attempt. An error that is not
retryable and a retryable one on the last try look the same to the caller and
are one action. `InvokeRaises` and `VerifyRaises` are the two classes of
exceptions that botocore raises; the verifier's `except` names those two, so
any other exception, of the rendering of its prompt or of either call, ends the
request (`RaisesOther`).

**StreamSession.** The response is pulled, so a delta and its frame are one step.
`registry` is the version registered under the requested name, `pin` the
version asked for, `prompted` the version in the prompt. `torn` is a response
broken off by an exception nobody catches.

**DocumentUpload.** One step per page of each loop; `bitmaps` and `doc` are the
native objects and change where the code opens and closes them. A file may be
what its type says, be refused, or make its library raise something that no
`except` names (`OpensRaises`). The rasterising loop loads a page before it looks
at the cap, so `LoadRaises` is possible for the first page beyond it.

**DocumentRequest.** `ReadUpload` is any step of `DocumentUpload`, `Extract` any
step of `ExtractionLoop`, instantiated with the path that the upload's result
chooses (`Mode`). An exception of the upload leaves the loop where it starts.

**ServiceFront.** A request is `sent`, `tagged` (with its correlation id),
`routed` (past authentication), perhaps `reading` its upload or its schema,
`queued`, `opening` (upload and schema) and `calling` on a thread, or
`streaming`, and `answered`. Queue and threads are those of the default executor.
`hits` is slowapi's fixed window. Its storage starts a window with the first hit
of a key, where `NextWindow` turns all of them together, and counts a refused hit
too, which refuses nothing more. `context` is the correlation id in each of
the three places a request has: the connection's task, where the middleware sets
and clears it, the task `call_next` makes with a copy of the context, and the
thread with a copy of that. A log record is the place that wrote it and the id
the context there has by then. `extraction failed` is logged in the app's task
(`EndRecords`, `StreamRecords`), what the extraction itself logs in its thread.
uvicorn, as `serve` runs it (`log_config=None`), logs through the same root
handler, in the connection's task: an access record for every response, and every
exception that reaches it. The middleware has cleared the id there by then.
`admitted`, `called`, `outcome`, `echoed` and `logged` are observations. An extraction ends in one of the outcomes that
`ExtractionLoop`, `StreamSession` and `DocumentUpload` have.

**SharedAgent.** `messages` is the conversation that the `Agent` keeps, by whose
turn each message is; `seen` what went to the model with a request's last call.
A call while another runs is refused (a version of the library that lets it
through shows requests more of each other); when old turns are dropped is left
open.

**McpManager.** A client is a position of `mcp_enabled_servers` in one call of
`start`. `stack`, `tools`, `started` are the manager's fields, `running` the
subprocesses, `agentTools` the copy in the `Agent`. `spoiled` records that some
`stop` has raised, for properties that hold up to then. `Unwind` is what runs by
itself once `stop` has been called.

## 3. Runs

All runs end within a minute or so; "states" are distinct states.

| Run | States | Bounds | Why they are enough |
|---|---|---|---|
| `coercion_cases` | 892,944 | every kind of field (12), every kind of entry, confidences below, at the ends of, inside and above the range, text and vision; short texts over a letter in two cases and white space; all replies of a few tokens | fields are coerced one by one; only `compute_overall` relates them, and the other fields are faultless there; a substring check is told apart from its swap by texts of two or three characters, a greedy match from a lazy one by two pairs of braces |
| `extraction_loop` | 72,714 | one required checked field with a pattern, one optional date, one name outside the schema; 3 attempts, 3 calls each; 31 replies, 5 verdicts | the defaults of the code are 2 retries and 3 calls; three attempts are what it takes for a failure to be two replies old |
| `document_request` | 79,110 | PDFs of up to 3 pages, 2 characters a page, cap of 7 characters and 2 pages; 2 attempts of 2 calls, 4 replies, 2 verdicts | texts below, at and above the cap with and without their separators; PDFs below, at and above the page cap; the loop itself is explored further in `extraction_loop` |
| `stream_session` | 477 | 2 versions and unversioned, 3 deltas, 14 replies | a version can be replaced and restored between any two steps |
| `service_front` | 300,845 | 3 requests in 42 mixes, 2 threads, limit 1, 2 minutes, mode `both` | a quota that is shared, threads that run out, a window that turns under requests in flight, every refusal on its route, a stream that outlives the middleware |
| `mcp_manager` | 521 | 2 servers, one enabled twice, 2 starts | a start fails at the first, a middle and the last server; a second start after every kind of stop |

Properties of the passing runs, by what they would catch:

- `coercion_cases`: `ConfidenceIsProbability` (only the clamp keeps it),
  `MissingRequiredZeroesOverall` (decided on the emitted value, computed on the
  stored one), `FalseCitationEarnsNothing`, `RefusedValueCosts` (with both its
  exceptions spelt out: the clamp, and a value that fails its pattern, which keeps
  the validator's bonus and is told apart by a warning only),
  `CreditedValueIsInDocument` (two checks with a normalisation each add up),
  `OneObjectIsRead` (when a reply with prose, fences or several objects is read,
  and as what).
- `extraction_loop`: `DoubtsAreFlagged`, `EarlyResultIsClean`,
  `RepromptIsAboutLastReply`, `CallsWithinBudget`, `ErrorNamesItsCause`,
  `VerifierFailsOpen` (to botocore's exceptions and to unusable answers),
  `BegunRequestsEnd` and the refinement `ImplementsContract`. They restate what is wrong with a reply from its entries,
  not with the operators the loop uses.
- `document_request`: `TextIsComplete`, `ImagesAreFirstPages`, `NothingLeaks`,
  `UploadEnds`, and the refinement `ImplementsContract` of the whole request.
- `stream_session`: `JudgedTextWasSent`, `PinIsKept`, `AnswerMatchesPrompt`,
  `OpenStreamEnds`, and the refinement `ImplementsProtocol`.
- `service_front`: `QuotaIsKept` (on each of the three decorated routes),
  `RefusalsAreFree`, `TaskIsToldOnce`, `RecordsCarryOwnId` (never another
  request's id, its own in the app's task and on threads, none in the
  connection's task), `ResponsesEchoTheId`, `EveryRequestAnswered`.
- `mcp_manager`: `NoOrphans`, `StopEndsEverything`, `ServesEveryServer`,
  `ToolsAreLive`, `StopCompletes`.

Each state machine also has its `TypeOK`. Each property has a mutant of the code that
breaks it, next to the definition it mutates (marked `Mutant:`).

`CHECK_DEADLOCK` is on everywhere: `Finished` is the only step of a state in
which the program is done.

## 4. Fairness

- `ExtractionLoop!FairSpec`: weak fairness of `Serve`. The loop runs on a thread
  of its own and every Bedrock call returns or raises, because botocore has
  connect and read timeouts. `Begin` is not fair: a request need not arrive.
- `StreamSession!FairSpec`: weak fairness of `Serve`: the server keeps pulling
  an open response, and the agent's stream yields, ends or raises. Registry
  changes and disconnects are not fair.
- `ServiceFront!FairSpec`: weak fairness per request: the event loop comes back
  to each, a free thread takes the oldest call, and extractions end, which is
  `BegunRequestsEnd` of the loop and `OpenStreamEnds` of a stream. The turn of the
  limiter's window is not fair.
- `DocumentRequest!RequestSpec`: weak fairness of `ReadUpload`, a plain sequence
  of calls, and of `Extract`, which follows in the same worker thread.
- `McpManager!FairSpec`: weak fairness of `Unwind`: `stop` runs in one thread to
  its end, and every client's `__exit__` returns or raises. Calling `stop` is not
  fair.

## 5. What is proved

Every theorem holds for every value of the constants that satisfies the module's
named assumptions, which ask for no more than what the code's types and settings
give: a finite non-empty schema and a positive `Scale` (`SchemaAssumption`),
replies and verdicts of their shapes, `MaxRetries` a natural number, `Attempts`
positive (`LoopAssumption`), positive limits, threads and page cap, finitely many
requests. TLC evaluates all of them on the runs.

| Module | Theorem | States |
|---|---|---|
| `CoercionCasesProofs` | `MissingZeroes`, `FalseCitations`, `RefusalCosts`, `ConfidencesAreProbabilities` | `MissingRequiredZeroesOverall`, `FalseCitationEarnsNothing`, `RefusedValueCosts`, `ConfidenceIsProbability` |
| | `AnyReply` | the first and the last of these for replies in which every field has any entry or none |
| | `CreditedInDocument`, `OneObjectRead` | `CreditedValueIsInDocument`, `OneObjectIsRead` |
| `ExtractionLoopProofs` | `TypeCorrect`, `NoSilentDoubt`, `EarlyResultClean`, `RepromptFaithful`, `ErrorsHaveCause`, `GroundingFailsOpen`, `CallBudgetKept` | `TypeOK`, `DoubtsAreFlagged`, `EarlyResultIsClean`, `RepromptIsAboutLastReply`, `ErrorNamesItsCause`, `VerifierFailsOpen`, `CallsWithinBudget` |
| | `LoopImplementsContract` | `ImplementsContract` |
| | `WorkRunsOut` | a request takes at most `(MaxRetries + 1) * (2 * Attempts + 1) + 1` steps |
| `DocumentRequestProofs` | `TypeCorrect`, `TextComplete`, `ImagesFirst`, `NoLeak` | `TypeOK`, `TextIsComplete`, `ImagesAreFirstPages`, `NothingLeaks`, of the reading and so of the request (`RequestReads`) |
| `DocumentRequestRefinement` | `RequestImplementsContract` | `ImplementsContract` of the whole request |
| | `RequestInvariance`, `RequestDoubtsFlagged`, `RequestCallBudget` | the loop's invariant and its main promises, of the whole request |
| | `RequestRouting` | no call before the upload has a text or an image, and no grounding call for a text |
| | `RequestWorkRunsOut` | a request takes a bounded number of steps, upload and loop together |
| `StreamSessionProofs` | `TypeCorrect`, `JudgedTextSent`, `PinKept`, `AnswerAboutPrompt` | `TypeOK`, `JudgedTextWasSent`, `PinIsKept`, `AnswerMatchesPrompt` |
| | `SessionImplementsProtocol` | `ImplementsProtocol` |
| | `WorkRunsOut` | a stream of `MaxDeltas` deltas takes at most `MaxDeltas + 3` steps |
| `ServiceFrontProofs` | `TypeCorrect`, `Quota`, `RefusalsFree`, `ToldOnce`, `RecordsOwn`, `HeadersEcho` | `TypeOK`, `QuotaIsKept`, `RefusalsAreFree`, `TaskIsToldOnce`, `RecordsCarryOwnId`, `ResponsesEchoTheId` |
| | `NobodyIsStuck` | the queue loses nobody, calls run on threads there are, and until all are answered some request meets the guards of a step |
| | `StepsAdvance` | every step but `NextWindow` brings one request nearer to its answer and leaves the stages of the others |
| `McpManagerProofs` | `TypeCorrect`, `OrphansNever`, `StopEnds`, `EveryServerServed`, `ToolsLive` | `TypeOK`, `NoOrphans`, `StopEndsEverything`, `ServesEveryServer`, `ToolsAreLive` |
| | `StopUnwinds` | once `stop` is called only the unwinding happens, and each step of it leaves fewer servers to close |

So every invariant that a passing run checks, and both refinements, are theorems.

Each module rests on an inductive invariant (`IInv`, and `RequestInv` of the
document request). Why a strengthening is needed, and what it says:

- *The loop.* What a result says depends on the reply the loop has in hand when
  it judges, and what is in `previous` on the reply before. `IInv` is `TypeOK`,
  `Progress` (what `pc` says about `reply`, `ungrounded` and `outcome`),
  `RepromptIsAboutLastReply`, `ResultIsDecided` (a result is that of the reply in
  hand, accepted with no fatal failure or on the last attempt) and
  `ErrorNamesItsCause`. The lemma `CoercedFacts` relates the failure lists of
  `CoerceFields` to the properties' own reading of the reply. The call budget has
  an invariant of its own, `CallsInv`, which is arithmetic of products: the calls
  made are at most those of the finished attempts plus those of the running one.
  `NextImplements` shows that every step is a step of the contract or none.
- *The upload.* The two page loops need their loop invariants: `ReadSoFar` and
  `RenderedSoFar` say that what is kept lists exactly the pages before `index`
  (with text, or all) in order, and `NativeMemory` that a bitmap is open just
  while its page is converted.
- *The document request.* The upload's invariant, the loop's, and that the loop
  is where it starts until there is a text or an image. `Extract` is then a step
  of the loop, whose refinement is cited; `ReadUpload` is a refusal or a stutter.
- *The stream.* `FramesFit` makes the frames the chunks of what is accumulated,
  plus one terminal frame just when the stream is closed; `VersionsFit` ties the
  prompt and the result to the pin.
- *The front.* `RowInv` says for each request what its stage and status say about
  its contexts, its header, its events and whether it was let
  through; a step changes one row (`OthersSame`). `QueueFits` says that a request
  waits once; `HitsFit` and `PastFits` make the counters cardinalities of the
  requests let through, in the running minute and in those that are over. The
  records have an induction of their own over `LogStep` (`LogsOwn`): a step logs
  in places whose context is the request's own, or in the connection's, which is
  clear whenever something is logged there.
- *The manager.* `StartIsInOrder`: the start loop has the tools of every server it
  has passed, and starts from a manager that is reset unless a stop has raised.
  With it the four safety properties are inductive together.
- *Coercion.* A reply is coerced once, so the invariant says that the result is
  `CoerceFields` of the reply, what was parsed `ParseJson` of it, and the entry
  `EntryOf` the texts; the theorems are then facts about the operators. The
  confidence arithmetic is monotone in its bonuses, also after the clamp; strictly
  so below it, which is where `RefusalCosts` gets its bound on the model's own
  confidence. Case folding and the collapse of white space cannot make a value occur in an excerpt
  it does not occur in, because `InText` is transitive on what `Normalize` returns.
  The regular expression of `_parse_json` finds the object because JSON is closed
  by its last bracket and not before (`FirstStaysOpen`): the block from the first
  brace to the last is a whole object just when one spans them (`WholeIsBlock`,
  `BlockIsWhole`).
- *Folds and sums.* The induction theorems of the library take a predicate as a
  parameter, which the provers cannot instantiate. `ReplyTextProofs` states the
  principle for a set instead (`SetInduction`: a set of subsets that contains the
  empty set and grows by one element contains all finite ones) and proves it
  from well-foundedness of the naturals; a fold exists and is what its equation
  says (`FoldExists`), which is enough for the folds over a text and for the sums
  over the fields.
- *Termination.* The liveness properties themselves are out of the prover's
  reach, but not what they rest on. A measure in the naturals (`Work`,
  `RequestWork`, `Distance` per request) falls with every step, so no behaviour
  goes on for ever; with the fairness of section 4 and a step that is possible
  until the end it has to arrive there. For the front the second half is proved
  too, as far as the guards of `Handle` say it (`NobodyIsStuck`): a request that
  waits is in the queue, and when nothing else can move the threads are free. The
  steps that do not use up the measure are the other actors': a change of the
  registry, the turn of the limiter's minute, the starts of a manager.

Only model-checked: the five liveness properties (`BegunRequestsEnd`,
`UploadEnds`, `OpenStreamEnds`, `EveryRequestAnswered`, `StopCompletes`), since
TLAPS has no `ENABLED` or fairness here.

## 6. Where code and documentation disagree

Refuted by a run:

| Run | Statement | What the code does |
|---|---|---|
| `loop_citation_retry` | "Fabricated citations trigger a retry" (ADR-0011) | citation failures take no part in the decision |
| `stream_terminal` | "exactly one terminal" event (`routes.py:176`) | exceptions other than `ExtractionError` tear the stream |
| `mcp_restart` | start starts every enabled server (`mcp.py:142`) | after a stop that raised it returns at once, with nothing running |
| `front_upstream` | 502 for an upstream failure after retries (`routes.py:110`, consumer guide, SLOs) | 500 |
| `front_log_ids` | the correlation id is on "every JSON log line" of a successful request, and on a line per request (consumer guide, lines 406-411) | the one line per request is uvicorn's access record, written after `middleware.py:35` has cleared the id and through the handler whose filter reads it (`__main__.py:22`); so is the exception of a torn stream. `make dev` runs uvicorn with a log configuration of its own, where the record is no JSON line |
| `shared_agent` | "The service is stateless and side-effect-free" (consumer guide, line 452) | one `Agent` keeps its messages over all text and streaming requests (`builder.py:66`, `service.py:574`), so the model is sent turns of earlier ones, one request after the other |

Met while modelling and visible in the modules, without a run of their own:

- ADR-0009 gives `3 x (1 + max_transient_retries)` calls as the worst case; a
  vision request may make twice as many (`CallBudget`).
- ADR-0009 makes a third failing attempt a 502 or 422; it is a 200 with warnings
  (`Accept`, `FinalWarnings`).
- The consumer guide (line 141) says the correlation id "threads through every
  response", and the README (line 115) that the header is echoed; the 500 of an unhandled
  exception has no header (`AnswerUnhandled`), and bodies of 404, 422, 429 and 502
  do not carry the id.
- ADR-0009 says schema validation failures are re-prompted; a reply without a
  `fields` array ends the request at once (`ReplyUncoercible`).
- ADR-0009 speaks of re-prompts with the full error history; `previous` holds the
  last reply's failures only (`RepromptIsAboutLastReply`).
- `confidence.py:29` says the divisor bounds the all-bonuses case by 1.0; the
  clamp does (`RawConfidence`). A confidence of `NaN` is clamped to 1.0.
- ADR-0004 gives the validator bonus to a value that passed (line 35); one that
  fails its pattern is never shown to the validator and keeps it (`ValidatorPassed`).
  The clamp hides the bonus's absence in a required field the model is sure of
  (`RefusedValueCosts`).
- `service.py:584` extracts "the first {...} block", and ADR-0006 (line 53) and
  ADR-0011 (lines 71-72) speak of the first object; the expression is greedy and
  takes the first opening to the last closing brace, so a reply with two objects
  is refused (`Block`, `OneObjectIsRead`).
- A required value of white space gets no `MISSING_REQUIRED`, is accepted on the
  first attempt and stored as `""`; `compute_overall` is then zero, as ADR-0004
  has it for an empty required field (`Empty`, `StoredValue`).
- `ratelimit.py:3` and `:49` and `routes.py:50` limit `/extract` only;
  `/extract/document` and `/extract/stream` are decorated too, with hits of their
  own (`Metered`).
- `RATE_LIMIT_BURST` is a "burst allowance on top of the steady rate"
  (`docs/deployment-variables.md:71`); nothing reads `rate_limit_burst`
  (`config.py:96`), and no request is let through above the limit (`QuotaIsKept`).
- `RASTER_MAX_PAGES` drops the pages beyond it; the first of them is loaded all the
  same, and when it does not load all of the upload is refused (`LoadRaises`).
- ADR-0014 says coerce and validation failures of a stream are `event: error`;
  a malformed entry tears the stream and a missing value is a warning of a result.
- `routes.py:178` rules out a half-opened stream for a bad pin; a registry change
  after the pre-flight produces one (`StartStream`).
- ADR-0007 says shutdown reaps the subprocesses; those of a build that failed
  halfway have no lifespan (`ListToolsFails`).
- `auth.py:8` accepts either credential in mode `both`; a key set that cannot be
  fetched is a 500 although the API key is good (`KeyLookupRaises`).
- ADR-0012 says the A2A endpoint is rate limited; limits are decorators of the
  routes and it has none (`Metered`).
- The agent card promises task failures; other exceptions leave a task without a
  terminal event (`TaskEvents`).

## 7. Not modelled

- The Strands `Agent` beyond what `SharedAgent` needs: its tool loop and its
  handling of concurrent calls belong to the library.
- The text of prompts, patterns, validators and dates: abstracted to their
  verdicts. Of JSON only its brackets are modelled.
- The MCP response sanitiser and the redaction of logs: substitutions of regular
  expressions block by block, without state; what could be stated about them is
  about the expressions.
- Formats of log records, spans, metrics: no control depends on them.
- `tools.py`, `config.py`, `__main__.py`, the agent card: stateless or
  sequential wrappers. A2A cancellation refuses, always.
- How an A2A task ends when the executor raises: the a2a-sdk decides.
- A `KeyError` out of a library during an extraction. The routes and the executor
  catch `KeyError` around all of it, for `resolve_schema`, and would answer 404
  after a call that was paid for; the code of an extraction raises none of its own
  there, so `EndLate` has none.

## 8. What is left

1. Feeding `SharedAgent`'s conversation into `ExtractionLoop`: a reply may then
   be about another request's document, which the citation checks partly catch.
2. A registry that changes under `ExtractionLoop` and `ServiceFront` (it does in
   `StreamSession`).
3. `ImplementsContract` and the request's promises under the front: `ServiceFront`
   takes the outcomes of an extraction as given.
