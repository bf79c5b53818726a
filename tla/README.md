# A TLA+ model of the message classifier service

The program classifies guest messages for a property-rental chat. It is a
FastAPI service (`source/`, Python 3.11, asyncio): a handler asks an LLM to
classify the message, validates the answer, decides whether a person must see
it, stores a record, and answers. Around it, a middleware logs every HTTP call.
This directory models the parts of it whose correctness depends on order,
concurrency, time or failure, checks them with TLC, and proves the core with
TLAPS.

## 1. The system

| Part | Source | State it keeps | Operations |
|---|---|---|---|
| Retry loop (`BaseAgent`) | `agents/base.py` | per call: attempt, list of attempt errors, the task awaiting the LLM | call under a deadline, parse, back off, give up |
| Message classifier | `agents/message_classifier_agent/` | none (pure functions over one answer) | build the prompt, parse and validate the answer, apply the guardrails |
| Processor | `main_processor.py` | per call: the record being built | `process`: agent, record, best-effort save |
| Classification repository | `db_clients/memory_svc.py`, `mongo_svc.py` | the records, by id | `save`, `get`, `ping`, `init_indexes`, `close` |
| HTTP service | `services/swagger_service.py` | per worker: the object graph; per call: request id | `POST /classify-message`, `GET /classifications/{id}`, `GET /health`, error handlers, start-up and shutdown |
| Request log | `services/api_request_log_middleware.py`, `db_clients/` | per call: copies of both bodies; the log entries | copy the bodies as they stream, log after the response |
| LLM client | `llm_clients/` | none | `complete`: answers, times out, raises, or stays silent |
| Settings, logger, prompts, launcher | `config/`, `utils/logger.py`, `prompt.py`, `run_swagger_service.py` | constants | – |
| Analytics answers | `docs/part_c/` | – | stand-alone SQL and Python queries |

How the parts interact. uvicorn starts one or more worker processes; in each,
one event loop runs the handlers of concurrent calls, which interleave only at
their awaits. A call enters the request-log middleware, then the request-id
middleware, then its route. `POST` calls `MainProcessor.process`, which awaits
the agent; the agent awaits the LLM inside `asyncio.wait_for`, which runs the
client in a task of its own. The processor then awaits the repository. The
response goes out through both middlewares, and the log entry is written after
it. Workers share nothing but Mongo; with the memory backend they share nothing
at all.

What is hard about it, and what correct means there:

* *Retry loop.* The deadline races the answer, and cancelling a task is not
  instantaneous. Correct: the verdict accounts for every LLM call that was made,
  no task outlives its attempt, `timeout` is reported only if nothing was ever
  answered, a call settles although the LLM may never answer, and it does so in
  the time the settings say.
* *Prompt.* The window on the conversation has a zero, callers write the context,
  and the clock runs on while the LLM is asked, more than once perhaps. Correct: the
  model sees the last turns in order, the delimiters are the template's, and the
  record tells what was asked, "now" included.
* *Schema and guardrails.* The same validator runs on the model's answers and
  on the service's own stored records, and a NaN passes every comparison by failing
  it. Correct: a record read back is the one answered; a message is automated exactly
  when nothing asks for a person.
* *Processor and repository.* Saving may fail, its reply may be lost, it may
  land late; a worker may die in between. Correct: `persisted: true` is never
  wrong, and `GET` and `POST` agree.
* *HTTP service.* Several calls on several workers, request ids that callers
  repeat. Correct: the status tells the verdict; every call ends.
* *Request log.* Copied before it is sent, written late and best-effort, with a
  fallback for documents Mongo refuses. Correct: an entry never contradicts the
  client, its bodies read as those exchanged, and one is lost only for a cause that
  can be named.
* *Worker life cycle.* Two stores are opened and closed in sequence, several
  workers do so on one Mongo, each step may fail, and calls write to the log after
  they have answered. Correct: a call finds its stores open and indexed until its
  entry is written, a worker told to stop does, and a failed start-up does not
  keep later ones from serving.

PROJECT.json lists the hazards line by line.

## 2. The modules

```
Verdicts ──┬── AgentContract ───────── ClassifyService ──┬── MCClassifyService
           │        ▲ refines              │ refines     └── ClassifyServiceProofs (TLAPS)
           │        │                      ▼                 └── ClassifyServiceRefinement (TLAPS)
           │        │                  RecordBook
           └── LLMAgent ──┬── MCLLMAgent
                  │       └── LLMAgentProofs (TLAPS)
                  │ refined by
               TimedAgent ──┬── MCTimedAgent
                            └── TimedAgentProofs (TLAPS, on LLMAgentProofs)
ConversationPrompt ──┬── MCConversationPrompt
                     └── ConversationPromptProofs (TLAPS)
ClassificationSchema ──┬── AnswerPipeline ── MCAnswerPipeline
                       └── AnswerPipelineProofs (TLAPS)
RequestLog ──┬── MCRequestLog
             └── RequestLogProofs (TLAPS)
WorkerLifecycle ──┬── MCWorkerLifecycle
                  └── WorkerLifecycleProofs (TLAPS)
```

**Verdicts** is the vocabulary of `base.py`: attempt errors, the verdicts a call
can end in, and how `attempts` and `reason` are derived from the list of errors.

**LLMAgent** is `BaseAgent._complete_with_retry`. A call is at a location (`pc`)
in the loop, and `tasks[c][k]` is the task that runs the client for its attempt
`k`. `ClientEnds` is the client (an answer, its own `TimeoutError`, any other
exception); `DeadlineExpires` is the timer of `wait_for`, after which the task
may still end by itself (`ClientEnds`) or be cancelled (`ClientCancelled`), as
`wait_for` of Python 3.11 awaits the task it cancels and returns its result if
it has one. `AttemptTimesOut`, `AttemptMalformed`, `AttemptSucceeds` and
`AttemptRaises` are the `except`/`else` clauses; `Retry` is the end of the
backoff sleep; `AbandonCall` is a cancellation from outside or the death of the
process. Parsing is the function constant `Parsed`.

**AgentContract** is what the loop promises: a count of LLM calls and a verdict
per call. It is small enough to build on, and LLMAgent is shown to implement it.

**TimedAgent** puts LLMAgent on a clock: each of its actions is one of LLMAgent's
with what it does to the call's stopwatch (`elapsed`) and timer (`due`), so that
`TimedSpec` implies `LLMAgent!Spec`. `Tick` is the passing of time, possible only
while every call in progress waits for something (`Urgent` is the code that would
run first). `Grace` is how long a client that has been cancelled may take to let
go, which `wait_for` waits for: zero for one that awaits, as the mock does.
`began` and `over` record when each attempt called the LLM and had failed; no
action reads them.

**ConversationPrompt** is the way from a request to the prompt: `Validate` (the
message is stripped before its length is checked, the turns are not), `Start`
(`process` reads the clock), `Ask` (`build_prompt`, and the LLM is asked). A text is what it says, the
white space around it and the number of its angle brackets; the prompt is the
parts that are filled into the template. `SliceFrom` is Python's `s[i:]`, negative
bounds and `-0` included. `AskAgain` is the retry loop asking with the same prompt,
`Settle` the record `process` makes afterwards. The clock moves (`Tick`) between any
two of these steps; `LocalTime` is any map from instants to the time zone's wall
clock, so that nothing rests on a constant offset.

**ClassificationSchema** is the pure half of the agent, as operators over an
answer: `strip_code_fence`, `map_unrecognized_intent`, `FieldsValid`,
`check_date_order`, `guardrail_reasons`, `apply_guardrails`. Strings are members
of a set `Text` with a function `Normalized` (strip and lower). A confidence is a
number or `NotANumber`: a NaN passes `Field(ge=0.0, le=1.0)` and is not below any
threshold, as every comparison with it is false (`low_confidence`).

**AnswerPipeline** follows one answer through the program: `Parse`, `Guard`,
`Save`, `Answer` (to the `POST`), `Load` (the Mongo repository validates what it
reads), `Serve` (FastAPI validates what it sends). `Rendered` is Starlette's
`JSONResponse`, which raises on a NaN: the call is then answered 500
(`ServerError`). `created_at` goes through `utc_now` and through BSON's
millisecond datetimes.

**ClassifyService** extends AgentContract (the agent is its contract) with the
HTTP calls, the workers, the repository and the log. `stage[r]` is the await at
which the handler of call `r` is. A save takes two steps (applied, then
acknowledged) and may raise before or after being applied; `InsertLands` and
`LogLands` are inserts that arrive after their worker gave up on them or died. A call stands for the
uuids it draws (record id, log entry id), which are therefore distinct, while
`request_id` comes from the caller and may repeat. `Crash` kills a worker, its
handlers and its memory stores. `backend` is the repository the service was
deployed with; everything that differs between the two is a condition on it. An
error of the request log is swallowed with a warning, after which the call is at
`"unlogged"`. `request[r].body` is what becomes of the body of the call in a log
entry: it is stored, refused (the fallback writes it as text), fails to be encoded
for an integer of more than eight bytes (`LogFails`), or is nested so deeply that it
cannot be dumped or copied (`LogFails` again) and perhaps not even decoded: then
`json.loads` raises a `RecursionError` in the `finally` clause of the middleware,
which catches a `ValueError` only, and the call ends at `"raised"`, without an entry
and without the warning (`EntryNotBuilt`). A body whose handler ran was parsed by
FastAPI, deeper in the stack, so that only a refused call can end there.
`Refusals` are the statuses of the two error handlers. An output in `Unrenderable`
has a NaN; the response that carries it becomes a 500 (`Rendered`), to the `POST` as
to every later `GET`.

**RecordBook** is what the API promises about records, without stages, replies or
lives of workers: a record is drawn up once and written once, possibly after its
client has been answered; a call is told one outcome; "persisted" is told only of
a record that is in the store then; a `GET` is told what is in the store, or that
it is not there; a record that cannot be served (`Unservable`) is told to nobody;
and only a volatile store loses, at once, all it holds. `Book` in
ClassifyService is the refinement mapping: `book` is `records`, `draft` is
`record`, `call` is the store a request uses and the id it asks for (`CallOf`),
`told` is what a response says of records (`ToldTo`), and the volatile stores are
the workers' memories. Stages, retries, the log, the health check and replies that
are lost are stutters of it; an insert that lands late is its `Write` after a
`Confirm` that told "not persisted".

**RequestLog** is the inside of the request-log middleware for one call: the
application receives and sends chunks, the middleware copies them up to the cap
before it passes them on, and the `finally` clause makes the entry. `Slice` is
Python's `b[:n]`, negative bounds included. The copies (`response_start`,
`response_body`) are of what the application handed over; what the client has got
(`got_status`, `got_body`) is less once it has left (`ClientLeaves`), for a send is
then dropped or raises (`IsLost`). A call that ends without a response is answered
500 outside the middleware, after its entry was made (`ServerAnswers`). `Text` is
`decode("utf-8", errors="replace")` over characters of one and of two bytes, the
fewest that can be cut in two, with one glyph per byte so that texts can be compared
place by place; `EntryNotBuilt` is the `RecursionError` of `_decode_body`. The module
is separate from ClassifyService because the two share no state but the entry, whose
status both carry; there, every response that is sent arrives, and what becomes of
one that does not is answered here.

**WorkerLifecycle** is `lifespan` and what runs it. `phase[w]` is where the process
of worker `w` is: `"building"` the five indexes of the two stores one by one
(`CreateIndex`, `StartupFails`), `"serving"`, `"draining"` the calls it has after
the signal to stop, `"closing"` between the two `close()`s. A call is reduced to
the store it may be using, the repository until its answer and then the request
log, as ClassifyService shows in detail. `CloseRaises` ends the process where it
is, without `service_stopped`. uvicorn and the container's restarts are external
and modelled from how the launcher and `lifespan` rely on them. The memory backend
has nothing to open or close.

**Fault variants.** Operators such as `FailAttempt_late` are plausible bugs of
the operator they are named after. No specification uses them; each shows, when
it takes the place of the original, that a property would notice.

## 3. What TLC checks

| Run | Instance | What it shows |
|---|---|---|
| `agent` | 2 calls, 2 retries (the default), 3 answers of which 1 unusable; symmetric calls | The list of errors tells what the LLM did; the reason is exact; no stray task; only retryable attempts are retried; the contract's safety |
| `agent_timed` | 1 call, 3 retries, a deadline of 3, backoffs of 1, 2 and 4, a grace of 1 | A call takes at most `(R+1)(T+G) + B(2^R - 1)`; an attempt cut off had its whole deadline; backoffs double; the contract with its fairness, so that a call settles although the LLM stays silent. The bound is tight: one less is violated |
| `prompt` | contexts of 0–4 turns where 3 are allowed, windows of 0–4, messages of 0–7 characters where 3 are allowed, a clock that runs on across the midnights of both zones, up to 2 attempts | The context is the last turns in order; no bracket of a request gets through; every prompt is the one the record tells: its message, its last turns, its time |
| `pipeline_mongo` | all combinations of 3 enum intents, 6 spellings outside or beside the enum and a missing one; confidence below, at and above the bounds and the threshold, and NaN; all orders and absences of dates; 0–2 code fences; complete and truncated bodies | Read-back identity, the guardrails both ways, the mapping of foreign intents. The memory repository, where only the response model validates again, is covered by the proof, which holds for both backends |
| `pipeline_unrecognized` | the same answers | *violated*: see finding 1 |
| `service` | 2 calls sharing one request id, 2 workers, 1 retry, both backends, database faults, 1 crash per worker, bodies Mongo stores and bodies it refuses, outputs that need a person, that need none, and with a NaN (3.5 million states) | `persisted` is truthful, `GET` agrees with `POST`, status and `needs_human` tell the verdict, the log is truthful; memory stores with their documented losses; step by step, the service implements RecordBook, and a call comes nearer to its end |
| `service_ends` | 2 calls, 1 worker, no retry, both backends, faults, 1 crash, bodies of all four kinds (0.5 million states) | Every call ends; what is stored or logged is final; the log loses an entry only for the causes named |
| `service_stored` | 1 call, no faults | *violated*: see finding 2 |
| `service_unlogged` | 1 call, no faults | *violated*: see finding 3 |
| `request_log` | bodies of up to 4 bytes, each a character of its own or half of one, all chunkings into 1 or 2 bytes, a cap of 3, a client that may leave at any moment (1.1 million states) | The copies are the bodies up to the cap; the entry reads as the bodies, a character at the cut replaced; it never contradicts what the client gets |
| `request_log_cap` | sizes in blocks of 2,048 bytes: a cap of 32 (64 KiB), valid requests of up to 50 (50 turns of 2,000 characters) | *violated*: see finding 4 |
| `lifecycle` | 2 workers, 2 calls in flight, 1 kill, 1 outage, 1 stop, at any moment each | Calls find their stores open and indexed; a reported stop is complete; stopping takes no step back and ends; so does starting, and the service comes back |

*Bounds.* The loop treats every attempt but the last alike, so two retries give a
first, a middle and a last attempt; two calls are enough for any interference
between calls, of which there is none to find in `LLMAgent` (they share no
variable of the loop) and which the proofs cover for any number. In the service,
calls interact in pairs (a fetch and the call it asks about, two calls with one
request id), so two are enough; two workers tell "this worker" from "another";
`MaxCrashes` bounds each worker's restarts, and one tells the lives before and
after. One retry suffices there, as the contract already abstracts the loop; in
`service_ends`, which looks at what comes after the verdict, none is needed. The other
kinds of body, those no save survives, concern one call and its log entry only: they
are in `service_ends`, where the entries a log may lose are looked at, and left out of
`service`, where they would multiply the states of the other call. The symmetry of
`service` is sound for `KeepsBook` too, a condition on initial states and steps in
which no call or worker is named; `service_ends`, which checks liveness, has none. In
the request log a cap of 3 and chunks of up to 2 let a chunk end before, at and
after the cap, and chunks follow once it is reached. Three retries give `TimedAgent`
three backoffs, the fewest whose doubling could go wrong twice; calls have clocks
of their own, so one is enough there. In `prompt` the limit of 3 turns and windows
up to 4 put conversations and windows on both sides of each other. In `lifecycle`
two workers create the indexes in any interleaving, the second call is one that
drains while the first is logged, and one kill, one outage and one stop meet each
other in every order; the proofs hold for any number of each.
Deadlock checking is off in every run: all calls eventually end and the model
stops, as the service does when nobody calls.

*Fairness.* `TimedSpec` assumes that time passes, that the event loop runs what is
ready, and that a cancelled client lets go: it awaits, and cancellation is delivered
at an await. Nothing is assumed of the LLM, of callers, or of crashes. `FairSpec` of
ClassifyService takes the agent's progress from `KeepsFairContract` and assumes that
the Mongo driver ends each operation with a reply or an error. That last assumption
is about the driver and the network: the code sets no deadline of its own on a save
(PROJECT.json, the hazard at `main_processor.py:91`). `FairSpec` of WorkerLifecycle
takes from there that calls end, and assumes that a process that is wanted is
started (`restart: unless-stopped`); stops, kills and outages need not happen, and
Mongo need not come back, which `EventuallyServes` has as its premise.

## 4. What is proved

`LLMAgentProofs` proves, for every set of calls, every set of answers and every
`MaxRetries` in `Nat`, the following about `LLMAgent!Spec`:

* `TypeCorrect`, `ErrorsTellWhatHappened`, `TimeoutReasonIsExact`,
  `NoTaskOutlivesItsAttempt`, `RetriesAreJustified`: the invariants of run
  `agent`;
* `Refinement`: `Spec => Contract!ContractSpec`.

They follow from one inductive invariant, `IInv`. The properties are not
inductive alone: that the reason is exact needs the list to have one error per
attempt at the end, which needs the length of the list at every location of the
loop (`Progress`); and that each error tells the truth needs each past attempt's
task to have ended, and later ones not to have begun (`History`). Each action has
its lemma; `LocalStep` says that a step of one call which keeps that call's part
keeps the whole. The refinement uses the same invariant: at `failed` the list has
exactly `max_attempts` entries, which is what `Failure` of the contract demands.

`AnswerPipelineProofs` proves, for every vocabulary of intents, every spelling,
threshold, clock and backend, the four invariants of run `pipeline_mongo`:
`TypeCorrect`, `ReadBack`, `AutomationIsExact`, `UnroutableIntentSurvives`. The
inductive invariant says at each stage what the output, the document and the view
are in terms of the raw answer. Its heart is that a *valid* output (`Validates`:
an intent of the enum, valid fields, and no `unrecognized_intent` beside an intent
other than `unknown`) is a fixed point of the before-validator
(`ValidIsMapped`), that everything `parse_output` accepts is valid
(`ParsedOutput`), that the guardrails keep it so (`GuardedIsValid`), and that an
instant of `utc_now` is one BSON keeps (`ClockIsExact`).

The assumptions are the named `ASSUME`s of the modules, which the runs evaluate.

`RequestLogProofs` proves, for every cap, byte set and way of cutting a body into
chunks, the four invariants of run `request_log`. The step of the copies is the lemma
`ExtendedIsPrefix`: extending the copy of `b` with the room left for chunk `c`
gives the copy of `b \o c`, because the room left is the cap less the length of
the copy, which is never negative. `EntryReadsRight` and `EntryIsTrueToTheClient`
compare the text of a prefix with that of the whole: a glyph depends on its byte and
the two beside it (`TextIsLocal`), and at the cut it is the same or a replacement
(`TextAtACut`). That the status agrees needs `ClientInv`: a status the client has got
is that of the started response, or, once the call is over, the server's own.

`ClassifyServiceProofs` proves, for any number of calls and workers, either backend,
any database faults and any number of crashes, the five invariants of run `service`
and `EveryLossHasACause` of run `service_ends` (`LossesHaveCauses`).
The inductive invariant says of each call what its stage implies (`KindAtStage`),
that a call in flight belongs to the present life of its worker (`LifeOf`), that
the verdict accounts for the LLM calls (`AgentPart`), and how record, response,
answer and the stores follow from each other (`RecordPart` to `FetchPart`). The
properties need it: that `persisted: true` survives other calls is that documents
are stored under their own ids (`StoreInv`), and that `GET` agrees with `POST` needs
that its client learnt the id from an answer that had gone out (`Known`). `OtherCall`
is the frame: a step of one call keeps the part of every other; `CrashStep` is the
one step that changes many.

`ClassifyServiceRefinement` proves three things of the *steps* of ClassifyService,
under the same generality:

* `ServiceKeepsBook`: `Spec => Book!BookSpec`. Each action has a lemma that names the
  action of RecordBook it implements (`ArrivalOpens`, `BuildDraws`, `InsertWrites`,
  `SaveWrites`, `AnswerConfirms`, `FetchFinds`, `ErrorTellsNothing`, `CrashLoses`);
  `QuietSteps` are the stutters.
* `StoredIsFinal`: nothing that is stored is altered or removed, but with a worker's
  memory (`StoresOnlyGrow`).
* `HandlersAdvance`: each move of a call brings it nearer to its end, by a measure of
  the stages and LLM calls it has left (`EveryMoveIsProgress`). That is the half of
  `EveryCallEnds` a proof can reach: a call makes a bounded number of moves.

`IInv` does not suffice for them. A `Write` of RecordBook is of a record that is not
there yet, so that the handler about to insert has not inserted before, and the same
for log entries, on the first attempt and on the fallback (`Unwritten`); and only a
`GET` asks for a record (`Targeted`), so that the call that is told "not found" is one.
`StepInv` is `IInv` with these two; `HandlerAppends` is the lemma that a step of one
call adds at most that call's documents to the stores, which is what keeps `Unwritten`
of the others.

The assumptions on the constants of ClassifyService are that `None` is not one of the
values it stands beside (`NoneAssumption`, `AskingAssumption`), that `MaxRetries` is a
natural number, that `NeedsHuman` and `Unrenderable` are about outputs
(`OutputsAssumption`), and that the kinds of bodies and the backends are those the
module names.

`WorkerLifecycleProofs` proves the four invariants of run `lifecycle` for any number
of workers, calls, kills, outages and stops. What an unfinished start-up has created
stays, and its count `built` tells which (`Progress`); a call is at a worker that
serves or drains (`Housed`). `StoppingAdvances` and `StartingAdvances` are the safety
halves of `StopEnds` and `EventuallyServes`: a service told to stop takes no call and
no step back, and one that is wanted, with Mongo up and nobody killing it, comes nearer
to serving with every move, the indexes that others create at the same time included.
They need that every process is on the way it is wanted on (`WantedInv`: none builds
or serves once the service is told to stop, none drains while it is wanted).

`TimedAgentProofs` proves, for every deadline, backoff, grace and retry budget,
`TimedRefinesLoop` (`TimedSpec => Spec`, which carries every theorem of
`LLMAgentProofs` over), `TimedKeepsContract` (with it, the safety of the contract),
`CallsSettleInTime` and `AttemptsHaveTheirTime`. `Clock` says
that attempt `k` begins no later than `Latest(k) = (k-1)(T+G) + B(2^(k-1) - 1)` and
what the timer shows at each place of the loop; `LatestStep` and `LatestFits` are the
arithmetic. The prover does not know powers, so that `2 ^ (k+1)` is twice `2 ^ k`
(`PowerDoubles`) is derived from the library's fact on the number of subsets of a
set (`FS_SUBSET`), counted over the subsets of `1..k` and `1..k+1`.

`ConversationPromptProofs` proves the four invariants of run `prompt` for every
request, window, limit, time zone and run of the clock. `RecordIsWhatWasAsked` rests
on the prompt having been built from the fields the record is made of, and on none of
them, the time least of all, changing between the first attempt and the record. `LastOnes` says what `s[-n:]` is for a positive
`n`, `Formatted` what `format_conversation_context` returns for any window.

Model-checked only: liveness, which the prover cannot reach. What safety owes to each
liveness property is proved, so that what rests on TLC is that the fair steps do come:

| Model-checked | Proved |
|---|---|
| `KeepsFairContract` | `KeepsContract`, of the timed loop too, and `SettlesInTime`, a bound on the time a call takes |
| `EveryCallEnds` | `EveryMoveIsProgress` |
| `StopEnds` | `StoppingIsProgress` |
| `EventuallyServes` | `StartingIsProgress` |

Every invariant and every action property of a passing run is proved.

## 5. Findings

1. An LLM that answers the intent `unknown` together with an
   `unrecognized_intent` of its own has it stored and served, although
   `schema.py:74` says the field is "Set by the service, never by the model"
   (run `pipeline_unrecognized`).
2. An exception of the LLM client that is neither a timeout nor an unusable
   answer leaves no record, although `swagger_service.py:235` says that every
   call, successful or failed, is stored (run `service_stored`).
3. A call whose JSON body holds an integer of more than eight bytes is missing
   from Mongo's request log even when the database is up: the encoder raises
   `OverflowError`, which the fallback of `mongo_svc.py:71` does not catch and the
   middleware swallows; `README.md:51` says every HTTP call is stored (run
   `service_unlogged`). A body nested too deep for `json.loads` is another cause, in
   either backend and without the warning (`EntryNotBuilt`, a cause
   `EveryLossHasACause` names).
4. A valid request may be larger than the cap of the request log, and is then
   logged as truncated text, although `api_request_log_middleware.py:15` says that
   real bodies stay far below it (run `request_log_cap`).

Not a finding of a run, but the same kind of thing: `docs/part_a/part_a_prompt_engineering.md:50`
gives `confidence` the range 0–1, while `schema.py:69` lets a NaN pass. Such an answer
is not escalated by `guardrails.py:35`; it is stored, and the call and every `GET` of
its record are answered 500. The model has the value (`NotANumber`, `Unrenderable`),
and `AutomatedExactlyIfClear`, `ReadBackIsWhatWasAnswered`, `AnswerTellsTheVerdict` and
`FetchAgreesWithAnswer` say what becomes of it. That Pydantic accepts NaN and that
Starlette refuses to render it is read from the versions the repository pins.

## 6. Not modelled

The wording of the prompt, of responses and of log lines, the logging set-up, the
parsing of settings and arguments, and the container files: text, constants or I/O
without a decision the properties depend on. The injection patterns are a set of
suspicious messages, JSON syntax is "complete or not", and a record's fields that
no decision reads (latencies among them) are left out. Clients that disconnect are
in RequestLog; in ClassifyService a response that is sent arrives. Of the log entries
that land late, only those of the first insert are modelled, not those of the second,
with the bodies as text. The time database operations take is not on the clock of `TimedAgent`,
for nothing in the code bounds it. `docs/part_c` are stand-alone queries for
collections and tables this service neither reads nor writes, evaluated by a
database.

The time a container has to stop is Docker's default, 10 s, while a call may take
15.6 s with the default settings (`SettlesInTime` with three attempts of 5 s and
backoffs of 0.2 s and 0.4 s): a deployment may kill a worker that drains. No line of
the repository promises otherwise, so it is a hazard and not a finding.

## 7. Plan

Done, in this order: `Verdicts`, `AgentContract` and `LLMAgent`;
`ClassificationSchema` and `AnswerPipeline`; `ClassifyService`; `RequestLog`;
`WorkerLifecycle`; `TimedAgent`; `ConversationPrompt`; the safety proofs of each;
`RecordBook` and its refinement; the progress of handlers and of the life cycle.

Left, should the code move on: idempotency keys (README.md lists them as future work),
which would give `ClassifyService` a property for retried requests; a deadline on
database operations, which would replace the assumption on the driver; and a stop
grace in the compose file, which would let `TimedAgent` bound the drain of
`WorkerLifecycle`.
