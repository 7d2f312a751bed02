# Context Rot Detector: a TLA+ model

Context Rot Detector ingests the events of an AI agent's session (messages,
tool calls, tool results) over HTTP, analyses a session on demand with a list
of detectors, and shows detections and a health score on a dashboard.  The
backend is FastAPI over PostgreSQL (`backend/app`), the dashboard Next.js
(`frontend/src`).  This directory holds TLA+ modules of the system, the TLC
configurations that check them, and TLAPS proofs.

## Inventory

| Component | State | Operations | Hard behaviour | What makes it correct |
|---|---|---|---|---|
| Ingestion service (`services/ingestion.py`, `repositories/*.py`) | rows of `agent_sessions`, `messages`, `tool_calls`, `tool_results` | `create_session`, `add_message`, `add_tool_call`, `add_tool_result` | read-then-write in concurrent requests, waits for unique keys, lost responses, numbers that do not fit | numbers unique and without gaps, owners stored, answers truthful, replays refused, every request answered |
| Analysis orchestration (`services/analysis.py`, `analysis/context.py`, `repositories/analysis.py`) | rows of `analysis_runs`, `detection_events`, `context_health_scores` | `run_analysis`, `get_analysis_status`, trend and explanation reads | reads in several statements while events arrive, overlapping analyses, a failure half-way | a run is stored whole or not at all, cites only what it covers, a fresh status is true |
| Analysis engine (`analysis/engine.py`) | signals and outcomes of a run | `run` over the detectors | one detector fails | its partial findings do not count, the others go on |
| Health score (`analysis/health.py`) | none | `compute_health_score` | types without a completed detector, all weights 0, penalties above 1 | findings show, unassessed is not clean, the average lies within its parts |
| LLM provider (`services/llm/openai_provider.py`, `unavailable.py`, `factory.py`) | calls made in this run | `_complete_json` behind six questions | retries, a budget shared by the semantic detectors, no provider, answers of any shape | cost bounded, the run ends, no provider means no findings |
| Deterministic detectors (`analysis/detectors/*.py`) | none | ten `detect(context)` | windows and indexes at the ends of a session, results that come late | later messages retract nothing, no change of a number is missed |
| Semantic detectors (`analysis/semantic/*.py`) | none | four `detect(context)` | several facts per message, confidences | a refuted fact shows, nothing below the floor is reported |
| Health trend and explanation (`analysis/health_trend.py`, `health_explain.py`) | none | two pure functions | few points, equal abscissas, unordered checkpoints | the direction agrees with the points |
| HTTP application (`main.py`, `auth.py`, `api/*.py`) | request times per client | routes, error answers, rate limit, body limit | concurrent requests of one client, a restart | at most the limit in any minute, refusals with cause |
| Dashboard (`services/dashboard.py`) | none | session overviews | several statements, sums over all runs | score and counts agree |
| Frontend client (`frontend/src/lib/api`, `RunAnalysisButton.tsx`, `app/api/.../route.ts`) | pending request | `analyzeSession` through the proxy | two 15 s timeouts before an analysis that may take minutes | what the user is told is true, the button comes back |
| Frontend pages (`frontend/src/app`) | the page shown | loads and refreshes of several reads | runs that land between the reads of a page | one's own run is shown, a score is not taken for more than it is |
| Evaluation harness (`backend/evaluation`) | results, metrics, calibration table | load, score each scenario, sum up | tolerated types, buckets, an exception | totals and scenarios add up |
| Migrations, seed | - | - | - | not modelled: DDL, demo data |

How they interact: routes call the services with a database session of their
own (`database.get_db`); services read and write through the repositories and
share nothing but the database.  `run_analysis` reads the rows ingestion
wrote, calls the engine, which calls the detectors, the semantic ones of which
call the LLM provider, and writes the results.  The button posts through a
Next.js route to the rate limiter and from there to `run_analysis`; a 201 has
the page refreshed, whose reads see whatever is stored at that moment.
Handlers are synchronous functions in a thread pool, so any two requests
interleave at their database statements; the rate limiter runs on the event
loop, one request at a time.

## Modules

| Module | Models |
|---|---|
| `Ingestion` | the ingestion requests and the three event tables |
| `EventStore` | what ingestion promises: an append-only store of events with atomic requests |
| `Analysis` | `Ingestion` composed with analyses and status requests on the same database |
| `AnalysisStore` | what an analysis promises: runs that appear whole, in one step |
| `Engine` | one run of the engine: detectors, LLM calls, score, status |
| `RateLimiter` | the sliding window in front of `POST /analyze` |
| `AnalyzeButton` | `RateLimiter` composed with browser tabs, the proxy route, their timers and the backend |
| `HealthTrend` | trend and explanation as operators over checkpoints |
| `Pages` | health page and session list put together from reads while runs are stored; uses `HealthTrend` |
| `Transcript` | a session as detectors see it |
| `StatementDetectors` | contradiction, stale context, fact loss |
| `DirectiveDetectors` | omission, instruction drift, tool-result neglect |
| `PatternDetectors` | repetition, topic drift, behaviour shift, context growth |
| `SemanticDetectors` | the four LLM detectors and what is made of an LLM's answers |
| `Detection` | a session that grows while all detectors look at it |
| `Evaluation` | the evaluation harness over grown and given scenarios |
| `IngestionProofs`, `AnalysisProofs`, `AnalyzeButtonProofs`, `EngineProofs`, `TrendProofs`, `PagesProofs`, `DetectionProofs` | TLAPS proofs; `AnalyzeButtonProofs` has those of `RateLimiter` too, `DetectionProofs` those of `Evaluation` |
| `SumTheorems` | lemmas about sums and counts over finite sets, for the proofs above |
| `MCIngestion`, `MCAnalysis`, `MCEngine`, `MCPages`, `MCDetection` | the instances TLC checks (`AnalyzeButton` needs none) |

Some definitions are marked as mutants, or as plausible bugs, of the definition
that follows them; no action uses them.  Substituting one for its original must
make TLC report the property that `PROJECT.json` pairs it with, which shows that
the property would notice it.

### Ingestion

A request is a process; `pc[r]` says which statement is next, and every action
is one statement of the handler with the early returns it decides.  Reads see
committed rows only (PostgreSQL's READ COMMITTED, which the code leaves at its
default).  `Insert` is the flush: it waits while another open transaction holds
the same unique key and fails with 409 when a committed row has it; a number
above `MaxInteger` fails with a 500, as the driver's DataError is translated by
nothing.  `Commit` makes the row visible, `Respond` answers.  `Fail` may strike
between any two statements, after the commit too: then the row is there and the
client does not know.

The three tables are one set of rows: a row has a position below an owner, a
message its `sequence_number` in its session, a call its `call_index` in its
message, a result position 0 in its call.  The three unique constraints of
`models/domain.py` become one.  Row ids are the ids of the requests that stored
them; a path may name only ids clients can have learnt, or one that does not
exist.  Contents, metadata and time stamps are left out.  Sessions and events
are never changed or deleted by the API, so there is no action for that.

`acknowledged` is a history variable: which requests had been answered 201 when
a request arrived.  It is read by `ReplayAfterAnswerRefused` only.

### EventStore and the refinement

`EventStore` has no statements and no transactions: `Append` stores an event in
one step, if its key is free and what it hangs below is stored, and `Tell`
answers a request, "created" only if its event is stored and "refused" only if
it is not; "failed" leaves the client in doubt.  `Ingestion` implements it with
`rows` and `sessions` mapped to themselves and `told` read off `pc`:
`Commit` is `Append`, `Respond`, the refusing statements and `Fail` are `Tell`,
all other steps stutter.

### Analysis

An analysis reads the three tables in three statements, each seeing what is
committed then, builds the context (calls of unread messages and results of
unread calls are dropped), runs the engine, flushes the run (which stamps
`created_at`), flushes the score (which stamps `measured_at`) unless nothing was
assessed, and commits everything at once.  The engine is left open here: any
outcome in `Outcomes` and, if `Citing`, any row of the context as evidence;
`Engine` says what outcomes there are.  Events are flushed between run and
score; as nobody sees a row before the commit, one citation in the draft stands
for them.  Nothing prevents two analyses of one session from overlapping.  A
status request takes four statements.  Time stamps are distinct: a clock ticks
when one is taken.

`known` is a history variable: the messages and runs stored when a status
request arrived, the least a truthful answer has to take into account.  The
field `messages` of a run is history too: what the run has read.

### AnalysisStore and the refinement

`AnalysisStore` has one action: `StoreRun` puts a run, its score unless nothing
was assessed, and at most one event (the citation of `Analysis`) into the store,
with a fresh id, fresh time stamps in order, a range that spans the messages
read, and evidence from the run's own session.  `Analysis` implements it with
all its variables mapped to themselves; `CommitAnalysis` is `StoreRun`.  The
variable `rows` is an input of the store: ingestion changes it as it likes.

### Engine

The engine's loop calls the detectors in order.  What a detector finds is left
open: any penalty of `Penalties`, or an exception.  A semantic detector makes
LLM calls, each with its attempts, any of which may be answered, fail for a
retry, or be rejected; `calls` is the budget, which all semantic detectors of a
run share.  After the last detector `Score` computes which types were assessed,
the six dimension scores, the overall score and the status `run_analysis` gives
the run.  Scores and penalties are integers in thousandths, the precision the
code rounds to: a penalty below half a thousandth (a confidence under 0.004 at
the default penalty per signal) would round to nothing in the code and is not in
any instance.  `TypeOf`, `TypesOf` and the order of the detectors are the code's;
no detector is registered twice.

### RateLimiter

`limit_analysis_rate` keeps the time stamps of each client address.  As the
middleware awaits nothing between taking the time and leaving its lock, a
request is one step: it drops what lies a window or more back and either takes a
slot (`Admit`) or is refused (`Refuse`).  `Restart` empties the table.
`admitted` and `refused` are history variables, since the properties are about
what the limiter itself has forgotten.  The table of addresses never shrinks in
the code, which the model does not show: its clients are a fixed set.

### AnalyzeButton

The POST of one press of the button is a record with a place for each hop:
browser, proxy, backend.  Browser and proxy each time out (`BrowserTimeout`,
`ProxyTimeout`), a reload abandons the request, the backend goes on regardless
(`EndAnalysis`) and may restart.  A 201 refreshes the page (`refreshed`).  What
a status means is kept, response bodies are not: a body that cannot be read
after a 201 keeps its status in `apiFetch`.  Timers are punctual: `PassTime`
does not step over a deadline.  To the limiter all tabs are one client, the
proxy, so they share its limit.  Where `route.ts` and `client.ts` use one
constant for both timers so does the model (`Timeout`).

### HealthTrend and Pages

`HealthTrend` translates the least-squares slope with integer arithmetic: scores
are thousandths, and slope thresholds are compared by cross-multiplication.
`context_length` of a checkpoint is the run's `input_sequence_end`, not a count
of messages.

`Pages` puts the health page together from four reads and the session list from
three, in the order the code imposes (`ReadAfter`): the page's requests run at
once, the explanation follows the trend within one request, and the statements
of the list follow one another.  Between any two of them analyses store runs
(`StoreRun`, one step, which `ImplementsAnalysisStore` justifies) and messages
arrive.  An analysis creates its run and measures its score at two times, and
overlapping analyses may take these in different orders.  A tab is told of a
run only if it is stored (`ToldTruth` of `AnalyzeButton` justifies this) and
then refreshes; a refresh asked for while a page loads waits for it.

`ScoreNotTakenForMore` holds whatever lands between a page's reads and in
whichever order runs are created and measured, and it names the two cases in
which the code leaves out the notice.  The notice hangs on the newest run by
`created_at` as the status read saw it, the score on the newest by `measured_at`
as the scores read saw it.  So the scored run may have been stored after the
status was read; or the status is of a newer, complete run that was stored after
the scores were read, or whose analysis ran within the scored run's, from which
on every load of the page shows a partial run's score beside a complete run's
status.  All of these are reached in the run `pages`.  A run the tab was told of
is in no such gap.

Trend and explanation judge a change by two thresholds, 0.010 and 0.005.
`TwoCheckpointsAgree` is exact about it: of two checkpoints 0.944 and 0.950 the
page says "stable" and "increased", and it does so between the thresholds only.
`OneStory` applies it to pages whose two queries saw the same runs, and says of
all others that they never explain a first run beside a trend.  The run `pages`
has changes between the thresholds and above both, rising and falling, and none.

What `Pages` deliberately does not claim: a session list may count the claims of
a run whose events it has not counted.  "Improved" may stand above reasons that got worse:
direction and reasons come from scores and counts.

### Transcript, detectors, Detection

A text is what the regular expressions and word sets of the detectors can tell
of it (its fields are listed in `Transcript`); tokenisation, the statement
pattern and `SequenceMatcher` themselves are abstracted, the last to the
constant `Similarity`.  What a text states (`statements`) and what it merely
contains (`numbers`, `wordings`) are fields of their own: `contradiction.py:203`
looks for a new value in the whole message of another author, so that "call me
in 30 minutes" suppresses a flip to "30 seconds".  `Supplies` does the same, and
`FlipNotHidden` promises a finding only where no such message has the numbers or
the wording of a value anywhere in it.  Ratios and confidences are thousandths; comparisons
that the code makes with floats at a boundary are exact in the model.
Standard deviations are compared by their squares.  `SemanticDetectors` takes
the provider as a constant function from questions to raw JSON fields and
translates the coercion: a missing confidence is 0, NaN becomes 1.0 (`min(1.0,
nan)`), and a quoted `"false"` is true.  `UNSUPPORTED` has a severity in the code
that no verdict reaches; it is kept.

In `Detection` a session grows, by messages at its end, by messages that arrive
late below an explicit number (see `Analysis`), and by late tool results;
detectors are evaluated in every state, as analyses do.  `OmissionRaises` is the
index past the end in `omission.py`: the detector raises when a question on a
marked topic is the session's last message.  The engine isolates this
(`Engine`), so the omission findings of that run are missing; hence the
exception in `FindingsPersist`.  A message that arrives late below others may
retract findings: consecutive statements are no longer neighbours.

### Evaluation

The harness's corpus is one scenario grown by `Detection` with any label of
`Labels`, followed by fixed ones.  `LoadCorpus` rejects a type that is both
expected and tolerated.  `Score` runs the detectors on one scenario, judges each
type, and fills the calibration table; the harness has no engine around the
detectors, so the omission exception ends the evaluation (`ScoreRaises`).  A
tolerated type is not counted against precision, but its signals do enter the
calibration table as incorrect (`harness.py:404`), although the comment at lines
84-86 of that file calls them neutral; the model follows the code.

`Missed`, `Spurious` and `ExactMatch` are what the list of mismatching scenarios
is made of, `metrics` what the tables are.  `TotalsMatchScenarios` relates the
sums and the list and does not hide where they differ: `spurious` leaves
informational types out and `missed` does not, so the headline's false negatives
are those missed types that are scored, and a scenario may be listed as a mismatch
beside a headline without errors, but only if it has missed an informational
type.  A headline with errors always comes with a mismatch in the list.

## Runs

| Run | Instance | What it shows |
|---|---|---|
| `ingest_messages` | 1 session, 3 requests that race for one number or one call's result, 1 provider id, `MaxInteger` 2, weak fairness; 195 000 states | Types; no gap in server numbers; a 409 for a lost race has a winner; a replay sent after a 201 is refused; every request is answered; `Ingestion` implements `EventStore` |
| `ingest_tools` | 2 sessions, 4 requests for messages, calls and results below any row; 800 000 states | No key stored twice in any table: one message for a number, one call for an index, one result for a call; answers agree with the store; parents are stored rows of the same session |
| `ingest_replay` | 1 session, 2 requests | **Violated** (`ProviderIdStoredOnce`): two concurrent deliveries of one upstream event are both stored |
| `analysis_context` | 1 session, 3 ingestion requests, 1 analysis of any outcome; 319 000 states | Types; run, score and events stored together; evidence within the run's input range; `Analysis` implements `AnalysisStore` |
| `analysis_status` | 1 session, 2 messages, 2 analyses, 1 status request; 1.8 million states | A fresh status covers what was stored when it was asked; it never goes back behind a stored run |
| `analysis_late_number` | the same with 1 analysis and an explicit number 2 | **Violated** (`FreshStatusCovers`): a message that commits late under a lower number is not counted |
| `engine` | 5 detectors, penalties 75 and 600, 2 calls, 1 retry, unequal weights, weak fairness | Scores in range; cost bounded; only completed detectors' signals; findings show; overall score and status agree; the run ends |
| `engine_failed_clean` | the same without a provider | **Violated** (`FailedTypeNotClean`): a dimension scores 1.0 though a detector of one of its types failed |
| `analyze_button` | 1 tab, 3 presses, limit 2, window 2, clock up to 4, timers of 1, fairness of time and the browser's timer; 1.2 million states | Types; never more than the limit in a window; refusals have a cause and an honest Retry-After; users are told the truth; the button comes back |
| `pages` | 1 tab, 2 analyses of three outcomes beside none or one earlier run, 2 messages; 353 000 states | A page shows the run its tab was told of; its score carries the notice it needs but in the two cases named; the list's score is not older than its counts; the trend is borne out by checkpoints and differs from the explanation only between their thresholds |
| `detection` | sessions of up to 5 messages of six kinds with late results, two providers; scenarios of up to 3 messages and one of a corpus; 63 000 states | Findings persist; neglect is settled once its window is full; no change of a number is hidden; the omission detector is safe when the assistant spoke last; no provider, no findings; refuted claims show; totals and scenarios add up; every signal is calibrated once |
| `semantic_floor` | the detectors with the code's own windows | **Violated** (`EmittedClearsFloor`): a fact called unsupported at confidence 0.1 is reported |

### Bounds

* Races in ingestion are between two requests for one key.  Three requests give
  a race with a bystander that commits before, between or after; four are the
  least with which two results of one call race (message, call, result,
  result).  The proofs below need no bound.
* `MaxInteger` 2 with the explicit number 2 puts the automatic number at, and
  one above, the largest value a column holds.  In the code it is 2147483647.
* Two analyses overlap in every way two can; a third adds no new pair.
* The five detectors of the engine contain every relation the score knows: two
  types in one dimension (`omission`, `fact_loss`), two detectors of one type
  (`contradiction`, `semantic_contradiction`), and a type of its own
  (`claim_support`).  Penalty 75 is a finding of confidence 0.5; 600 is several
  findings, two of which exceed 1000 and so reach the floor.  The weights give
  one dimension double weight and two none, so that both averages are taken.
* Three presses against a limit of 2 reach a refusal and, as presses may come
  from time 0 to 2 and the window is 2, an admission after a dropped time stamp.
  Browser and proxy time out at 1, before, at or after the window's end.
* Two analyses and an earlier run give up to three checkpoints, the least with
  which a regression can disagree with its last two points.  Scores 944 and 957
  before 950 put a rise and a fall between the thresholds of trend and
  explanation.
* The windows of the detectors are constants.  The run `detection` shrinks them
  (lookbacks and look-aheads 2, histories 2, blocks of one message) so that
  sessions of five messages are longer than every window; `semantic_floor` has
  the values of the code, which the modules name beside each constant.
  Thresholds are the code's.  Message sizes lie between 20 and 61 characters,
  from the minimum of 20 on, and small because TLC computes with 32 bits.
* The clock and all counters are bounded by the number of requests.
* Requests, analyses and readers are symmetric where a cfg says so; a run with a
  liveness property uses no symmetry.

Deadlock checking is off in every run: once each request of an instance is
answered, or the bound on messages, presses or scenarios is reached, the system
rests.

### Fairness

`Ingestion.FairSpec` asks weak fairness of each request's handler: a thread of
the server's pool that can take its next statement takes it.  A wait for a key
ends because its holder is such a thread too.  Clients and failures have no
fairness.  `Engine.FairSpec` asks weak fairness of the run's one thread; an LLM
attempt cannot hang, for every one has a timeout (`llm_timeout_seconds`).
`AnalyzeButton.FairButtonSpec` asks that time pass, and that a timer that has
run out fire, in the browser and in the proxy: `AbortSignal.timeout` does that.
Neither the backend nor the network is asked to answer.

## Disagreements with the code's own words

Recorded as findings, each with a run that TLC finds violated:

* `ProviderIdStoredOnce` (`schemas/messages.py`): the index on
  `provider_message_id` is not unique, so the lookup is all that protects it.
  What does hold, and is proved, is `ReplayAfterAnswerRefused`.
* `FreshStatusCovers` (`schemas/analysis.py`, `AnalysisStatusRead`): staleness is
  judged by number, but messages do not commit in the order of their numbers once
  clients choose some.  With server numbers alone it holds, and is proved
  (`FreshStatusTrue`).
* `FailedTypeNotClean` (`analysis/engine.py`): failure is recorded per type,
  scores are per dimension, and information_retention and only it has two types.
* `EmittedClearsFloor` (`analysis/semantic/detectors.py`): the docstring's floor
  for every result is not applied to claim support.

Met on the way and not kept as runs: a dimension is unassessed when *one* of its
detectors failed, not every one (`analysis/health.py`, `HealthScoreResult`);
without an LLM provider the hallucination dimension is 1.0, since the only
detector of its type completes without having looked; semantic detectors are not
independent of each other, since they share the call budget; two overlapping
analyses can leave a latest run (by `created_at`) beside a newest score (by
`measured_at`) of the other one (the second case of `ScoreNotTakenForMore`); `explain_latest_health_change` compares the two
newest *scores*, and so skips runs in which everything failed; what
`stale_context` calls assistant turns is a difference of sequence numbers; the
calibration table counts tolerated signals as incorrect (above); an expected
informational type that is missed makes its scenario a mismatch
(`harness.py:281`), although the comment at lines 48-49 of that file says that
informational types must not be treated as detection failures, and
`evaluation/corpus/topic_drift_agent_loses_thread.yaml` expects one
(`TotalsMatchScenarios` states what is left of the agreement).

## Proofs

Every invariant and every action property of the passing runs is a theorem.  The
theorems hold for every value of the constants that satisfies the named
assumptions of the modules (`ConstantsAssumption`, `OutcomesAssumption`,
`RunAssumption`, `EngineAssumption`, `NoneAssumption`, `LimiterAssumption`,
`ButtonAssumption`, `PagesAssumption`, `DetectionAssumption`,
`EvaluationAssumption`), which give the constants their types and little more.
None needs a bound on requests, sessions, analyses, tabs, messages, scenarios or
time.  Two theorems have a condition of their own, stated with them:
`FreshStatusTrue` and `FindingsAreShown`.

`IngestionProofs`

* `TypeCorrect`: `Spec => []TypeOK`.  `TypeOK` says that stored positions fit
  their column, which a commit preserves only because the flush before it has
  checked that; `TypeInv` adds `Bounded`, which says so of open transactions.
* `PositionsUnique`: `Spec => []UniquePositions`.  Uniqueness of the rows is not
  inductive either: a commit adds a row without looking.  `StoreInv` adds
  `KeysHeld` (the key of an open transaction belongs to no row and to no other
  open transaction: what waiting and checking at the flush establish, and what
  `Commit` uses up), `RowOrigin` (a row is what its request asked for, and that
  request has committed) and `HoldingHasRow`.
* `AnswersTruthful`: `Spec => []AnswersMatchStore`, from the same invariant.

`StoreStep` has one step per action.  Most of them are steps of a request that
holds no key and has no row, before and after: `QuietStep` deals with them once.
The work is in `Insert`, `Commit`, `Respond` and `Fail`.

From `StoreInv` and the lemmas that a step moves one request (`MovesOrRests`),
that rows only grow (`Growth`) and that a request keeps what it has settled on
(`Settled`):

* `ParentsStored` (`OwnersStored`): `OwnerInv` adds what each request has looked
  up by the time of its next statement.
* `ConflictsWon` (`ConflictHasWinner`): inductive with `StoreInv`.
* `NumbersLeaveNoGap` (`AutoNumbersLeaveNoGap`): `NumberInv` adds that the row
  below a chosen number is stored from the statement that chose it on.
* `ReplaysRefused` (`ReplayAfterAnswerRefused`): `ReplayInv` adds that a request
  past the duplicate look-up has met no answered delivery of its event, and that
  answers known to a request had been given before it came.
* `StoreImplemented`: `Spec => ImplementsEventStore`.

`AnalysisProofs`, beside any ingestion, since `SystemSpec => Spec`:

* `AnalysisTypeCorrect`, `RunsStoredWhole` (`RunsAtomic`) and `EvidenceCovered`
  (`EvidenceInInput`) from `AnalysisInv`: what an analysis has read is of its
  session, what it cites is in the context (`Grounded`); time stamps of drafts
  are past and nobody else's (`Dated`); what is stored belongs to analyses that
  have committed (`Committed`).
* `ResultsImplemented`: `SystemSpec => ImplementsAnalysisStore`.
* `StatusNeverGoesBack` (`StatusSeesStoredRuns`).
* `FreshStatusTrue`: if no payload of a message brings a number, and requests
  are finitely many (they are counted), `SystemSpec => []FreshStatusCovers`.
  The argument: numbers are dense (`DenseInv`), so a message that commits has a
  number above all that are stored (`NewMessage`); so whoever has read a message
  has read all below it (`CoverInv`); so what a run has not read is numbered
  above its range, where the last count looks (`FreshInv`).  The run
  `analysis_late_number` shows that the condition on numbers cannot go.

`AnalyzeButtonProofs`, the limiter: `WindowBounded`, `RefusalsJustified`, `RetryAfterHonest` and
`LimiterTypeCorrect` from `LimiterInv`: the time stamps kept are the last of the
admissions, all dropped ones lie a window or more back, no more than the limit
are kept, any admission lies a window after the one `Limit` before it, and the
last refusal had its cause.

The button and what is behind it: `ButtonTypeCorrect`, and `UsersToldTruth` (`ToldTruth`)
from `ButtonInv` (a hop repeats what the hop behind it has said, and a pending
button waits for a press of its own tab).  `ButtonSpec => LimiterSpec`, whence
`ButtonWindowBounded`: composed with button and proxy the limiter keeps its
bound.

`SumTheorems` proves what the later modules need of `SumFunctionOnSet` and
`Cardinality`.  The sum of the community modules recurs over an element chosen
from the set; its equation is derived from the well-foundedness of the numbers,
by taking the least cardinality at which it would fail (`LeastNatural`,
`FiniteInduct`).  From it follow the bounds, the effect of one changed entry
(`SumUpdate`, `SumOneMore`), linearity, double sums over pairs (`SumOfPairs`), and
that a disjoint classification counts everything once (`CountedOnce`).

`EngineProofs`, from `RunInv`:

* `FailedLeaveNothing` (`SignalsOfCompletedDetectors`) from `TurnInv`: a detector
  has its turn once, and signals are of those that returned.
* `CostIsBounded` (`CostBounded`) from `CostInv`: the calls of all detectors add
  up to no more than the budget, and each finished call has sent no more than
  its attempts.  Neither bound is inductive without the other one and without
  the place of the call in progress.
* `RunTyped` (`TypeOK`), `VerdictsConsistent` (`VerdictConsistent`): `ScoreInv`
  says the result is what `Score` computes, and `OverallBetween` that a weighted
  mean, rounded, stays between the worst and the best of its parts.
* `FindingsAreShown` (`FindingsShow`), where `FindingsWeigh`: with weights uneven
  enough, rounding the overall score hides a small finding.  `EqualWeightsWeigh`
  shows that equal weights, the default, and penalties of more than 3
  thousandths suffice; TLC evaluates the condition on the run `engine`.  At the
  default 0.15 per signal that is a confidence above 0.02; the findings of every
  detector but claim support, which has no floor, lie above it.  `SignalInv` gives
  each signal its share of the penalty of its dimension.

`TrendProofs`, for any sequence of checkpoints; the least-squares slope is
rewritten as a sum over pairs of checkpoints (`SpreadSlope`, `OrderSlope`), whose
signs are known:

* `TrendIsBetweenSteps`: a trend of a given size has a step of that size.
* `DegradingIsWorse`: "degrading" has a lower score over a longer context.
* `TrendAgreesWithExplanation`: for two checkpoints the only step is the slope, so
  that what the two say differs exactly between their thresholds.

`PagesProofs`

* `TabsSeeTheirRuns` (`OwnRunShown`) from `ToldInv`: what a load owes was stored
  when it began, and stored runs stay.
* `OverviewsPutTheLatestScore` (`OverviewScoreNotOlder`) from `StampInv` (the time
  stamps of drafts and stored runs are past, and no two are alike) and `LoadInv`
  (reads are of stored runs, and a later read of a page sees no less).  "The
  newest run" is well defined only because of the first.
* `ScoresCarryTheirNotice` (`ScoreNotTakenForMore`) from the same and `ToldInv`,
  with no assumption on the order of runs or reads: the newest run the status
  saw is the scored one, or failed, or newer by `created_at`; in the last case the
  scores read either did not see it or saw it measured earlier.  `ToldInv` turns
  the gaps away from runs the tab was told of.
* `TrendsAreBornOut` (`TrendBornOut`) and `OneStoryTold` (`OneStory`): the
  checkpoints a page gets are a sequence as `TrendProofs` wants it, the two
  newest scores in the order the explanation takes them; and the later of the
  two queries sees no fewer (`CheckpointsGrow`, `LoadInv`).

`DetectionProofs`, for any sayings, windows, similarity and provider.
`SessionInv` says that `messages` stays a transcript, numbers ascending, through
messages that come late and results that come later still.

* `FindingsStay` (`FindingsPersist`), `NeglectIsSettled` (`NeglectSettles`): a step
  that appends makes a session that `Continues` the one before, and each
  detector keeps what it found in the part they share (one lemma per detector,
  `ContradictionsStay` and so on).
* `FlipsAreReported` (`FlipNotHidden`): between the first statement of a value and
  the last of another there are two neighbours that differ
  (`EarliestStatement`, `LatestStatement`, `NeighboursDiffer`); nothing any other
  author said, in whatever phrase, supplies one of the values.
* `AnsweredIsAnalyzed` (`AnsweredSessionAnalyzed`), `NullProviderIsSilent`
  (`SilentWithoutProvider`), `RefutationsShow` (`RefutedClaimsShow`), from the
  definitions of the detectors.
* `TotalsAreBorneOut` (`TotalsMatchScenarios`) and `SignalsAreCalibrated`
  (`EverySignalCalibrated`) from `ReportInv`: the sums (`TotalsAddUp`) and the
  calibration are inductive beside the types of what the harness keeps, and the
  sums decide when the list of mismatches may disagree with the headline
  (`MismatchesBearOut`), given that every detector reports only its own
  types with a confidence between 0 and 1 (one lemma per detector,
  `ContradictionReports` and so on, and `FindingsReports`).  Without that bound a
  signal could miss all buckets (`OneBucket`).

Only model-checked: liveness, which is out of the prover's reach
(`EveryRequestAnswered`, `RunEnds`, `ButtonComesBack`).  The four violated
properties are shown by TLC's counterexamples.

## Not modelled

* Contents of events, their metadata and time stamps; authentication; the body
  limit; listings and their pagination: single checks and single reads.
* The wording of prompts and the HTTP exchange with the LLM.
* Tokenisation, the statement pattern and `SequenceMatcher`: string processing
  with no state, taken as given by `Transcript`.
* Context snapshots and important facts, which are declared and written by no
  code; migrations; seed data.
* The harness's ratios, report and precision gate (a precision of `None`, when
  nothing was emitted, passes the gate at `__main__.py:161`).
* Rendering, and pages other than the health page and the session list.

## Plan

What is left, in this order: the remaining pages and the dashboard's message
counts and averages; the report and gate of the harness; `Pages` beside
`AnalysisStore`, as a theorem that the one's runs are the other's; body limit
and listings.
