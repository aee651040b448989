# Verification of the AI gateway payload processing plugins

TLA+ models of this repository's program, TLC configurations that check them, and
TLAPS proofs about them. The program is a set of Go plugins for the body-based
routing (BBR) framework of the gateway, and the benchmark job that measures it.
Paths are relative to the repository; `P/` stands for `src/pkg/plugins/`.

## The system

A client sends an OpenAI chat request to the gateway. The framework calls the plugins
of its `--plugin` flags in order; the deployed order is `model-provider-resolver`,
`api-translation`, `apikey-injection`, with other plugins, such as the guard, before or
between them. Two Kubernetes controllers in the same process
keep the in-memory stores the first and the last plugin read.

| Part | State | Operations | Meets the others through |
|---|---|---|---|
| ExternalModel reconciler and `modelInfoStore` (`P/model-provider-resolver`) | `models` by model name, `modelRefKeyToModel` by resource | `Reconcile`, `setModelInfo`, `deleteByResource`, `getModelInfo` | the informer and the workqueue; the resolver reads the store |
| Secret reconciler and `secretStore` (`P/apikey-injection`) | credentials by namespaced name | label predicate, `Reconcile`, `addOrUpdate`, `delete`, `get` | as above; apikey-injection reads the store |
| `model-provider-resolver` plugin | none | `ProcessRequest` writes provider and credential reference to the request's CycleState | CycleState |
| `api-translation` plugin | a map of translators, never changed | `ProcessRequest`, `ProcessResponse` | CycleState, headers and body |
| Translators (`P/api-translation/translator`) | none | `TranslateRequest`, `TranslateResponse` | bodies; the client carries what they wrote from one request to the next |
| `apikey-injection` plugin | auth generators, never changed | `ProcessRequest` sets the provider's header | CycleState, headers |
| `nemo-request-guard` (`P/nemo`) | an HTTP client with a timeout | `ProcessRequest` asks NeMo Guardrails and passes or refuses the request | HTTP |
| Benchmark job (`src/performance_and_scale_evaluation/phase1`) | files on a volume, a background monitor | `run.sh`, `parse.py`, `plugin_delta.py`, `prom_monitor.py`, `run_benchmark.sh` | files, the gateway's counters |

Where it is hard, and what must hold there:

- **Stores and controllers.** Events, workers, reads, failures and restarts interleave;
  between a `Get` and the store's lock anything may happen. The store must never go back
  to an earlier version, must in the end show the last one, and must lose no event.
- **Request path.** Three plugins read two stores at different times. What is sent must be
  of one piece (provider, Secret, header, format), must not carry the client's token, must
  have passed the guard where there is one, and what comes back must be translated by the
  provider that was asked. The guard reads a body other plugins may have translated.
- **Conversations.** The translators remember nothing. A history that two of them have
  written in turn must still mean what the providers said, arguments that are no JSON
  included, and the client's limit of tokens must reach every provider.
- **NeMo guard.** The service may answer wrongly, late or never. No request may pass
  unless it was found clean, and every request must be decided.
- **Benchmark job.** Everything that fails is ignored and retried by nobody, and files
  outlive a launch. A row must count what it says it counts.

`PROJECT.json` lists the hazards at their lines, each with the properties that watch it.

## Modules

| Module | Models |
|---|---|
| `ControllerRuntime` | API server, informer, workqueue, workers and restart (external, from how the plugins use them) |
| `StoreView` | the abstract specification of a reconciled store |
| `ExternalModelReconciler` | `P/model-provider-resolver/{reconciler,model_store}.go` on ControllerRuntime; implements StoreView |
| `SecretReconciler` | `P/apikey-injection/{reconciler,store}.go` on ControllerRuntime; implements StoreView |
| `BrokenWatch` | ExternalModelReconciler with live reads and a watch that breaks, and the versions it leaves out |
| `Gateway` | the request path over two instances of StoreView |
| `GuardedGateway` | a Gateway whose chain has guards too; implements Gateway |
| `OpenAIChat` | the messages, arguments and limits the translators read and write |
| `AnthropicTranslator`, `VertexTranslator` | the two real translators as operators |
| `OpenAICompatible` | the OpenAI, Azure and Bedrock translators, which pass the body on |
| `Conversation` | a client, the translators and providers of three kinds over several requests |
| `NemoGuard` | the guard, the service and time |
| `BenchmarkJob` | the scripts, the volume, the monitor and the gateway's counter |
| `MC*` | values of the constants for TLC |
| `*_proofs` | the proofs |

The composition: ControllerRuntime is extended by both reconcilers; each is shown to
implement StoreView, and Gateway uses only StoreView's actions for its stores. So what
Gateway shows is shown of the real stores, as far as each implements StoreView.
GuardedGateway extends Gateway by the guard and is shown to implement it; of the guard it
has the exits, which NemoGuard has in detail. Conversation takes the translators by INSTANCE.

### How state and actions correspond to the code

- **Reconcilers.** A `Reconcile` call is three steps: the workqueue hands out the key
  (`StartReconcile`), `Get` returns (`GetObject`, or `GetFails` for an error other than
  NotFound), and the rest runs under the store's lock (`UpdateStore`; for Secrets
  `RemoveSecret`, `AddOrUpdate`, `AddOrUpdateFails`). `Deliver` is the informer with the
  predicate. `applied` is a history variable: the version last acted upon.
  `CachedReads` says whether `client.Reader` reads the informer's cache or the API server.
  The manager's default client does the first for Secrets and the second for the
  unstructured ExternalModels; that is a fact about controller-runtime, so it is a constant
  and both values are checked for models.
- **Gateway.** `Resolve`, `Translate*`, `Inject*` are the exits of the three
  `ProcessRequest` functions, `TranslateResponse` is `ProcessResponse`. Left out are
  api-translation's check for a request without headers or body, and the error exits of
  `ProcessResponse`: a provider that is unknown then was so before, and a translator fails
  there only on a call whose input can not be marshalled, which decoded JSON always can. A
  body is the format it is in. The order of the chain is a constant: it is set by the deployment and
  not by `main.go`. `RemoveHeader("authorization")` in one plugin and `SetHeader` in a later
  one act on the same map here; Envoy applies removals before additions. The generator of
  the bearer header spells its name `Authorization`; header names are taken without regard to
  case.
- **GuardedGateway.** The guard's exits are `GuardSkips` (the body names no model),
  `GuardPasses` and `GuardFails`. `passed` is a history variable: which guard, by its place in
  the chain, has let which request's messages pass. There may be several guards. `Modelless`
  are the providers whose format moves the model's name out of the body, as Vertex's does.
- **BrokenWatch.** `skipped` is a history variable: the versions a list after a broken watch
  has left out.
- **Translators.** One operator per function; messages are records, texts and images
  opaque. The loop of the Vertex `separateSystemMessages` with its map `toolCallNames` is
  stated as what the map holds at message i: the last earlier call with that id. In
  `Conversation` every text and result is a datum that tells which block of which answer it
  is, so that properties can say where it ended up. The arguments of a call are an object with
  such a datum, absent, or a string that is no JSON. Limits count half tokens, so that a
  fraction is cut the way `int()` cuts it. A provider's answer is as long as the limit it reads
  allows.
- **NemoGuard.** Durations are counted in two's complement of `Width` bits, as
  `time.Duration(timeoutSeconds) * time.Second` is. A content in parts becomes the empty
  text, as in `extractMessages`. Left out are the Internal errors of a request to NeMo that can
  not be marshalled or created; they refuse the request, as `CallFails` does.
- **BenchmarkJob.** `phase` is the line `run.sh` is at. A command whose failure is ignored
  (`|| true`) is a choice of its outcomes, and `failures` bounds how many fail. A report
  (`benchmarks.json`) is the launch, benchmark and mode that made it; a scrape is a count. A
  scrape that fails leaves the old file, an empty one, or a text that ends anywhere: `Parts`
  are the numbers whose digits the count begins with, in base `Radix`, and zero. `parse.py`
  may fail before its row, or between its row and the removal of the report. Of the CSV files,
  which no script reads, only the `row` the last step has appended is kept. `Kill` is the
  deletion of the job, which `run_benchmark.sh` does before it applies it again; `CleanUp` is
  the deletion of the volume, the last step of the benchmark's README, which may or may not
  come between two launches. `run` and `ended` are history variables: what happened in the
  run at hand, and whether a launch has come to its end on this volume.

## Runs

| Run | Instance | Shows |
|---|---|---|
| `models_live` | 1 model, 4 versions of 4 kinds, 2 workers, live reads, broken watches, 1 restart | TypeOK, EntriesAreOwned, ImplementsView, OutdatedEntryIsScheduled, OnlyLeftOutVersionsLinger |
| `models_cached` | 2 models with different names, 3 and 2 versions, 1 worker, cached reads, broken watches, 1 restart | StaleEntryIsScheduled, ImplementsView, StoreConverges |
| `models_same_name` | 2 models of one name in two namespaces | violates TrackedEntryPresent (finding 1) |
| `secrets` | 1 Secret, 4 versions of 5 kinds, 2 workers, broken watches, 1 restart | TypeOK, StaleEntryIsScheduled, ImplementsView, StoreConverges |
| `secrets_shared` | 2 Secrets of 2 versions, 1 worker, live reads, 1 restart, one may be refused for ever | StoreConverges |
| `secrets_emptied` | 1 Secret | violates NoEntryAfterFailure (finding 2) |
| `gateway` | 1 request through 6 plugins, a guard in front and one behind api-translation, 3 infos, 2 Secrets with 2 kinds of credentials, 2 changes | TypeOK, SentRequestIsConsistent, NoForeignCredential, ClientGetsOpenAI, SentRequestsAreGuarded |
| `conversation` | 3 requests to Anthropic, Vertex or Azure, answers of 2 blocks, 2 functions, 14 clients | TypeOK, AnswersAreKept, ResultsAreNamed, ResultsFollowTheirCalls, OnlyOpeningsAreRefused, ToolChoiceIsObeyed, FinishReasonIsTrue, TokenLimitIsKept |
| `nemo` | every body of 3 messages, every 4-bit timeout | TypeOK, PassedRequestsAreClean, EveryRequestIsDecided |
| `nemo_parts` | the same | violates LastUserMessageIsAsked (finding 3) |
| `benchmark` | 2 benchmarks, 2 launches on a volume kept or cleared between them, 3 requests between two starts of the gateway, 2 starts, 3 failures | TypeOK, OnlyAnEndStopsTheMonitor, PluginRowsCountTheirRun, SummaryRowsAreOfTheirRun, JobEnds |
| `benchmark_rerun` | the same | violates MonitorCoversBenchmarks (finding 4) |

Every property of a passing run is broken by a mutant of the code (`PROJECT.json`,
"mutants"; the operators named `Mut...`).

`models_live` asks for less than convergence, since the code does not converge there: with
live reads a reconcile may store a version the informer never shows, and when that version is
deleted during a broken watch no event removes its entry. OnlyLeftOutVersionsLinger says that
this is the only way to end wrong: no live model is missing or outdated, and no deleted one
stays that the informer has shown. OutdatedEntryIsScheduled is the safety property behind it:
whatever `Get` reads, an entry that differs from what the informer holds has work scheduled,
unless it is of a version the informer can tell nothing of. With cached reads (`models_cached`)
there are no such versions: StaleEntryIsScheduled needs no exception, and the store converges.

`gateway` has two guards, because one in front alone would never meet the hazard: behind
api-translation the guard reads what the translators have left, and a body for Vertex names no
model, so the guard passes it unasked. SentRequestsAreGuarded says that this is the only way
past a guard, for each guard of the chain by itself.

`benchmark` launches the job on a volume that is cleared before or not: both happen, as
`run_benchmark.sh` keeps it. What the scripts do not promise there is left out of the properties
case by case, never by assuming a cleared volume:

- The monitor is stopped early only by the stop file of a launch that came to its end
  (OnlyAnEndStopsTheMonitor); that this happens is finding 4.
- Where guidellm has failed, the report of an earlier run in the same directory is taken for
  its own. It is always of the same benchmark and mode, and never taken for that of a run that
  made one (SummaryRowsAreOfTheirRun).
- A first scrape that is cut off, or of an earlier run, makes a row count requests of others;
  nothing in the scripts can tell it from a whole one. With a whole first scrape, or none, no
  failure of the second and no restart makes a row count a request of another run, and without
  these it counts them all; only an *old* second scrape is taken for the run's own if the
  gateway was restarted (PluginRowsCountTheirRun).

### Bounds, and why they are enough

- *Four versions* of a resource make every pair of kinds neighbours twice (created, changed,
  deleted, recreated); two workers are all that can be on one key's events, since the
  workqueue gives a key to one worker at a time. One restart meets every state.
- *Three versions* of one model and two of the other, in `models_cached`: the informer can skip
  one, while the other model shares the worker.
- *Live reads with a broken watch* need four versions: one shown, its deletion, the recreation
  that only `Get` sees, and the deletion of that.
- *One request* in `gateway`: requests share nothing but the stores, which they only read;
  the proofs are for any number, and for guards at any places. Two changes suffice to move
  the model and change its Secret during one request. The three infos are a compatible
  provider, a translated one and one whose bodies name no model. An unsupported provider
  leaves api-translation as a refused body does, and a missing reference leaves
  apikey-injection as a missing Secret does; those exits are taken.
- *Three requests* in `conversation`: an id of Vertex's can be repeated in a second answer,
  and the third request carries both. Two blocks are the least for parallel calls whose
  results change places. The first history, the tool_choice and the limits vary one at a time;
  the limits of one token and of one and a half, zero and a negative one, with the other
  field larger, are each the edge of a condition. Azure stands for the compatible providers,
  being the one that changes answers; the others differ only in the path.
- *Three messages* in `nemo` put a message before and behind the last user message. Four
  bits and a second of two units give every case of the product: exact, zero, negative and
  wrapped.
- *Two launches* are one and its successor on the same volume, two benchmarks one and its
  successor in the same launch. With three requests, counted in base two, a count of two
  digits can be cut to one, and a run can follow another one's requests; two starts of the
  gateway are one restart. Three failures are enough for both scrapes of a run to go wrong and
  the gateway to restart between them, or for guidellm and `parse.py` to fail in two runs.

`CHECK_DEADLOCK FALSE` is in every configuration: the versions, requests and launches are
bounded, so every model stops when its bound is used up, and a request or a conversation
that has ended does nothing more.

### Fairness

- Reconcilers: the informer keeps delivering and a call that has read its object ends (weak);
  a key on the queue is taken in the end although others come back for ever (strong: the
  queue is first in first out), and `Get` succeeds in the end (strong: its errors are
  transient). Nothing makes clients change resources or the process restart.
- NemoGuard: the plugin's code runs and time passes. The service need not answer.
- BenchmarkJob: a script goes on to its next command, each of which ends (guidellm under
  `timeout`), and the monitor is scheduled.
- Gateway and Conversation check safety only, without fairness.

## Findings

1. `deleteByResource` removes an entry another resource put in when two namespaces have a
   model of the same name (`P/model-provider-resolver/model_store.go:74`); its comment says
   it removes the entry *added by the given resource*.
2. `addOrUpdate` leaves the old entry when it fails (`P/apikey-injection/store.go:44`); the
   test asserts that the store holds no entry then, but starts from an empty store only.
3. `extractMessages` of the NeMo guard reads only string contents
   (`P/nemo/request_guard.go:221`); for a content in parts the message it returns for the
   check has no text.
4. `run.sh` never removes `.monitor_stop`; launched again by `run_benchmark.sh`, which keeps
   the volume, the job runs without its monitor.

## Proofs

All proofs are for arbitrary constants that satisfy the named ASSUMEs, and for unbounded
behaviours. Each proof module states an invariant, shows that `Init` implies it and every
step preserves it (one step per action), and derives the theorems. Every safety invariant
and refinement that a passing run checks is stated by a theorem, but one: StaleEntryIsScheduled
of models, which holds for cached reads only, stays with TLC; for models NoEventIsLost states
OutdatedEntryIsScheduled instead, for either kind of reads.

| Module | Theorems | The strengthening, and why |
|---|---|---|
| `ControllerRuntime_proofs` | lemmas used by both reconcilers | `RuntimeInv`: versions read, cached and applied exist, and no key has two workers; without it a worker could act on an older object after another acted on a newer |
| `ExternalModelReconciler_proofs` | TypeCorrect, OwnershipHolds; with `UniqueNames`, StoreImplementsView; of BrokenWatch, with `UniqueNames`, NoEventIsLost and RestingStoreIsRight | the store is the value of the version last applied, and `modelRefKeyToModel` leads there; for the events, `OutdatedReadIsQueued`: a worker that has read a version the informer has shown, and that differs from the one it holds, has its key queued again. Neither theorem asks where `Get` reads |
| `SecretReconciler_proofs` | TypeCorrect, StoreImplementsView; with `CachedReads`, NoNeededEventIsDropped and RestingStoreIsRight | as above; for the events, that a dropped event joins two versions of the same value |
| `Gateway_proofs` | with `ChainInOrder`: TypeCorrect, SentRequestsAreConsistent, ClientTokensStay, ClientsGetOpenAI | `Chained`: what each plugin has written when the request stands at the next; `StoresShowVersions`: an entry is a version of its resource, which histories never lose |
| `Gateway_proofs`, second part | of GuardedGateway: GuardedImplementsGateway; with `ChainInOrder`, GuardedRequestsAreConsistent, RequestsAreGuarded, FrontGuardSeesAll | `GuardedAt`: a guard the request is past has passed it, unless the request names no model, or was translated before that place for a provider without a model in the body; a request keeps its model, and behind api-translation its provider and format (`Chained`). FrontGuardSeesAll draws from it that a guard before api-translation has no gap |
| `BenchmarkJob_proofs` | TypeCorrect, MonitorWatches, SummaryRowsAreRight, PluginRowsAreRight | no stop file while no launch has ended on the volume; a report lies where its benchmark and mode say, and is of this launch when the run has made one; what the counter has grown by since a whole first scrape is the run's requests, unless it was restarted, and the digits of a count begin no larger number |
| `NemoGuard_proofs` | TypeCorrect, OnlyCleanRequestsPass | TimeoutIsPositive: no configured number, whatever it wraps to, makes a timeout that is zero (none, for http.Client) or negative. `Asked`: a call carries what `extractMessages` finds in the body, and success means that all of it is clean; those are the messages PassedRequestsAreClean is about (CheckedIsAsked) |
| `FlattenTheorems` | lemmas used by NemoGuard_proofs and Conversation_proofs | `FlattenSeq` is recursive: what it gives for one more piece, its type, its length, and which elements it has |
| `Conversation_proofs` | ConversationInv; ConversationTypes, ToolChoiceObeyed, FinishReasonTrue, TokenLimitKept, OpeningsRefused, AnswersKept, ResultsNamed, ResultsFollow | below |

RestingStoreIsRight is the safety half of StoreConverges, and for models of
OnlyLeftOutVersionsLinger: where the informer has seen the last version and nothing is queued or
being done, the entry is that version's, or, for models, the resource is deleted and the entry
of a version the informer has left out. That such a rest is reached is liveness, and TLC's.

`UniqueNames` is not guaranteed by the code (finding 1). `ChainInOrder` says that the three
plugins are in the chain once each and in their order, among any others; the deployed chain is
one such (lemma DeployedChainIsInOrder). The theorems about
events of Secrets assume `CachedReads`, the manager's default for Secrets; no other theorem does.
No theorem assumes a cleared volume.

### Conversations

No property of Conversation is inductive: each speaks of the moment a request is on its way or
an answer has just been received, and says nothing of the history in between, where it could
be broken. The argument has three layers.

1. *The translators as operators.* A loop over a history is the flattening of a sequence of
   pieces (texts, blocks, parts, contents), or, in Anthropic's case, a recursive function. The
   lemmas say what one more message makes of it, at which place an answer of the history
   stands in the request (`AnswerPlaces`), and that a provider's answer comes through
   `TranslateResponse` with its texts and calls (`IsGot`).
2. *The inductive invariant* `Inv` (ConversationInv), of four parts. `TypeInv`: the types, with
   the data of the first `Len(turns)` answers only. `HistoryInv`: the history is the opening
   with added messages, and those are of roles every translator knows, results with ids and
   calls with ids. `WireInv`: the request on its way is the translation of the history for the
   provider asked, and no result is missing. `AnswerInv`: the answer is one this provider may
   give to this request.
3. *What the history has*, one invariant for each property, inductive together with `Inv`:

| Invariant | Says | Gives |
|---|---|---|
| `JustInv` | the choice, the reason and the limit hold of the last answer until the client goes on | ToolChoiceObeyed, FinishReasonTrue, TokenLimitKept |
| `RefusedInv` | who accepts the opening accepts the history | OpeningsRefused |
| `KeptInv` | the last `Len(turns)` answers of the history say what the providers said | AnswersKept |
| `NamedInv` | the last answer's ids lead to the names of its calls in all calls so far (`CurrentNamed`), and the responses in the contents are named rightly | ResultsNamed |
| `FollowInv` | the last answer's ids are different (`IdsApart`); all answers before it have their results behind them and a message behind those (`Settled`); the last one has all but the pending ones (`InProgress`) | ResultsFollow |

`CurrentNamed` is about the last answer only, and must be: Vertex's ids repeat, so that an
earlier answer's id may stand for a later function by then, but the results of an earlier
answer are all in the history when the next one comes (`Pending = {}` in `WireInv`).
`FollowInv` counts the pending calls, since a message that has as many results as there are
calls, with every call's among them, has nothing else.

ConversationAssumption asks of the clients that a history they open has messages of the chat
API's shape, whose data are the client's own, that it is not empty, and that a choice of a
function names one: what the protocol asks of them. Roles, ids, names and the limits are
any; an opening the translators refuse is among them.

### What stays with TLC

Liveness (StoreConverges, OnlyLeftOutVersionsLinger, EveryRequestIsDecided, JobEnds), and
ENABLED with it, is out of the prover's reach. Induction over data is done without the
library's theorems, which take an operator: SetInduction and SequenceInduction of
FlattenTheorems take the set of numbers, or of sequences, for which something holds, so that
`FlattenSeq`, and the loops the translators are made of, can be reasoned about for every
length.

## What is not modelled

- The translators' sampling parameters, stop sequences and usage, the fields of errors, and
  malformed bodies beyond an unknown role, a missing id or name and arguments that are no JSON:
  each is copied or dropped on its own and meets nothing else. Paths and names of deployments
  are text; a name that is refused is a choice (`TranslateFails`).
- Headers of the client other than authorization (an `x-api-key` or `api-key` of the client's,
  which no plugin removes, among them); streaming responses, which the plugins do
  not handle.
- Latencies, the Prometheus samples and the matrix of benchmarks; the deployment steps of
  `run_benchmark.sh` (one of them applies a `secrets-dummy.yaml`); the second experiment's script,
  which has the shape of `run.sh`.
- `example_plugin.go` (not registered), charts and manifests, CI, end-to-end scripts, the
  report page.

- What providers make of ids that repeat in one history, or of a functionResponse that is no
  object: not to be read from the repository (`PROJECT.json` lists both as hazards without a
  property).

## Plan

Done: the two stores, with live and cached reads and broken watches; the request path with
and without guards; the translators of all providers in conversation; the guard; the
benchmark job on a volume that is kept; their runs, and the proofs of the safety invariants
and refinements the runs check.

Next: which provider gave an answer as part of what a conversation remembers of it, so that
AnswersAreKept can ask for the calls of every cut answer but Anthropic's; the sampling
parameters and the usage of the translators.
