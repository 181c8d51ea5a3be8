# Router-Maestro in TLA+

Router-Maestro is an HTTP server that accepts requests of four LLM protocols
(OpenAI Chat, OpenAI Responses, Anthropic Messages, Gemini) and answers them
through one of several providers. This directory holds TLA+ specifications of
what is concurrent in it, of what must survive failures, and of what crosses from
one protocol to another; the TLC configurations that model-check them; and
theorems about them whose proofs TLAPS checks. Paths below are relative to
`src/router_maestro/`.

Everything runs on one asyncio event loop. So what interleaves are the sections
between two awaits: such a section is one action here, and every await is a
place where other actions, a cancellation, or a failure may come in. The
exceptions are the steps that run in a worker thread (`run_in_threadpool`,
`asyncio.to_thread`): they are actions of their own.

## 1. The system's parts

| Part | State | Operations | Hard behaviour | What makes it correct |
|---|---|---|---|---|
| `RouterOwner` (`routing/router.py`) | the active generation, references per generation, retired / closing / closed generations, the operation lock, the owner's state | start, acquire (with one reload of expired providers), release, rebuild, close | the operation lock is held across builds and closes; a close can be decided by release, by a swap or by shutdown; cancellation at every await | a leased router is open; closed once; nothing replaced is forgotten; shutdown ends |
| Administrative operations (`server/routes/admin.py`, `config/repository.py`, `auth/repository.py`, `auth/manager.py`) | `priorities.json`, `auth.json`, the active configuration | PATCH priorities, refresh, login by key or device flow, logout | two files and a generation are changed without a transaction; a failed rebuild is compensated | what is served was persisted; acknowledged changes stand; a failed login leaves nothing; a PATCH replaces what its revision names |
| OAuth sessions (`server/oauth_sessions.py`, `auth/github_oauth.py`) | pending device flows, their tasks | start, poll, complete, cancel, expire, sweep | the outcome arrives after expiry, cancellation or a sweep | a session tells how its login ended |
| Route planning (`routing/*_plan.py`, `auto_router.py`, `router.py`) | none beyond a request; reads a catalog that may be replaced at every await | resolve a name, plan a chain or a task, continue, list the models | windows at their edge, overrides, names that are gone, private state that binds | a plan fits the request, is configured, and goes where the continuation is bound |
| `GenerationDispatcher` (`server/dispatcher.py`) | the first failure of each kind, the open upstream iterator | dispatch, dispatch_stream over models x transports | precedence of errors, who may be tried after what, streams that are opened and given up | continuation state stays where it is bound; a second attempt only when authorised; no stream leaks |
| Providers (`providers/`, `providers/http_executor.py`) | a pool with one client each | prepare, send, stream, list, count, close | failures at every place of a call; a close during calls | the dispatcher, and in its own protocol the client, is told what happened; every response is closed; nothing is sent twice |
| Copilot session (`providers/copilot_support/auth_session.py`) | cached token and its expiry, the lock, the stored credential | ensure_token (forced or not), `cache_token`, write-back | many callers share one mint; mints are retried, cancelled and fail; other writers of `auth.json` | a caller gets a usable token; the token a forced call found is replaced once |
| Copilot transport (`providers/copilot_support/transport.py`) | the pooled client and its age | get, recycle, send and stream with one retry, close | the client is shared by requests and replaced by any of them | a rejected request is retried with another token; requests end |
| Copilot catalog (`providers/copilot_support/catalog.py`) | models, age, the shared refresh task | list_models, aclose | one refresh for all waiters; stale answers; close while refreshing | a known catalog stands; a close joins the refresh |
| Model catalog of a generation (`routing/router.py`) | the cache, its expiry | `_ensure_models_cache` | refreshes overlap without a lock; a provider fails | names lead to models; a failure forgets nothing |
| Stream delivery (`server/response_bridge.py`, `server/streaming.py`, the dispatcher routes, `runtime/request_context.py`) | what is held back, what was sent, the upstream iterator, the lease | encode_stream, the SSE generators, the keepalive wrapper, finalize | a stream fails, is malformed or is abandoned anywhere | one terminal; a finish the client can trust; the lease outlives the stream; everything is given back |
| Stream codecs (`protocols/*.py`) | decoder and encoder state per stream | decode, encode, finish | interleaved blocks, parts, items and calls; numbering; snapshots | the client reads what the upstream said, in the form of its protocol, or that it failed |
| Request and answer codecs (`protocols/*.py`, `server/protocols/runtime_factory.py`, the dialects of providers) | none beyond a request | decode, encode, inspect, seal, restore, prepare | the history is converted anew on every turn, between any two protocols | the upstream reads what the client wrote; an answer can be continued |
| Reducers (`server/protocols/`), legacy routes and translation | one stream each | passthrough, conversion | none between requests | |
| Capsule (`runtime/reasoning_capsule.py`) | a key ring file | seal, open | file creation by two processes | what was sealed can be opened |
| Guards and pipeline (`pipeline/`) | text windows, one recorded result | feed, finish | none between tasks | a result is recorded once |
| Configuration and auth storage (`config/`, `auth/storage.py`) | JSON files | read, replace | other processes | a file is old or new, never half |
| Command line, web portal, schemas, utilities | none that is shared | | | |

How they interact: `RequestContextMiddleware` calls `start` and `acquire` on the
owner for each generation request, keeps the lease in the request context, and
releases it in `finalize`, after the response has ended. The route takes the
router from that lease, reads what the request needs (inspection), plans a route
from the model catalog, and lets the dispatcher try the candidates. A candidate
is a model with its bindings: of one of the client's own protocol the request
goes as it came, of another it is decoded into the semantic form and encoded
again; the provider's dialect prepares it, and the executor sends it, for Copilot
through transport and session. The answer comes back through the same codecs; an
opened stream passes the dispatcher's check of its first frame, encode_stream,
the route's SSE generator and the response. What it says of the upstream's
private state is sealed and comes back with the next request. Administrative
routes change files and then call `RouterOwner.rebuild`, where they meet the
requests again: at the operation lock. The session writes new tokens into
`auth.json`, where it meets logins and logouts.

## 2. Modules

Concurrent components:

| Module | Models | State | Composition |
|---|---|---|---|
| `GenerationLifecycle` | the promise of `RouterOwner` to its callers | a status and the users of each generation | abstract |
| `RouterGenerations` | `RouterOwner`, `server/app.py` lifespan, the middleware's use of it | `active`, `nextGen`, `refs`, `retired`, `closeCalls`, `closed`, `closing`, `stale`, the lock `op`, the owner's state; per task a pc, the generation seen and leased | implements `GenerationLifecycle` through `StatusOf` and `Holders` |
| `RuntimeConfiguration` | the administrative operations on both files and on the generation | `file`, `credential`, `active`, `committed`, the lock; per task what it read and its pc | rebuild is the outside of `RouterGenerations`: wait, build, swap |
| `DeviceLogins` | the table of device-flow sessions | `session` | EXTENDS `RuntimeConfiguration`; theorem `AdministersAsSpecified` shows that it implements it |
| `FallbackPlan` | the promise of fallback over a route | a cursor over places and an answer | abstract |
| `GenerationDispatch` | both loops of `GenerationDispatcher` | position, first failures on record, open iterators, a log of attempts | implements `FallbackPlan` |
| `ProviderAttempts` | the calls of every provider through the executor and its pool, and by which status and words a failure reaches the client (`server/protocols/errors.py`) | per call what it asks for, its pc, the open response, what it reports | makes the outcomes that `GenerationDispatch` takes as given |
| `CopilotAuthSession` | `CopilotAuthSession`, logins and logouts as its environment | tokens by number, the lock, the stored credential, writes of threads under way; per call a pc and the token it found | |
| `CopilotTransport` | transport with requests | clients and which is pooled, per request the token sent, the client used | EXTENDS `CopilotAuthSession`; theorem `ActsAsSession` shows that it uses it as specified |
| `CopilotCatalog` | the shared refresh of Copilot's catalog | the refresh task, what is cached, who waits | uses of the session what `ReturnsUsableToken` promises |
| `ModelsCache` | `_ensure_models_cache` | cache, freshness, catalogs of providers; per caller the catalog it builds | |
| `GenerationStream` | delivery of one opened stream | what the upstream sent, what is held back or queued in each stage, what the client was told, iterator, lease, outcome | follows a dispatch that handed over a stream |

Conversions and decisions, which are operators driven by a small state machine:

| Module | Models | Composition |
|---|---|---|
| `CatalogEntries` | what an entry of Copilot's listing comes to: windows, features, endpoints, user limits, what is advertised for Auto | |
| `RoutePlanning` | names, families, explicit models, Auto with its chain, tasks and classifier (question and reply), fallbacks, continuation; the list of models and its pages | EXTENDS `CatalogEntries`; the catalog is replaced at the awaits |
| `SemanticEvents` | the events of `protocols/models.py` that stream codecs exchange | |
| `MessagesStream`, `ChatStream`, `GeminiStream`, `ResponsesStream` | stream decoder and encoder of one protocol | EXTEND `SemanticEvents` |
| `Answer` | the promise of a conversion: per channel what was said, in order, once; success only of a whole answer | abstract |
| `StreamConversion` | decoder, bridge and encoder of every pair of protocols, and frames passed on | composes the four, `Upstreams` (what may come) and `StreamReaders` (what a client reads); implements `Answer` |
| `SemanticRequests` | semantic requests and answers, sealing and restoring of private state | |
| `MessagesCodec`, `ChatCodec`, `ResponsesCodec`, `GeminiCodec` | messages and answers of one protocol, decoded and encoded | EXTEND `SemanticRequests` |
| `RequestSettings` | limits, tools, choice, reasoning and format of a request, between the four protocols | EXTENDS `SemanticRequests` |
| `OutboundContract` | what the dialects of the providers make of settings and tools, against the catalog, and the headers that tell Copilot who asks | EXTENDS `RequestSettings` |
| `TokenUsage` | counts of tokens, whole and in updates, and Copilot's bill | EXTENDS `SemanticRequests` |
| `Conversation` | a client that talks, in its protocol, with bindings of others, over several turns | composes all codecs with `ConversationReaders` and `SettingsReaders` |

`Upstreams`, `StreamReaders`, `ConversationReaders` and `SettingsReaders` are not
code of the program: they say what an upstream may send and how a party that
keeps to its protocol reads what it is sent. They are what the codecs are
measured against, and are written once per protocol and not per pair.

`MC*` modules extend these with what an instance needs (symmetry sets, casts,
values of function constants); proofs are in the `*Proofs` modules, which TLC does
not read.

`PROJECT.json` maps each definition to the lines it models. Names follow the
code (`refs`, `retired`, `op` for `_operation_lock`, `base` for a base revision).
Some points of the correspondence are worth knowing:

- *State lock and operation lock* (`RouterGenerations`). `_state_lock` is never
  held across an await, so a section under it is atomic. `_operation_lock` is
  held while routers are built and closed and is the variable `op`. A task that
  holds it and waits keeps everybody else out but releases, which take only the
  state lock.
- *Cancellation.* `CancelWait`, `BuildDiscarded`, `ReloadDiscarded` and, in the
  session, `Cancel` are the outcomes of a cancelled wait. Closes and shutdown are
  shielded tasks in the code: they go on.
- *The end of a response* (`RouterGenerations`). The audit trace is written before
  the lease is given back (`request_context.py:233`). The write may end
  (`FlushEnds`) or fail (`FlushFails`), and a cancellation of the request waits
  for it, as the cleanup is a shielded task (`FlushCancelled`); the release, in the
  `finally`, is a step of its own after each outcome.
- *Configurations and credentials* (`RuntimeConfiguration`) are values; a
  configuration is its own revision because the repository's revision is a hash
  of its content. Credentials are compared by value because
  `auth/repository.py` does so.
- *Sessions* (`DeviceLogins`). The table's lock is never held across an await, so
  each of its operations is a step, or part of the step that ends the login. The
  clock is a choice: a pending session may expire at any time.
- *Attempts* (`GenerationDispatch`). The plan, the transports of each model, the
  provider's recovery policy and the outcome of every attempt are arbitrary. An
  outcome is one of the classes the code distinguishes (`Failures`), or an answer.
  A log entry says whether the policy had invited another transport (`invited`).
  `RoutePlanning` says which plans there are, `ProviderAttempts` which outcomes.
- *Calls* (`ProviderAttempts`). One call at a time is followed from the check of
  the request to its end and repeated with `Again`; whoever closes the provider
  is always there. Statuses stand for the classes that the code tells apart. An
  error carries the status it will be told with; `ErrorResponse` and
  `PostcommitErrorData` give the words of each surface for it.
- *Tokens* (`CopilotAuthSession`) are numbered in the order of minting. Of its
  lifetime a token has what the code tells apart: more than the minute before
  expiry in which it is renewed, less, or none (`life`); time passes at any point.
- *Names* (`ModelsCache`). A public name is `<<provider, id>>`, an alias is
  `<<id>>`. An id containing a slash may read like a public name; those are
  `Shadowing`, and `Shadowed` says which.
- *Frames* (`GenerationStream`) are the sequences of events they decode to:
  payload, a tool call whose own end is not told, usage, finish, error.
- *Texts* (codecs) are sequences of tokens that are all different, so that one
  that is lost, repeated or moved shows. The arguments of a call are such a
  sequence too; `EmptyObject` is `{}`. A field that may be absent is a set of at
  most one value. A decoder or encoder step has an error field, as the code raises.
- *Lengths* (`CatalogEntries`, `RoutePlanning`) are numbers small enough to
  enumerate; the seventy parts in a hundred of the code are computed as there.

## 3. Runs

| Run | Instance | Properties | What it shows |
|---|---|---|---|
| `generations` | 2 requests, 1 rebuilding task, shutdown, 2 generations; with fairness | `ClosedExactlyOnce`, `ReloadReplacesOnlyStale`, `ImplementsLifecycle`, `ShutdownEnds`, `RequestAnswered`, `RetiredIsClosed` | whoever decides to close a generation, its users are counted, and it is closed once, after the last of them, and never lost; nobody waits for ever on the operation lock or for a close; a flush of the audit trace that fails or is cancelled costs no lease |
| `config` | 2 PATCHes, a refresh, a reload, a login by key or device flow and a logout; or two logins and a logout; 3 configurations | `ServedHasItsReason`, `LoginsKeepTheirWord`, `UpdatesAreSerial` | what failures and overlaps may leave behind in files and generation, and what the administrator is told |
| `dispatch` | up to 3 models of up to 2 transports, unary and streaming | `ContinuationIsKept`, `FallbackAuthorised`, `StreamsAccounted`, `NeverToldAsStaticRejection`, `ImplementsPlan` | who may be tried after what, which error is reported, no iterator leaks |
| `provider_attempts` | one call after another of every kind at each provider, streams of 3 lines; with fairness | `OutcomeIsTrue`, `NothingIsLeftOpen`, `SendsSafely`, `CallsEnd` | what the dispatcher and the client are told is what happened; responses are closed; nothing is sent again that must not be |
| `planning` | 2 providers, 7 entries, 3 listings, 4 settings | `FallbacksAreConfigured`, `AutoChooses`, `ListedIsTrue`, `ContinuationIsPlanned` | plans over a catalog that changes under way; Auto at the edges of windows and with every reply of the classifier; the list of models read page by page, to its end or to any model; where a conversation may go on |
| `copilot_auth` | 2 callers, 1 account, 1 retry of a mint, 3 tokens, 1 login or logout | `ReturnsUsableToken`, `OneMintPerFoundToken` | what a caller gets however calls, failures and cancellations interleave |
| `transport` | 2 requests, 2 tokens, 4 clients, with fairness | `RetryCarriesNewToken`, `RequestsEnd` | the one retry changes the token, and no request waits for ever |
| `catalog` | 2 listings, 4 tokens, with fairness | `RefreshesAreSafe`, `CloseJoinsRefresh`, `ListingsEnd` | a shared refresh that fails or is cancelled anywhere costs no known catalog, and a close leaves nobody waiting |
| `models_cache` | 2 providers, 2 ids of which one reads like a public name, 2 callers, 2 changes of the world | `NamesLeadRight`, `FailureKeepsModels` | overlapping refreshes leave a catalog whose names lead to models |
| `stream` | up to 3 frames of up to 2 events, every client protocol, raw and converted, with fairness | `OneTerminal`, `FinishIsTrue`, `LeaseOutlivesStream`, `StreamEnds` | what the client is told is what happened, and everything is given back |
| `conversion` | upstreams of four protocols, answers of up to 2 blocks, items or calls of 2 deltas, every client | `ClientsAreServed`, `TellsTheAnswer` | a client reads the answer, in its protocol, or that it failed; codecs implement `Answer` |
| `conversation_turns` | clients of four protocols, 6 bindings of 3 providers, 11 models, 2 turns | `UpstreamReadsTheRequest`, `ToldIsTheAnswer`, `TurnsContinue` | history, settings, tools, private state and token counts cross the codecs both ways |

Some properties are conjunctions of parts that belong to one question; the parts
are named and commented in the modules:

- `ClosedExactlyOnce`: `ReferencesExact`, `NoUseAfterClose`, `ClosedByOne`,
  `RetiredIsNotForgotten`, `ClosedOwnerOwnsNothing`.
- `ServedHasItsReason`: `NothingUncommittedServes`, `DivergenceHasItsSnapshot`.
  Active and persisted configuration do come apart (observation 5); the second
  part says that a snapshot which an operation read before its rebuild is the
  *only* way in which they do.
- `UpdatesAreSerial`: `AcceptedInTurn`, that the accepted PATCHes have an order in
  which each had read what the one before it left and the last is in the file, and
  `ConflictsHaveTheirCause`, that one is refused as stale only if an accepted one
  had replaced what it had read.
- `LoginsKeepTheirWord`: acknowledged logins and logouts stand, failed logins
  leave nothing behind, sessions tell the truth.
- `FallbackAuthorised`: `ModelSwitchAuthorised`, `NoUninvitedTransportRetry`.
- `RefreshesAreSafe`: `KnownCatalogStands`, `UpgradeFetchesWithNewToken`.
- `AutoChooses`: `AutoFits`, `AutoKeepsItsWord`, `AutoIsAsAdvertised`.
- `ListedIsTrue`: `UserLimitsHold`, `ListedLimitsHold` (where the listed numbers agree,
  `Agrees`), `PagesTellAll`.
- `OutcomeIsTrue`: `FailureTellsItsCause`, `AnswerIsHandedOn`, `ClientIsToldSo`.
- `ClientsAreServed`: `FramesKeepToProtocol`, `SuccessIsWhole`, `EveryoneIsTold`,
  `StreamsAreRead`.
- `UpstreamReadsTheRequest`: `UpstreamReadsTheConversation`,
  `UpstreamIsAskedTheSame`, `CopilotIsToldWhoAsks`, `RouterSeesTheRequest`.
- `TurnsContinue`: `SealedGoesHome`, `AnswersContinue`.

### Exceptions that properties name

Where the code has a gap, the property about it says which one, by a definition
with a comment, and holds for everything else. They are not assumptions but
what the run found out, and each is an observation of section 5:

| Definition | Gap |
|---|---|
| `MayFault`, `AtOnce` (`StreamConversion`), `HeldTillEnd` (`GenerationStream`) | a raw terminal that is not of Chat is passed on at once, so that a client may be told two ends; an early end of Responses is told with a stale response |
| `Inexact` | Messages to Chat or Responses: arguments are first told as `{}` |
| `HasNoForm` | finished answers that a client's protocol rejects when converted |
| `NoBeginning`, `NoFrame` | what the check of the first frame, or a decoder, refuses |
| `OrdersBetween`, `PictureForChat`, `TagsForMessages`, `ThoughtWithoutID`, `GeminiResult` | histories that an encoder rejects on the next turn |
| `DatedCapsule` | private state that is sealed for a name which no binding has |
| `OffIsLost`, `BudgetIsFree`, `EffortOnly` | thinking that is off, dynamic, or an effort alone |
| `NoWord` | a request that is too large (413): codes and Gemini blame the server |
| `Agrees` (`RoutePlanning`) | windows planned with where a listing contradicts itself |
| `TotalIsStale`, `ZeroIsUnknown` | totals that are not corrected, and zeros that stand for no count |

### Bounds

- *Two requests* give every race of two leases on one generation, of a release
  with a swap, and of two requests that wait for the same reload. A rebuilding
  task and the shutdown task are the other two who may decide to close. *Two
  generations* are a replaced one and its successor, all that one close is about;
  the theorems are for any number.
- *Three configurations* are the first one and one for each of two PATCHes, which
  may conflict, follow each other, or write back what was there before. The two
  PATCHes differ in nothing and neither do the two later configurations, so both
  pairs are symmetric; the run has invariants only.
  Administrative tasks run once and stop. `Casts` bounds who acts together: every
  kind of operation with one login, or two logins, whose compensations may meet,
  with a logout. Every login has its own key; with a shared one, or two logouts,
  acknowledged writes do not stand (observations 1 and 2), which is why the
  theorems have these as hypotheses.
- *Three models of two transports* have a switch of both kinds, a failure of one
  model that is still on record when a third is tried, a place before and a place
  after each, and a place bound by continuation state with models on both sides.
- *One call* repeated without bound meets the pool open, closing and closed;
  calls share nothing else. Three lines are a payload, an end and something after it.
- *Planning* has one id at both providers, a family of two dates, an entry that
  is not offered and one that spoils the listing it is in; lengths are below, at
  and above 70 % of the windows that the entries, the tiers and the overrides
  give, and one entry lists a prompt beyond its total window; any provider may fail at any refresh. The list is read in pages of one to
  three, which fall within, at and beyond its end, and short of each of its models
  (`before_id`); `PagesTellAll` looks at it in
  the states of a refused request, where every catalog is met.
- *Three tokens* are the cached one, the one that replaces it and one minted in
  excess, which is what `OneMintPerFoundToken` is about. Calls are repeated
  without a bound. `MaxTokens` (`MaxMinted` in the catalog), `MaxAdmin` and `MaxClients` guard the actions
  that make tokens, logins and clients; when they are used up the system may
  stop. In the transport run the retry of a mint is left out (`MaxRetries = 0`):
  `copilot_auth` has it. The catalog has a fourth token because others mint
  between its two fetches.
- *Two listings* have one that begins a refresh and one that joins it, before or
  after its cause.
- *Two providers* of the models cache give a first and a second; one id is
  offered by both, one reads like the public name of the other's. Providers may
  sign out, fail, and change what they list (`MaxChanges`) while a refresh is
  between them. Two changes let a model come and go, or two providers change,
  between the catalog a refresh found and the one it installs.
- *Three frames of two events* have a terminal with something before it and after
  it, in its frame and in another one.
- *Two items of two pieces* have a block after a block, two calls, an
  interleaving of their deltas, and a piece that is not the first. The upstream
  may fail, end early or contradict its own deltas anywhere.
- *Two turns* have a history with an answer in it, which is all that a codec
  distinguishes. Longer histories repeat it. Settings are varied one at a time
  over all models with a plain question; conversations of two turns are with
  `UsualModel`; costs only with a plain question answered in words. What these
  three cross with each other is nothing in the code.

Deadlock is checked in `generations`, `models_cache` and `provider_attempts`. In
the others the system ends (a dispatch, a stream, a conversation) or the bounds
stop it.

### Fairness

- `RouterGenerations`: asyncio runs ready tasks, a build ends, a close ends, a
  response ends and so does the write of its trace, so steps of tasks are weakly fair. `asyncio.Lock` wakes its
  waiters in the order of arrival, so taking the lock (`TakeTurn`,
  `ShutdownMarks`) is strongly fair. Nothing makes a request arrive, a caller be
  cancelled, the configuration expire, or a shutdown begin.
- `CopilotTransport`: network calls have timeouts (httpx), so what a request
  waits for ends; the session's lock is an `asyncio.Lock` again.
- `CopilotCatalog`: the refresh task goes on, for the same reason, and a close
  that joined it returns. Nothing makes anybody list, mint or close.
- `ProviderAttempts`: a call proceeds (timeouts again, and a consumer that reads
  or leaves), and a client's close ends.
- `GenerationStream`: the upstream ends or times out, and the client reads or
  leaves; as streams have a bound, weak fairness of the whole suffices.

### Assumed of others

- httpx: closing a client marks it closed at once and then awaits; a closed
  client sends nothing; what is under way on it breaks; a response is read to its
  end or closed once.
- Starlette and asyncio: a client that left shows up as a cancelled read or as a
  send that fails; generators dropped thereby are closed some time later by the
  event loop's hook for asynchronous generators, not before the response's task
  goes on. This is why `LeaseOutlivesStream` is stated for completed responses.
- Files are replaced by rename: a write is one step. The disk of a credential or
  a compensation can be written; a device flow may fail to write its own.
- Upstreams send what `Upstreams` and the endpoints of `Conversation` say: the
  forms of their protocols that the code knows. Other frames are in
  `StreamConversion` as one odd frame.

## 4. Proofs

The theorems hold for any number of tasks, generations, models, transports,
providers, calls, tokens, listings, lines and frames, under the named ASSUMEs of the modules:
bounds are natural numbers, sets of tasks are finite where they are counted, kinds
of tasks do not overlap, and placeholder values are not real ones. Those of
planning hold for any providers, entries, listings, settings and requests of the
shapes that the code reads:

- `CatalogAssumption`: lists name what they list, a listing no model twice, and no
  alias is a public name (`Router._normalize_model_alias` maps those to themselves);
- `EntriesAssumption`, `SettingsAssumption`: a limit is absent or one natural number
  (`parse_models` rejects others; the schema of overrides would take a negative one,
  which is left out here), prices have at most one tier of each name, a chain has no
  repetitions;
- `RequestsAssumption`: a request has the fields of a manifest, whose lengths are
  natural numbers (`protocols/models.py:112`).

| Module | Theorem | States |
|---|---|---|
| `RouterGenerationsProofs` | `TypeCorrect`, `LeasedRouterIsOpen`, `ClosedOnce`, `ClosedMeansClosed`, `NothingForgotten`, together `AllClosedOnce` | `TypeOK`; the parts of `ClosedExactlyOnce`, and it |
| | `ReferencesCounted`, `ReloadsOnlyStale` | `ReferencesExact`, `ReloadReplacesOnlyStale` |
| | `Refinement` | `Spec => Lifecycle!LifecycleSpec` |
| `RuntimeConfigurationProofs` | `ConfigTypes`, `CommittedOnly`, `DivergenceExplained`, together `ServedExplained` | `TypeOK`; the parts of `ServedHasItsReason`, and it |
| | `LoginStands`, `LogoutStands`, `WritesStand` | acknowledged logins stand if no two logins carry one key, acknowledged logouts if there is one logout |
| | `FailuresLeaveNothing` | `FailedLoginsLeaveNothing`, if every login has a new key of its own |
| | `UpdatesSerial` | `UpdatesAreSerial` |
| | `AdministersAsSpecified`, `SessionsAreTrue`, `WordIsKept` | `LoginSpec => Spec`; `SessionsTellTheTruth`; `LoginsKeepTheirWord` under these hypotheses |
| `GenerationDispatchProofs` | `DispatchTypes`, `ContinuationKept`, `SwitchesAuthorised`, `RetriesInvited`, `SecondAttemptsAuthorised`, `NoStreamLeaks`, `RetryableErrorWins` | the invariants of the run `dispatch` |
| | `FollowsThePlan` | `Spec => Plan!PlanSpec` |
| `ProviderAttemptsProofs` | `AttemptTypes`, `OutcomesAreTrue`, `AllIsClosed`, `SendsAreSafe` | `TypeOK`, `OutcomeIsTrue`, `NothingIsLeftOpen`, `SendsSafely` |
| `CopilotProofs` | `SessionTypes`, `CallsReturnUsable`, `FoundTokenReplacedOnce` | of the session: `AuthTypeOK`, `ReturnsUsableToken`, `OneMintPerFoundToken` |
| | `TransportTypes`, `RetriesWithNewToken`, `ActsAsSession` | `TypeOK`, `RetryCarriesNewToken`, and `Spec => AuthSpec` |
| | `CatalogTypes`, `NothingLeftAfterClose` | of the catalog: `CatalogTypeOK`, `CloseJoinsRefresh` |
| | `UpgradesWithNewToken`, `CatalogStands`, together `RefreshesSafe` | the parts of `RefreshesAreSafe`, and it |
| `ModelsCacheProofs` | `CacheTypes`; `AliasesResolve`, `FirstProviderNames`, together `NamesAreRight` | `TypeOK`; the parts of `NamesLeadRight`, and it |
| | `FailuresKeepModels` | `FailureKeepsModels` |
| `GenerationStreamProofs` | `StreamTypes`, `StreamOneTerminal`, `LeaseEndsLast` | `TypeOK`, `OneTerminal`, `LeaseOutlivesStream` |
| | `FinishMeansFinished`, `FinishesAreTrue` | `FinishIsMeant`, a part of `FinishIsTrue`, and all of it |
| `RoutePlanningProofs` | `TypeCorrect`, `ContinuationPlanned`, `FallbacksConfigured` | `TypeOK`, `ContinuationIsPlanned`, `FallbacksAreConfigured` |
| | `AutoPlansFit`, `AutoRefusesForCause`, `AutoAdvertises`, together `AutoChoosesWell` | the parts of `AutoChooses`, and it |
| | `LimitsStand` | `UserLimitsHold` and `ListedLimitsHold`, two parts of `ListedIsTrue` |

The arguments:

- *Generations.* No safety property is inductive by itself. `IInv` adds to them
  where each task may be (`PcShape`: who holds the lock and a lease at which pc),
  what a generation may be (`GenShape`: every installed generation is the active
  one or a retired one), who closes which and when (`CloseShape`: a retired
  generation is closing as soon as nobody refers to it, with one call for each
  that shutdown does not still have to close) and what shutdown has done
  (`ShutdownShape`). `LeasedRouterIsOpen` then follows from `ReferencesExact`: all
  three who close look at the count, and a positive count is a holder. Counting
  needs the lemmas `HoldersFinite`, `HolderEnters` and their like. `ReloadInv`
  says that the request which holds the lock for a reload still sees the expired
  generation as the active one: nobody else can install while it does.
- *Administration.* `OnlyCommitted` extends `NothingUncommittedServes` to
  everything a task has read. `LoginsInForce` and `LogoutsInForce` relate the last
  writer to what a compensation may still take back; a failed login's key can be
  in force only through the `previous` of another task, which is what
  `FailuresLeaveNothing` follows from once keys are fresh (`KeysAreFresh`).
  `LockShape` says who is between lock and swap.
  `UpdatesAreSerial` is inductive beside it: what a step does to the PATCHes is to
  leave them alone, to begin, to refuse or to accept one (`PatchStep`); the order
  of the accepted ones is prolonged by the last (`OrderGoesOn`), and a PATCH that is
  under way finds its base in the file or was overtaken by an accepted one
  (`CauseGoesOn`). The theorems carry over to
  `DeviceLogins` because its steps are steps of `RuntimeConfiguration` or leave
  its variables alone.
- *Dispatch.* `LogInv`: everything tried comes before the current place.
  `RecordInv`: the failures on record are those of the log. `SwitchInv`: every
  model up to the current one was reached by an authorised switch. `RetryInv`: a
  model that goes on after a retryable failure has a policy that says so.
  `KnownInv`: every failure on record is one of an eligible place. `HomeInv`: nothing
  has happened before an eligible place was seen, and a bound request leaves its
  place with a failure on record. From these `ToldInv`, that the error of a bound
  request tells of its own place.
- *Provider calls.* `Inv` adds to `TypeOK` what each place of a call has sent and
  seen (`StageInv`), where a response may be open (`OpenInv`) and that a closed
  pool keeps nothing but what it is closing (`PoolInv`). Of the data, `TypeOK`
  says that errors are *coherent*: kind, status, signal and leave to retry as the
  code ever combines them (`RaisesFacts`, `FailedFacts`). That the client reads the
  truth then needs no step of its own: `ClientKnows` derives it from `TypeOK` and
  from what the dispatcher is told, by whom a status blames (`Blames`), which all
  the words of all four surfaces agree on (`TypesBlame`, `CodeBlames`). What is
  handed on is compared with what was read by counting: the n-th line that carries
  the answer (`CarriedAppend`, `SameTurned`, `SameHandsOn`).
- *Session and transport.* `SeenInv`: a forced call that mints still finds the
  token it began with in the cache, and one that persists has replaced it.
  `ForcedInv`: the token a forced call found is not newer than the cached one, and
  is older once the call is done. `HealInv`: a request waiting for its retry is
  inside a forced call that found the token of its first attempt or a later one.
  As the transport implements the session (`StepOfSession`), the theorems of the
  session hold in it.
- *Copilot's catalog.* `TaskInv`: a listing waits only for a task that runs, and
  a close that is done has none. `TokenInv`: what a fetch was sent with is not
  newer than what the forced call found, nor that than what is cached; so a call
  that returns another token returns a newer one.
- *Catalog of a generation.* `AliasInv` states the names of the cache, of every
  catalog being built and of every catalog a refresh may fall back to; `FirstUpTo`
  states how far a refresh without failures has come, and `KeepsFailed` that what
  has failed so far has kept its models. An id with a slash may overwrite a public
  name or be overwritten by it; so `Resolves` claims what a public name leads to
  only of those that no id reads like (`Unshadowed`), and of aliases that they
  lead to one of their own models, which is inductive whichever ids there are.
- *Stream.* `PlaceInv`, `HeldInv`, `ToldInv`, `MeantInv`, `SourceInv`: as long
  as the bridge works nothing terminal has been told (where it is held back);
  when it ends, the terminal is told or held; what is told is what the upstream
  said; and the iterator is closed before the end is told. `CountInv` counts: the
  pieces of data told, those still queued for the encoder and the calls a Gemini
  encoder keeps for later are together what the bridge has accepted, until the
  terminal goes out with none outstanding.

- *Planning.* Most of the work is about operators; the invariants are few.
  `Typed` adds to `TypeOK` that the catalog and the candidates found are sequences
  of public names; `Planning`, that only Auto classifies and only another name is
  resolved. `Prepared`: between the two awaits of a resolution its candidates are
  usable, and in the order of the priorities followed by a catalog, from which comes
  the order of fallbacks. `Asked`: the tasks that the classifier is asked about have
  models that are all safe for the request, or all not. `Promise`: with every model
  of the profile fit, a request that one of them has room for is safe where it is
  planned and at every task in question; the first part alone is not inductive,
  because the plan is made when the classifier has replied. `KinIsMatched`: what a
  name that is no longer listed is matched with is at its provider and another date
  of the same model. The catalog is replaced
  only at an await, so each action that plans is compared with the catalog it leaves.
- *Lists.* The operators of planning filter sequences (`Kept`), drop repetitions
  (`Distinct`), join them and fold over them (`Overridden`). They are written with
  recursive functions over 0..n. That such a function is defined up to n
  (`KeptIsDefined`, `OverIsDefined`) and what it holds at n is shown by taking the
  set of numbers for which it is so and `Induction`: a set that holds 0 and with
  every number the next holds all, because the least number outside it, which
  `WFMin` gives (`LeastOf`), would have a predecessor. What follows is used
  everywhere: `KeptPlaces` (what is kept stands in the order of the list, and each
  member at a place of its own), `KeptInOrder`, `KeptSet`, `LastKept`; `MaxOf`, that
  a non-empty bounded set has a largest number; and `GroupsAscend`, that the
  overflow candidates come in groups of growing windows.
- *Windows.* `InfoTyped` says what an entry comes to, with the limits the user sets
  over it; `LargestListed` and `AgreedRoom`, that where the listed numbers agree its
  room lies between the listed prompt and what the total leaves; `RoomTyped`, that no window a model advertises is larger than the room
  it is planned with. Hence `ToldIsSafe`: a request below 70 % of the largest window
  told of Auto is below 70 % of some model's. `LastLimitCounts` is about the fold
  over overrides: after the last one that limits the prompt nothing changes it, and
  no listed window is left.

Model-checked only:

- the liveness properties (`ShutdownEnds`, `RequestAnswered`, `RetiredIsClosed`,
  `RequestsEnd`, `ListingsEnd`, `CallsEnd`, `StreamEnds`), which are out of the
  proof system's reach;
- `PagesTellAll`, the third part of `ListedIsTrue`. It rests on the order that
  `SortSeq` puts models in, an operator with the comparison as a parameter, which
  the provers cannot instantiate;
- `UpstreamReadsTheRequest`, `ToldIsTheAnswer`, `TurnsContinue`, `ClientsAreServed`
  and `TellsTheAnswer` of the codecs. They compare what a reader makes of an encoded
  conversation with what was meant, and decoder, encoder and reader are each a fold
  over messages, parts and deltas whose step is a LAMBDA (`FoldLeft`): the same
  parameter. Written as recursive functions, like the lists of planning, each pair
  of codecs would need its own induction over the deltas, with what is open in both
  codecs as its hypothesis.

## 5. Observations

Seen while modelling. The first part of each list is about state that is
shared; the rest about what one request meets. The properties are stated so that
they hold beside these.

### Administration and sessions

1. Two logins with one API key: `auth/repository.py:71` compares by value, so the
   compensation of the first, failing login takes the credential of the second,
   which was acknowledged. This is the hypothesis of `LoginStands`.
2. A logout whose rebuild fails after another login and logout restores the
   credential it had removed (`server/routes/admin.py:121`), although the second
   logout was acknowledged: both removed to the same value. This is the
   hypothesis of `LogoutStands`.
3. A device-flow login reads the previous credential in one thread hop and writes
   in the next (`admin.py:294`). A logout acknowledged in between is undone when
   the login is taken back.
4. The credential of a failed login can come back: another login or logout had
   read it as the previous one and, failing later, restores it (`admin.py:118`).
   This is the disjunct of `FailedLoginsLeaveNothing`.
5. A refresh, login or logout reads the runtime configuration, waits for the
   operation lock, and installs what it read over a PATCH that committed meanwhile
   (`admin.py:440`, `:117`); requests are then served with the older
   configuration until the next rebuild (compare `docs/configuration.md:536`).
6. A cancelled device flow leaves its session "pending"; an "expired" session can
   become "complete"; a complete one that its administrator has not polled is
   swept by the next login (`server/oauth_sessions.py:151`), who gets a 404.

### Copilot

7. A mint under way writes its token back after a login or logout changed
   `auth.json` (`auth_session.py:225`). The write happens in a thread that goes
   on even if the caller is cancelled. A forced call compares with the token
   that is cached when it begins, not with the one that was rejected (`:187`, `:263`):
   a caller whose 401 arrives after the replacement mints once more.
8. `transport.py:152`: recycle drops the pooled client after the await of its
   close, and so drops, still open, a client made meanwhile.
9. While a request waits for a new token after a 401, another recycles the client
   they share; the retry is sent on the closed client and fails with an error that
   neither except clause handles (`transport.py:226`; `RetryCanBeSent` states what
   the docstring at `providers/copilot.py:1281` says and does not hold).
10. `catalog.py:591` marks the upgrade as tried before the token it needs was
    minted; a failed refresh renews the lifetime of the stale list (`:613`); a
    second `aclose` returns before the first has joined the task.
11. A model with billing tiers and a known total window gets a long window of
    85 % of the total whatever its limit of the prompt, and a prompt that is listed
   beyond the total is planned with as it is. Which of several equal
    default tiers Auto takes depends on the order of a set.
12. Effort on Chat with a cold catalog and an unknown family: "max" becomes
    "xhigh" but "xhigh" becomes "high" (`providers/copilot.py:582`).
    `outbound_contract.py` calls a branch unreachable that this contract reaches.
    A catalog that lists no efforts, for a model that supports thinking, makes
    `resolve_native_effort` reject.

### Catalog and plans

13. `routing/router.py:678`: a refresh keeps the catalog it found when it began as
    the one to fall back to, while another refresh may have installed a newer one.
14. `router.py:747`: a failing provider keeps its aliases and names unless an
    earlier provider has taken them; an id with a slash can take a public name.
15. Of two overlapping refreshes one succeeds and sets the lifetime; the other, in
    which a provider failed, installs its catalog and leaves that lifetime as it
    is (`router.py:757`; compare the comment at `:760`): `FreshIsWhole` does not hold.
16. A catalog that a failing provider left without a lifetime is fetched again at
    the second `ensure` of an explicit resolution; a model found first can then be
    missing, told as 404 or as an invalid capsule.
17. An explicit model that does not fit makes the fallbacks begin at the top of the
    priorities. An Auto continuation whose model is gone is planned on a sibling
    of its family, which the dispatcher then rejects.
18. Auto advertises models of providers that are signed out, and the union of
    features that no one model has. An override of one limit drops all listed windows.
19. Pages of Anthropic models (`server/routes/anthropic.py:914`): an `after_id`
    that has vanished begins again at the first page; `before_id` returns the
    first models of the list and not those before it, unless they fit on one page
    (compare "backward pagination" at `:868`); a limit of zero gives an empty page
    that says there is more. A classifier that replies with a quoted word as valid
    JSON (`"coding"`) is refused, although quotes are stripped from words that are
    not JSON (`routing/auto_router.py:164`).

### Dispatcher and providers

20. `dispatcher.py:683`: the first retryable failure is kept for the whole route,
    so it is also reported when a later model failed in another way
    (compare `docs/api-translation.md:543`).
21. With the audit on, an error of a stream whose body cannot be read escapes as
    `httpx.ResponseNotRead` (`http_executor.py:160`); a closed pool raises a bare
    `RuntimeError`.
22. `list_models` answers an HTTP error with defaults (OpenAI, DeepSeek) or with
    nothing (OpenAI-compatible), so that those models vanish for a lifetime.
23. A redirect becomes an upstream status error that keeps its 3xx status, and the
    client gets it without a location. A request that is too large (413) is told
    as `request_too_large` to Messages, but as `INTERNAL` to Gemini and with the
    code `server_error` to the others (`server/protocols/errors.py:251`, `:306`).
    A 404 of the endpoint where Copilot mints tokens is told as `not_found`, as if
    the client's own request had named something that is not there.
    `[DONE]` is an error on the Anthropic binding. The result of `count_tokens` is
    not validated there and at DeepSeek.

### Streams

24. `response_bridge.py:232`: a raw terminal that is not of Chat is passed on at
    once; if the upstream fails after it, the client gets a second terminal
    (compare `docs/api-translation.md:312`). A raw Responses stream that ends
    early is told with the last output known, which is stale or empty.
25. A raw Chat frame with `"error": null` counts as a terminal
    (`_is_identity_terminal`).
26. Nothing on the dispatcher routes sets the outcome of the request context, so a
    stream that ended with an error frame is recorded by its status 200 as
    completed (`runtime/request_context.py:203`; `OutcomeIsTheStreams` states
    `docs/observability.md:18` and does not hold).
27. A raw stream of Responses or Messages passes on frames of unknown type, on
    which a converted one fails. The check of the first frame refuses reasoning
    items and content parts of Responses and a ping of Messages, which the
    decoders take (`dispatcher.py:1629`).
28. Messages to Chat: the arguments of a call are told as `{}` and then again as
    deltas; to Responses: `output_item.done` with `{}` comes before the deltas
    (`protocols/openai_chat.py:857`; compare `docs/api-translation.md:38`).
29. Rejected in mid-stream although finished: every tool call of Responses toward
    Chat (and of Gemini, when ids are echoed); a second call of Chat toward Gemini;
    text or thoughts at an index above zero, a call whose arguments are a blank
    delta, and arrays in Responses arguments toward Gemini (`gemini.py:914`);
    secret thoughts of Messages toward Responses or Gemini, and of Chat toward
    Responses; a Chat refusal that finishes with "stop" toward Messages, and text
    with a refusal toward Responses; citations of Responses toward anybody.
30. Chat to Messages: every text delta is a block of its own, all open to the end.

### Requests and their history

31. A sealed capsule carries the model's name as the upstream reported it; a dated
    one leaves no binding eligible on the next turn, except at Copilot. Private
    state that is not sealed may be sent to another provider's binding of the same
    protocol; only Chat excludes it.
32. What a client is told it cannot always send back: message ids and states of
    Responses toward Messages (`anthropic.py:2251`), reasoning items of a Chat
    answer without id, orders between messages toward Messages, pictures in tool
    results toward Chat, function results of Gemini toward Messages and Responses.
33. Lost or changed on the way: the namespace of Messages' tools; verbosity beside
    a format; the media type of documents; orders between messages, which move to
    the instructions of Responses; adaptive thinking, which arrives at Messages as
    enabled without a budget; a reasoning summary, which turns thinking on there; a
    `json_schema`, which arrives there with its name and strictness.
34. Rejected: Gemini's structured output everywhere; a text format or verbosity
    alone of Responses toward Chat and Messages.
35. Thinking that is off is not told to Copilot but by an effort "none" that the
    catalog lists, and with an effort beside it Copilot's Chat still gets the
    effort. A dynamic budget of Gemini becomes the effort "adaptive", and at
    Copilot the lowest one. A picture in the result of a tool sets Copilot's vision
    header on Chat and not on Responses (`responses_codec.py:46`). DeepSeek lowers "minimal" only beside thinking.
36. Inspection reads nested data: the input of a Messages tool that looks like a
    document counts as a file. An effort of Messages alone is taken for structured
    output; thinking that is off is planned as reasoning; a verbosity of Responses
    counts as structured output; thoughts in a Chat history are not seen.

### Token counts

37. The total read at the start of a Messages stream is not corrected at its end;
    a total that Copilot gives stands although its bill fills a zero part; a client
    of a Messages stream is told zero tokens where none are known.
38. Input tokens of Messages leave out cached ones and are told as prompt tokens;
    Gemini's candidates leave out thoughts that OpenAI's completion includes.
39. An answer with missing counts is rejected for unary clients of Chat and
    Responses, one with none for Messages, and one with `cache_creation` for all
    others.

## 6. Not modelled

- *Code that the server does not reach with a dispatcher*: the reducers of
  `server/protocols/` (its `errors.py` is in `ProviderAttempts`), the legacy pipeline and its routes, the attempt loop of the
  legacy routes, Copilot's legacy codecs, the legacy request and response classes
  of the providers, the reloads of an unmanaged router. Each handles one request
  and shares nothing.
- *A Gemini upstream for whole requests and answers*: no provider has such a
  binding. Its stream codec is in `StreamConversion`.
- `_restore_responses_identity_capsules`: a client of Responses gets a capsule only
  from a binding of another protocol, so it has none to restore for its own.
- *The envelope's shared decode* (`protocols/envelope.py`): it is awaited by one
  task per request, so the sharing never happens.
- *Capsule* (`runtime/reasoning_capsule.py`): cryptography, and a key ring file
  that two processes may create at once (`:303`). A capsule is what it seals here.
- *Guards and pipeline*: detectors over text, and a result that is recorded once.
- *Scores* for misspelt names, estimates of token counts, texts, logging, the
  audit trace and metrics: no property tells their values apart. That a failing
  flush of the trace still releases the lease is in `RouterGenerations`.
- *Files*: their validation, writers in other processes, and a disk that fails
  while a compensation is written.
- *Schemas, command line, web portal, server assembly*: declarations, one user at a
  time, or wiring.
- Inside modelled parts: `PATCH` of parts of a configuration (a configuration is a
  whole), several providers in `auth.json` (one), frames of keepalive (they can
  fail to be sent and change nothing else), several choices of Chat and candidates
  of Gemini, errors of the web framework, and the parameter an error names.

Four hazards of `PROJECT.json` have a model but no property, because what one
would state does not hold (observations 3, 7, 8 with 9, and 26); the fifth is the
key ring.

## 7. Plan

1. The key ring of capsules: two processes, a link that fails, a key that is used
   before it is durable.
2. `RoutePlanning` as the source of the routes of `GenerationDispatch`, and
   `ProviderAttempts` as the source of its outcomes, in one composition with the
   generations.
3. Streams with counts (`TokenUsage`) inside `StreamConversion`, and choices.
4. Liveness of logins: every session gets an outcome unless its task is cancelled.
5. The legacy reducers, if they stay.

Theorems worth proving next: that `TokenUsage` loses no count, once its folds are
functions; a codec of one protocol read back by its own reader; `FallbackPlan`
over the routes of `RoutePlanning` and the outcomes of `ProviderAttempts`, once
they are composed.
