# A verification of the group-buying agent

TLA+ modules that model the agent of this repository, the TLC configurations
that check them, and theorems about them that the TLA+ proof system checks.
Paths below are relative to the repository; line numbers are in `PROJECT.json`
(`map`), which names for every definition the code it models.

## 1. The system

A C++ server (`apps/api_server/main.cpp`) answers chat messages with
recommendations of group-buying deals. A request runs on a thread of its own
through one orchestrator: input guard, session store, planner (an LLM that
returns a JSON plan), tools (retriever, ranker, knowledge search), composer
(an LLM that writes the reply, or a template), output guard, session store
again. Three Python processes serve it: an LLM gateway, a retrieval service and
a ranking service. `/v1/chat` answers once, `/v1/chat/stream` sends events as
they happen.

### Components

| Component | State | Operations | Talks to | Hard behaviour | What makes it correct |
|---|---|---|---|---|---|
| Service circuit (`service_circuit.hpp`) in each client (`retrieval_client.cpp`, `ranker_client.cpp`, `llm_client.cpp`) | four atomics: failure count, open-until, cached verdict and its time; `healthy_` of the client | AllowRequest, CachedHealth, ReportSuccess, ReportFailure; Healthy, Post, Chat, ChatStream | the remote services; every request thread | relaxed stores of concurrent reports interleave; time passes between them | what an outage costs is bounded by its length and the success reports that land in it; the circuit closes again |
| SSE emitter (`sse_stream_emitter.cpp`) | queue, closed flag, condition variable | Emit, Finish, Error, Writer | orchestrator thread, server's writer coroutine | lost wake-ups, Error after Finish, broken connections | events in order, none after the terminal one, every response ends |
| Session store and orchestrator (`agent_orchestrator.cpp`, `sqlite_session_store.cpp`, `session_memory.cpp`) | sessions, turns, context; each request's locals | GetOrCreateSession, AppendTurn, GetRecentTurns, UpdateContext | SQLite, planner, tools, composer | requests of one session interleave; SQLITE_BUSY; the process dies | what was shown is stored; whoever comes later reads it |
| Planner (`task_planner.cpp`) | none | PlanNextStep, two attempts | LLM client | unreadable and mistyped plans | every request ends, an LLM call is audited |
| Tools (`deal_tools.cpp`) and tool loop | accumulated items, audit of the last ranking | deal_retriever, deal_ranker, kb_search | retrieval and ranking service, catalog | arbitrary plans, failing services, null columns | the model only reorders, what the tokenizer rules out stays out, the log explains the reply |
| Experiment manager | mode and percentage | Group, UseModel, WantShadowScore | ranker | none: a pure hash | a user keeps his group |
| Composer, output guard (`response_composer.cpp`, `safety_guard.cpp`) and the reply in the page (`web/app.js`) | reply, items, mode, guard action; text of the page | Compose, FactCheckReply, SanitizeOutputText; appendDelta, replace, finalizeText | LLM client, emitter | tokens are shown before the reply is checked; streams break and are retried | what the LLM wrote as the reply is checked; page, session and audit agree in the end |
| Rate limiter (`rate_limiter.cpp`) | a bucket per key | Allow | API server | the clock is read before the lock is taken | no window of time admits more than its rate; retry_after is kept |
| User profile (`preference_extractor.cpp`, `sqlite_user_profile_store.cpp`, `ResolveUserProfile`) | feedback rows, one profile row per user | Get, LoadFeedbackSignals, LoadSlotHistory, Upsert, with a time to live | orchestrator, feedback handler | concurrent extractions, the last of which may be the oldest; a wall clock that is set back; statements that fail half-way | unless a statement failed, every vote older than the time to live and an extraction's length has been taken in |
| Observability store | rows in a database of its own | LogRecommendation, LogLlmCall, metrics | orchestrator, API server | none in itself | rows describe what happened |
| API server (`main.cpp`) | pool threads, emitter ownership | chat, stream, feedback, metrics | all | detached threads; a stream holds one of four pool threads | every request is answered |
| Web page (`app.js`) | session, current stream, bubbles, vote buttons | send, stop, stream, fallbackChat, sendFeedback | API server | falls back to `/v1/chat` while the first request may still run; stop ends the wait and not the request; a vote's answer is lost | one message is asked once and in turn, replies belong to the conversation, a thanked vote is stored |
| Retrieval service (`retrieval_service/main.py`), seeding and embedding scripts, deal catalog (`deal_catalog.cpp`) | table with embeddings, corpus in memory, catalog of the control plane | seed, embed, start, search, local match | PostgreSQL, deals file, DealRetriever | three copies refreshed at different times; channels and statements that fail within a request | answers fit the filters; relaxation goes no further than needed; the data procedure leaves no copy behind |
| Ranking service, LLM gateway (Python) | model loaded once; none | rank, forward | C++ clients | partial answers | see tools and composer |

The prompt builder, authentication, scripts, SQL files and the vendored
coroutine library hold no behaviour that is worth a model; `PROJECT.json` says
why for each of them. `PROJECT.json` also lists the hazards, each at its line.

## 2. The modules

```
ServiceCircuit  <- ServiceCircuitCost <- MCServiceCircuitCost, ServiceCircuitProofs
EventStream    <-- refined by --  SseEmitter <- SseEmitterProofs
ChatTurn        <- ChatTurnProofs
ReplyStream     <- ReplyStreamProofs
ChatPage        <- ChatPageProofs
UserProfile     <- MCUserProfile, UserProfileProofs
Rankings        <- DealTools <- MCDealTools
DealSearch     <-- refined by --  RetrievalService <- MCRetrieval
DealFilter      <- DealSearch;  DealFilter, Rankings <- RetrievalService
DealTools, RetrievalService <- DealProofs
RateLimiter     <- RateLimiterProofs
```

They are cut where the code is: ChatTurn keeps of the tools and the composer
only whether they throw, which DealTools and ReplyStream look into; ReplyStream
keeps of the LLM client only what a stream may do, ServiceCircuit what its
circuit does; ChatPage keeps of a request when it stores and ends, which ChatTurn
takes apart; UserProfile keeps of a request what its planner is told.

### ServiceCircuit, ServiceCircuitCost

One client object and the threads `Callers` that share it. Each store of
`ReportSuccess` and `ReportFailure` is a step, so is each load that a branch
depends on: `LoadHealthy` is the second `healthy_.load()` of `Healthy()`, after
`StoreHealthy`. The four `Kinds` of call differ in where they go after a refusal
(`AfterAllow`), in whether they use the cached verdict, and in what they report:
`Post` reports success before it parses the body and failure if that throws
(`StampOk`, `Spoil`). Time is relative (`openLeft`, `healthAge`). The service is
up, sick (answers health checks only) or down and changes at any time.
The model's `failures` stays at `Threshold`; `failures_` goes on counting, but the code
only asks whether it has reached it.

ServiceCircuitCost follows an outage, the time from the service going down to its coming
back, with history variables that nothing zeroes in between: `paid` (exchanges each
caller lost to it), `total` (all of them), `cycles` (cool-downs that ran out) and what
success reports undo although the service is down, `resets` (of the counter) and `clears`
(of an open circuit). Such reports come from an exchange made before the outage or from a
probe that failed and read another caller's verdict in `healthy_` (`confused`). A service
that is sick is no outage: it answers, and each of its
unreadable answers resets the counter.

### EventStream, SseEmitter

EventStream is what a client is promised: a prefix of what was produced, in
order, complete after exactly one terminal event or broken. SseEmitter is the
queue with its critical sections as steps; a notification is a step after the
critical section, a wait releases the lock in one step with falling asleep,
spurious wake-ups happen. `LateError` is the catch block of the stream handler's
thread. The refinement maps the queue, the batch that the writer swapped out and
the connection to `sent` and `received`; the producer may close the stream and
the writer may fail in between.

### ChatTurn

Any number of `Requests` run the steps of `ChatStreamInner` that touch the
session store, one operation of the store per step, because its mutex covers one
operation. `Create` also returns a session whose row could not be inserted, whose
turns the foreign key then rejects. The planner is one step per LLM call, with
the calls not yet handed to the audit in `unaudited`. Slots are abstracted to
the requests whose wishes they hold. At most `MaxFaults` store operations fail
and the process dies at most `MaxCrashes` times; what is in the store survives.

### ReplyStream

One reply from `Compose` to the page. Texts are sequences of pieces; a "lie" is
a price claim without a matching item, "pii" what the output guard masks. The
stream of `/v1/chat/stream` is read token by token over `Addresses` addresses,
each of which may break after any token; `accumulated` is shared by them, as in
`StreamHttpSse`. The items are one text, `reason`, for their titles, tags and reasons. It is
the rules' or anything, because an LLM can write candidates into the ranker's arguments and
the tools keep a reason that is there. `ChatParses` merges the LLM's reasons into the items
before it checks the reply, as `Compose` does. Both endpoints may throw half-way
(`StreamThrows`, `ChatThrows`), which ends in the template too but leaves no `llm_calls` row.

### ChatPage

The page, the three POST handlers it calls and the pool threads that serve them.
Every message has two possible requests, its stream and the single request that
follows if the stream fails; a request is named by its message and kind, a session
by the request that created it. A page that restores its session from `localStorage`
(`app.js:39`) is one whose first message was answered and whose bubble is gone. Page actions are the functions of `app.js`
(`Send`, `ReadStarted` and `ReadLast` for `dispatchEvent`, `StreamEnds` for `finish`,
`FallBack`, `FallbackAnswer`, `FallbackFails`, `Stop`), server actions the stages of a
request (`Refuse` for authentication and quota, `Begin`, `Advance`, `Release` of the
pool thread, which a stream holds until it has ended or a write fails). Streams are
chunked, so one that ends early is an error to the page, before its last event
or after it. A vote is `Press`, `HandleVote`, and `VoteAnswered` or `VoteFails`,
which may come before, while or after the server stores it. `stopped` and `broken`
remember what the user and the network did.

### UserProfile

One user's votes, his row and any number of concurrent requests, one call of the
profile store per step, since its mutex covers one call. `Extract` counts likes
and dislikes of category and city among the first votes of the table, because a
statement that fails half-way returns the rows it has read. Time is kept as
ages: `row.age` is what the local clock shows and falls when the clock is set back
(`SetBack`), a vote's age is the real one. `given` says on how many votes the
profile rests that a request works with, `Unknown` if the row could not be written, and
with `kept` whether a stale profile is used instead, because those votes make nothing (`KeepOld`).

### Rankings

What a sort promises, without the sort: `Ranked` lists a finite set so that the k-th member
is the one that k - 1 others precede, `Arranged` lists positions of a list by a key, ties
in list order, as `std::stable_sort` does. DealTools and RetrievalService rank with them, and they
can be proved about without induction.

### DealTools

The tool loop with any plan an LLM can write: calls in any order, candidates
that are missing, not a list, or any list, with or without taboo words. A ranker
call is two steps: `CoarseRank` (filter, rule score, cut) and one of
`ServeRules`, `ServeFallback`, `ServeModel`; the ranking service scores any set
of ids in any way. Which deals a query matches, and in which order the retriever
returns them, is left open, and so are remote and local retrieval, which differ
in nothing else.

### DealFilter, DealSearch

DealFilter is what a deal must meet to answer a query; its three texts in the code
(Python, SQL, C++) agree, since the schema declares the columns they compare NOT
NULL. DealSearch is what a search is to the tool that calls it: `Question`, then
`AnswerOfService` or `AnswerOfItsOwn` in one step from one copy of the deals, which
stands still meanwhile. The answer lists deals of that copy, each once, that fit the query
in the category it reports, the service's in the first of category, alias and none that
finds anything (`Relaxed`); it is empty only if nothing fits. The service may be lost before
it answers (`Lose`), and may have read a table that is not its corpus (`Drift`); then it
promises only where its deals come from.

### RetrievalService

The deal search with everything that changes what it reads: the file, the table
(`Seed`, `EmbedReads`, `EmbedCommits`), the service's corpus (`ServiceLoads`,
`ProbeVectors`) and the control plane's catalog (`CatalogLoads`), each refreshed
on its own. A request is one step per SQL statement or channel; `FilterBy` is one
filter of the relaxation chain, `Fused` the rank fusion in exact fractions. Inside a
channel any ranking may come out, and the vector index may miss rows. Two
history variables: `inSync` (whenever this request read the table it equalled the
corpus) and `step` (how far the documented procedure of a data change has come).
The refinement maps the stage of the request to `status` (all stages at the service are
one), the category to what the answer reports, and a request that is not `inSync` to
`drifted`; filters and channels are stutters of DealSearch, or its `Drift`.

### RateLimiter

One bucket in integers: a token is `Cost` grains, a unit of time refills one
grain. `ReadClock` and the critical section (`Admit`, `Reject`) are separate
steps, up to `MaxLag` apart, so a bucket is refilled with stale times and
`last_refill` moves backwards, as in the code. `StartWindow` marks any instant
from which `RateBounded` counts.

## 3. The runs

| Run | Shows | Bounds |
|---|---|---|
| outage_cost | Over a whole outage, `PaidFailuresBounded`: a caller loses `Threshold` exchanges, one per cool-down that ends and `Threshold` per reset of the counter; resets are no more than one late success of each caller and the probes taken for healthy. `BurstBounded`: all callers together lose what opens the circuit with those under way beside it, as much again per reset, and one burst per end of a cool-down | two callers up to symmetry, threshold 2, cool-down 2 ticks, TTL 1, in one outage two cool-downs that run out and one failed probe taken for healthy; any number of outages; probes and posts, whose reports contain those of the other kinds |
| circuit_recovers | `Recovers`: once the service stays up and callers no longer confuse their verdicts, the circuit closes for good | two callers, all four kinds, threshold 2 |
| sse_emitter | `ImplementsEventStream`, `DeliveredInFull` | three progress events of two kinds, then a terminal one and a late error |
| chat_turns | `ReadsEarlierContexts`, `ReadsEarlierAnswers`, `ShownIsStored`, `AnswerHasContext`, `Terminates` | two requests, window 2, one failing operation, one crash |
| reply_stream | `ClaimsChecked`, `StreamedReplyIsShown`, `PageSettles`, `InterventionsRecorded`, `Settles` | two addresses, replies of four pieces, an item text of any kind |
| deal_tools | `ModelOnlyReorders`, `AuditExplainsItems`, `RuledOutStaysOut` | four calls, four deals (ruled out, without district, without price, invented), cuts of 3 and 2 |
| retrieval | `AnswersFit`, `FusionKeepsOrder`, `ProcedureRefreshes`; `ImplementsDealSearch`: to its caller the search is atomic and gives up the category no further than needed | two contents of the file, three deals, two edits, the code's own `RRF_K`, pool and factor, top_k 2 |
| embeddings_stale | **violated** `EmbeddingsCurrent` | one edit |
| user_profile | `OldVotesReflected`: unless a statement failed, the profile a request is given misses no vote older than the time to live, an extraction and the set-back clock, or is a stale one kept because the votes prefer nothing. `RowFollows`: when all comes to rest, the row becomes what the votes make of the user | two cards of one category in two cities, one preferred key of a kind, two requests, two votes, time to live 0, extraction up to 1 tick, one mishap (a failing statement or a clock set back) |
| chat_page | `ReplyInConversation`, `AskedInTurn`, `AskedOnce`, `VotesCount`, `PageSettles` | one pool thread, two messages, two presses, two broken connections |
| vote_trace | **violated** `VoteTracesItsReply` | two messages, no broken connection |
| rate_limiter | `RateBounded`, `PromiseKept` | two threads, lag 2, burst of one and a half tokens, seven units of time |

Why these bounds are enough. Two threads show every race of two reports, probes
or requests; nothing in the code waits for a third party. Threshold 2 is the
smallest at which one failure must not open the circuit and an interleaved
success can fall between two. With two callers an outage can have three resets, as many as
`SuccessesExplained` allows: two late successes and a mistaken one. The bound on a caller's
cost is reached with and without a reset, that on the burst without one. Three progress events let one be on the wire, one
in the batch and one in the queue. Two requests of one session leave three turns
when the second plans, one more than the window of two. The two contents of
the deals file differ in a deal that goes, one that stays and one whose category,
price and text change. Two addresses are
one retry. With cuts of 3 and 2 and duplicates from repeated retrieval, lists
are longer and shorter than both cuts. A burst of one and a half tokens makes
the refill cap bite at a fraction. One pool thread makes every request wait
for the one before, more threads only relax that; two messages are one stopped
or broken and one after it. Two cards that share a category and not a city
make one vote move two scores and let a dislike cancel a like; time to live 0
means that a row is stale after one tick, an extraction of one tick that a vote
can fall into it. The run of UserProfile has no wishes (`Wishes = {}`): they only
make a profile have signals without votes, which the proof covers for any set. `CHECK_DEADLOCK FALSE` is set where a finished
request, an ended stream or a stopped clock is the end of the instance; the
circuit never stops, and is checked for deadlock.

Fairness. FairSpec of ServiceCircuit: time passes, and a call that has begun
goes on, because every network operation of the clients has a timeout; nobody is
obliged to call and the service need not recover (`Recovers` assumes it).
SseEmitter: both threads run and the orchestrator ends every request with Finish
or Error, which its catch blocks guarantee; spurious wake-ups are not assumed.
ChatTurn: a request that is running goes on, since the LLM, the services and
SQLite are called with timeouts or fail at once. ReplyStream: one thread runs the
request. UserProfile: time passes and a request that has begun goes on; `RowFollows`
assumes that the user goes on asking. ChatPage: the server takes up what waits
when a thread is free and finishes what it began; the page reads what arrives and
acts on a refusal. Nothing obliges the user to send, stop or press, or a
connection to break.

### Where the code departs from what is written

* **Embeddings of old texts** (embeddings_stale). The seed's upsert keeps the embedding of
  a row whose text it changes, and the incremental job embeds only rows without one,
  so the documented procedure leaves vectors of texts that are gone; only
  `--force` renews them.
* **Votes under another trace** (vote_trace). A vote carries the trace of the newest reply
  (`app.js:243`), and the buttons of earlier ones stay usable: the vote is stored
  under a recommendation that did not contain its deal, where
  `docs/面试题库_全模块.md:367` joins votes to recommendations by the trace.

Others are known and have no run: `Healthy()` stores its verdict in the shared `healthy_`
and branches on a second load, so a probe can report another one's verdict
(`service_circuit.hpp:26`); the premise of `Recovers` names the consequence, two
probers of a healthy service that keep the circuit opening. The template that replaces a
reply with a false price repeats the reasons that reply's answer merged into the items,
although `response_composer.cpp:267` says a violation never reaches the user, and every
template repeats the title and reason of an item unchecked, which an LLM may have written
as a candidate of the ranker (`agent_orchestrator.cpp:491`, `deal_tools.cpp:203`): `ClaimsChecked`
excepts the templates for both. What the output guard masks in an item's title, tags or reason leaves no
record (`agent_orchestrator.cpp:638` compares the reply alone), so `InterventionsRecorded`
speaks of the reply. After a vector query that
failed or found nothing, the text channel's pool of `max(4 * top_k, 40)` is served
without a cut. A stale profile whose re-extraction has no signals, or cannot be
written, stays in use (`agent_orchestrator.cpp:88`, against the comment at :66);
`OldVotesReflected` allows the first only if the votes prefer nothing, and says nothing of the second. A planner's answer whose fields have the wrong type
throws out of `PlanNextStep` with the record of its calls
(`agent_orchestrator.cpp:217` promises a row for each); the taboo tokenizer compares
bytes with multi-byte separators, so words between Chinese separators rule out
nothing (`docs/面试题库_全模块.md:216`); relaxation level 2 gives up the category where
`docs/面试题库_全模块.md:589` says price and party; the deltas of a stream that broke, put
together, are not the reply (`README.md:381`; the final event corrects the page,
which `PageSettles` checks); turns of two requests at once do not alternate
(`docs/面试题库_全模块.md:465`); candidates that the LLM writes into the ranker's
arguments are served with prices nobody looked up (`docs/面试题库_全模块.md:176`);
with a burst of less than one token `retry_after` is never kept, which is why
`RetryAfterHolds` assumes one.

## 4. The proofs

For every value of the constants, from the named assumptions on them (`CircuitAssumption`,
`CostAssumption`, `EmitterAssumption`, `TurnAssumption`, `LimiterAssumption`,
`ProfileAssumption`, `PageAssumption`, `ReplyAssumption`: cut-offs and counts are
numbers, and the callers of a circuit are finitely many; `DealAssumption`: finitely many deals
with integer rule scores; `SearchAssumption`: the deals files map finitely many ids to deals
that have a text and an integer rating, a query has its fields and an integer ceiling),
TLAPS proves every invariant and every action property the passing runs check, and both
refinements:

* **ServiceCircuitProofs** `TypeCorrect` and `OutageCost` (`PaidFailuresBounded`). The
  bound is not inductive: a caller that has failed but not yet counted may be
  admitted again. `CostInv` says, caller by caller, what it may still spend: while
  it is admitted, or the circuit is closed and it has nothing to store, it is one
  below the bound, and until the counter reaches the threshold everything it paid
  for since the last reset is counted or about to be. `SuccessInv` counts the callers that have
  a success to report from before the outage (`ToReset`, `ToClear`): none joins them
  during it but through `healthy_`. `BlankInv` says that the history is zero outside an outage.
  One lemma per action. `BurstCost` (`BurstBounded`) counts
  callers: summing `paid` over them would need an induction, so the model keeps the
  sum, `total`, as it goes. `BurstInv` says that before the counter reaches the threshold
  `total` exceeds what was granted by no more than the counter and the callers still
  reporting (`Reporting`), and that afterwards the bound has room for each caller that can
  still pay before the next cool-down ends (`MayPay`). The step to the threshold changes from
  the one to the other, since who reports cannot pay.
* **SseEmitterProofs** `EmitterCorrect` (`TypeOK`) and `EmitterRefinesStream`: every
  step of the emitter is a step of EventStream or a stutter. The invariant is
  `EmitterInv`: what was accepted is wire, batch and queue in this order, and `EndInv`,
  which ties the closed flag to the terminal event. The writer that waits has an empty
  batch, the producer closes only after a terminal event or when the writer
  already did.
* **ChatTurnProofs** `TypeCorrect`, with `AttemptInv` (the planner asks at most
  twice), and `EarlierContextsAreRead` (`ReadsEarlierContexts`). `ContextInv` adds that
  only a request that is still running can write, so that whoever a new request counts as
  earlier has written all it will. `AnswersAreStored`, `AnswersHaveContext` and
  `EarlierAnswersAreRead` rest on `AnswerInv`, which follows each request: a session
  without a row never gets one later (`Home`), a reply is in a transcript only past
  AppendReplyTurn and by then its context was written (`Told1st`, `Backed`), and its turn
  is the last one when it is appended (`Kept`). One lemma says what the steps of
  others leave of a request's answer, one per action what its own do.
* **ReplyStreamProofs** `TypeCorrect`, `ClaimsAreChecked`, `DeltasAreTheReply`,
  `PageAgrees`, `InterventionsAreRecorded`, for replies of any length over any number of
  addresses. `ReplyInv` adds that page and accumulated text are the same while tokens
  arrive (`ShownAsHeard`), that nothing is decided before the reply is composed
  (`Untouched`) and when there is nothing left to mask. `ClaimsAreChecked` says no more than the code does:
  a false claim leaves in a template or not at all.
* **ChatPageProofs** `TypeCorrect`, `TurnsAreInOrder` (`AskedInTurn`),
  `MessagesAreAskedOnce`, `RepliesAreInConversation`, `VotesAreCounted`. `TurnInv` says what
  each request owes its being there to (a second request to a refusal or a broken
  connection), `SessionInv` that the request the page waits for works in the page's
  session or the page has none yet, `VoteInv` that the vote under way is its reply's
  only one unless an answer was lost.
* **UserProfileProofs** `TypeCorrect` and `OldVotesAreReflected`. The invariant bounds what
  each extraction misses: an unfinished one what was cast since it read (`RequestsMiss`),
  the row its age, the length of an extraction and what the clock was set back by
  (`RowMisses`), whoever wrote it last; a row says something (`RowSays`), and a stale profile
  that is kept is one request's answer and never reaches the row (`NotKept`).
* **DealProofs**, rankings: `RankedLists` says that `Ranked` lists every member of a finite
  set once and in order. In a strict total order no two members have as many
  predecessors (`Predecessors`), so as many numbers are taken as there are
  members; this takes the place of an induction over the list. `ArrangedLists` and
  `Reordered` carry it over to lists with duplicates.
* **DealProofs**, tools: `ToolsTyped`, `ModelReordersOnly`, `AuditExplains`, `RuledOutNeverRanked`. They
  are inductive together with `CoarseObeys`, that the taboo is obeyed between the two
  rankings; one lemma serves the three ways a ranker call ends (`ServeKeeps`).
* **DealProofs**, search: `ProcedureWorks` (`ProcedureRefreshes`) from `DataInv`: what each stage of a
  data change has refreshed, and that an embedding job which has read since the seed
  knows every row that lacks an embedding. `SearchTyped`, `OffersFit` (`AnswersFit`), `RelaxesEnough`
  (`RelaxesNoFurther`, which the run checks as part of the refinement) from `RequestInv`: which stage finds the service running and nothing
  left of an earlier request (`StageInv`), in which category it searches (`LevelInv`), and what
  it knows of the corpus if the table was equal to it at every read (`SyncInv`); the
  corpus cannot change under a request, because a service that stops loses its requests.
  `FusionOrders` (`FusionKeepsOrder`) compares the scores as fractions: a deal ahead in each channel has
  the greater part in it, and products of the parts carry that over to their sum.
* **DealProofs**, refinement: `SearchIsAtomic` (`ImplementsDealSearch`): every step of the search is a
  step of DealSearch or a stutter, one lemma per action. It needs `RequestInv` before and after the
  step, and that no list repeats a deal (`ItemsOnce`).
* **RateLimiterProofs** `TypeCorrect`, `RateIsBounded` and `RetryAfterHolds`. A stale refill moves
  `tokens` and `last_refill` along one line: `Credit = tokens + (clock - last)` does
  not grow by it. `LimiterInv` bounds what a window admitted plus the credit; a
  promise stays kept because only an admission lowers the credit (`PromiseInv`).

Only model-checked: everything under fairness (`Recovers`, `DeliveredInFull`,
`Terminates`, `Settles` of ReplyStream, `RowFollows`, `PageSettles` of ChatPage), which is out of the
prover's reach. `RetryAfterHolds`
assumes `Burst >= Cost`; the run's instance has it.

## 5. What is not modelled, and what is left

Not modelled: the wording of prompts and replies (`prompt_builder.cpp`), regular
expressions of the input guard, BM25, vectors and the trained model (their results are
arbitrary), the hash of the experiment, `price_sensitivity` and the words of a taboo in a
profile, durations (the 120 s of a streaming read against the composer's timeout), the
unbounded number of buckets, the knowledge base's own ranking, the gRPC transport (an
optional second client with the same circuit), authentication (one comparison), the
health and metrics routes, the page's layout, offline scripts, and the external HTTP
library. The observability rows are written after the answer and read by the metrics
route only. The LLM gateway forwards and keeps nothing.

What is left, most useful first:

1. A composition of DealTools with DealSearch: today `DealRetriever` returns any list of
   distinct deals, of which an answer of DealSearch is one.
2. A composition of ChatPage with the steps of ChatTurn; today they are joined by what
   ChatPage keeps of a request.
3. The order of turns when two requests of a session run at once, if the code is ever
   made to promise one.
