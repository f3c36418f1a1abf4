# NextBOS agent: a TLA+ verification project

NextBOS AI (`src/src/app`) is a FastAPI service around one LangGraph agent. A chat request
stores its question in PostgreSQL, runs the agent over the thread's Redis checkpoint (or, when
there is none, over context restored from PostgreSQL), and stores the reply. The agent answers
directly, asks back, or plans, validates and runs SQL through Wren and draws a chart. This
directory holds TLA+ modules of that behaviour, TLC configurations that check them on small
instances, and TLAPS proofs of what holds for every instance.

Paths below are relative to `src/src/app` unless they start with `src/`.

## 1. Inventory

### Components, their state and their operations

| component | state | operations that change it |
|---|---|---|
| conversation repository, `conversation/repository.py`, `persistence/postgres/models.py` | tables `conversation_threads` (with the redundant `message_count`, `last_message_at`), `conversation_messages`, `conversation_summaries` | `create_thread`, `append_user_message`/`append_assistant_message` (both `append_message`), `save_summary` |
| conversation reads, same file and `api/routes/conversations.py` | none | `list_recent_messages`, `get_latest_summary`; `list_*` and `count_*` of the API |
| agent graph, `agent/graph.py`, `agent/nodes/*`, `agent/state.py` | `AgentState` of a thread: messages, intent decision, SQL plan, validation, execution result, chart plan, chart result | the twelve nodes and the routing between them |
| structured outputs, `agent/schemas/*` | none | pydantic contracts on what a model returns |
| graph runtime, `agent/runtime.py` | none of its own | `_checkpoint_exists`, `_prepare_graph_run`, `run_graph`, `stream_graph` |
| checkpointer, `memory/short_term/checkpointer.py` | Redis: the checkpoints of each thread, with a TTL renewed on read | written by LangGraph after each superstep; expires |
| chat service and routes, `services/agent_service.py`, `api/routes/chat.py`, `api/streaming.py`, `api/errors.py` | per request: tokens, `chart_emitted`, `final_state` | `chat`, `stream_chat`, the SSE events, the error mapping |
| context restore and summaries, `conversation/context_loader.py`, `conversation/summary.py` | none | `load_messages`, `extract_running_summary` |
| model configuration, `llm/config_resolver.py`, `agent/model_runtime.py`, `persistence/postgres/llm_model_repository.py` | profiles and configuration snapshots | `resolve` (once before a run, once in every node that calls a model), `save_effective_snapshot`; profiles are edited by others |
| Studio runtime, `agent/studio_graph.py` | `_schema_initialized` and its lock; the tables, which the API's lifespan creates too | `_ensure_schema`, `initialize_agent_schema` |
| Wren and SQL tools, `integrations/business/*` | none | validation, execution, translation of tool payloads |
| long-term memory, tools, skills, knowledge | registries | set-up only |
| application, settings, logging, tracing | process-wide objects | start-up |

`PROJECT.json` lists the same components with what is modelled of each.

### How they interact

```
POST /chat, /chat/stream                               POST /conversations
        |                                                       |
   AgentService --append_user_message--> ConversationRepository <-- list_* (conversations API)
        |        <-append_assistant_message, save_summary->     |
        |                                                       | load_messages (no checkpoint)
   run_graph / stream_graph --- _prepare_graph_run -------------+
        |            |  _checkpoint_exists
        |            +-----------------------> Redis checkpointer (shared by all runs of a thread)
   the compiled graph: node after node, every update checkpointed
        |
   model runtime, Wren client, SQL executor (the outside world: any answer, or an exception)
```

Calls are coroutines of one event loop. Nothing keeps two requests on one thread apart: they
meet in the row lock of PostgreSQL and in the latest checkpoint in Redis, nowhere else.

### What is hard

* **Overlap.** Repository calls of several requests interleave between statements; two runs of
  one thread write their checkpoints over each other, and each may restore the other's question.
* **State that outlives its turn.** The checkpoint carries plan, validation, execution and chart
  of the last turn into the next. Nothing in it says which turn it belongs to.
* **Partial failure.** A request stores its question, runs, stores the reply and the summary in
  four separate transactions; each may fail, and the client may leave at any point.
* **Live configuration.** Every node that calls a model reads the profiles anew; they are edited,
  deactivated and deleted meanwhile. What the reply is filed under is the last node's snapshot.
* **Two creators.** The API and Studio create the same tables, each in its own transaction, and
  Studio's first calls race for it behind a flag and a lock.
* **Two reads.** A list and its total are read in two sessions.
* **Loss.** A checkpoint expires; the context then comes from the last 20 rows, which include the
  question that is being asked.
* **Order.** `now` is read before the row lock is taken; the closing events of a stream come after
  the store; the chart reaches the service twice.

Every such place is a hazard of `PROJECT.json`, at its line, with the properties that cover it.

### What makes each component correct

* Repository: redundant columns agree with the rows; a call happens at once or not at all; every
  call ends. `last_message_at` orders the conversation list.
* Graph: nothing an earlier turn left behind passes for this turn's - no old SQL executed, no
  answer or chart over old rows, no old message stored as the reply; tool requests get their
  results; the recursion limit is out of reach.
* Runtime and restore: the question is in the context once and is the last human message; no
  answered exchange is forgotten within the restore limit.
* Lists: a page is never longer than its total, and a thread opened from the list has at least the
  messages the list announced.
* Configuration: a reply is filed under the configuration of its turn's last model call; an alias
  is never served by another profile; a turn would use one configuration.
* Studio: nothing reads a table before it exists; one coroutine creates; nobody waits for ever.
* Service: done means stored; a reply belongs to its request; one chart per turn, shown if drawn;
  a stream begins with start and ends with one of done and error; every request ends.

## 2. Modules

| module | models | extends / instantiates |
|---|---|---|
| `ConversationLedger` | abstract: what the store promises | |
| `ConversationStore` | repository and tables, statement by statement | refines `ConversationLedger` |
| `ConversationStoreProofs` | its theorems | `ConversationStore`, TLAPS |
| `ConversationsApi` | the list routes over the changing store | extends `ConversationStore` |
| `ConversationsApiProofs` | its theorems, and that the store beneath is the store | `ConversationsApi`, `ConversationStoreProofs` |
| `SqlTools` | what the code makes of the answers of Wren's tools, as operators | |
| `AgentGraph` | one thread through the graph, turn after turn | extends `SqlTools` |
| `AgentGraphProofs` | its theorems, of the turns and of the context of a run | `AgentGraph`, TLAPS |
| `Ranks` | the members of a finite set of numbers, in order: one operator | |
| `RanksProofs` | that it lists each member once | `Ranks`, TLAPS |
| `ChatStream` | the SSE events of a thread's streamed turns | extends `AgentGraph`, `Ranks` |
| `ChatStreamProofs` | its theorems, and that the graph beneath is the graph | `ChatStream`, `AgentGraphProofs`, `RanksProofs` |
| `ChatService` | overlapping requests on one thread | extends `Ranks`; instantiates `ConversationLedger` as its store |
| `ChatServiceProofs` | its theorems, and that its writes are steps of the ledger | `ChatService`, `RanksProofs` |
| `StudioSchema` | the creation of the tables by Studio and by the API | |
| `StudioSchemaProofs` | its theorems | `StudioSchema`, TLAPS |
| `ModelConfig` | the configurations of turns while profiles change | extends `StudioSchema` |
| `ModelConfigProofs` | its theorems, and that it refines `StudioSchema` | `ModelConfig`, `StudioSchemaProofs` |
| `MC...` | the small instances | the module of that name |

### ConversationStore

One *call* is one invocation of `append_message` or `save_summary`: `BeginAppend`/`BeginSummary`
read `now` before the transaction opens (repository.py:262, 322), `Upsert` is the
`INSERT ... ON CONFLICT DO UPDATE` that takes the thread row's lock, `InsertRow` the flush of the
new row (with the foreign key of `covered_through_message_id`), `CountMessage` the update of
`message_count` by the database, `CommitMessage`/`CommitSummary` the end of `session.begin()`.
`Abort` and `RejectSummary` roll back. `CreateThread` is the one-statement `POST /conversations`.
`threads`, `messages`, `summaries` are the committed tables; `draft` is the row as the open
transaction sees it; `holder` is the row lock. `Upsert` reads the committed row under the lock,
which is what READ COMMITTED gives an upsert that has waited.

A summary's `covers` is a stored message of its thread, NULL, or `Foreign`: LangGraph draws uuids
for its own messages, `_parse_uuid` accepts them, and PostgreSQL does not know them.

`ConversationLedger` has one variable, `book`, and three instantaneous entries. `Book` in
`ConversationStore` is the refinement mapping: committed tables, seen as books.

### ConversationsApi

`ListThreads` and `ListMessages` are the first query of the two routes, `Respond` the second one
and the response made of both; `StoreStep` is any step of the store between them. `Page` is what
`ORDER BY ... LIMIT` may return: of threads any that fit, of messages the newest by `created_at`.
`Total` counts by thread and by the user of each row, as `count_messages` does, not by the
thread's owner, which an upsert changes. `listed` remembers what the reader was last shown.

### SqlTools

`ValidateSqlSync` and `ExecuteSqlSync` map every answer a tool may give - missing, raising, silent,
refused, without `dialect_sql`, with rows that are no objects or a column without a name - to the
result the node gets, or to `Raised` where pydantic refuses that result. `AgentGraph` takes its
`ValidationStatuses` and `ExecutionOutcomes` from them. That rows which are no objects are dropped
without a word (sql_executor.py:100) is in `ExecuteSqlSync`, and no property speaks of it.

### AgentGraph

`pc` is the node a turn is at, or where its request is before and after the run. Each node is one
action, made of `Superstep(node, update, next)`: the update is checkpointed and the edge is taken.
What a model, Wren or the database may answer is an existential quantifier over the records the
schemas allow (`Decisions`, `RawPlans`, `ValidationStatuses`, `ExecutionOutcomes`), after the
checks the code makes: a plan that breaks the pydantic contract becomes
`FallbackSqlGenerationPlan`, and so on. `StartRun` draws which clients the run is built with.
`Break` is any exception, disconnect or recursion error; `Expire` the TTL. `EndRun` drops what only
the request knew: its clients, its count of supersteps, the result of its checkpoint test.

Every value a node writes is tagged with its turn. The tags are history: no guard reads them.
A candidate's name stands for its text and for Wren's rendering of it in the database's dialect.

### ChatStream

Each action of the graph is joined with the events `stream_chat` makes of its update
(`Silent`, `AgentStep`, `ChartStep`, `RespondStep`, `ToolsStep`, `FinalRespondStep`). `StoreReply`
is `_persist_assistant_result`'s first transaction with the final state read before it,
`CloseStream` the chart of the final state and `done`, `BreakStream` and `LeaveStream` the ways a
stream ends early, the refused summary after the stored reply among them.

`calls` is the list of tool calls of the message `respond` has just written, each with a name or
without one; the place of a call in the list stands for its id, which `AIMessage`, `ToolMessage` and
the events share. A call without a name is not announced (agent_service.py:505-506), but `ToolNode`
answers it, with an error, and `_tool_result_events` sends that: `tool_error` without `tool_start`.
`ToolEventsPaired` therefore speaks of announced calls and of tools that have run, and says nothing
of a nameless call but that its error comes once.

### ChatService

One request is the sequence `Ask`, `StoreQuestion`, `FindCheckpoint` or `MissCheckpoint` and
`Restore`, `StartRun`, `ReadQuestion` (the intent node), `EndRun`, `TakeOwnReply` (blocking,
`ainvoke`'s values) or `TakeLatestMessage` (streaming, `aget_state`), `StoreReply`, `Finish`; any
step may `Fail`. `ckpt` is the thread's latest checkpoint, `local` each run's own copy of the
messages. Messages have ids: rows keep theirs when restored, LangGraph draws others, and
`AddMessages` merges by id: the fresh messages follow the old ones, in their order (`Nth`).
`LoadMessages` are the `Newest` rows, `RestoreLimit` of them at most (20 in the code). A window of
that width may hold no question at all, so `LatestQuestion` may be `None`; and it may leave out the
question it was restored for, when other requests stored that many rows in between: `Outrun`, the
exception of `OwnQuestionSeen`. `QuestionOnce` has an exception as well: a request that found a
checkpoint sends its question by itself, while its row is already there; another request that
restores its context then brings the row, with another id, and a run that meets both has the question
twice. So a question that is sent by itself is judged in its own run when the request was alone, and
in other runs while no checkpoint was lost; one that was restored is judged in every run. The store
is `ConversationLedger`, which `ConversationStore` is proved to implement. `overlapped` is history:
the requests that shared the thread. `RepliesFollowQuestions` asks two things of a stored reply: its
row comes after the question of the request that stores it, and after the question it answers, which
is another request's when runs overlap.

### StudioSchema and ModelConfig

`EnsureSchema` is `_ensure_schema` up to the lock, `Acquire` the wait for it and the second test,
`LookAtTables` and `CommitTables` the two halves of `create_all`'s transaction, `Abandon` any way
out of `async with` but the end of it. `StartApp`/`FinishApp` are the API's lifespan, which does the
same without a gate; `RestartStudio` forgets flag, lock and calls.

In `ModelConfig` one turn is `BeginTurn`, then for every node that calls a model `PassGate` (Studio
only), `SelectProfile`, `SaveSnapshot` and `CallModel`, then `PersistAssistantResult` (API only).
`SelectProfile` is the query, `SaveSnapshot` the commit of the snapshot and the test for a key in
`build_chat_model_kwargs`, `MissProfile` the foreign key of a profile that was deleted in between.
`HasKey` is false of every database profile: runtime.py:185 and studio_graph.py:49 make the
repository without `decrypt_api_key`, so that a turn that selects one ends with
`LLMConfigurationError` after its snapshot was committed. A snapshot's turn and alias, and a reply's
`called`, are history.

## 3. Runs

| run | what it shows | distinct states |
|---|---|---|
| `store` | Three overlapping calls of two users that may fail at any statement, under a reader: types, `CountMatchesRows`, `LastMessageAtIsAMessage`, `RowWritersExclude`; the store implements `LedgerSpec`; `EveryCallEnds`; `PageWithinTotal`, `AnnouncedMessagesShown` | 141,769 |
| `store_activity` | *violated*: `LastMessageAtIsLatest` | |
| `graph_context` | Two turns along every path, breaks and losses, two restored rows: `IntentReadsThisTurn`, `QuestionOnce`, `AnsweredTurnsInContext` | 181,541 |
| `graph_clarify` | *violated*: `ClarifyAsksThisTurn` | |
| `stream` | Two streamed turns, two candidates, every answer. Of the graph: `ExecutedSqlPassedThisTurn`, `AnswerGroundedInThisTurn`, `ChartDrawnFromThisTurn`, `ReplyEndsTurn`, `AnsweredToolCalls`, `RunsWithinStepLimit`. Of the events, with up to two tool calls in a message: `StreamShape`, `DoneMeansStored`, `OneChartPerTurn`, `DrawnChartShown`, `ToolEventsPaired` | 3.35 million |
| `stream_chart` | *violated*: `ChartOnlyFromThisTurn` | |
| `service` | Three requests, two at a time: `RepliesFollowQuestions`, `ExchangeKept`, `BlockingReplyIsOwn`, `AnswersOwnQuestion` | 1.53 million |
| `service_loss` | Two requests and two lost checkpoints: `OwnQuestionSeen`, `NoMessageTwice`, `QuestionOnce`, `EveryRequestEnds` | 79,465 |
| `service_stream` | *violated*: `StreamReplyIsOwn` | |
| `service_intent` | *violated*: `QuestionIsOwn` | |
| `model_config` | Turns of an API or a Studio thread, another Studio call, the API's start-up, one edited profile: types, `SchemaBeforeUse`, `OneInitialiser`, `ReplySnapshotIsLastCall`, `AliasNotReplaced`, `TurnsEnd` | 219,673 |
| `config_drift` | *violated*: `OneConfigPerTurn` | |

`PROJECT.json` names for every property of a passing run a mutated definition that breaks it: the
dropped lock, the stale result kept, the limit short by one.

### Bounds, and why they are enough

* `Calls`, three on one thread: two that contend and one that stored a message before (so that a
  summary has something to cover and a counter something to lose). `CallsOf` gives one user, the
  reader, two of them and the other user one: enough for a thread to be taken over before, during
  and after a list is read. `Times` 0..1: equal and different stamps. `Limit` 1: pages that are
  full, short and empty. The theorems hold for any number of all of them.
* `MaxTurns` 2 for results: a stale value needs one turn to write it and one to misuse it. Two
  candidates tell the preferred one from the first. `MaxRows` 3 (100 in the code): empty results,
  and results some or all of whose rows are dropped. `MaxCalls` 2: two calls of one message, of
  which none, the first, the second or both have a name and a result without error. `StepLimit` 9 is
  the least limit with which no run is cut off; LangGraph's own is 25, which the other runs of the
  graph use.
* `TurnLimits`: the API thread takes two turns, so that a checkpoint holds an earlier turn's id, or
  the Studio thread takes one: the two share the tables, whose creation by either process is there
  in both cases, and the profiles, which are edited at any point anyway. One profile, one
  unknown alias and `MaxEdits` 1: a profile that is deactivated, made the default, changed or
  deleted at any point. `EnvKey` TRUE, otherwise no turn gets past its first resolution.
* `MaxTurns` 2 and `RecentLimit` 2 (20 in the code) for context: three rows before the last answer,
  one more than are restored, so that the window starts at a reply, or at the question of a turn
  that broke off; three turns were checked as well and take minutes. One candidate and results
  without rows (`MaxRows` 0): what SQL returns does not matter to the context, and every node is
  still visited. The theorems hold for any number of turns and rows.
* `Requests` 3, `MaxOverlap` 2, `MaxLosses` 0 or 2: two that overlap and one before or after them;
  with losses, two requests, where a loss can fall before, between and after the test for the
  checkpoint and the start of the run. `RestoreLimit` 2 (20 in the code): the least window in which a
  question and its answer fit, so that two rows of the other request already outrun a question in
  the run with losses. `MCSymmetry` exchanges the streaming requests; the run with a liveness
  property does not use it.
* In `ChatService` each stamp is a new time (`Times` is Nat and every reading of the clock counts it
  up; a request reads it twice, so it is finite in a run). Equal stamps would let PostgreSQL return
  rows in any order; the repository breaks no ties by a sequence, and the model does not go there.

### Fairness

`ConversationStore!Fairness` is weak fairness of each call's progress: the event loop resumes a
coroutine, PostgreSQL answers a statement or drops the connection, and a row lock is granted when
it is free. Calls are finite in number, so a waiting call cannot be passed for ever.
`ChatService!FairSpec` is weak fairness of each request's progress: models, Wren and databases
answer or raise (clients have timeouts), and a request never waits for another.
`ModelConfig!FairConfigSpec` is weak fairness of each turn's step for the same reason, strong
fairness of a Studio turn's way through the gate (asyncio.Lock hands itself to those who wait in the
order they came, so that other calls that come and go do not keep it from one), and weak fairness of
another call that holds the lock. `FairApiSpec` is `Fairness` of the store. Failure, loss,
disconnection, edits and restarts are never assumed to happen. The other runs assume no fairness.

## 4. Findings

Six runs end in a violation of what the repository says about itself:

1. `store_activity` (repository.py:262). `append_message` reads `now` before its transaction. Two
   appends may commit in the other order, and `last_message_at` then goes back, although
   models.py:37 gives it as the column to sort conversations by without scanning messages.
2. `graph_clarify` (nodes/clarify.py:11). When `intent` routes to `clarify`, the SQL plan of an
   earlier turn is still in the state and its question is preferred to the one the intent has just
   formulated; clarify.py:7 says the latest node's question is preferred.
3. `stream_chart` (services/agent_service.py:177). A turn without a chart sends the chart an
   earlier turn left in the state, just before `done`; chat.py:109 says the event means that a
   chart request succeeded.
4. `service_stream` (agent/runtime.py:149). A streaming request reads the final state from the
   thread's latest checkpoint. If another request on the thread has written it, the last message of
   that request's run, which is its question or its reply, is stored and sent in place of the own
   reply; runtime.py:119 describes it as this run's final state.
5. `service_intent` (nodes/intent.py:87). A request that restores its context after another one
   stored its question takes that question for its own; intent.py:85 says it is this turn's.
6. `config_drift` (llm/config_resolver.py:84). Each node resolves the live configuration again, so
   the calls of one turn use two configurations when a profile is edited between them;
   config_resolver.py:70 says the graph should not read the live default again while it runs, and
   models.py:202 that an agent run fixes its configuration when it starts.

## 5. Proofs

TLAPS checks every obligation of eight modules with the SMT, Zenon and LS4 backends. The pattern
is the same everywhere: an invariant made of named parts, a lemma for each kind of step, the
properties as its consequences. A module that extends a proved one shows that its steps are steps
(or stutters) of that one, and has its theorems from there.

**ConversationStoreProofs**, under `StoreAssumption` (NULL, foreign uuids, calls and times are
different things; time starts at 0), for any numbers of threads, users, calls and times:

* `StoreInvariant`: `Spec => []StoreInv`. None of the properties is inductive alone: that a commit
  leaves `message_count` right needs the draft to be right, which needs that nobody else has
  committed to the thread since the upsert, which needs the lock. `StoreInv` says so: who is in a
  transaction holds the lock of its thread; the draft of the holder agrees with the committed row
  up to what the call has done so far; committed rows and redundant columns agree; a row with a
  call's id exists only after that call's commit.
* From it: `TypeCorrect`, `WritersExclude`, `CountCorrect`, `LastCorrect`.
* `StoreImplementsLedger`: `Spec => LedgerSpec`. Each commit is the ledger's entry, `CreateThread`
  its `Open`, and every other step a stutter.

**ConversationsApiProofs**, under `ApiAssumption` besides (NULL is no thread, a reader is a user, the
limit of a page is positive):

* `ApiImplementsStore`: `ApiSpec => Spec`, so that all of the above holds under the readers.
* `PagesFitTotals`, `AnnouncedAreShown`: committed rows are only added, so the set a page was cut
  from can only have grown when the total is read - unless the reader lost a thread in between,
  which `request.lost` records. `CountMatchesRows` carries a shown counter over to the rows.

**AgentGraphProofs**, under `GraphAssumption` (limits are numbers, lists are lists, nobody's
answer is the absent value), for any candidates, any number of turns and any limits:

* `GraphInvariant`: `Spec => []GraphInv`, types and `Safety`. The four properties speak about one
  place each and are kept by facts about the way there. `TurnInv`: no value is of a later turn, so
  that `AppendUserMessage`, which counts the turn up, makes everything in the state old.
  `PhaseInv`: before `sql_execute` has run in a turn there is no execution of that turn, before
  `chart_spec` no chart, and at each node what it reads is already of this turn. `RouteInv`: the
  decision in the state is the one that led here. No node runs after a node that uses what it
  writes, so nothing is replaced under a result that was made from it.
* From it: `StateTyped`, `OnlyValidatedSqlRuns`, `AnswersAreGrounded`, `ChartsAreOfThisTurn`,
  `RepliesEndTurns`.
* `NineSupersteps`: with a limit of nine or more (LangGraph's is 25) no run reaches it. `Depth` is
  the longest way to each node, and every edge leads deeper.
* The context of a run, over `GraphInv`, for any limit of restored rows and any losses: `ContextInv`
  relates rows and messages: the row of the question is the last one until the run
  starts (`RowsInv`); the question of a turn is said when its run starts and its reply when it ends,
  and a run that found no checkpoint starts on nothing (`SaidInv`); a tool request without its
  result belongs to a turn without a reply (`CallsInv`); every checkpoint that is not the torso of a
  run whose own had vanished holds the answered exchanges of the newest rows (`MemoryInv`).
* From it: `IntentReadsTheQuestion`, `QuestionsAreOnce`, `RepliesFollowResults`,
  `ExchangesAreRemembered`.

**RanksProofs**: two members of a finite set that have one rank are one (`RankGrows`), and every rank
is taken (`RanksAreFilled`, by the least member that comes after all of a lower rank), so that `Nth`
lists a finite set of numbers in order (`NthEnumerates`). With it a loop over some places of a list
needs no induction over sequences.

**ChatStreamProofs**, over `GraphInv`, under `StreamAssumption` (a message may ask for one call or
more):

* `StreamImplementsGraph`: `StreamSpec => Spec`, so that the graph's theorems hold of streams.
* `StreamInv`: the stream is open exactly while the turn runs; the flag `chart_emitted` says whether
  a chart is among the events, and none is before its node. `PairInv`: while the turn is at the
  tools, what is announced are the named calls of `calls` and nothing is answered; everywhere else
  every announcement has its answer; no call has two events of one kind. `SendStep` says once what
  sending keeps; each action then only has to name its events. From it: `EventsAreShaped`,
  `DoneIsStored`, `ChartsAreSentOnce`, `DrawnChartsAreSent`, `ToolEventsArePaired`, the last for
  messages with any number of calls.

**StudioSchemaProofs** and **ModelConfigProofs**, for any callers, threads, aliases, edits and
restarts:

* `TablesExistWhenUsed`, `SchemaCreatedByOne`: the flag is set only by the holder of the lock, after
  the tables were created; so who reads it set, before or under the lock, finds them.
* `ConfigImplementsSchema` carries both over to `ModelConfig` (`ConfigTablesExistWhenUsed`).
* `RepliesNameLastCall`: the snapshot in a thread's state is the one of the call that wrote it last.
  `AliasKept`: a resolution returns the profile asked for or the environment's configuration.
  `ConfigTypeCorrect`: types.

**ChatServiceProofs**, under `ServiceAssumption` (streaming requests are requests, `None` is not one,
`RestoreLimit` is positive), for any number of requests, any limit, any overlap and any losses:

* What the operators on messages return. `AddMessages` and `LoadMessages` put members of a finite
  set into the order of a number, which is what `RanksProofs` is about. From it: `AddedMessages`,
  that the old messages stay in front and every new one is there, once if it was once (`AddedIds`,
  `AddedHolds`, `AddedQuestion`), and the same of the restored rows (`LoadedMessages`,
  `LoadedQuestion`), of which the latest row is always one (`NewestRows`, `LatestIsNewest`);
  `LatestHumanFound`. `OutrunStays`: rows are only added, so who is outrun stays so.
* `ServiceInvariant`: `Spec => []ServiceInv`. Rows are named for request and role, and no two rows
  or stamps still to be stored have one time (`RowsInv`, `StampInv`); so rows sort in one way, and a
  reply's stamp is later than its question's row (`AskedInv`). `SoleInv` turns the history variable
  into a fact: who is in flight together with another request is overlapped, hence a request that is
  not overlapped is the only one that steps. `NewInv`: until its run starts, the checkpoint does not
  hold its question, which is therefore added, and added last; `AloneInv` follows it from there to
  the row of the reply. `IdsInv` keeps ids apart, which a merge by id needs. `OnceInv`: the question
  of a request that restored its context is known everywhere by its row's id alone, the question of
  one that found a checkpoint and was alone by the graph's id alone, in its own run and, without
  losses, in all; and one id comes once. `AboutInv`: whatever anyone says answers a question that
  has been stored. `KeptInv`: a finished lone exchange is in the checkpoint and in every run that
  starts from it.
* From it: `ServiceTypes`, `HistoryInOrder`, `BlockingRequestStoresItsOwn`,
  `LoneRequestAnswersItsQuestion`, `RunSeesItsQuestion`, `NoMessageComesTwice`,
  `QuestionsComeOnce`. `LoneExchangeIsKept` says `losses = 0 => ExchangeKept`: the property is
  about checkpoints that live, and the run that checks it loses none (`MaxLosses` 0).
* `ServiceKeepsLedger`: `Spec => Ledger!Spec`, where a row of the service stands for the ledger's
  entry of the same id and time. Every stored question and reply is one new entry, every other step
  a stutter. With `StoreImplementsLedger` both sides of the ledger are proved: what the repository
  implements is what the service uses.

**Only model-checked**: the liveness properties, as TLAPS has no ENABLED (`EveryCallEnds`,
`EveryRequestEnds`, `TurnsEnd`). The other properties of the passing runs are stated by a theorem. No
module declares a RECURSIVE operator, so that none is closed to proofs.

## 6. Not modelled, and why

* The echo graph that `build_graph` makes without a model runtime: tests only.
* Texts: prompts, summaries, SQL, wording, HTTP status codes, logging, tracing, `updated_at`.
* The restored summary message, `get_latest_summary` and LangMem's running summary: planned below.
  `summarize` leaves the messages alone here and the graph's routing does not depend on it. In the
  code `intent`, `sql_plan`, `chart_plan` and `respond` read `summarized_messages` before `messages`;
  what they see of a conversation that was summarized is covered by no property.
* A summary that is refused after its reply was stored is a step of `ChatStream` and `ChatService`
  (the request ends with an error although its reply is in the history), and of the store
  (`RejectSummary`). That a summary never covers a message that is not stored is the database's
  foreign key itself, and is not stated as a property.
* The queries `wren_context` makes of a Wren project, and the project's build and deployment: their
  result is descriptive text in a prompt, and an error in it is a text, too.
* A TTL that ends in the middle of a run: every superstep writes, and `refresh_on_read` renews.
  `ChatService` nevertheless loses checkpoints at any time.
* Row order for equal `created_at` (see the bounds).
* Two runs that write their checkpoints over each other lose one of the exchanges from Redis. That
  happens in `ChatService`; nothing in the repository promises otherwise, and the rows remain.
* Long-term memory, registries, start-up, settings, deployment: no behaviour of their own here.

## 7. Plan

Done: the store, its ledger and its readers; the graph, its context, its stream and its tools; the
service; the Studio schema and the model configuration; proofs of all of these.
What is left:

1. `ContextRestore` - the running summary and what it covers, its storage (`Foreign` ids), the
   choice of the latest summary and the restored context: what a conversation may forget.
