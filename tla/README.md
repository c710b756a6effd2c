# A TLA+ verification of the agent-framework-rs core

This directory holds TLA+ models of the stateful core of `agent-framework-rs`
(a Rust port of the Microsoft Agent Framework), the TLC configurations that
model-check them, and TLAPS proofs about them.  Paths below are relative to
`src/crates/agent-framework-core/src/` unless they start with `crates/`.

## 1. Inventory

### The workflow engine (`workflow/`)

A workflow is a graph of executors; a run advances it in Pregel-style
supersteps.  This is the part of the repository with the most state and the
most interleaving, and it is modelled first.

| component | state it keeps | operations |
|---|---|---|
| `SharedState` (`shared_state.rs`) | `committed` map, `pending` map with tombstones | get, has, set, delete, update, commit, discard, export, import, clear |
| `WorkflowRun` (`runner.rs`) | `queue`, `fanin` buffers, `iteration`, `pending_requests`, `halt` flag, run state, events | start, restore, drive / run_loop (plan, execute, apply, commit, checkpoint), send_responses |
| `WorkflowContext` (`context.rs`) | per-invocation `sent`, `outputs`, `events`, `requests`; shared `halt` | send_message, send_to, request_info, request_halt, take |
| edges (`edge.rs`) and `validation.rs` | none (graph constants) | condition and selection evaluation, build-time validation |
| checkpoints (`checkpoint.rs`) | stored checkpoints (memory or one file each) | save, load, list_ids, list, latest, delete; codec refusals |
| `WorkflowExecutor` (`sub_workflow.rs`) | `runs` (paused child runs), `request_map` | execute, process, handle_response |
| orchestrations (`orchestration/`) | per-pattern conversation, round counters, ledgers | sequential, concurrent, group chat, handoff, Magentic, plan review, workflow-as-agent |

Executors of one superstep run concurrently (`join_all`), the deliveries to one
executor are serialised, results are applied in planned order after the join.
Shared-state writes are staged during the superstep and committed at its end;
drained effects (messages, requests) are applied only after the join; the halt
flag is one atomic shared by every invocation of the run.  A checkpoint is
written at every superstep boundary and its failure is only logged.  A run can
pause on pending requests, be resumed by responses, fail half way, be aborted at
an await point, or be rebuilt from a checkpoint by another process.

### The function-invocation loop (`client.rs`, `tools.rs`)

`FunctionInvokingChatClient` alternates model calls and tool execution until the
model asks for no more calls.  Its operations are the requests a caller makes:
`get_response` with a new conversation, with the answers to approval requests
or to the caller's own calls, or with the token of a background operation.
Between requests the session keeps an `InvocationBudget` (start time, calls,
iterations), the client's calls of a mixed batch (deferred until the caller has
answered its own), and the tools of a background operation.  It calls the
provider, the tools (concurrently if allowed) and their middleware.  Hard are
the chains of requests: a budget spent in the middle of any of them, a policy
that changes between asking and running, an error or a dropped future after
calls were executed.  It is correct when no conversation sent to the model has
a call without a result, no call runs without the approval it needs, or twice,
and budgets hold over the whole chain.

### The harness (`harness/`)

| component | state it keeps | operations |
|---|---|---|
| background agents (`background_agents.rs`) | the task list and next id, in the session; executions, sub-sessions and a `closed` flag in a runtime of the process, behind its lock | start, wait, get, list, continue, clear; of the host: tasks, release_session |
| tool approval (`tool_approval.rs`) | in the session: standing rules, the choices behind them, queued requests, collected answers, messages held back | a run, plain or streamed; always_approve |
| agent loop (`agent_loop.rs`) | a count | re-invokes an agent until an evaluator is satisfied |
| todo, mode, memory, files | lists in the session, files | read-modify-write tools |

Background tasks are the one place where agents outlive the call that started
them: their executions end while other calls read and write the list, whose
lock belongs to a runtime that a release replaces.  Tool approval spreads one
answer of the model over many runs, each of which may fail half way.

### Orchestrations (`workflow/orchestration/`)

Executors built on the engine.  Magentic has the most state: a plan, a
conversation, four counters with limits, and two kinds of questions to a human,
each parked in the workflow's shared state.  Handoff and group chat keep a
conversation and a turn counter; sequential and concurrent are graphs.

### Sessions, history, compaction

A history provider (`history.rs`, and the stores of other crates) keeps the
messages of a session.  Before a run it injects what it stored, but for what the
caller's input replays; after a run that succeeded it stores what was new.  Between
the two, compaction (`compaction.rs`) cuts what was injected, for this request only:
a strategy chooses, then a repair restores what every request needs.  Hard are the
joints: an input that answers a call the strategy cut, a replay that begins inside a
trimmed list, messages that repeat.  It is correct when a request has no half
exchange, something to answer, and its order; when a result still answers its call;
and when no turn is stored or sent twice, or lost.  `session.rs` and
`session_store.rs` keep sessions as a whole.

### Retry, middleware, hooks, security

`RetryingChatClient` (`client.rs`), the middleware pipelines (`middleware.rs`),
`agent_hooks/`, the information-flow labels of `security/`.

### Protocols and stores in other crates

The MCP client (`crates/agent-framework-mcp`): a table of pending requests that
callers, a reader task and timeouts share, a lazily connected session, and a
cache of the server's tools that its notifications invalidate from tasks of their
own.  Its stdio transport owns a process.  Then A2A, the hosting servers, shell sessions (`crates/agent-framework-tools`), Redis / Cosmos / other
stores, provider clients (format converters around HTTP).

## 2. Plan

The order follows the weight of the behaviour: what a crash, a pause or a
concurrent executor can break comes first.

| step | module | of | state |
|---|---|---|---|
| 1 | `TransactionalState`, `SharedState` | the staged store, and the abstract store it implements (proved in `WorkflowRunProofs`) | done |
| 2 | `WorkflowRun`, `WorkflowRunProofs` | a run of any graph, its executors, its checkpoint; takes its store from `SharedState` by `INSTANCE` | done |
| 3 | `SubWorkflow` | the wrapper node, over a parent run reduced to supersteps | done |
| 4 | `FunctionInvocation`, `FunctionInvocationProofs` | the tool loop, over requests of one session; its invariants proved | done, but for the streaming twin |
| 5 | `BackgroundAgents` | the harness's task table: start, wait, continue, clear, release, with tasks that end by themselves, panic or are aborted | done |
| 6 | `ToolApproval` | standing approvals and one-at-a-time prompts over runs that fail | done |
| 7 | `Magentic` | rounds, stalls and resets; plan review and stall intervention as paused requests | done |
| 8 | `McpStdio` | requests, reader, notifications, cache and process of an MCP tool | done for stdio; the HTTP and WebSocket transports remain |
| 9 | `Compaction`, `Conversation` | strategies and their repair as operators; runs of one session that store, replay and compact | done, but for summaries, triggers and approvals |
| 10 | `BackgroundAgentsProofs`, `ToolApprovalProofs`, `MagenticProofs`, `McpStdioProofs`, `SubWorkflowProofs`, more of `FunctionInvocationProofs` | every invariant and action property that their runs check | done |
| 11 | more of `WorkflowRunProofs`; `ConversationProofs` | `AnswersHandled`, `ExactlyOnce`, `BarriersFireWhenFull`; what histories keep and what compaction leaves | done |
| 12 | `Handoff`, `GroupChat` | turns and limits over human replies | planned |
| 13 | `CheckpointStorage` | ids, order and the file back end's write-and-rename, with crashes between | planned |
| 14 | `AtomicRun` | a run whose supersteps are atomic; `WorkflowRun` shown to implement it where no caller abandons a future | planned |
| 15 | `RetryingClient`, `AgentLoop`, `SessionStore` | smaller protocols | planned, as far as it goes |

Every module is written to be proved about: parameters are CONSTANTS with a
named assumption, every operation is one action, no operator is RECURSIVE, and
the graph of a workflow and the behaviour of its executors are parameters, so
that a theorem about `WorkflowRun` is one about every workflow.

## 3. The modules and the code

### `SharedState` (`workflow/shared_state.rs`)

`committed` and `pending` are the two maps of `Inner`; an absent key is
`NoEntry`, a staged deletion `Tombstone`.  Each method takes the `RwLock` once
and is one action; `result` is what it returned.  `update` takes its closure as
any function from the current value.  `TransactionalState` is what the store
promises: a working copy, a durable copy, and operations that read and write
the first, `Commit` and `Rollback` moving between the two.  The mapping takes
the working copy to be what a reader sees (`Lookup`) and the durable one to be
`committed`.

### `WorkflowRun` (`workflow/runner.rs`, `context.rs`, `edge.rs`, `request_info.rs`)

| model | code |
|---|---|
| `queue`, `fanin`, `iteration`, `requests`, `halt`, `status` | the fields of `WorkflowRun` |
| `phase` | where `drive()` is suspended: loop head, `join_all`, the save of the checkpoint |
| `groups`, `running`, `results` | the planned invocations of each executor, the one in `execute()`, those returned |
| `memory` | the state an executor instance keeps, reduced to the messages it handled |
| `saved` | the newest checkpoint in the storage |
| `committed`, `pending` | the run's `SharedState` |
| `Start`, `Restore`, `StartFails`, `RestoreFails` | `run_stream`, `run_from_checkpoint_inner` |
| `PlanSuperstep`, `RoutingFails`, `IterationLimit`, `Quiesce` | `run_loop` from its head to `join_all`, or out of it |
| `BeginExecute`, `FinishExecute` | `run_executor_isolated`, one executor's messages in turn, executors concurrently |
| `CompleteSuperstep`, `FailSuperstep`, `MaybeCheckpoint` | `run_loop` after `join_all` |
| `SendResponses`, `Abandon`, `Cancel`, `Crash` | the caller: `send_responses`, its dropped future, `WorkflowRunStream::cancel` or a dropped run, the process |

The steps are cut at the `await` points at which something else can happen:
another executor runs, the future is dropped, the process dies.  Everything
between two of them is one action.  A payload is a label, which is all an edge
condition can look at here, and a tag, which tells messages apart.  What
`execute()` does with a message is any member of `Effects[e]`.  A failed run
that `run()` was driving is gone, one that `send_responses` was driving is still
in the caller's hands: `origin` tells them apart.

### `SubWorkflow` (`workflow/sub_workflow.rs`)

`runs` and `requestMap` are the maps of `WrapperState`.  A child run is the set
of requests it waits for and the outputs it produced and has forwarded; what it
does between two pauses is a choice of new requests and outputs, or an error.
`owner` says whose state the child's executor instances hold, since all child
runs share them.  The parent appears as far as the wrapper can tell: messages
handed over one at a time, their effects applied when the superstep ends and up
to its first error, a checkpoint, and a restore that finds a wrapper as new.

### `FunctionInvocation` (`client.rs`, `tools.rs`)

`parked`, `deferred` and `tools` are what the session keeps between requests:
the budget of a paused run, the client's calls of a batch that waits for the
caller, and the tool list of a background operation.  The rest of `pc` to
`computer` is local to `get_response`.  A conversation is a function from calls
to what it says of each: made, waiting for an approval, approved, rejected,
answered.  The caller is part of the model, because the promises span requests:
it starts an unrelated request (`Fresh`), answers what it was asked (`Reply`),
goes on when nothing is open (`Turn`), polls an operation (`Poll`), or drops the
future (`Drop`).  It may change the approval policy of its tools, or remove one,
between any two requests, and in a `Reply` or a `Turn` it may repeat answers that
were acted on already, changed or not.

Which answers still authorise a call is decided at every request from the
conversation alone (`settled_approval_responses`).  Call ids are the provider's and
may be used again by a later response (`CallId`), so answers and results meet in
queues per id.  `history` is that walk, for the caller's conversation, stopped at its
end, and `said` for that of the request: `OnRequest`, `OnResponse` and `OnResult` are
its three branches, `Stands` is `collect_approval_responses`, and `Reading` what
`drop_settled_approval_responses` leaves of a conversation: of the
calls that needed an approval, the loop executes those it reads as approved.  As contents are only ever appended, the
walk can be kept where it stopped.

Abstractions: requests on a session are sequential; a caller answers all it was
asked at once, each approval once, or abandons it; the calls of one response have
ids that differ; an approval id is of one call, as `ensure_occurrence_id` mints it
(so a request never supersedes an earlier answer here); message texts, usage and the
observer are left out, as are two counters that only change a hint to the provider
(`tool_choice`, consecutive errors).  Not modelled: the streaming twin, the fast
path without executable tools, message injection, tools added or removed while
a batch runs.

### `BackgroundAgents` (`harness/background_agents.rs`)

| model | code |
|---|---|
| `tasks`, `nextId` | `BackgroundTaskInfo` by id and `next_task_id`, in the session's state |
| `execs` | spawned executions: running, sub-session handed back, end signalled |
| `entry`, `made`, `closed`, `inFlight`, `subs` | the provider's runtime for the session, and each `RuntimeInner` |
| `saving` | what the holder of a runtime's lock has loaded and is about to save |
| `bound`, `op`, `waits` | a run of the parent agent: its tools' runtime, where its call is, what its wait is suspended on |
| `Start`, `Get`, `BeginWait` / `EndWait` / `WaitTimeout`, `Continue`, `Clear` | the tools, cut where they take the lock again |
| `Release`, `EndRelease`, `HostLists`, `Restart` | the host and the process |

A list is loaded and saved under a runtime's lock, but the list is in the session
and the lock is not, so a section that writes is two steps: between them another
runtime may write.  The result of an execution is reduced to which execution it
is of.

### `ToolApproval` (`harness/tool_approval.rs`)

`stored` is `ToolApprovalState` in the session, `local` the copy a run works on.
A run is `Begin` (the caller's input, `Prepared`), then `Surface` (the next
queued request is shown, without the inner agent) or `CallInner`, which saves what
is about to be sent; the inner agent's turn is built by `Ask`, and ends in
`EndCapped`, `Rerun` or `Return`; `Abandon` is an error, a dropped future or a
closed connection between any two of these.  A message is a number, a request the
call it is about.  `asked` and `retry` are the caller: what it has not
answered, and the input it may repeat.  `said`, `granted`, `delivered` and the
like are history, for the properties to compare with.  Requests carry ids of the
inner agent that are not used twice, as the agents of this repository make them.

### `Magentic` (`workflow/orchestration/magentic.rs`)

One action is one round, or one decision on the way to a pause or the end.  `mctx`
is the `MagenticContext` of the running superstep, `work` the shared state as it
has written it, `store` what is committed, `saved` the checkpoint: a superstep
that fails goes back to it.  Plans are numbers, kept as in the code: in the
task ledger, in the chat history, and in a review as the text that is shown and the
message that enters the history on approval.  What the manager finds (progress, a stall, no
ledger, the task done) is a choice.

### `McpStdio` (`crates/agent-framework-mcp/src`)

| model | code |
|---|---|
| `session` | the `OnceCell` of `McpStdioTool` |
| `inner` | `StdioInner`: pending table, id counter, whether its reader runs |
| `server` | the child process and its two pipes |
| `client` | `McpClient`: cached tools, generation, fetch lock, and handlers of notifications under way |
| `caller` | the future of `resolve_tools` or of a tool's call |
| `Connect` ... `Initialized` | `connect`, `initialize`, `discover`, `legacy_initialize` |
| `Request`, `Write`, `WriteFails`, `Timeout` | `McpStdioTransport::call` |
| `ReadResponse`, `ReadNotification`, `ReaderEnds` | the reader task and `route_incoming` |
| `Bump`, `Clear` | the notification handler, in a task of its own |
| `CheckCache`, `Lock`, `Listed`, `Publish` | `list_tools_cached`, `list_tools` |
| `Cancel`, `Close`, `DropTool`, `DropTransport` | a dropped future, `close`, `Drop for StdioInner` |
| `Answer`, `Change`, `Exit` | the server (external) |

An id is drawn, entered and written in that order, with the reader and the server
free to act between the last two.  A page of the list is the version of the list
it was made from.  Killing the process and its end are one step: nobody here
can tell them apart.  Left out are a write that blocks, requests by the server, and
prompts, whose cache is the same code.

### `Compaction`, `Conversation` (`compaction.rs`, `history.rs`, `agent.rs`)

`Compaction` has operators only, one per function of `compaction.rs`, over messages
that are sequences of parts.  A part is of a kind, belongs to an exchange by its id,
and has a body that tells apart what the code compares.  Strategies return the
list they keep (`Truncation`, `SlidingWindow`, `TokenBudget`, `SelectiveToolResult`,
`ContextWindow`, and `Pipeline` of them); `FinalizeCompaction` is the repair: origins
recovered by comparison, calls the input answers reinstated, orphans dropped, and
something left to answer.

| model | code |
|---|---|
| `stored`, `retention` | the list of a history provider, and the cap of a store that trims |
| `pipeline` | the strategy the agent was built with |
| `Prepare` | `prepare_request`: `before_run` of the history provider (`Align`), then of `CompactionProvider` |
| `Complete`, `Fail` | `run_with_options` after the model answered: `after_run`, with or without an error |
| `request` | what the run in flight was given: the input, the history injected (`base`) and what compaction made of it |
| `transcript` | what was said, for the properties to compare with |

The caller is part of the model: it sends new messages, among them results of calls
that are open, and in front of them as much of the conversation as it likes.  What a
run adds is a choice; so is its failure.  Token counts are a function of a part's
kind.  Evicted results of the context-window strategy have a label of their own in the
code; here they are evicted like those of `SelectiveToolResult`.

## 4. What the runs check

| run | instance | states | shows |
|---|---|---|---|
| `shared_state` | 2 keys, 2 values | 1,817 | the store implements `TransactionalState` |
| `diamond` | 4 executors: a fan-out, a barrier, an edge back; 5 supersteps, 3 requests | 183,599 | barriers, exactly-once handling, answers, halts, staged writes, and that every drive ends |
| `routed` | 3 executors, 4 labels, selections, a conditional edge, explicit targets, a request port; 4 supersteps, 2 requests | 43,366 | the same over routing errors and dropped `send_responses` futures |
| `sub_workflow` | 3 child runs, 4 requests, 3 inputs | 1,799,757 | outputs once and in order; parked children can be resumed; the caller is asked what they wait for |
| `approvals` | 2 tools, 3 calls in batches of 2, under 2 ids, one answer repeated at a time; budgets of 2 calls, 2 iterations and 1 tick | 577,084 | approvals, their settlement, spent budgets, retries |
| `continuations` | 1 tool, the caller's own tool, 4 calls under 2 ids; background operations; the same budgets | 1,977,457 | no call without a result, and one budget, over approvals, deferred batches and polls |
| `background_agents` | 2 overlapping runs, 2 tasks, 2 executions, 2 runtimes, restarts | 150,394 | outcomes, sub-sessions, releases, ids, and that ended tasks are settled |
| `tool_approval` | turns of up to 3 requests, 3 in all, 2 messages, 1 failure, streamed, consumers that leave | 376,409 | answers, rules, the batch, and that every request is answered |
| `magentic` | 5 rounds, 3 resets, 2 reviews, 2 failures | 56,833 | limits, requests and their state, and that coordination ends |
| `mcp_stdio` | 2 callers, 2 pages, 1 change; timeouts and dropped callers | 319,854 | answers, cache, and that calls return |
| `conversation` | 3 runs, 10 pipelines, 2 openings, 4 inputs, 4 replies; replays of up to 3 messages or of all; a store without a cap or with one of 3 | 99,460 | what is sent is valid, results keep their calls, and turns are kept |

A further run, `compaction_stale_call`, ends in the first counterexample of section 6.

The properties, by what could go wrong:

- **A superstep cut short.** `CommitsOwnWritesOnly`: shared state moves by
  exactly the writes of the superstep that completes.  `ExactlyOnce`: after any
  crash, cancellation, failed start or failed restore, no executor's state
  contains a message twice.  This one is delicate because five pieces of state
  must come from one boundary.
- **Barriers.** `BarriersFireWhenFull`, that is `BarrierComplete` (never early)
  and `FullBarrierFires` (never late): a barrier may fill over several supersteps, with a source repeating
  itself, or across a checkpoint.
- **Pauses.** `AnswersHandled`: an answer reaches the executor that asked, also
  past the barrier in front of it.  `HaltHonoured`: a halt requested by any of
  the concurrent executors stops delivery.
- **Children.** `OutputsForwardedOnce`, and `AnswersReachChildren`, that is
  `ParkedRunsReachable` and `RequestsMatch`, the last as long as no child has failed and no process died:
  a failed parent superstep does leave a child parked that nobody can answer.
- **Conversations.** `CallsMatchResults` is what providers demand: no call without
  a result is sent to the model, and none is left with the caller that neither it
  nor the session will answer.  Excepted are the calls of `MCLatePoll.cfg`
  (section 6), which the model marks as late.
- **Permission and limits.** `ApprovedOnly`, `ExecutedOnce` and `SpentStopsTools` in
  `approvals`, `BudgetsHold` in `continuations`, each over a chain of requests during
  which policies change and time passes.  `ExecutedOnce` is about settlement: an answer
  that is repeated after its call ran, perhaps under an id that was used again since,
  authorises nothing.  `SpentStopsTools` is about what is begun: no batch is taken up
  by a run that is out of calls or time, and no call is executed by a run out of
  calls; a batch begun in time runs to its end, as nothing in the code checks the clock
  within it.  It does not hold of deferred calls (`MCDeferredLate.cfg`).  `BudgetsHold`
  lets the last batch exceed the limit, as the code does, and says nothing of time.
  All of them, but for that exception, are proved of both instances.  `ExecutedOnce`
  and the budgets are stated of requests that return: a failed request's executions
  are recorded nowhere, by the design of the code.
- **Background tasks.** `TasksCoherent`: a wait that began before a task was
  continued does not write its outcome over the later one (`OutcomeIsLatest`), what
  is reported completed has its sub-session, in the hands of one execution at most,
  and a release leaves nothing running.  `IdsUnique`: what a start begins is the first
  execution under its id, also when two runtimes load and save the list.
  `EndedTasksSettle`: a task whose execution ended, or was lost with its
  process, is not reported running for ever.
- **Approvals.** `DecisionsAreTheCallers` (`AnswersAreTheCallers` and
  `RulesAsChosen`), `AccountedFor` and
  `OneByOneThenTogether` hold of every order of answers, choices, failures and
  repetitions: nothing is sent that was not decided, nothing decided is lost, a rule
  exists when its approval came back, a request is in exactly one place.
  `EveryRequestAnswered`: none stays in the queue.
- **Coordination.** `TypeOK` of `Magentic` has the limits of rounds, resets and
  reviews over pauses and restores; `RequestMatchesState` makes a repeated answer
  taken for what it is; `CoordinationEnds`.
- **An MCP tool.** `AnswersMatch`: no caller gets the answer to another request,
  though answers come late and in any order.  `CacheIsCurrent`: once a change is
  handled, no page from before it is in the cache.  `CallsReturn`: no caller waits
  for ever, without any timeout, when the server ends or another caller fails with
  a lock in its hands.
- **Conversations over runs.** `NoHalfExchange`: whatever a strategy keeps and the
  repair puts back, no call or result of the history is without its other half in the
  request.  `NeverSystemOnly`: when the conversation holds something to react to, the
  request does, a part that reaches the model and is no half of an exchange.
  `InOrder`: what is left of the history is sent once and in its order.
  `ResultsKeepTheirCalls`: a result in the input answers the same call
  in the request as in the conversation.  `TurnsKept`: what is stored, and what is
  given to compaction with the input, is the conversation, whole and once, however
  much of it the caller replays; a trimmed store has what was said last.

Bounds.  `MaxIterations` is a parameter of the code; five supersteps are two
rounds of the diamond, enough to fill a barrier late, checkpoint it half full
and restore it.  `MaxRequests` bounds the request ids drawn; three let two be
outstanding while one is answered.  Three child runs are the least at which one
fails, one is parked and one starts in the same superstep.  Three calls of
two ids are a batch of two and one more that uses an id again, of a call that was
settled, or that is still waited for; four are two batches of two, so that a batch can be deferred,
resumed and followed by another.  One tick of the clock suffices, as it may fall between any two steps.
Two tasks with two
executions are two starts, or a start and a continuation with a wait for each; two
runtimes are those that meet over one list when a session is released.  Three requests make a batch with one shown, one covered by
a rule and one left.  Five rounds with a stall limit of one pass through three
resets.  Two callers, one of which may call after the other, are the least that
share a handshake, a fetch and a table of ids.

Three runs are the least in which a call is
made, left open under a further turn and answered; a cap of three messages is less
than two turns, and the pipelines include those that keep nothing, one message, or
only what is not a tool result.

Larger or other instances were checked too, and hold: `Conversation` with four runs
and three pipelines (245,772 states); the invariants and
`IdsUnique` of `BackgroundAgents` with three executions, which is what it takes to give
out an id twice once the host is careless (`MCBackgroundTasks.cfg`, 553,693 states), and
all its properties with one task, three executions and three runtimes (108,282);
`ToolApproval` without streaming and without
automatic approval (900 thousand states), with batches of two and one message (1.1
million), and with callers that leave requests unanswered (`CanSkip`, 401 thousand);
the invariants of `McpStdio` with all three protocol modes, two changes, and a
server that declines anything (3,757,999 states), or with three calls and no change
(2,824,330).

Deadlock is checked except in `Conversation`, which ends with its last run, in
`SubWorkflow`, where a parent that has used up the
bounds has nothing left to do, in `Magentic`, where a finished workflow stops, and
in `McpStdio`, where callers may have made all their calls.

Fairness, by liveness property, and why the code justifies it:

- `DriveEnds`: weak fairness of `Engine`, the steps of a live `drive()`.  A future
  that is awaited is polled; on the condition that each executor's `execute()`
  returns.  None of callers, of restores or of the storage.
- `EndedTasksSettle`: a lock is given back, and the host looks at its tasks time and
  again, by `tasks()` or in the `before_run` of a next run, both of which refresh them
  (`background_tasks_running` does not: it reads the list as it was saved).  No
  execution is assumed to end.
- `EveryRequestAnswered`: the caller goes on, and a run that does not fail comes to
  its end.  Failures are bounded.
- `CoordinationEnds`: the engine runs a superstep to its end, restores a failed one,
  and the human answers; the limits of rounds, resets and reviews are set (without
  them the code does not promise an end).
- `CallsReturn`: spawned tasks and awaited futures are scheduled, and the server
  answers what it has read.  Neither a timeout nor the server's end is assumed.

What else is assumed: a host of `BackgroundAgents` releases a session and goes on
with it in one run at a time (`CarefulHost`), and sub-agents do not panic
(`CanPanic`); runs on one session of `ToolApproval` follow each other.  Section 6
says what happens otherwise.

## 5. What is proved

`tlapm` checks every proof; nothing is assumed but the constants' named
assumptions and the hypotheses in the table.

| theorem | of | hypothesis | argument |
|---|---|---|---|
| `WorkflowRunProofs!StoreTypeCorrect` | `TypeOK` of the store | | inductive by itself |
| `WorkflowRunProofs!StoreRefinement` | `ImplementsTransactionalState` | | each action is the abstract action on the mapped state, over `StagingChangesOneKey` |
| `WorkflowRunProofs!TypeCorrect` | `TypeOK` | | with `ControlInv`: a superstep starts only below the limit, and the stored checkpoint is within it |
| `WorkflowRunProofs!HaltIsHonoured` | `HaltHonoured` | | `HaltInv`: while executors run, the flag covers what the superstep asked for |
| `WorkflowRunProofs!OnlyOwnWritesCommitted` | `CommitsOwnWritesOnly` | `~ Abandonable` | `StagedInv`: between supersteps nothing is staged, during one exactly its writes |
| `WorkflowRunProofs!ResponsesAreHandled` | `AnswersHandled` | | `ShapeInv`, `AnswerInv` |
| `WorkflowRunProofs!MessagesHandledOnce` | `ExactlyOnce` | | `StepInv`, `OnceInv` |
| `WorkflowRunProofs!BarriersAreComplete` | `BarrierComplete` | `NoSideEdges` | `SourceInv`, `CompleteInv` |
| `WorkflowRunProofs!FullBarriersFire` | `FullBarrierFires` | `DistinctSources` | `CountInv` |
| `WorkflowRunProofs!BarriersFire` | `BarriersFireWhenFull` | both | the two before |
| `SubWorkflowProofs!TypeCorrect` | `TypeOK` | | `DrawnInv`: only ids that were drawn are in use |
| `SubWorkflowProofs!OutputsOnceInOrder` | `OutputsForwardedOnce` | | `OutputsInv`: what was forwarded of a child is a prefix of what it produced |
| `SubWorkflowProofs!AnswersReach` | `AnswersReachChildren` | | `MatchInv` |
| `SubWorkflowProofs!ResponsesReturnIntact` | a response returns to the child that asked | | `MatchInv`, `RoutedInv` |
| `FunctionInvocationProofs!TypeCorrect` | `TypeOK` | | `TypeInv`: with the ranges of the clock, the budgets and the deferred batch |
| `FunctionInvocationProofs!ApprovalRequired` | `ApprovedOnly` | | `ApprovalInv` |
| `FunctionInvocationProofs!CallsRunOnce` | `ExecutedOnce` | | `HistoryInv`, `OnceInv` |
| `FunctionInvocationProofs!ResultsAccompanyCalls` | `CallsMatchResults` | `AnswersOnce` | `MatchInv` |
| `FunctionInvocationProofs!BudgetsLimitRuns` | `BudgetsHold` | | `BudgetInv` |
| `FunctionInvocationProofs!SpentRunsStop` | `SpentStopsTools` | `Host \notin Requested` | `BudgetInv`, `WorthInv` |
| `BackgroundAgentsProofs!TypeCorrect` | `TypeOK` | | `Typed` |
| `BackgroundAgentsProofs!TasksKeepTogether` | `TasksCoherent` | `CarefulHost` | `HostInv`, `Coherent` |
| `BackgroundAgentsProofs!IdsNeverReused` | `IdsUnique` | `CarefulHost` | `IdInv` |
| `ToolApprovalProofs!TypeCorrect` | `TypeOK` | | `Base`, `TextInv` |
| `ToolApprovalProofs!DecisionsHold` | `DecisionsAreTheCallers` | `EarlyChoices = FALSE` | `DecisionsInv` |
| `ToolApprovalProofs!NothingIsLostOrDoubled` | `AccountedFor` | | `PlacesInv`, `TextInv` |
| `ToolApprovalProofs!AskedOneByOne` | `OneByOneThenTogether` | | `TogetherInv` |
| `MagenticProofs!TypeCorrect` | `TypeOK`, with the limits | | `HoldsInv` |
| `MagenticProofs!AnswersAreForTheState` | `RequestMatchesState` | | `SavedInv`, `HoldsInv` |
| `MagenticProofs!ReviewsShowThePlan` | `ReviewedPlanStands`: the plan shown is the one the rounds begin with | | `UnderReview`, `SavedInv`, `HoldsInv` |
| `McpStdioProofs!TypeCorrect` | `TypeOK` | | `OwnerInv` |
| `McpStdioProofs!RepliesAnswerRequests` | `AnswersMatch` | | `IdsInv` |
| `McpStdioProofs!IdsAreDistinct` | two requests under way differ in their ids | | `IdsInv` |
| `McpStdioProofs!NobodyIsForgotten` | who waits is in the table of a reader that runs | `~ CanMisread` | `LiveInv` |
| `McpStdioProofs!CacheCurrent` | `CacheIsCurrent` | | `CountInv`, `PagesInv` |
| `ConversationProofs!ConversationStored` | `TurnsKept` | `Recognizable` | `TurnInv` |
| `ConversationProofs!CompactionWhole` | `NoHalfExchange` | | `SentInv` |
| `ConversationProofs!AlwaysAnswerable` | `NeverSystemOnly` | | `ReachInv` |

All of it holds for every value of the constants: of graphs and executors, tools,
policies, limits, callers, batches, failures.  The bounds of section 4 are bounds
of the runs only.

The constants' assumptions are what the code has by construction.  Values that
stand for nothing are no real ones (`None`, `Nobody`, `NoEntry`, `Tombstone`: a
Rust `None`), limits are numbers, `max_auto_approval_iterations` is not 0, and
every policy leaves the model some tool.

The hypotheses are needed, and section 6 shows what happens without: an
abandoned future (`MCAbandoned.cfg`), a caller that repeats a failed reply to its
own calls (`MCDeferredRetry.cfg`; `AnswersOnce == Retries => Host \notin
Requested`), calls deferred behind the caller's own (`MCDeferredLate.cfg`), a host
that is not careful, a choice made while a run goes on (`MCEarlyChoice.cfg`), a
reader that fails (`MCMcpReaderFails.cfg`), and another edge to the target of a
barrier (`MCSideEdge.cfg`; `NoSideEdges`: the groups that name the target have only
sources the barrier declares).  `DistinctSources` says that no barrier declares a
source twice.  `validate_workflow_graph` accepts a group that does (it passes over
repetitions inside a group), and then `buf.len() < sources.len()` holds for good:
the buffer is keyed by source, so that barrier never fires.

**Workflow run.**  `HaltHonoured` alone is not inductive, as it says nothing while
executors run; `TypeOK` alone allows a checkpoint beyond the limit, which a restore
would bring back.  The later theorems rest on lemmas about the plan of a superstep,
for every queue and graph: what `Direct` and `Routed` take from the queue, what a
barrier collects, that planning moves each message to one place (`PlanningMoves`),
that what is sent is numbered by superstep and place (`SentShape`).

`AnswerInv` follows a response: in the queue, addressed to the executor, then in its
plan, then in its state; no barrier holds it, and a halt only drops what comes after.
`ExactlyOnce` needs a cut (`Cut`): what an executor holds (queued, at its barrier,
planned) and what it remembers are apart, each message is in one place and once, under
a tag of its own, and every tag is one given out already: that of a superstep counted,
or of a request that is not pending any more.  New messages have tags of the superstep
that ends; a response has that of a request that is pending until then.  The cut holds
of the live run and of the checkpoint, each with its own iteration and requests, so a
restore falls back from one cut to another.  When the run is gone nothing is said of
the executors' state, which a failed start or restore leaves mixed.

For barriers, `CountInv` says that a buffer that waits has fewer messages than declared
sources, `SourceInv` that it has one message per source, of declared sources, both in
the run and in the checkpoint.  A buffer that reaches the number of sources then has
exactly one message of each (`FullBuffer`, the pigeonhole), and is handed over in
declared order (`CollectedInOrder`).

**Children.**  `RequestsMatch` speaks of the moments between supersteps.  During one,
a request that a parked child waits for is in exactly one place: with the parent's
caller, in the inbox as an answer that is not handled yet, or among what the
superstep asks for (`MatchInv`).  A child that fails breaks this for good, hence
`intact`.

**The function-invocation loop.**  `ApprovedOnly` fails to be inductive at the joints
between requests.  A batch the session holds back is restored, and run without
asking, only beside the caller's own calls it waited for; so the proof carries that
those calls and the batch reach every conversation together (`Together`), that they
are calls already made (`DrawnInv`, with which a new response never reuses one), and
that what is due to run is ungated or approved (`TodoInv`).  That an answer acted on never
authorises its call again is `HistoryInv`: the queues of the walk agree with what the
conversation says of the calls (`Correlated`): under each id at most one answer waits,
that of the call that is decided, and a request is closed exactly when its call has its
result.  It needs that pending calls do not share an id, though earlier ones may; and it
holds because a result always settles the answer in front, and closes its request.
`ExecutedOnce` needs, on
top, that a call whose execution an answered request counted has its result in both
the transcript and the conversation (`CountInv`), that one executed by the request
under way has its result or is about to get it (`NowInv`), and that a batch in
progress is still open (`BatchInv`).  `CallsMatchResults` needs to know who owes a
result (`OwedInv`: the caller, or the session, which holds the call behind the
caller's), that a conversation never mixes approvals and deferred calls (`HeldInv`,
`AskedInv`), and that only the batch at hand is without results (`LoopInv`).  For the
budgets, `RunningInv` relates what a run executed to the count in its budget, and
`PausedInv` says that a run that waits is one whose budget the session has parked.
`WorthInv` is for `SpentStopsTools`: a batch is charged when it ends, so the count that
let it begin stands while it runs.

**Background tasks.**  Every write of the list is a load and a save with other steps
between.  What makes that safe is `Exclusive`: with a careful host, whoever may still
save holds the lock of the runtime in use, or saves into a runtime whose run is gone
and whose entry is none (`HostInv`).  From there `Coherent` relates the list, also as
loaded by the holder of the lock, to executions: numbered as they start, of one
runtime, the newest in flight (`ExecInv`, `InFlightInv`), outcomes of the newest
(`OutcomeInv`), sub-sessions back when none runs (`SubsInv`).

**Tool approval.**  `Base` says how the copy a run works on follows from what the
session has at each point (`PhaseInv`), that a request is in one place (`PlacesInv`),
to which the requests of a turn under way do not belong yet (`BatchInv`), and that
answers are to requests that are with the caller or answered (`ReplyInv`).
`DrainedFacts`, `InnerDoneFacts` and one lemma for each action say once what a step
does to these places.  On top come, each by itself, that rules and choices in the
copy are those in the session with the answers applied (`DecisionsInv`), that
messages are numbered upwards wherever they are (`TextInv`), and that turns, which
are named by their first request, are delivered whole (`TogetherInv`).

**Magentic.**  `Holds` says for each kind of request what the checkpoint holds;
`SavedInv` that the checkpoint is what a pause committed, so that a superstep that
fails, and a restore, find it; and that the request shows the text of the review it
keeps.  A review under way has the plan twice, as text and as the message that is
worked by after approval: `UnderReview` has that they are of one plan, which every
edit must restore by rendering and every comment by planning again.

**MCP.**  Ids follow the serial numbers of requests through the table, both pipes and
the callers (`IdsInv`).  A caller that waits is in the table, of a reader that runs
(`LiveInv`).  For the cache, every change is counted in one of three places
(`CountInv`: handled, being handled, unread), and no page is older than the count
when its fetch began (`FetchInv`), which is what publishing compares.

**Conversations.**  What is stored is the end of the transcript (`TurnInv`), and a run
is in flight with a replay of it and something new.  `Align` then has to find the one
place where the store begins in the input.  Since a transcript ends in a message that no
caller composes (`EndsInReply`), a block or an overlap found anywhere else would put that
message among the new ones.  This is `Recognizable`, and it is needed: a caller that says
what the model just said is taken to replay it, which `history.rs:281` accepts as the
case it cannot tell apart.

`NoHalfExchange` is about the repair, so nothing is assumed of the strategies but that
they return messages.  `Thinning` is its core: when parts are taken out of a list so
that a call goes if and only if its result goes, the pairs of what is left are the
pairs there were.  Dropping orphans takes out such parts (`DropThinned`), so what
remains is whole before any input (`DropWhole`).  What is inserted afterwards is a block
without halves, or a call with its result behind it: the pairs around it do not change
(`BlockWhole`, `InsertWhole`), wherever the place found for it is, and `ExchangeIs` shows
the latest exchange to be such a block.

`NeverSystemOnly` follows the repair step by step.  Pairing is a fold over the parts in
order, so what it has done after the history does not depend on the input (`PrefixRun`),
and a result of the input that answers a call of the history finds that call open there
(`CrossOpen`).  Then a call of its id is open in what the strategies kept, or the repair
chooses one (`CallProvided`); behind the kept messages it stays open (`CallsBehind`,
`ReinstatedOpen`), so some result of the input has a call (`Answered`), and dropping
leaves that pair (`DropWhole`), which reaches the model (`PendingReaches`).  The pair
may be of another call with the same id, which is why `ResultsKeepTheirCalls` does not
follow.  If nothing of the input reaches the model, a message or an exchange of the
history is left or put back (`EnsureRenders`; `NoExchange` has that the search for an
exchange fails only when there is none), and since the list is whole by then, what
renders is no half (`RendersReaches`).

Theorems of properties that no run checks are stated in the proof modules
(`RequestsDistinct`, `WaitersKnown`, `ResponsesReturnWhileIntact`), but for
`ReviewedPlanStands`, which is in `Magentic`; TLC checked each of them, and each
inductive invariant, before it was proved.

Induction over data is possible where a definition is a recursive function:
`SetInduction` gets it from the well-founded order of numbers, and `OnlyKeeps`
proves with it what `Only`, the filter of a queue, returns for every sequence;
`FlattenJoins` does the same for the library's `FlattenSeq`.  So it is with `Compaction`,
whose loops (`Pick`, `Sites`, `PairParts`, `OriginIndices`, `ChosenCalls`, `Pipeline`) are
recursive functions.

Model-checked only: `InOrder`, which does not hold everywhere
(`MCRepeatedSystem.cfg`), and `ResultsKeepTheirCalls`, which is about the ids that models
and callers choose; and liveness (`DriveEnds`, `CallsReturn`,
`EndedTasksSettle`, `EveryRequestAnswered`, `CoordinationEnds`), which the provers
here do not handle.  Every other invariant and action property of the runs is proved.

## 6. Where the code departs from its own words

Each of these is a counterexample TLC produces; the first is a listed run, the
others have a configuration of their own, to run with the module named like the
component (`MCWorkflowRun`, `MCSubWorkflow`, `MCFunctionInvocation`, `MCToolApproval`,
`MCMagentic`, `MCMcpStdio`, `MCConversation`).

| run or cfg | what happens |
|---|---|
| `compaction_stale_call` (`ResultsKeepTheirCalls`) | The model uses the id of an open call again.  A strategy keeps the newer call and cuts the older; the repair passes over the newer without counting it, reinstates the older behind it, and the result of the input is paired with the older, the newer dropped as an orphan (`compaction.rs:1074`, against `:1058` and `:1066`). |
| `MCRepeatedSystem.cfg` (`InOrder`) | A caller sends its system message again in a later run: the leading one that was kept is taken for its later duplicate (`compaction.rs:897`), and the fallback message lands in front of it, though the strategies keep leading system messages in front. |
| `MCSubWorkflowIsolation.cfg` (`RunsIsolated`) | A second invocation resets the executors a parked child run is paused in (`sub_workflow.rs:192`, against `:15`). |
| `MCMcpOutlives.cfg` (`ProcessNeverOutlives`) | The reader task owns what the transport's `Drop` would have to drop: a tool that is dropped without `close`, or whose handshake fails, leaves its process running, against `transport/stdio.rs:192`. |
| `MCMcpTornLine.cfg` (`CallsReturn`) | A caller dropped half way through its line leaves the half in the pipe: the next request becomes part of that line, and without a timeout waits for ever. |
| `MCMcpReaderFails.cfg` (`CallsReturn`) | The reader ends on an error (a line that is not UTF-8) while the server runs on: later requests are written, and nobody reads their answers. |
| `MCMagenticPlanShown.cfg` (`StallShowsCurrentPlan`) | A plan edited in review reaches the chat history but not the ledger, and a later stall request shows the plan that was replaced (`magentic.rs:1203`, against `:881`). |
| `MCEarlyChoice.cfg` (`RulesAsChosen`) | A choice to always approve, made while a capped pass is streaming, is overwritten when that run saves its copy of the state (`tool_approval.rs:778`). |
| `MCSubWorkflowRestored.cfg` (`ResponsesReturn`) | After the parent is restored, the answer to a child's request starts a new child run (`sub_workflow.rs:173`, against `:7`). |
| `MCStaleHalt.cfg` | A superstep in which one executor asks to halt and another fails leaves the halt flag set; a later superstep's messages are dropped although nobody in it asked. |
| `MCSideEdge.cfg` (`BarrierComplete`) | A plain edge into a fan-in target counts as a source: the barrier fires without a declared one. |
| `MCDeferredLate.cfg` | Deferred calls run although the time of the run is spent. |
| `MCDeferredRetry.cfg` | A request that fails after taking the deferred calls loses them; its retry sends calls without results. |
| `MCReplay.cfg` (`ResumeReplays`) | Resuming a failed run by `send_responses` does not replay the failed superstep, as `runner.rs:1238` says a resume does. |
| `MCAbandoned.cfg` (`CommitsOwnWritesOnly`) | A `send_responses` future dropped during a superstep leaves its staged writes to a later commit. |
| `MCPort.cfg` (`RequestsRoutable`) | A request port used as the start node asks on behalf of `__start__`, to which no answer can be routed. |
| `MCLatePoll.cfg` (`NoLateCall`) | A poll after the time budget is spent returns the operation's calls unexecuted. |

With other constants `BackgroundAgents` shows three more, each outside what its
documentation promises.  With `CanPanic = TRUE`, `EndedTasksSettle` fails: an
execution that panics never signals its end, and only a wait notices.  With
`CarefulHost = FALSE`, `IdsUnique` fails, with three executions of two tasks: a call on a released runtime writes the
task list while the next runtime starts tasks under another lock.  And `NoOrphans`,
which no listed run checks, fails with two overlapping runs: `clear` looks at a
task in one section of the lock and removes it in another, and a continuation
between the two is removed while it runs.  In `ToolApproval`, a caller that repeats
its last answer after a run whose first pass had completed and whose second failed
sends the inner agent an answer of a turn already answered, as its documentation
allows.

A further one needs no run: the builder and the validation accept a fan-in that
names a source twice, and its barrier, which counts distinct sources, never
fires, against `edge.rs:167` ("`target` runs once all `sources` have
delivered").

## 7. What is not modelled

`PROJECT.json` lists every component with its status.  Left out for good are
those whose work is conversion or transport: provider clients, persistence back
ends, declarative loading, visualisation, events, observability.  Left out for
now are those of the plan's steps 12 to 15, and of the MCP client the transports
over HTTP and WebSocket, server requests (sampling, roots) and prompts.  Within the modelled parts, the event
stream of a run, the metadata of a checkpoint and checkpoints other than the
newest do not appear; two top-level runs of one `Workflow` at the same time
appear only as the children of `SubWorkflow`.  Of histories, message ids, recording
per call of the model, and two runs at once on one session are left out; of
compaction, settled approvals, the replay signature of reasoning, triggers,
summaries by a model, and strategies of the user's own, whose choice may be any
subset of the list: where such a choice keeps one of two equal messages, origins are
recovered by comparison and may be those of the other.
