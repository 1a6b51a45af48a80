# Verification of linch

linch (`src/src/linch`) is an asynchronous agent SDK: a *session* holds a
conversation, a *run* drives it through turns of a model provider and of tools,
and stores make both survive crashes. This directory holds TLA+ models of its
control, TLC configurations that check them on small instances, and TLAPS
proofs. `PROJECT.json` lists the runs, the lines each definition stands for,
the mutants that show each property can fail, the hazards and the findings.

    tlc -workers 2 -config DurableRun_tools.cfg MCDurableRun.tla
    tlapm DurableRunProofs.tla

| Modules | Model | Checked in | Proofs |
|---|---|---|---|
| `DurableRun` | one run, its checkpoints, crashes and resumes | `MCDurableRun`: `tools`, `workers`, `notes`, `denials` | `DurableRunProofs` |
| `ToolScheduler` | the calls of one reply | `MCToolScheduler`: `replies` | `ToolSchedulerProofs` |
| `Schedules` | time triggers over a store | `MCSchedules`: `ticks`, `cancel` | `TeamProofs` |
| `TaskBoard`, `MemoryTasks` | the two stores of a task board | `MCMemoryTasks`: `board` | `StoreProofs` |
| `Workers` | subagents, background workers, stop and continue | `MCTeam`: `team` | `TeamProofs` |
| `Mailbox` | peer messages and the correlator | `team` | `TeamProofs` |
| `Budget` | one budget over a tree of runs | `team` | `TeamProofs` |
| `Workflow` | a journaled workflow invoked again | `team` | `TeamProofs` |
| `Executor` | the SQLite executor against `close` | `team` | `TeamProofs` |
| `Shell` | the processes behind the tools | `team` | `TeamProofs` |
| `Turn` | the turns of a run and the history they build | `MCParts`: `parts` | `TurnProofs` |
| `Wire` | a conversation with each provider | `parts` | `WireProofs` |
| `Permissions` | rules, layers, modes, the callback | `parts` | `TurnProofs` |
| `Hooks` | a chain of hooks at the points of a run | `parts` | `TurnProofs` |
| `Files` | file backends, edits, offloaded results | `parts`, `edits` | `StoreProofs` |
| `Memory` | tiered memory, extraction, consolidation | `parts` | `StoreProofs` |
| `Stores` | processes that share one database | `parts` | `StoreProofs` |
| `AgentLife` | an agent from its first session to its close | `parts`, `opens` | |
| `RunLog` | the event log and the record of a run | `parts` | `RecordProofs` |
| `Skills` | loading skills, and the overlay one leaves | `parts` | `RecordProofs` |
| `Catalog` | definitions of subagents on disk | `parts` | `RecordProofs` |
| `Spans` | what observers are told of a run | `parts` | `RecordProofs` |
| `Context` | what is added to one request | `parts` | `TurnProofs` |

The definitions of a module that a comment calls `Mutant:` are wrong variants of
the definition that follows them. No specification uses them; `PROJECT.json`
names for each the property it breaks when it takes that definition's place.

Some modules state a property that no run checks. Each is either one the code
does not have, named under the module's findings, or a weaker relative of one
that is checked, and it says so here.

## Inventory

| Part | State it keeps | Operations | What makes it correct |
|---|---|---|---|
| Durable run loop (`loop/runner.py`, `loop/checkpoint.py`, `run_store.py`, `session.py`, `loop/terminals.py`) | session messages, run record and checkpoint, run event log, the loop's memory | run, resume, save checkpoint, append, recover results, terminal tails | effects once, each call answered once, approvals of the turn, a terminal record that stays, a run that ends |
| Tool scheduler (`scheduler.py`) | one batch of calls: decisions, lanes, results | partition, permission passes, serial and parallel lanes, retry, timeout, background dispatch | conflicting calls never overlap, every start has one end, order of results |
| Provider turn (`loop/streaming.py`, `loop/request.py`, `loop_guard/`) | request, attempt counters, guard streaks | stream, recover, fall back, compact and retry, force a final answer | bounded attempts, a history the provider accepts |
| Turn gates (`loop/finalize.py`, `loop/dispatch.py`, `verification.py`) | retry counters | verify a final text or final tool, ask again | bounded retries, history stays well formed |
| Compaction (`compaction.py`) | boundary, summary | choose a boundary, replace a prefix | tool_use and tool_result stay together |
| Providers (`providers/`, `openai_responses.py`) | the reply being streamed, the server's conversation | translate a history, assemble a reply | fragments reach their call, the provider answers the conversation |
| Permission engine (`permissions/`) | rules, layers, mode | evaluate, resolve | deny before allow, no part of a command passes with another |
| Subagents and workers (`subagents/`, `tools/subagent*.py`) | handles, child sessions, controllers | spawn, notify, stop, continue | a stopped worker is silent, one driver for each child |
| Subagent definitions (`subagents/loader.py`, `registry.py`, `generator.py`) | files, registry | load, reload, generate | nothing is overwritten unasked |
| Schedules (`coordination/scheduling/`) | schedule records | add, cancel, tick | a cancelled schedule does not fire, one firing per due time |
| Task board (`sessions/tasks.py`, `memory.py`, `sqlite.py`, `postgres.py`) | tasks with owners and dependencies | create, claim, update | one owner, no claim of a blocked task, the stores agree |
| Mailbox (`coordination/mailbox/`) | queues, pending requests | send, drain, reply, wait | no loss, no duplicate, replies to their request |
| Budget (`budget.py`) | spent amounts in a tree | charge, exceeded | a bounded overshoot |
| Workflow (`workflow/`) | journal of steps, slots | step, parallel, pipeline, replay | a journaled step is not run again, a workflow returns |
| Hooks, middleware (`hooks/`, `middleware.py`) | registered hooks, verdicts | dispatch | order, first stop wins, a middleware is not passed by |
| Context injection (`context/`, `memory/builder.py`) | builders of a request | build, trim, join | a cap holds for the union |
| Abort, executors (`abort.py`, `storage/_executor.py`, `_blocking.py`) | signals, one connection, threads | abort, merge, submit, close | an abort reaches every merged signal, nothing after close |
| Built-in tools, filesystem (`tools/`, `filesystem/`) | processes, files, references to them | run a command, read, write, edit, offload | nothing outlives its call, a reference stands for a written result, edits keep others |
| Memory (`memory/`, `hooks/memory.py`) | items in tiers, the gate's counters | search, upsert, extract, consolidate | the best items are found, no change is forgotten |
| Shared databases (`sessions/*.py`, `run_store.py`) | rows of messages, events, tasks | append, create, update, claim, release | acknowledged rows stay, one claimer |
| Agent facade (`agent.py`, `mcp/`) | registry, rules, connections | open a session, connect, add servers, close | a session has its tools, an opening does not fail another |
| Run record and reports (`events.py`, `reports.py`, `run_store.py`) | event log, record | append, mark, build a report | the report says what the record says |
| Skills (`skills/`, `tools/skill.py`) | skills, overlay, invoked skills | load, invoke, take the overlay | a grant is for the next turn |
| Observability (`observability/`, `hooks/adapters.py`) | open spans | tell, end | a closed run has no open spans |
| MCP client, deep agent preset, evals | | | left out, see the end |

How they meet: `Session.run` and `Session.resume` open an iterator on
`_run_loop_impl`; it drains notifications and mailbox messages into the
history, checks the budget, asks the provider, hands tool calls to the
scheduler, and saves the checkpoint between these steps. Hooks are dispatched at
each of these points. The scheduler asks the permission engine and runs tools;
tools may spawn background workers, which are runs of child sessions and report
into the parent's queue, take the parent's budget and may share its mailbox.
Everything runs on one event loop, so actors interleave at `await`s and at the
points where the consumer of the iterator holds it; storage and files are on
threads; processes die between any two store operations, and several of them may
share a database.

Hard to test: the crash points between two saves, a second crash during
recovery, an abandoned iterator whose session lives on, ids that repeat, abort
in the middle of a parallel batch, workers that finish between drain and save, a
cancellation that arrives at a particular `await` of a `finally`, a thread that
finishes after its caller has given up, and a value read before an `await` and
used after it. `PROJECT.json` lists some forty such places under `hazards`.

## DurableRun

`DurableRun.tla` models one run of a session with tools, permissions and
background workers. Durable are the messages (`log`), the run record (`status`,
`ck`) and the results in the run's event log (`ended`); the rest is the memory
of `_run_loop_impl` and of the session. Each append and each save of the code is
one action, so `Crash` (the process dies, `faults` counts it) and `Abandon` (the
consumer drops the iterator; session and workers live on) fall between any two.

| Code | Definitions |
|---|---|
| `_save_checkpoint`, `mark_failed`, `mark_completed` | `Stamped`, `Save`, `SaveBatch`, `Terminate` |
| start of a run, prompt | `SaveStarted`, `AppendPrompt`, `SavePrompt` |
| `resume_loop`, crashed workers | `Resume`, `QueueCrashed`, `Woken` |
| top of the turn | `MaxTurnsReached`, `TakeNotes`, `AppendNote`, `StartTurn` |
| provider call | `SaveRequest`, `ProviderReply`, `ProviderFails`, `AppendReply`, `SaveReply`, `Finish` |
| tool batch | `RecoverBatch`, `AskPermission`, `Answer`, `AnswerFails`, `StartTool`, `BeginEffect`, `EndTool`, `SaveEnd`, `BatchDone` |
| results, loop guard | `AppendHint`, `AppendResults`, `SaveResults`, `GuardForcesFinal`, `GuardStops`, `EndTurn` |
| abort, workers | `Abort`, `AbortCall`, `AbortTurn`, `WorkerDone` |

A message is what the loop distinguishes: its kind, the calls of a reply, the
answers of a results message. A call is its id; its permission key is `KeyOf`,
and `Rule` is what the permission engine decides without asking. The guard's
verdict, the outcome of a tool and the provider's reply are nondeterministic.
`execs`, `issued` and `answered` are history variables no guard of the code
depends on (`issued` only says whether a provider reuses ids, `FreshIds`).

Left out here: hooks, compaction and the gates of a final answer (`Turn`, `Hooks`),
budgets (`Budget`), what the record and the log hold (`RunLog`), the tools run in
the background by the scheduler, and the in-memory stores, which share their
objects with the loop.

### Runs

| Run | Instance | Result |
|---|---|---|
| `tools` | 2 calls with one key, 2 turns, 2 faults | passes: `AtMostOnce`, `RecordedResultIsReported`, `CallsAnsweredOnce`, `OneReplyPerTurn`, `ApprovedThisTurn`, `TerminalIsFinal` |
| `workers` | 2 calls, one allowed by a rule, 1 background worker, 2 turns, 2 faults, fair | passes: `EventuallyEnds` |
| `notes` | 1 call, 1 worker, 2 faults | violated: `CallsAnsweredOnce`, results appended twice behind a worker's note |
| `denials` | 1 call, 1 fault | violated: `StoredDenialWasGiven`, a failed callback hardened into a denial |

Bounds. Two calls give serial and parallel batches, partial results and one
call answered while the other is open; two turns let decisions, results and the
resumed turn's state leak into the next; two faults give a crash during the
recovery from a crash. `MaxTurns` is the agent's own bound, `MaxFaults` the only
one the model adds. `CHECK_DEADLOCK FALSE` because a run that ended stops.

Fairness. `FairSpec` asks weak fairness of `RunStep`: the event loop runs a
ready coroutine, stores, provider, tools and the permission callback answer, and
somebody resumes a run that is down, which is what a durable run is for. Aborts,
faults and workers have none. `EventuallyEnds` starts at the first checkpoint:
a crash before it leaves a run that `resume_loop` ignores.

### Findings

* **A reply's usage can be lost** (`UsageCoversEveryReply` states it). The reply is appended, then saved
  with the usage; after a crash in between, resume adopts the reply from the
  history and never accounts it.
* **Results can be appended twice** (`notes`). The test for "already appended"
  looks at the last message; a crashed-worker note drained at the top of the
  resumed turn hides the results.
* **A failed permission callback is stored as a "no"** (`denials`).
  `PermissionEngine.resolve` turns every exception into a denial before the
  scheduler can tell it from an answer; the next checkpoint keeps it, and a
  resumed run denies the call without asking.

`AnswerFails` therefore stores a denial exactly as `Answer` does.

### Proofs

`DurableRunProofs.tla` proves, for every value of the constants,

* `TypeCorrect`: `Spec => []TypeOK`;
* `EffectsAtMostOnce`: `Spec => []AtMostOnce`, with or without fresh ids;
* `EndedRunsStay`: `Spec => TerminalIsFinal`;
* `ApprovalIsOfTheTurn`: `Spec => ApprovedThisTurn`;
* `RecordedResultsAreReported`: `Spec => []RecordedResultIsReported`;
* `RepliesAreNotRepeated`: `Workers = {} /\ Spec => []OneReplyPerTurn`;
* `EveryCallAnsweredOnce`: `FreshIds /\ Workers = {} /\ Spec => []CallsAnsweredOnce`.

`AtMostOnce` is not inductive: it needs to know that what took effect left a
durable trace that resume reads. `OnceInv` adds `CheckpointsAgree` (memory and
record agree while an iterator is open, so `Resume` loses nothing),
`BatchInOrder` (calls to start and calls in progress are disjoint, none outside
a batch) and `EffectsAreTraced` (an executed call has a recorded end or a
placeholder in the saved checkpoint; a process that never resumed relies on the
ends alone, because it starts each batch without placeholders). `ApprovalInv`
adds `DecisionsAreCurrent`: an allow in memory, in the checkpoint or in a verdict
belongs to the turn it is used in.

The history needs three more, each over the one before. `ReportsInv` says of the
results held for a batch that a call with a recorded end has that result there, in
memory and in a saved checkpoint, so that whichever process appends them appends
the same. `TurnInv` counts the replies of a history against its turn: `SavedTurn`
says what a checkpoint of each phase knows of them, among it the one case where the
history is ahead of the record (`UnsavedReply`), and `PlaceInTurn` says the same of
the place where the process is. `AnswersInv` then follows each call that was asked
for: it is open, and the last message is the reply that asks (`SavedReply`), or it
is answered by exactly one results message (`SavedAnswers` of the checkpoint,
`AnswersInTurn` of the process).

The first four and `RecordedResultsAreReported` assume `ConstantsAssumption` and
nothing else. The other two are about runs without background workers, because the
code promises no more: it looks at the last message to tell what was appended, and a
note drained in between hides it (the finding of the run `notes`, whose single worker
is enough). The last one counts answers by call id, so it is about providers that do
not reuse one in a later turn. The run `tools` has no worker and fresh ids for the
same reasons.

All liveness is only model-checked.

## ToolScheduler

`ToolScheduler.tla` models `execute_tool_calls` from the permissions of a reply's
calls to their `ToolCallEnd` events. Calls are numbered in the provider's order.
The coroutine of the scheduler (`pc`) and one coroutine for each call in progress
(`task`) interleave; an abort acts only where a coroutine looks at the signal.

| Code | Definitions |
|---|---|
| `_evaluate_permissions`, `_resolve_ask_decisions` | `EvaluatePermissions`, `ResolveAsk`, `ResolveAborts`, `Resolved` |
| `_dispatch_pre_tool_use` | `PreToolUse` |
| `_strip_background_hints`, `_run_background_tool` | `Detachable`, `Detach` |
| `_tool_parallel`, `_resource_accesses`, `_resources_conflict` | `ToolParallel`, `ResourceAccesses`, `ResourcesConflict` |
| `_partition_batches` | `Partition`, `FirstBatch`, `Fits` |
| `_run_serial_batch`, `_run_parallel_batch` | `StartBatch`, `EndBatch`, `AbortBatch`, `BatchesAborted`, `BatchesDone` |
| `_execute_one`, retries, timeouts | `ExecuteAborted`, `Refuse`, `Execute`, `Return`, `Fail`, `Retry`, `RaiseAbort`, `ToolRetryable` |
| `Session.abort`, the host's signal | `Abort` |

A call's `kind` is what the code asks its tool: scope, concurrency attribute (a
flag, or a predicate of the input), resources, `retryable`, background, and the
decision the permission engine reaches without asking. Hooks and the permission
callback may replace the input, and concurrency and resources are those of the
new one. `FirstBatch` says in one line what the loop of `_partition_batches`
builds, the longest compatible prefix; the run `replies` compares it with that
loop, written out as `BatchAsCoded`, at every remainder, and a theorem does for any calls. The code partitions
all calls before the first batch starts; the model cuts each batch when it
starts, which is the same because inputs no longer change then.

### Runs

| Run | Instance | Result |
|---|---|---|
| `replies` | every reply of 3 calls of 4 kinds that run, and of 2 calls denied, invalid, asked about or detached with an invalid third; cap 2, 2 attempts, hooks, fair | passes: `InOrder`, `PartitionAsCoded`, `BracketsClose`, `EventuallyAnswered` |

Three calls with a cap of two give a full batch with a call left, a conflict with
the first but not the second call of a batch, and a call that would fit if it
could pass another. `ReplyInit` keeps the two families of replies apart. The scheduler's state is finite without further bounds.
`CHECK_DEADLOCK FALSE` because the scheduler returns.

Fairness (that of `FairSpec`): the event loop runs what is ready, the permission callback
answers, and a tool returns, fails or meets its timeout. The abort is not fair.

Finding: **a timed-out write runs again** (`WriteRunsOnce` states that it does not). `ToolTimeoutError` carries
`retryable = True`, so the documented rule that writes retry only on request does
not hold for timeouts, the one failure after which the write may have happened.

### Proofs

`ToolSchedulerProofs.tla` proves `SchedulerTypes` (`TypeOK`), `ConflictsInOrder`
(`InOrder`), `ConcurrencyWithinCap` (`WithinCap`) and `EveryBracketCloses`
(`BracketsClose`) for any number of calls, kinds, resources and caps. `InOrder`
needs `LanesInv`: what is in progress in the lanes is the current batch, batches run
together and within the cap, what is left is idle, and nothing idle lies behind a
batch. The step that carries it is `StartBatch`, by three lemmas about the operator:
`BatchIsPrefix`, `BatchIsCompatible` and `BatchWithinCap`. The last one needs a last
call of a finite set of calls (`LastCall`): the batch up to its last call is the
batch, and `Fits` bounds it. `BracketsInv` says at which places a call has started
and not ended; the parallel lane, which ends its calls in one step and in any order,
rests on `OrderIsComplete` (an order of a finite set of calls names each of them once)
and `EndsAppended`.

`PartitionIsTheLoop` (`PartitionAsCoded`) says that the batch the other proofs are about is
the one the code's loop selects: `BatchAsCoded` walks the pending calls in their order
(`PendingInOrder`) and stops at the first that may not join (`LoopSelects`), so what it has
selected is the longest compatible prefix (`LoopIsPrefix`). A batch is never empty, so
partitioning ends.

## Schedules

`Schedules.tla` models the schedule tools, `SchedulerLoop.tick` and
`SqliteScheduleStore`. Each store access of a tick is an action, so tools, the
end of the loop and crashes fall between listing, firing and writing back.

| Code | Definitions |
|---|---|
| `time.time()` | `clock`, `Clock` |
| `Schedule.compute_next_run`, `next_cron_time` | `NextRun` |
| `CreateSchedule`, `store.add`, `CancelSchedule` | `Create`, `Add`, `Cancel` |
| `SchedulerLoop.tick` | `StartTick`, `List`, `Fire`, `Update`, `EndTick` |
| errors in the loop, `stop`, `run_blocking` on daemon threads | `TickFails`, `LateWrite` |
| process death | `Crash` |
| the session's notifications | `pending`, `Drain` |

The clock is wall-clock time and may be set back. A cancelled tick's write is
done by a thread that cancellation does not reach, so it may land at any later
time, also over the record of a newer tick (`late`). A crash takes threads,
notifications and the tick. A cron expression is its slot length. `cancelled`,
`lastAt` and `untimely` are history variables; the guard `lastAt[s] = None` of
`Put` says that ids are fresh (`uuid4`).

### Runs

| Run | Instance | Result |
|---|---|---|
| `ticks` | an interval of 2, a cron slot of 3, clock to 4, 1 fault, fair ticks | passes: `FiringsAreSpaced`, `GoneStaysGone`, `DueIsServed` |
| `cancel` | the same, clock to 3, no fault | violated: `CancelledIsRemoved` |

`MaxClock` lets each schedule fall due twice, and both at once; `MaxFaults` lets a
tick end between firing and writing, which takes a late write and a newer tick to
do its full damage. Fairness is of `Tick` alone: the event loop runs the tick and
the loop ticks again after an error. Time, failures, late writes and the user are
not fair; faults are bounded, so a sink that fails for ever is not covered.

Finding: **a cancelled schedule comes back** (`cancel`). The tick writes the record
it listed with an upsert; a cancellation in between is undone, and the schedule
fires for ever although the tool confirmed that it was removed.

### Proofs

In `TeamProofs.tla`: `SchedulesAreTyped` (`TypeOK`), `CancellationIsFinal` (`GoneStaysGone`:
the finding needs a tick or a late write that holds the record) and
`EarlyFiringsArePaid` (`FiringsAreSpaced`), for any schedules, periods and clock.
The last one says how bad the missing record of a firing can be: at most two early
firings for each tick cut short, none without one. Its invariant `PaidFor` counts
debts: a schedule that fired and whose record does not say so is a debt, a late
write is another, and early firings plus debts never exceed two per fault. Only a
fault makes a debt and an early firing pays one; `TickInv` ties the tick's list and
clock to the records it read. The bound is reached in the run.

## TaskBoard and MemoryTasks

`TaskBoard.tla` is the task board of one session as `SqliteSessionStore` keeps it: a
table of tasks, a table of edges, every call a transaction and a step.
`MemoryTasks.tla` is `InMemorySessionStore`, where each task keeps its own lists.
`answer` is what the last call returned, so the comparison covers what callers see.

| Code | Definitions (in both modules) |
|---|---|
| `create_task`, `get_task` | `Create`, `Get` |
| `update_task`, with deletion | `Update`, `Patched`, `PatchedEdges`, `Delete`, `UpdateMissing` |
| `claim_task`, `ready_tasks`, `release_task` | `Claim`, `Ready`, `Release` |

`RowsOf` and `EdgesOf` are the refinement mapping: the row of a task is its status
and owner, the edges are the pairs its `blocked_by` list holds. `BoardSpec` states
that every step of `MemoryTasks` is then the same call of the board, or a stutter.

It holds for patches that are `Aligned`: dependencies named by the blocked task,
none both added and removed. Outside of these the stores differ: in memory,
`add_blocks` is written to the blocking task only, so nobody is blocked by it, and
additions come before removals. The model's `Patched` has both lists in the
code's order; the assumption is on the patches, not in the actions.

`View` leaves out `blocks`, which the two stores show differently for the same
reason and which no claim reads. Deletion is modelled as `update_task` calls it, on
a task that exists; `delete_task` called directly on an unknown id also drops edges
that name it in SQLite and does nothing in memory. `list_tasks` reads as `Get` does.
Subjects, metadata and time stamps are data.

| Run | Instance | Result |
|---|---|---|
| `board` | 2 tasks, 2 owners (symmetric: calls treat them alike), every aligned patch of status, owner or one dependency, also on ids not yet created | passes: `BoardSpec` |

Two tasks give a dependency, a cycle of two, a dependency on itself and on a task
deleted or still to come; two owners give a lost claim. `MaxTasks` is a bound of
the model. Deadlock is checked: queries are always possible.

`StoreProofs.tla` proves `TypeCorrect` and `MemoryImplementsBoard`: if all
patches are aligned, `Spec => BoardSpec`, for any number of tasks, owners and
patches. The one invariant needed is `TypeOK` with its last conjunct, that ids in
the store are below the counter: without it `Create` would overwrite a task. The
lemmas say how the mapping moves when one task is written (`OneTaskWritten`,
`SameEdges`) and that both stores show a task alike (`SameView`). `Delete` is the
case with work in it: every other task loses the id from its lists.

## The components around a run

`MCTeam` joins six modules that share no state. `focus` picks one, the others
stand still, so the states of the run `team` are the sum of theirs and one run
checks all six (fairness is asked of two of them by name).

| Module | Code | Definitions |
|---|---|---|
| `Workers` | `run_subagent`, its `finally` | `Spawn`, `TaskStarts`, `Registered`, `CreateFails`, `Acquired`, `AcquireFails`, `StartHooksRan`, `ChildEnds`, `Finally`, `Released`, `StopHooksRan`, `Reports` |
| | `continue_subagent`, `TaskStop` | `Continue`, `ContinueHooksRan`, `ContinueReturns`, `ContinueCancelled`, `TaskStop` |
| | aborts and ends of the parent | `SessionAbort`, `HostAbort`, `RunStops`, `RunFinishes`, `RootRunsAgain`, `CancelWorkers`, `Cancelled`, `CancelCall` |
| `Mailbox` | `send_message`, the drain at the top of a turn, the correlator | `Send`, `DrainInbox`, `AppendPeerMessage`, `AbandonDrain`, `Open`, `Resolve` |
| `Budget` | `RunBudget` as the loop uses it | `TurnBegins`, `Exceeded`, `Charge`, `CallFails`, `Replied`, `TakeWarning`, `SpawnRun`, `ToolsDone` |
| `Workflow` | `run_workflow`, its context and journal | `Invoke`, `Acquire`, `Call`, `Replayed`, `Record`, `EmitEnd`, `Finish`, `StartInner`, `JoinInner`, `Fails`, `Return`, `Die` |
| `Executor` | `SqliteExecutor`, `run_blocking` | `Run`, `StartThread`, `Enter`, `Succeed`, `Raise`, `ConnectFails`, `Deliver`, `CancelCaller`, `Close`, `CloseConnection` |
| `Shell` | the two backends of Bash, and ripgrep | `Start`, `ProcessExits`, `ChildRedirects`, `Communicate`, `KillGroup`, `KillClient`, `WaitAfterKill`, `RemoveContainer`, `LeaveRipgrep`, `CancelAgain` |

| Property | Says |
|---|---|
| `StoppedStaysSilent` | a worker that was stopped while its task ran never reports into the session |
| `OneDriver` | a child session is driven by its worker or by a continuation, never by both |
| `MailOnceInOrder` | each message is in one place, and a reader has them in the order of their sends |
| `OvershootIsBounded` | the tree overshoots a limit by less than one turn of each of its runs |
| `JournaledCallsAreNotRerun` | an invocation runs as many subagents as the journal left without a result |
| `ClosedForGood` | after `close` no thread works on the connection and none opens another |
| `NothingOutlivesItsCall` | when Bash answers, times out or is aborted, nothing it started still runs, but a container that could not be removed and a command whose shell had exited |
| `WorkflowReturns` | an invocation returns or fails |
| `CallsReturn` | a call returns, whatever its process does |

Instance. Two workers, one in the background and one that is a foreground call or
a workflow's branch, with hooks that await and children retained, over two runs
of the parent: a stop, a continuation and a second run can meet at every await of
one worker. Two readers of one inbox and three messages, two of which may be in one
drain while the third arrives; one request, which may be answered twice. Three runs of a tree with
three tokens, one per turn, so that all three calls may be in progress when the last
token is spent. Branches `b1` (calls `k1`, `k2`), `b2` (`k2`: the same call twice) and
`b3`, nested in `b1`, with two slots and two invocations, the second after a crash or
a failed branch. Three operations with two threads allowed, so that one waits for the
semaphore and one for the lock when `close` comes. One command for each way of
running one: each may start a command of its own, which stays behind in the background
when the shell exits, with the pipes or without. `MaxRuns`, `Messages`, `Invocations` are bounds of the model,
the other numbers are options of the code. `CHECK_DEADLOCK FALSE`: all of them stop.

Fairness. `WF(WorkflowStep(g))`: the event loop runs a ready branch and a subagent
answers; branches may fail and the process may die without any. `WF(ShellStep(c))`:
timers and callbacks of the event loop fire; processes owe nothing, so `CallsReturn`
rests on the deadline alone.

Findings. Where one is a state a property describes, the property is in the module
and fails there:

* **A command in the background outlives its call** (`AbortStopsTheCommand`, which TLC refutes in the
  instance of `team`).
  `cmd &` stays in the shell's process group; when the shell has exited and a timeout or an
  abort comes, `_kill_process_group` returns without a signal, and what holds the pipes, or
  has redirected them, runs on.
* **A stopped worker cannot be continued** (`ContinueReengages`): the continuation
  merges the controller that `TaskStop` aborted.
* **A background worker that raises is never notified** and stays "running"
  (`NotifiedWhenOver`): `_bg_run` catches `CancelledError` only.
* **A cancellation in the `finally` of `run_subagent`** leaves the directory or the
  merged signal's watcher behind (`CleanedUp`).
* **Cancelled callers leave their threads** beyond the cap (`ThreadsAreBounded`).
* **A nested `wf.parallel` can wait for ever**: with as many such branches as slots
  each holds the slot the other's inner branches need. The instance has one nested
  branch and two slots, where `WorkflowReturns` holds.

What the models also show, and no document promises otherwise: a worker cancelled
before its task starts stays "running"; `TaskStop` calls a completed worker
"killed"; a drain that is abandoned loses the rest of its messages; the siblings of
a failed branch keep running and go on writing to the run's log; a pipeline whose
items complete in another order when it is resumed may take each other's results
for identical calls; ripgrep is never killed; a second cancellation during the
cleanup leaves the container running.

`WarnsOnce` (one budget warning in a tree) and `FirstResponseStays` (a request keeps
its first response) hold in `team` too and are stated there as notes.

### Proofs

All in `TeamProofs.tla`, a section for each component, and all for any value of the
constants that the named assumptions allow.

* `OvershootBound`, `BudgetSpec => []OvershootIsBounded`, for any finite tree, limits and
  costs. The bound carries its own induction because it counts the calls in progress as
  already spent: a call begins only when the budget is not spent (`Exceeded`), and then
  what all runs can still charge is at most one turn each; a charge trades a call in
  progress for its cost (`CostsGrow`, `FS_RemoveElement`); all other steps begin no call
  (`FewerCalls`). `BudgetTypesHold` is what the arithmetic rests on.
* `ClosedIsForGood`, `ExecutorSpec => []ClosedForGood`. A thread works on the connection
  only while it holds the lock (`WorkersHoldTheLock`), and `closed` is set before `close`
  waits for that lock (`ClosingIsClosed`).
* `NothingIsLeftRunning`, `ShellSpec => []NothingOutlivesItsCall`. A process that ended by
  itself leaves at most an orphan running (`WaitsForBoth`), and a call that gave up nothing
  else either, before docker is asked to remove the container (`GivesUpAll`). The exception
  of the orphans is the finding above.
* `StoppedWorkersStaySilent` and `OneDriverAtATime`, for any set of workers, background or
  not. `StoppedEnds` follows a stop from the await it interrupts to the end of the
  worker's `finally`; `Driven` ties the driver of a child to its worker's stage, its handle
  and the one continuation there can be. `Finally` and `Done` change most of a worker's
  state in one step; `EndChanges` says once what such a step may do.
* `MailArrivesOnce`, `MailboxSpec => []MailOnceInOrder`. `MailOrder` puts a reader's
  history before what it has drained, and both before the inbox; `MailPlaces` puts each
  message sent in one of the places.
* `JournaledCallsStay`, `WorkflowSpec => []JournaledCallsAreNotRerun`. `CallsCounted` counts,
  for each invocation and key, the calls the branches have made (`Made`) as the places of
  their programs that lie behind where they stand (`BranchesStand`), and the runs among the
  occurrences that the journal did not have. A call moves one place (`MovedThere`) and adds
  the occurrence it was given (`NextOccurrence`), whichever branch comes first.

## The parts of an agent

`MCParts` joins thirteen modules in the same way. All are checked for safety only. The
constant `Focused` says which of them a run is about: `parts` has all of them, a run that
shows a violation the one it is about.

| Module | Code | State and definitions |
|---|---|---|
| `Turn` | `_run_loop_impl` from prompt to results, `stream_turn`, `compaction.py`, `finalize.py`, `LoopGuard` | the history, the request's tools, attempts and guard streaks; `StartTurn`, `MaybeCompact`, `MicroApplies`, `SummaryFails`, `ContextTooLong`, `Overloaded`, `Rung`, `ProviderReplies`, `AfterProviderCall`, `Gates`, `RunBatch`, `RemindAndForce` |
| `Wire` | the four adapters, `stream_turn`'s assembly | a reply in the provider's events and the message made of it; `AnthropicMessages`, `ChatMessages`, `ResponsesInput`, `GeminiContents`, `CallStarts`, `InputDelta`, `CallStops`, `GeminiPart`, `PreviousResponse`, `StatefulPayload`, `ContextMessage` |
| `Permissions` | `PermissionEngine`, `PermissionRuleSet` | rules, layers, mode; `AddRule`, `AddLayer`, `Evaluate`, `Resolve`, `CallbackAnswers` |
| `Hooks` | `HookDispatcher`, `ToolMiddlewareHook`, the verifier hook | where each run stands in the chain and the value it carries, tools left in the background; `CallHook`, `Combine`, `ToolRuns`, `ToolDetached`, `BackgroundNotified`, `AnswerGated`, `StopGated` |
| `Files` | file backends, `Read`, `Write`, `Edit`, offload | files, jobs on threads, references in results; `CallTool`, `Offload`, `MayBegin`, `RunWhole`, `ReadText`, `WriteText`, `Fail`, `Abandon`, `CompactHistory`, `Restart` |
| `Memory` | tiered store, tools, extraction hook, consolidation gate | items in tiers, the gate; `Search`, `WriteTier`, `Extract`, `Dedup`, `Record`, `GateOpens`, `Consolidated` |
| `Stores` | the stores on a shared database | rows, and a call between its read and its write; `AppendMessages`, `AppendEvent`, `ClaimTask`, `UpdateTask`, `ReleaseTask` |
| `AgentLife` | `connect_mcp`, `add_mcp_servers`, `session`, `close` | the stored coroutine, registry, rules, connections; `OpenSession`, `ServerConnected`, `Attached`, `AttachRaises`, `CloseAgent` |
| `RunLog` | what a run appends and stores, `build_run_report` | event log, record, totals; one action for each place of the loop that logs, `Step` for each awaited store operation, `Leave`, `Raises`, `Resumes` |
| `Skills` | `load_skills_from_dir`, the Skill tool, the overlay in the loop | loaded skills, pending overlay, the checkpoint of each run; `ConnectSkills`, `NewRun`, `TurnTop`, `SkillCalled`, `SkillRuns`, `GrantedCall`, `RunEnds`, `RunDropped`, `ProcessDies`, `RunResumes` |
| `Catalog` | loader, registry and generator of subagents | files, registry, generations; `AskModel`, `AnswerWritten`, `DiesWriting`, `ReloadSubagents` |
| `Spans` | `_SpanLifecycle`, the telemetry hook, two observers | where a run is, the event being told, open spans; `Tell`, `Observed`, `Told`, `Closes`, `Cancelled` |
| `Context` | builders, injection hooks, the request | contributions and their union; `Chained`, `Budgeted`, `HookBuilds`, `RequestMade` |

| Property | Says |
|---|---|
| `ToolUsesAnswered` | each tool_use sent to a provider is answered by the next message, through retries, reminders, elision and summaries |
| `CallsAssembled` | a reply has each streamed call once with its own input, however calls are interleaved |
| `ProviderSeesTheConversation` | the provider answers the view and the context of its request, each message once and in order; a Responses server all there has been |
| `AllowedInEveryPart` | what is allowed unasked is allowed segment by segment, and no layer denied it |
| `MiddlewareHasItsSay` | no tool input and no tool_result block passes the middleware by |
| `OffloadIsWritten` | a reference stands for a result that is in its file, whole, until another call changes the path |
| `AcknowledgedRowsStay` | an acknowledged message or event stays at its seq |
| `OneClaimer` | who was told that a task is its own owns it until it is released, reassigned or deleted |
| `SearchRanksGlobally` | a search over tiers returns the best items there are |
| `NoChangeForgotten` | changes recorded during a consolidation are still counted |
| `ReportAgreesWithRecord` | a run that the record calls ended is reported so |
| `UsageNeverDrops` | reported usage never goes down, through crashes and resumes |
| `GrantForNextTurn` | a turn has no grant but that of the turn before it, or the one pending when its run began |
| `WrittenStays` | no definition on disk changes unless a generation was told to overwrite |
| `ClosedWithTheRun` | a run whose end was traced has no turn and no provider call open |
| `WithinContextBudget` | what several hooks add to a request stays within the cap |

All are checked by `parts`. Two runs show a violation:

| Run | Checks | Finds |
|---|---|---|
| `opens` | `ConcurrentOpens` | a second session opened while the first connects fails |
| `edits` | `EditsKeepOthers`, notes on disk | the later of two edits drops the other |

TLC refutes the properties that the findings below name in the instance of `parts`, or in the one the
finding gives: each takes a config with `Focused` on its part and the property in it.

Instance. Where an option of the code is a constant, its value makes the limit reachable:

* `Turn`: 2 turns, 2 runs of one session, one message kept, one forced compaction, one
  fallback model, one retry of each gate, guard limits of 1, with the recovery ladder and
  without it (`ladder`). `Loose` is empty: see the findings.
* `Wire`: two calls in two pieces over two rounds, so that pieces of one call fall between
  those of the other, and a second request, with context or without, may follow a compaction.
* `Permissions`: two segments and two rules, so that rules differ on the parts of one command.
* `Hooks`: one run of two answers and any tools in the background, with a plain hook, a
  middleware, a plain hook and the verifier; runs share the hooks but no state of this model (the
  verifier counts by run), so a second one adds nothing. Hooks return what their point honours
  (`Honoured`), see below.
* `Files`: two sessions, each a process of its own with its own backend on shared files, three
  calls, a file of the workspace and one path on disk for the results, because paths are made
  of call ids, which repeat, and which the tools write, edit and delete too. The run `edits` has
  notes besides.
* `Memory`: two runs, two ids whose extractions overlap, two tiers, a gate at two changes.
* `Stores`: two processes and two rows; `MaxRows` is a bound of the model.
* `AgentLife`: three openers, one configured and one added server, a destructive tool each.
* `RunLog`: two turns, two faults, replies of one or two tokens, a single price.
* `Skills`: six directories (one link, one name that is taken, one built-in covered, repeated
  arguments, one hidden), two runs of two turns, a call in a turn, each time it is resumed.
* `Catalog`: two generations and three files, two of which differ only in case, one added by the host.
* `Spans`: one run of two turns and two upsets; runs do not share a span.
* `Context`: hooks with two and one builders, five contributions, two requests.

`LogFaults`, `MaxFileCalls`, `MaxOpens`, `LastRun`, `LastTurn`, `TurnCalls`, `HostFiles`, `SpanFaults`,
`ContextTurns` and `Rounds` are bounds of the model: each lets one disturbance meet the
effects of another. `CHECK_DEADLOCK FALSE` because each part comes to its end.

### Findings

A property named here fails in its module; it is stated beside the ones that hold.

* **The second session is refused while the first connects** (`ConcurrentOpens`, run `opens`):
  `connect_mcp` stores a coroutine and awaits it again. `connect_skills` keeps its coroutine in
  the same way, but suspends nowhere while it loads.
* **A Responses server does not forget.** Requests go on from the last response, so the
  provider answers the context of earlier requests again (`ContextIsForItsTurn`), and after a compaction all that was compacted and nothing of the summary
  (`CompactionIsSent`): the compaction saves no token there.
* **A reference can read back another result** (`OffloadedResultReadable`).
  The path is the tool's name and the call's id; the Chat adapter makes ids from the index of
  a call when the provider sends none, and sessions share a backend unless each is given its
  own, as `disk.py` recommends.
* **The result of a detached tool passes the hooks by** (`NotificationsTreated`): `_run_background_tool` queues a notification and dispatches no PostToolUse.
* **A tool_use can stay unanswered in the history** (`ToolUsesAnswered`), in the four ways that
  `Loose` names: an after-provider hook retries a reply that has calls, a recovery hint is
  appended between the reply and its results, a reply is cut at the token limit, and the next
  run follows one that stopped in between. No code repairs a history. With `Loose` empty the
  property is checked for everything else.
* **A forced final turn offers its tools again after a compaction** (`ForcedFinalHasNoTools`).
* **A skill's model is dropped when its turn asks again** (`ModelForTheTurn`); the invoked
  skills of a session are overwritten by the first one after a restart (`InvokedAreKept`).
* **An abort does not end the wait for the permission callback** (`AbortEndsTheWait`).
* **`edit` loses updates** (`EditsKeepOthers`): on disk, where nothing is locked between reading
  and writing (run `edits`), and in SQLite when two processes share the file, since only the
  UPDATE begins a transaction (the instance of `edits` with `Disk = {}`); Postgres reads and updates under READ COMMITTED
  in the same way. Where one executor has the files it holds, and is proved below.
* **`release_task` on Postgres undoes a completion** (`FinishedStaysFinished`).
* **A destructive MCP tool without its rule** (`DestructiveAsks`), when one of the connection's names is taken: the tools
  are registered before the rules. In this instance no name is taken and it holds.
* **A tool's span stays open** when a run is aborted inside it (`ToolSpansClosed`), and a run
  that ends between its start and the try of the loop never tells its end (`EveryRunEnds`).
* **The cost can drop on resume** (`CostNeverDrops`): it is priced anew at the agent's model. It
  holds with the single price of this instance and fails with two.
* **A generation may return another file's definition** (`ReturnsWhatItWrote`).
* **A grant can be lost on resume** (`GrantIsNotLost`): a run resumed within its batch takes the
  pending overlay at the top of the turn it is in, and drops it. No document says otherwise, so
  it is not listed as a finding.
* **A grant can be used twice** (`TakenOnce`): an iterator is dropped while a skill's overlay is
  pending; the next run of the session takes it from the session, and the dropped run, when it
  is resumed, from its checkpoint. Each time it is for one turn, which is what
  `GrantForNextTurn` says; no document says that it is used once.
* **A deleted task's id can come back** (`NextIdIsFree`): two `create_task` read one counter, the
  task of the first is deleted before the second inserts, and the id is given out again. If the
  counter has moved on meanwhile it goes back to an id in use, and creation is refused while that
  task is there. No document says otherwise here either.

What the models also show: a `Stop` hook may continue a run until `max_turns`; a retry
of `BeforeFinalAnswer` past its cap counts as approval; the loop guard returns on a repeated
call without looking at the failures; a timed-out write of a file lands later; the default
`StateFileBackend` is fresh when a session is opened again, so references in its history
dangle (`Ephemeral` is empty for that reason); updates of a session's metadata and of the
run record read, modify and write, and may lose each other's fields; a pending overlay set in
a run's last turn applies to the next run; with a single injection hook only that hook
trims to a cap, and the last cap of a chain counts.

A hook that returns an action its point does not honour, say a retry from `PostToolUse`, still
ends the chain: the hooks after it are passed by, the middleware and the verifier's clean-up
among them. With `Honoured` FALSE `MiddlewareHasItsSay` and `AttemptsDropped` fail for that reason.
`TurnSpansAreTimed`, `OpenedHasItsTools` and `AttemptsDropped` hold in `parts` and are
stated there as notes.

### Proofs

`TurnProofs.tla`:

* `CallsArePaired`, `Loose = {} /\ KeepRecent > 0 /\ TurnSpec => []ToolUsesAnswered`.
  `PairedInv` says that a history pairs each message of calls with the message of results
  after it, all but the calls of the last one, which are those of the reply being worked
  on or of a run that ended there. `PairedAppended` and the lemmas about elision and about
  a summary and the messages kept (`RecentFrom`) show that each way of changing a
  history keeps it so. `Loose = {}` is explained under the findings. `KeepRecent > 0` is the
  proof's own finding: with nothing to keep, `last_n_turn_boundaries` keeps the last message,
  which may be results whose calls the summary has replaced; TLC confirms it when
  `KeepRecent` is 0. The code's default is 10.
* `TreatedBeforeUse`, `Honoured /\ HooksSpec => []MiddlewareHasItsSay`, for any chain and any
  tools in the background. `HooksInv(m)` says of one middleware that a value past its place has
  been treated (`Past`), while the dispatch goes on (`Going`); so is what a tool runs with
  (`RunsTreated`). It is about inputs and tool_result blocks, and a notification is neither.
* `NothingPassesByJoining`, `PermissionsSpec => []AllowedInEveryPart`. It is about the
  operators: a rule, a list of rules and a stack of layers answer no worse of a segment
  than of the command it is part of, unless they deny the command (`NoWorse`;
  `RuleOfPart`, `ListOfPart`, `LayersOfPart`). A list's decision is that of its first or its
  last match (`FirstPosition`, `LastPosition`).
* `AdditionsFit`, `ContextSpec => []WithinContextBudget`, for any hooks, builders and
  contributions. `Fits` says it of one addition and `ContextInv` of all that is built and of the
  union so far. Trimming keeps as few messages and blocks as need be (`Fewest`), and what is
  left is within the cap because nothing at all takes nothing. That the totals are numbers
  (`TotalIsNat`), and that a chain of builders has the shape of an addition, are inductions.

`WireProofs.tla`:

* `TheHistoryIsSent`, `WireSpec => []ProviderSeesTheConversation`.
  A stateless adapter sends what it is given, so for these the proof is about layouts: each
  message becomes as many items as it has text and calls, all its own, in either order
  (`ItemsOf`, `Shown`). The Responses adapter sends what follows the last reply, so `ViewInv`
  says that between requests this and the server's copy are together all there has been
  (`Continues`). A message without a response id adds itself to both (`PayloadGrows`); a
  compaction keeps the last reply and what follows it, so it changes nothing
  (`CompactShows`), which is the proved form of the finding `CompactionIsSent`.
* `EveryCallIsAssembled`, `WireSpec => []CallsAssembled`, of all four adapters. While a reply is
  streamed, `Gathered` says of each call that it is not there, or in a buffer that holds its
  pieces so far, or in exactly one block that does, and that the text told and the text held
  are the text so far. `GatherInv` adds what each provider's protocol is relied on for: which
  calls are open, and which the Chat adapter will still close. Each event has a lemma
  (`StartGathers`, `PieceGathers`, `EndGathers`, `TextGathers`), and the end of a message is
  theirs in turn: the Chat adapter ends what it tracks, one call after the other
  (`FlushGathers`), after which nothing is open (`FlushEndsAll`).

Sums, flattened lists and the flush of open calls are recursive functions over positions.
What holds of all their values is proved from `Upwards` of `Positions.tla`, the module of the
lemmas about order that several proofs need: a set of numbers that has 0 and
with each number the next one has them all, since a smallest one missing would follow one
that is not. The others are that a set of positions has a first and a last one
(`FirstPosition`, `LastPosition`), and that a list of a finite set by how many come before
each has every element, in order (`Listed`), which is what sorting promises. The first lemma of each function (`SumExists`, `FlatExists`, `FlushExists`,
`LoopExists`, `SearchExists`) is that
the recursion has a solution, without which `CHOOSE` says nothing.

`StoreProofs.tla`:

* `OffloadsAreWritten`, `FilesSpec => []OffloadIsWritten`, for any sessions, processes and
  backends, with ids that repeat and tools that write to the paths. The result that a session
  holds is the one of the offload it awaits (`AwaitedIsHeld`), so that only this call's return
  makes it a reference; what is referred to was put there (`ResultsStand`), and what was put
  last is there (`LastIsThere`). A call that fails, or that comes back after it was
  abandoned, makes no reference.
* `EditsAreWhole`, `OneExecutor /\ FilesSpec => EditsKeepOthers`. An edit is two steps,
  its SELECT and its UPDATE. `LockHeld` says that what was read is what is there: the
  executor's lock lets no other thread begin in between (`NoneReading`, `LockKept`). Without
  `OneExecutor` the run `edits` refutes it.
* `ChangesStayCounted`, `MemorySpec => []NoChangeForgotten`. What was recorded before a pass and
  what was recorded during it are disjoint and both counted (`LeftIsCounted`), and one
  run consolidates at a time (`OneConsolidates`).
* `SearchIsGlobal`, `MemorySpec => []SearchRanksGlobally`, for any tiers and whatever they hold.
  What is merged has one copy of an id, as good as any a tier returned (`TierMerged`); a hit that
  its tier did not return has as many before it, of as many ids, as were asked for, and so have
  all of their merged copies (`MergedOrBehind`). A result at place k has k - 1 before it, so none
  that is missing belongs there (`BestOfAll`). It is about a search of one state of the tiers,
  without `tier_limits`: a tier that is asked for fewer than the limit may keep a hit back.
* `AppendsAreKept`, `StoresSpec => []AcknowledgedRowsStay`, for any number of processes: a row
  is acknowledged where the log ended when it was inserted (`AppendsInFlight`).
* `ClaimsAreExclusive`, `StoresSpec => []OneClaimer`, for any number of processes and tasks.
  Updates and releases write from what they read earlier, so each must keep the owner or end
  the claim; a creation may come from an old counter, and needs that a task is created
  only where there is none, hence where nobody holds one (`CreationKeepsClaims`). The proof was
  tried first with a model that compared the counters, and that this is not what the code
  compares came out of it: the primary key on the id decides.

`RecordProofs.tla`:

* `RecordIsReported` and `UsageIsKept`, `RunLogSpec => []ReportAgreesWithRecord` and
  `RunLogSpec => UsageNeverDrops`. The invariant is about the store operations a process
  has yet to await: a record is marked last (`MarkedLast`), a reply is saved before its
  usage is logged (`SavedFirst`), a marked record has nothing behind it
  (`OverWhenMarked`), and what is spent is what was reported and what will be
  (`Accounted`). The property had to be restated for it: it used to say that usage never
  drops, also after the final event, and the attempt to prove that found the case of two
  faults that refutes it. The tails of a failing run report the account in memory; if
  the save of that reply had failed and the record is then never marked, a resumed run
  reports less. The run `parts` has two log faults since, and finds the old form violated.
* `GrantsAreForTheNextTurn`, `SkillsSpec => []GrantForNextTurn`, for any number of runs and turns.
  The overlay is taken in one turn, saved with a run and read back by another process, and passes
  from a run that was left to the next, so the invariant says of each place where a grant may
  be which turn of which run it is due in (`OverlayIsDue`, `GrantIsDue`), and of each
  checkpoint that it leads back to such a turn (`LeadsBack`). `RunResumes` is the case that needs
  all of them.
* `EndedRunsAreClosed`, `SpansSpec => []ClosedWithTheRun`. That no span is
  opened after the end is not visible at the observer: it needs that the end is told outside
  of the try, with nothing to follow (`EndIsLast`), that only what is told is heard
  (`HeardIsTold`), and that a run whose end was traced is silent (`SilentAfterEnd`). Most steps
  are of two shapes, telling and going on, and `StepsGo` reduces them to one lemma.
* `NothingIsOverwritten`, `CatalogSpec => WrittenStays`. `MayWrite` is
  evaluated in the step that writes, after the only await, so types are all the invariant it needs.

## What the proofs rest on

The proof modules use the assumptions that the modules name (`ConstantsAssumption`,
`BudgetAssumption`, `SkillsAssumption`, `WorkflowAssumption` and the like), which TLC evaluates
in every run, and the theorems of the TLAPS library on finite sets, sequences and
functions. Six theorems have a hypothesis besides:

| Hypothesis | In | Why |
|---|---|---|
| `Workers = {}` | `RepliesAreNotRepeated`, `EveryCallAnsweredOnce` | false with workers: the run `notes` |
| `FreshIds` | `EveryCallAnsweredOnce` | the property counts answers by id, so an id of two turns has two |
| all patches `Aligned` | `MemoryImplementsBoard` | the stores differ on others, see there |
| `Honoured` | `TreatedBeforeUse` | an action that a point does not honour still ends the chain |
| `OneExecutor` | `EditsAreWhole` | false on disk, the run `edits`, and with two processes |
| `Loose = {}`, `KeepRecent > 0` | `CallsArePaired` | the four ways of the finding, and the one of the proof |

Each names a way of using or deploying the code, most instances have it, and where it is left
out the property is false of the code and the README says so above.

Only model-checked is liveness (`EventuallyEnds`, `EventuallyAnswered`, `DueIsServed`,
`WorkflowReturns`, `CallsReturn`), which is out of the prover's reach.
Every other property of a passing run is stated by a theorem.

Next in line: `FirstResponseStays`, stated as a note, which needs facts about what `SelectSeq`
leaves of a sequence.

## What is not modelled and why

* `DurableRun`: a store operation of a cancelled caller is done or not when `Abandon` is taken;
  the late write of its thread, which `Schedules`, `Files` and `Executor` have, is left out.
* `Wire`: two equal calls of one Gemini reply are one, to the adapter and to the model: the
  provider gives them no ids, and the adapter drops the second.
* `Shell`: the await of a process' creation is one step with the start; a command that puts
  itself in a session or group of its own (`setsid`) is out of any signal's reach.
* `Catalog`: the test for a file and its writing are one step, which they are only within one
  process; two processes may both find the name free.
* `Permissions`: a command has the segments the code finds, at `&&`, `||`, `;` and `|`; a single
  `&` or a newline does not split one, so a rule sees what they join as one segment.
* `Files`: a write is whole or does not happen; a disk that fills in the middle is left out. The
  in-memory backend belongs to one process.
* `Hooks`: notifications that are left when a run ends reach the model in the session's next
  run; in the model they come in the same run or not at all.
* The MCP protocol (`mcp/client.py`) belongs to an external library; `AgentLife` takes a
  connection as something that succeeds, fails or is cancelled.
* The deep agent preset assembles options once, and the evaluation harness runs cases one
  after the other: neither has state of its own that steps of others could disturb.
* Text: prompts, skill arguments and listings, the wording of tool results, globbing and
  tokenising of commands, cron parsing, token estimates. What they decide is nondeterministic
  or a constant.
* Reading events back (`event_from_dict`, which skips what it cannot decode) and formatting in
  reports; the report model starts from the events as appended.
* The Postgres run store, which repeats the SQLite one over another driver, and the in-memory
  run store, which keeps the loop's checkpoint object by reference, so that a "saved"
  checkpoint moves with the run.
* Construction and wiring of the facade's options, and the per-field mutations of hooks.
* The examples, which use the SDK and are no part of it.
* Interleavings across modules that share no state in the models. Where the code shares it, one
  module has both sides (`DurableRun` has workers' notes, `Budget` the whole tree, `Stores` all
  processes); a hook that calls back into the agent's own tools is left out.
