# A verification project for Animetta

TLA+ models of the parts of Animetta whose correctness lies in the order of
things: durable command tables, the tasks of one asyncio process that share
them, and a bot that outlives the process. TLC checks small instances; TLAPS
proves what matters most for instances of any size.

Paths are relative to `src/` unless they start with `src/src/`. `PROJECT.json`
gives, for every definition, the source lines it stands for.

## 1. The system

Animetta is a virtual streamer: a Socket.IO server (Python, one asyncio
process) with a LangGraph conversation pipeline, live-stream services, and a
Minecraft player. The player is a "Voyager" control plane in Python that drives
`services/mc-mcp`, a Node process holding a Mineflayer bot.

| Component | State | Operations | What makes it correct |
|---|---|---|---|
| **Voyager command journal** (`tools/minecraft/voyager/sqlite_repository.py`, `journal.py`, `command_models.py`) | SQLite: command rows with a version, idempotency tombstones, the controller row (admission, barrier, epoch), steps, receipts, checkpoints | create, compare-and-set transition, next eligible, expire, stop barrier, begin/end of a session, restart recovery | a request owns one command; the queue is bounded; a barrier leaves nothing to start; a command begins at most once and a closed one stays closed |
| **Scheduler, controller, executor, stop barrier, gateway** (`scheduler.py`, `control_plane.py`, `command_executor.py`, `reconciliation.py`, `stop.py`, `gateway.py`) | memory of one process: the controller's state, the active command and correlation, the worker task, a task per stop, a termination task | dispatch, reserve and send a step, take or lose its answer, reconcile, file the outcome; signal and retry on a stop | the worker is not killed by a lost compare-and-set; every active row has a task that will end it; a filed outcome agrees with the bot; commands and stops end |
| **Assembly and tools** (`tools/minecraft/core/assembly.py`, `tools.py`) | the life of the process around the journal | assemble, recover, open a session, close, disconnect | nothing of an earlier process is taken up again; nothing acts for a row that was swept |
| **GameBot runtime** (`services/mc-mcp/src/gamebotRuntimeV2.js`) | one action at a time, retained receipts, settling and quarantined modes | execute, cancel, settle, give up | a receipt that says how an action ended means the bot is at rest |
| **Command inbox** (`services/command_inbox.py`) | a SQLite row per (scope, kind, task id), one connection | accept, transition, clean up, start, close | an identity is executed once; a committed end is final |
| **Chat handlers, tool approvals** (`orchestration/server/handlers/chat_handlers.py`, `routes.py`, `websocket.py`) | a task per client event, sandbox task maps, operators' events, the approval timeout loop | text turn, sandbox request and cancel, decide, expire, reconcile at startup, shut down | an approved tool batch runs once, a rejected one never; a pending approval is taken up |
| mc-mcp operation scope and life cycle (`operationScope.js`, `lifecycle.js`, `managedServer.js`) | an operation's interruption, listeners, quiescence | interrupt, quiesce, start, stop, restart | an interrupted operation issues no further game call |
| Minecraft bridge (`core/bridge.py`, `adapter.py`) | the stdio session with mc-mcp | start, call, reconnect | a call of one session is never answered by the next |
| **Mission coordinator** (`tools/minecraft/mission/`: `coordinator.py`, `repository.py`, `state_machine.py`, `runtime.py`, `adaptive.py`, `verifier.py`; `BudgetAccount` of `voyager/budget.py`) | mission and objective rows with a version, an account without one, the child commands in the journal, a set in memory of children already advanced | submit, advance, take a child's end, rebalance a failed objective, explore, verify | one child at a time; none for a mission that ended; a child charged once; completion backed by a child that succeeded; nothing strands the mission |
| **Reply pipeline** (`services/bilibili/reply_queue.py`, `reply_media.py`, the media arbiter, `chat_handlers.py`) | a bounded priority queue, worker tasks, a generation, the order of media turns, the one public channel, the lock of the stream's conversation | submit, evict, retry, switch generation, speak in order | nobody sleeps on a non-empty queue; leases have owners; every reply is counted once; media in order, once; a switch returns |
| **Livestream session, danmaku service** (`services/bilibili/livestream_session.py`, `danmaku_service.py`, `proactive_topics.py`, `handlers/bilibili_handlers.py`) | room, generation, gateway, callback tasks, what the clients were told, the proactive timer; a transport thread per generation | set room, stop, gateway callbacks, publish, arm and cancel the timer | a callback of an old room changes nothing; the last word to the clients is true; the timer follows the live state; an unowned transport has been told to end |
| Socket sessions (`orchestration/server/session.py`) | a context per connection | create, look up, clean up | one context per connection, all of them closed |
| Provider pool (`runtime/provider_pool.py`) | pool state, initialization and shutdown tasks | init, shutdown, reconfigure | a shutdown wins over a running initialization; readiness is true only of live engines |
| Conversation pipeline (`orchestration/graph/`) | graph threads, interrupt signals | run, interrupt, resume | an interrupt reaches the turn it was meant for |
| Live2D queue, TTS failover, scene analysis, program scripts | small bounded queues, a circuit, one analysis in flight, a run with pauses | see the sources | bounds, recovery, newest evidence wins, legal transitions |
| Budgets, strategies, memory, observability, configuration, frontend | data, content, user interface | | not about order; see section 11 |

**How they interact.** A tool call or a mission files a row in the journal. The
scheduler's task picks it up, hands a snapshot of it to the controller, which
calls the executor for each step, which calls the bot and persists before and
after. A stop is a second task on the same rows: it commits a barrier, signals
the controller, and waits for the row. A termination is a third. The journal and
the bot survive a crash of the process; the controller's state does not.
A client event files a row in the inbox; so do the operators' decisions and the
timeout loop, all through one connection and one lock. The graph's checkpoint
is in another store, with no transaction across both.

**What is hard.** Snapshots used after an await; several tasks moving one row;
answers lost while the bot still acts; a crash between two transactions; tool
calls cut off at any await; a task cancelled inside a transaction; loops that
have no handler, so that one exception ends them. `PROJECT.json` lists each such
hazard at its line with the properties that watch it.

## 2. Plan of the modules

Written so far, in this order:

1. `CommandLifecycle` - the abstract promise of the journal.
2. `CommandJournal` - the journal, its transactions called by anybody; refines 1.
3. `VoyagerControlPlane` - EXTENDS 2, with the callers it really has, the
   process and the bot.
4. `CommandInbox` - the inbox and its connection.
5. `ChatTasks` - EXTENDS 4, with the tasks that work on it.

6. `ReplyPipeline` - from a viewer's message to its last sentence.
7. `DanmakuService` - the transport threads of a livestream.
8. `LivestreamSession` - EXTENDS 7, with the room commands and callbacks.
9. `MissionRepository` - the rows of a mission and the account of its budget.
10. `MissionCoordinator` - EXTENDS 2 and 9: a mission pays and follows commands of
    the journal, each through a connection of its own to one database file, with
    no transaction across both.
11. `JournalConnection` - the journal's connection statement by statement, with the
    writers outside its lock and tasks cut off inside a transaction.
12. `Queues` - queues that are left from anywhere, for the locks and conditions of
    6, 8 and 11.

`MC...` modules give the instances, `..._proofs` modules hold the theorems about
the module they are named after (section 9); `VoyagerControlPlane_proofs` begins with
those about 2, and `MissionCourse_proofs` continues `MissionCoordinator_proofs`. Next, most important first:

- `MissionConnection`: the mission's connection the way `JournalConnection` treats
  the journal's, for it has the same weakness (section 8).
- `Sessions`, `ProviderPool`, `Narration`, `OperationScope`, `TtsFailover`,
  `Live2DQueue`, `ProgramScript`; singing on top of the inbox.

## 3. The journal: `CommandJournal`

A row of `commands` is a command row: its state, `state_version`,
`queue_sequence`, whether `started_at_ms` was written, and
`cancel_requested_at_ms`. `tombstone` is the idempotency table, `accepting` and
`barrier` the controller row. Clocks appear as `late`, the set of commands whose
queue deadline has passed. Each action is one `BEGIN IMMEDIATE ... COMMIT`:

| Action | Code |
|---|---|
| `CreateCommand` | `create_command`: tombstone, admission, capacity, insert |
| `Transition(c, version, target)` | `transition`: compare-and-set, then the table of `command_models.py` |
| `ApplyStopBarrier(s, target)` | `apply_stop_barrier`: files the stop, cancels the queue, flags one active row, closes admission |
| `BeginShutdown`, `Quarantine`, `BeginSession` | writes of the controller row |
| `RecoverRow` | one row of `recover_startup` |
| `DeadlinePasses` | the clock |

The barrier flags one active row "in no stated order" (a `LIMIT 1` without an
`ORDER BY`): `target` is any of them. The compare-and-set takes the version from
its caller, so that `VoyagerControlPlane` can hand it a stale one.

`CommandLifecycle` says what callers may rely on: absent, pending, active,
unknown, closed, and a set of begun commands. `KeepsLifecycle` is the refinement
(`StatusOf`; begun is `started_at_ms`).

**Run `journal`** (`MCCommandJournal`): three execute submissions, two of them
with one request, and a stop; capacity 1, so that the second request meets a full
queue. Callers are unrestricted. Versions grow without end (a lost outcome is
re-examined for ever), so the constraint `VersionBound` stops at version 2: it is
enough for running, lost, re-examined. It checks `JournalTypeOK`, `BarrierHolds`,
`OneCommandPerRequest`, `QueueWithinCapacity` and `KeepsLifecycle`. Deadlock is not
checked, since all commands may have ended.

### The journal's connection: `JournalConnection`

The transactions above are taken as one step. This module takes them apart.
Every operation of `SQLiteCommandJournal` runs on one aiosqlite connection; most
hold an asyncio lock from `BEGIN IMMEDIATE` to commit or rollback, but
`update_step_state`, `append_recovery`, `append_checkpoint` and `begin_shutdown` do
not, and a task that is cancelled
inside a transaction leaves it open, since only `Exception` is rolled back.

| Variable | Code |
|---|---|
| `shown`, `disk` | the tables as the connection reads them, and as they are committed |
| `open` | sqlite3's `in_transaction` |
| `lock` | the repository's `asyncio.Lock` as its queue: the holder, then the waiters, of which a cancelled one leaves (`Kept` of `Queues`) |
| `call[t]` | the operation task t is in, how many of its statements it has issued, or its answer |
| `worker`, `phase`, `sweep` | where `run_once`/`execute_step` and `MinecraftControlPlane.close` are |
| `answered` | what locked operations have acknowledged (history) |

A locked operation is `Begin`, `Look` (its reads, with the answers "reused" and
"refused"), one `Write` per statement somebody can tell apart, `Commit`. A statement takes
effect when it is issued: the connection has one thread and a queue, and a
cancelled await does not take its statement back. `ToolTimesOut` ends a tool's
task at any await. A restart is `Boot`: connect, `recover_startup`, `begin_session`.

**Run `connection`**: two execute calls, a stop and its repetition, a queue of one
(so that a refusal can happen), the worker, `close`, one restart; both a crash and
a close lead to it, and the last process does not end (`MaxBoots`). Executes are
interchangeable, and so are the tasks of the stop request. `AnswersAreDurable`
relates every acknowledgement to the disk, whatever other tasks commit or roll back in
between; `ClosedMeansCleared` says that a barrier on the disk is a whole barrier,
which rests on the order of its statements: admission is closed last, so that half a
transaction committed by somebody else does not claim to be one. Deadlock is not
checked, since everybody may be done or the worker dead.

Two properties of the module are refuted by TLC and have no run (section 10):
`WorkerOutlivesCalls` and `RepeatedStopsHaveBarriers`; a third, `MarkedBeforeDispatch`,
is the run `lost_mark`.

Simplified: a row never returns to a state, so a version is as expected when the
state is; each execute is filed once and has one step, whose receipt and settlement
are one operation; the outcome of a stop and of a verification is left open.
Left out: `append_activity` and `append_receipt`/`save_budget` (tables nothing here
reads; the last two have no caller), the expiry of queued commands (a transition
like the worker's others), the termination task, and the commits of reconciliation
other than its record, which are in `VoyagerControlPlane`.

## 4. The control plane: `VoyagerControlPlane`

An action is the code between two awaits that matter, or one transaction.

| Variable | Code |
|---|---|
| `phase`, `restarts` | the process: down, recovering, up, closing |
| `controller`, `activeId`, `activeStep` | `UnifiedVoyagerController.state`, `active_command_id`, `_active_correlation_id` |
| `worker` | the task of `VoyagerCommandScheduler`: where it is, the command, version and snapshot it holds, the outcome it will file |
| `stopper[s]` | the task of stop command s in `GlobalStopBarrier.stop` |
| `terminator` | `VoyagerGateway.record_runtime_termination` and its page of projections |
| `steps` | the latest `command_steps` row of each command |
| `runtime` | the bot: what it acts on, whether it was cancelled, its mode, the receipts it kept |

The worker goes poll, picked, enter, decide, reserved, dispatched, waiting,
answered, then back to decide, or through reconcile, to report. It loses the race
for a row (`WorkerLosesRace`) without harm, and dies of any later stale version
(`WorkerReport`), because `_run` has no handler. The answer of an action may be
lost (`WorkerLosesResponse`), doubted (`WorkerDoubtsReceipt`) or followed by an
exception (`WorkerRaises`). `Verdicts` is `decide_recovery`: observations and
evidence are reduced to what they can establish, so insufficient evidence is
always possible, and a known end needs an idle bot and a receipt, or a step that
was never sent. A stop works on the snapshot it read (`StopRead`, then
`StopDecide` and `StopClaim`), and can be cut off at any await by the tool
timeout (`StopTimesOut`). `Close` stops admission, `CancelWorker` cancels the
task, `Recover` sweeps the rows one by one; `Crash` forgets all memory. The bot
may go on acting through each of these, or file a receipt without coming to rest
(`RuntimeGivesUp`, `RuntimeSettles`).

`VoyagerGateway.execute` looks at the controller before several awaits, and a
mission's child is filed without that look: `Submit` may commit in any state of
the controller, so nothing here depends on that check.

| Run | Instance | Question |
|---|---|---|
| `two_commands` | two commands of one step, a stop, one restart | `WorkerSurvives` (as far as the compare-and-set goes; a transaction that cannot begin is in section 3), `EndedMeansQuiet`, `StartsInOrder` |
| `two_stops` | a command, two stops, a termination, one restart | `ActiveRowsHaveOwners`, `StopTellsTheTruth` |
| `liveness` | a command of up to two steps, a stop, two restarts | `TypeOK`, `ActsOnlyWhileRunning`, `CommandsMove`, `StopsAnswer` |
| `step_after_cancel` | expected violation, section 10 | |

Bounds: `MaxSteps` (runtime actions of one command) and `MaxRestarts` are guards
of `WorkerReserve` and `Boot`. One step is enough where the properties are about
who moves a row; `liveness` has two, because there an earlier receipt of the
same command could be taken for a later one. Two commands are needed for an
order, two stops for a retry of a reconciliation that races another. Commands of
one kind are symmetric, and symmetry is used only in the runs without liveness.
Deadlock is not checked: when its restarts are used up the process may stay down.

Fairness (`FairSpec`): weak fairness of the worker and of each stop task, since
asyncio runs every ready task and each of their waits has a timeout. Nothing is
assumed of the bot, of `Boot`, or of clients. `StopsAnswer` excuses a stop task
that itself raised or was cut off; `CommandsMove` excuses a process that left
`up`.

## 5. The inbox: `CommandInbox` and `ChatTasks`

An operation holds the inbox's lock from `BEGIN IMMEDIATE` to commit, so each is
one step. What the lock does not cover is a task cancelled inside: only
`Exception` is rolled back, `CancelledError` is not one, and the transaction stays
open on the connection that everybody shares. So there are two tables: `rows`,
what the connection shows, and `disk`, what the next connection will find;
`conn` is closed, ready, or stuck in such a transaction. `CutOff` lists what a
cancellation leaves: an open transaction with or without the update, or a commit
that went through. `CleanUp` opens no transaction of its own, so its commit ends a
stuck one; `Disconnect` rolls it back; `Start` interrupts what was accepted or
processing and keeps pending approvals.

`ChatTasks` adds the tasks: `worker[w]` (a text turn, or a sandbox request with
the task it starts), `decider[d]` (an operator's decision, or the timeout loop,
`Timer`), the process, and the checkpoint store, which may lose a thread at any
time. `runs` and `toolRuns` count what was done in the world under the present
row. Every operation raises when the connection is not ready, and each caller does
then what its code does: file a failure instead, end with its row untouched, or,
for the timeout loop, end for good (`DeciderRaises`). `Shutdown` cancels the loop
wherever it is, `Reopen` is `_require_db` opening a closed inbox for an event that
is still running.

**Run `inbox`**: one text turn and one sandbox task, two client events, two
operators and the loop. Two events are a task and its duplicate; two operators and
the loop are three readers of one approval. Nothing needs a bound: rows expire and
the process restarts for ever. Deadlock is checked. It checks `RunsOnce`,
`ToolsRunAsDecided` (an approved tool batch runs at most once, a rejected one never), `WorkIsRegistered`, `EndsAreFinal`,
`ApprovalsAreTakenUp` and `TypeOK`.

Fairness, for `ApprovalsAreTakenUp` only: strong fairness of the loop's choice of
each pending approval - it goes over all of them each second, and an approval left
pending is one whose time runs out - and weak fairness of its claim and its
filing. Nothing is assumed of the graph that it resumes, so the property excuses a
loop that waits for one, and a loop that has died.

Kept out: payloads, progress and timestamps; the `cancel_requested` mark, which
nothing reads; the answers CONFLICT, OBSERVE, REPLAY and TERMINAL of `accept`, which
change nothing; the per-conversation lock, since a livestream key is reached from
several conversations. `Retain` and `Reopen` expire no row that a task still
holds: a row is kept for seven days after its end.

## 6. The replies: `ReplyPipeline`

Everything here runs on one event loop, so an action is the code between two
suspensions. A reply is in one of eleven phases, from unsent to ended.

| Variable | Code |
|---|---|
| `queue`, `asleep` | `BoundedReplyQueue._entries` and the waiters of its one condition, getters and putters alike; who is evicted, woken or cancelled leaves from anywhere (`Excluding` of `Queues`) |
| `worker`, `generation`, `switching` | the worker tasks of `DanmakuReplyRuntime` and `switch_generation` while it waits for them |
| `admitted`, `terminal` | `ReplyMetrics` |
| `nextTurn`, `activeTurn`, `skipped`, `acquired`, `completed` | `OrderedReplyMediaCoordinator` and its turns |
| `channel`, `waiters` | `BroadcastMediaArbiter` |
| `conversation` | the lock of the stream's conversation, as its queue |
| `guest` | the console, the proactive host, the narrator, the singer |

A worker takes the most urgent entry, or drops one that expired (`Takes`), waits
for the conversation (`Converse`), generates, asks for its turn (`Asks`), speaks
(`Speaks`, `Spoke`) and unwinds in the order of its `finally` blocks
(`UnwindGraph`, `UnwindTurn`). It may fail at each of these and be tried once more
(`Retries`). A submission on a full queue evicts, is refused, or in exhaustive
mode waits (`Submit`, `PutAgain`). A switch replaces the queue, cancels the
workers wherever they are, and ends the replies left.

Run `replies`: three messages of three ranks, two workers, a queue of one, the
proactive host, two generations. One slot is enough for each full-queue path, two
workers for an order that can be broken, two generations for leases that outlive
theirs. `LeasesHaveOwners`, `EveryReplyIsCounted` and `NobodySleepsOnWork` are
invariants; `SpokenOnceInOrder` an action property; `SwitchesEnd` holds under weak fairness of the worker tasks,
the putters, a guest that can go on, and the end of a switch. Nothing makes viewers write
or rooms change. Deadlock is not checked, since every message may have been answered.

Kept out: admission rules (a message here was admitted), message content, a worker
that dies of a cancellation of its own (`_ensure_worker` never replaces it), the two operations that have no caller
(`DanmakuReplyRuntime.close`, `discard_except_generation`).

## 7. The livestream: `DanmakuService`, `LivestreamSession`

A transport is a thread per generation. It verifies its connection, asks the room
once whether it is live, hands events over, drops, backs off, gives up - at any
moment, also after it was told to stop, since `stop` waits five seconds and a
backoff lasts up to a minute. A connection that ends is told twice: "Disconnected"
first (`Disconnects`), then what `_run` makes of it, a retry (`Breaks`) or an end
(`Exits`); after a clean close (`Closes`) nothing more is said. The task
that asked the room is not ended with its connection (`overdue`): its answer may come
during the next one. What the thread tells becomes a task on the server's loop
(`CreateTask`). A room command holds the session's lock through its whole course:
scene, old gateway, callback tasks, replies, announcement, new gateway (`OpEnters`
to `OpStarts`); asyncio locks are kept as their queues, which a cancelled task leaves from
anywhere (`Queues`). A publication goes through
narration, the proactive host's own lock, and the clients (`Publish`,
`NarrationSwitched`, `HostApplies`); the host cancels its timer and waits for it in
between (`HostCancels`, `HostUnwinds`). `CancelCallbackTasks` ends every other
callback task at whatever await it is.

Run `livestream`: two commands over two rooms, each with or without the
generation the client saw, two callback tasks at once, two generations. Two of each
are what it takes for an old one to meet a new one. The tasks bound how many
callbacks are under way, not how many there are. `PublicStateIsCurrent` and
`HostFollowsSession` speak of moments at which no task is under way;
`RoomsDoNotMix` (a room starts with no callback and no reply of another, and a
switch of the replies meets no task that submits) and `UnownedThreadsEnd` of the
moments inside a command. `CommandsReturn`
(again and again no command is under way; each is sent at most once, so each
that was sent returns) assumes only that the loop runs while something
on it can (`WF(LoopStep)`): nothing is assumed of threads, rooms or clients.
Deadlock is not checked: commands are sent once and a thread may be gone.

The comment at `services/bilibili/livestream_session.py:305` has a failed stop keep its
gateway for another try; a `DanmakuService.stop` that returned with its thread
alive has forgotten the thread, and the second try finds nothing. What does hold is
`UnownedThreadsEnd`: such a thread has been told to end.

Kept out: metrics and events without text; the timer's own firing; a cancelled
caller inside `_cancel_owned`; `reset_after_viewer_reply`. The queue inside the
service is drained in the step that fills it, while there is a connection or one
is being made. `HandleMessage` has one await less than it has `await`s: that of
`observe_danmaku` runs code that never suspends
(`services/scene_analysis/runtime.py`), so no other task comes between.

## 8. The mission: `MissionRepository`, `MissionCoordinator`

A child command is an id `<<objective, version>>` of the journal, as the code names
it; a stop is `<<0, k>>`. `MissionRepository` has an action for each transaction:
rows move by compare-and-set on their version, the account (`account`) has none and
is overwritten. `MissionCoordinator` runs the procedures that call them, each as a
sequence of transactions and reads:

| Tasks | Code |
|---|---|
| `Submitter` | `MissionCoordinator.submit`; it may be cut off between any two transactions |
| `"worker"` | `VoyagerCommandScheduler.run_once`, then `notify` of `assembly.py` for the command that ended |
| `"gateway"` | a global stop or a confirmed termination, then the same `notify` for each command it names |

| Actions | Code |
|---|---|
| `ReadMission` ... `ReadObjectives` | `snapshot`, whose reads nothing holds together |
| `Advance...` | `_advance`: create the child, activate the objective, move the mission |
| `Notify...` | the child's state is read first, `advanced_mission_commands` asked later and written last |
| `Rebalance...`, `Planner...` | `request_rebalance`: settle, fail the objective, ask the model, save, replace the envelope, put back |
| `Child...` | `on_child_transition` |
| `Adapt...`, `Explore...`, `VerifyCompletes` | `AdaptiveMissionRuntime.after_child`, `consider_exploration`, `verify_completion` |
| `Restart` | the process ends; `recover_startup` of the journal files what was open; memory is gone |

The run of a child is reduced to its outcome and to what its receipts add up to.
Budgets have one dimension. End states reached by a reconciliation are those reached
without. The rebalance planner may propose any amount that fits, decline or raise;
the adaptive policy may stop at any time. A proposal is admitted when what it depends on is
completed and its cost fits; other grounds to refuse one come to the same as a cost that does
not fit.

Run `mission`: two required objectives in a chain, a third that may be proposed on top of them,
two submissions of one request, one rebalance, a usage of one or two against
reservations of one, a stop, a restart; `MaxVersion` names the children an
objective can have. It checks

- `OneChildAtATime`: `_advance` looks for an active objective in a snapshot and
  creates a command through another connection; that no two tasks come there together
  rests on each having won a compare-and-set before. And none for a mission that
  ended: `_advance` does not look at the mission's status; a rebalance whose
  planner answers after the mission ended goes on to ask for a child, and only the
  admission that the stop closed refuses it.
- `CompletedMeansDone`, `ChargedOnce`: over the unversioned account. And a completed mission has all
  its required objectives completed, although `verify_completion`, which completes it, asks for
  those of the specification only (`RequiredSatisfied`, from `MissionVerifier.verify`). An appended
  objective is required and not looked at there: that it is completed rests on the mission having
  come to wait for evidence when everything was (`RequiredComplete`, from `_advance`), on RUNNING
  being filed before the command of an appended one can end, and on the turn.
- `NothingStrands`: when nothing is left to do, the mission ended or waits for
  evidence, unless one of a list of mishaps befell it - a submission was cut off,
  admission or a full queue refused a child, a child expired in the queue (expiry notifies nobody), a child ended before its submission had
  filed RUNNING, its receipts exceeded its reservation - or it was stopped or
  restarted. Dropping any one mishap from the list makes TLC find a mission that
  strands; the list is the result. `MissionCoordinator.recover_startup` would take up a mission after a
  restart, but has no caller.

`AdvanceReady` asks that the child has a name among the commands (`MaxVersion`); no
reachable state of the run fails it.

Deadlock is not checked, for a mission ends. No fairness is assumed: on states with
nothing left to do, the invariant says what a leads-to would.

Other facts met on the way. The failure of an optional objective fails the mission,
since `on_child_transition` does not look at `required`. `save_budget`,
`save_proposal` and `link_evidence` execute and commit outside the lock of the
shared connection (`mission/repository.py:1148`), so another task's rollback can
undo them; each is one step here. `_advance` finds an active objective, or nothing ready while
something required is open, in no reachable state of the run; that a mission nothing disturbed
always has something ready, active or lost until all is complete is proved (section 9).

Kept out: `stop`, `recover_startup` and `advance_from_committed_evidence` (no
caller, and with them the edges to CANCELLED and SKIPPED), other missions, evidence
links, presentation artifacts, projections, rejected proposals. Proposals and the account
of a snapshot are read in one step; only a task that explores
writes both.

## 9. What is proved

Every theorem holds for any values of the constants that satisfy the assumptions
named. Each inductive invariant was first checked by TLC on an instance of its
module. A proof module first says what each operation does to the state
and then what a step preserves, one step per action.

**The journal**, the first part of `VoyagerControlPlane_proofs` - from `DraftAssumption`,
`CapacityAssumption` and `NoIdAssumption`; the set of commands may be infinite.

- `JournalTypeCorrect`: each operation keeps the tables well typed.
- `BarrierIsKept`: inductive as it stands, over the types.
- `RequestsAreIdempotent`: not inductive alone. `RequestOwned` says that a present
  command is the one its request's tombstone names; two of them are then equal.
- `QueueIsBounded`: `BoundedQueue` adds that the queue is finite, without which
  its cardinality says nothing. `SmallerQueue` covers every action but the
  insertion.
- `JournalKeepsLifecycle`: the refinement. `AbsentUnbegun` (a row that is absent
  never began) makes an insertion map to a stutter of `begun`; each transition
  maps to one abstract step, and a barrier to `RaiseBarrier`.

**`ChatTasks_proofs`** - from `SandboxAssumption` and `NoKeyAssumption`.
The properties of the inbox follow from who may hold a key. `IInv` says: two
workers never hold one key (`WorkersApart`); a decider past its claim holds a key
that no worker and no other decider holds, in a row that is processing or was
interrupted by a reopening (`DecidersApart`); nobody holds a key that is absent or
waits for approval, *in either table*, so that rolling back an open transaction
cannot hand a held key to somebody else; an end on disk is also the end the
connection shows (`RowsAgree`); the outcome a task is about to file fits its key
and its decision (`WorkerFiles`, `DeciderFiles`); and the counts agree with the rows (`CountsMatch`).
`RunsOnce` alone is not inductive: `Begin` adds one to whatever the count is.
`WorkerWrites`, `DeciderWrites` and `TableStep` prove the three shapes of a step
that writes rows, each once.

- `Invariant`, `TypeCorrect`, `ExecutedOnce`, `ToolsFollowDecisions`:
  state invariants.
- `CommittedEndsAreFinal`: the action property, through `StepsKeepEnds`.

- `WorkOnRecord`: a second invariant on top of the first. `Registered` says that,
  while the process serves, the row of a worker that has not come to its filing
  says so in both tables, and that a starting process has no workers.

**The control plane**, the rest of `VoyagerControlPlane_proofs` - from `DraftAssumption`, `CapacityAssumption`,
`NoIdAssumption` and `BoundsAssumption`: any number of commands, steps, stops and
restarts.

- `ControlPlaneUsesJournal`: `Spec => JournalSpec`. What the tasks, the terminator
  and the restarts do to the journal is always one of its operations or nothing;
  so `ControlPlaneKeepsPromises` has the journal's four theorems.
- The invariants are layered, each proved over those before it. `Shape`: types,
  and which fields of a task mean something where. `Knowledge`: what a task
  that holds a snapshot may still believe of the row - versions only grow, a row
  that the worker started is moved by nobody but a recovery or a stop, and those
  only after it let go. `ActiveRowsHaveOwners` itself: who will end an active row. `Quietness`: of which
  command the bot can still act, and what its receipts allow a reconciliation to
  conclude. `Truth`: what a stop's verdict was read from. `Order`: what the worker
  chose while others could file.
- From these: `WorkerNeverDies` (`WorkerSurvives`), `BotActsForRunningCommands`
  (`ActsOnlyWhileRunning`), `ActiveRowsAreOwned`, `EndedCommandsAreQuiet`,
  `StopsTellTheTruth`, `CommandsStartInOrder` (`StartsInOrder`).

**`JournalConnection_proofs`** - from `ConnectionAssumption`: any number of calls,
stops and restarts. `Shape` and then `Content`.
Only the head of the lock's queue is between `BEGIN` and its end, so at most one
operation is half written. The tables only move onward (`Onward`: a row appears,
advances or ends and never goes back), so that a commit by somebody outside the lock, or
a rollback of everybody's work, leaves the tables somewhere between `disk` and `shown`,
and every fact that `Onward` keeps survives it. The statements of a
barrier are ordered so that each prefix of them is harmless when committed. What the worker
knows of its step and row is what it has itself written.
`AcknowledgedIsDurable`, `BarriersAreWhole` (`ClosedMeansCleared`) and
`ConnectionIsTyped` follow; `CommittedOnlyMovesOn` is the action property behind them.

**`ReplyPipeline_proofs`** - from `PipelineAssumption`: any replies, ranks, workers,
capacity and number of generations. `Shape` says where everybody is: a
reply's phase decides which list holds it, and an attempt has one worker. `Numbers`
and `Turns` say that what the order of media turns has passed is completed, so that
whoever asks has exactly the next number - a switch
leaves no live reply of an older order. `Counted` relates the two counters to the
phases. `Sleeping` is about wake-ups: a sleeper is idle, and a waiting putter
means a full queue, which eviction keeps full.
`LeasesGoBack`, `RepliesAreCounted`, `WakeUpsArrive`, `PipelineIsTyped` are invariants,
`SpeechIsOrdered` the action property.

**`LivestreamSession_proofs`** - from `ServiceAssumption` and `SessionAssumption`: any
number of commands, callback tasks, rooms and generations. The invariant has parts for the
two locks as queues, the counting of generations, who owns a transport, and
the host's lock. Its core is what the drain of the
callback tasks gives: under the session's lock there is one command, no task passes
the lock while that command drains, and a publication that was under way and then waits for the
host can only silence it. `RoomsNeverMix`, `UnownedTransportsEnd`, `SessionIsTyped`.
`PublicStateHolds` (`PublicStateIsCurrent`) and `HostFollowsHolds` (`HostFollowsSession`)
speak of quiet moments, so their invariant `SInv` says at every other moment who will have
the last word (`LastWord`): the last status task in the lock tells how the gateway's thread
is, or there is none and `connected` does (`Told`); the last publication in the
host's lock carries the present snapshot, unless a command that has
not published yet still will (`Showing`, with `Late` and `Readying`); the last call that speaks to the host
knows whether the room is live (`Following`); live calls name the generation of the gateway there
is or of the one just detached, never two (`Voices`); and the timer is missing only while the call
at the head of the lock is about to arm it (`Timing`). That a drain takes away no last word is
where `Answering` and `SlotsAreSilent` are needed: the command's own publication was the
last one that spoke, and with no gateway no callback task has anything to say. Steps are sorted into a
dozen kinds first (`Kinds`), each with a lemma. `SInv` was checked with TLC on the instance of the
run and on one with three commands (2 287 845 states) before it was proved.

**`MissionCoordinator_proofs`** and **`MissionCourse_proofs`** - from `CoordinatorAssumption`, `SpecAssumption`,
`NoCycleAssumption` (what `MissionSpec` refuses: a cycle among its dependencies) and the
journal's: any objectives, dependencies, budgets, queue capacity, submissions, stops and restarts;
finitely many names of children. A task *holds the turn* when it may go on to give the
mission its next command. The turn passes from the submission to the command it
creates, from an active objective to the task that wins the compare-and-set on its
end (a child's end, or the failure that a rebalance files), through snapshots, planner and
exploration to the next command; it is lost when its holder stops or fails, and never in two places.
The invariant `Turns` says so, with what it needs: an active
objective is linked to its version, a waiting or running command is the linked one of the active
objective, the one about to be activated, or one nobody goes on from; commands of
earlier versions failed; a holder's snapshot of the objectives is current; a
task that is committed to end an objective finds the mission at rest; and while
commands are admitted the gateway follows only what it cancelled, so that it never takes
the turn from the worker. `Shape` types the tasks. `OneChildAtATimeHolds` follows, and is
the reason why `_advance` needs neither a lock across both databases nor a look at the mission's
status. `MissionIsTyped`, `TurnIsKept`. `Agenda`, the last invariant of the first module,
is explained with what it is for.

In the second module, `Waits` (`WaitsAreKept`) is about a mission that waits for evidence. Its guard looks at the
specification's objectives; that the appended ones are completed too is known from the way there.
The mission came to wait when everything required was completed. An objective can be opened
after that only by a task that has the turn, and then no task with the turn is one that verifies
(`Attends`: verification finds `Accomplished`, a task that goes on from a child's end does
not find the mission waiting, a submission is over). A command that was created while the mission waits
cannot run before the mission moves on (`Unstarted`): the worker alone runs commands, and it is
the worker that is between creating this one and filing RUNNING (`Starting`). So no
end of an appended objective's command meets a waiting mission, and what verifies holds the mission as
it is. `Books` needs this for the last step of a mission.

The invariant `Books` is about the account, which is read in snapshots and written back whole.
While an objective is active, the account lacks what its command has used so far, and no more; once
a task has the turn, it lacks nothing; and what a task that is to write the account back
has read of it (`Sound`) is that same account: between its snapshot and its write nobody else
had the turn, and nobody else followed the active command. So neither of two
notifications of one command can undo the charge of the other, although no version would stop
them. `Funded` - a pending objective has a reservation as long as somebody can go on - is what
makes the charge of an ended command happen at all. `BooksAreKept`,
`CompletedMeansDoneHolds`, `ChargedOnceHolds`.
`NothingStrandsHolds` (`NothingStrands`) speaks of moments when nobody has anything to do; what
makes it inductive is to say at every other moment who has what to do. `Agenda` (`AgendaIsKept`, in the first module):
what was appended had been accepted and stands on completed objectives, so that with the acyclic
dependencies of the request something is always ready while something is pending and nothing
active or lost (`NothingReady`). `Course` (`CourseIsKept`): as long as no mishap, stop, restart or
end has come (`Undisturbed`), a submission under way has the mission to itself; whoever is about to
act on the mission's row knows it as it is (`Steered`), so that no compare-and-set on it fails;
an active objective has its command open, or a notification that will pay for it and end it
(`Pursues`: it has read an account that can pay, or has still to read it); a lost one has the
notification that ends the mission or puts it back (`Closes`); and a running mission has one of
these or a task with the turn (`Followed`). A command is marked as advanced only when it is nobody's
any more (`NotAdvanced`), so that a second notification may skip it. Three of the mishaps come in here:
an early end finds no task that pursues it, an overspent one none that can pay, a refused or expired
one nothing that notifies. The steps are sorted by what they do to
this, a lemma ...Course for each.

**`Queues_proofs`** - what `Kept` and `Excluding` return: an order-preserving choice
of positions. The least position is found by well-foundedness of the naturals, not
by induction over a sequence, which the provers cannot instantiate.

Only model-checked: all liveness, since temporal reasoning with ENABLED is outside the prover.
Every invariant that a run checks is proved. What a recursive definition computes for every input would need
induction over data, which is outside it too; no module with theorems has one. The sums of
`MissionRepository` are folds, which CHOOSE a function by its recursion: the lemmas about `Total`
take a least counterexample.

## 10. Where the code and its word differ

Each of these is a run whose property states what the code's own documents,
messages or tests say, and which TLC finds violated.

- `step_after_cancel` (`NoStepAfterCancel`): the executor refuses a step after
  cancellation by looking at the snapshot taken at dispatch. A barrier that
  commits later flags the row, not the snapshot; further steps are sent.
- `replies_stall` (`AdmittedRepliesEnd`): a reply that holds the conversation waits
  for the channel, and a guest that holds the channel waits for the conversation.
  Neither has a deadline of its own when the guest is the console; the reply ends
  at the next change of rooms.
- `lost_mark` (`MarkedBeforeDispatch`): `update_step_state` writes outside the
  lock. Its UPDATE joins the transaction of another call, and when that call is
  refused (a full queue, closed admission) the rollback takes the mark back; its own
  commit then commits nothing, its caller does not look at the row it returns, and
  the action is sent while the journal has the step as reserved.

Others are stated as properties that TLC refutes, without a run of their own:

- `WorkerOutlivesCalls` of `JournalConnection`: a tool call cut off inside a
  transaction leaves it open. The next `BEGIN IMMEDIATE` raises, and when that is a
  transition of the worker, nothing catches it: the worker's task ends.
- `RepeatedStopsHaveBarriers` of `JournalConnection`: a stop cut off after its first
  statements, which another task then commits, is known when it is repeated, and is
  answered as if its barrier stood.
- `StateFollowsQuery` of `LivestreamSession`: after a reconnect the answer of the
  room query is dropped, and a live room stays "connecting".
- `WindowIsHonored` of `MissionCoordinator`: a rebalance leaves two records with the
  reason that is counted, so a limit of two allows one.

- `QuarantineBlocksExecution` of `VoyagerControlPlane`: a stop that retries a
  blocked command sets the controller to RECONCILING, and a dispatched command
  that comes in just then is executed although an outcome is unknown.
- `SeenEndsAreFinal` of `ChatTasks`: a sandbox task cancelled inside the
  transaction of its filing leaves it open; readers see `succeeded`, and a crash
  or a close takes it back. (What is committed is final: `EndsAreFinal`.)
- `NothingPendsBehindSuccess` of `ChatTasks`: a resumed turn that stops at the next
  approval is filed as succeeded, and no list shows that approval.

Two more were met while modelling and are in the model's behaviour: an enforced
budget stop asks for a step state the journal refuses and so ends as a plain
failure (`WorkerRaises`); a stop whose claim is stale, or which is cut off, leaves a
reconciling row to the next restart (`Abandoned` in `ActiveRowsHaveOwners`).

## 11. What is not modelled, and why

- Failures of SQLite itself other than those a cancelled task causes; processes
  sharing one database.
- Statement-level interleavings are modelled for the journal's connection only. The
  mission's repository, and waits between the connections that share the file (a
  busy timeout), are not; nor is the composition of `JournalConnection` with the rest: the other modules take a transaction as one step.
- Strategies, skills, budgets, verification and observations of the control plane:
  reduced to the outcomes they can produce.
- `caller_scope` and the request hash: a request here is the pair, and a hash
  conflict changes nothing.
- The graph behind a turn: reduced to ending, failing, or stopping at an approval.
- Memory, singing media, observability, configuration, frontend, gameplay skills:
  content, I/O or geometry. The other components are planned (section 2).
