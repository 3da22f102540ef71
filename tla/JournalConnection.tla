------------------------- MODULE JournalConnection -------------------------
(***************************************************************************)
(* The one aiosqlite connection of SQLiteCommandJournal, statement by      *)
(* statement.  CommandJournal takes a transaction as one step; here tasks  *)
(* interleave at every await inside it.  Most operations run under an      *)
(* asyncio lock and BEGIN IMMEDIATE, but update_step_state,                *)
(* append_recovery, append_checkpoint and begin_shutdown execute and       *)
(* commit on the same connection without the lock, and a cancelled task    *)
(* leaves its transaction open, since only Exception is rolled back.       *)
(* A statement takes effect when it is issued: the connection has one      *)
(* thread and a queue, and a cancelled await does not take its statement   *)
(* back.                                                                   *)
(*                                                                         *)
(* A row never returns to a state, so "its version is as expected" is "its *)
(* state is as expected".  Each execute is filed once and has one step;    *)
(* every stop task files the same request.                                 *)
(***************************************************************************)
EXTENDS Queues, Functions

CONSTANTS Executes,      \* execute commands, each filed by a task of its own
          Stops,         \* stop tasks: a stop and its repetitions
          StopRow,       \* the command of the stop request
          QueueCapacity, \* config.queue_capacity
          MaxBoots       \* bound: restarts; the last process does not end

ASSUME ConnectionAssumption ==
  /\ Executes \intersect Stops = {} /\ StopRow \notin Executes
  /\ {"worker", "closer"} \intersect (Executes \union Stops) = {}
  /\ MaxBoots \in Nat

Task == Executes \union Stops \union {"worker", "closer"}
Id == Executes \union {StopRow}

Ends == {"succeeded", "failed", "blocked_unknown", "cancelled_by_stop",
         "interrupted_before_start"}
ActiveStates == {"running", "reconciling", "blocked_unknown"}
States == {"absent", "queued", "running", "reconciling"} \union Ends
StepStates == {"none", "reserved", "dispatched", "unknown", "settled"}

VARIABLES shown,    \* the tables as the connection reads them
          disk,     \* the tables as committed
          open,     \* sqlite3's in_transaction
          lock,     \* the repository's asyncio.Lock: its holder and waiters
          call,     \* the repository operation each task is in, or its answer
          worker,   \* where the worker is, and with which command
          phase,    \* the process: up, in close(), or down
          sweep,    \* the rows close() has read and not yet filed
          answered, \* what locked operations have acknowledged
          boots

vars == <<shown, disk, open, lock, call, worker, phase, sweep, answered, boots>>

Tables == [row : [Id -> States], step : [Executes -> StepStates],
           requests : SUBSET Id, flagged : SUBSET Executes,
           accepting : BOOLEAN, barrier : BOOLEAN]

Op == {"none", "create", "stop", "transition", "reserve", "settle"}
At == {"idle", "waiting", "begun", "writing", "ok", "reused", "refused", "raised"}
NoCall == [op |-> "none", on |-> StopRow, from |-> "absent", to |-> "absent",
           at |-> "idle", written |-> 0]

(* A call whose answer nobody will get.                                    *)
Lost == [NoCall EXCEPT !.at = "raised"]

WorkerAt == {"idle", "dispatch", "reserve", "marking", "marked", "sent", "losing",
             "lost", "settle", "noting", "noted", "doubt", "end", "dead", "gone"}

TypeOK ==
  /\ shown \in Tables /\ disk \in Tables /\ open \in BOOLEAN
  /\ ~open => shown = disk
  /\ lock \in Seq(Task) /\ IsInjective(lock)
  /\ call \in [Task -> [op : Op, on : Id, from : States, to : States, at : At, written : 0..5]]
  /\ \A t \in Task : call[t].at \in {"begun", "writing"} => lock[1] = t
  /\ worker \in [at : WorkerAt, on : Executes \union {"none"}]
  /\ phase \in {"up", "closing", "committed", "stopped", "sweeping", "failed", "down"}
  /\ sweep \subseteq Id \X States
  /\ answered \subseteq Id \X (States \union StepStates)
  /\ boots \in 0..MaxBoots

Init ==
  /\ disk = [row |-> [c \in Id |-> "absent"], step |-> [c \in Executes |-> "none"],
             requests |-> {}, flagged |-> {}, accepting |-> TRUE, barrier |-> FALSE]
  /\ shown = disk
  /\ open = FALSE
  /\ lock = <<>>
  /\ call = [t \in Task |-> NoCall]
  /\ worker = [at |-> "idle", on |-> "none"]
  /\ sweep = {} /\ answered = {}
  /\ phase = "up"
  /\ boots = 0

Queued(d) == {c \in Executes : d.row[c] = "queued"}

(***************************************************************************)
(* The statements of the locked operations, as the tables they can leave.  *)
(* Reads of the same transaction are in Known and Refused.                 *)
(***************************************************************************)
Writes(op) == CASE op = "create" -> 2 [] op = "stop" -> 5 [] OTHER -> 1

CreateWrites(c, n, d) ==
  IF n = 1 THEN {[d EXCEPT !.row[c] = "queued"]}
           ELSE {[d EXCEPT !.requests = @ \union {c}]}

Clear(d) == [d EXCEPT !.row =
  [c \in Id |-> IF c \in Queued(d) THEN "cancelled_by_stop" ELSE d.row[c]]]

(* SELECT ... LIMIT 1 names no order: any active row may be the flagged one. *)
FlagActive(d) ==
  LET active == {c \in Executes : d.row[c] \in ActiveStates}
  IN  IF active = {} THEN {d} ELSE {[d EXCEPT !.flagged = @ \union {c}] : c \in active}

CloseAdmission(d) == [d EXCEPT !.accepting = FALSE, !.barrier = TRUE]

(* Mutant: admission is closed first and the queue cleared last.           *)
BarrierWritesReversed(n, d) ==
  CASE n < 3 -> CreateWrites(StopRow, n, d)
    [] n = 3 -> {CloseAdmission(d)}
    [] n = 4 -> FlagActive(d)
    [] OTHER -> {Clear(d)}

BarrierWrites(n, d) ==
  CASE n < 3 -> CreateWrites(StopRow, n, d)
    [] n = 3 -> {Clear(d)}
    [] n = 4 -> FlagActive(d)
    [] OTHER -> {CloseAdmission(d)}

StepWrites(c, s, d) == {[d EXCEPT !.step[c] = s]}

Statement(k, n, d) ==
  CASE k.op = "create" -> CreateWrites(k.on, n, d)
    [] k.op = "stop" -> BarrierWrites(n, d)
    [] k.op = "transition" -> {[d EXCEPT !.row[k.on] = k.to]}
    [] k.op = "reserve" -> StepWrites(k.on, "reserved", d)
    [] OTHER -> StepWrites(k.on, "settled", d)

(* A request that owns a command is answered with it.                      *)
Known(k) == k.op \in {"create", "stop"} /\ k.on \in shown.requests

(* A stop that was cut off between its two INSERTs can leave a row whose   *)
(* request is not filed: the repetition's INSERT is refused as a duplicate. *)
Refused(k) ==
  \/ k.op = "stop" /\ shown.row[StopRow] # "absent"
  \/ k.op = "create" /\ (~shown.accepting \/ Cardinality(Queued(shown)) >= QueueCapacity)
  \/ k.op = "transition" /\ shown.row[k.on] # k.from

Acknowledges(k) ==
  CASE k.op = "create" -> {<<k.on, "queued">>}
    [] k.op = "stop" -> {<<StopRow, "queued">>} \union
         {<<c, "cancelled_by_stop">> : c \in {x \in Executes : shown.row[x] = "cancelled_by_stop"}}
    [] k.op = "transition" -> {<<k.on, k.to>>}
    [] k.op = "reserve" -> {<<k.on, "reserved">>}
    [] OTHER -> {<<k.on, "settled">>}

(***************************************************************************)
(* async with self._lock: BEGIN IMMEDIATE; try: ...; commit                *)
(* except Exception: rollback.  BEGIN stands outside the try, so that its  *)
(* failure ("cannot start a transaction within a transaction") rolls       *)
(* nothing back.                                                           *)
(***************************************************************************)
Files(t, op, on, from, to) ==
  /\ call' = [call EXCEPT ![t] = [op |-> op, on |-> on, from |-> from, to |-> to,
                                   at |-> "waiting", written |-> 0]]
  /\ lock' = Append(lock, t)

Release(t) == lock' = Kept(lock, {i \in DOMAIN lock : lock[i] # t})

Answer(t, at) ==
  /\ Release(t)
  /\ call' = [call EXCEPT ![t].at = at, ![t].written = 0]

(* Mutant: the statements do not wait for the lock.                        *)
HoldsNothing(t) == TRUE

HoldsLock(t) == lock[1] = t

Begin(t) ==
  /\ call[t].at = "waiting"
  /\ HoldsLock(t)
  /\ \/ ~open /\ open' = TRUE /\ call' = [call EXCEPT ![t].at = "begun"] /\ UNCHANGED lock
     \/ open /\ Answer(t, "raised") /\ UNCHANGED open
  /\ UNCHANGED <<shown, disk, worker, phase, sweep, answered, boots>>

Look(t) ==
  /\ call[t].at = "begun"
  /\ \/ /\ Known(call[t])
        /\ disk' = shown /\ open' = FALSE
        /\ Answer(t, "reused")
        /\ UNCHANGED shown
     \/ /\ ~Known(call[t]) /\ Refused(call[t])
        /\ shown' = disk /\ open' = FALSE
        /\ Answer(t, "refused")
        /\ UNCHANGED disk
     \/ /\ ~Known(call[t]) /\ ~Refused(call[t])
        /\ call' = [call EXCEPT ![t].at = "writing"]
        /\ UNCHANGED <<shown, disk, open, lock>>
  /\ UNCHANGED <<worker, phase, sweep, answered, boots>>

(* A statement that finds no transaction opens one: another task may have  *)
(* committed this one meanwhile.                                           *)
Write(t) ==
  /\ call[t].at = "writing"
  /\ call[t].written < Writes(call[t].op)
  /\ shown' \in Statement(call[t], call[t].written + 1, shown)
  /\ open' = TRUE
  /\ call' = [call EXCEPT ![t].written = @ + 1]
  /\ UNCHANGED <<disk, lock, worker, phase, sweep, answered, boots>>

Commit(t) ==
  /\ call[t].at = "writing"
  /\ call[t].written = Writes(call[t].op)
  /\ disk' = shown /\ open' = FALSE
  /\ answered' = answered \union Acknowledges(call[t])
  /\ Answer(t, "ok")
  /\ UNCHANGED <<shown, worker, phase, sweep, boots>>

(* The deadline of a tool cancels the task at whatever await it is in.     *)
ToolTimesOut(t) ==
  /\ call[t].at \in {"waiting", "begun", "writing"}
  /\ Release(t)
  /\ call' = [call EXCEPT ![t] = Lost]
  /\ UNCHANGED <<shown, disk, open, worker, phase, sweep, answered, boots>>

(***************************************************************************)
(* The tasks of the tool: VoyagerGateway.execute and GlobalStopBarrier.    *)
(***************************************************************************)
Serving == phase # "down"

Submits(c) ==
  /\ Serving /\ call[c].at = "idle"
  /\ Files(c, "create", c, "absent", "queued")
  /\ UNCHANGED <<shown, disk, open, worker, phase, sweep, answered, boots>>

StopCalls(s) ==
  /\ Serving /\ call[s].at = "idle"
  /\ Files(s, "stop", StopRow, "absent", "queued")
  /\ UNCHANGED <<shown, disk, open, worker, phase, sweep, answered, boots>>

(* _commit_stop_outcome, once the active command ended or kept it waiting; *)
(* whether it files SUCCEEDED or FAILED makes no difference here.          *)
StopConcludes(s) ==
  /\ call[s].at = "ok"
  /\ \/ /\ call[s].op = "stop" /\ shown.row[StopRow] = "queued"
        /\ Files(s, "transition", StopRow, "queued", "running")
     \/ /\ call[s].to = "running"
        /\ Files(s, "transition", StopRow, "running", "succeeded")
  /\ UNCHANGED <<shown, disk, open, worker, phase, sweep, answered, boots>>

(***************************************************************************)
(* The worker: run_once of the scheduler and execute_step of the executor. *)
(***************************************************************************)
Answered(at, answer) == worker.at = at /\ call["worker"].at = answer

Noted(op) == worker.at = "noted" /\ call["worker"].op = op

WorkerCalls(at, op, from, to) ==
  /\ worker' = [worker EXCEPT !.at = at]
  /\ Files("worker", op, worker.on, from, to)

WorkerPicks(c) ==
  /\ worker.at = "idle" /\ c \in Queued(shown)
  /\ worker' = [at |-> "dispatch", on |-> c]
  /\ Files("worker", "transition", c, "queued", "running")
  /\ UNCHANGED <<shown, disk, open, phase, sweep, answered, boots>>

WorkerRests(at) ==
  /\ worker' = [at |-> at, on |-> "none"]
  /\ call' = [call EXCEPT !["worker"] = NoCall]
  /\ UNCHANGED <<shown, disk, open, lock, phase, sweep, answered, boots>>

WorkerMisses ==
  /\ Answered("dispatch", "refused")
  /\ WorkerRests("idle")

(* The consumer goes to the next write, or raises: then the command fails. *)
WorkerReserves ==
  /\ Answered("dispatch", "ok")
  /\ WorkerCalls("reserve", "reserve", "absent", "absent")
  /\ UNCHANGED <<shown, disk, open, phase, sweep, answered, boots>>

WorkerSettles ==
  /\ worker.at = "sent"
  /\ WorkerCalls("settle", "settle", "absent", "absent")
  /\ UNCHANGED <<shown, disk, open, phase, sweep, answered, boots>>

WorkerSucceeds ==
  /\ Noted("settle")
  /\ WorkerCalls("end", "transition", "running", "succeeded")
  /\ UNCHANGED <<shown, disk, open, phase, sweep, answered, boots>>

WorkerFails ==
  /\ \/ Answered("dispatch", "ok") \/ Answered("reserve", "raised")
     \/ worker.at = "sent" \/ Answered("settle", "raised") \/ Noted("settle")
  /\ WorkerCalls("end", "transition", "running", "failed")
  /\ UNCHANGED <<shown, disk, open, phase, sweep, answered, boots>>

(* update_step_state: UPDATE and commit, without the lock.                 *)
UpdateStep(s, at) ==
  /\ shown' \in StepWrites(worker.on, s, shown)
  /\ open' = TRUE
  /\ worker' = [worker EXCEPT !.at = at]
  /\ UNCHANGED <<disk, lock, call, phase, sweep, answered, boots>>

WorkerMarks == Answered("reserve", "ok") /\ UpdateStep("dispatched", "marking")
WorkerLoses == worker.at = "sent" /\ UpdateStep("unknown", "losing")

UpdateCommits(from, to) ==
  /\ worker.at = from
  /\ disk' = shown /\ open' = FALSE
  /\ worker' = [worker EXCEPT !.at = to]
  /\ UNCHANGED <<shown, lock, call, phase, sweep, answered, boots>>

WorkerMarked == UpdateCommits("marking", "marked")
WorkerLost == UpdateCommits("losing", "lost")

WorkerSends ==
  /\ worker.at = "marked"
  /\ worker' = [worker EXCEPT !.at = "sent"]
  /\ UNCHANGED <<shown, disk, open, lock, call, phase, sweep, answered, boots>>

(* append_recovery and append_checkpoint: one row of a table of their own, *)
(* without the lock.                                                       *)
WorkerNotes ==
  /\ worker.at = "lost" \/ Answered("settle", "ok")
  /\ worker' = [worker EXCEPT !.at = "noting"]
  /\ open' = TRUE
  /\ UNCHANGED <<shown, disk, lock, call, phase, sweep, answered, boots>>

WorkerNoted == UpdateCommits("noting", "noted")

WorkerDoubts ==
  /\ Noted("reserve")
  /\ WorkerCalls("doubt", "transition", "running", "reconciling")
  /\ UNCHANGED <<shown, disk, open, phase, sweep, answered, boots>>

WorkerBlocks ==
  /\ Answered("doubt", "ok")
  /\ WorkerCalls("end", "transition", "reconciling", "blocked_unknown")
  /\ UNCHANGED <<shown, disk, open, phase, sweep, answered, boots>>

WorkerEnds ==
  /\ Answered("end", "ok")
  /\ WorkerRests("idle")

(* Nothing around run_once catches what its own transitions raise.         *)
WorkerDies ==
  /\ \/ Answered("dispatch", "raised")
     \/ worker.at \in {"doubt", "end"} /\ call["worker"].at \in {"refused", "raised"}
  /\ WorkerRests("dead")

(***************************************************************************)
(* MinecraftControlPlane.close: begin_shutdown without the lock, the end   *)
(* of the worker, recover_startup, and the end of the connection.          *)
(***************************************************************************)
CloseBegins ==
  /\ phase = "up" /\ boots < MaxBoots
  /\ phase' = "closing"
  /\ shown' = [shown EXCEPT !.accepting = FALSE]
  /\ open' = TRUE
  /\ UNCHANGED <<disk, lock, call, worker, sweep, answered, boots>>

CloseCommits ==
  /\ phase = "closing"
  /\ phase' = "committed"
  /\ disk' = shown /\ open' = FALSE
  /\ UNCHANGED <<shown, lock, call, worker, sweep, answered, boots>>

CloseCancelsWorker ==
  /\ phase = "committed"
  /\ phase' = "stopped"
  /\ worker' = [at |-> "gone", on |-> "none"]
  /\ Release("worker")
  /\ call' = [call EXCEPT !["worker"] = NoCall]
  /\ UNCHANGED <<shown, disk, open, sweep, answered, boots>>

Recovered(s) ==
  CASE s = "queued" -> "interrupted_before_start"
    [] s \in {"running", "reconciling"} -> "blocked_unknown"
    [] OTHER -> s

SweepReads ==
  /\ phase = "stopped"
  /\ phase' = "sweeping"
  /\ sweep' = {r \in Id \X States : r[2] = shown.row[r[1]] /\ Recovered(r[2]) # r[2]}
  /\ call' = [call EXCEPT !["closer"].at = "ok"]
  /\ UNCHANGED <<shown, disk, open, lock, worker, answered, boots>>

(* One transition per row, from the state that was read: a row that a stop *)
(* moved since is refused, and close() raises.                             *)
SweepFiles(r) ==
  /\ phase = "sweeping" /\ r \in sweep /\ call["closer"].at = "ok"
  /\ sweep' = sweep \ {r}
  /\ Files("closer", "transition", r[1], r[2], Recovered(r[2]))
  /\ UNCHANGED <<shown, disk, open, worker, phase, answered, boots>>

CloseRaises ==
  /\ phase = "sweeping" /\ call["closer"].at \in {"refused", "raised"}
  /\ phase' = "failed"
  /\ UNCHANGED <<shown, disk, open, lock, call, worker, sweep, answered, boots>>

(* The process and its connection are gone; what was not committed is too. *)
Gone(d) ==
  /\ phase' = "down"
  /\ disk' = d /\ shown' = d /\ open' = FALSE
  /\ lock' = <<>>
  /\ call' = [t \in Task |->
       IF t \in {"worker", "closer"} THEN NoCall
       ELSE IF call[t].at = "idle" THEN call[t] ELSE Lost]
  /\ worker' = [at |-> "gone", on |-> "none"]
  /\ sweep' = {}
  /\ UNCHANGED <<answered, boots>>

(* A blocked row makes recover_startup commit once more before it returns. *)
CloseEnds ==
  /\ phase = "sweeping" /\ sweep = {} /\ call["closer"].at = "ok"
  /\ Gone(IF \E c \in Id : shown.row[c] = "blocked_unknown" THEN shown ELSE disk)

Crash == Serving /\ boots < MaxBoots /\ Gone(disk)

(* connect, recover_startup and begin_session, before any task is served.  *)
Boot ==
  /\ phase = "down" /\ boots < MaxBoots
  /\ phase' = "up" /\ boots' = boots + 1
  /\ LET rows == [c \in Id |-> Recovered(disk.row[c])]
         blocked == \E c \in Id : rows[c] = "blocked_unknown"
     IN  disk' = [disk EXCEPT !.row = rows, !.accepting = ~blocked,
                               !.barrier = @ /\ blocked]
  /\ shown' = disk'
  /\ worker' = [worker EXCEPT !.at = "idle"]
  /\ UNCHANGED <<open, lock, call, sweep, answered>>

WorkerStep ==
  \/ \E c \in Executes : WorkerPicks(c)
  \/ WorkerMisses \/ WorkerReserves \/ WorkerMarks \/ WorkerMarked \/ WorkerSends
  \/ WorkerSettles \/ WorkerSucceeds \/ WorkerFails \/ WorkerLoses \/ WorkerLost
  \/ WorkerNotes \/ WorkerNoted \/ WorkerDoubts \/ WorkerBlocks \/ WorkerEnds \/ WorkerDies

CloseStep ==
  \/ CloseBegins \/ CloseCommits \/ CloseCancelsWorker \/ SweepReads
  \/ \E r \in sweep : SweepFiles(r)
  \/ CloseRaises \/ CloseEnds

Next ==
  \/ \E t \in Task : Begin(t) \/ Look(t) \/ Write(t) \/ Commit(t)
  \/ \E t \in Executes \union Stops : ToolTimesOut(t)
  \/ \E c \in Executes : Submits(c)
  \/ \E s \in Stops : StopCalls(s) \/ StopConcludes(s)
  \/ WorkerStep \/ CloseStep
  \/ Crash \/ Boot

Spec == Init /\ [][Next]_vars

(***************************************************************************)
(* Properties.                                                             *)
(***************************************************************************)
Since(s) ==
  CASE s = "queued" -> States \ {"absent"}
    [] s = "running" -> {"running", "reconciling", "succeeded", "failed", "blocked_unknown"}
    [] s = "reconciling" -> {"reconciling", "blocked_unknown"}
    [] OTHER -> {s}

(* What an operation under the lock has acknowledged is on the disk and    *)
(* stays there, although other tasks commit, roll back and are cancelled   *)
(* in the middle of its transaction, and the process ends.                 *)
AnswersAreDurable ==
  \A a \in answered :
    CASE a[2] = "reserved" -> disk.step[a[1]] # "none"
      [] a[2] = "settled" -> disk.step[a[1]] = "settled"
      [] OTHER -> disk.row[a[1]] \in Since(a[2])

(* A barrier on the disk is a whole barrier: no command is queued behind   *)
(* it and the one that runs has been told, although half of its            *)
(* transaction may have been committed by another task before it was cut   *)
(* off.  (A blocked row can take the place of the one that runs.)          *)
ClosedMeansCleared ==
  disk.barrier =>
    /\ Queued(disk) = {}
    /\ \A c \in Executes : disk.row[c] = "running" =>
         c \in disk.flagged \/ \E b \in Executes : disk.row[b] = "blocked_unknown"

(* The journal knows that a step was dispatched when the bot receives it   *)
(* (test_command_executor.py: 'assert reserved is not None and             *)
(* reserved.state == "dispatched"' inside execute_action).                 *)
MarkedBeforeDispatch == worker.at = "sent" => shown.step[worker.on] = "dispatched"

(* A worker ends only with the process.                                    *)
WorkerOutlivesCalls == worker.at # "dead"

(* A stop answered as known has its barrier on the disk, unless a restart  *)
(* has cleared the queue since.                                            *)
RepeatedStopsHaveBarriers ==
  \A s \in Stops : call[s].at = "reused" /\ boots = 0 => disk.barrier
=============================================================================
