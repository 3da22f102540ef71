------------------------- MODULE VoyagerControlPlane -------------------------
(***************************************************************************)
(* The Voyager control plane of one Minecraft bot: the tasks of one asyncio *)
(* process around the durable journal of CommandJournal.                   *)
(*                                                                         *)
(*   worker      VoyagerCommandScheduler calling UnifiedVoyagerController, *)
(*               which calls CommandExecutor for each step                 *)
(*   stop tasks  GlobalStopBarrier.stop, one task per stop command         *)
(*   terminator  VoyagerGateway.record_runtime_termination                 *)
(*   process     assembly, close, crash and restart                        *)
(*   runtime     the bot behind mc-mcp: it outlives the process            *)
(*                                                                         *)
(* An action is the code between two awaits that matter, or one journal    *)
(* transaction.  The journal and the runtime survive a crash; everything   *)
(* else is memory.                                                         *)
(***************************************************************************)
EXTENDS CommandJournal

CONSTANTS MaxSteps,   \* bound: runtime actions one command may need
          MaxRestarts \* bound: times the process comes up again

ASSUME BoundsAssumption == MaxSteps \in Nat \ {0} /\ MaxRestarts \in Nat

VARIABLES phase,      \* the process: down, recovering, up, closing
          restarts,   \* restarts so far
          controller, \* UnifiedVoyagerController.state
          activeId,   \* active_command_id
          activeStep, \* _active_correlation_id
          worker,     \* the scheduler's task
          stopper,    \* the task of each stop command
          terminator, \* the task of mc_connection disconnect / shutdown
          steps,      \* command_steps: the latest step of each command
          runtime     \* the bot: what it runs, and the receipts it kept

memory == <<controller, activeId, activeStep, worker, stopper, terminator>>
world == <<steps, runtime>>
processVars == <<phase, restarts>>
vars == <<journalVars, processVars, memory, world>>

(* A correlation names one step of one command; NoStep is None.            *)
Correlation == [command : Id, ordinal : 1..MaxSteps]
NoStep == [command |-> NoId, ordinal |-> 0]
StepOf(c) == [command |-> c, ordinal |-> steps[c].ordinal]

WorkerPcs == {"off", "poll", "picked", "enter", "decide", "reserved",
              "dispatched", "waiting", "answered", "reconcile", "report", "dead"}
StopPcs == {"new", "signal", "read", "decide", "claim", "recover", "settle",
            "release", "wait", "begin", "commit", "done", "failed"}
Outcomes == {"none", "success", "error", "cancelled", "unknown"}

IdleWorker == [pc |-> "poll", command |-> NoId, version |-> 0,
               cancelSeen |-> FALSE, outcome |-> "failed", reconcile |-> FALSE]
NewStopper == [pc |-> "new", target |-> NoId, version |-> 0,
               readable |-> FALSE, outcome |-> "failed", incomplete |-> FALSE]
NewTerminator == [pc |-> "idle", page |-> {}, command |-> NoId, version |-> 0]

TypeOK ==
  /\ JournalTypeOK
  /\ phase \in {"down", "recovering", "up", "closing"}
  /\ restarts \in 0..MaxRestarts
  /\ controller \in {"idle", "running", "reconciling", "quarantined"}
  /\ activeId \in Id \union {NoId}
  /\ activeStep \in Correlation \union {NoStep}
  /\ worker \in [pc : WorkerPcs, command : Id \union {NoId}, version : Nat,
                 cancelSeen : BOOLEAN, outcome : Terminal, reconcile : BOOLEAN]
  /\ stopper \in [Stop -> [pc : StopPcs, target : Id \union {NoId}, version : Nat,
                           readable : BOOLEAN, outcome : Terminal,
                           incomplete : BOOLEAN]]
  /\ terminator \in [pc : {"idle", "stopped", "loop", "claimed", "failed"},
                     page : SUBSET [command : Id, version : Nat],
                     command : Id \union {NoId}, version : Nat]
  /\ steps \in [Id -> [ordinal : 0..MaxSteps,
                       state : {"none", "reserved", "dispatched", "unknown", "settled"}]]
  /\ runtime \in [acting : Correlation \union {NoStep}, cancelled : BOOLEAN,
                  mode : {"ready", "settling", "quarantined"},
                  receipt : [Id -> Outcomes]]

(***************************************************************************)
(* The gateway and the mission coordinator.  VoyagerGateway.execute looks  *)
(* at the controller's state, but before the awaits that lead to the       *)
(* transaction, and a mission's next child is filed without that look: the *)
(* controller may be in any state when create_command commits.             *)
(***************************************************************************)
Submit(c) ==
  /\ phase \in {"up", "closing"}
  /\ CreateCommand(c)
  /\ UNCHANGED <<processVars, memory, world>>

QueueDeadline(c) == DeadlinePasses(c) /\ UNCHANGED <<processVars, memory, world>>

(***************************************************************************)
(* The worker: VoyagerCommandScheduler.run_once under its consumer lock.   *)
(* Each transition carries the version the worker last saw.                *)
(***************************************************************************)
WorkerAt(pc) == worker.pc = pc /\ phase \in {"up", "closing"}

WorkerGoes(pc) == worker' = [worker EXCEPT !.pc = pc]

(* Mutant: the deadline comparison is the wrong way round.                 *)
WorkerExpireEarly(c) ==
  /\ WorkerAt("poll")
  /\ c \in Queued \ late
  /\ Transition(c, commands[c].version, "failed")
  /\ UNCHANGED <<processVars, memory, world>>

(* expire_queued: a row that moved since it was read is skipped.           *)
WorkerExpire(c) ==
  /\ WorkerAt("poll")
  /\ c \in Queued \intersect late
  /\ Transition(c, commands[c].version, "failed")
  /\ UNCHANGED <<processVars, memory, world>>

WorkerPick(c) ==
  /\ WorkerAt("poll")
  /\ Eligible(c)
  /\ worker' = [IdleWorker EXCEPT !.pc = "picked", !.command = c,
                                  !.version = commands[c].version]
  /\ UNCHANGED <<journalVars, processVars, controller, activeId, activeStep,
                 stopper, terminator, world>>

(* The running snapshot handed to the consumer is the row as dispatched.   *)
WorkerDispatch ==
  /\ WorkerAt("picked")
  /\ Transition(worker.command, worker.version, "running")
  /\ worker' = [worker EXCEPT !.pc = "enter", !.version = @ + 1,
                  !.cancelSeen = commands[worker.command].cancelRequested]
  /\ UNCHANGED <<processVars, controller, activeId, activeStep, stopper,
                 terminator, world>>

(* StaleCommandVersionError before dispatch is an ordinary lost race.      *)
WorkerLosesRace ==
  /\ WorkerAt("picked")
  /\ ~Admits(commands[worker.command], worker.version, "running")
  /\ worker' = IdleWorker
  /\ UNCHANGED <<journalVars, processVars, controller, activeId, activeStep,
                 stopper, terminator, world>>

(* The consumer's finally block, then the outcome the scheduler will file. *)
AfterRun(state) == IF state = "quarantined" THEN state ELSE "idle"

Leave(state, outcome, reconcile) ==
  /\ controller' = AfterRun(state)
  /\ activeId' = NoId
  /\ activeStep' = NoStep
  /\ worker' = [worker EXCEPT !.pc = "report", !.outcome = outcome,
                              !.reconcile = reconcile]

WorkerEnter ==
  /\ WorkerAt("enter")
  /\ controller # "quarantined"
  /\ controller' = "running"
  /\ activeId' = worker.command
  /\ WorkerGoes("decide")
  /\ UNCHANGED <<journalVars, processVars, activeStep, stopper, terminator, world>>

(* RuntimeError("CONTROLLER_QUARANTINED") is filed as a plain failure.     *)
WorkerRefused ==
  /\ WorkerAt("enter")
  /\ controller = "quarantined"
  /\ worker' = [worker EXCEPT !.pc = "report", !.outcome = "failed"]
  /\ UNCHANGED <<journalVars, processVars, controller, activeId, activeStep,
                 stopper, terminator, world>>

(* The strategy completes and verifies, or anything known goes wrong       *)
(* between two steps: strategy failure, budget, deadline, verification.    *)
(* execute_step looks for a cancellation in the snapshot it was handed.    *)
KnownEnds == {"succeeded", "failed"} \union
             IF worker.cancelSeen THEN {"cancelled"} ELSE {}

WorkerFinish(outcome) ==
  /\ WorkerAt("decide")
  /\ outcome \in KnownEnds
  /\ Leave(controller, outcome, FALSE)
  /\ UNCHANGED <<journalVars, processVars, stopper, terminator, world>>

(* RUNTIME_INSTANCE_CHANGED: the outcome is not known and names no step,   *)
(* so reconcile_unknown gives up at once.                                  *)
WorkerMeetsNewRuntime ==
  /\ WorkerAt("decide")
  /\ ~worker.cancelSeen
  /\ Leave("quarantined", "blocked_unknown", TRUE)
  /\ UNCHANGED <<journalVars, processVars, stopper, terminator, world>>

WorkerReserve ==
  LET c == worker.command IN
  /\ WorkerAt("decide")
  /\ ~worker.cancelSeen
  /\ steps[c].ordinal < MaxSteps
  /\ steps' = [steps EXCEPT ![c] = [ordinal |-> @.ordinal + 1, state |-> "reserved"]]
  /\ runtime' = [runtime EXCEPT !.receipt[c] = "none"]
  /\ WorkerGoes("reserved")
  /\ UNCHANGED <<journalVars, processVars, controller, activeId, activeStep,
                 stopper, terminator>>

WorkerPersistDispatch ==
  /\ WorkerAt("reserved")
  /\ steps' = [steps EXCEPT ![worker.command].state = "dispatched"]
  /\ WorkerGoes("dispatched")
  /\ UNCHANGED <<journalVars, processVars, controller, activeId, activeStep,
                 stopper, terminator, runtime>>

(* The dispatch observer and the call to the runtime; a connected runtime  *)
(* runs one action at a time and refuses a second, and any after an action *)
(* that it could not bring to rest.                                        *)
RuntimeAccepts ==
  runtime.acting = NoStep /\ runtime.mode = "ready" /\ terminator.pc = "idle"

WorkerSend ==
  LET c == worker.command IN
  /\ WorkerAt("dispatched")
  /\ activeStep' = IF c = activeId THEN StepOf(c) ELSE activeStep
  /\ runtime' = IF RuntimeAccepts
                THEN [runtime EXCEPT !.acting = StepOf(c), !.cancelled = FALSE]
                ELSE runtime
  /\ WorkerGoes("waiting")
  /\ UNCHANGED <<journalVars, processVars, controller, activeId, stopper,
                 terminator, steps>>

WorkerReceives ==
  /\ WorkerAt("waiting")
  /\ runtime.receipt[worker.command] # "none"
  /\ WorkerGoes("answered")
  /\ UNCHANGED <<journalVars, processVars, controller, activeId, activeStep,
                 stopper, terminator, world>>

(* The step's outcome is not known: the controller starts reconciling.     *)
StepUnknown(state) ==
  /\ steps' = [steps EXCEPT ![worker.command].state = state]
  /\ controller' = "reconciling"
  /\ WorkerGoes("reconcile")

(* RUNTIME_RESPONSE_LOST: a timeout, a broken bridge, a refused action.    *)
WorkerLosesResponse ==
  /\ WorkerAt("waiting")
  /\ StepUnknown("unknown")
  /\ UNCHANGED <<journalVars, processVars, activeId, activeStep, stopper,
                 terminator, runtime>>

(* The receipt is invalid, overspent, not accepted, or does not explain    *)
(* the observation that follows it; or it was settled, but says itself     *)
(* that the outcome is not known.                                          *)
WorkerDoubtsReceipt ==
  /\ WorkerAt("answered")
  /\ \E state \in {"unknown", "settled"} : StepUnknown(state)
  /\ UNCHANGED <<journalVars, processVars, activeId, activeStep, stopper,
                 terminator, runtime>>

SettleStep(c) == steps' = [steps EXCEPT ![c].state = "settled"]

(* The strategy takes a success, or recovers from a settled error.         *)
WorkerAccepts ==
  /\ WorkerAt("answered")
  /\ runtime.receipt[worker.command] \in {"success", "error"}
  /\ SettleStep(worker.command)
  /\ WorkerGoes("decide")
  /\ UNCHANGED <<journalVars, processVars, controller, activeId, activeStep,
                 stopper, terminator, runtime>>

(* Mutant: the runtime's word for the outcome is filed as it is.           *)
WorkerEndsRaw ==
  LET receipt == runtime.receipt[worker.command] IN
  /\ WorkerAt("answered")
  /\ receipt \in {"error", "cancelled"}
  /\ SettleStep(worker.command)
  /\ Leave(controller, receipt, FALSE)
  /\ UNCHANGED <<journalVars, processVars, stopper, terminator, runtime>>

WorkerEnds ==
  LET receipt == runtime.receipt[worker.command] IN
  /\ WorkerAt("answered")
  /\ receipt \in {"error", "cancelled"}
  /\ SettleStep(worker.command)
  /\ Leave(controller, IF receipt = "cancelled" THEN receipt ELSE "failed", FALSE)
  /\ UNCHANGED <<journalVars, processVars, stopper, terminator, runtime>>

(* Any other exception after the answer is filed as a known failure, and   *)
(* the step keeps the state it had: the fresh observation cannot be        *)
(* fetched, or the enforced budget stop asks for a step state "failed"     *)
(* that the journal refuses.  A receipt that says unknown never gets here. *)
WorkerRaises ==
  /\ WorkerAt("answered")
  /\ runtime.receipt[worker.command] # "unknown"
  /\ Leave(controller, "failed", FALSE)
  /\ UNCHANGED <<journalVars, processVars, stopper, terminator, world>>

(***************************************************************************)
(* reconcile_unknown: cancel the persisted correlation if the runtime      *)
(* still runs it, wait, and decide from what the runtime retained.         *)
(***************************************************************************)
Reconciled(receipt) ==
  CASE receipt = "success" -> {"succeeded_reconciled", "failed_reconciled"}
    [] receipt = "error" -> {"failed_reconciled"}
    [] receipt = "cancelled" -> {"cancelled_reconciled"}
    [] OTHER -> {}

(* Mutant: a missing receipt is taken for a failure, and a retained one is  *)
(* believed, while the runtime still acts.                                 *)
VerdictsWhileActing(c) ==
  {"blocked_unknown"} \union
  IF steps[c].state = "reserved" THEN {"failed_reconciled"}
  ELSE Reconciled(runtime.receipt[c]) \union {"failed_reconciled"}

(* decide_recovery.  Insufficient evidence is always possible; a terminal  *)
(* decision needs an idle runtime and the receipt, or a step that was      *)
(* never sent.                                                             *)
Verdicts(c) ==
  {"blocked_unknown"} \union
  CASE steps[c].state = "reserved" -> {"failed_reconciled"}
    [] steps[c].state # "reserved" /\ runtime.acting = NoStep ->
         Reconciled(runtime.receipt[c])
    [] OTHER -> {}

Cancellable(step) == runtime.acting = step /\ runtime.mode # "settling"

CancelInRuntime(step) ==
  runtime' = [runtime EXCEPT !.cancelled = @ \/ Cancellable(step)]

StepAfter(c, verdict) ==
  steps' = IF verdict # "blocked_unknown" /\ steps[c].state # "reserved"
           THEN [steps EXCEPT ![c].state = "settled"] ELSE steps

WorkerReconcileCancel ==
  /\ WorkerAt("reconcile")
  /\ Cancellable(StepOf(worker.command))
  /\ ~runtime.cancelled
  /\ CancelInRuntime(StepOf(worker.command))
  /\ UNCHANGED <<journalVars, processVars, memory, steps>>

WorkerReconcile(verdict) ==
  /\ WorkerAt("reconcile")
  /\ verdict \in Verdicts(worker.command)
  /\ StepAfter(worker.command, verdict)
  /\ Leave(IF verdict = "blocked_unknown" THEN "quarantined" ELSE controller,
           verdict, TRUE)
  /\ UNCHANGED <<journalVars, processVars, stopper, terminator, runtime>>

(* The scheduler files the outcome: through RECONCILING when the outcome   *)
(* had to be reconciled, then the terminal state.  _run has no handler: a  *)
(* stale version here would end the worker task for good.                  *)
WorkerReport ==
  LET target == IF worker.reconcile THEN "reconciling" ELSE worker.outcome IN
  /\ WorkerAt("report")
  /\ IF Admits(commands[worker.command], worker.version, target)
     THEN /\ Transition(worker.command, worker.version, target)
          /\ worker' = IF worker.reconcile
                       THEN [worker EXCEPT !.version = @ + 1, !.reconcile = FALSE]
                       ELSE IdleWorker
     ELSE WorkerGoes("dead") /\ UNCHANGED journalVars
  /\ UNCHANGED <<processVars, controller, activeId, activeStep, stopper,
                 terminator, world>>

(***************************************************************************)
(* A stop task: GlobalStopBarrier.stop.                                    *)
(***************************************************************************)
StopAt(s, pc) == stopper[s].pc = pc /\ phase \in {"up", "closing"}

StopGoes(s, pc) == stopper' = [stopper EXCEPT ![s].pc = pc]

StopAnswers(s, pc, incomplete) ==
  stopper' = [stopper EXCEPT ![s].pc = pc, ![s].incomplete = incomplete]

StopBegin(s, target) ==
  /\ StopAt(s, "new")
  /\ ApplyStopBarrier(s, target)
  /\ stopper' = [stopper EXCEPT ![s] =
       [NewStopper EXCEPT !.pc = IF target = NoId THEN "begin" ELSE "signal",
                          !.target = target]]
  /\ UNCHANGED <<processVars, controller, activeId, activeStep, worker,
                 terminator, world>>

(* signal_cancel of a healthy controller cancels the correlation it last   *)
(* dispatched, which may already be over; the call itself may raise.       *)
StopSignal(s) ==
  /\ StopAt(s, "signal")
  /\ controller # "quarantined"
  /\ IF stopper[s].target = activeId /\ activeStep # NoStep
     THEN \/ CancelInRuntime(activeStep) /\ StopGoes(s, "wait")
          \/ StopGoes(s, "failed") /\ UNCHANGED runtime
     ELSE StopGoes(s, "wait") /\ UNCHANGED runtime
  /\ UNCHANGED <<journalVars, processVars, controller, activeId, activeStep,
                 worker, terminator, steps>>

StopFindsQuarantine(s) ==
  /\ StopAt(s, "signal")
  /\ controller = "quarantined"
  /\ StopGoes(s, "read")
  /\ UNCHANGED <<journalVars, processVars, controller, activeId, activeStep,
                 worker, terminator, world>>

(* get_command and latest_step, read before the state is changed.          *)
StopRead(s) ==
  LET c == stopper[s].target IN
  /\ StopAt(s, "read")
  /\ stopper' = [stopper EXCEPT ![s] =
       [@ EXCEPT !.pc = "decide", !.version = commands[c].version,
                 !.readable = /\ commands[c].state = "blocked_unknown"
                              /\ steps[c].ordinal > 0]]
  /\ UNCHANGED <<journalVars, processVars, controller, activeId, activeStep,
                 worker, terminator, world>>

StopDecide(s) ==
  /\ StopAt(s, "decide")
  /\ IF stopper[s].readable
     THEN controller' = "reconciling" /\ StopGoes(s, "claim")
     ELSE StopAnswers(s, "begin", TRUE) /\ UNCHANGED controller
  /\ UNCHANGED <<journalVars, processVars, activeId, activeStep, worker,
                 terminator, world>>

(* A stale claim raises out of stop(): the controller keeps the state it   *)
(* was given, and the stop command stays queued.                           *)
StopTransition(s, target, next) ==
  IF Admits(commands[stopper[s].target], stopper[s].version, target)
  THEN /\ Transition(stopper[s].target, stopper[s].version, target)
       /\ stopper' = [stopper EXCEPT ![s].pc = next, ![s].version = @ + 1]
  ELSE StopGoes(s, "failed") /\ UNCHANGED journalVars

StopClaim(s) ==
  /\ StopAt(s, "claim")
  /\ StopTransition(s, "reconciling", "recover")
  /\ UNCHANGED <<processVars, controller, activeId, activeStep, worker,
                 terminator, world>>

StopRecoverCancel(s) ==
  /\ StopAt(s, "recover")
  /\ Cancellable(StepOf(stopper[s].target))
  /\ ~runtime.cancelled
  /\ CancelInRuntime(StepOf(stopper[s].target))
  /\ UNCHANGED <<journalVars, processVars, memory, steps>>

StopRecover(s, verdict) ==
  /\ StopAt(s, "recover")
  /\ verdict \in Verdicts(stopper[s].target)
  /\ StepAfter(stopper[s].target, verdict)
  /\ stopper' = [stopper EXCEPT ![s].pc = "settle", ![s].outcome = verdict]
  /\ UNCHANGED <<journalVars, processVars, controller, activeId, activeStep,
                 worker, terminator, runtime>>

StopSettle(s) ==
  /\ StopAt(s, "settle")
  /\ StopTransition(s, stopper[s].outcome, "release")
  /\ UNCHANGED <<processVars, controller, activeId, activeStep, worker,
                 terminator, world>>

StopRelease(s) ==
  /\ StopAt(s, "release")
  /\ IF stopper[s].outcome = "blocked_unknown"
     THEN controller' = "quarantined" /\ StopAnswers(s, "begin", TRUE)
     ELSE controller' = "idle" /\ StopGoes(s, "wait")
  /\ UNCHANGED <<journalVars, processVars, activeId, activeStep, worker,
                 terminator, world>>

(* Mutant: any terminal state counts as a completed stop.                  *)
StopWaitAnyEnd(s) ==
  LET state == commands[stopper[s].target].state IN
  /\ StopAt(s, "wait")
  /\ StopAnswers(s, "begin", state \notin Terminal)
  /\ UNCHANGED <<journalVars, processVars, controller, activeId, activeStep,
                 worker, terminator, world>>

(* _wait_for_active_terminal polls until the row is terminal or the        *)
(* completion timeout has passed.                                          *)
StopWait(s) ==
  LET state == commands[stopper[s].target].state IN
  /\ StopAt(s, "wait")
  /\ \/ state \in Terminal /\ StopAnswers(s, "begin", state = "blocked_unknown")
     \/ state \notin Terminal /\ StopAnswers(s, "begin", TRUE)
  /\ UNCHANGED <<journalVars, processVars, controller, activeId, activeStep,
                 worker, terminator, world>>

(* Mutant: the stop command is started and its outcome forgotten.          *)
StopRunsOnly(s) ==
  /\ StopAt(s, "begin")
  /\ IF commands[s].state = "queued"
     THEN Transition(s, commands[s].version, "running")
     ELSE UNCHANGED journalVars
  /\ StopGoes(s, "done")
  /\ UNCHANGED <<processVars, controller, activeId, activeStep, worker,
                 terminator, world>>

(* _commit_stop_outcome: QUEUED, RUNNING and the outcome are two           *)
(* transactions of the stop command's own row.                             *)
StopRuns(s) ==
  /\ StopAt(s, "begin")
  /\ IF commands[s].state = "queued"
     THEN /\ Transition(s, commands[s].version, "running")
          /\ StopGoes(s, "commit")
     ELSE StopGoes(s, "done") /\ UNCHANGED journalVars
  /\ UNCHANGED <<processVars, controller, activeId, activeStep, worker,
                 terminator, world>>

StopCommits(s) ==
  LET target == IF stopper[s].incomplete THEN "failed" ELSE "succeeded" IN
  /\ StopAt(s, "commit")
  /\ IF Admits(commands[s], 1, target)
     THEN Transition(s, 1, target) /\ StopGoes(s, "done")
     ELSE StopGoes(s, "failed") /\ UNCHANGED journalVars
  /\ UNCHANGED <<processVars, controller, activeId, activeStep, worker,
                 terminator, world>>

(* The tool call that carries a stop is cut off after 30 seconds, at       *)
(* whatever await the stop has reached.                                    *)
StopTimesOut(s) ==
  /\ phase \in {"up", "closing"}
  /\ stopper[s].pc \notin {"new", "done", "failed"}
  /\ StopGoes(s, "failed")
  /\ UNCHANGED <<journalVars, processVars, controller, activeId, activeStep,
                 worker, terminator, world>>

(***************************************************************************)
(* mc_connection disconnect and shutdown: after a stop that could not      *)
(* complete, the owner ends the bot, and record_runtime_termination closes *)
(* the commands whose outcome is still unknown.                            *)
(***************************************************************************)
BotStopped(s) ==
  /\ phase = "up"
  /\ terminator.pc = "idle"
  /\ StopAt(s, "done") /\ stopper[s].incomplete
  /\ runtime' = [runtime EXCEPT !.acting = NoStep, !.cancelled = FALSE,
                                !.mode = "ready"]
  /\ terminator' = [terminator EXCEPT !.pc = "stopped"]
  /\ UNCHANGED <<journalVars, processVars, controller, activeId, activeStep,
                 worker, stopper, steps>>

Terminating(pc) == terminator.pc = pc /\ phase \in {"up", "closing"}

(* The projection page is read once; its versions are the ones claimed.    *)
TerminationReads ==
  /\ Terminating("stopped")
  /\ terminator' = [terminator EXCEPT !.pc = "loop", !.page =
       {[command |-> c, version |-> commands[c].version] :
          c \in {d \in Blocked : steps[d].ordinal > 0}}]
  /\ UNCHANGED <<journalVars, processVars, controller, activeId, activeStep,
                 worker, stopper, world>>

TerminationClaims(entry) ==
  /\ Terminating("loop")
  /\ entry \in terminator.page
  /\ IF Admits(commands[entry.command], entry.version, "reconciling")
     THEN /\ Transition(entry.command, entry.version, "reconciling")
          /\ terminator' = [pc |-> "claimed", page |-> terminator.page \ {entry},
                            command |-> entry.command, version |-> entry.version + 1]
     ELSE terminator' = [terminator EXCEPT !.pc = "failed"] /\ UNCHANGED journalVars
  /\ UNCHANGED <<processVars, controller, activeId, activeStep, worker,
                 stopper, world>>

TerminationCommits ==
  /\ Terminating("claimed")
  /\ IF Admits(commands[terminator.command], terminator.version, "cancelled")
     THEN /\ Transition(terminator.command, terminator.version, "cancelled")
          /\ terminator' = [terminator EXCEPT !.pc = "loop"]
     ELSE terminator' = [terminator EXCEPT !.pc = "failed"] /\ UNCHANGED journalVars
  /\ UNCHANGED <<processVars, controller, activeId, activeStep, worker,
                 stopper, world>>

TerminationTimesOut ==
  /\ phase \in {"up", "closing"}
  /\ terminator.pc \in {"stopped", "loop", "claimed"}
  /\ terminator' = [terminator EXCEPT !.pc = "failed"]
  /\ UNCHANGED <<journalVars, processVars, controller, activeId, activeStep,
                 worker, stopper, world>>

(***************************************************************************)
(* The process: close, crash, and the assembly that recovers the journal   *)
(* before it starts a worker.                                              *)
(***************************************************************************)
Executing == {"decide", "reserved", "dispatched", "waiting", "answered", "reconcile"}

Close ==
  /\ phase = "up"
  /\ phase' = "closing"
  /\ BeginShutdown
  /\ UNCHANGED <<restarts, memory, world>>

(* scheduler.stop cancels the task wherever it is; no outcome is filed.    *)
CancelWorker ==
  /\ phase = "closing"
  /\ worker.pc # "off"
  /\ worker' = [IdleWorker EXCEPT !.pc = "off"]
  /\ controller' = IF worker.pc \in Executing THEN AfterRun(controller) ELSE controller
  /\ activeId' = NoId
  /\ activeStep' = NoStep
  /\ UNCHANGED <<journalVars, processVars, stopper, terminator, world>>

ForgetMemory ==
  /\ controller' = "idle"
  /\ activeId' = NoId
  /\ activeStep' = NoStep
  /\ worker' = [IdleWorker EXCEPT !.pc = "off"]
  /\ stopper' = [s \in Stop |-> NewStopper]
  /\ terminator' = NewTerminator

(* Mutant: recovery overlooks commands that were being reconciled.         *)
OpenStatesNarrow == {"queued", "running"}

OpenStates == {"queued", "running", "reconciling"}

FinishClose ==
  /\ phase = "closing"
  /\ worker.pc = "off"
  /\ \A c \in Execute : commands[c].state \notin OpenStates
  /\ phase' = "down"
  /\ ForgetMemory
  /\ UNCHANGED <<journalVars, restarts, world>>

Crash ==
  /\ phase # "down"
  /\ phase' = "down"
  /\ ForgetMemory
  /\ UNCHANGED <<journalVars, restarts, world>>

Boot ==
  /\ phase = "down"
  /\ restarts < MaxRestarts
  /\ phase' = "recovering"
  /\ restarts' = restarts + 1
  /\ UNCHANGED <<journalVars, memory, world>>

(* Mutant: close() recovers the journal before it stops the scheduler.     *)
SweepingEarly == phase \in {"recovering", "closing"}

(* recover_startup runs at assembly, and again in close() after the worker *)
(* was cancelled.  A row that a stop task moves meanwhile makes close()    *)
(* raise; it stays closing, and a later close() starts over.               *)
Sweeping == phase = "recovering" \/ (phase = "closing" /\ worker.pc = "off")

Recover(c) ==
  /\ Sweeping
  /\ RecoverRow(c)
  /\ UNCHANGED <<processVars, memory, world>>

(* The session opens only when no outcome is unknown; otherwise the        *)
(* controller starts quarantined.  Either way the worker starts.           *)
FinishRecovery ==
  /\ phase = "recovering"
  /\ \A c \in Id : commands[c].state \notin OpenStates
  /\ Quarantine \/ BeginSession
  /\ controller' = IF Blocked = {} THEN "idle" ELSE "quarantined"
  /\ worker' = IdleWorker
  /\ phase' = "up"
  /\ UNCHANGED <<restarts, activeId, activeStep, stopper, terminator, world>>

(***************************************************************************)
(* The runtime ends the action it runs, or files a receipt without having  *)
(* brought the bot to rest, and takes nothing more.                        *)
(***************************************************************************)
RuntimeFinish(outcome) ==
  /\ runtime.acting # NoStep
  /\ runtime.mode # "settling"
  /\ outcome \in {"success", "error", "unknown"} \union
                 IF runtime.cancelled THEN {"cancelled"} ELSE {}
  /\ runtime' = [runtime EXCEPT !.acting = NoStep, !.cancelled = FALSE,
                                !.receipt[runtime.acting.command] = outcome]
  /\ UNCHANGED <<journalVars, processVars, memory, steps>>

(* CANCEL_SETTLEMENT_TIMEOUT, ACTION_SETTLEMENT_TIMEOUT.                   *)
RuntimeGivesUp ==
  /\ runtime.acting # NoStep
  /\ runtime.mode # "settling"
  /\ runtime' = [runtime EXCEPT !.mode = "settling",
                                !.receipt[runtime.acting.command] = "unknown"]
  /\ UNCHANGED <<journalVars, processVars, memory, steps>>

RuntimeSettles ==
  /\ runtime.mode = "settling"
  /\ runtime' = [runtime EXCEPT !.mode = "quarantined", !.acting = NoStep,
                                !.cancelled = FALSE]
  /\ UNCHANGED <<journalVars, processVars, memory, steps>>

(***************************************************************************)
(* The specification.                                                      *)
(***************************************************************************)
Init ==
  /\ JournalInit
  /\ phase = "up" /\ restarts = 0
  /\ controller = "idle" /\ activeId = NoId /\ activeStep = NoStep
  /\ worker = IdleWorker
  /\ stopper = [s \in Stop |-> NewStopper]
  /\ terminator = NewTerminator
  /\ steps = [c \in Id |-> [ordinal |-> 0, state |-> "none"]]
  /\ runtime = [acting |-> NoStep, cancelled |-> FALSE, mode |-> "ready",
                receipt |-> [c \in Id |-> "none"]]

WorkerNext ==
  \/ \E c \in Id : WorkerExpire(c) \/ WorkerPick(c)
  \/ \E t \in Terminal : WorkerFinish(t) \/ WorkerReconcile(t)
  \/ WorkerDispatch \/ WorkerLosesRace \/ WorkerEnter \/ WorkerRefused
  \/ WorkerMeetsNewRuntime \/ WorkerReserve \/ WorkerPersistDispatch \/ WorkerSend \/ WorkerReceives
  \/ WorkerLosesResponse \/ WorkerDoubtsReceipt \/ WorkerAccepts \/ WorkerEnds
  \/ WorkerRaises \/ WorkerReconcileCancel \/ WorkerReport

StopNext(s) ==
  \/ StopSignal(s) \/ StopFindsQuarantine(s) \/ StopRead(s) \/ StopDecide(s)
  \/ StopClaim(s) \/ StopRecoverCancel(s)
  \/ \E t \in Terminal : StopRecover(s, t)
  \/ StopSettle(s) \/ StopRelease(s) \/ StopWait(s) \/ StopRuns(s) \/ StopCommits(s)

GatewayNext ==
  \/ \E c \in Id : Submit(c)
  \/ \E entry \in terminator.page : TerminationClaims(entry)
  \/ \E s \in Stop : BotStopped(s) \/ \E t \in Id \union {NoId} : StopBegin(s, t)
                      \/ StopTimesOut(s)
  \/ TerminationReads \/ TerminationCommits \/ TerminationTimesOut

ProcessNext ==
  \/ Close \/ CancelWorker \/ FinishClose \/ Crash \/ Boot \/ FinishRecovery
  \/ \E c \in Id : Recover(c) \/ QueueDeadline(c)

RuntimeNext == (\E o \in Outcomes : RuntimeFinish(o)) \/ RuntimeGivesUp \/ RuntimeSettles

Next == WorkerNext \/ (\E s \in Stop : StopNext(s)) \/ GatewayNext \/ ProcessNext
        \/ RuntimeNext

Spec == Init /\ [][Next]_vars

(* asyncio runs every ready task: the worker and the stop tasks keep       *)
(* moving.  Every wait of theirs has a timeout, so nothing is assumed of   *)
(* the runtime.                                                            *)
Fairness == WF_vars(WorkerNext) /\ \A s \in Stop : WF_vars(StopNext(s))

FairSpec == Spec /\ Fairness

(***************************************************************************)
(* Properties.                                                             *)
(***************************************************************************)
(* No compare-and-set of the worker is ever lost once it runs a command,   *)
(* so the worker task, whose loop has no handler, is never killed by one:  *)
(* the stop barrier flags a running row without touching its version, and  *)
(* restart recovery only runs when there is no worker.                     *)
WorkerSurvives == worker.pc # "dead"

WorkerOwns(c) == /\ worker.pc \in Executing \union {"enter", "report"}
                 /\ worker.command = c
                 /\ worker.version = commands[c].version

StopOwns(s, c) == /\ stopper[s].pc \in {"recover", "settle"}
                  /\ stopper[s].target = c
                  /\ stopper[s].version = commands[c].version

TerminatorOwns(c) == /\ terminator.pc = "claimed"
                     /\ terminator.command = c
                     /\ terminator.version = commands[c].version

(* A claim whose task raised or was cut off: nobody settles it before the  *)
(* next restart.                                                           *)
Abandoned(c) ==
  \/ /\ terminator.pc = "failed"
     /\ terminator.command = c
     /\ terminator.version = commands[c].version
  \/ \E s \in Stop : /\ stopper[s].pc = "failed"
                     /\ stopper[s].target = c
                     /\ stopper[s].version = commands[c].version

(* Every execute command that is running or being reconciled has a live    *)
(* task that holds its current version and will file its end; only a       *)
(* reconciliation that was itself cut off leaves one behind, and never a   *)
(* running one.                                                            *)
ActiveRowsHaveOwners ==
  phase = "up" =>
    \A c \in Execute :
      /\ commands[c].state = "running" => WorkerOwns(c)
      /\ commands[c].state = "reconciling" =>
           \/ WorkerOwns(c) \/ TerminatorOwns(c) \/ Abandoned(c)
           \/ \E s \in Stop : StopOwns(s, c)

(* Once a command is filed as ended, the bot is not still acting for it,   *)
(* through lost answers, reconciliation, restarts and terminations.        *)
EndedMeansQuiet ==
  \A c \in Execute : commands[c].state \in Settled => runtime.acting.command # c

(* A stop that was filed as succeeded left the command it signalled ended, *)
(* with a known outcome.                                                   *)
StopTellsTheTruth ==
  \A s \in Stop :
    /\ stopper[s].pc = "done"
    /\ commands[s].state = "succeeded"
    /\ stopper[s].target # NoId
    => commands[stopper[s].target].state \in Settled

(* The bot is only set to work for a command that is filed as running:     *)
(* while the worker acts, no stop, termination, timeout, close or restart  *)
(* has given its command another state.                                    *)
ActsOnlyWhileRunning ==
  [][runtime'.acting # runtime.acting /\ runtime'.acting # NoStep
       => commands[runtime'.acting.command].state = "running"]_vars

(* Commands begin in the order they were accepted, among those still in    *)
(* time, although the choice and the start are two transactions.           *)
StartsInOrder ==
  [][\A c \in Execute : commands[c].state = "queued" /\ commands'[c].state = "running"
       => \A d \in Queued \ late : commands[c].sequence <= commands[d].sequence]_vars

(* The executor refuses to dispatch a step of a command whose cancellation *)
(* was requested before the dispatch.                                      *)
NoStepAfterCancel ==
  [][\A c \in Execute : steps'[c].ordinal > steps[c].ordinal
       => ~commands[c].cancelRequested]_vars

(* A quarantine blocks execution: the bot is given no new action while the *)
(* outcome of another command's action is unknown.                         *)
QuarantineBlocksExecution ==
  [][\A c \in Execute : runtime'.acting # runtime.acting /\ runtime'.acting.command = c
       => Blocked \ {c} = {}]_vars

(* While the process is up, a command that was started or accepted does    *)
(* not stay queued or running for ever.                                    *)
CommandsMove ==
  \A c \in Execute : commands[c].state \in {"queued", "running"}
                      ~> \/ commands[c].state \notin {"queued", "running"}
                         \/ phase # "up"

(* While the process is up, an accepted stop files its outcome, unless the *)
(* stop task itself raised.                                                *)
StopsAnswer ==
  \A s \in Stop : commands[s].state \in {"queued", "running"}
                   ~> \/ commands[s].state \in Terminal
                      \/ stopper[s].pc = "failed"
                      \/ phase # "up"
=============================================================================
