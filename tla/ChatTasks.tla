------------------------------ MODULE ChatTasks ------------------------------
(***************************************************************************)
(* The tasks that work on the command inbox for a chat:                    *)
(*                                                                         *)
(*   worker      one client event: a text turn from accept to its filing,  *)
(*               or a sandbox request and the task it starts                *)
(*   decider     tool:approval_decide, and the approval timeout loop       *)
(*   process     startup reconciliation, shutdown, crash                   *)
(*   checkpoint  the durable graph thread of a turn, in another store      *)
(*                                                                         *)
(* on_text_command's lock is per conversation; a livestream key is reached  *)
(* from several conversations, so the lock is left out and only accept     *)
(* stands between two workers of one key.  runs and toolRuns count what    *)
(* was done in the world under a row.                                      *)
(***************************************************************************)
EXTENDS CommandInbox

CONSTANTS Sandbox,  \* the keys of kind chat.sandbox; the others are chat.public
          Worker,   \* client events in flight
          Operator, \* operators deciding approvals
          Timer,    \* _approval_timeout_loop
          NoKey

ASSUME SandboxAssumption == Sandbox \subseteq Key
ASSUME DeciderAssumption == Timer \notin Operator
ASSUME NoKeyAssumption == NoKey \notin Key

VARIABLES phase,      \* the process: starting, up, closing, closed, down
          worker,
          decider,
          checkpoint, \* graph threads that hold an unanswered interrupt
          runs,       \* executions begun under the present row
          toolRuns    \* approved tool batches executed under the present row

taskVars == <<worker, decider>>
effects == <<checkpoint, runs, toolRuns>>
vars == <<inboxVars, phase, taskVars, effects>>

Turn == Key \ Sandbox
Decider == Operator \union {Timer}

NoWorker == [pc |-> "idle", key |-> NoKey, outcome |-> "failed",
             caught |-> FALSE, asked |-> FALSE]
NoDecision == [pc |-> "idle", key |-> NoKey, approved |-> FALSE,
               outcome |-> "failed", caught |-> FALSE]

Filed == {"succeeded", "failed", "cancelled", "waiting_approval"}

TypeOK ==
  /\ InboxTypeOK
  /\ phase \in {"starting", "up", "closing", "closed", "down"}
  /\ worker \in [Worker -> [pc : {"idle", "accepted", "run", "file"},
                            key : Key \union {NoKey}, outcome : Filed,
                            caught : BOOLEAN, asked : BOOLEAN]]
  /\ decider \in [Decider -> [pc : {"idle", "claim", "resume", "answer", "file", "dead"},
                              key : Key \union {NoKey}, approved : BOOLEAN,
                              outcome : Filed, caught : BOOLEAN]]
  /\ checkpoint \subseteq Turn
  /\ runs \in [Key -> Nat]
  /\ toolRuns \in [Key -> Nat]

Alive == phase \in {"up", "closing", "closed"}

(* While it shuts down, an operation can find the connection closed under  *)
(* it, or reopen it first (Reopen).                                        *)
Raises == ~Ready

WorkerAt(w, pc) == worker[w].pc = pc /\ Alive
DeciderAt(d, pc) == decider[d].pc = pc /\ Alive
WorkerEnds(w) == worker' = [worker EXCEPT ![w] = NoWorker]

(***************************************************************************)
(* A worker.                                                               *)
(***************************************************************************)
Submit(w, k) ==
  /\ WorkerAt(w, "idle")
  /\ Accept(k)
  /\ worker' = [worker EXCEPT ![w] = [NoWorker EXCEPT !.pc = "accepted", !.key = k]]
  /\ UNCHANGED <<phase, decider, effects>>

(* mark_processing's answer is not looked at: the work begins whatever the *)
(* row says.  If it raises, the accepted row has no worker any more.       *)
Begin(w) ==
  LET k == worker[w].key IN
  /\ WorkerAt(w, "accepted")
  /\ Transition(k, {"accepted"}, "processing")
  /\ runs' = [runs EXCEPT ![k] = @ + 1]
  /\ worker' = [worker EXCEPT ![w].pc = "run"]
  /\ UNCHANGED <<phase, decider, checkpoint, toolRuns>>

BeginRaises(w) ==
  /\ WorkerAt(w, "accepted")
  /\ Raises
  /\ WorkerEnds(w)
  /\ UNCHANGED <<inboxVars, phase, decider, effects>>

(* The work is over.  caught: an exception of this filing is filed as a    *)
(* failure.  A meme turn is filed outside the try, and an exception that   *)
(* is already being handled is not handled again.                          *)
Finish(w, outcome, caught) ==
  /\ WorkerAt(w, "run")
  /\ outcome \in {"succeeded", "failed"}
  /\ worker[w].key \in Sandbox => caught = (outcome = "succeeded")
  /\ worker' = [worker EXCEPT ![w].pc = "file", ![w].outcome = outcome,
                              ![w].caught = caught]
  /\ UNCHANGED <<inboxVars, phase, decider, effects>>

(* A meme invocation, or the sandbox's configuration, raises outside any   *)
(* try: the row stays processing until the next start.                     *)
Abandon(w) ==
  /\ WorkerAt(w, "run")
  /\ WorkerEnds(w)
  /\ UNCHANGED <<inboxVars, phase, decider, effects>>

(* The graph stops at a tool that needs approval, its thread on record.    *)
Interrupt(w) ==
  /\ WorkerAt(w, "run")
  /\ worker[w].key \in Turn
  /\ checkpoint' = checkpoint \union {worker[w].key}
  /\ worker' = [worker EXCEPT ![w].pc = "file", ![w].outcome = "waiting_approval",
                              ![w].caught = TRUE]
  /\ UNCHANGED <<inboxVars, phase, decider, runs, toolRuns>>

Sources(outcome) == IF outcome = "waiting_approval" THEN {"processing"} ELSE Active

File(w) ==
  /\ WorkerAt(w, "file")
  /\ Transition(worker[w].key, Sources(worker[w].outcome), worker[w].outcome)
  /\ WorkerEnds(w)
  /\ UNCHANGED <<phase, decider, effects>>

FileRaises(w) ==
  /\ WorkerAt(w, "file")
  /\ Raises
  /\ IF worker[w].caught
     THEN worker' = [worker EXCEPT ![w].outcome = "failed", ![w].caught = FALSE]
     ELSE WorkerEnds(w)
  /\ UNCHANGED <<inboxVars, phase, decider, effects>>

(* on_sandbox_cancel: request_cancel must commit before the task is        *)
(* cancelled, some awaits later.                                           *)
AskCancel(w) ==
  /\ worker[w].pc \in {"run", "file"} /\ Alive
  /\ worker[w].key \in Sandbox
  /\ Ready
  /\ ~worker[w].asked
  /\ worker' = [worker EXCEPT ![w].asked = TRUE]
  /\ UNCHANGED <<inboxVars, phase, decider, effects>>

(* The handler of CancelledError files the cancellation.                   *)
FileCancellation(w) ==
  worker' = [worker EXCEPT ![w].pc = "file", ![w].outcome = "cancelled",
                           ![w].caught = FALSE, ![w].asked = FALSE]

CancelWork(w) ==
  /\ WorkerAt(w, "run")
  /\ worker[w].asked
  /\ FileCancellation(w)
  /\ UNCHANGED <<inboxVars, phase, decider, effects>>

(* The task is filing its outcome: it waits for the lock, or is inside.    *)
(* A cancellation is handled around the success only.                      *)
CancelFiling(w) ==
  /\ WorkerAt(w, "file")
  /\ worker[w].asked
  /\ \/ UNCHANGED inboxVars
     \/ CutOff(worker[w].key, Active, worker[w].outcome)
  /\ IF worker[w].caught THEN FileCancellation(w) ELSE WorkerEnds(w)
  /\ UNCHANGED <<phase, decider, effects>>

(***************************************************************************)
(* A decision on an approval: the list of pending approvals is read        *)
(* before the row is claimed; the timeout loop takes those whose time has  *)
(* passed, and an operator's late approval counts as a rejection.          *)
(***************************************************************************)
Chosen(d, k, approved) ==
  decider' = [decider EXCEPT ![d] = [NoDecision EXCEPT !.pc = "claim", !.key = k,
                                                          !.approved = approved]]

(* Mutant: nobody watches the time of a pending approval.                  *)
ChooseByHand(d, k, approved) ==
  /\ DeciderAt(d, "idle")
  /\ d # Timer /\ conn # "closed" /\ rows[k] = "waiting_approval"
  /\ Chosen(d, k, approved)
  /\ UNCHANGED <<inboxVars, phase, worker, effects>>

Choose(d, k, approved) ==
  /\ DeciderAt(d, "idle")
  /\ d = Timer => phase = "up" /\ ~approved
  /\ conn # "closed"
  /\ rows[k] = "waiting_approval"
  /\ Chosen(d, k, approved)
  /\ UNCHANGED <<inboxVars, phase, worker, effects>>

(* An exception ends an operator's event, and the timeout loop for good.   *)
DeciderRaises(d) ==
  decider' = [decider EXCEPT ![d] = [NoDecision EXCEPT
                !.pc = IF d = Timer THEN "dead" ELSE "idle"]]

(* Mutant: resume_after_approval does not insist on its source status.     *)
ClaimFrom(k) == TRUE

Claimable(k) == rows[k] = "waiting_approval"

Claim(d) ==
  LET k == decider[d].key IN
  /\ DeciderAt(d, "claim")
  /\ Ready
  /\ IF Claimable(k)
     THEN /\ Transition(k, {"waiting_approval"}, "processing")
          /\ decider' = [decider EXCEPT ![d].pc = "resume"]
     ELSE /\ decider' = [decider EXCEPT ![d] = NoDecision]
          /\ UNCHANGED inboxVars
  /\ UNCHANGED <<phase, worker, effects>>

ClaimRaises(d) ==
  /\ DeciderAt(d, "claim")
  /\ Raises
  /\ DeciderRaises(d)
  /\ UNCHANGED <<inboxVars, phase, worker, effects>>

(* resume_checkpoint runs the approved batch before the graph goes on.     *)
RunTools(d) ==
  LET k == decider[d].key IN
  /\ DeciderAt(d, "resume")
  /\ decider[d].approved
  /\ k \in checkpoint
  /\ toolRuns' = [toolRuns EXCEPT ![k] = @ + 1]
  /\ decider' = [decider EXCEPT ![d].pc = "answer"]
  /\ UNCHANGED <<inboxVars, phase, worker, checkpoint, runs>>

Outcome(d, outcome, caught) ==
  decider' = [decider EXCEPT ![d].pc = "file", ![d].outcome = outcome,
                             ![d].caught = caught]

(* The resumed graph ends, or stops at the next tool that needs approval:  *)
(* its answer is filed as the result either way.                           *)
Answer(d) ==
  /\ \/ DeciderAt(d, "answer")
     \/ DeciderAt(d, "resume") /\ ~decider[d].approved /\ decider[d].key \in checkpoint
  /\ checkpoint' \in {checkpoint, checkpoint \ {decider[d].key}}
  /\ IF decider[d].approved
     THEN \E outcome \in {"succeeded", "failed"} : Outcome(d, outcome, TRUE)
     ELSE Outcome(d, "cancelled", TRUE)
  /\ UNCHANGED <<inboxVars, phase, worker, runs, toolRuns>>

(* The orchestrator or the resume raises: no checkpoint, a changed         *)
(* configuration, a lost provider.                                         *)
ResumeRaises(d) ==
  /\ DeciderAt(d, "resume") \/ DeciderAt(d, "answer")
  /\ Outcome(d, "failed", FALSE)
  /\ UNCHANGED <<inboxVars, phase, worker, effects>>

FileDecision(d) ==
  /\ DeciderAt(d, "file")
  /\ Transition(decider[d].key, Active, decider[d].outcome)
  /\ decider' = [decider EXCEPT ![d] = NoDecision]
  /\ UNCHANGED <<phase, worker, effects>>

FileDecisionRaises(d) ==
  /\ DeciderAt(d, "file")
  /\ Raises
  /\ IF decider[d].caught THEN Outcome(d, "failed", FALSE) ELSE DeciderRaises(d)
  /\ UNCHANGED <<inboxVars, phase, worker, effects>>

(***************************************************************************)
(* The process.                                                            *)
(***************************************************************************)
Held == {worker[w].key : w \in Worker} \union {decider[d].key : d \in Decider}

Forget(expired) ==
  /\ runs' = [k \in Key |-> IF k \in expired THEN 0 ELSE runs[k]]
  /\ toolRuns' = [k \in Key |-> IF k \in expired THEN 0 ELSE toolRuns[k]]

(* The cleanup loop.  No task lives as long as the retention of its row.   *)
Retain(expired) ==
  /\ phase = "up"
  /\ expired \intersect Held = {}
  /\ CleanUp(expired)
  /\ Forget(expired)
  /\ UNCHANGED <<phase, taskVars, checkpoint>>

LoseCheckpoint(k) ==
  /\ k \in checkpoint
  /\ checkpoint' = checkpoint \ {k}
  /\ UNCHANGED <<inboxVars, phase, taskVars, runs, toolRuns>>

(* _cleanup_all_resources stops the background loops first, wherever the   *)
(* timeout loop is, and the inbox much later; client events go on.         *)
Shutdown ==
  LET timer == decider[Timer]
      to == IF timer.pc = "claim" THEN "processing" ELSE timer.outcome
      from == IF timer.pc = "claim" THEN {"waiting_approval"} ELSE Active
  IN
  /\ phase = "up"
  /\ phase' = "closing"
  /\ decider' = [decider EXCEPT ![Timer] = [NoDecision EXCEPT !.pc = "dead"]]
  /\ \/ UNCHANGED inboxVars
     \/ timer.pc \in {"claim", "file"} /\ CutOff(timer.key, from, to)
  /\ UNCHANGED <<worker, effects>>

CloseInbox ==
  /\ phase = "closing"
  /\ phase' = "closed"
  /\ Disconnect
  /\ UNCHANGED <<taskVars, effects>>

(* _require_db: an event that is still running opens the inbox again, and  *)
(* start() interrupts whatever is active.                                  *)
Reopen(expired) ==
  /\ phase = "closed"
  /\ Held # {NoKey}
  /\ expired \intersect Held = {}
  /\ Start(expired)
  /\ Forget(expired)
  /\ UNCHANGED <<phase, taskVars, checkpoint>>

(* A crash, or the end of the process.                                     *)
Crash ==
  /\ phase # "down"
  /\ phase' = "down"
  /\ Disconnect
  /\ worker' = [w \in Worker |-> NoWorker]
  /\ decider' = [d \in Decider |-> NoDecision]
  /\ UNCHANGED effects

Boot(expired) ==
  /\ phase = "down"
  /\ phase' = "starting"
  /\ Start(expired)
  /\ Forget(expired)
  /\ UNCHANGED <<taskVars, checkpoint>>

(* reconcile_waiting_approvals, when the checkpoint store is available; an *)
(* exception defers the rest of it.                                        *)
Reconcile(k) ==
  /\ phase = "starting"
  /\ rows[k] = "waiting_approval" /\ k \notin checkpoint
  /\ Transition(k, Active, "failed")
  /\ UNCHANGED <<phase, taskVars, effects>>

Serve ==
  /\ phase = "starting"
  /\ phase' = "up"
  /\ UNCHANGED <<inboxVars, taskVars, effects>>

Init ==
  /\ InboxInit
  /\ phase = "up"
  /\ worker = [w \in Worker |-> NoWorker]
  /\ decider = [d \in Decider |-> NoDecision]
  /\ checkpoint = {}
  /\ runs = [k \in Key |-> 0]
  /\ toolRuns = [k \in Key |-> 0]

WorkerNext(w) ==
  \/ \E k \in Key : Submit(w, k)
  \/ \E outcome \in Filed, caught \in BOOLEAN : Finish(w, outcome, caught)
  \/ Begin(w) \/ BeginRaises(w) \/ Abandon(w) \/ Interrupt(w) \/ File(w) \/ FileRaises(w)
  \/ AskCancel(w) \/ CancelWork(w) \/ CancelFiling(w)

DeciderNext(d) ==
  \/ \E k \in Key, approved \in BOOLEAN : Choose(d, k, approved)
  \/ Claim(d) \/ ClaimRaises(d) \/ RunTools(d) \/ Answer(d) \/ ResumeRaises(d)
  \/ FileDecision(d) \/ FileDecisionRaises(d)

ProcessNext ==
  \/ \E expired \in SUBSET Key : Retain(expired) \/ Reopen(expired) \/ Boot(expired)
  \/ \E k \in Key : LoseCheckpoint(k) \/ Reconcile(k)
  \/ Shutdown \/ CloseInbox \/ Crash \/ Serve

Next == (\E w \in Worker : WorkerNext(w)) \/ (\E d \in Decider : DeciderNext(d)) \/ ProcessNext

Spec == Init /\ [][Next]_vars

(* The timeout loop goes over every pending approval each second, and a    *)
(* second passes sooner or later: an approval that stays pending is chosen *)
(* in the end.  Nothing is assumed of the graph that it resumes.           *)
Fairness ==
  /\ \A k \in Key : SF_vars(Choose(Timer, k, FALSE))
  /\ WF_vars(Claim(Timer) \/ ClaimRaises(Timer))
  /\ WF_vars(FileDecision(Timer) \/ FileDecisionRaises(Timer))

FairSpec == Spec /\ Fairness

(***************************************************************************)
(* Properties.                                                             *)
(***************************************************************************)
(* One accepted execution per command identity (CommandInbox), as long as  *)
(* its row is kept: not by a duplicate, a retry, a cancellation, a stuck   *)
(* connection, a restart, or a decision on its approval.                   *)
RunsOnce == \A k \in Key : runs[k] <= 1

(* An approved tool batch is executed once: two decisions, the timeout     *)
(* loop and a crash between the batch and its filing do not repeat it.     *)
ToolsRunOnce == \A k \in Key : toolRuns[k] <= 1

(* A turn that was filed as cancelled, because its approval was rejected   *)
(* or ran out of time, never executed the tools that waited for it.        *)
RejectedToolsNeverRun ==
  \A k \in Turn : rows[k] = "cancelled" => toolRuns[k] = 0

(* The tools behind an approval run as it was decided: both of the above.  *)
ToolsRunAsDecided == ToolsRunOnce /\ RejectedToolsNeverRun

(* While the process serves, work in progress is on record as processing,  *)
(* and nobody else works under its key.                                    *)
WorkIsRegistered ==
  phase = "up" =>
    \A w \in Worker : worker[w].pc = "run" =>
      /\ disk[worker[w].key] = "processing"
      /\ \A v \in Worker \ {w} : worker[v].key # worker[w].key
      /\ \A d \in Decider : decider[d].key = worker[w].key => decider[d].pc \in {"idle", "claim"}

(* A committed end is final until its retention is over.                   *)
EndsAreFinal ==
  [][\A k \in Key : disk[k] \in Terminal => disk'[k] \in {disk[k], "absent"}]_vars

(* A pending approval is taken up, by a decision or by its timeout, unless *)
(* the loop is held up by a graph it resumed, or has died.                 *)
ApprovalsAreTakenUp ==
  \A k \in Key : rows[k] = "waiting_approval"
    ~> \/ rows[k] # "waiting_approval"
       \/ phase # "up"
       \/ decider[Timer].pc \in {"dead", "resume"}

(* A terminal status that a caller can read is not reopened.               *)
SeenEndsAreFinal ==
  [][\A k \in Key : rows[k] \in Terminal => rows'[k] \in {rows[k], "absent"}]_vars

(* A graph that still waits for an operator is listed as a pending         *)
(* approval, never as a task that succeeded.                               *)
NothingPendsBehindSuccess ==
  \A k \in Key : rows[k] = "succeeded" => k \notin checkpoint
=============================================================================
