------------------------- MODULE MissionCoordinator -------------------------
(***************************************************************************)
(* One mission on its way through its objectives: MissionCoordinator, the  *)
(* adaptive runtime behind it and the notifications that drive both.  The  *)
(* commands of the objectives live in the Voyager journal, the rows of the *)
(* mission in a database of their own; nothing is atomic across the two.   *)
(*                                                                         *)
(* A task is a submitter, the worker of the scheduler or one task of the   *)
(* gateway (a global stop or a confirmed termination).  Worker and gateway *)
(* run the same `notify` of assembly.py for a command that changed.  An    *)
(* action is one transaction or read of either database, with the code up  *)
(* to the next one.  A snapshot is four reads, without a lock.             *)
(***************************************************************************)
EXTENDS CommandJournal, MissionRepository, SequencesExt

CONSTANTS Submitter,     \* execute calls with the one mission request
          HasPredicates, \* spec.completion_predicates is not empty
          MaxRebalances, \* autonomy.max_budget_rebalances
          Usage,         \* what the receipts of a child can add up to
          MaxRestarts    \* bound: restarts of the process

(* A child command is named after its objective and the version the        *)
(* objective is to get; its request_id says the same.                      *)
Child == {c \in Execute : c[1] \in Objective}
Notifier == {"worker", "gateway"}
Task == Submitter \union Notifier

ASSUME CoordinatorAssumption ==
  /\ \A c \in Id : c \in Nat \X Nat
  /\ Objective \X {1} \subseteq Child /\ IsFiniteSet(Child)
  /\ \A c, d \in Id : Draft[c].request = Draft[d].request => c = d
  /\ Submitter \intersect Notifier = {}
  /\ HasPredicates \in BOOLEAN /\ MaxRebalances \in Nat
  /\ Usage \subseteq Nat /\ MaxRestarts \in Nat

VARIABLES task,     \* what each task does, and what it has read
          advanced, \* advanced_mission_commands
          pending,  \* commands the gateway has still to notify
          usage,    \* what the receipts of a child add up to
          mishaps,  \* what went wrong around the mission
          restarts

memoryVars == <<task, advanced, pending>>
worldVars == <<usage, mishaps, restarts>>
vars == <<journalVars, repositoryVars, memoryVars, worldVars>>

NoSnapshot ==
  [mission |-> [status |-> "absent", version |-> 0], linked |-> [o \in Objective |-> 0],
   retryRecords |-> 0, proposals |-> {}, account |-> InitialAccount,
   objectives |-> [o \in Objective |-> [status |-> "absent", version |-> 0, budget |-> 0]]]

Idle == [pc |-> "idle", child |-> NoId, seen |-> "absent", next |-> "idle",
         caller |-> "none", snap |-> NoSnapshot, account |-> InitialAccount]

Reads == {"mission", "transitions", "account", "objectives"}
Procedures == {"rebalance", "child", "advance", "adapt", "verify", "explore"}
Pcs == Reads \union Procedures \union
       {"idle", "fund", "plan", "looks", "checks", "runs", "waits",
        "reconciles", "terminates", "failObjective", "planner", "failMission", "saveRetry",
        "replace", "rearm", "settle", "endObjective", "endMission", "activate", "run",
        "fundProposal", "append"}
Mishaps == {"cut", "refused", "expired", "early", "overspent"}

TypeOK ==
  /\ JournalTypeOK /\ RepositoryTypeOK
  /\ DOMAIN task = Task
  /\ \A t \in Task : /\ task[t].pc \in Pcs
                     /\ task[t].child \in Child \union {NoId}
                     /\ task[t].account \in Account
  /\ advanced \in SUBSET Child
  /\ pending \in Seq(Child)
  /\ usage \in [Child -> Nat]
  /\ mishaps \in SUBSET Mishaps
  /\ restarts \in 0..MaxRestarts

Init ==
  /\ JournalInit /\ RepositoryInit
  /\ task = [t \in Task |-> Idle]
  /\ advanced = {} /\ pending = <<>>
  /\ usage = [c \in Child |-> 0] /\ mishaps = {} /\ restarts = 0

(***************************************************************************)
(* Helpers.                                                                *)
(***************************************************************************)
At(t, pc) == task[t].pc = pc
Becomes(t, state) == task' = [task EXCEPT ![t] = state]
Goes(t, pc) == Becomes(t, [task[t] EXCEPT !.pc = pc])

\* the task reads a snapshot, then goes on with the procedure
Reading(state, procedure) ==
  [state EXCEPT !.pc = "mission", !.next = procedure, !.snap = NoSnapshot]
OnChild(state) == Reading([state EXCEPT !.caller = "child"], "child")
Calls(t, procedure) == Becomes(t, Reading(task[t], procedure))

ObjectiveOf(t) == task[t].child[1]
VersionRead(t) == task[t].snap.objectives[ObjectiveOf(t)].version
Forgets == UNCHANGED <<advanced, pending, worldVars>>
OnlyTask == UNCHANGED <<journalVars, repositoryVars>> /\ Forgets
OnlyRows == UNCHANGED journalVars /\ Forgets

(* Mutant: whatever did not fail was done.                                 *)
VerificationByDefault(state) == IF state = "failed" THEN "failed" ELSE "verified"

Verification(state) ==
  CASE state = "succeeded" -> "verified"
    [] state = "blocked_unknown" -> "unknown"
    [] OTHER -> "failed"

(***************************************************************************)
(* snapshot: four reads that anything can come between.                    *)
(***************************************************************************)
ReadMission(t) ==
  /\ At(t, "mission")
  /\ Becomes(t, [task[t] EXCEPT !.pc = "transitions", !.snap.mission = mission])
  /\ OnlyTask

ReadTransitions(t) ==
  /\ At(t, "transitions")
  /\ Becomes(t, [task[t] EXCEPT !.pc = "account", !.snap.linked = linked,
                                !.snap.retryRecords = retryRecords])
  /\ OnlyTask

ReadAccount(t) ==
  /\ At(t, "account")
  /\ Becomes(t, [task[t] EXCEPT !.pc = "objectives", !.snap.proposals = proposals,
                                !.snap.account = account])
  /\ OnlyTask

ReadObjectives(t) ==
  /\ At(t, "objectives")
  /\ Becomes(t, [task[t] EXCEPT !.pc = task[t].next, !.snap.objectives = objectives])
  /\ OnlyTask

(***************************************************************************)
(* submit.  A request that was seen before reads the mission and returns,  *)
(* which changes nothing.                                                  *)
(***************************************************************************)
SubmitCreates(s) ==
  /\ At(s, "idle")
  /\ CreateMission
  /\ Goes(s, "fund")
  /\ OnlyRows

SubmitFunds(s) ==
  /\ At(s, "fund")
  /\ SaveBudget(InitialAccount)
  /\ Goes(s, "plan")
  /\ OnlyRows

SubmitPlans(s) ==
  /\ At(s, "plan")
  /\ TransitionMission(0, "planning")
  /\ Becomes(s, Reading([task[s] EXCEPT !.caller = "submit"], "advance"))
  /\ OnlyRows

(* The caller gives up (a tool timeout, a disconnect): the rest of submit  *)
(* does not happen.                                                        *)
SubmitCut(s) ==
  /\ ~At(s, "idle")
  /\ Becomes(s, Idle)
  /\ mishaps' = mishaps \union {"cut"}
  /\ UNCHANGED <<journalVars, repositoryVars, advanced, pending, usage, restarts>>

(***************************************************************************)
(* _advance: at most one ready objective gets a command.                   *)
(***************************************************************************)
Completed(snap) == {o \in Objective : snap.objectives[o].status = "completed"}
ActiveIn(snap) == {o \in Objective : snap.objectives[o].status = "active"}

Ready(snap) == {o \in Objective : /\ snap.objectives[o].status = "pending"
                                  /\ Needs[o] \subseteq Completed(snap)}

Chosen(snap) == Min(Ready(snap))
ChosenChild(snap) == <<Chosen(snap), snap.objectives[Chosen(snap)].version + 1>>

RequiredComplete(snap) ==
  \A o \in Objective \ Optional : snap.objectives[o].status \in {"absent", "completed"}

CompletionTarget == IF HasPredicates THEN "waiting_evidence" ELSE "completed"

(* What the caller of _advance does with its result, and with an exception *)
(* of it: request_rebalance leaves a failed advance to on_child_transition.*)
Returns(t, status) ==
  /\ Becomes(t, IF /\ task[t].caller = "child" /\ status = "waiting_evidence"
                    /\ Objective # First
                 THEN Reading(task[t], "adapt") ELSE Idle)
  /\ advanced' = IF task[t].caller \in {"child", "rebalance"}
                 THEN advanced \union {task[t].child} ELSE advanced
  /\ UNCHANGED <<pending, usage, restarts>>

Raises(t) ==
  /\ Becomes(t, IF task[t].caller = "rebalance" THEN OnChild(task[t]) ELSE Idle)
  /\ UNCHANGED <<advanced, pending, usage, restarts>>

(* Either the row moves and P holds, or it has moved already and the       *)
(* exception is raised.                                                    *)
MissionMoves(t, target, P) ==
  LET version == task[t].snap.mission.version
  IN IF MissionAdmits(version, target)
     THEN TransitionMission(version, target) /\ P
     ELSE UNCHANGED repositoryVars /\ Raises(t)

(* There is an active objective, or none to start: only the mission may    *)
(* move, once everything required is complete.                             *)
Finishes(snap) ==
  /\ ActiveIn(snap) = {} /\ RequiredComplete(snap)
  /\ snap.mission.status # CompletionTarget

AdvanceCreatesNothing(t) ==
  /\ At(t, "advance")
  /\ LET snap == task[t].snap
     IN /\ ActiveIn(snap) # {} \/ Ready(snap) = {}
        /\ IF Finishes(snap)
           THEN MissionMoves(t, CompletionTarget, Returns(t, CompletionTarget))
           ELSE UNCHANGED repositoryVars /\ Returns(t, snap.mission.status)
  /\ UNCHANGED <<journalVars, mishaps>>

\* bound: the command has a name in Child
AdvanceReady(t) ==
  /\ At(t, "advance")
  /\ ActiveIn(task[t].snap) = {} /\ Ready(task[t].snap) # {}
  /\ ChosenChild(task[t].snap) \in Child

(* create_command answers a command name it knows with that command.       *)
AdvanceCreates(t) ==
  /\ AdvanceReady(t)
  /\ LET c == ChosenChild(task[t].snap)
     IN IF Present(c) THEN UNCHANGED journalVars ELSE CreateCommand(c)
  /\ Goes(t, "activate")
  /\ UNCHANGED repositoryVars /\ Forgets

(* Admission is closed, or the commands of others fill the queue.          *)
AdvanceRefused(t) ==
  /\ AdvanceReady(t)
  /\ ~Present(ChosenChild(task[t].snap))
  /\ Raises(t)
  /\ mishaps' = mishaps \union {"refused"}
  /\ UNCHANGED <<journalVars, repositoryVars>>

AdvanceActivates(t) ==
  /\ At(t, "activate")
  /\ LET snap == task[t].snap
         o == Chosen(snap)
         version == snap.objectives[o].version
     IN IF ObjectiveAdmits(o, version, "active")
        THEN /\ TransitionObjective(o, version, "active", version + 1)
             /\ IF snap.mission.status \in {"planning", "waiting_evidence"}
                THEN Goes(t, "run") /\ UNCHANGED <<advanced, pending, usage, restarts>>
                ELSE Returns(t, snap.mission.status)
        ELSE UNCHANGED repositoryVars /\ Raises(t)
  /\ UNCHANGED <<journalVars, mishaps>>

AdvanceRuns(t) ==
  /\ At(t, "run")
  /\ MissionMoves(t, "running", Returns(t, "running"))
  /\ UNCHANGED <<journalVars, mishaps>>

(***************************************************************************)
(* notify: the state of the command is read first, whether it was advanced *)
(* already is asked later, and it is marked as advanced at the very end.   *)
(***************************************************************************)
NotifyLooks(n) ==
  /\ At(n, "looks")
  /\ LET state == commands[task[n].child].state
     IN Becomes(n, IF state \in Terminal
                   THEN [task[n] EXCEPT !.pc = "checks", !.seen = state] ELSE Idle)
  /\ OnlyTask

NotifySkips(n) ==
  /\ At(n, "checks")
  /\ task[n].child \in advanced
  /\ Becomes(n, Idle)
  /\ OnlyTask

(* A failed command with a receipt is offered to the rebalance first; an   *)
(* observation that fails sends it to on_child_transition like any other.  *)
NotifyRebalances(n) ==
  /\ At(n, "checks")
  /\ task[n].child \notin advanced
  /\ task[n].seen = "failed" /\ usage[task[n].child] > 0
  /\ Becomes(n, Reading([task[n] EXCEPT !.caller = "rebalance"], "rebalance"))
  /\ OnlyTask

NotifyTransitions(n) ==
  /\ At(n, "checks")
  /\ task[n].child \notin advanced
  /\ Becomes(n, OnChild(task[n]))
  /\ OnlyTask

(***************************************************************************)
(* request_rebalance.  It settles, fails the objective, asks the planner   *)
(* and puts the objective back with a new envelope.  Whatever it raises    *)
(* leaves the command to on_child_transition.                              *)
(***************************************************************************)
WindowUsedUp(snap) == snap.retryRecords >= MaxRebalances

RebalanceCandidate(n) ==
  LET snap == task[n].snap
      o == ObjectiveOf(n)
  IN /\ snap.objectives[o].status = "active"
     /\ snap.linked[o] = task[n].child[2]
     /\ ~WindowUsedUp(snap)
     /\ snap.account.reserved[o] # 0

RebalanceDeclined(n) ==
  /\ At(n, "rebalance")
  /\ RebalanceCandidate(n)
       => ~Settles(task[n].snap.account, ObjectiveOf(n), usage[task[n].child])
  /\ Becomes(n, OnChild(task[n]))
  /\ OnlyTask

RebalanceSettles(n) ==
  /\ At(n, "rebalance")
  /\ RebalanceCandidate(n)
  /\ LET o == ObjectiveOf(n)
         before == task[n].snap.account
         after == Settle(before, o, usage[task[n].child])
     IN /\ Settles(before, o, usage[task[n].child])
        /\ SaveBudget(after)
        /\ Becomes(n, [task[n] EXCEPT !.pc = "failObjective", !.account = after])
  /\ OnlyRows

RebalanceFailsObjective(n) ==
  /\ At(n, "failObjective")
  /\ LET o == ObjectiveOf(n)
     IN IF ObjectiveAdmits(o, VersionRead(n), "failed")
        THEN /\ TransitionObjective(o, VersionRead(n), "failed", task[n].child[2])
             /\ Goes(n, "planner")
        ELSE UNCHANGED repositoryVars /\ Becomes(n, OnChild(task[n]))
  /\ OnlyRows

(* plan_rebalance, a model call: it proposes an envelope, declines (or     *)
(* proposes what is invalid or does not fit), or raises.                   *)
PlannerProposes(n, amount) ==
  /\ At(n, "planner")
  /\ amount \in 1..Remaining(task[n].account)
  /\ Becomes(n, [task[n] EXCEPT !.pc = "saveRetry",
                                !.account = Reserve(@, ObjectiveOf(n), amount)])
  /\ OnlyTask

PlannerDeclines(n) ==
  /\ At(n, "planner")
  /\ Goes(n, "failMission")
  /\ OnlyTask

PlannerRaises(n) ==
  /\ At(n, "planner")
  /\ Becomes(n, OnChild(task[n]))
  /\ OnlyTask

RebalanceFailsMission(n) ==
  /\ At(n, "failMission")
  /\ MissionMoves(n, "failed", Returns(n, "failed"))
  /\ UNCHANGED <<journalVars, mishaps>>

RebalanceReserves(n) ==
  /\ At(n, "saveRetry")
  /\ SaveBudget(task[n].account)
  /\ Goes(n, "replace")
  /\ OnlyRows

RebalanceReplaces(n) ==
  /\ At(n, "replace")
  /\ LET o == ObjectiveOf(n)
     IN IF MayRetry(o, VersionRead(n) + 1)
        THEN /\ ReplaceObjectiveBudget(o, VersionRead(n) + 1, task[n].account.reserved[o])
             /\ Goes(n, "rearm")
        ELSE UNCHANGED repositoryVars /\ Becomes(n, OnChild(task[n]))
  /\ OnlyRows

RebalanceRearms(n) ==
  /\ At(n, "rearm")
  /\ LET o == ObjectiveOf(n)
     IN IF MayRetry(o, VersionRead(n) + 2)
        THEN RearmObjective(o, VersionRead(n) + 2) /\ Calls(n, "advance")
        ELSE UNCHANGED repositoryVars /\ Becomes(n, OnChild(task[n]))
  /\ OnlyRows

(***************************************************************************)
(* on_child_transition.  A failure the rebalance filed already only ends   *)
(* the mission; anything else asks for the active objective the command    *)
(* is linked to.                                                           *)
(***************************************************************************)
StatusRead(n) == task[n].snap.objectives[ObjectiveOf(n)].status

(* Mutant: a failure that was filed already is not recognised.             *)
NeverReplayed(n) == FALSE

Replayed(n) == StatusRead(n) = "failed" /\ Verification(task[n].seen) = "failed"

ChildReplayed(n) ==
  /\ At(n, "child")
  /\ Replayed(n)
  /\ MissionMoves(n, "failed", Returns(n, "failed"))
  /\ UNCHANGED <<journalVars, mishaps>>

Answers(n) ==
  /\ StatusRead(n) = "active"
  /\ task[n].snap.linked[ObjectiveOf(n)] = task[n].child[2]
  /\ commands[task[n].child].state = task[n].seen

ChildRefused(n) ==
  /\ At(n, "child")
  /\ ~Replayed(n) /\ ~Answers(n)
  /\ Becomes(n, Idle)
  /\ OnlyTask

ChildAnswers(n) ==
  /\ At(n, "child")
  /\ ~Replayed(n) /\ Answers(n)
  /\ Goes(n, "settle")
  /\ OnlyTask

ChildSettles(n) ==
  /\ At(n, "settle")
  /\ LET o == ObjectiveOf(n)
         before == task[n].snap.account
         actual == usage[task[n].child]
     IN IF Settles(before, o, actual)
        THEN SaveBudget(Settle(before, o, actual)) /\ Goes(n, "endObjective")
        ELSE UNCHANGED repositoryVars /\ Becomes(n, Idle)
  /\ OnlyRows

Outcome(n) ==
  CASE Verification(task[n].seen) = "verified" -> "completed"
    [] Verification(task[n].seen) = "unknown" -> "blocked_unknown"
    [] OTHER -> "failed"

ChildEndsObjective(n) ==
  /\ At(n, "endObjective")
  /\ LET o == ObjectiveOf(n)
     IN IF ObjectiveAdmits(o, VersionRead(n), Outcome(n))
        THEN /\ TransitionObjective(o, VersionRead(n), Outcome(n), task[n].child[2])
             /\ IF Outcome(n) = "completed" THEN Calls(n, "advance") ELSE Goes(n, "endMission")
        ELSE UNCHANGED repositoryVars /\ Becomes(n, Idle)
  /\ OnlyRows

ChildEndsMission(n) ==
  /\ At(n, "endMission")
  /\ MissionMoves(n, Outcome(n), Returns(n, Outcome(n)))
  /\ UNCHANGED <<journalVars, mishaps>>

(***************************************************************************)
(* AdaptiveMissionRuntime.after_child: one more objective while there is   *)
(* one to propose, verification of the completion predicates once the last *)
(* was accepted, or nothing (the policy stops, the predicates fail).       *)
(***************************************************************************)
Unproposed(snap) == (Objective \ First) \ snap.proposals

AdaptStops(n) ==
  /\ task[n].pc \in {"adapt", "explore", "verify"}
  /\ Becomes(n, Idle)
  /\ OnlyTask

AdaptDecides(n) ==
  /\ At(n, "adapt")
  /\ task[n].snap.mission.status = "waiting_evidence"
  /\ Calls(n, IF Unproposed(task[n].snap) = {} THEN "verify" ELSE "explore")
  /\ OnlyTask

(* MissionVerifier.verify asks for the objectives of the MissionSpec only; *)
(* those that were appended are required and not looked at.                *)
RequiredSatisfied(snap) ==
  \A o \in First \ Optional : snap.objectives[o].status = "completed"

VerifyCompletes(n) ==
  /\ At(n, "verify")
  /\ task[n].snap.mission.status = "waiting_evidence"
  /\ RequiredSatisfied(task[n].snap)
  /\ IF MissionAdmits(task[n].snap.mission.version, "completed")
     THEN TransitionMission(task[n].snap.mission.version, "completed")
     ELSE UNCHANGED repositoryVars
  /\ Becomes(n, Idle)
  /\ OnlyRows

(* consider_exploration: a proposal is admitted when what it depends on is *)
(* completed and its cost fits; the account is saved whether it was or not.*)
Proposed(n) == Min(Unproposed(task[n].snap))
Fits(n) ==
  /\ Needs[Proposed(n)] \subseteq Completed(task[n].snap)
  /\ Cost[Proposed(n)] <= Remaining(task[n].snap.account)

ExploreProposes(n) ==
  /\ At(n, "explore")
  /\ task[n].snap.mission.status \notin MissionEnds
  /\ Unproposed(task[n].snap) # {}
  /\ IF Fits(n) THEN SaveProposal(Proposed(n)) ELSE UNCHANGED repositoryVars
  /\ Goes(n, "fundProposal")
  /\ OnlyRows

ExploreFunds(n) ==
  /\ At(n, "fundProposal")
  /\ LET before == task[n].snap.account
     IN IF Fits(n)
        THEN /\ SaveBudget(Reserve(before, Proposed(n), Cost[Proposed(n)]))
             /\ Goes(n, "append")
        ELSE SaveBudget(before) /\ Becomes(n, Idle)
  /\ OnlyRows

ExploreAppends(n) ==
  /\ At(n, "append")
  /\ IF objectives[Proposed(n)].status = "absent"
     THEN /\ AppendObjective(Proposed(n))
          /\ Becomes(n, Reading([task[n] EXCEPT !.caller = "explore"], "advance"))
     ELSE UNCHANGED repositoryVars /\ Becomes(n, Idle)
  /\ OnlyRows

(***************************************************************************)
(* The worker: it runs one command at a time, and notifies before it looks *)
(* for the next.  Expiry at its poll notifies nobody.                      *)
(***************************************************************************)
Rows == UNCHANGED <<repositoryVars, advanced, pending, restarts>>

WorkerExpires(c) ==
  /\ At("worker", "idle")
  /\ c \in Queued \intersect late
  /\ Transition(c, commands[c].version, "failed")
  /\ mishaps' = mishaps \union {"expired"}
  /\ UNCHANGED <<task, usage>> /\ Rows

WorkerStarts(c) ==
  /\ At("worker", "idle")
  /\ Eligible(c)
  /\ Transition(c, commands[c].version, "running")
  /\ Becomes("worker", [Idle EXCEPT !.pc = "runs", !.child = c])
  /\ UNCHANGED <<usage, mishaps>> /\ Rows

\* a submission that is still between two of its transactions
Submitting == \E s \in Submitter : ~At(s, "idle")

WorkerEnds(outcome, actual) ==
  LET c == task["worker"].child
  IN /\ At("worker", "runs")
     /\ outcome = "cancelled" => commands[c].cancelRequested
     /\ Transition(c, commands[c].version, outcome)
     /\ usage' = [usage EXCEPT ![c] = actual]
     /\ mishaps' = mishaps
          \union (IF Submitting THEN {"early"} ELSE {})
          \union (IF actual > objectives[c[1]].budget THEN {"overspent"} ELSE {})
     /\ Goes("worker", "looks")
     /\ Rows

(***************************************************************************)
(* The gateway: a stop notifies what it cancelled and then the active      *)
(* command; a blocked command is settled by a stop or by a termination.    *)
(***************************************************************************)
GatewayFree == At("gateway", "idle") /\ pending = <<>>
GatewayMoves == UNCHANGED <<repositoryVars, advanced, worldVars>>

GatewayStops(s, target) ==
  /\ GatewayFree
  /\ pending' = SetToSeq(Queued) \o (IF target = NoId THEN <<>> ELSE <<target>>)
  /\ ApplyStopBarrier(s, target)
  /\ Becomes("gateway", IF target = NoId THEN Idle
                        ELSE [Idle EXCEPT !.pc = "waits", !.child = target])
  /\ GatewayMoves

(* The active command ended, or the stop waited long enough.               *)
GatewayWaits ==
  /\ At("gateway", "waits")
  /\ Becomes("gateway", Idle)
  /\ UNCHANGED <<journalVars, pending>> /\ GatewayMoves

GatewayReconciles ==
  LET c == task["gateway"].child
  IN /\ At("gateway", "waits")
     /\ commands[c].state = "blocked_unknown"
     /\ Transition(c, commands[c].version, "reconciling")
     /\ Goes("gateway", "reconciles")
     /\ UNCHANGED pending /\ GatewayMoves

GatewaySettles(outcome) ==
  LET c == task["gateway"].child
  IN /\ At("gateway", "reconciles")
     /\ Transition(c, commands[c].version, outcome)
     /\ Becomes("gateway", Idle)
     /\ UNCHANGED pending /\ GatewayMoves

GatewayTerminates(c) ==
  /\ GatewayFree
  /\ commands[c].state = "blocked_unknown"
  /\ Transition(c, commands[c].version, "reconciling")
  /\ Becomes("gateway", [Idle EXCEPT !.pc = "terminates", !.child = c])
  /\ UNCHANGED pending /\ GatewayMoves

GatewayCancels ==
  LET c == task["gateway"].child
  IN /\ At("gateway", "terminates")
     /\ Transition(c, commands[c].version, "cancelled")
     /\ Goes("gateway", "looks")
     /\ UNCHANGED pending /\ GatewayMoves

GatewayNotifies ==
  /\ At("gateway", "idle") /\ pending # <<>>
  /\ pending' = Tail(pending)
  /\ Becomes("gateway", [Idle EXCEPT !.pc = "looks", !.child = Head(pending)])
  /\ UNCHANGED journalVars /\ GatewayMoves

(***************************************************************************)
(* The process ends and starts again: every task and everything in memory  *)
(* is gone, recover_startup files what was queued or running, and the new  *)
(* session is admitted unless an outcome is unknown.  Nothing notifies the *)
(* mission: MissionCoordinator.recover_startup has no caller.              *)
(***************************************************************************)
RecoveredRow(row) ==
  IF row.state \in {"queued", "running", "reconciling"}
  THEN [row EXCEPT !.state = RecoveryTarget(row.state), !.version = @ + 1] ELSE row

Restart ==
  /\ restarts < MaxRestarts
  /\ restarts' = restarts + 1
  /\ commands' = [c \in Id |-> RecoveredRow(commands[c])]
  /\ accepting' = \A c \in Id : RecoveredRow(commands[c]).state # "blocked_unknown"
  /\ task' = [t \in Task |-> Idle]
  /\ advanced' = {} /\ pending' = <<>>
  /\ UNCHANGED <<tombstone, barrier, lastSequence, late, repositoryVars, usage, mishaps>>

ClockAdvances(c) == DeadlinePasses(c) /\ UNCHANGED <<repositoryVars, memoryVars, worldVars>>

(***************************************************************************)
(* The next-state relation.                                                *)
(***************************************************************************)
Snapshots(t) ==
  ReadMission(t) \/ ReadTransitions(t) \/ ReadAccount(t) \/ ReadObjectives(t)

Advances(t) ==
  \/ AdvanceCreatesNothing(t) \/ AdvanceCreates(t) \/ AdvanceRefused(t)
  \/ AdvanceActivates(t) \/ AdvanceRuns(t)

SubmitterStep(s) ==
  SubmitFunds(s) \/ SubmitPlans(s) \/ Snapshots(s) \/ Advances(s)

NotifierStep(n) ==
  \/ NotifyLooks(n) \/ NotifySkips(n) \/ NotifyRebalances(n) \/ NotifyTransitions(n)
  \/ RebalanceDeclined(n) \/ RebalanceSettles(n) \/ RebalanceFailsObjective(n)
  \/ \E amount \in 1..Limit : PlannerProposes(n, amount)
  \/ PlannerDeclines(n) \/ PlannerRaises(n) \/ RebalanceFailsMission(n)
  \/ RebalanceReserves(n) \/ RebalanceReplaces(n) \/ RebalanceRearms(n)
  \/ ChildReplayed(n) \/ ChildRefused(n) \/ ChildAnswers(n) \/ ChildSettles(n)
  \/ ChildEndsObjective(n) \/ ChildEndsMission(n)
  \/ AdaptStops(n) \/ AdaptDecides(n) \/ VerifyCompletes(n)
  \/ ExploreProposes(n) \/ ExploreFunds(n) \/ ExploreAppends(n)
  \/ Snapshots(n) \/ Advances(n)

WorkerOutcomes == {"succeeded", "failed", "cancelled", "blocked_unknown"}

WorkerStep ==
  \/ \E c \in Id : WorkerExpires(c) \/ WorkerStarts(c)
  \/ \E outcome \in WorkerOutcomes, actual \in Usage : WorkerEnds(outcome, actual)
  \/ NotifierStep("worker")

GatewayStep ==
  \/ GatewayWaits \/ GatewayReconciles \/ GatewayCancels \/ GatewayNotifies
  \/ \E outcome \in WorkerOutcomes : GatewaySettles(outcome)
  \/ NotifierStep("gateway")

Next ==
  \/ \E s \in Submitter : SubmitCreates(s) \/ SubmitterStep(s) \/ SubmitCut(s)
  \/ WorkerStep \/ GatewayStep
  \/ \E s \in Stop, target \in Child \union {NoId} : GatewayStops(s, target)
  \/ \E c \in Child : GatewayTerminates(c) \/ ClockAdvances(c)
  \/ Restart

Spec == Init /\ [][Next]_vars

(***************************************************************************)
(* Properties.                                                             *)
(***************************************************************************)
Open == {c \in Child : commands[c].state \in {"queued", "running"}}

(* At most one command of the mission waits or runs, however submissions,  *)
(* notifications, rebalances and restarts interleave (test_coordinator.py, *)
(* "queues at most one ready leaf"; test_coordinator_safety.py, concurrent *)
(* submissions "create exactly one child"), and none once the mission has  *)
(* ended.  _advance does not look at the status of the mission; that a     *)
(* stop closes admission before it notifies is what keeps a rebalance from *)
(* going on under it.                                                      *)
OneChildAtATime ==
  Cardinality(Open) <= IF mission.status \in MissionEnds THEN 0 ELSE 1

(* A completed objective has a command of its own that succeeded, whatever *)
(* notification of whatever command completed it.  A completed mission has *)
(* every required objective completed, although what completes it after    *)
(* evidence was awaited asks for those of the specification alone and not  *)
(* for those that were appended to it; and its account was charged what    *)
(* all its commands used, once each.                                       *)
CompletedMeansDone ==
  /\ \A o \in Objective : objectives[o].status = "completed" =>
       \E c \in Child : c[1] = o /\ commands[c].state = "succeeded"
  /\ mission.status = "completed" =>
       /\ \A o \in Objective \ Optional : objectives[o].status \in {"absent", "completed"}
       /\ account.used = Total(usage, Child)

(* No command is charged twice, and what is used and reserved never        *)
(* exceeds the limit, although the account is overwritten without a        *)
(* version and two notifications of one command can run side by side.      *)
ChargedOnce ==
  /\ account.used <= Total(usage, Child)
  /\ Remaining(account) >= 0

(* When nothing is left to do, the mission ended or waits for evidence,    *)
(* unless it was stopped, the process restarted, or one of the mishaps     *)
(* befell it: these are all the ways a mission is left under way with      *)
(* nothing to move it.                                                     *)
Quiet == pending = <<>> /\ Open = {} /\ \A t \in Task : At(t, "idle")
Interfered == mishaps # {} \/ restarts > 0 \/ ~accepting

NothingStrands ==
  Quiet => mission.status \in {"absent", "waiting_evidence"} \union MissionEnds \/ Interfered

(* The window of rebalances counts as used up only when that many were     *)
(* made: an objective put back has gone through four versions for each.    *)
Rebalanced == MapThenSumSet(LAMBDA o : objectives[o].version \div 4, Objective)

WindowIsHonored ==
  \A n \in Notifier :
    At(n, "rebalance") /\ WindowUsedUp(task[n].snap) => Rebalanced >= MaxRebalances
=============================================================================
