------------------------- MODULE MissionRepository -------------------------
(***************************************************************************)
(* The durable rows of one Minecraft mission (SQLiteMissionRepository) and *)
(* the account its child commands are paid from.  An action is one         *)
(* transaction.  The rows of the mission and of its objectives move by     *)
(* compare-and-set on their version; the account has no version and is     *)
(* overwritten.                                                            *)
(***************************************************************************)
EXTENDS Integers, FiniteSetsExt

CONSTANTS Objective, \* numbered in the order (-priority, ordinal)
          First,     \* the objectives of the MissionSpec
          Optional,  \* those that are not required
          Needs,     \* dependencies of each
          Cost,      \* MissionObjective.budget, one dimension of it
          Limit      \* MissionSpec.budget, that dimension

\* the sum of a function over a finite part of its domain
Total(f, S) == MapThenSumSet(LAMBDA x : f[x], S)

\* MissionSpec._valid_dag_and_budget
ASSUME SpecAssumption ==
  /\ Objective \subseteq Nat \ {0} /\ IsFiniteSet(Objective)
  /\ First \subseteq Objective /\ First # {} /\ Optional \subseteq First
  /\ Needs \in [Objective -> SUBSET Objective]
  /\ \A o \in First : Needs[o] \subseteq First
  /\ Cost \in [Objective -> Nat \ {0}] /\ Limit \in Nat
  /\ Total(Cost, First) <= Limit

ASSUME NoCycleAssumption ==
  \A S \in SUBSET First : S # {} => \E o \in S : Needs[o] \intersect S = {}

VARIABLES mission,      \* the missions row
          objectives,   \* the mission_objectives rows
          linked,       \* details.command_id of an objective's last transition:
                        \* the version the command was named after, 0 for none
          retryRecords, \* transitions with reason BUDGET_REBALANCED_RETRY
          proposals,    \* goal_proposals rows that were accepted
          account       \* the mission_budgets row

repositoryVars == <<mission, objectives, linked, retryRecords, proposals, account>>

MissionEnds == {"completed", "failed", "cancelled", "blocked_unknown"}
MissionStatuses == {"absent", "accepted", "planning", "running", "waiting_evidence"}
                   \union MissionEnds
ObjectiveStatuses == {"absent", "pending", "active", "completed", "failed", "blocked_unknown"}

Account == [used : Nat, reserved : [Objective -> Nat]]

RepositoryTypeOK ==
  /\ mission \in [status : MissionStatuses, version : Nat]
  /\ objectives \in [Objective -> [status : ObjectiveStatuses, version : Nat, budget : Nat]]
  /\ linked \in [Objective -> Nat]
  /\ retryRecords \in Nat
  /\ proposals \in SUBSET (Objective \ First)
  /\ account \in Account

(***************************************************************************)
(* BudgetAccount.  Every cost is positive, so an amount of zero says that  *)
(* the objective has no reservation.  Its reservation is the fixed one,    *)
(* the one of a retry or the one of its proposal: settling the old one     *)
(* comes before reserving the new one, and an objective never has two.     *)
(***************************************************************************)
Remaining(acct) ==
  Limit - acct.used - Total(acct.reserved, Objective)

Reserve(acct, o, amount) == [acct EXCEPT !.reserved[o] = amount]

(* Mutant: neither the reservation nor its size is looked at.              *)
SettlesAnything(acct, o, usage) == TRUE

Settles(acct, o, usage) == acct.reserved[o] # 0 /\ usage <= acct.reserved[o]

(* Mutant: what a reservation did not use is given back a second time.     *)
SettleGivesBack(acct, o, usage) ==
  [acct EXCEPT !.used = @ + usage - acct.reserved[o], !.reserved[o] = 0]

Settle(acct, o, usage) ==
  [acct EXCEPT !.used = @ + usage, !.reserved[o] = 0]

\* _initial_budget_account: what an account that was never saved reads as
InitialAccount ==
  [used |-> 0, reserved |-> [o \in Objective |-> IF o \in First THEN Cost[o] ELSE 0]]

RepositoryInit ==
  /\ mission = [status |-> "absent", version |-> 0]
  /\ objectives = [o \in Objective |-> [status |-> "absent", version |-> 0, budget |-> Cost[o]]]
  /\ linked = [o \in Objective |-> 0]
  /\ retryRecords = 0
  /\ proposals = {}
  /\ account = InitialAccount

(***************************************************************************)
(* The transition tables of state_machine.py.  The edges to SKIPPED and    *)
(* CANCELLED are left out: nothing in the program takes them.              *)
(***************************************************************************)
MissionSuccessors(status) ==
  CASE status = "accepted" -> {"planning"}
    [] status = "planning" -> {"running", "failed", "blocked_unknown"}
    [] status = "running" -> {"waiting_evidence", "completed", "failed", "blocked_unknown"}
    [] status = "waiting_evidence" -> {"running", "completed", "failed", "blocked_unknown"}
    [] OTHER -> {}

ObjectiveSuccessors(status) ==
  CASE status = "pending" -> {"active", "blocked_unknown"}
    [] status = "active" -> {"completed", "failed", "blocked_unknown"}
    [] OTHER -> {}

CreateMission ==
  /\ mission.status = "absent"
  /\ mission' = [status |-> "accepted", version |-> 0]
  /\ objectives' = [o \in Objective |->
       IF o \in First THEN [objectives[o] EXCEPT !.status = "pending"] ELSE objectives[o]]
  /\ UNCHANGED <<linked, retryRecords, proposals, account>>

MissionAdmits(version, target) ==
  mission.version = version /\ target \in MissionSuccessors(mission.status)

TransitionMission(version, target) ==
  /\ MissionAdmits(version, target)
  /\ mission' = [status |-> target, version |-> version + 1]
  /\ UNCHANGED <<objectives, linked, retryRecords, proposals, account>>

ObjectiveAdmits(o, version, target) ==
  /\ objectives[o].version = version
  /\ target \in ObjectiveSuccessors(objectives[o].status)

TransitionObjective(o, version, target, command) ==
  /\ ObjectiveAdmits(o, version, target)
  /\ objectives' = [objectives EXCEPT ![o].status = target, ![o].version = version + 1]
  /\ linked' = [linked EXCEPT ![o] = command]
  /\ UNCHANGED <<mission, retryRecords, proposals, account>>

(* The two transactions of a rebalance: the new envelope on the failed     *)
(* objective, and the audited edge back to PENDING.  Each leaves a record  *)
(* with the reason BUDGET_REBALANCED_RETRY.                                *)
MayRetry(o, version) ==
  objectives[o].version = version /\ objectives[o].status = "failed"

ReplaceObjectiveBudget(o, version, amount) ==
  /\ MayRetry(o, version)
  /\ objectives' = [objectives EXCEPT ![o].budget = amount, ![o].version = version + 1]
  /\ retryRecords' = retryRecords + 1
  /\ UNCHANGED <<mission, linked, proposals, account>>

RearmObjective(o, version) ==
  /\ MayRetry(o, version)
  /\ objectives' = [objectives EXCEPT ![o].status = "pending", ![o].version = version + 1]
  /\ retryRecords' = retryRecords + 1
  /\ UNCHANGED <<mission, linked, proposals, account>>

SaveBudget(acct) ==
  /\ account' = acct
  /\ UNCHANGED <<mission, objectives, linked, retryRecords, proposals>>

SaveProposal(o) ==
  /\ proposals' = proposals \union {o}
  /\ UNCHANGED <<mission, objectives, linked, retryRecords, account>>

AppendObjective(o) ==
  /\ objectives[o].status = "absent"
  /\ objectives' = [objectives EXCEPT ![o].status = "pending"]
  /\ UNCHANGED <<mission, linked, retryRecords, proposals, account>>
=============================================================================
