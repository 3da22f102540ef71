--------------------------- MODULE CommandJournal ---------------------------
(***************************************************************************)
(* The durable Voyager command journal (SQLiteCommandJournal): the command *)
(* rows, the idempotency tombstones and the controller row.  Every action  *)
(* is one BEGIN IMMEDIATE ... COMMIT transaction of the repository, run    *)
(* under its asyncio lock.  Callers are unrestricted here: any of them may *)
(* submit, transition or stop at any moment.  VoyagerControlPlane supplies *)
(* the callers the program really has.                                     *)
(***************************************************************************)
EXTENDS Integers, FiniteSets

CONSTANTS Id,            \* identities given to submissions (command_id)
          Request,       \* (caller_scope, request_id) pairs
          Draft,         \* the CommandDraft of each submission
          QueueCapacity, \* config.queue_capacity
          NoId           \* SQL NULL where a command identity is expected

Kinds == {"execute", "stop"}

ASSUME DraftAssumption ==
  Draft \in [Id -> [request : Request, kind : Kinds]]
ASSUME CapacityAssumption == QueueCapacity \in Nat \ {0}
ASSUME NoIdAssumption == NoId \notin Id

VARIABLES commands,     \* the commands table, one row per submission
          tombstone,    \* idempotency_tombstones: the command a request owns
          accepting,    \* controller_state.accepting_execute
          barrier,      \* controller_state.stop_barrier_id
          lastSequence, \* the AUTOINCREMENT counter of queue_sequence
          late          \* commands whose queue_deadline_ms has passed

journalVars == <<commands, tombstone, accepting, barrier, lastSequence, late>>

(***************************************************************************)
(* Command states and the transition table of command_models.py.           *)
(***************************************************************************)
UnstartedEnds == {"cancelled_by_stop", "interrupted_before_start"}
RunEnds == {"succeeded", "succeeded_reconciled", "failed",
            "failed_reconciled", "cancelled", "cancelled_reconciled"}
Settled == UnstartedEnds \union RunEnds
Terminal == Settled \union {"blocked_unknown"}
ActiveStates == {"running", "reconciling", "blocked_unknown"}
States == {"queued", "running", "reconciling"} \union Terminal

(* Mutant: a failed command may be queued again in place.                  *)
SuccessorsWithRetry(s) ==
  CASE s = "queued" -> {"running", "failed"} \union UnstartedEnds
    [] s = "running" -> RunEnds \union {"reconciling", "blocked_unknown"}
    [] s = "reconciling" -> RunEnds \union {"blocked_unknown"}
    [] s \in {"blocked_unknown", "failed"} -> {"reconciling", "queued"}
    [] OTHER -> {}

Successors(s) ==
  CASE s = "queued" -> {"running", "failed"} \union UnstartedEnds
    [] s = "running" -> RunEnds \union {"reconciling", "blocked_unknown"}
    [] s = "reconciling" -> RunEnds \union {"blocked_unknown"}
    [] s = "blocked_unknown" -> {"reconciling"}
    [] OTHER -> {}

Row == [state : States \union {"absent"}, version : Nat, sequence : Nat,
        started : BOOLEAN, cancelRequested : BOOLEAN]

AbsentRow == [state |-> "absent", version |-> 0, sequence |-> 0,
              started |-> FALSE, cancelRequested |-> FALSE]

Execute == {c \in Id : Draft[c].kind = "execute"}
Stop == {c \in Id : Draft[c].kind = "stop"}

Present(c) == commands[c].state # "absent"
Queued == {c \in Execute : commands[c].state = "queued"}
Active == {c \in Execute : commands[c].state \in ActiveStates}
Blocked == {c \in Id : commands[c].state = "blocked_unknown"}

JournalTypeOK ==
  /\ commands \in [Id -> Row]
  /\ tombstone \in [Request -> Id \union {NoId}]
  /\ accepting \in BOOLEAN
  /\ barrier \in Id \union {NoId}
  /\ lastSequence \in Nat
  /\ late \in SUBSET Id

JournalInit ==
  /\ commands = [c \in Id |-> AbsentRow]
  /\ tombstone = [r \in Request |-> NoId]
  /\ accepting = TRUE
  /\ barrier = NoId
  /\ lastSequence = 0
  /\ late = {}

(* Mutant: the tombstone is not looked up.                                 *)
EveryRequestIsFree(c) == TRUE

(***************************************************************************)
(* create_command: a request that already owns a command is answered with  *)
(* it (or refused, when the hash differs) and changes nothing.             *)
(***************************************************************************)
RequestIsFree(c) == tombstone[Draft[c].request] = NoId

NewRow == [state |-> "queued", version |-> 0, sequence |-> lastSequence + 1,
           started |-> FALSE, cancelRequested |-> FALSE]

ClaimRequest(c) ==
  /\ ~Present(c)
  /\ RequestIsFree(c)
  /\ tombstone' = [tombstone EXCEPT ![Draft[c].request] = c]
  /\ lastSequence' = lastSequence + 1

(* Mutants: admission is not looked at; the capacity test is off by one.   *)
CreateUnadmitted(c) ==
  /\ c \in Execute
  /\ Cardinality(Queued) < QueueCapacity
  /\ ClaimRequest(c)
  /\ commands' = [commands EXCEPT ![c] = NewRow]
  /\ UNCHANGED <<accepting, barrier, late>>

CreateOneTooMany(c) ==
  /\ c \in Execute
  /\ accepting
  /\ Cardinality(Queued) <= QueueCapacity
  /\ ClaimRequest(c)
  /\ commands' = [commands EXCEPT ![c] = NewRow]
  /\ UNCHANGED <<accepting, barrier, late>>

CreateCommand(c) ==
  /\ c \in Execute
  /\ accepting
  /\ Cardinality(Queued) < QueueCapacity
  /\ ClaimRequest(c)
  /\ commands' = [commands EXCEPT ![c] = NewRow]
  /\ UNCHANGED <<accepting, barrier, late>>

(***************************************************************************)
(* transition: a compare-and-set on state_version, validated against the   *)
(* transition table.  started_at_ms is written when the target is RUNNING. *)
(***************************************************************************)
Admits(row, version, target) ==
  row.version = version /\ target \in Successors(row.state)

Transition(c, version, target) ==
  /\ Admits(commands[c], version, target)
  /\ commands' = [commands EXCEPT ![c].state = target,
                                  ![c].version = version + 1,
                                  ![c].started = @ \/ target = "running"]
  /\ UNCHANGED <<tombstone, accepting, barrier, lastSequence, late>>

(* Mutant: any queued command in time, in no order.                        *)
EligibleInAnyOrder(c) == c \in Queued \ late

(* next_eligible: the earliest queued command whose deadline has not       *)
(* passed.                                                                 *)
Eligible(c) ==
  /\ c \in Queued \ late
  /\ \A d \in Queued \ late : commands[c].sequence <= commands[d].sequence

(* Mutants: a state the enumeration does not have, written by the raw      *)
(* UPDATE; a version bumped under the running owner of the row.            *)
CancelledRowRaw(row) ==
  [row EXCEPT !.state = "cancelled_by_global_stop", !.version = @ + 1]
FlaggedRowBumped(row) == [row EXCEPT !.cancelRequested = TRUE, !.version = @ + 1]

(***************************************************************************)
(* apply_stop_barrier: one transaction files the stop command, cancels the *)
(* whole execute queue, flags ONE active command (SELECT ... LIMIT 1, in   *)
(* no stated order) and closes admission.  Flagging leaves the version of  *)
(* the active command alone, so that its owner's next transition holds.    *)
(***************************************************************************)
CancelledRow(row) == [row EXCEPT !.state = "cancelled_by_stop", !.version = @ + 1]
FlaggedRow(row) == [row EXCEPT !.cancelRequested = TRUE]

BarrierTargets == IF Active = {} THEN {NoId} ELSE Active

ApplyStopBarrier(s, target) ==
  /\ s \in Stop
  /\ target \in BarrierTargets
  /\ ClaimRequest(s)
  /\ commands' = [c \in Id |->
       CASE c = s -> NewRow
         [] c \in Queued -> CancelledRow(commands[c])
         [] c = target -> FlaggedRow(commands[c])
         [] OTHER -> commands[c]]
  /\ accepting' = FALSE
  /\ barrier' = s
  /\ UNCHANGED late

(***************************************************************************)
(* The controller row.                                                     *)
(***************************************************************************)
BeginShutdown ==
  /\ accepting' = FALSE
  /\ UNCHANGED <<commands, tombstone, barrier, lastSequence, late>>

(* The tail of recover_startup, once every open row has been settled.      *)
Quarantine ==
  /\ Blocked # {}
  /\ accepting' = FALSE
  /\ UNCHANGED <<commands, tombstone, barrier, lastSequence, late>>

(* begin_session reopens admission, unless some outcome is still unknown;  *)
(* its UPDATE touches the row only when admission is closed.               *)
BeginSession ==
  /\ Blocked = {}
  /\ accepting' = TRUE
  /\ barrier' = IF accepting THEN barrier ELSE NoId
  /\ UNCHANGED <<commands, tombstone, lastSequence, late>>

(* recover_startup, one row: nothing that had been queued or running is    *)
(* taken up again.                                                         *)
RecoveryTarget(state) ==
  IF state = "queued" THEN "interrupted_before_start" ELSE "blocked_unknown"

RecoverRow(c) ==
  /\ commands[c].state \in {"queued", "running", "reconciling"}
  /\ Transition(c, commands[c].version, RecoveryTarget(commands[c].state))

(* The clock passes queue_deadline_ms of a queued command.                 *)
DeadlinePasses(c) ==
  /\ c \in Queued \ late
  /\ late' = late \union {c}
  /\ UNCHANGED <<commands, tombstone, accepting, barrier, lastSequence>>

JournalNext ==
  \/ \E c \in Id : \/ CreateCommand(c)
                   \/ RecoverRow(c)
                   \/ DeadlinePasses(c)
                   \/ \E t \in States : Transition(c, commands[c].version, t)
                   \/ \E t \in Id \union {NoId} : ApplyStopBarrier(c, t)
  \/ BeginShutdown \/ Quarantine \/ BeginSession

JournalSpec == JournalInit /\ [][JournalNext]_journalVars

(***************************************************************************)
(* Properties.                                                             *)
(***************************************************************************)
(* While a stop barrier stands, admission is closed and no execute command *)
(* waits in the queue: whatever the worker read before the barrier         *)
(* committed, nothing is left for it to start (apply_stop_barrier,         *)
(* create_command, begin_session).                                         *)
BarrierHolds == barrier # NoId => ~accepting /\ Queued = {}

(* Two submissions of one (caller_scope, request_id) never both become     *)
(* commands: a retried tool call cannot act twice in the world.            *)
OneCommandPerRequest ==
  \A c, d \in Id : /\ Present(c) /\ Present(d)
                   /\ Draft[c].request = Draft[d].request
                   => c = d

(* The execute queue never outgrows config.queue_capacity.                 *)
QueueWithinCapacity == Cardinality(Queued) <= QueueCapacity

(* The statuses a caller can tell apart, and the refinement of the promise *)
(* in CommandLifecycle: begins at most once, withdrawn commands never      *)
(* begin, closed commands stay closed.                                     *)
StatusOf(state) ==
  CASE state = "absent" -> "absent"
    [] state = "queued" -> "pending"
    [] state \in {"running", "reconciling"} -> "active"
    [] state = "blocked_unknown" -> "unknown"
    [] OTHER -> "closed"

Lifecycle == INSTANCE CommandLifecycle WITH
               status <- [c \in Id |-> StatusOf(commands[c].state)],
               begun <- {c \in Id : commands[c].started}

KeepsLifecycle == Lifecycle!Spec
=============================================================================
