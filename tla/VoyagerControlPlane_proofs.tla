---------------------- MODULE VoyagerControlPlane_proofs ----------------------
(***************************************************************************)
(* Theorems about the durable command journal by itself, for every set of  *)
(* submissions, every draft and every queue capacity; and about the        *)
(* Voyager control plane that works on it, for any number of steps and     *)
(* restarts as well.                                                       *)
(*                                                                         *)
(* Its invariant is built in layers, each proved from the ones before it:  *)
(*                                                                         *)
(*   Shape       types; which tasks name a command; a process that is down *)
(*               remembers nothing                                         *)
(*   Knowledge   what each task knows of the row it last saw: a version    *)
(*               that only grows, and the state that went with it          *)
(*   Owners      which task will end each active row                       *)
(*   Quietness   for which commands the bot cannot be acting               *)
(*   Truth       what a stop knows of the command it signalled             *)
(*   Order       what the worker knows of the queue it picked from         *)
(***************************************************************************)
EXTENDS VoyagerControlPlane, FiniteSetTheorems, TLAPS

USE DEF Kinds

-----------------------------------------------------------------------------
(* The journal by itself.                                                  *)
LEMMA StateMembers ==
  /\ {"queued", "cancelled_by_stop"} \subseteq States \union {"absent"}
  /\ States \union {"absent"} = {"absent", "queued", "running", "reconciling",
       "cancelled_by_stop", "interrupted_before_start", "succeeded",
       "succeeded_reconciled", "failed", "failed_reconciled", "cancelled",
       "cancelled_reconciled", "blocked_unknown"}
BY DEF States, Terminal, Settled, UnstartedEnds, RunEnds

(* The rows that submissions and barriers write.                           *)
LEMMA NewRowType ==
  ASSUME lastSequence \in Nat
  PROVE  /\ NewRow \in Row /\ NewRow.state = "queued" /\ NewRow.started = FALSE
         /\ NewRow.version = 0 /\ NewRow.sequence = lastSequence + 1
<1>1. NewRow \in Row
  BY StateMembers DEF NewRow, Row
<1>2. /\ NewRow.state = "queued" /\ NewRow.started = FALSE
      /\ NewRow.version = 0 /\ NewRow.sequence = lastSequence + 1
  BY Zenon DEF NewRow
<1> QED
  BY <1>1, <1>2

LEMMA CancelledRowType ==
  ASSUME NEW row \in Row
  PROVE  /\ CancelledRow(row) \in Row
         /\ CancelledRow(row).state = "cancelled_by_stop"
         /\ CancelledRow(row).started = row.started
         /\ CancelledRow(row).version = row.version + 1
         /\ CancelledRow(row).sequence = row.sequence
<1>1. CancelledRow(row) \in Row
  <2>1. row.version + 1 \in Nat /\ row.started \in BOOLEAN
    BY DEF Row
  <2>2. CancelledRow(row) = [row EXCEPT !.state = "cancelled_by_stop",
                                        !.version = row.version + 1]
    BY DEF CancelledRow, Row
  <2> QED
    BY <2>1, <2>2, StateMembers DEF Row
<1>2. CancelledRow(row).state = "cancelled_by_stop"
  BY DEF CancelledRow, Row
<1>3. /\ CancelledRow(row).started = row.started
      /\ CancelledRow(row).version = row.version + 1
      /\ CancelledRow(row).sequence = row.sequence
  BY DEF CancelledRow, Row
<1> QED
  BY <1>1, <1>2, <1>3

LEMMA FlaggedRowType ==
  ASSUME NEW row \in Row
  PROVE  /\ FlaggedRow(row) \in Row
         /\ FlaggedRow(row).state = row.state
         /\ FlaggedRow(row).started = row.started
         /\ FlaggedRow(row).version = row.version
         /\ FlaggedRow(row).sequence = row.sequence
BY DEF FlaggedRow, Row

(* A transition touches one row, and records that the command began when   *)
(* the target is RUNNING.                                                  *)
LEMMA TransitionRow ==
  ASSUME JournalTypeOK, NEW c \in Id, NEW version \in Nat, NEW target \in States,
         Transition(c, version, target)
  PROVE  /\ commands' \in [Id -> Row]
         /\ commands'[c].state = target
         /\ commands'[c].started = (commands[c].started \/ target = "running")
         /\ commands'[c].version = version + 1
         /\ commands'[c].sequence = commands[c].sequence
         /\ \A d \in Id \ {c} : commands'[d] = commands[d]
<1> DEFINE started == commands[c].started \/ target = "running"
           row == [commands[c] EXCEPT !.state = target, !.version = version + 1,
                                      !.started = started]
<1>1. commands[c] \in Row /\ commands \in [Id -> Row]
  BY DEF JournalTypeOK
<1>2. commands' = [commands EXCEPT ![c] = row]
  BY <1>1 DEF Transition, Row
<1>3. started \in BOOLEAN /\ version + 1 \in Nat /\ target \in States \union {"absent"}
  OBVIOUS
<1> HIDE DEF started
<1>4. row \in Row
  BY <1>1, <1>3 DEF Row
<1>5. row.state = target
  BY <1>1 DEF Row
<1>6. /\ row.started = started /\ row.version = version + 1
      /\ row.sequence = commands[c].sequence
  BY <1>1 DEF Row
<1> HIDE DEF row
<1>7. commands'[c] = row /\ \A d \in Id \ {c} : commands'[d] = commands[d]
  BY <1>1, <1>2
<1>8. commands' \in [Id -> Row]
  BY <1>1, <1>2, <1>4
<1> QED
  BY <1>5, <1>6, <1>7, <1>8 DEF started

(* What a stop barrier does to each row of the table.                      *)
LEMMA BarrierRows ==
  ASSUME JournalTypeOK, NEW s \in Id, NEW target \in Id \union {NoId},
         ApplyStopBarrier(s, target)
  PROVE  /\ commands' \in [Id -> Row]
         /\ s \in Stop /\ ~Present(s)
         /\ commands'[s].state = "queued" /\ commands'[s].started = FALSE
         /\ commands'[s].version = 0 /\ commands'[s].sequence = lastSequence + 1
         /\ \A c \in Id \ {s} :
              /\ commands'[c].started = commands[c].started
              /\ commands'[c].sequence = commands[c].sequence
              /\ c \in Queued => /\ commands'[c].state = "cancelled_by_stop"
                                 /\ commands'[c].version = commands[c].version + 1
              /\ c \notin Queued => /\ commands'[c].state = commands[c].state
                                    /\ commands'[c].version = commands[c].version
<1>1. /\ NewRow \in Row /\ NewRow.state = "queued" /\ NewRow.started = FALSE
      /\ NewRow.version = 0 /\ NewRow.sequence = lastSequence + 1
  BY NewRowType DEF JournalTypeOK
<1>2. \A c \in Id : commands[c] \in Row
  BY DEF JournalTypeOK
<1>3. s \in Stop /\ ~Present(s)
  BY DEF ApplyStopBarrier, ClaimRequest
<1> DEFINE after(c) == CASE c = s -> NewRow
                         [] c \in Queued -> CancelledRow(commands[c])
                         [] c = target -> FlaggedRow(commands[c])
                         [] OTHER -> commands[c]
<1>4. commands' = [c \in Id |-> after(c)]
  BY DEF ApplyStopBarrier
<1>5. s \notin Queued /\ s # target /\ target \notin Queued
  BY <1>3, NoIdAssumption
  DEF Queued, Present, Stop, Execute, ApplyStopBarrier, BarrierTargets, Active,
      ActiveStates
<1>6. after(s) = NewRow
  BY <1>5
<1>7. ASSUME NEW c \in Id \ {s}
      PROVE  \/ c \in Queued /\ after(c) = CancelledRow(commands[c])
             \/ c \notin Queued /\ after(c) \in {FlaggedRow(commands[c]), commands[c]}
  <2>1. CASE c \in Queued
    BY <2>1, <1>5, <1>7
  <2>2. CASE c \notin Queued
    BY <2>2, <1>7
  <2> QED
    BY <2>1, <2>2
<1> HIDE DEF after
<1>8. ASSUME NEW c \in Id \ {s}
      PROVE  /\ after(c) \in Row
             /\ after(c).started = commands[c].started
             /\ after(c).sequence = commands[c].sequence
             /\ c \in Queued => /\ after(c).state = "cancelled_by_stop"
                                /\ after(c).version = commands[c].version + 1
             /\ c \notin Queued => /\ after(c).state = commands[c].state
                                   /\ after(c).version = commands[c].version
  BY <1>2, <1>7, CancelledRowType, FlaggedRowType
<1>9. \A c \in Id : commands'[c] = after(c)
  BY <1>4
<1>10. commands' \in [Id -> Row]
  BY <1>1, <1>4, <1>6, <1>8
<1> QED
  BY <1>1, <1>3, <1>6, <1>8, <1>9, <1>10

-----------------------------------------------------------------------------
(* Every operation keeps the tables well typed.                            *)
LEMMA JournalTypeKept ==
  ASSUME JournalTypeOK, [JournalNext]_journalVars
  PROVE  JournalTypeOK'
<1>1. ASSUME NEW c \in Id, CreateCommand(c) PROVE JournalTypeOK'
  <2>1. NewRow \in Row
    BY NewRowType DEF JournalTypeOK
  <2>2. Draft[c].request \in Request
    BY DraftAssumption
  <2> QED
    BY <1>1, <2>1, <2>2 DEF CreateCommand, ClaimRequest, JournalTypeOK
<1>2. ASSUME NEW c \in Id, NEW v \in Nat, NEW t \in States, Transition(c, v, t)
      PROVE  JournalTypeOK'
  BY <1>2, TransitionRow DEF Transition, JournalTypeOK
<1>3. ASSUME NEW c \in Id, RecoverRow(c) PROVE JournalTypeOK'
  <2>1. commands[c].version \in Nat /\ RecoveryTarget(commands[c].state) \in States
    BY DEF JournalTypeOK, Row, RecoveryTarget, States, Terminal, Settled, UnstartedEnds
  <2> QED
    BY <1>2, <1>3, <2>1 DEF RecoverRow
<1>4. ASSUME NEW c \in Id, DeadlinePasses(c) PROVE JournalTypeOK'
  BY <1>4 DEF DeadlinePasses, JournalTypeOK
<1>5. ASSUME NEW s \in Id, NEW t \in Id \union {NoId}, ApplyStopBarrier(s, t)
      PROVE  JournalTypeOK'
  <2>1. commands' \in [Id -> Row]
    BY <1>5, BarrierRows
  <2>2. tombstone' \in [Request -> Id \union {NoId}]
    BY <1>5, DraftAssumption DEF ApplyStopBarrier, ClaimRequest, JournalTypeOK
  <2>3. /\ accepting' = FALSE /\ barrier' = s /\ late' = late
        /\ lastSequence' = lastSequence + 1
    BY <1>5 DEF ApplyStopBarrier, ClaimRequest
  <2>4. accepting' \in BOOLEAN
    BY <2>3
  <2> QED
    BY <2>1, <2>2, <2>3, <2>4, Zenon, SMT DEF JournalTypeOK
<1>6. ASSUME NEW c \in Id, NEW t \in States, Transition(c, commands[c].version, t)
      PROVE  JournalTypeOK'
  <2>1. commands[c].version \in Nat
    BY DEF JournalTypeOK, Row
  <2> QED
    BY <1>2, <1>6, <2>1
<1>7. CASE BeginShutdown
  BY <1>7 DEF BeginShutdown, JournalTypeOK
<1>8. CASE Quarantine
  BY <1>8 DEF Quarantine, JournalTypeOK
<1>9. CASE BeginSession
  BY <1>9 DEF BeginSession, JournalTypeOK
<1>10. CASE UNCHANGED journalVars
  BY <1>10 DEF journalVars, JournalTypeOK
<1> QED
  BY <1>1, <1>3, <1>4, <1>5, <1>6, <1>7, <1>8, <1>9, <1>10 DEF JournalNext

(* Every reachable journal is well typed.                                  *)
THEOREM JournalTypeCorrect == JournalSpec => []JournalTypeOK
<1>1. JournalInit => JournalTypeOK
  BY NoIdAssumption DEF JournalInit, JournalTypeOK, AbsentRow, Row
<1> QED
  BY <1>1, JournalTypeKept, PTL DEF JournalSpec

-----------------------------------------------------------------------------
(* The transition table of command_models.py, read as statuses.            *)
LEMMA SuccessorStatus ==
  ASSUME NEW s, NEW t \in Successors(s)
  PROVE  /\ t \in States \ {"queued"}
         /\ \/ s = "queued" /\ t = "running"
            \/ s = "queued" /\ StatusOf(t) = "closed" /\ t # "running"
            \/ StatusOf(s) = "active" /\ t # "running"
               /\ StatusOf(t) \in {"active", "closed", "unknown"}
            \/ s = "blocked_unknown" /\ StatusOf(t) = "active" /\ t # "running"
<1>1. CASE s = "queued"
  BY <1>1, StateMembers DEF Successors, UnstartedEnds, StatusOf, States
<1>2. CASE s \in {"running", "reconciling"}
  BY <1>2, StateMembers DEF Successors, RunEnds, StatusOf, States
<1>3. CASE s = "blocked_unknown"
  BY <1>3, StateMembers DEF Successors, StatusOf, States
<1>4. CASE s \notin {"queued", "running", "reconciling", "blocked_unknown"}
  BY <1>4 DEF Successors
<1> QED
  BY <1>1, <1>2, <1>3, <1>4

(* Every transition of the journal is a transition of a well typed row.    *)
LEMMA TransitionSteps ==
  ASSUME JournalTypeOK, NEW c \in Id, NEW version, NEW target,
         Transition(c, version, target)
  PROVE  /\ version \in Nat /\ version = commands[c].version
         /\ target \in States \ {"queued"} /\ target \in Successors(commands[c].state)
<1>1. version = commands[c].version /\ target \in Successors(commands[c].state)
  BY DEF Transition, Admits
<1>2. commands[c].version \in Nat
  BY DEF JournalTypeOK, Row
<1> QED
  BY <1>1, <1>2, SuccessorStatus

(* What any step of the journal may do to an accepted row: it keeps its    *)
(* place in the queue, its version only grows, it keeps its state while it *)
(* keeps its version, and once settled it stays settled.                   *)
LEMMA RowsMove ==
  ASSUME JournalTypeOK, [JournalNext]_journalVars, NEW c \in Id, Present(c)
  PROVE  /\ Present(c)'
         /\ commands'[c].sequence = commands[c].sequence
         /\ commands'[c].version >= commands[c].version
         /\ commands'[c].version = commands[c].version
              => commands'[c].state = commands[c].state
         /\ commands[c].state \in Settled => commands'[c].state = commands[c].state
<1> DEFINE Moved ==
      /\ commands'[c].state # "absent"
      /\ commands'[c].sequence = commands[c].sequence
      /\ commands'[c].version >= commands[c].version
      /\ commands'[c].version = commands[c].version
           => commands'[c].state = commands[c].state
      /\ commands[c].state \in Settled => commands'[c].state = commands[c].state
<1> SUFFICES Moved
  BY DEF Present
<1>1. commands[c].version \in Nat /\ commands[c].state # "absent"
  BY DEF JournalTypeOK, Row, Present
<1>2. CASE commands'[c] = commands[c]
  BY <1>1, <1>2
<1>3. ASSUME NEW d \in Id, CreateCommand(d) PROVE Moved
  <2>1. commands'[c] = commands[c]
    BY <1>1, <1>3 DEF CreateCommand, ClaimRequest, JournalTypeOK, Present
  <2> QED
    BY <1>2, <2>1
<1>4. ASSUME NEW d \in Id, NEW v, NEW t, Transition(d, v, t) PROVE Moved
  <2>1. /\ v \in Nat /\ v = commands[d].version
        /\ t \in States /\ t \in Successors(commands[d].state)
    BY <1>4, TransitionSteps
  <2>2. CASE d = c
    <3>1. /\ commands'[c].state = t /\ commands'[c].version = commands[c].version + 1
          /\ commands'[c].sequence = commands[c].sequence
      BY <1>4, <2>1, <2>2, TransitionRow
    <3>2. commands[c].state \notin Settled
      BY <2>1, <2>2 DEF Successors, Settled, UnstartedEnds, RunEnds
    <3>3. t # "absent"
      BY <2>1 DEF States, Terminal, Settled, UnstartedEnds, RunEnds
    <3> QED
      BY <1>1, <3>1, <3>2, <3>3
  <2>3. CASE d # c
    BY <1>2, <1>4, <2>1, <2>3, TransitionRow
  <2> QED
    BY <2>2, <2>3
<1>5. ASSUME NEW d \in Id, RecoverRow(d) PROVE Moved
  BY <1>4, <1>5 DEF RecoverRow
<1>6. ASSUME NEW s \in Id, NEW t \in Id \union {NoId}, ApplyStopBarrier(s, t)
      PROVE  Moved
  <2>1. /\ c # s
        /\ commands'[c].sequence = commands[c].sequence
        /\ c \in Queued => /\ commands'[c].state = "cancelled_by_stop"
                           /\ commands'[c].version = commands[c].version + 1
        /\ c \notin Queued => /\ commands'[c].state = commands[c].state
                              /\ commands'[c].version = commands[c].version
    BY <1>6, BarrierRows
  <2> QED
    BY <1>1, <2>1 DEF Queued, Settled, UnstartedEnds, RunEnds
<1>7. CASE UNCHANGED commands
  BY <1>2, <1>7
<1> HIDE DEF Moved
<1> QED
  BY <1>3, <1>4, <1>5, <1>6, <1>7
  DEF JournalNext, journalVars, DeadlinePasses, BeginShutdown, Quarantine, BeginSession

(* No transition puts a command into the queue.                            *)
LEMMA TransitionQueue ==
  ASSUME JournalTypeOK, NEW c \in Id, NEW version, NEW target,
         Transition(c, version, target)
  PROVE  Queued' \subseteq Queued
<1>1. version \in Nat /\ target \in States \ {"queued"}
  BY TransitionSteps
<1>2. commands'[c].state # "queued" /\ \A d \in Id \ {c} : commands'[d] = commands[d]
  BY <1>1, TransitionRow
<1> QED
  BY <1>2 DEF Queued, Execute

(* A command joins the queue at its end: with a sequence that no row has.  *)
SequencesBounded == \A c \in Id : commands[c].sequence <= lastSequence

LEMMA QueueGrowsAtItsEnd ==
  ASSUME JournalTypeOK, SequencesBounded, [JournalNext]_journalVars
  PROVE  /\ SequencesBounded'
         /\ late \subseteq late'
         /\ \A d \in Queued' :
              \/ d \in Queued /\ commands'[d].sequence = commands[d].sequence
              \/ commands'[d].sequence > lastSequence
<1> DEFINE Stays(c) == /\ commands'[c].sequence = commands[c].sequence
                       /\ c \in Queued' => c \in Queued
           Joins(c) == /\ commands'[c].sequence = lastSequence + 1
                       /\ lastSequence' = lastSequence + 1
           Orderly == /\ late \subseteq late' /\ lastSequence' \in {lastSequence, lastSequence + 1}
                      /\ \A c \in Id : Stays(c) \/ Joins(c)
<1>a. /\ lastSequence \in Nat /\ commands \in [Id -> Row]
      /\ \A c \in Id : commands[c].sequence \in Nat /\ commands[c].version \in Nat
      /\ \A c \in Queued' : c \in Id
  BY DEF JournalTypeOK, Row, Queued, Execute
<1>1. ASSUME Orderly
      PROVE  /\ SequencesBounded'
             /\ late \subseteq late'
             /\ \A d \in Queued' :
                  \/ d \in Queued /\ commands'[d].sequence = commands[d].sequence
                  \/ commands'[d].sequence > lastSequence
  BY <1>1, <1>a DEF SequencesBounded
<1> SUFFICES Orderly
  BY <1>1
<1>2. ASSUME UNCHANGED commands, UNCHANGED lastSequence, late \subseteq late' PROVE Orderly
  BY <1>2 DEF Queued
<1>3. ASSUME NEW d \in Id, CreateCommand(d) PROVE Orderly
  <2>1. /\ commands' = [commands EXCEPT ![d] = NewRow] /\ lastSequence' = lastSequence + 1
        /\ late' = late /\ NewRow.sequence = lastSequence + 1
    BY <1>3 DEF CreateCommand, ClaimRequest, NewRow
  <2>2. Joins(d)
    BY <1>a, <2>1
  <2>3. \A c \in Id \ {d} : Stays(c)
    BY <1>a, <2>1 DEF Queued
  <2> QED
    BY <2>1, <2>2, <2>3
<1>4. ASSUME NEW d \in Id, NEW v, NEW t, Transition(d, v, t) PROVE Orderly
  <2>1. /\ v \in Nat /\ t \in States /\ Queued' \subseteq Queued
        /\ lastSequence' = lastSequence /\ late' = late
    BY <1>4, TransitionSteps, TransitionQueue DEF Transition
  <2>2. \A c \in Id : commands'[c].sequence = commands[c].sequence
    BY <1>4, <2>1, TransitionRow
  <2> QED
    BY <2>1, <2>2
<1>5. ASSUME NEW s \in Id, NEW t \in Id \union {NoId}, ApplyStopBarrier(s, t)
      PROVE  Orderly
  <2>1. /\ commands'[s].sequence = lastSequence + 1
        /\ \A c \in Id \ {s} :
             /\ commands'[c].sequence = commands[c].sequence
             /\ c \in Queued => commands'[c].state = "cancelled_by_stop"
             /\ c \notin Queued => commands'[c].state = commands[c].state
    BY <1>5, BarrierRows
  <2>2. lastSequence' = lastSequence + 1 /\ late' = late
    BY <1>5 DEF ApplyStopBarrier, ClaimRequest
  <2>3. ASSUME NEW c \in Id \ {s} PROVE Stays(c)
    <3>1. commands'[c].state = "queued" => commands[c].state = "queued"
      BY <2>1
    <3> QED
      BY <2>1, <3>1 DEF Queued
  <2> QED
    BY <2>1, <2>2, <2>3
<1> HIDE DEF Orderly
<1> QED
  BY <1>2, <1>3, <1>4, <1>5
  DEF JournalNext, journalVars, RecoverRow, DeadlinePasses, BeginShutdown, Quarantine,
      BeginSession

(* A standing stop barrier keeps admission closed and the execute queue    *)
(* empty, whatever the callers of the journal do.                          *)
THEOREM BarrierIsKept == JournalSpec => []BarrierHolds
<1>1. JournalInit => BarrierHolds
  BY DEF JournalInit, BarrierHolds
<1>2. JournalTypeOK /\ BarrierHolds /\ [JournalNext]_journalVars => BarrierHolds'
  <2> SUFFICES ASSUME JournalTypeOK, BarrierHolds, [JournalNext]_journalVars
               PROVE  BarrierHolds'
    OBVIOUS
  <2>1. ASSUME NEW c \in Id, CreateCommand(c) PROVE BarrierHolds'
    BY <2>1 DEF CreateCommand, BarrierHolds
  <2>2. ASSUME NEW c \in Id, NEW v, NEW t, Transition(c, v, t) PROVE BarrierHolds'
    <3>1. Queued' \subseteq Queued
      BY <2>2, TransitionQueue
    <3> QED
      BY <2>2, <3>1 DEF Transition, BarrierHolds
  <2>3. ASSUME NEW c \in Id, RecoverRow(c) PROVE BarrierHolds'
    BY <2>2, <2>3 DEF RecoverRow
  <2>4. ASSUME NEW c \in Id, DeadlinePasses(c) PROVE BarrierHolds'
    BY <2>4 DEF DeadlinePasses, BarrierHolds, Queued
  <2>5. ASSUME NEW s \in Id, NEW t \in Id \union {NoId}, ApplyStopBarrier(s, t)
        PROVE  BarrierHolds'
    <3>1. s \in Stop /\ \A c \in Execute \ {s} : commands'[c].state # "queued"
      BY <2>5, BarrierRows DEF Queued, Execute
    <3>2. Queued' = {}
      BY <3>1 DEF Queued, Execute, Stop
    <3> QED
      BY <2>5, <3>2 DEF ApplyStopBarrier, BarrierHolds
  <2>6. CASE BeginShutdown
    BY <2>6 DEF BeginShutdown, BarrierHolds, Queued
  <2>7. CASE Quarantine
    BY <2>7 DEF Quarantine, BarrierHolds, Queued
  <2>8. CASE BeginSession
    BY <2>8 DEF BeginSession, BarrierHolds, Queued
  <2>9. CASE UNCHANGED journalVars
    BY <2>9 DEF journalVars, BarrierHolds, Queued
  <2> QED
    BY <2>1, <2>2, <2>3, <2>4, <2>5, <2>6, <2>7, <2>8, <2>9 DEF JournalNext
<1> QED
  BY <1>1, <1>2, JournalTypeCorrect, PTL DEF JournalSpec

(* The tombstone of a request names the only command it ever became.       *)
RequestOwned == \A c \in Id : Present(c) => tombstone[Draft[c].request] = c

(* A step of the journal files at most one command, for a free request.    *)
LEMMA RequestOwnedKept ==
  ASSUME JournalTypeOK, RequestOwned, NEW f \in Id, ClaimRequest(f),
         \A c \in Id \ {f} : Present(c)' => Present(c)
  PROVE  RequestOwned'
<1>1. tombstone' = [tombstone EXCEPT ![Draft[f].request] = f]
      /\ tombstone[Draft[f].request] = NoId /\ tombstone \in [Request -> Id \union {NoId}]
  BY DEF ClaimRequest, RequestIsFree, JournalTypeOK
<1>2. \A c \in Id : Draft[c].request \in Request
  BY DraftAssumption
<1>3. ASSUME NEW c \in Id, Present(c)' PROVE tombstone'[Draft[c].request] = c
  <2>1. CASE c = f
    BY <2>1, <1>1, <1>2
  <2>2. CASE c # f
    <3>1. tombstone[Draft[c].request] = c
      BY <2>2, <1>3 DEF RequestOwned
    <3>2. Draft[c].request # Draft[f].request
      BY <3>1, <1>1, NoIdAssumption
    <3> QED
      BY <3>1, <3>2, <1>1, <1>2
  <2> QED
    BY <2>1, <2>2
<1> QED
  BY <1>3 DEF RequestOwned

(* A request that is repeated, for ever and by anyone, never becomes a     *)
(* second command.                                                         *)
THEOREM RequestsAreIdempotent == JournalSpec => []OneCommandPerRequest
<1>1. JournalInit => RequestOwned
  BY DEF JournalInit, RequestOwned, Present, AbsentRow
<1>2. JournalTypeOK /\ RequestOwned /\ [JournalNext]_journalVars => RequestOwned'
  <2> SUFFICES ASSUME JournalTypeOK, RequestOwned, [JournalNext]_journalVars
               PROVE  RequestOwned'
    OBVIOUS
  <2>1. ASSUME NEW c \in Id, CreateCommand(c) PROVE RequestOwned'
    <3>1. \A d \in Id \ {c} : commands'[d] = commands[d]
      BY <2>1 DEF CreateCommand, JournalTypeOK
    <3> QED
      BY <2>1, <3>1, RequestOwnedKept DEF CreateCommand, Present
  <2>2. ASSUME NEW c \in Id, NEW v, NEW t, Transition(c, v, t) PROVE RequestOwned'
    <3>1. Present(c) /\ \A d \in Id \ {c} : commands'[d] = commands[d]
      <4>1. v \in Nat /\ t \in States /\ t \in Successors(commands[c].state)
        BY <2>2, TransitionSteps
      <4>2. commands[c].state # "absent"
        BY <4>1, SuccessorStatus DEF StatusOf
      <4> QED
        BY <4>1, <4>2, <2>2, TransitionRow DEF Present
    <3> QED
      BY <2>2, <3>1 DEF Transition, RequestOwned, Present
  <2>3. ASSUME NEW c \in Id, RecoverRow(c) PROVE RequestOwned'
    BY <2>2, <2>3 DEF RecoverRow
  <2>4. ASSUME NEW c \in Id, DeadlinePasses(c) PROVE RequestOwned'
    BY <2>4 DEF DeadlinePasses, RequestOwned, Present
  <2>5. ASSUME NEW s \in Id, NEW t \in Id \union {NoId}, ApplyStopBarrier(s, t)
        PROVE  RequestOwned'
    <3>1. \A c \in Id \ {s} : Present(c)' => Present(c)
      BY <2>5, BarrierRows DEF Present, Queued
    <3> QED
      BY <2>5, <3>1, RequestOwnedKept DEF ApplyStopBarrier
  <2>6. CASE BeginShutdown
    BY <2>6 DEF BeginShutdown, RequestOwned, Present
  <2>7. CASE Quarantine
    BY <2>7 DEF Quarantine, RequestOwned, Present
  <2>8. CASE BeginSession
    BY <2>8 DEF BeginSession, RequestOwned, Present
  <2>9. CASE UNCHANGED journalVars
    BY <2>9 DEF journalVars, RequestOwned, Present
  <2> QED
    BY <2>1, <2>2, <2>3, <2>4, <2>5, <2>6, <2>7, <2>8, <2>9 DEF JournalNext
<1>3. RequestOwned => OneCommandPerRequest
  BY DEF RequestOwned, OneCommandPerRequest
<1> QED
  BY <1>1, <1>2, <1>3, JournalTypeCorrect, PTL DEF JournalSpec

(* A cardinality bounds only a finite set.                                 *)
BoundedQueue == IsFiniteSet(Queued) /\ Cardinality(Queued) <= QueueCapacity

LEMMA SmallerQueue ==
  ASSUME BoundedQueue, Queued' \subseteq Queued
  PROVE  BoundedQueue'
<1>1. IsFiniteSet(Queued') /\ Cardinality(Queued') <= Cardinality(Queued)
  BY FS_Subset DEF BoundedQueue
<1>2. Cardinality(Queued') \in Nat /\ Cardinality(Queued) \in Nat
  BY <1>1, FS_CardinalityType DEF BoundedQueue
<1> QED
  BY <1>1, <1>2, CapacityAssumption DEF BoundedQueue

(* The queue is bounded: create_command counts before it inserts, in the   *)
(* same transaction, and no other operation adds to the queue.             *)
THEOREM QueueIsBounded == JournalSpec => []QueueWithinCapacity
<1>1. JournalInit => BoundedQueue
  <2> SUFFICES ASSUME JournalInit PROVE BoundedQueue
    OBVIOUS
  <2>1. Queued = {}
    BY DEF JournalInit, Queued, Execute, AbsentRow
  <2> QED
    BY <2>1, FS_EmptySet, CapacityAssumption DEF BoundedQueue
<1>2. JournalTypeOK /\ BoundedQueue /\ [JournalNext]_journalVars => BoundedQueue'
  <2> SUFFICES ASSUME JournalTypeOK, BoundedQueue, [JournalNext]_journalVars
               PROVE  BoundedQueue'
    OBVIOUS
  <2>1. ASSUME NEW c \in Id, CreateCommand(c) PROVE BoundedQueue'
    <3>1. Queued' \subseteq Queued \union {c}
      BY <2>1 DEF CreateCommand, JournalTypeOK, Queued
    <3>2. IsFiniteSet(Queued \union {c})
          /\ Cardinality(Queued \union {c}) <= Cardinality(Queued) + 1
      <4>1. Cardinality(Queued) \in Nat
        BY FS_CardinalityType DEF BoundedQueue
      <4> QED
        BY <4>1, FS_AddElement DEF BoundedQueue
    <3>3. IsFiniteSet(Queued') /\ Cardinality(Queued') <= Cardinality(Queued \union {c})
      BY <3>1, <3>2, FS_Subset
    <3>4. /\ Cardinality(Queued) \in Nat /\ Cardinality(Queued') \in Nat
          /\ Cardinality(Queued \union {c}) \in Nat
      BY <3>2, <3>3, FS_CardinalityType DEF BoundedQueue
    <3>5. Cardinality(Queued) < QueueCapacity
      BY <2>1 DEF CreateCommand
    <3> QED
      BY <3>2, <3>3, <3>4, <3>5, CapacityAssumption DEF BoundedQueue
  <2>2. ASSUME NEW c \in Id, NEW v, NEW t, Transition(c, v, t) PROVE BoundedQueue'
    BY <2>2, TransitionQueue, SmallerQueue
  <2>3. ASSUME NEW c \in Id, RecoverRow(c) PROVE BoundedQueue'
    BY <2>2, <2>3 DEF RecoverRow
  <2>4. ASSUME NEW s \in Id, NEW t \in Id \union {NoId}, ApplyStopBarrier(s, t)
        PROVE  BoundedQueue'
    <3>1. \A c \in Execute \ {s} : commands'[c].state # "queued"
      BY <2>4, BarrierRows DEF Queued, Execute
    <3>2. s \notin Execute
      BY <2>4 DEF ApplyStopBarrier, Stop, Execute
    <3> QED
      BY <3>1, <3>2, SmallerQueue DEF Queued, Execute
  <2>5. CASE UNCHANGED commands
    BY <2>5, SmallerQueue DEF Queued
  <2> QED
    BY <2>1, <2>2, <2>3, <2>4, <2>5
    DEF JournalNext, journalVars, DeadlinePasses, BeginShutdown, Quarantine, BeginSession
<1>3. BoundedQueue => QueueWithinCapacity
  BY DEF BoundedQueue, QueueWithinCapacity
<1> QED
  BY <1>1, <1>2, <1>3, JournalTypeCorrect, PTL DEF JournalSpec

-----------------------------------------------------------------------------
(* The journal implements the promise of CommandLifecycle.                 *)
LEMMA TransitionRefines ==
  ASSUME JournalTypeOK, NEW c \in Id, NEW version, NEW target,
         Transition(c, version, target)
  PROVE  Lifecycle!Next \/ UNCHANGED Lifecycle!vars
<1> DEFINE before == commands[c].state
<1>1. version \in Nat /\ target \in States /\ target \in Successors(before)
  BY TransitionSteps
<1>2. /\ commands \in [Id -> Row] /\ commands' \in [Id -> Row]
      /\ commands'[c].state = target
      /\ commands'[c].started = (commands[c].started \/ target = "running")
      /\ \A d \in Id \ {c} : commands'[d] = commands[d]
  BY <1>1, TransitionRow DEF JournalTypeOK
<1>3. [d \in Id |-> StatusOf(commands'[d].state)]
      = [[d \in Id |-> StatusOf(commands[d].state)] EXCEPT ![c] = StatusOf(target)]
  BY <1>2
<1>4. {d \in Id : commands'[d].started}
      = IF target = "running" THEN {d \in Id : commands[d].started} \union {c}
        ELSE {d \in Id : commands[d].started}
  <2>1. CASE target = "running"
    BY <2>1, <1>2
  <2>2. CASE target # "running"
    BY <2>2, <1>2
  <2> QED
    BY <2>1, <2>2
<1>5. CASE before = "queued" /\ target = "running"
  <2>1. Lifecycle!Begin(c)
    BY <1>3, <1>4, <1>5 DEF Lifecycle!Begin, Lifecycle!Move, StatusOf
  <2> QED
    BY <2>1 DEF Lifecycle!Next
<1>6. CASE before = "queued" /\ StatusOf(target) = "closed" /\ target # "running"
  <2>1. Lifecycle!Withdraw(c)
    BY <1>3, <1>4, <1>6 DEF Lifecycle!Withdraw, Lifecycle!Move, StatusOf
  <2> QED
    BY <2>1 DEF Lifecycle!Next
<1>7. CASE StatusOf(before) = "active" /\ target # "running"
           /\ StatusOf(target) \in {"active", "closed", "unknown"}
  <2>1. CASE StatusOf(target) = "closed"
    <3>1. Lifecycle!Settle(c)
      BY <1>3, <1>4, <1>7, <2>1 DEF Lifecycle!Settle, Lifecycle!Move
    <3> QED
      BY <3>1 DEF Lifecycle!Next
  <2>2. CASE StatusOf(target) = "unknown"
    <3>1. Lifecycle!LoseTrack(c)
      BY <1>3, <1>4, <1>7, <2>2 DEF Lifecycle!LoseTrack, Lifecycle!Move
    <3> QED
      BY <3>1 DEF Lifecycle!Next
  <2>3. CASE StatusOf(target) = "active"
    BY <1>3, <1>4, <1>7, <2>3 DEF Lifecycle!vars
  <2> QED
    BY <1>7, <2>1, <2>2, <2>3
<1>8. CASE before = "blocked_unknown" /\ StatusOf(target) = "active" /\ target # "running"
  <2>1. Lifecycle!Reexamine(c)
    BY <1>3, <1>4, <1>8 DEF Lifecycle!Reexamine, Lifecycle!Move, StatusOf
  <2> QED
    BY <2>1 DEF Lifecycle!Next
<1> QED
  BY <1>1, <1>5, <1>6, <1>7, <1>8, SuccessorStatus

(* A command that was never submitted never began; without this fact an    *)
(* accepted command could drop out of the begun ones.                      *)
AbsentUnbegun == \A c \in Id : ~Present(c) => commands[c].started = FALSE

LEMMA CreateRefines ==
  ASSUME JournalTypeOK, AbsentUnbegun, NEW c \in Id, CreateCommand(c)
  PROVE  Lifecycle!Next
<1>1. commands' = [commands EXCEPT ![c] = NewRow] /\ ~Present(c)
  BY DEF CreateCommand, ClaimRequest
<1>2. NewRow.state = "queued" /\ NewRow.started = FALSE
  BY NewRowType DEF JournalTypeOK
<1>3. commands[c].started = FALSE /\ commands[c].state = "absent"
  BY <1>1 DEF AbsentUnbegun, Present
<1> HIDE DEF NewRow
<1>4. commands'[c] = NewRow /\ \A d \in Id \ {c} : commands'[d] = commands[d]
  BY <1>1 DEF JournalTypeOK
<1>5. [d \in Id |-> StatusOf(commands'[d].state)]
      = [[d \in Id |-> StatusOf(commands[d].state)] EXCEPT ![c] = StatusOf("queued")]
  BY <1>2, <1>4
<1>6. {d \in Id : commands'[d].started} = {d \in Id : commands[d].started}
  BY <1>2, <1>3, <1>4
<1>7. Lifecycle!Accept(c)
  BY <1>3, <1>5, <1>6 DEF Lifecycle!Accept, Lifecycle!Move, StatusOf
<1> QED
  BY <1>7 DEF Lifecycle!Next

LEMMA BarrierRefines ==
  ASSUME JournalTypeOK, AbsentUnbegun, NEW s \in Id, NEW t \in Id \union {NoId},
         ApplyStopBarrier(s, t)
  PROVE  Lifecycle!Next
<1>1. /\ s \in Stop /\ ~Present(s)
      /\ commands'[s].state = "queued" /\ commands'[s].started = FALSE
      /\ \A c \in Id \ {s} :
           /\ commands'[c].started = commands[c].started
           /\ c \in Queued => commands'[c].state = "cancelled_by_stop"
           /\ c \notin Queued => commands'[c].state = commands[c].state
  BY BarrierRows
<1>2. commands[s].started = FALSE /\ commands[s].state = "absent"
  BY <1>1 DEF AbsentUnbegun, Present
<1>3. {c \in Id : commands'[c].started} = {c \in Id : commands[c].started}
  BY <1>1, <1>2
<1>4. \A c \in Id \ {s} : c \in Queued
         <=> c \notin Stop /\ StatusOf(commands[c].state) = "pending"
  <2>1. \A c \in Id : c \in Stop <=> c \notin Execute
    BY DraftAssumption DEF Stop, Execute
  <2>2. \A c \in Id : commands[c].state = "queued" <=> StatusOf(commands[c].state) = "pending"
    BY DEF StatusOf
  <2> QED
    BY <2>1, <2>2 DEF Queued
<1>5. ASSUME NEW c \in Id
      PROVE  StatusOf(commands'[c].state) =
               CASE c = s -> "pending"
                 [] c \notin Stop /\ StatusOf(commands[c].state) = "pending" -> "closed"
                 [] OTHER -> StatusOf(commands[c].state)
  <2>1. CASE c = s
    BY <2>1, <1>1, <1>2 DEF StatusOf
  <2>2. CASE c # s /\ c \in Queued
    BY <2>2, <1>1, <1>4 DEF StatusOf
  <2>3. CASE c # s /\ c \notin Queued
    BY <2>3, <1>1, <1>4
  <2> QED
    BY <2>1, <2>2, <2>3
<1>6. Lifecycle!RaiseBarrier(s)
  BY <1>1, <1>2, <1>3, <1>5 DEF Lifecycle!RaiseBarrier, StatusOf
<1> QED
  BY <1>6 DEF Lifecycle!Next

(* What callers may rely on holds of the tables: commands begin at most    *)
(* once and never after they were withdrawn, ended commands stay ended,    *)
(* and a stop withdraws the queue in the step that files it.               *)
THEOREM JournalKeepsLifecycle == JournalSpec => KeepsLifecycle
<1>1. JournalInit => Lifecycle!Init /\ AbsentUnbegun
  BY DEF JournalInit, AbsentRow, AbsentUnbegun, StatusOf, Lifecycle!Init
<1>2. JournalTypeOK /\ AbsentUnbegun /\ [JournalNext]_journalVars
        => AbsentUnbegun' /\ [Lifecycle!Next]_(Lifecycle!vars)
  <2> SUFFICES ASSUME JournalTypeOK, AbsentUnbegun, [JournalNext]_journalVars
               PROVE  AbsentUnbegun' /\ [Lifecycle!Next]_(Lifecycle!vars)
    OBVIOUS
  <2>1. ASSUME NEW c \in Id, CreateCommand(c)
        PROVE  AbsentUnbegun' /\ Lifecycle!Next
    <3>1. commands'[c].state = "queued" /\ \A d \in Id \ {c} : commands'[d] = commands[d]
      BY <2>1, NewRowType DEF CreateCommand, JournalTypeOK
    <3> QED
      BY <2>1, <3>1, CreateRefines DEF AbsentUnbegun, Present
  <2>2. ASSUME NEW c \in Id, NEW v, NEW t, Transition(c, v, t)
        PROVE  AbsentUnbegun' /\ [Lifecycle!Next]_(Lifecycle!vars)
    <3>1. v \in Nat /\ t \in States
      BY <2>2, TransitionSteps
    <3>2. t # "absent"
      BY <3>1 DEF States, Terminal, Settled, UnstartedEnds, RunEnds
    <3>3. commands'[c].state # "absent" /\ \A d \in Id \ {c} : commands'[d] = commands[d]
      BY <2>2, <3>1, <3>2, TransitionRow
    <3> QED
      BY <2>2, <3>3, TransitionRefines DEF AbsentUnbegun, Present
  <2>3. ASSUME NEW c \in Id, RecoverRow(c)
        PROVE  AbsentUnbegun' /\ [Lifecycle!Next]_(Lifecycle!vars)
    BY <2>2, <2>3 DEF RecoverRow
  <2>4. ASSUME NEW s \in Id, NEW t \in Id \union {NoId}, ApplyStopBarrier(s, t)
        PROVE  AbsentUnbegun' /\ Lifecycle!Next
    <3>1. AbsentUnbegun'
      BY <2>4, BarrierRows DEF AbsentUnbegun, Present
    <3> QED
      BY <2>4, <3>1, BarrierRefines
  <2>5. CASE UNCHANGED commands
    BY <2>5 DEF AbsentUnbegun, Present, Lifecycle!vars
  <2> QED
    BY <2>1, <2>2, <2>3, <2>4, <2>5
    DEF JournalNext, journalVars, DeadlinePasses, BeginShutdown, Quarantine, BeginSession
<1> QED
  BY <1>1, <1>2, JournalTypeCorrect, PTL DEF JournalSpec, KeepsLifecycle, Lifecycle!Spec

-----------------------------------------------------------------------------
(* Shape.                                                                  *)

Holding == {"picked", "enter", "report"} \union Executing
Targeting == {"signal", "read", "decide", "claim", "recover", "settle",
              "release", "wait"}

WorkerRecord == [pc : WorkerPcs, command : Id \union {NoId}, version : Nat,
                 cancelSeen : BOOLEAN, outcome : Terminal, reconcile : BOOLEAN]
StopRecord == [pc : StopPcs, target : Id \union {NoId}, version : Nat,
               readable : BOOLEAN, outcome : Terminal, incomplete : BOOLEAN]
Entry == [command : Id, version : Nat]
TerminatorRecord == [pc : {"idle", "stopped", "loop", "claimed", "failed"},
                     page : SUBSET Entry, command : Id \union {NoId}, version : Nat]
StepRecord == [ordinal : 0..MaxSteps,
               state : {"none", "reserved", "dispatched", "unknown", "settled"}]
RuntimeRecord == [acting : Correlation \union {NoStep}, cancelled : BOOLEAN,
                  mode : {"ready", "settling", "quarantined"},
                  receipt : [Id -> Outcomes]]

ProcessTypeOK ==
  /\ phase \in {"down", "recovering", "up", "closing"}
  /\ restarts \in 0..MaxRestarts
  /\ controller \in {"idle", "running", "reconciling", "quarantined"}
  /\ activeId \in Id \union {NoId}
  /\ activeStep \in Correlation \union {NoStep}

(* A task that goes on with a command goes on with an execute command, and *)
(* the worker only sends a step that it reserved.                          *)
WorkerNames ==
  /\ worker \in WorkerRecord
  /\ worker.pc \in Holding => worker.command \in Execute
  /\ worker.pc \in {"reserved", "dispatched"} => steps[worker.command].ordinal > 0

StopperNames ==
  /\ stopper \in [Stop -> StopRecord]
  /\ \A s \in Stop : /\ stopper[s].target \in Execute \union {NoId}
                     /\ stopper[s].pc \in Targeting => stopper[s].target # NoId

TerminatorNames ==
  /\ terminator \in TerminatorRecord
  /\ \A entry \in terminator.page : entry.command \in Execute
  /\ terminator.pc = "claimed" => terminator.command \in Execute

WorldNames ==
  /\ steps \in [Id -> StepRecord]
  /\ \A c \in Id : steps[c].ordinal > 0 => c \in Execute
  /\ runtime \in RuntimeRecord
  /\ runtime.acting # NoStep => runtime.acting.command \in Execute

DownIsEmpty ==
  phase \in {"down", "recovering"} =>
    /\ worker.pc = "off"
    /\ stopper = [s \in Stop |-> NewStopper]
    /\ terminator = NewTerminator

Shape == /\ JournalTypeOK /\ ProcessTypeOK /\ WorkerNames /\ StopperNames
         /\ TerminatorNames /\ WorldNames /\ DownIsEmpty

LEMMA ShapeIsTyped == Shape => TypeOK
BY DEF Shape, TypeOK, ProcessTypeOK, WorkerNames, StopperNames, TerminatorNames,
       WorldNames, WorkerRecord, StopRecord, TerminatorRecord, Entry, StepRecord,
       RuntimeRecord

(* The records that tasks are created with.                                *)
LEMMA RecordMembers ==
  /\ IdleWorker \in WorkerRecord /\ IdleWorker.pc = "poll"
  /\ [IdleWorker EXCEPT !.pc = "off"] \in WorkerRecord
  /\ NewStopper \in StopRecord /\ NewStopper.pc = "new" /\ NewStopper.target = NoId
  /\ NewTerminator \in TerminatorRecord /\ NewTerminator.pc = "idle"
  /\ NewTerminator.page = {}
BY DEF IdleWorker, WorkerRecord, WorkerPcs, NewStopper, StopRecord, StopPcs,
       NewTerminator, TerminatorRecord, Terminal, Settled, UnstartedEnds, RunEnds

LEMMA ShapeInit == Init => Shape
<1> SUFFICES ASSUME Init PROVE Shape
  OBVIOUS
<1>1. JournalTypeOK
  BY NoIdAssumption DEF Init, JournalInit, JournalTypeOK, AbsentRow, Row
<1>2. ProcessTypeOK
  BY BoundsAssumption DEF Init, ProcessTypeOK
<1>3. WorkerNames /\ StopperNames /\ TerminatorNames
  BY RecordMembers DEF Init, WorkerNames, StopperNames, TerminatorNames, Holding,
     Executing, Targeting
<1>4. WorldNames
  BY BoundsAssumption DEF Init, WorldNames, StepRecord, RuntimeRecord, Outcomes, NoStep
<1>5. DownIsEmpty
  BY DEF Init, DownIsEmpty
<1> QED
  BY <1>1, <1>2, <1>3, <1>4, <1>5 DEF Shape

(* Every step of the control plane is a transaction of the journal, or     *)
(* leaves the journal alone.                                               *)
LEMMA TransitionIsJournalStep ==
  ASSUME JournalTypeOK, NEW c \in Id, NEW version, NEW target,
         Transition(c, version, target)
  PROVE  JournalNext
<1>1. version = commands[c].version /\ target \in States
  BY TransitionSteps
<1> QED
  BY <1>1 DEF JournalNext

(* The worker changes the journal by one of its operations, or not at all. *)
LEMMA WorkerUsesJournal ==
  ASSUME Shape, WorkerNext
  PROVE  JournalNext \/ UNCHANGED journalVars
<1>1. ASSUME NEW c \in Id, WorkerExpire(c) PROVE JournalNext
  BY <1>1, TransitionIsJournalStep DEF WorkerExpire, Shape
<1>2. CASE WorkerDispatch
  <2>1. worker.command \in Id
    BY <1>2 DEF WorkerDispatch, WorkerAt, Shape, WorkerNames, Holding, Execute
  <2> QED
    BY <1>2, <2>1, TransitionIsJournalStep DEF WorkerDispatch, Shape
<1>3. CASE WorkerReport
  <2>1. worker.command \in Id
    BY <1>3 DEF WorkerReport, WorkerAt, Shape, WorkerNames, Holding, Execute
  <2> QED
    BY <1>3, <2>1, TransitionIsJournalStep DEF WorkerReport, Shape
<1> QED
  BY <1>1, <1>2, <1>3
  DEF WorkerNext, WorkerPick, WorkerFinish, WorkerReconcile, WorkerLosesRace,
      WorkerEnter, WorkerRefused, WorkerMeetsNewRuntime, WorkerReserve,
      WorkerPersistDispatch, WorkerSend, WorkerReceives, WorkerLosesResponse,
      WorkerDoubtsReceipt, WorkerAccepts, WorkerEnds, WorkerRaises,
      WorkerReconcileCancel

(* So does a stop.                                                         *)
LEMMA StopUsesJournal ==
  ASSUME Shape, NEW s \in Stop, StopNext(s)
  PROVE  JournalNext \/ UNCHANGED journalVars
<1>1. s \in Id /\ (stopper[s].pc \in Targeting => stopper[s].target \in Id)
  BY DEF Stop, Shape, StopperNames, Execute
<1>2. ASSUME NEW target, NEW next, StopTransition(s, target, next),
             stopper[s].pc \in Targeting
      PROVE  JournalNext \/ UNCHANGED journalVars
  BY <1>1, <1>2, TransitionIsJournalStep DEF StopTransition, Shape
<1>3. CASE StopClaim(s)
  BY <1>2, <1>3 DEF StopClaim, StopAt, Targeting
<1>4. CASE StopSettle(s)
  BY <1>2, <1>4 DEF StopSettle, StopAt, Targeting
<1>5. CASE StopRuns(s)
  BY <1>1, <1>5, TransitionIsJournalStep DEF StopRuns, Shape
<1>6. CASE StopCommits(s)
  BY <1>1, <1>6, TransitionIsJournalStep DEF StopCommits, Shape
<1> QED
  BY <1>3, <1>4, <1>5, <1>6
  DEF StopNext, StopSignal, StopFindsQuarantine, StopRead, StopDecide,
      StopRecoverCancel, StopRecover, StopRelease, StopWait

(* And so do a termination, the process itself and the bot.                *)
LEMMA OthersUseJournal ==
  ASSUME Shape, GatewayNext \/ ProcessNext \/ RuntimeNext
  PROVE  JournalNext \/ UNCHANGED journalVars
<1>1. ASSUME NEW entry \in terminator.page, TerminationClaims(entry)
      PROVE  JournalNext \/ UNCHANGED journalVars
  <2>1. entry.command \in Id
    BY DEF Shape, TerminatorNames, Execute
  <2> QED
    BY <1>1, <2>1, TransitionIsJournalStep DEF TerminationClaims, Shape
<1>2. CASE TerminationCommits
  <2>1. terminator.command \in Id
    BY <1>2 DEF TerminationCommits, Terminating, Shape, TerminatorNames, Execute
  <2> QED
    BY <1>2, <2>1, TransitionIsJournalStep DEF TerminationCommits, Shape
<1>3. ASSUME NEW s \in Stop, NEW t \in Id \union {NoId}, StopBegin(s, t)
      PROVE  JournalNext
  BY <1>3 DEF StopBegin, JournalNext, Stop
<1>4. CASE GatewayNext
  BY <1>1, <1>2, <1>3, <1>4
  DEF GatewayNext, Submit, BotStopped, StopTimesOut, TerminationReads,
      TerminationTimesOut, JournalNext
<1>5. CASE ProcessNext
  BY <1>5
  DEF ProcessNext, Close, CancelWorker, FinishClose, Crash, Boot, FinishRecovery,
      Recover, QueueDeadline, JournalNext
<1>6. CASE RuntimeNext
  BY <1>6 DEF RuntimeNext, RuntimeFinish, RuntimeGivesUp, RuntimeSettles
<1> QED
  BY <1>4, <1>5, <1>6

LEMMA StepUsesJournal ==
  ASSUME Shape, [Next]_vars
  PROVE  [JournalNext]_journalVars
BY WorkerUsesJournal, StopUsesJournal, OthersUseJournal DEF Next, vars

-----------------------------------------------------------------------------
(* Every step keeps the shape.                                             *)
LEMMA WorkerFrame ==
  ASSUME WorkerNext
  PROVE  /\ phase \in {"up", "closing"}
         /\ UNCHANGED <<processVars, stopper, terminator>>
BY DEF WorkerNext, WorkerAt, WorkerExpire, WorkerPick, WorkerFinish, WorkerReconcile,
       WorkerDispatch, WorkerLosesRace, WorkerEnter, WorkerRefused,
       WorkerMeetsNewRuntime, WorkerReserve, WorkerPersistDispatch, WorkerSend,
       WorkerReceives, WorkerLosesResponse, WorkerDoubtsReceipt, WorkerAccepts,
       WorkerEnds, WorkerRaises, WorkerReconcileCancel, WorkerReport, memory

(* The worker goes on with the command it has.                             *)
LEMMA WorkerGoesOn ==
  ASSUME Shape, worker.pc \in Holding, NEW pc \in Holding,
         pc \in {"reserved", "dispatched"} => steps'[worker.command].ordinal > 0,
         WorkerGoes(pc)
  PROVE  WorkerNames'
BY DEF Shape, WorkerGoes, WorkerNames, WorkerRecord, Holding, Executing, WorkerPcs

(* Leaving execute_command hands back an outcome, and names nothing new.   *)
LEMMA WorkerLeaves ==
  ASSUME Shape, worker.pc \in Holding, NEW state, NEW outcome \in Terminal,
         NEW reconcile \in BOOLEAN, Leave(state, outcome, reconcile),
         state \in {"idle", "running", "reconciling", "quarantined"},
         UNCHANGED <<processVars>>
  PROVE  WorkerNames' /\ ProcessTypeOK'
<1>1. WorkerNames'
  BY DEF Shape, Leave, WorkerNames, WorkerRecord, Holding, Executing, WorkerPcs
<1>2. ProcessTypeOK'
  BY DEF Shape, Leave, AfterRun, ProcessTypeOK, processVars
<1> QED
  BY <1>1, <1>2

(* Changing the state of a step leaves the ordinals alone.                 *)
LEMMA StepMoves ==
  ASSUME Shape, NEW c \in Id,
         NEW state \in {"none", "reserved", "dispatched", "unknown", "settled"},
         steps' = [steps EXCEPT ![c].state = state]
  PROVE  /\ steps' \in [Id -> StepRecord]
         /\ \A d \in Id : steps'[d].ordinal = steps[d].ordinal
BY DEF Shape, WorldNames, StepRecord

LEMMA WorldKept ==
  ASSUME Shape, UNCHANGED runtime, steps' \in [Id -> StepRecord],
         \A d \in Id : steps'[d].ordinal = steps[d].ordinal
  PROVE  WorldNames'
BY DEF Shape, WorldNames

(* The worker keeps naming execute commands, at every step it takes.       *)
LEMMA WorkerKeepsNames ==
  ASSUME Shape, WorkerNext
  PROVE  ProcessTypeOK' /\ WorkerNames' /\ WorldNames'
<1> DEFINE Kept == ProcessTypeOK' /\ WorkerNames' /\ WorldNames'
<1>a. worker.pc \in Holding => worker.command \in Execute /\ worker.command \in Id
  BY DEF Shape, WorkerNames, Execute
<1>b. UNCHANGED <<processVars, controller, activeId, activeStep>> => ProcessTypeOK'
  BY DEF Shape, ProcessTypeOK, processVars
<1>c. UNCHANGED world => WorldNames'
  BY DEF Shape, WorldNames, world
<1>d. UNCHANGED worker /\ UNCHANGED steps => WorkerNames'
  BY DEF Shape, WorkerNames
<1>1. ASSUME NEW c \in Id, WorkerExpire(c) PROVE Kept
  BY <1>1, <1>b, <1>c, <1>d DEF WorkerExpire, memory, world
<1>2. ASSUME NEW c \in Id, WorkerPick(c) PROVE Kept
  <2>1. c \in Execute /\ commands[c].version \in Nat
    BY <1>2 DEF WorkerPick, Eligible, Queued, Shape, JournalTypeOK, Row
  <2>2. WorkerNames'
    BY <1>2, <2>1, RecordMembers
    DEF WorkerPick, WorkerNames, WorkerRecord, WorkerPcs, Execute, IdleWorker
  <2> QED
    BY <1>2, <2>2, <1>b, <1>c DEF WorkerPick
<1>3. ASSUME NEW t \in Terminal, WorkerFinish(t) PROVE Kept
  <2>1. ProcessTypeOK' /\ WorkerNames'
    BY <1>3, WorkerLeaves
    DEF WorkerFinish, WorkerAt, Holding, Executing, Shape, ProcessTypeOK
  <2> QED
    BY <1>3, <1>c, <2>1 DEF WorkerFinish
<1>4. ASSUME NEW t \in Terminal, WorkerReconcile(t) PROVE Kept
  <2>1. worker.pc \in Holding
    BY <1>4 DEF WorkerReconcile, WorkerAt, Holding, Executing
  <2>2. ProcessTypeOK' /\ WorkerNames'
    BY <1>4, <2>1, WorkerLeaves DEF WorkerReconcile, Shape, ProcessTypeOK
  <2>3. steps' \in [Id -> StepRecord] /\ \A d \in Id : steps'[d].ordinal = steps[d].ordinal
    BY <1>4, <1>a, <2>1, StepMoves DEF WorkerReconcile, StepAfter, Shape, WorldNames
  <2>4. WorldNames'
    BY <1>4, <2>3, WorldKept DEF WorkerReconcile
  <2> QED
    BY <2>2, <2>4
<1>5. CASE WorkerDispatch
  <2>1. worker.pc \in Holding /\ commands[worker.command].cancelRequested \in BOOLEAN
    BY <1>5, <1>a DEF WorkerDispatch, WorkerAt, Holding, Shape, JournalTypeOK, Row
  <2>2. worker.version + 1 \in Nat
    BY DEF Shape, WorkerNames, WorkerRecord
  <2>3. worker' = [worker EXCEPT !.pc = "enter", !.version = worker.version + 1,
                     !.cancelSeen = commands[worker.command].cancelRequested]
    BY <1>5 DEF WorkerDispatch, Shape, WorkerNames, WorkerRecord
  <2>4. WorkerNames'
    BY <2>1, <2>2, <2>3
    DEF Shape, WorkerNames, WorkerRecord, Holding, Executing, WorkerPcs
  <2> QED
    BY <1>5, <2>4, <1>b, <1>c DEF WorkerDispatch
<1>6. CASE WorkerLosesRace
  <2>1. WorkerNames'
    BY <1>6, RecordMembers DEF WorkerLosesRace, WorkerNames, Holding, Executing
  <2> QED
    BY <1>6, <2>1, <1>b, <1>c DEF WorkerLosesRace
<1>7. CASE WorkerEnter
  <2>1. ProcessTypeOK'
    BY <1>7, <1>a
    DEF WorkerEnter, WorkerAt, Holding, Shape, ProcessTypeOK, processVars
  <2>2. WorkerNames'
    BY <1>7, WorkerGoesOn DEF WorkerEnter, WorkerAt, Holding, Executing
  <2> QED
    BY <1>7, <2>1, <2>2, <1>c DEF WorkerEnter
<1>8. CASE WorkerRefused
  <2>1. WorkerNames'
    BY <1>8
    DEF WorkerRefused, WorkerAt, Shape, WorkerNames, WorkerRecord, Holding, WorkerPcs,
        Terminal, Settled, RunEnds
  <2> QED
    BY <1>8, <2>1, <1>b, <1>c DEF WorkerRefused
<1>9. CASE WorkerMeetsNewRuntime
  <2>1. ProcessTypeOK' /\ WorkerNames'
    BY <1>9, WorkerLeaves
    DEF WorkerMeetsNewRuntime, WorkerAt, Holding, Executing, Terminal
  <2> QED
    BY <1>9, <1>c, <2>1 DEF WorkerMeetsNewRuntime
<1>10. CASE WorkerReserve
  <2> DEFINE c == worker.command
             row == [ordinal |-> steps[c].ordinal + 1, state |-> "reserved"]
  <2>1. worker.pc \in Holding /\ c \in Id /\ c \in Execute
    BY <1>10, <1>a DEF WorkerReserve, WorkerAt, Holding, Executing
  <2>2. row \in StepRecord /\ row.ordinal > 0
    BY <1>10, <2>1, BoundsAssumption DEF WorkerReserve, Shape, WorldNames, StepRecord
  <2>3. steps' = [steps EXCEPT ![c] = row]
    BY <1>10 DEF WorkerReserve
  <2> HIDE DEF row
  <2>4. steps' \in [Id -> StepRecord] /\ steps'[c].ordinal > 0
        /\ \A d \in Id \ {c} : steps'[d] = steps[d]
    BY <2>1, <2>2, <2>3 DEF Shape, WorldNames
  <2>5. runtime' \in RuntimeRecord /\ runtime'.acting = runtime.acting
    BY <1>10, <2>1 DEF WorkerReserve, Shape, WorldNames, RuntimeRecord, Outcomes
  <2>6. WorldNames'
    BY <2>1, <2>4, <2>5 DEF Shape, WorldNames
  <2>7. WorkerNames'
    BY <1>10, <2>1, <2>4, WorkerGoesOn DEF WorkerReserve, Holding, Executing
  <2> QED
    BY <1>10, <1>b, <2>6, <2>7 DEF WorkerReserve
<1>11. CASE WorkerPersistDispatch
  <2>1. worker.pc \in Holding /\ steps[worker.command].ordinal > 0
    BY <1>11 DEF WorkerPersistDispatch, WorkerAt, Holding, Executing, Shape, WorkerNames
  <2>2. steps' \in [Id -> StepRecord] /\ \A d \in Id : steps'[d].ordinal = steps[d].ordinal
    BY <1>11, <2>1, <1>a, StepMoves DEF WorkerPersistDispatch
  <2>3. WorkerNames'
    BY <1>11, <1>a, <2>1, <2>2, WorkerGoesOn
    DEF WorkerPersistDispatch, Holding, Executing
  <2> QED
    BY <1>11, <1>b, <2>2, <2>3, WorldKept DEF WorkerPersistDispatch
<1>12. CASE WorkerSend
  <2>1. /\ worker.pc \in Holding /\ worker.command \in Id /\ worker.command \in Execute
        /\ steps[worker.command].ordinal > 0
    BY <1>12, <1>a DEF WorkerSend, WorkerAt, Holding, Executing, Shape, WorkerNames
  <2>2. StepOf(worker.command) \in Correlation /\ StepOf(worker.command).command = worker.command
    BY <2>1, BoundsAssumption DEF StepOf, Correlation, Shape, WorldNames, StepRecord
  <2>3. ProcessTypeOK'
    BY <1>12, <2>2 DEF WorkerSend, Shape, ProcessTypeOK, processVars
  <2>4. WorkerNames'
    BY <1>12, <2>1, WorkerGoesOn DEF WorkerSend, Holding, Executing
  <2>5. runtime' \in RuntimeRecord
        /\ (runtime'.acting = runtime.acting \/ runtime'.acting = StepOf(worker.command))
    BY <1>12, <2>2 DEF WorkerSend, Shape, WorldNames, RuntimeRecord
  <2>6. WorldNames'
    BY <1>12, <2>1, <2>2, <2>5 DEF WorkerSend, Shape, WorldNames
  <2> QED
    BY <2>3, <2>4, <2>6
<1>13. CASE WorkerReceives
  <2>1. WorkerNames'
    BY <1>13, WorkerGoesOn DEF WorkerReceives, WorkerAt, Holding, Executing
  <2> QED
    BY <1>13, <2>1, <1>b, <1>c DEF WorkerReceives
<1>14. ASSUME worker.pc \in {"waiting", "answered"},
              NEW state \in {"unknown", "settled"}, StepUnknown(state),
              UNCHANGED <<processVars, activeId, activeStep, runtime>>
       PROVE  Kept
  <2>1. worker.pc \in Holding
    BY <1>14 DEF Holding, Executing
  <2>2. ProcessTypeOK'
    BY <1>14 DEF StepUnknown, Shape, ProcessTypeOK, processVars
  <2>3. steps' \in [Id -> StepRecord] /\ \A d \in Id : steps'[d].ordinal = steps[d].ordinal
    BY <1>14, <2>1, <1>a, StepMoves DEF StepUnknown
  <2>4. WorkerNames'
    BY <1>14, <2>1, WorkerGoesOn DEF StepUnknown, Holding, Executing
  <2> QED
    BY <1>14, <2>2, <2>3, <2>4, WorldKept
<1>15. CASE WorkerLosesResponse
  BY <1>14, <1>15 DEF WorkerLosesResponse, WorkerAt
<1>16. CASE WorkerDoubtsReceipt
  BY <1>14, <1>16 DEF WorkerDoubtsReceipt, WorkerAt
<1>17. CASE WorkerAccepts
  <2>1. worker.pc \in Holding
    BY <1>17 DEF WorkerAccepts, WorkerAt, Holding, Executing
  <2>2. steps' \in [Id -> StepRecord] /\ \A d \in Id : steps'[d].ordinal = steps[d].ordinal
    BY <1>17, <2>1, <1>a, StepMoves DEF WorkerAccepts, SettleStep
  <2>3. WorkerNames'
    BY <1>17, <2>1, WorkerGoesOn DEF WorkerAccepts, Holding, Executing
  <2> QED
    BY <1>17, <1>b, <2>2, <2>3, WorldKept DEF WorkerAccepts
<1>18. CASE WorkerEnds
  <2>1. worker.pc \in Holding
    BY <1>18 DEF WorkerEnds, WorkerAt, Holding, Executing
  <2>2. steps' \in [Id -> StepRecord] /\ \A d \in Id : steps'[d].ordinal = steps[d].ordinal
    BY <1>18, <2>1, <1>a, StepMoves DEF WorkerEnds, SettleStep
  <2>3. {"cancelled", "failed"} \subseteq Terminal
    BY DEF Terminal, Settled, RunEnds
  <2>4. ProcessTypeOK' /\ WorkerNames'
    BY <1>18, <2>1, <2>3, WorkerLeaves DEF WorkerEnds, Shape, ProcessTypeOK
  <2> QED
    BY <1>18, <2>2, <2>4, WorldKept DEF WorkerEnds
<1>19. CASE WorkerRaises
  <2>1. worker.pc \in Holding /\ "failed" \in Terminal
    BY <1>19 DEF WorkerRaises, WorkerAt, Holding, Executing, Terminal, Settled, RunEnds
  <2>2. ProcessTypeOK' /\ WorkerNames'
    BY <1>19, <2>1, WorkerLeaves DEF WorkerRaises, Shape, ProcessTypeOK
  <2> QED
    BY <1>19, <2>2, <1>c DEF WorkerRaises
<1>20. CASE WorkerReconcileCancel
  <2>1. runtime' \in RuntimeRecord /\ runtime'.acting = runtime.acting
    BY <1>20 DEF WorkerReconcileCancel, CancelInRuntime, Shape, WorldNames, RuntimeRecord,
       Cancellable
  <2> QED
    BY <1>20, <2>1, <1>b, <1>d DEF WorkerReconcileCancel, memory, Shape, WorldNames
<1>21. CASE WorkerReport
  <2>1. WorkerNames'
    <3>1. IdleWorker \in WorkerRecord /\ IdleWorker.pc = "poll"
      BY RecordMembers
    <3>2. worker.version + 1 \in Nat /\ worker \in WorkerRecord /\ worker.pc = "report"
          /\ worker.command \in Execute
      BY <1>21 DEF WorkerReport, WorkerAt, Shape, WorkerNames, WorkerRecord, Holding
    <3>3. worker' \in {IdleWorker, [worker EXCEPT !.pc = "dead"],
                       [worker EXCEPT !.version = worker.version + 1, !.reconcile = FALSE]}
      BY <1>21, <3>2 DEF WorkerReport, WorkerGoes, WorkerRecord
    <3> QED
      BY <3>1, <3>2, <3>3 DEF WorkerNames, WorkerRecord, Holding, Executing, WorkerPcs
  <2> QED
    BY <1>21, <2>1, <1>b, <1>c DEF WorkerReport
<1> QED
  BY <1>1, <1>2, <1>3, <1>4, <1>5, <1>6, <1>7, <1>8, <1>9, <1>10, <1>11, <1>12, <1>13,
     <1>15, <1>16, <1>17, <1>18, <1>19, <1>20, <1>21 DEF WorkerNext

(* What a stop never touches: the process, the worker, the termination.    *)
LEMMA StopFrame ==
  ASSUME NEW s \in Stop, StopNext(s)
  PROVE  /\ phase \in {"up", "closing"}
         /\ UNCHANGED <<processVars, activeId, activeStep, worker, terminator>>
BY DEF StopNext, StopAt, StopSignal, StopFindsQuarantine, StopRead, StopDecide,
       StopClaim, StopRecoverCancel, StopRecover, StopSettle, StopRelease, StopWait,
       StopRuns, StopCommits, memory

(* A stop task writes its own record, and goes on with the target it has.  *)
LEMMA StopperMoves ==
  ASSUME Shape, NEW s \in Stop, NEW r \in StopRecord, r.target = stopper[s].target,
         r.pc \in Targeting => stopper[s].pc \in Targeting,
         stopper' = [stopper EXCEPT ![s] = r]
  PROVE  StopperNames'
BY DEF Shape, StopperNames

(* A stop past its barrier holds an execute command, at a version.         *)
LEMMA StopperTypes ==
  ASSUME Shape, NEW s \in Stop
  PROVE  /\ stopper[s] \in StopRecord /\ stopper \in [Stop -> StopRecord]
         /\ stopper[s].target \in Execute \union {NoId}
         /\ stopper[s].pc \in Targeting =>
              /\ stopper[s].target \in Execute /\ stopper[s].target \in Id
              /\ commands[stopper[s].target].version \in Nat
         /\ s \in Id /\ commands[s].version \in Nat
BY DEF Shape, StopperNames, Stop, Execute, JournalTypeOK, Row

(* The ways in which a stop moves on: to another place, to its answer, by  *)
(* a compare-and-set.                                                      *)
LEMMA StopGoesOn ==
  ASSUME Shape, NEW s \in Stop, NEW pc \in StopPcs, StopGoes(s, pc),
         pc \in Targeting => stopper[s].pc \in Targeting
  PROVE  StopperNames'
<1> DEFINE r == [stopper[s] EXCEPT !.pc = pc]
<1>1. r \in StopRecord /\ r.target = stopper[s].target /\ r.pc = pc
  BY StopperTypes DEF StopRecord
<1>2. stopper' = [stopper EXCEPT ![s] = r]
  BY StopperTypes DEF StopGoes
<1> QED
  BY <1>1, <1>2, StopperMoves

LEMMA StopAnswersWith ==
  ASSUME Shape, NEW s \in Stop, NEW incomplete \in BOOLEAN,
         StopAnswers(s, "begin", incomplete)
  PROVE  StopperNames'
<1> DEFINE r == [stopper[s] EXCEPT !.pc = "begin", !.incomplete = incomplete]
<1>1. r \in StopRecord /\ r.target = stopper[s].target /\ r.pc = "begin"
  BY StopperTypes DEF StopRecord, StopPcs
<1>2. stopper' = [stopper EXCEPT ![s] = r]
  BY StopperTypes DEF StopAnswers, StopRecord
<1> QED
  BY <1>1, <1>2, StopperMoves DEF Targeting

LEMMA StopTransits ==
  ASSUME Shape, NEW s \in Stop, NEW target, NEW next \in {"recover", "release"},
         stopper[s].pc \in Targeting, StopTransition(s, target, next)
  PROVE  StopperNames'
<1> DEFINE r == [stopper[s] EXCEPT !.pc = next, !.version = stopper[s].version + 1]
<1>1. CASE StopGoes(s, "failed")
  BY <1>1, StopGoesOn DEF StopPcs, Targeting
<1>2. CASE stopper' = [stopper EXCEPT ![s].pc = next, ![s].version = @ + 1]
  <2>1. r \in StopRecord /\ r.target = stopper[s].target
    <3>1. stopper[s].version + 1 \in Nat
      BY StopperTypes DEF StopRecord
    <3> QED
      BY <3>1, StopperTypes DEF StopRecord, StopPcs
  <2>2. stopper' = [stopper EXCEPT ![s] = r]
    BY <1>2, StopperTypes DEF StopRecord
  <2> QED
    BY <2>1, <2>2, StopperMoves
<1> QED
  BY <1>1, <1>2 DEF StopTransition

LEMMA CancelKeepsWorld ==
  ASSUME Shape, NEW step, CancelInRuntime(step), UNCHANGED steps
  PROVE  WorldNames'
BY DEF CancelInRuntime, Cancellable, Shape, WorldNames, RuntimeRecord

LEMMA StopKeepsNames ==
  ASSUME Shape, NEW s \in Stop, StopNext(s)
  PROVE  /\ ProcessTypeOK' /\ StopperNames' /\ WorldNames'
         /\ \A c \in Execute : steps'[c].ordinal = steps[c].ordinal
<1> DEFINE Kept == /\ ProcessTypeOK' /\ StopperNames' /\ WorldNames'
                   /\ \A c \in Execute : steps'[c].ordinal = steps[c].ordinal
<1>a. UNCHANGED <<processVars, activeId, activeStep>>
  BY StopFrame
<1>b. controller' \in {controller, "idle", "reconciling", "quarantined"} => ProcessTypeOK'
  BY <1>a DEF Shape, ProcessTypeOK, processVars
<1>c. UNCHANGED world => /\ WorldNames'
                         /\ \A c \in Execute : steps'[c].ordinal = steps[c].ordinal
  BY DEF Shape, WorldNames, world
<1>d. UNCHANGED stopper => StopperNames'
  BY DEF Shape, StopperNames
<1>1. CASE StopSignal(s)
  <2>1. StopperNames'
    BY <1>1, StopGoesOn DEF StopSignal, StopAt, StopPcs, Targeting
  <2>2. WorldNames'
    BY <1>1, <1>c, CancelKeepsWorld DEF StopSignal, world
  <2> QED
    BY <1>1, <1>b, <2>1, <2>2 DEF StopSignal, world
<1>2. CASE StopFindsQuarantine(s)
  BY <1>2, <1>b, <1>c, StopGoesOn DEF StopFindsQuarantine, StopAt, StopPcs, Targeting
<1>3. CASE StopRead(s)
  <2> DEFINE c == stopper[s].target
             readable == commands[c].state = "blocked_unknown" /\ steps[c].ordinal > 0
             r == [stopper[s] EXCEPT !.pc = "decide", !.version = commands[c].version,
                                     !.readable = readable]
  <2>1. stopper[s].pc \in Targeting
    BY <1>3 DEF StopRead, StopAt, Targeting
  <2>2. stopper' = [stopper EXCEPT ![s] = r]
    BY <1>3, StopperTypes DEF StopRead
  <2>3. readable \in BOOLEAN /\ commands[c].version \in Nat
    BY <2>1, StopperTypes
  <2> HIDE DEF readable
  <2>4. r \in StopRecord /\ r.target = c
    BY <2>3, StopperTypes DEF StopRecord, StopPcs
  <2>5. StopperNames'
    BY <2>1, <2>2, <2>4, StopperMoves
  <2> QED
    BY <1>3, <1>b, <1>c, <2>5 DEF StopRead
<1>4. CASE StopDecide(s)
  <2>1. StopperNames'
    BY <1>4, StopGoesOn, StopAnswersWith DEF StopDecide, StopAt, StopPcs, Targeting
  <2> QED
    BY <1>4, <1>b, <1>c, <2>1 DEF StopDecide
<1>5. CASE StopClaim(s)
  BY <1>5, <1>b, <1>c, StopTransits DEF StopClaim, StopAt, Targeting
<1>6. CASE StopRecoverCancel(s)
  BY <1>6, <1>b, <1>d, CancelKeepsWorld DEF StopRecoverCancel, memory
<1>7. ASSUME NEW t \in Terminal, StopRecover(s, t) PROVE Kept
  <2> DEFINE r == [stopper[s] EXCEPT !.pc = "settle", !.outcome = t]
  <2>1. stopper[s].pc \in Targeting /\ stopper[s].target \in Id
    BY <1>7, StopperTypes DEF StopRecover, StopAt, Targeting
  <2>2. r \in StopRecord /\ r.target = stopper[s].target
    BY StopperTypes DEF StopRecord, StopPcs
  <2>3. stopper' = [stopper EXCEPT ![s] = r]
    BY <1>7, StopperTypes DEF StopRecover, StopRecord
  <2>4. StopperNames'
    BY <2>1, <2>2, <2>3, StopperMoves
  <2>5. steps' \in [Id -> StepRecord] /\ \A d \in Id : steps'[d].ordinal = steps[d].ordinal
    BY <1>7, <2>1, StepMoves DEF StopRecover, StepAfter, Shape, WorldNames
  <2> QED
    BY <1>7, <1>b, <2>4, <2>5, WorldKept DEF StopRecover, Execute
<1>8. CASE StopSettle(s)
  BY <1>8, <1>b, <1>c, StopTransits DEF StopSettle, StopAt, Targeting
<1>9. CASE StopRelease(s)
  <2>1. StopperNames'
    BY <1>9, StopGoesOn, StopAnswersWith DEF StopRelease, StopAt, StopPcs, Targeting
  <2> QED
    BY <1>9, <1>b, <1>c, <2>1 DEF StopRelease
<1>10. CASE StopWait(s)
  <2>1. StopperNames'
    BY <1>10, StopAnswersWith DEF StopWait
  <2> QED
    BY <1>10, <1>b, <1>c, <2>1 DEF StopWait
<1>11. CASE StopRuns(s)
  BY <1>11, <1>b, <1>c, StopGoesOn DEF StopRuns, StopPcs, Targeting
<1>12. CASE StopCommits(s)
  BY <1>12, <1>b, <1>c, StopGoesOn DEF StopCommits, StopPcs, Targeting
<1> QED
  BY <1>1, <1>2, <1>3, <1>4, <1>5, <1>6, <1>7, <1>8, <1>9, <1>10, <1>11, <1>12
  DEF StopNext

(* Steps of the gateway, of the terminator and of the process.             *)
LEMMA TerminatorMoves ==
  ASSUME Shape, phase \in {"up", "closing"}, NEW r \in TerminatorRecord,
         \A entry \in r.page : entry.command \in Execute,
         r.pc = "claimed" => r.command \in Execute,
         terminator' = r,
         UNCHANGED <<processVars, controller, activeId, activeStep, worker, stopper,
                     steps>>,
         runtime' \in RuntimeRecord, runtime'.acting \in {runtime.acting, NoStep}
  PROVE  /\ ProcessTypeOK' /\ WorkerNames' /\ StopperNames' /\ TerminatorNames'
         /\ WorldNames' /\ DownIsEmpty'
BY DEF Shape, ProcessTypeOK, WorkerNames, StopperNames, TerminatorNames, WorldNames,
       DownIsEmpty, processVars

(* A termination collects entries of execute commands only.                *)
LEMMA GatewayKeepsNames ==
  ASSUME Shape, GatewayNext
  PROVE  /\ ProcessTypeOK' /\ WorkerNames' /\ StopperNames' /\ TerminatorNames'
         /\ WorldNames' /\ DownIsEmpty'
<1> DEFINE Kept == /\ ProcessTypeOK' /\ WorkerNames' /\ StopperNames' /\ TerminatorNames'
                   /\ WorldNames' /\ DownIsEmpty'
<1>a. UNCHANGED <<processVars, memory, world>> => Kept
  BY DEF Shape, ProcessTypeOK, WorkerNames, StopperNames, TerminatorNames, WorldNames,
         DownIsEmpty, processVars, memory, world
<1>b. terminator \in TerminatorRecord /\ runtime \in RuntimeRecord
      /\ \A entry \in terminator.page : entry.command \in Execute
  BY DEF Shape, TerminatorNames, WorldNames
<1>1. ASSUME NEW c \in Id, Submit(c) PROVE Kept
  BY <1>1, <1>a DEF Submit
<1>2. ASSUME StopperNames', phase \in {"up", "closing"},
             UNCHANGED <<processVars, controller, activeId, activeStep, worker,
                         terminator, world>>
      PROVE  Kept
  BY <1>2 DEF Shape, ProcessTypeOK, WorkerNames, TerminatorNames, WorldNames,
              DownIsEmpty, processVars, world
<1>3. ASSUME NEW s \in Stop, NEW t \in Id \union {NoId}, StopBegin(s, t) PROVE Kept
  <2> DEFINE r == [NewStopper EXCEPT !.pc = IF t = NoId THEN "begin" ELSE "signal",
                                     !.target = t]
  <2>1. t \in Execute \union {NoId}
    BY <1>3 DEF StopBegin, ApplyStopBarrier, BarrierTargets, Active
  <2>2. r \in StopRecord /\ r.target = t /\ (r.pc = "begin" \/ t # NoId)
    BY RecordMembers, <2>1 DEF StopRecord, StopPcs, Execute, NewStopper
  <2>3. stopper' = [stopper EXCEPT ![s] = r]
    BY <1>3 DEF StopBegin
  <2> HIDE DEF r
  <2>4. StopperNames'
    BY <2>1, <2>2, <2>3 DEF Shape, StopperNames, Targeting
  <2> QED
    BY <1>3, <1>2, <2>4 DEF StopBegin, StopAt
<1>4. ASSUME NEW s \in Stop, StopTimesOut(s) PROVE Kept
  <2>1. StopperNames'
    BY <1>4, StopGoesOn DEF StopTimesOut, StopPcs, Targeting
  <2> QED
    BY <1>4, <1>2, <2>1 DEF StopTimesOut
<1>5. ASSUME NEW s \in Stop, BotStopped(s) PROVE Kept
  <2>1. runtime' \in RuntimeRecord /\ runtime'.acting = NoStep
    BY <1>5, <1>b DEF BotStopped, RuntimeRecord
  <2>2. [terminator EXCEPT !.pc = "stopped"] \in TerminatorRecord
    BY <1>b DEF TerminatorRecord
  <2> QED
    BY <1>5, <1>b, <2>1, <2>2, TerminatorMoves DEF BotStopped, TerminatorRecord
<1>6. CASE TerminationReads
  <2> DEFINE page == {[command |-> c, version |-> commands[c].version] :
                        c \in {d \in Blocked : steps[d].ordinal > 0}}
  <2>1. \A d \in Blocked : steps[d].ordinal > 0 => d \in Execute
    BY DEF Blocked, Shape, WorldNames
  <2>2. page \in SUBSET Entry /\ \A entry \in page : entry.command \in Execute
    BY <2>1 DEF Entry, Blocked, Shape, JournalTypeOK, Row
  <2>3. terminator' = [terminator EXCEPT !.pc = "loop", !.page = page]
    BY <1>6 DEF TerminationReads
  <2> HIDE DEF page
  <2>4. [terminator EXCEPT !.pc = "loop", !.page = page] \in TerminatorRecord
    BY <1>b, <2>2 DEF TerminatorRecord
  <2> QED
    BY <1>6, <1>b, <2>2, <2>3, <2>4, TerminatorMoves
    DEF TerminationReads, Terminating, TerminatorRecord, world
<1>7. ASSUME NEW entry \in terminator.page, TerminationClaims(entry) PROVE Kept
  <2>1. entry \in Entry /\ entry.command \in Execute /\ entry.version + 1 \in Nat
    BY <1>b DEF TerminatorRecord, Entry
  <2> DEFINE r == [pc |-> "claimed", page |-> terminator.page \ {entry},
                   command |-> entry.command, version |-> entry.version + 1]
             f == [terminator EXCEPT !.pc = "failed"]
  <2>2. r \in TerminatorRecord /\ r.page \subseteq terminator.page
        /\ r.command \in Execute
    BY <1>b, <2>1 DEF TerminatorRecord, Execute
  <2>3. f \in TerminatorRecord /\ f.page = terminator.page /\ f.pc = "failed"
    BY <1>b DEF TerminatorRecord
  <2>4. terminator' \in {r, f}
    BY <1>7 DEF TerminationClaims
  <2> HIDE DEF r, f
  <2> QED
    BY <1>7, <1>b, <2>2, <2>3, <2>4, TerminatorMoves
    DEF TerminationClaims, Terminating, world
<1>8. ASSUME NEW pc \in {"loop", "failed"},
             terminator' = [terminator EXCEPT !.pc = pc], phase \in {"up", "closing"},
             UNCHANGED <<processVars, controller, activeId, activeStep, worker,
                         stopper, world>>
      PROVE  Kept
  BY <1>8, <1>b, TerminatorMoves DEF TerminatorRecord, world
<1>9. CASE TerminationCommits
  BY <1>8, <1>9 DEF TerminationCommits, Terminating
<1>10. CASE TerminationTimesOut
  BY <1>8, <1>10 DEF TerminationTimesOut
<1> QED
  BY <1>1, <1>3, <1>4, <1>5, <1>6, <1>7, <1>9, <1>10 DEF GatewayNext

(* A process that ends forgets everything; one that starts knows nothing.  *)
LEMMA ProcessKeepsNames ==
  ASSUME Shape, ProcessNext
  PROVE  /\ ProcessTypeOK' /\ WorkerNames' /\ StopperNames' /\ TerminatorNames'
         /\ WorldNames' /\ DownIsEmpty'
<1> DEFINE Kept == /\ ProcessTypeOK' /\ WorkerNames' /\ StopperNames' /\ TerminatorNames'
                   /\ WorldNames' /\ DownIsEmpty'
<1>a. UNCHANGED <<processVars, memory, world>> => Kept
  BY DEF Shape, ProcessTypeOK, WorkerNames, StopperNames, TerminatorNames, WorldNames,
         DownIsEmpty, processVars, memory, world
<1>1. ASSUME NEW c \in Id, Recover(c) \/ QueueDeadline(c) PROVE Kept
  BY <1>1, <1>a DEF Recover, QueueDeadline
<1>2. CASE Close
  BY <1>2
  DEF Close, Shape, ProcessTypeOK, WorkerNames, StopperNames, TerminatorNames,
      WorldNames, DownIsEmpty, memory, world
<1>3. CASE CancelWorker
  <2> DEFINE w == [IdleWorker EXCEPT !.pc = "off"]
  <2>1. w \in WorkerRecord /\ w.pc = "off" /\ worker' = w
    BY <1>3, RecordMembers DEF CancelWorker, IdleWorker
  <2> HIDE DEF w
  <2>2. WorkerNames'
    BY <2>1 DEF WorkerNames, Holding, Executing
  <2>3. ProcessTypeOK'
    BY <1>3 DEF CancelWorker, AfterRun, Shape, ProcessTypeOK, processVars
  <2> QED
    BY <1>3, <2>2, <2>3
    DEF CancelWorker, Shape, StopperNames, TerminatorNames, WorldNames, DownIsEmpty,
        processVars, world
<1>4. ASSUME ForgetMemory, phase' = "down", UNCHANGED <<restarts, world>> PROVE Kept
  <2>1. WorkerNames' /\ worker'.pc = "off"
    BY <1>4, RecordMembers DEF ForgetMemory, WorkerNames, Holding, Executing, IdleWorker
  <2>2. StopperNames' /\ TerminatorNames'
    BY <1>4, RecordMembers DEF ForgetMemory, StopperNames, TerminatorNames, Targeting
  <2>3. ProcessTypeOK' /\ WorldNames'
    BY <1>4 DEF ForgetMemory, Shape, ProcessTypeOK, WorldNames, world
  <2> QED
    BY <1>4, <2>1, <2>2, <2>3 DEF ForgetMemory, DownIsEmpty
<1>5. CASE FinishClose \/ Crash
  BY <1>4, <1>5 DEF FinishClose, Crash
<1>6. CASE Boot
  BY <1>6, BoundsAssumption
  DEF Boot, Shape, ProcessTypeOK, WorkerNames, StopperNames, TerminatorNames,
      WorldNames, DownIsEmpty, memory, world
<1>7. CASE FinishRecovery
  <2>1. WorkerNames'
    BY <1>7, RecordMembers DEF FinishRecovery, WorkerNames, Holding, Executing
  <2>2. ProcessTypeOK'
    BY <1>7 DEF FinishRecovery, Shape, ProcessTypeOK
  <2> QED
    BY <1>7, <2>1, <2>2
    DEF FinishRecovery, Shape, StopperNames, TerminatorNames, WorldNames, DownIsEmpty,
        world
<1> QED
  BY <1>1, <1>2, <1>3, <1>5, <1>6, <1>7 DEF ProcessNext

LEMMA RuntimeKeepsNames ==
  ASSUME Shape, RuntimeNext
  PROVE  WorldNames' /\ UNCHANGED <<processVars, memory, steps>>
<1>1. UNCHANGED <<processVars, memory, steps>>
  BY DEF RuntimeNext, RuntimeFinish, RuntimeGivesUp, RuntimeSettles
<1>2. runtime' \in RuntimeRecord /\ runtime'.acting \in {runtime.acting, NoStep}
  <2>1. runtime \in RuntimeRecord
    BY DEF Shape, WorldNames
  <2>2. ASSUME NEW o \in Outcomes, RuntimeFinish(o)
        PROVE  runtime' \in RuntimeRecord /\ runtime'.acting = NoStep
    BY <2>1, <2>2 DEF RuntimeFinish, RuntimeRecord
  <2>3. CASE RuntimeGivesUp
    BY <2>1, <2>3 DEF RuntimeGivesUp, RuntimeRecord, Outcomes
  <2>4. CASE RuntimeSettles
    BY <2>1, <2>4 DEF RuntimeSettles, RuntimeRecord
  <2> QED
    BY <2>2, <2>3, <2>4 DEF RuntimeNext
<1> QED
  BY <1>1, <1>2 DEF Shape, WorldNames

LEMMA ShapeKept ==
  ASSUME Shape, [Next]_vars
  PROVE  Shape'
<1>1. JournalTypeOK'
  BY StepUsesJournal, JournalTypeKept DEF Shape
<1>2. CASE WorkerNext
  <2>1. StopperNames' /\ TerminatorNames' /\ DownIsEmpty'
    BY <1>2, WorkerFrame DEF Shape, StopperNames, TerminatorNames, DownIsEmpty, processVars
  <2> QED
    BY <1>1, <1>2, <2>1, WorkerKeepsNames DEF Shape
<1>3. ASSUME NEW s \in Stop, StopNext(s) PROVE Shape'
  <2>1. /\ WorldNames' /\ StopperNames' /\ ProcessTypeOK'
        /\ \A c \in Execute : steps'[c].ordinal = steps[c].ordinal
    BY <1>3, StopKeepsNames
  <2>2. phase \in {"up", "closing"} /\ UNCHANGED <<phase, worker, terminator>>
    BY <1>3, StopFrame DEF processVars
  <2>3. WorkerNames' /\ TerminatorNames' /\ DownIsEmpty'
    BY <2>1, <2>2
    DEF Shape, WorkerNames, TerminatorNames, DownIsEmpty, Holding, Executing
  <2> QED
    BY <1>1, <2>1, <2>3 DEF Shape
<1>4. CASE GatewayNext
  BY <1>1, <1>4, GatewayKeepsNames DEF Shape
<1>5. CASE ProcessNext
  BY <1>1, <1>5, ProcessKeepsNames DEF Shape
<1>6. CASE RuntimeNext
  BY <1>1, <1>6, RuntimeKeepsNames
  DEF Shape, ProcessTypeOK, WorkerNames, StopperNames, TerminatorNames, DownIsEmpty,
      processVars, memory
<1>7. CASE UNCHANGED vars
  BY <1>1, <1>7
  DEF Shape, ProcessTypeOK, WorkerNames, StopperNames, TerminatorNames, WorldNames,
      DownIsEmpty, vars, processVars, memory, world
<1> QED
  BY <1>2, <1>3, <1>4, <1>5, <1>6, <1>7 DEF Next

(* Every reachable state of the control plane is well typed, and whoever   *)
(* goes on with a command goes on with an execute command.                 *)
THEOREM ShapeHolds == Spec => []Shape
<1>1. Shape /\ [Next]_vars => Shape'
  BY ShapeKept
<1> QED
  BY ShapeInit, <1>1, PTL DEF Spec

(* The types alone, as the runs check them.                                *)
THEOREM ControlPlaneTypeCorrect == Spec => []TypeOK
BY ShapeHolds, ShapeIsTyped, PTL

(* The tasks of the process, the terminator and the restarts use the       *)
(* journal through its operations only, so that whatever is promised of    *)
(* the journal's unrestricted callers is promised of them.                 *)
THEOREM ControlPlaneUsesJournal == Spec => JournalSpec
<1>1. Init => JournalInit
  BY DEF Init
<1>2. Shape /\ [Next]_vars => [JournalNext]_journalVars
  BY StepUsesJournal
<1> QED
  BY <1>1, <1>2, ShapeHolds, PTL DEF Spec, JournalSpec

(* With the real callers, and through crashes and restarts: a standing     *)
(* stop barrier leaves nothing to start, a repeated request never becomes  *)
(* a second command, the queue is bounded, and ended commands stay ended.  *)
THEOREM ControlPlaneKeepsPromises ==
  Spec => /\ []BarrierHolds /\ []OneCommandPerRequest /\ []QueueWithinCapacity
          /\ KeepsLifecycle
BY ControlPlaneUsesJournal, BarrierIsKept, RequestsAreIdempotent, QueueIsBounded,
   JournalKeepsLifecycle

-----------------------------------------------------------------------------
(* Knowledge: what a task that carries a version knows of the row.         *)

(* Whoever saw a row with a version knows its state for as long as the     *)
(* version is the row's: this is what makes the compare-and-set safe.      *)
Saw(c, version, state) ==
  /\ Present(c)
  /\ version <= commands[c].version
  /\ version = commands[c].version => commands[c].state = state

RowIs(set) == /\ worker.version = commands[worker.command].version
              /\ commands[worker.command].state \in set

Reporting == RunEnds \union {"blocked_unknown"}

(* The version of the row the worker runs is the worker's own.             *)
WorkerRow ==
  /\ worker.pc = "picked" => Saw(worker.command, worker.version, "queued")
  /\ worker.pc \in Executing \union {"enter"} => RowIs({"running"})
  /\ worker.pc = "report" =>
       /\ RowIs(IF worker.reconcile THEN {"running"} ELSE {"running", "reconciling"})
       /\ worker.outcome \in Reporting

(* A reconciliation that the worker reports is not claimed by anybody.     *)
WorkerAlone ==
  worker.pc = "report" /\ RowIs({"reconciling"}) =>
    /\ \A s \in Stop : ~StopOwns(s, worker.command)
    /\ ~TerminatorOwns(worker.command)

StopperSees(s) ==
  /\ (stopper[s].pc = "decide" /\ stopper[s].readable) \/ stopper[s].pc = "claim"
       => Saw(stopper[s].target, stopper[s].version, "blocked_unknown")
  /\ stopper[s].pc \in {"recover", "settle"}
       => Saw(stopper[s].target, stopper[s].version, "reconciling")
  /\ stopper[s].pc = "settle" => stopper[s].outcome \in Reporting

TerminatorSees ==
  /\ \A entry \in terminator.page : Saw(entry.command, entry.version, "blocked_unknown")
  /\ terminator.pc = "claimed" =>
       Saw(terminator.command, terminator.version, "reconciling")

Knowledge == /\ WorkerSurvives /\ WorkerRow /\ WorkerAlone
             /\ (\A s \in Stop : StopperSees(s)) /\ TerminatorSees

LEMMA KnowledgeInit == Init => Knowledge
BY DEF Init, Knowledge, WorkerSurvives, WorkerRow, WorkerAlone, StopperSees,
       TerminatorSees, IdleWorker, NewStopper, NewTerminator, Executing

(* What was seen of a row at a version stays true: versions only grow.     *)
LEMMA SawStays ==
  ASSUME Shape, [JournalNext]_journalVars, NEW c \in Id, NEW v \in Nat, NEW state,
         Saw(c, v, state)
  PROVE  Saw(c, v, state)'
<1>1. commands[c].version \in Nat /\ commands'[c].version \in Nat
  BY JournalTypeKept DEF Shape, JournalTypeOK, Row
<1>2. Present(c) /\ JournalTypeOK
  BY DEF Saw, Shape
<1>3. /\ Present(c)'
      /\ commands'[c].version >= commands[c].version
      /\ commands'[c].version = commands[c].version
           => commands'[c].state = commands[c].state
  BY <1>2, RowsMove
<1> QED
  BY <1>1, <1>3 DEF Saw

(* A task that does nothing keeps what it knows, whatever the others do.   *)
LEMMA StopperKeepsSeeing ==
  ASSUME Shape, [JournalNext]_journalVars, NEW s \in Stop, StopperSees(s),
         stopper'[s] = stopper[s]
  PROVE  StopperSees(s)'
<1> DEFINE c == stopper[s].target
           v == stopper[s].version
<1>1. v \in Nat /\ (stopper[s].pc \in Targeting => c \in Id)
  BY StopperTypes DEF StopRecord
<1>2. ASSUME NEW state, stopper[s].pc \in Targeting, Saw(c, v, state)
      PROVE  Saw(stopper[s].target, stopper[s].version, state)'
  <2>1. \A d \in Id, w \in Nat : Saw(d, w, state) => Saw(d, w, state)'
    BY SawStays
  <2> QED
    BY <1>1, <1>2, <2>1 DEF Saw, Present
<1> QED
  BY <1>2 DEF StopperSees, Targeting

LEMMA TerminatorKeepsSeeing ==
  ASSUME Shape, [JournalNext]_journalVars, TerminatorSees,
         terminator'.page \subseteq terminator.page,
         terminator'.pc = "claimed" => UNCHANGED terminator
  PROVE  TerminatorSees'
<1>1. \A c \in Id, v \in Nat, state \in {"blocked_unknown", "reconciling"} :
        Saw(c, v, state) => Saw(c, v, state)'
  BY SawStays
<1>2. /\ \A entry \in terminator.page : entry.command \in Id /\ entry.version \in Nat
      /\ terminator.version \in Nat
      /\ terminator.pc = "claimed" => terminator.command \in Id
  BY DEF Shape, TerminatorNames, TerminatorRecord, Entry, Execute
<1> QED
  BY <1>1, <1>2 DEF TerminatorSees, Saw, Present

(* A step keeps the row of a command: its version and its state.           *)
RowKept(c) == /\ commands'[c].version = commands[c].version
              /\ commands'[c].state = commands[c].state

(* A compare-and-set that wins moves one row, by one version.              *)
LEMMA TransitionMoves ==
  ASSUME Shape, NEW c \in Id, NEW version, NEW target, Transition(c, version, target)
  PROVE  /\ version \in Nat /\ commands[c].version = version
         /\ commands'[c].version = version + 1 /\ commands'[c].state = target
         /\ target \in Successors(commands[c].state)
         /\ \A d \in Id \ {c} : commands'[d] = commands[d] /\ RowKept(d)
BY TransitionSteps, TransitionRow DEF Shape, RowKept

(* The states a command can leave, and for which states.                   *)
LEMMA SuccessorsOf ==
  /\ Successors("queued") = {"running", "failed", "cancelled_by_stop",
                             "interrupted_before_start"}
  /\ Successors("running") = RunEnds \union {"reconciling", "blocked_unknown"}
  /\ Successors("reconciling") = Reporting
  /\ Successors("blocked_unknown") = {"reconciling"}
  /\ \A state : "reconciling" \in Successors(state)
                  => state \in {"running", "blocked_unknown"}
  /\ \A state : "running" \in Successors(state) => state = "queued"
  /\ RunEnds = {"succeeded", "succeeded_reconciled", "failed", "failed_reconciled",
                "cancelled", "cancelled_reconciled"}
  /\ Reporting = RunEnds \union {"blocked_unknown"}
<1>1. \A state : "reconciling" \in Successors(state)
                   => state \in {"running", "blocked_unknown"}
  BY DEF Successors, UnstartedEnds, RunEnds
<1>2. \A state : "running" \in Successors(state) => state = "queued"
  BY DEF Successors, RunEnds
<1> QED
  BY <1>1, <1>2 DEF Successors, UnstartedEnds, RunEnds, Reporting

(* The row that the worker runs or reports is left alone by everybody      *)
(* else.                                                                   *)
RunsRow == worker.pc \in Executing \union {"enter", "report"}

(* While the worker runs a command, it holds the current version of it.    *)
LEMMA WorkerRowState ==
  ASSUME Shape, Knowledge, RunsRow
  PROVE  /\ worker.command \in Execute /\ worker.command \in Id
         /\ worker.version \in Nat /\ worker.version = commands[worker.command].version
         /\ commands[worker.command].state \in {"running", "reconciling"}
         /\ commands[worker.command].state = "reconciling" => WorkerAlone
BY DEF RunsRow, Shape, Knowledge, WorkerRow, WorkerNames, WorkerRecord, RowIs, Holding,
       Execute

(* A stop acts on a row of the worker only when that row is lost: it does  *)
(* not move a running one.                                                 *)
LEMMA StopLeavesWorkerRow ==
  ASSUME Shape, Knowledge, RunsRow, NEW s \in Stop, StopNext(s)
  PROVE  RowKept(worker.command)
<1> DEFINE c == worker.command
<1>a. /\ c \in Execute /\ c \in Id /\ commands[c].state \in {"running", "reconciling"}
      /\ worker.version = commands[c].version
  BY WorkerRowState
<1>b. UNCHANGED journalVars => RowKept(c)
  BY DEF journalVars, RowKept
<1>c. s \in Id /\ s # c /\ StopperSees(s)
  BY <1>a DEF Stop, Execute, Knowledge
<1>1. CASE StopClaim(s)
  <2>1. stopper[s].target \in Id
    BY <1>1, StopperTypes DEF StopClaim, StopAt, Targeting
  <2>2. CASE UNCHANGED journalVars
    BY <1>b, <2>2
  <2>3. CASE Transition(stopper[s].target, stopper[s].version, "reconciling")
    <3>1. commands[stopper[s].target].state = "blocked_unknown"
      BY <1>1, <1>c, <2>1, <2>3, TransitionMoves DEF StopClaim, StopAt, StopperSees, Saw
    <3> QED
      BY <1>a, <2>1, <2>3, <3>1, TransitionMoves
  <2> QED
    BY <1>1, <2>2, <2>3 DEF StopClaim, StopTransition
<1>2. CASE StopSettle(s)
  <2>1. stopper[s].target \in Id
    BY <1>2, StopperTypes DEF StopSettle, StopAt, Targeting
  <2>2. CASE UNCHANGED journalVars
    BY <1>b, <2>2
  <2>3. CASE Transition(stopper[s].target, stopper[s].version, stopper[s].outcome)
    <3>1. /\ stopper[s].version = commands[stopper[s].target].version
          /\ commands[stopper[s].target].state = "reconciling"
      BY <1>2, <1>c, <2>1, <2>3, TransitionMoves DEF StopSettle, StopAt, StopperSees, Saw
    <3>2. stopper[s].target # c
      BY <1>2, <1>a, <3>1
      DEF Knowledge, WorkerRow, WorkerAlone, RowIs, RunsRow, StopOwns, StopSettle, StopAt
    <3> QED
      BY <1>a, <2>1, <2>3, <3>2, TransitionMoves
  <2> QED
    BY <1>2, <2>2, <2>3 DEF StopSettle, StopTransition
<1>3. CASE StopRuns(s)
  BY <1>3, <1>a, <1>b, <1>c, TransitionMoves DEF StopRuns
<1>4. CASE StopCommits(s)
  BY <1>4, <1>a, <1>b, <1>c, TransitionMoves DEF StopCommits
<1> QED
  BY <1>1, <1>2, <1>3, <1>4, <1>b
  DEF StopNext, StopSignal, StopFindsQuarantine, StopRead, StopDecide,
      StopRecoverCancel, StopRecover, StopRelease, StopWait

(* Neither does anybody else while the worker is alive.                    *)
LEMMA OthersLeaveWorkerRow ==
  ASSUME Shape, Knowledge, RunsRow, GatewayNext \/ ProcessNext \/ RuntimeNext
  PROVE  RowKept(worker.command)
<1> DEFINE c == worker.command
<1>a. /\ c \in Execute /\ c \in Id /\ commands[c].state \in {"running", "reconciling"}
      /\ worker.version = commands[c].version
  BY WorkerRowState
<1>b. UNCHANGED commands => RowKept(c)
  BY DEF RowKept
<1>1. ASSUME NEW d \in Id, Submit(d) PROVE RowKept(c)
  BY <1>1, <1>a
  DEF Submit, CreateCommand, ClaimRequest, Present, Shape, JournalTypeOK, RowKept
<1>2. ASSUME NEW s \in Stop, NEW t \in Id \union {NoId}, StopBegin(s, t)
      PROVE  RowKept(c)
  <2>1. s \in Id /\ s # c /\ c \notin Queued
    BY <1>a DEF Stop, Execute, Queued
  <2> QED
    BY <1>2, <1>a, <2>1, BarrierRows DEF StopBegin, RowKept, Shape
<1>3. ASSUME NEW entry \in terminator.page, TerminationClaims(entry)
      PROVE  RowKept(c)
  <2>1. entry.command \in Id /\ Saw(entry.command, entry.version, "blocked_unknown")
    BY DEF Shape, TerminatorNames, Execute, Knowledge, TerminatorSees
  <2>2. CASE Transition(entry.command, entry.version, "reconciling")
    BY <1>a, <2>1, <2>2, TransitionMoves DEF Saw
  <2> QED
    BY <1>3, <1>b, <2>2 DEF TerminationClaims, journalVars
<1>4. CASE TerminationCommits
  <2>1. /\ terminator.command \in Id /\ terminator.pc = "claimed"
        /\ Saw(terminator.command, terminator.version, "reconciling")
    BY <1>4
    DEF TerminationCommits, Terminating, Shape, TerminatorNames, Execute, Knowledge,
        TerminatorSees
  <2>2. CASE Transition(terminator.command, terminator.version, "cancelled")
    <3>1. /\ terminator.version = commands[terminator.command].version
          /\ commands[terminator.command].state = "reconciling"
      BY <2>1, <2>2, TransitionMoves DEF Saw
    <3>2. terminator.command # c
      BY <1>a, <2>1, <3>1
      DEF Knowledge, WorkerRow, WorkerAlone, RowIs, RunsRow, TerminatorOwns
    <3> QED
      BY <1>a, <2>1, <2>2, <3>2, TransitionMoves
  <2> QED
    BY <1>4, <1>b, <2>2 DEF TerminationCommits, journalVars
<1>5. CASE GatewayNext
  BY <1>1, <1>2, <1>3, <1>4, <1>5, <1>b
  DEF GatewayNext, BotStopped, StopTimesOut, TerminationReads, TerminationTimesOut,
      journalVars
<1>6. ASSUME NEW d \in Id, Recover(d) PROVE RowKept(c)
  BY <1>6 DEF Recover, Sweeping, Shape, DownIsEmpty, RunsRow, Executing
<1>7. CASE ProcessNext
  BY <1>6, <1>7, <1>b
  DEF ProcessNext, Close, CancelWorker, FinishClose, Crash, Boot, FinishRecovery,
      QueueDeadline, BeginShutdown, Quarantine, BeginSession, DeadlinePasses, journalVars
<1>8. CASE RuntimeNext
  BY <1>8, <1>b DEF RuntimeNext, RuntimeFinish, RuntimeGivesUp, RuntimeSettles, journalVars
<1> QED
  BY <1>5, <1>7, <1>8

(* So the worker, left alone, goes on knowing its row.                     *)
LEMMA WorkerKeepsKnowing ==
  ASSUME Shape, Knowledge, [JournalNext]_journalVars, UNCHANGED worker,
         RunsRow => RowKept(worker.command)
  PROVE  WorkerSurvives' /\ WorkerRow'
<1> DEFINE c == worker.command
           v == worker.version
<1>1. v \in Nat /\ (worker.pc = "picked" => c \in Id)
  BY DEF Shape, WorkerNames, WorkerRecord, Holding, Execute
<1>2. worker.pc = "picked" => Saw(c, v, "queued")'
  <2>1. \A d \in Id, w \in Nat : Saw(d, w, "queued") => Saw(d, w, "queued")'
    BY SawStays
  <2>2. worker.pc = "picked" => Saw(c, v, "queued")
    BY DEF Knowledge, WorkerRow
  <2> QED
    BY <1>1, <2>1, <2>2 DEF Saw, Present
<1>3. ASSUME RunsRow, NEW set, RowIs(set) PROVE RowIs(set)'
  BY <1>3 DEF RowKept, RowIs
<1>4. WorkerRow'
  BY <1>2, <1>3 DEF Knowledge, WorkerRow, RunsRow, RowIs, Saw, Present
<1> QED
  BY <1>4 DEF Knowledge, WorkerSurvives

(* Nobody comes to own the reconciliation that the worker reports.         *)
LEMMA WorkerStaysAlone ==
  ASSUME Shape, Knowledge, UNCHANGED worker,
         RunsRow => RowKept(worker.command),
         \A s \in Stop : StopOwns(s, worker.command)' /\ RowKept(worker.command)
           => \/ StopOwns(s, worker.command)
              \/ commands[worker.command].state = "blocked_unknown",
         TerminatorOwns(worker.command)' /\ RowKept(worker.command)
           => \/ TerminatorOwns(worker.command)
              \/ commands[worker.command].state = "blocked_unknown"
  PROVE  WorkerAlone'
<1>1. SUFFICES ASSUME worker.pc = "report", RowIs({"reconciling"})'
               PROVE  WorkerAlone'
  BY DEF WorkerAlone
<1>2. RowKept(worker.command) /\ RowIs({"reconciling"})
  BY <1>1 DEF RunsRow, RowIs, RowKept
<1>3. /\ \A s \in Stop : ~StopOwns(s, worker.command)
      /\ ~TerminatorOwns(worker.command)
  BY <1>1, <1>2 DEF Knowledge, WorkerAlone
<1> QED
  BY <1>2, <1>3 DEF WorkerAlone, RowIs, StopOwns, TerminatorOwns

(* A stop moves no other stop.                                             *)
LEMMA StopFrameOthers ==
  ASSUME Shape, NEW s \in Stop, StopNext(s)
  PROVE  \A x \in Stop \ {s} : stopper'[x] = stopper[x]
BY StopperTypes
DEF StopNext, StopSignal, StopFindsQuarantine, StopRead, StopDecide, StopClaim,
    StopRecoverCancel, StopRecover, StopSettle, StopRelease, StopWait, StopRuns,
    StopCommits, StopTransition, StopGoes, StopAnswers, memory

(* What the stop task itself knows after its step, and that it only comes  *)
(* to own a row that was blocked.                                          *)
LEMMA StopLearns ==
  ASSUME Shape, Knowledge, NEW s \in Stop, StopNext(s), NEW c \in Id
  PROVE  /\ StopperSees(s)'
         /\ StopOwns(s, c)' /\ RowKept(c)
              => StopOwns(s, c) \/ commands[c].state = "blocked_unknown"
<1> DEFINE Learnt == /\ StopperSees(s)'
                     /\ StopOwns(s, c)' /\ RowKept(c)
                          => StopOwns(s, c) \/ commands[c].state = "blocked_unknown"
<1>a. [JournalNext]_journalVars /\ StopperSees(s)
  BY StopUsesJournal DEF Knowledge
<1>b. /\ stopper[s] \in StopRecord /\ stopper \in [Stop -> StopRecord]
      /\ stopper[s].version \in Nat
  BY StopperTypes DEF StopRecord
<1>1. ASSUME stopper'[s].pc \notin {"decide", "claim", "recover", "settle"} PROVE Learnt
  BY <1>1 DEF StopperSees, StopOwns
<1>2. ASSUME UNCHANGED stopper PROVE Learnt
  BY <1>2, <1>a, StopperKeepsSeeing DEF StopOwns, RowKept
<1>3. ASSUME NEW pc, StopGoes(s, pc) PROVE stopper'[s].pc = pc
  BY <1>3, <1>b DEF StopGoes, StopRecord
<1>4. ASSUME NEW pc, NEW incomplete, StopAnswers(s, pc, incomplete)
      PROVE  stopper'[s].pc = pc
  BY <1>4, <1>b DEF StopAnswers, StopRecord
<1>5. CASE StopSignal(s) \/ StopFindsQuarantine(s) \/ StopRelease(s) \/ StopWait(s)
           \/ StopRuns(s) \/ StopCommits(s)
  BY <1>1, <1>3, <1>4, <1>5
  DEF StopSignal, StopFindsQuarantine, StopRelease, StopWait, StopRuns, StopCommits
<1>6. CASE StopRead(s)
  <2> DEFINE d == stopper[s].target
  <2>1. /\ stopper'[s].pc = "decide" /\ stopper'[s].target = d
        /\ stopper'[s].version = commands[d].version
        /\ stopper'[s].readable => commands[d].state = "blocked_unknown"
    BY <1>6, <1>b DEF StopRead, StopRecord
  <2>2. commands' = commands /\ d \in Id /\ commands[d].version \in Nat
    BY <1>6, StopperTypes DEF StopRead, StopAt, Targeting, journalVars
  <2> QED
    BY <2>1, <2>2 DEF StopperSees, StopOwns, Saw, Present
<1>7. CASE StopDecide(s)
  <2>1. CASE ~stopper[s].readable
    BY <1>1, <1>4, <1>7, <2>1 DEF StopDecide
  <2>2. CASE stopper[s].readable
    <3>1. stopper'[s] = [stopper[s] EXCEPT !.pc = "claim"] /\ commands' = commands
      BY <1>7, <1>b, <2>2 DEF StopDecide, StopGoes, journalVars
    <3>2. /\ stopper'[s].pc = "claim" /\ stopper'[s].target = stopper[s].target
          /\ stopper'[s].version = stopper[s].version
      BY <3>1, <1>b DEF StopRecord
    <3>3. Saw(stopper[s].target, stopper[s].version, "blocked_unknown")
      BY <1>7, <1>a, <2>2 DEF StopDecide, StopAt, StopperSees
    <3> QED
      BY <3>1, <3>2, <3>3 DEF StopperSees, StopOwns, Saw, Present
  <2> QED
    BY <2>1, <2>2
<1>8. ASSUME NEW target, NEW next \in {"recover", "release"},
             stopper[s].pc \in Targeting, StopTransition(s, target, next)
      PROVE  \/ stopper'[s].pc = "failed"
             \/ /\ Transition(stopper[s].target, stopper[s].version, target)
                /\ stopper'[s].pc = next
                /\ stopper'[s].version = stopper[s].version + 1
                /\ stopper'[s].target = stopper[s].target
  BY <1>8, <1>b DEF StopTransition, StopGoes, StopRecord
<1>9. CASE StopClaim(s)
  <2> DEFINE d == stopper[s].target
  <2>1. CASE stopper'[s].pc = "failed"
    BY <1>1, <2>1
  <2>2. CASE /\ Transition(d, stopper[s].version, "reconciling")
             /\ stopper'[s].pc = "recover"
             /\ stopper'[s].version = stopper[s].version + 1
             /\ stopper'[s].target = d
    <3>1. d \in Id
      BY <1>9, StopperTypes DEF StopClaim, StopAt, Targeting
    <3>2. /\ commands'[d].version = stopper[s].version + 1
          /\ commands'[d].state = "reconciling"
          /\ commands[d].version = stopper[s].version
      BY <2>2, <3>1, TransitionMoves
    <3>3. ~RowKept(d)
      BY <1>b, <3>2 DEF RowKept
    <3>4. /\ stopper'[s].version <= commands'[d].version
          /\ commands'[d].state # "absent" /\ stopper'[s].target = d
      BY <1>b, <2>2, <3>2
    <3>5. StopperSees(s)'
      BY <2>2, <3>2, <3>4 DEF StopperSees, Saw, Present
    <3> QED
      BY <3>3, <3>4, <3>5 DEF StopOwns
  <2> QED
    BY <1>8, <1>9, <2>1, <2>2 DEF StopClaim, StopAt, Targeting
<1>10. CASE StopSettle(s)
  BY <1>1, <1>8, <1>10 DEF StopSettle, StopAt, Targeting
<1>11. CASE StopRecoverCancel(s)
  BY <1>2, <1>11 DEF StopRecoverCancel, memory
<1>12. ASSUME NEW t \in Terminal, StopRecover(s, t) PROVE Learnt
  <2>1. /\ stopper'[s].pc = "settle" /\ stopper'[s].target = stopper[s].target
        /\ stopper'[s].version = stopper[s].version /\ stopper'[s].outcome = t
        /\ commands' = commands /\ stopper[s].pc = "recover"
    BY <1>12, <1>b DEF StopRecover, StopAt, StopRecord, journalVars
  <2>2. t \in Reporting
    BY <1>12 DEF StopRecover, Verdicts, Reconciled, Reporting, RunEnds
  <2>3. Saw(stopper[s].target, stopper[s].version, "reconciling")
    BY <1>a, <2>1 DEF StopperSees
  <2> QED
    BY <2>1, <2>2, <2>3 DEF StopperSees, StopOwns, Saw, Present
<1> QED
  BY <1>5, <1>6, <1>7, <1>9, <1>10, <1>11, <1>12 DEF StopNext

LEMMA StopKeepsKnowledge ==
  ASSUME Shape, Knowledge, NEW s \in Stop, StopNext(s)
  PROVE  Knowledge'
<1>1. [JournalNext]_journalVars /\ UNCHANGED <<worker, terminator>>
  BY StopUsesJournal, StopFrame
<1>2. \A x \in Stop : StopperSees(x)'
  <2>1. \A x \in Stop \ {s} : StopperSees(x)'
    BY <1>1, StopFrameOthers, StopperKeepsSeeing DEF Knowledge
  <2>2. s \in Id
    BY DEF Stop
  <2> QED
    BY <2>1, <2>2, StopLearns
<1>3. TerminatorSees'
  BY <1>1, TerminatorKeepsSeeing DEF Knowledge
<1>4. WorkerSurvives' /\ WorkerRow'
  BY <1>1, StopLeavesWorkerRow, WorkerKeepsKnowing
<1>5. WorkerAlone'
  <2>1. CASE worker.pc # "report"
    BY <1>1, <2>1 DEF WorkerAlone
  <2>2. CASE worker.pc = "report"
    <3>1. worker.command \in Id
      BY <2>2, WorkerRowState DEF RunsRow
    <3>2. \A x \in Stop : StopOwns(x, worker.command)' /\ RowKept(worker.command)
            => \/ StopOwns(x, worker.command)
               \/ commands[worker.command].state = "blocked_unknown"
      <4>1. \A c \in Id : StopOwns(s, c)' /\ RowKept(c)
              => StopOwns(s, c) \/ commands[c].state = "blocked_unknown"
        BY StopLearns
      <4> QED
        BY <1>1, <3>1, <4>1, StopFrameOthers DEF StopOwns, RowKept
    <3> QED
      BY <1>1, <3>2, WorkerStaysAlone, StopLeavesWorkerRow DEF TerminatorOwns, RowKept
  <2> QED
    BY <2>1, <2>2
<1> QED
  BY <1>2, <1>3, <1>4, <1>5 DEF Knowledge

LEMMA GatewayKeepsKnowledge ==
  ASSUME Shape, Knowledge, GatewayNext
  PROVE  Knowledge'
<1>a. [JournalNext]_journalVars
  BY OthersUseJournal
<1>b. UNCHANGED worker
  BY DEF GatewayNext, Submit, StopBegin, StopTimesOut, BotStopped, TerminationReads,
         TerminationClaims, TerminationCommits, TerminationTimesOut, memory
<1>c. WorkerSurvives' /\ WorkerRow'
  BY <1>a, <1>b, OthersLeaveWorkerRow, WorkerKeepsKnowing
<1>d. terminator \in TerminatorRecord /\ stopper \in [Stop -> StopRecord]
  BY DEF Shape, TerminatorNames, StopperNames
<1>1. ASSUME NEW s \in Stop,
             stopper'[s] = stopper[s]
               \/ stopper'[s].pc \notin {"decide", "claim", "recover", "settle"}
      PROVE  /\ StopperSees(s)'
             /\ StopOwns(s, worker.command)' /\ RowKept(worker.command)
                  => StopOwns(s, worker.command)
  <2>1. CASE stopper'[s] = stopper[s]
    BY <1>a, <1>b, <2>1, StopperKeepsSeeing DEF Knowledge, StopOwns, RowKept
  <2>2. CASE stopper'[s].pc \notin {"decide", "claim", "recover", "settle"}
    BY <2>2 DEF StopperSees, StopOwns
  <2> QED
    BY <1>1, <2>1, <2>2
<1>2. \A s \in Stop :
        stopper'[s] = stopper[s]
          \/ stopper'[s].pc \notin {"decide", "claim", "recover", "settle"}
  <2>1. ASSUME NEW s \in Stop, NEW t \in Id \union {NoId}, StopBegin(s, t)
        PROVE  /\ stopper'[s].pc \in {"begin", "signal"}
               /\ \A x \in Stop \ {s} : stopper'[x] = stopper[x]
    BY <1>d, <2>1 DEF StopBegin, NewStopper
  <2>2. ASSUME NEW s \in Stop, StopTimesOut(s)
        PROVE  /\ stopper'[s].pc = "failed"
               /\ \A x \in Stop \ {s} : stopper'[x] = stopper[x]
    BY <1>d, <2>2 DEF StopTimesOut, StopGoes, StopRecord
  <2>3. CASE UNCHANGED stopper
    BY <2>3
  <2> QED
    BY <2>1, <2>2, <2>3
    DEF GatewayNext, Submit, BotStopped, TerminationReads, TerminationClaims,
        TerminationCommits, TerminationTimesOut, memory
<1>3. /\ TerminatorSees'
      /\ TerminatorOwns(worker.command)' /\ RowKept(worker.command)
           => \/ TerminatorOwns(worker.command)
              \/ commands[worker.command].state = "blocked_unknown"
  <2>1. ASSUME UNCHANGED terminator
               \/ (terminator'.page \subseteq terminator.page /\ terminator'.pc # "claimed")
        PROVE  TerminatorSees' /\ (TerminatorOwns(worker.command)'
                                     /\ RowKept(worker.command)
                                     => TerminatorOwns(worker.command))
    BY <1>a, <1>b, <2>1, TerminatorKeepsSeeing DEF Knowledge, TerminatorOwns, RowKept
  <2>2. CASE TerminationReads
    <3> DEFINE page == {[command |-> c, version |-> commands[c].version] :
                          c \in {d \in Blocked : steps[d].ordinal > 0}}
    <3>1. terminator'.pc = "loop" /\ terminator'.page = page /\ commands' = commands
      BY <1>d, <2>2 DEF TerminationReads, TerminatorRecord, journalVars
    <3>2. \A entry \in page :
            /\ Present(entry.command)
            /\ entry.version = commands[entry.command].version
            /\ commands[entry.command].version \in Nat
            /\ commands[entry.command].state = "blocked_unknown"
      BY DEF Blocked, Present, Shape, JournalTypeOK, Row
    <3> HIDE DEF page
    <3> QED
      BY <3>1, <3>2 DEF TerminatorSees, TerminatorOwns, Saw, Present
  <2>3. ASSUME NEW entry \in terminator.page, TerminationClaims(entry)
        PROVE  /\ TerminatorSees'
               /\ TerminatorOwns(worker.command)' /\ RowKept(worker.command)
                    => \/ TerminatorOwns(worker.command)
                       \/ commands[worker.command].state = "blocked_unknown"
    <3>1. CASE terminator' = [terminator EXCEPT !.pc = "failed"]
      <4>1. terminator'.page = terminator.page /\ terminator'.pc = "failed"
        BY <1>d, <3>1 DEF TerminatorRecord
      <4> QED
        BY <2>1, <4>1
    <3>2. CASE /\ Transition(entry.command, entry.version, "reconciling")
               /\ terminator' = [pc |-> "claimed", page |-> terminator.page \ {entry},
                                 command |-> entry.command,
                                 version |-> entry.version + 1]
      <4>1. entry.command \in Id /\ entry.version \in Nat
        BY <1>d DEF Shape, TerminatorNames, TerminatorRecord, Entry
      <4>2. /\ commands'[entry.command].version = entry.version + 1
            /\ commands'[entry.command].state = "reconciling"
            /\ commands[entry.command].version = entry.version
        BY <3>2, <4>1, TransitionMoves
      <4>3. \A e \in terminator.page : Saw(e.command, e.version, "blocked_unknown")'
        <5>1. \A c \in Id, v \in Nat, state \in {"blocked_unknown", "reconciling"} :
                Saw(c, v, state) => Saw(c, v, state)'
          BY <1>a, SawStays
        <5>2. \A e \in terminator.page :
                /\ e.command \in Id /\ e.version \in Nat
                /\ Saw(e.command, e.version, "blocked_unknown")
          BY <1>d DEF Shape, TerminatorNames, TerminatorRecord, Entry, Knowledge,
                      TerminatorSees
        <5> QED
          BY <5>1, <5>2
      <4>4. /\ terminator'.pc = "claimed" /\ terminator'.page = terminator.page \ {entry}
            /\ terminator'.command = entry.command
            /\ terminator'.version = entry.version + 1
        BY <3>2
      <4>5. TerminatorSees'
        BY <4>1, <4>2, <4>3, <4>4 DEF TerminatorSees, Saw, Present
      <4>6. ~(TerminatorOwns(worker.command)' /\ RowKept(worker.command))
        BY <1>b, <4>1, <4>2, <4>4 DEF TerminatorOwns, RowKept
      <4> QED
        BY <4>5, <4>6
    <3> QED
      BY <2>3, <3>1, <3>2 DEF TerminationClaims
  <2>4. ASSUME NEW pc \in {"stopped", "loop", "failed"},
               terminator' = [terminator EXCEPT !.pc = pc]
        PROVE  terminator'.page \subseteq terminator.page /\ terminator'.pc # "claimed"
    BY <1>d, <2>4 DEF TerminatorRecord
  <2> QED
    BY <2>1, <2>2, <2>3, <2>4
    DEF GatewayNext, Submit, StopBegin, StopTimesOut, BotStopped, TerminationCommits,
        TerminationTimesOut, memory
<1>4. WorkerAlone'
  BY <1>b, <1>1, <1>2, <1>3, OthersLeaveWorkerRow, WorkerStaysAlone
<1> QED
  BY <1>c, <1>1, <1>2, <1>3, <1>4 DEF Knowledge

LEMMA ProcessKeepsKnowledge ==
  ASSUME Shape, Knowledge, ProcessNext \/ RuntimeNext
  PROVE  Knowledge'
<1>a. [JournalNext]_journalVars
  BY OthersUseJournal
<1>1. ASSUME UNCHANGED <<stopper, terminator>>
      PROVE  (\A s \in Stop : StopperSees(s)') /\ TerminatorSees'
  BY <1>a, <1>1, StopperKeepsSeeing, TerminatorKeepsSeeing DEF Knowledge
<1>2. ASSUME UNCHANGED memory PROVE Knowledge'
  <2>1. WorkerSurvives' /\ WorkerRow'
    BY <1>a, <1>2, OthersLeaveWorkerRow, WorkerKeepsKnowing DEF memory
  <2>2. WorkerAlone'
    BY <1>2, OthersLeaveWorkerRow, WorkerStaysAlone
    DEF memory, StopOwns, TerminatorOwns, RowKept
  <2> QED
    BY <1>1, <1>2, <2>1, <2>2 DEF Knowledge, memory
<1>3. ASSUME worker'.pc \in {"off", "poll"}
      PROVE  WorkerSurvives' /\ WorkerRow' /\ WorkerAlone'
  BY <1>3 DEF WorkerSurvives, WorkerRow, WorkerAlone, Executing
<1>4. ASSUME UNCHANGED <<stopper, terminator>>, worker'.pc \in {"off", "poll"}
      PROVE  Knowledge'
  BY <1>1, <1>3, <1>4 DEF Knowledge
<1>5. CASE CancelWorker
  BY <1>4, <1>5 DEF CancelWorker, IdleWorker
<1>6. CASE FinishRecovery
  BY <1>4, <1>6 DEF FinishRecovery, IdleWorker
<1>7. CASE FinishClose \/ Crash
  BY <1>3, <1>7, RecordMembers
  DEF FinishClose, Crash, ForgetMemory, IdleWorker, Knowledge, StopperSees, TerminatorSees
<1> QED
  BY <1>2, <1>5, <1>6, <1>7
  DEF ProcessNext, RuntimeNext, Close, Boot, Recover, QueueDeadline, RuntimeFinish,
      RuntimeGivesUp, RuntimeSettles

(* The worker's own steps.                                                 *)
LEMMA WorkerKeepsOthersKnowledge ==
  ASSUME Shape, Knowledge, WorkerNext
  PROVE  (\A s \in Stop : StopperSees(s)') /\ TerminatorSees'
BY WorkerUsesJournal, WorkerFrame, StopperKeepsSeeing, TerminatorKeepsSeeing
DEF Knowledge

(* It goes on with a row that it leaves as it is.                          *)
LEMMA WorkerHoldsRow ==
  ASSUME Shape, Knowledge, UNCHANGED commands,
         worker.pc \in Executing \union {"enter"},
         worker'.command = worker.command, worker'.version = worker.version,
         \/ worker'.pc \in Executing
         \/ worker'.pc = "report" /\ worker'.outcome \in Reporting
  PROVE  WorkerSurvives' /\ WorkerRow' /\ WorkerAlone'
BY DEF Knowledge, WorkerSurvives, WorkerRow, WorkerAlone, RowIs, Executing

LEMMA WorkerKeepsKnowledge ==
  ASSUME Shape, Knowledge, WorkerNext
  PROVE  Knowledge'
<1> DEFINE Kept == WorkerSurvives' /\ WorkerRow' /\ WorkerAlone'
<1> SUFFICES Kept
  BY WorkerKeepsOthersKnowledge DEF Knowledge
<1>a. worker \in WorkerRecord /\ worker.version \in Nat
  BY DEF Shape, WorkerNames, WorkerRecord
<1>b. worker.pc \in Holding => worker.command \in Id /\ worker.command \in Execute
  BY DEF Shape, WorkerNames, Execute
<1>1. ASSUME worker'.pc \in {"off", "poll"} PROVE Kept
  BY <1>1 DEF WorkerSurvives, WorkerRow, WorkerAlone, Executing
<1>2. ASSUME NEW c \in Id, WorkerExpire(c) PROVE Kept
  BY <1>1, <1>2 DEF WorkerExpire, WorkerAt, memory
<1>3. ASSUME NEW c \in Id, WorkerPick(c) PROVE Kept
  <2>1. /\ worker'.pc = "picked" /\ worker'.command = c
        /\ worker'.version = commands[c].version /\ commands' = commands
    BY <1>3 DEF WorkerPick, IdleWorker, journalVars
  <2>2. commands[c].state = "queued" /\ commands[c].version \in Nat
    BY <1>3 DEF WorkerPick, Eligible, Queued, Shape, JournalTypeOK, Row
  <2> QED
    BY <2>1, <2>2 DEF WorkerSurvives, WorkerRow, WorkerAlone, Executing, Saw, Present
<1>4. CASE WorkerLosesRace
  BY <1>1, <1>4 DEF WorkerLosesRace, IdleWorker
<1>5. CASE WorkerDispatch
  <2> DEFINE c == worker.command
  <2>1. c \in Id /\ worker.pc = "picked"
    BY <1>5, <1>b DEF WorkerDispatch, WorkerAt, Holding
  <2>2. /\ commands'[c].version = worker.version + 1 /\ commands'[c].state = "running"
    BY <1>5, <2>1, TransitionMoves DEF WorkerDispatch
  <2>3. /\ worker'.pc = "enter" /\ worker'.command = c
        /\ worker'.version = worker.version + 1
    BY <1>5, <1>a DEF WorkerDispatch, WorkerRecord
  <2> QED
    BY <2>2, <2>3 DEF WorkerSurvives, WorkerRow, WorkerAlone, Executing, RowIs
<1>6. CASE WorkerReport
  <2> DEFINE c == worker.command
             target == IF worker.reconcile THEN "reconciling" ELSE worker.outcome
  <2>1. /\ RunsRow /\ worker.pc = "report" /\ worker.outcome \in Reporting
        /\ RowIs(IF worker.reconcile THEN {"running"} ELSE {"running", "reconciling"})
    BY <1>6 DEF WorkerReport, WorkerAt, Knowledge, WorkerRow, RunsRow
  <2>2. /\ c \in Id /\ worker.version = commands[c].version
        /\ target \in Successors(commands[c].state)
    BY <2>1, WorkerRowState, SuccessorsOf DEF RowIs
  <2> HIDE DEF target
  <2>3. Admits(commands[c], worker.version, target)
    BY <2>2 DEF Admits
  <2>4. /\ Transition(c, worker.version, target)
        /\ worker' = IF worker.reconcile
                     THEN [worker EXCEPT !.version = @ + 1, !.reconcile = FALSE]
                     ELSE IdleWorker
    BY <1>6, <2>3 DEF WorkerReport, target
  <2>5. CASE ~worker.reconcile
    BY <1>1, <2>4, <2>5 DEF IdleWorker
  <2>6. CASE worker.reconcile
    <3>1. /\ worker'.pc = "report" /\ worker'.command = c
          /\ worker'.version = worker.version + 1 /\ worker'.outcome \in Reporting
          /\ ~worker'.reconcile
      BY <1>a, <2>1, <2>4, <2>6 DEF WorkerRecord
    <3>2. /\ commands'[c].version = worker.version + 1
          /\ commands'[c].state = "reconciling" /\ commands[c].version = worker.version
          /\ commands[c].state = "running"
      BY <2>1, <2>2, <2>4, <2>6, TransitionMoves DEF target, RowIs
    <3>3. \A s \in Stop : ~StopOwns(s, c)'
      <4> SUFFICES ASSUME NEW s \in Stop, StopOwns(s, c)' PROVE FALSE
        OBVIOUS
      <4>1. /\ stopper[s].pc \in {"recover", "settle"} /\ stopper[s].target = c
            /\ stopper[s].version = commands'[c].version
        BY <3>1, WorkerFrame DEF StopOwns
      <4>2. stopper[s].version <= commands[c].version
        BY <4>1 DEF Knowledge, StopperSees, Saw
      <4> QED
        BY <1>a, <3>2, <4>1, <4>2
    <3>4. ~TerminatorOwns(c)'
      <4> SUFFICES ASSUME TerminatorOwns(c)' PROVE FALSE
        OBVIOUS
      <4>1. /\ terminator.pc = "claimed" /\ terminator.command = c
            /\ terminator.version = commands'[c].version
        BY <3>1, WorkerFrame DEF TerminatorOwns
      <4>2. terminator.version <= commands[c].version
        BY <4>1 DEF Knowledge, TerminatorSees, Saw
      <4> QED
        BY <1>a, <3>2, <4>1, <4>2
    <3> QED
      BY <3>1, <3>2, <3>3, <3>4
      DEF WorkerSurvives, WorkerRow, WorkerAlone, Executing, RowIs, StopOwns,
          TerminatorOwns
  <2> QED
    BY <2>5, <2>6
<1>7. ASSUME NEW pc \in Executing, WorkerGoes(pc), UNCHANGED commands,
             worker.pc \in Executing \union {"enter"}
      PROVE  Kept
  BY <1>7, <1>a, WorkerHoldsRow DEF WorkerGoes, WorkerRecord
<1>8. ASSUME NEW state, NEW outcome \in Reporting, NEW reconcile,
             Leave(state, outcome, reconcile), UNCHANGED commands,
             worker.pc \in Executing
      PROVE  Kept
  BY <1>8, <1>a, WorkerHoldsRow DEF Leave, WorkerRecord
<1>9. CASE WorkerRefused
  <2>1. /\ worker'.pc = "report" /\ worker'.outcome \in Reporting
        /\ worker'.command = worker.command /\ worker'.version = worker.version
    BY <1>9, <1>a DEF WorkerRefused, WorkerRecord, Reporting, RunEnds
  <2> QED
    BY <1>9, <2>1, WorkerHoldsRow DEF WorkerRefused, WorkerAt, journalVars
<1>10. CASE WorkerEnter \/ WorkerReserve \/ WorkerPersistDispatch \/ WorkerSend
            \/ WorkerReceives \/ WorkerAccepts \/ WorkerLosesResponse
            \/ WorkerDoubtsReceipt
  BY <1>7, <1>10
  DEF WorkerEnter, WorkerReserve, WorkerPersistDispatch, WorkerSend, WorkerReceives,
      WorkerAccepts, WorkerLosesResponse, WorkerDoubtsReceipt, StepUnknown, WorkerAt,
      Executing, journalVars
<1>11. ASSUME NEW t \in Terminal, WorkerFinish(t) \/ WorkerReconcile(t) PROVE Kept
  <2>1. t \in Reporting
    BY <1>11 DEF WorkerFinish, KnownEnds, WorkerReconcile, Verdicts, Reconciled,
                 Reporting, RunEnds
  <2> QED
    BY <1>8, <1>11, <2>1 DEF WorkerFinish, WorkerReconcile, WorkerAt, Executing, journalVars
<1>12. CASE WorkerMeetsNewRuntime \/ WorkerEnds \/ WorkerRaises
  <2>1. {"blocked_unknown", "cancelled", "failed"} \subseteq Reporting
    BY DEF Reporting, RunEnds
  <2> QED
    BY <1>8, <1>12, <2>1
    DEF WorkerMeetsNewRuntime, WorkerEnds, WorkerRaises, WorkerAt, Executing, journalVars
<1>13. CASE WorkerReconcileCancel
  <2>1. worker.pc \in Executing /\ UNCHANGED <<worker, commands>>
    BY <1>13 DEF WorkerReconcileCancel, WorkerAt, Executing, memory, journalVars
  <2> QED
    BY <2>1, WorkerHoldsRow
<1> QED
  BY <1>2, <1>3, <1>4, <1>5, <1>6, <1>9, <1>10, <1>11, <1>12, <1>13 DEF WorkerNext

LEMMA KnowledgeKept ==
  ASSUME Shape, Knowledge, [Next]_vars
  PROVE  Knowledge'
<1>1. CASE UNCHANGED vars
  BY <1>1
  DEF vars, memory, journalVars, Knowledge, WorkerSurvives, WorkerRow, WorkerAlone,
      StopperSees, TerminatorSees, Saw, Present, RowIs, StopOwns, TerminatorOwns
<1> QED
  BY <1>1, WorkerKeepsKnowledge, StopKeepsKnowledge, GatewayKeepsKnowledge,
     ProcessKeepsKnowledge DEF Next

THEOREM KnowledgeHolds == Spec => []Knowledge
<1>1. Shape /\ Knowledge /\ [Next]_vars => Knowledge'
  BY KnowledgeKept
<1> QED
  BY KnowledgeInit, <1>1, ShapeHolds, PTL DEF Spec

(* No compare-and-set of the worker is lost once it runs a command, so its *)
(* task, whose loop has no handler, is never killed by one.                *)
THEOREM WorkerNeverDies == Spec => []WorkerSurvives
<1>1. Knowledge => WorkerSurvives
  BY DEF Knowledge
<1> QED
  BY <1>1, KnowledgeHolds, PTL

(* The bot is only set to work for a command that is filed as running.     *)
THEOREM BotActsForRunningCommands == Spec => ActsOnlyWhileRunning
<1> DEFINE Step == runtime'.acting # runtime.acting /\ runtime'.acting # NoStep
                     => commands[runtime'.acting.command].state = "running"
<1>1. Shape /\ Knowledge /\ [Next]_vars => [Step]_vars
  <2> SUFFICES ASSUME Shape, Knowledge, Next PROVE Step
    OBVIOUS
  <2>a. runtime \in RuntimeRecord
    BY DEF Shape, WorldNames
  <2>1. CASE WorkerSend
    <3>1. worker.pc = "dispatched" /\ commands[worker.command].state = "running"
      BY <2>1 DEF WorkerSend, WorkerAt, Knowledge, WorkerRow, RowIs, Executing
    <3>2. runtime'.acting \in {runtime.acting, StepOf(worker.command)}
      BY <2>1, <2>a DEF WorkerSend, RuntimeRecord
    <3> QED
      BY <3>1, <3>2 DEF StepOf
  <2>2. ASSUME UNCHANGED runtime PROVE Step
    BY <2>2
  <2>3. CASE WorkerReserve
    BY <2>3, <2>a DEF WorkerReserve, RuntimeRecord
  <2>4. ASSUME NEW step, CancelInRuntime(step) PROVE Step
    BY <2>4, <2>a DEF CancelInRuntime, RuntimeRecord
  <2>5. CASE WorkerNext
    BY <2>1, <2>2, <2>3, <2>4, <2>5
    DEF WorkerNext, WorkerExpire, WorkerPick, WorkerFinish, WorkerReconcile,
        WorkerDispatch, WorkerLosesRace, WorkerEnter, WorkerRefused,
        WorkerMeetsNewRuntime, WorkerPersistDispatch, WorkerReceives,
        WorkerLosesResponse, WorkerDoubtsReceipt, WorkerAccepts, WorkerEnds,
        WorkerRaises, WorkerReconcileCancel, WorkerReport, world
  <2>6. ASSUME NEW s \in Stop, StopNext(s) PROVE Step
    BY <2>2, <2>4, <2>6
    DEF StopNext, StopSignal, StopFindsQuarantine, StopRead, StopDecide, StopClaim,
        StopRecoverCancel, StopRecover, StopSettle, StopRelease, StopWait, StopRuns,
        StopCommits, world
  <2>7. ASSUME runtime'.acting \in {runtime.acting, NoStep} PROVE Step
    BY <2>7
  <2>8. CASE GatewayNext
    BY <2>2, <2>7, <2>8, <2>a
    DEF GatewayNext, Submit, StopBegin, StopTimesOut, BotStopped, TerminationReads,
        TerminationClaims, TerminationCommits, TerminationTimesOut, world, RuntimeRecord
  <2>9. CASE ProcessNext
    BY <2>2, <2>9
    DEF ProcessNext, Close, CancelWorker, FinishClose, Crash, Boot, FinishRecovery,
        Recover, QueueDeadline, world
  <2>10. CASE RuntimeNext
    BY <2>7, <2>10, <2>a
    DEF RuntimeNext, RuntimeFinish, RuntimeGivesUp, RuntimeSettles, RuntimeRecord
  <2> QED
    BY <2>5, <2>6, <2>8, <2>9, <2>10 DEF Next
<1> QED
  BY <1>1, ShapeHolds, KnowledgeHolds, PTL DEF Spec, ActsOnlyWhileRunning

-----------------------------------------------------------------------------
(* Owners of the active rows.                                              *)

Owned(c) == \/ WorkerOwns(c) \/ TerminatorOwns(c) \/ Abandoned(c)
            \/ \E s \in Stop : StopOwns(s, c)

RowOwned(c) == /\ commands[c].state = "running" => WorkerOwns(c)
               /\ commands[c].state = "reconciling" => Owned(c)

(* The property, row by row.                                               *)
LEMMA OwnersAreOwners ==
  ActiveRowsHaveOwners <=> (phase = "up" => \A c \in Execute : RowOwned(c))
BY DEF ActiveRowsHaveOwners, RowOwned, Owned

(* A row that is neither run nor reconciled needs no owner.                *)
LEMMA IdleRowIsOwned ==
  ASSUME NEW c, commands'[c].state \notin {"running", "reconciling"}
  PROVE  RowOwned(c)'
BY DEF RowOwned

(* An owner of a row that nobody moved stays one, unless it lets go.       *)
LEMMA OwnerStays ==
  ASSUME NEW c, RowOwned(c), RowKept(c),
         WorkerOwns(c) => WorkerOwns(c)',
         TerminatorOwns(c) \/ Abandoned(c) \/ (\E s \in Stop : StopOwns(s, c))
           => Owned(c)'
  PROVE  RowOwned(c)'
BY DEF RowOwned, RowKept, Owned

LEMMA OthersStayOwners ==
  ASSUME NEW c, RowOwned(c), RowKept(c), UNCHANGED <<stopper, terminator>>,
         WorkerOwns(c) => WorkerOwns(c)'
  PROVE  RowOwned(c)'
BY OwnerStays DEF Owned, RowKept, TerminatorOwns, Abandoned, StopOwns

LEMMA WorkerKeepsOwners ==
  ASSUME Shape, Knowledge, WorkerNext, NEW c \in Execute, RowOwned(c)
  PROVE  RowOwned(c)'
<1>a. /\ worker \in WorkerRecord /\ worker.version \in Nat /\ c \in Id
      /\ worker.pc \in Holding => worker.command \in Id
  BY DEF Shape, WorkerNames, WorkerRecord, Execute
<1>b. UNCHANGED <<stopper, terminator>>
  BY WorkerFrame
<1>c. UNCHANGED journalVars => RowKept(c)
  BY DEF journalVars, RowKept
<1>1. ASSUME RowKept(c), ~WorkerOwns(c) PROVE RowOwned(c)'
  BY <1>b, <1>1, OthersStayOwners
<1>2. ASSUME UNCHANGED journalVars, worker'.pc \in Executing \union {"enter", "report"},
             worker'.command = worker.command, worker'.version = worker.version
      PROVE  RowOwned(c)'
  BY <1>b, <1>c, <1>2, OthersStayOwners DEF WorkerOwns, RowKept
<1>3. ASSUME NEW d \in Id, WorkerExpire(d) PROVE RowOwned(c)'
  <2>1. Transition(d, commands[d].version, "failed") /\ worker.pc = "poll"
    BY <1>3 DEF WorkerExpire, WorkerAt
  <2>2. CASE c = d
    <3>1. commands'[c].state = "failed"
      BY <1>a, <2>1, <2>2, TransitionMoves
    <3> QED
      BY <3>1, IdleRowIsOwned
  <2>3. CASE c # d
    BY <1>1, <1>a, <2>1, <2>3, TransitionMoves DEF WorkerOwns, Executing
  <2> QED
    BY <2>2, <2>3
<1>4. ASSUME worker.pc \in {"poll", "picked"}, UNCHANGED journalVars PROVE RowOwned(c)'
  BY <1>1, <1>c, <1>4 DEF WorkerOwns, Executing
<1>5. CASE WorkerDispatch
  <2>1. /\ worker.command \in Id /\ worker.pc = "picked"
        /\ Transition(worker.command, worker.version, "running")
    BY <1>5, <1>a DEF WorkerDispatch, WorkerAt, Holding
  <2>2. CASE c = worker.command
    <3>1. commands'[c].version = worker.version + 1 /\ commands'[c].state = "running"
      BY <2>1, <2>2, TransitionMoves
    <3>2. /\ worker'.pc = "enter" /\ worker'.command = c
          /\ worker'.version = worker.version + 1
      BY <1>5, <1>a, <2>2 DEF WorkerDispatch, WorkerRecord
    <3> QED
      BY <3>1, <3>2 DEF RowOwned, WorkerOwns
  <2>3. CASE c # worker.command
    BY <1>1, <1>a, <2>1, <2>3, TransitionMoves DEF WorkerOwns
  <2> QED
    BY <2>2, <2>3
<1>6. CASE WorkerReport
  <2> DEFINE target == IF worker.reconcile THEN "reconciling" ELSE worker.outcome
  <2>1. worker.pc = "report" /\ worker.command \in Id
    BY <1>6, <1>a DEF WorkerReport, WorkerAt, Holding
  <2>2. CASE UNCHANGED journalVars
    <3>1. worker' = [worker EXCEPT !.pc = "dead"]
      BY <1>6, <1>a, <2>1, <2>2, TransitionMoves
      DEF WorkerReport, WorkerGoes, journalVars
    <3>2. WorkerSurvives'
      BY WorkerKeepsKnowledge DEF Knowledge
    <3> QED
      BY <1>a, <3>1, <3>2 DEF WorkerSurvives, WorkerRecord
  <2>3. CASE Transition(worker.command, worker.version, target)
    <3>1. CASE c # worker.command
      BY <1>1, <1>a, <2>1, <2>3, <3>1, TransitionMoves DEF WorkerOwns
    <3>2. CASE c = worker.command /\ ~worker.reconcile
      <4>1. commands'[c].state \in Reporting
        BY <2>1, <2>3, <3>2, TransitionMoves DEF Knowledge, WorkerRow
      <4> QED
        BY <4>1, IdleRowIsOwned DEF Reporting, RunEnds
    <3>3. CASE c = worker.command /\ worker.reconcile
      <4>1. /\ commands'[c].state = "reconciling"
            /\ commands'[c].version = worker.version + 1
            /\ commands[c].version = worker.version
        BY <2>1, <2>3, <3>3, TransitionMoves
      <4>2. Admits(commands[worker.command], worker.version, target)
        BY <2>3 DEF Transition
      <4>3. worker' = [worker EXCEPT !.version = @ + 1, !.reconcile = FALSE]
        BY <1>6, <3>3, <4>2 DEF WorkerReport
      <4>4. /\ worker'.pc = "report" /\ worker'.command = c
            /\ worker'.version = worker.version + 1
        BY <1>a, <2>1, <3>3, <4>3 DEF WorkerRecord
      <4> QED
        BY <4>1, <4>4 DEF RowOwned, Owned, WorkerOwns
    <3> QED
      BY <3>1, <3>2, <3>3
  <2> QED
    BY <1>6, <2>2, <2>3 DEF WorkerReport
<1>7. ASSUME NEW pc \in Executing, WorkerGoes(pc), UNCHANGED journalVars
      PROVE  RowOwned(c)'
  BY <1>2, <1>7, <1>a DEF WorkerGoes, WorkerRecord
<1>8. ASSUME NEW state, NEW outcome, NEW reconcile, Leave(state, outcome, reconcile),
             UNCHANGED journalVars
      PROVE  RowOwned(c)'
  BY <1>2, <1>8, <1>a DEF Leave, WorkerRecord
<1>9. CASE WorkerRefused
  <2>1. /\ worker'.pc = "report" /\ worker'.command = worker.command
        /\ worker'.version = worker.version /\ UNCHANGED journalVars
    BY <1>9, <1>a DEF WorkerRefused, WorkerRecord
  <2> QED
    BY <1>2, <2>1
<1>10. CASE WorkerReconcileCancel
  BY <1>10, <1>b, <1>c, OthersStayOwners
  DEF WorkerReconcileCancel, memory, WorkerOwns, RowKept
<1>11. CASE WorkerEnter \/ WorkerReserve \/ WorkerPersistDispatch \/ WorkerSend
            \/ WorkerReceives \/ WorkerAccepts \/ WorkerLosesResponse
            \/ WorkerDoubtsReceipt
  BY <1>7, <1>11
  DEF WorkerEnter, WorkerReserve, WorkerPersistDispatch, WorkerSend, WorkerReceives,
      WorkerAccepts, WorkerLosesResponse, WorkerDoubtsReceipt, StepUnknown, Executing
<1>12. CASE WorkerMeetsNewRuntime \/ WorkerEnds \/ WorkerRaises
            \/ \E t \in Terminal : WorkerFinish(t) \/ WorkerReconcile(t)
  BY <1>8, <1>12
  DEF WorkerMeetsNewRuntime, WorkerEnds, WorkerRaises, WorkerFinish, WorkerReconcile
<1>13. CASE WorkerLosesRace \/ \E d \in Id : WorkerPick(d)
  BY <1>4, <1>13 DEF WorkerLosesRace, WorkerPick, WorkerAt
<1> QED
  BY <1>3, <1>5, <1>6, <1>9, <1>10, <1>11, <1>12, <1>13 DEF WorkerNext

LEMMA StopKeepsOwners ==
  ASSUME Shape, Knowledge, NEW s \in Stop, StopNext(s), NEW c \in Execute, RowOwned(c)
  PROVE  RowOwned(c)'
<1>a. /\ stopper[s] \in StopRecord /\ stopper \in [Stop -> StopRecord] /\ c \in Id
      /\ stopper[s].version \in Nat
  BY StopperTypes DEF StopRecord, Execute
<1>b. /\ UNCHANGED <<worker, terminator>> /\ stopper[s].pc # "failed"
      /\ \A x \in Stop \ {s} : stopper'[x] = stopper[x]
  <2>1. stopper[s].pc # "failed"
    BY DEF StopNext, StopAt, StopSignal, StopFindsQuarantine, StopRead, StopDecide,
           StopClaim, StopRecoverCancel, StopRecover, StopSettle, StopRelease, StopWait,
           StopRuns, StopCommits
  <2> QED
    BY <2>1, StopFrame, StopFrameOthers
(* A stop that owns a row goes on owning it, or abandons it.               *)
<1>1. ASSUME RowKept(c), StopOwns(s, c) => StopOwns(s, c)' \/ Abandoned(c)'
      PROVE  RowOwned(c)'
  <2>1. \A x \in Stop : StopOwns(x, c) => StopOwns(x, c)' \/ Abandoned(c)'
    BY <1>1, <1>b DEF StopOwns, RowKept
  <2>2. Abandoned(c) => Abandoned(c)'
    BY <1>1, <1>b DEF Abandoned, RowKept
  <2>3. (WorkerOwns(c) => WorkerOwns(c)') /\ (TerminatorOwns(c) => TerminatorOwns(c)')
    BY <1>1, <1>b DEF WorkerOwns, TerminatorOwns, RowKept
  <2> QED
    BY <1>1, <2>1, <2>2, <2>3, OwnerStays DEF Owned
<1>c. UNCHANGED journalVars => RowKept(c)
  BY DEF journalVars, RowKept
<1>2. ASSUME stopper[s].pc \notin {"recover", "settle"}, RowKept(c) PROVE RowOwned(c)'
  BY <1>1, <1>2 DEF StopOwns
<1>3. ASSUME RowKept(c), StopGoes(s, "failed") PROVE RowOwned(c)'
  <2>1. /\ stopper'[s].pc = "failed" /\ stopper'[s].target = stopper[s].target
        /\ stopper'[s].version = stopper[s].version
    BY <1>3, <1>a DEF StopGoes, StopRecord
  <2> QED
    BY <1>1, <1>3, <2>1 DEF StopOwns, Abandoned, RowKept
<1>4. ASSUME NEW target, NEW next, StopTransition(s, target, next),
             stopper[s].pc \in Targeting
      PROVE  \/ RowKept(c) /\ StopGoes(s, "failed")
             \/ /\ Transition(stopper[s].target, stopper[s].version, target)
                /\ stopper'[s].pc = next /\ stopper'[s].target = stopper[s].target
                /\ stopper'[s].version = stopper[s].version + 1
  BY <1>4, <1>a, <1>c DEF StopTransition, StopRecord
<1>5. CASE StopClaim(s)
  <2>1. /\ stopper[s].target \in Id /\ stopper[s].pc = "claim"
        /\ stopper[s].pc \in Targeting
    BY <1>5, StopperTypes DEF StopClaim, StopAt, Targeting
  <2>2. CASE /\ Transition(stopper[s].target, stopper[s].version, "reconciling")
             /\ stopper'[s].pc = "recover" /\ stopper'[s].target = stopper[s].target
             /\ stopper'[s].version = stopper[s].version + 1
    <3>1. CASE c = stopper[s].target
      <4>1. /\ commands'[c].state = "reconciling"
            /\ commands'[c].version = stopper[s].version + 1
        BY <2>1, <2>2, <3>1, TransitionMoves
      <4> QED
        BY <2>2, <3>1, <4>1 DEF RowOwned, Owned, StopOwns
    <3>2. CASE c # stopper[s].target
      BY <1>2, <1>a, <2>1, <2>2, <3>2, TransitionMoves
    <3> QED
      BY <3>1, <3>2
  <2> QED
    BY <1>3, <1>4, <1>5, <2>1, <2>2 DEF StopClaim
<1>6. CASE StopSettle(s)
  <2>1. /\ stopper[s].target \in Id /\ stopper[s].outcome \in Reporting
        /\ stopper[s].pc \in Targeting
    BY <1>6, StopperTypes DEF StopSettle, StopAt, Targeting, Knowledge, StopperSees
  <2>2. CASE Transition(stopper[s].target, stopper[s].version, stopper[s].outcome)
    <3>1. CASE c = stopper[s].target
      <4>1. commands'[c].state \in Reporting
        BY <2>1, <2>2, <3>1, TransitionMoves
      <4> QED
        BY <4>1, IdleRowIsOwned DEF Reporting, RunEnds
    <3>2. CASE c # stopper[s].target
      BY <1>1, <1>a, <2>1, <2>2, <3>2, TransitionMoves DEF StopOwns
    <3> QED
      BY <3>1, <3>2
  <2> QED
    BY <1>3, <1>4, <1>6, <2>1, <2>2 DEF StopSettle
<1>7. CASE StopRecoverCancel(s)
  BY <1>1, <1>7, <1>c DEF StopRecoverCancel, memory, StopOwns, RowKept
<1>8. ASSUME NEW t \in Terminal, StopRecover(s, t) PROVE RowOwned(c)'
  <2>1. /\ stopper'[s].pc = "settle" /\ stopper'[s].target = stopper[s].target
        /\ stopper'[s].version = stopper[s].version /\ UNCHANGED journalVars
    BY <1>8, <1>a DEF StopRecover, StopRecord
  <2> QED
    BY <1>1, <1>c, <2>1 DEF StopOwns, RowKept
<1>9. CASE StopRuns(s) \/ StopCommits(s)
  <2>1. s \in Id /\ s # c
    BY DEF Stop, Execute
  <2>2. RowKept(c)
    BY <1>9, <1>a, <1>c, <2>1, TransitionMoves DEF StopRuns, StopCommits
  <2> QED
    BY <1>2, <1>9, <2>2 DEF StopRuns, StopCommits, StopAt
<1>10. CASE StopSignal(s) \/ StopFindsQuarantine(s) \/ StopRead(s) \/ StopDecide(s)
            \/ StopRelease(s) \/ StopWait(s)
  BY <1>2, <1>10, <1>c
  DEF StopSignal, StopFindsQuarantine, StopRead, StopDecide, StopRelease, StopWait,
      StopAt
<1> QED
  BY <1>5, <1>6, <1>7, <1>8, <1>9, <1>10 DEF StopNext

LEMMA GatewayKeepsOwners ==
  ASSUME Shape, Knowledge, GatewayNext, NEW c \in Execute, RowOwned(c)
  PROVE  RowOwned(c)'
<1>a. c \in Id /\ UNCHANGED worker
  BY DEF GatewayNext, Submit, StopBegin, StopTimesOut, BotStopped, TerminationReads,
         TerminationClaims, TerminationCommits, TerminationTimesOut, memory, Execute
<1>b. terminator \in TerminatorRecord /\ stopper \in [Stop -> StopRecord]
      /\ terminator.version \in Nat
  BY DEF Shape, TerminatorNames, StopperNames, TerminatorRecord
<1>c. UNCHANGED journalVars => RowKept(c)
  BY DEF journalVars, RowKept
<1>d. RowKept(c) => (WorkerOwns(c) => WorkerOwns(c)')
  BY <1>a DEF WorkerOwns, RowKept
<1>1. ASSUME RowKept(c), UNCHANGED <<stopper, terminator>> PROVE RowOwned(c)'
  BY <1>1, <1>d, OthersStayOwners
<1>2. ASSUME RowKept(c), UNCHANGED stopper,
             TerminatorOwns(c) \/ Abandoned(c) => TerminatorOwns(c)' \/ Abandoned(c)'
      PROVE  RowOwned(c)'
  BY <1>2, <1>d, OwnerStays DEF Owned, StopOwns, RowKept
<1>3. ASSUME RowKept(c), UNCHANGED terminator, NEW s \in Stop,
             stopper[s].pc # "failed",
             StopOwns(s, c) => Abandoned(c)',
             \A x \in Stop \ {s} : stopper'[x] = stopper[x]
      PROVE  RowOwned(c)'
  BY <1>3, <1>d, OwnerStays DEF Owned, StopOwns, Abandoned, TerminatorOwns, RowKept
<1>4. ASSUME NEW d \in Id, Submit(d) PROVE RowOwned(c)'
  <2>1. CASE d = c
    <3>1. commands'[c].state = "queued"
      BY <1>4, <2>1, NewRowType DEF Submit, CreateCommand, Shape, JournalTypeOK
    <3> QED
      BY <3>1, IdleRowIsOwned
  <2>2. CASE d # c
    BY <1>1, <1>4, <1>a, <2>2
    DEF Submit, CreateCommand, Shape, JournalTypeOK, RowKept, memory
  <2> QED
    BY <2>1, <2>2
<1>5. ASSUME NEW s \in Stop, NEW t \in Id \union {NoId}, StopBegin(s, t)
      PROVE  RowOwned(c)'
  <2>1. /\ s \in Id /\ s # c /\ ApplyStopBarrier(s, t) /\ JournalTypeOK
        /\ stopper[s].pc = "new" /\ UNCHANGED terminator
        /\ \A x \in Stop \ {s} : stopper'[x] = stopper[x]
    BY <1>5, <1>b DEF StopBegin, StopAt, Stop, Execute, Shape
  <2>2. CASE c \in Queued
    <3>1. commands'[c].state = "cancelled_by_stop"
      BY <1>a, <2>1, <2>2, BarrierRows
    <3> QED
      BY <3>1, IdleRowIsOwned
  <2>3. CASE c \notin Queued
    BY <1>3, <1>a, <2>1, <2>3, BarrierRows DEF RowKept, StopOwns
  <2> QED
    BY <2>2, <2>3
<1>6. ASSUME NEW s \in Stop, StopTimesOut(s) PROVE RowOwned(c)'
  <2>1. /\ stopper'[s].pc = "failed" /\ stopper'[s].target = stopper[s].target
        /\ stopper'[s].version = stopper[s].version /\ RowKept(c)
        /\ stopper[s].pc # "failed" /\ UNCHANGED terminator
        /\ \A x \in Stop \ {s} : stopper'[x] = stopper[x]
    BY <1>6, <1>b, <1>c DEF StopTimesOut, StopGoes, StopRecord
  <2>2. StopOwns(s, c) => Abandoned(c)'
    BY <2>1 DEF StopOwns, Abandoned, RowKept
  <2> QED
    BY <1>3, <2>1, <2>2
<1>7. ASSUME terminator.pc \in {"idle", "stopped"}, RowKept(c), UNCHANGED stopper
      PROVE  RowOwned(c)'
  BY <1>2, <1>7 DEF TerminatorOwns, Abandoned, RowKept
<1>8. ASSUME RowKept(c), terminator' = [terminator EXCEPT !.pc = "failed"],
             UNCHANGED stopper
      PROVE  RowOwned(c)'
  BY <1>2, <1>8, <1>b DEF TerminatorOwns, Abandoned, RowKept, TerminatorRecord
<1>9. ASSUME NEW entry \in terminator.page, TerminationClaims(entry) PROVE RowOwned(c)'
  <2>1. entry.command \in Id /\ UNCHANGED stopper
    BY <1>9 DEF Shape, TerminatorNames, TerminationClaims, Execute
  <2>2. CASE /\ Transition(entry.command, entry.version, "reconciling")
             /\ terminator' = [pc |-> "claimed", page |-> terminator.page \ {entry},
                               command |-> entry.command,
                               version |-> entry.version + 1]
    <3>1. CASE c = entry.command
      <4>1. /\ commands'[c].state = "reconciling"
            /\ commands'[c].version = entry.version + 1
        BY <2>1, <2>2, <3>1, TransitionMoves
      <4> QED
        BY <2>2, <3>1, <4>1 DEF RowOwned, Owned, TerminatorOwns
    <3>2. CASE c # entry.command
      <4>1. RowKept(c)
        BY <1>a, <2>1, <2>2, <3>2, TransitionMoves
      <4>2. terminator.pc = "loop"
        BY <1>9 DEF TerminationClaims, Terminating
      <4> QED
        BY <1>2, <2>1, <4>1, <4>2 DEF TerminatorOwns, Abandoned, RowKept
    <3> QED
      BY <3>1, <3>2
  <2> QED
    BY <1>8, <1>9, <1>c, <2>1, <2>2 DEF TerminationClaims
<1>10. CASE TerminationCommits
  <2>1. terminator.command \in Id /\ terminator.pc = "claimed" /\ UNCHANGED stopper
    BY <1>10 DEF TerminationCommits, Terminating, Shape, TerminatorNames, Execute
  <2>2. CASE /\ Transition(terminator.command, terminator.version, "cancelled")
             /\ terminator' = [terminator EXCEPT !.pc = "loop"]
    <3>1. CASE c = terminator.command
      <4>1. commands'[c].state = "cancelled"
        BY <2>1, <2>2, <3>1, TransitionMoves
      <4> QED
        BY <4>1, IdleRowIsOwned
    <3>2. CASE c # terminator.command
      <4>1. RowKept(c)
        BY <1>a, <2>1, <2>2, <3>2, TransitionMoves
      <4> QED
        BY <1>2, <2>1, <3>2, <4>1 DEF TerminatorOwns, Abandoned, RowKept
    <3> QED
      BY <3>1, <3>2
  <2> QED
    BY <1>8, <1>10, <1>c, <2>1, <2>2 DEF TerminationCommits
<1>11. CASE TerminationTimesOut
  BY <1>8, <1>11, <1>c DEF TerminationTimesOut
<1>12. ASSUME NEW s \in Stop, BotStopped(s) PROVE RowOwned(c)'
  BY <1>7, <1>12, <1>c DEF BotStopped
<1>13. CASE TerminationReads
  BY <1>7, <1>13, <1>c DEF TerminationReads, Terminating
<1> QED
  BY <1>4, <1>5, <1>6, <1>9, <1>10, <1>11, <1>12, <1>13 DEF GatewayNext

(* Every execute command that is running or being reconciled has a live    *)
(* task that holds its current version; only a reconciliation that was cut *)
(* off is left behind.                                                     *)
THEOREM ActiveRowsAreOwned == Spec => []ActiveRowsHaveOwners
<1>1. Init => ActiveRowsHaveOwners
  BY DEF Init, JournalInit, AbsentRow, ActiveRowsHaveOwners, Execute
<1>2. Shape /\ Knowledge /\ ActiveRowsHaveOwners /\ [Next]_vars => ActiveRowsHaveOwners'
  <2> SUFFICES ASSUME Shape, Knowledge, ActiveRowsHaveOwners, [Next]_vars, phase' = "up"
               PROVE  \A c \in Execute : RowOwned(c)'
    BY DEF ActiveRowsHaveOwners, RowOwned, Owned
  <2>a. ASSUME phase = "up" PROVE \A c \in Execute : RowOwned(c)
    BY <2>a, OwnersAreOwners
  <2>b. ASSUME phase = "up", UNCHANGED <<commands, memory>>
        PROVE  \A c \in Execute : RowOwned(c)'
    BY <2>a, <2>b, OthersStayOwners DEF memory, RowKept, WorkerOwns
  <2>1. CASE WorkerNext
    BY <2>1, <2>a, WorkerFrame, WorkerKeepsOwners DEF processVars
  <2>2. ASSUME NEW s \in Stop, StopNext(s) PROVE \A c \in Execute : RowOwned(c)'
    BY <2>2, <2>a, StopFrame, StopKeepsOwners DEF processVars
  <2>3. CASE GatewayNext
    <3>1. phase = "up"
      BY <2>3
      DEF GatewayNext, Submit, StopBegin, StopTimesOut, BotStopped, TerminationReads,
          TerminationClaims, TerminationCommits, TerminationTimesOut, processVars
    <3> QED
      BY <2>3, <2>a, <3>1, GatewayKeepsOwners
  <2>4. CASE FinishRecovery
    <3>1. \A c \in Execute : commands'[c].state \notin {"running", "reconciling"}
      BY <2>4 DEF FinishRecovery, Quarantine, BeginSession, OpenStates, Execute
    <3> QED
      BY <3>1, IdleRowIsOwned
  <2>5. CASE ProcessNext
    BY <2>4, <2>5, <2>b
    DEF ProcessNext, Close, CancelWorker, FinishClose, Crash, Boot, Recover, Sweeping,
        QueueDeadline, DeadlinePasses, processVars
  <2>6. CASE RuntimeNext
    BY <2>6, <2>b, RuntimeKeepsNames
    DEF RuntimeNext, RuntimeFinish, RuntimeGivesUp, RuntimeSettles, processVars, journalVars
  <2>7. CASE UNCHANGED vars
    BY <2>7, <2>b DEF vars, processVars, journalVars, memory
  <2> QED
    BY <2>1, <2>2, <2>3, <2>5, <2>6, <2>7 DEF Next
<1> QED
  BY <1>1, <1>2, ShapeHolds, KnowledgeHolds, PTL DEF Spec

-----------------------------------------------------------------------------
(* Quietness: for which commands the bot is not acting.                    *)

Quiet(c) == runtime.acting.command # c

(* The bot only acts for a command whose outcome is open.                  *)
ActingRow ==
  runtime.acting # NoStep => commands[runtime.acting.command].state \in ActiveStates

(* Until the worker sends a step the bot does not act for its command, and *)
(* it does not any more when the worker is about to file a known end.      *)
WorkerQuiet ==
  /\ worker.pc \in {"enter", "decide", "reserved", "dispatched"} => Quiet(worker.command)
  /\ worker.pc = "report" /\ worker.outcome \in Settled => Quiet(worker.command)
  /\ worker.pc \in {"reserved", "dispatched"} => runtime.receipt[worker.command] = "none"
  /\ worker.pc = "answered" => runtime.receipt[worker.command] # "none"
  /\ worker.pc \in {"dispatched", "reconcile"} => steps[worker.command].state # "reserved"

(* A step that was only reserved was never sent; a receipt that names an   *)
(* outcome was written when the action ended.                              *)
StepQuiet ==
  \A c \in Execute :
    /\ steps[c].state = "reserved" => Quiet(c)
    /\ runtime.receipt[c] \notin {"none", "unknown"} => Quiet(c)

SettleQuiet(s) ==
  /\ stopper[s].pc = "settle" /\ stopper[s].outcome \in Settled
  /\ stopper[s].version = commands[stopper[s].target].version
  => Quiet(stopper[s].target)

TerminatedQuiet == terminator.pc # "idle" => runtime.acting = NoStep

Quietness == /\ ActingRow /\ WorkerQuiet /\ StepQuiet /\ TerminatedQuiet
             /\ \A s \in Stop : SettleQuiet(s)

LEMMA QuietInit == Init => Quietness
BY NoIdAssumption
DEF Init, Quietness, ActingRow, WorkerQuiet, StepQuiet, SettleQuiet, TerminatedQuiet,
    IdleWorker, NewStopper, NewTerminator, Quiet, NoStep, Execute

LEMMA NobodyIsQuiet == \A c \in Id : NoStep.command # c
BY NoIdAssumption DEF NoStep

(* The layer implies the property: an ended row is quiet.                  *)
LEMMA QuietMeansEnded == Shape /\ Quietness => EndedMeansQuiet
BY NobodyIsQuiet
DEF Shape, WorldNames, Quietness, ActingRow, EndedMeansQuiet, Execute, ActiveStates,
    Settled, UnstartedEnds, RunEnds

(* A step that sets the bot to no new work.                                *)
Calm == runtime'.acting \in {runtime.acting, NoStep}

(* Quietness can only be ended by sending a step for that command.         *)
LEMMA QuietStays ==
  ASSUME Calm, NEW c \in Id, Quiet(c)
  PROVE  Quiet(c)'
BY NobodyIsQuiet DEF Calm, Quiet

LEMMA ActingRowStays ==
  ASSUME Shape, ActingRow, Calm,
         \A c \in Execute : ~Quiet(c) /\ commands[c].state \in ActiveStates
                              => commands'[c].state \in ActiveStates
  PROVE  ActingRow'
BY DEF Shape, WorldNames, ActingRow, Calm, Quiet

LEMMA StopperStaysQuiet ==
  ASSUME Shape, Knowledge, [JournalNext]_journalVars, Calm,
         NEW s \in Stop, SettleQuiet(s), stopper'[s] = stopper[s]
  PROVE  SettleQuiet(s)'
<1> DEFINE c == stopper[s].target
<1>1. SUFFICES ASSUME stopper[s].pc = "settle", stopper[s].outcome \in Settled,
                      stopper[s].version = commands'[c].version
               PROVE  Quiet(c)'
  BY DEF SettleQuiet, Quiet
<1>2. c \in Id /\ Saw(c, stopper[s].version, "reconciling")
  BY <1>1, StopperTypes DEF Targeting, Knowledge, StopperSees
<1>3. /\ commands[c].version \in Nat /\ commands'[c].version \in Nat
      /\ commands'[c].version >= commands[c].version
  BY <1>2, RowsMove, JournalTypeKept DEF Shape, JournalTypeOK, Row, Saw
<1>4. stopper[s].version = commands[c].version
  BY <1>1, <1>2, <1>3 DEF Saw
<1>5. Quiet(c)
  BY <1>1, <1>4 DEF SettleQuiet
<1> QED
  BY <1>2, <1>5, QuietStays

(* What the steps of everybody but the worker do to the world.             *)
WorldMoves ==
  /\ Calm
  /\ \A c \in Execute :
       /\ steps'[c].state = "reserved" => steps[c].state = "reserved"
       /\ \/ runtime'.receipt[c] = runtime.receipt[c]
          \/ /\ ~Quiet(c) /\ runtime'.receipt[c] # "none"
             /\ runtime'.acting = NoStep \/ runtime'.receipt[c] = "unknown"

(* What may happen to the bot and the steps without ending anybody's       *)
(* quiet.                                                                  *)
LEMMA WorldUnchanged == ASSUME UNCHANGED world PROVE WorldMoves
BY DEF WorldMoves, Calm, world

(* The steps that disturb nobody's quiet: a cancellation, a verdict on a   *)
(* step, a stop, and all tasks but the worker.                             *)
LEMMA CancelMoves ==
  ASSUME Shape, NEW step, CancelInRuntime(step), UNCHANGED steps
  PROVE  WorldMoves
BY DEF CancelInRuntime, Shape, WorldNames, RuntimeRecord, WorldMoves, Calm

LEMMA StepAfterMoves ==
  ASSUME Shape, NEW c \in Id, NEW verdict, StepAfter(c, verdict), UNCHANGED runtime
  PROVE  WorldMoves
BY DEF StepAfter, Shape, WorldNames, StepRecord, WorldMoves, Calm, Execute

LEMMA StopMovesWorld ==
  ASSUME Shape, NEW s \in Stop, StopNext(s)
  PROVE  WorldMoves
<1>1. CASE StopSignal(s)
  BY <1>1, CancelMoves, WorldUnchanged DEF StopSignal, world
<1>2. CASE StopRecoverCancel(s)
  BY <1>2, CancelMoves DEF StopRecoverCancel
<1>3. ASSUME NEW t \in Terminal, StopRecover(s, t) PROVE WorldMoves
  BY <1>3, StopperTypes, StepAfterMoves DEF StopRecover, StopAt, Targeting
<1> QED
  BY <1>1, <1>2, <1>3, WorldUnchanged
  DEF StopNext, StopFindsQuarantine, StopRead, StopDecide, StopClaim, StopSettle,
      StopRelease, StopWait, StopRuns, StopCommits

LEMMA OthersMoveWorld ==
  ASSUME Shape, GatewayNext \/ ProcessNext \/ RuntimeNext
  PROVE  WorldMoves
<1>a. runtime \in RuntimeRecord
      /\ (runtime.acting # NoStep => runtime.acting.command \in Execute)
  BY DEF Shape, WorldNames
<1>1. ASSUME NEW s \in Stop, BotStopped(s) PROVE WorldMoves
  BY <1>1, <1>a DEF BotStopped, RuntimeRecord, WorldMoves, Calm
<1>2. ASSUME NEW o \in Outcomes, RuntimeFinish(o) PROVE WorldMoves
  BY <1>2, <1>a DEF RuntimeFinish, RuntimeRecord, WorldMoves, Calm, Quiet, Execute
<1>3. CASE RuntimeGivesUp
  BY <1>3, <1>a DEF RuntimeGivesUp, RuntimeRecord, WorldMoves, Calm, Quiet, Execute
<1>4. CASE RuntimeSettles
  BY <1>4, <1>a DEF RuntimeSettles, RuntimeRecord, WorldMoves, Calm
<1> QED
  BY <1>1, <1>2, <1>3, <1>4, WorldUnchanged
  DEF GatewayNext, ProcessNext, RuntimeNext, Submit, StopBegin, StopTimesOut,
      TerminationReads, TerminationClaims, TerminationCommits, TerminationTimesOut,
      Close, CancelWorker, FinishClose, Crash, Boot, FinishRecovery, Recover,
      QueueDeadline

LEMMA StepsStayQuiet ==
  ASSUME Shape, Quietness, WorldMoves
  PROVE  StepQuiet'
<1> SUFFICES ASSUME NEW c \in Execute,
                    \/ steps'[c].state = "reserved"
                    \/ runtime'.receipt[c] \notin {"none", "unknown"}
             PROVE  Quiet(c)'
  BY DEF StepQuiet
<1>1. c \in Id /\ Calm
  BY DEF Execute, WorldMoves
<1>2. Quiet(c) \/ runtime'.acting = NoStep
  BY DEF WorldMoves, Quietness, StepQuiet
<1> QED
  BY <1>1, <1>2, QuietStays, NobodyIsQuiet DEF Quiet

LEMMA WorkerStaysQuiet ==
  ASSUME Shape, Quietness, WorldMoves, UNCHANGED worker \/ worker'.pc \in {"off", "poll"}
  PROVE  WorkerQuiet'
<1>1. CASE worker'.pc \in {"off", "poll"}
  BY <1>1 DEF WorkerQuiet
<1>2. CASE UNCHANGED worker
  <2>1. worker.pc \in Holding => worker.command \in Execute /\ worker.command \in Id
    BY DEF Shape, WorkerNames, Execute
  <2>2. worker.pc \in Holding /\ Quiet(worker.command) => Quiet(worker.command)'
    <3>1. \A c \in Id : Quiet(c) => Quiet(c)'
      BY QuietStays DEF WorldMoves
    <3> QED
      BY <1>2, <2>1, <3>1 DEF Quiet
  <2> QED
    BY <1>2, <2>1, <2>2 DEF Quietness, WorkerQuiet, WorldMoves, Holding, Executing
<1> QED
  BY <1>1, <1>2

(* A reconciliation that finds a known end has found the bot at rest.      *)
LEMMA KnownEndOfReconciliation ==
  ASSUME Shape, Quietness, NEW c \in Execute, NEW verdict \in Verdicts(c),
         verdict \in Settled
  PROVE  Quiet(c)
<1>1. c \in Id /\ verdict # "blocked_unknown"
  BY DEF Execute, Settled, UnstartedEnds, RunEnds
<1>2. steps[c].state = "reserved" \/ runtime.acting = NoStep
  BY <1>1 DEF Verdicts
<1> QED
  BY <1>1, <1>2, NobodyIsQuiet DEF Quietness, StepQuiet, Quiet

LEMMA StopKeepsQuiet ==
  ASSUME Shape, Knowledge, Quietness, NEW s \in Stop, StopNext(s)
  PROVE  Quietness'
<1>a. /\ WorldMoves /\ Calm /\ [JournalNext]_journalVars
      /\ UNCHANGED <<worker, terminator>>
      /\ \A x \in Stop \ {s} : stopper'[x] = stopper[x]
  BY StopMovesWorld, StopUsesJournal, StopFrame, StopFrameOthers DEF WorldMoves
<1>b. stopper[s] \in StopRecord /\ stopper \in [Stop -> StopRecord]
  BY StopperTypes
<1>1. ASSUME NEW c \in Execute, ~Quiet(c), commands[c].state \in ActiveStates
      PROVE  commands'[c].state \in ActiveStates
  <2>a. c \in Id /\ s # c /\ s \in Id
    BY DEF Execute, Stop
  <2>b. UNCHANGED journalVars => commands'[c].state \in ActiveStates
    BY <1>1 DEF journalVars
  <2>1. CASE StopClaim(s)
    <3>1. stopper[s].target \in Id
      BY <2>1, StopperTypes DEF StopClaim, StopAt, Targeting
    <3> QED
      BY <1>1, <2>1, <2>a, <2>b, <3>1, TransitionMoves
      DEF StopClaim, StopTransition, ActiveStates
  <2>2. CASE StopSettle(s)
    <3>1. /\ stopper[s].target \in Id /\ stopper[s].outcome \in Reporting
          /\ stopper[s].pc = "settle" /\ SettleQuiet(s)
      BY <2>2, StopperTypes
      DEF StopSettle, StopAt, Targeting, Knowledge, StopperSees, Quietness
    <3>2. CASE Transition(stopper[s].target, stopper[s].version, stopper[s].outcome)
      <4>1. CASE c # stopper[s].target
        BY <1>1, <2>a, <3>1, <3>2, <4>1, TransitionMoves
      <4>2. CASE c = stopper[s].target
        <5>1. stopper[s].version = commands[c].version
              /\ commands'[c].state = stopper[s].outcome
          BY <3>1, <3>2, <4>2, TransitionMoves
        <5>2. stopper[s].outcome \notin Settled
          BY <1>1, <3>1, <4>2, <5>1 DEF SettleQuiet
        <5> QED
          BY <3>1, <5>1, <5>2 DEF Reporting, Settled, ActiveStates
      <4> QED
        BY <4>1, <4>2
    <3> QED
      BY <2>2, <2>b, <3>2 DEF StopSettle, StopTransition
  <2>3. CASE StopRuns(s) \/ StopCommits(s)
    BY <1>1, <2>3, <2>a, <2>b, TransitionMoves DEF StopRuns, StopCommits
  <2> QED
    BY <2>1, <2>2, <2>3, <2>b
    DEF StopNext, StopSignal, StopFindsQuarantine, StopRead, StopDecide,
        StopRecoverCancel, StopRecover, StopRelease, StopWait
<1>2. ActingRow'
  BY <1>a, <1>1, ActingRowStays DEF Quietness
<1>3. \A x \in Stop \ {s} : SettleQuiet(x)'
  BY <1>a, StopperStaysQuiet DEF Quietness
<1>4. SettleQuiet(s)'
  <2>1. CASE stopper'[s].pc # "settle"
    BY <2>1 DEF SettleQuiet
  <2>2. CASE UNCHANGED stopper
    BY <1>a, <2>2, StopperStaysQuiet DEF Quietness
  <2>3. ASSUME NEW t \in Terminal, StopRecover(s, t) PROVE SettleQuiet(s)'
    <3>1. /\ stopper'[s].outcome = t /\ stopper'[s].target = stopper[s].target
          /\ t \in Verdicts(stopper[s].target)
      BY <2>3, <1>b DEF StopRecover, StopRecord
    <3>2. stopper[s].target \in Execute /\ stopper[s].target \in Id
      BY <2>3, StopperTypes DEF StopRecover, StopAt, Targeting
    <3>3. t \in Settled => Quiet(stopper[s].target)
      BY <3>1, <3>2, KnownEndOfReconciliation
    <3>4. \A c \in Id : Quiet(c) => Quiet(c)'
      BY <1>a, QuietStays
    <3> QED
      BY <3>1, <3>2, <3>3, <3>4 DEF SettleQuiet, Quiet
  <2>4. ASSUME NEW pc, StopGoes(s, pc) PROVE stopper'[s].pc = pc
    BY <1>b, <2>4 DEF StopGoes, StopRecord
  <2>5. ASSUME NEW pc, NEW incomplete, StopAnswers(s, pc, incomplete)
        PROVE  stopper'[s].pc = pc
    BY <1>b, <2>5 DEF StopAnswers, StopRecord
  <2>6. ASSUME NEW target, StopTransition(s, target, "recover") \/ StopTransition(s, target, "release")
        PROVE  stopper'[s].pc # "settle"
    BY <1>b, <2>4, <2>6 DEF StopTransition, StopRecord
  <2>7. CASE StopRead(s)
    BY <1>b, <2>1, <2>7 DEF StopRead, StopRecord
  <2>8. CASE StopClaim(s) \/ StopSettle(s)
    BY <2>1, <2>6, <2>8 DEF StopClaim, StopSettle
  <2>9. CASE \/ StopSignal(s) \/ StopFindsQuarantine(s) \/ StopDecide(s)
             \/ StopRelease(s) \/ StopWait(s) \/ StopRuns(s) \/ StopCommits(s)
    <3>1. stopper'[s].pc # "settle"
      BY <2>4, <2>5, <2>9
      DEF StopSignal, StopFindsQuarantine, StopDecide, StopRelease, StopWait, StopRuns,
          StopCommits
    <3> QED
      BY <2>1, <3>1
  <2>10. CASE StopRecoverCancel(s)
    BY <2>2, <2>10 DEF StopRecoverCancel, memory
  <2> QED
    BY <2>3, <2>7, <2>8, <2>9, <2>10 DEF StopNext
<1>5. TerminatedQuiet' /\ StepQuiet' /\ WorkerQuiet'
  BY <1>a, StepsStayQuiet, WorkerStaysQuiet DEF Quietness, TerminatedQuiet, Calm
<1> QED
  BY <1>2, <1>3, <1>4, <1>5 DEF Quietness

LEMMA GatewayKeepsQuiet ==
  ASSUME Shape, Knowledge, Quietness, GatewayNext
  PROVE  Quietness'
<1>a. WorldMoves /\ Calm /\ [JournalNext]_journalVars
  BY OthersMoveWorld, OthersUseJournal DEF WorldMoves
<1>b. terminator \in TerminatorRecord /\ stopper \in [Stop -> StopRecord]
  BY DEF Shape, TerminatorNames, StopperNames
<1>c. UNCHANGED worker
  BY DEF GatewayNext, Submit, StopBegin, StopTimesOut, BotStopped, TerminationReads,
         TerminationClaims, TerminationCommits, TerminationTimesOut, memory
<1>1. ASSUME NEW c \in Execute, ~Quiet(c), commands[c].state \in ActiveStates
      PROVE  commands'[c].state \in ActiveStates
  <2>a. c \in Id
    BY DEF Execute
  <2>1. ASSUME NEW d \in Id, Submit(d) PROVE commands'[c].state \in ActiveStates
    BY <1>1, <2>1, <2>a
    DEF Submit, CreateCommand, ClaimRequest, Present, ActiveStates, Shape, JournalTypeOK
  <2>2. ASSUME NEW s \in Stop, NEW t \in Id \union {NoId}, StopBegin(s, t)
        PROVE  commands'[c].state \in ActiveStates
    <3>1. s \in Id /\ s # c /\ c \notin Queued
      BY <1>1 DEF Stop, Execute, Queued, ActiveStates
    <3> QED
      BY <1>1, <2>2, <2>a, <3>1, BarrierRows DEF StopBegin, Shape
  <2>3. ASSUME NEW entry \in terminator.page, TerminationClaims(entry)
        PROVE  commands'[c].state \in ActiveStates
    <3>1. entry.command \in Id
      BY DEF Shape, TerminatorNames, Execute
    <3> QED
      BY <1>1, <2>3, <2>a, <3>1, TransitionMoves
      DEF TerminationClaims, ActiveStates, journalVars
  <2>4. CASE TerminationCommits
    BY <1>1, <2>4, <2>a, NobodyIsQuiet
    DEF TerminationCommits, Terminating, Quietness, TerminatedQuiet, Quiet
  <2> QED
    BY <1>1, <2>1, <2>2, <2>3, <2>4
    DEF GatewayNext, BotStopped, StopTimesOut, TerminationReads, TerminationTimesOut,
        journalVars
<1>2. ActingRow'
  BY <1>a, <1>1, ActingRowStays DEF Quietness
<1>3. StepQuiet' /\ WorkerQuiet'
  BY <1>a, <1>c, StepsStayQuiet, WorkerStaysQuiet
<1>4. TerminatedQuiet'
  <2>1. ASSUME NEW s \in Stop, BotStopped(s) PROVE runtime'.acting = NoStep
    BY <2>1 DEF BotStopped, Shape, WorldNames, RuntimeRecord
  <2> QED
    BY <1>a, <2>1
    DEF GatewayNext, Submit, StopBegin, StopTimesOut, TerminationReads,
        TerminationClaims, TerminationCommits, TerminationTimesOut, Terminating, memory,
        Quietness, TerminatedQuiet, Calm
<1>5. ASSUME NEW s \in Stop PROVE SettleQuiet(s)'
  <2>1. CASE stopper'[s].pc # "settle"
    BY <2>1 DEF SettleQuiet
  <2>2. CASE stopper'[s] = stopper[s]
    BY <1>a, <2>2, StopperStaysQuiet DEF Quietness
  <2>3. ASSUME NEW x \in Stop, NEW t \in Id \union {NoId}, StopBegin(x, t)
        PROVE  stopper'[s].pc # "settle" \/ stopper'[s] = stopper[s]
    BY <2>3, <1>b DEF StopBegin, NewStopper
  <2>4. ASSUME NEW x \in Stop, StopTimesOut(x)
        PROVE  stopper'[s].pc # "settle" \/ stopper'[s] = stopper[s]
    BY <2>4, <1>b DEF StopTimesOut, StopGoes, StopRecord
  <2> QED
    BY <2>1, <2>2, <2>3, <2>4
    DEF GatewayNext, Submit, BotStopped, TerminationReads, TerminationClaims,
        TerminationCommits, TerminationTimesOut, memory
<1> QED
  BY <1>2, <1>3, <1>4, <1>5 DEF Quietness

LEMMA ProcessKeepsQuiet ==
  ASSUME Shape, Knowledge, Quietness, ProcessNext \/ RuntimeNext
  PROVE  Quietness'
<1>a. WorldMoves /\ Calm /\ [JournalNext]_journalVars
  BY OthersMoveWorld, OthersUseJournal DEF WorldMoves
<1>1. ASSUME NEW c \in Execute, ~Quiet(c), commands[c].state \in ActiveStates
      PROVE  commands'[c].state \in ActiveStates
  <2>1. ASSUME NEW d \in Id, Recover(d) PROVE commands'[c].state \in ActiveStates
    <3>1. Transition(d, commands[d].version, RecoveryTarget(commands[d].state)) /\ c \in Id
      BY <2>1 DEF Recover, RecoverRow, Execute
    <3>2. CASE c # d
      BY <1>1, <3>1, <3>2, TransitionMoves
    <3>3. CASE c = d
      <4>1. RecoveryTarget(commands[c].state) = "blocked_unknown"
        BY <1>1 DEF RecoveryTarget, ActiveStates
      <4>2. commands'[c].state = "blocked_unknown"
        BY <3>1, <3>3, <4>1, TransitionMoves
      <4> QED
        BY <4>2 DEF ActiveStates
    <3> QED
      BY <3>2, <3>3
  <2> QED
    BY <1>1, <2>1
    DEF ProcessNext, RuntimeNext, Close, CancelWorker, FinishClose, Crash, Boot,
        FinishRecovery, QueueDeadline, BeginShutdown, Quarantine, BeginSession,
        DeadlinePasses, RuntimeFinish, RuntimeGivesUp, RuntimeSettles, journalVars
<1>2. ActingRow'
  BY <1>a, <1>1, ActingRowStays DEF Quietness
<1>3. /\ UNCHANGED worker \/ worker'.pc \in {"off", "poll"}
      /\ UNCHANGED terminator \/ terminator'.pc = "idle"
      /\ \A s \in Stop : stopper'[s] = stopper[s] \/ stopper'[s].pc = "new"
  <2> DEFINE Frame == /\ UNCHANGED worker \/ worker'.pc \in {"off", "poll"}
                      /\ UNCHANGED terminator \/ terminator'.pc = "idle"
                      /\ \A s \in Stop : stopper'[s] = stopper[s] \/ stopper'[s].pc = "new"
  <2> SUFFICES Frame
    OBVIOUS
  <2>1. [IdleWorker EXCEPT !.pc = "off"].pc = "off"
    BY DEF IdleWorker
  <2>2. UNCHANGED memory => Frame
    BY DEF memory
  <2>3. ForgetMemory => Frame
    BY <2>1, RecordMembers DEF ForgetMemory
  <2>4. CancelWorker => Frame
    BY <2>1 DEF CancelWorker
  <2>5. FinishRecovery => Frame
    BY RecordMembers DEF FinishRecovery
  <2> HIDE DEF Frame
  <2> QED
    BY <2>2, <2>3, <2>4, <2>5
    DEF ProcessNext, RuntimeNext, Close, FinishClose, Crash, Boot, Recover,
        QueueDeadline, RuntimeFinish, RuntimeGivesUp, RuntimeSettles
<1>4. StepQuiet' /\ WorkerQuiet'
  BY <1>a, <1>3, StepsStayQuiet, WorkerStaysQuiet
<1>5. TerminatedQuiet'
  BY <1>a, <1>3 DEF Quietness, TerminatedQuiet, Calm
<1>6. \A s \in Stop : SettleQuiet(s)'
  <2>1. \A s \in Stop : stopper'[s] = stopper[s] => SettleQuiet(s)'
    BY <1>a, StopperStaysQuiet DEF Quietness
  <2> QED
    BY <1>3, <2>1 DEF SettleQuiet
<1> QED
  BY <1>2, <1>4, <1>5, <1>6 DEF Quietness


(* The worker is the only task that sets the bot to work.                  *)
LEMMA WorkerMovesWorld ==
  ASSUME Shape, WorkerNext
  PROVE  WorldMoves \/ WorkerReserve \/ WorkerSend
<1>a. worker.pc \in Holding => worker.command \in Id
  BY DEF Shape, WorkerNames, Execute
<1>1. ASSUME NEW state \in {"dispatched", "unknown", "settled"}, worker.pc \in Holding,
             steps' = [steps EXCEPT ![worker.command].state = state], UNCHANGED runtime
      PROVE  WorldMoves
  BY <1>1, <1>a DEF Shape, WorldNames, StepRecord, WorldMoves, Calm, Execute
<1>2. ASSUME NEW t \in Terminal, WorkerReconcile(t) PROVE WorldMoves
  BY <1>2, <1>a, StepAfterMoves DEF WorkerReconcile, WorkerAt, Holding, Executing
<1>3. CASE WorkerReconcileCancel
  BY <1>3, CancelMoves DEF WorkerReconcileCancel
<1>4. CASE \/ WorkerPersistDispatch \/ WorkerLosesResponse \/ WorkerDoubtsReceipt
           \/ WorkerAccepts \/ WorkerEnds
  BY <1>1, <1>4
  DEF WorkerPersistDispatch, WorkerLosesResponse, WorkerDoubtsReceipt, WorkerAccepts,
      WorkerEnds, StepUnknown, SettleStep, WorkerAt, Holding, Executing
<1>5. CASE \/ WorkerDispatch \/ WorkerLosesRace \/ WorkerEnter \/ WorkerRefused
           \/ WorkerMeetsNewRuntime \/ WorkerReceives \/ WorkerRaises \/ WorkerReport
           \/ \E c \in Id : WorkerExpire(c) \/ WorkerPick(c)
           \/ \E t \in Terminal : WorkerFinish(t)
  BY <1>5, WorldUnchanged
  DEF WorkerDispatch, WorkerLosesRace, WorkerEnter, WorkerRefused,
      WorkerMeetsNewRuntime, WorkerReceives, WorkerRaises, WorkerReport, WorkerExpire,
      WorkerPick, WorkerFinish
<1> QED
  BY <1>2, <1>3, <1>4, <1>5 DEF WorkerNext

(* The worker files an end of an acting command only once it is quiet.     *)
LEMMA WorkerKeepsActive ==
  ASSUME Shape, Knowledge, Quietness, WorkerNext,
         NEW c \in Execute, ~Quiet(c), commands[c].state \in ActiveStates
  PROVE  commands'[c].state \in ActiveStates
<1>a. c \in Id /\ (worker.pc \in Holding => worker.command \in Id)
  BY DEF Shape, WorkerNames, Execute
<1>1. ASSUME NEW d \in Id, WorkerExpire(d) PROVE commands'[c].state \in ActiveStates
  <2>1. c # d
    BY <1>1 DEF WorkerExpire, Queued, ActiveStates
  <2> QED
    BY <1>1, <1>a, <2>1, TransitionMoves DEF WorkerExpire
<1>2. CASE WorkerDispatch
  BY <1>2, <1>a, TransitionMoves DEF WorkerDispatch, WorkerAt, Holding, ActiveStates
<1>3. CASE WorkerReport
  <2> DEFINE target == IF worker.reconcile THEN "reconciling" ELSE worker.outcome
  <2>1. /\ worker.pc = "report" /\ worker.command \in Id /\ worker.outcome \in Reporting
    BY <1>3, <1>a DEF WorkerReport, WorkerAt, Holding, Knowledge, WorkerRow
  <2>2. c = worker.command => target \in ActiveStates
    BY <2>1 DEF Quietness, WorkerQuiet, Reporting, ActiveStates, Settled
  <2> HIDE DEF target
  <2>3. CASE Transition(worker.command, worker.version, target)
    BY <1>a, <2>1, <2>2, <2>3, TransitionMoves
  <2>4. Transition(worker.command, worker.version, target) \/ UNCHANGED journalVars
    BY <1>3 DEF WorkerReport, target
  <2> QED
    BY <2>3, <2>4 DEF journalVars
<1>4. UNCHANGED journalVars => commands'[c].state \in ActiveStates
  BY DEF journalVars
<1> QED
  BY <1>1, <1>2, <1>3, <1>4
  DEF WorkerNext, WorkerPick, WorkerFinish, WorkerReconcile, WorkerLosesRace,
      WorkerEnter, WorkerRefused, WorkerMeetsNewRuntime, WorkerReserve,
      WorkerPersistDispatch, WorkerSend, WorkerReceives, WorkerLosesResponse,
      WorkerDoubtsReceipt, WorkerAccepts, WorkerEnds, WorkerRaises,
      WorkerReconcileCancel

(* The worker goes on, or files an end that it knows.                      *)
LEMMA WorkerKnowsQuiet ==
  ASSUME Shape, Knowledge, Quietness, WorkerNext
  PROVE  WorkerQuiet'
<1> DEFINE c == worker.command
<1>a. worker \in WorkerRecord /\ steps \in [Id -> StepRecord] /\ runtime \in RuntimeRecord
  BY DEF Shape, WorkerNames, WorldNames
<1>b. worker.pc \in Holding => c \in Id /\ c \in Execute
  BY DEF Shape, WorkerNames, Execute
<1> SUFFICES WorkerQuiet'
  OBVIOUS
<1>1. ASSUME WorldMoves, UNCHANGED worker \/ worker'.pc \in {"off", "poll"}
      PROVE  WorkerQuiet'
  BY <1>1, WorkerStaysQuiet
<1>2. ASSUME worker'.pc \in {"picked", "waiting", "dead"} PROVE WorkerQuiet'
  BY <1>2 DEF WorkerQuiet
<1>3. ASSUME worker'.pc \in {"enter", "decide"}, worker'.command = c, Quiet(c)'
      PROVE  WorkerQuiet'
  BY <1>3 DEF WorkerQuiet, Quiet
<1>4. ASSUME worker'.pc = "report", worker'.command = c,
             worker'.outcome \in Settled => Quiet(c)'
      PROVE  WorkerQuiet'
  BY <1>4 DEF WorkerQuiet, Quiet
<1>5. ASSUME NEW pc, WorkerGoes(pc)
      PROVE  worker'.pc = pc /\ worker'.command = c
  BY <1>5, <1>a DEF WorkerGoes, WorkerRecord
<1>6. ASSUME NEW state, NEW outcome, NEW reconcile, Leave(state, outcome, reconcile)
      PROVE  worker'.pc = "report" /\ worker'.command = c /\ worker'.outcome = outcome
  BY <1>6, <1>a DEF Leave, WorkerRecord
<1>7. /\ worker.pc \in {"enter", "decide", "reserved", "dispatched"} => Quiet(c)
      /\ worker.pc = "answered" /\ runtime.receipt[c] # "unknown" => Quiet(c)
  BY <1>b DEF Quietness, WorkerQuiet, StepQuiet, Holding, Executing
<1>8. UNCHANGED runtime => (Quiet(c) => runtime'.acting.command # c)
  BY DEF Quiet
<1>10. ASSUME NEW d \in Id, WorkerExpire(d) PROVE WorkerQuiet'
  BY <1>1, <1>10, WorldUnchanged DEF WorkerExpire, memory
<1>11. ASSUME NEW d \in Id, WorkerPick(d) PROVE WorkerQuiet'
  BY <1>2, <1>11 DEF WorkerPick, IdleWorker
<1>12. CASE WorkerLosesRace
  BY <1>1, <1>12, WorldUnchanged, RecordMembers DEF WorkerLosesRace
<1>13. CASE WorkerDispatch
  <2>1. c \in Id /\ c \in Execute /\ UNCHANGED runtime
    BY <1>13, <1>b DEF WorkerDispatch, WorkerAt, Holding, world
  <2>2. commands[c].state = "queued"
    BY <1>13, <2>1, TransitionMoves, SuccessorsOf DEF WorkerDispatch
  <2>3. Quiet(c)
    BY <2>1, <2>2, NobodyIsQuiet DEF Quietness, ActingRow, Quiet, ActiveStates
  <2>4. worker'.pc = "enter" /\ worker'.command = c
    BY <1>13, <1>a DEF WorkerDispatch, WorkerRecord
  <2> QED
    BY <2>1, <2>3, <2>4, <1>3, <1>8 DEF Quiet
<1>14. CASE WorkerEnter
  BY <1>3, <1>5, <1>7, <1>14 DEF WorkerEnter, WorkerAt, world, Quiet
<1>15. CASE WorkerRefused
  <2>1. worker'.pc = "report" /\ worker'.command = c
    BY <1>15, <1>a DEF WorkerRefused, WorkerRecord
  <2> QED
    BY <1>4, <1>7, <1>15, <2>1 DEF WorkerRefused, WorkerAt, world, Quiet
<1>16. ASSUME NEW t \in Terminal, WorkerFinish(t) PROVE WorkerQuiet'
  BY <1>4, <1>6, <1>7, <1>16 DEF WorkerFinish, WorkerAt, world, Quiet
<1>17. CASE WorkerMeetsNewRuntime
  <2>1. "blocked_unknown" \notin Settled
    BY DEF Settled, UnstartedEnds, RunEnds
  <2> QED
    BY <1>4, <1>6, <1>17, <2>1 DEF WorkerMeetsNewRuntime
<1>18. CASE WorkerReserve
  <2>1. /\ c \in Id /\ Quiet(c) /\ worker'.pc = "reserved" /\ worker'.command = c
        /\ runtime' = [runtime EXCEPT !.receipt[c] = "none"]
    BY <1>5, <1>7, <1>b, <1>18 DEF WorkerReserve, WorkerAt, Holding, Executing
  <2>2. runtime'.receipt[c] = "none" /\ runtime'.acting = runtime.acting
    BY <1>a, <2>1 DEF RuntimeRecord
  <2> QED
    BY <2>1, <2>2 DEF WorkerQuiet, Quiet
<1>19. CASE WorkerPersistDispatch
  <2>1. /\ c \in Id /\ Quiet(c) /\ worker'.pc = "dispatched" /\ worker'.command = c
        /\ steps'[c].state = "dispatched" /\ UNCHANGED runtime
        /\ runtime.receipt[c] = "none"
    BY <1>a, <1>5, <1>7, <1>b, <1>19
    DEF WorkerPersistDispatch, WorkerAt, Holding, Executing, StepRecord, Quietness,
        WorkerQuiet
  <2> QED
    BY <2>1 DEF WorkerQuiet, Quiet
<1>20. CASE WorkerSend
  BY <1>2, <1>5, <1>20 DEF WorkerSend
<1>21. CASE WorkerReceives
  <2>1. /\ worker'.pc = "answered" /\ worker'.command = c
        /\ runtime'.receipt[c] # "none"
    BY <1>5, <1>21 DEF WorkerReceives, world
  <2> QED
    BY <2>1 DEF WorkerQuiet
<1>22. CASE WorkerLosesResponse \/ WorkerDoubtsReceipt
  <2>1. c \in Id /\ \E state \in {"unknown", "settled"} : StepUnknown(state)
    BY <1>b, <1>22 DEF WorkerLosesResponse, WorkerDoubtsReceipt, WorkerAt, Holding, Executing
  <2>2. /\ worker'.pc = "reconcile" /\ worker'.command = c
        /\ steps'[c].state \in {"unknown", "settled"}
    BY <1>a, <1>5, <2>1 DEF StepUnknown, StepRecord
  <2> QED
    BY <2>2 DEF WorkerQuiet
<1>23. CASE WorkerAccepts
  BY <1>3, <1>5, <1>7, <1>23 DEF WorkerAccepts, WorkerAt, Quiet
<1>24. CASE WorkerEnds
  BY <1>4, <1>6, <1>7, <1>24 DEF WorkerEnds, WorkerAt, Quiet
<1>25. CASE WorkerRaises
  BY <1>4, <1>6, <1>7, <1>25 DEF WorkerRaises, WorkerAt, Quiet, world
<1>26. CASE WorkerReconcileCancel
  BY <1>1, <1>26, CancelMoves DEF WorkerReconcileCancel, memory
<1>27. ASSUME NEW t \in Terminal, WorkerReconcile(t) PROVE WorkerQuiet'
  <2>1. c \in Execute /\ t \in Verdicts(c) /\ UNCHANGED runtime
    BY <1>b, <1>27 DEF WorkerReconcile, WorkerAt, Holding, Executing
  <2>2. t \in Settled => Quiet(c)
    BY <2>1, KnownEndOfReconciliation
  <2> QED
    BY <1>4, <1>6, <1>27, <2>1, <2>2 DEF WorkerReconcile, Quiet
<1>28. CASE WorkerReport
  <2>1. worker.pc = "report" /\ WorldMoves /\ UNCHANGED runtime
    BY <1>28, WorldUnchanged DEF WorkerReport, WorkerAt, world
  <2>2. CASE WorkerGoes("dead")
    BY <1>2, <1>5, <2>2
  <2>3. CASE worker' = IdleWorker
    BY <1>1, <2>1, <2>3, RecordMembers
  <2>4. CASE worker' = [worker EXCEPT !.version = @ + 1, !.reconcile = FALSE]
    <3>1. /\ worker'.pc = "report" /\ worker'.command = c
          /\ worker'.outcome = worker.outcome
      BY <1>a, <2>1, <2>4 DEF WorkerRecord
    <3> QED
      BY <1>4, <2>1, <3>1 DEF Quietness, WorkerQuiet, Quiet
  <2> QED
    BY <1>28, <2>2, <2>3, <2>4 DEF WorkerReport
<1> QED
  BY <1>10, <1>11, <1>12, <1>13, <1>14, <1>15, <1>16, <1>17, <1>18, <1>19, <1>20, <1>21,
     <1>22, <1>23, <1>24, <1>25, <1>26, <1>27, <1>28 DEF WorkerNext


LEMMA WorkerKeepsQuiet ==
  ASSUME Shape, Knowledge, Quietness, WorkerNext
  PROVE  Quietness'
<1> DEFINE c == worker.command
<1>a. /\ [JournalNext]_journalVars /\ UNCHANGED <<stopper, terminator>>
      /\ WorkerQuiet' /\ runtime \in RuntimeRecord
      /\ worker.pc \in Holding => c \in Id /\ c \in Execute
  BY WorkerUsesJournal, WorkerFrame, WorkerKnowsQuiet
  DEF Shape, WorldNames, WorkerNames, Execute
<1>1. ASSUME Calm PROVE ActingRow' /\ TerminatedQuiet' /\ \A s \in Stop : SettleQuiet(s)'
  <2>1. ActingRow'
    BY <1>1, WorkerKeepsActive, ActingRowStays DEF Quietness
  <2>2. TerminatedQuiet'
    BY <1>1, <1>a DEF Quietness, TerminatedQuiet, Calm
  <2>3. \A s \in Stop : SettleQuiet(s)'
    BY <1>1, <1>a, StopperStaysQuiet DEF Quietness
  <2> QED
    BY <2>1, <2>2, <2>3
<1>2. CASE WorldMoves
  BY <1>1, <1>2, <1>a, StepsStayQuiet DEF Quietness, WorldMoves
<1>3. CASE WorkerReserve
  <2>1. /\ c \in Id /\ Quiet(c) /\ steps \in [Id -> StepRecord]
        /\ steps' = [steps EXCEPT ![c] = [ordinal |-> @.ordinal + 1, state |-> "reserved"]]
        /\ runtime' = [runtime EXCEPT !.receipt[c] = "none"]
    BY <1>3, <1>a DEF WorkerReserve, WorkerAt, Holding, Executing, Quietness, WorkerQuiet,
                      Shape, WorldNames
  <2>2. /\ runtime'.acting = runtime.acting
        /\ \A d \in Id : runtime'.receipt[d] \in {"none", runtime.receipt[d]}
    BY <1>a, <2>1 DEF RuntimeRecord
  <2>3. StepQuiet'
    BY <2>1, <2>2 DEF Quietness, StepQuiet, Quiet, Execute
  <2> QED
    BY <1>1, <1>a, <2>2, <2>3 DEF Quietness, Calm
<1>4. CASE WorkerSend
  <2>1. /\ c \in Id /\ c \in Execute /\ worker.pc = "dispatched"
        /\ UNCHANGED <<commands, steps>> /\ runtime.receipt[c] = "none"
        /\ steps[c].state # "reserved" /\ commands[c].state = "running"
    BY <1>4, <1>a
    DEF WorkerSend, WorkerAt, Holding, Executing, Quietness, WorkerQuiet, Knowledge,
        WorkerRow, RowIs, journalVars
  <2>2. CASE ~RuntimeAccepts
    BY <1>2, <1>4, <2>1, <2>2, WorldUnchanged DEF WorkerSend, world
  <2>3. CASE RuntimeAccepts
    <3>1. /\ runtime'.acting.command = c /\ runtime'.receipt = runtime.receipt
          /\ terminator.pc = "idle"
      BY <1>4, <1>a, <2>3 DEF WorkerSend, RuntimeAccepts, RuntimeRecord, StepOf
    <3>2. ActingRow' /\ TerminatedQuiet'
      BY <1>a, <2>1, <3>1 DEF ActingRow, TerminatedQuiet, ActiveStates
    <3>3. StepQuiet'
      BY <2>1, <3>1 DEF Quietness, StepQuiet, Quiet
    <3>4. ASSUME NEW s \in Stop PROVE SettleQuiet(s)'
      <4>1. SUFFICES ASSUME stopper[s].pc = "settle", stopper[s].target = c,
                            stopper[s].version = commands[c].version
                     PROVE  FALSE
        BY <1>a, <2>1, <3>1 DEF SettleQuiet, Quiet
      <4> QED
        BY <2>1, <4>1 DEF Knowledge, StopperSees, Saw
    <3> QED
      BY <1>a, <3>2, <3>3, <3>4 DEF Quietness
  <2> QED
    BY <2>2, <2>3
<1> QED
  BY <1>2, <1>3, <1>4, WorkerMovesWorld

LEMMA QuietKept ==
  ASSUME Shape, Knowledge, Quietness, [Next]_vars
  PROVE  Quietness'
<1>1. CASE UNCHANGED vars
  BY <1>1
  DEF vars, memory, world, journalVars, Quietness, ActingRow, WorkerQuiet, StepQuiet,
      SettleQuiet, TerminatedQuiet, Quiet
<1> QED
  BY <1>1, WorkerKeepsQuiet, StopKeepsQuiet, GatewayKeepsQuiet, ProcessKeepsQuiet DEF Next

(* What the bot is known not to be doing, in every reachable state.        *)
THEOREM QuietHolds == Spec => []Quietness
<1>1. Shape /\ Knowledge /\ Quietness /\ [Next]_vars => Quietness'
  BY QuietKept
<1> QED
  BY QuietInit, <1>1, ShapeHolds, KnowledgeHolds, PTL DEF Spec

(* Once a command is filed as ended, the bot is not still acting for it,   *)
(* through lost answers, reconciliation, restarts and terminations.        *)
THEOREM EndedCommandsAreQuiet == Spec => []EndedMeansQuiet
BY QuietMeansEnded, QuietHolds, ShapeHolds, PTL

-----------------------------------------------------------------------------
(* Truth: what a stop knows of the command it signalled.                   *)

(* A stop that is about to file its outcome, and has seen nothing that     *)
(* makes it incomplete, has seen the command it signalled ended.           *)
TargetEnded(s) ==
  /\ stopper[s].pc \in {"begin", "commit", "done"}
  /\ ~stopper[s].incomplete
  /\ stopper[s].target # NoId
  => commands[stopper[s].target].state \in Settled

(* The row of a stop command is moved by its own task, and by a recovery   *)
(* that never calls a stop a success.                                      *)
SucceededMeansComplete(s) ==
  stopper[s].pc # "new" /\ commands[s].state = "succeeded"
    => stopper[s].pc = "done" /\ ~stopper[s].incomplete

StopTold(s) == TargetEnded(s) /\ SucceededMeansComplete(s)
Truth == \A s \in Stop : StopTold(s)

LEMMA TruthInit == Init => Truth
BY DEF Init, Truth, StopTold, TargetEnded, SucceededMeansComplete, NewStopper

(* The layer implies the property.                                         *)
LEMMA TruthTold == Truth => StopTellsTheTruth
BY DEF Truth, StopTold, TargetEnded, SucceededMeansComplete, StopTellsTheTruth

(* A task that does nothing, and whose row is left alone, stays true.      *)
LEMMA StopStaysTrue ==
  ASSUME Shape, [JournalNext]_journalVars, NEW s \in Stop, StopTold(s),
         stopper'[s] = stopper[s],
         commands'[s].state = "succeeded" => commands[s].state = "succeeded"
  PROVE  StopTold(s)'
<1>1. stopper[s].target \in Execute \union {NoId} /\ stopper[s].target # NoId
        => stopper[s].target \in Id
  BY DEF Execute
<1>2. \A c \in Id : commands[c].state \in Settled => commands'[c].state \in Settled
  <2> SUFFICES ASSUME NEW c \in Id, commands[c].state \in Settled
               PROVE  commands'[c].state \in Settled
    OBVIOUS
  <2>1. Present(c) /\ JournalTypeOK
    BY DEF Present, Shape, Settled, UnstartedEnds, RunEnds
  <2> QED
    BY <2>1, RowsMove
<1>3. stopper[s].target \in Execute \union {NoId}
  BY DEF Shape, StopperNames
<1> QED
  BY <1>1, <1>2, <1>3 DEF StopTold, TargetEnded, SucceededMeansComplete


(* Only the task of a stop command files it as succeeded.                  *)
LEMMA OnlyCommitSucceeds ==
  ASSUME Shape, [Next]_vars, NEW x \in Stop,
         commands[x].state # "succeeded", commands'[x].state = "succeeded"
  PROVE  StopCommits(x)
<1>a. /\ x \in Id /\ x \notin Execute /\ x \notin Queued
      /\ \A d \in Execute : d \in Id /\ d # x
  BY DEF Stop, Execute, Queued
<1>b. worker.pc \in Holding => worker.command \in Execute
  BY DEF Shape, WorkerNames
<1>c. \A d \in Execute : \A version, target : ~Transition(d, version, target)
  <2> SUFFICES ASSUME NEW d \in Execute, NEW version, NEW target,
                      Transition(d, version, target)
               PROVE  FALSE
    OBVIOUS
  <2> QED
    BY <1>a, TransitionMoves
<1>d. ~UNCHANGED commands
  OBVIOUS
<1>1. CASE WorkerNext
  BY <1>1, <1>b, <1>c, <1>d
  DEF WorkerNext, WorkerAt, WorkerExpire, WorkerPick, WorkerFinish, WorkerReconcile,
      WorkerDispatch, WorkerLosesRace, WorkerEnter, WorkerRefused,
      WorkerMeetsNewRuntime, WorkerReserve, WorkerPersistDispatch, WorkerSend,
      WorkerReceives, WorkerLosesResponse, WorkerDoubtsReceipt, WorkerAccepts,
      WorkerEnds, WorkerRaises, WorkerReconcileCancel, WorkerReport, Holding, Queued,
      journalVars
<1>2. ASSUME NEW s \in Stop, StopNext(s) PROVE StopCommits(x)
  <2>1. stopper[s].pc \in Targeting => stopper[s].target \in Execute
    BY StopperTypes
  <2>2. CASE StopClaim(s) \/ StopSettle(s)
    BY <2>1, <2>2, <1>c, <1>d
    DEF StopClaim, StopSettle, StopTransition, StopAt, Targeting, journalVars
  <2>3. CASE StopRuns(s)
    BY <2>3, <1>a, <1>d, StopperTypes, TransitionMoves DEF StopRuns, journalVars, RowKept
  <2>4. CASE StopCommits(s)
    BY <2>4, <1>a, <1>d, StopperTypes, TransitionMoves DEF StopCommits, journalVars, RowKept
  <2> QED
    BY <1>2, <1>d, <2>2, <2>3, <2>4
    DEF StopNext, StopSignal, StopFindsQuarantine, StopRead, StopDecide,
        StopRecoverCancel, StopRecover, StopRelease, StopWait, journalVars
<1>3. CASE GatewayNext
  <2>1. ASSUME NEW d \in Id, Submit(d) PROVE FALSE
    BY <1>a, <2>1 DEF Submit, CreateCommand, Shape, JournalTypeOK
  <2>2. ASSUME NEW s \in Stop, NEW t \in Id \union {NoId}, StopBegin(s, t) PROVE FALSE
    <3>1. s \in Id /\ ApplyStopBarrier(s, t) /\ JournalTypeOK
      BY <2>2 DEF StopBegin, Stop, Shape
    <3> QED
      BY <1>a, <3>1, BarrierRows
  <2>3. ASSUME NEW entry \in terminator.page, TerminationClaims(entry) PROVE FALSE
    BY <2>3, <1>c, <1>d DEF TerminationClaims, Shape, TerminatorNames, journalVars
  <2>4. ASSUME TerminationCommits PROVE FALSE
    BY <2>4, <1>c, <1>d
    DEF TerminationCommits, Terminating, Shape, TerminatorNames, journalVars
  <2> QED
    BY <1>3, <1>d, <2>1, <2>2, <2>3, <2>4
    DEF GatewayNext, BotStopped, StopTimesOut, TerminationReads, TerminationTimesOut,
        journalVars
<1>4. ASSUME NEW d \in Id, Recover(d) PROVE FALSE
  <2>1. Transition(d, commands[d].version, RecoveryTarget(commands[d].state))
    BY <1>4 DEF Recover, RecoverRow
  <2> QED
    BY <1>a, <2>1, TransitionMoves DEF RecoveryTarget, RowKept
<1> QED
  BY <1>1, <1>2, <1>3, <1>4, <1>d
  DEF Next, vars, ProcessNext, RuntimeNext, Close, CancelWorker, FinishClose, Crash, Boot,
      FinishRecovery, QueueDeadline, DeadlinePasses, BeginShutdown, Quarantine,
      BeginSession, RuntimeFinish, RuntimeGivesUp, RuntimeSettles, journalVars

(* Who moves the task of a stop.                                           *)
LEMMA StopperSteps ==
  ASSUME Shape, [Next]_vars, NEW s \in Stop
  PROVE  \/ stopper'[s] = stopper[s] \/ stopper'[s].pc = "new"
         \/ StopNext(s) \/ StopTimesOut(s)
         \/ \E t \in Id \union {NoId} : StopBegin(s, t)
<1>a. stopper \in [Stop -> StopRecord]
  BY StopperTypes
<1>1. CASE WorkerNext
  BY <1>1, WorkerFrame
<1>2. ASSUME NEW x \in Stop, StopNext(x) PROVE x = s \/ stopper'[s] = stopper[s]
  BY <1>2, StopFrameOthers
<1>3. ASSUME NEW x \in Stop, StopTimesOut(x) \/ \E t \in Id \union {NoId} : StopBegin(x, t)
      PROVE  x = s \/ stopper'[s] = stopper[s]
  BY <1>3, <1>a DEF StopTimesOut, StopBegin, StopGoes
<1>4. CASE GatewayNext
  BY <1>3, <1>4
  DEF GatewayNext, Submit, BotStopped, TerminationReads, TerminationClaims,
      TerminationCommits, TerminationTimesOut, memory
<1>5. ForgetMemory => stopper'[s].pc = "new"
  BY RecordMembers DEF ForgetMemory
<1>6. CASE ProcessNext \/ RuntimeNext
  BY <1>5, <1>6
  DEF ProcessNext, RuntimeNext, Close, CancelWorker, FinishClose, Crash, Boot,
      FinishRecovery, Recover, QueueDeadline, RuntimeFinish, RuntimeGivesUp,
      RuntimeSettles, memory
<1>7. CASE UNCHANGED vars
  BY <1>7 DEF vars, memory
<1> QED
  BY <1>1, <1>2, <1>4, <1>6, <1>7 DEF Next

LEMMA TruthKept ==
  ASSUME Shape, Truth, [Next]_vars
  PROVE  Truth'
<1> SUFFICES ASSUME NEW s \in Stop PROVE StopTold(s)'
  BY DEF Truth
<1>a. /\ [JournalNext]_journalVars /\ StopTold(s) /\ s \in Id
      /\ stopper[s] \in StopRecord /\ stopper \in [Stop -> StopRecord]
  BY StepUsesJournal, StopperTypes DEF Truth
<1>b. \A c \in Id : commands[c].state \in Settled => commands'[c].state \in Settled
  <2> SUFFICES ASSUME NEW c \in Id, commands[c].state \in Settled
               PROVE  commands'[c].state \in Settled
    OBVIOUS
  <2>1. Present(c) /\ JournalTypeOK
    BY DEF Present, Shape, Settled, UnstartedEnds, RunEnds
  <2> QED
    BY <1>a, <2>1, RowsMove
<1>c. stopper[s].target \in Id \union {NoId}
  BY <1>a DEF StopRecord
<1>1. ASSUME NEW pc, StopGoes(s, pc)
      PROVE  /\ stopper'[s].pc = pc /\ stopper'[s].target = stopper[s].target
             /\ stopper'[s].incomplete = stopper[s].incomplete
  BY <1>1, <1>a DEF StopGoes, StopRecord
<1>2. ASSUME NEW pc, NEW incomplete, StopAnswers(s, pc, incomplete)
      PROVE  /\ stopper'[s].pc = pc /\ stopper'[s].target = stopper[s].target
             /\ stopper'[s].incomplete = incomplete
  BY <1>2, <1>a DEF StopAnswers, StopRecord
<1>3. CASE commands[s].state # "succeeded" /\ commands'[s].state = "succeeded"
  <2>1. StopCommits(s)
    BY <1>3, OnlyCommitSucceeds
  <2>2. /\ stopper[s].pc = "commit" /\ ~stopper[s].incomplete /\ StopGoes(s, "done")
    BY <1>3, <1>a, <2>1, StopperTypes, TransitionMoves
    DEF StopCommits, StopAt, StopRecord, journalVars
  <2> QED
    BY <1>1, <1>a, <1>b, <1>c, <2>2 DEF StopTold, TargetEnded, SucceededMeansComplete
<1>4. CASE commands'[s].state = "succeeded" => commands[s].state = "succeeded"
  <2>1. CASE stopper'[s] = stopper[s]
    BY <1>4, <1>a, <2>1, StopStaysTrue
  <2>2. CASE stopper'[s].pc = "new"
    BY <2>2 DEF StopTold, TargetEnded, SucceededMeansComplete
  <2>3. CASE StopTimesOut(s)
    <3>1. commands[s].state # "succeeded" /\ stopper'[s].pc = "failed"
      BY <1>1, <1>a, <2>3 DEF StopTimesOut, StopTold, SucceededMeansComplete
    <3> QED
      BY <1>4, <3>1 DEF StopTold, TargetEnded, SucceededMeansComplete
  <2>4. ASSUME NEW t \in Id \union {NoId}, StopBegin(s, t) PROVE StopTold(s)'
    <3>1. commands'[s].state = "queued"
      BY <1>a, <2>4, BarrierRows DEF StopBegin, Shape
    <3>2. \/ stopper'[s].pc = "signal"
          \/ stopper'[s].pc = "begin" /\ stopper'[s].target = NoId
      BY <1>a, <2>4 DEF StopBegin, NewStopper
    <3> QED
      BY <3>1, <3>2 DEF StopTold, TargetEnded, SucceededMeansComplete
  <2>5. CASE StopNext(s)
    <3>1. stopper[s].pc \notin {"new", "done"}
      BY <2>5
      DEF StopNext, StopAt, StopSignal, StopFindsQuarantine, StopRead, StopDecide,
          StopClaim, StopRecoverCancel, StopRecover, StopSettle, StopRelease, StopWait,
          StopRuns, StopCommits
    <3>2. commands'[s].state # "succeeded"
      BY <1>4, <1>a, <3>1 DEF StopTold, SucceededMeansComplete
    <3> SUFFICES TargetEnded(s)'
      BY <3>2 DEF StopTold, SucceededMeansComplete
    <3>3. ASSUME stopper'[s].pc \notin {"begin", "commit", "done"} \/ stopper'[s].incomplete
          PROVE  TargetEnded(s)'
      BY <3>3 DEF TargetEnded
    <3>4. CASE StopWait(s)
      <4>1. commands' = commands /\ stopper'[s].target = stopper[s].target
        BY <1>2, <3>4 DEF StopWait, journalVars
      <4>2. \/ stopper'[s].incomplete
            \/ commands[stopper[s].target].state \in Terminal \ {"blocked_unknown"}
        BY <1>2, <3>4 DEF StopWait
      <4> QED
        BY <4>1, <4>2 DEF TargetEnded, Terminal
    <3>5. CASE StopRuns(s) \/ StopCommits(s)
      <4>1. stopper[s].pc \in {"begin", "commit"} /\ stopper'[s].target = stopper[s].target
            /\ stopper'[s].incomplete = stopper[s].incomplete
        BY <1>1, <3>5 DEF StopRuns, StopCommits, StopAt
      <4> QED
        BY <1>a, <1>b, <1>c, <4>1 DEF StopTold, TargetEnded
    <3>6. CASE StopDecide(s) \/ StopRelease(s)
      <4>1. StopAnswers(s, "begin", TRUE) \/ StopGoes(s, "claim") \/ StopGoes(s, "wait")
        BY <3>6 DEF StopDecide, StopRelease
      <4>2. stopper'[s].incomplete \/ stopper'[s].pc \in {"claim", "wait"}
        BY <1>1, <1>2, <4>1
      <4> QED
        BY <3>3, <4>2
    <3>7. CASE StopSignal(s) \/ StopFindsQuarantine(s)
      BY <1>1, <3>3, <3>7 DEF StopSignal, StopFindsQuarantine
    <3>8. CASE StopRead(s) \/ \E t \in Terminal : StopRecover(s, t)
      <4>1. stopper'[s].pc \in {"decide", "settle"}
        BY <1>a, <3>8 DEF StopRead, StopRecover, StopRecord
      <4> QED
        BY <3>3, <4>1
    <3>9. CASE StopClaim(s) \/ StopSettle(s)
      BY <1>a, <3>3, <3>9 DEF StopClaim, StopSettle, StopTransition, StopGoes, StopRecord
    <3>10. CASE StopRecoverCancel(s)
      BY <1>4, <1>a, <3>10, StopStaysTrue DEF StopRecoverCancel, memory, StopTold
    <3> QED
      BY <2>5, <3>4, <3>5, <3>6, <3>7, <3>8, <3>9, <3>10 DEF StopNext
  <2> QED
    BY <2>1, <2>2, <2>3, <2>4, <2>5, StopperSteps
<1> QED
  BY <1>3, <1>4

(* A stop that was filed as succeeded left the command it signalled ended, *)
(* with a known outcome.                                                   *)
THEOREM StopsTellTheTruth == Spec => []StopTellsTheTruth
<1>1. Shape /\ Truth /\ [Next]_vars => Truth'
  BY TruthKept
<1> QED
  BY TruthInit, TruthTold, <1>1, ShapeHolds, PTL DEF Spec


-----------------------------------------------------------------------------
(* Order: what the worker knows of the queue it picked from.               *)

(* While nobody has moved the row that the worker picked, it is still the  *)
(* earliest in time: whoever came later has a later sequence.              *)
PickedIsFirst ==
  worker.pc = "picked" /\ worker.version = commands[worker.command].version =>
    \A d \in Queued \ late : commands[worker.command].sequence <= commands[d].sequence

Order == SequencesBounded /\ PickedIsFirst

LEMMA OrderInit == Init => Order
BY DEF Init, JournalInit, AbsentRow, Order, SequencesBounded, PickedIsFirst, IdleWorker

(* Who was first in the queue stays first among those in time: later       *)
(* arrivals have larger sequence numbers.                                  *)
LEMMA PickedStaysFirst ==
  ASSUME Shape, Knowledge, Order, [JournalNext]_journalVars, UNCHANGED worker
  PROVE  Order'
<1>a. /\ SequencesBounded' /\ late \subseteq late' /\ lastSequence \in Nat
      /\ \A d \in Queued' :
           \/ d \in Queued /\ commands'[d].sequence = commands[d].sequence
           \/ commands'[d].sequence > lastSequence
  BY QueueGrowsAtItsEnd DEF Order, Shape, JournalTypeOK
<1> DEFINE c == worker.command
<1> SUFFICES ASSUME worker.pc = "picked", worker.version = commands'[c].version,
                    NEW d \in Queued', d \notin late'
             PROVE  commands'[c].sequence <= commands'[d].sequence
  BY <1>a DEF Order, PickedIsFirst
<1>1. /\ c \in Id /\ Present(c) /\ worker.version <= commands[c].version
      /\ JournalTypeOK /\ JournalTypeOK'
  BY JournalTypeKept DEF Shape, WorkerNames, Holding, Execute, Knowledge, WorkerRow, Saw
<1>2. /\ commands'[c].sequence = commands[c].sequence
      /\ commands'[c].version >= commands[c].version
  BY <1>1, RowsMove
<1>3. /\ commands[c].version \in Nat /\ commands'[c].version \in Nat
      /\ commands[c].sequence \in Nat /\ d \in Id /\ commands'[d].sequence \in Nat
  BY <1>1 DEF JournalTypeOK, Row, Queued, Execute
<1>4. worker.version = commands[c].version
  BY <1>1, <1>2, <1>3
<1>5. CASE d \in Queued /\ commands'[d].sequence = commands[d].sequence
  BY <1>a, <1>2, <1>4, <1>5 DEF Order, PickedIsFirst
<1>6. CASE commands'[d].sequence > lastSequence
  BY <1>a, <1>1, <1>2, <1>3, <1>6 DEF Order, SequencesBounded
<1> QED
  BY <1>a, <1>5, <1>6

LEMMA OrderKept ==
  ASSUME Shape, Knowledge, Order, [Next]_vars
  PROVE  Order'
<1>a. [JournalNext]_journalVars /\ SequencesBounded'
  BY StepUsesJournal, QueueGrowsAtItsEnd DEF Order, Shape
<1>1. CASE UNCHANGED worker
  BY <1>a, <1>1, PickedStaysFirst
<1>2. CASE worker'.pc # "picked"
  BY <1>a, <1>2 DEF Order, PickedIsFirst
<1>3. ASSUME NEW c \in Id, WorkerPick(c) PROVE Order'
  <2>1. /\ worker'.command = c /\ UNCHANGED <<commands, late>> /\ Eligible(c)
    BY <1>3 DEF WorkerPick, IdleWorker, journalVars
  <2>2. Queued' = Queued
    BY <2>1 DEF Queued
  <2> QED
    BY <1>a, <2>1, <2>2 DEF Order, PickedIsFirst, Eligible
<1>4. worker \in WorkerRecord
  BY DEF Shape, WorkerNames
<1>5. CASE WorkerNext
  <2>1. \A pc : WorkerGoes(pc) => worker'.pc = pc
    BY <1>4 DEF WorkerGoes, WorkerRecord
  <2>2. \A state, outcome, reconcile : Leave(state, outcome, reconcile) => worker'.pc = "report"
    BY <1>4 DEF Leave, WorkerRecord
  <2>3. CASE WorkerDispatch \/ WorkerRefused \/ WorkerLosesRace
    <3>1. WorkerDispatch => worker'.pc = "enter"
      BY <1>4 DEF WorkerDispatch, WorkerRecord
    <3>2. WorkerRefused => worker'.pc = "report"
      BY <1>4 DEF WorkerRefused, WorkerRecord
    <3>3. WorkerLosesRace => worker'.pc = "poll"
      BY RecordMembers DEF WorkerLosesRace
    <3> QED
      BY <1>2, <2>3, <3>1, <3>2, <3>3
  <2>4. CASE WorkerReport
    <3>1. CASE WorkerGoes("dead") \/ worker' = IdleWorker
      BY <1>2, <2>1, <3>1, RecordMembers
    <3>2. CASE worker' = [worker EXCEPT !.version = @ + 1, !.reconcile = FALSE]
      <4>1. worker'.pc = "report"
        BY <1>4, <2>4, <3>2 DEF WorkerReport, WorkerAt, WorkerRecord
      <4> QED
        BY <1>2, <4>1
    <3> QED
      BY <2>4, <3>1, <3>2 DEF WorkerReport
  <2>5. ASSUME NEW t \in Terminal, WorkerFinish(t) \/ WorkerReconcile(t) PROVE Order'
    BY <1>2, <2>2, <2>5 DEF WorkerFinish, WorkerReconcile
  <2>6. CASE WorkerMeetsNewRuntime \/ WorkerEnds \/ WorkerRaises
    BY <1>2, <2>2, <2>6 DEF WorkerMeetsNewRuntime, WorkerEnds, WorkerRaises
  <2>7. CASE \/ WorkerEnter \/ WorkerReserve \/ WorkerPersistDispatch \/ WorkerSend
             \/ WorkerReceives \/ WorkerLosesResponse \/ WorkerDoubtsReceipt
             \/ WorkerAccepts
    BY <1>2, <2>1, <2>7
    DEF WorkerEnter, WorkerReserve, WorkerPersistDispatch, WorkerSend, WorkerReceives,
        WorkerLosesResponse, WorkerDoubtsReceipt, WorkerAccepts, StepUnknown
  <2>8. CASE WorkerReconcileCancel \/ \E c \in Id : WorkerExpire(c)
    BY <1>1, <2>8 DEF WorkerReconcileCancel, WorkerExpire, memory
  <2> QED
    BY <1>3, <1>5, <2>3, <2>4, <2>5, <2>6, <2>7, <2>8 DEF WorkerNext
<1>6. CASE GatewayNext
  BY <1>1, <1>6
  DEF GatewayNext, Submit, StopBegin, StopTimesOut, BotStopped, TerminationReads,
      TerminationClaims, TerminationCommits, TerminationTimesOut, memory
<1>7. CASE ProcessNext \/ RuntimeNext
  BY <1>1, <1>2, <1>7, RecordMembers
  DEF ProcessNext, RuntimeNext, Close, CancelWorker, FinishClose, Crash, Boot,
      FinishRecovery, Recover, QueueDeadline, RuntimeFinish, RuntimeGivesUp,
      RuntimeSettles, ForgetMemory, IdleWorker, memory
<1> QED
  BY <1>1, <1>5, <1>6, <1>7, StopFrame DEF Next, vars, memory

(* Only the worker starts an execute command: the one it picked.           *)
LEMMA OnlyDispatchStarts ==
  ASSUME Shape, Knowledge, [Next]_vars, NEW c \in Execute,
         commands[c].state = "queued", commands'[c].state = "running"
  PROVE  WorkerDispatch /\ c = worker.command
<1>a. c \in Id /\ c \in Queued /\ c \notin Stop /\ ~UNCHANGED commands
  BY DEF Execute, Queued, Stop
<1>b. worker.pc \in Holding => worker.command \in Id
  BY DEF Shape, WorkerNames, Execute
<1>c. \A d \in Id : \A version, target :
        Transition(d, version, target) => d = c /\ target = "running"
  <2> SUFFICES ASSUME NEW d \in Id, NEW version, NEW target,
                      Transition(d, version, target)
               PROVE  d = c /\ target = "running"
    OBVIOUS
  <2> QED
    BY <1>a, TransitionMoves
<1>1. CASE WorkerNext
  <2>1. ASSUME NEW d \in Id, WorkerExpire(d) PROVE FALSE
    BY <1>c, <2>1 DEF WorkerExpire
  <2>2. ASSUME WorkerReport PROVE FALSE
    <3> DEFINE target == IF worker.reconcile THEN "reconciling" ELSE worker.outcome
    <3>1. worker.command \in Id /\ target # "running"
      BY <1>b, <2>2 DEF WorkerReport, WorkerAt, Holding, Knowledge, WorkerRow, Reporting,
                        RunEnds
    <3> HIDE DEF target
    <3>2. Transition(worker.command, worker.version, target) \/ UNCHANGED journalVars
      BY <2>2 DEF WorkerReport, target
    <3> QED
      BY <1>a, <1>c, <3>1, <3>2 DEF journalVars
  <2>3. WorkerDispatch => c = worker.command
    BY <1>b, <1>c DEF WorkerDispatch, WorkerAt, Holding
  <2> QED
    BY <1>1, <1>a, <2>1, <2>2, <2>3
    DEF WorkerNext, WorkerPick, WorkerFinish, WorkerReconcile, WorkerLosesRace,
        WorkerEnter, WorkerRefused, WorkerMeetsNewRuntime, WorkerReserve,
        WorkerPersistDispatch, WorkerSend, WorkerReceives, WorkerLosesResponse,
        WorkerDoubtsReceipt, WorkerAccepts, WorkerEnds, WorkerRaises,
        WorkerReconcileCancel, journalVars
<1>2. ASSUME NEW s \in Stop, StopNext(s) PROVE FALSE
  <2>1. /\ stopper[s].pc \in Targeting => stopper[s].target \in Id
        /\ s \in Id /\ s # c
    BY <1>a, StopperTypes
  <2>2. CASE StopClaim(s)
    BY <2>1, <2>2, <1>a, <1>c
    DEF StopClaim, StopTransition, StopAt, Targeting, journalVars
  <2>3. CASE StopSettle(s)
    <3>1. stopper[s].outcome # "running" /\ stopper[s].target \in Id
      BY <2>1, <2>3
      DEF StopSettle, StopAt, Targeting, Knowledge, StopperSees, Reporting, RunEnds
    <3> QED
      BY <2>3, <3>1, <1>a, <1>c DEF StopSettle, StopTransition, journalVars
  <2>4. CASE StopRuns(s) \/ StopCommits(s)
    BY <2>1, <2>4, <1>a, <1>c DEF StopRuns, StopCommits, journalVars
  <2> QED
    BY <1>2, <1>a, <2>2, <2>3, <2>4
    DEF StopNext, StopSignal, StopFindsQuarantine, StopRead, StopDecide,
        StopRecoverCancel, StopRecover, StopRelease, StopWait, journalVars
<1>3. CASE GatewayNext
  <2>1. ASSUME NEW d \in Id, Submit(d) PROVE FALSE
    BY <1>a, <2>1, NewRowType DEF Submit, CreateCommand, Shape, JournalTypeOK
  <2>2. ASSUME NEW s \in Stop, NEW t \in Id \union {NoId}, StopBegin(s, t) PROVE FALSE
    <3>1. s \in Id /\ s # c /\ ApplyStopBarrier(s, t) /\ JournalTypeOK
      BY <2>2, <1>a DEF StopBegin, Stop, Shape
    <3> QED
      BY <1>a, <3>1, BarrierRows
  <2>3. ASSUME NEW entry \in terminator.page, TerminationClaims(entry) PROVE FALSE
    BY <2>3, <1>a, <1>c DEF TerminationClaims, Shape, TerminatorNames, Execute, journalVars
  <2>4. ASSUME TerminationCommits PROVE FALSE
    BY <2>4, <1>a, <1>c
    DEF TerminationCommits, Terminating, Shape, TerminatorNames, Execute, journalVars
  <2> QED
    BY <1>3, <1>a, <2>1, <2>2, <2>3, <2>4
    DEF GatewayNext, BotStopped, StopTimesOut, TerminationReads, TerminationTimesOut,
        journalVars
<1>4. ASSUME NEW d \in Id, Recover(d) PROVE FALSE
  BY <1>4, <1>c DEF Recover, RecoverRow, RecoveryTarget
<1> QED
  BY <1>1, <1>2, <1>3, <1>4, <1>a
  DEF Next, vars, ProcessNext, RuntimeNext, Close, CancelWorker, FinishClose, Crash, Boot,
      FinishRecovery, QueueDeadline, DeadlinePasses, BeginShutdown, Quarantine,
      BeginSession, RuntimeFinish, RuntimeGivesUp, RuntimeSettles, journalVars

(* Commands begin in the order they were accepted, among those still in    *)
(* time, although the choice and the start are two transactions.           *)
THEOREM CommandsStartInOrder == Spec => StartsInOrder
<1> DEFINE Starts == \A c \in Execute :
                commands[c].state = "queued" /\ commands'[c].state = "running"
                  => \A d \in Queued \ late : commands[c].sequence <= commands[d].sequence
<1>1. Shape /\ Knowledge /\ Order /\ [Next]_vars => Order'
  BY OrderKept
<1>2. Shape /\ Knowledge /\ Order /\ [Next]_vars => [Starts]_vars
  <2> SUFFICES ASSUME Shape, Knowledge, Order, [Next]_vars, NEW c \in Execute,
                      commands[c].state = "queued", commands'[c].state = "running"
               PROVE  \A d \in Queued \ late : commands[c].sequence <= commands[d].sequence
    OBVIOUS
  <2>1. WorkerDispatch /\ c = worker.command
    BY OnlyDispatchStarts
  <2>2. worker.pc = "picked" /\ worker.version = commands[c].version
    BY <2>1 DEF WorkerDispatch, WorkerAt, Transition, Admits
  <2> QED
    BY <2>1, <2>2 DEF Order, PickedIsFirst
<1> QED
  BY OrderInit, <1>1, <1>2, ShapeHolds, KnowledgeHolds, PTL DEF Spec, StartsInOrder
=============================================================================
