--------------------------- MODULE ChatTasks_proofs ---------------------------
(***************************************************************************)
(* Theorems about ChatTasks, for any sets of keys, events and operators.   *)
(*                                                                         *)
(* A row keeps a count of executions only while somebody holds its key, so *)
(* the inductive invariant is about who holds which key: the workers hold  *)
(* different ones, a decider past its claim holds one that no worker and   *)
(* no other decider holds, and nobody holds one that waits or is absent.   *)
(***************************************************************************)
EXTENDS ChatTasks, TLAPS

Busy(w) == worker[w].pc # "idle"
Deciding(d) == decider[d].pc \in {"resume", "answer", "file"}

Shown(k, set) == rows[k] \in set \/ disk[k] \in set

WorkersApart ==
  \A w \in Worker : Busy(w) =>
    /\ worker[w].key \in Key
    /\ ~Shown(worker[w].key, {"absent", "waiting_approval"})
    /\ toolRuns[worker[w].key] = 0
    /\ worker[w].pc = "accepted" => runs[worker[w].key] = 0
    /\ \A v \in Worker : Busy(v) /\ worker[v].key = worker[w].key => v = w

WorkerFiles ==
  \A w \in Worker :
    /\ worker[w].asked => worker[w].key \in Sandbox
    /\ worker[w].outcome = "waiting_approval" => worker[w].key \notin Sandbox
    /\ worker[w].outcome = "cancelled" => worker[w].key \in Sandbox
    /\ worker[w].pc = "idle" => worker[w].key = NoKey

DecidersApart ==
  \A d \in Decider : Deciding(d) =>
    /\ decider[d].key \in Key
    /\ rows[decider[d].key] \in {"processing", "interrupted"}
    /\ disk[decider[d].key] \in {"processing", "interrupted"}
    /\ decider[d].pc = "resume" \/ ~decider[d].approved => toolRuns[decider[d].key] = 0
    /\ \A e \in Decider : Deciding(e) /\ decider[e].key = decider[d].key => e = d
    /\ \A w \in Worker : Busy(w) => worker[w].key # decider[d].key

DeciderFiles ==
  \A d \in Decider :
    /\ decider[d].outcome # "waiting_approval"
    /\ decider[d].outcome = "cancelled" => ~decider[d].approved
    /\ decider[d].pc = "claim" => decider[d].key \in Key
    /\ decider[d].pc = "dead" => decider[d].key = NoKey

RowsAgree ==
  \A k \in Key :
    /\ rows[k] = "absent" <=> disk[k] = "absent"
    /\ disk[k] \in Terminal => rows[k] = disk[k]

CountsMatch ==
  \A k \in Key :
    /\ rows[k] = "absent" => runs[k] = 0 /\ toolRuns[k] = 0
    /\ Shown(k, {"waiting_approval"}) => toolRuns[k] = 0
    /\ k \in Turn /\ Shown(k, {"cancelled"}) => toolRuns[k] = 0

DownIsIdle ==
  phase = "down" => /\ \A w \in Worker : ~Busy(w)
                    /\ \A d \in Decider : ~Deciding(d)

IInv == /\ TypeOK /\ WorkersApart /\ WorkerFiles /\ DecidersApart /\ DeciderFiles
        /\ RowsAgree /\ CountsMatch /\ DownIsIdle /\ RunsOnce /\ ToolsRunOnce

USE DEF IInv

(* What the worker and decider records, and the status sets, contain.      *)
LEMMA Members ==
  /\ Active = {"accepted", "processing", "waiting_approval"}
  /\ Terminal = {"succeeded", "failed", "cancelled", "interrupted"}
  /\ Filed \subseteq Statuses \ {"absent"}
  /\ \A outcome : Sources(outcome) \subseteq Active
BY DEF Active, Terminal, Filed, Statuses, Sources

THEOREM InitHolds == Init => IInv
<1> SUFFICES ASSUME Init PROVE IInv
  OBVIOUS
<1>1. TypeOK
  BY DEF Init, InboxInit, TypeOK, InboxTypeOK, NoWorker, NoDecision, Filed, Statuses
<1>2. WorkersApart /\ WorkerFiles /\ DecidersApart /\ DeciderFiles
  BY DEF Init, NoWorker, NoDecision, WorkersApart, WorkerFiles, DecidersApart,
         DeciderFiles, Busy, Deciding
<1>3. RowsAgree /\ CountsMatch /\ DownIsIdle /\ RunsOnce /\ ToolsRunOnce
  BY DEF Init, InboxInit, RowsAgree, CountsMatch, Shown, Terminal, DownIsIdle,
         RunsOnce, ToolsRunOnce
<1> QED
  BY <1>1, <1>2, <1>3

(***************************************************************************)
(* Steps of a worker that leave every row alone: it ends, or goes on with  *)
(* the key it has.                                                         *)
(***************************************************************************)
WorkerRecord == [pc : {"idle", "accepted", "run", "file"}, key : Key \union {NoKey},
                 outcome : Filed, caught : BOOLEAN, asked : BOOLEAN]

LEMMA WorkerMoves ==
  ASSUME IInv, NEW w \in Worker, Busy(w), phase # "down",
         NEW r \in WorkerRecord,
         r = NoWorker \/ (r.key = worker[w].key /\ r.pc \in {"run", "file"}),
         r.asked => r.key \in Sandbox,
         r.outcome = "waiting_approval" => r.key \notin Sandbox,
         r.outcome = "cancelled" => r.key \in Sandbox,
         worker' = [worker EXCEPT ![w] = r],
         checkpoint' \subseteq Turn,
         UNCHANGED <<inboxVars, phase, decider, runs, toolRuns>>
  PROVE  IInv'
<1>1. TypeOK'
  BY DEF TypeOK, InboxTypeOK, inboxVars, WorkerRecord
<1>2. WorkersApart'
  BY DEF TypeOK, WorkersApart, Busy, Shown, inboxVars, NoWorker
<1>3. WorkerFiles'
  BY DEF TypeOK, WorkerFiles, NoWorker
<1>4. DecidersApart'
  BY DEF TypeOK, DecidersApart, Deciding, Busy, inboxVars, NoWorker
<1>5. DeciderFiles' /\ RowsAgree' /\ CountsMatch' /\ RunsOnce' /\ ToolsRunOnce'
  BY DEF DeciderFiles, RowsAgree, CountsMatch, Shown, RunsOnce, ToolsRunOnce, inboxVars
<1>6. DownIsIdle'
  BY DEF DownIsIdle
<1> QED
  BY <1>1, <1>2, <1>3, <1>4, <1>5, <1>6

LEMMA NoWorkerType == NoWorker \in WorkerRecord /\ ~NoWorker.asked
                      /\ NoWorker.outcome = "failed" /\ NoWorker.pc = "idle"
BY DEF NoWorker, WorkerRecord, Filed

LEMMA WorkerType ==
  ASSUME TypeOK, NEW w \in Worker
  PROVE  worker[w] \in WorkerRecord /\ worker \in [Worker -> WorkerRecord]
BY DEF TypeOK, WorkerRecord

LEMMA WorkerEndsStep ==
  ASSUME IInv, NEW w \in Worker, Busy(w), phase # "down", WorkerEnds(w),
         UNCHANGED <<inboxVars, phase, decider, effects>>
  PROVE  IInv'
<1>1. worker' = [worker EXCEPT ![w] = NoWorker] /\ UNCHANGED <<runs, toolRuns>>
      /\ checkpoint' \subseteq Turn
  BY DEF WorkerEnds, effects, TypeOK
<1> QED
  BY <1>1, NoWorkerType, WorkerMoves

LEMMA BeginRaisesStep ==
  ASSUME IInv, NEW w \in Worker, BeginRaises(w)
  PROVE  IInv'
BY WorkerEndsStep DEF BeginRaises, WorkerAt, Alive, Busy

LEMMA AbandonStep ==
  ASSUME IInv, NEW w \in Worker, Abandon(w)
  PROVE  IInv'
BY WorkerEndsStep DEF Abandon, WorkerAt, Alive, Busy

LEMMA FinishStep ==
  ASSUME IInv, NEW w \in Worker, NEW outcome \in Filed, NEW caught \in BOOLEAN,
         Finish(w, outcome, caught)
  PROVE  IInv'
<1> DEFINE r == [worker[w] EXCEPT !.pc = "file", !.outcome = outcome, !.caught = caught]
<1>1. worker[w] \in WorkerRecord /\ outcome \in {"succeeded", "failed"} /\ worker[w].pc = "run"
  BY WorkerType DEF Finish, WorkerAt
<1>2. r \in WorkerRecord /\ r.pc = "file" /\ r.key = worker[w].key /\ r.outcome = outcome
      /\ r.asked = worker[w].asked
  BY <1>1 DEF WorkerRecord, Filed
<1>3. worker' = [worker EXCEPT ![w] = r]
  BY WorkerType DEF Finish, WorkerRecord
<1>4. Busy(w) /\ phase # "down" /\ checkpoint' \subseteq Turn
      /\ UNCHANGED <<inboxVars, phase, decider, runs, toolRuns>>
  BY <1>1 DEF Finish, WorkerAt, Alive, Busy, effects, TypeOK
<1>5. r.asked => r.key \in Sandbox
  BY <1>2 DEF WorkerFiles
<1> HIDE DEF r
<1> QED
  BY <1>1, <1>2, <1>3, <1>4, <1>5, WorkerMoves

LEMMA InterruptStep ==
  ASSUME IInv, NEW w \in Worker, Interrupt(w)
  PROVE  IInv'
<1> DEFINE r == [worker[w] EXCEPT !.pc = "file", !.outcome = "waiting_approval",
                                  !.caught = TRUE]
<1>1. worker[w] \in WorkerRecord /\ worker[w].pc = "run" /\ worker[w].key \in Turn
  BY WorkerType DEF Interrupt, WorkerAt
<1>2. r \in WorkerRecord /\ r.pc = "file" /\ r.key = worker[w].key
      /\ r.outcome = "waiting_approval" /\ r.asked = worker[w].asked
  BY <1>1 DEF WorkerRecord, Filed
<1>3. worker' = [worker EXCEPT ![w] = r]
  BY WorkerType DEF Interrupt, WorkerRecord
<1>4. Busy(w) /\ phase # "down" /\ checkpoint' \subseteq Turn
      /\ UNCHANGED <<inboxVars, phase, decider, runs, toolRuns>>
  BY <1>1 DEF Interrupt, WorkerAt, Alive, Busy, TypeOK
<1>5. (r.asked => r.key \in Sandbox) /\ r.key \notin Sandbox
  BY <1>1, <1>2 DEF WorkerFiles, Turn
<1> HIDE DEF r
<1> QED
  BY <1>1, <1>2, <1>3, <1>4, <1>5, WorkerMoves

LEMMA FileRaisesStep ==
  ASSUME IInv, NEW w \in Worker, FileRaises(w)
  PROVE  IInv'
<1>1. CASE ~worker[w].caught
  BY <1>1, WorkerEndsStep DEF FileRaises, WorkerAt, Alive, Busy
<1>2. CASE worker[w].caught
  <2> DEFINE r == [worker[w] EXCEPT !.outcome = "failed", !.caught = FALSE]
  <2>1. worker[w] \in WorkerRecord /\ worker[w].pc = "file"
    BY WorkerType DEF FileRaises, WorkerAt
  <2>2. r \in WorkerRecord /\ r.pc = "file" /\ r.key = worker[w].key
        /\ r.outcome = "failed" /\ r.asked = worker[w].asked
    BY <2>1 DEF WorkerRecord, Filed
  <2>3. worker' = [worker EXCEPT ![w] = r]
    BY <1>2, WorkerType DEF FileRaises, WorkerRecord
  <2>4. Busy(w) /\ phase # "down" /\ checkpoint' \subseteq Turn
        /\ UNCHANGED <<inboxVars, phase, decider, runs, toolRuns>>
    BY <2>1 DEF FileRaises, WorkerAt, Alive, Busy, effects, TypeOK
  <2>5. r.asked => r.key \in Sandbox
    BY <2>2 DEF WorkerFiles
  <2> HIDE DEF r
  <2> QED
    BY <2>1, <2>2, <2>3, <2>4, <2>5, WorkerMoves
<1> QED
  BY <1>1, <1>2

LEMMA AskCancelStep ==
  ASSUME IInv, NEW w \in Worker, AskCancel(w)
  PROVE  IInv'
<1> DEFINE r == [worker[w] EXCEPT !.asked = TRUE]
<1>1. worker[w] \in WorkerRecord /\ worker[w].pc \in {"run", "file"} /\ worker[w].key \in Sandbox
  BY WorkerType DEF AskCancel
<1>2. r \in WorkerRecord /\ r.pc \in {"run", "file"} /\ r.key = worker[w].key
      /\ r.outcome = worker[w].outcome
  BY <1>1 DEF WorkerRecord
<1>3. worker' = [worker EXCEPT ![w] = r]
  BY WorkerType DEF AskCancel, WorkerRecord
<1>4. Busy(w) /\ phase # "down" /\ checkpoint' \subseteq Turn
      /\ UNCHANGED <<inboxVars, phase, decider, runs, toolRuns>>
  BY <1>1 DEF AskCancel, Alive, Busy, effects, TypeOK
<1>5. r.outcome # "waiting_approval"
  BY <1>1, <1>2 DEF WorkerFiles
<1> HIDE DEF r
<1> QED
  BY <1>1, <1>2, <1>3, <1>4, <1>5, WorkerMoves

(* The record that FileCancellation writes.                                *)
LEMMA CancellationRecord ==
  ASSUME IInv, NEW w \in Worker, worker[w].asked, FileCancellation(w)
  PROVE  \E r \in WorkerRecord :
           /\ r.pc = "file" /\ r.key = worker[w].key /\ r.key \in Sandbox
           /\ r.outcome = "cancelled" /\ ~r.asked
           /\ worker' = [worker EXCEPT ![w] = r]
<1> DEFINE r == [worker[w] EXCEPT !.pc = "file", !.outcome = "cancelled",
                                  !.caught = FALSE, !.asked = FALSE]
<1>1. worker[w] \in WorkerRecord /\ worker[w].key \in Sandbox
  BY WorkerType DEF WorkerFiles
<1>2. r \in WorkerRecord /\ r.pc = "file" /\ r.key = worker[w].key
      /\ r.outcome = "cancelled" /\ ~r.asked
  BY <1>1 DEF WorkerRecord, Filed
<1>3. worker' = [worker EXCEPT ![w] = r]
  BY WorkerType DEF FileCancellation, WorkerRecord
<1> HIDE DEF r
<1> QED
  BY <1>1, <1>2, <1>3

LEMMA CancelWorkStep ==
  ASSUME IInv, NEW w \in Worker, CancelWork(w)
  PROVE  IInv'
<1>1. PICK r \in WorkerRecord :
           /\ r.pc = "file" /\ r.key = worker[w].key /\ r.key \in Sandbox
           /\ r.outcome = "cancelled" /\ ~r.asked
           /\ worker' = [worker EXCEPT ![w] = r]
  BY CancellationRecord DEF CancelWork
<1>2. Busy(w) /\ phase # "down" /\ checkpoint' \subseteq Turn
      /\ UNCHANGED <<inboxVars, phase, decider, runs, toolRuns>>
  BY DEF CancelWork, WorkerAt, Alive, Busy, effects, TypeOK
<1> QED
  BY <1>1, <1>2, WorkerMoves

(***************************************************************************)
(* Steps that write rows.  RowStep is what a transition leaves behind,     *)
(* committed or cut off.                                                   *)
(***************************************************************************)
RowStep(k, from, to) ==
  /\ rows' \in {rows, Moved(k, from, to)}
  /\ disk' \in {disk, Moved(k, from, to)}
  /\ conn' \in {"ready", "stuck"}
  /\ conn' = "ready" => rows' = disk'
  /\ disk' = Moved(k, from, to) => rows' = disk'

LEMMA TransitionIsRowStep ==
  ASSUME NEW k, NEW from, NEW to, Transition(k, from, to)
  PROVE  RowStep(k, from, to) /\ rows' = Moved(k, from, to) /\ Ready
BY DEF Transition, Commit, RowStep

LEMMA CutOffIsRowStep ==
  ASSUME NEW k, NEW from, NEW to, CutOff(k, from, to), rows = disk
  PROVE  RowStep(k, from, to) /\ Ready
BY DEF CutOff, Commit, RowStep

LEMMA RowStepEffect ==
  ASSUME TypeOK, rows = disk, NEW k \in Key, NEW from \in SUBSET Active, NEW to \in Statuses,
         RowStep(k, from, to)
  PROVE  /\ InboxTypeOK'
         /\ rows'[k] = rows[k] \/ (rows[k] \in from /\ rows'[k] = to)
         /\ disk'[k] = disk[k] \/ (disk[k] \in from /\ disk'[k] = to /\ rows'[k] = to)
         /\ \A j \in Key \ {k} : rows'[j] = rows[j] /\ disk'[j] = disk[j]
BY DEF RowStep, Moved, TypeOK, InboxTypeOK

LEMMA ReadyAgrees ==
  ASSUME TypeOK, Ready
  PROVE  rows = disk
BY DEF TypeOK, InboxTypeOK, Ready

(* The worker files an outcome, or is cut off while it does.               *)
LEMMA WorkerWrites ==
  ASSUME IInv, NEW w \in Worker, Busy(w), phase # "down", rows = disk,
         NEW from \in SUBSET Active, NEW to \in Statuses \ {"absent"},
         RowStep(worker[w].key, from, to),
         NEW r \in WorkerRecord,
         r = NoWorker \/ (r.key = worker[w].key /\ r.pc \in {"run", "file"}
                          /\ to # "waiting_approval"),
         r.asked => r.key \in Sandbox,
         r.outcome = "waiting_approval" => r.key \notin Sandbox,
         r.outcome = "cancelled" => r.key \in Sandbox,
         to = "cancelled" => worker[w].key \in Sandbox,
         worker' = [worker EXCEPT ![w] = r],
         UNCHANGED <<phase, decider, effects>>
  PROVE  IInv'
<1> DEFINE k == worker[w].key
<1>1. k \in Key /\ rows[k] \notin {"absent", "waiting_approval"} /\ toolRuns[k] = 0
      /\ \A v \in Worker : Busy(v) /\ worker[v].key = k => v = w
  BY DEF WorkersApart, Shown
<1>2. /\ InboxTypeOK'
      /\ rows'[k] = rows[k] \/ (rows[k] \in from /\ rows'[k] = to)
      /\ disk'[k] = disk[k] \/ (disk[k] \in from /\ disk'[k] = to /\ rows'[k] = to)
      /\ \A j \in Key \ {k} : rows'[j] = rows[j] /\ disk'[j] = disk[j]
  BY <1>1, RowStepEffect
<1>3. \A d \in Decider : Deciding(d) => decider[d].key # k
  BY DEF DecidersApart
<1> HIDE DEF k
<1>4. TypeOK'
  BY <1>2 DEF TypeOK, WorkerRecord, effects
<1>5. WorkersApart'
  BY <1>1, <1>2 DEF k, TypeOK, WorkersApart, Busy, Shown, NoWorker, effects
<1>6. WorkerFiles'
  BY DEF TypeOK, WorkerFiles, NoWorker
<1>7. DecidersApart'
  BY <1>1, <1>2, <1>3 DEF k, TypeOK, DecidersApart, Deciding, Busy, NoWorker, effects
<1>8. RowsAgree'
  BY <1>1, <1>2, Members DEF RowsAgree
<1>9. CountsMatch'
  BY <1>1, <1>2 DEF CountsMatch, Shown, Turn, effects, k
<1>10. DeciderFiles' /\ DownIsIdle' /\ RunsOnce' /\ ToolsRunOnce'
  BY DEF DeciderFiles, DownIsIdle, RunsOnce, ToolsRunOnce, effects
<1> QED
  BY <1>4, <1>5, <1>6, <1>7, <1>8, <1>9, <1>10

LEMMA FileStep ==
  ASSUME IInv, NEW w \in Worker, File(w)
  PROVE  IInv'
<1> DEFINE to == worker[w].outcome
<1>1. RowStep(worker[w].key, Sources(to), to) /\ rows = disk
  BY TransitionIsRowStep, ReadyAgrees DEF File
<1>2. to \in Filed
  BY DEF TypeOK
<1>3. to \in Statuses \ {"absent"} /\ Sources(to) \in SUBSET Active
  BY <1>2, Members
<1>4. to = "cancelled" => worker[w].key \in Sandbox
  BY DEF WorkerFiles
<1>5. worker' = [worker EXCEPT ![w] = NoWorker] /\ Busy(w) /\ phase # "down"
      /\ UNCHANGED <<phase, decider, effects>>
  BY DEF File, WorkerAt, WorkerEnds, Busy, Alive
<1> HIDE DEF to
<1> QED
  BY <1>1, <1>3, <1>4, <1>5, NoWorkerType, WorkerWrites

LEMMA CancelFilingStep ==
  ASSUME IInv, NEW w \in Worker, CancelFiling(w)
  PROVE  IInv'
<1> DEFINE to == worker[w].outcome
<1>1. worker[w].asked /\ worker[w].key \in Sandbox /\ to \in Filed
      /\ Busy(w) /\ phase # "down" /\ UNCHANGED <<phase, decider, effects>>
  BY DEF CancelFiling, WorkerAt, Alive, Busy, WorkerFiles, TypeOK
<1>2. to \in Statuses \ {"absent", "waiting_approval"}
  BY <1>1, Members DEF WorkerFiles
<1>3. \E r \in WorkerRecord :
        /\ r = NoWorker \/ (r.key = worker[w].key /\ r.pc = "file" /\ r.key \in Sandbox)
        /\ r.outcome # "waiting_approval" /\ ~r.asked
        /\ r.outcome = "cancelled" => r.key \in Sandbox
        /\ worker' = [worker EXCEPT ![w] = r]
  <2>1. CASE FileCancellation(w)
    BY <1>1, <2>1, CancellationRecord
  <2>2. CASE WorkerEnds(w)
    BY <2>2, NoWorkerType DEF WorkerEnds
  <2> QED
    BY <2>1, <2>2 DEF CancelFiling
<1>4. PICK r \in WorkerRecord :
        /\ r = NoWorker \/ (r.key = worker[w].key /\ r.pc = "file" /\ r.key \in Sandbox)
        /\ r.outcome # "waiting_approval" /\ ~r.asked
        /\ r.outcome = "cancelled" => r.key \in Sandbox
        /\ worker' = [worker EXCEPT ![w] = r]
  BY <1>3
<1>5. CASE UNCHANGED inboxVars
  <2>1. UNCHANGED <<inboxVars, phase, decider, runs, toolRuns>> /\ checkpoint' \subseteq Turn
    BY <1>1, <1>5 DEF effects, TypeOK
  <2> QED
    BY <1>1, <1>4, <2>1, WorkerMoves
<1>6. CASE CutOff(worker[w].key, Active, to)
  <2>1. rows = disk
    BY <1>6, ReadyAgrees DEF CutOff
  <2>2. RowStep(worker[w].key, Active, to)
    BY <1>6, <2>1, CutOffIsRowStep
  <2> HIDE DEF to
  <2> QED
    BY <1>1, <1>2, <1>4, <2>1, <2>2, WorkerWrites
<1> QED
  BY <1>5, <1>6 DEF CancelFiling

LEMMA SubmitStep ==
  ASSUME IInv, NEW w \in Worker, NEW k \in Key, Submit(w, k)
  PROVE  IInv'
<1> DEFINE r == [NoWorker EXCEPT !.pc = "accepted", !.key = k]
<1>1. r \in WorkerRecord /\ r.pc = "accepted" /\ r.key = k /\ ~r.asked /\ r.outcome = "failed"
  BY DEF NoWorker, WorkerRecord, Filed
<1>2. worker' = [worker EXCEPT ![w] = r] /\ UNCHANGED <<phase, decider, effects>>
  BY DEF Submit
<1>3. rows[k] = "absent" /\ rows = disk /\ rows' = [rows EXCEPT ![k] = "accepted"]
      /\ disk' = rows' /\ conn' = "ready"
  BY ReadyAgrees DEF Submit, Accept, IsNew, Commit
<1>4. phase # "down"
  BY DEF Submit, WorkerAt, Alive
<1>5. runs[k] = 0 /\ toolRuns[k] = 0
  BY <1>3 DEF CountsMatch
<1>6. (\A v \in Worker : Busy(v) => worker[v].key # k)
      /\ (\A d \in Decider : Deciding(d) => decider[d].key # k)
  BY <1>3 DEF WorkersApart, DecidersApart, Shown
<1> HIDE DEF r
<1>7. TypeOK'
  BY <1>1, <1>2, <1>3 DEF TypeOK, InboxTypeOK, WorkerRecord, effects, Statuses, Active
<1>8. WorkersApart'
  BY <1>1, <1>2, <1>3, <1>5, <1>6 DEF TypeOK, InboxTypeOK, WorkersApart, Busy, Shown, effects
<1>9. WorkerFiles'
  BY <1>1, <1>2 DEF TypeOK, WorkerFiles
<1>10. DecidersApart'
  BY <1>1, <1>2, <1>3, <1>6 DEF TypeOK, InboxTypeOK, DecidersApart, Deciding, Busy, effects
<1>11. RowsAgree' /\ CountsMatch'
  BY <1>2, <1>3 DEF TypeOK, InboxTypeOK, RowsAgree, CountsMatch, Shown, effects
<1>12. DeciderFiles' /\ DownIsIdle' /\ RunsOnce' /\ ToolsRunOnce'
  BY <1>2, <1>4 DEF DeciderFiles, DownIsIdle, RunsOnce, ToolsRunOnce, effects
<1> QED
  BY <1>7, <1>8, <1>9, <1>10, <1>11, <1>12

LEMMA BeginStep ==
  ASSUME IInv, NEW w \in Worker, Begin(w)
  PROVE  IInv'
<1> DEFINE k == worker[w].key
           r == [worker[w] EXCEPT !.pc = "run"]
<1>1. worker[w] \in WorkerRecord /\ worker[w].pc = "accepted" /\ phase # "down"
  BY WorkerType DEF Begin, WorkerAt, Alive
<1>2. k \in Key /\ rows[k] \notin {"absent", "waiting_approval"} /\ toolRuns[k] = 0
      /\ runs[k] = 0 /\ \A v \in Worker : Busy(v) /\ worker[v].key = k => v = w
  BY <1>1 DEF WorkersApart, Busy, Shown
<1>3. r \in WorkerRecord /\ r.pc = "run" /\ r.key = k /\ r.asked = worker[w].asked
      /\ r.outcome = worker[w].outcome /\ worker' = [worker EXCEPT ![w] = r]
  BY <1>1, WorkerType DEF WorkerRecord, Begin
<1>4. rows = disk /\ RowStep(k, {"accepted"}, "processing")
  BY TransitionIsRowStep, ReadyAgrees DEF Begin
<1>5. /\ InboxTypeOK'
      /\ rows'[k] = rows[k] \/ (rows[k] = "accepted" /\ rows'[k] = "processing")
      /\ disk'[k] = disk[k] \/ (disk[k] = "accepted" /\ disk'[k] = "processing"
                                /\ rows'[k] = "processing")
      /\ \A j \in Key \ {k} : rows'[j] = rows[j] /\ disk'[j] = disk[j]
  <2>1. {"accepted"} \in SUBSET Active /\ "processing" \in Statuses
    BY DEF Active, Statuses
  <2> QED
    BY <1>2, <1>4, <2>1, RowStepEffect
<1>6. runs' = [runs EXCEPT ![k] = 1] /\ UNCHANGED <<phase, decider, checkpoint, toolRuns>>
  BY <1>2 DEF Begin, TypeOK
<1>7. \A d \in Decider : Deciding(d) => decider[d].key # k
  BY <1>1 DEF DecidersApart, Busy
<1> HIDE DEF r
<1>8. TypeOK'
  BY <1>3, <1>5, <1>6 DEF TypeOK, WorkerRecord
<1>9. WorkersApart'
  BY <1>1, <1>2, <1>3, <1>4, <1>5, <1>6 DEF TypeOK, WorkersApart, Busy, Shown
<1>10. WorkerFiles'
  BY <1>3 DEF TypeOK, WorkerFiles
<1>11. DecidersApart'
  BY <1>1, <1>3, <1>5, <1>6, <1>7 DEF TypeOK, DecidersApart, Deciding, Busy
<1>12. RowsAgree'
  BY <1>2, <1>4, <1>5, Members DEF RowsAgree
<1>13. CountsMatch'
  BY <1>2, <1>4, <1>5, <1>6 DEF TypeOK, CountsMatch, Shown
<1>14. DeciderFiles' /\ DownIsIdle' /\ RunsOnce' /\ ToolsRunOnce'
  BY <1>1, <1>2, <1>6 DEF TypeOK, DeciderFiles, DownIsIdle, RunsOnce, ToolsRunOnce
<1> QED
  BY <1>8, <1>9, <1>10, <1>11, <1>12, <1>13, <1>14

(***************************************************************************)
(* Steps of a decider that leave every row alone.                          *)
(***************************************************************************)
DeciderRecord == [pc : {"idle", "claim", "resume", "answer", "file", "dead"},
                  key : Key \union {NoKey}, approved : BOOLEAN,
                  outcome : Filed, caught : BOOLEAN]

Quiet(r) == /\ r.pc \in {"idle", "claim", "dead"}
            /\ r.pc = "claim" => r.key \in Key
            /\ r.pc = "dead" => r.key = NoKey

LEMMA DeciderMoves ==
  ASSUME IInv, NEW d \in Decider, phase # "down",
         NEW r \in DeciderRecord,
         \/ Quiet(r)
         \/ /\ Deciding(d) /\ r.key = decider[d].key /\ r.approved = decider[d].approved
            /\ r.pc \in {"answer", "file"},
         r.outcome # "waiting_approval",
         r.outcome = "cancelled" => ~r.approved,
         decider' = [decider EXCEPT ![d] = r],
         checkpoint' \subseteq Turn,
         UNCHANGED <<inboxVars, phase, worker, runs, toolRuns>>
  PROVE  IInv'
<1>1. TypeOK'
  BY DEF TypeOK, InboxTypeOK, inboxVars, DeciderRecord
<1>2. WorkersApart' /\ WorkerFiles'
  BY DEF WorkersApart, WorkerFiles, Busy, Shown, inboxVars
<1>3. DecidersApart'
  BY DEF TypeOK, DecidersApart, Deciding, Busy, Quiet, inboxVars
<1>4. DeciderFiles'
  BY DEF TypeOK, DeciderFiles, Quiet
<1>5. RowsAgree' /\ CountsMatch' /\ DownIsIdle' /\ RunsOnce' /\ ToolsRunOnce'
  BY DEF RowsAgree, CountsMatch, Shown, DownIsIdle, RunsOnce, ToolsRunOnce, inboxVars
<1> QED
  BY <1>1, <1>2, <1>3, <1>4, <1>5

LEMMA DeciderType ==
  ASSUME TypeOK, NEW d \in Decider
  PROVE  decider[d] \in DeciderRecord /\ decider \in [Decider -> DeciderRecord]
BY DEF TypeOK, DeciderRecord

LEMMA NoDecisionType ==
  /\ \A pc \in {"idle", "dead"} :
       LET r == [NoDecision EXCEPT !.pc = pc]
       IN  r \in DeciderRecord /\ Quiet(r) /\ r.outcome = "failed"
  /\ NoDecision \in DeciderRecord /\ Quiet(NoDecision) /\ NoDecision.outcome = "failed"
BY DEF NoDecision, DeciderRecord, Quiet, Filed

LEMMA RaisesStep ==
  ASSUME IInv, NEW d \in Decider, phase # "down", DeciderRaises(d),
         UNCHANGED <<inboxVars, phase, worker, effects>>
  PROVE  IInv'
<1>1. \E pc \in {"idle", "dead"} :
        decider' = [decider EXCEPT ![d] = [NoDecision EXCEPT !.pc = pc]]
  BY DEF DeciderRaises
<1>2. checkpoint' \subseteq Turn /\ UNCHANGED <<inboxVars, phase, worker, runs, toolRuns>>
  BY DEF effects, TypeOK
<1>3. PICK pc \in {"idle", "dead"} :
        decider' = [decider EXCEPT ![d] = [NoDecision EXCEPT !.pc = pc]]
  BY <1>1
<1> DEFINE r == [NoDecision EXCEPT !.pc = pc]
<1>4. r \in DeciderRecord /\ Quiet(r) /\ r.outcome = "failed"
  BY NoDecisionType
<1>5. decider' = [decider EXCEPT ![d] = r]
  BY <1>3
<1> HIDE DEF r
<1> QED
  BY <1>2, <1>4, <1>5, DeciderMoves

LEMMA OutcomeStep ==
  ASSUME IInv, NEW d \in Decider, phase # "down", Deciding(d),
         NEW outcome \in {"succeeded", "failed", "cancelled"}, NEW caught \in BOOLEAN,
         outcome = "cancelled" => ~decider[d].approved,
         Outcome(d, outcome, caught), checkpoint' \subseteq Turn,
         UNCHANGED <<inboxVars, phase, worker, runs, toolRuns>>
  PROVE  IInv'
<1> DEFINE r == [decider[d] EXCEPT !.pc = "file", !.outcome = outcome, !.caught = caught]
<1>1. decider[d] \in DeciderRecord
  BY DeciderType
<1>2. r \in DeciderRecord /\ r.pc = "file" /\ r.key = decider[d].key
      /\ r.outcome = outcome /\ r.approved = decider[d].approved
  BY <1>1 DEF DeciderRecord, Filed
<1>3. decider' = [decider EXCEPT ![d] = r]
  BY DeciderType DEF Outcome, DeciderRecord
<1> HIDE DEF r
<1> QED
  BY <1>2, <1>3, DeciderMoves

LEMMA ChooseStep ==
  ASSUME IInv, NEW d \in Decider, NEW k \in Key, NEW approved \in BOOLEAN,
         Choose(d, k, approved)
  PROVE  IInv'
<1> DEFINE r == [NoDecision EXCEPT !.pc = "claim", !.key = k, !.approved = approved]
<1>1. r \in DeciderRecord /\ Quiet(r) /\ r.outcome = "failed"
  BY DEF NoDecision, DeciderRecord, Quiet, Filed
<1>2. decider' = [decider EXCEPT ![d] = r]
  BY DEF Choose, Chosen
<1>3. phase # "down" /\ checkpoint' \subseteq Turn
      /\ UNCHANGED <<inboxVars, phase, worker, runs, toolRuns>>
  BY DEF Choose, DeciderAt, Alive, effects, TypeOK
<1> HIDE DEF r
<1> QED
  BY <1>1, <1>2, <1>3, DeciderMoves

LEMMA ClaimRaisesStep ==
  ASSUME IInv, NEW d \in Decider, ClaimRaises(d)
  PROVE  IInv'
BY RaisesStep DEF ClaimRaises, DeciderAt, Alive

LEMMA ClaimStep ==
  ASSUME IInv, NEW d \in Decider, Claim(d)
  PROVE  IInv'
<1> DEFINE k == decider[d].key
<1>1. rows = disk /\ decider[d].pc = "claim" /\ phase # "down"
      /\ UNCHANGED <<phase, worker, effects>>
  BY ReadyAgrees DEF Claim, DeciderAt, Alive
<1>2. CASE ~Claimable(k)
  <2>1. decider' = [decider EXCEPT ![d] = NoDecision] /\ checkpoint' \subseteq Turn
        /\ UNCHANGED <<inboxVars, phase, worker, runs, toolRuns>>
    BY <1>1, <1>2 DEF Claim, effects, TypeOK
  <2> QED
    BY <1>1, <2>1, NoDecisionType, DeciderMoves
<1>3. CASE Claimable(k)
  <2> DEFINE r == [decider[d] EXCEPT !.pc = "resume"]
  <2>1. decider[d] \in DeciderRecord /\ decider' = [decider EXCEPT ![d] = r]
    BY <1>3, DeciderType DEF Claim, DeciderRecord
  <2>2. r \in DeciderRecord /\ r.pc = "resume" /\ r.key = k
        /\ r.approved = decider[d].approved /\ r.outcome = decider[d].outcome
    BY <2>1 DEF DeciderRecord
  <2>3. rows[k] = "waiting_approval" /\ k \in Key
    BY <1>1, <1>3 DEF Claimable, DeciderFiles
  <2>4. Transition(k, {"waiting_approval"}, "processing")
    BY <1>3 DEF Claim
  <2>5. /\ InboxTypeOK'
        /\ rows'[k] = "processing" /\ disk'[k] = "processing"
        /\ \A j \in Key \ {k} : rows'[j] = rows[j] /\ disk'[j] = disk[j]
    <3>1. {"waiting_approval"} \in SUBSET Active /\ "processing" \in Statuses
      BY DEF Active, Statuses
    <3>2. InboxTypeOK' /\ \A j \in Key \ {k} : rows'[j] = rows[j] /\ disk'[j] = disk[j]
      BY <1>1, <2>3, <2>4, <3>1, TransitionIsRowStep, RowStepEffect
    <3>3. rows'[k] = "processing" /\ disk' = rows'
      BY <2>3, <2>4 DEF Transition, Commit, Moved, TypeOK, InboxTypeOK
    <3> QED
      BY <3>2, <3>3
  <2>6. /\ toolRuns[k] = 0
        /\ \A w \in Worker : Busy(w) => worker[w].key # k
        /\ \A e \in Decider : Deciding(e) => decider[e].key # k
    BY <2>3 DEF CountsMatch, WorkersApart, DecidersApart, Shown
  <2> HIDE DEF r, k
  <2>7. TypeOK'
    BY <1>1, <2>1, <2>2, <2>5 DEF TypeOK, DeciderRecord, effects
  <2>8. WorkersApart' /\ WorkerFiles'
    BY <1>1, <2>5, <2>6 DEF WorkersApart, WorkerFiles, Busy, Shown, effects
  <2>9. DecidersApart'
    BY <1>1, <2>1, <2>2, <2>3, <2>5, <2>6
       DEF TypeOK, DecidersApart, Deciding, Busy, effects
  <2>10. DeciderFiles'
    BY <2>1, <2>2 DEF TypeOK, DeciderFiles
  <2>11. RowsAgree' /\ CountsMatch'
    BY <1>1, <2>3, <2>5, <2>6, Members DEF RowsAgree, CountsMatch, Shown, effects
  <2>12. DownIsIdle' /\ RunsOnce' /\ ToolsRunOnce'
    BY <1>1 DEF DownIsIdle, RunsOnce, ToolsRunOnce, effects
  <2> QED
    BY <2>7, <2>8, <2>9, <2>10, <2>11, <2>12
<1> QED
  BY <1>2, <1>3

LEMMA RunToolsStep ==
  ASSUME IInv, NEW d \in Decider, RunTools(d)
  PROVE  IInv'
<1> DEFINE k == decider[d].key
           r == [decider[d] EXCEPT !.pc = "answer"]
<1>1. decider[d] \in DeciderRecord /\ decider' = [decider EXCEPT ![d] = r]
      /\ decider[d].pc = "resume" /\ decider[d].approved /\ phase # "down"
      /\ UNCHANGED <<inboxVars, phase, worker, checkpoint, runs>>
  BY DeciderType DEF RunTools, DeciderRecord, DeciderAt, Alive
<1>2. r \in DeciderRecord /\ r.pc = "answer" /\ r.key = k /\ r.approved
      /\ r.outcome = decider[d].outcome
  BY <1>1 DEF DeciderRecord
<1>3. k \in Key /\ toolRuns[k] = 0 /\ rows[k] \in {"processing", "interrupted"}
      /\ disk[k] \in {"processing", "interrupted"}
      /\ (\A w \in Worker : Busy(w) => worker[w].key # k)
      /\ \A e \in Decider : Deciding(e) /\ decider[e].key = k => e = d
  BY <1>1 DEF DecidersApart, Deciding
<1>4. toolRuns' = [toolRuns EXCEPT ![k] = 1]
  BY <1>3 DEF RunTools
<1> HIDE DEF r, k
<1>5. TypeOK'
  BY <1>1, <1>2, <1>3, <1>4 DEF TypeOK, InboxTypeOK, DeciderRecord, inboxVars
<1>6. WorkersApart' /\ WorkerFiles'
  BY <1>1, <1>3, <1>4 DEF TypeOK, WorkersApart, WorkerFiles, Busy, Shown, inboxVars
<1>7. DecidersApart'
  <2>1. \A e \in Decider : e # d => decider'[e] = decider[e]
    BY <1>1 DEF TypeOK
  <2>2. decider'[d] = r
    BY <1>1 DEF TypeOK
  <2>3. ASSUME NEW e \in Decider, Deciding(e)', e # d
        PROVE  /\ decider'[e].key # k /\ Deciding(e) /\ decider'[e] = decider[e]
    BY <1>3, <2>1, <2>3 DEF Deciding
  <2> QED
    BY <1>1, <1>2, <1>3, <1>4, <2>2, <2>3 DEF TypeOK, DecidersApart, Deciding, Busy, inboxVars, k
<1>8. DeciderFiles'
  BY <1>1, <1>2 DEF TypeOK, DeciderFiles
<1>9. RowsAgree' /\ CountsMatch'
  BY <1>1, <1>3, <1>4 DEF TypeOK, RowsAgree, CountsMatch, Shown, inboxVars
<1>10. DownIsIdle' /\ RunsOnce' /\ ToolsRunOnce'
  BY <1>1, <1>3, <1>4 DEF TypeOK, DownIsIdle, RunsOnce, ToolsRunOnce
<1> QED
  BY <1>5, <1>6, <1>7, <1>8, <1>9, <1>10

LEMMA AnswerStep ==
  ASSUME IInv, NEW d \in Decider, Answer(d)
  PROVE  IInv'
<1>1. Deciding(d) /\ phase # "down" /\ checkpoint' \subseteq Turn
      /\ UNCHANGED <<inboxVars, phase, worker, runs, toolRuns>>
  BY DEF Answer, DeciderAt, Alive, Deciding, TypeOK
<1>2. CASE decider[d].approved
  <2>1. PICK outcome \in {"succeeded", "failed"} : Outcome(d, outcome, TRUE)
    BY <1>2 DEF Answer
  <2> QED
    BY <1>1, <2>1, OutcomeStep
<1>3. CASE ~decider[d].approved
  BY <1>1, <1>3, OutcomeStep DEF Answer
<1> QED
  BY <1>2, <1>3

LEMMA ResumeRaisesStep ==
  ASSUME IInv, NEW d \in Decider, ResumeRaises(d)
  PROVE  IInv'
<1>1. Deciding(d) /\ phase # "down" /\ checkpoint' \subseteq Turn
      /\ UNCHANGED <<inboxVars, phase, worker, runs, toolRuns>>
      /\ Outcome(d, "failed", FALSE)
  BY DEF ResumeRaises, DeciderAt, Alive, Deciding, TypeOK, effects
<1> QED
  BY <1>1, OutcomeStep

LEMMA FileDecisionRaisesStep ==
  ASSUME IInv, NEW d \in Decider, FileDecisionRaises(d)
  PROVE  IInv'
<1>1. Deciding(d) /\ phase # "down" /\ checkpoint' \subseteq Turn
      /\ UNCHANGED <<inboxVars, phase, worker, effects, runs, toolRuns>>
      /\ (Outcome(d, "failed", FALSE) \/ DeciderRaises(d))
  BY DEF FileDecisionRaises, DeciderAt, Alive, Deciding, TypeOK, effects
<1> QED
  BY <1>1, OutcomeStep, RaisesStep

(***************************************************************************)
(* Steps of the process, and of a decider that files.  Free(k, d): only d   *)
(* may hold k.                                                             *)
(***************************************************************************)
Free(k, d) ==
  /\ \A w \in Worker : Busy(w) => worker[w].key # k
  /\ \A e \in Decider : Deciding(e) /\ e # d => decider[e].key # k

LEMMA DeciderWrites ==
  ASSUME IInv, NEW d \in Decider, NEW k \in Key, rows = disk,
         NEW from \in SUBSET Active, NEW to \in {"processing", "succeeded", "failed", "cancelled"},
         RowStep(k, from, to),
         rows[k] \in from => Free(k, d),
         to = "cancelled" => toolRuns[k] = 0,
         NEW r \in DeciderRecord, Quiet(r), r.outcome = "failed",
         decider' = [decider EXCEPT ![d] = r],
         phase' \in {"starting", "up", "closing", "closed"}, phase # "down",
         UNCHANGED <<worker, effects>>
  PROVE  IInv'
<1>1. /\ InboxTypeOK'
      /\ rows'[k] = rows[k] \/ (rows[k] \in from /\ rows'[k] = to)
      /\ disk'[k] = disk[k] \/ (disk[k] \in from /\ disk'[k] = to /\ rows'[k] = to)
      /\ \A j \in Key \ {k} : rows'[j] = rows[j] /\ disk'[j] = disk[j]
  <2>1. to \in Statuses
    BY DEF Statuses, Active, Terminal
  <2> QED
    BY <2>1, RowStepEffect
<1>2. TypeOK'
  BY <1>1 DEF TypeOK, DeciderRecord, effects
<1>3. WorkersApart' /\ WorkerFiles'
  BY <1>1 DEF WorkersApart, WorkerFiles, Busy, Shown, Free, effects
<1>4. DecidersApart'
  BY <1>1 DEF TypeOK, DecidersApart, Deciding, Busy, Free, Quiet, effects
<1>5. DeciderFiles'
  BY DEF TypeOK, DeciderFiles, Quiet
<1>6. RowsAgree'
  BY <1>1, Members DEF RowsAgree
<1>7. CountsMatch'
  BY <1>1, Members DEF CountsMatch, Shown, effects
<1>8. DownIsIdle' /\ RunsOnce' /\ ToolsRunOnce'
  BY DEF DownIsIdle, RunsOnce, ToolsRunOnce, effects
<1> QED
  BY <1>2, <1>3, <1>4, <1>5, <1>6, <1>7, <1>8

LEMMA FileDecisionStep ==
  ASSUME IInv, NEW d \in Decider, FileDecision(d)
  PROVE  IInv'
<1> DEFINE k == decider[d].key
           to == decider[d].outcome
<1>1. Deciding(d) /\ phase # "down" /\ UNCHANGED <<phase, worker, effects>>
      /\ decider' = [decider EXCEPT ![d] = NoDecision]
  BY DEF FileDecision, DeciderAt, Alive, Deciding
<1>2. k \in Key /\ Free(k, d) /\ (~decider[d].approved => toolRuns[k] = 0)
  BY <1>1 DEF DecidersApart, Free
<1>3. to \in {"succeeded", "failed", "cancelled"} /\ (to = "cancelled" => toolRuns[k] = 0)
  BY <1>2 DEF DeciderFiles, TypeOK, Filed
<1>4. RowStep(k, Active, to) /\ rows = disk
  BY TransitionIsRowStep, ReadyAgrees DEF FileDecision
<1>5. phase' \in {"starting", "up", "closing", "closed"}
  BY <1>1 DEF TypeOK
<1> HIDE DEF k, to
<1> QED
  BY <1>1, <1>2, <1>3, <1>4, <1>5, NoDecisionType, DeciderWrites

LEMMA ShutdownStep ==
  ASSUME IInv, Shutdown
  PROVE  IInv'
<1> DEFINE k == decider[Timer].key
           to == IF decider[Timer].pc = "claim" THEN "processing" ELSE decider[Timer].outcome
           from == IF decider[Timer].pc = "claim" THEN {"waiting_approval"} ELSE Active
           r == [NoDecision EXCEPT !.pc = "dead"]
<1>1. Timer \in Decider /\ r \in DeciderRecord /\ Quiet(r) /\ r.outcome = "failed"
  BY NoDecisionType DEF Decider
<1>2. decider' = [decider EXCEPT ![Timer] = r] /\ phase = "up" /\ phase' = "closing"
      /\ UNCHANGED <<worker, effects>>
  BY DEF Shutdown
<1> HIDE DEF r
<1>3. CASE UNCHANGED inboxVars
  <2>1. TypeOK'
    BY <1>1, <1>2, <1>3 DEF TypeOK, InboxTypeOK, inboxVars, effects, DeciderRecord
  <2>2. WorkersApart' /\ WorkerFiles'
    BY <1>2, <1>3 DEF WorkersApart, WorkerFiles, Busy, Shown, inboxVars, effects
  <2>3. DecidersApart' /\ DeciderFiles'
    BY <1>1, <1>2, <1>3
       DEF TypeOK, DecidersApart, DeciderFiles, Deciding, Busy, Quiet, inboxVars, effects
  <2>4. RowsAgree' /\ CountsMatch' /\ DownIsIdle' /\ RunsOnce' /\ ToolsRunOnce'
    BY <1>2, <1>3 DEF RowsAgree, CountsMatch, Shown, DownIsIdle, RunsOnce, ToolsRunOnce,
                      inboxVars, effects
  <2> QED
    BY <2>1, <2>2, <2>3, <2>4
<1>4. CASE decider[Timer].pc \in {"claim", "file"} /\ CutOff(k, from, to)
  <2>1. rows = disk /\ RowStep(k, from, to)
    BY <1>4, ReadyAgrees, CutOffIsRowStep DEF CutOff
  <2>2. /\ k \in Key /\ from \in SUBSET Active
        /\ to \in {"processing", "succeeded", "failed", "cancelled"}
        /\ to = "cancelled" => toolRuns[k] = 0
        /\ rows[k] \in from => Free(k, Timer)
    <3>1. CASE decider[Timer].pc = "claim"
      BY <1>1, <3>1 DEF DeciderFiles, Active, Free, WorkersApart, DecidersApart, Shown
    <3>2. CASE decider[Timer].pc = "file"
      BY <1>1, <3>2 DEF Deciding, DecidersApart, DeciderFiles, Free, TypeOK, Filed
    <3> QED
      BY <1>4, <3>1, <3>2
  <2> HIDE DEF k, from, to
  <2> QED
    BY <1>1, <1>2, <2>1, <2>2, DeciderWrites
<1> QED
  BY <1>3, <1>4 DEF Shutdown

LEMMA LoseCheckpointStep ==
  ASSUME IInv, NEW k \in Key, LoseCheckpoint(k)
  PROVE  IInv'
<1> USE DEF LoseCheckpoint, inboxVars, taskVars
<1>1. TypeOK'
  BY DEF TypeOK, InboxTypeOK
<1>2. WorkersApart' /\ WorkerFiles' /\ DecidersApart' /\ DeciderFiles'
  BY DEF WorkersApart, WorkerFiles, DecidersApart, DeciderFiles, Busy, Deciding, Shown
<1>3. RowsAgree' /\ CountsMatch' /\ DownIsIdle' /\ RunsOnce' /\ ToolsRunOnce'
  BY DEF RowsAgree, CountsMatch, DownIsIdle, Busy, Deciding, Shown, RunsOnce, ToolsRunOnce
<1> QED
  BY <1>1, <1>2, <1>3

(* Rows expire, and what was active may be interrupted.                    *)
LEMMA TableStep ==
  ASSUME IInv, NEW expired \in SUBSET Key,
         \A w \in Worker : Busy(w) => worker[w].key \notin expired,
         \A d \in Decider : Deciding(d) => decider[d].key \notin expired,
         rows' \in [Key -> Statuses], disk' = rows', conn' = "ready",
         \A k \in expired : rows'[k] = "absent",
         \A k \in Key \ expired :
            \/ rows'[k] = rows[k]
            \/ rows[k] \in {"accepted", "processing"} /\ rows'[k] = "interrupted",
         Forget(expired),
         phase' \in {"starting", "up", "closing", "closed"},
         UNCHANGED <<worker, decider, checkpoint>>
  PROVE  IInv'
<1>1. \A k \in Key : /\ runs'[k] = IF k \in expired THEN 0 ELSE runs[k]
                     /\ toolRuns'[k] = IF k \in expired THEN 0 ELSE toolRuns[k]
  BY DEF Forget
<1>2. TypeOK'
  BY <1>1 DEF TypeOK, InboxTypeOK, Forget
<1>3. WorkersApart' /\ WorkerFiles'
  BY <1>1 DEF WorkersApart, WorkerFiles, Busy, Shown
<1>4. DecidersApart' /\ DeciderFiles'
  BY <1>1 DEF DecidersApart, DeciderFiles, Deciding, Busy
<1>5. RowsAgree'
  BY DEF RowsAgree
<1>6. CountsMatch'
  BY <1>1 DEF CountsMatch, Shown
<1>7. DownIsIdle' /\ RunsOnce' /\ ToolsRunOnce'
  BY <1>1 DEF DownIsIdle, RunsOnce, ToolsRunOnce
<1> QED
  BY <1>2, <1>3, <1>4, <1>5, <1>6, <1>7

LEMMA HeldKeys ==
  ASSUME NEW expired, expired \intersect Held = {}
  PROVE  /\ \A w \in Worker : worker[w].key \notin expired
         /\ \A d \in Decider : decider[d].key \notin expired
BY DEF Held

LEMMA RetainStep ==
  ASSUME IInv, NEW expired \in SUBSET Key, Retain(expired)
  PROVE  IInv'
<1>1. rows' = Without(rows, expired) /\ disk' = rows' /\ conn' = "ready"
  BY DEF Retain, CleanUp, Commit
<1>2. rows' \in [Key -> Statuses]
      /\ (\A k \in expired : rows'[k] = "absent")
      /\ \A k \in Key \ expired : rows'[k] = rows[k]
  BY <1>1 DEF Without, TypeOK, InboxTypeOK, Statuses
<1>3. Forget(expired) /\ UNCHANGED <<worker, decider, checkpoint>>
      /\ phase' \in {"starting", "up", "closing", "closed"}
      /\ expired \intersect Held = {}
  BY DEF Retain, taskVars
<1> QED
  BY <1>1, <1>2, <1>3, HeldKeys, TableStep

LEMMA StartEffect ==
  ASSUME IInv, NEW expired \in SUBSET Key, Start(expired)
  PROVE  /\ rows' \in [Key -> Statuses] /\ disk' = rows' /\ conn' = "ready"
         /\ \A k \in expired : rows'[k] = "absent"
         /\ \A k \in Key \ expired :
              \/ rows'[k] = rows[k]
              \/ rows[k] \in {"accepted", "processing"} /\ rows'[k] = "interrupted"
<1>1. rows = disk
  BY DEF Start, TypeOK, InboxTypeOK
<1>2. rows' = [k \in Key |-> IF k \in expired THEN "absent" ELSE Recovered(k)]
      /\ disk' = rows' /\ conn' = "ready"
  BY DEF Start, Commit, Without
<1> QED
  BY <1>1, <1>2 DEF Recovered, TypeOK, InboxTypeOK, Statuses, Terminal

LEMMA ReopenStep ==
  ASSUME IInv, NEW expired \in SUBSET Key, Reopen(expired)
  PROVE  IInv'
<1>1. Forget(expired) /\ UNCHANGED <<worker, decider, checkpoint>> /\ Start(expired)
      /\ phase' \in {"starting", "up", "closing", "closed"}
      /\ expired \intersect Held = {}
  BY DEF Reopen, taskVars
<1> QED
  BY <1>1, StartEffect, HeldKeys, TableStep

LEMMA BootStep ==
  ASSUME IInv, NEW expired \in SUBSET Key, Boot(expired)
  PROVE  IInv'
<1>1. Forget(expired) /\ UNCHANGED <<worker, decider, checkpoint>> /\ Start(expired)
      /\ phase = "down" /\ phase' \in {"starting", "up", "closing", "closed"}
  BY DEF Boot, taskVars
<1>2. (\A w \in Worker : ~Busy(w)) /\ (\A d \in Decider : ~Deciding(d))
  BY <1>1 DEF DownIsIdle
<1> QED
  BY <1>1, <1>2, StartEffect, TableStep

(* The connection goes, and with it what was never committed.              *)
LEMMA DisconnectEffect ==
  ASSUME IInv, Disconnect
  PROVE  /\ InboxTypeOK' /\ RowsAgree'
         /\ rows' = disk /\ disk' = disk
BY DEF Disconnect, TypeOK, InboxTypeOK, RowsAgree

LEMMA CloseInboxStep ==
  ASSUME IInv, CloseInbox
  PROVE  IInv'
<1>1. Disconnect /\ UNCHANGED <<worker, decider, checkpoint, runs, toolRuns>>
      /\ phase # "down" /\ phase' = "closed"
  BY DEF CloseInbox, taskVars, effects
<1>2. TypeOK'
  BY <1>1, DisconnectEffect DEF TypeOK
<1>3. WorkersApart' /\ WorkerFiles'
  BY <1>1, DisconnectEffect DEF WorkersApart, WorkerFiles, Busy, Shown
<1>4. DecidersApart' /\ DeciderFiles'
  BY <1>1, DisconnectEffect DEF DecidersApart, DeciderFiles, Deciding, Busy
<1>5. CountsMatch'
  BY <1>1, DisconnectEffect DEF CountsMatch, RowsAgree, Shown
<1>6. DownIsIdle' /\ RunsOnce' /\ ToolsRunOnce'
  BY <1>1 DEF DownIsIdle, RunsOnce, ToolsRunOnce
<1> QED
  BY <1>1, <1>2, <1>3, <1>4, <1>5, <1>6, DisconnectEffect

LEMMA CrashStep ==
  ASSUME IInv, Crash
  PROVE  IInv'
<1>1. Disconnect /\ UNCHANGED <<checkpoint, runs, toolRuns>> /\ phase' = "down"
      /\ worker' = [w \in Worker |-> NoWorker] /\ decider' = [d \in Decider |-> NoDecision]
  BY DEF Crash, effects
<1>2. TypeOK'
  <2>1. worker' \in [Worker -> WorkerRecord] /\ decider' \in [Decider -> DeciderRecord]
    BY <1>1, NoWorkerType, NoDecisionType
  <2> QED
    BY <1>1, <2>1, DisconnectEffect DEF TypeOK, WorkerRecord, DeciderRecord
<1>3. \A w \in Worker : worker'[w] = NoWorker
  BY <1>1
<1>4. \A d \in Decider : decider'[d] = NoDecision
  BY <1>1
<1>5. WorkersApart' /\ WorkerFiles'
  BY <1>3, NoWorkerType DEF WorkersApart, WorkerFiles, Busy, NoWorker
<1>6. DecidersApart' /\ DeciderFiles'
  BY <1>4 DEF NoDecision, DecidersApart, DeciderFiles, Deciding
<1>7. DownIsIdle'
  BY <1>3, <1>4, NoWorkerType DEF NoDecision, DownIsIdle, Busy, Deciding
<1>8. CountsMatch'
  BY <1>1, DisconnectEffect DEF CountsMatch, RowsAgree, Shown
<1>9. RunsOnce' /\ ToolsRunOnce'
  BY <1>1 DEF RunsOnce, ToolsRunOnce
<1> QED
  BY <1>1, <1>2, <1>5, <1>6, <1>7, <1>8, <1>9, DisconnectEffect

LEMMA ReconcileStep ==
  ASSUME IInv, NEW k \in Key, Reconcile(k)
  PROVE  IInv'
<1>1. rows[k] = "waiting_approval" /\ rows = disk /\ RowStep(k, Active, "failed")
      /\ phase = "starting"
      /\ UNCHANGED <<phase, worker, decider, checkpoint, runs, toolRuns>>
  BY TransitionIsRowStep, ReadyAgrees DEF Reconcile, taskVars, effects
<1>2. /\ InboxTypeOK'
      /\ rows'[k] = rows[k] \/ rows'[k] = "failed"
      /\ disk'[k] = disk[k] \/ (disk'[k] = "failed" /\ rows'[k] = "failed")
      /\ \A j \in Key \ {k} : rows'[j] = rows[j] /\ disk'[j] = disk[j]
  <2>1. "failed" \in Statuses
    BY DEF Statuses, Terminal
  <2> QED
    BY <1>1, <2>1, RowStepEffect
<1>3. (\A w \in Worker : Busy(w) => worker[w].key # k)
      /\ \A d \in Decider : Deciding(d) => decider[d].key # k
  BY <1>1 DEF WorkersApart, DecidersApart, Shown
<1>4. TypeOK'
  BY <1>1, <1>2 DEF TypeOK
<1>5. WorkersApart' /\ WorkerFiles'
  BY <1>1, <1>2, <1>3 DEF WorkersApart, WorkerFiles, Busy, Shown
<1>6. DecidersApart' /\ DeciderFiles'
  BY <1>1, <1>2, <1>3 DEF DecidersApart, DeciderFiles, Deciding, Busy
<1>7. RowsAgree' /\ CountsMatch'
  BY <1>1, <1>2, Members DEF RowsAgree, CountsMatch, Shown
<1>8. DownIsIdle' /\ RunsOnce' /\ ToolsRunOnce'
  BY <1>1 DEF DownIsIdle, RunsOnce, ToolsRunOnce
<1> QED
  BY <1>4, <1>5, <1>6, <1>7, <1>8

(* The process begins to serve, or nothing happens.                        *)
LEMMA ServeStep ==
  ASSUME IInv, UNCHANGED <<inboxVars, taskVars, effects>>,
         UNCHANGED phase \/ (phase = "starting" /\ phase' = "up")
  PROVE  IInv'
<1> USE DEF inboxVars, taskVars, effects
<1>1. TypeOK'
  BY DEF TypeOK, InboxTypeOK
<1>2. WorkersApart' /\ WorkerFiles' /\ DecidersApart' /\ DeciderFiles'
  BY DEF WorkersApart, WorkerFiles, DecidersApart, DeciderFiles, Busy, Deciding, Shown
<1>3. RowsAgree' /\ CountsMatch' /\ DownIsIdle' /\ RunsOnce' /\ ToolsRunOnce'
  BY DEF RowsAgree, CountsMatch, DownIsIdle, Busy, Deciding, Shown, RunsOnce, ToolsRunOnce
<1> QED
  BY <1>1, <1>2, <1>3

(* Every step keeps the invariant, for any keys, events and operators.     *)
THEOREM NextKeeps == IInv /\ [Next]_vars => IInv'
<1> SUFFICES ASSUME IInv, [Next]_vars PROVE IInv'
  OBVIOUS
<1>1. CASE UNCHANGED vars
  BY <1>1, ServeStep DEF vars
<1>2. ASSUME NEW w \in Worker, WorkerNext(w) PROVE IInv'
  <2>1. ASSUME NEW k \in Key, Submit(w, k) PROVE IInv'
    BY <2>1, SubmitStep
  <2>2. ASSUME NEW outcome \in Filed, NEW caught \in BOOLEAN, Finish(w, outcome, caught)
        PROVE  IInv'
    BY <2>2, FinishStep
  <2> HIDE DEF IInv
  <2> QED
    BY <1>2, <2>1, <2>2, BeginStep, BeginRaisesStep, AbandonStep, InterruptStep, FileStep,
       FileRaisesStep, AskCancelStep, CancelWorkStep, CancelFilingStep DEF WorkerNext
<1>3. ASSUME NEW d \in Decider, DeciderNext(d) PROVE IInv'
  <2>1. ASSUME NEW k \in Key, NEW approved \in BOOLEAN, Choose(d, k, approved)
        PROVE  IInv'
    BY <2>1, ChooseStep
  <2> HIDE DEF IInv
  <2> QED
    BY <1>3, <2>1, ClaimStep, ClaimRaisesStep, RunToolsStep, AnswerStep, ResumeRaisesStep,
       FileDecisionStep, FileDecisionRaisesStep DEF DeciderNext
<1>4. ASSUME ProcessNext PROVE IInv'
  <2>1. ASSUME NEW expired \in SUBSET Key,
               Retain(expired) \/ Reopen(expired) \/ Boot(expired)
        PROVE  IInv'
    BY <2>1, RetainStep, ReopenStep, BootStep
  <2>2. ASSUME NEW k \in Key, LoseCheckpoint(k) \/ Reconcile(k) PROVE IInv'
    BY <2>2, LoseCheckpointStep, ReconcileStep
  <2>3. CASE Serve
    BY <2>3, ServeStep DEF Serve
  <2> HIDE DEF IInv
  <2> QED
    BY <1>4, <2>1, <2>2, <2>3, ShutdownStep, CloseInboxStep, CrashStep DEF ProcessNext
<1> HIDE DEF IInv
<1> QED
  BY <1>1, <1>2, <1>3, <1>4 DEF Next

(* In every reachable state the holders of keys are apart: the invariant   *)
(* that the other theorems rest on.                                        *)
THEOREM Invariant == Spec => []IInv
<1> HIDE DEF IInv
<1> QED
  BY InitHolds, NextKeeps, PTL DEF Spec

(* The inbox, its tasks and the process keep to their types, whatever the  *)
(* sets of keys, events and operators (CommandInbox, TaskSupervisor).      *)
THEOREM TypeCorrect == Spec => []TypeOK
<1>1. IInv => TypeOK
  OBVIOUS
<1> HIDE DEF IInv
<1> QED
  BY <1>1, Invariant, PTL

(* A command identity is executed at most once for as long as its row is   *)
(* kept, however many clients send it, whatever fails on the way and       *)
(* however often the process restarts (accept, start, mark_processing).    *)
THEOREM ExecutedOnce == Spec => []RunsOnce
<1>1. IInv => RunsOnce
  OBVIOUS
<1> HIDE DEF IInv
<1> QED
  BY <1>1, Invariant, PTL

(* The batch of tools an approval stands for is executed at most once, for *)
(* any number of operators that decide on it while the timeout loop does   *)
(* (resume_after_approval is the only way to it), and never for a turn on  *)
(* record as cancelled (approval_decide, the approval timeout loop).       *)
THEOREM ToolsFollowDecisions == Spec => []ToolsRunAsDecided
<1>1. IInv => ToolsRunOnce
  OBVIOUS
<1>2. IInv => RejectedToolsNeverRun
  BY DEF CountsMatch, Shown, RejectedToolsNeverRun, Turn
<1>3. IInv => ToolsRunAsDecided
  BY <1>1, <1>2 DEF ToolsRunAsDecided
<1> HIDE DEF IInv
<1> QED
  BY <1>3, Invariant, PTL

(* What one write does to a committed end.                                 *)
LEMMA WritesKeepEnds ==
  ASSUME IInv, NEW k, NEW from \in SUBSET Active, NEW to,
         Transition(k, from, to) \/ CutOff(k, from, to),
         NEW j \in Key, disk[j] \in Terminal
  PROVE  disk'[j] = disk[j]
<1>1. rows = disk /\ disk' \in {disk, Moved(k, from, to)}
  BY ReadyAgrees DEF Transition, CutOff, Commit
<1>2. disk[j] \notin from
  BY Members
<1> QED
  BY <1>1, <1>2 DEF Moved, TypeOK, InboxTypeOK

LEMMA StepsKeepEnds ==
  ASSUME IInv, [Next]_vars, NEW j \in Key, disk[j] \in Terminal
  PROVE  disk'[j] \in {disk[j], "absent"}
<1>1. ASSUME UNCHANGED disk PROVE disk'[j] \in {disk[j], "absent"}
  BY <1>1
<1>2. ASSUME NEW w \in Worker, WorkerNext(w) PROVE disk'[j] \in {disk[j], "absent"}
  <2>1. ASSUME NEW k \in Key, Submit(w, k) PROVE disk'[j] = disk[j]
    BY <2>1, ReadyAgrees, Members DEF Submit, Accept, IsNew, Commit, TypeOK, InboxTypeOK
  <2>2. ASSUME Begin(w) PROVE disk'[j] = disk[j]
    <3>1. {"accepted"} \in SUBSET Active
      BY Members
    <3> QED
      BY <2>2, <3>1, WritesKeepEnds DEF Begin
  <2>3. ASSUME File(w) PROVE disk'[j] = disk[j]
    BY <2>3, WritesKeepEnds, Members DEF File
  <2>4. ASSUME CancelFiling(w) PROVE disk'[j] = disk[j]
    BY <2>4, WritesKeepEnds DEF CancelFiling, inboxVars
  <2> QED
    BY <1>2, <2>1, <2>2, <2>3, <2>4
       DEF WorkerNext, Finish, BeginRaises, Abandon, Interrupt, FileRaises, AskCancel,
           CancelWork, inboxVars
<1>3. ASSUME NEW d \in Decider, DeciderNext(d) PROVE disk'[j] \in {disk[j], "absent"}
  <2>1. ASSUME Claim(d) PROVE disk'[j] = disk[j]
    <3>1. {"waiting_approval"} \in SUBSET Active
      BY Members
    <3> QED
      BY <2>1, <3>1, WritesKeepEnds DEF Claim, inboxVars
  <2>2. ASSUME FileDecision(d) PROVE disk'[j] = disk[j]
    BY <2>2, WritesKeepEnds DEF FileDecision
  <2> QED
    BY <1>3, <2>1, <2>2
       DEF DeciderNext, Choose, ClaimRaises, RunTools, Answer, ResumeRaises,
           FileDecisionRaises, inboxVars
<1>4. ASSUME ProcessNext PROVE disk'[j] \in {disk[j], "absent"}
  <2>1. rows[j] = disk[j] /\ disk[j] \notin {"accepted", "processing"}
    BY Members DEF RowsAgree
  <2>2. ASSUME NEW expired \in SUBSET Key, Retain(expired)
        PROVE  disk'[j] \in {disk[j], "absent"}
    BY <2>1, <2>2 DEF Retain, CleanUp, Commit, Without
  <2>3. ASSUME NEW expired \in SUBSET Key, Reopen(expired) \/ Boot(expired)
        PROVE  disk'[j] \in {disk[j], "absent"}
    <3>1. Start(expired)
      BY <2>3 DEF Reopen, Boot
    <3> QED
      BY <2>1, <3>1, StartEffect
  <2>4. ASSUME NEW k \in Key, Reconcile(k) PROVE disk'[j] = disk[j]
    BY <2>4, WritesKeepEnds DEF Reconcile
  <2>5. ASSUME Shutdown PROVE disk'[j] = disk[j]
    <3>1. {"waiting_approval"} \in SUBSET Active /\ Active \in SUBSET Active
      BY Members
    <3> QED
      BY <2>5, <3>1, WritesKeepEnds DEF Shutdown, inboxVars
  <2> QED
    BY <1>4, <2>2, <2>3, <2>4, <2>5
       DEF ProcessNext, LoseCheckpoint, CloseInbox, Crash, Serve, Disconnect, inboxVars
<1> QED
  BY <1>1, <1>2, <1>3, <1>4 DEF Next, vars, inboxVars

(* A committed end stays until its retention is over: no late filing, no   *)
(* decision, no restart and no lost connection moves it (the source        *)
(* statuses of each transition, start).                                    *)
THEOREM CommittedEndsAreFinal == Spec => EndsAreFinal
<1>1. IInv /\ [Next]_vars
        => [\A k \in Key : disk[k] \in Terminal => disk'[k] \in {disk[k], "absent"}]_vars
  BY StepsKeepEnds
<1> HIDE DEF IInv
<1> QED
  BY <1>1, Invariant, PTL DEF Spec, EndsAreFinal

(***************************************************************************)
(* Work on record: while the process serves, the row of a worker that has  *)
(* not come to its filing says so, in both tables.                         *)
(***************************************************************************)
Working(w) == worker[w].pc \in {"accepted", "run"}
StatusOfWork(w) == IF worker[w].pc = "accepted" THEN "accepted" ELSE "processing"

Registered ==
  /\ phase = "starting" => \A w \in Worker : ~Busy(w)
  /\ phase = "up" => \A w \in Worker : Working(w) =>
       rows[worker[w].key] = StatusOfWork(w) /\ disk[worker[w].key] = StatusOfWork(w)

(* A step that is nobody's beginning: a worker goes on to its filing, or   *)
(* stays, and the rows of those that stay are left alone.                  *)
LEMMA Undisturbed ==
  ASSUME Registered, phase' \in {"starting", "up"} => phase' = phase,
         phase = "starting" => worker' = worker,
         \A w \in Worker :
            \/ worker'[w].pc \in {"idle", "file"}
            \/ /\ worker'[w].pc = worker[w].pc /\ worker'[w].key = worker[w].key
               /\ phase = "up" /\ Working(w) => /\ rows'[worker[w].key] = rows[worker[w].key]
                                                /\ disk'[worker[w].key] = disk[worker[w].key]
  PROVE  Registered'
BY DEF Registered, Working, StatusOfWork, Busy

LEMMA WritesOneRow ==
  ASSUME IInv, NEW k, NEW from, NEW to, Transition(k, from, to) \/ CutOff(k, from, to),
         NEW j \in Key, j # k
  PROVE  rows'[j] = rows[j] /\ disk'[j] = disk[j]
<1>1. rows = disk /\ rows' \in {rows, Moved(k, from, to)} /\ disk' \in {disk, Moved(k, from, to)}
  BY ReadyAgrees DEF Transition, CutOff, Commit
<1> QED
  BY <1>1 DEF Moved, TypeOK, InboxTypeOK

LEMMA BeginRegisters ==
  ASSUME IInv, Registered, NEW w \in Worker,
         (\E k \in Key : Submit(w, k)) \/ Begin(w)
  PROVE  Registered'
<1>1. phase # "starting" /\ phase' = phase
  BY DEF Submit, Begin, WorkerAt, Alive
<1>2. ASSUME NEW k \in Key, Submit(w, k) PROVE Registered'
  <2>1. rows[k] = "absent" /\ rows = disk /\ rows' = [rows EXCEPT ![k] = "accepted"]
        /\ disk' = rows' /\ worker[w].pc = "idle"
    BY <1>2, ReadyAgrees DEF Submit, Accept, IsNew, Commit, WorkerAt
  <2>2. worker'[w].pc = "accepted" /\ worker'[w].key = k
        /\ \A v \in Worker \ {w} : worker'[v] = worker[v]
    BY <1>2 DEF Submit, TypeOK, NoWorker
  <2>3. \A v \in Worker : Working(v) => worker[v].key \in Key \ {k}
    BY <2>1 DEF WorkersApart, Busy, Working, Shown
  <2> QED
    BY <1>1, <2>1, <2>2, <2>3 DEF Registered, Working, StatusOfWork, TypeOK, InboxTypeOK
<1>3. ASSUME Begin(w) PROVE Registered'
  <2> DEFINE k == worker[w].key
  <2>1. rows = disk /\ worker[w].pc = "accepted" /\ Transition(k, {"accepted"}, "processing")
    BY <1>3, ReadyAgrees DEF Begin, Transition, WorkerAt
  <2>2. worker'[w].pc = "run" /\ worker'[w].key = k
        /\ \A v \in Worker \ {w} : worker'[v] = worker[v]
    BY <1>3, WorkerType DEF Begin, WorkerRecord
  <2>3. k \in Key /\ \A v \in Worker \ {w} : Working(v) => worker[v].key \in Key \ {k}
    BY <2>1 DEF WorkersApart, Busy, Working
  <2>4. \A v \in Worker \ {w} : Working(v) =>
          rows'[worker[v].key] = rows[worker[v].key] /\ disk'[worker[v].key] = disk[worker[v].key]
    BY <2>1, <2>3, WritesOneRow
  <2>5. phase = "up" => rows'[k] = "processing" /\ disk'[k] = "processing"
    BY <2>1, <2>3 DEF Registered, Working, StatusOfWork, Transition, Commit, Moved,
                      TypeOK, InboxTypeOK
  <2> HIDE DEF k
  <2> QED
    BY <1>1, <2>2, <2>4, <2>5 DEF Registered, Working, StatusOfWork
<1> QED
  BY <1>2, <1>3

LEMMA WorkersRegister ==
  ASSUME IInv, Registered, NEW w \in Worker, WorkerNext(w)
  PROVE  Registered'
<1>1. CASE (\E k \in Key : Submit(w, k)) \/ Begin(w)
  BY <1>1, BeginRegisters
<1>2. CASE AskCancel(w)
  <2>1. worker'[w].pc = worker[w].pc /\ worker'[w].key = worker[w].key
        /\ (\A v \in Worker \ {w} : worker'[v] = worker[v])
        /\ UNCHANGED <<inboxVars, phase>> /\ phase # "starting"
    BY <1>2, WorkerType DEF AskCancel, WorkerRecord, Alive
  <2> QED
    BY <2>1, Undisturbed DEF inboxVars
<1>3. CASE ~((\E k \in Key : Submit(w, k)) \/ Begin(w) \/ AskCancel(w))
  <2>1. \A v \in Worker \ {w} : worker'[v] = worker[v]
    BY <1>3, WorkerType
       DEF WorkerNext, Finish, BeginRaises, Abandon, Interrupt, File, FileRaises, CancelWork,
           CancelFiling, FileCancellation, WorkerEnds
  <2>2. worker'[w].pc \in {"idle", "file"} /\ phase' = phase /\ phase # "starting"
    <3>1. ASSUME FileCancellation(w) PROVE worker'[w].pc = "file"
      BY <3>1, WorkerType DEF FileCancellation, WorkerRecord
    <3>2. ASSUME WorkerEnds(w) PROVE worker'[w].pc = "idle"
      BY <3>2, WorkerType DEF WorkerEnds, NoWorker
    <3>3. ASSUME NEW outcome \in Filed, NEW caught \in BOOLEAN, Finish(w, outcome, caught)
          PROVE  worker'[w].pc = "file"
      BY <3>3, WorkerType DEF Finish, WorkerRecord
    <3>4. ASSUME Interrupt(w) PROVE worker'[w].pc = "file"
      BY <3>4, WorkerType DEF Interrupt, WorkerRecord
    <3>5. ASSUME FileRaises(w) PROVE worker'[w].pc \in {"idle", "file"}
      BY <3>2, <3>5, WorkerType DEF FileRaises, WorkerAt, WorkerRecord
    <3>6. worker'[w].pc \in {"idle", "file"}
      BY <1>3, <3>1, <3>2, <3>3, <3>4, <3>5
         DEF WorkerNext, BeginRaises, Abandon, File, CancelWork, CancelFiling
    <3>7. phase' = phase /\ phase # "starting"
      BY <1>3 DEF WorkerNext, Finish, BeginRaises, Abandon, Interrupt, File, FileRaises,
                  CancelWork, CancelFiling, WorkerAt, Alive
    <3> QED
      BY <3>6, <3>7
  <2>3. \A v \in Worker \ {w} : Working(v) =>
          rows'[worker[v].key] = rows[worker[v].key] /\ disk'[worker[v].key] = disk[worker[v].key]
    <3>1. CASE UNCHANGED inboxVars
      BY <3>1 DEF inboxVars
    <3>2. CASE ~UNCHANGED inboxVars
      <4>1. Busy(w) /\ \E from, to : \/ Transition(worker[w].key, from, to)
                                     \/ CutOff(worker[w].key, from, to)
        BY <1>3, <3>2
           DEF WorkerNext, Finish, BeginRaises, Abandon, Interrupt, File, FileRaises,
               CancelWork, CancelFiling, WorkerAt, Busy
      <4>2. \A v \in Worker \ {w} : Working(v) => worker[v].key \in Key
                                                  /\ worker[v].key # worker[w].key
        BY <4>1 DEF WorkersApart, Busy, Working
      <4> QED
        BY <4>1, <4>2, WritesOneRow
    <3> QED
      BY <3>1, <3>2
  <2> QED
    BY <2>1, <2>2, <2>3, Undisturbed
<1> QED
  BY <1>1, <1>2, <1>3

LEMMA DecidersRegister ==
  ASSUME IInv, Registered, NEW d \in Decider, DeciderNext(d)
  PROVE  Registered'
<1>1. worker' = worker /\ phase' = phase
  BY DEF DeciderNext, Choose, Claim, ClaimRaises, RunTools, Answer, ResumeRaises,
         FileDecision, FileDecisionRaises
<1>2. \A w \in Worker : Working(w) =>
        rows'[worker[w].key] = rows[worker[w].key] /\ disk'[worker[w].key] = disk[worker[w].key]
  <2>1. CASE UNCHANGED inboxVars
    BY <2>1 DEF inboxVars
  <2>2. CASE ~UNCHANGED inboxVars
    <3>1. \E from, to : Transition(decider[d].key, from, to)
      BY <2>2 DEF DeciderNext, Choose, Claim, ClaimRaises, RunTools, Answer, ResumeRaises,
                  FileDecision, FileDecisionRaises
    <3>2. rows[decider[d].key] = "waiting_approval" \/ Deciding(d)
      BY <2>2 DEF DeciderNext, Choose, Claim, Claimable, ClaimRaises, RunTools, Answer,
                  ResumeRaises, FileDecision, FileDecisionRaises, DeciderAt, Deciding
    <3>3. \A w \in Worker : Working(w) => worker[w].key \in Key
                                          /\ worker[w].key # decider[d].key
      BY <3>2 DEF WorkersApart, DecidersApart, Busy, Working, Shown
    <3> QED
      BY <3>1, <3>3, WritesOneRow
  <2> QED
    BY <2>1, <2>2
<1> QED
  BY <1>1, <1>2, Undisturbed

LEMMA ProcessRegisters ==
  ASSUME IInv, Registered, ProcessNext
  PROVE  Registered'
<1>1. CASE phase' \notin {"starting", "up"}
  BY <1>1 DEF Registered
<1>2. CASE phase' \in {"starting", "up"}
  <2>1. ASSUME NEW expired \in SUBSET Key, Retain(expired) PROVE Registered'
    <3>1. worker' = worker /\ phase' = phase /\ phase = "up"
          /\ rows' = Without(rows, expired) /\ disk' = rows'
          /\ expired \intersect Held = {}
      BY <2>1 DEF Retain, CleanUp, Commit, taskVars
    <3>2. \A w \in Worker : Working(w) => worker[w].key \in Key
            /\ rows'[worker[w].key] = rows[worker[w].key]
            /\ disk'[worker[w].key] = rows[worker[w].key]
      BY <3>1, HeldKeys DEF Without, WorkersApart, Busy, Working
    <3> QED
      BY <3>1, <3>2 DEF Registered, Working, StatusOfWork
  <2>2. ASSUME NEW expired \in SUBSET Key, Boot(expired) PROVE Registered'
    BY <2>2 DEF Boot, DownIsIdle, Registered, taskVars, Busy
  <2>3. ASSUME NEW k \in Key, LoseCheckpoint(k) PROVE Registered'
    BY <2>3 DEF LoseCheckpoint, inboxVars, taskVars, Registered, Busy, Working, StatusOfWork
  <2>4. ASSUME NEW k \in Key, Reconcile(k) PROVE Registered'
    BY <2>4 DEF Reconcile, taskVars, Registered, Busy
  <2>5. ASSUME Serve PROVE Registered'
    BY <2>5 DEF Serve, taskVars, Registered, Busy, Working
  <2> QED
    BY <1>2, <2>1, <2>2, <2>3, <2>4, <2>5
       DEF ProcessNext, Reopen, Shutdown, CloseInbox, Crash
<1> QED
  BY <1>1, <1>2

(* While the process serves, work in progress is on record as processing   *)
(* and nobody else works under its key (accept, mark_processing and the    *)
(* source statuses of every other transition).                             *)
THEOREM WorkOnRecord == Spec => []WorkIsRegistered
<1>1. Init => Registered
  BY DEF Init, Registered, Working, NoWorker
<1>2. IInv /\ Registered /\ [Next]_vars => Registered'
  <2> SUFFICES ASSUME IInv, Registered, [Next]_vars PROVE Registered'
    OBVIOUS
  <2>1. CASE UNCHANGED vars
    BY <2>1 DEF vars, inboxVars, taskVars, Registered, Busy, Working, StatusOfWork
  <2> QED
    BY <2>1, WorkersRegister, DecidersRegister, ProcessRegisters DEF Next
<1>3. IInv /\ Registered => WorkIsRegistered
  <2> SUFFICES ASSUME IInv, Registered, phase = "up", NEW w \in Worker, worker[w].pc = "run"
      PROVE  /\ disk[worker[w].key] = "processing"
             /\ \A v \in Worker \ {w} : worker[v].key # worker[w].key
             /\ \A d \in Decider : decider[d].key = worker[w].key
                                    => decider[d].pc \in {"idle", "claim"}
    BY DEF WorkIsRegistered
  <2>1. disk[worker[w].key] = "processing"
    BY DEF Registered, Working, StatusOfWork
  <2>2. /\ \A v \in Worker : ~Busy(v) => worker[v].key = NoKey
        /\ \A d \in Decider : decider[d].pc = "dead" => decider[d].key = NoKey
        /\ worker[w].key # NoKey
    BY NoKeyAssumption DEF WorkerFiles, DeciderFiles, WorkersApart, Busy
  <2> QED
    BY <2>1, <2>2 DEF WorkersApart, DecidersApart, Busy, Deciding, TypeOK
<1> HIDE DEF IInv
<1> QED
  BY <1>1, <1>2, <1>3, Invariant, PTL DEF Spec
=============================================================================
