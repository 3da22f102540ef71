--------------------------- MODULE MissionCourse_proofs ---------------------------
(***************************************************************************)
(* More proofs about the mission coordinator, from Shape, Turns and Agenda *)
(* of MissionCoordinator_proofs: Waits, what a mission that waits for      *)
(* evidence can count on; Books, what the account of the mission says      *)
(* when, and what a task has read of it; Course, who is on the way to do   *)
(* what comes next as long as nothing disturbed the mission.  Each is kept *)
(* by every action: lemma ...Waits, lemma ...Books, lemma ...Course.       *)
(***************************************************************************)
EXTENDS MissionCoordinator_proofs

-----------------------------------------------------------------------------
(* Waiting for evidence.  verify_completion looks at the objectives of the *)
(* MissionSpec only.  That those which were appended are completed too is  *)
(* known from where the mission stands: it came to wait for evidence when  *)
(* everything required was completed, and since then nothing was appended  *)
(* by anyone but a task that leaves verification alone.  A command that    *)
(* was given while the mission waits cannot run before the mission moves   *)
(* on, because the worker that would run it is the one that moves it; so   *)
(* no command that succeeds finds the mission waiting.  And a task that    *)
(* has the turn read the mission as it is, or an older version of it.      *)
Awaiting == mission.status = "waiting_evidence"
Ran == {"running", "reconciling", "blocked_unknown", "succeeded"}
Due == {c \in Child : c[1] \in ActiveNow \/ c[2] > linked[c[1]]}
Starting == /\ task["worker"].pc \in {"activate", "run"}
            /\ task["worker"].snap.mission = mission
Unstarted ==
  Awaiting => \A c \in Due : /\ commands[c].state \notin Ran
                             /\ commands[c].state = "queued" => Starting

HasRead(x) == \/ x.pc \in Informed
              \/ x.pc \in Reads \ {"mission"} /\ x.next \in Onward
Advancing(x) == \/ x.pc = "advance"
                \/ x.pc \in Reads /\ x.next = "advance"
Verifying(x) == \/ x.pc \in {"adapt", "verify"}
                \/ x.pc \in Reads /\ x.next \in {"adapt", "verify"}
Attending(x) == HasRead(x) \/ Advancing(x) \/ Verifying(x)
Accomplished ==
  \A o \in Objective \ Optional : objectives[o].status \in {"absent", "completed"}

Attends(t) ==
  /\ HasRead(task[t]) =>
       /\ task[t].snap.mission.version <= mission.version
       /\ task[t].snap.mission.version = mission.version \/ Awaiting
            => task[t].snap.mission = mission
  /\ Awaiting => /\ Holds(t) => t \notin Submitter
                 /\ Advancing(task[t]) => task[t].caller # "child"
                 /\ Verifying(task[t]) => Accomplished

Waits == Unstarted /\ \A t \in Task : Attends(t)

\* the mission stays or leaves its version for another than waiting
MissionOn ==
  \/ mission' = mission
  \/ mission'.version = mission.version + 1 /\ mission'.status # "waiting_evidence"

LEMMA MissionGoesOn ==
  ASSUME Shape, NEW version, NEW target, target # "waiting_evidence",
         TransitionMission(version, target)
  PROVE  MissionOn /\ mission'.status = target /\ UNCHANGED <<objectives, linked>>
<1>1. RepositoryTypeOK
  BY DEF Shape, TypeOK
<1> QED BY <1>1, MissionTyped DEF MissionOn

LEMMA ToldVersion ==
  ASSUME Shape, NEW t \in Task
  PROVE  task[t].snap.mission.version \in Nat /\ mission.version \in Nat
BY DEF Shape, TypeOK, RepositoryTypeOK, TaskRecord, SnapRecord

LEMMA Attendance ==
  ASSUME NEW x, Attending(x)
  PROVE  Holding(x) /\ x.pc \notin Rebalancing
BY DEF Attending, HasRead, Advancing, Verifying, Holding, Informed, Onward, Rebalancing, Reads

LEMMA AttendsNot ==
  ASSUME NEW t, ~Attending(task'[t]), t \in Submitter => ~Holding(task'[t]) \/ ~Awaiting'
  PROVE  Attends(t)'
BY DEF Attends, Attending, Holds

LEMMA AttendsStays ==
  ASSUME Shape, NEW t \in Task, Attends(t), task'[t] = task[t],
         ~Holds(t) \/ (MissionOn /\ UNCHANGED objectives)
  PROVE  Attends(t)'
<1>1. CASE ~Holds(t)
  <2>1. ~Holding(task'[t]) /\ ~Attending(task'[t])
    BY <1>1, Attendance DEF Holds
  <2> QED BY <2>1, AttendsNot
<1>2. CASE mission' = mission /\ UNCHANGED objectives
  <2>1. (Accomplished' <=> Accomplished) /\ (Awaiting' <=> Awaiting) /\ (Holds(t)' <=> Holds(t))
    BY <1>2 DEF Accomplished, Awaiting, Holds
  <2> QED BY <1>2, <2>1, Zenon DEF Attends
<1>3. CASE mission'.version = mission.version + 1 /\ mission'.status # "waiting_evidence"
  <2>1. ~Awaiting'
    BY <1>3 DEF Awaiting
  <2>2. HasRead(task[t]) => task[t].snap.mission.version <= mission.version
    BY DEF Attends
  <2>3. HasRead(task[t]) => /\ task[t].snap.mission.version <= mission'.version
                            /\ task[t].snap.mission.version # mission'.version
    BY <1>3, <2>2, ToldVersion
  <2> QED BY <2>1, <2>3, Zenon DEF Attends
<1> QED BY <1>1, <1>2, <1>3 DEF MissionOn

LEMMA Unattending ==
  ASSUME NEW x \in TaskRecord
  PROVE  /\ ~Attending(Idle) /\ ~Attending(OnChild(x))
         /\ \A p \in {"child", "rebalance", "explore"} : ~Attending(Reading(x, p))
         /\ \A p \in Pcs \ (Reads \union Informed) : ~Attending([x EXCEPT !.pc = p])
<1>1. ~Attending(Idle)
  BY Records DEF Attending, HasRead, Advancing, Verifying, Informed, Onward, Reads
<1>2. ~Attending(OnChild(x))
  BY OnChildRecord DEF Attending, HasRead, Advancing, Verifying, Informed, Onward, Reads
<1>3. \A p \in {"child", "rebalance", "explore"} : ~Attending(Reading(x, p))
  BY ReadingRecord DEF Attending, HasRead, Advancing, Verifying, Informed, Onward, Reads, Procedures
<1>4. \A p \in Pcs \ (Reads \union Informed) : ~Attending([x EXCEPT !.pc = p])
  BY GoesRecord DEF Attending, HasRead, Advancing, Verifying, Informed, Onward, Reads
<1> QED BY <1>1, <1>2, <1>3, <1>4

(* A step of one task that leaves the commands alone.                      *)
LEMMA WaitsStays ==
  ASSUME Shape, Waits, NEW t \in Task, NEW x, Becomes(t, x), Attends(t)', UNCHANGED commands,
         mission' = mission \/ ~Awaiting',
         \A u \in Task \ {t} : ~Holds(u) \/ (MissionOn /\ UNCHANGED objectives),
         task[t].pc \in {"activate", "run"} => ~Starting \/ Starting' \/ ~Awaiting',
         \A c \in Due' : c \in Due \/ commands[c].state \notin Ran \union {"queued"}
  PROVE  Waits'
<1>1. task'[t] = x /\ \A u \in Task \ {t} : task'[u] = task[u]
  BY DEF Shape, Becomes
<1>2. \A u \in Task : Attends(u)'
  BY <1>1, AttendsStays DEF Waits
<1>3. Awaiting' => (Awaiting /\ mission' = mission)
  BY DEF Awaiting
<1>4. Awaiting' /\ Starting => Starting'
  <2>1. CASE t = "worker" /\ task[t].pc \in {"activate", "run"}
    BY <2>1
  <2>2. CASE t # "worker" \/ task[t].pc \notin {"activate", "run"}
    BY <1>1, <1>3, <2>2, Names DEF Starting
  <2> QED BY <2>1, <2>2
<1>5. Unstarted'
  BY <1>3, <1>4 DEF Waits, Unstarted
<1> QED BY <1>2, <1>5 DEF Waits

\* the same, when the objectives stay as well
LEMMA WaitsOn ==
  ASSUME Shape, Waits, NEW t \in Task, NEW x, Becomes(t, x), Attends(t)',
         UNCHANGED <<commands, objectives, linked>>, MissionOn,
         task[t].pc \in {"activate", "run"} => ~Starting \/ Starting' \/ ~Awaiting'
  PROVE  Waits'
<1>1. Due' = Due
  BY DEF Due, ActiveNow
<1>2. mission' = mission \/ ~Awaiting'
  BY DEF MissionOn, Awaiting
<1> QED BY <1>1, <1>2, WaitsStays

LEMMA ReadsWaits ==
  ASSUME Shape, Turns, Waits, NEW t \in Task, Snapshots(t)
  PROVE  Waits'
<1>1. PICK y \in TaskRecord :
        /\ Becomes(t, y) /\ OnlyTask /\ y.next = task[t].next /\ y.caller = task[t].caller
        /\ task[t].pc \in Reads
        /\ \/ At(t, "mission") /\ y.pc = "transitions" /\ y.snap.mission = mission
           \/ /\ ~At(t, "mission") /\ y.snap.mission = task[t].snap.mission
              /\ y.pc \in {"account", "objectives"} \/ y.pc = y.next
  BY ReadsRecord, Zenon DEF At
<1>2. /\ UNCHANGED <<commands, objectives, linked, mission>> /\ MissionOn /\ Attends(t)
      /\ y.next \in Procedures \union {"idle"} /\ mission.version \in Nat
  BY <1>1, ToldVersion DEF OnlyTask, repositoryVars, journalVars, MissionOn, Waits, TaskRecord
<1>3. task'[t] = y
  BY <1>1 DEF Shape, Becomes
<1>4. /\ Advancing(y) <=> Advancing(task[t])
      /\ Verifying(y) <=> Verifying(task[t])
      /\ Holding(y) <=> Holds(t)
  BY <1>1, <1>2 DEF Advancing, Verifying, Holding, Holds, Procedures, Reads, Informed, Onward,
     Rebalancing
<1>5. HasRead(y) => y.snap.mission = mission \/ (HasRead(task[t]) /\ y.snap.mission = task[t].snap.mission)
  BY <1>1, <1>2 DEF HasRead, Procedures, Reads, Informed, Onward, At
<1>6. (Accomplished' <=> Accomplished) /\ (Awaiting' <=> Awaiting)
  BY <1>2 DEF Accomplished, Awaiting
<1>7. Attends(t)'
  BY <1>1, <1>2, <1>3, <1>4, <1>5, <1>6 DEF Attends, Holds
<1>8. task[t].pc \notin {"activate", "run"}
  BY <1>1 DEF Reads
<1> QED BY <1>1, <1>2, <1>7, <1>8, WaitsOn

\* a task that comes to rest or goes on to what does not count
LEMMA WaitsLeft ==
  ASSUME Shape, Waits, NEW t \in Task, NEW x, Becomes(t, x), ~Attending(x),
         t \in Submitter => ~Holding(x), UNCHANGED <<commands, objectives, linked>>, MissionOn,
         task[t].pc \in {"activate", "run"} => ~Starting \/ ~Awaiting'
  PROVE  Waits'
<1>1. task'[t] = x
  BY DEF Shape, Becomes
<1> QED BY <1>1, AttendsNot, WaitsOn

LEMMA WaitsMoved ==
  ASSUME Shape, Waits, NEW t \in Task, NEW target, NEW status, ~At(t, "idle"),
         MissionMoves(t, target, Returns(t, status)), target # "waiting_evidence",
         status # "waiting_evidence", t \in Submitter => task[t].caller = "submit",
         UNCHANGED commands, ~At(t, "activate"),
         At(t, "run") => target = "running"
  PROVE  Waits'
<1>1. task[t] \in TaskRecord
  BY DEF Shape
<1>2. PICK y \in TaskRecord : Becomes(t, y) /\ (y = Idle \/ y = OnChild(task[t]))
  BY MissionMoved
<1>3. ~Attending(y) /\ ~Holding(y)
  BY <1>1, <1>2, Unattending, Records, OnChildRecord
  DEF Holding, Informed, Onward, Rebalancing, Reads
<1>4. PICK version : version = task[t].snap.mission.version
  OBVIOUS
<1>5. CASE MissionAdmits(version, target)
  <2>1. MissionOn /\ mission'.status = target /\ UNCHANGED <<objectives, linked>>
    BY <1>4, <1>5, MissionGoesOn DEF MissionMoves
  <2> QED BY <1>2, <1>3, <2>1, WaitsLeft DEF Awaiting
<1>6. CASE ~MissionAdmits(version, target)
  <2>1. UNCHANGED <<mission, objectives, linked>> /\ MissionOn
    BY <1>4, <1>6 DEF MissionMoves, repositoryVars, MissionOn
  <2>2. ASSUME Starting, Awaiting, At(t, "run"), t = "worker" PROVE FALSE
    BY <1>4, <1>6, <2>2 DEF Starting, Awaiting, MissionAdmits, MissionSuccessors
  <2>3. CASE t = "worker"
    BY <1>2, <1>3, <2>1, <2>2, <2>3, WaitsLeft DEF At, Awaiting
  <2>4. CASE t # "worker"
    <3>1. task'["worker"] = task["worker"] /\ task'[t] = y
      BY <1>2, <2>4, Names DEF Becomes, Shape
    <3>2. Starting' <=> Starting
      BY <2>1, <3>1 DEF Starting
    <3>3. Attends(t)'
      BY <1>3, <3>1, AttendsNot
    <3> QED BY <1>2, <2>1, <3>2, <3>3, WaitsOn
  <2> QED BY <2>3, <2>4
<1> QED BY <1>5, <1>6

(* The mission comes to wait for evidence: nothing is due, because nobody  *)
(* else could have given the mission a command, and everything required is *)
(* completed or was never appended.                                        *)
LEMMA CreatesNothingWaits ==
  ASSUME Shape, Turns, Waits, NEW t \in Task, AdvanceCreatesNothing(t)
  PROVE  Waits'
<1>1. /\ task[t].pc = "advance" /\ UNCHANGED commands /\ Holds(t) /\ ~At(t, "activate")
      /\ task[t].pc \in {"advance", "activate", "run"} /\ task[t].snap.objectives = objectives
      /\ Advancing(task[t]) /\ Attends(t)
  BY DEF AdvanceCreatesNothing, Holds, Holding, Informed, Onward, At, Turns, Knows, Advancing,
     journalVars, Waits
<1>2. /\ t \in Submitter => task[t].caller = "submit"
      /\ ~At(t, "idle") /\ task[t] \in TaskRecord /\ "adapt" \in Procedures
  BY <1>1, SubmitCalled DEF Procedures
<1>3. /\ ~Attending(Idle) /\ ~Attending(OnChild(task[t]))
      /\ ~Holding(Idle) /\ ~Holding(OnChild(task[t]))
  BY <1>2, Unattending, Records, OnChildRecord
  DEF Holding, Informed, Onward, Rebalancing, Reads
<1>4. CASE ~Finishes(task[t].snap)
  <2>1. UNCHANGED repositoryVars /\ Returns(t, task[t].snap.mission.status)
    BY <1>4 DEF AdvanceCreatesNothing
  <2>2. UNCHANGED <<mission, objectives, linked>> /\ MissionOn
    BY <2>1 DEF repositoryVars, MissionOn
  <2>3. PICK y \in TaskRecord :
          /\ Becomes(t, y)
          /\ y = Idle \/ (y = Reading(task[t], "adapt") /\ task[t].caller = "child")
    BY <1>2, <2>1, ReturnsTo
  <2>4. CASE y = Idle
    BY <1>1, <1>3, <2>2, <2>3, <2>4, WaitsLeft
  <2>5. CASE y = Reading(task[t], "adapt") /\ task[t].caller = "child"
    <3>1. task'[t] = y /\ ~Awaiting'
      BY <1>1, <2>2, <2>3, <2>5 DEF Becomes, Shape, Attends, Awaiting
    <3>2. y.pc = "mission" /\ y.next = "adapt"
      BY <1>2, <2>5, ReadingRecord
    <3>3. Attends(t)'
      BY <3>1, <3>2 DEF Attends, HasRead, Informed, Onward
    <3> QED BY <1>1, <2>2, <2>3, <3>3, WaitsOn
  <2> QED BY <2>3, <2>4, <2>5
<1>5. CASE Finishes(task[t].snap)
  <2>1. MissionMoves(t, CompletionTarget, Returns(t, CompletionTarget))
    BY <1>5 DEF AdvanceCreatesNothing
  <2>2. /\ UNCHANGED <<objectives, linked>>
        /\ \E y \in TaskRecord :
             /\ Becomes(t, y)
             /\ \/ mission' = mission /\ (y = Idle \/ y = OnChild(task[t]))
                \/ y = Idle \/ y = Reading(task[t], "adapt")
    BY <1>2, <2>1, MissionMoved
  <2>3. CASE CompletionTarget # "waiting_evidence"
    BY <1>1, <1>2, <2>1, <2>3, WaitsMoved DEF At
  <2>4. CASE CompletionTarget = "waiting_evidence"
    <3>1. PICK y \in TaskRecord :
            /\ Becomes(t, y)
            /\ y = Idle \/ y = OnChild(task[t]) \/ y = Reading(task[t], "adapt")
      BY <2>2
    <3>2. task'[t] = y /\ \A u \in Task \ {t} : task'[u] = task[u] /\ ~Holds(u)
      BY <1>1, <3>1, HolderAlone DEF Becomes, Shape
    <3>3. Accomplished'
      BY <1>1, <1>5, <2>2 DEF Finishes, RequiredComplete, Accomplished
    <3>4. Attends(t)'
      <4>1. CASE y = Idle \/ y = OnChild(task[t])
        BY <1>3, <3>2, <4>1, AttendsNot
      <4>2. CASE y = Reading(task[t], "adapt")
        <5>1. y.pc = "mission" /\ y.next = "adapt" /\ y.caller = task[t].caller
          BY <1>2, <4>2, ReadingRecord
        <5>2. t \in Submitter => ~Awaiting'
          <6>1. ASSUME t \in Submitter PROVE y = Idle \/ y = OnChild(task[t])
            <7>1. task[t].caller = "submit"
              BY <1>2, <6>1
            <7>2. PICK z \in TaskRecord : Becomes(t, z) /\ (z = Idle \/ z = OnChild(task[t]))
              BY <1>2, <2>1, <7>1, MissionMoved
            <7> QED BY <3>2, <7>2 DEF Becomes, Shape
          <6>2. Idle.pc = "idle" /\ OnChild(task[t]).next = "child"
            BY <1>2, Records, OnChildRecord
          <6> QED BY <5>1, <6>1, <6>2
        <5> QED BY <3>2, <3>3, <5>1, <5>2, Zenon
          DEF Attends, HasRead, Informed, Onward, Advancing, Reads
      <4> QED BY <3>1, <4>1, <4>2
    <3>5. \A u \in Task : Attends(u)'
      BY <3>2, <3>4, AttendsStays DEF Waits
    <3>6. ASSUME NEW c \in Due' PROVE commands'[c].state = "absent"
      <4>1. ActiveNow = {} /\ ~Stuck /\ NobodyActivates
        BY <1>1, HolderAlone
      <4>2. c \in Child /\ c[2] > linked[c[1]]
        BY <2>2, <4>1 DEF Due, ActiveNow
      <4>3. ~Present(c)
        BY <4>1, <4>2 DEF Turns, Versions, Chooses, NobodyActivates
      <4> QED BY <1>1, <4>3 DEF Present
    <3>7. Unstarted'
      BY <3>6 DEF Unstarted, Ran
    <3> QED BY <3>5, <3>7 DEF Waits
  <2> QED BY <2>3, <2>4
<1> QED BY <1>4, <1>5

(* The command of a mission that waits is given by the worker, which knows *)
(* the mission as it is: the gateway gives no command (NoEcho).            *)
LEMMA CreatesWaits ==
  ASSUME Shape, Turns, Turns', Waits, NEW t \in Task, AdvanceCreates(t)
  PROVE  Waits'
<1>1. PICK c : c = ChosenChild(task[t].snap)
  OBVIOUS
<1>2. /\ commands'[c].state = "queued" /\ c \in Child
      /\ \A d \in Id \ {c} : commands'[d] = commands[d]
  BY <1>1, Creation
<1>3. /\ task[t].pc = "advance" /\ Goes(t, "activate")
      /\ UNCHANGED <<mission, objectives, linked>> /\ MissionOn
      /\ HasRead(task[t]) /\ Holds(t) /\ Attends(t) /\ mission.version \in Nat
  BY ToldVersion DEF AdvanceCreates, AdvanceReady, At, repositoryVars, MissionOn, HasRead, Informed, Onward,
     Holds, Holding, Waits
<1>4. PICK y \in TaskRecord : /\ Becomes(t, y) /\ y.pc = "activate" /\ y.snap = task[t].snap
  BY <1>3, AdvanceGoes
<1>5. task'[t] = y /\ \A u \in Task \ {t} : task'[u] = task[u]
  BY <1>4 DEF Becomes, Shape
<1>6. (Awaiting' <=> Awaiting) /\ Due' = Due /\ (Accomplished' <=> Accomplished)
  BY <1>3 DEF Awaiting, Due, ActiveNow, Accomplished
<1>7. HasRead(y) /\ ~Advancing(y) /\ ~Verifying(y)
  BY <1>4 DEF HasRead, Informed, Advancing, Verifying, Reads
<1>8. Attends(t)'
  BY <1>3, <1>4, <1>5, <1>6, <1>7 DEF Attends
<1>9. \A u \in Task : Attends(u)'
  BY <1>3, <1>5, <1>8, AttendsStays DEF Waits
<1>10. ASSUME Awaiting PROVE Starting'
  <2>1. t \notin Submitter /\ task[t].snap.mission = mission
    BY <1>3, <1>10 DEF Attends
  <2>2. t # "gateway"
    BY <1>4, <1>5 DEF Turns, NoEcho, At
  <2> QED BY <1>3, <1>4, <1>5, <2>1, <2>2, Names DEF Starting, Notifier
<1>11. Unstarted'
  BY <1>2, <1>6, <1>10, Names DEF Waits, Unstarted, Due, Ran
<1> QED BY <1>9, <1>11 DEF Waits

LEMMA ActivatesWaits ==
  ASSUME Shape, Turns, Waits, NEW t \in Task, AdvanceActivates(t)
  PROVE  Waits'
<1>1. PICK o : o = Chosen(task[t].snap)
  OBVIOUS
<1>2. PICK version : version = objectives[o].version
  OBVIOUS
<1>3. PICK c : c = <<o, version + 1>>
  OBVIOUS
<1>4. /\ At(t, "activate") /\ Holds(t) /\ Knows(t) /\ HasRead(task[t]) /\ Attends(t)
      /\ RepositoryTypeOK
  BY DEF AdvanceActivates, At, Holds, Holding, Informed, Turns, HasRead, Waits, Shape, TypeOK
<1>5. /\ o \in Objective /\ o \in PendingNow /\ version \in Nat
      /\ TransitionObjective(o, version, "active", version + 1)
      /\ UNCHANGED <<journalVars, mishaps, pending, usage, restarts>>
  BY <1>1, <1>2, <1>4, Activation
<1>6. PICK y \in TaskRecord : /\ Becomes(t, y)
                              /\ y = Idle \/ (y.pc = "run" /\ y.snap = task[t].snap)
                              /\ task[t].snap.mission.status = "waiting_evidence" => y.pc = "run"
  <2>1. PICK y \in TaskRecord : /\ Becomes(t, y)
                                /\ y = Idle \/ (y.pc = "run" /\ y.snap = task[t].snap)
    BY <1>4, Activation
  <2>2. ASSUME task[t].snap.mission.status = "waiting_evidence" PROVE y.pc = "run"
    <3>1. ObjectiveAdmits(o, version, "active") /\ version = task[t].snap.objectives[o].version
      BY <1>2, <1>4, <1>5 DEF TransitionObjective, Knows, At, Informed
    <3>2. Goes(t, "run")
      BY <1>1, <2>2, <3>1, Zenon DEF AdvanceActivates
    <3>3. task[t] \in TaskRecord /\ "run" \in Pcs
      BY DEF Shape, Pcs
    <3>4. task'[t].pc = "run"
      BY <3>2, <3>3, GoesRecord DEF Goes, Becomes, Shape
    <3> QED BY <2>1, <3>4 DEF Becomes, Shape
  <2> QED BY <2>1, <2>2
<1>7. task'[t] = y /\ \A u \in Task \ {t} : task'[u] = task[u] /\ ~Holds(u)
  BY <1>4, <1>6, HolderAlone DEF Becomes, Shape
<1>8. /\ UNCHANGED <<commands, mission>> /\ linked \in [Objective -> Nat]
      /\ objectives'[o].status = "active" /\ linked'[o] = version + 1
      /\ \A p \in Objective \ {o} : objectives'[p] = objectives[p] /\ linked'[p] = linked[p]
  BY <1>4, <1>5, ObjectiveTyped DEF journalVars, RepositoryTypeOK
<1>9. ~Attending(y) /\ ~Holding(y)
  BY <1>6, Records DEF Attending, HasRead, Advancing, Verifying, Holding, Informed, Onward,
     Rebalancing, Reads
<1>10. Attends(t)'
  BY <1>7, <1>9, AttendsNot
<1>11. ASSUME Starting, Awaiting' PROVE Starting'
  <2>1. Awaiting
    BY <1>8, <1>11 DEF Awaiting
  <2>2. CASE t = "worker"
    <3>1. task[t].snap.mission = mission
      BY <1>4, <2>1 DEF Attends
    <3>2. y.pc = "run"
      BY <1>6, <2>1, <3>1 DEF Awaiting
    <3>3. y.snap = task[t].snap
      BY <1>6, <3>2, Records
    <3> QED BY <1>7, <1>8, <2>2, <3>1, <3>2, <3>3 DEF Starting
  <2>3. CASE t # "worker"
    BY <1>7, <1>8, <1>11, <2>3, Names DEF Starting
  <2> QED BY <2>2, <2>3
<1>12. ASSUME NEW d \in Due', d \notin Due PROVE commands[d].state \notin Ran \union {"queued"}
  <2>1. d \in Child /\ d[1] \in Objective /\ d[2] \in Nat
    BY Names DEF Due
  <2>2. d[1] = o /\ ~(d[2] > linked[o])
    BY <1>5, <1>8, <1>12, <2>1 DEF Due, ActiveNow
  <2>3. d[2] < linked[d[1]] \/ d[2] = linked[d[1]]
    BY <1>5, <1>8, <2>1, <2>2
  <2>4. Present(d) => commands[d].state = "failed"
    BY <1>5, <2>1, <2>2, <2>3 DEF Turns, Versions
  <2> QED BY <2>4 DEF Present, Ran
<1> QED BY <1>6, <1>7, <1>8, <1>10, <1>11, <1>12, WaitsStays

LEMMA AdvancesWaits ==
  ASSUME Shape, Turns, Turns', Waits, NEW t \in Task, Advances(t)
  PROVE  Waits'
<1>1. CASE AdvanceRefused(t)
  <2>1. /\ UNCHANGED <<commands, mission, objectives, linked>> /\ MissionOn /\ Raises(t)
        /\ task[t].pc = "advance" /\ task[t] \in TaskRecord
    BY <1>1 DEF AdvanceRefused, AdvanceReady, At, journalVars, repositoryVars, MissionOn, Shape
  <2>2. PICK y : Becomes(t, y) /\ (y = Idle \/ y = OnChild(task[t]))
    BY <2>1, RaisesTo
  <2>3. ~Attending(y) /\ ~Holding(y)
    BY <2>1, <2>2, Unattending, Records, OnChildRecord
    DEF Holding, Informed, Onward, Rebalancing, Reads
  <2> QED BY <2>1, <2>2, <2>3, WaitsLeft
<1>2. CASE AdvanceRuns(t)
  <2>1. task[t].pc = "run" /\ UNCHANGED commands /\ MissionMoves(t, "running", Returns(t, "running"))
    BY <1>2 DEF AdvanceRuns, At, journalVars
  <2>2. (t \in Submitter => task[t].caller = "submit") /\ ~At(t, "idle")
    BY <2>1, SubmitCalled
  <2> QED BY <2>1, <2>2, WaitsMoved DEF At
<1> QED BY <1>1, <1>2, CreatesNothingWaits, CreatesWaits, ActivatesWaits DEF Advances

LEMMA DueStays ==
  ASSUME UNCHANGED linked, ActiveNow' \subseteq ActiveNow
  PROVE  Due' \subseteq Due
BY DEF Due

LEMMA NotifiesWaits ==
  ASSUME Shape, Turns, Waits, NEW n \in Notifier,
         \/ NotifyLooks(n) \/ NotifySkips(n) \/ NotifyRebalances(n) \/ NotifyTransitions(n)
         \/ RebalanceDeclined(n) \/ PlannerRaises(n) \/ PlannerDeclines(n)
         \/ ChildRefused(n) \/ ChildAnswers(n) \/ AdaptStops(n)
  PROVE  Waits'
<1>1. /\ n \in Task /\ n \notin Submitter /\ task[n] \in TaskRecord
      /\ UNCHANGED <<commands, mission, objectives, linked>> /\ MissionOn
      /\ task[n].pc \notin {"activate", "run"}
  BY Names, CoordinatorAssumption DEF Shape, NotifyLooks, NotifySkips, NotifyRebalances,
     NotifyTransitions, OnlyTask, RebalanceDeclined, PlannerRaises, PlannerDeclines, ChildRefused,
     ChildAnswers, AdaptStops, journalVars, repositoryVars, MissionOn, At
<1>2. PICK x : Becomes(n, x) /\ ~Attending(x)
  <2>1. CASE NotifyLooks(n)
    <3>1. PICK s : s = commands[task[n].child].state
      OBVIOUS
    <3> DEFINE y == [task[n] EXCEPT !.pc = "checks", !.seen = s]
    <3>2. y.pc = "checks"
      BY <1>1 DEF TaskRecord
    <3>3. Becomes(n, Idle) \/ Becomes(n, y)
      BY <2>1, <3>1 DEF NotifyLooks
    <3> HIDE DEF y
    <3>4. ~Attending(y)
      BY <3>2 DEF Attending, HasRead, Advancing, Verifying, Informed, Onward, Reads
    <3> QED BY <1>1, <3>3, <3>4, Unattending
  <2>2. CASE NotifyRebalances(n)
    <3> DEFINE z == [task[n] EXCEPT !.caller = "rebalance"]
    <3>1. z \in TaskRecord
      BY <1>1 DEF TaskRecord
    <3>2. Becomes(n, Reading(z, "rebalance"))
      BY <2>2 DEF NotifyRebalances
    <3> HIDE DEF z
    <3> QED BY <3>1, <3>2, Unattending
  <2>3. CASE NotifySkips(n) \/ NotifyTransitions(n) \/ RebalanceDeclined(n) \/ PlannerRaises(n)
             \/ ChildRefused(n) \/ AdaptStops(n)
    <3>1. Becomes(n, Idle) \/ Becomes(n, OnChild(task[n]))
      BY <2>3 DEF NotifySkips, NotifyTransitions, RebalanceDeclined, PlannerRaises,
         ChildRefused, AdaptStops
    <3> QED BY <1>1, <3>1, Unattending
  <2>4. CASE PlannerDeclines(n) \/ ChildAnswers(n)
    <3>1. \E p \in {"failMission", "settle"} : Becomes(n, [task[n] EXCEPT !.pc = p])
      BY <2>4 DEF PlannerDeclines, ChildAnswers, Goes
    <3> QED BY <1>1, <3>1, Unattending DEF Pcs, Reads, Informed, Onward
  <2> QED BY <2>1, <2>2, <2>3, <2>4
<1> QED BY <1>1, <1>2, WaitsLeft

\* the account and the planner's answer do not count, nor does a mission that ends
LEMMA PaysWaits ==
  ASSUME Shape, Turns, Waits, NEW n \in Notifier,
         \/ RebalanceSettles(n) \/ \E amount \in 1..Limit : PlannerProposes(n, amount)
         \/ RebalanceReserves(n) \/ ChildSettles(n)
         \/ RebalanceFailsMission(n) \/ ChildReplayed(n) \/ ChildEndsMission(n)
  PROVE  Waits'
<1>1. /\ n \in Task /\ n \notin Submitter /\ task[n] \in TaskRecord /\ UNCHANGED commands
      /\ task[n].pc \notin {"activate", "run", "idle"}
  BY Names, CoordinatorAssumption DEF Shape, RebalanceSettles, PlannerProposes, RebalanceReserves,
     ChildSettles, RebalanceFailsMission, ChildReplayed, ChildEndsMission, OnlyTask, OnlyRows,
     journalVars, At
<1>2. ASSUME NEW y, Becomes(n, y), y.pc \in {"failObjective", "saveRetry"} \/ ~Attending(y),
             UNCHANGED <<mission, objectives, linked>>
      PROVE  Waits'
  <2>1. ~Attending(y) /\ MissionOn
    BY <1>2 DEF Attending, HasRead, Advancing, Verifying, Informed, Onward, Reads, MissionOn
  <2> QED BY <1>1, <1>2, <2>1, WaitsLeft
<1>3. CASE RebalanceSettles(n)
  <2>1. \E y \in TaskRecord : Becomes(n, y) /\ y.pc = "failObjective" /\ \E after : SaveBudget(after)
    BY <1>3, SettledRecord, Zenon
  <2> QED BY <1>2, <2>1 DEF SaveBudget
<1>4. ASSUME NEW amount \in 1..Limit, PlannerProposes(n, amount) PROVE Waits'
  <2>1. \E y \in TaskRecord : Becomes(n, y) /\ y.pc = "saveRetry" /\ OnlyTask
    BY <1>4, ProposedRecord, Zenon
  <2> QED BY <1>2, <2>1 DEF OnlyTask, repositoryVars
<1>5. CASE RebalanceReserves(n) \/ ChildSettles(n)
  <2>1. /\ UNCHANGED <<mission, objectives, linked>>
        /\ Becomes(n, Idle) \/ \E p \in {"replace", "endObjective"} : Becomes(n, [task[n] EXCEPT !.pc = p])
    BY <1>5 DEF RebalanceReserves, ChildSettles, SaveBudget, Goes, repositoryVars
  <2> QED BY <1>1, <1>2, <2>1, Unattending DEF Pcs, Reads, Informed, Onward
<1>6. CASE RebalanceFailsMission(n) \/ ChildReplayed(n) \/ ChildEndsMission(n)
  <2>1. Outcome(n) \in {"completed", "failed", "blocked_unknown"}
    BY DEF Outcome
  <2>2. PICK target \in {"completed", "failed", "blocked_unknown"} :
          MissionMoves(n, target, Returns(n, target))
    BY <1>6, <2>1 DEF RebalanceFailsMission, ChildReplayed, ChildEndsMission
  <2> QED BY <1>1, <2>2, WaitsMoved DEF At
<1> QED BY <1>3, <1>4, <1>5, <1>6

(* The command of an active objective that succeeded is none of a mission  *)
(* that waits.                                                             *)
LEMMA EndsWaits ==
  ASSUME Shape, Turns, Waits, NEW n \in Notifier, RebalanceFailsObjective(n) \/ ChildEndsObjective(n)
  PROVE  Waits'
<1>1. /\ n \in Task /\ n \notin Submitter /\ task[n] \in TaskRecord /\ UNCHANGED commands
      /\ Committed(n) /\ task[n].pc \in {"failObjective", "endObjective"} /\ ~At(n, "idle")
  BY Names, CoordinatorAssumption DEF Shape, RebalanceFailsObjective, ChildEndsObjective, OnlyRows,
     journalVars, At, Committed
<1>2. PICK o : o = ObjectiveOf(n)
  OBVIOUS
<1>3. CASE UNCHANGED repositoryVars /\ (Becomes(n, OnChild(task[n])) \/ Becomes(n, Idle))
  <2>1. MissionOn /\ UNCHANGED <<objectives, linked>>
    BY <1>3 DEF repositoryVars, MissionOn
  <2> QED BY <1>1, <1>3, <2>1, Unattending, WaitsLeft
<1>4. ASSUME NEW target \in {"completed", "failed", "blocked_unknown"},
             ObjectiveAdmits(o, VersionRead(n), target),
             TransitionObjective(o, VersionRead(n), target, task[n].child[2]),
             NEW y, Becomes(n, y), Attends(n)'
      PROVE  Waits'
  <2>1. NoHolder /\ ActiveNow' = {} /\ UNCHANGED <<linked, mission>>
    BY <1>1, <1>2, <1>4, ActiveEnds DEF TransitionObjective
  <2>2. Due' \subseteq Due
    BY <2>1, DueStays
  <2> QED BY <1>1, <1>4, <2>1, <2>2, WaitsStays DEF NoHolder
<1>5. ASSUME NEW target \in {"failed", "blocked_unknown"},
             ObjectiveAdmits(o, VersionRead(n), target),
             TransitionObjective(o, VersionRead(n), target, task[n].child[2]),
             NEW p \in {"planner", "endMission"}, Goes(n, p)
      PROVE  Waits'
  <2>1. ~Attending([task[n] EXCEPT !.pc = p])
    BY <1>1, Unattending DEF Pcs, Reads, Informed, Onward
  <2>2. Attends(n)'
    BY <1>1, <1>5, <2>1, AttendsNot DEF Goes, Becomes, Shape
  <2> QED BY <1>4, <1>5, <2>2 DEF Goes
<1>6. CASE RebalanceFailsObjective(n)
  <2>1. CASE ObjectiveAdmits(o, VersionRead(n), "failed")
    BY <1>2, <1>5, <1>6, <2>1 DEF RebalanceFailsObjective
  <2>2. CASE ~ObjectiveAdmits(o, VersionRead(n), "failed")
    BY <1>2, <1>3, <1>6, <2>2 DEF RebalanceFailsObjective
  <2> QED BY <2>1, <2>2
<1>7. CASE ChildEndsObjective(n)
  <2>1. PICK target \in {"completed", "failed", "blocked_unknown"} : target = Outcome(n)
    BY DEF Outcome
  <2>2. CASE ~ObjectiveAdmits(o, VersionRead(n), target)
    BY <1>2, <1>3, <1>7, <2>1, <2>2 DEF ChildEndsObjective
  <2>3. CASE ObjectiveAdmits(o, VersionRead(n), target) /\ target # "completed"
    BY <1>2, <1>5, <1>7, <2>1, <2>3 DEF ChildEndsObjective
  <2>4. CASE ObjectiveAdmits(o, VersionRead(n), target) /\ target = "completed"
    <3>1. /\ TransitionObjective(o, VersionRead(n), target, task[n].child[2])
          /\ Becomes(n, Reading(task[n], "advance"))
      BY <1>2, <1>7, <2>1, <2>4 DEF ChildEndsObjective, Calls
    <3>2. task[n].seen = "succeeded"
      BY <2>1, <2>4 DEF Outcome, Verification
    <3>3. commands[task[n].child].state = "succeeded" /\ task[n].child \in Child
      BY <1>1, <3>2, AboutChild, StateMembers DEF NotifierFits, Settled, RunEnds, Unlooked
    <3>4. o \in ActiveNow /\ UNCHANGED mission
      BY <1>1, <1>2, <2>4, <3>1, ActiveEnds DEF TransitionObjective
    <3>5. ~Awaiting
      BY <1>2, <3>3, <3>4 DEF Waits, Unstarted, Due, Ran, ObjectiveOf
    <3>6. Reading(task[n], "advance").pc = "mission" /\ Reading(task[n], "advance").next = "advance"
      BY <1>1, ReadingRecord DEF Procedures
    <3>7. Attends(n)'
      BY <1>1, <3>1, <3>4, <3>5, <3>6 DEF Attends, Awaiting, HasRead, Informed, Onward, Becomes, Shape
    <3> QED BY <1>4, <2>4, <3>1, <3>7
  <2> QED BY <2>2, <2>3, <2>4
<1> QED BY <1>6, <1>7

(* An objective that a rebalance puts back, or that is appended, is        *)
(* pending without a command of its new version.                           *)
LEMMA PlansWaits ==
  ASSUME Shape, Turns, Waits, NEW n \in Notifier, RebalanceReplaces(n) \/ RebalanceRearms(n)
  PROVE  Waits'
<1>1. /\ n \in Task /\ n \notin Submitter /\ task[n] \in TaskRecord /\ UNCHANGED commands
      /\ task[n].pc \in {"replace", "rearm"} /\ Holds(n) /\ ~At(n, "idle") /\ RepositoryTypeOK
  BY Names, CoordinatorAssumption DEF Shape, RebalanceReplaces, RebalanceRearms, OnlyRows,
     journalVars, At, Holds, Holding, Rebalancing, TypeOK
<1>2. PICK o : o = ObjectiveOf(n)
  OBVIOUS
<1>3. /\ o \in Objective /\ task[n].caller = "rebalance"
      /\ ActiveNow = {} /\ \A u \in Task \ {n} : ~Holds(u)
  BY <1>1, <1>2, AboutChild, HolderAlone DEF Called, ByRebalance, Rebalancing
<1>4. CASE UNCHANGED repositoryVars /\ Becomes(n, OnChild(task[n]))
  <2>1. MissionOn /\ UNCHANGED <<objectives, linked>>
    BY <1>4 DEF repositoryVars, MissionOn
  <2> QED BY <1>1, <1>4, <2>1, Unattending, WaitsLeft
<1>5. ASSUME objectives'[o].status # "active", UNCHANGED <<mission, linked>>,
             \A p \in Objective \ {o} : objectives'[p] = objectives[p],
             NEW y, Becomes(n, y), Attends(n)'
      PROVE  Waits'
  <2>1. ActiveNow' \subseteq ActiveNow
    BY <1>3, <1>5 DEF ActiveNow
  <2>2. Due' \subseteq Due
    BY <1>5, <2>1, DueStays
  <2> QED BY <1>1, <1>3, <1>5, <2>2, WaitsStays
<1>6. CASE RebalanceReplaces(n)
  <2>1. CASE ~MayRetry(o, VersionRead(n) + 1)
    BY <1>2, <1>4, <1>6, <2>1 DEF RebalanceReplaces
  <2>2. CASE MayRetry(o, VersionRead(n) + 1)
    <3>1. /\ ReplaceObjectiveBudget(o, VersionRead(n) + 1, task[n].account.reserved[o])
          /\ Becomes(n, [task[n] EXCEPT !.pc = "rearm"])
      BY <1>2, <1>6, <2>2 DEF RebalanceReplaces, Goes
    <3>2. /\ objectives'[o].status = objectives[o].status /\ objectives[o].status = "failed"
          /\ \A p \in Objective \ {o} : objectives'[p] = objectives[p]
          /\ UNCHANGED <<mission, linked>>
      BY <1>1, <1>3, <3>1 DEF ReplaceObjectiveBudget, MayRetry, RepositoryTypeOK
    <3>3. Attends(n)'
      BY <1>1, <3>1, Unattending, AttendsNot DEF Becomes, Shape, Pcs, Reads, Informed, Onward
    <3> QED BY <1>5, <3>1, <3>2, <3>3
  <2> QED BY <2>1, <2>2
<1>7. CASE RebalanceRearms(n)
  <2>1. CASE ~MayRetry(o, VersionRead(n) + 2)
    BY <1>2, <1>4, <1>7, <2>1 DEF RebalanceRearms
  <2>2. CASE MayRetry(o, VersionRead(n) + 2)
    <3>1. RearmObjective(o, VersionRead(n) + 2) /\ Becomes(n, Reading(task[n], "advance"))
      BY <1>2, <1>7, <2>2 DEF RebalanceRearms, Calls
    <3>2. /\ objectives'[o].status = "pending" /\ UNCHANGED <<mission, linked>>
          /\ \A p \in Objective \ {o} : objectives'[p] = objectives[p]
      BY <1>1, <1>3, <3>1, RearmTyped
    <3>3. /\ Reading(task[n], "advance").pc = "mission" /\ Reading(task[n], "advance").next = "advance"
          /\ Reading(task[n], "advance").caller = "rebalance"
      BY <1>1, <1>3, ReadingRecord DEF Procedures
    <3>4. Attends(n)'
      BY <1>1, <3>1, <3>3
      DEF Attends, HasRead, Advancing, Verifying, Informed, Onward, Becomes, Shape, Holds
    <3> QED BY <1>5, <3>1, <3>2, <3>4
  <2> QED BY <2>1, <2>2
<1> QED BY <1>6, <1>7

LEMMA AdaptsWaits ==
  ASSUME Shape, Turns, Waits, NEW n \in Notifier, AdaptDecides(n) \/ VerifyCompletes(n)
  PROVE  Waits'
<1>1. /\ n \in Task /\ n \notin Submitter /\ task[n] \in TaskRecord /\ Attends(n)
      /\ UNCHANGED <<commands, objectives, linked>> /\ task[n].pc \in {"adapt", "verify"}
  BY Names, CoordinatorAssumption DEF Shape, AdaptDecides, VerifyCompletes, OnlyTask, OnlyRows,
     journalVars, repositoryVars, TransitionMission, At, Waits
<1>2. CASE AdaptDecides(n)
  <2>1. UNCHANGED mission /\ \E p \in {"verify", "explore"} : Becomes(n, Reading(task[n], p))
    BY <1>2 DEF AdaptDecides, Calls, OnlyTask, repositoryVars
  <2>2. PICK p \in {"verify", "explore"} : Becomes(n, Reading(task[n], p))
    BY <2>1
  <2>3. Reading(task[n], p).pc = "mission" /\ Reading(task[n], p).next = p
    BY <1>1, ReadingRecord DEF Procedures
  <2>4. task'[n] = Reading(task[n], p) /\ MissionOn
    BY <1>1, <2>1, <2>2 DEF Becomes, Shape, MissionOn
  <2>5. (Awaiting' <=> Awaiting) /\ (Accomplished' <=> Accomplished) /\ Verifying(task[n])
    BY <1>1, <2>1 DEF Awaiting, Accomplished, Verifying
  <2>6. ~HasRead(task'[n]) /\ ~Advancing(task'[n])
    BY <2>3, <2>4 DEF HasRead, Advancing, Informed, Onward
  <2>7. Attends(n)'
    BY <1>1, <2>5, <2>6, Zenon DEF Attends
  <2> QED BY <1>1, <2>2, <2>4, <2>7, WaitsOn
<1>3. CASE VerifyCompletes(n)
  <2>1. PICK version : version = task[n].snap.mission.version
    OBVIOUS
  <2>2. Becomes(n, Idle) /\ (UNCHANGED mission \/ TransitionMission(version, "completed"))
    BY <1>3, <2>1 DEF VerifyCompletes, repositoryVars
  <2>3. MissionOn
    BY <2>2, MissionGoesOn DEF MissionOn
  <2> QED BY <1>1, <2>2, <2>3, Unattending, WaitsLeft
<1> QED BY <1>2, <1>3

(* What verification relies on: the mission it moves is the one it read,   *)
(* and whatever was appended is completed.                                 *)
LEMMA Verified ==
  ASSUME Shape, Turns, Waits, NEW n \in Notifier, VerifyCompletes(n),
         MissionAdmits(task[n].snap.mission.version, "completed")
  PROVE  Accomplished
<1>1. n \in Task /\ Attends(n) /\ At(n, "verify") /\ task[n].snap.mission.status = "waiting_evidence"
  BY Names DEF Waits, VerifyCompletes
<1>2. HasRead(task[n]) /\ Verifying(task[n])
  BY <1>1 DEF HasRead, Verifying, Informed, Onward, At
<1>3. task[n].snap.mission = mission
  BY <1>1, <1>2 DEF Attends, MissionAdmits
<1> QED BY <1>1, <1>2, <1>3 DEF Attends, Awaiting

LEMMA ExploresWaits ==
  ASSUME Shape, Turns, Waits, NEW n \in Notifier,
         ExploreProposes(n) \/ ExploreFunds(n) \/ ExploreAppends(n)
  PROVE  Waits'
<1>1. /\ n \in Task /\ n \notin Submitter /\ task[n] \in TaskRecord /\ Attends(n)
      /\ UNCHANGED commands /\ task[n].pc \in {"explore", "fundProposal", "append"}
      /\ Holds(n) /\ ~At(n, "activate") /\ ~At(n, "idle") /\ HasRead(task[n]) /\ Knows(n)
      /\ RepositoryTypeOK
  BY Names, CoordinatorAssumption DEF Shape, ExploreProposes, ExploreFunds, ExploreAppends, OnlyRows,
     journalVars, At, Waits, Holds, Holding, Informed, Onward, HasRead, Turns, TypeOK
<1>2. ASSUME NEW p \in {"fundProposal", "append"}, Goes(n, p), UNCHANGED <<mission, objectives, linked>>
      PROVE  Waits'
  <2>1. task'[n].pc = p /\ task'[n].snap = task[n].snap
    BY <1>1, <1>2, GoesRecord DEF Goes, Becomes, Shape, Pcs
  <2>2. ~Advancing(task'[n]) /\ ~Verifying(task'[n]) /\ MissionOn /\ (Awaiting' <=> Awaiting)
    BY <1>2, <2>1 DEF Advancing, Verifying, Reads, MissionOn, Awaiting
  <2>3. Attends(n)'
    BY <1>1, <1>2, <2>1, <2>2 DEF Attends
  <2> QED BY <1>1, <1>2, <2>2, <2>3, WaitsOn DEF Goes
<1>3. ASSUME Becomes(n, Idle), UNCHANGED <<mission, objectives, linked>> PROVE Waits'
  <2>1. MissionOn
    BY <1>3 DEF MissionOn
  <2> QED BY <1>1, <1>3, <2>1, Unattending, WaitsLeft
<1>4. CASE ExploreProposes(n)
  <2>1. UNCHANGED <<mission, objectives, linked>> /\ Goes(n, "fundProposal")
    BY <1>4 DEF ExploreProposes, SaveProposal, repositoryVars
  <2> QED BY <1>2, <2>1
<1>5. CASE ExploreFunds(n)
  <2>1. UNCHANGED <<mission, objectives, linked>> /\ (Goes(n, "append") \/ Becomes(n, Idle))
    BY <1>5 DEF ExploreFunds, SaveBudget
  <2> QED BY <1>2, <1>3, <2>1
<1>6. CASE ExploreAppends(n)
  <2>1. PICK o : o = Proposed(n)
    OBVIOUS
  <2>2. CASE objectives[o].status # "absent"
    BY <1>3, <1>6, <2>1, <2>2 DEF ExploreAppends, repositoryVars
  <2>3. CASE objectives[o].status = "absent"
    <3> DEFINE z == [task[n] EXCEPT !.caller = "explore"]
    <3>1. AppendObjective(o) /\ Becomes(n, Reading(z, "advance"))
      BY <1>6, <2>1, <2>3 DEF ExploreAppends
    <3>2. z \in TaskRecord /\ z.caller = "explore"
      BY <1>1 DEF TaskRecord
    <3> HIDE DEF z
    <3>3. /\ Reading(z, "advance").pc = "mission" /\ Reading(z, "advance").next = "advance"
          /\ Reading(z, "advance").caller = "explore"
      BY <3>2, ReadingRecord DEF Procedures
    <3>4. o \in Objective
      <4>1. Unproposed(task[n].snap) # {} /\ task[n].snap \in SnapRecord
        BY <1>1, <1>6, AboutChild DEF Knows, ExploreAppends, At
      <4> QED BY <2>1, <4>1, UnproposedChosen DEF Proposed
    <3>5. /\ objectives'[o].status = "pending" /\ UNCHANGED <<mission, linked>>
          /\ \A p \in Objective \ {o} : objectives'[p] = objectives[p]
      BY <1>1, <3>1, <3>4, AppendTyped
    <3>6. ActiveNow' \subseteq ActiveNow
      BY <3>5 DEF ActiveNow
    <3>7. Due' \subseteq Due /\ \A u \in Task \ {n} : ~Holds(u)
      BY <1>1, <3>5, <3>6, DueStays, HolderAlone
    <3>8. Attends(n)'
      BY <1>1, <3>1, <3>3
      DEF Attends, HasRead, Advancing, Verifying, Informed, Onward, Becomes, Shape, Holds
    <3> QED BY <1>1, <3>1, <3>5, <3>7, <3>8, WaitsStays DEF At
  <2> QED BY <2>2, <2>3
<1> QED BY <1>4, <1>5, <1>6

LEMMA SubmitsWaits ==
  ASSUME Shape, Turns, Waits, NEW s \in Submitter,
         SubmitCreates(s) \/ SubmitFunds(s) \/ SubmitPlans(s) \/ SubmitCut(s)
  PROVE  Waits'
<1>1. s \in Task /\ task[s] \in TaskRecord /\ UNCHANGED commands /\ s # "worker" /\ Attends(s)
  BY Names DEF Shape, SubmitCreates, SubmitFunds, SubmitPlans, SubmitCut, OnlyRows, journalVars, Waits
<1>2. ASSUME Starting PROVE Starting' \/ ~UNCHANGED mission \/ ~\E y : Becomes(s, y)
  BY <1>1, <1>2, Names DEF Starting, Becomes, Shape
<1>3. CASE SubmitFunds(s)
  <2>1. /\ UNCHANGED <<mission, objectives, linked>> /\ Goes(s, "plan") /\ Holds(s)
        /\ task[s].pc \notin {"activate", "run"}
    BY <1>3 DEF SubmitFunds, SaveBudget, Holds, Holding, At
  <2>2. task'[s] = [task[s] EXCEPT !.pc = "plan"] /\ ~Attending([task[s] EXCEPT !.pc = "plan"])
    BY <1>1, <2>1, Unattending DEF Goes, Becomes, Shape, Pcs, Reads, Informed, Onward
  <2>3. ~Awaiting' /\ MissionOn
    BY <1>1, <2>1 DEF Attends, Awaiting, MissionOn
  <2>4. Attends(s)'
    BY <2>2, <2>3, AttendsNot
  <2> QED BY <1>1, <2>1, <2>3, <2>4, WaitsOn DEF Goes
<1>4. CASE SubmitPlans(s)
  <2> DEFINE z == [task[s] EXCEPT !.caller = "submit"]
  <2>1. TransitionMission(0, "planning") /\ Becomes(s, Reading(z, "advance"))
    BY <1>4 DEF SubmitPlans
  <2>2. MissionOn /\ ~Awaiting' /\ UNCHANGED <<objectives, linked>>
    BY <2>1, MissionGoesOn DEF Awaiting
  <2>3. z \in TaskRecord
    BY <1>1 DEF TaskRecord
  <2> HIDE DEF z
  <2>4. Reading(z, "advance").pc = "mission" /\ task'[s] = Reading(z, "advance")
    BY <1>1, <2>1, <2>3, ReadingRecord DEF Procedures, Becomes, Shape
  <2>5. Attends(s)'
    BY <2>2, <2>4 DEF Attends, HasRead, Informed, Onward
  <2> QED BY <1>1, <2>1, <2>2, <2>5, WaitsOn
<1>5. CASE SubmitCut(s)
  <2>1. Becomes(s, Idle) /\ UNCHANGED <<mission, objectives, linked>> /\ MissionOn
    BY <1>5 DEF SubmitCut, repositoryVars, MissionOn
  <2>2. ~Attending(Idle) /\ ~Holding(Idle) /\ task'[s] = Idle
    BY <1>1, <2>1, Unattending, Records DEF Holding, Informed, Onward, Rebalancing, Reads, Becomes, Shape
  <2>3. Attends(s)'
    BY <2>2, AttendsNot
  <2> QED BY <1>1, <1>2, <2>1, <2>3, WaitsOn
<1>6. CASE SubmitCreates(s)
  <2>1. /\ CreateMission /\ Becomes(s, [task[s] EXCEPT !.pc = "fund"]) /\ mission.status = "absent"
        /\ mission'.status = "accepted" /\ UNCHANGED linked
    BY <1>6 DEF SubmitCreates, Goes, CreateMission
  <2>2. NoHolder /\ ~Awaiting'
    BY <2>1 DEF Turns, NotYet, Awaiting
  <2>3. \A u \in Task : Attends(u)'
    <3>1. ~Attending([task[s] EXCEPT !.pc = "fund"])
      BY <1>1, Unattending DEF Pcs, Reads, Informed, Onward
    <3>2. task'[s] = [task[s] EXCEPT !.pc = "fund"] /\ \A u \in Task \ {s} : task'[u] = task[u]
      BY <1>1, <2>1 DEF Becomes, Shape
    <3>3. Attends(s)'
      BY <2>2, <3>1, <3>2, AttendsNot
    <3> QED BY <2>2, <3>2, <3>3, AttendsStays DEF NoHolder, Waits
  <2>4. Unstarted'
    BY <2>2 DEF Unstarted
  <2> QED BY <2>3, <2>4 DEF Waits
<1> QED BY <1>3, <1>4, <1>5, <1>6

(* The journal's own steps, and a restart.                                 *)
Unheeding(x) == ~Attending(x) /\ ~Holding(x)

LEMMA Unheeded ==
  ASSUME NEW x, x.pc \in Unlooked \union {"idle", "looks"}
  PROVE  Unheeding(x)
BY DEF Unheeding, Attending, HasRead, Advancing, Verifying, Holding, Informed, Onward,
   Rebalancing, Reads, Unlooked

LEMMA WorldWaits ==
  ASSUME Shape, Waits, UNCHANGED repositoryVars,
         \A u \in Task : task'[u] = task[u] \/ Unheeding(task'[u]),
         \A c \in Child :
            \/ commands'[c].state \notin Ran \union {"queued"}
            \/ commands[c].state \in Ran
            \/ commands[c].state = "queued" /\ ~Starting
            \/ /\ commands'[c].state = commands[c].state
               /\ commands[c].state = "queued" /\ Starting => Starting'
  PROVE  Waits'
<1>1. UNCHANGED <<mission, objectives, linked>>
  BY DEF repositoryVars
<1>2. Due' = Due /\ Due \subseteq Child /\ (Awaiting' <=> Awaiting)
  BY <1>1 DEF Due, ActiveNow, Awaiting
<1>3. Unstarted'
  <2> SUFFICES ASSUME Awaiting, NEW c \in Due
               PROVE  /\ commands'[c].state \notin Ran
                      /\ commands'[c].state = "queued" => Starting'
    BY <1>2 DEF Unstarted
  <2>1. /\ commands[c].state \notin Ran /\ c \in Child
        /\ commands[c].state = "queued" => Starting
    BY <1>2 DEF Waits, Unstarted
  <2> QED BY <2>1
<1>4. ASSUME NEW u \in Task PROVE Attends(u)'
  <2>1. CASE task'[u] = task[u]
    BY <1>1, <2>1, AttendsStays DEF Waits, MissionOn
  <2>2. CASE Unheeding(task'[u])
    BY <2>2, AttendsNot DEF Unheeding
  <2> QED BY <2>1, <2>2
<1> QED BY <1>3, <1>4 DEF Waits

LEMMA OutsideWaits ==
  ASSUME Shape, Turns, Waits,
         \/ \E c \in Id : WorkerExpires(c) \/ WorkerStarts(c)
         \/ \E outcome \in WorkerOutcomes, actual \in Usage : WorkerEnds(outcome, actual)
         \/ GatewayWaits \/ GatewayReconciles \/ GatewayCancels \/ GatewayNotifies
         \/ \E outcome \in WorkerOutcomes : GatewaySettles(outcome)
         \/ \E s \in Stop, target \in Child \union {NoId} : GatewayStops(s, target)
         \/ \E c \in Child : GatewayTerminates(c) \/ ClockAdvances(c)
         \/ Restart
  PROVE  Waits'
<1>1. /\ UNCHANGED repositoryVars /\ JournalTypeOK /\ task \in [Task -> TaskRecord]
      /\ Child \subseteq Id /\ "worker" \in Task /\ "gateway" \in Task
      /\ "reconciling" \in Ran /\ "running" \in Ran
  BY Names DEF WorkerExpires, WorkerStarts, WorkerEnds, Rows, GatewayWaits, GatewayReconciles,
     GatewayCancels, GatewayNotifies, GatewaySettles, GatewayStops, GatewayTerminates,
     ClockAdvances, Restart, GatewayMoves, Shape, TypeOK, Ran
<1>2. ASSUME NEW y, Becomes("gateway", y), y.pc \in Unlooked \union {"idle", "looks"}
      PROVE  /\ \A u \in Task : task'[u] = task[u] \/ Unheeding(task'[u])
             /\ Starting => Starting'
  <2>1. task' = [task EXCEPT !["gateway"] = y]
    BY <1>2 DEF Becomes
  <2>2. task'["worker"] = task["worker"] /\ mission' = mission
    BY <1>1, <2>1 DEF repositoryVars
  <2>3. Unheeding(y)
    BY <1>2, Unheeded
  <2> QED BY <1>1, <2>1, <2>2, <2>3 DEF Starting
<1>3. ASSUME NEW c \in Id, NEW target, Transition(c, commands[c].version, target),
             NEW y, Becomes("gateway", y), y.pc \in Unlooked \union {"idle", "looks"},
             commands[c].state \in Ran \/ target \notin Ran \union {"queued"}
      PROVE  Waits'
  <2>1. commands'[c].state = target /\ \A d \in Id \ {c} : commands'[d] = commands[d]
    BY <1>1, <1>3, TransitionAged
  <2> QED BY <1>1, <1>2, <1>3, <2>1, WorldWaits
<1>4. ASSUME NEW y, Becomes("gateway", y), y.pc \in Unlooked \union {"idle", "looks"},
             UNCHANGED commands
      PROVE  Waits'
  BY <1>1, <1>2, <1>4, WorldWaits
<1>5. ASSUME NEW p \in {"runs", "waits", "terminates", "looks"}, NEW c
      PROVE  [Idle EXCEPT !.pc = p, !.child = c].pc \in Unlooked \union {"looks"}
  BY DEF Idle, Unlooked
<1>6. ASSUME NEW p \in {"reconciles", "looks"}
      PROVE  \A u \in Task : [task[u] EXCEPT !.pc = p].pc \in Unlooked \union {"looks"}
  BY <1>1, GoesRecord DEF Unlooked, Pcs
<1>7. Idle.pc = "idle"
  BY DEF Idle
<1>8. CASE \E c \in Id : WorkerExpires(c)
  <2>1. PICK c \in Id : WorkerExpires(c)
    BY <1>8
  <2>2. /\ At("worker", "idle") /\ commands[c].state = "queued" /\ UNCHANGED task
        /\ Transition(c, commands[c].version, "failed")
    BY <2>1 DEF WorkerExpires, Queued
  <2>3. commands'[c].state = "failed" /\ \A d \in Id \ {c} : commands'[d] = commands[d]
    BY <1>1, <2>2, TransitionAged
  <2>4. ~Starting
    BY <2>2 DEF Starting, At
  <2> QED BY <1>1, <2>2, <2>3, <2>4, WorldWaits
<1>9. CASE \/ \E c \in Id : WorkerStarts(c)
           \/ \E outcome \in WorkerOutcomes, actual \in Usage : WorkerEnds(outcome, actual)
  <2>1. PICK c, y, target : /\ c \in Id /\ Transition(c, commands[c].version, target)
                            /\ Becomes("worker", y) /\ y.pc \in {"runs", "looks"}
                            /\ At("worker", "idle") \/ At("worker", "runs")
                            /\ commands[c].state \in {"queued", "running"}
    <3>1. ASSUME NEW c \in Id, WorkerStarts(c)
          PROVE  /\ commands[c].state = "queued" /\ At("worker", "idle")
                 /\ Transition(c, commands[c].version, "running")
                 /\ Becomes("worker", [Idle EXCEPT !.pc = "runs", !.child = c])
      BY <3>1 DEF WorkerStarts, Eligible, Queued
    <3>2. ASSUME NEW c PROVE [Idle EXCEPT !.pc = "runs", !.child = c].pc = "runs"
      BY DEF Idle
    <3>3. ASSUME NEW outcome \in WorkerOutcomes, NEW actual \in Usage, WorkerEnds(outcome, actual)
          PROVE  /\ At("worker", "runs") /\ Becomes("worker", [task["worker"] EXCEPT !.pc = "looks"])
                 /\ Transition(task["worker"].child, commands[task["worker"].child].version, outcome)
      BY <3>3 DEF WorkerEnds, Goes
    <3>4. [task["worker"] EXCEPT !.pc = "looks"].pc = "looks"
      BY <1>1, GoesRecord DEF Pcs
    <3>5. At("worker", "runs") => task["worker"].child \in Id /\ commands[task["worker"].child].state = "running"
      BY <1>1, Names, AboutChild DEF Shape, Owned, At, Notifier
    <3> HIDE DEF Becomes
    <3> QED BY <1>9, <3>1, <3>2, <3>3, <3>4, <3>5
  <2>2. task' = [task EXCEPT !["worker"] = y] /\ Unheeding(y)
    BY <2>1, Unheeded DEF Becomes, Unlooked
  <2>3. ~Starting
    BY <2>1 DEF Starting, At
  <2>4. \A d \in Id \ {c} : commands'[d] = commands[d]
    BY <1>1, <2>1, TransitionAged
  <2>5. \A u \in Task : task'[u] = task[u] \/ Unheeding(task'[u])
    BY <1>1, <2>2
  <2> QED BY <1>1, <2>1, <2>3, <2>4, <2>5, WorldWaits
<1>10. CASE GatewayWaits \/ GatewayNotifies
  BY <1>4, <1>5, <1>7, <1>10 DEF GatewayWaits, GatewayNotifies, journalVars
<1>11. CASE GatewayReconciles \/ \E c \in Child : GatewayTerminates(c)
  <2>1. PICK c, y : /\ Transition(c, commands[c].version, "reconciling")
                    /\ commands[c].state = "blocked_unknown"
                    /\ Becomes("gateway", y) /\ y.pc \in Unlooked \union {"looks"}
                    /\ c \in Id
    <3>1. CASE GatewayReconciles
      <4>1. task["gateway"].child \in Id
        BY <1>1, <3>1, Names, AboutChild DEF GatewayReconciles, At, Notifier
      <4>2. Becomes("gateway", [task["gateway"] EXCEPT !.pc = "reconciles"])
        BY <3>1 DEF GatewayReconciles, Goes
      <4> QED BY <1>1, <1>6, <3>1, <4>1, <4>2 DEF GatewayReconciles
    <3>2. CASE \E c \in Child : GatewayTerminates(c)
      BY <1>1, <1>5, <3>2 DEF GatewayTerminates
    <3> QED BY <1>11, <3>1, <3>2
  <2> QED BY <1>3, <2>1 DEF Ran
<1>12. CASE GatewayCancels \/ \E outcome \in WorkerOutcomes : GatewaySettles(outcome)
  <2> DEFINE c == task["gateway"].child
  <2>1. commands[c].state = "reconciling" /\ c \in Id
    <3>1. task["gateway"].pc \in {"terminates", "reconciles"}
      BY <1>12 DEF GatewayCancels, GatewaySettles, At
    <3>2. ~At("gateway", "idle") /\ "gateway" \in Notifier
      BY <3>1 DEF At, Notifier
    <3>3. c \in Child
      BY <3>2, AboutChild
    <3> QED BY <1>1, <3>1, <3>3 DEF Shape, Owned
  <2>2. PICK target, y : /\ Transition(c, commands[c].version, target)
                         /\ Becomes("gateway", y) /\ y.pc \in Unlooked \union {"idle", "looks"}
    <3>1. CASE GatewayCancels
      BY <1>1, <1>6, <3>1 DEF GatewayCancels, Goes
    <3>2. CASE \E outcome \in WorkerOutcomes : GatewaySettles(outcome)
      BY <1>7, <3>2 DEF GatewaySettles
    <3> QED BY <1>12, <3>1, <3>2
  <2> QED BY <1>1, <1>3, <2>1, <2>2
<1>13. CASE \E s \in Stop, target \in Child \union {NoId} : GatewayStops(s, target)
  <2>1. PICK s \in Stop, target \in Child \union {NoId} : GatewayStops(s, target)
    BY <1>13
  <2>2. /\ \A c \in Execute : commands'[c].state =
              IF commands[c].state = "queued" THEN "cancelled_by_stop" ELSE commands[c].state
        /\ Child \subseteq Execute
    BY <1>1, <2>1, StopAged, Names DEF GatewayStops
  <2>3. PICK y : Becomes("gateway", y) /\ y.pc \in Unlooked \union {"idle", "looks"}
    BY <1>5, <1>7, <2>1 DEF GatewayStops
  <2>4. \A c \in Child : \/ commands'[c].state \notin Ran \union {"queued"}
                         \/ commands'[c].state = commands[c].state
    BY <2>2 DEF Ran
  <2> QED BY <1>1, <1>2, <2>3, <2>4, WorldWaits
<1>14. CASE \E c \in Child : ClockAdvances(c)
  <2>1. UNCHANGED <<task, commands, mission>>
    BY <1>1, <1>14 DEF ClockAdvances, DeadlinePasses, memoryVars, repositoryVars
  <2>2. Starting => Starting'
    BY <2>1 DEF Starting
  <2> QED BY <1>1, <2>1, <2>2, WorldWaits
<1>15. CASE Restart
  <2>1. /\ \A c \in Child : \/ commands'[c].state \notin Ran \union {"queued"}
                            \/ commands[c].state \in Ran
                            \/ commands'[c].state = commands[c].state /\ commands[c].state # "queued"
        /\ \A u \in Task : task'[u] = Idle
    BY <1>1, <1>15, RestartAged DEF Ran
  <2> QED BY <1>1, <1>7, <2>1, Unheeded, WorldWaits
<1> QED BY <1>8, <1>9, <1>10, <1>11, <1>12, <1>13, <1>14, <1>15

LEMMA InitWaits ==
  ASSUME Init
  PROVE  Waits
<1>1. ~Awaiting /\ \A t \in Task : task[t] = Idle
  BY DEF Init, RepositoryInit, Awaiting
<1>2. \A t \in Task : ~HasRead(task[t])
  BY <1>1, Records DEF HasRead, Informed, Reads, Onward
<1> QED BY <1>1, <1>2 DEF Waits, Unstarted, Attends

LEMMA WaitsKeeps ==
  ASSUME Shape, Turns, Turns', Waits, [Next]_vars
  PROVE  Waits'
<1>1. ASSUME NEW t \in Task, Snapshots(t) \/ Advances(t) PROVE Waits'
  BY <1>1, ReadsWaits, AdvancesWaits
<1>2. ASSUME NEW n \in Notifier, NotifierStep(n) PROVE Waits'
  <2>1. n \in Task
    BY Names
  <2>2. CASE Snapshots(n) \/ Advances(n)
    BY <1>1, <2>1, <2>2
  <2> QED BY <1>2, <2>2, NotifiesWaits, PaysWaits, EndsWaits, PlansWaits, AdaptsWaits, ExploresWaits
          DEF NotifierStep
<1>3. ASSUME NEW s \in Submitter, SubmitCreates(s) \/ SubmitterStep(s) \/ SubmitCut(s)
      PROVE  Waits'
  BY <1>1, <1>3, Names, SubmitsWaits DEF SubmitterStep
<1>4. CASE \/ WorkerStep \/ GatewayStep
           \/ \E s \in Stop, target \in Child \union {NoId} : GatewayStops(s, target)
           \/ \E c \in Child : GatewayTerminates(c) \/ ClockAdvances(c)
           \/ Restart
  <2>1. "worker" \in Notifier /\ "gateway" \in Notifier
    BY DEF Notifier
  <2>2. CASE NotifierStep("worker") \/ NotifierStep("gateway")
    BY <1>2, <2>1, <2>2
  <2>3. CASE \/ \E c \in Id : WorkerExpires(c) \/ WorkerStarts(c)
             \/ \E outcome \in WorkerOutcomes, actual \in Usage : WorkerEnds(outcome, actual)
             \/ GatewayWaits \/ GatewayReconciles \/ GatewayCancels \/ GatewayNotifies
             \/ \E outcome \in WorkerOutcomes : GatewaySettles(outcome)
             \/ \E s \in Stop, target \in Child \union {NoId} : GatewayStops(s, target)
             \/ \E c \in Child : GatewayTerminates(c) \/ ClockAdvances(c)
             \/ Restart
    BY <2>3, OutsideWaits
  <2> QED BY <1>4, <2>2, <2>3 DEF WorkerStep, GatewayStep
<1>5. CASE UNCHANGED vars
  <2>1. UNCHANGED repositoryVars /\ UNCHANGED <<task, commands, mission>>
    BY <1>5 DEF vars, memoryVars, journalVars, repositoryVars
  <2>2. Starting => Starting'
    BY <2>1 DEF Starting
  <2> QED BY <2>1, <2>2, WorldWaits
<1> QED BY <1>3, <1>4, <1>5 DEF Next

(* While a mission waits for evidence, no command of it runs or succeeds   *)
(* before the mission moves on, nobody who can open an objective has the   *)
(* turn, and whoever is to verify it finds all that was appended completed *)
(* (_advance and verify_completion of MissionCoordinator, after_child of   *)
(* AdaptiveMissionRuntime).                                                *)
THEOREM WaitsAreKept == Spec => []Waits
<1>1. Shape /\ Turns /\ Turns' /\ Waits /\ [Next]_vars => Waits'
  BY WaitsKeeps
<1> QED BY <1>1, InitWaits, TurnIsKept, PTL DEF Spec

-----------------------------------------------------------------------------
(* The account.  It is read in snapshots and overwritten without a         *)
(* version.  Only a task that has the turn, or one that follows a command  *)
(* that ended, writes it; and what such a task read of it lacks at most    *)
(* the charge of that command.                                             *)
Used == Total(usage, Child)
Charged(acct) == acct.used = Used
ChargedBut(acct, c) ==
  IF acct.reserved[c[1]] # 0 THEN acct.used + usage[c] = Used ELSE Charged(acct)
Prices(acct, o) == acct.reserved[o] # 0 /\ acct.reserved[o] = objectives[o].budget
Funds(acct) == \A o \in PendingNow : Prices(acct, o)
Solvent(acct) == Remaining(acct) >= 0
SolventTask(x) == Solvent(x.snap.account) /\ Solvent(x.account)

FollowsActive(t) ==
  /\ At(t, "objectives") /\ ReadsChild(t) /\ OnRow(t) /\ ObjectiveOf(t) \in ActiveNow

Sound(t) ==
  /\ Exploring(t) => /\ Charged(task[t].snap.account)
                     /\ accepting => Funds(task[t].snap.account)
  /\ task[t].pc \in {"planner", "saveRetry"} => /\ Charged(task[t].account)
                                                /\ accepting => Funds(task[t].account)
  /\ At(t, "saveRetry") => task[t].account.reserved[ObjectiveOf(t)] # 0
  /\ At(t, "replace") /\ accepting =>
       /\ account.reserved[ObjectiveOf(t)] # 0
       /\ account.reserved[ObjectiveOf(t)] = task[t].account.reserved[ObjectiveOf(t)]
  /\ At(t, "rearm") /\ accepting => Prices(account, ObjectiveOf(t))
  /\ At(t, "append") /\ accepting => account.reserved[Proposed(t)] = Cost[Proposed(t)]
  /\ FollowsActive(t) => /\ ChargedBut(task[t].snap.account, task[t].child)
                         /\ Funds(task[t].snap.account)
  /\ task[t].pc \in {"child", "rebalance", "settle"} /\ Committed(t) =>
       /\ ChargedBut(task[t].snap.account, task[t].child)
       /\ ActiveNow # {} => Funds(task[t].snap.account)
  /\ At(t, "failObjective") => /\ Charged(task[t].account)
                               /\ ActiveNow # {} => Funds(task[t].account)
  /\ task[t].pc \in {"endObjective", "failObjective"} => Charged(account)
  /\ At(t, "endMission") => Outcome(t) # "completed"

Listed == \A o \in Objective : objectives[o].status = "absent" => objectives[o].budget = Cost[o]
Unused == \A c \in Child : commands[c].state \in Unended => usage[c] = 0
Backed == \A o \in Objective : objectives[o].status = "completed" =>
            \E c \in Child : c[1] = o /\ commands[c].state = "succeeded"
Solvency == Solvent(account) /\ \A t \in Task : SolventTask(task[t])

(* What the account says depends on who has the turn.                      *)
ActiveCharged ==
  \A o \in ActiveNow : /\ ChargedBut(account, Linked(o))
                       /\ Linked(o) \in Open => Prices(account, o)
HolderCharged == \A t \in Task : Holds(t) /\ ~At(t, "activate") => Charged(account)
ActivatingCharged ==
  \A t \in Task : At(t, "activate") => account.used + usage[ChosenChild(task[t].snap)] = Used
Funded ==
  /\ accepting /\ ~NoHolder => Funds(account)
  /\ ActiveNow # {} \/ ~NobodyActivates => Funds(account)
Fresh == mission.status = "absent" \/ \E s \in Submitter : At(s, "fund")
FreshAccount == Fresh => account = InitialAccount
Done == /\ NoHolder /\ Charged(account)
        /\ \A o \in Objective \ Optional : objectives[o].status \in {"absent", "completed"}
DoneCharged == mission.status = "completed" => Done

Books ==
  /\ Listed /\ Unused /\ Backed /\ Solvency /\ account.used <= Used
  /\ ActiveCharged /\ HolderCharged /\ ActivatingCharged /\ Funded
  /\ FreshAccount /\ DoneCharged
  /\ \A t \in Task : Sound(t)

LEMMA UsedTyped ==
  ASSUME Shape
  PROVE  Used \in Nat /\ IsFiniteSet(Child) /\ account \in Account /\ \A c \in Child : usage[c] \in Nat
<1>1. IsFiniteSet(Child) /\ \A c \in Child : usage[c] \in Nat
  BY Names DEF Shape, TypeOK
<1> QED BY <1>1, TotalGrows DEF Used, Shape, TypeOK, RepositoryTypeOK

LEMMA TaskSame ==
  ASSUME NEW u, task'[u] = task[u]
  PROVE  /\ OnRow(u)' <=> OnRow(u)
         /\ Committed(u)' <=> Committed(u)
         /\ StatusRead(u)' = StatusRead(u) /\ VersionRead(u)' = VersionRead(u)
         /\ ObjectiveOf(u)' = ObjectiveOf(u)
         /\ ReadsChild(u)' <=> ReadsChild(u)
         /\ Replayed(u)' <=> Replayed(u)
         /\ Exploring(u)' <=> Exploring(u)
         /\ Holds(u)' <=> Holds(u)
         /\ Proposed(u)' = Proposed(u)
         /\ \A p : At(u, p)' <=> At(u, p)
BY DEF OnRow, Committed, StatusRead, VersionRead, ObjectiveOf, ReadsChild, Replayed, At, Exploring,
       Holds, Proposed

LEMMA UsedSame ==
  ASSUME UNCHANGED usage
  PROVE  /\ Used' = Used
         /\ \A acct : Charged(acct)' <=> Charged(acct)
         /\ \A acct, c : ChargedBut(acct, c)' <=> ChargedBut(acct, c)
BY DEF Used, Charged, ChargedBut

\* where a task relies on what the account says, or on what it read of it
Minded == {"objectives", "explore", "fundProposal", "planner", "saveRetry", "replace", "rearm",
           "append", "failObjective", "child", "rebalance", "settle", "endObjective", "endMission"}

LEMMA SoundNot ==
  ASSUME NEW t, task'[t].pc \notin Minded
  PROVE  Sound(t)'
BY DEF Sound, Minded, Exploring, FollowsActive, At

LEMMA SoundIdle ==
  ASSUME NEW t, ~Holds(t)', ~Committed(t)', ~FollowsActive(t)', ~At(t, "endMission")'
  PROVE  Sound(t)'
BY DEF Sound, Exploring, At, Holds, Holding, Rebalancing, Informed, Onward, Reads, Committed

LEMMA SoundStays ==
  ASSUME NEW t, Sound(t), task'[t] = task[t], UNCHANGED usage,
         ActiveNow' \subseteq ActiveNow, ActiveNow' # {} => PendingNow' = PendingNow,
         Holds(t) => PendingNow' = PendingNow /\ (accepting' => accepting /\ account' = account),
         \A p \in PendingNow : objectives'[p].budget = objectives[p].budget,
         At(t, "rearm") => objectives'[ObjectiveOf(t)].budget = objectives[ObjectiveOf(t)].budget,
         task[t].pc \in {"endObjective", "failObjective"} => Charged(account')
  PROVE  Sound(t)'
<1>1. /\ OnRow(t)' <=> OnRow(t)
      /\ Committed(t)' <=> Committed(t)
      /\ ObjectiveOf(t)' = ObjectiveOf(t)
      /\ ReadsChild(t)' <=> ReadsChild(t)
      /\ Exploring(t)' <=> Exploring(t)
      /\ Holds(t)' <=> Holds(t)
      /\ Proposed(t)' = Proposed(t)
      /\ \A p : At(t, p)' <=> At(t, p)
  BY TaskSame
<1>2. PendingNow' = PendingNow => \A acct : Funds(acct)' <=> Funds(acct)
  BY DEF Funds, Prices
<1>3. /\ Exploring(t) \/ task[t].pc \in {"planner", "saveRetry", "replace", "rearm"} \/ At(t, "append")
           => Holds(t)
  BY DEF Exploring, At, Holds, Holding, Rebalancing, Informed, Onward, Reads
<1>4. FollowsActive(t)' => FollowsActive(t) /\ ActiveNow' # {}
  BY <1>1 DEF FollowsActive
<1>5. ActiveNow' # {} => ActiveNow # {}
  OBVIOUS
<1>6. PICK before, own : before = task[t].snap.account /\ own = task[t].account
  OBVIOUS
<1>7. /\ task'[t].snap.account = before /\ task'[t].account = own /\ task'[t].pc = task[t].pc
      /\ task'[t].child = task[t].child
  BY <1>6
<1>8. /\ Charged(before)' <=> Charged(before)
      /\ Charged(own)' <=> Charged(own)
      /\ ChargedBut(before, task[t].child)' <=> ChargedBut(before, task[t].child)
      /\ Charged(account)' <=> Charged(account')
  BY UsedSame DEF Charged, ChargedBut
<1>9. /\ Exploring(t)' => Charged(before)' /\ (accepting' => Funds(before)')
      /\ task[t].pc \in {"planner", "saveRetry"} => Charged(own)' /\ (accepting' => Funds(own)')
  BY <1>1, <1>2, <1>3, <1>6, <1>8 DEF Sound
<1>10. /\ At(t, "saveRetry")' => own.reserved[ObjectiveOf(t)'] # 0
       /\ At(t, "replace")' /\ accepting' =>
            /\ account'.reserved[ObjectiveOf(t)'] # 0
            /\ account'.reserved[ObjectiveOf(t)'] = own.reserved[ObjectiveOf(t)']
       /\ At(t, "append")' /\ accepting' => account'.reserved[Proposed(t)'] = Cost[Proposed(t)']
  <2>1. /\ At(t, "saveRetry") \/ At(t, "replace") \/ At(t, "append") => Holds(t)
        /\ ObjectiveOf(t)' = ObjectiveOf(t) /\ Proposed(t)' = Proposed(t)
    BY <1>1, <1>3 DEF At
  <2> QED BY <1>1, <1>6, <2>1 DEF Sound
<1>14. At(t, "rearm")' /\ accepting' => Prices(account, ObjectiveOf(t))'
  <2> SUFFICES ASSUME At(t, "rearm"), accepting' PROVE Prices(account, ObjectiveOf(t))'
    BY <1>1
  <2>1. Prices(account, ObjectiveOf(t)) /\ account' = account
    BY <1>3 DEF Sound, At
  <2> QED BY <1>1, <2>1 DEF Prices
<1>11. /\ FollowsActive(t)' => ChargedBut(before, task[t].child)' /\ Funds(before)'
       /\ task[t].pc \in {"child", "rebalance", "settle"} /\ Committed(t)' =>
            ChargedBut(before, task[t].child)' /\ (ActiveNow' # {} => Funds(before)')
       /\ At(t, "failObjective")' => Charged(own)' /\ (ActiveNow' # {} => Funds(own)')
  BY <1>1, <1>2, <1>4, <1>5, <1>6, <1>8 DEF Sound
<1>12. task[t].pc \in {"endObjective", "failObjective"} => Charged(account)'
  BY <1>8 DEF Sound
<1>13. At(t, "endMission")' => Outcome(t)' # "completed"
  BY <1>1 DEF Sound, Outcome
<1> QED BY <1>7, <1>9, <1>10, <1>11, <1>12, <1>13, <1>14 DEF Sound, At, Charged, ChargedBut, Funds, Prices

\* a fresh account fits the limit (_valid_dag_and_budget)
LEMMA InitialSolvent == Solvent(InitialAccount)
<1> DEFINE reserved == InitialAccount.reserved
<1>1. InitialAccount.used = 0 /\ \A o \in Objective : reserved[o] = IF o \in First THEN Cost[o] ELSE 0
  BY DEF InitialAccount
<1>2. First \in SUBSET Objective /\ \A o \in First : Cost[o] \in Int
  BY Names
<1> HIDE DEF reserved
<1>3. Total(reserved, Objective) = Total(Cost, First)
  BY <1>1, <1>2, Names, TotalOfPart
<1>4. IsFiniteSet(First)
  BY Names, FS_Subset
<1>5. Total(Cost, First) \in Int /\ Total(Cost, First) <= Limit
  BY <1>2, <1>4, TotalInt, SpecAssumption
<1> QED BY <1>1, <1>3, <1>5, Names DEF Solvent, Remaining, reserved

\* the accounts a task may have after a step without arithmetic
Carries(t, x) ==
  /\ x.snap.account \in {InitialAccount, account, task[t].snap.account}
  /\ x.account \in {InitialAccount, task[t].account}

LEMMA CarriesSolvent ==
  ASSUME Books, NEW t \in Task, NEW x, Carries(t, x)
  PROVE  SolventTask(x)
BY InitialSolvent DEF Books, Solvency, SolventTask, Carries

LEMMA CarriesOn ==
  ASSUME Shape, NEW t \in Task
  PROVE  /\ Carries(t, task[t]) /\ Carries(t, Idle) /\ Carries(t, OnChild(task[t]))
         /\ \A p \in Procedures : Carries(t, Reading(task[t], p))
         /\ \A p \in Pcs : Carries(t, [task[t] EXCEPT !.pc = p])
<1>1. task[t] \in TaskRecord
  BY DEF Shape
<1>2. NoSnapshot.account = InitialAccount /\ Idle.snap = NoSnapshot /\ Idle.account = InitialAccount
  BY DEF NoSnapshot, Idle
<1>3. OnChild(task[t]).snap = NoSnapshot /\ OnChild(task[t]).account = task[t].account
  <2> DEFINE y == [task[t] EXCEPT !.caller = "child"]
  <2>1. y \in TaskRecord /\ y.account = task[t].account
    BY <1>1 DEF TaskRecord
  <2>2. "child" \in Procedures /\ OnChild(task[t]) = Reading(y, "child")
    BY DEF Procedures, OnChild
  <2> HIDE DEF y
  <2> QED BY <2>1, <2>2, ReadingRecord
<1>4. \A p \in Procedures : /\ Reading(task[t], p).snap = NoSnapshot
                              /\ Reading(task[t], p).account = task[t].account
  BY <1>1, ReadingRecord
<1>5. \A p \in Pcs : /\ [task[t] EXCEPT !.pc = p].snap = task[t].snap
                     /\ [task[t] EXCEPT !.pc = p].account = task[t].account
  BY <1>1, GoesRecord
<1> QED BY <1>2, <1>3, <1>4, <1>5, Zenon DEF Carries

(* Steps that leave the account, the statuses of the objectives and what   *)
(* was used alone, and in which nobody takes the turn.                     *)
LEMMA BooksStay ==
  ASSUME Shape, Turns, Books, NEW t \in Task, NEW x \in TaskRecord, Becomes(t, x), Aged,
         UNCHANGED <<account, usage, linked>>,
         \A o \in Objective : /\ objectives'[o].status = objectives[o].status
                              /\ objectives'[o].budget = objectives[o].budget \/ (o \in Lost /\ Holds(t)),
         accepting' => accepting,
         \A c \in Child : commands'[c].state \in {"queued", "running"}
                            => commands[c].state \in {"queued", "running"},
         x.pc \notin {"activate", "fund"}, Holding(x) => Holds(t) /\ ~At(t, "activate"),
         SolventTask(x), Sound(t)',
         mission'.status = "absent" => mission.status = "absent",
         mission'.status = "completed" => mission.status = "completed" \/ Done'
  PROVE  Books'
<1>1. task'[t] = x /\ \A u \in Task \ {t} : task'[u] = task[u]
  BY DEF Shape, Becomes
<1>2. \A u \in Task : /\ Holds(u)' => Holds(u) /\ (u = t => ~At(u, "activate"))
                      /\ At(u, "activate")' => At(u, "activate") /\ u # t
                      /\ u # t => (Holds(u)' <=> Holds(u)) /\ (At(u, "activate")' <=> At(u, "activate"))
  BY <1>1 DEF Holds, At
<1>3. ActiveNow' = ActiveNow /\ PendingNow' = PendingNow /\ Open' \subseteq Open
  BY DEF ActiveNow, PendingNow, Open
<1>18. \A o \in ActiveNow \union PendingNow : objectives'[o].budget = objectives[o].budget
  BY DEF ActiveNow, PendingNow, Lost
<1>4. NoHolder => NoHolder'
  BY <1>2 DEF NoHolder
<1>5. NobodyActivates => NobodyActivates'
  BY <1>2 DEF NobodyActivates
<1>6. Used' = Used /\ (Charged(account)' <=> Charged(account)) /\ (Funds(account)' <=> Funds(account))
      /\ (Solvent(account)' <=> Solvent(account))
      /\ \A o \in Objective : ChargedBut(account, Linked(o))' <=> ChargedBut(account, Linked(o))
  BY <1>3, <1>18 DEF Used, Charged, Funds, Prices, ChargedBut, Linked, Solvent, Remaining
<1>7. Unused'
  BY Names DEF Books, Unused, Aged
<1>19. Listed'
  BY DEF Books, Listed, Lost
<1>8. Backed'
  <2>1. \A c \in Child : commands[c].state = "succeeded" => commands'[c].state = "succeeded"
    BY Names DEF Aged, Settled, RunEnds
  <2> QED BY <2>1 DEF Books, Backed
<1>9. Solvency'
  <2>1. \A u \in Task : SolventTask(task'[u])
    BY <1>1 DEF Books, Solvency
  <2>2. \A u \in Task : SolventTask(task[u])'
    BY <2>1 DEF SolventTask, Solvent, Remaining
  <2> QED BY <1>6, <2>2 DEF Books, Solvency
<1>10. account'.used <= Used'
  BY <1>6 DEF Books
<1>11. ActiveCharged'
  <2>1. \A o \in ActiveNow : o \in Objective /\ Linked(o)' = Linked(o)
    BY DEF ActiveNow, Linked
  <2>2. \A o \in ActiveNow : Prices(account, o) => Prices(account, o)'
    BY <1>18 DEF Prices
  <2> QED BY <1>3, <1>6, <2>1, <2>2 DEF Books, ActiveCharged
<1>12. HolderCharged'
  BY <1>2, <1>6 DEF Books, HolderCharged
<1>13. ActivatingCharged'
  <2> SUFFICES ASSUME NEW u \in Task, At(u, "activate")'
               PROVE  account'.used + usage'[ChosenChild(task'[u].snap)] = Used'
    BY DEF ActivatingCharged
  <2>1. At(u, "activate") /\ task'[u] = task[u]
    BY <1>1, <1>2
  <2> QED BY <1>6, <2>1 DEF Books, ActivatingCharged
<1>14. Funded'
  BY <1>3, <1>4, <1>5, <1>6 DEF Books, Funded
<1>15. FreshAccount'
  <2>1. Fresh' => Fresh
    BY <1>1, Names DEF Fresh, At
  <2> QED BY <2>1 DEF Books, FreshAccount
<1>16. DoneCharged'
  <2>1. Done => Done'
    BY <1>4, <1>6 DEF Done
  <2> QED BY <2>1 DEF Books, DoneCharged
<1>17. ASSUME NEW u \in Task PROVE Sound(u)'
  <2>1. CASE u = t
    BY <2>1
  <2>2. CASE u # t
    <3>1. task'[u] = task[u] /\ Sound(u)
      BY <1>1, <2>2 DEF Books
    <3>2. task[u].pc \in {"endObjective", "failObjective"} => Charged(account')
      BY <3>1 DEF Sound
    <3>3. At(u, "rearm") => objectives'[ObjectiveOf(u)].budget = objectives[ObjectiveOf(u)].budget
      <4> SUFFICES ASSUME At(u, "rearm")
                   PROVE  objectives'[ObjectiveOf(u)].budget = objectives[ObjectiveOf(u)].budget
        OBVIOUS
      <4>1. Holds(u) /\ ObjectiveOf(u) \in Lost
        BY DEF At, Holds, Holding, Rebalancing, Turns, Knows
      <4>2. ~Holds(t)
        BY <2>2, <4>1 DEF Turns, OneTurn
      <4> QED BY <4>1, <4>2 DEF Lost
    <3> QED BY <1>3, <1>18, <3>1, <3>2, <3>3, SoundStays
  <2> QED BY <2>1, <2>2
<1> QED BY <1>7, <1>8, <1>9, <1>10, <1>11, <1>12, <1>13, <1>14, <1>15, <1>16, <1>17, <1>19 DEF Books

LEMMA BooksQuiet ==
  ASSUME Shape, Turns, Books, NEW t \in Task, NEW x \in TaskRecord, Becomes(t, x),
         UNCHANGED <<journalVars, account, usage, linked>>,
         \A o \in Objective : /\ objectives'[o].status = objectives[o].status
                              /\ objectives'[o].budget = objectives[o].budget \/ (o \in Lost /\ Holds(t)),
         x.pc \notin {"activate", "fund"}, Holding(x) => Holds(t) /\ ~At(t, "activate"),
         Carries(t, x), x.pc \in Minded => Sound(t)',
         mission'.status = "absent" => mission.status = "absent",
         mission'.status = "completed" => mission.status = "completed" \/ Done'
  PROVE  Books'
<1>1. UNCHANGED <<commands, accepting>> /\ Aged
  BY NothingAges DEF journalVars
<1>2. task'[t] = x
  BY DEF Shape, Becomes
<1>3. Sound(t)'
  BY <1>2, SoundNot
<1>4. SolventTask(x)
  BY CarriesSolvent
<1> QED BY <1>1, <1>3, <1>4, BooksStay

\* a task that leaves a procedure, for another that it reads a snapshot for
LEMMA BooksLeaves ==
  ASSUME Shape, Turns, Books, NEW t \in Task, NEW y, Becomes(t, y),
         UNCHANGED <<journalVars, account, usage, linked>>,
         \A o \in Objective : /\ objectives'[o].status = objectives[o].status
                              /\ objectives'[o].budget = objectives[o].budget \/ (o \in Lost /\ Holds(t)),
         \/ y = Idle
         \/ y = OnChild(task[t])
         \/ Holds(t) /\ ~At(t, "activate") /\ \E p \in Procedures : y = Reading(task[t], p),
         mission'.status = "absent" => mission.status = "absent",
         mission'.status = "completed" => mission.status = "completed" \/ Done'
  PROVE  Books'
<1>1. task[t] \in TaskRecord /\ Idle.pc = "idle" /\ Idle \in TaskRecord
  BY Records DEF Shape
<1>2. y \in TaskRecord /\ y.pc \in {"idle", "mission"} /\ Carries(t, y)
  BY <1>1, CarriesOn, OnChildRecord, ReadingRecord
<1>3. Holding(y) => Holds(t) /\ ~At(t, "activate")
  <2>1. CASE y = Idle
    BY <1>1, <2>1 DEF Holding, Informed, Onward, Rebalancing, Reads
  <2>2. CASE y = OnChild(task[t])
    BY <1>1, <2>2, OnChildRecord DEF Holding, Informed, Onward, Rebalancing, Reads
  <2> QED BY <2>1, <2>2
<1>4. y.pc \notin Minded \union {"activate", "fund"}
  BY <1>2 DEF Minded
<1> QED BY <1>2, <1>3, <1>4, BooksQuiet

LEMMA BooksGoes ==
  ASSUME Shape, Turns, Books, NEW t \in Task, NEW p \in Pcs, Goes(t, p),
         UNCHANGED <<journalVars, account, usage, linked, mission>>,
         \A o \in Objective : /\ objectives'[o].status = objectives[o].status
                              /\ objectives'[o].budget = objectives[o].budget \/ (o \in Lost /\ Holds(t)),
         p \notin {"activate", "fund"}, p \notin Reads,
         p \in {"plan"} \union Rebalancing \union Informed => Holds(t) /\ ~At(t, "activate"),
         p \in Minded => Sound(t)'
  PROVE  Books'
<1> DEFINE y == [task[t] EXCEPT !.pc = p]
<1>1. y \in TaskRecord /\ y.pc = p /\ Carries(t, y) /\ Becomes(t, y)
  BY CarriesOn, GoesRecord DEF Shape, Goes
<1> HIDE DEF y
<1>2. Holding(y) => Holds(t) /\ ~At(t, "activate")
  BY <1>1 DEF Holding
<1> QED BY <1>1, <1>2, BooksQuiet

LEMMA MoneySame ==
  ASSUME UNCHANGED <<usage, objectives>>
  PROVE  /\ Used' = Used /\ ActiveNow' = ActiveNow /\ PendingNow' = PendingNow
         /\ \A acct : /\ Charged(acct)' <=> Charged(acct)
                      /\ Funds(acct)' <=> Funds(acct)
         /\ \A acct, c : ChargedBut(acct, c)' <=> ChargedBut(acct, c)
BY DEF Used, ActiveNow, PendingNow, Charged, Funds, Prices, ChargedBut

\* a task reads the account while it has the turn, or follows the active command
LEMMA ReadsBooks ==
  ASSUME Shape, Turns, Books, NEW t \in Task, Snapshots(t)
  PROVE  Books'
<1> DEFINE x == task[t]
<1>1. PICK y \in TaskRecord :
           /\ Becomes(t, y) /\ OnlyTask
           /\ y.child = x.child /\ y.next = x.next /\ x.pc \in Reads /\ y.account = x.account
           /\ \/ y.pc = "transitions" /\ y.snap.account = x.snap.account
              \/ y.pc = "account" /\ y.snap.account = x.snap.account
              \/ /\ At(t, "account") /\ y.pc = "objectives" /\ y.snap.account = account
                 /\ y.snap.linked = x.snap.linked
              \/ /\ At(t, "objectives") /\ y.pc = y.next /\ y.snap.objectives = objectives
                 /\ y.snap.linked = x.snap.linked /\ y.snap.account = x.snap.account
  BY ReadsRecord
<1>2. /\ UNCHANGED <<journalVars, account, usage, linked, mission, objectives, accepting>>
      /\ task'[t] = y
  BY <1>1 DEF OnlyTask, repositoryVars, Forgets, worldVars, journalVars, Shape, Becomes
<1>3. /\ x.next \in Procedures /\ Sound(t)
      /\ x.next \in {"child", "rebalance", "explore"} => t \in Notifier /\ Follows(t) /\ ~At(t, "idle")
  <2>1. CASE t \in Submitter
    BY <1>1, <2>1 DEF Shape, SubmitterFits, Procedures, Books
  <2>2. CASE t \in Notifier
    <3>1. ~At(t, "idle")
      BY <1>1 DEF At, Reads
    <3> QED BY <1>1, <2>2, <3>1 DEF Shape, NotifierFits, Turns, Books
  <2> QED BY <2>1, <2>2, Names
<1>4. /\ y.pc \notin {"activate", "fund"}
      /\ Holding(y) => Holds(t) /\ ~At(t, "activate")
  BY <1>1, <1>3 DEF Reads, Procedures, Holds, Holding, Informed, Onward, Rebalancing, At
<1>5. Carries(t, y)
  BY <1>1 DEF Carries
<1>6. PICK acct : acct = y.snap.account
  OBVIOUS
<1>7. CASE y.pc \in {"transitions", "account"}
  BY <1>1, <1>2, <1>4, <1>5, <1>7, BooksQuiet DEF Minded
<1>8. CASE /\ At(t, "account") /\ y.pc = "objectives" /\ y.snap.account = account
           /\ y.snap.linked = x.snap.linked
  <2>1. y.next = "explore" => Charged(acct) /\ (accepting => Funds(acct))
    <3> SUFFICES ASSUME y.next = "explore" PROVE Charged(account) /\ (accepting => Funds(account))
      BY <1>6, <1>8
    <3>1. Holds(t) /\ ~At(t, "activate") /\ ~NoHolder
      BY <1>1, <1>8 DEF Holds, Holding, Onward, At, NoHolder
    <3> QED BY <3>1 DEF Books, HolderCharged, Funded
  <2>2. FollowsActive(t)' => ChargedBut(acct, y.child) /\ Funds(acct)
    <3> SUFFICES ASSUME FollowsActive(t)' PROVE ChargedBut(account, y.child) /\ Funds(account)
      BY <1>6, <1>8
    <3>1. /\ y.next \in {"child", "rebalance"} /\ y.snap.linked[y.child[1]] = y.child[2]
          /\ y.child[1] \in ActiveNow
      BY <1>2, MoneySame DEF FollowsActive, ReadsChild, OnRow, ObjectiveOf
    <3>2. t \in Notifier /\ Follows(t) /\ x.child = <<x.child[1], x.child[2]>>
      BY <1>1, <1>3, <3>1, AboutChild DEF ObjectiveOf
    <3>3. linked[x.child[1]] = x.child[2]
      BY <1>1, <1>8, <3>1, <3>2 DEF Follows, ReadsChild, OnRow, ObjectiveOf, At
    <3>4. Linked(x.child[1]) = x.child
      BY <3>2, <3>3 DEF Linked
    <3> QED BY <1>1, <3>1, <3>4 DEF Books, ActiveCharged, Funded
  <2>3. Sound(t)'
    <3>1. /\ Exploring(t)' => y.next = "explore"
          /\ ~Committed(t)' /\ task'[t].pc = "objectives"
      BY <1>2, <1>8 DEF Exploring, Committed, At
    <3>2. /\ Exploring(t)' => Charged(acct)' /\ (accepting' => Funds(acct)')
          /\ FollowsActive(t)' => ChargedBut(acct, y.child)' /\ Funds(acct)'
      BY <1>2, <2>1, <2>2, <3>1, MoneySame
    <3> QED BY <1>2, <1>6, <3>1, <3>2 DEF Sound, At, Charged, ChargedBut, Funds, Prices
  <2> QED BY <1>1, <1>2, <1>4, <1>5, <2>3, BooksQuiet
<1>9. CASE /\ At(t, "objectives") /\ y.pc = y.next /\ y.snap.objectives = objectives
           /\ y.snap.linked = x.snap.linked /\ y.snap.account = x.snap.account
  <2>1. y.pc \in Minded => y.pc \in {"child", "rebalance", "explore"}
    BY <1>1, <1>3, <1>9 DEF Minded, Procedures
  <2>2. y.pc = "explore" => Charged(acct) /\ (accepting => Funds(acct))
    BY <1>1, <1>3, <1>6, <1>9 DEF Sound, Exploring, At
  <2>3. Committed(t)' /\ y.pc \in {"child", "rebalance"} => ChargedBut(acct, y.child) /\ Funds(acct)
    <3> SUFFICES ASSUME Committed(t)', y.pc \in {"child", "rebalance"}
                 PROVE  ChargedBut(acct, y.child) /\ Funds(acct)
      OBVIOUS
    <3>1. objectives[y.child[1]].status = "active" /\ y.snap.linked[y.child[1]] = y.child[2]
      BY <1>2, <1>9 DEF Committed, StatusRead, OnRow, ObjectiveOf
    <3>2. x.child[1] \in Objective
      BY <1>1, <1>3, <1>9, AboutChild DEF ObjectiveOf
    <3>3. FollowsActive(t)
      BY <1>1, <1>9, <3>1, <3>2 DEF FollowsActive, ReadsChild, OnRow, ObjectiveOf, ActiveNow
    <3> QED BY <1>1, <1>3, <1>6, <1>9, <3>3 DEF Sound
  <2>4. y.pc \in Minded => Sound(t)'
    <3> SUFFICES ASSUME y.pc \in {"child", "rebalance", "explore"} PROVE Sound(t)'
      BY <2>1
    <3>1. /\ y.pc = "explore" => Charged(acct)' /\ (accepting' => Funds(acct)')
          /\ Committed(t)' /\ y.pc \in {"child", "rebalance"}
               => ChargedBut(acct, y.child)' /\ Funds(acct)'
      BY <1>2, <2>2, <2>3, MoneySame
    <3>2. ~FollowsActive(t)' /\ (Exploring(t)' => y.pc = "explore")
      BY <1>2 DEF FollowsActive, Exploring, At
    <3> QED BY <1>2, <1>6, <3>1, <3>2 DEF Sound, At, Charged, ChargedBut, Funds, Prices
  <2> QED BY <1>1, <1>2, <1>4, <1>5, <2>4, BooksQuiet
<1> QED BY <1>1, <1>7, <1>8, <1>9

\* what finishing the mission takes
LEMMA HolderDone ==
  ASSUME Shape, Turns, Books, NEW t \in Task, Holds(t), ~At(t, "activate"), Becomes(t, Idle),
         UNCHANGED <<account, usage, objectives>>,
         Accomplished
  PROVE  Done'
<1>1. task'[t] = Idle /\ \A u \in Task \ {t} : task'[u] = task[u]
  BY DEF Shape, Becomes
<1>2. ~Holding(Idle)
  BY Records DEF Holding, Informed, Onward, Rebalancing, Reads
<1>3. \A u \in Task : ~Holds(u)'
  BY <1>1, <1>2, HolderAlone DEF Holds
<1>4. Charged(account)'
  BY DEF Books, HolderCharged, Charged, Used
<1>5. \A o \in Objective \ Optional : objectives'[o].status \in {"absent", "completed"}
  BY DEF Accomplished
<1> QED BY <1>3, <1>4, <1>5 DEF Done, NoHolder

LEMMA CreatesNothingBooks ==
  ASSUME Shape, Turns, Books, NEW t \in Task, AdvanceCreatesNothing(t)
  PROVE  Books'
<1>1. /\ task[t].pc = "advance" /\ UNCHANGED <<journalVars, mishaps>> /\ Holds(t)
      /\ task[t].pc \in {"advance", "activate", "run"} /\ ~At(t, "activate")
      /\ task[t].snap.objectives = objectives
  BY DEF AdvanceCreatesNothing, Holds, Holding, Informed, Onward, At, Turns, Knows
<1>2. /\ t \in Submitter => task[t].caller = "submit"
      /\ ~At(t, "idle") /\ "adapt" \in Procedures
  BY <1>1, SubmitCalled DEF Procedures
<1>3. PICK y \in TaskRecord :
        /\ Becomes(t, y) /\ UNCHANGED <<objectives, linked, account, usage>>
        /\ \/ y = Idle \/ y = Reading(task[t], "adapt") \/ y = OnChild(task[t])
        /\ mission'.status = "absent" => mission.status = "absent"
        /\ mission'.status = "completed" =>
             \/ mission.status = "completed"
             \/ y = Idle /\ RequiredComplete(task[t].snap)
  <2>1. CASE Finishes(task[t].snap)
    <3>1. MissionMoves(t, CompletionTarget, Returns(t, CompletionTarget))
      BY <2>1 DEF AdvanceCreatesNothing
    <3>2. /\ UNCHANGED <<objectives, linked, account>>
          /\ \E y \in TaskRecord :
              /\ Becomes(t, y) /\ UNCHANGED usage
              /\ \/ /\ mission'.status = CompletionTarget
                    /\ CompletionTarget \in MissionSuccessors(mission.status)
                    /\ \/ y = Idle
                       \/ y = Reading(task[t], "adapt") /\ CompletionTarget = "waiting_evidence"
                 \/ /\ mission' = mission
                    /\ y = Idle \/ y = OnChild(task[t])
      BY <1>2, <3>1, MissionMoved
    <3> QED BY <2>1, <3>2, MissionTargets DEF Finishes
  <2>2. CASE ~Finishes(task[t].snap)
    <3>1. UNCHANGED repositoryVars /\ Returns(t, task[t].snap.mission.status)
      BY <2>2 DEF AdvanceCreatesNothing
    <3> QED BY <1>2, <3>1, ReturnsTo DEF repositoryVars
  <2> QED BY <2>1, <2>2
<1>4. mission'.status = "completed" => mission.status = "completed" \/ Done'
  <2>1. RequiredComplete(task[t].snap) => Accomplished
    BY <1>1 DEF RequiredComplete, Accomplished
  <2> QED BY <1>1, <1>3, <2>1, HolderDone
<1> QED BY <1>1, <1>2, <1>3, <1>4, BooksLeaves

LEMMA LeavesBooks ==
  ASSUME Shape, Turns, Books, NEW t \in Task, AdvanceRefused(t) \/ AdvanceRuns(t)
  PROVE  Books'
<1>1. /\ task[t].pc \in {"advance", "activate", "run"} /\ UNCHANGED journalVars
  BY DEF AdvanceRefused, AdvanceReady, AdvanceRuns, At
<1>2. /\ t \in Submitter => task[t].caller = "submit"
      /\ ~At(t, "idle")
  BY <1>1, SubmitCalled
<1>3. PICK y \in TaskRecord :
        /\ Becomes(t, y) /\ UNCHANGED <<objectives, linked, account, usage>>
        /\ y = Idle \/ y = OnChild(task[t])
        /\ mission' = mission \/ mission'.status = "running"
  <2>1. CASE AdvanceRefused(t)
    <3>1. UNCHANGED repositoryVars /\ Raises(t)
      BY <2>1 DEF AdvanceRefused
    <3> QED BY <3>1, RaisesTo DEF repositoryVars
  <2>2. CASE AdvanceRuns(t)
    <3>1. MissionMoves(t, "running", Returns(t, "running"))
      BY <2>2 DEF AdvanceRuns
    <3> QED BY <1>2, <3>1, MissionMoved
  <2> QED BY <2>1, <2>2
<1>4. /\ mission'.status = "absent" => mission.status = "absent"
      /\ mission'.status = "completed" => mission.status = "completed"
  BY <1>3
<1> QED BY <1>1, <1>3, <1>4, BooksLeaves

LEMMA NotifiesBooks ==
  ASSUME Shape, Turns, Books, NEW n \in Notifier,
         NotifyLooks(n) \/ NotifySkips(n) \/ NotifyRebalances(n) \/ NotifyTransitions(n)
  PROVE  Books'
<1> DEFINE x == task[n]
<1>1. /\ x \in TaskRecord /\ n \in Task /\ OnlyTask
      /\ UNCHANGED <<journalVars, objectives, linked, account, usage, mission>>
  BY Names DEF Shape, NotifyLooks, NotifySkips, NotifyRebalances, NotifyTransitions, OnlyTask,
     repositoryVars, Forgets, worldVars
<1>2. CASE NotifyLooks(n)
  <2> DEFINE state == commands[x.child].state
             y == [x EXCEPT !.pc = "checks", !.seen = state]
  <2>1. Becomes(n, IF state \in Terminal THEN y ELSE Idle)
    BY <1>2 DEF NotifyLooks
  <2>2. CASE state \notin Terminal
    BY <1>1, <2>1, <2>2, BooksLeaves
  <2>3. CASE state \in Terminal
    <3>1. Becomes(n, y)
      BY <2>1, <2>3
    <3>2. y \in TaskRecord /\ y.pc = "checks" /\ y.snap = x.snap /\ y.account = x.account
      BY <1>1, <2>3 DEF TaskRecord, Pcs, States
    <3> HIDE DEF y
    <3>3. ~Holding(y) /\ y.pc \notin Minded \union {"activate", "fund"} /\ Carries(n, y)
      BY <3>2 DEF Holding, Informed, Onward, Rebalancing, Reads, Minded, Carries
    <3> QED BY <1>1, <3>1, <3>2, <3>3, BooksQuiet
  <2> QED BY <2>2, <2>3
<1>3. CASE NotifySkips(n)
  BY <1>1, <1>3, BooksLeaves DEF NotifySkips
<1>4. CASE NotifyRebalances(n)
  <2> DEFINE z == [x EXCEPT !.caller = "rebalance"]
             y == Reading(z, "rebalance")
  <2>1. Becomes(n, y)
    BY <1>4 DEF NotifyRebalances
  <2>2. z \in TaskRecord /\ z.account = x.account
    BY <1>1 DEF TaskRecord
  <2> HIDE DEF z
  <2>3. /\ y \in TaskRecord /\ y.pc = "mission" /\ y.next = "rebalance" /\ y.snap = NoSnapshot
        /\ y.account = x.account
    BY <2>2, ReadingRecord DEF Procedures
  <2> HIDE DEF y
  <2>4. ~Holding(y) /\ y.pc \notin Minded \union {"activate", "fund"} /\ Carries(n, y)
    BY <2>3 DEF Holding, Informed, Onward, Rebalancing, Reads, Minded, Carries, NoSnapshot
  <2> QED BY <1>1, <2>1, <2>3, <2>4, BooksQuiet
<1>5. CASE NotifyTransitions(n)
  BY <1>1, <1>5, BooksLeaves DEF NotifyTransitions
<1> QED BY <1>2, <1>3, <1>4, <1>5

\* the arithmetic of the account (BudgetAccount.reserve, .settle)
LEMMA RemainingAfter ==
  ASSUME NEW acct \in Account, NEW after \in Account, NEW o \in Objective,
         \A p \in Objective \ {o} : after.reserved[p] = acct.reserved[p]
  PROVE  /\ Remaining(acct) \in Int /\ Remaining(after) \in Int
         /\ Remaining(after) = Remaining(acct) + acct.used + acct.reserved[o]
                               - after.used - after.reserved[o]
<1>1. /\ acct.used \in Nat /\ after.used \in Nat
      /\ \A p \in Objective : acct.reserved[p] \in Nat /\ after.reserved[p] \in Nat
  BY DEF Account
<1> DEFINE f == acct.reserved
           g == after.reserved
<1>2. /\ \A p \in Objective : f[p] \in Int
      /\ g[o] \in Int /\ \A p \in Objective : p # o => g[p] = f[p]
  BY <1>1
<1> HIDE DEF f, g
<1>3. Total(f, Objective) \in Int /\ Total(g, Objective) = Total(f, Objective) - f[o] + g[o]
  BY <1>2, Names, TotalChanges
<1>4. Total(g, Objective) \in Int
  BY <1>2, <1>3
<1> QED BY <1>1, <1>3, <1>4, Names DEF Remaining, f, g

LEMMA ReserveSolvent ==
  ASSUME NEW acct \in Account, NEW o \in Objective, NEW amount \in Nat,
         amount <= Remaining(acct)
  PROVE  Solvent(Reserve(acct, o, amount))
<1>1. PICK after : after = Reserve(acct, o, amount)
  OBVIOUS
<1>2. /\ after \in Account /\ after.used = acct.used /\ after.reserved[o] = amount
      /\ \A p \in Objective \ {o} : after.reserved[p] = acct.reserved[p]
  BY <1>1, ReserveTyped
<1>3. /\ Remaining(acct) \in Int
      /\ Remaining(after) = Remaining(acct) + acct.used + acct.reserved[o] - acct.used - amount
  BY <1>2, RemainingAfter
<1>4. acct.used \in Nat /\ acct.reserved[o] \in Nat
  BY DEF Account
<1> QED BY <1>1, <1>3, <1>4 DEF Solvent

LEMMA SettleSolvent ==
  ASSUME NEW acct \in Account, NEW o \in Objective, NEW amount \in Nat,
         amount <= acct.reserved[o], Solvent(acct)
  PROVE  Solvent(Settle(acct, o, amount))
<1>1. PICK after : after = Settle(acct, o, amount)
  OBVIOUS
<1>2. /\ after \in Account /\ after.used = acct.used + amount /\ after.reserved[o] = 0
      /\ \A p \in Objective \ {o} : after.reserved[p] = acct.reserved[p]
  BY <1>1, SettleTyped
<1>3. /\ Remaining(acct) \in Int
      /\ Remaining(after) = Remaining(acct) + acct.used + acct.reserved[o] - (acct.used + amount) - 0
  BY <1>2, RemainingAfter
<1>4. acct.used \in Nat /\ acct.reserved[o] \in Nat
  BY DEF Account
<1> QED BY <1>1, <1>3, <1>4 DEF Solvent

LEMMA DeclinesBooks ==
  ASSUME Shape, Turns, Books, NEW n \in Notifier,
         RebalanceDeclined(n) \/ PlannerRaises(n) \/ PlannerDeclines(n)
         \/ ChildRefused(n) \/ ChildAnswers(n) \/ AdaptStops(n)
  PROVE  Books'
<1>1. /\ UNCHANGED <<journalVars, objectives, linked, account, usage, mission>> /\ n \in Task
  BY Names DEF RebalanceDeclined, PlannerRaises, PlannerDeclines, ChildRefused, ChildAnswers,
     AdaptStops, OnlyTask, Forgets, worldVars, repositoryVars
<1>2. CASE RebalanceDeclined(n) \/ PlannerRaises(n) \/ ChildRefused(n) \/ AdaptStops(n)
  <2>1. Becomes(n, OnChild(task[n])) \/ Becomes(n, Idle)
    BY <1>2 DEF RebalanceDeclined, PlannerRaises, ChildRefused, AdaptStops
  <2> QED BY <1>1, <2>1, BooksLeaves
<1>3. CASE PlannerDeclines(n)
  <2>1. Goes(n, "failMission") /\ Holds(n) /\ ~At(n, "activate")
    BY <1>3 DEF PlannerDeclines, Holds, Holding, Rebalancing, At
  <2>2. "failMission" \in Pcs /\ "failMission" \notin Minded \union Reads \union {"activate", "fund"}
    BY DEF Pcs, Minded, Reads
  <2> QED BY <1>1, <2>1, <2>2, BooksGoes
<1>4. CASE ChildAnswers(n)
  <2>1. Goes(n, "settle") /\ task[n].pc = "child" /\ Committed(n)
    BY <1>4 DEF ChildAnswers, At, Committed, Answers, OnRow, StatusRead
  <2>2. /\ "settle" \in Pcs /\ "settle" \notin Reads \union {"activate", "fund"}
        /\ "settle" \notin {"plan"} \union Rebalancing \union Informed
    BY DEF Pcs, Rebalancing, Informed, Onward, Reads
  <2>3. PICK before, c : before = task[n].snap.account /\ c = task[n].child
    OBVIOUS
  <2>4. /\ task'[n].pc = "settle" /\ task'[n].child = c
        /\ task'[n].snap.account = before
    BY <1>1, <2>1, <2>3, GoesRecord, <2>2 DEF Goes, Becomes, Shape
  <2>5. ChargedBut(before, c) /\ (ActiveNow # {} => Funds(before))
    BY <1>1, <2>1, <2>3 DEF Books, Sound
  <2>6. ChargedBut(before, c)' /\ (ActiveNow' # {} => Funds(before)')
    BY <1>1, <2>5, MoneySame
  <2>7. Sound(n)'
    BY <2>4, <2>6 DEF Sound, At, Exploring, FollowsActive, ChargedBut, Charged, Funds, Prices
  <2> QED BY <1>1, <2>1, <2>2, <2>7, BooksGoes
<1> QED BY <1>2, <1>3, <1>4

LEMMA ProposesBooks ==
  ASSUME Shape, Turns, Books, NEW n \in Notifier, NEW amount \in 1..Limit, PlannerProposes(n, amount)
  PROVE  Books'
<1>1. PICK acct, o, after :
        acct = task[n].account /\ o = ObjectiveOf(n) /\ after = Reserve(acct, o, amount)
  OBVIOUS
<1>0. PICK y \in TaskRecord :
        /\ Becomes(n, y) /\ OnlyTask /\ y.pc = "saveRetry" /\ y.child = task[n].child
        /\ y.snap = task[n].snap /\ y.account = Reserve(task[n].account, ObjectiveOf(n), amount)
        /\ task[n].pc = "planner"
        /\ amount \in 1..Remaining(task[n].account) /\ amount \in Nat
  BY ProposedRecord, Zenon
<1>2. /\ Becomes(n, y) /\ OnlyTask /\ y.pc = "saveRetry" /\ y.child = task[n].child
      /\ y.snap = task[n].snap /\ y.account = after /\ task[n].pc = "planner"
      /\ amount \in 1..Remaining(acct) /\ amount \in Nat
  BY <1>0, <1>1
<1>3. /\ n \in Task /\ task'[n] = y /\ ~At(n, "idle") /\ Sound(n) /\ Holds(n) /\ ~At(n, "activate")
      /\ UNCHANGED <<commands, accepting, account, usage, linked, objectives, mission>> /\ Aged
  BY <1>2, Names, NothingAges DEF OnlyTask, journalVars, repositoryVars, Forgets, worldVars, Shape,
     Becomes, At, Books, Holds, Holding, Rebalancing
<1>4. /\ acct \in Account /\ o \in Objective
  BY <1>1, <1>3, AboutChild
<1>5. /\ after.used = acct.used /\ after.reserved[o] = amount
      /\ \A p \in Objective \ {o} : after.reserved[p] = acct.reserved[p]
  BY <1>1, <1>2, <1>4, ReserveTyped
<1>6. Remaining(acct) \in Int
  BY <1>4, RemainingAfter
<1>7. amount <= Remaining(acct) /\ amount # 0
  BY <1>2, <1>6
<1>8. Solvent(after)
  BY <1>1, <1>2, <1>4, <1>7, ReserveSolvent
<1>9. SolventTask(y)
  BY <1>2, <1>3, <1>8 DEF Books, Solvency, SolventTask
<1>10. Charged(after) /\ (accepting => Funds(after))
  <2>1. Charged(acct) /\ (accepting => Funds(acct))
    BY <1>1, <1>2, <1>3 DEF Sound
  <2>2. o \notin PendingNow
    BY <1>1, <1>2, <1>3 DEF Turns, Knows, Rebalancing, PendingNow
  <2> QED BY <2>1, <2>2, <1>5, <1>7 DEF Charged, Funds, Prices, PendingNow
<1>11. Sound(n)'
  <2>1. Charged(after)' /\ (accepting' => Funds(after)')
    BY <1>3, <1>10, MoneySame
  <2>2. ObjectiveOf(n)' = o
    BY <1>1, <1>2, <1>3 DEF ObjectiveOf
  <2> QED BY <1>2, <1>3, <1>5, <1>7, <2>1, <2>2
      DEF Sound, At, Exploring, FollowsActive, Charged, Funds, Prices
<1> QED BY <1>2, <1>3, <1>9, <1>11, BooksStay

LEMMA EndsBooks ==
  ASSUME Shape, Turns, Books, NEW n \in Notifier,
         RebalanceFailsMission(n) \/ ChildReplayed(n) \/ ChildEndsMission(n)
  PROVE  Books'
<1>1. n \in Task /\ Sound(n) /\ n \notin Submitter
  BY Names, CoordinatorAssumption DEF Books
<1>2. PICK target : /\ MissionMoves(n, target, Returns(n, target))
                    /\ UNCHANGED journalVars /\ target \notin {"waiting_evidence", "completed"}
                    /\ ~At(n, "idle")
  <2>1. CASE RebalanceFailsMission(n) \/ ChildReplayed(n)
    BY <2>1 DEF RebalanceFailsMission, ChildReplayed, At
  <2>2. CASE ChildEndsMission(n)
    <3>1. Outcome(n) \notin {"waiting_evidence", "completed"}
      BY <1>1, <2>2 DEF Outcome, ChildEndsMission, Sound
    <3> QED BY <2>2, <3>1 DEF ChildEndsMission, At
  <2> QED BY <2>1, <2>2
<1>3. PICK y \in TaskRecord :
        /\ Becomes(n, y) /\ UNCHANGED <<objectives, linked, account, usage>>
        /\ \/ mission'.status = target /\ target \in MissionSuccessors(mission.status) /\ y = Idle
           \/ mission' = mission /\ (y = Idle \/ y = OnChild(task[n]))
  BY <1>1, <1>2, MissionMoved
<1>4. /\ mission'.status = "absent" => mission.status = "absent"
      /\ mission'.status = "completed" => mission.status = "completed"
  BY <1>2, <1>3, MissionTargets
<1> QED BY <1>1, <1>2, <1>3, <1>4, BooksLeaves

LEMMA AdaptsBooks ==
  ASSUME Shape, Turns, Waits, Books, NEW n \in Notifier, AdaptDecides(n) \/ VerifyCompletes(n)
  PROVE  Books'
<1>1. /\ UNCHANGED <<journalVars, objectives, linked, account, usage>> /\ n \in Task
      /\ Holds(n) /\ ~At(n, "activate") /\ Knows(n) /\ task[n].pc \in Informed
  BY Names DEF AdaptDecides, VerifyCompletes, OnlyTask, OnlyRows, Forgets, worldVars, repositoryVars,
     TransitionMission, Holds, Holding, Informed, Onward, At, Turns
<1>2. CASE AdaptDecides(n)
  <2>1. UNCHANGED mission /\ \E p \in {"verify", "explore"} : Becomes(n, Reading(task[n], p))
    BY <1>2 DEF AdaptDecides, Calls, OnlyTask, repositoryVars
  <2>2. {"verify", "explore"} \subseteq Procedures
    BY DEF Procedures
  <2> QED BY <1>1, <2>1, <2>2, BooksLeaves
<1>3. CASE VerifyCompletes(n)
  <2>1. /\ Becomes(n, Idle)
        /\ \/ UNCHANGED mission
           \/ /\ mission'.status = "completed"
              /\ MissionAdmits(task[n].snap.mission.version, "completed")
    BY <1>3 DEF VerifyCompletes, TransitionMission, repositoryVars
  <2>2. UNCHANGED mission \/ (mission'.status = "completed" /\ Done')
    BY <1>1, <1>3, <2>1, Verified, HolderDone
  <2> QED BY <1>1, <2>1, <2>2, BooksLeaves
<1> QED BY <1>2, <1>3

LEMMA ProposalBooks ==
  ASSUME Shape, Turns, Books, NEW n \in Notifier, ExploreProposes(n)
  PROVE  Books'
<1>1. /\ UNCHANGED <<journalVars, objectives, linked, account, usage, mission, accepting>> /\ n \in Task
      /\ Holds(n) /\ ~At(n, "activate") /\ task[n].pc = "explore" /\ Goes(n, "fundProposal") /\ Sound(n)
  BY Names DEF ExploreProposes, OnlyRows, Forgets, worldVars, repositoryVars, journalVars,
     SaveProposal, Holds, Holding, Informed, Onward, At, Books
<1>2. PICK acct : acct = task[n].snap.account
  OBVIOUS
<1>3. /\ "fundProposal" \in Pcs
      /\ "fundProposal" \notin Reads \union {"activate", "fund"}
  BY DEF Pcs, Reads
<1>4. task'[n].pc = "fundProposal" /\ task'[n].snap.account = acct
  BY <1>1, <1>2, <1>3, GoesRecord DEF Goes, Becomes, Shape
<1>5. Charged(acct) /\ (accepting => Funds(acct))
  BY <1>1, <1>2 DEF Sound, Exploring
<1>6. Charged(acct)' /\ (accepting' => Funds(acct)')
  BY <1>1, <1>5, MoneySame
<1>7. Sound(n)'
  BY <1>4, <1>6 DEF Sound, At, Exploring, FollowsActive, Charged, Funds, Prices
<1> QED BY <1>1, <1>3, <1>7, BooksGoes

LEMMA SubmitsBooks ==
  ASSUME Shape, Turns, Books, NEW s \in Submitter,
         SubmitFunds(s) \/ SubmitPlans(s) \/ SubmitCut(s)
  PROVE  Books'
<1>1. /\ task[s] \in TaskRecord /\ s \in Task
      /\ UNCHANGED <<journalVars, objectives, linked, usage>>
  BY Names DEF Shape, SubmitFunds, SubmitPlans, SubmitCut, OnlyRows, Forgets, worldVars, SaveBudget,
     TransitionMission, repositoryVars
<1>2. CASE SubmitFunds(s)
  <2>1. account = InitialAccount
    BY <1>2 DEF SubmitFunds, Books, FreshAccount, Fresh
  <2>2. Goes(s, "plan") /\ UNCHANGED <<mission, account>> /\ Holds(s) /\ ~At(s, "activate")
    BY <1>2, <2>1 DEF SubmitFunds, SaveBudget, Holds, Holding, At
  <2>3. "plan" \in Pcs /\ "plan" \notin Minded \union Reads \union {"activate", "fund"}
    BY DEF Pcs, Minded, Reads
  <2> QED BY <1>1, <2>2, <2>3, BooksGoes
<1>3. CASE SubmitPlans(s)
  <2> DEFINE z == [task[s] EXCEPT !.caller = "submit"]
             y == Reading(z, "advance")
  <2>1. /\ TransitionMission(0, "planning") /\ Becomes(s, y) /\ Holds(s) /\ ~At(s, "activate")
    BY <1>3 DEF SubmitPlans, Holds, Holding, At
  <2>2. z \in TaskRecord /\ z.account = task[s].account
    BY <1>1 DEF TaskRecord
  <2> HIDE DEF z
  <2>3. y \in TaskRecord /\ y.pc = "mission" /\ y.snap = NoSnapshot /\ y.account = task[s].account
    BY <2>2, ReadingRecord DEF Procedures
  <2> HIDE DEF y
  <2>4. y.pc \notin Minded \union {"activate", "fund"} /\ Carries(s, y)
    BY <2>3 DEF Minded, Carries, NoSnapshot
  <2>5. mission'.status = "planning" /\ UNCHANGED account
    BY <2>1 DEF TransitionMission
  <2> QED BY <1>1, <2>1, <2>3, <2>4, <2>5, BooksQuiet
<1>4. CASE SubmitCut(s)
  BY <1>1, <1>4, BooksLeaves DEF SubmitCut, repositoryVars
<1> QED BY <1>2, <1>3, <1>4

LEMMA ReplacesBooks ==
  ASSUME Shape, Turns, Books, NEW n \in Notifier, RebalanceReplaces(n)
  PROVE  Books'
<1> DEFINE v == VersionRead(n) + 1
<1>1. /\ UNCHANGED <<journalVars, linked, account, usage, mission, accepting>> /\ n \in Task
      /\ Holds(n) /\ ~At(n, "activate") /\ task[n].pc = "replace" /\ Sound(n) /\ ~At(n, "idle")
  BY Names DEF RebalanceReplaces, OnlyRows, Forgets, worldVars, repositoryVars, journalVars,
     ReplaceObjectiveBudget, Holds, Holding, At, Rebalancing, Books
<1>2. PICK o : o = ObjectiveOf(n) /\ o \in Objective
  BY <1>1, AboutChild
<1>3. CASE ~MayRetry(o, v)
  <2>1. UNCHANGED objectives /\ Becomes(n, OnChild(task[n]))
    BY <1>2, <1>3 DEF RebalanceReplaces, repositoryVars
  <2> QED BY <1>1, <2>1, BooksLeaves
<1>4. CASE MayRetry(o, v)
  <2> DEFINE amount == task[n].account.reserved[o]
  <2>1. /\ objectives' = [objectives EXCEPT ![o].budget = amount, ![o].version = v + 1]
        /\ Goes(n, "rearm") /\ o \in Lost
    BY <1>2, <1>4 DEF RebalanceReplaces, ReplaceObjectiveBudget, MayRetry, Lost
  <2>2. objectives \in [Objective -> [status : ObjectiveStatuses, version : Nat, budget : Nat]]
    BY DEF Shape, TypeOK, RepositoryTypeOK
  <2>3. /\ \A p \in Objective :
             /\ objectives'[p].status = objectives[p].status
             /\ (objectives'[p].budget = objectives[p].budget \/ p = o)
        /\ objectives'[o].budget = amount
    BY <1>2, <2>1, <2>2
  <2>10. \A p \in Objective :
           /\ objectives'[p].status = objectives[p].status
           /\ (objectives'[p].budget = objectives[p].budget \/ (p \in Lost /\ Holds(n)))
    BY <1>1, <2>1, <2>3
  <2>9. accepting => Prices(account, o)'
    BY <1>1, <1>2, <2>3 DEF Sound, At, Prices
  <2> HIDE DEF amount
  <2>4. "rearm" \in Pcs /\ "rearm" \notin Reads \union {"activate", "fund"}
    BY DEF Pcs, Reads
  <2>5. task'[n].pc = "rearm" /\ task'[n].child = task[n].child
    BY <1>1, <2>1, <2>4, GoesRecord DEF Goes, Becomes, Shape
  <2>7. ObjectiveOf(n)' = o
    BY <1>2, <2>5 DEF ObjectiveOf
  <2>8. Sound(n)'
    BY <1>1, <2>5, <2>7, <2>9 DEF Sound, At, Exploring, FollowsActive, Prices
  <2> QED BY <1>1, <2>1, <2>4, <2>8, <2>10, BooksGoes
<1> QED BY <1>3, <1>4

(* The steps of the worker and the gateway about rows of the journal.      *)
LEMMA BooksUnlooked ==
  ASSUME Shape, Turns, Books, NEW n \in Notifier, NEW y \in TaskRecord, Becomes(n, y),
         y.pc \in Unlooked, Carries(n, y), UNCHANGED <<repositoryVars, usage>>, Aged,
         \A c \in Child : commands'[c].state \in {"queued", "running"}
                            => commands[c].state \in {"queued", "running"},
         accepting' => accepting
  PROVE  Books'
<1>1. y.pc \notin Minded \union {"activate", "fund"} /\ ~Holding(y)
  BY DEF Unlooked, Minded, Holding, Informed, Onward, Rebalancing, Reads
<1>2. n \in Task /\ task'[n] = y
  BY Names DEF Shape, Becomes
<1>3. Sound(n)' /\ SolventTask(y)
  BY <1>1, <1>2, SoundNot, CarriesSolvent
<1> QED BY <1>1, <1>2, <1>3, BooksStay DEF repositoryVars

LEMMA StartCarries ==
  ASSUME NEW n, NEW p, NEW c
  PROVE  Carries(n, [Idle EXCEPT !.pc = p, !.child = c])
BY DEF Idle, Carries, NoSnapshot

LEMMA JournalBooks ==
  ASSUME Shape, Turns, Books, NEW n \in Notifier, NEW y \in TaskRecord, Becomes(n, y),
         y.pc \in Unlooked, Carries(n, y), UNCHANGED <<repositoryVars, usage>>,
         NEW c \in Id, NEW target, Transition(c, commands[c].version, target),
         (target = "running") => (commands[c].state \in {"queued", "running"})
  PROVE  Books'
<1>1. /\ Aged /\ UNCHANGED accepting /\ commands'[c].state = target /\ target # "queued"
      /\ \A d \in Id \ {c} : commands'[d] = commands[d]
  BY TransitionAged DEF Shape, TypeOK
<1>2. \A d \in Child : commands'[d].state \in {"queued", "running"}
                         => commands[d].state \in {"queued", "running"}
  BY <1>1, Names
<1> QED BY <1>1, <1>2, BooksUnlooked

LEMMA WorkersBooks ==
  ASSUME Shape, Turns, Books, NEW c \in Id, WorkerExpires(c) \/ WorkerStarts(c)
  PROVE  Books'
<1>1. /\ task["worker"] \in TaskRecord /\ "worker" \in Notifier /\ "worker" \in Task
      /\ UNCHANGED <<repositoryVars, usage>> /\ c \in Queued /\ commands[c].state = "queued"
  BY Names DEF Shape, WorkerExpires, WorkerStarts, Rows, repositoryVars, Notifier, Eligible, Queued
<1>2. c \in Child
  BY <1>1, Executed DEF Turns
<1>3. CASE WorkerExpires(c)
  <2>1. /\ Becomes("worker", task["worker"]) /\ task["worker"].pc \in Unlooked
        /\ Transition(c, commands[c].version, "failed")
    BY <1>3 DEF WorkerExpires, Becomes, Shape, At, Unlooked
  <2> QED BY <1>1, <2>1, CarriesOn, JournalBooks
<1>4. CASE WorkerStarts(c)
  <2> DEFINE y == [Idle EXCEPT !.pc = "runs", !.child = c]
  <2>1. y \in TaskRecord /\ y.pc \in Unlooked /\ Carries("worker", y)
    BY <1>2, StartRecords, StartCarries DEF Unlooked
  <2>2. Becomes("worker", y) /\ Transition(c, commands[c].version, "running")
    BY <1>4 DEF WorkerStarts
  <2> HIDE DEF y
  <2> QED BY <1>1, <2>1, <2>2, JournalBooks
<1> QED BY <1>3, <1>4

LEMMA GatewayBooks ==
  ASSUME Shape, Turns, Books,
         \/ GatewayWaits \/ GatewayReconciles \/ GatewayCancels \/ GatewayNotifies
         \/ \E outcome \in WorkerOutcomes : GatewaySettles(outcome)
         \/ \E c \in Child : GatewayTerminates(c)
  PROVE  Books'
<1> DEFINE x == task["gateway"]
<1>1. /\ x \in TaskRecord /\ "gateway" \in Notifier /\ "gateway" \in Task
      /\ UNCHANGED <<repositoryVars, usage, mission, objectives, linked, account>>
  BY Names DEF Shape, GatewayWaits, GatewayReconciles, GatewayCancels, GatewayNotifies,
     GatewaySettles, GatewayTerminates, GatewayMoves, worldVars, repositoryVars, Notifier
<1>2. CASE GatewayWaits
  <2>1. Becomes("gateway", Idle) /\ UNCHANGED journalVars
    BY <1>2 DEF GatewayWaits
  <2> QED BY <1>1, <2>1, BooksLeaves
<1>3. CASE GatewayNotifies
  <2> DEFINE c == Head(pending)
             y == [Idle EXCEPT !.pc = "looks", !.child = c]
  <2>1. pending # <<>> /\ Becomes("gateway", y) /\ UNCHANGED <<commands, accepting>>
    BY <1>3 DEF GatewayNotifies, journalVars
  <2>2. c \in Child
    BY <2>1 DEF Shape, TypeOK
  <2>3. y \in TaskRecord /\ y.pc \in Unlooked /\ Carries("gateway", y)
    BY <2>2, StartRecords, StartCarries DEF Unlooked
  <2> HIDE DEF y, c
  <2> QED BY <1>1, <2>1, <2>3, NothingAges, BooksUnlooked
<1>4. CASE GatewayReconciles \/ GatewayCancels \/ \E outcome \in WorkerOutcomes : GatewaySettles(outcome)
  <2> DEFINE c == x.child
  <2>1. x.pc \in {"waits", "reconciles", "terminates"} /\ ~At("gateway", "idle")
    BY <1>4 DEF GatewayReconciles, GatewayCancels, GatewaySettles, At
  <2>2. c \in Id
    BY <1>1, <2>1, AboutChild, Names
  <2>3. PICK p \in {"reconciles", "looks"}, target \in WorkerOutcomes \union {"reconciling"} :
          /\ Transition(c, commands[c].version, target) /\ target # "running"
          /\ (Becomes("gateway", [x EXCEPT !.pc = p]) \/ Becomes("gateway", Idle))
    BY <1>4 DEF GatewayReconciles, GatewayCancels, GatewaySettles, Goes, WorkerOutcomes
  <2> DEFINE y == [x EXCEPT !.pc = p]
  <2>4. p \in Pcs /\ y \in TaskRecord /\ y.pc = p /\ p \in Unlooked /\ Carries("gateway", y)
    BY <1>1, GoesRecord, CarriesOn DEF Pcs, Unlooked
  <2>5. Idle \in TaskRecord /\ Idle.pc \in Unlooked /\ Carries("gateway", Idle)
    BY <1>1, Records, CarriesOn DEF Unlooked
  <2>6. Becomes("gateway", y) \/ Becomes("gateway", Idle)
    BY <2>3
  <2> HIDE DEF y, c
  <2> QED BY <1>1, <2>2, <2>3, <2>4, <2>5, <2>6, JournalBooks
<1>5. ASSUME NEW c \in Child, GatewayTerminates(c) PROVE Books'
  <2> DEFINE y == [Idle EXCEPT !.pc = "terminates", !.child = c]
  <2>1. Becomes("gateway", y) /\ Transition(c, commands[c].version, "reconciling")
    BY <1>5 DEF GatewayTerminates
  <2>2. y \in TaskRecord /\ y.pc \in Unlooked /\ Carries("gateway", y)
    BY StartRecords, StartCarries DEF Unlooked
  <2> HIDE DEF y
  <2> QED BY <1>1, <2>1, <2>2, Names, JournalBooks
<1> QED BY <1>2, <1>3, <1>4, <1>5

LEMMA StopsBooks ==
  ASSUME Shape, Turns, Books, NEW s \in Stop, NEW target \in Child \union {NoId},
         GatewayStops(s, target)
  PROVE  Books'
<1> DEFINE y == IF target = NoId THEN Idle ELSE [Idle EXCEPT !.pc = "waits", !.child = target]
<1>1. /\ ApplyStopBarrier(s, target) /\ Becomes("gateway", y) /\ "gateway" \in Notifier
      /\ "gateway" \in Task /\ UNCHANGED <<repositoryVars, usage>>
  BY Names DEF GatewayStops, GatewayMoves, worldVars, Notifier
<1>2. /\ Aged /\ accepting' = FALSE
      /\ \A c \in Child : commands'[c].state \in {"queued", "running"}
                            => commands[c].state \in {"queued", "running"}
  BY <1>1, Names, StopAged DEF Shape, TypeOK
<1>3. y \in TaskRecord /\ y.pc \in Unlooked /\ Carries("gateway", y)
  <2>1. CASE target = NoId
    BY <1>1, <2>1, Records, CarriesOn DEF Unlooked
  <2>2. CASE target # NoId
    <3>1. target \in Child /\ y = [Idle EXCEPT !.pc = "waits", !.child = target]
      BY <2>2
    <3> HIDE DEF y
    <3> QED BY <3>1, StartRecords, StartCarries DEF Unlooked
  <2> QED BY <2>1, <2>2
<1> HIDE DEF y
<1> QED BY <1>1, <1>2, <1>3, BooksUnlooked

(* Steps that move nothing the books are about; a restart; the first       *)
(* state.                                                                  *)
LEMMA BooksSame ==
  ASSUME Books, UNCHANGED <<commands, accepting, objectives, linked, mission, task, account, usage>>
  PROVE  Books'
<1>1. /\ ActiveNow' = ActiveNow /\ PendingNow' = PendingNow /\ Open' = Open /\ Used' = Used
      /\ \A t : (Holds(t)' <=> Holds(t)) /\ \A p : (At(t, p)' <=> At(t, p))
      /\ \A acct : /\ Charged(acct)' <=> Charged(acct)
                   /\ Funds(acct)' <=> Funds(acct)
                   /\ Solvent(acct)' <=> Solvent(acct)
      /\ \A acct, c : ChargedBut(acct, c)' <=> ChargedBut(acct, c)
  BY DEF ActiveNow, PendingNow, Open, Used, Holds, At, Charged, Funds, Prices, Solvent, Remaining, ChargedBut
<1>2. (NoHolder' <=> NoHolder) /\ (NobodyActivates' <=> NobodyActivates)
  BY <1>1 DEF NoHolder, NobodyActivates
<1>3. PICK now : now = account
  OBVIOUS
<1>4. /\ Charged(account)' <=> Charged(account)
      /\ Funds(account)' <=> Funds(account)
      /\ Solvent(account)' <=> Solvent(account)
      /\ \A o : ChargedBut(account, Linked(o))' <=> ChargedBut(account, Linked(o))
      /\ \A o : Linked(o)' = Linked(o)
  BY DEF Charged, Funds, Prices, Solvent, Remaining, ChargedBut, Used, PendingNow, Linked
<1>5. Unused' /\ Backed' /\ account'.used <= Used' /\ Listed'
  BY <1>1 DEF Books, Unused, Backed, Listed
<1>6. Solvency'
  BY <1>4 DEF Books, Solvency, SolventTask, Solvent, Remaining
<1>7. ActiveCharged' /\ HolderCharged' /\ ActivatingCharged' /\ Funded'
  BY <1>1, <1>2, <1>4 DEF Prices, Books, ActiveCharged, HolderCharged, ActivatingCharged, Funded
<1>8. FreshAccount' /\ DoneCharged'
  BY <1>1, <1>2, <1>4 DEF Books, FreshAccount, Fresh, DoneCharged, Done
<1>9. ASSUME NEW t \in Task PROVE Sound(t)'
  <2>1. Sound(t)
    BY DEF Books
  <2>2. task[t].pc \in {"endObjective", "failObjective"} => Charged(account')
    BY <2>1 DEF Sound
  <2> QED BY <1>1, <2>1, <2>2, SoundStays
<1> QED BY <1>5, <1>6, <1>7, <1>8, <1>9 DEF Books

LEMMA IdleSound ==
  ASSUME NEW t, task[t] = Idle
  PROVE  Sound(t)
BY DEF Sound, Idle, Exploring, FollowsActive, At

LEMMA IdleSolvent == SolventTask(Idle)
BY InitialSolvent DEF SolventTask, Idle, NoSnapshot

LEMMA ListedStays ==
  ASSUME Books, \A o \in Objective :
           objectives'[o].status = "absent" => /\ objectives[o].status = "absent"
                                              /\ objectives'[o].budget = objectives[o].budget
  PROVE  Listed'
BY DEF Books, Listed

LEMMA RestartBooks ==
  ASSUME Shape, Turns, Books, Restart
  PROVE  Books'
<1>1. /\ Aged /\ \A t \in Task : task'[t] = Idle
      /\ UNCHANGED <<objectives, linked, mission, account, usage>>
      /\ \A c \in Id : commands'[c].state = CASE commands[c].state = "queued" -> "interrupted_before_start"
                            [] commands[c].state \in {"running", "reconciling"} -> "blocked_unknown"
                            [] OTHER -> commands[c].state
  BY RestartAged DEF repositoryVars
<1>2. /\ ActiveNow' = ActiveNow /\ PendingNow' = PendingNow /\ Open' = {}
  BY <1>1, Names DEF ActiveNow, PendingNow, Open
<1>3. \A t \in Task : ~Holds(t)' /\ ~At(t, "activate")' /\ ~At(t, "fund")'
  BY <1>1, Records DEF Holds, At, Holding, Informed, Onward, Rebalancing, Reads
<1>4. NoHolder' /\ NobodyActivates'
  BY <1>3 DEF NoHolder, NobodyActivates
<1>5. /\ Used' = Used /\ (Charged(account)' <=> Charged(account))
      /\ (Funds(account)' <=> Funds(account)) /\ (Solvent(account)' <=> Solvent(account))
      /\ \A o \in Objective : /\ Linked(o)' = Linked(o)
                              /\ ChargedBut(account, Linked(o))' <=> ChargedBut(account, Linked(o))
  BY <1>1, <1>2 DEF Used, Charged, Funds, Prices, ChargedBut, Linked, Solvent, Remaining
<1>6. Unused'
  BY <1>1, Names DEF Books, Unused, Aged
<1>16. Listed'
  BY <1>1, ListedStays
<1>7. Backed'
  <2>1. \A c \in Child : commands[c].state = "succeeded" => commands'[c].state = "succeeded"
    BY <1>1, Names DEF Aged, Settled, RunEnds
  <2> QED BY <1>1, <2>1 DEF Books, Backed
<1>8. Solvency'
  <2>1. \A t \in Task : SolventTask(task'[t])
    BY <1>1, IdleSolvent
  <2>2. \A t \in Task : SolventTask(task[t])'
    BY <2>1 DEF SolventTask, Solvent, Remaining
  <2> QED BY <1>5, <2>2 DEF Books, Solvency
<1>9. account'.used <= Used'
  BY <1>1, <1>5 DEF Books
<1>10. ActiveCharged'
  <2>1. \A o \in ActiveNow : o \in Objective
    BY DEF ActiveNow
  <2>2. \A o : Prices(account, o)' <=> Prices(account, o)
    BY <1>1 DEF Prices
  <2> QED BY <1>2, <1>5, <2>1, <2>2 DEF Books, ActiveCharged
<1>11. HolderCharged' /\ ActivatingCharged'
  BY <1>3 DEF HolderCharged, ActivatingCharged
<1>12. Funded'
  BY <1>2, <1>4, <1>5 DEF Books, Funded
<1>13. FreshAccount'
  <2>1. Fresh' => Fresh
    BY <1>1, <1>3, Names DEF Fresh
  <2> QED BY <1>1, <2>1 DEF Books, FreshAccount
<1>14. DoneCharged'
  BY <1>1, <1>4, <1>5 DEF Books, DoneCharged, Done
<1>15. ASSUME NEW t \in Task PROVE Sound(t)'
  <2>1. task'[t].pc \notin Minded
    BY <1>1, Records DEF Minded
  <2> QED BY <2>1, SoundNot
<1> QED BY <1>6, <1>7, <1>8, <1>9, <1>10, <1>11, <1>12, <1>13, <1>14, <1>15, <1>16 DEF Books

LEMMA NothingUsed ==
  ASSUME Shape, \A c \in Child : usage[c] = 0
  PROVE  Used = 0
<1> DEFINE none == [c \in {} |-> 0]
<1>1. IsFiniteSet(Child) /\ {} \in SUBSET Child
  BY Names
<1>2. \A c \in Child : usage[c] = IF c \in {} THEN none[c] ELSE 0
  OBVIOUS
<1>3. \A c \in {} : none[c] \in Int
  OBVIOUS
<1> HIDE DEF none
<1>4. Total(usage, Child) = Total(none, {})
  BY <1>1, <1>2, <1>3, TotalOfPart
<1> QED BY <1>4, TotalEmpty DEF Used

LEMMA InitBooks ==
  ASSUME Init
  PROVE  Books
<1>1. /\ \A t \in Task : task[t] = Idle
      /\ mission.status = "absent" /\ account = InitialAccount
      /\ \A c \in Child : usage[c] = 0
      /\ \A o \in Objective : objectives[o].status = "absent" /\ objectives[o].budget = Cost[o]
  BY DEF Init, RepositoryInit
<1>2. Shape
  BY InitShape
<1>3. Used = 0 /\ account.used = 0 /\ Charged(account)
  BY <1>1, <1>2, NothingUsed DEF Charged, InitialAccount
<1>4. ActiveNow = {} /\ PendingNow = {}
  BY <1>1 DEF ActiveNow, PendingNow
<1>5. \A t \in Task : ~Holds(t) /\ ~At(t, "activate")
  BY <1>1, Records DEF Holds, At, Holding, Informed, Onward, Rebalancing, Reads
<1>6. Solvency
  BY <1>1, InitialSolvent, IdleSolvent DEF Solvency
<1>7. Listed /\ Unused /\ Backed /\ ActiveCharged /\ HolderCharged /\ ActivatingCharged
  BY <1>1, <1>4, <1>5 DEF Listed, Unused, Backed, ActiveCharged, HolderCharged, ActivatingCharged
<1>8. Funded /\ FreshAccount /\ DoneCharged
  BY <1>1, <1>4 DEF Funded, Funds, Prices, FreshAccount, DoneCharged
<1>9. \A t \in Task : Sound(t)
  BY <1>1, IdleSound
<1> QED BY <1>3, <1>6, <1>7, <1>8, <1>9 DEF Books

(* Steps that move the account or the objectives.  What every such step    *)
(* leaves alone comes first.                                               *)
LEMMA UnusedStays ==
  ASSUME Books, Aged, UNCHANGED usage
  PROVE  Unused' /\ Used' = Used
BY Names DEF Books, Unused, Aged, Used

LEMMA BackedStays ==
  ASSUME Books, Aged,
         \A o \in Objective : objectives'[o].status = "completed" => objectives[o].status = "completed"
  PROVE  Backed'
<1>1. \A c \in Child : commands[c].state = "succeeded" => commands'[c].state = "succeeded"
  BY Names DEF Aged, Settled, RunEnds
<1> QED BY <1>1 DEF Books, Backed

LEMMA SolvencyStays ==
  ASSUME Shape, Books, NEW t \in Task, NEW x, Becomes(t, x), SolventTask(x), Solvent(account')
  PROVE  Solvency'
<1>1. task'[t] = x /\ \A u \in Task \ {t} : task'[u] = task[u]
  BY DEF Shape, Becomes
<1>2. \A u \in Task : SolventTask(task'[u])
  BY <1>1 DEF Books, Solvency
<1>3. \A u \in Task : SolventTask(task[u])'
  BY <1>2 DEF SolventTask, Solvent, Remaining
<1>4. Solvent(account)'
  BY DEF Solvent, Remaining
<1> QED BY <1>3, <1>4 DEF Solvency

\* once a task has the turn, nothing is fresh and nothing is done
LEMMA HolderLate ==
  ASSUME Shape, Turns, Books, NEW t \in Task, Holds(t), ~At(t, "fund"), NEW x, Becomes(t, x),
         x.pc # "fund", UNCHANGED mission
  PROVE  FreshAccount' /\ DoneCharged'
<1>1. task'[t] = x /\ \A u \in Task \ {t} : task'[u] = task[u]
  BY DEF Shape, Becomes
<1>2. mission.status # "absent" /\ \A u \in Task \ {t} : ~Holds(u)
  BY HolderAlone
<1>3. \A u \in Task : ~At(u, "fund")'
  BY <1>1, <1>2 DEF At, Holds, Holding
<1>4. mission.status # "completed"
  BY DEF Books, DoneCharged, Done, NoHolder
<1> QED BY <1>2, <1>3, <1>4, Names DEF FreshAccount, Fresh, DoneCharged

\* a task that neither has the turn nor follows an active objective
LEMMA Unconcerned ==
  ASSUME Shape, NEW u \in Task, task'[u] = task[u], ~Holds(u),
         u \in Notifier => ~Committed(u) /\ ~At(u, "endMission") /\ ~FollowsActive(u)'
  PROVE  Sound(u)'
<1>1. /\ Committed(u)' <=> Committed(u)
      /\ Holds(u)' <=> Holds(u)
      /\ ReadsChild(u)' <=> ReadsChild(u)
      /\ \A p : At(u, p)' <=> At(u, p)
  BY TaskSame
<1>2. CASE u \in Notifier
  BY <1>1, <1>2, SoundIdle
<1>3. CASE u \in Submitter
  <2>1. task'[u].pc \notin Minded
    BY <1>3 DEF Shape, SubmitterFits, Minded, Holds, Holding, Informed, Onward, Reads
  <2> QED BY <2>1, SoundNot
<1> QED BY <1>2, <1>3, Names

\* before the account is saved for the first time nothing was created
LEMMA FreshStart ==
  ASSUME Shape, Turns, Books, Fresh
  PROVE  /\ \A c \in Child : ~Present(c)
         /\ Used = 0 /\ account = InitialAccount /\ Charged(account)
         /\ \A n \in Notifier : At(n, "idle")
         /\ \A o \in Objective : objectives[o].status \in {"pending", "absent"}
<1>1. /\ \A o \in Objective : linked[o] = 0 /\ objectives[o].status \in {"pending", "absent"}
      /\ NobodyActivates /\ (PendingNow = {} \/ ~Stuck)
  <2>1. CASE mission.status = "absent"
    <3>1. NoHolder /\ \A o \in Objective : linked[o] = 0 /\ objectives[o].status = "absent"
      BY <2>1 DEF Turns, NotYet
    <3> QED BY <3>1 DEF NoHolder, NobodyActivates, Holds, Holding, Informed, At, PendingNow
  <2>2. CASE \E s \in Submitter : At(s, "fund")
    <3>1. PICK s \in Submitter : At(s, "fund")
      BY <2>2
    <3>2. s \in Task /\ Holds(s) /\ ~At(s, "activate")
      BY <3>1, Names DEF Holds, Holding, At
    <3>3. NobodyActivates /\ ~Stuck
      BY <3>2, HolderAlone
    <3> QED BY <3>2, <3>3 DEF Turns, SubmitterFirst
  <2> QED BY <2>1, <2>2 DEF Fresh
<1>2. \A c \in Child : ~Present(c)
  <2> SUFFICES ASSUME NEW c \in Child, Present(c) PROVE FALSE
    OBVIOUS
  <2>1. c[2] >= 1 /\ c[2] \in Nat /\ linked[c[1]] = 0
    BY <1>1, Names DEF Turns, Versions
  <2>2. c[2] > linked[c[1]]
    BY <2>1
  <2>3. c[1] \in PendingNow /\ ((\E t \in Task : Chooses(t, c)) \/ Stuck)
    BY <2>2 DEF Turns, Versions
  <2> QED BY <1>1, <2>3 DEF Chooses, NobodyActivates
<1>3. \A c \in Child : usage[c] = 0
  BY <1>2 DEF Books, Unused, Present, Unended
<1>4. Used = 0 /\ account = InitialAccount
  BY <1>3, NothingUsed DEF Books, FreshAccount
<1>5. \A n \in Notifier : At(n, "idle")
  BY <1>2 DEF Shape, NotifierFits, At, Present
<1> QED BY <1>1, <1>2, <1>4, <1>5 DEF Charged, InitialAccount

LEMMA SubmissionBooks ==
  ASSUME Shape, Turns, Books, NEW s \in Submitter, SubmitCreates(s)
  PROVE  Books'
<1> DEFINE y == [task[s] EXCEPT !.pc = "fund"]
<1>1. /\ CreateMission /\ Becomes(s, y) /\ s \in Task /\ mission.status = "absent"
      /\ UNCHANGED <<journalVars, linked, account, usage>>
  BY Names DEF SubmitCreates, Goes, OnlyRows, Forgets, worldVars, CreateMission
<1>2. task[s] \in TaskRecord /\ y.pc = "fund" /\ y.snap = task[s].snap /\ y.account = task[s].account
  BY <1>1, GoesRecord DEF Shape, Pcs
<1>3. task'[s] = y /\ \A u \in Task \ {s} : task'[u] = task[u]
  BY <1>1 DEF Shape, Becomes
<1> HIDE DEF y
<1>4. NoHolder /\ \A o \in Objective : objectives[o].status = "absent"
  BY <1>1 DEF Turns, NotYet
<1>5. /\ \A n \in Notifier : At(n, "idle")
      /\ Used = 0 /\ account = InitialAccount /\ Charged(account)
  BY <1>1, FreshStart DEF Fresh
<1>6. /\ mission'.status = "accepted"
      /\ \A o \in Objective : /\ objectives'[o].status = IF o \in First THEN "pending" ELSE "absent"
                             /\ objectives'[o].budget = objectives[o].budget
  <2>1. objectives \in [Objective -> [status : ObjectiveStatuses, version : Nat, budget : Nat]]
    BY DEF Shape, TypeOK, RepositoryTypeOK
  <2>2. /\ mission' = [status |-> "accepted", version |-> 0]
        /\ objectives' = [o \in Objective |->
             IF o \in First THEN [objectives[o] EXCEPT !.status = "pending"] ELSE objectives[o]]
    BY <1>1 DEF CreateMission
  <2>3. ASSUME NEW o \in Objective
        PROVE  /\ objectives'[o].status = IF o \in First THEN "pending" ELSE "absent"
               /\ objectives'[o].budget = objectives[o].budget
    BY <1>4, <2>1, <2>2
  <2> QED BY <2>2, <2>3
<1>7. ActiveNow' = {} /\ PendingNow' = First
  BY <1>6, Names DEF ActiveNow, PendingNow
<1>8. Aged /\ UNCHANGED accepting
  BY <1>1, NothingAges DEF journalVars
<1>9. Unused' /\ Used' = Used /\ Backed' /\ Listed'
  BY <1>1, <1>4, <1>6, <1>8, UnusedStays, BackedStays, ListedStays
<1>10. Charged(account)' /\ account'.used <= Used' /\ Funds(account)'
  <2>1. Charged(account)' /\ account'.used <= Used'
    BY <1>1, <1>5, <1>9, UsedTyped DEF Charged, Account
  <2>2. \A o \in First : /\ InitialAccount.reserved[o] # 0
                         /\ InitialAccount.reserved[o] = objectives'[o].budget
    BY <1>4, <1>6, Names DEF InitialAccount, Books, Listed
  <2> QED BY <1>1, <1>5, <1>7, <2>1, <2>2 DEF Funds, Prices
<1>11. Solvency'
  <2>1. SolventTask(y) /\ Solvent(account')
    BY <1>1, <1>2, <1>5, InitialSolvent DEF Books, Solvency, SolventTask
  <2> QED BY <1>1, <2>1, SolvencyStays
<1>12. ActiveCharged' /\ HolderCharged' /\ Funded'
  BY <1>7, <1>10 DEF ActiveCharged, HolderCharged, Funded
<1>13. ActivatingCharged'
  <2>1. \A u \in Task : ~At(u, "activate")'
    BY <1>2, <1>3, <1>4 DEF At, NoHolder, Holds, Holding, Informed
  <2> QED BY <2>1 DEF ActivatingCharged
<1>14. FreshAccount' /\ DoneCharged'
  BY <1>1, <1>5, <1>6 DEF FreshAccount, DoneCharged
<1>15. ASSUME NEW u \in Task PROVE Sound(u)'
  <2>1. CASE u = s
    BY <1>2, <1>3, <2>1, SoundNot DEF Minded
  <2>2. CASE u # s
    <3>1. task'[u] = task[u] /\ ~Holds(u)
      BY <1>3, <1>4, <2>2 DEF NoHolder
    <3>2. u \in Notifier => ~Committed(u) /\ ~At(u, "endMission") /\ ~FollowsActive(u)'
      BY <1>5, <1>7 DEF Committed, At, FollowsActive
    <3> QED BY <3>1, <3>2, Unconcerned
  <2> QED BY <2>1, <2>2
<1> QED BY <1>9, <1>10, <1>11, <1>12, <1>13, <1>14, <1>15 DEF Books

LEMMA CreatesBooks ==
  ASSUME Shape, Turns, Books, NEW t \in Task, AdvanceCreates(t)
  PROVE  Books'
<1> DEFINE y == [task[t] EXCEPT !.pc = "activate"]
<1>a. PICK c : c = ChosenChild(task[t].snap)
  OBVIOUS
<1>1. /\ At(t, "advance") /\ Holds(t) /\ ~At(t, "activate") /\ ~At(t, "fund") /\ task[t] \in TaskRecord
      /\ UNCHANGED <<objectives, linked, mission, account, usage>> /\ Becomes(t, y)
  BY DEF AdvanceCreates, AdvanceReady, At, Holds, Holding, Informed, Onward, Goes,
     repositoryVars, Forgets, worldVars, Shape
<1>2. y.pc = "activate" /\ y.snap = task[t].snap /\ Carries(t, y)
  BY <1>1, GoesRecord, CarriesOn DEF Pcs
<1> HIDE DEF y
<1>3. task'[t] = y /\ \A u \in Task \ {t} : task'[u] = task[u]
  BY <1>1 DEF Shape, Becomes
<1>4. /\ c \in Child /\ ~Present(c) /\ accepting /\ UNCHANGED accepting /\ Aged
      /\ commands'[c].state = "queued" /\ \A d \in Child \ {c} : commands'[d] = commands[d]
  BY <1>a, Creation, Names
<1>5. /\ ActiveNow = {} /\ ActiveNow' = {} /\ PendingNow' = PendingNow
      /\ \A u \in Task \ {t} : ~Holds(u) /\ ~At(u, "activate")
  BY <1>1, HolderAlone, MoneySame
<1>6. \A u \in Task \ {t} : ~Holds(u)' /\ ~At(u, "activate")'
  BY <1>3, <1>5 DEF Holds, At
<1>7. usage[c] = 0 /\ Charged(account) /\ account.used \in Nat
  BY <1>1, <1>4, UsedTyped DEF Books, Unused, Unended, Present, HolderCharged, Account
<1>8. Unused' /\ Backed' /\ Solvency' /\ Listed'
  <2>1. SolventTask(y) /\ Solvent(account')
    BY <1>1, <1>2, CarriesSolvent DEF Books, Solvency
  <2> QED BY <1>1, <1>4, <1>7, <2>1, UnusedStays, BackedStays, ListedStays, SolvencyStays
<1>9. account'.used <= Used' /\ ActiveCharged' /\ HolderCharged'
  <2>1. account'.used <= Used'
    BY <1>1 DEF Books, Used
  <2>2. ~(Holds(t)' /\ ~At(t, "activate")')
    BY <1>2, <1>3 DEF At
  <2> QED BY <1>5, <1>6, <2>1, <2>2 DEF ActiveCharged, HolderCharged
<1>10. ActivatingCharged'
  <2> SUFFICES ASSUME NEW u \in Task, At(u, "activate")'
               PROVE  account'.used + usage'[ChosenChild(task'[u].snap)] = Used'
    BY DEF ActivatingCharged
  <2>1. u = t
    BY <1>6
  <2>2. ChosenChild(task'[u].snap) = c
    BY <1>2, <1>3, <1>a, <2>1 DEF ChosenChild, Chosen
  <2>3. Used' = account.used
    BY <1>1, <1>7 DEF Charged, Used
  <2> QED BY <1>1, <1>7, <2>2, <2>3
<1>11. Funded'
  <2>1. Funds(account)
    BY <1>1, <1>4 DEF Books, Funded, NoHolder
  <2> QED BY <1>1, <1>5, <2>1 DEF Funded, Funds, Prices
<1>12. FreshAccount' /\ DoneCharged'
  BY <1>1, <1>2, HolderLate
<1>13. ASSUME NEW u \in Task PROVE Sound(u)'
  <2>1. CASE u = t
    BY <1>2, <1>3, <2>1, SoundNot DEF Minded
  <2>2. CASE u # t
    <3>1. task'[u] = task[u] /\ ~Holds(u)
      BY <1>3, <1>5, <2>2
    <3>2. ~Resting
      BY <1>1, <1>4 DEF Resting, NoHolder
    <3>3. u \in Notifier => ~Committed(u) /\ ~At(u, "endMission") /\ ~FollowsActive(u)'
      BY <1>5, <3>2, NothingRests DEF FollowsActive
    <3> QED BY <3>1, <3>3, Unconcerned
  <2> QED BY <2>1, <2>2
<1> QED BY <1>8, <1>9, <1>10, <1>11, <1>12, <1>13 DEF Books

LEMMA ActivatesBooks ==
  ASSUME Shape, Turns, Books, NEW t \in Task, AdvanceActivates(t)
  PROVE  Books'
<1>a. PICK o : o = Chosen(task[t].snap)
  OBVIOUS
<1>b. PICK version : version = objectives[o].version
  OBVIOUS
<1>c. PICK c : c = <<o, version + 1>>
  OBVIOUS
<1>1. /\ At(t, "activate") /\ Holds(t) /\ Knows(t) /\ ~At(t, "fund")
  BY DEF AdvanceActivates, At, Holds, Holding, Informed, Turns
<1>2. /\ o \in Objective /\ o \in PendingNow /\ version \in Nat
      /\ ChosenChild(task[t].snap) = c
      /\ TransitionObjective(o, version, "active", version + 1)
      /\ UNCHANGED <<journalVars, usage>>
  BY <1>1, <1>a, <1>b, <1>c, Activation
<1>3. PICK y \in TaskRecord :
        /\ Becomes(t, y)
        /\ \/ y = Idle
           \/ y.pc = "run" /\ y.snap = task[t].snap /\ y.account = task[t].account
  BY <1>1, Activation
<1>4. task'[t] = y /\ \A u \in Task \ {t} : task'[u] = task[u]
  BY <1>3 DEF Shape, Becomes
<1>5. y.pc \in {"idle", "run"} /\ ~Holding(y) /\ Carries(t, y)
  BY <1>3, Records, CarriesOn DEF Holding, Rebalancing, Informed, Onward, Reads, Carries
<1>6. /\ ActiveNow = {} /\ \A u \in Task \ {t} : ~Holds(u) /\ ~At(u, "activate")
  BY <1>1, HolderAlone
<1>7. \A u \in Task : ~Holds(u)' /\ ~At(u, "activate")'
  BY <1>4, <1>5, <1>6 DEF Holds, At
<1>8. /\ UNCHANGED <<commands, accepting, mission, account>> /\ Aged
      /\ objectives \in [Objective -> [status : ObjectiveStatuses, version : Nat, budget : Nat]]
      /\ linked \in [Objective -> Nat]
  BY <1>2, NothingAges DEF journalVars, TransitionObjective, Shape, TypeOK, RepositoryTypeOK
<1>9. /\ objectives'[o].status = "active" /\ linked'[o] = version + 1
      /\ \A p \in Objective \ {o} : objectives'[p] = objectives[p] /\ linked'[p] = linked[p]
      /\ objectives'[o].budget = objectives[o].budget
  BY <1>2, <1>8 DEF TransitionObjective
<1>10. ActiveNow' = {o} /\ PendingNow' \subseteq PendingNow
  BY <1>2, <1>6, <1>9 DEF ActiveNow, PendingNow
<1>11. /\ Linked(o)' = c /\ c[1] = o
       /\ account.used + usage[c] = Used /\ Funds(account) /\ Prices(account, o)
  <2>1. account.used + usage[c] = Used
    BY <1>1, <1>2 DEF Books, ActivatingCharged
  <2>2. Funds(account)
    BY <1>1 DEF Books, Funded, NobodyActivates
  <2> QED BY <1>2, <1>9, <1>c, <2>1, <2>2 DEF Linked, Funds, Prices
<1>12. Unused' /\ Used' = Used /\ Backed' /\ Solvency' /\ Listed'
  <2>3. Listed'
    BY <1>9, ListedStays
  <2>1. \A p \in Objective : objectives'[p].status = "completed" => objectives[p].status = "completed"
    BY <1>9
  <2>2. SolventTask(y) /\ Solvent(account')
    BY <1>5, <1>8, CarriesSolvent DEF Books, Solvency
  <2> QED BY <1>2, <1>3, <1>8, <2>1, <2>2, <2>3, UnusedStays, BackedStays, SolvencyStays
<1>13. account'.used <= Used' /\ HolderCharged' /\ ActivatingCharged'
  BY <1>7, <1>8, <1>12 DEF Books, HolderCharged, ActivatingCharged
<1>14. Funds(account)' /\ Funded'
  BY <1>8, <1>9, <1>10, <1>11 DEF Funded, Funds, Prices, PendingNow
<1>15. ActiveCharged'
  <2>1. account'.used + usage'[c] = Used' /\ Prices(account, o)'
    BY <1>2, <1>8, <1>9, <1>11, <1>12 DEF Prices
  <2>2. ChargedBut(account, Linked(o))'
    BY <1>11, <2>1 DEF ChargedBut, Prices
  <2> QED BY <1>10, <2>1, <2>2 DEF ActiveCharged
<1>16. FreshAccount' /\ DoneCharged'
  BY <1>1, <1>3, <1>5, <1>8, HolderLate
<1>17. ASSUME NEW u \in Task PROVE Sound(u)'
  <2>1. CASE u = t
    BY <1>4, <1>5, <2>1, SoundNot DEF Minded
  <2>2. CASE u # t
    <3>1. task'[u] = task[u] /\ ~Holds(u)
      BY <1>4, <1>6, <2>2
    <3>2. ~Resting
      BY <1>1 DEF Resting, NobodyActivates
    <3>3. ASSUME u \in Notifier, FollowsActive(u)' PROVE FALSE
      <4>1. /\ ReadsChild(u) /\ OnRow(u) /\ At(u, "objectives") /\ ObjectiveOf(u) = o
        BY <1>10, <3>1, <3>3, TaskSame DEF FollowsActive
      <4> QED BY <1>1, <1>2, <2>2, <3>3, <4>1, NotFollowed DEF At
    <3> QED BY <3>1, <3>2, <3>3, NothingRests, Unconcerned
  <2> QED BY <2>1, <2>2
<1> QED BY <1>12, <1>13, <1>14, <1>15, <1>16, <1>17 DEF Books

LEMMA ObjectiveEndsBooks ==
  ASSUME Shape, Turns, Books, NEW n \in Notifier, NEW y \in TaskRecord, Becomes(n, y), Committed(n),
         task[n].pc \in {"endObjective", "failObjective"},
         NEW o, o = ObjectiveOf(n), NEW target \in {"completed", "failed", "blocked_unknown"},
         ObjectiveAdmits(o, VersionRead(n), target),
         TransitionObjective(o, VersionRead(n), target, task[n].child[2]),
         UNCHANGED <<journalVars, usage>>, Carries(n, y),
         \/ /\ target = "completed" /\ y.pc = "mission"
            /\ commands[task[n].child].state = "succeeded"
         \/ /\ target = "failed" /\ y.pc = "planner" /\ At(n, "failObjective")
            /\ y.account = task[n].account
         \/ /\ target # "completed" /\ y.pc = "endMission"
            /\ Outcome(n) = target /\ y.seen = task[n].seen
  PROVE  Books'
<1>1. /\ task'[n] = y /\ n \in Task /\ \A u \in Task \ {n} : task'[u] = task[u]
  BY Names DEF Shape, Becomes
<1>2. /\ o \in Objective /\ o \in ActiveNow
      /\ NoHolder /\ NobodyActivates
      /\ ActiveNow' = {} /\ PendingNow' = PendingNow
      /\ objectives'[o].status = target
      /\ \A p \in Objective \ {o} : objectives'[p] = objectives[p]
      /\ \A p \in Objective : objectives'[p].budget = objectives[p].budget
  BY ActiveEnds
<1>3. /\ UNCHANGED <<commands, accepting, mission, account>> /\ Aged
  BY NothingAges DEF journalVars, TransitionObjective
<1>4. Unused' /\ Used' = Used /\ Listed'
  BY <1>2, <1>3, UnusedStays, ListedStays
<1>5. Charged(account) /\ Charged(account)' /\ Funds(account)'
  <2>1. Charged(account) /\ Funds(account)
    BY <1>1, <1>2 DEF Books, Sound, Funded
  <2> QED BY <1>2, <1>3, <1>4, <2>1 DEF Charged, Funds, Prices, PendingNow
<1>6. Backed'
  <2>1. task[n].child \in Child /\ task[n].child[1] = o
    BY <1>1, AboutChild DEF Committed, Unlooked, At, ObjectiveOf
  <2>2. ASSUME NEW p \in Objective, objectives'[p].status = "completed"
        PROVE  \E c \in Child : c[1] = p /\ commands'[c].state = "succeeded"
    <3>1. CASE p = o
      <4>1. commands'[task[n].child].state = "succeeded"
        BY <1>2, <1>3, <2>2, <3>1
      <4> QED BY <2>1, <3>1, <4>1
    <3>2. CASE p # o
      BY <1>2, <1>3, <2>2, <3>2 DEF Books, Backed
    <3> QED BY <3>1, <3>2
  <2> QED BY <2>2 DEF Backed
<1>7. Solvency'
  <2>1. SolventTask(y) /\ Solvent(account')
    BY <1>1, <1>3, CarriesSolvent DEF Books, Solvency
  <2> QED BY <1>1, <2>1, SolvencyStays
<1>8. account'.used <= Used' /\ ActiveCharged' /\ HolderCharged' /\ Funded'
  BY <1>2, <1>3, <1>4, <1>5 DEF Books, ActiveCharged, HolderCharged, Funded
<1>9. ActivatingCharged'
  <2>1. \A u \in Task : ~At(u, "activate")'
    BY <1>1, <1>2 DEF NobodyActivates, At
  <2> QED BY <2>1 DEF ActivatingCharged
<1>10. FreshAccount' /\ DoneCharged'
  <2>1. mission.status # "absent" /\ mission.status \notin MissionEnds
    BY <1>2 DEF Turns, NotYet, EndedIsClosing, Closing, ActiveNow
  <2>2. \A u \in Task : ~At(u, "fund")'
    BY <1>1, <1>2 DEF At, NoHolder, Holds, Holding
  <2> QED BY <1>3, <2>1, <2>2, Names DEF FreshAccount, Fresh, DoneCharged, MissionEnds
<1>11. ASSUME NEW u \in Task PROVE Sound(u)'
  <2>1. CASE u = n
    <3>1. CASE y.pc = "mission"
      BY <1>1, <2>1, <3>1, SoundNot DEF Minded
    <3>2. CASE y.pc = "planner" /\ At(n, "failObjective") /\ y.account = task[n].account
      <4>1. PICK own : own = y.account
        OBVIOUS
      <4>2. Charged(own) /\ Funds(own)
        BY <1>1, <1>2, <3>2, <4>1 DEF Books, Sound
      <4>3. Charged(own)' /\ Funds(own)'
        BY <1>2, <1>4, <4>2 DEF Charged, Funds, Prices, PendingNow
      <4> QED BY <1>1, <2>1, <3>2, <4>1, <4>3
              DEF Sound, At, Exploring, FollowsActive, Charged, Funds, Prices
    <3>3. CASE y.pc = "endMission" /\ Outcome(n) # "completed" /\ y.seen = task[n].seen
      <4>1. Outcome(n)' # "completed"
        BY <1>1, <3>3 DEF Outcome
      <4> QED BY <1>1, <2>1, <3>3, <4>1 DEF Sound, At, Exploring, FollowsActive
    <3> QED BY <3>1, <3>2, <3>3
  <2>2. CASE u # n
    <3>1. task'[u] = task[u] /\ Sound(u) /\ ~Holds(u)
      BY <1>1, <1>2, <2>2 DEF Books, NoHolder
    <3>2. ~At(u, "rearm") /\ \A p \in PendingNow : objectives'[p].budget = objectives[p].budget
      BY <1>2, <3>1 DEF PendingNow, At, Holds, Holding, Rebalancing
    <3> QED BY <1>2, <1>3, <1>5, <3>1, <3>2, SoundStays
  <2> QED BY <2>1, <2>2
<1> QED BY <1>4, <1>6, <1>7, <1>8, <1>9, <1>10, <1>11 DEF Books

LEMMA FailsObjectiveBooks ==
  ASSUME Shape, Turns, Books, NEW n \in Notifier, RebalanceFailsObjective(n)
  PROVE  Books'
<1>1. PICK o : o = ObjectiveOf(n)
  OBVIOUS
<1>2. /\ Committed(n) /\ task[n].pc = "failObjective" /\ n \in Task /\ task[n] \in TaskRecord
      /\ UNCHANGED <<journalVars, usage>> /\ At(n, "failObjective")
  BY Names DEF RebalanceFailsObjective, Committed, At, OnlyRows, Forgets, worldVars, Shape
<1>3. CASE ~ObjectiveAdmits(o, VersionRead(n), "failed")
  <2>1. UNCHANGED repositoryVars /\ Becomes(n, OnChild(task[n]))
    BY <1>1, <1>3 DEF RebalanceFailsObjective
  <2> QED BY <1>2, <2>1, BooksLeaves DEF repositoryVars
<1>4. CASE ObjectiveAdmits(o, VersionRead(n), "failed")
  <2>1. TransitionObjective(o, VersionRead(n), "failed", task[n].child[2]) /\ Goes(n, "planner")
    BY <1>1, <1>4 DEF RebalanceFailsObjective
  <2> DEFINE y == [task[n] EXCEPT !.pc = "planner"]
  <2>2. y \in TaskRecord /\ y.pc = "planner" /\ y.account = task[n].account /\ Carries(n, y)
    BY <1>2, GoesRecord, CarriesOn DEF Pcs
  <2>3. Becomes(n, y)
    BY <2>1 DEF Goes
  <2> HIDE DEF y
  <2> QED BY <1>1, <1>2, <1>4, <2>1, <2>2, <2>3, ObjectiveEndsBooks
<1> QED BY <1>3, <1>4

LEMMA EndsObjectiveBooks ==
  ASSUME Shape, Turns, Books, NEW n \in Notifier, ChildEndsObjective(n)
  PROVE  Books'
<1>1. PICK o : o = ObjectiveOf(n)
  OBVIOUS
<1>2. /\ Committed(n) /\ task[n].pc = "endObjective" /\ n \in Task /\ task[n] \in TaskRecord
      /\ task[n].pc \notin Unlooked \union {"checks"} /\ ~At(n, "idle")
      /\ UNCHANGED <<journalVars, usage>>
  BY Names DEF ChildEndsObjective, Committed, At, Unlooked, OnlyRows, Forgets, worldVars, Shape
<1>3. PICK target \in {"completed", "failed", "blocked_unknown"} : target = Outcome(n)
  BY DEF Outcome
<1>4. CASE ~ObjectiveAdmits(o, VersionRead(n), target)
  <2>1. UNCHANGED repositoryVars /\ Becomes(n, Idle)
    BY <1>1, <1>3, <1>4 DEF ChildEndsObjective
  <2> QED BY <1>2, <2>1, BooksLeaves DEF repositoryVars
<1>5. CASE ObjectiveAdmits(o, VersionRead(n), target)
  <2>1. /\ TransitionObjective(o, VersionRead(n), target, task[n].child[2])
        /\ IF target = "completed" THEN Calls(n, "advance") ELSE Goes(n, "endMission")
    BY <1>1, <1>3, <1>5 DEF ChildEndsObjective
  <2>2. CASE target = "completed"
    <3>1. task[n].seen = "succeeded"
      BY <1>3, <2>2 DEF Outcome, Verification
    <3>2. commands[task[n].child].state = "succeeded"
      BY <1>2, <3>1, AboutChild, StateMembers DEF NotifierFits, Settled, RunEnds
    <3> DEFINE y == Reading(task[n], "advance")
    <3>3. y \in TaskRecord /\ y.pc = "mission" /\ Carries(n, y)
      BY <1>2, ReadingRecord, CarriesOn DEF Procedures
    <3>4. Becomes(n, y)
      BY <2>1, <2>2 DEF Calls
    <3> HIDE DEF y
    <3> QED BY <1>1, <1>2, <1>5, <2>1, <2>2, <3>2, <3>3, <3>4, ObjectiveEndsBooks
  <2>3. CASE target # "completed"
    <3> DEFINE y == [task[n] EXCEPT !.pc = "endMission"]
    <3>1. y \in TaskRecord /\ y.pc = "endMission" /\ y.seen = task[n].seen /\ Carries(n, y)
      BY <1>2, GoesRecord, CarriesOn DEF Pcs
    <3>2. Becomes(n, y)
      BY <2>1, <2>3 DEF Goes
    <3> HIDE DEF y
    <3> QED BY <1>1, <1>2, <1>3, <1>5, <2>1, <2>3, <3>1, <3>2, ObjectiveEndsBooks
  <2> QED BY <2>2, <2>3
<1> QED BY <1>4, <1>5

LEMMA PendingBooks ==
  ASSUME Shape, Turns, Books, NEW n \in Notifier, NEW y, Becomes(n, y), Holds(n),
         task[n].pc \in {"rearm", "append"}, y.pc = "mission", Carries(n, y),
         NEW o \in Objective, objectives'[o].status = "pending",
         \A p \in Objective \ {o} : objectives'[p] = objectives[p],
         accepting => Prices(account, o), objectives'[o].budget = objectives[o].budget,
         UNCHANGED <<journalVars, linked, mission, account, usage>>
  PROVE  Books'
<1>1. /\ task'[n] = y /\ n \in Task /\ \A u \in Task \ {n} : task'[u] = task[u]
      /\ ~At(n, "activate") /\ ~At(n, "fund")
  BY Names DEF Shape, Becomes, At
<1>2. ActiveNow = {} /\ \A u \in Task \ {n} : ~Holds(u) /\ ~At(u, "activate")
  BY <1>1, HolderAlone
<1>3. ActiveNow' = {} /\ \A p \in PendingNow' : p = o \/ p \in PendingNow
  BY <1>2 DEF ActiveNow, PendingNow
<1>4. UNCHANGED <<commands, accepting>> /\ Aged
  BY NothingAges DEF journalVars
<1>5. Unused' /\ Used' = Used /\ Backed' /\ Solvency' /\ Listed'
  <2>3. Listed'
    BY ListedStays
  <2>1. \A p \in Objective : objectives'[p].status = "completed" => objectives[p].status = "completed"
    OBVIOUS
  <2>2. SolventTask(y) /\ Solvent(account')
    BY <1>1, CarriesSolvent DEF Books, Solvency
  <2> QED BY <1>1, <1>4, <2>1, <2>2, <2>3, UnusedStays, BackedStays, SolvencyStays
<1>6. account'.used <= Used' /\ Charged(account)'
  <2>1. Charged(account)
    BY <1>1 DEF Books, HolderCharged
  <2> QED BY <1>5, <2>1 DEF Books, Charged
<1>7. \A u \in Task : ~At(u, "activate")'
  BY <1>1, <1>2 DEF At
<1>8. ActiveCharged' /\ HolderCharged' /\ ActivatingCharged'
  BY <1>3, <1>6, <1>7 DEF ActiveCharged, HolderCharged, ActivatingCharged
<1>9. Funded'
  <2>1. accepting => Funds(account)
    BY <1>1 DEF Books, Funded, NoHolder
  <2>2. accepting' => Funds(account)'
    BY <1>3, <1>4, <2>1 DEF Funds, Prices, PendingNow
  <2> QED BY <1>3, <1>7, <2>2 DEF Funded, NobodyActivates
<1>10. FreshAccount' /\ DoneCharged'
  BY <1>1, HolderLate
<1>11. ASSUME NEW u \in Task PROVE Sound(u)'
  <2>1. CASE u = n
    BY <1>1, <2>1, SoundNot DEF Minded
  <2>2. CASE u # n
    <3>1. task'[u] = task[u] /\ Sound(u) /\ ~Holds(u)
      BY <1>1, <1>2, <2>2 DEF Books
    <3>2. task[u].pc \in {"endObjective", "failObjective"} => Charged(account')
      BY <3>1 DEF Sound
    <3>3. ~At(u, "rearm") /\ \A p \in PendingNow : objectives'[p].budget = objectives[p].budget
      BY <3>1 DEF PendingNow, At, Holds, Holding, Rebalancing
    <3> QED BY <1>3, <3>1, <3>2, <3>3, SoundStays
  <2> QED BY <2>1, <2>2
<1> QED BY <1>5, <1>6, <1>8, <1>9, <1>10, <1>11 DEF Books

LEMMA RearmsBooks ==
  ASSUME Shape, Turns, Books, NEW n \in Notifier, RebalanceRearms(n)
  PROVE  Books'
<1>1. PICK o : o = ObjectiveOf(n)
  OBVIOUS
<1>2. /\ task[n].pc = "rearm" /\ n \in Task /\ task[n] \in TaskRecord /\ ~At(n, "idle")
      /\ task[n].pc \notin Unlooked /\ Holds(n) /\ UNCHANGED <<journalVars, usage>>
  BY Names DEF RebalanceRearms, At, Unlooked, OnlyRows, Forgets, worldVars, Shape, Rebalancing,
     Holds, Holding
<1>3. o \in Objective /\ (accepting => Prices(account, o))
  <2>1. Sound(n)
    BY <1>2 DEF Books
  <2> QED BY <1>1, <1>2, <2>1, AboutChild DEF Sound, At
<1>4. CASE ~MayRetry(o, VersionRead(n) + 2)
  <2>1. UNCHANGED repositoryVars /\ Becomes(n, OnChild(task[n]))
    BY <1>1, <1>4 DEF RebalanceRearms
  <2> QED BY <1>2, <2>1, BooksLeaves DEF repositoryVars
<1>5. CASE MayRetry(o, VersionRead(n) + 2)
  <2>1. RearmObjective(o, VersionRead(n) + 2) /\ Calls(n, "advance")
    BY <1>1, <1>5 DEF RebalanceRearms
  <2>2. objectives \in [Objective -> [status : ObjectiveStatuses, version : Nat, budget : Nat]]
    BY DEF Shape, TypeOK, RepositoryTypeOK
  <2>3. /\ objectives'[o].status = "pending" /\ UNCHANGED <<linked, mission, account>>
        /\ \A p \in Objective \ {o} : objectives'[p] = objectives[p]
        /\ objectives'[o].budget = objectives[o].budget
    BY <1>3, <2>1, <2>2 DEF RearmObjective, MayRetry
  <2> DEFINE y == Reading(task[n], "advance")
  <2>4. y.pc = "mission" /\ Carries(n, y)
    BY <1>2, ReadingRecord, CarriesOn DEF Procedures
  <2>5. Becomes(n, y)
    BY <2>1 DEF Calls
  <2> HIDE DEF y
  <2> QED BY <1>2, <1>3, <2>3, <2>4, <2>5, PendingBooks
<1> QED BY <1>4, <1>5

LEMMA AppendsBooks ==
  ASSUME Shape, Turns, Books, NEW n \in Notifier, ExploreAppends(n)
  PROVE  Books'
<1>1. PICK o : o = Proposed(n)
  OBVIOUS
<1>2. /\ task[n].pc = "append" /\ n \in Task /\ task[n] \in TaskRecord
      /\ Holds(n) /\ ~At(n, "idle") /\ At(n, "append") /\ UNCHANGED <<journalVars, usage>>
  BY Names DEF ExploreAppends, At, OnlyRows, Forgets, worldVars, Shape, Holds, Holding, Informed
<1>3. o \in Objective /\ (accepting => account.reserved[o] = Cost[o]) /\ Cost[o] # 0
  <2>1. Unproposed(task[n].snap) # {} /\ task[n].snap \in SnapRecord
    BY <1>2, AboutChild DEF Turns, Knows
  <2>2. Sound(n)
    BY <1>2 DEF Books
  <2> QED BY <1>1, <1>2, <2>1, <2>2, UnproposedChosen, Names DEF Proposed, Sound
<1>4. CASE objectives[o].status # "absent"
  <2>1. UNCHANGED repositoryVars /\ Becomes(n, Idle)
    BY <1>1, <1>4 DEF ExploreAppends
  <2> QED BY <1>2, <2>1, BooksLeaves DEF repositoryVars
<1>5. CASE objectives[o].status = "absent"
  <2> DEFINE z == [task[n] EXCEPT !.caller = "explore"]
             y == Reading(z, "advance")
  <2>1. AppendObjective(o) /\ Becomes(n, y)
    BY <1>1, <1>5 DEF ExploreAppends
  <2>2. objectives \in [Objective -> [status : ObjectiveStatuses, version : Nat, budget : Nat]]
    BY DEF Shape, TypeOK, RepositoryTypeOK
  <2>3. /\ objectives'[o].status = "pending" /\ UNCHANGED <<linked, mission, account>>
        /\ \A p \in Objective \ {o} : objectives'[p] = objectives[p]
        /\ objectives'[o].budget = objectives[o].budget
    BY <1>3, <2>1, <2>2 DEF AppendObjective
  <2>7. accepting => Prices(account, o)
    BY <1>3, <1>5 DEF Books, Listed, Prices
  <2>4. z \in TaskRecord /\ z.account = task[n].account
    BY <1>2 DEF TaskRecord
  <2> HIDE DEF z
  <2>5. y.pc = "mission" /\ y.snap = NoSnapshot /\ y.account = task[n].account
    BY <2>4, ReadingRecord DEF Procedures
  <2> HIDE DEF y
  <2>6. Carries(n, y)
    BY <2>5 DEF Carries, NoSnapshot
  <2> QED BY <1>2, <1>3, <2>1, <2>3, <2>5, <2>6, <2>7, PendingBooks
<1> QED BY <1>4, <1>5

(* The account is overwritten, by a task that has the turn or by one that  *)
(* follows the command that ended last.                                    *)
LEMMA PaysBooks ==
  ASSUME Shape, Turns, Books, NEW n \in Notifier, NEW y, Becomes(n, y), task[n].pc # "idle",
         UNCHANGED <<journalVars, mission, objectives, linked, usage>>,
         Charged(account'), Solvent(account'), SolventTask(y),
         y.pc \notin {"activate", "fund"}, Holding(y) => Holds(n),
         NobodyActivates, Open = {}, Holds(n) \/ (accepting => NoHolder),
         \A o \in ActiveNow : account'.reserved[o] = 0,
         accepting /\ ~NoHolder => Funds(account'),
         ActiveNow # {} => Funds(account'),
         Sound(n)'
  PROVE  Books'
<1>1. /\ task'[n] = y /\ n \in Task /\ \A u \in Task \ {n} : task'[u] = task[u]
      /\ UNCHANGED <<commands, accepting>> /\ Aged
  BY Names, NothingAges DEF Shape, Becomes, journalVars
<1>2. /\ NoHolder => NoHolder'
      /\ NobodyActivates'
  BY <1>1 DEF NoHolder, NobodyActivates, Holds, At
<1>3. /\ ActiveNow' = ActiveNow /\ PendingNow' = PendingNow /\ Open' = {}
  BY <1>1, MoneySame DEF Open
<1>4. Unused' /\ Used' = Used /\ Backed' /\ Solvency' /\ Listed'
  BY <1>1, UnusedStays, BackedStays, ListedStays, SolvencyStays
<1>5. Charged(account)' /\ (Funds(account)' <=> Funds(account'))
  BY <1>3, <1>4 DEF Charged, Funds, Prices
<1>6. account'.used <= Used'
  <2>1. account'.used = Used /\ Used \in Nat
    BY UsedTyped DEF Charged
  <2> QED BY <1>4, <2>1
<1>7. ActiveCharged'
  <2>1. \A o \in ActiveNow : ChargedBut(account, Linked(o))'
    BY <1>5 DEF ChargedBut, Linked, Charged
  <2> QED BY <1>3, <2>1 DEF ActiveCharged
<1>8. HolderCharged' /\ ActivatingCharged'
  BY <1>2, <1>5 DEF HolderCharged, ActivatingCharged, NobodyActivates
<1>9. Funded'
  BY <1>1, <1>2, <1>3, <1>5 DEF Funded
<1>10. FreshAccount'
  <2>1. ~Fresh
    BY FreshStart DEF At
  <2>2. n \notin Submitter
    BY CoordinatorAssumption
  <2> QED BY <1>1, <2>1, <2>2, Names DEF FreshAccount, Fresh, At
<1>11. DoneCharged'
  BY <1>2, <1>5 DEF Books, DoneCharged, Done
<1>12. ASSUME NEW u \in Task PROVE Sound(u)'
  <2>1. CASE u = n
    BY <2>1
  <2>2. CASE u # n
    <3>1. task'[u] = task[u] /\ Sound(u)
      BY <1>1, <2>2 DEF Books
    <3>2. Holds(u) => ~accepting
      <4>1. Holds(n) => ~Holds(u)
        BY <1>1, <2>2, HolderAlone
      <4> QED BY <4>1 DEF NoHolder
    <3> QED BY <1>1, <1>3, <3>1, <3>2, SoundStays
  <2> QED BY <2>1, <2>2
<1> QED BY <1>4, <1>6, <1>7, <1>8, <1>9, <1>10, <1>11, <1>12 DEF Books

(* What is settled lacks only the charge of the command.                   *)
LEMMA SettlesRight ==
  ASSUME Shape, Turns, Books, NEW n \in Notifier, Committed(n), task[n].pc \in {"rebalance", "settle"},
         NEW acct, acct = task[n].snap.account, NEW o, o = ObjectiveOf(n),
         NEW after, after = Settle(acct, o, usage[task[n].child]),
         Settles(acct, o, usage[task[n].child])
  PROVE  /\ Charged(after) /\ Solvent(after)
         /\ NobodyActivates /\ Open = {} /\ (accepting => NoHolder)
         /\ \A p \in ActiveNow : after.reserved[p] = 0
         /\ ActiveNow # {} => Funds(after)
<1>1. ~At(n, "idle") /\ n \in Task
  BY Names DEF At
<1>2. PICK c : c = task[n].child
  OBVIOUS
<1>3. /\ acct \in Account /\ o \in Objective /\ c \in Child /\ usage[c] \in Nat
      /\ c = <<o, c[2]>> /\ c[1] = o
  BY <1>1, <1>2, AboutChild DEF ObjectiveOf
<1>4. acct.used \in Nat /\ acct.reserved[o] \in Nat
  BY <1>3 DEF Account
<1>5. acct.reserved[o] # 0 /\ usage[c] <= acct.reserved[o]
  BY <1>2 DEF Settles
<1>6. /\ after.used = acct.used + usage[c] /\ after.reserved[o] = 0
      /\ \A p \in Objective \ {o} : after.reserved[p] = acct.reserved[p]
  BY <1>2, <1>3, SettleTyped
<1>7. Settling(c)
  BY <1>2 DEF Turns, Follows
<1>8. Sound(n)
  BY <1>1 DEF Books
<1>9. ChargedBut(acct, c) /\ (ActiveNow # {} => Funds(acct))
  BY <1>2, <1>8 DEF Sound
<1>10. Charged(after)
  BY <1>3, <1>5, <1>6, <1>9 DEF Charged, ChargedBut
<1>11. Solvent(after)
  <2>1. Solvent(acct)
    BY <1>1 DEF Books, Solvency, SolventTask
  <2> QED BY <1>2, <1>3, <1>5, <2>1, SettleSolvent
<1>12. \A p \in ActiveNow : p = o
  BY <1>3, <1>7 DEF Settling, Linked
<1>13. ActiveNow # {} => Funds(after)
  BY <1>6, <1>9, <1>12 DEF Funds, Prices, ActiveNow, PendingNow
<1> QED BY <1>6, <1>7, <1>10, <1>11, <1>12, <1>13 DEF Settling, Resting

LEMMA SettlesBooks ==
  ASSUME Shape, Turns, Books, NEW n \in Notifier, RebalanceSettles(n) \/ ChildSettles(n)
  PROVE  Books'
<1>1. /\ UNCHANGED <<journalVars, objectives, linked, mission, usage>>
      /\ task[n] \in TaskRecord /\ n \in Task /\ task[n].pc \in {"rebalance", "settle"}
      /\ task[n].pc # "idle"
  BY Names DEF RebalanceSettles, ChildSettles, OnlyRows, Forgets, worldVars, repositoryVars,
     SaveBudget, Shape, At
<1>2. PICK acct, o, after :
        acct = task[n].snap.account /\ o = ObjectiveOf(n) /\ after = Settle(acct, o, usage[task[n].child])
  OBVIOUS
<1>3. \A acc : Charged(acc)' <=> Charged(acc)
  BY <1>1, MoneySame
<1>4. CASE RebalanceSettles(n)
  <2>1. PICK y \in TaskRecord :
          /\ Becomes(n, y) /\ y.pc = "failObjective" /\ y.snap = task[n].snap
          /\ y.account = Settle(task[n].snap.account, ObjectiveOf(n), usage[task[n].child])
          /\ SaveBudget(Settle(task[n].snap.account, ObjectiveOf(n), usage[task[n].child]))
          /\ RebalanceCandidate(n)
          /\ Settles(task[n].snap.account, ObjectiveOf(n), usage[task[n].child])
    BY <1>4, SettledRecord, Zenon
  <2>2. /\ Becomes(n, y) /\ y.pc = "failObjective" /\ y.snap = task[n].snap /\ y.account = after
        /\ account' = after /\ Settles(acct, o, usage[task[n].child])
    BY <1>2, <2>1 DEF SaveBudget
  <2>3. Committed(n)
    BY <1>4 DEF RebalanceSettles, At, Committed, RebalanceCandidate, OnRow, StatusRead
  <2>4. /\ Charged(after) /\ Solvent(after)
        /\ NobodyActivates /\ Open = {} /\ (accepting => NoHolder)
        /\ \A p \in ActiveNow : after.reserved[p] = 0
        /\ ActiveNow # {} => Funds(after)
    BY <1>1, <1>2, <2>2, <2>3, SettlesRight
  <2>5. SolventTask(y)
    BY <1>1, <2>2, <2>4 DEF Books, Solvency, SolventTask
  <2>6. task'[n] = y /\ ~Holding(y)
    BY <1>1, <2>2 DEF Shape, Becomes, Holding, Rebalancing, Informed, Onward, Reads
  <2>7. Sound(n)'
    <3>1. Charged(after)' /\ (ActiveNow' # {} => Funds(after)')
      BY <1>1, <2>4, MoneySame
    <3> QED BY <2>2, <2>6, <3>1 DEF Sound, At, Exploring, FollowsActive, Charged, Funds, Prices
  <2> QED BY <1>1, <2>2, <2>4, <2>5, <2>6, <2>7, PaysBooks
<1>5. CASE ChildSettles(n)
  <2>1. CASE ~Settles(acct, o, usage[task[n].child])
    <3>1. UNCHANGED repositoryVars /\ Becomes(n, Idle)
      BY <1>2, <1>5, <2>1 DEF ChildSettles
    <3> QED BY <1>1, <3>1, BooksLeaves DEF repositoryVars
  <2>2. CASE Settles(acct, o, usage[task[n].child])
    <3> DEFINE y == [task[n] EXCEPT !.pc = "endObjective"]
    <3>1. y.pc = "endObjective" /\ Carries(n, y)
      BY <1>1, GoesRecord, CarriesOn DEF Pcs
    <3>2. /\ account' = after /\ Becomes(n, y)
      BY <1>2, <1>5, <2>2 DEF ChildSettles, Goes, SaveBudget
    <3>3. Committed(n) /\ task[n].pc = "settle"
      BY <1>5 DEF ChildSettles, At, Committed
    <3> HIDE DEF y
    <3>4. /\ Charged(after) /\ Solvent(after)
          /\ NobodyActivates /\ Open = {} /\ (accepting => NoHolder)
          /\ \A p \in ActiveNow : after.reserved[p] = 0
          /\ ActiveNow # {} => Funds(after)
      BY <1>1, <1>2, <2>2, <3>3, SettlesRight
    <3>5. SolventTask(y)
      BY <1>1, <3>1, CarriesSolvent
    <3>6. task'[n] = y /\ ~Holding(y)
      BY <1>1, <3>1, <3>2 DEF Shape, Becomes, Holding, Rebalancing, Informed, Onward, Reads
    <3>7. Sound(n)'
      <4>1. Charged(account)'
        BY <1>1, <3>2, <3>4, MoneySame DEF Charged
      <4> QED BY <3>1, <3>6, <4>1 DEF Sound, At, Exploring, FollowsActive
    <3> QED BY <1>1, <3>1, <3>2, <3>4, <3>5, <3>6, <3>7, PaysBooks
  <2> QED BY <2>1, <2>2
<1> QED BY <1>4, <1>5

LEMMA ReservesBooks ==
  ASSUME Shape, Turns, Books, NEW n \in Notifier, RebalanceReserves(n)
  PROVE  Books'
<1> DEFINE y == [task[n] EXCEPT !.pc = "replace"]
<1>1. /\ UNCHANGED <<journalVars, objectives, linked, mission, usage>>
      /\ task[n] \in TaskRecord /\ n \in Task /\ task[n].pc = "saveRetry" /\ At(n, "saveRetry")
      /\ account' = task[n].account /\ Becomes(n, y)
      /\ Holds(n) /\ ~At(n, "activate") /\ ~NoHolder
  BY Names DEF RebalanceReserves, OnlyRows, Forgets, worldVars, SaveBudget, Shape, At, Goes, Holds,
     Holding, Rebalancing, NoHolder
<1>2. /\ y.pc = "replace" /\ y.child = task[n].child /\ y.account = task[n].account /\ Carries(n, y)
  BY <1>1, GoesRecord, CarriesOn DEF Pcs
<1> HIDE DEF y
<1>3. PICK own : own = task[n].account
  OBVIOUS
<1>4. /\ Charged(own) /\ (accepting => Funds(own)) /\ own.reserved[ObjectiveOf(n)] # 0
  BY <1>1, <1>3 DEF Books, Sound
<1>5. ActiveNow = {} /\ Open = {} /\ NobodyActivates
  BY <1>1, HolderAlone
<1>6. SolventTask(y) /\ Solvent(own)
  BY <1>1, <1>2, <1>3, CarriesSolvent DEF Books, Solvency, SolventTask
<1>7. task'[n] = y
  BY <1>1 DEF Shape, Becomes
<1>8. Sound(n)'
  <2>1. ObjectiveOf(n)' = ObjectiveOf(n)
    BY <1>2, <1>7 DEF ObjectiveOf
  <2> QED BY <1>1, <1>2, <1>3, <1>4, <1>7, <2>1 DEF Sound, At, Exploring, FollowsActive
<1> QED BY <1>1, <1>2, <1>3, <1>4, <1>5, <1>6, <1>8, PaysBooks

LEMMA FundsBooks ==
  ASSUME Shape, Turns, Agenda, Books, NEW n \in Notifier, ExploreFunds(n)
  PROVE  Books'
<1>1. /\ UNCHANGED <<journalVars, objectives, linked, mission, usage>>
      /\ task[n] \in TaskRecord /\ n \in Task /\ task[n].pc = "fundProposal"
      /\ At(n, "fundProposal") /\ Holds(n) /\ ~At(n, "activate") /\ ~At(n, "idle") /\ ~NoHolder
  BY Names DEF ExploreFunds, OnlyRows, Forgets, worldVars, SaveBudget, Shape, At, Holds, Holding,
     Informed, NoHolder
<1>2. PICK before, o : before = task[n].snap.account /\ o = Proposed(n)
  OBVIOUS
<1>3. before \in Account /\ o \in Objective /\ Cost[o] \in Nat /\ Cost[o] # 0
  <2>1. Unproposed(task[n].snap) # {} /\ task[n].snap \in SnapRecord
    BY <1>1, AboutChild DEF Turns, Knows
  <2> QED BY <1>1, <1>2, <2>1, Names, AboutChild, UnproposedChosen DEF Proposed
<1>4. Charged(before) /\ (accepting => Funds(before)) /\ Solvent(before)
  BY <1>1, <1>2 DEF Books, Sound, Exploring, Solvency, SolventTask
<1>5. ActiveNow = {} /\ Open = {} /\ NobodyActivates
  BY <1>1, HolderAlone
<1>6. CASE ~Fits(n)
  <2>1. account' = before /\ Becomes(n, Idle) /\ Idle.pc = "idle"
    BY <1>2, <1>6, Records DEF ExploreFunds, SaveBudget
  <2>2. ~Holding(Idle) /\ task'[n].pc = "idle"
    BY <1>1, <2>1 DEF Holding, Informed, Onward, Rebalancing, Reads, Shape, Becomes
  <2>3. Sound(n)'
    BY <2>2, SoundNot DEF Minded
  <2> QED BY <1>1, <1>4, <1>5, <2>1, <2>2, <2>3, IdleSolvent, PaysBooks
<1>7. CASE Fits(n)
  <2> DEFINE y == [task[n] EXCEPT !.pc = "append"]
  <2>1. y.pc = "append" /\ y.snap = task[n].snap /\ Carries(n, y)
    BY <1>1, GoesRecord, CarriesOn DEF Pcs
  <2>2. PICK after : after = Reserve(before, o, Cost[o])
    OBVIOUS
  <2>3. account' = after /\ Becomes(n, y)
    BY <1>2, <1>7, <2>2 DEF ExploreFunds, SaveBudget, Goes
  <2> HIDE DEF y
  <2>4. /\ after.used = before.used /\ after.reserved[o] = Cost[o]
        /\ \A p \in Objective \ {o} : after.reserved[p] = before.reserved[p]
    BY <1>3, <2>2, ReserveTyped
  <2>10. o \notin PendingNow
    <3>1. o \in Objective \ First /\ o \notin task[n].snap.proposals
      <4>1. Unproposed(task[n].snap) # {} /\ task[n].snap \in SnapRecord
        BY <1>1, AboutChild DEF Turns, Knows
      <4> QED BY <1>2, <4>1, UnproposedChosen DEF Proposed
    <3>2. Appended \subseteq task[n].snap.proposals
      BY <1>1 DEF Agenda, Plotted, Exploring
    <3> QED BY <3>1, <3>2 DEF Appended, PendingNow
  <2>5. Charged(after) /\ (accepting => Funds(after))
    BY <1>3, <1>4, <2>4, <2>10 DEF Charged, Funds, Prices, PendingNow
  <2>6. Cost[o] <= Remaining(before)
    BY <1>2, <1>7 DEF Fits
  <2>7. Solvent(after) /\ SolventTask(y)
    BY <1>1, <1>3, <2>1, <2>2, <2>6, ReserveSolvent, CarriesSolvent
  <2>8. task'[n] = y
    BY <1>1, <2>3 DEF Shape, Becomes
  <2>9. Sound(n)'
    <3>1. Proposed(n)' = o
      BY <1>2, <2>1, <2>8 DEF Proposed, Unproposed
    <3> QED BY <1>3, <2>1, <2>3, <2>4, <2>8, <3>1 DEF Sound, At, Exploring, FollowsActive
  <2> QED BY <1>1, <1>5, <2>1, <2>3, <2>5, <2>7, <2>9, PaysBooks
<1> QED BY <1>6, <1>7

(* The worker files what the command that ended has used.  The account     *)
(* lacks that charge from then on, whoever is to act next: the command was *)
(* open, so nothing is being settled.                                      *)
LEMMA WorkerEndsBooks ==
  ASSUME Shape, Turns, Books, NEW outcome \in WorkerOutcomes, NEW actual \in Usage,
         WorkerEnds(outcome, actual)
  PROVE  Books'
<1> DEFINE y == [task["worker"] EXCEPT !.pc = "looks"]
<1>1. PICK c : c = task["worker"].child
  OBVIOUS
<1>2. /\ At("worker", "runs") /\ Becomes("worker", y) /\ "worker" \in Task /\ "worker" \in Notifier
      /\ task["worker"] \in TaskRecord /\ Transition(c, commands[c].version, outcome)
      /\ usage' = [usage EXCEPT ![c] = actual]
      /\ UNCHANGED <<mission, objectives, linked, account>>
  BY <1>1, Names DEF WorkerEnds, Goes, Rows, repositoryVars, Shape, Notifier
<1>3. y.pc = "looks" /\ Carries("worker", y)
  BY <1>2, GoesRecord, CarriesOn DEF Pcs
<1> HIDE DEF y
<1>4. task'["worker"] = y /\ \A u \in Task \ {"worker"} : task'[u] = task[u]
  BY <1>2 DEF Shape, Becomes
<1>5. c \in Child /\ c \in Id /\ commands[c].state = "running" /\ c \in Open
  BY <1>1, <1>2, AboutChild, Names DEF At, Shape, Owned, Open
<1>6. /\ Aged /\ UNCHANGED accepting /\ commands'[c].state = outcome
      /\ \A d \in Id \ {c} : commands'[d] = commands[d]
  BY <1>2, <1>5, TransitionAged DEF Shape, TypeOK
<1>7. usage[c] = 0
  BY <1>5 DEF Books, Unused, Unended
<1>8. actual \in Nat /\ usage'[c] = actual /\ \A d \in Child \ {c} : usage'[d] = usage[d]
  BY <1>2, <1>5, CoordinatorAssumption DEF Shape, TypeOK
<1>9. Used \in Nat /\ Used' = Used + actual
  <2>1. /\ IsFiniteSet(Child) /\ Used \in Nat /\ \A d \in Child : usage[d] \in Int
    BY UsedTyped
  <2>2. /\ usage'[c] \in Int /\ \A d \in Child : d # c => usage'[d] = usage[d]
    BY <1>8
  <2>3. Total(usage', Child) = Total(usage, Child) - usage[c] + usage'[c]
    BY <1>5, <2>1, <2>2, TotalChanges
  <2> QED BY <1>7, <1>8, <2>1, <2>3 DEF Used
<1>10. account.used \in Nat /\ account'.used = account.used /\ account.used <= Used
  BY <1>2, UsedTyped DEF Account, Books
<1>11. Unused'
  <2>1. \A d \in Child : commands'[d].state \in Unended => usage'[d] = 0
    BY <1>5, <1>6, <1>8, Names DEF WorkerOutcomes, Unended, Books, Unused
  <2> QED BY <2>1 DEF Unused
<1>12. Backed' /\ account'.used <= Used' /\ Listed'
  BY <1>2, <1>6, <1>8, <1>9, <1>10, BackedStays, ListedStays
<1>13. Solvency'
  BY <1>2, <1>3, CarriesSolvent, SolvencyStays DEF Books, Solvency
\* who acts while the command is open
<1>14. \A n \in Notifier : ~Committed(n) /\ ~At(n, "endMission")
  BY <1>5, NothingRests DEF Resting
<1>15. mission.status \notin MissionEnds
  BY <1>5, NothingRests DEF Resting
<1>16. \A u \in Task : Holds(u) => At(u, "activate") /\ c = ChosenChild(task[u].snap) /\ ActiveNow = {}
  BY <1>5, HolderAlone DEF Chooses
<1>17. \A o \in ActiveNow : c = Linked(o)
  <2>1. \A t \in Task : Chooses(t, c) => ActiveNow = {}
    BY HolderAlone DEF Chooses, At, Holds, Holding, Informed
  <2> QED BY <1>5, <2>1 DEF Turns, OpenIsKnown, Stuck, OneActive
<1>18. \A u \in Task : /\ Holds(u)' <=> Holds(u)
                       /\ \A p \in {"activate", "fund"} : At(u, p)' <=> At(u, p)
  <2>1. ~Holds("worker")' /\ ~Holds("worker") /\ ~At("worker", "activate") /\ ~At("worker", "fund")
    BY <1>2, <1>3, <1>4 DEF Holds, Holding, Informed, Onward, Rebalancing, Reads, At
  <2> QED BY <1>3, <1>4, <2>1 DEF Holds, At
<1>19. /\ ActiveNow' = ActiveNow /\ PendingNow' = PendingNow
       /\ (NoHolder' <=> NoHolder) /\ (NobodyActivates' <=> NobodyActivates)
       /\ \A o : Linked(o)' = Linked(o)
  BY <1>2, <1>18 DEF ActiveNow, PendingNow, NoHolder, NobodyActivates, Linked
<1>20. ActiveCharged'
  <2> SUFFICES ASSUME NEW o \in ActiveNow
               PROVE  ChargedBut(account, Linked(o))' /\ Prices(account, o)'
    BY <1>19 DEF ActiveCharged
  <2>1. Linked(o) = c /\ c[1] = o
    BY <1>17 DEF Linked
  <2>2. Prices(account, o) /\ account.used + usage[c] = Used
    BY <1>5, <2>1 DEF Books, ActiveCharged, ChargedBut, Prices
  <2>3. account'.used + usage'[c] = Used'
    BY <1>7, <1>8, <1>9, <1>10, <2>2
  <2> QED BY <1>2, <1>19, <2>1, <2>2, <2>3 DEF ChargedBut, Prices
<1>21. HolderCharged'
  BY <1>16, <1>18 DEF HolderCharged
<1>22. ActivatingCharged'
  <2> SUFFICES ASSUME NEW u \in Task, At(u, "activate")'
               PROVE  account'.used + usage'[ChosenChild(task'[u].snap)] = Used'
    BY DEF ActivatingCharged
  <2>1. At(u, "activate") /\ Holds(u) /\ task'[u] = task[u]
    BY <1>3, <1>4, <1>18 DEF At, Holds, Holding, Informed
  <2>2. c = ChosenChild(task[u].snap) /\ account.used + usage[c] = Used
    BY <1>16, <2>1 DEF Books, ActivatingCharged
  <2> QED BY <1>7, <1>8, <1>9, <1>10, <2>1, <2>2
<1>23. Funded'
  BY <1>2, <1>6, <1>19 DEF Books, Funded, Funds, Prices
<1>24. FreshAccount' /\ DoneCharged'
  <2>1. Fresh' => Fresh
    BY <1>2, <1>18, Names DEF Fresh
  <2>2. mission'.status # "completed"
    BY <1>2, <1>15 DEF MissionEnds
  <2> QED BY <1>2, <2>1, <2>2 DEF Books, FreshAccount, DoneCharged
<1>25. ASSUME NEW u \in Task PROVE Sound(u)'
  <2>1. CASE u = "worker"
    BY <1>3, <1>4, <2>1, SoundNot DEF Minded
  <2>2. CASE u # "worker" /\ Holds(u)
    BY <1>4, <1>16, <2>2, SoundNot DEF Minded, At
  <2>3. CASE u # "worker" /\ ~Holds(u)
    <3>1. task'[u] = task[u]
      BY <1>4, <2>3
    <3>2. ASSUME u \in Notifier, FollowsActive(u)' PROVE FALSE
      <4>1. /\ At(u, "objectives") /\ ReadsChild(u) /\ OnRow(u) /\ ObjectiveOf(u) \in ActiveNow
        BY <1>19, <3>1, <3>2, TaskSame DEF FollowsActive
      <4>2. /\ task[u].pc = "objectives"
            /\ task[u].child = <<ObjectiveOf(u), task[u].child[2]>>
            /\ commands[task[u].child].state \notin Unended
        BY <3>2, <4>1, AboutChild DEF At, NotifierFits, Unlooked
      <4>3. linked[ObjectiveOf(u)] = task[u].child[2]
        BY <3>2, <4>1, <4>2 DEF Turns, Follows
      <4>4. task[u].child = c
        BY <1>17, <4>1, <4>2, <4>3 DEF Linked
      <4> QED BY <1>5, <4>2, <4>4 DEF Unended
    <3> QED BY <1>14, <2>3, <3>1, <3>2, Unconcerned
  <2> QED BY <2>1, <2>2, <2>3
<1> QED BY <1>11, <1>12, <1>13, <1>20, <1>21, <1>22, <1>23, <1>24, <1>25 DEF Books

-----------------------------------------------------------------------------
(* Every step keeps the books.                                             *)
LEMMA TaskBooks ==
  ASSUME Shape, Turns, Books, NEW t \in Task, Snapshots(t) \/ Advances(t)
  PROVE  Books'
<1>1. CASE Snapshots(t)
  BY <1>1, ReadsBooks
<1>2. CASE AdvanceCreatesNothing(t)
  BY <1>2, CreatesNothingBooks
<1>3. CASE AdvanceCreates(t)
  BY <1>3, CreatesBooks
<1>4. CASE AdvanceRefused(t) \/ AdvanceRuns(t)
  BY <1>4, LeavesBooks
<1>5. CASE AdvanceActivates(t)
  BY <1>5, ActivatesBooks
<1> QED BY <1>1, <1>2, <1>3, <1>4, <1>5 DEF Advances

LEMMA NotifierBooks ==
  ASSUME Shape, Turns, Agenda, Waits, Books, NEW n \in Notifier, NotifierStep(n)
  PROVE  Books'
<1>1. n \in Task
  BY Names
<1>2. CASE NotifyLooks(n) \/ NotifySkips(n) \/ NotifyRebalances(n) \/ NotifyTransitions(n)
  BY <1>2, NotifiesBooks
<1>3. CASE RebalanceDeclined(n) \/ PlannerRaises(n) \/ PlannerDeclines(n)
           \/ ChildRefused(n) \/ ChildAnswers(n) \/ AdaptStops(n)
  BY <1>3, DeclinesBooks
<1>4. CASE RebalanceSettles(n) \/ ChildSettles(n)
  BY <1>4, SettlesBooks
<1>5. CASE RebalanceFailsObjective(n)
  BY <1>5, FailsObjectiveBooks
<1>6. ASSUME NEW amount \in 1..Limit, PlannerProposes(n, amount) PROVE Books'
  BY <1>6, ProposesBooks
<1>7. CASE RebalanceFailsMission(n) \/ ChildReplayed(n) \/ ChildEndsMission(n)
  BY <1>7, EndsBooks
<1>8. CASE RebalanceReserves(n)
  BY <1>8, ReservesBooks
<1>9. CASE RebalanceReplaces(n)
  BY <1>9, ReplacesBooks
<1>10. CASE RebalanceRearms(n)
  BY <1>10, RearmsBooks
<1>11. CASE ChildEndsObjective(n)
  BY <1>11, EndsObjectiveBooks
<1>12. CASE AdaptDecides(n) \/ VerifyCompletes(n)
  BY <1>12, AdaptsBooks
<1>13. CASE ExploreProposes(n)
  BY <1>13, ProposalBooks
<1>14. CASE ExploreFunds(n)
  BY <1>14, FundsBooks
<1>15. CASE ExploreAppends(n)
  BY <1>15, AppendsBooks
<1>16. CASE Snapshots(n) \/ Advances(n)
  BY <1>1, <1>16, TaskBooks
<1> QED
  BY <1>2, <1>3, <1>4, <1>5, <1>6, <1>7, <1>8, <1>9, <1>10, <1>11, <1>12, <1>13, <1>14, <1>15,
     <1>16 DEF NotifierStep

LEMMA WorldBooks ==
  ASSUME Shape, Turns, Agenda, Waits, Books,
         \/ WorkerStep \/ GatewayStep
         \/ \E s \in Stop, target \in Child \union {NoId} : GatewayStops(s, target)
         \/ \E c \in Child : GatewayTerminates(c) \/ ClockAdvances(c)
  PROVE  Books'
<1>1. ASSUME NEW c \in Id, WorkerExpires(c) \/ WorkerStarts(c) PROVE Books'
  BY <1>1, WorkersBooks
<1>2. ASSUME NEW outcome \in WorkerOutcomes, NEW actual \in Usage, WorkerEnds(outcome, actual)
      PROVE  Books'
  BY <1>2, WorkerEndsBooks
<1>3. CASE NotifierStep("worker") \/ NotifierStep("gateway")
  BY <1>3, NotifierBooks DEF Notifier
<1>4. CASE \/ GatewayWaits \/ GatewayReconciles \/ GatewayCancels \/ GatewayNotifies
           \/ \E outcome \in WorkerOutcomes : GatewaySettles(outcome)
           \/ \E c \in Child : GatewayTerminates(c)
  BY <1>4, GatewayBooks
<1>5. ASSUME NEW s \in Stop, NEW target \in Child \union {NoId}, GatewayStops(s, target)
      PROVE  Books'
  BY <1>5, StopsBooks
<1>6. ASSUME NEW c \in Child, ClockAdvances(c) PROVE Books'
  <2>1. UNCHANGED <<commands, accepting, objectives, linked, mission, task, account, usage>>
    BY <1>6 DEF ClockAdvances, DeadlinePasses, repositoryVars, memoryVars, worldVars
  <2> QED BY <2>1, BooksSame
<1> QED BY <1>1, <1>2, <1>3, <1>4, <1>5, <1>6 DEF WorkerStep, GatewayStep

(* The books of the mission: the account lacks what the active command     *)
(* used, unless nothing is reserved for it, and nothing once a task has    *)
(* the turn; what a task read of it, and is to write back with no version  *)
(* to guard it, is that same account (MissionCoordinator.on_child_         *)
(* transition, request_rebalance and explore, with save_budget of the      *)
(* repository).  They are kept by every step, beside the turn.             *)
THEOREM BooksAreKept == Spec => [](Shape /\ Turns /\ Books)
<1>1. Init => Books
  BY InitBooks
<1>2. Shape /\ Turns /\ Agenda /\ Waits /\ Books /\ [Next]_vars => Books'
  <2> SUFFICES ASSUME Shape, Turns, Agenda, Waits, Books, [Next]_vars PROVE Books'
    OBVIOUS
  <2>1. CASE UNCHANGED vars
    <3>1. UNCHANGED <<commands, accepting, objectives, linked, mission, task, account, usage>>
      BY <2>1 DEF vars, journalVars, repositoryVars, memoryVars, worldVars
    <3> QED BY <3>1, BooksSame
  <2>2. ASSUME NEW s \in Submitter, SubmitCreates(s) \/ SubmitterStep(s) \/ SubmitCut(s)
        PROVE  Books'
    <3>1. s \in Task
      BY Names
    <3>2. CASE SubmitCreates(s)
      BY <3>2, SubmissionBooks
    <3>3. CASE SubmitFunds(s) \/ SubmitPlans(s) \/ SubmitCut(s)
      BY <3>3, SubmitsBooks
    <3>4. CASE Snapshots(s) \/ Advances(s)
      BY <3>1, <3>4, TaskBooks
    <3> QED BY <2>2, <3>2, <3>3, <3>4 DEF SubmitterStep
  <2>3. CASE \/ WorkerStep \/ GatewayStep
             \/ \E s \in Stop, target \in Child \union {NoId} : GatewayStops(s, target)
             \/ \E c \in Child : GatewayTerminates(c) \/ ClockAdvances(c)
    BY <2>3, WorldBooks
  <2>4. CASE Restart
    BY <2>4, RestartBooks
  <2> QED BY <2>1, <2>2, <2>3, <2>4 DEF Next
<1> QED BY <1>1, <1>2, TurnIsKept, AgendaIsKept, WaitsAreKept, PTL DEF Spec

(* Whatever notification of whatever command completed it, a completed     *)
(* objective has a command of its own that succeeded; and the account of a *)
(* completed mission was charged what all its commands used, once each,    *)
(* with every required objective completed: those of the specification and *)
(* those that were appended, which verify_completion does not look at      *)
(* (on_child_transition, verify_completion).                               *)
THEOREM CompletedMeansDoneHolds == Spec => []CompletedMeansDone
<1>1. Books => CompletedMeansDone
  BY DEF Books, Backed, DoneCharged, Done, Charged, Used, CompletedMeansDone
<1> QED BY <1>1, BooksAreKept, PTL

(* No command is charged twice, and what is used and reserved stays within *)
(* the limit, although the account is written back whole from what a task  *)
(* read, and two notifications of one command can run side by side         *)
(* (_settle_child, reserve and settle of the budget, save_budget).         *)
THEOREM ChargedOnceHolds == Spec => []ChargedOnce
<1>1. Books => ChargedOnce
  BY DEF Books, Solvency, Solvent, Used, ChargedOnce
<1> QED BY <1>1, BooksAreKept, PTL

-----------------------------------------------------------------------------
(* The course of a mission that nothing disturbs.  A submission that is    *)
(* under way has the mission to itself; whoever is to act on the mission   *)
(* knows it as it is; an active objective has its command waiting or       *)
(* running, or a notification that will settle and end it; a failed one    *)
(* has the notification that ends the mission or puts it back.             *)
Undisturbed == ~Interfered /\ mission.status \notin MissionEnds

Submission ==
  \A s \in Submitter : ~At(s, "idle") =>
    /\ \A u \in Submitter : ~At(u, "idle") => u = s
    /\ \A c \in Child : commands[c].state \in Unended
    /\ mission.status = IF task[s].pc \in {"fund", "plan"} THEN "accepted" ELSE "planning"
Submitted == mission.status \in {"accepted", "planning"} => Submitting

Concerned(n) ==
  /\ n \in Notifier /\ task[n].pc \notin Unlooked \union {"checks"}
  /\ task[n].child = Linked(ObjectiveOf(n)) /\ ObjectiveOf(n) \in ActiveNow \union Lost
Involved(t) == Holds(t) \/ At(t, "run") \/ Concerned(t)
Adapting(t) == \/ task[t].pc \in {"adapt", "verify", "explore", "fundProposal", "append"}
               \/ task[t].pc \in Reads /\ task[t].next \in {"adapt", "verify", "explore"}
Steered(t) ==
  /\ Involved(t) /\ task[t].pc \notin {"fund", "plan", "mission"} => task[t].snap.mission = mission
  /\ At(t, "activate") => ChosenChild(task[t].snap) \in Open
  /\ At(t, "run") => /\ task[t].snap.mission.status \in {"planning", "waiting_evidence"}
                     /\ \E o \in ActiveNow : Linked(o) \in Open
  /\ Adapting(t) => mission.status = "waiting_evidence"
OneRuns == /\ ~At("gateway", "run")
           /\ \A t, u \in Task : At(t, "run") /\ At(u, "run") => t = u
NotAdvanced == \A c \in advanced :
  commands[c].state \notin Unended /\ (c[1] \in ActiveNow => c # Linked(c[1]))

\* the notification of the command of an active objective, on its way to end it
Pays(acct, o) == Settles(acct, o, usage[Linked(o)])
Current(n) == task[n].seen = commands[task[n].child].state
Reaches(n, o) ==
  \/ At(n, "terminates")
  \/ At(n, "looks") /\ commands[Linked(o)].state \in Terminal
  \/ At(n, "checks") /\ Current(n)
  \/ /\ task[n].pc \in Reads /\ ReadsChild(n) /\ Current(n)
     /\ task[n].pc \in {"account", "objectives"} => OnRow(n)
     /\ At(n, "objectives") => Pays(task[n].snap.account, o)
  \/ /\ task[n].pc \in {"child", "rebalance"} /\ Committed(n) /\ Current(n)
     /\ Pays(task[n].snap.account, o)
  \/ At(n, "settle") /\ Pays(task[n].snap.account, o)
Pursues(n, o) ==
  /\ task[n].child = Linked(o)
  /\ \/ task[n].pc \in {"endObjective", "failObjective"}
     \/ Pays(account, o) /\ Reaches(n, o)

\* the notification that is to end the mission over a lost objective, or to put it back
Closes(n, o) ==
  /\ task[n].child = Linked(o)
  /\ \/ task[n].pc \in Rebalancing \union {"endMission"}
     \/ /\ Verification(task[n].seen) = "failed" /\ objectives[o].status = "failed"
        /\ \/ task[n].pc \in Reads /\ task[n].next = "child"
           \/ At(n, "child") /\ StatusRead(n) = "failed"
Followed ==
  /\ \A o \in ActiveNow : Linked(o) \in Open \/ \E n \in Notifier : Pursues(n, o)
  /\ \A o \in Lost : \E n \in Notifier : Closes(n, o)
  /\ mission.status = "running" => ActiveNow # {} \/ Lost # {} \/ ~NoHolder

Steering ==
  /\ Submission /\ Submitted /\ OneRuns /\ NotAdvanced /\ Followed
  /\ \A t \in Task : Steered(t)
Course == Undisturbed => Steering

-----------------------------------------------------------------------------
LEMMA SteeredStays ==
  ASSUME NEW u \in Task, Steered(u), task'[u] = task[u],
         UNCHANGED <<commands, mission, linked>>,
         \A o \in Objective : objectives'[o].status = objectives[o].status
  PROVE  Steered(u)'
<1>1. ActiveNow' = ActiveNow /\ Lost' = Lost /\ Open' = Open
  BY DEF ActiveNow, Lost, Open
<1>2. /\ (Holds(u)' <=> Holds(u)) /\ ObjectiveOf(u)' = ObjectiveOf(u)
      /\ \A p : At(u, p)' <=> At(u, p)
  BY DEF Holds, ObjectiveOf, At
<1>3. \A o : Linked(o)' = Linked(o)
  BY DEF Linked
<1>4. Concerned(u)' <=> Concerned(u)
  BY <1>1, <1>2, <1>3 DEF Concerned
<1>5. (Adapting(u)' <=> Adapting(u)) /\ ChosenChild(task'[u].snap) = ChosenChild(task[u].snap)
  BY DEF Adapting
<1> QED BY <1>1, <1>2, <1>3, <1>4, <1>5 DEF Steered, Involved

LEMMA PursuesStays ==
  ASSUME NEW u, NEW o \in Objective, task'[u] = task[u], Pursues(u, o), UNCHANGED linked,
         commands'[Linked(o)] = commands[Linked(o)], usage'[Linked(o)] = usage[Linked(o)],
         account'.reserved[o] = account.reserved[o]
  PROVE  Pursues(u, o)'
<1>1. /\ OnRow(u)' <=> OnRow(u)
      /\ Committed(u)' <=> Committed(u)
      /\ ReadsChild(u)' <=> ReadsChild(u)
      /\ \A p : At(u, p)' <=> At(u, p)
  BY TaskSame
<1>2. Linked(o)' = Linked(o) /\ task[u].child = Linked(o)
  BY DEF Linked, Pursues
<1>3. Current(u)' <=> Current(u)
  BY <1>2 DEF Current
<1>4. /\ Pays(account, o)' <=> Pays(account, o)
      /\ Pays(task[u].snap.account, o)' <=> Pays(task[u].snap.account, o)
  BY <1>2 DEF Pays, Settles
<1>5. Reaches(u, o)' <=> Reaches(u, o)
  BY <1>1, <1>2, <1>3, <1>4 DEF Reaches
<1> QED BY <1>2, <1>4, <1>5 DEF Pursues

LEMMA ClosesStays ==
  ASSUME NEW u, NEW o, task'[u] = task[u], Closes(u, o), UNCHANGED linked,
         objectives'[o].status = objectives[o].status
  PROVE  Closes(u, o)'
<1>1. Linked(o)' = Linked(o) /\ StatusRead(u)' = StatusRead(u) /\ \A p : At(u, p)' <=> At(u, p)
  BY TaskSame DEF Linked
<1> QED BY <1>1 DEF Closes

LEMMA NotAdvancedStays ==
  ASSUME NotAdvanced, UNCHANGED linked, ActiveNow' \subseteq ActiveNow, Aged,
         advanced \subseteq Child, NEW c, advanced' \subseteq advanced \union {c},
         c \in advanced' => /\ commands'[c].state \notin Unended
                            /\ (c[1] \in ActiveNow' => c # Linked(c[1]))
  PROVE  NotAdvanced'
<1>1. \A d \in advanced : commands'[d].state \notin Unended
  BY Names DEF NotAdvanced, Aged
<1>2. \A o : Linked(o)' = Linked(o)
  BY DEF Linked
<1> QED BY <1>1, <1>2 DEF NotAdvanced

LEMMA SteeringStays ==
  ASSUME Shape, Steering, NEW t \in Task, NEW x \in TaskRecord, Becomes(t, x),
         UNCHANGED <<commands, mission, linked, usage>>, NotAdvanced',
         \A o \in Objective : objectives'[o].status = objectives[o].status,
         \A o \in ActiveNow : \/ account'.reserved[o] = account.reserved[o]
                              \/ t \in Notifier /\ Pursues(t, o)',
         x.pc \notin {"activate", "run"}, Steered(t)',
         t \in Submitter => /\ x.pc # "idle" /\ ~At(t, "idle")
                            /\ (x.pc \in {"fund", "plan"} <=> task[t].pc \in {"fund", "plan"}),
         \A o \in ActiveNow : t \in Notifier /\ Pursues(t, o) => Pursues(t, o)',
         \A o \in Lost : t \in Notifier /\ Closes(t, o) => Closes(t, o)',
         Holds(t) => Holds(t)' \/ Lost # {} \/ mission.status # "running"
  PROVE  Steering'
<1>1. task'[t] = x /\ \A u \in Task \ {t} : task'[u] = task[u]
  BY DEF Shape, Becomes
<1>2. ActiveNow' = ActiveNow /\ Lost' = Lost /\ Open' = Open
  BY DEF ActiveNow, Lost, Open
<1>3. \A u \in Task : Steered(u)'
  BY <1>1, SteeredStays DEF Steering
<1>4. \A s \in Submitter : At(s, "idle")' <=> At(s, "idle")
  BY <1>1, Names DEF At
<1>5. Submission' /\ Submitted'
  <2>1. \A s \in Submitter : task'[s].pc \in {"fund", "plan"} <=> task[s].pc \in {"fund", "plan"}
    BY <1>1, Names
  <2> QED BY <1>4, <2>1 DEF Steering, Submission, Submitted, Submitting
<1>6. OneRuns'
  BY <1>1, Names DEF Steering, OneRuns, At
<1>7. \A o \in ActiveNow : \A u \in Notifier : Pursues(u, o) =>
        \E n \in Notifier : Pursues(n, o)'
  <2> SUFFICES ASSUME NEW o \in ActiveNow, NEW u \in Notifier, Pursues(u, o)
               PROVE  \E n \in Notifier : Pursues(n, o)'
    OBVIOUS
  <2>1. CASE u = t
    BY <2>1
  <2>2. CASE t \in Notifier /\ Pursues(t, o)'
    BY <2>2
  <2>3. CASE u # t /\ account'.reserved[o] = account.reserved[o]
    <3>1. task'[u] = task[u] /\ o \in Objective
      BY <1>1, <2>3, Names DEF ActiveNow
    <3>2. commands'[Linked(o)] = commands[Linked(o)] /\ usage'[Linked(o)] = usage[Linked(o)]
      OBVIOUS
    <3> QED BY <2>3, <3>1, <3>2, PursuesStays
  <2> QED BY <2>1, <2>2, <2>3
<1>8. \A o \in Lost : \A u \in Notifier : Closes(u, o) => \E n \in Notifier : Closes(n, o)'
  <2> SUFFICES ASSUME NEW o \in Lost, NEW u \in Notifier, Closes(u, o)
               PROVE  \E n \in Notifier : Closes(n, o)'
    OBVIOUS
  <2>1. CASE u = t
    BY <2>1
  <2>2. CASE u # t
    <3>1. task'[u] = task[u] /\ objectives'[o].status = objectives[o].status
      BY <1>1, <2>2, Names DEF Lost
    <3> QED BY <3>1, ClosesStays
  <2> QED BY <2>1, <2>2
<1>9. mission'.status = "running" => ActiveNow' # {} \/ Lost' # {} \/ ~NoHolder'
  <2> SUFFICES ASSUME mission.status = "running", ActiveNow = {}, Lost = {} PROVE ~NoHolder'
    BY <1>2
  <2>1. PICK u \in Task : Holds(u)
    BY DEF Steering, Followed, NoHolder
  <2>2. Holds(u)'
    BY <1>1, <2>1 DEF Holds
  <2> QED BY <2>2 DEF NoHolder
<1>10. \A o : Linked(o)' = Linked(o)
  BY DEF Linked
<1>11. Followed'
  BY <1>2, <1>7, <1>8, <1>9, <1>10 DEF Steering, Followed
<1> QED BY <1>3, <1>5, <1>6, <1>11 DEF Steering

LEMMA NotAdvancedSame ==
  ASSUME NotAdvanced, UNCHANGED <<advanced, commands, linked>>, ActiveNow' \subseteq ActiveNow
  PROVE  NotAdvanced'
<1>1. \A o : Linked(o)' = Linked(o)
  BY DEF Linked
<1> QED BY <1>1 DEF NotAdvanced

\* the task has the turn, and not over a lost objective: nobody else is involved
LEMMA Alone ==
  ASSUME Shape, Turns, Steering, NEW t \in Task, Holds(t), task[t].pc \notin Rebalancing
  PROVE  /\ ActiveNow = {} /\ Lost = {} /\ \A u \in Task : ~At(u, "run")
         /\ \A u \in Task \ {t} : ~Involved(u)
<1>1. ActiveNow = {} /\ Lost = {} /\ \A u \in Task \ {t} : ~Holds(u)
  BY HolderAlone
<1>2. \A u \in Task : ~At(u, "run")
  BY <1>1 DEF Steering, Steered
<1> QED BY <1>1, <1>2 DEF Involved, Concerned

LEMMA Bystander ==
  ASSUME NEW u, task'[u] = task[u], ~Involved(u)'
  PROVE  Steered(u)'
<1>1. /\ task'[u].pc \notin {"activate", "run", "adapt", "verify", "explore", "fundProposal", "append"}
      /\ ~(task'[u].pc \in Reads /\ task'[u].next \in {"adapt", "verify", "explore"})
  BY DEF Involved, At, Holds, Holding, Informed, Onward
<1> QED BY <1>1 DEF Steered, Adapting, At

LEMMA SteeredAway ==
  ASSUME NEW u, task'[u].pc \in Unlooked \union {"checks"}
  PROVE  Steered(u)' /\ ~Holds(u)'
<1>1. /\ ~Holds(u)' /\ ~Concerned(u)' /\ ~Adapting(u)'
      /\ task'[u].pc \notin {"run", "activate"}
  BY DEF Holds, Holding, Informed, Onward, Rebalancing, Reads, Unlooked, Concerned, Adapting
<1> QED BY <1>1 DEF Steered, Involved, At

LEMMA SteeredReading ==
  ASSUME NEW u, task'[u].pc = "mission",
         task'[u].next \in {"adapt", "verify", "explore"} => mission'.status = "waiting_evidence"
  PROVE  Steered(u)'
BY DEF Steered, Adapting, At, Reads

\* the task goes on with what it has read
LEMMA SteeredOn ==
  ASSUME NEW u, Steered(u), UNCHANGED <<mission, linked>>, task'[u].snap = task[u].snap,
         task'[u].child = task[u].child,
         \A o \in Objective : objectives'[o].status = objectives[o].status,
         task[u].pc \notin {"fund", "plan", "mission"} \union Unlooked \union {"checks"},
         task'[u].pc \notin {"run", "activate"}, Holds(u)' => Holds(u), Adapting(u)' => Adapting(u)
  PROVE  Steered(u)'
<1>1. ActiveNow' = ActiveNow /\ Lost' = Lost /\ ObjectiveOf(u)' = ObjectiveOf(u)
  BY DEF ActiveNow, Lost, ObjectiveOf
<1>2. \A o : Linked(o)' = Linked(o)
  BY DEF Linked
<1>3. Concerned(u)' => Concerned(u)
  BY <1>1, <1>2 DEF Concerned
<1>4. Involved(u)' => Involved(u)
  BY <1>3 DEF Involved, At
<1> QED BY <1>4 DEF Steered, At

\* a submission that is under way meets no notification
LEMMA NoSubmission ==
  ASSUME Shape, Undisturbed, Steering, NEW n \in Notifier, task[n].pc \notin Unlooked
  PROVE  /\ \A s \in Submitter : At(s, "idle")
         /\ mission.status \in {"absent", "running", "waiting_evidence"}
<1>1. task[n].child \in Child /\ commands[task[n].child].state \notin Unended
  BY DEF Shape, NotifierFits, Unlooked
<1>2. \A s \in Submitter : At(s, "idle")
  BY <1>1 DEF Steering, Submission
<1>3. mission.status \in MissionStatuses
  BY DEF Shape, TypeOK, RepositoryTypeOK
<1> QED BY <1>2, <1>3 DEF Steering, Submitted, Submitting, Undisturbed, MissionStatuses

(* A snapshot: what was read of the rows before is still so, as far as the *)
(* task is involved.                                                       *)
LEMMA ReadsCourse ==
  ASSUME Shape, Turns, Undisturbed, Steering, NEW t \in Task, Snapshots(t)
  PROVE  Steering'
<1>1. PICK y \in TaskRecord :
        /\ Becomes(t, y) /\ OnlyTask
        /\ y.child = task[t].child /\ y.seen = task[t].seen /\ y.next = task[t].next
        /\ task[t].pc \in Reads
        /\ \/ At(t, "mission") /\ y.pc = "transitions" /\ y.snap.mission = mission
           \/ /\ At(t, "transitions") /\ y.pc = "account" /\ y.snap.linked = linked
              /\ y.snap.mission = task[t].snap.mission
           \/ /\ At(t, "account") /\ y.pc = "objectives" /\ y.snap.account = account
              /\ y.snap.linked = task[t].snap.linked
              /\ y.snap.mission = task[t].snap.mission
           \/ /\ At(t, "objectives") /\ y.pc = y.next /\ y.snap.objectives = objectives
              /\ y.snap.linked = task[t].snap.linked
              /\ y.snap.account = task[t].snap.account
              /\ y.snap.mission = task[t].snap.mission
  BY ReadsRecord, Zenon
<1>2. /\ UNCHANGED <<commands, mission, linked, objectives, account, usage, advanced>>
      /\ task'[t] = y /\ Steered(t)
  BY <1>1 DEF OnlyTask, journalVars, repositoryVars, Forgets, worldVars, Shape, Becomes, Steering
<1>3. y.next \in Procedures /\ (t \in Submitter => y.next = "advance")
  BY <1>1, Names DEF Shape, SubmitterFits, NotifierFits, Procedures
<1>4. y.pc \in {"transitions", "account", "objectives"} \union Procedures
  BY <1>1, <1>3
<1>5. ActiveNow' = ActiveNow /\ Lost' = Lost /\ \A o : Linked(o)' = Linked(o)
  BY <1>2 DEF ActiveNow, Lost, Linked
<1>6. NotAdvanced'
  BY <1>2, <1>5, NotAdvancedSame DEF Steering
<1>7. Holding(y) <=> Holds(t)
  <2>1. Holds(t) <=> y.next \in Onward
    BY <1>1 DEF Holds, Holding, Informed, Onward, Rebalancing, Reads
  <2>2. y.pc \in Reads \/ y.pc = y.next
    BY <1>1 DEF Reads
  <2> QED BY <1>3, <2>1, <2>2 DEF Holding, Informed, Onward, Rebalancing, Reads, Procedures
<1>8. y.pc \notin {"activate", "run", "idle", "fund", "plan", "mission"}
  BY <1>4 DEF Procedures
<1>9. Steered(t)'
  <2>1. Concerned(t)' => Concerned(t)
    BY <1>1, <1>2, <1>5 DEF Concerned, ObjectiveOf, Reads, Unlooked
  <2>2. Involved(t)' => Involved(t)
    BY <1>2, <1>7, <1>8, <2>1 DEF Involved, Holds, At
  <2>3. Involved(t) => y.snap.mission = mission
    BY <1>1, <1>2 DEF Steered, At, Reads
  <2>4. Adapting(t)' => Adapting(t)
    BY <1>1, <1>2, <1>3, <1>4 DEF Adapting, Reads, Procedures
  <2> QED BY <1>2, <1>8, <2>2, <2>3, <2>4 DEF Steered, At
<1>10. ASSUME NEW o \in ActiveNow, t \in Notifier, Pursues(t, o) PROVE Pursues(t, o)'
  <2>1. /\ task[t].child = Linked(o) /\ Pays(account, o) /\ ReadsChild(t) /\ Current(t)
        /\ task[t].pc \in {"account", "objectives"} => OnRow(t)
        /\ At(t, "objectives") => Pays(task[t].snap.account, o)
    BY <1>1, <1>10 DEF Pursues, Reaches, At, Reads
  <2>2. Pays(account, o)' /\ Current(t)' /\ task'[t].child = Linked(o)'
    BY <1>1, <1>2, <1>5, <2>1 DEF Pays, Settles, Current
  <2>3. ObjectiveOf(t)' = ObjectiveOf(t) /\ ObjectiveOf(t) = o /\ task[t].child[2] = linked[o]
    BY <1>1, <1>2, <2>1 DEF ObjectiveOf, Linked
  <2>4. ReadsChild(t)'
    BY <1>1, <1>2, <2>1 DEF ReadsChild
  <2>5. Reaches(t, o)'
    <3>1. CASE At(t, "mission")
      BY <1>1, <1>2, <2>2, <2>4, <3>1 DEF Reaches, At, Reads
    <3>2. CASE At(t, "transitions")
      <4>1. OnRow(t)'
        BY <1>1, <1>2, <2>3, <3>1, <3>2 DEF OnRow, At
      <4> QED BY <1>1, <1>2, <2>2, <2>4, <3>2, <4>1 DEF Reaches, At, Reads
    <3>3. CASE At(t, "account")
      <4>1. OnRow(t)'
        BY <1>1, <1>2, <2>1, <2>3, <3>3 DEF OnRow, At
      <4>2. Pays(task[t].snap.account, o)'
        BY <1>1, <1>2, <2>2, <3>3 DEF Pays, At
      <4> QED BY <1>1, <1>2, <2>2, <2>4, <3>3, <4>1, <4>2 DEF Reaches, At, Reads
    <3>4. CASE At(t, "objectives")
      <4>1. OnRow(t)'
        BY <1>1, <1>2, <2>1, <2>3, <3>4 DEF OnRow, At
      <4>2. Pays(task[t].snap.account, o)'
        BY <1>1, <1>2, <1>5, <2>1, <3>4 DEF Pays, At
      <4>3. StatusRead(t)' = "active"
        BY <1>1, <1>2, <2>3, <3>4 DEF StatusRead, At, ActiveNow
      <4>4. task'[t].pc \in {"child", "rebalance"}
        BY <1>1, <1>2, <2>1, <3>4 DEF ReadsChild, At
      <4> QED BY <2>2, <4>1, <4>2, <4>3, <4>4 DEF Reaches, Committed
    <3> QED BY <1>1, <3>1, <3>2, <3>3, <3>4 DEF At
  <2> QED BY <2>2, <2>5 DEF Pursues
<1>11. ASSUME NEW o \in Lost, t \in Notifier, Closes(t, o) PROVE Closes(t, o)'
  <2>1. /\ task[t].child = Linked(o) /\ Verification(task[t].seen) = "failed"
        /\ objectives[o].status = "failed" /\ task[t].next = "child"
    BY <1>1, <1>11 DEF Closes, At, Reads, Rebalancing
  <2>2. ObjectiveOf(t)' = o
    BY <1>1, <1>2, <2>1 DEF ObjectiveOf, Linked
  <2>3. At(t, "objectives") => y.pc = "child" /\ StatusRead(t)' = "failed"
    BY <1>1, <1>2, <2>1, <2>2 DEF StatusRead, At
  <2>4. task'[t].child = Linked(o)' /\ Verification(task'[t].seen) = "failed"
    BY <1>1, <1>2, <1>5, <2>1
  <2> QED BY <1>1, <1>2, <2>1, <2>3, <2>4 DEF Closes, At, Reads
<1>12. t \in Submitter => ~At(t, "idle") /\ task[t].pc \notin {"fund", "plan"}
  BY <1>1 DEF At, Reads
<1>13. Holds(t)' <=> Holds(t)
  BY <1>2, <1>7 DEF Holds
<1> QED BY <1>1, <1>2, <1>6, <1>8, <1>9, <1>10, <1>11, <1>12, <1>13, SteeringStays

(* A notification leaves the rows, the commands and what was advanced.     *)
LEMMA NotifierCourse ==
  ASSUME Shape, Steering, NEW n \in Notifier, NEW y \in TaskRecord, Becomes(n, y),
         UNCHANGED <<commands, mission, linked, usage, advanced>>,
         \A o \in Objective : objectives'[o].status = objectives[o].status,
         \A o \in ActiveNow : account'.reserved[o] = account.reserved[o] \/ Pursues(n, o)',
         y.pc \notin {"activate", "run"}, Steered(n)',
         \A o \in ActiveNow : Pursues(n, o) => Pursues(n, o)',
         \A o \in Lost : Closes(n, o) => Closes(n, o)',
         Holds(n) => Holds(n)' \/ Lost # {} \/ mission.status # "running"
  PROVE  Steering'
<1>1. ActiveNow' = ActiveNow
  BY DEF ActiveNow
<1>2. NotAdvanced'
  BY <1>1, NotAdvancedSame DEF Steering
<1>3. n \in Task /\ n \notin Submitter
  BY Names, CoordinatorAssumption
<1> QED BY <1>2, <1>3, SteeringStays

LEMMA IdlesCourse ==
  ASSUME Shape, Steering, NEW n \in Notifier, Becomes(n, Idle), NotAdvanced',
         UNCHANGED <<commands, mission, linked, usage, objectives>>,
         ActiveNow # {} => UNCHANGED account,
         \A o \in ActiveNow : ~Pursues(n, o), \A o \in Lost : ~Closes(n, o),
         Holds(n) => Lost # {} \/ mission.status # "running"
  PROVE  Steering'
<1>1. n \in Task /\ n \notin Submitter /\ Idle \in TaskRecord /\ Idle.pc = "idle"
  BY Names, Records, CoordinatorAssumption
<1>2. task'[n].pc = "idle"
  BY <1>1 DEF Becomes, Shape
<1>3. Steered(n)'
  BY <1>2, SteeredAway DEF Unlooked
<1>4. \A o \in ActiveNow : account'.reserved[o] = account.reserved[o]
  OBVIOUS
<1> QED BY <1>1, <1>3, <1>4, SteeringStays

LEMMA ToChildCourse ==
  ASSUME Shape, Turns, Steering, NEW n \in Notifier, Becomes(n, OnChild(task[n])),
         task[n].pc \notin Unlooked, ~Holds(n) \/ task[n].pc \in Rebalancing,
         UNCHANGED <<commands, mission, linked, usage, advanced, account, objectives>>,
         \A o \in ActiveNow : Pursues(n, o) => task[n].pc \in {"checks", "rebalance"},
         \A o \in Lost : Closes(n, o) => task[n].pc \in Rebalancing
  PROVE  Steering'
<1>1. n \in Task /\ task[n] \in TaskRecord
  BY Names DEF Shape
<1>2. PICK y \in TaskRecord : /\ Becomes(n, y) /\ y.pc = "mission" /\ y.next = "child"
                              /\ y.child = task[n].child /\ y.seen = task[n].seen
  BY <1>1, OnChildRecord
<1>3. task'[n] = y
  BY <1>1, <1>2 DEF Becomes, Shape
<1>4. Steered(n)'
  BY <1>2, <1>3, SteeredReading
<1>5. ASSUME NEW o \in ActiveNow, Pursues(n, o) PROVE Pursues(n, o)'
  <2>1. task[n].pc \in {"checks", "rebalance"} /\ task[n].child = Linked(o)
    BY <1>5 DEF Pursues
  <2>2. Pays(account, o) /\ Current(n)
    BY <1>5, <2>1 DEF Pursues, Reaches, At, Reads
  <2>3. Pays(account, o)' /\ Current(n)' /\ task'[n].child = Linked(o)' /\ ReadsChild(n)'
    BY <1>2, <1>3, <2>1, <2>2 DEF Pays, Settles, Linked, Current, ReadsChild
  <2>4. Reaches(n, o)'
    BY <1>2, <1>3, <2>3 DEF Reaches, At, Reads
  <2> QED BY <2>3, <2>4 DEF Pursues
<1>6. task[n].pc \in Rebalancing => /\ Lost = {ObjectiveOf(n)} /\ task[n].seen = "failed"
                                    /\ objectives[ObjectiveOf(n)].status = "failed" /\ Holds(n)
  <2>1. task[n].pc \in Rebalancing => Holds(n)
    BY DEF Holds, Holding
  <2> QED BY <1>1, <2>1, HolderEnded DEF Turns, Knows
<1>7. ASSUME NEW o \in Lost, Closes(n, o) PROVE Closes(n, o)'
  <2>1. task[n].seen = "failed" /\ objectives[o].status = "failed" /\ task[n].child = Linked(o)
    BY <1>6, <1>7 DEF Closes
  <2>2. task'[n].child = Linked(o)' /\ Verification(task'[n].seen) = "failed"
    BY <1>2, <1>3, <2>1 DEF Linked, Verification
  <2> QED BY <1>2, <1>3, <2>1, <2>2 DEF Closes, Reads
<1>8. Holds(n) => Lost # {}
  BY <1>6
<1> QED BY <1>2, <1>4, <1>5, <1>7, <1>8, NotifierCourse

LEMMA NotifiesCourse ==
  ASSUME Shape, Turns, Undisturbed, Steering, NEW n \in Notifier,
         NotifyLooks(n) \/ NotifySkips(n) \/ NotifyRebalances(n) \/ NotifyTransitions(n)
  PROVE  Steering'
<1>1. /\ n \in Task /\ task[n] \in TaskRecord /\ task[n].pc \in {"looks", "checks"}
      /\ UNCHANGED <<commands, mission, linked, objectives, account, usage, advanced>>
  BY Names DEF Shape, NotifyLooks, NotifySkips, NotifyRebalances, NotifyTransitions, OnlyTask,
     journalVars, repositoryVars, Forgets, worldVars, At
<1>2. ~Holds(n) /\ \A o : ~Closes(n, o)
  BY <1>1 DEF Holds, Holding, Informed, Onward, Rebalancing, Reads, Closes, At
<1>3. ActiveNow' = ActiveNow /\ NotAdvanced'
  <2>1. ActiveNow' = ActiveNow
    BY <1>1 DEF ActiveNow
  <2> QED BY <1>1, <2>1, NotAdvancedSame DEF Steering
<1>4. \A o : Linked(o)' = Linked(o) /\ (Pays(account, o)' <=> Pays(account, o))
  BY <1>1 DEF Linked, Pays, Settles
<1>5. CASE NotifyLooks(n)
  <2>1. PICK s : s = commands[task[n].child].state
    OBVIOUS
  <2>2. At(n, "looks")
    BY <1>5 DEF NotifyLooks
  <2>3. CASE s \notin Terminal
    <3>1. Becomes(n, Idle)
      BY <1>5, <2>1, <2>3 DEF NotifyLooks
    <3>2. \A o : ~Pursues(n, o)
      BY <2>1, <2>2, <2>3 DEF Pursues, Reaches, At, Committed, Reads
    <3> QED BY <1>1, <1>2, <1>3, <3>1, <3>2, IdlesCourse
  <2>4. CASE s \in Terminal
    <3> DEFINE y == [task[n] EXCEPT !.pc = "checks", !.seen = s]
    <3>1. y \in TaskRecord /\ y.pc = "checks" /\ y.seen = s /\ y.child = task[n].child
      BY <1>1, <2>4 DEF TaskRecord, Pcs, States
    <3>2. Becomes(n, y)
      BY <1>5, <2>1, <2>4 DEF NotifyLooks
    <3> HIDE DEF y
    <3>3. task'[n] = y
      BY <1>1, <3>2 DEF Becomes, Shape
    <3>4. Steered(n)'
      BY <3>1, <3>3, SteeredAway
    <3>5. ASSUME NEW o \in ActiveNow, Pursues(n, o) PROVE Pursues(n, o)'
      <4>1. task[n].child = Linked(o) /\ Pays(account, o)
        BY <2>2, <3>5 DEF Pursues, At
      <4>2. Reaches(n, o)'
        BY <1>1, <2>1, <3>1, <3>3 DEF Reaches, At, Current
      <4> QED BY <1>4, <3>1, <3>3, <4>1, <4>2 DEF Pursues
    <3> QED BY <1>1, <1>2, <3>1, <3>2, <3>4, <3>5, NotifierCourse
  <2> QED BY <2>3, <2>4
<1>6. CASE NotifySkips(n)
  <2>1. task[n].child \in advanced /\ Becomes(n, Idle)
    BY <1>6 DEF NotifySkips
  <2>2. \A o \in ActiveNow : ~Pursues(n, o)
    BY <2>1, Names DEF Steering, NotAdvanced, Pursues, Linked
  <2> QED BY <1>1, <1>2, <1>3, <2>1, <2>2, IdlesCourse
<1>7. CASE NotifyTransitions(n)
  <2>1. Becomes(n, OnChild(task[n])) /\ task[n].pc = "checks"
    BY <1>7 DEF NotifyTransitions, At
  <2> QED BY <1>1, <1>2, <2>1, ToChildCourse DEF Unlooked
<1>8. CASE NotifyRebalances(n)
  <2> DEFINE z == [task[n] EXCEPT !.caller = "rebalance"]
             y == Reading(z, "rebalance")
  <2>1. z \in TaskRecord /\ z.child = task[n].child /\ z.seen = task[n].seen
    BY <1>1 DEF TaskRecord
  <2>2. Becomes(n, y) /\ At(n, "checks")
    BY <1>8 DEF NotifyRebalances
  <2> HIDE DEF z
  <2>3. /\ y \in TaskRecord /\ y.pc = "mission" /\ y.next = "rebalance"
        /\ y.child = task[n].child /\ y.seen = task[n].seen
    BY <2>1, ReadingRecord DEF Procedures
  <2> HIDE DEF y
  <2>4. task'[n] = y
    BY <1>1, <2>2 DEF Becomes, Shape
  <2>5. Steered(n)'
    BY <2>3, <2>4, SteeredReading
  <2>6. ASSUME NEW o \in ActiveNow, Pursues(n, o) PROVE Pursues(n, o)'
    <3>1. task[n].child = Linked(o) /\ Pays(account, o) /\ Current(n)
      BY <2>2, <2>6 DEF Pursues, Reaches, At, Reads
    <3>2. Reaches(n, o)'
      BY <1>1, <2>3, <2>4, <3>1 DEF Reaches, At, Current, ReadsChild, Reads
    <3> QED BY <1>4, <2>3, <2>4, <3>1, <3>2 DEF Pursues
  <2> QED BY <1>1, <1>2, <2>2, <2>3, <2>5, <2>6, NotifierCourse
<1> QED BY <1>5, <1>6, <1>7, <1>8

\* the task leaves for another step of the same procedure, with what it has read
LEMMA GoesCourse ==
  ASSUME Shape, Steering, NEW n \in Notifier, NEW y \in TaskRecord, Becomes(n, y),
         y.child = task[n].child, y.snap = task[n].snap,
         UNCHANGED <<commands, mission, linked, usage, advanced>>,
         \A o \in Objective : objectives'[o].status = objectives[o].status,
         task[n].pc \notin {"fund", "plan", "mission"} \union Unlooked \union {"checks"},
         y.pc \notin {"activate", "run"}, Holding(y) => Holds(n),
         Adapting(n)' => Adapting(n),
         \A o \in ActiveNow : account'.reserved[o] = account.reserved[o] \/ Pursues(n, o)',
         \A o \in ActiveNow : Pursues(n, o) => Pursues(n, o)',
         \A o \in Lost : Closes(n, o) => Closes(n, o)',
         Holds(n) => Holding(y) \/ Lost # {} \/ mission.status # "running"
  PROVE  Steering'
<1>1. n \in Task
  BY Names
<1>2. task'[n] = y
  BY <1>1 DEF Becomes, Shape
<1>3. Steered(n)'
  BY <1>1, <1>2, SteeredOn DEF Steering, Holds
<1> QED BY <1>2, <1>3, NotifierCourse DEF Holds

LEMMA OnlyTaskSame ==
  ASSUME OnlyTask
  PROVE  UNCHANGED <<commands, accepting, mission, objectives, linked, account, usage, advanced>>
BY DEF OnlyTask, journalVars, repositoryVars, Forgets, worldVars

LEMMA DeclinesCourse ==
  ASSUME Shape, Turns, Undisturbed, Steering, NEW n \in Notifier,
         RebalanceDeclined(n) \/ PlannerRaises(n) \/ PlannerDeclines(n)
         \/ ChildRefused(n) \/ ChildAnswers(n) \/ AdaptStops(n)
  PROVE  Steering'
<1>1. n \in Task /\ task[n] \in TaskRecord
  BY Names DEF Shape
<1>2. OnlyTask
  BY DEF RebalanceDeclined, PlannerRaises, PlannerDeclines, ChildRefused, ChildAnswers, AdaptStops
<1>3. UNCHANGED <<commands, accepting, mission, objectives, linked, account, usage, advanced>>
  BY <1>2, OnlyTaskSame
<1>4. ActiveNow' = ActiveNow /\ NotAdvanced'
  <2>1. ActiveNow' = ActiveNow
    BY <1>3 DEF ActiveNow
  <2> QED BY <1>3, <2>1, NotAdvancedSame DEF Steering
<1>5. \A o : Linked(o)' = Linked(o)
  BY <1>3 DEF Linked
<1>6. CASE RebalanceDeclined(n)
  <2>1. Becomes(n, OnChild(task[n])) /\ task[n].pc = "rebalance"
    BY <1>6 DEF RebalanceDeclined, At
  <2>2. ~Holds(n) /\ \A o : ~Closes(n, o)
    BY <2>1 DEF Holds, Holding, Informed, Onward, Rebalancing, Reads, Closes, At
  <2> QED BY <1>3, <2>1, <2>2, ToChildCourse DEF Unlooked
<1>7. CASE PlannerRaises(n)
  <2>1. Becomes(n, OnChild(task[n])) /\ task[n].pc = "planner"
    BY <1>7 DEF PlannerRaises, At
  <2>2. \A o : ~Pursues(n, o)
    BY <2>1 DEF Pursues, Reaches, At, Reads
  <2> QED BY <1>3, <2>1, <2>2, ToChildCourse DEF Unlooked, Rebalancing
<1>8. CASE PlannerDeclines(n)
  <2> DEFINE y == [task[n] EXCEPT !.pc = "failMission"]
  <2>1. y \in TaskRecord /\ y.pc = "failMission" /\ y.child = task[n].child /\ y.snap = task[n].snap
    BY <1>1, GoesRecord DEF Pcs
  <2>2. Becomes(n, y) /\ task[n].pc = "planner"
    BY <1>8 DEF PlannerDeclines, Goes, At
  <2> HIDE DEF y
  <2>3. task'[n] = y
    BY <1>1, <2>2 DEF Becomes, Shape
  <2>4. Holding(y) /\ Holds(n) /\ ~Adapting(n)'
    BY <2>1, <2>2, <2>3 DEF Holding, Holds, Rebalancing, Adapting, Reads
  <2>5. \A o : ~Pursues(n, o)
    BY <2>2 DEF Pursues, Reaches, At, Reads
  <2>6. \A o : Closes(n, o) => Closes(n, o)'
    BY <1>5, <2>1, <2>3 DEF Closes, Rebalancing
  <2> QED BY <1>3, <2>1, <2>2, <2>4, <2>5, <2>6, GoesCourse DEF Unlooked
<1>9. CASE ChildAnswers(n)
  <2> DEFINE y == [task[n] EXCEPT !.pc = "settle"]
  <2>1. y \in TaskRecord /\ y.pc = "settle" /\ y.child = task[n].child /\ y.snap = task[n].snap
    BY <1>1, GoesRecord DEF Pcs
  <2>2. Becomes(n, y) /\ task[n].pc = "child" /\ ~Replayed(n)
    BY <1>9 DEF ChildAnswers, Goes, At
  <2> HIDE DEF y
  <2>3. task'[n] = y
    BY <1>1, <2>2 DEF Becomes, Shape
  <2>4. ~Holding(y) /\ ~Holds(n) /\ ~Adapting(n)'
    BY <2>1, <2>2, <2>3 DEF Holding, Holds, Rebalancing, Informed, Onward, Adapting, Reads
  <2>5. ASSUME NEW o, Pursues(n, o) PROVE Pursues(n, o)'
    <3>1. task[n].child = Linked(o) /\ Pays(account, o) /\ Pays(task[n].snap.account, o)
      BY <2>2, <2>5 DEF Pursues, Reaches, At, Reads
    <3>2. Pays(account, o)' /\ Pays(task[n].snap.account, o)'
      BY <1>3, <1>5, <2>1, <2>3, <3>1 DEF Pays, Settles
    <3> QED BY <1>5, <2>1, <2>3, <3>1, <3>2 DEF Pursues, Reaches, At
  <2>6. \A o : ~Closes(n, o)
    BY <2>2 DEF Closes, Replayed, Reads, Rebalancing
  <2> QED BY <1>3, <2>1, <2>2, <2>4, <2>5, <2>6, GoesCourse DEF Unlooked
<1>10. CASE ChildRefused(n)
  <2>1. Becomes(n, Idle) /\ task[n].pc = "child" /\ ~Replayed(n) /\ ~Answers(n)
    BY <1>10 DEF ChildRefused, At
  <2>2. \A o : ~Pursues(n, o)
    BY <2>1 DEF Pursues, Reaches, At, Reads, Committed, Current, Answers, OnRow
  <2>3. (\A o : ~Closes(n, o)) /\ ~Holds(n)
    BY <2>1 DEF Closes, Replayed, Reads, Rebalancing, Holds, Holding, Informed, Onward
  <2> QED BY <1>3, <1>4, <2>1, <2>2, <2>3, IdlesCourse
<1>11. CASE AdaptStops(n)
  <2>1. Becomes(n, Idle) /\ task[n].pc \in {"adapt", "explore", "verify"}
    BY <1>11 DEF AdaptStops
  <2>2. Holds(n) /\ task[n].pc \notin Rebalancing /\ mission.status = "waiting_evidence"
    BY <1>1, <2>1 DEF Holds, Holding, Informed, Onward, Rebalancing, Steering, Steered, Adapting
  <2>3. ActiveNow = {} /\ Lost = {}
    BY <1>1, <2>2, Alone
  <2> QED BY <1>3, <1>4, <2>1, <2>2, <2>3, IdlesCourse
<1> QED BY <1>6, <1>7, <1>8, <1>9, <1>10, <1>11

\* the account is saved for the command of whatever objective is active
LEMMA SettlesCourse ==
  ASSUME Shape, Turns, Undisturbed, Steering, NEW n \in Notifier,
         RebalanceSettles(n) \/ ChildSettles(n)
  PROVE  Steering'
<1>1. n \in Task /\ task[n] \in TaskRecord /\ task[n].pc \in {"rebalance", "settle"}
  BY Names DEF Shape, RebalanceSettles, ChildSettles, At
<1>2. ~Holds(n) /\ \A o : ~Closes(n, o)
  BY <1>1 DEF Holds, Holding, Informed, Onward, Rebalancing, Reads, Closes, At
<1>3. ASSUME NEW y \in TaskRecord, Becomes(n, y), y.pc \in {"failObjective", "endObjective"},
             y.child = task[n].child, y.snap = task[n].snap, Committed(n),
             UNCHANGED <<commands, mission, objectives, linked, usage, advanced>>
      PROVE  Steering'
  <2>1. task'[n] = y
    BY <1>1, <1>3 DEF Becomes, Shape
  <2>2. \A o \in ActiveNow : Linked(o) = task[n].child
    BY <1>3 DEF Turns, Follows, Settling
  <2>3. \A o \in ActiveNow : Pursues(n, o)'
    BY <1>3, <2>1, <2>2 DEF Pursues, Linked
  <2>4. ~Holding(y) /\ ~Adapting(n)'
    BY <1>3, <2>1 DEF Holding, Rebalancing, Informed, Onward, Adapting, Reads
  <2> QED BY <1>1, <1>2, <1>3, <2>3, <2>4, GoesCourse DEF Unlooked
<1>4. CASE RebalanceSettles(n)
  <2> DEFINE after == Settle(task[n].snap.account, ObjectiveOf(n), usage[task[n].child])
             y == [task[n] EXCEPT !.pc = "failObjective", !.account = after]
  <2>1. /\ y \in TaskRecord /\ y.pc = "failObjective"
        /\ y.child = task[n].child /\ y.snap = task[n].snap
        /\ Becomes(n, y) /\ SaveBudget(after) /\ OnlyRows /\ At(n, "rebalance")
        /\ RebalanceCandidate(n)
    BY <1>4, SettledRecord DEF At
  <2> HIDE DEF y, after
  <2>2. UNCHANGED <<commands, mission, objectives, linked, usage, advanced>>
    BY <2>1 DEF OnlyRows, journalVars, Forgets, worldVars, SaveBudget
  <2>3. Committed(n)
    BY <2>1 DEF RebalanceCandidate, Committed, StatusRead, OnRow, At
  <2> QED BY <1>3, <2>1, <2>2, <2>3
<1>5. CASE ChildSettles(n)
  <2>1. At(n, "settle") /\ Committed(n) /\ OnlyRows
    BY <1>5 DEF ChildSettles, At, Committed
  <2>2. UNCHANGED <<commands, usage, advanced>>
    BY <2>1 DEF OnlyRows, journalVars, Forgets, worldVars
  <2>3. CASE Settles(task[n].snap.account, ObjectiveOf(n), usage[task[n].child])
    <3> DEFINE y == [task[n] EXCEPT !.pc = "endObjective"]
    <3>1. y \in TaskRecord /\ y.pc = "endObjective" /\ y.child = task[n].child /\ y.snap = task[n].snap
      BY <1>1, GoesRecord DEF Pcs
    <3>2. Becomes(n, y) /\ UNCHANGED <<mission, objectives, linked>>
      BY <1>5, <2>3 DEF ChildSettles, Goes, SaveBudget
    <3> QED BY <1>3, <2>1, <2>2, <3>1, <3>2
  <2>4. CASE ~Settles(task[n].snap.account, ObjectiveOf(n), usage[task[n].child])
    <3>1. Becomes(n, Idle) /\ UNCHANGED <<mission, objectives, linked, account>>
      BY <1>5, <2>4 DEF ChildSettles, repositoryVars
    <3>2. \A o : ~Pursues(n, o)
      BY <2>1, <2>4 DEF Pursues, Reaches, At, Reads, Pays, ObjectiveOf, Linked
    <3>3. NotAdvanced'
      <4>1. ActiveNow' = ActiveNow
        BY <3>1 DEF ActiveNow
      <4> QED BY <2>2, <3>1, <4>1, NotAdvancedSame DEF Steering
    <3> QED BY <1>2, <2>2, <3>1, <3>2, <3>3, IdlesCourse
  <2> QED BY <2>3, <2>4
<1> QED BY <1>4, <1>5

\* from one step of a rebalance to the next: nothing is active
LEMMA RebalancingCourse ==
  ASSUME Shape, Turns, Steering, NEW n \in Notifier, NEW y \in TaskRecord, Becomes(n, y),
         task[n].pc \in Rebalancing, y.pc \in Rebalancing,
         y.child = task[n].child, y.snap = task[n].snap,
         UNCHANGED <<commands, mission, linked, usage, advanced>>,
         \A o \in Objective : objectives'[o].status = objectives[o].status
  PROVE  Steering'
<1>1. n \in Task /\ Holds(n) /\ Holding(y)
  BY Names DEF Holds, Holding
<1>2. ActiveNow = {}
  BY <1>1, HolderAlone
<1>3. task'[n] = y
  BY <1>1 DEF Becomes, Shape
<1>4. ~Adapting(n)' /\ \A o : Linked(o)' = Linked(o)
  BY <1>3 DEF Adapting, Rebalancing, Reads, Linked
<1>5. \A o : Closes(n, o) => Closes(n, o)'
  BY <1>3, <1>4 DEF Closes
<1>6. /\ y.pc \notin {"activate", "run"}
      /\ task[n].pc \notin {"fund", "plan", "mission"} \union Unlooked \union {"checks"}
  BY DEF Rebalancing, Unlooked
<1> QED BY <1>1, <1>2, <1>4, <1>5, <1>6, GoesCourse

LEMMA PlansCourse ==
  ASSUME Shape, Turns, Undisturbed, Steering, NEW n \in Notifier,
         \/ \E amount \in 1..Limit : PlannerProposes(n, amount)
         \/ RebalanceReserves(n) \/ RebalanceReplaces(n)
  PROVE  Steering'
<1>1. n \in Task /\ task[n] \in TaskRecord
  BY Names DEF Shape
<1>2. ASSUME NEW amount \in 1..Limit, PlannerProposes(n, amount) PROVE Steering'
  <2> DEFINE y == [task[n] EXCEPT !.pc = "saveRetry",
                                  !.account = Reserve(task[n].account, ObjectiveOf(n), amount)]
  <2>1. /\ y \in TaskRecord /\ y.pc = "saveRetry" /\ y.child = task[n].child
        /\ y.snap = task[n].snap /\ Becomes(n, y) /\ OnlyTask /\ task[n].pc = "planner"
    BY <1>2, ProposedRecord
  <2> HIDE DEF y
  <2> QED BY <2>1, OnlyTaskSame, RebalancingCourse DEF Rebalancing
<1>3. CASE RebalanceReserves(n)
  <2> DEFINE y == [task[n] EXCEPT !.pc = "replace"]
  <2>1. y \in TaskRecord /\ y.pc = "replace" /\ y.child = task[n].child /\ y.snap = task[n].snap
    BY <1>1, GoesRecord DEF Pcs
  <2>2. /\ Becomes(n, y) /\ task[n].pc = "saveRetry"
        /\ UNCHANGED <<commands, mission, objectives, linked, usage, advanced>>
    BY <1>3 DEF RebalanceReserves, Goes, At, OnlyRows, journalVars, Forgets, worldVars, SaveBudget
  <2> QED BY <2>1, <2>2, RebalancingCourse DEF Rebalancing
<1>4. CASE RebalanceReplaces(n)
  <2>1. At(n, "replace") /\ OnlyRows
    BY <1>4 DEF RebalanceReplaces
  <2>2. UNCHANGED <<commands, usage, advanced>> /\ task[n].pc = "replace"
    BY <2>1 DEF OnlyRows, journalVars, Forgets, worldVars, At
  <2>3. CASE MayRetry(ObjectiveOf(n), VersionRead(n) + 1)
    <3> DEFINE y == [task[n] EXCEPT !.pc = "rearm"]
    <3>1. y \in TaskRecord /\ y.pc = "rearm" /\ y.child = task[n].child /\ y.snap = task[n].snap
      BY <1>1, GoesRecord DEF Pcs
    <3>2. /\ Becomes(n, y)
          /\ ReplaceObjectiveBudget(ObjectiveOf(n), VersionRead(n) + 1,
                                    task[n].account.reserved[ObjectiveOf(n)])
      BY <1>4, <2>3 DEF RebalanceReplaces, Goes
    <3>3. ObjectiveOf(n) \in Objective /\ task[n].account.reserved[ObjectiveOf(n)] \in Nat
      BY <2>1, AboutChild DEF At, Account
    <3>4. RepositoryTypeOK
      BY DEF Shape, TypeOK
    <3>5. /\ \A p \in Objective : objectives'[p].status = objectives[p].status
          /\ UNCHANGED <<mission, linked>>
      <4>1. PICK amount \in Nat : /\ amount = task[n].account.reserved[ObjectiveOf(n)]
                                  /\ ReplaceObjectiveBudget(ObjectiveOf(n), VersionRead(n) + 1, amount)
        BY <3>2, <3>3
      <4>2. PICK o \in Objective : o = ObjectiveOf(n)
        BY <3>3
      <4> QED BY <3>4, <4>1, <4>2, ReplaceTyped
    <3> HIDE DEF y
    <3> QED BY <2>2, <3>1, <3>2, <3>5, RebalancingCourse DEF Rebalancing
  <2>4. CASE ~MayRetry(ObjectiveOf(n), VersionRead(n) + 1)
    <3>1. Becomes(n, OnChild(task[n])) /\ UNCHANGED <<mission, objectives, linked, account>>
      BY <1>4, <2>4 DEF RebalanceReplaces, repositoryVars
    <3>2. \A o : ~Pursues(n, o)
      BY <2>2 DEF Pursues, Reaches, At, Reads
    <3> QED BY <2>2, <3>1, <3>2, ToChildCourse DEF Unlooked, Rebalancing
  <2> QED BY <2>3, <2>4
<1> QED BY <1>2, <1>3, <1>4

(* The end of an objective: the notification of its command wins the       *)
(* compare-and-set whenever the objective is active, and has the turn or   *)
(* is to end the mission afterwards.                                       *)
LEMMA PursuerAdmits ==
  ASSUME Shape, Turns, NEW n \in Notifier, Committed(n), NEW o \in ActiveNow,
         task[n].child = Linked(o), NEW target \in {"completed", "failed", "blocked_unknown"}
  PROVE  ObjectiveAdmits(ObjectiveOf(n), VersionRead(n), target)
<1>1. ObjectiveOf(n) = o /\ task[n].child[2] = linked[o]
  BY DEF ObjectiveOf, Linked
<1>2. VersionRead(n) = objectives[o].version /\ objectives[o].status = "active"
  BY <1>1 DEF Turns, Follows, LinksFit, ActiveNow
<1> QED BY <1>1, <1>2 DEF ObjectiveAdmits, ObjectiveSuccessors

LEMMA ObjectiveEndsCourse ==
  ASSUME Shape, Turns, Steering, NEW n \in Notifier, NEW y \in TaskRecord, Becomes(n, y),
         Committed(n), task[n].pc \in {"endObjective", "failObjective"},
         NEW target \in {"completed", "failed", "blocked_unknown"},
         ObjectiveAdmits(ObjectiveOf(n), VersionRead(n), target),
         TransitionObjective(ObjectiveOf(n), VersionRead(n), target, task[n].child[2]),
         UNCHANGED <<commands, usage, advanced>>, y.child = task[n].child,
         \/ target = "completed" /\ y.pc = "mission" /\ y.next = "advance"
         \/ target # "completed" /\ y.pc \in {"planner", "endMission"} /\ y.snap = task[n].snap
  PROVE  Steering'
<1> PICK o : o = ObjectiveOf(n)
  OBVIOUS
<1>1. /\ ObjectiveAdmits(o, VersionRead(n), target) /\ o = ObjectiveOf(n)
      /\ TransitionObjective(o, VersionRead(n), target, task[n].child[2])
  OBVIOUS
<1>2. /\ o \in Objective /\ o \in ActiveNow /\ linked' = linked /\ Linked(o) = task[n].child
      /\ NoHolder /\ NobodyActivates /\ \A p \in ActiveNow : p = o
      /\ ActiveNow' = {} /\ objectives'[o].status = target
      /\ \A p \in Objective \ {o} : objectives'[p] = objectives[p]
  BY <1>1, ActiveEnds
<1>3. Lost = {} /\ Open = {}
  BY <1>2 DEF Turns, LostIsLast, Follows, Settling, Resting
<1>4. Lost' = IF target = "completed" THEN {} ELSE {o}
  BY <1>2, <1>3 DEF Lost
<1>5. mission' = mission /\ \A p : Linked(p)' = Linked(p)
  BY <1>2 DEF TransitionObjective, Linked
<1>6. n \in Task /\ task'[n] = y /\ \A u \in Task \ {n} : task'[u] = task[u]
  BY Names DEF Becomes, Shape
<1>7. \A u \in Task : ~At(u, "run")
  BY <1>3 DEF Steering, Steered
<1>8. ASSUME NEW u \in Task \ {n} PROVE Steered(u)'
  <2>1. Steered(u) /\ task'[u] = task[u] /\ ~At(u, "activate") /\ ~At(u, "run")
    BY <1>2, <1>6, <1>7 DEF Steering, NobodyActivates
  <2>2. (Holds(u)' <=> Holds(u)) /\ (Adapting(u)' <=> Adapting(u)) /\ \A p : At(u, p)' <=> At(u, p)
    BY <2>1, TaskSame DEF Adapting, At
  <2>3. Concerned(u)' => Concerned(u)
    BY <1>2, <1>4, <1>5, <2>1 DEF Concerned, ObjectiveOf
  <2> QED BY <1>5, <2>1, <2>2, <2>3 DEF Steered, Involved
<1>9. Steered(n)'
  <2>1. CASE y.pc = "mission"
    BY <1>6, <2>1, SteeredReading
  <2>2. CASE y.pc # "mission"
    <3>1. y.pc \in {"planner", "endMission"} /\ y.snap = task[n].snap
      BY <2>2
    <3>2. Concerned(n)
      BY <1>1, <1>2 DEF Concerned, Unlooked
    <3>3. task[n].snap.mission = mission
      BY <1>6, <3>2 DEF Steering, Steered, Involved
    <3>4. ~Adapting(n)'
      BY <1>6, <3>1 DEF Adapting, Reads
    <3> QED BY <1>5, <1>6, <3>1, <3>3, <3>4 DEF Steered, At
  <2> QED BY <2>1, <2>2
<1>10. Submission' /\ Submitted'
  <2>1. \A s \in Submitter : task'[s] = task[s]
    BY <1>6, Names, CoordinatorAssumption
  <2> QED BY <1>5, <2>1 DEF Steering, Submission, Submitted, Submitting, At
<1>11. OneRuns'
  BY <1>6, <1>7, Names DEF OneRuns, At
<1>12. NotAdvanced'
  BY <1>2, NotAdvancedSame DEF Steering
<1>13. target = "completed" => Holds(n)'
  BY <1>6 DEF Holds, Holding, Onward, Reads
<1>14. target # "completed" => Closes(n, o)'
  BY <1>2, <1>5, <1>6 DEF Closes, Rebalancing
<1>15. Followed'
  <2>1. mission'.status = "running" => Lost' # {} \/ ~NoHolder'
    BY <1>4, <1>6, <1>13 DEF NoHolder
  <2>2. \A p \in Lost' : \E m \in Notifier : Closes(m, p)'
    BY <1>4, <1>14
  <2> QED BY <1>2, <2>1, <2>2 DEF Followed
<1> QED BY <1>6, <1>8, <1>9, <1>10, <1>11, <1>12, <1>15 DEF Steering

LEMMA EndsObjectiveCourse ==
  ASSUME Shape, Turns, Undisturbed, Steering, NEW n \in Notifier,
         RebalanceFailsObjective(n) \/ ChildEndsObjective(n)
  PROVE  Steering'
<1>1. n \in Task /\ task[n] \in TaskRecord /\ Committed(n)
      /\ task[n].pc \in {"failObjective", "endObjective"}
  BY Names DEF Shape, RebalanceFailsObjective, ChildEndsObjective, At, Committed
<1>2. UNCHANGED <<commands, usage, advanced>>
  BY DEF RebalanceFailsObjective, ChildEndsObjective, OnlyRows, journalVars, Forgets, worldVars
<1>3. ~Holds(n) /\ \A o : ~Closes(n, o)
  BY <1>1 DEF Holds, Holding, Informed, Onward, Rebalancing, Reads, Closes, At
<1>4. ASSUME NEW target \in {"completed", "failed", "blocked_unknown"},
             ~ObjectiveAdmits(ObjectiveOf(n), VersionRead(n), target)
      PROVE  \A o \in ActiveNow : ~Pursues(n, o)
  BY <1>1, <1>4, PursuerAdmits DEF Pursues
<1>5. CASE RebalanceFailsObjective(n)
  <2>1. task[n].pc = "failObjective"
    BY <1>5 DEF RebalanceFailsObjective, At
  <2>2. CASE ObjectiveAdmits(ObjectiveOf(n), VersionRead(n), "failed")
    <3> DEFINE y == [task[n] EXCEPT !.pc = "planner"]
    <3>1. y \in TaskRecord /\ y.pc = "planner" /\ y.child = task[n].child /\ y.snap = task[n].snap
      BY <1>1, GoesRecord DEF Pcs
    <3>2. /\ Becomes(n, y)
          /\ TransitionObjective(ObjectiveOf(n), VersionRead(n), "failed", task[n].child[2])
      BY <1>5, <2>2 DEF RebalanceFailsObjective, Goes
    <3> HIDE DEF y
    <3>3. PICK target \in {"completed", "failed", "blocked_unknown"} : target = "failed"
      OBVIOUS
    <3> QED BY <1>1, <1>2, <2>2, <3>1, <3>2, <3>3, ObjectiveEndsCourse
  <2>3. CASE ~ObjectiveAdmits(ObjectiveOf(n), VersionRead(n), "failed")
    <3>1. Becomes(n, OnChild(task[n])) /\ UNCHANGED <<mission, objectives, linked, account>>
      BY <1>5, <2>3 DEF RebalanceFailsObjective, repositoryVars
    <3>2. \A o \in ActiveNow : ~Pursues(n, o)
      BY <1>4, <2>3
    <3> QED BY <1>2, <1>3, <2>1, <3>1, <3>2, ToChildCourse DEF Unlooked
  <2> QED BY <2>2, <2>3
<1>6. CASE ChildEndsObjective(n)
  <2>1. PICK target \in {"completed", "failed", "blocked_unknown"} : target = Outcome(n)
    BY DEF Outcome
  <2>2. CASE ObjectiveAdmits(ObjectiveOf(n), VersionRead(n), target)
    <3>1. TransitionObjective(ObjectiveOf(n), VersionRead(n), target, task[n].child[2])
      BY <1>6, <2>1, <2>2 DEF ChildEndsObjective
    <3>2. CASE target = "completed"
      <4> DEFINE y == Reading(task[n], "advance")
      <4>1. y \in TaskRecord /\ y.pc = "mission" /\ y.next = "advance" /\ y.child = task[n].child
        BY <1>1, ReadingRecord DEF Procedures
      <4>2. Becomes(n, y)
        BY <1>6, <2>1, <2>2, <3>2 DEF ChildEndsObjective, Calls
      <4> HIDE DEF y
      <4> QED BY <1>1, <1>2, <2>2, <3>1, <3>2, <4>1, <4>2, ObjectiveEndsCourse
    <3>3. CASE target # "completed"
      <4> DEFINE y == [task[n] EXCEPT !.pc = "endMission"]
      <4>1. y \in TaskRecord /\ y.pc = "endMission" /\ y.child = task[n].child /\ y.snap = task[n].snap
        BY <1>1, GoesRecord DEF Pcs
      <4>2. Becomes(n, y)
        BY <1>6, <2>1, <2>2, <3>3 DEF ChildEndsObjective, Goes
      <4> HIDE DEF y
      <4> QED BY <1>1, <1>2, <2>2, <3>1, <3>3, <4>1, <4>2, ObjectiveEndsCourse
    <3> QED BY <3>2, <3>3
  <2>3. CASE ~ObjectiveAdmits(ObjectiveOf(n), VersionRead(n), target)
    <3>1. Becomes(n, Idle) /\ UNCHANGED <<mission, objectives, linked, account>>
      BY <1>6, <2>1, <2>3 DEF ChildEndsObjective, repositoryVars
    <3>2. \A o \in ActiveNow : ~Pursues(n, o)
      BY <1>4, <2>3
    <3>3. NotAdvanced'
      <4>1. ActiveNow' = ActiveNow
        BY <3>1 DEF ActiveNow
      <4> QED BY <1>2, <3>1, <4>1, NotAdvancedSame DEF Steering
    <3> QED BY <1>2, <1>3, <3>1, <3>2, <3>3, IdlesCourse
  <2> QED BY <2>2, <2>3
<1> QED BY <1>5, <1>6

\* whoever ends the mission over a lost objective knows its row
LEMMA MissionIsKnown ==
  ASSUME Shape, Turns, Undisturbed, Steering, NEW n \in Notifier, Holds(n) \/ Concerned(n),
         task[n].pc \notin Unlooked \union {"mission"}
  PROVE  task[n].snap.mission = mission /\ mission.status \in {"running", "waiting_evidence"}
<1>1. n \in Task /\ task[n].pc \notin {"fund", "plan"}
  BY Names DEF Shape, NotifierFits
<1>2. task[n].snap.mission = mission
  BY <1>1 DEF Steering, Steered, Involved
<1>3. mission.status \in {"absent", "running", "waiting_evidence"}
  BY NoSubmission
<1>4. mission.status # "absent"
  <2>1. CASE Holds(n)
    BY <1>1, <2>1, HolderAlone
  <2>2. CASE Concerned(n)
    BY <2>2 DEF Concerned, Turns, NotYet, ActiveNow, Lost
  <2> QED BY <2>1, <2>2
<1> QED BY <1>2, <1>3, <1>4

LEMMA EndsMissionCourse ==
  ASSUME Shape, Turns, Books, Undisturbed, Undisturbed', Steering, NEW n \in Notifier,
         RebalanceFailsMission(n) \/ ChildReplayed(n) \/ ChildEndsMission(n)
  PROVE  Steering'
<1>1. n \in Task /\ task[n] \in TaskRecord /\ task[n].pc \in {"failMission", "child", "endMission"}
  BY Names DEF Shape, RebalanceFailsMission, ChildReplayed, ChildEndsMission, At
<1>2. PICK target \in {"failed", "blocked_unknown"} :
        MissionMoves(n, target, Returns(n, target)) /\ UNCHANGED journalVars
  <2>1. CASE RebalanceFailsMission(n)
    BY <2>1 DEF RebalanceFailsMission
  <2>2. CASE ChildReplayed(n)
    BY <2>2 DEF ChildReplayed
  <2>3. CASE ChildEndsMission(n)
    <3>1. Outcome(n) # "completed"
      BY <1>1, <2>3 DEF Books, Sound, ChildEndsMission
    <3>2. Outcome(n) \in {"failed", "blocked_unknown"}
      BY <3>1 DEF Outcome
    <3> QED BY <2>3, <3>2 DEF ChildEndsMission
  <2> QED BY <2>1, <2>2, <2>3
<1>3. ~MissionAdmits(task[n].snap.mission.version, target)
  BY <1>2 DEF MissionMoves, TransitionMission, Undisturbed, MissionEnds
<1>4. UNCHANGED repositoryVars /\ Raises(n)
  BY <1>2, <1>3 DEF MissionMoves
<1>5. ~Holds(n) /\ ~Concerned(n)
  BY <1>1, <1>3, MissionIsKnown DEF MissionAdmits, MissionSuccessors, Unlooked
<1>6. task[n].pc # "failMission" /\ task[n].caller = "child"
  BY <1>1, <1>5 DEF Holds, Holding, Rebalancing, Shape, NotifierFits, Called, ByChild
<1>7. /\ Becomes(n, Idle)
      /\ UNCHANGED <<commands, mission, linked, usage, objectives, account, advanced>>
  BY <1>2, <1>4, <1>6 DEF Raises, journalVars, repositoryVars
<1>8. \A o \in ActiveNow : ~Pursues(n, o)
  <2>1. \A o \in ActiveNow : task[n].child # Linked(o)
    BY <1>1, <1>5 DEF Concerned, Unlooked, ObjectiveOf, Linked
  <2> QED BY <2>1 DEF Pursues
<1>9. \A o \in Lost : ~Closes(n, o)
  <2>1. \A o \in Lost : task[n].child # Linked(o)
    BY <1>1, <1>5 DEF Concerned, Unlooked, ObjectiveOf, Linked
  <2> QED BY <2>1 DEF Closes
<1>10. NotAdvanced'
  <2>1. ActiveNow' = ActiveNow
    BY <1>7 DEF ActiveNow
  <2> QED BY <1>7, <2>1, NotAdvancedSame DEF Steering
<1> QED BY <1>5, <1>7, <1>8, <1>9, <1>10, IdlesCourse

(* A task that has the turn goes on, or leaves the mission with nothing    *)
(* active and nothing lost.                                                *)
LEMMA AloneCourse ==
  ASSUME Shape, NEW t \in Task, NEW y, Becomes(t, y),
         \A u \in Task \ {t} : ~Holds(u) /\ ~At(u, "run"),
         ActiveNow' = {}, Lost' = {}, Steered(t)', y.pc # "run",
         Submission', Submitted', NotAdvanced',
         mission'.status = "running" => Holding(y)
  PROVE  Steering'
<1>1. task'[t] = y /\ \A u \in Task \ {t} : task'[u] = task[u]
  BY DEF Becomes, Shape
<1>2. ASSUME NEW u \in Task \ {t} PROVE Steered(u)'
  <2>1. task'[u] = task[u] /\ ~Holds(u) /\ ~At(u, "run")
    BY <1>1
  <2>2. ~Holds(u)' /\ ~At(u, "run")' /\ ~Concerned(u)'
    BY <2>1, TaskSame DEF Concerned
  <2>3. ~Involved(u)'
    BY <2>2 DEF Involved
  <2> QED BY <2>1, <2>3, Bystander
<1>3. OneRuns'
  <2>1. \A u \in Task : task'[u].pc # "run"
    BY <1>1 DEF At
  <2> QED BY <2>1, Names DEF OneRuns, At
<1>4. mission'.status = "running" => ~NoHolder'
  BY <1>1 DEF NoHolder, Holds
<1>5. Followed'
  BY <1>4 DEF Followed
<1> QED BY <1>2, <1>3, <1>5 DEF Steering

LEMMA SubmissionSame ==
  ASSUME Shape, Submission, Submitted, NEW n \in Notifier, NEW y, Becomes(n, y),
         UNCHANGED <<commands, mission>>
  PROVE  Submission' /\ Submitted'
<1>1. \A s \in Submitter : task'[s] = task[s]
  BY Names, CoordinatorAssumption DEF Becomes, Shape
<1> QED BY <1>1 DEF Submission, Submitted, Submitting, At

LEMMA HolderCourse ==
  ASSUME Shape, Turns, Steering, NEW n \in Notifier, Holds(n), NEW y, Becomes(n, y),
         UNCHANGED <<commands, mission, linked, advanced>>, ActiveNow' = {}, Lost' = {},
         Steered(n)', y.pc # "run", Holding(y) \/ mission.status # "running"
  PROVE  Steering'
<1>1. n \in Task
  BY Names
<1>2. ActiveNow = {} /\ \A u \in Task \ {n} : ~Holds(u)
  BY <1>1, HolderAlone
<1>3. \A u \in Task : ~At(u, "run")
  BY <1>2 DEF Steering, Steered
<1>4. Submission' /\ Submitted'
  BY SubmissionSame DEF Steering
<1>5. NotAdvanced'
  BY NotAdvancedSame DEF Steering
<1> QED BY <1>1, <1>2, <1>3, <1>4, <1>5, AloneCourse

LEMMA RearmsCourse ==
  ASSUME Shape, Turns, Undisturbed, Steering, NEW n \in Notifier, RebalanceRearms(n)
  PROVE  Steering'
<1>1. n \in Task /\ task[n] \in TaskRecord /\ task[n].pc = "rearm" /\ OnlyRows
  BY Names DEF Shape, RebalanceRearms, At
<1>2. UNCHANGED <<commands, usage, advanced>>
  BY <1>1 DEF OnlyRows, journalVars, Forgets, worldVars
<1>3. Holds(n)
  BY <1>1 DEF Holds, Holding, Rebalancing
<1>4. CASE MayRetry(ObjectiveOf(n), VersionRead(n) + 2)
  <2> PICK o : o = ObjectiveOf(n)
    OBVIOUS
  <2>1. RearmObjective(o, VersionRead(n) + 2) /\ Becomes(n, Reading(task[n], "advance"))
    BY <1>4 DEF RebalanceRearms, Calls
  <2>2. PICK y \in TaskRecord : y = Reading(task[n], "advance") /\ y.pc = "mission" /\ y.next = "advance"
    BY <1>1, ReadingRecord DEF Procedures
  <2>3. o \in Objective /\ Lost = {o}
    BY <1>1, AboutChild DEF Turns, Knows, Rebalancing, At
  <2>4. RepositoryTypeOK
    BY DEF Shape, TypeOK
  <2>5. /\ objectives'[o].status = "pending" /\ \A p \in Objective \ {o} : objectives'[p] = objectives[p]
        /\ UNCHANGED <<mission, linked>>
    BY <2>1, <2>3, <2>4, RearmTyped
  <2>6. ActiveNow = {}
    BY <1>1, <1>3, HolderAlone
  <2>7. ActiveNow' = {} /\ Lost' = {}
    BY <2>3, <2>5, <2>6 DEF ActiveNow, Lost
  <2>8. task'[n] = y
    BY <1>1, <2>1, <2>2 DEF Becomes, Shape
  <2>9. Steered(n)'
    BY <2>2, <2>8, SteeredReading
  <2>10. Holding(y)
    BY <2>2 DEF Holding, Onward, Reads
  <2> QED BY <1>2, <1>3, <2>1, <2>2, <2>5, <2>7, <2>9, <2>10, HolderCourse
<1>5. CASE ~MayRetry(ObjectiveOf(n), VersionRead(n) + 2)
  <2>1. Becomes(n, OnChild(task[n])) /\ UNCHANGED <<mission, objectives, linked, account>>
    BY <1>5 DEF RebalanceRearms, repositoryVars
  <2>2. \A o : ~Pursues(n, o)
    BY <1>1 DEF Pursues, Reaches, At, Reads
  <2> QED BY <1>1, <1>2, <2>1, <2>2, ToChildCourse DEF Unlooked, Rebalancing
<1> QED BY <1>4, <1>5

LEMMA AdaptsCourse ==
  ASSUME Shape, Turns, Undisturbed, Undisturbed', Steering, NEW n \in Notifier,
         \/ AdaptDecides(n) \/ VerifyCompletes(n)
         \/ ExploreProposes(n) \/ ExploreFunds(n) \/ ExploreAppends(n)
  PROVE  Steering'
<1>1. n \in Task /\ task[n] \in TaskRecord
      /\ task[n].pc \in {"adapt", "verify", "explore", "fundProposal", "append"}
  BY Names DEF Shape, AdaptDecides, VerifyCompletes, ExploreProposes, ExploreFunds, ExploreAppends, At
<1>2. /\ Holds(n) /\ task[n].snap.mission = mission /\ mission.status = "waiting_evidence"
      /\ task[n].pc \notin Rebalancing
  BY <1>1 DEF Holds, Holding, Informed, Onward, Rebalancing, Steering, Steered, Adapting, Involved
<1>3. ActiveNow = {} /\ Lost = {}
  BY <1>1, <1>2, Alone
<1>4. UNCHANGED <<commands, advanced>>
  BY DEF AdaptDecides, VerifyCompletes, ExploreProposes, ExploreFunds, ExploreAppends,
         OnlyTask, OnlyRows, journalVars, Forgets
<1>5. ASSUME NEW y, Becomes(n, y), y.pc # "run", Steered(n)',
             UNCHANGED <<mission, linked>>, ActiveNow' = {}, Lost' = {}
      PROVE  Steering'
  BY <1>2, <1>4, <1>5, HolderCourse
<1>6. ASSUME Becomes(n, Idle), UNCHANGED <<mission, linked, objectives>> PROVE Steering'
  <2>1. Idle.pc = "idle" /\ task'[n] = Idle
    BY <1>1, <1>6, Records DEF Becomes, Shape
  <2>2. Steered(n)'
    BY <2>1, SteeredAway DEF Unlooked
  <2>3. ActiveNow' = {} /\ Lost' = {}
    BY <1>3, <1>6 DEF ActiveNow, Lost
  <2> QED BY <1>5, <1>6, <2>1, <2>2, <2>3
<1>7. ASSUME NEW p \in {"fundProposal", "append"}, Goes(n, p),
             UNCHANGED <<mission, linked, objectives>>
      PROVE  Steering'
  <2> DEFINE y == [task[n] EXCEPT !.pc = p]
  <2>1. y.pc = p /\ y.child = task[n].child /\ y.snap = task[n].snap
    BY <1>1, GoesRecord DEF Pcs
  <2>2. Becomes(n, y)
    BY <1>7 DEF Goes
  <2> HIDE DEF y
  <2>3. task'[n] = y
    BY <1>1, <2>2 DEF Becomes, Shape
  <2>4. Steered(n)'
    BY <1>1, <1>2, <1>7, <2>1, <2>3, SteeredOn DEF Steering, Unlooked, Adapting
  <2>5. ActiveNow' = {} /\ Lost' = {}
    BY <1>3, <1>7 DEF ActiveNow, Lost
  <2> QED BY <1>5, <1>7, <2>1, <2>2, <2>4, <2>5
<1>8. CASE AdaptDecides(n)
  <2>1. PICK p \in {"verify", "explore"} : Becomes(n, Reading(task[n], p))
    BY <1>8 DEF AdaptDecides, Calls
  <2>2. PICK y : y = Reading(task[n], p) /\ y.pc = "mission"
    BY <1>1, ReadingRecord DEF Procedures
  <2>3. UNCHANGED <<mission, objectives, linked>>
    BY <1>8, OnlyTaskSame DEF AdaptDecides
  <2>4. task'[n] = y
    BY <1>1, <2>1, <2>2 DEF Becomes, Shape
  <2>5. Steered(n)'
    BY <1>2, <2>2, <2>3, <2>4, SteeredReading
  <2>6. ActiveNow' = {} /\ Lost' = {}
    BY <1>3, <2>3 DEF ActiveNow, Lost
  <2> QED BY <1>5, <2>1, <2>2, <2>3, <2>5, <2>6
<1>9. CASE VerifyCompletes(n)
  <2>1. MissionAdmits(task[n].snap.mission.version, "completed")
    BY <1>2 DEF MissionAdmits, MissionSuccessors
  <2>2. mission'.status = "completed"
    BY <1>9, <2>1 DEF VerifyCompletes, TransitionMission
  <2> QED BY <2>2 DEF Undisturbed, MissionEnds
<1>10. CASE ExploreProposes(n)
  <2>1. UNCHANGED <<mission, linked, objectives>> /\ Goes(n, "fundProposal")
    BY <1>10 DEF ExploreProposes, SaveProposal, repositoryVars
  <2> QED BY <1>7, <2>1
<1>11. CASE ExploreFunds(n)
  <2>1. UNCHANGED <<mission, linked, objectives>> /\ (Goes(n, "append") \/ Becomes(n, Idle))
    BY <1>11 DEF ExploreFunds, SaveBudget
  <2> QED BY <1>6, <1>7, <2>1
<1>12. CASE ExploreAppends(n)
  <2>1. CASE objectives[Proposed(n)].status = "absent"
    <3> PICK o : o = Proposed(n)
      OBVIOUS
    <3> DEFINE z == [task[n] EXCEPT !.caller = "explore"]
    <3>1. z \in TaskRecord
      BY <1>1 DEF TaskRecord
    <3>2. AppendObjective(o) /\ Becomes(n, Reading(z, "advance"))
      BY <1>12, <2>1 DEF ExploreAppends
    <3> HIDE DEF z
    <3>3. PICK y : y = Reading(z, "advance") /\ y.pc = "mission" /\ y.next = "advance"
      BY <3>1, ReadingRecord DEF Procedures
    <3>4. o \in Objective
      BY <1>1, <1>12, UnproposedChosen DEF ExploreAppends, Turns, Knows, Proposed, TaskRecord, At
    <3>5. RepositoryTypeOK
      BY DEF Shape, TypeOK
    <3>6. /\ objectives'[o].status = "pending"
          /\ \A p \in Objective \ {o} : objectives'[p] = objectives[p]
          /\ UNCHANGED <<mission, linked>>
      BY <3>2, <3>4, <3>5, AppendTyped
    <3>7. ActiveNow' = {} /\ Lost' = {}
      BY <1>3, <3>6 DEF ActiveNow, Lost
    <3>8. task'[n] = y
      BY <1>1, <3>2, <3>3 DEF Becomes, Shape
    <3>9. Steered(n)'
      BY <3>3, <3>8, SteeredReading
    <3> QED BY <1>5, <3>2, <3>3, <3>6, <3>7, <3>9
  <2>2. CASE objectives[Proposed(n)].status # "absent"
    <3>1. Becomes(n, Idle) /\ UNCHANGED <<mission, linked, objectives>>
      BY <1>12, <2>2 DEF ExploreAppends, repositoryVars
    <3> QED BY <1>6, <3>1
  <2> QED BY <2>1, <2>2
<1> QED BY <1>8, <1>9, <1>10, <1>11, <1>12

(* The submission has the mission to itself.                               *)
LEMMA SubmitsCourse ==
  ASSUME Shape, Turns, Books, Undisturbed, Undisturbed', Steering, NEW s \in Submitter,
         SubmitCreates(s) \/ SubmitFunds(s) \/ SubmitPlans(s) \/ SubmitCut(s)
  PROVE  Steering'
<1>1. s \in Task /\ s \notin Notifier /\ task[s] \in TaskRecord
  BY Names, CoordinatorAssumption DEF Shape
<1>2. CASE SubmitCut(s)
  BY <1>2 DEF SubmitCut, Undisturbed, Interfered
<1>3. CASE SubmitCreates(s)
  <2> DEFINE y == [task[s] EXCEPT !.pc = "fund"]
  <2>1. y.pc = "fund"
    BY <1>1, GoesRecord DEF Pcs
  <2>2. Becomes(s, y) /\ UNCHANGED <<commands, advanced>>
    BY <1>3 DEF SubmitCreates, Goes, OnlyRows, journalVars, Forgets
  <2> HIDE DEF y
  <2>3. /\ mission.status = "absent" /\ mission'.status = "accepted" /\ linked' = linked
        /\ \A o \in Objective : objectives'[o].status =
             IF o \in First THEN "pending" ELSE objectives[o].status
    BY <1>3 DEF SubmitCreates, CreateMission, Shape, TypeOK, RepositoryTypeOK
  <2>4. /\ \A c \in Child : ~Present(c)
        /\ \A n \in Notifier : At(n, "idle")
        /\ \A o \in Objective : objectives[o].status \in {"pending", "absent"}
    BY <2>3, FreshStart DEF Fresh
  <2>5. \A u \in Submitter : At(u, "idle")
    BY <2>3 DEF Steering, Submission
  <2>6. \A u \in Task : task[u].pc = "idle"
    BY <2>4, <2>5, Names DEF At
  <2>7. task'[s] = y /\ \A u \in Task \ {s} : task'[u] = task[u]
    BY <1>1, <2>2 DEF Becomes, Shape
  <2>8. \A u \in Task \ {s} : ~Holds(u) /\ ~At(u, "run")
    BY <2>6 DEF Holds, Holding, Rebalancing, Informed, Onward, Reads, At
  <2>9. ActiveNow' = {} /\ Lost' = {}
    BY <2>3, <2>4 DEF ActiveNow, Lost
  <2>10. Steered(s)'
    BY <1>1, <2>1, <2>7 DEF Steered, At, Adapting, Reads
  <2>11. Submission' /\ Submitted'
    <3>1. \A c \in Child : commands'[c].state \in Unended
      BY <2>2, <2>4 DEF Present, Unended
    <3>2. \A u \in Submitter : ~At(u, "idle")' => u = s
      BY <2>6, <2>7, Names DEF At
    <3> QED BY <2>1, <2>3, <2>7, <3>1, <3>2 DEF Submission, Submitted, Submitting, At
  <2>12. NotAdvanced'
    BY <2>2, <2>3, <2>9, NotAdvancedSame DEF Steering
  <2> QED BY <1>1, <2>1, <2>2, <2>3, <2>8, <2>9, <2>10, <2>11, <2>12, AloneCourse
<1>4. CASE SubmitFunds(s)
  <2> DEFINE y == [task[s] EXCEPT !.pc = "plan"]
  <2>1. y \in TaskRecord /\ y.pc = "plan"
    BY <1>1, GoesRecord DEF Pcs
  <2>2. /\ Becomes(s, y) /\ task[s].pc = "fund"
        /\ UNCHANGED <<commands, mission, objectives, linked, usage, advanced>>
    BY <1>4 DEF SubmitFunds, Goes, At, OnlyRows, journalVars, Forgets, worldVars, SaveBudget
  <2> HIDE DEF y
  <2>3. Holds(s) /\ Holding(y)
    BY <2>1, <2>2 DEF Holds, Holding
  <2>4. ActiveNow = {}
    BY <1>1, <2>3, HolderAlone
  <2>5. task'[s] = y
    BY <1>1, <2>2 DEF Becomes, Shape
  <2>6. Steered(s)'
    BY <2>1, <2>5 DEF Steered, At, Adapting, Reads
  <2>7. NotAdvanced'
    <3>1. ActiveNow' = ActiveNow
      BY <2>2 DEF ActiveNow
    <3> QED BY <2>2, <3>1, NotAdvancedSame DEF Steering
  <2> QED BY <1>1, <2>1, <2>2, <2>3, <2>4, <2>5, <2>6, <2>7, SteeringStays DEF At, Holds
<1>5. CASE SubmitPlans(s)
  <2> DEFINE z == [task[s] EXCEPT !.caller = "submit"]
             y == Reading(z, "advance")
  <2>1. z \in TaskRecord
    BY <1>1 DEF TaskRecord
  <2>2. Becomes(s, y) /\ UNCHANGED <<commands, advanced>> /\ task[s].pc = "plan"
    BY <1>5 DEF SubmitPlans, At, OnlyRows, journalVars, Forgets
  <2> HIDE DEF z
  <2>3. y.pc = "mission" /\ y.next = "advance"
    BY <2>1, ReadingRecord DEF Procedures
  <2> HIDE DEF y
  <2>4. mission'.status = "planning" /\ UNCHANGED <<objectives, linked>>
    BY <1>5 DEF SubmitPlans, TransitionMission
  <2>5. Holds(s) /\ task[s].pc \notin Rebalancing
    BY <2>2 DEF Holds, Holding, Rebalancing
  <2>6. /\ ActiveNow = {} /\ Lost = {} /\ \A u \in Task : ~At(u, "run")
        /\ \A u \in Task \ {s} : ~Involved(u)
    BY <1>1, <2>5, Alone
  <2>7. \A u \in Task \ {s} : ~Holds(u) /\ ~At(u, "run")
    BY <2>6 DEF Involved
  <2>8. ActiveNow' = {} /\ Lost' = {}
    BY <2>4, <2>6 DEF ActiveNow, Lost
  <2>9. task'[s] = y /\ \A u \in Task \ {s} : task'[u] = task[u]
    BY <1>1, <2>2 DEF Becomes, Shape
  <2>10. Steered(s)'
    BY <2>3, <2>9, SteeredReading
  <2>11. Submission' /\ Submitted'
    <3>1. /\ \A u \in Submitter : ~At(u, "idle") => u = s
          /\ \A c \in Child : commands[c].state \in Unended
      BY <2>2 DEF Steering, Submission, At
    <3>2. \A u \in Submitter : ~At(u, "idle")' => u = s
      BY <2>9, <3>1, Names DEF At
    <3> QED BY <2>2, <2>3, <2>4, <2>9, <3>1, <3>2 DEF Submission, Submitted, Submitting, At
  <2>12. NotAdvanced'
    BY <2>2, <2>4, <2>8, NotAdvancedSame DEF Steering
  <2> QED BY <1>1, <2>2, <2>3, <2>4, <2>7, <2>8, <2>10, <2>11, <2>12, AloneCourse
<1> QED BY <1>2, <1>3, <1>4, <1>5

(* What is pending gets ready: its dependencies are among what came with   *)
(* the mission and have no cycle, or were completed when it was appended.  *)
LEMMA NothingReady ==
  ASSUME Shape, Agenda, NEW snap, snap.objectives = objectives, Ready(snap) = {},
         ActiveNow = {}, Lost = {}, mission.status # "absent"
  PROVE  /\ \A o \in Objective : objectives[o].status \in {"absent", "completed"}
         /\ \A o \in First : objectives[o].status = "completed"
<1>1. \A o \in Objective : objectives[o].status \in {"absent", "pending", "completed"}
  <2>1. \A o \in Objective : objectives[o].status \in ObjectiveStatuses
    BY DEF Shape, TypeOK, RepositoryTypeOK
  <2> QED BY <2>1 DEF ObjectiveStatuses, ActiveNow, Lost
<1>2. \A o \in First : o \in Objective /\ objectives[o].status # "absent"
  BY Names DEF Agenda
<1>3. \A o \in PendingNow : ~(Needs[o] \subseteq CompletedNow)
  BY DEF PendingNow, CompletedNow, Ready, Completed
<1>4. PendingNow \intersect First = {}
  <2> SUFFICES ASSUME PendingNow \intersect First # {} PROVE FALSE
    OBVIOUS
  <2>1. PICK o \in PendingNow \intersect First : Needs[o] \intersect (PendingNow \intersect First) = {}
    BY NoCycleAssumption
  <2>2. Needs[o] \subseteq First
    BY SpecAssumption
  <2>3. Needs[o] \subseteq CompletedNow
    BY <1>1, <1>2, <2>1, <2>2 DEF PendingNow, CompletedNow
  <2> QED BY <1>3, <2>1, <2>3
<1>5. \A o \in Objective \ First : objectives[o].status # "pending"
  BY <1>3 DEF Agenda, Appended, PendingNow
<1> QED BY <1>1, <1>2, <1>4, <1>5, Names DEF PendingNow

(* Nothing is ready and nothing active: everything required is complete,   *)
(* and the mission waits for evidence if it does not complete at once.     *)
LEMMA CreatesNothingCourse ==
  ASSUME Shape, Turns, Agenda, Undisturbed, Undisturbed', Aged, Steering, NEW t \in Task,
         AdvanceCreatesNothing(t)
  PROVE  Steering'
<1>1. /\ task[t].pc = "advance" /\ task[t] \in TaskRecord
      /\ UNCHANGED <<commands, linked, objectives>>
  BY DEF AdvanceCreatesNothing, At, Shape, journalVars, repositoryVars, MissionMoves, TransitionMission
<1>2. Holds(t) /\ task[t].pc \notin Rebalancing
  BY <1>1 DEF Holds, Holding, Rebalancing, Informed, Onward
<1>3. /\ ActiveNow = {} /\ Lost = {} /\ \A u \in Task : ~At(u, "run")
      /\ \A u \in Task \ {t} : ~Involved(u)
  BY <1>2, Alone
<1>4. /\ task[t].snap.objectives = objectives /\ task[t].snap.mission = mission
      /\ mission.status # "absent"
  BY <1>1, <1>2, HolderAlone DEF Turns, Knows, Informed, Onward, Steering, Steered, Involved
<1>5. ActiveIn(task[t].snap) = {}
  BY <1>3, <1>4 DEF ActiveIn, ActiveNow
<1>6. Ready(task[t].snap) = {}
  BY <1>5 DEF AdvanceCreatesNothing
<1>7. /\ \A o \in Objective : objectives[o].status \in {"absent", "completed"}
      /\ \A o \in First : objectives[o].status = "completed"
  BY <1>3, <1>4, <1>6, NothingReady
<1>8. t \notin Submitter
  <2> SUFFICES ASSUME t \in Submitter PROVE FALSE
    OBVIOUS
  <2>1. \A o \in Objective : objectives[o].status \in {"pending", "absent"}
    BY <1>2 DEF Turns, SubmitterFirst
  <2> QED BY <1>7, <2>1, Names, SpecAssumption
<1>9. t \in Notifier /\ mission.status \in {"running", "waiting_evidence"}
  <2>1. t \in Notifier
    BY <1>8, Names
  <2> QED BY <1>1, <1>4, <2>1, NoSubmission DEF Unlooked
<1>10. RequiredComplete(task[t].snap)
  BY <1>4, <1>7 DEF RequiredComplete
<1>11. mission'.status = "waiting_evidence" /\ Returns(t, "waiting_evidence")
  <2>1. CASE mission.status # CompletionTarget
    <3>1. Finishes(task[t].snap)
      BY <1>4, <1>5, <1>10, <2>1 DEF Finishes
    <3>2. MissionMoves(t, CompletionTarget, Returns(t, CompletionTarget))
      BY <3>1 DEF AdvanceCreatesNothing
    <3>3. MissionAdmits(task[t].snap.mission.version, CompletionTarget)
      BY <1>4, <1>9, <2>1 DEF MissionAdmits, MissionSuccessors, CompletionTarget
    <3>4. mission'.status = CompletionTarget /\ Returns(t, CompletionTarget)
      BY <3>2, <3>3 DEF MissionMoves, TransitionMission
    <3>5. CompletionTarget # "completed"
      BY <3>4 DEF Undisturbed, MissionEnds
    <3>6. CompletionTarget = "waiting_evidence"
      BY <3>5 DEF CompletionTarget
    <3> QED BY <3>4, <3>6
  <2>2. CASE mission.status = CompletionTarget
    <3>1. ~Finishes(task[t].snap)
      BY <1>4, <2>2 DEF Finishes
    <3>2. UNCHANGED mission /\ Returns(t, mission.status)
      BY <1>4, <3>1 DEF AdvanceCreatesNothing, repositoryVars
    <3>3. mission.status = "waiting_evidence"
      BY <1>9, <2>2 DEF CompletionTarget
    <3> QED BY <3>2, <3>3
  <2> QED BY <2>1, <2>2
<1>12. PICK y \in TaskRecord :
         /\ Becomes(t, y) /\ y.pc \in {"idle", "mission"}
         /\ advanced' \subseteq advanced \union {task[t].child}
  <2>1. Idle \in TaskRecord /\ Idle.pc = "idle"
    BY Records
  <2>2. Reading(task[t], "adapt") \in TaskRecord /\ Reading(task[t], "adapt").pc = "mission"
    BY <1>1, ReadingRecord DEF Procedures
  <2> QED BY <1>11, <2>1, <2>2 DEF Returns
<1>13. task'[t] = y
  BY <1>12 DEF Becomes, Shape
<1>14. Steered(t)'
  <2>1. CASE y.pc = "idle"
    BY <1>13, <2>1, SteeredAway DEF Unlooked
  <2>2. CASE y.pc = "mission"
    BY <1>11, <1>13, <2>2, SteeredReading
  <2> QED BY <1>12, <2>1, <2>2
<1>15. ActiveNow' = {} /\ Lost' = {}
  BY <1>1, <1>3 DEF ActiveNow, Lost
<1>16. Submission' /\ Submitted'
  <2>1. \A s \in Submitter : At(s, "idle")
    BY <1>1, <1>9, NoSubmission DEF Unlooked
  <2>2. \A s \in Submitter : At(s, "idle")'
    BY <1>8, <1>12, <2>1, Names DEF Becomes, Shape, At
  <2> QED BY <1>11, <2>2 DEF Submission, Submitted
<1>17. NotAdvanced'
  <2>1. /\ task[t].child \in Child /\ commands[task[t].child].state \notin Unended
    BY <1>1, <1>9 DEF Shape, NotifierFits, Unlooked
  <2>2. advanced \subseteq Child
    BY DEF Shape, TypeOK
  <2> QED BY <1>1, <1>12, <1>15, <2>1, <2>2, NotAdvancedStays DEF Steering
<1> QED BY <1>3, <1>11, <1>12, <1>14, <1>15, <1>16, <1>17, AloneCourse DEF Involved

\* the new command is the one that is to be activated
LEMMA CreatesCourse ==
  ASSUME Shape, Turns, Undisturbed, Steering, NEW t \in Task, AdvanceCreates(t)
  PROVE  Steering'
<1>1. /\ task[t].pc = "advance" /\ task[t] \in TaskRecord
      /\ UNCHANGED <<mission, linked, objectives, advanced>> /\ Goes(t, "activate")
  BY DEF AdvanceCreates, AdvanceReady, At, Shape, repositoryVars, Forgets
<1>2. Holds(t) /\ task[t].pc \notin Rebalancing
  BY <1>1 DEF Holds, Holding, Rebalancing, Informed, Onward
<1>3. /\ ActiveNow = {} /\ Lost = {} /\ \A u \in Task : ~At(u, "run")
      /\ \A u \in Task \ {t} : ~Involved(u)
  BY <1>2, Alone
<1>4. PICK c : c = ChosenChild(task[t].snap)
  OBVIOUS
<1>5. /\ c \in Child /\ ~Present(c) /\ Aged /\ commands'[c].state = "queued"
      /\ \A d \in Id \ {c} : commands'[d] = commands[d]
  BY <1>4, Creation
<1>6. PICK y : Becomes(t, y) /\ y.pc = "activate" /\ y.snap = task[t].snap
  <2>1. /\ [task[t] EXCEPT !.pc = "activate"].pc = "activate"
        /\ [task[t] EXCEPT !.pc = "activate"].snap = task[t].snap
    BY <1>1, GoesRecord DEF Pcs
  <2> QED BY <1>1, <2>1 DEF Goes
<1>7. task'[t] = y /\ \A u \in Task \ {t} : task'[u] = task[u]
  BY <1>6 DEF Becomes, Shape
<1>8. ActiveNow' = {} /\ Lost' = {}
  BY <1>1, <1>3 DEF ActiveNow, Lost
<1>9. Steered(t)'
  <2>1. task[t].snap.mission = mission
    BY <1>1, <1>2 DEF Steering, Steered, Involved
  <2>2. ChosenChild(task'[t].snap) \in Open'
    BY <1>4, <1>5, <1>6, <1>7 DEF Open
  <2> QED BY <1>1, <1>6, <1>7, <2>1, <2>2 DEF Steered, At, Adapting, Reads
<1>10. Submission' /\ Submitted'
  <2>1. \A u \in Submitter : At(u, "idle")' <=> At(u, "idle")
    BY <1>1, <1>6, <1>7, Names DEF At
  <2>2. \A d \in Child : commands[d].state \in Unended => commands'[d].state \in Unended
    BY <1>5, Names DEF Unended
  <2>3. \A u \in Submitter : task'[u].pc \in {"fund", "plan"} <=> task[u].pc \in {"fund", "plan"}
    BY <1>1, <1>6, <1>7, Names
  <2> QED BY <1>1, <2>1, <2>2, <2>3 DEF Steering, Submission, Submitted, Submitting
<1>11. NotAdvanced'
  <2>1. c \notin advanced
    BY <1>5 DEF Steering, NotAdvanced, Unended, Present
  <2>2. \A d \in advanced : commands'[d].state \notin Unended
    <3>1. advanced \subseteq Child
      BY DEF Shape, TypeOK
    <3> QED BY <1>5, <2>1, <3>1, Names DEF Steering, NotAdvanced
  <2> QED BY <1>1, <1>8, <2>2 DEF NotAdvanced
<1>12. Holding(y)
  BY <1>6 DEF Holding, Informed
<1> QED BY <1>3, <1>6, <1>8, <1>9, <1>10, <1>11, <1>12, AloneCourse DEF Involved

\* a task that follows a command that ended is not concerned with an open one
LEMMA OpenUnconcerned ==
  ASSUME Shape, NEW u \in Notifier, task[u].pc \notin Unlooked, NEW c, c \in Open
  PROVE  task[u].child # c
BY DEF Shape, NotifierFits, Open, Unended

(* The objective is activated for a command that is open, and whoever      *)
(* activated it knows the mission.                                         *)
LEMMA ActivatesCourse ==
  ASSUME Shape, Turns, Undisturbed, Steering, NEW t \in Task, AdvanceActivates(t)
  PROVE  Steering'
<1>1. task[t].pc = "activate" /\ task[t] \in TaskRecord /\ UNCHANGED <<commands, mission>>
  BY DEF AdvanceActivates, At, Shape, journalVars, repositoryVars, TransitionObjective
<1>2. Holds(t) /\ task[t].pc \notin Rebalancing
  BY <1>1 DEF Holds, Holding, Rebalancing, Informed, Onward
<1>3. /\ ActiveNow = {} /\ Lost = {} /\ \A u \in Task : ~At(u, "run")
      /\ \A u \in Task \ {t} : ~Involved(u)
  BY <1>2, Alone
<1>4. Steered(t) /\ Involved(t)
  BY <1>2 DEF Steering, Involved
<1>5. PICK o, v : o = Chosen(task[t].snap) /\ v = objectives[o].version
  OBVIOUS
<1>6. PICK y \in TaskRecord :
        /\ Becomes(t, y)
        /\ y = Idle \/ (y.pc = "run" /\ y.child = task[t].child /\ y.snap = task[t].snap)
  BY <1>1, Activation DEF Turns
<1>7. /\ o \in Objective /\ v \in Nat
      /\ ChosenChild(task[t].snap) = <<o, v + 1>>
      /\ TransitionObjective(o, v, "active", v + 1)
  BY <1>5, Activation DEF Turns
<1>8. task'[t] = y /\ \A u \in Task \ {t} : task'[u] = task[u]
  BY <1>6 DEF Becomes, Shape
<1>9. Idle.pc = "idle"
  BY Records
<1>10. /\ objectives'[o].status = "active" /\ linked'[o] = v + 1
       /\ \A p \in Objective \ {o} : objectives'[p] = objectives[p]
  <2>1. RepositoryTypeOK
    BY DEF Shape, TypeOK
  <2>2. PICK k \in Nat : k = v + 1
    BY <1>7
  <2>3. TransitionObjective(o, v, "active", k)
    BY <1>7, <2>2
  <2> QED BY <1>7, <2>1, <2>2, <2>3, ObjectiveTyped
<1>11. ActiveNow' = {o} /\ Lost' = {}
  BY <1>3, <1>7, <1>10 DEF ActiveNow, Lost
<1>12. Linked(o)' = <<o, v + 1>> /\ <<o, v + 1>> \in Open /\ Open' = Open
  BY <1>1, <1>4, <1>7, <1>10 DEF Linked, Steered, At, Open
<1>13. /\ y.pc = "run" => mission.status \in {"planning", "waiting_evidence"}
       /\ mission.status = "planning" => y.pc = "run"
       /\ y.pc # "run" => Returns(t, mission.status)
       /\ y.pc = "run" => advanced' = advanced
  <2>1. task[t].snap.mission = mission
    BY <1>1, <1>4 DEF Steered
  <2>2. ObjectiveAdmits(o, task[t].snap.objectives[o].version, "active")
    BY <1>1, <1>5, <1>7 DEF TransitionObjective, ObjectiveAdmits, Turns, Knows, Informed
  <2>3. IF mission.status \in {"planning", "waiting_evidence"}
        THEN Goes(t, "run") /\ advanced' = advanced
        ELSE Returns(t, mission.status)
    BY <1>5, <2>1, <2>2 DEF AdvanceActivates
  <2>4. Goes(t, "run") => y.pc = "run"
    BY <1>1, <1>8 DEF Goes, Becomes, Shape, TaskRecord
  <2>5. Returns(t, mission.status) => y.pc # "run"
    <3>1. Reading(task[t], "adapt").pc = "mission"
      BY <1>1, ReadingRecord DEF Procedures
    <3> QED BY <1>8, <1>9, <3>1 DEF Returns, Becomes, Shape
  <2> QED BY <2>3, <2>4, <2>5
<1>14. Steered(t)'
  <2>1. CASE y.pc = "run"
    <3>1. y.snap = task[t].snap
      BY <1>6, <1>9, <2>1
    <3>2. task[t].snap.mission = mission
      BY <1>1, <1>4 DEF Steered
    <3> QED BY <1>1, <1>8, <1>11, <1>12, <1>13, <2>1, <3>1, <3>2 DEF Steered, At, Adapting, Reads
  <2>2. CASE y.pc # "run"
    BY <1>6, <1>8, <1>9, <2>2, SteeredAway DEF Unlooked
  <2> QED BY <2>1, <2>2
<1>15. ASSUME NEW u \in Task \ {t} PROVE Steered(u)'
  <2>1. task'[u] = task[u] /\ ~Holds(u) /\ ~At(u, "run") /\ ~Concerned(u)
    BY <1>3, <1>8 DEF Involved
  <2>2. ~Concerned(u)'
    <3> SUFFICES ASSUME Concerned(u)' PROVE FALSE
      OBVIOUS
    <3>1. /\ u \in Notifier /\ task[u].pc \notin Unlooked
          /\ task[u].child = <<o, linked'[o]>>
      BY <1>11, <2>1 DEF Concerned, ObjectiveOf, Linked
    <3>2. task[u].child \in Open
      BY <1>10, <1>12, <3>1
    <3> QED BY <3>1, <3>2, OpenUnconcerned
  <2>3. ~Holds(u)' /\ ~At(u, "run")'
    BY <2>1, TaskSame
  <2> QED BY <2>1, <2>2, <2>3, Bystander DEF Involved
<1>16. Submission' /\ Submitted'
  <2>1. ASSUME t \in Submitter PROVE Submission' /\ Submitted'
    <3>1. /\ \A u \in Submitter : ~At(u, "idle") => u = t
          /\ \A c \in Child : commands[c].state \in Unended
      BY <1>1, <2>1 DEF Steering, Submission, At
    <3>2. mission.status = "planning"
      BY <1>1, <2>1 DEF Steering, Submission, At
    <3>3. y.pc = "run"
      BY <1>13, <3>2
    <3>4. \A u \in Submitter : ~At(u, "idle")' => u = t
      BY <1>8, <3>1, Names DEF At
    <3> QED BY <1>1, <1>8, <2>1, <3>1, <3>2, <3>3, <3>4 DEF Submission, Submitted, Submitting, At
  <2>2. ASSUME t \in Notifier PROVE Submission' /\ Submitted'
    BY <1>1, <1>6, <2>2, SubmissionSame DEF Steering
  <2> QED BY <2>1, <2>2, Names
<1>17. OneRuns'
  <2>1. ~At("gateway", "activate")
    BY DEF Turns, NoEcho
  <2>2. t # "gateway" /\ \A u \in Task : At(u, "run")' => u = t
    BY <1>1, <1>3, <1>8, <2>1 DEF At
  <2> QED BY <2>2, Names DEF OneRuns
<1>18. NotAdvanced'
  <2>1. \A d \in advanced : commands[d].state \notin Unended
    BY DEF Steering, NotAdvanced
  <2>2. \A d \in advanced' : d \in Child /\ commands[d].state \notin Unended
    <3>1. advanced \subseteq Child
      BY DEF Shape, TypeOK
    <3>2. CASE y.pc = "run"
      BY <1>13, <2>1, <3>1, <3>2
    <3>3. CASE y.pc # "run"
      <4>1. advanced' = IF task[t].caller \in {"child", "rebalance"}
                        THEN advanced \union {task[t].child} ELSE advanced
        BY <1>13, <3>3 DEF Returns
      <4>2. t \in Submitter => task[t].caller = "submit"
        BY <1>1, SubmitCalled
      <4>3. t \in Notifier => task[t].child \in Child /\ commands[task[t].child].state \notin Unended
        BY <1>1 DEF Shape, NotifierFits, Unlooked
      <4> QED BY <2>1, <3>1, <4>1, <4>2, <4>3, Names
    <3> QED BY <3>2, <3>3
  <2>3. \A d \in advanced' : d # <<o, v + 1>>
    BY <1>12, <2>2 DEF Open, Unended
  <2>4. \A d \in advanced' : d[1] \in ActiveNow' => d # Linked(d[1])'
    BY <1>11, <1>12, <2>3
  <2> QED BY <1>1, <2>2, <2>4 DEF NotAdvanced
<1>19. Followed'
  BY <1>11, <1>12 DEF Followed
<1> QED BY <1>14, <1>15, <1>16, <1>17, <1>18, <1>19 DEF Steering

(* The mission runs: nobody but the task that activated its objective acts *)
(* for it.                                                                 *)
LEMMA RunsCourse ==
  ASSUME Shape, Turns, Undisturbed, Steering, NEW t \in Task, AdvanceRuns(t)
  PROVE  Steering'
<1>1. task[t].pc = "run" /\ task[t] \in TaskRecord /\ UNCHANGED <<commands, objectives, linked>>
  BY DEF AdvanceRuns, At, Shape, journalVars, repositoryVars, MissionMoves, TransitionMission
<1>2. PICK o \in ActiveNow : Linked(o) \in Open
  BY <1>1 DEF Steering, Steered, At
<1>3. /\ task[t].snap.mission = mission /\ mission.status \in {"planning", "waiting_evidence"}
  BY <1>1 DEF Steering, Steered, Involved, At
<1>4. MissionAdmits(task[t].snap.mission.version, "running")
  BY <1>3 DEF MissionAdmits, MissionSuccessors
<1>5. mission'.status = "running" /\ Returns(t, "running")
  BY <1>4 DEF AdvanceRuns, MissionMoves, TransitionMission
<1>6. /\ Becomes(t, Idle)
      /\ advanced' = IF task[t].caller \in {"child", "rebalance"}
                     THEN advanced \union {task[t].child} ELSE advanced
  BY <1>5 DEF Returns
<1>7. task'[t] = Idle /\ Idle.pc = "idle" /\ \A u \in Task \ {t} : task'[u] = task[u]
  BY <1>6, Records DEF Becomes, Shape
<1>8. Lost = {} /\ (\A u \in Task : ~Holds(u)) /\ \A p \in ActiveNow : p = o
  BY <1>2 DEF Turns, LostIsLast, TurnOrActive, OneActive
<1>9. ActiveNow' = ActiveNow /\ Lost' = Lost /\ Open' = Open /\ \A p : Linked(p)' = Linked(p)
  BY <1>1 DEF ActiveNow, Lost, Open, Linked
<1>10. ASSUME NEW u \in Task \ {t} PROVE Steered(u)'
  <2>1. task'[u] = task[u] /\ ~Holds(u) /\ ~At(u, "run")
    BY <1>1, <1>7, <1>8 DEF Steering, OneRuns, At
  <2>2. ~Concerned(u)'
    <3> SUFFICES ASSUME Concerned(u)' PROVE FALSE
      OBVIOUS
    <3>1. /\ u \in Notifier /\ task[u].pc \notin Unlooked
          /\ task[u].child = Linked(ObjectiveOf(u)) /\ ObjectiveOf(u) = o
      BY <1>8, <1>9, <2>1 DEF Concerned, ObjectiveOf
    <3> QED BY <1>2, <3>1, OpenUnconcerned
  <2>3. ~Holds(u)' /\ ~At(u, "run")'
    BY <2>1, TaskSame
  <2> QED BY <2>1, <2>2, <2>3, Bystander DEF Involved
<1>11. Steered(t)'
  BY <1>7, SteeredAway DEF Unlooked
<1>12. Submission' /\ Submitted'
  <2>1. \A u \in Submitter : At(u, "idle")'
    <3>1. CASE t \in Submitter
      BY <1>1, <1>7, <3>1, Names DEF Steering, Submission, At
    <3>2. CASE t \in Notifier
      <4>1. \A u \in Submitter : At(u, "idle")
        BY <1>1, <3>2, NoSubmission DEF Unlooked
      <4> QED BY <1>7, <4>1, Names DEF At
    <3> QED BY <3>1, <3>2, Names
  <2> QED BY <1>5, <2>1 DEF Submission, Submitted
<1>13. OneRuns'
  <2>1. \A u \in Task : task'[u].pc # "run"
    BY <1>1, <1>7 DEF Steering, OneRuns, At
  <2> QED BY <2>1, Names DEF OneRuns, At
<1>14. NotAdvanced'
  <2>1. \A d \in advanced' : d \in Child /\ commands[d].state \notin Unended
    <3>1. advanced \subseteq Child
      BY DEF Shape, TypeOK
    <3>2. t \in Submitter => task[t].caller = "submit"
      BY <1>1, SubmitCalled
    <3>3. t \in Notifier => task[t].child \in Child /\ commands[task[t].child].state \notin Unended
      BY <1>1 DEF Shape, NotifierFits, Unlooked
    <3> QED BY <1>6, <3>1, <3>2, <3>3, Names DEF Steering, NotAdvanced
  <2>2. \A d \in advanced' : d # Linked(o)
    BY <1>2, <2>1 DEF Open, Unended
  <2>3. \A d \in advanced' : d[1] \in ActiveNow' => d # Linked(d[1])'
    BY <1>8, <1>9, <2>2
  <2> QED BY <1>1, <2>1, <2>3 DEF NotAdvanced
<1>15. Followed'
  BY <1>2, <1>8, <1>9 DEF Followed
<1> QED BY <1>10, <1>11, <1>12, <1>13, <1>14, <1>15 DEF Steering

LEMMA AdvancesCourse ==
  ASSUME Shape, Turns, Agenda, Undisturbed, Undisturbed', Steering, NEW t \in Task,
         Snapshots(t) \/ Advances(t)
  PROVE  Steering'
<1>1. CASE Snapshots(t)
  BY <1>1, ReadsCourse
<1>2. CASE AdvanceCreatesNothing(t)
  <2>1. Aged
    BY <1>2, NothingAges DEF AdvanceCreatesNothing, journalVars
  <2> QED BY <1>2, <2>1, CreatesNothingCourse
<1>3. CASE AdvanceRefused(t)
  BY <1>3 DEF AdvanceRefused, Undisturbed, Interfered
<1> QED BY <1>1, <1>2, <1>3, CreatesCourse, ActivatesCourse, RunsCourse DEF Advances

(* A command moves at the hand of the worker or the gateway.               *)
LEMMA CommandCourse ==
  ASSUME Shape, Turns, Steering, NEW n \in Notifier, NEW y, Becomes(n, y),
         task[n].pc \in Unlooked, y.pc \in Unlooked,
         NEW c \in Child, Aged, \A d \in Child \ {c} : commands'[d] = commands[d],
         UNCHANGED <<mission, objectives, linked, account, advanced>>,
         \A d \in Child \ {c} : usage'[d] = usage[d],
         Submitting => commands'[c].state \in Unended,
         Open' = Open \/ \A u \in Task : ~At(u, "activate") /\ ~At(u, "run"),
         \A o \in ActiveNow : Linked(o) = c => c \in Open' \/ \E m \in Notifier : Pursues(m, o)',
         \A o \in ActiveNow : Linked(o) # c => ~Pursues(n, o)
  PROVE  Steering'
<1>1. n \in Task /\ n \notin Submitter /\ task'[n] = y /\ \A u \in Task \ {n} : task'[u] = task[u]
  BY Names, CoordinatorAssumption DEF Becomes, Shape
<1>2. ActiveNow' = ActiveNow /\ Lost' = Lost /\ \A o : Linked(o)' = Linked(o)
  BY DEF ActiveNow, Lost, Linked
<1>3. ~Holds(n) /\ ~Holds(n)'
  BY <1>1 DEF Holds, Holding, Rebalancing, Informed, Onward, Reads, Unlooked
<1>4. Steered(n)'
  BY <1>1, SteeredAway
<1>5. ASSUME NEW u \in Task \ {n} PROVE Steered(u)'
  <2>1. task'[u] = task[u] /\ Steered(u)
    BY <1>1 DEF Steering
  <2>2. (Holds(u)' <=> Holds(u)) /\ (Adapting(u)' <=> Adapting(u)) /\ \A p : At(u, p)' <=> At(u, p)
    BY <2>1, TaskSame DEF Adapting, At
  <2>3. Concerned(u)' <=> Concerned(u)
    BY <1>2, <2>1 DEF Concerned, ObjectiveOf
  <2>4. At(u, "activate") \/ At(u, "run") => Open' = Open
    BY <2>1
  <2> QED BY <1>2, <2>1, <2>2, <2>3, <2>4 DEF Steered, Involved
<1>6. Submission' /\ Submitted'
  <2>1. \A s \in Submitter : task'[s] = task[s]
    BY <1>1, Names
  <2>2. Submitting => \A d \in Child : commands'[d].state \in Unended
    BY DEF Steering, Submission, Submitting
  <2> QED BY <2>1, <2>2 DEF Steering, Submission, Submitted, Submitting, At
<1>7. OneRuns'
  <2>1. \A u \in Task : At(u, "run")' => At(u, "run")
    BY <1>1 DEF At, Unlooked
  <2> QED BY <2>1, Names DEF Steering, OneRuns
<1>8. NotAdvanced'
  <2>1. advanced \subseteq Child
    BY DEF Shape, TypeOK
  <2>2. \A d \in advanced : commands'[d].state \notin Unended
    BY <2>1, Names DEF Steering, NotAdvanced, Aged
  <2> QED BY <1>2, <2>2 DEF Steering, NotAdvanced
<1>9. ASSUME NEW o \in ActiveNow, Linked(o) # c
      PROVE  Linked(o) \in Open' \/ \E m \in Notifier : Pursues(m, o)'
  <2>1. o \in Objective /\ Linked(o) \in Child
    <3>1. o \in Objective /\ objectives[o].status = "active" /\ linked[o] = objectives[o].version
      BY DEF ActiveNow, Turns, LinksFit
    <3>2. CASE Linked(o) \in Open
      BY <3>1, <3>2 DEF Open
    <3>3. CASE Linked(o) \notin Open
      <4>1. PICK m \in Notifier : Pursues(m, o)
        BY <3>3 DEF Steering, Followed
      <4>2. ~At(m, "idle") /\ task[m].child = Linked(o)
        BY <4>1 DEF Pursues, Reaches, At, Reads, Committed
      <4> QED BY <3>1, <4>2, AboutChild
    <3> QED BY <3>2, <3>3
  <2>2. commands'[Linked(o)] = commands[Linked(o)] /\ usage'[Linked(o)] = usage[Linked(o)]
    BY <1>9, <2>1
  <2>3. CASE Linked(o) \in Open
    BY <2>2, <2>3 DEF Open
  <2>4. CASE Linked(o) \notin Open
    <3>1. PICK m \in Notifier : Pursues(m, o)
      BY <2>4 DEF Steering, Followed
    <3>2. m # n
      BY <1>9, <3>1
    <3>3. task'[m] = task[m]
      BY <1>1, <3>2, Names
    <3> QED BY <2>1, <2>2, <3>1, <3>3, PursuesStays
  <2> QED BY <2>3, <2>4
<1>10. ASSUME NEW o \in Lost PROVE \E m \in Notifier : Closes(m, o)'
  <2>1. PICK m \in Notifier : Closes(m, o)
    BY DEF Steering, Followed
  <2>2. m # n
    BY <2>1 DEF Closes, Unlooked, Rebalancing, Reads, At
  <2>3. task'[m] = task[m]
    BY <1>1, <2>2, Names
  <2> QED BY <2>1, <2>3, ClosesStays
<1>11. ~NoHolder => ~NoHolder'
  <2> SUFFICES ASSUME NEW u \in Task, Holds(u) PROVE Holds(u)'
    BY DEF NoHolder
  <2>1. task'[u] = task[u]
    BY <1>1, <1>3
  <2> QED BY <2>1, TaskSame
<1>12. Followed'
  <2>1. \A o \in ActiveNow : Linked(o) \in Open' \/ \E m \in Notifier : Pursues(m, o)'
    BY <1>9
  <2> QED BY <1>2, <1>10, <1>11, <2>1 DEF Steering, Followed
<1> QED BY <1>4, <1>5, <1>6, <1>7, <1>8, <1>12 DEF Steering

LEMMA StartsCourse ==
  ASSUME Shape, Turns, Undisturbed', Steering, NEW c \in Id, WorkerExpires(c) \/ WorkerStarts(c)
  PROVE  Steering'
<1>1. CASE WorkerExpires(c)
  BY <1>1 DEF WorkerExpires, Undisturbed, Interfered
<1>2. CASE WorkerStarts(c)
  <2>1. c \in Child /\ commands[c].state = "queued"
    BY <1>2, Executed DEF WorkerStarts, Eligible, Turns, Queued
  <2> DEFINE y == [Idle EXCEPT !.pc = "runs", !.child = c]
  <2>2. /\ At("worker", "idle") /\ Becomes("worker", y) /\ Transition(c, commands[c].version, "running")
        /\ UNCHANGED <<mission, objectives, linked, account, advanced, usage>>
    BY <1>2 DEF WorkerStarts, Rows, repositoryVars
  <2>3. y.pc = "runs"
    BY <2>1, StartRecords
  <2> HIDE DEF y
  <2>4. /\ Aged /\ commands'[c].state = "running" /\ \A d \in Id \ {c} : commands'[d] = commands[d]
    BY <2>2, TransitionAged DEF Shape, TypeOK
  <2>5. \A d \in Child \ {c} : commands'[d] = commands[d]
    BY <2>4, Names
  <2>6. Open' = Open
    BY <2>1, <2>4, <2>5 DEF Open
  <2>7. c \in Open'
    BY <2>1, <2>4 DEF Open
  <2>8. \A o : ~Pursues("worker", o)
    BY <2>2 DEF Pursues, Reaches, Committed, Reads, At
  <2>9. "worker" \in Notifier /\ task["worker"].pc \in Unlooked /\ y.pc \in Unlooked
    BY <2>2, <2>3 DEF Notifier, Unlooked, At
  <2>10. commands'[c].state \in Unended
    BY <2>4 DEF Unended
  <2> QED BY <2>1, <2>2, <2>4, <2>5, <2>6, <2>7, <2>8, <2>9, <2>10, CommandCourse
<1> QED BY <1>1, <1>2

(* The command of the active objective ended within its envelope, and      *)
(* nobody is about to activate another: the worker will settle it.         *)
LEMMA WorkerEndsCourse ==
  ASSUME Shape, Turns, Books, Undisturbed', Steering, NEW outcome \in WorkerOutcomes,
         NEW actual \in Usage, WorkerEnds(outcome, actual)
  PROVE  Steering'
<1> DEFINE y == [task["worker"] EXCEPT !.pc = "looks"]
<1>1. PICK c : c = task["worker"].child
  OBVIOUS
<1>2. /\ At("worker", "runs") /\ Becomes("worker", y) /\ "worker" \in Notifier
      /\ task["worker"] \in TaskRecord /\ Transition(c, commands[c].version, outcome)
      /\ usage' = [usage EXCEPT ![c] = actual]
      /\ UNCHANGED <<mission, objectives, linked, account, advanced>>
  BY <1>1, Names DEF WorkerEnds, Goes, Rows, repositoryVars, Shape, Notifier
<1>3. y.pc = "looks" /\ y.child = c
  BY <1>1, <1>2, GoesRecord DEF Pcs
<1> HIDE DEF y
<1>4. task'["worker"] = y
  BY <1>2, Names DEF Shape, Becomes
<1>5. c \in Child /\ c \in Id /\ c \in Open
  BY <1>1, <1>2, AboutChild, Names DEF At, Shape, Owned, Open
<1>6. /\ Aged /\ commands'[c].state = outcome /\ \A d \in Id \ {c} : commands'[d] = commands[d]
  BY <1>2, <1>5, TransitionAged DEF Shape, TypeOK
<1>7. \A d \in Child \ {c} : commands'[d] = commands[d] /\ usage'[d] = usage[d]
  BY <1>2, <1>6, Names DEF Shape, TypeOK
<1>8. usage'[c] = actual /\ actual \in Nat
  BY <1>2, <1>5, CoordinatorAssumption DEF Shape, TypeOK
<1>9. ~Submitting /\ ~(actual > objectives[c[1]].budget)
  <2>1. mishaps' = {}
    BY DEF Undisturbed, Interfered
  <2> QED BY <1>1, <2>1 DEF WorkerEnds
<1>10. \A u \in Task : ~At(u, "activate") /\ ~At(u, "run")
  <2> SUFFICES ASSUME NEW u \in Task PROVE ~At(u, "activate") /\ ~At(u, "run")
    OBVIOUS
  <2>1. CASE u \in Submitter
    BY <1>9, <2>1 DEF Submitting, At
  <2>2. CASE u = "worker"
    BY <1>2, <2>2 DEF At
  <2>3. CASE u = "gateway"
    BY <2>3 DEF Steering, OneRuns, Turns, NoEcho
  <2> QED BY <2>1, <2>2, <2>3, Names DEF Notifier
<1>11. ASSUME NEW o \in ActiveNow, Linked(o) = c PROVE Pursues("worker", o)'
  <2>1. o \in Objective /\ c[1] = o
    BY <1>11 DEF ActiveNow, Linked
  <2>2. account.reserved[o] # 0 /\ account.reserved[o] = objectives[o].budget
    BY <1>5, <1>11 DEF Books, ActiveCharged, Prices
  <2>3. objectives[o].budget \in Nat
    BY <2>1 DEF Shape, TypeOK, RepositoryTypeOK
  <2>4. Linked(o)' = c
    BY <1>2, <1>11 DEF Linked
  <2>5. Pays(account, o)'
    BY <1>2, <1>8, <1>9, <2>1, <2>2, <2>3, <2>4 DEF Pays, Settles
  <2>6. outcome \in Terminal
    BY DEF WorkerOutcomes, Terminal, Settled, RunEnds
  <2> QED BY <1>3, <1>4, <1>6, <2>4, <2>5, <2>6 DEF Pursues, Reaches, At
<1>12. \A o : ~Pursues("worker", o)
  BY <1>2 DEF Pursues, Reaches, Committed, Reads, At
<1> QED BY <1>2, <1>3, <1>5, <1>6, <1>7, <1>9, <1>10, <1>11, <1>12, CommandCourse DEF Unlooked, At

(* A blocked command that is settled by hand is in the hands of the        *)
(* gateway, which notifies the mission of it.                              *)
LEMMA SettledByHand ==
  ASSUME Shape, Turns, Steering, NEW c \in Child, NEW y, Becomes("gateway", y),
         task["gateway"].pc \in {"idle", "terminates"}, NEW target,
         At("gateway", "terminates") => task["gateway"].child = c,
         Transition(c, commands[c].version, target),
         commands[c].state \in {"blocked_unknown", "reconciling"},
         y.child = c,
         \/ y.pc = "terminates" /\ target = "reconciling"
         \/ y.pc = "looks" /\ target = "cancelled",
         UNCHANGED <<mission, objectives, linked, account, advanced, usage>>
  PROVE  Steering'
<1>1. /\ "gateway" \in Notifier /\ c \in Id /\ task'["gateway"] = y
      /\ \A u \in Task \ {"gateway"} : task'[u] = task[u]
  BY Names DEF Notifier, Becomes, Shape
<1>2. /\ Aged /\ commands'[c].state = target /\ \A d \in Child \ {c} : commands'[d] = commands[d]
  BY <1>1, TransitionAged, Names DEF Shape, TypeOK
<1>3. Open' = Open /\ c \notin Open
  BY <1>2 DEF Open
<1>4. ~Submitting
  BY DEF Submitting, Steering, Submission, Unended
<1>5. ASSUME NEW o \in ActiveNow, Linked(o) = c PROVE \E m \in Notifier : Pursues(m, o)'
  <2>1. PICK m \in Notifier : Pursues(m, o)
    BY <1>3, <1>5 DEF Steering, Followed
  <2>2. Linked(o)' = c
    BY <1>5 DEF Linked
  <2>3. CASE task[m].pc \in {"endObjective", "failObjective"}
    <3>1. task'[m] = task[m]
      BY <1>1, <2>3, Names
    <3> QED BY <1>5, <2>1, <2>2, <2>3, <3>1 DEF Pursues
  <2>4. CASE task[m].pc \notin {"endObjective", "failObjective"}
    <3>1. Pays(account, o)'
      BY <1>5, <2>1, <2>2, <2>4 DEF Pursues, Pays, Settles
    <3>2. Reaches("gateway", o)'
      BY <1>1, <1>2, <2>2 DEF Reaches, At, Terminal, Settled, RunEnds
    <3> QED BY <1>1, <2>2, <3>1, <3>2 DEF Pursues
  <2> QED BY <2>3, <2>4
<1>6. \A o \in ActiveNow : Linked(o) # c => ~Pursues("gateway", o)
  BY DEF Pursues, Reaches, Committed, Reads, At
<1>7. task["gateway"].pc \in Unlooked /\ y.pc \in Unlooked
  BY DEF Unlooked
<1> QED BY <1>1, <1>2, <1>3, <1>4, <1>5, <1>6, <1>7, CommandCourse

\* a stop that closed admission is the only one who waits or settles otherwise
LEMMA GatewayCourse ==
  ASSUME Shape, Turns, Undisturbed, Undisturbed', Steering,
         \/ GatewayWaits \/ GatewayReconciles \/ GatewayCancels \/ GatewayNotifies
         \/ \E outcome \in WorkerOutcomes : GatewaySettles(outcome)
         \/ \E c \in Child : GatewayTerminates(c)
         \/ \E s \in Stop, target \in Child \union {NoId} : GatewayStops(s, target)
  PROVE  Steering'
<1>1. /\ accepting /\ accepting' /\ GatewayTerminated /\ task["gateway"] \in TaskRecord
      /\ "gateway" \in Notifier
  BY Names DEF Undisturbed, Interfered, Turns, Shape, Notifier
<1>2. /\ ~GatewayWaits /\ ~GatewayReconciles /\ ~GatewayNotifies
      /\ \A outcome \in WorkerOutcomes : ~GatewaySettles(outcome)
  BY <1>1 DEF GatewayWaits, GatewayReconciles, GatewayNotifies, GatewaySettles,
     GatewayTerminated, At
<1>3. \A s \in Stop, target \in Child \union {NoId} : ~GatewayStops(s, target)
  BY <1>1, StopAged DEF GatewayStops, Shape, TypeOK
<1>4. CASE GatewayCancels
  <2>1. PICK c : c = task["gateway"].child
    OBVIOUS
  <2> DEFINE y == [task["gateway"] EXCEPT !.pc = "looks"]
  <2>2. /\ At("gateway", "terminates") /\ Becomes("gateway", y)
        /\ Transition(c, commands[c].version, "cancelled")
        /\ UNCHANGED <<mission, objectives, linked, account, advanced, usage>>
    BY <1>4, <2>1 DEF GatewayCancels, Goes, GatewayMoves, repositoryVars, worldVars
  <2>3. y.pc = "looks" /\ y.child = c
    BY <1>1, <2>1, GoesRecord DEF Pcs
  <2> HIDE DEF y
  <2>4. c \in Child /\ commands[c].state = "reconciling"
    BY <1>1, <2>1, <2>2, AboutChild DEF At, Shape, Owned
  <2> QED BY <2>1, <2>2, <2>3, <2>4, SettledByHand DEF At
<1>5. ASSUME NEW c \in Child, GatewayTerminates(c) PROVE Steering'
  <2> DEFINE y == [Idle EXCEPT !.pc = "terminates", !.child = c]
  <2>1. /\ At("gateway", "idle") /\ Becomes("gateway", y) /\ commands[c].state = "blocked_unknown"
        /\ Transition(c, commands[c].version, "reconciling")
        /\ UNCHANGED <<mission, objectives, linked, account, advanced, usage>>
    BY <1>5 DEF GatewayTerminates, GatewayFree, GatewayMoves, repositoryVars, worldVars
  <2>2. y.pc = "terminates" /\ y.child = c
    BY StartRecords
  <2> HIDE DEF y
  <2> QED BY <2>1, <2>2, SettledByHand DEF At
<1> QED BY <1>2, <1>3, <1>4, <1>5

-----------------------------------------------------------------------------
(* Every step keeps the course, and what disturbed the mission once has    *)
(* disturbed it for good.                                                  *)
LEMMA NotifierKeepsCourse ==
  ASSUME Shape, Turns, Agenda, Books, Undisturbed, Undisturbed', Steering, NEW n \in Notifier,
         NotifierStep(n)
  PROVE  Steering'
<1>1. n \in Task
  BY Names
<1>2. CASE NotifyLooks(n) \/ NotifySkips(n) \/ NotifyRebalances(n) \/ NotifyTransitions(n)
  BY <1>2, NotifiesCourse
<1>3. CASE RebalanceDeclined(n) \/ PlannerRaises(n) \/ PlannerDeclines(n)
           \/ ChildRefused(n) \/ ChildAnswers(n) \/ AdaptStops(n)
  BY <1>3, DeclinesCourse
<1>4. CASE RebalanceSettles(n) \/ ChildSettles(n)
  BY <1>4, SettlesCourse
<1>5. CASE RebalanceFailsObjective(n) \/ ChildEndsObjective(n)
  BY <1>5, EndsObjectiveCourse
<1>6. CASE \/ \E amount \in 1..Limit : PlannerProposes(n, amount)
           \/ RebalanceReserves(n) \/ RebalanceReplaces(n)
  BY <1>6, PlansCourse
<1>7. CASE RebalanceFailsMission(n) \/ ChildReplayed(n) \/ ChildEndsMission(n)
  BY <1>7, EndsMissionCourse
<1>8. CASE RebalanceRearms(n)
  BY <1>8, RearmsCourse
<1>9. CASE \/ AdaptDecides(n) \/ VerifyCompletes(n)
           \/ ExploreProposes(n) \/ ExploreFunds(n) \/ ExploreAppends(n)
  BY <1>9, AdaptsCourse
<1>10. CASE Snapshots(n) \/ Advances(n)
  BY <1>1, <1>10, AdvancesCourse
<1> QED
  BY <1>2, <1>3, <1>4, <1>5, <1>6, <1>7, <1>8, <1>9, <1>10 DEF NotifierStep

LEMMA SteeringSame ==
  ASSUME Steering,
         UNCHANGED <<commands, mission, objectives, linked, account, usage, advanced, task>>
  PROVE  Steering'
<1>1. ActiveNow' = ActiveNow /\ Lost' = Lost /\ Open' = Open /\ \A o : Linked(o)' = Linked(o)
  BY DEF ActiveNow, Lost, Open, Linked
<1>2. \A u \in Task : Steered(u)'
  BY SteeredStays DEF Steering
<1>3. NotAdvanced'
  BY NotAdvancedSame, <1>1 DEF Steering
<1>4. Submission' /\ Submitted' /\ OneRuns'
  BY DEF Steering, Submission, Submitted, Submitting, OneRuns, At
<1>5. Followed'
  <2>1. ASSUME NEW o \in ActiveNow, NEW m \in Notifier, Pursues(m, o) PROVE Pursues(m, o)'
    BY <2>1, PursuesStays DEF ActiveNow
  <2>2. ASSUME NEW o \in Lost, NEW m \in Notifier, Closes(m, o) PROVE Closes(m, o)'
    BY <2>2, ClosesStays
  <2>3. NoHolder' <=> NoHolder
    BY DEF NoHolder, Holds
  <2> QED BY <1>1, <2>1, <2>2, <2>3 DEF Steering, Followed
<1> QED BY <1>2, <1>3, <1>4, <1>5 DEF Steering

LEMMA StepKeepsSteering ==
  ASSUME Shape, Turns, Agenda, Books, Undisturbed, Undisturbed', Steering, [Next]_vars
  PROVE  Steering'
<1>1. "worker" \in Notifier /\ "gateway" \in Notifier
  BY DEF Notifier
<1>2. ASSUME NEW s \in Submitter, SubmitCreates(s) \/ SubmitterStep(s) \/ SubmitCut(s)
      PROVE  Steering'
  <2>1. s \in Task
    BY Names
  <2>2. CASE SubmitCreates(s) \/ SubmitFunds(s) \/ SubmitPlans(s) \/ SubmitCut(s)
    BY <2>2, SubmitsCourse
  <2>3. CASE Snapshots(s) \/ Advances(s)
    BY <2>1, <2>3, AdvancesCourse
  <2> QED BY <1>2, <2>2, <2>3 DEF SubmitterStep
<1>3. ASSUME NEW c \in Id, WorkerExpires(c) \/ WorkerStarts(c) PROVE Steering'
  BY <1>3, StartsCourse
<1>4. ASSUME NEW outcome \in WorkerOutcomes, NEW actual \in Usage, WorkerEnds(outcome, actual)
      PROVE  Steering'
  BY <1>4, WorkerEndsCourse
<1>5. CASE NotifierStep("worker") \/ NotifierStep("gateway")
  BY <1>1, <1>5, NotifierKeepsCourse
<1>6. CASE \/ GatewayWaits \/ GatewayReconciles \/ GatewayCancels \/ GatewayNotifies
           \/ \E outcome \in WorkerOutcomes : GatewaySettles(outcome)
           \/ \E c \in Child : GatewayTerminates(c)
           \/ \E s \in Stop, target \in Child \union {NoId} : GatewayStops(s, target)
  BY <1>6, GatewayCourse
<1>7. CASE \/ \E c \in Child : ClockAdvances(c)
           \/ UNCHANGED vars
  <2>1. UNCHANGED <<commands, mission, objectives, linked, account, usage, advanced, task>>
    BY <1>7 DEF ClockAdvances, DeadlinePasses, repositoryVars, memoryVars, worldVars,
       journalVars, vars
  <2> QED BY <2>1, SteeringSame
<1>8. CASE Restart
  <2>1. restarts \in Nat /\ restarts' = restarts + 1
    BY <1>8 DEF Restart, Shape, TypeOK
  <2> QED BY <2>1 DEF Undisturbed, Interfered
<1> QED BY <1>2, <1>3, <1>4, <1>5, <1>6, <1>7, <1>8 DEF Next, WorkerStep, GatewayStep

Persistent ==
  /\ UNCHANGED <<accepting, restarts>> /\ mishaps \subseteq mishaps'
  /\ mission' = mission \/ mission.status \notin MissionEnds

LEMMA MovesPersistent ==
  ASSUME NEW t, NEW target, NEW P, MissionMoves(t, target, P)
  PROVE  mission' = mission \/ mission.status \notin MissionEnds
BY DEF MissionMoves, TransitionMission, MissionAdmits, MissionSuccessors, MissionEnds, repositoryVars

LEMMA AdvancesPersistent ==
  ASSUME NEW t, Snapshots(t) \/ Advances(t)
  PROVE  Persistent
<1>1. CASE Snapshots(t)
  BY <1>1 DEF Snapshots, ReadMission, ReadTransitions, ReadAccount, ReadObjectives, OnlyTask,
     Forgets, journalVars, repositoryVars, worldVars, Persistent
<1>2. CASE AdvanceCreatesNothing(t) \/ AdvanceRuns(t)
  <2>1. mission' = mission \/ mission.status \notin MissionEnds
    BY <1>2, MovesPersistent DEF AdvanceCreatesNothing, AdvanceRuns, repositoryVars
  <2>2. UNCHANGED <<accepting, restarts, mishaps>>
    BY <1>2 DEF AdvanceCreatesNothing, AdvanceRuns, MissionMoves, Returns, Raises, journalVars
  <2> QED BY <2>1, <2>2 DEF Persistent
<1>3. CASE AdvanceCreates(t)
  BY <1>3 DEF AdvanceCreates, CreateCommand, Forgets, worldVars, journalVars, repositoryVars, Persistent
<1>4. CASE AdvanceRefused(t)
  BY <1>4 DEF AdvanceRefused, Raises, journalVars, repositoryVars, Persistent
<1>5. CASE AdvanceActivates(t)
  BY <1>5 DEF AdvanceActivates, TransitionObjective, Returns, Raises, journalVars, repositoryVars,
     Persistent
<1> QED BY <1>1, <1>2, <1>3, <1>4, <1>5 DEF Advances

LEMMA RowsPersistent ==
  ASSUME OnlyRows, mission' = mission \/ mission.status \notin MissionEnds
  PROVE  Persistent
BY DEF OnlyRows, Forgets, worldVars, journalVars, Persistent

LEMMA NotifierPersistent ==
  ASSUME NEW n, NotifierStep(n)
  PROVE  Persistent
<1>1. CASE OnlyTask
  BY <1>1 DEF OnlyTask, Forgets, journalVars, repositoryVars, worldVars, Persistent
<1>2. CASE RebalanceSettles(n) \/ RebalanceReserves(n) \/ ChildSettles(n) \/ ExploreFunds(n)
  <2>1. OnlyRows /\ mission' = mission
    BY <1>2 DEF RebalanceSettles, RebalanceReserves, ChildSettles, ExploreFunds, SaveBudget, repositoryVars
  <2> QED BY <2>1, RowsPersistent
<1>3. CASE \/ RebalanceFailsObjective(n) \/ RebalanceReplaces(n) \/ RebalanceRearms(n)
           \/ ChildEndsObjective(n)
  <2>1. OnlyRows /\ mission' = mission
    BY <1>3 DEF RebalanceFailsObjective, RebalanceReplaces, RebalanceRearms, ChildEndsObjective,
       TransitionObjective, ReplaceObjectiveBudget, RearmObjective, repositoryVars
  <2> QED BY <2>1, RowsPersistent
<1>4. CASE RebalanceFailsMission(n) \/ ChildReplayed(n) \/ ChildEndsMission(n)
  <2>1. mission' = mission \/ mission.status \notin MissionEnds
    BY <1>4, MovesPersistent DEF RebalanceFailsMission, ChildReplayed, ChildEndsMission
  <2>2. UNCHANGED <<accepting, restarts, mishaps>>
    BY <1>4 DEF RebalanceFailsMission, ChildReplayed, ChildEndsMission, MissionMoves, Returns,
       Raises, journalVars
  <2> QED BY <2>1, <2>2 DEF Persistent
<1>5. CASE VerifyCompletes(n) \/ ExploreProposes(n) \/ ExploreAppends(n)
  <2>1. OnlyRows /\ (mission' = mission \/ mission.status \notin MissionEnds)
    BY <1>5 DEF VerifyCompletes, ExploreProposes, ExploreAppends, TransitionMission, MissionAdmits,
       MissionSuccessors, MissionEnds, SaveProposal, AppendObjective, repositoryVars
  <2> QED BY <2>1, RowsPersistent
<1>6. CASE Snapshots(n) \/ Advances(n)
  BY <1>6, AdvancesPersistent
<1>7. CASE \/ NotifyLooks(n) \/ NotifySkips(n) \/ NotifyRebalances(n) \/ NotifyTransitions(n)
           \/ RebalanceDeclined(n) \/ PlannerDeclines(n) \/ PlannerRaises(n)
           \/ (\E amount \in 1..Limit : PlannerProposes(n, amount))
           \/ ChildRefused(n) \/ ChildAnswers(n) \/ AdaptStops(n) \/ AdaptDecides(n)
  <2>1. OnlyTask
    BY <1>7 DEF NotifyLooks, NotifySkips, NotifyRebalances, NotifyTransitions, RebalanceDeclined,
       PlannerDeclines, PlannerRaises, PlannerProposes, ChildRefused, ChildAnswers, AdaptStops,
       AdaptDecides
  <2> QED BY <1>1, <2>1
<1> QED BY <1>2, <1>3, <1>4, <1>5, <1>6, <1>7 DEF NotifierStep

LEMMA SubmitterPersistent ==
  ASSUME NEW s, SubmitCreates(s) \/ SubmitterStep(s) \/ SubmitCut(s)
  PROVE  Persistent
<1>1. CASE SubmitCreates(s) \/ SubmitFunds(s) \/ SubmitPlans(s)
  <2>1. OnlyRows /\ (mission' = mission \/ mission.status \notin MissionEnds)
    BY <1>1 DEF SubmitCreates, SubmitFunds, SubmitPlans, CreateMission, SaveBudget,
       TransitionMission, MissionAdmits, MissionSuccessors, MissionEnds
  <2> QED BY <2>1, RowsPersistent
<1>2. CASE SubmitCut(s)
  BY <1>2 DEF SubmitCut, journalVars, repositoryVars, Persistent
<1> QED BY <1>1, <1>2, AdvancesPersistent DEF SubmitterStep

LEMMA WorldPersistent ==
  ASSUME \/ \E c \in Id : WorkerExpires(c) \/ WorkerStarts(c)
         \/ \E outcome \in WorkerOutcomes, actual \in Usage : WorkerEnds(outcome, actual)
         \/ GatewayWaits \/ GatewayReconciles \/ GatewayCancels \/ GatewayNotifies
         \/ \E outcome \in WorkerOutcomes : GatewaySettles(outcome)
         \/ \E c \in Child : GatewayTerminates(c) \/ ClockAdvances(c)
         \/ UNCHANGED vars
  PROVE  Persistent
<1>1. CASE \/ \E c \in Id : WorkerExpires(c) \/ WorkerStarts(c)
           \/ \E outcome \in WorkerOutcomes, actual \in Usage : WorkerEnds(outcome, actual)
  <2>1. Rows /\ UNCHANGED accepting /\ mishaps \subseteq mishaps'
    BY <1>1 DEF WorkerExpires, WorkerStarts, WorkerEnds, Transition
  <2> QED BY <2>1 DEF Rows, repositoryVars, Persistent
<1>2. CASE \/ GatewayWaits \/ GatewayReconciles \/ GatewayCancels \/ GatewayNotifies
           \/ \E outcome \in WorkerOutcomes : GatewaySettles(outcome)
           \/ \E c \in Child : GatewayTerminates(c)
  <2>1. GatewayMoves /\ UNCHANGED accepting
    BY <1>2 DEF GatewayWaits, GatewayReconciles, GatewayCancels, GatewayNotifies, GatewaySettles,
       GatewayTerminates, Transition, journalVars
  <2> QED BY <2>1 DEF GatewayMoves, repositoryVars, worldVars, Persistent
<1>3. CASE \E c \in Child : ClockAdvances(c)
  BY <1>3 DEF ClockAdvances, DeadlinePasses, repositoryVars, worldVars, Persistent
<1>4. CASE UNCHANGED vars
  BY <1>4 DEF vars, journalVars, repositoryVars, worldVars, Persistent
<1> QED BY <1>1, <1>2, <1>3, <1>4

LEMMA UndisturbedBefore ==
  ASSUME Shape, [Next]_vars, Undisturbed'
  PROVE  Undisturbed
<1>1. Persistent => Undisturbed
  BY DEF Persistent, Undisturbed, Interfered
<1>2. ~Restart
  <2> SUFFICES ASSUME Restart PROVE FALSE
    OBVIOUS
  <2>1. restarts \in Nat /\ restarts' = restarts + 1
    BY DEF Restart, Shape, TypeOK
  <2> QED BY <2>1 DEF Undisturbed, Interfered
<1>3. \A s \in Stop, target \in Child \union {NoId} : ~GatewayStops(s, target)
  BY StopAged DEF GatewayStops, Shape, TypeOK, Undisturbed, Interfered
<1>4. Persistent
  <2>1. CASE \E s \in Submitter : SubmitCreates(s) \/ SubmitterStep(s) \/ SubmitCut(s)
    BY <2>1, SubmitterPersistent
  <2>2. CASE NotifierStep("worker") \/ NotifierStep("gateway")
    BY <2>2, NotifierPersistent
  <2>3. CASE \/ \E c \in Id : WorkerExpires(c) \/ WorkerStarts(c)
             \/ \E outcome \in WorkerOutcomes, actual \in Usage : WorkerEnds(outcome, actual)
             \/ GatewayWaits \/ GatewayReconciles \/ GatewayCancels \/ GatewayNotifies
             \/ \E outcome \in WorkerOutcomes : GatewaySettles(outcome)
             \/ \E c \in Child : GatewayTerminates(c) \/ ClockAdvances(c)
             \/ UNCHANGED vars
    BY <2>3, WorldPersistent
  <2> QED BY <1>2, <1>3, <2>1, <2>2, <2>3 DEF Next, WorkerStep, GatewayStep
<1> QED BY <1>1, <1>4

LEMMA InitCourse ==
  ASSUME Init
  PROVE  Course
<1>1. /\ \A t \in Task : At(t, "idle")
      /\ mission.status = "absent" /\ advanced = {}
      /\ \A o \in Objective : objectives[o].status = "absent"
  BY Records DEF Init, RepositoryInit, At
<1>2. ActiveNow = {} /\ Lost = {}
  BY <1>1 DEF ActiveNow, Lost
<1>3. Submission /\ Submitted /\ OneRuns /\ NotAdvanced /\ Followed
  BY <1>1, <1>2, Names DEF Submission, Submitted, OneRuns, NotAdvanced, Followed, At
<1>4. ASSUME NEW t \in Task PROVE Steered(t)
  BY <1>1, <1>2 DEF Steered, Involved, Holds, Holding, Rebalancing, Informed, Onward, Reads,
     Concerned, Unlooked, Adapting, At
<1> QED BY <1>3, <1>4 DEF Course, Steering

(* As long as nothing disturbed the mission, somebody is on the way to     *)
(* settle what is active, to end or put back what failed, or to activate   *)
(* what comes next, and knows the mission as it is (submit, _advance,      *)
(* on_child_transition, request_rebalance and AdaptiveMissionRuntime).     *)
THEOREM CourseIsKept == Spec => []Course
<1>1. Shape /\ Turns /\ Books /\ Agenda /\ Course /\ [Next]_vars => Course'
  BY UndisturbedBefore, StepKeepsSteering DEF Course
<1> QED BY <1>1, InitCourse, TurnIsKept, BooksAreKept, AgendaIsKept, PTL DEF Spec

(* When no command is open, nothing is to be notified and no task is under *)
(* way, the mission ended or waits for evidence, unless it was stopped,    *)
(* the process restarted, or one of the named mishaps befell it            *)
(* (MissionCoordinator with the notifications of assembly.py).             *)
THEOREM NothingStrandsHolds == Spec => []NothingStrands
<1>1. Shape /\ Turns /\ Course => NothingStrands
  <2> SUFFICES ASSUME Shape, Course, Quiet, ~Interfered,
                      mission.status \notin {"absent", "waiting_evidence"} \union MissionEnds
               PROVE  FALSE
    BY DEF NothingStrands
  <2>1. Steering /\ mission.status \in {"accepted", "planning", "running"}
    BY DEF Course, Undisturbed, Shape, TypeOK, RepositoryTypeOK, MissionStatuses
  <2>2. Open = {} /\ \A t \in Task : task[t].pc = "idle"
    BY DEF Quiet, At
  <2>3. /\ NoHolder /\ ~Submitting
        /\ \A n \in Notifier : \A o : ~Pursues(n, o) /\ ~Closes(n, o)
    BY <2>2, Names DEF NoHolder, Holds, Holding, Rebalancing, Informed, Onward, Submitting, At,
       Pursues, Reaches, Committed, Closes, Reads
  <2>4. ActiveNow = {} /\ Lost = {}
    BY <2>1, <2>2, <2>3 DEF Steering, Followed
  <2> QED BY <2>1, <2>3, <2>4 DEF Steering, Followed, Submitted
<1> QED BY <1>1, TurnIsKept, CourseIsKept, PTL
=============================================================================
