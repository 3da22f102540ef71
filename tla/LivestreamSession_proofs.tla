------------------------ MODULE LivestreamSession_proofs ------------------------
(***************************************************************************)
(* Theorems about the livestream session, for any rooms, commands, callback*)
(* tasks and generations.                                                  *)
(*                                                                         *)
(* IInv is one inductive invariant in named parts; each part has a lemma   *)
(* that says every step keeps it.  SInv strengthens it by who will have the*)
(* last word on the public state and on the host, and is kept kind of step *)
(* by kind of step (Kinds).                                                *)
(***************************************************************************)
EXTENDS LivestreamSession, Queues_proofs, TLAPS

Inside == {"scene", "stopping", "switching", "closing", "connecting", "renewing",
           "announcing", "starting", "failing", "stopped"}
Moving == Inside \ {"scene"}

(* Whom the queue of the lock holds; who acts under it is its holder.      *)
Queueing ==
  /\ \A i \in DOMAIN lock :
       /\ lock[i] \in Op => op[lock[i]].pc \in Inside \union {"waiting"}
       /\ lock[i] \in Slot => /\ task[lock[i]].pc \in {"new", "again", "publishing"}
                              /\ task[lock[i]].pc = "publishing" => i = 1
  /\ \A o \in Op : op[o].pc \in Inside => Holds(o)

(* A command moves the generation once, and its number bounds it.          *)
Moved == {o \in Op : op[o].pc \notin {"unsent", "waiting", "scene"}}
Counting == /\ generation <= Cardinality(Moved)
            /\ \A o \in Op : op[o].pc \in Moving => generation > 0

(* What the command under the lock knows of the session.                   *)
Detached == {"stopping", "switching", "closing", "connecting", "renewing", "announcing"}
Owns(o) ==
  /\ op[o].pc \in Detached => gateway = None
  /\ op[o].pc \in {"closing", "announcing", "starting"} => replies = generation
  /\ op[o].pc \in Moving /\ op[o].room # None => scene = generation
  /\ op[o].pc \in {"connecting", "renewing", "announcing", "starting", "failing"}
       => op[o].room \in Room
  /\ op[o].pc = "stopped" => op[o].room = None
  /\ op[o].pc \in {"connecting", "renewing", "announcing"} => state = "connecting"
  /\ op[o].pc = "stopped" => state = "stopped"
Owning == /\ gateway # None => replies = generation
          /\ \A o \in Op : Owns(o)

(* What waits for the host: by whom, and what it says.                     *)
Calling(c, published, tasks) ==
  /\ c.by = None => c.call = "update" /\ c.snapshot.state # "live"
  /\ c.by \in Op => /\ c.call = "publish" /\ published[c.by].stage = "asked"
                    /\ c.snapshot.state # "live"
  /\ c.by \in Slot =>
       \/ c.call = "publish" /\ published[c.by].stage = "asked"
       \/ c.call = "activity" /\ tasks[c.by].pc = "showing"

Calls ==
  /\ \A i \in DOMAIN hostLock : Calling(hostLock[i], publication, task)
  /\ \A i, j \in DOMAIN hostLock :
       hostLock[i].by = hostLock[j].by /\ hostLock[i].by # None => i = j
Publications ==
  /\ \A o \in Op : publication[o].stage # "idle" =>
        /\ op[o].pc \in {"stopping", "announcing", "failing", "stopped"}
        /\ publication[o].snapshot.state # "live"
        /\ publication[o].snapshot.generation = generation
  /\ \A s \in Slot : publication[s].stage # "idle" => task[s].pc = "publishing"
Hosting == Calls /\ Publications

(* After the callback tasks were cancelled, those there are have still to  *)
(* pass the lock.                                                          *)
Drained == {"switching", "closing", "renewing", "announcing", "starting"}
DrainedIsClean ==
  \A o \in Op : op[o].pc \in Drained =>
    /\ \A s \in Slot : task[s].pc \in {"none", "new"}
    /\ \A i \in DOMAIN hostLock : hostLock[i].by \notin Slot

(* A generation is announced, then the host is silent until it is live.    *)
HostIsSilent == host = "none" /\ ~hostActive
Announced ==
  \A o \in Op :
    /\ op[o].pc = "announcing" /\ publication[o].stage # "narrating" => narrated = generation
    /\ op[o].pc = "announcing" /\ publication[o].stage = "idle" => HostIsSilent
    /\ op[o].pc = "starting" => narrated = generation /\ HostIsSilent

SubmittersAreFresh ==
  \A s \in Slot : task[s].pc \in {"showing", "submitting"} => task[s].gen = replies

(* Types that TypeOK has no need to say.                                   *)
Call == [by : Publisher \union {None}, call : {"publish", "update", "activity"},
         snapshot : Snapshot]
Announcement(snapshot) == snapshot \in Snapshot /\ snapshot.generation \in Generation
TypesToo ==
  /\ task \in [Slot -> [pc : {"none", "new", "publishing", "sinking", "again", "showing",
                              "submitting"},
                        gen : Generation \union {0}, kind : Callbacks]]
  /\ \A s \in Slot : task[s].pc # "none" => task[s].gen \in Generation
  /\ hostLock \in Seq(Call)
  /\ \A i \in DOMAIN hostLock :
       hostLock[i].call = "publish" => hostLock[i].snapshot.generation \in Generation
  /\ \A p \in Publisher : publication[p].stage # "idle" =>
       publication[p].snapshot.generation \in Generation
  /\ generation \in 0..MaxGeneration

IInv == /\ TypeOK /\ TypesToo /\ Queueing /\ Counting /\ Owning /\ Hosting /\ DrainedIsClean
        /\ Announced /\ SubmittersAreFresh /\ UnownedThreadsEnd

-----------------------------------------------------------------------------
(* Types.                                                                  *)
OpRecord == [pc : {"unsent", "waiting", "scene", "stopping", "switching", "closing",
                   "connecting", "renewing", "announcing", "starting", "failing",
                   "stopped", "done"},
             room : Room \union {None}, expected : Nat \union {None},
             old : Generation \union {None}]
TaskRecord == [pc : {"none", "new", "publishing", "sinking", "again", "showing",
                     "submitting"},
               gen : Generation \union {0}, kind : Callbacks]
PublicationRecord == [stage : {"idle", "narrating", "asked"}, snapshot : Snapshot]

LEMMA TypesSay ==
  ASSUME IInv
  PROVE  /\ op \in [Op -> OpRecord] /\ task \in [Slot -> TaskRecord]
         /\ publication \in [Publisher -> PublicationRecord]
         /\ hostLock \in Seq(Call) /\ lock \in Seq(Publisher) /\ IsInjective(lock)
         /\ generation \in 0..MaxGeneration /\ generation \in Nat /\ MaxGeneration \in Nat
         /\ state \in States /\ connected \in BOOLEAN /\ desired \in Room \union {None}
         /\ shown \in Snapshot /\ gateway \in Generation \union {None}
         /\ replies \in 0..MaxGeneration /\ scene \in 0..MaxGeneration
         /\ narrated \in Generation \union {None}
         /\ hostIdentity \in Generation \union {None}
         /\ hostWait \in BOOLEAN /\ hostActive \in BOOLEAN /\ host \in {"none", "armed"}
         /\ ServiceTypeOK
<1>1. TypeOK /\ TypesToo
  BY DEF IInv
<1>2. MaxGeneration \in Nat
  BY ServiceAssumption
<1>3. generation \in 0..MaxGeneration /\ generation \in Nat
  BY <1>1, <1>2 DEF TypesToo
<1>4. state \in States /\ connected \in BOOLEAN /\ desired \in Room \union {None}
  BY <1>1 DEF TypeOK, Snapshot
<1> QED
  BY <1>1, <1>2, <1>3, <1>4
     DEF TypeOK, TypesToo, OpRecord, TaskRecord, PublicationRecord

LEMMA NamesApart ==
  /\ None \notin Publisher /\ None \notin Generation /\ None \notin Room /\ None \notin Nat
  /\ Op \intersect Slot = {} /\ Op \subseteq Publisher /\ Slot \subseteq Publisher
  /\ Generation \subseteq Nat /\ 0 \notin Generation /\ Room \subseteq Nat
<1>1. Generation \subseteq Nat /\ 0 \notin Generation
  BY ServiceAssumption DEF Generation
<1>2. Op \subseteq Nat /\ Slot \subseteq Nat /\ Room \subseteq Nat /\ None \notin Nat
      /\ Op \intersect Slot = {}
  BY SessionAssumption
<1> QED
  BY <1>1, <1>2 DEF Publisher

(* A command past its scene holds a generation.                            *)
LEMMA MovingHasGeneration ==
  ASSUME IInv, NEW o \in Op, op[o].pc \in Moving
  PROVE  generation \in Generation
<1>1. generation > 0
  BY DEF IInv, Counting
<1> QED
  BY <1>1, TypesSay DEF Generation

(* There is one command under the lock.                                    *)
LEMMA OneInside ==
  ASSUME IInv, NEW o \in Op, op[o].pc \in Inside
  PROVE  /\ Holds(o)
         /\ \A p \in Op : op[p].pc \in Inside => p = o
         /\ \A s \in Slot : ~Holds(s)
BY NamesApart DEF IInv, Queueing, Holds

LEMMA InitHolds == Init => IInv
<1> SUFFICES ASSUME Init PROVE IInv
  OBVIOUS
<1>1. MaxGeneration \in Nat /\ 0 \in 0..MaxGeneration
  BY ServiceAssumption
<1>2. Stopped \in Snapshot
  BY DEF Stopped, Snapshot, States
<1>3. ServiceTypeOK
  BY DEF Init, ServiceInit, ServiceTypeOK
<1>4. NoTask \in TaskRecord /\ NoOp \in OpRecord /\ Quiescent \in PublicationRecord
      /\ NoTask.pc = "none" /\ NoTask.gen = 0 /\ NoTask.kind \in Callbacks
  BY <1>2 DEF NoTask, NoOp, Quiescent, TaskRecord, OpRecord, PublicationRecord, Callbacks
<1>5. lock = <<>> /\ lock \in Seq(Publisher) /\ IsInjective(lock) /\ hostLock = <<>>
  BY DEF Init, IsInjective
<1>6. TypeOK
  <2>1. op \in [Op -> OpRecord]
    BY <1>4 DEF Init
  <2>2. task \in [Slot -> [pc : {"none", "new", "publishing", "sinking", "again", "showing", "submitting"},
                        gen : Nat, kind : Callbacks]]
    BY <1>4 DEF Init, NoTask
  <2>3. publication \in [Publisher -> PublicationRecord]
    BY <1>4 DEF Init
  <2>4. [generation |-> generation, state |-> state, connected |-> connected,
         desired |-> desired] \in Snapshot
    BY DEF Init, Snapshot, States
  <2>5. shown \in Snapshot
    BY <1>2 DEF Init
  <2>6. \A i \in DOMAIN hostLock : hostLock[i].by \in Publisher \union {None}
    BY <1>5
  <2> QED
    BY <1>1, <1>3, <1>5, <2>1, <2>2, <2>3, <2>4, <2>5, <2>6
       DEF TypeOK, Init, OpRecord, PublicationRecord
<1>7. TypesToo
  <2>1. task \in [Slot -> TaskRecord]
    BY <1>4 DEF Init
  <2>2. /\ \A s \in Slot : task[s].pc = "none"
        /\ \A p \in Publisher : publication[p].stage = "idle"
    BY DEF Init, NoTask, Quiescent
  <2> QED
    BY <1>1, <1>5, <2>1, <2>2 DEF TypesToo, Init, TaskRecord
<1>8. Counting
  <2>1. Moved = {}
    BY DEF Init, Moved, NoOp
  <2>2. Cardinality(Moved) = 0
    BY <2>1, FS_EmptySet
  <2> QED
    BY <2>2 DEF Counting, Init, NoOp, Moving, Inside
<1>9. Queueing /\ Owning /\ DrainedIsClean /\ Announced /\ SubmittersAreFresh
  BY <1>5 DEF Init, Queueing, Owning, Owns, DrainedIsClean, Announced, SubmittersAreFresh,
     NoOp, NoTask, Inside, Moving, Detached, Drained
<1>10. Hosting
  BY <1>5, NamesApart DEF Init, Hosting, Calls, Publications, Quiescent
<1>11. UnownedThreadsEnd
  BY DEF Init, ServiceInit, UnownedThreadsEnd
<1> QED
  BY <1>6, <1>7, <1>8, <1>9, <1>10, <1>11 DEF IInv

(* Shapes of a step: who touches the transports, the snapshot, the lock.   *)
LEMMA ServiceTypesKept ==
  ASSUME IInv, [Next]_vars
  PROVE  ServiceTypeOK'
<1>a. ServiceTypeOK
  BY TypesSay
<1>1. CASE UNCHANGED serviceVars
  BY <1>a, <1>1 DEF serviceVars, ServiceTypeOK
<1>2. ASSUME NEW g \in Generation, ThreadWorks(g)
      PROVE  ServiceTypeOK'
  <2>1. CASE QueryFails(g) \/ \E event \in Broadcasts : AnswerIsDropped(g, event)
    BY <1>a, <2>1 DEF ServiceTypeOK, QueryFails, AnswerIsDropped, QueryEnds
  <2>2. CASE Forget(g) \/ CannotConnect(g) \/ Closes(g) \/ BackoffEnds(g)
    BY <1>a, <2>2 DEF ServiceTypeOK, Forget, CannotConnect, Closes, Exits, ForgetAll, BackoffEnds
  <2> QED
    BY <1>2, <2>1, <2>2 DEF ThreadWorks
<1>3. ASSUME NEW g \in Generation, NEW callback \in Callbacks, ThreadTells(g, callback)
      PROVE  ServiceTypeOK'
  <2>1. CASE Verified(g)
    BY <1>a, <2>1 DEF ServiceTypeOK, Verified
  <2>2. CASE callback \in Broadcasts /\ QueryAnswers(g, callback)
    BY <1>a, <2>2 DEF ServiceTypeOK, QueryAnswers, QueryEnds
  <2>3. CASE Consumes(g, callback)
    BY <1>a, <2>3 DEF ServiceTypeOK, Consumes
  <2>4. CASE Disconnects(g) \/ Breaks(g) \/ Exits(g)
    BY <1>a, <2>4 DEF ServiceTypeOK, Disconnects, Breaks, Exits, ForgetAll
  <2> QED
    BY <1>3, <2>1, <2>2, <2>3, <2>4 DEF ThreadTells
<1>4. ASSUME NEW o \in Op, OpCloses(o)
      PROVE  ServiceTypeOK'
  <2>1. op[o].old \in Generation \union {None}
    BY TypesSay DEF OpRecord
  <2>2. op[o].old # None => ServiceTypeOK'
    BY <1>a, <1>4, <2>1 DEF ServiceTypeOK, OpCloses, StopThread, ForgetAll
  <2> QED
    BY <1>1, <1>4, <2>2 DEF OpCloses
<1>5. ASSUME NEW o \in Op, OpStarts(o)
      PROVE  ServiceTypeOK'
  <2>1. generation \in Generation
    BY <1>5, MovingHasGeneration DEF OpStarts, OpAt, Moving, Inside
  <2> QED
    BY <1>a, <1>5, <2>1 DEF ServiceTypeOK, OpStarts, StartThread
<1>6. ASSUME NEW s \in Slot, TaskStep(s)
      PROVE  UNCHANGED serviceVars
  BY <1>6 DEF TaskStep, Discards, HandleStatus, HandleEvent, TaskPublished,
     EventBecomesMessage, HandleMessage, Submits, NarrationSwitched
<1>7. ASSUME NEW o \in Op, OpStep(o)
      PROVE  ServiceTypeOK'
  <2>1. \/ UNCHANGED serviceVars \/ OpCloses(o) \/ OpStarts(o)
    BY <1>7 DEF OpStep, OpEnters, SceneSwitched, NarrationSwitched, OpDrains, OpClosed,
       OpAnnounces, OpCannotStart, OpReturns
  <2> QED
    BY <1>1, <1>4, <1>5, <2>1
<1>8. CASE HostCancels \/ HostUnwinds \/ HostApplies
  BY <1>1, <1>8 DEF HostCancels, HostUnwinds, HostApplies
<1>9. ASSUME NEW g \in Generation, NEW s \in Slot, CreateTask(g, s)
      PROVE  ServiceTypeOK'
  BY <1>3, <1>9 DEF CreateTask
<1>10. ASSUME NEW o \in Op, NEW room, NEW expected, Send(o, room, expected)
       PROVE  UNCHANGED serviceVars
  BY <1>10 DEF Send
<1> QED
  BY <1>1, <1>2, <1>6, <1>7, <1>8, <1>9, <1>10 DEF Next, LoopStep, vars

-----------------------------------------------------------------------------
(* The lock.                                                               *)
LockTypes == lock \in Seq(Publisher) /\ IsInjective(lock)
InLine(p) == \E i \in DOMAIN lock : lock[i] = p

LEMMA HolderIsFirst ==
  ASSUME IInv, NEW p \in Publisher, Holds(p)
  PROVE  /\ lock # <<>> /\ 1 \in DOMAIN lock /\ lock[1] = p /\ Head(lock) = p /\ InLine(p)
         /\ \A i \in DOMAIN lock : lock[i] = p => i = 1
BY TypesSay, Leading DEF Holds, IsInjective, InLine

(* Who stands in line has not gone past it.                                *)
LEMMA InLineSays ==
  ASSUME IInv, NEW p \in Publisher, InLine(p)
  PROVE  /\ p \in Op => op[p].pc \in Inside \union {"waiting"}
         /\ p \in Slot => task[p].pc \in {"new", "again", "publishing"}
         /\ p \in Slot /\ task[p].pc = "publishing" => Holds(p)
<1>1. PICK i \in DOMAIN lock : lock[i] = p
  BY DEF InLine
<1>2. Queueing /\ lock \in Seq(Publisher)
  BY TypesSay DEF IInv
<1>3. i = 1 => Holds(p)
  BY <1>1, <1>2 DEF Holds
<1> QED
  BY <1>1, <1>2, <1>3 DEF Queueing

LEMMA Releasing ==
  ASSUME IInv, NEW p \in Publisher, Holds(p), Release,
         \A q \in Op : q # p => op'[q].pc = op[q].pc,
         \A s \in Slot : s # p => task'[s].pc = task[s].pc,
         p \in Op => op'[p].pc \notin Inside
  PROVE  LockTypes' /\ Queueing'
<1>1. lock \in Seq(Publisher) /\ IsInjective(lock) /\ lock # <<>> /\ Head(lock) = p
  BY TypesSay, HolderIsFirst
<1>2. LockTypes'
  BY <1>1, Leading, LeadingInjective DEF LockTypes, Release
<1>3. \A i \in DOMAIN lock' : /\ i \in Nat /\ i > 0 /\ i + 1 \in DOMAIN lock
                             /\ lock'[i] = lock[i + 1] /\ lock'[i] # p
  BY <1>1, Leading, LeadingInjective DEF Release
<1>4. ASSUME NEW i \in DOMAIN lock'
      PROVE  /\ lock'[i] \in Op => op'[lock'[i]].pc \in Inside \union {"waiting"}
             /\ lock'[i] \in Slot => task'[lock'[i]].pc \in {"new", "again"}
  <2>1. i + 1 \in DOMAIN lock /\ lock'[i] = lock[i + 1] /\ lock'[i] # p /\ i + 1 # 1
    BY <1>3
  <2>2. Queueing
    BY DEF IInv
  <2>3. /\ lock[i + 1] \in Op => op[lock[i + 1]].pc \in Inside \union {"waiting"}
        /\ lock[i + 1] \in Slot => task[lock[i + 1]].pc \in {"new", "again"}
    BY <2>1, <2>2 DEF Queueing
  <2> QED
    BY <2>1, <2>3
<1>5. \A o \in Op : op'[o].pc \notin Inside
  BY OneInside, NamesApart, <1>1 DEF Holds
<1> QED
  BY <1>2, <1>4, <1>5 DEF Queueing

LEMMA Waiting ==
  ASSUME IInv, NEW p \in Publisher, ~InLine(p), lock' = Append(lock, p),
         \A q \in Op : q # p => op'[q].pc = op[q].pc,
         \A s \in Slot : s # p => task'[s].pc = task[s].pc,
         p \in Op => op'[p].pc = "waiting",
         p \in Slot => task'[p].pc \in {"new", "again"}
  PROVE  LockTypes' /\ Queueing'
<1>1. lock \in Seq(Publisher) /\ IsInjective(lock) /\ Queueing
  BY TypesSay DEF IInv
<1>2. \A i \in DOMAIN lock : lock[i] # p
  BY DEF InLine
<1>3. LockTypes'
  BY <1>1, <1>2, Joining, JoiningInjective DEF LockTypes
<1>4. \A i \in DOMAIN lock' : \/ i \in DOMAIN lock /\ lock'[i] = lock[i] /\ lock'[i] # p
                             \/ lock'[i] = p
  BY <1>1, <1>2, Joining
<1>5. \A i \in DOMAIN lock' :
        /\ lock'[i] \in Op => op'[lock'[i]].pc \in Inside \union {"waiting"}
        /\ lock'[i] \in Slot => /\ task'[lock'[i]].pc \in {"new", "again", "publishing"}
                                /\ task'[lock'[i]].pc = "publishing" => i = 1
  BY <1>1, <1>4 DEF Queueing
<1>6. ASSUME NEW o \in Op, op'[o].pc \in Inside
      PROVE  Holds(o)'
  <2>1. op[o].pc \in Inside
    BY <1>6, "waiting" \notin Inside DEF Inside
  <2>2. Holds(o)
    BY <2>1, OneInside
  <2> QED
    BY <1>1, <2>2, Joining DEF Holds
<1> QED
  BY <1>3, <1>5, <1>6 DEF Queueing

LEMMA Keeping ==
  ASSUME IInv, UNCHANGED lock,
         \A q \in Op : \/ op'[q].pc = op[q].pc
                       \/ op'[q].pc \in Inside /\ Holds(q)
                       \/ op'[q].pc \notin Inside /\ ~InLine(q),
         \A s \in Slot : InLine(s) => \/ task'[s].pc = task[s].pc
                                      \/ task'[s].pc = "publishing" /\ Holds(s)
  PROVE  LockTypes' /\ Queueing'
<1>1. LockTypes /\ Queueing
  BY TypesSay DEF IInv, LockTypes
<1>2. LockTypes'
  BY <1>1 DEF LockTypes
<1>3. ASSUME NEW i \in DOMAIN lock
      PROVE  /\ lock[i] \in Op => op'[lock[i]].pc \in Inside \union {"waiting"}
             /\ lock[i] \in Slot => /\ task'[lock[i]].pc \in {"new", "again", "publishing"}
                                    /\ task'[lock[i]].pc = "publishing" => i = 1
  <2>1. InLine(lock[i])
    BY DEF InLine
  <2>2. lock[i] \in Publisher
    BY <1>1 DEF LockTypes
  <2>3. Holds(lock[i]) => i = 1
    BY <2>2, HolderIsFirst
  <2> QED
    BY <1>1, <2>1, <2>2, <2>3 DEF Queueing
<1>4. ASSUME NEW o \in Op, op'[o].pc \in Inside
      PROVE  Holds(o)
  <2>1. InLine(o) \/ op[o].pc \in Inside \/ Holds(o)
    BY <1>4
  <2> QED
    BY <1>4, OneInside
<1> QED
  BY <1>2, <1>3, <1>4 DEF Queueing, Holds

LEMMA Draining ==
  ASSUME IInv, NEW o \in Op, op[o].pc \in Inside, lock' = Others(lock, Slot),
         op'[o].pc \in Inside, \A q \in Op : q # o => op'[q].pc = op[q].pc
  PROVE  LockTypes' /\ Queueing'
<1> DEFINE P == {i \in DOMAIN lock : lock[i] \notin Slot}
<1>1. lock \in Seq(Publisher) /\ IsInjective(lock) /\ Queueing
  BY TypesSay DEF IInv
<1>2. P \subseteq DOMAIN lock /\ lock' = Kept(lock, P)
  BY DEF Others
<1>3. /\ LockTypes'
      /\ \A j \in DOMAIN lock' : Nth(P, j) \in P /\ lock'[j] = lock[Nth(P, j)]
      /\ 1 \in P => lock' # <<>> /\ Head(lock') = Head(lock)
  <2> HIDE DEF P
  <2> QED BY <1>1, <1>2, Leaving DEF LockTypes
<1>4. 1 \in P /\ Head(lock) = o
  BY OneInside, HolderIsFirst, NamesApart
<1>5. \A j \in DOMAIN lock' :
        /\ lock'[j] \notin Slot
        /\ lock'[j] \in Op => op[lock'[j]].pc \in Inside \union {"waiting"}
  BY <1>1, <1>3 DEF Queueing
<1>6. \A j \in DOMAIN lock' : lock'[j] \in Op => op'[lock'[j]].pc \in Inside \union {"waiting"}
  BY <1>5
<1>7. ASSUME NEW q \in Op, op'[q].pc \in Inside
      PROVE  Holds(q)'
  <2>1. q = o
    BY <1>7, OneInside
  <2> QED
    BY <1>3, <1>4, <2>1 DEF Holds
<1> QED
  BY <1>3, <1>5, <1>6, <1>7 DEF Queueing

(* A task that is not in line at its place in the code.                    *)
LEMMA NotInLine ==
  ASSUME IInv
  PROVE  /\ \A s \in Slot : task[s].pc \notin {"new", "again", "publishing"} => ~InLine(s)
         /\ \A o \in Op : op[o].pc \notin Inside \union {"waiting"} => ~InLine(o)
BY InLineSays, NamesApart

LEMMA TaskKeepsQueueing ==
  ASSUME IInv, NEW s \in Slot, TaskStep(s)
  PROVE  LockTypes' /\ Queueing'
<1>a. op \in [Op -> OpRecord] /\ task \in [Slot -> TaskRecord] /\ s \in Publisher /\ s \notin Op
  BY TypesSay, NamesApart
<1>b. ASSUME UNCHANGED <<lock, op, task>>
      PROVE  LockTypes' /\ Queueing'
  BY <1>b, Keeping
<1>1. CASE Discards(s)
  BY <1>a, <1>1, Releasing DEF Discards, Ends
<1>2. CASE HandleStatus(s)
  BY <1>a, <1>2, Keeping DEF HandleStatus, Goes, TaskRecord
<1>3. CASE HandleEvent(s)
  <2>1. Release /\ Holds(s) /\ UNCHANGED op /\ (Ends(s) \/ Goes(s, "publishing"))
    BY <1>3 DEF HandleEvent
  <2>2. \A t \in Slot : t # s => task'[t].pc = task[t].pc
    BY <1>a, <2>1 DEF Ends, Goes
  <2> QED
    BY <1>a, <2>1, <2>2, Releasing
<1>4. CASE TaskPublished(s)
  <2>1. UNCHANGED op /\ \A t \in Slot : t # s => task'[t].pc = task[t].pc
    BY <1>a, <1>4 DEF TaskPublished, Ends
  <2>2. ToSet(lock) = {lock[i] : i \in DOMAIN lock}
    BY DEF ToSet, Range
  <2>3. CASE InLine(s)
    <3>1. Holds(s)
      BY <1>a, <1>4, <2>3, InLineSays DEF TaskPublished
    <3>2. Release
      BY <1>4, <2>2, <2>3 DEF TaskPublished, InLine
    <3> QED
      BY <1>a, <2>1, <3>1, <3>2, Releasing
  <2>4. CASE ~InLine(s)
    <3>1. UNCHANGED lock
      BY <1>4, <2>2, <2>4 DEF TaskPublished, InLine
    <3> QED
      BY <2>1, <2>4, <3>1, Keeping
  <2> QED
    BY <2>3, <2>4
<1>5. CASE EventBecomesMessage(s)
  <2>1. CASE Release /\ Holds(s) /\ Goes(s, "sinking") /\ UNCHANGED op
    BY <1>a, <2>1, Releasing DEF Goes
  <2>2. CASE task[s].pc = "sinking" /\ lock' = Append(lock, s) /\ Goes(s, "again") /\ UNCHANGED op
    <3>1. ~InLine(s)
      BY <2>2, NotInLine
    <3>2. task'[s].pc = "again" /\ \A t \in Slot : t # s => task'[t].pc = task[t].pc
      BY <1>a, <2>2 DEF Goes, TaskRecord
    <3> QED
      BY <1>a, <2>2, <3>1, <3>2, Waiting
  <2> QED
    BY <1>5, <2>1, <2>2 DEF EventBecomesMessage
<1>6. CASE HandleMessage(s)
  BY <1>a, <1>6, Releasing DEF HandleMessage, Goes
<1>7. CASE Submits(s)
  <2>1. ~InLine(s)
    BY <1>7, NotInLine DEF Submits
  <2>2. UNCHANGED <<lock, op>> /\ \A t \in Slot : t # s => task'[t].pc = task[t].pc
    BY <1>a, <1>7 DEF Submits, Ends
  <2> QED
    BY <2>1, <2>2, Keeping
<1>8. CASE NarrationSwitched(s)
  BY <1>b, <1>8 DEF NarrationSwitched
<1> QED
  BY <1>1, <1>2, <1>3, <1>4, <1>5, <1>6, <1>7, <1>8 DEF TaskStep

LEMMA OpMovesOnly ==
  ASSUME IInv, NEW o \in Op, OpStep(o)
  PROVE  /\ op' \in [Op -> [pc : {"unsent"} \union Inside \union {"waiting", "done"},
                            room : Room \union {None}, expected : Nat \union {None},
                            old : Generation \union {None}]]
         /\ \A q \in Op : q # o => op'[q] = op[q]
<1>a. op \in [Op -> OpRecord] /\ gateway \in Generation \union {None}
  BY TypesSay
<1>b. OpRecord = [pc : {"unsent"} \union Inside \union {"waiting", "done"},
                  room : Room \union {None}, expected : Nat \union {None},
                  old : Generation \union {None}]
  BY DEF OpRecord, Inside
<1>c. ASSUME NEW pc \in Inside, op' = [op EXCEPT ![o].pc = pc]
      PROVE  op' \in [Op -> OpRecord] /\ \A q \in Op : q # o => op'[q] = op[q]
  BY <1>a, <1>c DEF OpRecord, Inside
<1>d. ASSUME OpEnds(o)
      PROVE  op' \in [Op -> OpRecord] /\ \A q \in Op : q # o => op'[q] = op[q]
  <2>1. [NoOp EXCEPT !.pc = "done"] \in OpRecord
    BY DEF OpRecord, NoOp
  <2> QED
    BY <1>a, <1>d, <2>1 DEF OpEnds
<1>1. CASE OpEnters(o)
  <2>1. CASE op' = [op EXCEPT ![o].pc = "scene", ![o].expected = None]
    <3>1. op'[o] = [op[o] EXCEPT !.pc = "scene", !.expected = None]
      BY <1>a, <2>1
    <3>2. op'[o] \in OpRecord
      BY <1>a, <3>1 DEF OpRecord
    <3>3. \A q \in Op : q # o => op'[q] = op[q]
      BY <1>a, <2>1
    <3>4. op' = [q \in Op |-> op'[q]]
      BY <1>a, <2>1
    <3> QED BY <1>a, <1>b, <3>2, <3>3, <3>4
  <2> QED
    BY <1>1, <1>b, <1>d, <2>1 DEF OpEnters
<1>2. CASE SceneSwitched(o)
  <2>1. CASE op' = [op EXCEPT ![o].pc = "stopping", ![o].old = gateway]
    <3>1. op'[o] = [op[o] EXCEPT !.pc = "stopping", !.old = gateway]
      BY <1>a, <2>1
    <3>2. op'[o] \in OpRecord
      BY <1>a, <3>1 DEF OpRecord
    <3>3. \A q \in Op : q # o => op'[q] = op[q]
      BY <1>a, <2>1
    <3>4. op' = [q \in Op |-> op'[q]]
      BY <1>a, <2>1
    <3> QED BY <1>a, <1>b, <3>2, <3>3, <3>4
  <2> QED
    BY <1>2, <1>b, <1>c, <2>1 DEF SceneSwitched, Inside
<1>3. CASE NarrationSwitched(o)
  BY <1>a, <1>b, <1>3 DEF NarrationSwitched
<1>4. CASE OpDrains(o, "stopping", "switching") \/ OpDrains(o, "connecting", "renewing")
  BY <1>b, <1>c, <1>4 DEF OpDrains, OpGoes, Inside
<1>5. CASE OpCloses(o) \/ (\E failed \in BOOLEAN : OpClosed(o, failed))
  BY <1>b, <1>c, <1>5 DEF OpCloses, OpClosed, OpGoes, Inside
<1>6. CASE OpAnnounces(o) \/ OpStarts(o) \/ OpCannotStart(o)
  BY <1>b, <1>c, <1>6 DEF OpAnnounces, OpStarts, OpCannotStart, OpGoes, Inside
<1>7. CASE OpReturns(o)
  BY <1>b, <1>d, <1>7 DEF OpReturns
<1> QED
  BY <1>1, <1>2, <1>3, <1>4, <1>5, <1>6, <1>7 DEF OpStep

LEMMA OpKeepsQueueing ==
  ASSUME IInv, NEW o \in Op, OpStep(o)
  PROVE  LockTypes' /\ Queueing'
<1>a. /\ o \in Publisher /\ o \notin Slot /\ op \in [Op -> OpRecord]
      /\ \A q \in Op : q # o => op'[q] = op[q]
  BY TypesSay, NamesApart, OpMovesOnly
<1>b. ASSUME UNCHANGED <<lock, task>>, op[o].pc \in Inside, op'[o].pc \in Inside
      PROVE  LockTypes' /\ Queueing'
  BY <1>a, <1>b, Keeping, OneInside
<1>c. ASSUME Release, OpEnds(o), Holds(o), UNCHANGED task
      PROVE  LockTypes' /\ Queueing'
  <2>1. op'[o].pc = "done"
    BY <1>a, <1>c DEF OpEnds, NoOp
  <2> QED
    BY <1>a, <1>c, <2>1, Releasing DEF Inside
<1>1. CASE OpEnters(o)
  <2>1. CASE op' = [op EXCEPT ![o].pc = "scene", ![o].expected = None] /\ UNCHANGED lock
    <3>1. op'[o].pc = "scene"
      BY <1>a, <2>1 DEF OpRecord
    <3>2. Holds(o) /\ UNCHANGED task
      BY <1>1 DEF OpEnters
    <3> QED
      BY <1>a, <2>1, <3>1, <3>2, Keeping DEF Inside
  <2> QED
    BY <1>1, <1>c, <2>1 DEF OpEnters
<1>2. CASE SceneSwitched(o)
  <2>1. op'[o].pc \in {"connecting", "stopping"}
    BY <1>a, <1>2 DEF SceneSwitched, OpRecord
  <2> QED
    BY <1>2, <1>b, <2>1 DEF SceneSwitched, OpAt, Inside
<1>3. CASE NarrationSwitched(o)
  BY <1>3, Keeping DEF NarrationSwitched
<1>4. ASSUME NEW from \in {"stopping", "connecting"}, NEW to \in {"switching", "renewing"},
             OpDrains(o, from, to)
      PROVE  LockTypes' /\ Queueing'
  <2>1. op'[o].pc \in Inside /\ op[o].pc \in Inside
    BY <1>a, <1>4 DEF OpDrains, OpGoes, OpAt, Inside, OpRecord
  <2>2. lock' = Others(lock, Slot)
    BY <1>4 DEF OpDrains, CancelCallbackTasks
  <2> QED
    BY <1>a, <2>1, <2>2, Draining
<1>5. CASE OpCloses(o)
  BY <1>a, <1>5, <1>b DEF OpCloses, OpGoes, OpAt, Inside
<1>6. ASSUME NEW failed \in BOOLEAN, OpClosed(o, failed)
      PROVE  LockTypes' /\ Queueing'
  <2>1. op'[o].pc \in {"stopped", "failing", "connecting"}
    <3>1. \/ OpGoes(o, "stopped") \/ OpGoes(o, "failing") \/ OpGoes(o, "connecting")
      BY <1>6 DEF OpClosed
    <3> QED BY <1>a, <3>1 DEF OpGoes, OpRecord
  <2> QED
    BY <1>6, <1>b, <2>1 DEF OpClosed, OpAt, Inside
<1>7. CASE OpAnnounces(o)
  BY <1>a, <1>7, <1>b DEF OpAnnounces, OpGoes, OpAt, Inside
<1>8. CASE OpStarts(o)
  BY <1>a, <1>8, <1>b DEF OpStarts, OpGoes, OpAt, Inside
<1>9. CASE OpCannotStart(o)
  BY <1>a, <1>9, <1>b DEF OpCannotStart, OpGoes, OpAt, Inside
<1>10. CASE OpReturns(o)
  BY <1>10, <1>c, OneInside DEF OpReturns, Inside
<1> QED
  BY <1>1, <1>2, <1>3, <1>4, <1>5, <1>6, <1>7, <1>8, <1>9, <1>10 DEF OpStep

(* A call on behalf of a slot is made by the task that shows a message.    *)
LEMMA HostAppliesTask ==
  ASSUME IInv, HostApplies
  PROVE  LET c == Head(hostLock) IN
         /\ hostLock # <<>> /\ 1 \in DOMAIN hostLock /\ c = hostLock[1] /\ c \in Call
         /\ Calling(c, publication, task) /\ c.by \in Publisher \union {None}
         /\ c.call = "activity" =>
              c.by \in Slot /\ task[c.by].pc = "showing"
              /\ task' = [task EXCEPT ![c.by].pc = "submitting"]
         /\ c.call # "activity" => UNCHANGED task
<1> DEFINE c == Head(hostLock)
<1>1. hostLock \in Seq(Call) /\ hostLock # <<>>
  BY TypesSay DEF HostApplies
<1>2. 1 \in DOMAIN hostLock /\ c = hostLock[1] /\ c \in Call
  BY <1>1, Leading
<1>3. Calling(c, publication, task)
  BY <1>2 DEF IInv, Hosting, Calls
<1>4. c.by \in Publisher \union {None}
  BY <1>2 DEF Call
<1> QED
  BY <1>1, <1>2, <1>3, <1>4 DEF HostApplies, Calling, Publisher

LEMMA LockKept ==
  ASSUME IInv, [Next]_vars
  PROVE  LockTypes' /\ Queueing'
<1>a. task \in [Slot -> TaskRecord] /\ op \in [Op -> OpRecord] /\ Op \subseteq Publisher
      /\ Slot \subseteq Publisher /\ Op \intersect Slot = {}
  BY TypesSay, NamesApart
<1>b. ASSUME UNCHANGED <<lock, op, task>>
      PROVE  LockTypes' /\ Queueing'
  BY <1>b, Keeping
<1>1. CASE HostCancels \/ HostUnwinds
  BY <1>1, <1>b DEF HostCancels, HostUnwinds
<1>2. CASE HostApplies
  <2>1. UNCHANGED <<lock, op>>
    BY <1>2 DEF HostApplies
  <2>2. \A s \in Slot : task'[s].pc = task[s].pc \/ task[s].pc = "showing"
    BY <1>2, <1>a, HostAppliesTask
  <2>3. \A s \in Slot : InLine(s) => task'[s].pc = task[s].pc
    BY <2>2, NotInLine
  <2> QED
    BY <2>1, <2>3, Keeping
<1>3. ASSUME NEW g \in Generation, NEW s \in Slot, CreateTask(g, s)
      PROVE  LockTypes' /\ Queueing'
  <2>1. ~InLine(s)
    BY <1>3, NotInLine DEF CreateTask
  <2>2. task'[s].pc = "new" /\ \A t \in Slot : t # s => task'[t] = task[t]
    BY <1>a, <1>3 DEF CreateTask
  <2> QED
    BY <1>a, <1>3, <2>1, <2>2, Waiting DEF CreateTask
<1>4. ASSUME NEW o \in Op, NEW room, NEW expected, Send(o, room, expected)
      PROVE  LockTypes' /\ Queueing'
  <2>1. ~InLine(o)
    BY <1>4, NotInLine DEF Send, Inside
  <2>2. op'[o].pc = "waiting" /\ \A q \in Op : q # o => op'[q] = op[q]
    BY <1>a, <1>4 DEF Send
  <2> QED
    BY <1>a, <1>4, <2>1, <2>2, Waiting DEF Send
<1> QED
  BY <1>b, <1>1, <1>2, <1>3, <1>4, TaskKeepsQueueing, OpKeepsQueueing
     DEF Next, LoopStep, vars, sessionVars

-----------------------------------------------------------------------------
(* The course of a command, and the generation.                            *)
Edge(from, to) ==
  \/ from = "waiting" /\ to \in {"done", "scene"}
  \/ from = "scene" /\ to \in {"connecting", "stopping"}
  \/ from = "stopping" /\ to = "switching"
  \/ from = "connecting" /\ to = "renewing"
  \/ from = "switching" /\ to = "closing"
  \/ from = "closing" /\ to \in {"stopped", "failing", "connecting"}
  \/ from = "renewing" /\ to = "announcing"
  \/ from = "announcing" /\ to \in {"starting", "failing"}
  \/ from \in {"starting", "failing", "stopped"} /\ to = "done"

LEMMA OpEdge ==
  ASSUME IInv, NEW o \in Op, OpStep(o)
  PROVE  \/ UNCHANGED op /\ NarrationSwitched(o)
         \/ /\ Edge(op[o].pc, op'[o].pc)
            /\ op'[o].pc # "done" => op'[o].room = op[o].room
            /\ \A q \in Op : q # o => op'[q] = op[q]
<1> DEFINE Moves == /\ Edge(op[o].pc, op'[o].pc)
                    /\ op'[o].pc # "done" => op'[o].room = op[o].room
<1>a. op \in [Op -> OpRecord] /\ \A q \in Op : q # o => op'[q] = op[q]
  BY TypesSay, OpMovesOnly
<1>b. ASSUME NEW to, OpGoes(o, to)
      PROVE  op'[o].pc = to /\ op'[o].room = op[o].room
  BY <1>a, <1>b DEF OpGoes, OpRecord
<1>c. OpEnds(o) => op'[o].pc = "done"
  BY <1>a DEF OpEnds, NoOp
<1>1. CASE OpEnters(o)
  <2>1. CASE op' = [op EXCEPT ![o].pc = "scene", ![o].expected = None]
    <3>1. op'[o].pc = "scene" /\ op'[o].room = op[o].room
      BY <1>a, <2>1 DEF OpRecord
    <3> QED BY <1>1, <3>1, <1>a DEF OpEnters, OpAt, Edge
  <2>2. CASE OpEnds(o)
    BY <1>1, <2>2, <1>c, <1>a DEF OpEnters, OpAt, Edge
  <2> QED
    BY <1>1, <2>1, <2>2 DEF OpEnters
<1>2. CASE SceneSwitched(o)
  <2>1. CASE op' = [op EXCEPT ![o].pc = "stopping", ![o].old = gateway]
    <3>1. op'[o].pc = "stopping" /\ op'[o].room = op[o].room
      BY <1>a, <2>1 DEF OpRecord
    <3> QED BY <1>2, <3>1, <1>a DEF SceneSwitched, OpAt, Edge
  <2>2. CASE op' = [op EXCEPT ![o].pc = "connecting"]
    <3>1. op'[o].pc = "connecting" /\ op'[o].room = op[o].room
      BY <1>a, <2>2 DEF OpRecord
    <3> QED BY <1>2, <3>1, <1>a DEF SceneSwitched, OpAt, Edge
  <2> QED
    BY <1>2, <2>1, <2>2 DEF SceneSwitched
<1>3. CASE NarrationSwitched(o)
  BY <1>3 DEF NarrationSwitched
<1>4. CASE OpDrains(o, "stopping", "switching") \/ OpDrains(o, "connecting", "renewing")
  BY <1>4, <1>b, <1>a DEF OpDrains, OpAt, Edge
<1>5. CASE OpCloses(o)
  BY <1>5, <1>b, <1>a DEF OpCloses, OpAt, Edge
<1>6. ASSUME NEW failed \in BOOLEAN, OpClosed(o, failed)
      PROVE  Moves
  <2>1. \/ OpGoes(o, "stopped") \/ OpGoes(o, "failing") \/ OpGoes(o, "connecting")
    BY <1>6 DEF OpClosed
  <2> QED
    BY <1>6, <1>b, <2>1 DEF OpClosed, OpAt, Edge
<1>7. CASE OpAnnounces(o)
  BY <1>7, <1>b, <1>a DEF OpAnnounces, OpAt, Edge
<1>8. CASE OpStarts(o)
  BY <1>8, <1>b, <1>a DEF OpStarts, OpAt, Edge
<1>9. CASE OpCannotStart(o)
  BY <1>9, <1>b, <1>a DEF OpCannotStart, OpAt, Edge
<1>10. CASE OpReturns(o)
  BY <1>10, <1>c, <1>a DEF OpReturns, Edge
<1> QED
  BY <1>a, <1>1, <1>2, <1>3, <1>4, <1>5, <1>6, <1>7, <1>8, <1>9, <1>10 DEF OpStep

(* Only the switch of a scene moves the generation.                        *)
LEMMA GenerationMoves ==
  ASSUME IInv, [Next]_vars
  PROVE  \/ UNCHANGED generation
         \/ \E o \in Op : SceneSwitched(o) /\ generation' = generation + 1
<1>1. ASSUME NEW s \in Slot, TaskStep(s)
      PROVE  UNCHANGED generation
  BY <1>1 DEF TaskStep, Discards, HandleStatus, HandleEvent, TaskPublished, Transition,
     EventBecomesMessage, HandleMessage, Submits, NarrationSwitched, snapshotVars
<1>2. ASSUME NEW o \in Op, OpStep(o)
      PROVE  UNCHANGED generation \/ (SceneSwitched(o) /\ generation' = generation + 1)
  BY <1>2 DEF OpStep, OpEnters, SceneSwitched, NarrationSwitched, OpDrains, OpCloses,
     OpClosed, OpAnnounces, OpStarts, OpCannotStart, OpReturns, Transition, snapshotVars
<1>3. CASE HostCancels \/ HostUnwinds \/ HostApplies
  BY <1>3 DEF HostCancels, HostUnwinds, HostApplies, snapshotVars
<1>4. ASSUME NEW g \in Generation, NEW s \in Slot, CreateTask(g, s)
      PROVE  UNCHANGED generation
  BY <1>4 DEF CreateTask, snapshotVars
<1>5. ASSUME NEW o \in Op, NEW room, NEW expected, Send(o, room, expected)
      PROVE  UNCHANGED generation
  BY <1>5 DEF Send, snapshotVars
<1>6. CASE UNCHANGED sessionVars
  BY <1>6 DEF sessionVars, snapshotVars
<1>7. CASE UNCHANGED vars
  BY <1>7 DEF vars, snapshotVars
<1> QED
  BY <1>1, <1>2, <1>3, <1>4, <1>5, <1>6, <1>7 DEF Next, LoopStep

(* What a step does to the commands.                                       *)
LEMMA OpsMove ==
  ASSUME IInv, [Next]_vars
  PROVE  \/ UNCHANGED op
         \/ \E o \in Op : /\ \A q \in Op : q # o => op'[q] = op[q]
                          /\ \/ OpStep(o) /\ Edge(op[o].pc, op'[o].pc)
                             \/ op[o].pc = "unsent" /\ op'[o].pc = "waiting"
<1>1. ASSUME NEW s \in Slot, TaskStep(s)
      PROVE  UNCHANGED op
  BY <1>1 DEF TaskStep, Discards, HandleStatus, HandleEvent, TaskPublished,
     EventBecomesMessage, HandleMessage, Submits, NarrationSwitched
<1>2. CASE HostCancels \/ HostUnwinds \/ HostApplies
  BY <1>2 DEF HostCancels, HostUnwinds, HostApplies
<1>3. ASSUME NEW g \in Generation, NEW s \in Slot, CreateTask(g, s)
      PROVE  UNCHANGED op
  BY <1>3 DEF CreateTask
<1>4. ASSUME NEW o \in Op, NEW room, NEW expected, Send(o, room, expected)
      PROVE  /\ \A q \in Op : q # o => op'[q] = op[q]
             /\ op[o].pc = "unsent" /\ op'[o].pc = "waiting"
  BY <1>4, TypesSay DEF Send
<1>5. CASE UNCHANGED sessionVars
  BY <1>5 DEF sessionVars
<1>6. CASE UNCHANGED vars
  BY <1>6 DEF vars
<1> QED
  BY <1>1, <1>2, <1>3, <1>4, <1>5, <1>6, OpEdge DEF Next, LoopStep

LEMMA CountingKept ==
  ASSUME IInv, [Next]_vars
  PROVE  Counting' /\ generation' \in 0..MaxGeneration
<1>a. /\ IsFiniteSet(Op) /\ Cardinality(Op) \in Nat /\ Cardinality(Op) <= MaxGeneration
      /\ MaxGeneration \in Nat
  BY SessionAssumption, ServiceAssumption, FS_CardinalityType
<1>b. Counting /\ generation \in Nat
  BY TypesSay DEF IInv
<1>c. Moved \subseteq Moved'
  BY OpsMove DEF Moved, Edge
<1>d. Moved' \subseteq Op
  BY DEF Moved
<1>e. /\ IsFiniteSet(Moved') /\ IsFiniteSet(Moved)
      /\ Cardinality(Moved) \in Nat /\ Cardinality(Moved') \in Nat
      /\ Cardinality(Moved') <= MaxGeneration /\ Cardinality(Moved) <= Cardinality(Moved')
  <2>1. IsFiniteSet(Moved') /\ Cardinality(Moved') <= Cardinality(Op)
    BY <1>a, <1>d, FS_Subset
  <2>2. IsFiniteSet(Moved) /\ Cardinality(Moved) <= Cardinality(Moved')
    BY <1>c, <2>1, FS_Subset
  <2>3. Cardinality(Moved) \in Nat /\ Cardinality(Moved') \in Nat
    BY <2>1, <2>2, FS_CardinalityType
  <2> QED
    BY <1>a, <2>1, <2>2, <2>3
<1>1. CASE UNCHANGED generation
  <2>1. \A o \in Op : op'[o].pc \in Moving => generation > 0
    <3> SUFFICES ASSUME NEW o \in Op, op'[o].pc \in Moving, op[o].pc \notin Moving
                 PROVE  FALSE
      BY <1>b DEF Counting
    <3>1. OpStep(o) /\ op[o].pc = "scene" /\ op'[o].pc # op[o].pc
      BY OpsMove DEF Edge, Moving, Inside
    <3>2. SceneSwitched(o)
      BY <3>1 DEF OpStep, OpEnters, NarrationSwitched, OpDrains, OpCloses,
         OpClosed, OpAnnounces, OpStarts, OpCannotStart, OpReturns, OpAt
    <3>3. generation' = generation + 1
      BY <3>2 DEF SceneSwitched, Transition
    <3> QED BY <1>1, <1>b, <3>3
  <2> QED
    BY <1>1, <1>a, <1>b, <1>e, <2>1 DEF Counting
<1>2. ASSUME NEW o \in Op, SceneSwitched(o), generation' = generation + 1
      PROVE  Counting' /\ generation' \in 0..MaxGeneration
  <2>1. o \notin Moved /\ o \in Moved'
    <3>1. op'[o].pc \in {"connecting", "stopping"}
      BY <1>2, TypesSay DEF SceneSwitched, OpRecord
    <3> QED BY <1>2, <3>1 DEF Moved, SceneSwitched, OpAt
  <2>2. Moved # Moved'
    BY <2>1
  <2>3. Cardinality(Moved) # Cardinality(Moved')
    BY <1>c, <1>e, <2>2, FS_Subset
  <2>4. generation' <= Cardinality(Moved')
    BY <1>2, <1>b, <1>e, <2>3 DEF Counting
  <2> QED
    BY <1>2, <1>b, <1>e, <1>a, <2>4 DEF Counting
<1> QED
  BY <1>1, <1>2, GenerationMoves

-----------------------------------------------------------------------------
(* Publications, and the types of what they leave.                         *)
PublicationTypes ==
  /\ publication \in [Publisher -> PublicationRecord]
  /\ \A p \in Publisher : publication[p].stage # "idle" =>
       publication[p].snapshot.generation \in Generation
  /\ hostLock \in Seq(Call)
  /\ \A i \in DOMAIN hostLock :
       hostLock[i].call = "publish" => hostLock[i].snapshot.generation \in Generation
  /\ narrated \in Generation \union {None} /\ shown \in Snapshot

LEMMA PublicationTypesHold == IInv => PublicationTypes
BY TypesSay DEF IInv, TypesToo, PublicationTypes

LEMMA CallingTypes ==
  ASSUME IInv, NEW p \in Publisher \union {None},
         NEW call \in {"publish", "update", "activity"}, NEW snapshot \in Snapshot,
         HostCall(p, call, snapshot),
         call = "publish" => snapshot.generation \in Generation
  PROVE  /\ hostLock' \in Seq(Call)
         /\ \A i \in DOMAIN hostLock' :
              hostLock'[i].call = "publish" => hostLock'[i].snapshot.generation \in Generation
<1> DEFINE c == [by |-> p, call |-> call, snapshot |-> snapshot]
<1>1. c \in Call /\ c.call = call /\ c.snapshot = snapshot
  BY DEF Call
<1>2. hostLock' = Append(hostLock, c)
  BY DEF HostCall
<1>3. hostLock \in Seq(Call) /\ \A i \in DOMAIN hostLock :
        hostLock[i].call = "publish" => hostLock[i].snapshot.generation \in Generation
  BY PublicationTypesHold DEF PublicationTypes
<1> HIDE DEF c
<1>4. hostLock' \in Seq(Call) /\ \A i \in DOMAIN hostLock' :
        (i \in DOMAIN hostLock /\ hostLock'[i] = hostLock[i]) \/ hostLock'[i] = c
  BY <1>1, <1>2, <1>3, Joining
<1> QED
  BY <1>1, <1>3, <1>4

LEMMA PublishTypes ==
  ASSUME IInv, NEW p \in Publisher, NEW snapshot, Announcement(snapshot),
         Publish(p, snapshot)
  PROVE  PublicationTypes'
<1>a. PublicationTypes
  BY PublicationTypesHold
<1>b. snapshot \in Snapshot /\ snapshot.generation \in Generation
  BY DEF Announcement
<1>1. ASSUME NEW stage \in {"asked", "narrating"},
             publication' = [publication EXCEPT ![p] = [stage |-> stage, snapshot |-> snapshot]]
      PROVE  /\ publication' \in [Publisher -> PublicationRecord]
             /\ \A q \in Publisher : publication'[q].stage # "idle" =>
                  publication'[q].snapshot.generation \in Generation
  BY <1>a, <1>b, <1>1 DEF PublicationTypes, PublicationRecord
<1>2. CASE narrated \in {None, snapshot.generation}
  <2>1. HostCall(p, "publish", snapshot) /\ narrated' = snapshot.generation /\ UNCHANGED shown
        /\ publication' = [publication EXCEPT ![p] = [stage |-> "asked", snapshot |-> snapshot]]
    BY <1>2 DEF Publish
  <2>2. /\ hostLock' \in Seq(Call)
        /\ \A i \in DOMAIN hostLock' :
             hostLock'[i].call = "publish" => hostLock'[i].snapshot.generation \in Generation
    BY <1>b, <2>1, CallingTypes
  <2> QED
    BY <1>a, <1>b, <1>1, <2>1, <2>2 DEF PublicationTypes
<1>3. CASE narrated \notin {None, snapshot.generation}
  <2>1. UNCHANGED <<narrated, shown, hostLock>>
        /\ publication' = [publication EXCEPT ![p] = [stage |-> "narrating", snapshot |-> snapshot]]
    BY <1>3 DEF Publish
  <2> QED
    BY <1>a, <1>1, <2>1 DEF PublicationTypes
<1> QED
  BY <1>2, <1>3

LEMMA NarrationTypes ==
  ASSUME IInv, NEW p \in Publisher, NarrationSwitched(p)
  PROVE  PublicationTypes'
<1>a. PublicationTypes
  BY PublicationTypesHold
<1>1. publication[p] \in PublicationRecord /\ publication[p].snapshot.generation \in Generation
      /\ publication[p].snapshot \in Snapshot
  BY <1>a DEF PublicationTypes, NarrationSwitched, PublicationRecord
<1>2. HostCall(p, "publish", publication[p].snapshot) /\ UNCHANGED shown
      /\ narrated' = publication[p].snapshot.generation
      /\ publication' = [publication EXCEPT ![p].stage = "asked"]
  BY DEF NarrationSwitched
<1>3. /\ hostLock' \in Seq(Call)
      /\ \A i \in DOMAIN hostLock' :
           hostLock'[i].call = "publish" => hostLock'[i].snapshot.generation \in Generation
  BY <1>1, <1>2, CallingTypes
<1>4. /\ publication' \in [Publisher -> PublicationRecord]
      /\ \A q \in Publisher : publication'[q].stage # "idle" =>
           publication'[q].snapshot.generation \in Generation
  BY <1>a, <1>1, <1>2 DEF PublicationTypes, PublicationRecord
<1> QED
  BY <1>a, <1>1, <1>2, <1>3, <1>4 DEF PublicationTypes

(* The snapshot a step publishes: well typed, and of a generation.         *)
SnapshotTypes == /\ state \in States /\ connected \in BOOLEAN
                 /\ desired \in Room \union {None} /\ generation \in 0..MaxGeneration

LEMMA SnapIsTyped ==
  ASSUME SnapshotTypes
  PROVE  Snap \in Snapshot /\ Snap.generation = generation /\ Snap.state = state
BY ServiceAssumption DEF Snap, Snapshot, SnapshotTypes

LEMMA SnapshotTypesKept ==
  ASSUME IInv, [Next]_vars
  PROVE  SnapshotTypes'
<1>a. SnapshotTypes
  BY TypesSay DEF SnapshotTypes
<1>b. generation' \in 0..MaxGeneration
  BY CountingKept
<1>c. UNCHANGED snapshotVars => SnapshotTypes'
  BY <1>a DEF SnapshotTypes, snapshotVars
<1>d. ASSUME NEW o \in Op
      PROVE  op[o].room \in Room \union {None}
  BY TypesSay DEF OpRecord
<1>1. ASSUME NEW s \in Slot, TaskStep(s)
      PROVE  SnapshotTypes'
  <2>1. CASE HandleStatus(s)
    BY <2>1, <1>a, <1>b DEF HandleStatus, Transition, SnapshotTypes, States, Active
  <2>2. CASE HandleEvent(s)
    BY <2>2, <1>a, <1>b, <1>c
       DEF HandleEvent, Transition, SnapshotTypes, States, Active, Broadcasts
  <2> QED
    BY <1>1, <1>c, <2>1, <2>2 DEF TaskStep, Discards, TaskPublished,
       EventBecomesMessage, HandleMessage, Submits, NarrationSwitched
<1>2. ASSUME NEW o \in Op, OpStep(o)
      PROVE  SnapshotTypes'
  <2>1. CASE SceneSwitched(o)
    BY <2>1, <1>a, <1>b, <1>d DEF SceneSwitched, Transition, SnapshotTypes, States, Active
  <2>2. ASSUME NEW failed \in BOOLEAN, OpClosed(o, failed)
        PROVE  SnapshotTypes'
    BY <2>2, <1>a, <1>b DEF OpClosed, Transition, SnapshotTypes, States, Active
  <2>3. CASE OpCannotStart(o)
    BY <2>3, <1>a, <1>b DEF OpCannotStart, Transition, SnapshotTypes, States, Active
  <2> QED
    BY <1>2, <1>c, <2>1, <2>2, <2>3 DEF OpStep, OpEnters, NarrationSwitched, OpDrains,
       OpCloses, OpAnnounces, OpStarts, OpReturns
<1>3. CASE HostCancels \/ HostUnwinds \/ HostApplies
  BY <1>3, <1>c DEF HostCancels, HostUnwinds, HostApplies
<1>4. ASSUME NEW g \in Generation, NEW s \in Slot, CreateTask(g, s)
      PROVE  SnapshotTypes'
  BY <1>4, <1>c DEF CreateTask
<1>5. ASSUME NEW o \in Op, NEW room, NEW expected, Send(o, room, expected)
      PROVE  SnapshotTypes'
  BY <1>5, <1>c DEF Send
<1> QED
  BY <1>1, <1>2, <1>3, <1>4, <1>5, <1>c DEF Next, LoopStep, sessionVars, vars

LEMMA DrainTypes ==
  ASSUME IInv, CancelCallbackTasks
  PROVE  /\ PublicationTypes'
         /\ \A i \in DOMAIN hostLock' : hostLock'[i].by \notin Slot
         /\ \A i \in DOMAIN hostLock' : \E j \in DOMAIN hostLock : hostLock'[i] = hostLock[j]
         /\ \A i, k \in DOMAIN hostLock' : i # k =>
              \E j, l \in DOMAIN hostLock :
                j # l /\ hostLock'[i] = hostLock[j] /\ hostLock'[k] = hostLock[l]
<1> DEFINE P == {i \in DOMAIN hostLock : hostLock[i].by \notin Slot}
<1>a. PublicationTypes
  BY PublicationTypesHold
<1>1. hostLock' = Kept(hostLock, P) /\ P \subseteq DOMAIN hostLock
  BY DEF CancelCallbackTasks
<1>2. \A i \in P : i \in DOMAIN hostLock /\ hostLock[i].by \notin Slot /\ i \in Nat
  BY <1>a DEF PublicationTypes
<1>3. /\ hostLock' \in Seq(Call)
      /\ \A j \in DOMAIN hostLock' : Nth(P, j) \in P /\ hostLock'[j] = hostLock[Nth(P, j)]
      /\ \A j, k \in DOMAIN hostLock' : j < k => Nth(P, j) < Nth(P, k)
  <2> HIDE DEF P
  <2> QED BY <1>a, <1>1, Leaving DEF PublicationTypes
<1> HIDE DEF P
<1>4. ASSUME NEW i \in DOMAIN hostLock', NEW k \in DOMAIN hostLock', i # k
      PROVE  Nth(P, i) # Nth(P, k)
  <2>1. i \in Nat /\ k \in Nat /\ Nth(P, i) \in Nat /\ Nth(P, k) \in Nat
    BY <1>2, <1>3
  <2>2. i < k \/ k < i
    BY <1>4, <2>1
  <2> QED BY <1>3, <2>1, <2>2
<1>5. \A i, k \in DOMAIN hostLock' : i # k =>
        \E j, l \in DOMAIN hostLock :
          j # l /\ hostLock'[i] = hostLock[j] /\ hostLock'[k] = hostLock[l]
  BY <1>2, <1>3, <1>4
<1>6. /\ \A i \in DOMAIN hostLock' : hostLock'[i].by \notin Slot
      /\ \A i \in DOMAIN hostLock' : \E j \in DOMAIN hostLock : hostLock'[i] = hostLock[j]
  BY <1>2, <1>3
<1>7. /\ publication' \in [Publisher -> PublicationRecord]
      /\ \A p \in Publisher : publication'[p].stage # "idle" =>
           publication'[p].snapshot.generation \in Generation
  <2>1. Quiescent \in PublicationRecord /\ Quiescent.stage = "idle"
    BY DEF Quiescent, PublicationRecord, Stopped, Snapshot, States
  <2> QED
    BY <1>a, <2>1 DEF CancelCallbackTasks, PublicationTypes
<1>8. UNCHANGED <<narrated, shown>>
  BY DEF CancelCallbackTasks
<1> QED
  BY <1>a, <1>3, <1>5, <1>6, <1>7, <1>8 DEF PublicationTypes

LEMMA PublicationTypesKept ==
  ASSUME IInv, [Next]_vars
  PROVE  PublicationTypes'
<1>a. PublicationTypes
  BY PublicationTypesHold
<1>b. UNCHANGED <<publication, narrated, shown, hostLock>> => PublicationTypes'
  BY <1>a DEF PublicationTypes
<1>c. SnapshotTypes /\ SnapshotTypes'
  BY TypesSay, SnapshotTypesKept DEF SnapshotTypes
<1>d. Snap \in Snapshot /\ Snap' \in Snapshot /\ Snap.generation = generation
      /\ Snap'.generation = generation' /\ Stopped \in Snapshot
  BY <1>c, SnapIsTyped DEF Snap, Snapshot, SnapshotTypes, Stopped, States
<1>e. Op \subseteq Publisher /\ Slot \subseteq Publisher
  BY NamesApart
<1>f. ASSUME NEW p \in Publisher, Publish(p, Snap'), generation' \in Generation
      PROVE  PublicationTypes'
  BY <1>d, <1>f, PublishTypes DEF Announcement
<1>g. ASSUME NEW p \in Publisher \union {None}, NEW call \in {"update", "activity"},
             NEW snapshot \in Snapshot, HostCall(p, call, snapshot),
             UNCHANGED <<publication, narrated, shown>>
      PROVE  PublicationTypes'
  <2>1. /\ hostLock' \in Seq(Call)
        /\ \A i \in DOMAIN hostLock' :
             hostLock'[i].call = "publish" => hostLock'[i].snapshot.generation \in Generation
    BY <1>g, CallingTypes
  <2> QED BY <1>a, <1>g, <2>1 DEF PublicationTypes
<1>1. ASSUME NEW s \in Slot, TaskStep(s)
      PROVE  PublicationTypes'
  <2>a. task[s].pc # "none" => task[s].gen \in Generation
    BY DEF IInv, TypesToo
  <2>1. CASE HandleStatus(s)
    <3>1. generation' \in Generation /\ Publish(s, Snap')
      BY <2>1, <2>a DEF HandleStatus, Current, Transition
    <3> QED BY <1>e, <1>f, <3>1
  <2>2. CASE HandleEvent(s)
    <3>1. \/ generation' \in Generation /\ Publish(s, Snap')
          \/ UNCHANGED <<publication, narrated, shown, hostLock>>
      BY <2>2, <2>a DEF HandleEvent, Current, Transition, publishVars
    <3> QED BY <1>b, <1>e, <1>f, <3>1
  <2>3. CASE HandleMessage(s)
    BY <2>3, <1>d, <1>e, <1>g DEF HandleMessage, publishVars
  <2>4. CASE NarrationSwitched(s)
    BY <2>4, <1>e, NarrationTypes
  <2> QED
    BY <1>1, <1>b, <2>1, <2>2, <2>3, <2>4
       DEF TaskStep, Discards, TaskPublished, EventBecomesMessage, Submits, publishVars
<1>2. ASSUME NEW o \in Op, OpStep(o)
      PROVE  PublicationTypes'
  <2>1. CASE OpEnters(o)
    <3>1. HostCall(None, "update", Snap) \/ UNCHANGED hostLock
      BY <2>1 DEF OpEnters
    <3> QED BY <1>b, <1>d, <1>g, <2>1, <3>1 DEF OpEnters, publishVars
  <2>2. CASE SceneSwitched(o)
    <3>1. generation' \in Generation
      BY <2>2, <1>c, TypesSay DEF SceneSwitched, Transition, SnapshotTypes, Generation
    <3>2. Publish(o, Snap') \/ UNCHANGED <<publication, narrated, shown, hostLock>>
      BY <2>2 DEF SceneSwitched, publishVars
    <3> QED BY <1>b, <1>e, <1>f, <3>1, <3>2
  <2>3. CASE NarrationSwitched(o)
    BY <2>3, <1>e, NarrationTypes
  <2>4. CASE OpDrains(o, "stopping", "switching") \/ OpDrains(o, "connecting", "renewing")
    BY <2>4, DrainTypes DEF OpDrains
  <2>5. ASSUME NEW failed \in BOOLEAN, OpClosed(o, failed)
        PROVE  PublicationTypes'
    <3>1. generation' \in Generation
      BY <2>5, MovingHasGeneration DEF OpClosed, OpAt, Transition, Moving, Inside
    <3>2. Publish(o, Snap') \/ UNCHANGED <<publication, narrated, shown, hostLock>>
      BY <2>5 DEF OpClosed, publishVars
    <3> QED BY <1>b, <1>e, <1>f, <3>1, <3>2
  <2>6. CASE OpAnnounces(o)
    <3>1. generation \in Generation
      BY <2>6, MovingHasGeneration DEF OpAnnounces, OpAt, Moving, Inside
    <3> QED BY <1>d, <1>e, <2>6, <3>1, PublishTypes DEF OpAnnounces, Announcement
  <2>7. CASE OpCannotStart(o)
    <3>1. generation' \in Generation
      BY <2>7, MovingHasGeneration DEF OpCannotStart, OpAt, Transition, Moving, Inside
    <3> QED BY <1>e, <1>f, <2>7, <3>1 DEF OpCannotStart
  <2>8. CASE OpReturns(o)
    <3>1. HostCall(None, "update", Snap) \/ UNCHANGED hostLock
      BY <2>8 DEF OpReturns
    <3> QED BY <1>b, <1>d, <1>g, <2>8, <3>1 DEF OpReturns, publishVars
  <2> QED
    BY <1>2, <1>b, <2>1, <2>2, <2>3, <2>4, <2>5, <2>6, <2>7, <2>8
       DEF OpStep, OpCloses, OpStarts, publishVars
<1>3. CASE HostApplies
  <2> DEFINE c == Head(hostLock)
  <2>1. hostLock # <<>> /\ hostLock \in Seq(Call) /\ c \in Call /\ hostLock' = Tail(hostLock)
    BY <1>3, <1>a, HostAppliesTask DEF HostApplies, PublicationTypes
  <2>2. /\ hostLock' \in Seq(Call)
        /\ \A i \in DOMAIN hostLock' : i + 1 \in DOMAIN hostLock /\ hostLock'[i] = hostLock[i + 1]
    <3> HIDE DEF c
    <3> QED BY <2>1, Leading
  <2>3. c.snapshot \in Snapshot
    BY <2>1 DEF Call
  <2>4. Quiescent \in PublicationRecord /\ Quiescent.stage = "idle"
    BY DEF Quiescent, PublicationRecord, Stopped, Snapshot, States
  <2>5. /\ publication' \in [Publisher -> PublicationRecord]
        /\ \A p \in Publisher : publication'[p].stage # "idle" =>
             publication'[p].snapshot.generation \in Generation
    BY <1>3, <1>a, <2>4 DEF HostApplies, PublicationTypes
  <2>6. shown' \in Snapshot /\ UNCHANGED narrated
    BY <1>3, <1>a, <2>3 DEF HostApplies, PublicationTypes
  <2>7. \A i \in DOMAIN hostLock' :
          hostLock'[i].call = "publish" => hostLock'[i].snapshot.generation \in Generation
    BY <1>a, <2>2 DEF PublicationTypes
  <2> QED
    BY <1>a, <2>2, <2>5, <2>6, <2>7 DEF PublicationTypes
<1>4. CASE HostCancels \/ HostUnwinds
  BY <1>4, <1>b DEF HostCancels, HostUnwinds, publishVars
<1>5. ASSUME NEW g \in Generation, NEW s \in Slot, CreateTask(g, s)
      PROVE  PublicationTypes'
  BY <1>5, <1>b DEF CreateTask, publishVars
<1>6. ASSUME NEW o \in Op, NEW room, NEW expected, Send(o, room, expected)
      PROVE  PublicationTypes'
  BY <1>6, <1>b DEF Send, publishVars
<1> QED
  BY <1>1, <1>2, <1>3, <1>4, <1>5, <1>6, <1>b DEF Next, LoopStep, sessionVars, vars, publishVars

-----------------------------------------------------------------------------
(* The course of a callback task.                                          *)
Passing(s) ==
  \/ task[s].pc = "new" /\ Holds(s) /\ Current(s) /\ task'[s].pc = "publishing"
  \/ task[s].pc = "new" /\ Holds(s) /\ task'[s].pc = "sinking"
  \/ task[s].pc = "sinking" /\ task'[s].pc = "again"
  \/ task[s].pc = "again" /\ Holds(s) /\ Current(s) /\ task'[s].pc = "showing"
Advances(s) ==
  \/ task'[s].gen = task[s].gen /\ TaskStep(s) /\ Passing(s)
  \/ task'[s].gen = task[s].gen /\ task[s].pc = "showing" /\ task'[s].pc = "submitting"
  \/ task'[s].gen \in Generation /\ task[s].pc = "none" /\ task'[s].pc = "new"
TaskEnds(s) == task'[s].pc = "none" /\ task[s].pc # "none" /\ TaskStep(s)

LEMMA TaskStepMoves ==
  ASSUME IInv, NEW s \in Slot, TaskStep(s)
  PROVE  /\ task' \in [Slot -> TaskRecord]
         /\ \A t \in Slot : t # s => task'[t] = task[t]
         /\ UNCHANGED task \/ TaskEnds(s) \/ Advances(s)
<1> DEFINE Moves == UNCHANGED task \/ TaskEnds(s) \/ Advances(s)
<1>a. task \in [Slot -> TaskRecord]
  BY TypesSay
<1>b. NoTask \in TaskRecord /\ NoTask.pc = "none"
  BY DEF NoTask, TaskRecord, Callbacks
<1>c. ASSUME Ends(s)
      PROVE  /\ task' \in [Slot -> TaskRecord] /\ task'[s].pc = "none"
             /\ \A t \in Slot : t # s => task'[t] = task[t]
  BY <1>a, <1>b, <1>c DEF Ends
<1>d. ASSUME NEW pc \in {"publishing", "sinking", "again", "showing"}, Goes(s, pc)
      PROVE  /\ task' \in [Slot -> TaskRecord] /\ task'[s].pc = pc
             /\ task'[s].gen = task[s].gen
             /\ \A t \in Slot : t # s => task'[t] = task[t]
  BY <1>a, <1>d DEF Goes, TaskRecord
<1>1. CASE Discards(s)
  BY <1>1, <1>c, TaskStep(s) DEF Discards, TaskEnds
<1>2. CASE HandleStatus(s)
  BY <1>2, <1>d, TaskStep(s) DEF HandleStatus, Advances, Passing
<1>3. CASE HandleEvent(s)
  BY <1>3, <1>c, <1>d, TaskStep(s) DEF HandleEvent, Advances, Passing, TaskEnds
<1>4. CASE TaskPublished(s)
  BY <1>4, <1>c, TaskStep(s) DEF TaskPublished, TaskEnds
<1>5. CASE EventBecomesMessage(s)
  BY <1>5, <1>d, TaskStep(s) DEF EventBecomesMessage, Advances, Passing
<1>6. CASE HandleMessage(s)
  BY <1>6, <1>d, TaskStep(s) DEF HandleMessage, Advances, Passing
<1>7. CASE Submits(s)
  BY <1>7, <1>c, TaskStep(s) DEF Submits, TaskEnds
<1>8. CASE NarrationSwitched(s)
  BY <1>8, <1>a DEF NarrationSwitched
<1> QED
  BY <1>1, <1>2, <1>3, <1>4, <1>5, <1>6, <1>7, <1>8 DEF TaskStep

Drains(o) == OpDrains(o, "stopping", "switching") \/ OpDrains(o, "connecting", "renewing")

LEMMA TasksMove ==
  ASSUME IInv, [Next]_vars
  PROVE  /\ task' \in [Slot -> TaskRecord]
         /\ \/ UNCHANGED task
            \/ \E s \in Slot : /\ \A t \in Slot : t # s => task'[t] = task[t]
                               /\ TaskEnds(s) \/ Advances(s)
            \/ \E o \in Op : Drains(o) /\ \A s \in Slot : task'[s].pc = "none"
<1>a. task \in [Slot -> TaskRecord]
  BY TypesSay
<1>b. NoTask \in TaskRecord /\ NoTask.pc = "none"
  BY DEF NoTask, TaskRecord, Callbacks
<1>1. ASSUME NEW o \in Op, OpStep(o)
      PROVE  \/ UNCHANGED task
             \/ /\ Drains(o) /\ task' \in [Slot -> TaskRecord]
                /\ \A s \in Slot : task'[s].pc = "none"
  <2>1. CASE Drains(o)
    BY <2>1, <1>b DEF Drains, OpDrains, CancelCallbackTasks
  <2> QED
    BY <1>1, <2>1 DEF OpStep, OpEnters, SceneSwitched, NarrationSwitched, Drains,
       OpCloses, OpClosed, OpAnnounces, OpStarts, OpCannotStart, OpReturns
<1>2. CASE HostCancels \/ HostUnwinds
  BY <1>2, <1>a DEF HostCancels, HostUnwinds
<1>3. CASE HostApplies
  <2> DEFINE s == Head(hostLock).by
  <2>1. \/ UNCHANGED task
        \/ s \in Slot /\ task[s].pc = "showing" /\ task' = [task EXCEPT ![s].pc = "submitting"]
    BY <1>3, <1>a, HostAppliesTask DEF Call
  <2> HIDE DEF s
  <2>2. UNCHANGED task \/ (s \in Slot /\ task' \in [Slot -> TaskRecord] /\ Advances(s)
                           /\ \A t \in Slot : t # s => task'[t] = task[t])
    BY <1>a, <2>1 DEF Advances, TaskRecord
  <2> QED
    BY <1>a, <2>2
<1>4. ASSUME NEW g \in Generation, NEW s \in Slot, CreateTask(g, s)
      PROVE  /\ task' \in [Slot -> TaskRecord] /\ Advances(s)
             /\ \A t \in Slot : t # s => task'[t] = task[t]
  BY <1>4, <1>a DEF CreateTask, Advances, TaskRecord
<1>5. ASSUME NEW o \in Op, NEW room, NEW expected, Send(o, room, expected)
      PROVE  UNCHANGED task
  BY <1>5 DEF Send
<1> QED
  BY <1>a, <1>1, <1>2, <1>3, <1>4, <1>5, TaskStepMoves DEF Next, LoopStep, sessionVars, vars

-----------------------------------------------------------------------------
(* The types of the rest, and all of them.                                 *)
LEMMA OpTypesKept ==
  ASSUME IInv, [Next]_vars
  PROVE  op' \in [Op -> OpRecord]
<1>a. op \in [Op -> OpRecord] /\ shown \in Snapshot
  BY TypesSay
<1>b. OpRecord = [pc : {"unsent"} \union Inside \union {"waiting", "done"},
                  room : Room \union {None}, expected : Nat \union {None},
                  old : Generation \union {None}]
  BY DEF OpRecord, Inside
<1>1. ASSUME NEW o \in Op, NEW room \in Room \union {None},
             NEW expected \in {None, shown.generation}, Send(o, room, expected)
      PROVE  op' \in [Op -> OpRecord]
  <2>1. expected \in Nat \union {None}
    BY <1>a, <1>1 DEF Snapshot
  <2>2. [pc |-> "waiting", room |-> room, expected |-> expected, old |-> None] \in OpRecord
    BY <2>1 DEF OpRecord
  <2> QED
    BY <1>a, <1>1, <2>2 DEF Send
<1>2. ASSUME NEW o \in Op, OpStep(o)
      PROVE  op' \in [Op -> OpRecord]
  BY <1>b, <1>2, OpMovesOnly
<1>3. CASE UNCHANGED op
  BY <1>a, <1>3
<1>4. ASSUME NEW s \in Slot, TaskStep(s)
      PROVE  UNCHANGED op
  BY <1>4 DEF TaskStep, Discards, HandleStatus, HandleEvent, TaskPublished,
     EventBecomesMessage, HandleMessage, Submits, NarrationSwitched
<1>5. ASSUME NEW g \in Generation, NEW s \in Slot, CreateTask(g, s)
      PROVE  UNCHANGED op
  BY <1>5 DEF CreateTask
<1>6. CASE HostCancels \/ HostUnwinds \/ HostApplies
  BY <1>6, <1>3 DEF HostCancels, HostUnwinds, HostApplies
<1>7. UNCHANGED sessionVars \/ UNCHANGED vars => UNCHANGED op
  BY DEF sessionVars, vars
<1> QED
  BY <1>1, <1>2, <1>3, <1>4, <1>5, <1>6, <1>7 DEF Next, LoopStep

(* Only a command moves the gateway, the replies and the scene.            *)
LEMMA OnlyCommandsOwn ==
  ASSUME IInv, [Next]_vars
  PROVE  UNCHANGED <<gateway, followerVars>> \/ \E o \in Op : OpStep(o)
<1>1. ASSUME NEW s \in Slot, TaskStep(s)
      PROVE  UNCHANGED <<gateway, followerVars>>
  BY <1>1 DEF TaskStep, Discards, HandleStatus, HandleEvent, TaskPublished,
     EventBecomesMessage, HandleMessage, Submits, NarrationSwitched
<1>2. ASSUME NEW g \in Generation, NEW s \in Slot, CreateTask(g, s)
      PROVE  UNCHANGED <<gateway, followerVars>>
  BY <1>2 DEF CreateTask
<1>3. CASE HostCancels \/ HostUnwinds \/ HostApplies
  BY <1>3 DEF HostCancels, HostUnwinds, HostApplies
<1>4. ASSUME NEW o \in Op, NEW room, NEW expected, Send(o, room, expected)
      PROVE  UNCHANGED <<gateway, followerVars>>
  BY <1>4 DEF Send
<1> QED
  BY <1>1, <1>2, <1>3, <1>4 DEF Next, LoopStep, sessionVars, vars

LEMMA OwnerTypesKept ==
  ASSUME IInv, [Next]_vars
  PROVE  /\ gateway' \in Generation \union {None}
         /\ replies' \in 0..MaxGeneration /\ scene' \in 0..MaxGeneration
<1> DEFINE Typed == /\ gateway' \in Generation \union {None}
                    /\ replies' \in 0..MaxGeneration /\ scene' \in 0..MaxGeneration
<1>a. /\ gateway \in Generation \union {None} /\ replies \in 0..MaxGeneration
      /\ scene \in 0..MaxGeneration /\ op \in [Op -> OpRecord]
      /\ generation \in 0..MaxGeneration /\ MaxGeneration \in Nat
  BY TypesSay
<1>b. generation' \in 0..MaxGeneration
  BY CountingKept
<1>1. CASE UNCHANGED <<gateway, followerVars>>
  BY <1>a, <1>1 DEF followerVars
<1>2. ASSUME NEW o \in Op, OpStep(o)
      PROVE  Typed
  <2>1. CASE SceneSwitched(o)
    BY <1>a, <1>b, <2>1 DEF SceneSwitched, Transition
  <2>2. CASE OpCloses(o)
    BY <1>a, <2>2 DEF OpCloses
  <2>3. ASSUME NEW failed \in BOOLEAN, OpClosed(o, failed)
        PROVE  Typed
    BY <1>a, <2>3 DEF OpClosed, followerVars, OpRecord
  <2>4. CASE OpAnnounces(o)
    BY <1>a, <2>4 DEF OpAnnounces
  <2>5. CASE OpStarts(o)
    <3>1. generation \in Generation
      BY <2>5, MovingHasGeneration DEF OpStarts, OpAt, Moving, Inside
    <3> QED BY <1>a, <2>5, <3>1 DEF OpStarts, followerVars
  <2>6. CASE OpCannotStart(o)
    BY <1>a, <2>6 DEF OpCannotStart, followerVars
  <2> QED
    BY <1>1, <1>2, <2>1, <2>2, <2>3, <2>4, <2>5, <2>6
       DEF OpStep, OpEnters, NarrationSwitched, OpDrains, OpReturns
<1> QED
  BY <1>1, <1>2, OnlyCommandsOwn

LEMMA HostTypesKept ==
  ASSUME IInv, [Next]_vars
  PROVE  /\ hostWait' \in BOOLEAN /\ hostActive' \in BOOLEAN
         /\ hostIdentity' \in Generation \union {None} /\ host' \in {"none", "armed"}
<1> DEFINE Typed == /\ hostWait' \in BOOLEAN /\ hostActive' \in BOOLEAN
                    /\ hostIdentity' \in Generation \union {None} /\ host' \in {"none", "armed"}
<1>a. /\ hostWait \in BOOLEAN /\ hostActive \in BOOLEAN
      /\ hostIdentity \in Generation \union {None} /\ host \in {"none", "armed"}
  BY TypesSay
<1>1. CASE UNCHANGED timerVars
  BY <1>a, <1>1 DEF timerVars
<1>2. CASE HostCancels
  BY <1>a, <1>2 DEF HostCancels
<1>3. CASE HostUnwinds
  BY <1>a, <1>3 DEF HostUnwinds
<1>4. CASE HostApplies
  <2> DEFINE c == Head(hostLock)
  <2>1. /\ 1 \in DOMAIN hostLock /\ c = hostLock[1] /\ Calling(c, publication, task)
        /\ c.by \in Publisher \union {None}
    BY <1>4, HostAppliesTask
  <2>2. c.call = "publish" => c.snapshot.generation \in Generation
    BY <2>1 DEF IInv, TypesToo
  <2>3. IsLive(c) => c.snapshot.generation \in Generation
    BY <2>1, <2>2 DEF Calling, IsLive, Publisher
  <2>4. hostIdentity' \in Generation \union {None}
    BY <1>4, <1>a, <2>3 DEF HostApplies
  <2>5. hostActive' \in BOOLEAN /\ host' \in {"none", "armed"} /\ UNCHANGED hostWait
    BY <1>4, <1>a DEF HostApplies, IsLive
  <2> QED BY <1>a, <2>4, <2>5
<1>5. ASSUME NEW o \in Op, OpStep(o)
      PROVE  Typed
  <2>1. ASSUME CancelCallbackTasks
        PROVE  Typed
    BY <1>a, <2>1 DEF CancelCallbackTasks
  <2> QED
    BY <1>5, <1>1, <2>1 DEF OpStep, OpEnters, SceneSwitched, NarrationSwitched, OpDrains,
       OpCloses, OpClosed, OpAnnounces, OpStarts, OpCannotStart, OpReturns
<1>6. ASSUME NEW s \in Slot, TaskStep(s)
      PROVE  UNCHANGED timerVars
  BY <1>6 DEF TaskStep, Discards, HandleStatus, HandleEvent, TaskPublished,
     EventBecomesMessage, HandleMessage, Submits, NarrationSwitched
<1>7. ASSUME NEW g \in Generation, NEW s \in Slot, CreateTask(g, s)
      PROVE  UNCHANGED timerVars
  BY <1>7 DEF CreateTask
<1>8. ASSUME NEW o \in Op, NEW room, NEW expected, Send(o, room, expected)
      PROVE  UNCHANGED timerVars
  BY <1>8 DEF Send
<1> QED
  BY <1>1, <1>2, <1>3, <1>4, <1>5, <1>6, <1>7, <1>8 DEF Next, LoopStep, sessionVars, vars

LEMMA TypesKept ==
  ASSUME IInv, [Next]_vars
  PROVE  TypeOK' /\ TypesToo'
<1>1. LockTypes' /\ PublicationTypes' /\ SnapshotTypes' /\ ServiceTypeOK'
  BY LockKept, PublicationTypesKept, SnapshotTypesKept, ServiceTypesKept
<1>2. op' \in [Op -> OpRecord]
  BY OpTypesKept
<1>3. task' \in [Slot -> TaskRecord]
  BY TasksMove
<1>4. \A s \in Slot : task'[s].pc # "none" => task'[s].gen \in Generation
  BY TasksMove DEF IInv, TypesToo, TaskEnds, Advances, Passing
<1>5. /\ gateway' \in Generation \union {None}
      /\ replies' \in 0..MaxGeneration /\ scene' \in 0..MaxGeneration
  BY OwnerTypesKept
<1>6. /\ hostWait' \in BOOLEAN /\ hostActive' \in BOOLEAN
      /\ hostIdentity' \in Generation \union {None} /\ host' \in {"none", "armed"}
  BY HostTypesKept
<1>7. Snap' \in Snapshot
  BY <1>1, ServiceAssumption DEF Snap, Snapshot, SnapshotTypes
<1>8. \A i \in DOMAIN hostLock' : hostLock'[i].by \in Publisher \union {None}
  <2>1. hostLock' \in Seq(Call)
    BY <1>1 DEF PublicationTypes
  <2>2. \A i \in DOMAIN hostLock' : hostLock'[i] \in Call
    BY <2>1
  <2>3. \A c \in Call : c.by \in Publisher \union {None}
    BY DEF Call
  <2> QED BY <2>2, <2>3
<1>9. task' \in [Slot -> [pc : {"none", "new", "publishing", "sinking", "again", "showing",
                               "submitting"},
                          gen : Nat, kind : Callbacks]]
  <2>1. Generation \union {0} \subseteq Nat
    BY NamesApart
  <2>2. \A r \in TaskRecord : r \in [pc : {"none", "new", "publishing", "sinking", "again",
                                       "showing", "submitting"},
                                  gen : Nat, kind : Callbacks]
    BY <2>1 DEF TaskRecord
  <2> QED BY <1>3, <2>2
<1>10. TypesToo'
  BY <1>1, <1>3, <1>4 DEF TypesToo, TaskRecord, PublicationTypes, SnapshotTypes
<1> QED
  BY <1>1, <1>2, <1>5, <1>6, <1>7, <1>8, <1>9, <1>10
     DEF TypeOK, OpRecord, PublicationRecord, PublicationTypes, LockTypes, Snap

-----------------------------------------------------------------------------
(* A command acts while it holds the lock, and alone.                      *)
LEMMA ActorHolds ==
  ASSUME IInv, NEW o \in Op, OpStep(o)
  PROVE  /\ Holds(o)
         /\ \A q \in Op : q # o => op[q].pc \notin Inside /\ op'[q] = op[q]
         /\ \A s \in Slot : ~Holds(s)
<1>1. op[o].pc \in Inside \/ Holds(o)
  <2>1. CASE NarrationSwitched(o)
    BY <2>1 DEF NarrationSwitched, IInv, Hosting, Publications, Inside
  <2> QED
    BY <2>1 DEF OpStep, OpEnters, SceneSwitched, OpDrains, OpCloses, OpClosed, OpAnnounces,
       OpStarts, OpCannotStart, OpReturns, OpAt, Inside
<1>2. Holds(o)
  BY <1>1, OneInside
<1>3. \A q \in Op : op[q].pc \in Inside => q = o
  BY <1>2, OneInside DEF Holds
<1> QED
  BY <1>2, <1>3, OpMovesOnly, NamesApart DEF Holds

(* Without a command, the snapshot moves under the lock only.              *)
LEMMA SnapshotMoves ==
  ASSUME IInv, [Next]_vars
  PROVE  \/ UNCHANGED snapshotVars
         \/ \E o \in Op : OpStep(o)
         \/ \E s \in Slot : /\ (HandleStatus(s) \/ HandleEvent(s)) /\ Holds(s) /\ UNCHANGED op
                            /\ \A o \in Op : op[o].pc \notin Inside
<1>1. ASSUME NEW s \in Slot, TaskStep(s)
      PROVE  \/ UNCHANGED snapshotVars
             \/ /\ (HandleStatus(s) \/ HandleEvent(s)) /\ Holds(s) /\ UNCHANGED op
                /\ \A o \in Op : op[o].pc \notin Inside
  <2>1. CASE HandleStatus(s) \/ HandleEvent(s)
    BY <2>1, OneInside DEF HandleStatus, HandleEvent
  <2> QED
    BY <1>1, <2>1 DEF TaskStep, Discards, TaskPublished,
       EventBecomesMessage, HandleMessage, Submits, NarrationSwitched
<1>2. ASSUME NEW g \in Generation, NEW s \in Slot, CreateTask(g, s)
      PROVE  UNCHANGED snapshotVars
  BY <1>2 DEF CreateTask
<1>3. CASE HostCancels \/ HostUnwinds \/ HostApplies
  BY <1>3 DEF HostCancels, HostUnwinds, HostApplies
<1>4. ASSUME NEW o \in Op, NEW room, NEW expected, Send(o, room, expected)
      PROVE  UNCHANGED snapshotVars
  BY <1>4 DEF Send
<1> QED
  BY <1>1, <1>2, <1>3, <1>4 DEF Next, LoopStep, sessionVars, vars

LEMMA OwningKept ==
  ASSUME IInv, [Next]_vars
  PROVE  Owning'
<1>a. /\ op \in [Op -> OpRecord] /\ Owning /\ generation \in Nat
      /\ \A o \in Op : op[o].room \in Room \union {None}
  <2>1. op \in [Op -> OpRecord]
    BY TypesSay
  <2> QED BY <2>1, TypesSay DEF IInv, OpRecord
<1>1. ASSUME NEW o \in Op, OpStep(o)
      PROVE  Owning'
  <2>a. \A q \in Op : q # o => op'[q].pc \notin Inside
    BY <1>1, ActorHolds
  <2>b. ASSUME gateway' # None => replies' = generation', Owns(o)'
        PROVE  Owning'
    BY <2>a, <2>b DEF Owning, Owns, Moving, Inside, Detached
  <2>c. /\ gateway # None => replies = generation
        /\ Owns(o)
    BY <1>a DEF Owning
  <2>d. ASSUME NEW pc, OpGoes(o, pc)
        PROVE  op'[o].pc = pc /\ op'[o].room = op[o].room
    BY <1>a, <2>d DEF OpGoes, OpRecord
  <2>e. OpEnds(o) => op'[o].pc = "done"
    BY <1>a DEF OpEnds, NoOp
  <2>1. CASE OpEnters(o)
    <3>1. UNCHANGED <<gateway, followerVars, snapshotVars>>
      BY <2>1 DEF OpEnters
    <3>2. op'[o].pc \in {"done", "scene"}
      BY <1>a, <2>e, <2>1 DEF OpEnters, OpRecord
    <3> QED BY <2>b, <2>c, <3>1, <3>2
            DEF Owns, Moving, Inside, Detached, followerVars, snapshotVars
  <2>2. CASE SceneSwitched(o)
    <3>1. /\ gateway' = None /\ generation' = generation + 1
          /\ scene' = IF op[o].room = None /\ desired = None THEN scene ELSE generation + 1
      BY <2>2 DEF SceneSwitched, Transition
    <3>2. \/ op'[o].pc = "stopping" /\ op'[o].room = op[o].room
          \/ op'[o].pc = "connecting" /\ op'[o].room = op[o].room /\ op[o].room # None
             /\ state' = "connecting"
      <4>1. ASSUME op' = [op EXCEPT ![o].pc = "stopping", ![o].old = gateway]
            PROVE  op'[o].pc = "stopping" /\ op'[o].room = op[o].room
        <5>1. op'[o] = [op[o] EXCEPT !.pc = "stopping", !.old = gateway]
          BY <1>a, <4>1
        <5> QED BY <1>a, <5>1 DEF OpRecord
      <4>2. ASSUME op' = [op EXCEPT ![o].pc = "connecting"]
            PROVE  op'[o].pc = "connecting" /\ op'[o].room = op[o].room
        BY <1>a, <4>2 DEF OpRecord
      <4>3. CASE op[o].room # None /\ gateway = None
        <5>1. op' = [op EXCEPT ![o].pc = "connecting"] /\ state' = "connecting"
          BY <2>2, <4>3 DEF SceneSwitched, Transition
        <5> QED BY <4>2, <4>3, <5>1
      <4>4. CASE ~(op[o].room # None /\ gateway = None)
        <5>1. op' = [op EXCEPT ![o].pc = "stopping", ![o].old = gateway]
          BY <2>2, <4>4 DEF SceneSwitched
        <5> QED BY <4>1, <5>1
      <4> QED BY <4>3, <4>4
    <3>3. Owns(o)'
      BY <1>a, <3>1, <3>2 DEF Owns, Moving, Inside, Detached
    <3> QED BY <2>b, <3>1, <3>3
  <2>3. CASE Drains(o)
    <3>1. UNCHANGED <<gateway, followerVars, snapshotVars>>
      BY <2>3 DEF Drains, OpDrains
    <3>2. /\ op'[o].room = op[o].room
          /\ \/ op[o].pc = "stopping" /\ op'[o].pc = "switching"
             \/ op[o].pc = "connecting" /\ op'[o].pc = "renewing"
      BY <2>3, <2>d DEF Drains, OpDrains, OpAt
    <3> QED BY <2>b, <2>c, <3>1, <3>2
            DEF Owns, Moving, Inside, Detached, followerVars, snapshotVars
  <2>4. CASE OpCloses(o)
    <3>1. op'[o].pc = "closing" /\ op'[o].room = op[o].room /\ op[o].pc = "switching"
      BY <2>4, <2>d DEF OpCloses, OpAt
    <3>2. replies' = generation /\ UNCHANGED <<gateway, scene, snapshotVars>>
      BY <2>4 DEF OpCloses
    <3> QED BY <2>b, <2>c, <3>1, <3>2 DEF Owns, Moving, Inside, Detached, snapshotVars
  <2>5. ASSUME NEW failed \in BOOLEAN, OpClosed(o, failed)
        PROVE  Owning'
    <3>1. /\ op[o].pc = "closing" /\ op'[o].room = op[o].room /\ generation' = generation
          /\ UNCHANGED followerVars
          /\ \/ op'[o].pc = "stopped" /\ op[o].room = None /\ state' = "stopped"
             \/ op'[o].pc = "failing" /\ op[o].room # None
             \/ /\ op'[o].pc = "connecting" /\ op[o].room # None /\ state' = "connecting"
                /\ gateway' = None
      BY <2>5, <2>d DEF OpClosed, OpAt, Transition
    <3> QED BY <1>a, <2>b, <2>c, <3>1 DEF Owns, Moving, Inside, Detached, followerVars
  <2>6. CASE OpAnnounces(o)
    <3>1. op'[o].pc = "announcing" /\ op'[o].room = op[o].room /\ op[o].pc = "renewing"
      BY <2>6, <2>d DEF OpAnnounces, OpAt
    <3>2. replies' = generation /\ UNCHANGED <<gateway, scene, snapshotVars>>
      BY <2>6 DEF OpAnnounces
    <3> QED BY <2>b, <2>c, <3>1, <3>2 DEF Owns, Moving, Inside, Detached, snapshotVars
  <2>7. CASE OpStarts(o)
    <3>1. op'[o].pc = "starting" /\ op'[o].room = op[o].room /\ op[o].pc = "announcing"
      BY <2>7, <2>d DEF OpStarts, OpAt
    <3>2. UNCHANGED <<followerVars, snapshotVars>>
      BY <2>7 DEF OpStarts
    <3> QED BY <2>b, <2>c, <3>1, <3>2
            DEF Owns, Moving, Inside, Detached, snapshotVars, followerVars
  <2>8. CASE OpCannotStart(o)
    <3>1. op'[o].pc = "failing" /\ op'[o].room = op[o].room /\ op[o].pc = "announcing"
      BY <2>8, <2>d DEF OpCannotStart, OpAt
    <3>2. UNCHANGED followerVars /\ gateway' = None /\ generation' = generation
      BY <2>8 DEF OpCannotStart, Transition
    <3> QED BY <2>b, <2>c, <3>1, <3>2 DEF Owns, Moving, Inside, Detached, followerVars
  <2>9. CASE OpReturns(o)
    <3>1. op'[o].pc = "done" /\ UNCHANGED <<gateway, followerVars, snapshotVars>>
      BY <2>9, <2>e DEF OpReturns
    <3> QED BY <2>b, <2>c, <3>1
            DEF Owns, Moving, Inside, Detached, followerVars, snapshotVars
  <2>10. CASE NarrationSwitched(o)
    BY <1>a, <2>10 DEF NarrationSwitched, Owning, Owns, followerVars, snapshotVars
  <2> QED
    BY <1>1, <2>1, <2>2, <2>3, <2>4, <2>5, <2>6, <2>7, <2>8, <2>9, <2>10 DEF OpStep, Drains
<1>2. ASSUME UNCHANGED <<gateway, followerVars, generation>>,
             UNCHANGED state \/ \A o \in Op : op'[o].pc \notin Inside,
             \A o \in Op : op'[o] = op[o] \/ op'[o].pc \notin Inside
      PROVE  Owning'
  BY <1>a, <1>2 DEF Owning, Owns, Moving, Inside, Detached, followerVars
<1>3. ASSUME ~ \E o \in Op : OpStep(o)
      PROVE  Owning'
  <2>1. UNCHANGED <<gateway, followerVars>> /\ UNCHANGED generation
    BY <1>3, OnlyCommandsOwn, GenerationMoves DEF OpStep
  <2>2. \A o \in Op : op'[o] = op[o] \/ op'[o].pc \notin Inside
    BY <1>3, OpsMove DEF Inside
  <2>3. UNCHANGED state \/ \A o \in Op : op'[o].pc \notin Inside
    BY <1>3, SnapshotMoves DEF snapshotVars
  <2> QED BY <1>2, <2>1, <2>2, <2>3
<1> QED
  BY <1>1, <1>3

-----------------------------------------------------------------------------
(* The calls that wait for the host.                                       *)
LEMMA Uncalled ==
  ASSUME IInv, NEW p \in Publisher, publication[p].stage # "asked",
         p \in Slot => task[p].pc # "showing"
  PROVE  \A i \in DOMAIN hostLock : hostLock[i].by # p
BY DEF IInv, Hosting, Calls, Calling, Publisher

(* A call waits while its caller does.                                     *)
LEMMA CallStays ==
  ASSUME NEW c, Calling(c, publication, task),
         c.by \in Publisher => publication'[c.by].stage = publication[c.by].stage,
         c.by \in Slot => task'[c.by].pc = task[c.by].pc \/ task[c.by].pc # "showing"
  PROVE  Calling(c, publication', task')
BY DEF Calling, Publisher

LEMMA CallJoins ==
  ASSUME IInv, NEW p \in Publisher \union {None},
         NEW call \in {"publish", "update", "activity"}, NEW snapshot \in Snapshot,
         HostCall(p, call, snapshot),
         p # None => \A i \in DOMAIN hostLock : hostLock[i].by # p,
         Calling([by |-> p, call |-> call, snapshot |-> snapshot], publication', task'),
         \A i \in DOMAIN hostLock : Calling(hostLock[i], publication', task')
  PROVE  Calls'
<1> DEFINE c == [by |-> p, call |-> call, snapshot |-> snapshot]
<1>1. c \in Call /\ c.by = p /\ hostLock' = Append(hostLock, c) /\ hostLock \in Seq(Call)
  BY TypesSay DEF Call, HostCall
<1>2. Calls
  BY DEF IInv, Hosting
<1>3. Calling(c, publication', task')
  OBVIOUS
<1> HIDE DEF c
<1>4. \A i \in DOMAIN hostLock' :
        \/ i \in DOMAIN hostLock /\ hostLock'[i] = hostLock[i]
        \/ i = Len(hostLock) + 1 /\ i \notin DOMAIN hostLock /\ hostLock'[i] = c
  BY <1>1, Joining
<1>5. \A i \in DOMAIN hostLock' : Calling(hostLock'[i], publication', task')
  BY <1>3, <1>4
<1>6. ASSUME NEW i \in DOMAIN hostLock', NEW j \in DOMAIN hostLock',
             hostLock'[i].by = hostLock'[j].by, hostLock'[i].by # None
      PROVE  i = j
  BY <1>1, <1>2, <1>4, <1>6 DEF Calls
<1> QED
  BY <1>5, <1>6 DEF Calls

LEMMA PublishCalls ==
  ASSUME IInv, NEW p \in Publisher, NEW snapshot \in Snapshot, Publish(p, snapshot),
         publication[p].stage = "idle",
         p \in Op => snapshot.state # "live",
         p \in Slot => task[p].pc # "showing",
         \A s \in Slot : s # p => task'[s] = task[s]
  PROVE  /\ Calls'
         /\ publication'[p].stage # "idle" /\ publication'[p].snapshot = snapshot
         /\ \A q \in Publisher : q # p => publication'[q] = publication[q]
<1>a. /\ publication \in [Publisher -> PublicationRecord] /\ p # None
      /\ Calls /\ \A i \in DOMAIN hostLock : hostLock[i].by # p
  BY TypesSay, NamesApart, Uncalled DEF IInv, Hosting
<1>1. /\ \A q \in Publisher : q # p => publication'[q] = publication[q]
      /\ publication'[p].snapshot = snapshot
      /\ \/ publication'[p].stage = "asked" /\ HostCall(p, "publish", snapshot)
         \/ publication'[p].stage = "narrating" /\ UNCHANGED hostLock
  BY <1>a DEF Publish
<1>2. ASSUME NEW i \in DOMAIN hostLock
      PROVE  Calling(hostLock[i], publication', task')
  <2>1. Calling(hostLock[i], publication, task) /\ hostLock[i].by # p
    BY <1>a DEF Calls
  <2> QED
    BY <1>1, <2>1, CallStays, NamesApart
<1>3. CASE publication'[p].stage = "asked" /\ HostCall(p, "publish", snapshot)
  <2>1. Calling([by |-> p, call |-> "publish", snapshot |-> snapshot], publication', task')
    BY <1>3, <1>a, NamesApart DEF Calling
  <2> QED
    BY <1>a, <1>1, <1>2, <1>3, <2>1, CallJoins
<1>4. CASE publication'[p].stage = "narrating" /\ UNCHANGED hostLock
  BY <1>1, <1>2, <1>4, <1>a DEF Calls
<1> QED
  BY <1>1, <1>3, <1>4

LEMMA NarrationCalls ==
  ASSUME IInv, NEW p \in Publisher, NarrationSwitched(p)
  PROVE  Calls' /\ Publications'
<1>a. /\ publication \in [Publisher -> PublicationRecord] /\ p # None /\ Publications
      /\ Calls /\ publication[p].stage = "narrating" /\ UNCHANGED <<task, op, generation>>
  BY TypesSay, NamesApart DEF IInv, Hosting, NarrationSwitched, snapshotVars
<1>b. \A i \in DOMAIN hostLock : hostLock[i].by # p
  BY <1>a, Uncalled DEF Publications
<1>1. /\ \A q \in Publisher : q # p => publication'[q] = publication[q]
      /\ publication'[p].stage = "asked" /\ publication'[p].snapshot = publication[p].snapshot
      /\ publication[p].snapshot \in Snapshot
      /\ HostCall(p, "publish", publication[p].snapshot)
  BY <1>a DEF NarrationSwitched, PublicationRecord
<1>2. ASSUME NEW i \in DOMAIN hostLock
      PROVE  Calling(hostLock[i], publication', task')
  <2>1. Calling(hostLock[i], publication, task) /\ hostLock[i].by # p
    BY <1>a, <1>b DEF Calls
  <2> QED
    BY <1>a, <1>1, <2>1, CallStays
<1>3. Calling([by |-> p, call |-> "publish", snapshot |-> publication[p].snapshot],
              publication', task')
  BY <1>1, <1>a, NamesApart DEF Calling, Publications
<1>4. Calls'
  BY <1>b, <1>1, <1>2, <1>3, CallJoins
<1>5. Publications'
  BY <1>a, <1>1, NamesApart DEF Publications
<1> QED
  BY <1>4, <1>5

(* An update says that the room is not live.                               *)
LEMMA UpdateCalls ==
  ASSUME IInv, HostCall(None, "update", Snap), state # "live", UNCHANGED <<publication, task>>
  PROVE  Calls'
<1>1. Snap \in Snapshot /\ Snap.state = state
  BY TypesSay, SnapIsTyped DEF SnapshotTypes
<1>2. \A i \in DOMAIN hostLock : Calling(hostLock[i], publication', task')
  BY CallStays DEF IInv, Hosting, Calls
<1>3. Calling([by |-> None, call |-> "update", snapshot |-> Snap], publication', task')
  BY <1>1, NamesApart DEF Calling
<1> QED
  BY <1>1, <1>2, <1>3, CallJoins

LEMMA HostAppliesCalls ==
  ASSUME IInv, HostApplies
  PROVE  Calls' /\ Publications'
<1> DEFINE c == Head(hostLock)
<1>a. /\ hostLock \in Seq(Call) /\ publication \in [Publisher -> PublicationRecord]
      /\ task \in [Slot -> TaskRecord] /\ Calls /\ Publications
  BY TypesSay DEF IInv, Hosting
<1>1. /\ hostLock # <<>> /\ 1 \in DOMAIN hostLock /\ c = hostLock[1]
      /\ Calling(c, publication, task) /\ c.by \in Publisher \union {None}
      /\ c.call = "activity" => /\ c.by \in Slot /\ task[c.by].pc = "showing"
                                /\ task' = [task EXCEPT ![c.by].pc = "submitting"]
      /\ c.call # "activity" => UNCHANGED task
      /\ hostLock' = Tail(hostLock) /\ UNCHANGED <<op, generation>>
      /\ IF c.call = "publish" THEN publication' = [publication EXCEPT ![c.by] = Quiescent]
                               ELSE UNCHANGED publication
  BY HostAppliesTask DEF HostApplies, snapshotVars
<1> HIDE DEF c
<1>2. \A i \in DOMAIN hostLock' : /\ i \in Nat /\ i > 0 /\ i + 1 \in DOMAIN hostLock
                                 /\ hostLock'[i] = hostLock[i + 1]
  BY <1>a, <1>1, Leading
<1>3. \A q \in Publisher : q # c.by => publication'[q] = publication[q]
  BY <1>a, <1>1
<1>4. \A s \in Slot : task'[s] = task[s] \/ (s = c.by /\ c.call = "activity")
  BY <1>a, <1>1
<1>5. \A q \in Publisher : publication'[q] = publication[q] \/ publication'[q].stage = "idle"
  BY <1>a, <1>1 DEF Quiescent
<1>6. ASSUME NEW i \in DOMAIN hostLock'
      PROVE  Calling(hostLock'[i], publication', task')
  <2> DEFINE d == hostLock'[i]
  <2>1. /\ d = hostLock[i + 1] /\ i + 1 \in DOMAIN hostLock /\ i + 1 # 1
    BY <1>2
  <2>2. Calling(d, publication, task) /\ (d.by # None => d.by # c.by)
    BY <1>a, <1>1, <2>1 DEF Calls
  <2>3. d.by \in Publisher => d.by # None
    BY NamesApart
  <2> HIDE DEF d
  <2>4. Calling(d, publication', task')
    BY <1>3, <1>4, <2>2, <2>3, NamesApart, CallStays
  <2> QED BY <2>4 DEF d
<1>7. \A i, j \in DOMAIN hostLock' :
        hostLock'[i].by = hostLock'[j].by /\ hostLock'[i].by # None => i = j
  <2> SUFFICES ASSUME NEW i \in DOMAIN hostLock', NEW j \in DOMAIN hostLock',
                      hostLock'[i].by = hostLock'[j].by, hostLock'[i].by # None
               PROVE  i = j
    OBVIOUS
  <2>1. i + 1 = j + 1
    BY <1>2, <1>a DEF Calls
  <2> QED BY <1>2, <2>1
<1>8. Publications'
  <2>1. \A o \in Op : publication'[o].stage # "idle" => publication'[o] = publication[o]
    BY <1>5, NamesApart
  <2>2. ASSUME NEW s \in Slot, publication'[s].stage # "idle"
        PROVE  task'[s].pc = "publishing"
    <3>1. publication'[s] = publication[s] /\ task[s].pc = "publishing"
      BY <1>5, <2>2, <1>a, NamesApart DEF Publications
    <3>2. task'[s] = task[s]
      BY <1>1, <1>4, <3>1
    <3> QED BY <3>1, <3>2
  <2> QED BY <1>1, <1>a, <2>1, <2>2 DEF Publications
<1> QED
  BY <1>6, <1>7, <1>8 DEF Calls

LEMMA DrainCalls ==
  ASSUME IInv, NEW o \in Op, Drains(o)
  PROVE  Calls' /\ Publications'
<1>a. /\ publication \in [Publisher -> PublicationRecord] /\ op \in [Op -> OpRecord]
      /\ hostLock \in Seq(Call) /\ Calls /\ Publications
  BY TypesSay DEF IInv, Hosting
<1>b. CancelCallbackTasks /\ publication[o].stage = "idle" /\ UNCHANGED generation
      /\ OpStep(o)
  BY DEF Drains, OpDrains, Published, snapshotVars, OpStep
<1>1. /\ \A i \in DOMAIN hostLock' : hostLock'[i].by \notin Slot
      /\ \A i \in DOMAIN hostLock' : \E j \in DOMAIN hostLock : hostLock'[i] = hostLock[j]
      /\ \A i, k \in DOMAIN hostLock' : i # k =>
           \E j, l \in DOMAIN hostLock :
             j # l /\ hostLock'[i] = hostLock[j] /\ hostLock'[k] = hostLock[l]
  BY <1>b, DrainTypes
<1>2. /\ \A q \in Op : publication'[q] = publication[q]
      /\ \A s \in Slot : publication'[s].stage = "idle"
  BY <1>a, <1>b, NamesApart DEF CancelCallbackTasks, Quiescent
<1>3. ASSUME NEW i \in DOMAIN hostLock'
      PROVE  Calling(hostLock'[i], publication', task')
  BY <1>1, <1>2, <1>a DEF Calls, Calling
<1>4. \A i, j \in DOMAIN hostLock' :
        hostLock'[i].by = hostLock'[j].by /\ hostLock'[i].by # None => i = j
  <2> SUFFICES ASSUME NEW i \in DOMAIN hostLock', NEW j \in DOMAIN hostLock',
                      hostLock'[i].by = hostLock'[j].by, hostLock'[i].by # None, i # j
               PROVE  FALSE
    OBVIOUS
  <2>1. PICK k, l \in DOMAIN hostLock :
          k # l /\ hostLock'[i] = hostLock[k] /\ hostLock'[j] = hostLock[l]
    BY <1>1
  <2> QED BY <1>a, <2>1 DEF Calls
<1>5. Publications'
  <2>1. \A q \in Op : publication'[q].stage # "idle" => op'[q] = op[q]
    BY <1>b, <1>2, ActorHolds
  <2> QED BY <1>a, <1>b, <1>2, <2>1 DEF Publications
<1> QED
  BY <1>3, <1>4, <1>5 DEF Calls

(* Steps that move no call and no publication.                             *)
LEMMA CallsUndisturbed ==
  ASSUME IInv, UNCHANGED <<publication, hostLock>>,
         \A s \in Slot : \/ task'[s].pc = task[s].pc
                         \/ task[s].pc \notin {"showing", "publishing"}
                         \/ task[s].pc = "publishing" /\ publication[s].stage = "idle"
  PROVE  /\ Calls'
         /\ \A s \in Slot : publication'[s].stage # "idle" => task'[s].pc = "publishing"
<1>a. Calls /\ Publications
  BY DEF IInv, Hosting
<1>1. ASSUME NEW i \in DOMAIN hostLock
      PROVE  Calling(hostLock[i], publication', task')
  <2>1. Calling(hostLock[i], publication, task)
    BY <1>a DEF Calls
  <2>2. hostLock[i].by \in Slot =>
          task'[hostLock[i].by].pc = task[hostLock[i].by].pc \/ task[hostLock[i].by].pc # "showing"
    OBVIOUS
  <2>3. publication' = publication
    OBVIOUS
  <2> QED BY <2>1, <2>2, <2>3, CallStays
<1> QED
  BY <1>a, <1>1 DEF Calls, Publications

LEMMA TaskKeepsCalls ==
  ASSUME IInv, NEW s \in Slot, TaskStep(s)
  PROVE  Calls' /\ Publications'
<1>a. /\ s \in Publisher /\ s \notin Op /\ task \in [Slot -> TaskRecord] /\ Publications
      /\ publication \in [Publisher -> PublicationRecord] /\ s # None
      /\ \A t \in Slot : t # s => task'[t] = task[t]
  BY TypesSay, NamesApart, TaskStepMoves DEF IInv, Hosting
<1>b. UNCHANGED <<op, generation>>
  <2>1. UNCHANGED op
    BY DEF TaskStep, Discards, HandleStatus, HandleEvent, TaskPublished,
       EventBecomesMessage, HandleMessage, Submits, NarrationSwitched
  <2>2. UNCHANGED generation
    BY DEF TaskStep, Discards, HandleStatus, HandleEvent, TaskPublished,
       EventBecomesMessage, HandleMessage, Submits, NarrationSwitched, Transition, snapshotVars
  <2> QED BY <2>1, <2>2
<1>c. ASSUME UNCHANGED <<publication, hostLock>>, task[s].pc # "showing",
             task[s].pc = "publishing" => publication[s].stage = "idle"
      PROVE  Calls' /\ Publications'
  <2>1. \A t \in Slot : \/ task'[t].pc = task[t].pc
                        \/ task[t].pc \notin {"showing", "publishing"}
                        \/ task[t].pc = "publishing" /\ publication[t].stage = "idle"
    BY <1>a, <1>c
  <2>2. /\ Calls'
        /\ \A t \in Slot : publication'[t].stage # "idle" => task'[t].pc = "publishing"
    BY <1>c, <2>1, CallsUndisturbed
  <2> QED BY <1>a, <1>b, <1>c, <2>2 DEF Publications
<1>d. ASSUME Publish(s, Snap'), task[s].pc = "new", Goes(s, "publishing")
      PROVE  Calls' /\ Publications'
  <2>1. Snap' \in Snapshot
    <3>1. [Next]_vars
      BY DEF Next, LoopStep
    <3>2. SnapshotTypes'
      BY <3>1, SnapshotTypesKept
    <3> QED BY <3>2, ServiceAssumption DEF Snap, Snapshot, SnapshotTypes
  <2>2. publication[s].stage = "idle"
    BY <1>a, <1>d DEF Publications
  <2>3. /\ Calls'
        /\ \A q \in Publisher : q # s => publication'[q] = publication[q]
    BY <1>a, <1>d, <2>1, <2>2, PublishCalls
  <2>4. task'[s].pc = "publishing"
    BY <1>a, <1>d DEF Goes, TaskRecord
  <2> QED BY <1>a, <1>b, <2>3, <2>4, NamesApart DEF Publications
<1>1. CASE Discards(s)
  BY <1>1, <1>c DEF Discards, publishVars
<1>2. CASE HandleStatus(s)
  BY <1>2, <1>d DEF HandleStatus
<1>3. CASE HandleEvent(s)
  BY <1>3, <1>c, <1>d DEF HandleEvent, publishVars
<1>4. CASE TaskPublished(s)
  BY <1>4, <1>c DEF TaskPublished, Published, publishVars
<1>5. CASE EventBecomesMessage(s)
  BY <1>5, <1>c DEF EventBecomesMessage, publishVars
<1>6. CASE HandleMessage(s)
  <2>1. /\ task[s].pc = "again" /\ Goes(s, "showing") /\ UNCHANGED publication
        /\ HostCall(s, "activity", Stopped)
    BY <1>6 DEF HandleMessage, publishVars
  <2>2. publication[s].stage = "idle"
    BY <1>a, <2>1 DEF Publications
  <2>3. \A i \in DOMAIN hostLock : hostLock[i].by # s
    BY <1>a, <2>1, <2>2, Uncalled
  <2>4. task'[s].pc = "showing"
    BY <1>a, <2>1 DEF Goes, TaskRecord
  <2>5. Calling([by |-> s, call |-> "activity", snapshot |-> Stopped], publication', task')
    BY <1>a, <2>4 DEF Calling
  <2>6. \A i \in DOMAIN hostLock : Calling(hostLock[i], publication', task')
    <3> SUFFICES ASSUME NEW i \in DOMAIN hostLock
                 PROVE  Calling(hostLock[i], publication', task')
      OBVIOUS
    <3>1. Calling(hostLock[i], publication, task) /\ hostLock[i].by # s
      BY <2>3 DEF IInv, Hosting, Calls
    <3> QED BY <1>a, <2>1, <3>1, CallStays
  <2>7. Stopped \in Snapshot
    BY DEF Stopped, Snapshot, States
  <2>8. Calls'
    BY <1>a, <2>1, <2>3, <2>5, <2>6, <2>7, CallJoins
  <2>9. \A t \in Slot : publication[t].stage # "idle" => t # s
    BY <2>2
  <2> QED BY <1>a, <1>b, <2>1, <2>8, <2>9 DEF Publications
<1>7. CASE Submits(s)
  BY <1>7, <1>c DEF Submits, publishVars
<1>8. CASE NarrationSwitched(s)
  BY <1>8, <1>a, NarrationCalls
<1> QED
  BY <1>1, <1>2, <1>3, <1>4, <1>5, <1>6, <1>7, <1>8 DEF TaskStep

LEMMA OpKeepsCalls ==
  ASSUME IInv, NEW o \in Op, OpStep(o)
  PROVE  Calls' /\ Publications'
<1>a. /\ o \in Publisher /\ o \notin Slot /\ op \in [Op -> OpRecord] /\ Publications
      /\ publication \in [Publisher -> PublicationRecord] /\ o # None
      /\ \A q \in Op : q # o => op[q].pc \notin Inside /\ op'[q] = op[q]
      /\ Owns(o)
  BY TypesSay, NamesApart, ActorHolds DEF IInv, Hosting, Owning
<1>b. \A q \in Op : publication[q].stage # "idle" => q = o
  BY <1>a DEF Publications, Inside
<1>c. Snap' \in Snapshot /\ Snap'.generation = generation' /\ Snap'.state = state'
  <2>1. [Next]_vars
    BY DEF Next, LoopStep
  <2>2. SnapshotTypes'
    BY <2>1, SnapshotTypesKept
  <2> QED BY <2>2, ServiceAssumption DEF Snap, Snapshot, SnapshotTypes
<1>d. ASSUME UNCHANGED <<publication, hostLock, task>>, publication[o].stage = "idle"
      PROVE  Calls' /\ Publications'
  <2>1. Calls' /\ \A s \in Slot : publication'[s].stage # "idle" => task'[s].pc = "publishing"
    BY <1>d, CallsUndisturbed
  <2> QED BY <1>b, <1>d, <2>1 DEF Publications
<1>e. ASSUME NEW snapshot \in Snapshot, Publish(o, snapshot), publication[o].stage = "idle",
             UNCHANGED task, snapshot.state # "live", snapshot.generation = generation',
             op'[o].pc \in {"stopping", "announcing", "failing", "stopped"}
      PROVE  Calls' /\ Publications'
  <2>1. /\ Calls' /\ publication'[o].snapshot = snapshot
        /\ \A q \in Publisher : q # o => publication'[q] = publication[q]
    BY <1>a, <1>e, PublishCalls
  <2> QED BY <1>a, <1>b, <1>e, <2>1, NamesApart DEF Publications
<1>f. ASSUME HostCall(None, "update", Snap), state # "live", UNCHANGED <<publication, task>>,
             publication[o].stage = "idle"
      PROVE  Calls' /\ Publications'
  <2>1. Calls'
    BY <1>f, UpdateCalls
  <2> QED BY <1>a, <1>b, <1>f, <2>1 DEF Publications
<1>g. ASSUME NEW pc, OpGoes(o, pc)
      PROVE  op'[o].pc = pc
  BY <1>a, <1>g DEF OpGoes, OpRecord
<1>h. op[o].pc \notin {"stopping", "announcing", "failing", "stopped"} =>
        publication[o].stage = "idle"
  BY <1>a DEF Publications
<1>1. CASE OpEnters(o)
  <2>1. UNCHANGED <<publication, task>> /\ publication[o].stage = "idle"
    BY <1>1, <1>h DEF OpEnters, OpAt, publishVars
  <2>2. UNCHANGED hostLock \/ (HostCall(None, "update", Snap) /\ state = "stopped")
    BY <1>1 DEF OpEnters, Satisfied
  <2> QED BY <1>d, <1>f, <2>1, <2>2
<1>2. CASE SceneSwitched(o)
  <2>1. UNCHANGED task /\ publication[o].stage = "idle"
    BY <1>2, <1>h DEF SceneSwitched, OpAt
  <2>2. CASE op[o].room # None /\ gateway = None
    BY <1>2, <1>d, <2>1, <2>2 DEF SceneSwitched, publishVars
  <2>3. CASE ~(op[o].room # None /\ gateway = None)
    <3>1. Publish(o, Snap') /\ state' = "stopping"
          /\ op' = [op EXCEPT ![o].pc = "stopping", ![o].old = gateway]
      BY <1>2, <2>3 DEF SceneSwitched, Transition
    <3>2. op'[o] = [op[o] EXCEPT !.pc = "stopping", !.old = gateway]
      BY <1>a, <3>1
    <3>3. op'[o].pc = "stopping"
      BY <1>a, <3>2 DEF OpRecord
    <3> QED BY <1>c, <1>e, <2>1, <3>1, <3>3
  <2> QED BY <2>2, <2>3
<1>3. CASE Drains(o)
  BY <1>3, DrainCalls
<1>4. CASE OpCloses(o)
  BY <1>4, <1>d, <1>h DEF OpCloses, OpAt, publishVars
<1>5. ASSUME NEW failed \in BOOLEAN, OpClosed(o, failed)
      PROVE  Calls' /\ Publications'
  <2>1. UNCHANGED task /\ publication[o].stage = "idle"
    BY <1>5, <1>h DEF OpClosed, OpAt
  <2>2. \/ UNCHANGED publishVars /\ UNCHANGED hostLock
        \/ /\ Publish(o, Snap') /\ state' \in {"stopped", "error"}
           /\ OpGoes(o, "stopped") \/ OpGoes(o, "failing")
    BY <1>5 DEF OpClosed, Transition
  <2> QED BY <1>c, <1>d, <1>e, <1>g, <2>1, <2>2 DEF publishVars
<1>6. CASE OpAnnounces(o)
  <2>1. /\ UNCHANGED <<task, snapshotVars>> /\ publication[o].stage = "idle"
        /\ state = "connecting" /\ Publish(o, Snap) /\ op'[o].pc = "announcing"
    BY <1>6, <1>a, <1>g, <1>h DEF OpAnnounces, OpAt, Owns
  <2>2. Snap' = Snap
    BY <2>1 DEF snapshotVars, Snap
  <2> QED BY <1>c, <1>e, <2>1, <2>2 DEF snapshotVars
<1>7. CASE OpStarts(o)
  BY <1>7, <1>d DEF OpStarts, Published, publishVars
<1>8. CASE OpCannotStart(o)
  <2>1. /\ UNCHANGED task /\ publication[o].stage = "idle" /\ state' = "error"
        /\ Publish(o, Snap') /\ op'[o].pc = "failing"
    BY <1>8, <1>g DEF OpCannotStart, Published, Transition
  <2> QED BY <1>c, <1>e, <2>1
<1>9. CASE OpReturns(o)
  <2>1. UNCHANGED <<publication, task>> /\ publication[o].stage = "idle"
    BY <1>9 DEF OpReturns, Published, publishVars
  <2>2. UNCHANGED hostLock \/ (HostCall(None, "update", Snap) /\ state = "stopped")
    BY <1>9, <1>a, NamesApart DEF OpReturns, Owns
  <2> QED BY <1>d, <1>f, <2>1, <2>2
<1>10. CASE NarrationSwitched(o)
  BY <1>10, <1>a, NarrationCalls
<1> QED
  BY <1>1, <1>2, <1>3, <1>4, <1>5, <1>6, <1>7, <1>8, <1>9, <1>10 DEF OpStep, Drains

LEMMA HostingKept ==
  ASSUME IInv, [Next]_vars
  PROVE  Hosting'
<1>a. Publications /\ task \in [Slot -> TaskRecord] /\ op \in [Op -> OpRecord]
  BY TypesSay DEF IInv, Hosting
<1>b. ASSUME UNCHANGED <<publication, hostLock, task, generation>>,
             \A o \in Op : op'[o] = op[o] \/ op[o].pc = "unsent"
      PROVE  Calls' /\ Publications'
  <2>1. Calls' /\ \A s \in Slot : publication'[s].stage # "idle" => task'[s].pc = "publishing"
    BY <1>b, CallsUndisturbed
  <2> QED BY <1>a, <1>b, <2>1 DEF Publications
<1>1. CASE HostCancels \/ HostUnwinds
  BY <1>1, <1>b DEF HostCancels, HostUnwinds, publishVars, snapshotVars, Hosting
<1>2. CASE HostApplies
  BY <1>2, HostAppliesCalls DEF Hosting
<1>3. ASSUME NEW g \in Generation, NEW s \in Slot, CreateTask(g, s)
      PROVE  Calls' /\ Publications'
  <2>1. /\ UNCHANGED <<publication, hostLock, op, generation>> /\ task[s].pc = "none"
        /\ \A t \in Slot : t # s => task'[t] = task[t]
    BY <1>3, <1>a DEF CreateTask, publishVars, snapshotVars
  <2>2. Calls' /\ \A t \in Slot : publication'[t].stage # "idle" => task'[t].pc = "publishing"
    BY <2>1, CallsUndisturbed
  <2> QED BY <1>a, <2>1, <2>2 DEF Publications
<1>4. ASSUME NEW o \in Op, NEW room, NEW expected, Send(o, room, expected)
      PROVE  Calls' /\ Publications'
  BY <1>4, <1>a, <1>b DEF Send, publishVars, snapshotVars
<1>5. CASE UNCHANGED sessionVars \/ UNCHANGED vars
  BY <1>5, <1>b DEF sessionVars, vars, publishVars, snapshotVars, Hosting
<1>6. ASSUME NEW s \in Slot, TaskStep(s)
      PROVE  Calls' /\ Publications'
  BY <1>6, TaskKeepsCalls
<1>7. ASSUME NEW o \in Op, OpStep(o)
      PROVE  Calls' /\ Publications'
  BY <1>7, OpKeepsCalls
<1> QED
  BY <1>1, <1>2, <1>3, <1>4, <1>5, <1>6, <1>7 DEF Next, LoopStep, Hosting

-----------------------------------------------------------------------------
(* From the cancellation of the callback tasks to the start of the next    *)
(* gateway, no task gets past the lock.                                    *)
LEMMA NoTaskStep ==
  ASSUME IInv, NEW o \in Op, op[o].pc \in Drained, NEW s \in Slot
  PROVE  ~TaskStep(s)
<1>1. ~Holds(s) /\ task[s].pc \in {"none", "new"}
  BY OneInside DEF IInv, DrainedIsClean, Drained, Inside
<1>2. publication[s].stage = "idle"
  BY <1>1 DEF IInv, Hosting, Publications
<1> QED
  BY <1>1, <1>2 DEF TaskStep, Discards, HandleStatus, HandleEvent, TaskPublished,
     EventBecomesMessage, HandleMessage, Submits, NarrationSwitched

LEMMA DrainedKept ==
  ASSUME IInv, [Next]_vars
  PROVE  DrainedIsClean'
<1> SUFFICES ASSUME NEW o \in Op, op'[o].pc \in Drained
             PROVE  /\ \A s \in Slot : task'[s].pc \in {"none", "new"}
                    /\ \A i \in DOMAIN hostLock' : hostLock'[i].by \notin Slot
  BY DEF DrainedIsClean
<1> DEFINE Clean == /\ \A s \in Slot : task'[s].pc \in {"none", "new"}
                    /\ \A i \in DOMAIN hostLock' : hostLock'[i].by \notin Slot
<1>a. hostLock \in Seq(Call) /\ op \in [Op -> OpRecord] /\ task \in [Slot -> TaskRecord]
  BY TypesSay
<1>b. DrainedIsClean
  BY DEF IInv
<1>1. ASSUME op[o].pc \notin Drained
      PROVE  Clean
  <2>1. OpStep(o) /\ Edge(op[o].pc, op'[o].pc)
    BY <1>1, OpsMove DEF Drained
  <2>2. op[o].pc = "stopping" \/ op[o].pc = "connecting"
    BY <1>1, <2>1 DEF Edge, Drained
  <2>3. CancelCallbackTasks
    BY <1>1, <2>1, <2>2 DEF OpStep, OpEnters, SceneSwitched, NarrationSwitched, OpDrains,
       OpCloses, OpClosed, OpAnnounces, OpStarts, OpCannotStart, OpReturns, OpAt
  <2>4. \A i \in DOMAIN hostLock' : hostLock'[i].by \notin Slot
    BY <2>3, DrainTypes
  <2>5. \A s \in Slot : task'[s].pc = "none"
    BY <2>3 DEF CancelCallbackTasks, NoTask
  <2> QED BY <2>4, <2>5
<1>2. ASSUME op[o].pc \in Drained
      PROVE  Clean
  <2>a. /\ \A s \in Slot : task[s].pc \in {"none", "new"}
        /\ \A i \in DOMAIN hostLock : hostLock[i].by \notin Slot
    BY <1>b, <1>2 DEF DrainedIsClean
  <2>b. ASSUME UNCHANGED <<task, hostLock>>
        PROVE  Clean
    BY <2>a, <2>b
  <2>c. ASSUME NEW call, NEW snapshot, NEW p, p \notin Slot, UNCHANGED task,
               hostLock' = Append(hostLock, [by |-> p, call |-> call, snapshot |-> snapshot])
        PROVE  Clean
    BY <1>a, <2>a, <2>c
  <2>1. CASE HostApplies
    <3> DEFINE c == Head(hostLock)
    <3>1. /\ hostLock # <<>> /\ 1 \in DOMAIN hostLock /\ c = hostLock[1]
          /\ c.call = "activity" => c.by \in Slot
          /\ c.call # "activity" => UNCHANGED task
          /\ hostLock' = Tail(hostLock)
      BY <2>1, HostAppliesTask DEF HostApplies
    <3>2. UNCHANGED task
      BY <2>a, <3>1
    <3>3. \A i \in DOMAIN hostLock' : \E j \in DOMAIN hostLock : hostLock'[i] = hostLock[j]
      <4> HIDE DEF c
      <4> QED BY <1>a, <3>1, Leading
    <3> QED BY <2>a, <3>2, <3>3
  <2>2. CASE HostCancels \/ HostUnwinds
    BY <2>2, <2>b DEF HostCancels, HostUnwinds
  <2>3. ASSUME NEW q \in Op, OpStep(q)
        PROVE  Clean
    <3>1. q \notin Slot /\ None \notin Slot
      BY NamesApart
    <3>2. q = o
      BY <1>2, <2>3, ActorHolds DEF Drained, Inside
    <3>3. CASE Drains(q)
      BY <3>2, <3>3, <1>2 DEF Drains, OpDrains, OpAt, Drained
    <3>4. UNCHANGED task
      BY <3>3, <2>3, <3>2, <1>2 DEF OpStep, OpEnters, SceneSwitched, NarrationSwitched, Drains,
         OpCloses, OpClosed, OpAnnounces, OpStarts, OpCannotStart, OpReturns, OpDrains, OpAt,
         Drained
    <3>5. ASSUME NEW p \in {None, q}, NEW call, NEW snapshot, HostCall(p, call, snapshot)
          PROVE  Clean
      BY <3>1, <3>4, <3>5, <2>c DEF HostCall
    <3>6. ASSUME NEW snapshot, Publish(q, snapshot)
          PROVE  Clean
      BY <3>4, <3>5, <3>6, <2>b DEF Publish
    <3>7. CASE NarrationSwitched(q)
      BY <3>5, <3>7 DEF NarrationSwitched
    <3>8. ASSUME NEW failed \in BOOLEAN, OpClosed(q, failed)
          PROVE  Clean
      BY <3>4, <3>6, <3>8, <2>b DEF OpClosed
    <3>9. CASE OpAnnounces(q) \/ OpCannotStart(q)
      BY <3>6, <3>9 DEF OpAnnounces, OpCannotStart
    <3>10. CASE OpReturns(q)
      BY <3>4, <3>5, <3>10, <2>b DEF OpReturns
    <3>11. CASE OpCloses(q) \/ OpStarts(q)
      BY <3>4, <3>11, <2>b DEF OpCloses, OpStarts
    <3> QED
      BY <1>2, <2>3, <3>2, <3>3, <3>7, <3>8, <3>9, <3>10, <3>11
         DEF OpStep, OpEnters, SceneSwitched, Drains, OpAt, Drained
  <2>4. ASSUME NEW g \in Generation, NEW s \in Slot, CreateTask(g, s)
        PROVE  Clean
    BY <1>a, <2>a, <2>4 DEF CreateTask
  <2>5. ASSUME NEW q \in Op, NEW room, NEW expected, Send(q, room, expected)
        PROVE  Clean
    BY <2>5, <2>b DEF Send
  <2>6. ASSUME NEW s \in Slot, TaskStep(s)
        PROVE  FALSE
    BY <1>2, <2>6, NoTaskStep
  <2>7. UNCHANGED sessionVars \/ UNCHANGED vars => Clean
    BY <2>b DEF sessionVars, vars
  <2> QED
    BY <2>1, <2>2, <2>3, <2>4, <2>5, <2>6, <2>7 DEF Next, LoopStep
<1> QED
  BY <1>1, <1>2

LEMMA SubmittersKept ==
  ASSUME IInv, [Next]_vars
  PROVE  SubmittersAreFresh'
<1> SUFFICES ASSUME NEW s \in Slot, task'[s].pc \in {"showing", "submitting"}
             PROVE  task'[s].gen = replies'
  BY DEF SubmittersAreFresh
<1>1. task'[s].gen = task[s].gen
      /\ (task[s].pc \in {"showing", "submitting"} \/ (task[s].pc = "again" /\ Current(s)))
  BY TasksMove DEF TaskEnds, Advances, Passing
<1>2. task[s].gen = replies
  BY <1>1, NamesApart DEF IInv, SubmittersAreFresh, Owning, Current
<1>3. CASE UNCHANGED replies
  BY <1>1, <1>2, <1>3
<1>4. ASSUME ~UNCHANGED replies
      PROVE  FALSE
  <2>1. PICK o \in Op : OpStep(o)
    BY <1>4, OnlyCommandsOwn DEF followerVars
  <2>2. op[o].pc \in {"switching", "renewing"} /\ UNCHANGED task
    BY <1>4, <2>1 DEF OpStep, OpEnters, SceneSwitched, NarrationSwitched, OpDrains,
       OpCloses, OpClosed, OpAnnounces, OpStarts, OpCannotStart, OpReturns, followerVars, OpAt
  <2>3. task[s].pc \in {"none", "new"}
    BY <2>2 DEF IInv, DrainedIsClean, Drained
  <2> QED BY <2>2, <2>3
<1> QED
  BY <1>3, <1>4

(* Who starts and who stops a transport.                                   *)
LEMMA RunningMoves ==
  ASSUME IInv, [Next]_vars
  PROVE  UNCHANGED running \/ \E o \in Op : OpCloses(o) \/ OpStarts(o)
<1>1. ASSUME NEW s \in Slot, TaskStep(s)
      PROVE  UNCHANGED running
  BY <1>1 DEF TaskStep, Discards, HandleStatus, HandleEvent, TaskPublished,
     EventBecomesMessage, HandleMessage, Submits, NarrationSwitched, serviceVars
<1>2. ASSUME NEW o \in Op, OpStep(o)
      PROVE  UNCHANGED running \/ OpCloses(o) \/ OpStarts(o)
  BY <1>2 DEF OpStep, OpEnters, SceneSwitched, NarrationSwitched, OpDrains, OpClosed,
     OpAnnounces, OpCannotStart, OpReturns, serviceVars
<1>3. CASE HostCancels \/ HostUnwinds \/ HostApplies
  BY <1>3 DEF HostCancels, HostUnwinds, HostApplies, serviceVars
<1>4. ASSUME NEW g \in Generation, NEW s \in Slot, CreateTask(g, s)
      PROVE  UNCHANGED running
  BY <1>4 DEF CreateTask, ThreadTells, Verified, QueryAnswers, Consumes, Disconnects, Breaks,
     Exits
<1>5. ASSUME NEW g \in Generation, ThreadWorks(g)
      PROVE  UNCHANGED running
  BY <1>5 DEF ThreadWorks, QueryFails, Forget, CannotConnect, Closes, Exits, BackoffEnds,
     AnswerIsDropped
<1>6. ASSUME NEW o \in Op, NEW room, NEW expected, Send(o, room, expected)
      PROVE  UNCHANGED running
  BY <1>6 DEF Send, serviceVars
<1> QED
  BY <1>1, <1>2, <1>3, <1>4, <1>5, <1>6 DEF Next, LoopStep, vars, serviceVars

LEMMA UnownedKept ==
  ASSUME IInv, [Next]_vars
  PROVE  UnownedThreadsEnd'
<1>a. /\ UnownedThreadsEnd /\ None \notin Generation /\ op \in [Op -> OpRecord]
      /\ running \in [Generation -> BOOLEAN]
  BY NamesApart, TypesSay DEF IInv, ServiceTypeOK
<1>1. ASSUME NEW o \in Op, OpStep(o)
      PROVE  UnownedThreadsEnd'
  <2>a. \A q \in Op : q # o => op[q].pc \notin Inside /\ op'[q] = op[q]
    BY <1>1, ActorHolds
  <2>b. \A g \in Generation : running[g] =>
          gateway = g \/ (op[o].old = g /\ op[o].pc \in {"stopping", "switching"})
    BY <1>a, <2>a DEF UnownedThreadsEnd, Inside
  <2>c. op[o].pc \in Detached => gateway = None
    BY DEF IInv, Owning, Owns
  <2>d. ASSUME NEW pc, OpGoes(o, pc)
        PROVE  op'[o].pc = pc /\ op'[o].old = op[o].old
    BY <1>a, <2>d DEF OpGoes, OpRecord
  <2>1. CASE OpEnters(o)
    <3>1. UNCHANGED <<running, gateway>> /\ op[o].pc = "waiting"
      BY <2>1 DEF OpEnters, serviceVars, OpAt
    <3> QED BY <2>b, <3>1 DEF UnownedThreadsEnd
  <2>2. CASE SceneSwitched(o)
    <3>1. UNCHANGED running /\ op[o].pc = "scene"
      BY <2>2 DEF SceneSwitched, serviceVars, OpAt
    <3>2. CASE gateway = None
      BY <1>a, <2>b, <3>1, <3>2 DEF UnownedThreadsEnd
    <3>3. CASE gateway # None
      <4>1. op' = [op EXCEPT ![o].pc = "stopping", ![o].old = gateway]
        BY <2>2, <3>3 DEF SceneSwitched
      <4>2. op'[o] = [op[o] EXCEPT !.pc = "stopping", !.old = gateway]
        BY <1>a, <4>1
      <4>3. op'[o].pc = "stopping" /\ op'[o].old = gateway
        BY <1>a, <4>2 DEF OpRecord
      <4> QED BY <2>b, <3>1, <4>3 DEF UnownedThreadsEnd
    <3> QED BY <3>2, <3>3
  <2>3. CASE Drains(o)
    <3>1. UNCHANGED <<running, gateway>> /\ op'[o].old = op[o].old
          /\ (op[o].pc = "connecting" \/ op'[o].pc = "switching")
      BY <2>3, <2>d DEF Drains, OpDrains, serviceVars, OpAt
    <3> QED BY <2>b, <3>1 DEF UnownedThreadsEnd
  <2>4. CASE OpCloses(o)
    <3>1. gateway = None /\ (op[o].old = None \/ StopThread(op[o].old))
          /\ (op[o].old = None => UNCHANGED running)
      BY <2>4, <2>c DEF OpCloses, OpAt, Detached, serviceVars
    <3>2. \A g \in Generation : running[g] => g = op[o].old
      BY <1>a, <2>b, <3>1
    <3>3. \A g \in Generation : running'[g] => running[g] /\ g # op[o].old
      BY <1>a, <3>1 DEF StopThread
    <3> QED BY <3>2, <3>3 DEF UnownedThreadsEnd
  <2>5. CASE (\E failed \in BOOLEAN : OpClosed(o, failed)) \/ OpCannotStart(o)
    <3>1. UNCHANGED running /\ gateway = None /\ op[o].pc \in {"closing", "announcing"}
      BY <2>5, <2>c DEF OpClosed, OpCannotStart, OpAt, Detached, serviceVars
    <3> QED BY <1>a, <2>b, <3>1 DEF UnownedThreadsEnd
  <2>6. CASE OpAnnounces(o)
    <3>1. UNCHANGED <<running, gateway>> /\ op[o].pc = "renewing"
      BY <2>6 DEF OpAnnounces, serviceVars, OpAt
    <3> QED BY <2>b, <3>1 DEF UnownedThreadsEnd
  <2>7. CASE OpStarts(o)
    <3>1. gateway = None /\ op[o].pc = "announcing" /\ gateway' = generation
          /\ running' = [running EXCEPT ![generation] = TRUE]
      BY <2>7, <2>c DEF OpStarts, OpAt, Detached, StartThread
    <3> QED BY <1>a, <2>b, <3>1 DEF UnownedThreadsEnd
  <2>8. CASE OpReturns(o)
    <3>1. UNCHANGED <<running, gateway>> /\ op[o].pc \notin {"stopping", "switching"}
      BY <2>8 DEF OpReturns, serviceVars
    <3> QED BY <2>b, <3>1 DEF UnownedThreadsEnd
  <2>9. CASE NarrationSwitched(o)
    BY <1>a, <2>9 DEF NarrationSwitched, serviceVars, UnownedThreadsEnd
  <2> QED
    BY <1>1, <2>1, <2>2, <2>3, <2>4, <2>5, <2>6, <2>7, <2>8, <2>9 DEF OpStep, Drains
<1>2. ASSUME ~ \E o \in Op : OpStep(o)
      PROVE  UnownedThreadsEnd'
  <2>1. UNCHANGED running /\ UNCHANGED gateway
    BY <1>2, RunningMoves, OnlyCommandsOwn DEF OpStep
  <2>2. \A o \in Op : op'[o] = op[o] \/ op[o].pc = "unsent"
    BY <1>2, OpsMove
  <2> QED BY <1>a, <2>1, <2>2 DEF UnownedThreadsEnd
<1> QED
  BY <1>1, <1>2

(* No call that waits then is one of a live room: each silences the host.  *)
LEMMA Silencing ==
  ASSUME IInv, NEW o \in Op, op[o].pc \in Drained, HostApplies
  PROVE  HostIsSilent'
<1> DEFINE c == Head(hostLock)
<1>1. /\ 1 \in DOMAIN hostLock /\ c = hostLock[1] /\ Calling(c, publication, task)
      /\ c.by \in Publisher \union {None}
  BY HostAppliesTask
<1>2. c.by \notin Slot
  BY <1>1 DEF IInv, DrainedIsClean
<1>3. c.call \in {"publish", "update"} /\ c.snapshot.state # "live"
  BY <1>1, <1>2 DEF Calling, Publisher
<1>4. Cancels(c) /\ ~IsLive(c) /\ ~IsReset(c)
  BY <1>3 DEF Cancels, IsLive, IsReset
<1> QED
  BY <1>3, <1>4 DEF HostApplies, HostIsSilent

LEMMA AnnouncedKept ==
  ASSUME IInv, [Next]_vars
  PROVE  Announced'
<1> SUFFICES ASSUME NEW o \in Op, op'[o].pc \in {"announcing", "starting"}
             PROVE  /\ op'[o].pc = "announcing" /\ publication'[o].stage # "narrating"
                         => narrated' = generation'
                    /\ op'[o].pc = "announcing" /\ publication'[o].stage = "idle"
                         => HostIsSilent'
                    /\ op'[o].pc = "starting" => narrated' = generation' /\ HostIsSilent'
  BY DEF Announced
<1> DEFINE Told == /\ op'[o].pc = "announcing" /\ publication'[o].stage # "narrating"
                         => narrated' = generation'
                   /\ op'[o].pc = "announcing" /\ publication'[o].stage = "idle"
                         => HostIsSilent'
                   /\ op'[o].pc = "starting" => narrated' = generation' /\ HostIsSilent'
<1>a. /\ op \in [Op -> OpRecord] /\ publication \in [Publisher -> PublicationRecord]
      /\ o \in Publisher /\ o # None /\ o \notin Slot
  BY TypesSay, NamesApart
<1>b. /\ op[o].pc = "announcing" /\ publication[o].stage # "narrating" => narrated = generation
      /\ op[o].pc = "announcing" /\ publication[o].stage = "idle" => HostIsSilent
      /\ op[o].pc = "starting" => narrated = generation /\ HostIsSilent
  BY DEF IInv, Announced
<1>1. CASE op[o].pc = "renewing"
  <2>1. OpStep(o) /\ op'[o].pc = "announcing"
    BY <1>1, OpsMove DEF Edge
  <2>2. OpAnnounces(o)
    BY <1>1, <2>1 DEF OpStep, OpEnters, SceneSwitched, NarrationSwitched, OpDrains,
       OpCloses, OpClosed, OpStarts, OpCannotStart, OpReturns, OpAt
  <2>3. Publish(o, Snap) /\ Snap.generation = generation /\ UNCHANGED generation
    BY <2>2 DEF OpAnnounces, Snap, snapshotVars
  <2>4. /\ publication'[o].stage \in {"asked", "narrating"}
        /\ publication'[o].stage = "asked" => narrated' = generation
    BY <1>a, <2>3 DEF Publish
  <2> QED
    BY <2>1, <2>3, <2>4
<1>2. CASE op[o].pc \in {"announcing", "starting"}
  <2>a. op[o].pc \in Drained /\ op[o].pc \in Inside
    BY <1>2 DEF Drained, Inside
  <2>b. ASSUME UNCHANGED <<narrated, generation>>, UNCHANGED op,
               publication'[o].stage = publication[o].stage
               \/ (publication'[o].stage = "idle" /\ publication[o].stage = "asked" /\ HostIsSilent'),
               HostIsSilent => HostIsSilent'
        PROVE  Told
    BY <1>b, <2>b
  <2>c. HostIsSilent => (UNCHANGED <<host, hostActive>> => HostIsSilent')
    BY DEF HostIsSilent
  <2>1. CASE HostApplies
    <3>1. HostIsSilent'
      BY <2>1, <2>a, Silencing
    <3>2. UNCHANGED <<narrated, generation, op>>
      BY <2>1 DEF HostApplies, snapshotVars
    <3> DEFINE c == Head(hostLock)
    <3>3. /\ Calling(c, publication, task) /\ c.by \in Publisher \union {None}
          /\ c.call = "publish" => publication' = [publication EXCEPT ![c.by] = Quiescent]
          /\ c.call # "publish" => UNCHANGED publication
      BY <2>1, HostAppliesTask DEF HostApplies
    <3>4. \/ publication'[o].stage = publication[o].stage
          \/ publication'[o].stage = "idle" /\ publication[o].stage = "asked"
      <4>1. CASE c.by = o /\ c.call = "publish"
        BY <1>a, <3>3, <4>1 DEF Calling, Quiescent
      <4>2. CASE c.by # o \/ c.call # "publish"
        BY <1>a, <3>3, <4>2
      <4> QED BY <4>1, <4>2
    <3> QED BY <2>b, <3>1, <3>2, <3>4
  <2>2. CASE HostCancels \/ HostUnwinds
    <3>1. HostIsSilent => HostIsSilent'
      BY <2>2 DEF HostCancels, HostUnwinds, HostIsSilent
    <3> QED
      BY <2>2, <2>b, <3>1 DEF HostCancels, HostUnwinds, publishVars, snapshotVars
  <2>3. ASSUME NEW q \in Op, OpStep(q)
        PROVE  Told
    <3>1. q = o
      BY <2>a, <2>3, ActorHolds
    <3>2. CASE NarrationSwitched(o)
      <4>1. /\ publication[o].stage = "narrating" /\ op' = op /\ UNCHANGED generation
            /\ publication'[o].stage = "asked" /\ narrated' = publication[o].snapshot.generation
            /\ UNCHANGED <<host, hostActive>>
        BY <1>a, <3>2 DEF NarrationSwitched, snapshotVars, timerVars
      <4>2. narrated' = generation /\ op[o].pc = "announcing"
        BY <4>1, <1>2 DEF IInv, Hosting, Publications
      <4> QED BY <4>1, <4>2
    <3>3. CASE OpStarts(o)
      <4>1. /\ op[o].pc = "announcing" /\ publication[o].stage = "idle"
            /\ UNCHANGED <<narrated, generation, host, hostActive>>
            /\ op'[o].pc = "starting"
        BY <1>a, <3>3 DEF OpStarts, OpAt, Published, OpGoes, OpRecord, publishVars,
           snapshotVars, timerVars
      <4> QED BY <1>b, <4>1, <2>c
    <3>4. ~OpCannotStart(o) /\ ~OpReturns(o)
      <4>1. OpCannotStart(o) => op'[o].pc = "failing"
        BY <1>a DEF OpCannotStart, OpGoes, OpRecord
      <4>2. OpReturns(o) => op'[o].pc = "done"
        BY <1>a DEF OpReturns, OpEnds, NoOp
      <4> QED BY <4>1, <4>2
    <3> QED
      BY <1>2, <2>3, <3>1, <3>2, <3>3, <3>4 DEF OpStep, OpEnters, SceneSwitched, OpDrains,
         OpCloses, OpClosed, OpAnnounces, OpAt
  <2>4. ASSUME NEW g \in Generation, NEW s \in Slot, CreateTask(g, s)
        PROVE  Told
    <3>1. UNCHANGED <<narrated, generation, op, publication, host, hostActive>>
      BY <2>4 DEF CreateTask, publishVars, snapshotVars, timerVars
    <3> QED BY <2>b, <2>c, <3>1
  <2>5. ASSUME NEW q \in Op, NEW room, NEW expected, Send(q, room, expected)
        PROVE  Told
    <3>1. UNCHANGED <<narrated, generation, publication, host, hostActive>>
      BY <2>5 DEF Send, publishVars, snapshotVars, timerVars
    <3>2. q # o
      BY <2>5, <1>2 DEF Send
    <3>3. op'[o] = op[o]
      BY <1>a, <2>5, <3>2 DEF Send
    <3> QED BY <1>b, <2>c, <3>1, <3>3
  <2>6. ASSUME NEW s \in Slot, TaskStep(s)
        PROVE  FALSE
    BY <2>a, <2>6, NoTaskStep
  <2>7. CASE UNCHANGED sessionVars \/ UNCHANGED vars
    <3>1. UNCHANGED <<narrated, generation, op, publication, host, hostActive>>
      BY <2>7 DEF sessionVars, vars, publishVars, snapshotVars, timerVars
    <3> QED BY <2>b, <2>c, <3>1
  <2> QED
    BY <2>1, <2>2, <2>3, <2>4, <2>5, <2>6, <2>7 DEF Next, LoopStep
<1>3. op[o].pc \in {"renewing", "announcing", "starting"}
  <2>1. op'[o].pc = op[o].pc \/ Edge(op[o].pc, op'[o].pc) \/ op'[o].pc = "waiting"
    BY OpsMove
  <2> QED BY <2>1 DEF Edge
<1> QED
  BY <1>1, <1>2, <1>3

LEMMA IInvKept ==
  ASSUME IInv, [Next]_vars
  PROVE  IInv'
<1>1. TypeOK' /\ TypesToo' /\ Queueing' /\ Counting' /\ Owning' /\ Hosting'
  BY TypesKept, LockKept, CountingKept, OwningKept, HostingKept
<1>2. DrainedIsClean' /\ Announced' /\ SubmittersAreFresh' /\ UnownedThreadsEnd'
  BY DrainedKept, AnnouncedKept, SubmittersKept, UnownedKept
<1> QED
  BY <1>1, <1>2 DEF IInv

-----------------------------------------------------------------------------
(* The theorems.                                                           *)

(* The inductive invariant holds in every reachable state.                 *)
THEOREM InvariantHolds == Spec => []IInv
<1>1. IInv /\ [Next]_vars => IInv'
  BY IInvKept
<1> QED
  BY InitHolds, <1>1, PTL DEF Spec

(* Type correctness: in particular no generation is counted past its bound,*)
(* which is the number of commands, and nobody stands in the lock twice.   *)
THEOREM SessionIsTyped == Spec => []TypeOK
<1>1. IInv => TypeOK
  BY DEF IInv
<1> QED
  BY InvariantHolds, <1>1, PTL

(* switch_room: when the next gateway starts, the replies, the scene, the  *)
(* narration and the host have left the old generation, and no callback    *)
(* task of it can still act; and the replies only get messages of theirs.  *)
THEOREM RoomsNeverMix == Spec => []RoomsDoNotMix
<1>1. ASSUME IInv
      PROVE  RoomStartsClean
  <2> SUFFICES ASSUME NEW o \in Op, op[o].pc = "starting"
               PROVE  /\ replies = generation /\ scene = generation /\ narrated = generation
                      /\ host = "none" /\ ~hostActive
                      /\ \A s \in Slot : task[s].gen < generation => task[s].pc \in {"none", "new"}
    BY DEF RoomStartsClean
  <2>1. replies = generation /\ op[o].room \in Room /\ (op[o].room # None => scene = generation)
    BY <1>1 DEF IInv, Owning, Owns, Moving, Inside
  <2>2. narrated = generation /\ HostIsSilent
    BY <1>1 DEF IInv, Announced
  <2>3. \A s \in Slot : task[s].pc \in {"none", "new"}
    BY <1>1 DEF IInv, DrainedIsClean, Drained
  <2> QED BY <2>1, <2>2, <2>3, NamesApart DEF HostIsSilent
<1>2. ASSUME IInv
      PROVE  SwitchMeetsNoSubmitter
  <2>1. ASSUME NEW o \in Op, op[o].pc \in {"switching", "renewing"}, NEW s \in Slot
        PROVE  task[s].pc \notin {"showing", "submitting"}
    BY <1>2, <2>1 DEF IInv, DrainedIsClean, Drained
  <2>2. SubmittersAreFresh
    BY <1>2 DEF IInv
  <2> QED BY <2>1, <2>2 DEF SwitchMeetsNoSubmitter, SubmittersAreFresh
<1>3. IInv => RoomsDoNotMix
  BY <1>1, <1>2 DEF RoomsDoNotMix
<1> QED
  BY InvariantHolds, <1>3, PTL

(* _close_gateway: a transport that runs is the one the session owns, or   *)
(* the one a room command is about to stop.                                *)
THEOREM UnownedTransportsEnd == Spec => []UnownedThreadsEnd
<1>1. IInv => UnownedThreadsEnd
  BY DEF IInv
<1> QED
  BY InvariantHolds, <1>1, PTL
(***************************************************************************)
(* The public state and the host: what holds besides IInv.                 *)
(***************************************************************************)

(* The threads: of which generations, and what they left behind.           *)
Transports ==
  /\ \A g \in Generation : thread[g] # "none" => g <= generation
  /\ generation \in Generation /\ gateway # generation => thread[generation] = "none"
  /\ gateway # None => gateway <= generation
  /\ \A g \in Generation : query[g] = "asked" => thread[g] = "up"
  /\ \A s \in Slot : task[s].pc # "none" => thread[task[s].gen] # "none"
  /\ \A o \in Op : op[o].pc \in {"stopping", "switching", "closing"} /\ op[o].old # None
       => op[o].old < generation

(* Who says what: a broadcast state needs the connection of the gateway.   *)
Broadcasting ==
  /\ state \in Broadcasts => connected /\ gateway = generation
  /\ gateway = generation => narrated = generation
  /\ \A o \in Op : op[o].pc \in {"connecting", "renewing", "announcing"} => ~connected
  /\ \A s \in Slot : publication[s].stage # "narrating"
  /\ \A o \in Op : publication[o].stage = "narrating" => publication[o].snapshot = Snap

(* A callback task that finds its generation finds the gateway.            *)
LEMMA CurrentIsGateway ==
  ASSUME IInv, Transports, NEW s \in Slot, Current(s), task[s].pc # "none"
  PROVE  gateway = generation
BY DEF Transports, Current, IInv, TypesToo

Statuses == {"up", "down", "fatal"}

LEMMA ThreadTelling ==
  ASSUME IInv, Transports, NEW g \in Generation, NEW callback \in Callbacks,
         ThreadTells(g, callback)
  PROVE  /\ thread[g] # "none" /\ thread'[g] # "none"
         /\ \A h \in Generation : h # g => thread'[h] = thread[h] /\ query'[h] = query[h]
         /\ query'[g] = "asked" => thread'[g] = "up"
         /\ callback = "up" => thread'[g] = "up"
         /\ callback \in {"down", "fatal"} => thread'[g] # "up"
         /\ callback \notin Statuses => thread' = thread
<1>a. /\ thread \in [Generation -> {"none", "connecting", "up", "leaving", "backoff", "gone"}]
      /\ query \in [Generation -> {"none", "asked", "answered"}]
  BY TypesSay DEF ServiceTypeOK
<1>b. query[g] = "asked" => thread[g] = "up"
  BY DEF Transports
<1>1. CASE callback = "up" /\ Verified(g)
  BY <1>1, <1>a DEF Verified, Statuses
<1>2. CASE callback \in Broadcasts /\ QueryAnswers(g, callback)
  BY <1>2, <1>a, <1>b DEF QueryAnswers, QueryEnds, Statuses, Broadcasts
<1>3. CASE callback \in Broadcasts \union {"message"} /\ Consumes(g, callback)
  BY <1>3, <1>a, <1>b DEF Consumes, Statuses, Broadcasts
<1>4. CASE callback = "down" /\ Disconnects(g)
  BY <1>4, <1>a DEF Disconnects, Statuses
<1>5. CASE callback = "down" /\ Breaks(g)
  BY <1>5, <1>a, <1>b DEF Breaks, Statuses
<1>6. CASE callback = "fatal" /\ Exits(g)
  BY <1>6, <1>a DEF Exits, ForgetAll, Statuses
<1> QED
  BY <1>1, <1>2, <1>3, <1>4, <1>5, <1>6 DEF ThreadTells

(* A thread is started by a command, and never comes undone.               *)
LEMMA ThreadsMove ==
  ASSUME IInv, Transports, [Next]_vars
  PROVE  /\ \A g \in Generation : query'[g] = "asked" => thread'[g] = "up"
         /\ \/ \A g \in Generation : thread'[g] = "none" <=> thread[g] = "none"
            \/ \E o \in Op : /\ OpStarts(o) /\ thread'[generation] # "none"
                             /\ \A g \in Generation : g # generation => thread'[g] = thread[g]
<1> DEFINE Q == \A g \in Generation : query'[g] = "asked" => thread'[g] = "up"
           K == \A g \in Generation : thread'[g] = "none" <=> thread[g] = "none"
<1>a. /\ thread \in [Generation -> {"none", "connecting", "up", "leaving", "backoff", "gone"}]
      /\ query \in [Generation -> {"none", "asked", "answered"}]
      /\ \A g \in Generation : query[g] = "asked" => thread[g] = "up"
  BY TypesSay DEF ServiceTypeOK, Transports
<1>b. ASSUME UNCHANGED <<thread, query>>
      PROVE  Q /\ K
  BY <1>a, <1>b
<1>c. UNCHANGED serviceVars => UNCHANGED <<thread, query>>
  BY DEF serviceVars
<1>1. ASSUME NEW s \in Slot, TaskStep(s)
      PROVE  UNCHANGED serviceVars
  BY <1>1 DEF TaskStep, Discards, HandleStatus, HandleEvent, TaskPublished,
     EventBecomesMessage, HandleMessage, Submits, NarrationSwitched
<1>2. ASSUME NEW o \in Op, OpStep(o)
      PROVE  UNCHANGED serviceVars \/ OpCloses(o) \/ OpStarts(o)
  BY <1>2 DEF OpStep, OpEnters, SceneSwitched, NarrationSwitched, OpDrains, OpClosed,
     OpAnnounces, OpCannotStart, OpReturns
<1>3. ASSUME NEW o \in Op, OpCloses(o)
      PROVE  Q /\ K
  <2>1. \/ UNCHANGED <<thread, query>>
        \/ UNCHANGED thread /\ query' = [query EXCEPT ![op[o].old] = "none"]
    BY <1>3, <1>c DEF OpCloses, StopThread, ForgetAll
  <2> QED BY <1>a, <2>1
<1>4. ASSUME NEW o \in Op, OpStarts(o), OpStep(o)
      PROVE  /\ Q /\ thread'[generation] # "none"
             /\ \A g \in Generation : g # generation => thread'[g] = thread[g]
  <2>1. generation \in Generation /\ gateway = None
    BY <1>4, MovingHasGeneration DEF OpStarts, OpAt, Moving, Inside, IInv, Owning, Owns, Detached
  <2>2. thread[generation] = "none"
    BY <2>1, NamesApart DEF Transports
  <2> QED BY <1>4, <1>a, <2>1, <2>2 DEF OpStarts, StartThread
<1>5. ASSUME NEW g \in Generation, NEW s \in Slot, CreateTask(g, s)
      PROVE  Q /\ K
  <2>1. PICK callback \in Callbacks : ThreadTells(g, callback)
    BY <1>5 DEF CreateTask
  <2> QED BY <1>a, <2>1, ThreadTelling
<1>6. ASSUME NEW g \in Generation, ThreadWorks(g)
      PROVE  Q /\ K
  <2>1. CASE QueryFails(g) \/ \E event \in Broadcasts : AnswerIsDropped(g, event)
    BY <1>a, <2>1 DEF QueryFails, AnswerIsDropped, QueryEnds
  <2>2. CASE Forget(g) \/ CannotConnect(g) \/ Closes(g) \/ BackoffEnds(g)
    BY <1>a, <2>2 DEF Forget, CannotConnect, Closes, Exits, ForgetAll, BackoffEnds
  <2> QED
    BY <1>6, <2>1, <2>2 DEF ThreadWorks
<1>7. ASSUME HostCancels \/ HostUnwinds \/ HostApplies
      PROVE  Q /\ K
  BY <1>7, <1>b, <1>c DEF HostCancels, HostUnwinds, HostApplies
<1>8. ASSUME NEW o \in Op, NEW room, NEW expected, Send(o, room, expected)
      PROVE  UNCHANGED serviceVars
  BY <1>8 DEF Send
<1>9. UNCHANGED vars => UNCHANGED serviceVars
  BY DEF vars
<1> HIDE DEF Q, K
<1>10. (Q /\ K) \/ \E o \in Op : OpStarts(o) /\ OpStep(o)
  <2>1. UNCHANGED serviceVars => Q /\ K
    BY <1>b, <1>c
  <2>2. HostCancels \/ HostUnwinds \/ HostApplies => Q /\ K
    BY <1>7
  <2> QED
    BY <1>1, <1>2, <1>3, <1>5, <1>6, <1>8, <1>9, <2>1, <2>2 DEF Next, LoopStep
<1> QED
  BY <1>4, <1>10 DEF Q, K

-----------------------------------------------------------------------------
(* The kinds of steps, as far as the public state and the host see them.   *)

(* A command on its way stays on it, and remembers the gateway it detached.*)
Steadily(o) ==
  (op[o].pc \in {"stopping", "connecting", "renewing"} \/ op'[o].pc \in Detached) =>
    /\ op'[o].old = op[o].old
    /\ op'[o].pc = op[o].pc \/ (op[o].pc = "switching" /\ op'[o].pc = "closing")

Aside ==
  /\ UNCHANGED <<snapshotVars, gateway, publishVars, hostLock, hostActive, hostIdentity>>
  /\ host' = host \/ HostCancels
  /\ \A o \in Op : Steadily(o)

Resets(s) ==
  /\ Holds(s) /\ hostLock' = Append(hostLock, [by |-> s, call |-> "activity", snapshot |-> Stopped])
  /\ UNCHANGED <<snapshotVars, gateway, publishVars, op, timerVars>>

Tells(s) ==
  /\ Holds(s) /\ gateway = generation /\ narrated = generation
  /\ UNCHANGED <<generation, gateway, op, narrated, shown, timerVars>>
  /\ state' \in Broadcasts => connected'
  /\ publication' = [publication EXCEPT ![s] = [stage |-> "asked", snapshot |-> Snap']]
  /\ hostLock' = Append(hostLock, [by |-> s, call |-> "publish", snapshot |-> Snap'])

Updates(o) ==
  /\ Holds(o) /\ state # "live" /\ publication[o].stage = "idle" /\ op[o].pc # "stopping"
  /\ hostLock' = Append(hostLock, [by |-> None, call |-> "update", snapshot |-> Snap])
  /\ UNCHANGED <<snapshotVars, gateway, publishVars, timerVars>>
  /\ \A q \in Op : Steadily(q)

Acts(o) == op[o].pc \in Inside /\ \A q \in Op : q # o => op'[q] = op[q]

Detaches(o) ==
  /\ op[o].pc = "scene" /\ op'[o].pc = "stopping" /\ op'[o].old = gateway
  /\ gateway' = None /\ generation' = generation + 1
Settles(o) ==
  /\ op[o].pc \in {"closing", "renewing", "announcing"}
  /\ op'[o].pc \in {"announcing", "failing", "stopped"}
  /\ gateway = None /\ gateway' \in {None, op[o].old} /\ generation' = generation
  /\ gateway' # None => op[o].pc = "closing"
OpTells(o) ==
  /\ Acts(o) /\ publication[o].stage = "idle" /\ UNCHANGED <<shown, timerVars>>
  /\ Detaches(o) \/ Settles(o)
  /\ state' \notin Broadcasts /\ (op'[o].pc = "announcing" => ~connected')
  /\ Publish(o, Snap')

Readies(o) ==
  /\ Acts(o) /\ op[o].pc \in {"scene", "closing"} /\ op'[o].pc = "connecting"
  /\ gateway = None /\ gateway' = None
  /\ generation' = generation \/ (op[o].pc = "scene" /\ generation' = generation + 1)
  /\ state' = "connecting" /\ ~connected'
  /\ UNCHANGED <<publishVars, hostLock, timerVars>>

LEMMA TaskKinds ==
  ASSUME IInv, Transports, Broadcasting, NEW s \in Slot, TaskStep(s)
  PROVE  Aside \/ Resets(s) \/ Tells(s)
<1>a. \A o \in Op : UNCHANGED op => Steadily(o)
  BY DEF Steadily, Detached
<1>b. publication[s].stage # "narrating"
  BY DEF Broadcasting
<1>1. CASE Discards(s) \/ TaskPublished(s) \/ EventBecomesMessage(s) \/ Submits(s)
  BY <1>1, <1>a DEF Discards, TaskPublished, EventBecomesMessage, Submits, Aside, timerVars
<1>2. CASE HandleMessage(s)
  BY <1>2 DEF HandleMessage, HostCall, Resets
<1>3. ASSUME Holds(s), Current(s), task[s].pc = "new", Publish(s, Snap'),
             UNCHANGED <<generation, gateway, op, timerVars>>, state' \in Broadcasts => connected'
      PROVE  Tells(s)
  <2>1. gateway = generation /\ narrated = generation
    BY <1>3, CurrentIsGateway DEF Broadcasting
  <2>2. Snap'.generation = generation
    BY <1>3 DEF Snap
  <2> QED BY <1>3, <2>1, <2>2 DEF Publish, HostCall, Tells
<1>4. CASE HandleStatus(s)
  <2>1. state' \notin Broadcasts /\ UNCHANGED generation
    BY <1>4 DEF HandleStatus, Transition, Broadcasts
  <2> QED BY <1>3, <1>4, <2>1 DEF HandleStatus
<1>5. CASE HandleEvent(s)
  <2>1. CASE connected /\ state # task[s].kind
    <3>1. connected' /\ UNCHANGED generation
      BY <1>5, <2>1 DEF HandleEvent, Transition
    <3> QED BY <1>3, <1>5, <2>1, <3>1 DEF HandleEvent
  <2>2. CASE ~(connected /\ state # task[s].kind)
    BY <1>5, <1>a, <2>2 DEF HandleEvent, Aside, timerVars
  <2> QED BY <2>1, <2>2
<1>6. ~NarrationSwitched(s)
  BY <1>b DEF NarrationSwitched
<1> QED
  BY <1>1, <1>2, <1>4, <1>5, <1>6, TaskStep(s) DEF TaskStep

LEMMA OpKinds ==
  ASSUME IInv, Transports, Broadcasting, NEW o \in Op, OpStep(o)
  PROVE  Aside \/ Updates(o) \/ OpTells(o) \/ Readies(o) \/ NarrationSwitched(o)
         \/ Drains(o) \/ OpStarts(o)
<1>a. /\ Holds(o) /\ \A q \in Op : q # o => op'[q] = op[q]
      /\ op \in [Op -> OpRecord]
  BY TypesSay, ActorHolds
<1>b. \A q \in Op : op'[q] = op[q] => Steadily(q)
  BY DEF Steadily, Detached
<1>c. ASSUME op[o].pc \notin {"stopping", "connecting", "renewing"}, op'[o].pc \notin Detached
      PROVE  \A q \in Op : Steadily(q)
  BY <1>a, <1>b, <1>c DEF Steadily
<1>d. ASSUME op[o].pc \in Inside PROVE Acts(o)
  BY <1>a, <1>d DEF Acts
<1>e. op[o].pc \in {"scene", "closing", "renewing"} => publication[o].stage = "idle"
  BY DEF IInv, Hosting, Publications
<1>f. op[o].pc \in Detached => gateway = None
  BY DEF IInv, Owning, Owns
<1>1. CASE OpEnters(o)
  <2>1. op[o].pc = "waiting" /\ op'[o].pc \in {"done", "scene"}
    BY <1>1, <1>a DEF OpEnters, OpAt, OpEnds, NoOp, OpRecord
  <2>2. \A q \in Op : Steadily(q)
    BY <1>c, <2>1 DEF Detached
  <2>3. CASE UNCHANGED hostLock
    BY <1>1, <2>2, <2>3 DEF OpEnters, Aside, timerVars
  <2>4. CASE Satisfied(o) /\ op[o].room = None /\ HostCall(None, "update", Snap)
    <3>1. publication[o].stage = "idle"
      BY <2>1 DEF IInv, Hosting, Publications
    <3> QED BY <1>1, <1>a, <2>1, <2>2, <2>4, <3>1 DEF OpEnters, Updates, Satisfied, HostCall
  <2> QED BY <1>1, <2>3, <2>4 DEF OpEnters
<1>2. CASE SceneSwitched(o)
  <2>1. op[o].pc = "scene" /\ gateway' = None /\ generation' = generation + 1
        /\ UNCHANGED <<timerVars>>
    BY <1>2 DEF SceneSwitched, OpAt, Transition
  <2>2. CASE op[o].room # None /\ gateway = None
    <3>1. op'[o].pc = "connecting" /\ state' = "connecting" /\ ~connected'
          /\ UNCHANGED <<publishVars, hostLock>>
      BY <1>2, <1>a, <2>2 DEF SceneSwitched, Transition, OpRecord
    <3> QED BY <1>d, <2>1, <2>2, <3>1 DEF Readies, Inside
  <2>3. CASE ~(op[o].room # None /\ gateway = None)
    <3>1. op'[o].pc = "stopping" /\ op'[o].old = gateway /\ state' = "stopping" /\ Publish(o, Snap')
      BY <1>2, <1>a, <2>3 DEF SceneSwitched, Transition, OpRecord
    <3>2. UNCHANGED shown
      BY <3>1 DEF Publish
    <3> QED BY <1>d, <1>e, <2>1, <3>1, <3>2 DEF OpTells, Detaches, Inside, Broadcasts
  <2> QED BY <2>2, <2>3
<1>3. CASE NarrationSwitched(o) \/ Drains(o) \/ OpStarts(o)
  BY <1>3
<1>4. CASE OpCloses(o)
  <2>1. op[o].pc = "switching" /\ op'[o].pc = "closing" /\ op'[o].old = op[o].old
    BY <1>4, <1>a DEF OpCloses, OpAt, OpGoes, OpRecord
  <2>2. \A q \in Op : Steadily(q)
    BY <1>a, <1>b, <2>1 DEF Steadily
  <2> QED BY <1>4, <2>2 DEF OpCloses, Aside, timerVars
<1>5. ASSUME NEW failed \in BOOLEAN, OpClosed(o, failed)
      PROVE  OpTells(o) \/ Readies(o)
  <2>1. op[o].pc = "closing" /\ gateway' \in {None, op[o].old} /\ gateway = None
        /\ generation' = generation /\ UNCHANGED timerVars /\ (~failed => gateway' = None)
    BY <1>5, <1>f DEF OpClosed, OpAt, Transition, Detached
  <2>2. CASE op[o].room # None /\ ~failed
    <3>1. op'[o].pc = "connecting" /\ state' = "connecting" /\ ~connected'
          /\ UNCHANGED <<publishVars, hostLock>>
      BY <1>5, <1>a, <2>2 DEF OpClosed, Transition, OpGoes, OpRecord
    <3> QED BY <1>d, <2>1, <2>2, <3>1 DEF Readies, Inside
  <2>3. CASE op[o].room = None \/ failed
    <3>1. op'[o].pc \in {"failing", "stopped"} /\ state' \notin Broadcasts /\ Publish(o, Snap')
      BY <1>5, <1>a, <2>3 DEF OpClosed, Transition, OpGoes, OpRecord, Broadcasts
    <3>2. UNCHANGED shown
      BY <3>1 DEF Publish
    <3> QED BY <1>d, <1>e, <2>1, <3>1, <3>2 DEF OpTells, Settles, Inside
  <2> QED BY <2>2, <2>3
<1>6. CASE OpAnnounces(o)
  <2>1. op[o].pc = "renewing" /\ op'[o].pc = "announcing" /\ Publish(o, Snap)
        /\ UNCHANGED <<snapshotVars, gateway, timerVars>>
    BY <1>6, <1>a DEF OpAnnounces, OpAt, OpGoes, OpRecord
  <2>2. gateway = None /\ state = "connecting" /\ ~connected
    BY <1>f, <2>1 DEF IInv, Owning, Owns, Detached, Broadcasting
  <2>3. Snap' = Snap /\ UNCHANGED <<generation, state, connected, shown>>
    BY <2>1 DEF Snap, snapshotVars, Publish
  <2> QED BY <1>d, <1>e, <2>1, <2>2, <2>3 DEF OpTells, Settles, Inside, Broadcasts
<1>7. CASE OpCannotStart(o)
  <2>1. op[o].pc = "announcing" /\ op'[o].pc = "failing" /\ Publish(o, Snap')
        /\ gateway' = None /\ generation' = generation /\ state' = "error"
        /\ UNCHANGED timerVars /\ publication[o].stage = "idle"
    BY <1>7, <1>a DEF OpCannotStart, OpAt, OpGoes, OpRecord, Published, Transition
  <2>2. gateway = None /\ UNCHANGED shown
    BY <1>f, <2>1 DEF Detached, Publish
  <2> QED BY <1>d, <2>1, <2>2 DEF OpTells, Settles, Inside, Broadcasts
<1>8. CASE OpReturns(o)
  <2>1. op[o].pc \in {"starting", "failing", "stopped"} /\ op'[o].pc = "done"
    BY <1>8, <1>a DEF OpReturns, OpEnds, NoOp, OpRecord
  <2>2. \A q \in Op : Steadily(q)
    BY <1>c, <2>1 DEF Detached
  <2>3. CASE op[o].room # None
    BY <1>8, <2>2, <2>3 DEF OpReturns, Aside, timerVars
  <2>4. CASE op[o].room = None
    <3>1. op[o].pc = "stopped" /\ state = "stopped" /\ publication[o].stage = "idle"
      BY <1>8, <2>1, <2>4, NamesApart DEF IInv, Owning, Owns, OpReturns, Published
    <3> QED BY <1>8, <1>a, <2>2, <2>4, <3>1 DEF OpReturns, Updates, HostCall
  <2> QED BY <2>3, <2>4
<1> QED
  BY <1>1, <1>2, <1>3, <1>4, <1>5, <1>6, <1>7, <1>8, OpStep(o) DEF OpStep, Drains

Kinds ==
  \/ Aside \/ HostApplies
  \/ \E s \in Slot : Resets(s) \/ Tells(s)
  \/ \E o \in Op : Updates(o) \/ OpTells(o) \/ Readies(o) \/ NarrationSwitched(o)
                   \/ Drains(o) \/ OpStarts(o)

LEMMA StepKinds ==
  ASSUME IInv, Transports, Broadcasting, [Next]_vars
  PROVE  Kinds
<1>a. UNCHANGED op => \A o \in Op : Steadily(o)
  BY DEF Steadily
<1>1. CASE HostCancels \/ HostUnwinds
  BY <1>1, <1>a DEF HostCancels, HostUnwinds, Aside, Kinds
<1>2. ASSUME NEW g \in Generation, NEW s \in Slot, CreateTask(g, s)
      PROVE  Aside
  BY <1>2, <1>a DEF CreateTask, Aside, timerVars
<1>3. ASSUME NEW o \in Op, NEW room \in Room \union {None},
             NEW expected \in {None, shown.generation}, Send(o, room, expected)
      PROVE  Aside
  <2>1. op[o].pc = "unsent" /\ op'[o].pc = "waiting" /\ \A q \in Op : q # o => op'[q] = op[q]
    BY <1>3, TypesSay DEF Send
  <2>2. \A q \in Op : Steadily(q)
    BY <2>1 DEF Steadily, Detached
  <2> QED BY <1>3, <2>2 DEF Send, Aside, timerVars
<1>4. UNCHANGED sessionVars \/ UNCHANGED vars => Aside
  BY <1>a DEF sessionVars, vars, Aside, timerVars
<1>5. \A s \in Slot : TaskStep(s) => Kinds
  BY TaskKinds DEF Kinds
<1>6. \A o \in Op : OpStep(o) => Kinds
  BY OpKinds DEF Kinds
<1>7. Aside \/ HostApplies => Kinds
  BY DEF Kinds
<1> QED
  BY <1>1, <1>2, <1>3, <1>4, <1>5, <1>6, <1>7 DEF Next, LoopStep

-----------------------------------------------------------------------------
(* The transports and the broadcast state.                                 *)

(* Who publishes for a command is under the lock.                          *)
LEMMA PublisherIsInside ==
  ASSUME IInv, NEW o \in Op, publication[o].stage # "idle"
  PROVE  op[o].pc \in Inside /\ op[o].pc \notin {"scene", "closing", "renewing", "connecting"}
BY DEF IInv, Hosting, Publications, Inside

LEMMA HolderIsOutside ==
  ASSUME IInv, NEW s \in Slot, Holds(s)
  PROVE  \A o \in Op : op[o].pc \notin Inside /\ publication[o].stage = "idle"
BY OneInside, PublisherIsInside

LEMMA ActorIsAlone ==
  ASSUME IInv, NEW o \in Op, op[o].pc \in Inside
  PROVE  \A q \in Op : q # o => op[q].pc \notin Inside /\ publication[q].stage = "idle"
BY OneInside, PublisherIsInside

LEMMA StartsFrom ==
  ASSUME IInv, NEW o \in Op, OpStarts(o)
  PROVE  /\ gateway = None /\ gateway' = generation /\ generation' = generation
         /\ generation \in Generation /\ UNCHANGED <<snapshotVars, publishVars, hostLock, timerVars, task, lock>>
         /\ op[o].pc = "announcing" /\ op[o].pc \in Inside /\ op'[o].pc = "starting"
         /\ \A q \in Op : q # o => op'[q] = op[q]
<1>1. /\ op[o].pc = "announcing" /\ op'[o].pc = "starting" /\ \A q \in Op : q # o => op'[q] = op[q]
      /\ gateway' = generation
      /\ UNCHANGED <<snapshotVars, publishVars, hostLock, timerVars, task, lock>>
  BY TypesSay DEF OpStarts, OpAt, OpGoes, OpRecord
<1>2. gateway = None /\ generation \in Generation
  BY <1>1, MovingHasGeneration DEF Moving, Inside, IInv, Owning, Owns, Detached
<1> QED BY <1>1, <1>2 DEF snapshotVars, Inside

LEMMA DrainsFrom ==
  ASSUME IInv, NEW o \in Op, Drains(o)
  PROVE  /\ UNCHANGED <<snapshotVars, gateway, narrated, shown, hostActive, hostIdentity, host>>
         /\ publication[o].stage = "idle" /\ gateway = None /\ op[o].pc \in Inside
         /\ \/ op[o].pc = "stopping" /\ op'[o].pc = "switching"
            \/ op[o].pc = "connecting" /\ op'[o].pc = "renewing"
         /\ op'[o].old = op[o].old /\ \A q \in Op : q # o => op'[q] = op[q]
         /\ \A q \in Op : publication'[q] = publication[q]
         /\ \A s \in Slot : publication'[s] = Quiescent
         /\ hostLock' = Kept(hostLock, {i \in DOMAIN hostLock : hostLock[i].by \notin Slot})
<1>a. op \in [Op -> OpRecord] /\ Op \subseteq Publisher /\ Slot \subseteq Publisher
      /\ Op \intersect Slot = {}
  BY TypesSay, NamesApart
<1>1. PICK from, to : /\ OpDrains(o, from, to)
                      /\ (from = "stopping" /\ to = "switching") \/ (from = "connecting" /\ to = "renewing")
  BY DEF Drains
<1>2. /\ op[o].pc = from /\ op'[o].pc = to /\ op'[o].old = op[o].old
      /\ \A q \in Op : q # o => op'[q] = op[q]
  BY <1>1, <1>a DEF OpDrains, OpAt, OpGoes, OpRecord
<1>3. gateway = None /\ op[o].pc \in Inside
  BY <1>1, <1>2 DEF IInv, Owning, Owns, Detached, Inside
<1>4. /\ UNCHANGED <<snapshotVars, gateway>> /\ publication[o].stage = "idle" /\ CancelCallbackTasks
  BY <1>1 DEF OpDrains, Published
<1> QED BY <1>a, <1>1, <1>2, <1>3, <1>4 DEF CancelCallbackTasks

LEMMA SwitchesFrom ==
  ASSUME IInv, Broadcasting, NEW o \in Op, NarrationSwitched(o)
  PROVE  /\ op[o].pc \in Inside /\ publication[o].stage = "narrating"
         /\ publication[o].snapshot = Snap /\ narrated' = generation /\ state # "live"
         /\ publication' = [publication EXCEPT ![o].stage = "asked"]
         /\ hostLock' = Append(hostLock, [by |-> o, call |-> "publish", snapshot |-> Snap])
         /\ UNCHANGED <<snapshotVars, gateway, op, shown, timerVars>>
<1>1. publication[o].stage = "narrating" /\ publication[o].snapshot = Snap
  BY DEF NarrationSwitched, Broadcasting
<1>2. publication[o].snapshot.generation = generation /\ publication[o].snapshot.state # "live"
  BY <1>1 DEF IInv, Hosting, Publications
<1>3. Snap.state = state
  BY DEF Snap
<1> QED BY <1>1, <1>2, <1>3, PublisherIsInside DEF NarrationSwitched, HostCall

LEMMA AppliesFrom ==
  ASSUME IInv, HostApplies
  PROVE  /\ hostLock' = Tail(hostLock) /\ hostLock # <<>> /\ Head(hostLock) \in Call
         /\ UNCHANGED <<snapshotVars, gateway, op, narrated>>
         /\ Calling(Head(hostLock), publication, task)
         /\ IF Head(hostLock).call = "publish"
            THEN /\ shown' = Head(hostLock).snapshot /\ Head(hostLock).by \in Publisher
                 /\ publication[Head(hostLock).by].stage = "asked"
                 /\ publication' = [publication EXCEPT ![Head(hostLock).by] = Quiescent]
            ELSE UNCHANGED <<shown, publication>>
<1>1. /\ hostLock # <<>> /\ Head(hostLock) \in Call /\ Calling(Head(hostLock), publication, task)
      /\ Head(hostLock).by \in Publisher \union {None}
  BY HostAppliesTask
<1>2. Head(hostLock).call = "publish" => /\ Head(hostLock).by \in Publisher
                                         /\ publication[Head(hostLock).by].stage = "asked"
  BY <1>1 DEF Calling, Publisher
<1> QED BY <1>1, <1>2 DEF HostApplies

LEMMA GatewayMoves ==
  ASSUME IInv, Transports, Broadcasting, [Next]_vars
  PROVE  \/ UNCHANGED <<generation, gateway>>
         \/ generation' = generation + 1 /\ gateway' = None
         \/ /\ UNCHANGED generation /\ gateway = None
            /\ gateway' \in Generation /\ gateway' < generation
         \/ /\ UNCHANGED generation /\ gateway = None /\ gateway' = generation
            /\ \E o \in Op : OpStarts(o)
<1> DEFINE G == \/ UNCHANGED <<generation, gateway>>
                \/ generation' = generation + 1 /\ gateway' = None
                \/ /\ UNCHANGED generation /\ gateway = None
                   /\ gateway' \in Generation /\ gateway' < generation
                \/ /\ UNCHANGED generation /\ gateway = None /\ gateway' = generation
                   /\ \E o \in Op : OpStarts(o)
<1>1. CASE Aside \/ HostApplies
  BY <1>1, AppliesFrom DEF Aside, snapshotVars
<1>2. ASSUME NEW s \in Slot, Resets(s) \/ Tells(s)
      PROVE  G
  BY <1>2 DEF Resets, Tells, snapshotVars
<1>3. ASSUME NEW o \in Op, Updates(o) \/ NarrationSwitched(o) \/ Drains(o)
      PROVE  G
  BY <1>3, DrainsFrom DEF Updates, NarrationSwitched, snapshotVars
<1>4. ASSUME NEW o \in Op, Readies(o)
      PROVE  G
  BY <1>4 DEF Readies
<1>5. ASSUME NEW o \in Op, OpTells(o)
      PROVE  G
  <2>1. CASE Detaches(o)
    BY <2>1 DEF Detaches
  <2>2. CASE Settles(o) /\ gateway' = None
    BY <2>2 DEF Settles
  <2>3. CASE Settles(o) /\ gateway' # None
    <3>1. gateway' = op[o].old /\ op[o].pc = "closing" /\ gateway = None /\ generation' = generation
      BY <2>3 DEF Settles
    <3>2. op[o].old \in Generation \union {None} /\ (op[o].old # None => op[o].old < generation)
      BY <3>1, TypesSay DEF OpRecord, Transports
    <3> QED BY <2>3, <3>1, <3>2
  <2> QED BY <1>5, <2>1, <2>2, <2>3 DEF OpTells
<1>6. ASSUME NEW o \in Op, OpStarts(o)
      PROVE  G
  BY <1>6, StartsFrom
<1> HIDE DEF G
<1>7. G
  BY <1>1, <1>2, <1>3, <1>4, <1>5, <1>6, StepKinds DEF Kinds, G
<1> QED BY <1>7 DEF G

(* A callback task comes from a thread.                                    *)
LEMMA TasksComeFromThreads ==
  ASSUME IInv, Transports, [Next]_vars, NEW s \in Slot, task'[s].pc # "none"
  PROVE  task'[s].gen \in Generation /\ thread[task'[s].gen] # "none"
<1>a. task[s].pc # "none" => task[s].gen \in Generation /\ thread[task[s].gen] # "none"
  BY DEF IInv, TypesToo, Transports
<1>b. task \in [Slot -> TaskRecord]
  BY TypesSay
<1>c. task'[s] = task[s] => task'[s].gen \in Generation /\ thread[task'[s].gen] # "none"
  BY <1>a
<1>1. ASSUME NEW t \in Slot, TaskStep(t)
      PROVE  task'[s].gen \in Generation /\ thread[task'[s].gen] # "none"
  <2>1. /\ t # s => task'[s] = task[s]
        /\ UNCHANGED task \/ TaskEnds(t) \/ Advances(t)
    BY <1>1, TaskStepMoves
  <2>2. task[t].pc # "none" \/ UNCHANGED task
    BY <1>1 DEF TaskStep, Discards, HandleStatus, HandleEvent, TaskPublished,
       EventBecomesMessage, HandleMessage, Submits, NarrationSwitched
  <2> QED BY <1>a, <1>c, <2>1, <2>2 DEF TaskEnds, Advances, Passing
<1>2. ASSUME NEW o \in Op, OpStep(o)
      PROVE  task'[s] = task[s]
  <2>1. ~Drains(o)
    <3>1. Drains(o) => task'[s] = NoTask
      BY DEF Drains, OpDrains, CancelCallbackTasks
    <3> QED BY <3>1 DEF NoTask
  <2> QED
    BY <1>2, <2>1 DEF OpStep, OpEnters, SceneSwitched, NarrationSwitched, Drains,
       OpCloses, OpClosed, OpAnnounces, OpStarts, OpCannotStart, OpReturns
<1>3. CASE HostCancels \/ HostUnwinds
  BY <1>3, <1>c DEF HostCancels, HostUnwinds
<1>4. CASE HostApplies
  <2> DEFINE c == Head(hostLock)
  <2>1. \/ UNCHANGED task
        \/ /\ c.by \in Slot /\ task[c.by].pc = "showing"
           /\ task' = [task EXCEPT ![c.by].pc = "submitting"]
    BY <1>4, HostAppliesTask DEF Call
  <2> HIDE DEF c
  <2>2. task'[s].gen = task[s].gen /\ (task[s].pc # "none" \/ task'[s] = task[s])
    BY <1>b, <2>1 DEF TaskRecord
  <2> QED BY <1>a, <1>c, <2>2
<1>5. ASSUME NEW g \in Generation, NEW t \in Slot, CreateTask(g, t)
      PROVE  task'[s].gen \in Generation /\ thread[task'[s].gen] # "none"
  <2>1. PICK callback \in Callbacks :
          /\ ThreadTells(g, callback)
          /\ task' = [task EXCEPT ![t] = [pc |-> "new", gen |-> g, kind |-> callback]]
    BY <1>5 DEF CreateTask
  <2>2. thread[g] # "none"
    BY <2>1, ThreadTelling
  <2>3. CASE s = t
    BY <1>b, <2>1, <2>2, <2>3
  <2>4. CASE s # t
    BY <1>b, <1>c, <2>1, <2>4
  <2> QED BY <2>3, <2>4
<1>6. ASSUME NEW o \in Op, NEW room, NEW expected, Send(o, room, expected)
      PROVE  task'[s] = task[s]
  BY <1>6 DEF Send
<1>7. UNCHANGED sessionVars \/ UNCHANGED vars => task'[s] = task[s]
  BY DEF sessionVars, vars
<1> QED
  BY <1>1, <1>2, <1>3, <1>4, <1>5, <1>6, <1>7, <1>c DEF Next, LoopStep

LEMMA TransportsKept ==
  ASSUME IInv, Transports, Broadcasting, [Next]_vars
  PROVE  Transports'
<1>a. /\ generation \in Nat /\ generation \in 0..MaxGeneration /\ MaxGeneration \in Nat
      /\ gateway \in Generation \union {None} /\ None \notin Nat /\ Generation \subseteq Nat
      /\ Generation = 1..MaxGeneration /\ op \in [Op -> OpRecord]
  BY TypesSay, NamesApart DEF Generation
<1>b. generation' \in 0..MaxGeneration /\ generation' >= generation
  BY <1>a, GatewayMoves, CountingKept
<1>1. ASSUME NEW g \in Generation, thread'[g] # "none"
      PROVE  g <= generation'
  <2>1. thread[g] # "none" \/ g = generation
    BY <1>1, ThreadsMove
  <2>2. g <= generation
    BY <1>a, <2>1 DEF Transports
  <2> QED BY <1>a, <1>b, <2>2
<1>2. ASSUME generation' \in Generation, gateway' # generation'
      PROVE  thread'[generation'] = "none"
  <2>1. \/ generation' = generation /\ thread[generation] = "none" /\ gateway # generation
        \/ generation' = generation + 1
    BY <1>2, <1>a, GatewayMoves DEF Transports
  <2>2. thread[generation'] = "none"
    BY <1>2, <1>a, <2>1 DEF Transports
  <2>3. ASSUME NEW o \in Op, OpStarts(o)
        PROVE  FALSE
    BY <1>2, <2>3, StartsFrom
  <2> QED BY <1>2, <2>2, <2>3, ThreadsMove
<1>3. gateway' # None => gateway' <= generation'
  BY <1>a, GatewayMoves DEF Transports
<1>4. \A g \in Generation : query'[g] = "asked" => thread'[g] = "up"
  BY ThreadsMove
<1>5. ASSUME NEW s \in Slot, task'[s].pc # "none"
      PROVE  thread'[task'[s].gen] # "none"
  <2> DEFINE g == task'[s].gen
  <2>1. g \in Generation /\ thread[g] # "none"
    BY <1>5, TasksComeFromThreads
  <2> HIDE DEF g
  <2>2. thread'[g] # "none"
    BY <2>1, ThreadsMove
  <2> QED BY <2>2 DEF g
<1>6. ASSUME NEW o \in Op, op'[o].pc \in {"stopping", "switching", "closing"}, op'[o].old # None
      PROVE  op'[o].old < generation'
  <2> DEFINE Same == op[o].pc \in {"stopping", "switching", "closing"} /\ op'[o].old = op[o].old
  <2>s. op'[o] = op[o] => Same
    BY <1>6
  <2>t. Steadily(o) => Same
    BY <1>6 DEF Steadily, Detached
  <2>1. CASE Same
    BY <1>6, <1>a, <1>b, <2>1 DEF Transports, OpRecord
  <2> HIDE DEF Same
  <2>2. ASSUME NEW q \in Op, OpTells(q)
        PROVE  Same \/ op'[o].old < generation'
    <3>1. CASE q # o
      BY <2>2, <2>s, <3>1 DEF OpTells, Acts
    <3>2. CASE q = o
      <4>1. Detaches(o)
        BY <1>6, <2>2, <3>2 DEF OpTells, Settles
      <4> QED BY <1>6, <1>a, <4>1 DEF Detaches, Transports
    <3> QED BY <3>1, <3>2
  <2>3. ASSUME NEW q \in Op, Readies(q)
        PROVE  Same
    BY <1>6, <2>3, <2>s DEF Readies, Acts
  <2>4. ASSUME NEW q \in Op, Drains(q)
        PROVE  Same
    <3>1. q # o => op'[o] = op[o]
      BY <2>4, DrainsFrom
    <3>2. q = o => Same
      BY <1>6, <2>4, DrainsFrom DEF Same
    <3> QED BY <3>1, <3>2, <2>s
  <2>5. ASSUME NEW q \in Op, OpStarts(q)
        PROVE  Same
    BY <1>6, <2>5, <2>s, StartsFrom
  <2>6. ASSUME NEW q \in Op, Updates(q) \/ NarrationSwitched(q)
        PROVE  Same
    BY <2>6, <2>s, <2>t DEF Updates, NarrationSwitched
  <2>7. ASSUME NEW s \in Slot, Resets(s) \/ Tells(s)
        PROVE  Same
    BY <2>7, <2>s DEF Resets, Tells
  <2>8. Aside \/ HostApplies => Same
    BY <2>s, <2>t DEF Aside, HostApplies
  <2> QED
    BY <2>1, <2>2, <2>3, <2>4, <2>5, <2>6, <2>7, <2>8, StepKinds DEF Kinds
<1> QED BY <1>1, <1>2, <1>3, <1>4, <1>5, <1>6 DEF Transports

LEMMA OpSays ==
  ASSUME IInv, Transports, Broadcasting, NEW o \in Op, OpTells(o)
  PROVE  /\ op[o].pc \in Inside /\ \A q \in Op : q # o => op'[q] = op[q]
         /\ UNCHANGED <<shown, timerVars>> /\ state' \notin Broadcasts /\ state' # "live"
         /\ \A p \in Publisher : p # o => publication'[p] = publication[p]
         /\ publication'[o].snapshot = Snap' /\ publication[o].stage = "idle"
         /\ \/ /\ narrated' = generation' /\ publication'[o].stage = "asked"
               /\ hostLock' = Append(hostLock, [by |-> o, call |-> "publish", snapshot |-> Snap'])
            \/ publication'[o].stage = "narrating" /\ UNCHANGED <<narrated, hostLock>>
         /\ gateway' # generation'
<1>a. publication \in [Publisher -> PublicationRecord] /\ o \in Publisher
      /\ generation \in Nat /\ None \notin Nat /\ gateway \in Generation \union {None}
  BY TypesSay, NamesApart
<1>1. /\ op[o].pc \in Inside /\ \A q \in Op : q # o => op'[q] = op[q]
      /\ UNCHANGED <<shown, timerVars>> /\ state' \notin Broadcasts /\ state' # "live"
      /\ publication[o].stage = "idle" /\ Publish(o, Snap')
  BY DEF OpTells, Acts, Broadcasts
<1>2. Snap'.generation = generation'
  BY DEF Snap
<1>3. \E stage \in {"asked", "narrating"} :
        /\ publication' = [publication EXCEPT ![o] = [stage |-> stage, snapshot |-> Snap']]
        /\ stage = "asked" => /\ narrated' = generation'
             /\ hostLock' = Append(hostLock, [by |-> o, call |-> "publish", snapshot |-> Snap'])
        /\ stage = "narrating" => UNCHANGED <<narrated, hostLock>>
  BY <1>1, <1>2 DEF Publish, HostCall
<1>4. gateway' # generation'
  <2>1. CASE Detaches(o)
    BY <1>a, <2>1 DEF Detaches
  <2>2. CASE Settles(o)
    <3>2. CASE gateway' = None
      BY <1>a, <2>2, <3>2 DEF Settles
    <3>3. CASE gateway' # None
      <4>1. gateway' = op[o].old /\ op[o].pc = "closing" /\ generation' = generation
        BY <2>2, <3>3 DEF Settles
      <4>2. op[o].old < generation /\ op[o].old \in Nat
        BY <3>3, <4>1, TypesSay, NamesApart DEF OpRecord, Transports
      <4> QED BY <1>a, <4>1, <4>2
    <3> QED BY <3>2, <3>3
  <2> QED BY <2>1, <2>2 DEF OpTells
<1> HIDE DEF Snap
<1>5. PICK stage \in {"asked", "narrating"} :
        /\ publication' = [publication EXCEPT ![o] = [stage |-> stage, snapshot |-> Snap']]
        /\ stage = "asked" => /\ narrated' = generation'
             /\ hostLock' = Append(hostLock, [by |-> o, call |-> "publish", snapshot |-> Snap'])
        /\ stage = "narrating" => UNCHANGED <<narrated, hostLock>>
  BY <1>3
<1>6. /\ \A p \in Publisher : p # o => publication'[p] = publication[p]
      /\ publication'[o].snapshot = Snap' /\ publication'[o].stage = stage
  BY <1>a, <1>5
<1> QED BY <1>1, <1>4, <1>5, <1>6

LEMMA BroadcastingKept ==
  ASSUME IInv, Transports, Broadcasting, [Next]_vars
  PROVE  Broadcasting'
<1>a. /\ publication \in [Publisher -> PublicationRecord] /\ op \in [Op -> OpRecord]
      /\ Op \subseteq Publisher /\ Slot \subseteq Publisher /\ Op \intersect Slot = {}
      /\ generation \in Nat /\ None \notin Nat /\ gateway \in Generation \union {None}
  BY TypesSay, NamesApart
<1> DEFINE B1 == state' \in Broadcasts => connected' /\ gateway' = generation'
           B2 == gateway' = generation' => narrated' = generation'
           B3 == \A o \in Op : op'[o].pc \in {"connecting", "renewing", "announcing"} => ~connected'
           B4 == \A s \in Slot : publication'[s].stage # "narrating"
           B5 == \A o \in Op : publication'[o].stage = "narrating" => publication'[o].snapshot = Snap'
           B == B1 /\ B2 /\ B3 /\ B4 /\ B5
<1>b. UNCHANGED snapshotVars => Snap' = Snap /\ UNCHANGED <<generation, state, connected>>
  BY DEF Snap, snapshotVars
<1>c. ASSUME UNCHANGED <<snapshotVars, gateway, publishVars>>, \A o \in Op : Steadily(o)
      PROVE  B
  <2>a. UNCHANGED <<gateway, narrated, publication>> /\ Snap' = Snap
        /\ UNCHANGED <<generation, state, connected>>
    BY <1>b, <1>c DEF publishVars
  <2>1. B1 /\ B2 /\ B4 /\ B5
    <3> HIDE DEF Snap
    <3> QED BY <2>a DEF Broadcasting
  <2>2. B3
    BY <1>b, <1>c DEF Broadcasting, Steadily, Detached
  <2> QED BY <2>1, <2>2
<1>d. UNCHANGED op => \A o \in Op : Steadily(o)
  BY DEF Steadily
<1>1. ASSUME Aside
      PROVE  B
  BY <1>1, <1>c DEF Aside
<1>2. ASSUME NEW o \in Op, Updates(o)
      PROVE  B
  BY <1>2, <1>c DEF Updates
<1>3. ASSUME NEW s \in Slot, Resets(s)
      PROVE  B
  BY <1>3, <1>c, <1>d DEF Resets
<1>4. ASSUME NEW s \in Slot, Tells(s)
      PROVE  B
  <2>1. \A o \in Op : op[o].pc \notin Inside /\ publication[o].stage = "idle"
    BY <1>4, HolderIsOutside DEF Tells
  <2>2. \A p \in Publisher : p # s => publication'[p] = publication[p]
    BY <1>4, <1>a DEF Tells
  <2>3. publication'[s].stage = "asked"
    BY <1>4, <1>a DEF Tells
  <2>4. B4 /\ B5
    BY <1>a, <2>1, <2>2, <2>3 DEF Broadcasting
  <2>5. B1 /\ B2 /\ B3
    BY <1>4, <2>1 DEF Tells, Inside
  <2> QED BY <2>4, <2>5
<1>5. ASSUME NEW o \in Op, OpTells(o)
      PROVE  B
  <2>1. /\ op[o].pc \in Inside /\ \A q \in Op : q # o => op'[q] = op[q]
        /\ state' \notin Broadcasts /\ gateway' # generation'
        /\ \A p \in Publisher : p # o => publication'[p] = publication[p]
        /\ publication'[o].snapshot = Snap'
    BY <1>5, OpSays
  <2>2. \A q \in Op : q # o => op[q].pc \notin Inside /\ publication[q].stage = "idle"
    BY <2>1, ActorIsAlone
  <2>3. op'[o].pc \in {"connecting", "renewing", "announcing"} => ~connected'
    BY <1>5 DEF OpTells, Detaches, Settles
  <2>4. B1 /\ B2
    BY <2>1
  <2>5. B3
    BY <2>1, <2>2, <2>3 DEF Inside
  <2>6. B4 /\ B5
    <3> HIDE DEF Snap
    <3> QED BY <1>a, <2>1, <2>2 DEF Broadcasting
  <2> QED BY <2>4, <2>5, <2>6
<1>6. ASSUME NEW o \in Op, Readies(o)
      PROVE  B
  <2>1. /\ op[o].pc \in Inside /\ \A q \in Op : q # o => op'[q] = op[q]
        /\ state' \notin Broadcasts /\ gateway' = None /\ generation' \in Nat /\ ~connected'
        /\ publication' = publication /\ op[o].pc \in {"scene", "closing"}
    BY <1>6, <1>a DEF Readies, Acts, Broadcasts, publishVars
  <2>2. \A q \in Op : publication[q].stage = "idle"
    BY <2>1, ActorIsAlone, PublisherIsInside
  <2>3. B1 /\ B2 /\ B3
    BY <1>a, <2>1
  <2>4. B4 /\ B5
    BY <2>1, <2>2 DEF Broadcasting
  <2> QED BY <2>3, <2>4
<1>7. ASSUME NEW o \in Op, NarrationSwitched(o)
      PROVE  B
  <2>1. /\ op[o].pc \in Inside /\ narrated' = generation
        /\ publication' = [publication EXCEPT ![o].stage = "asked"]
        /\ UNCHANGED <<snapshotVars, gateway, op>>
    BY <1>7, SwitchesFrom
  <2>2. Snap' = Snap /\ UNCHANGED <<generation, state, connected>>
    BY <1>b, <2>1
  <2>3. B1 /\ B2 /\ B3
    BY <2>1, <2>2 DEF Broadcasting
  <2>4. \A p \in Publisher : publication'[p] = publication[p] \/ publication'[p].stage = "asked"
    BY <1>a, <2>1 DEF PublicationRecord
  <2>5. B4 /\ B5
    BY <1>a, <2>2, <2>4 DEF Broadcasting
  <2> QED BY <2>3, <2>5
<1>8. ASSUME NEW o \in Op, Drains(o)
      PROVE  B
  <2>1. /\ UNCHANGED <<snapshotVars, gateway, narrated>>
        /\ publication[o].stage = "idle" /\ op[o].pc \in Inside
        /\ \/ op[o].pc = "stopping" /\ op'[o].pc = "switching"
           \/ op[o].pc = "connecting" /\ op'[o].pc = "renewing"
        /\ \A q \in Op : q # o => op'[q] = op[q]
        /\ \A q \in Op : publication'[q] = publication[q]
        /\ \A s \in Slot : publication'[s] = Quiescent
    BY <1>8, DrainsFrom
  <2>2. Snap' = Snap /\ UNCHANGED <<generation, state, connected>>
    BY <1>b, <2>1
  <2>3. B1 /\ B2
    BY <2>1, <2>2 DEF Broadcasting
  <2>4. B3
    BY <2>1, <2>2 DEF Broadcasting
  <2>5. B4 /\ B5
    BY <2>1, <2>2 DEF Broadcasting, Quiescent
  <2> QED BY <2>3, <2>4, <2>5
<1>9. ASSUME NEW o \in Op, OpStarts(o), OpStep(o)
      PROVE  B
  <2>1. /\ gateway = None /\ gateway' = generation /\ generation' = generation
        /\ UNCHANGED <<snapshotVars, publishVars>>
        /\ op[o].pc = "announcing" /\ op[o].pc \in Inside /\ op'[o].pc = "starting"
        /\ \A q \in Op : q # o => op'[q] = op[q]
    BY <1>9, StartsFrom
  <2>2. state = "connecting" /\ narrated' = generation'
    <3>1. state = "connecting"
      BY <2>1 DEF IInv, Owning, Owns
    <3>2. Announced'
      BY IInvKept DEF IInv
    <3> QED BY <2>1, <3>1, <3>2 DEF Announced
  <2>3. Snap' = Snap /\ UNCHANGED <<generation, state, connected>>
    BY <1>b, <2>1
  <2>4. B1 /\ B2 /\ B4 /\ B5
    BY <2>1, <2>2, <2>3 DEF Broadcasting, Broadcasts, publishVars
  <2>5. B3
    BY <2>1, <2>3 DEF Broadcasting
  <2> QED BY <2>4, <2>5
<1>10. ASSUME HostApplies
       PROVE  B
  <2> DEFINE p == Head(hostLock).by
  <2>1. /\ UNCHANGED <<snapshotVars, gateway, op, narrated>>
        /\ UNCHANGED publication \/ publication' = [publication EXCEPT ![p] = Quiescent]
    BY <1>10, AppliesFrom
  <2> HIDE DEF p
  <2>2. Snap' = Snap /\ UNCHANGED <<generation, state, connected>>
    BY <1>b, <2>1
  <2>3. \A q \in Publisher : publication'[q] = publication[q] \/ publication'[q].stage = "idle"
    BY <1>a, <2>1 DEF Quiescent
  <2>4. B1 /\ B2 /\ B3
    BY <2>1, <2>2 DEF Broadcasting
  <2>5. B4 /\ B5
    BY <1>a, <2>2, <2>3 DEF Broadcasting
  <2> QED BY <2>4, <2>5
<1>11. \A o \in Op : OpStarts(o) => OpStep(o)
  BY DEF OpStep
<1>12. B
  <2> HIDE DEF B
  <2> QED BY <1>1, <1>2, <1>3, <1>4, <1>5, <1>6, <1>7, <1>8, <1>9, <1>10, <1>11, StepKinds DEF Kinds
<1> QED
  BY <1>12 DEF Broadcasting

-----------------------------------------------------------------------------
(* The connection: what the last status in line will say, or what the last *)
(* one handled said, is how the thread of the gateway is.                  *)
IsUp == thread[generation] = "up"
StatusTasks ==
  {s \in Slot : task[s].pc = "new" /\ task[s].gen = generation /\ task[s].kind \in Statuses}
TrueTasks == {s \in Slot : task[s].kind = "up" <=> IsUp}
ConnectionIsTold == LastWord(lock, StatusTasks, TrueTasks, connected <=> IsUp)
Told == gateway = generation => ConnectionIsTold

LEMMA LineAgrees ==
  ASSUME IInv, ConnectionIsTold, UNCHANGED <<lock, connected>>, IsUp' <=> IsUp,
         \A s \in Slot : InLine(s) => (s \in StatusTasks <=> s \in StatusTasks')
                                      /\ task'[s].kind = task[s].kind
  PROVE  ConnectionIsTold'
<1>1. /\ \A i \in DOMAIN lock : lock[i] \in StatusTasks <=> lock[i] \in StatusTasks'
      /\ \A i \in DOMAIN lock : lock[i] \in StatusTasks /\ lock[i] \in TrueTasks
           => lock[i] \in TrueTasks'
  <2> SUFFICES ASSUME NEW i \in DOMAIN lock
               PROVE  /\ lock[i] \in StatusTasks <=> lock[i] \in StatusTasks'
                      /\ lock[i] \in StatusTasks /\ lock[i] \in TrueTasks => lock[i] \in TrueTasks'
    OBVIOUS
  <2>1. CASE lock[i] \in Slot
    BY <2>1 DEF InLine, TrueTasks
  <2>2. CASE lock[i] \notin Slot
    BY <2>2 DEF StatusTasks
  <2> QED BY <2>1, <2>2
<1>2. LastWord(lock, StatusTasks', TrueTasks', connected' <=> IsUp')
  BY <1>1, WordAgrees DEF ConnectionIsTold
<1> QED BY <1>2 DEF ConnectionIsTold

LEMMA LineLeads ==
  ASSUME IInv, ConnectionIsTold, NEW p \in Publisher, Holds(p), p \notin StatusTasks,
         lock' = Tail(lock), UNCHANGED <<connected, generation>>, IsUp' <=> IsUp,
         \A s \in Slot : s # p => task'[s] = task[s]
  PROVE  ConnectionIsTold'
<1>1. lock # <<>> /\ Head(lock) = p /\ lock \in Seq(Publisher) /\ IsInjective(lock)
  BY HolderIsFirst, TypesSay
<1>2. LastWord(Tail(lock), StatusTasks, TrueTasks, connected <=> IsUp)
  BY <1>1, WordLeads DEF ConnectionIsTold
<1>3. \A i \in DOMAIN Tail(lock) : Tail(lock)[i] # p
  BY <1>1, LeadingInjective
<1>4. /\ \A i \in DOMAIN Tail(lock) : Tail(lock)[i] \in StatusTasks <=> Tail(lock)[i] \in StatusTasks'
      /\ \A i \in DOMAIN Tail(lock) : Tail(lock)[i] \in StatusTasks /\ Tail(lock)[i] \in TrueTasks
           => Tail(lock)[i] \in TrueTasks'
  <2>1. \A s \in Slot : s # p => (s \in StatusTasks <=> s \in StatusTasks')
                                 /\ (s \in TrueTasks <=> s \in TrueTasks')
    BY DEF StatusTasks, TrueTasks
  <2>2. StatusTasks \subseteq Slot /\ StatusTasks' \subseteq Slot /\ TrueTasks \subseteq Slot
    BY DEF StatusTasks, TrueTasks
  <2> QED BY <1>3, <2>1, <2>2
<1>5. LastWord(Tail(lock), StatusTasks', TrueTasks', connected' <=> IsUp')
  BY <1>2, <1>4, WordAgrees
<1> QED BY <1>5 DEF ConnectionIsTold

LEMMA LineJoins ==
  ASSUME IInv, ConnectionIsTold, NEW p \in Publisher, ~InLine(p), lock' = Append(lock, p),
         UNCHANGED <<connected, generation>>,
         \A s \in Slot : s # p => task'[s] = task[s],
         p \in StatusTasks' => p \in TrueTasks',
         p \notin StatusTasks' => (IsUp' <=> IsUp)
  PROVE  ConnectionIsTold'
<1>1. lock \in Seq(Publisher) /\ \A i \in DOMAIN lock : lock[i] # p
  BY TypesSay DEF InLine
<1>2. CASE p \in StatusTasks'
  <2>1. LastWord(Append(lock, p), StatusTasks', TrueTasks', connected' <=> IsUp')
    BY <1>1, <1>2, WordJoins
  <2> QED BY <2>1 DEF ConnectionIsTold
<1>3. CASE p \notin StatusTasks'
  <2>1. \A s \in Slot : s # p => (s \in StatusTasks <=> s \in StatusTasks')
                                 /\ (s \in TrueTasks <=> s \in TrueTasks')
    BY <1>3 DEF StatusTasks, TrueTasks
  <2>2. StatusTasks \subseteq Slot /\ StatusTasks' \subseteq Slot /\ TrueTasks \subseteq Slot
    BY DEF StatusTasks, TrueTasks
  <2>3. /\ \A i \in DOMAIN lock : lock[i] \in StatusTasks <=> lock[i] \in StatusTasks'
        /\ \A i \in DOMAIN lock : lock[i] \in StatusTasks /\ lock[i] \in TrueTasks
             => lock[i] \in TrueTasks'
    BY <1>1, <2>1, <2>2
  <2>4. LastWord(lock, StatusTasks', TrueTasks', connected' <=> IsUp')
    BY <1>3, <2>3, WordAgrees DEF ConnectionIsTold
  <2>5. LastWord(Append(lock, p), StatusTasks', TrueTasks', connected' <=> IsUp')
    BY <1>1, <1>3, <2>4, WordJoins
  <2> QED BY <2>5 DEF ConnectionIsTold
<1> QED BY <1>2, <1>3

LEMMA TaskTold ==
  ASSUME IInv, Transports, Broadcasting, ConnectionIsTold, gateway = generation,
         UNCHANGED generation, NEW s \in Slot, TaskStep(s)
  PROVE  ConnectionIsTold'
<1>a. /\ task \in [Slot -> TaskRecord] /\ s \in Publisher /\ gateway # None
      /\ lock \in Seq(Publisher) /\ IsInjective(lock)
      /\ \A t \in Slot : t # s => task'[t] = task[t]
  BY TypesSay, NamesApart, TaskStepMoves
<1>b. UNCHANGED serviceVars
  BY DEF TaskStep, Discards, HandleStatus, HandleEvent, TaskPublished,
     EventBecomesMessage, HandleMessage, Submits, NarrationSwitched
<1>c. IsUp' <=> IsUp
  BY <1>b DEF IsUp, serviceVars
<1>1. CASE Discards(s)
  <2>1. s \notin StatusTasks /\ Holds(s) /\ lock' = Tail(lock) /\ UNCHANGED connected
    BY <1>1, <1>a DEF Discards, Current, Release, StatusTasks, snapshotVars
  <2> QED BY <1>a, <1>c, <2>1, LineLeads
<1>2. CASE HandleStatus(s)
  <2>1. /\ lock # <<>> /\ Head(lock) = s /\ 1 \in DOMAIN lock /\ lock[1] = s
        /\ \A i \in DOMAIN lock : lock[i] = s => i = 1
    BY <1>2, <1>a, HolderIsFirst DEF HandleStatus
  <2>2. /\ task[s].pc = "new" /\ task[s].gen = generation
        /\ task[s].kind \in Statuses /\ connected' = (task[s].kind = "up")
        /\ UNCHANGED lock /\ task'[s].pc = "publishing"
    <3>1. /\ task[s].pc = "new" /\ task[s].gen = generation /\ UNCHANGED lock
          /\ task' = [task EXCEPT ![s].pc = "publishing"]
      BY <1>2 DEF HandleStatus, Current, Goes
    <3>2. task[s].kind \in Statuses /\ connected' = (task[s].kind = "up")
      BY <1>2 DEF HandleStatus, Transition, Statuses
    <3>3. task'[s].pc = "publishing"
      BY <1>a, <3>1 DEF TaskRecord
    <3> QED BY <3>1, <3>2, <3>3
  <2>3. s \in StatusTasks /\ s \notin StatusTasks'
    BY <2>2 DEF StatusTasks
  <2>4. s \in TrueTasks => (connected' <=> IsUp')
    BY <1>c, <2>2 DEF TrueTasks
  <2>5. \A t \in Slot : t # s => (t \in StatusTasks <=> t \in StatusTasks')
                                 /\ (t \in TrueTasks <=> t \in TrueTasks')
    BY <1>a, <1>c DEF StatusTasks, TrueTasks
  <2>6. StatusTasks \subseteq Slot /\ StatusTasks' \subseteq Slot /\ TrueTasks \subseteq Slot
    BY DEF StatusTasks, TrueTasks
  <2>7. /\ \A i \in DOMAIN lock : i # 1 => (lock[i] \in StatusTasks <=> lock[i] \in StatusTasks')
        /\ \A i \in DOMAIN lock : i # 1 /\ lock[i] \in StatusTasks /\ lock[i] \in TrueTasks
             => lock[i] \in TrueTasks'
    BY <2>1, <2>5, <2>6
  <2>8. LastWord(lock, StatusTasks', TrueTasks', connected' <=> IsUp')
    <3>1. /\ Head(lock) \notin StatusTasks' /\ Head(lock) \in StatusTasks
          /\ Head(lock) \in TrueTasks => (connected' <=> IsUp')
      BY <2>1, <2>3, <2>4
    <3>2. LastWord(lock, StatusTasks, TrueTasks, connected <=> IsUp)
      BY DEF ConnectionIsTold
    <3> QED BY <1>a, <2>1, <2>7, <3>1, <3>2, WordSpoken
  <2> QED BY <2>2, <2>8 DEF ConnectionIsTold
<1>3. CASE HandleEvent(s)
  <2>1. s \notin StatusTasks /\ Holds(s) /\ lock' = Tail(lock)
    BY <1>3 DEF HandleEvent, Release, StatusTasks, Statuses, Broadcasts
  <2>2. UNCHANGED connected
    BY <1>3 DEF HandleEvent, Transition, snapshotVars
  <2> QED BY <1>a, <1>c, <2>1, <2>2, LineLeads
<1>4. CASE TaskPublished(s)
  <2>1. s \notin StatusTasks /\ UNCHANGED connected /\ task[s].pc = "publishing"
        /\ task'[s].pc = "none"
    BY <1>4, <1>a DEF TaskPublished, StatusTasks, snapshotVars, Ends, NoTask
  <2>2. CASE s \in ToSet(lock)
    <3>1. lock' = Tail(lock) /\ Holds(s)
      <4>1. InLine(s)
        BY <2>2 DEF ToSet, InLine
      <4> QED BY <1>4, <1>a, <2>1, <2>2, <4>1, InLineSays DEF TaskPublished, Release
    <3> QED BY <1>a, <1>c, <2>1, <3>1, LineLeads
  <2>3. CASE s \notin ToSet(lock)
    <3>1. UNCHANGED lock
      BY <1>4, <2>3 DEF TaskPublished
    <3>2. \A t \in Slot : InLine(t) => t # s
      BY <2>3 DEF ToSet, InLine
    <3>3. \A t \in Slot : InLine(t) => (t \in StatusTasks <=> t \in StatusTasks')
                                       /\ task'[t].kind = task[t].kind
      BY <1>a, <3>2 DEF StatusTasks
    <3> QED BY <1>c, <2>1, <3>1, <3>3, LineAgrees
  <2> QED BY <2>2, <2>3
<1>5. CASE EventBecomesMessage(s)
  <2>0. UNCHANGED connected
    BY <1>5 DEF EventBecomesMessage, snapshotVars
  <2>1. CASE Holds(s) /\ task[s].pc = "new" /\ task[s].kind = "message" /\ Release
    <3>1. s \notin StatusTasks /\ lock' = Tail(lock)
      BY <2>1 DEF StatusTasks, Statuses, Release
    <3> QED BY <1>a, <1>c, <2>0, <2>1, <3>1, LineLeads
  <2>2. CASE task[s].pc = "sinking" /\ lock' = Append(lock, s) /\ Goes(s, "again")
    <3>1. ~InLine(s)
      BY <2>2, NotInLine
    <3>2. s \notin StatusTasks'
      BY <1>a, <2>2 DEF StatusTasks, Goes, TaskRecord
    <3> QED BY <1>a, <1>c, <2>0, <2>2, <3>1, <3>2, LineJoins
  <2> QED BY <1>5, <2>1, <2>2 DEF EventBecomesMessage
<1>6. CASE HandleMessage(s)
  <2>1. s \notin StatusTasks /\ Holds(s) /\ lock' = Tail(lock) /\ UNCHANGED connected
    BY <1>6 DEF HandleMessage, Release, StatusTasks, snapshotVars
  <2> QED BY <1>a, <1>c, <2>1, LineLeads
<1>7. CASE Submits(s) \/ NarrationSwitched(s)
  <2>1. UNCHANGED <<lock, connected>>
    BY <1>7 DEF Submits, NarrationSwitched, snapshotVars
  <2>2. task' = task \/ ~InLine(s)
    BY <1>7, NotInLine DEF Submits, NarrationSwitched
  <2>3. \A t \in Slot : InLine(t) => (t \in StatusTasks <=> t \in StatusTasks')
                                     /\ task'[t].kind = task[t].kind
    BY <1>a, <2>2 DEF StatusTasks
  <2> QED BY <1>c, <2>1, <2>3, LineAgrees
<1> QED
  BY <1>1, <1>2, <1>3, <1>4, <1>5, <1>6, <1>7, TaskStep(s) DEF TaskStep

LEMMA OpTold ==
  ASSUME IInv, Transports, Broadcasting, ConnectionIsTold, gateway = generation,
         UNCHANGED <<generation, gateway>>, NEW o \in Op, OpStep(o)
  PROVE  ConnectionIsTold'
<1>a. /\ gateway # None /\ o \in Publisher /\ o \notin Slot /\ Holds(o)
      /\ None \notin Nat /\ generation \in Nat
  BY TypesSay, NamesApart, ActorHolds
<1>b. op[o].pc \notin Detached
  BY <1>a DEF IInv, Owning, Owns
<1>c. o \notin StatusTasks
  BY <1>a DEF StatusTasks
<1>1. ASSUME UNCHANGED <<serviceVars, snapshotVars, task>>, UNCHANGED lock \/ Release
      PROVE  ConnectionIsTold'
  <2>1. (IsUp' <=> IsUp) /\ UNCHANGED connected
    BY <1>1 DEF IsUp, serviceVars, snapshotVars
  <2>2. CASE Release
    BY <1>1, <1>a, <1>c, <2>1, <2>2, LineLeads DEF Release
  <2>3. CASE UNCHANGED lock
    BY <1>1, <2>1, <2>3, LineAgrees DEF StatusTasks
  <2> QED BY <1>1, <2>2, <2>3
<1>2. CASE OpEnters(o)
  BY <1>1, <1>2 DEF OpEnters
<1>3. CASE NarrationSwitched(o)
  BY <1>1, <1>3 DEF NarrationSwitched
<1>4. CASE OpReturns(o)
  BY <1>1, <1>4 DEF OpReturns
<1>5. ~SceneSwitched(o)
  BY <1>a DEF SceneSwitched
<1>6. /\ ~OpDrains(o, "stopping", "switching") /\ ~OpDrains(o, "connecting", "renewing")
      /\ ~OpCloses(o) /\ \A failed \in BOOLEAN : ~OpClosed(o, failed)
      /\ ~OpAnnounces(o) /\ ~OpStarts(o) /\ ~OpCannotStart(o)
  BY <1>b DEF OpDrains, OpCloses, OpClosed, OpAnnounces, OpStarts, OpCannotStart, OpAt, Detached
<1> QED
  BY <1>2, <1>3, <1>4, <1>5, <1>6, OpStep(o) DEF OpStep

LEMMA StartTold ==
  ASSUME IInv, Transports, Broadcasting, NEW o \in Op, OpStarts(o)
  PROVE  ConnectionIsTold'
<1>1. /\ gateway = None /\ generation' = generation /\ generation \in Generation
      /\ op[o].pc = "announcing" /\ UNCHANGED <<task, lock, snapshotVars>>
  BY StartsFrom
<1>2. ~connected' /\ thread[generation] = "none"
  BY <1>1, NamesApart DEF Broadcasting, Transports, snapshotVars
<1>3. thread'[generation'] = "connecting"
  BY <1>1, TypesSay DEF OpStarts, StartThread, ServiceTypeOK
<1>4. StatusTasks' = {}
  BY <1>1, <1>2 DEF StatusTasks, Transports
<1>5. NoneIn(lock', StatusTasks') /\ (connected' <=> IsUp')
  BY <1>2, <1>3, <1>4 DEF NoneIn, IsUp
<1>6. LastWord(lock', StatusTasks', TrueTasks', connected' <=> IsUp')
  BY <1>5 DEF LastWord
<1> QED BY <1>6 DEF ConnectionIsTold

LEMMA CreateTold ==
  ASSUME IInv, Transports, ConnectionIsTold, gateway = generation,
         NEW g \in Generation, NEW s \in Slot, CreateTask(g, s)
  PROVE  ConnectionIsTold'
<1>a. task \in [Slot -> TaskRecord] /\ s \in Publisher /\ generation \in Generation
  BY TypesSay, NamesApart
<1>1. PICK callback \in Callbacks :
        /\ ThreadTells(g, callback)
        /\ task' = [task EXCEPT ![s] = [pc |-> "new", gen |-> g, kind |-> callback]]
  BY DEF CreateTask
<1>2. /\ task[s].pc = "none" /\ lock' = Append(lock, s) /\ UNCHANGED <<connected, generation>>
  BY DEF CreateTask, snapshotVars
<1>3. ~InLine(s)
  BY <1>2, NotInLine
<1>4. /\ \A t \in Slot : t # s => task'[t] = task[t]
      /\ task'[s] = [pc |-> "new", gen |-> g, kind |-> callback]
  BY <1>a, <1>1
<1>5. /\ \A h \in Generation : h # g => thread'[h] = thread[h]
      /\ callback = "up" => thread'[g] = "up"
      /\ callback \in {"down", "fatal"} => thread'[g] # "up"
      /\ callback \notin Statuses => thread' = thread
  BY <1>1, ThreadTelling
<1>6. s \in StatusTasks' <=> g = generation /\ callback \in Statuses
  BY <1>2, <1>4 DEF StatusTasks
<1>7. s \in StatusTasks' => s \in TrueTasks'
  BY <1>2, <1>4, <1>5, <1>6 DEF TrueTasks, IsUp, Statuses
<1>8. s \notin StatusTasks' => (IsUp' <=> IsUp)
  BY <1>a, <1>2, <1>5, <1>6 DEF IsUp
<1> QED BY <1>a, <1>2, <1>3, <1>4, <1>7, <1>8, LineJoins

LEMMA ElseTold ==
  ASSUME IInv, ConnectionIsTold, generation \in Generation, UNCHANGED <<connected, generation>>,
         \/ HostCancels \/ HostUnwinds \/ HostApplies
         \/ \E o \in Op, room \in Room \union {None}, expected \in {None, shown.generation} :
              Send(o, room, expected)
         \/ \E g \in Generation : ThreadWorks(g) /\ UNCHANGED sessionVars
         \/ UNCHANGED vars
  PROVE  ConnectionIsTold'
<1>a. /\ task \in [Slot -> TaskRecord] /\ Op \subseteq Publisher /\ Op \intersect Slot = {}
      /\ thread \in [Generation -> {"none", "connecting", "up", "leaving", "backoff", "gone"}]
  BY TypesSay, NamesApart DEF ServiceTypeOK
<1>b. ASSUME UNCHANGED <<lock, task>>, IsUp' <=> IsUp
      PROVE  ConnectionIsTold'
  BY <1>b, LineAgrees DEF StatusTasks
<1>c. UNCHANGED serviceVars => (IsUp' <=> IsUp)
  BY DEF IsUp, serviceVars
<1>1. CASE HostCancels \/ HostUnwinds
  BY <1>1, <1>b, <1>c DEF HostCancels, HostUnwinds
<1>2. CASE HostApplies
  <2>1. UNCHANGED <<lock, serviceVars>>
    BY <1>2 DEF HostApplies
  <2> DEFINE c == Head(hostLock)
  <2>2. \/ UNCHANGED task
        \/ /\ c.by \in Slot /\ task[c.by].pc = "showing"
           /\ task' = [task EXCEPT ![c.by].pc = "submitting"]
    BY <1>2, HostAppliesTask DEF Call
  <2> HIDE DEF c
  <2>3. \A s \in Slot : task'[s] = task[s] \/ ~InLine(s)
    BY <1>a, <2>2, NotInLine
  <2>4. \A s \in Slot : InLine(s) => (s \in StatusTasks <=> s \in StatusTasks')
                                     /\ task'[s].kind = task[s].kind
    BY <2>3 DEF StatusTasks
  <2> QED BY <1>c, <2>1, <2>4, LineAgrees
<1>3. ASSUME NEW o \in Op, NEW room \in Room \union {None}, NEW expected, Send(o, room, expected)
      PROVE  ConnectionIsTold'
  <2>1. /\ op[o].pc = "unsent" /\ lock' = Append(lock, o) /\ UNCHANGED <<task, serviceVars>>
    BY <1>3 DEF Send
  <2>2. ~InLine(o)
    BY <2>1, NotInLine DEF Inside
  <2>3. o \notin StatusTasks'
    BY <1>a DEF StatusTasks
  <2> QED BY <1>a, <1>c, <2>1, <2>2, <2>3, LineJoins
<1>4. ASSUME NEW g \in Generation, ThreadWorks(g), UNCHANGED sessionVars
      PROVE  ConnectionIsTold'
  <2>1. UNCHANGED <<lock, task>>
    BY <1>4 DEF sessionVars
  <2>2. IsUp' <=> IsUp
    BY <1>4, <1>a DEF ThreadWorks, QueryFails, Forget, CannotConnect, Closes, Exits, BackoffEnds,
       AnswerIsDropped, IsUp
  <2> QED BY <1>b, <2>1, <2>2
<1>5. CASE UNCHANGED vars
  BY <1>5, <1>b, <1>c DEF vars
<1> QED BY <1>1, <1>2, <1>3, <1>4, <1>5

LEMMA ToldKept ==
  ASSUME IInv, Transports, Broadcasting, Told, [Next]_vars
  PROVE  Told'
<1> SUFFICES ASSUME gateway' = generation'
             PROVE  ConnectionIsTold'
  BY DEF Told
<1>a. /\ generation \in Nat /\ gateway \in Generation \union {None} /\ None \notin Nat
      /\ Generation \subseteq Nat
  BY TypesSay, NamesApart
<1>1. UNCHANGED <<generation, gateway>> \/ \E o \in Op : OpStarts(o)
  BY <1>a, GatewayMoves
<1>2. CASE UNCHANGED <<generation, gateway>>
  <2>1. ConnectionIsTold /\ gateway = generation /\ generation \in Generation
    BY <1>2, <1>a DEF Told
  <2>2. ASSUME NEW s \in Slot, TaskStep(s)
        PROVE  ConnectionIsTold'
    BY <1>2, <2>1, <2>2, TaskTold
  <2>3. ASSUME NEW o \in Op, OpStep(o)
        PROVE  ConnectionIsTold'
    BY <1>2, <2>1, <2>3, OpTold
  <2>4. ASSUME NEW g \in Generation, NEW s \in Slot, CreateTask(g, s)
        PROVE  ConnectionIsTold'
    BY <2>1, <2>4, CreateTold
  <2>5. ASSUME \/ HostCancels \/ HostUnwinds \/ HostApplies
               \/ \E o \in Op, room \in Room \union {None}, expected \in {None, shown.generation} :
                    Send(o, room, expected)
               \/ \E g \in Generation : ThreadWorks(g) /\ UNCHANGED sessionVars
               \/ UNCHANGED vars
        PROVE  ConnectionIsTold'
    <3>1. UNCHANGED connected
      BY <2>5 DEF HostCancels, HostUnwinds, HostApplies, Send, sessionVars, vars, snapshotVars
    <3> QED BY <1>2, <2>1, <2>5, <3>1, ElseTold
  <2> QED BY <2>2, <2>3, <2>4, <2>5 DEF Next, LoopStep
<1>3. ASSUME NEW o \in Op, OpStarts(o)
      PROVE  ConnectionIsTold'
  BY <1>3, StartTold
<1> QED BY <1>1, <1>2, <1>3

-----------------------------------------------------------------------------
(* The calls that wait for the host, and what they will leave behind.      *)
Publishing == {c \in Call : c.call = "publish"}
Speaking == {c \in Call : c.call # "activity"}
By(p) == {c \in Call : c.by = p}
BySlots == {c \in Speaking : c.by \in Slot}
SaysSnap == {c \in Call : c.snapshot = Snap}
SaysLive == {c \in Call : c.snapshot.state = "live" <=> state = "live"}

Late == \E o \in Op : publication[o].stage = "narrating"
Readying == \E o \in Op : op[o].pc \in {"connecting", "renewing"}
Stopping == \E o \in Op : op[o].pc = "stopping"

(* The clients were told what is true now, or will be: by the last call    *)
(* that publishes, or by the command that did not publish yet.             *)
ShownIsTold == LastWord(hostLock, Publishing, SaysSnap, shown = Snap)
Showing == Late \/ Readying \/ ShownIsTold

(* Nothing is said after a command, until it goes on.                      *)
Answering ==
  \A o \in Op :
    /\ publication[o].stage = "asked" => LastWord(hostLock, Speaking, By(o), FALSE)
    /\ op[o].pc = "stopping" /\ publication[o].stage = "idle" => NoneIn(hostLock, Speaking)
SlotsAreSilent == gateway # generation /\ ~Stopping => NoneIn(hostLock, BySlots)

(* The host is told whether the room is live.                              *)
LiveIsTold == LastWord(hostLock, Speaking, SaysLive, hostActive <=> state = "live")
Following == Late \/ LiveIsTold

(* The host is live for the gateway there is, or for the one that is being *)
(* replaced: never for two.                                                *)
Speaker(g) ==
  /\ g \in Generation
  /\ \/ gateway = g /\ gateway = generation
     \/ \E o \in Op : op[o].pc = "stopping" /\ op[o].old = g
Voices ==
  /\ hostActive => Speaker(hostIdentity)
  /\ \A i \in DOMAIN hostLock : IsLive(hostLock[i]) => Speaker(hostLock[i].snapshot.generation)

(* The timer is missing only while a call is about to arm it again.        *)
Timing ==
  /\ hostActive /\ host = "none" => hostLock # <<>> /\ Cancels(Head(hostLock))
  /\ ~hostActive => host = "none"

Telling == Showing /\ Answering /\ SlotsAreSilent /\ Following /\ Voices /\ Timing
SInv == IInv /\ Transports /\ Broadcasting /\ Told /\ Telling

LEMMA OneSpeaker ==
  ASSUME IInv, NEW g, NEW h, Speaker(g), Speaker(h)
  PROVE  g = h
<1>1. \A o \in Op : op[o].pc = "stopping" =>
        gateway = None /\ \A q \in Op : op[q].pc = "stopping" => q = o
  BY OneInside DEF IInv, Owning, Owns, Detached, Inside
<1> QED BY <1>1, NamesApart DEF Speaker

LEMMA NoSpeaker ==
  ASSUME IInv, gateway = None, NEW o \in Op, op[o].pc \in Inside, op[o].pc # "stopping"
  PROVE  ~Stopping /\ gateway # generation /\ \A g : ~Speaker(g)
<1>1. \A q \in Op : op[q].pc # "stopping"
  BY OneInside DEF Inside
<1> QED BY <1>1, TypesSay, NamesApart DEF Speaker, Stopping

LEMMA CallWords ==
  ASSUME IInv
  PROVE  /\ hostLock \in Seq(Call) /\ Publishing \subseteq Speaking /\ Speaking \subseteq Call
         /\ BySlots \subseteq Speaking
         /\ \A i \in DOMAIN hostLock : hostLock[i] \in Call
         /\ \A i \in DOMAIN hostLock : IsLive(hostLock[i]) => hostLock[i] \in Speaking
<1>1. hostLock \in Seq(Call)
  BY TypesSay
<1>2. \A i \in DOMAIN hostLock : hostLock[i] \in Call
  BY <1>1
<1> QED BY <1>1, <1>2 DEF Publishing, Speaking, BySlots, IsLive

(* The timer, when a call joins the others.                                *)
LEMMA TimingJoins ==
  ASSUME IInv, Timing, NEW c \in Call, hostLock' = Append(hostLock, c), UNCHANGED timerVars
  PROVE  Timing'
<1>1. hostLock' # <<>> /\ (hostLock # <<>> => Head(hostLock') = Head(hostLock))
  BY TypesSay, Joining
<1>2. UNCHANGED <<hostActive, hostIdentity, host>>
  BY DEF timerVars
<1> QED BY <1>1, <1>2 DEF Timing, Cancels, IsLive, IsReset

LEMMA VoicesJoin ==
  ASSUME IInv, Voices, NEW c \in Call, hostLock' = Append(hostLock, c),
         UNCHANGED <<hostActive, hostIdentity>>,
         \A g : Speaker(g) => Speaker(g)',
         IsLive(c) => Speaker(c.snapshot.generation)'
  PROVE  Voices'
<1>1. hostLock \in Seq(Call)
  BY TypesSay
<1>2. \A i \in DOMAIN hostLock' :
        (i \in DOMAIN hostLock /\ hostLock'[i] = hostLock[i]) \/ hostLock'[i] = c
  BY <1>1, Joining
<1>3. hostActive' => Speaker(hostIdentity)'
  BY DEF Voices, Speaker
<1>4. \A i \in DOMAIN hostLock' : IsLive(hostLock'[i]) => Speaker(hostLock[i].snapshot.generation)'
  <2> SUFFICES ASSUME NEW i \in DOMAIN hostLock', IsLive(hostLock'[i])
               PROVE  Speaker(hostLock[i].snapshot.generation)'
    OBVIOUS
  <2>1. CASE i \in DOMAIN hostLock /\ hostLock'[i] = hostLock[i]
    <3>1. Speaker(hostLock[i].snapshot.generation)
      BY <2>1 DEF Voices
    <3>2. PICK g : g = hostLock[i].snapshot.generation
      OBVIOUS
    <3>3. Speaker(g)'
      BY <3>1, <3>2
    <3> QED BY <2>1, <3>2, <3>3 DEF Speaker
  <2>2. CASE hostLock'[i] = c
    BY <2>2 DEF Speaker
  <2> QED BY <1>2, <2>1, <2>2
<1> QED BY <1>3, <1>4 DEF Voices, IsLive

LEMMA SetsOfWords ==
  ASSUME UNCHANGED snapshotVars
  PROVE  Snap' = Snap /\ SaysSnap' = SaysSnap /\ SaysLive' = SaysLive /\ UNCHANGED state
BY DEF Snap, snapshotVars, SaysSnap, SaysLive

(* Nothing that the host sees has changed, but maybe its timer.            *)
LEMMA AsideTells ==
  ASSUME IInv, Telling, UNCHANGED <<snapshotVars, gateway, publishVars, hostLock, hostActive, hostIdentity>>,
         \A o \in Op : Steadily(o)
  PROVE  Showing' /\ Answering' /\ SlotsAreSilent' /\ Following' /\ Voices'
<1>a. /\ Snap' = Snap /\ SaysSnap' = SaysSnap /\ SaysLive' = SaysLive
      /\ UNCHANGED <<state, generation, gateway, shown, publication, hostLock, hostActive, hostIdentity>>
  BY SetsOfWords DEF snapshotVars, publishVars
<1>b. /\ \A o \in Op : op'[o].pc = "stopping" => op[o].pc = "stopping"
      /\ \A o \in Op : op[o].pc \in {"stopping", "connecting", "renewing"} =>
           op'[o].pc = op[o].pc /\ op'[o].old = op[o].old
  BY DEF Steadily, Detached
<1>1. (Late => Late') /\ (Readying => Readying') /\ (ShownIsTold => ShownIsTold')
      /\ (LiveIsTold => LiveIsTold')
  <2> HIDE DEF Snap
  <2> QED BY <1>a, <1>b DEF Late, Readying, ShownIsTold, LiveIsTold
<1>2. Answering'
  BY <1>a, <1>b DEF Telling, Answering
<1>3. SlotsAreSilent'
  BY <1>a, <1>b DEF Telling, SlotsAreSilent, Stopping
<1>4. Voices'
  BY <1>a, <1>b DEF Telling, Voices, Speaker
<1> QED BY <1>1, <1>2, <1>3, <1>4 DEF Telling, Showing, Following

LEMMA AsideKeeps ==
  ASSUME IInv, Telling, Aside
  PROVE  Telling'
<1>1. Showing' /\ Answering' /\ SlotsAreSilent' /\ Following' /\ Voices'
  BY AsideTells DEF Aside
<1>2. Timing'
  <2>1. UNCHANGED <<hostLock, hostActive, hostIdentity>>
    BY DEF Aside
  <2>2. CASE host' = host
    BY <2>1, <2>2 DEF Telling, Timing, Cancels, IsLive, IsReset
  <2>3. CASE HostCancels
    BY <2>1, <2>3 DEF HostCancels, Timing, Cancels, IsLive, IsReset
  <2> QED BY <2>2, <2>3 DEF Aside
<1> QED BY <1>1, <1>2 DEF Telling

LEMMA ResetKeeps ==
  ASSUME IInv, Telling, NEW s \in Slot, Resets(s)
  PROVE  Telling'
<1> DEFINE c == [by |-> s, call |-> "activity", snapshot |-> Stopped]
<1>a. /\ c \in Call /\ c.call = "activity"
  <2>1. Stopped \in Snapshot
    BY DEF Stopped, Snapshot, States
  <2> QED BY <2>1, NamesApart DEF Call
<1>b. /\ hostLock' = Append(hostLock, c)
      /\ UNCHANGED <<snapshotVars, gateway, publishVars, op, timerVars>>
  BY DEF Resets
<1> HIDE DEF c
<1>c. /\ SaysSnap' = SaysSnap /\ SaysLive' = SaysLive /\ Snap' = Snap
      /\ UNCHANGED <<state, generation, gateway, shown, publication, hostActive, hostIdentity, op>>
  BY <1>b, SetsOfWords DEF snapshotVars, publishVars, timerVars
<1>d. c \notin Speaking /\ c \notin Publishing /\ c \notin BySlots /\ ~IsLive(c)
  BY <1>a DEF Speaking, Publishing, BySlots, IsLive
<1>e. hostLock \in Seq(Call)
  BY TypesSay
<1> HIDE DEF Snap
<1>1. Showing'
  <2>1. ShownIsTold => ShownIsTold'
    BY <1>a, <1>b, <1>c, <1>d, <1>e, WordJoins DEF ShownIsTold
  <2> QED BY <1>c, <2>1 DEF Telling, Showing, Late, Readying
<1>2. Answering'
  <2>1. \A o \in Op : LastWord(hostLock, Speaking, By(o), FALSE) => LastWord(hostLock', Speaking, By(o), FALSE)
    BY <1>a, <1>b, <1>d, <1>e, WordJoins
  <2>2. NoneIn(hostLock, Speaking) => NoneIn(hostLock', Speaking)
    BY <1>a, <1>b, <1>d, <1>e, NoneJoins
  <2> QED BY <1>c, <2>1, <2>2 DEF Telling, Answering
<1>3. SlotsAreSilent'
  <2>1. NoneIn(hostLock, BySlots) => NoneIn(hostLock', BySlots)
    BY <1>a, <1>b, <1>d, <1>e, NoneJoins
  <2> QED BY <1>c, <2>1 DEF Telling, SlotsAreSilent, Stopping
<1>4. Following'
  <2>1. LiveIsTold => LiveIsTold'
    BY <1>a, <1>b, <1>c, <1>d, <1>e, WordJoins DEF LiveIsTold
  <2> QED BY <1>c, <2>1 DEF Telling, Following, Late
<1>5. Voices'
  <2>1. \A g : Speaker(g) => Speaker(g)'
    BY <1>c DEF Speaker
  <2> QED BY <1>a, <1>b, <1>c, <1>d, <2>1, VoicesJoin DEF Telling
<1>6. Timing'
  BY <1>a, <1>b, TimingJoins DEF Telling
<1> QED BY <1>1, <1>2, <1>3, <1>4, <1>5, <1>6 DEF Telling

LEMMA UpdateKeeps ==
  ASSUME IInv, Telling, NEW o \in Op, Updates(o)
  PROVE  Telling'
<1> DEFINE c == [by |-> None, call |-> "update", snapshot |-> Snap]
<1>a. c \in Call /\ c.call = "update" /\ c.by = None /\ c.snapshot = Snap /\ Snap.state = state
  <2>1. Snap \in Snapshot /\ Snap.state = state
    BY TypesSay, SnapIsTyped DEF SnapshotTypes
  <2> HIDE DEF Snap
  <2> QED BY <2>1 DEF Call
<1>b. /\ hostLock' = Append(hostLock, c) /\ state # "live"
      /\ UNCHANGED <<snapshotVars, gateway, publishVars, timerVars>>
      /\ Holds(o) /\ publication[o].stage = "idle" /\ op[o].pc # "stopping"
      /\ \A q \in Op : Steadily(q)
  BY DEF Updates
<1> HIDE DEF c, Snap
<1>c. /\ SaysSnap' = SaysSnap /\ SaysLive' = SaysLive /\ Snap' = Snap
      /\ UNCHANGED <<state, generation, gateway, shown, publication, hostActive, hostIdentity>>
  BY <1>b, SetsOfWords DEF snapshotVars, publishVars, timerVars
<1>d. /\ c \in Speaking /\ c \notin Publishing /\ c \notin BySlots /\ ~IsLive(c)
      /\ c \in SaysLive'
  BY <1>a, <1>b, <1>c, NamesApart DEF Speaking, Publishing, BySlots, IsLive, SaysLive, Publisher
<1>e. hostLock \in Seq(Call)
  BY TypesSay
<1>f. \A q \in Op : publication[q].stage = "idle" /\ op[q].pc # "stopping"
  <2>1. \A q \in Op : op[q].pc \in Inside => Holds(q)
    BY DEF IInv, Queueing
  <2>2. \A q \in Op : op[q].pc \in Inside => q = o
    BY <1>b, <2>1 DEF Holds
  <2> QED BY <1>b, <2>2, PublisherIsInside DEF Inside
<1>g. /\ \A q \in Op : op'[q].pc # "stopping"
      /\ \A q \in Op : op[q].pc \in {"connecting", "renewing"} => op'[q].pc = op[q].pc
  BY <1>b, <1>f DEF Steadily, Detached
<1>1. Showing'
  <2>1. ShownIsTold => ShownIsTold'
    BY <1>a, <1>b, <1>c, <1>d, <1>e, WordJoins DEF ShownIsTold
  <2> QED BY <1>c, <1>g, <2>1 DEF Telling, Showing, Late, Readying
<1>2. Answering'
  BY <1>c, <1>f, <1>g DEF Answering
<1>3. SlotsAreSilent'
  <2>1. NoneIn(hostLock, BySlots) => NoneIn(hostLock', BySlots)
    BY <1>a, <1>b, <1>d, <1>e, NoneJoins
  <2> QED BY <1>c, <1>f, <2>1 DEF Telling, SlotsAreSilent, Stopping
<1>4. Following'
  <2>1. LiveIsTold'
    BY <1>a, <1>b, <1>d, <1>e, WordJoins DEF LiveIsTold
  <2> QED BY <2>1 DEF Following
<1>5. Voices'
  <2>1. \A g : Speaker(g) => Speaker(g)'
    BY <1>c, <1>f DEF Speaker
  <2> QED BY <1>a, <1>b, <1>c, <1>d, <2>1, VoicesJoin DEF Telling
<1>6. Timing'
  BY <1>a, <1>b, TimingJoins DEF Telling
<1> QED BY <1>1, <1>2, <1>3, <1>4, <1>5, <1>6 DEF Telling

(* The snapshot a step leaves behind, as a publication of it.              *)
LEMMA SnapWord ==
  ASSUME IInv, [Next]_vars, NEW p \in Publisher
  PROVE  /\ [by |-> p, call |-> "publish", snapshot |-> Snap'] \in Call
         /\ Snap' \in Snapshot /\ Snap'.state = state' /\ Snap'.generation = generation'
<1>1. SnapshotTypes'
  BY SnapshotTypesKept
<1>2. Snap' \in Snapshot /\ Snap'.state = state' /\ Snap'.generation = generation'
  BY <1>1, ServiceAssumption DEF Snap, Snapshot, SnapshotTypes
<1> HIDE DEF Snap
<1> QED BY <1>2 DEF Call

LEMMA TaskTells ==
  ASSUME IInv, Telling, [Next]_vars, NEW s \in Slot, Tells(s)
  PROVE  Telling'
<1> DEFINE c == [by |-> s, call |-> "publish", snapshot |-> Snap']
<1>a. /\ c \in Call /\ c.call = "publish" /\ c.by = s /\ c.snapshot = Snap'
      /\ Snap'.state = state' /\ Snap'.generation = generation'
  BY SnapWord, NamesApart
<1>b. /\ hostLock' = Append(hostLock, c) /\ Holds(s) /\ gateway = generation
      /\ UNCHANGED <<generation, gateway, op, shown, timerVars>>
      /\ publication' = [publication EXCEPT ![s] = [stage |-> "asked", snapshot |-> Snap']]
  BY DEF Tells
<1> HIDE DEF c, Snap
<1>d. c \in Speaking /\ c \in Publishing /\ c \in SaysLive' /\ c \in SaysSnap'
  BY <1>a DEF Speaking, Publishing, SaysLive, SaysSnap
<1>e. hostLock \in Seq(Call) /\ UNCHANGED <<hostActive, hostIdentity>>
  BY <1>b, TypesSay DEF timerVars
<1>f. \A q \in Op : publication[q].stage = "idle" /\ op[q].pc # "stopping"
                    /\ publication'[q] = publication[q]
  BY <1>b, HolderIsOutside, TypesSay, NamesApart DEF Inside
<1>1. Showing'
  <2>1. ShownIsTold'
    BY <1>a, <1>b, <1>d, <1>e, WordJoins DEF ShownIsTold
  <2> QED BY <2>1 DEF Showing
<1>2. Answering'
  BY <1>b, <1>f DEF Answering
<1>3. SlotsAreSilent'
  BY <1>b DEF SlotsAreSilent
<1>4. Following'
  <2>1. LiveIsTold'
    BY <1>a, <1>b, <1>d, <1>e, WordJoins DEF LiveIsTold
  <2> QED BY <2>1 DEF Following
<1>5. Voices'
  <2>1. \A g : Speaker(g) => Speaker(g)'
    BY <1>b DEF Speaker
  <2>2. generation \in Generation
    BY <1>b, TypesSay, NamesApart
  <2>3. PICK g : g = c.snapshot.generation
    OBVIOUS
  <2>4. Speaker(g)'
    BY <1>a, <1>b, <2>2, <2>3 DEF Speaker
  <2> QED BY <1>a, <1>b, <1>e, <2>1, <2>3, <2>4, VoicesJoin DEF Telling
<1>6. Timing'
  BY <1>a, <1>b, TimingJoins DEF Telling
<1> QED BY <1>1, <1>2, <1>3, <1>4, <1>5, <1>6 DEF Telling

LEMMA OpTellsKeeps ==
  ASSUME IInv, Transports, Broadcasting, Telling, [Next]_vars, NEW o \in Op, OpTells(o)
  PROVE  Telling'
<1> DEFINE c == [by |-> o, call |-> "publish", snapshot |-> Snap']
           Asks == hostLock' = Append(hostLock, c) /\ publication'[o].stage = "asked"
           Waits == UNCHANGED hostLock /\ publication'[o].stage = "narrating"
<1>a. /\ c \in Call /\ c.call = "publish" /\ c.by = o /\ c.snapshot = Snap'
      /\ Snap'.state = state' /\ Snap'.generation = generation'
  BY SnapWord, NamesApart
<1>b. /\ op[o].pc \in Inside /\ \A q \in Op : q # o => op'[q] = op[q]
      /\ UNCHANGED <<shown, timerVars>> /\ state' # "live"
      /\ \A p \in Publisher : p # o => publication'[p] = publication[p]
      /\ publication[o].stage = "idle" /\ (Asks \/ Waits)
  BY OpSays
<1>t. Detaches(o) \/ Settles(o)
  BY DEF OpTells
<1> HIDE DEF c, Snap
<1>d. c \in Speaking /\ c \in Publishing /\ c \in SaysLive' /\ c \in SaysSnap' /\ ~IsLive(c)
      /\ c \notin BySlots /\ c \in By(o)
  BY <1>a, <1>b, NamesApart DEF Speaking, Publishing, SaysLive, SaysSnap, IsLive, BySlots, By
<1>e. hostLock \in Seq(Call) /\ UNCHANGED <<hostActive, hostIdentity, host>>
  BY <1>b, TypesSay DEF timerVars
<1>f. \A q \in Op : q # o => /\ publication[q].stage = "idle" /\ publication'[q] = publication[q]
                             /\ op[q].pc \notin Inside /\ op'[q] = op[q]
  BY <1>b, ActorIsAlone, NamesApart
<1>g. \A g : Speaker(g) => Speaker(g)'
  <2>1. CASE Detaches(o)
    <3>1. \A q \in Op : op[q].pc # "stopping"
      BY <1>f, <2>1 DEF Detaches, Inside
    <3> QED BY <2>1, <3>1 DEF Detaches, Speaker
  <2>2. CASE Settles(o)
    <3>1. \A g : ~Speaker(g)
      BY <1>b, <2>2, NoSpeaker DEF Settles
    <3> QED BY <3>1
  <2> QED BY <1>t, <2>1, <2>2
<1>1. Showing'
  <2>1. Asks => ShownIsTold'
    BY <1>a, <1>d, <1>e, WordJoins DEF ShownIsTold
  <2>2. Waits => Late'
    BY DEF Late
  <2> QED BY <1>b, <2>1, <2>2 DEF Showing
<1>2. Answering'
  <2>1. Asks => LastWord(hostLock', Speaking, By(o), FALSE)
    BY <1>a, <1>d, <1>e, WordJoins
  <2>2. \A q \in Op : q # o => publication'[q].stage = "idle" /\ op'[q].pc # "stopping"
    BY <1>f DEF Inside
  <2> QED BY <1>b, <2>1, <2>2 DEF Answering
<1>3. SlotsAreSilent'
  <2>1. CASE Detaches(o)
    BY <2>1 DEF Detaches, SlotsAreSilent, Stopping
  <2>2. CASE Settles(o)
    <3>1. op[o].pc \in Drained
      BY <2>2 DEF Settles, Drained
    <3>2. NoneIn(hostLock, BySlots)
      BY <3>1 DEF IInv, DrainedIsClean, NoneIn, BySlots
    <3>3. Asks => NoneIn(hostLock', BySlots)
      BY <1>a, <1>d, <1>e, <3>2, NoneJoins
    <3>4. Waits => NoneIn(hostLock', BySlots)
      BY <3>2
    <3> QED BY <1>b, <3>3, <3>4 DEF SlotsAreSilent
  <2> QED BY <1>t, <2>1, <2>2
<1>4. Following'
  <2>1. Asks => LiveIsTold'
    BY <1>a, <1>d, <1>e, WordJoins DEF LiveIsTold
  <2>2. Waits => Late'
    BY DEF Late
  <2> QED BY <1>b, <2>1, <2>2 DEF Following
<1>5. Voices'
  <2>1. CASE Asks
    BY <1>a, <1>d, <1>e, <1>g, <2>1, VoicesJoin DEF Telling
  <2>2. CASE Waits
    <3>1. hostActive => Speaker(hostIdentity)
      BY DEF Telling, Voices
    <3>2. \A i \in DOMAIN hostLock : IsLive(hostLock[i]) => Speaker(hostLock[i].snapshot.generation)
      BY DEF Telling, Voices
    <3> QED BY <1>e, <1>g, <2>2, <3>1, <3>2 DEF Voices, Speaker
  <2> QED BY <1>b, <2>1, <2>2
<1>6. Timing'
  <2>1. CASE Asks
    BY <1>a, <1>b, <2>1, TimingJoins DEF Telling
  <2>2. CASE Waits
    BY <1>e, <2>2 DEF Telling, Timing, Cancels, IsLive, IsReset
  <2> QED BY <1>b, <2>1, <2>2
<1> QED BY <1>1, <1>2, <1>3, <1>4, <1>5, <1>6 DEF Telling

LEMMA ReadyKeeps ==
  ASSUME IInv, Broadcasting, Telling, NEW o \in Op, Readies(o)
  PROVE  Telling'
<1>b. /\ op[o].pc \in Inside /\ \A q \in Op : q # o => op'[q] = op[q]
      /\ op[o].pc \in {"scene", "closing"} /\ op'[o].pc = "connecting"
      /\ gateway = None /\ gateway' = None /\ state' = "connecting"
      /\ UNCHANGED <<publication, shown, hostLock, hostActive, hostIdentity, host>>
  BY DEF Readies, Acts, publishVars, timerVars
<1>c. /\ ~Stopping /\ gateway # generation /\ \A g : ~Speaker(g)
  BY <1>b, NoSpeaker
<1>d. \A q \in Op : publication[q].stage = "idle" /\ (q # o => op[q].pc \notin Inside)
  BY <1>b, ActorIsAlone, PublisherIsInside
<1>e. state # "live"
  BY <1>c DEF Broadcasting, Broadcasts
<1>1. Showing'
  BY <1>b DEF Showing, Readying
<1>2. Answering'
  <2>1. \A q \in Op : publication'[q].stage = "idle" /\ op'[q].pc # "stopping"
    BY <1>b, <1>d DEF Inside
  <2> QED BY <2>1 DEF Answering
<1>3. SlotsAreSilent'
  BY <1>b, <1>c DEF Telling, SlotsAreSilent
<1>4. Following'
  <2>1. LiveIsTold
    BY <1>d DEF Telling, Following, Late
  <2>2. SaysLive' = SaysLive
    BY <1>b, <1>e DEF SaysLive
  <2>3. LiveIsTold'
    BY <1>b, <1>e, <2>1, <2>2 DEF LiveIsTold
  <2> QED BY <2>3 DEF Following
<1>5. Voices'
  BY <1>b, <1>c DEF Telling, Voices
<1>6. Timing'
  BY <1>b DEF Telling, Timing, Cancels, IsLive, IsReset
<1> QED BY <1>1, <1>2, <1>3, <1>4, <1>5, <1>6 DEF Telling

LEMMA SwitchKeeps ==
  ASSUME IInv, Broadcasting, Telling, NEW o \in Op, NarrationSwitched(o)
  PROVE  Telling'
<1> DEFINE c == [by |-> o, call |-> "publish", snapshot |-> Snap]
<1>a. c \in Call /\ c.call = "publish" /\ c.by = o /\ c.snapshot = Snap /\ Snap.state = state
  <2>1. Snap \in Snapshot /\ Snap.state = state
    BY TypesSay, SnapIsTyped DEF SnapshotTypes
  <2> HIDE DEF Snap
  <2> QED BY <2>1, NamesApart DEF Call
<1>b. /\ op[o].pc \in Inside /\ state # "live" /\ hostLock' = Append(hostLock, c)
      /\ publication' = [publication EXCEPT ![o].stage = "asked"]
      /\ UNCHANGED <<snapshotVars, gateway, op, shown, timerVars>>
  BY SwitchesFrom
<1> HIDE DEF c, Snap
<1>c. /\ SaysSnap' = SaysSnap /\ SaysLive' = SaysLive /\ Snap' = Snap
      /\ UNCHANGED <<state, generation, gateway, shown, op, hostActive, hostIdentity>>
  BY <1>b, SetsOfWords DEF snapshotVars, timerVars
<1>d. /\ c \in Speaking /\ c \in Publishing /\ c \notin BySlots /\ ~IsLive(c) /\ c \in By(o)
      /\ c \in SaysLive' /\ c \in SaysSnap'
  BY <1>a, <1>b, <1>c, NamesApart DEF Speaking, Publishing, BySlots, IsLive, SaysLive, SaysSnap, By
<1>e. hostLock \in Seq(Call)
  BY TypesSay
<1>f. /\ publication'[o].stage = "asked"
      /\ \A q \in Op : q # o => publication'[q].stage = "idle" /\ op'[q].pc # "stopping"
  <2>1. publication'[o].stage = "asked" /\ \A q \in Op : q # o => publication'[q] = publication[q]
    BY <1>b, TypesSay, NamesApart DEF PublicationRecord
  <2> QED BY <1>b, <1>c, <2>1, ActorIsAlone DEF Inside
<1>1. Showing'
  <2>1. ShownIsTold'
    BY <1>a, <1>b, <1>d, <1>e, WordJoins DEF ShownIsTold
  <2> QED BY <2>1 DEF Showing
<1>2. Answering'
  <2>1. LastWord(hostLock', Speaking, By(o), FALSE)
    BY <1>a, <1>b, <1>d, <1>e, WordJoins
  <2> QED BY <1>f, <2>1 DEF Answering
<1>3. SlotsAreSilent'
  <2>1. NoneIn(hostLock, BySlots) => NoneIn(hostLock', BySlots)
    BY <1>a, <1>b, <1>d, <1>e, NoneJoins
  <2> QED BY <1>c, <2>1 DEF Telling, SlotsAreSilent, Stopping
<1>4. Following'
  <2>1. LiveIsTold'
    BY <1>a, <1>b, <1>d, <1>e, WordJoins DEF LiveIsTold
  <2> QED BY <2>1 DEF Following
<1>5. Voices'
  <2>1. \A g : Speaker(g) => Speaker(g)'
    BY <1>c DEF Speaker
  <2> QED BY <1>a, <1>b, <1>c, <1>d, <2>1, VoicesJoin DEF Telling
<1>6. Timing'
  BY <1>a, <1>b, TimingJoins DEF Telling
<1> QED BY <1>1, <1>2, <1>3, <1>4, <1>5, <1>6 DEF Telling

LEMMA StartKeeps ==
  ASSUME IInv, Broadcasting, Telling, [Next]_vars, NEW o \in Op, OpStarts(o)
  PROVE  Telling'
<1>b. /\ gateway = None /\ gateway' = generation /\ generation' = generation
      /\ UNCHANGED <<snapshotVars, publication, shown, hostLock, hostActive, hostIdentity, host>>
      /\ op[o].pc = "announcing" /\ op[o].pc \in Inside /\ op'[o].pc = "starting"
      /\ \A q \in Op : q # o => op'[q] = op[q]
  BY StartsFrom DEF publishVars, timerVars
<1>c. /\ Snap' = Snap /\ SaysSnap' = SaysSnap /\ SaysLive' = SaysLive /\ UNCHANGED state
  BY <1>b, SetsOfWords
<1>d. \A g : ~Speaker(g)
  BY <1>b, NoSpeaker
<1>e. \A q \in Op : q # o => op[q].pc \notin Inside
  BY <1>b, ActorIsAlone
<1>f. ~hostActive'
  <2>1. Announced'
    BY IInvKept DEF IInv
  <2> QED BY <1>b, <2>1 DEF Announced, HostIsSilent
<1> HIDE DEF Snap
<1>1. Showing'
  <2>1. (Late => Late') /\ (Readying => Readying') /\ (ShownIsTold => ShownIsTold')
    BY <1>b, <1>c DEF Late, Readying, ShownIsTold
  <2> QED BY <2>1 DEF Telling, Showing
<1>2. Answering'
  <2>1. \A q \in Op : op'[q].pc # "stopping"
    BY <1>b, <1>e DEF Inside
  <2> QED BY <1>b, <2>1 DEF Telling, Answering
<1>3. SlotsAreSilent'
  BY <1>b DEF SlotsAreSilent
<1>4. Following'
  BY <1>b, <1>c DEF Telling, Following, Late, LiveIsTold
<1>5. Voices'
  BY <1>b, <1>d, <1>f DEF Telling, Voices
<1>6. Timing'
  BY <1>b DEF Telling, Timing, Cancels, IsLive, IsReset
<1> QED BY <1>1, <1>2, <1>3, <1>4, <1>5, <1>6 DEF Telling

LEMMA DrainKeeps ==
  ASSUME IInv, Broadcasting, Telling, NEW o \in Op, Drains(o)
  PROVE  Telling'
<1> DEFINE P == {i \in DOMAIN hostLock : hostLock[i].by \notin Slot}
<1>b. /\ UNCHANGED <<snapshotVars, gateway, shown, hostActive, hostIdentity, host>>
      /\ publication[o].stage = "idle" /\ gateway = None /\ op[o].pc \in Inside
      /\ \/ op[o].pc = "stopping" /\ op'[o].pc = "switching"
         \/ op[o].pc = "connecting" /\ op'[o].pc = "renewing"
      /\ \A q \in Op : q # o => op'[q] = op[q]
      /\ \A q \in Op : publication'[q] = publication[q]
      /\ hostLock' = Kept(hostLock, P)
  BY DrainsFrom
<1>c. /\ Snap' = Snap /\ SaysSnap' = SaysSnap /\ SaysLive' = SaysLive /\ UNCHANGED state
  BY <1>b, SetsOfWords
<1>d. \A q \in Op : publication[q].stage = "idle" /\ (q # o => op[q].pc \notin Inside)
  BY <1>b, ActorIsAlone
<1>e. hostLock \in Seq(Call) /\ P \subseteq DOMAIN hostLock
  BY TypesSay
<1>g. state # "live" /\ ~Late
  BY <1>b, <1>d, TypesSay, NamesApart DEF Broadcasting, Broadcasts, Late
<1>h. NoneIn(hostLock, BySlots)
  <2>1. CASE op[o].pc = "stopping"
    <3>1. NoneIn(hostLock, Speaking)
      BY <1>b, <2>1 DEF Telling, Answering
    <3> QED BY <3>1 DEF NoneIn, BySlots
  <2>2. CASE op[o].pc = "connecting"
    <3>1. ~Stopping /\ gateway # generation
      BY <1>b, <2>2, NoSpeaker
    <3> QED BY <3>1 DEF Telling, SlotsAreSilent
  <2> QED BY <1>b, <2>1, <2>2
<1>i. \A i \in DOMAIN hostLock : hostLock[i] \in Speaking => i \in P
  BY <1>h DEF NoneIn, BySlots
<1> HIDE DEF P, Snap
<1>j. LiveIsTold
  BY <1>g DEF Telling, Following
<1>k. ~hostActive /\ \A i \in DOMAIN hostLock : ~IsLive(hostLock[i])
  <2>1. CASE op[o].pc = "stopping"
    <3>1. NoneIn(hostLock, Speaking)
      BY <1>b, <2>1 DEF Telling, Answering
    <3>2. \A i \in DOMAIN hostLock : ~IsLive(hostLock[i])
      BY <3>1, CallWords DEF NoneIn
    <3>3. hostActive <=> state = "live"
      BY <1>j, <3>1 DEF LiveIsTold, LastWord, NoneIn
    <3> QED BY <1>g, <3>2, <3>3
  <2>2. CASE op[o].pc = "connecting"
    <3>1. \A g : ~Speaker(g)
      BY <1>b, <2>2, NoSpeaker
    <3> QED BY <3>1 DEF Telling, Voices
  <2> QED BY <1>b, <2>1, <2>2
<1>1. Showing'
  <2>1. CASE op'[o].pc = "renewing"
    BY <2>1 DEF Showing, Readying
  <2>2. CASE op[o].pc = "stopping"
    <3>1. NoneIn(hostLock, Speaking)
      BY <1>b, <2>2 DEF Telling, Answering
    <3>2. NoneIn(hostLock, Publishing)
      BY <3>1, CallWords DEF NoneIn
    <3>3. ~Readying
      BY <1>d, <2>2 DEF Readying, Inside
    <3>4. shown = Snap
      BY <1>g, <3>2, <3>3 DEF Telling, Showing, ShownIsTold, LastWord, NoneIn
    <3>5. NoneIn(hostLock', Publishing)
      BY <1>b, <1>e, <3>2, NoneKept
    <3> QED BY <1>b, <1>c, <3>4, <3>5 DEF Showing, ShownIsTold, LastWord
  <2> QED BY <1>b, <2>1, <2>2
<1>2. Answering'
  <2>1. \A q \in Op : publication'[q].stage = "idle" /\ op'[q].pc # "stopping"
    BY <1>b, <1>d DEF Inside
  <2> QED BY <2>1 DEF Answering
<1>3. SlotsAreSilent'
  BY <1>b, <1>e, <1>h, NoneKept DEF SlotsAreSilent
<1>4. Following'
  <2>1. LastWord(hostLock', Speaking, SaysLive, hostActive <=> state = "live")
    BY <1>b, <1>e, <1>i, <1>j, WordKept DEF LiveIsTold
  <2> QED BY <1>b, <1>c, <2>1 DEF Following, LiveIsTold
<1>5. Voices'
  <2>1. \A j \in DOMAIN hostLock' : \E i \in DOMAIN hostLock : hostLock'[j] = hostLock[i]
    BY <1>b, <1>e, Leaving
  <2>2. \A j \in DOMAIN hostLock' : ~IsLive(hostLock'[j])
    BY <1>k, <2>1
  <2> QED BY <1>b, <1>k, <2>2 DEF Voices, IsLive
<1>6. Timing'
  BY <1>b, <1>k DEF Telling, Timing
<1> QED BY <1>1, <1>2, <1>3, <1>4, <1>5, <1>6 DEF Telling

(* The host, one call after the other.                                     *)
LEMMA HostGoesOn ==
  ASSUME IInv, NEW c, c = Head(hostLock), c \in Call, HostApplies
  PROVE  /\ Cancels(c) => host = "none"
         /\ c \in Speaking => /\ hostActive' <=> IsLive(c)
                              /\ ~IsReset(c) /\ (IsLive(c) <=> c.snapshot.state = "live")
                              /\ hostIdentity' = IF IsLive(c) THEN c.snapshot.generation ELSE hostIdentity
                              /\ host' = IF IsLive(c) /\ ~hostActive THEN "armed" ELSE host
         /\ c \notin Speaking => /\ hostActive' <=> hostActive
                                 /\ ~IsLive(c) /\ hostIdentity' = hostIdentity
                                 /\ host' = IF hostActive THEN "armed" ELSE host
<1>1. /\ Cancels(c) => host = "none"
      /\ hostIdentity' = IF IsLive(c) THEN c.snapshot.generation ELSE hostIdentity
      /\ host' = IF IsReset(c) \/ (IsLive(c) /\ ~hostActive) THEN "armed" ELSE host
  BY DEF HostApplies
<1>2. c.call \in {"publish", "update", "activity"} /\ hostActive \in BOOLEAN
  BY TypesSay DEF Call
<1>3. /\ c \in Speaking => c.call \in {"publish", "update"} /\ ~IsReset(c)
                           /\ (IsLive(c) <=> c.snapshot.state = "live")
      /\ c \notin Speaking => ~IsLive(c) /\ c.call \notin {"publish", "update"}
                              /\ (IsReset(c) <=> hostActive)
  BY <1>2 DEF Speaking, IsLive, IsReset
<1>4. CASE c \in Speaking
  <2>1. hostActive' = IsLive(c)
    BY <1>3, <1>4 DEF HostApplies
  <2> QED BY <1>1, <1>3, <1>4, <2>1
<1>5. CASE c \notin Speaking
  <2>1. hostActive' = hostActive
    BY <1>2, <1>3, <1>5 DEF HostApplies
  <2> QED BY <1>1, <1>3, <1>5, <2>1
<1> QED BY <1>4, <1>5

LEMMA PublicationEnds ==
  ASSUME IInv, NEW c, c = Head(hostLock), HostApplies, NEW o \in Op
  PROVE  \/ publication'[o] = publication[o] /\ c.by # o
         \/ /\ c.by = o /\ c.call = "publish" /\ publication[o].stage = "asked"
            /\ publication'[o].stage = "idle"
<1>1. /\ c \in Call /\ Calling(c, publication, task)
      /\ IF c.call = "publish"
         THEN /\ c.by \in Publisher /\ publication[c.by].stage = "asked"
              /\ publication' = [publication EXCEPT ![c.by] = Quiescent]
         ELSE UNCHANGED publication
  BY AppliesFrom
<1>2. c.by = o => c.call = "publish"
  BY <1>1 DEF Calling
<1>3. publication \in [Publisher -> PublicationRecord] /\ o \in Publisher
  BY TypesSay, NamesApart
<1> QED BY <1>1, <1>2, <1>3 DEF Quiescent

LEMMA AppliesKeeps ==
  ASSUME IInv, Telling, HostApplies
  PROVE  Telling'
<1>1. PICK c : c = Head(hostLock)
  OBVIOUS
<1>a. /\ hostLock' = Tail(hostLock) /\ hostLock # <<>> /\ c \in Call
      /\ UNCHANGED <<snapshotVars, gateway, op>> /\ hostLock \in Seq(Call)
      /\ IF c.call = "publish" THEN shown' = c.snapshot ELSE UNCHANGED shown
  BY <1>1, AppliesFrom, TypesSay
<1>b. /\ c = hostLock[1] /\ 1 \in DOMAIN hostLock
      /\ \A i \in DOMAIN hostLock' : i \in Nat /\ i > 0 /\ i + 1 \in DOMAIN hostLock
                                     /\ hostLock'[i] = hostLock[i + 1]
  BY <1>1, <1>a, Leading
<1>c. /\ SaysSnap' = SaysSnap /\ SaysLive' = SaysLive /\ Snap' = Snap
      /\ UNCHANGED <<state, generation, gateway, op>>
  BY <1>a, SetsOfWords DEF snapshotVars
<1>d. /\ Cancels(c) => host = "none"
      /\ c \in Speaking => /\ hostActive' <=> IsLive(c)
                           /\ ~IsReset(c) /\ (IsLive(c) <=> c.snapshot.state = "live")
                           /\ hostIdentity' = IF IsLive(c) THEN c.snapshot.generation ELSE hostIdentity
                           /\ host' = IF IsLive(c) /\ ~hostActive THEN "armed" ELSE host
      /\ c \notin Speaking => /\ hostActive' <=> hostActive
                              /\ ~IsLive(c) /\ hostIdentity' = hostIdentity
                              /\ host' = IF hostActive THEN "armed" ELSE host
  BY <1>1, <1>a, HostGoesOn
<1>e. \A o \in Op : \/ publication'[o] = publication[o] /\ c.by # o
                    \/ /\ c.by = o /\ c.call = "publish" /\ publication[o].stage = "asked"
                       /\ publication'[o].stage = "idle"
  BY <1>1, PublicationEnds
<1>f. (Late' <=> Late) /\ (Readying' <=> Readying)
  BY <1>c, <1>e DEF Late, Readying
<1>g. c \in Speaking <=> c.call # "activity"
  BY <1>a DEF Speaking
<1> HIDE DEF Snap
<1>2. Showing'
  <2>1. c \in Publishing <=> c.call = "publish"
    BY <1>a DEF Publishing
  <2>2. c \in Publishing /\ c \in SaysSnap => shown' = Snap
    BY <1>a, <2>1 DEF SaysSnap
  <2>3. c \notin Publishing /\ shown = Snap => shown' = Snap
    BY <1>a, <2>1
  <2>4. ShownIsTold => LastWord(Tail(hostLock), Publishing, SaysSnap, shown' = Snap)
    BY <1>1, <1>a, <2>2, <2>3, WordLeads DEF ShownIsTold
  <2>5. ShownIsTold => ShownIsTold'
    BY <1>a, <1>c, <2>4 DEF ShownIsTold
  <2> QED BY <1>f, <2>5 DEF Telling, Showing
<1>3. Answering'
  <2> SUFFICES ASSUME NEW o \in Op
               PROVE  /\ publication'[o].stage = "asked" => LastWord(hostLock', Speaking, By(o), FALSE)
                      /\ op[o].pc = "stopping" /\ publication'[o].stage = "idle" => NoneIn(hostLock', Speaking)
    BY <1>c DEF Answering
  <2>1. CASE publication'[o] = publication[o] /\ c.by # o
    <3>1. c \notin By(o)
      BY <2>1 DEF By
    <3>2. LastWord(hostLock, Speaking, By(o), FALSE) => LastWord(Tail(hostLock), Speaking, By(o), FALSE)
      BY <1>1, <1>a, <3>1, WordLeads
    <3>3. NoneIn(hostLock, Speaking) => NoneIn(Tail(hostLock), Speaking)
      BY <1>a, NoneLeads
    <3> QED BY <1>a, <2>1, <3>2, <3>3 DEF Telling, Answering
  <2>2. CASE c.by = o /\ publication[o].stage = "asked" /\ publication'[o].stage = "idle"
    <3>1. LastWord(hostLock, Speaking, By(o), FALSE)
      BY <2>2 DEF Telling, Answering
    <3>2. PICK i \in DOMAIN hostLock :
            hostLock[i] \in By(o) /\ \A j \in DOMAIN hostLock : j > i => hostLock[j] \notin Speaking
      BY <3>1 DEF LastWord
    <3>3. hostLock[i].by = hostLock[1].by /\ hostLock[i].by # None
      BY <1>b, <2>2, <3>2, NamesApart DEF By
    <3>4. i = 1
      BY <1>b, <3>3 DEF IInv, Hosting, Calls
    <3>5. NoneIn(hostLock', Speaking)
      <4> SUFFICES ASSUME NEW j \in DOMAIN hostLock' PROVE hostLock'[j] \notin Speaking
        BY DEF NoneIn
      <4>1. j + 1 \in DOMAIN hostLock /\ j + 1 > 1 /\ hostLock'[j] = hostLock[j + 1]
        BY <1>b
      <4> QED BY <3>2, <3>4, <4>1
    <3> QED BY <2>2, <3>5
  <2> QED BY <1>e, <2>1, <2>2
<1>4. SlotsAreSilent'
  <2>1. NoneIn(hostLock, BySlots) => NoneIn(Tail(hostLock), BySlots)
    BY <1>a, NoneLeads
  <2> QED BY <1>a, <1>c, <2>1 DEF Telling, SlotsAreSilent, Stopping
<1>5. Following'
  <2>1. c \in Speaking /\ c \in SaysLive => (hostActive' <=> state = "live")
    BY <1>d DEF SaysLive
  <2>2. c \notin Speaking /\ (hostActive <=> state = "live") => (hostActive' <=> state = "live")
    BY <1>d
  <2>3. LiveIsTold => LastWord(Tail(hostLock), Speaking, SaysLive, hostActive' <=> state = "live")
    BY <1>1, <1>a, <2>1, <2>2, WordLeads DEF LiveIsTold
  <2>4. LiveIsTold => LiveIsTold'
    BY <1>a, <1>c, <2>3 DEF LiveIsTold
  <2> QED BY <1>f, <2>4 DEF Telling, Following
<1>6. Voices'
  <2>1. \A g : Speaker(g) => Speaker(g)'
    BY <1>c DEF Speaker
  <2>2. IsLive(c) => Speaker(c.snapshot.generation)
    BY <1>b DEF Telling, Voices
  <2>3. hostActive => Speaker(hostIdentity)
    BY DEF Telling, Voices
  <2>4. hostActive' => Speaker(hostIdentity')
    BY <1>d, <2>2, <2>3
  <2>5. \A j \in DOMAIN hostLock' : IsLive(hostLock'[j]) => Speaker(hostLock'[j].snapshot.generation)
    BY <1>b DEF Telling, Voices, IsLive
  <2> QED BY <1>c, <2>4, <2>5 DEF Voices, Speaker, IsLive
<1>7. Timing'
  <2>1. hostActive /\ host = "none" => Cancels(c)
    BY <1>1 DEF Telling, Timing
  <2>2. ~hostActive => host = "none"
    BY DEF Telling, Timing
  <2>3. hostActive /\ IsLive(c) => c.snapshot.generation = hostIdentity
    <3>1. ASSUME hostActive, IsLive(c)
          PROVE  Speaker(c.snapshot.generation) /\ Speaker(hostIdentity)
      BY <1>b, <3>1 DEF Telling, Voices
    <3> QED BY <3>1, OneSpeaker
  <2>4. hostActive /\ IsLive(c) => ~Cancels(c)
    BY <2>3 DEF Cancels, IsLive, IsReset
  <2>5. c \in Speaking /\ ~IsLive(c) => Cancels(c)
    BY <1>a, <1>g DEF Cancels, Call
  <2>6. (hostActive' => host' # "none") /\ (~hostActive' => host' = "none")
    BY <1>d, <2>1, <2>2, <2>4, <2>5
  <2> QED BY <2>6 DEF Timing
<1> QED BY <1>2, <1>3, <1>4, <1>5, <1>6, <1>7 DEF Telling

LEMMA TellingKept ==
  ASSUME IInv, Transports, Broadcasting, Telling, [Next]_vars
  PROVE  Telling'
<1>1. Kinds
  BY StepKinds
<1>2. Aside => Telling'
  BY AsideKeeps
<1>3. HostApplies => Telling'
  BY AppliesKeeps
<1>4. ASSUME NEW s \in Slot
      PROVE  Resets(s) \/ Tells(s) => Telling'
  BY ResetKeeps, TaskTells
<1>5. ASSUME NEW o \in Op
      PROVE  /\ Updates(o) \/ OpTells(o) \/ Readies(o) => Telling'
             /\ NarrationSwitched(o) \/ Drains(o) \/ OpStarts(o) => Telling'
  <2>1. Updates(o) => Telling'
    BY UpdateKeeps
  <2>2. OpTells(o) => Telling'
    BY OpTellsKeeps
  <2>3. Readies(o) => Telling'
    BY ReadyKeeps
  <2>4. NarrationSwitched(o) => Telling'
    BY SwitchKeeps
  <2>5. Drains(o) => Telling'
    BY DrainKeeps
  <2>6. OpStarts(o) => Telling'
    BY StartKeeps
  <2> QED BY <2>1, <2>2, <2>3, <2>4, <2>5, <2>6
<1> QED BY <1>1, <1>2, <1>3, <1>4, <1>5 DEF Kinds

LEMMA TellingAtFirst == Init => SInv
<1> SUFFICES ASSUME Init PROVE SInv
  OBVIOUS
<1>1. IInv
  BY InitHolds
<1>2. /\ \A s \in Slot : task[s].pc = "none"
      /\ \A o \in Op : op[o].pc = "unsent"
      /\ \A p \in Publisher : publication[p].stage = "idle"
      /\ \A g \in Generation : thread[g] = "none" /\ query[g] = "none"
      /\ hostLock = <<>> /\ generation = 0 /\ gateway = None /\ state = "stopped"
      /\ shown = Snap /\ ~hostActive /\ host = "none"
  BY DEF Init, ServiceInit, NoTask, NoOp, Quiescent, Snap, Stopped
<1>3. Transports
  BY <1>2, NamesApart DEF Transports
<1>4. Broadcasting
  BY <1>2, NamesApart DEF Broadcasting, Broadcasts
<1>5. Told
  BY <1>2, NamesApart DEF Told
<1>6. \A S : NoneIn(hostLock, S)
  BY <1>2 DEF NoneIn
<1>7. Showing /\ Answering /\ SlotsAreSilent /\ Following
  BY <1>2, <1>6, NamesApart DEF Showing, ShownIsTold, Answering, SlotsAreSilent, Following,
     LiveIsTold, LastWord
<1>8. Voices /\ Timing
  BY <1>2 DEF Voices, Timing
<1> QED BY <1>1, <1>3, <1>4, <1>5, <1>7, <1>8 DEF SInv, Telling

LEMMA SInvKept ==
  ASSUME SInv, [Next]_vars
  PROVE  SInv'
<1>1. IInv /\ Transports /\ Broadcasting /\ Told /\ Telling
  BY DEF SInv
<1>2. IInv' /\ Transports' /\ Broadcasting' /\ Told' /\ Telling'
  BY <1>1, IInvKept, TransportsKept, BroadcastingKept, ToldKept, TellingKept
<1> QED BY <1>2 DEF SInv

(* What is left to say when everything has been handled: nothing.          *)
LEMMA QuietSays ==
  ASSUME SInv, Quiet
  PROVE  /\ shown = Snap /\ (hostActive <=> state = "live") /\ ~Stopping
         /\ gateway = generation => ConnectionIsTold
         /\ \A S, V, b : LastWord(hostLock, S, V, b) => b
         /\ \A S, V, b : LastWord(lock, S, V, b) => b
<1>1. IInv /\ Told /\ Telling
  BY DEF SInv
<1>2. lock = <<>> /\ hostLock = <<>>
  BY DEF Quiet
<1>3. /\ \A S, V, b : LastWord(hostLock, S, V, b) => b
      /\ \A S, V, b : LastWord(lock, S, V, b) => b
  BY <1>2 DEF LastWord
<1>4. \A o \in Op : op[o].pc \notin Inside
  BY <1>1, <1>2 DEF IInv, Queueing, Holds
<1>5. ~Late /\ ~Readying /\ ~Stopping
  BY <1>1, <1>4, PublisherIsInside DEF Late, Readying, Stopping, Inside
<1>6. ShownIsTold /\ LiveIsTold
  BY <1>1, <1>5 DEF Telling, Showing, Following
<1> HIDE DEF Snap
<1>7. shown = Snap
  BY <1>3, <1>6 DEF ShownIsTold
<1>8. hostActive <=> state = "live"
  BY <1>3, <1>6, Zenon DEF LiveIsTold
<1> QED BY <1>1, <1>3, <1>5, <1>7, <1>8 DEF Told

(* The strengthening of IInv that the next two theorems need holds in every*)
(* reachable state: who will have the last word on the lock and on the lock*)
(* of the host, whenever a step is taken.                                  *)
THEOREM LastWordsHold == Spec => []SInv
<1>1. SInv /\ [Next]_vars => SInv'
  BY SInvKept
<1> QED
  BY TellingAtFirst, <1>1, PTL DEF Spec

(* Once everything is handled, the public state says whether the transport *)
(* is up and the clients saw it last: no stale callback, cancelled task or *)
(* overtaken publication has the last word (emit_status_snapshot,          *)
(* _handle_status, _cancel_callback_tasks).                                *)
THEOREM PublicStateHolds == Spec => []PublicStateIsCurrent
<1>1. ASSUME SInv
      PROVE  PublicStateIsCurrent
  <2> SUFFICES ASSUME Quiet
               PROVE  /\ shown = Snap
                      /\ gateway = generation => (connected <=> thread[generation] = "up")
                      /\ state \in {"live", "prelive"} => connected
    BY DEF PublicStateIsCurrent
  <2>1. shown = Snap
    BY <1>1, QuietSays
  <2>2. gateway = generation => (connected <=> IsUp)
    BY <1>1, QuietSays, Zenon DEF ConnectionIsTold
  <2>3. state \in {"live", "prelive"} => connected
    BY <1>1 DEF SInv, Broadcasting, Broadcasts
  <2> QED BY <2>1, <2>2, <2>3 DEF IsUp
<1> QED
  BY LastWordsHold, <1>1, PTL

(* Once everything is handled, the timer of the proactive host is armed    *)
(* exactly while the room is live, and for its generation, whatever calls  *)
(* were cancelled, delayed or made twice on the way (update_status,        *)
(* notify_activity).                                                       *)
THEOREM HostFollowsHolds == Spec => []HostFollowsSession
<1>1. ASSUME SInv
      PROVE  HostFollowsSession
  <2> SUFFICES ASSUME Quiet
               PROVE  /\ hostActive <=> state = "live"
                      /\ hostActive => hostIdentity = generation /\ host # "none"
                      /\ ~hostActive => host = "none"
    BY DEF HostFollowsSession
  <2>1. (hostActive <=> state = "live") /\ ~Stopping
    BY <1>1, QuietSays
  <2>2. hostActive => Speaker(hostIdentity)
    BY <1>1 DEF SInv, Telling, Voices
  <2>3. hostActive => hostIdentity = generation
    BY <2>1, <2>2 DEF Speaker, Stopping
  <2>4. (hostActive => host # "none") /\ (~hostActive => host = "none")
    BY <1>1 DEF SInv, Telling, Timing, Quiet
  <2> QED BY <2>1, <2>3, <2>4
<1> QED
  BY LastWordsHold, <1>1, PTL
=============================================================================
