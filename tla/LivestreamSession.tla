------------------------- MODULE LivestreamSession -------------------------
(***************************************************************************)
(* The livestream session: room commands that replace the gateway under    *)
(* one lock, the callback tasks its gateways cause, the status every       *)
(* change publishes, and what follows the session: the reply runtime, the  *)
(* scene runtime, the narration and the timer of the proactive host.       *)
(*                                                                         *)
(* An action is the code between two suspensions of a task on the event    *)
(* loop of the server.  asyncio locks are kept as their queue: the holder  *)
(* first, then the waiters.                                                *)
(***************************************************************************)
EXTENDS DanmakuService, Queues, SequencesExt

CONSTANTS Op,   \* room commands: each is sent once, in the order of their numbers
          Slot, \* bound: callback tasks at a time; a new one takes the first free
          Room, \* room ids, numbered in the order they are first asked for
          None  \* no room, no generation, no command

ASSUME SessionAssumption ==
  /\ Op \subseteq Nat /\ Slot \subseteq Nat /\ Room \subseteq Nat /\ None \notin Nat
  /\ Op \intersect Slot = {}
  /\ IsFiniteSet(Op) /\ Cardinality(Op) <= MaxGeneration

VARIABLES
  \* LivestreamSession
  lock,        \* _lock
  generation,  \* _snapshot.generation_id
  state,       \* _snapshot.state
  connected,   \* _snapshot.connected
  desired,     \* _snapshot.desired_room_id
  gateway,     \* _gateway: the generation that started it
  replies,     \* the generation of DanmakuReplyRuntime
  scene,       \* the generation of the scene runtime
  op,          \* the room commands
  task,        \* _callback_tasks
  \* emit_status_snapshot
  publication, \* the publication each command or task waits for
  narrated,    \* _narration_generation_id
  shown,       \* the snapshot the clients saw last
  \* ProactiveTopicRuntime
  hostLock,    \* _transition_lock, with the call each caller makes
  hostWait,    \* the holder waits for the cancelled timer task
  hostActive,  \* _active
  hostIdentity,\* the generation of _identity
  host         \* _task

snapshotVars == <<generation, state, connected, desired>>
followerVars == <<replies, scene>>
publishVars == <<publication, narrated, shown>>
timerVars == <<hostWait, hostActive, hostIdentity, host>>
vars == <<serviceVars, lock, snapshotVars, gateway, followerVars, op, task, publishVars,
          hostLock, timerVars>>

Publisher == Op \union Slot
Active == {"connecting", "prelive", "live", "reconnecting"}
States == Active \union {"stopped", "stopping", "error"}
Snapshot == [generation : Nat, state : States, connected : BOOLEAN, desired : Room \union {None}]
NoTask == [pc |-> "none", gen |-> 0, kind |-> "up"]

TypeOK ==
  /\ ServiceTypeOK
  /\ lock \in Seq(Publisher) /\ IsInjective(lock)
  /\ [generation |-> generation, state |-> state, connected |-> connected,
      desired |-> desired] \in Snapshot
  /\ gateway \in Generation \union {None}
  /\ replies \in 0..MaxGeneration /\ scene \in 0..MaxGeneration
  /\ op \in [Op -> [pc : {"unsent", "waiting", "scene", "stopping", "switching",
                          "closing", "connecting", "renewing", "announcing", "starting",
                          "failing", "stopped", "done"},
                    room : Room \union {None}, expected : Nat \union {None},
                    old : Generation \union {None}]]
  /\ task \in [Slot -> [pc : {"none", "new", "publishing", "sinking", "again", "showing", "submitting"},
                        gen : Nat, kind : Callbacks]]
  /\ publication \in [Publisher -> [stage : {"idle", "narrating", "asked"}, snapshot : Snapshot]]
  /\ narrated \in Generation \union {None} /\ shown \in Snapshot
  /\ \A i \in DOMAIN hostLock : hostLock[i].by \in Publisher \union {None}
  /\ hostWait \in BOOLEAN /\ hostActive \in BOOLEAN
  /\ hostIdentity \in Generation \union {None} /\ host \in {"none", "armed"}

NoOp == [pc |-> "unsent", room |-> None, expected |-> None, old |-> None]
Stopped == [generation |-> 0, state |-> "stopped", connected |-> FALSE, desired |-> None]
Quiescent == [stage |-> "idle", snapshot |-> Stopped]

Init ==
  /\ ServiceInit
  /\ lock = <<>> /\ gateway = None /\ replies = 0 /\ scene = 0
  /\ generation = 0 /\ state = "stopped" /\ connected = FALSE /\ desired = None
  /\ op = [o \in Op |-> NoOp]
  /\ task = [s \in Slot |-> NoTask]
  /\ publication = [p \in Publisher |-> Quiescent]
  /\ narrated = None /\ shown = Stopped
  /\ hostLock = <<>> /\ hostWait = FALSE
  /\ hostActive = FALSE /\ hostIdentity = None /\ host = "none"

Holds(p) == lock # <<>> /\ Head(lock) = p
Release == lock' = Tail(lock)
Snap == [generation |-> generation, state |-> state, connected |-> connected, desired |-> desired]

Transition(new, isConnected, room, gen) ==
  state' = new /\ connected' = isConnected /\ desired' = room /\ generation' = gen
-----------------------------------------------------------------------------
(* emit_status_snapshot.                                                   *)

HostCall(p, call, snapshot) ==
  hostLock' = Append(hostLock, [by |-> p, call |-> call, snapshot |-> snapshot])

(* A new generation cancels the narration first, and waits for it.         *)
Publish(p, snapshot) ==
  IF narrated \in {None, snapshot.generation}
  THEN /\ narrated' = snapshot.generation
       /\ publication' = [publication EXCEPT ![p] = [stage |-> "asked", snapshot |-> snapshot]]
       /\ HostCall(p, "publish", snapshot)
       /\ UNCHANGED shown
  ELSE /\ publication' = [publication EXCEPT ![p] = [stage |-> "narrating", snapshot |-> snapshot]]
       /\ UNCHANGED <<narrated, shown, hostLock>>

NarrationSwitched(p) ==
  LET snapshot == publication[p].snapshot IN
  /\ publication[p].stage = "narrating"
  /\ narrated' = snapshot.generation
  /\ publication' = [publication EXCEPT ![p].stage = "asked"]
  /\ HostCall(p, "publish", snapshot)
  /\ UNCHANGED <<serviceVars, lock, snapshotVars, gateway, followerVars, op, task, shown, timerVars>>

Published(p) == publication[p].stage = "idle"
-----------------------------------------------------------------------------
(* ProactiveTopicRuntime: the holder of the transition lock cancels the    *)
(* timer task if its call says so, waits for it, and arms another.         *)

IsLive(c) == c.call \in {"publish", "update"} /\ c.snapshot.state = "live"
IsReset(c) == c.call = "activity" /\ hostActive

(* Mutant: only a live snapshot cancels the timer.                         *)
CancelsLiveOnly(c) == (IsLive(c) /\ c.snapshot.generation # hostIdentity) \/ IsReset(c)

Cancels(c) ==
  \/ c.call \in {"publish", "update"} /\ ~IsLive(c)
  \/ IsLive(c) /\ c.snapshot.generation # hostIdentity
  \/ IsReset(c)

HostCancels ==
  /\ hostLock # <<>> /\ Cancels(Head(hostLock)) /\ host # "none"
  /\ host' = "none" /\ hostWait' = TRUE
  /\ UNCHANGED <<serviceVars, lock, snapshotVars, gateway, followerVars, op, task, publishVars,
                 hostLock, hostActive, hostIdentity>>

HostUnwinds ==
  /\ hostWait /\ hostWait' = FALSE
  /\ UNCHANGED <<serviceVars, lock, snapshotVars, gateway, followerVars, op, task, publishVars,
                 hostLock, hostActive, hostIdentity, host>>

(* Mutant: the identity follows every snapshot.                            *)
HostAppliesIdentityAlways ==
  LET c == Head(hostLock) IN
  /\ hostLock # <<>> /\ ~hostWait /\ (Cancels(c) => host = "none")
  /\ hostLock' = Tail(hostLock)
  /\ hostIdentity' = c.snapshot.generation
  /\ task' = IF c.call = "activity" THEN [task EXCEPT ![c.by].pc = "submitting"] ELSE task
  /\ publication' = IF c.call = "publish" THEN [publication EXCEPT ![c.by] = Quiescent] ELSE publication
  /\ UNCHANGED <<serviceVars, lock, snapshotVars, gateway, followerVars, op, narrated, shown,
                 hostWait, hostActive, host>>

(* The rest of the call; a publication then goes out to the clients.       *)
HostApplies ==
  LET c == Head(hostLock) IN
  /\ hostLock # <<>> /\ ~hostWait /\ (Cancels(c) => host = "none")
  /\ hostLock' = Tail(hostLock)
  /\ hostActive' = IF c.call = "activity" THEN hostActive ELSE IsLive(c)
  /\ hostIdentity' = IF IsLive(c) THEN c.snapshot.generation ELSE hostIdentity
  /\ host' = IF IsReset(c) \/ (IsLive(c) /\ ~hostActive) THEN "armed" ELSE host
  /\ IF c.call = "publish"
     THEN /\ shown' = c.snapshot
          /\ publication' = [publication EXCEPT ![c.by] = Quiescent]
     ELSE UNCHANGED <<shown, publication>>
  /\ task' = IF c.call = "activity" THEN [task EXCEPT ![c.by].pc = "submitting"] ELSE task
  /\ UNCHANGED <<serviceVars, lock, snapshotVars, gateway, followerVars, op, narrated, hostWait>>
-----------------------------------------------------------------------------
(* Callback tasks.                                                         *)

(* call_soon_threadsafe(create_task): the task starts with the lock.       *)
CreateTask(g, s) ==
  /\ task[s].pc = "none" /\ \A t \in Slot : t < s => task[t].pc # "none"
  /\ \E callback \in Callbacks :
       /\ ThreadTells(g, callback)
       /\ task' = [task EXCEPT ![s] = [pc |-> "new", gen |-> g, kind |-> callback]]
  /\ lock' = Append(lock, s)
  /\ UNCHANGED <<snapshotVars, gateway, followerVars, op, publishVars, hostLock, timerVars>>

(* Mutant: any gateway will do.                                            *)
CurrentAnyGeneration(s) == gateway # None

Current(s) == task[s].gen = generation /\ gateway # None
Ends(s) == task' = [task EXCEPT ![s] = NoTask]
Goes(s, pc) == task' = [task EXCEPT ![s].pc = pc]

Discards(s) ==
  /\ Holds(s) /\ task[s].pc \in {"new", "again"} /\ ~Current(s)
  /\ Release /\ Ends(s)
  /\ UNCHANGED <<serviceVars, snapshotVars, gateway, followerVars, op, publishVars, hostLock, timerVars>>

(* _handle_status publishes under the lock.                                *)
HandleStatus(s) ==
  /\ Holds(s) /\ task[s].pc = "new" /\ Current(s)
  /\ \/ task[s].kind = "up" /\ Transition("connecting", TRUE, desired, generation)
     \/ task[s].kind = "down" /\ Transition("reconnecting", FALSE, desired, generation)
     \/ task[s].kind = "fatal" /\ Transition("error", FALSE, desired, generation)
  /\ Goes(s, "publishing")
  /\ Publish(s, Snap')
  /\ UNCHANGED <<serviceVars, lock, gateway, followerVars, op, timerVars>>

(* _handle_event publishes a broadcast state after it gave up the lock.    *)
HandleEvent(s) ==
  /\ Holds(s) /\ task[s].pc = "new" /\ Current(s)
  /\ task[s].kind \in Broadcasts
  /\ Release
  /\ IF connected /\ state # task[s].kind
     THEN /\ Transition(task[s].kind, connected, desired, generation)
          /\ Goes(s, "publishing") /\ Publish(s, Snap')
     ELSE Ends(s) /\ UNCHANGED <<snapshotVars, publishVars, hostLock>>
  /\ UNCHANGED <<serviceVars, gateway, followerVars, op, timerVars>>

TaskPublished(s) ==
  /\ task[s].pc = "publishing" /\ Published(s)
  /\ Ends(s)
  /\ IF s \in ToSet(lock) THEN Release ELSE UNCHANGED lock
  /\ UNCHANGED <<serviceVars, snapshotVars, gateway, followerVars, op, publishVars, hostLock, timerVars>>

(* An event with a text goes to the raw event sink, and passes the lock    *)
(* once more as a message.                                                 *)
EventBecomesMessage(s) ==
  \/ /\ Holds(s) /\ task[s].pc = "new" /\ task[s].kind = "message" /\ Current(s)
     /\ Release /\ Goes(s, "sinking")
     /\ UNCHANGED <<serviceVars, snapshotVars, gateway, followerVars, op, publishVars, hostLock,
                    timerVars>>
  \/ /\ task[s].pc = "sinking"
     /\ lock' = Append(lock, s) /\ Goes(s, "again")
     /\ UNCHANGED <<serviceVars, snapshotVars, gateway, followerVars, op, publishVars, hostLock,
                    timerVars>>

(* The raw message sink resets the silence of the host.  What comes before *)
(* it, observe_danmaku, is awaited and never waits (SceneAnalysisRuntime). *)
HandleMessage(s) ==
  /\ Holds(s) /\ task[s].pc = "again" /\ Current(s)
  /\ Release /\ Goes(s, "showing")
  /\ HostCall(s, "activity", Stopped)
  /\ UNCHANGED <<serviceVars, snapshotVars, gateway, followerVars, op, publishVars, timerVars>>

Submits(s) ==
  /\ task[s].pc = "submitting"
  /\ Ends(s)
  /\ UNCHANGED <<serviceVars, lock, snapshotVars, gateway, followerVars, op, publishVars, hostLock, timerVars>>

(* _cancel_callback_tasks: no task is left when it returns, and none of    *)
(* its calls.                                                              *)
Others(queue, S) == Kept(queue, {i \in DOMAIN queue : queue[i] \notin S})

(* Mutant: a task that had the lock before is left alone.                  *)
CancelWaitingTasks ==
  /\ task' = [s \in Slot |-> IF task[s].pc = "new" THEN NoTask ELSE task[s]]
  /\ lock' = Others(lock, {s \in Slot : task[s].pc = "new"})
  /\ UNCHANGED <<publishVars, hostLock, timerVars>>

CancelCallbackTasks ==
  /\ task' = [s \in Slot |-> NoTask]
  /\ lock' = Others(lock, Slot)
  /\ publication' = [p \in Publisher |-> IF p \in Slot THEN Quiescent ELSE publication[p]]
  /\ hostLock' = Kept(hostLock, {i \in DOMAIN hostLock : hostLock[i].by \notin Slot})
  /\ hostWait' = (hostWait /\ Head(hostLock).by \notin Slot)
  /\ UNCHANGED <<narrated, shown, hostActive, hostIdentity, host>>

TaskStep(s) ==
  \/ Discards(s) \/ HandleStatus(s) \/ HandleEvent(s) \/ TaskPublished(s)
  \/ EventBecomesMessage(s) \/ HandleMessage(s) \/ Submits(s) \/ NarrationSwitched(s)
-----------------------------------------------------------------------------
(* Room commands: set_room, or stop when the room is None.                 *)

Known(room) == room = desired \/ room = shown.desired \/ \E o \in Op : op[o].room = room

(* A client sends what it saw, or no generation.                           *)
Send(o, room, expected) ==
  /\ op[o].pc = "unsent" /\ \A p \in Op : p < o => op[p].pc # "unsent"
  /\ room # None => \A r \in Room : r < room => Known(r)
  /\ op' = [op EXCEPT ![o] = [pc |-> "waiting", room |-> room, expected |-> expected, old |-> None]]
  /\ lock' = Append(lock, o)
  /\ UNCHANGED <<serviceVars, snapshotVars, gateway, followerVars, task, publishVars, hostLock, timerVars>>

OpAt(o, pc) == op[o].pc = pc
OpGoes(o, pc) == op' = [op EXCEPT ![o].pc = pc]
OpEnds(o) == op' = [op EXCEPT ![o] = [NoOp EXCEPT !.pc = "done"]]

Refused(o) == op[o].expected \notin {None, generation}

Satisfied(o) ==
  IF op[o].room = None THEN gateway = None /\ state = "stopped"
  ELSE gateway # None /\ desired = op[o].room /\ state \in Active

OpEnters(o) ==
  /\ OpAt(o, "waiting") /\ Holds(o)
  /\ \/ /\ Refused(o)
        /\ OpEnds(o) /\ Release /\ UNCHANGED hostLock
     \/ /\ ~Refused(o) /\ Satisfied(o)
        /\ OpEnds(o) /\ Release
        /\ IF op[o].room = None THEN HostCall(None, "update", Snap) ELSE UNCHANGED hostLock
     \/ /\ ~Refused(o) /\ ~Satisfied(o)
        /\ op' = [op EXCEPT ![o].pc = "scene", ![o].expected = None]
        /\ UNCHANGED <<lock, hostLock>>
  /\ UNCHANGED <<serviceVars, snapshotVars, gateway, followerVars, task, publishVars, timerVars>>

(* Mutant: the command forgets the gateway it detached.                    *)
SceneSwitchedForgetful(o) ==
  LET next == generation + 1 IN
  /\ OpAt(o, "scene")
  /\ scene' = next /\ gateway' = None
  /\ Transition("stopping", FALSE, op[o].room, next)
  /\ op' = [op EXCEPT ![o].pc = "stopping"]
  /\ Publish(o, Snap')
  /\ UNCHANGED <<serviceVars, lock, replies, task, timerVars>>

(* The scene runtime is switched first; a stop without a room leaves it.   *)
SceneSwitched(o) ==
  LET next == generation + 1 IN
  /\ OpAt(o, "scene")
  /\ scene' = IF op[o].room = None /\ desired = None THEN scene ELSE next
  /\ gateway' = None
  /\ IF op[o].room # None /\ gateway = None
     THEN /\ Transition("connecting", FALSE, op[o].room, next)
          /\ op' = [op EXCEPT ![o].pc = "connecting"]
          /\ UNCHANGED <<publishVars, hostLock>>
     ELSE /\ Transition("stopping", FALSE, op[o].room, next)
          /\ op' = [op EXCEPT ![o].pc = "stopping", ![o].old = gateway]
          /\ Publish(o, Snap')
  /\ UNCHANGED <<serviceVars, lock, replies, task, timerVars>>

OpDrains(o, from, to) ==
  /\ OpAt(o, from) /\ Published(o)
  /\ CancelCallbackTasks
  /\ OpGoes(o, to)
  /\ UNCHANGED <<serviceVars, snapshotVars, gateway, followerVars>>

(* The replies are switched, and every worker is gone; the thread of the   *)
(* gateway is told to end at once, the wait comes next.                    *)
OpCloses(o) ==
  /\ OpAt(o, "switching")
  /\ replies' = generation
  /\ IF op[o].old = None THEN UNCHANGED serviceVars ELSE StopThread(op[o].old)
  /\ OpGoes(o, "closing")
  /\ UNCHANGED <<lock, snapshotVars, gateway, scene, task, publishVars, hostLock, timerVars>>

(* Whether the wait ends in time says nothing of the thread.  A gateway    *)
(* that could not be stopped stays the one the session owns.               *)
OpClosed(o, failed) ==
  /\ OpAt(o, "closing") /\ (failed => op[o].old # None)
  /\ gateway' = IF failed THEN op[o].old ELSE None
  /\ IF op[o].room = None
     THEN /\ Transition("stopped", FALSE, None, generation)
          /\ OpGoes(o, "stopped") /\ Publish(o, Snap')
     ELSE IF failed
     THEN /\ Transition("error", FALSE, desired, generation)
          /\ OpGoes(o, "failing") /\ Publish(o, Snap')
     ELSE /\ Transition("connecting", FALSE, desired, generation)
          /\ OpGoes(o, "connecting") /\ UNCHANGED <<publishVars, hostLock>>
  /\ UNCHANGED <<serviceVars, lock, followerVars, task, timerVars>>

OpAnnounces(o) ==
  /\ OpAt(o, "renewing")
  /\ replies' = generation
  /\ OpGoes(o, "announcing") /\ Publish(o, Snap)
  /\ UNCHANGED <<serviceVars, lock, snapshotVars, gateway, scene, task, timerVars>>

OpStarts(o) ==
  /\ OpAt(o, "announcing") /\ Published(o)
  /\ gateway' = generation
  /\ StartThread(generation)
  /\ OpGoes(o, "starting")
  /\ UNCHANGED <<lock, snapshotVars, followerVars, task, publishVars, hostLock, timerVars>>

(* The factory or start raised: no thread was started.                     *)
OpCannotStart(o) ==
  /\ OpAt(o, "announcing") /\ Published(o)
  /\ gateway' = None
  /\ Transition("error", FALSE, desired, generation)
  /\ OpGoes(o, "failing") /\ Publish(o, Snap')
  /\ UNCHANGED <<serviceVars, lock, followerVars, task, timerVars>>

(* Mutant: the error path keeps the lock.                                  *)
OpReturnsUnlessFailing(o) ==
  /\ op[o].pc \in {"starting", "failing", "stopped"} /\ Published(o)
  /\ OpEnds(o)
  /\ IF op[o].pc = "failing" THEN UNCHANGED lock ELSE Release
  /\ UNCHANGED <<serviceVars, snapshotVars, gateway, followerVars, task, publishVars, hostLock,
                 timerVars>>

(* stop_bilibili hands the snapshot to the proactive host once more.       *)
OpReturns(o) ==
  /\ op[o].pc \in {"starting", "failing", "stopped"} /\ Published(o)
  /\ OpEnds(o) /\ Release
  /\ IF op[o].room = None THEN HostCall(None, "update", Snap) ELSE UNCHANGED hostLock
  /\ UNCHANGED <<serviceVars, snapshotVars, gateway, followerVars, task, publishVars, timerVars>>

OpStep(o) ==
  \/ OpEnters(o) \/ SceneSwitched(o) \/ NarrationSwitched(o)
  \/ OpDrains(o, "stopping", "switching") \/ OpDrains(o, "connecting", "renewing")
  \/ OpCloses(o) \/ \E failed \in BOOLEAN : OpClosed(o, failed)
  \/ OpAnnounces(o) \/ OpStarts(o) \/ OpCannotStart(o) \/ OpReturns(o)
-----------------------------------------------------------------------------
sessionVars == <<lock, snapshotVars, gateway, followerVars, op, task, publishVars, hostLock, timerVars>>

(* A step of the event loop.                                               *)
LoopStep ==
  \/ \E s \in Slot : TaskStep(s)
  \/ \E o \in Op : OpStep(o)
  \/ HostCancels \/ HostUnwinds \/ HostApplies

Next ==
  \/ LoopStep
  \/ \E g \in Generation : \/ ThreadWorks(g) /\ UNCHANGED sessionVars
                          \/ \E s \in Slot : CreateTask(g, s)
  \/ \E o \in Op, room \in Room \union {None}, expected \in {None, shown.generation} :
       Send(o, room, expected)

Spec == Init /\ [][Next]_vars

(* The event loop runs while one of its tasks can go on, and the sinks of  *)
(* the session return.  That a thread ends is nobody's promise.            *)
FairSpec == Spec /\ WF_vars(LoopStep)

(***************************************************************************)
(* Properties.                                                             *)
(***************************************************************************)
Quiet ==
  /\ lock = <<>> /\ hostLock = <<>>
  /\ \A s \in Slot : task[s].pc = "none"

(* Once everything has been handled, the public state tells whether the    *)
(* transport is up, and the clients were told last what is true now: no    *)
(* stale callback and no overtaken publication is the last word.           *)
PublicStateIsCurrent ==
  Quiet => /\ shown = Snap
           /\ gateway = generation => (connected <=> thread[generation] = "up")
           /\ state \in {"live", "prelive"} => connected

(* The proactive host is armed exactly while the room is live, and for its *)
(* generation: no cancelled caller, early return or late status loses the  *)
(* timer or leaves one behind.                                             *)
HostFollowsSession ==
  Quiet => /\ hostActive <=> state = "live"
           /\ hostActive => hostIdentity = generation /\ host # "none"
           /\ ~hostActive => host = "none"

(* When the next gateway starts, nothing of an older generation can act:   *)
(* the followers are at the new generation, the host is silent, and the    *)
(* callback tasks left have still to pass the lock.                        *)
RoomStartsClean ==
  \A o \in Op : op[o].pc = "starting" =>
    /\ replies = generation /\ scene = generation /\ narrated = generation
    /\ host = "none" /\ ~hostActive
    /\ \A s \in Slot : task[s].gen < generation => task[s].pc \in {"none", "new"}

(* The replies are switched while no callback task is on its way to them,  *)
(* and are only given messages of their own generation.                    *)
SwitchMeetsNoSubmitter ==
  /\ \A o \in Op : op[o].pc \in {"switching", "renewing"} =>
       \A s \in Slot : task[s].pc \notin {"showing", "submitting"}
  /\ \A s \in Slot : task[s].pc \in {"showing", "submitting"} => task[s].gen = replies

(* Two rooms never mix: both of the above (switch_room).                   *)
RoomsDoNotMix == RoomStartsClean /\ SwitchMeetsNoSubmitter

(* A transport that runs is owned, or is being replaced: any other has     *)
(* been told to end, however its stop went, and at most one runs.          *)
UnownedThreadsEnd ==
  \A g \in Generation : running[g] =>
    gateway = g \/ \E o \in Op : op[o].old = g /\ op[o].pc \in {"stopping", "switching"}

(* A room command returns, whatever the transport does.  Each is sent once *)
(* at most, so that they all return when time and again none is under way. *)
CommandsReturn == []<>(\A o \in Op : op[o].pc \in {"unsent", "done"})

(* _sync_initial_broadcast_state: once the transport is verified and the   *)
(* room has answered, the public state says whether it is live.            *)
StateFollowsQuery ==
  Quiet /\ gateway = generation /\ query[generation] = "answered"
    => state \in Broadcasts
=============================================================================
