--------------------------- MODULE ReplyPipeline ---------------------------
(***************************************************************************)
(* The AI replies of a livestream, from DanmakuReplyRuntime.submit to the  *)
(* last sentence: the bounded queue and its workers, the coordinator that  *)
(* puts the media of replies in submission order, the arbiter of the one   *)
(* public media channel, and the lock of the livestream conversation that  *)
(* every graph turn of the stream runs under.  Guests are the other users  *)
(* of the channel: the developer console and the proactive host (channel   *)
(* first, conversation second), the singer and the Minecraft narrator      *)
(* (channel only).                                                         *)
(*                                                                         *)
(* Everything runs on one event loop: an action is the code between two    *)
(* suspensions.  The sections under the conditions of the queue, the       *)
(* coordinator and the arbiter never suspend except in wait().             *)
(***************************************************************************)
EXTENDS Integers, Queues, Functions

CONSTANTS Reply,         \* viewer messages that pass the admission rules
          Rank,          \* ReplyPriority of each: lower is more urgent
          Worker,        \* generation_concurrency worker tasks
          MaxQueue,      \* max_queue_size
          Guest,         \* other users of the media channel
          GuestRank,     \* their priorities
          Converses,     \* guests that hold the channel during a graph turn
          Withdrawable,  \* guests with a deadline, or that activity cancels
          MaxGeneration, \* bound: livestream generations
          Nobody         \* None

User == Reply \union Guest

ASSUME PipelineAssumption ==
  /\ Rank \in [Reply -> Nat]
  /\ GuestRank \in [Guest -> Nat]
  /\ MaxQueue \in Nat \ {0}
  /\ MaxGeneration \in Nat
  /\ Converses \subseteq Guest /\ Withdrawable \subseteq Guest
  /\ Nobody \notin User /\ Reply \intersect Guest = {} /\ Reply \intersect Worker = {}
  /\ Reply \intersect {"absent", "idle"} = {}

VARIABLES
  \* DanmakuReplyRuntime and its queue
  exhaustive, \* policy.mode is "exhaustive", set before the first room
  generation, \* _generation_id
  switching,  \* switch_generation waits for the cancelled workers
  submitted,  \* _submission_sequence
  queue,      \* the replies of BoundedReplyQueue._entries, as inserted
  asleep,     \* workers and putters that wait on the condition of the queue
  worker,     \* what each worker task does
  admitted,   \* metrics.admitted
  terminal,   \* metrics.terminal_count
  \* the replies
  phase,      \* how far each one is
  born,       \* generation_id of its candidate
  sequence,   \* sequence of its candidate
  retried,    \* replies whose first attempt failed
  acquired,   \* replies whose ReplyMediaTurn was acquired
  completed,  \* replies whose ReplyMediaTurn is completed
  \* OrderedReplyMediaCoordinator
  nextTurn,   \* _next_sequence
  activeTurn, \* _active_sequence
  skipped,    \* _cancelled
  \* BroadcastMediaArbiter, and the conversation of the stream
  waiters,    \* users that wait for the channel, in arrival order
  channel,    \* the user whose token is _active
  conversation, \* the lock of the scope: its holder, then its waiters
  guest       \* what each guest does

runtimeVars == <<exhaustive, generation, switching, submitted, queue, asleep, worker,
                 admitted, terminal>>
replyVars == <<phase, born, sequence, retried, acquired, completed>>
coordinatorVars == <<nextTurn, activeTurn, skipped>>
sharedVars == <<waiters, channel, conversation, guest>>
vars == <<runtimeVars, replyVars, coordinatorVars, sharedVars>>

Phases == {"unsent", "putting", "queued", "composing", "generating", "ordering",
           "asking", "speaking", "closing", "unwinding", "ended"}
NoTurn == -1

TypeOK ==
  /\ exhaustive \in BOOLEAN /\ switching \in BOOLEAN
  /\ generation \in 0..MaxGeneration /\ submitted \in Nat
  /\ queue \in Seq(Reply) /\ Len(queue) <= MaxQueue
  /\ asleep \subseteq Worker \union Reply
  /\ worker \in [Worker -> Reply \union {"absent", "idle"}]
  /\ admitted \in Nat /\ terminal \in Nat
  /\ phase \in [Reply -> Phases] /\ born \in [Reply -> Nat] /\ sequence \in [Reply -> Nat]
  /\ retried \subseteq Reply /\ acquired \subseteq Reply /\ completed \subseteq Reply
  /\ nextTurn \in Nat /\ activeTurn \in Nat \union {NoTurn} /\ skipped \subseteq Nat
  /\ waiters \in Seq(User) /\ conversation \in Seq(User)
  /\ channel \in User \union {Nobody}
  /\ guest \in [Guest -> {"away", "asking", "holding", "conversing"}]

Init ==
  /\ exhaustive \in BOOLEAN
  /\ generation = 0 /\ switching = FALSE /\ submitted = 0
  /\ queue = <<>> /\ asleep = {} /\ worker = [w \in Worker |-> "absent"]
  /\ admitted = 0 /\ terminal = 0
  /\ phase = [r \in Reply |-> "unsent"]
  /\ born = [r \in Reply |-> 0] /\ sequence = [r \in Reply |-> 0]
  /\ retried = {} /\ acquired = {} /\ completed = {}
  /\ nextTurn = 0 /\ activeTurn = NoTurn /\ skipped = {}
  /\ waiters = <<>> /\ channel = Nobody /\ conversation = <<>>
  /\ guest = [g \in Guest |-> "away"]
-----------------------------------------------------------------------------
(* The coordinator.                                                        *)

(* finish and cancel agree: the numbers in S are over, and the order moves *)
(* on past every number that is.                                           *)
PassTurns(S) ==
  LET over == skipped \union {s \in S : s >= nextTurn}
      next == CHOOSE n \in nextTurn..(nextTurn + Cardinality(over)) :
                /\ n \notin over
                /\ \A k \in nextTurn..(n - 1) : k \in over
  IN /\ nextTurn' = next
     /\ skipped' = {k \in over : k > next}
     /\ activeTurn' = IF nextTurn \in S THEN NoTurn ELSE activeTurn

(* Mutant: a turn that ends keeps the channel.                             *)
EndTurnsKeepChannel(R) ==
  completed' = completed \union R /\ PassTurns({sequence[r] : r \in R \ completed}) /\ UNCHANGED channel

(* ReplyMediaTurn.finish and .cancel of each reply in R: the lease of the  *)
(* channel goes back first, then the number.                               *)
EndTurns(R) ==
  /\ completed' = completed \union R
  /\ channel' = IF channel \in R THEN Nobody ELSE channel
  /\ PassTurns({sequence[r] : r \in R \ completed})
-----------------------------------------------------------------------------
(* The queue.                                                              *)

(* The first submission of a generation creates the queue and its workers. *)
EnsureWorker == worker' = [w \in Worker |-> IF worker[w] = "absent" THEN "idle" ELSE worker[w]]

(* Mutant: an insertion wakes nobody.                                     *)
NotifyNone == UNCHANGED asleep

NotifyOne ==
  IF asleep \intersect Worker = {} THEN UNCHANGED asleep
  ELSE \E w \in asleep \intersect Worker : asleep' = asleep \ {w}

(* BoundedReplyQueue.put: the first entry of a lower priority makes room.  *)
Outranked(r) == Kept(queue, {i \in DOMAIN queue : Rank[queue[i]] > Rank[r]})
(* Mutant: the bound is noticed one entry late.                            *)
VictimsLate(r) == IF Len(queue) <= MaxQueue THEN {} ELSE {Head(Outranked(r))}

Victims(r) == IF Len(queue) < MaxQueue THEN {} ELSE {Head(Outranked(r))}
Rejected(r) == Len(queue) >= MaxQueue /\ Outranked(r) = <<>>

(* submit in selective mode never suspends.  A rejected submission has     *)
(* used up its number.                                                     *)
SubmitSelective(r) ==
  /\ ~exhaustive
  /\ IF Rejected(r)
     THEN /\ phase' = [phase EXCEPT ![r] = "ended"]
          /\ completed' = completed \union {r} /\ PassTurns({submitted})
          /\ UNCHANGED <<queue, asleep, admitted, terminal, channel>>
     ELSE LET out == Victims(r) IN
          /\ queue' = Append(Excluding(queue, out), r)
          /\ phase' = [q \in Reply |-> IF q = r THEN "queued"
                                       ELSE IF q \in out THEN "ended" ELSE phase[q]]
          /\ NotifyOne
          /\ admitted' = admitted + 1
          /\ terminal' = terminal + Cardinality(out)
          /\ EndTurns(out)

(* submit in exhaustive mode waits for room; put_wait wakes every sleeper. *)
Insert(r) ==
  /\ queue' = Append(queue, r) /\ phase' = [phase EXCEPT ![r] = "queued"]
  /\ asleep' = {} /\ admitted' = admitted + 1

SubmitExhaustive(r) ==
  /\ exhaustive
  /\ IF Len(queue) < MaxQueue THEN Insert(r)
     ELSE /\ phase' = [phase EXCEPT ![r] = "putting"]
          /\ asleep' = asleep \union {r}
          /\ UNCHANGED <<queue, admitted>>
  /\ UNCHANGED <<terminal, completed, coordinatorVars, channel>>

(* A callback task submits only while its generation is the current one    *)
(* and no switch is under way (LivestreamSession.SwitchMeetsNoSubmitter).  *)
Submit(r) ==
  /\ phase[r] = "unsent" /\ generation > 0 /\ ~switching
  /\ born' = [born EXCEPT ![r] = generation]
  /\ sequence' = [sequence EXCEPT ![r] = submitted]
  /\ submitted' = submitted + 1
  /\ EnsureWorker
  /\ SubmitSelective(r) \/ SubmitExhaustive(r)
  /\ UNCHANGED <<exhaustive, generation, switching, retried, acquired, waiters, conversation, guest>>

(* A putter that was woken looks at the room again.                        *)
PutAgain(r) ==
  /\ phase[r] = "putting" /\ r \notin asleep
  /\ IF Len(queue) < MaxQueue THEN Insert(r)
     ELSE asleep' = asleep \union {r} /\ UNCHANGED <<queue, phase, admitted>>
  /\ UNCHANGED <<exhaustive, generation, switching, submitted, worker, terminal, born, sequence,
                 retried, acquired, completed, coordinatorVars, sharedVars>>
-----------------------------------------------------------------------------
(* A worker.                                                               *)

(* get: the most urgent entry, the oldest of its priority; in exhaustive   *)
(* mode the oldest entry.                                                  *)
Chosen ==
  IF exhaustive THEN Head(queue)
  ELSE Head(Kept(queue, {i \in DOMAIN queue : \A q \in Range(queue) : Rank[queue[i]] <= Rank[q]}))

Awake(w) == worker[w] = "idle" /\ w \notin asleep /\ ~switching

FallsAsleep(w) ==
  /\ Awake(w) /\ queue = <<>>
  /\ asleep' = asleep \union {w}
  /\ UNCHANGED <<exhaustive, generation, switching, submitted, queue, worker, admitted, terminal,
                 replyVars, coordinatorVars, sharedVars>>

(* A selective worker drops a message that got too old in the queue.       *)
Takes(w, expired) ==
  /\ Awake(w) /\ queue # <<>>
  /\ queue' = Excluding(queue, {Chosen})
  /\ asleep' = {}
  /\ IF expired
     THEN /\ ~exhaustive
          /\ phase' = [phase EXCEPT ![Chosen] = "ended"] /\ terminal' = terminal + 1
          /\ EndTurns({Chosen})
          /\ UNCHANGED worker
     ELSE /\ phase' = [phase EXCEPT ![Chosen] = "composing"]
          /\ worker' = [worker EXCEPT ![w] = Chosen]
          /\ UNCHANGED <<terminal, completed, channel, coordinatorVars>>
  /\ UNCHANGED <<exhaustive, generation, switching, submitted, admitted, born, sequence, retried,
                 acquired, waiters, conversation, guest>>

Works(w, r) == worker[w] = r /\ r \in Reply /\ ~switching

(* The graph turn starts with the lock of the livestream scope.            *)
Converse(w, r) ==
  /\ Works(w, r) /\ phase[r] = "composing"
  /\ conversation' = Append(conversation, r)
  /\ phase' = [phase EXCEPT ![r] = "generating"]
  /\ UNCHANGED <<runtimeVars, born, sequence, retried, acquired, completed,
                 coordinatorVars, waiters, channel, guest>>

HoldsScope(u) == conversation # <<>> /\ Head(conversation) = u

(* The text is there: reply_output_node asks for the turn.                 *)
Generates(w, r) ==
  /\ Works(w, r) /\ phase[r] = "generating" /\ HoldsScope(r)
  /\ phase' = [phase EXCEPT ![r] = "ordering"]
  /\ UNCHANGED <<runtimeVars, born, sequence, retried, acquired, completed,
                 coordinatorVars, sharedVars>>

(* OrderedReplyMediaCoordinator.acquire, then the arbiter.                 *)
(* Mutant: only the holder is looked at, not the number.                   *)
OrderedByHolder(r) == activeTurn \in {NoTurn, sequence[r]}

Ordered(r) ==
  \/ sequence[r] < nextTurn
  \/ sequence[r] = nextTurn /\ activeTurn \in {NoTurn, sequence[r]}

Asks(w, r) ==
  /\ Works(w, r) /\ phase[r] = "ordering" /\ Ordered(r)
  /\ activeTurn' = IF sequence[r] = nextTurn THEN sequence[r] ELSE activeTurn
  /\ waiters' = Append(waiters, r)
  /\ phase' = [phase EXCEPT ![r] = "asking"]
  /\ UNCHANGED <<runtimeVars, born, sequence, retried, acquired, completed,
                 nextTurn, skipped, channel, conversation, guest>>

(* The arbiter: the most urgent waiter, the first of its priority.         *)
MediaRank(u) == IF u \in Reply THEN 20 + Rank[u] ELSE GuestRank[u]

FirstInLine ==
  Head(Kept(waiters, {i \in DOMAIN waiters :
                       \A v \in Range(waiters) : MediaRank(waiters[i]) <= MediaRank(v)}))

Grant(u) ==
  /\ channel = Nobody /\ waiters # <<>> /\ u = FirstInLine
  /\ channel' = u
  /\ waiters' = Excluding(waiters, {u})

Speaks(w, r) ==
  /\ Works(w, r) /\ phase[r] = "asking" /\ Grant(r)
  /\ phase' = [phase EXCEPT ![r] = "speaking"]
  /\ acquired' = acquired \union {r}
  /\ UNCHANGED <<runtimeVars, born, sequence, retried, completed, coordinatorVars,
                 conversation, guest>>

(* The output node finishes the turn after conversation-end.               *)
Spoke(w, r) ==
  /\ Works(w, r) /\ phase[r] = "speaking"
  /\ phase' = [phase EXCEPT ![r] = "closing"]
  /\ EndTurns({r})
  /\ UNCHANGED <<runtimeVars, born, sequence, retried, acquired, waiters, conversation, guest>>

LeavesScope(u) == conversation' = Excluding(conversation, {u})

Succeeds(w, r) ==
  /\ Works(w, r) /\ phase[r] = "closing"
  /\ phase' = [phase EXCEPT ![r] = "ended"]
  /\ LeavesScope(r)
  /\ worker' = [worker EXCEPT ![w] = "idle"] /\ terminal' = terminal + 1
  /\ UNCHANGED <<exhaustive, generation, switching, submitted, queue, asleep, admitted, born, sequence,
                 retried, acquired, completed, coordinatorVars, waiters, channel, guest>>

(* The processor raises: before the graph, in it, in the output, or after. *)
CanFail(r) ==
  \/ phase[r] \in {"composing", "speaking", "closing"}
  \/ phase[r] = "generating" /\ HoldsScope(r)

MayRetry(r) == r \notin retried /\ r \notin acquired

Retries(w, r) ==
  /\ Works(w, r) /\ CanFail(r) /\ MayRetry(r)
  /\ retried' = retried \union {r}
  /\ phase' = [phase EXCEPT ![r] = "composing"]
  /\ LeavesScope(r)
  /\ UNCHANGED <<runtimeVars, born, sequence, acquired, completed, coordinatorVars,
                 waiters, channel, guest>>

Fails(w, r) ==
  /\ Works(w, r) /\ CanFail(r) /\ ~MayRetry(r)
  /\ phase' = [phase EXCEPT ![r] = "ended"]
  /\ LeavesScope(r)
  /\ EndTurns({r})
  /\ worker' = [worker EXCEPT ![w] = "idle"] /\ terminal' = terminal + 1
  /\ UNCHANGED <<exhaustive, generation, switching, submitted, queue, asleep, admitted, born, sequence,
                 retried, acquired, waiters, guest>>
-----------------------------------------------------------------------------
(* switch_generation: the session has cancelled and awaited its callback   *)
(* tasks, so that no putter is left behind.  Up to the first await of a    *)
(* worker it is one step.                                                  *)
SwitchBegins ==
  /\ generation < MaxGeneration /\ ~switching
  /\ switching' = TRUE
  /\ phase' = [r \in Reply |-> IF phase[r] \in {"putting", "queued"} THEN "ended" ELSE phase[r]]
  /\ terminal' = terminal + Len(queue)
  /\ queue' = <<>> /\ asleep' = {}
  /\ EndTurns(Range(queue))
  /\ UNCHANGED <<exhaustive, generation, submitted, worker, admitted, born, sequence, retried, acquired,
                 waiters, conversation, guest>>

(* Mutant: the wait for the turn swallows the cancellation.                *)
UnwindUnlessOrdering(w, r) ==
  /\ switching /\ worker[w] = r /\ r \in Reply /\ phase[r] \notin {"ordering", "unwinding"}
  /\ phase' = [phase EXCEPT ![r] = "unwinding"]
  /\ waiters' = Excluding(waiters, {r})
  /\ LeavesScope(r)
  /\ UNCHANGED <<runtimeVars, born, sequence, retried, acquired, completed,
                 coordinatorVars, channel, guest>>

(* The CancelledError of a worker: it leaves the arbiter and the graph     *)
(* first, then ends its turn and is counted.                               *)
UnwindGraph(w, r) ==
  /\ switching /\ worker[w] = r /\ r \in Reply /\ phase[r] # "unwinding"
  /\ phase' = [phase EXCEPT ![r] = "unwinding"]
  /\ waiters' = Excluding(waiters, {r})
  /\ LeavesScope(r)
  /\ UNCHANGED <<runtimeVars, born, sequence, retried, acquired, completed,
                 coordinatorVars, channel, guest>>

(* Mutant: the cancelled reply is not counted.                             *)
UnwindUncounted(w, r) ==
  /\ switching /\ worker[w] = r /\ r \in Reply /\ phase[r] = "unwinding"
  /\ phase' = [phase EXCEPT ![r] = "ended"]
  /\ EndTurns({r})
  /\ worker' = [worker EXCEPT ![w] = "absent"]
  /\ UNCHANGED <<exhaustive, generation, switching, submitted, queue, asleep, admitted, terminal,
                 born, sequence, retried, acquired, waiters, conversation, guest>>

UnwindTurn(w, r) ==
  /\ switching /\ worker[w] = r /\ r \in Reply /\ phase[r] = "unwinding"
  /\ phase' = [phase EXCEPT ![r] = "ended"]
  /\ EndTurns({r})
  /\ worker' = [worker EXCEPT ![w] = "absent"] /\ terminal' = terminal + 1
  /\ UNCHANGED <<exhaustive, generation, switching, submitted, queue, asleep, admitted, born, sequence,
                 retried, acquired, waiters, conversation, guest>>

WorkerStops(w) ==
  /\ switching /\ worker[w] = "idle"
  /\ worker' = [worker EXCEPT ![w] = "absent"]
  /\ UNCHANGED <<exhaustive, generation, switching, submitted, queue, asleep, admitted, terminal,
                 replyVars, coordinatorVars, sharedVars>>

SwitchEnds ==
  /\ switching /\ \A w \in Worker : worker[w] = "absent"
  /\ switching' = FALSE /\ generation' = generation + 1
  /\ submitted' = 0
  /\ nextTurn' = 0 /\ activeTurn' = NoTurn /\ skipped' = {}
  /\ UNCHANGED <<exhaustive, queue, asleep, worker, admitted, terminal, replyVars, sharedVars>>
-----------------------------------------------------------------------------
(* Guests.                                                                 *)
GuestGoes(g, from, to) == guest[g] = from /\ guest' = [guest EXCEPT ![g] = to]

GuestAsks(g) ==
  /\ GuestGoes(g, "away", "asking")
  /\ waiters' = Append(waiters, g)
  /\ UNCHANGED <<runtimeVars, replyVars, coordinatorVars, channel, conversation>>

GuestSpeaks(g) ==
  /\ GuestGoes(g, "asking", "holding") /\ Grant(g)
  /\ UNCHANGED <<runtimeVars, replyVars, coordinatorVars, conversation>>

GuestConverses(g) ==
  /\ g \in Converses /\ GuestGoes(g, "holding", "conversing")
  /\ conversation' = Append(conversation, g)
  /\ UNCHANGED <<runtimeVars, replyVars, coordinatorVars, waiters, channel>>

(* finally: media_turn.finish().                                           *)
GuestLeaves(g) ==
  /\ guest' = [guest EXCEPT ![g] = "away"]
  /\ waiters' = Excluding(waiters, {g})
  /\ channel' = IF channel = g THEN Nobody ELSE channel
  /\ LeavesScope(g)
  /\ UNCHANGED <<runtimeVars, replyVars, coordinatorVars>>

GuestFinishes(g) ==
  /\ IF g \in Converses THEN guest[g] = "conversing" /\ HoldsScope(g) ELSE guest[g] = "holding"
  /\ GuestLeaves(g)

GuestWithdraws(g) ==
  /\ g \in Withdrawable /\ guest[g] # "away"
  /\ GuestLeaves(g)
-----------------------------------------------------------------------------
WorkerStep(w) ==
  \/ FallsAsleep(w) \/ WorkerStops(w)
  \/ \E expired \in BOOLEAN : Takes(w, expired)
  \/ \E r \in Reply :
       \/ Converse(w, r) \/ Generates(w, r) \/ Asks(w, r) \/ Speaks(w, r) \/ Spoke(w, r)
       \/ Succeeds(w, r) \/ Retries(w, r) \/ Fails(w, r)
       \/ UnwindGraph(w, r) \/ UnwindTurn(w, r)

GuestStep(g) ==
  GuestAsks(g) \/ GuestSpeaks(g) \/ GuestConverses(g) \/ GuestFinishes(g) \/ GuestWithdraws(g)

Next ==
  \/ \E r \in Reply : Submit(r) \/ PutAgain(r)
  \/ \E w \in Worker : WorkerStep(w)
  \/ \E g \in Guest : GuestStep(g)
  \/ SwitchBegins \/ SwitchEnds

Spec == Init /\ [][Next]_vars

(* Tasks that can run are run; whoever holds the channel and the scope is  *)
(* done some day.  Nothing makes viewers write, guests ask or the operator *)
(* switch rooms.                                                           *)
Fairness ==
  /\ \A w \in Worker : WF_vars(WorkerStep(w))
  /\ \A r \in Reply : WF_vars(PutAgain(r))
  /\ \A g \in Guest : WF_vars(GuestSpeaks(g) \/ GuestConverses(g) \/ GuestFinishes(g))
  /\ WF_vars(SwitchEnds)

FairSpec == Spec /\ Fairness

(***************************************************************************)
(* Properties.                                                             *)
(***************************************************************************)
Live == {r \in Reply : phase[r] \notin {"unsent", "putting", "ended"}}
InLine == Range(waiters) \union Range(conversation) \union ({channel} \ {Nobody})

(* Leases go back on every path of ReplyWorker.run and of the guests:      *)
(* whoever holds or waits for the channel or the conversation is running,  *)
(* and once a switch has ended no reply of an older generation is.         *)
LeasesHaveOwners ==
  /\ \A u \in InLine : IF u \in Reply THEN \E w \in Worker : worker[w] = u ELSE guest[u] # "away"
  /\ activeTurn # NoTurn => \E r \in Reply : r \in Live /\ sequence[r] = activeTurn
  /\ \A r \in Live : born[r] = generation

(* metrics.admitted and terminal_count agree up to the replies that are    *)
(* queued or in work: none is lost, none ends twice, whatever combination  *)
(* of eviction, expiry, retry, failure and switch it meets.                *)
EveryReplyIsCounted == admitted = terminal + Cardinality(Live)

(* The queue's condition loses no wake-up: while a reply is queued and a   *)
(* worker is free, some free worker is awake; and no putter sleeps in      *)
(* front of a free slot.                                                   *)
NobodySleepsOnWork ==
  /\ queue # <<>> /\ (\E w \in Worker : worker[w] = "idle")
       => \E w \in Worker : worker[w] = "idle" /\ w \notin asleep
  /\ Len(queue) < MaxQueue => asleep \subseteq Worker

(* OrderedReplyMediaCoordinator: a reply starts to speak only when every   *)
(* earlier submission of its generation has spoken or is over, with        *)
(* evictions, rejections, failures and retries in between; and one whose   *)
(* media has started is not generated a second time.                       *)
SpokenOnceInOrder ==
  [][\A r \in Reply :
       /\ phase[r] = "asking" /\ phase'[r] = "speaking" =>
            \A q \in Reply : /\ born[q] = born[r] /\ phase[q] # "unsent"
                             /\ sequence[q] < sequence[r]
                             => q \in completed
       /\ r \in acquired /\ phase'[r] = "composing" => phase[r] = "composing"]_vars

(* Changing rooms never hangs on the replies: switch_generation returns,   *)
(* also when the workers wait for each other or for a guest.               *)
SwitchesEnd == switching ~> ~switching

(* ReplyMetrics: an admitted candidate reaches a terminal outcome.         *)
AdmittedRepliesEnd == \A r \in Reply : phase[r] = "queued" ~> phase[r] = "ended"
=============================================================================
