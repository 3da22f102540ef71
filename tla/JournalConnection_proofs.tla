----------------------- MODULE JournalConnection_proofs -----------------------
(***************************************************************************)
(* Theorems about the journal's one connection, for any execute commands,  *)
(* stop tasks, queue capacity and number of restarts.                      *)
(*                                                                         *)
(* IInv is one inductive invariant in two layers: Shape says who stands in *)
(* the lock's queue and what each task can ask for, and needs nothing of   *)
(* the tables; the rest says what the tables and half-written transactions *)
(* can hold, given Shape.                                                  *)
(***************************************************************************)
EXTENDS JournalConnection, Queues_proofs, TLAPS

(* The lock: whoever waits for it or works under it stands in its queue.   *)
BusyAt == {"waiting", "begun", "writing"}
Lining ==
  \A t \in Task : call[t].at \in BusyAt <=> \E i \in DOMAIN lock : lock[i] = t

(* What a task can ask of the journal.                                     *)
Asked(k) == /\ k.at \in BusyAt => k.op # "none"
            /\ k.at \in {"waiting", "begun"} => k.written = 0
CreateCall(c, k) == k.op \in {"none", "create"} /\ (k.op = "create" => k.on = c)
StopCall(k) ==
  /\ k.op \in {"none", "stop", "transition"} /\ k.on = StopRow
  /\ k.op = "transition" => \/ k.from = "queued" /\ k.to = "running"
                            \/ k.from = "running" /\ k.to = "succeeded"
CloserCall(k) ==
  /\ k.op \in {"none", "transition"}
  /\ k.op = "transition" => /\ k.from \in {"queued", "running", "reconciling"}
                            /\ k.to = Recovered(k.from)

Calls == {"dispatch", "reserve", "settle", "doubt", "end"}
Asks(at, k) ==
  \/ at = "dispatch" /\ k.op = "transition" /\ k.from = "queued" /\ k.to = "running"
  \/ at \in {"reserve", "settle"} /\ k.op = at
  \/ at = "doubt" /\ k.op = "transition" /\ k.from = "running" /\ k.to = "reconciling"
  \/ at = "end" /\ k.op = "transition" /\ k.from = "running" /\ k.to \in {"succeeded", "failed"}
  \/ at = "end" /\ k.op = "transition" /\ k.from = "reconciling" /\ k.to = "blocked_unknown"
WorkerCall(k, w) == /\ k.at \in BusyAt => w.at \in Calls
                    /\ w.at \in Calls => k.on = w.on /\ Asks(w.at, k)

Calling == /\ \A t \in Task : Asked(call[t])
           /\ \A c \in Executes : CreateCall(c, call[c])
           /\ \A s \in Stops : StopCall(call[s])
           /\ WorkerCall(call["worker"], worker)
           /\ CloserCall(call["closer"])

Working == WorkerAt \ {"idle", "dead", "gone"}
Phases == /\ worker.at \in Working => worker.on \in Executes
          /\ call["closer"].at \in BusyAt => phase = "sweeping"
          /\ phase = "down" => /\ worker.at = "gone"
                               /\ \A t \in Task : call[t].at \in {"idle", "raised"}
          /\ \A r \in sweep : r[2] \in {"queued", "running", "reconciling"}

Shape == TypeOK /\ Lining /\ Calling /\ Phases

(* The tables only move on: e can follow d.                                *)
Later(s) == IF s = "absent" THEN States ELSE Since(s)
Onward(d, e) ==
  /\ \A c \in Id : e.row[c] \in Later(d.row[c])
  /\ \A c \in Executes : /\ d.step[c] # "none" => e.step[c] # "none"
                         /\ d.step[c] = "settled" => e.step[c] = "settled"

(* What both the open transaction and the disk keep to.                    *)
Told(d) == \A c \in Executes : d.row[c] = "running" =>
             c \in d.flagged \/ \E b \in Executes : d.row[b] = "blocked_unknown"
WholeBarrier(d) == d.barrier => ~d.accepting /\ Queued(d) = {} /\ Told(d)
Taken == {"running", "reconciling"}
OneTaken(d) == \A c, e \in Executes : d.row[c] \in Taken /\ d.row[e] \in Taken => c = e

Begun == Since("running")
Stepped(d) == \A c \in Executes : d.step[c] # "none" => disk.row[c] \in Begun

Tabled == /\ Onward(disk, shown)
          /\ WholeBarrier(shown) /\ WholeBarrier(disk)
          /\ OneTaken(shown) /\ OneTaken(disk)
          /\ Stepped(shown) /\ Stepped(disk)

(* What has become of a half-written transaction.                          *)
Written(k, d) ==
  /\ k.op \in {"create", "stop"} =>
       d.row[k.on] = IF k.written = 0 THEN "absent" ELSE "queued"
  /\ k.op = "create" => ~d.barrier
  /\ k.op = "stop" /\ k.written >= 3 => Queued(d) = {}
  /\ k.op = "stop" /\ k.written >= 4 => Told(d)
  /\ k.op = "transition" => d.row[k.on] = IF k.written = 0 THEN k.from ELSE k.to
  /\ k.op = "reserve" /\ k.written = 1 => d.step[k.on] # "none"
  /\ k.op = "settle" /\ k.written = 1 => d.step[k.on] = "settled"
Writing == \A t \in Task : call[t].at = "writing" => Written(call[t], shown)

Unwritten(k) == k.at \in BusyAt /\ k.written = 0
Fresh(c, k, d) ==
  k.at = "idle" \/ (k.op = "create" /\ Unwritten(k)) => d.row[c] = "absent"
FreshCreates == \A c \in Executes : Fresh(c, call[c], shown)

(* What the worker knows of the command it works on, in either table.      *)
Unsettled == {"dispatch", "reserve", "marking", "marked", "sent", "losing", "lost"}
Knows(w, k, d) ==
  /\ w.at \notin {"dead", "gone"} =>
       \A c \in Executes : d.row[c] \in Taken => c = w.on /\ w.at # "idle"
  /\ w.at = "dispatch" /\ (Unwritten(k) \/ k.at = "refused") => d.row[w.on] \notin Taken
  /\ w.at \in Unsettled \/ (w.at = "settle" /\ Unwritten(k)) => d.step[w.on] # "settled"
HasBegun(w, k, d) ==
  /\ w.at \in Working \ {"dispatch"} \/ (w.at = "dispatch" /\ k.at = "ok")
       => d.row[w.on] \in Begun
  /\ w.at = "end" /\ k.at = "ok" => d.row[w.on] \in Ends
Knowing == /\ Knows(worker, call["worker"], shown) /\ Knows(worker, call["worker"], disk)
           /\ HasBegun(worker, call["worker"], disk)

Acknowledged ==
  /\ AnswersAreDurable
  /\ \A a \in answered : /\ a[2] # "absent"
                         /\ a[2] \in {"reserved", "settled"} => a[1] \in Executes

Content == Tabled /\ Writing /\ FreshCreates /\ Knowing /\ Acknowledged

IInv == Shape /\ Content

-----------------------------------------------------------------------------
(* Tasks and types.                                                        *)
Call == [op : Op, on : Id, from : States, to : States, at : At, written : 0..5]
Holders == \A t \in Task : call[t].at \in {"begun", "writing"} => lock[1] = t
Locked == lock \in Seq(Task) /\ IsInjective(lock) /\ Lining /\ Holders
Typed ==
  /\ shown \in Tables /\ disk \in Tables /\ open \in BOOLEAN
  /\ ~open => shown = disk
  /\ call \in [Task -> Call]
  /\ worker \in [at : WorkerAt, on : Executes \union {"none"}]
  /\ phase \in {"up", "closing", "committed", "stopped", "sweeping", "failed", "down"}
  /\ sweep \subseteq Id \X States
  /\ answered \subseteq Id \X (States \union StepStates)
  /\ boots \in 0..MaxBoots

LEMMA ShapeSays == Shape <=> Typed /\ Locked /\ Calling /\ Phases
BY DEF Shape, TypeOK, Typed, Locked, Holders, Call

LEMMA ShapeFollows ==
  ASSUME Typed', Locked', Calling', Phases'
  PROVE  Shape'
BY DEF Shape, TypeOK, Typed, Locked, Holders, Call

LEMMA TasksApart ==
  /\ "worker" \in Task /\ "closer" \in Task
  /\ \A c \in Executes : /\ c \in Task /\ c \in Id /\ c \notin Stops /\ c # StopRow
                         /\ c \notin {"worker", "closer"}
  /\ \A s \in Stops : s \in Task /\ s \notin {"worker", "closer"} /\ s \notin Executes
  /\ StopRow \in Id
BY ConnectionAssumption DEF Task, Id

LEMMA NoCallIsTyped == NoCall \in Call /\ Lost \in Call
<1>1. NoCall \in Call
  BY TasksApart DEF NoCall, Call, Op, States, Ends, At
<1> QED
  BY <1>1 DEF Lost, Call, NoCall, At

LEMMA StatesSay ==
  /\ {"absent", "queued", "running", "reconciling", "succeeded", "failed",
      "blocked_unknown", "cancelled_by_stop", "interrupted_before_start"} = States
  /\ \A s \in States : Recovered(s) \in States
BY DEF States, Ends, Recovered

(***************************************************************************)
(* The lock.                                                               *)
(***************************************************************************)
OnlyCall(t) == /\ call' \in [Task -> Call]
               /\ \A u \in Task \ {t} : call'[u] = call[u]

LEMMA OneHolder ==
  ASSUME Shape, NEW t \in Task, NEW u \in Task, call[t].at \in {"begun", "writing"},
         call[u].at \in {"begun", "writing"}
  PROVE  t = u
BY ShapeSays DEF Locked, Holders

(* Nobody joins or leaves the queue.                                       *)
LEMMA QueueStays ==
  ASSUME Shape, NEW t \in Task, OnlyCall(t), lock' = lock,
         call'[t].at \in BusyAt <=> call[t].at \in BusyAt,
         call'[t].at \in {"begun", "writing"} => lock[1] = t
  PROVE  Locked'
<1>1. Locked
  BY ShapeSays
<1>2. Lining'
  <2> SUFFICES ASSUME NEW u \in Task
               PROVE  call'[u].at \in BusyAt <=> \E i \in DOMAIN lock' : lock'[i] = u
    BY DEF Lining
  <2>1. call'[u].at \in BusyAt <=> call[u].at \in BusyAt
    BY DEF OnlyCall
  <2> QED
    BY <1>1, <2>1 DEF Locked, Lining
<1>3. Holders'
  BY <1>1 DEF Locked, Holders, OnlyCall
<1> QED
  BY <1>1, <1>2, <1>3 DEF Locked

LEMMA QueueUnchanged ==
  ASSUME Shape, UNCHANGED <<lock, call>>
  PROVE  Locked'
BY ShapeSays DEF Locked, Lining, Holders

LEMMA QueueGrows ==
  ASSUME Shape, NEW t \in Task, OnlyCall(t), lock' = Append(lock, t),
         call[t].at \notin BusyAt, call'[t].at = "waiting"
  PROVE  Locked'
<1>1. Locked
  BY ShapeSays
<1>2. \A i \in DOMAIN lock : lock[i] # t
  BY <1>1 DEF Locked, Lining
<1>3. lock' \in Seq(Task) /\ IsInjective(lock')
  BY <1>1, <1>2, Joining, JoiningInjective DEF Locked
<1>4. /\ \A i \in DOMAIN lock' : (i \in DOMAIN lock /\ lock'[i] = lock[i]) \/ lock'[i] = t
      /\ \A i \in DOMAIN lock : i \in DOMAIN lock' /\ lock'[i] = lock[i]
      /\ \E i \in DOMAIN lock' : lock'[i] = t
  BY <1>1, Joining DEF Locked
<1>5. Lining'
  <2> SUFFICES ASSUME NEW u \in Task
               PROVE  call'[u].at \in BusyAt <=> \E i \in DOMAIN lock' : lock'[i] = u
    BY DEF Lining
  <2>1. CASE u = t
    BY <1>4, <2>1 DEF BusyAt
  <2>2. CASE u # t
    BY <1>1, <1>4, <2>2 DEF Locked, Lining, OnlyCall
  <2> QED
    BY <2>1, <2>2
<1>6. Holders'
  <2> SUFFICES ASSUME NEW u \in Task, call'[u].at \in {"begun", "writing"}
               PROVE  lock'[1] = u
    BY DEF Holders
  <2>1. u # t /\ call[u] = call'[u]
    BY DEF OnlyCall
  <2>2. lock[1] = u /\ lock # <<>> /\ 1 \in DOMAIN lock
    BY <1>1, <2>1 DEF Locked, Holders, Lining, BusyAt
  <2> QED
    BY <1>4, <2>2
<1> QED
  BY <1>3, <1>5, <1>6 DEF Locked

LEMMA QueueShrinks ==
  ASSUME Shape, NEW t \in Task, OnlyCall(t), Release(t), call'[t].at \notin BusyAt
  PROVE  Locked'
<1> DEFINE P == {i \in DOMAIN lock : lock[i] # t}
<1>1. Locked /\ lock' = Kept(lock, P) /\ P \subseteq DOMAIN lock
  BY ShapeSays DEF Release
<1>2. /\ lock' \in Seq(Task) /\ IsInjective(lock')
      /\ \A j \in DOMAIN lock' : Nth(P, j) \in P /\ lock'[j] = lock[Nth(P, j)]
      /\ \A i \in P : \E j \in DOMAIN lock' : i = Nth(P, j)
      /\ 1 \in P => lock' # <<>> /\ Head(lock') = Head(lock)
  BY <1>1, Leaving DEF Locked
<1>3. Lining'
  <2> SUFFICES ASSUME NEW u \in Task
               PROVE  call'[u].at \in BusyAt <=> \E j \in DOMAIN lock' : lock'[j] = u
    BY DEF Lining
  <2>1. CASE u = t
    BY <1>2, <2>1
  <2>2. CASE u # t
    <3>1. call'[u].at \in BusyAt <=> \E i \in DOMAIN lock : lock[i] = u
      BY <1>1, <2>2 DEF Locked, Lining, OnlyCall
    <3>2. ASSUME NEW i \in DOMAIN lock, lock[i] = u
          PROVE  \E j \in DOMAIN lock' : lock'[j] = u
      <4>1. i \in P
        BY <2>2, <3>2
      <4> QED
        BY <1>2, <3>2, <4>1
    <3> QED
      BY <1>2, <3>1, <3>2
  <2> QED
    BY <2>1, <2>2
<1>4. Holders'
  <2> SUFFICES ASSUME NEW u \in Task, call'[u].at \in {"begun", "writing"}
               PROVE  lock'[1] = u
    BY DEF Holders
  <2>1. u # t /\ call[u] = call'[u]
    BY DEF OnlyCall, BusyAt
  <2>2. lock[1] = u /\ lock # <<>> /\ 1 \in DOMAIN lock /\ Head(lock) = u
    BY <1>1, <2>1 DEF Locked, Holders, Lining, BusyAt
  <2>3. 1 \in P
    BY <2>1, <2>2
  <2> QED
    BY <1>2, <2>2, <2>3
<1> QED
  BY <1>2, <1>3, <1>4 DEF Locked

(***************************************************************************)
(* What a call becomes.                                                    *)
(***************************************************************************)
LEMMA OneCall ==
  ASSUME Shape, NEW t \in Task, NEW k \in Call, call' = [call EXCEPT ![t] = k]
  PROVE  OnlyCall(t) /\ call'[t] = k
BY ShapeSays DEF Typed, OnlyCall

LEMMA Filed ==
  ASSUME Shape, NEW t \in Task, NEW op \in Op, NEW on \in Id, NEW from \in States,
         NEW to \in States, Files(t, op, on, from, to), call[t].at \notin BusyAt
  PROVE  /\ OnlyCall(t) /\ Locked'
         /\ call'[t] = [op |-> op, on |-> on, from |-> from, to |-> to,
                        at |-> "waiting", written |-> 0]
<1> DEFINE k == [op |-> op, on |-> on, from |-> from, to |-> to,
                 at |-> "waiting", written |-> 0]
<1>1. k \in Call
  BY DEF Call, At
<1>2. OnlyCall(t) /\ call'[t] = k
  BY <1>1, OneCall DEF Files
<1>3. lock' = Append(lock, t) /\ call'[t].at = "waiting"
  BY <1>2 DEF Files
<1>4. Locked'
  BY <1>2, <1>3, QueueGrows
<1> QED
  BY <1>2, <1>4

LEMMA FiledSays ==
  ASSUME Shape, NEW t \in Task, call[t].at \notin BusyAt,
         \E op \in Op, on \in Id, from, to \in States : Files(t, op, on, from, to)
  PROVE  OnlyCall(t) /\ call'[t].at = "waiting"
<1>1. PICK op \in Op, on \in Id, from \in States, to \in States : Files(t, op, on, from, to)
  OBVIOUS
<1>2. OnlyCall(t)
  BY <1>1, Filed
<1>3. call'[t] = [op |-> op, on |-> on, from |-> from, to |-> to,
                  at |-> "waiting", written |-> 0]
  BY <1>1, Filed
<1> QED
  BY <1>2, <1>3

(* A call that goes on, or is answered, keeps what it asks for.            *)
Same(k, m) == k.op = m.op /\ k.on = m.on /\ k.from = m.from /\ k.to = m.to

LEMMA Moved ==
  ASSUME Shape, NEW t \in Task, NEW at \in At,
         call' = [call EXCEPT ![t].at = at]
  PROVE  OnlyCall(t) /\ call'[t] = [call[t] EXCEPT !.at = at] /\ Same(call'[t], call[t])
         /\ call'[t].at = at /\ call'[t].written = call[t].written
<1>1. call[t] \in Call
  BY ShapeSays DEF Typed
<1>2. [call[t] EXCEPT !.at = at] \in Call
  BY <1>1 DEF Call
<1>3. call' = [call EXCEPT ![t] = [call[t] EXCEPT !.at = at]]
  OBVIOUS
<1>4. OnlyCall(t) /\ call'[t] = [call[t] EXCEPT !.at = at]
  BY <1>2, <1>3, OneCall
<1> QED
  BY <1>1, <1>4 DEF Same, Call

LEMMA Replied ==
  ASSUME Shape, NEW t \in Task, NEW at \in At \ BusyAt, Answer(t, at)
  PROVE  /\ OnlyCall(t) /\ Locked' /\ Same(call'[t], call[t])
         /\ call'[t].at = at /\ call'[t].written = 0
<1>1. call[t] \in Call
  BY ShapeSays DEF Typed
<1> DEFINE m == [call[t] EXCEPT !.at = at]
           k == [m EXCEPT !.written = 0]
<1>2. m \in Call /\ k \in Call
  <2>1. m \in Call
    BY <1>1, at \in At DEF Call
  <2> HIDE DEF m
  <2>2. k \in Call
    BY <2>1 DEF Call
  <2> QED
    BY <2>1, <2>2
<1>3. call' = [call EXCEPT ![t] = k]
  BY <1>1, ShapeSays DEF Answer, Typed
<1>4. OnlyCall(t) /\ call'[t] = k
  BY <1>2, <1>3, OneCall
<1>5. Same(call'[t], call[t]) /\ call'[t].at = at /\ call'[t].written = 0
  BY <1>1, <1>4 DEF Same, Call
<1>6. Locked'
  BY <1>4, <1>5, QueueShrinks DEF Answer
<1> QED
  BY <1>4, <1>5, <1>6

(* Calling and Phases, when one task's call changes.                       *)
LEMMA CallingKept ==
  ASSUME Shape, NEW t \in Task, OnlyCall(t), Asked(call'[t]),
         t \in Executes => CreateCall(t, call'[t]), t \in Stops => StopCall(call'[t]),
         t = "closer" => CloserCall(call'[t]), WorkerCall(call'["worker"], worker')
  PROVE  Calling'
BY ShapeSays, TasksApart DEF Calling, OnlyCall

LEMMA CallGoesOn ==
  ASSUME Shape, NEW t \in Task, OnlyCall(t), Same(call'[t], call[t]), UNCHANGED worker,
         call'[t].at \in BusyAt => call[t].at \in BusyAt,
         call'[t].at \in {"waiting", "begun"} => call'[t].written = 0
  PROVE  Calling'
<1>1. Calling
  BY ShapeSays
<1>2. Asked(call'[t])
  BY <1>1 DEF Asked, Calling, Same
<1>3. /\ t \in Executes => CreateCall(t, call'[t])
      /\ t \in Stops => StopCall(call'[t])
      /\ t = "closer" => CloserCall(call'[t])
  BY <1>1 DEF Calling, Same, CreateCall, StopCall, CloserCall
<1>4. WorkerCall(call'["worker"], worker')
  <2>1. CASE t = "worker"
    BY <1>1, <2>1 DEF Calling, Same, WorkerCall, Asks
  <2>2. CASE t # "worker"
    BY <1>1, <2>2, TasksApart DEF Calling, OnlyCall
  <2> QED
    BY <2>1, <2>2
<1> QED
  BY <1>2, <1>3, <1>4, CallingKept

LEMMA CallingUnchanged ==
  ASSUME Shape, UNCHANGED <<call, worker>>
  PROVE  Calling'
BY ShapeSays DEF Calling

LEMMA PhasesKept ==
  ASSUME Shape, NEW t \in Task, OnlyCall(t), UNCHANGED <<worker, phase, sweep>>,
         t = "closer" => (call'[t].at \in BusyAt => phase = "sweeping"),
         phase = "down" => call'[t].at \in {"idle", "raised"}
  PROVE  Phases'
BY ShapeSays, TasksApart DEF Phases, OnlyCall

(***************************************************************************)
(* Shape: the locked operations.                                           *)
(***************************************************************************)
LEMMA StatementTyped ==
  ASSUME NEW k \in Call, NEW d \in Tables, NEW n, NEW e \in Statement(k, n, d)
  PROVE  e \in Tables
<1>1. \A c \in Id : \A x \in CreateWrites(c, n, d) : x \in Tables
  <2> SUFFICES ASSUME NEW c \in Id, NEW x \in CreateWrites(c, n, d)
               PROVE  x \in Tables
    OBVIOUS
  <2>1. CASE n = 1
    BY <2>1 DEF CreateWrites, Tables, States
  <2>2. CASE n # 1
    BY <2>2 DEF CreateWrites, Tables
  <2> QED
    BY <2>1, <2>2
<1>2. Clear(d) \in Tables
  BY DEF Clear, Tables, States, Ends
<1>3. FlagActive(d) \subseteq Tables
  BY DEF FlagActive, Tables
<1>4. CloseAdmission(d) \in Tables
  BY DEF CloseAdmission, Tables
<1>5. \A c, s : s \in StepStates => \A x \in StepWrites(c, s, d) : x \in Tables
  BY DEF StepWrites, Tables
<1>6. [d EXCEPT !.row[k.on] = k.to] \in Tables
  BY DEF Call, Tables
<1>7. CASE k.op = "create"
  BY <1>1, <1>7 DEF Statement, Call
<1>8. CASE k.op = "stop"
  BY <1>1, <1>2, <1>3, <1>4, <1>8, TasksApart DEF Statement, BarrierWrites
<1>9. CASE k.op = "transition"
  BY <1>6, <1>9 DEF Statement
<1>10. CASE k.op = "reserve"
  BY <1>5, <1>10 DEF Statement, StepStates
<1>11. CASE k.op \notin {"create", "stop", "transition", "reserve"}
  BY <1>5, <1>11 DEF Statement, StepStates
<1> QED
  BY <1>7, <1>8, <1>9, <1>10, <1>11

LEMMA BeginKeepsShape ==
  ASSUME Shape, NEW t \in Task, Begin(t)
  PROVE  Shape'
<1>1. Typed /\ Locked /\ Calling /\ call[t] \in Call /\ call[t].written = 0 /\ call[t].at \in BusyAt
  BY ShapeSays DEF Typed, Begin, Calling, Asked, BusyAt
<1>2. lock[1] = t
  BY DEF Begin, HoldsLock
<1>3. CASE ~open /\ open' = TRUE /\ call' = [call EXCEPT ![t].at = "begun"] /\ UNCHANGED lock
  <2>1. /\ OnlyCall(t) /\ Same(call'[t], call[t]) /\ call'[t].at = "begun"
        /\ call'[t].written = 0
    BY <1>1, <1>3, Moved DEF At
  <2>2. Locked'
    BY <1>1, <1>2, <1>3, <2>1, QueueStays DEF BusyAt
  <2>3. Calling'
    BY <1>1, <2>1, CallGoesOn DEF Begin
  <2>4. Phases'
    BY <1>1, <2>1, PhasesKept, ShapeSays DEF Begin, Phases, BusyAt
  <2>5. Typed'
    BY <1>1, <1>3, <2>1 DEF Typed, Begin, OnlyCall
  <2> QED
    BY <2>2, <2>3, <2>4, <2>5, ShapeFollows
<1>4. CASE open /\ Answer(t, "raised") /\ UNCHANGED open
  <2>1. /\ OnlyCall(t) /\ Same(call'[t], call[t]) /\ call'[t].at = "raised"
        /\ call'[t].written = 0 /\ Locked'
    BY <1>4, Replied DEF At, BusyAt
  <2>3. Calling'
    BY <2>1, CallGoesOn DEF Begin, BusyAt
  <2>4. Phases'
    BY <2>1, PhasesKept DEF Begin, BusyAt
  <2>5. Typed'
    BY <1>1, <1>4, <2>1 DEF Typed, Begin, OnlyCall
  <2> QED
    BY <2>1, <2>3, <2>4, <2>5, ShapeFollows
<1> QED
  BY <1>3, <1>4 DEF Begin

LEMMA LookKeepsShape ==
  ASSUME Shape, NEW t \in Task, Look(t)
  PROVE  Shape'
<1>1. Typed /\ Locked /\ Calling /\ call[t] \in Call /\ call[t].written = 0 /\ call[t].at \in BusyAt
  BY ShapeSays DEF Typed, Look, Calling, Asked, BusyAt
<1>2. lock[1] = t
  BY <1>1 DEF Look, Locked, Holders
<1>3. CASE ~Known(call[t]) /\ ~Refused(call[t])
  <2>1. call' = [call EXCEPT ![t].at = "writing"] /\ UNCHANGED <<shown, disk, open, lock>>
    BY <1>3 DEF Look
  <2>2. /\ OnlyCall(t) /\ Same(call'[t], call[t]) /\ call'[t].at = "writing"
    BY <2>1, Moved DEF At
  <2>3. Locked'
    BY <1>1, <1>2, <2>1, <2>2, QueueStays DEF BusyAt
  <2>4. Calling'
    BY <1>1, <2>2, CallGoesOn DEF Look
  <2>5. Phases'
    BY <1>1, <2>2, PhasesKept, ShapeSays DEF Look, Phases, BusyAt
  <2>6. Typed'
    BY <1>1, <2>1, <2>2 DEF Typed, Look, OnlyCall
  <2> QED
    BY <2>3, <2>4, <2>5, <2>6, ShapeFollows
<1>4. CASE Known(call[t]) \/ Refused(call[t])
  <2>1. PICK at \in {"reused", "refused"} : Answer(t, at)
    BY <1>4 DEF Look
  <2>2. /\ OnlyCall(t) /\ Same(call'[t], call[t]) /\ call'[t].at = at
        /\ call'[t].written = 0 /\ Locked'
    BY <2>1, Replied DEF At, BusyAt
  <2>3. Calling'
    BY <2>2, CallGoesOn DEF Look, BusyAt
  <2>4. Phases'
    BY <2>2, PhasesKept, ShapeSays DEF Look, Phases, BusyAt
  <2>5. Typed'
    BY <1>1, <1>4, <2>2 DEF Typed, Look, OnlyCall
  <2> QED
    BY <2>2, <2>3, <2>4, <2>5, ShapeFollows
<1> QED
  BY <1>3, <1>4

LEMMA WriteKeepsShape ==
  ASSUME Shape, NEW t \in Task, Write(t)
  PROVE  Shape'
<1>1. Typed /\ Locked /\ Calling /\ call[t] \in Call /\ call[t].at \in BusyAt
  BY ShapeSays DEF Typed, Write, BusyAt
<1>2. lock[1] = t
  BY <1>1 DEF Write, Locked, Holders
<1> DEFINE k == [call[t] EXCEPT !.written = @ + 1]
<1>3. call[t].written + 1 \in 0..5
  BY <1>1 DEF Write, Writes, Call
<1>4. k \in Call /\ Same(k, call[t]) /\ k.at = "writing" /\ k.written = call[t].written + 1
  BY <1>1, <1>3 DEF Call, Same, Write
<1>5. call' = [call EXCEPT ![t] = k]
  BY DEF Write
<1>6. OnlyCall(t) /\ call'[t] = k
  BY <1>4, <1>5, OneCall
<1> HIDE DEF k
<1>7. Locked'
  BY <1>1, <1>2, <1>4, <1>6, QueueStays DEF BusyAt, Write
<1>8. Calling'
  BY <1>1, <1>4, <1>6, CallGoesOn DEF Write
<1>9. Phases'
  BY <1>1, <1>4, <1>6, PhasesKept, ShapeSays DEF Write, Phases, BusyAt
<1>10. shown' \in Tables
  BY <1>1, StatementTyped DEF Write, Typed
<1>11. Typed'
  BY <1>1, <1>6, <1>10 DEF Typed, Write, OnlyCall
<1> QED
  BY <1>7, <1>8, <1>9, <1>11, ShapeFollows

LEMMA CommitKeepsShape ==
  ASSUME Shape, NEW t \in Task, Commit(t)
  PROVE  Shape'
<1>1. Typed /\ Locked /\ Calling /\ call[t] \in Call
  BY ShapeSays DEF Typed
<1>2. /\ OnlyCall(t) /\ Same(call'[t], call[t]) /\ call'[t].at = "ok"
      /\ call'[t].written = 0 /\ Locked'
  BY Replied DEF At, BusyAt, Commit
<1>3. Calling'
  BY <1>2, CallGoesOn DEF Commit, BusyAt
<1>4. Phases'
  BY <1>2, PhasesKept, ShapeSays DEF Commit, Phases, BusyAt
<1>5. Acknowledges(call[t]) \subseteq Id \X (States \union StepStates)
  BY <1>1, TasksApart, StatesSay DEF Acknowledges, Call, StepStates
<1>6. Typed'
  BY <1>1, <1>2, <1>5 DEF Typed, Commit, OnlyCall
<1> QED
  BY <1>2, <1>3, <1>4, <1>6, ShapeFollows

LEMMA TimeoutKeepsShape ==
  ASSUME Shape, NEW t \in Executes \union Stops, ToolTimesOut(t)
  PROVE  Shape'
<1>1. Typed /\ Locked /\ Calling /\ t \in Task /\ t \notin {"worker", "closer"}
  BY ShapeSays, TasksApart
<1>2. OnlyCall(t) /\ call'[t] = Lost
  BY <1>1, OneCall, NoCallIsTyped DEF ToolTimesOut
<1>3. Lost.op = "none" /\ Lost.on = StopRow /\ Lost.at = "raised"
  BY DEF Lost, NoCall
<1>4. Locked'
  BY <1>1, <1>2, <1>3, QueueShrinks DEF ToolTimesOut, BusyAt
<1>5. Calling'
  <2>1. Asked(call'[t]) /\ CreateCall(t, call'[t]) /\ StopCall(call'[t])
    BY <1>2, <1>3 DEF Asked, CreateCall, StopCall, BusyAt
  <2>2. WorkerCall(call'["worker"], worker')
    BY <1>1, <1>2, TasksApart DEF ToolTimesOut, Calling, OnlyCall
  <2> QED
    BY <1>1, <1>2, <2>1, <2>2, CallingKept
<1>6. Phases'
  BY <1>1, <1>2, <1>3, PhasesKept DEF ToolTimesOut
<1>7. Typed'
  BY <1>1, <1>2 DEF Typed, ToolTimesOut, OnlyCall
<1> QED
  BY <1>4, <1>5, <1>6, <1>7, ShapeFollows

(***************************************************************************)
(* Shape: new calls of the tools, the worker and close().                  *)
(***************************************************************************)
OtherThanTables == <<shown, disk, open, answered, boots>>

LEMMA FilingKeepsShape ==
  ASSUME Shape, NEW t \in Task, NEW op \in Op \ {"none"}, NEW on \in Id, NEW from \in States,
         NEW to \in States, Files(t, op, on, from, to), call[t].at \notin BusyAt,
         UNCHANGED OtherThanTables, phase' = phase, phase # "down",
         worker' \in [at : WorkerAt, on : Executes \union {"none"}],
         sweep' \subseteq sweep,
         worker'.at \in Working => worker'.on \in Executes,
         t = "closer" => phase = "sweeping",
         LET k == [op |-> op, on |-> on, from |-> from, to |-> to,
                   at |-> "waiting", written |-> 0]
         IN  /\ t \in Executes => CreateCall(t, k)
             /\ t \in Stops => StopCall(k)
             /\ t = "closer" => CloserCall(k)
             /\ t = "worker" => WorkerCall(k, worker')
             /\ t # "worker" => worker' = worker
  PROVE  Shape'
<1> DEFINE k == [op |-> op, on |-> on, from |-> from, to |-> to,
                 at |-> "waiting", written |-> 0]
<1>1. Typed /\ Calling /\ Phases
  BY ShapeSays
<1>2. OnlyCall(t) /\ Locked' /\ call'[t] = k
  BY Filed
<1>3. Asked(k) /\ k.at = "waiting"
  BY DEF Asked, BusyAt
<1>4. t # "worker" => call'["worker"] = call["worker"]
  BY <1>2, TasksApart DEF OnlyCall
<1> HIDE DEF k
<1>5. Calling'
  <2>1. WorkerCall(call'["worker"], worker')
    BY <1>1, <1>2, <1>4 DEF Calling, k
  <2>2. /\ t \in Executes => CreateCall(t, k)
        /\ t \in Stops => StopCall(k)
        /\ t = "closer" => CloserCall(k)
    BY DEF k
  <2> QED
    BY <1>2, <1>3, <2>1, <2>2, CallingKept
<1>6. Phases'
  BY <1>1, <1>2, <1>3, TasksApart DEF Phases, OnlyCall
<1>7. Typed'
  BY <1>1, <1>2 DEF Typed, OnlyCall, OtherThanTables
<1> QED
  BY <1>2, <1>5, <1>6, <1>7, ShapeFollows

LEMMA SubmitKeepsShape ==
  ASSUME Shape, NEW c \in Executes, Submits(c)
  PROVE  Shape'
<1>1. Files(c, "create", c, "absent", "queued") /\ call[c].at \notin BusyAt
  BY DEF Submits, BusyAt
<1>2. /\ UNCHANGED OtherThanTables /\ phase' = phase /\ phase # "down"
      /\ worker' = worker /\ sweep' = sweep
      /\ worker \in [at : WorkerAt, on : Executes \union {"none"}]
      /\ worker.at \in Working => worker.on \in Executes
  BY ShapeSays DEF Submits, OtherThanTables, Serving, Typed, Phases
<1>3. CreateCall(c, [op |-> "create", on |-> c, from |-> "absent", to |-> "queued",
                     at |-> "waiting", written |-> 0])
  BY DEF CreateCall
<1>4. "create" \in Op \ {"none"} /\ "absent" \in States /\ "queued" \in States
  BY DEF Op, States
<1>5. c \in Task /\ c \in Id /\ c \notin Stops /\ c \notin {"worker", "closer"}
  BY TasksApart
<1> QED
  BY <1>1, <1>2, <1>3, <1>4, <1>5, FilingKeepsShape

LEMMA StopCallKeepsShape ==
  ASSUME Shape, NEW s \in Stops, StopCalls(s) \/ StopConcludes(s)
  PROVE  Shape'
<1>1. /\ UNCHANGED OtherThanTables /\ phase' = phase
      /\ worker' = worker /\ sweep' = sweep
      /\ worker \in [at : WorkerAt, on : Executes \union {"none"}]
      /\ worker.at \in Working => worker.on \in Executes
  BY ShapeSays DEF StopCalls, StopConcludes, OtherThanTables, Typed, Phases
<1>2. s \in Task /\ s \notin Executes /\ s \notin {"worker", "closer"} /\ StopRow \in Id
  BY TasksApart
<1>3. phase # "down" /\ call[s].at \notin BusyAt
  BY <1>2, ShapeSays DEF StopCalls, StopConcludes, Serving, Phases, BusyAt
<1>4. {"stop", "transition"} \subseteq Op \ {"none"}
      /\ {"absent", "queued", "running", "succeeded"} \subseteq States
  BY DEF Op, States, Ends
<1>5. \E op \in {"stop", "transition"},
         from, to \in {"absent", "queued", "running", "succeeded"} :
        /\ Files(s, op, StopRow, from, to)
        /\ StopCall([op |-> op, on |-> StopRow, from |-> from, to |-> to,
                     at |-> "waiting", written |-> 0])
  BY DEF StopCalls, StopConcludes, StopCall
<1>6. PICK op \in {"stop", "transition"},
           from \in {"absent", "queued", "running", "succeeded"},
           to \in {"absent", "queued", "running", "succeeded"} :
        /\ Files(s, op, StopRow, from, to)
        /\ StopCall([op |-> op, on |-> StopRow, from |-> from, to |-> to,
                     at |-> "waiting", written |-> 0])
  BY <1>5
<1>7. op \in Op \ {"none"} /\ from \in States /\ to \in States
  BY <1>4
<1> QED
  BY <1>1, <1>2, <1>3, <1>6, <1>7, FilingKeepsShape

(***************************************************************************)
(* The worker's steps, sorted by what they do to its call.                 *)
(***************************************************************************)
Ask(c, op, from, to) == [op |-> op, on |-> c, from |-> from, to |-> to,
                         at |-> "waiting", written |-> 0]

(* It asks for the lock: with a queued command, or going on with its own.  *)
WorkerAsks(c, at, op, from, to) ==
  /\ Files("worker", op, c, from, to)
  /\ worker' = [at |-> at, on |-> c]
  /\ UNCHANGED <<shown, disk, open, phase, sweep, answered, boots>>
  /\ Asks(at, Ask(c, op, from, to))
  /\ call["worker"].at \notin BusyAt
  /\ \/ worker.at = "idle" /\ at = "dispatch" /\ c \in Queued(shown)
     \/ worker.at = "dispatch" /\ call["worker"].at = "ok" /\ c = worker.on /\ at \in {"reserve", "end"}
     \/ worker.at = "sent" /\ c = worker.on /\ at = "settle"
     \/ worker.at \in Working \ {"dispatch"} /\ c = worker.on /\ at \in {"end", "doubt"}

WorkerFilings ==
  \/ \E c \in Executes : WorkerPicks(c)
  \/ WorkerReserves \/ WorkerSettles \/ WorkerSucceeds \/ WorkerFails \/ WorkerDoubts
  \/ WorkerBlocks

LEMMA WorkerRecord ==
  ASSUME Shape
  PROVE  /\ worker \in [at : WorkerAt, on : Executes \union {"none"}]
         /\ call["worker"] \in Call /\ WorkerCall(call["worker"], worker)
         /\ worker.at \in Working => worker.on \in Executes
         /\ worker.at \notin Calls => call["worker"].at \notin BusyAt
         /\ \A at : [worker EXCEPT !.at = at] = [at |-> at, on |-> worker.on]
BY ShapeSays, TasksApart DEF Typed, Calling, Phases, WorkerCall

LEMMA WorkerAsking ==
  ASSUME Shape, WorkerFilings
  PROVE  \E c \in Executes, at \in Calls, op \in {"transition", "reserve", "settle"},
            from, to \in States : WorkerAsks(c, at, op, from, to)
<1> USE StatesSay
<1>1. ASSUME NEW at \in Calls, NEW op \in {"transition", "reserve", "settle"},
             NEW from \in States, NEW to \in States, WorkerCalls(at, op, from, to),
             Asks(at, Ask(worker.on, op, from, to)),
             UNCHANGED <<shown, disk, open, phase, sweep, answered, boots>>,
             worker.at \in Working, call["worker"].at \notin BusyAt,
             \/ worker.at = "dispatch" /\ call["worker"].at = "ok" /\ at \in {"reserve", "end"}
             \/ worker.at = "sent" /\ at = "settle"
             \/ worker.at # "dispatch" /\ at \in {"end", "doubt"}
      PROVE  worker.on \in Executes /\ WorkerAsks(worker.on, at, op, from, to)
  BY <1>1, WorkerRecord DEF WorkerCalls, WorkerAsks
<1>2. ASSUME NEW c \in Executes, WorkerPicks(c)
      PROVE  WorkerAsks(c, "dispatch", "transition", "queued", "running")
  <2>1. call["worker"].at \notin BusyAt
    BY <1>2, WorkerRecord DEF WorkerPicks, Calls
  <2> QED
    BY <1>2, <2>1 DEF WorkerPicks, WorkerAsks, Asks, Ask
<1>3. CASE WorkerReserves
  <2>1. Asks("reserve", Ask(worker.on, "reserve", "absent", "absent"))
    BY DEF Asks, Ask
  <2>2. /\ WorkerCalls("reserve", "reserve", "absent", "absent")
        /\ UNCHANGED <<shown, disk, open, phase, sweep, answered, boots>>
    BY <1>3 DEF WorkerReserves
  <2>3. worker.at = "dispatch" /\ call["worker"].at = "ok" /\ worker.at \in Working
    BY <1>3 DEF WorkerReserves, Answered, Working, WorkerAt
  <2>4. call["worker"].at \notin BusyAt
    BY <2>3, WorkerRecord DEF Calls, BusyAt
  <2>5. worker.on \in Executes /\ WorkerAsks(worker.on, "reserve", "reserve", "absent", "absent")
    BY <1>1, <2>1, <2>2, <2>3, <2>4 DEF Calls
  <2> QED
    BY <2>5 DEF Calls
<1>4. CASE WorkerSettles
  <2>1. Asks("settle", Ask(worker.on, "settle", "absent", "absent"))
    BY DEF Asks, Ask
  <2>2. /\ WorkerCalls("settle", "settle", "absent", "absent")
        /\ UNCHANGED <<shown, disk, open, phase, sweep, answered, boots>>
    BY <1>4 DEF WorkerSettles
  <2>3. worker.at = "sent" /\ worker.at \in Working
    BY <1>4 DEF WorkerSettles, Working, WorkerAt
  <2>4. call["worker"].at \notin BusyAt
    BY <2>3, WorkerRecord DEF Calls, BusyAt
  <2>5. worker.on \in Executes /\ WorkerAsks(worker.on, "settle", "settle", "absent", "absent")
    BY <1>1, <2>1, <2>2, <2>3, <2>4 DEF Calls
  <2> QED
    BY <2>5 DEF Calls
<1>5. CASE WorkerSucceeds
  <2>1. Asks("end", Ask(worker.on, "transition", "running", "succeeded"))
    BY DEF Asks, Ask
  <2>2. /\ WorkerCalls("end", "transition", "running", "succeeded")
        /\ UNCHANGED <<shown, disk, open, phase, sweep, answered, boots>>
    BY <1>5 DEF WorkerSucceeds
  <2>3. worker.at = "noted" /\ worker.at \in Working
    BY <1>5 DEF WorkerSucceeds, Noted, Working, WorkerAt
  <2>4. call["worker"].at \notin BusyAt
    BY <2>3, WorkerRecord DEF Calls, BusyAt
  <2>5. worker.on \in Executes /\ WorkerAsks(worker.on, "end", "transition", "running", "succeeded")
    BY <1>1, <2>1, <2>2, <2>3, <2>4 DEF Calls
  <2> QED
    BY <2>5 DEF Calls
<1>6. CASE WorkerFails
  <2>1. Asks("end", Ask(worker.on, "transition", "running", "failed"))
    BY DEF Asks, Ask
  <2>2. /\ WorkerCalls("end", "transition", "running", "failed")
        /\ UNCHANGED <<shown, disk, open, phase, sweep, answered, boots>>
    BY <1>6 DEF WorkerFails
  <2>3. /\ worker.at \in Working
        /\ worker.at = "dispatch" => call["worker"].at = "ok"
    BY <1>6 DEF WorkerFails, Answered, Noted, Working, WorkerAt
  <2>4. call["worker"].at \notin BusyAt
    BY <1>6, WorkerRecord DEF WorkerFails, Answered, Noted, Calls, BusyAt
  <2>5. worker.on \in Executes /\ WorkerAsks(worker.on, "end", "transition", "running", "failed")
    BY <1>1, <2>1, <2>2, <2>3, <2>4 DEF Calls
  <2> QED
    BY <2>5 DEF Calls
<1>7. CASE WorkerDoubts
  <2>1. Asks("doubt", Ask(worker.on, "transition", "running", "reconciling"))
    BY DEF Asks, Ask
  <2>2. /\ WorkerCalls("doubt", "transition", "running", "reconciling")
        /\ UNCHANGED <<shown, disk, open, phase, sweep, answered, boots>>
    BY <1>7 DEF WorkerDoubts
  <2>3. worker.at = "noted" /\ worker.at \in Working
    BY <1>7 DEF WorkerDoubts, Noted, Working, WorkerAt
  <2>4. call["worker"].at \notin BusyAt
    BY <2>3, WorkerRecord DEF Calls, BusyAt
  <2>5. worker.on \in Executes /\ WorkerAsks(worker.on, "doubt", "transition", "running", "reconciling")
    BY <1>1, <2>1, <2>2, <2>3, <2>4 DEF Calls
  <2> QED
    BY <2>5 DEF Calls
<1>8. CASE WorkerBlocks
  <2>1. Asks("end", Ask(worker.on, "transition", "reconciling", "blocked_unknown"))
    BY DEF Asks, Ask
  <2>2. /\ WorkerCalls("end", "transition", "reconciling", "blocked_unknown")
        /\ UNCHANGED <<shown, disk, open, phase, sweep, answered, boots>>
    BY <1>8 DEF WorkerBlocks
  <2>3. worker.at = "doubt" /\ call["worker"].at = "ok" /\ worker.at \in Working
    BY <1>8 DEF WorkerBlocks, Answered, Working, WorkerAt
  <2>4. call["worker"].at \notin BusyAt
    BY <2>3, WorkerRecord DEF Calls, BusyAt
  <2>5. worker.on \in Executes /\ WorkerAsks(worker.on, "end", "transition", "reconciling", "blocked_unknown")
    BY <1>1, <2>1, <2>2, <2>3, <2>4 DEF Calls
  <2> QED
    BY <2>5 DEF Calls
<1>9. CASE \E c \in Executes : WorkerPicks(c)
  BY <1>2, <1>9 DEF Calls
<1> QED
  BY <1>3, <1>4, <1>5, <1>6, <1>7, <1>8, <1>9 DEF WorkerFilings

LEMMA WorkerAskKeepsShape ==
  ASSUME Shape, NEW c \in Executes, NEW at \in Calls,
         NEW op \in {"transition", "reserve", "settle"}, NEW from \in States, NEW to \in States,
         WorkerAsks(c, at, op, from, to)
  PROVE  Shape'
<1>1. phase # "down"
  BY ShapeSays DEF WorkerAsks, Phases, Working
<1>2. WorkerCall(Ask(c, op, from, to), worker')
  BY DEF WorkerAsks, WorkerCall, Ask
<1>3. /\ UNCHANGED OtherThanTables /\ phase' = phase /\ sweep' = sweep
      /\ worker' \in [at : WorkerAt, on : Executes \union {"none"}] /\ worker'.on \in Executes
      /\ Files("worker", op, c, from, to) /\ call["worker"].at \notin BusyAt
  BY DEF WorkerAsks, OtherThanTables, Calls, WorkerAt
<1>4. "worker" \in Task /\ "worker" \notin Executes /\ "worker" \notin Stops /\ c \in Id
  BY TasksApart
<1>5. op \in Op \ {"none"}
  BY DEF Op
<1> QED
  BY <1>1, <1>2, <1>3, <1>4, <1>5, FilingKeepsShape DEF Ask

(* It goes on without the lock.                                            *)
WorkerGoesOn(at) ==
  /\ worker.at \in Working /\ at \in Working \ Calls
  /\ worker' = [at |-> at, on |-> worker.on]
  /\ call["worker"].at \notin BusyAt
  /\ UNCHANGED <<lock, call, phase, sweep, answered, boots>>

LEMMA WorkerMoves ==
  ASSUME Shape
  PROVE  /\ WorkerMarks => WorkerGoesOn("marking")
         /\ WorkerMarked => WorkerGoesOn("marked")
         /\ WorkerSends => WorkerGoesOn("sent")
         /\ WorkerLoses => WorkerGoesOn("losing")
         /\ WorkerLost => WorkerGoesOn("lost")
         /\ WorkerNotes => WorkerGoesOn("noting")
         /\ WorkerNoted => WorkerGoesOn("noted")
BY WorkerRecord DEF WorkerGoesOn, WorkerMarks, WorkerMarked, WorkerSends, WorkerLoses, WorkerLost,
     WorkerNotes, WorkerNoted, UpdateStep, UpdateCommits, Answered, Working, WorkerAt, Calls, BusyAt

LEMMA WorkerMoveKeepsShape ==
  ASSUME Shape, NEW at, WorkerGoesOn(at), shown' \in Tables, disk' \in Tables,
         open' \in BOOLEAN, ~open' => shown' = disk'
  PROVE  Shape'
<1>1. Typed /\ Calling /\ Phases
  BY ShapeSays
<1>2. Locked'
  BY QueueUnchanged DEF WorkerGoesOn
<1>3. Calling'
  BY <1>1 DEF Calling, WorkerGoesOn, WorkerCall
<1>4. Phases'
  BY <1>1 DEF Phases, WorkerGoesOn, Working
<1>5. Typed'
  BY <1>1, WorkerRecord DEF Typed, WorkerGoesOn, Working
<1> QED
  BY <1>2, <1>3, <1>4, <1>5, ShapeFollows

(* It has its answer and takes no new step with it.                        *)
LEMMA WorkerRestKeepsShape ==
  ASSUME Shape, NEW at \in {"idle", "dead"}, WorkerRests(at), worker.at # "gone",
         call["worker"].at \notin BusyAt
  PROVE  Shape'
<1>1. Typed /\ Calling /\ Phases /\ "worker" \in Task
  BY ShapeSays, TasksApart
<1>2. OnlyCall("worker") /\ call'["worker"] = NoCall /\ NoCall.at = "idle" /\ NoCall.op = "none"
  BY <1>1, OneCall, NoCallIsTyped DEF WorkerRests, NoCall
<1>3. worker'.at = at /\ worker'.on = "none"
  BY DEF WorkerRests
<1>4. Locked'
  BY <1>1, <1>2, QueueStays DEF WorkerRests, BusyAt
<1>5. Calling'
  <2>1. Asked(NoCall) /\ WorkerCall(NoCall, worker')
    BY <1>2, <1>3 DEF Asked, WorkerCall, BusyAt, Calls
  <2> QED
    BY <1>1, <1>2, <2>1, CallingKept, TasksApart
<1>6. Phases'
  BY <1>1, <1>2, <1>3, TasksApart DEF Phases, OnlyCall, WorkerRests, Working
<1>7. Typed'
  BY <1>1, <1>2 DEF Typed, WorkerRests, OnlyCall, WorkerAt
<1> QED
  BY <1>4, <1>5, <1>6, <1>7, ShapeFollows

LEMMA WorkerKeepsShape ==
  ASSUME Shape, WorkerStep
  PROVE  Shape'
<1>1. CASE WorkerFilings
  <2>1. PICK c \in Executes, at \in Calls, op \in {"transition", "reserve", "settle"},
             from \in States, to \in States : WorkerAsks(c, at, op, from, to)
    BY <1>1, WorkerAsking
  <2> QED
    BY <2>1, WorkerAskKeepsShape
<1>2. shown \in Tables /\ disk \in Tables /\ open \in BOOLEAN /\ (~open => shown = disk)
  BY ShapeSays DEF Typed
<1>3. CASE WorkerMarks \/ WorkerLoses
  <2>1. \A s \in StepStates : \A e \in StepWrites(worker.on, s, shown) : e \in Tables
    BY <1>2 DEF StepWrites, Tables
  <2>2. shown' \in Tables /\ disk' = disk /\ open' = TRUE
    BY <1>3, <2>1 DEF WorkerMarks, WorkerLoses, UpdateStep, StepStates
  <2> QED
    BY <1>2, <1>3, <2>2, WorkerMoves, WorkerMoveKeepsShape
<1>4. CASE WorkerMarked \/ WorkerLost \/ WorkerNoted
  <2>1. shown' = shown /\ disk' = shown /\ open' = FALSE
    BY <1>4 DEF WorkerMarked, WorkerLost, WorkerNoted, UpdateCommits
  <2> QED
    BY <1>2, <1>4, <2>1, WorkerMoves, WorkerMoveKeepsShape
<1>5. CASE WorkerSends \/ WorkerNotes
  <2>1. shown' = shown /\ disk' = disk /\ (open' = open \/ open' = TRUE)
    BY <1>5 DEF WorkerSends, WorkerNotes
  <2> QED
    BY <1>2, <1>5, <2>1, WorkerMoves, WorkerMoveKeepsShape
<1>6. CASE WorkerMisses
  BY <1>6, WorkerRestKeepsShape DEF WorkerMisses, Answered, BusyAt
<1>7. CASE WorkerEnds
  BY <1>7, WorkerRestKeepsShape DEF WorkerEnds, Answered, BusyAt
<1>8. CASE WorkerDies
  BY <1>8, WorkerRestKeepsShape DEF WorkerDies, Answered, BusyAt
<1> QED
  BY <1>1, <1>3, <1>4, <1>5, <1>6, <1>7, <1>8 DEF WorkerStep, WorkerFilings

(***************************************************************************)
(* Shape: close(), the end of the process and its restart.                 *)
(***************************************************************************)
LEMMA CloseKeepsShape ==
  ASSUME Shape, CloseBegins \/ CloseCommits \/ CloseRaises
  PROVE  Shape'
<1>1. Typed /\ Calling /\ Phases
  BY ShapeSays
<1>2. UNCHANGED <<lock, call, worker, sweep, answered, boots>>
  BY DEF CloseBegins, CloseCommits, CloseRaises
<1>3. Locked' /\ Calling'
  BY <1>2, QueueUnchanged, CallingUnchanged
<1>4. [shown EXCEPT !.accepting = FALSE] \in Tables
  BY <1>1 DEF Typed, Tables
<1>5. /\ shown' \in Tables /\ disk' \in Tables /\ open' \in BOOLEAN
      /\ ~open' => shown' = disk'
  BY <1>1, <1>4 DEF CloseBegins, CloseCommits, CloseRaises, Typed
<1>6. Typed'
  BY <1>1, <1>2, <1>5 DEF Typed, CloseBegins, CloseCommits, CloseRaises
<1>7. Phases'
  BY <1>1, <1>2 DEF Phases, CloseBegins, CloseCommits, CloseRaises, BusyAt
<1> QED
  BY <1>3, <1>6, <1>7, ShapeFollows

LEMMA CancelKeepsShape ==
  ASSUME Shape, CloseCancelsWorker
  PROVE  Shape'
<1>1. Typed /\ Calling /\ Phases /\ "worker" \in Task
  BY ShapeSays, TasksApart
<1>2. OnlyCall("worker") /\ call'["worker"] = NoCall /\ NoCall.at = "idle" /\ NoCall.op = "none"
  BY <1>1, OneCall, NoCallIsTyped DEF CloseCancelsWorker, NoCall
<1>3. worker'.at = "gone" /\ worker'.on = "none"
  BY DEF CloseCancelsWorker
<1>4. Locked'
  BY <1>1, <1>2, QueueShrinks DEF CloseCancelsWorker, BusyAt
<1>5. Calling'
  <2>1. Asked(NoCall) /\ WorkerCall(NoCall, worker')
    BY <1>2, <1>3 DEF Asked, WorkerCall, BusyAt, Calls
  <2> QED
    BY <1>1, <1>2, <2>1, CallingKept, TasksApart
<1>6. Phases'
  BY <1>1, <1>2, <1>3, TasksApart DEF Phases, OnlyCall, CloseCancelsWorker, Working
<1>7. Typed'
  BY <1>1, <1>2 DEF Typed, CloseCancelsWorker, OnlyCall, WorkerAt
<1> QED
  BY <1>4, <1>5, <1>6, <1>7, ShapeFollows

LEMMA SweepReadKeepsShape ==
  ASSUME Shape, SweepReads
  PROVE  Shape'
<1>1. Typed /\ Calling /\ Phases /\ "closer" \in Task /\ "closer" # "worker"
  BY ShapeSays, TasksApart
<1>2. /\ OnlyCall("closer") /\ Same(call'["closer"], call["closer"])
      /\ call'["closer"].at = "ok"
  BY <1>1, Moved DEF SweepReads, At
<1>3. call["closer"].at \notin BusyAt
  BY <1>1 DEF SweepReads, Phases
<1>4. Locked'
  BY <1>1, <1>2, <1>3, QueueStays DEF SweepReads, BusyAt
<1>5. Calling'
  BY <1>1, <1>2, CallGoesOn DEF SweepReads, BusyAt
<1>6. Phases'
  BY <1>1, <1>2 DEF Phases, OnlyCall, SweepReads, BusyAt, Recovered
<1>7. Typed'
  BY <1>1, <1>2 DEF Typed, SweepReads, OnlyCall
<1> QED
  BY <1>4, <1>5, <1>6, <1>7, ShapeFollows

LEMMA SweepFileKeepsShape ==
  ASSUME Shape, NEW r \in sweep, SweepFiles(r)
  PROVE  Shape'
<1>1. Typed /\ "closer" \in Task /\ "closer" \notin Executes /\ "closer" \notin Stops
  BY ShapeSays, TasksApart
<1>2. r[1] \in Id /\ r[2] \in States /\ Recovered(r[2]) \in States
  BY <1>1, StatesSay DEF Typed
<1>3. "transition" \in Op \ {"none"}
  BY DEF Op
<1>4. /\ Files("closer", "transition", r[1], r[2], Recovered(r[2]))
      /\ call["closer"].at \notin BusyAt
      /\ UNCHANGED OtherThanTables /\ phase' = phase /\ phase = "sweeping" /\ worker' = worker
      /\ sweep' \subseteq sweep
      /\ worker \in [at : WorkerAt, on : Executes \union {"none"}]
      /\ worker.at \in Working => worker.on \in Executes
  BY ShapeSays DEF SweepFiles, OtherThanTables, BusyAt, Typed, Phases
<1>5. CloserCall([op |-> "transition", on |-> r[1], from |-> r[2], to |-> Recovered(r[2]),
                  at |-> "waiting", written |-> 0])
  BY ShapeSays DEF CloserCall, Phases
<1> QED
  BY <1>1, <1>2, <1>3, <1>4, <1>5, FilingKeepsShape

LEMMA NobodyAfterGone ==
  ASSUME Shape, NEW d \in Tables, Gone(d)
  PROVE  /\ call' \in [Task -> Call]
         /\ \A t \in Task : \/ call'[t] = Lost \/ call'[t] = NoCall
                            \/ call'[t] = call[t] /\ call[t].at = "idle"
         /\ \A t \in Task : call'[t].at \in {"idle", "raised"}
         /\ call'["worker"] = NoCall /\ call'["closer"] = NoCall
<1>1. Typed /\ "worker" \in Task /\ "closer" \in Task
  BY ShapeSays, TasksApart
<1>2. \A t \in Task : \/ call'[t] = Lost \/ call'[t] = NoCall
                      \/ call'[t] = call[t] /\ call[t].at = "idle"
  BY DEF Gone
<1>3. call' \in [Task -> Call]
  BY <1>1, NoCallIsTyped DEF Gone, Typed
<1>4. Lost.at = "raised" /\ NoCall.at = "idle"
  BY DEF Lost, NoCall
<1>5. call'["worker"] = NoCall /\ call'["closer"] = NoCall
  BY <1>1 DEF Gone
<1> QED
  BY <1>2, <1>3, <1>4, <1>5

LEMMA GoneKeepsShape ==
  ASSUME Shape, NEW d \in Tables, Gone(d)
  PROVE  Shape'
<1>1. Typed /\ Calling
  BY ShapeSays
<1>2. /\ call' \in [Task -> Call]
      /\ \A t \in Task : \/ call'[t] = Lost \/ call'[t] = NoCall
                         \/ call'[t] = call[t] /\ call[t].at = "idle"
      /\ \A t \in Task : call'[t].at \in {"idle", "raised"}
      /\ call'["worker"] = NoCall /\ call'["closer"] = NoCall
  BY NobodyAfterGone
<1>3. lock' = <<>> /\ lock' \in Seq(Task) /\ DOMAIN lock' = {}
  BY DEF Gone
<1>4. Locked'
  BY <1>2, <1>3 DEF Locked, Lining, Holders, IsInjective, BusyAt
<1>5. Calling'
  <2>1. \A t \in Task : Asked(call'[t])
    BY <1>2 DEF Asked, BusyAt
  <2>2. /\ NoCall.op = "none" /\ Lost.op = "none" /\ NoCall.on = StopRow /\ Lost.on = StopRow
        /\ NoCall.at = "idle"
    BY DEF NoCall, Lost
  <2>3. \A c \in Executes : CreateCall(c, call'[c])
    BY <1>1, <1>2, <2>2, TasksApart DEF CreateCall, Calling
  <2>4. \A s \in Stops : StopCall(call'[s])
    BY <1>1, <1>2, <2>2, TasksApart DEF StopCall, Calling
  <2>5. WorkerCall(call'["worker"], worker') /\ CloserCall(call'["closer"])
    BY <1>2, <2>2 DEF WorkerCall, CloserCall, Gone, BusyAt, Calls
  <2> QED
    BY <2>1, <2>3, <2>4, <2>5 DEF Calling
<1>6. Phases'
  BY <1>2, TasksApart DEF Phases, Gone, Working, BusyAt
<1>7. Typed'
  BY <1>1, <1>2 DEF Typed, Gone, WorkerAt
<1> QED
  BY <1>4, <1>5, <1>6, <1>7, ShapeFollows

LEMMA BootKeepsShape ==
  ASSUME Shape, Boot
  PROVE  Shape'
<1>1. Typed /\ Calling /\ Phases
  BY ShapeSays
<1>2. UNCHANGED <<lock, call>> /\ worker'.at = "idle" /\ phase' = "up" /\ sweep' = sweep
  BY <1>1 DEF Boot, Typed
<1>3. \A t \in Task : call[t].at \in {"idle", "raised"}
  BY <1>1 DEF Boot, Phases
<1>4. Locked'
  BY <1>2, QueueUnchanged
<1>5. Calling'
  BY <1>1, <1>2, <1>3, TasksApart DEF Calling, WorkerCall, Calls, BusyAt
<1>6. Phases'
  BY <1>1, <1>2, <1>3, TasksApart DEF Phases, Working, BusyAt
<1>7. disk' \in Tables
  BY <1>1, StatesSay DEF Boot, Typed, Tables
<1>8. boots' \in 0..MaxBoots
  BY <1>1, ConnectionAssumption DEF Boot, Typed
<1>9. worker' \in [at : WorkerAt, on : Executes \union {"none"}]
  BY <1>1 DEF Boot, Typed, WorkerAt
<1>10. Typed'
  BY <1>1, <1>2, <1>7, <1>8, <1>9 DEF Typed, Boot
<1> QED
  BY <1>4, <1>5, <1>6, <1>10, ShapeFollows

LEMMA ShapeKept ==
  ASSUME Shape, [Next]_vars
  PROVE  Shape'
<1>1. Typed
  BY ShapeSays
<1>2. ASSUME NEW t \in Task, Begin(t) \/ Look(t) \/ Write(t) \/ Commit(t)
      PROVE  Shape'
  BY <1>2, BeginKeepsShape, LookKeepsShape, WriteKeepsShape, CommitKeepsShape
<1>3. ASSUME NEW s \in Stops, StopCalls(s) \/ StopConcludes(s)
      PROVE  Shape'
  BY <1>3, StopCallKeepsShape
<1>4. CASE CloseStep
  <2>1. CASE CloseEnds
    BY <1>1, <2>1, GoneKeepsShape DEF CloseEnds, Typed
  <2> QED
    BY <1>4, <2>1, CloseKeepsShape, CancelKeepsShape, SweepReadKeepsShape, SweepFileKeepsShape
       DEF CloseStep
<1>5. CASE Crash
  BY <1>1, <1>5, GoneKeepsShape DEF Crash, Typed
<1>6. CASE UNCHANGED vars
  BY <1>6 DEF vars, Shape, TypeOK, Lining, Calling, Phases
<1> QED
  BY <1>2, <1>3, <1>4, <1>5, <1>6, TimeoutKeepsShape, SubmitKeepsShape, WorkerKeepsShape,
     BootKeepsShape DEF Next

LEMMA ShapeInit == Init => Shape
<1> SUFFICES ASSUME Init
             PROVE  Shape
  OBVIOUS
<1>1. disk \in Tables
  BY DEF Init, Tables, States, StepStates
<1>2. call \in [Task -> Call] /\ \A t \in Task : call[t] = NoCall
  BY NoCallIsTyped DEF Init
<1>3. Typed
  <2>1. shown \in Tables /\ (~open => shown = disk) /\ open \in BOOLEAN
    BY <1>1 DEF Init
  <2>2. worker \in [at : WorkerAt, on : Executes \union {"none"}]
    BY DEF Init, WorkerAt
  <2>3. boots \in 0..MaxBoots
    BY ConnectionAssumption DEF Init
  <2> QED
    BY <1>1, <1>2, <2>1, <2>2, <2>3 DEF Init, Typed
<1>4. NoCall.op = "none" /\ NoCall.on = StopRow /\ NoCall.at = "idle"
  BY DEF NoCall
<1>5. Locked
  BY <1>2, <1>4 DEF Init, Locked, Lining, Holders, IsInjective, BusyAt
<1>6. Calling
  BY <1>2, <1>4, TasksApart DEF Init, Calling, Asked, CreateCall, StopCall, WorkerCall, CloserCall,
     BusyAt, Calls
<1>7. Phases
  BY <1>2, <1>4, TasksApart DEF Init, Phases, Working, BusyAt
<1> QED
  BY <1>3, <1>5, <1>6, <1>7, ShapeSays

-----------------------------------------------------------------------------
(* The tables move on.                                                     *)
LEMMA LaterStates ==
  /\ \A s \in States : s \in Later(s) /\ Recovered(s) \in Later(s)
  /\ \A q, r, s \in States : r \in Later(q) /\ s \in Later(r) => s \in Later(q)
  /\ \A r, s \in States : s \in Later(r) =>
       /\ s = "absent" => r = "absent"
       /\ s = "queued" => r \in {"absent", "queued"}
       /\ r \in Begun => s \in Begun
       /\ r \in Ends => s = r
       /\ r # "absent" => s \in Since(r) /\ s # "absent"
  /\ \A r, s \in States : s \in Since(r) => s \in Later(r)
  /\ {"running", "reconciling"} \subseteq Begun /\ Begun \subseteq States
  /\ \A s \in States : s # "absent" => s \in Since(s)
<1>1. \A s \in States : s \in Later(s) /\ Recovered(s) \in Later(s)
  BY DEF Later, Since, Recovered, States, Ends
<1>2. \A q, r, s \in States : r \in Later(q) /\ s \in Later(r) => s \in Later(q)
  BY DEF Later, Since, States, Ends
<1>3. \A r, s \in States : s \in Later(r) =>
        /\ s = "absent" => r = "absent"
        /\ s = "queued" => r \in {"absent", "queued"}
        /\ r \in Begun => s \in Begun
        /\ r \in Ends => s = r
        /\ r # "absent" => s \in Since(r) /\ s # "absent"
  BY DEF Later, Since, States, Ends, Begun
<1>4. \A r, s \in States : s \in Since(r) => s \in Later(r)
  BY DEF Later, Since, States, Ends
<1>5. {"running", "reconciling"} \subseteq Begun /\ Begun \subseteq States
  BY DEF Since, Begun, States, Ends
<1>6. \A s \in States : s # "absent" => s \in Since(s)
  BY DEF Since, States, Ends
<1> QED
  BY <1>1, <1>2, <1>3, <1>4, <1>5, <1>6

LEMMA RowsTyped ==
  ASSUME NEW d \in Tables
  PROVE  /\ \A c \in Id : d.row[c] \in States
         /\ \A c \in Executes : d.row[c] \in States /\ d.step[c] \in StepStates
BY DEF Tables, Id

LEMMA OnwardReflexive ==
  ASSUME NEW d \in Tables
  PROVE  Onward(d, d)
BY LaterStates, RowsTyped DEF Onward

LEMMA OnwardTransitive ==
  ASSUME NEW d \in Tables, NEW e \in Tables, NEW f \in Tables, Onward(d, e), Onward(e, f)
  PROVE  Onward(d, f)
<1>1. \A c \in Id : f.row[c] \in Later(d.row[c])
  BY LaterStates, RowsTyped DEF Onward
<1> QED
  BY <1>1 DEF Onward

LEMMA OnwardSays ==
  ASSUME NEW d \in Tables, NEW e \in Tables, Onward(d, e), NEW c \in Id
  PROVE  /\ e.row[c] = "absent" => d.row[c] = "absent"
         /\ e.row[c] = "queued" => d.row[c] \in {"absent", "queued"}
         /\ d.row[c] \in Begun => e.row[c] \in Begun
         /\ d.row[c] \in Ends => e.row[c] = d.row[c]
         /\ d.row[c] # "absent" => e.row[c] \in Since(d.row[c])
BY LaterStates, RowsTyped DEF Onward

LEMMA TablesTyped ==
  ASSUME Shape
  PROVE  shown \in Tables /\ disk \in Tables
BY ShapeSays DEF Typed

(* A commit: the disk becomes what the connection shows.                   *)
LEMMA CommitKeepsTabled ==
  ASSUME Shape, Tabled, shown' = shown, disk' = shown
  PROVE  Tabled' /\ Onward(disk, disk')
<1>1. Onward(shown, shown)
  BY TablesTyped, OnwardReflexive
<1>2. ASSUME NEW c \in Executes, shown.step[c] # "none"
      PROVE  shown.row[c] \in Begun
  BY <1>2, TablesTyped, OnwardSays, TasksApart DEF Tabled, Stepped
<1> QED
  BY <1>1, <1>2 DEF Tabled, Stepped

(* A rollback: the connection shows the disk again.                        *)
LEMMA RollbackKeepsTabled ==
  ASSUME Shape, Tabled, shown' = disk, disk' = disk
  PROVE  Tabled'
<1>1. Onward(disk, disk)
  BY TablesTyped, OnwardReflexive
<1> QED
  BY <1>1 DEF Tabled, Stepped

(* A statement: what the connection shows moves on, the disk does not.     *)
LEMMA StatementKeepsTabled ==
  ASSUME Shape, Tabled, shown' \in Tables, disk' = disk, Onward(shown, shown'),
         WholeBarrier(shown'), OneTaken(shown'),
         \A c \in Executes : shown'.step[c] # "none" => disk.row[c] \in Begun
  PROVE  Tabled'
<1>1. Onward(disk, shown')
  BY TablesTyped, OnwardTransitive DEF Tabled
<1> QED
  BY <1>1 DEF Tabled, Stepped

(* Answers stay true as the disk moves on.                                 *)
Durable(a, d) ==
  CASE a[2] = "reserved" -> d.step[a[1]] # "none"
    [] a[2] = "settled" -> d.step[a[1]] = "settled"
    [] OTHER -> d.row[a[1]] \in Since(a[2])

LEMMA AcknowledgedSays ==
  Acknowledged <=>
    \A a \in answered : /\ Durable(a, disk) /\ a[2] # "absent"
                        /\ a[2] \in {"reserved", "settled"} => a[1] \in Executes
BY DEF Acknowledged, AnswersAreDurable, Durable


LEMMA SinceOnward ==
  ASSUME NEW a, NEW r \in States, NEW s \in States, a # "absent", r \in Since(a), s \in Later(r)
  PROVE  s \in Since(a)
<1>1. CASE a \in States
  <2>1. r \in Later(a) /\ Later(a) = Since(a)
    BY <1>1, LaterStates DEF Later
  <2> QED
    BY <1>1, <2>1, LaterStates
<1>2. CASE a \notin States
  BY <1>2 DEF Since, States
<1> QED
  BY <1>1, <1>2

LEMMA AnswersStay ==
  ASSUME Shape, Acknowledged, disk' \in Tables, Onward(disk, disk')
  PROVE  \A a \in answered : /\ Durable(a, disk') /\ a[2] # "absent"
                             /\ a[2] \in {"reserved", "settled"} => a[1] \in Executes
<1> SUFFICES ASSUME NEW a \in answered
             PROVE  Durable(a, disk')
  BY AcknowledgedSays
<1>1. /\ Durable(a, disk) /\ a[2] # "absent" /\ a[1] \in Id
      /\ a[2] \in {"reserved", "settled"} => a[1] \in Executes
  BY AcknowledgedSays, ShapeSays DEF Typed
<1>2. CASE a[2] = "reserved"
  BY <1>1, <1>2 DEF Durable, Onward
<1>3. CASE a[2] = "settled"
  BY <1>1, <1>3 DEF Durable, Onward
<1>4. CASE a[2] \notin {"reserved", "settled"}
  <2>1. disk.row[a[1]] \in Since(a[2])
    BY <1>1, <1>4 DEF Durable
  <2>2. /\ disk.row[a[1]] \in States /\ disk'.row[a[1]] \in States
        /\ disk'.row[a[1]] \in Later(disk.row[a[1]])
    BY <1>1, TablesTyped, RowsTyped DEF Onward
  <2> QED
    BY <1>1, <1>4, <2>1, <2>2, SinceOnward DEF Durable
<1> QED
  BY <1>2, <1>3, <1>4

LEMMA AcknowledgedKept ==
  ASSUME Shape, Acknowledged, disk' \in Tables, Onward(disk, disk') \/ disk' = disk,
         answered' = answered
  PROVE  Acknowledged'
<1>1. Onward(disk, disk')
  BY TablesTyped, OnwardReflexive
<1>2. \A a \in answered' : /\ Durable(a, disk') /\ a[2] # "absent"
                           /\ a[2] \in {"reserved", "settled"} => a[1] \in Executes
  BY <1>1, AnswersStay
<1> QED
  BY <1>2 DEF Acknowledged, AnswersAreDurable, Durable

(***************************************************************************)
(* What the worker knows moves with it.                                    *)
(***************************************************************************)
LEMMA KnowsLess ==
  ASSUME NEW w, NEW k, NEW m, NEW d, Knows(w, k, d),
         Unwritten(m) => Unwritten(k),
         m.at = "refused" => Unwritten(k) \/ k.at = "refused"
  PROVE  Knows(w, m, d)
BY DEF Knows

LEMMA BegunStays ==
  ASSUME Shape, NEW m, HasBegun(worker, call["worker"], disk), disk' \in Tables,
         Onward(disk, disk') \/ disk' = disk,
         m.at = "ok" => call["worker"].at = "ok"
  PROVE  HasBegun(worker, m, disk')
<1>1. worker.at \in Working => worker.on \in Id
  BY ShapeSays, TasksApart DEF Phases
<1>2. worker.at \in {"dispatch", "end"} => worker.at \in Working
  BY DEF Working, WorkerAt
<1>3. worker.at \in Working /\ disk.row[worker.on] \in Begun => disk'.row[worker.on] \in Begun
  BY <1>1, TablesTyped, OnwardSays
<1>4. worker.at \in Working /\ disk.row[worker.on] \in Ends => disk'.row[worker.on] \in Ends
  BY <1>1, TablesTyped, OnwardSays
<1> QED
  BY <1>2, <1>3, <1>4 DEF HasBegun

LEMMA NobodyKnows ==
  ASSUME NEW w, NEW k, NEW d, w.at \in {"dead", "gone"}
  PROVE  Knows(w, k, d) /\ HasBegun(w, k, d)
BY DEF Knows, HasBegun, Working, Unsettled

LEMMA IdleKnows ==
  ASSUME NEW w, NEW k, NEW d, w.at = "idle", \A c \in Executes : d.row[c] \notin Taken
  PROVE  Knows(w, k, d) /\ HasBegun(w, k, d)
BY DEF Knows, HasBegun, Working, Unsettled

LEMMA ContentFollows ==
  ASSUME Tabled', Writing', FreshCreates', Knowing', Acknowledged'
  PROVE  Content'
BY DEF Content

(* One task's call moves, and the tables do not.                           *)
LEMMA CallKeepsContent ==
  ASSUME Shape, Content, NEW t \in Task, OnlyCall(t),
         UNCHANGED <<shown, disk, answered, worker>>, call'[t].at # "writing",
         t \in Executes => Fresh(t, call'[t], shown),
         t = "worker" => /\ Unwritten(call'[t]) => Unwritten(call[t])
                         /\ call'[t].at \notin {"refused", "ok"}
  PROVE  Content'
<1>1. Tabled' /\ Acknowledged'
  BY DEF Content, Tabled, Stepped, Acknowledged, AnswersAreDurable
<1>2. Writing'
  BY DEF Content, Writing, OnlyCall
<1>3. FreshCreates'
  BY TasksApart DEF Content, FreshCreates, OnlyCall
<1>4. Knowing'
  <2>1. CASE t = "worker"
    <3>1. \A d : Knows(worker, call["worker"], d) => Knows(worker, call'["worker"], d)
      BY <2>1, KnowsLess
    <3>2. HasBegun(worker, call'["worker"], disk)
      BY <2>1 DEF Content, Knowing, HasBegun
    <3> QED
      BY <3>1, <3>2 DEF Content, Knowing
  <2>2. CASE t # "worker"
    BY <2>2, TasksApart DEF Content, Knowing, OnlyCall
  <2> QED
    BY <2>1, <2>2
<1> QED
  BY <1>1, <1>2, <1>3, <1>4, ContentFollows


LEMMA BeginKeepsContent ==
  ASSUME Shape, Content, NEW t \in Task, Begin(t)
  PROVE  Content'
<1>1. call[t].written = 0 /\ Unwritten(call[t]) /\ UNCHANGED <<shown, disk, answered, worker>>
  BY ShapeSays DEF Begin, Calling, Asked, BusyAt, Unwritten
<1>2. /\ OnlyCall(t) /\ Same(call'[t], call[t]) /\ call'[t].at \in {"begun", "raised"}
  <2>1. CASE call' = [call EXCEPT ![t].at = "begun"]
    BY <2>1, Moved DEF At
  <2>2. CASE Answer(t, "raised")
    BY <2>2, Replied DEF At, BusyAt
  <2> QED
    BY <2>1, <2>2 DEF Begin
<1>3. t \in Executes => Fresh(t, call'[t], shown)
  BY <1>1, <1>2 DEF Content, FreshCreates, Fresh, Same
<1> QED
  BY <1>1, <1>2, <1>3, CallKeepsContent

LEMMA TimeoutKeepsContent ==
  ASSUME Shape, Content, NEW t \in Executes \union Stops, ToolTimesOut(t)
  PROVE  Content'
<1>1. t \in Task /\ t # "worker"
  BY TasksApart
<1>2. OnlyCall(t) /\ call'[t] = Lost
  BY <1>1, OneCall, NoCallIsTyped DEF ToolTimesOut
<1>3. Lost.op = "none" /\ Lost.at = "raised"
  BY DEF Lost, NoCall
<1>4. Fresh(t, call'[t], shown)
  BY <1>2, <1>3 DEF Fresh
<1> QED
  BY <1>1, <1>2, <1>3, <1>4, CallKeepsContent DEF ToolTimesOut

LEMMA ToolKeepsContent ==
  ASSUME Shape, Content,
         \/ \E c \in Executes : Submits(c)
         \/ \E s \in Stops : StopCalls(s) \/ StopConcludes(s)
  PROVE  Content'
<1>1. ASSUME NEW c \in Executes, Submits(c)
      PROVE  Content'
  <2>1. /\ c \in Task /\ c \in Id /\ c # "worker" /\ call[c].at \notin BusyAt
        /\ Files(c, "create", c, "absent", "queued")
    BY <1>1, TasksApart DEF Submits, BusyAt
  <2>2. "create" \in Op /\ "absent" \in States /\ "queued" \in States
    BY DEF Op, States
  <2>3. OnlyCall(c) /\ call'[c].at = "waiting"
    BY <2>1, <2>2, FiledSays
  <2>4. shown.row[c] = "absent"
    BY <1>1 DEF Content, FreshCreates, Fresh, Submits
  <2> QED
    BY <1>1, <2>1, <2>3, <2>4, CallKeepsContent DEF Submits, Fresh
<1>2. ASSUME NEW s \in Stops, StopCalls(s) \/ StopConcludes(s)
      PROVE  Content'
  <2>1. s \in Task /\ s # "worker" /\ s \notin Executes /\ StopRow \in Id
    BY TasksApart
  <2>2. call[s].at \notin BusyAt
    BY <1>2 DEF StopCalls, StopConcludes, BusyAt
  <2>3. \E op \in Op, from, to \in States : Files(s, op, StopRow, from, to)
    BY <1>2 DEF StopCalls, StopConcludes, Op, States, Ends
  <2>4. OnlyCall(s) /\ call'[s].at = "waiting"
    BY <2>1, <2>2, <2>3, FiledSays
  <2> QED
    BY <1>2, <2>1, <2>4, CallKeepsContent DEF StopCalls, StopConcludes
<1> QED
  BY <1>1, <1>2

LEMMA SweepKeepsContent ==
  ASSUME Shape, Content, SweepReads \/ (\E r \in sweep : SweepFiles(r)) \/ CloseRaises
  PROVE  Content'
<1>1. "closer" \in Task /\ "closer" # "worker" /\ "closer" \notin Executes
  BY TasksApart
<1>2. CASE SweepReads
  <2>1. OnlyCall("closer") /\ call'["closer"].at = "ok"
    BY <1>1, <1>2, Moved DEF SweepReads, At
  <2> QED
    BY <1>1, <1>2, <2>1, CallKeepsContent DEF SweepReads
<1>3. ASSUME NEW r \in sweep, SweepFiles(r)
      PROVE  Content'
  <2>1. r[1] \in Id /\ r[2] \in States /\ Recovered(r[2]) \in States /\ "transition" \in Op
    BY ShapeSays, StatesSay DEF Typed, Op
  <2>2. call["closer"].at \notin BusyAt
    BY <1>3 DEF SweepFiles, BusyAt
  <2>3. OnlyCall("closer") /\ call'["closer"].at = "waiting"
    BY <1>1, <1>3, <2>1, <2>2, FiledSays DEF SweepFiles
  <2> QED
    BY <1>1, <1>3, <2>3, CallKeepsContent DEF SweepFiles
<1>4. CASE CloseRaises
  BY <1>4 DEF CloseRaises, Content, Tabled, Stepped, Writing, FreshCreates, Knowing, Acknowledged,
     AnswersAreDurable
<1> QED
  BY <1>2, <1>3, <1>4

(***************************************************************************)
(* What a task finds when its transaction has begun.                       *)
(***************************************************************************)
LEMMA LookKeepsContent ==
  ASSUME Shape, Content, NEW t \in Task, Look(t)
  PROVE  Content'
<1>1. /\ call[t].written = 0 /\ Unwritten(call[t]) /\ call[t].at = "begun" /\ call[t] \in Call
      /\ UNCHANGED <<answered, worker>>
  BY ShapeSays DEF Look, Calling, Asked, BusyAt, Unwritten, Typed
<1>2. \A u \in Task : call[u].at # "writing"
  BY <1>1, OneHolder
<1>3. CASE ~Known(call[t]) /\ ~Refused(call[t])
  <2>1. /\ OnlyCall(t) /\ Same(call'[t], call[t]) /\ call'[t].at = "writing"
        /\ call'[t].written = 0 /\ UNCHANGED <<shown, disk>>
    BY <1>1, <1>3, Moved DEF Look, At
  <2>2. Tabled' /\ Acknowledged'
    BY <1>1, <2>1 DEF Content, Tabled, Stepped, Acknowledged, AnswersAreDurable
  <2>3. Written(call[t], shown)
    <3>1. call[t].op = "create" => /\ shown.row[call[t].on] = "absent"
                                   /\ shown.accepting /\ ~shown.barrier
      <4> SUFFICES ASSUME call[t].op = "create"
                   PROVE  shown.row[call[t].on] = "absent" /\ shown.accepting /\ ~shown.barrier
        OBVIOUS
      <4>1. t \in Executes /\ call[t].on = t
        BY ShapeSays DEF Calling, Task, StopCall, WorkerCall, CloserCall, Asks, CreateCall, BusyAt,
           Look
      <4>2. shown.row[t] = "absent"
        BY <1>1, <4>1 DEF Content, FreshCreates, Fresh
      <4>3. shown.accepting /\ ~shown.barrier
        BY <1>3, TablesTyped DEF Refused, Content, Tabled, WholeBarrier, Tables
      <4> QED
        BY <4>1, <4>2, <4>3
    <3>2. call[t].op = "stop" => shown.row[call[t].on] = "absent"
      BY <1>3, ShapeSays DEF Refused, Calling, Task, StopCall, CreateCall, WorkerCall, CloserCall,
         Asks, BusyAt, Look
    <3>3. call[t].op = "transition" => shown.row[call[t].on] = call[t].from
      BY <1>3 DEF Refused
    <3> QED
      BY <1>1, <3>1, <3>2, <3>3 DEF Written
  <2>4. Writing'
    <3>1. Written(call'[t], shown)
      BY <2>1, <2>3, <1>1 DEF Written, Same
    <3> QED
      BY <1>2, <2>1, <3>1 DEF Writing, OnlyCall
  <2>5. FreshCreates'
    BY <1>1, <2>1, TasksApart DEF Content, FreshCreates, Fresh, OnlyCall, Same
  <2>6. Knowing'
    <3>1. CASE t = "worker"
      <4>1. \A d : Knows(worker, call["worker"], d) => Knows(worker, call'["worker"], d)
        BY <1>1, <2>1, <3>1, KnowsLess
      <4>2. HasBegun(worker, call'["worker"], disk)
        BY <2>1, <3>1 DEF Content, Knowing, HasBegun
      <4> QED
        BY <1>1, <2>1, <4>1, <4>2 DEF Content, Knowing
    <3>2. CASE t # "worker"
      BY <1>1, <2>1, <3>2, TasksApart DEF Content, Knowing, OnlyCall
    <3> QED
      BY <3>1, <3>2
  <2> QED
    BY <2>2, <2>4, <2>5, <2>6, ContentFollows
<1>4. CASE Known(call[t]) \/ Refused(call[t])
  <2>1. \/ Answer(t, "reused") /\ shown' = shown /\ disk' = shown
        \/ Answer(t, "refused") /\ shown' = disk /\ disk' = disk
    BY <1>4 DEF Look
  <2>2. /\ OnlyCall(t) /\ Same(call'[t], call[t]) /\ call'[t].at \in {"reused", "refused"}
    BY <2>1, Replied DEF At, BusyAt
  <2>3. Tabled' /\ (Onward(disk, disk') \/ disk' = disk) /\ disk' \in Tables
    BY <2>1, CommitKeepsTabled, RollbackKeepsTabled, TablesTyped DEF Content
  <2>4. Acknowledged'
    BY <1>1, <2>3, AcknowledgedKept DEF Content
  <2>5. Writing'
    BY <1>2, <2>2 DEF Writing, OnlyCall
  <2>6. FreshCreates'
    <3> SUFFICES ASSUME NEW c \in Executes, Fresh(c, call[c], shown),
                        call'[c].at = "idle" \/ (call'[c].op = "create" /\ Unwritten(call'[c]))
                 PROVE  shown'.row[c] = "absent"
      BY DEF Content, FreshCreates, Fresh
    <3>1. c # t /\ call'[c] = call[c] /\ shown.row[c] = "absent" /\ c \in Id
      BY <2>2, TasksApart DEF Unwritten, BusyAt, OnlyCall, Fresh
    <3>2. disk.row[c] = "absent"
      BY <3>1, TablesTyped, OnwardSays DEF Content, Tabled
    <3> QED
      BY <2>1, <3>1, <3>2
  <2>7. Knowing'
    <3>1. Knows(worker, call["worker"], shown') /\ Knows(worker, call["worker"], disk')
      BY <2>1 DEF Content, Knowing
    <3>2. \A d : Knows(worker, call["worker"], d) => Knows(worker, call'["worker"], d)
      <4>1. CASE t = "worker"
        BY <1>1, <2>2, <4>1, KnowsLess DEF Unwritten, BusyAt
      <4>2. CASE t # "worker"
        BY <4>2, <2>2, TasksApart DEF OnlyCall
      <4> QED
        BY <4>1, <4>2
    <3>3. HasBegun(worker, call'["worker"], disk')
      <4>1. call'["worker"].at = "ok" => call["worker"].at = "ok"
        BY <2>2, TasksApart DEF OnlyCall
      <4> QED
        BY <2>3, <4>1, BegunStays DEF Content, Knowing
    <3> QED
      BY <1>1, <3>1, <3>2, <3>3 DEF Knowing
  <2> QED
    BY <2>3, <2>4, <2>5, <2>6, <2>7, ContentFollows
<1> QED
  BY <1>3, <1>4


(***************************************************************************)
(* The statements.                                                         *)
(***************************************************************************)
LEMMA Askers ==
  ASSUME Shape, NEW t \in Task, call[t].at \in BusyAt
  PROVE  LET k == call[t] IN
         /\ k.op \in {"create", "stop", "transition", "reserve", "settle"}
         /\ k.op = "create" => t \in Executes /\ k.on = t
         /\ k.op = "stop" => t \in Stops /\ k.on = StopRow
         /\ k.op \in {"reserve", "settle"} =>
              t = "worker" /\ k.on = worker.on /\ worker.on \in Executes /\ worker.at = k.op
         /\ k.op = "transition" =>
              \/ t \in Stops /\ StopCall(k)
              \/ t = "closer" /\ CloserCall(k)
              \/ /\ t = "worker" /\ k.on = worker.on /\ worker.on \in Executes
                 /\ worker.at \in {"dispatch", "doubt", "end"} /\ Asks(worker.at, k)
<1>1. Calling /\ call[t] \in Call /\ call[t].op # "none" /\ Phases
  BY ShapeSays DEF Typed, Calling, Asked
<1>2. CASE t \in Executes
  BY <1>1, <1>2 DEF Calling, CreateCall
<1>3. CASE t \in Stops
  BY <1>1, <1>3 DEF Calling, StopCall
<1>4. CASE t = "closer"
  BY <1>1, <1>4 DEF Calling, CloserCall
<1>5. CASE t = "worker"
  <2>1. worker.at \in Calls /\ call[t].on = worker.on /\ Asks(worker.at, call[t])
    BY <1>1, <1>5 DEF Calling, WorkerCall
  <2>2. worker.on \in Executes
    BY <1>1, <2>1 DEF Phases, Calls, Working, WorkerAt
  <2> QED
    BY <1>5, <2>1, <2>2 DEF Asks, Calls
<1> QED
  BY <1>2, <1>3, <1>4, <1>5 DEF Task

LEMMA RowMoves ==
  ASSUME Shape, Tabled, NEW on \in Id, NEW x \in States,
         shown' = [shown EXCEPT !.row[on] = x], disk' = disk,
         x \in Later(shown.row[on]), shown.row[on] # "blocked_unknown",
         on \in Executes /\ x \in {"queued", "running"} => ~shown.barrier,
         on \in Executes /\ x \in Taken =>
           \A c \in Executes : shown.row[c] \in Taken => c = on
  PROVE  /\ Tabled'
         /\ shown'.row[on] = x /\ \A c \in Id \ {on} : shown'.row[c] = shown.row[c]
         /\ shown'.step = shown.step /\ shown'.barrier = shown.barrier
<1>1. shown \in Tables /\ shown' \in Tables /\ disk \in Tables
  BY TablesTyped DEF Tables
<1>2. /\ shown'.row[on] = x /\ \A c \in Id \ {on} : shown'.row[c] = shown.row[c]
      /\ shown'.step = shown.step /\ shown'.flagged = shown.flagged
      /\ shown'.barrier = shown.barrier /\ shown'.accepting = shown.accepting
  BY <1>1 DEF Tables
<1>3. Executes \subseteq Id
  BY TasksApart
<1>4. Onward(shown, shown')
  BY <1>1, <1>2, LaterStates, RowsTyped DEF Onward
<1>5. WholeBarrier(shown')
  <2> SUFFICES ASSUME shown.barrier
               PROVE  Queued(shown') = {} /\ Told(shown') /\ ~shown.accepting
    BY <1>2 DEF WholeBarrier
  <2>1. Queued(shown) = {} /\ Told(shown) /\ ~shown.accepting
    BY DEF Tabled, WholeBarrier
  <2>2. Queued(shown') = {}
    BY <1>2, <1>3, <2>1 DEF Queued
  <2>3. Told(shown')
    <3> SUFFICES ASSUME NEW c \in Executes, shown'.row[c] = "running", c \notin shown.flagged
                 PROVE  \E b \in Executes : shown'.row[b] = "blocked_unknown"
      BY <1>2 DEF Told
    <3>1. c # on
      BY <1>2
    <3>2. PICK b \in Executes : shown.row[b] = "blocked_unknown"
      BY <1>2, <1>3, <2>1, <3>1 DEF Told
    <3> QED
      BY <1>2, <1>3, <3>2
  <2> QED
    BY <2>1, <2>2, <2>3
<1>6. OneTaken(shown')
  BY <1>2, <1>3 DEF Tabled, OneTaken
<1>7. \A c \in Executes : shown'.step[c] # "none" => disk.row[c] \in Begun
  BY <1>2 DEF Tabled, Stepped
<1> QED
  BY <1>1, <1>2, <1>4, <1>5, <1>6, <1>7, StatementKeepsTabled

(* Fewer commands taken, fewer steps settled: the worker knows no less.    *)
LEMMA KnowsTables ==
  ASSUME Shape, NEW k, NEW d, NEW e, Knows(worker, k, d),
         \A c \in Executes : e.row[c] \in Taken => d.row[c] \in Taken,
         \A c \in Executes : e.step[c] = "settled" => d.step[c] = "settled"
  PROVE  Knows(worker, k, e)
<1>1. worker.at \in Unsettled \union {"settle"} => worker.on \in Executes
  BY ShapeSays DEF Phases, Unsettled, Working, WorkerAt
<1> QED
  BY <1>1 DEF Knows, Unsettled

LEMMA WriteEffect ==
  ASSUME Shape, Content, NEW t \in Task, Write(t), Tabled',
         LET n == call[t].written + 1
         IN  Written([call[t] EXCEPT !.written = n], shown'),
         \A c \in Executes \ {t} : shown.row[c] = "absent" => shown'.row[c] = "absent",
         t # "worker" => Knows(worker, call["worker"], shown'),
         t = "worker" => \A k : k.written > 0 /\ k.at = "writing" => Knows(worker, k, shown')
  PROVE  Content'
<1>1. /\ call[t] \in Call /\ call[t].at = "writing" /\ UNCHANGED <<disk, answered, worker>>
      /\ call[t].written \in Nat
  BY ShapeSays DEF Write, Typed, Call
<1> DEFINE k == [call[t] EXCEPT !.written = call[t].written + 1]
<1>2. k.at = "writing" /\ k.written = call[t].written + 1 /\ k.written > 0
  BY <1>1 DEF Call
<1>3. call[t].written + 1 \in 0..5
  BY <1>1 DEF Write, Writes, Call
<1>4. k \in Call
  BY <1>1, <1>3 DEF Call
<1>5. call' = [call EXCEPT ![t] = k]
  BY DEF Write
<1>6. OnlyCall(t) /\ call'[t] = k
  BY <1>4, <1>5, OneCall
<1>7. Written(k, shown')
  OBVIOUS
<1> HIDE DEF k
<1>8. Writing'
  <2>1. \A u \in Task \ {t} : call'[u].at # "writing"
    BY <1>1, <1>6, OneHolder DEF OnlyCall
  <2> QED
    BY <1>6, <1>7, <2>1 DEF Writing
<1>9. FreshCreates'
  BY <1>2, <1>6, TasksApart DEF Content, FreshCreates, Fresh, OnlyCall, Unwritten
<1>10. Knowing'
  <2>1. CASE t = "worker"
    <3>1. Knows(worker, call'["worker"], shown')
      BY <1>2, <1>6, <2>1
    <3>2. Knows(worker, call'["worker"], disk)
      BY <1>2, <1>6, <2>1, KnowsLess DEF Content, Knowing, Unwritten
    <3>3. HasBegun(worker, call'["worker"], disk)
      BY <1>2, <1>6, <2>1 DEF Content, Knowing, HasBegun
    <3> QED
      BY <1>1, <3>1, <3>2, <3>3 DEF Knowing
  <2>2. CASE t # "worker"
    BY <1>1, <1>6, <2>2, TasksApart DEF Content, Knowing, OnlyCall
  <2> QED
    BY <2>1, <2>2
<1>11. Acknowledged'
  BY <1>1 DEF Content, Acknowledged, AnswersAreDurable
<1> QED
  BY <1>8, <1>9, <1>10, <1>11, ContentFollows


(* The call after a statement, and what was written before it.             *)
LEMMA WritingSays ==
  ASSUME Shape, Content, NEW t \in Task, Write(t)
  PROVE  LET k == call[t]
             m == [k EXCEPT !.written = k.written + 1]
         IN  /\ k \in Call /\ k.at \in BusyAt /\ Written(k, shown)
             /\ Same(m, k) /\ m.written = k.written + 1
             /\ k.written \in Nat /\ k.written < Writes(k.op)
             /\ shown' \in Statement(k, k.written + 1, shown) /\ disk' = disk
<1>1. call[t] \in Call
  BY ShapeSays DEF Typed
<1>2. call[t].written \in Nat
  BY <1>1 DEF Call
<1>3. LET m == [call[t] EXCEPT !.written = call[t].written + 1]
      IN  Same(m, call[t]) /\ m.written = call[t].written + 1
  BY <1>1 DEF Call, Same
<1> QED
  BY <1>1, <1>2, <1>3 DEF Write, Content, Writing, BusyAt

LEMMA CreateWriteKeeps ==
  ASSUME Shape, Content, NEW t \in Task, Write(t), call[t].op = "create"
  PROVE  Content'
<1> DEFINE k == call[t]
           m == [k EXCEPT !.written = k.written + 1]
<1>1. /\ k \in Call /\ k.at \in BusyAt /\ Written(k, shown)
      /\ Same(m, k) /\ m.written = k.written + 1
      /\ k.written \in Nat /\ k.written < 2
      /\ shown' \in CreateWrites(k.on, k.written + 1, shown) /\ disk' = disk
  BY WritingSays DEF Writes, Statement
<1>2. t \in Executes /\ k.on = t /\ t \in Id /\ t # "worker" /\ Executes \subseteq Id
  BY <1>1, Askers, TasksApart
<1>3. ~shown.barrier /\ shown.row[t] = IF k.written = 0 THEN "absent" ELSE "queued"
  BY <1>1, <1>2 DEF Written
<1>4. shown \in Tables /\ Tabled
  BY TablesTyped DEF Content
<1> HIDE DEF m
<1>5. CASE k.written = 0
  <2>1. shown' = [shown EXCEPT !.row[t] = "queued"]
    BY <1>1, <1>2, <1>5 DEF CreateWrites
  <2>2. /\ Tabled'
        /\ shown'.row[t] = "queued" /\ \A c \in Id \ {t} : shown'.row[c] = shown.row[c]
        /\ shown'.step = shown.step /\ shown'.barrier = shown.barrier
    <3>1. "queued" \in States /\ "queued" \in Later("absent") /\ "queued" \notin Taken
      BY DEF States, Later, Taken
    <3> QED
      BY <1>1, <1>2, <1>3, <1>4, <1>5, <2>1, <3>1, RowMoves
  <2>3. Written(m, shown')
    BY <1>1, <1>2, <1>3, <1>5, <2>2 DEF Written, Same
  <2>4. Knows(worker, call["worker"], shown')
    BY <1>2, <2>2, KnowsTables DEF Content, Knowing, Taken
  <2> QED
    BY <1>2, <2>2, <2>3, <2>4, WriteEffect DEF m
<1>6. CASE k.written = 1
  <2>1. shown' = [shown EXCEPT !.requests = @ \union {t}]
    BY <1>1, <1>2, <1>6 DEF CreateWrites
  <2>2. /\ shown'.row = shown.row /\ shown'.step = shown.step /\ shown'.flagged = shown.flagged
        /\ shown'.barrier = shown.barrier /\ shown'.accepting = shown.accepting
    BY <1>4, <2>1 DEF Tables
  <2>3. Tabled'
    BY <1>1, <1>4, <2>2 DEF Tabled, Stepped, Onward, WholeBarrier, Queued, Told, OneTaken
  <2>4. Written(m, shown')
    BY <1>1, <1>2, <1>3, <1>6, <2>2 DEF Written, Same
  <2>5. Knows(worker, call["worker"], shown')
    BY <2>2 DEF Content, Knowing, Knows
  <2> QED
    BY <1>2, <2>2, <2>3, <2>4, <2>5, WriteEffect DEF m
<1> QED
  BY <1>1, <1>5, <1>6

LEMMA StepWriteKeeps ==
  ASSUME Shape, Content, NEW t \in Task, Write(t), call[t].op \in {"reserve", "settle"}
  PROVE  Content'
<1> DEFINE k == call[t]
           m == [k EXCEPT !.written = k.written + 1]
           s == IF k.op = "reserve" THEN "reserved" ELSE "settled"
<1>1. /\ k \in Call /\ k.at \in BusyAt /\ Written(k, shown)
      /\ Same(m, k) /\ m.written = k.written + 1
      /\ k.written = 0
      /\ shown' = [shown EXCEPT !.step[k.on] = s] /\ disk' = disk
  BY WritingSays DEF Writes, Statement, StepWrites
<1>2. /\ t = "worker" /\ k.on = worker.on /\ worker.on \in Executes /\ worker.at = k.op
      /\ Executes \subseteq Id
  BY <1>1, Askers, TasksApart
<1>3. shown \in Tables /\ Tabled /\ worker.at \in Working \ {"dispatch"} /\ worker.at \notin {"dead", "gone"}
  BY <1>2, TablesTyped DEF Content, Working, WorkerAt
<1>4. /\ disk.row[worker.on] \in Begun /\ shown.step[worker.on] # "settled"
      /\ Knows(worker, k, shown)
  BY <1>1, <1>2, <1>3 DEF Content, Knowing, HasBegun, Knows, Unwritten, Unsettled
<1> HIDE DEF m
<1>5. /\ shown'.row = shown.row /\ shown'.flagged = shown.flagged
      /\ shown'.barrier = shown.barrier /\ shown'.accepting = shown.accepting
      /\ shown'.step[worker.on] = s
      /\ \A c \in Executes \ {worker.on} : shown'.step[c] = shown.step[c]
      /\ shown' \in Tables
  BY <1>1, <1>2, <1>3 DEF Tables, StepStates
<1>6. Onward(shown, shown')
  BY <1>3, <1>4, <1>5, LaterStates, RowsTyped DEF Onward
<1>7. Tabled'
  <2>1. WholeBarrier(shown') /\ OneTaken(shown')
    BY <1>3, <1>5 DEF Tabled, WholeBarrier, Queued, Told, OneTaken
  <2>2. \A c \in Executes : shown'.step[c] # "none" => disk.row[c] \in Begun
    BY <1>3, <1>4, <1>5 DEF Tabled, Stepped
  <2> QED
    BY <1>1, <1>3, <1>5, <1>6, <2>1, <2>2, StatementKeepsTabled
<1>8. Written(m, shown')
  BY <1>1, <1>2, <1>5 DEF Written, Same
<1>9. \A x : x.written > 0 /\ x.at = "writing" => Knows(worker, x, shown')
  <2> SUFFICES ASSUME NEW x, x.written > 0, x.at = "writing"
               PROVE  Knows(worker, x, shown')
    OBVIOUS
  <2>1. ~Unwritten(x)
    BY DEF Unwritten
  <2>2. worker.at = "reserve" => shown'.step[worker.on] # "settled"
    BY <1>2, <1>5
  <2> QED
    BY <1>2, <1>4, <1>5, <2>1, <2>2 DEF Knows, Unsettled
<1> QED
  BY <1>2, <1>5, <1>7, <1>8, <1>9, WriteEffect DEF m

LEMMA TransitionWriteKeeps ==
  ASSUME Shape, Content, NEW t \in Task, Write(t), call[t].op = "transition"
  PROVE  Content'
<1> DEFINE k == call[t]
           m == [k EXCEPT !.written = k.written + 1]
<1>1. /\ k \in Call /\ k.at \in BusyAt /\ Written(k, shown)
      /\ Same(m, k) /\ m.written = 1
      /\ k.written = 0
      /\ shown' = [shown EXCEPT !.row[k.on] = k.to] /\ disk' = disk
  BY WritingSays DEF Writes, Statement
<1>2. shown \in Tables /\ Tabled /\ Executes \subseteq Id /\ k.on \in Id
  BY <1>1, TablesTyped, TasksApart DEF Content, Call
<1>3. shown.row[k.on] = k.from
  BY <1>1 DEF Written
<1>4. \/ t \in Stops /\ StopCall(k)
      \/ t = "closer" /\ CloserCall(k)
      \/ /\ t = "worker" /\ k.on = worker.on /\ worker.on \in Executes
         /\ worker.at \in {"dispatch", "doubt", "end"} /\ Asks(worker.at, k)
  BY <1>1, Askers
<1> HIDE DEF m
<1>5. /\ k.to \in States /\ k.to \in Later(k.from) /\ k.from \in {"queued", "running", "reconciling"}
      /\ k.to # "queued" /\ k.to # "absent" /\ k.from # "absent"
      /\ k.to = "running" => k.from = "queued"
  <2>1. CASE StopCall(k)
    BY <1>1, <2>1 DEF StopCall, Later, Since, States, Ends, Call
  <2>2. CASE CloserCall(k)
    BY <1>1, <2>2 DEF CloserCall, Recovered, Later, Since, States, Ends, Call
  <2>3. CASE Asks(worker.at, k)
    BY <1>1, <2>3 DEF Asks, Later, Since, States, Ends, Call
  <2> QED
    BY <1>4, <2>1, <2>2, <2>3
<1>6. k.on \in Executes /\ k.to = "running" =>
        /\ t = "worker" /\ worker.at = "dispatch" /\ k.on = worker.on
        /\ \A c \in Executes : shown.row[c] \notin Taken
        /\ ~shown.barrier
  <2> SUFFICES ASSUME k.on \in Executes, k.to = "running"
               PROVE  /\ t = "worker" /\ worker.at = "dispatch" /\ k.on = worker.on
                      /\ \A c \in Executes : shown.row[c] \notin Taken
                      /\ ~shown.barrier
    OBVIOUS
  <2>1. t = "worker" /\ worker.at = "dispatch" /\ k.on = worker.on
    BY <1>1, <1>4, TasksApart DEF StopCall, CloserCall, Recovered, Asks
  <2>2. Knows(worker, k, shown) /\ Unwritten(k)
    BY <1>1, <2>1 DEF Content, Knowing, Unwritten
  <2>3. \A c \in Executes : shown.row[c] \notin Taken
    BY <2>1, <2>2 DEF Knows
  <2>4. ~shown.barrier
    BY <1>2, <1>3, <1>5 DEF Tabled, WholeBarrier, Queued
  <2> QED
    BY <2>1, <2>3, <2>4
<1>7. /\ Tabled'
      /\ shown'.row[k.on] = k.to /\ \A c \in Id \ {k.on} : shown'.row[c] = shown.row[c]
      /\ shown'.step = shown.step /\ shown'.barrier = shown.barrier
  <2>1. ASSUME k.on \in Executes, k.to \in Taken
        PROVE  \A c \in Executes : shown.row[c] \in Taken => c = k.on
    <3>1. CASE k.to = "running"
      BY <1>6, <2>1, <3>1
    <3>2. CASE k.to = "reconciling"
      <4>1. k.from = "running"
        BY <1>4, <1>5, <3>2 DEF StopCall, CloserCall, Recovered, Asks
      <4> QED
        BY <1>2, <1>3, <2>1, <4>1 DEF Tabled, OneTaken, Taken
    <3> QED
      BY <2>1, <3>1, <3>2 DEF Taken
  <2>2. k.on \in Executes /\ k.to \in {"queued", "running"} => ~shown.barrier
    BY <1>5, <1>6
  <2> QED
    BY <1>1, <1>2, <1>3, <1>5, <2>1, <2>2, RowMoves
<1>8. Written(m, shown')
  BY <1>1, <1>7 DEF Written, Same
<1>9. \A c \in Executes : shown.row[c] = "absent" => shown'.row[c] = "absent"
  BY <1>2, <1>3, <1>5, <1>7
<1>10. ASSUME t # "worker"
       PROVE  Knows(worker, call["worker"], shown')
  <2>1. \A c \in Executes : shown'.row[c] \in Taken => shown.row[c] \in Taken
    <3> SUFFICES ASSUME NEW c \in Executes, shown'.row[c] \in Taken, c = k.on
                 PROVE  shown.row[c] \in Taken
      BY <1>2, <1>7
    <3>1. k.to = "reconciling"
      BY <1>6, <1>7, <1>10 DEF Taken
    <3> QED
      BY <1>4, <1>5, <1>10, <3>1 DEF StopCall, CloserCall, Recovered
  <2> QED
    BY <1>7, <2>1, KnowsTables DEF Content, Knowing
<1>11. ASSUME t = "worker"
       PROVE  \A x : x.written > 0 /\ x.at = "writing" => Knows(worker, x, shown')
  <2> SUFFICES ASSUME NEW x, x.written > 0, x.at = "writing"
               PROVE  Knows(worker, x, shown')
    OBVIOUS
  <2>1. ~Unwritten(x)
    BY DEF Unwritten
  <2>2. /\ k.on = worker.on /\ worker.on \in Executes
        /\ worker.at \in {"dispatch", "doubt", "end"}
    BY <1>4, <1>11, TasksApart
  <2>3. Knows(worker, k, shown)
    BY <1>11 DEF Content, Knowing
  <2>4. \A c \in Executes : shown'.row[c] \in Taken => c = worker.on
    BY <1>2, <1>7, <2>2, <2>3 DEF Knows
  <2> QED
    BY <1>7, <2>1, <2>2, <2>3, <2>4 DEF Knows, Unsettled
<1> QED
  BY <1>7, <1>8, <1>9, <1>10, <1>11, WriteEffect DEF m


(* The barrier's statements; nobody's row becomes absent or taken by them. *)
LEMMA StopWriteKeeps ==
  ASSUME Shape, Content, NEW t \in Task, Write(t), call[t].op = "stop"
  PROVE  Content'
<1> DEFINE k == call[t]
           m == [k EXCEPT !.written = k.written + 1]
<1>1. /\ k \in Call /\ k.at \in BusyAt /\ Written(k, shown)
      /\ Same(m, k) /\ m.written = k.written + 1
      /\ k.written \in Nat /\ k.written < 5
      /\ shown' \in BarrierWrites(k.written + 1, shown) /\ disk' = disk
  BY WritingSays DEF Writes, Statement
<1>2. /\ t \notin Executes /\ t # "worker" /\ k.on = StopRow /\ StopRow \in Id
      /\ StopRow \notin Executes /\ Executes \subseteq Id
  BY <1>1, Askers, TasksApart
<1>3. shown.row[StopRow] = IF k.written = 0 THEN "absent" ELSE "queued"
  BY <1>1, <1>2 DEF Written
<1>4. shown \in Tables /\ Tabled /\ shown' \in Tables
  BY TablesTyped, WriteKeepsShape, ShapeSays, <1>1, StatementTyped DEF Content, Write
<1> HIDE DEF m
<1>5. Knows(worker, call["worker"], shown)
  BY DEF Content, Knowing
<1>6. CASE k.written = 0
  <2>1. shown' = [shown EXCEPT !.row[StopRow] = "queued"]
    BY <1>1, <1>2, <1>6 DEF BarrierWrites, CreateWrites
  <2>2. /\ Tabled'
        /\ shown'.row[StopRow] = "queued"
        /\ \A c \in Id \ {StopRow} : shown'.row[c] = shown.row[c]
        /\ shown'.step = shown.step /\ shown'.barrier = shown.barrier
    <3>1. "queued" \in States /\ "queued" \in Later("absent")
      BY DEF States, Later
    <3> QED
      BY <1>1, <1>2, <1>3, <1>4, <1>6, <2>1, <3>1, RowMoves
  <2>3. Written(m, shown')
    BY <1>1, <1>2, <1>6, <2>2 DEF Written, Same
  <2>4. Knows(worker, call["worker"], shown')
    BY <1>2, <1>5, <2>2, KnowsTables
  <2> QED
    BY <1>2, <2>2, <2>3, <2>4, WriteEffect DEF m
<1>6a. ASSUME k.written = 4
       PROVE  shown' = [shown EXCEPT !.accepting = FALSE, !.barrier = TRUE]
  <2>1. shown' \in BarrierWrites(5, shown)
    BY <1>1, <1>6a
  <2> QED
    BY <2>1 DEF BarrierWrites, CloseAdmission
<1>6b. ASSUME k.written = 4
       PROVE  /\ shown'.row = shown.row /\ shown'.step = shown.step
              /\ shown'.flagged = shown.flagged /\ shown'.accepting = FALSE
  BY <1>4, <1>6a, <1>6b DEF Tables
<1>7. CASE k.written = 1 \/ k.written = 3 \/ k.written = 4
  <2>1. /\ shown'.row = shown.row /\ shown'.step = shown.step
    <3>1. CASE k.written = 1
      BY <1>1, <1>2, <1>4, <3>1 DEF BarrierWrites, CreateWrites, Tables
    <3>2. CASE k.written = 3
      BY <1>1, <1>4, <3>2 DEF BarrierWrites, FlagActive, Tables
    <3>3. CASE k.written = 4
      BY <1>6b, <3>3
    <3> QED
      BY <1>7, <3>1, <3>2, <3>3
  <2>2. Queued(shown') = Queued(shown) /\ (k.written >= 3 => Queued(shown') = {})
    BY <1>1, <1>2, <2>1 DEF Queued, Written
  <2>3. Told(shown) => Told(shown')
    <3>1. shown.flagged \subseteq shown'.flagged
      <4>1. CASE k.written = 1
        BY <1>1, <1>2, <1>4, <4>1 DEF BarrierWrites, CreateWrites, Tables
      <4>2. CASE k.written = 3
        BY <1>1, <1>4, <4>2 DEF BarrierWrites, FlagActive, Tables
      <4>3. CASE k.written = 4
        BY <1>6b, <4>3
      <4> QED
        BY <1>7, <4>1, <4>2, <4>3
    <3> QED
      BY <2>1, <3>1 DEF Told
  <2>4. k.written = 3 => Told(shown')
    <3> SUFFICES ASSUME k.written = 3, NEW c \in Executes, shown.row[c] = "running"
                 PROVE  c \in shown'.flagged \/ \E b \in Executes : shown.row[b] = "blocked_unknown"
      BY <2>1 DEF Told
    <3>1. c \in {x \in Executes : shown.row[x] \in ActiveStates}
      BY DEF ActiveStates
    <3>2. PICK e \in {x \in Executes : shown.row[x] \in ActiveStates} :
            shown' = [shown EXCEPT !.flagged = @ \union {e}]
      BY <1>1, <3>1 DEF BarrierWrites, FlagActive
    <3>3. e \in shown'.flagged
      BY <1>4, <3>2 DEF Tables
    <3>4. CASE shown.row[e] = "blocked_unknown"
      BY <3>4
    <3>5. CASE shown.row[e] # "blocked_unknown"
      BY <1>4, <3>3, <3>5 DEF ActiveStates, Tabled, OneTaken, Taken
    <3> QED
      BY <3>4, <3>5
  <2>5. k.written >= 4 => Told(shown')
    BY <1>1, <1>2, <2>3 DEF Written
  <2>6. WholeBarrier(shown')
    <3>1. CASE k.written = 4
      <4>1. shown'.accepting = FALSE
        BY <1>6b, <3>1
      <4> QED
        BY <2>2, <2>5, <3>1, <4>1 DEF WholeBarrier
    <3>2. CASE k.written = 1 \/ k.written = 3
      <4>1. shown'.barrier = shown.barrier /\ shown'.accepting = shown.accepting
        <5>1. CASE k.written = 1
          BY <1>1, <1>2, <1>4, <5>1 DEF BarrierWrites, CreateWrites, Tables
        <5>2. CASE k.written = 3
          BY <1>1, <1>4, <5>2 DEF BarrierWrites, FlagActive, Tables
        <5> QED
          BY <3>2, <5>1, <5>2
      <4> QED
        BY <1>4, <2>2, <2>3, <4>1 DEF Tabled, WholeBarrier
    <3> QED
      BY <1>7, <3>1, <3>2
  <2>7. Tabled'
    <3>1. Onward(shown, shown')
      BY <1>4, <2>1, OnwardReflexive DEF Onward
    <3>2. OneTaken(shown') /\ \A c \in Executes : shown'.step[c] # "none" => disk.row[c] \in Begun
      BY <1>4, <2>1 DEF Tabled, OneTaken, Stepped
    <3> QED
      BY <1>1, <1>4, <2>6, <3>1, <3>2, StatementKeepsTabled
  <2>8. Written(m, shown')
    <3>1. shown'.row[StopRow] = "queued"
      BY <1>3, <1>7, <2>1
    <3> QED
      BY <1>1, <1>2, <1>7, <2>2, <2>4, <2>5, <3>1 DEF Written, Same
  <2>9. Knows(worker, call["worker"], shown')
    BY <1>5, <2>1 DEF Knows
  <2> QED
    BY <1>2, <2>1, <2>7, <2>8, <2>9, WriteEffect DEF m
<1>8. CASE k.written = 2
  <2>1. shown' = Clear(shown)
    BY <1>1, <1>8 DEF BarrierWrites
  <2>2. /\ \A c \in Id : shown'.row[c] = IF c \in Queued(shown) THEN "cancelled_by_stop"
                                          ELSE shown.row[c]
        /\ shown'.step = shown.step /\ shown'.flagged = shown.flagged
        /\ shown'.barrier = shown.barrier /\ shown'.accepting = shown.accepting
    BY <1>4, <2>1 DEF Clear, Tables
  <2>3. Onward(shown, shown')
    <3>1. "cancelled_by_stop" \in Later("queued")
      BY DEF Later, Since, States, Ends
    <3> QED
      BY <1>4, <2>2, <3>1, LaterStates, RowsTyped DEF Onward, Queued
  <2>4. Queued(shown') = {}
    BY <1>2, <2>2 DEF Queued
  <2>5. Told(shown) => Told(shown')
    BY <1>2, <2>2 DEF Told, Queued
  <2>6. WholeBarrier(shown')
    BY <1>4, <2>2, <2>4, <2>5 DEF Tabled, WholeBarrier
  <2>7. \A c \in Executes : /\ shown'.row[c] \in Taken => shown.row[c] \in Taken
                            /\ shown.row[c] = "absent" => shown'.row[c] = "absent"
    BY <1>2, <2>2 DEF Taken, Queued
  <2>8. Tabled'
    <3>1. OneTaken(shown') /\ \A c \in Executes : shown'.step[c] # "none" => disk.row[c] \in Begun
      BY <1>4, <2>2, <2>7 DEF Tabled, OneTaken, Stepped
    <3> QED
      BY <1>1, <1>4, <2>3, <2>6, <3>1, StatementKeepsTabled
  <2>9. Written(m, shown')
    <3>1. shown'.row[StopRow] = "queued"
      BY <1>2, <1>3, <1>8, <2>2 DEF Queued
    <3> QED
      BY <1>1, <1>2, <1>8, <2>4, <3>1 DEF Written, Same
  <2>10. Knows(worker, call["worker"], shown')
    BY <1>5, <2>2, <2>7, KnowsTables
  <2> QED
    BY <1>2, <2>7, <2>8, <2>9, <2>10, WriteEffect DEF m
<1> QED
  BY <1>1, <1>6, <1>7, <1>8

LEMMA WriteKeepsContent ==
  ASSUME Shape, Content, NEW t \in Task, Write(t)
  PROVE  Content'
<1>1. call[t].op \in {"create", "stop", "transition", "reserve", "settle"}
  BY WritingSays, Askers
<1> QED
  BY <1>1, CreateWriteKeeps, StepWriteKeeps, TransitionWriteKeeps, StopWriteKeeps


(***************************************************************************)
(* The commit of an operation under the lock, and its answer.              *)
(***************************************************************************)
LEMMA CommitKeepsContent ==
  ASSUME Shape, Content, NEW t \in Task, Commit(t)
  PROVE  Content'
<1> DEFINE k == call[t]
<1>1. /\ k \in Call /\ k.at = "writing" /\ k.at \in BusyAt /\ k.written = Writes(k.op)
      /\ shown' = shown /\ disk' = shown /\ UNCHANGED worker
      /\ answered' = answered \union Acknowledges(k)
  BY ShapeSays DEF Commit, Typed, BusyAt
<1>2. Written(k, shown)
  BY <1>1 DEF Content, Writing
<1>3. /\ OnlyCall(t) /\ Same(call'[t], call[t]) /\ call'[t].at = "ok"
  BY Replied DEF At, BusyAt, Commit
<1>4. /\ k.op \in {"create", "stop", "transition", "reserve", "settle"}
      /\ k.op = "create" => t \in Executes /\ k.on = t
      /\ k.op = "stop" => t \in Stops /\ k.on = StopRow
      /\ k.op \in {"reserve", "settle"} => t = "worker" /\ k.on = worker.on /\ worker.on \in Executes
      /\ k.op = "transition" =>
           \/ t \in Stops /\ StopCall(k)
           \/ t = "closer" /\ CloserCall(k)
           \/ t = "worker" /\ k.on = worker.on /\ worker.on \in Executes /\ Asks(worker.at, k)
  BY <1>1, Askers
<1>5. Tabled' /\ Onward(disk, disk') /\ disk' \in Tables /\ shown \in Tables
  BY <1>1, CommitKeepsTabled, TablesTyped DEF Content
<1>6. Writing'
  BY <1>1, <1>3, OneHolder DEF Writing, OnlyCall
<1>7. FreshCreates'
  BY <1>1, <1>3, TasksApart DEF Content, FreshCreates, Fresh, OnlyCall, Unwritten, BusyAt
<1>8. Knowing'
  <2>1. Knows(worker, call'["worker"], shown)
    <3>1. CASE t = "worker"
      BY <1>3, <3>1, KnowsLess DEF Content, Knowing, Unwritten, BusyAt
    <3>2. CASE t # "worker"
      BY <1>3, <3>2, TasksApart DEF Content, Knowing, OnlyCall
    <3> QED
      BY <3>1, <3>2
  <2>2. HasBegun(worker, call'["worker"], shown)
    <3>1. CASE t # "worker"
      BY <1>1, <1>3, <1>5, <3>1, BegunStays, TasksApart DEF Content, Knowing, OnlyCall
    <3>2. CASE t = "worker"
      <4>1. worker.at \in Calls /\ worker.on \in Executes /\ k.on = worker.on /\ Asks(worker.at, k)
        BY <1>1, <3>2, ShapeSays, WorkerRecord DEF WorkerCall, Calls, Working, WorkerAt
      <4>2. worker.at \in {"dispatch", "doubt", "end"} => shown.row[worker.on] = k.to
        BY <1>1, <1>2, <4>1 DEF Written, Asks, Writes
      <4>3. worker.at = "dispatch" => shown.row[worker.on] \in Begun
        BY <4>1, <4>2, LaterStates DEF Asks
      <4>4. worker.at = "end" => shown.row[worker.on] \in Ends
        BY <4>1, <4>2 DEF Asks, Ends
      <4>5. worker.at \in Working \ {"dispatch"} => shown.row[worker.on] \in Begun
        <5>1. worker.on \in Id
          BY <4>1, TasksApart
        <5> QED
          BY <5>1, TablesTyped, OnwardSays DEF Content, Tabled, Knowing, HasBegun
      <4> QED
        BY <4>3, <4>4, <4>5 DEF HasBegun
    <3> QED
      BY <3>1, <3>2
  <2> QED
    BY <1>1, <2>1, <2>2 DEF Knowing
<1>9. Acknowledged'
  <2>1. \A a \in answered : /\ Durable(a, disk') /\ a[2] # "absent"
                            /\ a[2] \in {"reserved", "settled"} => a[1] \in Executes
    BY <1>5, AnswersStay DEF Content
  <2>2. ASSUME NEW a \in Acknowledges(k)
        PROVE  /\ Durable(a, shown) /\ a[2] # "absent"
               /\ a[2] \in {"reserved", "settled"} => a[1] \in Executes
    <3>1. CASE k.op = "create"
      <4>1. a = <<k.on, "queued">> /\ shown.row[k.on] = "queued"
        BY <1>1, <1>2, <2>2, <3>1 DEF Acknowledges, Written, Writes
      <4> QED
        BY <4>1, LaterStates DEF Durable, States
    <3>2. CASE k.op = "stop"
      <4>1. /\ a[2] \in {"queued", "cancelled_by_stop"} /\ shown.row[a[1]] = a[2]
        BY <1>1, <1>2, <1>4, <2>2, <3>2 DEF Acknowledges, Written, Writes
      <4> QED
        BY <4>1, LaterStates DEF Durable, States, Ends
    <3>3. CASE k.op = "transition"
      <4>1. a = <<k.on, k.to>> /\ shown.row[k.on] = k.to
        BY <1>1, <1>2, <2>2, <3>3 DEF Acknowledges, Written, Writes
      <4>2. k.to \in States \ {"absent"}
        BY <1>1, <1>4, <3>3 DEF StopCall, CloserCall, Recovered, Asks, Call
      <4> QED
        BY <4>1, <4>2, LaterStates DEF Durable, States, Ends
    <3>4. CASE k.op = "reserve"
      BY <1>1, <1>2, <1>4, <2>2, <3>4 DEF Acknowledges, Written, Writes, Durable
    <3>5. CASE k.op = "settle"
      BY <1>1, <1>2, <1>4, <2>2, <3>5 DEF Acknowledges, Written, Writes, Durable
    <3> QED
      BY <1>4, <3>1, <3>2, <3>3, <3>4, <3>5
  <2>3. \A a \in answered' : /\ Durable(a, disk') /\ a[2] # "absent"
                             /\ a[2] \in {"reserved", "settled"} => a[1] \in Executes
    BY <1>1, <2>1, <2>2
  <2> QED
    BY <2>3 DEF Acknowledged, AnswersAreDurable, Durable
<1> QED
  BY <1>5, <1>6, <1>7, <1>8, <1>9, ContentFollows

(***************************************************************************)
(* The steps of the worker.                                                *)
(***************************************************************************)
LEMMA WorkerAskKeepsContent ==
  ASSUME Shape, Content, NEW c \in Executes, NEW at \in Calls,
         NEW op \in {"transition", "reserve", "settle"}, NEW from \in States, NEW to \in States,
         WorkerAsks(c, at, op, from, to)
  PROVE  Content'
<1>1. /\ UNCHANGED <<shown, disk, answered>> /\ call["worker"].at \notin BusyAt
      /\ worker' = [at |-> at, on |-> c] /\ c \in Id
  BY TasksApart DEF WorkerAsks
<1>2. OnlyCall("worker") /\ call'["worker"] = Ask(c, op, from, to)
  <2>1. "worker" \in Task /\ op \in Op
    BY TasksApart DEF Op
  <2> QED
    BY <1>1, <2>1, Filed DEF WorkerAsks, Ask
<1>3. call'["worker"].at = "waiting"
  BY <1>2 DEF Ask
<1>4. Tabled' /\ Acknowledged' /\ Writing' /\ FreshCreates'
  BY <1>1, <1>2, <1>3, TasksApart DEF Content, Tabled, Stepped, Acknowledged, AnswersAreDurable,
     Writing, FreshCreates, OnlyCall
<1>5. CASE worker.at = "idle" /\ at = "dispatch" /\ c \in Queued(shown)
  <2>1. \A e \in Executes : shown.row[e] \notin Taken /\ disk.row[e] \notin Taken
    BY <1>5 DEF Content, Knowing, Knows
  <2>2. disk.row[c] \in {"absent", "queued"}
    BY <1>1, <1>5, TablesTyped, OnwardSays DEF Content, Tabled, Queued
  <2>3. disk.row[c] \notin Begun
    BY <2>2 DEF Begun, Since
  <2>4. shown.step[c] = "none" /\ disk.step[c] = "none"
    BY <2>3 DEF Content, Tabled, Stepped
  <2>5. \A d \in {shown, disk} : Knows(worker', call'["worker"], d)
    BY <1>1, <1>5, <2>1, <2>4 DEF Knows
  <2>6. HasBegun(worker', call'["worker"], disk)
    BY <1>1, <1>3, <1>5 DEF HasBegun
  <2> QED
    BY <1>1, <1>4, <2>5, <2>6, ContentFollows DEF Knowing
<1>6. CASE worker.at # "idle"
  <2>1. /\ c = worker.on /\ worker.at \in Working /\ at # "dispatch"
        /\ worker.at = "dispatch" => call["worker"].at = "ok"
        /\ at = "reserve" => worker.at = "dispatch"
        /\ at = "settle" => worker.at = "sent"
        /\ worker.at \notin {"dead", "gone"}
    BY <1>6 DEF WorkerAsks, Working, WorkerAt
  <2>2. disk.row[c] \in Begun
    BY <2>1 DEF Content, Knowing, HasBegun
  <2>3. HasBegun(worker', call'["worker"], disk)
    BY <1>1, <1>3, <2>1, <2>2 DEF HasBegun
  <2>4. ASSUME NEW d, Knows(worker, call["worker"], d)
        PROVE  Knows(worker', call'["worker"], d)
    <3>1. \A e \in Executes : d.row[e] \in Taken => e = c
      BY <2>1, <2>4 DEF Knows
    <3>2. at \in {"reserve", "settle"} => d.step[c] # "settled"
      BY <2>1, <2>4 DEF Knows, Unsettled
    <3> QED
      BY <1>1, <2>1, <3>1, <3>2 DEF Knows, Unsettled, Calls
  <2> QED
    BY <1>1, <1>4, <2>3, <2>4, ContentFollows DEF Content, Knowing
<1> QED
  BY <1>5, <1>6 DEF WorkerAsks, Working


(* Whoever commits, reads back or writes without a call of its own: the    *)
(* worker between its calls, and close().                                  *)
LEMMA CallsUnchanged ==
  ASSUME Shape, Content, call' = call, \A c \in Executes : shown'.row[c] = shown.row[c],
         \A t \in Task : call[t].at = "writing" => Written(call[t], shown')
  PROVE  Writing' /\ FreshCreates'
BY DEF Content, Writing, FreshCreates, Fresh

(* From one step without the lock to the next.                             *)
Follows(from, at) ==
  \/ from = "reserve" /\ at = "marking"
  \/ from = "marking" /\ at = "marked"
  \/ from = "marked" /\ at = "sent"
  \/ from = "sent" /\ at = "losing"
  \/ from = "losing" /\ at = "lost"
  \/ from \in {"lost", "settle"} /\ at = "noting"
  \/ from = "noting" /\ at = "noted"

LEMMA MoveKeepsKnowing ==
  ASSUME Shape, Content, NEW at, WorkerGoesOn(at), Follows(worker.at, at), disk' \in Tables,
         Onward(disk, disk') \/ disk' = disk,
         \A d \in {shown', disk'} : Knows(worker, call["worker"], d)
  PROVE  Knowing'
<1>1. /\ worker' = [at |-> at, on |-> worker.on] /\ call' = call
      /\ worker.at \in Working /\ at \in Working \ Calls
  BY DEF WorkerGoesOn
<1>2. HasBegun(worker', call'["worker"], disk')
  <2>1. worker.at # "dispatch"
    BY DEF Follows
  <2>2. HasBegun(worker, call["worker"], disk')
    BY BegunStays DEF Content, Knowing
  <2> QED
    BY <1>1, <2>1, <2>2 DEF HasBegun, Calls
<1>3. ASSUME NEW d \in {shown', disk'}
      PROVE  Knows(worker', call'["worker"], d)
  <2>1. Knows(worker, call["worker"], d)
    OBVIOUS
  <2>2. \A c \in Executes : d.row[c] \in Taken => c = worker.on
    BY <1>1, <2>1 DEF Knows, Working
  <2>3. at \in Unsettled => worker.at \in Unsettled
    BY DEF Follows, Unsettled
  <2> QED
    BY <1>1, <2>1, <2>2, <2>3 DEF Knows, Working, Calls
<1> QED
  BY <1>2, <1>3 DEF Knowing


LEMMA UpdateKeepsContent ==
  ASSUME Shape, Content, WorkerMarks \/ WorkerLoses
  PROVE  Content'
<1>1. /\ worker.at \in {"reserve", "sent"} /\ UNCHANGED <<disk, call, answered>>
      /\ call["worker"].at \notin BusyAt
  BY WorkerRecord DEF WorkerMarks, WorkerLoses, UpdateStep, Answered, BusyAt, Calls
<1>2. PICK s \in {"dispatched", "unknown"} : shown' = [shown EXCEPT !.step[worker.on] = s]
  BY DEF WorkerMarks, WorkerLoses, UpdateStep, StepWrites
<1>3. \E at : WorkerGoesOn(at) /\ Follows(worker.at, at)
  <2>1. WorkerMarks => Follows(worker.at, "marking")
    BY DEF WorkerMarks, Answered, Follows
  <2>2. WorkerLoses => Follows(worker.at, "losing")
    BY DEF WorkerLoses, Follows
  <2> QED
    BY <2>1, <2>2, WorkerMoves
<1>4. /\ worker.on \in Executes /\ Executes \subseteq Id /\ worker.at \in Working \ {"dispatch"}
      /\ worker.at \in Unsettled
  BY <1>1, WorkerRecord, TasksApart DEF Working, WorkerAt, Unsettled
<1>5. /\ disk.row[worker.on] \in Begun /\ shown.step[worker.on] # "settled"
      /\ Knows(worker, call["worker"], shown) /\ Knows(worker, call["worker"], disk)
  BY <1>4 DEF Content, Knowing, HasBegun, Knows
<1>6. shown \in Tables /\ disk \in Tables /\ Tabled
  BY TablesTyped DEF Content
<1>7. /\ shown'.row = shown.row /\ shown'.flagged = shown.flagged
      /\ shown'.barrier = shown.barrier /\ shown'.accepting = shown.accepting
      /\ shown'.step[worker.on] = s
      /\ \A c \in Executes \ {worker.on} : shown'.step[c] = shown.step[c]
      /\ shown' \in Tables
  BY <1>2, <1>4, <1>6 DEF Tables, StepStates
<1>8. Tabled'
  <2>1. WholeBarrier(shown') /\ OneTaken(shown')
    BY <1>6, <1>7 DEF Tabled, WholeBarrier, Queued, Told, OneTaken
  <2>2. \A c \in Executes : shown'.step[c] # "none" => disk.row[c] \in Begun
    BY <1>5, <1>6, <1>7 DEF Tabled, Stepped
  <2>3. Onward(shown, shown')
    BY <1>5, <1>6, <1>7, LaterStates, RowsTyped DEF Onward
  <2> QED
    BY <1>1, <1>6, <1>7, <2>1, <2>2, <2>3, StatementKeepsTabled
<1>9. Writing' /\ FreshCreates'
  <2>1. ASSUME NEW t \in Task, call[t].at = "writing"
        PROVE  Written(call[t], shown')
    <3>1. Written(call[t], shown) /\ t # "worker" /\ call[t].op \notin {"reserve", "settle"}
      BY <1>1, <2>1, Askers DEF Content, Writing, BusyAt
    <3> QED
      BY <1>7, <3>1 DEF Written, Queued, Told
  <2> QED
    BY <1>1, <1>7, <2>1, CallsUnchanged
<1>10. Knowing'
  <2>1. shown'.step[worker.on] # "settled"
    BY <1>7
  <2>2. Knows(worker, call["worker"], shown')
    BY <1>5, <1>7, <2>1 DEF Knows
  <2> QED
    BY <1>1, <1>3, <1>5, <1>6, <2>2, MoveKeepsKnowing
<1>11. Acknowledged'
  BY <1>1 DEF Content, Acknowledged, AnswersAreDurable
<1> QED
  BY <1>8, <1>9, <1>10, <1>11, ContentFollows

LEMMA UpdateCommitKeepsContent ==
  ASSUME Shape, Content, WorkerMarked \/ WorkerLost \/ WorkerNoted
  PROVE  Content'
<1>1. shown' = shown /\ disk' = shown /\ UNCHANGED <<call, answered>>
  BY DEF WorkerMarked, WorkerLost, WorkerNoted, UpdateCommits
<1>2. \E at : WorkerGoesOn(at) /\ Follows(worker.at, at)
  <2>1. WorkerMarked => Follows(worker.at, "marked")
    BY DEF WorkerMarked, UpdateCommits, Follows
  <2>2. WorkerLost => Follows(worker.at, "lost")
    BY DEF WorkerLost, UpdateCommits, Follows
  <2>3. WorkerNoted => Follows(worker.at, "noted")
    BY DEF WorkerNoted, UpdateCommits, Follows
  <2> QED
    BY <2>1, <2>2, <2>3, WorkerMoves
<1>3. Tabled' /\ Onward(disk, disk') /\ disk' \in Tables
  BY <1>1, CommitKeepsTabled, TablesTyped DEF Content
<1>4. Writing' /\ FreshCreates'
  BY <1>1, CallsUnchanged DEF Content, Writing
<1>5. Knowing'
  BY <1>1, <1>2, <1>3, MoveKeepsKnowing DEF Content, Knowing
<1>6. Acknowledged'
  BY <1>1, <1>3, AcknowledgedKept DEF Content
<1> QED
  BY <1>3, <1>4, <1>5, <1>6, ContentFollows

LEMMA MoveKeepsContent ==
  ASSUME Shape, Content, WorkerSends \/ WorkerNotes
  PROVE  Content'
<1>1. UNCHANGED <<shown, disk, call, answered>>
  BY DEF WorkerSends, WorkerNotes
<1>2. \E at : WorkerGoesOn(at) /\ Follows(worker.at, at)
  <2>1. WorkerSends => Follows(worker.at, "sent")
    BY DEF WorkerSends, Follows
  <2>2. WorkerNotes => Follows(worker.at, "noting")
    BY DEF WorkerNotes, Answered, Follows
  <2> QED
    BY <2>1, <2>2, WorkerMoves
<1>3. Knowing'
  BY <1>1, <1>2, TablesTyped, MoveKeepsKnowing DEF Content, Knowing
<1> QED
  BY <1>1, <1>3, ContentFollows DEF Content, Tabled, Stepped, Writing, FreshCreates, Acknowledged,
     AnswersAreDurable

LEMMA RestKeepsContent ==
  ASSUME Shape, Content, WorkerMisses \/ WorkerEnds \/ WorkerDies
  PROVE  Content'
<1>1. PICK at \in {"idle", "dead"} :
        /\ WorkerRests(at) /\ worker.at \in Working
        /\ at = "idle" => \/ worker.at = "dispatch" /\ call["worker"].at = "refused"
                          \/ worker.at = "end" /\ call["worker"].at = "ok"
  BY DEF WorkerMisses, WorkerEnds, WorkerDies, Answered, Working, WorkerAt
<1>2. /\ UNCHANGED <<shown, disk, answered>> /\ worker'.at = at
      /\ OnlyCall("worker") /\ call'["worker"] = NoCall /\ NoCall.at = "idle"
  BY <1>1, OneCall, NoCallIsTyped, TasksApart DEF WorkerRests, NoCall
<1>3. Tabled' /\ Acknowledged' /\ Writing' /\ FreshCreates'
  BY <1>2, TasksApart DEF Content, Tabled, Stepped, Acknowledged, AnswersAreDurable,
     Writing, FreshCreates, OnlyCall
<1>4. CASE at = "dead"
  BY <1>2, <1>3, <1>4, NobodyKnows, ContentFollows DEF Knowing
<1>5. CASE at = "idle"
  <2>1. worker.on \in Executes /\ worker.on \in Id
    BY <1>1, WorkerRecord, TasksApart
  <2>2. shown.row[worker.on] \notin Taken /\ disk.row[worker.on] \notin Taken
    <3>1. CASE worker.at = "dispatch" /\ call["worker"].at = "refused"
      BY <3>1 DEF Content, Knowing, Knows
    <3>2. CASE worker.at = "end" /\ call["worker"].at = "ok"
      <4>1. disk.row[worker.on] \in Ends
        BY <3>2 DEF Content, Knowing, HasBegun
      <4>2. shown.row[worker.on] = disk.row[worker.on]
        BY <2>1, <4>1, TablesTyped, OnwardSays DEF Content, Tabled
      <4> QED
        BY <4>1, <4>2 DEF Ends, Taken
    <3> QED
      BY <1>1, <1>5, <3>1, <3>2
  <2>3. \A c \in Executes : shown.row[c] \notin Taken /\ disk.row[c] \notin Taken
    BY <1>1, <2>2 DEF Content, Knowing, Knows, Working
  <2> QED
    BY <1>2, <1>3, <1>5, <2>3, IdleKnows, ContentFollows DEF Knowing
<1> QED
  BY <1>4, <1>5

LEMMA WorkerKeepsContent ==
  ASSUME Shape, Content, WorkerStep
  PROVE  Content'
<1>1. CASE WorkerFilings
  <2>1. PICK c \in Executes, at \in Calls, op \in {"transition", "reserve", "settle"},
             from \in States, to \in States : WorkerAsks(c, at, op, from, to)
    BY <1>1, WorkerAsking
  <2> QED
    BY <2>1, WorkerAskKeepsContent
<1> QED
  BY <1>1, UpdateKeepsContent, UpdateCommitKeepsContent, MoveKeepsContent, RestKeepsContent
     DEF WorkerStep, WorkerFilings


(***************************************************************************)
(* close(), the end of the process and its restart.                        *)
(***************************************************************************)
LEMMA CloseBeginsKeepsContent ==
  ASSUME Shape, Content, CloseBegins
  PROVE  Content'
<1>1. /\ shown' = [shown EXCEPT !.accepting = FALSE]
      /\ UNCHANGED <<disk, call, worker, answered>>
      /\ shown \in Tables /\ disk \in Tables /\ Tabled
  BY TablesTyped DEF CloseBegins, Content
<1>2. /\ shown'.row = shown.row /\ shown'.flagged = shown.flagged /\ shown'.step = shown.step
      /\ shown'.barrier = shown.barrier /\ shown'.accepting = FALSE /\ shown' \in Tables
  BY <1>1 DEF Tables
<1>3. Tabled'
  <2>1. WholeBarrier(shown') /\ OneTaken(shown')
    BY <1>1, <1>2 DEF Tabled, WholeBarrier, Queued, Told, OneTaken
  <2>2. Onward(shown, shown')
    BY <1>1, <1>2, LaterStates, RowsTyped DEF Onward
  <2> QED
    BY <1>1, <1>2, <2>1, <2>2, StatementKeepsTabled DEF Tabled, Stepped
<1>4. Writing' /\ FreshCreates'
  <2>1. \A t \in Task : call[t].at = "writing" => Written(call[t], shown')
    BY <1>2 DEF Content, Writing, Written, Queued, Told
  <2> QED
    BY <1>1, <1>2, <2>1, CallsUnchanged
<1>5. Knowing'
  BY <1>1, <1>2 DEF Content, Knowing, Knows
<1>6. Acknowledged'
  BY <1>1 DEF Content, Acknowledged, AnswersAreDurable
<1> QED
  BY <1>3, <1>4, <1>5, <1>6, ContentFollows

LEMMA CloseCommitsKeepsContent ==
  ASSUME Shape, Content, CloseCommits
  PROVE  Content'
<1>1. shown' = shown /\ disk' = shown /\ UNCHANGED <<call, worker, answered>>
  BY DEF CloseCommits
<1>2. Tabled' /\ Onward(disk, disk') /\ disk' \in Tables
  BY <1>1, CommitKeepsTabled, TablesTyped DEF Content
<1>3. Writing' /\ FreshCreates'
  BY <1>1, CallsUnchanged DEF Content, Writing
<1>4. Knowing'
  BY <1>1, <1>2, BegunStays DEF Content, Knowing
<1>5. Acknowledged'
  BY <1>1, <1>2, AcknowledgedKept DEF Content
<1> QED
  BY <1>2, <1>3, <1>4, <1>5, ContentFollows

LEMMA CancelKeepsContent ==
  ASSUME Shape, Content, CloseCancelsWorker
  PROVE  Content'
<1>1. /\ UNCHANGED <<shown, disk, answered>> /\ worker'.at = "gone"
      /\ OnlyCall("worker") /\ call'["worker"] = NoCall /\ NoCall.at = "idle"
  BY OneCall, NoCallIsTyped, TasksApart DEF CloseCancelsWorker, NoCall
<1>2. Tabled' /\ Acknowledged' /\ Writing' /\ FreshCreates'
  BY <1>1, TasksApart DEF Content, Tabled, Stepped, Acknowledged, AnswersAreDurable,
     Writing, FreshCreates, OnlyCall
<1> QED
  BY <1>1, <1>2, NobodyKnows, ContentFollows DEF Knowing

LEMMA GoneKeepsContent ==
  ASSUME Shape, Content, NEW d \in {shown, disk}, Gone(d)
  PROVE  Content'
<1>1. /\ shown' = d /\ disk' = d /\ answered' = answered /\ worker'.at = "gone"
      /\ d \in Tables /\ disk \in Tables /\ shown \in Tables
  BY TablesTyped DEF Gone
<1>2. Onward(disk, d) /\ Onward(d, d)
  BY <1>1, OnwardReflexive DEF Content, Tabled
<1>3. Tabled'
  <2>1. ASSUME NEW c \in Executes, d.step[c] # "none"
        PROVE  d.row[c] \in Begun
    BY <1>1, <1>2, <2>1, OnwardSays, TasksApart DEF Content, Tabled, Stepped
  <2> QED
    BY <1>1, <1>2, <2>1 DEF Content, Tabled, Stepped
<1>4. \A t \in Task : /\ call'[t].at \in {"idle", "raised"}
                      /\ \/ call'[t] = Lost \/ call'[t] = NoCall
                         \/ call'[t] = call[t] /\ call[t].at = "idle"
  BY <1>1, NobodyAfterGone
<1>5. Writing'
  BY <1>4 DEF Writing
<1>6. FreshCreates'
  <2> SUFFICES ASSUME NEW c \in Executes,
                      call'[c].at = "idle" \/ (call'[c].op = "create" /\ Unwritten(call'[c]))
               PROVE  d.row[c] = "absent"
    BY <1>1 DEF FreshCreates, Fresh
  <2>1. call'[c] = call[c] /\ call[c].at = "idle" /\ c \in Id
    <3>1. c \in Task /\ c \in Id /\ c \notin {"worker", "closer"}
      BY TasksApart
    <3>2. Lost.at = "raised" /\ call'[c].at = "idle"
      BY <1>4, <3>1 DEF Lost, NoCall, Unwritten, BusyAt
    <3> QED
      BY <3>1, <3>2 DEF Gone
  <2>2. shown.row[c] = "absent"
    BY <2>1 DEF Content, FreshCreates, Fresh
  <2>3. disk.row[c] = "absent"
    BY <1>1, <2>1, <2>2, OnwardSays DEF Content, Tabled
  <2> QED
    BY <2>2, <2>3
<1>7. Knowing'
  BY <1>1, NobodyKnows DEF Knowing
<1>8. Acknowledged'
  BY <1>1, <1>2, AcknowledgedKept DEF Content
<1> QED
  BY <1>3, <1>5, <1>6, <1>7, <1>8, ContentFollows

LEMMA BootMovesOn ==
  ASSUME Shape, Boot
  PROVE  Onward(disk, disk')
<1>1. disk \in Tables
  BY TablesTyped
<1>2. disk'.row = [c \in Id |-> Recovered(disk.row[c])] /\ disk'.step = disk.step
  BY <1>1 DEF Boot, Tables
<1>3. \A c \in Id : disk'.row[c] = Recovered(disk.row[c]) /\ disk.row[c] \in States
  BY <1>1, <1>2, RowsTyped
<1>4. \A c \in Id : disk'.row[c] \in Later(disk.row[c])
  BY <1>3, LaterStates
<1> QED
  BY <1>2, <1>4 DEF Onward

LEMMA BootKeepsContent ==
  ASSUME Shape, Content, Boot
  PROVE  Content'
<1> DEFINE rows == [c \in Id |-> Recovered(disk.row[c])]
           blocked == \E c \in Id : rows[c] = "blocked_unknown"
<1>1. /\ disk' = [disk EXCEPT !.row = rows, !.accepting = ~blocked, !.barrier = @ /\ blocked]
      /\ shown' = disk' /\ UNCHANGED <<call, answered>>
      /\ disk \in Tables /\ shown \in Tables /\ Executes \subseteq Id
  BY TablesTyped, TasksApart DEF Boot
<1>2. worker'.at = "idle"
  BY ShapeSays DEF Boot, Typed
<1>3. /\ \A c \in Id : disk'.row[c] = Recovered(disk.row[c])
      /\ disk'.step = disk.step /\ disk'.flagged = disk.flagged
      /\ disk'.accepting = ~blocked /\ (disk'.barrier => blocked)
  BY <1>1 DEF Tables
<1>4. disk' \in Tables
  BY BootKeepsShape, <1>1, StatesSay DEF Tables
<1>5. Onward(disk, disk') /\ Onward(disk', disk')
  BY <1>4, BootMovesOn, OnwardReflexive
<1>6. \A c \in Executes : disk'.row[c] \notin Taken \union {"queued"}
  BY <1>1, <1>3 DEF Recovered, Taken
<1>7. Tabled'
  <2>1. Queued(disk') = {} /\ Told(disk') /\ OneTaken(disk')
    BY <1>6 DEF Queued, Told, OneTaken, Taken
  <2>2. WholeBarrier(disk')
    BY <1>3, <2>1 DEF WholeBarrier
  <2>3. ASSUME NEW c \in Executes, disk'.step[c] # "none"
        PROVE  disk'.row[c] \in Begun
    <3>1. disk.row[c] \in Begun
      BY <1>3, <2>3 DEF Content, Tabled, Stepped
    <3> QED
      BY <1>1, <1>4, <1>5, <3>1, OnwardSays
  <2> QED
    BY <1>1, <1>5, <2>1, <2>2, <2>3 DEF Tabled, Stepped
<1>8. \A t \in Task : call[t].at \in {"idle", "raised"}
  BY ShapeSays DEF Boot, Phases
<1>9. Writing'
  BY <1>1, <1>8 DEF Writing
<1>10. FreshCreates'
  <2> SUFFICES ASSUME NEW c \in Executes, Fresh(c, call[c], shown),
                      call[c].at = "idle" \/ (call[c].op = "create" /\ Unwritten(call[c]))
               PROVE  disk'.row[c] = "absent"
    BY <1>1 DEF Content, FreshCreates, Fresh
  <2>1. shown.row[c] = "absent" /\ c \in Id
    BY <1>1 DEF Fresh
  <2>2. disk.row[c] = "absent"
    BY <1>1, <2>1, OnwardSays DEF Content, Tabled
  <2> QED
    BY <1>3, <2>1, <2>2 DEF Recovered
<1>11. Knowing'
  BY <1>1, <1>2, <1>6, IdleKnows DEF Knowing
<1>12. Acknowledged'
  BY <1>1, <1>4, <1>5, AcknowledgedKept DEF Content
<1> QED
  BY <1>7, <1>9, <1>10, <1>11, <1>12, ContentFollows

LEMMA ContentKept ==
  ASSUME Shape, Content, [Next]_vars
  PROVE  Content'
<1>1. ASSUME NEW t \in Task, Begin(t) \/ Look(t) \/ Write(t) \/ Commit(t)
      PROVE  Content'
  BY <1>1, BeginKeepsContent, LookKeepsContent, WriteKeepsContent, CommitKeepsContent
<1>2. CASE CloseStep
  <2>1. CASE CloseEnds
    BY <2>1, GoneKeepsContent DEF CloseEnds
  <2> QED
    BY <1>2, <2>1, CloseBeginsKeepsContent, CloseCommitsKeepsContent, CancelKeepsContent,
       SweepKeepsContent DEF CloseStep
<1>3. CASE Crash
  BY <1>3, GoneKeepsContent DEF Crash
<1>4. CASE UNCHANGED vars
  BY <1>4 DEF vars, Content, Tabled, Stepped, Writing, FreshCreates, Knowing, Acknowledged,
     AnswersAreDurable
<1> QED
  BY <1>1, <1>2, <1>3, <1>4, TimeoutKeepsContent, ToolKeepsContent, WorkerKeepsContent,
     BootKeepsContent DEF Next

LEMMA ContentInit == Init => Content
<1> SUFFICES ASSUME Init
             PROVE  Content
  OBVIOUS
<1>1. /\ \A c \in Id : disk.row[c] = "absent"
      /\ \A c \in Executes : disk.step[c] = "none" /\ disk.row[c] = "absent"
      /\ disk.barrier = FALSE /\ shown = disk /\ worker.at = "idle" /\ answered = {}
  BY TasksApart DEF Init
<1>2. \A t \in Task : call[t].at = "idle"
  BY DEF Init, NoCall
<1>3. shown \in Tables
  BY ShapeInit, TablesTyped
<1>4. Tabled
  BY <1>1, <1>3, OnwardReflexive DEF Tabled, WholeBarrier, OneTaken, Stepped, Taken
<1>5. Writing /\ FreshCreates
  BY <1>1, <1>2 DEF Writing, FreshCreates, Fresh
<1>6. Knowing
  BY <1>1, IdleKnows DEF Knowing, Taken
<1>7. Acknowledged
  BY <1>1 DEF Acknowledged, AnswersAreDurable
<1> QED
  BY <1>4, <1>5, <1>6, <1>7 DEF Content

-----------------------------------------------------------------------------
(* The invariant holds in every reachable state.                           *)
THEOREM ConnectionInvariant == Spec => []IInv
<1>1. Init => IInv
  BY ShapeInit, ContentInit DEF IInv
<1>2. IInv /\ [Next]_vars => IInv'
  BY ShapeKept, ContentKept DEF IInv
<1> QED
  BY <1>1, <1>2, PTL DEF Spec

(* The types are kept; with them, only the task at the head of the lock's  *)
(* queue is inside a transaction, and without one the connection shows     *)
(* what is committed.                                                      *)
THEOREM ConnectionIsTyped == Spec => []TypeOK
<1>1. IInv => TypeOK
  BY DEF IInv, Shape
<1> QED
  BY <1>1, ConnectionInvariant, PTL

(* Whatever an operation under the lock has acknowledged is committed and  *)
(* stays true: an unlocked commit in the middle of a transaction, a        *)
(* rollback, a cancelled task, close() and a crash take nothing back.      *)
THEOREM AcknowledgedIsDurable == Spec => []AnswersAreDurable
<1>1. IInv => AnswersAreDurable
  BY DEF IInv, Content, Acknowledged
<1> QED
  BY <1>1, ConnectionInvariant, PTL

(* A committed barrier is whole, although its five statements can be       *)
(* committed by another task in any prefix.                                *)
THEOREM BarriersAreWhole == Spec => []ClosedMeansCleared
<1>1. IInv => ClosedMeansCleared
  BY DEF IInv, Content, Tabled, WholeBarrier, Told, ClosedMeansCleared
<1> QED
  BY <1>1, ConnectionInvariant, PTL

(* A committed row only moves on in its life, whatever becomes of the      *)
(* transaction that moved it, and a settled step stays settled.            *)
THEOREM CommittedOnlyMovesOn == Spec => [][Onward(disk, disk')]_vars
<1>1. ASSUME IInv, [Next]_vars
      PROVE  Onward(disk, disk')
  <2>1. shown \in Tables /\ disk \in Tables /\ Onward(disk, shown) /\ Onward(disk, disk)
    BY <1>1, TablesTyped, OnwardReflexive DEF IInv, Content, Tabled
  <2>2. CASE Boot
    BY <1>1, <2>2, BootMovesOn DEF IInv
  <2>3. CASE disk' \in {disk, shown}
    BY <2>1, <2>3
  <2>4. CASE \E t \in Task : Begin(t) \/ Look(t) \/ Write(t) \/ Commit(t)
    BY <2>3, <2>4 DEF Begin, Look, Write, Commit
  <2>5. CASE WorkerStep
    BY <2>3, <2>5 DEF WorkerStep, WorkerPicks, WorkerMisses, WorkerReserves, WorkerMarks,
       WorkerMarked, WorkerSends, WorkerSettles, WorkerSucceeds, WorkerFails, WorkerLoses,
       WorkerLost, WorkerNotes, WorkerNoted, WorkerDoubts, WorkerBlocks, WorkerEnds, WorkerDies,
       WorkerRests, UpdateStep, UpdateCommits
  <2>6. CASE CloseStep
    BY <2>3, <2>6 DEF CloseStep, CloseBegins, CloseCommits, CloseCancelsWorker, SweepReads,
       SweepFiles, CloseRaises, CloseEnds, Gone
  <2>7. CASE UNCHANGED vars
    BY <2>3, <2>7 DEF vars
  <2>8. CASE \/ Crash
             \/ \E t \in Executes \union Stops : ToolTimesOut(t)
             \/ \E c \in Executes : Submits(c)
             \/ \E s \in Stops : StopCalls(s) \/ StopConcludes(s)
    BY <2>3, <2>8 DEF Crash, Gone, ToolTimesOut, Submits, StopCalls, StopConcludes
  <2> QED
    BY <1>1, <2>2, <2>4, <2>5, <2>6, <2>7, <2>8 DEF Next
<1>2. IInv /\ [Next]_vars => [Onward(disk, disk')]_vars
  BY <1>1
<1> QED
  BY <1>2, ConnectionInvariant, PTL DEF Spec
=============================================================================
