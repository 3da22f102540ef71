------------------------ MODULE ReplyPipeline_proofs ------------------------
(***************************************************************************)
(* Theorems about the reply pipeline, for any replies, ranks, workers,     *)
(* guests, bounds of the queue and generations.                            *)
(*                                                                         *)
(* The invariant has two layers.  Shape says where a reply is: which list  *)
(* holds it follows from its phase, and so does the worker that has it.    *)
(* Content, kept by every step between two states of that shape, is what   *)
(* the order of the turns, the counters and the condition of the queue     *)
(* are worth.                                                              *)
(***************************************************************************)
EXTENDS ReplyPipeline, Queues_proofs, TLAPS

Working == {"composing", "generating", "ordering", "asking", "speaking", "closing", "unwinding"}
InScope == {"generating", "ordering", "asking", "speaking", "closing"}

(* The lists hold who their phase says, once.                              *)
Queued ==
  /\ IsInjective(queue)
  /\ \A i \in DOMAIN queue : phase[queue[i]] = "queued"
  /\ \A r \in Reply : phase[r] = "queued" => \E i \in DOMAIN queue : queue[i] = r

Waiting ==
  /\ IsInjective(waiters)
  /\ \A i \in DOMAIN waiters : /\ waiters[i] \in Reply => phase[waiters[i]] = "asking"
                               /\ waiters[i] \in Guest => guest[waiters[i]] = "asking"

Conversing ==
  /\ IsInjective(conversation)
  /\ \A i \in DOMAIN conversation :
       /\ conversation[i] \in Reply => phase[conversation[i]] \in InScope
       /\ conversation[i] \in Guest => guest[conversation[i]] = "conversing"

OnChannel ==
  /\ channel \in Reply => phase[channel] \in {"speaking", "unwinding"}
  /\ channel \in Guest => guest[channel] \in {"holding", "conversing"}

(* A reply in work is some worker's, and no second one's.                  *)
Serving ==
  /\ \A r \in Reply : phase[r] \in Working => \E w \in Worker : worker[w] = r
  /\ \A w \in Worker : worker[w] \in Reply => phase[worker[w]] \in Working
  /\ \A v, w \in Worker : worker[v] = worker[w] /\ worker[v] \in Reply => v = w

(* A switch finds nothing in the queue, nobody in front of it and nobody   *)
(* asleep; what it waits for is the current generation's.                  *)
Switching ==
  /\ generation \in Nat
  /\ switching => /\ generation < MaxGeneration /\ queue = <<>> /\ asleep = {}
                  /\ \A r \in Reply : phase[r] # "putting"
  /\ \A r \in Reply : /\ phase[r] # "unsent" => born[r] <= generation
                      /\ phase[r] \notin {"unsent", "ended"} => born[r] = generation

(* How far a reply is says whether its media started and its turn is over. *)
Media ==
  \A r \in Reply :
    /\ r \in acquired => phase[r] \in {"speaking", "closing", "unwinding", "ended"}
    /\ phase[r] \in {"speaking", "closing"} => r \in acquired
    /\ r \in completed => phase[r] \in {"closing", "unwinding", "ended"}

Shape == /\ TypeOK /\ Queued /\ Waiting /\ Conversing /\ OnChannel /\ Serving /\ Switching /\ Media

(* The numbers of the current generation.                                  *)
Current(r) == r \in Reply /\ phase[r] # "unsent" /\ born[r] = generation

Numbers ==
  /\ \A r \in Reply : Current(r) => sequence[r] < submitted
  /\ \A q, r \in Reply : Current(q) /\ Current(r) /\ sequence[q] = sequence[r] => q = r
  /\ nextTurn <= submitted
  /\ \A k \in skipped : nextTurn < k /\ k < submitted

(* A number the order has passed, or will pass over, is a completed one's; *)
(* the number that is under way has a reply that will end it.              *)
Turns ==
  /\ \A r \in Reply : Current(r) /\ (sequence[r] < nextTurn \/ sequence[r] \in skipped)
       => r \in completed
  /\ activeTurn # NoTurn =>
       /\ activeTurn = nextTurn
       /\ \E r \in Reply : /\ phase[r] \in {"asking", "speaking", "unwinding"}
                           /\ r \notin completed /\ sequence[r] = activeTurn
  /\ \A r \in Reply : phase[r] \in {"asking", "speaking"}
       => sequence[r] = nextTurn /\ activeTurn = nextTurn

Counted == IsFiniteSet(Live) /\ EveryReplyIsCounted

(* A worker that sleeps is idle.                                           *)
Sleeping ==
  /\ \A w \in Worker : w \in asleep => worker[w] = "idle"
  /\ NobodySleepsOnWork

IInv == Shape /\ Numbers /\ Turns /\ Counted /\ Sleeping

-----------------------------------------------------------------------------
(* Constants and types.                                                    *)
LEMMA NamesApart ==
  /\ Nobody \notin Reply /\ Nobody \notin Guest /\ Nobody \notin User
  /\ Reply \intersect Guest = {} /\ Reply \intersect Worker = {}
  /\ "absent" \notin Reply /\ "idle" \notin Reply
  /\ Reply \subseteq User /\ Guest \subseteq User /\ User = Reply \union Guest
  /\ MaxQueue \in Nat /\ MaxQueue > 0 /\ MaxGeneration \in Nat
  /\ Rank \in [Reply -> Nat] /\ GuestRank \in [Guest -> Nat]
BY PipelineAssumption DEF User

LEMMA TypesSay ==
  ASSUME TypeOK
  PROVE  /\ exhaustive \in BOOLEAN /\ switching \in BOOLEAN
         /\ generation \in Nat /\ generation <= MaxGeneration /\ submitted \in Nat
         /\ queue \in Seq(Reply) /\ Len(queue) <= MaxQueue /\ Len(queue) \in Nat
         /\ asleep \subseteq Worker \union Reply
         /\ worker \in [Worker -> Reply \union {"absent", "idle"}]
         /\ admitted \in Nat /\ terminal \in Nat
         /\ phase \in [Reply -> Phases] /\ born \in [Reply -> Nat] /\ sequence \in [Reply -> Nat]
         /\ retried \subseteq Reply /\ acquired \subseteq Reply /\ completed \subseteq Reply
         /\ nextTurn \in Nat /\ activeTurn \in Nat \union {NoTurn} /\ skipped \subseteq Nat
         /\ waiters \in Seq(User) /\ conversation \in Seq(User)
         /\ channel \in User \union {Nobody}
         /\ guest \in [Guest -> {"away", "asking", "holding", "conversing"}]
BY NamesApart DEF TypeOK

-----------------------------------------------------------------------------
(* The order moves on to the first number that is not over.                *)
Passed(S) ==
  /\ nextTurn' \in Nat /\ nextTurn <= nextTurn'
  /\ \A k \in Nat : nextTurn <= k /\ k < nextTurn' => k \in skipped \union S
  /\ nextTurn' \notin skipped \union S
  /\ skipped' \subseteq skipped \union S /\ \A k \in skipped' : nextTurn' < k
  /\ nextTurn \notin S => nextTurn' = nextTurn
  /\ activeTurn' = IF nextTurn \in S THEN NoTurn ELSE activeTurn

LEMMA NextTurnExists ==
  ASSUME NEW n \in Nat, NEW over \in SUBSET Nat, IsFiniteSet(over)
  PROVE  \E m \in n..(n + Cardinality(over)) :
           m \notin over /\ \A k \in n..(m - 1) : k \in over
<1> DEFINE c == Cardinality(over)
           Free == {m \in Nat : m >= n /\ m \notin over}
<1>1. c \in Nat
  BY FS_CardinalityType
<1>2. \E m \in n..(n + c) : m \notin over
  <2> SUFFICES ASSUME n..(n + c) \subseteq over
               PROVE  FALSE
    OBVIOUS
  <2>1. Cardinality(n..(n + c)) <= c
    BY FS_Subset
  <2>2. Cardinality(n..(n + c)) = c + 1
    <3> DEFINE b == n + c
    <3>1. n \in Int /\ b \in Int
      BY <1>1
    <3> HIDE DEF b
    <3>2. Cardinality(n..b) = IF n > b THEN 0 ELSE b - n + 1
      BY <3>1, FS_Interval
    <3> HIDE DEF c
    <3> QED BY <1>1, <3>2 DEF b
  <2> HIDE DEF c
  <2> QED BY <1>1, <2>1, <2>2
<1> HIDE DEF c
<1>3. PICK m0 \in n..(n + c) : m0 \notin over
  BY <1>2
<1>4. m0 \in Free
  BY <1>1, <1>3
<1>5. Free \subseteq Nat /\ Free # {}
  BY <1>4
<1> HIDE DEF Free
<1>6. PICK m \in Free : \A j \in Free : m <= j
  BY <1>5, LeastNatural
<1>7. m \in Nat /\ m >= n /\ m \notin over /\ m <= m0
  BY <1>4, <1>6 DEF Free
<1>8. m \in n..(n + c)
  BY <1>1, <1>3, <1>7
<1>9. \A k \in n..(m - 1) : k \in over
  <2> SUFFICES ASSUME NEW k \in n..(m - 1), k \notin over
               PROVE  FALSE
    OBVIOUS
  <2>1. k \in Nat /\ k >= n /\ k < m
    BY <1>7
  <2>2. k \in Free
    BY <2>1 DEF Free
  <2> QED BY <1>6, <1>7, <2>1, <2>2
<1> QED
  BY <1>7, <1>8, <1>9 DEF c

LEMMA TurnsPass ==
  ASSUME TypeOK, Numbers, NEW S \in SUBSET Nat, IsFiniteSet(S), PassTurns(S)
  PROVE  Passed(S)
<1> DEFINE over == skipped \union {s \in S : s >= nextTurn}
           Fits(n) == n \notin over /\ \A k \in nextTurn..(n - 1) : k \in over
           next == CHOOSE n \in nextTurn..(nextTurn + Cardinality(over)) :
                     /\ n \notin over
                     /\ \A k \in nextTurn..(n - 1) : k \in over
<1>1. nextTurn \in Nat /\ skipped \subseteq Nat /\ submitted \in Nat
  BY TypesSay
<1>2. IsFiniteSet(skipped)
  <2>1. \A k \in skipped : k <= submitted
    BY <1>1 DEF Numbers
  <2> QED BY <1>1, <2>1, FS_BoundedSetOfNaturals
<1>3. over \in SUBSET Nat /\ IsFiniteSet(over)
  <2> DEFINE later == {s \in S : s >= nextTurn}
  <2>1. later \in SUBSET S
    OBVIOUS
  <2>2. IsFiniteSet(later)
    BY <2>1, FS_Subset
  <2> HIDE DEF later
  <2>3. IsFiniteSet(skipped \union later)
    BY <1>2, <2>2, FS_Union
  <2> QED BY <1>1, <2>1, <2>3 DEF later
<1>4. /\ nextTurn' = next
      /\ skipped' = {k \in over : k > next}
      /\ activeTurn' = IF nextTurn \in S THEN NoTurn ELSE activeTurn
  BY DEF PassTurns
<1>5. /\ next \in nextTurn..(nextTurn + Cardinality(over))
      /\ next \notin over /\ \A k \in nextTurn..(next - 1) : k \in over
  <2> HIDE DEF over
  <2> QED BY <1>1, <1>3, NextTurnExists
<1>6. next \in Nat /\ nextTurn <= next
  BY <1>1, <1>5
<1> HIDE DEF next
<1>7. \A k \in Nat : nextTurn <= k /\ k < next => k \in over
  BY <1>1, <1>5, <1>6
<1>8. next \notin S
  BY <1>5, <1>6
<1>9. nextTurn \notin S => next = nextTurn
  <2> SUFFICES ASSUME nextTurn \notin S, nextTurn < next
               PROVE  FALSE
    BY <1>1, <1>6
  <2>1. nextTurn \in skipped
    BY <1>1, <1>7
  <2> QED BY <1>1, <2>1 DEF Numbers
<1>10. /\ nextTurn' \in Nat /\ nextTurn <= nextTurn'
       /\ \A k \in Nat : nextTurn <= k /\ k < nextTurn' => k \in skipped \union S
       /\ nextTurn' \notin skipped \union S
  BY <1>4, <1>5, <1>6, <1>7, <1>8
<1>11. skipped' \subseteq skipped \union S /\ \A k \in skipped' : nextTurn' < k
  BY <1>1, <1>3, <1>4, <1>6
<1> QED
  BY <1>4, <1>9, <1>10, <1>11 DEF Passed

(* No number ends: the order stays.                                        *)
LEMMA NothingPassed ==
  ASSUME TypeOK, Numbers, UNCHANGED coordinatorVars
  PROVE  Passed({})
<1>1. nextTurn \in Nat /\ skipped \subseteq Nat
  BY TypesSay
<1>2. \A k \in skipped : nextTurn < k
  BY DEF Numbers
<1> QED
  BY <1>1, <1>2 DEF Passed, coordinatorVars

(* The replies of R end their turns.                                       *)
EndingNumbers(R) == {sequence[r] : r \in R \ completed}

LEMMA TurnsEnd ==
  ASSUME TypeOK, Numbers, NEW R \in SUBSET Reply, \A r \in R : Current(r), EndTurns(R)
  PROVE  /\ Passed(EndingNumbers(R)) /\ \A k \in EndingNumbers(R) : k \in Nat /\ k < submitted
         /\ completed' = completed \union R
         /\ channel' = IF channel \in R THEN Nobody ELSE channel
<1> DEFINE S == EndingNumbers(R)
<1>1. \A k \in S : k \in Nat /\ k < submitted
  BY TypesSay DEF EndingNumbers, Numbers
<1>2. S \in SUBSET Nat /\ submitted \in Nat
  BY <1>1, TypesSay
<1>3. \A k \in S : k <= submitted
  BY <1>1, <1>2
<1>4. PassTurns(S)
  BY DEF EndTurns, EndingNumbers
<1> HIDE DEF S
<1>5. IsFiniteSet(S)
  BY <1>2, <1>3, FS_BoundedSetOfNaturals
<1>6. Passed(S)
  BY <1>2, <1>4, <1>5, TurnsPass
<1> QED
  BY <1>1, <1>6 DEF S, EndTurns

LEMMA CoordinatorTyped ==
  ASSUME TypeOK, NEW S \in SUBSET Nat, Passed(S)
  PROVE  nextTurn' \in Nat /\ activeTurn' \in Nat \union {NoTurn} /\ skipped' \subseteq Nat
<1>1. activeTurn \in Nat \union {NoTurn} /\ skipped \subseteq Nat
  BY TypesSay
<1> QED
  BY <1>1 DEF Passed

-----------------------------------------------------------------------------
(* The parts of Shape that follow from what a step leaves alone.           *)
LEMMA QueuedStays ==
  ASSUME TypeOK, Queued, UNCHANGED queue,
         \A r \in Reply : phase'[r] = "queued" <=> phase[r] = "queued"
  PROVE  Queued'
<1>1. \A i \in DOMAIN queue : queue[i] \in Reply
  BY TypesSay
<1> QED
  BY <1>1 DEF Queued

LEMMA QueuedLeft ==
  ASSUME TypeOK, Queued, NEW S \in SUBSET Reply, queue' = Excluding(queue, S),
         \A r \in S : phase'[r] # "queued",
         \A r \in Reply \ S : phase'[r] = "queued" <=> phase[r] = "queued"
  PROVE  Queued' /\ queue' \in Seq(Reply)
<1>1. queue \in Seq(Reply) /\ \A i \in DOMAIN queue : queue[i] \in Reply
  BY TypesSay
<1>2. /\ queue' \in Seq(Reply)
      /\ \A j \in DOMAIN queue' : queue'[j] \notin S /\ \E i \in DOMAIN queue : queue'[j] = queue[i]
      /\ \A i \in DOMAIN queue : queue[i] \notin S => \E j \in DOMAIN queue' : queue'[j] = queue[i]
      /\ IsInjective(queue) => IsInjective(queue')
  BY <1>1, Excluded
<1>3. ASSUME NEW j \in DOMAIN queue'
      PROVE  phase'[queue'[j]] = "queued"
  <2>1. PICK i \in DOMAIN queue : queue'[j] = queue[i]
    BY <1>2
  <2>2. queue[i] \in Reply \ S /\ phase[queue[i]] = "queued"
    BY <1>1, <1>2, <2>1 DEF Queued
  <2> QED BY <2>1, <2>2
<1>4. ASSUME NEW r \in Reply, phase'[r] = "queued"
      PROVE  \E j \in DOMAIN queue' : queue'[j] = r
  <2>1. r \notin S /\ phase[r] = "queued"
    BY <1>4
  <2>2. PICK i \in DOMAIN queue : queue[i] = r
    BY <2>1 DEF Queued
  <2> QED BY <1>2, <2>1, <2>2
<1> QED
  BY <1>2, <1>3, <1>4 DEF Queued

LEMMA QueuedJoined ==
  ASSUME TypeOK, Queued, NEW r \in Reply, queue' = Append(queue, r),
         phase[r] # "queued", phase'[r] = "queued",
         \A q \in Reply \ {r} : phase'[q] = "queued" <=> phase[q] = "queued"
  PROVE  Queued' /\ queue' \in Seq(Reply) /\ Len(queue') = Len(queue) + 1
<1>1. queue \in Seq(Reply) /\ \A i \in DOMAIN queue : queue[i] \in Reply
  BY TypesSay
<1>2. /\ queue' \in Seq(Reply) /\ Len(queue') = Len(queue) + 1
      /\ \A i \in DOMAIN queue' :
           \/ i \in DOMAIN queue /\ queue'[i] = queue[i]
           \/ i = Len(queue) + 1 /\ i \notin DOMAIN queue /\ queue'[i] = r
      /\ \A i \in DOMAIN queue : i \in DOMAIN queue' /\ queue'[i] = queue[i]
      /\ queue'[Len(queue) + 1] = r /\ Len(queue) + 1 \in DOMAIN queue'
  BY <1>1, Joining
<1>3. \A i \in DOMAIN queue : queue[i] # r
  BY DEF Queued
<1>4. IsInjective(queue')
  BY <1>1, <1>3, JoiningInjective DEF Queued
<1>5. \A i \in DOMAIN queue' : phase'[queue'[i]] = "queued"
  BY <1>1, <1>2, <1>3 DEF Queued
<1>6. ASSUME NEW q \in Reply, phase'[q] = "queued"
      PROVE  \E j \in DOMAIN queue' : queue'[j] = q
  <2>1. CASE q = r
    BY <1>2, <2>1
  <2>2. CASE q # r
    <3>1. PICK i \in DOMAIN queue : queue[i] = q
      BY <1>6, <2>2 DEF Queued
    <3> QED BY <1>2, <3>1
  <2> QED BY <2>1, <2>2
<1> QED
  BY <1>2, <1>4, <1>5, <1>6 DEF Queued

(* A line whose members satisfy Fit, which those that leave need not.      *)
Leaves(line, rest, S) == (rest = line /\ S = {}) \/ rest = Excluding(line, S)

LEMMA LineLeft ==
  ASSUME NEW line \in Seq(User), NEW rest, NEW S, IsInjective(line), Leaves(line, rest, S)
  PROVE  /\ rest \in Seq(User) /\ IsInjective(rest)
         /\ \A j \in DOMAIN rest : /\ rest[j] \in User /\ rest[j] \notin S
                                   /\ \E i \in DOMAIN line : rest[j] = line[i]
<1>1. CASE rest = line /\ S = {}
  BY <1>1
<1>2. CASE rest = Excluding(line, S)
  <2>1. /\ rest \in Seq(User) /\ IsInjective(rest)
        /\ \A j \in DOMAIN rest : rest[j] \notin S /\ \E i \in DOMAIN line : rest[j] = line[i]
    BY <1>2, Excluded
  <2> QED BY <2>1
<1> QED
  BY <1>1, <1>2 DEF Leaves

LEMMA WaitingLeft ==
  ASSUME TypeOK, Waiting, NEW S \in SUBSET User, Leaves(waiters, waiters', S),
         \A r \in Reply \ S : phase[r] = "asking" => phase'[r] = "asking",
         \A g \in Guest \ S : guest[g] = "asking" => guest'[g] = "asking"
  PROVE  Waiting' /\ waiters' \in Seq(User)
<1>1. waiters \in Seq(User) /\ IsInjective(waiters)
  BY TypesSay DEF Waiting
<1>2. /\ waiters' \in Seq(User) /\ IsInjective(waiters')
      /\ \A j \in DOMAIN waiters' : /\ waiters'[j] \in User /\ waiters'[j] \notin S
                                    /\ \E i \in DOMAIN waiters : waiters'[j] = waiters[i]
  BY <1>1, LineLeft
<1>3. \A j \in DOMAIN waiters' :
        /\ waiters'[j] \in Reply => phase'[waiters'[j]] = "asking"
        /\ waiters'[j] \in Guest => guest'[waiters'[j]] = "asking"
  BY <1>2 DEF Waiting
<1> QED
  BY <1>2, <1>3 DEF Waiting

LEMMA WaitingJoined ==
  ASSUME TypeOK, Waiting, NEW u \in User, waiters' = Append(waiters, u),
         u \in Reply => phase[u] # "asking" /\ phase'[u] = "asking",
         u \in Guest => guest[u] # "asking" /\ guest'[u] = "asking",
         \A r \in Reply : phase[r] = "asking" => phase'[r] = "asking",
         \A g \in Guest : guest[g] = "asking" => guest'[g] = "asking"
  PROVE  Waiting' /\ waiters' \in Seq(User)
<1>1. waiters \in Seq(User) /\ IsInjective(waiters)
  BY TypesSay DEF Waiting
<1>2. /\ waiters' \in Seq(User)
      /\ \A i \in DOMAIN waiters' :
           \/ i \in DOMAIN waiters /\ waiters'[i] = waiters[i]
           \/ i = Len(waiters) + 1 /\ i \notin DOMAIN waiters /\ waiters'[i] = u
  BY <1>1, Joining
<1>3. \A i \in DOMAIN waiters : waiters[i] # u
  BY NamesApart DEF Waiting
<1>4. IsInjective(waiters')
  BY <1>1, <1>3, JoiningInjective
<1>5. \A i \in DOMAIN waiters' :
        /\ waiters'[i] \in Reply => phase'[waiters'[i]] = "asking"
        /\ waiters'[i] \in Guest => guest'[waiters'[i]] = "asking"
  BY <1>2 DEF Waiting
<1> QED
  BY <1>2, <1>4, <1>5 DEF Waiting

LEMMA ConversingLeft ==
  ASSUME TypeOK, Conversing, NEW S \in SUBSET User, Leaves(conversation, conversation', S),
         \A r \in Reply \ S : phase[r] \in InScope => phase'[r] \in InScope,
         \A g \in Guest \ S : guest[g] = "conversing" => guest'[g] = "conversing"
  PROVE  Conversing' /\ conversation' \in Seq(User)
<1>1. conversation \in Seq(User) /\ IsInjective(conversation)
  BY TypesSay DEF Conversing
<1>2. /\ conversation' \in Seq(User) /\ IsInjective(conversation')
      /\ \A j \in DOMAIN conversation' :
           /\ conversation'[j] \in User /\ conversation'[j] \notin S
           /\ \E i \in DOMAIN conversation : conversation'[j] = conversation[i]
  BY <1>1, LineLeft
<1>3. \A j \in DOMAIN conversation' :
        /\ conversation'[j] \in Reply => phase'[conversation'[j]] \in InScope
        /\ conversation'[j] \in Guest => guest'[conversation'[j]] = "conversing"
  BY <1>2 DEF Conversing
<1> QED
  BY <1>2, <1>3 DEF Conversing

LEMMA ConversingJoined ==
  ASSUME TypeOK, Conversing, NEW u \in User, conversation' = Append(conversation, u),
         u \in Reply => phase[u] \notin InScope /\ phase'[u] \in InScope,
         u \in Guest => guest[u] # "conversing" /\ guest'[u] = "conversing",
         \A r \in Reply : phase[r] \in InScope => phase'[r] \in InScope,
         \A g \in Guest : guest[g] = "conversing" => guest'[g] = "conversing"
  PROVE  Conversing' /\ conversation' \in Seq(User)
<1>1. conversation \in Seq(User) /\ IsInjective(conversation)
  BY TypesSay DEF Conversing
<1>2. /\ conversation' \in Seq(User)
      /\ \A i \in DOMAIN conversation' :
           \/ i \in DOMAIN conversation /\ conversation'[i] = conversation[i]
           \/ i = Len(conversation) + 1 /\ i \notin DOMAIN conversation /\ conversation'[i] = u
  BY <1>1, Joining
<1>3. \A i \in DOMAIN conversation : conversation[i] # u
  BY NamesApart DEF Conversing
<1>4. IsInjective(conversation')
  BY <1>1, <1>3, JoiningInjective
<1>5. \A i \in DOMAIN conversation' :
        /\ conversation'[i] \in Reply => phase'[conversation'[i]] \in InScope
        /\ conversation'[i] \in Guest => guest'[conversation'[i]] = "conversing"
  BY <1>2 DEF Conversing
<1> QED
  BY <1>2, <1>4, <1>5 DEF Conversing

LEMMA OnChannelStays ==
  ASSUME TypeOK, OnChannel,
         channel' = channel \/ channel' = Nobody,
         \A r \in Reply : channel' = r /\ phase[r] \in {"speaking", "unwinding"}
                          => phase'[r] \in {"speaking", "unwinding"},
         \A g \in Guest : channel' = g /\ guest[g] \in {"holding", "conversing"}
                          => guest'[g] \in {"holding", "conversing"}
  PROVE  OnChannel' /\ channel' \in User \union {Nobody}
<1>1. channel \in User \union {Nobody}
  BY TypesSay
<1> QED
  BY <1>1, NamesApart DEF OnChannel

LEMMA ServingStays ==
  ASSUME TypeOK, Serving, TypeOK',
         \A r \in Reply : phase'[r] \in Working <=> phase[r] \in Working,
         \A w \in Worker : worker[w] \in Reply \/ worker'[w] \in Reply => worker'[w] = worker[w]
  PROVE  Serving'
BY DEF Serving

-----------------------------------------------------------------------------
(* Shape: a worker moves its reply on.                                     *)
Moves(w, r, p) ==
  /\ worker[w] = r /\ p \in Working \union {"ended"}
  /\ phase' = [phase EXCEPT ![r] = p]
  /\ p \in Working => worker' = worker
  /\ p = "ended" => \E s \in {"idle", "absent"} : worker' = [worker EXCEPT ![w] = s]
  /\ UNCHANGED <<exhaustive, generation, switching, submitted, queue, asleep, admitted, born,
                 sequence, guest>>
  /\ terminal' \in {terminal, terminal + 1}

MediaMoves(r, p) ==
  /\ acquired' \in {acquired, acquired \union {r}} /\ completed' \in {completed, completed \union {r}}
  /\ retried' \in {retried, retried \union {r}}
  /\ r \in acquired' => p \in {"speaking", "closing", "unwinding", "ended"}
  /\ p \in {"speaking", "closing"} => r \in acquired'
  /\ r \in completed' => p \in {"closing", "unwinding", "ended"}

LinesHold ==
  /\ Waiting' /\ waiters' \in Seq(User) /\ Conversing' /\ conversation' \in Seq(User)
  /\ OnChannel' /\ channel' \in User \union {Nobody}

CoordinatorHolds == nextTurn' \in Nat /\ activeTurn' \in Nat \union {NoTurn} /\ skipped' \subseteq Nat

LEMMA WorkMoves ==
  ASSUME Shape, NEW w \in Worker, NEW r \in Reply, NEW p, Moves(w, r, p), MediaMoves(r, p),
         LinesHold, CoordinatorHolds
  PROVE  Shape'
<1>1. TypeOK /\ Queued /\ Serving /\ Switching /\ Media
  BY DEF Shape
<1>2. phase[r] \in Working /\ phase \in [Reply -> Phases] /\ p \in Phases
      /\ worker \in [Worker -> Reply \union {"absent", "idle"}]
  BY <1>1, TypesSay DEF Serving, Moves, Working, Phases
<1>3. TypeOK'
  <2>1. phase' \in [Reply -> Phases] /\ worker' \in [Worker -> Reply \union {"absent", "idle"}]
    BY <1>2 DEF Moves, Working
  <2>2. retried' \subseteq Reply /\ acquired' \subseteq Reply /\ completed' \subseteq Reply
    BY <1>1, TypesSay DEF MediaMoves
  <2>3. terminal' \in Nat
    BY <1>1, TypesSay DEF Moves
  <2> QED BY <1>1, <2>1, <2>2, <2>3 DEF TypeOK, Moves, LinesHold, CoordinatorHolds
<1>4. Queued'
  <2>1. phase[r] # "queued" /\ phase'[r] # "queued"
    BY <1>2 DEF Moves, Working
  <2> QED BY <1>1, <1>2, <2>1, QueuedStays DEF Moves
<1>5. Serving'
  <2>1. CASE p \in Working
    BY <1>1, <1>2, <2>1 DEF Serving, Moves
  <2>2. CASE p = "ended"
    <3>1. PICK s \in {"idle", "absent"} : worker' = [worker EXCEPT ![w] = s]
      BY <2>2 DEF Moves
    <3>2. worker'[w] \notin Reply /\ \A v \in Worker \ {w} : worker'[v] = worker[v]
      BY <1>2, <3>1, NamesApart
    <3>3. \A v \in Worker \ {w} : worker[v] # r
      BY <1>1 DEF Serving, Moves
    <3>4. phase'[r] = "ended" /\ \A q \in Reply \ {r} : phase'[q] = phase[q]
      BY <1>2, <2>2 DEF Moves
    <3>5. \A q \in Reply : phase'[q] \in Working => \E v \in Worker : worker'[v] = q
      <4> SUFFICES ASSUME NEW q \in Reply, phase'[q] \in Working
                   PROVE  \E v \in Worker : worker'[v] = q
        OBVIOUS
      <4>1. q # r /\ phase[q] \in Working
        BY <3>4 DEF Working
      <4>2. PICK v \in Worker : worker[v] = q
        BY <1>1, <4>1 DEF Serving
      <4>3. v # w
        BY <4>1, <4>2 DEF Moves
      <4> QED BY <3>2, <4>2, <4>3
    <3>6. \A v \in Worker : worker'[v] \in Reply =>
            v # w /\ worker'[v] = worker[v] /\ worker[v] # r
      BY <3>2, <3>3
    <3>7. \A v \in Worker : worker'[v] \in Reply => phase'[worker'[v]] \in Working
      BY <1>1, <3>4, <3>6 DEF Serving
    <3>8. \A u, v \in Worker : worker'[u] = worker'[v] /\ worker'[u] \in Reply => u = v
      BY <1>1, <3>6 DEF Serving
    <3> QED BY <3>5, <3>7, <3>8 DEF Serving
  <2> QED BY <2>1, <2>2 DEF Moves
<1>6. Switching'
  <2>1. \A q \in Reply : phase'[q] = phase[q] \/ (q = r /\ phase'[q] = p)
    BY <1>2 DEF Moves
  <2>2. phase[r] \notin {"unsent", "ended", "putting"} /\ p \notin {"unsent", "putting"}
    BY <1>2 DEF Working, Moves
  <2> QED BY <1>1, <2>1, <2>2 DEF Switching, Moves
<1>7. Media'
  <2>1. \A q \in Reply \ {r} : /\ phase'[q] = phase[q]
                               /\ q \in acquired' <=> q \in acquired
                               /\ q \in completed' <=> q \in completed
    BY <1>2 DEF Moves, MediaMoves
  <2>2. phase'[r] = p
    BY <1>2 DEF Moves
  <2> QED BY <1>1, <2>1, <2>2 DEF Media, MediaMoves
<1> QED
  BY <1>3, <1>4, <1>5, <1>6, <1>7 DEF Shape, LinesHold

LEMMA WorkerOwns ==
  ASSUME Shape, NEW w \in Worker, NEW r \in Reply, worker[w] = r
  PROVE  /\ phase[r] \in Working /\ Current(r) /\ phase \in [Reply -> Phases]
         /\ \A q \in Reply : \A p : [phase EXCEPT ![r] = p][q] = IF q = r THEN p ELSE phase[q]
<1>1. TypeOK /\ Serving /\ Switching
  BY DEF Shape
<1>2. phase[r] \in Working /\ phase \in [Reply -> Phases]
  BY <1>1, TypesSay DEF Serving
<1> QED
  BY <1>1, <1>2 DEF Switching, Current, Working

(* The lines a moving reply does not touch, and those it leaves.           *)
LEMMA WaitingKept ==
  ASSUME Shape, NEW w \in Worker, NEW r \in Reply, NEW p, Moves(w, r, p), UNCHANGED waiters,
         phase[r] # "asking"
  PROVE  Waiting' /\ waiters' \in Seq(User)
<1>1. TypeOK /\ Waiting
  BY DEF Shape
<1>2. Leaves(waiters, waiters', {})
  BY DEF Leaves
<1>3. \A q \in Reply : phase[q] = "asking" => phase'[q] = "asking"
  BY WorkerOwns DEF Moves
<1>4. \A g \in Guest : guest[g] = "asking" => guest'[g] = "asking"
  BY DEF Moves
<1> QED
  BY <1>1, <1>2, <1>3, <1>4, WaitingLeft

LEMMA WaitingUp ==
  ASSUME Shape, NEW w \in Worker, NEW r \in Reply, NEW p, Moves(w, r, p),
         waiters' = Excluding(waiters, {r})
  PROVE  Waiting' /\ waiters' \in Seq(User)
<1>1. TypeOK /\ Waiting
  BY DEF Shape
<1>2. Leaves(waiters, waiters', {r}) /\ {r} \in SUBSET User
  BY NamesApart DEF Leaves
<1>3. \A q \in Reply \ {r} : phase[q] = "asking" => phase'[q] = "asking"
  BY WorkerOwns DEF Moves
<1>4. \A g \in Guest \ {r} : guest[g] = "asking" => guest'[g] = "asking"
  BY DEF Moves
<1> QED
  BY <1>1, <1>2, <1>3, <1>4, WaitingLeft

LEMMA ConversationKept ==
  ASSUME Shape, NEW w \in Worker, NEW r \in Reply, NEW p, Moves(w, r, p), UNCHANGED conversation,
         phase[r] \in InScope => p \in InScope
  PROVE  Conversing' /\ conversation' \in Seq(User)
<1>1. TypeOK /\ Conversing
  BY DEF Shape
<1>2. Leaves(conversation, conversation', {})
  BY DEF Leaves
<1>3. \A q \in Reply : phase[q] \in InScope => phase'[q] \in InScope
  BY WorkerOwns DEF Moves
<1>4. \A g \in Guest : guest[g] = "conversing" => guest'[g] = "conversing"
  BY DEF Moves
<1> QED
  BY <1>1, <1>2, <1>3, <1>4, ConversingLeft

LEMMA ScopeLeft ==
  ASSUME Shape, NEW w \in Worker, NEW r \in Reply, NEW p, Moves(w, r, p), LeavesScope(r)
  PROVE  Conversing' /\ conversation' \in Seq(User)
<1>1. TypeOK /\ Conversing
  BY DEF Shape
<1>2. Leaves(conversation, conversation', {r}) /\ {r} \in SUBSET User
  BY NamesApart DEF Leaves, LeavesScope
<1>3. \A q \in Reply \ {r} : phase[q] \in InScope => phase'[q] \in InScope
  BY WorkerOwns DEF Moves
<1>4. \A g \in Guest \ {r} : guest[g] = "conversing" => guest'[g] = "conversing"
  BY DEF Moves
<1> QED
  BY <1>1, <1>2, <1>3, <1>4, ConversingLeft

LEMMA ChannelKept ==
  ASSUME Shape, NEW w \in Worker, NEW r \in Reply, NEW p, Moves(w, r, p),
         \/ UNCHANGED channel /\ phase[r] \notin {"speaking", "unwinding"}
         \/ UNCHANGED channel /\ p \in {"speaking", "unwinding"}
         \/ channel' = IF channel \in {r} THEN Nobody ELSE channel
  PROVE  OnChannel' /\ channel' \in User \union {Nobody}
<1>1. TypeOK /\ OnChannel
  BY DEF Shape
<1>2. channel' = channel \/ channel' = Nobody
  OBVIOUS
<1>3. \A q \in Reply : phase'[q] = IF q = r THEN p ELSE phase[q]
  BY WorkerOwns DEF Moves
<1>4. \A q \in Reply : channel' = q /\ phase[q] \in {"speaking", "unwinding"}
                       => phase'[q] \in {"speaking", "unwinding"}
  BY <1>3, NamesApart
<1>5. \A g \in Guest : channel' = g /\ guest[g] \in {"holding", "conversing"}
                       => guest'[g] \in {"holding", "conversing"}
  BY DEF Moves
<1> QED
  BY <1>1, <1>2, <1>4, <1>5, OnChannelStays

-----------------------------------------------------------------------------
(* Shape: the steps of a worker that has a reply.                          *)
LEMMA ConverseMoves ==
  ASSUME Shape, Numbers, NEW w \in Worker, NEW r \in Reply, Converse(w, r)
  PROVE  Shape' /\ Moves(w, r, "generating") /\ MediaMoves(r, "generating")
<1>1. TypeOK /\ Media /\ Waiting /\ Conversing /\ OnChannel
  BY DEF Shape
<1>2. phase[r] \in Working /\ Current(r)
  BY WorkerOwns DEF Converse, Works
<1>3. Moves(w, r, "generating")
  BY DEF Converse, Moves, Works, Working, runtimeVars, sharedVars
<1>5. CoordinatorHolds
  BY <1>1, TypesSay DEF Converse, CoordinatorHolds, coordinatorVars
<1>6. MediaMoves(r, "generating")
  BY <1>1, <1>2 DEF Converse, MediaMoves, Media, Working
<1>7. Waiting' /\ waiters' \in Seq(User)
  <2>1. UNCHANGED waiters /\ phase[r] # "asking"
    BY DEF Converse, sharedVars
  <2> QED BY <1>3, <2>1, WaitingKept
<1>8. Conversing' /\ conversation' \in Seq(User)
  <2>1. conversation' = Append(conversation, r) /\ phase[r] \notin InScope /\ guest' = guest
    BY DEF Converse, InScope
  <2>2. phase'[r] \in InScope /\ \A q \in Reply \ {r} : phase'[q] = phase[q]
    BY <1>1, TypesSay DEF Converse, InScope
  <2>3. r \in User /\ r \notin Guest
    BY NamesApart
  <2>4. \A q \in Reply : phase[q] \in InScope => phase'[q] \in InScope
    BY <2>1, <2>2
  <2> QED BY <1>1, <2>1, <2>2, <2>3, <2>4, ConversingJoined
<1>9. OnChannel' /\ channel' \in User \union {Nobody}
  <2>1. UNCHANGED channel /\ phase[r] \notin {"speaking", "unwinding"}
    BY DEF Converse, sharedVars
  <2> QED BY <1>3, <2>1, ChannelKept
<1>10. LinesHold
  BY <1>7, <1>8, <1>9 DEF LinesHold
<1> QED
  BY <1>3, <1>5, <1>6, <1>10, WorkMoves

LEMMA GeneratesMoves ==
  ASSUME Shape, Numbers, NEW w \in Worker, NEW r \in Reply, Generates(w, r)
  PROVE  Shape' /\ Moves(w, r, "ordering") /\ MediaMoves(r, "ordering")
<1>1. TypeOK /\ Media /\ Waiting /\ Conversing /\ OnChannel
  BY DEF Shape
<1>2. phase[r] \in Working /\ Current(r)
  BY WorkerOwns DEF Generates, Works
<1>3. Moves(w, r, "ordering")
  BY DEF Generates, Moves, Works, Working, runtimeVars, sharedVars
<1>5. CoordinatorHolds
  BY <1>1, TypesSay DEF Generates, CoordinatorHolds, coordinatorVars
<1>6. MediaMoves(r, "ordering")
  BY <1>1, <1>2 DEF Generates, MediaMoves, Media, Working
<1>7. Waiting' /\ waiters' \in Seq(User)
  <2>1. UNCHANGED waiters /\ phase[r] # "asking"
    BY DEF Generates, sharedVars
  <2> QED BY <1>3, <2>1, WaitingKept
<1>8. Conversing' /\ conversation' \in Seq(User)
  <2>1. UNCHANGED conversation /\ "ordering" \in InScope
    BY DEF Generates, sharedVars, InScope
  <2> QED BY <1>3, <2>1, ConversationKept
<1>9. OnChannel' /\ channel' \in User \union {Nobody}
  <2>1. UNCHANGED channel /\ phase[r] \notin {"speaking", "unwinding"}
    BY DEF Generates, sharedVars
  <2> QED BY <1>3, <2>1, ChannelKept
<1>10. LinesHold
  BY <1>7, <1>8, <1>9 DEF LinesHold
<1> QED
  BY <1>3, <1>5, <1>6, <1>10, WorkMoves

LEMMA AsksMoves ==
  ASSUME Shape, Numbers, NEW w \in Worker, NEW r \in Reply, Asks(w, r)
  PROVE  Shape' /\ Moves(w, r, "asking") /\ MediaMoves(r, "asking")
<1>1. TypeOK /\ Media /\ Waiting /\ Conversing /\ OnChannel
  BY DEF Shape
<1>2. phase[r] \in Working /\ Current(r)
  BY WorkerOwns DEF Asks, Works
<1>3. Moves(w, r, "asking")
  BY DEF Asks, Moves, Works, Working, runtimeVars, sharedVars
<1>5. CoordinatorHolds
  BY <1>1, TypesSay DEF Asks, CoordinatorHolds
<1>6. MediaMoves(r, "asking")
  BY <1>1, <1>2 DEF Asks, MediaMoves, Media, Working
<1>7. Waiting' /\ waiters' \in Seq(User)
  <2>1. waiters' = Append(waiters, r) /\ phase[r] = "ordering" /\ guest' = guest
    BY DEF Asks
  <2>2. phase'[r] = "asking" /\ \A q \in Reply \ {r} : phase'[q] = phase[q]
    BY <1>1, TypesSay DEF Asks
  <2>3. r \in User /\ r \notin Guest
    BY NamesApart
  <2>4. \A q \in Reply : phase[q] = "asking" => phase'[q] = "asking"
    BY <2>1, <2>2
  <2> QED BY <1>1, <2>1, <2>2, <2>3, <2>4, WaitingJoined
<1>8. Conversing' /\ conversation' \in Seq(User)
  <2>1. UNCHANGED conversation /\ "asking" \in InScope
    BY DEF Asks, sharedVars, InScope
  <2> QED BY <1>3, <2>1, ConversationKept
<1>9. OnChannel' /\ channel' \in User \union {Nobody}
  <2>1. UNCHANGED channel /\ phase[r] \notin {"speaking", "unwinding"}
    BY DEF Asks, sharedVars
  <2> QED BY <1>3, <2>1, ChannelKept
<1>10. LinesHold
  BY <1>7, <1>8, <1>9 DEF LinesHold
<1> QED
  BY <1>3, <1>5, <1>6, <1>10, WorkMoves

LEMMA SpeaksMoves ==
  ASSUME Shape, Numbers, NEW w \in Worker, NEW r \in Reply, Speaks(w, r)
  PROVE  Shape' /\ Moves(w, r, "speaking") /\ MediaMoves(r, "speaking")
<1>1. TypeOK /\ Media /\ Waiting /\ Conversing /\ OnChannel
  BY DEF Shape
<1>2. phase[r] \in Working /\ Current(r)
  BY WorkerOwns DEF Speaks, Works
<1>3. Moves(w, r, "speaking")
  BY DEF Speaks, Moves, Works, Working, runtimeVars, sharedVars
<1>5. CoordinatorHolds
  BY <1>1, TypesSay DEF Speaks, CoordinatorHolds, coordinatorVars
<1>6. MediaMoves(r, "speaking")
  BY <1>1, <1>2 DEF Speaks, MediaMoves, Media, Working
<1>7. Waiting' /\ waiters' \in Seq(User)
  BY <1>3, WaitingUp DEF Speaks, Grant
<1>8. Conversing' /\ conversation' \in Seq(User)
  <2>1. UNCHANGED conversation /\ "speaking" \in InScope
    BY DEF Speaks, sharedVars, InScope
  <2> QED BY <1>3, <2>1, ConversationKept
<1>9. OnChannel' /\ channel' \in User \union {Nobody}
  <2>1. channel' = r /\ phase'[r] = "speaking"
    BY <1>1, TypesSay DEF Speaks, Grant
  <2> QED BY <2>1, NamesApart DEF OnChannel
<1>10. LinesHold
  BY <1>7, <1>8, <1>9 DEF LinesHold
<1> QED
  BY <1>3, <1>5, <1>6, <1>10, WorkMoves

LEMMA SpokeMoves ==
  ASSUME Shape, Numbers, NEW w \in Worker, NEW r \in Reply, Spoke(w, r)
  PROVE  Shape' /\ Moves(w, r, "closing") /\ MediaMoves(r, "closing")
<1>1. TypeOK /\ Media /\ Waiting /\ Conversing /\ OnChannel
  BY DEF Shape
<1>2. phase[r] \in Working /\ Current(r)
  BY WorkerOwns DEF Spoke, Works
<1>3. Moves(w, r, "closing")
  BY DEF Spoke, Moves, Works, Working, runtimeVars, sharedVars
<1>4. /\ Passed(EndingNumbers({r})) /\ EndingNumbers({r}) \in SUBSET Nat
      /\ completed' = completed \union {r}
      /\ channel' = IF channel \in {r} THEN Nobody ELSE channel
  <2>1. {r} \in SUBSET Reply /\ \A q \in {r} : Current(q)
    BY <1>2
  <2>2. EndTurns({r})
    BY DEF Spoke
  <2> QED BY <1>1, <2>1, <2>2, TurnsEnd
<1>5. CoordinatorHolds
  BY <1>1, <1>4, CoordinatorTyped DEF CoordinatorHolds
<1>6. MediaMoves(r, "closing")
  BY <1>1, <1>4, <1>2 DEF Spoke, MediaMoves, Media, Working
<1>7. Waiting' /\ waiters' \in Seq(User)
  <2>1. UNCHANGED waiters /\ phase[r] # "asking"
    BY DEF Spoke, sharedVars
  <2> QED BY <1>3, <2>1, WaitingKept
<1>8. Conversing' /\ conversation' \in Seq(User)
  <2>1. UNCHANGED conversation /\ "closing" \in InScope
    BY DEF Spoke, sharedVars, InScope
  <2> QED BY <1>3, <2>1, ConversationKept
<1>9. OnChannel' /\ channel' \in User \union {Nobody}
  <2>1. channel' = IF channel \in {r} THEN Nobody ELSE channel
    BY <1>4
  <2> QED BY <1>3, <2>1, ChannelKept
<1>10. LinesHold
  BY <1>7, <1>8, <1>9 DEF LinesHold
<1> QED
  BY <1>3, <1>5, <1>6, <1>10, WorkMoves

LEMMA SucceedsMoves ==
  ASSUME Shape, Numbers, NEW w \in Worker, NEW r \in Reply, Succeeds(w, r)
  PROVE  Shape' /\ Moves(w, r, "ended") /\ MediaMoves(r, "ended")
<1>1. TypeOK /\ Media /\ Waiting /\ Conversing /\ OnChannel
  BY DEF Shape
<1>2. phase[r] \in Working /\ Current(r)
  BY WorkerOwns DEF Succeeds, Works
<1>3. Moves(w, r, "ended")
  BY DEF Succeeds, Moves, Works, Working, runtimeVars, sharedVars
<1>5. CoordinatorHolds
  BY <1>1, TypesSay DEF Succeeds, CoordinatorHolds, coordinatorVars
<1>6. MediaMoves(r, "ended")
  BY <1>1, <1>2 DEF Succeeds, MediaMoves, Media, Working
<1>7. Waiting' /\ waiters' \in Seq(User)
  <2>1. UNCHANGED waiters /\ phase[r] # "asking"
    BY DEF Succeeds, sharedVars
  <2> QED BY <1>3, <2>1, WaitingKept
<1>8. Conversing' /\ conversation' \in Seq(User)
  BY <1>3, ScopeLeft DEF Succeeds
<1>9. OnChannel' /\ channel' \in User \union {Nobody}
  <2>1. UNCHANGED channel /\ phase[r] \notin {"speaking", "unwinding"}
    BY DEF Succeeds, sharedVars
  <2> QED BY <1>3, <2>1, ChannelKept
<1>10. LinesHold
  BY <1>7, <1>8, <1>9 DEF LinesHold
<1> QED
  BY <1>3, <1>5, <1>6, <1>10, WorkMoves

LEMMA RetriesMoves ==
  ASSUME Shape, Numbers, NEW w \in Worker, NEW r \in Reply, Retries(w, r)
  PROVE  Shape' /\ Moves(w, r, "composing") /\ MediaMoves(r, "composing")
<1>1. TypeOK /\ Media /\ Waiting /\ Conversing /\ OnChannel
  BY DEF Shape
<1>2. phase[r] \in Working /\ Current(r)
  BY WorkerOwns DEF Retries, Works
<1>3. Moves(w, r, "composing")
  BY DEF Retries, Moves, Works, Working, runtimeVars, sharedVars
<1>5. CoordinatorHolds
  BY <1>1, TypesSay DEF Retries, CoordinatorHolds, coordinatorVars
<1>6. MediaMoves(r, "composing")
  BY <1>1, <1>2 DEF Retries, CanFail, MayRetry, MediaMoves, Media, Working
<1>7. Waiting' /\ waiters' \in Seq(User)
  <2>1. UNCHANGED waiters /\ phase[r] # "asking"
    BY DEF Retries, CanFail, MayRetry, sharedVars
  <2> QED BY <1>3, <2>1, WaitingKept
<1>8. Conversing' /\ conversation' \in Seq(User)
  BY <1>3, ScopeLeft DEF Retries
<1>9. OnChannel' /\ channel' \in User \union {Nobody}
  <2>1. UNCHANGED channel /\ phase[r] \notin {"speaking", "unwinding"}
    BY <1>1 DEF Retries, CanFail, MayRetry, Media
  <2> QED BY <1>3, <2>1, ChannelKept
<1>10. LinesHold
  BY <1>7, <1>8, <1>9 DEF LinesHold
<1> QED
  BY <1>3, <1>5, <1>6, <1>10, WorkMoves

LEMMA FailsMoves ==
  ASSUME Shape, Numbers, NEW w \in Worker, NEW r \in Reply, Fails(w, r)
  PROVE  Shape' /\ Moves(w, r, "ended") /\ MediaMoves(r, "ended")
<1>1. TypeOK /\ Media /\ Waiting /\ Conversing /\ OnChannel
  BY DEF Shape
<1>2. phase[r] \in Working /\ Current(r)
  BY WorkerOwns DEF Fails, Works
<1>3. Moves(w, r, "ended")
  BY DEF Fails, Moves, Works, Working, runtimeVars, sharedVars
<1>4. /\ Passed(EndingNumbers({r})) /\ EndingNumbers({r}) \in SUBSET Nat
      /\ completed' = completed \union {r}
      /\ channel' = IF channel \in {r} THEN Nobody ELSE channel
  <2>1. {r} \in SUBSET Reply /\ \A q \in {r} : Current(q)
    BY <1>2
  <2>2. EndTurns({r})
    BY DEF Fails
  <2> QED BY <1>1, <2>1, <2>2, TurnsEnd
<1>5. CoordinatorHolds
  BY <1>1, <1>4, CoordinatorTyped DEF CoordinatorHolds
<1>6. MediaMoves(r, "ended")
  BY <1>1, <1>4, <1>2 DEF Fails, CanFail, MayRetry, MediaMoves, Media, Working
<1>7. Waiting' /\ waiters' \in Seq(User)
  <2>1. UNCHANGED waiters /\ phase[r] # "asking"
    BY DEF Fails, CanFail, MayRetry, sharedVars
  <2> QED BY <1>3, <2>1, WaitingKept
<1>8. Conversing' /\ conversation' \in Seq(User)
  BY <1>3, ScopeLeft DEF Fails
<1>9. OnChannel' /\ channel' \in User \union {Nobody}
  <2>1. channel' = IF channel \in {r} THEN Nobody ELSE channel
    BY <1>4
  <2> QED BY <1>3, <2>1, ChannelKept
<1>10. LinesHold
  BY <1>7, <1>8, <1>9 DEF LinesHold
<1> QED
  BY <1>3, <1>5, <1>6, <1>10, WorkMoves

LEMMA UnwindGraphMoves ==
  ASSUME Shape, Numbers, NEW w \in Worker, NEW r \in Reply, UnwindGraph(w, r)
  PROVE  Shape' /\ Moves(w, r, "unwinding") /\ MediaMoves(r, "unwinding")
<1>1. TypeOK /\ Media /\ Waiting /\ Conversing /\ OnChannel
  BY DEF Shape
<1>2. phase[r] \in Working /\ Current(r)
  BY WorkerOwns DEF UnwindGraph, Works
<1>3. Moves(w, r, "unwinding")
  BY DEF UnwindGraph, Moves, Works, Working, runtimeVars, sharedVars
<1>5. CoordinatorHolds
  BY <1>1, TypesSay DEF UnwindGraph, CoordinatorHolds, coordinatorVars
<1>6. MediaMoves(r, "unwinding")
  BY <1>1, <1>2 DEF UnwindGraph, MediaMoves, Media, Working
<1>7. Waiting' /\ waiters' \in Seq(User)
  BY <1>3, WaitingUp DEF UnwindGraph, Grant
<1>8. Conversing' /\ conversation' \in Seq(User)
  BY <1>3, ScopeLeft DEF UnwindGraph
<1>9. OnChannel' /\ channel' \in User \union {Nobody}
  <2>1. UNCHANGED channel /\ "unwinding" \in {"speaking", "unwinding"}
    BY DEF UnwindGraph
  <2> QED BY <1>3, <2>1, ChannelKept
<1>10. LinesHold
  BY <1>7, <1>8, <1>9 DEF LinesHold
<1> QED
  BY <1>3, <1>5, <1>6, <1>10, WorkMoves

LEMMA UnwindTurnMoves ==
  ASSUME Shape, Numbers, NEW w \in Worker, NEW r \in Reply, UnwindTurn(w, r)
  PROVE  Shape' /\ Moves(w, r, "ended") /\ MediaMoves(r, "ended")
<1>1. TypeOK /\ Media /\ Waiting /\ Conversing /\ OnChannel
  BY DEF Shape
<1>2. phase[r] \in Working /\ Current(r)
  BY WorkerOwns DEF UnwindTurn, Works
<1>3. Moves(w, r, "ended")
  BY DEF UnwindTurn, Moves, Works, Working, runtimeVars, sharedVars
<1>4. /\ Passed(EndingNumbers({r})) /\ EndingNumbers({r}) \in SUBSET Nat
      /\ completed' = completed \union {r}
      /\ channel' = IF channel \in {r} THEN Nobody ELSE channel
  <2>1. {r} \in SUBSET Reply /\ \A q \in {r} : Current(q)
    BY <1>2
  <2>2. EndTurns({r})
    BY DEF UnwindTurn
  <2> QED BY <1>1, <2>1, <2>2, TurnsEnd
<1>5. CoordinatorHolds
  BY <1>1, <1>4, CoordinatorTyped DEF CoordinatorHolds
<1>6. MediaMoves(r, "ended")
  BY <1>1, <1>4, <1>2 DEF UnwindTurn, MediaMoves, Media, Working
<1>7. Waiting' /\ waiters' \in Seq(User)
  <2>1. UNCHANGED waiters /\ phase[r] # "asking"
    BY DEF UnwindTurn, sharedVars
  <2> QED BY <1>3, <2>1, WaitingKept
<1>8. Conversing' /\ conversation' \in Seq(User)
  <2>1. UNCHANGED conversation /\ phase[r] \notin InScope
    BY DEF UnwindTurn, InScope
  <2> QED BY <1>3, <2>1, ConversationKept
<1>9. OnChannel' /\ channel' \in User \union {Nobody}
  <2>1. channel' = IF channel \in {r} THEN Nobody ELSE channel
    BY <1>4
  <2> QED BY <1>3, <2>1, ChannelKept
<1>10. LinesHold
  BY <1>7, <1>8, <1>9 DEF LinesHold
<1> QED
  BY <1>3, <1>5, <1>6, <1>10, WorkMoves

-----------------------------------------------------------------------------
(* Shape: the guests.                                                      *)
GuestMoves(g, to) ==
  /\ guest' = [guest EXCEPT ![g] = to] /\ to \in {"away", "asking", "holding", "conversing"}
  /\ UNCHANGED <<runtimeVars, replyVars, coordinatorVars>>

LEMMA GuestShape ==
  ASSUME Shape, NEW g \in Guest, NEW to, GuestMoves(g, to), LinesHold
  PROVE  Shape'
<1>1. TypeOK /\ Queued /\ Serving /\ Switching /\ Media
  BY DEF Shape
<1>2. guest' \in [Guest -> {"away", "asking", "holding", "conversing"}]
  BY <1>1, TypesSay DEF GuestMoves
<1>3. TypeOK'
  BY <1>1, <1>2
     DEF TypeOK, GuestMoves, LinesHold, runtimeVars, replyVars, coordinatorVars
<1>4. Queued'
  BY <1>1, QueuedStays DEF GuestMoves, runtimeVars, replyVars
<1>5. Serving' /\ Switching' /\ Media'
  BY <1>1 DEF GuestMoves, runtimeVars, replyVars, Serving, Switching, Media
<1> QED
  BY <1>3, <1>4, <1>5 DEF Shape, LinesHold

LEMMA GuestAsksMoves ==
  ASSUME Shape, NEW g \in Guest, GuestAsks(g)
  PROVE  Shape' /\ GuestMoves(g, "asking")
<1>1. TypeOK /\ Waiting /\ Conversing /\ OnChannel
  BY DEF Shape
<1>2. /\ guest[g] = "away" /\ guest'[g] = "asking"
      /\ \A h \in Guest \ {g} : guest'[h] = guest[h]
      /\ waiters' = Append(waiters, g) /\ phase' = phase
      /\ UNCHANGED <<channel, conversation>>
  BY <1>1, TypesSay DEF GuestAsks, GuestGoes, replyVars
<1>3. g \in User /\ g \notin Reply
  BY NamesApart
<1>4. GuestMoves(g, "asking")
  BY DEF GuestAsks, GuestGoes, GuestMoves
<1>5. Waiting' /\ waiters' \in Seq(User)
  <2>1. \A h \in Guest : guest[h] = "asking" => guest'[h] = "asking"
    BY <1>2
  <2>2. \A r \in Reply : phase[r] = "asking" => phase'[r] = "asking"
    BY <1>2
  <2> QED BY <1>1, <1>2, <1>3, <2>1, <2>2, WaitingJoined
<1>6. Conversing' /\ conversation' \in Seq(User)
  <2>1. Leaves(conversation, conversation', {})
    BY <1>2 DEF Leaves
  <2>2. \A h \in Guest : guest[h] = "conversing" => guest'[h] = "conversing"
    BY <1>2
  <2>3. \A r \in Reply : phase[r] \in InScope => phase'[r] \in InScope
    BY <1>2
  <2> QED BY <1>1, <2>1, <2>2, <2>3, ConversingLeft
<1>7. OnChannel' /\ channel' \in User \union {Nobody}
  BY <1>1, <1>2, TypesSay DEF OnChannel
<1> QED
  BY <1>4, <1>5, <1>6, <1>7, GuestShape DEF LinesHold

LEMMA GuestSpeaksMoves ==
  ASSUME Shape, NEW g \in Guest, GuestSpeaks(g)
  PROVE  Shape' /\ GuestMoves(g, "holding")
<1>1. TypeOK /\ Waiting /\ Conversing /\ OnChannel
  BY DEF Shape
<1>2. /\ guest[g] = "asking" /\ guest'[g] = "holding"
      /\ \A h \in Guest \ {g} : guest'[h] = guest[h]
      /\ waiters' = Excluding(waiters, {g}) /\ phase' = phase
      /\ channel' = g /\ UNCHANGED conversation
  BY <1>1, TypesSay DEF GuestSpeaks, GuestGoes, Grant, replyVars
<1>3. g \in User /\ g \notin Reply
  BY NamesApart
<1>4. GuestMoves(g, "holding")
  BY DEF GuestSpeaks, GuestGoes, GuestMoves
<1>5. Waiting' /\ waiters' \in Seq(User)
  <2>1. Leaves(waiters, waiters', {g}) /\ {g} \in SUBSET User
    BY <1>2, <1>3 DEF Leaves
  <2>2. \A h \in Guest \ {g} : guest[h] = "asking" => guest'[h] = "asking"
    BY <1>2
  <2>3. \A r \in Reply \ {g} : phase[r] = "asking" => phase'[r] = "asking"
    BY <1>2
  <2> QED BY <1>1, <2>1, <2>2, <2>3, WaitingLeft
<1>6. Conversing' /\ conversation' \in Seq(User)
  <2>1. Leaves(conversation, conversation', {})
    BY <1>2 DEF Leaves
  <2>2. \A h \in Guest : guest[h] = "conversing" => guest'[h] = "conversing"
    BY <1>2
  <2>3. \A r \in Reply : phase[r] \in InScope => phase'[r] \in InScope
    BY <1>2
  <2> QED BY <1>1, <2>1, <2>2, <2>3, ConversingLeft
<1>7. OnChannel' /\ channel' \in User \union {Nobody}
  BY <1>2, <1>3 DEF OnChannel
<1> QED
  BY <1>4, <1>5, <1>6, <1>7, GuestShape DEF LinesHold

LEMMA GuestConversesMoves ==
  ASSUME Shape, NEW g \in Guest, GuestConverses(g)
  PROVE  Shape' /\ GuestMoves(g, "conversing")
<1>1. TypeOK /\ Waiting /\ Conversing /\ OnChannel
  BY DEF Shape
<1>2. /\ guest[g] = "holding" /\ guest'[g] = "conversing"
      /\ \A h \in Guest \ {g} : guest'[h] = guest[h]
      /\ conversation' = Append(conversation, g) /\ phase' = phase
      /\ UNCHANGED <<channel, waiters>>
  BY <1>1, TypesSay DEF GuestConverses, GuestGoes, replyVars
<1>3. g \in User /\ g \notin Reply
  BY NamesApart
<1>4. GuestMoves(g, "conversing")
  BY DEF GuestConverses, GuestGoes, GuestMoves
<1>5. Waiting' /\ waiters' \in Seq(User)
  <2>1. Leaves(waiters, waiters', {})
    BY <1>2 DEF Leaves
  <2>2. \A h \in Guest : guest[h] = "asking" => guest'[h] = "asking"
    BY <1>2
  <2>3. \A r \in Reply : phase[r] = "asking" => phase'[r] = "asking"
    BY <1>2
  <2> QED BY <1>1, <2>1, <2>2, <2>3, WaitingLeft
<1>6. Conversing' /\ conversation' \in Seq(User)
  <2>1. \A h \in Guest : guest[h] = "conversing" => guest'[h] = "conversing"
    BY <1>2
  <2>2. \A r \in Reply : phase[r] \in InScope => phase'[r] \in InScope
    BY <1>2
  <2> QED BY <1>1, <1>2, <1>3, <2>1, <2>2, ConversingJoined
<1>7. OnChannel' /\ channel' \in User \union {Nobody}
  <2>1. \A h \in Guest : guest[h] \in {"holding", "conversing"}
                         => guest'[h] \in {"holding", "conversing"}
    BY <1>2
  <2> QED BY <1>1, <1>2, <2>1, OnChannelStays
<1> QED
  BY <1>4, <1>5, <1>6, <1>7, GuestShape DEF LinesHold

LEMMA GuestLeavesMoves ==
  ASSUME Shape, NEW g \in Guest, GuestLeaves(g)
  PROVE  Shape' /\ GuestMoves(g, "away")
<1>1. TypeOK /\ Waiting /\ Conversing /\ OnChannel
  BY DEF Shape
<1>2. /\ guest'[g] = "away" /\ \A h \in Guest \ {g} : guest'[h] = guest[h]
      /\ waiters' = Excluding(waiters, {g}) /\ conversation' = Excluding(conversation, {g})
      /\ phase' = phase /\ channel' = IF channel = g THEN Nobody ELSE channel
  BY <1>1, TypesSay DEF GuestLeaves, LeavesScope, replyVars
<1>3. g \in User /\ g \notin Reply /\ g # Nobody
  BY NamesApart
<1>4. GuestMoves(g, "away")
  BY DEF GuestLeaves, GuestMoves
<1>5. Waiting' /\ waiters' \in Seq(User)
  <2>1. Leaves(waiters, waiters', {g}) /\ {g} \in SUBSET User
    BY <1>2, <1>3 DEF Leaves
  <2>2. \A h \in Guest \ {g} : guest[h] = "asking" => guest'[h] = "asking"
    BY <1>2
  <2>3. \A r \in Reply \ {g} : phase[r] = "asking" => phase'[r] = "asking"
    BY <1>2
  <2> QED BY <1>1, <2>1, <2>2, <2>3, WaitingLeft
<1>6. Conversing' /\ conversation' \in Seq(User)
  <2>1. Leaves(conversation, conversation', {g}) /\ {g} \in SUBSET User
    BY <1>2, <1>3 DEF Leaves
  <2>2. \A h \in Guest \ {g} : guest[h] = "conversing" => guest'[h] = "conversing"
    BY <1>2
  <2>3. \A r \in Reply \ {g} : phase[r] \in InScope => phase'[r] \in InScope
    BY <1>2
  <2> QED BY <1>1, <2>1, <2>2, <2>3, ConversingLeft
<1>7. OnChannel' /\ channel' \in User \union {Nobody}
  <2>1. \A h \in Guest : channel' = h /\ guest[h] \in {"holding", "conversing"}
                         => guest'[h] \in {"holding", "conversing"}
    BY <1>2, <1>3, NamesApart
  <2>2. channel' = channel \/ channel' = Nobody
    BY <1>2
  <2> QED BY <1>1, <1>2, <2>1, <2>2, OnChannelStays
<1> QED
  BY <1>4, <1>5, <1>6, <1>7, GuestShape DEF LinesHold

LEMMA GuestStepMoves ==
  ASSUME Shape, NEW g \in Guest, GuestStep(g)
  PROVE  Shape' /\ \E to : GuestMoves(g, to)
<1>1. CASE GuestAsks(g)
  BY <1>1, GuestAsksMoves
<1>2. CASE GuestSpeaks(g)
  BY <1>2, GuestSpeaksMoves
<1>3. CASE GuestConverses(g)
  BY <1>3, GuestConversesMoves
<1>4. CASE GuestFinishes(g) \/ GuestWithdraws(g)
  BY <1>4, GuestLeavesMoves DEF GuestFinishes, GuestWithdraws
<1> QED
  BY <1>1, <1>2, <1>3, <1>4 DEF GuestStep

-----------------------------------------------------------------------------
(* Shape: the queue.                                                       *)
LEMMA QueuedSays ==
  ASSUME Shape, NEW i \in DOMAIN queue
  PROVE  /\ queue[i] \in Reply /\ Current(queue[i]) /\ phase[queue[i]] = "queued"
         /\ queue[i] \notin completed /\ queue[i] \notin acquired
<1>1. TypeOK /\ Queued /\ Switching /\ Media
  BY DEF Shape
<1>2. queue[i] \in Reply /\ phase[queue[i]] = "queued"
  BY <1>1, TypesSay DEF Queued
<1> QED
  BY <1>1, <1>2 DEF Switching, Media, Current

LEMMA ChosenQueued ==
  ASSUME Shape, queue # <<>>
  PROVE  \E i \in DOMAIN queue : Chosen = queue[i]
<1>1. queue \in Seq(Reply)
  BY TypesSay DEF Shape
<1>2. CASE exhaustive
  BY <1>1, <1>2 DEF Chosen
<1>3. CASE ~exhaustive
  <2> DEFINE Ranks == {Rank[queue[i]] : i \in DOMAIN queue}
             P == {i \in DOMAIN queue : \A q \in Range(queue) : Rank[queue[i]] <= Rank[q]}
  <2>1. \A i \in DOMAIN queue : Rank[queue[i]] \in Nat
    BY <1>1, NamesApart
  <2>2. Ranks \subseteq Nat /\ Ranks # {}
    BY <1>1, <2>1
  <2> HIDE DEF Ranks
  <2>3. PICK least \in Ranks : \A m \in Ranks : least <= m
    BY <2>2, LeastNatural
  <2>4. PICK i \in DOMAIN queue : Rank[queue[i]] = least
    BY <2>3 DEF Ranks
  <2>5. \A q \in Range(queue) : Rank[queue[i]] <= Rank[q]
    BY <2>3, <2>4 DEF Ranks, Range
  <2>6. P # {} /\ P \subseteq DOMAIN queue
    BY <2>5
  <2>7. Chosen = Head(Kept(queue, P))
    BY <1>3 DEF Chosen
  <2> HIDE DEF P
  <2>8. \E j \in P : Head(Kept(queue, P)) = queue[j]
    BY <1>1, <2>6, FirstKept
  <2> QED BY <2>6, <2>7, <2>8
<1> QED
  BY <1>2, <1>3

LEMMA VictimQueued ==
  ASSUME Shape, NEW r \in Reply, ~Rejected(r)
  PROVE  \/ Victims(r) = {} /\ Len(queue) < MaxQueue
         \/ Len(queue) = MaxQueue /\ \E i \in DOMAIN queue : Victims(r) = {queue[i]}
<1>1. queue \in Seq(Reply) /\ Len(queue) <= MaxQueue /\ Len(queue) \in Nat /\ MaxQueue \in Nat
  BY TypesSay, NamesApart DEF Shape
<1>2. CASE Len(queue) < MaxQueue
  BY <1>2 DEF Victims
<1>3. CASE ~(Len(queue) < MaxQueue)
  <2> DEFINE P == {i \in DOMAIN queue : Rank[queue[i]] > Rank[r]}
  <2>1. Outranked(r) = Kept(queue, P) /\ P \subseteq DOMAIN queue
    BY DEF Outranked
  <2>2. Outranked(r) # <<>>
    BY <1>1, <1>3 DEF Rejected
  <2> HIDE DEF P
  <2>3. P # {}
    <3> SUFFICES ASSUME P = {}
                 PROVE  Kept(queue, P) = <<>>
      BY <2>1, <2>2
    <3>1. Kept(queue, P) \in Seq(Reply) /\ Len(Kept(queue, P)) = Cardinality(P)
      BY <1>1, <2>1, KeptInOrder
    <3>2. Cardinality(P) = 0
      BY FS_EmptySet
    <3> QED BY <3>1, <3>2
  <2>4. \E i \in P : Head(Kept(queue, P)) = queue[i]
    BY <1>1, <2>1, <2>3, FirstKept
  <2>5. PICK i \in P : Head(Kept(queue, P)) = queue[i]
    BY <2>4
  <2>6. Victims(r) = {queue[i]} /\ i \in DOMAIN queue
    BY <1>3, <2>1, <2>5 DEF Victims
  <2> QED BY <1>1, <1>3, <2>6
<1> QED
  BY <1>2, <1>3

LEMMA LinesStay ==
  ASSUME Shape, UNCHANGED <<waiters, conversation, guest>>,
         channel' = channel \/ channel' = Nobody,
         \A r \in Reply : phase[r] \in Working => phase'[r] = phase[r]
  PROVE  LinesHold
<1>1. TypeOK /\ Waiting /\ Conversing /\ OnChannel
  BY DEF Shape
<1>2. Waiting' /\ waiters' \in Seq(User)
  <2>1. Leaves(waiters, waiters', {})
    BY DEF Leaves
  <2>2. \A r \in Reply : phase[r] = "asking" => phase'[r] = "asking"
    BY DEF Working
  <2> QED BY <1>1, <2>1, <2>2, WaitingLeft
<1>3. Conversing' /\ conversation' \in Seq(User)
  <2>1. Leaves(conversation, conversation', {})
    BY DEF Leaves
  <2>2. \A r \in Reply : phase[r] \in InScope => phase'[r] \in InScope
    BY DEF Working, InScope
  <2> QED BY <1>1, <2>1, <2>2, ConversingLeft
<1>4. OnChannel' /\ channel' \in User \union {Nobody}
  <2>1. \A r \in Reply : phase[r] \in {"speaking", "unwinding"}
                         => phase'[r] \in {"speaking", "unwinding"}
    BY DEF Working
  <2> QED BY <1>1, <2>1, OnChannelStays
<1> QED
  BY <1>2, <1>3, <1>4 DEF LinesHold

(* Replies outside the workers: what a step may do with them.              *)
Outside == {"unsent", "putting", "queued", "ended"}

MovesOutside ==
  /\ phase' \in [Reply -> Phases]
  /\ \A r \in Reply : /\ phase'[r] = phase[r] \/ {phase[r], phase'[r]} \subseteq Outside
                      /\ phase[r] = "ended" => phase'[r] = "ended"
  /\ \A w \in Worker : worker'[w] = worker[w] \/ {worker[w], worker'[w]} \subseteq {"idle", "absent"}
  /\ worker' \in [Worker -> Reply \union {"absent", "idle"}]
  /\ \A r \in Reply : r \in completed' /\ r \notin completed => phase'[r] = "ended"
  /\ completed' \subseteq Reply
  /\ channel' = channel \/ channel' = Nobody
  /\ UNCHANGED <<exhaustive, acquired, retried, waiters, conversation, guest>>

LEMMA OutsideShape ==
  ASSUME Shape, MovesOutside, CoordinatorHolds, Queued', Switching', queue' \in Seq(Reply),
         Len(queue') <= MaxQueue, submitted' \in Nat, generation' \in 0..MaxGeneration,
         switching' \in BOOLEAN, admitted' \in Nat, terminal' \in Nat,
         asleep' \subseteq Worker \union Reply, born' \in [Reply -> Nat],
         sequence' \in [Reply -> Nat]
  PROVE  Shape'
<1>1. TypeOK /\ Serving /\ Media
  BY DEF Shape
<1>2. phase \in [Reply -> Phases]
  BY <1>1, TypesSay
<1>3. \A r \in Reply : phase[r] \in Working \/ phase'[r] \in Working => phase'[r] = phase[r]
  BY DEF MovesOutside, Working, Outside
<1>4. LinesHold
  BY <1>3, LinesStay DEF MovesOutside
<1>5. TypeOK'
  BY <1>1, <1>4 DEF TypeOK, MovesOutside, LinesHold, CoordinatorHolds
<1>6. Serving'
  <2>1. \A w \in Worker : worker[w] \in Reply \/ worker'[w] \in Reply => worker'[w] = worker[w]
    BY NamesApart DEF MovesOutside
  <2>2. \A r \in Reply : phase'[r] \in Working <=> phase[r] \in Working
    BY <1>3
  <2> QED BY <1>1, <1>5, <2>1, <2>2, ServingStays
<1>7. Media'
  <2> SUFFICES ASSUME NEW r \in Reply
               PROVE  /\ r \in acquired' => phase'[r] \in {"speaking", "closing", "unwinding", "ended"}
                      /\ phase'[r] \in {"speaking", "closing"} => r \in acquired'
                      /\ r \in completed' => phase'[r] \in {"closing", "unwinding", "ended"}
    BY DEF Media
  <2>1. CASE phase'[r] = phase[r]
    BY <1>1, <2>1 DEF Media, MovesOutside
  <2>2. CASE {phase[r], phase'[r]} \subseteq Outside
    BY <1>1, <2>2 DEF Media, MovesOutside, Outside
  <2> QED BY <2>1, <2>2 DEF MovesOutside
<1> QED
  BY <1>4, <1>5, <1>6, <1>7 DEF Shape, LinesHold

LEMMA CoordinatorStays ==
  ASSUME Shape, UNCHANGED coordinatorVars
  PROVE  CoordinatorHolds
BY TypesSay DEF Shape, CoordinatorHolds, coordinatorVars

LEMMA FallsAsleepShape ==
  ASSUME Shape, NEW w \in Worker, FallsAsleep(w)
  PROVE  Shape'
<1>1. TypeOK /\ Queued /\ Switching
  BY DEF Shape
<1>2. MovesOutside /\ CoordinatorHolds
  BY <1>1, TypesSay, CoordinatorStays DEF FallsAsleep, MovesOutside, replyVars, sharedVars
<1>3. Queued' /\ Switching' /\ UNCHANGED <<queue, submitted, generation, switching, born, sequence>>
  BY <1>1, QueuedStays DEF FallsAsleep, Awake, Switching, replyVars
<1>4. generation' \in 0..MaxGeneration
  BY <1>1, <1>3 DEF TypeOK
<1>5. asleep' \subseteq Worker \union Reply
  BY <1>1, TypesSay DEF FallsAsleep
<1> QED
  BY <1>1, <1>2, <1>3, <1>4, <1>5, TypesSay, OutsideShape DEF FallsAsleep

LEMMA WorkerStopsShape ==
  ASSUME Shape, NEW w \in Worker, WorkerStops(w)
  PROVE  Shape'
<1>1. TypeOK /\ Queued /\ Switching
  BY DEF Shape
<1>2. worker' \in [Worker -> Reply \union {"absent", "idle"}]
      /\ \A v \in Worker : worker'[v] = worker[v] \/ (worker[v] = "idle" /\ worker'[v] = "absent")
  BY <1>1, TypesSay DEF WorkerStops
<1>3. MovesOutside /\ CoordinatorHolds
  BY <1>1, <1>2, TypesSay, CoordinatorStays DEF WorkerStops, MovesOutside, replyVars, sharedVars
<1>4. Queued' /\ Switching' /\ UNCHANGED <<queue, submitted, generation, switching, born, sequence>>
  BY <1>1, QueuedStays DEF WorkerStops, Switching, replyVars
<1>5. generation' \in 0..MaxGeneration
  BY <1>1, <1>4 DEF TypeOK
<1> QED
  BY <1>1, <1>3, <1>4, <1>5, TypesSay, OutsideShape DEF WorkerStops

(* An insertion: what put and put_wait do to the queue and to the reply.   *)
LEMMA PhaseMoves ==
  ASSUME Shape, NEW r \in Reply, NEW p \in Phases, phase' = [phase EXCEPT ![r] = p]
  PROVE  /\ phase' \in [Reply -> Phases] /\ phase'[r] = p
         /\ \A q \in Reply \ {r} : phase'[q] = phase[q]
BY TypesSay DEF Shape

LEMMA PutAgainShape ==
  ASSUME Shape, NEW r \in Reply, PutAgain(r)
  PROVE  Shape'
<1>1. TypeOK /\ Queued /\ Switching
  BY DEF Shape
<1>2. CoordinatorHolds
  BY CoordinatorStays DEF PutAgain
<1>3. /\ UNCHANGED <<generation, switching, submitted, worker, terminal, born, sequence, completed,
                     channel, acquired, retried, waiters, conversation, guest, exhaustive>>
      /\ phase[r] = "putting"
  BY DEF PutAgain, sharedVars
<1>4. generation' \in 0..MaxGeneration
  BY <1>1, <1>3 DEF TypeOK
<1>5. ~switching
  BY <1>1, <1>3 DEF Switching
<1>6. CASE Len(queue) < MaxQueue
  <2>1. Insert(r)
    BY <1>6 DEF PutAgain
  <2>2. /\ phase' \in [Reply -> Phases] /\ phase'[r] = "queued"
        /\ \A q \in Reply \ {r} : phase'[q] = phase[q]
    BY <2>1, PhaseMoves DEF Insert, Phases
  <2>3. Queued' /\ queue' \in Seq(Reply) /\ Len(queue') = Len(queue) + 1
    BY <1>1, <1>3, <2>1, <2>2, QueuedJoined DEF Insert
  <2>4. Len(queue') <= MaxQueue
    BY <1>1, <1>6, <2>3, TypesSay, NamesApart
  <2>5. Switching'
    BY <1>1, <1>3, <1>5, <2>2 DEF Switching
  <2>6. MovesOutside
    BY <1>1, <1>3, <2>2, TypesSay DEF MovesOutside, Outside
  <2>7. asleep' = {} /\ admitted' \in Nat
    BY <1>1, <2>1, TypesSay DEF Insert
  <2> QED
    BY <1>1, <1>2, <1>3, <1>4, <2>3, <2>4, <2>5, <2>6, <2>7, TypesSay, OutsideShape
<1>7. CASE ~(Len(queue) < MaxQueue)
  <2>1. asleep' = asleep \union {r} /\ UNCHANGED <<queue, phase, admitted>>
    BY <1>7 DEF PutAgain
  <2>2. Queued'
    BY <1>1, <2>1, QueuedStays
  <2>3. Switching'
    BY <1>1, <1>3, <1>5, <2>1 DEF Switching
  <2>4. MovesOutside
    BY <1>1, <1>3, <2>1, TypesSay DEF MovesOutside
  <2>5. asleep' \subseteq Worker \union Reply
    BY <1>1, <2>1, TypesSay
  <2> QED
    BY <1>1, <1>2, <1>3, <1>4, <2>1, <2>2, <2>3, <2>4, <2>5, TypesSay, OutsideShape
<1> QED
  BY <1>6, <1>7

LEMMA ExpiredShape ==
  ASSUME Shape, Numbers, NEW w \in Worker, Takes(w, TRUE)
  PROVE  /\ Shape' /\ \E i \in DOMAIN queue : Chosen = queue[i]
         /\ Chosen \in Reply /\ phase[Chosen] = "queued" /\ Current(Chosen)
         /\ phase' = [phase EXCEPT ![Chosen] = "ended"]
         /\ terminal' = terminal + 1 /\ EndTurns({Chosen})
         /\ queue' = Excluding(queue, {Chosen}) /\ asleep' = {}
<1>1. TypeOK /\ Queued /\ Switching /\ queue # <<>> /\ ~switching
  BY DEF Shape, Takes, Awake
<1>2. PICK i \in DOMAIN queue : Chosen = queue[i]
  BY <1>1, ChosenQueued
<1> DEFINE r == Chosen
<1>4. r \in Reply /\ phase[r] = "queued" /\ Current(r)
  BY <1>2, QueuedSays
<1>5. /\ queue' = Excluding(queue, {r}) /\ asleep' = {} /\ phase' = [phase EXCEPT ![r] = "ended"]
      /\ terminal' = terminal + 1 /\ EndTurns({r})
      /\ UNCHANGED <<exhaustive, generation, switching, submitted, admitted, born, sequence, retried,
                     acquired, waiters, conversation, guest, worker>>
  BY DEF Takes
<1> HIDE DEF r
<1>6. /\ phase' \in [Reply -> Phases] /\ phase'[r] = "ended"
      /\ \A q \in Reply \ {r} : phase'[q] = phase[q]
  BY <1>4, <1>5, PhaseMoves DEF Phases
<1>7. /\ Passed(EndingNumbers({r})) /\ EndingNumbers({r}) \in SUBSET Nat
      /\ completed' = completed \union {r}
      /\ channel' = IF channel \in {r} THEN Nobody ELSE channel
  <2>1. {r} \in SUBSET Reply /\ \A q \in {r} : Current(q)
    BY <1>4
  <2> QED BY <1>1, <1>5, <2>1, TurnsEnd
<1>8. CoordinatorHolds
  BY <1>1, <1>7, CoordinatorTyped DEF CoordinatorHolds
<1>9. Queued' /\ queue' \in Seq(Reply)
  <2>1. {r} \in SUBSET Reply
    BY <1>4
  <2> QED BY <1>1, <1>5, <1>6, <2>1, QueuedLeft
<1>10. Len(queue') <= MaxQueue
  <2>1. Len(queue') = Len(queue) - 1
    <3>1. queue \in Seq(Reply) /\ IsInjective(queue)
      BY <1>1, TypesSay DEF Queued
    <3> QED BY <1>2, <1>5, <3>1, OneExcluded DEF r
  <2> QED BY <1>1, <2>1, TypesSay, NamesApart
<1>11. Switching'
  BY <1>1, <1>4, <1>5, <1>6 DEF Switching
<1>12. MovesOutside
  BY <1>1, <1>4, <1>5, <1>6, <1>7, TypesSay DEF MovesOutside, Outside
<1>13. generation' \in 0..MaxGeneration /\ terminal' \in Nat
  BY <1>1, <1>5, TypesSay DEF TypeOK
<1>14. Shape'
  BY <1>1, <1>5, <1>8, <1>9, <1>10, <1>11, <1>12, <1>13, TypesSay, OutsideShape
<1> QED
  BY <1>2, <1>4, <1>5, <1>14 DEF r

LEMMA TakenShape ==
  ASSUME Shape, NEW w \in Worker, Takes(w, FALSE)
  PROVE  /\ Shape' /\ Chosen \in Reply /\ phase[Chosen] = "queued"
         /\ phase' = [phase EXCEPT ![Chosen] = "composing"]
<1>1. /\ TypeOK /\ Queued /\ Waiting /\ Conversing /\ OnChannel /\ Serving /\ Switching /\ Media
      /\ queue # <<>> /\ ~switching /\ worker[w] = "idle"
  BY DEF Shape, Takes, Awake
<1>2. PICK i \in DOMAIN queue : Chosen = queue[i]
  BY <1>1, ChosenQueued
<1> DEFINE r == Chosen
<1>4. r \in Reply /\ phase[r] = "queued" /\ Current(r) /\ r \notin completed /\ r \notin acquired
  BY <1>2, QueuedSays
<1>5. /\ queue' = Excluding(queue, {r}) /\ asleep' = {}
      /\ phase' = [phase EXCEPT ![r] = "composing"] /\ worker' = [worker EXCEPT ![w] = r]
      /\ UNCHANGED <<exhaustive, generation, switching, submitted, admitted, born, sequence, retried,
                     acquired, waiters, conversation, guest, terminal, completed, channel,
                     coordinatorVars>>
  BY DEF Takes
<1> HIDE DEF r
<1>6. /\ phase' \in [Reply -> Phases] /\ phase'[r] = "composing"
      /\ \A q \in Reply \ {r} : phase'[q] = phase[q]
  BY <1>4, <1>5, PhaseMoves DEF Phases
<1>7. /\ worker' \in [Worker -> Reply \union {"absent", "idle"}] /\ worker'[w] = r
      /\ \A v \in Worker \ {w} : worker'[v] = worker[v]
  BY <1>1, <1>4, <1>5, TypesSay
<1>8. LinesHold
  <2>1. \A q \in Reply : phase[q] \in Working => phase'[q] = phase[q]
    BY <1>4, <1>6 DEF Working
  <2> QED BY <1>5, <2>1, LinesStay
<1>9. Queued' /\ queue' \in Seq(Reply)
  <2>1. {r} \in SUBSET Reply
    BY <1>4
  <2> QED BY <1>1, <1>5, <1>6, <2>1, QueuedLeft
<1>10. Len(queue') <= MaxQueue
  <2>1. Len(queue') = Len(queue) - 1
    <3>1. queue \in Seq(Reply) /\ IsInjective(queue)
      BY <1>1, TypesSay DEF Queued
    <3> QED BY <1>2, <1>5, <3>1, OneExcluded DEF r
  <2> QED BY <1>1, <2>1, TypesSay, NamesApart
<1>11. TypeOK'
  BY <1>1, <1>5, <1>6, <1>7, <1>8, <1>9, <1>10 DEF TypeOK, LinesHold, coordinatorVars
<1>12. Serving'
  <2>1. \A v \in Worker : worker[v] # r
    BY <1>1, <1>4 DEF Serving, Working
  <2>2. \A q \in Reply : phase'[q] \in Working => \E v \in Worker : worker'[v] = q
    <3> SUFFICES ASSUME NEW q \in Reply, phase'[q] \in Working
                 PROVE  \E v \in Worker : worker'[v] = q
      OBVIOUS
    <3>1. CASE q = r
      BY <1>7, <3>1
    <3>2. CASE q # r
      <4>1. PICK v \in Worker : worker[v] = q
        BY <1>1, <1>6, <3>2 DEF Serving
      <4>2. v # w
        BY <1>1, <4>1, NamesApart
      <4> QED BY <1>7, <4>1, <4>2
    <3> QED BY <3>1, <3>2
  <2>3. \A v \in Worker : worker'[v] \in Reply => phase'[worker'[v]] \in Working
    BY <1>1, <1>6, <1>7, <2>1 DEF Serving, Working
  <2>4. \A u, v \in Worker : worker'[u] = worker'[v] /\ worker'[u] \in Reply => u = v
    BY <1>1, <1>7, <2>1 DEF Serving
  <2> QED BY <2>2, <2>3, <2>4 DEF Serving
<1>13. Switching'
  BY <1>1, <1>4, <1>5, <1>6 DEF Switching
<1>14. Media'
  BY <1>1, <1>4, <1>5, <1>6 DEF Media
<1> QED
  BY <1>4, <1>5, <1>8, <1>9, <1>11, <1>12, <1>13, <1>14 DEF Shape, LinesHold, r

(* A submission: what its ways have in common.                             *)
Submission(r) ==
  /\ phase[r] = "unsent" /\ ~switching
  /\ born' = [born EXCEPT ![r] = generation] /\ sequence' = [sequence EXCEPT ![r] = submitted]
  /\ submitted' = submitted + 1 /\ EnsureWorker
  /\ UNCHANGED <<exhaustive, generation, switching, retried, acquired, waiters, conversation, guest>>

LEMMA SubmissionSays ==
  ASSUME Shape, NEW r \in Reply, Submission(r)
  PROVE  /\ born' \in [Reply -> Nat] /\ sequence' \in [Reply -> Nat] /\ submitted' \in Nat
         /\ born'[r] = generation /\ sequence'[r] = submitted
         /\ \A q \in Reply \ {r} : born'[q] = born[q] /\ sequence'[q] = sequence[q]
         /\ worker' \in [Worker -> Reply \union {"absent", "idle"}]
         /\ \A w \in Worker : worker'[w] = worker[w]
                              \/ {worker[w], worker'[w]} \subseteq {"idle", "absent"}
         /\ \A w \in Worker : worker[w] = "idle" \/ worker'[w] # "idle" => worker'[w] = worker[w]
         /\ generation' \in 0..MaxGeneration
<1>1. TypeOK
  BY DEF Shape
<1>2. /\ worker \in [Worker -> Reply \union {"absent", "idle"}] /\ submitted \in Nat
      /\ born \in [Reply -> Nat] /\ sequence \in [Reply -> Nat] /\ generation \in Nat
      /\ generation \in 0..MaxGeneration
  BY <1>1, TypesSay DEF TypeOK
<1>3. /\ worker' \in [Worker -> Reply \union {"absent", "idle"}]
      /\ \A w \in Worker : worker'[w] = IF worker[w] = "absent" THEN "idle" ELSE worker[w]
  BY <1>2 DEF Submission, EnsureWorker
<1>4. \A w \in Worker : worker'[w] = worker[w]
                        \/ {worker[w], worker'[w]} \subseteq {"idle", "absent"}
  BY <1>3
<1>5. \A w \in Worker : worker[w] = "idle" \/ worker'[w] # "idle" => worker'[w] = worker[w]
  BY <1>3
<1> QED
  BY <1>2, <1>3, <1>4, <1>5 DEF Submission

LEMMA SubmissionSwitching ==
  ASSUME Shape, NEW r \in Reply, Submission(r),
         \A q \in Reply \ {r} : phase'[q] = phase[q] \/ (phase[q] # "unsent" /\ phase'[q] = "ended")
  PROVE  Switching'
<1>1. Switching
  BY DEF Shape
<1>2. /\ born'[r] = generation /\ \A q \in Reply \ {r} : born'[q] = born[q]
      /\ generation' = generation /\ ~switching' /\ generation \in Nat
  BY <1>1, SubmissionSays DEF Switching, Submission
<1>3. ASSUME NEW q \in Reply
      PROVE  /\ phase'[q] # "unsent" => born'[q] <= generation
             /\ phase'[q] \notin {"unsent", "ended"} => born'[q] = generation
  <2>1. CASE q = r
    BY <1>2, <2>1
  <2>2. CASE q # r
    BY <1>1, <1>2, <2>2 DEF Switching
  <2> QED BY <2>1, <2>2
<1> QED
  BY <1>2, <1>3 DEF Switching

LEMMA RejectedShape ==
  ASSUME Shape, Numbers, NEW r \in Reply, Submission(r),
         phase' = [phase EXCEPT ![r] = "ended"], completed' = completed \union {r},
         PassTurns({submitted}), UNCHANGED <<queue, asleep, admitted, terminal, channel>>
  PROVE  Shape' /\ Passed({submitted})
<1>1. TypeOK /\ Queued /\ phase[r] = "unsent"
  BY DEF Shape, Submission
<1>2. phase' \in [Reply -> Phases] /\ phase'[r] = "ended"
      /\ \A q \in Reply \ {r} : phase'[q] = phase[q]
  BY PhaseMoves DEF Phases
<1>3. {submitted} \in SUBSET Nat /\ IsFiniteSet({submitted})
  BY <1>1, TypesSay, FS_Singleton
<1>4. Passed({submitted})
  BY <1>1, <1>3, TurnsPass
<1>5. CoordinatorHolds
  BY <1>1, <1>3, <1>4, CoordinatorTyped DEF CoordinatorHolds
<1>6. Queued'
  BY <1>1, <1>2, QueuedStays
<1>7. Switching'
  BY <1>2, SubmissionSwitching
<1>8. MovesOutside
  BY <1>1, <1>2, SubmissionSays, TypesSay DEF MovesOutside, Outside, Submission
<1>9. queue' \in Seq(Reply) /\ Len(queue') <= MaxQueue /\ switching' \in BOOLEAN
      /\ admitted' \in Nat /\ terminal' \in Nat /\ asleep' \subseteq Worker \union Reply
  BY <1>1, TypesSay DEF Submission
<1> QED
  BY <1>4, <1>5, <1>6, <1>7, <1>8, <1>9, SubmissionSays, OutsideShape

(* An admission in selective mode, with the replies it evicts.             *)
LEMMA AdmittedShape ==
  ASSUME Shape, Numbers, NEW r \in Reply, Submission(r), NEW out,
         \/ out = {} /\ Len(queue) < MaxQueue
         \/ Len(queue) = MaxQueue /\ \E i \in DOMAIN queue : out = {queue[i]},
         queue' = Append(Excluding(queue, out), r),
         phase' = [q \in Reply |-> IF q = r THEN "queued"
                                   ELSE IF q \in out THEN "ended" ELSE phase[q]],
         NotifyOne, admitted' = admitted + 1, terminal' = terminal + Cardinality(out),
         EndTurns(out)
  PROVE  /\ Shape' /\ \A q \in out : q \in Reply /\ Current(q) /\ phase[q] = "queued"
         /\ IsFiniteSet(out) /\ out \in SUBSET Reply
         /\ Len(queue) = MaxQueue => Len(queue') = MaxQueue
<1>1. TypeOK /\ Queued /\ phase[r] = "unsent" /\ ~switching
  BY DEF Shape, Submission
<1>2. \A q \in out : q \in Reply /\ Current(q) /\ phase[q] = "queued"
  BY QueuedSays
<1>3. out \in SUBSET Reply /\ r \notin out
  BY <1>1, <1>2
<1>4. IsFiniteSet(out) /\ Cardinality(out) \in Nat
  <2>1. CASE out = {}
    BY <2>1, FS_EmptySet
  <2>2. CASE \E i \in DOMAIN queue : out = {queue[i]}
    <3>1. PICK q : out = {q}
      BY <2>2
    <3>2. IsFiniteSet({q}) /\ Cardinality({q}) = 1
      BY FS_Singleton
    <3> QED BY <3>1, <3>2
  <2> QED BY <2>1, <2>2
<1>5. /\ phase' \in [Reply -> Phases] /\ phase'[r] = "queued"
      /\ \A q \in out : phase'[q] = "ended"
      /\ \A q \in Reply \ {r} : q \notin out => phase'[q] = phase[q]
  BY <1>1, <1>3, TypesSay DEF Phases
<1>6. /\ Passed(EndingNumbers(out)) /\ EndingNumbers(out) \in SUBSET Nat
      /\ completed' = completed \union out
      /\ channel' = IF channel \in out THEN Nobody ELSE channel
  BY <1>1, <1>2, <1>3, TurnsEnd
<1>7. CoordinatorHolds
  BY <1>1, <1>6, CoordinatorTyped DEF CoordinatorHolds
<1> DEFINE rest == Excluding(queue, out)
<1>8. queue \in Seq(Reply) /\ Len(queue) \in Nat /\ Len(queue) <= MaxQueue /\ IsInjective(queue)
      /\ MaxQueue \in Nat /\ MaxQueue > 0
  BY <1>1, TypesSay, NamesApart DEF Queued
<1>9. /\ rest \in Seq(Reply)
      /\ \A j \in DOMAIN rest : rest[j] \notin out /\ \E i \in DOMAIN queue : rest[j] = queue[i]
      /\ \A i \in DOMAIN queue : queue[i] \notin out => \E j \in DOMAIN rest : rest[j] = queue[i]
      /\ IsInjective(queue) => IsInjective(rest)
  BY <1>8, Excluded
<1>10. Len(rest) + 1 <= MaxQueue /\ (Len(queue) = MaxQueue => Len(rest) + 1 = MaxQueue)
  <2>1. CASE out = {} /\ Len(queue) < MaxQueue
    <3>1. Len(rest) = Len(queue)
      BY <1>8, <2>1, NoneExcluded
    <3> QED BY <1>8, <2>1, <3>1
  <2>2. CASE Len(queue) = MaxQueue /\ \E i \in DOMAIN queue : out = {queue[i]}
    <3>1. Len(rest) = Len(queue) - 1
      BY <1>8, <2>2, OneExcluded
    <3> QED BY <1>8, <2>2, <3>1
  <2> QED BY <2>1, <2>2
<1>11. queue' = Append(rest, r)
  OBVIOUS
<1> HIDE DEF rest
<1>12. /\ queue' \in Seq(Reply) /\ Len(queue') = Len(rest) + 1
       /\ \A i \in DOMAIN queue' : (i \in DOMAIN rest /\ queue'[i] = rest[i]) \/ queue'[i] = r
       /\ \A i \in DOMAIN rest : i \in DOMAIN queue' /\ queue'[i] = rest[i]
       /\ queue'[Len(rest) + 1] = r /\ Len(rest) + 1 \in DOMAIN queue'
  <2>1. /\ queue' \in Seq(Reply) /\ Len(queue') = Len(rest) + 1
        /\ \A i \in DOMAIN queue' :
             \/ i \in DOMAIN rest /\ queue'[i] = rest[i]
             \/ i = Len(rest) + 1 /\ i \notin DOMAIN rest /\ queue'[i] = r
        /\ \A i \in DOMAIN rest : i \in DOMAIN queue' /\ queue'[i] = rest[i]
        /\ queue'[Len(rest) + 1] = r /\ Len(rest) + 1 \in DOMAIN queue'
    BY <1>9, <1>11, Joining
  <2> QED BY <2>1
<1>13. \A j \in DOMAIN rest : rest[j] \in Reply /\ rest[j] # r /\ rest[j] \notin out
                              /\ phase[rest[j]] = "queued"
  <2>1. \A i \in DOMAIN queue : queue[i] \in Reply /\ phase[queue[i]] = "queued"
    BY <1>1, <1>8 DEF Queued
  <2>2. \A j \in DOMAIN rest : rest[j] \notin out /\ \E i \in DOMAIN queue : rest[j] = queue[i]
    BY <1>9, Zenon
  <2>3. \A j \in DOMAIN rest : rest[j] \in Reply /\ phase[rest[j]] = "queued"
    BY <2>1, <2>2, Zenon
  <2>4. phase[r] # "queued"
    BY <1>1
  <2> QED BY <2>2, <2>3, <2>4, Zenon
<1>14. Queued'
  <2>1. IsInjective(queue')
    BY <1>8, <1>9, <1>11, <1>13, JoiningInjective
  <2>2. \A i \in DOMAIN queue' : phase'[queue'[i]] = "queued"
    BY <1>5, <1>12, <1>13
  <2>3. ASSUME NEW q \in Reply, phase'[q] = "queued"
        PROVE  \E j \in DOMAIN queue' : queue'[j] = q
    <3>1. CASE q = r
      BY <1>12, <3>1
    <3>2. CASE q # r
      <4>1. q \notin out /\ phase[q] = "queued"
        BY <1>5, <2>3, <3>2
      <4>2. PICK i \in DOMAIN queue : queue[i] = q
        BY <1>1, <4>1 DEF Queued
      <4>3. PICK j \in DOMAIN rest : rest[j] = q
        BY <1>9, <4>1, <4>2
      <4> QED BY <1>12, <4>3
    <3> QED BY <3>1, <3>2
  <2> QED BY <2>1, <2>2, <2>3 DEF Queued
<1>15. Switching'
  <2>1. \A q \in Reply \ {r} : phase'[q] = phase[q] \/ (phase[q] # "unsent" /\ phase'[q] = "ended")
    BY <1>2, <1>5
  <2> QED BY <2>1, SubmissionSwitching
<1>16. MovesOutside
  <2>1. \A q \in Reply : /\ phase'[q] = phase[q] \/ {phase[q], phase'[q]} \subseteq Outside
                         /\ phase[q] = "ended" => phase'[q] = "ended"
    BY <1>1, <1>2, <1>5 DEF Outside
  <2>2. completed' \subseteq Reply
    BY <1>1, <1>3, <1>6, TypesSay
  <2> QED BY <1>5, <1>6, <2>1, <2>2, SubmissionSays DEF MovesOutside, Submission
<1>17. admitted' \in Nat /\ terminal' \in Nat /\ switching' \in BOOLEAN
       /\ asleep' \subseteq Worker \union Reply
  <2>1. admitted \in Nat /\ terminal \in Nat /\ switching \in BOOLEAN
        /\ asleep \subseteq Worker \union Reply
    BY <1>1, TypesSay
  <2>2. asleep' \subseteq asleep
    BY DEF NotifyOne
  <2>3. admitted' \in Nat /\ terminal' \in Nat
    BY <1>4, <2>1
  <2> QED BY <2>1, <2>2, <2>3 DEF Submission
<1>18. Len(queue') <= MaxQueue /\ (Len(queue) = MaxQueue => Len(queue') = MaxQueue)
  BY <1>10, <1>12
<1>19. Shape'
  BY <1>7, <1>12, <1>14, <1>15, <1>16, <1>17, <1>18, SubmissionSays, OutsideShape
<1> QED
  BY <1>2, <1>3, <1>4, <1>18, <1>19

LEMMA ExhaustiveShape ==
  ASSUME Shape, NEW r \in Reply, Submission(r), SubmitExhaustive(r)
  PROVE  Shape'
<1>1. TypeOK /\ Queued /\ phase[r] = "unsent"
  BY DEF Shape, Submission
<1>2. CoordinatorHolds
  BY CoordinatorStays DEF SubmitExhaustive
<1>3. UNCHANGED <<terminal, completed, channel>> /\ switching' \in BOOLEAN
  BY <1>1, TypesSay DEF SubmitExhaustive, Submission
<1>4. CASE Len(queue) < MaxQueue
  <2>1. Insert(r)
    BY <1>4 DEF SubmitExhaustive
  <2>2. /\ phase' \in [Reply -> Phases] /\ phase'[r] = "queued"
        /\ \A q \in Reply \ {r} : phase'[q] = phase[q]
    BY <2>1, PhaseMoves DEF Insert, Phases
  <2>3. Queued' /\ queue' \in Seq(Reply) /\ Len(queue') = Len(queue) + 1
    BY <1>1, <2>1, <2>2, QueuedJoined DEF Insert
  <2>4. Len(queue') <= MaxQueue
    BY <1>1, <1>4, <2>3, TypesSay, NamesApart
  <2>5. Switching'
    BY <2>2, SubmissionSwitching
  <2>6. MovesOutside
    BY <1>1, <1>3, <2>2, SubmissionSays, TypesSay DEF MovesOutside, Outside, Submission
  <2>7. asleep' = {} /\ admitted' \in Nat
    BY <1>1, <2>1, TypesSay DEF Insert
  <2> QED
    BY <1>1, <1>2, <1>3, <2>3, <2>4, <2>5, <2>6, <2>7, TypesSay, SubmissionSays, OutsideShape
<1>5. CASE ~(Len(queue) < MaxQueue)
  <2>1. /\ phase' = [phase EXCEPT ![r] = "putting"] /\ asleep' = asleep \union {r}
        /\ UNCHANGED <<queue, admitted>>
    BY <1>5 DEF SubmitExhaustive
  <2>2. /\ phase' \in [Reply -> Phases] /\ phase'[r] = "putting"
        /\ \A q \in Reply \ {r} : phase'[q] = phase[q]
    BY <2>1, PhaseMoves DEF Phases
  <2>3. Queued'
    BY <1>1, <2>1, <2>2, QueuedStays
  <2>4. Switching'
    BY <2>2, SubmissionSwitching
  <2>5. MovesOutside
    BY <1>1, <1>3, <2>2, SubmissionSays, TypesSay DEF MovesOutside, Outside, Submission
  <2>6. asleep' \subseteq Worker \union Reply
    BY <1>1, <2>1, TypesSay
  <2> QED
    BY <1>1, <1>2, <1>3, <2>1, <2>3, <2>4, <2>5, <2>6, TypesSay, SubmissionSays, OutsideShape
<1> QED
  BY <1>4, <1>5

(* The ways a submission goes.                                             *)
LEMMA SubmitGoes ==
  ASSUME Shape, NEW r \in Reply, Submit(r)
  PROVE  /\ Submission(r)
         /\ \/ /\ phase' = [phase EXCEPT ![r] = "ended"] /\ completed' = completed \union {r}
               /\ PassTurns({submitted}) /\ UNCHANGED <<queue, asleep, admitted, terminal, channel>>
            \/ \E out :
                 /\ \/ out = {} /\ Len(queue) < MaxQueue
                    \/ Len(queue) = MaxQueue /\ \E i \in DOMAIN queue : out = {queue[i]}
                 /\ ~exhaustive
                 /\ queue' = Append(Excluding(queue, out), r)
                 /\ phase' = [q \in Reply |-> IF q = r THEN "queued"
                                              ELSE IF q \in out THEN "ended" ELSE phase[q]]
                 /\ NotifyOne /\ admitted' = admitted + 1
                 /\ terminal' = terminal + Cardinality(out) /\ EndTurns(out)
            \/ SubmitExhaustive(r)
<1>1. Submission(r)
  BY DEF Submit, Submission
<1>2. CASE SubmitExhaustive(r)
  BY <1>1, <1>2
<1>3. CASE SubmitSelective(r) /\ Rejected(r)
  BY <1>1, <1>3 DEF SubmitSelective
<1>4. CASE SubmitSelective(r) /\ ~Rejected(r)
  <2> DEFINE out == Victims(r)
  <2>1. /\ ~exhaustive /\ queue' = Append(Excluding(queue, out), r)
        /\ phase' = [q \in Reply |-> IF q = r THEN "queued"
                                     ELSE IF q \in out THEN "ended" ELSE phase[q]]
        /\ NotifyOne /\ admitted' = admitted + 1
        /\ terminal' = terminal + Cardinality(out) /\ EndTurns(out)
    BY <1>4 DEF SubmitSelective
  <2>2. \/ out = {} /\ Len(queue) < MaxQueue
        \/ Len(queue) = MaxQueue /\ \E i \in DOMAIN queue : out = {queue[i]}
    BY <1>4, VictimQueued
  <2> HIDE DEF out
  <2> QED BY <1>1, <2>1, <2>2
<1> QED
  BY <1>2, <1>3, <1>4 DEF Submit

LEMMA SubmitShape ==
  ASSUME Shape, Numbers, NEW r \in Reply, Submit(r)
  PROVE  Shape'
BY SubmitGoes, RejectedShape, AdmittedShape, ExhaustiveShape

-----------------------------------------------------------------------------
(* Shape: a switch of rooms.                                               *)
LEMMA RangeQueued ==
  ASSUME Shape
  PROVE  /\ Range(queue) = {q \in Reply : phase[q] = "queued"}
         /\ \A q \in Range(queue) : Current(q)
         /\ IsFiniteSet(Range(queue)) /\ Cardinality(Range(queue)) = Len(queue)
<1>1. queue \in Seq(Reply) /\ Queued /\ IsInjective(queue)
  BY TypesSay DEF Shape, Queued
<1>2. \A i \in DOMAIN queue : /\ queue[i] \in Reply /\ Current(queue[i])
                              /\ phase[queue[i]] = "queued"
  BY QueuedSays
<1>3. Range(queue) = {q \in Reply : phase[q] = "queued"}
  BY <1>1, <1>2 DEF Range, Queued
<1>4. \A q \in Range(queue) : Current(q)
  BY <1>2 DEF Range
<1> QED
  BY <1>1, <1>3, <1>4, RangeCount

LEMMA SwitchBeginsShape ==
  ASSUME Shape, Numbers, SwitchBegins
  PROVE  /\ Shape' /\ \A r \in Reply : phase'[r] = IF phase[r] \in {"putting", "queued"}
                                                   THEN "ended" ELSE phase[r]
<1>1. TypeOK /\ Queued /\ Switching
  BY DEF Shape
<1>2. /\ generation < MaxGeneration /\ switching' = TRUE /\ terminal' = terminal + Len(queue)
      /\ queue' = <<>> /\ asleep' = {} /\ EndTurns(Range(queue))
      /\ UNCHANGED <<exhaustive, generation, submitted, worker, admitted, born, sequence, retried,
                     acquired, waiters, conversation, guest>>
  BY DEF SwitchBegins
<1>3. /\ phase' \in [Reply -> Phases]
      /\ \A r \in Reply : phase'[r] = IF phase[r] \in {"putting", "queued"}
                                      THEN "ended" ELSE phase[r]
  <2>1. phase' = [r \in Reply |-> IF phase[r] \in {"putting", "queued"} THEN "ended" ELSE phase[r]]
    BY DEF SwitchBegins
  <2> QED BY <1>1, <2>1, TypesSay DEF Phases
<1>4. /\ Passed(EndingNumbers(Range(queue))) /\ EndingNumbers(Range(queue)) \in SUBSET Nat
      /\ completed' = completed \union Range(queue)
      /\ channel' = IF channel \in Range(queue) THEN Nobody ELSE channel
  <2>1. Range(queue) \in SUBSET Reply
    BY RangeQueued
  <2> QED BY <1>1, <1>2, <2>1, RangeQueued, TurnsEnd
<1>5. CoordinatorHolds
  BY <1>1, <1>4, CoordinatorTyped DEF CoordinatorHolds
<1>6. Queued'
  BY <1>2, <1>3 DEF Queued, IsInjective
<1>7. Switching'
  BY <1>1, <1>2, <1>3 DEF Switching
<1>8. MovesOutside
  <2>1. \A r \in Range(queue) : r \in Reply /\ phase'[r] = "ended"
    BY <1>3, RangeQueued
  <2>2. completed' \subseteq Reply
    BY <1>1, <1>4, <2>1, TypesSay
  <2>3. worker' \in [Worker -> Reply \union {"absent", "idle"}]
    BY <1>1, <1>2, TypesSay
  <2>4. \A r \in Reply : /\ phase'[r] = phase[r] \/ {phase[r], phase'[r]} \subseteq Outside
                         /\ phase[r] = "ended" => phase'[r] = "ended"
    BY <1>3 DEF Outside
  <2> QED BY <1>2, <1>3, <1>4, <2>1, <2>2, <2>3, <2>4 DEF MovesOutside
<1>9. queue' \in Seq(Reply) /\ Len(queue') <= MaxQueue
  BY <1>2, NamesApart
<1>10. generation' \in 0..MaxGeneration /\ terminal' \in Nat
  BY <1>1, <1>2, TypesSay DEF TypeOK
<1> QED
  BY <1>1, <1>2, <1>3, <1>5, <1>6, <1>7, <1>8, <1>9, <1>10, TypesSay, OutsideShape

(* When the workers are gone, every reply is unsent or over.               *)
LEMMA SwitchEndsShape ==
  ASSUME Shape, SwitchEnds
  PROVE  /\ Shape' /\ \A r \in Reply : phase[r] \in {"unsent", "ended"}
<1>1. TypeOK /\ Queued /\ Switching /\ Serving
  BY DEF Shape
<1>2. /\ switching /\ switching' = FALSE /\ generation' = generation + 1 /\ submitted' = 0
      /\ nextTurn' = 0 /\ activeTurn' = NoTurn /\ skipped' = {}
      /\ UNCHANGED <<exhaustive, queue, asleep, worker, admitted, terminal, phase, born, sequence,
                     retried, acquired, completed, waiters, channel, conversation, guest>>
  BY DEF SwitchEnds, replyVars, sharedVars
<1>3. \A r \in Reply : phase[r] \in {"unsent", "ended"}
  <2> SUFFICES ASSUME NEW r \in Reply
               PROVE  phase[r] \in {"unsent", "ended"}
    OBVIOUS
  <2>1. phase[r] \notin Working
    <3>1. \A w \in Worker : worker[w] # r
      BY NamesApart DEF SwitchEnds
    <3> QED BY <1>1, <3>1 DEF Serving
  <2>2. phase[r] # "queued"
    BY <1>1, <1>2 DEF Queued, Switching
  <2>3. phase[r] # "putting"
    BY <1>1, <1>2 DEF Switching
  <2>4. phase[r] \in Phases
    BY <1>1, TypesSay
  <2> QED BY <2>1, <2>2, <2>3, <2>4 DEF Phases, Working
<1>4. CoordinatorHolds
  BY <1>2 DEF CoordinatorHolds
<1>5. Queued'
  BY <1>1, <1>2, QueuedStays
<1>6. Switching'
  <2>1. generation \in Nat /\ \A r \in Reply : born[r] \in Nat
    BY <1>1, TypesSay
  <2>2. \A r \in Reply : phase[r] # "unsent" => born[r] <= generation + 1
    BY <1>1, <2>1 DEF Switching
  <2> QED BY <1>2, <1>3, <2>1, <2>2 DEF Switching
<1>7. MovesOutside
  BY <1>1, <1>2, TypesSay DEF MovesOutside
<1>8. generation' \in 0..MaxGeneration
  BY <1>1, <1>2, NamesApart DEF Switching
<1> QED
  BY <1>1, <1>2, <1>3, <1>4, <1>5, <1>6, <1>7, <1>8, TypesSay, OutsideShape

(* Every step keeps the shape.                                             *)
LEMMA WorkerStepShape ==
  ASSUME Shape, Numbers, NEW w \in Worker, WorkerStep(w)
  PROVE  Shape'
<1>1. CASE FallsAsleep(w)
  BY <1>1, FallsAsleepShape
<1>2. CASE WorkerStops(w)
  BY <1>2, WorkerStopsShape
<1>3. CASE \E expired \in BOOLEAN : Takes(w, expired)
  BY <1>3, ExpiredShape, TakenShape
<1>4. ASSUME NEW r \in Reply,
             \/ Converse(w, r) \/ Generates(w, r) \/ Asks(w, r) \/ Speaks(w, r) \/ Spoke(w, r)
             \/ Succeeds(w, r) \/ Retries(w, r) \/ Fails(w, r)
             \/ UnwindGraph(w, r) \/ UnwindTurn(w, r)
      PROVE  Shape'
  BY <1>4, ConverseMoves, GeneratesMoves, AsksMoves, SpeaksMoves, SpokeMoves, SucceedsMoves,
     RetriesMoves, FailsMoves, UnwindGraphMoves, UnwindTurnMoves
<1> QED
  BY <1>1, <1>2, <1>3, <1>4 DEF WorkerStep

LEMMA ShapeStep ==
  ASSUME Shape, Numbers, [Next]_vars
  PROVE  Shape'
<1>1. ASSUME NEW r \in Reply, Submit(r) \/ PutAgain(r)
      PROVE  Shape'
  BY <1>1, SubmitShape, PutAgainShape
<1>2. ASSUME NEW w \in Worker, WorkerStep(w)
      PROVE  Shape'
  BY <1>2, WorkerStepShape
<1>3. ASSUME NEW g \in Guest, GuestStep(g)
      PROVE  Shape'
  BY <1>3, GuestStepMoves
<1>4. CASE SwitchBegins \/ SwitchEnds
  BY <1>4, SwitchBeginsShape, SwitchEndsShape
<1>5. CASE UNCHANGED vars
  BY <1>5 DEF vars, runtimeVars, replyVars, coordinatorVars, sharedVars, Shape, TypeOK, Queued,
     Waiting, Conversing, OnChannel, Serving, Switching, Media
<1> QED
  BY <1>1, <1>2, <1>3, <1>4, <1>5 DEF Next

-----------------------------------------------------------------------------
(* The order of the turns.                                                 *)
Owning == {"asking", "speaking", "unwinding"}

(* The numbers a step gives: none, or the next one to one reply.           *)
Numbered(N) ==
  /\ generation' = generation /\ N \in SUBSET Reply
  /\ (N = {} /\ submitted' = submitted) \/ submitted' = submitted + 1
  /\ \A q, r \in N : q = r
  /\ \A r \in N : /\ sequence'[r] = submitted /\ phase[r] = "unsent"
                  /\ phase'[r] \notin {"asking", "speaking"}
  /\ \A r \in Reply \ N : /\ sequence'[r] = sequence[r] /\ born'[r] = born[r]
                          /\ phase'[r] = "unsent" <=> phase[r] = "unsent"

LEMMA TurnsMove ==
  ASSUME Shape, Numbers, Turns, Shape', NEW N, Numbered(N), NEW S \in SUBSET Nat, Passed(S),
         \A k \in S : k < submitted', completed \subseteq completed',
         \A r \in Reply : Current(r)' /\ sequence'[r] \in S => r \in completed',
         \A r \in Reply \ N : phase'[r] \in {"asking", "speaking"} =>
            phase[r] \in {"asking", "speaking"} /\ sequence[r] \notin S,
         \A r \in Reply \ N : phase[r] \in Owning /\ r \notin completed /\ sequence[r] \notin S =>
            phase'[r] \in Owning /\ r \notin completed'
  PROVE  Numbers' /\ Turns'
<1>1. /\ nextTurn \in Nat /\ submitted \in Nat /\ skipped \subseteq Nat
      /\ \A r \in Reply : sequence[r] \in Nat
      /\ nextTurn' \in Nat /\ submitted' \in Nat /\ \A r \in Reply : sequence'[r] \in Nat
  <2>1. TypeOK /\ TypeOK'
    BY DEF Shape
  <2>2. nextTurn \in Nat /\ submitted \in Nat /\ skipped \subseteq Nat
        /\ \A r \in Reply : sequence[r] \in Nat
    BY <2>1, TypesSay
  <2>3. nextTurn' \in Nat /\ submitted' \in Nat /\ \A r \in Reply : sequence'[r] \in Nat
    BY <2>1 DEF TypeOK
  <2> QED BY <2>2, <2>3
<1>2. \A r \in Reply \ N : Current(r)' => Current(r)
  BY DEF Numbered, Current
<1>3. submitted <= submitted' /\ \A r \in N : r \in Reply /\ submitted < submitted'
  BY <1>1 DEF Numbered
<1>4. \A r \in Reply : Current(r)' => sequence'[r] < submitted'
  BY <1>1, <1>2, <1>3 DEF Numbered, Numbers
<1>5. ASSUME NEW q \in Reply, NEW r \in Reply, Current(q)', Current(r)', sequence'[q] = sequence'[r]
      PROVE  q = r
  <2>1. CASE q \in N /\ r \in N
    BY <2>1 DEF Numbered
  <2>2. CASE q \notin N /\ r \notin N
    BY <1>2, <1>5, <2>2 DEF Numbered, Numbers
  <2>3. CASE q \in N /\ r \notin N
    <3>1. sequence[r] = submitted /\ Current(r)
      BY <1>2, <1>5, <2>3 DEF Numbered
    <3> QED BY <1>1, <3>1 DEF Numbers
  <2>4. CASE q \notin N /\ r \in N
    <3>1. sequence[q] = submitted /\ Current(q)
      BY <1>2, <1>5, <2>4 DEF Numbered
    <3> QED BY <1>1, <3>1 DEF Numbers
  <2> QED BY <2>1, <2>2, <2>3, <2>4
<1>6. \A k \in skipped \union S : k \in Nat /\ k < submitted'
  BY <1>1, <1>3 DEF Numbers
<1>7. nextTurn' <= submitted'
  <2>1. CASE nextTurn' = nextTurn
    BY <1>1, <1>3, <2>1 DEF Numbers
  <2>2. CASE nextTurn' # nextTurn
    <3>0. nextTurn <= nextTurn'
      BY DEF Passed
    <3>1. PICK k \in Nat : nextTurn' = k + 1
      <4>1. \A m, n \in Nat : m <= n /\ n # m => \E k \in Nat : n = k + 1
        <5> SUFFICES ASSUME NEW m \in Nat, NEW n \in Nat, m <= n, n # m
                     PROVE  n - 1 \in Nat /\ n = (n - 1) + 1
          OBVIOUS
        <5> QED OBVIOUS
      <4> QED BY <1>1, <2>2, <3>0, <4>1
    <3>2. k \in skipped \union S
      BY <1>1, <2>2, <3>0, <3>1 DEF Passed
    <3>3. k < submitted'
      BY <1>6, <3>2
    <3> QED BY <1>1, <3>1, <3>3
  <2> QED BY <2>1, <2>2
<1>8. \A k \in skipped' : nextTurn' < k /\ k < submitted'
  BY <1>6 DEF Passed
<1>9. Numbers'
  BY <1>4, <1>5, <1>7, <1>8 DEF Numbers
<1>10. ASSUME NEW r \in Reply, Current(r)',
              sequence'[r] < nextTurn' \/ sequence'[r] \in skipped'
       PROVE  r \in completed'
  <2>1. CASE sequence'[r] \in S
    BY <1>10, <2>1
  <2>2. CASE sequence'[r] \notin S
    <3>1. sequence'[r] \in skipped \/ sequence'[r] < nextTurn
      BY <1>1, <1>10, <2>2 DEF Passed
    <3>2. sequence'[r] < submitted
      BY <1>1, <3>1 DEF Numbers
    <3>3. r \notin N
      BY <1>1, <3>2 DEF Numbered
    <3>4. Current(r) /\ sequence'[r] = sequence[r]
      BY <1>2, <1>10, <3>3 DEF Numbered
    <3> QED BY <3>1, <3>4 DEF Turns
  <2> QED BY <2>1, <2>2
<1>11. ASSUME activeTurn' # NoTurn
       PROVE  /\ activeTurn' = nextTurn'
              /\ \E r \in Reply : /\ phase'[r] \in {"asking", "speaking", "unwinding"}
                                  /\ r \notin completed' /\ sequence'[r] = activeTurn'
  <2>1. nextTurn \notin S /\ activeTurn' = activeTurn /\ nextTurn' = nextTurn
    BY <1>11 DEF Passed
  <2>2. activeTurn = nextTurn
    BY <1>11, <2>1 DEF Turns
  <2>3. PICK r \in Reply : /\ phase[r] \in {"asking", "speaking", "unwinding"}
                           /\ r \notin completed /\ sequence[r] = activeTurn
    BY <1>11, <2>1 DEF Turns
  <2>4. r \notin N
    BY <2>3 DEF Numbered
  <2>5. phase'[r] \in Owning /\ r \notin completed' /\ sequence'[r] = sequence[r]
    BY <2>1, <2>2, <2>3, <2>4 DEF Numbered, Owning
  <2> QED BY <2>1, <2>2, <2>3, <2>5 DEF Owning
<1>12. ASSUME NEW r \in Reply, phase'[r] \in {"asking", "speaking"}
       PROVE  sequence'[r] = nextTurn' /\ activeTurn' = nextTurn'
  <2>1. r \notin N
    BY <1>12 DEF Numbered
  <2>2. phase[r] \in {"asking", "speaking"} /\ sequence[r] \notin S /\ sequence'[r] = sequence[r]
    BY <1>12, <2>1 DEF Numbered
  <2>3. sequence[r] = nextTurn /\ activeTurn = nextTurn
    BY <2>2 DEF Turns
  <2> QED BY <2>2, <2>3 DEF Passed
<1>13. Turns'
  BY <1>10, <1>11, <1>12 DEF Turns
<1> QED
  BY <1>9, <1>13

(* No turn ends.                                                           *)
LEMMA TurnsStay ==
  ASSUME Shape, Numbers, Turns, Shape', NEW N, Numbered(N), UNCHANGED <<coordinatorVars, completed>>,
         \A r \in Reply \ N : phase'[r] \in {"asking", "speaking"} => phase[r] \in {"asking", "speaking"},
         \A r \in Reply \ N : phase[r] \in Owning /\ r \notin completed => phase'[r] \in Owning
  PROVE  Numbers' /\ Turns'
<1>1. Passed({})
  BY NothingPassed DEF Shape
<1>2. {} \in SUBSET Nat /\ completed \subseteq completed' /\ completed' = completed
  OBVIOUS
<1>3. \A r \in Reply \ N : phase[r] \in Owning /\ r \notin completed =>
            phase'[r] \in Owning /\ r \notin completed'
  BY <1>2
<1> QED
  BY <1>1, <1>2, <1>3, TurnsMove

(* The turns of the replies in R end.                                      *)
LEMMA TurnsEnded ==
  ASSUME Shape, Numbers, Turns, Shape', NEW N, Numbered(N), NEW R \in SUBSET Reply,
         \A r \in R : Current(r), EndTurns(R),
         \A r \in R : phase'[r] \notin {"asking", "speaking"},
         \A r \in (Reply \ N) \ R : phase'[r] = phase[r]
                                    \/ (phase[r] \notin Owning /\ phase'[r] \notin Owning)
  PROVE  Numbers' /\ Turns'
<1> DEFINE S == EndingNumbers(R)
<1>1. TypeOK /\ submitted \in Nat
  BY TypesSay DEF Shape
<1>2. /\ Passed(S) /\ \A k \in S : k \in Nat /\ k < submitted
      /\ completed' = completed \union R
  BY <1>1, TurnsEnd
<1>3. \A k \in S : \E q \in R : q \notin completed /\ sequence[q] = k
  BY DEF EndingNumbers
<1>4. \A r \in R : r \notin completed => sequence[r] \in S
  BY DEF EndingNumbers
<1> HIDE DEF S
<1>5. S \in SUBSET Nat /\ \A k \in S : k < submitted'
  <2>1. submitted' \in {submitted, submitted + 1}
    BY DEF Numbered
  <2> QED BY <1>1, <1>2, <2>1
<1>6. \A r \in Reply : Current(r) /\ sequence[r] \in S => r \in R
  BY <1>3 DEF Numbers
<1>7. \A r \in Reply : phase[r] \in Owning => Current(r)
  BY DEF Shape, Switching, Owning, Current
<1>8. ASSUME NEW r \in Reply, Current(r)', sequence'[r] \in S
      PROVE  r \in completed'
  <2>1. r \notin N
    BY <1>1, <1>2, <1>8 DEF Numbered
  <2>2. Current(r) /\ sequence'[r] = sequence[r]
    BY <1>8, <2>1 DEF Numbered, Current
  <2> QED BY <1>2, <1>6, <1>8, <2>2
<1>9. ASSUME NEW r \in Reply \ N, phase'[r] \in {"asking", "speaking"}
      PROVE  phase[r] \in {"asking", "speaking"} /\ sequence[r] \notin S
  <2>1. r \notin R
    BY <1>9
  <2>2. phase'[r] = phase[r]
    BY <1>9, <2>1 DEF Owning
  <2> QED BY <1>6, <1>7, <1>9, <2>1, <2>2 DEF Owning
<1>10. ASSUME NEW r \in Reply \ N, phase[r] \in Owning, r \notin completed, sequence[r] \notin S
       PROVE  phase'[r] \in Owning /\ r \notin completed'
  <2>1. r \notin R
    BY <1>4, <1>10
  <2> QED BY <1>2, <1>10, <2>1
<1> QED
  BY <1>2, <1>5, <1>8, <1>9, <1>10, TurnsMove

LEMMA MovesNumbered ==
  ASSUME Shape, NEW w \in Worker, NEW r \in Reply, NEW p, Moves(w, r, p)
  PROVE  /\ Numbered({}) /\ phase'[r] = p /\ \A q \in Reply \ {r} : phase'[q] = phase[q]
<1>1. phase'[r] = p /\ \A q \in Reply \ {r} : phase'[q] = phase[q]
  BY WorkerOwns DEF Moves
<1>2. phase[r] # "unsent" /\ p # "unsent"
  BY WorkerOwns DEF Moves, Working
<1>3. \A q \in Reply : phase'[q] = "unsent" <=> phase[q] = "unsent"
  BY <1>1, <1>2
<1> QED
  BY <1>1, <1>3 DEF Numbered, Moves

(* A worker moves its reply on and no turn ends.                           *)
LEMMA WorkTurnsStay ==
  ASSUME Shape, Numbers, Turns, Shape', NEW w \in Worker, NEW r \in Reply, NEW p, Moves(w, r, p),
         UNCHANGED <<coordinatorVars, completed>>,
         p \in {"asking", "speaking"} => phase[r] \in {"asking", "speaking"},
         phase[r] \in Owning => p \in Owning
  PROVE  Numbers' /\ Turns'
<1>1. Numbered({}) /\ phase'[r] = p /\ \A q \in Reply \ {r} : phase'[q] = phase[q]
  BY MovesNumbered
<1>2. \A q \in Reply : phase'[q] \in {"asking", "speaking"} => phase[q] \in {"asking", "speaking"}
  BY <1>1
<1>3. \A q \in Reply : phase[q] \in Owning /\ q \notin completed => phase'[q] \in Owning
  BY <1>1
<1> QED
  BY <1>1, <1>2, <1>3, TurnsStay

(* A worker ends the turn of its reply.                                    *)
LEMMA WorkTurnsEnd ==
  ASSUME Shape, Numbers, Turns, Shape', NEW w \in Worker, NEW r \in Reply, NEW p, Moves(w, r, p),
         EndTurns({r}), p \notin {"asking", "speaking"}
  PROVE  Numbers' /\ Turns'
<1>1. Numbered({}) /\ phase'[r] = p /\ \A q \in Reply \ {r} : phase'[q] = phase[q]
  BY MovesNumbered
<1>2. Current(r)
  BY WorkerOwns DEF Moves
<1>3. {r} \in SUBSET Reply /\ (\A q \in {r} : Current(q))
      /\ \A q \in {r} : phase'[q] \notin {"asking", "speaking"}
  BY <1>1, <1>2
<1>4. \A q \in (Reply \ {}) \ {r} : phase'[q] = phase[q]
                                    \/ (phase[q] \notin Owning /\ phase'[q] \notin Owning)
  BY <1>1
<1> QED
  BY <1>1, <1>3, <1>4, TurnsEnded

(* A reply asks for the channel only with the number that is next: one     *)
(* that is behind it has ended its turn, and does not come back.           *)
LEMMA AsksTurns ==
  ASSUME Shape, Numbers, Turns, NEW w \in Worker, NEW r \in Reply, Asks(w, r)
  PROVE  Numbers' /\ Turns'
<1>1. /\ phase[r] = "ordering" /\ Ordered(r) /\ Current(r) /\ r \notin completed
      /\ sequence[r] \in Nat /\ nextTurn \in Nat
  BY WorkerOwns, TypesSay DEF Asks, Works, Shape, Media
<1>2. sequence[r] = nextTurn /\ activeTurn \in {NoTurn, nextTurn}
  BY <1>1 DEF Turns, Ordered
<1>3. /\ activeTurn' = nextTurn /\ nextTurn # NoTurn
      /\ UNCHANGED <<nextTurn, skipped, completed, submitted, sequence, born, generation>>
      /\ phase'[r] = "asking" /\ \A q \in Reply \ {r} : phase'[q] = phase[q]
  BY <1>1, <1>2, WorkerOwns DEF Asks, Works, runtimeVars, NoTurn
<1>4. \A q \in Reply : Current(q)' <=> Current(q)
  BY <1>1, <1>3 DEF Current
<1>5. Numbers'
  BY <1>3, <1>4 DEF Numbers
<1>6. \A q \in Reply : Current(q)' /\ (sequence'[q] < nextTurn' \/ sequence'[q] \in skipped')
        => q \in completed'
  BY <1>3, <1>4 DEF Turns
<1>7. \A q \in Reply : phase'[q] \in {"asking", "speaking"}
        => sequence'[q] = nextTurn' /\ activeTurn' = nextTurn'
  BY <1>2, <1>3 DEF Turns
<1>8. \E q \in Reply : /\ phase'[q] \in {"asking", "speaking", "unwinding"}
                       /\ q \notin completed' /\ sequence'[q] = activeTurn'
  BY <1>1, <1>2, <1>3
<1> QED
  BY <1>3, <1>5, <1>6, <1>7, <1>8 DEF Turns

LEMMA WorkTurns ==
  ASSUME Shape, Numbers, Turns, NEW w \in Worker, NEW r \in Reply,
         \/ Converse(w, r) \/ Generates(w, r) \/ Asks(w, r) \/ Speaks(w, r) \/ Spoke(w, r)
         \/ Succeeds(w, r) \/ Retries(w, r) \/ Fails(w, r)
         \/ UnwindGraph(w, r) \/ UnwindTurn(w, r)
  PROVE  Numbers' /\ Turns'
<1>1. CASE Converse(w, r)
  <2>1. phase[r] \notin Owning /\ UNCHANGED <<coordinatorVars, completed>>
    BY <1>1 DEF Converse, Owning
  <2> QED BY <1>1, <2>1, ConverseMoves, WorkTurnsStay
<1>2. CASE Generates(w, r)
  <2>1. phase[r] \notin Owning /\ UNCHANGED <<coordinatorVars, completed>>
    BY <1>2 DEF Generates, Owning
  <2> QED BY <1>2, <2>1, GeneratesMoves, WorkTurnsStay
<1>3. CASE Asks(w, r)
  BY <1>3, AsksTurns
<1>4. CASE Speaks(w, r)
  <2>1. phase[r] = "asking" /\ UNCHANGED <<coordinatorVars, completed>> /\ "speaking" \in Owning
    BY <1>4 DEF Speaks, Owning
  <2> QED BY <1>4, <2>1, SpeaksMoves, WorkTurnsStay
<1>5. CASE Spoke(w, r)
  BY <1>5, SpokeMoves, WorkTurnsEnd DEF Spoke
<1>6. CASE Succeeds(w, r)
  <2>1. phase[r] \notin Owning /\ UNCHANGED <<coordinatorVars, completed>>
    BY <1>6 DEF Succeeds, Owning
  <2> QED BY <1>6, <2>1, SucceedsMoves, WorkTurnsStay
<1>7. CASE Retries(w, r)
  <2>1. phase[r] \notin Owning /\ UNCHANGED <<coordinatorVars, completed>>
    BY <1>7 DEF Retries, CanFail, MayRetry, Owning, Shape, Media
  <2> QED BY <1>7, <2>1, RetriesMoves, WorkTurnsStay
<1>8. CASE Fails(w, r)
  BY <1>8, FailsMoves, WorkTurnsEnd DEF Fails
<1>9. CASE UnwindGraph(w, r)
  <2>1. UNCHANGED <<coordinatorVars, completed>> /\ "unwinding" \in Owning
    BY <1>9 DEF UnwindGraph, Owning
  <2> QED BY <1>9, <2>1, UnwindGraphMoves, WorkTurnsStay
<1>10. CASE UnwindTurn(w, r)
  BY <1>10, UnwindTurnMoves, WorkTurnsEnd DEF UnwindTurn
<1> QED
  BY <1>1, <1>2, <1>3, <1>4, <1>5, <1>6, <1>7, <1>8, <1>9, <1>10

(* The replies outside the workers.                                        *)
LEMMA TakesTurns ==
  ASSUME Shape, Numbers, Turns, NEW w \in Worker, NEW expired \in BOOLEAN, Takes(w, expired)
  PROVE  Numbers' /\ Turns'
<1> DEFINE r == Chosen
<1>0. /\ UNCHANGED <<generation, submitted, born, sequence>>
  BY DEF Takes
<1>1. CASE expired = TRUE
  <2>1. /\ Shape' /\ r \in Reply /\ phase[r] = "queued" /\ Current(r)
        /\ phase' = [phase EXCEPT ![r] = "ended"] /\ EndTurns({r})
    BY <1>1, ExpiredShape
  <2> HIDE DEF r
  <2>2. phase'[r] = "ended" /\ \A q \in Reply \ {r} : phase'[q] = phase[q]
    BY <2>1, PhaseMoves DEF Phases
  <2>3. Numbered({})
    BY <1>0, <2>1, <2>2 DEF Numbered
  <2>4. {r} \in SUBSET Reply /\ (\A q \in {r} : Current(q))
        /\ \A q \in {r} : phase'[q] \notin {"asking", "speaking"}
    BY <2>1, <2>2
  <2>5. \A q \in (Reply \ {}) \ {r} : phase'[q] = phase[q]
                                      \/ (phase[q] \notin Owning /\ phase'[q] \notin Owning)
    BY <2>2
  <2> QED BY <2>1, <2>3, <2>4, <2>5, TurnsEnded
<1>2. CASE expired = FALSE
  <2>1. /\ Shape' /\ r \in Reply /\ phase[r] = "queued"
        /\ phase' = [phase EXCEPT ![r] = "composing"]
    BY <1>2, TakenShape
  <2>2. UNCHANGED <<coordinatorVars, completed>>
    BY <1>2 DEF Takes
  <2> HIDE DEF r
  <2>3. phase'[r] = "composing" /\ \A q \in Reply \ {r} : phase'[q] = phase[q]
    BY <2>1, PhaseMoves DEF Phases
  <2>4. Numbered({})
    BY <1>0, <2>1, <2>3 DEF Numbered
  <2>5. \A q \in Reply : /\ phase'[q] \in {"asking", "speaking"} => phase[q] \in {"asking", "speaking"}
                         /\ phase[q] \in Owning /\ q \notin completed => phase'[q] \in Owning
    BY <2>1, <2>3 DEF Owning
  <2> QED BY <2>1, <2>2, <2>4, <2>5, TurnsStay
<1> QED
  BY <1>1, <1>2

LEMMA QuietTurns ==
  ASSUME Shape, Numbers, Turns, Shape',
         UNCHANGED <<generation, submitted, replyVars, coordinatorVars>>
  PROVE  Numbers' /\ Turns'
<1>1. Numbered({}) /\ UNCHANGED <<phase, completed, coordinatorVars>>
  BY DEF Numbered, replyVars
<1> QED
  BY <1>1, TurnsStay

LEMMA PutAgainTurns ==
  ASSUME Shape, Numbers, Turns, NEW r \in Reply, PutAgain(r)
  PROVE  Numbers' /\ Turns'
<1>1. Shape' /\ phase[r] = "putting"
      /\ UNCHANGED <<generation, submitted, born, sequence, completed, coordinatorVars>>
  BY PutAgainShape DEF PutAgain
<1>2. phase' = phase \/ phase' = [phase EXCEPT ![r] = "queued"]
  BY DEF PutAgain, Insert
<1>3. \A q \in Reply : phase'[q] = phase[q] \/ (phase[q] = "putting" /\ phase'[q] = "queued")
  BY <1>1, <1>2, PhaseMoves DEF Phases
<1>4. Numbered({})
  BY <1>1, <1>3 DEF Numbered
<1>5. \A q \in Reply : /\ phase'[q] \in {"asking", "speaking"} => phase[q] \in {"asking", "speaking"}
                       /\ phase[q] \in Owning /\ q \notin completed => phase'[q] \in Owning
  BY <1>3 DEF Owning
<1> QED
  BY <1>1, <1>4, <1>5, TurnsStay

LEMMA SubmitTurns ==
  ASSUME Shape, Numbers, Turns, NEW r \in Reply, Submit(r)
  PROVE  Numbers' /\ Turns'
<1>1. Shape' /\ Submission(r) /\ phase[r] = "unsent" /\ submitted \in Nat
  BY SubmitShape, SubmitGoes, TypesSay DEF Submission, Shape
<1>2. ASSUME phase'[r] \notin {"asking", "speaking"},
             \A q \in Reply \ {r} : phase'[q] = "unsent" <=> phase[q] = "unsent"
      PROVE  Numbered({r})
  <2>1. sequence'[r] = submitted
        /\ \A q \in Reply \ {r} : born'[q] = born[q] /\ sequence'[q] = sequence[q]
    BY <1>1, SubmissionSays
  <2> QED BY <1>1, <1>2, <2>1 DEF Numbered, Submission
<1>3. CASE /\ phase' = [phase EXCEPT ![r] = "ended"] /\ completed' = completed \union {r}
           /\ PassTurns({submitted}) /\ UNCHANGED <<queue, asleep, admitted, terminal, channel>>
  <2>1. Passed({submitted}) /\ {submitted} \in SUBSET Nat
    BY <1>1, <1>3, RejectedShape
  <2>2. phase'[r] = "ended" /\ \A q \in Reply \ {r} : phase'[q] = phase[q]
    BY <1>3, PhaseMoves DEF Phases
  <2>3. Numbered({r})
    BY <1>2, <2>2
  <2>4. \A k \in {submitted} : k < submitted'
    BY <1>1 DEF Submission
  <2>5. \A q \in Reply \ {r} : Current(q)' => Current(q) /\ sequence'[q] = sequence[q]
    BY <2>2, <2>3 DEF Numbered, Current
  <2>6. \A q \in Reply : Current(q) => sequence[q] # submitted
    BY <1>1 DEF Numbers
  <2>7. \A q \in Reply : Current(q)' /\ sequence'[q] \in {submitted} => q \in completed'
    BY <1>3, <2>5, <2>6
  <2>8. \A q \in Reply : phase[q] \in Owning => Current(q)
    BY DEF Shape, Switching, Owning, Current
  <2>9. \A q \in Reply \ {r} : phase'[q] \in {"asking", "speaking"} =>
          phase[q] \in {"asking", "speaking"} /\ sequence[q] \notin {submitted}
    BY <2>2, <2>6, <2>8 DEF Owning
  <2>10. \A q \in Reply \ {r} : phase[q] \in Owning /\ q \notin completed /\ sequence[q] \notin {submitted}
          => phase'[q] \in Owning /\ q \notin completed'
    BY <1>3, <2>2
  <2>11. completed \subseteq completed'
    BY <1>3
  <2> QED BY <1>1, <2>1, <2>3, <2>4, <2>7, <2>9, <2>10, <2>11, TurnsMove
<1>4. ASSUME NEW out,
             \/ out = {} /\ Len(queue) < MaxQueue
             \/ Len(queue) = MaxQueue /\ \E i \in DOMAIN queue : out = {queue[i]},
             queue' = Append(Excluding(queue, out), r),
             phase' = [q \in Reply |-> IF q = r THEN "queued"
                                       ELSE IF q \in out THEN "ended" ELSE phase[q]],
             NotifyOne, admitted' = admitted + 1, terminal' = terminal + Cardinality(out),
             EndTurns(out)
      PROVE  Numbers' /\ Turns'
  <2>1. out \in SUBSET Reply /\ \A q \in out : Current(q) /\ phase[q] = "queued"
    BY <1>1, <1>4, AdmittedShape
  <2>2. /\ phase'[r] = "queued" /\ \A q \in out \ {r} : phase'[q] = "ended"
        /\ \A q \in (Reply \ {r}) \ out : phase'[q] = phase[q]
    BY <1>4, <2>1
  <2>3. Numbered({r})
    <3>1. \A q \in Reply \ {r} : phase'[q] = "unsent" <=> phase[q] = "unsent"
      BY <2>1, <2>2
    <3> QED BY <1>2, <2>2, <3>1
  <2>4. \A q \in out : phase'[q] \notin {"asking", "speaking"}
    BY <2>2
  <2>5. \A q \in (Reply \ {r}) \ out : phase'[q] = phase[q]
                                       \/ (phase[q] \notin Owning /\ phase'[q] \notin Owning)
    BY <2>2
  <2> QED BY <1>1, <1>4, <2>1, <2>3, <2>4, <2>5, TurnsEnded
<1>5. CASE SubmitExhaustive(r)
  <2>1. UNCHANGED <<coordinatorVars, completed>>
    BY <1>5 DEF SubmitExhaustive
  <2>2. PICK p \in {"queued", "putting"} : phase' = [phase EXCEPT ![r] = p]
    BY <1>5 DEF SubmitExhaustive, Insert
  <2>3. phase'[r] = p /\ \A q \in Reply \ {r} : phase'[q] = phase[q]
    BY <2>2, PhaseMoves DEF Phases
  <2>4. Numbered({r})
    BY <1>2, <2>3
  <2> QED BY <1>1, <2>1, <2>3, <2>4, TurnsStay
<1> QED
  BY <1>3, <1>4, <1>5, SubmitGoes

LEMMA SwitchTurns ==
  ASSUME Shape, Numbers, Turns, SwitchBegins \/ SwitchEnds
  PROVE  Numbers' /\ Turns'
<1>1. CASE SwitchBegins
  <2>1. /\ Shape' /\ \A r \in Reply : phase'[r] = IF phase[r] \in {"putting", "queued"}
                                                  THEN "ended" ELSE phase[r]
    BY <1>1, SwitchBeginsShape
  <2>2. EndTurns(Range(queue)) /\ UNCHANGED <<generation, submitted, born, sequence>>
    BY <1>1 DEF SwitchBegins
  <2>3. Numbered({})
    BY <2>1, <2>2 DEF Numbered
  <2>4. /\ Range(queue) \in SUBSET Reply /\ \A q \in Range(queue) : Current(q)
        /\ \A q \in Range(queue) : phase'[q] \notin {"asking", "speaking"}
    BY <2>1, RangeQueued
  <2>5. \A q \in Reply : phase'[q] = phase[q] \/ (phase[q] \notin Owning /\ phase'[q] \notin Owning)
    BY <2>1 DEF Owning
  <2> QED BY <2>1, <2>2, <2>3, <2>4, <2>5, TurnsEnded
<1>2. CASE SwitchEnds
  <2>1. \A r \in Reply : phase[r] \in {"unsent", "ended"} /\ born[r] \in Nat
                         /\ (phase[r] # "unsent" => born[r] <= generation)
    BY <1>2, SwitchEndsShape, TypesSay DEF Shape, Switching
  <2>2. /\ generation' = generation + 1 /\ submitted' = 0 /\ nextTurn' = 0
        /\ activeTurn' = NoTurn /\ skipped' = {} /\ UNCHANGED <<phase, born, sequence>>
    BY <1>2 DEF SwitchEnds, replyVars
  <2>3. generation \in Nat
    BY DEF Shape, Switching
  <2>4. \A r \in Reply : ~Current(r)'
    BY <2>1, <2>2, <2>3 DEF Current
  <2> QED BY <2>1, <2>2, <2>4 DEF Numbers, Turns
<1> QED
  BY <1>1, <1>2

LEMMA TurnsStep ==
  ASSUME Shape, Numbers, Turns, [Next]_vars
  PROVE  Numbers' /\ Turns'
<1>0. Shape'
  BY ShapeStep
<1>1. ASSUME NEW r \in Reply, Submit(r) \/ PutAgain(r)
      PROVE  Numbers' /\ Turns'
  BY <1>1, SubmitTurns, PutAgainTurns
<1>2. ASSUME NEW w \in Worker, WorkerStep(w)
      PROVE  Numbers' /\ Turns'
  <2>1. CASE FallsAsleep(w) \/ WorkerStops(w)
    BY <1>0, <2>1, QuietTurns DEF FallsAsleep, WorkerStops
  <2> QED BY <1>2, <2>1, TakesTurns, WorkTurns DEF WorkerStep
<1>3. ASSUME NEW g \in Guest, GuestStep(g)
      PROVE  Numbers' /\ Turns'
  BY <1>0, <1>3, GuestStepMoves, QuietTurns DEF GuestMoves, runtimeVars
<1>4. CASE SwitchBegins \/ SwitchEnds
  BY <1>4, SwitchTurns
<1>5. CASE UNCHANGED vars
  BY <1>0, <1>5, QuietTurns DEF vars, runtimeVars
<1> QED
  BY <1>1, <1>2, <1>3, <1>4, <1>5 DEF Next

-----------------------------------------------------------------------------
(* The count of the replies.                                               *)
LEMMA LeaveAndCome ==
  ASSUME NEW L, IsFiniteSet(L), NEW out, out \subseteq L, NEW come, IsFiniteSet(come),
         come \intersect L = {}
  PROVE  /\ IsFiniteSet((L \ out) \union come)
         /\ Cardinality((L \ out) \union come)
              = Cardinality(L) - Cardinality(out) + Cardinality(come)
<1> DEFINE K == L \ out
<1>1. /\ IsFiniteSet(out) /\ Cardinality(out) \in Nat /\ Cardinality(L) \in Nat
      /\ Cardinality(come) \in Nat
  BY FS_Subset, FS_CardinalityType
<1>2. L \intersect out = out /\ K \intersect come = {}
  OBVIOUS
<1>3. IsFiniteSet(K) /\ Cardinality(K) = Cardinality(L) - Cardinality(out)
  <2>1. IsFiniteSet(K) /\ Cardinality(K) = Cardinality(L) - Cardinality(L \intersect out)
    BY FS_Difference
  <2> QED BY <1>2, <2>1
<1> HIDE DEF K
<1>4. /\ IsFiniteSet(K \union come)
      /\ Cardinality(K \union come)
           = Cardinality(K) + Cardinality(come) - Cardinality(K \intersect come)
  BY <1>3, FS_Union
<1>5. Cardinality(K \intersect come) = 0
  BY <1>2, FS_EmptySet
<1> QED
  BY <1>1, <1>3, <1>4, <1>5 DEF K

LEMMA CountMoves ==
  ASSUME Shape, Counted, NEW out, NEW come, out \subseteq Live, IsFiniteSet(come),
         come \intersect Live = {}, Live' = (Live \ out) \union come,
         admitted' = admitted + Cardinality(come), terminal' = terminal + Cardinality(out)
  PROVE  Counted'
<1> DEFINE L == Live
           M == Live'
<1>1. admitted \in Nat /\ terminal \in Nat
  BY TypesSay DEF Shape
<1>2. IsFiniteSet(L) /\ admitted = terminal + Cardinality(L)
  BY DEF Counted, EveryReplyIsCounted
<1>3. out \subseteq L /\ come \intersect L = {} /\ M = (L \ out) \union come
  OBVIOUS
<1>4. Counted' <=> IsFiniteSet(M) /\ admitted' = terminal' + Cardinality(M)
  BY DEF Counted, EveryReplyIsCounted
<1> HIDE DEF L, M
<1>5. IsFiniteSet(out) /\ Cardinality(out) \in Nat /\ Cardinality(L) \in Nat
      /\ Cardinality(come) \in Nat
  BY <1>2, <1>3, FS_Subset, FS_CardinalityType
<1>6. /\ IsFiniteSet(M)
      /\ Cardinality(M) = Cardinality(L) - Cardinality(out) + Cardinality(come)
  BY <1>2, <1>3, LeaveAndCome
<1> QED
  BY <1>1, <1>2, <1>4, <1>5, <1>6

Over == {"unsent", "putting", "ended"}

LEMMA CountStays ==
  ASSUME Shape, Counted, UNCHANGED <<admitted, terminal>>,
         \A r \in Reply : phase'[r] \in Over <=> phase[r] \in Over
  PROVE  Counted'
<1>1. Live' = Live
  BY DEF Live, Over
<1> QED
  BY <1>1 DEF Counted, EveryReplyIsCounted

LEMMA OneCounted ==
  ASSUME Shape, Counted, NEW r \in Reply, phase[r] \notin Over, phase'[r] \in Over,
         \A q \in Reply \ {r} : phase'[q] = phase[q],
         admitted' = admitted, terminal' = terminal + 1
  PROVE  Counted'
<1>1. {r} \subseteq Live /\ {} \intersect Live = {} /\ Live' = (Live \ {r}) \union {}
  BY DEF Live, Over
<1>2. IsFiniteSet({}) /\ Cardinality({}) = 0 /\ Cardinality({r}) = 1
  BY FS_EmptySet, FS_Singleton
<1>3. admitted \in Nat /\ admitted' = admitted + Cardinality({})
      /\ terminal' = terminal + Cardinality({r})
  BY <1>2, TypesSay DEF Shape
<1> QED
  BY <1>1, <1>2, <1>3, CountMoves

LEMMA OneAdmitted ==
  ASSUME Shape, Counted, NEW r \in Reply, phase[r] \in Over, phase'[r] \notin Over,
         \A q \in Reply \ {r} : phase'[q] = phase[q],
         admitted' = admitted + 1, terminal' = terminal
  PROVE  Counted'
<1>1. {} \subseteq Live /\ {r} \intersect Live = {} /\ Live' = (Live \ {}) \union {r}
  BY DEF Live, Over
<1>2. IsFiniteSet({r}) /\ Cardinality({}) = 0 /\ Cardinality({r}) = 1
  BY FS_EmptySet, FS_Singleton
<1>3. terminal \in Nat /\ admitted' = admitted + Cardinality({r})
      /\ terminal' = terminal + Cardinality({})
  BY <1>2, TypesSay DEF Shape
<1> QED
  BY <1>1, <1>2, <1>3, CountMoves

LEMMA WorkCounted ==
  ASSUME Shape, Numbers, Counted, NEW w \in Worker, NEW r \in Reply,
         \/ Converse(w, r) \/ Generates(w, r) \/ Asks(w, r) \/ Speaks(w, r) \/ Spoke(w, r)
         \/ Succeeds(w, r) \/ Retries(w, r) \/ Fails(w, r)
         \/ UnwindGraph(w, r) \/ UnwindTurn(w, r)
  PROVE  Counted'
<1>1. ASSUME NEW p \in Working, Moves(w, r, p), UNCHANGED terminal
      PROVE  Counted'
  <2>1. /\ phase[r] \notin Over /\ p \notin Over /\ phase'[r] = p
        /\ \A q \in Reply \ {r} : phase'[q] = phase[q]
    BY <1>1, WorkerOwns, MovesNumbered DEF Moves, Working, Over
  <2>2. \A q \in Reply : phase'[q] \in Over <=> phase[q] \in Over
    BY <2>1
  <2> QED BY <1>1, <2>2, CountStays DEF Moves
<1>2. ASSUME Moves(w, r, "ended"), terminal' = terminal + 1
      PROVE  Counted'
  <2>1. /\ phase[r] \notin Over /\ phase'[r] \in Over
        /\ \A q \in Reply \ {r} : phase'[q] = phase[q]
    BY <1>2, WorkerOwns, MovesNumbered DEF Moves, Working, Over
  <2> QED BY <1>2, <2>1, OneCounted DEF Moves
<1>3. CASE Converse(w, r)
  BY <1>1, <1>3, ConverseMoves DEF Converse, runtimeVars, Working
<1>4. CASE Generates(w, r)
  BY <1>1, <1>4, GeneratesMoves DEF Generates, runtimeVars, Working
<1>5. CASE Asks(w, r)
  BY <1>1, <1>5, AsksMoves DEF Asks, runtimeVars, Working
<1>6. CASE Speaks(w, r)
  BY <1>1, <1>6, SpeaksMoves DEF Speaks, runtimeVars, Working
<1>7. CASE Spoke(w, r)
  BY <1>1, <1>7, SpokeMoves DEF Spoke, runtimeVars, Working
<1>8. CASE Succeeds(w, r)
  BY <1>2, <1>8, SucceedsMoves DEF Succeeds
<1>9. CASE Retries(w, r)
  BY <1>1, <1>9, RetriesMoves DEF Retries, runtimeVars, Working
<1>10. CASE Fails(w, r)
  BY <1>2, <1>10, FailsMoves DEF Fails
<1>11. CASE UnwindGraph(w, r)
  BY <1>1, <1>11, UnwindGraphMoves DEF UnwindGraph, runtimeVars, Working
<1>12. CASE UnwindTurn(w, r)
  BY <1>2, <1>12, UnwindTurnMoves DEF UnwindTurn
<1> QED
  BY <1>3, <1>4, <1>5, <1>6, <1>7, <1>8, <1>9, <1>10, <1>11, <1>12

LEMMA TakesCounted ==
  ASSUME Shape, Numbers, Counted, NEW w \in Worker, NEW expired \in BOOLEAN, Takes(w, expired)
  PROVE  Counted'
<1> DEFINE r == Chosen
<1>1. CASE expired = TRUE
  <2>1. /\ r \in Reply /\ phase[r] = "queued" /\ phase' = [phase EXCEPT ![r] = "ended"]
        /\ terminal' = terminal + 1
    BY <1>1, ExpiredShape
  <2>2. admitted' = admitted
    BY DEF Takes
  <2> HIDE DEF r
  <2>3. phase'[r] = "ended" /\ \A q \in Reply \ {r} : phase'[q] = phase[q]
    BY <2>1, PhaseMoves DEF Phases
  <2> QED BY <2>1, <2>2, <2>3, OneCounted DEF Over
<1>2. CASE expired = FALSE
  <2>1. r \in Reply /\ phase[r] = "queued" /\ phase' = [phase EXCEPT ![r] = "composing"]
    BY <1>2, TakenShape
  <2>2. UNCHANGED <<admitted, terminal>>
    BY <1>2 DEF Takes
  <2> HIDE DEF r
  <2>3. phase'[r] = "composing" /\ \A q \in Reply \ {r} : phase'[q] = phase[q]
    BY <2>1, PhaseMoves DEF Phases
  <2>4. \A q \in Reply : phase'[q] \in Over <=> phase[q] \in Over
    BY <2>1, <2>3 DEF Over
  <2> QED BY <2>2, <2>4, CountStays
<1> QED
  BY <1>1, <1>2

LEMMA PutAgainCounted ==
  ASSUME Shape, Counted, NEW r \in Reply, PutAgain(r)
  PROVE  Counted'
<1>1. phase[r] = "putting" /\ terminal' = terminal
  BY DEF PutAgain
<1>2. CASE Insert(r)
  <2>1. phase'[r] = "queued" /\ (\A q \in Reply \ {r} : phase'[q] = phase[q])
        /\ admitted' = admitted + 1
    BY <1>2, PhaseMoves DEF Insert, Phases
  <2> QED BY <1>1, <2>1, OneAdmitted DEF Over
<1>3. CASE UNCHANGED <<queue, phase, admitted>>
  BY <1>1, <1>3, CountStays
<1> QED
  BY <1>2, <1>3 DEF PutAgain

LEMMA SubmitCounted ==
  ASSUME Shape, Numbers, Counted, NEW r \in Reply, Submit(r)
  PROVE  Counted'
<1>1. Submission(r) /\ phase[r] = "unsent"
  BY SubmitGoes DEF Submission
<1>2. CASE /\ phase' = [phase EXCEPT ![r] = "ended"]
           /\ UNCHANGED <<admitted, terminal>>
  <2>1. phase'[r] = "ended" /\ \A q \in Reply \ {r} : phase'[q] = phase[q]
    BY <1>2, PhaseMoves DEF Phases
  <2>2. \A q \in Reply : phase'[q] \in Over <=> phase[q] \in Over
    BY <1>1, <2>1 DEF Over
  <2> QED BY <1>2, <2>2, CountStays
<1>3. ASSUME NEW out,
             \/ out = {} /\ Len(queue) < MaxQueue
             \/ Len(queue) = MaxQueue /\ \E i \in DOMAIN queue : out = {queue[i]},
             queue' = Append(Excluding(queue, out), r),
             phase' = [q \in Reply |-> IF q = r THEN "queued"
                                       ELSE IF q \in out THEN "ended" ELSE phase[q]],
             NotifyOne, admitted' = admitted + 1, terminal' = terminal + Cardinality(out),
             EndTurns(out)
      PROVE  Counted'
  <2>1. out \in SUBSET Reply /\ \A q \in out : phase[q] = "queued"
    BY <1>1, <1>3, AdmittedShape
  <2>2. out \subseteq Live /\ {r} \intersect Live = {}
    BY <1>1, <2>1 DEF Live
  <2>3. \A q \in Reply : q \in Live' <=> (q \in Live /\ q \notin out) \/ q = r
    BY <1>1, <1>3, <2>1 DEF Live
  <2>4. Live' = (Live \ out) \union {r}
    BY <2>3 DEF Live
  <2>5. IsFiniteSet({r}) /\ Cardinality({r}) = 1
    BY FS_Singleton
  <2> QED BY <1>3, <2>2, <2>4, <2>5, CountMoves
<1>4. CASE SubmitExhaustive(r)
  <2>1. terminal' = terminal
    BY <1>4 DEF SubmitExhaustive
  <2>2. CASE Insert(r)
    <3>1. phase'[r] = "queued" /\ (\A q \in Reply \ {r} : phase'[q] = phase[q])
          /\ admitted' = admitted + 1
      BY <2>2, PhaseMoves DEF Insert, Phases
    <3> QED BY <1>1, <2>1, <3>1, OneAdmitted DEF Over
  <2>3. CASE phase' = [phase EXCEPT ![r] = "putting"] /\ UNCHANGED admitted
    <3>1. phase'[r] = "putting" /\ \A q \in Reply \ {r} : phase'[q] = phase[q]
      BY <2>3, PhaseMoves DEF Phases
    <3>2. \A q \in Reply : phase'[q] \in Over <=> phase[q] \in Over
      BY <1>1, <3>1 DEF Over
    <3> QED BY <2>1, <2>3, <3>2, CountStays
  <2> QED BY <1>4, <2>2, <2>3 DEF SubmitExhaustive
<1> QED
  BY <1>2, <1>3, <1>4, SubmitGoes

LEMMA SwitchBeginsCounted ==
  ASSUME Shape, Numbers, Counted, SwitchBegins
  PROVE  Counted'
<1>1. \A r \in Reply : phase'[r] = IF phase[r] \in {"putting", "queued"} THEN "ended" ELSE phase[r]
  BY SwitchBeginsShape
<1>2. /\ Range(queue) = {q \in Reply : phase[q] = "queued"}
      /\ Cardinality(Range(queue)) = Len(queue)
  BY RangeQueued
<1>3. Range(queue) \subseteq Live /\ {} \intersect Live = {}
      /\ Live' = (Live \ Range(queue)) \union {}
  BY <1>1, <1>2 DEF Live
<1>4. IsFiniteSet({}) /\ Cardinality({}) = 0
  BY FS_EmptySet
<1>5. admitted' = admitted + Cardinality({}) /\ terminal' = terminal + Cardinality(Range(queue))
  BY <1>2, <1>4, TypesSay DEF SwitchBegins, Shape
<1> QED
  BY <1>3, <1>4, <1>5, CountMoves

LEMMA CountedStep ==
  ASSUME Shape, Numbers, Counted, [Next]_vars
  PROVE  Counted'
<1>1. ASSUME NEW r \in Reply, Submit(r) \/ PutAgain(r)
      PROVE  Counted'
  BY <1>1, SubmitCounted, PutAgainCounted
<1>2. ASSUME UNCHANGED <<admitted, terminal, phase>>
      PROVE  Counted'
  BY <1>2, CountStays
<1>3. ASSUME NEW w \in Worker, WorkerStep(w)
      PROVE  Counted'
  <2>1. CASE FallsAsleep(w) \/ WorkerStops(w)
    BY <1>2, <2>1 DEF FallsAsleep, WorkerStops, replyVars
  <2> QED BY <1>3, <2>1, TakesCounted, WorkCounted DEF WorkerStep
<1>4. ASSUME NEW g \in Guest, GuestStep(g)
      PROVE  Counted'
  BY <1>2, <1>4, GuestStepMoves DEF GuestMoves, runtimeVars, replyVars
<1>5. CASE SwitchBegins
  BY <1>5, SwitchBeginsCounted
<1>6. CASE SwitchEnds
  BY <1>2, <1>6 DEF SwitchEnds, replyVars
<1>7. CASE UNCHANGED vars
  BY <1>2, <1>7 DEF vars, runtimeVars, replyVars
<1> QED
  BY <1>1, <1>3, <1>4, <1>5, <1>6, <1>7 DEF Next

-----------------------------------------------------------------------------
(* The condition of the queue.                                             *)
LEMMA SleepingStays ==
  ASSUME Sleeping, UNCHANGED <<queue, asleep>>,
         \A w \in Worker : w \in asleep => worker'[w] = worker[w],
         \A w \in Worker : worker[w] = "idle" => worker'[w] = "idle"
  PROVE  Sleeping'
<1>1. \A w \in Worker : w \in asleep' => worker'[w] = "idle"
  BY DEF Sleeping
<1>2. ASSUME queue' # <<>>, NEW w \in Worker, worker'[w] = "idle"
      PROVE  \E v \in Worker : worker'[v] = "idle" /\ v \notin asleep'
  <2>1. CASE w \notin asleep
    BY <1>2, <2>1
  <2>2. CASE w \in asleep
    BY <1>2, <2>2 DEF Sleeping, NobodySleepsOnWork
  <2> QED BY <2>1, <2>2
<1>3. Len(queue') < MaxQueue' => asleep' \subseteq Worker
  BY DEF Sleeping, NobodySleepsOnWork
<1> QED
  BY <1>1, <1>2, <1>3 DEF Sleeping, NobodySleepsOnWork

LEMMA AllAwake ==
  ASSUME asleep' = {}
  PROVE  Sleeping'
BY DEF Sleeping, NobodySleepsOnWork

(* A putter goes to sleep in front of a full queue.                        *)
LEMMA PutterSleeps ==
  ASSUME Shape, Sleeping, NEW r \in Reply, ~(Len(queue) < MaxQueue), UNCHANGED queue,
         asleep' = asleep \union {r},
         \A w \in Worker : w \in asleep => worker'[w] = worker[w],
         \A w \in Worker : worker[w] = "idle" => worker'[w] = "idle"
  PROVE  Sleeping'
<1>1. r \notin Worker
  BY NamesApart
<1>2. \A w \in Worker : w \in asleep' => worker'[w] = "idle"
  BY <1>1 DEF Sleeping
<1>3. ASSUME queue' # <<>>, NEW w \in Worker, worker'[w] = "idle"
      PROVE  \E v \in Worker : worker'[v] = "idle" /\ v \notin asleep'
  <2>1. CASE w \notin asleep
    BY <1>1, <1>3, <2>1
  <2>2. CASE w \in asleep
    <3>1. \E v \in Worker : worker[v] = "idle" /\ v \notin asleep
      BY <1>3, <2>2 DEF Sleeping, NobodySleepsOnWork
    <3> QED BY <1>1, <3>1
  <2> QED BY <2>1, <2>2
<1> QED
  BY <1>2, <1>3 DEF Sleeping, NobodySleepsOnWork

LEMMA SubmitSleeping ==
  ASSUME Shape, Numbers, Sleeping, NEW r \in Reply, Submit(r)
  PROVE  Sleeping'
<1>1. Submission(r)
  BY SubmitGoes
<1>2. /\ \A w \in Worker : worker[w] = "idle" => worker'[w] = "idle"
      /\ \A w \in Worker : w \in asleep => worker'[w] = worker[w]
  BY <1>1, SubmissionSays DEF Sleeping
<1>3. CASE UNCHANGED <<queue, asleep>>
  BY <1>2, <1>3, SleepingStays
<1>4. ASSUME NEW out,
             \/ out = {} /\ Len(queue) < MaxQueue
             \/ Len(queue) = MaxQueue /\ \E i \in DOMAIN queue : out = {queue[i]},
             queue' = Append(Excluding(queue, out), r),
             phase' = [q \in Reply |-> IF q = r THEN "queued"
                                       ELSE IF q \in out THEN "ended" ELSE phase[q]],
             NotifyOne, admitted' = admitted + 1, terminal' = terminal + Cardinality(out),
             EndTurns(out)
      PROVE  Sleeping'
  <2>1. Len(queue) = MaxQueue => Len(queue') = MaxQueue
    BY <1>1, <1>4, AdmittedShape
  <2>2. MaxQueue \in Nat
    BY NamesApart
  <2>3. CASE asleep \intersect Worker = {} /\ UNCHANGED asleep
    <3>1. \A w \in Worker : w \notin asleep'
      BY <2>3
    <3>2. Len(queue') < MaxQueue => asleep' \subseteq Worker
      BY <1>4, <2>1, <2>2, <2>3 DEF Sleeping, NobodySleepsOnWork
    <3> QED BY <3>1, <3>2 DEF Sleeping, NobodySleepsOnWork
  <2>4. ASSUME NEW w \in asleep \intersect Worker, asleep' = asleep \ {w}
        PROVE  Sleeping'
    <3>1. worker'[w] = "idle" /\ w \notin asleep'
      BY <1>2, <2>4 DEF Sleeping
    <3>2. \A v \in Worker : v \in asleep' => worker'[v] = "idle"
      BY <1>2, <2>4 DEF Sleeping
    <3>3. Len(queue') < MaxQueue => asleep' \subseteq Worker
      BY <1>4, <2>1, <2>2, <2>4 DEF Sleeping, NobodySleepsOnWork
    <3> QED BY <3>1, <3>2, <3>3 DEF Sleeping, NobodySleepsOnWork
  <2> QED BY <1>4, <2>3, <2>4 DEF NotifyOne
<1>5. CASE SubmitExhaustive(r)
  <2>1. CASE Insert(r)
    BY <2>1, AllAwake DEF Insert
  <2>2. CASE ~(Len(queue) < MaxQueue) /\ asleep' = asleep \union {r} /\ UNCHANGED queue
    BY <1>2, <2>2, PutterSleeps
  <2> QED BY <1>5, <2>1, <2>2 DEF SubmitExhaustive
<1> QED
  BY <1>3, <1>4, <1>5, SubmitGoes

LEMMA PutAgainSleeping ==
  ASSUME Shape, Sleeping, NEW r \in Reply, PutAgain(r)
  PROVE  Sleeping'
<1>1. CASE Insert(r)
  BY <1>1, AllAwake DEF Insert
<1>2. CASE ~(Len(queue) < MaxQueue) /\ asleep' = asleep \union {r} /\ UNCHANGED queue
  <2>1. worker' = worker
    BY DEF PutAgain
  <2> QED BY <1>2, <2>1, PutterSleeps
<1> QED
  BY <1>1, <1>2 DEF PutAgain

LEMMA WorkerSleeping ==
  ASSUME Shape, Numbers, Sleeping, NEW w \in Worker, WorkerStep(w)
  PROVE  Sleeping'
<1>1. CASE FallsAsleep(w)
  <2>1. queue = <<>> /\ queue' = queue /\ worker' = worker /\ worker[w] = "idle"
        /\ asleep' = asleep \union {w}
    BY <1>1 DEF FallsAsleep, Awake
  <2>2. asleep \subseteq Worker
    BY <2>1, NamesApart DEF Sleeping, NobodySleepsOnWork
  <2> QED BY <2>1, <2>2 DEF Sleeping, NobodySleepsOnWork
<1>2. CASE WorkerStops(w)
  <2>1. asleep' = {}
    BY <1>2 DEF WorkerStops, Shape, Switching
  <2> QED BY <2>1, AllAwake
<1>3. CASE \E expired \in BOOLEAN : Takes(w, expired)
  BY <1>3, AllAwake DEF Takes
<1>4. ASSUME NEW r \in Reply, NEW p, Moves(w, r, p)
      PROVE  Sleeping'
  <2>1. worker \in [Worker -> Reply \union {"absent", "idle"}]
    BY TypesSay DEF Shape
  <2>2. worker[w] # "idle" /\ w \notin asleep
    BY <1>4, NamesApart DEF Moves, Sleeping
  <2>3. \A v \in Worker \ {w} : worker'[v] = worker[v]
    BY <1>4, <2>1 DEF Moves
  <2>4. UNCHANGED <<queue, asleep>>
    BY <1>4 DEF Moves
  <2> QED BY <2>2, <2>3, <2>4, SleepingStays
<1>5. ASSUME NEW r \in Reply,
             \/ Converse(w, r) \/ Generates(w, r) \/ Asks(w, r) \/ Speaks(w, r) \/ Spoke(w, r)
             \/ Succeeds(w, r) \/ Retries(w, r) \/ Fails(w, r)
             \/ UnwindGraph(w, r) \/ UnwindTurn(w, r)
      PROVE  Sleeping'
  <2>1. \E p : Moves(w, r, p)
    BY <1>5, ConverseMoves, GeneratesMoves, AsksMoves, SpeaksMoves, SpokeMoves, SucceedsMoves,
       RetriesMoves, FailsMoves, UnwindGraphMoves, UnwindTurnMoves
  <2> QED BY <1>4, <2>1
<1> QED
  BY <1>1, <1>2, <1>3, <1>5 DEF WorkerStep

LEMMA SleepingStep ==
  ASSUME Shape, Numbers, Sleeping, [Next]_vars
  PROVE  Sleeping'
<1>1. ASSUME NEW r \in Reply, Submit(r) \/ PutAgain(r)
      PROVE  Sleeping'
  BY <1>1, SubmitSleeping, PutAgainSleeping
<1>2. ASSUME NEW w \in Worker, WorkerStep(w)
      PROVE  Sleeping'
  BY <1>2, WorkerSleeping
<1>3. ASSUME UNCHANGED <<queue, asleep, worker>>
      PROVE  Sleeping'
  BY <1>3, SleepingStays
<1>4. ASSUME NEW g \in Guest, GuestStep(g)
      PROVE  Sleeping'
  BY <1>3, <1>4, GuestStepMoves DEF GuestMoves, runtimeVars
<1>5. CASE SwitchBegins
  BY <1>5, AllAwake DEF SwitchBegins
<1>6. CASE SwitchEnds
  BY <1>3, <1>6 DEF SwitchEnds
<1>7. CASE UNCHANGED vars
  BY <1>3, <1>7 DEF vars, runtimeVars
<1> QED
  BY <1>1, <1>2, <1>4, <1>5, <1>6, <1>7 DEF Next

-----------------------------------------------------------------------------
(* The theorems.                                                           *)
LEMMA InitIInv ==
  ASSUME Init
  PROVE  IInv
<1>1. TypeOK
  <2>1. /\ generation \in 0..MaxGeneration /\ queue \in Seq(Reply) /\ Len(queue) <= MaxQueue
        /\ waiters \in Seq(User) /\ conversation \in Seq(User)
    BY NamesApart DEF Init
  <2>2. /\ worker \in [Worker -> Reply \union {"absent", "idle"}]
        /\ phase \in [Reply -> Phases]
        /\ guest \in [Guest -> {"away", "asking", "holding", "conversing"}]
    BY DEF Init, Phases
  <2>3. /\ born \in [Reply -> Nat] /\ sequence \in [Reply -> Nat]
        /\ submitted \in Nat /\ admitted \in Nat /\ terminal \in Nat /\ nextTurn \in Nat
    BY DEF Init
  <2> QED BY <2>1, <2>2, <2>3 DEF Init, TypeOK
<1>2. Queued /\ Waiting /\ Conversing
  BY DEF Init, Queued, Waiting, Conversing, IsInjective
<1>3. OnChannel /\ Switching /\ Media
  BY NamesApart DEF Init, OnChannel, Switching, Media
<1>4. Serving
  BY NamesApart DEF Init, Serving, Working
<1>5. Numbers /\ Turns
  BY DEF Init, Numbers, Turns, Current
<1>6. Counted
  <2>1. Live = {} /\ admitted = 0 /\ terminal = 0
    BY DEF Init, Live
  <2> QED BY <2>1, FS_EmptySet DEF Counted, EveryReplyIsCounted
<1>7. Sleeping
  BY DEF Init, Sleeping, NobodySleepsOnWork
<1> QED
  BY <1>1, <1>2, <1>3, <1>4, <1>5, <1>6, <1>7 DEF IInv, Shape

LEMMA NextIInv ==
  ASSUME IInv, [Next]_vars
  PROVE  IInv'
BY ShapeStep, TurnsStep, CountedStep, SleepingStep DEF IInv

(* The inductive invariant, which the theorems below read off.             *)
THEOREM PipelineInvariant == Spec => []IInv
<1>1. Init => IInv
  BY InitIInv
<1>2. IInv /\ [Next]_vars => IInv'
  BY NextIInv
<1> QED
  BY <1>1, <1>2, PTL DEF Spec

(* The runtime, the coordinator and the arbiter keep their types, and the  *)
(* queue its bound, whatever is submitted, evicted and cancelled.          *)
THEOREM PipelineIsTyped == Spec => []TypeOK
<1>1. IInv => TypeOK
  BY DEF IInv, Shape
<1> QED
  BY <1>1, PipelineInvariant, PTL

(* Whoever holds or waits for the channel or the conversation is running,  *)
(* the turn under way has a reply that will end it, and no reply outlives  *)
(* its generation: a lease goes back on every path.                        *)
LEMMA OwnersFollow ==
  ASSUME IInv
  PROVE  LeasesHaveOwners
<1>1. /\ TypeOK /\ Waiting /\ Conversing /\ OnChannel /\ Serving /\ Switching /\ Turns
  BY DEF IInv, Shape
<1>2. \A r \in Reply : phase[r] \in Working => \E w \in Worker : worker[w] = r
  BY <1>1 DEF Serving
<1>3. ASSUME NEW u \in InLine
      PROVE  IF u \in Reply THEN \E w \in Worker : worker[w] = u ELSE guest[u] # "away"
  <2>1. CASE u \in Range(waiters)
    <3>1. PICK i \in DOMAIN waiters : u = waiters[i]
      BY <2>1 DEF Range
    <3>2. u \in User
      BY <1>1, <3>1, TypesSay
    <3>3. u \in Reply => phase[u] \in Working
      BY <1>1, <3>1 DEF Waiting, Working
    <3>4. u \in Guest => guest[u] = "asking"
      BY <1>1, <3>1 DEF Waiting
    <3> QED BY <1>2, <3>2, <3>3, <3>4, NamesApart
  <2>2. CASE u \in Range(conversation)
    <3>1. PICK i \in DOMAIN conversation : u = conversation[i]
      BY <2>2 DEF Range
    <3>2. u \in User
      BY <1>1, <3>1, TypesSay
    <3>3. u \in Reply => phase[u] \in Working
      BY <1>1, <3>1 DEF Conversing, InScope, Working
    <3>4. u \in Guest => guest[u] = "conversing"
      BY <1>1, <3>1 DEF Conversing
    <3> QED BY <1>2, <3>2, <3>3, <3>4, NamesApart
  <2>3. CASE u = channel /\ u # Nobody
    <3>1. u \in User
      BY <1>1, <2>3, TypesSay
    <3>2. u \in Reply => phase[u] \in Working
      BY <1>1, <2>3 DEF OnChannel, Working
    <3>3. u \in Guest => guest[u] \in {"holding", "conversing"}
      BY <1>1, <2>3 DEF OnChannel
    <3> QED BY <1>2, <3>1, <3>2, <3>3, NamesApart
  <2> QED BY <1>3, <2>1, <2>2, <2>3 DEF InLine
<1>4. activeTurn # NoTurn => \E r \in Reply : r \in Live /\ sequence[r] = activeTurn
  BY <1>1 DEF Turns, Live
<1>5. \A r \in Live : born[r] = generation
  BY <1>1 DEF Live, Switching
<1> QED
  BY <1>3, <1>4, <1>5 DEF LeasesHaveOwners

THEOREM LeasesGoBack == Spec => []LeasesHaveOwners
<1>1. IInv => LeasesHaveOwners
  BY OwnersFollow
<1> QED
  BY <1>1, PipelineInvariant, PTL

(* metrics.admitted = metrics.terminal_count + the replies that are queued *)
(* or in work, after any eviction, expiry, retry, failure and switch.      *)
THEOREM RepliesAreCounted == Spec => []EveryReplyIsCounted
<1>1. IInv => EveryReplyIsCounted
  BY DEF IInv, Counted
<1> QED
  BY <1>1, PipelineInvariant, PTL

(* The one condition of the queue, on which workers and putters both wait, *)
(* loses no wake-up.                                                       *)
THEOREM WakeUpsArrive == Spec => []NobodySleepsOnWork
<1>1. IInv => NobodySleepsOnWork
  BY DEF IInv, Sleeping
<1> QED
  BY <1>1, PipelineInvariant, PTL

(* A reply starts to speak when all earlier ones of its generation have    *)
(* had their turn, and is not generated again once its media has started.  *)
LEMMA SpeaksInOrder ==
  ASSUME IInv, NEW r \in Reply, phase[r] = "asking", NEW q \in Reply,
         born[q] = born[r], phase[q] # "unsent", sequence[q] < sequence[r]
  PROVE  q \in completed
<1>1. Switching /\ Turns
  BY DEF IInv, Shape
<1>2. Current(q)
  BY <1>1 DEF Switching, Current
<1>3. sequence[r] = nextTurn
  BY <1>1 DEF Turns
<1> QED
  BY <1>1, <1>2, <1>3 DEF Turns

LEMMA StartedIsNotRetried ==
  ASSUME IInv, [Next]_vars, NEW r \in Reply, r \in acquired, phase'[r] = "composing"
  PROVE  phase[r] = "composing"
<1>1. phase[r] \in {"speaking", "closing", "unwinding", "ended"}
  BY DEF IInv, Shape, Media
<1>2. Media'
  BY ShapeStep DEF IInv, Shape
<1>3. r \notin acquired'
  BY <1>2 DEF Media
<1>4. acquired \subseteq acquired'
  <2>1. ASSUME NEW q \in Reply, Submit(q) \/ PutAgain(q)
        PROVE  acquired' = acquired
    BY <2>1 DEF Submit, PutAgain
  <2>2. ASSUME NEW w \in Worker, WorkerStep(w)
        PROVE  acquired \subseteq acquired'
    <3>1. CASE FallsAsleep(w) \/ WorkerStops(w)
      BY <3>1 DEF FallsAsleep, WorkerStops, replyVars
    <3>2. ASSUME NEW expired \in BOOLEAN, Takes(w, expired)
          PROVE  acquired' = acquired
      BY <3>2 DEF Takes
    <3>3. ASSUME NEW q \in Reply,
                 \/ Converse(w, q) \/ Generates(w, q) \/ Asks(w, q) \/ Spoke(w, q)
                 \/ Succeeds(w, q) \/ Retries(w, q) \/ Fails(w, q)
                 \/ UnwindGraph(w, q) \/ UnwindTurn(w, q)
          PROVE  acquired' = acquired
      BY <3>3 DEF Converse, Generates, Asks, Spoke, Succeeds, Retries, Fails, UnwindGraph, UnwindTurn
    <3>4. ASSUME NEW q \in Reply, Speaks(w, q)
          PROVE  acquired' = acquired \union {q}
      BY <3>4 DEF Speaks
    <3> QED BY <2>2, <3>1, <3>2, <3>3, <3>4 DEF WorkerStep
  <2>3. ASSUME NEW g \in Guest, GuestStep(g)
        PROVE  acquired' = acquired
    BY <2>3, GuestStepMoves DEF GuestMoves, replyVars, IInv
  <2>4. CASE SwitchBegins \/ SwitchEnds
    BY <2>4 DEF SwitchBegins, SwitchEnds, replyVars
  <2>5. CASE UNCHANGED vars
    BY <2>5 DEF vars, replyVars
  <2> QED BY <2>1, <2>2, <2>3, <2>4, <2>5 DEF Next
<1> QED
  BY <1>3, <1>4

THEOREM SpeechIsOrdered == Spec => SpokenOnceInOrder
<1>1. ASSUME IInv, [Next]_vars
      PROVE  \A r \in Reply :
               /\ phase[r] = "asking" /\ phase'[r] = "speaking" =>
                    \A q \in Reply : /\ born[q] = born[r] /\ phase[q] # "unsent"
                                     /\ sequence[q] < sequence[r]
                                     => q \in completed
               /\ r \in acquired /\ phase'[r] = "composing" => phase[r] = "composing"
  BY <1>1, SpeaksInOrder, StartedIsNotRetried
<1> QED
  BY <1>1, PipelineInvariant, PTL DEF Spec, SpokenOnceInOrder
=============================================================================
