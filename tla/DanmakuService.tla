--------------------------- MODULE DanmakuService ---------------------------
(***************************************************************************)
(* The danmaku transports of a livestream: one DanmakuService object, and  *)
(* one thread with an event loop of its own, for every generation that     *)
(* started a gateway.  What a thread tells the session it hands over with  *)
(* call_soon_threadsafe; the session's part of that is LivestreamSession.  *)
(*                                                                         *)
(* A message stands for any normalized event that carries text; events of  *)
(* other kinds only move metrics and are left out.  The queue between the  *)
(* client library and the hand-over is drained at once while there is a    *)
(* connection or one is being made.  The library connects, delivers, fails *)
(* and drops the connection as it likes, and the broadcast starts and ends *)
(* as it likes.                                                            *)
(***************************************************************************)
EXTENDS Integers

CONSTANT MaxGeneration \* bound: generations of the session

ASSUME ServiceAssumption == MaxGeneration \in Nat

Generation == 1..MaxGeneration

VARIABLES
  thread,   \* state of the thread of each generation
  running,  \* _running
  realtime, \* _broadcast_event_seen
  recent,   \* _seen_events: the broadcast states queued by a query
  query,    \* the initial room query of the current connection
  overdue   \* a room query of an earlier connection is still under way

serviceVars == <<thread, running, realtime, recent, query, overdue>>

Broadcasts == {"live", "prelive"}
Callbacks == Broadcasts \union {"message", "up", "down", "fatal"}

ServiceTypeOK ==
  /\ thread \in [Generation -> {"none", "connecting", "up", "leaving", "backoff", "gone"}]
  /\ running \in [Generation -> BOOLEAN] /\ realtime \in [Generation -> BOOLEAN]
  /\ recent \in [Generation -> SUBSET Broadcasts]
  /\ query \in [Generation -> {"none", "asked", "answered"}] /\ overdue \in [Generation -> BOOLEAN]

ServiceInit ==
  /\ thread = [g \in Generation |-> "none"]
  /\ running = [g \in Generation |-> FALSE] /\ realtime = [g \in Generation |-> FALSE]
  /\ recent = [g \in Generation |-> {}]
  /\ query = [g \in Generation |-> "none"] /\ overdue = [g \in Generation |-> FALSE]
-----------------------------------------------------------------------------
(* Calls of the session.                                                   *)
StartThread(g) ==
  /\ thread' = [thread EXCEPT ![g] = "connecting"]
  /\ running' = [running EXCEPT ![g] = TRUE]
  /\ UNCHANGED <<realtime, recent, query, overdue>>

ForgetAll(g) ==
  /\ query' = [query EXCEPT ![g] = "none"] /\ overdue' = [overdue EXCEPT ![g] = FALSE]
  /\ recent' = [recent EXCEPT ![g] = {}]
  /\ realtime' = [realtime EXCEPT ![g] = FALSE]

(* stop tells the thread to end, and waits for it five seconds at most.    *)
(* Nothing the thread still hands over is taken, so what it remembers is   *)
(* left out from here on.                                                  *)
StopThread(g) ==
  /\ running' = [running EXCEPT ![g] = FALSE]
  /\ ForgetAll(g)
  /\ UNCHANGED thread
-----------------------------------------------------------------------------
(* Steps of the thread that hand something over: the operators' second     *)
(* parameter, where there is a choice.                                     *)

(* VERIFICATION_SUCCESSFUL: the status first, then the room is asked       *)
(* whether it broadcasts.                                                  *)
Verified(g) ==
  /\ thread[g] = "connecting"
  /\ thread' = [thread EXCEPT ![g] = "up"]
  /\ query' = [query EXCEPT ![g] = IF running[g] THEN "asked" ELSE "none"]
  /\ UNCHANGED <<running, realtime, recent, overdue>>

(* The task that asked the room outlives its connection: it ends when its  *)
(* answer or its failure comes, or with the loop of the thread.            *)
QueryEnds(g, how) ==
  \/ /\ query[g] = "asked" /\ query' = [query EXCEPT ![g] = how]
     /\ UNCHANGED overdue
  \/ /\ overdue[g] /\ \E more \in BOOLEAN : overdue' = [overdue EXCEPT ![g] = more]
     /\ UNCHANGED query

(* A broadcast event that was seen before wins over the answer, and an     *)
(* event is queued only once in dedup_ttl_seconds.  The event an answer    *)
(* makes up has no payload: two of one kind are the same event.            *)
IsDuplicateEvent(g, event) == event \in recent[g]

QueryAnswers(g, event) ==
  /\ ~realtime[g] /\ ~IsDuplicateEvent(g, event)
  /\ thread[g] \in {"connecting", "up"} /\ QueryEnds(g, "answered")
  /\ recent' = [recent EXCEPT ![g] = @ \union {event}]
  /\ UNCHANGED <<thread, running, realtime>>

(* The consumer hands on what it gets from its queue, although stop may    *)
(* have come while it waited for that.  After a broadcast event no answer  *)
(* is used, so what it would be held against is left out from here on.     *)
Consumes(g, event) ==
  /\ thread[g] = "up"
  /\ IF running[g] /\ event \in Broadcasts
     THEN /\ realtime' = [realtime EXCEPT ![g] = TRUE]
          /\ recent' = [recent EXCEPT ![g] = {}] /\ overdue' = [overdue EXCEPT ![g] = FALSE]
     ELSE UNCHANGED <<realtime, recent, overdue>>
  /\ UNCHANGED <<thread, running, query>>

(* The connection ends, or could not be made: the first thing said is      *)
(* "Disconnected", whatever _run makes of it next.                         *)
Disconnects(g) ==
  /\ thread[g] \in {"connecting", "up"}
  /\ thread' = [thread EXCEPT ![g] = "leaving"]
  /\ query' = [query EXCEPT ![g] = "none"]
  /\ overdue' = [overdue EXCEPT ![g] = @ \/ (query[g] = "asked" /\ ~realtime[g])]
  /\ UNCHANGED <<running, realtime, recent>>

(* The thread ends: it says so after a terminal error and when the last    *)
(* retry failed.  Nothing reads the memory of a thread that is gone.       *)
Exits(g) ==
  /\ thread[g] = "leaving"
  /\ thread' = [thread EXCEPT ![g] = "gone"]
  /\ ForgetAll(g)
  /\ UNCHANGED running

(* "Reconnecting in ...", before the backoff.                              *)
Breaks(g) ==
  /\ thread[g] = "leaving" /\ running[g]
  /\ thread' = [thread EXCEPT ![g] = "backoff"]
  /\ UNCHANGED <<running, realtime, recent, query, overdue>>

ThreadTells(g, callback) ==
  \/ callback = "up" /\ Verified(g)
  \/ callback \in Broadcasts /\ QueryAnswers(g, callback)
  \/ callback \in Broadcasts \union {"message"} /\ Consumes(g, callback)
  \/ callback = "down" /\ (Disconnects(g) \/ Breaks(g))
  \/ callback = "fatal" /\ Exits(g)
-----------------------------------------------------------------------------
(* Steps of the thread that hand nothing over.                             *)

QueryFails(g) ==
  /\ QueryEnds(g, "none")
  /\ UNCHANGED <<thread, running, realtime, recent>>

AnswerIsDropped(g, event) ==
  /\ realtime[g] \/ IsDuplicateEvent(g, event)
  /\ QueryEnds(g, "answered")
  /\ UNCHANGED <<thread, running, realtime, recent>>

(* dedup_ttl_seconds pass.                                                 *)
Forget(g) ==
  /\ recent[g] # {}
  /\ recent' = [recent EXCEPT ![g] = {}]
  /\ UNCHANGED <<thread, running, realtime, query, overdue>>

(* The client library cannot be imported, or makes no monitor.             *)
CannotConnect(g) ==
  /\ thread[g] = "connecting"
  /\ thread' = [thread EXCEPT ![g] = "leaving"]
  /\ UNCHANGED <<running, realtime, recent, query, overdue>>

(* After a clean close the next connection is made at once; a thread that  *)
(* was told to stop ends after an error too.                               *)
Closes(g) ==
  \/ /\ thread[g] = "leaving" /\ running[g]
     /\ thread' = [thread EXCEPT ![g] = "connecting"]
     /\ UNCHANGED <<running, realtime, recent, query, overdue>>
  \/ ~running[g] /\ Exits(g)

(* Nothing interrupts the sleep of the backoff, up to a minute.            *)
BackoffEnds(g) ==
  /\ thread[g] = "backoff"
  /\ thread' = [thread EXCEPT ![g] = IF running[g] THEN "connecting" ELSE "gone"]
  /\ UNCHANGED <<running, realtime, recent, query, overdue>>

ThreadWorks(g) ==
  \/ QueryFails(g) \/ Forget(g) \/ CannotConnect(g) \/ Closes(g) \/ BackoffEnds(g)
  \/ \E event \in Broadcasts : AnswerIsDropped(g, event)
=============================================================================
