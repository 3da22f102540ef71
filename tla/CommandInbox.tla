----------------------------- MODULE CommandInbox -----------------------------
(***************************************************************************)
(* services/command_inbox.py: the SQLite table that gives every accepted   *)
(* command of chat, singing, memes and memory one identity, on the single  *)
(* connection that all of its callers share.                               *)
(*                                                                         *)
(* An operation holds the inbox lock from BEGIN IMMEDIATE to commit, so it  *)
(* is one step.  What the lock does not cover is a task cancelled inside:   *)
(* CancelledError is not an Exception, nothing rolls back, and the next     *)
(* BEGIN fails on the transaction that is still open.  So the rows that    *)
(* the connection shows and the rows on disk are two variables.            *)
(*                                                                         *)
(* accept() answers CONFLICT, OBSERVE, REPLAY or TERMINAL for a row that    *)
(* exists and changes nothing: only its EXECUTE is an action.              *)
(***************************************************************************)
EXTENDS Naturals

CONSTANTS Key \* (scope, kind, task_id)

VARIABLES rows, \* the status of each key as the connection shows it
          disk, \* the status that a new connection would find
          conn  \* closed, ready, or stuck in a transaction nobody ends

inboxVars == <<rows, disk, conn>>

(* Mutant: a row that already ended can be moved once more.                *)
ActiveOrDone == {"accepted", "processing", "waiting_approval", "succeeded"}

Active == {"accepted", "processing", "waiting_approval"}
Terminal == {"succeeded", "failed", "cancelled", "interrupted"}
Statuses == {"absent"} \union Active \union Terminal

InboxTypeOK ==
  /\ rows \in [Key -> Statuses]
  /\ disk \in [Key -> Statuses]
  /\ conn \in {"closed", "ready", "stuck"}
  /\ conn # "stuck" => rows = disk

InboxInit ==
  /\ rows = [k \in Key |-> "absent"]
  /\ disk = rows
  /\ conn = "ready"

(* Anything but ready raises: BEGIN inside a transaction, or a closed      *)
(* connection.                                                             *)
Ready == conn = "ready"

Commit(table) == rows' = table /\ disk' = table /\ conn' = "ready"

Moved(k, from, to) ==
  IF rows[k] \in from THEN [rows EXCEPT ![k] = to] ELSE rows

(* Mutant: a task that is still active is executed again, not observed.    *)
NewToObserver(k) == rows[k] \in {"absent", "accepted"}

(* Mutant: an interrupted command is retried under its old identity.       *)
NewAfterRestart(k) == rows[k] \in {"absent", "interrupted"}

IsNew(k) == rows[k] = "absent"

Accept(k) ==
  /\ Ready
  /\ IsNew(k)
  /\ Commit([rows EXCEPT ![k] = "accepted"])

(* A row in any other state is left alone, and its state is returned.      *)
Transition(k, from, to) == Ready /\ Commit(Moved(k, from, to))

(* The caller of a transition is cancelled at one of its awaits: after     *)
(* BEGIN, after the UPDATE, or while the commit runs to its end.           *)
CutOff(k, from, to) ==
  /\ Ready
  /\ \/ conn' = "stuck" /\ UNCHANGED <<rows, disk>>
     \/ rows[k] \in from /\ conn' = "stuck" /\ rows' = Moved(k, from, to) /\ UNCHANGED disk
     \/ Commit(Moved(k, from, to))

Without(table, expired) == [k \in Key |-> IF k \in expired THEN "absent" ELSE table[k]]

(* cleanup_expired: terminal rows whose seven days have passed.  It opens   *)
(* no transaction of its own, so its commit ends a stuck one.              *)
CleanUp(expired) ==
  /\ conn # "closed"
  /\ expired \subseteq {k \in Key : rows[k] \in Terminal}
  /\ Commit(Without(rows, expired))

Recovered(k) == IF disk[k] \in {"accepted", "processing"} THEN "interrupted" ELSE disk[k]

(* start: nothing that another process left active is taken up again,      *)
(* except approvals, which wait for reconciliation.                        *)
Start(expired) ==
  /\ conn = "closed"
  /\ expired \subseteq {k \in Key : disk[k] \in Terminal}
  /\ Commit(Without([k \in Key |-> Recovered(k)], expired))

(* Mutant: an open transaction outlives its connection.                    *)
DisconnectKept == conn' = "closed" /\ UNCHANGED <<rows, disk>>

(* close, or the end of the process: an open transaction is rolled back.   *)
Disconnect == conn' = "closed" /\ rows' = disk /\ UNCHANGED disk
=============================================================================
