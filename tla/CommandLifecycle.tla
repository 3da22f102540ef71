-------------------------- MODULE CommandLifecycle --------------------------
(***************************************************************************)
(* What the Voyager command journal promises to the callers of the         *)
(* Minecraft control plane, without versions, tables or processes:         *)
(*                                                                         *)
(*   - a command begins at most once, and only from the queue;             *)
(*   - a command withdrawn from the queue (by a global stop, a restart or  *)
(*     a missed deadline) never begins;                                    *)
(*   - a begun command ends, or its outcome is lost; a lost outcome can    *)
(*     be re-examined, which never begins the command again;               *)
(*   - a closed command stays closed;                                      *)
(*   - a global stop withdraws every queued execute command and files its  *)
(*     own command in one indivisible step.                                *)
(***************************************************************************)
CONSTANTS Id,      \* command identities
          Stop     \* the subset of Id whose command is a global stop

VARIABLES status,  \* where each command is in its life
          begun    \* the commands that ever began

vars == <<status, begun>>

Statuses == {"absent", "pending", "active", "unknown", "closed"}

TypeOK == /\ status \in [Id -> Statuses]
          /\ begun \in SUBSET Id

Init == /\ status = [c \in Id |-> "absent"]
        /\ begun = {}

Move(c, from, to) == /\ status[c] = from
                     /\ status' = [status EXCEPT ![c] = to]

Accept(c) == Move(c, "absent", "pending") /\ UNCHANGED begun

Begin(c) == Move(c, "pending", "active") /\ begun' = begun \union {c}

Withdraw(c) == Move(c, "pending", "closed") /\ UNCHANGED begun

Settle(c) == Move(c, "active", "closed") /\ UNCHANGED begun

LoseTrack(c) == Move(c, "active", "unknown") /\ UNCHANGED begun

Reexamine(c) == Move(c, "unknown", "active") /\ UNCHANGED begun

(* A global stop files command s and withdraws the whole execute queue.    *)
RaiseBarrier(s) ==
  /\ s \in Stop
  /\ status[s] = "absent"
  /\ status' = [c \in Id |->
                 CASE c = s -> "pending"
                   [] c \notin Stop /\ status[c] = "pending" -> "closed"
                   [] OTHER -> status[c]]
  /\ UNCHANGED begun

Next == \E c \in Id : \/ Accept(c) \/ Begin(c) \/ Withdraw(c) \/ Settle(c)
                      \/ LoseTrack(c) \/ Reexamine(c) \/ RaiseBarrier(c)

Spec == Init /\ [][Next]_vars
=============================================================================
