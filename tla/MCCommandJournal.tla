-------------------------- MODULE MCCommandJournal --------------------------
(* Small instances of the command journal.  Submission "retry" repeats the  *)
(* request of submission "first", as a tool call repeated after a lost      *)
(* answer does; a queue of one is full after the first.                     *)
EXTENDS CommandJournal

CONSTANTS first, retry, second, halt

MCId == {first, retry, second, halt}

MCRequest == {"r1", "r2", "stop1"}

MCDraft ==
  [c \in MCId |->
    CASE c \in {first, retry} -> [request |-> "r1", kind |-> "execute"]
      [] c = second -> [request |-> "r2", kind |-> "execute"]
      [] c = halt -> [request |-> "stop1", kind |-> "stop"]]

(* blocked_unknown and reconciling alternate for ever; rows of version two   *)
(* are still expanded, so a lost outcome is re-examined at version three.   *)
MaxVersion == 2
VersionBound == \A c \in Id : commands[c].version <= MaxVersion
=============================================================================
