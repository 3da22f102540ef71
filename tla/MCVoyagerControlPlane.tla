----------------------- MODULE MCVoyagerControlPlane -----------------------
(* Small instances of the control plane.  Every submission has a request of *)
(* its own; retried requests are the business of MCCommandJournal.          *)
EXTENDS VoyagerControlPlane, TLC

CONSTANTS Executes, Stops  \* sets of model values

MCId == Executes \union Stops

MCDraft == [c \in MCId |->
             [request |-> c, kind |-> IF c \in Executes THEN "execute" ELSE "stop"]]

(* Commands of one kind are interchangeable in the runs without liveness.   *)
Symmetry == Permutations(Executes) \union Permutations(Stops)
=============================================================================
