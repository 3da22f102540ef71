------------------------ MODULE MCMissionCoordinator ------------------------
(* Small missions: every objective depends on the one before it; objective *)
(* 3 is what the adaptive runtime may propose.  Children are named up to   *)
(* the highest version an objective can reach.                             *)
EXTENDS MissionCoordinator

CONSTANTS MaxVersion, MaxStops

MCId == (Objective \X (1..MaxVersion)) \union ({0} \X (1..MaxStops))
MCDraft == [c \in MCId |-> [request |-> c, kind |-> IF c[1] = 0 THEN "stop" ELSE "execute"]]
MCNeeds == [o \in Objective |-> IF o > 1 THEN {o - 1} ELSE {}]
MCCost == [o \in Objective |-> 1]
=============================================================================
