------------------------ MODULE MCLivestreamSession ------------------------
(* Small instances of the livestream session.  The numbers of commands, of *)
(* task slots and of rooms break their symmetry.                           *)
EXTENDS LivestreamSession

MCOp == {1, 2}
MCSlot == {11, 12}
MCRoom == {1, 2}
One == {1}
=============================================================================
