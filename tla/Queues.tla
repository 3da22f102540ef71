-------------------------------- MODULE Queues --------------------------------
(***************************************************************************)
(* Queues that are left from anywhere: the waiters of an asyncio lock or   *)
(* condition, of which a cancelled one leaves, and the entries of a list   *)
(* comprehension.  Defined by positions rather than by a fold, so that     *)
(* proofs can reason about it (Queues_proofs).                             *)
(***************************************************************************)
EXTENDS Naturals, Sequences, FiniteSets

\* how many of the positions come up to i
Place(positions, i) == Cardinality({k \in positions : k <= i})

\* the j-th of the positions
Nth(positions, j) == CHOOSE i \in positions : Place(positions, i) = j

\* what stands at the given positions, in order
Kept(queue, positions) ==
  [j \in 1..Cardinality(positions) |-> queue[Nth(positions, j)]]

\* the queue without the members of S
Excluding(queue, S) == Kept(queue, {i \in DOMAIN queue : queue[i] \notin S})
=============================================================================
