------------------------ MODULE MCJournalConnection ------------------------
(* Small instances of the journal's connection.                            *)
EXTENDS JournalConnection, TLC

(* Executes are interchangeable, and so are the tasks of one stop request; *)
(* worker.on is chosen anew whenever it matters.                           *)
Symmetry == Permutations(Executes) \union Permutations(Stops)
=============================================================================
