---------------------- MODULE MCFormalCommitRefinement ----------------------
(* A small instance of the refinement for TLC. *)
EXTENDS FormalCommitRefinement, TLC

CONSTANTS s1, s2, p1, k1, k2, c1, x1, g1, tomb, none

SlotAndKeySymmetry == Permutations({s1, s2}) \cup Permutations({k1, k2})
UnitWeight == [x \in Contents \cup {Tombstone} |-> 1]

\* The grant is revoked before the first commit, and the two requests of the
\* last one are not both new: one of them repeats what has been committed.
RetryLast ==
  /\ p1 \notin maintainers => version = 0 /\ evidence = Nothing
  /\ version = MaxVersion - 1 =>
       Cardinality({s \in Slots :
         /\ req[s].pc \notin {"idle", "done"}
         /\ req[s].cmd \notin {i.digest : i \in idem}}) <= 1
=============================================================================
