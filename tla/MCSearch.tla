------------------------------- MODULE MCSearch -------------------------------
(* A small instance of Search for TLC. *)
EXTENDS Search

CONSTANTS w1, w2, a, j

\* A fault and a rebuild meet beside one change of the memory; both changes
\* meet either of the two.
FaultOrRebuild ==
  faults > 0 /\ task[a].pc # "none" => \E w \in Workflows : task[w].pc = "none"
=============================================================================
