--------------------------- MODULE MCFormalCommit ---------------------------
(* A small instance of FormalCommit for TLC. *)
EXTENDS FormalCommit, TLC

CONSTANTS s1, s2, p1, k1, k2, c1, c2, x1, g1, g2, tomb, none

UnitWeight == [x \in Contents \cup {Tombstone} |-> 1]
Symmetry ==
  Permutations({s1, s2}) \cup Permutations({k1, k2}) \cup Permutations({c1, c2})

\* One thing interferes with the requests: the grant is revoked, the fence
\* falls, or another writer has stored the evidence before a correction did.
\* The fence falls, and a candidate is found to be nothing new, before the
\* first commit.
OneInterference ==
  /\ Cardinality({i \in {"revoked", "fenced", "stored"} :
       CASE i = "revoked" -> p1 \notin maintainers
         [] i = "fenced" -> fenced
         [] i = "stored" -> /\ evidence # Nothing
                            /\ \A e \in audit : e.digest.kind # "correct"}) <= 1
  /\ fenced \/ (\E c \in Candidates : candidates[c].status = "noop") => version = 0
=============================================================================
