--------------------------- MODULE MCConsolidation ---------------------------
(* Small instances of Consolidation for TLC. *)
EXTENDS Consolidation, TLC

CONSTANTS c1, e1, s1, s2

OneEvidence == [b \in Batches |-> e1]
RetriedSteps == [claim |-> 1, batch |-> 2, finish |-> 2, release |-> 1]
SlotSymmetry == Permutations({s1, s2})

\* One thing of the project interferes: another candidate with the content, a
\* rejection, or evidence that is not clear any more.  The first two meet the
\* overlapping attempts of the base instance, the third a repair as well.
OneInterference ==
  /\ Cardinality({i \in {"foreign", "rejected", "unclear"} :
       CASE i = "foreign" -> foreign # {}
         [] i = "rejected" -> rejected # {}
         [] i = "unclear" -> ~clear[e1]}) <= 1
  /\ wf[1].stage # "absent" => foreign = {} /\ rejected = {}
=============================================================================
