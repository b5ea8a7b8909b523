---------------------------- MODULE MCGitHubSync ----------------------------
(* A small instance of GitHubSync for TLC. *)
EXTENDS GitHubSync, TLC

CONSTANTS a, b

CredSymmetry == Permutations({a, b})

\* A dispatch of another credential than the deployed one
Rotated == \E d \in Dispatches : dwf[d].pc # "none" /\ Cred(d) # env

\* A rotation within the first occurrence, a change of the configuration, or a
\* second occurrence.
OneChange ==
  Cardinality({change \in {"rotation", "configuration", "occurrence"} :
    CASE change = "rotation" -> Rotated
      [] change = "configuration" -> cfg > 1
      [] change = "occurrence" -> clock > 1}) <= 1

\* The fault falls in the first occurrence.
FaultFirst == faults' > faults => clock = 1

\* Attempts are repeated in the first occurrence, without a fault or a rotation;
\* the lane of the second does not expire, nor does its run after a fault.
SecondIsPlain ==
  /\ clock > 1 \/ faults > 0 \/ Rotated => \A d \in Dispatches : rwf[d].tries = 0
  /\ \A c \in Creds : \A h \in lane[c].holder : Slot(h[2]) = 2 => lane[c].live
  /\ faults > 0 /\ run[2].st = "running" => run[2].live
=============================================================================
