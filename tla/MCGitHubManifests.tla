-------------------------- MODULE MCGitHubManifests --------------------------
(* A small instance of GitHubManifests for TLC. *)
EXTENDS GitHubManifests, TLC

CONSTANTS p, q, j1, j2

\* From the first to the second a path is deleted and one withdrawn; back, one
\* is added and one changed.
MCFirst == [x \in {p, q} |-> "text1"]
MCCommits ==
  {MCFirst,
   [x \in {p, q} |-> IF x = p THEN "none" ELSE "secret"]}

\* One of the paths is relied on.
CiteOne == cited \subseteq {q}

\* Two jobs of retention overlap beside the attempts of the first occurrence;
\* a second occurrence follows one of them without a fault, or none.
RetentionFirst ==
  (\E s \in Slots \ {1} : wf[s].pc # "none") =>
    \/ \A k \in Jobs : job[k].pc = "none"
    \/ /\ \A k \in Jobs : job[k].pc \in {"none", "done"}
       /\ Cardinality({k \in Jobs : job[k].pc = "done"}) = 1
       /\ faults = 0

\* GitHub moves once.
OnePush == remote' # remote => remote = MCFirst

JobSymmetry == Permutations({j1, j2})

\* The fault falls in the first occurrence.
FaultFirst == faults' > faults => wf[2].pc = "none"

\* After a fault the second occurrence begins without a retry, and its lease
\* does not expire; both jobs run only while GitHub has not moved.
SecondIsPlain ==
  /\ faults > 0 /\ wf[2].pc # "none" =>
       /\ wf[1].tries = 0 /\ wf[2].tries = 0
       /\ run[2].st = "running" => run[2].live
  /\ (\A k \in Jobs : job[k].pc # "none") => remote = MCFirst
=============================================================================
