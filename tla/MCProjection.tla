---------------------------- MODULE MCProjection ----------------------------
(* A small instance of Projection for TLC. *)
EXTENDS Projection

CONSTANTS m1, m2, o1, o2

Busy == Cardinality({o \in Operators : op[o].pc # "idle"})

\* Operators take turns once there was a fault, or once a version is rebuilt
\* twice and another committed; with a fault, no version follows the one that
\* is rebuilt twice.
FaultApart ==
  LET resumed == Cardinality(Enqueued) > 1
  IN  /\ faults > 0 \/ (resumed /\ version = 2) => Busy <= 1
      /\ faults > 0 /\ resumed => version = 1
=============================================================================
