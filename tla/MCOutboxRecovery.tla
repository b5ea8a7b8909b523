-------------------------- MODULE MCOutboxRecovery --------------------------
(* Small instances of OutboxRecovery for TLC. *)
EXTENDS OutboxRecovery, TLC

CONSTANTS e1, w1, w2, q1, q2, idle

WorkerSymmetry == Permutations({w1, w2}) \cup Permutations({q1, q2})
=============================================================================
