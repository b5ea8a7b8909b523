----------------------- MODULE FormalCommitRefinement -----------------------
(***************************************************************************)
(* The refinement mapping from the coordinator's tables to the ledger it  *)
(* promises: the digests of the audit events, in sequence order.          *)
(***************************************************************************)
EXTENDS FormalCommit

Log == [n \in 1..version |-> (CHOOSE a \in audit : a.sequence = n).digest]

Ledger == INSTANCE FormalLedger WITH log <- Log

\* The interleaved requests, retries and lost replies of the coordinator are
\* one serial log of requests: every commit is a request whose stated versions
\* are the ones the log gives, whatever it read before.
ImplementsLedger == Ledger!Spec

=============================================================================
