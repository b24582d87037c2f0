--------------------------- MODULE MCDeliveryWorker ---------------------------
(***************************************************************************)
(* Small instances of DeliveryWorker for TLC.                              *)
(***************************************************************************)
EXTENDS DeliveryWorkerInv, TLC

CONSTANTS w1, w2, e1, e2, smtp2go

TwoWorkers == {w1, w2}
OneEvent == {e1}
TwoEvents == {e1, e2}
OneCircuit == {smtp2go}

\* Every event goes through the one connection.
SharedCircuit == [e \in Events |-> smtp2go]

NoFaults == {}
CircuitOutcomes == {"smtp_accepted", "smtp_authentication", "smtp_transient"}

\* Invocations are interchangeable, and so are notifications.
WorkerSymmetry == Permutations(Workers)
Symmetry == Permutations(Workers) \cup Permutations(Events)

=============================================================================
