--------------------------- MODULE MCPublishedPolicy ---------------------------
(***************************************************************************)
(* A small instance of PublishedPolicy for TLC: two events of one key, each   *)
(* pinning a version of its own, in production.                              *)
(***************************************************************************)
EXTENDS PublishedPolicy, TLC

CONSTANTS w1, w2, k1, v1, v2, billing, paid, ops, main, backup

OneWorker == {w1}
TwoWorkers == {w1, w2}
BothConnections == {main, backup}

Event(v) == [key |-> k1, version |-> v, policy |-> billing, type |-> paid,
             recipient |-> ops, variables |-> v]
TwoEvents == {Event(v1), Event(v2)}

Billing(active, connection, max) ==
    [id |-> billing, active |-> active, approved |-> max > 1, types |-> {paid},
     recipient |-> ops, connection |-> connection, maxAttempts |-> max]

\* An approved policy, its successor on another connection, and what must not
\* be used: switched off, without approval, or with too many attempts.
FiveDescriptors ==
    {[ours |-> TRUE, policies |-> {p}] :
        p \in {Billing(TRUE, main, 2), Billing(TRUE, backup, 3),
               Billing(FALSE, main, 2), Billing(TRUE, main, 1),
               Billing(TRUE, main, 6)}}

\* Invocations are interchangeable, and so are the versions with their events.
Symmetry == Permutations(Workers) \cup Permutations(Versions)

=============================================================================
