--------------------------- MODULE MCSecretLifecycle ---------------------------
(***************************************************************************)
(* A small instance of SecretLifecycle for TLC.                              *)
(***************************************************************************)
EXTENDS SecretLifecycle, TLC

CONSTANTS w1, w2, ops, alice, bob, password

TwoWorkers == {w1, w2}
OneRecipient == {ops}
TwoAddresses == {alice, bob}
OnePassword == {password}

\* Invocations are interchangeable, and so are addresses.
Symmetry == Permutations(Workers) \cup Permutations(Addresses)

=============================================================================
