------------------------------ MODULE MCRateLimit ------------------------------
(***************************************************************************)
(* Small instances of RateLimit for TLC.                                    *)
(***************************************************************************)
EXTENDS RateLimit, TLC

CONSTANTS w1, w2, d1, d2, smtp2go

TwoWorkers == {w1, w2}
OneDraft == {d1}
TwoDrafts == {d1, d2}
OneNamespace == {smtp2go}
NoFaults == {}

\* Invocations are interchangeable, and so are drafts.
Symmetry == Permutations(Workers) \cup Permutations(Drafts)

=============================================================================
