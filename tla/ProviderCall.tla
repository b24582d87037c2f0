------------------------------ MODULE ProviderCall ------------------------------
(***************************************************************************)
(* What the ledger protocol relies on when it makes an attempt: one call to  *)
(* the provider, its result, and whether the provider took the message.      *)
(* DeliveryWorker!MayDeliver allows the same pairs.                         *)
(***************************************************************************)
CONSTANTS Refusals

VARIABLES taken,    \* the provider took the message
          result    \* what the call returned

vars == <<taken, result>>

Init == taken = FALSE /\ result = "none"

\* Only a call that is not over, or whose result says nothing, lets the
\* provider take the message.
Take ==
    /\ result \in {"none", "smtp_ambiguous"}
    /\ taken' = TRUE
    /\ UNCHANGED result

Accept ==
    /\ result = "none" /\ taken
    /\ result' = "smtp_accepted"
    /\ UNCHANGED taken

Refuse ==
    /\ result = "none" /\ ~taken
    /\ result' \in Refusals
    /\ UNCHANGED taken

LoseTrack ==
    /\ result = "none"
    /\ result' = "smtp_ambiguous"
    /\ UNCHANGED taken

Next == Take \/ Accept \/ Refuse \/ LoseTrack

Spec == Init /\ [][Next]_vars

=============================================================================
