---------------------------- MODULE DeliveryRecord ----------------------------
(***************************************************************************)
(* One item of the delivery ledger, the DynamoDB table that records what    *)
(* happened to each notification: its fields, the transitions that          *)
(* DeliveryStore and the reconciliation tool write, and the validation that  *)
(* every read goes through.                                                 *)
(*                                                                         *)
(* The identity fields copied from the event (hash, template, recipient...) *)
(* never change after prepare and are left out.  expiresAt is createdAt     *)
(* plus 90 days: the clock of the model never gets that far.                *)
(***************************************************************************)
EXTENDS Integers

CONSTANTS MaxAttempts,    \* the attempt budget pinned by the policy, at most 5
          SendingLease    \* SENDING_LEASE_SECONDS, in the model's units of time

ASSUME AttemptsAssumption == MaxAttempts \in 1..5
ASSUME LeaseAssumption == SendingLease \in Nat \ {0}

States == {"prepared", "sending", "accepted_by_smtp", "uncertain", "failed"}

\* States no transition of the store or of the tool leaves.
FinalStates == {"accepted_by_smtp", "failed"}

AcceptedReasons == {"smtp_accepted", "operator_confirmed_acceptance"}
UncertainReasons == {"smtp_ambiguous", "stale_sending_lease"}
FailedReasons == {"smtp_permanent", "smtp_authentication", "smtp_quota",
                  "retry_exhausted", "secret_invalid", "circuit_open"}

\* An optional field the item does not carry.
Missing == -1
NoReason == "none"

Record ==
    [state          : States \cup {"absent"},
     attempts       : Nat,
     revision       : Nat,
     createdAt      : Nat,
     updatedAt      : Nat,
     leaseExpiresAt : Nat \cup {Missing},
     acceptedAt     : Nat \cup {Missing},
     uncertainAt    : Nat \cup {Missing},
     failedAt       : Nat \cup {Missing},
     reasonCode     : AcceptedReasons \cup UncertainReasons \cup FailedReasons
                         \cup {NoReason},
     approved       : BOOLEAN]      \* carries reconciliationApprovalId

\* No item under the key.
Absent ==
    [state |-> "absent", attempts |-> 0, revision |-> 0, createdAt |-> 0,
     updatedAt |-> 0, leaseExpiresAt |-> Missing, acceptedAt |-> Missing,
     uncertainAt |-> Missing, failedAt |-> Missing, reasonCode |-> NoReason,
     approved |-> FALSE]

(***************************************************************************)
(* Transitions.  Each is the item a conditional write leaves behind, given  *)
(* the item it was written over.                                           *)
(***************************************************************************)

\* The item that prepare creates.
NewRecord(now) ==
    [Absent EXCEPT !.state = "prepared", !.revision = 1,
                   !.createdAt = now, !.updatedAt = now]

\* What every write does: the revision grows by one and updatedAt is the
\* writer's clock.
Move(r, state, now) ==
    [r EXCEPT !.state = state, !.revision = @ + 1, !.updatedAt = now]

\* Fault: the claim does not count the attempt.
ClaimedUncounted(r, now) ==
    [Move(r, "sending", now) EXCEPT !.leaseExpiresAt = now + SendingLease,
                                    !.reasonCode = NoReason]

\* claim, on a prepared record with budget left.
Claimed(r, now) ==
    [Move(r, "sending", now) EXCEPT !.attempts = @ + 1,
                                    !.leaseExpiresAt = now + SendingLease,
                                    !.reasonCode = NoReason]

\* claim, on a prepared record whose budget is spent.
ClaimExhausted(r, now) ==
    [Move(r, "failed", now) EXCEPT !.reasonCode = "retry_exhausted",
                                   !.failedAt = now]

\* mark_uncertain, and claim on a record whose lease has run out.
Ambiguous(r, reason, now) ==
    [Move(r, "uncertain", now) EXCEPT !.reasonCode = reason,
                                      !.uncertainAt = now,
                                      !.leaseExpiresAt = Missing]

\* mark_accepted.
Accepted(r, now) ==
    [Move(r, "accepted_by_smtp", now) EXCEPT !.reasonCode = "smtp_accepted",
                                             !.acceptedAt = now,
                                             !.leaseExpiresAt = Missing]

\* mark_failed.
Failed(r, reason, now) ==
    [Move(r, "failed", now) EXCEPT !.reasonCode = reason,
                                   !.failedAt = now,
                                   !.leaseExpiresAt = Missing]

\* mark_retryable.
Refused(r, now) ==
    IF r.attempts >= MaxAttempts
    THEN Failed(r, "retry_exhausted", now)
    ELSE [Move(r, "prepared", now) EXCEPT !.leaseExpiresAt = Missing,
                                          !.reasonCode = NoReason]

\* reconcile_delivery, decision "accepted".
ReconciledAccepted(r, now) ==
    [Move(r, "accepted_by_smtp", now)
        EXCEPT !.reasonCode = "operator_confirmed_acceptance",
               !.acceptedAt = now, !.uncertainAt = Missing, !.approved = TRUE]

\* Fault: the update forgets to REMOVE uncertainAt.
ReconciledRetryKeepsStamp(r, now) ==
    [Move(r, "prepared", now) EXCEPT !.reasonCode = NoReason, !.approved = TRUE]

\* reconcile_delivery, decision "retry".
ReconciledRetry(r, now) ==
    [Move(r, "prepared", now) EXCEPT !.uncertainAt = Missing,
                                     !.reasonCode = NoReason,
                                     !.approved = TRUE]

(***************************************************************************)
(* Validation.                                                             *)
(***************************************************************************)

\* The outcome stamp and the reasons a state asks for.
StampedBy(r, stamp, reasons) == stamp = r.updatedAt /\ r.reasonCode \in reasons

\* The checks of _validated_delivery, the order of the timestamps aside: a
\* record carries the optional fields of its state and no others.
WellFormed(r) ==
    /\ r.state \in States
    /\ r.attempts \in 0..MaxAttempts
    /\ r.revision >= 1
    /\ (r.leaseExpiresAt # Missing) <=> (r.state = "sending")
    /\ (r.acceptedAt # Missing) <=> (r.state = "accepted_by_smtp")
    /\ (r.uncertainAt # Missing) <=> (r.state = "uncertain")
    /\ (r.failedAt # Missing) <=> (r.state = "failed")
    /\ (r.reasonCode # NoReason) <=> (r.state \notin {"prepared", "sending"})
    /\ r.state = "sending" => r.leaseExpiresAt = r.updatedAt + SendingLease
    /\ r.state = "accepted_by_smtp" => StampedBy(r, r.acceptedAt, AcceptedReasons)
    /\ r.state = "uncertain" => StampedBy(r, r.uncertainAt, UncertainReasons)
    /\ r.state = "failed" => StampedBy(r, r.failedAt, FailedReasons)
    /\ r.reasonCode = "operator_confirmed_acceptance" => r.approved

\* The records DeliveryStore.get returns; it raises DeliveryConflict on any
\* other.
Readable(r) == WellFormed(r) /\ r.createdAt <= r.updatedAt

=============================================================================
