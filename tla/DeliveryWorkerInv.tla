-------------------------- MODULE DeliveryWorkerInv --------------------------
(***************************************************************************)
(* Why DeliveryWorker is safe: the parts of its inductive invariant.        *)
(* TLC checks them on small instances, DeliveryWorkerProofs proves them.    *)
(***************************************************************************)
EXTENDS DeliveryWorker

\* The steps that run mark_* and what follows it.
MarkSteps == {"mark_read", "mark_cas", "mark_reread", "open_circuit"}

\* The steps between the read that a conditional write rests on and the write.
WriteSteps == {"claim_cas", "mark_cas"}

\* An invocation under way has a notification, and an outcome once it has one
\* to mark.
Occupied(w) ==
    /\ job[w].pc # "idle" => job[w].event \in Events
    /\ job[w].pc \in MarkSteps => job[w].op # "none"

TypeInv == TypeOK /\ \A w \in Workers : Occupied(w)

\* An invocation runs within its timeout, on the clock it read when it started.
Timely(w) ==
    job[w].pc # "idle" =>
        /\ job[w].start <= clock
        /\ clock <= job[w].start + Timeout
        /\ job[w].now <= job[w].start + MaxSkew
        /\ job[w].start <= job[w].now + MaxSkew

\* What an invocation is about to write fits the record it read.
Fitting(w) ==
    /\ job[w].pc = "claim_cas" => Claimable(job[w].item, job[w].now)
    /\ job[w].pc = "mark_cas" => job[w].item.state \in MarkableStates(job[w].op)

\* Revisions name the contents of a record: a conditional write that finds the
\* revision it read overwrites the record it read.
Snapshot(w) ==
    job[w].pc \in WriteSteps =>
        /\ job[w].item.revision <= ledger[job[w].event].revision
        /\ job[w].item.revision = ledger[job[w].event].revision
              => job[w].item = ledger[job[w].event]

Bookkeeping ==
    \A w \in Workers : Timely(w) /\ Fitting(w) /\ Snapshot(w)

\* The invocation called SMTP and has not recorded what came of it.
HasAnswer(w) ==
    job[w].pc \in {"mark_read", "mark_cas"} /\ job[w].op \in AllSmtpOutcomes

\* The invocation has an SMTP attempt to account for.
Holds(w) == HoldsPermit(w) \/ HasAnswer(w)

\* The record of a notification an invocation holds is sending, under the lease
\* it wrote, unless another failed it.
Custody ==
    \A w \in Workers : Holds(w) =>
        LET r == ledger[job[w].event] IN
        \/ r.state = "failed"
        \/ r.state = "sending" /\ r.leaseExpiresAt = job[w].now + SendingLease

\* One invocation at a time holds a notification.
OneHolder ==
    \A v, w \in Workers :
        v # w /\ Holds(v) /\ Holds(w) => job[v].event # job[w].event

\* The next attempt at a notification may deliver it: nothing sent under the
\* last authorisation did.
Undelivered(e) == delivered[e] <= approvals[e]

\* Whoever may send again, or let another, has an undelivered notification.
AttemptsAreFresh ==
    /\ \A e \in Events :
          ledger[e].state \in {"absent", "prepared"} => Undelivered(e)
    /\ \A w \in Workers :
          HoldsPermit(w) \/ (HasAnswer(w) /\ job[w].op = "smtp_transient")
             => Undelivered(job[w].event)

\* Each SMTP attempt is paid for in advance.
AttemptsArePaid ==
    /\ \A e \in Events : ledger[e].state = "prepared" => ledger[e].attempts < MaxAttempts
    /\ \A w \in Workers :
          HoldsPermit(w) => sends[job[w].event] < ledger[job[w].event].attempts

\* A review not yet acted on is worth one authorisation.
ReviewsAreWorth ==
    \A e \in Events :
        /\ reviewed[e] <= ledger[e].revision
        /\ CanReconcile(e) => approvals[e] < reviews[e]

\* Acceptance is known to have been seen.
AcceptanceIsTrue ==
    /\ \A e \in Events : ledger[e].state = "accepted_by_smtp"
                            => delivered[e] >= 1 \/ ledger[e].reasonCode = "operator_confirmed_acceptance"
    /\ \A w \in Workers : job[w].op = "smtp_accepted" =>
          /\ job[w].event \in Events
          /\ delivered[job[w].event] >= 1
          /\ job[w].pc = "mark_reread"
                => ledger[job[w].event].state = "accepted_by_smtp"

(***************************************************************************)
(* The inductive invariant: NoBlindDuplicate alone is not preserved by Send, *)
(* which must know that whoever holds the permit holds it alone, over a      *)
(* record nobody can have delivered since the last authorisation.            *)
(***************************************************************************)
IInv ==
    /\ TypeInv
    /\ Bookkeeping
    /\ Custody
    /\ OneHolder
    /\ AttemptsAreFresh
    /\ NoBlindDuplicate

=============================================================================
