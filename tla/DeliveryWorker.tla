---------------------------- MODULE DeliveryWorker ----------------------------
(***************************************************************************)
(* NotificationWorker.process run by concurrent Lambda invocations over the *)
(* shared delivery ledger, with the operators who reconcile what it leaves  *)
(* uncertain.  SQS delivers at least once: any event may be handed to any    *)
(* idle invocation, any number of times.  One action is one call to the     *)
(* backend (or to SMTP) and the code that runs until the next, so the calls  *)
(* of two invocations interleave freely, and an invocation keeps the time it *)
(* read when it started for everything it later writes.                     *)
(***************************************************************************)
EXTENDS DeliveryRecord, FiniteSets

CONSTANTS Workers,        \* the invocations that may run at once
          Events,         \* notifications, one per dedupe key
          NoEvent,        \* what an idle invocation holds
          Circuits,       \* circuits, one per draft and rate namespace
          CircuitOf,      \* the circuit of each event's draft and connection
          Timeout,        \* the Lambda timeout
          MaxSkew,        \* how far a host's clock may be from real time
          MaxClock,       \* bound on time, for TLC
          SmtpOutcomes,   \* the results the SMTP adapter may return
          Faults          \* what may go wrong besides: see FaultKinds

ClaimTries == 4
FaultKinds == {"crash", "error", "lost_reply"}

CircuitReasons == {"smtp_authentication", "smtp_quota"}
Refusals == {"smtp_transient", "smtp_permanent"} \cup CircuitReasons
AllSmtpOutcomes == {"smtp_accepted", "smtp_ambiguous"} \cup Refusals

\* The transitions of mark_failed, from SMTP results and from checks.
FailureOps == {"smtp_permanent", "secret_invalid", "circuit_open"}
                 \cup CircuitReasons
Ops == AllSmtpOutcomes \cup FailureOps \cup {"none"}

ASSUME WorkersAssumption == IsFiniteSet(Workers) /\ Workers # {}
ASSUME NoEventAssumption == NoEvent \notin Events
ASSUME CircuitAssumption == CircuitOf \in [Events -> Circuits]
ASSUME TimeAssumption == Timeout \in Nat /\ MaxSkew \in Nat /\ MaxClock \in Nat
ASSUME OutcomesAssumption == SmtpOutcomes \subseteq AllSmtpOutcomes
ASSUME FaultsAssumption == Faults \subseteq FaultKinds

\* The lease outlives the invocation that took it, on anybody's clock: 45
\* seconds against a timeout of 30.
ASSUME LeaseOutlivesInvocation == Timeout + 2 * MaxSkew < SendingLease

VARIABLES
    ledger,        \* the delivery item of each event
    openCircuits,  \* the circuits with a NotificationCircuit item
    clock,         \* real time
    job,           \* what each invocation is doing
    reviewed,      \* the revision whose evidence an operator reviewed last
    acked,         \* events reported "processed", so deleted from the queue
    sends,         \* SMTP attempts made for each event
    delivered,     \* messages the provider took for each event
    approvals,     \* retries operators authorised for each event
    reviews,       \* reviews operators made of each event
    lateSends      \* SMTP attempts under a circuit after it opened

vars == <<ledger, openCircuits, clock, job, reviewed,
          acked, sends, delivered, approvals, reviews, lateSends>>

\* What only the properties read.
mail == <<sends, delivered, lateSends>>
operator == <<reviewed, approvals, reviews>>

Steps == {"idle", "prepare", "prepare_read", "connect", "secrets",
          "claim_read", "claim_cas", "claim_reread", "send",
          "mark_read", "mark_cas", "mark_reread", "open_circuit"}

\* The steps that call the ledger's backend.
StoreSteps == Steps \ {"idle", "secrets", "send"}

Job == [pc : Steps, event : Events \cup {NoEvent}, start : Nat, now : Nat,
        tries : 0..ClaimTries, sweep : BOOLEAN, acquired : BOOLEAN,
        op : Ops, item : Record]

Idle == [pc |-> "idle", event |-> NoEvent, start |-> 0, now |-> 0,
         tries |-> 0, sweep |-> FALSE, acquired |-> FALSE,
         op |-> "none", item |-> Absent]

TypeOK ==
    /\ ledger \in [Events -> Record]
    /\ openCircuits \in SUBSET Circuits
    /\ clock \in Nat
    /\ job \in [Workers -> Job]
    /\ reviewed \in [Events -> Nat]
    /\ acked \in SUBSET Events
    /\ sends \in [Events -> Nat]
    /\ delivered \in [Events -> Nat]
    /\ approvals \in [Events -> Nat]
    /\ reviews \in [Events -> Nat]
    /\ lateSends \in [Circuits -> Nat]

Init ==
    /\ ledger = [e \in Events |-> Absent]
    /\ openCircuits = {}
    /\ clock = 0
    /\ job = [w \in Workers |-> Idle]
    /\ reviewed = [e \in Events |-> 0]
    /\ acked = {}
    /\ sends = [e \in Events |-> 0]
    /\ delivered = [e \in Events |-> 0]
    /\ approvals = [e \in Events |-> 0]
    /\ reviews = [e \in Events |-> 0]
    /\ lateSends = [c \in Circuits |-> 0]

-----------------------------------------------------------------------------
(***************************************************************************)
(* What the steps are made of.                                             *)
(***************************************************************************)

\* The readings of a host's clock while real time is t.
Readings(t) == {n \in (t - MaxSkew)..(t + MaxSkew) : n >= 0}

Goto(w, step) == job' = [job EXCEPT ![w].pc = step]

\* The invocation ends: SQS deletes the message or redelivers it.
Answer(w, outcome) ==
    /\ job' = [job EXCEPT ![w] = Idle]
    /\ acked' = IF outcome = "processed" THEN acked \cup {job[w].event} ELSE acked

\* Fault: a failed record is taken for done.
OutcomeOfFinal(r) == IF r.state \in FinalStates THEN "processed" ELSE "retry"

\* The outcome of an invocation that did not send.
OutcomeOf(r) == IF r.state = "accepted_by_smtp" THEN "processed" ELSE "retry"

\* What a conditional write may answer.  The AWS client retries a request
\* whose response was lost: the second try finds the condition false, and the
\* write that was applied is reported as refused.  Or the error reaches the
\* caller, with the write applied.
Replies(holds) ==
    IF holds
    THEN {"true"} \cup (IF "lost_reply" \in Faults THEN {"false"} ELSE {})
                  \cup (IF "error" \in Faults THEN {"raised"} ELSE {})
    ELSE {"false"}

\* The condition of compare_and_set: nobody wrote the record since it was read.
Unchanged(w) ==
    LET r == ledger[job[w].event]
    IN  r.revision = job[w].item.revision /\ r.state = job[w].item.state

CompareAndSet(w, update) ==
    ledger' = IF Unchanged(w) THEN [ledger EXCEPT ![job[w].event] = update]
              ELSE ledger

-----------------------------------------------------------------------------
(***************************************************************************)
(* prepare.                                                                *)
(***************************************************************************)

\* SQS invokes the Lambda with a message, which reads its clock.
Start(w, e) ==
    /\ job[w].pc = "idle"
    /\ \E n \in Readings(clock) :
          job' = [job EXCEPT ![w] = [Idle EXCEPT !.pc = "prepare", !.event = e,
                                                 !.start = clock, !.now = n]]
    /\ UNCHANGED <<ledger, openCircuits, clock, operator, acked, mail>>

\* put_if_absent.
PutIfAbsent(w) ==
    LET e == job[w].event
        absent == ledger[e] = Absent
    IN  /\ job[w].pc = "prepare"
        /\ ledger' = IF absent THEN [ledger EXCEPT ![e] = NewRecord(job[w].now)]
                     ELSE ledger
        /\ \E reply \in Replies(absent) :
              \/ reply = "true"   /\ Goto(w, "connect") /\ UNCHANGED acked
              \/ reply = "false"  /\ Goto(w, "prepare_read") /\ UNCHANGED acked
              \/ reply = "raised" /\ Answer(w, "retry")
        /\ UNCHANGED <<openCircuits, clock, operator, mail>>

\* The existing record, and what process does with each of its states.  A
\* record that is sending goes to claim only to have its lease checked.
PrepareRead(w) ==
    LET r == ledger[job[w].event] IN
    /\ job[w].pc = "prepare_read"
    /\ IF Readable(r) /\ r.state = "prepared"
       THEN Goto(w, "connect") /\ UNCHANGED acked
       ELSE IF Readable(r) /\ r.state = "sending"
       THEN /\ job' = [job EXCEPT ![w].pc = "claim_read", ![w].sweep = TRUE]
            /\ UNCHANGED acked
       ELSE Answer(w, IF Readable(r) THEN OutcomeOf(r) ELSE "retry")
    /\ UNCHANGED <<ledger, openCircuits, clock, operator, mail>>

-----------------------------------------------------------------------------
(***************************************************************************)
(* Checks before the claim.                                                *)
(***************************************************************************)

\* The policy, the connection or a secret is not available now, or a rate
\* limit is reached.
Postpone(w) ==
    /\ job[w].pc \in {"prepare", "connect", "secrets"}
    /\ Answer(w, "retry")
    /\ UNCHANGED <<ledger, openCircuits, clock, operator, mail>>

\* Fault: the circuit is not consulted.
ConnectUnchecked(w) ==
    /\ job[w].pc = "connect"
    /\ Goto(w, "secrets")
    /\ UNCHANGED <<ledger, openCircuits, clock, operator, acked, mail>>

\* The connection is resolved and its circuit read; a rate token is taken.
Connect(w) ==
    /\ job[w].pc = "connect"
    /\ IF CircuitOf[job[w].event] \in openCircuits
       THEN job' = [job EXCEPT ![w].pc = "mark_read", ![w].op = "circuit_open"]
       ELSE Goto(w, "secrets")
    /\ UNCHANGED <<ledger, openCircuits, clock, operator, acked, mail>>

\* The credentials and the recipient are read and the message rendered, or
\* one of them is invalid for good.
ResolveSecrets(w) ==
    /\ job[w].pc = "secrets"
    /\ \/ Goto(w, "claim_read")
       \/ job' = [job EXCEPT ![w].pc = "mark_read", ![w].op = "secret_invalid"]
    /\ UNCHANGED <<ledger, openCircuits, clock, operator, acked, mail>>

-----------------------------------------------------------------------------
(***************************************************************************)
(* claim.                                                                  *)
(***************************************************************************)

\* Fault: a sending record is swept whatever its lease.
ClaimableAnyLease(r, now) == r.state \in {"prepared", "sending"}

\* claim has something to write over this record.
Claimable(r, now) ==
    \/ r.state = "prepared"
    \/ r.state = "sending" /\ now >= r.leaseExpiresAt

\* A claim of this record acquires it.
Acquires(r) == r.state = "prepared" /\ r.attempts < MaxAttempts

ClaimUpdate(r, now) ==
    IF r.state = "sending" THEN Ambiguous(r, "stale_sending_lease", now)
    ELSE IF Acquires(r) THEN Claimed(r, now)
    ELSE ClaimExhausted(r, now)

ClaimRead(w) ==
    LET r == ledger[job[w].event] IN
    /\ job[w].pc = "claim_read"
    /\ IF Readable(r) /\ Claimable(r, job[w].now)
       THEN /\ job' = [job EXCEPT ![w].pc = "claim_cas", ![w].item = r]
            /\ UNCHANGED acked
       ELSE Answer(w, IF Readable(r) THEN OutcomeOf(r) ELSE "retry")
    /\ UNCHANGED <<ledger, openCircuits, clock, operator, mail>>

\* After a refused write, claim reads again, up to four times in all.
ClaimAgain(w) ==
    IF job[w].tries + 1 < ClaimTries
    THEN /\ job' = [job EXCEPT ![w].pc = "claim_read", ![w].item = Absent,
                               ![w].tries = @ + 1]
         /\ UNCHANGED acked
    ELSE Answer(w, "retry")

ClaimCas(w) ==
    LET item == job[w].item IN
    /\ job[w].pc = "claim_cas"
    /\ CompareAndSet(w, ClaimUpdate(item, job[w].now))
    /\ \E reply \in Replies(Unchanged(w)) :
          \/ /\ reply = "true"
             /\ job' = [job EXCEPT ![w].pc = "claim_reread", ![w].item = Absent,
                                   ![w].acquired = Acquires(item)]
             /\ UNCHANGED acked
          \/ reply = "false"  /\ ClaimAgain(w)
          \/ reply = "raised" /\ Answer(w, "retry")
    /\ UNCHANGED <<openCircuits, clock, operator, mail>>

\* Fault: process goes on to send after a lease check that acquired the record.
ClaimRereadSends(w) ==
    LET r == ledger[job[w].event] IN
    /\ job[w].pc = "claim_reread"
    /\ IF Readable(r) /\ job[w].acquired /\ r.state = "sending"
       THEN Goto(w, "send") /\ UNCHANGED acked
       ELSE Answer(w, "retry")
    /\ UNCHANGED <<ledger, openCircuits, clock, operator, mail>>

\* The read that ends claim.  process sends only what it set out to claim: the
\* lease check of a sending record drops its result, acquired or not.
ClaimReread(w) ==
    LET r == ledger[job[w].event]
        claimed == job[w].acquired /\ ~job[w].sweep
    IN  /\ job[w].pc = "claim_reread"
        /\ IF Readable(r) /\ claimed /\ r.state = "sending"
           THEN Goto(w, "send") /\ UNCHANGED acked
           ELSE Answer(w, IF Readable(r) /\ ~claimed THEN OutcomeOf(r) ELSE "retry")
        /\ UNCHANGED <<ledger, openCircuits, clock, operator, mail>>

-----------------------------------------------------------------------------
(***************************************************************************)
(* Sending, and recording what came of it.                                 *)
(***************************************************************************)

\* How many messages the provider took, given the adapter's result: after an
\* ambiguous one nobody here knows.
MayDeliver(outcome) ==
    CASE outcome = "smtp_accepted"  -> {1}
      [] outcome = "smtp_ambiguous" -> {0, 1}
      [] outcome \in Refusals       -> {0}

Send(w) ==
    LET e == job[w].event
        c == CircuitOf[e]
    IN  /\ job[w].pc = "send"
        /\ \E outcome \in SmtpOutcomes : \E n \in MayDeliver(outcome) :
              /\ job' = [job EXCEPT ![w].pc = "mark_read", ![w].op = outcome]
              /\ delivered' = [delivered EXCEPT ![e] = @ + n]
        /\ sends' = [sends EXCEPT ![e] = @ + 1]
        /\ lateSends' = IF c \in openCircuits
                        THEN [lateSends EXCEPT ![c] = @ + 1] ELSE lateSends
        /\ UNCHANGED <<ledger, openCircuits, clock, operator, acked>>

\* Fault: mark_failed also fails what waits for an operator.
MarkableUncertain(op) ==
    IF op \in FailureOps THEN {"prepared", "sending", "uncertain"} ELSE {"sending"}

\* Fault: mark_failed fails whatever has not failed yet.
MarkableUnlessFailed(op) ==
    IF op \in FailureOps THEN States \ {"failed"} ELSE {"sending"}

\* The records each mark_* writes over.
MarkableStates(op) ==
    IF op \in FailureOps THEN {"prepared", "sending"} ELSE {"sending"}

\* Fault: an ambiguous result is retried like a refusal.
MarkUpdateRetries(op, r, now) ==
    CASE op = "smtp_accepted" -> Accepted(r, now)
      [] op \in {"smtp_ambiguous", "smtp_transient"} -> Refused(r, now)
      [] op \in FailureOps -> Failed(r, op, now)

\* Fault: mark_failed takes any reason.
MarkUpdateAnyReason(op, r, now) ==
    CASE op = "smtp_accepted"  -> Accepted(r, now)
      [] op = "smtp_ambiguous" -> Ambiguous(r, "smtp_ambiguous", now)
      [] OTHER -> Failed(r, op, now)

\* What each mark_* writes.
MarkUpdate(op, r, now) ==
    CASE op = "smtp_accepted"  -> Accepted(r, now)
      [] op = "smtp_ambiguous" -> Ambiguous(r, "smtp_ambiguous", now)
      [] op = "smtp_transient" -> Refused(r, now)
      [] op \in FailureOps     -> Failed(r, op, now)

\* What follows a mark_* that returned.
Marked(w) ==
    IF job[w].op \in CircuitReasons
    THEN Goto(w, "open_circuit") /\ UNCHANGED acked
    ELSE Answer(w, IF job[w].op = "smtp_accepted" THEN "processed" ELSE "retry")

\* mark_* reads the record whoever wrote it last, not the one it claimed.
\* mark_failed returns quietly when there is nothing to fail; the others raise.
MarkRead(w) ==
    LET r == ledger[job[w].event] IN
    /\ job[w].pc = "mark_read"
    /\ IF Readable(r) /\ r.state \in MarkableStates(job[w].op)
       THEN /\ job' = [job EXCEPT ![w].pc = "mark_cas", ![w].item = r]
            /\ UNCHANGED acked
       ELSE IF Readable(r) /\ job[w].op \in FailureOps THEN Marked(w)
       ELSE Answer(w, "retry")
    /\ UNCHANGED <<ledger, openCircuits, clock, operator, mail>>

MarkCas(w) ==
    /\ job[w].pc = "mark_cas"
    /\ CompareAndSet(w, MarkUpdate(job[w].op, job[w].item, job[w].now))
    /\ \E reply \in Replies(Unchanged(w)) :
          \/ /\ reply = "true"
             /\ job' = [job EXCEPT ![w].pc = "mark_reread", ![w].item = Absent]
             /\ UNCHANGED acked
          \/ reply \in {"false", "raised"} /\ Answer(w, "retry")
    /\ UNCHANGED <<openCircuits, clock, operator, mail>>

MarkReread(w) ==
    /\ job[w].pc = "mark_reread"
    /\ IF Readable(ledger[job[w].event]) THEN Marked(w) ELSE Answer(w, "retry")
    /\ UNCHANGED <<ledger, openCircuits, clock, operator, mail>>

OpenCircuit(w) ==
    /\ job[w].pc = "open_circuit"
    /\ openCircuits' = openCircuits \cup {CircuitOf[job[w].event]}
    /\ Answer(w, "retry")
    /\ UNCHANGED <<ledger, clock, operator, mail>>

-----------------------------------------------------------------------------
(***************************************************************************)
(* Faults, time and operators.                                             *)
(***************************************************************************)

\* A call to the backend raises and nothing was written.
StoreError(w) ==
    /\ "error" \in Faults
    /\ job[w].pc \in StoreSteps
    /\ Answer(w, "retry")
    /\ UNCHANGED <<ledger, openCircuits, clock, operator, mail>>

\* The invocation is lost, or Lambda stops it at its timeout.
Crash(w) ==
    /\ "crash" \in Faults
    /\ job[w].pc # "idle"
    /\ job' = [job EXCEPT ![w] = Idle]
    /\ UNCHANGED <<ledger, openCircuits, clock, operator, acked, mail>>

\* No invocation outlives its timeout.
Tick ==
    /\ clock < MaxClock
    /\ \A w \in Workers : job[w].pc # "idle" => clock < job[w].start + Timeout
    /\ clock' = clock + 1
    /\ UNCHANGED <<ledger, openCircuits, job, operator, acked, mail>>

\* An operator reviews the provider's evidence for an uncertain record and
\* notes the record's revision.
Review(e) ==
    /\ ledger[e].state = "uncertain"
    /\ reviewed[e] # ledger[e].revision
    /\ reviewed' = [reviewed EXCEPT ![e] = ledger[e].revision]
    /\ reviews' = [reviews EXCEPT ![e] = @ + 1]
    /\ UNCHANGED <<ledger, openCircuits, clock, job, approvals, acked, mail>>

\* Fault: the condition leaves the revision out.
CanReconcileAny(e) == ledger[e].state = "uncertain"

\* The condition of reconcile_delivery's update, which is submitted with the
\* revision reviewed, at any later time and any number of times.
CanReconcile(e) ==
    ledger[e].state = "uncertain" /\ ledger[e].revision = reviewed[e]

ConfirmAccepted(e) ==
    /\ CanReconcile(e)
    /\ \E n \in Readings(clock) :
          ledger' = [ledger EXCEPT ![e] = ReconciledAccepted(@, n)]
    /\ UNCHANGED <<openCircuits, clock, job, operator, acked, mail>>

AuthorizeRetry(e) ==
    /\ CanReconcile(e)
    /\ ledger[e].attempts < MaxAttempts
    /\ \E n \in Readings(clock) :
          ledger' = [ledger EXCEPT ![e] = ReconciledRetry(@, n)]
    /\ approvals' = [approvals EXCEPT ![e] = @ + 1]
    /\ UNCHANGED <<openCircuits, clock, job, reviewed, reviews, acked, mail>>

-----------------------------------------------------------------------------
WorkerStep(w) ==
    \/ \E e \in Events : Start(w, e)
    \/ PutIfAbsent(w) \/ PrepareRead(w)
    \/ Postpone(w) \/ Connect(w) \/ ResolveSecrets(w)
    \/ ClaimRead(w) \/ ClaimCas(w) \/ ClaimReread(w)
    \/ Send(w)
    \/ MarkRead(w) \/ MarkCas(w) \/ MarkReread(w) \/ OpenCircuit(w)
    \/ StoreError(w) \/ Crash(w)

OperatorStep(e) == Review(e) \/ ConfirmAccepted(e) \/ AuthorizeRetry(e)

Next ==
    \/ Tick
    \/ \E w \in Workers : WorkerStep(w)
    \/ \E e \in Events : OperatorStep(e)

Spec == Init /\ [][Next]_vars
-----------------------------------------------------------------------------
(***************************************************************************)
(* Properties.                                                             *)
(***************************************************************************)

\* The provider takes a notification at most once, and once more for each
\* retry an operator authorised: crashes, lost replies, redelivery and
\* concurrent invocations never send a blind duplicate (README.md:19,21).
NoBlindDuplicate ==
    \A e \in Events : delivered[e] <= 1 + approvals[e]

\* Every SMTP attempt was counted by the claim that led to it, and the policy's
\* budget bounds them across retries and reconciliations.
SendsWithinBudget ==
    \A e \in Events : sends[e] <= ledger[e].attempts /\ ledger[e].attempts <= MaxAttempts

\* An authorisation is spent by the retry it allows: submitting a reviewed
\* decision twice, or late, authorises nothing more.
OneAttemptPerReview ==
    \A e \in Events : approvals[e] <= reviews[e]

\* A message leaves the queue only when its record says accepted, for good, and
\* the provider took the notification unless an operator said that it did.
AckedMeansAccepted ==
    \A e \in acked :
        /\ ledger[e].state = "accepted_by_smtp"
        /\ delivered[e] >= 1 \/ ledger[e].reasonCode = "operator_confirmed_acceptance"

\* Whatever sequence of writes led to it, a stored record carries the optional
\* fields of its state and no others, so the store's own reads accept it.
FieldDiscipline ==
    \A e \in Events : ledger[e] = Absent \/ WellFormed(ledger[e])

\* Once a circuit is open, only invocations already past its check still send
\* through it, each once and never the one that opened it.
LateSendsBounded ==
    \A c \in Circuits : lateSends[c] <= Cardinality(Workers) - 1

\* Nothing is sent for a notification whose record is uncertain, accepted, or
\* free to be claimed: the claim of an invocation that sends is not yet over.
SendsUnderClaim ==
    [][\A e \in Events : sends'[e] # sends[e]
                            => ledger[e].state \in {"sending", "failed"}]_vars

\* An uncertain record changes only by a decision on the revision reviewed: no
\* late answer, redelivery or lease check moves it (README.md:19).
UncertainWaitsForOperator ==
    [][\A e \in Events :
          ledger[e].state = "uncertain" /\ ledger'[e] # ledger[e]
             => ledger[e].revision = reviewed[e] /\ ledger'[e].approved]_vars

\* Accepted and failed records are never written again.
FinalRecordsStay ==
    [][\A e \in Events : ledger[e].state \in FinalStates => ledger'[e] = ledger[e]]_vars

-----------------------------------------------------------------------------
(***************************************************************************)
(* Refinement.                                                             *)
(***************************************************************************)

\* The invocation acquired the record and has not yet called SMTP.
HoldsPermit(w) ==
    \/ job[w].pc = "send"
    \/ job[w].pc = "claim_reread" /\ job[w].acquired /\ ~job[w].sweep

Lifecycle == INSTANCE DeliveryLifecycle WITH
    Budget     <- MaxAttempts,
    status     <- [e \in Events |-> ledger[e].state],
    attempts   <- [e \in Events |-> ledger[e].attempts],
    permit     <- [e \in Events |-> \E w \in Workers :
                                       job[w].event = e /\ HoldsPermit(w)],
    taken      <- delivered,
    authorised <- [e \in Events |-> 1 + approvals[e]]

\* The ledger protocol implements the life of a record: a lease is declared
\* stale, a retry made and a reconciliation applied only when no invocation
\* still holds a permit to send.
ImplementsLifecycle == Lifecycle!Spec

-----------------------------------------------------------------------------
(***************************************************************************)
(* What the documentation and the tests say, and the code does not keep.   *)
(***************************************************************************)

\* A failed record stands for a notification nobody received under the last
\* authorisation: an acceptance that could not be committed becomes uncertain,
\* so that operators see it (README.md:19).
FailedNeverDelivered ==
    \A e \in Events : ledger[e].state = "failed" => delivered[e] <= approvals[e]

\* The store never writes a record that it then takes for corrupt.
RecordsStayReadable ==
    \A e \in Events : ledger[e] = Absent \/ Readable(ledger[e])

\* An invocation whose SMTP attempt met an authentication or quota failure
\* leaves the circuit open (README.md:19).
RefusalOpensCircuit ==
    [][\A w \in Workers :
          job[w].op \in CircuitReasons /\ job'[w].pc = "idle"
             => CircuitOf[job[w].event] \in openCircuits']_vars

=============================================================================
