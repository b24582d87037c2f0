-------------------------- MODULE DeliveryWorkerLedger --------------------------
(***************************************************************************)
(* What the ledger says is true: records stay well formed, attempts stay     *)
(* within the budget, authorisations within the reviews, and accepted means   *)
(* accepted.                                                               *)
(***************************************************************************)
EXTENDS DeliveryWorkerProofs, FiniteSetTheorems

(***************************************************************************)
(* What a step does to a record.                                           *)
(***************************************************************************)

\* A record and what an invocation at time now makes of it.
Created(r, u, now) == r = Absent /\ u = NewRecord(now)
ClaimedFrom(r, u, now) == Claimable(r, now) /\ u = ClaimUpdate(r, now)
MarkedFrom(op, r, u, now) == r.state \in MarkableStates(op) /\ u = MarkUpdate(op, r, now)

\* An invocation creates, claims or marks the record of its own notification,
\* as it finds it.
LEMMA RecordStep ==
    ASSUME TypeInv, Bookkeeping, NEW w \in Workers, WorkerStep(w), NEW e \in Events,
           ledger'[e] # ledger[e]
    PROVE  /\ e = job[w].event
           /\ ledger[e] \in Record /\ job[w].now \in Nat
           /\ \/ PutIfAbsent(w) /\ Created(ledger[e], ledger'[e], job[w].now)
              \/ ClaimCas(w) /\ ClaimedFrom(ledger[e], ledger'[e], job[w].now)
              \/ /\ MarkCas(w) /\ job[w].op \in Ops \ {"none"}
                 /\ MarkedFrom(job[w].op, ledger[e], ledger'[e], job[w].now)
<1>0. /\ e = job[w].event /\ job[w].now \in Nat /\ Snapshot(w) /\ Fitting(w)
      /\ ledger[e] \in Record
  BY WorkerWrites, JobTypes DEF Bookkeeping, TypeInv, TypeOK
<1>1. CASE PutIfAbsent(w)
  <2>1. ledger' = [ledger EXCEPT ![e] = NewRecord(job[w].now)] /\ ledger[e] = Absent
    BY <1>0, <1>1, PutIfAbsentKind
  <2> QED
    BY <1>0, <1>1, <2>1 DEF Created, TypeInv, TypeOK
<1>2. CASE ClaimCas(w)
  <2>1. job[w].pc = "claim_cas" /\ Written(w, ClaimUpdate(job[w].item, job[w].now))
    BY <1>0, <1>2, ClaimCasKind DEF ClaimCas
  <2>2. job[w].item = ledger[e] /\ ledger'[e] = ClaimUpdate(job[w].item, job[w].now)
    BY <1>0, <2>1, WrittenOver DEF WriteSteps
  <2> QED
    BY <1>0, <1>2, <2>1, <2>2 DEF Fitting, ClaimedFrom
<1>3. CASE MarkCas(w)
  <2>1. /\ job[w].pc = "mark_cas" /\ job[w].op \in Ops \ {"none"}
        /\ Written(w, MarkUpdate(job[w].op, job[w].item, job[w].now))
    BY <1>0, <1>3, MarkCasKind, JobTypes DEF MarkCas, MarkSteps
  <2>2. job[w].item = ledger[e] /\ ledger'[e] = MarkUpdate(job[w].op, job[w].item, job[w].now)
    BY <1>0, <2>1, WrittenOver DEF WriteSteps
  <2> QED
    BY <1>0, <1>3, <2>1, <2>2 DEF Fitting, MarkedFrom
<1>4. CASE Quiet(w) \/ ClaimRead(w) \/ ClaimReread(w) \/ Send(w) \/ MarkRead(w)
  BY <1>4, ClaimReadKind, ClaimRereadKind, SendKind, MarkReadKind DEF Quiet
<1> QED
  BY <1>1, <1>2, <1>3, <1>4, WorkerStepKinds

\* An operator confirms or frees an uncertain record, at the revision reviewed.
LEMMA OperatorRecordStep ==
    ASSUME TypeInv, NEW d \in Events, OperatorStep(d), NEW e \in Events,
           ledger'[e] # ledger[e]
    PROVE  /\ e = d /\ ledger[e] \in Record /\ CanReconcile(e)
           /\ \E n \in Nat :
                 \/ ConfirmAccepted(e) /\ ledger'[e] = ReconciledAccepted(ledger[e], n)
                 \/ /\ AuthorizeRetry(e) /\ ledger[e].attempts < MaxAttempts
                    /\ ledger'[e] = ReconciledRetry(ledger[e], n)
<1>0. /\ ledger \in [Events -> Record] /\ \A n \in Readings(clock) : n \in Nat
      /\ e = d
  BY OperatorWrites, TimeAssumption DEF Readings, TypeInv, TypeOK
<1>1. CASE Review(d)
  BY <1>1 DEF Review
<1>2. CASE ConfirmAccepted(d)
  <2>1. PICK n \in Readings(clock) : ledger' = [ledger EXCEPT ![d] = ReconciledAccepted(@, n)]
    BY <1>2 DEF ConfirmAccepted
  <2> QED
    BY <1>0, <1>2, <2>1 DEF ConfirmAccepted
<1>3. CASE AuthorizeRetry(d)
  <2>1. PICK n \in Readings(clock) : ledger' = [ledger EXCEPT ![d] = ReconciledRetry(@, n)]
    BY <1>3 DEF AuthorizeRetry
  <2> QED
    BY <1>0, <1>3, <2>1 DEF AuthorizeRetry
<1> QED
  BY <1>1, <1>2, <1>3 DEF OperatorStep

\* The states a step of an invocation leads to, and from which.
LEMMA StateStep ==
    ASSUME TypeInv, Bookkeeping, NEW w \in Workers, WorkerStep(w), NEW e \in Events,
           ledger'[e] # ledger[e]
    PROVE  /\ ledger[e].state \in {"absent", "prepared", "sending"}
           /\ ledger'[e].approved = ledger[e].approved
           /\ \/ ledger'[e].attempts = ledger[e].attempts
              \/ /\ ClaimCas(w) /\ Acquires(ledger[e])
                 /\ ledger'[e].state = "sending"
                 /\ ledger'[e].attempts = ledger[e].attempts + 1
           /\ ledger'[e].state = "accepted_by_smtp" =>
                 MarkCas(w) /\ job[w].op = "smtp_accepted"
           /\ ledger'[e].state = "prepared" =>
                 ledger'[e].attempts < MaxAttempts
<1>1. CASE PutIfAbsent(w) /\ Created(ledger[e], ledger'[e], job[w].now)
  <2>1. ledger[e] = Absent /\ ledger'[e] = NewRecord(job[w].now)
    BY <1>1 DEF Created
  <2>2. /\ ledger[e].state = "absent" /\ ledger[e].attempts = 0
        /\ ledger[e].approved = FALSE
    BY <2>1 DEF Absent
  <2>3. /\ ledger'[e].state = "prepared" /\ ledger'[e].attempts = 0
        /\ ledger'[e].approved = FALSE
    BY <2>1 DEF NewRecord, Absent
  <2>4. 0 < MaxAttempts
    BY AttemptsAssumption
  <2> QED
    BY <2>2, <2>3, <2>4
<1>2. CASE ClaimCas(w) /\ ClaimedFrom(ledger[e], ledger'[e], job[w].now)
  <2>1. ledger[e].state \in {"prepared", "sending"}
    BY <1>2 DEF ClaimedFrom, Claimable
  <2> QED
    BY <1>2, <2>1, RecordStep, ClaimUpdateFields DEF ClaimedFrom
<1>3. CASE /\ MarkCas(w) /\ job[w].op \in Ops \ {"none"}
           /\ MarkedFrom(job[w].op, ledger[e], ledger'[e], job[w].now)
  <2>1. ledger[e].state \in {"prepared", "sending"}
    BY <1>3 DEF MarkedFrom, MarkableStates
  <2>2. /\ ledger'[e].approved = ledger[e].approved
        /\ ledger'[e].attempts = ledger[e].attempts
        /\ ledger'[e].state = MarkedState(job[w].op, ledger[e])
    BY <1>3, RecordStep, MarkUpdateFields DEF MarkedFrom
  <2> QED
    BY <1>3, <2>1, <2>2 DEF MarkedState
<1> QED
  BY <1>1, <1>2, <1>3, RecordStep

(***************************************************************************)
(* Records that wait, and records that stay.                               *)
(***************************************************************************)

\* No late answer, redelivery or lease check moves an uncertain record: only a
\* decision on the revision that was reviewed does.
THEOREM UncertainRecordsWait == Spec => UncertainWaitsForOperator
<1>1. TypeInv /\ Bookkeeping /\ [Next]_vars =>
         [\A e \in Events :
             ledger[e].state = "uncertain" /\ ledger'[e] # ledger[e]
                => ledger[e].revision = reviewed[e] /\ ledger'[e].approved]_vars
  <2> SUFFICES ASSUME TypeInv, Bookkeeping, [Next]_vars, NEW e \in Events,
                      ledger[e].state = "uncertain", ledger'[e] # ledger[e]
               PROVE  ledger[e].revision = reviewed[e] /\ ledger'[e].approved
    OBVIOUS
  <2>1. ASSUME NEW w \in Workers, WorkerStep(w) PROVE FALSE
    BY <2>1, StateStep
  <2>2. ASSUME NEW d \in Events, OperatorStep(d)
        PROVE  ledger[e].revision = reviewed[e] /\ ledger'[e].approved
    <3>1. ledger[e] \in Record /\ CanReconcile(e)
      BY <2>2, OperatorRecordStep
    <3>2. PICK n \in Nat : \/ ledger'[e] = ReconciledAccepted(ledger[e], n)
                           \/ ledger'[e] = ReconciledRetry(ledger[e], n)
      BY <2>2, OperatorRecordStep
    <3>3. ledger'[e].approved
      BY <3>1, <3>2 DEF ReconciledAccepted, ReconciledRetry, Move, Record
    <3> QED
      BY <3>1, <3>3 DEF CanReconcile
  <2> QED
    BY <2>1, <2>2 DEF Next, Tick, vars
<1> QED
  BY <1>1, BookkeepingHolds, PTL DEF Spec, UncertainWaitsForOperator

\* Accepted and failed records are never written again, by anybody.
THEOREM FinalRecordsAreFinal == Spec => FinalRecordsStay
<1>1. TypeInv /\ Bookkeeping /\ [Next]_vars =>
         [\A e \in Events : ledger[e].state \in FinalStates => ledger'[e] = ledger[e]]_vars
  <2> SUFFICES ASSUME TypeInv, Bookkeeping, [Next]_vars, NEW e \in Events,
                      ledger[e].state \in FinalStates, ledger'[e] # ledger[e]
               PROVE  FALSE
    OBVIOUS
  <2>1. ASSUME NEW w \in Workers, WorkerStep(w) PROVE FALSE
    BY <2>1, StateStep DEF FinalStates
  <2>2. ASSUME NEW d \in Events, OperatorStep(d) PROVE FALSE
    BY <2>2, OperatorRecordStep DEF CanReconcile, FinalStates
  <2> QED
    BY <2>1, <2>2 DEF Next, Tick, vars
<1> QED
  BY <1>1, BookkeepingHolds, PTL DEF Spec, FinalRecordsStay

(***************************************************************************)
(* Field discipline.                                                       *)
(***************************************************************************)

\* Every transition leaves a well-formed record, given a well-formed one in
\* the states the transition is for.
LEMMA TransitionsWellFormed ==
    ASSUME NEW r \in Record, NEW now \in Nat, WellFormed(r)
    PROVE  /\ r.state = "prepared" /\ r.attempts < MaxAttempts => WellFormed(Claimed(r, now))
           /\ r.state = "prepared" => WellFormed(ClaimExhausted(r, now))
           /\ r.state = "sending" =>
                 /\ \A reason \in UncertainReasons : WellFormed(Ambiguous(r, reason, now))
                 /\ WellFormed(Accepted(r, now))
                 /\ WellFormed(Refused(r, now))
           /\ r.state \in {"prepared", "sending"} =>
                 \A reason \in FailedReasons : WellFormed(Failed(r, reason, now))
           /\ r.state = "uncertain" => WellFormed(ReconciledAccepted(r, now))
                                       /\ WellFormed(ReconciledRetry(r, now))
<1>0. /\ r.attempts \in 0..MaxAttempts /\ MaxAttempts \in Nat /\ SendingLease \in Nat \ {0}
      /\ r.revision + 1 \in Nat /\ r.revision + 1 >= 1 /\ now + SendingLease \in Nat
      /\ now # Missing /\ now + SendingLease # Missing
  BY AttemptsAssumption, LeaseAssumption DEF WellFormed, Record, Missing
<1>1. /\ r.state = "prepared" => /\ r.leaseExpiresAt = Missing
                                 /\ r.reasonCode = NoReason
      /\ r.state = "sending" => r.reasonCode = NoReason
      /\ r.state # "accepted_by_smtp" => r.acceptedAt = Missing
      /\ r.state # "uncertain" => r.uncertainAt = Missing
      /\ r.state # "failed" => r.failedAt = Missing
      /\ r.state # "sending" => r.leaseExpiresAt = Missing
      /\ r.approved \in BOOLEAN
  BY DEF WellFormed, Record
<1>2. ASSUME r.state = "prepared", r.attempts < MaxAttempts
      PROVE  WellFormed(Claimed(r, now))
  <2> DEFINE u == Claimed(r, now)
  <2>1. /\ u.state = "sending" /\ u.attempts = r.attempts + 1
        /\ u.revision = r.revision + 1 /\ u.updatedAt = now
        /\ u.leaseExpiresAt = now + SendingLease /\ u.acceptedAt = r.acceptedAt
        /\ u.uncertainAt = r.uncertainAt /\ u.failedAt = r.failedAt
        /\ u.reasonCode = NoReason
    BY DEF Claimed, Move, Record
  <2> HIDE DEF u
  <2>2. u.attempts \in 0..MaxAttempts
    BY <1>0, <1>2, <2>1
  <2>3. WellFormed(u)
    BY <1>0, <1>1, <1>2, <2>1, <2>2 DEF WellFormed, States, NoReason
  <2> QED
    BY <2>3 DEF u
<1>3. ASSUME r.state = "prepared" PROVE WellFormed(ClaimExhausted(r, now))
  <2> DEFINE u == ClaimExhausted(r, now)
  <2>1. /\ u.state = "failed" /\ u.attempts = r.attempts
        /\ u.revision = r.revision + 1 /\ u.updatedAt = now
        /\ u.leaseExpiresAt = r.leaseExpiresAt /\ u.acceptedAt = r.acceptedAt
        /\ u.uncertainAt = r.uncertainAt /\ u.failedAt = now
        /\ u.reasonCode = "retry_exhausted"
    BY DEF ClaimExhausted, Move, Record
  <2> HIDE DEF u
  <2>2. WellFormed(u)
    BY <1>0, <1>1, <1>3, <2>1 DEF WellFormed, States, NoReason, FailedReasons, StampedBy
  <2> QED
    BY <2>2 DEF u
<1>4. ASSUME r.state = "sending", NEW reason \in UncertainReasons
      PROVE  WellFormed(Ambiguous(r, reason, now))
  <2> DEFINE u == Ambiguous(r, reason, now)
  <2>1. /\ u.state = "uncertain" /\ u.attempts = r.attempts
        /\ u.revision = r.revision + 1 /\ u.updatedAt = now
        /\ u.leaseExpiresAt = Missing /\ u.acceptedAt = r.acceptedAt
        /\ u.uncertainAt = now /\ u.failedAt = r.failedAt
        /\ u.reasonCode = reason
    BY DEF Ambiguous, Move, Record
  <2> HIDE DEF u
  <2>2. reason # NoReason /\ reason # "operator_confirmed_acceptance"
    BY DEF UncertainReasons, NoReason
  <2>3. WellFormed(u)
    BY <1>0, <1>1, <1>4, <2>1, <2>2 DEF WellFormed, States, StampedBy
  <2> QED
    BY <2>3 DEF u
<1>5. ASSUME r.state = "sending" PROVE WellFormed(Accepted(r, now))
  <2> DEFINE u == Accepted(r, now)
  <2>1. /\ u.state = "accepted_by_smtp" /\ u.attempts = r.attempts
        /\ u.revision = r.revision + 1 /\ u.updatedAt = now
        /\ u.leaseExpiresAt = Missing /\ u.acceptedAt = now
        /\ u.uncertainAt = r.uncertainAt /\ u.failedAt = r.failedAt
        /\ u.reasonCode = "smtp_accepted"
    BY DEF Accepted, Move, Record
  <2> HIDE DEF u
  <2>2. WellFormed(u)
    BY <1>0, <1>1, <1>5, <2>1 DEF WellFormed, States, NoReason, AcceptedReasons, StampedBy
  <2> QED
    BY <2>2 DEF u
<1>6. ASSUME r.state \in {"prepared", "sending"}, NEW reason \in FailedReasons
      PROVE  WellFormed(Failed(r, reason, now))
  <2> DEFINE u == Failed(r, reason, now)
  <2>1. /\ u.state = "failed" /\ u.attempts = r.attempts
        /\ u.revision = r.revision + 1 /\ u.updatedAt = now
        /\ u.leaseExpiresAt = Missing /\ u.acceptedAt = r.acceptedAt
        /\ u.uncertainAt = r.uncertainAt /\ u.failedAt = now
        /\ u.reasonCode = reason
    BY DEF Failed, Move, Record
  <2> HIDE DEF u
  <2>2. reason # NoReason /\ reason # "operator_confirmed_acceptance"
    BY DEF FailedReasons, NoReason
  <2>3. WellFormed(u)
    BY <1>0, <1>1, <1>6, <2>1, <2>2 DEF WellFormed, States, StampedBy
  <2> QED
    BY <2>3 DEF u
<1>7. ASSUME r.state = "sending" PROVE WellFormed(Refused(r, now))
  <2>1. CASE r.attempts >= MaxAttempts
    <3>1. "retry_exhausted" \in FailedReasons
      BY DEF FailedReasons
    <3> QED
      BY <1>6, <1>7, <2>1, <3>1 DEF Refused
  <2>2. CASE ~(r.attempts >= MaxAttempts)
    <3> DEFINE u == [Move(r, "prepared", now) EXCEPT !.leaseExpiresAt = Missing,
                                                     !.reasonCode = NoReason]
    <3>1. /\ u.state = "prepared" /\ u.attempts = r.attempts
          /\ u.revision = r.revision + 1 /\ u.updatedAt = now
          /\ u.leaseExpiresAt = Missing /\ u.acceptedAt = r.acceptedAt
          /\ u.uncertainAt = r.uncertainAt /\ u.failedAt = r.failedAt
          /\ u.reasonCode = NoReason
      BY DEF Move, Record
    <3>2. Refused(r, now) = u
      BY <2>2 DEF Refused
    <3> HIDE DEF u
    <3>3. WellFormed(u)
      BY <1>0, <1>1, <1>7, <3>1 DEF WellFormed, States, NoReason
    <3> QED
      BY <3>2, <3>3
  <2> QED
    BY <2>1, <2>2
<1>8. ASSUME r.state = "uncertain" PROVE WellFormed(ReconciledAccepted(r, now))
  <2> DEFINE u == ReconciledAccepted(r, now)
  <2>1. /\ u.state = "accepted_by_smtp" /\ u.attempts = r.attempts
        /\ u.revision = r.revision + 1 /\ u.updatedAt = now
        /\ u.leaseExpiresAt = r.leaseExpiresAt /\ u.acceptedAt = now
        /\ u.uncertainAt = Missing /\ u.failedAt = r.failedAt
        /\ u.reasonCode = "operator_confirmed_acceptance" /\ u.approved = TRUE
    BY DEF ReconciledAccepted, Move, Record
  <2> HIDE DEF u
  <2>2. WellFormed(u)
    BY <1>0, <1>1, <1>8, <2>1 DEF WellFormed, States, NoReason, AcceptedReasons, StampedBy
  <2> QED
    BY <2>2 DEF u
<1>9. ASSUME r.state = "uncertain" PROVE WellFormed(ReconciledRetry(r, now))
  <2> DEFINE u == ReconciledRetry(r, now)
  <2>1. /\ u.state = "prepared" /\ u.attempts = r.attempts
        /\ u.revision = r.revision + 1 /\ u.updatedAt = now
        /\ u.leaseExpiresAt = r.leaseExpiresAt /\ u.acceptedAt = r.acceptedAt
        /\ u.uncertainAt = Missing /\ u.failedAt = r.failedAt
        /\ u.reasonCode = NoReason
    BY DEF ReconciledRetry, Move, Record
  <2> HIDE DEF u
  <2>2. WellFormed(u)
    BY <1>0, <1>1, <1>9, <2>1 DEF WellFormed, States, NoReason
  <2> QED
    BY <2>2 DEF u
<1> QED
  BY <1>2, <1>3, <1>4, <1>5, <1>6, <1>7, <1>8, <1>9

LEMMA FieldStep ==
    TypeInv /\ Bookkeeping /\ FieldDiscipline /\ [Next]_vars => FieldDiscipline'
<1> SUFFICES ASSUME TypeInv, Bookkeeping, FieldDiscipline, [Next]_vars, NEW e \in Events,
                    ledger'[e] # ledger[e]
             PROVE  WellFormed(ledger'[e])
  BY DEF FieldDiscipline
<1>0. ledger[e] \in Record /\ (ledger[e] = Absent \/ WellFormed(ledger[e]))
  BY DEF TypeInv, TypeOK, FieldDiscipline
<1>1. ASSUME NEW w \in Workers, WorkerStep(w) PROVE WellFormed(ledger'[e])
  <2>0. job[w].now \in Nat
    BY JobTypes
  <2>1. CASE Created(ledger[e], ledger'[e], job[w].now)
    <3> DEFINE u == NewRecord(job[w].now)
    <3>1. /\ u.state = "prepared" /\ u.attempts = 0 /\ u.revision = 1
          /\ u.leaseExpiresAt = Missing /\ u.acceptedAt = Missing
          /\ u.uncertainAt = Missing /\ u.failedAt = Missing /\ u.reasonCode = NoReason
      BY DEF NewRecord, Absent
    <3>2. 0 \in 0..MaxAttempts
      BY AttemptsAssumption
    <3> HIDE DEF u
    <3>3. WellFormed(u)
      BY <3>1, <3>2 DEF WellFormed, States, NoReason
    <3> QED
      BY <2>1, <3>3 DEF Created, u
  <2>2. CASE ClaimedFrom(ledger[e], ledger'[e], job[w].now)
    <3>1. ledger[e].state \in {"prepared", "sending"} /\ WellFormed(ledger[e])
      BY <1>0, <2>2 DEF ClaimedFrom, Claimable, Absent
    <3>2. "stale_sending_lease" \in UncertainReasons
      BY DEF UncertainReasons
    <3>3. CASE ledger[e].state = "sending"
      <4>1. ledger'[e] = Ambiguous(ledger[e], "stale_sending_lease", job[w].now)
        BY <2>2, <3>3 DEF ClaimedFrom, ClaimUpdate
      <4> QED
        BY <1>0, <2>0, <3>1, <3>2, <3>3, <4>1, TransitionsWellFormed
    <3>4. CASE ledger[e].state = "prepared" /\ ledger[e].attempts < MaxAttempts
      <4>1. ledger'[e] = Claimed(ledger[e], job[w].now)
        BY <2>2, <3>4 DEF ClaimedFrom, ClaimUpdate, Acquires
      <4> QED
        BY <1>0, <2>0, <3>1, <3>4, <4>1, TransitionsWellFormed
    <3>5. CASE ledger[e].state = "prepared" /\ ~(ledger[e].attempts < MaxAttempts)
      <4>1. ledger'[e] = ClaimExhausted(ledger[e], job[w].now)
        BY <2>2, <3>5 DEF ClaimedFrom, ClaimUpdate, Acquires
      <4> QED
        BY <1>0, <2>0, <3>1, <3>5, <4>1, TransitionsWellFormed
    <3> QED
      BY <3>1, <3>3, <3>4, <3>5
  <2>3. CASE /\ job[w].op \in Ops \ {"none"}
             /\ MarkedFrom(job[w].op, ledger[e], ledger'[e], job[w].now)
    <3> DEFINE op == job[w].op
    <3>1. ledger[e].state \in {"prepared", "sending"} /\ WellFormed(ledger[e])
      BY <1>0, <2>3 DEF MarkedFrom, MarkableStates, Absent
    <3>2. CASE op \in FailureOps
      <4>1. op \in FailedReasons /\ op \notin {"smtp_accepted", "smtp_ambiguous", "smtp_transient"}
        BY <3>2 DEF FailureOps, CircuitReasons, FailedReasons
      <4>2. ledger'[e] = Failed(ledger[e], op, job[w].now)
        BY <2>3, <3>2, <4>1 DEF MarkedFrom, MarkUpdate
      <4> QED
        BY <1>0, <2>0, <3>1, <4>1, <4>2, TransitionsWellFormed
    <3>3. CASE op \notin FailureOps
      <4>1. /\ ledger[e].state = "sending"
            /\ op \in {"smtp_accepted", "smtp_ambiguous", "smtp_transient"}
            /\ "smtp_ambiguous" \in UncertainReasons
        BY <2>3, <3>3 DEF MarkedFrom, MarkableStates, Ops, AllSmtpOutcomes, Refusals,
                          FailureOps, UncertainReasons
      <4>2. ledger'[e] \in {Accepted(ledger[e], job[w].now), Refused(ledger[e], job[w].now),
                            Ambiguous(ledger[e], "smtp_ambiguous", job[w].now)}
        BY <2>3, <3>3, <4>1 DEF MarkedFrom, MarkUpdate
      <4> QED
        BY <1>0, <2>0, <3>1, <4>1, <4>2, TransitionsWellFormed
    <3> QED
      BY <3>2, <3>3
  <2> QED
    BY <1>1, <2>1, <2>2, <2>3, RecordStep
<1>2. ASSUME NEW d \in Events, OperatorStep(d) PROVE WellFormed(ledger'[e])
  <2>1. ledger[e].state = "uncertain" /\ WellFormed(ledger[e])
    BY <1>0, <1>2, OperatorRecordStep DEF CanReconcile, Absent
  <2>2. PICK n \in Nat : \/ ledger'[e] = ReconciledAccepted(ledger[e], n)
                         \/ ledger'[e] = ReconciledRetry(ledger[e], n)
    BY <1>2, OperatorRecordStep
  <2> QED
    BY <1>0, <2>1, <2>2, TransitionsWellFormed
<1> QED
  BY <1>1, <1>2 DEF Next, Tick, vars

\* Whatever writes led to it, a stored record carries the optional fields of
\* its state and no others, so that the store can read it.
THEOREM FieldsKeepDiscipline == Spec => []FieldDiscipline
<1>1. Init => FieldDiscipline
  BY DEF Init, FieldDiscipline
<1> QED
  BY <1>1, BookkeepingHolds, FieldStep, PTL DEF Spec

(***************************************************************************)
(* Budget.                                                                 *)
(***************************************************************************)

LEMMA BudgetStep ==
    ASSUME TypeInv, Bookkeeping, Custody, OneHolder, AttemptsArePaid, SendsWithinBudget,
           [Next]_vars
    PROVE  AttemptsArePaid' /\ SendsWithinBudget'
<1>0. /\ \A e \in Events : /\ ledger[e] \in Record /\ ledger[e].attempts \in Nat
                           /\ sends[e] \in Nat
      /\ MaxAttempts \in Nat
  BY AttemptsAssumption DEF TypeInv, TypeOK, Record
<1>1. CASE job' = job /\ ledger' = ledger /\ sends' = sends
  BY <1>1 DEF AttemptsArePaid, SendsWithinBudget, HoldsPermit
<1>2. ASSUME NEW w \in Workers, WorkerStep(w) PROVE AttemptsArePaid' /\ SendsWithinBudget'
  <2> DEFINE own == job[w].event
  <2>1. \A v \in Workers \ {w} : job'[v] = job[v] /\ (HoldsPermit(v)' <=> HoldsPermit(v))
    BY <1>2, WorkerStepKinds DEF Others, HoldsPermit
  <2>2. \A v \in Workers : HoldsPermit(v) => job[v].event \in Events /\ Holds(v)
    BY JobTypes DEF HoldsPermit, Holds
  <2>3. \A e \in Events : /\ ledger'[e].attempts \in {ledger[e].attempts, ledger[e].attempts + 1}
                          /\ ledger'[e].state = "prepared" => ledger'[e].attempts < MaxAttempts
                          /\ ledger'[e].attempts <= MaxAttempts
    <3> TAKE e \in Events
    <3>1. CASE ledger'[e] = ledger[e]
      BY <3>1 DEF AttemptsArePaid, SendsWithinBudget
    <3>2. CASE ledger'[e] # ledger[e]
      <4>1. ledger[e].attempts <= MaxAttempts
        BY DEF SendsWithinBudget
      <4>2. ledger'[e].state = "prepared" => ledger'[e].attempts < MaxAttempts
        BY <1>2, <3>2, StateStep
      <4>3. \/ ledger'[e].attempts = ledger[e].attempts
            \/ Acquires(ledger[e]) /\ ledger'[e].attempts = ledger[e].attempts + 1
        BY <1>2, <3>2, StateStep
      <4> QED
        BY <1>0, <4>1, <4>2, <4>3 DEF Acquires
    <3> QED
      BY <3>1, <3>2
  <2>4. CASE Send(w)
    <3>1. /\ own \in Events /\ ledger' = ledger /\ HoldsPermit(w) /\ ~HoldsPermit(w)'
          /\ sends' = [sends EXCEPT ![own] = @ + 1]
      BY <2>4, SendKind
    <3>2. /\ sends[own] < ledger[own].attempts /\ sends'[own] = sends[own] + 1
          /\ \A e \in Events \ {own} : sends'[e] = sends[e]
      BY <3>1 DEF AttemptsArePaid, TypeInv, TypeOK
    <3>3. SendsWithinBudget'
      BY <1>0, <3>1, <3>2 DEF SendsWithinBudget
    <3>4. ASSUME NEW v \in Workers, HoldsPermit(v)'
          PROVE  sends'[job'[v].event] < ledger'[job'[v].event].attempts
      <4>1. v # w
        BY <3>1, <3>4
      <4>2. job'[v] = job[v] /\ HoldsPermit(v)
        BY <2>1, <3>4, <4>1
      <4>3. job[v].event # own /\ job[v].event \in Events
        BY <2>2, <3>1, <4>1, <4>2 DEF OneHolder
      <4> QED
        BY <3>1, <3>2, <4>2, <4>3 DEF AttemptsArePaid
    <3> QED
      BY <2>3, <3>3, <3>4 DEF AttemptsArePaid
  <2>5. CASE ~Send(w)
    <3>1. sends' = sends
      BY <1>2, <2>5, WorkerStepKinds, PutIfAbsentKind, ClaimReadKind, ClaimCasKind,
         ClaimRereadKind, MarkReadKind, MarkCasKind DEF Quiet, mail
    <3>2. SendsWithinBudget'
      BY <1>0, <2>3, <3>1 DEF SendsWithinBudget
    <3>3. ASSUME NEW v \in Workers, HoldsPermit(v)'
          PROVE  sends'[job'[v].event] < ledger'[job'[v].event].attempts
      <4>1. CASE HoldsPermit(v) /\ job'[v].event = job[v].event
        <5>1. job[v].event \in Events /\ sends[job[v].event] < ledger[job[v].event].attempts
          BY <2>2, <4>1 DEF AttemptsArePaid
        <5> QED
          BY <1>0, <2>3, <3>1, <4>1, <5>1
      <4>2. CASE v # w
        BY <2>1, <3>3, <4>1, <4>2
      <4>3. CASE v = w /\ ~(HoldsPermit(w) /\ job'[w].event = own)
        <5>1. Continues(w) /\ own \in Events
          BY <1>2, <3>3, <4>3, HoldStep, JobTypes DEF Holds, Continues
        <5>2. ClaimCas(w)
          BY <1>2, <2>5, <3>3, <4>3, <5>1, WorkerStepKinds, PutIfAbsentKind, ClaimReadKind,
             ClaimRereadKind, MarkReadKind, MarkCasKind DEF Quiet, Holds, Continues
        <5>3. /\ Written(w, ClaimUpdate(job[w].item, job[w].now)) /\ Acquires(job[w].item)
              /\ job[w].pc = "claim_cas"
          BY <3>3, <4>3, <5>2, ClaimCasKind DEF Holds, ClaimCas
        <5>4. /\ job[w].item = ledger[own]
              /\ ledger'[own] = ClaimUpdate(ledger[own], job[w].now)
          BY <5>3, WrittenOver DEF Bookkeeping, WriteSteps
        <5>5. ledger'[own].attempts = ledger[own].attempts + 1
          BY <1>0, <5>1, <5>3, <5>4, JobTypes, ClaimUpdateFields DEF Acquires
        <5>6. sends[own] <= ledger[own].attempts
          BY <5>1 DEF SendsWithinBudget
        <5> QED
          BY <1>0, <3>1, <4>3, <5>1, <5>5, <5>6 DEF Continues
      <4> QED
        BY <4>1, <4>2, <4>3
    <3> QED
      BY <2>3, <3>2, <3>3 DEF AttemptsArePaid
  <2> QED
    BY <2>4, <2>5
<1>3. ASSUME NEW d \in Events, OperatorStep(d) PROVE AttemptsArePaid' /\ SendsWithinBudget'
  <2>1. job' = job /\ sends' = sends
    BY <1>3 DEF OperatorStep, Review, ConfirmAccepted, AuthorizeRetry, mail
  <2>2. \A e \in Events : /\ ledger'[e].attempts = ledger[e].attempts
                          /\ ledger'[e].state = "prepared" => ledger'[e].attempts < MaxAttempts
    <3> TAKE e \in Events
    <3>1. CASE ledger'[e] = ledger[e]
      BY <3>1 DEF AttemptsArePaid
    <3>2. CASE ledger'[e] # ledger[e]
      <4>1. PICK n \in Nat :
               \/ ledger'[e] = ReconciledAccepted(ledger[e], n)
               \/ ledger[e].attempts < MaxAttempts /\ ledger'[e] = ReconciledRetry(ledger[e], n)
        BY <1>3, <3>2, OperatorRecordStep
      <4>2. /\ ReconciledAccepted(ledger[e], n).attempts = ledger[e].attempts
            /\ ReconciledRetry(ledger[e], n).attempts = ledger[e].attempts
            /\ ReconciledAccepted(ledger[e], n).state = "accepted_by_smtp"
        BY <1>0, ReconciledFields
      <4> QED
        BY <4>1, <4>2
    <3> QED
      BY <3>1, <3>2
  <2>3. \A v \in Workers : HoldsPermit(v) => job[v].event \in Events
    BY JobTypes DEF HoldsPermit
  <2> QED
    BY <2>1, <2>2, <2>3 DEF AttemptsArePaid, SendsWithinBudget, HoldsPermit
<1> QED
  BY <1>1, <1>2, <1>3 DEF Next, Tick, vars, mail

\* The attempts made never exceed those the claims counted, nor those the
\* policy of the record's event allows.
THEOREM BudgetHolds == Spec => []SendsWithinBudget
<1>1. Init => AttemptsArePaid /\ SendsWithinBudget
  BY AttemptsAssumption DEF Init, Idle, Absent, AttemptsArePaid, SendsWithinBudget, HoldsPermit
<1>2. IInv /\ AttemptsArePaid /\ SendsWithinBudget /\ [Next]_vars
         => AttemptsArePaid' /\ SendsWithinBudget'
  BY BudgetStep DEF IInv
<1> QED
  BY <1>1, <1>2, Safety, PTL DEF Spec

(***************************************************************************)
(* Reviews.                                                                *)
(***************************************************************************)

LEMMA ReviewStep ==
    ASSUME TypeInv, Bookkeeping, ReviewsAreWorth, OneAttemptPerReview, [Next]_vars
    PROVE  ReviewsAreWorth' /\ OneAttemptPerReview'
<1> SUFFICES ASSUME NEW e \in Events
             PROVE  /\ reviewed'[e] <= ledger'[e].revision
                    /\ CanReconcile(e)' => approvals'[e] < reviews'[e]
                    /\ approvals'[e] <= reviews'[e]
  BY DEF ReviewsAreWorth, OneAttemptPerReview
<1>0. /\ reviewed[e] \in Nat /\ ledger[e].revision \in Nat
      /\ approvals[e] \in Nat /\ reviews[e] \in Nat
  BY DEF TypeInv, TypeOK, Record
<1>1. /\ reviewed[e] <= ledger[e].revision
      /\ CanReconcile(e) => approvals[e] < reviews[e]
      /\ approvals[e] <= reviews[e]
  BY DEF ReviewsAreWorth, OneAttemptPerReview
\* A write leaves what was reviewed behind.
<1>a. ASSUME reviewed'[e] = reviewed[e], ledger'[e].revision = ledger[e].revision + 1
      PROVE  reviewed'[e] <= ledger'[e].revision /\ ~CanReconcile(e)'
  BY <1>0, <1>1, <1>a DEF CanReconcile
<1>2. CASE /\ ledger'[e] = ledger[e] /\ reviewed'[e] = reviewed[e]
           /\ approvals'[e] = approvals[e] /\ reviews'[e] = reviews[e]
  BY <1>1, <1>2 DEF CanReconcile
<1>3. ASSUME NEW w \in Workers, WorkerStep(w), ledger'[e] # ledger[e]
      PROVE  /\ reviewed'[e] <= ledger'[e].revision
             /\ CanReconcile(e)' => approvals'[e] < reviews'[e]
             /\ approvals'[e] <= reviews'[e]
  <2>1. reviewed'[e] = reviewed[e] /\ approvals'[e] = approvals[e] /\ reviews'[e] = reviews[e]
    BY <1>3, WorkerStepKinds DEF operator
  <2>2. ledger'[e].revision = ledger[e].revision + 1
    BY <1>3, WorkerWrites
  <2> QED
    BY <1>1, <1>a, <2>1, <2>2
<1>4. CASE Review(e)
  <2>1. /\ ledger' = ledger /\ approvals' = approvals
        /\ reviewed'[e] = ledger[e].revision /\ reviews'[e] = reviews[e] + 1
    BY <1>4 DEF Review, TypeInv, TypeOK
  <2> QED
    BY <1>0, <1>1, <2>1
<1>5. CASE ConfirmAccepted(e)
  <2>1. /\ reviewed' = reviewed /\ approvals' = approvals /\ reviews' = reviews
    BY <1>5 DEF ConfirmAccepted, operator
  <2>2. ledger'[e].revision = ledger[e].revision + 1 \/ ledger'[e] = ledger[e]
    BY <1>5, OperatorWrites DEF OperatorStep
  <2> QED
    BY <1>1, <1>2, <1>a, <2>1, <2>2
<1>6. CASE AuthorizeRetry(e)
  <2>1. /\ reviewed' = reviewed /\ approvals'[e] = approvals[e] + 1 /\ reviews' = reviews
        /\ approvals[e] < reviews[e]
    BY <1>1, <1>6 DEF AuthorizeRetry, TypeInv, TypeOK
  <2>2. ledger'[e].revision = ledger[e].revision + 1
    <3>1. PICK n \in Readings(clock) : ledger' = [ledger EXCEPT ![e] = ReconciledRetry(@, n)]
      BY <1>6 DEF AuthorizeRetry
    <3>2. n \in Nat /\ ledger \in [Events -> Record]
      BY <3>1, TimeAssumption DEF Readings, TypeInv, TypeOK
    <3>3. ReconciledRetry(ledger[e], n).revision = ledger[e].revision + 1
      BY <3>2, ReconciledFields
    <3> QED
      BY <3>1, <3>2, <3>3
  <2> QED
    BY <1>0, <1>a, <2>1, <2>2
<1>7. ASSUME NEW d \in Events \ {e}, OperatorStep(d)
      PROVE  /\ ledger'[e] = ledger[e] /\ reviewed'[e] = reviewed[e]
             /\ approvals'[e] = approvals[e] /\ reviews'[e] = reviews[e]
  <2>1. ledger'[e] = ledger[e]
    BY <1>7, OperatorWrites
  <2>2. CASE Review(d)
    BY <2>1, <2>2 DEF Review, TypeInv, TypeOK
  <2>3. CASE ConfirmAccepted(d)
    BY <2>1, <2>3 DEF ConfirmAccepted, operator
  <2>4. CASE AuthorizeRetry(d)
    BY <2>1, <2>4 DEF AuthorizeRetry, TypeInv, TypeOK
  <2> QED
    BY <1>7, <2>2, <2>3, <2>4 DEF OperatorStep
<1>8. ASSUME NEW w \in Workers, WorkerStep(w), ledger'[e] = ledger[e]
      PROVE  /\ reviewed'[e] = reviewed[e]
             /\ approvals'[e] = approvals[e] /\ reviews'[e] = reviews[e]
  BY <1>8, WorkerStepKinds DEF operator
<1>9. CASE UNCHANGED vars \/ Tick
  BY <1>2, <1>9 DEF vars, Tick, operator
<1>10. CASE \E w \in Workers : WorkerStep(w)
  BY <1>2, <1>3, <1>8, <1>10
<1>11. CASE \E d \in Events : OperatorStep(d)
  BY <1>2, <1>4, <1>5, <1>6, <1>7, <1>11 DEF OperatorStep
<1> QED
  BY <1>9, <1>10, <1>11 DEF Next

\* A review authorises one retry at most, however often and however late the
\* decision is submitted.
THEOREM ReviewsAreSpentOnce == Spec => []OneAttemptPerReview
<1>1. Init => ReviewsAreWorth /\ OneAttemptPerReview
  BY DEF Init, Absent, ReviewsAreWorth, OneAttemptPerReview, CanReconcile
<1>2. TypeInv /\ Bookkeeping /\ ReviewsAreWorth /\ OneAttemptPerReview /\ [Next]_vars
         => ReviewsAreWorth' /\ OneAttemptPerReview'
  BY ReviewStep
<1> QED
  BY <1>1, <1>2, BookkeepingHolds, PTL DEF Spec

(***************************************************************************)
(* Acceptance.                                                             *)
(***************************************************************************)

\* Where the outcome an invocation has in hand comes from.
LEMMA OutcomeStep ==
    ASSUME TypeInv, NEW w \in Workers, WorkerStep(w), job'[w].op = "smtp_accepted"
    PROVE  /\ job'[w].event = job[w].event /\ job[w].pc # "idle"
           /\ Send(w) \/ job[w].op = "smtp_accepted"
           /\ job'[w].pc = "mark_reread" =>
                 MarkCas(w) /\ Written(w, MarkUpdate(job[w].op, job[w].item, job[w].now))
<1>0. job[w] \in Job /\ job \in [Workers -> Job]
  BY DEF TypeInv, TypeOK
<1>16. job[w].pc # "idle"
  <2>1. ASSUME NEW e \in Events, Start(w, e) PROVE job[w].pc # "idle"
    BY <1>0, <2>1 DEF Start, Idle
  <2> QED
    BY <2>1 DEF WorkerStep, PutIfAbsent, PrepareRead, Postpone, Connect, ResolveSecrets,
       ClaimRead, ClaimCas, ClaimReread, Send, MarkRead, MarkCas, MarkReread, OpenCircuit,
       StoreError, StoreSteps, Crash
<1>1. ASSUME NEW outcome, Answer(w, outcome) PROVE FALSE
  <2>1. job'[w] = Idle
    BY <1>1, AnswerEnds
  <2> QED
    BY <2>1 DEF Idle
<1>2. ASSUME NEW step, Goto(w, step)
      PROVE  /\ job'[w].event = job[w].event /\ job'[w].op = job[w].op
             /\ job'[w].pc = step
  BY <1>0, <1>2 DEF Goto, Job
<1>3. ASSUME NEW e \in Events, Start(w, e) PROVE FALSE
  BY <1>0, <1>3 DEF Start, Idle
<1>4. CASE PutIfAbsent(w)
  BY <1>1, <1>2, <1>4 DEF PutIfAbsent
<1>5. CASE PrepareRead(w)
  <2>1. CASE job' = [job EXCEPT ![w].pc = "claim_read", ![w].sweep = TRUE]
    BY <1>0, <1>16, <2>1 DEF Job
  <2> QED
    BY <1>1, <1>2, <1>5, <1>16, <2>1 DEF PrepareRead
<1>6. CASE Connect(w) \/ ResolveSecrets(w)
  <2>1. ASSUME NEW op \in {"circuit_open", "secret_invalid"},
               job' = [job EXCEPT ![w].pc = "mark_read", ![w].op = op]
        PROVE  FALSE
    BY <1>0, <1>16, <2>1 DEF Job
  <2> QED
    BY <1>2, <1>6, <2>1 DEF Connect, ResolveSecrets
<1>7. CASE ClaimRead(w)
  <2>1. CASE job' = [job EXCEPT ![w].pc = "claim_cas", ![w].item = ledger[job[w].event]]
    BY <1>0, <1>16, <2>1 DEF Job
  <2> QED
    BY <1>1, <1>7, <1>16, <2>1 DEF ClaimRead
<1>8. CASE ClaimCas(w)
  <2>1. CASE job' = [job EXCEPT ![w].pc = "claim_reread", ![w].item = Absent,
                                ![w].acquired = Acquires(job[w].item)]
    BY <1>0, <1>16, <2>1 DEF Job
  <2>2. CASE job' = [job EXCEPT ![w].pc = "claim_read", ![w].item = Absent,
                                ![w].tries = @ + 1]
    BY <1>0, <1>16, <2>2 DEF Job
  <2> QED
    BY <1>1, <1>8, <1>16, <2>1, <2>2 DEF ClaimCas, ClaimAgain
<1>9. CASE ClaimReread(w)
  BY <1>1, <1>2, <1>9 DEF ClaimReread
<1>10. CASE Send(w)
  BY <1>10, SendKind DEF Continues
<1>11. CASE MarkRead(w)
  <2>1. CASE job' = [job EXCEPT ![w].pc = "mark_cas", ![w].item = ledger[job[w].event]]
    BY <1>0, <1>16, <2>1 DEF Job
  <2> QED
    BY <1>1, <1>2, <1>11, <1>16, <2>1 DEF MarkRead, Marked
<1>12. CASE MarkCas(w)
  <2>1. /\ Unchanged(w)
        /\ job' = [job EXCEPT ![w].pc = "mark_reread", ![w].item = Absent]
    BY <1>1, <1>12 DEF MarkCas, Replies
  <2>2. job'[w].event = job[w].event /\ job'[w].op = job[w].op
    BY <1>0, <1>16, <2>1 DEF Job
  <2> QED
    BY <1>12, <2>1, <2>2 DEF MarkCas, CompareAndSet, Written
<1>13. CASE MarkReread(w)
  BY <1>1, <1>2, <1>13 DEF MarkReread, Marked
<1>14. CASE Postpone(w) \/ OpenCircuit(w) \/ StoreError(w)
  BY <1>1, <1>14 DEF Postpone, OpenCircuit, StoreError
<1>15. CASE Crash(w)
  BY <1>0, <1>15 DEF Crash, Idle
<1> QED
  BY <1>3, <1>4, <1>5, <1>6, <1>7, <1>8, <1>9, <1>10, <1>11, <1>12, <1>13,
     <1>14, <1>15 DEF WorkerStep

\* When a message is reported as processed.
LEMMA AckStep ==
    ASSUME TypeInv, NEW w \in Workers, WorkerStep(w), NEW e \in acked', e \notin acked
    PROVE  /\ e = job[w].event /\ e \in Events
           /\ ledger' = ledger
           /\ \/ ledger[e].state = "accepted_by_smtp"
              \/ job[w].pc = "mark_reread" /\ job[w].op = "smtp_accepted"
<1> DEFINE r == ledger[job[w].event]
<1>1. ASSUME NEW outcome, Answer(w, outcome)
      PROVE  e = job[w].event /\ outcome = "processed"
  BY <1>1 DEF Answer
<1>2. ASSUME NEW d \in Events, Start(w, d) PROVE FALSE
  BY <1>2 DEF Start
<1>3. CASE PutIfAbsent(w)
  BY <1>1, <1>3 DEF PutIfAbsent
<1>4. CASE PrepareRead(w)
  <2>1. PICK outcome \in {OutcomeOf(r), "retry"} : Answer(w, outcome)
    BY <1>4 DEF PrepareRead
  <2>2. e = job[w].event /\ r.state = "accepted_by_smtp"
    BY <1>1, <2>1 DEF OutcomeOf
  <2> QED
    BY <1>4, <2>2, JobTypes DEF PrepareRead
<1>5. CASE ClaimRead(w)
  <2>1. PICK outcome \in {OutcomeOf(r), "retry"} : Answer(w, outcome)
    BY <1>5 DEF ClaimRead
  <2>2. e = job[w].event /\ r.state = "accepted_by_smtp"
    BY <1>1, <2>1 DEF OutcomeOf
  <2> QED
    BY <1>5, <2>2, JobTypes DEF ClaimRead
<1>6. CASE ClaimReread(w)
  <2>1. PICK outcome \in {OutcomeOf(r), "retry"} : Answer(w, outcome)
    BY <1>6 DEF ClaimReread
  <2>2. e = job[w].event /\ r.state = "accepted_by_smtp"
    BY <1>1, <2>1 DEF OutcomeOf
  <2> QED
    BY <1>6, <2>2, JobTypes DEF ClaimReread
<1>7. CASE ClaimCas(w)
  BY <1>1, <1>7 DEF ClaimCas, ClaimAgain
<1>8. CASE MarkRead(w)
  <2>1. job[w].op \in FailureOps /\ Marked(w)
    BY <1>1, <1>8 DEF MarkRead
  <2>2. job[w].op # "smtp_accepted"
    BY <2>1 DEF FailureOps, CircuitReasons
  <2> QED
    BY <1>1, <2>1, <2>2 DEF Marked
<1>9. CASE MarkCas(w)
  BY <1>1, <1>9 DEF MarkCas
<1>10. CASE MarkReread(w)
  <2>1. job[w].op = "smtp_accepted" /\ e = job[w].event
    BY <1>1, <1>10 DEF MarkReread, Marked
  <2> QED
    BY <1>10, <2>1, JobTypes DEF MarkReread
<1>11. CASE Postpone(w) \/ OpenCircuit(w) \/ StoreError(w)
  BY <1>1, <1>11 DEF Postpone, OpenCircuit, StoreError
<1>12. CASE Connect(w) \/ ResolveSecrets(w) \/ Send(w) \/ Crash(w)
  BY <1>12 DEF Connect, ResolveSecrets, Send, Crash
<1> QED
  BY <1>2, <1>3, <1>4, <1>5, <1>6, <1>7, <1>8, <1>9, <1>10, <1>11, <1>12 DEF WorkerStep

\* Deliveries are never taken back.
LEMMA DeliveredGrows ==
    ASSUME TypeInv, [Next]_vars, NEW e \in Events
    PROVE  delivered'[e] \in Nat /\ delivered[e] \in Nat /\ delivered'[e] >= delivered[e]
<1>0. delivered[e] \in Nat
  BY DEF TypeInv, TypeOK
<1>1. ASSUME NEW w \in Workers, WorkerStep(w)
      PROVE  delivered'[e] \in Nat /\ delivered'[e] >= delivered[e]
  <2>1. CASE Send(w)
    BY <1>0, <2>1, SendKind DEF TypeInv, TypeOK
  <2>2. CASE ~Send(w)
    <3>1. delivered' = delivered
      BY <1>1, <2>2, WorkerStepKinds, PutIfAbsentKind, ClaimReadKind, ClaimCasKind,
         ClaimRereadKind, MarkReadKind, MarkCasKind DEF Quiet, mail
    <3> QED
      BY <1>0, <3>1
  <2> QED
    BY <2>1, <2>2
<1>2. ASSUME NEW d \in Events, OperatorStep(d) PROVE delivered' = delivered
  BY <1>2 DEF OperatorStep, Review, ConfirmAccepted, AuthorizeRetry, mail
<1> QED
  BY <1>0, <1>1, <1>2 DEF Next, Tick, vars, mail

LEMMA AcceptanceStep ==
    ASSUME TypeInv, Bookkeeping, AcceptanceIsTrue, AckedMeansAccepted, [Next]_vars
    PROVE  AcceptanceIsTrue' /\ AckedMeansAccepted'
<1>1. ASSUME NEW v \in Workers, job[v].op = "smtp_accepted"
      PROVE  job[v].event \in Events /\ delivered'[job[v].event] >= 1
  BY <1>1, DeliveredGrows DEF AcceptanceIsTrue
<1>2. \A e \in Events : delivered[e] >= 1 => delivered'[e] >= 1
  BY DeliveredGrows
\* An accepted record stays what it is.
<1>3. ASSUME NEW e \in Events, ledger[e].state = "accepted_by_smtp"
      PROVE  ledger'[e] = ledger[e]
  <2>1. ASSUME NEW w \in Workers, WorkerStep(w) PROVE ledger'[e] = ledger[e]
    BY <1>3, <2>1, StateStep
  <2>2. ASSUME NEW d \in Events, OperatorStep(d) PROVE ledger'[e] = ledger[e]
    BY <1>3, <2>2, OperatorRecordStep DEF CanReconcile
  <2> QED
    BY <2>1, <2>2 DEF Next, Tick, vars
<1>4. ASSUME job' = job, acked' = acked,
             \A e \in Events : ledger'[e] # ledger[e] /\ ledger'[e].state = "accepted_by_smtp"
                                  => ledger'[e].reasonCode = "operator_confirmed_acceptance"
      PROVE  AcceptanceIsTrue' /\ AckedMeansAccepted'
  <2>1. ASSUME NEW e \in Events, ledger'[e].state = "accepted_by_smtp"
        PROVE  delivered'[e] >= 1 \/ ledger'[e].reasonCode = "operator_confirmed_acceptance"
    <3>1. CASE ledger'[e] # ledger[e]
      BY <1>4, <2>1, <3>1
    <3>2. CASE ledger'[e] = ledger[e]
      BY <1>2, <2>1, <3>2 DEF AcceptanceIsTrue
    <3> QED
      BY <3>1, <3>2
  <2>2. ASSUME NEW v \in Workers, job'[v].op = "smtp_accepted"
        PROVE  /\ job'[v].event \in Events /\ delivered'[job'[v].event] >= 1
               /\ job'[v].pc = "mark_reread" => ledger'[job'[v].event].state = "accepted_by_smtp"
    BY <1>1, <1>3, <1>4, <2>2 DEF AcceptanceIsTrue
  <2>3. AckedMeansAccepted'
    BY <1>2, <1>3, <1>4 DEF AckedMeansAccepted, TypeInv, TypeOK
  <2> QED
    BY <2>1, <2>2, <2>3 DEF AcceptanceIsTrue
<1>5. ASSUME NEW w \in Workers, WorkerStep(w) PROVE AcceptanceIsTrue' /\ AckedMeansAccepted'
  <2>1. \A v \in Workers \ {w} : job'[v] = job[v]
    BY <1>5, WorkerStepKinds DEF Others
  <2>2. ASSUME NEW e \in Events, ledger'[e].state = "accepted_by_smtp"
        PROVE  delivered'[e] >= 1 \/ ledger'[e].reasonCode = "operator_confirmed_acceptance"
    <3>1. CASE ledger'[e] # ledger[e]
      <4>1. job[w].op = "smtp_accepted" /\ e = job[w].event
        BY <1>5, <2>2, <3>1, StateStep, RecordStep
      <4> QED
        BY <1>1, <4>1
    <3>2. CASE ledger'[e] = ledger[e]
      BY <1>2, <2>2, <3>2 DEF AcceptanceIsTrue
    <3> QED
      BY <3>1, <3>2
  <2>3. ASSUME NEW v \in Workers \ {w}, job'[v].op = "smtp_accepted"
        PROVE  /\ job'[v].event \in Events /\ delivered'[job'[v].event] >= 1
               /\ job'[v].pc = "mark_reread" => ledger'[job'[v].event].state = "accepted_by_smtp"
    BY <1>1, <1>3, <2>1, <2>3 DEF AcceptanceIsTrue
  <2>4. ASSUME job'[w].op = "smtp_accepted"
        PROVE  /\ job'[w].event \in Events /\ delivered'[job'[w].event] >= 1
               /\ job'[w].pc = "mark_reread" => ledger'[job'[w].event].state = "accepted_by_smtp"
    <3>1. job'[w].event = job[w].event /\ job[w].event \in Events
      BY <1>5, <2>4, OutcomeStep, JobTypes
    <3>2. CASE Send(w)
      <4>1. PICK n \in {0, 1} :
               /\ delivered' = [delivered EXCEPT ![job[w].event] = @ + n]
               /\ job'[w].op = "smtp_accepted" => n = 1
        BY <3>2, SendKind
      <4>2. delivered' = [delivered EXCEPT ![job[w].event] = @ + 1]
        BY <2>4, <4>1
      <4>3. delivered'[job[w].event] = delivered[job[w].event] + 1
            /\ delivered[job[w].event] \in Nat
        BY <3>1, <4>2 DEF TypeInv, TypeOK
      <4>4. job'[w].pc = "mark_read"
        BY <3>2, SendKind
      <4> QED
        BY <3>1, <4>3, <4>4
    <3>3. CASE ~Send(w)
      <4>1. job[w].op = "smtp_accepted"
        BY <1>5, <2>4, <3>3, OutcomeStep
      <4>2. ASSUME job'[w].pc = "mark_reread"
            PROVE  ledger'[job[w].event].state = "accepted_by_smtp"
        <5>1. /\ MarkCas(w) /\ job[w].pc = "mark_cas"
              /\ Written(w, MarkUpdate(job[w].op, job[w].item, job[w].now))
          BY <1>5, <2>4, <4>2, OutcomeStep DEF MarkCas
        <5>2. ledger'[job[w].event] = MarkUpdate(job[w].op, job[w].item, job[w].now)
          BY <5>1, WrittenOver DEF Bookkeeping, WriteSteps
        <5>3. job[w].item \in Record /\ job[w].now \in Nat /\ job[w].op \in Ops \ {"none"}
          BY <5>1, JobTypes DEF MarkSteps
        <5> QED
          BY <4>1, <5>2, <5>3, MarkUpdateFields DEF MarkedState
      <4> QED
        BY <1>1, <3>1, <4>1, <4>2
    <3> QED
      BY <3>2, <3>3
  <2>5. ASSUME NEW e \in acked'
        PROVE  /\ ledger'[e].state = "accepted_by_smtp"
               /\ delivered'[e] >= 1 \/ ledger'[e].reasonCode = "operator_confirmed_acceptance"
    <3>1. CASE e \in acked
      BY <1>2, <1>3, <3>1 DEF AckedMeansAccepted, TypeInv, TypeOK
    <3>2. CASE e \notin acked
      <4>1. /\ e \in Events /\ ledger' = ledger
            /\ \/ ledger[e].state = "accepted_by_smtp"
               \/ /\ e = job[w].event /\ job[w].pc = "mark_reread"
                  /\ job[w].op = "smtp_accepted"
        BY <1>5, <2>5, <3>2, AckStep
      <4>2. ledger[e].state = "accepted_by_smtp"
        BY <4>1 DEF AcceptanceIsTrue
      <4> QED
        BY <2>2, <4>1, <4>2
    <3> QED
      BY <3>1, <3>2
  <2> QED
    BY <2>1, <2>2, <2>3, <2>4, <2>5 DEF AcceptanceIsTrue, AckedMeansAccepted
<1>6. ASSUME NEW d \in Events, OperatorStep(d) PROVE AcceptanceIsTrue' /\ AckedMeansAccepted'
  <2>1. job' = job /\ acked' = acked
    BY <1>6 DEF OperatorStep, Review, ConfirmAccepted, AuthorizeRetry
  <2>2. ASSUME NEW e \in Events, ledger'[e] # ledger[e], ledger'[e].state = "accepted_by_smtp"
        PROVE  ledger'[e].reasonCode = "operator_confirmed_acceptance"
    <3>1. PICK n \in Nat : \/ ledger'[e] = ReconciledAccepted(ledger[e], n)
                           \/ ledger'[e] = ReconciledRetry(ledger[e], n)
      BY <1>6, <2>2, OperatorRecordStep
    <3>2. /\ ReconciledAccepted(ledger[e], n).reasonCode = "operator_confirmed_acceptance"
          /\ ReconciledRetry(ledger[e], n).state = "prepared"
      BY ReconciledFields DEF TypeInv, TypeOK
    <3> QED
      BY <2>2, <3>1, <3>2
  <2> QED
    BY <1>4, <2>1, <2>2
<1>7. CASE UNCHANGED vars \/ Tick
  BY <1>4, <1>7 DEF vars, Tick
<1> QED
  BY <1>5, <1>6, <1>7 DEF Next

\* Both parts hold throughout.
THEOREM AcceptanceHolds == Spec => [](AcceptanceIsTrue /\ AckedMeansAccepted)
<1>1. Init => AcceptanceIsTrue /\ AckedMeansAccepted
  BY DEF Init, Idle, Absent, AcceptanceIsTrue, AckedMeansAccepted
<1>2. TypeInv /\ Bookkeeping /\ AcceptanceIsTrue /\ AckedMeansAccepted /\ [Next]_vars
         => AcceptanceIsTrue' /\ AckedMeansAccepted'
  BY AcceptanceStep
<1> QED
  BY <1>1, <1>2, BookkeepingHolds, PTL DEF Spec

\* A message is deleted from the queue only when its record says accepted, for
\* good, and the provider took it or an operator vouched for it.
THEOREM ProcessedMeansAccepted == Spec => []AckedMeansAccepted
  BY AcceptanceHolds, PTL

(***************************************************************************)
(* Late sends.  Under an open circuit nobody gets past the check: those who  *)
(* are past it and the attempts made since add up to fewer than the          *)
(* invocations, since the one that opened the circuit was not past it.      *)
(***************************************************************************)

\* The invocation found its circuit closed and may still send.
PastCheck(w) ==
    \/ job[w].pc \in {"secrets", "send"}
    \/ job[w].pc \in {"claim_read", "claim_cas", "claim_reread"} /\ ~job[w].sweep

Past(c) == {w \in Workers : PastCheck(w) /\ CircuitOf[job[w].event] = c}

LateSendsAccounted ==
    \A c \in Circuits :
        /\ c \notin openCircuits => lateSends[c] = 0
        /\ c \in openCircuits =>
              lateSends[c] + Cardinality(Past(c)) <= Cardinality(Workers) - 1

LEMMA CountingPast ==
    ASSUME NEW c
    PROVE  /\ IsFiniteSet(Past(c)) /\ Cardinality(Past(c)) \in Nat
           /\ Cardinality(Workers) \in Nat
<1>1. Past(c) \in SUBSET Workers
  BY DEF Past
<1> QED
  BY <1>1, WorkersAssumption, FS_Subset, FS_CardinalityType

\* The check is what an invocation gets past it by.
LEMMA PastStep ==
    ASSUME TypeInv, NEW w \in Workers, WorkerStep(w), PastCheck(w)'
    PROVE  /\ job'[w].event = job[w].event
           /\ CircuitOf[job[w].event] \in openCircuits => PastCheck(w)
<1>0. job[w] \in Job /\ job \in [Workers -> Job]
  BY DEF TypeInv, TypeOK
<1>a. ASSUME NEW outcome, Answer(w, outcome) PROVE FALSE
  BY <1>0, <1>a DEF Answer, Idle, PastCheck
<1>b. ASSUME NEW step, Goto(w, step)
      PROVE  /\ job'[w].pc = step /\ job'[w].event = job[w].event
             /\ job'[w].sweep = job[w].sweep
  BY <1>0, <1>b DEF Goto, Job
<1>1. ASSUME NEW e \in Events, Start(w, e) PROVE FALSE
  BY <1>0, <1>1 DEF Start, Idle, PastCheck
<1>2. CASE PutIfAbsent(w)
  BY <1>2, <1>a, <1>b DEF PutIfAbsent, PastCheck
<1>3. CASE PrepareRead(w)
  <2>1. CASE job' = [job EXCEPT ![w].pc = "claim_read", ![w].sweep = TRUE]
    BY <1>0, <2>1 DEF PastCheck, Job
  <2> QED
    BY <1>3, <1>a, <1>b, <2>1 DEF PrepareRead, PastCheck
<1>4. CASE Connect(w)
  <2>1. CASE job' = [job EXCEPT ![w].pc = "mark_read", ![w].op = "circuit_open"]
    BY <1>0, <2>1 DEF PastCheck, Job
  <2> QED
    BY <1>4, <1>b, <2>1 DEF Connect
<1>5. CASE ResolveSecrets(w)
  <2>1. CASE job' = [job EXCEPT ![w].pc = "mark_read", ![w].op = "secret_invalid"]
    BY <1>0, <2>1 DEF PastCheck, Job
  <2>2. CASE Goto(w, "claim_read")
    <3>1. job'[w].event = job[w].event
      BY <1>b, <2>2
    <3> QED
      BY <1>5, <3>1 DEF ResolveSecrets, PastCheck
  <2> QED
    BY <1>5, <2>1, <2>2 DEF ResolveSecrets
<1>6. CASE ClaimRead(w)
  <2>1. CASE job' = [job EXCEPT ![w].pc = "claim_cas",
                                ![w].item = ledger[job[w].event]]
    <3>1. job'[w].event = job[w].event /\ job'[w].sweep = job[w].sweep
      BY <1>0, <2>1 DEF Job
    <3>2. job[w].pc = "claim_read" /\ job'[w].pc = "claim_cas"
      BY <1>0, <1>6, <2>1 DEF ClaimRead, Job
    <3> QED
      BY <3>1, <3>2 DEF PastCheck
  <2> QED
    BY <1>6, <1>a, <2>1 DEF ClaimRead
<1>7. CASE ClaimCas(w)
  <2>1. CASE job' = [job EXCEPT ![w].pc = "claim_reread", ![w].item = Absent,
                                ![w].acquired = Acquires(job[w].item)]
    <3>1. job'[w].event = job[w].event /\ job'[w].sweep = job[w].sweep
      BY <1>0, <2>1 DEF Job
    <3>2. job[w].pc = "claim_cas" /\ job'[w].pc = "claim_reread"
      BY <1>0, <1>7, <2>1 DEF ClaimCas, Job
    <3> QED
      BY <3>1, <3>2 DEF PastCheck
  <2>2. CASE job' = [job EXCEPT ![w].pc = "claim_read", ![w].item = Absent,
                                ![w].tries = @ + 1]
    BY <1>0, <1>7, <2>2 DEF ClaimCas, PastCheck, Job
  <2> QED
    BY <1>7, <1>a, <2>1, <2>2 DEF ClaimCas, ClaimAgain
<1>8. CASE ClaimReread(w)
  <2>1. job[w].pc = "claim_reread" /\ job[w].sweep = FALSE /\ Goto(w, "send")
    BY <1>0, <1>8, <1>a DEF ClaimReread, Job
  <2>2. job'[w].event = job[w].event
    BY <1>b, <2>1
  <2> QED
    BY <2>1, <2>2 DEF PastCheck
<1>9. CASE Send(w)
  BY <1>9, SendKind DEF PastCheck
<1>10. CASE MarkRead(w)
  <2>1. CASE job' = [job EXCEPT ![w].pc = "mark_cas",
                                ![w].item = ledger[job[w].event]]
    BY <1>0, <2>1 DEF PastCheck, Job
  <2> QED
    BY <1>10, <1>a, <1>b, <2>1 DEF MarkRead, Marked, PastCheck
<1>11. CASE MarkCas(w)
  <2>1. CASE job' = [job EXCEPT ![w].pc = "mark_reread", ![w].item = Absent]
    BY <1>0, <2>1 DEF PastCheck, Job
  <2> QED
    BY <1>11, <1>a, <2>1 DEF MarkCas
<1>12. CASE MarkReread(w)
  BY <1>12, <1>a, <1>b DEF MarkReread, Marked, PastCheck
<1>13. CASE Crash(w)
  BY <1>0, <1>13 DEF Crash, Idle, PastCheck
<1>14. CASE Postpone(w) \/ OpenCircuit(w) \/ StoreError(w)
  BY <1>14, <1>a DEF Postpone, OpenCircuit, StoreError
<1> QED
  BY <1>1, <1>2, <1>3, <1>4, <1>5, <1>6, <1>7, <1>8, <1>9, <1>10, <1>11,
     <1>12, <1>13, <1>14 DEF WorkerStep

\* Only an attempt counts as late and only OpenCircuit opens one.
LEMMA CircuitsStep ==
    ASSUME TypeInv, NEW w \in Workers, WorkerStep(w)
    PROVE  /\ openCircuits' # openCircuits => OpenCircuit(w)
           /\ lateSends' # lateSends => Send(w)
<1>1. ASSUME NEW e \in Events, Start(w, e) PROVE UNCHANGED <<openCircuits, lateSends>>
  BY <1>1 DEF Start, mail
<1>2. CASE PutIfAbsent(w) \/ PrepareRead(w) \/ Postpone(w) \/ Connect(w)
  BY <1>2 DEF PutIfAbsent, PrepareRead, Postpone, Connect, mail
<1>3. CASE ResolveSecrets(w) \/ ClaimRead(w) \/ ClaimCas(w) \/ ClaimReread(w)
  BY <1>3 DEF ResolveSecrets, ClaimRead, ClaimCas, ClaimReread, mail
<1>4. CASE Send(w) \/ OpenCircuit(w)
  BY <1>4 DEF Send, OpenCircuit, mail
<1>5. CASE MarkRead(w) \/ MarkCas(w) \/ MarkReread(w) \/ StoreError(w) \/ Crash(w)
  BY <1>5 DEF MarkRead, MarkCas, MarkReread, StoreError, Crash, mail
<1> QED
  BY <1>1, <1>2, <1>3, <1>4, <1>5 DEF WorkerStep

LEMMA LateSendsWorkerStep ==
    ASSUME TypeInv, LateSendsAccounted, NEW w \in Workers, WorkerStep(w)
    PROVE  LateSendsAccounted'
<1> SUFFICES ASSUME NEW c \in Circuits
             PROVE  /\ c \notin openCircuits' => lateSends'[c] = 0
                    /\ c \in openCircuits' =>
                          lateSends'[c] + Cardinality(Past(c)') <= Cardinality(Workers) - 1
  BY DEF LateSendsAccounted
<1>0. \A v \in Workers \ {w} : job'[v] = job[v]
  BY WorkerStepKinds DEF Others
<1>1. lateSends[c] \in Nat
  BY DEF TypeInv, TypeOK
<1>2. /\ IsFiniteSet(Past(c)) /\ Cardinality(Past(c)) \in Nat
      /\ IsFiniteSet(Workers) /\ Cardinality(Workers) \in Nat
  BY CountingPast, WorkersAssumption
<1>3. \A v \in Past(c)' : v # w => v \in Past(c)
  BY <1>0 DEF Past, PastCheck
<1>4. w \in Past(c)' => w \in Past(c) \/ c \notin openCircuits
  BY PastStep DEF Past
<1>5. CASE Send(w) /\ c \in openCircuits /\ c = CircuitOf[job[w].event]
  <2>1. job[w].pc = "send" /\ job'[w].pc = "mark_read" /\ openCircuits' = openCircuits
        /\ lateSends'[c] = lateSends[c] + 1
    BY <1>5, SendKind DEF Send, TypeInv, TypeOK
  <2>2. w \in Past(c) /\ w \notin Past(c)'
    BY <1>5, <2>1 DEF Past, PastCheck
  <2>3. Past(c)' \in SUBSET (Past(c) \ {w})
    BY <1>3, <2>2
  <2>4. IsFiniteSet(Past(c) \ {w}) /\ Cardinality(Past(c) \ {w}) = Cardinality(Past(c)) - 1
    BY <1>2, <2>2, FS_RemoveElement
  <2>5. Cardinality(Past(c)') \in Nat /\ Cardinality(Past(c)') <= Cardinality(Past(c)) - 1
    BY <2>3, <2>4, FS_Subset, FS_CardinalityType
  <2>6. lateSends[c] + Cardinality(Past(c)) <= Cardinality(Workers) - 1
    BY <1>5 DEF LateSendsAccounted
  <2> QED
    BY <1>1, <1>2, <1>5, <2>1, <2>5, <2>6
<1>6. CASE ~(Send(w) /\ c \in openCircuits /\ c = CircuitOf[job[w].event])
  <2>1. lateSends'[c] = lateSends[c]
    BY <1>6, CircuitsStep DEF Send, TypeInv, TypeOK
  <2>2. CASE c \in openCircuits
    <3>1. Past(c)' \in SUBSET Past(c)
      BY <1>3, <1>4, <2>2
    <3>2. Cardinality(Past(c)') \in Nat /\ Cardinality(Past(c)') <= Cardinality(Past(c))
      BY <1>2, <3>1, FS_Subset, FS_CardinalityType
    <3>3. c \in openCircuits'
      BY <2>2, CircuitsStep DEF OpenCircuit
    <3>4. lateSends[c] + Cardinality(Past(c)) <= Cardinality(Workers) - 1
      BY <2>2 DEF LateSendsAccounted
    <3> QED
      BY <1>1, <1>2, <2>1, <3>2, <3>3, <3>4
  <2>3. CASE c \notin openCircuits /\ c \in openCircuits'
    <3>1. OpenCircuit(w)
      BY <2>3, CircuitsStep
    <3>2. w \notin Past(c)'
      <4>1. job'[w].pc = "idle"
        BY <3>1, AnswerEnds DEF OpenCircuit, Ended
      <4> QED
        BY <4>1 DEF Past, PastCheck
    <3>3. Past(c)' \in SUBSET (Workers \ {w})
      BY <3>2 DEF Past
    <3>4. IsFiniteSet(Workers \ {w}) /\ Cardinality(Workers \ {w}) = Cardinality(Workers) - 1
      BY <1>2, FS_RemoveElement
    <3>5. Cardinality(Past(c)') \in Nat /\ Cardinality(Past(c)') <= Cardinality(Workers) - 1
      BY <3>3, <3>4, FS_Subset, FS_CardinalityType
    <3>6. lateSends[c] = 0
      BY <2>3 DEF LateSendsAccounted
    <3> QED
      BY <1>2, <2>1, <2>3, <3>5, <3>6
  <2>4. CASE c \notin openCircuits /\ c \notin openCircuits'
    BY <2>1, <2>4 DEF LateSendsAccounted
  <2> QED
    BY <2>2, <2>3, <2>4
<1> QED
  BY <1>5, <1>6

LEMMA LateSendsStep ==
    TypeInv /\ LateSendsAccounted /\ [Next]_vars => LateSendsAccounted'
<1> SUFFICES ASSUME TypeInv, LateSendsAccounted, [Next]_vars
             PROVE  LateSendsAccounted'
  OBVIOUS
<1>1. CASE UNCHANGED <<openCircuits, job, lateSends>>
  BY <1>1 DEF LateSendsAccounted, Past, PastCheck
<1>2. CASE UNCHANGED vars \/ Tick
  BY <1>1, <1>2 DEF vars, Tick, mail
<1>3. ASSUME NEW e \in Events, OperatorStep(e) PROVE LateSendsAccounted'
  BY <1>1, <1>3 DEF OperatorStep, Review, ConfirmAccepted, AuthorizeRetry, mail
<1> QED
  BY <1>2, <1>3, LateSendsWorkerStep DEF Next

LEMMA LateSendsInit == Init => LateSendsAccounted
  BY DEF Init, LateSendsAccounted

\* Once a circuit is open, only invocations already past its check still send
\* through it, each once and never the one that opened it.
THEOREM OpenCircuitsHoldBack == Spec => []LateSendsBounded
<1>1. ASSUME TypeInv, LateSendsAccounted, NEW c \in Circuits
      PROVE  lateSends[c] <= Cardinality(Workers) - 1
  <2>1. Cardinality(Workers) \in Nat /\ Cardinality(Workers) # 0
    BY WorkersAssumption, FS_CardinalityType, FS_EmptySet
  <2>2. lateSends[c] \in Nat /\ Cardinality(Past(c)) \in Nat
    BY <1>1, CountingPast DEF TypeInv, TypeOK
  <2>3. CASE c \in openCircuits
    <3>1. lateSends[c] + Cardinality(Past(c)) <= Cardinality(Workers) - 1
      BY <1>1, <2>3 DEF LateSendsAccounted
    <3> QED
      BY <2>1, <2>2, <3>1
  <2>4. CASE c \notin openCircuits
    <3>1. lateSends[c] = 0
      BY <1>1, <2>4 DEF LateSendsAccounted
    <3> QED
      BY <2>1, <3>1
  <2> QED
    BY <2>3, <2>4
<1>2. TypeInv /\ LateSendsAccounted => LateSendsBounded
  BY <1>1 DEF LateSendsBounded
<1>3. Spec => []LateSendsAccounted
  BY TypeInvariance, LateSendsInit, LateSendsStep, PTL DEF Spec
<1> QED
  BY <1>2, <1>3, TypeInvariance, PTL

=============================================================================
