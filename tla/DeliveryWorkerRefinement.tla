----------------------- MODULE DeliveryWorkerRefinement -----------------------
(***************************************************************************)
(* The ledger protocol implements the life of a record: each step of an     *)
(* invocation or an operator is one step of DeliveryLifecycle, or none.     *)
(* The hard part is that no permit is out when a record is retried, parked   *)
(* as uncertain or taken for accepted: another invocation's permit is ruled  *)
(* out by the lease (Fence) or by the answer in hand (OneHolder).            *)
(***************************************************************************)
EXTENDS DeliveryWorkerLedger

(***************************************************************************)
(* Sending.                                                                *)
(***************************************************************************)

\* No SMTP attempt is made for a record that is uncertain, accepted, or free
\* to be claimed by somebody else.
THEOREM AttemptsUnderClaim == Spec => SendsUnderClaim
<1>1. IInv /\ [Next]_vars =>
         [\A e \in Events : sends'[e] # sends[e]
                               => ledger[e].state \in {"sending", "failed"}]_vars
  <2> SUFFICES ASSUME IInv, [Next]_vars, NEW e \in Events, sends'[e] # sends[e]
               PROVE  ledger[e].state \in {"sending", "failed"}
    OBVIOUS
  <2>1. ASSUME NEW w \in Workers, Send(w)
        PROVE  ledger[e].state \in {"sending", "failed"}
    <3>1. /\ sends' = [sends EXCEPT ![job[w].event] = @ + 1]
          /\ HoldsPermit(w)
      BY <2>1, SendKind DEF IInv
    <3>2. ledger[job[w].event].state \in {"sending", "failed"}
      BY <3>1 DEF IInv, Custody, Holds
    <3> QED
      BY <3>1, <3>2 DEF IInv, TypeInv, TypeOK
  <2>2. ASSUME NEW w \in Workers, WorkerStep(w), ~Send(w) PROVE UNCHANGED sends
    BY <2>2, WorkerStepKinds, PutIfAbsentKind, ClaimReadKind, ClaimCasKind,
       ClaimRereadKind, MarkReadKind, MarkCasKind DEF Quiet, mail, IInv
  <2>3. ASSUME NEW d \in Events, OperatorStep(d) PROVE UNCHANGED sends
    BY <2>3 DEF OperatorStep, Review, ConfirmAccepted, AuthorizeRetry, mail
  <2> QED
    BY <2>1, <2>2, <2>3 DEF Next, Tick, vars, mail
<1> QED
  BY <1>1, Safety, PTL DEF Spec, SendsUnderClaim

(***************************************************************************)
(* The refinement mapping, point by point.                                 *)
(***************************************************************************)

Permit(e) == \E w \in Workers : job[w].event = e /\ HoldsPermit(w)

Status == [e \in Events |-> ledger[e].state]
Attempts == [e \in Events |-> ledger[e].attempts]
Permits == [e \in Events |-> Permit(e)]
Authorised == [e \in Events |-> 1 + approvals[e]]

\* What a step leaves alone of a notification.
SameRecord(e) ==
    ledger'[e].state = ledger[e].state /\ ledger'[e].attempts = ledger[e].attempts
SameMail(e) == delivered'[e] = delivered[e] /\ approvals'[e] = approvals[e]
Same(e) == SameRecord(e) /\ Permit(e)' = Permit(e) /\ SameMail(e)

\* A step that concerns one notification changes the mapping at that point.
LEMMA Lifted ==
    ASSUME TypeInv, TypeInv', NEW e \in Events, \A d \in Events \ {e} : Same(d)
    PROVE  /\ Status' = [Status EXCEPT ![e] = ledger'[e].state]
           /\ Attempts' = [Attempts EXCEPT ![e] = ledger'[e].attempts]
           /\ Permits' = [Permits EXCEPT ![e] = Permit(e)']
           /\ delivered' = [delivered EXCEPT ![e] = delivered'[e]]
           /\ Authorised' = [Authorised EXCEPT ![e] = 1 + approvals'[e]]
<1>1. Status' = [Status EXCEPT ![e] = ledger'[e].state]
  BY DEF Status, Same, SameRecord
<1>2. Attempts' = [Attempts EXCEPT ![e] = ledger'[e].attempts]
  BY DEF Attempts, Same, SameRecord
<1>3. Permits' = [Permits EXCEPT ![e] = Permit(e)']
  BY Zenon DEF Permits, Same
<1>4. delivered' = [delivered EXCEPT ![e] = delivered'[e]]
  BY DEF Same, SameMail, TypeInv, TypeOK
<1>5. Authorised' = [Authorised EXCEPT ![e] = 1 + approvals'[e]]
  BY DEF Authorised, Same, SameMail
<1> QED
  BY <1>1, <1>2, <1>3, <1>4, <1>5

\* What stays the same at a point stays the same in the mapping.
LEMMA Unmoved ==
    ASSUME TypeInv, TypeInv', NEW e \in Events, \A d \in Events \ {e} : Same(d)
    PROVE  /\ ledger'[e].attempts = ledger[e].attempts => UNCHANGED Attempts
           /\ ledger'[e].state = ledger[e].state => UNCHANGED Status
           /\ Permit(e)' = Permit(e) => UNCHANGED Permits
           /\ delivered'[e] = delivered[e] => UNCHANGED delivered
           /\ approvals'[e] = approvals[e] => UNCHANGED Authorised
<1>1. ledger'[e].attempts = ledger[e].attempts => UNCHANGED Attempts
  BY DEF Attempts, Same, SameRecord
<1>2. ledger'[e].state = ledger[e].state => UNCHANGED Status
  BY DEF Status, Same, SameRecord
<1>3. Permit(e)' = Permit(e) => UNCHANGED Permits
  <2> SUFFICES ASSUME Permit(e)' = Permit(e) PROVE UNCHANGED Permits
    OBVIOUS
  <2>1. \A d \in Events : Permit(d)' = Permit(d)
    BY DEF Same
  <2> QED
    BY <2>1, Zenon DEF Permits
<1>4. delivered'[e] = delivered[e] => UNCHANGED delivered
  BY DEF Same, SameMail, TypeInv, TypeOK
<1>5. approvals'[e] = approvals[e] => UNCHANGED Authorised
  BY DEF Authorised, Same, SameMail
<1> QED
  BY <1>1, <1>2, <1>3, <1>4, <1>5

LEMMA Stutters ==
    ASSUME TypeInv, TypeInv', \A e \in Events : Same(e)
    PROVE  UNCHANGED Lifecycle!vars
<1>1. UNCHANGED <<Status, Attempts, Authorised>>
  BY DEF Status, Attempts, Authorised, Same, SameRecord, SameMail
<1>2. UNCHANGED delivered
  BY DEF Same, SameMail, TypeInv, TypeOK
<1>3. UNCHANGED Permits
  <2>1. \A d \in Events : Permit(d)' = Permit(d)
    BY DEF Same
  <2> QED
    BY <2>1, Zenon DEF Permits
<1> QED
  BY <1>1, <1>2, <1>3 DEF Lifecycle!vars, Status, Attempts, Authorised, Permits, Permit

(***************************************************************************)
(* One notification's step, as a step of its life.                         *)
(***************************************************************************)

\* A step that moves a record to a state and changes nothing else.
Moved(e, s) ==
    /\ ledger'[e].state = s /\ ledger'[e].attempts = ledger[e].attempts
    /\ Permit(e)' = Permit(e)
    /\ SameMail(e)

\* What the mapping shows of a notification.
LEMMA Shown ==
    ASSUME TypeInv, NEW e \in Events
    PROVE  /\ Status[e] = ledger[e].state /\ Attempts[e] = ledger[e].attempts
           /\ Permits[e] = Permit(e) /\ Authorised[e] = 1 + approvals[e]
           /\ delivered[e] \in Nat /\ approvals[e] \in Nat /\ ledger[e] \in Record
  BY DEF Status, Attempts, Permits, Authorised, TypeInv, TypeOK

LEMMA Moves ==
    ASSUME TypeInv, TypeInv', NEW e \in Events, \A d \in Events \ {e} : Same(d),
           NEW s, Moved(e, s)
    PROVE  /\ ledger[e].state = "absent" /\ s = "prepared" => Lifecycle!Register(e)
           /\ ledger[e].state = "sending" /\ s = "prepared" /\ ~Permit(e)
                 /\ delivered[e] < 1 + approvals[e] => Lifecycle!Retry(e)
           /\ ledger[e].state = "sending" /\ ~Permit(e) /\ s = "uncertain"
              => Lifecycle!Settle(e)
           /\ ledger[e].state = "sending" /\ ~Permit(e) /\ s = "accepted_by_smtp"
                 /\ delivered[e] >= 1 => Lifecycle!Settle(e)
           /\ ledger[e].state \in {"prepared", "sending"} /\ s = "failed"
              => Lifecycle!Fail(e)
           /\ ledger[e].state = "uncertain" /\ s = "accepted_by_smtp"
              => Lifecycle!Confirm(e)
<1>1. /\ Status' = [Status EXCEPT ![e] = s]
      /\ UNCHANGED <<Attempts, Permits, delivered, Authorised>>
  BY Lifted, Unmoved DEF Moved, SameMail
<1>2. /\ Status[e] = ledger[e].state /\ Permits[e] = Permit(e)
      /\ Authorised[e] = 1 + approvals[e]
  BY Shown
<1> QED
  BY <1>1, <1>2 DEF Lifecycle!Register, Lifecycle!Retry, Lifecycle!Settle,
     Lifecycle!Fail, Lifecycle!Confirm, Lifecycle!Become,
     Status, Attempts, Permits, Authorised, Permit

LEMMA MovesToAttempt ==
    ASSUME TypeInv, TypeInv', NEW e \in Events, \A d \in Events \ {e} : Same(d),
           ledger[e].state = "prepared", ~Permit(e), delivered[e] < 1 + approvals[e],
           ledger[e].attempts < MaxAttempts,
           ledger'[e].state = "sending", ledger'[e].attempts = ledger[e].attempts + 1,
           SameMail(e)
    PROVE  Lifecycle!Attempt(e)
<1>1. /\ Status' = [Status EXCEPT ![e] = "sending"]
      /\ Attempts' = [Attempts EXCEPT ![e] = @ + 1]
      /\ Permits' = [Permits EXCEPT ![e] = Permit(e)']
      /\ UNCHANGED <<delivered, Authorised>>
  <2>1. Attempts[e] = ledger[e].attempts
    BY Shown
  <2> QED
    BY <2>1, Lifted, Unmoved DEF SameMail
<1>2. Permit(e)' \in BOOLEAN
  BY DEF Permit
<1> QED
  BY <1>1, <1>2, Shown DEF Lifecycle!Attempt, Lifecycle!Become,
     Status, Attempts, Permits, Authorised, Permit

LEMMA MovesToConclude ==
    ASSUME TypeInv, TypeInv', NEW e \in Events, \A d \in Events \ {e} : Same(d),
           Permit(e), ~Permit(e)', SameRecord(e), approvals'[e] = approvals[e],
           NEW n \in {0, 1}, delivered'[e] = delivered[e] + n
    PROVE  Lifecycle!Conclude(e)
<1>1. /\ Permits' = [Permits EXCEPT ![e] = FALSE]
      /\ delivered' = [delivered EXCEPT ![e] = @ + n]
      /\ UNCHANGED <<Status, Attempts, Authorised>>
  BY Lifted, Unmoved DEF SameRecord
<1> QED
  BY <1>1, Shown DEF Lifecycle!Conclude, Status, Attempts, Permits, Authorised, Permit

LEMMA MovesToAuthorise ==
    ASSUME TypeInv, TypeInv', NEW e \in Events, \A d \in Events \ {e} : Same(d),
           ledger[e].state = "uncertain", ledger[e].attempts < MaxAttempts,
           ledger'[e].state = "prepared", ledger'[e].attempts = ledger[e].attempts,
           Permit(e)' = Permit(e), delivered'[e] = delivered[e],
           approvals'[e] = approvals[e] + 1
    PROVE  Lifecycle!Authorise(e)
<1>1. /\ Status' = [Status EXCEPT ![e] = "prepared"]
      /\ Authorised' = [Authorised EXCEPT ![e] = @ + 1]
      /\ UNCHANGED <<Attempts, Permits, delivered>>
  <2>1. Authorised[e] + 1 = 1 + approvals'[e]
    BY Shown
  <2> QED
    BY <2>1, Lifted, Unmoved
<1> QED
  BY <1>1, Shown DEF Lifecycle!Authorise, Lifecycle!Become,
     Status, Attempts, Permits, Authorised, Permit

(***************************************************************************)
(* Permits.                                                                *)
(***************************************************************************)

\* A step of an invocation leaves the other notifications' permits alone.
LEMMA OthersPermits ==
    ASSUME TypeInv, NEW w \in Workers, WorkerStep(w), NEW d \in Events, d # job[w].event
    PROVE  Permit(d)' = Permit(d)
<1>1. Others(w)
  BY WorkerStepKinds
<1>2. ~(job'[w].event = d /\ HoldsPermit(w)')
  BY HoldStep DEF Holds, Continues
<1>3. ASSUME NEW v \in Workers \ {w}
      PROVE  job'[v].event = job[v].event /\ (HoldsPermit(v)' <=> HoldsPermit(v))
  BY <1>1, <1>3 DEF Others, HoldsPermit
<1> QED
  BY <1>2, <1>3 DEF Permit

\* Nor does it touch its own notification's, unless it takes or drops it.
LEMMA OwnPermit ==
    ASSUME TypeInv, NEW w \in Workers, WorkerStep(w), NEW e \in Events,
           e = job[w].event, HoldsPermit(w)' <=> HoldsPermit(w)
    PROVE  Permit(e)' = Permit(e)
<1>1. Others(w)
  BY WorkerStepKinds
<1>2. HoldsPermit(w)' => job'[w].event = job[w].event
  BY HoldStep DEF Holds, Continues
<1>3. ASSUME NEW v \in Workers \ {w}
      PROVE  job'[v].event = job[v].event /\ (HoldsPermit(v)' <=> HoldsPermit(v))
  BY <1>1, <1>3 DEF Others, HoldsPermit
<1> QED
  BY <1>2, <1>3 DEF Permit

\* Whoever holds a notification alone drops its only permit.
LEMMA DroppedPermit ==
    ASSUME TypeInv, OneHolder, NEW w \in Workers, WorkerStep(w),
           NEW e \in Events, e = job[w].event, HoldsPermit(w), ~HoldsPermit(w)'
    PROVE  Permit(e) /\ ~Permit(e)'
<1>1. Others(w)
  BY WorkerStepKinds
<1>2. ASSUME NEW v \in Workers \ {w}, job'[v].event = e, HoldsPermit(v)'
      PROVE  FALSE
  <2>1. job[v].event = e /\ HoldsPermit(v)
    BY <1>1, <1>2 DEF Others, HoldsPermit
  <2> QED
    BY <1>2, <2>1 DEF OneHolder, Holds
<1> QED
  BY <1>2 DEF Permit

\* An answer in hand is the only claim to its notification.
LEMMA AnswerAlone ==
    ASSUME OneHolder, NEW w \in Workers, HasAnswer(w)
    PROVE  ~Permit(job[w].event)
<1>1. ~HoldsPermit(w)
  BY DEF HasAnswer, HoldsPermit
<1> QED
  BY <1>1 DEF OneHolder, Holds, Permit

\* No permit is out for a record that is prepared, or whose lease is over on
\* the clock of an invocation under way.
LEMMA ClaimableIsFree ==
    ASSUME TypeInv, Bookkeeping, Custody, NEW w \in Workers, job[w].pc # "idle",
           NEW e \in Events, Claimable(ledger[e], job[w].now)
    PROVE  ~Permit(e)
<1> SUFFICES ASSUME NEW v \in Workers, job[v].event = e, HoldsPermit(v) PROVE FALSE
  BY DEF Permit
<1>1. ledger[e].state = "sending" /\ ledger[e].leaseExpiresAt = job[v].now + SendingLease
  BY DEF Custody, Holds, Claimable
<1>2. job[v].pc # "idle" /\ Timely(v) /\ Timely(w)
  BY DEF HoldsPermit, Bookkeeping
<1>3. job[w].now < job[v].now + SendingLease
  BY <1>2, Fence
<1> QED
  BY <1>1, <1>3, JobTypes, LeaseAssumption DEF Claimable

(***************************************************************************)
(* Each step of an invocation is a step of the record's life, or none.      *)
(***************************************************************************)

\* A step that writes no record: an answer, an SMTP attempt, or nothing.
LEMMA ReadingStep ==
    ASSUME IInv, TypeInv', NEW w \in Workers, WorkerStep(w),
           \A d \in Events : ledger'[d] = ledger[d]
    PROVE  [Lifecycle!Next]_Lifecycle!vars
<1> DEFINE e == job[w].event
<1>0. /\ TypeInv /\ Bookkeeping /\ Custody /\ OneHolder
      /\ UNCHANGED operator
  BY WorkerStepKinds DEF IInv
<1>1. \A d \in Events : SameRecord(d) /\ approvals'[d] = approvals[d]
  BY <1>0 DEF SameRecord, operator
<1>2. CASE Send(w)
  <2>1. /\ e \in Events /\ HoldsPermit(w) /\ ~HoldsPermit(w)'
    BY <1>0, <1>2, SendKind
  <2>2. PICK n \in {0, 1} : delivered' = [delivered EXCEPT ![e] = @ + n]
    BY <1>0, <1>2, SendKind
  <2>3. PICK d \in Events : d = e
    BY <2>1
  <2>4. Permit(d) /\ ~Permit(d)'
    BY <1>0, <2>1, <2>3, DroppedPermit
  <2>5. /\ delivered'[d] = delivered[d] + n
        /\ \A c \in Events \ {d} : delivered'[c] = delivered[c]
    BY <1>0, <2>2, <2>3 DEF TypeInv, TypeOK
  <2>6. \A c \in Events \ {d} : Same(c)
    BY <1>0, <1>1, <2>3, <2>5, OthersPermits DEF Same, SameMail
  <2>7. Lifecycle!Conclude(d)
    BY <1>0, <1>1, <2>4, <2>5, <2>6, MovesToConclude
  <2> QED
    BY <2>7 DEF Lifecycle!Next
<1>3. CASE ~Send(w)
  <2>1. UNCHANGED mail
    BY <1>0, <1>3, WorkerStepKinds, PutIfAbsentKind, ClaimReadKind, ClaimCasKind,
       ClaimRereadKind, MarkReadKind, MarkCasKind DEF Quiet
  <2>2. \A d \in Events : SameMail(d)
    BY <1>1, <2>1 DEF SameMail, mail
  <2>3. ASSUME HoldsPermit(w)' PROVE HoldsPermit(w)
    <3>1. Holds(w)'
      BY <2>3 DEF Holds
    <3>2. CASE Holds(w) /\ UNCHANGED ledger
      <4>1. HasAnswer(w) => ~HoldsPermit(w)'
        BY <1>0, <3>1, WorkerStepKinds, PutIfAbsentKind, ClaimReadKind,
           ClaimCasKind, ClaimRereadKind, SendKind, MarkReadKind, MarkCasKind
           DEF Quiet, Holds, HasAnswer, ClaimCas, ClaimReread
      <4> QED
        BY <2>3, <3>2, <4>1 DEF Holds
    <3>3. CASE /\ ClaimCas(w)
               /\ Written(w, ClaimUpdate(job[w].item, job[w].now))
      <4>1. /\ e \in Events /\ job[w].item = ledger[e]
            /\ ledger'[e] = ClaimUpdate(ledger[e], job[w].now)
        BY <1>0, <3>3, ClaimCasKind, WrittenOver DEF Bookkeeping, ClaimCas, WriteSteps
      <4>2. ledger[e] \in Record /\ job[w].now \in Nat
        BY <1>0, <4>1, JobTypes
      <4>3. ledger'[e].revision = ledger[e].revision + 1 /\ ledger[e].revision \in Nat
        BY <4>1, <4>2, ClaimUpdateFields DEF Record
      <4> QED
        BY <4>1, <4>3
    <3> QED
      BY <1>0, <3>1, <3>2, <3>3, HoldStep
  <2>4. CASE HoldsPermit(w)' <=> HoldsPermit(w)
    <3>1. \A d \in Events : Permit(d)' = Permit(d)
      BY <1>0, <2>4, OthersPermits, OwnPermit
    <3> QED
      BY <1>0, <1>1, <2>2, <3>1, Stutters DEF Same
  <2>5. CASE HoldsPermit(w) /\ ~HoldsPermit(w)'
    <3>1. PICK d \in Events : d = e
      BY <1>0, <2>5, JobTypes DEF HoldsPermit
    <3>2. Permit(d) /\ ~Permit(d)'
      BY <1>0, <2>5, <3>1, DroppedPermit
    <3>3. \A c \in Events \ {d} : Same(c)
      BY <1>0, <1>1, <2>2, <3>1, OthersPermits DEF Same
    <3>4. delivered'[d] = delivered[d] + 0
      BY <1>0, <2>2 DEF SameMail, TypeInv, TypeOK
    <3>5. Lifecycle!Conclude(d)
      BY <1>0, <1>1, <3>2, <3>3, <3>4, MovesToConclude
    <3> QED
      BY <3>5 DEF Lifecycle!Next
  <2> QED
    BY <2>3, <2>4, <2>5
<1> QED
  BY <1>2, <1>3

\* A step that writes the record of its notification.
LEMMA WritingStep ==
    ASSUME IInv, TypeInv', AcceptanceIsTrue, NEW w \in Workers, WorkerStep(w),
           NEW e \in Events, ledger'[e] # ledger[e]
    PROVE  Lifecycle!Next
<1>0. /\ TypeInv /\ Bookkeeping /\ Custody /\ OneHolder /\ AttemptsAreFresh
      /\ e = job[w].event /\ ledger[e] \in Record /\ job[w].now \in Nat
      /\ UNCHANGED operator
  BY RecordStep, WorkerStepKinds DEF IInv
<1>1. /\ UNCHANGED mail /\ job[w].pc # "idle" /\ ~HoldsPermit(w)
      /\ PutIfAbsent(w) \/ ClaimCas(w) \/ MarkCas(w)
  BY <1>0, RecordStep, PutIfAbsentKind, ClaimCasKind, MarkCasKind
     DEF PutIfAbsent, ClaimCas, MarkCas, HoldsPermit
<1>2. \A d \in Events : SameMail(d)
  BY <1>0, <1>1 DEF SameMail, mail, operator
<1>3. \A d \in Events \ {e} : Same(d)
  <2>1. \A d \in Events \ {e} : ledger'[d] = ledger[d]
    BY <1>0, WorkerWrites
  <2> QED
    BY <1>0, <1>2, <2>1, OthersPermits DEF Same, SameRecord
<1>4. ASSUME ~HoldsPermit(w)' PROVE Permit(e)' = Permit(e)
  BY <1>0, <1>1, <1>4, OwnPermit
<1>5. ASSUME Undelivered(e) PROVE delivered[e] < 1 + approvals[e]
  BY <1>0, <1>5, Shown DEF Undelivered
<1>6. CASE PutIfAbsent(w) /\ Created(ledger[e], ledger'[e], job[w].now)
  <2>1. ledger[e].state = "absent" /\ ledger[e].attempts = 0
    BY <1>6 DEF Created, Absent
  <2>2. ledger'[e].state = "prepared" /\ ledger'[e].attempts = 0
    BY <1>0, <1>6, NewRecordFields DEF Created
  <2>3. ~HoldsPermit(w)'
    BY <1>0, <1>6, PutIfAbsentKind DEF Holds
  <2>4. Lifecycle!Register(e)
    BY <1>0, <1>2, <1>3, <1>4, <2>1, <2>2, <2>3, Moves DEF Moved
  <2> QED
    BY <2>4 DEF Lifecycle!Next
<1>7. CASE ClaimCas(w) /\ ClaimedFrom(ledger[e], ledger'[e], job[w].now)
  <2>1. /\ Claimable(ledger[e], job[w].now)
        /\ ledger'[e] = ClaimUpdate(ledger[e], job[w].now)
    BY <1>7 DEF ClaimedFrom
  <2>2. ~Permit(e)
    BY <1>0, <1>1, <2>1, ClaimableIsFree
  <2>3. CASE ledger[e].state = "prepared" /\ Acquires(ledger[e])
    <3>1. /\ ledger'[e].state = "sending"
          /\ ledger'[e].attempts = ledger[e].attempts + 1
      BY <1>0, <2>1, <2>3, ClaimUpdateFields
    <3>2. Undelivered(e)
      BY <1>0, <2>3 DEF AttemptsAreFresh
    <3>3. Lifecycle!Attempt(e)
      BY <1>0, <1>2, <1>3, <1>5, <2>2, <2>3, <3>1, <3>2, MovesToAttempt DEF Acquires
    <3> QED
      BY <3>3 DEF Lifecycle!Next
  <2>4. ASSUME ~Acquires(ledger[e]) PROVE ~HoldsPermit(w)'
    <3>1. SUFFICES ASSUME HoldsPermit(w)' PROVE FALSE
      OBVIOUS
    <3>2. /\ Acquires(job[w].item)
          /\ Written(w, ClaimUpdate(job[w].item, job[w].now))
      BY <1>0, <1>7, <3>1, ClaimCasKind DEF Holds
    <3>3. job[w].item = ledger[e]
      BY <1>0, <1>7, <3>2, WrittenOver DEF Bookkeeping, ClaimCas, WriteSteps
    <3> QED
      BY <2>4, <3>2, <3>3
  <2>5. CASE ledger[e].state = "sending"
    <3>1. ledger'[e].state = "uncertain" /\ ledger'[e].attempts = ledger[e].attempts
      BY <1>0, <2>1, <2>5, ClaimUpdateFields
    <3>2. ~HoldsPermit(w)'
      BY <2>4, <2>5 DEF Acquires
    <3>3. Moved(e, "uncertain")
      BY <1>2, <1>4, <3>1, <3>2 DEF Moved
    <3>4. Lifecycle!Settle(e)
      BY <1>0, <1>3, <2>2, <2>5, <3>3, Moves
    <3> QED
      BY <3>4 DEF Lifecycle!Next
  <2>6. CASE ledger[e].state = "prepared" /\ ~Acquires(ledger[e])
    <3>1. ledger'[e].state = "failed" /\ ledger'[e].attempts = ledger[e].attempts
      BY <1>0, <2>1, <2>6, ClaimUpdateFields
    <3>2. Lifecycle!Fail(e)
      BY <1>0, <1>2, <1>3, <1>4, <2>4, <2>6, <3>1, Moves DEF Moved
    <3> QED
      BY <3>2 DEF Lifecycle!Next
  <2> QED
    BY <2>1, <2>3, <2>5, <2>6 DEF Claimable
<1>8. CASE /\ MarkCas(w) /\ job[w].op \in Ops \ {"none"}
           /\ MarkedFrom(job[w].op, ledger[e], ledger'[e], job[w].now)
  <2>1. /\ ledger[e].state \in MarkableStates(job[w].op)
        /\ ledger'[e].state = MarkedState(job[w].op, ledger[e])
        /\ ledger'[e].attempts = ledger[e].attempts
    BY <1>0, <1>8, MarkUpdateFields DEF MarkedFrom
  <2>2. Permit(e)' = Permit(e)
    BY <1>0, <1>4, <1>8, MarkCasKind DEF Holds
  <2>3. Moved(e, MarkedState(job[w].op, ledger[e]))
    BY <1>2, <2>1, <2>2 DEF Moved
  <2>4. CASE job[w].op \in {"smtp_accepted", "smtp_ambiguous", "smtp_transient"}
    <3>1. HasAnswer(w) /\ ledger[e].state = "sending"
      BY <1>8, <2>1, <2>4 DEF MarkCas, HasAnswer, AllSmtpOutcomes, Refusals,
         MarkableStates, FailureOps, CircuitReasons
    <3>2. ~Permit(e)
      BY <1>0, <3>1, AnswerAlone
    <3>3. CASE job[w].op = "smtp_accepted"
      <4>1. delivered[e] >= 1
        BY <1>0, <3>3 DEF AcceptanceIsTrue
      <4>2. Lifecycle!Settle(e)
        BY <1>0, <1>3, <2>3, <3>1, <3>2, <3>3, <4>1, Moves DEF MarkedState
      <4> QED
        BY <4>2 DEF Lifecycle!Next
    <3>4. CASE job[w].op = "smtp_ambiguous"
      <4>1. Moved(e, "uncertain")
        BY <2>3, <3>4 DEF MarkedState
      <4>2. Lifecycle!Settle(e)
        BY <1>0, <1>3, <3>1, <3>2, <4>1, Moves
      <4> QED
        BY <4>2 DEF Lifecycle!Next
    <3>5. CASE job[w].op = "smtp_transient" /\ ledger[e].attempts < MaxAttempts
      <4>1. delivered[e] < 1 + approvals[e]
        BY <1>0, <1>5, <3>1, <3>5 DEF AttemptsAreFresh
      <4>2. Moved(e, "prepared")
        BY <2>3, <3>5 DEF MarkedState
      <4>3. Lifecycle!Retry(e)
        BY <1>0, <1>3, <3>1, <3>2, <4>1, <4>2, Moves
      <4> QED
        BY <4>3 DEF Lifecycle!Next
    <3>6. CASE job[w].op = "smtp_transient" /\ ~(ledger[e].attempts < MaxAttempts)
      <4>1. Moved(e, "failed")
        BY <2>3, <3>6 DEF MarkedState
      <4>2. Lifecycle!Fail(e)
        BY <1>0, <1>3, <3>1, <4>1, Moves
      <4> QED
        BY <4>2 DEF Lifecycle!Next
    <3> QED
      BY <2>4, <3>3, <3>4, <3>5, <3>6
  <2>5. CASE job[w].op \notin {"smtp_accepted", "smtp_ambiguous", "smtp_transient"}
    <3>1. Moved(e, "failed")
      BY <2>3, <2>5 DEF MarkedState
    <3>2. ledger[e].state \in {"prepared", "sending"}
      BY <2>1 DEF MarkableStates
    <3>3. Lifecycle!Fail(e)
      BY <1>0, <1>3, <3>1, <3>2, Moves
    <3> QED
      BY <3>3 DEF Lifecycle!Next
  <2> QED
    BY <2>4, <2>5
<1> QED
  BY <1>0, <1>6, <1>7, <1>8, RecordStep

(***************************************************************************)
(* Each step of an operator, likewise.                                     *)
(***************************************************************************)

LEMMA OperatorLifeStep ==
    ASSUME TypeInv, TypeInv', NEW e \in Events, OperatorStep(e)
    PROVE  [Lifecycle!Next]_Lifecycle!vars
<1>0. UNCHANGED <<job, delivered>>
  BY DEF OperatorStep, Review, ConfirmAccepted, AuthorizeRetry, mail
<1>1. \A d \in Events : Permit(d)' = Permit(d)
  BY <1>0 DEF Permit, HoldsPermit
<1>2. \A d \in Events \ {e} : ledger'[d] = ledger[d] /\ approvals'[d] = approvals[d]
  <2>1. \A d \in Events \ {e} : approvals'[d] = approvals[d]
    BY DEF OperatorStep, Review, ConfirmAccepted, AuthorizeRetry, operator, TypeInv, TypeOK
  <2> QED
    BY <2>1, OperatorWrites
<1>3. \A d \in Events \ {e} : Same(d)
  BY <1>0, <1>1, <1>2 DEF Same, SameRecord, SameMail
<1>4. CASE Review(e)
  <2>1. UNCHANGED <<ledger, approvals>>
    BY <1>4 DEF Review
  <2> QED
    BY <1>0, <1>1, <2>1, Stutters DEF Same, SameRecord, SameMail
<1>5. CASE ConfirmAccepted(e)
  <2>1. PICK n \in Readings(clock) :
           ledger' = [ledger EXCEPT ![e] = ReconciledAccepted(@, n)]
    BY <1>5 DEF ConfirmAccepted
  <2>2. ledger[e] \in Record /\ n \in Nat /\ ledger[e].state = "uncertain"
    BY <1>5, TimeAssumption DEF Readings, TypeInv, TypeOK, ConfirmAccepted, CanReconcile
  <2>3. /\ ledger'[e].state = "accepted_by_smtp"
        /\ ledger'[e].attempts = ledger[e].attempts
    <3>1. ledger'[e] = ReconciledAccepted(ledger[e], n)
      BY <2>1 DEF TypeInv, TypeOK
    <3>2. /\ ReconciledAccepted(ledger[e], n).state = "accepted_by_smtp"
          /\ ReconciledAccepted(ledger[e], n).attempts = ledger[e].attempts
      BY <2>2, ReconciledFields
    <3> QED
      BY <3>1, <3>2
  <2>4. Moved(e, "accepted_by_smtp")
    BY <1>0, <1>1, <1>5, <2>3 DEF Moved, SameMail, ConfirmAccepted, operator
  <2>5. Lifecycle!Confirm(e)
    BY <1>3, <2>2, <2>4, Moves
  <2> QED
    BY <2>5 DEF Lifecycle!Next
<1>6. CASE AuthorizeRetry(e)
  <2>1. PICK n \in Readings(clock) :
           ledger' = [ledger EXCEPT ![e] = ReconciledRetry(@, n)]
    BY <1>6 DEF AuthorizeRetry
  <2>2. /\ ledger[e] \in Record /\ n \in Nat /\ ledger[e].state = "uncertain"
        /\ ledger[e].attempts < MaxAttempts
    BY <1>6, TimeAssumption DEF Readings, TypeInv, TypeOK, AuthorizeRetry, CanReconcile
  <2>3. ledger'[e].state = "prepared" /\ ledger'[e].attempts = ledger[e].attempts
    <3>1. ledger'[e] = ReconciledRetry(ledger[e], n)
      BY <2>1 DEF TypeInv, TypeOK
    <3>2. /\ ReconciledRetry(ledger[e], n).state = "prepared"
          /\ ReconciledRetry(ledger[e], n).attempts = ledger[e].attempts
      BY <2>2, ReconciledFields
    <3> QED
      BY <3>1, <3>2
  <2>4. approvals'[e] = approvals[e] + 1 /\ delivered'[e] = delivered[e]
    BY <1>0, <1>6 DEF AuthorizeRetry, TypeInv, TypeOK
  <2>5. Lifecycle!Authorise(e)
    BY <1>1, <1>3, <2>2, <2>3, <2>4, MovesToAuthorise
  <2> QED
    BY <2>5 DEF Lifecycle!Next
<1> QED
  BY <1>4, <1>5, <1>6 DEF OperatorStep

(***************************************************************************)
(* The refinement.                                                         *)
(***************************************************************************)

\* The ledger protocol, with any number of invocations, notifications and
\* operators, any skew the lease allows for, crashes, errors and lost replies,
\* implements the life of a record.
THEOREM LedgerImplementsLifecycle == Spec => ImplementsLifecycle
<1>1. Init => Lifecycle!Init
  <2> SUFFICES ASSUME Init PROVE Lifecycle!Init
    OBVIOUS
  <2>1. Status = [e \in Events |-> "absent"] /\ Attempts = [e \in Events |-> 0]
    BY DEF Init, Absent, Status, Attempts
  <2>2. Permits = [e \in Events |-> FALSE]
    <3>1. \A e \in Events : Permit(e) = FALSE
      BY DEF Init, Idle, Permit, HoldsPermit
    <3> QED
      BY <3>1, Zenon DEF Permits
  <2>3. delivered = [e \in Events |-> 0] /\ Authorised = [e \in Events |-> 1]
    BY DEF Init, Authorised
  <2> QED
    BY <2>1, <2>2, <2>3 DEF Lifecycle!Init, Status, Attempts, Permits, Authorised, Permit
<1>2. IInv /\ TypeInv' /\ AcceptanceIsTrue /\ [Next]_vars
         => [Lifecycle!Next]_Lifecycle!vars
  <2> SUFFICES ASSUME IInv, TypeInv', AcceptanceIsTrue, [Next]_vars
               PROVE  [Lifecycle!Next]_Lifecycle!vars
    OBVIOUS
  <2>1. CASE UNCHANGED vars \/ Tick
    <3>1. UNCHANGED <<ledger, job, delivered, approvals>>
      BY <2>1 DEF vars, Tick, mail, operator
    <3>2. \A e \in Events : Permit(e)' = Permit(e)
      BY <3>1 DEF Permit, HoldsPermit
    <3> QED
      BY <3>1, <3>2, Stutters DEF Same, SameRecord, SameMail, IInv
  <2>2. ASSUME NEW w \in Workers, WorkerStep(w)
        PROVE  [Lifecycle!Next]_Lifecycle!vars
    <3>1. CASE \A d \in Events : ledger'[d] = ledger[d]
      BY <2>2, <3>1, ReadingStep
    <3>2. ASSUME NEW d \in Events, ledger'[d] # ledger[d] PROVE Lifecycle!Next
      BY <2>2, <3>2, WritingStep
    <3> QED
      BY <3>1, <3>2
  <2>3. ASSUME NEW e \in Events, OperatorStep(e)
        PROVE  [Lifecycle!Next]_Lifecycle!vars
    BY <2>3, OperatorLifeStep DEF IInv
  <2> QED
    BY <2>1, <2>2, <2>3 DEF Next
<1> QED
  BY <1>1, <1>2, Safety, AcceptanceHolds, TypeInvariance, PTL
     DEF Spec, ImplementsLifecycle, Lifecycle!Spec

=============================================================================
