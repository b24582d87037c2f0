------------------------- MODULE DeliveryWorkerProofs -------------------------
(***************************************************************************)
(* Types, the inductive invariant and no blind duplicates for DeliveryWorker, *)
(* with any number of invocations and notifications, any attempt budget, and *)
(* any lease longer than the invocations' timeout on their clocks.           *)
(***************************************************************************)
EXTENDS DeliveryWorkerInv, TLAPS

(***************************************************************************)
(* Facts about records and steps.                                          *)
(***************************************************************************)

\* The absent item is typed like a record.
LEMMA AbsentType == Absent \in Record
  BY DEF Absent, Record, Missing

\* Every transition of a record yields a record.
LEMMA TransitionTypes ==
    ASSUME NEW r \in Record, NEW now \in Nat
    PROVE  /\ NewRecord(now) \in Record
           /\ Claimed(r, now) \in Record
           /\ ClaimExhausted(r, now) \in Record
           /\ \A reason \in UncertainReasons : Ambiguous(r, reason, now) \in Record
           /\ \A reason \in FailedReasons : Failed(r, reason, now) \in Record
           /\ Accepted(r, now) \in Record
           /\ Refused(r, now) \in Record
           /\ ReconciledAccepted(r, now) \in Record
           /\ ReconciledRetry(r, now) \in Record
<1> USE DEF Record
<1>0. SendingLease \in Nat
  BY LeaseAssumption
<1>2. \A state \in States : Move(r, state, now) \in Record
  <2>1. r.revision + 1 \in Nat
    OBVIOUS
  <2> QED
    BY <2>1 DEF Move
<1>3. NewRecord(now) \in Record
  BY AbsentType DEF NewRecord, Absent, States
<1>4. Claimed(r, now) \in Record
  <2> DEFINE m == Move(r, "sending", now)
  <2>1. m \in Record
    BY <1>2 DEF States
  <2> HIDE DEF m
  <2>2. m.attempts + 1 \in Nat /\ now + SendingLease \in Nat
    BY <1>0, <2>1
  <2>3. [m EXCEPT !.attempts = @ + 1, !.leaseExpiresAt = now + SendingLease,
                  !.reasonCode = NoReason] \in Record
    BY <2>1, <2>2
  <2> QED
    BY <2>3 DEF Claimed, m
<1>5. ClaimExhausted(r, now) \in Record
  BY <1>2 DEF ClaimExhausted, States, Missing, AcceptedReasons, FailedReasons
<1>6. \A reason \in UncertainReasons : Ambiguous(r, reason, now) \in Record
  BY <1>2 DEF Ambiguous, States, Missing
<1>7. \A reason \in FailedReasons : Failed(r, reason, now) \in Record
  BY <1>2 DEF Failed, States, Missing
<1>8. Accepted(r, now) \in Record
  BY <1>2 DEF Accepted, States, Missing, AcceptedReasons, FailedReasons
<1>9. Refused(r, now) \in Record
  <2>1. [Move(r, "prepared", now) EXCEPT !.leaseExpiresAt = Missing,
                                         !.reasonCode = NoReason] \in Record
    BY <1>2 DEF States
  <2>2. Failed(r, "retry_exhausted", now) \in Record
    BY <1>7 DEF FailedReasons
  <2> HIDE DEF Record
  <2> QED
    BY <2>1, <2>2 DEF Refused
<1>10. ReconciledAccepted(r, now) \in Record
  BY <1>2 DEF ReconciledAccepted, States, Missing, AcceptedReasons, FailedReasons
<1>11. ReconciledRetry(r, now) \in Record
  BY <1>2 DEF ReconciledRetry, States, Missing, AcceptedReasons, FailedReasons
<1> QED
  BY <1>3, <1>4, <1>5, <1>6, <1>7, <1>8, <1>9, <1>10, <1>11

\* What claim and mark_* write over a record is a record.
LEMMA UpdateTypes ==
    ASSUME NEW r \in Record, NEW now \in Nat
    PROVE  /\ ClaimUpdate(r, now) \in Record
           /\ \A op \in Ops \ {"none"} : MarkUpdate(op, r, now) \in Record
<1>1. ClaimUpdate(r, now) \in Record
  BY TransitionTypes DEF ClaimUpdate, UncertainReasons
<1>2. ASSUME NEW op \in Ops \ {"none"}
      PROVE  MarkUpdate(op, r, now) \in Record
  <2>1. op \in {"smtp_accepted", "smtp_ambiguous", "smtp_transient"} \/ op \in FailureOps
    BY DEF Ops, AllSmtpOutcomes, Refusals, FailureOps
  <2>2. CASE op \in {"smtp_accepted", "smtp_ambiguous", "smtp_transient"}
    <3>1. op \notin FailureOps
      BY <2>2 DEF FailureOps, CircuitReasons
    <3> QED
      BY <2>2, <3>1, TransitionTypes DEF MarkUpdate, UncertainReasons
  <2>3. CASE op \in FailureOps
    <3>1. op \in FailedReasons /\ op \notin {"smtp_accepted", "smtp_ambiguous", "smtp_transient"}
      BY <2>3 DEF FailureOps, CircuitReasons, FailedReasons
    <3>2. MarkUpdate(op, r, now) = Failed(r, op, now)
      BY <2>3, <3>1 DEF MarkUpdate
    <3> QED
      BY <3>1, <3>2, TransitionTypes
  <2> QED
    BY <2>1, <2>2, <2>3
<1> QED
  BY <1>1, <1>2

(***************************************************************************)
(* Type correctness.                                                       *)
(***************************************************************************)

\* What the type invariant says of one invocation.
LEMMA JobTypes ==
    ASSUME TypeInv, NEW w \in Workers
    PROVE  /\ job[w] \in Job
           /\ job[w].now \in Nat /\ job[w].start \in Nat /\ clock \in Nat
           /\ job[w].item \in Record
           /\ job[w].pc # "idle" => /\ job[w].event \in Events
                                    /\ ledger[job[w].event] \in Record
           /\ job[w].pc \in MarkSteps => job[w].op \in Ops \ {"none"}
  BY DEF TypeInv, TypeOK, Occupied, Job

\* An idle invocation is well typed and occupies nothing.
LEMMA IdleType == Idle \in Job /\ Idle.pc = "idle"
  BY AbsentType DEF Idle, Job, Steps, Ops, ClaimTries

\* The end of an invocation keeps the types of job and acked.
LEMMA AnswerTypes ==
    ASSUME TypeInv, NEW w \in Workers, job[w].pc # "idle",
           NEW outcome, Answer(w, outcome)
    PROVE  /\ job' \in [Workers -> Job]
           /\ acked' \in SUBSET Events
           /\ \A v \in Workers : Occupied(v)'
<1>1. job[w].event \in Events
  BY JobTypes
<1>2. acked' \in SUBSET Events
  BY <1>1 DEF Answer, TypeInv, TypeOK
<1>3. job' \in [Workers -> Job]
  BY IdleType DEF Answer, TypeInv, TypeOK
<1>4. ASSUME NEW v \in Workers PROVE Occupied(v)'
  BY IdleType DEF Answer, TypeInv, TypeOK, Occupied, MarkSteps
<1> QED
  BY <1>2, <1>3, <1>4

\* So does moving an invocation on, in the same event, to a step that needs no
\* outcome or with an outcome at hand.
LEMMA MoveTypes ==
    ASSUME TypeInv, NEW w \in Workers, NEW j \in Job,
           job' = [job EXCEPT ![w] = j],
           j.event \in Events,
           j.pc \in MarkSteps => j.op # "none"
    PROVE  /\ job' \in [Workers -> Job]
           /\ \A v \in Workers : Occupied(v)'
  BY DEF TypeInv, TypeOK, Occupied


\* So does moving it on to a step that needs no outcome, or the next that does.
LEMMA GotoTypes ==
    ASSUME TypeInv, NEW w \in Workers, job[w].pc # "idle",
           NEW step \in Steps, Goto(w, step),
           step \in MarkSteps => job[w].op # "none"
    PROVE  /\ job' \in [Workers -> Job]
           /\ \A v \in Workers : Occupied(v)'
<1>1. [job[w] EXCEPT !.pc = step] \in Job
  BY JobTypes DEF Job
<1>2. job' = [job EXCEPT ![w] = [job[w] EXCEPT !.pc = step]]
  BY DEF Goto
<1> QED
  BY <1>1, <1>2, JobTypes, MoveTypes DEF Job

\* Steps that write nothing shared but acked.
LEMMA LocalTypes ==
    ASSUME TypeInv,
           UNCHANGED <<ledger, openCircuits, clock, operator, mail>>,
           job' \in [Workers -> Job], acked' \in SUBSET Events,
           \A v \in Workers : Occupied(v)'
    PROVE  TypeInv'
  BY DEF TypeInv, TypeOK, operator, mail

\* A conditional write keeps the ledger typed.
LEMMA CompareAndSetTypes ==
    ASSUME TypeInv, NEW w \in Workers, job[w].pc # "idle",
           NEW update \in Record, CompareAndSet(w, update)
    PROVE  ledger' \in [Events -> Record]
  BY JobTypes DEF CompareAndSet, TypeInv, TypeOK

\* Every step keeps the types.
LEMMA TypeStep == TypeInv /\ [Next]_vars => TypeInv'
<1> SUFFICES ASSUME TypeInv, [Next]_vars PROVE TypeInv'
  OBVIOUS
<1> USE DEF mail, operator
<1>1. CASE UNCHANGED vars
  BY <1>1 DEF vars, TypeInv, TypeOK, Occupied
<1>2. CASE Tick
  BY <1>2, TimeAssumption DEF Tick, TypeInv, TypeOK, Occupied
<1>3. ASSUME NEW w \in Workers, WorkerStep(w) PROVE TypeInv'
  <2>0. /\ job[w] \in Job /\ job[w].now \in Nat /\ job[w].item \in Record
        /\ job[w].tries \in 0..ClaimTries
        /\ job[w].pc # "idle" => job[w].event \in Events /\ ledger[job[w].event] \in Record
    BY JobTypes DEF Job
  <2>1. ASSUME NEW e \in Events, Start(w, e) PROVE TypeInv'
    <3>1. PICK n \in Readings(clock) :
             job' = [job EXCEPT ![w] = [Idle EXCEPT !.pc = "prepare", !.event = e,
                                                    !.start = clock, !.now = n]]
      BY <2>1 DEF Start
    <3>2. n \in Nat
      BY <3>1, TimeAssumption DEF Readings, TypeInv, TypeOK
    <3>3. [Idle EXCEPT !.pc = "prepare", !.event = e, !.start = clock, !.now = n] \in Job
      BY <3>2, IdleType DEF TypeInv, TypeOK, Job, Steps
    <3>4. job' \in [Workers -> Job] /\ \A v \in Workers : Occupied(v)'
      BY <3>1, <3>3, MoveTypes DEF Idle, MarkSteps
    <3> QED
      BY <2>1, <3>4 DEF Start, TypeInv, TypeOK
  <2>2. CASE PutIfAbsent(w)
    <3>0. job[w].pc # "idle" /\ job[w].event \in Events
      BY <2>2, <2>0 DEF PutIfAbsent
    <3>1. ledger' \in [Events -> Record]
      BY <2>2, <2>0, <3>0, TransitionTypes, AbsentType DEF PutIfAbsent, TypeInv, TypeOK
    <3>2. /\ job' \in [Workers -> Job] /\ acked' \in SUBSET Events
          /\ \A v \in Workers : Occupied(v)'
      BY <2>2, <3>0, GotoTypes, AnswerTypes DEF PutIfAbsent, Steps, MarkSteps, TypeInv, TypeOK
    <3> QED
      BY <2>2, <3>1, <3>2 DEF PutIfAbsent, TypeInv, TypeOK
  <2>3. CASE PrepareRead(w)
    <3>0. job[w].pc # "idle"
      BY <2>3 DEF PrepareRead
    <3>1. [job[w] EXCEPT !.pc = "claim_read", !.sweep = TRUE] \in Job
      BY <2>0 DEF Job, Steps
    <3>2. CASE job' = [job EXCEPT ![w].pc = "claim_read", ![w].sweep = TRUE]
               /\ UNCHANGED acked
      <4>1. job' = [job EXCEPT ![w] = [job[w] EXCEPT !.pc = "claim_read", !.sweep = TRUE]]
        BY <3>2
      <4>2. job' \in [Workers -> Job] /\ \A v \in Workers : Occupied(v)'
        BY <2>0, <3>0, <3>1, <4>1, MoveTypes DEF Job, MarkSteps
      <4> QED
        BY <2>3, <3>2, <4>2, LocalTypes DEF PrepareRead, TypeInv, TypeOK
    <3>3. CASE Goto(w, "connect") /\ UNCHANGED acked
      BY <2>3, <3>0, <3>3, GotoTypes, LocalTypes DEF PrepareRead, Steps, MarkSteps, TypeInv, TypeOK
    <3>4. ASSUME NEW outcome, Answer(w, outcome) PROVE TypeInv'
      BY <2>3, <3>0, <3>4, AnswerTypes, LocalTypes DEF PrepareRead
    <3> QED
      BY <2>3, <3>2, <3>3, <3>4 DEF PrepareRead
  <2>4. CASE Postpone(w)
    BY <2>4, AnswerTypes, LocalTypes DEF Postpone
  <2>5. CASE Connect(w)
    <3>0. job[w].pc # "idle" /\ UNCHANGED <<ledger, openCircuits, clock, operator, acked, mail>>
      BY <2>5 DEF Connect
    <3>1. CASE Goto(w, "secrets")
      BY <3>0, <3>1, GotoTypes, LocalTypes DEF Steps, MarkSteps, TypeInv, TypeOK
    <3>2. CASE job' = [job EXCEPT ![w].pc = "mark_read", ![w].op = "circuit_open"]
      <4>1. [job[w] EXCEPT !.pc = "mark_read", !.op = "circuit_open"] \in Job
        BY <2>0 DEF Job, Steps, Ops, FailureOps
      <4>2. job' = [job EXCEPT ![w] = [job[w] EXCEPT !.pc = "mark_read", !.op = "circuit_open"]]
        BY <3>2
      <4>3. job' \in [Workers -> Job] /\ \A v \in Workers : Occupied(v)'
        BY <2>0, <3>0, <4>1, <4>2, MoveTypes DEF Job
      <4> QED
        BY <3>0, <4>3, LocalTypes DEF TypeInv, TypeOK
    <3> QED
      BY <2>5, <3>1, <3>2 DEF Connect
  <2>6. CASE ResolveSecrets(w)
    <3>0. job[w].pc # "idle" /\ UNCHANGED <<ledger, openCircuits, clock, operator, acked, mail>>
      BY <2>6 DEF ResolveSecrets
    <3>1. CASE Goto(w, "claim_read")
      BY <3>0, <3>1, GotoTypes, LocalTypes DEF Steps, MarkSteps, TypeInv, TypeOK
    <3>2. CASE job' = [job EXCEPT ![w].pc = "mark_read", ![w].op = "secret_invalid"]
      <4>1. [job[w] EXCEPT !.pc = "mark_read", !.op = "secret_invalid"] \in Job
        BY <2>0 DEF Job, Steps, Ops, FailureOps
      <4>2. job' = [job EXCEPT ![w] = [job[w] EXCEPT !.pc = "mark_read", !.op = "secret_invalid"]]
        BY <3>2
      <4>3. job' \in [Workers -> Job] /\ \A v \in Workers : Occupied(v)'
        BY <2>0, <3>0, <4>1, <4>2, MoveTypes DEF Job
      <4> QED
        BY <3>0, <4>3, LocalTypes DEF TypeInv, TypeOK
    <3> QED
      BY <2>6, <3>1, <3>2 DEF ResolveSecrets
  <2>7. CASE ClaimRead(w)
    <3> DEFINE r == ledger[job[w].event]
    <3>0. /\ job[w].pc # "idle" /\ r \in Record
          /\ UNCHANGED <<ledger, openCircuits, clock, operator, mail>>
      BY <2>7, <2>0 DEF ClaimRead
    <3>1. ASSUME NEW outcome, Answer(w, outcome) PROVE TypeInv'
      BY <3>0, <3>1, AnswerTypes, LocalTypes
    <3>2. CASE /\ job' = [job EXCEPT ![w].pc = "claim_cas", ![w].item = r]
               /\ UNCHANGED acked
      <4>1. [job[w] EXCEPT !.pc = "claim_cas", !.item = r] \in Job
        BY <2>0, <3>0 DEF Job, Steps
      <4>2. job' = [job EXCEPT ![w] = [job[w] EXCEPT !.pc = "claim_cas", !.item = r]]
        BY <3>2
      <4>3. job' \in [Workers -> Job] /\ \A v \in Workers : Occupied(v)'
        BY <2>0, <3>0, <4>1, <4>2, MoveTypes DEF Job, MarkSteps
      <4> QED
        BY <3>0, <3>2, <4>3, LocalTypes DEF TypeInv, TypeOK
    <3> QED
      BY <2>7, <3>1, <3>2 DEF ClaimRead
  <2>8. CASE ClaimCas(w)
    <3> DEFINE Typed == /\ job' \in [Workers -> Job] /\ acked' \in SUBSET Events
                        /\ \A v \in Workers : Occupied(v)'
    <3>0. job[w].pc # "idle"
      BY <2>8 DEF ClaimCas
    <3>1. ledger' \in [Events -> Record]
      BY <2>8, <2>0, <3>0, UpdateTypes, CompareAndSetTypes DEF ClaimCas
    <3>2. ASSUME NEW outcome, Answer(w, outcome)
          PROVE  Typed
      BY <3>0, <3>2, AnswerTypes
    <3>3. ASSUME job' = [job EXCEPT ![w].pc = "claim_reread", ![w].item = Absent,
                                    ![w].acquired = Acquires(job[w].item)],
                 UNCHANGED acked
          PROVE  Typed
      <4> DEFINE j == [job[w] EXCEPT !.pc = "claim_reread", !.item = Absent,
                                     !.acquired = Acquires(job[w].item)]
      <4>1. Acquires(job[w].item) \in BOOLEAN
        BY DEF Acquires
      <4>2. j \in Job
        BY <2>0, <4>1, AbsentType DEF Job, Steps
      <4>3. job' = [job EXCEPT ![w] = j]
        BY <3>3
      <4>4. j.event = job[w].event /\ j.pc = "claim_reread"
        BY <2>0 DEF Job
      <4> HIDE DEF j
      <4> QED
        BY <2>0, <3>0, <3>3, <4>2, <4>3, <4>4, MoveTypes DEF MarkSteps, TypeInv, TypeOK
    <3>4. ASSUME ClaimAgain(w) PROVE Typed
      <4>1. ASSUME job[w].tries + 1 < ClaimTries PROVE Typed
        <5> DEFINE j == [job[w] EXCEPT !.pc = "claim_read", !.item = Absent,
                                       !.tries = @ + 1]
        <5>1. job[w].tries + 1 \in 0..ClaimTries
          BY <2>0, <4>1 DEF ClaimTries
        <5>2. j \in Job
          BY <2>0, <5>1, AbsentType DEF Job, Steps
        <5>3. job' = [job EXCEPT ![w] = j] /\ UNCHANGED acked
          BY <3>4, <4>1 DEF ClaimAgain
        <5>4. j.event = job[w].event /\ j.pc = "claim_read"
          BY <2>0 DEF Job
        <5> HIDE DEF j
        <5> QED
          BY <2>0, <3>0, <5>2, <5>3, <5>4, MoveTypes DEF MarkSteps, TypeInv, TypeOK
      <4> QED
        BY <3>2, <3>4, <4>1 DEF ClaimAgain
    <3>5. Typed
      BY <2>8, <3>2, <3>3, <3>4 DEF ClaimCas
    <3> QED
      BY <2>8, <3>1, <3>5 DEF ClaimCas, TypeInv, TypeOK
  <2>9. CASE ClaimReread(w)
    <3>0. job[w].pc # "idle" /\ UNCHANGED <<ledger, openCircuits, clock, operator, mail>>
      BY <2>9 DEF ClaimReread
    <3>1. CASE Goto(w, "send") /\ UNCHANGED acked
      BY <3>0, <3>1, GotoTypes, LocalTypes DEF Steps, MarkSteps, TypeInv, TypeOK
    <3>2. ASSUME NEW outcome, Answer(w, outcome) PROVE TypeInv'
      BY <3>0, <3>2, AnswerTypes, LocalTypes
    <3> QED
      BY <2>9, <3>1, <3>2 DEF ClaimReread
  <2>10. CASE Send(w)
    <3> DEFINE e == job[w].event
    <3>0. job[w].pc # "idle" /\ e \in Events /\ CircuitOf[e] \in Circuits
      BY <2>10, <2>0, CircuitAssumption DEF Send
    <3>a. PICK outcome \in SmtpOutcomes : \E n \in MayDeliver(outcome) :
             /\ job' = [job EXCEPT ![w].pc = "mark_read", ![w].op = outcome]
             /\ delivered' = [delivered EXCEPT ![e] = @ + n]
      BY <2>10 DEF Send
    <3>1. PICK n \in MayDeliver(outcome) :
             /\ job' = [job EXCEPT ![w].pc = "mark_read", ![w].op = outcome]
             /\ delivered' = [delivered EXCEPT ![e] = @ + n]
      BY <3>a
    <3>2. outcome \in AllSmtpOutcomes
      BY <3>1, OutcomesAssumption
    <3>3. outcome \in Ops /\ outcome # "none"
      BY <3>2 DEF Ops, AllSmtpOutcomes, Refusals, CircuitReasons
    <3>4. n \in {0, 1}
      BY <3>1, <3>2 DEF MayDeliver, AllSmtpOutcomes
    <3>5. delivered' \in [Events -> Nat] /\ sends' \in [Events -> Nat]
      BY <2>10, <3>0, <3>1, <3>4 DEF Send, TypeInv, TypeOK
    <3>6. lateSends' \in [Circuits -> Nat]
      BY <2>10, <3>0 DEF Send, TypeInv, TypeOK
    <3>7. [job[w] EXCEPT !.pc = "mark_read", !.op = outcome] \in Job
      BY <2>0, <3>3 DEF Job, Steps
    <3>8. job' = [job EXCEPT ![w] = [job[w] EXCEPT !.pc = "mark_read", !.op = outcome]]
      BY <3>1
    <3>9. job' \in [Workers -> Job] /\ \A v \in Workers : Occupied(v)'
      BY <2>0, <3>0, <3>3, <3>7, <3>8, MoveTypes DEF Job
    <3> QED
      BY <2>10, <3>5, <3>6, <3>9 DEF Send, TypeInv, TypeOK
  <2>11. CASE MarkRead(w)
    <3> DEFINE r == ledger[job[w].event]
    <3>0. /\ job[w].pc # "idle" /\ r \in Record /\ job[w].op # "none"
          /\ UNCHANGED <<ledger, openCircuits, clock, operator, mail>>
      BY <2>11, <2>0, JobTypes DEF MarkRead, MarkSteps
    <3>1. ASSUME NEW outcome, Answer(w, outcome) PROVE TypeInv'
      BY <3>0, <3>1, AnswerTypes, LocalTypes
    <3>2. CASE Marked(w)
      <4>1. CASE Goto(w, "open_circuit") /\ UNCHANGED acked
        BY <3>0, <4>1, GotoTypes, LocalTypes DEF Steps, TypeInv, TypeOK
      <4> QED
        BY <3>1, <3>2, <4>1 DEF Marked
    <3>3. CASE /\ job' = [job EXCEPT ![w].pc = "mark_cas", ![w].item = r]
               /\ UNCHANGED acked
      <4>1. [job[w] EXCEPT !.pc = "mark_cas", !.item = r] \in Job
        BY <2>0, <3>0 DEF Job, Steps
      <4>2. job' = [job EXCEPT ![w] = [job[w] EXCEPT !.pc = "mark_cas", !.item = r]]
        BY <3>3
      <4>3. job' \in [Workers -> Job] /\ \A v \in Workers : Occupied(v)'
        BY <2>0, <3>0, <4>1, <4>2, MoveTypes DEF Job
      <4> QED
        BY <3>0, <3>3, <4>3, LocalTypes DEF TypeInv, TypeOK
    <3> QED
      BY <2>11, <3>1, <3>2, <3>3 DEF MarkRead
  <2>12. CASE MarkCas(w)
    <3> DEFINE Typed == /\ job' \in [Workers -> Job] /\ acked' \in SUBSET Events
                        /\ \A v \in Workers : Occupied(v)'
    <3>0. job[w].pc # "idle" /\ job[w].op \in Ops \ {"none"}
      BY <2>12, JobTypes DEF MarkCas, MarkSteps
    <3>1. ledger' \in [Events -> Record]
      BY <2>12, <2>0, <3>0, UpdateTypes, CompareAndSetTypes DEF MarkCas
    <3>2. ASSUME NEW outcome, Answer(w, outcome) PROVE Typed
      BY <3>0, <3>2, AnswerTypes
    <3>3. ASSUME job' = [job EXCEPT ![w].pc = "mark_reread", ![w].item = Absent],
                 UNCHANGED acked
          PROVE  Typed
      <4>1. [job[w] EXCEPT !.pc = "mark_reread", !.item = Absent] \in Job
        BY <2>0, AbsentType DEF Job, Steps
      <4>2. job' = [job EXCEPT ![w] = [job[w] EXCEPT !.pc = "mark_reread", !.item = Absent]]
        BY <3>3
      <4> QED
        BY <2>0, <3>0, <3>3, <4>1, <4>2, MoveTypes DEF Job, TypeInv, TypeOK
    <3>4. Typed
      BY <2>12, <3>2, <3>3 DEF MarkCas
    <3> QED
      BY <2>12, <3>1, <3>4 DEF MarkCas, TypeInv, TypeOK
  <2>13. CASE MarkReread(w)
    <3>0. /\ job[w].pc # "idle" /\ job[w].op # "none"
          /\ UNCHANGED <<ledger, openCircuits, clock, operator, mail>>
      BY <2>13, JobTypes DEF MarkReread, MarkSteps
    <3>1. ASSUME NEW outcome, Answer(w, outcome) PROVE TypeInv'
      BY <3>0, <3>1, AnswerTypes, LocalTypes
    <3>2. CASE Goto(w, "open_circuit") /\ UNCHANGED acked
      BY <3>0, <3>2, GotoTypes, LocalTypes DEF Steps, TypeInv, TypeOK
    <3> QED
      BY <2>13, <3>1, <3>2 DEF MarkReread, Marked
  <2>14. CASE OpenCircuit(w)
    <3>0. job[w].pc # "idle" /\ CircuitOf[job[w].event] \in Circuits
      BY <2>14, <2>0, CircuitAssumption DEF OpenCircuit
    <3>1. /\ job' \in [Workers -> Job] /\ acked' \in SUBSET Events
          /\ \A v \in Workers : Occupied(v)'
      BY <2>14, <3>0, AnswerTypes DEF OpenCircuit
    <3> QED
      BY <2>14, <3>0, <3>1 DEF OpenCircuit, TypeInv, TypeOK
  <2>15. CASE StoreError(w)
    BY <2>15, AnswerTypes, LocalTypes DEF StoreError, StoreSteps
  <2>16. CASE Crash(w)
    <3>1. job' \in [Workers -> Job] /\ \A v \in Workers : Occupied(v)'
      BY <2>16, IdleType DEF Crash, TypeInv, TypeOK, Occupied, MarkSteps
    <3> QED
      BY <2>16, <3>1, LocalTypes DEF Crash, TypeInv, TypeOK
  <2> QED
    BY <1>3, <2>1, <2>2, <2>3, <2>4, <2>5, <2>6, <2>7, <2>8, <2>9, <2>10,
       <2>11, <2>12, <2>13, <2>14, <2>15, <2>16 DEF WorkerStep
<1>4. ASSUME NEW e \in Events, OperatorStep(e) PROVE TypeInv'
  <2>0. ledger[e] \in Record /\ \A n \in Readings(clock) : n \in Nat
    BY TimeAssumption DEF Readings, TypeInv, TypeOK
  <2>1. ASSUME Review(e) PROVE TypeInv'
    <3>1. ledger[e].revision \in Nat
      BY <2>0 DEF Record
    <3> QED
      BY <2>1, <3>1 DEF Review, TypeInv, TypeOK, Occupied
  <2>2. CASE ConfirmAccepted(e)
    <3>1. ledger' \in [Events -> Record]
      BY <2>0, <2>2, TransitionTypes DEF ConfirmAccepted, TypeInv, TypeOK
    <3> QED
      BY <2>2, <3>1 DEF ConfirmAccepted, TypeInv, TypeOK, Occupied
  <2>3. CASE AuthorizeRetry(e)
    <3>1. ledger' \in [Events -> Record]
      BY <2>0, <2>3, TransitionTypes DEF AuthorizeRetry, TypeInv, TypeOK
    <3> QED
      BY <2>3, <3>1 DEF AuthorizeRetry, TypeInv, TypeOK, Occupied
  <2> QED
    BY <1>4, <2>1, <2>2, <2>3 DEF OperatorStep
<1> QED
  BY <1>1, <1>2, <1>3, <1>4 DEF Next


\* The first state is well typed.
LEMMA TypeInit == Init => TypeInv
  BY AbsentType, IdleType DEF Init, TypeInv, TypeOK, Occupied, MarkSteps

\* The types, and that an invocation under way has a notification.
THEOREM TypeInvariance == Spec => []TypeInv
  BY TypeInit, TypeStep, PTL DEF Spec

\* Every state of the program is of the types TypeOK gives: the ledger holds
\* records, invocations know their step, counters are natural numbers.
THEOREM TypeCorrect == Spec => []TypeOK
<1>1. TypeInv => TypeOK
  BY DEF TypeInv
<1> QED
  BY <1>1, TypeInvariance, PTL

(***************************************************************************)
(* No blind duplicates: the inductive invariant of DeliveryWorkerInv and    *)
(* the safety theorems that follow from it.                                 *)
(*                                                                         *)
(* Most steps leave the ledger and the mail alone and hold nothing after    *)
(* they are taken: they are summed up as Quiet, and each invariant is       *)
(* proved against Quiet and against the few steps that are not.             *)
(***************************************************************************)

\* The run an invocation is in goes on, or ends, or a new one starts.
Ended(w) == job'[w].pc = "idle"
Continues(w) ==
    /\ job[w].pc # "idle"
    /\ job'[w].event = job[w].event
    /\ job'[w].start = job[w].start
    /\ job'[w].now = job[w].now
Starts(w) ==
    /\ job'[w].pc = "prepare"
    /\ job'[w].start = clock
    /\ job'[w].now \in Readings(clock)

Others(w) == \A v \in Workers \ {w} : job'[v] = job[v]

\* A step that writes no record, sends nothing, and holds nothing afterwards.
Quiet(w) ==
    /\ UNCHANGED <<ledger, mail>>
    /\ job'[w].pc \notin WriteSteps
    /\ ~Holds(w)'
    /\ Ended(w) \/ Continues(w) \/ Starts(w)

\* What any step of an invocation may touch.
LEMMA WorkerStepKinds ==
    ASSUME TypeInv, NEW w \in Workers, WorkerStep(w)
    PROVE  /\ Others(w)
           /\ UNCHANGED <<clock, operator>>
           /\ \/ Quiet(w) \/ PutIfAbsent(w)
              \/ ClaimRead(w) \/ ClaimCas(w) \/ ClaimReread(w)
              \/ Send(w) \/ MarkRead(w) \/ MarkCas(w)
<1> DEFINE Kinds == \/ Quiet(w) \/ PutIfAbsent(w)
                    \/ ClaimRead(w) \/ ClaimCas(w) \/ ClaimReread(w)
                    \/ Send(w) \/ MarkRead(w) \/ MarkCas(w)
<1>0. job[w] \in Job /\ job \in [Workers -> Job]
  BY DEF TypeInv, TypeOK
<1>a. ASSUME NEW outcome, Answer(w, outcome) PROVE job'[w].pc = "idle" /\ Others(w)
  BY <1>0, <1>a DEF Answer, Idle, Others
<1>b. ASSUME NEW step, Goto(w, step)
      PROVE  /\ job'[w] = [job[w] EXCEPT !.pc = step]
             /\ job'[w].pc = step
             /\ job'[w].event = job[w].event /\ job'[w].start = job[w].start
             /\ job'[w].now = job[w].now /\ job'[w].op = job[w].op
             /\ Others(w)
  BY <1>0, <1>b DEF Goto, Others, Job
<1>c. ASSUME Ended(w), UNCHANGED <<ledger, mail>> PROVE Quiet(w)
  BY <1>c DEF Ended, Quiet, WriteSteps, Holds, HoldsPermit, HasAnswer
<1>1. ASSUME NEW e \in Events, Start(w, e)
      PROVE  Others(w) /\ UNCHANGED <<clock, operator>> /\ Kinds
  BY <1>0, <1>1 DEF Start, Idle, Others, Quiet, Starts, WriteSteps, Holds,
                    HoldsPermit, HasAnswer, mail, operator
<1>2. CASE PutIfAbsent(w)
  BY <1>2, <1>a, <1>b DEF PutIfAbsent
<1>3. CASE PrepareRead(w)
  <2>0. job[w].pc # "idle" /\ UNCHANGED <<ledger, clock, operator, mail>>
    BY <1>3 DEF PrepareRead
  <2>1. CASE Goto(w, "connect")
    <3>1. /\ job'[w].pc = "connect" /\ job'[w].event = job[w].event
          /\ job'[w].start = job[w].start /\ job'[w].now = job[w].now
          /\ Others(w)
      BY <2>1, <1>b
    <3> QED
      BY <2>0, <3>1 DEF Quiet, Continues, WriteSteps, Holds, HoldsPermit, HasAnswer
  <2>2. CASE job' = [job EXCEPT ![w].pc = "claim_read", ![w].sweep = TRUE]
    <3>1. /\ job'[w].pc = "claim_read" /\ job'[w].event = job[w].event
          /\ job'[w].start = job[w].start /\ job'[w].now = job[w].now
          /\ Others(w)
      BY <1>0, <2>2 DEF Job, Others
    <3> QED
      BY <2>0, <3>1 DEF Quiet, Continues, WriteSteps, Holds, HoldsPermit, HasAnswer
  <2>3. ASSUME NEW outcome, Answer(w, outcome)
        PROVE  Others(w) /\ UNCHANGED <<clock, operator>> /\ Kinds
    BY <2>0, <2>3, <1>a, <1>c DEF Ended
  <2> QED
    BY <1>3, <2>0, <2>1, <2>2, <2>3 DEF PrepareRead, Goto
<1>4. CASE Postpone(w)
  BY <1>4, <1>a, <1>c DEF Postpone, Ended
<1>5. CASE Connect(w)
  <2>0. job[w].pc # "idle" /\ UNCHANGED <<ledger, clock, operator, mail>>
    BY <1>5 DEF Connect
  <2>1. CASE Goto(w, "secrets")
    <3>1. /\ job'[w].pc = "secrets" /\ job'[w].event = job[w].event
          /\ job'[w].start = job[w].start /\ job'[w].now = job[w].now
          /\ Others(w)
      BY <2>1, <1>b
    <3> QED
      BY <2>0, <3>1 DEF Quiet, Continues, WriteSteps, Holds, HoldsPermit, HasAnswer
  <2>2. CASE job' = [job EXCEPT ![w].pc = "mark_read", ![w].op = "circuit_open"]
    <3>1. /\ job'[w].pc = "mark_read" /\ job'[w].event = job[w].event
          /\ job'[w].start = job[w].start /\ job'[w].now = job[w].now
          /\ job'[w].op = "circuit_open" /\ Others(w)
      BY <1>0, <2>2 DEF Job, Others
    <3>2. ~Holds(w)'
      BY <3>1 DEF Holds, HoldsPermit, HasAnswer, AllSmtpOutcomes, Refusals, CircuitReasons
    <3> QED
      BY <2>0, <3>1, <3>2 DEF Quiet, Continues, WriteSteps
  <2> QED
    BY <1>5, <2>1, <2>2 DEF Connect, Goto
<1>6. CASE ResolveSecrets(w)
  <2>0. job[w].pc # "idle" /\ UNCHANGED <<ledger, clock, operator, mail>>
    BY <1>6 DEF ResolveSecrets
  <2>1. CASE Goto(w, "claim_read")
    <3>1. /\ job'[w].pc = "claim_read" /\ job'[w].event = job[w].event
          /\ job'[w].start = job[w].start /\ job'[w].now = job[w].now
          /\ Others(w)
      BY <2>1, <1>b
    <3> QED
      BY <2>0, <3>1 DEF Quiet, Continues, WriteSteps, Holds, HoldsPermit, HasAnswer
  <2>2. CASE job' = [job EXCEPT ![w].pc = "mark_read", ![w].op = "secret_invalid"]
    <3>1. /\ job'[w].pc = "mark_read" /\ job'[w].event = job[w].event
          /\ job'[w].start = job[w].start /\ job'[w].now = job[w].now
          /\ job'[w].op = "secret_invalid" /\ Others(w)
      BY <1>0, <2>2 DEF Job, Others
    <3>2. ~Holds(w)'
      BY <3>1 DEF Holds, HoldsPermit, HasAnswer, AllSmtpOutcomes, Refusals, CircuitReasons
    <3> QED
      BY <2>0, <3>1, <3>2 DEF Quiet, Continues, WriteSteps
  <2> QED
    BY <1>6, <2>1, <2>2 DEF ResolveSecrets, Goto
<1>7. CASE ClaimRead(w)
  BY <1>0, <1>7, <1>a DEF ClaimRead, Others
<1>8. CASE ClaimCas(w)
  BY <1>0, <1>8, <1>a DEF ClaimCas, ClaimAgain, Others
<1>9. CASE ClaimReread(w)
  BY <1>9, <1>a, <1>b DEF ClaimReread
<1>10. CASE Send(w)
  BY <1>0, <1>10 DEF Send, Others
<1>11. CASE MarkRead(w)
  BY <1>0, <1>11, <1>a, <1>b DEF MarkRead, Marked, Others
<1>12. CASE MarkCas(w)
  BY <1>0, <1>12, <1>a DEF MarkCas, Others
<1>13. CASE MarkReread(w)
  <2>0. job[w].pc # "idle" /\ UNCHANGED <<ledger, clock, operator, mail>>
    BY <1>13 DEF MarkReread
  <2>1. CASE Goto(w, "open_circuit")
    <3>1. /\ job'[w].pc = "open_circuit" /\ job'[w].event = job[w].event
          /\ job'[w].start = job[w].start /\ job'[w].now = job[w].now
          /\ Others(w)
      BY <2>1, <1>b
    <3> QED
      BY <2>0, <3>1 DEF Quiet, Continues, WriteSteps, Holds, HoldsPermit, HasAnswer
  <2>2. ASSUME NEW outcome, Answer(w, outcome)
        PROVE  Others(w) /\ UNCHANGED <<clock, operator>> /\ Kinds
    BY <2>0, <2>2, <1>a, <1>c DEF Ended
  <2> QED
    BY <1>13, <2>0, <2>1, <2>2 DEF MarkReread, Marked, Goto
<1>14. CASE OpenCircuit(w)
  BY <1>14, <1>a, <1>c DEF OpenCircuit, Ended
<1>15. CASE StoreError(w)
  BY <1>15, <1>a, <1>c DEF StoreError, Ended
<1>16. CASE Crash(w)
  BY <1>0, <1>16, <1>c DEF Crash, Ended, Idle, Others
<1> QED
  BY <1>1, <1>2, <1>3, <1>4, <1>5, <1>6, <1>7, <1>8, <1>9, <1>10, <1>11,
     <1>12, <1>13, <1>14, <1>15, <1>16 DEF WorkerStep

(***************************************************************************)
(* What the transitions do to the fields the invariants read.              *)
(***************************************************************************)

LEMMA NewRecordFields ==
    ASSUME NEW now \in Nat
    PROVE  LET u == NewRecord(now)
           IN  u.state = "prepared" /\ u.revision = 1 /\ u.attempts = 0
  BY DEF NewRecord, Absent

LEMMA ClaimUpdateFields ==
    ASSUME NEW r \in Record, NEW now \in Nat
    PROVE  LET u == ClaimUpdate(r, now)
           IN  /\ u.revision = r.revision + 1
               /\ u.approved = r.approved
               /\ r.state = "sending" =>
                     u.state = "uncertain" /\ u.attempts = r.attempts
               /\ r.state # "sending" /\ Acquires(r) =>
                     /\ u.state = "sending" /\ u.attempts = r.attempts + 1
                     /\ u.leaseExpiresAt = now + SendingLease
               /\ r.state # "sending" /\ ~Acquires(r) =>
                     u.state = "failed" /\ u.attempts = r.attempts
<1>1. CASE r.state = "sending"
  BY <1>1 DEF ClaimUpdate, Ambiguous, Move, Record
<1>2. CASE r.state # "sending" /\ Acquires(r)
  BY <1>2 DEF ClaimUpdate, Claimed, Move, Record
<1>3. CASE r.state # "sending" /\ ~Acquires(r)
  BY <1>3 DEF ClaimUpdate, ClaimExhausted, Move, Record
<1> QED
  BY <1>1, <1>2, <1>3

\* The state a mark_* leaves.
MarkedState(op, r) ==
    IF op = "smtp_accepted" THEN "accepted_by_smtp"
    ELSE IF op = "smtp_ambiguous" THEN "uncertain"
    ELSE IF op = "smtp_transient" /\ r.attempts < MaxAttempts THEN "prepared"
    ELSE "failed"

LEMMA MarkUpdateFields ==
    ASSUME NEW r \in Record, NEW now \in Nat, NEW op \in Ops \ {"none"}
    PROVE  LET u == MarkUpdate(op, r, now)
           IN  /\ u.revision = r.revision + 1
               /\ u.approved = r.approved
               /\ u.attempts = r.attempts
               /\ u.state = MarkedState(op, r)
<1>1. CASE op = "smtp_accepted"
  BY <1>1 DEF MarkUpdate, MarkedState, Accepted, Move, Record, FailureOps, CircuitReasons
<1>2. CASE op = "smtp_ambiguous"
  BY <1>2 DEF MarkUpdate, MarkedState, Ambiguous, Move, Record, FailureOps, CircuitReasons
<1>3. CASE op = "smtp_transient"
  <2>1. MarkUpdate(op, r, now) = Refused(r, now)
    BY <1>3 DEF MarkUpdate, FailureOps, CircuitReasons
  <2>2. r.attempts \in Nat /\ MaxAttempts \in Nat
    BY AttemptsAssumption DEF Record
  <2>3. CASE r.attempts >= MaxAttempts
    <3>1. Refused(r, now) = Failed(r, "retry_exhausted", now)
      BY <2>3 DEF Refused
    <3>2. MarkedState(op, r) = "failed"
      BY <1>3, <2>2, <2>3 DEF MarkedState
    <3> QED
      BY <2>1, <3>1, <3>2 DEF Failed, Move, Record
  <2>4. CASE ~(r.attempts >= MaxAttempts)
    <3>1. Refused(r, now) = [Move(r, "prepared", now) EXCEPT !.leaseExpiresAt = Missing,
                                                             !.reasonCode = NoReason]
      BY <2>4 DEF Refused
    <3>2. MarkedState(op, r) = "prepared"
      BY <1>3, <2>2, <2>4 DEF MarkedState
    <3> QED
      BY <2>1, <3>1, <3>2 DEF Move, Record
  <2> QED
    BY <2>3, <2>4
<1>4. CASE op \notin {"smtp_accepted", "smtp_ambiguous", "smtp_transient"}
  <2>1. op \in FailureOps
    BY <1>4 DEF Ops, AllSmtpOutcomes, Refusals, FailureOps
  <2>2. MarkUpdate(op, r, now) = Failed(r, op, now)
    BY <1>4, <2>1 DEF MarkUpdate
  <2> QED
    BY <1>4, <2>2 DEF MarkedState, Failed, Move, Record
<1> QED
  BY <1>1, <1>2, <1>3, <1>4

LEMMA ReconciledFields ==
    ASSUME NEW r \in Record, NEW now \in Nat
    PROVE  LET a == ReconciledAccepted(r, now)
               b == ReconciledRetry(r, now)
           IN  /\ a.revision = r.revision + 1 /\ b.revision = r.revision + 1
               /\ a.state = "accepted_by_smtp" /\ b.state = "prepared"
               /\ a.attempts = r.attempts /\ b.attempts = r.attempts
               /\ a.approved = TRUE /\ a.reasonCode = "operator_confirmed_acceptance"
  BY DEF ReconciledAccepted, ReconciledRetry, Move, Record

(***************************************************************************)
(* The steps that are not quiet.                                           *)
(***************************************************************************)

Written(w, update) ==
    /\ Unchanged(w)
    /\ ledger' = [ledger EXCEPT ![job[w].event] = update]

LEMMA AnswerEnds ==
    ASSUME TypeInv, NEW w \in Workers, NEW outcome, Answer(w, outcome)
    PROVE  Ended(w) /\ job'[w] = Idle /\ ~Holds(w)' /\ job'[w].pc \notin WriteSteps
<1>1. job'[w] = Idle
  BY DEF Answer, TypeInv, TypeOK
<1> QED
  BY <1>1 DEF Ended, Idle, Holds, HoldsPermit, HasAnswer, WriteSteps

LEMMA GotoContinues ==
    ASSUME TypeInv, NEW w \in Workers, job[w].pc # "idle", NEW step, Goto(w, step)
    PROVE  /\ Continues(w) /\ job'[w].pc = step
           /\ job'[w].op = job[w].op /\ job'[w].acquired = job[w].acquired
           /\ job'[w].sweep = job[w].sweep
  BY DEF Goto, Continues, TypeInv, TypeOK, Job

LEMMA PutIfAbsentKind ==
    ASSUME TypeInv, NEW w \in Workers, PutIfAbsent(w)
    PROVE  /\ job[w].event \in Events
           /\ UNCHANGED mail
           /\ job'[w].pc \notin WriteSteps /\ ~Holds(w)'
           /\ Ended(w) \/ Continues(w)
           /\ \/ ledger' = ledger
              \/ /\ ledger[job[w].event] = Absent
                 /\ ledger' = [ledger EXCEPT ![job[w].event] = NewRecord(job[w].now)]
<1>1. job[w].pc # "idle" /\ job[w].event \in Events
  BY JobTypes DEF PutIfAbsent
<1>2. CASE Goto(w, "connect") \/ Goto(w, "prepare_read")
  <2>1. Continues(w) /\ job'[w].pc \in {"connect", "prepare_read"}
    BY <1>1, <1>2, GotoContinues
  <2>2. job'[w].pc \notin WriteSteps /\ ~Holds(w)'
    BY <2>1 DEF Holds, HoldsPermit, HasAnswer, WriteSteps
  <2> QED
    BY <1>1, <2>1, <2>2 DEF PutIfAbsent
<1>3. CASE Answer(w, "retry")
  BY <1>1, <1>3, AnswerEnds DEF PutIfAbsent
<1> QED
  BY <1>2, <1>3 DEF PutIfAbsent

LEMMA ClaimReadKind ==
    ASSUME TypeInv, NEW w \in Workers, ClaimRead(w)
    PROVE  /\ UNCHANGED <<ledger, mail>>
           /\ ~Holds(w)'
           /\ Ended(w) \/ Continues(w)
           /\ job'[w].pc \in WriteSteps =>
                 /\ job'[w].pc = "claim_cas"
                 /\ job'[w].item = ledger[job[w].event]
                 /\ Claimable(job'[w].item, job'[w].now)
<1> DEFINE r == ledger[job[w].event]
<1>1. job[w].pc # "idle" /\ job[w] \in Job /\ UNCHANGED <<ledger, mail>>
  BY JobTypes DEF ClaimRead
<1>2. CASE /\ job' = [job EXCEPT ![w].pc = "claim_cas", ![w].item = r]
           /\ Claimable(r, job[w].now)
  <2>1. /\ job'[w].pc = "claim_cas" /\ job'[w].item = r
        /\ job'[w].event = job[w].event /\ job'[w].start = job[w].start
        /\ job'[w].now = job[w].now
    BY <1>1, <1>2 DEF TypeInv, TypeOK, Job
  <2>2. ~Holds(w)' /\ Continues(w)
    BY <1>1, <2>1 DEF Holds, HoldsPermit, HasAnswer, Continues
  <2>3. Claimable(job'[w].item, job'[w].now)
    BY <1>2, <2>1
  <2> QED
    BY <1>1, <2>1, <2>2, <2>3
<1>3. CASE \E outcome \in {"processed", "retry"} : Answer(w, outcome)
  BY <1>1, <1>3, AnswerEnds
<1> QED
  BY <1>2, <1>3 DEF ClaimRead, OutcomeOf

LEMMA ClaimCasKind ==
    ASSUME TypeInv, NEW w \in Workers, ClaimCas(w)
    PROVE  /\ job[w].event \in Events
           /\ UNCHANGED mail
           /\ job'[w].pc \notin WriteSteps /\ ~HasAnswer(w)'
           /\ Ended(w) \/ Continues(w)
           /\ ledger' = ledger \/ Written(w, ClaimUpdate(job[w].item, job[w].now))
           /\ Holds(w)' =>
                 /\ Written(w, ClaimUpdate(job[w].item, job[w].now))
                 /\ Acquires(job[w].item)
                 /\ Continues(w)
<1> DEFINE update == ClaimUpdate(job[w].item, job[w].now)
<1>1. /\ job[w].pc # "idle" /\ job[w] \in Job /\ job[w].event \in Events
      /\ UNCHANGED mail
  BY JobTypes DEF ClaimCas
<1>2. /\ ledger' = ledger \/ Written(w, update)
      /\ Unchanged(w) => Written(w, update)
  BY DEF ClaimCas, CompareAndSet, Written
<1>3. ASSUME Unchanged(w),
             job' = [job EXCEPT ![w].pc = "claim_reread", ![w].item = Absent,
                                ![w].acquired = Acquires(job[w].item)]
      PROVE  /\ job'[w].pc \notin WriteSteps /\ ~HasAnswer(w)' /\ Continues(w)
             /\ Holds(w)' => Written(w, update) /\ Acquires(job[w].item)
  <2>1. /\ job'[w].pc = "claim_reread" /\ job'[w].acquired = Acquires(job[w].item)
        /\ job'[w].event = job[w].event /\ job'[w].start = job[w].start
        /\ job'[w].now = job[w].now
    BY <1>1, <1>3 DEF TypeInv, TypeOK, Job
  <2> QED
    BY <1>1, <1>2, <1>3, <2>1 DEF WriteSteps, HasAnswer, Holds, HoldsPermit, Continues
<1>4. ASSUME NEW outcome, Answer(w, outcome)
      PROVE  job'[w].pc \notin WriteSteps /\ ~Holds(w)' /\ ~HasAnswer(w)' /\ Ended(w)
  BY <1>4, AnswerEnds DEF Holds
<1>5. ASSUME job' = [job EXCEPT ![w].pc = "claim_read", ![w].item = Absent,
                                ![w].tries = @ + 1]
      PROVE  job'[w].pc \notin WriteSteps /\ ~Holds(w)' /\ ~HasAnswer(w)' /\ Continues(w)
  <2>1. /\ job'[w].pc = "claim_read"
        /\ job'[w].event = job[w].event /\ job'[w].start = job[w].start
        /\ job'[w].now = job[w].now
    BY <1>1, <1>5 DEF TypeInv, TypeOK, Job
  <2> QED
    BY <1>1, <2>1 DEF WriteSteps, HasAnswer, Holds, HoldsPermit, Continues
<1>6. \/ /\ Unchanged(w)
         /\ job' = [job EXCEPT ![w].pc = "claim_reread", ![w].item = Absent,
                               ![w].acquired = Acquires(job[w].item)]
      \/ job' = [job EXCEPT ![w].pc = "claim_read", ![w].item = Absent,
                            ![w].tries = @ + 1]
      \/ Answer(w, "retry")
  BY DEF ClaimCas, ClaimAgain, Replies
<1> QED
  BY <1>1, <1>2, <1>3, <1>4, <1>5, <1>6

LEMMA ClaimRereadKind ==
    ASSUME TypeInv, NEW w \in Workers, ClaimReread(w)
    PROVE  /\ UNCHANGED <<ledger, mail>>
           /\ job'[w].pc \notin WriteSteps /\ ~HasAnswer(w)'
           /\ Ended(w) \/ Continues(w)
           /\ Holds(w)' => HoldsPermit(w) /\ Continues(w)
<1>1. /\ job[w].pc = "claim_reread" /\ UNCHANGED <<ledger, mail>>
      /\ \/ Goto(w, "send") /\ job[w].acquired /\ ~job[w].sweep
         \/ \E outcome \in {"processed", "retry"} : Answer(w, outcome)
  BY DEF ClaimReread, OutcomeOf
<1>2. CASE Goto(w, "send") /\ job[w].acquired /\ ~job[w].sweep
  <2>1. Continues(w) /\ job'[w].pc = "send"
    BY <1>1, <1>2, GotoContinues
  <2> QED
    BY <1>1, <1>2, <2>1 DEF WriteSteps, HasAnswer, HoldsPermit
<1>3. ASSUME NEW outcome, Answer(w, outcome)
      PROVE  job'[w].pc \notin WriteSteps /\ ~Holds(w)' /\ ~HasAnswer(w)' /\ Ended(w)
  BY <1>3, AnswerEnds DEF Holds
<1> QED
  BY <1>1, <1>2, <1>3

LEMMA SendKind ==
    ASSUME TypeInv, NEW w \in Workers, Send(w)
    PROVE  LET e == job[w].event IN
           /\ e \in Events
           /\ UNCHANGED ledger
           /\ HoldsPermit(w) /\ ~HoldsPermit(w)'
           /\ Continues(w) /\ job'[w].pc = "mark_read"
           /\ sends' = [sends EXCEPT ![e] = @ + 1]
           /\ \E n \in {0, 1} :
                 /\ delivered' = [delivered EXCEPT ![e] = @ + n]
                 /\ job'[w].op = "smtp_transient" => n = 0
                 /\ job'[w].op = "smtp_accepted" => n = 1
<1> DEFINE e == job[w].event
<1>1. /\ job[w].pc = "send" /\ job[w] \in Job /\ e \in Events
      /\ UNCHANGED ledger /\ sends' = [sends EXCEPT ![e] = @ + 1]
  BY JobTypes DEF Send
<1>2. PICK outcome \in SmtpOutcomes : \E n \in MayDeliver(outcome) :
         /\ job' = [job EXCEPT ![w].pc = "mark_read", ![w].op = outcome]
         /\ delivered' = [delivered EXCEPT ![e] = @ + n]
  BY DEF Send
<1>3. PICK n \in MayDeliver(outcome) :
         /\ job' = [job EXCEPT ![w].pc = "mark_read", ![w].op = outcome]
         /\ delivered' = [delivered EXCEPT ![e] = @ + n]
  BY <1>2
<1>4. outcome \in AllSmtpOutcomes
  BY OutcomesAssumption
<1>5. /\ n \in {0, 1}
      /\ outcome = "smtp_transient" => n = 0
      /\ outcome = "smtp_accepted" => n = 1
  <2>1. CASE outcome = "smtp_accepted"
    BY <1>3, <2>1 DEF MayDeliver, Refusals, CircuitReasons
  <2>2. CASE outcome = "smtp_ambiguous"
    BY <1>3, <2>2 DEF MayDeliver, Refusals, CircuitReasons
  <2>3. CASE outcome \in Refusals
    <3>1. outcome \notin {"smtp_accepted", "smtp_ambiguous"}
      BY <2>3 DEF Refusals, CircuitReasons
    <3>2. MayDeliver(outcome) = {0}
      BY <2>3, <3>1 DEF MayDeliver
    <3> QED
      BY <1>3, <3>1, <3>2
  <2> QED
    BY <1>4, <2>1, <2>2, <2>3 DEF AllSmtpOutcomes
<1>6. /\ job'[w].pc = "mark_read" /\ job'[w].op = outcome
      /\ job'[w].event = job[w].event /\ job'[w].start = job[w].start
      /\ job'[w].now = job[w].now
  BY <1>1, <1>3 DEF TypeInv, TypeOK, Job
<1>7. HoldsPermit(w) /\ ~HoldsPermit(w)' /\ Continues(w)
  BY <1>1, <1>6 DEF HoldsPermit, Continues
<1> QED
  BY <1>1, <1>3, <1>5, <1>6, <1>7

LEMMA MarkReadKind ==
    ASSUME TypeInv, NEW w \in Workers, MarkRead(w)
    PROVE  /\ UNCHANGED <<ledger, mail>>
           /\ ~HoldsPermit(w)'
           /\ Ended(w) \/ Continues(w)
           /\ HasAnswer(w)' => HasAnswer(w) /\ Continues(w) /\ job'[w].op = job[w].op
           /\ job'[w].pc \in WriteSteps =>
                 /\ job'[w].pc = "mark_cas" /\ job'[w].op = job[w].op
                 /\ job'[w].item = ledger[job[w].event]
                 /\ job'[w].item.state \in MarkableStates(job'[w].op)
<1> DEFINE r == ledger[job[w].event]
<1>1. job[w].pc = "mark_read" /\ job[w] \in Job /\ UNCHANGED <<ledger, mail>>
  BY JobTypes DEF MarkRead
<1>2. \/ /\ job' = [job EXCEPT ![w].pc = "mark_cas", ![w].item = r]
         /\ r.state \in MarkableStates(job[w].op)
      \/ Goto(w, "open_circuit")
      \/ \E outcome \in {"processed", "retry"} : Answer(w, outcome)
  BY DEF MarkRead, Marked
<1>3. CASE /\ job' = [job EXCEPT ![w].pc = "mark_cas", ![w].item = r]
           /\ r.state \in MarkableStates(job[w].op)
  <2>1. /\ job'[w].pc = "mark_cas" /\ job'[w].item = r /\ job'[w].op = job[w].op
        /\ job'[w].event = job[w].event /\ job'[w].start = job[w].start
        /\ job'[w].now = job[w].now
    BY <1>1, <1>3 DEF TypeInv, TypeOK, Job
  <2> QED
    BY <1>1, <1>3, <2>1 DEF HasAnswer, HoldsPermit, Continues
<1>4. CASE Goto(w, "open_circuit")
  <2>1. Continues(w) /\ job'[w].pc = "open_circuit"
    BY <1>1, <1>4, GotoContinues
  <2> QED
    BY <1>1, <2>1 DEF HasAnswer, HoldsPermit, WriteSteps
<1>5. ASSUME NEW outcome, Answer(w, outcome)
      PROVE  job'[w].pc \notin WriteSteps /\ ~HoldsPermit(w)' /\ ~HasAnswer(w)' /\ Ended(w)
  BY <1>5, AnswerEnds DEF Holds
<1> QED
  BY <1>1, <1>2, <1>3, <1>4, <1>5

LEMMA MarkCasKind ==
    ASSUME TypeInv, NEW w \in Workers, MarkCas(w)
    PROVE  /\ job[w].event \in Events
           /\ UNCHANGED mail
           /\ job'[w].pc \notin WriteSteps /\ ~Holds(w)'
           /\ Ended(w) \/ Continues(w)
           /\ \/ ledger' = ledger
              \/ Written(w, MarkUpdate(job[w].op, job[w].item, job[w].now))
<1>1. /\ job[w].pc = "mark_cas" /\ job[w] \in Job /\ job[w].event \in Events
      /\ UNCHANGED mail
  BY JobTypes DEF MarkCas
<1>2. \/ ledger' = ledger
      \/ Written(w, MarkUpdate(job[w].op, job[w].item, job[w].now))
  BY DEF MarkCas, CompareAndSet, Written
<1>3. \/ job' = [job EXCEPT ![w].pc = "mark_reread", ![w].item = Absent]
      \/ Answer(w, "retry")
  BY DEF MarkCas
<1>4. CASE job' = [job EXCEPT ![w].pc = "mark_reread", ![w].item = Absent]
  <2>1. /\ job'[w].pc = "mark_reread"
        /\ job'[w].event = job[w].event /\ job'[w].start = job[w].start
        /\ job'[w].now = job[w].now
    BY <1>1, <1>4 DEF TypeInv, TypeOK, Job
  <2> QED
    BY <1>1, <1>2, <2>1 DEF WriteSteps, HasAnswer, Holds, HoldsPermit, Continues
<1>5. CASE Answer(w, "retry")
  BY <1>1, <1>2, <1>5, AnswerEnds
<1> QED
  BY <1>3, <1>4, <1>5

(***************************************************************************)
(* Bookkeeping.                                                            *)
(***************************************************************************)

\* A step writes at most one record, of the invocation's own notification, and
\* moves its revision on.
LEMMA WorkerWrites ==
    ASSUME TypeInv, NEW w \in Workers, WorkerStep(w), NEW e \in Events
    PROVE  \/ ledger'[e] = ledger[e]
           \/ /\ e = job[w].event
              /\ ledger'[e].revision = ledger[e].revision + 1
<1>0. job[w].item \in Record /\ job[w].now \in Nat /\ ledger \in [Events -> Record]
  BY JobTypes DEF TypeInv, TypeOK
<1>1. CASE PutIfAbsent(w)
  BY <1>0, <1>1, PutIfAbsentKind, NewRecordFields DEF Absent
<1>2. CASE ClaimCas(w)
  BY <1>0, <1>2, ClaimCasKind, ClaimUpdateFields DEF Written, Unchanged
<1>3. CASE MarkCas(w)
  <2>1. job[w].op \in Ops \ {"none"}
    BY <1>3, JobTypes DEF MarkCas, MarkSteps
  <2> QED
    BY <1>0, <1>3, <2>1, MarkCasKind, MarkUpdateFields DEF Written, Unchanged
<1>4. CASE Quiet(w) \/ ClaimRead(w) \/ ClaimReread(w) \/ Send(w) \/ MarkRead(w)
  BY <1>4, ClaimReadKind, ClaimRereadKind, SendKind, MarkReadKind DEF Quiet
<1> QED
  BY <1>1, <1>2, <1>3, <1>4, WorkerStepKinds

\* What a step of an invocation leaves it about to write, it has just read.
LEMMA WorkerReads ==
    ASSUME TypeInv, NEW w \in Workers, WorkerStep(w), job'[w].pc \in WriteSteps
    PROVE  /\ UNCHANGED ledger /\ Continues(w)
           /\ job'[w].item = ledger[job[w].event]
           /\ job'[w].pc = "claim_cas" => Claimable(job'[w].item, job'[w].now)
           /\ job'[w].pc = "mark_cas" =>
                 job'[w].item.state \in MarkableStates(job'[w].op)
<1>1. ~Ended(w)
  BY DEF Ended, WriteSteps
<1> QED
  BY <1>1, WorkerStepKinds, PutIfAbsentKind, ClaimReadKind, ClaimCasKind,
     ClaimRereadKind, SendKind, MarkReadKind, MarkCasKind DEF Quiet, WriteSteps

\* Invocations under way are within their timeout.
LEMMA TimelyStep ==
    TypeInv /\ (\A w \in Workers : Timely(w)) /\ [Next]_vars
       => (\A w \in Workers : Timely(w))'
<1> SUFFICES ASSUME TypeInv, \A w \in Workers : Timely(w), [Next]_vars,
                    NEW v \in Workers
             PROVE  Timely(v)'
  OBVIOUS
<1>0. job[v] \in Job /\ clock \in Nat /\ job[v].start \in Nat /\ job[v].now \in Nat
  BY JobTypes
<1>1. CASE UNCHANGED vars
  BY <1>1 DEF vars, Timely
<1>2. CASE Tick
  BY <1>0, <1>2, TimeAssumption DEF Tick, Timely
<1>3. ASSUME NEW w \in Workers, WorkerStep(w) PROVE Timely(v)'
  <2>1. clock' = clock /\ (v # w => job'[v] = job[v])
    BY <1>3, WorkerStepKinds DEF Others
  <2>2. Ended(w) \/ Continues(w) \/ Starts(w)
    BY <1>3, WorkerStepKinds, PutIfAbsentKind, ClaimReadKind, ClaimCasKind,
       ClaimRereadKind, SendKind, MarkReadKind, MarkCasKind DEF Quiet
  <2>3. CASE v # w
    BY <2>1, <2>3 DEF Timely
  <2>4. CASE v = w /\ Ended(w)
    BY <2>4 DEF Ended, Timely
  <2>5. CASE v = w /\ Continues(w)
    BY <2>1, <2>5 DEF Continues, Timely
  <2>6. CASE v = w /\ Starts(w)
    BY <1>0, <2>1, <2>6, TimeAssumption DEF Starts, Timely, Readings
  <2> QED
    BY <2>2, <2>3, <2>4, <2>5, <2>6
<1>4. ASSUME NEW e \in Events, OperatorStep(e) PROVE Timely(v)'
  BY <1>4 DEF OperatorStep, Review, ConfirmAccepted, AuthorizeRetry, Timely
<1> QED
  BY <1>1, <1>2, <1>3, <1>4 DEF Next

\* Operators write over the record they find, with its next revision.
LEMMA OperatorWrites ==
    ASSUME TypeInv, NEW e \in Events, OperatorStep(e), NEW d \in Events
    PROVE  \/ ledger'[d] = ledger[d]
           \/ d = e /\ ledger'[d].revision = ledger[d].revision + 1
<1>0. ledger \in [Events -> Record] /\ \A n \in Readings(clock) : n \in Nat
  BY TimeAssumption DEF Readings, TypeInv, TypeOK
<1>1. CASE Review(e)
  BY <1>1 DEF Review
<1>2. CASE ConfirmAccepted(e)
  <2>1. PICK n \in Readings(clock) : ledger' = [ledger EXCEPT ![e] = ReconciledAccepted(@, n)]
    BY <1>2 DEF ConfirmAccepted
  <2>2. ReconciledAccepted(ledger[e], n).revision = ledger[e].revision + 1
    BY <1>0, ReconciledFields
  <2> QED
    BY <1>0, <2>1, <2>2
<1>3. CASE AuthorizeRetry(e)
  <2>1. PICK n \in Readings(clock) : ledger' = [ledger EXCEPT ![e] = ReconciledRetry(@, n)]
    BY <1>3 DEF AuthorizeRetry
  <2>2. ReconciledRetry(ledger[e], n).revision = ledger[e].revision + 1
    BY <1>0, ReconciledFields
  <2> QED
    BY <1>0, <2>1, <2>2
<1> QED
  BY <1>1, <1>2, <1>3 DEF OperatorStep

\* A step that leaves an invocation alone keeps what it is about to write.
LEMMA SnapshotKept ==
    ASSUME TypeInv, NEW v \in Workers, Fitting(v), Snapshot(v),
           job'[v] = job[v],
           \A e \in Events : \/ ledger'[e] = ledger[e]
                             \/ ledger'[e].revision = ledger[e].revision + 1
    PROVE  Fitting(v)' /\ Snapshot(v)'
<1>1. Fitting(v)'
  BY DEF Fitting
<1>2. ASSUME job[v].pc \in WriteSteps PROVE Snapshot(v)'
  <2>1. job[v].event \in Events
    BY <1>2, JobTypes DEF WriteSteps
  <2>2. job[v].item.revision \in Nat /\ ledger[job[v].event].revision \in Nat
    BY <1>2, <2>1, JobTypes DEF Record, TypeInv, TypeOK
  <2> QED
    BY <1>2, <2>1, <2>2 DEF Snapshot
<1>3. CASE job[v].pc \notin WriteSteps
  BY <1>1, <1>3 DEF Snapshot
<1> QED
  BY <1>1, <1>2, <1>3

LEMMA BookkeepingStep == TypeInv /\ Bookkeeping /\ [Next]_vars => Bookkeeping'
<1> SUFFICES ASSUME TypeInv, Bookkeeping, [Next]_vars, NEW v \in Workers
             PROVE  Fitting(v)' /\ Snapshot(v)'
  BY TimelyStep DEF Bookkeeping
<1>0. Fitting(v) /\ Snapshot(v)
  BY DEF Bookkeeping
<1>1. CASE UNCHANGED vars
  <2>1. job' = job /\ ledger' = ledger
    BY <1>1 DEF vars
  <2> QED
    BY <1>0, <2>1, SnapshotKept
<1>2. CASE Tick
  <2>1. job' = job /\ ledger' = ledger
    BY <1>2 DEF Tick
  <2> QED
    BY <1>0, <2>1, SnapshotKept
<1>3. ASSUME NEW w \in Workers, WorkerStep(w) PROVE Fitting(v)' /\ Snapshot(v)'
  <2>1. CASE v # w
    BY <1>0, <1>3, <2>1, WorkerStepKinds, WorkerWrites, SnapshotKept DEF Others
  <2>2. CASE v = w /\ job'[w].pc \notin WriteSteps
    BY <2>2 DEF Fitting, Snapshot, WriteSteps
  <2>3. CASE v = w /\ job'[w].pc \in WriteSteps
    <3>1. /\ UNCHANGED ledger /\ Continues(w)
          /\ job'[w].item = ledger[job[w].event]
          /\ Fitting(w)'
      BY <1>3, <2>3, WorkerReads DEF Fitting
    <3>2. ledger[job[w].event].revision \in Nat
      BY <3>1, JobTypes DEF Continues, Record
    <3> QED
      BY <2>3, <3>1, <3>2 DEF Snapshot, Continues
  <2> QED
    BY <2>1, <2>2, <2>3
<1>4. ASSUME NEW e \in Events, OperatorStep(e) PROVE Fitting(v)' /\ Snapshot(v)'
  <2>1. job' = job
    BY <1>4 DEF OperatorStep, Review, ConfirmAccepted, AuthorizeRetry
  <2> QED
    BY <1>0, <1>4, <2>1, OperatorWrites, SnapshotKept
<1> QED
  BY <1>1, <1>2, <1>3, <1>4 DEF Next

\* At first nobody is running.
LEMMA BookkeepingInit == Init => Bookkeeping
  BY DEF Init, Idle, Bookkeeping, Timely, Fitting, Snapshot, WriteSteps

\* Invocations keep to their time, and a conditional write that is applied
\* overwrites exactly the record that was read.
THEOREM BookkeepingHolds == Spec => [](TypeInv /\ Bookkeeping)
  BY BookkeepingInit, TypeInvariance, BookkeepingStep, PTL DEF Spec

(***************************************************************************)
(* Custody of a notification.                                              *)
(***************************************************************************)

\* No invocation reads on its clock, while another runs, a time at which the
\* lease the other took has expired.
LEMMA Fence ==
    ASSUME TypeInv, NEW v \in Workers, NEW w \in Workers,
           Timely(v), Timely(w), job[v].pc # "idle", job[w].pc # "idle"
    PROVE  job[w].now < job[v].now + SendingLease
<1>1. /\ job[v].now \in Nat /\ job[v].start \in Nat
      /\ job[w].now \in Nat /\ job[w].start \in Nat /\ clock \in Nat
  BY JobTypes
<1>2. job[w].now <= clock + MaxSkew /\ clock <= job[v].now + MaxSkew + Timeout
  BY <1>1, TimeAssumption DEF Timely
<1>3. SendingLease \in Nat /\ Timeout \in Nat /\ MaxSkew \in Nat
  BY LeaseAssumption, TimeAssumption
<1> QED
  BY <1>1, <1>2, <1>3, LeaseOutlivesInvocation

\* The record a conditional write is applied to is the one it was made for.
LEMMA WrittenOver ==
    ASSUME TypeInv, NEW w \in Workers, Snapshot(w), job[w].pc \in WriteSteps,
           NEW update, Written(w, update)
    PROVE  /\ job[w].item = ledger[job[w].event]
           /\ ledger'[job[w].event] = update
           /\ \A e \in Events \ {job[w].event} : ledger'[e] = ledger[e]
<1>1. job[w].event \in Events
  BY JobTypes DEF WriteSteps
<1> QED
  BY <1>1 DEF Written, Unchanged, Snapshot, TypeInv, TypeOK

\* How an invocation comes to hold a notification.
LEMMA HoldStep ==
    ASSUME TypeInv, NEW w \in Workers, WorkerStep(w), Holds(w)'
    PROVE  /\ Continues(w)
           /\ \/ Holds(w) /\ UNCHANGED ledger
              \/ /\ ClaimCas(w) /\ Acquires(job[w].item)
                 /\ Written(w, ClaimUpdate(job[w].item, job[w].now))
  BY WorkerStepKinds, PutIfAbsentKind, ClaimReadKind, ClaimCasKind,
     ClaimRereadKind, SendKind, MarkReadKind, MarkCasKind DEF Quiet, Holds

\* What another invocation may do to a record in custody: fail it.
LEMMA CustodyKept ==
    ASSUME TypeInv, Bookkeeping, Custody, OneHolder,
           NEW v \in Workers, NEW w \in Workers, v # w, Holds(v), WorkerStep(w)
    PROVE  \/ ledger'[job[v].event] = ledger[job[v].event]
           \/ ledger'[job[v].event].state = "failed"
<1> DEFINE e == job[v].event
           r == ledger[e]
<1>0. job[v].pc # "idle" /\ e \in Events /\ r \in Record
  BY JobTypes DEF Holds, HoldsPermit, HasAnswer
<1>1. \/ r.state = "failed"
      \/ r.state = "sending" /\ r.leaseExpiresAt = job[v].now + SendingLease
  BY DEF Custody
<1>2. Snapshot(w) /\ Fitting(w) /\ Timely(w) /\ Timely(v)
  BY DEF Bookkeeping
<1>3. job[w].now \in Nat /\ job[v].now \in Nat /\ SendingLease \in Nat
  BY JobTypes, LeaseAssumption
<1>4. CASE ledger' = ledger \/ job[w].event # e
  BY <1>0, <1>4, WorkerWrites
<1>5. CASE job[w].event = e /\ PutIfAbsent(w)
  BY <1>1, <1>5, PutIfAbsentKind DEF Absent
<1>6. CASE job[w].event = e /\ ClaimCas(w)
  <2>1. ASSUME Written(w, ClaimUpdate(job[w].item, job[w].now)) PROVE FALSE
    <3>1. job[w].pc = "claim_cas" /\ job[w].item = r
      BY <1>2, <1>6, <2>1, WrittenOver DEF ClaimCas, WriteSteps
    <3>2. r.state = "sending" /\ job[w].now >= r.leaseExpiresAt
      BY <1>1, <1>2, <3>1 DEF Fitting, Claimable
    <3>3. job[w].now < job[v].now + SendingLease
      BY <1>0, <1>2, <3>1, Fence
    <3> QED
      BY <1>1, <1>3, <3>2, <3>3
  <2> QED
    BY <1>6, <2>1, ClaimCasKind
<1>7. CASE job[w].event = e /\ MarkCas(w)
  <2>1. ASSUME Written(w, MarkUpdate(job[w].op, job[w].item, job[w].now))
        PROVE  ledger'[e].state = "failed"
    <3>1. job[w].pc = "mark_cas" /\ job[w].op \in Ops \ {"none"}
      BY <1>7, JobTypes DEF MarkCas, MarkSteps
    <3>2. job[w].op \notin AllSmtpOutcomes
      BY <1>7, <3>1 DEF OneHolder, Holds, HasAnswer
    <3>3. ledger'[e] = MarkUpdate(job[w].op, job[w].item, job[w].now)
      BY <1>2, <1>7, <2>1, <3>1, WrittenOver DEF WriteSteps
    <3>4. ledger'[e].state = MarkedState(job[w].op, job[w].item)
      BY <3>1, <3>3, JobTypes, MarkUpdateFields
    <3> QED
      BY <3>2, <3>4 DEF MarkedState, AllSmtpOutcomes, Refusals
  <2> QED
    BY <1>7, <2>1, MarkCasKind
<1>8. CASE Quiet(w) \/ ClaimRead(w) \/ ClaimReread(w) \/ Send(w) \/ MarkRead(w)
  BY <1>4, <1>8, ClaimReadKind, ClaimRereadKind, SendKind, MarkReadKind DEF Quiet
<1> QED
  BY <1>4, <1>5, <1>6, <1>7, <1>8, WorkerStepKinds

LEMMA CustodyStep ==
    TypeInv /\ Bookkeeping /\ Custody /\ OneHolder /\ [Next]_vars
       => Custody' /\ OneHolder'
<1> SUFFICES ASSUME TypeInv, Bookkeeping, Custody, OneHolder, [Next]_vars
             PROVE  Custody' /\ OneHolder'
  OBVIOUS
<1>1. CASE job' = job /\ ledger' = ledger
  BY <1>1 DEF Custody, OneHolder, Holds, HoldsPermit, HasAnswer
<1>2. ASSUME NEW w \in Workers, WorkerStep(w) PROVE Custody' /\ OneHolder'
  <2> DEFINE Kept(v) == LET r == ledger'[job'[v].event] IN
                        \/ r.state = "failed"
                        \/ /\ r.state = "sending"
                           /\ r.leaseExpiresAt = job'[v].now + SendingLease
  <2>1. \A v \in Workers \ {w} : job'[v] = job[v] /\ (Holds(v)' <=> Holds(v))
    BY <1>2, WorkerStepKinds DEF Others, Holds, HoldsPermit, HasAnswer
  <2>2. ASSUME Holds(w)', ClaimCas(w), Acquires(job[w].item), Continues(w),
               Written(w, ClaimUpdate(job[w].item, job[w].now))
        PROVE  /\ ledger[job[w].event].state = "prepared"
               /\ Kept(w)
    <3>1. Snapshot(w) /\ job[w].pc = "claim_cas"
      BY <2>2 DEF Bookkeeping, ClaimCas
    <3>2. /\ job[w].item = ledger[job[w].event]
          /\ ledger'[job[w].event] = ClaimUpdate(job[w].item, job[w].now)
      BY <2>2, <3>1, WrittenOver DEF WriteSteps
    <3>3. job[w].item.state = "prepared"
      BY <2>2 DEF Acquires
    <3>4. job[w].item \in Record /\ job[w].now \in Nat
      BY JobTypes
    <3> QED
      BY <2>2, <3>2, <3>3, <3>4, ClaimUpdateFields DEF Continues
  <2>3. ASSUME NEW v \in Workers, Holds(v)' PROVE Kept(v)
    <3>1. CASE v # w
      <4>1. job'[v] = job[v] /\ Holds(v)
        BY <2>1, <2>3, <3>1
      <4>2. \/ ledger'[job[v].event] = ledger[job[v].event]
            \/ ledger'[job[v].event].state = "failed"
        BY <1>2, <3>1, <4>1, CustodyKept
      <4> QED
        BY <4>1, <4>2 DEF Custody
    <3>2. CASE v = w
      BY <1>2, <2>2, <2>3, <3>2, HoldStep DEF Custody, Continues
    <3> QED
      BY <3>1, <3>2
  <2>4. ASSUME NEW v \in Workers \ {w}, Holds(v)', Holds(w)'
        PROVE  job'[v].event # job'[w].event
    <3>1. job'[v] = job[v] /\ Holds(v) /\ job'[w].event = job[w].event
      BY <1>2, <2>1, <2>4, HoldStep DEF Continues
    <3>2. CASE Holds(w)
      BY <3>1, <3>2 DEF OneHolder
    <3>3. CASE ~Holds(w)
      <4>1. ledger[job[w].event].state = "prepared"
        BY <1>2, <2>2, <2>4, <3>3, HoldStep
      <4> QED
        BY <3>1, <4>1 DEF Custody
    <3> QED
      BY <3>2, <3>3
  <2>5. OneHolder'
    BY <2>1, <2>4 DEF OneHolder
  <2> QED
    BY <2>3, <2>5 DEF Custody
<1>3. ASSUME NEW e \in Events, OperatorStep(e) PROVE Custody' /\ OneHolder'
  <2>1. job' = job
    BY <1>3 DEF OperatorStep, Review, ConfirmAccepted, AuthorizeRetry
  <2>2. ledger[e].state = "uncertain"
    BY <1>3 DEF OperatorStep, Review, ConfirmAccepted, AuthorizeRetry, CanReconcile
  <2>3. ASSUME NEW v \in Workers, Holds(v)
        PROVE  ledger'[job[v].event] = ledger[job[v].event]
    <3>1. job[v].event \in Events
      BY <2>3, JobTypes DEF Holds, HoldsPermit, HasAnswer
    <3>2. job[v].event # e
      BY <2>2, <2>3 DEF Custody
    <3> QED
      BY <1>3, <3>1, <3>2, OperatorWrites
  <2> QED
    BY <2>1, <2>3 DEF Custody, OneHolder, Holds, HoldsPermit, HasAnswer
<1> QED
  BY <1>1, <1>2, <1>3 DEF Next, Tick, vars

(***************************************************************************)
(* No blind duplicates.                                                    *)
(***************************************************************************)

\* A record is freed for a new attempt by prepare, or by the invocation whose
\* attempt met a transient refusal.
LEMMA FreedBy ==
    ASSUME TypeInv, Bookkeeping, NEW w \in Workers, WorkerStep(w), NEW e \in Events,
           ledger'[e].state \in {"absent", "prepared"}, ledger'[e] # ledger[e]
    PROVE  /\ e = job[w].event
           /\ \/ ledger[e].state = "absent"
              \/ HasAnswer(w) /\ job[w].op = "smtp_transient"
<1>0. e = job[w].event /\ job[w].item \in Record /\ job[w].now \in Nat /\ Snapshot(w)
  BY WorkerWrites, JobTypes DEF Bookkeeping
<1>1. CASE PutIfAbsent(w)
  BY <1>0, <1>1, PutIfAbsentKind DEF Absent
<1>2. CASE ClaimCas(w)
  <2>1. ledger'[e] = ClaimUpdate(job[w].item, job[w].now)
    BY <1>0, <1>2, ClaimCasKind, WrittenOver DEF ClaimCas, WriteSteps
  <2> QED
    BY <1>0, <2>1, ClaimUpdateFields
<1>3. CASE MarkCas(w)
  <2>1. job[w].pc = "mark_cas" /\ job[w].op \in Ops \ {"none"}
    BY <1>3, JobTypes DEF MarkCas, MarkSteps
  <2>2. ledger'[e] = MarkUpdate(job[w].op, job[w].item, job[w].now)
    BY <1>0, <1>3, <2>1, MarkCasKind, WrittenOver DEF WriteSteps
  <2>3. job[w].op = "smtp_transient"
    BY <1>0, <2>1, <2>2, MarkUpdateFields DEF MarkedState
  <2> QED
    BY <1>0, <2>1, <2>3 DEF HasAnswer, AllSmtpOutcomes, Refusals
<1>4. CASE Quiet(w) \/ ClaimRead(w) \/ ClaimReread(w) \/ Send(w) \/ MarkRead(w)
  BY <1>4, ClaimReadKind, ClaimRereadKind, SendKind, MarkReadKind DEF Quiet
<1> QED
  BY <1>1, <1>2, <1>3, <1>4, WorkerStepKinds

\* Where an invocation that may send, or that met a transient refusal, was.
MaySend(w) == HoldsPermit(w) \/ (HasAnswer(w) /\ job[w].op = "smtp_transient")

LEMMA MaySendStep ==
    ASSUME TypeInv, Bookkeeping, NEW w \in Workers, WorkerStep(w), ~Send(w), MaySend(w)'
    PROVE  /\ job'[w].event = job[w].event
           /\ MaySend(w) \/ ledger[job[w].event].state = "prepared"
<1>1. Holds(w)' /\ Continues(w)
  BY HoldStep DEF MaySend, Holds
<1>2. CASE ClaimCas(w)
  <2>1. /\ Written(w, ClaimUpdate(job[w].item, job[w].now))
        /\ job[w].item.state = "prepared" /\ Snapshot(w) /\ job[w].pc = "claim_cas"
    BY <1>1, <1>2, ClaimCasKind DEF Acquires, Bookkeeping, ClaimCas
  <2>2. job[w].item = ledger[job[w].event]
    BY <2>1, WrittenOver DEF WriteSteps
  <2> QED
    BY <1>1, <2>1, <2>2 DEF Continues
<1>3. CASE ClaimReread(w)
  BY <1>1, <1>3, ClaimRereadKind DEF MaySend, Continues
<1>4. CASE MarkRead(w)
  BY <1>1, <1>4, MarkReadKind DEF MaySend, Continues
<1> QED
  BY <1>1, <1>2, <1>3, <1>4, WorkerStepKinds, PutIfAbsentKind, ClaimReadKind,
     MarkCasKind DEF Quiet

LEMMA FreshStep ==
    ASSUME TypeInv, Bookkeeping, Custody, OneHolder,
           AttemptsAreFresh, NoBlindDuplicate, [Next]_vars
    PROVE  AttemptsAreFresh' /\ NoBlindDuplicate'
<1>0. \A e \in Events : delivered[e] \in Nat /\ approvals[e] \in Nat
  BY DEF TypeInv, TypeOK
<1>1. CASE job' = job /\ ledger' = ledger /\ delivered' = delivered /\ approvals' = approvals
  BY <1>1 DEF AttemptsAreFresh, NoBlindDuplicate, Undelivered, HoldsPermit, HasAnswer
<1>2. ASSUME NEW w \in Workers, WorkerStep(w)
      PROVE  AttemptsAreFresh' /\ NoBlindDuplicate'
  <2> DEFINE own == job[w].event
  <2>1. /\ approvals' = approvals
        /\ \A v \in Workers \ {w} : job'[v] = job[v] /\ (MaySend(v)' <=> MaySend(v))
    BY <1>2, WorkerStepKinds DEF operator, Others, MaySend, HoldsPermit, HasAnswer
  <2>2. /\ \A e \in Events : ledger[e].state \in {"absent", "prepared"} => Undelivered(e)
        /\ \A v \in Workers : MaySend(v) => Undelivered(job[v].event)
    BY DEF AttemptsAreFresh, MaySend
  <2>3. CASE Send(w)
    <3>1. /\ own \in Events /\ ledger' = ledger /\ HoldsPermit(w) /\ ~HoldsPermit(w)'
          /\ job'[w].event = own
      BY <2>3, SendKind DEF Continues
    <3>2. PICK n \in {0, 1} : /\ delivered' = [delivered EXCEPT ![own] = @ + n]
                              /\ job'[w].op = "smtp_transient" => n = 0
      BY <2>3, SendKind
    <3>3. Undelivered(own)
      BY <2>2, <3>1 DEF MaySend
    <3>4. /\ delivered'[own] = delivered[own] + n
          /\ \A e \in Events \ {own} : delivered'[e] = delivered[e]
      BY <3>1, <3>2 DEF TypeInv, TypeOK
    <3>5. NoBlindDuplicate'
      BY <1>0, <2>1, <3>2, <3>3, <3>4 DEF NoBlindDuplicate, Undelivered
    <3>6. ledger[own].state \notin {"absent", "prepared"}
      BY <3>1 DEF Custody, Holds
    <3>7. \A e \in Events : ledger'[e].state \in {"absent", "prepared"} => Undelivered(e)'
      BY <2>1, <2>2, <3>1, <3>4, <3>6 DEF Undelivered
    <3>8. ASSUME NEW v \in Workers, MaySend(v)' PROVE Undelivered(job[v].event)'
      <4>1. CASE v = w
        BY <1>0, <2>1, <3>1, <3>2, <3>3, <3>4, <3>8, <4>1 DEF MaySend, Undelivered
      <4>2. CASE v # w
        <5>1. MaySend(v) /\ job[v].event # own
          BY <2>1, <3>1, <3>8, <4>2 DEF MaySend, Holds, OneHolder
        <5>2. job[v].event \in Events
          BY <5>1, JobTypes DEF MaySend, HoldsPermit, HasAnswer
        <5>3. job'[v].event = job[v].event
          BY <2>1, <4>2
        <5> QED
          BY <2>1, <2>2, <3>4, <5>1, <5>2, <5>3 DEF Undelivered
      <4> QED
        BY <4>1, <4>2
    <3> QED
      BY <3>5, <3>7, <3>8 DEF AttemptsAreFresh, MaySend
  <2>4. CASE ~Send(w)
    <3>1. delivered' = delivered
      BY <1>2, <2>4, WorkerStepKinds, PutIfAbsentKind, ClaimReadKind, ClaimCasKind,
         ClaimRereadKind, MarkReadKind, MarkCasKind DEF Quiet, mail
    <3>2. NoBlindDuplicate'
      BY <2>1, <3>1 DEF NoBlindDuplicate
    <3>3. ASSUME NEW e \in Events, ledger'[e].state \in {"absent", "prepared"}
          PROVE  Undelivered(e)'
      <4>1. CASE ledger'[e] = ledger[e]
        BY <2>1, <2>2, <3>1, <3>3, <4>1 DEF Undelivered
      <4>2. CASE ledger'[e] # ledger[e]
        BY <1>2, <2>1, <2>2, <3>1, <3>3, <4>2, FreedBy DEF Undelivered, MaySend
      <4> QED
        BY <4>1, <4>2
    <3>4. ASSUME NEW v \in Workers, MaySend(v)' PROVE Undelivered(job[v].event)'
      <4>1. CASE v # w
        BY <2>1, <2>2, <3>1, <3>4, <4>1 DEF Undelivered
      <4>2. CASE v = w
        <5>1. /\ job'[w].event = own
              /\ MaySend(w) \/ ledger[own].state = "prepared"
          BY <1>2, <2>4, <3>4, <4>2, MaySendStep
        <5>2. own \in Events
          BY <1>2, <3>4, <4>2, HoldStep, JobTypes DEF MaySend, Holds, Continues
        <5> QED
          BY <2>1, <2>2, <3>1, <4>2, <5>1, <5>2 DEF Undelivered
      <4> QED
        BY <4>1, <4>2
    <3> QED
      BY <3>2, <3>3, <3>4 DEF AttemptsAreFresh, MaySend
  <2> QED
    BY <2>3, <2>4
<1>3. ASSUME NEW e \in Events, OperatorStep(e)
      PROVE  AttemptsAreFresh' /\ NoBlindDuplicate'
  <2>1. job' = job /\ delivered' = delivered
    BY <1>3 DEF OperatorStep, Review, ConfirmAccepted, AuthorizeRetry, mail
  <2>2. CASE AuthorizeRetry(e)
    <3>1. /\ approvals'[e] = approvals[e] + 1
          /\ \A d \in Events \ {e} : approvals'[d] = approvals[d] /\ ledger'[d] = ledger[d]
      BY <2>2 DEF AuthorizeRetry, TypeInv, TypeOK
    <3>2. \A d \in Events : Undelivered(d) => Undelivered(d)'
      BY <1>0, <2>1, <3>1 DEF Undelivered
    <3>3. Undelivered(e)'
      BY <1>0, <2>1, <3>1 DEF Undelivered, NoBlindDuplicate
    <3>4. NoBlindDuplicate'
      BY <1>0, <2>1, <3>1 DEF NoBlindDuplicate
    <3>5. \A w \in Workers : MaySend(w) => job[w].event \in Events
      BY JobTypes DEF MaySend, HoldsPermit, HasAnswer
    <3>6. ASSUME NEW w \in Workers, MaySend(w)' PROVE Undelivered(job[w].event)'
      <4>1. MaySend(w)
        BY <2>1, <3>6 DEF MaySend, HoldsPermit, HasAnswer
      <4>2. Undelivered(job[w].event) /\ job[w].event \in Events
        BY <3>5, <4>1 DEF AttemptsAreFresh, MaySend
      <4> QED
        BY <2>1, <3>2, <4>2 DEF Undelivered
    <3>7. ASSUME NEW d \in Events, ledger'[d].state \in {"absent", "prepared"}
          PROVE  Undelivered(d)'
      <4>1. CASE d = e
        BY <3>3, <4>1
      <4>2. CASE d # e
        BY <3>1, <3>2, <3>7, <4>2 DEF AttemptsAreFresh
      <4> QED
        BY <4>1, <4>2
    <3> QED
      BY <3>4, <3>6, <3>7 DEF AttemptsAreFresh, MaySend
  <2>3. CASE Review(e) \/ ConfirmAccepted(e)
    <3>1. approvals' = approvals
      BY <2>3 DEF Review, ConfirmAccepted, operator
    <3>2. \A d \in Events : \/ ledger'[d] = ledger[d]
                            \/ ledger'[d].state = "accepted_by_smtp"
      <4>1. CASE Review(e)
        BY <4>1 DEF Review
      <4>2. CASE ConfirmAccepted(e)
        <5>1. PICK n \in Readings(clock) :
                 ledger' = [ledger EXCEPT ![e] = ReconciledAccepted(@, n)]
          BY <4>2 DEF ConfirmAccepted
        <5>2. n \in Nat /\ ledger \in [Events -> Record]
          BY <5>1, TimeAssumption DEF Readings, TypeInv, TypeOK
        <5> QED
          BY <5>1, <5>2, ReconciledFields
      <4> QED
        BY <2>3, <4>1, <4>2
    <3> QED
      BY <2>1, <3>1, <3>2 DEF AttemptsAreFresh, NoBlindDuplicate, Undelivered,
                              HoldsPermit, HasAnswer
  <2> QED
    BY <1>3, <2>2, <2>3 DEF OperatorStep
<1> QED
  BY <1>1, <1>2, <1>3 DEF Next, Tick, vars, mail, operator

\* The invariant holds throughout.
THEOREM Safety == Spec => []IInv
<1>1. Init => IInv
  <2>1. Init => TypeInv /\ Bookkeeping
    BY TypeInit, BookkeepingInit
  <2>2. Init => \A w \in Workers : ~Holds(w)
    BY DEF Init, Idle, Holds, HoldsPermit, HasAnswer
  <2> QED
    BY <2>1, <2>2 DEF Init, IInv, Custody, OneHolder, AttemptsAreFresh,
                      NoBlindDuplicate, Undelivered, Holds
<1>2. IInv /\ [Next]_vars => IInv'
  BY TypeStep, BookkeepingStep, CustodyStep, FreshStep DEF IInv
<1> QED
  BY <1>1, <1>2, PTL DEF Spec

\* Crashes, lost replies, redelivery and concurrency never make the provider
\* take a notification more often than once and once per authorised retry.
THEOREM NoBlindDuplicates == Spec => []NoBlindDuplicate
<1>1. IInv => NoBlindDuplicate
  BY DEF IInv
<1> QED
  BY <1>1, Safety, PTL

=============================================================================
