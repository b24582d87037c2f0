------------------------ MODULE NotificationQueueProofs ------------------------
(***************************************************************************)
(* Proofs about the queue, for any numbers of invocations, messages and     *)
(* notifications and any sizes the assumptions allow: one invocation per    *)
(* message and nothing lost silently, from what a message in hand is hidden  *)
(* for; the lease of a claim over before its message comes back; every       *)
(* receive accounted for; claims that nobody touches under their holders;    *)
(* and the queue as an implementation of MessageCustody.                    *)
(***************************************************************************)
EXTENDS NotificationQueue, TLAPS

\* What an invocation has in hand belongs to its batch.
InHand(w) ==
    /\ run[w].pc = "idle" => run[w] = Idle
    /\ run[w].todo \subseteq run[w].batch
    /\ run[w].processed \subseteq run[w].batch
    /\ run[w].message \in run[w].batch \cup {NoMessage}
    /\ run[w].pc \notin {"idle", "next"} =>
          run[w].message \in Messages /\ body[run[w].message] \in Events
    /\ run[w].pc = "mark" => run[w].result \in Results

\* A message in hand is on the queue, hidden for the rest of its time.
Hidden(w) ==
    \A m \in run[w].batch :
        place[m] = "queue" /\ hidden[m] >= Visibility - run[w].age

\* What is called processed was accepted.
Processed(w) ==
    \A m \in run[w].processed :
        body[m] \in Events /\ status[body[m]] = "accepted_by_smtp"

QInv ==
    /\ TypeOK
    /\ \A w \in Workers : InHand(w) /\ Hidden(w) /\ Processed(w)
    /\ OneInvocationPerMessage
    /\ DeletedMeansAccepted

LEMMA Sizes ==
    /\ Budget \in Nat \ {0} /\ MaxReceives \in Nat \ {0} /\ Timeout \in Nat \ {0}
    /\ Lease \in Nat \ {0} /\ Visibility \in Nat \ {0}
  BY SizesAssumption

(***************************************************************************)
(* The ledger.                                                             *)
(***************************************************************************)

LedgerTypes ==
    /\ status \in [Events -> {"absent", "prepared", "sending", "uncertain",
                              "accepted_by_smtp", "failed"}]
    /\ attempts \in [Events -> 0..Budget]
    /\ permit \in [Events -> BOOLEAN]
    /\ taken \in [Events -> Nat] /\ authorised \in [Events -> Nat]

LedgerMove(e) ==
    \/ Ledger!Register(e) \/ Ledger!Attempt(e) \/ Ledger!Conclude(e) \/ Ledger!Retry(e)
    \/ Ledger!Settle(e) \/ Ledger!Fail(e) \/ Ledger!Confirm(e) \/ Ledger!Authorise(e)

\* Accepted records stay accepted.
AcceptedStays ==
    \A e \in Events : status[e] = "accepted_by_smtp" => status'[e] = "accepted_by_smtp"

LEMMA LedgerMoves ==
    ASSUME TypeOK, NEW e \in Events, LedgerMove(e)
    PROVE  LedgerTypes' /\ AcceptedStays
<1>0. LedgerTypes
  BY DEF TypeOK, LedgerTypes
<1>1. CASE Ledger!Register(e) \/ Ledger!Retry(e) \/ Ledger!Settle(e) \/ Ledger!Fail(e)
           \/ Ledger!Confirm(e)
  <2>1. PICK s \in {"prepared", "uncertain", "accepted_by_smtp", "failed"} :
           /\ status' = [status EXCEPT ![e] = s]
           /\ UNCHANGED <<attempts, permit, taken, authorised>>
           /\ status[e] # "accepted_by_smtp"
    BY <1>1 DEF Ledger!Register, Ledger!Retry, Ledger!Settle, Ledger!Fail, Ledger!Confirm,
       Ledger!Become
  <2> QED
    BY <1>0, <2>1 DEF LedgerTypes, AcceptedStays
<1>2. CASE Ledger!Attempt(e)
  <2>1. /\ status[e] = "prepared" /\ status' = [status EXCEPT ![e] = "sending"]
        /\ attempts[e] < Budget /\ attempts' = [attempts EXCEPT ![e] = @ + 1]
        /\ UNCHANGED <<taken, authorised>>
    BY <1>2 DEF Ledger!Attempt, Ledger!Become
  <2>2. PICK p \in BOOLEAN : permit' = [permit EXCEPT ![e] = p]
    BY <1>2 DEF Ledger!Attempt
  <2>3. permit' \in [Events -> BOOLEAN]
    BY <1>0, <2>2 DEF LedgerTypes
  <2>4. attempts' \in [Events -> 0..Budget]
    BY <1>0, <2>1, Sizes DEF LedgerTypes
  <2> QED
    BY <1>0, <2>1, <2>3, <2>4 DEF LedgerTypes, AcceptedStays
<1>3. CASE Ledger!Conclude(e)
  <2>1. UNCHANGED <<status, attempts, authorised>> /\ permit' = [permit EXCEPT ![e] = FALSE]
    BY <1>3 DEF Ledger!Conclude
  <2>2. PICK n \in {0, 1} : taken' = [taken EXCEPT ![e] = @ + n]
    BY <1>3 DEF Ledger!Conclude
  <2>3. taken' \in [Events -> Nat]
    BY <1>0, <2>2 DEF LedgerTypes
  <2> QED
    BY <1>0, <2>1, <2>3 DEF LedgerTypes, AcceptedStays
<1>4. CASE Ledger!Authorise(e)
  <2>1. /\ status[e] = "uncertain" /\ status' = [status EXCEPT ![e] = "prepared"]
        /\ authorised' = [authorised EXCEPT ![e] = @ + 1]
        /\ UNCHANGED <<attempts, permit, taken>>
    BY <1>4 DEF Ledger!Authorise, Ledger!Become
  <2> QED
    BY <1>0, <2>1 DEF LedgerTypes, AcceptedStays
<1> QED
  BY <1>1, <1>2, <1>3, <1>4 DEF LedgerMove

LEMMA LedgerStays == TypeOK /\ UNCHANGED ledger => LedgerTypes' /\ AcceptedStays
  BY DEF TypeOK, LedgerTypes, ledger, AcceptedStays

(***************************************************************************)
(* The handler.                                                            *)
(***************************************************************************)

\* An invocation goes on with the batch it has.
Progress(w) ==
    /\ run' \in [Workers -> Run] /\ \A v \in Workers \ {w} : run'[v] = run[v]
    /\ run[w].pc # "idle" /\ run'[w].pc # "idle"
    /\ run'[w].age = run[w].age /\ run'[w].batch = run[w].batch
    /\ run'[w].todo \subseteq run[w].todo
    /\ run'[w].message \in {run[w].message, NoMessage} \cup run[w].todo
    /\ run'[w].pc \notin {"idle", "next"} =>
          run'[w].message \in Messages /\ body[run'[w].message] \in Events
    /\ run'[w].pc = "mark" => run'[w].result \in Results
    /\ \/ run'[w].processed = run[w].processed
       \/ /\ run'[w].processed = run[w].processed \cup {run[w].message}
          /\ run[w].message \in Messages /\ EventOf(w) \in Events
          /\ status'[EventOf(w)] = "accepted_by_smtp"

LEMMA Answers ==
    ASSUME TypeOK, NEW w \in Workers, InHand(w), run[w].pc \notin {"idle", "next"},
           NEW outcome, Answer(w, outcome),
           outcome = "processed" => status'[EventOf(w)] = "accepted_by_smtp"
    PROVE  Progress(w)
<1>0. /\ run \in [Workers -> Run] /\ run[w] \in Run
      /\ run[w].message \in Messages /\ EventOf(w) \in Events
  BY DEF TypeOK, InHand, EventOf
<1> DEFINE done == IF outcome = "processed" THEN run[w].processed \cup {run[w].message}
                   ELSE run[w].processed
<1>1. /\ run'[w] = [run[w] EXCEPT !.pc = "next", !.message = NoMessage,
                                  !.result = "none", !.processed = done]
      /\ \A v \in Workers \ {w} : run'[v] = run[v]
      /\ run' = [run EXCEPT ![w] = run'[w]]
  BY <1>0 DEF Answer
<1>2. done \in SUBSET Messages
  BY <1>0 DEF Run
<1>3. /\ run'[w].pc = "next" /\ run'[w].message = NoMessage
      /\ run'[w].processed = done
      /\ run'[w].age = run[w].age /\ run'[w].batch = run[w].batch
      /\ run'[w].todo = run[w].todo
      /\ run'[w] \in Run
  BY <1>0, <1>1, <1>2 DEF Run
<1>4. run' \in [Workers -> Run]
  BY <1>0, <1>1, <1>3
<1>5. CASE outcome = "processed"
  BY <1>0, <1>1, <1>3, <1>4, <1>5 DEF Progress
<1>6. CASE outcome # "processed"
  BY <1>0, <1>1, <1>3, <1>4, <1>6 DEF Progress
<1> QED
  BY <1>5, <1>6

\* A step from one part of process to the next.
LEMMA GoesOn ==
    ASSUME TypeOK, NEW w \in Workers, InHand(w), run[w].pc \notin {"idle", "next"},
           NEW s \in {"attempt", "send", "mark"}, NEW result \in Results \cup {"none"},
           s = "mark" => result \in Results,
           run' = [run EXCEPT ![w].pc = s, ![w].result = result]
    PROVE  Progress(w)
<1>0. /\ run \in [Workers -> Run] /\ run[w] \in Run
      /\ run[w].message \in Messages /\ EventOf(w) \in Events
  BY DEF TypeOK, InHand, EventOf
<1>1. /\ run'[w] = [run[w] EXCEPT !.pc = s, !.result = result]
      /\ \A v \in Workers \ {w} : run'[v] = run[v]
      /\ run' = [run EXCEPT ![w] = run'[w]]
  BY <1>0
<1>2. /\ run'[w].pc = s /\ run'[w].message = run[w].message /\ run'[w].result = result
      /\ run'[w].processed = run[w].processed
      /\ run'[w].age = run[w].age /\ run'[w].batch = run[w].batch
      /\ run'[w].todo = run[w].todo
      /\ run'[w] \in Run
  BY <1>0, <1>1 DEF Run
<1>3. run' \in [Workers -> Run]
  BY <1>0, <1>1, <1>2
<1> QED
  BY <1>0, <1>1, <1>2, <1>3 DEF Progress, EventOf

LEMMA TakesNext ==
    ASSUME TypeOK, NEW w \in Workers, InHand(w), NEW m \in Messages, Take(w, m)
    PROVE  Progress(w)
<1>0. /\ run \in [Workers -> Run] /\ run[w] \in Run /\ run[w].pc = "next"
      /\ m \in run[w].todo
  BY DEF TypeOK, Take
<1>1. CASE body[m] \in Events
  <2>1. /\ run'[w] = [run[w] EXCEPT !.pc = "prepare", !.message = m, !.todo = @ \ {m}]
        /\ \A v \in Workers \ {w} : run'[v] = run[v]
        /\ run' = [run EXCEPT ![w] = run'[w]]
    BY <1>0, <1>1 DEF Take, Usable
  <2>2. /\ run'[w].pc = "prepare" /\ run'[w].message = m
        /\ run'[w].processed = run[w].processed
        /\ run'[w].age = run[w].age /\ run'[w].batch = run[w].batch
        /\ run'[w].todo = run[w].todo \ {m}
        /\ run'[w] \in Run
    BY <1>0, <2>1 DEF Run
  <2>3. run' \in [Workers -> Run]
    BY <1>0, <2>1, <2>2
  <2> QED
    BY <1>0, <1>1, <2>1, <2>2, <2>3 DEF Progress
<1>2. CASE body[m] \notin Events
  <2>1. /\ run'[w] = [run[w] EXCEPT !.todo = @ \ {m}]
        /\ \A v \in Workers \ {w} : run'[v] = run[v]
        /\ run' = [run EXCEPT ![w] = run'[w]]
    BY <1>0, <1>2 DEF Take, Usable
  <2>2. /\ run'[w].pc = "next" /\ run'[w].message = run[w].message
        /\ run'[w].processed = run[w].processed
        /\ run'[w].age = run[w].age /\ run'[w].batch = run[w].batch
        /\ run'[w].todo = run[w].todo \ {m}
        /\ run'[w] \in Run
    BY <1>0, <2>1 DEF Run
  <2>3. run' \in [Workers -> Run]
    BY <1>0, <2>1, <2>2
  <2> QED
    BY <1>0, <2>1, <2>2, <2>3 DEF Progress
<1> QED
  BY <1>1, <1>2

\* What an invocation that goes on keeps.
LEMMA ProgressKeeps ==
    ASSUME TypeOK, NEW w \in Workers, InHand(w), Hidden(w), Processed(w),
           AcceptedStays, Progress(w), UNCHANGED <<body, queue>>
    PROVE  InHand(w)' /\ Hidden(w)' /\ Processed(w)'
<1>1. InHand(w)'
  <2>1. /\ run'[w].pc # "idle" /\ run'[w].batch = run[w].batch
        /\ run'[w].todo \subseteq run[w].batch
        /\ run'[w].message \in run[w].batch \cup {NoMessage}
        /\ run'[w].pc \notin {"idle", "next"} =>
              run'[w].message \in Messages /\ body'[run'[w].message] \in Events
        /\ run'[w].pc = "mark" => run'[w].result \in Results
    BY DEF Progress, InHand
  <2>2. run[w].message \in Messages => run[w].message \in run[w].batch
    BY NamesAssumption DEF InHand
  <2>3. run'[w].processed \subseteq run[w].batch
    BY <2>2 DEF Progress, InHand
  <2> QED
    BY <2>1, <2>3 DEF InHand
<1>2. Hidden(w)'
  BY DEF Progress, Hidden, queue
<1>3. Processed(w)'
  <2>1. \A m \in run[w].processed :
           body[m] \in Events /\ status'[body[m]] = "accepted_by_smtp"
    BY DEF Processed, AcceptedStays
  <2>2. CASE run'[w].processed = run[w].processed
    BY <2>1, <2>2 DEF Processed
  <2>3. CASE /\ run'[w].processed = run[w].processed \cup {run[w].message}
             /\ EventOf(w) \in Events /\ status'[EventOf(w)] = "accepted_by_smtp"
    BY <2>1, <2>3 DEF Processed, EventOf
  <2> QED
    BY <2>2, <2>3 DEF Progress
<1> QED
  BY <1>1, <1>2, <1>3

\* Every part of the handler but the response.
LEMMA HandlerStep ==
    ASSUME TypeOK, NEW w \in Workers, InHand(w), Handle(w), ~Report(w)
    PROVE  /\ Progress(w) /\ UNCHANGED <<body, queue>>
           /\ LedgerTypes' /\ AcceptedStays
           /\ lease' \in [Events -> NoLease..Lease]
           /\ spoiled' \in SUBSET Messages
<1> DEFINE e == EventOf(w)
<1>0. /\ run[w] \in Run /\ spoiled \in SUBSET Messages
      /\ run[w].age \in 0..Timeout
      /\ lease \in [Events -> NoLease..Lease]
      /\ run[w].pc \notin {"idle", "next"} => run[w].message \in Messages /\ e \in Events
  BY DEF TypeOK, InHand, EventOf, Run
<1>1. ASSUME Spoil(w), run[w].pc \notin {"idle", "next"} PROVE spoiled' \in SUBSET Messages
  BY <1>0, <1>1 DEF Spoil
<1>2. ASSUME LeaseFollowsRecord(e), run[w].pc \notin {"idle", "next"}
      PROVE  lease' \in [Events -> NoLease..Lease]
  <2>1. NoLease \in NoLease..Lease
    BY Sizes DEF NoLease
  <2> QED
    BY <1>0, <1>2, <2>1 DEF LeaseFollowsRecord
<1>3. ASSUME Answer(w, "retry"), run[w].pc \notin {"idle", "next"} PROVE Progress(w)
  BY <1>3, Answers
<1>4. CASE \E m \in Messages : Take(w, m)
  BY <1>0, <1>4, TakesNext, LedgerStays DEF Take, Usable
<1>5. CASE Sweep(w)
  <2>1. /\ run[w].pc \notin {"idle", "next"} /\ LedgerMove(e)
        /\ LeaseFollowsRecord(e) /\ Answer(w, "retry") /\ Spoil(w)
        /\ UNCHANGED <<body, queue>>
    BY <1>5 DEF Sweep, LedgerMove
  <2> QED
    BY <1>0, <1>1, <1>2, <1>3, <2>1, LedgerMoves
<1>6. CASE Prepare(w)
  <2>1. /\ run[w].pc = "prepare" /\ (LedgerMove(e) \/ UNCHANGED ledger)
        /\ run' = [run EXCEPT ![w].pc = "attempt"]
        /\ UNCHANGED <<lease, body, queue, spoiled>>
    BY <1>6 DEF Prepare, LedgerMove
  <2>2. run' = [run EXCEPT ![w].pc = "attempt", ![w].result = run[w].result]
    BY <1>0, <2>1 DEF TypeOK, Run
  <2>3. run[w].result \in Results \cup {"none"}
    BY <1>0 DEF Run
  <2>4. Progress(w)
    BY <2>1, <2>2, <2>3, GoesOn
  <2> QED
    BY <1>0, <2>1, <2>4, LedgerMoves, LedgerStays
<1>7. CASE TurnAway(w)
  <2>1. /\ run[w].pc \notin {"idle", "next"} /\ UNCHANGED ledger
        /\ Answer(w, OutcomeOf(status[e])) /\ Spoil(w)
        /\ UNCHANGED <<lease, body, queue>>
    BY <1>7 DEF TurnAway
  <2>2. OutcomeOf(status[e]) = "processed" => status'[e] = "accepted_by_smtp"
    BY <2>1 DEF OutcomeOf, ledger
  <2>3. Progress(w)
    BY <2>1, <2>2, Answers
  <2> QED
    BY <1>0, <1>1, <2>1, <2>3, LedgerStays
<1>8. CASE Postpone(w) \/ MarkConflict(w)
  <2>1. /\ run[w].pc \notin {"idle", "next"} /\ UNCHANGED ledger
        /\ Answer(w, "retry") /\ Spoil(w)
        /\ UNCHANGED <<lease, body, queue>>
    BY <1>8 DEF Postpone, MarkConflict
  <2> QED
    BY <1>0, <1>1, <1>3, <2>1, LedgerStays
<1>9. CASE FailCheck(w)
  <2>1. /\ run[w].pc \notin {"idle", "next"} /\ LedgerMove(e)
        /\ LeaseFollowsRecord(e) /\ Answer(w, "retry") /\ Spoil(w)
        /\ UNCHANGED <<body, queue>>
    BY <1>9 DEF FailCheck, LedgerMove
  <2> QED
    BY <1>0, <1>1, <1>2, <1>3, <2>1, LedgerMoves
<1>10. CASE Claim(w)
  <2>1. /\ run[w].pc = "attempt" /\ LedgerMove(e)
        /\ lease' = [lease EXCEPT ![e] = Lease - run[w].age]
        /\ UNCHANGED <<body, queue>>
        /\ \/ run' = [run EXCEPT ![w].pc = "send"] /\ UNCHANGED spoiled
           \/ Answer(w, "retry") /\ Spoil(w)
    BY <1>10 DEF Claim, LedgerMove
  <2>2. Lease - run[w].age \in NoLease..Lease
    BY <1>0, Sizes DEF NoLease
  <2>3. lease' \in [Events -> NoLease..Lease]
    BY <1>0, <2>1, <2>2
  <2>4. CASE run' = [run EXCEPT ![w].pc = "send"] /\ UNCHANGED spoiled
    <3>1. run' = [run EXCEPT ![w].pc = "send", ![w].result = run[w].result]
      BY <1>0, <2>4 DEF TypeOK, Run
    <3>2. run[w].result \in Results \cup {"none"}
      BY <1>0 DEF Run
    <3>3. Progress(w)
      BY <2>1, <3>1, <3>2, GoesOn
    <3> QED
      BY <1>0, <2>1, <2>3, <2>4, <3>3, LedgerMoves
  <2>5. CASE Answer(w, "retry") /\ Spoil(w)
    BY <1>0, <1>1, <1>3, <2>1, <2>3, <2>5, LedgerMoves
  <2> QED
    BY <2>1, <2>4, <2>5
<1>11. CASE Send(w)
  <2>1. /\ run[w].pc = "send" /\ LedgerMove(e)
        /\ UNCHANGED <<lease, body, queue, spoiled>>
    BY <1>11 DEF Send, LedgerMove
  <2>2. PICK result \in Results : run' = [run EXCEPT ![w].pc = "mark", ![w].result = result]
    BY <1>11 DEF Send, Results
  <2>3. Progress(w)
    BY <2>1, <2>2, GoesOn
  <2> QED
    BY <1>0, <2>1, <2>3, LedgerMoves
<1>12. CASE Mark(w)
  <2>1. /\ run[w].pc = "mark" /\ MarkUpdate(e, run[w].result)
        /\ LeaseFollowsRecord(e) /\ UNCHANGED <<body, queue, spoiled>>
    BY <1>12 DEF Mark
  <2>2. PICK outcome \in {"retry", OutcomeOf(status'[e])} : Answer(w, outcome)
    BY <1>12 DEF Mark
  <2>3. Progress(w)
    BY <2>1, <2>2, Answers DEF OutcomeOf
  <2>4. run[w].result \in Results
    BY <2>1 DEF InHand
  <2>5. LedgerMove(e)
    BY <2>1, <2>4 DEF MarkUpdate, Results, LedgerMove
  <2> QED
    BY <1>0, <1>2, <2>1, <2>3, <2>5, LedgerMoves
<1> QED
  BY <1>4, <1>5, <1>6, <1>7, <1>8, <1>9, <1>10, <1>11, <1>11, <1>12 DEF Handle

(***************************************************************************)
(* The invariant, step by step.                                            *)
(***************************************************************************)

\* What a message in hand means for the queue.
LEMMA HiddenInHand ==
    ASSUME TypeOK, NEW w \in Workers, Hidden(w), NEW m \in run[w].batch
    PROVE  /\ m \in Messages /\ ~Visible(m) /\ place[m] = "queue"
           /\ hidden[m] \in Nat /\ run[w].age \in 0..Timeout
           /\ hidden[m] >= Visibility - run[w].age /\ hidden[m] > 0
<1>1. /\ m \in Messages /\ run[w].age \in 0..Timeout /\ hidden[m] \in Nat
  BY DEF TypeOK, Run
<1>2. Visibility - run[w].age > 0
  BY <1>1, Sizes, VisibilityOutlivesLease
<1> QED
  BY <1>1, <1>2, Sizes DEF Hidden, Visible

LEMMA HandleStep ==
    ASSUME QInv, NEW w \in Workers, Handle(w), ~Report(w)
    PROVE  QInv'
<1>0. TypeOK /\ InHand(w) /\ Hidden(w) /\ Processed(w)
  BY DEF QInv
<1>1. /\ Progress(w) /\ UNCHANGED <<body, queue>>
      /\ LedgerTypes' /\ AcceptedStays
      /\ lease' \in [Events -> NoLease..Lease] /\ spoiled' \in SUBSET Messages
  BY <1>0, HandlerStep
<1>2. TypeOK'
  BY <1>0, <1>1 DEF TypeOK, LedgerTypes, Progress, queue
<1>3. InHand(w)' /\ Hidden(w)' /\ Processed(w)'
  BY <1>0, <1>1, ProgressKeeps
<1>4. ASSUME NEW v \in Workers \ {w} PROVE InHand(v)' /\ Hidden(v)' /\ Processed(v)'
  <2>1. run'[v] = run[v] /\ UNCHANGED <<body, place, hidden>>
    BY <1>1 DEF Progress, queue
  <2> QED
    BY <1>1, <2>1 DEF QInv, InHand, Hidden, Processed, AcceptedStays
<1>5. OneInvocationPerMessage'
  BY <1>1 DEF QInv, OneInvocationPerMessage, Progress
<1>6. DeletedMeansAccepted'
  BY <1>1 DEF QInv, DeletedMeansAccepted, AcceptedStays, queue
<1> QED
  BY <1>2, <1>3, <1>4, <1>5, <1>6 DEF QInv

\* An invocation that ends has nothing in hand any more.
LEMMA IdleHolds ==
    ASSUME NEW w \in Workers, run'[w] = Idle
    PROVE  InHand(w)' /\ Hidden(w)' /\ Processed(w)'
  BY DEF Idle, InHand, Hidden, Processed

LEMMA IdleRun == Idle \in Run
  BY Sizes DEF Idle, Run

LEMMA ReportStep ==
    ASSUME QInv, NEW w \in Workers, Report(w)
    PROVE  QInv'
<1>0. /\ TypeOK /\ InHand(w) /\ Hidden(w) /\ Processed(w)
      /\ run' = [run EXCEPT ![w] = Idle]
      /\ UNCHANGED <<ledger, lease, body, receives, hidden, spoiled>>
      /\ place' = [m \in Messages |-> IF m \in run[w].processed THEN "deleted" ELSE place[m]]
  BY DEF QInv, Report
<1>1. /\ run'[w] = Idle /\ \A v \in Workers \ {w} : run'[v] = run[v]
      /\ run' \in [Workers -> Run]
  BY <1>0, IdleRun DEF TypeOK
<1>2. place' \in [Messages -> {"queue", "deleted", "dead"}]
  BY <1>0 DEF TypeOK
<1>3. TypeOK'
  BY <1>0, <1>1, <1>2 DEF TypeOK, ledger
<1>4. ASSUME NEW v \in Workers \ {w} PROVE InHand(v)' /\ Hidden(v)' /\ Processed(v)'
  <2>1. \A m \in run[v].batch : m \in Messages /\ m \notin run[w].processed
    BY <1>0 DEF QInv, OneInvocationPerMessage, InHand, TypeOK, Run
  <2>2. \A m \in run[v].batch : place'[m] = place[m]
    BY <1>0, <2>1
  <2>3. run'[v] = run[v] /\ UNCHANGED <<body, hidden, status>>
    BY <1>0, <1>1 DEF ledger
  <2> QED
    BY <2>2, <2>3 DEF QInv, InHand, Hidden, Processed
<1>5. OneInvocationPerMessage'
  BY <1>1 DEF QInv, OneInvocationPerMessage, Idle
<1>6. DeletedMeansAccepted'
  BY <1>0 DEF QInv, DeletedMeansAccepted, Processed, ledger
<1> QED
  BY <1>1, <1>3, <1>4, <1>5, <1>6, IdleHolds DEF QInv

LEMMA StopStep ==
    ASSUME QInv, NEW w \in Workers, Stop(w)
    PROVE  QInv'
<1>0. /\ TypeOK /\ InHand(w)
      /\ run' = [run EXCEPT ![w] = Idle]
      /\ UNCHANGED <<lease, body, queue>>
      /\ spoiled' = spoiled \cup run[w].todo \cup ({run[w].message} \ {NoMessage})
  BY DEF QInv, Stop
<1>1. /\ run'[w] = Idle /\ \A v \in Workers \ {w} : run'[v] = run[v]
      /\ run' \in [Workers -> Run]
  BY <1>0, IdleRun DEF TypeOK
<1>2. LedgerTypes' /\ AcceptedStays
  <2>1. CASE UNCHANGED ledger
    BY <1>0, <2>1, LedgerStays
  <2>2. CASE run[w].pc = "send" /\ Ledger!Conclude(EventOf(w))
    <3>1. EventOf(w) \in Events
      BY <1>0, <2>2 DEF InHand, EventOf
    <3> QED
      BY <1>0, <2>2, <3>1, LedgerMoves DEF LedgerMove
  <2> QED
    BY <2>1, <2>2 DEF Stop
<1>3. spoiled' \in SUBSET Messages
  <2>1. run[w].todo \in SUBSET Messages /\ run[w].message \in Messages \cup {NoMessage}
    BY <1>0 DEF TypeOK, Run
  <2> QED
    BY <1>0, <2>1 DEF TypeOK
<1>4. TypeOK'
  BY <1>0, <1>1, <1>2, <1>3 DEF TypeOK, LedgerTypes, queue
<1>5. ASSUME NEW v \in Workers \ {w} PROVE InHand(v)' /\ Hidden(v)' /\ Processed(v)'
  <2>1. run'[v] = run[v] /\ UNCHANGED <<body, place, hidden>>
    BY <1>0, <1>1 DEF queue
  <2> QED
    BY <1>2, <2>1 DEF QInv, InHand, Hidden, Processed, AcceptedStays
<1>6. OneInvocationPerMessage'
  BY <1>1 DEF QInv, OneInvocationPerMessage, Idle
<1>7. DeletedMeansAccepted'
  BY <1>0, <1>2 DEF QInv, DeletedMeansAccepted, AcceptedStays, queue
<1> QED
  BY <1>1, <1>4, <1>5, <1>6, <1>7, IdleHolds DEF QInv

LEMMA ReceiveStep ==
    ASSUME QInv, NEW w \in Workers, NEW batch \in SUBSET Messages, Receive(w, batch)
    PROVE  QInv'
<1> DEFINE r == [Idle EXCEPT !.pc = "next", !.batch = batch, !.todo = batch]
<1>0. /\ TypeOK /\ run[w].pc = "idle"
      /\ \A m \in batch : Visible(m) /\ receives[m] < MaxReceives
      /\ receives' = [m \in Messages |-> receives[m] + IF m \in batch THEN 1 ELSE 0]
      /\ hidden' = [m \in Messages |-> IF m \in batch THEN Visibility ELSE hidden[m]]
      /\ run' = [run EXCEPT ![w] = r]
      /\ UNCHANGED <<ledger, lease, body, place, spoiled>>
  BY DEF QInv, Receive, HiddenFor
<1>1. /\ r.pc = "next" /\ r.batch = batch /\ r.todo = batch /\ r.age = 0
      /\ r.processed = {} /\ r.message = NoMessage /\ r \in Run
  BY IdleRun, Sizes DEF Idle, Run
<1>2. /\ run'[w] = r /\ \A v \in Workers \ {w} : run'[v] = run[v]
      /\ run' \in [Workers -> Run]
  BY <1>0, <1>1 DEF TypeOK
<1>3. receives' \in [Messages -> 0..MaxReceives]
  <2>1. \A m \in Messages : receives[m] \in 0..MaxReceives
    BY <1>0 DEF TypeOK
  <2>2. ASSUME NEW m \in Messages PROVE receives'[m] \in 0..MaxReceives
    <3>1. CASE m \in batch
      BY <1>0, <2>1, <3>1, Sizes
    <3>2. CASE m \notin batch
      BY <1>0, <2>1, <3>2, Sizes
    <3> QED
      BY <3>1, <3>2
  <2> QED
    BY <1>0, <2>2
<1>4. hidden' \in [Messages -> 0..Visibility]
  BY <1>0, Sizes DEF TypeOK
<1>5. TypeOK'
  BY <1>0, <1>2, <1>3, <1>4 DEF TypeOK, ledger
<1>6. InHand(w)' /\ Hidden(w)' /\ Processed(w)'
  <2>1. InHand(w)' /\ Processed(w)'
    BY <1>1, <1>2 DEF InHand, Processed
  <2>2. \A m \in batch : place'[m] = "queue" /\ hidden'[m] = Visibility
    BY <1>0 DEF Visible
  <2> QED
    BY <1>1, <1>2, <2>1, <2>2, Sizes DEF Hidden
<1>7. \A v \in Workers : run[v].batch \cap batch = {}
  BY <1>0, HiddenInHand DEF QInv
<1>8. ASSUME NEW v \in Workers \ {w} PROVE InHand(v)' /\ Hidden(v)' /\ Processed(v)'
  <2>1. run'[v] = run[v] /\ UNCHANGED <<body, place, status>>
    BY <1>0, <1>2 DEF ledger
  <2>2. \A m \in run[v].batch : m \in Messages /\ m \notin batch
    BY <1>0, <1>7 DEF TypeOK, Run
  <2>3. \A m \in run[v].batch : hidden'[m] = hidden[m]
    BY <1>0, <2>2
  <2> QED
    BY <2>1, <2>3 DEF QInv, InHand, Hidden, Processed
<1>9. OneInvocationPerMessage'
  BY <1>1, <1>2, <1>7 DEF QInv, OneInvocationPerMessage
<1>10. DeletedMeansAccepted'
  BY <1>0 DEF QInv, DeletedMeansAccepted, ledger
<1> QED
  BY <1>5, <1>6, <1>8, <1>9, <1>10 DEF QInv

LEMMA TickStep == QInv /\ Tick => QInv'
<1> SUFFICES ASSUME QInv, Tick PROVE QInv'
  OBVIOUS
<1>0. /\ TypeOK /\ UNCHANGED <<ledger, body, place, receives, spoiled>>
      /\ \A w \in Workers : run[w].pc # "idle" => run[w].age < Timeout
      /\ run' = [w \in Workers |-> IF run[w].pc = "idle" THEN run[w]
                                    ELSE [run[w] EXCEPT !.age = @ + 1]]
      /\ hidden' = [m \in Messages |-> IF hidden[m] > 0 THEN hidden[m] - 1 ELSE 0]
      /\ lease' = [e \in Events |-> IF lease[e] > NoLease THEN lease[e] - 1 ELSE NoLease]
  BY DEF QInv, Tick
<1>1. ASSUME NEW w \in Workers
      PROVE  /\ run'[w] \in Run
             /\ run'[w].pc = run[w].pc /\ run'[w].batch = run[w].batch
             /\ run'[w].todo = run[w].todo /\ run'[w].processed = run[w].processed
             /\ run'[w].message = run[w].message /\ run'[w].result = run[w].result
             /\ run[w].pc = "idle" => run'[w] = run[w]
             /\ run[w].pc # "idle" => run'[w].age = run[w].age + 1
  <2>1. run[w] \in Run
    BY <1>0 DEF TypeOK
  <2>2. CASE run[w].pc = "idle"
    BY <1>0, <2>1, <2>2
  <2>3. CASE run[w].pc # "idle"
    <3>1. run'[w] = [run[w] EXCEPT !.age = @ + 1] /\ run[w].age < Timeout
      BY <1>0, <2>3
    <3>2. run[w].age + 1 \in 0..Timeout
      BY <2>1, <3>1, Sizes DEF Run
    <3> QED
      BY <2>1, <2>3, <3>1, <3>2 DEF Run
  <2> QED
    BY <2>2, <2>3
<1>2. run' \in [Workers -> Run]
  BY <1>0, <1>1
<1>3. hidden' \in [Messages -> 0..Visibility]
  <2>1. ASSUME NEW m \in Messages PROVE hidden'[m] \in 0..Visibility
    <3>1. hidden[m] \in 0..Visibility
      BY <1>0 DEF TypeOK
    <3> QED
      BY <1>0, <3>1, Sizes
  <2> QED
    BY <1>0, <2>1
<1>4. lease' \in [Events -> NoLease..Lease]
  <2>1. ASSUME NEW e \in Events PROVE lease'[e] \in NoLease..Lease
    <3>1. lease[e] \in NoLease..Lease /\ NoLease \in Int /\ NoLease <= 0
      BY <1>0, Sizes DEF TypeOK, NoLease
    <3> QED
      BY <1>0, <3>1, Sizes
  <2> QED
    BY <1>0, <2>1
<1>5. TypeOK'
  BY <1>0, <1>2, <1>3, <1>4 DEF TypeOK, ledger
<1>6. ASSUME NEW w \in Workers PROVE InHand(w)' /\ Hidden(w)' /\ Processed(w)'
  <2>0. InHand(w) /\ Hidden(w) /\ Processed(w) /\ run[w] \in Run
    BY <1>0 DEF QInv, TypeOK
  <2>1. InHand(w)'
    BY <1>0, <1>1, <2>0 DEF InHand
  <2>2. Processed(w)'
    BY <1>0, <1>1, <2>0 DEF Processed, ledger
  <2>3. ASSUME NEW m \in run[w].batch
        PROVE  place'[m] = "queue" /\ hidden'[m] >= Visibility - run'[w].age
    <3>1. /\ m \in Messages /\ place[m] = "queue" /\ hidden[m] \in Nat
          /\ hidden[m] >= Visibility - run[w].age /\ hidden[m] > 0
          /\ run[w].age \in 0..Timeout
      BY <1>0, <2>0, <2>3, HiddenInHand
    <3>2. run[w].pc # "idle"
      BY <2>0, <2>3 DEF InHand, Idle
    <3>3. hidden'[m] = hidden[m] - 1 /\ run'[w].age = run[w].age + 1
      BY <1>0, <1>1, <3>1, <3>2
    <3> QED
      BY <1>0, <3>1, <3>3, Sizes
  <2>4. Hidden(w)'
    BY <1>1, <2>3 DEF Hidden
  <2> QED
    BY <2>1, <2>2, <2>4
<1>7. OneInvocationPerMessage'
  BY <1>1 DEF QInv, OneInvocationPerMessage
<1>8. DeletedMeansAccepted'
  BY <1>0 DEF QInv, DeletedMeansAccepted, ledger
<1> QED
  BY <1>5, <1>6, <1>7, <1>8 DEF QInv

LEMMA DeadLetterStep ==
    ASSUME QInv, NEW d \in Messages, DeadLetter(d)
    PROVE  QInv'
<1>0. /\ TypeOK /\ Visible(d) /\ place' = [place EXCEPT ![d] = "dead"]
      /\ UNCHANGED <<ledger, lease, body, receives, hidden, run, spoiled>>
  BY DEF QInv, DeadLetter
<1>1. TypeOK'
  BY <1>0 DEF TypeOK, ledger
<1>2. ASSUME NEW w \in Workers PROVE InHand(w)' /\ Hidden(w)' /\ Processed(w)'
  <2>1. \A m \in run[w].batch : m \in Messages /\ m # d
    BY <1>0, HiddenInHand DEF QInv
  <2>2. \A m \in run[w].batch : place'[m] = place[m]
    BY <1>0, <2>1 DEF TypeOK
  <2> QED
    BY <1>0, <2>2 DEF QInv, InHand, Hidden, Processed, ledger
<1>3. OneInvocationPerMessage'
  BY <1>0 DEF QInv, OneInvocationPerMessage
<1>4. DeletedMeansAccepted'
  BY <1>0 DEF QInv, DeletedMeansAccepted, ledger, TypeOK
<1> QED
  BY <1>1, <1>2, <1>3, <1>4 DEF QInv

LEMMA ReconcileStep ==
    ASSUME QInv, NEW e \in Events, Reconcile(e)
    PROVE  QInv'
<1>0. /\ TypeOK /\ UNCHANGED <<lease, body, queue, run, spoiled>>
  BY DEF QInv, Reconcile
<1>1. LedgerTypes' /\ AcceptedStays
  BY <1>0, LedgerMoves DEF Reconcile, LedgerMove
<1>2. TypeOK'
  BY <1>0, <1>1 DEF TypeOK, LedgerTypes, queue
<1>3. \A w \in Workers : InHand(w)' /\ Hidden(w)' /\ Processed(w)'
  BY <1>0, <1>1 DEF QInv, InHand, Hidden, Processed, AcceptedStays, queue
<1>4. OneInvocationPerMessage' /\ DeletedMeansAccepted'
  BY <1>0, <1>1 DEF QInv, OneInvocationPerMessage, DeletedMeansAccepted, AcceptedStays, queue
<1> QED
  BY <1>2, <1>3, <1>4 DEF QInv

LEMMA QueueStep == QInv /\ [Next]_vars => QInv'
<1>1. QInv /\ UNCHANGED vars => QInv'
  BY DEF vars, ledger, queue, QInv, TypeOK, InHand, Hidden, Processed,
         OneInvocationPerMessage, DeletedMeansAccepted
<1> QED
  BY <1>1, HandleStep, ReportStep, StopStep, ReceiveStep, TickStep, DeadLetterStep,
     ReconcileStep DEF Next

LEMMA QueueInit == Init => QInv
<1> SUFFICES ASSUME Init PROVE QInv
  OBVIOUS
<1>1. TypeOK
  <2>1. 0 \in 0..Budget /\ 0 \in 0..MaxReceives /\ 0 \in 0..Visibility
        /\ NoLease \in NoLease..Lease /\ 1 \in Nat
    BY Sizes DEF NoLease
  <2> QED
    BY <2>1, IdleRun DEF Init, Ledger!Init, TypeOK
<1>2. \A w \in Workers : InHand(w) /\ Hidden(w) /\ Processed(w)
  BY DEF Init, Idle, InHand, Hidden, Processed
<1> QED
  BY <1>1, <1>2 DEF QInv, Init, Idle, OneInvocationPerMessage, DeletedMeansAccepted

\* The invariant holds throughout: what is in hand is hidden, what was called
\* processed was accepted, and no two invocations share a message.
THEOREM QueueInvariance == Spec => []QInv
  BY QueueInit, QueueStep, PTL DEF Spec

(***************************************************************************)
(* What a step of the handler does, for the invariants that follow: where    *)
(* the message in hand goes, and what becomes of its record.                *)
(***************************************************************************)

\* The messages of a batch that the handler has not finished preparing.
Ahead(w) ==
    run[w].todo \cup {m \in {run[w].message} : run[w].pc \in {"prepare", "attempt"}}

\* The invocation goes on with the message it has, or is done with it, or takes
\* up another.
StepsOn(w, from, to) ==
    /\ run[w].pc = from /\ run'[w].pc = to
    /\ run'[w].message = run[w].message /\ run'[w].todo = run[w].todo

IsDone(w) ==
    /\ run[w].pc \in {"prepare", "attempt", "send", "mark"} /\ run'[w].pc = "next"
    /\ run'[w].message = NoMessage /\ run'[w].todo = run[w].todo

TakesUp(w) ==
    /\ run[w].pc = "next"
    /\ \E m \in run[w].todo :
          /\ run'[w].todo = run[w].todo \ {m}
          /\ \/ body[m] \in Events /\ run'[w].pc = "prepare" /\ run'[w].message = m
             \/ /\ body[m] \notin Events /\ run'[w].pc = "next"
                /\ run'[w].message = run[w].message

\* The record keeps its state, or is moved out of an attempt, or an attempt
\* starts.
Stands == UNCHANGED <<status, attempts>>

Freed(e) ==
    /\ attempts' = attempts
    /\ \E s \in {"prepared", "uncertain", "accepted_by_smtp", "failed"} :
          /\ status' = [status EXCEPT ![e] = s]
          /\ s = "prepared" => status[e] = "absent" \/ attempts[e] < Budget

Attempted(e) ==
    /\ status[e] = "prepared" /\ status' = [status EXCEPT ![e] = "sending"]
    /\ attempts' = [attempts EXCEPT ![e] = @ + 1]

\* Leases stand, but for some that are over.
LeasesEnd == \A e \in Events : lease'[e] \in {lease[e], NoLease}

HandlerKinds(w) ==
    LET e == EventOf(w) IN
    \/ TakesUp(w) /\ Stands /\ UNCHANGED <<lease, spoiled>>
    \/ /\ StepsOn(w, "prepare", "attempt") /\ UNCHANGED <<lease, spoiled>>
       /\ Stands \/ Freed(e)
    \/ /\ IsDone(w) /\ Spoil(w) /\ LeasesEnd
       /\ Stands \/ Freed(e)
    \/ /\ run[w].pc = "attempt" /\ Attempted(e)
       /\ lease' = [lease EXCEPT ![e] = Lease - run[w].age]
       /\ \/ StepsOn(w, "attempt", "send") /\ UNCHANGED spoiled
          \/ IsDone(w) /\ Spoil(w)
    \/ StepsOn(w, "send", "mark") /\ Stands /\ UNCHANGED <<lease, spoiled>>
    \/ IsDone(w) /\ run[w].pc = "mark" /\ Freed(e) /\ LeasesEnd /\ UNCHANGED spoiled

LEMMA AnswerIsDone ==
    ASSUME TypeOK, NEW w \in Workers, NEW outcome, Answer(w, outcome),
           run[w].pc \in {"prepare", "attempt", "send", "mark"}
    PROVE  IsDone(w)
<1> DEFINE done == IF outcome = "processed" THEN run[w].processed \cup {run[w].message}
                   ELSE run[w].processed
<1>1. run[w] \in Run /\ run \in [Workers -> Run]
  BY DEF TypeOK
<1>2. run'[w] = [run[w] EXCEPT !.pc = "next", !.message = NoMessage,
                               !.result = "none", !.processed = done]
  BY <1>1 DEF Answer
<1> QED
  BY <1>1, <1>2 DEF IsDone, Run

LEMMA LedgerFrees ==
    ASSUME NEW e \in Events
    PROVE  /\ Ledger!Register(e) \/ Ledger!Settle(e) \/ Ledger!Fail(e) \/ Ledger!Confirm(e)
                \/ Ledger!Authorise(e) => Freed(e)
           /\ Ledger!Retry(e) /\ HasBudget(e) => Freed(e)
           /\ Ledger!Conclude(e) => Stands
           /\ Ledger!Attempt(e) => Attempted(e)
  BY DEF Ledger!Register, Ledger!Settle, Ledger!Fail, Ledger!Confirm, Ledger!Authorise,
         Ledger!Retry, Ledger!Conclude, Ledger!Attempt, Ledger!Become,
         HasBudget, Freed, Stands, Attempted

LEMMA LeaseEndsWithRecord ==
    ASSUME TypeOK, NEW e \in Events, LeaseFollowsRecord(e)
    PROVE  LeasesEnd
  BY DEF TypeOK, LeaseFollowsRecord, LeasesEnd

LEMMA HandlerIsOfAKind ==
    ASSUME TypeOK, NEW w \in Workers, InHand(w), Handle(w), ~Report(w)
    PROVE  HandlerKinds(w)
<1> DEFINE e == EventOf(w)
<1>0. /\ run[w] \in Run /\ run \in [Workers -> Run]
      /\ run[w].pc \notin {"idle", "next"} => e \in Events
  BY DEF TypeOK, InHand, EventOf
<1>2. CASE \E m \in Messages : Take(w, m)
  <2>1. PICK m \in Messages : Take(w, m)
    BY <1>2
  <2>2. CASE body[m] \in Events
    <3>1. run'[w] = [run[w] EXCEPT !.pc = "prepare", !.message = m, !.todo = @ \ {m}]
      BY <1>0, <2>1, <2>2 DEF Take, Usable
    <3>2. /\ run'[w].pc = "prepare" /\ run'[w].message = m
          /\ run'[w].todo = run[w].todo \ {m}
      BY <1>0, <3>1 DEF Run
    <3> QED
      BY <2>1, <2>2, <3>2 DEF Take, HandlerKinds, TakesUp, Stands, ledger
  <2>3. CASE body[m] \notin Events
    <3>1. run'[w] = [run[w] EXCEPT !.todo = @ \ {m}]
      BY <1>0, <2>1, <2>3 DEF Take, Usable
    <3>2. /\ run'[w].pc = run[w].pc /\ run'[w].message = run[w].message
          /\ run'[w].todo = run[w].todo \ {m}
      BY <1>0, <3>1 DEF Run
    <3> QED
      BY <2>1, <2>3, <3>2 DEF Take, HandlerKinds, TakesUp, Stands, ledger
  <2> QED
    BY <2>2, <2>3
<1>3. CASE Sweep(w) \/ FailCheck(w)
  <2>1. /\ run[w].pc \in {"prepare", "attempt"} /\ Answer(w, "retry") /\ Spoil(w)
        /\ LeaseFollowsRecord(e) /\ (Ledger!Settle(e) \/ Ledger!Fail(e))
    BY <1>3 DEF Sweep, FailCheck
  <2>2. IsDone(w) /\ Freed(e) /\ LeasesEnd
    BY <1>0, <2>1, AnswerIsDone, LedgerFrees, LeaseEndsWithRecord
  <2> QED
    BY <2>1, <2>2 DEF HandlerKinds
<1>4. CASE Prepare(w)
  <2>1. /\ run[w].pc = "prepare" /\ run' = [run EXCEPT ![w].pc = "attempt"]
        /\ UNCHANGED <<lease, spoiled>>
        /\ Ledger!Register(e) \/ UNCHANGED ledger
    BY <1>4 DEF Prepare
  <2>2. StepsOn(w, "prepare", "attempt")
    BY <1>0, <2>1 DEF StepsOn, Run
  <2>3. Stands \/ Freed(e)
    BY <1>0, <2>1, LedgerFrees DEF Stands, ledger
  <2> QED
    BY <2>1, <2>2, <2>3 DEF HandlerKinds
<1>5. CASE TurnAway(w) \/ Postpone(w) \/ MarkConflict(w)
  <2>1. /\ run[w].pc \in {"prepare", "attempt", "mark"} /\ Spoil(w)
        /\ \E outcome \in {"processed", "retry"} : Answer(w, outcome)
        /\ UNCHANGED <<ledger, lease>>
    BY <1>5 DEF TurnAway, Postpone, MarkConflict, OutcomeOf
  <2>2. IsDone(w)
    BY <2>1, AnswerIsDone
  <2>3. Stands /\ LeasesEnd
    BY <2>1 DEF Stands, ledger, LeasesEnd
  <2> QED
    BY <2>1, <2>2, <2>3 DEF HandlerKinds
<1>6. CASE Claim(w)
  <2>1. /\ run[w].pc = "attempt" /\ Ledger!Attempt(e)
        /\ lease' = [lease EXCEPT ![e] = Lease - run[w].age]
        /\ \/ run' = [run EXCEPT ![w].pc = "send"] /\ UNCHANGED spoiled
           \/ Answer(w, "retry") /\ Spoil(w)
    BY <1>6 DEF Claim
  <2>2. Attempted(e)
    BY <1>0, <2>1, LedgerFrees
  <2>3. CASE run' = [run EXCEPT ![w].pc = "send"] /\ UNCHANGED spoiled
    <3>1. StepsOn(w, "attempt", "send")
      BY <1>0, <2>1, <2>3 DEF StepsOn, Run
    <3> QED
      BY <2>1, <2>2, <2>3, <3>1 DEF HandlerKinds
  <2>4. CASE Answer(w, "retry") /\ Spoil(w)
    <3>1. IsDone(w)
      BY <2>1, <2>4, AnswerIsDone
    <3> QED
      BY <2>1, <2>2, <2>4, <3>1 DEF HandlerKinds
  <2> QED
    BY <2>1, <2>3, <2>4
<1>7. CASE Send(w)
  <2>1. /\ run[w].pc = "send" /\ Ledger!Conclude(e) /\ UNCHANGED <<lease, spoiled>>
    BY <1>7 DEF Send
  <2>2. PICK result \in Results : run' = [run EXCEPT ![w].pc = "mark", ![w].result = result]
    BY <1>7 DEF Send, Results
  <2>3. StepsOn(w, "send", "mark")
    BY <1>0, <2>1, <2>2 DEF StepsOn, Run
  <2>4. Stands
    BY <1>0, <2>1, LedgerFrees
  <2> QED
    BY <2>1, <2>3, <2>4 DEF HandlerKinds
<1>8. CASE Mark(w)
  <2>1. /\ run[w].pc = "mark" /\ MarkUpdate(e, run[w].result)
        /\ LeaseFollowsRecord(e) /\ UNCHANGED spoiled
    BY <1>8 DEF Mark
  <2>2. PICK outcome \in {"retry", OutcomeOf(status'[e])} : Answer(w, outcome)
    BY <1>8 DEF Mark
  <2>3. IsDone(w)
    BY <2>1, <2>2, AnswerIsDone
  <2>4. run[w].result \in Results
    BY <2>1 DEF InHand
  <2>5. Ledger!Settle(e) \/ Ledger!Fail(e) \/ (Ledger!Retry(e) /\ HasBudget(e))
    BY <2>1, <2>4 DEF MarkUpdate, Results
  <2>6. Freed(e) /\ LeasesEnd
    BY <1>0, <2>1, <2>5, LedgerFrees, LeaseEndsWithRecord
  <2> QED
    BY <2>1, <2>3, <2>6 DEF HandlerKinds
<1> QED
  BY <1>2, <1>3, <1>4, <1>5, <1>6, <1>7, <1>8 DEF Handle

(***************************************************************************)
(* A message waits for its attempt in one invocation at most, and once.     *)
(***************************************************************************)

OnceAhead == \A w \in Workers : run[w].message \notin run[w].todo

IsAhead(m) == \E w \in Workers : m \in Ahead(w)

LEMMA AheadInBatch ==
    ASSUME QInv, NEW w \in Workers
    PROVE  Ahead(w) \subseteq run[w].batch
<1>1. InHand(w) /\ run[w].message \in Messages => run[w].message \in run[w].batch
  BY NamesAssumption DEF InHand
<1> QED
  BY <1>1 DEF QInv, InHand, Ahead

\* A visible message is in no batch.
LEMMA VisibleIsNowhere ==
    ASSUME QInv, NEW m \in Messages, Visible(m)
    PROVE  ~IsAhead(m) /\ \A w \in Workers : m \notin run[w].batch
<1>1. \A w \in Workers : m \notin run[w].batch
  BY HiddenInHand DEF QInv
<1> QED
  BY <1>1, AheadInBatch DEF IsAhead

\* What an invocation goes on with was ahead of it before.
LEMMA HandlerAhead ==
    ASSUME QInv, NEW w \in Workers, HandlerKinds(w), OnceAhead
    PROVE  Ahead(w)' \subseteq Ahead(w) /\ run'[w].message \notin run'[w].todo
<1>0. run[w].todo \subseteq Messages /\ run[w].message \notin run[w].todo
  BY DEF QInv, TypeOK, Run, OnceAhead
<1>1. CASE TakesUp(w)
  <2>1. PICK m \in run[w].todo :
          /\ run'[w].todo = run[w].todo \ {m}
          /\ \/ body[m] \in Events /\ run'[w].pc = "prepare" /\ run'[w].message = m
             \/ /\ body[m] \notin Events /\ run'[w].pc = "next"
                /\ run'[w].message = run[w].message
    BY <1>1 DEF TakesUp
  <2> QED
    BY <1>0, <2>1 DEF Ahead
<1>2. CASE \/ StepsOn(w, "prepare", "attempt") \/ StepsOn(w, "attempt", "send")
           \/ StepsOn(w, "send", "mark")
  BY <1>0, <1>2 DEF StepsOn, Ahead
<1>3. CASE IsDone(w)
  BY <1>0, <1>3, NamesAssumption DEF IsDone, Ahead
<1> QED
  BY <1>1, <1>2, <1>3 DEF HandlerKinds

\* An invocation that starts or ends.
LEMMA IdleAhead ==
    ASSUME NEW w \in Workers
    PROVE  /\ run'[w] = Idle => Ahead(w)' = {} /\ run'[w].message \notin run'[w].todo
           /\ run[w] = Idle => Ahead(w) = {}
  BY DEF Idle, Ahead

LEMMA ReceiveStarts ==
    ASSUME QInv, NEW w \in Workers, NEW batch \in SUBSET Messages, Receive(w, batch)
    PROVE  /\ run[w] = Idle /\ \A v \in Workers \ {w} : run'[v] = run[v]
           /\ run'[w].pc = "next" /\ run'[w].todo = batch
           /\ run'[w].message = NoMessage
           /\ Ahead(w) = {} /\ Ahead(w)' = batch
<1> DEFINE r == [Idle EXCEPT !.pc = "next", !.batch = batch, !.todo = batch]
<1>0. /\ run \in [Workers -> Run] /\ run[w] = Idle /\ run' = [run EXCEPT ![w] = r]
  BY DEF QInv, TypeOK, InHand, Receive
<1>1. r.pc = "next" /\ r.todo = batch /\ r.message = NoMessage
  BY DEF Idle
<1>2. run'[w] = r /\ \A v \in Workers \ {w} : run'[v] = run[v]
  BY <1>0
<1> QED
  BY <1>0, <1>1, <1>2, IdleAhead DEF Ahead

\* Time changes nothing an invocation has ahead.
LEMMA TickRuns ==
    ASSUME QInv, Tick, NEW w \in Workers
    PROVE  /\ run'[w].pc = run[w].pc /\ run'[w].todo = run[w].todo
           /\ run'[w].message = run[w].message
           /\ Ahead(w)' = Ahead(w)
<1>1. run[w] \in Run
  BY DEF QInv, TypeOK
<1>2. \/ run'[w] = run[w]
      \/ run'[w] = [run[w] EXCEPT !.age = @ + 1]
  BY DEF Tick
<1>3. /\ run'[w].pc = run[w].pc /\ run'[w].todo = run[w].todo
      /\ run'[w].message = run[w].message
  BY <1>1, <1>2 DEF Run
<1> QED
  BY <1>3 DEF Ahead

\* Who ends has its message and its batch behind it.
Ends(w) ==
    /\ run'[w] = Idle /\ \A v \in Workers \ {w} : run'[v] = run[v]
    /\ UNCHANGED <<status, attempts, lease, body, receives, hidden>>
    /\ spoiled \subseteq spoiled'
    /\ \/ run[w].pc = "next" /\ run[w].todo = {}
       \/ run[w].todo \cup ({run[w].message} \ {NoMessage}) \subseteq spoiled'

LEMMA HandlerOrEnd ==
    ASSUME QInv, NEW w \in Workers, Handle(w) \/ Stop(w)
    PROVE  \/ Ends(w)
           \/ /\ HandlerKinds(w) /\ UNCHANGED <<body, queue>>
              /\ \A v \in Workers \ {w} : run'[v] = run[v]
              /\ run[w].pc # "idle"
<1>0. TypeOK /\ InHand(w)
  BY DEF QInv
<1>1. CASE Report(w)
  <2>1. /\ run' = [run EXCEPT ![w] = Idle] /\ run[w].pc = "next" /\ run[w].todo = {}
        /\ UNCHANGED <<ledger, lease, body, receives, hidden, spoiled>>
    BY <1>1 DEF Report
  <2> QED
    BY <1>0, <2>1 DEF Ends, ledger, TypeOK
<1>2. CASE Stop(w)
  <2>1. /\ run' = [run EXCEPT ![w] = Idle] /\ UNCHANGED <<lease, body, queue>>
        /\ spoiled' = spoiled \cup run[w].todo \cup ({run[w].message} \ {NoMessage})
        /\ UNCHANGED <<status, attempts>>
    BY <1>2 DEF Stop, Ledger!Conclude, ledger
  <2> QED
    BY <1>0, <2>1 DEF Ends, queue, TypeOK
<1>3. CASE Handle(w) /\ ~Report(w)
  <2>1. Progress(w) /\ UNCHANGED <<body, queue>>
    BY <1>0, <1>3, HandlerStep
  <2>2. HandlerKinds(w)
    BY <1>0, <1>3, HandlerIsOfAKind
  <2> QED
    BY <2>1, <2>2 DEF Progress
<1> QED
  BY <1>1, <1>2, <1>3

LEMMA OnceAheadStep == QInv /\ OnceAhead /\ [Next]_vars => OnceAhead'
<1> SUFFICES ASSUME QInv, OnceAhead, [Next]_vars PROVE OnceAhead'
  OBVIOUS
<1>1. ASSUME NEW w \in Workers, Handle(w) \/ Stop(w) PROVE OnceAhead'
  <2>1. CASE Ends(w)
    BY <2>1, IdleAhead DEF Ends, OnceAhead
  <2>2. CASE HandlerKinds(w) /\ \A v \in Workers \ {w} : run'[v] = run[v]
    BY <2>2, HandlerAhead DEF OnceAhead
  <2> QED
    BY <1>1, <2>1, <2>2, HandlerOrEnd
<1>2. ASSUME NEW w \in Workers, NEW batch \in SUBSET Messages, Receive(w, batch)
      PROVE  OnceAhead'
  BY <1>2, ReceiveStarts, NamesAssumption DEF OnceAhead
<1>3. CASE Tick
  BY <1>3, TickRuns DEF OnceAhead
<1>4. CASE \E m \in Messages : DeadLetter(m)
  BY <1>4 DEF DeadLetter, OnceAhead
<1>5. CASE \E e \in Events : Reconcile(e)
  BY <1>5 DEF Reconcile, OnceAhead
<1>6. CASE UNCHANGED vars
  BY <1>6 DEF vars, OnceAhead
<1> QED
  BY <1>1, <1>2, <1>3, <1>4, <1>5, <1>6 DEF Next

(***************************************************************************)
(* The lease of a claim ends before its message is visible again.            *)
(***************************************************************************)

\* The only message for its notification.
Sole(m) == body[m] \in Events /\ \A n \in Messages : body[n] = body[m] => n = m

\* It stays hidden for a timeout longer than its record is leased, and whoever
\* has it ahead finds no lease.
LeaseEndsOf(m) ==
    /\ lease[body[m]] = NoLease \/ lease[body[m]] + Timeout < hidden[m]
    /\ IsAhead(m) => lease[body[m]] = NoLease

LeaseEnds == \A m \in Messages : Sole(m) => LeaseEndsOf(m)

Redelivery == QInv /\ OnceAhead /\ LeaseEnds

\* Without a claim a lease can only end.
LEMMA LeaseEndsKept ==
    ASSUME NEW m \in Messages, LeaseEndsOf(m), UNCHANGED <<body, hidden>>,
           lease'[body[m]] \in {lease[body[m]], NoLease}, IsAhead(m)' => IsAhead(m)
    PROVE  LeaseEndsOf(m)'
  BY DEF LeaseEndsOf

\* A claim: the message stays hidden for longer than the lease it is given, and
\* is ahead of nobody.
LEMMA ClaimEndsInTime ==
    ASSUME QInv, OnceAhead, NEW w \in Workers, run[w].pc = "attempt", NEW m \in Messages,
           run[w].message = m, UNCHANGED <<body, hidden>>,
           lease' = [lease EXCEPT ![body[m]] = Lease - run[w].age],
           \A v \in Workers \ {w} : run'[v] = run[v],
           StepsOn(w, "attempt", "send") \/ IsDone(w)
    PROVE  LeaseEndsOf(m)'
<1>1. TypeOK /\ InHand(w) /\ Hidden(w) /\ body[m] \in Events
  BY DEF QInv, InHand
<1>2. m \in run[w].batch
  BY <1>1, NamesAssumption DEF InHand
<1>3. /\ hidden[m] \in Nat /\ run[w].age \in 0..Timeout
      /\ hidden[m] >= Visibility - run[w].age
  BY <1>1, <1>2, HiddenInHand
<1>4. lease'[body[m]] = Lease - run[w].age
  BY <1>1 DEF TypeOK
<1>5. lease'[body[m]] + Timeout < hidden[m]
  BY <1>3, <1>4, Sizes, VisibilityOutlivesLease
<1>6. ASSUME NEW v \in Workers PROVE m \notin Ahead(v)'
  <2>1. CASE v = w
    BY <2>1 DEF OnceAhead, StepsOn, IsDone, Ahead
  <2>2. CASE v # w
    <3>1. m \notin run[v].batch
      BY <1>2, <2>2 DEF QInv, OneInvocationPerMessage
    <3>2. m \notin Ahead(v) /\ run'[v] = run[v]
      BY <2>2, <3>1, AheadInBatch
    <3> QED
      BY <3>2 DEF Ahead
  <2> QED
    BY <2>1, <2>2
<1> QED
  BY <1>5, <1>6 DEF LeaseEndsOf, IsAhead

LEMMA RedeliveryHandled ==
    ASSUME Redelivery, NEW w \in Workers, HandlerKinds(w), UNCHANGED <<body, queue>>,
           \A v \in Workers \ {w} : run'[v] = run[v]
    PROVE  LeaseEnds'
<1>0. QInv /\ OnceAhead /\ TypeOK /\ UNCHANGED <<body, hidden>>
  BY DEF Redelivery, QInv, queue
<1>1. ASSUME NEW m \in Messages, IsAhead(m)' PROVE IsAhead(m)
  <2>1. Ahead(w)' \subseteq Ahead(w)
    BY <1>0, HandlerAhead
  <2>2. \A v \in Workers \ {w} : Ahead(v)' = Ahead(v)
    BY DEF Ahead
  <2> QED
    BY <1>1, <2>1, <2>2 DEF IsAhead
<1>2. SUFFICES ASSUME NEW m \in Messages, Sole(m) PROVE LeaseEndsOf(m)'
  BY <1>0 DEF LeaseEnds, Sole
<1>3. LeaseEndsOf(m) /\ body[m] \in Events
  BY <1>2 DEF Redelivery, LeaseEnds, Sole
<1>4. CASE LeasesEnd \/ UNCHANGED lease
  BY <1>0, <1>1, <1>3, <1>4, LeaseEndsKept DEF LeasesEnd
<1>5. CASE /\ run[w].pc = "attempt"
           /\ lease' = [lease EXCEPT ![EventOf(w)] = Lease - run[w].age]
           /\ StepsOn(w, "attempt", "send") \/ IsDone(w)
  <2>1. CASE run[w].message = m
    BY <1>0, <1>5, <2>1, ClaimEndsInTime DEF EventOf
  <2>2. CASE run[w].message # m
    <3>1. EventOf(w) # body[m]
      BY <1>0, <1>2, <1>5, <2>2 DEF QInv, InHand, Sole, EventOf
    <3>2. lease'[body[m]] = lease[body[m]]
      BY <1>0, <1>3, <1>5, <3>1 DEF TypeOK
    <3> QED
      BY <1>0, <1>1, <1>3, <3>2, LeaseEndsKept
  <2> QED
    BY <2>1, <2>2
<1> QED
  BY <1>4, <1>5 DEF HandlerKinds

LEMMA RedeliveryReceived ==
    ASSUME Redelivery, NEW w \in Workers, NEW batch \in SUBSET Messages, Receive(w, batch)
    PROVE  LeaseEnds'
<1>0. /\ QInv /\ TypeOK /\ UNCHANGED <<lease, body>>
      /\ \A m \in batch : Visible(m)
      /\ hidden' = [m \in Messages |-> IF m \in batch THEN Visibility ELSE hidden[m]]
  BY DEF Redelivery, QInv, Receive, HiddenFor
<1>1. SUFFICES ASSUME NEW m \in Messages, Sole(m) PROVE LeaseEndsOf(m)'
  BY <1>0 DEF LeaseEnds, Sole
<1>2. LeaseEndsOf(m) /\ body[m] \in Events
  BY <1>1 DEF Redelivery, LeaseEnds, Sole
<1>3. CASE m \in batch
  <2>1. hidden[m] = 0
    BY <1>0, <1>3 DEF Visible
  <2>2. lease[body[m]] \in NoLease..Lease
    BY <1>0, <1>2 DEF TypeOK
  <2>3. lease[body[m]] = NoLease
    BY <1>2, <2>1, <2>2, Sizes DEF LeaseEndsOf, NoLease
  <2> QED
    BY <1>0, <2>3 DEF LeaseEndsOf
<1>4. CASE m \notin batch
  <2>1. IsAhead(m)' => IsAhead(m)
    <3>1. \A v \in Workers \ {w} : Ahead(v)' = Ahead(v)
      BY <1>0, ReceiveStarts DEF Ahead
    <3>2. Ahead(w)' = batch
      BY <1>0, ReceiveStarts
    <3> QED
      BY <1>4, <3>1, <3>2 DEF IsAhead
  <2>2. hidden'[m] = hidden[m]
    BY <1>0, <1>4
  <2> QED
    BY <1>0, <1>2, <2>1, <2>2 DEF LeaseEndsOf
<1> QED
  BY <1>3, <1>4

LEMMA RedeliveryTicks ==
    ASSUME Redelivery, Tick
    PROVE  LeaseEnds'
<1>0. /\ QInv /\ TypeOK /\ UNCHANGED body
      /\ hidden' = [m \in Messages |-> IF hidden[m] > 0 THEN hidden[m] - 1 ELSE 0]
      /\ lease' = [e \in Events |-> IF lease[e] > NoLease THEN lease[e] - 1 ELSE NoLease]
  BY DEF Redelivery, QInv, Tick
<1>1. SUFFICES ASSUME NEW m \in Messages, Sole(m) PROVE LeaseEndsOf(m)'
  BY <1>0 DEF LeaseEnds, Sole
<1>2. LeaseEndsOf(m) /\ body[m] \in Events
  BY <1>1 DEF Redelivery, LeaseEnds, Sole
<1>3. IsAhead(m)' => IsAhead(m)
  BY <1>0, TickRuns DEF Redelivery, IsAhead
<1>4. /\ lease[body[m]] \in NoLease..Lease /\ hidden[m] \in 0..Visibility
      /\ NoLease \in Int /\ NoLease + Timeout = 0
      /\ hidden'[m] = IF hidden[m] > 0 THEN hidden[m] - 1 ELSE 0
      /\ lease'[body[m]] = IF lease[body[m]] > NoLease THEN lease[body[m]] - 1 ELSE NoLease
  BY <1>0, <1>2, Sizes DEF TypeOK, NoLease
<1>5. CASE lease[body[m]] = NoLease
  <2>1. lease'[body[m]] = NoLease
    BY <1>4, <1>5
  <2> QED
    BY <1>0, <2>1 DEF LeaseEndsOf
<1>6. CASE lease[body[m]] # NoLease
  <2>1. /\ lease[body[m]] > NoLease /\ lease[body[m]] + Timeout < hidden[m]
        /\ ~IsAhead(m)
    BY <1>2, <1>4, <1>6, Sizes DEF LeaseEndsOf
  <2>2. hidden[m] > 0
    BY <1>4, <2>1, Sizes
  <2>3. lease'[body[m]] + Timeout < hidden'[m]
    BY <1>4, <2>1, <2>2, Sizes
  <2> QED
    BY <1>0, <1>3, <2>1, <2>3 DEF LeaseEndsOf
<1> QED
  BY <1>5, <1>6

LEMMA RedeliveryStep == Redelivery /\ [Next]_vars => Redelivery'
<1> SUFFICES ASSUME Redelivery, [Next]_vars PROVE Redelivery'
  OBVIOUS
<1>0. QInv /\ OnceAhead /\ QInv' /\ OnceAhead'
  BY QueueStep, OnceAheadStep DEF Redelivery
<1> SUFFICES LeaseEnds'
  BY <1>0 DEF Redelivery
<1>1. ASSUME UNCHANGED <<lease, body, hidden>>,
             \A m \in Messages : IsAhead(m)' => IsAhead(m)
      PROVE  LeaseEnds'
  BY <1>1, LeaseEndsKept DEF Redelivery, LeaseEnds, Sole
<1>2. ASSUME UNCHANGED <<lease, body, hidden, run>> PROVE LeaseEnds'
  BY <1>1, <1>2 DEF IsAhead, Ahead
<1>3. ASSUME NEW w \in Workers, Handle(w) \/ Stop(w) PROVE LeaseEnds'
  <2>1. CASE Ends(w)
    <3>1. Ahead(w)' = {} /\ \A v \in Workers \ {w} : Ahead(v)' = Ahead(v)
      BY <2>1, IdleAhead DEF Ends, Ahead
    <3>2. \A m \in Messages : IsAhead(m)' => IsAhead(m)
      BY <3>1 DEF IsAhead
    <3> QED
      BY <1>1, <2>1, <3>2 DEF Ends
  <2>2. CASE /\ HandlerKinds(w) /\ UNCHANGED <<body, queue>>
             /\ \A v \in Workers \ {w} : run'[v] = run[v]
    BY <2>2, RedeliveryHandled
  <2> QED
    BY <1>0, <1>3, <2>1, <2>2, HandlerOrEnd
<1>4. CASE \E w \in Workers : \E batch \in SUBSET Messages : Receive(w, batch)
  BY <1>4, RedeliveryReceived
<1>5. CASE Tick
  BY <1>5, RedeliveryTicks
<1>6. CASE \/ \E m \in Messages : DeadLetter(m)
           \/ \E e \in Events : Reconcile(e)
           \/ UNCHANGED vars
  BY <1>2, <1>6 DEF DeadLetter, Reconcile, queue, vars
<1> QED
  BY <1>3, <1>4, <1>5, <1>6 DEF Next

LEMMA RedeliveryInit == Init => Redelivery
<1> SUFFICES ASSUME Init PROVE Redelivery
  OBVIOUS
<1>1. OnceAhead
  BY DEF Init, Idle, OnceAhead
<1>2. LeaseEnds
  BY DEF Init, LeaseEnds, LeaseEndsOf, Sole
<1> QED
  BY <1>1, <1>2, QueueInit DEF Redelivery

(***************************************************************************)
(* Every receive of a message that was not spoiled made an attempt, which is *)
(* on the record.                                                          *)
(***************************************************************************)

\* The attempt under way is this message's.
Mine(m) == \E w \in Workers : run[w].message = m /\ run[w].pc \in {"send", "mark"}

\* An attempt under way that another message made is one too many.
Foreign(m) == IF status[body[m]] = "sending" /\ ~Mine(m) THEN 1 ELSE 0

\* The attempt of the last receive may be still to come.
Coming(m) == IF IsAhead(m) THEN 1 ELSE 0

AttemptCounted(m) == receives[m] + Foreign(m) <= attempts[body[m]] + Coming(m)

LedgerBudget ==
    \A e \in Events :
        /\ status[e] = "absent" => attempts[e] = 0
        /\ status[e] = "prepared" => attempts[e] < Budget

Counting ==
    /\ QInv /\ OnceAhead /\ LedgerBudget
    /\ \A m \in Messages : m \notin spoiled /\ body[m] \in Events => AttemptCounted(m)
    /\ \A m \in Messages : place[m] = "dead" => receives[m] = MaxReceives

\* What a step does to a record, as far as the count goes.
LedgerSteps == Stands \/ \E e \in Events : Freed(e) \/ Attempted(e)

CountsOn(e) ==
    \/ status'[e] = status[e] /\ attempts'[e] = attempts[e]
    \/ status'[e] # "sending" /\ attempts'[e] = attempts[e]
    \/ status[e] # "sending" /\ attempts'[e] = attempts[e] + 1

LEMMA LedgerCounts ==
    ASSUME TypeOK, LedgerBudget, LedgerSteps
    PROVE  LedgerBudget' /\ \A e \in Events : CountsOn(e)
<1>0. /\ status \in [Events -> {"absent", "prepared", "sending", "uncertain",
                                "accepted_by_smtp", "failed"}]
      /\ attempts \in [Events -> 0..Budget]
  BY DEF TypeOK
<1>1. CASE Stands
  BY <1>1 DEF Stands, LedgerBudget, CountsOn
<1>2. ASSUME NEW e \in Events, Freed(e) PROVE LedgerBudget' /\ \A f \in Events : CountsOn(f)
  <2>1. PICK s \in {"prepared", "uncertain", "accepted_by_smtp", "failed"} :
           /\ status' = [status EXCEPT ![e] = s]
           /\ s = "prepared" => status[e] = "absent" \/ attempts[e] < Budget
    BY <1>2 DEF Freed
  <2>2. attempts' = attempts
    BY <1>2 DEF Freed
  <2>3. s = "prepared" => attempts[e] < Budget
    BY <2>1, Sizes DEF LedgerBudget
  <2>4. LedgerBudget'
    BY <1>0, <2>1, <2>2, <2>3 DEF LedgerBudget
  <2>5. \A f \in Events : CountsOn(f)
    BY <1>0, <2>1, <2>2 DEF CountsOn
  <2> QED
    BY <2>4, <2>5
<1>3. ASSUME NEW e \in Events, Attempted(e)
      PROVE  LedgerBudget' /\ \A f \in Events : CountsOn(f)
  BY <1>0, <1>3 DEF Attempted, LedgerBudget, CountsOn
<1> QED
  BY <1>1, <1>2, <1>3 DEF LedgerSteps

\* The count of a message holds while it stays ahead and its attempt its own, or
\* the attempt is over.
LEMMA CountKept ==
    ASSUME TypeOK, TypeOK', NEW m \in Messages, body[m] \in Events, AttemptCounted(m),
           UNCHANGED body, receives'[m] = receives[m], CountsOn(body[m]),
           IsAhead(m) => IsAhead(m)',
           Mine(m) => Mine(m)' \/ status'[body[m]] # "sending"
    PROVE  AttemptCounted(m)'
<1>0. /\ receives[m] \in Nat /\ attempts[body[m]] \in Nat /\ attempts'[body[m]] \in Nat
      /\ body'[m] = body[m]
  BY Sizes DEF TypeOK
<1>1. Coming(m) \in {0, 1} /\ Coming(m)' \in {0, 1} /\ Coming(m) <= Coming(m)'
  BY DEF Coming
<1>2. /\ Foreign(m) \in {0, 1} /\ Foreign(m)' \in {0, 1}
      /\ \/ attempts'[body[m]] = attempts[body[m]] /\ Foreign(m)' <= Foreign(m)
         \/ attempts'[body[m]] = attempts[body[m]] + 1
  BY <1>0 DEF Foreign, CountsOn
<1> QED
  BY <1>0, <1>1, <1>2 DEF AttemptCounted

\* The attempt that was to come is made and counted.
LEMMA CountClaimed ==
    ASSUME TypeOK, NEW m \in Messages, body[m] \in Events, AttemptCounted(m),
           UNCHANGED <<body, receives>>, Attempted(body[m]), Mine(m)'
    PROVE  AttemptCounted(m)'
<1>0. /\ receives[m] \in Nat /\ attempts[body[m]] \in Nat
      /\ attempts'[body[m]] = attempts[body[m]] + 1 /\ status[body[m]] = "prepared"
  BY Sizes DEF TypeOK, Attempted
<1>1. Coming(m) \in {0, 1} /\ Coming(m)' \in {0, 1}
  BY DEF Coming
<1>2. Foreign(m) = 0 /\ Foreign(m)' = 0
  BY <1>0 DEF Foreign
<1> QED
  BY <1>0, <1>1, <1>2 DEF AttemptCounted

\* What a part of the handler leaves behind: only the message it is done with,
\* or whose attempt it starts.
LEMMA HandlerBehind ==
    ASSUME QInv, OnceAhead, NEW w \in Workers, HandlerKinds(w),
           NEW m \in Ahead(w), body[m] \in Events
    PROVE  \/ m \in Ahead(w)'
           \/ /\ m = run[w].message /\ run[w].pc \in {"prepare", "attempt"}
              /\ IsDone(w) \/ StepsOn(w, "attempt", "send")
<1>1. CASE TakesUp(w)
  BY <1>1 DEF TakesUp, Ahead
<1>2. CASE StepsOn(w, "prepare", "attempt") \/ StepsOn(w, "send", "mark")
  BY <1>2 DEF StepsOn, Ahead
<1>3. CASE StepsOn(w, "attempt", "send") \/ IsDone(w)
  BY <1>3 DEF StepsOn, IsDone, Ahead
<1> QED
  BY <1>1, <1>2, <1>3 DEF HandlerKinds

LEMMA HandlerCounts ==
    ASSUME QInv, LedgerBudget, NEW w \in Workers, HandlerKinds(w)
    PROVE  LedgerBudget' /\ \A e \in Events : CountsOn(e)
<1>1. CASE TakesUp(w) /\ Stands
  BY <1>1, LedgerCounts DEF QInv, LedgerSteps
<1>2. CASE run[w].pc \notin {"idle", "next"}
  <2>1. EventOf(w) \in Events
    BY <1>2 DEF QInv, InHand, EventOf
  <2>2. LedgerSteps
    BY <1>2, <2>1 DEF HandlerKinds, LedgerSteps, TakesUp
  <2> QED
    BY <2>2, LedgerCounts DEF QInv
<1> QED
  BY <1>1, <1>2 DEF HandlerKinds, StepsOn, IsDone

LEMMA CountHandled ==
    ASSUME Counting, TypeOK', NEW w \in Workers, HandlerKinds(w), UNCHANGED <<body, queue>>,
           \A v \in Workers \ {w} : run'[v] = run[v],
           NEW m \in Messages, m \notin spoiled', body[m] \in Events
    PROVE  AttemptCounted(m)'
<1>0. /\ QInv /\ OnceAhead /\ TypeOK /\ InHand(w) /\ LedgerBudget
      /\ UNCHANGED <<body, receives>>
  BY DEF Counting, QInv, queue
<1>1. spoiled \subseteq spoiled' /\ (IsDone(w) /\ run[w].message = m => run[w].pc = "mark")
  BY <1>0 DEF HandlerKinds, Spoil, TakesUp, StepsOn, IsDone
<1>2. AttemptCounted(m)
  BY <1>1 DEF Counting
<1>4. CountsOn(body[m])
  BY <1>0, HandlerCounts
<1>5. CASE run[w].message = m /\ StepsOn(w, "attempt", "send")
  <2>1. Attempted(body[m])
    BY <1>5 DEF HandlerKinds, StepsOn, IsDone, TakesUp, EventOf
  <2>2. Mine(m)'
    BY <1>5 DEF StepsOn, Mine
  <2> QED
    BY <1>0, <1>2, <1>4, <2>1, <2>2, CountClaimed
<1>6. CASE ~(run[w].message = m /\ StepsOn(w, "attempt", "send"))
  <2>1. ASSUME IsAhead(m) PROVE IsAhead(m)'
    <3>1. PICK v \in Workers : m \in Ahead(v)
      BY <2>1 DEF IsAhead
    <3>2. m \in Ahead(v)'
      <4>1. CASE v = w
        BY <1>0, <1>1, <1>6, <3>1, <4>1, HandlerBehind
      <4>2. CASE v # w
        BY <3>1, <4>2 DEF Ahead
      <4> QED
        BY <4>1, <4>2
    <3> QED
      BY <3>2 DEF IsAhead
  <2>2. ASSUME Mine(m) PROVE Mine(m)' \/ status'[body[m]] # "sending"
    <3>1. PICK v \in Workers : run[v].message = m /\ run[v].pc \in {"send", "mark"}
      BY <2>2 DEF Mine
    <3>2. CASE v = w
      <4>1. CASE StepsOn(w, "send", "mark")
        BY <3>1, <3>2, <4>1 DEF StepsOn, Mine
      <4>2. CASE IsDone(w) /\ Freed(EventOf(w))
        BY <1>0, <3>1, <3>2, <4>2 DEF Freed, EventOf, TypeOK
      <4> QED
        BY <1>1, <3>1, <3>2, <4>1, <4>2
           DEF HandlerKinds, TakesUp, StepsOn, Spoil
    <3>3. CASE v # w
      BY <3>1, <3>3 DEF Mine
    <3> QED
      BY <3>2, <3>3
  <2> QED
    BY <1>0, <1>2, <1>4, <2>1, <2>2, CountKept
<1> QED
  BY <1>5, <1>6

\* The parts of the invariant that only receives, the queue and the ledger move.
LEMMA CountingStands ==
    ASSUME Counting, TypeOK', LedgerSteps, UNCHANGED <<body, receives>>,
           spoiled \subseteq spoiled',
           NEW m \in Messages, m \notin spoiled', body[m] \in Events,
           IsAhead(m) => IsAhead(m)', Mine(m) => Mine(m)'
    PROVE  AttemptCounted(m)'
<1>1. TypeOK /\ AttemptCounted(m)
  BY DEF Counting, QInv
<1>2. CountsOn(body[m])
  BY <1>1, LedgerCounts DEF Counting
<1> QED
  BY <1>1, <1>2, CountKept

LEMMA CountEnds ==
    ASSUME Counting, TypeOK', NEW w \in Workers, Ends(w),
           NEW m \in Messages, m \notin spoiled', body[m] \in Events
    PROVE  AttemptCounted(m)'
<1>0. QInv /\ InHand(w) /\ \A v \in Workers \ {w} : run'[v] = run[v]
  BY DEF Counting, QInv, Ends
<1>1. m \notin Ahead(w) /\ (run[w].message = m => run[w].pc \notin {"send", "mark"})
  BY NamesAssumption DEF Ends, Ahead
<1>2. IsAhead(m) => IsAhead(m)'
  BY <1>0, <1>1 DEF IsAhead, Ahead
<1>3. Mine(m) => Mine(m)'
  BY <1>0, <1>1 DEF Mine
<1> QED
  BY <1>2, <1>3, CountingStands DEF Ends, LedgerSteps, Stands

LEMMA CountReceived ==
    ASSUME Counting, TypeOK', NEW w \in Workers, NEW batch \in SUBSET Messages,
           Receive(w, batch), NEW m \in Messages, m \notin spoiled', body[m] \in Events
    PROVE  AttemptCounted(m)'
<1>0. /\ QInv /\ TypeOK /\ UNCHANGED <<ledger, body, spoiled>>
      /\ \A n \in batch : Visible(n)
      /\ receives' = [n \in Messages |-> receives[n] + IF n \in batch THEN 1 ELSE 0]
      /\ AttemptCounted(m)
  BY DEF Counting, QInv, Receive
<1>1. /\ run[w] = Idle /\ \A v \in Workers \ {w} : run'[v] = run[v]
      /\ Ahead(w) = {} /\ Ahead(w)' = batch
  BY <1>0, ReceiveStarts
<1>2. ASSUME Mine(m) PROVE Mine(m)'
  BY <1>1, <1>2 DEF Mine, Idle
<1>3. /\ receives[m] \in Nat /\ attempts[body[m]] \in Nat
      /\ UNCHANGED <<status, attempts>> /\ body'[m] = body[m]
  BY <1>0, Sizes DEF TypeOK, ledger
<1>4. CASE m \in batch
  <2>1. ~IsAhead(m) /\ IsAhead(m)'
    BY <1>0, <1>1, <1>4, VisibleIsNowhere DEF IsAhead
  <2>2. Coming(m) = 0 /\ Coming(m)' = 1
    BY <2>1 DEF Coming
  <2>3. Foreign(m) \in {0, 1} /\ Foreign(m)' \in {0, 1} /\ Foreign(m)' <= Foreign(m)
    BY <1>2, <1>3 DEF Foreign
  <2>4. receives'[m] = receives[m] + 1
    BY <1>0, <1>4
  <2> QED
    BY <1>0, <1>3, <2>2, <2>3, <2>4 DEF AttemptCounted
<1>5. CASE m \notin batch
  <2>1. IsAhead(m) => IsAhead(m)'
    BY <1>1 DEF IsAhead, Ahead
  <2>2. receives'[m] = receives[m]
    BY <1>0, <1>3, <1>5
  <2>3. CountsOn(body[m])
    BY <1>3 DEF CountsOn
  <2> QED
    BY <1>0, <1>2, <2>1, <2>2, <2>3, CountKept
<1> QED
  BY <1>4, <1>5

\* What is dead was received as often as anything is.
LEMMA DeadWereReceived ==
    ASSUME Counting, [Next]_vars, NEW m \in Messages, place'[m] = "dead"
    PROVE  receives'[m] = MaxReceives
<1>0. QInv /\ TypeOK /\ (place[m] = "dead" => receives[m] = MaxReceives)
  BY DEF Counting, QInv
<1>1. ASSUME NEW d \in Messages, DeadLetter(d) PROVE receives'[m] = MaxReceives
  BY <1>0, <1>1 DEF DeadLetter, TypeOK
<1>2. ASSUME NEW w \in Workers, NEW batch \in SUBSET Messages, Receive(w, batch)
      PROVE  receives'[m] = MaxReceives
  <2>1. m \notin batch /\ place' = place /\ receives[m] \in Nat
    BY <1>0, <1>2, Sizes DEF Receive, Visible, TypeOK
  <2> QED
    BY <1>0, <1>2, <2>1, Sizes DEF Receive
<1>3. ASSUME NEW w \in Workers, Handle(w) \/ Stop(w) PROVE receives'[m] = MaxReceives
  <2>1. CASE Report(w)
    BY <1>0, <2>1 DEF Report
  <2>2. CASE ~Report(w)
    <3>1. UNCHANGED queue
      BY <1>0, <1>3, <2>2, HandlerStep DEF QInv, Stop
    <3> QED
      BY <1>0, <3>1 DEF queue
  <2> QED
    BY <2>1, <2>2
<1>4. CASE Tick \/ (\E e \in Events : Reconcile(e)) \/ UNCHANGED vars
  BY <1>0, <1>4 DEF Tick, Reconcile, queue, vars
<1> QED
  BY <1>1, <1>2, <1>3, <1>4 DEF Next

LEMMA CountingStep == Counting /\ [Next]_vars => Counting'
<1> SUFFICES ASSUME Counting, [Next]_vars PROVE Counting'
  OBVIOUS
<1>0. QInv /\ OnceAhead /\ QInv' /\ OnceAhead' /\ TypeOK /\ TypeOK'
  BY QueueStep, OnceAheadStep DEF Counting, QInv
<1>1. \A m \in Messages : place'[m] = "dead" => receives'[m] = MaxReceives
  BY DeadWereReceived
<1> DEFINE Counted == \A m \in Messages :
                         m \notin spoiled' /\ body'[m] \in Events => AttemptCounted(m)'
<1> SUFFICES LedgerBudget' /\ Counted
  BY <1>0, <1>1 DEF Counting
<1>2. ASSUME LedgerSteps, UNCHANGED <<body, receives, spoiled>>,
             \A m \in Messages : (IsAhead(m) => IsAhead(m)') /\ (Mine(m) => Mine(m)')
      PROVE  LedgerBudget' /\ Counted
  BY <1>0, <1>2, CountingStands, LedgerCounts DEF Counting
<1>3. ASSUME NEW w \in Workers, Handle(w) \/ Stop(w) PROVE LedgerBudget' /\ Counted
  <2>1. CASE Ends(w)
    <3>1. UNCHANGED <<status, attempts, body>>
      BY <2>1 DEF Ends
    <3>2. Counted
      BY <1>0, <2>1, <3>1, CountEnds
    <3> QED
      BY <3>1, <3>2 DEF Counting, LedgerBudget
  <2>2. CASE /\ HandlerKinds(w) /\ UNCHANGED <<body, queue>> /\ run[w].pc # "idle"
             /\ \A v \in Workers \ {w} : run'[v] = run[v]
    <3>1. Counted
      BY <1>0, <2>2, CountHandled
    <3>2. LedgerBudget'
      BY <1>0, <2>2, HandlerCounts DEF Counting
    <3> QED
      BY <3>1, <3>2
  <2> QED
    BY <1>0, <1>3, <2>1, <2>2, HandlerOrEnd
<1>4. ASSUME NEW w \in Workers, NEW batch \in SUBSET Messages, Receive(w, batch)
      PROVE  LedgerBudget' /\ Counted
  <2>1. UNCHANGED <<status, attempts, body>>
    BY <1>4 DEF Receive, ledger
  <2>2. Counted
    BY <1>0, <1>4, <2>1, CountReceived
  <2> QED
    BY <2>1, <2>2 DEF Counting, LedgerBudget
<1>5. CASE Tick
  <2>1. \A m \in Messages : (IsAhead(m) => IsAhead(m)') /\ (Mine(m) => Mine(m)')
    BY <1>0, <1>5, TickRuns DEF IsAhead, Mine
  <2> QED
    BY <1>2, <1>5, <2>1 DEF Tick, LedgerSteps, Stands, ledger
<1>6. CASE \/ \E m \in Messages : DeadLetter(m)
           \/ \E e \in Events : Reconcile(e)
           \/ UNCHANGED vars
  <2>1. UNCHANGED <<body, receives, spoiled, run>>
    BY <1>6 DEF DeadLetter, Reconcile, queue, vars
  <2>2. \A m \in Messages : (IsAhead(m) => IsAhead(m)') /\ (Mine(m) => Mine(m)')
    BY <2>1 DEF IsAhead, Ahead, Mine
  <2>3. LedgerSteps
    BY <1>6, LedgerFrees DEF DeadLetter, Reconcile, vars, LedgerSteps, Stands, ledger
  <2> QED
    BY <1>2, <2>1, <2>2, <2>3
<1> QED
  BY <1>3, <1>4, <1>5, <1>6 DEF Next

LEMMA CountingInit == Init => Counting
<1> SUFFICES ASSUME Init PROVE Counting
  OBVIOUS
<1>1. OnceAhead /\ LedgerBudget
  BY DEF Init, Ledger!Init, Idle, OnceAhead, LedgerBudget
<1>2. ASSUME NEW m \in Messages, body[m] \in Events PROVE AttemptCounted(m)
  <2>1. Coming(m) = 0 /\ Foreign(m) = 0
    BY <1>2 DEF Init, Ledger!Init, Idle, IsAhead, Ahead, Coming, Foreign
  <2>2. receives[m] = 0 /\ attempts[body[m]] = 0
    BY <1>2 DEF Init, Ledger!Init
  <2> QED
    BY <2>1, <2>2 DEF AttemptCounted
<1>3. \A m \in Messages : place[m] # "dead"
  BY DEF Init
<1> QED
  BY <1>1, <1>2, <1>3, QueueInit DEF Counting

(***************************************************************************)
(* While an invocation holds a claim, nobody else touches the record except   *)
(* to fail it: the lease outlasts whoever was given it.                     *)
(***************************************************************************)

Holds(w) == run[w].pc \in {"send", "mark"}

\* The claim of a holder has the lease it was given, and its permit until it has
\* sent; what it found out is so.
HoldsClaim(w) ==
    LET e == EventOf(w) IN
    Holds(w) =>
        /\ status[e] \in {"sending", "failed"}
        /\ status[e] = "sending" => lease[e] = Lease - run[w].age
        /\ run[w].pc = "send" => permit[e] /\ taken[e] < authorised[e]
        /\ run[w].pc = "mark" =>
              /\ run[w].result = "accepted" => taken[e] >= 1
              /\ run[w].result = "transient" => taken[e] < authorised[e]

\* A record free to be sent is owed a message.
Owed(e) ==
    /\ taken[e] <= authorised[e]
    /\ status[e] \in {"absent", "prepared"} => taken[e] < authorised[e]

PermitHeld(e) == permit[e] => \E w \in Workers : run[w].pc = "send" /\ EventOf(w) = e

OneHolderEach ==
    \A v, w \in Workers : v # w /\ Holds(v) /\ Holds(w) => EventOf(v) # EventOf(w)

Claims ==
    /\ QInv
    /\ \A e \in Events : Owed(e) /\ PermitHeld(e)
    /\ \A w \in Workers : HoldsClaim(w)
    /\ OneHolderEach

LEMMA HoldersWork ==
    ASSUME QInv, NEW w \in Workers
    PROVE  /\ run[w] \in Run /\ run[w].age \in 0..Timeout
           /\ run[w].pc \notin {"idle", "next"} =>
                 run[w].message \in Messages /\ EventOf(w) \in Events
           /\ Holds(w) => EventOf(w) \in Events
  BY DEF QInv, TypeOK, InHand, EventOf, Holds, Run

\* Whose lease is over is no longer at work.
LEMMA StaleClaimsAreAbandoned ==
    ASSUME Claims, NEW v \in Workers, EventOf(v) \in Events, Expired(v),
           status[EventOf(v)] = "sending"
    PROVE  \A w \in Workers : Holds(w) => EventOf(w) # EventOf(v)
<1> SUFFICES ASSUME NEW w \in Workers, Holds(w), EventOf(w) = EventOf(v) PROVE FALSE
  OBVIOUS
<1>1. lease[EventOf(v)] = Lease - run[w].age
  BY DEF Claims, HoldsClaim
<1>2. run[w].age \in 0..Timeout /\ run[v].age \in 0..Timeout
  BY HoldersWork DEF Claims
<1> QED
  BY <1>1, <1>2, Sizes, LeaseOutlivesTimeout DEF Expired

LEMMA PermitsAreHeld ==
    ASSUME Claims, NEW e \in Events, permit[e]
    PROVE  \E w \in Workers : run[w].pc = "send" /\ Holds(w) /\ EventOf(w) = e
  BY DEF Claims, PermitHeld, Holds

(***************************************************************************)
(* Steps that leave the holders' claims alone.                             *)
(***************************************************************************)

\* What may become of a record: it is owed what it was or more, and while
\* anybody holds a claim of it, it is at most failed.
RecordAllows(e) ==
    /\ permit'[e] = permit[e] /\ taken'[e] = taken[e] /\ authorised'[e] >= authorised[e]
    /\ status'[e] \in {"absent", "prepared"} => taken[e] < authorised'[e]
    /\ (\E w \in Workers : Holds(w)' /\ EventOf(w)' = e) =>
          \/ status'[e] = status[e] /\ lease'[e] = lease[e]
          \/ status'[e] = "failed"

\* Holders are those of before, and senders go on sending.
HoldersStay ==
    \A w \in Workers :
        /\ Holds(w)' => /\ run'[w].pc = run[w].pc /\ run'[w].message = run[w].message
                        /\ run'[w].age = run[w].age /\ run'[w].result = run[w].result
        /\ run[w].pc = "send" => run'[w].pc = "send" /\ run'[w].message = run[w].message

LEMMA ClaimsKept ==
    ASSUME Claims, QInv', HoldersStay, UNCHANGED body, \A e \in Events : RecordAllows(e)
    PROVE  Claims'
<1>0. /\ QInv /\ TypeOK
      /\ \A w \in Workers : Holds(w)' => Holds(w) /\ EventOf(w)' = EventOf(w)
                                         /\ EventOf(w) \in Events
  BY HoldersWork DEF Claims, QInv, HoldersStay, Holds, EventOf
<1>1. ASSUME NEW e \in Events PROVE Owed(e)' /\ PermitHeld(e)'
  <2>1. /\ taken[e] \in Nat /\ authorised[e] \in Nat /\ authorised'[e] \in Nat
        /\ RecordAllows(e) /\ Owed(e) /\ PermitHeld(e)
    BY <1>0 DEF TypeOK, Claims, QInv
  <2>2. Owed(e)'
    BY <2>1 DEF Owed, RecordAllows
  <2>3. PermitHeld(e)'
    BY <2>1 DEF PermitHeld, RecordAllows, HoldersStay, EventOf
  <2> QED
    BY <2>2, <2>3
<1>2. ASSUME NEW w \in Workers, Holds(w)' PROVE HoldsClaim(w)'
  <2> DEFINE e == EventOf(w)
  <2>1. /\ Holds(w) /\ EventOf(w)' = e /\ e \in Events /\ HoldsClaim(w) /\ RecordAllows(e)
        /\ run'[w].pc = run[w].pc /\ run'[w].age = run[w].age
        /\ run'[w].result = run[w].result
    BY <1>0, <1>2 DEF Claims, HoldersStay
  <2>2. taken[e] \in Nat /\ authorised[e] \in Nat /\ authorised'[e] \in Nat
    BY <1>0, <2>1 DEF TypeOK, Claims, QInv
  <2>3. \/ status'[e] = status[e] /\ lease'[e] = lease[e]
        \/ status'[e] = "failed"
    BY <1>2, <2>1 DEF RecordAllows
  <2>4. /\ status'[e] \in {"sending", "failed"}
        /\ status'[e] = "sending" => lease'[e] = Lease - run'[w].age
    BY <2>1, <2>3 DEF HoldsClaim
  <2>5. taken'[e] = taken[e] /\ permit'[e] = permit[e] /\ authorised'[e] >= authorised[e]
    BY <2>1 DEF RecordAllows
  <2>6. run'[w].pc = "send" => permit'[e] /\ taken'[e] < authorised'[e]
    BY <2>1, <2>2, <2>5 DEF HoldsClaim
  <2>7. run'[w].pc = "mark" =>
           /\ run'[w].result = "accepted" => taken'[e] >= 1
           /\ run'[w].result = "transient" => taken'[e] < authorised'[e]
    BY <2>1, <2>2, <2>5 DEF HoldsClaim
  <2> QED
    BY <2>1, <2>4, <2>6, <2>7 DEF HoldsClaim
<1>3. OneHolderEach'
  BY <1>0 DEF Claims, OneHolderEach
<1> QED
  BY <1>1, <1>2, <1>3 DEF Claims, HoldsClaim

\* A record nobody works on, or that is only failed or registered.
LEMMA RecordsAllow ==
    ASSUME Claims, HoldersStay, UNCHANGED body, NEW e \in Events,
           \/ UNCHANGED <<ledger, lease>>
           \/ /\ Ledger!Register(e) \/ Ledger!Retry(e) \/ Ledger!Settle(e) \/ Ledger!Confirm(e)
                 \/ Ledger!Authorise(e)
              /\ \A w \in Workers : Holds(w)' => EventOf(w) # e
              /\ \A f \in Events \ {e} : lease'[f] = lease[f]
           \/ /\ Ledger!Fail(e) /\ \A f \in Events \ {e} : lease'[f] = lease[f]
    PROVE  \A f \in Events : RecordAllows(f)
<1>0. /\ TypeOK /\ \A f \in Events : Owed(f)
      /\ \A w \in Workers : Holds(w)' => EventOf(w)' = EventOf(w)
      /\ \A f \in Events : taken[f] \in Nat /\ authorised[f] \in Nat
  BY DEF Claims, QInv, HoldersStay, EventOf, TypeOK
<1>1. CASE UNCHANGED <<ledger, lease>>
  BY <1>0, <1>1 DEF ledger, RecordAllows, Owed
<1>2. CASE /\ Ledger!Register(e) \/ Ledger!Retry(e) \/ Ledger!Settle(e) \/ Ledger!Confirm(e)
              \/ Ledger!Authorise(e)
           /\ \A w \in Workers : Holds(w)' => EventOf(w) # e
           /\ \A f \in Events \ {e} : lease'[f] = lease[f]
  <2>1. PICK s \in {"prepared", "uncertain", "accepted_by_smtp"}, n \in {0, 1} :
           /\ status' = [status EXCEPT ![e] = s]
           /\ authorised' = [authorised EXCEPT ![e] = @ + n]
           /\ UNCHANGED <<taken, permit>>
           /\ s = "prepared" => n = 1 \/ taken[e] < authorised[e]
    <3>1. authorised = [authorised EXCEPT ![e] = @ + 0]
      BY <1>0 DEF TypeOK
    <3>2. CASE Ledger!Authorise(e)
      BY <3>2 DEF Ledger!Authorise, Ledger!Become
    <3>3. CASE Ledger!Register(e)
      BY <1>0, <3>1, <3>3 DEF Ledger!Register, Ledger!Become, Owed
    <3>4. CASE Ledger!Retry(e) \/ Ledger!Settle(e) \/ Ledger!Confirm(e)
      BY <3>1, <3>4 DEF Ledger!Retry, Ledger!Settle, Ledger!Confirm, Ledger!Become
    <3> QED
      BY <1>2, <3>2, <3>3, <3>4
  <2>2. ASSUME NEW f \in Events, f # e PROVE RecordAllows(f)
    <3>1. status'[f] = status[f] /\ authorised'[f] = authorised[f] /\ lease'[f] = lease[f]
      BY <1>0, <1>2, <2>1, <2>2 DEF TypeOK
    <3> QED
      BY <1>0, <2>1, <3>1 DEF RecordAllows, Owed
  <2>3. RecordAllows(e)
    <3>1. status'[e] = s /\ authorised'[e] = authorised[e] + n
      BY <1>0, <2>1 DEF TypeOK
    <3>2. authorised'[e] >= authorised[e] /\ (s = "prepared" => taken[e] < authorised'[e])
      BY <1>0, <2>1, <3>1 DEF Owed
    <3>3. ~ \E w \in Workers : Holds(w)' /\ EventOf(w)' = e
      BY <1>0, <1>2
    <3> QED
      BY <2>1, <3>1, <3>2, <3>3 DEF RecordAllows
  <2> QED
    BY <2>2, <2>3
<1>3. CASE Ledger!Fail(e) /\ \A f \in Events \ {e} : lease'[f] = lease[f]
  <2>1. /\ status' = [status EXCEPT ![e] = "failed"]
        /\ UNCHANGED <<taken, permit, authorised>>
    BY <1>3 DEF Ledger!Fail, Ledger!Become
  <2>2. ASSUME NEW f \in Events PROVE RecordAllows(f)
    <3>1. CASE f = e
      BY <1>0, <2>1, <3>1 DEF TypeOK, RecordAllows
    <3>2. CASE f # e
      <4>1. status'[f] = status[f] /\ lease'[f] = lease[f]
        BY <1>0, <1>3, <2>1, <3>2 DEF TypeOK
      <4> QED
        BY <1>0, <2>1, <4>1 DEF RecordAllows, Owed
    <3> QED
      BY <3>1, <3>2
  <2> QED
    BY <2>2
<1> QED
  BY <1>1, <1>2, <1>3

LEMMA OtherLeasesStay ==
    ASSUME TypeOK, NEW e \in Events, LeaseFollowsRecord(e)
    PROVE  \A f \in Events \ {e} : lease'[f] = lease[f]
  BY DEF TypeOK, LeaseFollowsRecord

\* An invocation that is not sending turns to something else than sending.
LEMMA OthersStay ==
    ASSUME NEW w \in Workers, run'[w].pc \notin {"send", "mark"}, run[w].pc # "send",
           \A v \in Workers \ {w} : run'[v] = run[v]
    PROVE  HoldersStay
  BY DEF HoldersStay, Holds

\* Nobody holds a claim of a record that is not being sent.
LEMMA FreeRecordsHaveNoHolder ==
    ASSUME Claims, NEW w \in Workers, Holds(w)
    PROVE  status[EventOf(w)] \in {"sending", "failed"} /\ EventOf(w) \in Events
  BY HoldersWork DEF Claims, HoldsClaim

LEMMA ClaimsHandled ==
    ASSUME Claims, NEW w \in Workers, Handle(w), ~Claim(w), ~Send(w)
    PROVE  Claims'
<1> DEFINE e == EventOf(w)
<1>0. /\ QInv /\ QInv' /\ TypeOK /\ InHand(w) /\ run[w] \in Run /\ run \in [Workers -> Run]
      /\ run[w].pc \notin {"idle", "next"} => e \in Events
  BY QueueStep, HoldersWork DEF Claims, QInv, Next, TypeOK
<1>1. HoldersStay /\ UNCHANGED body
  <2>1. CASE Report(w)
    <3>1. run'[w] = Idle /\ (\A v \in Workers \ {w} : run'[v] = run[v])
          /\ run[w].pc = "next" /\ UNCHANGED body
      BY <1>0, <2>1 DEF Report
    <3> QED
      BY <3>1, OthersStay DEF Idle
  <2>2. CASE ~Report(w)
    <3>1. /\ Progress(w) /\ UNCHANGED body /\ HandlerKinds(w)
      BY <1>0, <2>2, HandlerStep, HandlerIsOfAKind
    <3>2. run[w].pc # "send"
      BY <1>0, <2>2 DEF Handle, Take, Sweep, Prepare, TurnAway, Postpone, FailCheck,
         Mark, MarkConflict
    <3>3. run'[w].pc \notin {"send", "mark"}
      <4>1. CASE run[w].pc = "attempt"
        <5>1. \E outcome \in {"processed", "retry"} : Answer(w, outcome)
          BY <2>2, <4>1 DEF Handle, Take, Sweep, Prepare, TurnAway, Postpone, FailCheck,
             Mark, MarkConflict, OutcomeOf
        <5> QED
          BY <1>0, <4>1, <5>1, AnswerIsDone DEF IsDone
      <4> QED
        BY <3>1, <3>2, <4>1 DEF HandlerKinds, TakesUp, StepsOn, IsDone
    <3> QED
      BY <3>1, <3>2, <3>3, OthersStay DEF Progress
  <2> QED
    BY <2>1, <2>2
<1>2. \A f \in Events : RecordAllows(f)
  <2>1. CASE UNCHANGED <<ledger, lease>>
    BY <1>1, <2>1 DEF ledger, RecordAllows, Claims, Owed, QInv, TypeOK
  <2>2. CASE Sweep(w)
    <3>1. /\ e \in Events /\ Ledger!Settle(e) /\ LeaseFollowsRecord(e)
          /\ status[e] = "sending" /\ Expired(w)
      BY <1>0, <2>2 DEF Sweep
    <3>2. \A v \in Workers : Holds(v)' => EventOf(v) # e
      BY <1>1, <3>1, StaleClaimsAreAbandoned DEF HoldersStay, Holds
    <3> QED
      BY <1>0, <1>1, <3>1, <3>2, OtherLeasesStay, RecordsAllow
  <2>3. CASE Prepare(w) /\ status[e] = "absent"
    <3>1. e \in Events /\ Ledger!Register(e) /\ UNCHANGED lease
      BY <1>0, <2>3 DEF Prepare
    <3>2. \A v \in Workers : Holds(v)' => EventOf(v) # e
      BY <1>1, <2>3, FreeRecordsHaveNoHolder DEF HoldersStay, Holds
    <3> QED
      BY <1>1, <3>1, <3>2, RecordsAllow
  <2>4. CASE FailCheck(w)
    <3>1. e \in Events /\ Ledger!Fail(e) /\ LeaseFollowsRecord(e)
      BY <1>0, <2>4 DEF FailCheck
    <3> QED
      BY <1>0, <1>1, <3>1, OtherLeasesStay, RecordsAllow
  <2>5. CASE Mark(w)
    <3>1. /\ e \in Events /\ MarkUpdate(e, run[w].result) /\ LeaseFollowsRecord(e)
          /\ run[w].pc = "mark" /\ run[w].result \in Results
          /\ \E outcome \in {"retry", OutcomeOf(status'[e])} : Answer(w, outcome)
      BY <1>0, <2>5 DEF Mark, InHand
    <3>2. Ledger!Settle(e) \/ Ledger!Retry(e) \/ Ledger!Fail(e)
      BY <3>1 DEF MarkUpdate, Results
    <3>3. run'[w].pc = "next"
      BY <1>0, <3>1, AnswerIsDone DEF IsDone
    <3>4. \A v \in Workers : Holds(v)' => EventOf(v) # e
      BY <1>1, <3>1, <3>3 DEF HoldersStay, Holds, Claims, OneHolderEach
    <3> QED
      BY <1>0, <1>1, <3>1, <3>2, <3>4, OtherLeasesStay, RecordsAllow
  <2> QED
    BY <2>1, <2>2, <2>3, <2>4, <2>5
       DEF Handle, Take, Report, Prepare, TurnAway, Postpone, MarkConflict
<1> QED
  BY <1>0, <1>1, <1>2, ClaimsKept

(***************************************************************************)
(* A claim, its end, and time.                                             *)
(***************************************************************************)

\* One invocation's part in the invariant, when only its record is touched.
LEMMA ClaimsElsewhere ==
    ASSUME Claims, NEW w \in Workers, NEW e \in Events, UNCHANGED body,
           \A v \in Workers \ {w} : run'[v] = run[v] /\ (Holds(v) => EventOf(v) # e),
           \A f \in Events \ {e} :
              /\ status'[f] = status[f] /\ lease'[f] = lease[f] /\ permit'[f] = permit[f]
              /\ taken'[f] = taken[f] /\ authorised'[f] = authorised[f],
           Holds(w) => EventOf(w) = e,
           Holds(w)' => EventOf(w)' = e
    PROVE  /\ \A v \in Workers \ {w} : HoldsClaim(v)'
           /\ \A f \in Events \ {e} : Owed(f)' /\ PermitHeld(f)'
           /\ OneHolderEach'
<1>0. \A v \in Workers \ {w} :
         /\ EventOf(v)' = EventOf(v) /\ (Holds(v)' <=> Holds(v))
         /\ Holds(v) => EventOf(v) \in Events \ {e}
  BY HoldersWork DEF Claims, EventOf, Holds
<1>1. \A v \in Workers \ {w} : HoldsClaim(v)'
  BY <1>0 DEF Claims, HoldsClaim
<1>2. ASSUME NEW f \in Events \ {e} PROVE Owed(f)' /\ PermitHeld(f)'
  <2>1. Owed(f)'
    BY DEF Claims, Owed
  <2>2. ASSUME permit[f] PROVE \E v \in Workers : run'[v].pc = "send" /\ EventOf(v)' = f
    <3>1. PICK v \in Workers : run[v].pc = "send" /\ Holds(v) /\ EventOf(v) = f
      BY <2>2, PermitsAreHeld
    <3> QED
      BY <1>0, <3>1
  <2> QED
    BY <2>1, <2>2 DEF PermitHeld
<1>3. OneHolderEach'
  BY <1>0 DEF Claims, OneHolderEach
<1> QED
  BY <1>1, <1>2, <1>3

LEMMA ClaimsClaimed ==
    ASSUME Claims, NEW w \in Workers, Claim(w)
    PROVE  Claims'
<1> SUFFICES ASSUME NEW e \in Events, e = EventOf(w) PROVE Claims'
  BY HoldersWork DEF Claims, Claim
<1>0. /\ QInv /\ QInv' /\ TypeOK /\ run[w] \in Run /\ run \in [Workers -> Run]
      /\ run[w].pc = "attempt" /\ e \in Events /\ UNCHANGED body
  BY QueueStep, HoldersWork DEF Claims, QInv, Next, Handle, TypeOK, Claim
<1>1. /\ Ledger!Attempt(e) /\ lease' = [lease EXCEPT ![e] = Lease - run[w].age]
      /\ permit'[e] => run' = [run EXCEPT ![w].pc = "send"]
      /\ ~permit'[e] => Answer(w, "retry")
  BY DEF Claim
<1>2. /\ status[e] = "prepared" /\ status' = [status EXCEPT ![e] = "sending"]
      /\ UNCHANGED <<taken, authorised>> /\ taken[e] < authorised[e]
      /\ \A f \in Events \ {e} : permit'[f] = permit[f]
  BY <1>0, <1>1 DEF Ledger!Attempt, Ledger!Become, TypeOK
<1>3. status'[e] = "sending" /\ lease'[e] = Lease - run[w].age
  BY <1>0, <1>1, <1>2 DEF TypeOK
<1>4. \A f \in Events \ {e} : status'[f] = status[f] /\ lease'[f] = lease[f]
  BY <1>0, <1>1, <1>2 DEF TypeOK
<1>5. \A v \in Workers \ {w} : run'[v] = run[v] /\ (Holds(v) => EventOf(v) # e)
  <2>1. \A v \in Workers : Holds(v) => EventOf(v) # e
    BY <1>2, FreeRecordsHaveNoHolder
  <2>2. \A v \in Workers \ {w} : run'[v] = run[v]
    BY <1>0, <1>1 DEF Answer
  <2> QED
    BY <2>1, <2>2
<1>6. CASE permit'[e]
  <2>1. /\ run'[w].pc = "send" /\ run'[w].message = run[w].message
        /\ run'[w].age = run[w].age
    BY <1>0, <1>1, <1>6 DEF Run
  <2>2. EventOf(w)' = e
    BY <1>0, <2>1 DEF EventOf
  <2>3. HoldsClaim(w)'
    BY <1>2, <1>3, <1>6, <2>1, <2>2 DEF HoldsClaim
  <2>4. Owed(e)' /\ PermitHeld(e)'
    BY <1>0, <1>2, <1>3, <2>1, <2>2 DEF Owed, PermitHeld, Claims
  <2>5. ~Holds(w)
    BY <1>0 DEF Holds
  <2> QED
    BY <1>0, <1>2, <1>4, <1>5, <2>2, <2>3, <2>4, <2>5, ClaimsElsewhere DEF Claims
<1>7. CASE ~permit'[e]
  <2>1. run'[w].pc = "next"
    BY <1>0, <1>1, <1>7, AnswerIsDone DEF IsDone
  <2>2. ~Holds(w) /\ ~Holds(w)'
    BY <1>0, <2>1 DEF Holds
  <2>3. HoldsClaim(w)'
    BY <2>2 DEF HoldsClaim
  <2>4. Owed(e)' /\ PermitHeld(e)'
    BY <1>0, <1>2, <1>3, <1>7 DEF Owed, PermitHeld, Claims
  <2> QED
    BY <1>0, <1>2, <1>4, <1>5, <2>2, <2>3, <2>4, ClaimsElsewhere DEF Claims
<1> QED
  BY <1>6, <1>7

\* The permit is used, or goes with its invocation.
LEMMA ClaimsConcluded ==
    ASSUME Claims, NEW w \in Workers,
           Send(w) \/ (Stop(w) /\ run[w].pc = "send")
    PROVE  Claims'
<1> SUFFICES ASSUME NEW e \in Events, e = EventOf(w) PROVE Claims'
  BY HoldersWork DEF Claims, Send, Stop
<1>0. /\ QInv /\ QInv' /\ TypeOK /\ run[w] \in Run /\ run \in [Workers -> Run]
      /\ run[w].pc = "send" /\ Holds(w) /\ e \in Events /\ UNCHANGED <<lease, body>>
  BY QueueStep, HoldersWork DEF Claims, QInv, Next, Handle, TypeOK, Send, Stop, Holds
<1>1. /\ UNCHANGED <<status, attempts, authorised>>
      /\ permit' = [permit EXCEPT ![e] = FALSE]
      /\ \E n \in {0, 1} : taken' = [taken EXCEPT ![e] = @ + n]
  BY DEF Send, Stop, Ledger!Conclude
<1>2. PICK n \in {0, 1} : taken' = [taken EXCEPT ![e] = @ + n]
  BY <1>1
<1>3. /\ taken[e] \in Nat /\ authorised[e] \in Nat
      /\ taken'[e] = taken[e] + n /\ ~permit'[e] /\ taken[e] < authorised[e]
      /\ status[e] \in {"sending", "failed"}
      /\ status[e] = "sending" => lease[e] = Lease - run[w].age
  BY <1>0, <1>1, <1>2 DEF TypeOK, Claims, HoldsClaim
<1>4. \A f \in Events \ {e} : permit'[f] = permit[f] /\ taken'[f] = taken[f]
  BY <1>0, <1>1, <1>2 DEF TypeOK
<1>5. \A v \in Workers \ {w} : run'[v] = run[v] /\ (Holds(v) => EventOf(v) # e)
  <2>1. \A v \in Workers \ {w} : run'[v] = run[v]
    BY <1>0 DEF Send, Stop
  <2>2. \A v \in Workers \ {w} : Holds(v) => EventOf(v) # e
    BY <1>0 DEF Claims, OneHolderEach
  <2> QED
    BY <2>1, <2>2
<1>6. Owed(e)' /\ PermitHeld(e)'
  BY <1>1, <1>3 DEF Owed, PermitHeld
<1>7. HoldsClaim(w)' /\ (Holds(w)' => EventOf(w)' = e)
  <2>1. CASE Send(w)
    <3>1. PICK result \in IF taken'[e] > taken[e] THEN {"accepted", "ambiguous"}
                          ELSE Results \ {"accepted"} :
             run' = [run EXCEPT ![w].pc = "mark", ![w].result = result]
      BY <2>1 DEF Send
    <3>2. /\ run'[w].pc = "mark" /\ run'[w].result = result
          /\ run'[w].message = run[w].message /\ run'[w].age = run[w].age
      BY <1>0, <3>1 DEF Run
    <3>3. /\ result = "accepted" => taken'[e] >= 1
          /\ result = "transient" => taken'[e] < authorised'[e]
      BY <1>1, <1>3, <3>1
    <3>4. EventOf(w)' = e
      BY <1>0, <3>2 DEF EventOf
    <3> QED
      BY <1>0, <1>1, <1>3, <3>2, <3>3, <3>4 DEF HoldsClaim
  <2>2. CASE Stop(w)
    <3>1. run'[w] = Idle
      BY <1>0, <2>2 DEF Stop
    <3> QED
      BY <3>1 DEF Idle, HoldsClaim, Holds
  <2> QED
    BY <2>1, <2>2
<1> QED
  BY <1>0, <1>1, <1>4, <1>5, <1>6, <1>7, ClaimsElsewhere DEF Claims

\* A lease runs down as its holder grows older.
LEMMA ClaimsTick ==
    ASSUME Claims, Tick
    PROVE  Claims'
<1>0. /\ QInv /\ QInv' /\ TypeOK /\ UNCHANGED <<ledger, body>>
      /\ lease' = [f \in Events |-> IF lease[f] > NoLease THEN lease[f] - 1 ELSE NoLease]
  BY QueueStep DEF Claims, QInv, Next, Tick
<1>1. ASSUME NEW w \in Workers
      PROVE  /\ run'[w].pc = run[w].pc /\ run'[w].message = run[w].message
             /\ run'[w].result = run[w].result
             /\ Holds(w) => run'[w].age = run[w].age + 1
             /\ EventOf(w)' = EventOf(w) /\ (Holds(w)' <=> Holds(w))
  <2>1. run[w] \in Run
    BY <1>0 DEF TypeOK
  <2>2. run'[w] = IF run[w].pc = "idle" THEN run[w] ELSE [run[w] EXCEPT !.age = @ + 1]
    BY DEF Tick
  <2>3. /\ run'[w].pc = run[w].pc /\ run'[w].message = run[w].message
        /\ run'[w].result = run[w].result
        /\ run[w].pc # "idle" => run'[w].age = run[w].age + 1
    BY <2>1, <2>2 DEF Run
  <2> QED
    BY <1>0, <2>3 DEF EventOf, Holds
<1>2. ASSUME NEW w \in Workers, Holds(w) PROVE HoldsClaim(w)'
  <2> DEFINE e == EventOf(w)
  <2>1. e \in Events /\ run[w].age \in 0..Timeout /\ HoldsClaim(w)
    BY <1>0, <1>2, HoldersWork DEF Claims
  <2>2. ASSUME status[e] = "sending" PROVE lease'[e] = Lease - run'[w].age
    <3>1. lease[e] = Lease - run[w].age
      BY <1>2, <2>1, <2>2 DEF HoldsClaim
    <3>2. lease[e] > NoLease
      BY <2>1, <3>1, Sizes, LeaseOutlivesTimeout DEF NoLease
    <3> QED
      BY <1>0, <1>1, <1>2, <2>1, <3>1, <3>2, Sizes
  <2> QED
    BY <1>0, <1>1, <1>2, <2>1, <2>2 DEF HoldsClaim, ledger
<1>3. \A e \in Events : Owed(e)' /\ PermitHeld(e)'
  BY <1>0, <1>1 DEF Claims, Owed, PermitHeld, ledger
<1>4. OneHolderEach'
  BY <1>1 DEF Claims, OneHolderEach
<1> QED
  BY <1>0, <1>1, <1>2, <1>3, <1>4 DEF Claims, HoldsClaim

LEMMA ClaimsStep == Claims /\ [Next]_vars => Claims'
<1> SUFFICES ASSUME Claims, [Next]_vars PROVE Claims'
  OBVIOUS
<1>0. QInv /\ QInv' /\ TypeOK
  BY QueueStep DEF Claims, QInv
<1>1. ASSUME HoldersStay, UNCHANGED <<ledger, lease, body>> PROVE Claims'
  <2>1. \A e \in Events : RecordAllows(e)
    BY <1>1 DEF Claims, Owed, RecordAllows, ledger, QInv, TypeOK
  <2> QED
    BY <1>0, <1>1, <2>1, ClaimsKept
<1>2. ASSUME NEW w \in Workers, Handle(w) PROVE Claims'
  BY <1>2, ClaimsHandled, ClaimsClaimed, ClaimsConcluded
<1>3. ASSUME NEW w \in Workers, Stop(w) PROVE Claims'
  <2>1. CASE run[w].pc = "send"
    BY <1>3, <2>1, ClaimsConcluded
  <2>2. CASE run[w].pc # "send"
    <3>1. /\ run'[w] = Idle /\ \A v \in Workers \ {w} : run'[v] = run[v]
          /\ UNCHANGED <<ledger, lease, body>>
      BY <1>0, <1>3, <2>2 DEF Stop, TypeOK
    <3>2. HoldersStay
      BY <2>2, <3>1, OthersStay DEF Idle
    <3> QED
      BY <1>1, <3>1, <3>2
  <2> QED
    BY <2>1, <2>2
<1>4. ASSUME NEW w \in Workers, NEW batch \in SUBSET Messages, Receive(w, batch)
      PROVE  Claims'
  <2>1. HoldersStay
    BY <1>0, <1>4, ReceiveStarts, OthersStay DEF Idle
  <2> QED
    BY <1>1, <1>4, <2>1 DEF Receive
<1>5. CASE Tick
  BY <1>5, ClaimsTick
<1>6. CASE (\E m \in Messages : DeadLetter(m)) \/ UNCHANGED vars
  <2>1. UNCHANGED <<ledger, lease, body, run>>
    BY <1>6 DEF DeadLetter, vars
  <2>2. HoldersStay
    BY <2>1 DEF HoldersStay, Holds
  <2> QED
    BY <1>1, <2>1, <2>2
<1>7. ASSUME NEW e \in Events, Reconcile(e) PROVE Claims'
  <2>1. /\ Ledger!Confirm(e) \/ Ledger!Authorise(e)
        /\ UNCHANGED <<lease, body, run>>
    BY <1>7 DEF Reconcile
  <2>2. HoldersStay
    BY <2>1 DEF HoldersStay, Holds
  <2>3. status[e] = "uncertain"
    BY <2>1 DEF Ledger!Confirm, Ledger!Authorise
  <2>4. \A w \in Workers : Holds(w)' => EventOf(w) # e
    BY <2>1, <2>3, FreeRecordsHaveNoHolder DEF Holds
  <2>5. \A f \in Events : RecordAllows(f)
    BY <2>1, <2>2, <2>4, RecordsAllow
  <2> QED
    BY <1>0, <2>1, <2>2, <2>5, ClaimsKept
<1> QED
  BY <1>2, <1>3, <1>4, <1>5, <1>6, <1>7 DEF Next

LEMMA ClaimsInit == Init => Claims
<1> SUFFICES ASSUME Init PROVE Claims
  OBVIOUS
<1>1. \A w \in Workers : ~Holds(w)
  BY DEF Init, Idle, Holds
<1>2. \A e \in Events : Owed(e) /\ PermitHeld(e)
  BY DEF Init, Ledger!Init, Owed, PermitHeld
<1> QED
  BY <1>1, <1>2, QueueInit DEF Claims, HoldsClaim, OneHolderEach

(***************************************************************************)
(* Timers and batches as custody.                                          *)
(***************************************************************************)

CustodyOf == [w \in Workers |-> run[w].batch]

AcceptedMessages ==
    {m \in Messages : body[m] \in Events /\ status[body[m]] = "accepted_by_smtp"}

\* A step that hands nothing out or back can only add to what is accepted.
LEMMA AcceptsOnly ==
    ASSUME AcceptedStays, UNCHANGED <<place, receives, body>>,
           \A w \in Workers : run'[w].batch = run[w].batch
    PROVE  Custody!Accept
<1>1. UNCHANGED CustodyOf
  BY DEF CustodyOf
<1>2. AcceptedMessages \subseteq AcceptedMessages'
  BY DEF AcceptedMessages, AcceptedStays
<1>3. AcceptedMessages' \subseteq Messages
  BY DEF AcceptedMessages
<1> QED
  BY <1>1, <1>2, <1>3 DEF Custody!Accept, CustodyOf, AcceptedMessages

\* An invocation that ends hands its batch back, done with what it processed.
LEMMA HandsBack ==
    ASSUME QInv, NEW w \in Workers, NEW done \in SUBSET Messages,
           done \subseteq run[w].batch, done \subseteq AcceptedMessages,
           run' = [run EXCEPT ![w] = Idle], UNCHANGED <<receives, body, status>>,
           place' = [m \in Messages |-> IF m \in done THEN "deleted" ELSE place[m]]
    PROVE  Custody!Next
<1>1. CustodyOf' = [CustodyOf EXCEPT ![w] = {}]
  <2>1. \A v \in Workers : run'[v].batch = IF v = w THEN {} ELSE run[v].batch
    BY DEF QInv, TypeOK, Idle
  <2> QED
    BY <2>1 DEF CustodyOf
<1>2. UNCHANGED AcceptedMessages
  BY DEF AcceptedMessages
<1>3. done \subseteq CustodyOf[w] \cap AcceptedMessages
  BY DEF CustodyOf
<1>4. Custody!HandBack(w, done)
  BY <1>1, <1>2, <1>3 DEF Custody!HandBack, CustodyOf, AcceptedMessages
<1> QED
  BY <1>4 DEF Custody!Next

LEMMA NobodyHasVisible ==
    ASSUME QInv, NEW m \in Messages, Visible(m)
    PROVE  Custody!Free(m)
<1>1. \A w \in Workers : m \notin CustodyOf[w]
  BY VisibleIsNowhere DEF CustodyOf
<1> QED
  BY <1>1 DEF Custody!Free, CustodyOf, Visible

LEMMA HandsOut ==
    ASSUME QInv, NEW w \in Workers, NEW batch \in SUBSET Messages, Receive(w, batch)
    PROVE  Custody!HandOut(w, batch)
<1>0. /\ run \in [Workers -> Run] /\ run[w] = Idle /\ UNCHANGED <<status, body, place>>
      /\ run' = [run EXCEPT ![w] = [Idle EXCEPT !.pc = "next", !.batch = batch,
                                                !.todo = batch]]
      /\ receives' = [m \in Messages |-> receives[m] + IF m \in batch THEN 1 ELSE 0]
      /\ \A m \in batch : Visible(m) /\ receives[m] < MaxReceives
  BY DEF QInv, TypeOK, InHand, Receive, ledger
<1>1. CustodyOf' = [CustodyOf EXCEPT ![w] = batch]
  <2>1. \A v \in Workers : run'[v].batch = IF v = w THEN batch ELSE run[v].batch
    BY <1>0 DEF Idle
  <2> QED
    BY <2>1 DEF CustodyOf
<1>2. CustodyOf[w] = {}
  BY <1>0 DEF CustodyOf, Idle
<1>3. UNCHANGED AcceptedMessages
  BY <1>0 DEF AcceptedMessages
<1>4. \A m \in batch : Custody!Free(m)
  BY <1>0, NobodyHasVisible
<1> QED
  BY <1>0, <1>1, <1>2, <1>3, <1>4 DEF Custody!HandOut, CustodyOf, AcceptedMessages

LEMMA CustodyStep == QInv /\ [Next]_vars => [Custody!Next]_Custody!vars
<1> SUFFICES ASSUME QInv, [Next]_vars PROVE [Custody!Next]_Custody!vars
  OBVIOUS
<1>0. TypeOK
  BY DEF QInv
<1>1. ASSUME NEW w \in Workers, Handle(w), ~Report(w) PROVE Custody!Next
  <2>1. Progress(w) /\ UNCHANGED <<body, queue>> /\ AcceptedStays
    BY <1>1, HandlerStep DEF QInv
  <2>2. \A v \in Workers : run'[v].batch = run[v].batch
    BY <2>1 DEF Progress
  <2> QED
    BY <2>1, <2>2, AcceptsOnly DEF queue, Custody!Next
<1>2. ASSUME NEW w \in Workers, Report(w) PROVE Custody!Next
  <2>1. /\ run[w].processed \in SUBSET Messages
        /\ run[w].processed \subseteq run[w].batch
        /\ run[w].processed \subseteq AcceptedMessages
    BY <1>0 DEF QInv, InHand, Processed, TypeOK, Run, AcceptedMessages
  <2>2. PICK done \in SUBSET Messages : done = run[w].processed
    BY <2>1
  <2> QED
    BY <1>2, <2>1, <2>2, HandsBack DEF Report, ledger
<1>3. ASSUME NEW w \in Workers, Stop(w) PROVE Custody!Next
  <2>1. /\ run' = [run EXCEPT ![w] = Idle] /\ UNCHANGED <<status, body, place, receives>>
    BY <1>3 DEF Stop, Ledger!Conclude, ledger, queue
  <2>2. PICK done \in SUBSET Messages : done = {}
    OBVIOUS
  <2>3. place' = [m \in Messages |-> IF m \in done THEN "deleted" ELSE place[m]]
    BY <1>0, <2>1, <2>2 DEF TypeOK
  <2>4. done \subseteq run[w].batch /\ done \subseteq AcceptedMessages
    BY <2>2
  <2> QED
    BY <2>1, <2>3, <2>4, HandsBack
<1>4. ASSUME NEW w \in Workers, NEW batch \in SUBSET Messages, Receive(w, batch)
      PROVE  Custody!Next
  BY <1>4, HandsOut DEF Custody!Next
<1>5. ASSUME NEW m \in Messages, DeadLetter(m) PROVE Custody!Next
  <2>1. /\ Visible(m) /\ receives[m] = MaxReceives /\ place' = [place EXCEPT ![m] = "dead"]
        /\ UNCHANGED <<receives, status, body, run>>
    BY <1>5 DEF DeadLetter, ledger
  <2>2. UNCHANGED <<CustodyOf, AcceptedMessages>>
    BY <2>1 DEF CustodyOf, AcceptedMessages
  <2>3. Custody!Bury(m)
    BY <2>1, <2>2, NobodyHasVisible DEF Custody!Bury, CustodyOf, AcceptedMessages
  <2> QED
    BY <2>3 DEF Custody!Next
<1>6. ASSUME NEW e \in Events, Reconcile(e) PROVE Custody!Next
  <2>1. /\ Ledger!Confirm(e) \/ Ledger!Authorise(e)
        /\ UNCHANGED <<body, queue, run>>
    BY <1>6 DEF Reconcile
  <2>2. AcceptedStays
    BY <1>0, <2>1, LedgerMoves DEF LedgerMove
  <2> QED
    BY <2>1, <2>2, AcceptsOnly DEF queue, Custody!Next
<1>7. CASE Tick \/ UNCHANGED vars
  <2>1. /\ UNCHANGED <<place, receives, body, status>>
        /\ \A w \in Workers : run'[w].batch = run[w].batch
    <3>1. CASE Tick
      <4>1. ASSUME NEW w \in Workers PROVE run'[w].batch = run[w].batch
        <5>1. run[w] \in Run
          BY <1>0 DEF TypeOK
        <5>2. run'[w] = IF run[w].pc = "idle" THEN run[w] ELSE [run[w] EXCEPT !.age = @ + 1]
          BY <3>1 DEF Tick
        <5> QED
          BY <5>1, <5>2 DEF Run
      <4> QED
        BY <3>1, <4>1 DEF Tick, ledger
    <3>2. CASE UNCHANGED vars
      BY <3>2 DEF vars, ledger, queue
    <3> QED
      BY <1>7, <3>1, <3>2
  <2>2. UNCHANGED <<CustodyOf, AcceptedMessages>>
    BY <2>1 DEF CustodyOf, AcceptedMessages
  <2> QED
    BY <2>1, <2>2 DEF Custody!vars, CustodyOf, AcceptedMessages
<1> QED
  BY <1>1, <1>2, <1>3, <1>4, <1>5, <1>6, <1>7 DEF Next

(***************************************************************************)
(* The theorems.                                                           *)
(***************************************************************************)

\* Two invocations never have one message in hand, whatever the sizes.
THEOREM MessagesAreHandledAlone == Spec => []OneInvocationPerMessage
<1>1. QInv => OneInvocationPerMessage
  BY DEF QInv
<1> QED
  BY <1>1, QueueInvariance, PTL

\* A message is deleted only for an event whose record says accepted: nothing
\* malformed, foreign or unfinished disappears.
THEOREM NothingLostSilently == Spec => []DeletedMeansAccepted
<1>1. QInv => DeletedMeansAccepted
  BY DEF QInv
<1> QED
  BY <1>1, QueueInvariance, PTL

\* The queue and its handler stay within their types; the budget is kept and
\* no message is received more often than the redrive policy says.
THEOREM TypeCorrect == Spec => []TypeOK
<1>1. QInv => TypeOK
  BY DEF QInv
<1> QED
  BY <1>1, QueueInvariance, PTL

\* Whoever is delivered a message again finds the lease of the claim before it
\* over, whatever the sizes: the timeout and the lease together are shorter than
\* the visibility timeout.
THEOREM RedeliverySettles == Spec => []RedeliveryFindsLeaseOver
<1>1. Redelivery => RedeliveryFindsLeaseOver
  <2> SUFFICES ASSUME Redelivery, NEW w \in Workers, run[w].pc = "prepare"
               PROVE  \/ Expired(w)
                      \/ \E m \in Messages \ {run[w].message} : body[m] = EventOf(w)
    BY DEF RedeliveryFindsLeaseOver
  <2> DEFINE d == run[w].message
  <2>1. d \in Messages /\ EventOf(w) \in Events /\ run[w].age \in 0..Timeout
    BY DEF Redelivery, QInv, InHand, EventOf, TypeOK, Run
  <2>2. CASE Sole(d)
    <3>1. IsAhead(d)
      BY DEF IsAhead, Ahead
    <3>2. lease[EventOf(w)] = NoLease
      BY <2>1, <2>2, <3>1 DEF Redelivery, LeaseEnds, LeaseEndsOf, EventOf
    <3> QED
      BY <2>1, <3>2, Sizes DEF Expired, NoLease
  <2>3. CASE ~Sole(d)
    BY <2>1, <2>3 DEF Sole, EventOf
  <2> QED
    BY <2>2, <2>3
<1>2. Spec => []Redelivery
  BY RedeliveryInit, RedeliveryStep, PTL DEF Spec
<1> QED
  BY <1>1, <1>2, PTL

\* A message is dead-lettered with its record unfinished only after a receive
\* that made no attempt of its own, for any budget no larger than the number of
\* receives.
THEOREM DeadLettersHaveACause == Spec => []StrandedForACause
<1>1. Counting => StrandedForACause
  <2> SUFFICES ASSUME Counting, NEW m \in Messages, place[m] = "dead",
                      m \notin spoiled, body[m] \in Events
               PROVE  status[body[m]] \in {"uncertain", "accepted_by_smtp", "failed"}
    BY DEF StrandedForACause
  <2>0. /\ QInv /\ TypeOK /\ AttemptCounted(m) /\ receives[m] = MaxReceives
        /\ LedgerBudget
    BY DEF Counting, QInv
  <2>1. \A w \in Workers : m \notin run[w].batch
    BY <2>0 DEF QInv, Hidden
  <2>2. ~IsAhead(m)
    BY <2>0, <2>1, AheadInBatch DEF IsAhead
  <2>3. ~Mine(m)
    BY <2>0, <2>1, NamesAssumption DEF QInv, InHand, Mine
  <2>4. attempts[body[m]] \in 0..Budget
    BY <2>0 DEF TypeOK
  <2>5. attempts[body[m]] = Budget /\ status[body[m]] # "sending"
    BY <2>0, <2>2, <2>3, <2>4, Sizes, BudgetFitsReceives
       DEF AttemptCounted, Coming, Foreign
  <2>6. status[body[m]] \notin {"absent", "prepared"}
    BY <2>0, <2>5, Sizes DEF LedgerBudget
  <2> QED
    BY <2>0, <2>5, <2>6 DEF TypeOK
<1>2. Spec => []Counting
  BY CountingInit, CountingStep, PTL DEF Spec
<1> QED
  BY <1>1, <1>2, PTL

\* No guard of the ledger ever keeps the handler from what it decided, for any
\* sizes with a lease longer than the timeout: stale claims are abandoned ones,
\* and a result is recorded for the claim it belongs to.
THEOREM HandlerIsAllowed == Spec => []LedgerAllowsHandler
<1>1. Claims => LedgerAllowsHandler
  <2> SUFFICES ASSUME Claims, NEW w \in Workers, NEW e, e = EventOf(w)
               PROVE
        /\ run[w].pc \in {"prepare", "attempt"} /\ status[e] = "sending" /\ Expired(w) =>
              ~permit[e]
        /\ run[w].pc = "attempt" /\ status[e] = "prepared" =>
              ~permit[e] /\ taken[e] < authorised[e]
        /\ run[w].pc = "send" => permit[e] /\ status[e] \in {"sending", "failed"}
        /\ run[w].pc = "mark" => status[e] \in {"sending", "failed"}
        /\ run[w].pc = "mark" /\ status[e] = "sending" =>
              /\ ~permit[e]
              /\ run[w].result = "accepted" => taken[e] >= 1
              /\ run[w].result = "transient" => taken[e] < authorised[e]
    BY DEF LedgerAllowsHandler
  <2>1. run[w].pc \notin {"idle", "next"} => e \in Events
    BY HoldersWork DEF Claims
  <2>2. ASSUME run[w].pc \in {"prepare", "attempt"}, status[e] = "sending", Expired(w)
        PROVE  ~permit[e]
    BY <2>1, <2>2, StaleClaimsAreAbandoned, PermitsAreHeld
  <2>3. ASSUME run[w].pc = "attempt", status[e] = "prepared"
        PROVE  ~permit[e] /\ taken[e] < authorised[e]
    BY <2>1, <2>3, FreeRecordsHaveNoHolder, PermitsAreHeld DEF Claims, Owed
  <2>4. ASSUME Holds(w)
        PROVE  /\ status[e] \in {"sending", "failed"}
               /\ run[w].pc = "send" => permit[e]
               /\ run[w].pc = "mark" =>
                     /\ run[w].result = "accepted" => taken[e] >= 1
                     /\ run[w].result = "transient" => taken[e] < authorised[e]
    BY <2>4 DEF Claims, HoldsClaim
  <2>5. ASSUME run[w].pc = "mark" PROVE ~permit[e]
    <3>1. Holds(w) /\ e \in Events
      BY <2>1, <2>5 DEF Holds
    <3>2. ASSUME permit[e] PROVE FALSE
      <4>1. PICK v \in Workers : run[v].pc = "send" /\ Holds(v) /\ EventOf(v) = e
        BY <3>1, <3>2, PermitsAreHeld
      <4> QED
        BY <2>5, <3>1, <4>1 DEF Claims, OneHolderEach
    <3> QED
      BY <3>2
  <2> QED
    BY <2>2, <2>3, <2>4, <2>5 DEF Holds
<1>2. Spec => []Claims
  BY ClaimsInit, ClaimsStep, PTL DEF Spec
<1> QED
  BY <1>1, <1>2, PTL

\* Visibility timeouts, batches and partial responses implement the custody of
\* messages, for any sizes the assumptions allow: initial states map to initial
\* states, and each step to one of MessageCustody or to none.
THEOREM QueueKeepsCustody == Spec => ImplementsCustody
<1>1. Init => Custody!Init
  BY DEF Init, Ledger!Init, Custody!Init, Idle
<1> QED
  BY <1>1, CustodyStep, QueueInvariance, PTL DEF Spec, ImplementsCustody, Custody!Spec

=============================================================================
