--------------------------- MODULE NotificationQueue ---------------------------
(***************************************************************************)
(* The notification queue, the batch handler behind it and the dead-letter   *)
(* queue, over the ledger that DeliveryLifecycle specifies.  A message that  *)
(* the handler does not report as processed is hidden until its visibility   *)
(* timeout runs out and is then received again, five times in all.          *)
(*                                                                         *)
(* Time is kept in timers that count down, so that it needs no bound.  What  *)
(* an invocation does to a record is one step here: how it does so by       *)
(* conditional writes is DeliveryWorker's subject.  Messages older than the  *)
(* retention period are not modelled: five receives take less than a day.    *)
(***************************************************************************)
EXTENDS Integers, FiniteSets

CONSTANTS Workers,      \* the invocations that may run at once
          Messages,     \* what the topic put on the queue, duplicates included
          NoMessage,
          Events,       \* notifications, one per dedupe key
          Unusable,     \* a body that is no event of this environment
          Budget,       \* attempts the policy allows a notification
          MaxReceives,  \* maxReceiveCount
          BatchSize,    \* messages per invocation
          Timeout,      \* the Lambda timeout
          Lease,        \* SENDING_LEASE_SECONDS
          Visibility    \* VisibilityTimeout

ASSUME NamesAssumption == NoMessage \notin Messages /\ Unusable \notin Events
ASSUME SizesAssumption ==
    {Budget, MaxReceives, BatchSize, Timeout, Lease, Visibility} \subseteq Nat \ {0}

\* 5 and 5: a message is received as often as a policy may ask for attempts.
ASSUME BudgetFitsReceives == Budget <= MaxReceives

\* 180 seconds against 30 and 45.
ASSUME VisibilityOutlivesLease == Timeout + Lease < Visibility

\* 45 against 30.
ASSUME LeaseOutlivesTimeout == Timeout < Lease

VARIABLES
    status, attempts, permit, taken, authorised,   \* the ledger
    lease,     \* time left of each record's lease
    body,      \* what each message carries
    place,     \* where each message is
    receives,  \* how often each was received
    hidden,    \* time until each is visible again
    run,       \* what each invocation is doing
    spoiled    \* messages received without an attempt of theirs being recorded

ledger == <<status, attempts, permit, taken, authorised>>
queue == <<place, receives, hidden>>
vars == <<ledger, lease, body, queue, run, spoiled>>

Ledger == INSTANCE DeliveryLifecycle

\* A lease that ran out longer ago than any invocation started.
NoLease == -Timeout

Results == {"accepted", "ambiguous", "transient", "permanent"}
Run == [pc : {"idle", "next", "prepare", "attempt", "send", "mark"},
        age : 0..Timeout, batch : SUBSET Messages, todo : SUBSET Messages,
        processed : SUBSET Messages, message : Messages \cup {NoMessage},
        result : Results \cup {"none"}]
Idle == [pc |-> "idle", age |-> 0, batch |-> {}, todo |-> {}, processed |-> {},
         message |-> NoMessage, result |-> "none"]

TypeOK ==
    /\ status \in [Events -> {"absent", "prepared", "sending", "uncertain",
                              "accepted_by_smtp", "failed"}]
    /\ attempts \in [Events -> 0..Budget]
    /\ permit \in [Events -> BOOLEAN]
    /\ taken \in [Events -> Nat] /\ authorised \in [Events -> Nat]
    /\ lease \in [Events -> NoLease..Lease]
    /\ body \in [Messages -> Events \cup {Unusable}]
    /\ place \in [Messages -> {"queue", "deleted", "dead"}]
    /\ receives \in [Messages -> 0..MaxReceives]
    /\ hidden \in [Messages -> 0..Visibility]
    /\ run \in [Workers -> Run]
    /\ spoiled \in SUBSET Messages

\* Any bodies: several messages for one notification, or none that is usable.
Init ==
    /\ Ledger!Init
    /\ lease = [e \in Events |-> NoLease]
    /\ body \in [Messages -> Events \cup {Unusable}]
    /\ place = [m \in Messages |-> "queue"]
    /\ receives = [m \in Messages |-> 0]
    /\ hidden = [m \in Messages |-> 0]
    /\ run = [w \in Workers |-> Idle]
    /\ spoiled = {}

-----------------------------------------------------------------------------
(***************************************************************************)
(* The queue and its event source.                                         *)
(***************************************************************************)

Visible(m) == place[m] = "queue" /\ hidden[m] = 0

\* Fault: the visibility timeout is that of the function.
HiddenForTimeout == Timeout

\* How long a received message stays hidden.
HiddenFor == Visibility

\* Fault: a message is received however often it was before.
ReceiveAnyway(w, batch) ==
    /\ run[w].pc = "idle"
    /\ batch # {} /\ Cardinality(batch) <= BatchSize
    /\ \A m \in batch : Visible(m)
    /\ receives' = [m \in Messages |-> receives[m] + IF m \in batch THEN 1 ELSE 0]
    /\ hidden' = [m \in Messages |-> IF m \in batch THEN HiddenFor ELSE hidden[m]]
    /\ run' = [run EXCEPT ![w] = [Idle EXCEPT !.pc = "next", !.batch = batch,
                                              !.todo = batch]]
    /\ UNCHANGED <<ledger, lease, body, place, spoiled>>

\* Lambda receives a batch and invokes the handler with it.
Receive(w, batch) ==
    /\ run[w].pc = "idle"
    /\ batch # {} /\ Cardinality(batch) <= BatchSize
    /\ \A m \in batch : Visible(m) /\ receives[m] < MaxReceives
    /\ receives' = [m \in Messages |-> receives[m] + IF m \in batch THEN 1 ELSE 0]
    /\ hidden' = [m \in Messages |-> IF m \in batch THEN HiddenFor ELSE hidden[m]]
    /\ run' = [run EXCEPT ![w] = [Idle EXCEPT !.pc = "next", !.batch = batch,
                                              !.todo = batch]]
    /\ UNCHANGED <<ledger, lease, body, place, spoiled>>

\* Fault: the redrive waits for one more receive, which never comes.
DeadLetterLate(m) ==
    /\ Visible(m) /\ receives[m] > MaxReceives
    /\ place' = [place EXCEPT ![m] = "dead"]
    /\ UNCHANGED <<ledger, lease, body, receives, hidden, run, spoiled>>

\* A message received often enough moves on to the dead-letter queue.
DeadLetter(m) ==
    /\ Visible(m) /\ receives[m] = MaxReceives
    /\ place' = [place EXCEPT ![m] = "dead"]
    /\ UNCHANGED <<ledger, lease, body, receives, hidden, run, spoiled>>

\* Time passes; no invocation outlives its timeout.
Tick ==
    /\ \A w \in Workers : run[w].pc # "idle" => run[w].age < Timeout
    /\ run' = [w \in Workers |-> IF run[w].pc = "idle" THEN run[w]
                                 ELSE [run[w] EXCEPT !.age = @ + 1]]
    /\ hidden' = [m \in Messages |-> IF hidden[m] > 0 THEN hidden[m] - 1 ELSE 0]
    /\ lease' = [e \in Events |-> IF lease[e] > NoLease THEN lease[e] - 1 ELSE NoLease]
    /\ UNCHANGED <<ledger, body, place, receives, spoiled>>

-----------------------------------------------------------------------------
(***************************************************************************)
(* process_batch.                                                          *)
(***************************************************************************)

EventOf(w) == body[run[w].message]

\* The outcome for the message in hand.  A message not processed is reported
\* as failed: it simply stays on the queue.
Answer(w, outcome) ==
    run' = [run EXCEPT
              ![w].pc = "next", ![w].message = NoMessage, ![w].result = "none",
              ![w].processed = IF outcome = "processed" THEN @ \cup {run[w].message}
                               ELSE @]

\* This receive of the message made no attempt that was recorded.
Spoil(w) == spoiled' = spoiled \cup {run[w].message}

\* parse_event_json: a closed envelope of one version, every field of its syntax,
\* one dedupe key that is the event's own id, for the handler's environment.
Usable(m) == body[m] \in Events

\* Fault: a body that cannot be parsed is skipped without being reported.
TakeSkips(w, m) ==
    /\ run[w].pc = "next" /\ m \in run[w].todo
    /\ IF Usable(m)
       THEN run' = [run EXCEPT ![w].pc = "prepare", ![w].message = m,
                               ![w].todo = @ \ {m}]
       ELSE run' = [run EXCEPT ![w].todo = @ \ {m}, ![w].processed = @ \cup {m}]
    /\ UNCHANGED <<ledger, lease, body, queue, spoiled>>

\* The next record of the batch, parsed: what is no event, or an event of the
\* other environment, fails.
Take(w, m) ==
    /\ run[w].pc = "next" /\ m \in run[w].todo
    /\ IF Usable(m)
       THEN run' = [run EXCEPT ![w].pc = "prepare", ![w].message = m,
                               ![w].todo = @ \ {m}]
       ELSE run' = [run EXCEPT ![w].todo = @ \ {m}]
    /\ UNCHANGED <<ledger, lease, body, queue, spoiled>>

\* The response: what it does not list as failed is deleted.
Report(w) ==
    /\ run[w].pc = "next" /\ run[w].todo = {}
    /\ place' = [m \in Messages |-> IF m \in run[w].processed THEN "deleted"
                                    ELSE place[m]]
    /\ run' = [run EXCEPT ![w] = Idle]
    /\ UNCHANGED <<ledger, lease, body, receives, hidden, spoiled>>

\* The invocation dies, or Lambda stops it at its timeout: nothing of the
\* batch is deleted.  A permit to send goes with it.
Stop(w) ==
    /\ run[w].pc # "idle"
    /\ IF run[w].pc = "send" THEN Ledger!Conclude(EventOf(w)) /\ taken' = taken
       ELSE UNCHANGED ledger
    /\ spoiled' = spoiled \cup run[w].todo \cup ({run[w].message} \ {NoMessage})
    /\ run' = [run EXCEPT ![w] = Idle]
    /\ UNCHANGED <<lease, body, queue>>

-----------------------------------------------------------------------------
(***************************************************************************)
(* NotificationWorker.process.                                             *)
(***************************************************************************)

\* Fault: whatever is final counts as processed.
OutcomeIfFinal(s) == IF s \in {"accepted_by_smtp", "failed"} THEN "processed" ELSE "retry"

OutcomeOf(s) == IF s = "accepted_by_smtp" THEN "processed" ELSE "retry"

\* Fault: the time of the claim is taken for the end of its lease.
ExpiredAtClaim(w) == lease[EventOf(w)] + run[w].age <= Lease

\* The lease was over when the invocation read its clock.
Expired(w) == lease[EventOf(w)] + run[w].age <= 0

LeaseFollowsRecord(e) ==
    lease' = IF status'[e] = "sending" THEN lease ELSE [lease EXCEPT ![e] = NoLease]

\* A claim whose lease is over is declared uncertain, and answered "retry".
Sweep(w) ==
    /\ run[w].pc \in {"prepare", "attempt"}
    /\ status[EventOf(w)] = "sending" /\ Expired(w)
    /\ Ledger!Settle(EventOf(w)) /\ status'[EventOf(w)] = "uncertain"
    /\ LeaseFollowsRecord(EventOf(w))
    /\ Answer(w, "retry") /\ Spoil(w)
    /\ UNCHANGED <<body, queue>>

\* prepare: the record is new or free to be claimed.
Prepare(w) ==
    LET e == EventOf(w) IN
    /\ run[w].pc = "prepare"
    /\ IF status[e] = "absent" THEN Ledger!Register(e) ELSE UNCHANGED ledger
    /\ status'[e] = "prepared"
    /\ run' = [run EXCEPT ![w].pc = "attempt"]
    /\ UNCHANGED <<lease, body, queue, spoiled>>

\* The record is in no state to send from.
TurnAway(w) ==
    LET s == status[EventOf(w)] IN
    /\ run[w].pc \in {"prepare", "attempt"}
    /\ \/ s \in {"accepted_by_smtp", "uncertain", "failed"}
       \/ s = "sending" /\ ~Expired(w)
    /\ Answer(w, OutcomeOf(s)) /\ Spoil(w)
    /\ UNCHANGED <<ledger, lease, body, queue>>

\* The policy, the connection, a rate token or a secret is not to be had now,
\* or a call to the ledger raises.
Postpone(w) ==
    /\ run[w].pc \in {"prepare", "attempt", "mark"}
    /\ Answer(w, "retry") /\ Spoil(w)
    /\ UNCHANGED <<ledger, lease, body, queue>>

\* The circuit is open or a secret is invalid: mark_failed, whoever's claim
\* the record is under.  Or claim finds no attempts left.
FailCheck(w) ==
    /\ run[w].pc = "attempt"
    /\ Ledger!Fail(EventOf(w))
    /\ LeaseFollowsRecord(EventOf(w))
    /\ Answer(w, "retry") /\ Spoil(w)
    /\ UNCHANGED <<body, queue>>

\* Fault: the budget is taken for used up only after one more attempt.
HasBudgetLate(e) == attempts[e] <= Budget

HasBudget(e) == attempts[e] < Budget

\* claim.  Its lease counts from the time the invocation read.  The reply may
\* be lost, and nobody then holds the permit.
Claim(w) ==
    LET e == EventOf(w) IN
    /\ run[w].pc = "attempt"
    /\ Ledger!Attempt(e)
    /\ lease' = [lease EXCEPT ![e] = Lease - run[w].age]
    /\ IF permit'[e] THEN run' = [run EXCEPT ![w].pc = "send"] /\ UNCHANGED spoiled
       ELSE Answer(w, "retry") /\ Spoil(w)
    /\ UNCHANGED <<body, queue>>

\* smtp.send: a result that is not ambiguous tells whether it was taken.
Send(w) ==
    LET e == EventOf(w) IN
    /\ run[w].pc = "send"
    /\ Ledger!Conclude(e)
    /\ \E result \in IF taken'[e] > taken[e] THEN {"accepted", "ambiguous"}
                     ELSE Results \ {"accepted"} :
          run' = [run EXCEPT ![w].pc = "mark", ![w].result = result]
    /\ UNCHANGED <<lease, body, queue, spoiled>>

\* What mark_* writes over a record that is still sending.
MarkUpdate(e, result) ==
    CASE result = "accepted"  -> Ledger!Settle(e) /\ status'[e] = "accepted_by_smtp"
      [] result = "ambiguous" -> Ledger!Settle(e) /\ status'[e] = "uncertain"
      [] result = "transient" -> IF HasBudget(e) THEN Ledger!Retry(e) ELSE Ledger!Fail(e)
      [] result = "permanent" -> Ledger!Fail(e)

\* The result is recorded.  Acceptance is answered as processed, unless the
\* reply of the write was lost.
Mark(w) ==
    LET e == EventOf(w) IN
    /\ run[w].pc = "mark" /\ status[e] = "sending"
    /\ MarkUpdate(e, run[w].result)
    /\ LeaseFollowsRecord(e)
    /\ \E outcome \in {"retry", OutcomeOf(status'[e])} : Answer(w, outcome)
    /\ UNCHANGED <<body, queue, spoiled>>

\* Somebody else's write got in: mark_* raises or does nothing.
MarkConflict(w) ==
    /\ run[w].pc = "mark" /\ status[EventOf(w)] # "sending"
    /\ Answer(w, "retry") /\ Spoil(w)
    /\ UNCHANGED <<ledger, lease, body, queue>>

\* An operator reconciles an uncertain record, at any time.
Reconcile(e) ==
    /\ Ledger!Confirm(e) \/ Ledger!Authorise(e)
    /\ UNCHANGED <<lease, body, queue, run, spoiled>>

-----------------------------------------------------------------------------
Handle(w) ==
    \/ \E m \in Messages : Take(w, m)
    \/ Report(w)
    \/ Sweep(w) \/ Prepare(w) \/ TurnAway(w) \/ Postpone(w) \/ FailCheck(w)
    \/ Claim(w) \/ Send(w) \/ Mark(w) \/ MarkConflict(w)

Next ==
    \/ Tick
    \/ \E m \in Messages : DeadLetter(m)
    \/ \E w \in Workers :
          \/ \E batch \in SUBSET Messages : Receive(w, batch)
          \/ Handle(w) \/ Stop(w)
    \/ \E e \in Events : Reconcile(e)

\* What the platform keeps doing: time passes, visible messages are received,
\* or moved when they were received often enough, and invocations are stopped
\* at their timeout.  The handler itself is not assumed to get anywhere.
PlatformFairness ==
    /\ WF_vars(Tick)
    /\ \A m \in Messages :
          /\ WF_vars(\E w \in Workers, batch \in SUBSET Messages :
                        m \in batch /\ Receive(w, batch))
          /\ WF_vars(DeadLetter(m))
    /\ \A w \in Workers : WF_vars(run[w].age = Timeout /\ Stop(w))

Spec == Init /\ [][Next]_vars /\ PlatformFairness

\* And invocations run on.
LiveSpec == Spec /\ \A w \in Workers : WF_vars(Handle(w))
-----------------------------------------------------------------------------
(***************************************************************************)
(* Properties.                                                             *)
(***************************************************************************)

\* No notification is lost silently: a message leaves by being deleted only
\* when it carried an event whose record says accepted.  Malformed bodies,
\* foreign events and everything unfinished end in the dead-letter queue.
DeletedMeansAccepted ==
    \A m \in Messages :
        place[m] = "deleted" =>
            body[m] \in Events /\ status[body[m]] = "accepted_by_smtp"

\* Two invocations never have one message in hand: it is hidden for longer
\* than an invocation can take over its batch.
OneInvocationPerMessage ==
    \A v, w \in Workers : v # w => run[v].batch \cap run[w].batch = {}

\* A redelivery settles what the delivery before it left behind: by the time
\* it starts, the lease of a claim lost with the earlier invocation is over.
\* Stated for notifications with one message; a duplicate may come earlier.
RedeliveryFindsLeaseOver ==
    \A w \in Workers :
        run[w].pc = "prepare" /\ status[EventOf(w)] = "sending" =>
            \/ Expired(w)
            \/ \E m \in Messages \ {run[w].message} : body[m] = EventOf(w)

\* Five receives are enough for five attempts: a message is dead-lettered with
\* its record unfinished only if some receive was used up without an attempt
\* being recorded - by a postponement, a crash, a conflict or while the record
\* waited for an operator.
StrandedForACause ==
    \A m \in Messages :
        place[m] = "dead" /\ m \notin spoiled /\ body[m] \in Events =>
            status[body[m]] \in {"uncertain", "accepted_by_smtp", "failed"}

\* The ledger allows whatever the handler decides, although the handler cannot
\* see who else is at work on the record: a claim it takes for stale is that of
\* an invocation that is gone, what it finds prepared is free to be sent, and
\* the result it records still describes its own claim, or a record that was
\* failed meanwhile.
LedgerAllowsHandler ==
    \A w \in Workers :
        LET e == EventOf(w) IN
        /\ run[w].pc \in {"prepare", "attempt"} /\ status[e] = "sending" /\ Expired(w) =>
              ~permit[e]
        /\ run[w].pc = "attempt" /\ status[e] = "prepared" =>
              ~permit[e] /\ taken[e] < authorised[e]
        /\ run[w].pc = "send" => permit[e] /\ status[e] \in {"sending", "failed"}
        /\ run[w].pc = "mark" => status[e] \in {"sending", "failed"}
        /\ run[w].pc = "mark" /\ status[e] = "sending" =>
              /\ ~permit[e]
              /\ run[w].result = "accepted" => taken[e] >= 1
              /\ run[w].result = "transient" => taken[e] < authorised[e]

\* The visibility timeout keeps what MessageCustody promises: an invocation has
\* its batch to itself until it ends, deletes of it only what was accepted, and
\* leaves the rest to be handed out again or, after the last time, buried.
Custody == INSTANCE MessageCustody WITH
    custody <- [w \in Workers |-> run[w].batch],
    accepted <- {m \in Messages :
                    body[m] \in Events /\ status[body[m]] = "accepted_by_smtp"}

ImplementsCustody == Custody!Spec

\* Every message is deleted or dead-lettered in the end, even if every
\* invocation hangs.
EveryMessageLeaves == \A m \in Messages : <>(place[m] # "queue")

\* What a crash leaves sending becomes uncertain (README.md:19).
CrashBecomesUncertain ==
    \A e \in Events : status[e] = "sending" ~> status[e] # "sending"

=============================================================================
