# Verification of zoolanding-notifications

TLA+ models of the notification worker, TLC runs that check them on small
instances, and TLAPS proofs of what matters most for every size. Sources are
named relative to the repository root (`src/`, `tools/`, `template.yaml`,
`README.md`, `tests/`).

## The system

A message on an SQS queue asks for one e-mail. A Lambda function (batch size 1,
at most two at once, 30 seconds each) resolves the published policy, records the
notification in a DynamoDB ledger, takes rate tokens, reads secrets, claims the
record under a 45-second lease, calls SMTP once, and records what came of it.
Anything but acceptance leaves the message on the queue; after five receives it
goes to a dead-letter queue. Operators reconcile records that became uncertain.
The point of the ledger: never send a blind duplicate, at the price of possibly
missing a notification.

| Component | State | Operations | What makes it hard / correct |
| --- | --- | --- | --- |
| delivery record (`src/delivery_store.py:25-35,450-539`) | state, attempts, revision, lease, stamps, reason | transitions, validation of every read | any sequence of writes leaves exactly the fields of the state, or the record is unreadable for good |
| delivery store (`src/delivery_store.py:72-324`) | ledger and circuit items | prepare, get, claim, mark_*, circuit_open, open_circuit | conditional writes by concurrent invocations, lost replies, leases on skewed clocks |
| rate buckets (`src/delivery_store.py:232-260,384-406`) | one counter per draft, or namespace, and minute | reserve_rate | two counters in order, increments that are not idempotent, minutes of two clocks |
| worker (`src/domain/delivery.py`) | none; `now_epoch` read at the start | process | a crash or error between any two calls; results used after the state they rest on has moved |
| reconciliation (`tools/reconcile_delivery.py`) | none; a revision the operator noted | accept, retry | a decision submitted late or twice |
| entry point and queue (`src/handlers/`, `template.yaml`) | messages, receive counts, visibility | receive, process_batch, delete, redrive | at-least-once delivery; timeouts that must fit each other; what the dead-letter queue takes away |
| SMTP adapter (`src/smtp_adapter.py`) | one connection | send | which of six results each response, exception or silence means, when the provider may have taken the message |
| published policy (`src/common/published_policy.py`) | a cache per invocation; packages, registry | resolve | packages written one object at a time; cached selection against fresh scope; pins that outlive publications |
| gateway (`src/integrations_gateway.py`) | bindings, on the other side | resolve a connection | bindings that change between messages; field checks |
| secrets (`src/secret_resolver.py`, `tools/manage_recipient_secret.py`) | secrets and tags | read, create, revoke | tags and value read in two calls; one address per version, revocation final |
| events, templates, addresses, runtime | none | stateless parsing, formatting, wiring | field checks |

Components interact through the ledger (worker, store, tool), through the queue
(entry point, worker) and through synchronous calls (policy, gateway, secrets,
SMTP). No component calls back. The behaviours that are hard to test, each at its
line and with the properties that watch it, are the `hazards` of `PROJECT.json`.

## Modules

| Part | Module | Abstract specification | Proofs |
| --- | --- | --- | --- |
| ledger item | `DeliveryRecord` | | |
| `process`, store, tool | `DeliveryWorker`, `DeliveryWorkerInv` | `DeliveryLifecycle` | `DeliveryWorkerProofs`, `DeliveryWorkerLedger`, `DeliveryWorkerRefinement` |
| queue, redrive, `process_batch` | `NotificationQueue` over `DeliveryLifecycle` | `MessageCustody` | `NotificationQueueProofs` |
| SMTP adapter | `SmtpSession` | `ProviderCall` | `SmtpSessionProofs` |
| rate buckets | `RateLimit` | | `RateLimitProofs` |
| policy, connection, pin | `PublishedPolicy` | | `PublishedPolicyProofs` |
| secrets | `SecretLifecycle` | | `SecretLifecycleProofs` |

`MCDeliveryWorker`, `MCNotificationQueue`, `MCSmtpSession`, `MCRateLimit`,
`MCPublishedPolicy` and `MCSecretLifecycle` give the small sets for TLC.

The modules meet at two of the abstract specifications. `DeliveryLifecycle` is the life of
a record without invocations, revisions or clocks: `DeliveryWorker` implements it
(checked, and proved), and `NotificationQueue` takes its actions as the steps of the
ledger, so that the queue is checked over what the ledger is shown to do.
`LedgerAllowsHandler` (checked, and proved) closes the gap this could leave: no guard
of the ledger keeps the handler of the queue from a step that the code would take.
`ProviderCall` is one call to the provider: `SmtpSession` implements it (checked,
and proved), and its results are those of `DeliveryWorker!MayDeliver`. One
difference is absorbed there: after an ambiguous result the provider may still take
the message, which `DeliveryWorker` decides at the call. Taking it earlier is the
worse case, since nothing but another attempt can turn it into a duplicate.

Operators introduced by a comment that starts with "Fault:" are not part of the
specifications: each is a definition with a plausible bug, kept to see that the
properties notice it (`mutants` of `PROJECT.json` pairs them).

### The ledger: `DeliveryRecord`, `DeliveryWorker`, `DeliveryLifecycle`

`DeliveryRecord` is the ledger item: the constants of `src/delivery_store.py`, one
operator per transition (`Claimed`, `Ambiguous`, `Failed`, `Refused`,
`ReconciledRetry`...), and the validation of reads, split into `WellFormed` (fields
and stamps) and `Readable` (and the order of the timestamps). Identity fields
never change after prepare and are left out; `Missing` stands for an attribute the
item does not carry. `maxAttempts` is the constant `MaxAttempts`.

`DeliveryWorker` is `NotificationWorker.process` run by `Workers` over the shared
`ledger` and `openCircuits`, with time, faults and operators. An action is one
backend (or SMTP) call and the code up to the next:

| Action | Code |
| --- | --- |
| `Start` | SQS invokes the Lambda; `now_epoch = int(time.time())` |
| `PutIfAbsent`, `PrepareRead` | `prepare`, and `process` on its result |
| `Postpone`, `Connect`, `ResolveSecrets` | policy, connection, circuit, rate, secrets, rendering |
| `ClaimRead`, `ClaimCas`, `ClaimReread` | `claim`: read, conditional write (up to four times), read |
| `Send` | `smtp.send` and its classified result |
| `MarkRead`, `MarkCas`, `MarkReread`, `OpenCircuit` | `mark_*` and `open_circuit` |
| `StoreError`, `Crash`, `Tick` | a raising call, a lost invocation, time within the timeout |
| `Review`, `ConfirmAccepted`, `AuthorizeRetry` | the operator and the tool |

`job[w]` holds the program counter and the locals that live across calls: the time
read at the start (`now`), the item a conditional write rests on, the claim's tries,
and what is to be marked. `sends`, `delivered`, `approvals`, `reviews` and
`lateSends` are history that only properties read. Policy, gateway, secrets and
rendering appear as their effect on the worker: success, a failure to retry, or a
permanent failure. `Replies` is the conditional write as the AWS client shows it:
a retried request whose first response was lost is refused although it was applied.

`DeliveryLifecycle` is the abstract specification: the life of one record as a
permit to send once, without invocations, leases, revisions or time.
`ImplementsLifecycle` maps the worker to it (the permit of an event is held when
some invocation has acquired it and not yet called SMTP).

### The queue: `NotificationQueue`

Messages on the notification queue, the handler that gets them in batches, and the
dead-letter queue. `place`, `receives` and `hidden` are a message's queue, its
receive count and the time until it is visible; `lease` is the time a record's lease
has left; `run[w]` is an invocation with its age, its batch and the message in hand.
Timers count down, so time needs no bound.

| Action | Code |
| --- | --- |
| `Receive`, `DeadLetter`, `Tick` | the event source and the redrive policy (`template.yaml`) |
| `Take`, `Report` | `process_batch`: the next body, parsed; the response with `batchItemFailures` |
| `Prepare`, `TurnAway`, `Postpone`, `FailCheck` | `process` up to the claim |
| `Sweep` | the lease check that turns a stale claim `uncertain` |
| `Claim`, `Send`, `Mark`, `MarkConflict` | the attempt and what is recorded of it |
| `Stop` | a crash, or Lambda's timeout |
| `Reconcile` | the operator |

Any message may carry any notification, or a body of no use; two that carry the
same one are the topic's duplicates. What a handler does to a record is one step
here, an action of `DeliveryLifecycle` together with the lease.

`MessageCustody` is the abstract specification: a message is in one invocation's
custody at a time, without timers; whoever has it deletes it if it was accepted, or
gives it back; and what was handed out often enough is buried once nobody has it.
`ImplementsCustody` maps the queue to it: custody is the batch of an invocation.

### SMTP: `SmtpSession`, `ProviderCall`

One `SMTPAdapter.send`: the dialogue as `smtplib` holds it (connection, login, MAIL,
RCPT, DATA, payload), with any reply, or none, at each exchange (`Reply`,
`ReplyToRcpt`, `ReplyToPayload`, `Break`); the provider taking the message at any
moment after the payload left (`Take`), heard of or not; the classification
(`ResultOf`, `Except`, `Return`); and `Quit`, `Close`, `Stop`. Codes are numbers,
because the classification is by ranges; -1, a reply that `smtplib` cannot read, and
500, a line too long for it (`LineTooLong`), are those it makes up.

### Rates: `RateLimit`

`reserve_rate` with its two buckets, over hosts whose clocks differ from real time
by up to `MaxSkew`, as in `DeliveryWorker`.

| Action | Code |
| --- | --- |
| `Start` | the invocation reads the clock of its host; the minute is that reading's |
| `TakeTokens` | `reserve_rate`: the draft's bucket, then the connection's |
| `Send`, `GiveUp`, `Fail`, `Tick` | the attempt; secrets or claim in the way; an error or crash; time within the timeout |

`IncrementBelow` is the conditional update as the AWS client makes it: a lost reply
is retried up to `Retries` times and each try may count again. `spent` counts the
attempts by the minute they were charged to, `sent` by the minute of real time they
were made in, and `inside` those of `sent` that were made `WellInside` it: where no
invocation still running can have read another minute. `draws` counts how often
invocations of a draft turned to a connection's bucket. These four are history.

### Policies: `PublishedPolicy`

| State, action | Code |
| --- | --- |
| `scopeOurs`, `MoveScope` | the domain registry's row, and its moving |
| `manifest`, `descriptor`, `PutManifest`, `PutDescriptor` | the two objects of a package, each under its version |
| `bound`, `Rebind` | active bindings of the Integrations service |
| `record`, `Prepare`, `ReadExisting` | `prepare`: the item pins the event and its selection, and must match them |
| `Begin`, `TakeUp`, `GiveUp`, `End` | an invocation with its own resolver and cache, and its messages |
| `ReadScope`, `ReadManifest`, `ReadDescriptor` | `PublishedPolicyResolver.resolve` |
| `Connect`, `Send` | `ConnectionResolver.resolve`; an attempt that passed all checks |

A hash is the content it is of. `since` (what was in force since the message was
taken up), `sealed` (all a manifest ever named) and `attempted` are history.

### Secrets: `SecretLifecycle`

`SecretResolver` reading tags and value of the SMTP and the
recipient secret, in that order, while `manage_recipient_secret.py` creates and
revokes and operators provision, rotate, delete and restore. The checks of tags and
values are abstracted to what decides: enabled, disabled or foreign tags, a value
of the right form or not. An error that is retryable ends the attempt; another
fails the notification, in a later step. No operator enables a recipient again by
hand, and no path is purged: the tool does neither, and a deletion is completed a
week after it is scheduled at the earliest. `wanting` is history: whether the call
an invocation has under way, or the one that made it fail, could find what is not
fit for use. Tags are not fit if disabled or foreign, or if the secret is deleted,
which `_read` refuses for good; a value, if malformed. So a deletion or revocation
after the tags were read is no cause to fail a notification, nor is a path without a
secret.

## Runs

| Run | Configuration | Shows |
| --- | --- | --- |
| `worker` | two invocations, one notification, two attempts, lease 2, timeout 1, four units of time, every fault and SMTP result | `NoBlindDuplicate`, `SendsWithinBudget`, `OneAttemptPerReview`, `AckedMeansAccepted`, `FieldDiscipline`, `SendsUnderClaim`, `UncertainWaitsForOperator`, `FinalRecordsStay`, the inductive invariant `IInv` and the refinement of `DeliveryLifecycle` |
| `circuit` | two notifications on one circuit, three attempts, one instant | `LateSendsBounded` |
| `queue` | two invocations, two messages with any bodies, batches of two, two receives | `DeletedMeansAccepted`, `OneInvocationPerMessage`, `RedeliveryFindsLeaseOver`, `StrandedForACause`, `LedgerAllowsHandler`, the refinement of `MessageCustody`, and under fairness `EveryMessageLeaves` |
| `smtp` | one session, a code of every class that is told apart | `VerdictIsTrue`, `HeardIsReported`, `ClosedAtTheEnd`, under fairness `CallEnds`, and the refinement of `ProviderCall` |
| `rate` | two invocations, two drafts, one namespace, the turn of a minute, skewed clocks, two retries, every fault | `TokensAreCounted`, `LimitHoldsInsideMinutes`, `DraftsPayFirst` |
| `policy` | two invocations, two events of one key with a version each, five descriptors, two connections, four writes | `AttemptedAsPublished`, `OnePinPerKey`, `AttemptedUnderCurrentScope` |
| `secrets` | two invocations, one recipient version, two addresses it might be given | `OneAddressPerVersion`, `RevocationHolds`, `FailedForACause` |

Five runs show where the code departs from its documentation or its own checks
(`findings` of `PROJECT.json`):

- `failed_delivered`: `mark_failed` overwrites the claim of an invocation that is
  sending. A notification the provider took ends as `failed`, where `README.md:19`
  promises `uncertain`, and the tool reconciles only uncertain records.
- `rate_exceeded`: a message is charged to the minute its invocation started in, and
  sent up to 30 seconds later. Attempts begun in one minute are made in the next on
  top of all that the next allows, where `README.md:23` promises 20 per draft and 100
  per namespace. `LimitHoldsInsideMinutes` says what is kept: the limits hold for the
  attempts of a minute once the invocations that began before it, by any host's clock,
  have reached their timeout, and until a host may read the next.
- `stale_clock`: an invocation that read its clock before the record was created
  writes `updatedAt < createdAt`, which every later read rejects.
- `circuit_skipped`: a conflict in `mark_failed` skips `open_circuit`.
- `stranded_claim`: a claim whose invocation dies on the last receive of its message
  stays `sending` for ever. A temporal counterexample, under `LiveSpec`: the handler
  runs on, time passes, and nobody looks at the record again.

Three behaviours are worth knowing although no document denies them. The lease check
of a `sending` record (`src/domain/delivery.py:38-50`) goes through `claim`, and when
the record was refused meanwhile it acquires it; `process` ignores `claim.acquired`,
nobody sends, and the record goes stale and becomes uncertain with an attempt spent,
although nothing ambiguous happened (`ImplementsLifecycle` allows this, and says that
the attempt is not made twice). A receive used up by a postponement, a conflict or an
uncertain record is lost to the five attempts of the policy: `StrandedForACause`
bounds the causes for which a message is dead-lettered with its record unfinished, and
prevents none of them. And a retry that an operator authorises after its message was
dead-lettered needs the message moved back.

### Bounds

Two invocations are what `template.yaml` allows (`ReservedConcurrentExecutions: 2`);
the proofs hold for any number. One notification is enough where records do not
interact; circuits and rates, which are shared, get two.

- `worker`: time has just enough units for a lease to expire, its record to be
  reconciled and retried, and the second lease to expire (`MaxClock` 4 with lease 2).
  Two attempts reach both the retry and the exhausted budget. Lease and timeout keep
  the order of 45 and 30 seconds, stated as `LeaseOutlivesInvocation` with the skew
  added on both sides. The run has no skew; `SendsUnderClaim` and the refinement, to
  which skew matters, are proved for any skew the assumption allows. `MaxClock`
  bounds `Tick` and nothing else.
- `circuit`: one instant, because nothing there depends on time; three attempts, so
  that a late send can follow a retry.
- `queue`: sizes keep the order of 30 (timeout), 45 (lease) and 180 seconds
  (visibility), stated as `LeaseOutlivesTimeout` and `VisibilityOutlivesLease`, and
  as many receives as attempts (`BudgetFitsReceives`). Two messages meet in one batch, in two
  invocations, or as duplicates of one notification. Two receives reach a redelivery
  and the dead-letter queue. Nothing else is bounded.
- `smtp`: 220, 235, 250, 251, 354 (positive), 503 (already logged in), 421 and 450
  (`4xx`), 535, 552 and 550 (`5xx`), -1 (not read): every code that smtplib or the adapter tells
  apart, at every exchange. The proofs are for any set of codes.
- `rate`: a minute of four units, with timeout and skew one each, is the shortest in
  which there is a time well inside. `MaxClock` 4 crosses into the second minute,
  where skewed readings begin one unit earlier. Draft limit 2 and connection limit 1
  let one draft spend more than the connection has and let lost replies, with two
  retries, run into both limits. `rate_exceeded` needs no fault and no skew, only two
  minutes of two units.
- `policy`: `MaxWrites` 4 is enough to publish two packages, of both versions or one
  over the other, or one package with changes of the scope or a binding around it. The
  descriptors are an approved policy, its successor on another connection, and one
  each that is switched off, unapproved, or asks for six attempts.
- `secrets`: two addresses are enough to give a version a second one.

Symmetry is declared for sets whose members no definition singles out (invocations,
drafts, versions with their events, addresses), and never where liveness is checked. `Smtp.cfg`
has `CHECK_DEADLOCK FALSE`, because a call ends; no other run disables the check.

### Fairness

`NotificationQueue!Spec` assumes `PlatformFairness`, which is what AWS does whatever
the handler does: time passes; a visible message is received, or moved to the
dead-letter queue when it was received five times; an invocation that reaches its
timeout is stopped. Nothing is assumed of the handler: `EveryMessageLeaves` holds
even if every invocation hangs. `LiveSpec` adds that the handler takes its next step,
which makes the counterexample of `stranded_claim` one of the protocol and not of a
handler that stands still.

`SmtpSession!Spec` is weakly fair to the timeout that every socket operation has
(`Break`) and to the adapter's own steps; the provider may be silent for ever.
`DeliveryWorker`, `RateLimit`, `PublishedPolicy` and `SecretLifecycle` state safety
only: their systems are free to stop at any point.

## Proofs

Checked by TLAPS for every value of the constants that satisfies the named
assumptions of the modules, `LeaseOutlivesInvocation`, `VisibilityOutlivesLease`,
`LeaseOutlivesTimeout` and `TimeAssumption` (the timeout and twice the skew are
together shorter than a minute) among them. Some properties count invocations, so
`DeliveryWorker` and `RateLimit` assume finitely many, the first at least one. All
fault sets, schedules and sizes are covered. Each invariant that TLC checks was not inductive as
it stood; the strengthening is what each module is about.

`DeliveryWorkerProofs`:

- `TypeCorrect`: `Spec => []TypeOK`, from `TypeInvariance`, which also says that an
  invocation under way has a notification and, once it marks, an outcome.
- `BookkeepingHolds`: an invocation runs within its timeout on the clock it read
  (`Timely`), what it is about to write fits the record it read (`Fitting`), and a
  conditional write that finds its revision overwrites exactly that record
  (`Snapshot`).
- `Safety`: `Spec => []IInv`. `NoBlindDuplicate` is not inductive: `Send` must know
  that nothing was delivered under the current authorisation (`AttemptsAreFresh`),
  which survives other invocations because one at a time holds a notification
  (`OneHolder`), whose record is sending under its lease or failed (`Custody`). That
  in turn rests on the fence: while the holder runs, no other invocation reads a
  time at which the lease has run out (lemma `Fence`, from `Timely` and
  `LeaseOutlivesInvocation`), so no other write but a failure moves the record.
- `NoBlindDuplicates`: `Spec => []NoBlindDuplicate`.

`DeliveryWorkerLedger` shows that what the ledger says is true, from a lemma that
lists all that a step can do to a record (`RecordStep`): `FieldsKeepDiscipline`,
`BudgetHolds`, `ReviewsAreSpentOnce`, `ProcessedMeansAccepted`, and the action
properties `UncertainRecordsWait` and `FinalRecordsAreFinal`. It also gives
`OpenCircuitsHoldBack`: of an open circuit, `LateSendsAccounted` says that the late
sends made and the invocations still past the check (`Past`) together are fewer
than all invocations. The one that opened it is neither; nobody passes the check
any more, and who sends is no longer past it.

`DeliveryWorkerRefinement` shows `AttemptsUnderClaim` and
`LedgerImplementsLifecycle` (`Spec => ImplementsLifecycle`): initial states map to
initial states, and each step to one step of `DeliveryLifecycle` or to none. The hard
part is that no permit is out when a record is retried, parked as uncertain or
taken for accepted: the lease or the answer in hand rules out another's.

`NotificationQueueProofs` rests on `QInv`, which adds to `OneInvocationPerMessage`
that a message in hand is hidden for what the visibility timeout has left after the
invocation's age, by `VisibilityOutlivesLease` not zero before the invocation is
stopped; and to `DeletedMeansAccepted` that what an invocation calls processed was
accepted, for good. Lemma `HandlerIsOfAKind` then sums up what a part of the handler
does to its message, its record and the lease, for three further invariants:

- `Redelivery` gives `RedeliverySettles`. A message that is the only one for its
  notification stays hidden for a timeout longer than its record is leased
  (`LeaseEndsOf`), so whoever receives it again finds the lease run out.
- `Counting` gives `DeadLettersHaveACause`. Receives are at most attempts, with one
  receive's attempt still to come while an invocation has the message before its
  claim (`Coming`), and one attempt set aside while another message's attempt is
  under way (`Foreign`).
- `Claims` gives `HandlerIsAllowed`. Whoever sends or marks has a lease as long as
  it was given less the time since, so by `LeaseOutlivesTimeout` nobody finds it
  over; a permit is out only with a sender; and no two hold claims of one record.

`QueueKeepsCustody` (`Spec => ImplementsCustody`) follows from `QInv` step by step:
a visible message is in no batch, which is what timers have to achieve.

`SmtpSessionProofs`: `SInv` ties the step of the dialogue to what was sent and what
was taken, and a result to a reply that says so (lemma `Classification`). It gives
`VerdictsAreTrue`, `AcceptancesAreReported`, `NothingLeftOpen`, and
`SessionImplementsCall`.

`RateLimitProofs`: `RInv` adds to `TokensAreCounted` that an invocation runs within
its timeout and is charged to a minute its host's clock showed when it started
(`Charged`). Well inside a minute that can only be the minute itself (lemma
`ReadsTheMinute`, division by division), so that attempts made there are among those
charged to it (`InsideCharged`), which are among the tokens counted. It gives
`NoTokenMinted` and `LimitsHoldInside`. `Paid` adds to `DraftsPayFirst` that whoever is
between its draft's token and the connection's bucket (`Payers`) has yet to turn to
it: turns made and to come are at most the draft's tokens. Retries that count again
only add tokens, so it holds for any number of them. It gives
`ConnectionTokensArePaid`.

`PublishedPolicyProofs`: `PInv` says of every invocation that what it holds, or has
in its cache, was published under the version of its event, agrees with the ledger
once it was compared, and was in force since its message was taken up; the ledger
never changes a pin and manifests are remembered, so that other invocations and
writes around the worker keep this. It gives `OnlyPublishedAttempts`,
`KeysArePinned` and `AttemptsAreCurrent`.

`SecretLifecycleProofs`: `VInv` says that the address an invocation is about to use,
and every address a version was sent to, is still the version's; that what was
revoked is disabled, and an invocation that began later never gets past its tags;
and that whoever is to fail its notification made its last call about what was not fit
for use (`Caused`), be it restored since. It gives `AddressesStay`,
`RevocationIsFinal` and `FailuresHaveACause`.

Every safety invariant, action property and refinement that a passing run checks is
stated by a theorem. Only model-checked are the liveness properties
`EveryMessageLeaves` and `CallEnds`. Out of the prover's reach: liveness under
fairness, ENABLED, and what a recursive definition computes for every input.

## Not modelled

- The syntax of e-mail addresses (`src/common/email_address.py`) and the templates
  (`src/templates.py`): stateless, character by character; a model would restate the
  code. What they reject is a failed secret, connection or rendering in the models.
- The fields of events and of the Integrations service's response, and the signing
  and transport of the request: stateless, seen as usable or not.
- SQS handing out a message that is hidden: its visibility is taken as exact. A standard
  queue may break this, and what the ledger makes of it is covered by a second message
  for the same notification, which the queue's run and the proofs do have.
- A reply to the payload with a line of more than 8192 bytes, against SMTP's limit of
  512: `smtplib` makes up a code 500 for it, and the adapter would report a message the
  provider may have taken as `smtp_permanent`. `SmtpSession!Break` assumes there is
  none; before the payload such lines are modelled.
- The completion of a secret's deletion, after which `create_recipient` could use the
  path again and give a version another address.
- Conversions of DynamoDB numbers; the one metric; roles, alarms and log groups.
- Expiry of ledger items after 90 days, and the queue's retention of four days: five
  receives take less than a day, and a dead-lettered message that is moved back
  starts like a new one.
- A Lambda event without a list of records: the event source sends none.

## Possible extensions

A refinement of `RateLimit`'s two buckets by one abstract budget; an abstract
register of addresses that `SecretLifecycle` implements; the syntax of addresses
against a reference grammar.
