------------------------------- MODULE RateLimit -------------------------------
(***************************************************************************)
(* DeliveryStore.reserve_rate: before an SMTP attempt an invocation takes a *)
(* token from its draft's bucket for the minute, then one from its          *)
(* connection namespace's.  Buckets are ledger items counted up by a         *)
(* conditional update.  The minute is that of the reading an invocation      *)
(* makes of its host's clock when it starts; the attempt comes later.         *)
(*                                                                         *)
(* What the ledger has to say about an attempt is DeliveryWorker's subject:  *)
(* an invocation with both tokens may send, or end without.                  *)
(***************************************************************************)
EXTENDS Integers, FiniteSets

CONSTANTS Workers,           \* the invocations that may run at once
          Drafts,
          Namespaces,        \* of connections
          DraftLimit,        \* DRAFT_PER_MINUTE
          ConnectionLimit,   \* CONNECTIONS_PER_MINUTE
          Minute,            \* units of time in a minute
          Timeout,           \* the Lambda timeout
          MaxSkew,           \* a host's clock differs from real time by at most this
          Retries,           \* of a request whose response is lost, by the AWS client
          MaxClock,          \* bound on time, for TLC
          Faults             \* what may go wrong: see FaultKinds

FaultKinds == {"crash", "error", "lost_reply"}

ASSUME WorkersAssumption == IsFiniteSet(Workers)
ASSUME SubjectsAssumption == Drafts \cap Namespaces = {}
ASSUME LimitsAssumption == DraftLimit \in Nat \ {0} /\ ConnectionLimit \in Nat \ {0}
ASSUME FaultsAssumption == Faults \subseteq FaultKinds

ASSUME RetriesAssumption == Retries \in Nat

\* 30 seconds against 60: every minute has a time when no invocation that runs
\* can be charged to another (see WellInside).
ASSUME TimeAssumption ==
    /\ Minute \in Nat /\ Timeout \in Nat /\ MaxSkew \in Nat /\ MaxClock \in Nat
    /\ Timeout + 2 * MaxSkew < Minute

VARIABLES
    count,   \* the buckets, by draft or namespace and by minute
    clock,   \* real time
    job,     \* what each invocation is doing
    spent,   \* attempts made on the tokens of each bucket
    sent,    \* attempts made in each minute of real time
    inside,  \* of these, the attempts made well inside the minute
    draws    \* invocations of a draft that turned to a connection's bucket

counters == <<spent, sent, inside, draws>>
vars == <<count, clock, job, counters>>

Subjects == Drafts \cup Namespaces
Limit(s) == IF s \in Drafts THEN DraftLimit ELSE ConnectionLimit

MinuteOf(t) == t \div Minute
Minutes == 0..MinuteOf(MaxClock + MaxSkew)

\* What a host's clock may show at time t.
Readings(t) == {n \in (t - MaxSkew)..(t + MaxSkew) : n >= 0}

\* Whoever runs at time t started within the timeout and read the minute that
\* it is.
WellInside(t) ==
    /\ t >= Timeout + MaxSkew
    /\ MinuteOf(t - Timeout - MaxSkew) = MinuteOf(t + MaxSkew)

Steps == {"idle", "draft", "connection", "granted"}
NoJob == [pc |-> "idle"]
Job == [pc : Steps \ {"idle"}, draft : Drafts, namespace : Namespaces,
        start : 0..MaxClock, minute : Minutes]

Counters == [Subjects -> [Minutes -> Nat]]

TypeOK ==
    /\ count \in Counters /\ spent \in Counters
    /\ sent \in Counters /\ inside \in Counters
    /\ draws \in [Drafts -> [Minutes -> Nat]]
    /\ clock \in 0..MaxClock
    /\ job \in [Workers -> Job \cup {NoJob}]

Init ==
    /\ count = [s \in Subjects |-> [m \in Minutes |-> 0]]
    /\ spent = count /\ sent = count /\ inside = count
    /\ draws = [d \in Drafts |-> [m \in Minutes |-> 0]]
    /\ clock = 0
    /\ job = [w \in Workers |-> NoJob]

-----------------------------------------------------------------------------
\* The invocation ends.
End(w) == job' = [job EXCEPT ![w] = NoJob]

Goto(w, step) == job' = [job EXCEPT ![w].pc = step]

\* Fault: the limit itself still counts as below it.
IncrementUpTo(n, limit) ==
    IF n <= limit THEN {[count |-> n + 1, reply |-> "true"]}
    ELSE {[count |-> n, reply |-> "false"]}

\* increment_below: what the bucket may hold afterwards, and the answer.  When
\* a response is lost the AWS client sends the update again, which counts
\* again, up to Retries times; once the limit is reached it is refused, and so
\* is the caller.  Or the error reaches the caller.
IncrementBelow(n, limit) ==
    LET most   == IF "lost_reply" \in Faults THEN Retries + 1 ELSE 1
        counts == {c \in (n + 1)..(n + most) : c <= limit}
    IN  IF n >= limit THEN {[count |-> n, reply |-> "false"]}
        ELSE [count : counts,
              reply : {"true"} \cup (IF "error" \in Faults THEN {"raised"} ELSE {})]
             \cup (IF limit < n + most THEN {[count |-> limit, reply |-> "false"]} ELSE {})

\* A message arrives for a draft whose connection is in a namespace; the host
\* reads its clock.
Start(w, d, s) ==
    /\ job[w].pc = "idle"
    /\ \E n \in Readings(clock) :
          job' = [job EXCEPT ![w] = [pc |-> "draft", draft |-> d, namespace |-> s,
                                     start |-> clock, minute |-> MinuteOf(n)]]
    /\ UNCHANGED <<count, clock, counters>>

\* A token of the invocation's minute; without one it gives up, and keeps
\* none it already has.
Take(w, subject, next) ==
    LET minute == job[w].minute IN
    /\ \E answer \in IncrementBelow(count[subject][minute], Limit(subject)) :
          /\ count' = [count EXCEPT ![subject][minute] = answer.count]
          /\ IF answer.reply = "true" THEN Goto(w, next) ELSE End(w)
    /\ draws' = IF subject \in Namespaces
                THEN [draws EXCEPT ![job[w].draft][minute] = @ + 1] ELSE draws
    /\ UNCHANGED <<clock, spent, sent, inside>>

\* Fault: the connection pays before the draft is known to be within its limit.
TakeDraftLast(w) ==
    \/ job[w].pc = "draft" /\ Take(w, job[w].namespace, "connection")
    \/ job[w].pc = "connection" /\ Take(w, job[w].draft, "granted")

\* Fault: the connection's limit is not consulted.
TakeDraftOnly(w) == job[w].pc = "draft" /\ Take(w, job[w].draft, "granted")

\* reserve_rate.
TakeTokens(w) ==
    \/ job[w].pc = "draft" /\ Take(w, job[w].draft, "connection")
    \/ job[w].pc = "connection" /\ Take(w, job[w].namespace, "granted")

\* One attempt more, of the invocation's draft over its connection.
Plus(w, attempts, minute) ==
    [s \in Subjects |-> IF s \in {job[w].draft, job[w].namespace}
                        THEN [attempts[s] EXCEPT ![minute] = @ + 1] ELSE attempts[s]]

\* The attempt: it is charged to the minute the invocation read.
Send(w) ==
    /\ job[w].pc = "granted"
    /\ spent' = Plus(w, spent, job[w].minute)
    /\ sent' = Plus(w, sent, MinuteOf(clock))
    /\ inside' = IF WellInside(clock) THEN Plus(w, inside, MinuteOf(clock)) ELSE inside
    /\ End(w)
    /\ UNCHANGED <<count, clock, draws>>

\* Fault: unused tokens are given back, to the minute that it now is.
GiveUpRefunds(w) ==
    /\ job[w].pc = "granted"
    /\ count' = [s \in Subjects |->
                   IF s \in {job[w].draft, job[w].namespace}
                   THEN [count[s] EXCEPT ![MinuteOf(clock)] = @ - 1] ELSE count[s]]
    /\ End(w)
    /\ UNCHANGED <<clock, counters>>

\* The secrets are not available, the record is not to be claimed: the tokens
\* are lost.
GiveUp(w) ==
    /\ job[w].pc = "granted"
    /\ End(w)
    /\ UNCHANGED <<count, clock, counters>>

\* The update raises and was not applied, or the invocation dies.
Fail(w) ==
    /\ \/ "error" \in Faults /\ job[w].pc \in {"draft", "connection"}
       \/ "crash" \in Faults /\ job[w].pc # "idle"
    /\ End(w)
    /\ UNCHANGED <<count, clock, counters>>

\* No invocation outlives its timeout.
Tick ==
    /\ clock < MaxClock
    /\ \A w \in Workers : job[w].pc # "idle" => clock < job[w].start + Timeout
    /\ clock' = clock + 1
    /\ UNCHANGED <<count, job, counters>>

Next ==
    \/ Tick
    \/ \E w \in Workers :
          \/ \E d \in Drafts, s \in Namespaces : Start(w, d, s)
          \/ TakeTokens(w) \/ Send(w) \/ GiveUp(w) \/ Fail(w)

Spec == Init /\ [][Next]_vars
-----------------------------------------------------------------------------
\* The invocations that hold a token of a bucket.
Holders(s, minute) ==
    {w \in Workers :
        /\ job[w].pc # "idle"
        /\ job[w].minute = minute
        /\ \/ s = job[w].draft /\ job[w].pc \in {"connection", "granted"}
           \/ s = job[w].namespace /\ job[w].pc = "granted"}

\* Tokens made good and tokens in hand were all counted, and never more than
\* the limit: lost replies and crashes cost tokens and mint none.
TokensAreCounted ==
    \A s \in Subjects, m \in Minutes :
        /\ spent[s][m] + Cardinality(Holders(s, m)) <= count[s][m]
        /\ count[s][m] <= Limit(s)

\* Well inside a minute the limit holds as documented: no attempt made there is
\* charged to another minute.
LimitHoldsInsideMinutes ==
    \A s \in Subjects, m \in Minutes : inside[s][m] <= Limit(s)

\* A draft over its limit takes nothing from the connection that others share:
\* it turns to the connection's bucket at most once for each of its own tokens,
\* whatever becomes of invocations and replies in between.
DraftsPayFirst ==
    \A d \in Drafts, m \in Minutes : draws[d][m] <= count[d][m]

\* README.md:23: "Code-owned conditional limits are 20 attempts per draft/minute
\* and 100 per connection namespace/minute."
AttemptsWithinLimit ==
    \A s \in Subjects, m \in Minutes : sent[s][m] <= Limit(s)

=============================================================================
