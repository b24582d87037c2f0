---------------------------- MODULE RateLimitProofs ----------------------------
(***************************************************************************)
(* The rate buckets, for any numbers of invocations, drafts and namespaces,  *)
(* any limits, skew and number of retries.  Tokens: what was made good and   *)
(* what is in hand was counted.  Minutes: well inside a minute an invocation *)
(* is charged to the minute that it is.  Drafts: an invocation that paid for *)
(* its draft may turn to the connection once.                                *)
(***************************************************************************)
EXTENDS RateLimit, FiniteSetTheorems, TLAPS

\* An invocation runs within its timeout and is charged to a minute that its
\* host's clock showed when it started.
Charged ==
    \A w \in Workers : job[w].pc # "idle" =>
        /\ job[w].start <= clock /\ clock <= job[w].start + Timeout
        /\ \E n \in Readings(job[w].start) : job[w].minute = MinuteOf(n)

\* Attempts made well inside a minute were charged to it.
InsideCharged ==
    \A s \in Subjects, m \in Minutes : inside[s][m] <= spent[s][m]

\* Invocations between their draft's token and the connection's bucket.
Payers(d, minute) ==
    {w \in Workers : /\ job[w].pc = "connection"
                     /\ job[w].draft = d /\ job[w].minute = minute}

\* Each of a draft's tokens lets one invocation turn to the connection.
Paid ==
    \A d \in Drafts, m \in Minutes :
        draws[d][m] + Cardinality(Payers(d, m)) <= count[d][m]

(***************************************************************************)
(* Arithmetic and counting.                                                *)
(***************************************************************************)

LEMMA Scale ==
    ASSUME NEW x \in Int, NEW y \in Int, NEW n \in Nat, x <= y
    PROVE  x * n <= y * n
  OBVIOUS

LEMMA Division ==
    ASSUME NEW a \in Nat, NEW n \in Nat \ {0}
    PROVE  /\ a \div n \in Nat
           /\ (a \div n) * n <= a
           /\ a < (a \div n) * n + n
  OBVIOUS

LEMMA DivisionGrows ==
    ASSUME NEW a \in Nat, NEW b \in Nat, a <= b, NEW n \in Nat \ {0}
    PROVE  a \div n <= b \div n
<1> DEFINE q == a \div n
           p == b \div n
<1>1. q \in Nat /\ p \in Nat /\ q * n <= a /\ b < p * n + n
  BY Division
<1>2. SUFFICES ASSUME p + 1 <= q PROVE FALSE
  BY <1>1
<1>3. (p + 1) * n <= q * n
  BY <1>1, <1>2, Scale
<1>4. (p + 1) * n = p * n + n
  BY <1>1
<1> QED
  BY <1>1, <1>3, <1>4

\* Readings of the clock fall into the minutes that the buckets have, and so
\* does time itself.
LEMMA MinutesOfReadings ==
    ASSUME NEW t \in 0..MaxClock, NEW n \in Readings(t)
    PROVE  n \in Nat /\ MinuteOf(n) \in Minutes
<1>1. Minute \in Nat \ {0} /\ MaxClock \in Nat /\ MaxSkew \in Nat
  BY TimeAssumption
<1>2. n \in Nat /\ n <= MaxClock + MaxSkew /\ MaxClock + MaxSkew \in Nat
  BY <1>1 DEF Readings
<1>3. n \div Minute \in Nat /\ (MaxClock + MaxSkew) \div Minute \in Nat
  BY <1>1, <1>2, Division
<1>4. n \div Minute <= (MaxClock + MaxSkew) \div Minute
  BY <1>1, <1>2, DivisionGrows
<1> QED
  BY <1>2, <1>3, <1>4 DEF MinuteOf, Minutes

LEMMA MinutesOfTime ==
    ASSUME NEW t \in 0..MaxClock
    PROVE  MinuteOf(t) \in Minutes
<1>1. t \in Readings(t)
  BY TimeAssumption DEF Readings
<1> QED
  BY <1>1, MinutesOfReadings

\* Well inside a minute, whoever started within the timeout read that minute.
LEMMA ReadsTheMinute ==
    ASSUME NEW t \in Nat, WellInside(t), NEW start \in Nat,
           start <= t, t <= start + Timeout, NEW n \in Readings(start)
    PROVE  MinuteOf(n) = MinuteOf(t)
<1> DEFINE a == t - Timeout - MaxSkew
           b == t + MaxSkew
<1>1. Minute \in Nat \ {0} /\ Timeout \in Nat /\ MaxSkew \in Nat
  BY TimeAssumption
<1>2. a \in Nat /\ b \in Nat /\ n \in Nat /\ a <= n /\ n <= b /\ a <= t /\ t <= b
  BY <1>1 DEF WellInside, Readings
<1>3. a \div Minute = b \div Minute
  BY DEF WellInside, MinuteOf
<1> HIDE DEF a, b
<1>4. /\ a \div Minute <= n \div Minute /\ n \div Minute <= b \div Minute
      /\ a \div Minute <= t \div Minute /\ t \div Minute <= b \div Minute
  BY <1>1, <1>2, DivisionGrows
<1>5. /\ a \div Minute \in Nat /\ n \div Minute \in Nat
      /\ t \div Minute \in Nat
  BY <1>1, <1>2, Division
<1> QED
  BY <1>3, <1>4, <1>5 DEF MinuteOf

LEMMA Counting ==
    ASSUME NEW S, IsFiniteSet(S), NEW T \in SUBSET S
    PROVE  /\ IsFiniteSet(T)
           /\ Cardinality(T) \in Nat /\ Cardinality(S) \in Nat
           /\ Cardinality(T) <= Cardinality(S)
  BY FS_Subset, FS_CardinalityType

LEMMA CountingOneMore ==
    ASSUME NEW S, IsFiniteSet(S), NEW x, NEW T \in SUBSET (S \cup {x})
    PROVE  Cardinality(T) \in Nat /\ Cardinality(T) <= Cardinality(S) + 1
<1>1. /\ IsFiniteSet(S \cup {x})
      /\ Cardinality(S \cup {x}) \in {Cardinality(S), Cardinality(S) + 1}
  BY FS_AddElement
<1>2. Cardinality(S) \in Nat
  BY FS_CardinalityType
<1> QED
  BY <1>1, <1>2, Counting

LEMMA CountingOneLess ==
    ASSUME NEW S, IsFiniteSet(S), NEW x \in S, NEW T \in SUBSET (S \ {x})
    PROVE  Cardinality(T) \in Nat /\ Cardinality(T) + 1 <= Cardinality(S)
<1>1. IsFiniteSet(S \ {x}) /\ Cardinality(S \ {x}) = Cardinality(S) - 1
  BY FS_RemoveElement
<1>2. Cardinality(S) \in Nat
  BY FS_CardinalityType
<1> QED
  BY <1>1, <1>2, Counting

LEMMA PayersAreFinite ==
    ASSUME NEW d, NEW m
    PROVE  IsFiniteSet(Payers(d, m)) /\ Cardinality(Payers(d, m)) \in Nat
<1>1. Payers(d, m) \in SUBSET Workers
  BY DEF Payers
<1> QED
  BY <1>1, WorkersAssumption, Counting

LEMMA HoldersAreFinite ==
    ASSUME NEW s, NEW m
    PROVE  IsFiniteSet(Holders(s, m)) /\ Cardinality(Holders(s, m)) \in Nat
<1>1. Holders(s, m) \in SUBSET Workers
  BY DEF Holders
<1> QED
  BY <1>1, WorkersAssumption, Counting

\* A bucket counts up, never past its limit, and the answer tells the truth
\* when it says that a token was had.
LEMMA Answers ==
    ASSUME NEW n \in Nat, NEW limit \in Nat, n <= limit,
           NEW answer \in IncrementBelow(n, limit)
    PROVE  /\ answer.count \in Nat
           /\ n <= answer.count /\ answer.count <= limit
           /\ answer.reply = "true" => n + 1 <= answer.count
  BY DEF IncrementBelow

LEMMA Limits == ASSUME NEW s \in Subjects PROVE Limit(s) \in Nat
  BY LimitsAssumption DEF Limit

(***************************************************************************)
(* What becomes of an invocation.                                          *)
(***************************************************************************)

LEMMA Running ==
    ASSUME TypeOK, NEW w \in Workers, job[w].pc # "idle"
    PROVE  /\ job[w] \in Job
           /\ job[w].draft \in Drafts /\ job[w].draft \in Subjects
           /\ job[w].namespace \in Namespaces /\ job[w].namespace \in Subjects
           /\ job[w].draft # job[w].namespace
           /\ job[w].minute \in Minutes /\ job[w].start \in 0..MaxClock
<1>1. job[w] \in Job
  BY DEF TypeOK, NoJob
<1> QED
  BY <1>1, SubjectsAssumption DEF Job, Subjects

LEMMA Ended ==
    ASSUME TypeOK, NEW w \in Workers, job[w].pc # "idle", End(w)
    PROVE  /\ job' \in [Workers -> Job \cup {NoJob}]
           /\ \A v \in Workers : job'[v].pc # "idle" => v # w /\ job'[v] = job[v]
           /\ \A s \in Subjects, m \in Minutes : Holders(s, m)' \subseteq Holders(s, m) \ {w}
           /\ \A d \in Drafts, m \in Minutes : Payers(d, m)' \subseteq Payers(d, m) \ {w}
           /\ Charged /\ clock' = clock => Charged'
<1>1. \A v \in Workers : job'[v] = IF v = w THEN NoJob ELSE job[v]
  BY DEF TypeOK, End
<1>2. job' \in [Workers -> Job \cup {NoJob}]
  BY <1>1 DEF TypeOK, End
<1>3. \A v \in Workers : job'[v].pc # "idle" => v # w /\ job'[v] = job[v]
  BY <1>1 DEF NoJob
<1>4. Charged /\ clock' = clock => Charged'
  BY <1>3 DEF Charged
<1> QED
  BY <1>2, <1>3, <1>4 DEF Holders, Payers

LEMMA WentOn ==
    ASSUME TypeOK, NEW w \in Workers, job[w].pc # "idle",
           NEW step \in {"connection", "granted"}, Goto(w, step)
    PROVE  /\ job' \in [Workers -> Job \cup {NoJob}]
           /\ \A v \in Workers : v # w => job'[v] = job[v]
           /\ job'[w].pc = step /\ job'[w].draft = job[w].draft
           /\ job'[w].namespace = job[w].namespace /\ job'[w].minute = job[w].minute
           /\ Charged /\ clock' = clock => Charged'
<1>1. \A v \in Workers : v # w => job'[v] = job[v]
  BY DEF TypeOK, Goto
<1>2. job'[w] = [job[w] EXCEPT !.pc = step]
  BY DEF TypeOK, Goto
<1>3. job[w] \in Job
  BY Running
<1>4. /\ job'[w].pc = step /\ job'[w].draft = job[w].draft
      /\ job'[w].namespace = job[w].namespace /\ job'[w].minute = job[w].minute
      /\ job'[w].start = job[w].start
      /\ job'[w] \in Job
  BY <1>2, <1>3 DEF Job, Steps
<1>5. Charged /\ clock' = clock => Charged'
  BY <1>1, <1>4 DEF Charged
<1>6. job' \in [Workers -> Job \cup {NoJob}]
  BY <1>1, <1>4 DEF TypeOK, Goto
<1> QED
  BY <1>1, <1>4, <1>5, <1>6

\* Fewer tokens in hand, none made good: still counted.
LEMMA Dropped ==
    ASSUME TypeOK, TokensAreCounted, NEW w \in Workers, job[w].pc # "idle", End(w),
           UNCHANGED <<count, spent>>
    PROVE  TokensAreCounted'
<1> SUFFICES ASSUME NEW s \in Subjects, NEW m \in Minutes
             PROVE  /\ spent[s][m] + Cardinality(Holders(s, m)') <= count[s][m]
                    /\ count[s][m] <= Limit(s)
  BY DEF TokensAreCounted
<1>1. Holders(s, m)' \in SUBSET Holders(s, m)
  BY Ended
<1>2. Cardinality(Holders(s, m)') <= Cardinality(Holders(s, m))
      /\ Cardinality(Holders(s, m)') \in Nat /\ Cardinality(Holders(s, m)) \in Nat
  BY <1>1, HoldersAreFinite, Counting
<1>3. spent[s][m] \in Nat /\ count[s][m] \in Nat /\ Limit(s) \in Nat
  BY Limits DEF TypeOK, Counters
<1> QED
  BY <1>2, <1>3 DEF TokensAreCounted

\* Fewer invocations between their draft's token and the connection: still paid.
LEMMA NobodyPays ==
    ASSUME TypeOK, Paid, UNCHANGED <<count, draws>>,
           \A d \in Drafts, m \in Minutes : Payers(d, m)' \subseteq Payers(d, m)
    PROVE  Paid'
<1> SUFFICES ASSUME NEW d \in Drafts, NEW m \in Minutes
             PROVE  draws[d][m] + Cardinality(Payers(d, m)') <= count[d][m]
  BY DEF Paid
<1>1. Payers(d, m)' \in SUBSET Payers(d, m)
  OBVIOUS
<1>2. /\ Cardinality(Payers(d, m)') <= Cardinality(Payers(d, m))
      /\ Cardinality(Payers(d, m)') \in Nat /\ Cardinality(Payers(d, m)) \in Nat
  BY <1>1, PayersAreFinite, Counting
<1>3. draws[d][m] \in Nat /\ count[d][m] \in Nat
  BY DEF TypeOK, Counters, Subjects
<1> QED
  BY <1>2, <1>3 DEF Paid

(***************************************************************************)
(* The steps.                                                              *)
(***************************************************************************)

RInv == TypeOK /\ TokensAreCounted /\ Charged /\ InsideCharged /\ Paid

LEMMA StartStep ==
    ASSUME RInv, NEW w \in Workers, NEW d \in Drafts, NEW s \in Namespaces, Start(w, d, s)
    PROVE  RInv'
<1>1. TypeOK /\ TokensAreCounted /\ Charged /\ InsideCharged /\ Paid
  BY DEF RInv
<1>2. job[w].pc = "idle" /\ UNCHANGED <<count, clock, spent, sent, inside, draws>>
  BY DEF Start, counters
<1>3. clock \in 0..MaxClock /\ clock \in Nat /\ Timeout \in Nat
  BY <1>1, TimeAssumption DEF TypeOK
<1>4. PICK n \in Readings(clock) :
         job' = [job EXCEPT ![w] = [pc |-> "draft", draft |-> d, namespace |-> s,
                                    start |-> clock, minute |-> MinuteOf(n)]]
  BY DEF Start
<1> DEFINE new == [pc |-> "draft", draft |-> d, namespace |-> s,
                   start |-> clock, minute |-> MinuteOf(n)]
<1>5. new \in Job
  BY <1>3, <1>4, MinutesOfReadings DEF Job, Steps
<1>6. job' \in [Workers -> Job \cup {NoJob}]
  BY <1>1, <1>4, <1>5 DEF TypeOK
<1>7. \A v \in Workers : job'[v] = IF v = w THEN new ELSE job[v]
  BY <1>1, <1>4 DEF TypeOK
<1>8. TypeOK'
  BY <1>1, <1>2, <1>6 DEF TypeOK
<1>9. TokensAreCounted'
  <2>1. \A i \in Subjects, m \in Minutes : Holders(i, m)' = Holders(i, m)
    BY <1>2, <1>7 DEF Holders
  <2> QED
    BY <1>1, <1>2, <2>1 DEF TokensAreCounted
<1>10. Charged'
  <2> SUFFICES ASSUME NEW v \in Workers, job'[v].pc # "idle"
               PROVE  /\ job'[v].start <= clock /\ clock <= job'[v].start + Timeout
                      /\ \E i \in Readings(job'[v].start) : job'[v].minute = MinuteOf(i)
    BY <1>2 DEF Charged
  <2>1. CASE v = w
    <3>1. job'[v].start = clock /\ job'[v].minute = MinuteOf(n)
      BY <1>7, <2>1
    <3> QED
      BY <1>3, <1>4, <3>1
  <2>2. CASE v # w
    BY <1>1, <1>7, <2>2 DEF Charged
  <2> QED
    BY <2>1, <2>2
<1>11. InsideCharged'
  BY <1>1, <1>2 DEF InsideCharged
<1>12. Paid'
  <2>1. \A i \in Drafts, m \in Minutes : Payers(i, m)' \subseteq Payers(i, m)
    BY <1>7 DEF Payers
  <2> QED
    BY <1>1, <1>2, <2>1, NobodyPays
<1> QED
  BY <1>8, <1>9, <1>10, <1>11, <1>12 DEF RInv

LEMMA DropStep ==
    ASSUME RInv, NEW w \in Workers, GiveUp(w) \/ Fail(w)
    PROVE  RInv'
<1>1. TypeOK /\ TokensAreCounted /\ Charged /\ InsideCharged /\ Paid
  BY DEF RInv
<1>2. /\ job[w].pc # "idle" /\ End(w)
      /\ UNCHANGED <<count, clock, spent, sent, inside, draws>>
  BY DEF GiveUp, Fail, counters
<1>3. TypeOK'
  BY <1>1, <1>2, Ended DEF TypeOK
<1>4. TokensAreCounted'
  BY <1>1, <1>2, Dropped
<1>5. Charged'
  BY <1>1, <1>2, Ended
<1>6. InsideCharged'
  BY <1>1, <1>2 DEF InsideCharged
<1>7. Paid'
  <2>1. \A d \in Drafts, m \in Minutes : Payers(d, m)' \subseteq Payers(d, m)
    BY <1>1, <1>2, Ended
  <2> QED
    BY <1>1, <1>2, <2>1, NobodyPays
<1> QED
  BY <1>3, <1>4, <1>5, <1>6, <1>7 DEF RInv

LEMMA TakeStep ==
    ASSUME RInv, NEW w \in Workers, NEW subject, NEW next,
           \/ job[w].pc = "draft" /\ subject = job[w].draft /\ next = "connection"
           \/ job[w].pc = "connection" /\ subject = job[w].namespace /\ next = "granted",
           Take(w, subject, next)
    PROVE  RInv'
<1> DEFINE minute == job[w].minute
<1>1. TypeOK /\ TokensAreCounted /\ Charged /\ InsideCharged /\ Paid
  BY DEF RInv
<1>2. job[w].pc # "idle" /\ UNCHANGED <<clock, spent, sent, inside>>
  BY DEF Take
<1>3. /\ subject \in Subjects /\ minute \in Minutes
      /\ job[w].draft \in Drafts /\ job[w].namespace \in Namespaces
      /\ job[w].draft # job[w].namespace
      /\ next \in {"connection", "granted"}
  BY <1>1, <1>2, Running
<1>4. PICK answer \in IncrementBelow(count[subject][minute], Limit(subject)) :
         /\ count' = [count EXCEPT ![subject][minute] = answer.count]
         /\ IF answer.reply = "true" THEN Goto(w, next) ELSE End(w)
  BY DEF Take
<1>5. /\ count[subject][minute] \in Nat /\ Limit(subject) \in Nat
      /\ count[subject][minute] <= Limit(subject)
  BY <1>1, <1>3, Limits DEF TypeOK, Counters, TokensAreCounted
<1>6. /\ answer.count \in Nat
      /\ count[subject][minute] <= answer.count /\ answer.count <= Limit(subject)
      /\ answer.reply = "true" => count[subject][minute] + 1 <= answer.count
  BY <1>4, <1>5, Answers
<1>7. /\ count' \in Counters
      /\ \A s \in Subjects, m \in Minutes :
            count'[s][m] = IF s = subject /\ m = minute THEN answer.count ELSE count[s][m]
  BY <1>1, <1>3, <1>4, <1>6 DEF TypeOK, Counters
<1>8. job' \in [Workers -> Job \cup {NoJob}] /\ Charged'
  <2>1. CASE answer.reply = "true"
    BY <1>1, <1>2, <1>3, <1>4, <2>1, WentOn
  <2>2. CASE answer.reply # "true"
    BY <1>1, <1>2, <1>4, <2>2, Ended
  <2> QED
    BY <2>1, <2>2
<1>9. /\ draws' \in [Drafts -> [Minutes -> Nat]]
      /\ job[w].pc = "draft" => draws' = draws
      /\ job[w].pc = "connection" => \A d \in Drafts, m \in Minutes :
            draws'[d][m] = IF d = job[w].draft /\ m = minute
                           THEN draws[d][m] + 1 ELSE draws[d][m]
  <2>1. CASE job[w].pc = "draft"
    <3>1. subject \notin Namespaces
      BY <1>3, <2>1, SubjectsAssumption
    <3> QED
      BY <1>1, <2>1, <3>1 DEF Take, TypeOK
  <2>2. CASE job[w].pc = "connection"
    <3>1. draws' = [draws EXCEPT ![job[w].draft][minute] = @ + 1]
      BY <1>3, <2>2 DEF Take
    <3> QED
      BY <1>1, <1>3, <2>2, <3>1 DEF TypeOK
  <2> QED
    BY <2>1, <2>2
<1>10. TypeOK'
  BY <1>1, <1>2, <1>7, <1>8, <1>9 DEF TypeOK
<1>11. InsideCharged'
  BY <1>1, <1>2 DEF InsideCharged
<1>12. ASSUME NEW s \in Subjects, NEW m \in Minutes
       PROVE  /\ spent[s][m] + Cardinality(Holders(s, m)') <= count'[s][m]
              /\ count'[s][m] <= Limit(s)
  <2>1. /\ spent[s][m] \in Nat /\ count[s][m] \in Nat /\ Limit(s) \in Nat
        /\ spent[s][m] + Cardinality(Holders(s, m)) <= count[s][m]
        /\ count[s][m] <= Limit(s)
        /\ Cardinality(Holders(s, m)) \in Nat
    BY <1>1, Limits, HoldersAreFinite DEF TypeOK, Counters, TokensAreCounted
  <2>2. count[s][m] <= count'[s][m] /\ count'[s][m] <= Limit(s) /\ count'[s][m] \in Nat
    BY <1>5, <1>6, <1>7, <2>1
  <2>3. CASE answer.reply = "true" /\ s = subject /\ m = minute
    <3>1. Holders(s, m)' \in SUBSET (Holders(s, m) \cup {w})
      BY <1>1, <1>2, <1>3, <1>4, <2>3, WentOn DEF Holders
    <3>2. Cardinality(Holders(s, m)') <= Cardinality(Holders(s, m)) + 1
          /\ Cardinality(Holders(s, m)') \in Nat
      BY <3>1, HoldersAreFinite, CountingOneMore
    <3>3. count[s][m] + 1 <= count'[s][m]
      BY <1>6, <1>7, <2>3
    <3> QED
      BY <2>1, <2>2, <3>2, <3>3
  <2>4. CASE ~(answer.reply = "true" /\ s = subject /\ m = minute)
    <3>1. Holders(s, m)' \in SUBSET Holders(s, m)
      <4>1. CASE answer.reply = "true"
        <5>1. /\ \A v \in Workers : v # w => job'[v] = job[v]
              /\ job'[w].pc = next /\ job'[w].draft = job[w].draft
              /\ job'[w].namespace = job[w].namespace /\ job'[w].minute = job[w].minute
          BY <1>1, <1>2, <1>3, <1>4, <4>1, WentOn
        <5>2. s # subject \/ m # minute
          BY <2>4, <4>1
        <5>3. w \in Holders(s, m)' => w \in Holders(s, m)
          BY <1>3, <5>1, <5>2 DEF Holders
        <5> QED
          BY <5>1, <5>3 DEF Holders
      <4>2. CASE answer.reply # "true"
        BY <1>1, <1>2, <1>4, <4>2, Ended
      <4> QED
        BY <4>1, <4>2
    <3>2. Cardinality(Holders(s, m)') <= Cardinality(Holders(s, m))
          /\ Cardinality(Holders(s, m)') \in Nat
      BY <3>1, HoldersAreFinite, Counting
    <3> QED
      BY <2>1, <2>2, <3>2
  <2> QED
    BY <2>3, <2>4
<1>13. TokensAreCounted'
  BY <1>2, <1>12 DEF TokensAreCounted
\* A draft's token makes one payer; a payer that turns to the connection is
\* none any more.
<1>14. ASSUME NEW d \in Drafts, NEW m \in Minutes
       PROVE  draws'[d][m] + Cardinality(Payers(d, m)') <= count'[d][m]
  <2>1. /\ draws[d][m] \in Nat /\ count[d][m] \in Nat /\ d \in Subjects
        /\ IsFiniteSet(Payers(d, m)) /\ Cardinality(Payers(d, m)) \in Nat
        /\ draws[d][m] + Cardinality(Payers(d, m)) <= count[d][m]
    BY <1>1, PayersAreFinite DEF TypeOK, Counters, Subjects, Paid
  <2>2. count[d][m] <= count'[d][m] /\ count'[d][m] \in Nat
    BY <1>5, <1>6, <1>7, <2>1
  <2>3. \A v \in Payers(d, m)' :
           \/ v # w /\ v \in Payers(d, m)
           \/ /\ v = w /\ next = "connection" /\ answer.reply = "true"
              /\ d = job[w].draft /\ m = minute
    <3>1. CASE answer.reply = "true"
      BY <1>1, <1>2, <1>3, <1>4, <3>1, WentOn DEF Payers
    <3>2. CASE answer.reply # "true"
      BY <1>1, <1>2, <1>4, <3>2, Ended DEF Payers
    <3> QED
      BY <3>1, <3>2
  <2>4. CASE job[w].pc = "draft"
    <3>1. draws'[d][m] = draws[d][m]
      BY <1>9, <2>4
    <3>2. CASE answer.reply = "true" /\ d = job[w].draft /\ m = minute
      <4>1. Payers(d, m)' \in SUBSET (Payers(d, m) \cup {w})
        BY <2>3
      <4>2. Cardinality(Payers(d, m)') <= Cardinality(Payers(d, m)) + 1
            /\ Cardinality(Payers(d, m)') \in Nat
        BY <2>1, <4>1, CountingOneMore
      <4>3. count[d][m] + 1 <= count'[d][m]
        BY <1>6, <1>7, <2>1, <2>4, <3>2
      <4> QED
        BY <2>1, <2>2, <3>1, <4>2, <4>3
    <3>3. CASE ~(answer.reply = "true" /\ d = job[w].draft /\ m = minute)
      <4>1. Payers(d, m)' \in SUBSET Payers(d, m)
        BY <2>3, <3>3
      <4>2. Cardinality(Payers(d, m)') <= Cardinality(Payers(d, m))
            /\ Cardinality(Payers(d, m)') \in Nat
        BY <2>1, <4>1, Counting
      <4> QED
        BY <2>1, <2>2, <3>1, <4>2
    <3> QED
      BY <3>2, <3>3
  <2>5. CASE job[w].pc = "connection"
    <3>1. Payers(d, m)' \in SUBSET (Payers(d, m) \ {w})
      BY <2>3, <2>5
    <3>2. CASE d = job[w].draft /\ m = minute
      <4>1. w \in Payers(d, m)
        BY <2>5, <3>2 DEF Payers
      <4>2. Cardinality(Payers(d, m)') \in Nat
            /\ Cardinality(Payers(d, m)') + 1 <= Cardinality(Payers(d, m))
        BY <2>1, <3>1, <4>1, CountingOneLess
      <4>3. draws'[d][m] = draws[d][m] + 1
        BY <1>9, <2>5, <3>2
      <4> QED
        BY <2>1, <2>2, <4>2, <4>3
    <3>3. CASE ~(d = job[w].draft /\ m = minute)
      <4>1. Cardinality(Payers(d, m)') \in Nat
            /\ Cardinality(Payers(d, m)') <= Cardinality(Payers(d, m))
        BY <2>1, <3>1, Counting
      <4>2. draws'[d][m] = draws[d][m]
        BY <1>9, <2>5, <3>3
      <4> QED
        BY <2>1, <2>2, <4>1, <4>2
    <3> QED
      BY <3>2, <3>3
  <2> QED
    BY <2>4, <2>5
<1>15. Paid'
  BY <1>14 DEF Paid
<1> QED
  BY <1>8, <1>10, <1>11, <1>13, <1>15 DEF RInv

LEMMA TakeTokensStep ==
    ASSUME RInv, NEW w \in Workers, TakeTokens(w)
    PROVE  RInv'
<1>1. CASE job[w].pc = "draft" /\ Take(w, job[w].draft, "connection")
  BY <1>1, TakeStep
<1>2. CASE job[w].pc = "connection" /\ Take(w, job[w].namespace, "granted")
  BY <1>2, TakeStep
<1> QED
  BY <1>1, <1>2 DEF TakeTokens

\* One attempt more is counted where it was made or charged.
LEMMA OneMore ==
    ASSUME NEW w \in Workers, NEW minute \in Minutes, NEW attempts \in Counters
    PROVE  /\ Plus(w, attempts, minute) \in Counters
           /\ \A s \in Subjects, m \in Minutes :
                 Plus(w, attempts, minute)[s][m] =
                    IF s \in {job[w].draft, job[w].namespace} /\ m = minute
                    THEN attempts[s][m] + 1 ELSE attempts[s][m]
  BY DEF Plus, Counters

LEMMA SendStep ==
    ASSUME RInv, NEW w \in Workers, Send(w)
    PROVE  RInv'
<1> DEFINE minute == job[w].minute
           now == MinuteOf(clock)
           paid(s) == s \in {job[w].draft, job[w].namespace}
<1>1. TypeOK /\ TokensAreCounted /\ Charged /\ InsideCharged /\ Paid
  BY DEF RInv
<1>2. job[w].pc = "granted" /\ End(w) /\ UNCHANGED <<count, clock, draws>>
  BY DEF Send
<1>3. minute \in Minutes /\ now \in Minutes
  BY <1>1, <1>2, Running, MinutesOfTime DEF TypeOK
<1>4. /\ spent' \in Counters
      /\ \A s \in Subjects, m \in Minutes :
            spent'[s][m] = IF paid(s) /\ m = minute THEN spent[s][m] + 1 ELSE spent[s][m]
  BY <1>1, <1>3, OneMore DEF Send, TypeOK
<1>5. sent' \in Counters
  BY <1>1, <1>3, OneMore DEF Send, TypeOK
<1>6. /\ inside' \in Counters
      /\ WellInside(clock) => \A s \in Subjects, m \in Minutes :
            inside'[s][m] = IF paid(s) /\ m = now THEN inside[s][m] + 1 ELSE inside[s][m]
      /\ ~WellInside(clock) => inside' = inside
  BY <1>1, <1>3, OneMore DEF Send, TypeOK
<1>7. /\ job' \in [Workers -> Job \cup {NoJob}]
      /\ \A s \in Subjects, m \in Minutes : Holders(s, m)' \subseteq Holders(s, m) \ {w}
      /\ \A d \in Drafts, m \in Minutes : Payers(d, m)' \subseteq Payers(d, m) \ {w}
      /\ Charged'
  BY <1>1, <1>2, Ended
<1>8. TypeOK'
  BY <1>1, <1>2, <1>4, <1>5, <1>6, <1>7 DEF TypeOK
<1>9. ASSUME NEW s \in Subjects, NEW m \in Minutes
      PROVE  /\ spent'[s][m] + Cardinality(Holders(s, m)') <= count[s][m]
             /\ count[s][m] <= Limit(s)
  <2>1. /\ spent[s][m] \in Nat /\ count[s][m] \in Nat /\ Limit(s) \in Nat
        /\ spent[s][m] + Cardinality(Holders(s, m)) <= count[s][m]
        /\ count[s][m] <= Limit(s)
        /\ IsFiniteSet(Holders(s, m)) /\ Cardinality(Holders(s, m)) \in Nat
    BY <1>1, Limits, HoldersAreFinite DEF TypeOK, Counters, TokensAreCounted
  <2>2. Holders(s, m)' \in SUBSET (Holders(s, m) \ {w})
    BY <1>7
  <2>3. CASE paid(s) /\ m = minute
    <3>1. w \in Holders(s, m)
      BY <1>2, <2>3 DEF Holders
    <3>2. Cardinality(Holders(s, m)') \in Nat
          /\ Cardinality(Holders(s, m)') + 1 <= Cardinality(Holders(s, m))
      BY <2>1, <2>2, <3>1, CountingOneLess
    <3>3. spent'[s][m] = spent[s][m] + 1
      BY <1>4, <2>3
    <3> QED
      BY <2>1, <3>2, <3>3
  <2>4. CASE ~(paid(s) /\ m = minute)
    <3>1. Cardinality(Holders(s, m)') \in Nat
          /\ Cardinality(Holders(s, m)') <= Cardinality(Holders(s, m))
      BY <2>1, <2>2, Counting
    <3>2. spent'[s][m] = spent[s][m]
      BY <1>4, <2>4
    <3> QED
      BY <2>1, <3>1, <3>2
  <2> QED
    BY <2>3, <2>4
<1>10. TokensAreCounted'
  BY <1>2, <1>9 DEF TokensAreCounted
<1>11. WellInside(clock) => minute = now
  <2> SUFFICES ASSUME WellInside(clock) PROVE minute = now
    OBVIOUS
  <2>1. PICK n \in Readings(job[w].start) : minute = MinuteOf(n)
    BY <1>1, <1>2 DEF Charged
  <2>2. PICK start \in Nat : start = job[w].start
    BY <1>1, <1>2, Running, TimeAssumption
  <2>3. start <= clock /\ clock <= start + Timeout /\ clock \in Nat
    BY <1>1, <1>2, <2>2, TimeAssumption DEF Charged, TypeOK
  <2> QED
    BY <2>1, <2>2, <2>3, ReadsTheMinute
<1>12. InsideCharged'
  <2> SUFFICES ASSUME NEW s \in Subjects, NEW m \in Minutes
               PROVE  inside'[s][m] <= spent'[s][m]
    BY DEF InsideCharged
  <2>1. spent[s][m] \in Nat /\ inside[s][m] \in Nat /\ inside[s][m] <= spent[s][m]
    BY <1>1 DEF TypeOK, Counters, InsideCharged
  <2>2. CASE WellInside(clock)
    BY <1>4, <1>6, <1>11, <2>1, <2>2
  <2>3. CASE ~WellInside(clock)
    BY <1>4, <1>6, <2>1, <2>3
  <2> QED
    BY <2>2, <2>3
<1>13. Paid'
  BY <1>1, <1>2, <1>7, NobodyPays
<1> QED
  BY <1>7, <1>8, <1>10, <1>12, <1>13 DEF RInv

LEMMA TickStep ==
    ASSUME RInv, Tick
    PROVE  RInv'
<1>1. TypeOK /\ TokensAreCounted /\ Charged /\ InsideCharged /\ Paid
  BY DEF RInv
<1>2. UNCHANGED <<count, job, spent, sent, inside, draws>>
  BY DEF Tick, counters
<1>3. clock' \in 0..MaxClock /\ clock' = clock + 1 /\ clock \in Nat
  BY <1>1, TimeAssumption DEF Tick, TypeOK
<1>4. TypeOK'
  BY <1>1, <1>2, <1>3 DEF TypeOK
<1>5. TokensAreCounted'
  BY <1>1, <1>2 DEF TokensAreCounted, Holders
<1>6. Charged'
  <2> SUFFICES ASSUME NEW w \in Workers, job[w].pc # "idle"
               PROVE  /\ job[w].start <= clock' /\ clock' <= job[w].start + Timeout
                      /\ \E n \in Readings(job[w].start) : job[w].minute = MinuteOf(n)
    BY <1>2 DEF Charged
  <2>1. job[w].start \in Nat /\ Timeout \in Nat
    BY <1>1, Running, TimeAssumption
  <2>2. job[w].start <= clock /\ clock < job[w].start + Timeout
    BY <1>1 DEF Charged, Tick
  <2>3. \E n \in Readings(job[w].start) : job[w].minute = MinuteOf(n)
    BY <1>1 DEF Charged
  <2> QED
    BY <1>3, <2>1, <2>2, <2>3
<1>7. InsideCharged'
  BY <1>1, <1>2 DEF InsideCharged
<1>8. Paid'
  BY <1>1, <1>2 DEF Paid, Payers
<1> QED
  BY <1>4, <1>5, <1>6, <1>7, <1>8 DEF RInv

LEMMA BucketsStep ==
    ASSUME RInv, [Next]_vars
    PROVE  RInv'
<1>1. CASE UNCHANGED vars
  <2>1. UNCHANGED <<count, clock, job, spent, sent, inside, draws>>
    BY <1>1 DEF vars, counters
  <2>2. TypeOK'
    BY <2>1 DEF RInv, TypeOK
  <2>3. TokensAreCounted' /\ InsideCharged'
    BY <2>1 DEF RInv, TokensAreCounted, Holders, InsideCharged
  <2>4. Charged' /\ Paid'
    BY <2>1 DEF RInv, Charged, Paid, Payers
  <2> QED
    BY <2>2, <2>3, <2>4 DEF RInv
<1> QED
  BY <1>1, StartStep, DropStep, TakeTokensStep, SendStep, TickStep DEF Next

LEMMA BucketsInit == Init => RInv
<1> SUFFICES ASSUME Init PROVE RInv
  OBVIOUS
<1>1. TypeOK
  BY TimeAssumption DEF Init, TypeOK, Counters
<1>2. \A w \in Workers : job[w].pc = "idle"
  BY DEF Init, NoJob
<1>3. \A s, m : Holders(s, m) = {} /\ Payers(s, m) = {}
  BY <1>2 DEF Holders, Payers
<1>4. Cardinality({}) = 0
  BY FS_EmptySet
<1>5. \A s \in Subjects, m \in Minutes :
         count[s][m] = 0 /\ spent[s][m] = 0 /\ inside[s][m] = 0
  BY DEF Init
<1>6. TokensAreCounted
  <2> SUFFICES ASSUME NEW s \in Subjects, NEW m \in Minutes
               PROVE  /\ spent[s][m] + Cardinality(Holders(s, m)) <= count[s][m]
                      /\ count[s][m] <= Limit(s)
    BY DEF TokensAreCounted
  <2>1. Cardinality(Holders(s, m)) = 0
    BY <1>3, <1>4
  <2> QED
    BY <1>5, <2>1, Limits
<1>7. Charged
  BY <1>2 DEF Charged
<1>8. InsideCharged
  BY <1>5 DEF InsideCharged
<1>9. Paid
  <2>1. \A d \in Drafts, m \in Minutes : draws[d][m] = 0 /\ count[d][m] = 0
    BY DEF Init, Subjects
  <2> QED
    BY <1>3, <1>4, <2>1 DEF Paid
<1> QED
  BY <1>1, <1>6, <1>7, <1>8, <1>9 DEF RInv

(***************************************************************************)
(* The theorems.                                                           *)
(***************************************************************************)

\* The invariant holds throughout: tokens are counted, an invocation is charged
\* to a minute its host's clock showed, and a draft pays before its connection.
THEOREM BucketsHold == Spec => []RInv
  BY BucketsInit, BucketsStep, PTL DEF Spec

\* The buckets and the invocations stay within their types.
THEOREM TypeCorrect == Spec => []TypeOK
<1>1. RInv => TypeOK
  BY DEF RInv
<1> QED
  BY <1>1, BucketsHold, PTL

\* Crashes, errors and lost replies cost tokens and mint none, and no bucket
\* passes its limit.
THEOREM NoTokenMinted == Spec => []TokensAreCounted
<1>1. RInv => TokensAreCounted
  BY DEF RInv
<1> QED
  BY <1>1, BucketsHold, PTL

\* Attempts made well inside a minute of real time, further from its ends than
\* the timeout and the skew can carry an invocation, are at most its limit.
THEOREM LimitsHoldInside == Spec => []LimitHoldsInsideMinutes
<1>1. ASSUME RInv, NEW s \in Subjects, NEW m \in Minutes
      PROVE  inside[s][m] <= Limit(s)
  <2>1. /\ inside[s][m] \in Nat /\ spent[s][m] \in Nat /\ count[s][m] \in Nat
        /\ Limit(s) \in Nat /\ Cardinality(Holders(s, m)) \in Nat
    BY <1>1, Limits, HoldersAreFinite DEF RInv, TypeOK, Counters
  <2>2. /\ inside[s][m] <= spent[s][m]
        /\ spent[s][m] + Cardinality(Holders(s, m)) <= count[s][m]
        /\ count[s][m] <= Limit(s)
    BY <1>1 DEF RInv, InsideCharged, TokensAreCounted
  <2> QED
    BY <2>1, <2>2
<1>2. RInv => LimitHoldsInsideMinutes
  BY <1>1 DEF LimitHoldsInsideMinutes
<1> QED
  BY <1>2, BucketsHold, PTL

\* However many replies are lost and invocations die, a draft's invocations of
\* a minute turn to the connection at most once for each token of the draft.
THEOREM ConnectionTokensArePaid == Spec => []DraftsPayFirst
<1>1. ASSUME RInv, NEW d \in Drafts, NEW m \in Minutes
      PROVE  draws[d][m] <= count[d][m]
  <2>1. draws[d][m] \in Nat /\ count[d][m] \in Nat /\ Cardinality(Payers(d, m)) \in Nat
    BY <1>1, PayersAreFinite DEF RInv, TypeOK, Counters, Subjects
  <2>2. draws[d][m] + Cardinality(Payers(d, m)) <= count[d][m]
    BY <1>1 DEF RInv, Paid
  <2> QED
    BY <2>1, <2>2
<1>2. RInv => DraftsPayFirst
  BY <1>1 DEF DraftsPayFirst
<1> QED
  BY <1>2, BucketsHold, PTL

=============================================================================
