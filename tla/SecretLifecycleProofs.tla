------------------------- MODULE SecretLifecycleProofs -------------------------
(***************************************************************************)
(* The secrets, for any numbers of invocations, recipients, addresses and    *)
(* credentials, and for operators who work in any order.  Tags and value are *)
(* read in two calls, and what was read may be out of date when it is used:  *)
(* the invariant says what of it still holds.                               *)
(***************************************************************************)
EXTENDS SecretLifecycle, FiniteSetTheorems, TLAPS

\* What an invocation knows stays true: the value of a recipient never changes,
\* and one revoked is never enabled again.
Sound(j) ==
    /\ j.step \in {"tags", "value"} =>
          /\ j.path \in {Smtp, j.recipient}
          /\ j.late => j.recipient \in revoked
    /\ j.step = "value" =>
          /\ secret[j.path] # NoSecret
          /\ j.late => j.path = Smtp
    /\ j.step = "send" =>
          /\ secret[j.recipient] # NoSecret
          /\ j.address = secret[j.recipient].value
          /\ ~j.late

\* What an invocation could find now, or failed its notification for, is on
\* record as a cause.
Caused ==
    \A w \in Workers :
        /\ /\ job[w].step \in {"tags", "value"}
           /\ Wanting(job[w].path, secret[job[w].path], job[w].step)
           => wanting[w]
        /\ job[w].step = "mark_failed" => wanting[w]

\* What is stored: recipients have addresses and revoked ones are disabled.
Vault ==
    /\ \A r \in Recipients : secret[r] # NoSecret => secret[r].value \in Addresses
    /\ \A r \in revoked : secret[r] # NoSecret /\ secret[r].tags = "disabled"

\* What was done with it.
Done ==
    /\ \A r \in Recipients : \A a \in sentTo[r] :
          secret[r] # NoSecret /\ a = secret[r].value
    /\ late = {}

VInv == TypeOK /\ (\A w \in Workers : Sound(job[w])) /\ Caused /\ Vault /\ Done

(***************************************************************************)
(* Invocations.                                                            *)
(***************************************************************************)

LEMMA Shapes ==
    ASSUME TypeOK, NEW w \in Workers
    PROVE  /\ job[w].step \in {"tags", "value"} =>
                job[w] \in [step : {"tags", "value"}, path : Paths,
                            recipient : Recipients, late : BOOLEAN]
           /\ job[w].step = "mark_failed" =>
                job[w] \in [step : {"mark_failed"}, recipient : Recipients, late : BOOLEAN]
           /\ job[w].step = "send" =>
                job[w] \in [step : {"send"}, recipient : Recipients, late : BOOLEAN,
                            address : Addresses]
<1>1. job[w] \in Job \cup {NoJob}
  BY DEF TypeOK
<1> QED
  BY <1>1 DEF Job, NoJob

\* One invocation moves on; nothing that it or another knows is touched.  If it
\* turns to failing its notification it has a cause.
LEMMA Becoming ==
    ASSUME VInv, NEW w \in Workers, NEW j \in Job \cup {NoJob}, Sound(j),
           j.step = "mark_failed" => wanting[w],
           Become(w, j), UNCHANGED <<secret, revoked>>
    PROVE  /\ job' \in [Workers -> Job \cup {NoJob}]
           /\ wanting' \in [Workers -> BOOLEAN]
           /\ \A v \in Workers : Sound(job[v])'
           /\ Caused'
<1>1. job \in [Workers -> Job \cup {NoJob}] /\ wanting \in [Workers -> BOOLEAN]
  BY DEF VInv, TypeOK
<1> DEFINE cause == IF j.step \in {"tags", "value"}
                    THEN Wanting(j.path, secret[j.path], j.step)
                    ELSE j.step = "mark_failed" /\ wanting[w]
<1>2. job' = [job EXCEPT ![w] = j] /\ wanting' = [wanting EXCEPT ![w] = cause]
  BY DEF Become
<1>3. \A v \in Workers : job'[v] = IF v = w THEN j ELSE job[v]
  BY <1>1, <1>2
<1>4. cause \in BOOLEAN
  BY <1>1 DEF Wanting
<1>5. /\ wanting' \in [Workers -> BOOLEAN]
      /\ wanting'[w] = cause
      /\ \A v \in Workers : v # w => wanting'[v] = wanting[v]
  <2> HIDE DEF cause
  <2> QED
    BY <1>1, <1>2, <1>4
<1>6. \A v \in Workers : Sound(job[v])
  BY DEF VInv
<1>7. ASSUME NEW v \in Workers
      PROVE  Sound(job[v])'
  <2>1. CASE v = w
    BY <1>3, <2>1 DEF Sound
  <2>2. CASE v # w
    <3>1. job'[v] = job[v] /\ Sound(job[v])
      BY <1>3, <1>6, <2>2
    <3> QED
      BY <3>1 DEF Sound
  <2> QED
    BY <2>1, <2>2
<1>8. Caused'
  <2> SUFFICES ASSUME NEW v \in Workers
               PROVE  /\ /\ job'[v].step \in {"tags", "value"}
                         /\ Wanting(job'[v].path, secret[job'[v].path], job'[v].step)
                         => wanting'[v]
                      /\ job'[v].step = "mark_failed" => wanting'[v]
    BY DEF Caused
  <2>1. CASE v = w
    <3>1. job'[v] = j /\ wanting'[v] = cause
      BY <1>3, <1>5, <2>1
    <3> QED
      BY <3>1
  <2>2. CASE v # w
    <3>1. job'[v] = job[v] /\ wanting'[v] = wanting[v]
      BY <1>3, <1>5, <2>2
    <3> QED
      BY <3>1 DEF VInv, Caused
  <2> QED
    BY <2>1, <2>2
<1> QED
  BY <1>1, <1>2, <1>5, <1>7, <1>8

\* So nothing is lost by a step that only moves an invocation on.
LEMMA Moving ==
    ASSUME VInv, NEW w \in Workers, NEW j \in Job \cup {NoJob}, Sound(j),
           j.step = "mark_failed" => wanting[w],
           Become(w, j), UNCHANGED <<secret, history>>
    PROVE  VInv'
<1>1. UNCHANGED <<secret, sentTo, failed, revoked, late>>
  BY DEF history
<1>2. /\ job' \in [Workers -> Job \cup {NoJob}] /\ wanting' \in [Workers -> BOOLEAN]
      /\ \A v \in Workers : Sound(job[v])'
      /\ Caused'
  BY <1>1, Becoming
<1>3. TypeOK'
  BY <1>1, <1>2 DEF VInv, TypeOK
<1>4. Vault'
  BY <1>1 DEF VInv, Vault
<1>5. Done'
  BY <1>1 DEF VInv, Done
<1> QED
  BY <1>2, <1>3, <1>4, <1>5 DEF VInv

LEMMA Idling ==
    NoJob \in Job \cup {NoJob} /\ Sound(NoJob) /\ NoJob.step = "idle"
  BY DEF NoJob, Sound

LEMMA StartStep ==
    ASSUME VInv, NEW w \in Workers, NEW r \in Recipients, Start(w, r)
    PROVE  VInv'
<1> DEFINE j == Reading("tags", Smtp, r, r \in revoked)
<1>1. j \in Job
  BY DEF Reading, Job, Paths
<1>2. Sound(j) /\ j.step = "tags"
  BY DEF Reading, Sound
<1> QED
  BY <1>1, <1>2, Moving DEF Start

\* An invocation fails its notification for what its call has found.
LEMMA Failing ==
    ASSUME VInv, NEW w \in Workers, job[w].step \in {"tags", "value"},
           Wanting(job[w].path, secret[job[w].path], job[w].step),
           Invalid(w), UNCHANGED <<secret, history>>
    PROVE  VInv'
<1> DEFINE j == [step |-> "mark_failed", recipient |-> job[w].recipient,
                 late |-> job[w].late]
<1>1. job[w] \in [step : {"tags", "value"}, path : Paths, recipient : Recipients,
                  late : BOOLEAN]
  BY Shapes DEF VInv
<1>2. j \in Job
  BY <1>1 DEF Job
<1>3. Sound(j)
  BY DEF Sound
<1>4. wanting[w]
  BY DEF VInv, Caused
<1> QED
  BY <1>2, <1>3, <1>4, Moving DEF Invalid

LEMMA ReadTagsStep ==
    ASSUME VInv, NEW w \in Workers, ReadTags(w)
    PROVE  VInv'
<1> DEFINE s == secret[job[w].path]
<1>1. job[w].step = "tags" /\ UNCHANGED <<secret, history>>
  BY DEF ReadTags
<1>2. /\ job[w] \in [step : {"tags", "value"}, path : Paths, recipient : Recipients,
                     late : BOOLEAN]
      /\ Sound(job[w])
  BY <1>1, Shapes DEF VInv
<1>3. CASE s = NoSecret
  BY <1>1, <1>3, Idling, Moving DEF ReadTags, End
<1>4. CASE s # NoSecret /\ s.kind = "live" /\ s.tags = "enabled"
  <2> DEFINE j == [job[w] EXCEPT !.step = "value"]
  <2>1. /\ j.step = "value" /\ j.path = job[w].path /\ j.recipient = job[w].recipient
        /\ j.late = job[w].late
        /\ j \in Job
    BY <1>2 DEF Job
  <2>2. j.late => j.path = Smtp
    BY <1>2, <1>4, <1>1, <2>1 DEF Sound, VInv, Vault
  <2>3. Sound(j)
    BY <1>1, <1>2, <1>4, <2>1, <2>2 DEF Sound
  <2>4. Become(w, j)
    BY <1>4 DEF ReadTags
  <2> QED
    BY <1>1, <2>1, <2>3, <2>4, Moving
<1>5. CASE s # NoSecret /\ ~(s.kind = "live" /\ s.tags = "enabled")
  <2>1. Wanting(job[w].path, s, job[w].step)
    BY <1>1, <1>5 DEF Wanting
  <2>2. Invalid(w)
    BY <1>5 DEF ReadTags
  <2> QED
    BY <1>1, <2>1, <2>2, Failing
<1> QED
  BY <1>3, <1>4, <1>5

LEMMA ReadValueStep ==
    ASSUME VInv, NEW w \in Workers, ReadValue(w)
    PROVE  VInv'
<1> DEFINE s == secret[job[w].path]
           r == job[w].recipient
<1>1. job[w].step = "value" /\ UNCHANGED <<secret, history>>
  BY DEF ReadValue
<1>2. /\ job[w] \in [step : {"tags", "value"}, path : Paths, recipient : Recipients,
                     late : BOOLEAN]
      /\ Sound(job[w])
  BY <1>1, Shapes DEF VInv
<1>3. CASE s.kind = "deleted"
  BY <1>1, <1>3, Idling, Moving DEF ReadValue, End
<1>4. CASE s.kind # "deleted" /\ job[w].path = Smtp /\ s.value \in Credentials
  <2> DEFINE j == Reading("tags", r, r, job[w].late)
  <2>1. j \in Job
    BY <1>2 DEF Reading, Job, Paths
  <2>2. Sound(j) /\ j.step = "tags"
    BY <1>1, <1>2 DEF Reading, Sound
  <2>3. Become(w, j)
    BY <1>4 DEF ReadValue
  <2> QED
    BY <1>1, <2>1, <2>2, <2>3, Moving
<1>5. CASE /\ s.kind # "deleted" /\ ~(job[w].path = Smtp /\ s.value \in Credentials)
           /\ job[w].path = r /\ s.value \in Addresses
  <2> DEFINE j == [step |-> "send", recipient |-> r, late |-> job[w].late,
                   address |-> s.value]
  <2>1. j \in Job
    BY <1>2, <1>5 DEF Job
  <2>2. s # NoSecret /\ ~job[w].late
    BY <1>1, <1>2, <1>5, PathsAssumption DEF Sound
  <2>3. Sound(j)
    BY <1>5, <2>2 DEF Sound
  <2>4. Become(w, j)
    BY <1>5 DEF ReadValue
  <2> QED
    BY <1>1, <2>1, <2>3, <2>4, Moving
<1>6. CASE /\ s.kind # "deleted" /\ ~(job[w].path = Smtp /\ s.value \in Credentials)
           /\ ~(job[w].path = r /\ s.value \in Addresses)
  <2>1. s # NoSecret
    BY <1>1, <1>2 DEF Sound
  <2>2. job[w].path \in Paths /\ s.kind = "live"
    BY <1>2, <1>6, <2>1 DEF VInv, TypeOK, Secret
  <2>3. Wanting(job[w].path, s, job[w].step)
    BY <1>1, <1>2, <1>6, <2>2, PathsAssumption DEF Sound, Wanting
  <2>4. Invalid(w)
    BY <1>6 DEF ReadValue
  <2> QED
    BY <1>1, <2>3, <2>4, Failing
<1> QED
  BY <1>3, <1>4, <1>5, <1>6

LEMMA SendStep ==
    ASSUME VInv, NEW w \in Workers, Send(w)
    PROVE  VInv'
<1> DEFINE r == job[w].recipient
<1>1. job[w].step = "send" /\ End(w) /\ UNCHANGED <<secret, failed, revoked>>
  BY DEF Send
<1>2. r \in Recipients /\ job[w].address \in Addresses
  BY <1>1, Shapes DEF VInv
<1>3. secret[r] # NoSecret /\ job[w].address = secret[r].value /\ ~job[w].late
  BY <1>1 DEF VInv, Sound
<1>4. late' = late
  BY <1>3 DEF Send
<1>5. /\ sentTo' \in [Recipients -> SUBSET Addresses]
      /\ \A q \in Recipients :
            sentTo'[q] = IF q = r THEN sentTo[q] \cup {job[w].address} ELSE sentTo[q]
  BY <1>2 DEF Send, VInv, TypeOK
<1>6. /\ job' \in [Workers -> Job \cup {NoJob}] /\ wanting' \in [Workers -> BOOLEAN]
      /\ (\A v \in Workers : Sound(job[v])') /\ Caused'
  BY <1>1, Idling, Becoming DEF End
<1>7. TypeOK'
  BY <1>1, <1>4, <1>5, <1>6 DEF VInv, TypeOK
<1>8. Vault'
  BY <1>1 DEF VInv, Vault
<1>9. Done'
  BY <1>1, <1>3, <1>4, <1>5 DEF VInv, Done
<1> QED
  BY <1>6, <1>7, <1>8, <1>9 DEF VInv

LEMMA MarkFailedStep ==
    ASSUME VInv, NEW w \in Workers, MarkFailed(w)
    PROVE  VInv'
<1>1. /\ job[w].step = "mark_failed" /\ End(w)
      /\ failed' = failed \cup {job[w].recipient}
      /\ UNCHANGED <<secret, sentTo, revoked, late>>
  BY DEF MarkFailed
<1>2. job[w].recipient \in Recipients
  BY <1>1, Shapes DEF VInv
<1>3. /\ job' \in [Workers -> Job \cup {NoJob}] /\ wanting' \in [Workers -> BOOLEAN]
      /\ (\A v \in Workers : Sound(job[v])') /\ Caused'
  BY <1>1, Idling, Becoming DEF End
<1>4. TypeOK'
  BY <1>1, <1>2, <1>3 DEF VInv, TypeOK
<1>5. Vault'
  BY <1>1 DEF VInv, Vault
<1>6. Done'
  BY <1>1, <1>2 DEF VInv, Done
<1> QED
  BY <1>3, <1>4, <1>5, <1>6 DEF VInv

LEMMA GiveUpStep ==
    ASSUME VInv, NEW w \in Workers, GiveUp(w)
    PROVE  VInv'
  BY Idling, Moving DEF GiveUp, End

(***************************************************************************)
(* Operators.                                                              *)
(***************************************************************************)

\* A secret may be written if a recipient keeps its address and one that is
\* revoked is disabled: nothing an invocation knows becomes false.
LEMMA Putting ==
    ASSUME VInv, NEW p \in Paths, NEW s \in Secret, Put(p, s),
           p \in Recipients =>
              s.value \in Addresses /\ (secret[p] # NoSecret => s.value = secret[p].value),
           revoked \subseteq revoked', revoked' \subseteq revoked \cup ({p} \cap Recipients),
           p \in revoked' => s.tags = "disabled"
    PROVE  VInv'
<1>1. /\ secret' = [secret EXCEPT ![p] = s]
      /\ wanting' = [w \in Workers |->
            \/ wanting[w]
            \/ /\ job[w].step \in {"tags", "value"} /\ job[w].path = p
               /\ Wanting(p, s, job[w].step)]
      /\ UNCHANGED <<job, sentTo, failed, late>>
  BY DEF Put
<1>2. TypeOK /\ (\A w \in Workers : Sound(job[w])) /\ Caused /\ Vault /\ Done
  BY DEF VInv
<1>3. \A q \in Paths : secret'[q] = IF q = p THEN s ELSE secret[q]
  BY <1>1, <1>2 DEF TypeOK
<1>4. s # NoSecret
  BY DEF Secret, NoSecret
<1>5. \A q \in Recipients : q \in Paths /\ (secret[q] # NoSecret =>
         secret'[q] # NoSecret /\ secret'[q].value = secret[q].value)
  BY <1>3, <1>4 DEF Paths
<1>6. TypeOK'
  <2>1. wanting' \in [Workers -> BOOLEAN]
    BY <1>1
  <2> QED
    BY <1>1, <1>2, <2>1 DEF TypeOK, Paths
<1>7. ASSUME NEW w \in Workers
      PROVE  Sound(job[w])'
  <2>1. Sound(job[w]) /\ job'[w] = job[w]
    BY <1>1, <1>2
  <2>2. job[w].step = "value" => secret'[job[w].path] # NoSecret
    BY <1>2, <1>3, <1>4, <2>1, Shapes DEF Sound
  <2>3. job[w].step = "send" =>
           /\ secret'[job[w].recipient] # NoSecret
           /\ job[w].address = secret'[job[w].recipient].value
    BY <1>2, <1>5, <2>1, Shapes DEF Sound
  <2> QED
    BY <1>4, <2>1, <2>2, <2>3 DEF Sound
<1>8. Vault'
  <2>1. \A r \in Recipients : secret'[r] # NoSecret => secret'[r].value \in Addresses
    BY <1>2, <1>3, <1>5 DEF Vault
  <2>2. \A r \in revoked' : secret'[r] # NoSecret /\ secret'[r].tags = "disabled"
    BY <1>2, <1>3, <1>4 DEF Vault, TypeOK, Paths
  <2> QED
    BY <2>1, <2>2 DEF Vault
<1>9. Done'
  BY <1>1, <1>2, <1>4, <1>5 DEF Done, TypeOK
<1>10. Caused'
  <2> SUFFICES ASSUME NEW w \in Workers
               PROVE  /\ /\ job[w].step \in {"tags", "value"}
                         /\ Wanting(job[w].path, secret'[job[w].path], job[w].step)
                         => wanting'[w]
                      /\ job[w].step = "mark_failed" => wanting'[w]
    BY <1>1 DEF Caused
  <2>1. /\ wanting[w] => wanting'[w]
        /\ /\ job[w].step \in {"tags", "value"} /\ job[w].path = p
           /\ Wanting(p, s, job[w].step)
           => wanting'[w]
    BY <1>1
  <2>2. job[w].step = "mark_failed" => wanting[w]
    BY <1>2 DEF Caused
  <2>3. job[w].step \in {"tags", "value"} => job[w].path \in Paths
    BY <1>2, Shapes
  <2>4. ASSUME job[w].step \in {"tags", "value"},
               Wanting(job[w].path, secret'[job[w].path], job[w].step)
        PROVE  wanting'[w]
    <3>1. CASE job[w].path = p
      BY <1>3, <2>1, <2>4, <3>1
    <3>2. CASE job[w].path # p
      <4>1. secret'[job[w].path] = secret[job[w].path]
        BY <1>3, <2>3, <2>4, <3>2
      <4> QED
        BY <1>2, <2>1, <2>4, <4>1 DEF Caused
    <3> QED
      BY <3>1, <3>2
  <2> QED
    BY <2>1, <2>2, <2>4
<1> QED
  BY <1>6, <1>7, <1>8, <1>9, <1>10 DEF VInv

LEMMA CreateStep ==
    ASSUME VInv, NEW r \in Recipients, NEW address \in Addresses, CreateRecipient(r, address)
    PROVE  VInv'
<1> DEFINE s == [kind |-> "live", tags |-> "enabled", value |-> address]
<1>1. s \in Secret /\ s.value = address /\ r \in Paths
  BY DEF Secret, Tags, Paths
<1>2. secret[r] = NoSecret /\ Put(r, s) /\ revoked' = revoked
  BY DEF CreateRecipient
<1>3. r \notin revoked
  BY <1>2 DEF VInv, Vault
<1> QED
  BY <1>1, <1>2, <1>3, Putting

LEMMA RevokeStep ==
    ASSUME VInv, NEW r \in Recipients, RevokeRecipient(r)
    PROVE  VInv'
<1> DEFINE s == [secret[r] EXCEPT !.tags = "disabled"]
<1>1. secret[r] # NoSecret /\ Put(r, s) /\ revoked' = revoked \cup {r}
  BY DEF RevokeRecipient
<1>2. r \in Paths /\ secret[r] \in Secret /\ secret[r].value \in Addresses
  BY <1>1 DEF VInv, TypeOK, Vault, Paths
<1>3. s \in Secret /\ s.value = secret[r].value /\ s.tags = "disabled"
  BY <1>2 DEF Secret, Tags
<1> QED
  BY <1>1, <1>2, <1>3, Putting

LEMMA SetCredentialsStep ==
    ASSUME VInv, NEW tags \in Tags, NEW value \in Credentials \cup {Malformed},
           SetCredentials(tags, value)
    PROVE  VInv'
<1> DEFINE s == [kind |-> "live", tags |-> tags, value |-> value]
<1>1. s \in Secret /\ Smtp \in Paths
  BY DEF Secret, Paths
<1>2. Put(Smtp, s) /\ revoked' = revoked
  BY DEF SetCredentials
<1>3. Smtp \notin revoked
  BY PathsAssumption DEF VInv, TypeOK
<1> QED
  BY <1>1, <1>2, <1>3, PathsAssumption, Putting

LEMMA DeleteOrRestoreStep ==
    ASSUME VInv, NEW p \in Paths, DeleteOrRestore(p)
    PROVE  VInv'
<1> DEFINE s == [secret[p] EXCEPT !.kind = IF @ = "live" THEN "deleted" ELSE "live"]
<1>1. secret[p] # NoSecret /\ Put(p, s) /\ revoked' = revoked
  BY DEF DeleteOrRestore
<1>2. secret[p] \in Secret
  BY <1>1 DEF VInv, TypeOK
<1>3. s \in Secret /\ s.value = secret[p].value /\ s.tags = secret[p].tags
  BY <1>2 DEF Secret
<1>4. p \in Recipients => secret[p].value \in Addresses
  BY <1>1 DEF VInv, Vault
<1>5. p \in revoked => secret[p].tags = "disabled"
  BY DEF VInv, Vault
<1> QED
  BY <1>1, <1>3, <1>4, <1>5, Putting

(***************************************************************************)
(* The theorems.                                                           *)
(***************************************************************************)

LEMMA SecretsStep ==
    ASSUME VInv, [Next]_vars
    PROVE  VInv'
<1>1. CASE UNCHANGED vars
  <2>1. UNCHANGED <<secret, job, sentTo, failed, revoked, late, wanting>>
    BY <1>1 DEF vars
  <2> QED
    BY <2>1 DEF VInv, TypeOK, Sound, Caused, Vault, Done
<1> QED
  BY <1>1, StartStep, ReadTagsStep, ReadValueStep, SendStep, MarkFailedStep, GiveUpStep,
     CreateStep, RevokeStep, SetCredentialsStep, DeleteOrRestoreStep DEF Next

LEMMA SecretsInit == Init => VInv
<1> SUFFICES ASSUME Init PROVE VInv
  OBVIOUS
<1>1. TypeOK
  BY DEF Init, TypeOK
<1>2. \A w \in Workers : Sound(job[w])
  BY Idling DEF Init
<1>3. Vault
  BY DEF Init, Vault, Paths
<1>4. Done
  BY DEF Init, Done
<1>5. Caused
  BY DEF Init, NoJob, Caused
<1> QED
  BY <1>1, <1>2, <1>3, <1>4, <1>5 DEF VInv

\* The invariant holds throughout: what invocations read may be old, but what
\* they rely on is still true.
THEOREM SecretsHold == Spec => []VInv
  BY SecretsInit, SecretsStep, PTL DEF Spec

\* Secrets, invocations and history stay within their types.
THEOREM TypeCorrect == Spec => []TypeOK
<1>1. VInv => TypeOK
  BY DEF VInv
<1> QED
  BY <1>1, SecretsHold, PTL

\* A version of a recipient is never sent to two addresses.
THEOREM AddressesStay == Spec => []OneAddressPerVersion
<1>1. ASSUME VInv, NEW r \in Recipients
      PROVE  Cardinality(sentTo[r]) <= 1
  <2>1. CASE sentTo[r] = {}
    BY <2>1, FS_EmptySet
  <2>2. CASE sentTo[r] # {}
    <3>1. sentTo[r] = {secret[r].value}
      BY <1>1, <2>2 DEF VInv, Done
    <3>2. Cardinality({secret[r].value}) = 1
      BY FS_Singleton
    <3> QED
      BY <3>1, <3>2
  <2> QED
    BY <2>1, <2>2
<1>2. VInv => OneAddressPerVersion
  BY <1>1 DEF OneAddressPerVersion
<1> QED
  BY <1>2, SecretsHold, PTL

\* No attempt that begins after revocation gets to the address.
THEOREM RevocationIsFinal == Spec => []RevocationHolds
<1>1. VInv => RevocationHolds
  BY DEF VInv, Done, RevocationHolds
<1> QED
  BY <1>1, SecretsHold, PTL

\* Whoever fails a notification for its secrets found, by the call that made it
\* do so, tags disabled or foreign, a secret deleted before its tags were read,
\* or a malformed value, no earlier than the call before.
THEOREM FailuresHaveACause == Spec => []FailedForACause
<1>1. VInv => FailedForACause
  BY DEF VInv, Caused, FailedForACause
<1> QED
  BY <1>1, SecretsHold, PTL

=============================================================================
