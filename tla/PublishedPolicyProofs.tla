------------------------- MODULE PublishedPolicyProofs -------------------------
(***************************************************************************)
(* Attempts are as published, pinned and in force, for any numbers of        *)
(* invocations, events, packages and connections, and any order in which     *)
(* packages are written, the scope moves and bindings change.                *)
(***************************************************************************)
EXTENDS PublishedPolicy, TLAPS

\* The selections that a descriptor offers for a tuple.
Offered(d, t) ==
    {[connection |-> p.connection, maxAttempts |-> p.maxAttempts] :
        p \in {q \in d.policies :
                 /\ d.ours /\ q.active /\ (Production => q.approved)
                 /\ q.id = t.policy /\ t.type \in q.types /\ q.recipient = t.recipient}}

\* A descriptor that a manifest of the version ever named offers the selection.
Published(t, s) == \E d \in sealed[t.version] : s \in Offered(d, t)

Chosen == {"prepare", "existing", "connect", "send"}

\* What an invocation goes by is published, pinned and was in force.
Fine(r) ==
    /\ \A t \in Tuples : r.cache[t] # None => Published(t, r.cache[t])
    /\ r.pc # "next" =>
          /\ r.event \in Events
          /\ bound \subseteq r.since
          /\ scopeOurs => "scope" \in r.since
    /\ r.pc \notin {"next", "scope"} => "scope" \in r.since
    /\ r.pc = "descriptor" => r.hash \in sealed[r.event.version]
    /\ r.pc \in Chosen =>
          /\ r.selection \in Selections
          /\ Published(Tuple(r.event), r.selection)
    /\ r.pc \in {"connect", "send"} =>
          record[r.event.key] = [event |-> r.event, selection |-> r.selection]
    /\ r.pc = "send" => r.selection.connection \in r.since

Sound(w) == run[w] # NoRun => Fine(run[w])

Sealed == \A v \in Versions : manifest[v] # None => manifest[v] \in sealed[v]

\* And so was every attempt.
Justified ==
    \A a \in attempted :
        /\ Published(Tuple(a.pin.event), a.pin.selection)
        /\ record[a.pin.event.key] = a.pin
        /\ a.through = a.pin.selection.connection
        /\ a.current

PInv == TypeOK /\ Sealed /\ (\A w \in Workers : Sound(w)) /\ Justified

(***************************************************************************)
(* Types, and what stays.                                                  *)
(***************************************************************************)

LEMMA EventTypes ==
    ASSUME NEW e \in Events
    PROVE  e.key \in Keys /\ e.version \in Versions /\ Tuple(e) \in Tuples
           /\ Tuple(e).version = e.version
  BY DEF Keys, Versions, Tuples, Tuple

LEMMA TupleTypes ==
    ASSUME NEW t \in Tuples
    PROVE  t.version \in Versions
  BY DEF Tuples, Tuple, Versions

\* What is selected is of the type the ledger pins, and offered.
LEMMA SelectedIsOffered ==
    ASSUME NEW d \in Descriptors, NEW e \in Events, NEW s \in Selected(d, e)
    PROVE  s \in Selections /\ s \in Offered(d, Tuple(e))
<1>1. PICK p \in d.policies :
         /\ s = [connection |-> p.connection, maxAttempts |-> p.maxAttempts]
         /\ d.ours /\ WellFormed(p) /\ Selects(p, e)
  BY DEF Selected
<1>2. p.connection \in Connections
  BY <1>1, DescriptorsAssumption DEF Policy
<1>3. s \in Selections
  BY <1>1, <1>2 DEF Selections, WellFormed
<1>4. s \in Offered(d, Tuple(e))
  BY <1>1 DEF Offered, Tuple, WellFormed, Selects
<1> QED
  BY <1>3, <1>4

\* What is published stays so, and what the ledger pinned stays pinned.
Onward ==
    /\ \A v \in Versions : sealed[v] \subseteq sealed'[v]
    /\ \A k \in Keys : record[k] # None => record'[k] = record[k]

(***************************************************************************)
(* Steps of an invocation.                                                 *)
(***************************************************************************)

\* An invocation that does not move still goes by what is true.
LEMMA Keeping ==
    ASSUME TypeOK, Onward, NEW v \in Workers, Sound(v), run'[v] = run[v],
           UNCHANGED <<scopeOurs, bound>>
    PROVE  Sound(v)'
<1> SUFFICES ASSUME run[v] # NoRun
             PROVE  Sound(v)'
  BY DEF Sound, Fine
<1>1. run[v] \in Run
  BY DEF TypeOK
<1>2. ASSUME NEW t \in Tuples, run'[v].cache[t] # None
      PROVE  \E d \in sealed'[t.version] : run'[v].cache[t] \in Offered(d, t)
  <2>1. PICK d \in sealed[t.version] : run[v].cache[t] \in Offered(d, t)
    BY <1>2 DEF Sound, Fine, Published
  <2>2. d \in sealed'[t.version]
    BY <2>1, TupleTypes DEF Onward
  <2> QED
    BY <2>1, <2>2
<1>3. run[v].pc # "next" => run[v].event.version \in Versions /\ run[v].event.key \in Keys
                            /\ Tuple(run[v].event).version = run[v].event.version
  BY EventTypes DEF Sound, Fine
<1>4. run[v].pc = "descriptor" => run'[v].hash \in sealed'[run'[v].event.version]
  BY <1>3 DEF Sound, Fine, Onward
<1>5. ASSUME run[v].pc \in Chosen
      PROVE  \E d \in sealed'[Tuple(run[v].event).version] :
                run[v].selection \in Offered(d, Tuple(run[v].event))
  <2>1. Published(Tuple(run[v].event), run[v].selection)
    BY <1>5 DEF Sound, Fine
  <2>2. PICK d \in sealed[Tuple(run[v].event).version] :
           run[v].selection \in Offered(d, Tuple(run[v].event))
    BY <2>1 DEF Published
  <2>3. d \in sealed'[Tuple(run[v].event).version]
    BY <1>3, <1>5, <2>2 DEF Onward, Chosen
  <2> QED
    BY <2>2, <2>3
<1>6. ASSUME run[v].pc \in {"connect", "send"}
      PROVE  record'[run[v].event.key] = [event |-> run[v].event, selection |-> run[v].selection]
  <2>1. /\ run[v].event \in Events /\ run[v].selection \in Selections
        /\ record[run[v].event.key] = [event |-> run[v].event, selection |-> run[v].selection]
    BY <1>6 DEF Sound, Fine, Chosen
  <2>2. record[run[v].event.key] \in Pins
    BY <2>1 DEF Pins
  <2>3. record[run[v].event.key] # None
    BY <2>2, NoneAssumption
  <2>4. record'[run[v].event.key] = record[run[v].event.key]
    BY <1>3, <1>6, <2>1, <2>3 DEF Onward
  <2> QED
    BY <2>1, <2>4
<1> QED
  BY <1>2, <1>4, <1>5, <1>6 DEF Sound, Fine, Published

LEMMA AttemptsStay ==
    ASSUME TypeOK, Onward, Justified, attempted' = attempted
    PROVE  Justified'
<1> SUFFICES ASSUME NEW a \in attempted
             PROVE  /\ Published(Tuple(a.pin.event), a.pin.selection)'
                    /\ record'[a.pin.event.key] = a.pin
                    /\ a.through = a.pin.selection.connection
                    /\ a.current
  BY DEF Justified
<1>1. a.pin \in Pins /\ a.pin.event \in Events
  BY DEF TypeOK, Pins
<1>2. a.pin # None
  BY <1>1, NoneAssumption
<1> QED
  BY <1>1, <1>2, EventTypes DEF Justified, Onward, Published

\* A step that moves one invocation has to account for that one only.
LEMMA Moving ==
    ASSUME PInv, NEW w \in Workers, NEW r \in Run \cup {NoRun}, Step(w, r),
           r # NoRun => Fine(r), UNCHANGED <<world, record, attempted>>
    PROVE  PInv'
<1>1. /\ UNCHANGED <<scopeOurs, manifest, descriptor, bound, writes, sealed>>
      /\ record' = record /\ attempted' = attempted
  BY DEF world
<1>2. TypeOK /\ Sealed /\ (\A v \in Workers : Sound(v)) /\ Justified
  BY DEF PInv
<1>3. run' = [run EXCEPT ![w] = r] /\ run' \in [Workers -> Run \cup {NoRun}]
  BY <1>2 DEF Step, TypeOK
<1>4. TypeOK'
  BY <1>1, <1>2, <1>3 DEF TypeOK
<1>5. Onward
  BY <1>1 DEF Onward
<1>6. ASSUME NEW v \in Workers
      PROVE  Sound(v)'
  <2>1. CASE v = w
    <3>1. run'[v] = r
      BY <1>2, <1>3, <2>1 DEF TypeOK
    <3> QED
      BY <1>1, <3>1 DEF Sound, Fine, Published
  <2>2. CASE v # w
    <3>1. run'[v] = run[v]
      BY <1>2, <1>3, <2>2 DEF TypeOK
    <3> QED
      BY <1>1, <1>2, <1>5, <3>1, Keeping
  <2> QED
    BY <2>1, <2>2
<1>7. Justified'
  BY <1>1, <1>2, <1>5, AttemptsStay
<1>8. Sealed'
  BY <1>1, <1>2 DEF Sealed
<1> QED
  BY <1>4, <1>6, <1>7, <1>8 DEF PInv

LEMMA Running ==
    ASSUME PInv, NEW w \in Workers, run[w] # NoRun
    PROVE  run[w] \in Run /\ Fine(run[w])
  BY DEF PInv, TypeOK, Sound

LEMMA BeginStep ==
    ASSUME PInv, NEW w \in Workers, Begin(w)
    PROVE  PInv'
<1> DEFINE r == [pc |-> "next", event |-> None, hash |-> None, selection |-> None,
                 since |-> {}, cache |-> [t \in Tuples |-> None]]
<1>1. r \in Run
  BY DEF Run, Steps
<1>2. Fine(r)
  BY DEF Fine, Chosen
<1> QED
  BY <1>1, <1>2, Moving DEF Begin

LEMMA TakeUpStep ==
    ASSUME PInv, NEW w \in Workers, NEW e \in Events, TakeUp(w, e)
    PROVE  PInv'
<1> DEFINE r == [run[w] EXCEPT !.pc = "scope", !.event = e,
                    !.since = bound \cup IF scopeOurs THEN {"scope"} ELSE {}]
<1>1. run[w] \in Run /\ Fine(run[w])
  BY Running DEF TakeUp
<1>2. /\ r.pc = "scope" /\ r.event = e /\ r.cache = run[w].cache
      /\ r.since = bound \cup IF scopeOurs THEN {"scope"} ELSE {}
  BY <1>1 DEF Run
<1>3. bound \subseteq Connections
  BY DEF PInv, TypeOK
<1>4. r \in Run
  BY <1>1, <1>3 DEF Run, Steps, Marks
<1>5. Fine(r)
  BY <1>1, <1>2 DEF Fine, Chosen
<1> QED
  BY <1>4, <1>5, Moving DEF TakeUp

LEMMA AnsweredIsFine ==
    ASSUME NEW r \in Run, Fine(r)
    PROVE  Answered(r) \in Run /\ Fine(Answered(r))
<1>1. Answered(r).pc = "next" /\ Answered(r).cache = r.cache
  BY DEF Answered, Run
<1>2. Answered(r) \in Run
  BY DEF Answered, Run, Steps
<1>3. Fine(Answered(r))
  BY <1>1 DEF Fine, Chosen
<1> QED
  BY <1>2, <1>3

LEMMA GiveUpStep ==
    ASSUME PInv, NEW w \in Workers, GiveUp(w)
    PROVE  PInv'
  BY Running, AnsweredIsFine, Moving DEF GiveUp

LEMMA EndStep ==
    ASSUME PInv, NEW w \in Workers, End(w)
    PROVE  PInv'
  BY Moving DEF End

LEMMA ReadScopeStep ==
    ASSUME PInv, NEW w \in Workers, ReadScope(w)
    PROVE  PInv'
<1> DEFINE t == Tuple(run[w].event)
           cached == run[w].cache[t]
<1>1. run[w] \in Run /\ Fine(run[w])
  BY Running DEF ReadScope
<1>2. run[w].pc = "scope" /\ scopeOurs /\ UNCHANGED <<world, record, attempted>>
  BY DEF ReadScope
<1>3. run[w].event \in Events /\ t \in Tuples /\ "scope" \in run[w].since
  BY <1>1, <1>2, EventTypes DEF Fine
<1>4. CASE cached = None
  <2> DEFINE r == [run[w] EXCEPT !.pc = "manifest"]
  <2>1. /\ r.pc = "manifest" /\ r.event = run[w].event /\ r.since = run[w].since
        /\ r.cache = run[w].cache
    BY <1>1 DEF Run
  <2>2. r \in Run
    BY <1>1 DEF Run, Steps
  <2>3. Fine(r)
    BY <1>1, <1>2, <1>3, <2>1 DEF Fine, Chosen
  <2>4. Step(w, r)
    BY <1>4 DEF ReadScope
  <2> QED
    BY <1>2, <2>2, <2>3, <2>4, Moving
<1>5. CASE cached # None
  <2> DEFINE r == [run[w] EXCEPT !.pc = "prepare", !.selection = cached]
  <2>1. /\ r.pc = "prepare" /\ r.event = run[w].event /\ r.since = run[w].since
        /\ r.cache = run[w].cache /\ r.selection = cached
    BY <1>1 DEF Run
  <2>2. cached \in Selections /\ Published(t, cached)
    BY <1>1, <1>3, <1>5 DEF Run, Fine
  <2>3. r \in Run
    BY <1>1, <2>2 DEF Run, Steps
  <2>4. Fine(r)
    BY <1>1, <1>2, <1>3, <2>1, <2>2 DEF Fine, Chosen
  <2>5. Step(w, r)
    BY <1>5 DEF ReadScope
  <2> QED
    BY <1>2, <2>3, <2>4, <2>5, Moving
<1> QED
  BY <1>4, <1>5

LEMMA ReadManifestStep ==
    ASSUME PInv, NEW w \in Workers, ReadManifest(w)
    PROVE  PInv'
<1> DEFINE hash == manifest[run[w].event.version]
           r == [run[w] EXCEPT !.pc = "descriptor", !.hash = hash]
<1>1. run[w] \in Run /\ Fine(run[w])
  BY Running DEF ReadManifest
<1>2. run[w].pc = "manifest" /\ hash # None /\ Step(w, r)
      /\ UNCHANGED <<world, record, attempted>>
  BY DEF ReadManifest
<1>3. run[w].event \in Events /\ run[w].event.version \in Versions
  BY <1>1, <1>2, EventTypes DEF Fine
<1>4. hash \in Descriptors /\ hash \in sealed[run[w].event.version]
  BY <1>2, <1>3 DEF PInv, TypeOK, Sealed
<1>5. /\ r.pc = "descriptor" /\ r.event = run[w].event /\ r.since = run[w].since
      /\ r.cache = run[w].cache /\ r.hash = hash
  BY <1>1 DEF Run
<1>6. r \in Run
  BY <1>1, <1>4 DEF Run, Steps
<1>7. Fine(r)
  BY <1>1, <1>2, <1>3, <1>4, <1>5 DEF Fine, Chosen
<1> QED
  BY <1>2, <1>6, <1>7, Moving

LEMMA ReadDescriptorStep ==
    ASSUME PInv, NEW w \in Workers, ReadDescriptor(w)
    PROVE  PInv'
<1> DEFINE e == run[w].event
           d == descriptor[e.version]
<1>1. run[w] \in Run /\ Fine(run[w])
  BY Running DEF ReadDescriptor
<1>2. run[w].pc = "descriptor" /\ d # None /\ d = run[w].hash
      /\ UNCHANGED <<world, record, attempted>>
  BY DEF ReadDescriptor
<1>3. PICK s \in Selected(d, e) :
         Step(w, [run[w] EXCEPT !.pc = "prepare", !.selection = s,
                                !.cache = [@ EXCEPT ![Tuple(e)] = s]])
  BY DEF ReadDescriptor
<1> DEFINE r == [run[w] EXCEPT !.pc = "prepare", !.selection = s,
                               !.cache = [@ EXCEPT ![Tuple(e)] = s]]
<1>4. /\ e \in Events /\ e.version \in Versions /\ Tuple(e) \in Tuples
      /\ Tuple(e).version = e.version
  BY <1>1, <1>2, EventTypes DEF Fine
<1>5. d \in Descriptors /\ d \in sealed[e.version]
  BY <1>1, <1>2, <1>4 DEF PInv, TypeOK, Fine
<1>6. s \in Selections /\ s \in Offered(d, Tuple(e))
  BY <1>3, <1>4, <1>5, SelectedIsOffered
<1>7. Published(Tuple(e), s)
  BY <1>4, <1>5, <1>6 DEF Published
<1>8. /\ r.pc = "prepare" /\ r.event = e /\ r.since = run[w].since /\ r.selection = s
      /\ \A t \in Tuples : r.cache[t] = IF t = Tuple(e) THEN s ELSE run[w].cache[t]
  BY <1>1 DEF Run
<1>9. r \in Run
  <2>1. [run[w].cache EXCEPT ![Tuple(e)] = s] \in [Tuples -> Selections \cup {None}]
    BY <1>1, <1>6 DEF Run
  <2> QED
    BY <1>1, <1>6, <2>1 DEF Run, Steps
<1>10. Fine(r)
  BY <1>1, <1>2, <1>4, <1>6, <1>7, <1>8 DEF Fine, Chosen
<1> QED
  BY <1>2, <1>3, <1>9, <1>10, Moving

LEMMA ReadExistingStep ==
    ASSUME PInv, NEW w \in Workers, ReadExisting(w)
    PROVE  PInv'
<1> DEFINE r == [run[w] EXCEPT !.pc = "connect"]
<1>1. run[w] \in Run /\ Fine(run[w])
  BY Running DEF ReadExisting
<1>2. run[w].pc = "existing" /\ Pinned(w) /\ Step(w, r)
      /\ UNCHANGED <<world, record, attempted>>
  BY DEF ReadExisting
<1>3. /\ r.pc = "connect" /\ r.event = run[w].event /\ r.since = run[w].since
      /\ r.cache = run[w].cache /\ r.selection = run[w].selection
  BY <1>1 DEF Run
<1>4. r \in Run
  BY <1>1 DEF Run, Steps
<1>5. Fine(r)
  BY <1>1, <1>2, <1>3 DEF Fine, Chosen, Pinned, Pin
<1> QED
  BY <1>2, <1>4, <1>5, Moving

LEMMA ConnectStep ==
    ASSUME PInv, NEW w \in Workers, Connect(w)
    PROVE  PInv'
<1> DEFINE r == [run[w] EXCEPT !.pc = "send"]
<1>1. run[w] \in Run /\ Fine(run[w])
  BY Running DEF Connect
<1>2. run[w].pc = "connect" /\ run[w].selection.connection \in bound /\ Step(w, r)
      /\ UNCHANGED <<world, record, attempted>>
  BY DEF Connect
<1>3. /\ r.pc = "send" /\ r.event = run[w].event /\ r.since = run[w].since
      /\ r.cache = run[w].cache /\ r.selection = run[w].selection
  BY <1>1 DEF Run
<1>4. r \in Run
  BY <1>1 DEF Run, Steps
<1>5. Fine(r)
  BY <1>1, <1>2, <1>3 DEF Fine, Chosen
<1> QED
  BY <1>2, <1>4, <1>5, Moving

LEMMA PrepareStep ==
    ASSUME PInv, NEW w \in Workers, Prepare(w)
    PROVE  PInv'
<1> DEFINE k == run[w].event.key
           r == [run[w] EXCEPT !.pc = IF record[k] = None THEN "connect" ELSE "existing"]
<1>1. run[w] \in Run /\ Fine(run[w])
  BY Running DEF Prepare
<1>2. TypeOK /\ Sealed /\ (\A v \in Workers : Sound(v)) /\ Justified
  BY DEF PInv
<1>3. /\ run[w].pc = "prepare" /\ Step(w, r)
      /\ record' = IF record[k] = None THEN [record EXCEPT ![k] = Pin(w)] ELSE record
      /\ UNCHANGED <<world, attempted>>
  BY DEF Prepare
<1>4. /\ UNCHANGED <<scopeOurs, manifest, descriptor, bound, writes, sealed>>
      /\ attempted' = attempted
  BY <1>3 DEF world
<1>5. run[w].event \in Events /\ run[w].selection \in Selections /\ k \in Keys
  BY <1>1, <1>3, EventTypes DEF Fine, Chosen
<1>6. Pin(w) \in Pins
  BY <1>5 DEF Pin, Pins
<1>7. record' \in [Keys -> Pins \cup {None}]
  BY <1>2, <1>3, <1>5, <1>6 DEF TypeOK
<1>8. r \in Run
  BY <1>1 DEF Run, Steps
<1>9. run' = [run EXCEPT ![w] = r] /\ run' \in [Workers -> Run \cup {NoRun}]
  BY <1>2, <1>3, <1>8 DEF Step, TypeOK
<1>10. TypeOK'
  BY <1>2, <1>4, <1>7, <1>9 DEF TypeOK
<1>11. Onward
  BY <1>2, <1>3, <1>4, <1>5 DEF Onward, TypeOK
<1>12. record[k] = None => record'[k] = Pin(w)
  BY <1>2, <1>3, <1>5 DEF TypeOK
<1>13. ASSUME NEW v \in Workers
       PROVE  Sound(v)'
  <2>1. CASE v = w
    <3>1. run'[v] = r
      BY <1>2, <1>9, <2>1 DEF TypeOK
    <3>2. /\ r.pc = IF record[k] = None THEN "connect" ELSE "existing"
          /\ r.event = run[w].event /\ r.since = run[w].since
          /\ r.cache = run[w].cache /\ r.selection = run[w].selection
      BY <1>1 DEF Run
    <3>3. r.pc = "connect" =>
             record'[r.event.key] = [event |-> r.event, selection |-> r.selection]
      BY <1>12, <3>2 DEF Pin
    <3> HIDE DEF r
    <3> QED
      BY <1>1, <1>3, <1>4, <3>1, <3>2, <3>3 DEF Sound, Fine, Published, Chosen
  <2>2. CASE v # w
    <3>1. run'[v] = run[v]
      BY <1>2, <1>9, <2>2 DEF TypeOK
    <3> QED
      BY <1>2, <1>4, <1>11, <3>1, Keeping
  <2> QED
    BY <2>1, <2>2
<1>14. Justified'
  BY <1>2, <1>4, <1>11, AttemptsStay
<1>15. Sealed'
  BY <1>2, <1>4 DEF Sealed
<1> QED
  BY <1>10, <1>13, <1>14, <1>15 DEF PInv

LEMMA SendStep ==
    ASSUME PInv, NEW w \in Workers, Send(w)
    PROVE  PInv'
<1> DEFINE through == run[w].selection.connection
           made == [pin |-> Pin(w), through |-> through,
                    current |-> {"scope", through} \subseteq run[w].since]
           r == Answered(run[w])
<1>1. run[w] \in Run /\ Fine(run[w])
  BY Running DEF Send
<1>2. TypeOK /\ Sealed /\ (\A v \in Workers : Sound(v)) /\ Justified
  BY DEF PInv
<1>3. /\ run[w].pc = "send" /\ Step(w, r) /\ attempted' = attempted \cup {made}
      /\ UNCHANGED <<world, record>>
  BY DEF Send
<1>4. /\ UNCHANGED <<scopeOurs, manifest, descriptor, bound, writes, sealed>>
      /\ record' = record
  BY <1>3 DEF world
<1>5. run[w].event \in Events /\ run[w].selection \in Selections
  BY <1>1, <1>3 DEF Fine, Chosen
<1>6. Pin(w) \in Pins /\ through \in Connections
  BY <1>5 DEF Pin, Pins, Selections
<1>7. r \in Run /\ Fine(r)
  BY <1>1, AnsweredIsFine
<1>8. run' = [run EXCEPT ![w] = r] /\ run' \in [Workers -> Run \cup {NoRun}]
  BY <1>2, <1>3, <1>7 DEF Step, TypeOK
<1>9. made.current = TRUE /\ made.through = through /\ made.pin = Pin(w)
  BY <1>1, <1>3 DEF Fine
<1>10. attempted' \in SUBSET [pin : Pins, through : Connections, current : BOOLEAN]
  <2>1. ({"scope", through} \subseteq run[w].since) \in BOOLEAN
    OBVIOUS
  <2>2. made \in [pin : Pins, through : Connections, current : BOOLEAN]
    BY <1>6, <2>1
  <2> HIDE DEF made
  <2> QED
    BY <1>2, <1>3, <2>2 DEF TypeOK
<1>11. TypeOK'
  BY <1>2, <1>4, <1>8, <1>10 DEF TypeOK
<1>12. Onward
  BY <1>4 DEF Onward
<1>13. ASSUME NEW v \in Workers
       PROVE  Sound(v)'
  <2>1. CASE v = w
    <3>1. run'[v] = r
      BY <1>2, <1>8, <2>1 DEF TypeOK
    <3> HIDE DEF r
    <3> QED
      BY <1>4, <1>7, <3>1 DEF Sound, Fine, Published
  <2>2. CASE v # w
    <3>1. run'[v] = run[v]
      BY <1>2, <1>8, <2>2 DEF TypeOK
    <3> QED
      BY <1>2, <1>4, <1>12, <3>1, Keeping
  <2> QED
    BY <2>1, <2>2
<1>14. Justified'
  <2>1. ASSUME NEW a \in attempted'
        PROVE  /\ Published(Tuple(a.pin.event), a.pin.selection)
               /\ record[a.pin.event.key] = a.pin
               /\ a.through = a.pin.selection.connection
               /\ a.current
    <3>1. CASE a \in attempted
      BY <1>2, <3>1 DEF Justified
    <3>2. CASE a = made
      BY <1>1, <1>3, <1>9, <3>2 DEF Fine, Chosen, Pin
    <3> HIDE DEF made
    <3> QED
      BY <1>3, <2>1, <3>1, <3>2
  <2> QED
    BY <1>4, <2>1 DEF Justified, Published
<1>15. Sealed'
  BY <1>2, <1>4 DEF Sealed
<1> QED
  BY <1>11, <1>13, <1>14, <1>15 DEF PInv

(***************************************************************************)
(* Steps around the worker.                                                *)
(***************************************************************************)

\* When the scope or a binding changes, all messages in hand notice it.
LEMMA Noticing ==
    ASSUME PInv, NEW mark \in SUBSET Marks, Notice(mark),
           bound' \in SUBSET Connections, scopeOurs' \in BOOLEAN,
           writes' \in 0..MaxWrites,
           bound' \subseteq bound \cup mark, (scopeOurs' /\ ~scopeOurs) => "scope" \in mark,
           UNCHANGED <<manifest, descriptor, sealed, record, attempted>>
    PROVE  PInv'
<1>1. TypeOK /\ Sealed /\ (\A v \in Workers : Sound(v)) /\ Justified
  BY DEF PInv
<1>2. /\ manifest' = manifest /\ descriptor' = descriptor /\ sealed' = sealed
      /\ record' = record /\ attempted' = attempted
  OBVIOUS
<1>3. ASSUME NEW v \in Workers
      PROVE  run'[v] = IF run[v] = NoRun \/ run[v].pc = "next" THEN run[v]
                       ELSE [run[v] EXCEPT !.since = @ \cup mark]
  BY <1>3 DEF Notice
<1>4. ASSUME NEW v \in Workers
      PROVE  run'[v] \in Run \cup {NoRun} /\ Sound(v)'
  <2>1. run[v] \in Run \cup {NoRun} /\ Sound(v)
    BY <1>1 DEF TypeOK
  <2>2. CASE run[v] = NoRun
    BY <1>3, <2>2 DEF Sound
  <2>3. CASE run[v] # NoRun /\ run[v].pc = "next"
    <3>1. run'[v] = run[v] /\ Fine(run[v])
      BY <1>3, <2>1, <2>3 DEF Sound
    <3> QED
      BY <1>2, <2>1, <2>3, <3>1 DEF Sound, Fine, Published, Chosen
  <2>4. CASE run[v] # NoRun /\ run[v].pc # "next"
    <3> DEFINE r == [run[v] EXCEPT !.since = @ \cup mark]
    <3>1. run'[v] = r /\ run[v] \in Run /\ Fine(run[v])
      BY <1>3, <2>1, <2>4 DEF Sound
    <3>2. /\ r.pc = run[v].pc /\ r.event = run[v].event /\ r.hash = run[v].hash
          /\ r.cache = run[v].cache /\ r.selection = run[v].selection
          /\ r.since = run[v].since \cup mark
      BY <3>1 DEF Run
    <3>3. r \in Run
      BY <3>1 DEF Run
    <3>4. /\ bound' \subseteq r.since
          /\ scopeOurs' => "scope" \in r.since
      BY <2>4, <3>1, <3>2 DEF Fine
    <3> HIDE DEF r
    <3> QED
      BY <1>2, <2>4, <3>1, <3>2, <3>3, <3>4 DEF Sound, Fine, Published, Chosen
  <2> QED
    BY <2>2, <2>3, <2>4
<1>5. run' \in [Workers -> Run \cup {NoRun}]
  BY <1>4 DEF Notice
<1>6. TypeOK'
  BY <1>1, <1>2, <1>5 DEF TypeOK
<1>7. Onward
  BY <1>2 DEF Onward
<1>8. Justified'
  BY <1>1, <1>2, <1>7, AttemptsStay
<1>9. Sealed'
  BY <1>1, <1>2 DEF Sealed
<1> QED
  BY <1>4, <1>6, <1>8, <1>9 DEF PInv

LEMMA WriteTypes ==
    ASSUME PInv, Write
    PROVE  writes' \in 0..MaxWrites
  BY EnvironmentAssumption DEF PInv, TypeOK, Write

LEMMA MoveScopeStep ==
    ASSUME PInv, MoveScope
    PROVE  PInv'
<1>1. /\ scopeOurs' = ~scopeOurs /\ Notice(IF scopeOurs' THEN {"scope"} ELSE {})
      /\ bound' = bound /\ writes' \in 0..MaxWrites
      /\ UNCHANGED <<manifest, descriptor, sealed, record, attempted>>
  BY WriteTypes DEF MoveScope
<1>2. bound \in SUBSET Connections /\ scopeOurs \in BOOLEAN
  BY DEF PInv, TypeOK
<1>3. CASE scopeOurs
  BY <1>1, <1>2, <1>3, Noticing DEF Marks
<1>4. CASE ~scopeOurs
  BY <1>1, <1>2, <1>4, Noticing DEF Marks
<1> QED
  BY <1>3, <1>4

LEMMA RebindStep ==
    ASSUME PInv, NEW c \in Connections, Rebind(c)
    PROVE  PInv'
<1>1. /\ bound' = (IF c \in bound THEN bound \ {c} ELSE bound \cup {c})
      /\ Notice(bound') /\ scopeOurs' = scopeOurs /\ writes' \in 0..MaxWrites
      /\ UNCHANGED <<manifest, descriptor, sealed, record, attempted>>
  BY WriteTypes DEF Rebind
<1>2. bound' \in SUBSET Connections /\ scopeOurs \in BOOLEAN
  BY <1>1 DEF PInv, TypeOK
<1> DEFINE mark == bound'
<1>3. mark \in SUBSET Marks
  BY <1>2 DEF Marks
<1> QED
  BY <1>1, <1>2, <1>3, Noticing

\* A package that is written does not touch what invocations go by.
LEMMA Writing ==
    ASSUME PInv, Onward, TypeOK', Sealed',
           UNCHANGED <<scopeOurs, bound, record, run, attempted>>
    PROVE  PInv'
<1>1. \A v \in Workers : Sound(v)'
  BY Keeping DEF PInv
<1>2. Justified'
  BY AttemptsStay DEF PInv
<1> QED
  BY <1>1, <1>2 DEF PInv

LEMMA PutDescriptorStep ==
    ASSUME PInv, NEW v \in Versions, NEW d \in Descriptors, PutDescriptor(v, d)
    PROVE  PInv'
<1>1. /\ descriptor' = [descriptor EXCEPT ![v] = d] /\ writes' \in 0..MaxWrites
      /\ UNCHANGED <<scopeOurs, manifest, bound, sealed, record, run, attempted>>
  BY WriteTypes DEF PutDescriptor
<1>2. TypeOK'
  BY <1>1 DEF PInv, TypeOK
<1>3. Onward /\ Sealed'
  BY <1>1 DEF PInv, Onward, Sealed
<1> QED
  BY <1>1, <1>2, <1>3, Writing

LEMMA PutManifestStep ==
    ASSUME PInv, NEW v \in Versions, NEW d \in Descriptors, PutManifest(v, d)
    PROVE  PInv'
<1>1. /\ manifest' = [manifest EXCEPT ![v] = d]
      /\ sealed' = [sealed EXCEPT ![v] = @ \cup {d}] /\ writes' \in 0..MaxWrites
      /\ UNCHANGED <<scopeOurs, descriptor, bound, record, run, attempted>>
  BY WriteTypes DEF PutManifest
<1>2. TypeOK'
  BY <1>1 DEF PInv, TypeOK
<1>3. \A u \in Versions : /\ manifest'[u] = IF u = v THEN d ELSE manifest[u]
                          /\ sealed'[u] = IF u = v THEN sealed[u] \cup {d} ELSE sealed[u]
  BY <1>1 DEF PInv, TypeOK
<1>4. Onward
  BY <1>1, <1>3 DEF Onward
<1>5. Sealed'
  BY <1>3 DEF PInv, Sealed
<1> QED
  BY <1>1, <1>2, <1>4, <1>5, Writing

(***************************************************************************)
(* The invariant.                                                          *)
(***************************************************************************)

LEMMA PolicyInit == Init => PInv
<1> SUFFICES ASSUME Init PROVE PInv
  OBVIOUS
<1>1. writes \in 0..MaxWrites
  BY EnvironmentAssumption DEF Init
<1>2. TypeOK
  BY <1>1 DEF Init, TypeOK
<1> QED
  BY <1>2 DEF Init, PInv, Sealed, Sound, Justified

LEMMA PolicyStep == PInv /\ [Next]_vars => PInv'
<1> SUFFICES ASSUME PInv, [Next]_vars PROVE PInv'
  OBVIOUS
<1>1. CASE UNCHANGED vars
  <2>1. /\ UNCHANGED <<scopeOurs, bound, record, run, attempted>>
        /\ UNCHANGED <<manifest, descriptor, writes, sealed>>
    BY <1>1 DEF vars, world
  <2>2. TypeOK' /\ Sealed' /\ Onward
    BY <2>1 DEF PInv, TypeOK, Sealed, Onward
  <2> QED
    BY <2>1, <2>2, Writing
<1>2. CASE \E w \in Workers :
          \/ Begin(w) \/ GiveUp(w) \/ End(w)
          \/ \E e \in Events : TakeUp(w, e)
          \/ ReadScope(w) \/ ReadManifest(w) \/ ReadDescriptor(w)
          \/ Prepare(w) \/ ReadExisting(w) \/ Connect(w) \/ Send(w)
  BY <1>2, BeginStep, GiveUpStep, EndStep, TakeUpStep, ReadScopeStep, ReadManifestStep,
     ReadDescriptorStep, PrepareStep, ReadExistingStep, ConnectStep, SendStep
<1>3. CASE \/ MoveScope
           \/ \E c \in Connections : Rebind(c)
           \/ \E v \in Versions, d \in Descriptors :
                 PutDescriptor(v, d) \/ PutManifest(v, d)
  BY <1>3, MoveScopeStep, RebindStep, PutDescriptorStep, PutManifestStep
<1> QED
  BY <1>1, <1>2, <1>3 DEF Next

\* In every state, what an invocation holds is published under its event's
\* version, agrees with the ledger from the moment it is compared, and was in
\* force after the message was taken up; and so was every attempt made.
THEOREM PoliciesHold == Spec => []PInv
<1>1. Init => PInv
  BY PolicyInit
<1>2. PInv /\ [Next]_vars => PInv'
  BY PolicyStep
<1> QED
  BY <1>1, <1>2, PTL DEF Spec

\* The ledger, the packages and what invocations remember have their types.
THEOREM TypeCorrect == Spec => []TypeOK
<1>1. PInv => TypeOK
  BY DEF PInv
<1> QED
  BY <1>1, PoliciesHold, PTL

\* No attempt goes by a package whose manifest never named its descriptor, by
\* the package of another version, or by what was cached for another event.
THEOREM OnlyPublishedAttempts == Spec => []AttemptedAsPublished
<1>1. PInv => AttemptedAsPublished
  <2> SUFFICES ASSUME PInv, NEW a \in attempted
               PROVE  \E d \in sealed[a.pin.event.version] : \E p \in d.policies :
                         /\ d.ours /\ p.active /\ (Production => p.approved)
                         /\ p.id = a.pin.event.policy /\ a.pin.event.type \in p.types
                         /\ p.recipient = a.pin.event.recipient
                         /\ a.pin.selection = [connection |-> p.connection,
                                               maxAttempts |-> p.maxAttempts]
    BY DEF AttemptedAsPublished
  <2>1. PICK d \in sealed[a.pin.event.version] :
           a.pin.selection \in Offered(d, Tuple(a.pin.event))
    BY DEF PInv, Justified, Published, Tuple
  <2>2. PICK p \in d.policies :
           /\ d.ours /\ p.active /\ (Production => p.approved)
           /\ p.id = a.pin.event.policy /\ a.pin.event.type \in p.types
           /\ p.recipient = a.pin.event.recipient
           /\ a.pin.selection = [connection |-> p.connection,
                                 maxAttempts |-> p.maxAttempts]
    BY <2>1 DEF Offered, Tuple
  <2> QED
    BY <2>2
<1> QED
  BY <1>1, PoliciesHold, PTL

\* However often a dedupe key is used again, and whatever is published in
\* between, its attempts are for one event under one selection.
THEOREM KeysArePinned == Spec => []OnePinPerKey
<1>1. PInv => OnePinPerKey
  BY DEF PInv, Justified, OnePinPerKey
<1> QED
  BY <1>1, PoliciesHold, PTL

\* The scope and the binding an attempt rests on were in force at some moment
\* after its message was taken up, however warm the invocation was.
THEOREM AttemptsAreCurrent == Spec => []AttemptedUnderCurrentScope
<1>1. PInv => AttemptedUnderCurrentScope
  BY DEF PInv, Justified, AttemptedUnderCurrentScope
<1> QED
  BY <1>1, PoliciesHold, PTL

=============================================================================
