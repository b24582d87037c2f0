---------------------------- MODULE PublishedPolicy ----------------------------
(***************************************************************************)
(* What an attempt is allowed to be: the policy published under the version  *)
(* its event pins, resolved by PublishedPolicyResolver in an invocation      *)
(* while the site's scope moves, packages are written and bindings change;   *)
(* pinned by the ledger when the notification is first prepared; and the     *)
(* connection it names, resolved by ConnectionResolver.                     *)
(*                                                                         *)
(* An invocation builds its resolver, whose cache is empty, and may handle   *)
(* several messages.  A package is two objects of a bucket, written and read *)
(* one at a time: the descriptor, and the manifest that holds its hash.  A   *)
(* hash is the content here.  Claims, secrets and SMTP are subjects of other *)
(* modules: an attempt that got through all checks may be made, or not.     *)
(***************************************************************************)
EXTENDS Naturals, FiniteSets

CONSTANTS Workers,       \* the invocations that may run at once
          Events,        \* [key, version, policy, type, recipient, variables]
          Descriptors,   \* [ours, policies]: contents a descriptor may have
          Connections,
          Production,    \* the environment is production
          None,
          MaxWrites      \* bound on what is written around the worker, for TLC

Keys == {e.key : e \in Events}
Versions == {e.version : e \in Events}

\* What a policy may be; its templates are those of its types.
Policy == [id : {e.policy : e \in Events}, active : BOOLEAN, approved : BOOLEAN,
           types : SUBSET {e.type : e \in Events},
           recipient : {e.recipient : e \in Events},
           connection : Connections, maxAttempts : Nat]

ASSUME DescriptorsAssumption ==
    Descriptors \subseteq [ours : BOOLEAN, policies : SUBSET Policy]
ASSUME EnvironmentAssumption == Production \in BOOLEAN /\ MaxWrites \in Nat

VARIABLES
    scopeOurs,    \* the registry gives the domain to our tenant and draft
    manifest,     \* the descriptor each version's manifest has the hash of
    descriptor,   \* the descriptor stored under each version
    bound,        \* connections with an active binding
    record,       \* the event and selection each ledger record was made for
    run,          \* what each invocation is doing
    writes,       \* what was written around the worker
    sealed,       \* all a version's manifest ever had the hash of
    attempted     \* the attempts made

world == <<scopeOurs, manifest, descriptor, bound, writes, sealed>>
vars == <<world, record, run, attempted>>

Selections == [connection : Connections, maxAttempts : 1..5]

Tuple(e) == [version |-> e.version, policy |-> e.policy, type |-> e.type,
             recipient |-> e.recipient]
Tuples == {Tuple(e) : e \in Events}

Pins == [event : Events, selection : Selections]

ASSUME NoneAssumption ==
    None \notin Events \cup Descriptors \cup Connections \cup Selections \cup Pins

\* What was in force at some moment since the message was taken up.
Marks == {"scope"} \cup Connections

Steps == {"next", "scope", "manifest", "descriptor", "prepare", "existing",
          "connect", "send"}
NoRun == [pc |-> "idle"]
Run == [pc : Steps, event : Events \cup {None}, hash : Descriptors \cup {None},
        selection : Selections \cup {None}, since : SUBSET Marks,
        cache : [Tuples -> Selections \cup {None}]]

TypeOK ==
    /\ scopeOurs \in BOOLEAN
    /\ manifest \in [Versions -> Descriptors \cup {None}]
    /\ descriptor \in [Versions -> Descriptors \cup {None}]
    /\ bound \in SUBSET Connections
    /\ record \in [Keys -> Pins \cup {None}]
    /\ run \in [Workers -> Run \cup {NoRun}]
    /\ writes \in 0..MaxWrites
    /\ sealed \in [Versions -> SUBSET Descriptors]
    /\ attempted \in SUBSET [pin : Pins, through : Connections, current : BOOLEAN]

Init ==
    /\ scopeOurs = TRUE
    /\ manifest = [v \in Versions |-> None]
    /\ descriptor = [v \in Versions |-> None]
    /\ bound = Connections
    /\ record = [k \in Keys |-> None]
    /\ run = [w \in Workers |-> NoRun]
    /\ writes = 0
    /\ sealed = [v \in Versions |-> {}]
    /\ attempted = {}

-----------------------------------------------------------------------------
(***************************************************************************)
(* The descriptor.                                                         *)
(***************************************************************************)

\* Fault: the attempts a policy may ask for are not bounded.
WellFormedUnbounded(p) == p.types # {} /\ (Production /\ p.active => p.approved)

\* _validated_policy.  One bad policy spoils the descriptor.
WellFormed(p) ==
    /\ p.types # {}
    /\ p.maxAttempts \in 1..5
    /\ Production /\ p.active => p.approved

Selects(p, e) ==
    /\ p.id = e.policy /\ p.active
    /\ e.type \in p.types /\ p.recipient = e.recipient

\* _resolve_descriptor: the selection an event makes, if any.
Selected(d, e) ==
    {[connection |-> p.connection, maxAttempts |-> p.maxAttempts] :
        p \in {q \in d.policies :
                 /\ d.ours
                 /\ \A r \in d.policies : WellFormed(r) /\ (r.id = q.id => r = q)
                 /\ Selects(q, e)}}

-----------------------------------------------------------------------------
(***************************************************************************)
(* The invocation.                                                         *)
(***************************************************************************)

Step(w, r) == run' = [run EXCEPT ![w] = r]

\* notification_worker() builds a resolver for the invocation.
Begin(w) ==
    /\ run[w] = NoRun
    /\ Step(w, [pc |-> "next", event |-> None, hash |-> None, selection |-> None,
                since |-> {}, cache |-> [t \in Tuples |-> None]])
    /\ UNCHANGED <<world, record, attempted>>

\* The next message is taken up.  It is answered here, whatever came before.
TakeUp(w, e) ==
    /\ run[w] # NoRun
    /\ run[w].pc = "next"
    /\ Step(w, [run[w] EXCEPT !.pc = "scope", !.event = e,
                   !.since = bound \cup IF scopeOurs THEN {"scope"} ELSE {}])
    /\ UNCHANGED <<world, record, attempted>>

\* The message is answered, with an attempt made or not; the resolver stays.
Answered(r) == [r EXCEPT !.pc = "next", !.event = None, !.hash = None,
                      !.selection = None, !.since = {}]

\* A call fails, a check fails, or the record is in no state to send from.
GiveUp(w) ==
    /\ run[w] # NoRun
    /\ run[w].pc # "next"
    /\ Step(w, Answered(run[w]))
    /\ UNCHANGED <<world, record, attempted>>

\* The invocation is over, or dies.
End(w) ==
    /\ run[w] # NoRun
    /\ Step(w, NoRun)
    /\ UNCHANGED <<world, record, attempted>>

\* Fault: a selection from the cache is used whatever the scope is now.
ReadScopeAfterCache(w) ==
    LET cached == run[w].cache[Tuple(run[w].event)] IN
    /\ run[w] # NoRun
    /\ run[w].pc = "scope"
    /\ cached # None \/ scopeOurs
    /\ Step(w, IF cached = None THEN [run[w] EXCEPT !.pc = "manifest"]
               ELSE [run[w] EXCEPT !.pc = "prepare", !.selection = cached])
    /\ UNCHANGED <<world, record, attempted>>

\* The registry is read, consistently, and then the cache.
ReadScope(w) ==
    LET cached == run[w].cache[Tuple(run[w].event)] IN
    /\ run[w] # NoRun
    /\ run[w].pc = "scope"
    /\ scopeOurs
    /\ Step(w, IF cached = None THEN [run[w] EXCEPT !.pc = "manifest"]
               ELSE [run[w] EXCEPT !.pc = "prepare", !.selection = cached])
    /\ UNCHANGED <<world, record, attempted>>

\* The manifest is read, for the hash of the descriptor.
ReadManifest(w) ==
    LET hash == manifest[run[w].event.version] IN
    /\ run[w] # NoRun
    /\ run[w].pc = "manifest"
    /\ hash # None
    /\ Step(w, [run[w] EXCEPT !.pc = "descriptor", !.hash = hash])
    /\ UNCHANGED <<world, record, attempted>>

\* Fault: the hash of the descriptor is not compared.
ReadDescriptorUnchecked(w) ==
    LET e == run[w].event IN
    /\ run[w] # NoRun
    /\ run[w].pc = "descriptor"
    /\ descriptor[e.version] # None
    /\ \E s \in Selected(descriptor[e.version], e) :
          Step(w, [run[w] EXCEPT !.pc = "prepare", !.selection = s,
                                 !.cache = [@ EXCEPT ![Tuple(e)] = s]])
    /\ UNCHANGED <<world, record, attempted>>

\* The descriptor is read, must have that hash, and its selection is kept.
ReadDescriptor(w) ==
    LET e == run[w].event IN
    /\ run[w] # NoRun
    /\ run[w].pc = "descriptor"
    /\ descriptor[e.version] # None
    /\ descriptor[e.version] = run[w].hash
    /\ \E s \in Selected(descriptor[e.version], e) :
          Step(w, [run[w] EXCEPT !.pc = "prepare", !.selection = s,
                                 !.cache = [@ EXCEPT ![Tuple(e)] = s]])
    /\ UNCHANGED <<world, record, attempted>>

Pin(w) == [event |-> run[w].event, selection |-> run[w].selection]

\* prepare: put_if_absent.
Prepare(w) ==
    LET k == run[w].event.key IN
    /\ run[w] # NoRun
    /\ run[w].pc = "prepare"
    /\ record' = IF record[k] = None THEN [record EXCEPT ![k] = Pin(w)] ELSE record
    /\ Step(w, [run[w] EXCEPT !.pc = IF record[k] = None THEN "connect"
                                     ELSE "existing"])
    /\ UNCHANGED <<world, attempted>>

\* Fault: the existing record is compared with the event only.
PinnedEvent(w) == record[run[w].event.key].event = run[w].event

\* The existing record was made for this event and this selection.
Pinned(w) == record[run[w].event.key] = Pin(w)

ReadExisting(w) ==
    /\ run[w] # NoRun
    /\ run[w].pc = "existing"
    /\ Pinned(w)
    /\ Step(w, [run[w] EXCEPT !.pc = "connect"])
    /\ UNCHANGED <<world, record, attempted>>

\* ConnectionResolver.resolve: Integrations answers with the active binding
\* of the connection that the policy names.
Connect(w) ==
    /\ run[w] # NoRun
    /\ run[w].pc = "connect"
    /\ run[w].selection.connection \in bound
    /\ Step(w, [run[w] EXCEPT !.pc = "send"])
    /\ UNCHANGED <<world, record, attempted>>

\* The attempt.
Send(w) ==
    LET through == run[w].selection.connection IN
    /\ run[w] # NoRun
    /\ run[w].pc = "send"
    /\ attempted' = attempted \cup
          {[pin |-> Pin(w), through |-> through,
            current |-> {"scope", through} \subseteq run[w].since]}
    /\ Step(w, Answered(run[w]))
    /\ UNCHANGED <<world, record>>

-----------------------------------------------------------------------------
(***************************************************************************)
(* Around the worker.                                                      *)
(***************************************************************************)

\* All messages in hand notice what is in force now.
Notice(mark) ==
    run' = [w \in Workers |-> IF run[w] = NoRun \/ run[w].pc = "next" THEN run[w]
                              ELSE [run[w] EXCEPT !.since = @ \cup mark]]

Write == writes < MaxWrites /\ writes' = writes + 1

\* The domain moves to another draft, or back.
MoveScope ==
    /\ Write
    /\ scopeOurs' = ~scopeOurs
    /\ Notice(IF scopeOurs' THEN {"scope"} ELSE {})
    /\ UNCHANGED <<manifest, descriptor, bound, sealed, record, attempted>>

\* A binding is activated or deactivated.
Rebind(c) ==
    /\ Write
    /\ bound' = IF c \in bound THEN bound \ {c} ELSE bound \cup {c}
    /\ Notice(bound')
    /\ UNCHANGED <<scopeOurs, manifest, descriptor, sealed, record, attempted>>

\* One object of a package is written, for the first time or over another.
PutDescriptor(v, d) ==
    /\ Write
    /\ descriptor' = [descriptor EXCEPT ![v] = d]
    /\ UNCHANGED <<scopeOurs, manifest, bound, sealed, record, run, attempted>>

PutManifest(v, d) ==
    /\ Write
    /\ manifest' = [manifest EXCEPT ![v] = d]
    /\ sealed' = [sealed EXCEPT ![v] = @ \cup {d}]
    /\ UNCHANGED <<scopeOurs, descriptor, bound, record, run, attempted>>

-----------------------------------------------------------------------------
Next ==
    \/ \E w \in Workers :
          \/ Begin(w) \/ GiveUp(w) \/ End(w)
          \/ \E e \in Events : TakeUp(w, e)
          \/ ReadScope(w) \/ ReadManifest(w) \/ ReadDescriptor(w)
          \/ Prepare(w) \/ ReadExisting(w) \/ Connect(w) \/ Send(w)
    \/ MoveScope
    \/ \E c \in Connections : Rebind(c)
    \/ \E v \in Versions, d \in Descriptors : PutDescriptor(v, d) \/ PutManifest(v, d)

Spec == Init /\ [][Next]_vars
-----------------------------------------------------------------------------
(***************************************************************************)
(* Properties.                                                             *)
(***************************************************************************)

\* Every attempt follows an active policy, approved if this is production, of
\* a descriptor that the manifest of the event's own version named at some
\* time: never a half-written package, another version, or what was only
\* cached for another event (README.md:10).
AttemptedAsPublished ==
    \A a \in attempted :
        LET e == a.pin.event IN
        \E d \in sealed[e.version] : \E p \in d.policies :
            /\ d.ours /\ p.active /\ (Production => p.approved)
            /\ p.id = e.policy /\ e.type \in p.types /\ p.recipient = e.recipient
            /\ a.pin.selection = [connection |-> p.connection,
                                  maxAttempts |-> p.maxAttempts]

\* All attempts under one dedupe key are for one event, under one selection
\* and through its connection, whatever is published later and whoever uses
\* the key again.
OnePinPerKey ==
    \A a, b \in attempted :
        a.pin.event.key = b.pin.event.key =>
            a.pin = b.pin /\ a.through = b.pin.selection.connection

\* No attempt rests on a scope that had moved, or on a binding that had been
\* deactivated, before its message was taken up: what earlier messages of the
\* invocation found is not relied on (README.md:10,11).
AttemptedUnderCurrentScope == \A a \in attempted : a.current

=============================================================================
