---------------------------- MODULE SecretLifecycle ----------------------------
(***************************************************************************)
(* The secrets an attempt needs: SMTP credentials, which operators provision *)
(* and rotate by their own means, and the address of a recipient version,    *)
(* created once and revoked by tools/manage_recipient_secret.py.  The        *)
(* resolver reads each in two calls, tags and then value, while the          *)
(* operators work on it.                                                    *)
(*                                                                         *)
(* Tags are enabled, disabled, or foreign: of another scope or purpose, or   *)
(* without the ids of isolation.  Each recipient here has one notification.  *)
(***************************************************************************)
EXTENDS Naturals, FiniteSets

CONSTANTS Workers,       \* the invocations that may run at once
          Recipients,    \* versions of recipients, each the path of a secret
          Smtp,          \* the path of the connection's credentials
          Addresses,     \* valid mailboxes
          Credentials,   \* well-formed credentials
          Malformed      \* any other value

ASSUME PathsAssumption == Smtp \notin Recipients
ASSUME ValuesAssumption ==
    /\ Addresses \cap Credentials = {}
    /\ Malformed \notin Addresses \cup Credentials

VARIABLES
    secret,    \* what Secrets Manager holds under each path
    job,       \* what each invocation is doing
    sentTo,    \* addresses used for each recipient
    failed,    \* recipients whose notification was failed as secret_invalid
    revoked,   \* recipients that were revoked
    late,      \* recipients used by an invocation that began after revocation
    wanting    \* for each invocation, whether the call that it is making, or that
               \* made it fail its notification, could find a secret not fit for use

vars == <<secret, job, sentTo, failed, revoked, late, wanting>>
history == <<sentTo, failed, revoked, late>>

Paths == Recipients \cup {Smtp}
Tags == {"enabled", "disabled", "foreign"}
NoSecret == [kind |-> "absent"]
Secret == [kind : {"live", "deleted"}, tags : Tags,
           value : Addresses \cup Credentials \cup {Malformed}]

NoJob == [step |-> "idle"]
Job == [step : {"tags", "value"}, path : Paths, recipient : Recipients,
        late : BOOLEAN]
       \cup [step : {"mark_failed"}, recipient : Recipients, late : BOOLEAN]
       \cup [step : {"send"}, recipient : Recipients, late : BOOLEAN,
             address : Addresses]

TypeOK ==
    /\ secret \in [Paths -> Secret \cup {NoSecret}]
    /\ job \in [Workers -> Job \cup {NoJob}]
    /\ sentTo \in [Recipients -> SUBSET Addresses]
    /\ failed \in SUBSET Recipients
    /\ revoked \in SUBSET Recipients
    /\ late \in SUBSET Recipients
    /\ wanting \in [Workers -> BOOLEAN]

Init ==
    /\ secret = [p \in Paths |-> NoSecret]
    /\ job = [w \in Workers |-> NoJob]
    /\ sentTo = [r \in Recipients |-> {}]
    /\ failed = {}
    /\ revoked = {}
    /\ late = {}
    /\ wanting = [w \in Workers |-> FALSE]

-----------------------------------------------------------------------------
(***************************************************************************)
(* SecretResolver.smtp and then SecretResolver.recipient, in an invocation. *)
(***************************************************************************)

\* Not fit for use, as the call finds it: a path without a secret is no such
\* case, nor is a value that is not to be had.
Wanting(p, s, step) ==
    \/ step = "tags" /\ s # NoSecret /\ ~(s.kind = "live" /\ s.tags = "enabled")
    \/ /\ step = "value" /\ s.kind = "live"
       /\ s.value \notin IF p = Smtp THEN Credentials ELSE Addresses

Become(w, j) ==
    /\ job' = [job EXCEPT ![w] = j]
    /\ wanting' = [wanting EXCEPT ![w] =
          IF j.step \in {"tags", "value"} THEN Wanting(j.path, secret[j.path], j.step)
          ELSE j.step = "mark_failed" /\ @]
End(w) == Become(w, NoJob)

Reading(step, path, r, isLate) ==
    [step |-> step, path |-> path, recipient |-> r, late |-> isLate]

\* Fault: the failure is booked on the secret.
InvalidPath(w) ==
    Become(w, [step |-> "mark_failed", recipient |-> job[w].path,
               late |-> job[w].late])

\* The error is not retryable: process will fail the notification.
Invalid(w) ==
    Become(w, [step |-> "mark_failed", recipient |-> job[w].recipient,
               late |-> job[w].late])

\* The notification is not failed already: process returns before it gets here.
Start(w, r) ==
    /\ job[w] = NoJob
    /\ r \notin failed
    /\ Become(w, Reading("tags", Smtp, r, r \in revoked))
    /\ UNCHANGED <<secret, history>>

\* Fault: a secret that is not there is invalid for good.
ReadTagsImpatient(w) ==
    LET s == secret[job[w].path] IN
    /\ job[w].step = "tags"
    /\ IF s # NoSecret /\ s.kind = "live" /\ s.tags = "enabled"
       THEN Become(w, [job[w] EXCEPT !.step = "value"])
       ELSE Invalid(w)
    /\ UNCHANGED <<secret, history>>

\* Fault: the enabled tag is not looked at.
ReadTagsLax(w) ==
    LET s == secret[job[w].path] IN
    /\ job[w].step = "tags"
    /\ IF s = NoSecret THEN End(w)
       ELSE IF s.kind = "live" /\ s.tags # "foreign"
       THEN Become(w, [job[w] EXCEPT !.step = "value"])
       ELSE Invalid(w)
    /\ UNCHANGED <<secret, history>>

\* describe_secret.  It raises for a path without a secret, which is retried.
ReadTags(w) ==
    LET s == secret[job[w].path] IN
    /\ job[w].step = "tags"
    /\ IF s = NoSecret THEN End(w)
       ELSE IF s.kind = "live" /\ s.tags = "enabled"
       THEN Become(w, [job[w] EXCEPT !.step = "value"])
       ELSE Invalid(w)
    /\ UNCHANGED <<secret, history>>

\* Fault: a secret deleted since its tags were read is invalid for good.
ReadValueStrict(w) ==
    LET s == secret[job[w].path]
        r == job[w].recipient
    IN  /\ job[w].step = "value"
        /\ IF s.kind = "deleted" THEN Invalid(w)
           ELSE IF job[w].path = Smtp /\ s.value \in Credentials
           THEN Become(w, Reading("tags", r, r, job[w].late))
           ELSE IF job[w].path = r /\ s.value \in Addresses
           THEN Become(w, [step |-> "send", recipient |-> r, late |-> job[w].late,
                           address |-> s.value])
           ELSE Invalid(w)
        /\ UNCHANGED <<secret, history>>

\* get_secret_value.  It raises when the secret is deleted, which is retried;
\* the tags are those read before.
ReadValue(w) ==
    LET s == secret[job[w].path]
        r == job[w].recipient
    IN  /\ job[w].step = "value"
        /\ IF s.kind = "deleted" THEN End(w)
           ELSE IF job[w].path = Smtp /\ s.value \in Credentials
           THEN Become(w, Reading("tags", r, r, job[w].late))
           ELSE IF job[w].path = r /\ s.value \in Addresses
           THEN Become(w, [step |-> "send", recipient |-> r, late |-> job[w].late,
                           address |-> s.value])
           ELSE Invalid(w)
        /\ UNCHANGED <<secret, history>>

\* What was read lasts for this attempt only.
Send(w) ==
    LET r == job[w].recipient IN
    /\ job[w].step = "send"
    /\ sentTo' = [sentTo EXCEPT ![r] = @ \cup {job[w].address}]
    /\ late' = IF job[w].late THEN late \cup {r} ELSE late
    /\ End(w)
    /\ UNCHANGED <<secret, failed, revoked>>

\* mark_failed, "secret_invalid".
MarkFailed(w) ==
    /\ job[w].step = "mark_failed"
    /\ failed' = failed \cup {job[w].recipient}
    /\ End(w)
    /\ UNCHANGED <<secret, sentTo, revoked, late>>

\* A call is throttled or fails, the claim is refused, the invocation dies.
GiveUp(w) ==
    /\ job[w] # NoJob
    /\ End(w)
    /\ UNCHANGED <<secret, history>>

-----------------------------------------------------------------------------
(***************************************************************************)
(* Operators.                                                              *)
(***************************************************************************)

Put(p, s) ==
    /\ secret' = [secret EXCEPT ![p] = s]
    /\ wanting' = [w \in Workers |->
          \/ wanting[w]
          \/ /\ job[w].step \in {"tags", "value"} /\ job[w].path = p
             /\ Wanting(p, s, job[w].step)]
    /\ UNCHANGED <<job, sentTo, failed, late>>

\* Fault: the tool writes over the secret that is there.
CreateRecipientAgain(r, address) ==
    /\ Put(r, [kind |-> "live", tags |-> "enabled", value |-> address])
    /\ UNCHANGED revoked

\* create_recipient.  Secrets Manager refuses a path that has a secret.
CreateRecipient(r, address) ==
    /\ secret[r] = NoSecret
    /\ Put(r, [kind |-> "live", tags |-> "enabled", value |-> address])
    /\ UNCHANGED revoked

\* revoke_recipient.  Tags of a deleted secret cannot be changed.
RevokeRecipient(r) ==
    /\ secret[r] # NoSecret
    /\ secret[r].kind = "live"
    /\ Put(r, [secret[r] EXCEPT !.tags = "disabled"])
    /\ revoked' = revoked \cup {r}

\* The credentials are provisioned, rotated or given other tags.
SetCredentials(tags, value) ==
    /\ Put(Smtp, [kind |-> "live", tags |-> tags, value |-> value])
    /\ UNCHANGED revoked

\* A secret is scheduled for deletion, or restored as it was.  No path is
\* purged here: the schedule gives at least a week.
DeleteOrRestore(p) ==
    /\ secret[p] # NoSecret
    /\ Put(p, [secret[p] EXCEPT !.kind = IF @ = "live" THEN "deleted" ELSE "live"])
    /\ UNCHANGED revoked

-----------------------------------------------------------------------------
Next ==
    \/ \E w \in Workers :
          \/ \E r \in Recipients : Start(w, r)
          \/ ReadTags(w) \/ ReadValue(w) \/ Send(w) \/ MarkFailed(w) \/ GiveUp(w)
    \/ \E r \in Recipients :
          \/ \E address \in Addresses : CreateRecipient(r, address)
          \/ RevokeRecipient(r)
    \/ \E tags \in Tags, value \in Credentials \cup {Malformed} :
          SetCredentials(tags, value)
    \/ \E p \in Paths : DeleteOrRestore(p)

Spec == Init /\ [][Next]_vars
-----------------------------------------------------------------------------
\* Every message for a version of a recipient goes to one address: a change
\* needs a new version (README.md:27).  That is so as long as no deletion is
\* completed, which would make the path free again.
OneAddressPerVersion ==
    \A r \in Recipients : Cardinality(sentTo[r]) <= 1

\* Revocation holds for every attempt that begins after it, and is not undone
\* by deleting and restoring the secret (README.md:12).
RevocationHolds == late = {}

\* A notification is failed for its secrets only if, since the invocation's call
\* before, the tags were disabled or foreign or the secret was deleted, when it
\* was the tags that were asked for, or the value was malformed, when it was
\* that.  A recipient not created yet, an outage, or a deletion or revocation
\* between the two calls never costs a notification.
FailedForACause ==
    \A w \in Workers : job[w].step = "mark_failed" => wanting[w]

=============================================================================
