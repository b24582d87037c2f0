-------------------------- MODULE DeliveryLifecycle --------------------------
(***************************************************************************)
(* What the delivery ledger promises about each notification, without       *)
(* invocations, leases, revisions or time: the life of its record, when an   *)
(* attempt may start, and when the provider may take the message.           *)
(*                                                                         *)
(* An attempt hands out a permit to send once.  While a permit is out the    *)
(* record may be failed under its holder, but it is neither retried, nor    *)
(* parked as uncertain, nor taken for accepted.                             *)
(***************************************************************************)
EXTENDS Naturals

CONSTANTS Events,    \* notifications
          Budget     \* attempts a notification may make in all

VARIABLES status,      \* the state of each record
          attempts,    \* attempts started
          permit,      \* an attempt is under way that has not sent yet
          taken,       \* messages the provider took
          authorised   \* messages it may take: one, and one per approved retry

vars == <<status, attempts, permit, taken, authorised>>

Init ==
    /\ status = [e \in Events |-> "absent"]
    /\ attempts = [e \in Events |-> 0]
    /\ permit = [e \in Events |-> FALSE]
    /\ taken = [e \in Events |-> 0]
    /\ authorised = [e \in Events |-> 1]

Become(e, s) == status' = [status EXCEPT ![e] = s]

Register(e) ==
    /\ status[e] = "absent"
    /\ Become(e, "prepared")
    /\ UNCHANGED <<attempts, permit, taken, authorised>>

\* The permit may be lost with the invocation it was meant for.
Attempt(e) ==
    /\ status[e] = "prepared"
    /\ ~permit[e]
    /\ taken[e] < authorised[e]
    /\ attempts[e] < Budget
    /\ Become(e, "sending")
    /\ attempts' = [attempts EXCEPT ![e] = @ + 1]
    /\ \E p \in BOOLEAN : permit' = [permit EXCEPT ![e] = p]
    /\ UNCHANGED <<taken, authorised>>

\* The attempt is over: the provider took the message, or it did not.
Conclude(e) ==
    /\ permit[e]
    /\ permit' = [permit EXCEPT ![e] = FALSE]
    /\ \E n \in {0, 1} : taken' = [taken EXCEPT ![e] = @ + n]
    /\ UNCHANGED <<status, attempts, authorised>>

\* A confirmed refusal: the same authorisation still stands.
Retry(e) ==
    /\ status[e] = "sending"
    /\ ~permit[e]
    /\ taken[e] < authorised[e]
    /\ Become(e, "prepared")
    /\ UNCHANGED <<attempts, permit, taken, authorised>>

\* The answer arrived, or never will.
Settle(e) ==
    /\ status[e] = "sending"
    /\ ~permit[e]
    /\ \/ Become(e, "uncertain")
       \/ taken[e] >= 1 /\ Become(e, "accepted_by_smtp")
    /\ UNCHANGED <<attempts, permit, taken, authorised>>

Fail(e) ==
    /\ status[e] \in {"prepared", "sending"}
    /\ Become(e, "failed")
    /\ UNCHANGED <<attempts, permit, taken, authorised>>

Confirm(e) ==
    /\ status[e] = "uncertain"
    /\ Become(e, "accepted_by_smtp")
    /\ UNCHANGED <<attempts, permit, taken, authorised>>

Authorise(e) ==
    /\ status[e] = "uncertain"
    /\ attempts[e] < Budget
    /\ Become(e, "prepared")
    /\ authorised' = [authorised EXCEPT ![e] = @ + 1]
    /\ UNCHANGED <<attempts, permit, taken>>

Next ==
    \E e \in Events :
        \/ Register(e) \/ Attempt(e) \/ Conclude(e) \/ Retry(e)
        \/ Settle(e) \/ Fail(e) \/ Confirm(e) \/ Authorise(e)

Spec == Init /\ [][Next]_vars

=============================================================================
