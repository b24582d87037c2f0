----------------------------- MODULE MessageCustody -----------------------------
(***************************************************************************)
(* What the queue promises about each message, without timers, the ledger or *)
(* the inside of an invocation: a message is in the custody of one           *)
(* invocation at a time, which deletes it or gives it back; only what was    *)
(* accepted is deleted, by whoever has it; and what was handed out often      *)
(* enough goes to the dead-letter queue once nobody has it.                 *)
(***************************************************************************)
EXTENDS Naturals

CONSTANTS Workers, Messages, MaxReceives

VARIABLES place,      \* on the queue, deleted or dead-lettered
          receives,   \* how often each message was handed out
          custody,    \* the messages each invocation has
          accepted    \* the messages whose notification is accepted

vars == <<place, receives, custody, accepted>>

Init ==
    /\ place = [m \in Messages |-> "queue"]
    /\ receives = [m \in Messages |-> 0]
    /\ custody = [w \in Workers |-> {}]
    /\ accepted = {}

Free(m) == place[m] = "queue" /\ \A w \in Workers : m \notin custody[w]

HandOut(w, batch) ==
    /\ custody[w] = {}
    /\ \A m \in batch : Free(m) /\ receives[m] < MaxReceives
    /\ custody' = [custody EXCEPT ![w] = batch]
    /\ receives' = [m \in Messages |-> receives[m] + IF m \in batch THEN 1 ELSE 0]
    /\ UNCHANGED <<place, accepted>>

\* All of a batch at once: what is not deleted is free again.
HandBack(w, done) ==
    /\ done \subseteq custody[w] \cap accepted
    /\ place' = [m \in Messages |-> IF m \in done THEN "deleted" ELSE place[m]]
    /\ custody' = [custody EXCEPT ![w] = {}]
    /\ UNCHANGED <<receives, accepted>>

Bury(m) ==
    /\ Free(m) /\ receives[m] = MaxReceives
    /\ place' = [place EXCEPT ![m] = "dead"]
    /\ UNCHANGED <<receives, custody, accepted>>

\* Acceptance is for good.
Accept ==
    /\ accepted \subseteq accepted' /\ accepted' \subseteq Messages
    /\ UNCHANGED <<place, receives, custody>>

Next ==
    \/ \E w \in Workers :
          \/ \E batch \in SUBSET Messages : HandOut(w, batch)
          \/ \E done \in SUBSET Messages : HandBack(w, done)
    \/ \E m \in Messages : Bury(m)
    \/ Accept

Spec == Init /\ [][Next]_vars

=============================================================================
