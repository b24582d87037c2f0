------------------------------ MODULE SmtpSession ------------------------------
(***************************************************************************)
(* One SMTPAdapter.send: the dialogue that smtplib holds with the provider,  *)
(* the classification of what it returns or raises, and the cleaning up.     *)
(* The provider takes the message at some moment after the payload was sent, *)
(* if at all, be it after the session has broken down.                      *)
(*                                                                         *)
(* The connection is of the one kind that send accepts and that              *)
(* ConnectionResolver returns.  smtplib's own replies to a failure (RSET,    *)
(* closing after a 421) change nothing that the adapter sees.               *)
(*                                                                         *)
(* smtplib also makes up codes: -1 for a reply it cannot read, and 500 for a *)
(* line of more than 8192 bytes.  The reply to the payload is taken to have  *)
(* no such line, which the adapter would report as smtp_permanent although   *)
(* the message may have been taken (SMTP's own limit is 512 bytes).          *)
(***************************************************************************)
EXTENDS Integers

CONSTANTS Codes,             \* reply codes as smtplib reads them
          Recipient, Sender

ASSUME CodesAssumption == Codes \subseteq Int
ASSUME NamesAssumption == Recipient # Sender

VARIABLES
    pc,       \* the reply waited for, or what is done after the dialogue
    asked,    \* addresses the provider was given
    refused,  \* those of them it refused
    codes,    \* the codes of the refusals or of the error raised
    open,     \* the connection is open
    sent,     \* the payload: not sent, sent, or sent and answered
    told,     \* the provider said that it took the message
    result,   \* the reason code of the result
    taken     \* addresses the provider took the message for

session == <<asked, refused, sent, told>>
vars == <<pc, codes, open, result, taken, session>>

Refusals == {"smtp_transient", "smtp_permanent", "smtp_authentication", "smtp_quota"}
Outcomes == Refusals \cup {"smtp_accepted", "smtp_ambiguous"}

\* Fault: the sender gets a copy.
AddresseesAndSender == {Recipient, Sender}

\* to_addrs: the recipient and nobody else.
Addressees == {Recipient}

\* What smtplib raises on a reply line that is too long.
LineTooLong == 500

Exchanges == {"connect", "login", "mail", "rcpt", "data", "payload"}

TypeOK ==
    /\ pc \in Exchanges \cup {"returned", "raised", "quit", "close", "done", "stopped"}
    /\ asked \subseteq Addressees /\ refused \subseteq asked
    /\ codes \subseteq Codes \cup {LineTooLong}
    /\ open \in BOOLEAN
    /\ sent \in {"no", "unanswered", "answered"}
    /\ told \in BOOLEAN
    /\ result \in Outcomes \cup {"none"}
    /\ pc = "done" => result # "none"
    /\ taken \subseteq Addressees

Init ==
    /\ pc = "connect"
    /\ asked = {} /\ refused = {} /\ codes = {}
    /\ open = FALSE
    /\ sent = "no" /\ told = FALSE
    /\ result = "none"
    /\ taken = {}

-----------------------------------------------------------------------------
(***************************************************************************)
(* The dialogue.                                                           *)
(***************************************************************************)

\* Replies that let the dialogue go on, and where it goes.
Positive(exchange) ==
    CASE exchange = "connect" -> {220}
      [] exchange = "login"   -> {235, 503}
      [] exchange = "mail"    -> {250}
      [] exchange = "rcpt"    -> {250, 251}
      [] exchange = "data"    -> {354}
      [] exchange = "payload" -> {250}

After(exchange) ==
    CASE exchange = "connect" -> "login"
      [] exchange = "login"   -> "mail"
      [] exchange = "mail"    -> "rcpt"
      [] exchange = "data"    -> "payload"

\* An error with the reply codes it carries, if any.
Raise(cs) == pc' = "raised" /\ codes' = cs

\* The reply to the connection, the login, MAIL or DATA.
Reply(c) ==
    /\ pc \in {"connect", "login", "mail", "data"}
    /\ IF c \in Positive(pc) THEN pc' = After(pc) /\ UNCHANGED codes ELSE Raise({c})
    /\ open' = (open \/ c \in Positive(pc))
    /\ sent' = IF pc' = "payload" THEN "unanswered" ELSE sent
    /\ UNCHANGED <<asked, refused, told, result, taken>>

\* The reply to RCPT for one address.  A refusal raises when all are refused.
ReplyToRcpt(r, c) ==
    /\ pc = "rcpt" /\ r \in Addressees \ asked
    /\ asked' = asked \cup {r}
    /\ IF c \in Positive("rcpt") THEN UNCHANGED <<refused, codes>>
       ELSE refused' = refused \cup {r} /\ codes' = codes \cup {c}
    /\ pc' = IF c = 421 \/ refused' = Addressees THEN "raised"
             ELSE IF asked' = Addressees THEN "data" ELSE "rcpt"
    /\ UNCHANGED <<open, sent, told, result, taken>>

\* The provider takes the message; its reply may never arrive.
Take ==
    /\ sent = "unanswered" /\ taken = {}
    /\ taken' = Addressees \ refused
    /\ UNCHANGED <<pc, codes, open, result, session>>

\* The reply to the payload: 250 says that the message was taken, 4xx and 5xx
\* that it was not, and any other code says nothing.
ReplyToPayload(c) ==
    /\ pc = "payload"
    /\ c = 250 => taken # {}
    /\ c \in 400..599 => taken = {}
    /\ IF c \in Positive("payload") THEN pc' = "returned" /\ UNCHANGED codes
       ELSE Raise({c})
    /\ told' = (c = 250)
    /\ sent' = IF c \in {250} \cup 400..599 THEN "answered" ELSE "unanswered"
    /\ UNCHANGED <<asked, refused, open, result, taken>>

\* Fault: the timeout is that of connecting only.
BreakWhileConnecting ==
    /\ pc = "connect"
    /\ Raise({})
    /\ UNCHANGED <<open, result, taken, session>>

\* A timeout, a disconnect, a TLS error, an unsupported extension, an answer
\* of smtplib that is no dictionary: there is no reply code.  Or a reply line
\* that is too long, other than the payload's: smtplib makes up the code.
Break ==
    /\ pc \in Exchanges
    /\ \/ Raise({})
       \/ pc # "payload" /\ Raise({LineTooLong})
    /\ UNCHANGED <<open, result, taken, session>>

-----------------------------------------------------------------------------
(***************************************************************************)
(* The result.                                                             *)
(***************************************************************************)

\* Fault: codes of no known class fall through to the end of the function.
ResultOfKnown(cs) ==
    CASE 535 \in cs                    -> "smtp_authentication"
      [] 535 \notin cs /\ 552 \in cs   -> "smtp_quota"
      [] cs \cap {535, 552} = {} /\ cs \cap 400..499 # {} -> "smtp_transient"
      [] OTHER -> IF cs # {} /\ cs \subseteq 500..599 THEN "smtp_permanent" ELSE "none"

\* Fault: an error without a reply may be retried.
ResultOfSilence(cs) ==
    CASE 535 \in cs                    -> "smtp_authentication"
      [] 535 \notin cs /\ 552 \in cs   -> "smtp_quota"
      [] cs \cap {535, 552} = {} /\ (cs = {} \/ cs \cap 400..499 # {}) -> "smtp_transient"
      [] OTHER -> IF cs \subseteq 500..599 THEN "smtp_permanent" ELSE "smtp_ambiguous"

\* _recipient_result of all codes, and _response_result of the only one.
ResultOf(cs) ==
    CASE 535 \in cs                    -> "smtp_authentication"
      [] 535 \notin cs /\ 552 \in cs   -> "smtp_quota"
      [] cs \cap {535, 552} = {} /\ cs \cap 400..499 # {} -> "smtp_transient"
      [] OTHER -> IF cs # {} /\ cs \subseteq 500..599 THEN "smtp_permanent"
                  ELSE "smtp_ambiguous"

\* Fault: the connection is closed only after quit.
ExceptLeavesOpen ==
    /\ pc = "raised"
    /\ result' = ResultOf(codes)
    /\ pc' = "done"
    /\ UNCHANGED <<codes, open, taken, session>>

\* An exception is classified.
Except ==
    /\ pc = "raised"
    /\ result' = ResultOf(codes)
    /\ pc' = "close"
    /\ UNCHANGED <<codes, open, taken, session>>

\* send_message returns the addresses that were refused.
Return ==
    /\ pc = "returned"
    /\ IF refused = {} THEN pc' = "quit" /\ UNCHANGED result
       ELSE pc' = "close" /\ result' = ResultOf(codes)
    /\ UNCHANGED <<codes, open, taken, session>>

\* Fault: an error in quit is handled as any other.
QuitRaises ==
    /\ pc = "quit"
    /\ Raise({})
    /\ UNCHANGED <<open, result, taken, session>>

\* quit, and close if it raises: the message was accepted all the same.
Quit ==
    /\ pc = "quit"
    /\ result' = "smtp_accepted"
    /\ \/ pc' = "done" /\ open' = FALSE
       \/ pc' = "close" /\ UNCHANGED open
    /\ UNCHANGED <<codes, taken, session>>

Close ==
    /\ pc = "close"
    /\ open' = FALSE
    /\ pc' = "done"
    /\ UNCHANGED <<codes, result, taken, session>>

\* The invocation ends before its session, with all its connections.
Stop ==
    /\ pc \notin {"done", "stopped"}
    /\ pc' = "stopped"
    /\ open' = FALSE
    /\ UNCHANGED <<codes, result, taken, session>>

-----------------------------------------------------------------------------
Next ==
    \/ \E c \in Codes : Reply(c) \/ ReplyToPayload(c)
    \/ \E r \in Addressees, c \in Codes : ReplyToRcpt(r, c)
    \/ Take
    \/ Break \/ Except \/ Return \/ Quit \/ Close \/ Stop

\* The provider may be silent for ever; every wait has a timeout, and the
\* adapter's own steps do not wait.
Spec ==
    /\ Init /\ [][Next]_vars
    /\ WF_vars(Break) /\ WF_vars(Except) /\ WF_vars(Return)
    /\ WF_vars(Quit) /\ WF_vars(Close)
-----------------------------------------------------------------------------
(***************************************************************************)
(* Properties.                                                             *)
(***************************************************************************)

\* A result that the ledger acts on is true, and stays so: nothing is taken
\* after a refusal, for any address, and what is called accepted was taken for
\* every address (README.md:19).
VerdictIsTrue ==
    /\ result = "smtp_accepted" => taken = Addressees
    /\ result \in Refusals => taken = {} /\ sent # "unanswered"

\* An acceptance that was heard is reported, whatever becomes of the
\* connection after it.
HeardIsReported == told => result \in {"none", "smtp_accepted"}

\* No result is returned with the connection left open.
ClosedAtTheEnd == pc = "done" => ~open

\* The call comes to an end, even if the provider says nothing at all.
CallEnds == <>(pc \in {"done", "stopped"})

\* The adapter is the call that the ledger protocol relies on.
Call == INSTANCE ProviderCall WITH taken <- taken # {}
ImplementsProviderCall == Call!Spec

=============================================================================
