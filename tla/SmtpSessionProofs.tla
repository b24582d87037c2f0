--------------------------- MODULE SmtpSessionProofs ---------------------------
(***************************************************************************)
(* The SMTP adapter tells the truth, whatever codes the provider may send:   *)
(* its results are those of ProviderCall.                                  *)
(***************************************************************************)
EXTENDS SmtpSession, TLAPS

\* How far the payload has got.
PayloadInv ==
    /\ pc \in Exchanges \ {"payload"} => sent = "no"
    /\ pc = "payload" => sent = "unanswered"
    /\ pc \in {"data", "payload"} => refused = {}
    /\ sent # "no" => refused = {}
    /\ sent = "no" => taken = {}

\* What was said of it.
AnswerInv ==
    /\ told => sent = "answered" /\ taken = Addressees
    /\ pc \in Exchanges \cup {"raised"} => ~told
    /\ pc \in {"returned", "quit"} => told
    /\ pc = "raised" /\ taken # {} => sent = "unanswered"
    /\ pc = "raised" /\ sent = "unanswered" => codes \cap 400..599 = {}

\* What came of the call.
ResultInv ==
    /\ pc \in Exchanges \cup {"raised", "returned", "quit"} => result = "none"
    /\ pc \in {"close", "done"} => result # "none"
    /\ result = "smtp_accepted" => told
    /\ result \in Refusals => taken = {} /\ sent # "unanswered"
    /\ told => result \in {"none", "smtp_accepted"}

SInv == TypeOK /\ PayloadInv /\ AnswerInv /\ ResultInv

(***************************************************************************)
(* Classification.                                                         *)
(***************************************************************************)

\* A result that the ledger acts on comes from a reply that says no.
LEMMA Classification ==
    ASSUME NEW cs \in SUBSET Int
    PROVE  /\ ResultOf(cs) \in Refusals \cup {"smtp_ambiguous"}
           /\ ResultOf(cs) \in Refusals => cs \cap 400..599 # {}
<1>1. CASE 535 \in cs
  <2>1. ResultOf(cs) = "smtp_authentication"
    BY <1>1 DEF ResultOf
  <2>2. 535 \in cs \cap 400..599
    BY <1>1
  <2> QED
    BY <2>1, <2>2 DEF Refusals
<1>2. CASE 535 \notin cs /\ 552 \in cs
  <2>1. ResultOf(cs) = "smtp_quota"
    BY <1>2 DEF ResultOf
  <2>2. 552 \in cs \cap 400..599
    BY <1>2
  <2> QED
    BY <2>1, <2>2 DEF Refusals
<1>3. CASE cs \cap {535, 552} = {} /\ cs \cap 400..499 # {}
  <2>1. 535 \notin cs /\ 552 \notin cs
    BY <1>3
  <2>2. ResultOf(cs) = "smtp_transient"
    BY <1>3, <2>1 DEF ResultOf
  <2>3. PICK c \in cs : c \in 400..499
    BY <1>3
  <2>4. c \in cs \cap 400..599
    BY <2>3
  <2> QED
    BY <2>2, <2>4 DEF Refusals
<1>4. CASE cs \cap {535, 552} = {} /\ cs \cap 400..499 = {}
  <2>1. 535 \notin cs /\ 552 \notin cs
    BY <1>4
  <2>2. ResultOf(cs) = IF cs # {} /\ cs \subseteq 500..599 THEN "smtp_permanent"
                       ELSE "smtp_ambiguous"
    BY <1>4, <2>1 DEF ResultOf
  <2>3. CASE cs # {} /\ cs \subseteq 500..599
    <3>1. PICK c \in cs : c \in 500..599
      BY <2>3
    <3>2. c \in cs \cap 400..599
      BY <3>1
    <3> QED
      BY <2>2, <2>3, <3>2 DEF Refusals
  <2>4. CASE ~(cs # {} /\ cs \subseteq 500..599)
    BY <2>2, <2>4 DEF Refusals
  <2> QED
    BY <2>3, <2>4
<1> QED
  BY <1>1, <1>2, <1>3, <1>4

(***************************************************************************)
(* The invariant, step by step.                                            *)
(***************************************************************************)

LEMMA ReplyStep ==
    ASSUME SInv, NEW c \in Codes, Reply(c)
    PROVE  SInv'
<1>0. c \in Int
  BY CodesAssumption
<1>1. /\ pc \in {"connect", "login", "mail", "data"}
      /\ UNCHANGED <<asked, refused, told, result, taken>>
      /\ sent' = IF pc' = "payload" THEN "unanswered" ELSE sent
      /\ open' \in BOOLEAN
  BY DEF Reply
<1>2. CASE c \in Positive(pc)
  <2>1. pc' = After(pc) /\ UNCHANGED codes
    BY <1>2 DEF Reply
  <2>2. /\ pc \in {"connect", "login", "mail"} =>
              pc' \in {"login", "mail", "rcpt"} /\ sent' = sent
        /\ pc = "data" => pc' = "payload" /\ sent' = "unanswered"
    BY <1>1, <2>1 DEF After
  <2>3. CASE pc \in {"connect", "login", "mail"}
    <3>1. pc' \in {"login", "mail", "rcpt"} /\ sent' = sent
      BY <2>2, <2>3
    <3> QED
      BY <1>1, <2>1, <2>3, <3>1
         DEF SInv, TypeOK, PayloadInv, AnswerInv, ResultInv, Exchanges
  <2>4. CASE pc = "data"
    <3>1. pc' = "payload" /\ sent' = "unanswered"
      BY <2>2, <2>4
    <3>2. result = "none" /\ ~told /\ refused = {} /\ taken = {}
      BY <2>4 DEF SInv, PayloadInv, AnswerInv, ResultInv, Exchanges
    <3>3. TypeOK'
      BY <1>1, <2>1, <3>1 DEF SInv, TypeOK, Exchanges
    <3>4. PayloadInv' /\ AnswerInv'
      BY <1>1, <3>1, <3>2 DEF PayloadInv, AnswerInv
    <3>5. ResultInv'
      BY <1>1, <3>1, <3>2 DEF ResultInv, Refusals
    <3> QED
      BY <3>3, <3>4, <3>5 DEF SInv
  <2> QED
    BY <1>1, <2>3, <2>4
<1>3. CASE c \notin Positive(pc)
  <2>1. pc' = "raised" /\ codes' = {c} /\ sent' = sent
    BY <1>1, <1>3 DEF Reply, Raise
  <2> QED
    BY <1>1, <2>1 DEF SInv, TypeOK, PayloadInv, AnswerInv, ResultInv, Exchanges
<1> QED
  BY <1>2, <1>3

LEMMA RcptStep ==
    ASSUME SInv, NEW r \in Addressees, NEW c \in Codes, ReplyToRcpt(r, c)
    PROVE  SInv'
<1>1. /\ pc = "rcpt" /\ asked' = asked \cup {r}
      /\ UNCHANGED <<open, sent, told, result, taken>>
      /\ r = Recipient /\ Addressees = {Recipient}
  BY DEF ReplyToRcpt, Addressees
<1>2. asked' = Addressees
  BY <1>1 DEF SInv, TypeOK
<1>3. refused' \subseteq asked' /\ codes' \subseteq Codes \cup {LineTooLong}
  BY <1>1 DEF ReplyToRcpt, SInv, TypeOK
<1>4. pc' \in {"raised", "data"} /\ (pc' = "data" => refused' # Addressees)
  BY <1>2 DEF ReplyToRcpt
<1>5. pc' = "data" => refused' = {}
  BY <1>1, <1>2, <1>3, <1>4
<1> QED
  BY <1>1, <1>2, <1>3, <1>4, <1>5
     DEF SInv, TypeOK, PayloadInv, AnswerInv, ResultInv, Exchanges

LEMMA TakeStep == SInv /\ Take => SInv'
  BY DEF Take, session, SInv, TypeOK, PayloadInv, AnswerInv, ResultInv, Exchanges, Refusals

LEMMA PayloadStep ==
    ASSUME SInv, NEW c \in Codes, ReplyToPayload(c)
    PROVE  SInv'
<1>0. c \in Int
  BY CodesAssumption
<1>1. /\ pc = "payload" /\ UNCHANGED <<asked, refused, open, result, taken>>
      /\ told' = (c = 250)
      /\ sent' = IF c \in {250} \cup 400..599 THEN "answered" ELSE "unanswered"
  BY DEF ReplyToPayload
<1>2. CASE c = 250
  <2>1. pc' = "returned" /\ UNCHANGED codes /\ taken # {}
    BY <1>1, <1>2 DEF ReplyToPayload, Positive
  <2>2. taken = Addressees
    BY <2>1 DEF SInv, TypeOK, Addressees
  <2>3. told' = TRUE /\ sent' = "answered"
    BY <1>1, <1>2
  <2> QED
    BY <1>1, <2>1, <2>2, <2>3
       DEF SInv, TypeOK, PayloadInv, AnswerInv, ResultInv, Exchanges, Refusals
<1>3. CASE c # 250
  <2>1. pc' = "raised" /\ codes' = {c} /\ told' = FALSE
    BY <1>1, <1>3 DEF ReplyToPayload, Positive, Raise
  <2>2. CASE c \in 400..599
    <3>1. sent' = "answered" /\ taken = {}
      BY <1>1, <2>2 DEF ReplyToPayload
    <3> QED
      BY <1>1, <2>1, <3>1
         DEF SInv, TypeOK, PayloadInv, AnswerInv, ResultInv, Exchanges
  <2>3. CASE c \notin 400..599
    <3>1. sent' = "unanswered" /\ codes' \cap 400..599 = {}
      BY <1>1, <1>3, <2>1, <2>3
    <3> QED
      BY <1>1, <2>1, <3>1
         DEF SInv, TypeOK, PayloadInv, AnswerInv, ResultInv, Exchanges, Refusals
  <2> QED
    BY <2>2, <2>3
<1> QED
  BY <1>2, <1>3

LEMMA ExceptStep == SInv /\ Except => SInv'
<1> SUFFICES ASSUME SInv, Except PROVE SInv'
  OBVIOUS
<1>1. /\ pc = "raised" /\ pc' = "close" /\ result' = ResultOf(codes)
      /\ UNCHANGED <<codes, open, taken, session>>
  BY DEF Except
<1>2. codes \in SUBSET Int
  BY CodesAssumption DEF SInv, TypeOK, LineTooLong
<1>3. /\ result' \in Refusals \cup {"smtp_ambiguous"}
      /\ result' \in Refusals => codes \cap 400..599 # {}
  BY <1>1, <1>2, Classification
<1>4. ~told /\ (result' \in Refusals => sent # "unanswered" /\ taken = {})
  BY <1>1, <1>3 DEF SInv, AnswerInv
<1>5. result' \in Outcomes /\ result' \notin {"none", "smtp_accepted"}
  BY <1>3 DEF Outcomes, Refusals
<1> QED
  BY <1>1, <1>4, <1>5
     DEF session, SInv, TypeOK, PayloadInv, AnswerInv, ResultInv, Exchanges

LEMMA EndStep ==
    SInv /\ (Break \/ Return \/ Quit \/ Close \/ Stop) => SInv'
<1> SUFFICES ASSUME SInv, Break \/ Return \/ Quit \/ Close \/ Stop PROVE SInv'
  OBVIOUS
<1>1. CASE Break
  BY <1>1 DEF Break, Raise, session, SInv, TypeOK, PayloadInv, AnswerInv, ResultInv, Exchanges
<1>2. CASE Return
  <2>1. refused = {}
    BY <1>2 DEF Return, SInv, PayloadInv, AnswerInv
  <2> QED
    BY <1>2, <2>1 DEF Return, session, SInv, TypeOK, PayloadInv, AnswerInv, ResultInv, Exchanges
<1>3. CASE Quit
  BY <1>3 DEF Quit, session, SInv, TypeOK, PayloadInv, AnswerInv, ResultInv, Exchanges,
     Outcomes, Refusals
<1>4. CASE Close \/ Stop
  <2>1. /\ pc' \in {"done", "stopped"} /\ open' = FALSE
        /\ pc' = "done" => result # "none"
        /\ UNCHANGED <<codes, result, taken, asked, refused, sent, told>>
    BY <1>4 DEF Close, Stop, session, SInv, ResultInv
  <2>2. TypeOK'
    BY <2>1 DEF SInv, TypeOK
  <2>3. PayloadInv'
    BY <2>1 DEF SInv, PayloadInv, Exchanges
  <2>4. AnswerInv' /\ ResultInv'
    BY <2>1 DEF SInv, AnswerInv, ResultInv, Exchanges
  <2> QED
    BY <2>2, <2>3, <2>4 DEF SInv
<1> QED
  BY <1>1, <1>2, <1>3, <1>4

LEMMA SessionStep == SInv /\ [Next]_vars => SInv'
<1>1. ASSUME SInv, UNCHANGED vars PROVE SInv'
  BY <1>1 DEF vars, session, SInv, TypeOK, PayloadInv, AnswerInv, ResultInv
<1> QED
  BY <1>1, ReplyStep, RcptStep, TakeStep, PayloadStep, ExceptStep, EndStep DEF Next

LEMMA SessionInvariance == Spec => []SInv
<1>1. Init => SInv
  BY DEF Init, SInv, TypeOK, PayloadInv, AnswerInv, ResultInv, Exchanges, Outcomes, Refusals
<1> QED
  BY <1>1, SessionStep, PTL DEF Spec

(***************************************************************************)
(* The theorems.                                                           *)
(***************************************************************************)

\* The session stays within its types.
THEOREM TypeCorrect == Spec => []TypeOK
<1>1. SInv => TypeOK
  BY DEF SInv
<1> QED
  BY <1>1, SessionInvariance, PTL

\* However the dialogue went, no connection outlives the call.
THEOREM NothingLeftOpen == Spec => []ClosedAtTheEnd
<1>1. Init => ClosedAtTheEnd
  BY DEF Init, ClosedAtTheEnd
<1>2. SInv /\ ClosedAtTheEnd /\ [Next]_vars => ClosedAtTheEnd'
  <2> SUFFICES ASSUME SInv, ClosedAtTheEnd, [Next]_vars, pc' = "done" PROVE ~open'
    BY DEF ClosedAtTheEnd
  <2>1. CASE Quit \/ Close
    BY <2>1 DEF Quit, Close
  <2>2. CASE Take \/ Break \/ Except \/ Return \/ Stop \/ UNCHANGED vars
    BY <2>2 DEF Take, Break, Raise, Except, Return, Stop, vars, ClosedAtTheEnd
  <2>3. ASSUME NEW c \in Codes, Reply(c) PROVE FALSE
    BY <2>3 DEF Reply, Raise, After
  <2>4. ASSUME NEW c \in Codes, ReplyToPayload(c) PROVE FALSE
    BY <2>4 DEF ReplyToPayload, Raise
  <2>5. ASSUME NEW r \in Addressees, NEW c \in Codes, ReplyToRcpt(r, c) PROVE FALSE
    BY <2>5 DEF ReplyToRcpt
  <2> QED
    BY <2>1, <2>2, <2>3, <2>4, <2>5 DEF Next
<1> QED
  BY <1>1, <1>2, SessionInvariance, PTL DEF Spec

\* An accepted message was taken for its recipient, and nothing is taken after
\* a refusal, whatever the provider answers and when.
THEOREM VerdictsAreTrue == Spec => []VerdictIsTrue
<1>1. SInv => VerdictIsTrue
  BY DEF SInv, AnswerInv, ResultInv, VerdictIsTrue
<1> QED
  BY <1>1, SessionInvariance, PTL

\* An acceptance that was heard is never reported as anything else.
THEOREM AcceptancesAreReported == Spec => []HeardIsReported
<1>1. SInv => HeardIsReported
  BY DEF SInv, ResultInv, HeardIsReported
<1> QED
  BY <1>1, SessionInvariance, PTL

\* The dialogue and its classification implement the call that the ledger
\* protocol relies on.
THEOREM SessionImplementsCall == Spec => ImplementsProviderCall
<1>1. Init => Call!Init
  BY DEF Init, Call!Init
<1>2. SInv /\ [Next]_vars => [Call!Next]_Call!vars
  <2> SUFFICES ASSUME SInv, [Next]_vars PROVE [Call!Next]_Call!vars
    OBVIOUS
  <2>1. CASE Take
    <3>1. taken' # {} /\ UNCHANGED result
      BY <2>1 DEF Take, SInv, PayloadInv, Addressees
    <3>2. result \in {"none", "smtp_ambiguous"}
      BY <2>1 DEF Take, SInv, TypeOK, AnswerInv, ResultInv, Outcomes
    <3> QED
      BY <3>1, <3>2 DEF Call!Next, Call!Take
  <2>2. CASE Except
    <3>1. /\ result = "none" /\ ResultOf(codes) = result' /\ UNCHANGED <<taken, sent, codes>>
          /\ pc = "raised"
      BY <2>2 DEF Except, SInv, ResultInv, session
    <3>2. codes \in SUBSET Int
      BY CodesAssumption DEF SInv, TypeOK, LineTooLong
    <3>3. CASE result' \in Refusals
      <4>1. codes \cap 400..599 # {}
        BY <3>1, <3>2, <3>3, Classification
      <4>2. taken = {}
        BY <3>1, <4>1 DEF SInv, AnswerInv
      <4> QED
        BY <3>1, <3>3, <4>2 DEF Call!Next, Call!Refuse
    <3>4. CASE result' = "smtp_ambiguous"
      BY <3>1, <3>4 DEF Call!Next, Call!LoseTrack
    <3> QED
      BY <3>1, <3>2, <3>3, <3>4, Classification
  <2>3. CASE Quit
    <3>1. /\ result = "none" /\ result' = "smtp_accepted" /\ UNCHANGED taken
          /\ taken = Addressees
      BY <2>3 DEF Quit, SInv, AnswerInv, ResultInv
    <3> QED
      BY <3>1 DEF Call!Next, Call!Accept, Addressees
  <2>4. CASE Return
    <3>1. UNCHANGED <<taken, result>>
      BY <2>4 DEF Return, SInv, PayloadInv, AnswerInv
    <3> QED
      BY <3>1 DEF Call!vars
  <2>5. CASE \/ UNCHANGED vars \/ Break \/ Close \/ Stop
             \/ \E c \in Codes : Reply(c) \/ ReplyToPayload(c)
             \/ \E r \in Addressees, c \in Codes : ReplyToRcpt(r, c)
    <3>1. UNCHANGED <<taken, result>>
      BY <2>5 DEF vars, Break, Close, Stop, Reply, ReplyToPayload, ReplyToRcpt
    <3> QED
      BY <3>1 DEF Call!vars
  <2> QED
    BY <2>1, <2>2, <2>3, <2>4, <2>5 DEF Next
<1> QED
  BY <1>1, <1>2, SessionInvariance, PTL DEF Spec, ImplementsProviderCall, Call!Spec

=============================================================================
