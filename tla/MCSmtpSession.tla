----------------------------- MODULE MCSmtpSession -----------------------------
(***************************************************************************)
(* SmtpSession for TLC: a code of every class that is told apart, and the one *)
(* that smtplib gives to a reply it cannot read.                            *)
(***************************************************************************)
EXTENDS SmtpSession

AllClasses == {-1, 220, 235, 250, 251, 354, 421, 450, 503, 535, 550, 552}

=============================================================================
