-------------------------- MODULE MCNotificationQueue --------------------------
(***************************************************************************)
(* Small instances of NotificationQueue for TLC.                             *)
(***************************************************************************)
EXTENDS NotificationQueue

CONSTANTS w1, w2, m1, m2, e1

OneWorker == {w1}
TwoWorkers == {w1, w2}
OneMessage == {m1}
TwoMessages == {m1, m2}
OneEvent == {e1}

=============================================================================
