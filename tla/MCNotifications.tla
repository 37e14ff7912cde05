--------------------------- MODULE MCNotifications ---------------------------
(* The dispatcher with two interchangeable notifications.                  *)
EXTENDS NotificationDispatcher, TLC

\* Sound for the runs that check no liveness property.
MCSymmetry == Permutations(Notification)
=============================================================================
