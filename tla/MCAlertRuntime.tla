--------------------------- MODULE MCAlertRuntime ---------------------------
(* A one-time and a weekly alert, two-minute days, three-day weeks. *)
EXTENDS AlertRuntime, TLC

CONSTANTS once, weekly

MCSchedule == (once :> [minute |-> 1, days |-> {}]) @@ (weekly :> [minute |-> 0, days |-> {1, 2}])
=============================================================================
