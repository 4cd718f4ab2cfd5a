---------------------------- MODULE MCReminders ----------------------------
(* Reminders on small instances.                                           *)
EXTENDS Reminders, TLC

OneLane == {"general"}
=============================================================================
