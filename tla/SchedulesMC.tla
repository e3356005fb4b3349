----------------------------- MODULE SchedulesMC -----------------------------
(* Schedules for TLC: one schedule of every kind. *)
EXTENDS Schedules

MCKindOf == [s \in Schedules |-> s]
=============================================================================
