---------------------------- MODULE MCAnyPolicy -----------------------------
(* Small instances of AnyPolicy and of the schedules it yields, for TLC. *)
EXTENDS Reports, MCWorkloads
=============================================================================
