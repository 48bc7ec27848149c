-------------------------- MODULE MCEventReminder --------------------------
(* Two events, two scans at a time that read one event each, and one request. *)
EXTENDS EventReminder, TLC
=============================================================================
