-------------------------- MODULE MCSleepingBarber --------------------------
(* SleepingBarber for TLC. *)
EXTENDS SleepingBarber

\* Leaves the behaviours in which shared_data is constructed again while somebody
\* uses it to the runs without this constraint.
Undisturbed == ~disturbed
=============================================================================
