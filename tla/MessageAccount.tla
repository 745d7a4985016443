--------------------------- MODULE MessageAccount ---------------------------
(***************************************************************************)
(* What consumer_producer_problem promises about its two counters: they    *)
(* only ever advance one message at a time, nothing is consumed that was   *)
(* not produced before, and production runs ahead by at most Backlog       *)
(* messages.  In particular a counter that has moved is never reset.       *)
(***************************************************************************)
EXTENDS Integers

CONSTANT Backlog

VARIABLES produced, consumed

AccountInit == produced = 0 /\ consumed = 0

Produce ==
    /\ produced - consumed < Backlog
    /\ produced' = produced + 1
    /\ UNCHANGED consumed

Consume ==
    /\ consumed < produced
    /\ consumed' = consumed + 1
    /\ UNCHANGED produced

AccountSpec == AccountInit /\ [][Produce \/ Consume]_<<produced, consumed>>
=============================================================================
