---------------------------- MODULE MCRingBuffer ----------------------------
(* Instances of RingBuffer for TLC: who calls what. *)
EXTENDS RingBuffer

CONSTANTS a, b, c, d

MCProcs == {a, b, c, d}

Use(fa, fb, fc, fd) ==
    [p \in MCProcs |-> CASE p = a -> fa [] p = b -> fb [] p = c -> fc [] p = d -> fd]

\* One process on each side, trying; one on each side, and two on either side,
\* counting; two that push until nobody frees a slot any more, while the ring is
\* drained with try_pop (as the barber does at closing time).
MCUsages == {Use("try_push", "try_pop", "none", "none"),
             Use("push", "pop", "none", "none"),
             Use("push", "push", "pop", "none"),
             Use("push", "none", "pop", "pop"),
             Use("push", "push", "try_pop", "none")}
=============================================================================
