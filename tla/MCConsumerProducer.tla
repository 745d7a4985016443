------------------------- MODULE MCConsumerProducer -------------------------
(* Model values for TLC; see the cfg files for the bounds. *)
EXTENDS ConsumerProducer

=============================================================================
