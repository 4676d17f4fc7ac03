-------------------------- MODULE MCOutboxPublisher --------------------------
(* Small instances of OutboxPublisher for TLC. *)
EXTENDS OutboxPublisher, TLC

(* Publishers are interchangeable: they are only compared for equality. *)
PublisherSymmetry == Permutations(Publishers)
=============================================================================
