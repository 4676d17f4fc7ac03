------------------------ MODULE MCPublisherLifecycle ------------------------
(* Small instances of PublisherLifecycle for TLC. *)
EXTENDS PublisherLifecycle
=============================================================================
