--------------------------- MODULE MCStoreBackend ---------------------------
(* A small instance of StoreBackend for TLC. *)
EXTENDS StoreBackend, TLC

=============================================================================
