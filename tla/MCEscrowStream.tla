--------------------------- MODULE MCEscrowStream ---------------------------
(***************************************************************************)
(* Bounds of the escrow run: two batches with up to two e-mails, six       *)
(* records, all references and keys from two values.                       *)
(***************************************************************************)
EXTENDS EscrowStream
=============================================================================
