--------------------------- MODULE MCProtonLogin ---------------------------
(* An instance of ProtonLogin for TLC. *)
EXTENDS ProtonLogin
=============================================================================
