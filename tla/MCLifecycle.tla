----------------------------- MODULE MCLifecycle -----------------------------
(* The instance of Lifecycle for TLC: IMAP and SMTP. *)
EXTENDS Lifecycle
=============================================================================
