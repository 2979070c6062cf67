------------------------------ MODULE MCSession ------------------------------
(* Instances of Session for TLC. *)
EXTENDS Session

CONSTANTS c1, c2, u1, u2

MCClient == {c1, c2}
MCUser == {u1, u2}
OneUser == {u1}
=============================================================================
