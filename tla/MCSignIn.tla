------------------------------ MODULE MCSignIn ------------------------------
(* Instances of SignIn for TLC. *)
EXTENDS SignIn, TLC

CONSTANTS a1, a2, w1, w2

TwoAccounts == {a1, a2}
OneAccount == {a1}
MCSlot == {w1, w2}
Symmetry == Permutations(TwoAccounts) \cup Permutations(MCSlot)
=============================================================================
