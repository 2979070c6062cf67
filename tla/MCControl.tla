------------------------------ MODULE MCControl ------------------------------
(* Instances of Control for TLC. *)
EXTENDS Control, TLC

CONSTANTS a1, a2, p1, p2, r1, r2

TwoAccounts == {a1, a2}
OneAccount == {a1}
TwoSwitches == {p1, p2}
OneSwitch == {p1}
TwoWipes == {r1, r2}
OneWipe == {r1}
Symmetry == Permutations(TwoAccounts) \cup Permutations(TwoSwitches)
              \cup Permutations(TwoWipes)
=============================================================================
