---------------------------- MODULE MCSetupPage ----------------------------
(* Instances of SetupPage for TLC. *)
EXTENDS SetupPage

CONSTANTS t1, loopback, published

OneTab == {t1}
TwoNames == {loopback, published}
Loopback == {loopback}
SomeReports == {"awaiting_totp", "setting_mode"}
ChallengeReports == {"awaiting_human_verification"}
=============================================================================
