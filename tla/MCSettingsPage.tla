--------------------------- MODULE MCSettingsPage ---------------------------
(* Instances of SettingsPage for TLC.                                      *)
EXTENDS SettingsPage, TLC

CONSTANTS p1, p2

Phones == {p1, p2}
PhoneSymmetry == Permutations(Phones)
=============================================================================
