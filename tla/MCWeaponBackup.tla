--------------------------- MODULE MCWeaponBackup ---------------------------
(* WeaponBackup with two addresses and two indices, which change partners  *)
(* as weapons come and go, and each of the features.                       *)
EXTENDS WeaponBackup, TLC

AllFeatures == OnlyOwn \cup ForClient
Symmetry    == Permutations(Addresses)
=============================================================================
