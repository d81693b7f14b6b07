-------------------------- MODULE MCUpdateManager --------------------------
(* Instances of UpdateManager for TLC.                                     *)
EXTENDS UpdateManager

CONSTANTS p1, r0, r1

OneProcess == {p1}
TwoReleases == {r0, r1}
=============================================================================
