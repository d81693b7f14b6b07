----------------------------- MODULE MCSandbox -----------------------------
(* Instances of Sandbox for TLC.                                           *)
EXTENDS Sandbox

CONSTANTS t1, t2, t3

ThreeThreads == {t1, t2, t3}
TwoThreads == {t1, t2}
OneThread == {t1}

AnyOutput == {0, 1, 2}
BigOutput == {2}
=============================================================================
