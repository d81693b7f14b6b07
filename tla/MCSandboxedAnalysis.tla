------------------------ MODULE MCSandboxedAnalysis ------------------------
(* Instances of SandboxedAnalysis for TLC.                                 *)
EXTENDS SandboxedAnalysis

CONSTANTS t1, t2

TwoThreads == {t1, t2}
OneThread == {t1}

EmptyOrBig == {0, 2}
=============================================================================
