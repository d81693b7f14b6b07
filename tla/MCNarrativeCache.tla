------------------------- MODULE MCNarrativeCache -------------------------
(* Instances of NarrativeCache for TLC.                                    *)
EXTENDS NarrativeCache, TLC

CONSTANTS t1, t2, k1, k2, k3, k4

TwoTasks == {t1, t2}
FourKeys == {k1, k2, k3, k4}

\* Only state and action properties are checked with it.
Interchangeable == Permutations(Tasks) \cup Permutations(Keys)
=============================================================================
