------------------------ MODULE MCRecursiveAnalyzer ------------------------
(* Instances of RecursiveAnalyzer for TLC.                                 *)
EXTENDS RecursiveAnalyzer

CONSTANTS b1, b2, b3

ThreeBlobs == {b1, b2, b3}
TwoBlobs == {b1, b2}
\* 0: empty; 1 to 2: within both limits of 2 and 3; 1 to 3: beyond the first;
\* 1 to 4: beyond both.
FourLengths == {0, 1, 3, 4}
ShortTimes == {0, 1}
=============================================================================
