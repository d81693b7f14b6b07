--------------------------- MODULE RegistryStore ---------------------------
(***************************************************************************)
(* What UpdateManager promises of the two registry files when its commands *)
(* run one at a time: a store with a current registry and one that is      *)
(* kept.  Each change is a single step.  The current registry is replaced  *)
(* only when it is also the kept one, and so can be had back; a copy that  *)
(* is cut short costs the file it was to fill and not the other.  What it  *)
(* does not promise: that the one kept before survives the next Keep.      *)
(***************************************************************************)
CONSTANT Releases

VARIABLES current, kept

Init ==
    /\ current \in Releases \cup {"absent"}
    /\ kept = "absent"

Covered == current = "absent" \/ kept = current

Keep ==
    /\ current # "absent"
    /\ kept' = current
    /\ UNCHANGED current

Replace ==
    /\ Covered
    /\ current' \in Releases
    /\ UNCHANGED kept

Restore ==
    /\ kept # "absent"
    /\ current' = kept
    /\ UNCHANGED kept

\* The copy to the kept file is cut short: the current one is what it held.
LoseKept ==
    /\ current # "absent"
    /\ kept = current
    /\ kept' = "torn"
    /\ UNCHANGED current

\* The copy to the current file is cut short, in a replacement or a rollback:
\* what it held, or was to hold, is the kept one.
LoseCurrent ==
    /\ current = "absent" \/ kept # "absent"
    /\ current' = "torn"
    /\ UNCHANGED kept

Next == Keep \/ Replace \/ Restore \/ LoseKept \/ LoseCurrent

Spec == Init /\ [][Next]_<<current, kept>>
=============================================================================
