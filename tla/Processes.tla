----------------------------- MODULE Processes -----------------------------
(***************************************************************************)
(* The processes of one machine: each runs one program once, meets the     *)
(* others only in files and sockets, and may be killed at any moment.      *)
(***************************************************************************)
EXTENDS Naturals, Sequences

CONSTANTS
    Procs,     \* processes, in their order
    MaxFaults  \* bound on kills and disk errors

None == "none"
Absent == <<None>>  \* in place of the bytes of a file
Ended == {"done", "failed", "killed"}

VARIABLES
    program,  \* what a process runs: a record with the name of the program
    pc,       \* where it is; at first, the name of its program
    faults    \* faults so far

processVars == <<program, pc, faults>>

\* write on a file that was opened without O_APPEND: from its beginning, over
\* whatever others have put there since it was truncated.
Overwrite(old, bytes) ==
    [i \in 1..(IF Len(old) > Len(bytes) THEN Len(old) ELSE Len(bytes)) |->
        IF i <= Len(bytes) THEN bytes[i] ELSE old[i]]

\* What a write that fails or is killed may leave: a first part, or nothing.
Beginnings(old, bytes) == {Overwrite(old, SubSeq(bytes, 1, n)) : n \in 0..(Len(bytes) - 1)}

Goes(p, from, to) ==
    /\ pc[p] = from
    /\ pc' = [pc EXCEPT ![p] = to]
    /\ UNCHANGED <<program, faults>>

\* A system call of p fails.
Faulty(p, at, to) ==
    /\ pc[p] = at
    /\ faults < MaxFaults
    /\ faults' = faults + 1
    /\ pc' = [pc EXCEPT ![p] = to]
    /\ UNCHANGED program

Killed(p) ==
    /\ pc[p] \notin Ended
    /\ faults < MaxFaults
    /\ faults' = faults + 1
    /\ pc' = [pc EXCEPT ![p] = "killed"]
    /\ UNCHANGED program
=============================================================================
