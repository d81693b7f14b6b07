--------------------------- MODULE SeccompFilter ---------------------------
(***************************************************************************)
(* The filter program of install_seccomp_blacklist                         *)
(* (src/sanitization/sandbox.rs), which the pre_exec hook of Linux         *)
(* installs in the child before exec: a load of the syscall number, one    *)
(* comparison for each blocked syscall, "allow" and "kill".  Both tables   *)
(* (x86_64 and aarch64) block the same syscalls, known here by name.       *)
(***************************************************************************)
EXTENDS Naturals, Sequences

Blocked == <<"clone", "fork", "vfork", "execve", "kill", "tgkill", "execveat", "clone3",
             "socket", "connect", "bind", "listen", "accept", "accept4", "ptrace",
             "personality", "init_module", "finit_module", "delete_module",
             "process_vm_readv", "process_vm_writev", "iopl", "ioperm">>

Instruction(op, jt, call) == [op |-> op, jt |-> jt, call |-> call]

\* kill_offset: a u8, and the same for every comparison.
KillOffset(calls) == (Len(calls) + 1) % 256

\* Instruction 1 loads; 2 to n+1 compare; n+2 allows; n+3 kills.
Program(calls) ==
    [i \in 1..(Len(calls) + 3) |->
        IF i = 1 THEN Instruction("load", 0, "none")
        ELSE IF i <= Len(calls) + 1 THEN Instruction("jeq", KillOffset(calls), calls[i - 1])
        ELSE Instruction(IF i = Len(calls) + 2 THEN "allow" ELSE "kill", 0, "none")]

\* A jump is relative to the next instruction.
Target(program, i) == i + 1 + program[i].jt

Comparisons(program) == {i \in DOMAIN program : program[i].op = "jeq"}

\* The kernel takes a program only if no jump leaves it.
Accepted(program) == \A i \in Comparisons(program) : Target(program, i) \in DOMAIN program

\* What an accepted program says of a syscall.
Verdict(program, call) ==
    LET hits == {i \in Comparisons(program) : program[i].call = call} IN
    IF hits = {} THEN "allow"
    ELSE program[Target(program, CHOOSE i \in hits : \A j \in hits : i <= j)].op

\* The hook succeeds if the filter is installed, and exec comes after it.
FilterLetsExec ==
    /\ Accepted(Program(Blocked))
    /\ Verdict(Program(Blocked), "execve") = "allow"
=============================================================================
