------------------------------ MODULE Sandbox ------------------------------
(***************************************************************************)
(* `Sandbox::run_worker` (src/sanitization/sandbox.rs) called by several   *)
(* threads that share one Sandbox, together with the worker processes it   *)
(* starts (src/bin/worker.rs), the thread that feeds a worker's stdin and  *)
(* the pipes between them.  A thread outside Sandboxed has a Sandbox of    *)
(* its own that is not enabled.                                            *)
(*                                                                         *)
(* A thread makes one call at a time; pc[t] is the point its call is at.   *)
(* Payloads are counted in units of which a pipe holds PipeCap.  Time is   *)
(* the number of polls the wait loop has made.  Worker processes left      *)
(* running by a call that returned are only counted, in `orphans`.         *)
(***************************************************************************)
EXTENDS Naturals, FiniteSets, SeccompFilter

CONSTANTS
    Threads,        \* the threads that share the Sandbox
    Sandboxed,      \* those whose SandboxConfig.enabled is true
    MaxConcurrent,  \* SandboxConfig.max_concurrent; 0 means no semaphore
    Platform,       \* what the program was built for
    TimeoutPolls,   \* polls that fit in SandboxConfig.timeout_seconds
    InSize,         \* units of input to a worker
    OutSizes,       \* units of output a worker may produce
    PipeCap,        \* units an OS pipe buffers
    MaxOrphans      \* bound on the workers left running

ASSUME SandboxAssumption ==
    /\ IsFiniteSet(Threads)
    /\ Sandboxed \subseteq Threads
    /\ Platform \in {"linux", "macos", "windows", "other"}
    /\ MaxConcurrent \in Nat
    /\ TimeoutPolls \in Nat
    /\ InSize \in Nat
    /\ OutSizes \subseteq Nat
    /\ PipeCap \in Nat
    /\ MaxOrphans \in Nat

VARIABLES
    pc,       \* where run_worker is, per thread
    permits,  \* CountSemaphore.inner
    held,     \* does the call own a CountPermit?
    worker,   \* the child process of the call
    writer,   \* the thread that writes the child's stdin
    sent,     \* input units the writer has put in the pipe
    got,      \* input units the child has read
    output,   \* output units the child's result has
    wrote,    \* output units the child has put in its stdout pipe
    polls,    \* elapsed time of wait_with_timeout
    outcome,  \* what run_worker returns
    orphans   \* live workers no call waits for any more

\* apply_platform_sandbox: can a child get past the pre_exec hook?  What the
\* profile of macOS does is up to the system: there SpawnFails stands for it.
CanExec == Platform = "linux" => FilterLetsExec

\* apply_post_spawn_sandbox exists on Windows only.
PostSpawn == Platform = "windows"

callVars == <<pc, permits, held, outcome>>
pipeVars == <<writer, sent, got, output, wrote>>
vars == <<pc, permits, held, worker, writer, sent, got, output, wrote,
          polls, outcome, orphans>>

LiveStates == {"reading", "computing", "writing"}
DeadStates == {"exited", "failed", "crashed", "killed"}
Live(t) == worker[t] \in LiveStates

Errors == {"refused", "spawn_error", "job_error", "timeout", "wait_error",
           "collect_error", "worker_failed"}

Init ==
    /\ pc = [t \in Threads |-> "idle"]
    /\ permits = MaxConcurrent
    /\ held = [t \in Threads |-> FALSE]
    /\ worker = [t \in Threads |-> "none"]
    /\ writer = [t \in Threads |-> "none"]
    /\ sent = [t \in Threads |-> 0]
    /\ got = [t \in Threads |-> 0]
    /\ output = [t \in Threads |-> 0]
    /\ wrote = [t \in Threads |-> 0]
    /\ polls = [t \in Threads |-> 0]
    /\ outcome = [t \in Threads |-> "none"]
    /\ orphans = 0

-----------------------------------------------------------------------------
(* The call: permit, spawn, job object.                                    *)

\* run_worker leaves with result r; the permit is dropped by Return.
Finish(t, r) ==
    /\ pc' = [pc EXCEPT ![t] = "return"]
    /\ outcome' = [outcome EXCEPT ![t] = r]

\* A disabled sandbox hands the input back.
Disabled(t) ==
    /\ pc[t] = "idle"
    /\ t \notin Sandboxed
    /\ Finish(t, "input")
    /\ UNCHANGED <<permits, held, worker, polls, orphans, pipeVars>>

\* Slip: acquire looks at the count and does not decrement it.
AcquireNoDecrement(t) ==
    /\ pc[t] = "idle"
    /\ t \in Sandboxed
    /\ permits > 0
    /\ held' = [held EXCEPT ![t] = TRUE]
    /\ pc' = [pc EXCEPT ![t] = "spawn"]
    /\ UNCHANGED <<permits, outcome, worker, polls, orphans, pipeVars>>

\* CountSemaphore::acquire never waits: without a permit the call fails.
Acquire(t) ==
    /\ pc[t] = "idle"
    /\ t \in Sandboxed
    /\ \/ /\ MaxConcurrent = 0
          /\ pc' = [pc EXCEPT ![t] = "spawn"]
          /\ UNCHANGED <<permits, held, outcome>>
       \/ /\ MaxConcurrent > 0
          /\ permits > 0
          /\ permits' = permits - 1
          /\ held' = [held EXCEPT ![t] = TRUE]
          /\ pc' = [pc EXCEPT ![t] = "spawn"]
          /\ UNCHANGED outcome
       \/ /\ MaxConcurrent > 0
          /\ permits = 0
          /\ Finish(t, "refused")
          /\ UNCHANGED <<permits, held>>
    /\ UNCHANGED <<worker, polls, orphans, pipeVars>>

SpawnFails(t) ==
    /\ pc[t] = "spawn"
    /\ Finish(t, "spawn_error")
    /\ UNCHANGED <<permits, held, worker, polls, orphans, pipeVars>>

\* The writer thread is started at once, except where the job object comes
\* between the spawn and it.
Spawn(t) ==
    /\ pc[t] = "spawn"
    /\ CanExec
    /\ worker' = [worker EXCEPT ![t] = "reading"]
    /\ pc' = [pc EXCEPT ![t] = IF PostSpawn THEN "job" ELSE "polling"]
    /\ writer' = [writer EXCEPT ![t] = IF PostSpawn THEN "none" ELSE "writing"]
    /\ UNCHANGED <<permits, held, outcome, sent, got, output, wrote, polls,
                   orphans>>

AssignJob(t) ==
    /\ pc[t] = "job"
    /\ pc' = [pc EXCEPT ![t] = "polling"]
    /\ writer' = [writer EXCEPT ![t] = "writing"]
    /\ UNCHANGED <<permits, held, outcome, worker, sent, got, output, wrote,
                   polls, orphans>>

\* The `?` on apply_post_spawn_sandbox drops the Child without a kill.
AssignJobFails(t) ==
    /\ pc[t] = "job"
    /\ Live(t) => orphans < MaxOrphans
    /\ orphans' = IF Live(t) THEN orphans + 1 ELSE orphans
    /\ worker' = [worker EXCEPT ![t] = "none"]
    /\ Finish(t, "job_error")
    /\ UNCHANGED <<permits, held, polls, pipeVars>>

-----------------------------------------------------------------------------
(* wait_with_timeout and the end of run_worker.                            *)

\* try_wait: the child still runs.
SeesRunning(t) ==
    /\ pc[t] = "polling"
    /\ Live(t)
    /\ pc' = [pc EXCEPT ![t] = "running"]
    /\ UNCHANGED <<permits, held, outcome, worker, polls, orphans, pipeVars>>

Sleep(t) ==
    /\ pc[t] = "running"
    /\ polls[t] < TimeoutPolls
    /\ polls' = [polls EXCEPT ![t] = @ + 1]
    /\ pc' = [pc EXCEPT ![t] = "polling"]
    /\ UNCHANGED <<permits, held, outcome, worker, orphans, pipeVars>>

\* Slip: the timeout path returns without child.kill().
TimeoutNoKill(t) ==
    /\ pc[t] = "running"
    /\ polls[t] >= TimeoutPolls
    /\ Finish(t, "timeout")
    /\ UNCHANGED <<permits, held, worker, polls, orphans, pipeVars>>

\* kill and wait: the child is gone afterwards, even if it had just finished.
Kill(t) ==
    /\ pc[t] = "running"
    /\ polls[t] >= TimeoutPolls
    /\ worker' = [worker EXCEPT ![t] = IF Live(t) THEN "killed" ELSE @]
    /\ Finish(t, "timeout")
    /\ UNCHANGED <<permits, held, polls, orphans, pipeVars>>

\* try_wait itself fails: the call returns and the child is left alone.
WaitFails(t) ==
    /\ pc[t] = "polling"
    /\ Live(t) => orphans < MaxOrphans
    /\ orphans' = IF Live(t) THEN orphans + 1 ELSE orphans
    /\ worker' = [worker EXCEPT ![t] = "none"]
    /\ writer' = [writer EXCEPT ![t] = "none"]
    /\ Finish(t, "wait_error")
    /\ UNCHANGED <<permits, held, polls, sent, got, output, wrote>>

SeesExit(t) ==
    /\ pc[t] = "polling"
    /\ worker[t] \in DeadStates
    /\ pc' = [pc EXCEPT ![t] = "collect"]
    /\ UNCHANGED <<permits, held, outcome, worker, polls, orphans, pipeVars>>

\* wait_with_output reads what the dead child left in its pipes.
Collect(t) ==
    /\ pc[t] = "collect"
    /\ \/ pc' = [pc EXCEPT ![t] = "join"] /\ UNCHANGED outcome
       \/ Finish(t, "collect_error")
    /\ UNCHANGED <<permits, held, worker, polls, orphans, pipeVars>>

\* Slip: output.status is not looked at.
JoinAnyStatus(t) ==
    /\ pc[t] = "join"
    /\ writer[t] = "done"
    /\ Finish(t, "output")
    /\ UNCHANGED <<permits, held, worker, polls, orphans, pipeVars>>

Join(t) ==
    /\ pc[t] = "join"
    /\ writer[t] = "done"
    /\ Finish(t, IF worker[t] = "exited" THEN "output" ELSE "worker_failed")
    /\ UNCHANGED <<permits, held, worker, polls, orphans, pipeVars>>

\* Slip: the permit is given back on success only.
ReturnKeepsPermit(t) ==
    /\ pc[t] = "return"
    /\ pc' = [pc EXCEPT ![t] = "done"]
    /\ permits' = IF held[t] /\ outcome[t] = "output" THEN permits + 1 ELSE permits
    /\ held' = [held EXCEPT ![t] = FALSE]
    /\ UNCHANGED <<outcome, worker, polls, orphans, pipeVars>>

\* Slip: every return increments the count, with or without a permit.
ReturnAlwaysReleases(t) ==
    /\ pc[t] = "return"
    /\ pc' = [pc EXCEPT ![t] = "done"]
    /\ permits' = permits + 1
    /\ held' = [held EXCEPT ![t] = FALSE]
    /\ UNCHANGED <<outcome, worker, polls, orphans, pipeVars>>

\* Drop for CountPermit.
Return(t) ==
    /\ pc[t] = "return"
    /\ pc' = [pc EXCEPT ![t] = "done"]
    /\ permits' = IF ~held[t] THEN permits
                  ELSE IF permits + 1 > MaxConcurrent THEN MaxConcurrent
                  ELSE permits + 1
    /\ held' = [held EXCEPT ![t] = FALSE]
    /\ UNCHANGED <<outcome, worker, polls, orphans, pipeVars>>

\* The caller has used the result; the thread may call run_worker again.
Reset(t) ==
    /\ pc[t] = "done"
    /\ pc' = [pc EXCEPT ![t] = "idle"]
    /\ outcome' = [outcome EXCEPT ![t] = "none"]
    /\ worker' = [worker EXCEPT ![t] = "none"]
    /\ writer' = [writer EXCEPT ![t] = "none"]
    /\ sent' = [sent EXCEPT ![t] = 0]
    /\ got' = [got EXCEPT ![t] = 0]
    /\ output' = [output EXCEPT ![t] = 0]
    /\ wrote' = [wrote EXCEPT ![t] = 0]
    /\ polls' = [polls EXCEPT ![t] = 0]
    /\ UNCHANGED <<permits, held, orphans>>

Thread(t) ==
    \/ Disabled(t) \/ Acquire(t) \/ SpawnFails(t) \/ Spawn(t)
    \/ AssignJob(t) \/ AssignJobFails(t)
    \/ SeesRunning(t) \/ Sleep(t) \/ Kill(t) \/ WaitFails(t)
    \/ SeesExit(t) \/ Collect(t) \/ Join(t) \/ Return(t)

-----------------------------------------------------------------------------
(* The writer thread: write_all, flush, close.  A dead reader ends it.     *)

WriteUnit(t) ==
    /\ writer[t] = "writing"
    /\ sent[t] < InSize
    /\ Live(t)
    /\ sent[t] - got[t] < PipeCap
    /\ sent' = [sent EXCEPT ![t] = @ + 1]
    /\ UNCHANGED <<callVars, worker, writer, got, output, wrote, polls, orphans>>

\* Slip: a broken pipe does not end the writer (write errors are retried).
CloseStdinAfterAll(t) ==
    /\ writer[t] = "writing"
    /\ sent[t] = InSize
    /\ writer' = [writer EXCEPT ![t] = "done"]
    /\ UNCHANGED <<callVars, worker, sent, got, output, wrote, polls, orphans>>

CloseStdin(t) ==
    /\ writer[t] = "writing"
    /\ sent[t] = InSize \/ ~Live(t)
    /\ writer' = [writer EXCEPT ![t] = "done"]
    /\ UNCHANGED <<callVars, worker, sent, got, output, wrote, polls, orphans>>

Writer(t) == WriteUnit(t) \/ CloseStdin(t)

-----------------------------------------------------------------------------
(* The worker process: main of src/bin/worker.rs.                          *)

ReadUnit(t) ==
    /\ worker[t] = "reading"
    /\ got[t] < sent[t]
    /\ got' = [got EXCEPT ![t] = @ + 1]
    /\ UNCHANGED <<callVars, worker, writer, sent, output, wrote, polls, orphans>>

\* read_to_end returns when the writer has closed the pipe.
ReadEof(t) ==
    /\ worker[t] = "reading"
    /\ writer[t] = "done"
    /\ got[t] = sent[t]
    /\ worker' = [worker EXCEPT ![t] = "computing"]
    /\ UNCHANGED <<callVars, pipeVars, polls, orphans>>

Compute(t) ==
    /\ worker[t] = "computing"
    /\ \/ /\ worker' = [worker EXCEPT ![t] = "writing"]
          /\ \E n \in OutSizes : output' = [output EXCEPT ![t] = n]
       \/ /\ worker' = [worker EXCEPT ![t] = "failed"]
          /\ UNCHANGED output
    /\ UNCHANGED <<callVars, writer, sent, got, wrote, polls, orphans>>

\* Nobody reads the stdout pipe while the child lives.
WriteOutput(t) ==
    /\ worker[t] = "writing"
    /\ wrote[t] < output[t]
    /\ wrote[t] < PipeCap
    /\ wrote' = [wrote EXCEPT ![t] = @ + 1]
    /\ UNCHANGED <<callVars, worker, writer, sent, got, output, polls, orphans>>

Exit(t) ==
    /\ worker[t] = "writing"
    /\ wrote[t] = output[t]
    /\ worker' = [worker EXCEPT ![t] = "exited"]
    /\ UNCHANGED <<callVars, pipeVars, polls, orphans>>

\* A panic, a signal or the memory limit.
Crash(t) ==
    /\ Live(t)
    /\ worker' = [worker EXCEPT ![t] = "crashed"]
    /\ UNCHANGED <<callVars, pipeVars, polls, orphans>>

Worker(t) ==
    ReadUnit(t) \/ ReadEof(t) \/ Compute(t) \/ WriteOutput(t) \/ Exit(t) \/ Crash(t)

\* A worker nobody waits for ends on its own, at the latest on a broken pipe.
OrphanExits ==
    /\ orphans > 0
    /\ orphans' = orphans - 1
    /\ UNCHANGED <<callVars, worker, pipeVars, polls>>

Next ==
    \/ \E t \in Threads : Thread(t) \/ Reset(t) \/ Writer(t) \/ Worker(t)
    \/ OrphanExits

Spec == Init /\ [][Next]_vars

-----------------------------------------------------------------------------
(* Properties.                                                             *)

Points == {"idle", "spawn", "job", "polling", "running", "collect", "join",
           "return", "done"}

Outcomes == {"none", "input", "output"} \cup Errors

\* The type invariant: run_worker's locals and the shared permit count.
TypeOK ==
    /\ pc \in [Threads -> Points]
    /\ permits \in 0..MaxConcurrent
    /\ held \in [Threads -> BOOLEAN]
    /\ worker \in [Threads -> {"none"} \cup LiveStates \cup DeadStates]
    /\ writer \in [Threads -> {"none", "writing", "done"}]
    /\ sent \in [Threads -> Nat]
    /\ got \in [Threads -> Nat]
    /\ output \in [Threads -> Nat]
    /\ wrote \in [Threads -> Nat]
    /\ polls \in [Threads -> Nat]
    /\ outcome \in [Threads -> Outcomes]
    /\ orphans \in Nat

Holders == {t \in Threads : held[t]}

\* No permit is lost or made up on any of the early returns of run_worker:
\* those in the semaphore and those owned by calls add up to its capacity.
PermitsConserved ==
    MaxConcurrent > 0 => permits + Cardinality(Holders) = MaxConcurrent

\* At no moment are more than max_concurrent workers running under a call,
\* whatever way earlier calls ended.
WorkersBounded ==
    MaxConcurrent > 0 => Cardinality({t \in Threads : Live(t)}) <= MaxConcurrent

\* A call that has returned left no worker running, unless it returned by one
\* of the two paths that drop the Child without a kill.
NoWorkerOutlivesItsCall ==
    \A t \in Threads : pc[t] \in {"return", "done", "idle"} => ~Live(t)

\* run_worker returns Ok only with the whole output of a worker that saw the
\* whole input and exited with status 0: no truncated result is ever passed
\* on, however the writer thread, the worker and the wait loop interleave.
OutputIsComplete ==
    \A t \in Threads : outcome[t] = "output" =>
        worker[t] = "exited" /\ got[t] = InSize /\ wrote[t] = output[t]

\* The comment on the writer thread (sandbox.rs:151): it is there "to avoid
\* deadlock if the worker's stdout buffer fills up".  So no worker should be
\* stuck with output left, a full stdout pipe and a parent that only polls.
NoPipeDeadlock ==
    \A t \in Threads :
        ~ /\ worker[t] = "writing"
          /\ wrote[t] = PipeCap
          /\ wrote[t] < output[t]

AnswerOf(r) ==
    IF r = "none" THEN "none" ELSE IF r = "output" THEN "ok" ELSE "error"

SlotAnswer == [t \in Sandboxed |-> AnswerOf(outcome[t])]

\* What a caller may rely on: the sandbox is a set of MaxConcurrent slots.
Slots == INSTANCE WorkerSlots WITH
    Threads <- Sandboxed, Slots <- MaxConcurrent, busy <- Holders, answer <- SlotAnswer

\* With a semaphore, run_worker implements WorkerSlots: a call is refused only
\* while every slot is taken, and a slot is held from the permit until after
\* the result is there.
ImplementsSlots == Slots!Spec
=============================================================================
