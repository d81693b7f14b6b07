--------------------------- MODULE Sandbox_proofs ---------------------------
(***************************************************************************)
(* Proofs about Sandbox, for every number of threads, every semaphore      *)
(* capacity and every payload size.  IInv is the inductive invariant: what *)
(* the control point of a call says about its permit, its worker, its      *)
(* writer thread and its pipes.                                            *)
(***************************************************************************)
EXTENDS Sandbox, FiniteSetTheorems, TLAPS

\* Every point of run_worker after the permit and before the last return.
Inside == {"spawn", "job", "polling", "running", "collect", "join"}

\* A permit is owned from Acquire to Return, if there is a semaphore at all.
PermitInv ==
    \A t \in Threads :
        /\ pc[t] \in Inside => t \in Sandboxed /\ outcome[t] = "none"
        /\ pc[t] \in Inside /\ MaxConcurrent > 0 => held[t]
        /\ held[t] => pc[t] \in Inside \cup {"return"} /\ t \in Sandboxed
        /\ outcome[t] = "refused" => ~held[t]
        /\ pc[t] = "idle" => outcome[t] = "none"
        /\ pc[t] \in {"return", "done"} => outcome[t] # "none"

\* A worker runs only between the spawn and the point where its call learns
\* that it is gone.
WorkerInv ==
    \A t \in Threads :
        /\ pc[t] \in {"idle", "spawn"} => worker[t] = "none"
        /\ pc[t] \in {"job", "polling", "running"} =>
               worker[t] \in LiveStates \cup DeadStates
        /\ pc[t] \in {"collect", "join"} => worker[t] \in DeadStates
        /\ pc[t] \in {"return", "done"} => ~Live(t)

\* The pipes: nothing is read that was not written, and a worker that has
\* seen the end of its input has seen all of it.
PipeInv ==
    \A t \in Threads :
        /\ pc[t] \in {"idle", "spawn"} =>
               /\ writer[t] = "none"
               /\ sent[t] = 0 /\ got[t] = 0 /\ output[t] = 0 /\ wrote[t] = 0
        /\ got[t] <= sent[t] /\ sent[t] <= InSize
        /\ writer[t] = "done" /\ Live(t) => sent[t] = InSize
        /\ worker[t] \in {"computing", "writing", "exited"} => got[t] = InSize
        /\ worker[t] = "exited" => wrote[t] = output[t]

IInv ==
    /\ TypeOK
    /\ PermitInv
    /\ WorkerInv
    /\ PipeInv
    /\ OutputIsComplete
    /\ PermitsConserved

-----------------------------------------------------------------------------
(* Type correctness.                                                       *)

LEMMA TypeInit == Init => TypeOK
  BY SandboxAssumption DEF Init, TypeOK, Points, Outcomes

\* run_worker's local state and the permit count keep their types in every
\* step; in particular the count never leaves 0..max.
LEMMA TypeStep == TypeOK /\ [Next]_vars => TypeOK'
<1> SUFFICES ASSUME TypeOK, [Next]_vars PROVE TypeOK'
  OBVIOUS
<1> USE SandboxAssumption DEF TypeOK, Points, Outcomes, Errors, LiveStates, DeadStates,
        callVars, pipeVars
<1>1. ASSUME NEW t \in Threads, Thread(t) PROVE TypeOK'
  <2>1. CASE Disabled(t)  BY <2>1 DEF Disabled, Finish
  <2>2. CASE Acquire(t)
    <3>1. permits' \in 0..MaxConcurrent  BY <2>2 DEF Acquire, Finish
    <3>2. held' \in [Threads -> BOOLEAN]  BY <2>2, Zenon DEF Acquire
    <3>3. pc' \in [Threads -> Points] /\ outcome' \in [Threads -> Outcomes]
      BY <2>2 DEF Acquire, Finish
    <3> QED  BY <2>2, <3>1, <3>2, <3>3 DEF Acquire
  <2>3. CASE SpawnFails(t)  BY <2>3 DEF SpawnFails, Finish
  <2>4. CASE Spawn(t)  BY <2>4 DEF Spawn
  <2>5. CASE AssignJob(t)  BY <2>5 DEF AssignJob
  <2>6. CASE AssignJobFails(t)  BY <2>6 DEF AssignJobFails, Finish
  <2>7. CASE SeesRunning(t)  BY <2>7 DEF SeesRunning
  <2>8. CASE Sleep(t)  BY <2>8 DEF Sleep
  <2>9. CASE Kill(t)  BY <2>9 DEF Kill, Finish
  <2>10. CASE WaitFails(t)  BY <2>10 DEF WaitFails, Finish
  <2>11. CASE SeesExit(t)  BY <2>11 DEF SeesExit
  <2>12. CASE Collect(t)  BY <2>12 DEF Collect, Finish
  <2>13. CASE Join(t)  BY <2>13 DEF Join, Finish
  <2>14. CASE Return(t)  BY <2>14 DEF Return
  <2> QED
    BY <1>1, <2>1, <2>2, <2>3, <2>4, <2>5, <2>6, <2>7, <2>8, <2>9, <2>10, <2>11, <2>12,
       <2>13, <2>14 DEF Thread
<1>2. ASSUME NEW t \in Threads, Reset(t) PROVE TypeOK'
  BY <1>2 DEF Reset
<1>3. ASSUME NEW t \in Threads, Writer(t) PROVE TypeOK'
  BY <1>3 DEF Writer, WriteUnit, CloseStdin
<1>4. ASSUME NEW t \in Threads, Worker(t) PROVE TypeOK'
  <2>1. CASE ReadUnit(t)  BY <2>1 DEF ReadUnit
  <2>2. CASE ReadEof(t)  BY <2>2 DEF ReadEof
  <2>3. CASE Compute(t)  BY <2>3 DEF Compute
  <2>4. CASE WriteOutput(t)  BY <2>4 DEF WriteOutput
  <2>5. CASE Exit(t)  BY <2>5 DEF Exit
  <2>6. CASE Crash(t)  BY <2>6 DEF Crash
  <2> QED  BY <1>4, <2>1, <2>2, <2>3, <2>4, <2>5, <2>6 DEF Worker
<1>5. CASE OrphanExits
  BY <1>5 DEF OrphanExits
<1>6. CASE UNCHANGED vars
  BY <1>6 DEF vars
<1> QED
  BY <1>1, <1>2, <1>3, <1>4, <1>5, <1>6 DEF Next

\* Type correctness: the permit count stays within 0..max_concurrent and each
\* call at a point of run_worker, for every value of the constants.
THEOREM TypeCorrect == Spec => []TypeOK
<1> QED  BY TypeInit, TypeStep, PTL DEF Spec

-----------------------------------------------------------------------------
\* The permit of a call, on every path through run_worker.

LEMMA PermitStep == TypeOK /\ PermitInv /\ [Next]_vars => PermitInv'
<1> SUFFICES ASSUME TypeOK, PermitInv, [Next]_vars PROVE PermitInv'
  OBVIOUS
<1> USE SandboxAssumption DEF TypeOK, Points, Outcomes, Errors, LiveStates, DeadStates,
        Live, callVars, pipeVars, Inside, PermitInv
<1>1. ASSUME NEW t \in Threads, Thread(t) PROVE PermitInv'
  <2>1. CASE Disabled(t)  BY <2>1 DEF Disabled, Finish
  <2>2. CASE Acquire(t)  BY <2>2 DEF Acquire, Finish
  <2>3. CASE SpawnFails(t)  BY <2>3 DEF SpawnFails, Finish
  <2>4. CASE Spawn(t)  BY <2>4 DEF Spawn
  <2>5. CASE AssignJob(t)  BY <2>5 DEF AssignJob
  <2>6. CASE AssignJobFails(t)  BY <2>6 DEF AssignJobFails, Finish
  <2>7. CASE SeesRunning(t)  BY <2>7 DEF SeesRunning
  <2>8. CASE Sleep(t)  BY <2>8 DEF Sleep
  <2>9. CASE Kill(t)  BY <2>9 DEF Kill, Finish
  <2>10. CASE WaitFails(t)  BY <2>10 DEF WaitFails, Finish
  <2>11. CASE SeesExit(t)  BY <2>11 DEF SeesExit
  <2>12. CASE Collect(t)  BY <2>12 DEF Collect, Finish
  <2>13. CASE Join(t)  BY <2>13 DEF Join, Finish
  <2>14. CASE Return(t)  BY <2>14 DEF Return
  <2> QED
    BY <1>1, <2>1, <2>2, <2>3, <2>4, <2>5, <2>6, <2>7, <2>8, <2>9, <2>10, <2>11, <2>12,
       <2>13, <2>14 DEF Thread
<1>2. ASSUME NEW t \in Threads, Reset(t) PROVE PermitInv'
  BY <1>2 DEF Reset
<1>3. ASSUME NEW t \in Threads, Writer(t) PROVE PermitInv'
  <2>1. CASE WriteUnit(t)  BY <2>1 DEF WriteUnit
  <2>2. CASE CloseStdin(t)  BY <2>2 DEF CloseStdin
  <2> QED  BY <1>3, <2>1, <2>2 DEF Writer
<1>4. ASSUME NEW t \in Threads, Worker(t) PROVE PermitInv'
  <2>1. CASE ReadUnit(t)  BY <2>1 DEF ReadUnit
  <2>2. CASE ReadEof(t)  BY <2>2 DEF ReadEof
  <2>3. CASE Compute(t)  BY <2>3 DEF Compute
  <2>4. CASE WriteOutput(t)  BY <2>4 DEF WriteOutput
  <2>5. CASE Exit(t)  BY <2>5 DEF Exit
  <2>6. CASE Crash(t)  BY <2>6 DEF Crash
  <2> QED  BY <1>4, <2>1, <2>2, <2>3, <2>4, <2>5, <2>6 DEF Worker
<1>5. CASE OrphanExits
  BY <1>5 DEF OrphanExits
<1>6. CASE UNCHANGED vars
  BY <1>6 DEF vars
<1> QED
  BY <1>1, <1>2, <1>3, <1>4, <1>5, <1>6 DEF Next

-----------------------------------------------------------------------------
\* The worker of a call.

LEMMA WorkerStep == TypeOK /\ WorkerInv /\ [Next]_vars => WorkerInv'
<1> SUFFICES ASSUME TypeOK, WorkerInv, [Next]_vars PROVE WorkerInv'
  OBVIOUS
<1> USE SandboxAssumption DEF TypeOK, Points, Outcomes, Errors, LiveStates, DeadStates,
        Live, callVars, pipeVars, Inside, WorkerInv
<1>1. ASSUME NEW t \in Threads, Thread(t) PROVE WorkerInv'
  <2>1. CASE Disabled(t)  BY <2>1 DEF Disabled, Finish
  <2>2. CASE Acquire(t)  BY <2>2 DEF Acquire, Finish
  <2>3. CASE SpawnFails(t)  BY <2>3 DEF SpawnFails, Finish
  <2>4. CASE Spawn(t)  BY <2>4 DEF Spawn
  <2>5. CASE AssignJob(t)  BY <2>5 DEF AssignJob
  <2>6. CASE AssignJobFails(t)  BY <2>6 DEF AssignJobFails, Finish
  <2>7. CASE SeesRunning(t)  BY <2>7 DEF SeesRunning
  <2>8. CASE Sleep(t)  BY <2>8 DEF Sleep
  <2>9. CASE Kill(t)  BY <2>9 DEF Kill, Finish
  <2>10. CASE WaitFails(t)  BY <2>10 DEF WaitFails, Finish
  <2>11. CASE SeesExit(t)  BY <2>11 DEF SeesExit
  <2>12. CASE Collect(t)  BY <2>12 DEF Collect, Finish
  <2>13. CASE Join(t)  BY <2>13 DEF Join, Finish
  <2>14. CASE Return(t)  BY <2>14 DEF Return
  <2> QED
    BY <1>1, <2>1, <2>2, <2>3, <2>4, <2>5, <2>6, <2>7, <2>8, <2>9, <2>10, <2>11, <2>12,
       <2>13, <2>14 DEF Thread
<1>2. ASSUME NEW t \in Threads, Reset(t) PROVE WorkerInv'
  BY <1>2 DEF Reset
<1>3. ASSUME NEW t \in Threads, Writer(t) PROVE WorkerInv'
  <2>1. CASE WriteUnit(t)  BY <2>1 DEF WriteUnit
  <2>2. CASE CloseStdin(t)  BY <2>2 DEF CloseStdin
  <2> QED  BY <1>3, <2>1, <2>2 DEF Writer
<1>4. ASSUME NEW t \in Threads, Worker(t) PROVE WorkerInv'
  <2>1. CASE ReadUnit(t)  BY <2>1 DEF ReadUnit
  <2>2. CASE ReadEof(t)  BY <2>2 DEF ReadEof
  <2>3. CASE Compute(t)  BY <2>3 DEF Compute
  <2>4. CASE WriteOutput(t)  BY <2>4 DEF WriteOutput
  <2>5. CASE Exit(t)  BY <2>5 DEF Exit
  <2>6. CASE Crash(t)  BY <2>6 DEF Crash
  <2> QED  BY <1>4, <2>1, <2>2, <2>3, <2>4, <2>5, <2>6 DEF Worker
<1>5. CASE OrphanExits
  BY <1>5 DEF OrphanExits
<1>6. CASE UNCHANGED vars
  BY <1>6 DEF vars
<1> QED
  BY <1>1, <1>2, <1>3, <1>4, <1>5, <1>6 DEF Next

-----------------------------------------------------------------------------
\* The pipes of a call.

LEMMA PipeStep == TypeOK /\ WorkerInv /\ PipeInv /\ [Next]_vars => PipeInv'
<1> SUFFICES ASSUME TypeOK, WorkerInv, PipeInv, [Next]_vars PROVE PipeInv'
  OBVIOUS
<1> USE SandboxAssumption DEF TypeOK, Points, Outcomes, Errors, LiveStates, DeadStates,
        Live, callVars, pipeVars, Inside, WorkerInv, PipeInv
<1>1. ASSUME NEW t \in Threads, Thread(t) PROVE PipeInv'
  <2>1. CASE Disabled(t)  BY <2>1 DEF Disabled, Finish
  <2>2. CASE Acquire(t)  BY <2>2 DEF Acquire, Finish
  <2>3. CASE SpawnFails(t)  BY <2>3 DEF SpawnFails, Finish
  <2>4. CASE Spawn(t)  BY <2>4 DEF Spawn
  <2>5. CASE AssignJob(t)  BY <2>5 DEF AssignJob
  <2>6. CASE AssignJobFails(t)  BY <2>6 DEF AssignJobFails, Finish
  <2>7. CASE SeesRunning(t)  BY <2>7 DEF SeesRunning
  <2>8. CASE Sleep(t)  BY <2>8 DEF Sleep
  <2>9. CASE Kill(t)  BY <2>9 DEF Kill, Finish
  <2>10. CASE WaitFails(t)  BY <2>10 DEF WaitFails, Finish
  <2>11. CASE SeesExit(t)  BY <2>11 DEF SeesExit
  <2>12. CASE Collect(t)  BY <2>12 DEF Collect, Finish
  <2>13. CASE Join(t)  BY <2>13 DEF Join, Finish
  <2>14. CASE Return(t)  BY <2>14 DEF Return
  <2> QED
    BY <1>1, <2>1, <2>2, <2>3, <2>4, <2>5, <2>6, <2>7, <2>8, <2>9, <2>10, <2>11, <2>12,
       <2>13, <2>14 DEF Thread
<1>2. ASSUME NEW t \in Threads, Reset(t) PROVE PipeInv'
  BY <1>2 DEF Reset
<1>3. ASSUME NEW t \in Threads, Writer(t) PROVE PipeInv'
  <2>1. CASE WriteUnit(t)  BY <2>1 DEF WriteUnit
  <2>2. CASE CloseStdin(t)  BY <2>2 DEF CloseStdin
  <2> QED  BY <1>3, <2>1, <2>2 DEF Writer
<1>4. ASSUME NEW t \in Threads, Worker(t) PROVE PipeInv'
  <2>1. CASE ReadUnit(t)  BY <2>1 DEF ReadUnit
  <2>2. CASE ReadEof(t)  BY <2>2 DEF ReadEof
  <2>3. CASE Compute(t)  BY <2>3 DEF Compute
  <2>4. CASE WriteOutput(t)  BY <2>4 DEF WriteOutput
  <2>5. CASE Exit(t)  BY <2>5 DEF Exit
  <2>6. CASE Crash(t)  BY <2>6 DEF Crash
  <2> QED  BY <1>4, <2>1, <2>2, <2>3, <2>4, <2>5, <2>6 DEF Worker
<1>5. CASE OrphanExits
  BY <1>5 DEF OrphanExits
<1>6. CASE UNCHANGED vars
  BY <1>6 DEF vars
<1> QED
  BY <1>1, <1>2, <1>3, <1>4, <1>5, <1>6 DEF Next

-----------------------------------------------------------------------------
\* What a successful call returns.

LEMMA OutputStep == TypeOK /\ PermitInv /\ WorkerInv /\ PipeInv /\ OutputIsComplete /\ [Next]_vars => OutputIsComplete'
<1> SUFFICES ASSUME TypeOK, PermitInv, WorkerInv, PipeInv, OutputIsComplete, [Next]_vars PROVE OutputIsComplete'
  OBVIOUS
<1> USE SandboxAssumption DEF TypeOK, Points, Outcomes, Errors, LiveStates, DeadStates,
        Live, callVars, pipeVars, Inside,
        PermitInv, WorkerInv, PipeInv, OutputIsComplete
<1>1. ASSUME NEW t \in Threads, Thread(t) PROVE OutputIsComplete'
  <2>1. CASE Disabled(t)  BY <2>1 DEF Disabled, Finish
  <2>2. CASE Acquire(t)  BY <2>2 DEF Acquire, Finish
  <2>3. CASE SpawnFails(t)  BY <2>3 DEF SpawnFails, Finish
  <2>4. CASE Spawn(t)  BY <2>4 DEF Spawn
  <2>5. CASE AssignJob(t)  BY <2>5 DEF AssignJob
  <2>6. CASE AssignJobFails(t)  BY <2>6 DEF AssignJobFails, Finish
  <2>7. CASE SeesRunning(t)  BY <2>7 DEF SeesRunning
  <2>8. CASE Sleep(t)  BY <2>8 DEF Sleep
  <2>9. CASE Kill(t)  BY <2>9 DEF Kill, Finish
  <2>10. CASE WaitFails(t)  BY <2>10 DEF WaitFails, Finish
  <2>11. CASE SeesExit(t)  BY <2>11 DEF SeesExit
  <2>12. CASE Collect(t)  BY <2>12 DEF Collect, Finish
  <2>13. CASE Join(t)  BY <2>13 DEF Join, Finish
  <2>14. CASE Return(t)  BY <2>14 DEF Return
  <2> QED
    BY <1>1, <2>1, <2>2, <2>3, <2>4, <2>5, <2>6, <2>7, <2>8, <2>9, <2>10, <2>11, <2>12,
       <2>13, <2>14 DEF Thread
<1>2. ASSUME NEW t \in Threads, Reset(t) PROVE OutputIsComplete'
  BY <1>2 DEF Reset
<1>3. ASSUME NEW t \in Threads, Writer(t) PROVE OutputIsComplete'
  <2>1. CASE WriteUnit(t)  BY <2>1 DEF WriteUnit
  <2>2. CASE CloseStdin(t)  BY <2>2 DEF CloseStdin
  <2> QED  BY <1>3, <2>1, <2>2 DEF Writer
<1>4. ASSUME NEW t \in Threads, Worker(t) PROVE OutputIsComplete'
  <2>1. CASE ReadUnit(t)  BY <2>1 DEF ReadUnit
  <2>2. CASE ReadEof(t)  BY <2>2 DEF ReadEof
  <2>3. CASE Compute(t)  BY <2>3 DEF Compute
  <2>4. CASE WriteOutput(t)  BY <2>4 DEF WriteOutput
  <2>5. CASE Exit(t)  BY <2>5 DEF Exit
  <2>6. CASE Crash(t)  BY <2>6 DEF Crash
  <2> QED  BY <1>4, <2>1, <2>2, <2>3, <2>4, <2>5, <2>6 DEF Worker
<1>5. CASE OrphanExits
  BY <1>5 DEF OrphanExits
<1>6. CASE UNCHANGED vars
  BY <1>6 DEF vars
<1> QED
  BY <1>1, <1>2, <1>3, <1>4, <1>5, <1>6 DEF Next

-----------------------------------------------------------------------------
(* Counting permits.                                                       *)

LEMMA HoldersFinite == IsFiniteSet(Holders) /\ Cardinality(Holders) \in Nat
<1>1. Holders \subseteq Threads  BY DEF Holders
<1> QED  BY <1>1, SandboxAssumption, FS_Subset, FS_CardinalityType

\* Acquire and Return are the only steps that move a permit.
LEMMA PermitFrame ==
    ASSUME [Next]_vars, \A t \in Threads : ~Acquire(t) /\ ~Return(t)
    PROVE  UNCHANGED <<held, permits>>
<1> USE DEF callVars
<1>1. ASSUME NEW t \in Threads, Thread(t) PROVE UNCHANGED <<held, permits>>
  BY <1>1 DEF Thread, Disabled, SpawnFails, Spawn, AssignJob, AssignJobFails,
              SeesRunning, Sleep, Kill, WaitFails, SeesExit, Collect, Join
<1>2. ASSUME NEW t \in Threads, Reset(t) \/ Writer(t) PROVE UNCHANGED <<held, permits>>
  BY <1>2 DEF Reset, Writer, WriteUnit, CloseStdin
<1>3. ASSUME NEW t \in Threads, Worker(t) PROVE UNCHANGED <<held, permits>>
  BY <1>3 DEF Worker, ReadUnit, ReadEof, Compute, WriteOutput, Exit, Crash
<1>4. CASE OrphanExits  BY <1>4 DEF OrphanExits
<1>5. CASE UNCHANGED vars  BY <1>5 DEF vars
<1> QED  BY <1>1, <1>2, <1>3, <1>4, <1>5 DEF Next

\* What Acquire does to the set of permit owners.
LEMMA AcquireHolders ==
    ASSUME NEW t \in Threads, TypeOK, PermitInv, Acquire(t), MaxConcurrent > 0
    PROVE  \/ /\ permits > 0
              /\ permits' = permits - 1
              /\ t \notin Holders
              /\ Holders' = Holders \cup {t}
              /\ outcome' = outcome
           \/ /\ permits = 0
              /\ permits' = permits
              /\ Holders' = Holders
              /\ t \notin Holders
              /\ outcome' = [outcome EXCEPT ![t] = "refused"]
<1>1. ~held[t]
  BY Zenon, "idle" \notin Inside \cup {"return"} DEF PermitInv, Acquire, Inside
<1>2. CASE permits > 0 /\ permits' = permits - 1 /\ held' = [held EXCEPT ![t] = TRUE]
           /\ UNCHANGED outcome
  <2>1. Holders' = Holders \cup {t}
    BY <1>2 DEF Holders, TypeOK
  <2> QED  BY <1>1, <1>2, <2>1 DEF Holders
<1>3. CASE permits = 0 /\ UNCHANGED <<permits, held>> /\ Finish(t, "refused")
  BY <1>1, <1>3 DEF Holders, Finish
<1> QED  BY <1>2, <1>3, SandboxAssumption DEF Acquire

\* The permit that comes back fits under the cap, so `min(self.max)` in
\* Drop for CountPermit never swallows one.
LEMMA ReturnHolders ==
    ASSUME NEW t \in Threads, TypeOK, PermitsConserved, Return(t), MaxConcurrent > 0
    PROVE  \/ /\ t \in Holders
              /\ Holders' = Holders \ {t}
              /\ permits' = permits + 1
           \/ /\ t \notin Holders
              /\ Holders' = Holders
              /\ permits' = permits
<1>1. held' = [held EXCEPT ![t] = FALSE]
  BY DEF Return
<1>2. Holders' = Holders \ {t}
  BY <1>1 DEF Holders, TypeOK
<1>3. CASE held[t]
  <2>1. t \in Holders  BY <1>3 DEF Holders
  <2>2. Cardinality(Holders) # 0
    BY <2>1, HoldersFinite, FS_EmptySet
  <2>3. permits + 1 <= MaxConcurrent
    BY <2>2, HoldersFinite, SandboxAssumption DEF PermitsConserved, TypeOK
  <2>4. permits' = permits + 1
    BY <1>3, <2>3, SandboxAssumption DEF Return, TypeOK
  <2> QED  BY <1>2, <2>1, <2>4
<1>4. CASE ~held[t]
  <2>1. t \notin Holders  BY <1>4 DEF Holders
  <2>2. permits' = permits  BY <1>4 DEF Return
  <2> QED  BY <1>2, <2>1, <2>2
<1> QED  BY <1>3, <1>4

LEMMA ConservedStep ==
    TypeOK /\ PermitInv /\ PermitsConserved /\ [Next]_vars => PermitsConserved'
<1> SUFFICES ASSUME TypeOK, PermitInv, PermitsConserved, [Next]_vars, MaxConcurrent > 0
             PROVE  permits' + Cardinality(Holders') = MaxConcurrent
  BY DEF PermitsConserved
<1>0. permits \in Nat /\ MaxConcurrent \in Nat
      /\ permits + Cardinality(Holders) = MaxConcurrent
  BY SandboxAssumption DEF TypeOK, PermitsConserved
<1>1. ASSUME NEW t \in Threads, Acquire(t)
      PROVE  permits' + Cardinality(Holders') = MaxConcurrent
  <2>1. CASE permits' = permits - 1 /\ t \notin Holders /\ Holders' = Holders \cup {t}
    <3>1. Cardinality(Holders') = Cardinality(Holders) + 1
      BY <2>1, HoldersFinite, FS_AddElement
    <3> QED  BY <1>0, <2>1, <3>1, HoldersFinite
  <2>2. CASE permits' = permits /\ Holders' = Holders
    BY <1>0, <2>2
  <2> QED  BY <1>1, <2>1, <2>2, AcquireHolders
<1>2. ASSUME NEW t \in Threads, Return(t)
      PROVE  permits' + Cardinality(Holders') = MaxConcurrent
  <2>1. CASE t \in Holders /\ Holders' = Holders \ {t} /\ permits' = permits + 1
    <3>1. Cardinality(Holders') = Cardinality(Holders) - 1
      BY <2>1, HoldersFinite, FS_RemoveElement
    <3> QED  BY <1>0, <2>1, <3>1, HoldersFinite
  <2>2. CASE permits' = permits /\ Holders' = Holders
    BY <1>0, <2>2
  <2> QED  BY <1>2, <2>1, <2>2, ReturnHolders
<1>3. CASE \A t \in Threads : ~Acquire(t) /\ ~Return(t)
  BY <1>0, <1>3, PermitFrame DEF Holders
<1> QED  BY <1>1, <1>2, <1>3

-----------------------------------------------------------------------------
(* The invariants of the runs.                                             *)

LEMMA InductiveInit == Init => IInv
<1> SUFFICES ASSUME Init PROVE IInv
  OBVIOUS
<1>1. TypeOK  BY TypeInit
<1>2. PermitInv /\ WorkerInv /\ PipeInv /\ OutputIsComplete
  BY SandboxAssumption DEF Init, PermitInv, WorkerInv, PipeInv, OutputIsComplete, Inside,
     Live, LiveStates, DeadStates
<1>3. PermitsConserved
  <2>1. Holders = {}  BY DEF Init, Holders
  <2> QED  BY <2>1, FS_EmptySet, SandboxAssumption DEF Init, PermitsConserved
<1> QED  BY <1>1, <1>2, <1>3 DEF IInv

LEMMA Inductive == Spec => []IInv
<1>1. IInv /\ [Next]_vars => IInv'
  BY TypeStep, PermitStep, WorkerStep, PipeStep, OutputStep, ConservedStep DEF IInv
<1> QED  BY InductiveInit, <1>1, PTL DEF Spec

\* No early return of run_worker loses a permit or makes one up.
THEOREM PermitsAreConserved == Spec => []PermitsConserved
<1>1. IInv => PermitsConserved  BY DEF IInv
<1> QED  BY Inductive, <1>1, PTL

\* A worker that runs under a call runs under a call that owns a permit.
LEMMA LiveAreHolders ==
    ASSUME IInv, MaxConcurrent > 0
    PROVE  {t \in Threads : Live(t)} \subseteq Holders
<1> SUFFICES ASSUME NEW t \in Threads, Live(t) PROVE held[t]
  BY DEF Holders
<1>1. pc[t] \in {"job", "polling", "running"}
  BY DEF IInv, TypeOK, Points, WorkerInv, Live, LiveStates, DeadStates
<1> QED  BY <1>1 DEF IInv, PermitInv, Inside

\* At most max_concurrent workers run under calls, for every max_concurrent
\* and every number of threads.
THEOREM WorkersAreBounded == Spec => []WorkersBounded
<1>1. IInv => WorkersBounded
  <2> SUFFICES ASSUME IInv, MaxConcurrent > 0
               PROVE  Cardinality({t \in Threads : Live(t)}) <= MaxConcurrent
    BY DEF WorkersBounded
  <2>1. Cardinality({t \in Threads : Live(t)}) <= Cardinality(Holders)
    BY LiveAreHolders, HoldersFinite, FS_Subset
  <2>2. {t \in Threads : Live(t)} \subseteq Threads  OBVIOUS
  <2>3. Cardinality({t \in Threads : Live(t)}) \in Nat
    BY <2>2, SandboxAssumption, FS_Subset, FS_CardinalityType
  <2> QED
    BY <2>1, <2>3, HoldersFinite, SandboxAssumption DEF IInv, TypeOK, PermitsConserved
<1> QED  BY Inductive, <1>1, PTL

\* A call that returned, by whatever path, is not waiting for a live worker.
THEOREM NoWorkerIsLeftBehind == Spec => []NoWorkerOutlivesItsCall
<1>1. IInv => NoWorkerOutlivesItsCall
  BY DEF IInv, WorkerInv, NoWorkerOutlivesItsCall, Live, LiveStates
<1> QED  BY Inductive, <1>1, PTL

\* An Ok result is the whole answer of a worker that saw the whole input.
THEOREM ResultsAreComplete == Spec => []OutputIsComplete
<1>1. IInv => OutputIsComplete  BY DEF IInv
<1> QED  BY Inductive, <1>1, PTL

-----------------------------------------------------------------------------
(* Results larger than a pipe.                                             *)

\* A worker writes until its pipe is full, and nothing is read before it exits.
PipeFilled == \A t \in Threads : wrote[t] <= PipeCap

\* No step fills a pipe further.
LEMMA PipeFilledStep == TypeOK /\ PipeFilled /\ [Next]_vars => PipeFilled'
<1> SUFFICES ASSUME TypeOK, PipeFilled, [Next]_vars PROVE PipeFilled'
  OBVIOUS
<1> USE SandboxAssumption DEF TypeOK, PipeFilled, callVars, pipeVars
<1>1. ASSUME NEW t \in Threads, Thread(t) PROVE PipeFilled'
  BY <1>1 DEF Thread, Disabled, Acquire, SpawnFails, Spawn, AssignJob, AssignJobFails, SeesRunning,
     Sleep, Kill, WaitFails, SeesExit, Collect, Join, Return
<1>2. ASSUME NEW t \in Threads, Reset(t) PROVE PipeFilled'
  BY <1>2 DEF Reset
<1>3. ASSUME NEW t \in Threads, Writer(t) PROVE PipeFilled'
  BY <1>3 DEF Writer, WriteUnit, CloseStdin
<1>4. ASSUME NEW t \in Threads, Worker(t) PROVE PipeFilled'
  <2>1. CASE WriteOutput(t)  BY <2>1 DEF WriteOutput
  <2>2. CASE ReadUnit(t) \/ ReadEof(t) \/ Compute(t) \/ Exit(t) \/ Crash(t)
    BY <2>2 DEF ReadUnit, ReadEof, Compute, Exit, Crash
  <2> QED  BY <1>4, <2>1, <2>2 DEF Worker
<1>5. CASE OrphanExits  BY <1>5 DEF OrphanExits
<1>6. CASE UNCHANGED vars  BY <1>6 DEF vars
<1> QED  BY <1>1, <1>2, <1>3, <1>4, <1>5, <1>6 DEF Next

\* Since stdout is read after the exit only (wait_with_output behind
\* wait_with_timeout, sandbox.rs:187-223), no call ever returns a result that
\* is larger than a pipe: each such worker ends as a timeout or an error.
THEOREM LargeResultsAreLost ==
    Spec => [](\A t \in Threads : outcome[t] = "output" => output[t] <= PipeCap)
<1>1. Init => PipeFilled  BY SandboxAssumption DEF Init, PipeFilled
<1>2. TypeOK /\ PipeFilled /\ [Next]_vars => PipeFilled'  BY PipeFilledStep
<1>3. PipeFilled /\ OutputIsComplete =>
        \A t \in Threads : outcome[t] = "output" => output[t] <= PipeCap
  BY DEF PipeFilled, OutputIsComplete
<1> QED  BY <1>1, <1>2, <1>3, TypeCorrect, ResultsAreComplete, PTL DEF Spec

-----------------------------------------------------------------------------
(* How long a call may go on.                                              *)

\* The wait loop counts its polls, and none is made after the last.
PollInv ==
    \A t \in Threads :
        /\ polls[t] <= TimeoutPolls
        /\ pc[t] \in {"idle", "spawn", "job"} => polls[t] = 0

\* Every step keeps the polls counted.
LEMMA PollStep == TypeOK /\ PollInv /\ [Next]_vars => PollInv'
<1> SUFFICES ASSUME TypeOK, PollInv, [Next]_vars PROVE PollInv'
  OBVIOUS
<1> USE SandboxAssumption DEF TypeOK, PollInv, callVars, pipeVars
<1>1. ASSUME NEW t \in Threads, Thread(t) PROVE PollInv'
  <2>1. CASE Sleep(t)  BY <2>1 DEF Sleep
  <2>2. CASE Acquire(t)  BY <2>2 DEF Acquire, Finish
  <2>3. CASE Disabled(t) \/ SpawnFails(t) \/ Spawn(t) \/ AssignJob(t) \/ AssignJobFails(t)
    BY <2>3 DEF Disabled, SpawnFails, Spawn, AssignJob, AssignJobFails, Finish
  <2>4. CASE SeesRunning(t) \/ Kill(t) \/ WaitFails(t) \/ SeesExit(t)
    BY <2>4 DEF SeesRunning, Kill, WaitFails, SeesExit, Finish
  <2>5. CASE Collect(t) \/ Join(t) \/ Return(t)
    BY <2>5 DEF Collect, Join, Return, Finish
  <2> QED  BY <1>1, <2>1, <2>2, <2>3, <2>4, <2>5 DEF Thread
<1>2. ASSUME NEW t \in Threads, Reset(t) PROVE PollInv'
  BY <1>2 DEF Reset
<1>3. ASSUME NEW t \in Threads, Writer(t) \/ Worker(t) PROVE PollInv'
  BY <1>3 DEF Writer, WriteUnit, CloseStdin, Worker, ReadUnit, ReadEof, Compute, WriteOutput,
     Exit, Crash
<1>4. CASE OrphanExits  BY <1>4 DEF OrphanExits
<1>5. CASE UNCHANGED vars  BY <1>5 DEF vars
<1> QED  BY <1>1, <1>2, <1>3, <1>4, <1>5 DEF Next

\* How many steps a call has left at most.
Remaining(t) ==
    CASE pc[t] = "idle" -> 2 * TimeoutPolls + 8
      [] pc[t] = "spawn" -> 2 * TimeoutPolls + 7
      [] pc[t] = "job" -> 2 * TimeoutPolls + 6
      [] pc[t] = "polling" -> 2 * (TimeoutPolls - polls[t]) + 5
      [] pc[t] = "running" -> 2 * (TimeoutPolls - polls[t]) + 4
      [] pc[t] = "collect" -> 3
      [] pc[t] = "join" -> 2
      [] pc[t] = "return" -> 1
      [] pc[t] = "done" -> 0

\* Every step of run_worker brings the call closer to its end, whatever its
\* worker does: no path of it, the wait loop included, goes on for ever.
THEOREM CallsRunOut ==
    Spec => [][\A t \in Threads : Thread(t) =>
                  Remaining(t) \in Nat /\ Remaining(t)' \in Nat /\ Remaining(t)' < Remaining(t)]_vars
<1>1. ASSUME TypeOK, PollInv, TypeOK', PollInv', NEW t \in Threads, Thread(t)
      PROVE  Remaining(t) \in Nat /\ Remaining(t)' \in Nat /\ Remaining(t)' < Remaining(t)
  <2> USE <1>1, SandboxAssumption DEF TypeOK, Points, PollInv, Remaining
  <2>1. Remaining(t) \in Nat  OBVIOUS
  <2>2. Remaining(t)' \in Nat  OBVIOUS
  <2>3. Remaining(t)' < Remaining(t)
    <3>1. CASE Sleep(t)  BY <3>1 DEF Sleep
    <3>2. CASE Acquire(t)  BY <3>2 DEF Acquire, Finish
    <3>3. CASE Disabled(t) \/ SpawnFails(t) \/ Spawn(t)
      BY <3>3 DEF Disabled, SpawnFails, Spawn, Finish
    <3>4. CASE AssignJob(t) \/ AssignJobFails(t)
      BY <3>4 DEF AssignJob, AssignJobFails, Finish
    <3>5. CASE SeesRunning(t) \/ Kill(t) \/ WaitFails(t) \/ SeesExit(t)
      BY <3>5 DEF SeesRunning, Kill, WaitFails, SeesExit, Finish
    <3>6. CASE Collect(t) \/ Join(t) \/ Return(t)
      BY <3>6 DEF Collect, Join, Return, Finish
    <3> QED  BY <3>1, <3>2, <3>3, <3>4, <3>5, <3>6 DEF Thread
  <2> QED  BY <2>1, <2>2, <2>3
<1>2. Init => PollInv  BY SandboxAssumption DEF Init, PollInv
<1>3. TypeOK /\ PollInv /\ [Next]_vars => PollInv'  BY PollStep
<1>4. TypeOK /\ PollInv /\ TypeOK' /\ PollInv' /\ [Next]_vars =>
        [\A t \in Threads : Thread(t) =>
            Remaining(t) \in Nat /\ Remaining(t)' \in Nat /\ Remaining(t)' < Remaining(t)]_vars
  BY <1>1
<1> QED  BY <1>2, <1>3, <1>4, TypeCorrect, PTL DEF Spec

-----------------------------------------------------------------------------
(* The refinement of WorkerSlots.                                          *)

\* The instance brings its own copy of Cardinality.
LEMMA SlotsCardinality == \A S : Slots!Cardinality(S) = Cardinality(S)
BY Zenon DEF Cardinality, Slots!Cardinality

LEMMA AnswerUpdate ==
    ASSUME TypeOK, NEW t \in Sandboxed, NEW r, outcome' = [outcome EXCEPT ![t] = r]
    PROVE  SlotAnswer' = [SlotAnswer EXCEPT ![t] = AnswerOf(r)]
BY SandboxAssumption DEF SlotAnswer, TypeOK

LEMMA NoAnswerYet ==
    ASSUME NEW t \in Sandboxed
    PROVE  SlotAnswer[t] = "none" <=> outcome[t] = "none"
BY DEF SlotAnswer, AnswerOf

\* A call inside run_worker owns a slot and has no answer yet.
LEMMA InsideOwnsSlot ==
    ASSUME TypeOK, PermitInv, MaxConcurrent > 0, NEW t \in Threads, pc[t] \in Inside
    PROVE  t \in Sandboxed /\ t \in Holders /\ SlotAnswer[t] = "none"
BY NoAnswerYet DEF PermitInv, Holders

\* Every way to leave run_worker after the permit is an answer.
LEMMA FinishAnswers ==
    ASSUME TypeOK, PermitInv, MaxConcurrent > 0, NEW t \in Threads, pc[t] \in Inside,
           NEW r \in (Errors \ {"none"}) \cup {"output"},
           Finish(t, r), UNCHANGED held
    PROVE  Slots!Answer(t)
<1>1. t \in Sandboxed /\ t \in Holders /\ SlotAnswer[t] = "none"
  BY InsideOwnsSlot
<1>2. r # "none"  BY DEF Errors
<1>3. SlotAnswer' = [SlotAnswer EXCEPT ![t] = AnswerOf(r)]
  BY <1>1, AnswerUpdate DEF Finish
<1>5. AnswerOf(r) \in {"ok", "error"}  BY <1>2 DEF AnswerOf
<1>4. Holders' = Holders  BY DEF Holders
<1> QED  BY <1>1, <1>3, <1>4, <1>5 DEF Slots!Answer

LEMMA AcquireTakesOrRefuses ==
    ASSUME IInv, MaxConcurrent > 0, NEW t \in Threads, Acquire(t)
    PROVE  Slots!Take(t) \/ Slots!Refuse(t)
<1>1. t \in Sandboxed /\ pc[t] = "idle"  BY DEF Acquire
<1>2. outcome[t] = "none"  BY <1>1 DEF IInv, PermitInv
<1>3. SlotAnswer[t] = "none"  BY <1>1, <1>2, NoAnswerYet
<1>4. permits + Cardinality(Holders) = MaxConcurrent  BY DEF IInv, PermitsConserved
<1>5. CASE permits > 0 /\ t \notin Holders /\ Holders' = Holders \cup {t} /\ outcome' = outcome
  <2>1. Cardinality(Holders) < MaxConcurrent
    BY <1>4, <1>5, HoldersFinite, SandboxAssumption DEF IInv, TypeOK
  <2>2. SlotAnswer' = SlotAnswer  BY <1>5 DEF SlotAnswer
  <2> QED  BY <1>3, <1>5, <2>1, <2>2, SlotsCardinality DEF Slots!Take
<1>6. CASE permits = 0 /\ Holders' = Holders /\ t \notin Holders
           /\ outcome' = [outcome EXCEPT ![t] = "refused"]
  <2>1. Cardinality(Holders) = MaxConcurrent
    BY <1>4, <1>6, HoldersFinite
  <2>2. SlotAnswer' = [SlotAnswer EXCEPT ![t] = "error"]
    BY <1>1, <1>6, AnswerUpdate DEF IInv, AnswerOf
  <2> QED  BY <1>3, <1>6, <2>1, <2>2, SlotsCardinality DEF Slots!Refuse
<1> QED  BY <1>5, <1>6, AcquireHolders DEF IInv

LEMMA ReturnReleases ==
    ASSUME IInv, MaxConcurrent > 0, NEW t \in Threads, Return(t)
    PROVE  Slots!Release(t) \/ UNCHANGED <<Holders, SlotAnswer>>
<1>1. outcome' = outcome /\ pc[t] = "return"  BY DEF Return
<1>2. SlotAnswer' = SlotAnswer  BY <1>1 DEF SlotAnswer
<1>3. CASE t \in Holders /\ Holders' = Holders \ {t}
  <2>1. t \in Sandboxed  BY <1>3 DEF IInv, PermitInv, Holders
  <2>2. outcome[t] # "none"  BY <1>1 DEF IInv, PermitInv
  <2>3. SlotAnswer[t] # "none"  BY <2>1, <2>2, NoAnswerYet
  <2> QED  BY <1>2, <1>3, <2>3 DEF Slots!Release
<1>4. CASE Holders' = Holders  BY <1>2, <1>4
<1> QED  BY <1>3, <1>4, ReturnHolders DEF IInv

LEMMA ResetForgets ==
    ASSUME IInv, NEW t \in Threads, Reset(t)
    PROVE  (t \in Sandboxed /\ Slots!Forget(t)) \/ UNCHANGED <<Holders, SlotAnswer>>
<1>1. outcome' = [outcome EXCEPT ![t] = "none"] /\ pc[t] = "done" /\ held' = held
  BY DEF Reset
<1>2. Holders' = Holders  BY <1>1 DEF Holders
<1>3. t \notin Holders
  BY <1>1, "done" \notin Inside \cup {"return"} DEF IInv, PermitInv, Holders, Inside
<1>4. CASE t \in Sandboxed
  <2>1. outcome[t] # "none"  BY <1>1 DEF IInv, PermitInv
  <2>2. SlotAnswer[t] # "none"  BY <1>4, <2>1, NoAnswerYet
  <2>3. SlotAnswer' = [SlotAnswer EXCEPT ![t] = "none"]
    BY <1>1, <1>4, AnswerUpdate DEF IInv, AnswerOf
  <2> QED  BY <1>2, <1>3, <1>4, <2>2, <2>3 DEF Slots!Forget
<1>5. CASE t \notin Sandboxed
  <2>1. SlotAnswer' = SlotAnswer  BY <1>1, <1>5 DEF SlotAnswer, IInv, TypeOK
  <2> QED  BY <1>2, <2>1
<1> QED  BY <1>4, <1>5

LEMMA SlotStep ==
    IInv /\ MaxConcurrent > 0 /\ [Next]_vars => [Slots!Next]_<<Holders, SlotAnswer>>
<1> SUFFICES ASSUME IInv, MaxConcurrent > 0, [Next]_vars
             PROVE  Slots!Next \/ UNCHANGED <<Holders, SlotAnswer>>
  OBVIOUS
<1> USE DEF callVars, pipeVars
<1>0. TypeOK /\ PermitInv  BY DEF IInv
<1>1. ASSUME held' = held, outcome' = outcome PROVE UNCHANGED <<Holders, SlotAnswer>>
  BY <1>1 DEF Holders, SlotAnswer
<1>2. ASSUME NEW t \in Threads, Thread(t)
      PROVE  Slots!Next \/ UNCHANGED <<Holders, SlotAnswer>>
  <2>1. CASE Disabled(t)
    <3>1. t \notin Sandboxed /\ held' = held /\ outcome' = [outcome EXCEPT ![t] = "input"]
      BY <2>1 DEF Disabled, Finish
    <3> QED  BY <1>0, <3>1 DEF Holders, SlotAnswer, TypeOK
  <2>2. CASE Acquire(t)
    BY <2>2, AcquireTakesOrRefuses DEF Slots!Next, Acquire
  <2>3. ASSUME NEW r \in Errors \cup {"output"}, pc[t] \in Inside, Finish(t, r),
               UNCHANGED held
        PROVE  Slots!Next
    <3>1. Errors \ {"none"} = Errors  BY DEF Errors
    <3>2. Slots!Answer(t)  BY <1>0, <2>3, <3>1, FinishAnswers
    <3> QED  BY <1>0, <2>3, <3>2, InsideOwnsSlot DEF Slots!Next
  <2>4. CASE SpawnFails(t)
    BY <2>3, <2>4 DEF SpawnFails, Errors, Inside
  <2>5. CASE AssignJobFails(t)
    BY <2>3, <2>5 DEF AssignJobFails, Errors, Inside
  <2>6. CASE Kill(t)
    BY <2>3, <2>6 DEF Kill, Errors, Inside
  <2>7. CASE WaitFails(t)
    BY <2>3, <2>7 DEF WaitFails, Errors, Inside
  <2>8. CASE Collect(t)
    <3>1. CASE outcome' = outcome  BY <1>1, <2>8, <3>1 DEF Collect
    <3>2. CASE Finish(t, "collect_error")
      BY <2>3, <2>8, <3>2 DEF Collect, Errors, Inside
    <3> QED  BY <2>8, <3>1, <3>2 DEF Collect
  <2>9. CASE Join(t)
    BY <2>3, <2>9 DEF Join, Errors, Inside
  <2>10. CASE Return(t)
    <3>1. t \in Holders => t \in Sandboxed  BY <1>0 DEF PermitInv, Holders
    <3>2. Slots!Release(t) => t \in Holders  BY DEF Slots!Release
    <3> QED  BY <2>10, <3>1, <3>2, ReturnReleases DEF Slots!Next
  <2>11. CASE Spawn(t) \/ AssignJob(t) \/ SeesRunning(t) \/ Sleep(t) \/ SeesExit(t)
    BY <1>1, <2>11 DEF Spawn, AssignJob, SeesRunning, Sleep, SeesExit
  <2> QED
    BY <1>2, <2>1, <2>2, <2>4, <2>5, <2>6, <2>7, <2>8, <2>9, <2>10, <2>11 DEF Thread
<1>3. ASSUME NEW t \in Threads, Reset(t)
      PROVE  Slots!Next \/ UNCHANGED <<Holders, SlotAnswer>>
  BY <1>3, ResetForgets DEF Slots!Next
<1>4. ASSUME NEW t \in Threads, Writer(t) \/ Worker(t)
      PROVE  UNCHANGED <<Holders, SlotAnswer>>
  BY <1>1, <1>4 DEF Writer, WriteUnit, CloseStdin, Worker, ReadUnit, ReadEof, Compute,
     WriteOutput, Exit, Crash
<1>5. CASE OrphanExits  BY <1>1, <1>5 DEF OrphanExits
<1>6. CASE UNCHANGED vars  BY <1>1, <1>6 DEF vars
<1> QED  BY <1>2, <1>3, <1>4, <1>5, <1>6 DEF Next

\* With a semaphore, run_worker implements WorkerSlots: a call is refused only
\* while every slot is taken, and keeps its slot until it has its answer.
THEOREM SandboxImplementsSlots ==
    ASSUME MaxConcurrent > 0
    PROVE  Spec => ImplementsSlots
<1>1. Init => Slots!Init
  <2>1. Init => Holders = {}  BY DEF Init, Holders
  <2>2. Init => SlotAnswer = [t \in Sandboxed |-> "none"]
    BY SandboxAssumption DEF Init, SlotAnswer, AnswerOf
  <2> QED  BY <2>1, <2>2 DEF Slots!Init
<1>2. IInv /\ [Next]_vars => [Slots!Next]_<<Holders, SlotAnswer>>
  BY SlotStep
<1> QED  BY Inductive, <1>1, <1>2, PTL DEF Spec, ImplementsSlots, Slots!Spec

-----------------------------------------------------------------------------
(* Linux.                                                                  *)

\* Every comparison of the filter jumps n + 1 instructions ahead, whatever its
\* own place, and so past the end: the kernel takes no program that
\* install_seccomp_blacklist builds, however many syscalls the table has, as
\* long as the offset fits in its u8.
THEOREM NoFilterIsAccepted ==
    ASSUME NEW calls, Len(calls) \in 1..254
    PROVE  ~Accepted(Program(calls))
<1> DEFINE program == Program(calls)
<1>1. DOMAIN program = 1..(Len(calls) + 3)
  BY DEF Program
<1>2. program[2] = Instruction("jeq", KillOffset(calls), calls[1])
  BY DEF Program
<1>3. 2 \in Comparisons(program)
  BY <1>1, <1>2 DEF Comparisons, Instruction
<1>4. KillOffset(calls) = Len(calls) + 1
  <2>1. \A n \in 1..254 : (n + 1) % 256 = n + 1  BY SMT
  <2> QED  BY <2>1, Zenon DEF KillOffset
<1>5. Target(program, 2) = Len(calls) + 4
  BY <1>2, <1>4 DEF Target, Instruction
<1> HIDE DEF program
<1>6. ~Accepted(program)
  BY <1>1, <1>3, <1>5 DEF Accepted
<1> QED  BY <1>6 DEF program

\* Without a hook that succeeds, no call gets as far as a worker.
NoWorkerInv ==
    \A t \in Threads :
        /\ pc[t] \in {"idle", "spawn", "return", "done"}
        /\ worker[t] = "none"
        /\ outcome[t] \in {"none", "input", "refused", "spawn_error"}

LEMMA NoWorkerStep ==
    ASSUME ~CanExec, TypeOK, NoWorkerInv, [Next]_vars
    PROVE  NoWorkerInv'
<1> USE DEF TypeOK, NoWorkerInv, LiveStates, Live, callVars, pipeVars
<1>1. ASSUME NEW t \in Threads, Thread(t) PROVE NoWorkerInv'
  <2>1. CASE Disabled(t)  BY <2>1 DEF Disabled, Finish
  <2>2. CASE Acquire(t)  BY <2>2 DEF Acquire, Finish
  <2>3. CASE SpawnFails(t)  BY <2>3 DEF SpawnFails, Finish
  <2>4. CASE Spawn(t)  BY <2>4 DEF Spawn
  <2>5. CASE AssignJob(t) \/ AssignJobFails(t)
    BY <2>5 DEF AssignJob, AssignJobFails
  <2>6. CASE SeesRunning(t) \/ Sleep(t) \/ Kill(t) \/ WaitFails(t) \/ SeesExit(t)
    BY <2>6 DEF SeesRunning, Sleep, Kill, WaitFails, SeesExit
  <2>7. CASE Collect(t) \/ Join(t)
    BY <2>7 DEF Collect, Join
  <2>8. CASE Return(t)  BY <2>8 DEF Return
  <2> QED
    BY <1>1, <2>1, <2>2, <2>3, <2>4, <2>5, <2>6, <2>7, <2>8 DEF Thread
<1>2. ASSUME NEW t \in Threads, Reset(t) PROVE NoWorkerInv'
  BY <1>2 DEF Reset
<1>3. ASSUME NEW t \in Threads, Writer(t) \/ Worker(t) PROVE NoWorkerInv'
  BY <1>3 DEF Writer, WriteUnit, CloseStdin, Worker, ReadUnit, ReadEof, Compute,
     WriteOutput, Exit, Crash
<1>4. CASE OrphanExits  BY <1>4 DEF OrphanExits
<1>5. CASE UNCHANGED vars  BY <1>5 DEF vars
<1> QED  BY <1>1, <1>2, <1>3, <1>4, <1>5 DEF Next

\* On Linux the hook fails in every child: no call of run_worker with an
\* enabled sandbox ever returns anything but a refusal or a spawn error.
THEOREM NoWorkerOnLinux ==
    ASSUME Platform = "linux"
    PROVE  Spec => [](\A t \in Threads :
                         worker[t] = "none" /\ outcome[t] # "output")
<1>1. ~CanExec
  <2>1. Len(Blocked) = 23  BY DEF Blocked
  <2>2. ~Accepted(Program(Blocked))  BY <2>1, NoFilterIsAccepted
  <2> QED  BY <2>2 DEF CanExec, FilterLetsExec
<1>2. Init => NoWorkerInv  BY DEF Init, NoWorkerInv
<1>3. TypeOK /\ NoWorkerInv /\ [Next]_vars => NoWorkerInv'
  BY <1>1, NoWorkerStep
<1>4. NoWorkerInv => \A t \in Threads : worker[t] = "none" /\ outcome[t] # "output"
  BY DEF NoWorkerInv
<1> QED  BY <1>2, <1>3, <1>4, TypeCorrect, PTL DEF Spec
=============================================================================
