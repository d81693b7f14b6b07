---------------------- MODULE SandboxedAnalysis_proofs ----------------------
(***************************************************************************)
(* Proofs about SandboxedAnalysis.  Its steps are steps of Sandbox or      *)
(* leave the sandbox alone, so what Sandbox_proofs shows carries over; the *)
(* rest is StageInv, which ties the stage of an analysis to its call.      *)
(***************************************************************************)
EXTENDS SandboxedAnalysis, Sandbox_proofs

\* Every step of the analyses is one of the sandbox or a stutter of it.
LEMMA AnalysisStep == [AnalysisNext]_allVars => [Next]_vars
<1> SUFFICES ASSUME [AnalysisNext]_allVars PROVE [Next]_vars
  OBVIOUS
<1>1. ASSUME NEW t \in Threads, AnalysisThread(t) PROVE [Next]_vars
  <2>1. CASE Guard(t)  BY <2>1 DEF Guard
  <2>2. CASE Call(t)  BY <2>2 DEF Call, Next, Thread
  <2>3. CASE Receive(t)  BY <2>3 DEF Receive
  <2>4. CASE Fallback(t)  BY <2>4 DEF Fallback
  <2> QED  BY <1>1, <2>1, <2>2, <2>3, <2>4 DEF AnalysisThread
<1>2. ASSUME NEW t \in Threads, Begin(t) PROVE [Next]_vars
  BY <1>2 DEF Begin, vars
<1>3. ASSUME NEW t \in Threads, Take(t) PROVE [Next]_vars
  BY <1>3 DEF Take, Next
<1>4. ASSUME NEW t \in Threads, Proceed(t) PROVE [Next]_vars
  BY <1>4 DEF Proceed, Next
<1>5. CASE OrphanExits /\ UNCHANGED analysisVars  BY <1>5 DEF Next
<1>6. CASE UNCHANGED allVars  BY <1>6 DEF allVars
<1> QED  BY <1>1, <1>2, <1>3, <1>4, <1>5, <1>6 DEF AnalysisNext

\* The analyses are a way of using the sandbox: all that is proved of Sandbox
\* holds of it in their midst.
THEOREM AnalysisUsesSandbox == AnalysisSpec => Spec
<1>1. InitAnalysis => Init  BY DEF InitAnalysis
<1> QED  BY <1>1, AnalysisStep, PTL DEF AnalysisSpec, Spec

-----------------------------------------------------------------------------
(* The stages.                                                             *)

StageType ==
    /\ stage \in [Threads -> {"idle", "guard", "ready", "calling", "fallback", "answered"}]
    /\ answer \in [Threads -> {"none", "rejected", "parse_error", "input", "worker",
                               "in_process"}]

\* An analysis has a call exactly from Call on, its outcome is not touched
\* after the call is done, and the answer was chosen by it.
StageInv ==
    \A t \in Threads :
        /\ stage[t] \in {"idle", "guard", "ready"} => pc[t] = "idle"
        /\ stage[t] = "fallback" => pc[t] = "done" /\ outcome[t] \in Errors
        /\ stage[t] = "answered" =>
               \/ pc[t] = "idle" /\ answer[t] = "rejected" /\ t \in OfFiles
               \/ /\ pc[t] = "done"
                  /\ \/ answer[t] = "worker" /\ outcome[t] = "output"
                     \/ answer[t] = "parse_error" /\ outcome[t] = "output" /\ t \in Foreign
                     \/ answer[t] = "in_process" /\ outcome[t] \in Errors
                     \/ outcome[t] = "input"
        /\ stage[t] = "guard" => t \in OfFiles
        /\ outcome[t] = "input" => t \notin Sandboxed

AnalysisInv == StageType /\ StageInv

LEMMA StageTypeStep == StageType /\ [AnalysisNext]_allVars => StageType'
<1> SUFFICES ASSUME StageType, [AnalysisNext]_allVars PROVE StageType'
  OBVIOUS
<1> USE DEF StageType, To, Answer
<1>1. ASSUME NEW t \in Threads, Guard(t) PROVE StageType'  BY <1>1 DEF Guard
<1>2. ASSUME NEW t \in Threads, Call(t) PROVE StageType'  BY <1>2 DEF Call
<1>3. ASSUME NEW t \in Threads, Receive(t) PROVE StageType'  BY <1>3 DEF Receive
<1>4. ASSUME NEW t \in Threads, Fallback(t) PROVE StageType'  BY <1>4 DEF Fallback
<1>5. ASSUME NEW t \in Threads, Begin(t) PROVE StageType'  BY <1>5 DEF Begin
<1>6. ASSUME NEW t \in Threads, Take(t) PROVE StageType'  BY <1>6 DEF Take
<1>7. ASSUME NEW t \in Threads, Proceed(t) PROVE StageType'
  BY <1>7 DEF Proceed, analysisVars
<1>8. CASE OrphanExits /\ UNCHANGED analysisVars  BY <1>8 DEF analysisVars
<1>9. CASE UNCHANGED allVars  BY <1>9 DEF allVars
<1> QED
  BY <1>1, <1>2, <1>3, <1>4, <1>5, <1>6, <1>7, <1>8, <1>9 DEF AnalysisNext, AnalysisThread

\* A step of one thread's call leaves the calls of the others alone.
LEMMA OthersKeepTheirCalls ==
    ASSUME TypeOK, NEW t \in Threads, Thread(t) \/ Reset(t) \/ Writer(t) \/ Worker(t)
    PROVE  \A u \in Threads \ {t} : pc'[u] = pc[u] /\ outcome'[u] = outcome[u]
<1> USE DEF TypeOK, callVars, Finish
<1>1. CASE Thread(t)
  <2>1. CASE Disabled(t)  BY <2>1 DEF Disabled
  <2>2. CASE Acquire(t)  BY <2>2 DEF Acquire
  <2>3. CASE SpawnFails(t) \/ Spawn(t)  BY <2>3 DEF SpawnFails, Spawn
  <2>4. CASE AssignJob(t) \/ AssignJobFails(t)  BY <2>4 DEF AssignJob, AssignJobFails
  <2>5. CASE SeesRunning(t) \/ Sleep(t)  BY <2>5 DEF SeesRunning, Sleep
  <2>6. CASE Kill(t) \/ WaitFails(t)  BY <2>6 DEF Kill, WaitFails
  <2>7. CASE SeesExit(t) \/ Collect(t)  BY <2>7 DEF SeesExit, Collect
  <2>8. CASE Join(t) \/ Return(t)  BY <2>8 DEF Join, Return
  <2> QED  BY <1>1, <2>1, <2>2, <2>3, <2>4, <2>5, <2>6, <2>7, <2>8 DEF Thread
<1>2. CASE Reset(t)  BY <1>2 DEF Reset
<1>3. CASE Writer(t)  BY <1>3 DEF Writer, WriteUnit, CloseStdin
<1>4. CASE Worker(t)
  BY <1>4 DEF Worker, ReadUnit, ReadEof, Compute, WriteOutput, Exit, Crash
<1> QED  BY <1>1, <1>2, <1>3, <1>4

\* A call under way stays so until it is done, and gets "input" for an
\* outcome only from a disabled sandbox.
LEMMA ThreadStep ==
    ASSUME TypeOK, NEW t \in Threads, Thread(t)
    PROVE  /\ pc[t] # "done" /\ pc'[t] # "idle"
           /\ outcome'[t] = "input" => outcome[t] = "input" \/ t \notin Sandboxed
<1> USE DEF TypeOK, Finish
<1>1. CASE Disabled(t)  BY <1>1 DEF Disabled
<1>2. CASE Acquire(t)  BY <1>2 DEF Acquire
<1>3. CASE SpawnFails(t) \/ Spawn(t)  BY <1>3 DEF SpawnFails, Spawn
<1>4. CASE AssignJob(t) \/ AssignJobFails(t)  BY <1>4 DEF AssignJob, AssignJobFails
<1>5. CASE SeesRunning(t) \/ Sleep(t)  BY <1>5 DEF SeesRunning, Sleep
<1>6. CASE Kill(t) \/ WaitFails(t)  BY <1>6 DEF Kill, WaitFails
<1>7. CASE SeesExit(t) \/ Collect(t)  BY <1>7 DEF SeesExit, Collect
<1>8. CASE Join(t) \/ Return(t)  BY <1>8 DEF Join, Return
<1> QED  BY <1>1, <1>2, <1>3, <1>4, <1>5, <1>6, <1>7, <1>8 DEF Thread

\* The pipes and the worker process do not touch the call.
LEMMA PipesKeepTheCalls ==
    ASSUME NEW t \in Threads, Writer(t) \/ Worker(t)
    PROVE  UNCHANGED <<pc, outcome>>
<1> USE DEF callVars
<1>1. CASE Writer(t)  BY <1>1 DEF Writer, WriteUnit, CloseStdin
<1>2. CASE Worker(t)
  BY <1>2 DEF Worker, ReadUnit, ReadEof, Compute, WriteOutput, Exit, Crash
<1> QED  BY <1>1, <1>2

LEMMA StageStep == TypeOK /\ AnalysisInv /\ [AnalysisNext]_allVars => StageInv'
<1> SUFFICES ASSUME TypeOK, AnalysisInv, [AnalysisNext]_allVars,
                    NEW u \in Threads
             PROVE  StageInv!(u)'
  BY DEF StageInv
<1> USE DEF AnalysisInv, StageType, StageInv
<1>1. ASSUME NEW t \in Threads, Guard(t) PROVE StageInv!(u)'
  BY <1>1 DEF Guard, To, Answer, vars
<1>2. ASSUME NEW t \in Threads, Call(t) PROVE StageInv!(u)'
  <2>1. Thread(t) /\ stage[t] = "ready" /\ stage' = [stage EXCEPT ![t] = "calling"]
        /\ answer' = answer
    BY <1>2 DEF Call, To, Thread
  <2>2. CASE u = t  BY <2>1, <2>2, ThreadStep
  <2>3. CASE u # t  BY <2>1, <2>3, OthersKeepTheirCalls
  <2> QED  BY <2>2, <2>3
<1>3. ASSUME NEW t \in Threads, Receive(t) PROVE StageInv!(u)'
  BY <1>3 DEF Receive, To, Answer, vars, Errors
<1>4. ASSUME NEW t \in Threads, Fallback(t) PROVE StageInv!(u)'
  BY <1>4 DEF Fallback, To, Answer, vars
<1>5. ASSUME NEW t \in Threads, Begin(t) PROVE StageInv!(u)'
  BY <1>5 DEF Begin, To, vars
<1>6. ASSUME NEW t \in Threads, Take(t) PROVE StageInv!(u)'
  <2>1. stage' = [stage EXCEPT ![t] = "idle"] /\ answer' = [answer EXCEPT ![t] = "none"]
    BY <1>6 DEF Take, To
  <2>2. CASE Reset(t)
    <3>1. pc'[t] = "idle" /\ outcome'[t] = "none"  BY <2>2 DEF Reset, TypeOK
    <3>2. CASE u = t  BY <2>1, <3>1, <3>2
    <3>3. CASE u # t  BY <2>1, <2>2, <3>3, OthersKeepTheirCalls
    <3> QED  BY <3>2, <3>3
  <2>3. CASE pc[t] = "idle" /\ UNCHANGED vars  BY <2>1, <2>3 DEF vars
  <2> QED  BY <1>6, <2>2, <2>3 DEF Take
<1>7. ASSUME NEW t \in Threads, Proceed(t) PROVE StageInv!(u)'
  <2>1. UNCHANGED <<stage, answer>>  BY <1>7 DEF Proceed, analysisVars
  <2>2. CASE stage[t] = "calling" /\ Thread(t)
    <3>1. CASE u = t  BY <2>1, <2>2, <3>1, ThreadStep
    <3>2. CASE u # t  BY <2>1, <2>2, <3>2, OthersKeepTheirCalls
    <3> QED  BY <3>1, <3>2
  <2>3. CASE Writer(t) \/ Worker(t)  BY <2>1, <2>3, PipesKeepTheCalls
  <2> QED  BY <1>7, <2>2, <2>3 DEF Proceed
<1>8. CASE OrphanExits /\ UNCHANGED analysisVars
  BY <1>8 DEF OrphanExits, callVars, analysisVars
<1>9. CASE UNCHANGED allVars  BY <1>9 DEF allVars, vars
<1> QED
  BY <1>1, <1>2, <1>3, <1>4, <1>5, <1>6, <1>7, <1>8, <1>9 DEF AnalysisNext, AnalysisThread

LEMMA AnalysisInductive == AnalysisSpec => []AnalysisInv
<1>1. InitAnalysis => AnalysisInv
  BY DEF InitAnalysis, Init, AnalysisInv, StageType, StageInv
<1>2. TypeOK /\ AnalysisInv /\ [AnalysisNext]_allVars => AnalysisInv'
  BY StageTypeStep, StageStep DEF AnalysisInv
<1>3. AnalysisSpec => []TypeOK  BY AnalysisUsesSandbox, TypeCorrect, PTL
<1> QED  BY <1>1, <1>2, <1>3, PTL DEF AnalysisSpec

-----------------------------------------------------------------------------
(* The results.                                                            *)

\* The state of the analyses and of the sandbox under them keeps its type.
THEOREM AnalysisTypeCorrect == AnalysisSpec => []AnalysisTypeOK
<1>1. TypeOK /\ AnalysisInv => AnalysisTypeOK
  BY DEF AnalysisInv, StageType, AnalysisTypeOK
<1> QED  BY <1>1, AnalysisInductive, AnalysisUsesSandbox, TypeCorrect, PTL

\* For any number of threads, any semaphore, platform, timeout and payload: a
\* worker that crashes, hangs, exits with an error or cannot be started never
\* makes an analysis fail or its result incomplete; what makes it fail is the
\* exit status 0 of a foreign worker, of which alone a failure is possible.
THEOREM WorkerFailuresAreMasked == AnalysisSpec => []FailuresAreMasked
<1>1. AnalysisInv /\ OutputIsComplete => FailuresAreMasked
  <2> SUFFICES ASSUME AnalysisInv, OutputIsComplete,
                      NEW t \in Sandboxed, stage[t] = "answered"
               PROVE  \/ answer[t] = "rejected" /\ t \in OfFiles
                      \/ answer[t] = "in_process" /\ outcome[t] \in Errors
                      \/ /\ answer[t] = "worker" /\ worker[t] = "exited"
                         /\ got[t] = InSize /\ wrote[t] = output[t]
                      \/ answer[t] = "parse_error" /\ t \in Foreign /\ worker[t] = "exited"
    BY DEF FailuresAreMasked
  <2>1. t \in Threads  BY SandboxAssumption
  <2> QED  BY <2>1 DEF AnalysisInv, StageInv, OutputIsComplete
<1> QED  BY <1>1, AnalysisInductive, AnalysisUsesSandbox, ResultsAreComplete, PTL

\* Where every worker is this program's own, no analysis fails once the guard
\* has let its input pass: what SECURITY.md:64 promises, less the compromise.
THEOREM OwnWorkersNeverFail ==
    ASSUME Foreign = {}
    PROVE  AnalysisSpec => []CompromiseIsContained
<1>1. AnalysisInv => CompromiseIsContained
  <2> SUFFICES ASSUME AnalysisInv, NEW t \in Sandboxed, stage[t] = "answered"
               PROVE  answer[t] # "parse_error"
    BY DEF CompromiseIsContained
  <2>1. t \in Threads  BY SandboxAssumption
  <2> QED  BY <2>1 DEF AnalysisInv, StageInv
<1> QED  BY <1>1, AnalysisInductive, PTL

\* The fallback hides the limit of run_worker on results (LargeResultsAreLost):
\* the answer of a worker fits in a pipe, so that an input whose result does
\* not is analyzed in the process that the sandbox was to protect.
THEOREM LargeResultsAreInProcess ==
    AnalysisSpec => [](\A t \in Sandboxed :
                          stage[t] = "answered" /\ answer[t] = "worker" => output[t] <= PipeCap)
<1>1. ASSUME AnalysisInv, \A t \in Threads : outcome[t] = "output" => output[t] <= PipeCap
      PROVE  \A t \in Sandboxed :
                stage[t] = "answered" /\ answer[t] = "worker" => output[t] <= PipeCap
  <2> SUFFICES ASSUME NEW t \in Sandboxed, stage[t] = "answered", answer[t] = "worker"
               PROVE  output[t] <= PipeCap
    OBVIOUS
  <2>1. t \in Threads  BY SandboxAssumption
  <2>2. outcome[t] = "output"  BY <1>1, <2>1 DEF AnalysisInv, StageInv
  <2> QED  BY <1>1, <2>1, <2>2
<1> QED  BY <1>1, AnalysisInductive, AnalysisUsesSandbox, LargeResultsAreLost, PTL
=============================================================================
