------------------------- MODULE SandboxedAnalysis -------------------------
(***************************************************************************)
(* analyze_file_sandboxed and analyze_bytes_sandboxed                      *)
(* (src/analyzers/file.rs) over the Sandbox their threads share: the guard *)
(* reads and checks the file, the worker analyzes it, and where run_worker *)
(* fails the thread analyzes the bytes itself.                             *)
(*                                                                         *)
(* Every thread makes one analysis after the other.  An answer is known by *)
(* who made it: a worker has no calibration model, the thread has the one  *)
(* its process loaded, and otherwise both run analyze_bytes on the bytes.  *)
(***************************************************************************)
EXTENDS Sandbox

CONSTANTS
    OfFiles,  \* the threads that analyze files; the others analyze bytes
    Foreign   \* those whose worker_path may lead to another program than
              \* src/bin/worker.rs of this version: an older one, or one taken over.
              \* It uses its pipes as this one does, and may print anything

ASSUME AnalysisAssumption == OfFiles \subseteq Threads /\ Foreign \subseteq Threads

VARIABLES
    stage,   \* where the analysis is
    answer   \* what it returned

analysisVars == <<stage, answer>>
allVars == <<vars, stage, answer>>

InitAnalysis ==
    /\ Init
    /\ stage = [t \in Threads |-> "idle"]
    /\ answer = [t \in Threads |-> "none"]

To(t, point) == stage' = [stage EXCEPT ![t] = point]

Answer(t, a) ==
    /\ To(t, "answered")
    /\ answer' = [answer EXCEPT ![t] = a]

Begin(t) ==
    /\ stage[t] = "idle"
    /\ pc[t] = "idle"
    /\ To(t, IF t \in OfFiles THEN "guard" ELSE "ready")
    /\ UNCHANGED <<vars, answer>>

\* InputGuard::sanitize_file: an unreadable or unsafe file ends the analysis.
Guard(t) ==
    /\ stage[t] = "guard"
    /\ \/ To(t, "ready") /\ UNCHANGED answer
       \/ Answer(t, "rejected")
    /\ UNCHANGED vars

\* run_worker begins.
Call(t) ==
    /\ stage[t] = "ready"
    /\ Disabled(t) \/ Acquire(t)
    /\ To(t, "calling")
    /\ UNCHANGED answer

\* run_worker proceeds; its threads and processes know nothing of the analysis.
Proceed(t) ==
    /\ \/ stage[t] = "calling" /\ Thread(t)
       \/ Writer(t) \/ Worker(t)
    /\ UNCHANGED analysisVars

\* Slip: an error of run_worker is returned to the caller.
ReceiveNoFallback(t) ==
    /\ stage[t] = "calling"
    /\ pc[t] = "done"
    /\ \/ outcome[t] = "output" /\ Answer(t, "worker")
       \/ outcome[t] # "output" /\ Answer(t, "parse_error")
    /\ UNCHANGED vars

\* The output is parsed, and what is no DetectionResult is the caller's error:
\* there is no fallback any more.  This program's worker writes a result;
\* another one may exit 0 with anything.  The input a disabled sandbox hands
\* back is a result only by chance.
Receive(t) ==
    /\ stage[t] = "calling"
    /\ pc[t] = "done"
    /\ \/ outcome[t] = "output" /\ Answer(t, "worker")
       \/ outcome[t] = "output" /\ t \in Foreign /\ Answer(t, "parse_error")
       \/ outcome[t] = "input" /\ Answer(t, "parse_error")
       \/ outcome[t] = "input" /\ Answer(t, "input")
       \/ outcome[t] \in Errors /\ To(t, "fallback") /\ UNCHANGED answer
    /\ UNCHANGED vars

\* analyze_bytes in the calling thread, without any limit.
Fallback(t) ==
    /\ stage[t] = "fallback"
    /\ Answer(t, "in_process")
    /\ UNCHANGED vars

\* The caller takes the answer; a call that was made is over.
Take(t) ==
    /\ stage[t] = "answered"
    /\ To(t, "idle")
    /\ answer' = [answer EXCEPT ![t] = "none"]
    /\ Reset(t) \/ (pc[t] = "idle" /\ UNCHANGED vars)

AnalysisThread(t) == Guard(t) \/ Call(t) \/ Receive(t) \/ Fallback(t)

AnalysisNext ==
    \/ \E t \in Threads : AnalysisThread(t) \/ Begin(t) \/ Take(t) \/ Proceed(t)
    \/ OrphanExits /\ UNCHANGED analysisVars

(* The OS runs the analyzing threads and the threads that write to stdin.  *)
(* Nothing is assumed of a worker, which may hang, of an orphan, nor of a  *)
(* caller beginning another analysis.                                      *)
AnalysisFairness ==
    \A t \in Threads :
        /\ WF_allVars(AnalysisThread(t))
        /\ WF_allVars(stage[t] = "calling" /\ Thread(t) /\ UNCHANGED analysisVars)
        /\ WF_allVars(Writer(t) /\ UNCHANGED analysisVars)

AnalysisSpec == InitAnalysis /\ [][AnalysisNext]_allVars /\ AnalysisFairness

-----------------------------------------------------------------------------
(* Properties.                                                             *)

\* The type invariant.
AnalysisTypeOK ==
    /\ TypeOK
    /\ stage \in [Threads -> {"idle", "guard", "ready", "calling", "fallback", "answered"}]
    /\ answer \in [Threads -> {"none", "rejected", "parse_error", "input", "worker",
                               "in_process"}]

\* With an enabled sandbox an accepted input is answered by a worker that has
\* seen all of it or by the thread itself: no crash, timeout or error status of
\* a worker becomes a failure of the analysis.  The one failure that does is
\* the exit status 0 of a foreign worker that printed something else.
FailuresAreMasked ==
    \A t \in Sandboxed : stage[t] = "answered" =>
        \/ answer[t] = "rejected" /\ t \in OfFiles
        \/ answer[t] = "in_process" /\ outcome[t] \in Errors
        \/ answer[t] = "worker" /\ worker[t] = "exited" /\ got[t] = InSize /\ wrote[t] = output[t]
        \/ answer[t] = "parse_error" /\ t \in Foreign /\ worker[t] = "exited"

\* SECURITY.md:64: "If a worker process crashes or is compromised, the main
\* analysis pipeline remains unaffected."  Whatever a worker was, an input that
\* passed the guard is analyzed.  It is not (src/analyzers/file.rs:89-94,
\* 108-110): the parse of a worker's output is outside the fallback.
CompromiseIsContained ==
    \A t \in Sandboxed : stage[t] = "answered" => answer[t] # "parse_error"

\* Every analysis ends, with its permit given back, even when the worker hangs
\* with a full stdout pipe or an unread stdin: the timeout kills it, and that
\* releases the writer thread.
AnalysisAnswers ==
    \A t \in Threads : stage[t] # "idle" ~> stage[t] = "answered"
=============================================================================
