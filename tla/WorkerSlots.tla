---------------------------- MODULE WorkerSlots ----------------------------
(***************************************************************************)
(* What a Sandbox with a semaphore promises to the threads that share it:  *)
(* a fixed number of slots.  A call takes a free slot or is refused on the *)
(* spot; it keeps its slot until it has an answer, and gives it back.      *)
(***************************************************************************)
EXTENDS Naturals, FiniteSets

CONSTANTS Threads, Slots

VARIABLES busy,    \* the threads whose call owns a slot
          answer   \* what the latest call of a thread returned

Init ==
    /\ busy = {}
    /\ answer = [t \in Threads |-> "none"]

Take(t) ==
    /\ t \notin busy
    /\ answer[t] = "none"
    /\ Cardinality(busy) < Slots
    /\ busy' = busy \cup {t}
    /\ UNCHANGED answer

\* The call fails at once, which it may do only when no slot is free.
Refuse(t) ==
    /\ t \notin busy
    /\ answer[t] = "none"
    /\ Cardinality(busy) = Slots
    /\ answer' = [answer EXCEPT ![t] = "error"]
    /\ UNCHANGED busy

Answer(t) ==
    /\ t \in busy
    /\ answer[t] = "none"
    /\ \E a \in {"ok", "error"} : answer' = [answer EXCEPT ![t] = a]
    /\ UNCHANGED busy

Release(t) ==
    /\ t \in busy
    /\ answer[t] # "none"
    /\ busy' = busy \ {t}
    /\ UNCHANGED answer

Forget(t) ==
    /\ t \notin busy
    /\ answer[t] # "none"
    /\ answer' = [answer EXCEPT ![t] = "none"]
    /\ UNCHANGED busy

Next == \E t \in Threads : Take(t) \/ Refuse(t) \/ Answer(t) \/ Release(t) \/ Forget(t)

Spec == Init /\ [][Next]_<<busy, answer>>
=============================================================================
