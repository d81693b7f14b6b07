--------------------------- MODULE NarrativeCache ---------------------------
(***************************************************************************)
(* The AI narrative cache: generate_ai_narrative, init_cache and           *)
(* clear_cache (src/intelligence/prompt.rs) over the LruCache of           *)
(* src/cache.rs.  Tasks look up under the lock, ask the provider without   *)
(* it and store under it again.                                            *)
(*                                                                         *)
(* A narrative is named by the cache key of the result it was written for  *)
(* (the hash of its input, type and algorithm).  last_access is a logical  *)
(* clock: no two accesses read the same time.                              *)
(***************************************************************************)
EXTENDS Naturals, FiniteSets

CONSTANTS
    Tasks,     \* the tasks that ask for narratives
    Keys,      \* cache keys
    Capacity,  \* LruCache.max_entries
    MaxCalls   \* bound on the calls of generate_ai_narrative

ASSUME CacheAssumption ==
    /\ IsFiniteSet(Keys)
    /\ Capacity \in Nat
    /\ MaxCalls \in Nat

None == "none"

VARIABLES
    enabled,  \* NARRATIVE_CACHE is Some
    present,  \* the keys of LruCache.entries
    value,    \* CacheEntry.value
    used,     \* CacheEntry.last_access
    clock,    \* the time of the next access
    pc,       \* where the call of a task is
    req,      \* the key of the result the call was made with
    reply,    \* the narrative the call has
    calls,    \* calls made so far
    stored,   \* history: the keys stored since the cache was last emptied
    newer     \* history: the keys used since a key was last used

cacheVars == <<enabled, present, value, used, clock, stored, newer>>
vars == <<enabled, present, value, used, clock, pc, req, reply, calls, stored, newer>>

Init ==
    /\ enabled = FALSE
    /\ present = {}
    /\ value = [k \in Keys |-> None]
    /\ used = [k \in Keys |-> 0]
    /\ clock = 1
    /\ pc = [t \in Tasks |-> "idle"]
    /\ req = [t \in Tasks |-> None]
    /\ reply = [t \in Tasks |-> None]
    /\ calls = 0
    /\ stored = {}
    /\ newer = [k \in Keys |-> {}]

-----------------------------------------------------------------------------
(* LruCache.                                                               *)

\* The entry of k has just been read or written.
Touch(k) ==
    /\ used' = [used EXCEPT ![k] = clock]
    /\ clock' = clock + 1
    /\ newer' = [j \in Keys |-> IF j = k THEN {} ELSE newer[j] \cup {k}]

Oldest == {k \in present : \A j \in present : used[k] <= used[j]}

\* Slip: the newest entry goes (max_by_key for min_by_key).
VictimsNewest ==
    IF Cardinality(present) >= Capacity
    THEN {k \in present : \A j \in present : used[j] <= used[k]}
    ELSE {}

\* Slip: `>` for `>=`.
VictimsAboveMax == IF Cardinality(present) > Capacity THEN Oldest ELSE {}

\* The keys one of which insert evicts, whether or not its own key is there.
Victims == IF Cardinality(present) >= Capacity THEN Oldest ELSE {}

\* Slip: clear forgets that the entries were stored but keeps them.
EmptiedInNameOnly ==
    /\ stored' = {}
    /\ newer' = [k \in Keys |-> {}]
    /\ UNCHANGED present

Emptied ==
    /\ present' = {}
    /\ stored' = {}
    /\ newer' = [k \in Keys |-> {}]

InsertEntry(k, v) ==
    /\ \/ Victims = {} /\ present' = present \cup {k}
       \/ \E e \in Victims : present' = (present \ {e}) \cup {k}
    /\ value' = [value EXCEPT ![k] = v]
    /\ stored' = stored \cup {k}
    /\ Touch(k)

-----------------------------------------------------------------------------
(* prompt.rs.                                                              *)

InitCache ==
    /\ enabled' = TRUE
    /\ Emptied
    /\ UNCHANGED <<value, used, clock, pc, req, reply, calls>>

ClearCache ==
    /\ enabled
    /\ Emptied
    /\ UNCHANGED <<enabled, value, used, clock, pc, req, reply, calls>>

\* generate_ai_narrative begins for a result with key k.
Call(t, k) ==
    /\ pc[t] = "idle"
    /\ calls < MaxCalls
    /\ calls' = calls + 1
    /\ req' = [req EXCEPT ![t] = k]

\* Slip: whatever the cache holds is a hit.
HitAny(t, k) ==
    /\ Call(t, k)
    /\ enabled
    /\ \E j \in present :
        /\ reply' = [reply EXCEPT ![t] = value[j]]
        /\ Touch(j)
    /\ pc' = [pc EXCEPT ![t] = "done"]
    /\ UNCHANGED <<enabled, present, value, stored>>

Hit(t, k) ==
    /\ Call(t, k)
    /\ enabled /\ k \in present
    /\ reply' = [reply EXCEPT ![t] = value[k]]
    /\ Touch(k)
    /\ pc' = [pc EXCEPT ![t] = "done"]
    /\ UNCHANGED <<enabled, present, value, stored>>

Miss(t, k) ==
    /\ Call(t, k)
    /\ ~ (enabled /\ k \in present)
    /\ reply' = [reply EXCEPT ![t] = None]
    /\ pc' = [pc EXCEPT ![t] = "asking"]
    /\ UNCHANGED cacheVars

\* The provider answers; the lock is not held.
Answered(t) ==
    /\ pc[t] = "asking"
    /\ reply' = [reply EXCEPT ![t] = req[t]]
    /\ pc' = [pc EXCEPT ![t] = "storing"]
    /\ UNCHANGED <<cacheVars, req, calls>>

ProviderFails(t) ==
    /\ pc[t] = "asking"
    /\ pc' = [pc EXCEPT ![t] = "failed"]
    /\ UNCHANGED <<cacheVars, req, reply, calls>>

Store(t) ==
    /\ pc[t] = "storing"
    /\ pc' = [pc EXCEPT ![t] = "done"]
    /\ IF enabled
       THEN InsertEntry(req[t], reply[t]) /\ UNCHANGED enabled
       ELSE UNCHANGED cacheVars
    /\ UNCHANGED <<req, reply, calls>>

\* The caller is done with the result.
Drop(t) ==
    /\ pc[t] \in {"done", "failed"}
    /\ pc' = [pc EXCEPT ![t] = "idle"]
    /\ UNCHANGED <<cacheVars, req, reply, calls>>

Next ==
    \/ InitCache \/ ClearCache
    \/ \E t \in Tasks :
        \/ \E k \in Keys : Hit(t, k) \/ Miss(t, k)
        \/ Answered(t) \/ ProviderFails(t) \/ Store(t) \/ Drop(t)

Spec == Init /\ [][Next]_vars

-----------------------------------------------------------------------------
(* Properties.                                                             *)

\* The type invariant.
TypeOK ==
    /\ enabled \in BOOLEAN
    /\ present \subseteq stored /\ stored \subseteq Keys
    /\ value \in [Keys -> Keys \cup {None}]
    /\ used \in [Keys -> Nat]
    /\ clock \in Nat
    /\ pc \in [Tasks -> {"idle", "asking", "storing", "done", "failed"}]
    /\ req \in [Tasks -> Keys \cup {None}]
    /\ reply \in [Tasks -> Keys \cup {None}]
    /\ calls \in Nat
    /\ newer \in [Keys -> SUBSET Keys]

\* The cache never holds more than max_entries entries, however many tasks
\* store at once; a cache of capacity 0 holds one.
CapacityRespected ==
    Cardinality(present) <= IF Capacity = 0 THEN 1 ELSE Capacity

\* A call returns the narrative of its own input, from the cache or from the
\* provider, whatever was evicted, cleared or overwritten in the meantime.
RepliesAreAboutTheInput ==
    \A t \in Tasks : pc[t] \in {"storing", "done"} => reply[t] = req[t]

\* An entry goes only after max_entries - 1 other keys were used more recently
\* than its own: the cache keeps what was used last, even when a second store
\* of a key that is already there evicts another one.
RecentlyUsedStays ==
    \A k \in stored \ present : Cardinality(newer[k]) + 1 >= Capacity
=============================================================================
