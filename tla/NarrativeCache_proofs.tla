------------------------ MODULE NarrativeCache_proofs ------------------------
(***************************************************************************)
(* Proofs about NarrativeCache, for any tasks, keys and capacity.          *)
(***************************************************************************)
EXTENDS NarrativeCache, FiniteSetTheorems, WellFoundedInduction, TLAPS

\* What the calls have, and what the entries hold.
Sound ==
    /\ \A t \in Tasks : pc[t] # "idle" => req[t] \in Keys
    /\ RepliesAreAboutTheInput
    /\ \A k \in present : value[k] = k

\* The times of the entries tell which keys were used since.
Ordered ==
    /\ \A k \in present : used[k] < clock
    /\ \A j, k \in present : j # k /\ used[k] <= used[j] => j \in newer[k]

LruInv == TypeOK /\ Sound /\ Ordered /\ CapacityRespected /\ RecentlyUsedStays

LEMMA FiniteKeys ==
    ASSUME NEW S \in SUBSET Keys
    PROVE  IsFiniteSet(S) /\ Cardinality(S) \in Nat
  BY CacheAssumption, FS_Subset, FS_CardinalityType

LEMMA LeastOf ==
    ASSUME NEW S \in SUBSET Nat, S # {}
    PROVE  \E m \in S : \A n \in S : m <= n
<1>1. PICK m \in S : \A n \in S : ~(<<n, m>> \in OpToRel(<, Nat))
  BY NatLessThanWellFounded, WFMin
<1>2. ASSUME NEW n \in S  PROVE m <= n
  <2>1. <<n, m>> \in Nat \X Nat /\ <<n, m>>[1] = n /\ <<n, m>>[2] = m  OBVIOUS
  <2>2. ~(n < m)  BY <1>1, <2>1 DEF OpToRel
  <2> QED  BY <2>2
<1> QED  BY <1>2

\* min_by_key finds an entry wherever there is one.
LEMMA OldestExists ==
    ASSUME TypeOK, present # {}
    PROVE  Oldest # {}
<1>1. present \subseteq Keys /\ used \in [Keys -> Nat]  BY DEF TypeOK
<1>2. {used[k] : k \in present} \in SUBSET Nat /\ {used[k] : k \in present} # {}  BY <1>1
<1>3. PICK m \in {used[k] : k \in present} : \A n \in {used[k] : k \in present} : m <= n
  BY <1>2, LeastOf
<1>4. PICK k \in present : used[k] = m  BY <1>3
<1> QED  BY <1>3, <1>4 DEF Oldest

\* An access to k, which is or has just become an entry.
LEMMA TouchOrders ==
    ASSUME TypeOK, Ordered, NEW k \in Keys, Touch(k), present' \subseteq present \cup {k}
    PROVE  /\ Ordered'
           /\ used' \in [Keys -> Nat] /\ clock' \in Nat /\ newer' \in [Keys -> SUBSET Keys]
<1>1. /\ used \in [Keys -> Nat] /\ clock \in Nat /\ newer \in [Keys -> SUBSET Keys]
      /\ present \subseteq Keys
  BY DEF TypeOK
<1>2. /\ used' = [used EXCEPT ![k] = clock] /\ clock' = clock + 1
      /\ newer' = [j \in Keys |-> IF j = k THEN {} ELSE newer[j] \cup {k}]
  BY DEF Touch
<1>3. used' \in [Keys -> Nat] /\ clock' \in Nat /\ newer' \in [Keys -> SUBSET Keys]
  BY <1>1, <1>2
<1>4. \A j \in present' : used'[j] < clock'
  BY <1>1, <1>2 DEF Ordered
<1>5. ASSUME NEW i \in present', NEW j \in present', i # j, used'[j] <= used'[i]
      PROVE  i \in newer'[j]
  <2>1. i \in Keys /\ j \in Keys  BY <1>1
  <2>2. CASE i = k  BY <1>2, <1>5, <2>1, <2>2
  <2>3. CASE j = k
    <3>1. i \in present /\ used'[i] = used[i] /\ used'[j] = clock  BY <1>1, <1>2, <1>5, <2>3, <2>1
    <3>2. used[i] < clock  BY <3>1 DEF Ordered
    <3> QED  BY <1>1, <1>5, <2>1, <3>1, <3>2
  <2>4. CASE i # k /\ j # k
    <3>1. i \in present /\ j \in present /\ used'[i] = used[i] /\ used'[j] = used[j]
      BY <1>1, <1>2, <2>1, <2>4
    <3>2. i \in newer[j]  BY <1>5, <3>1 DEF Ordered
    <3> QED  BY <1>2, <2>1, <2>4, <3>2
  <2> QED  BY <2>2, <2>3, <2>4
<1> QED  BY <1>3, <1>4, <1>5 DEF Ordered

\* What went stays away for as long as enough other keys were used since.
LEMMA TouchKeepsGone ==
    ASSUME TypeOK, NEW k \in Keys, Touch(k), NEW gone \in Keys, gone # k,
           Cardinality(newer[gone]) + 1 >= Capacity
    PROVE  Cardinality(newer'[gone]) + 1 >= Capacity
<1>1. newer[gone] \in SUBSET Keys  BY DEF TypeOK
<1>2. newer'[gone] = newer[gone] \cup {k}  BY DEF Touch
<1>3. newer'[gone] \in SUBSET Keys  BY <1>1, <1>2
<1>4. /\ Cardinality(newer[gone]) \in Nat /\ Cardinality(newer'[gone]) \in Nat
      /\ Cardinality(newer[gone]) <= Cardinality(newer'[gone])
  BY <1>1, <1>2, <1>3, FiniteKeys, FS_Subset
<1> QED  BY <1>4, CacheAssumption

LEMMA InsertKeeps ==
    ASSUME LruInv, NEW k \in Keys, NEW v, InsertEntry(k, v)
    PROVE  /\ Ordered' /\ CapacityRespected' /\ RecentlyUsedStays'
           /\ present' \subseteq stored' /\ stored' \subseteq Keys
           /\ used' \in [Keys -> Nat] /\ clock' \in Nat /\ newer' \in [Keys -> SUBSET Keys]
<1>1. /\ TypeOK /\ Ordered /\ present \subseteq stored /\ stored \subseteq Keys
      /\ newer \in [Keys -> SUBSET Keys]
  BY DEF LruInv, TypeOK
<1>2. Touch(k) /\ stored' = stored \cup {k}  BY DEF InsertEntry
<1>3. /\ present' \subseteq present \cup {k}
      /\ \/ Victims = {} /\ present' = present \cup {k}
         \/ \E e \in Victims : present' = (present \ {e}) \cup {k}
  BY DEF InsertEntry
<1>4. IsFiniteSet(present) /\ Cardinality(present) \in Nat /\ Capacity \in Nat
  BY <1>1, FiniteKeys, CacheAssumption
<1>5. Cardinality(present) <= IF Capacity = 0 THEN 1 ELSE Capacity
  BY DEF LruInv, CapacityRespected
<1>6. /\ IsFiniteSet(present \cup {k})
      /\ Cardinality(present \cup {k}) = IF k \in present THEN Cardinality(present)
                                         ELSE Cardinality(present) + 1
  BY <1>4, FS_AddElement
<1>7. CASE Victims = {} /\ present' = present \cup {k}
  <2>1. Cardinality(present) < Capacity \/ present = {}
    BY <1>1, <1>4, <1>7, OldestExists DEF Victims
  <2>2. CapacityRespected'
    <3>1. CASE Cardinality(present) < Capacity
      BY <1>4, <1>6, <1>7, <3>1 DEF CapacityRespected
    <3>2. CASE present = {}
      <4>1. Cardinality(present) = 0  BY <3>2, FS_EmptySet
      <4> QED  BY <1>4, <1>6, <1>7, <4>1 DEF CapacityRespected
    <3> QED  BY <2>1, <3>1, <3>2
  <2>3. ASSUME NEW gone \in stored' \ present'
        PROVE  Cardinality(newer'[gone]) + 1 >= Capacity
    <3>1. gone \in stored \ present /\ gone # k  BY <1>2, <1>7
    <3>2. Cardinality(newer[gone]) + 1 >= Capacity
      BY <3>1 DEF LruInv, RecentlyUsedStays
    <3> QED  BY <1>1, <1>2, <3>1, <3>2, TouchKeepsGone
  <2> QED  BY <1>1, <1>2, <1>3, <1>7, <2>2, <2>3, TouchOrders DEF RecentlyUsedStays
<1>8. ASSUME NEW e \in Victims, present' = (present \ {e}) \cup {k}
      PROVE  CapacityRespected' /\ RecentlyUsedStays'
  <2>1. /\ Cardinality(present) >= Capacity /\ e \in present
        /\ \A j \in present : used[e] <= used[j]
    BY <1>8 DEF Victims, Oldest
  <2>2. IsFiniteSet(present \ {e}) /\ Cardinality(present \ {e}) = Cardinality(present) - 1
    BY <1>4, <2>1, FS_RemoveElement
  <2>3. Cardinality(present') <= Cardinality(present) /\ Cardinality(present') \in Nat
    <3>1. Cardinality(present') = IF k \in present \ {e} THEN Cardinality(present) - 1
                                  ELSE Cardinality(present) - 1 + 1
      BY <1>8, <2>2, FS_AddElement
    <3>2. Cardinality(present) # 0  BY <1>4, <2>1, FS_EmptySet
    <3> QED  BY <1>4, <3>1, <3>2
  <2>4. CapacityRespected'  BY <1>4, <1>5, <2>3 DEF CapacityRespected
  <2>5. Cardinality(newer[e]) + 1 >= Capacity
    <3>1. present \ {e} \subseteq newer[e]  BY <2>1, <1>1 DEF Ordered
    <3>2. newer[e] \in SUBSET Keys  BY <1>1, <2>1
    <3>3. Cardinality(present \ {e}) <= Cardinality(newer[e]) /\ Cardinality(newer[e]) \in Nat
      BY <3>1, <3>2, FiniteKeys, FS_Subset
    <3> QED  BY <1>4, <2>1, <2>2, <3>3
  <2>6. ASSUME NEW gone \in stored' \ present'
        PROVE  Cardinality(newer'[gone]) + 1 >= Capacity
    <3>1. gone \in Keys /\ gone # k /\ (gone = e \/ gone \in stored \ present)
      BY <1>1, <1>2, <1>8
    <3>2. Cardinality(newer[gone]) + 1 >= Capacity
      BY <2>5, <3>1 DEF LruInv, RecentlyUsedStays
    <3> QED  BY <1>1, <1>2, <3>1, <3>2, TouchKeepsGone
  <2> QED  BY <2>4, <2>6 DEF RecentlyUsedStays
<1>9. Ordered' /\ used' \in [Keys -> Nat] /\ clock' \in Nat /\ newer' \in [Keys -> SUBSET Keys]
  BY <1>1, <1>2, <1>3, TouchOrders
<1>10. present' \subseteq stored' /\ stored' \subseteq Keys  BY <1>1, <1>2, <1>3
<1> QED  BY <1>3, <1>7, <1>8, <1>9, <1>10

LEMMA Step ==
    ASSUME LruInv, [Next]_vars
    PROVE  LruInv'
<1>1. /\ TypeOK /\ Sound /\ Ordered /\ CapacityRespected /\ RecentlyUsedStays
      /\ pc \in [Tasks -> {"idle", "asking", "storing", "done", "failed"}]
      /\ req \in [Tasks -> Keys \cup {None}] /\ reply \in [Tasks -> Keys \cup {None}]
      /\ value \in [Keys -> Keys \cup {None}] /\ newer \in [Keys -> SUBSET Keys]
      /\ used \in [Keys -> Nat] /\ clock \in Nat /\ calls \in Nat /\ enabled \in BOOLEAN
      /\ present \subseteq stored /\ stored \subseteq Keys
  BY DEF LruInv, TypeOK
<1>2. CASE UNCHANGED vars
  BY <1>2
  DEF vars, LruInv, TypeOK, Sound, RepliesAreAboutTheInput, Ordered, CapacityRespected,
      RecentlyUsedStays
<1>3. CASE InitCache \/ ClearCache
  <2>1. /\ present' = {} /\ stored' = {} /\ newer' = [k \in Keys |-> {}]
        /\ enabled' \in BOOLEAN /\ UNCHANGED <<value, used, clock, pc, req, reply, calls>>
    BY <1>1, <1>3 DEF InitCache, ClearCache, Emptied
  <2>2. CapacityRespected'
    <3>1. Cardinality(present') = 0  BY <2>1, FS_EmptySet
    <3> QED  BY <3>1, CacheAssumption DEF CapacityRespected
  <2>3. RecentlyUsedStays' /\ Ordered'  BY <2>1 DEF RecentlyUsedStays, Ordered
  <2>4. Sound'  BY <1>1, <2>1 DEF Sound, RepliesAreAboutTheInput
  <2>5. TypeOK'  BY <1>1, <2>1 DEF TypeOK
  <2> QED  BY <2>2, <2>3, <2>4, <2>5 DEF LruInv
<1>4. ASSUME NEW t \in Tasks, NEW k \in Keys, Hit(t, k)  PROVE LruInv'
  <2>1. /\ k \in present /\ Touch(k) /\ UNCHANGED <<enabled, present, value, stored>>
        /\ req' = [req EXCEPT ![t] = k] /\ reply' = [reply EXCEPT ![t] = value[k]]
        /\ pc' = [pc EXCEPT ![t] = "done"] /\ calls' = calls + 1
    BY <1>4 DEF Hit, Call
  <2>2. Ordered' /\ used' \in [Keys -> Nat] /\ clock' \in Nat /\ newer' \in [Keys -> SUBSET Keys]
    BY <1>1, <2>1, TouchOrders
  <2>3. Sound'
    <3>1. value[k] = k  BY <1>1, <2>1 DEF Sound
    <3> QED  BY <1>1, <2>1, <3>1 DEF Sound, RepliesAreAboutTheInput
  <2>4. TypeOK'  BY <1>1, <2>1, <2>2 DEF TypeOK
  <2>5. ASSUME NEW gone \in stored' \ present'
        PROVE  Cardinality(newer'[gone]) + 1 >= Capacity
    <3>1. gone \in stored \ present /\ gone \in Keys /\ gone # k  BY <1>1, <2>1
    <3>2. Cardinality(newer[gone]) + 1 >= Capacity  BY <1>1, <3>1 DEF RecentlyUsedStays
    <3> QED  BY <1>1, <2>1, <3>1, <3>2, TouchKeepsGone
  <2>6. CapacityRespected'  BY <1>1, <2>1 DEF CapacityRespected
  <2> QED  BY <2>2, <2>3, <2>4, <2>5, <2>6 DEF LruInv, RecentlyUsedStays
\* Steps that leave the cache alone.
<1>5. ASSUME UNCHANGED cacheVars, TypeOK', Sound'  PROVE LruInv'
  <2>1. /\ present' = present /\ used' = used /\ clock' = clock /\ stored' = stored
        /\ newer' = newer
    BY <1>5 DEF cacheVars
  <2> QED  BY <1>1, <1>5, <2>1 DEF LruInv, Ordered, CapacityRespected, RecentlyUsedStays
<1>6. ASSUME NEW t \in Tasks, NEW k \in Keys, Miss(t, k)  PROVE LruInv'
  <2>1. /\ UNCHANGED cacheVars /\ req' = [req EXCEPT ![t] = k]
        /\ reply' = [reply EXCEPT ![t] = None] /\ pc' = [pc EXCEPT ![t] = "asking"]
        /\ calls' = calls + 1
    BY <1>6 DEF Miss, Call
  <2>2. TypeOK' /\ Sound'
    BY <1>1, <2>1 DEF TypeOK, Sound, RepliesAreAboutTheInput, cacheVars
  <2> QED  BY <1>5, <2>1, <2>2
<1>7. ASSUME NEW t \in Tasks, Answered(t) \/ ProviderFails(t) \/ Drop(t)  PROVE LruInv'
  <2>1. /\ UNCHANGED cacheVars /\ req' = req /\ calls' = calls /\ pc[t] # "idle"
        /\ \/ reply' = [reply EXCEPT ![t] = req[t]] /\ pc' = [pc EXCEPT ![t] = "storing"]
           \/ /\ reply' = reply
              /\ pc' = [pc EXCEPT ![t] = "failed"] \/ pc' = [pc EXCEPT ![t] = "idle"]
    BY <1>7 DEF Answered, ProviderFails, Drop
  <2>2. TypeOK'  BY <1>1, <2>1 DEF TypeOK, cacheVars
  <2>3. Sound'  BY <1>1, <2>1 DEF Sound, RepliesAreAboutTheInput, cacheVars
  <2> QED  BY <1>5, <2>1, <2>2, <2>3
<1>8. ASSUME NEW t \in Tasks, Store(t)  PROVE LruInv'
  <2>1. /\ pc[t] = "storing" /\ req' = req /\ reply' = reply /\ calls' = calls
        /\ pc' = [pc EXCEPT ![t] = "done"]
    BY <1>8 DEF Store
  <2>2. req[t] \in Keys /\ reply[t] = req[t]
    BY <1>1, <2>1 DEF Sound, RepliesAreAboutTheInput
  <2>3. CASE enabled
    <3>1. InsertEntry(req[t], reply[t]) /\ enabled' = enabled  BY <1>8, <2>3 DEF Store
    <3>2. /\ value' = [value EXCEPT ![req[t]] = req[t]] /\ present' \subseteq present \cup {req[t]}
      BY <2>2, <3>1 DEF InsertEntry
    <3>3. /\ Ordered' /\ CapacityRespected' /\ RecentlyUsedStays'
          /\ present' \subseteq stored' /\ stored' \subseteq Keys
          /\ used' \in [Keys -> Nat] /\ clock' \in Nat /\ newer' \in [Keys -> SUBSET Keys]
      BY <2>2, <3>1, InsertKeeps
    <3>4. TypeOK'  BY <1>1, <2>1, <2>2, <3>1, <3>2, <3>3 DEF TypeOK
    <3>5. \A k \in present' : value'[k] = k
      BY <1>1, <2>2, <3>2 DEF Sound
    <3>6. Sound'  BY <1>1, <2>1, <2>2, <3>5 DEF Sound, RepliesAreAboutTheInput
    <3> QED  BY <3>3, <3>4, <3>6 DEF LruInv
  <2>4. CASE ~enabled
    <3>1. UNCHANGED cacheVars  BY <1>8, <2>4 DEF Store
    <3>2. TypeOK' /\ Sound'
      BY <1>1, <2>1, <2>2, <3>1 DEF TypeOK, Sound, RepliesAreAboutTheInput, cacheVars
    <3> QED  BY <1>5, <3>1, <3>2
  <2> QED  BY <2>3, <2>4
<1> QED  BY <1>2, <1>3, <1>4, <1>6, <1>7, <1>8 DEF Next

LEMMA Always == Spec => []LruInv
<1>1. ASSUME Init  PROVE LruInv
  <2>1. TypeOK  BY <1>1 DEF Init, TypeOK
  <2>2. Sound /\ Ordered /\ RecentlyUsedStays
    BY <1>1 DEF Init, Sound, RepliesAreAboutTheInput, Ordered, RecentlyUsedStays
  <2>3. CapacityRespected
    <3>1. Cardinality(present) = 0  BY <1>1, FS_EmptySet DEF Init
    <3> QED  BY <3>1, CacheAssumption DEF CapacityRespected
  <2> QED  BY <2>1, <2>2, <2>3 DEF LruInv
<1>2. LruInv /\ [Next]_vars => LruInv'  BY Step
<1> QED  BY <1>1, <1>2, PTL DEF Spec

\* The cache and what the calls keep have their types.
THEOREM CacheTypes == Spec => []TypeOK
<1>1. LruInv => TypeOK  BY DEF LruInv
<1> QED  BY <1>1, Always, PTL

\* For any number of tasks and any capacity, the cache never holds more than
\* max_entries entries (cache.rs, insert).
THEOREM CapacityHolds == Spec => []CapacityRespected
<1>1. LruInv => CapacityRespected  BY DEF LruInv
<1> QED  BY <1>1, Always, PTL

\* A call returns the narrative of its own input, whatever other calls stored,
\* evicted or cleared while it asked the provider (prompt.rs,
\* generate_ai_narrative).
THEOREM RepliesFit == Spec => []RepliesAreAboutTheInput
<1>1. LruInv => RepliesAreAboutTheInput  BY DEF LruInv, Sound
<1> QED  BY <1>1, Always, PTL

\* An entry is evicted only after max_entries - 1 other keys were used since
\* (cache.rs, min_by_key on last_access).
THEOREM EvictionIsLru == Spec => []RecentlyUsedStays
<1>1. LruInv => RecentlyUsedStays  BY DEF LruInv
<1> QED  BY <1>1, Always, PTL
=============================================================================
