-------------------------- MODULE Detection_proofs --------------------------
(***************************************************************************)
(* Proofs about Detection, for any inputs, registry, models and overrides  *)
(* of its assumption: about what the three steps of an analysis make of    *)
(* what the detectors found while others replace the model and edit the    *)
(* configuration, and about what the detectors can find.                   *)
(***************************************************************************)
EXTENDS Detection, FiniteSetTheorems, WellFoundedInduction, TLAPS

-----------------------------------------------------------------------------
(* Every result is built from one model and one table of overrides, both   *)
(* in force since the analysis began, and then overlaid once.              *)

World ==
    /\ input \in Inputs
    /\ model \in models /\ models \subseteq {0} \cup Models
    /\ overrides \in configs /\ configs \subseteq Overrides
    /\ pc \in {"start", "rules", "overlay", "done"}
    /\ IF pc = "start" THEN rules = <<>> ELSE rules \in configs

Provenance ==
    /\ pc \in {"start", "rules"} => result = NoResult
    /\ pc = "overlay" =>
           \E m \in models, score \in Scores : result = Built(input, rules, m, score)
    /\ pc = "done" =>
           \E m \in models, score \in Scores :
               result = Overlaid(Built(input, rules, m, score), input.magic)

DetInv == World /\ Provenance

LEMMA InitDet == Init => DetInv
  BY DEF Init, DetInv, World, Provenance

LEMMA StepDet == DetInv /\ [Next]_vars => DetInv'
<1> SUFFICES ASSUME DetInv, [Next]_vars  PROVE DetInv'
  OBVIOUS
<1> USE DEF DetInv
<1>1. CASE ReadOverrides
  BY <1>1 DEF ReadOverrides, World, Provenance
<1>2. CASE Build
  <2>1. World'
    BY <1>2 DEF Build, World
  <2>2. PICK score \in Scores : result' = Built(input, rules, model, score)
    BY <1>2 DEF Build
  <2>3. pc' = "overlay" /\ models' = models /\ input' = input /\ rules' = rules
    BY <1>2 DEF Build
  <2>4. model \in models  BY DEF World
  <2> QED  BY <2>1, <2>2, <2>3, <2>4 DEF Provenance
<1>3. CASE Overlay
  <2>1. World'
    BY <1>3 DEF Overlay, World
  <2>2. /\ pc = "overlay" /\ pc' = "done" /\ result' = Overlaid(result, input.magic)
        /\ models' = models /\ input' = input /\ rules' = rules
    BY <1>3 DEF Overlay
  <2>3. PICK m \in models, score \in Scores : result = Built(input, rules, m, score)
    BY <2>2 DEF Provenance
  <2> QED  BY <2>1, <2>2, <2>3 DEF Provenance
<1>4. ASSUME NEW m \in {0} \cup Models, SetModel(m)  PROVE DetInv'
  <2>1. World'
    BY <1>4 DEF SetModel, World
  <2>2. /\ pc # "done" /\ models \subseteq models' /\ result' = result /\ pc' = pc
        /\ input' = input /\ rules' = rules
    BY <1>4 DEF SetModel
  <2> QED  BY <2>1, <2>2 DEF Provenance
<1>5. ASSUME NEW o \in Overrides, EditConfig(o)  PROVE DetInv'
  <2>1. World'
    BY <1>5 DEF EditConfig, World
  <2>2. /\ result' = result /\ pc' = pc /\ models' = models /\ input' = input
        /\ rules' = rules
    BY <1>5 DEF EditConfig
  <2> QED  BY <2>1, <2>2 DEF Provenance
<1>6. CASE UNCHANGED vars
  BY <1>6 DEF vars, World, Provenance
<1> QED  BY <1>1, <1>2, <1>3, <1>4, <1>5, <1>6 DEF Next

LEMMA AlwaysDet == Spec => []DetInv
  BY InitDet, StepDet, PTL DEF Spec

-----------------------------------------------------------------------------
(* Least elements and induction.                                           *)

\* A set of numbers has a least one.
LEMMA LeastIn ==
    ASSUME NEW S \in SUBSET Nat, S # {}
    PROVE  \E m \in S : \A n \in S : m <= n
<1>1. PICK m \in S : \A n \in S : ~(<<n, m>> \in OpToRel(<, Nat))
  BY NatLessThanWellFounded, WFMin
<1>2. ASSUME NEW n \in S  PROVE m <= n
  <2>1. <<n, m>> \in Nat \X Nat /\ <<n, m>>[1] = n /\ <<n, m>>[2] = m  OBVIOUS
  <2>2. ~(n < m)  BY <1>1, <2>1 DEF OpToRel
  <2> QED  BY <2>2
<1> QED  BY <1>2

\* Subsets of a finite set, by their number of elements.
LEMMA SmallestIn ==
    ASSUME NEW S, IsFiniteSet(S), NEW D \in SUBSET SUBSET S, D # {}
    PROVE  \E s \in D : \A t \in D : Cardinality(s) <= Cardinality(t)
<1> DEFINE Sizes == {Cardinality(s) : s \in D}
<1>1. Sizes \in SUBSET Nat /\ Sizes # {}
  <2>1. \A s \in D : Cardinality(s) \in Nat  BY FS_Subset, FS_CardinalityType
  <2> QED  BY <2>1
<1>2. PICK m \in Sizes : \A n \in Sizes : m <= n
  <2> HIDE DEF Sizes
  <2> QED  BY <1>1, LeastIn
<1> QED  BY <1>2

\* Induction up to n, for a set of numbers.
LEMMA Induction ==
    ASSUME NEW n \in Nat, NEW S, 0 \in S, \A k \in 0..(n - 1) : k \in S => k + 1 \in S
    PROVE  0..n \subseteq S
<1> DEFINE Lacking == (0..n) \ S
<1> SUFFICES ASSUME Lacking # {}  PROVE FALSE
  OBVIOUS
<1>1. Lacking \in SUBSET Nat  OBVIOUS
<1>2. PICK m \in Lacking : \A k \in Lacking : m <= k
  <2> HIDE DEF Lacking
  <2> QED  BY <1>1, LeastIn
<1>3. m # 0 /\ m - 1 \in 0..(n - 1) /\ m - 1 \notin Lacking  BY <1>2
<1> QED  BY <1>2, <1>3

-----------------------------------------------------------------------------
(* What Built and Overlaid make.                                           *)

Fields == {"type", "algorithm", "confidence", "risk", "cves", "conflict", "calibrated",
           "samples", "trace", "provisional", "magic"}

IsResult(r) == r = [f \in Fields |-> r[f]]

BuiltConfidence(i, m, score) == Min({1000, IF m = 0 THEN Heuristic(i) ELSE score})

LEMMA BuiltIs ==
    ASSUME NEW i, NEW over, NEW m, NEW score
    PROVE  LET r == Built(i, over, m, score) IN
           /\ IsResult(r)
           /\ r.type = Type(i) /\ r.algorithm = Found(i) /\ r.risk = Risk(i, over)
           /\ r.confidence = BuiltConfidence(i, m, score)
           /\ r.calibrated = (m # 0) /\ r.samples = m /\ r.trace = m
  BY DEF Built, BuiltConfidence, IsResult, Fields

\* Whatever the registry says, the model of a result stays.
LEMMA OverlaidModel ==
    ASSUME NEW r, IsResult(r), NEW matches
    PROVE  LET o == Overlaid(r, matches) IN
           o.samples = r.samples /\ o.trace = r.trace /\ o.calibrated = r.calibrated
<1>1. CASE matches = {}
  BY <1>1 DEF Overlaid
<1>2. CASE matches # {}
  BY <1>2 DEF Overlaid, IsResult, Fields
<1> QED  BY <1>1, <1>2

\* It decides nothing where the detectors found something.
LEMMA OverlaidFinding ==
    ASSUME NEW r, IsResult(r), NEW matches, r.algorithm # None \/ r.type # "plaintext"
    PROVE  LET o == Overlaid(r, matches) IN
           /\ o.type = r.type /\ o.algorithm = r.algorithm
           /\ o.risk = r.risk /\ o.confidence = r.confidence /\ o.conflict = r.conflict
<1>1. CASE matches = {}
  BY <1>1 DEF Overlaid
<1>2. CASE matches # {}
  BY <1>2 DEF Overlaid, IsResult, Fields
<1> QED  BY <1>1, <1>2

\* Elsewhere the best match does.
LEMMA OverlaidMatch ==
    ASSUME NEW r, IsResult(r), NEW matches, matches # {},
           r.algorithm = None, r.type = "plaintext"
    PROVE  LET o == Overlaid(r, matches)
               best == Registry[Best(matches)] IN
           /\ o.type = best.category /\ o.algorithm = best.id
           /\ o.risk = CategoryRisk(best.category)
           /\ o.confidence = IF r.confidence < 900 THEN 900 ELSE r.confidence
  BY DEF Overlaid, IsResult, Fields

\* What the assumption says of the registry.
LEMMA RegistryIs ==
    /\ Len(Registry) \in Nat /\ DOMAIN Registry = 1..Len(Registry)
    /\ \A k \in DOMAIN Registry :
        Registry[k].bytes \in Nat /\ Registry[k].category \notin {"hash", "encoding"}
<1> DEFINE S == [id : STRING, bytes : Nat, category : STRING \ {"hash", "encoding"}]
<1>1. Registry \in Seq(S)  BY DetectionAssumption
<1>2. \A s \in S : s.bytes \in Nat /\ s.category \notin {"hash", "encoding"}  OBVIOUS
<1> HIDE DEF S
<1>3. \A k \in DOMAIN Registry : Registry[k] \in S  BY <1>1
<1>4. Len(Registry) \in Nat /\ DOMAIN Registry = 1..Len(Registry)  BY <1>1
<1> QED  BY <1>2, <1>3, <1>4

\* Its signatures have a longest one.
LEMMA LongestExists ==
    \E longest \in Nat : \A k \in DOMAIN Registry : Registry[k].bytes \in 0..longest
<1> DEFINE n == Len(Registry)
           Has(k) == \E m \in Nat : \A j \in 1..k : Registry[j].bytes \in 0..m
           Good == {k \in 0..n : Has(k)}
<1>1. n \in Nat /\ DOMAIN Registry = 1..n /\ \A k \in 1..n : Registry[k].bytes \in Nat
  BY RegistryIs
<1> HIDE DEF n
<1>2. Has(0)  OBVIOUS
<1>3. ASSUME NEW k \in 0..(n - 1), Has(k)  PROVE Has(k + 1)
  <2>1. PICK m \in Nat : \A j \in 1..k : Registry[j].bytes \in 0..m  BY <1>3
  <2> DEFINE b == Registry[k + 1].bytes
  <2>2. b \in Nat  BY <1>1
  <2>3. m + b \in Nat /\ \A j \in 1..(k + 1) : Registry[j].bytes \in 0..(m + b)
    <3>1. \A j \in 1..(k + 1) : j = k + 1 \/ j \in 1..k  OBVIOUS
    <3>2. b \in 0..(m + b) /\ \A x \in 0..m : x \in 0..(m + b)  BY <2>2
    <3> QED  BY <2>1, <2>2, <3>1, <3>2
  <2> QED  BY <2>3
<1> HIDE DEF Has
<1>4. 0 \in Good /\ \A k \in 0..(n - 1) : k \in Good => k + 1 \in Good  BY <1>1, <1>2, <1>3
<1>5. 0..n \subseteq Good
  <2> HIDE DEF Good
  <2> QED  BY <1>1, <1>4, Induction
<1>6. Has(n)  BY <1>1, <1>5
<1> QED  BY <1>1, <1>6 DEF Has

\* max_by_key finds a signature: a longest one exists, and a last one of them.
LEMMA BestIsAMatch ==
    ASSUME NEW matches \in SUBSET DOMAIN Registry, matches # {}
    PROVE  Best(matches) \in matches
<1>0. PICK longest \in Nat : \A k \in DOMAIN Registry : Registry[k].bytes \in 0..longest
  BY LongestExists
<1>1. \A k \in matches : Registry[k].bytes \in 0..longest /\ k \in 1..Len(Registry)
  BY <1>0, RegistryIs
<1>2. PICK k1 \in matches : \A j \in matches : Registry[j].bytes <= Registry[k1].bytes
  <2> DEFINE S == {longest - Registry[k].bytes : k \in matches}
  <2>1. S \in SUBSET Nat /\ S # {}  BY <1>1
  <2>2. PICK least \in S : \A n \in S : least <= n  BY <2>1, LeastIn
  <2>3. PICK k \in matches : least = longest - Registry[k].bytes  BY <2>2
  <2>4. ASSUME NEW j \in matches  PROVE Registry[j].bytes <= Registry[k].bytes
    <3>1. longest - Registry[k].bytes <= longest - Registry[j].bytes  BY <2>2, <2>3
    <3> QED  BY <3>1, <1>1
  <2> QED  BY <2>4
<1> DEFINE L == {k \in matches : Registry[k].bytes = Registry[k1].bytes}
           I == {Len(Registry) - k : k \in L}
<1>3. I \in SUBSET Nat /\ I # {}
  BY <1>1
<1>4. PICK least \in I : \A n \in I : least <= n
  BY <1>3, LeastIn
<1>5. PICK k \in L : least = Len(Registry) - k
  BY <1>4
<1>6. \A j \in matches :
        \/ Registry[j].bytes < Registry[k].bytes
        \/ Registry[j].bytes = Registry[k].bytes /\ j <= k
  <2> TAKE j \in matches
  <2>1. CASE j \in L
    <3>1. Len(Registry) - k <= Len(Registry) - j  BY <1>4, <1>5, <2>1
    <3>2. j \in Int /\ k \in Int  BY <1>1, <1>5
    <3> QED  BY <3>1, <3>2, <2>1, <1>5
  <2>2. CASE j \notin L
    BY <2>2, <1>1, <1>2, <1>5
  <2> QED  BY <2>1, <2>2
<1> QED  BY <1>5, <1>6 DEF Best

\* What the type of a result says of its algorithm.
LEMMA TypeTells ==
    ASSUME NEW i
    PROVE  /\ HashIn(i) # None =>
                  Type(i) = "hash" /\ Found(i) = Algorithm(HashIn(i)) /\ Found(i) # None
           /\ HashIn(i) = None /\ EncodingIn(i) # None =>
                  Type(i) = "encoding" /\ Found(i) = EncodingIn(i)
           /\ HashIn(i) = None /\ EncodingIn(i) = None =>
                  Type(i) \in {"high_entropy", "plaintext"} /\ Found(i) = None
  BY DEF Type, Found, Algorithm, None

-----------------------------------------------------------------------------
(* Sums over finite sets.  The folds of TextFormats and Detection take the *)
(* elements of a set in an order of their own; that their sums are numbers,*)
(* do not depend on the order and grow with the set is shown of every      *)
(* function that satisfies the recursion of the fold.                      *)

OneOf(s) == CHOOSE x \in s : TRUE

Summed(f, w, s) == IF s = {} THEN 0 ELSE w[OneOf(s)] + f[s \ {OneOf(s)}]

\* f has the sums of w over the subsets of S.
Sums(f, w, S) == f \in [SUBSET S -> Nat] /\ \A s \in SUBSET S : f[s] = Summed(f, w, s)

\* What is left of a set without the element CHOOSE takes is smaller.
LEMMA Fewer ==
    ASSUME NEW S, IsFiniteSet(S), NEW s \in SUBSET S, s # {}
    PROVE  /\ OneOf(s) \in s /\ s \ {OneOf(s)} \in SUBSET S
           /\ Cardinality(s) \in Nat
           /\ Cardinality(s \ {OneOf(s)}) = Cardinality(s) - 1
<1>1. OneOf(s) \in s  BY DEF OneOf
<1>2. IsFiniteSet(s)  BY FS_Subset
<1> QED  BY <1>1, <1>2, FS_RemoveElement, FS_CardinalityType

\* The recursion has a solution.  It is built up for sets of at most k elements.
LEMMA SumExists ==
    ASSUME NEW S, IsFiniteSet(S), NEW w, \A x \in S : w[x] \in Nat
    PROVE  \E f : Sums(f, w, S)
<1> DEFINE Upto(k) == {s \in SUBSET S : Cardinality(s) <= k}
           Has(k) == \E f \in [SUBSET S -> Nat] : \A s \in Upto(k) : f[s] = Summed(f, w, s)
           n == Cardinality(S)
<1>0. n \in Nat  BY FS_CardinalityType
<1>1. Has(0)
  <2> DEFINE f == [s \in SUBSET S |-> 0]
  <2>1. \A s \in Upto(0) : s = {}
    <3> SUFFICES ASSUME NEW s \in SUBSET S, Cardinality(s) <= 0, s # {}  PROVE FALSE
      OBVIOUS
    <3>1. Cardinality(s) \in Nat /\ Cardinality(s) # 0  BY FS_Subset, FS_CardinalityType, FS_EmptySet
    <3> QED  BY <3>1
  <2>2. f \in [SUBSET S -> Nat]  OBVIOUS
  <2>3. \A s \in Upto(0) : f[s] = Summed(f, w, s)  BY <2>1 DEF Summed
  <2> QED  BY <2>2, <2>3
<1>2. ASSUME NEW k \in 0..(n - 1), Has(k)  PROVE Has(k + 1)
  <2>1. PICK g \in [SUBSET S -> Nat] : \A s \in Upto(k) : g[s] = Summed(g, w, s)
    BY <1>2
  <2> DEFINE f == [s \in SUBSET S |-> Summed(g, w, s)]
  <2>2. f \in [SUBSET S -> Nat]
    <3>1. ASSUME NEW s \in SUBSET S  PROVE Summed(g, w, s) \in Nat
      <4>1. CASE s = {}  BY <4>1 DEF Summed
      <4>2. CASE s # {}
        <5>1. OneOf(s) \in S /\ s \ {OneOf(s)} \in SUBSET S  BY <4>2, Fewer
        <5>2. w[OneOf(s)] \in Nat /\ g[s \ {OneOf(s)}] \in Nat  BY <5>1
        <5> QED  BY <5>2 DEF Summed
      <4> QED  BY <4>1, <4>2
    <3> QED  BY <3>1
  <2>3. ASSUME NEW s \in Upto(k + 1)  PROVE f[s] = Summed(f, w, s)
    <3>1. CASE s = {}  BY <3>1 DEF Summed
    <3>2. CASE s # {}
      <4>1. /\ s \ {OneOf(s)} \in SUBSET S
            /\ Cardinality(s) \in Nat
            /\ Cardinality(s \ {OneOf(s)}) = Cardinality(s) - 1
        BY <3>2, Fewer
      <4>2. s \ {OneOf(s)} \in Upto(k)  BY <4>1
      <4>3. f[s \ {OneOf(s)}] = g[s \ {OneOf(s)}]  BY <2>1, <4>2
      <4> QED  BY <3>2, <4>3 DEF Summed
    <3> QED  BY <3>1, <3>2
  <2> QED  BY <2>2, <2>3
<1>3. Has(n)
  <2> HIDE DEF Has
  <2> DEFINE Good == {k \in 0..n : Has(k)}
  <2>1. 0 \in Good  BY <1>0, <1>1
  <2>2. \A k \in 0..(n - 1) : k \in Good => k + 1 \in Good  BY <1>0, <1>2
  <2>3. 0..n \subseteq Good
    <3> HIDE DEF Good, n
    <3> QED  BY <1>0, <2>1, <2>2, Induction
  <2> QED  BY <1>0, <2>3
<1>4. Upto(n) = SUBSET S
  <2>1. \A s \in SUBSET S : Cardinality(s) <= n  BY FS_Subset
  <2> QED  BY <2>1
<1> QED  BY <1>3, <1>4 DEF Sums

\* The order in which the elements are taken does not matter.
LEMMA AnyElement ==
    ASSUME NEW S, IsFiniteSet(S), NEW w, \A x \in S : w[x] \in Nat, NEW f, Sums(f, w, S),
           NEW t \in SUBSET S, NEW x \in t
    PROVE  f[t] = w[x] + f[t \ {x}]
<1> DEFINE D == {s \in SUBSET S : \E y \in s : f[s] # w[y] + f[s \ {y}]}
<1> SUFFICES ASSUME D # {}  PROVE FALSE
  OBVIOUS
<1>1. PICK s \in D : \A u \in D : Cardinality(s) <= Cardinality(u)
  <2>1. D \in SUBSET SUBSET S  OBVIOUS
  <2> HIDE DEF D
  <2> QED  BY <2>1, SmallestIn
<1>2. PICK y \in s : f[s] # w[y] + f[s \ {y}]  OBVIOUS
<1> DEFINE p == OneOf(s)
<1>3. /\ p \in s /\ Cardinality(s) \in Nat
      /\ Cardinality(s \ {p}) = Cardinality(s) - 1 /\ Cardinality(s \ {y}) = Cardinality(s) - 1
  <2>1. IsFiniteSet(s)  BY FS_Subset
  <2> QED  BY <1>2, <2>1, Fewer, FS_RemoveElement
<1>4. f[s] = w[p] + f[s \ {p}]  BY <1>2 DEF Sums, Summed
<1>5. s \ {p} \notin D /\ s \ {y} \notin D
  <2> HIDE DEF D, p
  <2> QED  BY <1>1, <1>3
<1>6. p # y  BY <1>2, <1>4
<1>7. f[s \ {p}] = w[y] + f[(s \ {p}) \ {y}]  BY <1>2, <1>5, <1>6
<1>8. f[s \ {y}] = w[p] + f[(s \ {y}) \ {p}]  BY <1>3, <1>5, <1>6
<1>9. (s \ {p}) \ {y} = (s \ {y}) \ {p}  OBVIOUS
<1>10. /\ w[p] \in Nat /\ w[y] \in Nat /\ f[s \ {p}] \in Nat /\ f[s \ {y}] \in Nat
       /\ f[(s \ {y}) \ {p}] \in Nat
  BY <1>2, <1>3 DEF Sums
<1>11. f[s \ {p}] = w[y] + f[(s \ {y}) \ {p}]
  <2> HIDE DEF p
  <2> QED  BY <1>7, <1>9
<1> HIDE DEF p, D
<1> QED  BY <1>2, <1>4, <1>8, <1>10, <1>11

\* A sum grows with its set.
LEMMA SumGrows ==
    ASSUME NEW S, IsFiniteSet(S), NEW w, \A x \in S : w[x] \in Nat, NEW f, Sums(f, w, S),
           NEW t \in SUBSET S, NEW s \in SUBSET t
    PROVE  f[s] <= f[t]
<1> DEFINE D == {u \in SUBSET S : s \subseteq u /\ ~(f[s] <= f[u])}
<1> SUFFICES ASSUME D # {}  PROVE FALSE
  OBVIOUS
<1>1. PICK u \in D : \A v \in D : Cardinality(u) <= Cardinality(v)
  <2>1. D \in SUBSET SUBSET S  OBVIOUS
  <2> HIDE DEF D
  <2> QED  BY <2>1, SmallestIn
<1>2. f[s] \in Nat /\ f[u] \in Nat  BY DEF Sums
<1>3. PICK x \in u : x \notin s  BY <1>2
<1>4. Cardinality(u) \in Nat /\ Cardinality(u \ {x}) = Cardinality(u) - 1
  BY FS_Subset, FS_RemoveElement, FS_CardinalityType
<1>5. u \ {x} \notin D
  <2> HIDE DEF D
  <2> QED  BY <1>1, <1>4
<1>6. f[s] <= f[u \ {x}]  BY <1>3, <1>5
<1>7. f[u] = w[x] + f[u \ {x}]  BY AnyElement
<1>8. w[x] \in Nat /\ f[u \ {x}] \in Nat  BY DEF Sums
<1> QED  BY <1>2, <1>6, <1>7, <1>8

\* It is the same whatever set it is a part of.
LEMMA SumRestricts ==
    ASSUME NEW S, IsFiniteSet(S), NEW w, \A x \in S : w[x] \in Nat, NEW f, Sums(f, w, S),
           NEW A \in SUBSET S, NEW g, Sums(g, w, A)
    PROVE  g[A] = f[A]
<1> DEFINE D == {s \in SUBSET A : g[s] # f[s]}
<1> SUFFICES ASSUME D # {}  PROVE FALSE
  OBVIOUS
<1>0. IsFiniteSet(A)  BY FS_Subset
<1>1. PICK s \in D : \A u \in D : Cardinality(s) <= Cardinality(u)
  <2>1. D \in SUBSET SUBSET A  OBVIOUS
  <2> HIDE DEF D
  <2> QED  BY <1>0, <2>1, SmallestIn
<1>2. g[s] = Summed(g, w, s) /\ f[s] = Summed(f, w, s)  BY DEF Sums
<1>3. s # {}  BY <1>2 DEF Summed
<1> DEFINE u == s \ {OneOf(s)}
<1>4. u \in SUBSET A /\ Cardinality(s) \in Nat /\ Cardinality(u) = Cardinality(s) - 1
  BY <1>0, <1>3, Fewer
<1>5. u \notin D
  <2> HIDE DEF D, u
  <2> QED  BY <1>1, <1>4
<1>6. g[u] = f[u]  BY <1>4, <1>5
<1> QED  BY <1>2, <1>3, <1>6 DEF Summed

\* What satisfies the definition of a sum is one.
LEMMA SumIsFixed ==
    ASSUME NEW S, IsFiniteSet(S), NEW w, \A x \in S : w[x] \in Nat,
           NEW f, f = [t \in SUBSET S |-> Summed(f, w, t)]
    PROVE  Sums(f, w, S)
<1>1. \A t \in SUBSET S : f[t] = Summed(f, w, t)  OBVIOUS
<1>2. PICK g : Sums(g, w, S)  BY SumExists
<1> DEFINE D == {t \in SUBSET S : f[t] # g[t]}
<1>3. D = {}
  <2> SUFFICES ASSUME D # {}  PROVE FALSE
    OBVIOUS
  <2>1. PICK t \in D : \A u \in D : Cardinality(t) <= Cardinality(u)
    <3>1. D \in SUBSET SUBSET S  OBVIOUS
    <3> HIDE DEF D
    <3> QED  BY <3>1, SmallestIn
  <2>2. f[t] = Summed(f, w, t) /\ g[t] = Summed(g, w, t)
    BY <1>1, <1>2 DEF Sums
  <2>3. t # {}  BY <2>2 DEF Summed
  <2> DEFINE u == t \ {OneOf(t)}
  <2>4. u \in SUBSET S /\ Cardinality(t) \in Nat /\ Cardinality(u) = Cardinality(t) - 1
    BY <2>3, Fewer
  <2>5. u \notin D
    <3> HIDE DEF D, u
    <3> QED  BY <2>1, <2>4
  <2>6. f[u] = g[u]  BY <2>4, <2>5
  <2> QED  BY <2>2, <2>3, <2>6 DEF Summed
<1>4. \A t \in SUBSET S : f[t] = g[t] /\ g[t] \in Nat  BY <1>2, <1>3 DEF Sums
<1>5. f \in [SUBSET S -> Nat]  BY <1>4
<1> QED  BY <1>1, <1>5 DEF Sums

\* The sums over character classes are such sums.
LEMMA AmongIsFold ==
    ASSUME NEW s, NEW S
    PROVE  \E iter :
        /\ iter = CHOOSE f : f = [t \in SUBSET S |->
                    IF t = {} THEN 0 ELSE s.count[OneOf(t)] + f[t \ {OneOf(t)}]]
        /\ Among(s, S) = iter[S]
  BY DEF Among, MapThenSumSet, MapThenFoldSet, OneOf

\* The numbers of characters are sums.
LEMMA AmongSums ==
    ASSUME NEW s, NEW S, IsFiniteSet(S), \A c \in S : s.count[c] \in Nat
    PROVE  \E f : Sums(f, s.count, S) /\ Among(s, S) = f[S]
<1> DEFINE Sum(f) == [t \in SUBSET S |->
                    IF t = {} THEN 0 ELSE s.count[OneOf(t)] + f[t \ {OneOf(t)}]]
<1>1. PICK iter : iter = (CHOOSE f : f = Sum(f)) /\ Among(s, S) = iter[S]
  BY AmongIsFold
<1>2. PICK f : Sums(f, s.count, S)
  BY SumExists
<1>3. f = Sum(f)
  BY <1>2 DEF Sums, Summed
<1>4. iter = Sum(iter)
  <2> HIDE DEF Sum
  <2> QED  BY <1>1, <1>3
<1>5. iter = [t \in SUBSET S |-> Summed(iter, s.count, t)]
  BY <1>4 DEF Summed
<1>6. Sums(iter, s.count, S)
  <2> HIDE DEF Sum
  <2> QED  BY <1>5, SumIsFixed
<1> QED  BY <1>1, <1>6

TokensCount(i, c) == MapThenSumSet(LAMBDA k : i.tokens[k].count[c], DOMAIN i.tokens)

\* What the fold of Text is.
LEMMA TokensIsFold ==
    ASSUME NEW i, NEW c
    PROVE  \E iter :
        /\ iter = CHOOSE f : f = [t \in SUBSET DOMAIN i.tokens |->
                    IF t = {} THEN 0 ELSE i.tokens[OneOf(t)].count[c] + f[t \ {OneOf(t)}]]
        /\ TokensCount(i, c) = iter[DOMAIN i.tokens]
  BY DEF TokensCount, MapThenSumSet, MapThenFoldSet, OneOf

\* The characters of a class are counted over all tokens.
LEMMA TokensCounted ==
    ASSUME NEW i, NEW n \in Nat, DOMAIN i.tokens = 1..n,
           NEW c, \A k \in 1..n : i.tokens[k].count[c] \in Nat
    PROVE  TokensCount(i, c) \in Nat
<1> DEFINE S == DOMAIN i.tokens
           w == [k \in S |-> i.tokens[k].count[c]]
           Sum(f) == [t \in SUBSET S |->
                    IF t = {} THEN 0 ELSE i.tokens[OneOf(t)].count[c] + f[t \ {OneOf(t)}]]
<1>0. IsFiniteSet(S)  BY FS_Interval
<1>1. PICK iter : iter = (CHOOSE f : f = Sum(f)) /\ TokensCount(i, c) = iter[S]
  BY TokensIsFold
<1>2. \A k \in S : w[k] \in Nat  OBVIOUS
<1>3. \A f : Sum(f) = [t \in SUBSET S |-> Summed(f, w, t)]
  <2> SUFFICES ASSUME NEW f, NEW t \in SUBSET S
               PROVE  Sum(f)[t] = Summed(f, w, t)
    OBVIOUS
  <2>1. t # {} => OneOf(t) \in S  BY DEF OneOf
  <2> QED  BY <2>1 DEF Summed
<1> HIDE DEF w
<1>4. PICK f : Sums(f, w, S)
  <2> HIDE DEF S
  <2> QED  BY <1>0, <1>2, SumExists
<1>5. f = Sum(f)
  <2>1. f = [t \in SUBSET S |-> Summed(f, w, t)]  BY <1>4 DEF Sums
  <2> HIDE DEF Sum
  <2> QED  BY <2>1, <1>3
<1> HIDE DEF Sum
<1>6. iter = Sum(iter)  BY <1>1, <1>5
<1>7. Sums(iter, w, S)
  <2>1. iter = [t \in SUBSET S |-> Summed(iter, w, t)]  BY <1>3, <1>6
  <2> HIDE DEF S
  <2> QED  BY <1>0, <1>2, <2>1, SumIsFixed
<1> QED  BY <1>1, <1>7 DEF Sums

\* A finite set stays finite with four more elements.
LEMMA FourMore ==
    ASSUME NEW S, IsFiniteSet(S), NEW a, NEW b, NEW c, NEW d
    PROVE  IsFiniteSet(S \cup {a, b, c, d})
<1>1. /\ IsFiniteSet(S \cup {a}) /\ IsFiniteSet((S \cup {a}) \cup {b})
      /\ IsFiniteSet(((S \cup {a}) \cup {b}) \cup {c})
      /\ IsFiniteSet((((S \cup {a}) \cup {b}) \cup {c}) \cup {d})
  BY FS_AddElement
<1>2. S \cup {a, b, c, d} = (((S \cup {a}) \cup {b}) \cup {c}) \cup {d}  OBVIOUS
<1> QED  BY <1>1, <1>2

\* There are finitely many character classes.
LEMMA ClassesAreFinite == IsFiniteSet(Classes)
<1> DEFINE A == {"rest"} \cup {"zero", "one", "two7", "nine"}
           B == A \cup {"AF", "IO", "GZ", "af"}
           C == B \cup {"el", "gz", "pct", "plus"}
           D == C \cup {"eq", "minus", "zed", "other"}
<1>1. Classes = D
  BY DEF Classes, ClassSize
<1>2. IsFiniteSet({"rest"})  BY FS_Singleton
<1>3. IsFiniteSet(A)  BY <1>2, FourMore
<1>4. IsFiniteSet(B)
  <2> HIDE DEF A
  <2> QED  BY <1>3, FourMore
<1>5. IsFiniteSet(C)
  <2> HIDE DEF B
  <2> QED  BY <1>4, FourMore
<1>6. IsFiniteSet(D)
  <2> HIDE DEF C
  <2> QED  BY <1>5, FourMore
<1> QED  BY <1>1, <1>6

\* How many characters of some classes a string has: no more than it has at all.
LEMMA AmongType ==
    ASSUME NEW s, \A c \in Classes : s.count[c] \in Nat, NEW A \in SUBSET Classes
    PROVE  Among(s, A) \in Nat /\ Length(s) \in Nat /\ Among(s, A) <= Length(s)
<1>1. IsFiniteSet(Classes) /\ IsFiniteSet(A)  BY ClassesAreFinite, FS_Subset
<1>2. PICK f : Sums(f, s.count, Classes) /\ Length(s) = f[Classes]
  BY <1>1, AmongSums DEF Length
<1>3. PICK g : Sums(g, s.count, A) /\ Among(s, A) = g[A]
  BY <1>1, AmongSums
<1>4. g[A] = f[A]  BY <1>1, <1>2, <1>3, SumRestricts
<1>5. f[A] <= f[Classes]  BY <1>1, <1>2, SumGrows
<1>6. f[A] \in Nat /\ f[Classes] \in Nat  BY <1>2 DEF Sums
<1> QED  BY <1>2, <1>3, <1>4, <1>5, <1>6

-----------------------------------------------------------------------------
(* What detect_encoding returns, and the heuristic confidence.             *)

\* detect_encoding returns the first detector, in its order, that accepts.
LEMMA FirstAccepts ==
    ASSUME NEW s, EncodingOf(s) # None
    PROVE  \E k \in 1..8 : /\ EncodingOf(s) = Order[k] /\ Is(Order[k], s)
                           /\ \A j \in 1..8 : Is(Order[j], s) => k <= j
<1> DEFINE accept == {i \in DOMAIN Order : Is(Order[i], s)}
<1>1. DOMAIN Order = 1..8
  BY DEF Order
<1>2. accept \in SUBSET Nat /\ accept # {}
  BY <1>1 DEF EncodingOf
<1>3. PICK k \in accept : \A j \in accept : k <= j
  BY <1>2, LeastIn
<1>4. Min(accept) = k
  <2> HIDE DEF accept
  <2>1. k \in Nat /\ \A m \in accept : (\A y \in accept : m <= y) => m = k
    BY <1>2, <1>3
  <2>2. \E m \in accept : \A y \in accept : m <= y
    BY <1>3
  <2>3. Min(accept) \in accept /\ \A y \in accept : Min(accept) <= y
    BY <2>2 DEF Min
  <2> QED  BY <2>1, <2>3
<1>5. EncodingOf(s) = Order[k]
  BY <1>2, <1>4 DEF EncodingOf
<1> QED  BY <1>1, <1>3, <1>5

\* A weighted mean of parts is no more than the sum of the weights.
LEMMA Percent ==
    ASSUME NEW n \in Nat \ {0}, NEW x \in Nat, x <= 90 * n
    PROVE  x \div n \in 0..90
<1> DEFINE q == x \div n
<1>1. q \in Nat /\ n * q <= x
  OBVIOUS
<1>2. CASE q > 90
  <2>1. n * q >= n * 91  BY <1>1, <1>2
  <2> QED  BY <1>1, <2>1
<1> QED  BY <1>1, <1>2

\* What Min makes of two numbers.
LEMMA MinOf ==
    ASSUME NEW a \in Nat, NEW b \in Nat
    PROVE  Min({a, b}) \in Nat /\ Min({a, b}) <= a /\ Min({a, b}) <= b
<1>1. CASE a <= b
  <2>1. \A x \in {a, b} : (\A y \in {a, b} : x <= y) => x = a  BY <1>1
  <2>2. Min({a, b}) = a  BY <1>1, <2>1 DEF Min
  <2> QED  BY <1>1, <2>2
<1>2. CASE b <= a
  <2>1. \A x \in {a, b} : (\A y \in {a, b} : x <= y) => x = b  BY <1>2
  <2>2. Min({a, b}) = b  BY <1>2, <2>1 DEF Min
  <2> QED  BY <1>2, <2>2
<1> QED  BY <1>1, <1>2

\* Characters are counted, and Base64 decoding has one of its scores.
Typed(s) == (\A c \in Classes : s.count[c] \in Nat) /\ s.base64 \in {50, 90, 99}

\* No encoding is found with a confidence above 1, Base91 with its two ratios
\* (encoding.rs) included.
LEMMA EncodingConfidenceFits ==
    ASSUME NEW s, Typed(s), EncodingOf(s) # None
    PROVE  EncodingConfidence(s) \in 0..99
<1>1. /\ EncodingOf(s) \in {"Hex", "URLEncoding", "Base32", "Base64", "Base58", "Ascii85", "Z85",
                           "Base91"}
      /\ Is(EncodingOf(s), s)
  <2>1. PICK k \in 1..8 : EncodingOf(s) = Order[k] /\ Is(Order[k], s)
    BY FirstAccepts
  <2> QED  BY <2>1 DEF Order
<1>2. CASE EncodingOf(s) # "Base91"
  <2>1. EncodingConfidence(s) \in {95, 90, 85, 80, s.base64}
    BY <1>1, <1>2 DEF EncodingConfidence
  <2> QED  BY <2>1 DEF Typed
<1>3. CASE EncodingOf(s) = "Base91"
  <2> DEFINE valid == Among(s, Classes \ {"minus", "rest"})
             other == Among(s, Classes \ (Upper \cup Lower))
             n == Length(s)
             min == Min({other, n \div 2})
  <2>1. valid \in Nat /\ other \in Nat /\ n \in Nat /\ valid <= n
    <3>1. Classes \ {"minus", "rest"} \in SUBSET Classes /\ Classes \ (Upper \cup Lower) \in SUBSET Classes
      OBVIOUS
    <3> QED  BY <3>1, AmongType DEF Typed
  <2>2. n >= 8
    BY <1>1, <1>3 DEF Is, IsBase91
  <2>3. EncodingConfidence(s) = (70 * valid + 20 * min) \div n
    BY <1>3 DEF EncodingConfidence
  <2> HIDE DEF valid, other, n
  <2>4. n \div 2 \in Nat /\ n \div 2 <= n  BY <2>1
  <2>5. min \in Nat /\ min <= n  BY <2>1, <2>4, MinOf
  <2> HIDE DEF min
  <2> DEFINE x == 70 * valid + 20 * min
  <2>6. x \in Nat /\ x <= 90 * n  BY <2>1, <2>5
  <2> HIDE DEF x
  <2>7. x \div n \in 0..90  BY <2>1, <2>2, <2>6, Percent
  <2> QED  BY <2>3, <2>7 DEF x
<1> QED  BY <1>2, <1>3

\* The text of an input is a string.
LEMMA TextTyped ==
    ASSUME NEW i \in Inputs
    PROVE  Typed(Text(i))
<1> DEFINE n == Len(i.tokens)
<1>1. /\ i.blanks \in Nat /\ n \in Nat \ {0} /\ DOMAIN i.tokens = 1..n
      /\ \A k \in 1..n : Typed(i.tokens[k])
  <2> DEFINE S == [count : [Classes -> Nat], shape : Shapes, base64 : {50, 90, 99}]
  <2>1. i.blanks \in Nat /\ i.tokens \in Seq(S) /\ i.tokens # <<>>  BY DetectionAssumption
  <2>2. \A s \in S : Typed(s)  BY DEF Typed
  <2> HIDE DEF S
  <2>3. \A k \in 1..n : i.tokens[k] \in S  BY <2>1
  <2> QED  BY <2>1, <2>2, <2>3
<1>2. CASE i.blanks = 0
  BY <1>1, <1>2 DEF Text
<1>3. CASE i.blanks # 0
  <2>1. \A c \in Classes : TokensCount(i, c) \in Nat
    <3> HIDE DEF n
    <3> QED  BY <1>1, TokensCounted DEF Typed
  <2>2. /\ Text(i).base64 = 50
        /\ \A c \in Classes :
              Text(i).count[c] = (IF c = "rest" THEN i.blanks ELSE 0) + TokensCount(i, c)
    BY <1>3 DEF Text, TokensCount
  <2> QED  BY <1>1, <2>1, <2>2 DEF Typed
<1> QED  BY <1>2, <1>3

\* compute_confidence: the weighted sum of the signals of an input is a
\* confidence as it is, 0.965 at most, so that the clamp of
\* build_detection_result never changes it.
THEOREM HeuristicsFit ==
    ASSUME NEW i \in Inputs
    PROVE  Heuristic(i) \in 0..965
<1>1. Strength(i) \in 0..99
  <2>1. CASE HashIn(i) # None
    <3>1. HashIn(i) \in DOMAIN HashConfidence
      <4>1. PICK s : HashIn(i) = HashOf(s)  BY <2>1 DEF HashIn
      <4>2. HashOf(s) \in {"MD5", "NTLM", "UUID", "SHA1", "SHA256", "SHA512", None} \cup KdfShapes
        BY DEF HashOf, HexHash
      <4> QED  BY <2>1, <4>1, <4>2 DEF KdfShapes, HashConfidence
    <3>2. HashConfidence[HashIn(i)] \in 0..99  BY <3>1 DEF HashConfidence
    <3> QED  BY <2>1, <3>2 DEF Strength
  <2>2. CASE HashIn(i) = None /\ EncodingIn(i) # None
    <3>1. EncodingConfidence(Text(i)) \in 0..99
      BY <2>2, TextTyped, EncodingConfidenceFits DEF EncodingIn
    <3> QED  BY <2>2, <3>1 DEF Strength
  <2>3. CASE HashIn(i) = None /\ EncodingIn(i) = None
    BY <2>3 DEF Strength
  <2> QED  BY <2>1, <2>2, <2>3
<1>2. Consistency(i) \in 0..9
  BY DEF Consistency
<1> QED  BY <1>1, <1>2 DEF Heuristic

-----------------------------------------------------------------------------
(* The results.                                                            *)

\* OneModelPerResult: flag, sample count and decision trace of a result are of
\* one model, whatever set_model and reset_model do meanwhile.
THEOREM OneModel == Spec => []OneModelPerResult
<1>1. ASSUME DetInv  PROVE OneModelPerResult
  <2> SUFFICES ASSUME pc = "done"
               PROVE  /\ result.samples = result.trace
                      /\ result.calibrated <=> result.samples # 0
                      /\ result.samples \in models
    BY DEF OneModelPerResult
  <2>1. PICK m \in models, score \in Scores :
          result = Overlaid(Built(input, rules, m, score), input.magic)
    BY <1>1 DEF DetInv, Provenance
  <2>2. /\ IsResult(Built(input, rules, m, score))
        /\ Built(input, rules, m, score).calibrated = (m # 0)
        /\ Built(input, rules, m, score).samples = m
        /\ Built(input, rules, m, score).trace = m
    BY BuiltIs
  <2>3. result.samples = m /\ result.trace = m /\ result.calibrated = (m # 0)
    BY <2>1, <2>2, OverlaidModel
  <2> QED  BY <2>3
<1> QED  BY <1>1, AlwaysDet, PTL

\* DetectionsStand: whatever the bytes begin with, the registry overlay leaves
\* type, algorithm and confidence of what a detector recognised.
THEOREM DetectionsAreKept == Spec => []DetectionsStand
<1>1. ASSUME DetInv  PROVE DetectionsStand
  <2> SUFFICES ASSUME pc = "done", HashIn(input) # None \/ EncodingIn(input) # None
               PROVE  /\ result.algorithm \in {Algorithm(HashIn(input)), EncodingIn(input)}
                      /\ result.type \in {"hash", "encoding"}
                      /\ ~result.calibrated => result.confidence = Heuristic(input)
    BY DEF DetectionsStand
  <2>1. PICK m \in models, score \in Scores :
          result = Overlaid(Built(input, rules, m, score), input.magic)
    BY <1>1 DEF DetInv, Provenance
  <2> DEFINE r == Built(input, rules, m, score)
  <2>2. /\ IsResult(r) /\ r.type = Type(input) /\ r.algorithm = Found(input)
        /\ r.confidence = BuiltConfidence(input, m, score)
        /\ r.calibrated = (m # 0)
    BY BuiltIs
  <2>3. /\ r.algorithm \in {Algorithm(HashIn(input)), EncodingIn(input)}
        /\ r.type \in {"hash", "encoding"} /\ r.algorithm # None
    BY <2>2, TypeTells
  <2>4. /\ result.type = r.type /\ result.algorithm = r.algorithm
        /\ result.confidence = r.confidence /\ result.calibrated = r.calibrated
    <3> HIDE DEF r
    <3> QED  BY <2>1, <2>2, <2>3, OverlaidFinding, OverlaidModel DEF r
  <2>5. m = 0 => r.confidence = Heuristic(input)
    <3>1. Heuristic(input) \in 0..1000  BY <1>1, HeuristicsFit DEF DetInv, World
    <3>2. Min({1000, Heuristic(input)}) = Heuristic(input)  BY <3>1 DEF Min
    <3> QED  BY <2>2, <3>2 DEF BuiltConfidence
  <2> QED  BY <2>2, <2>3, <2>4, <2>5
<1> QED  BY <1>1, AlwaysDet, PTL

\* RiskIsExplained: the risk of a hash or an encoding is the rule of a
\* cryptotrace.toml in force during the analysis, or the table's.
THEOREM RisksAreExplained == Spec => []RiskIsExplained
<1>1. ASSUME DetInv  PROVE RiskIsExplained
  <2> SUFFICES ASSUME pc = "done", result.type \in {"hash", "encoding"}
               PROVE  \E o \in configs :
                        IF result.algorithm \in DOMAIN o
                        THEN result.risk = o[result.algorithm]
                        ELSE IF HashIn(input) # None
                        THEN result.risk = HashRisk(HashIn(input))
                        ELSE result.risk = "low"
    BY DEF RiskIsExplained
  <2>1. PICK m \in models, score \in Scores :
          result = Overlaid(Built(input, rules, m, score), input.magic)
    BY <1>1 DEF DetInv, Provenance
  <2> DEFINE r == Built(input, rules, m, score)
  <2>2. /\ IsResult(r) /\ r.type = Type(input) /\ r.algorithm = Found(input)
        /\ r.risk = Risk(input, rules)
    BY BuiltIs
  <2>3. rules \in configs
    BY <1>1 DEF DetInv, World
  <2>4. CASE HashIn(input) = None /\ EncodingIn(input) = None
    <3>1. r.type \in {"high_entropy", "plaintext"} /\ r.algorithm = None
      BY <2>2, <2>4, TypeTells
    <3>2. CASE input.magic = {} \/ r.type # "plaintext"
      <4>1. result.type = r.type
        <5>1. CASE input.magic = {}
          BY <2>1, <5>1 DEF Overlaid
        <5>2. CASE r.type # "plaintext"
          BY <2>1, <2>2, <5>2, OverlaidFinding
        <5> QED  BY <3>2, <5>1, <5>2
      <4> QED  BY <4>1, <3>1
    <3>3. CASE input.magic # {} /\ r.type = "plaintext"
      <4>1. Best(input.magic) \in DOMAIN Registry
        <5>1. input.magic \in SUBSET DOMAIN Registry
          BY <1>1, DetectionAssumption DEF DetInv, World
        <5> QED  BY <5>1, <3>3, BestIsAMatch
      <4>2. result.type = Registry[Best(input.magic)].category
        BY <2>1, <2>2, <3>1, <3>3, OverlaidMatch
      <4> QED  BY <4>1, <4>2, RegistryIs
    <3> QED  BY <3>2, <3>3
  <2>5. CASE HashIn(input) # None \/ EncodingIn(input) # None
    <3>1. r.algorithm # None  BY <2>2, <2>5, TypeTells
    <3>2. result.algorithm = Found(input) /\ result.risk = Risk(input, rules)
      BY <2>1, <2>2, <3>1, OverlaidFinding
    <3> QED  BY <3>2, <2>3, <2>5 DEF Risk
  <2> QED  BY <2>4, <2>5
<1> QED  BY <1>1, AlwaysDet, PTL

\* TypeOK: a result has one of the types and levels and a confidence from 0 to
\* 1, whichever of the heuristic, the model and the registry decided it.
THEOREM ResultsAreTyped == Spec => []TypeOK
<1>1. ASSUME NEW i \in Inputs, NEW over, over = <<>> \/ over \in Overrides,
             NEW m, NEW score \in Scores
      PROVE  LET r == Built(i, over, m, score) IN
             /\ r.type \in Types /\ r.risk \in Levels /\ r.confidence \in 0..1000
  <2>1. LET r == Built(i, over, m, score) IN
        /\ r.type = Type(i) /\ r.risk = Risk(i, over)
        /\ r.confidence = BuiltConfidence(i, m, score)
    BY BuiltIs
  <2>2. Type(i) \in Types  BY DEF Type, Types
  <2>3. Risk(i, over) \in Levels
    <3>1. \A a \in DOMAIN over : over[a] \in Levels  BY <1>1, DetectionAssumption
    <3>2. HashRisk(HashIn(i)) \in Levels  BY DEF HashRisk, Levels
    <3> QED  BY <3>1, <3>2 DEF Risk, Levels
  <2>4. Heuristic(i) \in 0..1000 /\ score \in 0..1000
    BY DetectionAssumption, HeuristicsFit
  <2> DEFINE c == IF m = 0 THEN Heuristic(i) ELSE score
  <2>5. c \in 0..1000
    BY <2>4
  <2>6. BuiltConfidence(i, m, score) = Min({1000, c})
    BY DEF BuiltConfidence
  <2> HIDE DEF c
  <2>7. Min({1000, c}) = c
    BY <2>5 DEF Min
  <2> QED  BY <2>1, <2>2, <2>3, <2>5, <2>6, <2>7
<1>2. ASSUME DetInv  PROVE TypeOK
  <2>1. /\ input \in Inputs /\ model \in {0} \cup Models /\ overrides \in Overrides
        /\ pc \in {"start", "rules", "overlay", "done"}
        /\ rules \in Overrides \cup {<<>>}
    BY <1>2 DEF DetInv, World
  <2>2. ASSUME pc \in {"start", "rules"}
        PROVE  result.type \in Types /\ result.risk \in Levels /\ result.confidence \in 0..1000
    <3>1. result = NoResult  BY <1>2, <2>2 DEF DetInv, Provenance
    <3> QED  BY <3>1 DEF NoResult, Types, Levels
  <2>3. ASSUME pc = "overlay"
        PROVE  result.type \in Types /\ result.risk \in Levels /\ result.confidence \in 0..1000
    <3>1. PICK m \in models, score \in Scores : result = Built(input, rules, m, score)
      BY <1>2, <2>3 DEF DetInv, Provenance
    <3>2. rules = <<>> \/ rules \in Overrides
      BY <2>1
    <3>3. LET r == Built(input, rules, m, score) IN
          /\ r.type \in Types /\ r.risk \in Levels /\ r.confidence \in 0..1000
      BY <1>1, <2>1, <3>2
    <3> QED  BY <3>1, <3>3
  <2>4. ASSUME pc = "done"
        PROVE  result.type \in Types /\ result.risk \in Levels /\ result.confidence \in 0..1000
    <3>1. PICK m \in models, score \in Scores :
            result = Overlaid(Built(input, rules, m, score), input.magic)
      BY <1>2, <2>4 DEF DetInv, Provenance
    <3> DEFINE r == Built(input, rules, m, score)
    <3>2. /\ IsResult(r) /\ r.type \in Types /\ r.risk \in Levels /\ r.confidence \in 0..1000
      BY <1>1, <2>1, BuiltIs
    <3> HIDE DEF r
    <3>3. CASE r.algorithm # None \/ r.type # "plaintext"
      BY <3>1, <3>2, <3>3, OverlaidFinding DEF r
    <3>4. CASE input.magic = {}
      BY <3>1, <3>2, <3>4 DEF Overlaid, r
    <3>5. CASE r.algorithm = None /\ r.type = "plaintext" /\ input.magic # {}
      <4>1. Best(input.magic) \in DOMAIN Registry
        <5>1. input.magic \in SUBSET DOMAIN Registry
          BY <2>1, DetectionAssumption
        <5> QED  BY <5>1, <3>5, BestIsAMatch
      <4>2. /\ result.type = Registry[Best(input.magic)].category
            /\ result.risk = CategoryRisk(Registry[Best(input.magic)].category)
            /\ result.confidence = IF r.confidence < 900 THEN 900 ELSE r.confidence
        BY <3>1, <3>2, <3>5, OverlaidMatch DEF r
      <4>3. CategoryRisk(Registry[Best(input.magic)].category) \in Levels
        BY DEF CategoryRisk, Levels
      <4> QED  BY <3>2, <4>1, <4>2, <4>3 DEF Types
    <3> QED  BY <3>3, <3>4, <3>5
  <2> QED  BY <2>1, <2>2, <2>3, <2>4 DEF TypeOK
<1> QED  BY <1>2, AlwaysDet, PTL

\* EncodingIsTheNarrowest: whatever the alphabets have in common, the first
\* detector that accepts a text is the one with the smallest alphabet of those
\* that do, Base64 before Base58 apart.
THEOREM NarrowestFirst == Spec => []EncodingIsTheNarrowest
<1>1. EncodingIsTheNarrowest
  <2> DEFINE s == Text(input)
             e == EncodingOf(s)
  <2> SUFFICES ASSUME e \in DOMAIN Alphabet, NEW f \in DOMAIN Alphabet \ {e}, Is(f, s)
               PROVE  Alphabet[e] < Alphabet[f] \/ (e = "Base64" /\ f = "Base58")
    BY DEF EncodingIsTheNarrowest, EncodingIn
  <2> HIDE DEF s
  <2>1. e # None  BY DEF Alphabet, None
  <2>2. PICK k \in 1..8 : e = Order[k] /\ \A j \in 1..8 : Is(Order[j], s) => k <= j
    BY <2>1, FirstAccepts
  <2>3. \E j \in 1..8 : f = Order[j]
    <3>1. f \in {"Hex", "Base32", "Base58", "Base64", "Z85", "Base91"}  BY DEF Alphabet
    <3>2. /\ Order[1] = "Hex" /\ Order[3] = "Base32" /\ Order[4] = "Base64"
          /\ Order[5] = "Base58" /\ Order[7] = "Z85" /\ Order[8] = "Base91"
      BY DEF Order
    <3> QED  BY <3>1, <3>2
  <2>4. PICK j \in 1..8 : f = Order[j] /\ k < j
    BY <2>2, <2>3
  <2>5. CASE k \in {1, 3} \/ j \in {7, 8}
    BY <2>2, <2>4, <2>5 DEF Order, Alphabet
  <2>6. CASE k \notin {1, 3} /\ j \notin {7, 8}
    BY <2>2, <2>4, <2>6 DEF Order, Alphabet
  <2> QED  BY <2>5, <2>6
<1> QED  BY <1>1, PTL

\* Where only the registry recognises the bytes, the result names a signature
\* that matched and has the risk of its category, whatever rule for it any
\* cryptotrace.toml has (file.rs:55-72), though docs/CONFIGURATION.md:80 calls
\* the overrides "Algorithm -> RiskLevel overrides".
THEOREM SignaturesHaveTheRiskOfTheirCategory ==
    Spec => [](pc = "done" /\ Type(input) = "plaintext" /\ input.magic # {} =>
                 \E k \in input.magic :
                     /\ result.algorithm = Registry[k].id
                     /\ result.risk = CategoryRisk(Registry[k].category))
<1>1. ASSUME DetInv, pc = "done", Type(input) = "plaintext", input.magic # {}
      PROVE  \E k \in input.magic :
                 /\ result.algorithm = Registry[k].id
                 /\ result.risk = CategoryRisk(Registry[k].category)
  <2>1. PICK m \in models, score \in Scores :
          result = Overlaid(Built(input, rules, m, score), input.magic)
    BY <1>1 DEF DetInv, Provenance
  <2> DEFINE r == Built(input, rules, m, score)
  <2>2. IsResult(r) /\ r.type = "plaintext" /\ r.algorithm = Found(input)  BY <1>1, BuiltIs
  <2>3. Found(input) = None  BY <1>1, TypeTells
  <2>4. Best(input.magic) \in input.magic
    BY <1>1, BestIsAMatch, DetectionAssumption DEF DetInv, World
  <2> HIDE DEF r
  <2>5. result = Overlaid(r, input.magic)  BY <2>1 DEF r
  <2> QED  BY <1>1, <2>2, <2>3, <2>4, <2>5, OverlaidMatch
<1> QED  BY <1>1, AlwaysDet, PTL
-----------------------------------------------------------------------------
(* Hashes in hexadecimal are encodings too.                                *)

\* The whole input is one string of hexadecimal digits.
Bare(i) == i.blanks = 0 /\ Len(i.tokens) = 1 /\ Chars(i.tokens[1]) \subseteq HexDigits

\* try_detect and detect_hex overlap: what is a hash by its digits and length
\* is also the first encoding that detect_encoding asks for.
LEMMA BareIsHex ==
    ASSUME NEW i \in Inputs, Bare(i), HashIn(i) # None
    PROVE  /\ EncodingIn(i) = "Hex"
           /\ HashIn(i) \in {"MD5", "NTLM", "UUID", "SHA1", "SHA256", "SHA512"}
<1> DEFINE s == i.tokens[1]
<1>1. Text(i) = s /\ DOMAIN i.tokens = 1..1
  <2>1. i.tokens \in Seq([count : [Classes -> Nat], shape : Shapes, base64 : {50, 90, 99}])
    BY DetectionAssumption
  <2> QED  BY <2>1 DEF Bare, Text
<1>2. HashIn(i) = HashOf(s)
  <2> DEFINE hit == {k \in DOMAIN i.tokens : HashOf(i.tokens[k]) # None}
  <2>1. hit # {} /\ HashIn(i) = HashOf(i.tokens[Min(hit)])
    BY DEF HashIn
  <2>2. hit = {1}  BY <1>1, <2>1
  <2> HIDE DEF hit
  <2>3. Min(hit) = 1  BY <2>2 DEF Min
  <2> QED  BY <2>1, <2>3
<1>3. HashOf(s) = HexHash(s)  BY DEF Bare, HashOf
<1>4. HashIn(i) \in {"MD5", "NTLM", "UUID", "SHA1", "SHA256", "SHA512"}
  BY <1>2, <1>3 DEF HexHash
<1>5. Length(s) \in {32, 40, 64, 128}
  BY <1>2, <1>3 DEF HexHash
<1>6. Is("Hex", s)
  BY <1>5 DEF Bare, Is, IsHex
<1>7. EncodingOf(s) = "Hex"
  <2>1. 1 \in DOMAIN Order /\ Order[1] = "Hex"  BY DEF Order
  <2>2. EncodingOf(s) # None
    <3> DEFINE accept == {k \in DOMAIN Order : Is(Order[k], s)}
    <3>1. accept # {}  BY <1>6, <2>1
    <3>2. \A k \in DOMAIN Order : Order[k] # None  BY DEF Order, None
    <3>3. Min(accept) \in accept
      <4>1. accept \in SUBSET Nat  BY DEF Order
      <4> HIDE DEF accept
      <4>2. \E m \in accept : \A n \in accept : m <= n  BY <3>1, <4>1, LeastIn
      <4> QED  BY <4>2 DEF Min
    <3> QED  BY <3>1, <3>2, <3>3 DEF EncodingOf
  <2>3. PICK k \in 1..8 : EncodingOf(s) = Order[k] /\ \A j \in 1..8 : Is(Order[j], s) => k <= j
    BY <2>2, FirstAccepts
  <2>4. k <= 1  BY <1>6, <2>1, <2>3
  <2> QED  BY <2>1, <2>3, <2>4
<1> QED  BY <1>1, <1>4, <1>7 DEF EncodingIn

\* compute_conflicting_signals therefore names a conflict for every hash in
\* hexadecimal that is the whole input, an unmistakable one included, where the
\* example of README.md:407 has an MD5 hash without any.
THEOREM BareHashesConflict ==
    Spec => [](pc = "done" /\ Bare(input) /\ HashIn(input) # None
                 => result.type = "hash" /\ result.conflict)
<1>1. ASSUME DetInv, pc = "done", Bare(input), HashIn(input) # None
      PROVE  result.type = "hash" /\ result.conflict
  <2>1. PICK m \in models, score \in Scores :
          result = Overlaid(Built(input, rules, m, score), input.magic)
    BY <1>1 DEF DetInv, Provenance
  <2> DEFINE r == Built(input, rules, m, score)
  <2>2. IsResult(r) /\ r.type = Type(input) /\ r.algorithm = Found(input)
    BY BuiltIs
  <2>3. r.type = "hash" /\ r.algorithm # None
    BY <1>1, <2>2, TypeTells
  <2>4. r.conflict = Conflict(input)
    BY DEF Built
  <2>5. EncodingIn(input) = "Hex"
    BY <1>1, BareIsHex DEF DetInv, World
  <2>6. Conflict(input)
    BY <1>1, <2>5 DEF Conflict, None
  <2> HIDE DEF r
  <2>7. result.type = r.type /\ result.conflict = r.conflict
    <3>1. result = Overlaid(r, input.magic)  BY <2>1 DEF r
    <3> QED  BY <2>2, <2>3, <3>1, OverlaidFinding
  <2> QED  BY <2>3, <2>4, <2>6, <2>7
<1> QED  BY <1>1, AlwaysDet, PTL

\* The cap of 0.95 for a hash that is also an encoding, which compute_confidence
\* has (confidence.rs:92) and build_detection_result has not, is exceeded.
THEOREM SharedSignalsAreNotCapped ==
    ASSUME NEW i \in Inputs, Bare(i), HashIn(i) \in {"SHA256", "SHA512"}, i.entropy < 40
    PROVE  EncodingIn(i) = "Hex" /\ Heuristic(i) = 955
<1>1. HashIn(i) # None  BY DEF None
<1>2. Strength(i) = 97  BY <1>1 DEF Strength, HashConfidence
<1>3. Consistency(i) = 9  BY <1>1 DEF Consistency
<1> QED  BY <1>1, <1>2, <1>3, BareIsHex DEF Heuristic
=============================================================================
