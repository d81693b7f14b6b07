----------------------- MODULE RecursiveAnalyzer_proofs -----------------------
(***************************************************************************)
(* Proofs about RecursiveAnalyzer, for any blobs, lengths and limits.      *)
(***************************************************************************)
EXTENDS RecursiveAnalyzer, SequenceTheorems, TLAPS

\* The world Init chose.
WorldOK ==
    /\ kind \in [Blobs -> Kinds]
    /\ length \in [Blobs -> Lengths]
    /\ inner \in [Blobs -> Blobs \cup {"bad"}]
    /\ start \in Blobs

\* Data the loop has gone on with.
Unwrapped(b) == Decoded(b) # "none" /\ ~Bomb(b)

\* What the loop is at.
AtTheInnermost ==
    /\ Depth = 0 => current = start
    /\ Depth > 0 => Unwrapped(layers[Depth]) /\ current = inner[layers[Depth]]
    /\ seen = {layers[i] : i \in 1..Depth}

ChainInv ==
    /\ TypeOK
    /\ WorldOK
    /\ LayersAreAChain
    /\ \A i \in 1..(Depth - 1) : Unwrapped(layers[i])
    /\ result = "running" => AtTheInnermost
    /\ OkMeansUnwrapped
    /\ ErrorsAreJustified

LEMMA DecodedIsInner ==
    ASSUME WorldOK, NEW b \in Blobs
    PROVE  /\ Decoded(b) # "none" =>
                /\ Decoded(b) = inner[b] /\ inner[b] \in Blobs /\ inner[b] # "bad"
                /\ kind[b] = "compressed" => ~Expands(b, DecodeLimit)
           /\ Decoded(b) = "none" =>
                \/ inner[b] = "bad"
                \/ kind[b] = "compressed" /\ Expands(b, DecodeLimit)
<1>1. "none" \notin Blobs /\ inner[b] \in Blobs \cup {"bad"}
  BY RecursiveAssumption DEF WorldOK
<1> QED  BY <1>1 DEF Decoded

\* An iteration that returns leaves the layers and the data.
LEMMA Returns ==
    ASSUME ChainInv, NEW r \in {"ok", "timeout", "cycle", "bomb"}, Return(r), seen' \subseteq Blobs,
           OkMeansUnwrapped', ErrorsAreJustified'
    PROVE  ChainInv'
<1>1. /\ layers' = layers /\ current' = current /\ elapsed' = elapsed /\ result' = r
      /\ kind' = kind /\ length' = length /\ inner' = inner /\ start' = start
  BY DEF Return, world
<1>2. TypeOK' /\ WorldOK'  BY <1>1 DEF ChainInv, TypeOK, WorldOK
<1>3. LayersAreAChain'  BY <1>1 DEF ChainInv, LayersAreAChain, Depth
<1>4. \A b : Unwrapped(b)' <=> Unwrapped(b)
  BY <1>1 DEF Unwrapped, Decoded, Bomb, Expands
<1> QED  BY <1>1, <1>2, <1>3, <1>4 DEF ChainInv, Depth

LEMMA ChainStep ==
    ASSUME ChainInv, [Next]_vars
    PROVE  ChainInv'
<1>1. /\ layers \in Seq(Blobs) /\ Depth \in Nat /\ current \in Blobs /\ seen \subseteq Blobs
      /\ MaxDepth \in Nat /\ WorldOK
      /\ \A i \in 1..Depth : layers[i] \in Blobs
  BY RecursiveAssumption, ElementOfSeq DEF ChainInv, TypeOK, Depth
<1>2. CASE UNCHANGED vars
  <2>1. /\ layers' = layers /\ current' = current /\ elapsed' = elapsed /\ result' = result
        /\ kind' = kind /\ length' = length /\ inner' = inner /\ start' = start /\ seen' = seen
    BY <1>2 DEF vars
  <2> QED  BY <2>1 DEF ChainInv, TypeOK, WorldOK, LayersAreAChain, Depth, Unwrapped, Decoded, Bomb,
                       Expands, AtTheInnermost, OkMeansUnwrapped, ErrorsAreJustified
<1>3. CASE DepthReached
  <2>1. Depth = MaxDepth  BY <1>1, <1>3 DEF DepthReached, ChainInv, LayersAreAChain, Depth
  <2>2. result' = "ok" /\ layers' = layers /\ seen' = seen /\ Return("ok")
    BY <1>3 DEF DepthReached, Return
  <2>3. OkMeansUnwrapped' /\ ErrorsAreJustified'
    BY <2>1, <2>2 DEF OkMeansUnwrapped, ErrorsAreJustified, Depth
  <2> QED  BY <1>1, <2>2, <2>3, Returns
<1>4. CASE TimedOut
  <2>1. result' = "timeout" /\ seen' = seen /\ Return("timeout")  BY <1>4 DEF TimedOut, Return
  <2>2. OkMeansUnwrapped' /\ ErrorsAreJustified'
    BY <2>1 DEF OkMeansUnwrapped, ErrorsAreJustified
  <2> QED  BY <1>1, <2>1, <2>2, Returns
<1>5. CASE Cycle
  <2>1. result = "running" /\ current \in seen /\ seen' = seen /\ Return("cycle")
    BY <1>5 DEF Cycle
  <2>2. AtTheInnermost  BY <2>1 DEF ChainInv
  <2>3. PICK i \in 1..Depth : layers[i] = current  BY <2>1, <2>2 DEF AtTheInnermost
  <2>4. Depth > 0  BY <1>1, <2>3
  <2>5. inner[layers[Depth]] = layers[i]  BY <2>2, <2>3, <2>4 DEF AtTheInnermost
  <2>6. result' = "cycle" /\ layers' = layers /\ inner' = inner  BY <2>1 DEF Return, world
  <2>7. OkMeansUnwrapped' /\ ErrorsAreJustified'
    BY <2>3, <2>5, <2>6 DEF OkMeansUnwrapped, ErrorsAreJustified, Depth
  <2> QED  BY <1>1, <2>1, <2>7, Returns
<1>6. CASE NothingFound
  <2>1. /\ result = "running" /\ kind[current] = "plain" /\ seen' = seen \cup {current}
        /\ Return("ok")
    BY <1>6 DEF NothingFound, Fresh
  <2>2. AtTheInnermost  BY <2>1 DEF ChainInv
  <2>3. /\ result' = "ok" /\ layers' = layers /\ inner' = inner /\ kind' = kind /\ start' = start
    BY <2>1 DEF Return, world
  <2>4. CASE Depth = 0
    BY <2>1, <2>2, <2>3, <2>4, <1>1, Returns
    DEF AtTheInnermost, OkMeansUnwrapped, ErrorsAreJustified, Depth
  <2>5. CASE Depth > 0
    <3>1. kind[inner[layers[Depth]]] = "plain"  BY <2>1, <2>2, <2>5 DEF AtTheInnermost
    <3>2. OkMeansUnwrapped' /\ ErrorsAreJustified'
      BY <2>3, <2>5, <3>1 DEF OkMeansUnwrapped, ErrorsAreJustified, Depth
    <3> QED  BY <1>1, <2>1, <3>2, Returns
  <2> QED  BY <1>1, <2>4, <2>5
<1>7. CASE BombFound
  <2>1. seen' = seen \cup {current} /\ Return("bomb") /\ Expands(current, MaxExpansion)
    BY <1>7 DEF BombFound, Fresh, Bomb
  <2>2. result' = "bomb" /\ Expands(current, MaxExpansion)'
    BY <2>1 DEF Return, world, Expands
  <2>3. OkMeansUnwrapped' /\ ErrorsAreJustified'
    BY <2>2 DEF OkMeansUnwrapped, ErrorsAreJustified
  <2> QED  BY <1>1, <2>1, <2>3, Returns
<1>8. CASE Unwrap
  <2>1. /\ result = "running" /\ Depth < MaxDepth /\ current \notin seen
        /\ seen' = seen \cup {current} /\ kind[current] # "plain" /\ ~Bomb(current)
        /\ layers' = Append(layers, current)
    BY <1>8 DEF Unwrap, Fresh, InTime, Depth
  <2>2. /\ kind' = kind /\ length' = length /\ inner' = inner /\ start' = start
        /\ IF Decoded(current) = "none"
           THEN result' = "ok" /\ current' = current
           ELSE current' = Decoded(current) /\ result' = result
    BY <1>8 DEF Unwrap, world
  <2>3. AtTheInnermost  BY <2>1 DEF ChainInv
  <2>4. /\ Depth' = Depth + 1 /\ layers'[Depth + 1] = current /\ layers' \in Seq(Blobs)
        /\ \A i \in 1..Depth : layers'[i] = layers[i]
    BY <1>1, <2>1 DEF Depth
  <2>6. /\ Decoded(current) # "none" =>
              Decoded(current) = inner[current] /\ inner[current] \in Blobs
        /\ Decoded(current) = "none" =>
              \/ inner[current] = "bad"
              \/ kind[current] = "compressed" /\ Expands(current, DecodeLimit)
    BY <1>1, DecodedIsInner
  <2>7. TypeOK' /\ WorldOK'
    <3>1. elapsed' \in Nat
      BY <1>8, RecursiveAssumption DEF Unwrap, ChainInv, TypeOK
    <3> QED  BY <1>1, <2>1, <2>2, <2>4, <2>6, <3>1 DEF ChainInv, TypeOK, WorldOK
  <2>8. LayersAreAChain'
    <3>1. Depth' <= MaxDepth  BY <1>1, <2>1, <2>4
    <3>2. layers'[1] = start'
      <4>1. CASE Depth = 0  BY <2>2, <2>3, <2>4, <4>1 DEF AtTheInnermost
      <4>2. CASE Depth > 0
        BY <1>1, <2>2, <2>4, <4>2 DEF ChainInv, LayersAreAChain
      <4> QED  BY <1>1, <4>1, <4>2
    <3>3. \A i \in 1..Depth' : kind'[layers'[i]] # "plain"
      <4>1. \A i \in 1..Depth : kind[layers[i]] # "plain"  BY DEF ChainInv, LayersAreAChain
      <4>2. \A i \in 1..Depth' : i \in 1..Depth \/ i = Depth + 1  BY <1>1, <2>4
      <4> QED  BY <2>1, <2>2, <2>4, <4>1, <4>2
    <3>4. \A i \in 1..(Depth' - 1) : layers'[i + 1] = inner'[layers'[i]]
      <4> SUFFICES ASSUME NEW i \in 1..Depth  PROVE layers'[i + 1] = inner[layers[i]]
        BY <1>1, <2>2, <2>4
      <4>1. CASE i = Depth  BY <1>1, <2>3, <2>4, <4>1 DEF AtTheInnermost
      <4>2. CASE i < Depth
        <5>1. i + 1 \in 1..Depth /\ i \in 1..(Depth - 1)  BY <1>1, <4>2
        <5> QED  BY <2>4, <5>1 DEF ChainInv, LayersAreAChain
      <4> QED  BY <1>1, <4>1, <4>2
    <3>5. \A i, j \in 1..Depth' : layers'[i] = layers'[j] => i = j
      <4>1. \A i, j \in 1..Depth : layers[i] = layers[j] => i = j
        BY DEF ChainInv, LayersAreAChain
      <4>2. \A i \in 1..Depth' : i \in 1..Depth \/ i = Depth + 1  BY <1>1, <2>4
      <4>3. \A i \in 1..Depth : layers[i] # current  BY <2>1, <2>3 DEF AtTheInnermost
      <4> QED  BY <2>4, <4>1, <4>2, <4>3
    <3> QED  BY <3>1, <3>2, <3>3, <3>4, <3>5 DEF LayersAreAChain
  <2>9. (\A i \in 1..(Depth - 1) : Unwrapped(layers[i]))'
    <3> SUFFICES ASSUME NEW i \in 1..Depth  PROVE Unwrapped(layers[i])'
      BY <1>1, <2>4
    <3>1. Unwrapped(layers[i])
      <4>1. CASE i = Depth  BY <1>1, <2>3, <4>1 DEF AtTheInnermost
      <4>2. CASE i < Depth
        <5>1. i \in 1..(Depth - 1)  BY <1>1, <4>2
        <5> QED  BY <5>1 DEF ChainInv
      <4> QED  BY <1>1, <4>1, <4>2
    <3> QED  BY <2>2, <2>4, <3>1 DEF Unwrapped, Decoded, Bomb, Expands
  <2>10. result' = "running" => AtTheInnermost'
    <3> SUFFICES ASSUME result' = "running"  PROVE AtTheInnermost'
      OBVIOUS
    <3>1. current' = inner[current] /\ Decoded(current) # "none"  BY <2>2, <2>6
    <3>2. Unwrapped(current)  BY <2>1, <3>1 DEF Unwrapped
    <3>3. Unwrapped(layers[Depth])'
      BY <2>2, <2>4, <3>2 DEF Unwrapped, Decoded, Bomb, Expands
    <3>4. seen' = {layers'[i] : i \in 1..Depth'}
      <4>1. \A i : i \in 1..Depth' <=> i \in 1..Depth \/ i = Depth + 1  BY <1>1, <2>4
      <4> QED  BY <2>1, <2>3, <2>4, <4>1 DEF AtTheInnermost
    <3> QED  BY <1>1, <2>2, <2>4, <3>1, <3>3, <3>4 DEF AtTheInnermost
  <2>11. OkMeansUnwrapped'
    <3> SUFFICES ASSUME result' = "ok"
                 PROVE  \/ inner[current] = "bad"
                        \/ kind[current] = "compressed" /\ Expands(current, DecodeLimit)
      BY <1>1, <2>2, <2>4 DEF OkMeansUnwrapped, Expands
    <3> QED  BY <2>1, <2>2, <2>6
  <2>12. ErrorsAreJustified'  BY <2>1, <2>2 DEF ErrorsAreJustified
  <2> QED  BY <2>7, <2>8, <2>9, <2>10, <2>11, <2>12 DEF ChainInv
<1> QED  BY <1>2, <1>3, <1>4, <1>5, <1>6, <1>7, <1>8 DEF Next

LEMMA ChainInit ==
    ASSUME Init
    PROVE  ChainInv
<1>1. layers = <<>> /\ Depth = 0 /\ seen = {} /\ result = "running" /\ elapsed = 0
  BY DEF Init, Depth
<1>2. TypeOK /\ WorldOK  BY <1>1 DEF Init, TypeOK, WorldOK
<1>3. LayersAreAChain  BY <1>1, RecursiveAssumption DEF LayersAreAChain
<1>4. AtTheInnermost  BY <1>1 DEF Init, AtTheInnermost
<1> QED
  BY <1>1, <1>2, <1>3, <1>4 DEF ChainInv, OkMeansUnwrapped, ErrorsAreJustified

LEMMA ChainAlways == Spec => []ChainInv
<1>1. ChainInv /\ [Next]_vars => ChainInv'  BY ChainStep
<1> QED  BY <1>1, ChainInit, PTL DEF Spec

\* What analyze_recursive keeps has its types.
THEOREM AnalyzerTypes == Spec => []TypeOK
<1>1. ChainInv => TypeOK  BY DEF ChainInv
<1> QED  BY <1>1, ChainAlways, PTL

\* For any data, which may hold itself in any way, the layers reported are
\* distinct, each is what the one before it holds, and there are at most
\* max_depth of them (recursive.rs, seen_hashes and max_depth).
THEOREM LayersChain == Spec => []LayersAreAChain
<1>1. ChainInv => LayersAreAChain  BY DEF ChainInv
<1> QED  BY <1>1, ChainAlways, PTL

\* No layer that was gone into expands beyond the limit of the analyzer or,
\* when it was decompressed, of the decompressor (recursive.rs and
\* compression.rs, the two expansion checks).
THEOREM LayersAreLimited == Spec => []ExpansionIsLimited
<1>1. ASSUME ChainInv  PROVE ExpansionIsLimited
  <2> SUFFICES ASSUME NEW i \in 1..(Depth - 1)
               PROVE  /\ ~Expands(layers[i], MaxExpansion)
                      /\ kind[layers[i]] = "compressed" => ~Expands(layers[i], DecodeLimit)
    BY DEF ExpansionIsLimited
  <2>1. Unwrapped(layers[i]) /\ WorldOK  BY <1>1 DEF ChainInv
  <2>2. layers[i] \in Blobs
    <3>1. layers \in Seq(Blobs) /\ i \in 1..Len(layers)  BY <1>1 DEF ChainInv, TypeOK, Depth
    <3> QED  BY <3>1, ElementOfSeq
  <2> QED  BY <2>1, <2>2, DecodedIsInner DEF Unwrapped, Bomb
<1> QED  BY <1>1, ChainAlways, PTL

\* Ok is returned only with nothing left that can be unwrapped within the
\* limits (recursive.rs, the returns of the loop).
THEOREM OkIsUnwrapped == Spec => []OkMeansUnwrapped
<1>1. ChainInv => OkMeansUnwrapped  BY DEF ChainInv
<1> QED  BY <1>1, ChainAlways, PTL

\* A cycle is reported only of data that holds itself, and a bomb only of data
\* that expands beyond the limit (recursive.rs, the errors of the loop).
THEOREM ErrorsAreTrue == Spec => []ErrorsAreJustified
<1>1. ChainInv => ErrorsAreJustified  BY DEF ChainInv
<1> QED  BY <1>1, ChainAlways, PTL

-----------------------------------------------------------------------------
(* Bombs.                                                                  *)

\* The blobs are those the run began with.
PlausibleInv == \A b \in Blobs : Plausible(b)

\* What the decompressor lets pass expands no more than the analyzer allows.
LEMMA DecodedIsNoBomb ==
    ASSUME WorldOK, PlausibleInv, MaxExpansion > 0, DecodeLimit <= MaxExpansion, NEW b \in Blobs
    PROVE  ~Bomb(b)
<1> SUFFICES ASSUME Decoded(b) # "none"  PROVE ~Expands(b, MaxExpansion)
  BY DEF Bomb
<1>1. /\ Decoded(b) = inner[b] /\ inner[b] \in Blobs /\ inner[b] # "bad"
      /\ kind[b] = "compressed" => ~Expands(b, DecodeLimit)
  BY DecodedIsInner
<1> DEFINE n == length[b]
           m == length[inner[b]]
<1>2. n \in Nat /\ m \in Nat /\ MaxExpansion \in Nat /\ DecodeLimit \in Nat
  BY <1>1, RecursiveAssumption DEF WorldOK
<1>3. kind[b] \in {"text", "compressed"}
  BY <1>1 DEF PlausibleInv, Plausible, WorldOK, Kinds
<1>4. CASE kind[b] = "text"
  <2>1. m <= n - 1  BY <1>1, <1>4 DEF PlausibleInv, Plausible
  <2> HIDE DEF m, n
  <2>2. n <= MaxExpansion * n
    <3>1. \A k, x \in Nat : k > 0 => x <= k * x  BY SMT
    <3> QED  BY <1>2, <3>1
  <2>3. MaxExpansion * n \in Nat  BY <1>2
  <2>4. ~(m > MaxExpansion * n)  BY <1>2, <2>1, <2>2, <2>3
  <2> QED  BY <2>4 DEF Expands, m, n
<1>5. CASE kind[b] = "compressed"
  <2>1. ~(m > DecodeLimit * n)  BY <1>1, <1>5 DEF Expands
  <2> HIDE DEF m, n
  <2>2. DecodeLimit * n <= MaxExpansion * n
    <3>1. \A j, k, x \in Nat : j <= k => j * x <= k * x  BY SMT
    <3> QED  BY <1>2, <3>1
  <2>3. MaxExpansion * n \in Nat /\ DecodeLimit * n \in Nat  BY <1>2
  <2>4. ~(m > MaxExpansion * n)  BY <1>2, <2>1, <2>2, <2>3
  <2> QED  BY <2>4 DEF Expands, m, n
<1> QED  BY <1>3, <1>4, <1>5

\* With an analyzer limit that is no lower than that of the decompressor, as in
\* RecursiveConfig's defaults, the error CompressionBomb is never returned for
\* any data: what would deserve it was already dropped by `.ok()`
\* (recursive.rs:94-113).
THEOREM BombsAreNeverReported ==
    ASSUME MaxExpansion > 0, DecodeLimit <= MaxExpansion
    PROVE  Spec => [](result # "bomb")
<1> DEFINE Inv == PlausibleInv /\ result # "bomb"
<1>1. Init => Inv
  BY DEF Init, PlausibleInv
<1>2. ASSUME ChainInv, Inv, [Next]_vars  PROVE Inv'
  <2>1. kind' = kind /\ length' = length /\ inner' = inner
    BY <1>2 DEF Next, DepthReached, TimedOut, Cycle, NothingFound, BombFound, Unwrap, Return, world,
       vars
  <2>2. PlausibleInv'
    BY <1>2, <2>1 DEF PlausibleInv, Plausible
  <2>3. ~BombFound
    <3>1. ~Bomb(current)
      BY <1>2, DecodedIsNoBomb DEF ChainInv, TypeOK
    <3> QED  BY <3>1 DEF BombFound
  <2>4. result' # "bomb"
    BY <1>2, <2>3 DEF Next, DepthReached, TimedOut, Cycle, NothingFound, Unwrap, Return, vars
  <2> QED  BY <2>2, <2>4
<1>3. Inv => result # "bomb"  OBVIOUS
<1> QED  BY <1>1, <1>2, <1>3, ChainAlways, PTL DEF Spec
=============================================================================
