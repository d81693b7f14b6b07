------------------------- MODULE RecursiveAnalyzer -------------------------
(***************************************************************************)
(* analyze_recursive (src/analyzers/recursive.rs) with the part of         *)
(* src/core/compression.rs it relies on.  The loop unwraps one layer per   *)
(* iteration until nothing is recognised, nothing can be decoded, or a     *)
(* limit is hit.                                                           *)
(*                                                                         *)
(* A blob of data is known by what the detectors say of it, its length and *)
(* what decoding it would give.  These are frozen by Init: every world of  *)
(* blobs within the bounds is a behaviour.                                 *)
(***************************************************************************)
EXTENDS Naturals, Sequences

CONSTANTS
    Blobs,          \* distinct byte strings; equal SHA-256 means equal blob
    Lengths,        \* lengths a blob may have
    MaxDepth,       \* RecursiveConfig.max_depth
    MaxTime,        \* RecursiveConfig.max_time_secs
    MaxExpansion,   \* RecursiveConfig.max_expansion_ratio
    DecodeLimit,    \* compression.rs MAX_EXPANSION_RATIO
    StepTimes       \* seconds one iteration may take

ASSUME RecursiveAssumption ==
    /\ Lengths \subseteq Nat
    /\ StepTimes \subseteq Nat
    /\ {MaxDepth, MaxTime, MaxExpansion, DecodeLimit} \subseteq Nat
    /\ {"bad", "none"} \cap Blobs = {}

\* What the detectors report, encoding before compression before encryption:
\* "text" is Hex or Base64, which are decoded; "opaque" is a layer that is
\* recognised but never decoded (other encodings, ZIP, encryption).
Kinds == {"text", "compressed", "opaque", "plain"}

VARIABLES
    kind,     \* blob -> what it is detected as
    length,   \* blob -> its length
    inner,    \* blob -> what decoding it gives, or "bad" data
    start,    \* the input
    current,  \* current_data
    seen,     \* seen_hashes
    layers,   \* the layers pushed, as the blobs they were found on
    elapsed,  \* seconds since the start
    result    \* "running", "ok" or the error returned

world == <<kind, length, inner, start>>
vars == <<kind, length, inner, start, current, seen, layers, elapsed, result>>

\* Hex and Base64 get shorter when decoded, but never empty.  The empty string
\* is reported as Base32, an opaque layer.
Plausible(b) ==
    /\ kind[b] = "text" /\ inner[b] # "bad" =>
           length[inner[b]] \in 1..(length[b] - 1)
    /\ length[b] = 0 => kind[b] = "opaque"
    /\ kind[b] \in {"opaque", "plain"} => inner[b] = "bad"

Init ==
    /\ kind \in [Blobs -> Kinds]
    /\ length \in [Blobs -> Lengths]
    /\ inner \in [Blobs -> Blobs \cup {"bad"}]
    /\ \A b \in Blobs : Plausible(b)
    /\ \A a, b \in Blobs : length[a] = 0 /\ length[b] = 0 => a = b
    /\ start \in Blobs
    /\ current = start
    /\ seen = {}
    /\ layers = <<>>
    /\ elapsed = 0
    /\ result = "running"

-----------------------------------------------------------------------------
(* The helpers.                                                            *)

Expands(b, limit) == length[inner[b]] > limit * length[b]

\* What the loop gets of a blob.  The error of try_decompress on a bomb is
\* dropped by `.ok()`, like that on malformed data.
Decoded(b) ==
    IF inner[b] = "bad" \/ (kind[b] = "compressed" /\ Expands(b, DecodeLimit))
    THEN "none"
    ELSE inner[b]

\* Slip: the output is compared with the input of the whole analysis.
BombOverall(b) == Decoded(b) # "none" /\ length[Decoded(b)] > MaxExpansion * length[start]

\* The analyzer's own check, which an empty result passes.
Bomb(b) == Decoded(b) # "none" /\ Expands(b, MaxExpansion)

-----------------------------------------------------------------------------
(* One iteration of the loop.  The first three actions are its early       *)
(* returns, in the order of the code; the guards of an action exclude the  *)
(* ones before it.                                                         *)

InTime == Len(layers) < MaxDepth /\ elapsed <= MaxTime

Return(r) == result' = r /\ UNCHANGED <<current, layers, elapsed, world>>

DepthReached ==
    /\ result = "running"
    /\ Len(layers) >= MaxDepth
    /\ Return("ok")
    /\ UNCHANGED seen

TimedOut ==
    /\ result = "running"
    /\ Len(layers) < MaxDepth
    /\ elapsed > MaxTime
    /\ Return("timeout")
    /\ UNCHANGED seen

\* Slip: two blobs of one length are taken for the same.
CycleByLength ==
    /\ result = "running" /\ InTime
    /\ \E b \in seen : length[b] = length[current]
    /\ Return("cycle")
    /\ UNCHANGED seen

Cycle ==
    /\ result = "running" /\ InTime
    /\ current \in seen
    /\ Return("cycle")
    /\ UNCHANGED seen

\* Slip: the hash is looked up and never inserted.
FreshUnrecorded == result = "running" /\ InTime /\ current \notin seen /\ UNCHANGED seen

Fresh == result = "running" /\ InTime /\ current \notin seen /\ seen' = seen \cup {current}

NothingFound ==
    /\ Fresh
    /\ kind[current] = "plain"
    /\ Return("ok")

BombFound ==
    /\ Fresh
    /\ kind[current] # "plain"
    /\ Bomb(current)
    /\ Return("bomb")

\* Slip: the loop goes on although there is nothing to go on with.
UnwrapAnyway ==
    /\ Fresh
    /\ kind[current] # "plain" /\ ~Bomb(current)
    /\ layers' = Append(layers, current)
    /\ current' = Decoded(current)
    /\ UNCHANGED <<result, elapsed, world>>

\* Slip: the layer that cannot be decoded is not reported.
UnwrapDecodedOnly ==
    /\ Fresh
    /\ kind[current] # "plain" /\ ~Bomb(current)
    /\ IF Decoded(current) = "none"
       THEN result' = "ok" /\ UNCHANGED <<current, layers>>
       ELSE /\ layers' = Append(layers, current)
            /\ current' = Decoded(current)
            /\ UNCHANGED result
    /\ \E s \in StepTimes : elapsed' = elapsed + s
    /\ UNCHANGED world

\* The layer is pushed, and the loop goes on with what it held, if anything.
Unwrap ==
    /\ Fresh
    /\ kind[current] # "plain" /\ ~Bomb(current)
    /\ layers' = Append(layers, current)
    /\ IF Decoded(current) = "none"
       THEN result' = "ok" /\ UNCHANGED current
       ELSE current' = Decoded(current) /\ UNCHANGED result
    /\ \E s \in StepTimes : elapsed' = elapsed + s
    /\ UNCHANGED world

Next == DepthReached \/ TimedOut \/ Cycle \/ NothingFound \/ BombFound \/ Unwrap

Spec == Init /\ [][Next]_vars

-----------------------------------------------------------------------------
(* Properties.                                                             *)

\* The type invariant.
TypeOK ==
    /\ current \in Blobs
    /\ seen \subseteq Blobs
    /\ layers \in Seq(Blobs)
    /\ elapsed \in Nat
    /\ result \in {"running", "ok", "timeout", "cycle", "bomb"}

Depth == Len(layers)

\* The layers are the chain of blobs from the input inwards: no layer appears
\* twice, however the data refers to itself, none is plain data, and there are
\* at most max_depth.
LayersAreAChain ==
    /\ Depth <= MaxDepth
    /\ Depth > 0 => layers[1] = start
    /\ \A i \in 1..Depth : kind[layers[i]] # "plain"
    /\ \A i \in 1..(Depth - 1) : layers[i + 1] = inner[layers[i]]
    /\ \A i, j \in 1..Depth : layers[i] = layers[j] => i = j

\* No layer that was unwrapped expanded beyond either limit.
ExpansionIsLimited ==
    \A i \in 1..(Depth - 1) :
        LET b == layers[i] IN
        /\ ~Expands(b, MaxExpansion)
        /\ kind[b] = "compressed" => ~Expands(b, DecodeLimit)

\* Ok is returned only if nothing is left to unwrap: the innermost data is
\* plain, or cannot be decoded within the limits, or max_depth was reached.
OkMeansUnwrapped ==
    result = "ok" =>
        \/ Depth = MaxDepth
        \/ Depth = 0 /\ kind[start] = "plain"
        \/ Depth > 0 /\ LET last == layers[Depth] IN
               \/ inner[last] = "bad"
               \/ kind[inner[last]] = "plain"
               \/ Expands(last, DecodeLimit) /\ kind[last] = "compressed"

\* The data of a reported cycle does contain itself, and a reported bomb did
\* exceed the limit.
ErrorsAreJustified ==
    /\ result = "cycle" => \E i \in 1..Depth : inner[layers[Depth]] = layers[i]
    /\ result = "bomb" => Expands(current, MaxExpansion)

\* tests/compression_bomb_test.rs:3: "A compression bomb is an input that
\* decompresses to more than 100x the original size", and the analyzer "should
\* return CryptoTraceError::CompressionBomb".
BombsAreReported ==
    result = "ok" =>
        \A i \in 1..Depth : LET b == layers[i] IN
            ~ (kind[b] = "compressed" /\ inner[b] # "bad" /\ Expands(b, MaxExpansion))
=============================================================================
