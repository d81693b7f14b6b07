----------------------------- MODULE Detection -----------------------------
(***************************************************************************)
(* One analysis: analyze_bytes (src/analyzers/file.rs) with the detectors, *)
(* build_detection_result (src/core/confidence.rs), the risk levels and    *)
(* the overlay of the signature registry (src/signatures/mod.rs).          *)
(*                                                                         *)
(* It shares two things with the rest of the world: the calibration model, *)
(* a global behind a lock, and cryptotrace.toml, both of which others may  *)
(* change while it runs.  Confidences are in thousandths, entropies in     *)
(* tenths of a bit per byte.                                               *)
(***************************************************************************)
EXTENDS TextFormats, Sequences

CONSTANTS
    Inputs,    \* what may be analyzed: [tokens, blanks, entropy, magic]
    Registry,  \* the signature registry, in its order: [id, bytes, category]
    Models,    \* calibration models, known by their dataset_size
    Scores,    \* probabilities a model may predict
    Overrides  \* [risk.overrides] tables: algorithm -> level

Levels == {"low", "medium", "high", "critical", "unknown"}

\* Characters are counted and Base64 decoding has one of three scores; no
\* signature of the registry is called a hash or an encoding; overrides that
\* are not levels are skipped.
ASSUME DetectionAssumption ==
    /\ Models \subseteq Nat \ {0}
    /\ Scores \subseteq 0..1000
    /\ \A i \in Inputs :
        /\ i.tokens # <<>>
        /\ i.tokens \in Seq([count : [Classes -> Nat], shape : Shapes, base64 : {50, 90, 99}])
        /\ i.blanks \in Nat
        /\ i.magic \subseteq DOMAIN Registry
    /\ Registry \in Seq([id : STRING, bytes : Nat, category : STRING \ {"hash", "encoding"}])
    /\ \A o \in Overrides : \A a \in DOMAIN o : o[a] \in Levels

VARIABLES
    input,      \* the bytes analyzed
    model,      \* CALIBRATION_MODEL; 0 for None
    overrides,  \* cryptotrace.toml
    pc,         \* where the analysis is
    rules,      \* the overrides it has read
    result,     \* the DetectionResult
    models,     \* history: the models in force since the analysis began
    configs     \* history: the overrides in force since then

vars == <<input, model, overrides, pc, rules, result, models, configs>>

-----------------------------------------------------------------------------
(* The detectors on an input.                                              *)

\* The text of an input: its tokens with the blanks between and after them.
Text(i) ==
    IF i.blanks = 0 THEN i.tokens[1]
    ELSE [count |-> [c \in Classes |->
                        (IF c = "rest" THEN i.blanks ELSE 0)
                          + MapThenSumSet(LAMBDA k : i.tokens[k].count[c], DOMAIN i.tokens)],
          shape |-> IF \E k \in DOMAIN i.tokens : i.tokens[k].shape \in {"open", "bad_escapes"}
                    THEN "bad_escapes" ELSE "plain",
          base64 |-> 50]

\* detect_hash: a single token is the trimmed input; else the first that fits.
HashIn(i) ==
    LET hit == {k \in DOMAIN i.tokens : HashOf(i.tokens[k]) # None}
    IN IF hit = {} THEN None ELSE HashOf(i.tokens[Min(hit)])

EncodingIn(i) == EncodingOf(Text(i))

Algorithm(hash) ==
    IF hash \in {"bcrypt_weak", "bcrypt_odd"} THEN "bcrypt"
    ELSE IF hash = "pbkdf2_odd" THEN "pbkdf2"
    ELSE hash

HashRisk(hash) ==
    IF hash \in {"MD5", "NTLM"} THEN "critical"
    ELSE IF hash = "SHA1" THEN "high"
    ELSE IF hash = "bcrypt_weak" THEN "medium"
    ELSE "low"

KnownCves == {"MD5", "SHA1", "NTLM"}

-----------------------------------------------------------------------------
(* compute_confidence as build_detection_result does it.                   *)

Strength(i) ==
    IF HashIn(i) # None THEN HashConfidence[HashIn(i)]
    ELSE IF EncodingIn(i) # None THEN EncodingConfidence(Text(i))
    ELSE 0

Consistency(i) ==
    IF HashIn(i) # None THEN IF i.entropy < 40 THEN 9 ELSE 3
    ELSE IF EncodingIn(i) # None THEN IF i.entropy > 30 /\ i.entropy < 70 THEN 8 ELSE 4
    ELSE 5

Heuristic(i) == 5 * Strength(i) + 30 * Consistency(i) + 200

-----------------------------------------------------------------------------
(* The analysis.                                                           *)

NoResult == [type |-> None, algorithm |-> None, confidence |-> 0, risk |-> "unknown",
             cves |-> FALSE, conflict |-> FALSE, calibrated |-> FALSE, samples |-> 0,
             trace |-> 0, provisional |-> FALSE, magic |-> FALSE]

Init ==
    /\ input \in Inputs
    /\ model \in {0} \cup Models
    /\ overrides \in Overrides
    /\ pc = "start"
    /\ rules = <<>>
    /\ result = NoResult
    /\ models = {model}
    /\ configs = {overrides}

\* load_risk_overrides.
ReadOverrides ==
    /\ pc = "start"
    /\ pc' = "rules"
    /\ rules' = overrides
    /\ UNCHANGED <<input, model, overrides, result, models, configs>>

Type(i) ==
    IF HashIn(i) # None THEN "hash"
    ELSE IF EncodingIn(i) # None THEN "encoding"
    ELSE IF i.entropy > 75 THEN "high_entropy"
    ELSE "plaintext"

\* Slip: the default of the risk table stands even where there is a rule.
RiskIgnoringRules(i, over) ==
    IF HashIn(i) # None THEN HashRisk(HashIn(i))
    ELSE IF EncodingIn(i) # None THEN "low"
    ELSE "unknown"

Found(i) ==
    IF HashIn(i) # None THEN Algorithm(HashIn(i)) ELSE EncodingIn(i)

Risk(i, over) ==
    IF Found(i) \in DOMAIN over THEN over[Found(i)]
    ELSE IF HashIn(i) # None THEN HashRisk(HashIn(i))
    ELSE IF EncodingIn(i) # None THEN "low"
    ELSE "unknown"

\* compute_conflicting_signals.
Conflict(i) ==
    /\ HashIn(i) # None
    /\ \/ i.entropy > 50 /\ HashIn(i) # "NTLM"
       \/ EncodingIn(i) # None

\* What build_detection_result returns under a model and its prediction.
Built(i, over, m, score) ==
    [type |-> Type(i),
     algorithm |-> Found(i),
     confidence |-> Min({1000, IF m = 0 THEN Heuristic(i) ELSE score}),
     risk |-> Risk(i, over),
     cves |-> Found(i) \in KnownCves /\ Found(i) \notin DOMAIN over,
     conflict |-> Conflict(i),
     calibrated |-> m # 0,
     samples |-> m,
     trace |-> m,
     provisional |-> m = 0,
     magic |-> FALSE]

\* The model is read once, then everything is filled in from it.
Build ==
    /\ pc = "rules"
    /\ pc' = "overlay"
    /\ \E score \in Scores : result' = Built(input, rules, model, score)
    /\ UNCHANGED <<input, model, overrides, rules, models, configs>>

CategoryRisk(category) ==
    IF category = "executable" THEN "high"
    ELSE IF category = "cryptographic" THEN "critical"
    ELSE IF category \in {"document", "code"} THEN "medium"
    ELSE IF category \in {"compression", "image", "audio", "video", "archive", "disk",
                          "database", "font"} THEN "low"
    ELSE "unknown"

\* max_by_key: the longest signature, the last one of that length.
Best(matches) ==
    CHOOSE k \in matches : \A j \in matches :
        \/ Registry[j].bytes < Registry[k].bytes
        \/ Registry[j].bytes = Registry[k].bytes /\ j <= k

\* Slip: the signature always decides.
OverlaidAlways(r, matches) ==
    LET best == Registry[Best(matches)] IN
    IF matches = {} THEN r
    ELSE [r EXCEPT !.type = best.category, !.algorithm = best.id,
                   !.risk = CategoryRisk(best.category), !.magic = TRUE]

\* Slip: the id of the signature for its category.
OverlaidById(r, matches) ==
    LET best == Registry[Best(matches)] IN
    IF matches = {} \/ r.algorithm # None \/ r.type # "plaintext" THEN r
    ELSE [r EXCEPT !.type = best.id, !.algorithm = best.id,
                   !.risk = CategoryRisk(best.category), !.magic = TRUE]

\* The registry decides where the detectors found nothing.
Overlaid(r, matches) ==
    LET best == Registry[Best(matches)] IN
    IF matches = {} THEN r
    ELSE IF r.algorithm = None /\ r.type = "plaintext"
    THEN [r EXCEPT !.type = best.category, !.algorithm = best.id,
                   !.risk = CategoryRisk(best.category),
                   !.confidence = IF @ < 900 THEN 900 ELSE @,
                   !.provisional = TRUE, !.magic = TRUE]
    ELSE [r EXCEPT !.magic = TRUE]

\* Slip: calibration_samples is filled in at the end, from the global.
OverlayRereadsModel ==
    /\ pc = "overlay"
    /\ pc' = "done"
    /\ result' = [Overlaid(result, input.magic) EXCEPT !.samples = model]
    /\ UNCHANGED <<input, model, overrides, rules, models, configs>>

Overlay ==
    /\ pc = "overlay"
    /\ pc' = "done"
    /\ result' = Overlaid(result, input.magic)
    /\ UNCHANGED <<input, model, overrides, rules, models, configs>>

-----------------------------------------------------------------------------
(* The others: `calibrate train`, tests and library users; the user.       *)

\* set_model and reset_model.
SetModel(m) ==
    /\ pc # "done"
    /\ model' = m
    /\ models' = models \cup {m}
    /\ UNCHANGED <<input, overrides, pc, rules, result, configs>>

EditConfig(o) ==
    /\ pc # "done"
    /\ overrides' = o
    /\ configs' = configs \cup {o}
    /\ UNCHANGED <<input, model, pc, rules, result, models>>

Next ==
    \/ ReadOverrides \/ Build \/ Overlay
    \/ \E m \in {0} \cup Models : SetModel(m)
    \/ \E o \in Overrides : EditConfig(o)

Spec == Init /\ [][Next]_vars

-----------------------------------------------------------------------------
(* Properties.                                                             *)

Types == {None, "hash", "encoding", "plaintext", "high_entropy"}
         \cup {Registry[k].category : k \in DOMAIN Registry}

\* The type invariant; no confidence leaves the range 0 to 1.
TypeOK ==
    /\ input \in Inputs
    /\ model \in {0} \cup Models
    /\ overrides \in Overrides
    /\ pc \in {"start", "rules", "overlay", "done"}
    /\ rules \in Overrides \cup {<<>>}
    /\ result.type \in Types
    /\ result.risk \in Levels
    /\ result.confidence \in 0..1000

\* A result is that of one model that was in force during the analysis: the
\* flag, the sample count and the decision trace agree, even if a training
\* replaces the model in the meantime.
OneModelPerResult ==
    pc = "done" =>
        /\ result.samples = result.trace
        /\ result.calibrated <=> result.samples # 0
        /\ result.samples \in models

\* Without a signature to add, the reported risk of a hash or an encoding is
\* the rule that some cryptotrace.toml in force during the analysis has for
\* it, or what the risk table says.
RiskIsExplained ==
    pc = "done" /\ result.type \in {"hash", "encoding"} =>
        \E o \in configs :
            IF result.algorithm \in DOMAIN o THEN result.risk = o[result.algorithm]
            ELSE IF HashIn(input) # None THEN result.risk = HashRisk(HashIn(input))
            ELSE result.risk = "low"

\* Bytes that some detector recognised are never reported as something else:
\* a registry match on a text that happens to begin with "BM" or "MZ" does not
\* replace the hash or encoding found, in type, algorithm or confidence.
DetectionsStand ==
    pc = "done" /\ (HashIn(input) # None \/ EncodingIn(input) # None) =>
        /\ result.algorithm \in {Algorithm(HashIn(input)), EncodingIn(input)}
        /\ result.type \in {"hash", "encoding"}
        /\ ~result.calibrated => result.confidence = Heuristic(input)

Alphabet ==
    [Hex |-> 22, Base32 |-> 33, Base58 |-> 58, Base64 |-> 65, Z85 |-> 85, Base91 |-> 92]

\* encoding.rs:13-32 gives the order of the detectors its reasons.  With it
\* the encoding reported is the one with the smallest alphabet of those that
\* fit, except that Base64 is preferred to Base58 whenever its length fits.
EncodingIsTheNarrowest ==
    LET e == EncodingIn(input) IN
    e \in DOMAIN Alphabet =>
        \A f \in DOMAIN Alphabet \ {e} :
            Is(f, Text(input)) =>
                \/ Alphabet[e] < Alphabet[f]
                \/ e = "Base64" /\ f = "Base58"
=============================================================================
