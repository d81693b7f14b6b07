----------------------------- MODULE Narratives -----------------------------
(***************************************************************************)
(* What an AI provider's answer becomes: validate_narrative and its        *)
(* helpers (src/intelligence/narrative.rs).                                *)
(*                                                                         *)
(* A text is its words, each an ordinary one, a well-formed CVE number or  *)
(* something that begins like one, with the three other things the         *)
(* validators ask of it.  A missing field, one that is no string and a     *)
(* blank one are all a text without words.                                 *)
(***************************************************************************)
EXTENDS Naturals, Sequences, FiniteSetsExt

Fields == {"summary", "risk_reason", "recommended_action", "confidence_statement"}

Words == {"word", "cve", "fake"}

NoText == [words |-> <<>>, stops |-> 0, signal |-> FALSE, length |-> 0]

\* The safe default of a field, and the fields of build_fallback.
Default == [words |-> <<"word", "word">>, stops |-> 1, signal |-> TRUE, length |-> 20]

References(words) == {i \in DOMAIN words : words[i] \in {"cve", "fake"}}

\* contains_hallucination: the first reference decides, a good one at once.
Hallucinates(words) ==
    References(words) # {} /\ words[Min(References(words))] = "fake"

\* validate_summary, validate_risk_reason, validate_action, validate_confidence.
Validate(field, text) ==
    IF \/ field = "summary" /\ text.stops > 3
       \/ field = "risk_reason" /\ ~text.signal
       \/ field = "recommended_action" /\ text.length < 10
       \/ field = "confidence_statement" /\ text.length < 5
    THEN NoText
    ELSE text

\* extract_field; where the validator has nothing, the text itself stands.
Extract(field, text) ==
    IF text.words = <<>> \/ Hallucinates(text.words) THEN Default
    ELSE IF Validate(field, text) = NoText THEN text
    ELSE Validate(field, text)

\* The answer is JSON, or has a fenced block that is closed and holds JSON.
Parses(content) == content.json \/ (content.fence = "closed" /\ content.inner)

\* validate_narrative; build_fallback for what is no JSON object.
Validated(content) ==
    IF Parses(content) /\ content.object
    THEN [f \in Fields |-> Extract(f, content.fields[f])]
    ELSE [f \in Fields |-> Default]
=============================================================================
