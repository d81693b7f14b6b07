---------------------------- MODULE TextFormats ----------------------------
(***************************************************************************)
(* The text detectors: detect_hash (src/core/hashing.rs) and               *)
(* detect_encoding (src/core/encoding.rs), as operators on strings.        *)
(*                                                                         *)
(* The detectors look at which characters a string has, how many, and at a *)
(* few shapes.  So a string is how many characters of each class it has,   *)
(* its shape, and the score Base64 decoding gives it.  '=' is at the end   *)
(* and a non-ASCII character counts as one byte.                           *)
(***************************************************************************)
EXTENDS Naturals, FiniteSets, FiniteSetsExt

\* The coarsest classes every alphabet below is a union of: the digits 0, 1,
\* 2-7 and 8-9, the letters A-F, I and O, the other capitals, a-f, l, the other
\* small letters, %, + and /, =, -, what only Z85 has, what Base91 has beyond
\* Z85, and the rest (blanks, ', control and non-ASCII characters).
ClassSize == [zero |-> 1, one |-> 1, two7 |-> 6, nine |-> 2, AF |-> 6, IO |-> 2, GZ |-> 18,
              af |-> 6, el |-> 1, gz |-> 19, pct |-> 1, plus |-> 2, eq |-> 1, minus |-> 1,
              zed |-> 19, other |-> 7, rest |-> 163]
Classes == DOMAIN ClassSize

Digits == {"zero", "one", "two7", "nine"}
Upper == {"AF", "IO", "GZ"}
Lower == {"af", "el", "gz"}
Alnum == Digits \cup Upper \cup Lower
HexDigits == Digits \cup {"AF", "af"}

\* A cost or an iteration count that is not a number is "odd".
KdfShapes == {"bcrypt", "bcrypt_weak", "bcrypt_odd", "argon2", "pbkdf2", "pbkdf2_odd"}

\* Every % of "escapes" begins an escape; "open" ends in a % and one character
\* more, which the URL detector does not look at; "bad_escapes" has another %.
Shapes == {"plain", "uuid", "escapes", "open", "bad_escapes", "adobe"} \cup KdfShapes

Chars(s) == {c \in Classes : s.count[c] > 0}
Among(s, set) == MapThenSumSet(LAMBDA c : s.count[c], set)
Length(s) == Among(s, Classes)
Distinct(s) == MapThenSumSet(LAMBDA c : ClassSize[c], Chars(s))

-----------------------------------------------------------------------------
(* try_detect and detect_prefix_based: the hash a string looks like.       *)

None == "none"

HexHash(s) ==
    LET n == Length(s) IN
    IF n = 32 THEN IF s.count["AF"] > 0 /\ s.count["af"] = 0 THEN "NTLM"
                   ELSE IF s.shape = "uuid" THEN "UUID" ELSE "MD5"
    ELSE IF n = 40 THEN "SHA1"
    ELSE IF n = 64 THEN "SHA256"
    ELSE IF n = 128 THEN "SHA512"
    ELSE None

HashOf(s) ==
    IF Chars(s) \subseteq HexDigits THEN HexHash(s)
    ELSE IF s.shape \in KdfShapes THEN s.shape
    ELSE None

\* Confidence in hundredths.
HashConfidence ==
    [NTLM |-> 85, UUID |-> 70, MD5 |-> 95, SHA1 |-> 95, SHA256 |-> 97, SHA512 |-> 97,
     bcrypt |-> 99, bcrypt_weak |-> 99, bcrypt_odd |-> 95, argon2 |-> 99, pbkdf2 |-> 98,
     pbkdf2_odd |-> 90]

-----------------------------------------------------------------------------
(* The encodings.                                                          *)

IsHex(s) == Length(s) > 0 /\ Length(s) % 2 = 0 /\ Chars(s) \subseteq HexDigits

IsUrl(s) == s.count["pct"] > 0 /\ s.shape # "bad_escapes"

\* The empty string is one.
IsBase32(s) == Length(s) % 8 = 0 /\ Chars(s) \subseteq Upper \cup {"two7", "eq"}

\* Whether it decodes only counts for the confidence.
IsBase64(s) ==
    LET pad == s.count["eq"]
        raw == Length(s) - pad
    IN /\ Chars(s) \subseteq Alnum \cup {"plus", "eq"}
       /\ pad <= 2
       /\ raw > 0
       /\ pad = 0 => raw % 4 = 0

IsBase58(s) ==
    /\ Length(s) >= 4
    /\ Chars(s) \subseteq Alnum \ {"zero", "IO", "el"}
    /\ Cardinality({set \in {Upper, Lower, Digits} : Chars(s) \cap set # {}}) >= 2

IsAscii85(s) == s.shape = "adobe" /\ Length(s) > 4

Z85Special == {"pct", "plus", "eq", "minus", "zed"}

IsZ85(s) ==
    /\ Length(s) >= 4
    /\ Chars(s) \subseteq Alnum \cup Z85Special
    /\ Chars(s) \cap Z85Special # {}

\* At least 95% Base91 characters, at least 30% that are not letters.  The code
\* casts a character to a byte (encoding.rs:301), so that some beyond ASCII count
\* as Base91 ones, and divides by bytes; the class "rest" knows neither.
IsBase91(s) ==
    /\ Length(s) >= 8
    /\ 100 * Among(s, Classes \ {"minus", "rest"}) >= 95 * Length(s)
    /\ 10 * Among(s, Classes \ (Upper \cup Lower)) >= 3 * Length(s)

Is(format, s) ==
    CASE format = "Hex" -> IsHex(s)
      [] format = "URLEncoding" -> IsUrl(s)
      [] format = "Base32" -> IsBase32(s)
      [] format = "Base64" -> IsBase64(s)
      [] format = "Base58" -> IsBase58(s)
      [] format = "Ascii85" -> IsAscii85(s)
      [] format = "Z85" -> IsZ85(s)
      [] format = "Base91" -> IsBase91(s)

\* Slip: Base64 is asked before Base32.
Base64First == <<"Hex", "URLEncoding", "Base64", "Base32", "Base58", "Ascii85", "Z85", "Base91">>

\* The order of detect_encoding.
Order == <<"Hex", "URLEncoding", "Base32", "Base64", "Base58", "Ascii85", "Z85", "Base91">>

\* detect_encoding: the first detector that accepts the string.
EncodingOf(s) ==
    LET accept == {i \in DOMAIN Order : Is(Order[i], s)}
    IN IF accept = {} THEN None ELSE Order[Min(accept)]

\* Base91 mixes two ratios; the others are fixed, but for Base64.
EncodingConfidence(s) ==
    LET e == EncodingOf(s)
        valid == Among(s, Classes \ {"minus", "rest"})
        other == Among(s, Classes \ (Upper \cup Lower))
    IN CASE e = "Hex" -> 95
         [] e = "URLEncoding" -> 90
         [] e \in {"Base32", "Base58"} -> 85
         [] e = "Base64" -> s.base64
         [] e = "Ascii85" -> 95
         [] e = "Z85" -> 80
         [] e = "Base91" -> (70 * valid + 20 * Min({other, Length(s) \div 2})) \div Length(s)

-----------------------------------------------------------------------------
(* Strings that exist.                                                     *)

\* What the counts must say for a string to have its shape.
ShapeFits(s) ==
    /\ s.count["pct"] > 0 <=> s.shape \in {"escapes", "open", "bad_escapes"}
    /\ s.shape = "escapes" => Among(s, HexDigits) >= 2 * s.count["pct"]
    /\ s.shape = "open" => Among(s, HexDigits) >= 2 * (s.count["pct"] - 1) /\ Length(s) > 1
    /\ s.shape = "adobe" => s.count["other"] >= 2 /\ s.count["zed"] >= 2
    /\ s.shape = "uuid" =>
           /\ Length(s) = 32 /\ Chars(s) \subseteq HexDigits
           /\ "two7" \in Chars(s) /\ {"nine", "AF", "af"} \cap Chars(s) # {}
    /\ s.shape \in KdfShapes => s.count["zed"] >= 3 /\ Length(s) >= 16

\* The score Base64 decoding can have: 50 if it fails, as stray bits in front
\* of a '=' make it, 90 if it succeeds and 99 if "Salted__" comes out.
ScoreFits(s) ==
    LET pad == s.count["eq"] IN
    /\ s.base64 \in {50, 90, 99}
    /\ s.base64 > 50 => Length(s) % 4 = 0 /\ pad <= 2
    /\ s.base64 = 99 => {"GZ", "two7", "AF", "gz", "af", "one"} \subseteq Chars(s)
    /\ Length(s) % 4 = 0 /\ pad = 0 => s.base64 > 50

Exists(s) == ShapeFits(s) /\ ScoreFits(s)
=============================================================================
