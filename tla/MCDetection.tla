---------------------------- MODULE MCDetection ----------------------------
(* Instances of Detection for TLC: short strings of one or two character   *)
(* classes and some of special shapes, alone, in front of a blank and as   *)
(* the first of two tokens.                                                *)
EXTENDS Detection, TLC

Counts == {2, 8, 32}

Plain(count) == {s \in [count : {count}, shape : {"plain"}, base64 : {50, 90}] : Exists(s)}

With(counts) == [c \in Classes |-> IF c \in DOMAIN counts THEN counts[c] ELSE 0]

\* At most two classes.
Simple == UNION {Plain(With((c :> m) @@ (d :> n))) : c, d \in Classes, m, n \in Counts}

\* Padding of each length, and a hash of each other kind.
Padded == UNION {Plain(With([gz |-> n, GZ |-> 2, eq |-> p])) : n \in 4..7, p \in 1..3}

\* Bytes of all kinds, as in compressed or encrypted data.
Binary == [c \in Classes |-> IF c \in {"pct", "eq"} THEN 0 ELSE 16]

Special ==
    {[count |-> Binary, shape |-> "plain", base64 |-> 90]} \cup
    {[count |-> With(c[2]), shape |-> c[1], base64 |-> c[3]] :
        c \in {<<"plain", [zero |-> 0], 90>>,
               <<"uuid", [two7 |-> 16, af |-> 16], 90>>,
               <<"uuid", [two7 |-> 16, AF |-> 16], 90>>,
               <<"plain", [two7 |-> 64, af |-> 64], 90>>,
               <<"escapes", [pct |-> 2, two7 |-> 4, gz |-> 4], 50>>,
               <<"open", [pct |-> 1, two7 |-> 2, gz |-> 2], 50>>,
               <<"bad_escapes", [pct |-> 2, GZ |-> 4], 50>>,
               <<"adobe", [other |-> 2, zed |-> 4, gz |-> 4], 50>>,
               <<"bcrypt", [zed |-> 3, two7 |-> 4, gz |-> 53], 90>>,
               <<"bcrypt_weak", [zed |-> 3, two7 |-> 4, gz |-> 53], 90>>,
               <<"bcrypt_odd", [zed |-> 3, two7 |-> 4, gz |-> 53], 90>>,
               <<"argon2", [zed |-> 3, two7 |-> 4, gz |-> 53], 90>>,
               <<"pbkdf2", [zed |-> 3, minus |-> 1, two7 |-> 4, gz |-> 52], 90>>,
               <<"pbkdf2_odd", [zed |-> 3, minus |-> 1, two7 |-> 4, gz |-> 52], 90>>,
               <<"plain", [GZ |-> 4, two7 |-> 2, AF |-> 2, gz |-> 4, af |-> 2, one |-> 2], 99>>}}

Strings == Simple \cup Padded \cup Special

ASSUME \A s \in Special : Exists(s)

Md5 == [count |-> With([two7 |-> 16, af |-> 16]), shape |-> "plain", base64 |-> 90]

\* Two images of one length, and one signature that is the beginning of another.
Signatures == <<[id |-> "bmp", bytes |-> 2, category |-> "image"],
                [id |-> "pe", bytes |-> 2, category |-> "executable"],
                [id |-> "rar", bytes |-> 6, category |-> "compression"],
                [id |-> "rar5", bytes |-> 7, category |-> "compression"]>>

\* BM, MZ and Rar! with two control characters.
Beginning == <<{"AF", "GZ"}, {"GZ"}, {"GZ", "af", "gz", "zed", "rest"}, {"rest"}>>

Matches == {{}, {1}, {2}, {3, 4}}

\* How many different bytes an entropy needs; 20 stands for all up to 30.
Needs(entropy) ==
    CASE entropy = 20 -> 1 [] entropy = 35 -> 12 [] entropy = 45 -> 23
      [] entropy = 60 -> 64 [] entropy = 78 -> 223

Entropies == {20, 35, 45, 60, 78}

Possible(i) ==
    LET t == Text(i) IN
    /\ Length(t) >= Needs(i.entropy) /\ Distinct(t) >= Needs(i.entropy)
    /\ \A k \in i.magic : Beginning[k] \subseteq Chars(t)

Alone == [tokens : {<<s>> : s \in Strings}, blanks : {0}, entropy : Entropies, magic : Matches]
Blank == [tokens : {<<s>> : s \in Padded \cup Special}, blanks : {1}, entropy : {20, 45}, magic : {{}}]
Two == [tokens : {<<s, Md5>> : s \in Special}, blanks : {1}, entropy : {45, 60}, magic : {{}}]

SomeInputs == {i \in Alone \cup Blank \cup Two : Possible(i)}

OneModel == {100}
TwoScores == {50, 950}
TwoTables == {<<>>, [MD5 |-> "low", Base64 |-> "high", bmp |-> "critical"]}
=============================================================================
