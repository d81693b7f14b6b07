------------------------- MODULE SyslogExport_proofs -------------------------
(***************************************************************************)
(* What a receiver reads in a CEF or LEEF line, for every result: exactly  *)
(* the header and the fields format_cef or format_leef (siem.rs) wrote, if *)
(* the CVE ids, which format_cef does not escape, are plain.  One with a   *)
(* newline does split the event.                                           *)
(*                                                                         *)
(* The model writes and reads lines with FoldLeft.  A fold is expanded to  *)
(* the recursive function it is, shown to exist and to have one value (the *)
(* first section), and what it computes is then shown for one prefix of    *)
(* the sequence after the other.                                           *)
(***************************************************************************)
EXTENDS SyslogExport, SequenceTheorems, WellFoundedInduction, TLAPS

-----------------------------------------------------------------------------
(* Induction, and folds over sequences.                                    *)

\* A set of numbers that is not empty has a least one.
LEMMA LeastIn ==
    ASSUME NEW S \in SUBSET Nat, S # {}
    PROVE  \E m \in S : \A n \in S : m <= n
<1>1. PICK m \in S : \A n \in S : ~(<<n, m>> \in OpToRel(<, Nat))
  BY NatLessThanWellFounded, WFMin
<1>2. ASSUME NEW n \in S  PROVE m <= n
  <2>1. <<n, m>> \in Nat \X Nat  OBVIOUS
  <2>2. ~(n < m)  BY <1>1, <2>1 DEF OpToRel
  <2> QED  BY <2>2
<1> QED  BY <1>2

\* What holds of 0, and of k + 1 where it holds of k, holds up to n: there is no
\* least counterexample.
LEMMA Induction ==
    ASSUME NEW n \in Nat, NEW S, 0 \in S, \A k \in 0..(n - 1) : k \in S => k + 1 \in S
    PROVE  0..n \subseteq S
<1> DEFINE Lacking == (0..n) \ S
<1> SUFFICES ASSUME Lacking # {}  PROVE FALSE
  OBVIOUS
<1>1. Lacking \in SUBSET Nat  OBVIOUS
<1>2. PICK m \in Lacking : \A k \in Lacking : m <= k
  <2> HIDE DEF Lacking
  <2> QED  BY <1>1, LeastIn
<1>3. m # 0 /\ m - 1 \in 0..(n - 1) /\ m - 1 \notin Lacking  BY <1>2
<1> QED  BY <1>2, <1>3

\* The greatest element, where the greatest possible one is there.
LEMMA MaxOf ==
    ASSUME NEW k \in Nat, NEW s \in SUBSET (1..(k + 1)), k + 1 \in s
    PROVE  Max(s) = k + 1
<1>1. \A y \in s : k + 1 >= y  OBVIOUS
<1>2. ASSUME NEW x \in s, \A y \in s : x >= y  PROVE x = k + 1
  BY <1>2
<1> QED  BY <1>1, <1>2 DEF Max

\* Any other set of numbers up to n has a greatest element too.
LEMMA MaxAmong ==
    ASSUME NEW n \in Nat, NEW s \in SUBSET (0..n), s # {}
    PROVE  Max(s) \in s /\ \A i \in s : i <= Max(s)
<1> DEFINE Below == {n - i : i \in s}
<1>1. Below \in SUBSET Nat /\ Below # {}
  <2>1. \A i \in s : i \in Nat /\ n - i \in Nat  OBVIOUS
  <2> QED  BY <2>1
<1>2. PICK m \in Below : \A k \in Below : m <= k
  <2> HIDE DEF Below
  <2> QED  BY <1>1, LeastIn
<1>3. PICK x \in s : m = n - x  BY <1>2
<1>4. ASSUME NEW y \in s  PROVE x >= y
  <2>1. n - y \in Below  OBVIOUS
  <2>2. m <= n - y  BY <1>2, <2>1
  <2>3. x \in Nat /\ y \in Nat  OBVIOUS
  <2> HIDE DEF Below
  <2> QED  BY <1>3, <2>2, <2>3
<1> HIDE DEF Below
<1>5. \A z \in s : (\A y \in s : z >= y) => z = x
  <2>1. \A y \in s : y \in Nat  OBVIOUS
  <2> QED  BY <1>4, <2>1
<1> QED  BY <1>3, <1>4, <1>5 DEF Max

\* So has any set of positions.
LEMMA MaxIn ==
    ASSUME NEW n \in Nat, NEW s \in SUBSET (1..n), s # {}
    PROVE  Max(s) \in s /\ \A i \in s : i <= Max(s)
<1>1. s \in SUBSET (0..n)  OBVIOUS
<1> QED  BY <1>1, MaxAmong

\* f is the fold of step over the positions of seq, taken in order.
Folds(f, k, base, step, seq) ==
    \A s \in SUBSET (1..k) :
        f[s] = IF s = {} THEN base ELSE step[<<f[s \ {Max(s)}], seq[Max(s)]>>]

\* There is such a function, so the CHOOSE of a fold chooses one.
LEMMA FoldExists ==
    ASSUME NEW S, NEW E, NEW base \in S, NEW step \in [S \X E -> S],
           NEW n \in Nat, NEW seq \in [1..n -> E]
    PROVE  \E f \in [SUBSET (1..n) -> S] : Folds(f, n, base, step, seq)
<1> DEFINE Has(k) == \E f \in [SUBSET (1..k) -> S] : Folds(f, k, base, step, seq)
<1>1. Has(0)
  <2> DEFINE f == [s \in SUBSET (1..0) |-> base]
  <2>1. \A s \in SUBSET (1..0) : s = {}  OBVIOUS
  <2>2. f \in [SUBSET (1..0) -> S]  OBVIOUS
  <2>3. \A s \in SUBSET (1..0) : f[s] = base  OBVIOUS
  <2>4. Folds(f, 0, base, step, seq)
    <3> HIDE DEF f
    <3> QED  BY <2>1, <2>3 DEF Folds
  <2> QED  BY <2>2, <2>4
<1>2. ASSUME NEW k \in 0..(n - 1), Has(k)  PROVE Has(k + 1)
  <2>1. PICK g \in [SUBSET (1..k) -> S] : Folds(g, k, base, step, seq)
    BY <1>2
  <2> DEFINE f == [s \in SUBSET (1..(k + 1)) |->
                     IF k + 1 \in s THEN step[<<g[s \ {k + 1}], seq[k + 1]>>] ELSE g[s]]
  <2>2. \A s \in SUBSET (1..(k + 1)) : k + 1 \notin s => s \in SUBSET (1..k)  OBVIOUS
  <2>3. \A s \in SUBSET (1..(k + 1)) : s \ {k + 1} \in SUBSET (1..k)  OBVIOUS
  <2>4. f \in [SUBSET (1..(k + 1)) -> S]
    <3>1. ASSUME NEW s \in SUBSET (1..(k + 1))  PROVE f[s] \in S
      <4>1. CASE k + 1 \in s
        <5>1. g[s \ {k + 1}] \in S /\ seq[k + 1] \in E  BY <2>3
        <5> QED  BY <4>1, <5>1
      <4>2. CASE k + 1 \notin s  BY <2>2, <4>2
      <4> QED  BY <4>1, <4>2
    <3> QED  BY <3>1
  <2>5. ASSUME NEW s \in SUBSET (1..(k + 1)), k + 1 \in s
        PROVE  f[s] = step[<<f[s \ {Max(s)}], seq[Max(s)]>>]
    <3>1. Max(s) = k + 1  BY <2>5, MaxOf
    <3>2. f[s \ {k + 1}] = g[s \ {k + 1}]  BY <2>3
    <3> QED  BY <2>5, <3>1, <3>2
  <2>6. ASSUME NEW s \in SUBSET (1..(k + 1)), k + 1 \notin s
        PROVE  f[s] = IF s = {} THEN base ELSE step[<<f[s \ {Max(s)}], seq[Max(s)]>>]
    <3>1. f[s] = g[s] /\ f[s \ {Max(s)}] = g[s \ {Max(s)}]  BY <2>2, <2>6
    <3>2. s \in SUBSET (1..k)  BY <2>2, <2>6
    <3> QED  BY <2>1, <3>1, <3>2 DEF Folds
  <2>7. Folds(f, k + 1, base, step, seq)
    <3> HIDE DEF f
    <3> QED  BY <2>5, <2>6 DEF Folds
  <2> QED  BY <2>4, <2>7
<1>3. {k \in 0..n : Has(k)} = 0..n
  <2> HIDE DEF Has
  <2>1. 0 \in {k \in 0..n : Has(k)}  BY <1>1
  <2>2. \A k \in 0..(n - 1) : k \in {i \in 0..n : Has(i)} => k + 1 \in {i \in 0..n : Has(i)}
    BY <1>2
  <2>3. 0..n \subseteq {k \in 0..n : Has(k)}  BY <2>1, <2>2, Induction
  <2> QED  BY <2>3
<1> HIDE DEF Has
<1>4. Has(n)  BY <1>3
<1> QED  BY <1>4 DEF Has

\* The words the exporter writes itself.  They are strings, which the provers do
\* not know of a literal; Chars names them beside STRING for that reason alone.
Literals ==
    {"detectedType", "algorithm", "riskLevel", "weakness", "cveIds", "primaryDrivers", "cat",
     "sev", "drivers",
     "Critical", "High", "Medium", "Low", "Unknown", "100", "10", "8", "5", "3", "2"}

Chars == STRING \cup {"\\", "=", "|", "nl", "cr", " ", "n", "r", ""} \cup Literals

\* The symbols of a result are symbols of a line.
LEMMA Typed == STRING \subseteq Chars /\ Seq(STRING) \subseteq Seq(Chars)
<1>1. STRING \subseteq Chars  BY Zenon DEF Chars
<1> QED  BY <1>1, SeqMonotonic, Zenon

\* What escape_cef and escape_leef_value write for one symbol.
EscapeOf(s) == IF s \in {"\\", "=", "|", "nl", "cr"} THEN <<"\\", Letter(s)>> ELSE <<s>>

\* The recursive function Escaped stands for.
LEMMA EscapedIsFold ==
    ASSUME NEW text
    PROVE  \E iter :
        /\ iter = CHOOSE f : f = [s \in SUBSET DOMAIN text |->
                    IF s = {} THEN <<>> ELSE f[s \ {Max(s)}] \o EscapeOf(text[Max(s)])]
        /\ Escaped(text) = iter[DOMAIN text]
  BY DEF Escaped, FoldLeft, MapThenFoldSet, EscapeOf

\* Sequences of one and of two elements are typed.
LEMMA OneOf == ASSUME NEW S, NEW s \in S PROVE <<s>> \in Seq(S)
  OBVIOUS

LEMMA TwoOf == ASSUME NEW S, NEW s \in S, NEW t \in S PROVE <<s, t>> \in Seq(S)
  OBVIOUS

\* The symbols that do not end a line on a TCP connection.
Quiet == Chars \ {"nl"}

LEMMA QuietType == Quiet \subseteq Chars /\ Seq(Quiet) \subseteq Seq(Chars)
<1>1. Quiet \subseteq Chars  BY DEF Quiet
<1> QED  BY <1>1, SeqMonotonic, Zenon

\* Those that may stand in a joined list, which is not escaped.
Clean == Quiet \ {"\\", "="}

LEMMA CleanType == Clean \subseteq Quiet /\ Seq(Clean) \subseteq Seq(Quiet)
<1>1. Clean \subseteq Quiet  BY DEF Clean
<1> QED  BY <1>1, SeqMonotonic, Zenon

\* No symbol is escaped to something with a newline in it.
LEMMA EscapeOfType == ASSUME NEW s \in Chars PROVE EscapeOf(s) \in Seq(Quiet)
<1>1. "\\" \in Quiet /\ "n" \in Quiet /\ "r" \in Quiet  BY DEF Chars, Quiet
<1>2. Letter(s) \in Quiet  BY <1>1 DEF Letter, Quiet
<1>3. <<"\\", Letter(s)>> \in Seq(Quiet)  BY <1>1, <1>2, TwoOf, Zenon
<1>4. CASE s \in {"\\", "=", "|", "nl", "cr"}  BY <1>3, <1>4, Zenon DEF EscapeOf
<1>5. CASE s \notin {"\\", "=", "|", "nl", "cr"}
  <2>1. s \in Quiet  BY <1>5 DEF Quiet
  <2>2. <<s>> \in Seq(Quiet)  BY <2>1, OneOf
  <2> QED  BY <1>5, <2>2, Zenon DEF EscapeOf
<1> QED  BY <1>4, <1>5

\* Escaped(text) is built symbol after symbol.
LEMMA EscapedRun ==
    ASSUME NEW text \in Seq(Chars)
    PROVE  \E r : /\ r[0] = <<>> /\ r[Len(text)] = Escaped(text)
                  /\ \A k \in 0..(Len(text) - 1) : r[k + 1] = r[k] \o EscapeOf(text[k + 1])
<1> DEFINE n == Len(text)
           Next(f) == [s \in SUBSET DOMAIN text |->
                         IF s = {} THEN <<>> ELSE f[s \ {Max(s)}] \o EscapeOf(text[Max(s)])]
           step == [x \in Seq(Chars) \X Chars |-> x[1] \o EscapeOf(x[2])]
<1>1. n \in Nat /\ text \in [1..n -> Chars] /\ DOMAIN text = 1..n  OBVIOUS
<1>2. step \in [Seq(Chars) \X Chars -> Seq(Chars)]
  <2>1. \A s \in Chars : EscapeOf(s) \in Seq(Chars)  BY EscapeOfType, QuietType
  <2>2. ASSUME NEW x \in Seq(Chars) \X Chars  PROVE x[1] \o EscapeOf(x[2]) \in Seq(Chars)
    <3>1. x[1] \in Seq(Chars) /\ x[2] \in Chars  OBVIOUS
    <3>2. EscapeOf(x[2]) \in Seq(Chars)  BY <2>1, <3>1
    <3> QED  BY <3>1, <3>2
  <2> QED  BY <2>2
<1>3. PICK g \in [SUBSET (1..n) -> Seq(Chars)] : Folds(g, n, <<>>, step, text)
  <2>1. <<>> \in Seq(Chars)  OBVIOUS
  <2> HIDE DEF step, n
  <2> QED  BY <1>1, <1>2, <2>1, FoldExists
<1>4. g = Next(g)
  <2>1. ASSUME NEW s \in SUBSET (1..n), s # {}
        PROVE  g[s] = g[s \ {Max(s)}] \o EscapeOf(text[Max(s)])
    <3>1. Max(s) \in s  BY <2>1, <1>1, MaxIn
    <3>2. g[s \ {Max(s)}] \in Seq(Chars) /\ text[Max(s)] \in Chars  BY <3>1, <1>1
    <3> QED  BY <1>3, <2>1, <3>2 DEF Folds
  <2>2. g[{}] = <<>>  BY <1>3 DEF Folds
  <2> QED  BY <1>1, <2>1, <2>2
<1>5. PICK iter : iter = Next(iter) /\ Escaped(text) = iter[DOMAIN text]
  <2>1. PICK f : f = (CHOOSE h : h = Next(h)) /\ Escaped(text) = f[DOMAIN text]
    BY EscapedIsFold
  <2> HIDE DEF Next
  <2> QED  BY <1>4, <2>1
<1> DEFINE r == [k \in 0..n |-> iter[1..k]]
<1>6. r[0] = <<>>
  <2>1. 1..0 = {} /\ 0 \in 0..n  BY <1>1
  <2>2. iter[{}] = <<>>  BY <1>5
  <2> QED  BY <2>1, <2>2
<1>7. ASSUME NEW k \in 0..(n - 1)  PROVE r[k + 1] = r[k] \o EscapeOf(text[k + 1])
  <2>1. /\ 1..(k + 1) \in SUBSET (1..n) /\ k + 1 \in 1..(k + 1)
        /\ (1..(k + 1)) \ {k + 1} = 1..k /\ k \in 0..n /\ k + 1 \in 0..n
    BY <1>1
  <2>2. Max(1..(k + 1)) = k + 1  BY MaxOf
  <2>3. iter[1..(k + 1)] = iter[1..k] \o EscapeOf(text[k + 1])
    BY <1>1, <1>5, <2>1, <2>2
  <2> QED  BY <2>1, <2>3
<1>8. r[n] = Escaped(text)  BY <1>1, <1>5
<1> HIDE DEF r
<1> QED  BY <1>6, <1>7, <1>8

\* One typed sequence behind another is typed.
LEMMA ConcatType ==
    ASSUME NEW S, NEW x \in Seq(S), NEW y \in Seq(S)
    PROVE  x \o y \in Seq(S)
  OBVIOUS

\* So no text is: what send_tcp writes has no newline but the one that ends it.
LEMMA EscapedQuiet == ASSUME NEW text \in Seq(Chars) PROVE Escaped(text) \in Seq(Quiet)
<1>1. PICK r : /\ r[0] = <<>> /\ r[Len(text)] = Escaped(text)
               /\ \A k \in 0..(Len(text) - 1) : r[k + 1] = r[k] \o EscapeOf(text[k + 1])
  BY EscapedRun
<1> DEFINE n == Len(text)
           T == {k \in 0..n : r[k] \in Seq(Quiet)}
<1>2. n \in Nat  OBVIOUS
<1>3. 0 \in T
  <2>1. 0 \in 0..n /\ <<>> \in Seq(Quiet)  BY <1>2
  <2>2. r[0] \in Seq(Quiet)  BY <1>1, <2>1
  <2> QED  BY <2>1, <2>2
<1>4. ASSUME NEW k \in 0..(n - 1), k \in T  PROVE k + 1 \in T
  <2>1. k + 1 \in 1..n  BY <1>2
  <2>2. text[k + 1] \in Chars  BY <2>1
  <2>3. EscapeOf(text[k + 1]) \in Seq(Quiet)  BY <2>2, EscapeOfType
  <2>4. r[k] \in Seq(Quiet)  BY <1>4
  <2>5. r[k + 1] = r[k] \o EscapeOf(text[k + 1])  BY <1>1
  <2>6. r[k + 1] \in Seq(Quiet)  BY <2>3, <2>4, <2>5, ConcatType
  <2> QED  BY <2>1, <2>6
<1>5. 0..n \subseteq T
  <2> HIDE DEF T, n
  <2> QED  BY <1>2, <1>3, <1>4, Induction
<1>6. n \in T  BY <1>2, <1>5
<1> QED  BY <1>1, <1>6

\* An escaped text is one.
LEMMA EscapedType == ASSUME NEW text \in Seq(Chars) PROVE Escaped(text) \in Seq(Chars)
  BY EscapedQuiet, QuietType

-----------------------------------------------------------------------------
(* The reader.                                                             *)

\* The states of a receiver.
FieldTypes == [key : Chars, text : Seq(Chars)]
States == [escape : BOOLEAN, key : Chars, text : Seq(Chars), fields : Seq(FieldTypes)]

State(escape, key, text, fields) ==
    [escape |-> escape, key |-> key, text |-> text, fields |-> fields]

\* What a receiver makes of the symbol behind an escape.
Given(s) == IF s = "n" THEN "nl" ELSE IF s = "r" THEN "cr" ELSE s

\* ReadSymbol, case by case: behind an escape ...
LEMMA ReadEscaped ==
    ASSUME NEW key, NEW text, NEW fields, NEW s
    PROVE  ReadSymbol(State(TRUE, key, text, fields), s)
             = State(FALSE, key, Append(text, Given(s)), fields)
<1>1. PICK yes, no, g : yes = TRUE /\ no = FALSE /\ g = Append(text, Given(s))
  OBVIOUS
<1> DEFINE a == State(yes, key, text, fields)
<1>2. a.escape = yes /\ a.key = key /\ a.text = text /\ a.fields = fields
  BY DEF State
<1>3. [a EXCEPT !.escape = no] = State(no, key, text, fields)
  BY SMT DEF State
<1>4. [State(no, key, text, fields) EXCEPT !.text = g] = State(no, key, g, fields)
  BY SMT DEF State
<1>5. [a EXCEPT !.escape = no, !.text = g] = State(no, key, g, fields)
  BY <1>3, <1>4, Zenon
<1> HIDE DEF a
<1>6. ReadSymbol(a, s) = [a EXCEPT !.escape = FALSE, !.text = Append(text, Given(s))]
  BY <1>1, <1>2, Zenon DEF ReadSymbol, Given
<1>7. ReadSymbol(a, s) = [a EXCEPT !.escape = no, !.text = g]
  BY <1>1, <1>6, Zenon
<1> QED  BY <1>1, <1>5, <1>7, Zenon DEF a

\* ... an escape ...
LEMMA ReadBackslash ==
    ASSUME NEW key, NEW text, NEW fields
    PROVE  ReadSymbol(State(FALSE, key, text, fields), "\\") = State(TRUE, key, text, fields)
<1>1. PICK yes, no : yes = TRUE /\ no = FALSE  OBVIOUS
<1> DEFINE a == State(no, key, text, fields)
<1>2. a.escape = no  BY DEF State
<1>3. [a EXCEPT !.escape = yes] = State(yes, key, text, fields)
  BY SMT DEF State
<1> HIDE DEF a
<1>4. ReadSymbol(a, "\\") = [a EXCEPT !.escape = TRUE]
  BY <1>1, <1>2, Zenon DEF ReadSymbol
<1> QED  BY <1>1, <1>3, <1>4, Zenon DEF a

\* Neither an escape nor what ends a key.
Plain(s) == s # "\\" /\ s # "="

\* ... a symbol that stands for itself ...
LEMMA ReadPlain ==
    ASSUME NEW s, Plain(s)
    PROVE  \A key, text, fields :
             ReadSymbol(State(FALSE, key, text, fields), s) = State(FALSE, key, Append(text, s), fields)
<1> TAKE key, text, fields
<1>1. PICK no, g : no = FALSE /\ g = Append(text, s)  OBVIOUS
<1> DEFINE a == State(no, key, text, fields)
<1>2. a.escape = no /\ a.text = text  BY DEF State
<1>3. [a EXCEPT !.text = g] = State(no, key, g, fields)
  BY SMT DEF State
<1> HIDE DEF a
<1>4. ReadSymbol(a, s) = [a EXCEPT !.text = Append(text, s)]
  BY <1>1, <1>2, Zenon DEF ReadSymbol, Plain
<1> QED  BY <1>1, <1>3, <1>4, Zenon DEF a

\* ... and the end of a key, which began behind the last blank.
LEMMA ReadEquals ==
    ASSUME NEW key, NEW text, NEW fields
    PROVE  ReadSymbol(State(FALSE, key, text, fields), "=")
             = State(FALSE, IF Len(text) = 0 THEN "" ELSE text[Len(text)], <<>>,
                     Append(fields, [key |-> key, text |-> SubSeq(text, 1, Len(text) - 2)]))
<1>1. PICK no, last, read, none :
        /\ no = FALSE
        /\ last = IF Len(text) = 0 THEN "" ELSE text[Len(text)]
        /\ read = Append(fields, [key |-> key, text |-> SubSeq(text, 1, Len(text) - 2)])
        /\ none = <<>>
  OBVIOUS
<1> DEFINE a == State(no, key, text, fields)
<1>2. a.escape = no /\ a.key = key /\ a.text = text /\ a.fields = fields
  BY DEF State
<1>3. [a EXCEPT !.fields = read] = State(no, key, text, read)
  BY SMT DEF State
<1>4. [State(no, key, text, read) EXCEPT !.key = last] = State(no, last, text, read)
  BY SMT DEF State
<1>5. [State(no, last, text, read) EXCEPT !.text = none] = State(no, last, none, read)
  BY SMT DEF State
<1>6. [a EXCEPT !.fields = read, !.key = last, !.text = none] = State(no, last, none, read)
  BY <1>3, <1>4, <1>5, Zenon
<1> HIDE DEF a
<1>7. "=" # "\\"  OBVIOUS
<1>8. ReadSymbol(a, "=") =
        [a EXCEPT !.fields = Append(fields, [key |-> key, text |-> SubSeq(text, 1, Len(text) - 2)]),
                  !.key = IF Len(text) = 0 THEN "" ELSE text[Len(text)], !.text = <<>>]
  BY <1>1, <1>2, <1>7, Zenon DEF ReadSymbol
<1>9. ReadSymbol(a, "=") = [a EXCEPT !.fields = read, !.key = last, !.text = none]
  BY <1>1, <1>8, Zenon
<1> QED  BY <1>1, <1>6, <1>9, Zenon DEF a

\* A state is its four components ...
LEMMA StateIs ==
    ASSUME NEW a \in States
    PROVE  /\ a = State(a.escape, a.key, a.text, a.fields)
           /\ a.escape \in BOOLEAN /\ a.key \in Chars /\ a.text \in Seq(Chars)
           /\ a.fields \in Seq(FieldTypes)
  BY DEF States, State

\* ... and typed where they are.
LEMMA StateType ==
    ASSUME NEW e \in BOOLEAN, NEW key \in Chars, NEW text \in Seq(Chars), NEW fields \in Seq(FieldTypes)
    PROVE  State(e, key, text, fields) \in States
  BY DEF States, State

\* A receiver stays in its states.
LEMMA ReadSymbolType ==
    ASSUME NEW a \in States, NEW s \in Chars PROVE ReadSymbol(a, s) \in States
<1>1. PICK e \in BOOLEAN, key \in Chars, text \in Seq(Chars), fields \in Seq(FieldTypes) :
        a = State(e, key, text, fields)
  BY StateIs
<1> DEFINE n == Len(text)
<1>2. Given(s) \in Chars
  <2>1. "nl" \in Chars /\ "cr" \in Chars  BY DEF Chars
  <2> QED  BY <2>1 DEF Given
<1>3. Append(text, s) \in Seq(Chars) /\ Append(text, Given(s)) \in Seq(Chars)
  BY <1>1, <1>2
<1>4. (IF n = 0 THEN "" ELSE text[n]) \in Chars
  <2>1. "" \in Chars  BY DEF Chars
  <2>2. n # 0 => text[n] \in Chars  BY <1>1
  <2> QED  BY <2>1, <2>2
<1>5. [key |-> key, text |-> SubSeq(text, 1, n - 2)] \in FieldTypes
  <2>1. SubSeq(text, 1, n - 2) \in Seq(Chars)
    <3>1. n \in Nat  BY <1>1
    <3>2. \A i \in 1..(n - 2) : text[i] \in Chars  BY <1>1, <3>1
    <3> QED  BY <1>1, <3>1, <3>2, SubSeqProperties
  <2> QED  BY <1>1, <2>1 DEF FieldTypes
<1>6. Append(fields, [key |-> key, text |-> SubSeq(text, 1, n - 2)]) \in Seq(FieldTypes)
  BY <1>1, <1>5
<1>7. <<>> \in Seq(Chars)  OBVIOUS
<1>8. CASE e = TRUE
  <2>1. State(FALSE, key, Append(text, Given(s)), fields) \in States
    BY <1>1, <1>3, StateType
  <2> QED  BY <1>1, <1>8, <2>1, ReadEscaped, Zenon
<1>9. CASE e = FALSE /\ s = "="
  <2> DEFINE last == IF n = 0 THEN "" ELSE text[n]
             read == Append(fields, [key |-> key, text |-> SubSeq(text, 1, n - 2)])
  <2>1. State(FALSE, last, <<>>, read) \in States
    <3>1. last \in Chars /\ read \in Seq(FieldTypes)  BY <1>4, <1>6
    <3> HIDE DEF last, read
    <3> QED  BY <1>7, <3>1, StateType
  <2>2. ReadSymbol(State(FALSE, key, text, fields), "=") = State(FALSE, last, <<>>, read)
    BY ReadEquals, Zenon
  <2> QED  BY <1>1, <1>9, <2>1, <2>2, Zenon
<1>10. CASE e = FALSE /\ s # "="
  <2>1. State(TRUE, key, text, fields) \in States /\ State(FALSE, key, Append(text, s), fields) \in States
    BY <1>1, <1>3, StateType
  <2>2. CASE s = "\\"  BY <1>1, <1>10, <2>1, <2>2, ReadBackslash, Zenon
  <2>3. CASE s # "\\"
    <3>1. Plain(s)  BY <1>10, <2>3 DEF Plain
    <3>2. ReadSymbol(State(FALSE, key, text, fields), s) = State(FALSE, key, Append(text, s), fields)
      BY <3>1, ReadPlain, Zenon
    <3> QED  BY <1>1, <1>10, <2>1, <3>2, Zenon
  <2> QED  BY <2>2, <2>3
<1> QED  BY <1>1, <1>8, <1>9, <1>10, Zenon

\* Reading x takes a receiver from state a to state b.
Reads(x, a, b) ==
    \E r \in [0..Len(x) -> States] :
        /\ r[0] = a /\ r[Len(x)] = b
        /\ \A k \in 0..(Len(x) - 1) : r[k + 1] = ReadSymbol(r[k], x[k + 1])

\* The recursive function that reading a line with FoldLeft stands for.
LEMMA ReadAllIsFold ==
    ASSUME NEW x, NEW a
    PROVE  \E iter :
        /\ iter = CHOOSE f : f = [s \in SUBSET DOMAIN x |->
                    IF s = {} THEN a ELSE ReadSymbol(f[s \ {Max(s)}], x[Max(s)])]
        /\ FoldLeft(ReadSymbol, a, x) = iter[DOMAIN x]
  BY DEF FoldLeft, MapThenFoldSet

\* The fold of ReadBack does read the line ...
LEMMA ReadsAll ==
    ASSUME NEW x \in Seq(Chars), NEW a \in States
    PROVE  Reads(x, a, FoldLeft(ReadSymbol, a, x))
<1> DEFINE n == Len(x)
           Next(f) == [s \in SUBSET DOMAIN x |->
                         IF s = {} THEN a ELSE ReadSymbol(f[s \ {Max(s)}], x[Max(s)])]
           step == [y \in States \X Chars |-> ReadSymbol(y[1], y[2])]
<1>1. n \in Nat /\ x \in [1..n -> Chars] /\ DOMAIN x = 1..n  OBVIOUS
<1>2. step \in [States \X Chars -> States]  BY ReadSymbolType
<1>3. PICK g \in [SUBSET (1..n) -> States] : Folds(g, n, a, step, x)
  <2> HIDE DEF step, n
  <2> QED  BY <1>1, <1>2, FoldExists
<1>4. g = Next(g)
  <2>1. ASSUME NEW s \in SUBSET (1..n), s # {}
        PROVE  g[s] = ReadSymbol(g[s \ {Max(s)}], x[Max(s)])
    <3>1. Max(s) \in s  BY <2>1, <1>1, MaxIn
    <3>2. g[s \ {Max(s)}] \in States /\ x[Max(s)] \in Chars  BY <3>1, <1>1
    <3> QED  BY <1>3, <2>1, <3>2 DEF Folds
  <2>2. g[{}] = a  BY <1>3 DEF Folds
  <2> QED  BY <1>1, <2>1, <2>2
<1>5. PICK iter : /\ iter = Next(iter) /\ FoldLeft(ReadSymbol, a, x) = iter[DOMAIN x]
  <2>1. PICK f : f = (CHOOSE h : h = Next(h)) /\ FoldLeft(ReadSymbol, a, x) = f[DOMAIN x]
    BY ReadAllIsFold
  <2> HIDE DEF Next
  <2> QED  BY <1>4, <2>1
<1> DEFINE r == [k \in 0..n |-> iter[1..k]]
<1>6. r[0] = a
  <2>1. 1..0 = {} /\ 0 \in 0..n  BY <1>1
  <2>2. iter[{}] = a  BY <1>5
  <2> QED  BY <2>1, <2>2
<1>7. ASSUME NEW k \in 0..(n - 1)  PROVE r[k + 1] = ReadSymbol(r[k], x[k + 1])
  <2>1. /\ 1..(k + 1) \in SUBSET (1..n) /\ k + 1 \in 1..(k + 1)
        /\ (1..(k + 1)) \ {k + 1} = 1..k /\ k \in 0..n /\ k + 1 \in 0..n
    BY <1>1
  <2>2. Max(1..(k + 1)) = k + 1  BY MaxOf
  <2>3. iter[1..(k + 1)] = ReadSymbol(iter[1..k], x[k + 1])
    BY <1>1, <1>5, <2>1, <2>2
  <2> QED  BY <2>1, <2>3
<1>8. r[n] = FoldLeft(ReadSymbol, a, x)  BY <1>1, <1>5
<1>9. \A k \in 0..n : r[k] \in States
  <2> DEFINE T == {k \in 0..n : r[k] \in States}
  <2>1. 0 \in T  BY <1>1, <1>6
  <2>2. ASSUME NEW k \in 0..(n - 1), k \in T  PROVE k + 1 \in T
    <3>1. k + 1 \in 0..n /\ x[k + 1] \in Chars  BY <1>1
    <3>2. r[k] \in States  BY <2>2
    <3> HIDE DEF r
    <3> QED  BY <1>7, <3>1, <3>2, ReadSymbolType
  <2>3. 0..n \subseteq T
    <3> HIDE DEF T
    <3> QED  BY <1>1, <2>1, <2>2, Induction
  <2> QED  BY <2>3
<1>10. r \in [0..n -> States]  BY <1>9
<1> HIDE DEF r
<1> QED  BY <1>6, <1>7, <1>8, <1>10 DEF Reads

\* ... and a line is read in one way only.
LEMMA ReadsSame ==
    ASSUME NEW x \in Seq(Chars), NEW a, NEW b, NEW c, Reads(x, a, b), Reads(x, a, c)
    PROVE  b = c
<1> DEFINE n == Len(x)
<1>1. n \in Nat  OBVIOUS
<1>2. PICK r \in [0..n -> States] :
        /\ r[0] = a /\ r[n] = b
        /\ \A k \in 0..(n - 1) : r[k + 1] = ReadSymbol(r[k], x[k + 1])
  BY DEF Reads
<1>3. PICK q \in [0..n -> States] :
        /\ q[0] = a /\ q[n] = c
        /\ \A k \in 0..(n - 1) : q[k + 1] = ReadSymbol(q[k], x[k + 1])
  BY DEF Reads
<1> DEFINE T == {k \in 0..n : r[k] = q[k]}
<1>4. 0 \in T  BY <1>1, <1>2, <1>3
<1>5. ASSUME NEW k \in 0..(n - 1), k \in T  PROVE k + 1 \in T
  <2>1. k + 1 \in 0..n /\ r[k] = q[k]  BY <1>1, <1>5
  <2> QED  BY <1>2, <1>3, <2>1
<1>6. 0..n \subseteq T
  <2> HIDE DEF T, n
  <2> QED  BY <1>1, <1>4, <1>5, Induction
<1> QED  BY <1>1, <1>2, <1>3, <1>6

\* Reading one symbol, nothing, or one text behind another.
LEMMA ReadsOne ==
    ASSUME NEW a \in States, NEW s \in Chars
    PROVE  Reads(<<s>>, a, ReadSymbol(a, s))
<1> DEFINE r == [k \in 0..1 |-> IF k = 0 THEN a ELSE ReadSymbol(a, s)]
<1>1. ReadSymbol(a, s) \in States  BY ReadSymbolType
<1>2. r \in [0..1 -> States] /\ r[0] = a /\ r[1] = ReadSymbol(a, s)  BY <1>1
<1>3. Len(<<s>>) = 1 /\ <<s>>[1] = s  OBVIOUS
<1>4. \A k \in 0..(1 - 1) : k = 0 /\ k + 1 = 1  OBVIOUS
<1>5. \A k \in 0..(1 - 1) : r[k + 1] = ReadSymbol(r[k], <<s>>[k + 1])
  BY <1>2, <1>3, <1>4
<1> HIDE DEF r
<1> QED  BY <1>2, <1>3, <1>5 DEF Reads

LEMMA ReadsNone ==
    ASSUME NEW a \in States
    PROVE  Reads(<<>>, a, a)
<1> DEFINE r == [k \in 0..0 |-> a]
<1>1. r \in [0..0 -> States] /\ r[0] = a  OBVIOUS
<1>2. Len(<<>>) = 0 /\ 0..(0 - 1) = {}  OBVIOUS
<1> HIDE DEF r
<1> QED  BY <1>1, <1>2 DEF Reads

LEMMA ReadsConcat ==
    ASSUME NEW x \in Seq(Chars), NEW y \in Seq(Chars), NEW a, NEW b, NEW c,
           Reads(x, a, b), Reads(y, b, c)
    PROVE  Reads(x \o y, a, c)
<1> DEFINE m == Len(x)
           n == Len(y)
           z == x \o y
<1>1. /\ m \in Nat /\ n \in Nat /\ z \in Seq(Chars) /\ Len(z) = m + n
      /\ \A k \in 1..m : z[k] = x[k]
      /\ \A k \in 1..n : z[m + k] = y[k]
  OBVIOUS
<1>2. PICK r \in [0..m -> States] :
        /\ r[0] = a /\ r[m] = b
        /\ \A k \in 0..(m - 1) : r[k + 1] = ReadSymbol(r[k], x[k + 1])
  BY DEF Reads
<1>3. PICK q \in [0..n -> States] :
        /\ q[0] = b /\ q[n] = c
        /\ \A k \in 0..(n - 1) : q[k + 1] = ReadSymbol(q[k], y[k + 1])
  BY DEF Reads
<1> HIDE DEF m, n, z
<1> DEFINE w == [k \in 0..(m + n) |-> IF k <= m THEN r[k] ELSE q[k - m]]
<1>4. w \in [0..(m + n) -> States]
  <2>1. ASSUME NEW k \in 0..(m + n)  PROVE w[k] \in States
    <3>1. k <= m => k \in 0..m  BY <1>1
    <3>2. ~(k <= m) => k - m \in 0..n  BY <1>1
    <3> QED  BY <3>1, <3>2
  <2> QED  BY <2>1
<1>5. \A k \in 0..m : w[k] = r[k]  BY <1>1
<1>6. \A k \in 0..n : w[m + k] = q[k]
  <2>1. ASSUME NEW k \in 0..n, k # 0  PROVE w[m + k] = q[k]
    BY <1>1, <2>1
  <2>2. w[m + 0] = q[0]  BY <1>1, <1>2, <1>3
  <2> QED  BY <2>1, <2>2
<1> HIDE DEF w
<1>7. ASSUME NEW k \in 0..(m + n - 1)  PROVE w[k + 1] = ReadSymbol(w[k], z[k + 1])
  <2>1. CASE k < m
    <3>1. k \in 0..(m - 1) /\ k \in 0..m /\ k + 1 \in 0..m /\ k + 1 \in 1..m  BY <1>1, <2>1
    <3> QED  BY <1>1, <1>2, <1>5, <3>1
  <2>2. CASE k >= m
    <3>1. PICK j \in 0..(n - 1) : j = k - m  BY <1>1, <2>2
    <3>2. j \in 0..n /\ j + 1 \in 0..n /\ j + 1 \in 1..n /\ k = m + j /\ k + 1 = m + (j + 1)
      BY <1>1, <3>1
    <3>3. w[k] = q[j] /\ w[k + 1] = q[j + 1] /\ z[k + 1] = y[j + 1]  BY <1>1, <1>6, <3>2
    <3> QED  BY <1>3, <3>3
  <2> QED  BY <1>1, <2>1, <2>2
<1>8. w[0] = a /\ w[m + n] = c  BY <1>1, <1>2, <1>3, <1>5, <1>6
<1>9. /\ w \in [0..Len(z) -> States] /\ w[Len(z)] = c
      /\ \A k \in 0..(Len(z) - 1) : w[k + 1] = ReadSymbol(w[k], z[k + 1])
  BY <1>1, <1>4, <1>7, <1>8
<1>10. Reads(z, a, c)  BY <1>8, <1>9 DEF Reads
<1> QED  BY <1>10 DEF z

\* SubSeq takes back what Append added.
LEMMA WithoutTheLast ==
    ASSUME NEW S, NEW x \in Seq(S), NEW s \in S, NEW y, y = Append(x, s)
    PROVE  y \in Seq(S) /\ SubSeq(y, 1, Len(y) - 1) = x
<1>1. y \in Seq(S) /\ Len(y) = Len(x) + 1 /\ \A i \in 1..Len(x) : y[i] = x[i]
  OBVIOUS
<1>2. Len(x) \in Nat /\ \A i \in 1..Len(x) : y[i] \in S  BY <1>1
<1>3. PICK z : z = SubSeq(y, 1, Len(x))  OBVIOUS
<1>4. z \in Seq(S) /\ Len(z) = Len(x) /\ \A i \in 1..Len(x) : z[i] = x[i]
  BY <1>1, <1>2, <1>3, SubSeqProperties
<1>5. z = x  BY <1>4, SeqEqual
<1> QED  BY <1>1, <1>2, <1>3, <1>5

\* Two symbols are one behind the other, to a receiver too.
LEMMA PairOf ==
    ASSUME NEW S, NEW s \in S, NEW t \in S
    PROVE  /\ <<s>> \in Seq(S) /\ <<t>> \in Seq(S) /\ <<s, t>> \in Seq(S)
           /\ <<s>> \o <<t>> = <<s, t>>
<1>1. <<s>> \in Seq(S) /\ <<t>> \in Seq(S) /\ <<s, t>> \in Seq(S)  OBVIOUS
<1>2. PICK u, v, x : u = <<s>> /\ v = <<t>> /\ x = u \o v  OBVIOUS
<1>3. x \in Seq(S)  BY <1>1, <1>2, ConcatType
<1>4. Len(x) = 2 /\ x[1] = s /\ x[2] = t  BY <1>1, <1>2
<1>5. x = <<s, t>>  BY <1>1, <1>3, <1>4, SeqEqual
<1> QED  BY <1>1, <1>2, <1>5

LEMMA ReadsPair ==
    ASSUME NEW a \in States, NEW s \in Chars, NEW t \in Chars
    PROVE  Reads(<<s, t>>, a, ReadSymbol(ReadSymbol(a, s), t))
<1>1. ReadSymbol(a, s) \in States  BY ReadSymbolType
<1>2. /\ Reads(<<s>>, a, ReadSymbol(a, s))
      /\ Reads(<<t>>, ReadSymbol(a, s), ReadSymbol(ReadSymbol(a, s), t))
  BY <1>1, ReadsOne
<1>3. <<s>> \in Seq(Chars) /\ <<t>> \in Seq(Chars) /\ <<s>> \o <<t>> = <<s, t>>
  BY PairOf
<1>4. Reads(<<s>> \o <<t>>, a, ReadSymbol(ReadSymbol(a, s), t))
  BY <1>2, <1>3, ReadsConcat
<1> QED  BY <1>3, <1>4

\* A symbol that was escaped is read as itself.
LEMMA EscapeOfReads ==
    ASSUME NEW key \in Chars, NEW text \in Seq(Chars), NEW fields \in Seq(FieldTypes), NEW s \in Chars
    PROVE  Reads(EscapeOf(s), State(FALSE, key, text, fields),
                 State(FALSE, key, Append(text, s), fields))
<1> DEFINE a == State(FALSE, key, text, fields)
<1>1. a \in States  BY StateType
<1>2. CASE s \in {"\\", "=", "|", "nl", "cr"}
  <2>1. EscapeOf(s) = <<"\\", Letter(s)>> /\ Given(Letter(s)) = s
    BY <1>2 DEF EscapeOf, Letter, Given
  <2>2. "\\" \in Chars /\ Letter(s) \in Chars  BY DEF Chars, Letter
  <2>3. ReadSymbol(a, "\\") = State(TRUE, key, text, fields)
    BY ReadBackslash, Zenon
  <2>4. ReadSymbol(State(TRUE, key, text, fields), Letter(s)) = State(FALSE, key, Append(text, s), fields)
    <3>1. ReadSymbol(State(TRUE, key, text, fields), Letter(s))
            = State(FALSE, key, Append(text, Given(Letter(s))), fields)
      BY ReadEscaped
    <3> QED  BY <2>1, <3>1, Zenon
  <2>5. Reads(<<"\\", Letter(s)>>, a, ReadSymbol(ReadSymbol(a, "\\"), Letter(s)))
    <3> HIDE DEF a
    <3> QED  BY <1>1, <2>2, ReadsPair
  <2> QED  BY <2>1, <2>3, <2>4, <2>5
<1>3. CASE s \notin {"\\", "=", "|", "nl", "cr"}
  <2>1. EscapeOf(s) = <<s>> /\ Plain(s)  BY <1>3 DEF EscapeOf, Plain
  <2>2. ReadSymbol(a, s) = State(FALSE, key, Append(text, s), fields)
    BY <2>1, ReadPlain, Zenon
  <2>3. Reads(<<s>>, a, ReadSymbol(a, s))
    <3> HIDE DEF a
    <3> QED  BY <1>1, ReadsOne
  <2> QED  BY <2>1, <2>2, <2>3
<1> QED  BY <1>2, <1>3

\* A prefix that is longer by one.
LEMMA PrefixStep ==
    ASSUME NEW S, NEW x \in Seq(S), NEW k \in 0..(Len(x) - 1)
    PROVE  /\ SubSeq(x, 1, k) \in Seq(S) /\ x[k + 1] \in S
           /\ SubSeq(x, 1, k + 1) = Append(SubSeq(x, 1, k), x[k + 1])
  OBVIOUS

\* What was escaped is read as it was.
LEMMA EscapedReads ==
    ASSUME NEW key \in Chars, NEW fields \in Seq(FieldTypes), NEW text \in Seq(Chars)
    PROVE  Reads(Escaped(text), State(FALSE, key, <<>>, fields), State(FALSE, key, text, fields))
<1> DEFINE n == Len(text)
           At(k) == State(FALSE, key, SubSeq(text, 1, k), fields)
<1>1. PICK r : /\ r[0] = <<>> /\ r[n] = Escaped(text)
               /\ \A k \in 0..(n - 1) : r[k + 1] = r[k] \o EscapeOf(text[k + 1])
  BY EscapedRun
<1>2. n \in Nat /\ SubSeq(text, 1, 0) = <<>> /\ SubSeq(text, 1, n) = text  OBVIOUS
<1>3. \A k \in 0..n : SubSeq(text, 1, k) \in Seq(Chars)  OBVIOUS
<1> DEFINE T == {k \in 0..n : r[k] \in Seq(Chars) /\ Reads(r[k], At(0), At(k))}
<1>4. 0 \in T
  <2>1. At(0) \in States
    <3>1. SubSeq(text, 1, 0) \in Seq(Chars)  BY <1>2, <1>3
    <3> QED  BY <3>1, StateType
  <2>2. <<>> \in Seq(Chars) /\ 0 \in 0..n  BY <1>2
  <2> HIDE DEF At
  <2> QED  BY <1>1, <2>1, <2>2, ReadsNone
<1>5. ASSUME NEW k \in 0..(n - 1), k \in T  PROVE k + 1 \in T
  <2>1. k \in 0..n /\ k + 1 \in 0..n  BY <1>2
  <2>2. text[k + 1] \in Chars /\ SubSeq(text, 1, k + 1) = Append(SubSeq(text, 1, k), text[k + 1])
    BY PrefixStep
  <2>3. SubSeq(text, 1, k) \in Seq(Chars)  BY <1>3, <2>1
  <2>4. Reads(EscapeOf(text[k + 1]), At(k), At(k + 1))
    BY <2>2, <2>3, EscapeOfReads
  <2>5. r[k] \in Seq(Chars) /\ Reads(r[k], At(0), At(k))  BY <1>5
  <2>6. r[k + 1] = r[k] \o EscapeOf(text[k + 1])  BY <1>1
  <2>7. EscapeOf(text[k + 1]) \in Seq(Chars)  BY <2>2, EscapeOfType, QuietType
  <2> HIDE DEF At
  <2>8. r[k + 1] \in Seq(Chars)  BY <2>5, <2>6, <2>7, ConcatType
  <2>9. Reads(r[k + 1], At(0), At(k + 1))
    BY <2>4, <2>5, <2>6, <2>7, ReadsConcat
  <2> QED  BY <2>1, <2>8, <2>9
<1>6. 0..n \subseteq T
  <2> HIDE DEF T, n
  <2> QED  BY <1>2, <1>4, <1>5, Induction
<1>7. n \in T
  <2>1. n \in 0..n  BY <1>2
  <2> HIDE DEF T, n
  <2> QED  BY <1>6, <2>1
<1>8. Reads(r[n], At(0), At(n))  BY <1>7
<1> QED  BY <1>1, <1>2, <1>8

\* A text that has nothing to escape is read as it stands.
LEMMA RawReads ==
    ASSUME NEW key \in Chars, NEW fields \in Seq(FieldTypes), NEW text \in Seq(Clean)
    PROVE  Reads(text, State(FALSE, key, <<>>, fields), State(FALSE, key, text, fields))
<1> DEFINE n == Len(text)
           At(k) == State(FALSE, key, SubSeq(text, 1, k), fields)
           r == [k \in 0..n |-> At(k)]
<1>1. n \in Nat /\ SubSeq(text, 1, 0) = <<>> /\ SubSeq(text, 1, n) = text  OBVIOUS
<1>2. \A k \in 0..n : SubSeq(text, 1, k) \in Seq(Clean)  OBVIOUS
<1>3. \A k \in 0..n : At(k) \in States
  <2>1. Seq(Clean) \subseteq Seq(Chars)  BY CleanType, QuietType
  <2> QED  BY <1>2, <2>1, StateType
<1>4. ASSUME NEW k \in 0..(n - 1)  PROVE At(k + 1) = ReadSymbol(At(k), text[k + 1])
  <2>1. text[k + 1] \in Clean /\ SubSeq(text, 1, k + 1) = Append(SubSeq(text, 1, k), text[k + 1])
    BY PrefixStep
  <2>2. Plain(text[k + 1])  BY <2>1 DEF Clean, Plain
  <2>3. ReadSymbol(At(k), text[k + 1])
          = State(FALSE, key, Append(SubSeq(text, 1, k), text[k + 1]), fields)
    BY <2>2, ReadPlain, Zenon
  <2> QED  BY <2>1, <2>3, Zenon
<1>5. At(0) = State(FALSE, key, <<>>, fields) /\ At(n) = State(FALSE, key, text, fields)
  BY <1>1, Zenon
<1> HIDE DEF At
<1>6. r \in [0..n -> States] /\ r[0] = At(0) /\ r[n] = At(n)  BY <1>1, <1>3
<1>7. \A k \in 0..(n - 1) : r[k + 1] = ReadSymbol(r[k], text[k + 1])
  <2>1. \A k \in 0..(n - 1) : k \in 0..n /\ k + 1 \in 0..n  BY <1>1
  <2> QED  BY <1>4, <2>1
<1> HIDE DEF r
<1> QED  BY <1>5, <1>6, <1>7 DEF Reads

-----------------------------------------------------------------------------
(* The extension of a line.                                                *)

\* A field that a receiver takes as it is.  Keys are not escaped, nor is what
\* was joined.
Keyed == {f \in FieldTypes : /\ Plain(f.key) /\ f.key # "nl"
                             /\ f.key \in Joined => f.text \in Seq(Clean)}

\* What is written of a field is typed; of such a field it has no newline, and
\* is read as the text it was.
LEMMA WrittenType ==
    ASSUME NEW f \in FieldTypes PROVE Written(f) \in Seq(Chars)
<1>1. f.text \in Seq(Chars) /\ Escaped(f.text) \in Seq(Chars)  BY EscapedType DEF FieldTypes
<1> QED  BY <1>1, Zenon DEF Written

LEMMA WrittenQuiet ==
    ASSUME NEW f \in Keyed PROVE Written(f) \in Seq(Quiet)
<1>1. f.text \in Seq(Chars)  BY DEF Keyed, FieldTypes
<1>2. Escaped(f.text) \in Seq(Quiet)  BY <1>1, EscapedQuiet
<1>3. f.key \in Joined => f.text \in Seq(Quiet)  BY CleanType DEF Keyed
<1> QED  BY <1>2, <1>3, Zenon DEF Written

LEMMA WrittenReads ==
    ASSUME NEW key \in Chars, NEW fields \in Seq(FieldTypes), NEW f \in Keyed
    PROVE  Reads(Written(f), State(FALSE, key, <<>>, fields), State(FALSE, key, f.text, fields))
<1>1. f.text \in Seq(Chars)  BY DEF Keyed, FieldTypes
<1>2. CASE f.key \in Joined
  <2>1. f.text \in Seq(Clean) /\ Written(f) = f.text  BY <1>2 DEF Keyed, Written
  <2>2. Reads(f.text, State(FALSE, key, <<>>, fields), State(FALSE, key, f.text, fields))
    BY <2>1, RawReads
  <2> QED  BY <2>1, <2>2, Zenon
<1>3. CASE f.key \notin Joined
  <2>1. Written(f) = Escaped(f.text)  BY <1>3 DEF Written
  <2>2. Reads(Escaped(f.text), State(FALSE, key, <<>>, fields), State(FALSE, key, f.text, fields))
    BY <1>1, EscapedReads
  <2> QED  BY <2>1, <2>2, Zenon
<1> QED  BY <1>2, <1>3

\* What format_cef and format_leef write for one field behind others.
Extended(line, f) ==
    line \o (IF line = <<>> THEN <<>> ELSE <<" ">>) \o <<f.key, "=">> \o Written(f)

\* Four typed sequences are a typed one, which is not empty where one of them is not.
LEMMA JoinedType ==
    ASSUME NEW S, NEW line \in Seq(S), NEW blank \in Seq(S), NEW key \in Seq(S), NEW text \in Seq(S),
           Len(key) = 2
    PROVE  line \o blank \o key \o text \in Seq(S) /\ line \o blank \o key \o text # <<>>
<1>1. PICK start : start = line \o blank  OBVIOUS
<1>2. PICK head : head = start \o key  OBVIOUS
<1>3. PICK whole : whole = head \o text  OBVIOUS
<1>4. start \in Seq(S)  BY <1>1
<1>5. head \in Seq(S) /\ Len(head) = Len(start) + Len(key)  BY <1>2, <1>4, ConcatProperties
<1>6. whole \in Seq(S) /\ Len(whole) = Len(head) + Len(text)  BY <1>3, <1>5, ConcatProperties
<1>7. Len(whole) > 0  BY <1>4, <1>5, <1>6
<1>8. whole # <<>>  BY <1>7
<1> QED  BY <1>1, <1>2, <1>3, <1>6, <1>8, Zenon

\* So a line that is extended stays a line, and a quiet one with such a field.
LEMMA ExtendedType ==
    ASSUME NEW line \in Seq(Chars), NEW f \in FieldTypes
    PROVE  Extended(line, f) \in Seq(Chars)
<1> DEFINE blank == IF line = <<>> THEN <<>> ELSE <<" ">>
<1>1. " " \in Chars /\ "=" \in Chars  BY DEF Chars
<1>2. f.key \in Chars /\ Written(f) \in Seq(Chars)  BY WrittenType DEF FieldTypes
<1>3. <<" ">> \in Seq(Chars) /\ <<f.key, "=">> \in Seq(Chars)  BY <1>1, <1>2, OneOf, TwoOf, Zenon
<1>4. <<>> \in Seq(Chars) /\ Len(<<f.key, "=">>) = 2  OBVIOUS
<1>5. blank \in Seq(Chars)  BY <1>3, <1>4, Zenon
<1> HIDE DEF blank
<1>6. line \o blank \o <<f.key, "=">> \o Written(f) \in Seq(Chars)
  BY <1>2, <1>3, <1>4, <1>5, JoinedType, Zenon
<1> QED  BY <1>6, Zenon DEF Extended, blank

LEMMA ExtendedQuiet ==
    ASSUME NEW line \in Seq(Quiet), NEW f \in Keyed
    PROVE  Extended(line, f) \in Seq(Quiet) /\ Extended(line, f) # <<>>
<1> DEFINE blank == IF line = <<>> THEN <<>> ELSE <<" ">>
<1>1. " " \in Quiet /\ "=" \in Quiet  BY DEF Chars, Quiet
<1>2. f.key \in Quiet /\ Written(f) \in Seq(Quiet)  BY WrittenQuiet DEF Keyed, FieldTypes, Quiet
<1>3. <<" ">> \in Seq(Quiet) /\ <<f.key, "=">> \in Seq(Quiet)  BY <1>1, <1>2, OneOf, TwoOf, Zenon
<1>4. <<>> \in Seq(Quiet) /\ Len(<<f.key, "=">>) = 2  OBVIOUS
<1>5. blank \in Seq(Quiet)  BY <1>3, <1>4, Zenon
<1> HIDE DEF blank
<1>6. /\ line \o blank \o <<f.key, "=">> \o Written(f) \in Seq(Quiet)
      /\ line \o blank \o <<f.key, "=">> \o Written(f) # <<>>
  BY <1>2, <1>3, <1>4, <1>5, JoinedType, Zenon
<1> QED  BY <1>6, Zenon DEF Extended, blank

\* The recursive function Extension stands for.
LEMMA ExtensionIsFold ==
    ASSUME NEW fields
    PROVE  \E iter :
        /\ iter = CHOOSE f : f = [s \in SUBSET DOMAIN fields |->
                    IF s = {} THEN <<>> ELSE Extended(f[s \ {Max(s)}], fields[Max(s)])]
        /\ Extension(fields) = iter[DOMAIN fields]
  BY DEF Extension, FoldLeft, MapThenFoldSet, Extended

\* Extension(fields) is built field after field.
LEMMA ExtensionRun ==
    ASSUME NEW fields \in Seq(FieldTypes)
    PROVE  \E r : /\ r[0] = <<>> /\ r[Len(fields)] = Extension(fields)
                  /\ \A k \in 0..(Len(fields) - 1) : r[k + 1] = Extended(r[k], fields[k + 1])
<1> DEFINE n == Len(fields)
           Next(f) == [s \in SUBSET DOMAIN fields |->
                         IF s = {} THEN <<>> ELSE Extended(f[s \ {Max(s)}], fields[Max(s)])]
           step == [x \in Seq(Chars) \X FieldTypes |-> Extended(x[1], x[2])]
<1>1. n \in Nat /\ fields \in [1..n -> FieldTypes] /\ DOMAIN fields = 1..n  OBVIOUS
<1>2. step \in [Seq(Chars) \X FieldTypes -> Seq(Chars)]  BY ExtendedType
<1>3. PICK g \in [SUBSET (1..n) -> Seq(Chars)] : Folds(g, n, <<>>, step, fields)
  <2>1. <<>> \in Seq(Chars)  OBVIOUS
  <2> HIDE DEF step, n
  <2> QED  BY <1>1, <1>2, <2>1, FoldExists
<1>4. g = Next(g)
  <2>1. ASSUME NEW s \in SUBSET (1..n), s # {}
        PROVE  g[s] = Extended(g[s \ {Max(s)}], fields[Max(s)])
    <3>1. Max(s) \in s  BY <2>1, <1>1, MaxIn
    <3>2. g[s \ {Max(s)}] \in Seq(Chars) /\ fields[Max(s)] \in FieldTypes  BY <3>1, <1>1
    <3> QED  BY <1>3, <2>1, <3>2 DEF Folds
  <2>2. g[{}] = <<>>  BY <1>3 DEF Folds
  <2> QED  BY <1>1, <2>1, <2>2
<1>5. PICK iter : iter = Next(iter) /\ Extension(fields) = iter[DOMAIN fields]
  <2>1. PICK f : f = (CHOOSE h : h = Next(h)) /\ Extension(fields) = f[DOMAIN fields]
    BY ExtensionIsFold
  <2> HIDE DEF Next
  <2> QED  BY <1>4, <2>1
<1> DEFINE r == [k \in 0..n |-> iter[1..k]]
<1>6. r[0] = <<>>
  <2>1. 1..0 = {} /\ 0 \in 0..n  BY <1>1
  <2>2. iter[{}] = <<>>  BY <1>5
  <2> QED  BY <2>1, <2>2
<1>7. ASSUME NEW k \in 0..(n - 1)  PROVE r[k + 1] = Extended(r[k], fields[k + 1])
  <2>1. /\ 1..(k + 1) \in SUBSET (1..n) /\ k + 1 \in 1..(k + 1)
        /\ (1..(k + 1)) \ {k + 1} = 1..k /\ k \in 0..n /\ k + 1 \in 0..n
    BY <1>1
  <2>2. Max(1..(k + 1)) = k + 1  BY MaxOf
  <2>3. iter[1..(k + 1)] = Extended(iter[1..k], fields[k + 1])
    BY <1>1, <1>5, <2>1, <2>2
  <2> QED  BY <2>1, <2>3
<1>8. r[n] = Extension(fields)  BY <1>1, <1>5
<1> HIDE DEF r
<1> QED  BY <1>6, <1>7, <1>8

\* It is a line of symbols, whatever the fields are.
LEMMA ExtensionType ==
    ASSUME NEW fields \in Seq(FieldTypes) PROVE Extension(fields) \in Seq(Chars)
<1> DEFINE n == Len(fields)
<1>1. PICK r : /\ r[0] = <<>> /\ r[n] = Extension(fields)
               /\ \A k \in 0..(n - 1) : r[k + 1] = Extended(r[k], fields[k + 1])
  BY ExtensionRun
<1> DEFINE T == {k \in 0..n : r[k] \in Seq(Chars)}
<1>2. n \in Nat  OBVIOUS
<1>3. 0 \in T
  <2>1. 0 \in 0..n /\ <<>> \in Seq(Chars)  BY <1>2
  <2> QED  BY <1>1, <2>1
<1>4. ASSUME NEW k \in 0..(n - 1), k \in T  PROVE k + 1 \in T
  <2>1. k + 1 \in 0..n /\ fields[k + 1] \in FieldTypes  BY <1>2
  <2>2. r[k] \in Seq(Chars)  BY <1>4
  <2>3. Extended(r[k], fields[k + 1]) \in Seq(Chars)  BY <2>1, <2>2, ExtendedType
  <2> QED  BY <1>1, <2>1, <2>3
<1>5. 0..n \subseteq T
  <2> HIDE DEF T, n
  <2> QED  BY <1>2, <1>3, <1>4, Induction
<1>6. n \in T  BY <1>2, <1>5
<1> QED  BY <1>1, <1>6

\* One field.
FieldOf(key, text) == [key |-> key, text |-> text]

\* A bare "=" ends a key; the text before the key, without the last symbol,
\* is the one of the field before.
LEMMA KeyReads ==
    ASSUME NEW key \in Chars, NEW text \in Seq(Chars), NEW fields \in Seq(FieldTypes),
           NEW next \in Chars, Plain(next)
    PROVE  Reads(<<next, "=">>, State(FALSE, key, text, fields),
                 State(FALSE, next, <<>>,
                       Append(fields, FieldOf(key, SubSeq(text, 1, Len(text) - 1)))))
<1> DEFINE a == State(FALSE, key, text, fields)
           b == State(FALSE, key, Append(text, next), fields)
           c == State(FALSE, next, <<>>, Append(fields, FieldOf(key, SubSeq(text, 1, Len(text) - 1))))
<1>1. a \in States  BY StateType
<1>2. "=" \in Chars  BY DEF Chars
<1>3. ReadSymbol(a, next) = b  BY ReadPlain, Zenon
<1>4. PICK longer : longer = Append(text, next)  OBVIOUS
<1>5. /\ Len(longer) = Len(text) + 1 /\ longer[Len(longer)] = next /\ Len(longer) # 0
      /\ SubSeq(longer, 1, Len(longer) - 2) = SubSeq(text, 1, Len(text) - 1)
  BY <1>4
<1>6. ReadSymbol(State(FALSE, key, longer, fields), "=")
        = State(FALSE, IF Len(longer) = 0 THEN "" ELSE longer[Len(longer)], <<>>,
                Append(fields, [key |-> key, text |-> SubSeq(longer, 1, Len(longer) - 2)]))
  BY ReadEquals, Zenon
<1>7. (IF Len(longer) = 0 THEN "" ELSE longer[Len(longer)]) = next  BY <1>5, Zenon
<1>8. ReadSymbol(b, "=") = c  BY <1>4, <1>5, <1>6, <1>7, Zenon DEF FieldOf
<1> HIDE DEF a, b, c
<1>9. Reads(<<next, "=">>, a, ReadSymbol(ReadSymbol(a, next), "="))  BY <1>1, <1>2, ReadsPair
<1>10. Reads(<<next, "=">>, a, c)  BY <1>3, <1>8, <1>9, Zenon
<1> QED  BY <1>10, Zenon DEF a, c

\* The blank before a key is read as text of the field before.
LEMMA BlankReads ==
    ASSUME NEW key \in Chars, NEW text \in Seq(Chars), NEW fields \in Seq(FieldTypes)
    PROVE  Reads(<<" ">>, State(FALSE, key, text, fields),
                 State(FALSE, key, Append(text, " "), fields))
<1> DEFINE a == State(FALSE, key, text, fields)
<1>1. a \in States  BY StateType
<1>2. " " \in Chars  BY DEF Chars
<1>3. Plain(" ")  BY DEF Plain
<1>4. ReadSymbol(a, " ") = State(FALSE, key, Append(text, " "), fields)
  BY <1>3, ReadPlain, Zenon
<1> HIDE DEF a
<1>5. Reads(<<" ">>, a, ReadSymbol(a, " "))  BY <1>1, <1>2, ReadsOne
<1> QED  BY <1>4, <1>5, Zenon DEF a

\* What is read of a line, with the field that is not ended yet.
ReadFields(state) == Append(state.fields, FieldOf(state.key, state.text))

\* A receiver that has read nothing yet.
Nothing == State(FALSE, "", <<>>, <<>>)

\* A field that is added to a line is read as one more field.
LEMMA ExtendedReads ==
    ASSUME NEW line \in Seq(Chars), NEW f \in Keyed,
           NEW key \in Chars, NEW text \in Seq(Chars), NEW fields \in Seq(FieldTypes),
           Reads(line, Nothing, State(FALSE, key, text, fields)),
           line = <<>> => text = <<>>
    PROVE  Reads(Extended(line, f), Nothing,
                 State(FALSE, f.key, f.text, Append(fields, FieldOf(key, text))))
<1> DEFINE blank == IF line = <<>> THEN <<>> ELSE <<" ">>
           spaced == IF line = <<>> THEN text ELSE Append(text, " ")
           ended == Append(fields, FieldOf(key, text))
           a == State(FALSE, key, text, fields)
           b == State(FALSE, key, spaced, fields)
           c == State(FALSE, f.key, <<>>, ended)
           d == State(FALSE, f.key, f.text, ended)
<1>1. f.key \in Chars /\ f.text \in Seq(Chars) /\ Plain(f.key)  BY DEF Keyed, FieldTypes
<1>2. ended \in Seq(FieldTypes)
  <2>1. FieldOf(key, text) \in FieldTypes  BY DEF FieldOf, FieldTypes
  <2> QED  BY <2>1
<1>3. spaced \in Seq(Chars) /\ SubSeq(spaced, 1, Len(spaced) - 1) = text
  <2>1. " " \in Chars  BY DEF Chars
  <2>2. CASE line = <<>>
    <3>1. spaced = <<>> /\ text = <<>>  BY <2>2
    <3>2. <<>> \in Seq(Chars) /\ SubSeq(<<>>, 1, Len(<<>>) - 1) = <<>>  OBVIOUS
    <3> QED  BY <3>1, <3>2
  <2>3. CASE line # <<>>
    <3>1. spaced = Append(text, " ")  BY <2>3
    <3>2. PICK longer : longer = Append(text, " ")  OBVIOUS
    <3>3. longer \in Seq(Chars) /\ SubSeq(longer, 1, Len(longer) - 1) = text
      BY <2>1, <3>2, WithoutTheLast
    <3> QED  BY <3>1, <3>2, <3>3
  <2> QED  BY <2>2, <2>3
<1>4. blank \in Seq(Chars) /\ Reads(blank, a, b)
  <2>1. CASE line = <<>>
    <3>1. blank = <<>> /\ a = b  BY <2>1
    <3>2. a \in States  BY StateType
    <3>3. <<>> \in Seq(Chars)  OBVIOUS
    <3> HIDE DEF a, b, blank
    <3> QED  BY <3>1, <3>2, <3>3, ReadsNone
  <2>2. CASE line # <<>>
    <3>1. blank = <<" ">> /\ b = State(FALSE, key, Append(text, " "), fields)  BY <2>2
    <3>2. " " \in Chars  BY DEF Chars
    <3>3. <<" ">> \in Seq(Chars)  BY <3>2, OneOf, Zenon
    <3> HIDE DEF b, blank
    <3> QED  BY <3>1, <3>3, BlankReads
  <2> QED  BY <2>1, <2>2
<1>5. <<f.key, "=">> \in Seq(Chars) /\ Reads(<<f.key, "=">>, b, c)
  <2>1. "=" \in Chars  BY DEF Chars
  <2>2. Reads(<<f.key, "=">>, b, State(FALSE, f.key, <<>>,
                Append(fields, FieldOf(key, SubSeq(spaced, 1, Len(spaced) - 1)))))
    <3> HIDE DEF spaced
    <3> QED  BY <1>1, <1>3, KeyReads
  <2>3. <<f.key, "=">> \in Seq(Chars)  BY <1>1, <2>1
  <2> HIDE DEF spaced
  <2> QED  BY <1>3, <2>2, <2>3, Zenon
<1>6. Written(f) \in Seq(Chars) /\ Reads(Written(f), c, d)
  <2>1. Written(f) \in Seq(Chars)  BY WrittenQuiet, QuietType
  <2> HIDE DEF ended
  <2> QED  BY <1>1, <1>2, <2>1, WrittenReads
<1> HIDE DEF a, b, c, d, blank, spaced, ended
<1>7. line \o blank \in Seq(Chars) /\ Reads(line \o blank, Nothing, b)
  <2>1. Reads(line, Nothing, a)  BY DEF a
  <2> QED  BY <1>4, <2>1, ConcatType, ReadsConcat
<1>8. line \o blank \o <<f.key, "=">> \in Seq(Chars) /\ Reads(line \o blank \o <<f.key, "=">>, Nothing, c)
  BY <1>5, <1>7, ConcatType, ReadsConcat
<1>9. Reads(line \o blank \o <<f.key, "=">> \o Written(f), Nothing, d)
  BY <1>6, <1>8, ReadsConcat
<1> QED  BY <1>9, Zenon DEF Extended, blank, d, ended

\* A line of fields is read as these fields, after what is before the first key.
LEMMA LineReads ==
    ASSUME NEW fields \in Seq(Keyed)
    PROVE  /\ Extension(fields) \in Seq(Quiet)
           /\ \E key \in Chars, text \in Seq(Chars), read \in Seq(FieldTypes) :
                /\ Reads(Extension(fields), Nothing, State(FALSE, key, text, read))
                /\ Append(read, FieldOf(key, text)) = <<FieldOf("", <<>>)>> \o fields
<1> DEFINE n == Len(fields)
           Shown(k) == <<FieldOf("", <<>>)>> \o SubSeq(fields, 1, k)
           ReadAs(line, k, key, text, read) ==
               /\ Reads(line, Nothing, State(FALSE, key, text, read))
               /\ line = <<>> => text = <<>>
               /\ Append(read, FieldOf(key, text)) = Shown(k)
           Good(line, k) ==
               /\ line \in Seq(Quiet)
               /\ \E key \in Chars, text \in Seq(Chars), read \in Seq(FieldTypes) :
                    ReadAs(line, k, key, text, read)
<1>1. PICK r : /\ r[0] = <<>> /\ r[n] = Extension(fields)
               /\ \A k \in 0..(n - 1) : r[k + 1] = Extended(r[k], fields[k + 1])
  <2>1. Keyed \subseteq FieldTypes  BY DEF Keyed
  <2>2. fields \in Seq(FieldTypes)  BY <2>1, SeqMonotonic, Zenon
  <2> QED  BY <2>2, ExtensionRun
<1>2. n \in Nat /\ SubSeq(fields, 1, 0) = <<>> /\ SubSeq(fields, 1, n) = fields  OBVIOUS
<1>3. "" \in Chars /\ <<>> \in Seq(Chars) /\ <<>> \in Seq(FieldTypes) /\ <<>> \in Seq(Quiet)
  <2>1. "" \in Chars  BY DEF Chars
  <2>2. <<>> \in Seq(Chars)  OBVIOUS
  <2>3. <<>> \in Seq(FieldTypes)  OBVIOUS
  <2>4. <<>> \in Seq(Quiet)  OBVIOUS
  <2> QED  BY <2>1, <2>2, <2>3, <2>4, Zenon
<1>4. FieldOf("", <<>>) \in FieldTypes  BY <1>3 DEF FieldOf, FieldTypes
<1>5. Keyed \subseteq FieldTypes  BY DEF Keyed
<1>6. Good(<<>>, 0)
  <2>1. Nothing \in States  BY <1>3, StateType DEF Nothing
  <2>2. Reads(<<>>, Nothing, State(FALSE, "", <<>>, <<>>))  BY <2>1, ReadsNone DEF Nothing
  <2>3. PICK e \in FieldTypes : e = FieldOf("", <<>>)  BY <1>4
  <2>4. Append(<<>>, e) = <<e>> \o <<>>  OBVIOUS
  <2>5. Append(<<>>, FieldOf("", <<>>)) = Shown(0)  BY <1>2, <2>3, <2>4, Zenon
  <2> HIDE DEF Shown
  <2>6. ReadAs(<<>>, 0, "", <<>>, <<>>)  BY <2>2, <2>5, Zenon
  <2> HIDE DEF ReadAs
  <2> QED  BY <1>3, <2>6
<1>7. ASSUME NEW k \in 0..(n - 1), NEW line, Good(line, k)
      PROVE  Good(Extended(line, fields[k + 1]), k + 1)
  <2> DEFINE f == fields[k + 1]
             longer == Extended(line, f)
  <2>1. line \in Seq(Quiet) /\ line \in Seq(Chars)  BY <1>7, QuietType
  <2>2. f \in Keyed /\ SubSeq(fields, 1, k) \in Seq(Keyed)
        /\ SubSeq(fields, 1, k + 1) = Append(SubSeq(fields, 1, k), f)
    BY PrefixStep
  <2>3. PICK key \in Chars, text \in Seq(Chars), read \in Seq(FieldTypes) :
          ReadAs(line, k, key, text, read)
    BY <1>7
  <2>4. f.key \in Chars /\ f.text \in Seq(Chars) /\ f = FieldOf(f.key, f.text)
    BY <2>2 DEF Keyed, FieldTypes, FieldOf
  <2>5. Append(read, FieldOf(key, text)) \in Seq(FieldTypes)
    <3>1. FieldOf(key, text) \in FieldTypes  BY DEF FieldOf, FieldTypes
    <3> QED  BY <3>1
  <2>6. longer \in Seq(Quiet) /\ longer # <<>>
    <3> HIDE DEF f
    <3> QED  BY <2>1, <2>2, ExtendedQuiet
  <2>7. Reads(longer, Nothing, State(FALSE, f.key, f.text, Append(read, FieldOf(key, text))))
    <3> HIDE DEF f
    <3>1. Reads(line, Nothing, State(FALSE, key, text, read)) /\ (line = <<>> => text = <<>>)
      BY <2>3
    <3> QED  BY <2>1, <2>2, <3>1, ExtendedReads
  <2>8. Append(Append(read, FieldOf(key, text)), FieldOf(f.key, f.text)) = Shown(k + 1)
    <3>1. Append(read, FieldOf(key, text)) = Shown(k)  BY <2>3
    <3>2. PICK e, x : e = FieldOf("", <<>>) /\ x = SubSeq(fields, 1, k)  OBVIOUS
    <3>3. e \in FieldTypes /\ x \in Seq(FieldTypes) /\ f \in FieldTypes
      <4>1. Seq(Keyed) \subseteq Seq(FieldTypes)  BY <1>5, SeqMonotonic, Zenon
      <4> HIDE DEF f
      <4> QED  BY <1>4, <1>5, <2>2, <3>2, <4>1
    <3> HIDE DEF f
    <3>4. Append(<<e>> \o x, f) = <<e>> \o Append(x, f)  BY <3>3
    <3>5. Shown(k) = <<e>> \o x /\ Shown(k + 1) = <<e>> \o Append(x, f)  BY <2>2, <3>2, Zenon
    <3> QED  BY <2>4, <3>1, <3>4, <3>5, Zenon
  <2> HIDE DEF f, Shown, longer
  <2>9. ReadAs(longer, k + 1, f.key, f.text, Append(read, FieldOf(key, text)))
    BY <2>6, <2>7, <2>8, Zenon
  <2> HIDE DEF ReadAs
  <2>10. Good(longer, k + 1)  BY <2>4, <2>5, <2>6, <2>9
  <2> QED  BY <2>10 DEF longer, f
<1> DEFINE T == {k \in 0..n : Good(r[k], k)}
<1>8. 0..n \subseteq T
  <2> HIDE DEF Good
  <2>1. 0 \in T  BY <1>1, <1>2, <1>6
  <2>2. ASSUME NEW k \in 0..(n - 1), k \in T  PROVE k + 1 \in T
    <3>1. k + 1 \in 0..n  BY <1>2
    <3>2. Good(r[k], k)  BY <2>2
    <3> QED  BY <1>1, <1>7, <3>1, <3>2
  <2> HIDE DEF T, n
  <2> QED  BY <1>2, <2>1, <2>2, Induction
<1>9. Good(r[n], n)
  <2>1. n \in 0..n  BY <1>2
  <2> HIDE DEF n, Good
  <2> QED  BY <1>8, <2>1
<1>10. PICK key \in Chars, text \in Seq(Chars), read \in Seq(FieldTypes) :
         ReadAs(r[n], n, key, text, read)
  BY <1>9
<1>11. Shown(n) = <<FieldOf("", <<>>)>> \o fields  BY <1>2, Zenon
<1>12. Append(read, FieldOf(key, text)) = <<FieldOf("", <<>>)>> \o fields
  BY <1>10, <1>11, Zenon
<1>13. Reads(Extension(fields), Nothing, State(FALSE, key, text, read))
  BY <1>1, <1>10, Zenon
<1>14. Extension(fields) \in Seq(Quiet)  BY <1>1, <1>9, Zenon
<1> QED  BY <1>12, <1>13, <1>14

\* Tail takes off the element in front.
LEMMA TailOf ==
    ASSUME NEW S, NEW e \in S, NEW x \in Seq(S)
    PROVE  Tail(<<e>> \o x) = x
  OBVIOUS

\* What reads an extension back has the keys and the values that were written.
THEOREM ExtensionsReadBack ==
    \A fields \in Seq(Keyed) : ReadBack(Extension(fields)) = fields
<1> TAKE fields \in Seq(Keyed)
<1> DEFINE line == Extension(fields)
           end == FoldLeft(ReadSymbol, Nothing, line)
<1>1. line \in Seq(Chars)  BY LineReads, QuietType
<1>2. Nothing \in States
  <2>1. "" \in Chars  BY DEF Chars
  <2>2. <<>> \in Seq(Chars) /\ <<>> \in Seq(FieldTypes)  OBVIOUS
  <2> QED  BY <2>1, <2>2, StateType DEF Nothing
<1> HIDE DEF line
<1>3. Reads(line, Nothing, end)  BY <1>1, <1>2, ReadsAll
<1>4. PICK key \in Chars, text \in Seq(Chars), read \in Seq(FieldTypes) :
        /\ Reads(line, Nothing, State(FALSE, key, text, read))
        /\ Append(read, FieldOf(key, text)) = <<FieldOf("", <<>>)>> \o fields
  BY LineReads, Zenon DEF line
<1> HIDE DEF end
<1>5. end = State(FALSE, key, text, read)  BY <1>1, <1>3, <1>4, ReadsSame
<1>6. end.key = key /\ end.text = text /\ end.fields = read  BY <1>5 DEF State
<1>7. Tail(<<FieldOf("", <<>>)>> \o fields) = fields
  <2>1. FieldOf("", <<>>) \in FieldTypes
    <3>1. "" \in Chars  BY DEF Chars
    <3>2. <<>> \in Seq(Chars)  OBVIOUS
    <3> QED  BY <3>1, <3>2 DEF FieldOf, FieldTypes
  <2>2. fields \in Seq(FieldTypes)
    <3>1. Keyed \subseteq FieldTypes  BY DEF Keyed
    <3> QED  BY <3>1, SeqMonotonic, Zenon
  <2> QED  BY <2>1, <2>2, TailOf
<1>8. ReadBack(line) = Tail(Append(end.fields, [key |-> end.key, text |-> end.text]))
  BY Zenon DEF ReadBack, end, Nothing, State
<1>9. ReadBack(line) = fields  BY <1>4, <1>6, <1>7, <1>8, Zenon DEF FieldOf
<1> QED  BY <1>9 DEF line

-----------------------------------------------------------------------------
(* The line of a result.                                                   *)

\* The results that are exported: any text, any algorithm, any weakness, any ids.
Risks == {"Critical", "High", "Medium", "Low", "Unknown"}

Exported ==
    [detected_type : Seq(STRING), algorithm : Seq(STRING), weakness : Seq(STRING),
     weakness_cve : Seq(STRING), risk_level : Risks]

\* Where format_cef writes the ids, they have nothing to escape.
PlainIds(format, r) ==
    format = "cef" => \A i \in DOMAIN r.weakness_cve : r.weakness_cve[i] \notin {"\\", "=", "nl"}

\* The keys of both formats are words without any meaning to a receiver.
LEMMA FieldType ==
    ASSUME NEW key \in Literals, NEW text \in Seq(Chars)
    PROVE  /\ Field(key, text) \in Seq(FieldTypes) /\ Optional(key, text) \in Seq(FieldTypes)
           /\ (key \in Joined => text \in Seq(Clean)) =>
                  Field(key, text) \in Seq(Keyed) /\ Optional(key, text) \in Seq(Keyed)
<1> DEFINE f == [key |-> key, text |-> text]
<1>1. key \in Chars /\ Plain(key) /\ key # "nl"  BY DEF Chars, Literals, Plain
<1>2. f \in FieldTypes /\ f.key = key /\ f.text = text  BY <1>1 DEF FieldTypes
<1>3. (key \in Joined => text \in Seq(Clean)) => f \in Keyed  BY <1>1, <1>2 DEF Keyed
<1>4. <<>> \in Seq(FieldTypes) /\ <<>> \in Seq(Keyed)  OBVIOUS
<1> HIDE DEF f
<1>5. <<f>> \in Seq(FieldTypes) /\ (f \in Keyed => <<f>> \in Seq(Keyed))  BY <1>2, OneOf
<1>6. Field(key, text) = <<f>>  BY Zenon DEF Field, f
<1>7. Optional(key, text) = <<>> \/ Optional(key, text) = <<f>>  BY <1>6, Zenon DEF Optional
<1> QED  BY <1>3, <1>4, <1>5, <1>6, <1>7, Zenon

\* The texts of both formats are typed, and those that are joined are plain.
LEMMA TextsType ==
    ASSUME NEW r \in Exported
    PROVE  /\ r.detected_type \in Seq(Chars) /\ r.algorithm \in Seq(Chars)
           /\ r.weakness \in Seq(Chars) /\ r.weakness_cve \in Seq(Chars)
           /\ <<r.risk_level>> \in Seq(Chars) /\ <<Severity(r.risk_level)>> \in Seq(Chars)
           /\ <<"drivers">> \in Seq(Chars) /\ <<"drivers">> \in Seq(Clean)
           /\ PlainIds("cef", r) => r.weakness_cve \in Seq(Clean)
<1>1. /\ r.detected_type \in Seq(Chars) /\ r.algorithm \in Seq(Chars)
      /\ r.weakness \in Seq(Chars) /\ r.weakness_cve \in Seq(Chars)
  BY Typed DEF Exported
<1>2. <<r.risk_level>> \in Seq(Chars)
  <2>1. r.risk_level \in Chars  BY DEF Exported, Risks, Chars, Literals
  <2> QED  BY <2>1, OneOf
<1>3. <<Severity(r.risk_level)>> \in Seq(Chars)
  <2>1. Severity(r.risk_level) \in Chars  BY DEF Severity, Chars, Literals
  <2> QED  BY <2>1, OneOf
<1>4. <<"drivers">> \in Seq(Chars) /\ <<"drivers">> \in Seq(Clean)
  <2>1. "drivers" \in Chars /\ "drivers" \in Clean  BY DEF Chars, Clean, Quiet, Literals
  <2> QED  BY <2>1, OneOf, Zenon
<1>5. ASSUME PlainIds("cef", r)  PROVE r.weakness_cve \in Seq(Clean)
  <2>1. \A i \in DOMAIN r.weakness_cve : r.weakness_cve[i] \in Clean
    BY <1>1, <1>5 DEF PlainIds, Clean, Quiet
  <2> QED  BY <1>1, <2>1
<1> QED  BY <1>1, <1>2, <1>3, <1>4, <1>5

\* So both formats have fields, and with plain ids fields a receiver can take.
LEMMA FieldsType ==
    ASSUME NEW format, NEW r \in Exported
    PROVE  /\ FieldsOf(format, r) \in Seq(FieldTypes)
           /\ PlainIds(format, r) => FieldsOf(format, r) \in Seq(Keyed)
<1>1. {"detectedType", "algorithm", "riskLevel", "weakness", "cveIds", "primaryDrivers", "cat", "sev"}
        \subseteq Literals
  BY DEF Literals
<1>2. /\ "detectedType" \notin Joined /\ "algorithm" \notin Joined /\ "riskLevel" \notin Joined
      /\ "weakness" \notin Joined /\ "cat" \notin Joined /\ "sev" \notin Joined
  BY DEF Joined
<1>3. /\ Field("detectedType", r.detected_type) \in Seq(FieldTypes) \cap Seq(Keyed)
      /\ Optional("algorithm", r.algorithm) \in Seq(FieldTypes) \cap Seq(Keyed)
      /\ Field("riskLevel", <<r.risk_level>>) \in Seq(FieldTypes) \cap Seq(Keyed)
      /\ Optional("weakness", r.weakness) \in Seq(FieldTypes) \cap Seq(Keyed)
      /\ Field("primaryDrivers", <<"drivers">>) \in Seq(FieldTypes) \cap Seq(Keyed)
      /\ Field("cat", r.detected_type) \in Seq(FieldTypes) \cap Seq(Keyed)
      /\ Field("sev", <<Severity(r.risk_level)>>) \in Seq(FieldTypes) \cap Seq(Keyed)
  BY <1>1, <1>2, TextsType, FieldType
<1>4. /\ Optional("cveIds", r.weakness_cve) \in Seq(FieldTypes)
      /\ PlainIds("cef", r) => Optional("cveIds", r.weakness_cve) \in Seq(Keyed)
  BY <1>1, TextsType, FieldType
<1>5. CefFields(r) \in Seq(FieldTypes)  BY <1>3, <1>4, ConcatType DEF CefFields
<1>6. PlainIds("cef", r) => CefFields(r) \in Seq(Keyed)  BY <1>3, <1>4, ConcatType DEF CefFields
<1>7. LeefFields(r) \in Seq(FieldTypes) /\ LeefFields(r) \in Seq(Keyed)
  BY <1>3, ConcatType DEF LeefFields
<1>8. PlainIds(format, r) => format # "cef" \/ PlainIds("cef", r)  BY DEF PlainIds
<1> QED  BY <1>5, <1>6, <1>7, <1>8, Zenon DEF FieldsOf

\* How a line is cut behind its first two symbols.
Headed(line, s, bar, x) ==
    /\ Len(line) = Len(x) + 2 /\ line[1] = s /\ line[2] = bar
    /\ SubSeq(line, 1, 2) = <<s, bar>> /\ SubSeq(line, 3, Len(line)) = x

\* A line is cut where its header of two symbols ends.
LEMMA AfterHeader ==
    ASSUME NEW S, NEW s \in S, NEW bar \in S, NEW x \in Seq(S), NEW line, line = <<s, bar>> \o x
    PROVE  line \in Seq(S) /\ Headed(line, s, bar, x)
<1>1. <<s, bar>> \in Seq(S)  BY TwoOf
<1>2. line \in Seq(S) /\ Len(line) = Len(x) + 2 /\ line[1] = s /\ line[2] = bar
      /\ \A i \in 1..Len(x) : line[i + 2] = x[i]
  BY <1>1
<1>3. SubSeq(line, 1, 2) = <<s, bar>>
  <2>1. PICK y : y = SubSeq(line, 1, 2)  OBVIOUS
  <2>2. Len(x) \in Nat /\ \A i \in 1..2 : line[i] \in S  BY <1>2
  <2>3. y \in Seq(S) /\ Len(y) = 2 /\ y[1] = line[1] /\ y[2] = line[2]
    BY <2>1, <2>2, SubSeqProperties
  <2>4. PICK z : z = <<s, bar>>  OBVIOUS
  <2>5. z \in Seq(S) /\ Len(z) = 2 /\ z[1] = s /\ z[2] = bar  BY <1>1, <2>4
  <2>6. y[1] = z[1] /\ y[2] = z[2]  BY <1>2, <2>3, <2>5
  <2>7. \A i \in 1..Len(y) : y[i] = z[i]  BY <2>3, <2>6
  <2>8. y = z  BY <2>3, <2>5, <2>7, SeqEqual
  <2> QED  BY <2>1, <2>4, <2>8
<1>4. SubSeq(line, 3, Len(line)) = x
  <2>1. PICK y, n : y = SubSeq(line, 3, n) /\ n = Len(line)  OBVIOUS
  <2>2. Len(x) \in Nat /\ n = Len(x) + 2 /\ \A i \in 3..n : line[i] \in S  BY <1>2, <2>1
  <2>3. y \in Seq(S) /\ Len(y) = Len(x) /\ \A i \in 1..Len(x) : y[i] = line[i + 2]
    BY <2>1, <2>2, SubSeqProperties
  <2>4. y = x  BY <1>2, <2>3, SeqEqual
  <2> QED  BY <2>1, <2>4
<1> QED  BY <1>2, <1>3, <1>4 DEF Headed

\* Each line is typed, whatever is exported.
LEMMA MessageType ==
    ASSUME NEW format, NEW r \in Exported PROVE Message(format, r) \in Seq(Chars)
<1>1. Extension(FieldsOf(format, r)) \in Seq(Chars)  BY FieldsType, ExtensionType
<1>2. Header(format, r) \in Seq(Chars)
  <2>1. Severity(r.risk_level) \in Chars /\ "100" \in Chars /\ "|" \in Chars
    BY DEF Severity, Chars, Literals
  <2>2. <<Severity(r.risk_level), "|">> \in Seq(Chars) /\ <<"100", "|">> \in Seq(Chars)
    BY <2>1, TwoOf, Zenon
  <2> QED  BY <2>2, Zenon DEF Header
<1> QED  BY <1>1, <1>2, ConcatType, Zenon DEF Message

\* With plain ids a line is read as the header and the fields it was written
\* from, and has no newline in it.
THEOREM MessagesReadBack ==
    \A format, r : r \in Exported /\ PlainIds(format, r) =>
        /\ Message(format, r) \in Seq(Quiet)
        /\ ReadLine(Message(format, r)) = [header |-> Header(format, r), fields |-> FieldsOf(format, r)]
<1> SUFFICES ASSUME NEW format, NEW r \in Exported, PlainIds(format, r)
             PROVE  /\ Message(format, r) \in Seq(Quiet)
                    /\ ReadLine(Message(format, r))
                         = [header |-> Header(format, r), fields |-> FieldsOf(format, r)]
  OBVIOUS
<1> DEFINE fields == FieldsOf(format, r)
           x == Extension(fields)
           line == Message(format, r)
<1>1. fields \in Seq(Keyed)  BY FieldsType
<1>2. x \in Seq(Quiet) /\ ReadBack(x) = fields  BY <1>1, LineReads, ExtensionsReadBack
<1>3. PICK s \in Quiet : Header(format, r) = <<s, "|">> /\ s # "|"
  <2>1. /\ Severity(r.risk_level) \in Quiet /\ "100" \in Quiet
        /\ Severity(r.risk_level) # "|" /\ "100" # "|"
    BY DEF Severity, Quiet, Chars, Literals
  <2> QED  BY <2>1 DEF Header
<1> HIDE DEF fields, x
<1>4. line = <<s, "|">> \o x  BY <1>3, Zenon DEF Message, fields, x
<1>5. "|" \in Quiet  BY DEF Quiet, Chars
<1>6. /\ line \in Seq(Quiet) /\ Len(line) = Len(x) + 2 /\ line[1] = s /\ line[2] = "|"
      /\ SubSeq(line, 1, 2) = Header(format, r) /\ SubSeq(line, 3, Len(line)) = x
  <2> HIDE DEF line
  <2>1. PICK bar \in Quiet : bar = "|"  BY <1>5
  <2>2. line = <<s, bar>> \o x  BY <1>4, <2>1, Zenon
  <2>3. line \in Seq(Quiet) /\ Headed(line, s, bar, x)
    BY <1>2, <2>2, AfterHeader, Zenon
  <2> QED  BY <1>3, <2>1, <2>3, Zenon DEF Headed
<1> DEFINE bars == {i \in DOMAIN line : line[i] = "|"}
           bar == IF bars = {} THEN 0 ELSE Min(bars)
<1>7. bar = 2
  <2> HIDE DEF line
  <2>1. 2 \in DOMAIN line /\ DOMAIN line \subseteq Nat \ {0}  BY <1>2, <1>6
  <2>2. line[1] # "|" /\ line[2] = "|"  BY <1>3, <1>6
  <2>3. 2 \in bars /\ \A i \in bars : i \in Nat /\ 2 <= i
    <3>1. \A i \in bars : i \in Nat /\ i # 0 /\ i # 1  BY <2>1, <2>2
    <3>2. \A i \in Nat : i # 0 /\ i # 1 => 2 <= i  OBVIOUS
    <3> QED  BY <2>1, <2>2, <3>1, <3>2
  <2> HIDE DEF bars
  <2>4. Min(bars) = 2
    <3>1. \A i \in bars : (\A j \in bars : i <= j) => i = 2  BY <2>3
    <3> QED  BY <2>3, <3>1 DEF Min
  <2> QED  BY <2>3, <2>4
<1> HIDE DEF line, bar, bars
<1>8. bar + 1 = 3  BY <1>7
<1>9. ReadLine(line) = [header |-> SubSeq(line, 1, bar), fields |-> ReadBack(SubSeq(line, bar + 1, Len(line)))]
  BY Zenon DEF ReadLine, bar, bars
<1>10. ReadLine(line) = [header |-> Header(format, r), fields |-> fields]
  BY <1>2, <1>6, <1>7, <1>8, <1>9, Zenon
<1> QED  BY <1>6, <1>10 DEF line, fields

-----------------------------------------------------------------------------
(* An id with a newline.                                                   *)

HasNewline(x) == \E i \in DOMAIN x : x[i] = "nl"

\* A newline stays where something is added in front of it or behind it.
LEMMA ConcatNewline ==
    ASSUME NEW x \in Seq(Chars), NEW y \in Seq(Chars), HasNewline(x) \/ HasNewline(y)
    PROVE  x \o y \in Seq(Chars) /\ HasNewline(x \o y)
<1>1. PICK z : z = x \o y  OBVIOUS
<1>2. /\ z \in Seq(Chars) /\ DOMAIN x = 1..Len(x) /\ DOMAIN y = 1..Len(y) /\ DOMAIN z = 1..Len(z)
      /\ Len(x) \in Nat /\ Len(y) \in Nat /\ Len(z) = Len(x) + Len(y)
      /\ \A i \in 1..Len(x) : z[i] = x[i]
      /\ \A i \in 1..Len(y) : z[Len(x) + i] = y[i]
  BY <1>1
<1>3. CASE HasNewline(x)
  <2>1. PICK i \in 1..Len(x) : x[i] = "nl"  BY <1>2, <1>3 DEF HasNewline
  <2>2. i \in DOMAIN z /\ z[i] = "nl"  BY <1>2, <2>1
  <2> QED  BY <1>1, <1>2, <2>2 DEF HasNewline
<1>4. CASE HasNewline(y)
  <2>1. PICK i \in 1..Len(y) : y[i] = "nl"  BY <1>2, <1>4 DEF HasNewline
  <2>2. Len(x) + i \in DOMAIN z /\ z[Len(x) + i] = "nl"  BY <1>2, <2>1
  <2> QED  BY <1>1, <1>2, <2>2 DEF HasNewline
<1> QED  BY <1>3, <1>4

\* So does one of a line that is extended, or of a joined text.
LEMMA ExtendedNewline ==
    ASSUME NEW line \in Seq(Chars), NEW f \in FieldTypes,
           HasNewline(line) \/ (f.key \in Joined /\ HasNewline(f.text))
    PROVE  HasNewline(Extended(line, f))
<1> DEFINE blank == IF line = <<>> THEN <<>> ELSE <<" ">>
           key == <<f.key, "=">>
<1>1. blank \in Seq(Chars) /\ key \in Seq(Chars) /\ Written(f) \in Seq(Chars)
  <2>1. " " \in Chars /\ "=" \in Chars  BY DEF Chars
  <2>2. f.key \in Chars /\ Written(f) \in Seq(Chars)  BY WrittenType DEF FieldTypes
  <2>3. <<" ">> \in Seq(Chars) /\ key \in Seq(Chars)  BY <2>1, <2>2, OneOf, TwoOf, Zenon
  <2>4. <<>> \in Seq(Chars)  OBVIOUS
  <2> QED  BY <2>2, <2>3, <2>4, Zenon
<1> HIDE DEF blank, key
<1>2. line \o blank \in Seq(Chars) /\ line \o blank \o key \in Seq(Chars)
  BY <1>1, ConcatType
<1>3. Extended(line, f) = line \o blank \o key \o Written(f)  BY Zenon DEF Extended, blank, key
<1>4. CASE HasNewline(line)
  <2>1. HasNewline(line \o blank)  BY <1>1, <1>4, ConcatNewline
  <2>2. HasNewline(line \o blank \o key)  BY <1>1, <1>2, <2>1, ConcatNewline
  <2>3. HasNewline(line \o blank \o key \o Written(f))  BY <1>1, <1>2, <2>2, ConcatNewline
  <2> QED  BY <1>3, <2>3, Zenon
<1>5. CASE f.key \in Joined /\ HasNewline(f.text)
  <2>1. HasNewline(Written(f))  BY <1>5, Zenon DEF Written
  <2>2. HasNewline(line \o blank \o key \o Written(f))  BY <1>1, <1>2, <2>1, ConcatNewline
  <2> QED  BY <1>3, <2>2, Zenon
<1> QED  BY <1>4, <1>5

\* And one of any joined field of an extension.
LEMMA ExtensionNewline ==
    ASSUME NEW fields \in Seq(FieldTypes), NEW i \in DOMAIN fields,
           fields[i].key \in Joined, HasNewline(fields[i].text)
    PROVE  HasNewline(Extension(fields))
<1> DEFINE n == Len(fields)
<1>1. PICK r : /\ r[0] = <<>> /\ r[n] = Extension(fields)
               /\ \A k \in 0..(n - 1) : r[k + 1] = Extended(r[k], fields[k + 1])
  BY ExtensionRun
<1> DEFINE T == {k \in 0..n : r[k] \in Seq(Chars) /\ (i <= k => HasNewline(r[k]))}
<1>2. n \in Nat /\ i \in 1..n  OBVIOUS
<1>3. 0 \in T
  <2>1. 0 \in 0..n /\ <<>> \in Seq(Chars) /\ ~(i <= 0)  BY <1>2
  <2> QED  BY <1>1, <2>1
<1>4. ASSUME NEW k \in 0..(n - 1), k \in T  PROVE k + 1 \in T
  <2>1. k + 1 \in 0..n /\ fields[k + 1] \in FieldTypes  BY <1>2
  <2>2. r[k] \in Seq(Chars) /\ (i <= k => HasNewline(r[k]))  BY <1>4
  <2>3. Extended(r[k], fields[k + 1]) \in Seq(Chars)  BY <2>1, <2>2, ExtendedType
  <2>4. i <= k + 1 => HasNewline(Extended(r[k], fields[k + 1]))
    <3>1. CASE i <= k  BY <2>1, <2>2, <3>1, ExtendedNewline
    <3>2. CASE i = k + 1  BY <2>1, <2>2, <3>2, ExtendedNewline
    <3>3. i <= k + 1 => i <= k \/ i = k + 1  BY <1>2
    <3> QED  BY <3>1, <3>2, <3>3
  <2> QED  BY <1>1, <2>1, <2>3, <2>4
<1>5. 0..n \subseteq T
  <2> HIDE DEF T, n
  <2> QED  BY <1>2, <1>3, <1>4, Induction
<1>6. n \in T /\ i <= n  BY <1>2, <1>5
<1> QED  BY <1>1, <1>6

\* The ids are such a field of a CEF line.
LEMMA IdsField ==
    ASSUME NEW r \in Exported, HasNewline(r.weakness_cve)
    PROVE  \E i \in DOMAIN CefFields(r) :
               CefFields(r)[i].key \in Joined /\ HasNewline(CefFields(r)[i].text)
<1> DEFINE before == Field("detectedType", r.detected_type) \o Optional("algorithm", r.algorithm)
                       \o Field("riskLevel", <<r.risk_level>>) \o Optional("weakness", r.weakness)
           f == [key |-> "cveIds", text |-> r.weakness_cve]
           after == Field("primaryDrivers", <<"drivers">>)
<1>1. /\ Field("detectedType", r.detected_type) \in Seq(FieldTypes)
      /\ Optional("algorithm", r.algorithm) \in Seq(FieldTypes)
      /\ Field("riskLevel", <<r.risk_level>>) \in Seq(FieldTypes)
      /\ Optional("weakness", r.weakness) \in Seq(FieldTypes)
      /\ after \in Seq(FieldTypes)
  <2>1. {"detectedType", "algorithm", "riskLevel", "weakness", "primaryDrivers"} \subseteq Literals
    BY DEF Literals
  <2> QED  BY <2>1, TextsType, FieldType
<1>2. before \in Seq(FieldTypes)  BY <1>1, ConcatType
<1>3. f \in FieldTypes /\ f.key \in Joined /\ HasNewline(f.text)
  <2>1. "cveIds" \in Chars /\ "cveIds" \in Joined  BY DEF Chars, Literals, Joined
  <2> QED  BY <2>1, TextsType DEF FieldTypes
<1>4. Optional("cveIds", r.weakness_cve) = <<f>>
  <2>1. r.weakness_cve # Absent
    <3>1. PICK absent : absent = <<None>>  OBVIOUS
    <3>2. \A i \in DOMAIN absent : absent[i] # "nl"  BY <3>1 DEF None
    <3>3. ~HasNewline(absent)  BY <3>2 DEF HasNewline
    <3> QED  BY <3>1, <3>3, Zenon DEF Absent
  <2> QED  BY <2>1, Zenon DEF Optional, Field
<1>5. CefFields(r) = before \o <<f>> \o after  BY <1>4, Zenon DEF CefFields
<1> HIDE DEF before, f, after
<1>6. PICK z : z = before \o <<f>> \o after  OBVIOUS
<1>7. Len(before) + 1 \in DOMAIN z /\ z[Len(before) + 1] = f  BY <1>1, <1>2, <1>3, <1>6
<1> QED  BY <1>3, <1>5, <1>6, <1>7

\* What stands between two newlines has none.
LEMMA LinesHaveNone ==
    ASSUME NEW bytes \in Seq(Chars), NEW line \in Lines(bytes)
    PROVE  ~HasNewline(line)
<1> DEFINE ends == {i \in DOMAIN bytes : bytes[i] = "nl"}
           prior(j) == {0} \cup {i \in ends : i < j}
<1>1. PICK j \in ends : line = SubSeq(bytes, Max(prior(j)) + 1, j - 1)
  BY Zenon DEF Lines
<1>2. DOMAIN bytes = 1..Len(bytes) /\ Len(bytes) \in Nat /\ j \in 1..Len(bytes)  BY <1>1
<1>3. PICK m : m = Max(prior(j))  OBVIOUS
<1>4. prior(j) \in SUBSET (0..Len(bytes)) /\ prior(j) # {}  BY <1>2
<1>5. m \in prior(j) /\ \A i \in prior(j) : i <= m
  <2> HIDE DEF prior
  <2> QED  BY <1>2, <1>3, <1>4, MaxAmong
<1>6. m \in Nat /\ m < j  BY <1>2, <1>5
<1>7. SUFFICES ASSUME NEW k \in DOMAIN line, line[k] = "nl"  PROVE FALSE
  BY DEF HasNewline
<1> HIDE DEF prior, ends
<1>8. /\ k \in 1..(j - 1 - m) /\ line[k] = bytes[m + k]
  <2>1. \A i \in (m + 1)..(j - 1) : bytes[i] \in Chars  BY <1>2, <1>6
  <2>2. line = SubSeq(bytes, m + 1, j - 1)  BY <1>1, <1>3
  <2>3. /\ line \in Seq(Chars)
        /\ Len(line) = IF m + 1 <= j - 1 THEN j - 1 - (m + 1) + 1 ELSE 0
        /\ \A i \in 1..(j - 1 - (m + 1) + 1) : line[i] = bytes[m + 1 + i - 1]
    BY <1>2, <1>6, <2>1, <2>2, SubSeqProperties
  <2>4. k \in 1..Len(line)  BY <1>7, <2>3
  <2> QED  BY <1>2, <1>6, <2>3, <2>4
<1>9. m + k \in prior(j)
  <2>1. m + k \in 1..Len(bytes) /\ m + k < j  BY <1>2, <1>6, <1>8
  <2>2. bytes[m + k] = "nl"  BY <1>7, <1>8
  <2> QED  BY <1>2, <2>1, <2>2 DEF prior, ends
<1>10. m + k <= m  BY <1>5, <1>9
<1> QED  BY <1>6, <1>8, <1>10

\* A CVE id with a newline splits the event: the line of such a result never
\* arrives over TCP as one (siem.rs:51 joins the ids as they are, send_tcp ends a
\* line with a newline).
THEOREM NewlinesSplitEvents ==
    \A r \in Exported :
        HasNewline(r.weakness_cve) => Message("cef", r) \notin Lines(Append(Message("cef", r), "nl"))
<1> SUFFICES ASSUME NEW r \in Exported, HasNewline(r.weakness_cve)
             PROVE  Message("cef", r) \notin Lines(Append(Message("cef", r), "nl"))
  OBVIOUS
<1> DEFINE header == Header("cef", r)
           x == Extension(CefFields(r))
<1>1. FieldsOf("cef", r) = CefFields(r) /\ CefFields(r) \in Seq(FieldTypes)
  BY FieldsType DEF FieldsOf
<1>2. HasNewline(x) /\ x \in Seq(Chars)
  <2>1. PICK i \in DOMAIN CefFields(r) :
          CefFields(r)[i].key \in Joined /\ HasNewline(CefFields(r)[i].text)
    BY IdsField
  <2> QED  BY <1>1, <2>1, ExtensionNewline, ExtensionType
<1>3. header \in Seq(Chars)
  <2>1. Severity(r.risk_level) \in Chars /\ "|" \in Chars  BY DEF Severity, Chars, Literals
  <2>2. header = <<Severity(r.risk_level), "|">>  BY DEF Header
  <2> QED  BY <2>1, <2>2, TwoOf, Zenon
<1>4. Message("cef", r) = header \o x  BY <1>1, Zenon DEF Message
<1> HIDE DEF header, x
<1>5. HasNewline(Message("cef", r)) /\ Message("cef", r) \in Seq(Chars)
  BY <1>2, <1>3, <1>4, ConcatNewline
<1>6. Append(Message("cef", r), "nl") \in Seq(Chars)
  <2>1. "nl" \in Chars  BY DEF Chars
  <2> QED  BY <1>5, <2>1, AppendProperties
<1> QED  BY <1>5, <1>6, LinesHaveNone
=============================================================================
