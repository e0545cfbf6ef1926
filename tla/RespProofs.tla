------------------------------ MODULE RespProofs ------------------------------
(***************************************************************************)
(* A read is parsed as the command that it begins with, proved for all     *)
(* commands, of any number of words of any length, and for all cuts.       *)
(***************************************************************************)
EXTENDS RespParser, ListpackProofs

-----------------------------------------------------------------------------
(* Numerals.                                                               *)

LEMMA SumsIs ==
  ASSUME NEW text, NEW n \in Nat, n = Len(text), \A i \in 1..n : text[i] \in Nat
  PROVE  /\ Sums(text)[0] = 0
         /\ \A i \in 1..n : Sums(text)[i] = 10 * Sums(text)[i - 1] + (text[i] - 48)
<1> DEFINE G == [i \in 1..n |-> [x \in Int |-> 10 * x + (text[i] - 48)]]
<1>1. StepOn(G, Int, n) /\ 0 \in Int
  BY DEF StepOn
<1>2. PICK f : Iterates(f, G, Int, 0, n)
  <2> HIDE DEF G
  <2> QED  BY <1>1, Recursion
<1>3. /\ f \in [0..n -> Int] /\ f[0] = 0
      /\ \A i \in 1..n : f[i] = 10 * f[i - 1] + (text[i] - 48)
  <2>1. f \in [0..n -> Int] /\ f[0] = 0 /\ \A i \in 1..n : f[i] = G[i][f[i - 1]]
    BY <1>2 DEF Iterates
  <2>2. ASSUME NEW i \in 1..n PROVE f[i] = 10 * f[i - 1] + (text[i] - 48)
    <3>1. PICK x \in Int : x = f[i - 1]
      BY <2>1
    <3>2. G[i][x] = 10 * x + (text[i] - 48)
      OBVIOUS
    <3> QED  BY <2>1, <3>1, <3>2
  <2> QED  BY <2>1, <2>2
<1> HIDE DEF G
<1> DEFINE Is(g) == g = [i \in 0..n |-> IF i = 0 THEN 0 ELSE 10 * g[i - 1] + (text[i] - 48)]
<1>4. Is(f)
  BY <1>3
<1>5. Sums(text) = CHOOSE g : Is(g)
  BY DEF Sums
<1> DEFINE g == Sums(text)
<1> HIDE DEF Is, g
<1>6. Is(g)
  BY <1>4, <1>5 DEF g
<1>7. g = [i \in 0..n |-> IF i = 0 THEN 0 ELSE 10 * g[i - 1] + (text[i] - 48)]
  BY <1>6 DEF Is
<1>8. g[0] = 0 /\ \A i \in 1..n : g[i] = 10 * g[i - 1] + (text[i] - 48)
  <2>1. 0 \in 0..n /\ \A i \in 1..n : i \in 0..n /\ i # 0
    OBVIOUS
  <2> QED  BY ONLY Zenon, <1>7, <2>1
<1> QED  BY <1>8 DEF g

LEMMA QuotientsIs ==
  ASSUME NEW n \in Nat
  PROVE  /\ Quotients(n) \in [0..(n + 1) -> Nat] /\ Quotients(n)[0] = n
         /\ \A i \in 1..(n + 1) : Quotients(n)[i] = Quotients(n)[i - 1] \div 10
<1> DEFINE G == [i \in 1..(n + 1) |-> [x \in Nat |-> x \div 10]]
<1>1. StepOn(G, Nat, n + 1)
  BY DEF StepOn
<1>2. PICK f : Iterates(f, G, Nat, n, n + 1)
  BY <1>1, Recursion
<1>3. f \in [0..(n + 1) -> Nat] /\ f[0] = n /\ \A i \in 1..(n + 1) : f[i] = f[i - 1] \div 10
  <2>1. f \in [0..(n + 1) -> Nat] /\ f[0] = n /\ \A i \in 1..(n + 1) : f[i] = G[i][f[i - 1]]
    BY <1>2 DEF Iterates
  <2>2. ASSUME NEW i \in 1..(n + 1) PROVE f[i] = f[i - 1] \div 10
    <3>1. PICK x \in Nat : x = f[i - 1]
      BY <2>1
    <3>2. G[i][x] = x \div 10
      OBVIOUS
    <3> QED  BY <2>1, <3>1, <3>2
  <2> QED  BY <2>1, <2>2
<1> HIDE DEF G
<1> DEFINE Is(g) == g = [i \in 0..(n + 1) |-> IF i = 0 THEN n ELSE g[i - 1] \div 10]
<1>4. Is(f)
  BY <1>3
<1>5. Quotients(n) = CHOOSE g : Is(g)
  BY DEF Quotients
<1> DEFINE g == Quotients(n)
<1> HIDE DEF Is, g
<1>6. Is(g)
  BY <1>4, <1>5 DEF g
<1>7. g = [i \in 0..(n + 1) |-> IF i = 0 THEN n ELSE g[i - 1] \div 10]
  BY <1>6 DEF Is
<1>8. g[0] = n /\ \A i \in 1..(n + 1) : g[i] = g[i - 1] \div 10
  BY <1>7
<1>9. g \in [0..(n + 1) -> Nat]
  <2> DEFINE T == {i \in 0..(n + 1) : g[i] \in Nat}
  <2>1. 0 \in T
    BY <1>8
  <2>2. \A i \in 1..(n + 1) : i - 1 \in T => i \in T
    BY <1>8
  <2>3. 0..(n + 1) \subseteq T
    <3> HIDE DEF T
    <3> QED  BY <2>1, <2>2, UpTo
  <2> QED  BY <1>7, <2>3
<1> QED  BY <1>8, <1>9 DEF g

\* k digits are taken off before nothing is left.
DigitCount(n, k) ==
  /\ k \in 1..(n + 1) /\ Quotients(n)[k] = 0 /\ \A i \in 1..(k - 1) : Quotients(n)[i] # 0

LEMMA DecimalHas ==
  ASSUME NEW n \in Nat
  PROVE  \E k : DigitCount(n, k) /\ Decimal(n) = [i \in 1..k |-> 48 + (Quotients(n)[k - i] % 10)]
<1> DEFINE q == Quotients(n)
<1>1. /\ q \in [0..(n + 1) -> Nat] /\ q[0] = n
      /\ \A i \in 1..(n + 1) : q[i] = q[i - 1] \div 10
  BY QuotientsIs
<1> HIDE DEF q
<1>2. q[n + 1] = 0
  <2> DEFINE T == {i \in 0..(n + 1) : q[i] = 0 \/ q[i] + i <= n}
  <2>1. 0 \in T
    BY <1>1
  <2>2. ASSUME NEW i \in 1..(n + 1), i - 1 \in T PROVE i \in T
    <3>1. PICK x \in Nat : x = q[i - 1]
      BY <1>1
    <3>2. q[i] = x \div 10 /\ (x = 0 \/ x + (i - 1) <= n)
      BY <1>1, <2>2, <3>1
    <3>3. x \div 10 = 0 \/ x \div 10 + i <= n
      BY <3>2
    <3> QED  BY <3>2, <3>3
  <2>3. 0..(n + 1) \subseteq T
    <3> HIDE DEF T
    <3> QED  BY <2>1, <2>2, UpTo
  <2>4. n + 1 \in T
    <3> HIDE DEF T
    <3> QED  BY <2>3
  <2> QED  BY <1>1, <2>4
<1>3. PICK k \in 1..(n + 1) : q[k] = 0 /\ \A i \in 1..(k - 1) : q[i] # 0
  <2> DEFINE T == {i \in 1..(n + 1) : q[i] = 0}
  <2>1. T \in SUBSET Nat /\ n + 1 \in T
    BY <1>2
  <2>2. PICK k \in T : \A j \in T : k <= j
    <3> HIDE DEF T
    <3> QED  BY <2>1, LeastOf
  <2>3. \A i \in 1..(k - 1) : i \in 1..(n + 1) /\ ~(k <= i)
    OBVIOUS
  <2> QED  BY <2>2, <2>3
<1> DEFINE Is(j) == j \in 1..(n + 1) /\ q[j] = 0 /\ \A i \in 1..(j - 1) : q[i] # 0
           c == CHOOSE j \in 1..(n + 1) : q[j] = 0 /\ \A i \in 1..(j - 1) : q[i] # 0
<1>4. Is(c)
  BY <1>3
<1>5. Decimal(n) = [i \in 1..c |-> 48 + (q[c - i] % 10)]
  BY DEF Decimal, q
<1> HIDE DEF c
<1> QED  BY <1>4, <1>5 DEF q, DigitCount

Numeric(ds) == ds \in Seq(Byte) /\ ds # << >> /\ \A i \in 1..Len(ds) : ds[i] \in Digits

\* A length is written in digits, and parsed as what it was.
LEMMA DecimalParsed ==
  ASSUME NEW n \in Nat
  PROVE  Numeric(Decimal(n)) /\ ParsedUsize(Decimal(n)) = n
<1> DEFINE q == Quotients(n)
           d == Decimal(n)
<1>1. /\ q \in [0..(n + 1) -> Nat] /\ q[0] = n
      /\ \A i \in 1..(n + 1) : q[i] = q[i - 1] \div 10
  BY QuotientsIs
<1>2. PICK k : DigitCount(n, k) /\ d = [i \in 1..k |-> 48 + (q[k - i] % 10)]
  BY DecimalHas
<1>3. k \in 1..(n + 1) /\ q[k] = 0
  BY <1>2 DEF DigitCount
<1> HIDE DEF q, d
<1>4. k \in Nat /\ k # 0
  BY <1>3
<1>5. ASSUME NEW i \in 1..k
      PROVE  d[i] \in Digits /\ d[i] - 48 = q[k - i] % 10 /\ q[k - i] \in Nat
  <2>1. k - i \in 0..(n + 1)
    BY <1>3
  <2>2. PICK x \in Nat : x = q[k - i]
    BY <1>1, <2>1
  <2>3. x % 10 \in 0..9
    OBVIOUS
  <2>4. d[i] = 48 + (x % 10)
    BY <1>2, <2>2
  <2> QED  BY <2>2, <2>3, <2>4 DEF Digits
<1>6. d \in Seq(Byte) /\ Len(d) = k
  <2>1. d \in [1..k -> Byte]
    <3>1. \A i \in 1..k : d[i] \in Byte
      BY <1>5 DEF Digits, Byte
    <3>2. d = [i \in 1..k |-> d[i]]
      BY <1>2
    <3> QED  BY <3>1, <3>2
  <2> QED  BY <1>4, <2>1, FunctionSeq
<1>7. Numeric(d)
  <2>1. d # << >>
    BY <1>4, <1>6
  <2> QED  BY <1>5, <1>6, <2>1 DEF Numeric
<1>8. /\ Sums(d)[0] = 0
      /\ \A i \in 1..k : Sums(d)[i] = 10 * Sums(d)[i - 1] + (d[i] - 48)
  <2>1. \A i \in 1..k : d[i] \in Nat
    BY <1>5 DEF Digits
  <2> QED  BY <1>4, <1>6, <2>1, SumsIs
<1>9. Sums(d)[k] = n
  <2> DEFINE s == Sums(d)
             T == {i \in 0..k : s[i] = q[k - i]}
  <2>1. 0 \in T
    BY <1>3, <1>4, <1>8
  <2>2. ASSUME NEW i \in 1..k, i - 1 \in T PROVE i \in T
    <3>1. PICK x \in Nat : x = q[k - i]
      BY <1>5
    <3>2. q[k - (i - 1)] = x \div 10
      <4>1. PICK j \in 1..(n + 1) : j = k - (i - 1) /\ j - 1 = k - i
        BY <1>3
      <4> QED  BY <1>1, <3>1, <4>1
    <3>3. s[i - 1] = x \div 10 /\ d[i] - 48 = x % 10
      BY <1>5, <2>2, <3>1, <3>2
    <3>4. s[i] = 10 * (x \div 10) + (x % 10)
      BY <1>8, <3>3
    <3>5. 10 * (x \div 10) + (x % 10) = x
      OBVIOUS
    <3> QED  BY <3>1, <3>4, <3>5
  <2>3. 0..k \subseteq T
    <3> HIDE DEF T, s
    <3> QED  BY <1>4, <2>1, <2>2, UpTo
  <2>4. k \in T /\ k - k = 0
    <3> HIDE DEF T, s
    <3> QED  BY <1>4, <2>3
  <2> QED  BY <1>1, <2>4
<1>10. ParsedUsize(d) = n
  BY <1>6, <1>7, <1>9 DEF ParsedUsize, Numeric
<1> QED  BY <1>7, <1>10 DEF d

-----------------------------------------------------------------------------
(* Lines, words and commands in a buffer.                                  *)

\* Behind the first o bytes of buf stands e, as far as buf goes.
Agrees(buf, o, e) == \A i \in 1..Len(e) : o + i <= Len(buf) => buf[o + i] = e[i]

LEMMA AgreesJoined ==
  ASSUME NEW p \in Seq(Byte), NEW s \in Seq(Byte), NEW buf \in Seq(Byte), NEW o \in Nat,
         Agrees(buf, o, p \o s)
  PROVE  Agrees(buf, o, p) /\ Agrees(buf, o + Len(p), s)
<1>1. PICK m \in Nat, n \in Nat, N \in Nat : m = Len(p) /\ n = Len(s) /\ N = Len(buf)
  OBVIOUS
<1>2. /\ Len(p \o s) = m + n
      /\ \A i \in 1..(m + n) : (p \o s)[i] = IF i <= m THEN p[i] ELSE s[i - m]
  BY <1>1, ConcatProperties
<1>3. \A i \in 1..(m + n) : o + i <= N => buf[o + i] = (p \o s)[i]
  BY <1>1, <1>2 DEF Agrees
<1>4. ASSUME NEW i \in 1..m, o + i <= N PROVE buf[o + i] = p[i]
  <2>1. i \in 1..(m + n) /\ i <= m
    OBVIOUS
  <2> QED  BY <1>2, <1>3, <1>4, <2>1
<1>5. ASSUME NEW i \in 1..n, (o + m) + i <= N PROVE buf[(o + m) + i] = s[i]
  <2>1. PICK j \in 1..(m + n) : j = m + i /\ ~(j <= m) /\ j - m = i /\ o + j = (o + m) + i
    OBVIOUS
  <2>2. buf[o + j] = s[i]
    BY <1>2, <1>3, <1>5, <2>1
  <2> QED  BY <2>1, <2>2
<1> QED  BY <1>1, <1>4, <1>5 DEF Agrees

LEMMA AgreesWhole ==
  ASSUME NEW buf \in Seq(Byte), NEW o \in Nat, NEW e \in Seq(Byte), Agrees(buf, o, e),
         o + Len(e) <= Len(buf)
  PROVE  Stands(buf, o, e)
<1>1. PICK m \in Nat, N \in Nat : m = Len(e) /\ N = Len(buf)
  OBVIOUS
<1>2. \A i \in 1..m : o + i <= N
  BY <1>1
<1> QED  BY <1>1, <1>2 DEF Agrees, Stands

LineEnd == Two(CR, LF)

LEMMA LineEndIs == LineEnd \in Seq(Byte) /\ Len(LineEnd) = 2 /\ LineEnd[1] = CR /\ LineEnd[2] = LF
<1>1. CR \in Byte /\ LF \in Byte
  BY DEF CR, LF, Byte
<1> QED  BY <1>1, Pair DEF LineEnd

\* A line of digits is read as soon as its end has arrived, and not before.
LEMMA LineRead ==
  ASSUME NEW buf \in Seq(Byte), NEW o \in Nat, NEW ds, Numeric(ds), Agrees(buf, o, ds \o LineEnd)
  PROVE  read_line(buf, o + 1) = IF o + Len(ds) + 2 <= Len(buf)
                                 THEN [text |-> ds, next |-> o + Len(ds) + 3] ELSE None
<1>1. PICK m \in Nat, N \in Nat : m = Len(ds) /\ N = Len(buf) /\ ds \in Seq(Byte)
  BY DEF Numeric
<1>2. Agrees(buf, o, ds) /\ Agrees(buf, o + m, LineEnd)
  BY <1>1, LineEndIs, AgreesJoined
<1>3. /\ \A i \in 1..m : o + i <= N => buf[o + i] \in Digits
      /\ (o + m) + 1 <= N => buf[(o + m) + 1] = CR
      /\ (o + m) + 2 <= N => buf[(o + m) + 2] = LF
  <2>1. \A i \in 1..m : o + i <= N => buf[o + i] = ds[i] /\ ds[i] \in Digits
    BY <1>1, <1>2 DEF Agrees, Numeric
  <2>2. \A i \in 1..2 : (o + m) + i <= N => buf[(o + m) + i] = LineEnd[i]
    BY <1>1, <1>2, LineEndIs DEF Agrees
  <2> QED  BY <2>1, <2>2, LineEndIs
<1> DEFINE E == {i \in (o + 1)..(N - 1) : buf[i] = CR /\ buf[i + 1] = LF}
<1>4. \A i \in E : i > o + m
  <2> SUFFICES ASSUME NEW i \in E, i <= o + m PROVE FALSE
    OBVIOUS
  <2>1. PICK j \in 1..m : j = i - o /\ o + j = i /\ o + j <= N
    OBVIOUS
  <2>2. buf[i] \in Digits
    BY <1>3, <2>1
  <2>3. buf[i] = 13
    BY DEF CR
  <2> QED  BY <2>2, <2>3 DEF Digits
<1>5. read_line(buf, o + 1) =
        IF E = {} THEN None
        ELSE [text |-> SubSeq(buf, o + 1, (CHOOSE j \in E : \A k \in E : j <= k) - 1),
              next |-> (CHOOSE j \in E : \A k \in E : j <= k) + 2]
  BY <1>1 DEF read_line
<1>6. CASE o + m + 2 <= N
  <2>1. PICK e \in Nat : e = o + m + 1 /\ e = (o + m) + 1 /\ e + 1 = (o + m) + 2
    OBVIOUS
  <2>2. e \in E
    BY <1>3, <1>6, <2>1
  <2>3. \A k \in E : e <= k
    BY <1>4, <2>1
  <2> DEFINE c == CHOOSE j \in E : \A k \in E : j <= k
  <2>4. c \in E /\ \A k \in E : c <= k
    BY <2>2, <2>3
  <2>5. c = e
    BY <2>1, <2>2, <2>3, <2>4
  <2> HIDE DEF c
  <2>6. E # {}
    BY <2>2
  <2> HIDE DEF E
  <2>7. read_line(buf, o + 1) = [text |-> SubSeq(buf, o + 1, e - 1), next |-> e + 2]
    BY <1>5, <2>5, <2>6 DEF c
  <2>8. SubSeq(buf, o + 1, o + m) = ds
    <3>1. Stands(buf, o, ds)
      BY <1>1, <1>2, <1>6, AgreesWhole
    <3> QED  BY <1>1, <3>1, SliceIs DEF Slice
  <2>9. e - 1 = o + m /\ e + 2 = o + m + 3
    BY <2>1
  <2> QED  BY <1>1, <1>6, <2>7, <2>8, <2>9
<1>7. CASE ~(o + m + 2 <= N)
  <2>1. E = {}
    <3> SUFFICES ASSUME NEW i \in E PROVE FALSE
      OBVIOUS
    <3>1. i > o + m /\ i <= N - 1
      BY <1>4
    <3> QED  BY <1>7, <3>1
  <2> HIDE DEF E
  <2> QED  BY <1>1, <1>5, <1>7, <2>1
<1> QED  BY <1>6, <1>7

LEMMA LineIs ==
  ASSUME NEW first \in Byte, NEW n \in Nat
  PROVE  /\ Line(first, n) = One(first) \o (Decimal(n) \o LineEnd)
         /\ Decimal(n) \o LineEnd \in Seq(Byte) /\ Decimal(n) \in Seq(Byte)
         /\ Line(first, n) \in Seq(Byte)
         /\ Len(Line(first, n)) = Len(Decimal(n)) + 3
         /\ Line(first, n)[1] = first
         /\ Len(Decimal(n)) >= 1
<1> DEFINE d == Decimal(n)
<1>1. d \in Seq(Byte) /\ Len(d) \in Nat /\ Len(d) >= 1
  <2>1. d \in Seq(Byte) /\ d # << >>
    BY DecimalParsed DEF Numeric
  <2> HIDE DEF d
  <2> QED  BY <2>1
<1>2. One(first) \in Seq(Byte) /\ Len(One(first)) = 1 /\ One(first)[1] = first
  BY Single
<1>3. Line(first, n) = (One(first) \o d) \o LineEnd
  BY DEF Line, One, LineEnd, Two
<1> HIDE DEF d
<1>4. (One(first) \o d) \o LineEnd = One(first) \o (d \o LineEnd)
  BY SMTT(40), <1>1, <1>2, LineEndIs, ConcatAssociative
<1>5. d \o LineEnd \in Seq(Byte) /\ Len(d \o LineEnd) = Len(d) + 2
  BY SMTT(40), <1>1, LineEndIs, ConcatProperties
<1>6. /\ One(first) \o (d \o LineEnd) \in Seq(Byte)
      /\ Len(One(first) \o (d \o LineEnd)) = 1 + (Len(d) + 2)
      /\ (One(first) \o (d \o LineEnd))[1] = first
  <2>1. PICK t \in Seq(Byte) : t = d \o LineEnd /\ Len(t) = Len(d) + 2
    BY <1>5
  <2>2. PICK p \in Seq(Byte) : p = One(first) /\ Len(p) = 1 /\ p[1] = first
    BY <1>2
  <2>3. p \o t \in Seq(Byte) /\ Len(p \o t) = Len(p) + Len(t)
        /\ \A i \in 1..(Len(p) + Len(t)) : (p \o t)[i] = IF i <= Len(p) THEN p[i] ELSE t[i - Len(p)]
    BY ConcatProperties
  <2>4. 1 \in 1..(Len(p) + Len(t)) /\ 1 <= Len(p)
    BY <2>2
  <2>5. One(first) \o t \in Seq(Byte) /\ Len(One(first) \o t) = 1 + Len(t)
        /\ (One(first) \o t)[1] = first
    BY <2>2, <2>3, <2>4
  <2> QED  BY <2>1, <2>5
<1>7. 1 + (Len(d) + 2) = Len(d) + 3
  BY <1>1
<1> QED  BY <1>1, <1>3, <1>4, <1>5, <1>6, <1>7 DEF d

LEMMA BytesJoined ==
  ASSUME NEW p \in Seq(Byte), NEW s \in Seq(Byte)
  PROVE  p \o s \in Seq(Byte) /\ Len(p \o s) = Len(p) + Len(s)
BY ConcatProperties

LEMMA Regrouped ==
  ASSUME NEW p \in Seq(Byte), NEW s \in Seq(Byte), NEW e \in Seq(Byte)
  PROVE  (p \o s) \o e = p \o (s \o e)
BY ConcatAssociative

LEMMA BulkIs ==
  ASSUME NEW w \in Seq(Byte)
  PROVE  /\ BulkString(w) = One(Dollar) \o ((Decimal(Len(w)) \o LineEnd) \o (w \o LineEnd))
         /\ (Decimal(Len(w)) \o LineEnd) \o (w \o LineEnd) \in Seq(Byte)
         /\ Decimal(Len(w)) \o LineEnd \in Seq(Byte) /\ w \o LineEnd \in Seq(Byte)
         /\ BulkString(w) \in Seq(Byte)
         /\ Len(BulkString(w)) = Len(Decimal(Len(w))) + Len(w) + 5
<1>1. PICK n \in Nat : n = Len(w)
  OBVIOUS
<1>2. Dollar \in Byte
  BY DEF Dollar, Byte
<1> DEFINE p == One(Dollar)
           l == Decimal(n) \o LineEnd
           e == w \o LineEnd
<1>3. /\ Line(Dollar, n) = p \o l /\ l \in Seq(Byte) /\ Decimal(n) \in Seq(Byte)
      /\ Line(Dollar, n) \in Seq(Byte) /\ Len(Line(Dollar, n)) = Len(Decimal(n)) + 3
  BY <1>2, LineIs
<1>4. p \in Seq(Byte)
  BY <1>2, Single
<1>5. e \in Seq(Byte) /\ Len(e) = Len(w) + 2
  BY SMTT(30), LineEndIs, ConcatProperties
<1>6. BulkString(w) = (Line(Dollar, n) \o w) \o LineEnd
  BY <1>1 DEF BulkString, LineEnd, Two
<1>7. (Line(Dollar, n) \o w) \o LineEnd = Line(Dollar, n) \o e
  BY ONLY ZenonT(30), w \in Seq(Byte), <1>3, LineEndIs, Regrouped
<1> HIDE DEF p, l, e
<1>8. (p \o l) \o e = p \o (l \o e)
  BY ZenonT(40), <1>3, <1>4, <1>5, Regrouped
<1>9. l \o e \in Seq(Byte)
  BY <1>3, <1>5, BytesJoined
<1>10. BulkString(w) \in Seq(Byte) /\ Len(BulkString(w)) = Len(Line(Dollar, n)) + Len(e)
  <2>1. Line(Dollar, n) \o e \in Seq(Byte) /\ Len(Line(Dollar, n) \o e) = Len(Line(Dollar, n)) + Len(e)
    BY <1>3, <1>5, BytesJoined
  <2> QED  BY Zenon, <1>6, <1>7, <2>1
<1>11. Len(BulkString(w)) = Len(Decimal(n)) + n + 5
  <2>1. PICK a \in Nat : a = Len(Decimal(n))
    BY <1>3
  <2> QED  BY <1>1, <1>3, <1>5, <1>10, <2>1
<1>12. BulkString(w) = p \o (l \o e)
  BY <1>3, <1>6, <1>7, <1>8
<1> QED  BY <1>1, <1>3, <1>5, <1>9, <1>10, <1>11, <1>12 DEF p, l, e

\* A word is read as soon as the two bytes behind it have arrived, and not before.
LEMMA BulkRead ==
  ASSUME NEW buf \in Seq(Byte), NEW o \in Nat, NEW w \in Seq(Byte), Agrees(buf, o, BulkString(w))
  PROVE  parse_bulk_string(buf, o + 1) =
           IF o + Len(BulkString(w)) <= Len(buf)
           THEN [word |-> w, next |-> o + Len(BulkString(w)) + 1] ELSE None
<1>1. PICK n \in Nat, N \in Nat : n = Len(w) /\ N = Len(buf)
  OBVIOUS
<1> DEFINE d == Decimal(n)
<1>2. Numeric(d) /\ ParsedUsize(d) = n
  BY DecimalParsed
<1>3. PICK a \in Nat : a = Len(d)
  BY <1>2 DEF Numeric
<1>4. Dollar \in Byte /\ One(Dollar) \in Seq(Byte) /\ Len(One(Dollar)) = 1 /\ One(Dollar)[1] = Dollar
  BY Single DEF Dollar, Byte
<1>5. PICK b \in Nat : b = Len(BulkString(w)) /\ b = a + n + 5
  BY <1>1, <1>3, BulkIs
<1>6. /\ BulkString(w) = One(Dollar) \o ((d \o LineEnd) \o (w \o LineEnd))
      /\ (d \o LineEnd) \o (w \o LineEnd) \in Seq(Byte)
      /\ d \o LineEnd \in Seq(Byte) /\ w \o LineEnd \in Seq(Byte)
  BY <1>1, BulkIs
<1> HIDE DEF d
<1>7. Agrees(buf, o, One(Dollar)) /\ Agrees(buf, o + 1, (d \o LineEnd) \o (w \o LineEnd))
  <2>1. PICK t \in Seq(Byte) : t = (d \o LineEnd) \o (w \o LineEnd)
    BY <1>6
  <2>2. PICK p \in Seq(Byte) : p = One(Dollar) /\ Len(p) = 1
    BY <1>4
  <2>3. Agrees(buf, o, p \o t)
    BY Zenon, <1>6, <2>1, <2>2
  <2>4. Agrees(buf, o, p) /\ Agrees(buf, o + Len(p), t)
    BY <2>3, AgreesJoined
  <2> QED  BY Zenon, <2>1, <2>2, <2>4
<1>8. PICK o1 \in Nat : o1 = o + 1
  OBVIOUS
<1>9. Len(d \o LineEnd) = a + 2
  <2>1. d \in Seq(Byte)
    BY <1>2 DEF Numeric
  <2>2. Len(d \o LineEnd) = Len(d) + Len(LineEnd)
    BY <2>1, LineEndIs, BytesJoined
  <2> QED  BY <1>3, <2>2, LineEndIs
<1>10. Agrees(buf, o1, d \o LineEnd) /\ Agrees(buf, o1 + (a + 2), w \o LineEnd)
  BY <1>6, <1>7, <1>8, <1>9, AgreesJoined
<1>11. read_line(buf, o1 + 1) = IF o1 + a + 2 <= N THEN [text |-> d, next |-> o1 + a + 3] ELSE None
  BY <1>1, <1>2, <1>3, <1>10, LineRead
<1>12. o1 <= N => buf[o1] = Dollar
  <2>1. 1 \in 1..Len(One(Dollar)) /\ o + 1 = o1
    BY <1>4, <1>8
  <2> QED  BY <1>1, <1>4, <1>7, <2>1 DEF Agrees
<1>13. PICK e \in Nat : e = o1 + a + 3 + n /\ e + 2 = o + b + 1
  BY <1>5, <1>8
<1>14. o + 1 = o1 /\ o + b + 1 = e + 2
  BY <1>8, <1>13
<1>15. CASE o + b <= N
  <2>1. o1 <= N /\ o1 + a + 2 <= N /\ e + 2 <= N + 1
    BY <1>5, <1>8, <1>13, <1>15
  <2>2. PICK line : line = [text |-> d, next |-> o1 + a + 3]
    OBVIOUS
  <2>3. line = read_line(buf, o1 + 1) /\ line.text = d /\ line.next = o1 + a + 3
    BY <1>11, <2>1, <2>2
  <2>4. line # None
    <3>1. d \in Seq(Byte) /\ o1 + a + 3 \in Nat
      BY <1>2 DEF Numeric
    <3>2. line \in [text : Seq(Byte), next : Nat]
      BY <2>2, <3>1
    <3> QED  BY <3>2, RespAssumption
  <2>5. n # None
    BY RespAssumption
  <2>6. Complete(buf, e)
    BY <1>1, <2>1 DEF Complete
  <2>7. line.next + n = e
    BY <1>13, <2>3
  <2>8. SubSeq(buf, line.next, e - 1) = w
    <3>1. PICK q \in Nat : q = o1 + (a + 2) /\ q + 1 = line.next /\ q + n = e - 1 /\ q + n <= N
      BY <1>13, <2>1, <2>3
    <3>2. Agrees(buf, q, w)
      BY <1>10, <3>1, LineEndIs, AgreesJoined
    <3>3. Stands(buf, q, w)
      BY <1>1, <3>1, <3>2, AgreesWhole
    <3>4. SubSeq(buf, q + 1, q + n) = w
      BY <1>1, <3>3, SliceIs DEF Slice
    <3> QED  BY <3>1, <3>4
  <2>9. ~(o1 > Len(buf)) /\ ~(buf[o1] # Dollar \/ line = None)
    BY <1>1, <1>12, <2>1, <2>4
  <2>10. parse_bulk_string(buf, o1) = [word |-> SubSeq(buf, line.next, e - 1), next |-> e + 2]
    BY Zenon, <1>2, <2>3, <2>5, <2>6, <2>7, <2>9 DEF parse_bulk_string
  <2> QED  BY <1>1, <1>5, <1>14, <1>15, <2>8, <2>10
<1>16. CASE ~(o + b <= N)
  <2>1. parse_bulk_string(buf, o1) = None
    <3>1. CASE o1 > N
      BY <1>1, <3>1 DEF parse_bulk_string
    <3>2. CASE o1 <= N /\ ~(o1 + a + 2 <= N)
      <4>1. read_line(buf, o1 + 1) = None
        BY <1>11, <3>2
      <4> QED  BY <1>1, <3>2, <4>1 DEF parse_bulk_string
    <3>3. CASE o1 <= N /\ o1 + a + 2 <= N
      <4>1. PICK line : line = [text |-> d, next |-> o1 + a + 3]
        OBVIOUS
      <4>2. line = read_line(buf, o1 + 1) /\ line.text = d /\ line.next + n = e
        BY <1>11, <1>13, <3>3, <4>1
      <4>3. ~Complete(buf, e)
        BY <1>1, <1>13, <1>16 DEF Complete
      <4> QED  BY Zenon, <1>2, <4>2, <4>3 DEF parse_bulk_string
    <3> QED  BY <1>8, <3>1, <3>2, <3>3
  <2> QED  BY <1>1, <1>5, <1>8, <1>16, <2>1
<1> QED  BY <1>15, <1>16

LEMMA BeginningsAre ==
  ASSUME NEW c \in Seq(Seq(Byte)), NEW k \in Nat, k = Len(c)
  PROVE  /\ Beginnings(c) \in [0..k -> Seq(Byte)] /\ Beginnings(c)[0] = Line(Star, k)
         /\ \A i \in 1..k : Beginnings(c)[i] = Beginnings(c)[i - 1] \o BulkString(c[i])
<1> DEFINE a == Line(Star, k)
           W(i) == BulkString(c[i])
           G == [i \in 1..k |-> [x \in Seq(Byte) |-> x \o W(i)]]
<1>1. a \in Seq(Byte)
  <2>1. Star \in Byte
    BY DEF Star, Byte
  <2> QED  BY <2>1, LineIs
<1>2. \A i \in 1..k : W(i) \in Seq(Byte)
  <2> TAKE i \in 1..k
  <2>1. c[i] \in Seq(Byte)
    OBVIOUS
  <2> QED  BY <2>1, BulkIs
<1> HIDE DEF a, W
<1>3. StepOn(G, Seq(Byte), k)
  <2>1. ASSUME NEW i \in 1..k PROVE [x \in Seq(Byte) |-> x \o W(i)] \in [Seq(Byte) -> Seq(Byte)]
    BY <1>2, BytesJoined
  <2> QED  BY <2>1 DEF StepOn
<1>4. \A i \in 1..k : \A x \in Seq(Byte) : G[i][x] = x \o W(i)
  OBVIOUS
<1> HIDE DEF G
<1>5. PICK f : Iterates(f, G, Seq(Byte), a, k)
  BY <1>1, <1>3, Recursion
<1>6. f \in [0..k -> Seq(Byte)] /\ f[0] = a /\ \A i \in 1..k : f[i] = f[i - 1] \o W(i)
  <2>1. f \in [0..k -> Seq(Byte)] /\ f[0] = a /\ \A i \in 1..k : f[i] = G[i][f[i - 1]]
    BY <1>5 DEF Iterates
  <2>2. ASSUME NEW i \in 1..k PROVE f[i] = f[i - 1] \o W(i)
    <3>1. PICK x \in Seq(Byte) : x = f[i - 1]
      BY <2>1
    <3> QED  BY <1>4, <2>1, <3>1
  <2> QED  BY <2>1, <2>2
<1> DEFINE Is(g) == g = [i \in 0..k |-> IF i = 0 THEN a ELSE g[i - 1] \o W(i)]
<1>7. Is(f)
  BY SMTT(30), <1>6
<1>8. Beginnings(c) = CHOOSE g : Is(g)
  BY DEF Beginnings, a, W
<1> DEFINE g == Beginnings(c)
<1> HIDE DEF Is, g
<1>9. Is(g)
  BY <1>7, <1>8 DEF g
<1>10. g = [i \in 0..k |-> IF i = 0 THEN a ELSE g[i - 1] \o W(i)]
  BY <1>9 DEF Is
<1>11. g[0] = a /\ \A i \in 1..k : g[i] = g[i - 1] \o W(i)
  <2>1. 0 \in 0..k /\ \A i \in 1..k : i \in 0..k /\ i # 0
    OBVIOUS
  <2> QED  BY ONLY Zenon, <1>10, <2>1
<1>12. \A i \in 0..k : g[i] \in Seq(Byte)
  <2> DEFINE T == {i \in 0..k : g[i] \in Seq(Byte)}
  <2>1. 0 \in T
    BY <1>1, <1>11
  <2>2. ASSUME NEW i \in 1..k, i - 1 \in T PROVE i \in T
    <3>1. i \in 0..k /\ g[i - 1] \in Seq(Byte)
      BY <2>2
    <3>2. g[i - 1] \o W(i) \in Seq(Byte)
      BY <1>2, <3>1, BytesJoined
    <3> QED  BY <1>11, <3>1, <3>2
  <2>3. 0..k \subseteq T
    <3> HIDE DEF T
    <3> QED  BY <2>1, <2>2, UpTo
  <2> QED  BY <2>3
<1>13. g \in [0..k -> Seq(Byte)]
  BY <1>10, <1>12
<1> QED  BY <1>11, <1>13 DEF a, W, g

\* Where the i-th word of c ends.
WordEnd(c, i) == Len(Beginnings(c)[i])

LEMMA WordEnds ==
  ASSUME NEW c \in Seq(Seq(Byte)), NEW k \in Nat, k = Len(c)
  PROVE  /\ \A i \in 0..k : WordEnd(c, i) \in Nat
         /\ WordEnd(c, 0) = Len(Decimal(k)) + 3
         /\ \A i \in 1..k : /\ WordEnd(c, i) = WordEnd(c, i - 1) + Len(BulkString(c[i]))
                            /\ WordEnd(c, i - 1) < WordEnd(c, i)
<1> DEFINE g == Beginnings(c)
<1>1. /\ g \in [0..k -> Seq(Byte)] /\ g[0] = Line(Star, k)
      /\ \A i \in 1..k : g[i] = g[i - 1] \o BulkString(c[i])
  BY BeginningsAre
<1>2. Star \in Byte
  BY DEF Star, Byte
<1> HIDE DEF g
<1>3. Len(g[0]) = Len(Decimal(k)) + 3
  BY <1>1, <1>2, LineIs
<1>4. \A i \in 0..k : Len(g[i]) \in Nat
  BY <1>1
<1>5. ASSUME NEW i \in 1..k
      PROVE  Len(g[i]) = Len(g[i - 1]) + Len(BulkString(c[i])) /\ Len(g[i - 1]) < Len(g[i])
  <2>1. PICK w \in Seq(Byte) : w = c[i]
    OBVIOUS
  <2>2. BulkString(w) \in Seq(Byte) /\ Len(BulkString(w)) >= 5
    <3>1. BulkString(w) \in Seq(Byte) /\ Len(BulkString(w)) = Len(Decimal(Len(w))) + Len(w) + 5
      BY BulkIs
    <3>2. PICK a \in Nat, n \in Nat : n = Len(w) /\ a = Len(Decimal(n))
      <4>1. PICK n \in Nat : n = Len(w)
        OBVIOUS
      <4>2. Decimal(n) \in Seq(Byte)
        BY DecimalParsed DEF Numeric
      <4> QED  BY <4>1, <4>2
    <3> QED  BY <3>1, <3>2
  <2>3. i - 1 \in 0..k
    BY ONLY k \in Nat, i \in 1..k
  <2>4. PICK p \in Seq(Byte) : p = g[i - 1]
    BY <1>1, <2>3
  <2>5. Len(p \o BulkString(w)) = Len(p) + Len(BulkString(w))
    BY <2>2, BytesJoined
  <2>6. g[i] = p \o BulkString(w)
    BY <1>1, <2>1, <2>4
  <2>7. PICK m \in Nat, b \in Nat : m = Len(p) /\ b = Len(BulkString(w)) /\ b >= 5
    BY <2>2
  <2>8. Len(g[i - 1]) = m /\ Len(g[i]) = m + b /\ Len(BulkString(c[i])) = b
    BY <2>1, <2>4, <2>5, <2>6, <2>7
  <2> QED  BY ONLY <2>7, <2>8, m \in Nat, b \in Nat
<1> QED  BY <1>3, <1>4, <1>5 DEF g, WordEnd

\* What begins as a command begins as each of its beginnings.
LEMMA AgreesBeginning ==
  ASSUME NEW c \in Seq(Seq(Byte)), NEW k \in Nat, k = Len(c),
         NEW buf \in Seq(Byte), Agrees(buf, 0, Bytes(c))
  PROVE  \A i \in 0..k : Agrees(buf, 0, Beginnings(c)[i])
<1> DEFINE g == Beginnings(c)
           T == {i \in 0..k : Agrees(buf, 0, g[k - i])}
<1>1. /\ g \in [0..k -> Seq(Byte)]
      /\ \A i \in 1..k : g[i] = g[i - 1] \o BulkString(c[i])
  BY BeginningsAre
<1>2. Bytes(c) = g[k]
  BY DEF Bytes
<1> HIDE DEF g
<1>3. 0 \in T
  BY <1>2
<1>4. ASSUME NEW i \in 1..k, i - 1 \in T PROVE i \in T
  <2>1. PICK j \in 1..k : j = k - (i - 1) /\ j - 1 = k - i
    BY ONLY k \in Nat, i \in 1..k
  <2>2. PICK w \in Seq(Byte) : w = c[j]
    OBVIOUS
  <2>3. j - 1 \in 0..k
    BY ONLY k \in Nat, j \in 1..k
  <2>4. PICK p \in Seq(Byte) : p = g[j - 1]
    BY <1>1, <2>3
  <2>5. g[j] = p \o BulkString(w) /\ Agrees(buf, 0, g[j])
    BY <1>1, <1>4, <2>1, <2>4, <2>2
  <2>6. BulkString(w) \in Seq(Byte)
    BY BulkIs
  <2>7. Agrees(buf, 0, p \o BulkString(w))
    BY <2>5
  <2>8. Agrees(buf, 0, p)
    BY <2>6, <2>7, AgreesJoined
  <2> QED  BY <2>1, <2>4, <2>8
<1>5. 0..k \subseteq T
  <2> HIDE DEF T
  <2> QED  BY <1>3, <1>4, UpTo
<1>6. ASSUME NEW i \in 0..k PROVE Agrees(buf, 0, g[i])
  <2>1. PICK j \in 0..k : j = k - i /\ k - j = i
    BY ONLY k \in Nat, i \in 0..k
  <2>2. j \in T
    BY <1>5
  <2> QED  BY <2>1, <2>2
<1> QED  BY <1>6 DEF g

\* What has been read when the first i words of c have been looked for in buf.
Found(buf, c, i) ==
  IF WordEnd(c, i) <= Len(buf)
  THEN [words |-> SubSeq(c, 1, i), next |-> WordEnd(c, i) + 1] ELSE None

\* One turn of the loop over the words.
WordStep(buf, pos, upto, i) ==
  IF i = 0 THEN [words |-> << >>, next |-> pos]
  ELSE LET acc  == upto[i - 1]
           bulk == parse_bulk_string(buf, acc.next)
       IN  IF acc = None THEN None
           ELSE IF bulk = None THEN None
           ELSE [words |-> Append(acc.words, bulk.word), next |-> bulk.next]

LEMMA WordAdded ==
  ASSUME NEW c \in Seq(Seq(Byte)), NEW i \in 1..Len(c)
  PROVE  SubSeq(c, 1, i) = Append(SubSeq(c, 1, i - 1), c[i])
<1>1. PICK k \in Nat : k = Len(c) /\ i \in 1..k
  OBVIOUS
<1>2. 1 \in 1..k /\ i \in 1..k /\ i - 1 \in 0..k /\ i - 1 \in Int
  BY ONLY k \in Nat, <1>1
<1>3. SubSeq(c, 1, i) = SubSeq(c, 1, i - 1) \o <<c[i]>>
  BY <1>1, <1>2, SubSeqRecursiveSecond
<1>4. c[i] \in Seq(Byte)
  OBVIOUS
<1>5. SubSeq(c, 1, i - 1) \in Seq(Seq(Byte))
  <2>1. \A j \in 1..(i - 1) : j \in 1..k
    BY ONLY k \in Nat, <1>1
  <2>2. \A j \in 1..(i - 1) : c[j] \in Seq(Byte)
    BY <1>1, <2>1
  <2> QED  BY <1>2, <2>2, SubSeqProperties
<1> QED  BY <1>3, <1>4, <1>5, AppendIsConcat

LEMMA StepFinds ==
  ASSUME NEW c \in Seq(Seq(Byte)), NEW k \in Nat, k = Len(c),
         NEW buf \in Seq(Byte), Agrees(buf, 0, Bytes(c)),
         NEW pos, NEW upto, NEW i \in 1..k, upto[i - 1] = Found(buf, c, i - 1)
  PROVE  WordStep(buf, pos, upto, i) = Found(buf, c, i)
<1>1. i - 1 \in 0..k /\ i \in 0..k /\ i # 0
  BY ONLY k \in Nat, i \in 1..k
<1>2. PICK w \in Seq(Byte) : w = c[i]
  OBVIOUS
<1>3. PICK o \in Nat, e \in Nat : /\ o = WordEnd(c, i - 1) /\ e = WordEnd(c, i)
                                 /\ e = o + Len(BulkString(w)) /\ o < e
  <2>1. PICK o \in Nat : o = WordEnd(c, i - 1)
    BY <1>1, WordEnds
  <2>2. PICK e \in Nat : e = WordEnd(c, i)
    BY <1>1, WordEnds
  <2>3. e = o + Len(BulkString(w)) /\ o < e
    BY <1>2, <2>1, <2>2, WordEnds
  <2> QED  BY <2>1, <2>2, <2>3
<1>4. PICK N \in Nat : N = Len(buf)
  OBVIOUS
<1>5. CASE N < o
  <2>1. ~(o <= N) /\ ~(e <= N)
    BY ONLY <1>3, <1>5, N \in Nat, o \in Nat, e \in Nat
  <2>2. upto[i - 1] = None
    BY <1>3, <1>4, <2>1 DEF Found
  <2>3. WordStep(buf, pos, upto, i) = None
    BY Zenon, <1>1, <2>2 DEF WordStep
  <2> QED  BY <1>3, <1>4, <2>1, <2>3 DEF Found
<1>6. CASE o <= N
  <2>1. upto[i - 1] = [words |-> SubSeq(c, 1, i - 1), next |-> o + 1]
    BY <1>3, <1>4, <1>6 DEF Found
  <2>2. PICK acc : acc = upto[i - 1] /\ acc.words = SubSeq(c, 1, i - 1) /\ acc.next = o + 1
    BY <2>1
  <2>3. acc # None
    <3>1. SubSeq(c, 1, i - 1) \in Seq(Seq(Byte))
      <4>1. \A j \in 1..(i - 1) : j \in 1..k
        BY ONLY k \in Nat, i \in 1..k
      <4>2. \A j \in 1..(i - 1) : c[j] \in Seq(Byte)
        BY <4>1
      <4>3. 1 \in Int /\ i - 1 \in Int
        BY <1>1
      <4> QED  BY <4>2, <4>3, SubSeqProperties
    <3>2. acc \in [words : Seq(Seq(Byte)), next : Nat]
      BY <2>1, <2>2, <3>1
    <3> QED  BY <3>2, RespAssumption
  <2>4. Agrees(buf, o, BulkString(w))
    <3>1. PICK p \in Seq(Byte) : p = Beginnings(c)[i - 1] /\ Len(p) = o
      <4>1. Beginnings(c)[i - 1] \in Seq(Byte)
        BY <1>1, BeginningsAre
      <4> QED  BY <1>3, <4>1 DEF WordEnd
    <3>2. Beginnings(c)[i] = p \o BulkString(w)
      BY <1>2, <3>1, BeginningsAre
    <3>3. Agrees(buf, 0, p \o BulkString(w))
      BY <1>1, <3>2, AgreesBeginning
    <3>4. BulkString(w) \in Seq(Byte)
      BY BulkIs
    <3>5. Agrees(buf, 0 + Len(p), BulkString(w))
      BY <3>3, <3>4, AgreesJoined
    <3>6. 0 + Len(p) = o
      BY <3>1
    <3> QED  BY <3>5, <3>6
  <2>5. parse_bulk_string(buf, acc.next) = IF e <= N THEN [word |-> w, next |-> e + 1] ELSE None
    <3>1. parse_bulk_string(buf, o + 1) =
            IF o + Len(BulkString(w)) <= Len(buf)
            THEN [word |-> w, next |-> o + Len(BulkString(w)) + 1] ELSE None
      BY <2>4, BulkRead
    <3> QED  BY Zenon, <1>3, <1>4, <2>2, <3>1
  <2>6. CASE e <= N
    <3>1. PICK bulk : bulk = [word |-> w, next |-> e + 1]
      OBVIOUS
    <3>2. bulk = parse_bulk_string(buf, acc.next) /\ bulk.word = w /\ bulk.next = e + 1
      BY <2>5, <2>6, <3>1
    <3>3. bulk # None
      <4>1. bulk \in [word : Seq(Byte), next : Nat]
        BY <3>1
      <4> QED  BY <4>1, RespAssumption
    <3>4. WordStep(buf, pos, upto, i) = [words |-> Append(acc.words, w), next |-> e + 1]
      BY Zenon, <1>1, <2>2, <2>3, <3>2, <3>3 DEF WordStep
    <3>5. Append(acc.words, w) = SubSeq(c, 1, i)
      BY <1>2, <2>2, WordAdded
    <3> QED  BY <1>3, <1>4, <2>6, <3>4, <3>5 DEF Found
  <2>7. CASE ~(e <= N)
    <3>1. parse_bulk_string(buf, acc.next) = None
      BY <2>5, <2>7
    <3>2. WordStep(buf, pos, upto, i) = None
      BY Zenon, <1>1, <2>2, <2>3, <3>1 DEF WordStep
    <3> QED  BY <1>3, <1>4, <2>7, <3>2 DEF Found
  <2> QED  BY <2>6, <2>7
<1> QED  BY <1>3, <1>4, <1>5, <1>6

LEMMA WordsFound ==
  ASSUME NEW c \in Seq(Seq(Byte)), NEW k \in Nat, k = Len(c),
         NEW buf \in Seq(Byte), Agrees(buf, 0, Bytes(c)), WordEnd(c, 0) <= Len(buf)
  PROVE  Words(buf, k, WordEnd(c, 0) + 1)[k] = Found(buf, c, k)
<1> DEFINE pos == WordEnd(c, 0) + 1
           H == [i \in 0..k |-> Found(buf, c, i)]
           Is(f) == f = [i \in 0..k |-> WordStep(buf, pos, f, i)]
<1>1. Found(buf, c, 0) = [words |-> << >>, next |-> pos]
  <2>1. SubSeq(c, 1, 0) = << >>
    BY SubSeqEmpty
  <2> QED  BY <2>1 DEF Found
<1> HIDE DEF pos
<1>2. \A f : WordStep(buf, pos, f, 0) = Found(buf, c, 0)
  BY <1>1 DEF WordStep
<1>3. Is(H)
  <2>1. ASSUME NEW i \in 0..k PROVE WordStep(buf, pos, H, i) = H[i]
    <3>1. CASE i = 0
      BY <1>2, <3>1
    <3>2. CASE i # 0
      <4>1. i \in 1..k /\ i - 1 \in 0..k
        BY ONLY k \in Nat, i \in 0..k, <3>2
      <4>2. H[i - 1] = Found(buf, c, i - 1)
        BY <4>1
      <4> HIDE DEF H
      <4>3. WordStep(buf, pos, H, i) = Found(buf, c, i)
        BY <4>1, <4>2, StepFinds
      <4> QED  BY <4>3 DEF H
    <3> QED  BY <3>1, <3>2
  <2>2. H = [i \in 0..k |-> H[i]]
    OBVIOUS
  <2> HIDE DEF H
  <2> QED  BY <2>1, <2>2
<1>4. Words(buf, k, pos) = CHOOSE f : Is(f)
  BY DEF Words, WordStep
<1> DEFINE g == Words(buf, k, pos)
<1> HIDE DEF H, Is, g
<1>5. Is(g)
  BY <1>3, <1>4 DEF g
<1>6. g = [i \in 0..k |-> WordStep(buf, pos, g, i)]
  BY <1>5 DEF Is
<1>7. \A i \in 0..k : g[i] = WordStep(buf, pos, g, i)
  BY ONLY Zenon, <1>6
<1> DEFINE T == {i \in 0..k : g[i] = Found(buf, c, i)}
<1>8. 0 \in T
  BY <1>2, <1>7
<1>9. ASSUME NEW i \in 1..k, i - 1 \in T PROVE i \in T
  <2>1. i \in 0..k /\ g[i - 1] = Found(buf, c, i - 1)
    BY <1>9
  <2>2. WordStep(buf, pos, g, i) = Found(buf, c, i)
    BY <2>1, StepFinds
  <2> QED  BY <1>7, <2>1, <2>2
<1>10. k \in T
  <2> HIDE DEF T
  <2>1. 0..k \subseteq T
    BY <1>8, <1>9, UpTo
  <2> QED  BY <2>1
<1> QED  BY <1>10 DEF g, pos

\* What begins as c is parsed as c when all of c is there, and not before.
LEMMA CommandRead ==
  ASSUME NEW c \in Seq(Seq(Byte)), NEW buf \in Seq(Byte), Agrees(buf, 0, Bytes(c))
  PROVE  parse_command(buf) = IF Len(Bytes(c)) <= Len(buf) THEN c ELSE None
<1>1. PICK k \in Nat, N \in Nat : k = Len(c) /\ N = Len(buf)
  OBVIOUS
<1> DEFINE d == Decimal(k)
<1>2. Numeric(d) /\ ParsedUsize(d) = k
  BY DecimalParsed
<1>3. PICK a \in Nat : a = Len(d)
  BY <1>2 DEF Numeric
<1>4. PICK z \in Nat : z = WordEnd(c, 0) /\ z = a + 3
  BY <1>1, <1>3, WordEnds
<1>5. PICK e \in Nat : e = WordEnd(c, k) /\ e = Len(Bytes(c)) /\ z <= e
  <2>1. \A i \in 0..k : WordEnd(c, i) \in Nat
    BY <1>1, WordEnds
  <2> DEFINE T == {i \in 0..k : z <= WordEnd(c, i)}
  <2>2. 0 \in T
    BY <1>4, <2>1
  <2>3. ASSUME NEW i \in 1..k, i - 1 \in T PROVE i \in T
    <3>1. WordEnd(c, i - 1) < WordEnd(c, i) /\ z <= WordEnd(c, i - 1)
      BY <1>1, <2>3, WordEnds
    <3>2. i \in 0..k /\ i - 1 \in 0..k
      BY ONLY k \in Nat, i \in 1..k
    <3>3. PICK x \in Nat, y \in Nat : x = WordEnd(c, i - 1) /\ y = WordEnd(c, i)
      BY <2>1, <3>2
    <3> QED  BY <3>1, <3>2, <3>3
  <2>4. k \in T
    <3> HIDE DEF T
    <3>1. 0..k \subseteq T
      BY <2>2, <2>3, UpTo
    <3> QED  BY <3>1
  <2> QED  BY <1>1, <2>1, <2>4 DEF WordEnd, Bytes
<1>6. Star \in Byte /\ One(Star) \in Seq(Byte) /\ Len(One(Star)) = 1 /\ One(Star)[1] = Star
  BY Single DEF Star, Byte
<1>7. Agrees(buf, 0, One(Star)) /\ Agrees(buf, 1, d \o LineEnd)
  <2>1. PICK l \in Seq(Byte), s \in Seq(Byte) : l = d \o LineEnd /\ s = One(Star) /\ Len(s) = 1
    BY <1>6, LineIs
  <2>2. Beginnings(c)[0] = Line(Star, k)
    BY <1>1, BeginningsAre
  <2>3. Beginnings(c)[0] = One(Star) \o (d \o LineEnd)
    BY <1>6, <2>2, LineIs
  <2>4. Agrees(buf, 0, Beginnings(c)[0])
    BY <1>1, AgreesBeginning
  <2>5. Agrees(buf, 0, s \o l)
    BY Zenon, <2>1, <2>3, <2>4
  <2>6. Agrees(buf, 0, s) /\ Agrees(buf, 0 + Len(s), l)
    BY <2>5, AgreesJoined
  <2>7. 0 + Len(s) = 1
    BY <2>1
  <2> QED  BY Zenon, <2>1, <2>6, <2>7
<1> HIDE DEF d
<1>8. 1 <= N => buf[1] = Star
  <2>1. 1 \in 1..Len(One(Star)) /\ 0 + 1 = 1
    BY <1>6
  <2> QED  BY <1>1, <1>6, <1>7, <2>1 DEF Agrees
<1>9. read_line(buf, 2) = IF z <= N THEN [text |-> d, next |-> z + 1] ELSE None
  <2>1. read_line(buf, 1 + 1) = IF 1 + a + 2 <= N THEN [text |-> d, next |-> 1 + a + 3] ELSE None
    BY <1>1, <1>2, <1>3, <1>7, LineRead
  <2>2. 1 + 1 = 2 /\ 1 + a + 2 = z /\ 1 + a + 3 = z + 1
    BY <1>4
  <2> QED  BY <2>1, <2>2
<1>10. CASE N = 0
  <2>1. buf = << >>
    BY <1>1, <1>10, EmptySeq
  <2>2. ~(e <= N)
    BY ONLY <1>4, <1>5, <1>10, a \in Nat, z \in Nat, e \in Nat, N \in Nat
  <2> QED  BY <1>1, <1>5, <2>1, <2>2 DEF parse_command
<1>11. CASE N # 0 /\ ~(z <= N)
  <2>1. read_line(buf, 2) = None /\ ~(e <= N)
    BY <1>5, <1>9, <1>11
  <2> QED  BY <1>1, <1>5, <2>1 DEF parse_command
<1>12. CASE N # 0 /\ z <= N
  <2>1. PICK line : line = [text |-> d, next |-> z + 1]
    OBVIOUS
  <2>2. line = read_line(buf, 2) /\ line.text = d /\ line.next = z + 1
    BY <1>9, <1>12, <2>1
  <2>3. line # None /\ k # None
    <3>1. line \in [text : Seq(Byte), next : Nat]
      BY <1>2, <2>1 DEF Numeric
    <3> QED  BY <3>1, RespAssumption
  <2>4. PICK all : all = Found(buf, c, k)
    OBVIOUS
  <2>5. Words(buf, k, line.next)[k] = all
    BY <1>1, <1>4, <1>12, <2>2, <2>4, WordsFound
  <2>6. buf # << >> /\ buf[1] = Star
    BY <1>1, <1>8, <1>12
  <2>7. parse_command(buf) = IF all = None THEN None ELSE all.words
    BY Zenon, <1>2, <2>2, <2>3, <2>5, <2>6 DEF parse_command
  <2>8. CASE e <= N
    <3>1. SubSeq(c, 1, k) = c
      BY <1>1, SubSeqFull
    <3>2. all = [words |-> c, next |-> e + 1]
      BY <1>1, <1>5, <2>4, <2>8, <3>1 DEF Found
    <3>3. all # None
      <4>1. all \in [words : Seq(Seq(Byte)), next : Nat]
        BY <3>2
      <4> QED  BY <4>1, RespAssumption
    <3> QED  BY <1>1, <1>5, <2>7, <2>8, <3>2, <3>3
  <2>9. CASE ~(e <= N)
    <3>1. all = None
      BY <1>1, <1>5, <2>4, <2>9 DEF Found
    <3> QED  BY <1>1, <1>5, <2>7, <2>9, <3>1
  <2> QED  BY <2>8, <2>9
<1> QED  BY <1>10, <1>11, <1>12

-----------------------------------------------------------------------------
(* The wire.                                                               *)

\* Where the commands cs begin and end among the bytes `all`.
Laid(all, cs) ==
  /\ all \in Seq(Byte) /\ cs \in Seq(Commands)
  /\ \A i \in 0..Len(cs) : EndsOf(cs)[i] \in 0..Len(all)
  /\ EndsOf(cs)[0] = 0 /\ EndsOf(cs)[Len(cs)] = Len(all)
  /\ \A i \in 1..Len(cs) : /\ EndsOf(cs)[i] = EndsOf(cs)[i - 1] + Len(Bytes(cs[i]))
                           /\ Stands(all, EndsOf(cs)[i - 1], Bytes(cs[i]))
  /\ \A p \in 1..Len(all) : \E i \in 1..Len(cs) : EndsOf(cs)[i - 1] < p /\ p <= EndsOf(cs)[i]

\* What has not been read yet is on the wire, and the read before was parsed.
RespInv ==
  \E all : /\ Laid(all, sent)
           /\ taken \in 0..Len(all) /\ wire = SubSeq(all, taken + 1, Len(all))
           /\ last # None =>
                \E f \in 0..Len(all) : \E u \in f..Len(all) :
                  last = [from |-> f, upto |-> u, parsed |-> Parsed(SubSeq(all, f + 1, u))]

LEMMA CommandType ==
  ASSUME NEW c \in Commands
  PROVE  /\ c \in Seq(Seq(Byte)) /\ c # << >>
         /\ Bytes(c) \in Seq(Byte) /\ Len(Bytes(c)) >= 1
<1>1. c \in Seq(Seq(Byte)) /\ c # << >>
  BY RespAssumption
<1>2. PICK k \in Nat : k = Len(c)
  BY <1>1
<1>3. Bytes(c) \in Seq(Byte)
  <2>1. k \in 0..k
    BY <1>2
  <2>2. Beginnings(c) \in [0..k -> Seq(Byte)]
    BY <1>1, <1>2, BeginningsAre
  <2> QED  BY <1>2, <2>1, <2>2 DEF Bytes
<1>4. k >= 1
  BY <1>1, <1>2, EmptySeq
<1>5. PICK x \in Nat, y \in Nat : x = WordEnd(c, k - 1) /\ y = WordEnd(c, k) /\ x < y
  <2>1. k \in 1..k /\ k - 1 \in 0..k /\ k \in 0..k
    BY ONLY k \in Nat, <1>4
  <2>2. WordEnd(c, k - 1) \in Nat /\ WordEnd(c, k) \in Nat /\ WordEnd(c, k - 1) < WordEnd(c, k)
    BY <1>1, <1>2, <2>1, WordEnds
  <2> QED  BY <2>2
<1>6. Len(Bytes(c)) = y
  BY <1>2, <1>5 DEF WordEnd, Bytes
<1> QED  BY <1>1, <1>3, <1>5, <1>6

LEMMA EndsAre ==
  ASSUME NEW cs \in Seq(Commands), NEW n \in Nat, n = Len(cs)
  PROVE  /\ EndsOf(cs) \in [0..n -> Nat] /\ EndsOf(cs)[0] = 0
         /\ \A i \in 1..n : EndsOf(cs)[i] = EndsOf(cs)[i - 1] + Len(Bytes(cs[i]))
<1> DEFINE W(i) == Len(Bytes(cs[i]))
           G == [i \in 1..n |-> [x \in Nat |-> x + W(i)]]
<1>1. \A i \in 1..n : W(i) \in Nat
  <2> TAKE i \in 1..n
  <2>1. cs[i] \in Commands
    OBVIOUS
  <2> QED  BY <2>1, CommandType
<1> HIDE DEF W
<1>2. StepOn(G, Nat, n) /\ 0 \in Nat
  BY <1>1 DEF StepOn
<1>3. \A i \in 1..n : \A x \in Nat : G[i][x] = x + W(i)
  OBVIOUS
<1> HIDE DEF G
<1>4. PICK f : Iterates(f, G, Nat, 0, n)
  BY <1>2, Recursion
<1>5. f \in [0..n -> Nat] /\ f[0] = 0 /\ \A i \in 1..n : f[i] = f[i - 1] + W(i)
  <2>1. f \in [0..n -> Nat] /\ f[0] = 0 /\ \A i \in 1..n : f[i] = G[i][f[i - 1]]
    BY <1>4 DEF Iterates
  <2>2. ASSUME NEW i \in 1..n PROVE f[i] = f[i - 1] + W(i)
    <3>1. PICK x \in Nat : x = f[i - 1]
      BY <2>1
    <3> QED  BY <1>3, <2>1, <3>1
  <2> QED  BY <2>1, <2>2
<1> DEFINE Is(g) == g = [i \in 0..n |-> IF i = 0 THEN 0 ELSE g[i - 1] + W(i)]
<1>6. Is(f)
  BY <1>5
<1>7. EndsOf(cs) = CHOOSE g : Is(g)
  BY DEF EndsOf, W
<1> DEFINE g == EndsOf(cs)
<1> HIDE DEF Is, g
<1>8. Is(g)
  BY <1>6, <1>7 DEF g
<1>9. g = [i \in 0..n |-> IF i = 0 THEN 0 ELSE g[i - 1] + W(i)]
  BY <1>8 DEF Is
<1>10. g[0] = 0 /\ \A i \in 1..n : g[i] = g[i - 1] + W(i)
  <2>1. 0 \in 0..n /\ \A i \in 1..n : i \in 0..n /\ i # 0
    OBVIOUS
  <2> QED  BY ONLY Zenon, <1>9, <2>1
<1>11. \A i \in 0..n : g[i] \in Nat
  <2> DEFINE T == {i \in 0..n : g[i] \in Nat}
  <2>1. 0 \in T
    BY <1>10
  <2>2. ASSUME NEW i \in 1..n, i - 1 \in T PROVE i \in T
    BY <1>1, <1>10, <2>2
  <2>3. 0..n \subseteq T
    <3> HIDE DEF T
    <3> QED  BY <2>1, <2>2, UpTo
  <2> QED  BY <2>3
<1>12. g \in [0..n -> Nat]
  BY <1>9, <1>11
<1> QED  BY <1>10, <1>12 DEF W, g

\* The commands that have been sent end where they did when one more is sent.
LEMMA EndsStay ==
  ASSUME NEW cs \in Seq(Commands), NEW c \in Commands, NEW n \in Nat, n = Len(cs)
  PROVE  /\ Append(cs, c) \in Seq(Commands) /\ Len(Append(cs, c)) = n + 1
         /\ Append(cs, c)[n + 1] = c /\ \A i \in 1..n : Append(cs, c)[i] = cs[i]
         /\ \A i \in 0..n : EndsOf(Append(cs, c))[i] = EndsOf(cs)[i]
         /\ EndsOf(Append(cs, c))[n + 1] = EndsOf(cs)[n] + Len(Bytes(c))
<1> DEFINE ds == Append(cs, c)
<1>1. /\ ds \in Seq(Commands) /\ Len(ds) = n + 1
      /\ ds[n + 1] = c /\ \A i \in 1..n : ds[i] = cs[i]
  BY AppendProperties
<1> HIDE DEF ds
<1>2. n + 1 \in Nat
  OBVIOUS
<1>3. /\ EndsOf(ds)[0] = 0
      /\ \A i \in 1..(n + 1) : EndsOf(ds)[i] = EndsOf(ds)[i - 1] + Len(Bytes(ds[i]))
  BY <1>1, <1>2, EndsAre
<1>4. /\ EndsOf(cs)[0] = 0
      /\ \A i \in 1..n : EndsOf(cs)[i] = EndsOf(cs)[i - 1] + Len(Bytes(cs[i]))
  BY EndsAre
<1> DEFINE T == {i \in 0..n : EndsOf(ds)[i] = EndsOf(cs)[i]}
<1>5. 0 \in T
  BY <1>3, <1>4
<1>6. ASSUME NEW i \in 1..n, i - 1 \in T PROVE i \in T
  <2>1. i \in 1..(n + 1) /\ i \in 0..n
    BY ONLY n \in Nat, i \in 1..n
  <2>2. EndsOf(ds)[i - 1] = EndsOf(cs)[i - 1] /\ ds[i] = cs[i]
    BY <1>1, <1>6
  <2> QED  BY Zenon, <1>3, <1>4, <2>1, <2>2
<1>7. \A i \in 0..n : EndsOf(ds)[i] = EndsOf(cs)[i]
  <2>1. 0..n \subseteq T
    <3> HIDE DEF T
    <3> QED  BY <1>5, <1>6, UpTo
  <2> QED  BY <2>1
<1>8. EndsOf(ds)[n + 1] = EndsOf(cs)[n] + Len(Bytes(c))
  <2>1. n + 1 \in 1..(n + 1) /\ (n + 1) - 1 = n /\ n \in 0..n
    BY ONLY n \in Nat
  <2>2. EndsOf(ds)[n + 1] = EndsOf(ds)[(n + 1) - 1] + Len(Bytes(ds[n + 1]))
    BY <1>3, <2>1
  <2> QED  BY Zenon, <1>1, <1>7, <2>1, <2>2
<1> QED  BY <1>1, <1>7, <1>8 DEF ds

LEMMA PartOf ==
  ASSUME NEW s \in Seq(Byte), NEW a \in Nat, NEW b \in Nat, a <= b, b <= Len(s)
  PROVE  /\ SubSeq(s, a + 1, b) \in Seq(Byte) /\ Len(SubSeq(s, a + 1, b)) = b - a
         /\ \A i \in 1..(b - a) : SubSeq(s, a + 1, b)[i] = s[a + i]
<1>1. PICK n \in Nat : n = b - a /\ b = a + n
  OBVIOUS
<1>2. \A i \in (a + 1)..b : s[i] \in Byte
  <2>1. PICK N \in Nat : N = Len(s) /\ b <= N
    OBVIOUS
  <2>2. \A i \in (a + 1)..b : i \in 1..N
    BY ONLY a \in Nat, b \in Nat, N \in Nat, <2>1
  <2> QED  BY <2>1, <2>2
<1>3. a + 1 \in Int /\ b \in Int
  OBVIOUS
<1>4. /\ SubSeq(s, a + 1, b) \in Seq(Byte)
      /\ Len(SubSeq(s, a + 1, b)) = IF a + 1 <= b THEN b - (a + 1) + 1 ELSE 0
      /\ \A i \in 1..(b - (a + 1) + 1) : SubSeq(s, a + 1, b)[i] = s[(a + 1) + i - 1]
  BY <1>2, <1>3, SubSeqProperties
<1>5. (IF a + 1 <= b THEN b - (a + 1) + 1 ELSE 0) = n /\ b - (a + 1) + 1 = n
  BY ONLY <1>1, a \in Nat, b \in Nat, n \in Nat, a <= b
<1>6. \A i \in 1..n : (a + 1) + i - 1 = a + i
  BY ONLY a \in Nat, n \in Nat
<1> QED  BY <1>1, <1>4, <1>5, <1>6

LEMMA PartIs ==
  ASSUME NEW s \in Seq(Byte), NEW a \in Nat, NEW b \in Nat, NEW n \in Nat, b = a + n, b <= Len(s),
         NEW t \in Seq(Byte), Len(t) = n, \A i \in 1..n : t[i] = s[a + i]
  PROVE  SubSeq(s, a + 1, b) = t
<1>1. Stands(s, a, t)
  BY DEF Stands
<1> QED  BY <1>1, SliceIs DEF Slice

LEMMA MoreSent ==
  ASSUME NEW all \in Seq(Byte), NEW s \in Seq(Byte),
         NEW m \in Nat, m = Len(all), NEW n \in Nat, n = Len(s)
  PROVE  /\ all \o s \in Seq(Byte) /\ Len(all \o s) = m + n
         /\ \A i \in 1..m : (all \o s)[i] = all[i]
         /\ \A i \in 1..n : (all \o s)[m + i] = s[i]
<1>1. /\ all \o s \in Seq(Byte) /\ Len(all \o s) = m + n
      /\ \A i \in 1..(m + n) : (all \o s)[i] = IF i <= m THEN all[i] ELSE s[i - m]
  BY ConcatProperties
<1>2. \A i \in 1..m : i \in 1..(m + n) /\ i <= m
  BY ONLY m \in Nat, n \in Nat
<1>3. \A i \in 1..n : m + i \in 1..(m + n) /\ ~(m + i <= m) /\ (m + i) - m = i
  BY ONLY m \in Nat, n \in Nat
<1>4. \A i \in 1..m : (all \o s)[i] = all[i]
  BY <1>1, <1>2
<1>5. \A i \in 1..n : (all \o s)[m + i] = s[i]
  BY ZenonT(40), <1>1, <1>3
<1> QED  BY <1>1, <1>4, <1>5

\* One more command behind those that are laid out.
LEMMA LaidMore ==
  ASSUME NEW all, NEW cs, Laid(all, cs), NEW c \in Commands
  PROVE  Laid(all \o Bytes(c), Append(cs, c))
<1> DEFINE s == Bytes(c)
           new_all == all \o s
           ds == Append(cs, c)
           E == EndsOf(cs)
           F == EndsOf(ds)
<1>1. all \in Seq(Byte) /\ cs \in Seq(Commands) /\ s \in Seq(Byte)
  BY CommandType DEF Laid
<1>2. PICK n \in Nat : n = Len(cs)
  BY <1>1
<1>3. PICK m \in Nat, l \in Nat : m = Len(all) /\ l = Len(s)
  BY <1>1
<1>4. /\ new_all \in Seq(Byte) /\ Len(new_all) = m + l
      /\ \A i \in 1..m : new_all[i] = all[i]
      /\ \A i \in 1..l : new_all[m + i] = s[i]
  BY <1>1, <1>3, MoreSent
<1>5. /\ ds \in Seq(Commands) /\ Len(ds) = n + 1
      /\ ds[n + 1] = c /\ \A i \in 1..n : ds[i] = cs[i]
      /\ \A i \in 0..n : F[i] = E[i]
      /\ F[n + 1] = E[n] + l
  BY <1>1, <1>2, <1>3, EndsStay
<1>6. /\ \A i \in 0..n : E[i] \in 0..m
      /\ E[0] = 0 /\ E[n] = m
      /\ \A i \in 1..n : E[i] = E[i - 1] + Len(Bytes(cs[i])) /\ Stands(all, E[i - 1], Bytes(cs[i]))
      /\ \A p \in 1..m : \E i \in 1..n : E[i - 1] < p /\ p <= E[i]
  BY <1>2, <1>3 DEF Laid
<1> HIDE DEF s, new_all, ds, E, F
<1>7. 0 \in 0..n /\ n \in 0..n /\ \A i \in 1..n : i \in 0..n /\ i - 1 \in 0..n
  BY ONLY n \in Nat
<1>8. F[0] = 0 /\ F[n] = m /\ F[n + 1] = m + l
  BY <1>5, <1>6, <1>7
<1>9. \A i \in 0..(n + 1) : F[i] \in 0..(m + l)
  <2>1. ASSUME NEW i \in 0..(n + 1) PROVE F[i] \in 0..(m + l)
    <3>1. CASE i = n + 1
      BY <1>8, <3>1
    <3>2. CASE i # n + 1
      <4>1. i \in 0..n
        BY ONLY n \in Nat, i \in 0..(n + 1), <3>2
      <4>2. F[i] \in 0..m
        BY <1>5, <1>6, <4>1
      <4> QED  BY ONLY <4>2, m \in Nat, l \in Nat
    <3> QED  BY <3>1, <3>2
  <2> QED  BY <2>1
<1>10. ASSUME NEW i \in 1..(n + 1)
       PROVE  F[i] = F[i - 1] + Len(Bytes(ds[i])) /\ Stands(new_all, F[i - 1], Bytes(ds[i]))
  <2>1. CASE i = n + 1
    <3>1. i - 1 = n /\ ds[i] = c /\ F[i - 1] = m
      BY <1>5, <1>8, <2>1
    <3>2. Bytes(ds[i]) = s
      BY <3>1 DEF s
    <3>3. Stands(new_all, m, s)
      BY <1>3, <1>4 DEF Stands
    <3> QED  BY <1>3, <1>8, <2>1, <3>1, <3>2, <3>3
  <2>2. CASE i # n + 1
    <3>1. i \in 1..n
      BY ONLY n \in Nat, i \in 1..(n + 1), <2>2
    <3>2. i \in 0..n /\ i - 1 \in 0..n
      BY <1>7, <3>1
    <3>3. F[i] = E[i] /\ F[i - 1] = E[i - 1] /\ ds[i] = cs[i]
      BY <1>5, <3>1, <3>2
    <3>4. PICK b : b = Bytes(cs[i])
      OBVIOUS
    <3>5. PICK o \in 0..m : o = E[i - 1]
      BY <1>6, <3>2
    <3>6. E[i] = o + Len(b) /\ Stands(all, o, b)
      BY <1>6, <3>1, <3>4, <3>5
    <3>7. b \in Seq(Byte)
      <4>1. cs[i] \in Commands
        BY <1>1, <1>2, <3>1
      <4> QED  BY <3>4, <4>1, CommandType
    <3>8. Stands(new_all, o, b)
      <4>1. PICK k \in Nat : k = Len(b)
        BY <3>7
      <4>2. o + k <= m /\ \A j \in 1..k : all[o + j] = b[j]
        BY <1>3, <3>6, <4>1 DEF Stands
      <4>3. \A j \in 1..k : o + j \in 1..m
        BY ONLY <4>2, o \in 0..m, m \in Nat, k \in Nat
      <4>4. \A j \in 1..k : new_all[o + j] = b[j]
        BY <1>4, <4>2, <4>3
      <4> QED  BY <1>4, <4>1, <4>2, <4>4 DEF Stands
    <3> QED  BY <3>3, <3>4, <3>5, <3>6, <3>8
  <2> QED  BY <2>1, <2>2
<1>11. ASSUME NEW p \in 1..(m + l) PROVE \E i \in 1..(n + 1) : F[i - 1] < p /\ p <= F[i]
  <2>1. CASE p <= m
    <3>1. p \in 1..m
      BY <2>1
    <3>2. PICK i \in 1..n : E[i - 1] < p /\ p <= E[i]
      BY <1>6, <3>1
    <3>3. F[i - 1] = E[i - 1] /\ F[i] = E[i]
      BY <1>5, <1>7
    <3>4. i \in 1..(n + 1)
      BY ONLY n \in Nat, i \in 1..n
    <3> QED  BY <3>2, <3>3, <3>4
  <2>2. CASE ~(p <= m)
    <3>1. n + 1 \in 1..(n + 1) /\ (n + 1) - 1 = n
      BY ONLY n \in Nat
    <3>2. m < p /\ p <= m + l
      BY <2>2
    <3> QED  BY <1>8, <3>1, <3>2
  <2> QED  BY <2>1, <2>2
<1>12. /\ new_all \in Seq(Byte) /\ ds \in Seq(Commands)
       /\ \A i \in 0..Len(ds) : F[i] \in 0..Len(new_all)
       /\ F[0] = 0 /\ F[Len(ds)] = Len(new_all)
  BY <1>4, <1>5, <1>8, <1>9
<1>13. /\ \A i \in 1..Len(ds) : F[i] = F[i - 1] + Len(Bytes(ds[i])) /\ Stands(new_all, F[i - 1], Bytes(ds[i]))
       /\ \A p \in 1..Len(new_all) : \E i \in 1..Len(ds) : F[i - 1] < p /\ p <= F[i]
  BY <1>4, <1>5, <1>10, <1>11
<1> QED  BY <1>12, <1>13 DEF Laid, s, new_all, ds, F

LEMMA RespStart == RespInit => RespInv
<1> SUFFICES ASSUME RespInit PROVE RespInv
  OBVIOUS
<1>1. sent = << >> /\ wire = << >> /\ taken = 0 /\ last = None
  BY DEF RespInit
<1>2. PICK n \in Nat : n = 0
  OBVIOUS
<1>3. /\ << >> \in Seq(Byte) /\ << >> \in Seq(Commands) /\ Len(<< >>) = n
  BY <1>2, EmptySeq
<1>4. EndsOf(<< >>)[0] = 0
  BY <1>3, EndsAre
<1>5. Laid(<< >>, << >>)
  BY <1>2, <1>3, <1>4 DEF Laid
<1>6. SubSeq(<< >>, 1, 0) = << >>
  BY SubSeqEmpty
<1>7. 0 \in 0..Len(<< >>) /\ 0 + 1 = 1 /\ Len(<< >>) = 0
  BY <1>2, <1>3
<1>8. \E all : /\ Laid(all, sent)
               /\ taken \in 0..Len(all) /\ wire = SubSeq(all, taken + 1, Len(all))
  BY <1>1, <1>5, <1>6, <1>7
<1> QED  BY <1>1, <1>8 DEF RespInv

LEMMA SendStep ==
  ASSUME RespInv, NEW c \in Commands, Send(c)
  PROVE  RespInv'
<1>1. PICK all : /\ Laid(all, sent)
                 /\ taken \in 0..Len(all) /\ wire = SubSeq(all, taken + 1, Len(all))
                 /\ last # None =>
                      \E f \in 0..Len(all) : \E u \in f..Len(all) :
                        last = [from |-> f, upto |-> u, parsed |-> Parsed(SubSeq(all, f + 1, u))]
  BY DEF RespInv
<1>2. sent' = Append(sent, c) /\ wire' = wire \o Bytes(c) /\ taken' = taken /\ last' = last
  BY DEF Send
<1> DEFINE s == Bytes(c)
           new_all == all \o s
<1>3. all \in Seq(Byte) /\ s \in Seq(Byte)
  BY <1>1, CommandType DEF Laid
<1>4. PICK m \in Nat, l \in Nat : m = Len(all) /\ l = Len(s)
  BY <1>3
<1>5. /\ new_all \in Seq(Byte) /\ Len(new_all) = m + l
      /\ \A i \in 1..m : new_all[i] = all[i]
      /\ \A i \in 1..l : new_all[m + i] = s[i]
  BY <1>3, <1>4, MoreSent
<1>6. Laid(new_all, sent')
  BY <1>1, <1>2, LaidMore
<1> HIDE DEF s, new_all
<1>7. PICK t \in Nat : t = taken /\ t <= m
  BY <1>1, <1>4
<1>8. wire' = SubSeq(new_all, t + 1, m + l)
  <2>1. PICK w \in Seq(Byte), k \in Nat : w = wire /\ k = Len(w) /\ k = m - t /\ \A i \in 1..k : w[i] = all[t + i]
    <3>1. /\ wire = SubSeq(all, t + 1, m)
          /\ SubSeq(all, t + 1, m) \in Seq(Byte) /\ Len(SubSeq(all, t + 1, m)) = m - t
          /\ \A i \in 1..(m - t) : SubSeq(all, t + 1, m)[i] = all[t + i]
      BY <1>1, <1>3, <1>4, <1>7, PartOf
    <3>2. PICK k \in Nat : k = m - t
      BY <1>7
    <3> QED  BY <3>1, <3>2
  <2>2. /\ w \o s \in Seq(Byte) /\ Len(w \o s) = k + l
        /\ \A i \in 1..k : (w \o s)[i] = w[i]
        /\ \A i \in 1..l : (w \o s)[k + i] = s[i]
    <3>1. /\ w \in Seq(Byte) /\ s \in Seq(Byte)
          /\ k \in Nat /\ k = Len(w) /\ l \in Nat /\ l = Len(s)
      BY <1>3, <1>4, <2>1 DEF s
    <3> QED  BY ONLY <3>1, MoreSent
  <2>3. ASSUME NEW i \in 1..(k + l) PROVE (w \o s)[i] = new_all[t + i]
    <3>1. CASE i <= k
      <4>1. i \in 1..k /\ t + i \in 1..m
        BY ONLY <1>7, <2>1, <3>1, i \in 1..(k + l), k \in Nat, l \in Nat, t \in Nat, m \in Nat
      <4> QED  BY <1>5, <2>1, <2>2, <4>1
    <3>2. CASE ~(i <= k)
      <4>1. PICK j \in 1..l : i = k + j /\ t + i = m + j
        BY ONLY <1>7, <2>1, <3>2, i \in 1..(k + l), k \in Nat, l \in Nat, t \in Nat, m \in Nat
      <4> QED  BY <1>5, <2>2, <4>1
    <3> QED  BY <3>1, <3>2
  <2>4. m + l = t + (k + l) /\ m + l <= m + l /\ m + l \in Nat /\ k + l \in Nat
    BY ONLY <1>7, <2>1, k \in Nat, l \in Nat, t \in Nat, m \in Nat
  <2>5. SubSeq(new_all, t + 1, m + l) = w \o s
    <3>1. PICK x \in Seq(Byte), h \in Nat, b \in Nat : x = w \o s /\ h = k + l /\ b = m + l
      BY <2>2, <2>4
    <3>2. /\ new_all \in Seq(Byte) /\ t \in Nat /\ b \in Nat /\ h \in Nat /\ b = t + h /\ b <= Len(new_all)
          /\ x \in Seq(Byte) /\ Len(x) = h /\ \A i \in 1..h : x[i] = new_all[t + i]
      <4>1. b = t + h /\ b <= Len(new_all)
        BY <1>5, <2>4, <3>1
      <4>2. Len(x) = h /\ \A i \in 1..h : x[i] = new_all[t + i]
        BY Zenon, <2>2, <2>3, <3>1
      <4> QED  BY <1>5, <1>7, <3>1, <4>1, <4>2
    <3>3. SubSeq(new_all, t + 1, b) = x
      BY ONLY <3>2, PartIs
    <3> QED  BY Zenon, <3>1, <3>3
  <2> QED  BY <1>2, <2>1, <2>5 DEF s
<1>9. last # None =>
        \E f \in 0..(m + l) : \E u \in f..(m + l) :
          last = [from |-> f, upto |-> u, parsed |-> Parsed(SubSeq(new_all, f + 1, u))]
  <2> SUFFICES ASSUME last # None
               PROVE  \E f \in 0..(m + l) : \E u \in f..(m + l) :
                        last = [from |-> f, upto |-> u, parsed |-> Parsed(SubSeq(new_all, f + 1, u))]
    OBVIOUS
  <2>1. PICK f \in 0..m : \E u \in f..m :
          last = [from |-> f, upto |-> u, parsed |-> Parsed(SubSeq(all, f + 1, u))]
    BY <1>1, <1>4
  <2>2. PICK u \in f..m : last = [from |-> f, upto |-> u, parsed |-> Parsed(SubSeq(all, f + 1, u))]
    BY <2>1
  <2>3. f \in Nat /\ u \in Nat /\ f <= u /\ u <= m /\ u <= m + l
    BY ONLY f \in 0..m, u \in f..m, m \in Nat, l \in Nat
  <2>4. /\ SubSeq(all, f + 1, u) \in Seq(Byte) /\ Len(SubSeq(all, f + 1, u)) = u - f
        /\ \A i \in 1..(u - f) : SubSeq(all, f + 1, u)[i] = all[f + i]
    BY SMTT(30), <1>3, <1>4, <2>3, PartOf
  <2>5. \A i \in 1..(u - f) : f + i \in 1..m
    BY ONLY <2>3, f \in Nat, u \in Nat, m \in Nat
  <2>6. \A i \in 1..(u - f) : SubSeq(all, f + 1, u)[i] = new_all[f + i]
    BY <1>5, <2>4, <2>5
  <2>7. SubSeq(new_all, f + 1, u) = SubSeq(all, f + 1, u)
    <3>1. PICK n \in Nat : n = u - f /\ u = f + n
      BY <2>3
    <3>2. PICK x \in Seq(Byte) : x = SubSeq(all, f + 1, u) /\ Len(x) = u - f
                                 /\ \A i \in 1..(u - f) : x[i] = new_all[f + i]
      BY Zenon, <2>4, <2>6
    <3>3. /\ new_all \in Seq(Byte) /\ f \in Nat /\ u \in Nat /\ n \in Nat /\ u = f + n /\ u <= Len(new_all)
          /\ x \in Seq(Byte) /\ Len(x) = n /\ \A i \in 1..n : x[i] = new_all[f + i]
      BY <1>5, <2>3, <3>1, <3>2
    <3>4. SubSeq(new_all, f + 1, u) = x
      BY ONLY <3>3, PartIs
    <3> QED  BY <3>2, <3>4
  <2>8. f \in 0..(m + l) /\ u \in f..(m + l)
    BY ONLY <2>3, m \in Nat, l \in Nat, f \in Nat, u \in Nat
  <2> QED  BY <2>2, <2>7, <2>8
<1>10. taken' \in 0..Len(new_all) /\ wire' = SubSeq(new_all, taken' + 1, Len(new_all))
  BY <1>2, <1>5, <1>7, <1>8
<1>11. last' # None =>
         \E f \in 0..Len(new_all) : \E u \in f..Len(new_all) :
           last' = [from |-> f, upto |-> u, parsed |-> Parsed(SubSeq(new_all, f + 1, u))]
  BY <1>2, <1>5, <1>9
<1> QED  BY <1>6, <1>10, <1>11 DEF RespInv

LEMMA ReadStep ==
  ASSUME RespInv, NEW n \in 1..Len(wire), Read(n)
  PROVE  RespInv'
<1>1. PICK all : /\ Laid(all, sent)
                 /\ taken \in 0..Len(all) /\ wire = SubSeq(all, taken + 1, Len(all))
  BY DEF RespInv
<1>2. /\ wire' = SubSeq(wire, n + 1, Len(wire)) /\ taken' = taken + n /\ sent' = sent
      /\ last' = [from |-> taken, upto |-> taken + n, parsed |-> Parsed(SubSeq(wire, 1, n))]
  BY DEF Read
<1>3. all \in Seq(Byte)
  BY <1>1 DEF Laid
<1>4. PICK m \in Nat : m = Len(all)
  BY <1>3
<1>5. PICK t \in Nat : t = taken /\ t <= m
  BY <1>1, <1>4
<1>6. PICK w \in Seq(Byte), k \in Nat : w = wire /\ k = Len(w) /\ k = m - t /\ \A i \in 1..k : w[i] = all[t + i]
  <2>1. /\ wire = SubSeq(all, t + 1, m)
        /\ SubSeq(all, t + 1, m) \in Seq(Byte) /\ Len(SubSeq(all, t + 1, m)) = m - t
        /\ \A i \in 1..(m - t) : SubSeq(all, t + 1, m)[i] = all[t + i]
    BY <1>1, <1>3, <1>4, <1>5, PartOf
  <2>2. PICK k \in Nat : k = m - t
    BY <1>5
  <2> QED  BY <2>1, <2>2
<1>7. PICK u \in Nat : u = t + n /\ n \in Nat /\ n <= k /\ t <= u /\ u <= m
  BY <1>5, <1>6
<1>8. SubSeq(all, t + 1, u) = SubSeq(w, 1, n)
  <2>1. 0 \in Nat /\ 0 <= n /\ 0 + 1 = 1 /\ n - 0 = n /\ n <= Len(w) /\ u - t = n
    BY <1>6, <1>7
  <2>2. /\ SubSeq(w, 1, n) \in Seq(Byte) /\ Len(SubSeq(w, 1, n)) = n
        /\ \A i \in 1..n : SubSeq(w, 1, n)[i] = w[0 + i]
    BY <1>7, <2>1, PartOf
  <2>3. \A i \in 1..n : i \in 1..k /\ 0 + i = i
    BY ONLY <1>7, n \in Nat, k \in Nat
  <2>4. \A i \in 1..n : SubSeq(w, 1, n)[i] = all[t + i]
    BY <1>6, <2>2, <2>3
  <2>5. PICK x \in Seq(Byte) : x = SubSeq(w, 1, n) /\ Len(x) = n /\ \A i \in 1..n : x[i] = all[t + i]
    BY Zenon, <2>2, <2>4
  <2>6. u = t + n /\ u <= Len(all) /\ n \in Nat
    BY <1>4, <1>7
  <2>7. SubSeq(all, t + 1, u) = x
    BY <1>3, <2>5, <2>6, PartIs
  <2> QED  BY Zenon, <2>5, <2>7
<1>9. SubSeq(all, u + 1, m) = SubSeq(w, n + 1, k)
  <2>1. k - n = m - u /\ n <= k /\ k <= Len(w)
    BY <1>6, <1>7
  <2>2. /\ SubSeq(w, n + 1, k) \in Seq(Byte) /\ Len(SubSeq(w, n + 1, k)) = k - n
        /\ \A i \in 1..(k - n) : SubSeq(w, n + 1, k)[i] = w[n + i]
    BY <1>7, <2>1, PartOf
  <2>3. \A i \in 1..(k - n) : n + i \in 1..k /\ t + (n + i) = u + i
    BY ONLY <1>7, n \in Nat, k \in Nat, t \in Nat, u \in Nat
  <2>4. \A i \in 1..(m - u) : SubSeq(w, n + 1, k)[i] = all[u + i]
    BY Zenon, <1>6, <2>1, <2>2, <2>3
  <2>5. PICK h \in Nat : h = m - u /\ h = k - n /\ m = u + h
    BY <1>7, <2>1
  <2>6. PICK x \in Seq(Byte) : x = SubSeq(w, n + 1, k) /\ Len(x) = h /\ \A i \in 1..h : x[i] = all[u + i]
    BY Zenon, <2>2, <2>4, <2>5
  <2>7. m = u + h /\ m <= Len(all) /\ u \in Nat
    BY <1>4, <2>5
  <2>8. SubSeq(all, u + 1, m) = x
    <3>1. /\ all \in Seq(Byte) /\ u \in Nat /\ m \in Nat /\ h \in Nat /\ m = u + h /\ m <= Len(all)
          /\ x \in Seq(Byte) /\ Len(x) = h /\ \A i \in 1..h : x[i] = all[u + i]
      BY <1>3, <1>4, <2>5, <2>6, <2>7
    <3> QED  BY ONLY <3>1, PartIs
  <2> QED  BY Zenon, <2>6, <2>8
<1>10. taken' \in 0..Len(all) /\ wire' = SubSeq(all, taken' + 1, Len(all))
  BY <1>2, <1>4, <1>5, <1>6, <1>7, <1>9
<1>11. \E f \in 0..Len(all) : \E v \in f..Len(all) :
         last' = [from |-> f, upto |-> v, parsed |-> Parsed(SubSeq(all, f + 1, v))]
  <2>1. t \in 0..Len(all) /\ u \in t..Len(all)
    BY <1>4, <1>5, <1>7
  <2>2. last' = [from |-> t, upto |-> u, parsed |-> Parsed(SubSeq(all, t + 1, u))]
    BY <1>2, <1>5, <1>6, <1>7, <1>8
  <2> QED  BY <2>1, <2>2
<1> QED  BY <1>1, <1>2, <1>10, <1>11 DEF RespInv

\* The bytes of the commands lie one behind the other, and reads take them in that order.
THEOREM ReadsFollow == RespSpec => []RespInv
<1>1. RespInv /\ [RespNext]_<<sent, wire, taken, last>> => RespInv'
  <2> SUFFICES ASSUME RespInv, [RespNext]_<<sent, wire, taken, last>> PROVE RespInv'
    OBVIOUS
  <2>1. CASE \E c \in Commands : Send(c)
    BY <2>1, SendStep
  <2>2. CASE \E n \in 1..Len(wire) : Read(n)
    BY <2>2, ReadStep
  <2>3. CASE UNCHANGED <<sent, wire, taken, last>>
    BY <2>3 DEF RespInv
  <2> QED  BY <2>1, <2>2, <2>3 DEF RespNext
<1> QED  BY <1>1, RespStart, PTL DEF RespSpec

-----------------------------------------------------------------------------
(* What a read is parsed as.                                               *)

\* A read that begins where a command begins is parsed as that command if all of it has
\* been read, and not at all if it has not.
StartIsCommand ==
  last # None =>
    \A i \in 1..Len(sent) : Starts(i) = last.from =>
      last.parsed = IF Starts(i + 1) <= last.upto THEN Normal(sent[i]) ELSE None

LEMMA InvStarts == RespInv => StartIsCommand
<1> SUFFICES ASSUME RespInv, last # None, NEW i \in 1..Len(sent), Starts(i) = last.from
             PROVE  last.parsed = IF Starts(i + 1) <= last.upto THEN Normal(sent[i]) ELSE None
  BY DEF StartIsCommand
<1>1. PICK all : /\ Laid(all, sent)
                 /\ \E f \in 0..Len(all) : \E u \in f..Len(all) :
                      last = [from |-> f, upto |-> u, parsed |-> Parsed(SubSeq(all, f + 1, u))]
  BY DEF RespInv
<1>2. PICK m \in Nat : m = Len(all) /\ all \in Seq(Byte) /\ sent \in Seq(Commands)
  BY <1>1 DEF Laid
<1>3. PICK f \in 0..m : \E u \in f..m :
        last = [from |-> f, upto |-> u, parsed |-> Parsed(SubSeq(all, f + 1, u))]
  BY <1>1, <1>2
<1>4. PICK u \in f..m : last = [from |-> f, upto |-> u, parsed |-> Parsed(SubSeq(all, f + 1, u))]
  BY <1>3
<1>5. f \in Nat /\ u \in Nat /\ f <= u /\ u <= m
  BY ONLY f \in 0..m, u \in f..m, m \in Nat
<1>6. PICK buf \in Seq(Byte), N \in Nat : /\ buf = SubSeq(all, f + 1, u) /\ N = Len(buf) /\ N = u - f
                                          /\ \A j \in 1..N : buf[j] = all[f + j]
  <2>1. PICK h \in Nat : h = u - f
    BY <1>5
  <2>2. /\ SubSeq(all, f + 1, u) \in Seq(Byte) /\ Len(SubSeq(all, f + 1, u)) = u - f
        /\ \A j \in 1..(u - f) : SubSeq(all, f + 1, u)[j] = all[f + j]
    BY <1>2, <1>5, PartOf
  <2> QED  BY <2>1, <2>2
<1>7. last.from = f /\ last.upto = u /\ last.parsed = Parsed(buf)
  BY <1>4, <1>6
<1>8. PICK c \in Commands : c = sent[i]
  BY <1>2
<1>9. PICK b \in Seq(Byte), e \in Nat : b = Bytes(c) /\ e = Len(b)
  BY CommandType
<1>10. Starts(i) = f /\ Starts(i + 1) = f + e /\ Stands(all, f, b)
  <2>1. Starts(i) = EndsOf(sent)[i - 1] /\ Starts(i + 1) = EndsOf(sent)[i]
    <3>1. (i + 1) - 1 = i
      OBVIOUS
    <3> QED  BY <3>1 DEF Starts
  <2>2. /\ EndsOf(sent)[i] = EndsOf(sent)[i - 1] + Len(Bytes(sent[i]))
        /\ Stands(all, EndsOf(sent)[i - 1], Bytes(sent[i]))
    BY <1>1 DEF Laid
  <2> QED  BY <1>7, <1>8, <1>9, <2>1, <2>2
<1>11. Agrees(buf, 0, b)
  <2>1. \A j \in 1..e : all[f + j] = b[j]
    BY <1>9, <1>10 DEF Stands
  <2>2. \A j \in 1..e : 0 + j = j /\ (j <= N => j \in 1..N)
    BY ONLY e \in Nat, N \in Nat
  <2>3. \A j \in 1..e : 0 + j <= N => buf[0 + j] = b[j]
    BY <1>6, <2>1, <2>2
  <2> QED  BY <1>6, <1>9, <2>3 DEF Agrees
<1>12. c \in Seq(Seq(Byte)) /\ c # None
  <2>1. c \in Seq(Seq(Byte))
    BY CommandType
  <2> QED  BY <2>1, RespAssumption
<1>13. parse_command(buf) = IF e <= N THEN c ELSE None
  <2>1. Agrees(buf, 0, Bytes(c))
    BY <1>9, <1>11
  <2>2. parse_command(buf) = IF Len(Bytes(c)) <= Len(buf) THEN c ELSE None
    BY <1>6, <1>12, <2>1, CommandRead
  <2> QED  BY <1>6, <1>9, <2>2
<1>14. f + e <= u <=> e <= N
  BY ONLY <1>5, <1>6, e \in Nat, N \in Nat
<1> QED  BY <1>7, <1>8, <1>10, <1>12, <1>13, <1>14 DEF Parsed

-----------------------------------------------------------------------------
(* Reads that begin elsewhere.                                             *)

\* From its m-th byte on, s has no "*".
StarFree(s, m) == \A i \in m..Len(s) : s[i] # Star

LEMMA StarFreeJoined ==
  ASSUME NEW p \in Seq(Byte), NEW s \in Seq(Byte), NEW m \in Nat, m >= 1,
         StarFree(p, m), StarFree(s, 1)
  PROVE  StarFree(p \o s, m)
<1>1. PICK k \in Nat, l \in Nat : k = Len(p) /\ l = Len(s)
  OBVIOUS
<1>2. /\ Len(p \o s) = k + l
      /\ \A i \in 1..(k + l) : (p \o s)[i] = IF i <= k THEN p[i] ELSE s[i - k]
  BY <1>1, ConcatProperties
<1>3. ASSUME NEW i \in m..(k + l) PROVE (p \o s)[i] # Star
  <2>1. i \in 1..(k + l)
    OBVIOUS
  <2>2. CASE i <= k
    <3>1. i \in m..k
      BY <2>2
    <3>2. p[i] # Star
      BY <1>1, <3>1 DEF StarFree
    <3> QED  BY <1>2, <2>1, <2>2, <3>2
  <2>3. CASE ~(i <= k)
    <3>1. i - k \in 1..l
      BY <2>1, <2>3
    <3>2. s[i - k] # Star
      BY <1>1, <3>1 DEF StarFree
    <3> QED  BY <1>2, <2>1, <2>3, <3>2
  <2> QED  BY <2>2, <2>3
<1> QED  BY <1>2, <1>3 DEF StarFree

LEMMA StarFreeBoth ==
  ASSUME NEW p \in Seq(Byte), NEW s \in Seq(Byte), StarFree(p, 1), StarFree(s, 1)
  PROVE  p \o s \in Seq(Byte) /\ StarFree(p \o s, 1)
<1>1. p \o s \in Seq(Byte)
  BY BytesJoined
<1> QED  BY <1>1, StarFreeJoined

\* Digits and the ends of lines are no stars.
LEMMA NumberStarFree ==
  ASSUME NEW n \in Nat
  PROVE  Decimal(n) \o LineEnd \in Seq(Byte) /\ StarFree(Decimal(n) \o LineEnd, 1)
<1>1. PICK d \in Seq(Byte) : d = Decimal(n) /\ \A i \in 1..Len(d) : d[i] \in Digits
  BY DecimalParsed DEF Numeric
<1>2. StarFree(d, 1)
  BY <1>1 DEF StarFree, Digits, Star
<1>3. LineEnd \in Seq(Byte) /\ StarFree(LineEnd, 1)
  BY LineEndIs DEF StarFree, Star, CR, LF
<1>4. d \o LineEnd \in Seq(Byte) /\ StarFree(d \o LineEnd, 1)
  BY <1>2, <1>3, StarFreeBoth
<1> QED  BY <1>1, <1>4

\* A star in p \o s is in s if p has none, and in p if s has none.
LEMMA StarBehind ==
  ASSUME NEW p \in Seq(Byte), NEW s \in Seq(Byte), StarFree(p, 1),
         NEW q \in 1..Len(p \o s), (p \o s)[q] = Star
  PROVE  \E r \in 1..Len(s) : q = Len(p) + r /\ s[r] = Star
<1>1. PICK k \in Nat, l \in Nat : k = Len(p) /\ l = Len(s)
  OBVIOUS
<1>2. /\ Len(p \o s) = k + l
      /\ \A i \in 1..(k + l) : (p \o s)[i] = IF i <= k THEN p[i] ELSE s[i - k]
  BY <1>1, ConcatProperties
<1>3. q \in 1..(k + l)
  BY <1>2
<1>4. ~(q <= k)
  <2> SUFFICES ASSUME q <= k  PROVE FALSE
    OBVIOUS
  <2>1. q \in 1..k /\ p[q] = Star
    BY <1>2, <1>3
  <2> QED  BY <1>1, <2>1 DEF StarFree
<1>5. q - k \in 1..l /\ q = k + (q - k) /\ s[q - k] = Star
  BY <1>2, <1>3, <1>4
<1> QED  BY <1>1, <1>5

LEMMA StarBefore ==
  ASSUME NEW p \in Seq(Byte), NEW s \in Seq(Byte), StarFree(s, 1),
         NEW q \in 1..Len(p \o s), (p \o s)[q] = Star
  PROVE  q \in 1..Len(p) /\ p[q] = Star
<1>1. PICK k \in Nat, l \in Nat : k = Len(p) /\ l = Len(s)
  OBVIOUS
<1>2. /\ Len(p \o s) = k + l
      /\ \A i \in 1..(k + l) : (p \o s)[i] = IF i <= k THEN p[i] ELSE s[i - k]
  BY <1>1, ConcatProperties
<1>3. q \in 1..(k + l)
  BY <1>2
<1>4. q <= k
  <2> SUFFICES ASSUME ~(q <= k)  PROVE FALSE
    OBVIOUS
  <2>1. q - k \in 1..l /\ s[q - k] = Star
    BY <1>2, <1>3
  <2> QED  BY <1>1, <2>1 DEF StarFree
<1> QED  BY <1>1, <1>2, <1>3, <1>4

\* Every star of a bulk string is in its word.
LEMMA BulkStars ==
  ASSUME NEW w \in Seq(Byte)
  PROVE  LET s == BulkString(w)
         IN  /\ s \in Seq(Byte)
             /\ \A q \in 1..Len(s) : s[q] = Star =>
                  q \in (Len(s) - 1 - Len(w))..(Len(s) - 2)
<1>1. PICK p \in Seq(Byte) : p = One(Dollar) /\ Len(p) = 1 /\ p[1] = Dollar
  BY Single DEF Dollar, Byte
<1>2. StarFree(p, 1)
  BY <1>1 DEF StarFree, Dollar, Star
<1>3. PICK l \in Seq(Byte) : l = Decimal(Len(w)) \o LineEnd /\ StarFree(l, 1)
  <2>1. Len(w) \in Nat
    OBVIOUS
  <2> QED  BY <2>1, NumberStarFree
<1>4. PICK z \in Seq(Byte) : z = LineEnd /\ StarFree(z, 1) /\ Len(z) = 2
  BY LineEndIs DEF StarFree, Star, CR, LF
<1>5. PICK e \in Seq(Byte) : e = w \o z
  BY BytesJoined
<1>6. PICK r \in Seq(Byte) : r = l \o e
  BY BytesJoined
<1>7. PICK s \in Seq(Byte) : s = p \o r
  BY BytesJoined
<1>8. BulkString(w) = s
  BY <1>1, <1>3, <1>4, <1>5, <1>6, <1>7, BulkIs
<1>9. PICK a \in Nat, b \in Nat : a = Len(l) /\ b = Len(w)
  OBVIOUS
<1>10. Len(e) = b + 2 /\ Len(r) = a + Len(e) /\ Len(s) = 1 + Len(r)
  <2>1. Len(e) = Len(w) + Len(z)
    BY <1>5, ConcatProperties
  <2>2. Len(r) = Len(l) + Len(e)
    BY <1>6, ConcatProperties
  <2>3. Len(s) = Len(p) + Len(r)
    BY <1>7, ConcatProperties
  <2> QED  BY <1>1, <1>4, <1>9, <2>1, <2>2, <2>3
<1>11. ASSUME NEW q \in 1..Len(s), s[q] = Star
       PROVE  q \in (Len(s) - 1 - Len(w))..(Len(s) - 2)
  <2>1. PICK i \in 1..Len(r) : q = Len(p) + i /\ r[i] = Star
    BY <1>2, <1>7, <1>11, StarBehind
  <2>2. PICK j \in 1..Len(e) : i = Len(l) + j /\ e[j] = Star
    BY <1>3, <1>6, <2>1, StarBehind
  <2>3. j \in 1..Len(w)
    BY <1>4, <1>5, <2>2, StarBefore
  <2>4. q = 1 + (a + j) /\ j \in 1..b /\ Len(s) = 1 + (a + (b + 2)) /\ j \in Nat
    BY <1>1, <1>9, <1>10, <2>1, <2>2, <2>3
  <2>5. q \in (Len(s) - 1 - b)..(Len(s) - 2)
    BY ONLY <2>4, a \in Nat, b \in Nat
  <2> QED  BY <1>9, <2>5
<1> QED  BY <1>8, <1>11

\* Of the bytes of a command, only the first and those of its words may be stars.
LEMMA StarsInWords ==
  ASSUME NEW c \in Seq(Seq(Byte)), NEW q \in 2..Len(Bytes(c)), Bytes(c)[q] = Star
  PROVE  InWord(c, q)
<1>1. PICK k \in Nat : k = Len(c)
  OBVIOUS
<1>2. /\ Beginnings(c) \in [0..k -> Seq(Byte)] /\ Beginnings(c)[0] = Line(Star, k)
      /\ \A i \in 1..k : Beginnings(c)[i] = Beginnings(c)[i - 1] \o BulkString(c[i])
  BY <1>1, BeginningsAre
<1> DEFINE Good(i) == \A n \in 2..Len(Beginnings(c)[i]) : Beginnings(c)[i][n] = Star => InWord(c, n)
           T == {i \in 0..k : Good(i)}
<1>3. 0 \in T
  <2>1. PICK p \in Seq(Byte) : p = One(Star) /\ Len(p) = 1
    BY Single DEF Star, Byte
  <2>2. PICK l \in Seq(Byte) : l = Decimal(k) \o LineEnd /\ StarFree(l, 1)
    BY NumberStarFree
  <2>3. StarFree(p, 2)
    BY <2>1 DEF StarFree
  <2> HIDE DEF T
  <2>4. StarFree(p \o l, 2)
    <3>1. 2 \in Nat /\ 2 >= 1
      OBVIOUS
    <3>2. StarFree(p, 2) /\ StarFree(l, 1)
      BY <2>2, <2>3
    <3> QED  BY ONLY p \in Seq(Byte), l \in Seq(Byte), <3>1, <3>2, StarFreeJoined
  <2>5. Line(Star, k) = p \o l
    <3>1. Star \in Byte
      BY DEF Star, Byte
    <3>2. Line(Star, k) = One(Star) \o (Decimal(k) \o LineEnd)
      BY <3>1, LineIs
    <3> QED  BY <2>1, <2>2, <3>2
  <2>6. Good(0)
    BY <1>2, <2>4, <2>5 DEF StarFree
  <2> HIDE DEF Good
  <2>7. 0 \in 0..k
    OBVIOUS
  <2> QED  BY <2>6, <2>7 DEF T
<1>4. ASSUME NEW i \in 1..k, i - 1 \in T PROVE i \in T
  <2>1. i - 1 \in 0..k /\ i \in 0..k /\ Good(i - 1)
    BY <1>4
  <2>2. PICK b \in Seq(Byte), m \in Nat : b = Beginnings(c)[i - 1] /\ m = Len(b)
    BY <1>2, <2>1
  <2>3. PICK w \in Seq(Byte), v \in Nat : w = c[i] /\ v = Len(w)
    BY <1>1
  <2>4. PICK s \in Seq(Byte), h \in Nat : s = BulkString(w) /\ h = Len(s)
    BY BulkStars
  <2>5. Beginnings(c)[i] = b \o s
    BY <1>2, <2>2, <2>3, <2>4
  <2>6. /\ Len(b \o s) = m + h
        /\ \A n \in 1..(m + h) : (b \o s)[n] = IF n <= m THEN b[n] ELSE s[n - m]
    BY <2>2, <2>4, ConcatProperties
  <2>7. ASSUME NEW n \in 2..(m + h), (b \o s)[n] = Star  PROVE InWord(c, n)
    <3>1. n \in 1..(m + h) /\ n \in Nat
      BY ONLY n \in 2..(m + h), m \in Nat, h \in Nat
    <3>2. CASE n <= m
      <4>1. n \in 2..m
        BY ONLY <3>2, n \in 2..(m + h), m \in Nat, h \in Nat
      <4>2. b[n] = Star
        BY <2>6, <2>7, <3>1, <3>2
      <4> QED  BY <2>1, <2>2, <4>1, <4>2
    <3>3. CASE ~(n <= m)
      <4>1. n - m \in 1..h /\ s[n - m] = Star
        BY <2>6, <2>7, <3>1, <3>3
      <4>2. n - m \in (h - 1 - v)..(h - 2)
        BY <2>3, <2>4, <4>1, BulkStars
      <4>3. n \in ((m + h) - 1 - v)..((m + h) - 2)
        BY ONLY <3>1, <4>2, m \in Nat, h \in Nat, v \in Nat
      <4>4. Len(Beginnings(c)[i]) = m + h /\ Len(c[i]) = v /\ i \in 1..Len(c)
        BY <1>1, <2>3, <2>5, <2>6
      <4> QED  BY <4>3, <4>4 DEF InWord
    <3> QED  BY <3>2, <3>3
  <2>8. Good(i)
    BY <2>5, <2>6, <2>7
  <2> QED  BY <2>1, <2>8
<1>5. Good(k)
  <2> HIDE DEF T, Good
  <2>1. 0..k \subseteq T
    BY <1>3, <1>4, UpTo
  <2>2. k \in T
    BY <2>1
  <2> QED  BY <2>2 DEF T
<1> QED  BY <1>1, <1>5 DEF Bytes

\* Without a star, nothing is parsed.
LEMMA NothingRead ==
  ASSUME NEW buf \in Seq(Byte), buf # << >> => buf[1] # Star
  PROVE  Parsed(buf) = None
BY DEF Parsed, parse_command

\* A read that is parsed, and does not begin where a command does, begins in a word.
LEMMA InvElsewhere ==
  ASSUME RespInv, last # None, last.parsed # None,
         \A i \in 1..Len(sent) : Starts(i) # last.from
  PROVE  \E i \in 1..Len(sent) : InWord(sent[i], last.from + 1 - Starts(i))
<1>1. PICK all : /\ Laid(all, sent)
                 /\ \E f \in 0..Len(all) : \E u \in f..Len(all) :
                      last = [from |-> f, upto |-> u, parsed |-> Parsed(SubSeq(all, f + 1, u))]
  BY DEF RespInv
<1>2. PICK m \in Nat : m = Len(all) /\ all \in Seq(Byte) /\ sent \in Seq(Commands)
  BY <1>1 DEF Laid
<1>3. PICK f \in 0..m : \E u \in f..m :
        last = [from |-> f, upto |-> u, parsed |-> Parsed(SubSeq(all, f + 1, u))]
  BY <1>1, <1>2
<1>4. PICK u \in f..m : last = [from |-> f, upto |-> u, parsed |-> Parsed(SubSeq(all, f + 1, u))]
  BY <1>3
<1>5. f \in Nat /\ u \in Nat /\ f <= u /\ u <= m
  BY ONLY f \in 0..m, u \in f..m, m \in Nat
<1>6. PICK buf \in Seq(Byte), N \in Nat : /\ buf = SubSeq(all, f + 1, u) /\ N = Len(buf) /\ N = u - f
                                          /\ \A j \in 1..N : buf[j] = all[f + j]
  <2>1. PICK h \in Nat : h = u - f
    BY <1>5
  <2>2. /\ SubSeq(all, f + 1, u) \in Seq(Byte) /\ Len(SubSeq(all, f + 1, u)) = u - f
        /\ \A j \in 1..(u - f) : SubSeq(all, f + 1, u)[j] = all[f + j]
    BY <1>2, <1>5, PartOf
  <2> QED  BY <2>1, <2>2
<1>7. last.from = f /\ last.parsed = Parsed(buf)
  BY <1>4, <1>6
<1>8. buf # << >> /\ buf[1] = Star
  BY <1>7, NothingRead
<1>9. 1 <= N /\ 1 \in 1..N /\ f + 1 \in 1..m
  <2>1. N # 0
    BY <1>6, <1>8, EmptySeq
  <2> QED  BY ONLY <1>5, <1>6, <2>1, N \in Nat, m \in Nat
<1>10. all[f + 1] = Star
  BY <1>6, <1>8, <1>9
<1>11. PICK i \in 1..Len(sent) : EndsOf(sent)[i - 1] < f + 1 /\ f + 1 <= EndsOf(sent)[i]
  BY <1>1, <1>2, <1>9 DEF Laid
<1>12. PICK c \in Commands : c = sent[i]
  BY <1>2
<1>13. PICK b \in Seq(Byte), e \in Nat : b = Bytes(c) /\ e = Len(b)
  BY CommandType
<1>14. PICK o \in Nat : o = EndsOf(sent)[i - 1]
  <2>1. PICK n \in Nat : n = Len(sent)
    BY <1>2
  <2>2. i - 1 \in 0..n
    BY <2>1
  <2>3. EndsOf(sent)[i - 1] \in 0..m
    BY <1>1, <1>2, <2>1, <2>2 DEF Laid
  <2> QED  BY <2>3
<1>15. EndsOf(sent)[i] = o + e /\ Stands(all, o, b)
  BY <1>1, <1>12, <1>13, <1>14 DEF Laid
<1>16. o # f
  BY <1>7, <1>14 DEF Starts
<1>17. PICK q \in 2..e : f + 1 = o + q
  <2>1. PICK q \in Int : q = (f + 1) - o
    BY <1>5
  <2>2. o < f + 1 /\ f + 1 <= o + e
    BY <1>11, <1>14, <1>15
  <2>3. q \in 2..e /\ f + 1 = o + q
    BY ONLY <1>5, <1>16, <2>1, <2>2, o \in Nat, e \in Nat, q \in Int
  <2> QED  BY <2>3
<1>18. all[f + 1] = b[q]
  <2>1. q \in 1..e
    BY ONLY q \in 2..e, e \in Nat
  <2> QED  BY <1>13, <1>15, <1>17, <2>1 DEF Stands
<1>19. InWord(c, q)
  <2>1. c \in Seq(Seq(Byte)) /\ q \in 2..Len(Bytes(c)) /\ Bytes(c)[q] = Star
    BY <1>10, <1>13, <1>17, <1>18, CommandType
  <2> QED  BY <2>1, StarsInWords
<1>20. q = last.from + 1 - Starts(i)
  <2>1. Starts(i) = o
    BY <1>14 DEF Starts
  <2> QED  BY ONLY <1>7, <1>17, <2>1, <1>5, o \in Nat, q \in 2..e, e \in Nat
<1> QED  BY <1>12, <1>19, <1>20

\* Whatever words a command has and wherever the reads cut what was sent: a read that
\* begins with a command is parsed as that command once all of it is there, whatever
\* follows it, and as nothing before; any other read is parsed as something only if it
\* begins inside a word.
THEOREM WholeCommandsOnly == RespSpec => []FirstWholeCommand
<1>1. RespInv => FirstWholeCommand
  <2> SUFFICES ASSUME RespInv, last # None  PROVE FirstWholeCommand
    BY DEF FirstWholeCommand
  <2>1. \A i \in 1..Len(sent) : Starts(i) = last.from =>
          last.parsed = IF Starts(i + 1) <= last.upto THEN Normal(sent[i]) ELSE None
    BY InvStarts DEF StartIsCommand
  <2>2. last.parsed # None =>
          \E i \in 1..Len(sent) : \/ Starts(i) = last.from
                                  \/ InWord(sent[i], last.from + 1 - Starts(i))
    BY InvElsewhere
  <2> QED  BY <2>1, <2>2 DEF FirstWholeCommand
<1> QED  BY <1>1, ReadsFollow, PTL

=============================================================================
