---------------------------- MODULE ListpackProofs ----------------------------
(***************************************************************************)
(* A listpack gives back what was put into it, proved for every sequence   *)
(* of byte strings.  Recursive definitions are unfolded by induction over  *)
(* sets of numbers, which rests on the well-foundedness of <.              *)
(***************************************************************************)
EXTENDS Listpack, SequenceTheorems, WellFoundedInduction, TLAPS

-----------------------------------------------------------------------------
(* Induction and recursion.                                                *)

\* Numbers that are not none have a least one.
LEMMA LeastOf ==
  ASSUME NEW T \in SUBSET Nat, T # {}
  PROVE  \E i \in T : \A j \in T : i <= j
<1> DEFINE R == OpToRel(<, Nat)
<1>1. IsWellFoundedOn(R, Nat)
  BY NatLessThanWellFounded
<1>2. PICK i \in T : \A j \in T : <<j, i>> \notin R
  <2> HIDE DEF R
  <2> QED  BY <1>1, WFMin
<1>3. \A j \in T : ~(j < i)
  BY <1>2 DEF OpToRel
<1>4. \A j \in T : i <= j
  BY <1>3
<1> QED  BY <1>4

LEMMA Induction ==
  ASSUME NEW S, 0 \in S, \A n \in Nat : n \in S => n + 1 \in S
  PROVE  Nat \subseteq S
<1> DEFINE T == Nat \ S
<1> SUFFICES ASSUME T # {} PROVE FALSE
  OBVIOUS
<1>1. PICK x \in T : \A y \in T : x <= y
  BY LeastOf
<1>2. x # 0 /\ x - 1 \in Nat /\ x - 1 \notin T
  BY <1>1
<1>3. (x - 1) + 1 \in S /\ (x - 1) + 1 = x
  BY <1>2
<1> QED  BY <1>3

LEMMA UpTo ==
  ASSUME NEW n \in Nat, NEW T, 0 \in T, \A i \in 1..n : i - 1 \in T => i \in T
  PROVE  0..n \subseteq T
<1> DEFINE S == {i \in Nat : i <= n => i \in T}
<1>1. 0 \in S
  OBVIOUS
<1>2. ASSUME NEW i \in Nat, i \in S  PROVE i + 1 \in S
  <2>1. i + 1 <= n => (i + 1) - 1 \in T /\ i + 1 \in 1..n
    BY <1>2
  <2> QED  BY <2>1
<1> HIDE DEF S
<1>3. Nat \subseteq S
  BY <1>1, <1>2, Induction
<1> QED  BY <1>3 DEF S

StepOn(G, S, n) == n \in Nat /\ G \in [1..n -> [S -> S]]

Iterates(f, G, S, a, n) ==
  f \in [0..n -> S] /\ f[0] = a /\ \A i \in 1..n : f[i] = G[i][f[i - 1]]

\* There is a function on 0..n that starts with a and goes on by G.
LEMMA Recursion ==
  ASSUME NEW G, NEW S, NEW n, StepOn(G, S, n), NEW a \in S
  PROVE  \E f : Iterates(f, G, S, a, n)
<1> n \in Nat /\ G \in [1..n -> [S -> S]]
  BY DEF StepOn
<1> DEFINE Upto(m, f) == f[0] = a /\ \A i \in 1..m : f[i] = G[i][f[i - 1]]
           Good == {m \in Nat : m <= n => \E f \in [0..m -> S] : Upto(m, f)}
<1>1. 0 \in Good
  <2> DEFINE f == [i \in 0..0 |-> a]
  <2>1. f \in [0..0 -> S] /\ Upto(0, f)
    OBVIOUS
  <2> QED  BY <2>1
<1>2. ASSUME NEW m \in Nat, m \in Good PROVE m + 1 \in Good
  <2> SUFFICES ASSUME m + 1 <= n PROVE \E f \in [0..(m + 1) -> S] : Upto(m + 1, f)
    OBVIOUS
  <2>1. PICK f \in [0..m -> S] : Upto(m, f)
    BY <1>2
  <2> DEFINE g == [i \in 0..(m + 1) |-> IF i = m + 1 THEN G[m + 1][f[m]] ELSE f[i]]
  <2>2. f[m] \in S /\ m + 1 \in 1..n
    OBVIOUS
  <2>3. G[m + 1][f[m]] \in S
    BY <2>2
  <2>4. g \in [0..(m + 1) -> S] /\ g[0] = a
    BY <2>1, <2>3
  <2>5. ASSUME NEW i \in 1..(m + 1) PROVE g[i] = G[i][g[i - 1]]
    <3>1. g[i - 1] = f[i - 1]
      OBVIOUS
    <3>2. CASE i = m + 1
      <4>1. g[i] = G[m + 1][f[m]] /\ i - 1 = m
        BY <3>2
      <4> QED  BY <4>1, <3>1, <3>2
    <3>3. CASE i # m + 1
      <4>1. i \in 1..m /\ g[i] = f[i]
        BY <3>3
      <4> QED  BY <4>1, <3>1, <2>1
    <3> QED  BY <3>2, <3>3
  <2> HIDE DEF g
  <2> QED  BY <2>4, <2>5
<1> HIDE DEF Good
<1>3. n \in Good
  BY <1>1, <1>2, Induction
<1> QED  BY <1>3 DEF Good, Iterates

-----------------------------------------------------------------------------
(* Numbers of eight bytes.                                                 *)

Word64 == [1..8 -> Byte]
Whole  == Nat

Four(a, b, c, d, x) == a + 256 * (b + 256 * (c + 256 * (d + 256 * x)))

\* The number of the bytes of v, and x behind them.
Carried(v, x) == Four(v[1], v[2], v[3], v[4], Four(v[5], v[6], v[7], v[8], x))

Val(v) == Carried(v, 0)

\* Four bytes of n, and what is behind them.
Digit(n, k) ==
  CASE k = 1 -> n % 256
    [] k = 2 -> (n \div 256) % 256
    [] k = 3 -> ((n \div 256) \div 256) % 256
    [] k = 4 -> (((n \div 256) \div 256) \div 256) % 256
    [] k = 5 -> (((n \div 256) \div 256) \div 256) \div 256

Parted(n) == [i \in 1..8 |-> IF i <= 4 THEN Digit(n, i) ELSE Digit(Digit(n, 5), i - 4)]

LEMMA Parts ==
  ASSUME NEW n \in Nat
  PROVE  /\ n \div 256 \in Nat /\ n % 256 \in Byte
         /\ n = 256 * (n \div 256) + (n % 256)
BY SMTT(30) DEF Byte

LEMMA FourType ==
  ASSUME NEW a \in Byte, NEW b \in Byte, NEW c \in Byte, NEW d \in Byte, NEW x \in Whole
  PROVE  Four(a, b, c, d, x) \in Whole
BY DEF Four, Byte, Whole

LEMMA FourParts ==
  ASSUME NEW a \in Byte, NEW b \in Byte, NEW c \in Byte, NEW d \in Byte, NEW x \in Whole
  PROVE  LET n == Four(a, b, c, d, x)
         IN  /\ Digit(n, 1) = a /\ Digit(n, 2) = b /\ Digit(n, 3) = c /\ Digit(n, 4) = d
             /\ Digit(n, 5) = x
<1>1. a \in 0..255 /\ b \in 0..255 /\ c \in 0..255 /\ d \in 0..255 /\ x \in Nat
  BY DEF Byte, Whole
<1>2. PICK x3 \in Nat : x3 = d + 256 * x
  BY <1>1
<1>3. PICK x2 \in Nat : x2 = c + 256 * x3
  BY <1>1
<1>4. PICK x1 \in Nat : x1 = b + 256 * x2
  BY <1>1
<1>5. PICK n \in Nat : n = a + 256 * x1
  BY <1>1
<1>6. n = Four(a, b, c, d, x)
  BY <1>2, <1>3, <1>4, <1>5 DEF Four
<1>7. n % 256 = a /\ n \div 256 = x1
  BY <1>1, <1>5
<1>8. x1 % 256 = b /\ x1 \div 256 = x2
  BY <1>1, <1>4
<1>9. x2 % 256 = c /\ x2 \div 256 = x3
  BY <1>1, <1>3
<1>10. x3 % 256 = d /\ x3 \div 256 = x
  BY <1>1, <1>2
<1>11. Digit(n, 1) = a /\ Digit(n, 2) = b /\ Digit(n, 3) = c /\ Digit(n, 4) = d /\ Digit(n, 5) = x
  BY <1>7, <1>8, <1>9, <1>10 DEF Digit
<1> QED  BY <1>6, <1>11

LEMMA BytesOf ==
  ASSUME NEW v \in Word64
  PROVE  /\ v[1] \in Byte /\ v[2] \in Byte /\ v[3] \in Byte /\ v[4] \in Byte
         /\ v[5] \in Byte /\ v[6] \in Byte /\ v[7] \in Byte /\ v[8] \in Byte
BY DEF Word64

\* A number has one sequence of bytes.
LEMMA CarriedParts ==
  ASSUME NEW v \in Word64, NEW x \in Whole
  PROVE  v = Parted(Carried(v, x)) /\ x = Digit(Digit(Carried(v, x), 5), 5)
<1> DEFINE h == Four(v[5], v[6], v[7], v[8], x)
           n == Four(v[1], v[2], v[3], v[4], h)
<1>1. /\ Digit(h, 1) = v[5] /\ Digit(h, 2) = v[6] /\ Digit(h, 3) = v[7] /\ Digit(h, 4) = v[8]
      /\ Digit(h, 5) = x
  BY BytesOf, FourParts
<1>2. h \in Whole
  BY BytesOf, FourType
<1> HIDE DEF h
<1>3. /\ Digit(n, 1) = v[1] /\ Digit(n, 2) = v[2] /\ Digit(n, 3) = v[3] /\ Digit(n, 4) = v[4]
      /\ Digit(n, 5) = h
  BY <1>2, BytesOf, FourParts
<1>4. n = Carried(v, x)
  BY DEF Carried, h
<1> HIDE DEF n
<1>5. \A i \in 1..8 : v[i] = Parted(n)[i]
  <2> TAKE i \in 1..8
  <2>1. i = 1 \/ i = 2 \/ i = 3 \/ i = 4 \/ i = 5 \/ i = 6 \/ i = 7 \/ i = 8
    OBVIOUS
  <2> QED  BY <1>1, <1>3, <2>1 DEF Parted
<1>6. v = Parted(n)
  BY <1>5 DEF Word64, Parted
<1> QED  BY <1>1, <1>3, <1>4, <1>6

LEMMA ValUnique ==
  ASSUME NEW v \in Word64, NEW w \in Word64, Val(v) = Val(w)
  PROVE  v = w
<1>1. 0 \in Whole
  BY DEF Whole
<1>2. v = Parted(Val(v)) /\ w = Parted(Val(w))
  BY <1>1, CarriedParts DEF Val
<1> QED  BY <1>2

LEMMA WordInts ==
  ASSUME NEW v \in Word64
  PROVE  v \in [1..8 -> Int] /\ \A i \in 1..8 : v[i] \in 0..255
BY DEF Word64, Byte

LEMMA WordOf ==
  ASSUME NEW f, f = [i \in 1..8 |-> f[i]], \A i \in 1..8 : f[i] \in 0..255
  PROVE  f \in Word64
BY DEF Word64, Byte

LEMMA ValType ==
  ASSUME NEW v \in Word64
  PROVE  Val(v) \in Nat
<1>1. 0 \in Whole
  BY DEF Whole
<1>2. Four(v[5], v[6], v[7], v[8], 0) \in Whole
  BY <1>1, BytesOf, FourType
<1>3. Val(v) \in Whole
  BY <1>2, BytesOf, FourType DEF Val, Carried
<1> QED  BY <1>3 DEF Whole

-----------------------------------------------------------------------------
(* Ten times a number and a digit more.                                    *)

\* The carries of the multiplication.
TenCarry(v, d) ==
  LET carry[i \in 0..8] == IF i = 0 THEN d ELSE (10 * v[i] + carry[i - 1]) \div 256
  IN  carry

LEMMA TenCarryIs ==
  ASSUME NEW v \in Word64, NEW d \in Nat
  PROVE  /\ TenCarry(v, d) \in [0..8 -> Nat] /\ TenCarry(v, d)[0] = d
         /\ \A i \in 1..8 : TenCarry(v, d)[i] = (10 * v[i] + TenCarry(v, d)[i - 1]) \div 256
<1>1. ASSUME NEW c \in Nat, NEW i \in 1..8
      PROVE  10 * v[i] + c \in Nat /\ (10 * v[i] + c) \div 256 \in Nat
  <2>1. PICK b \in 0..255 : b = v[i]
    BY WordInts
  <2>2. 10 * b + c \in Nat
    OBVIOUS
  <2> QED  BY <2>1, <2>2, Parts
<1> DEFINE G == [i \in 1..8 |-> [c \in Nat |-> (10 * v[i] + c) \div 256]]
<1>2. /\ G \in [1..8 -> [Nat -> Nat]]
      /\ \A i \in 1..8 : \A c \in Nat : G[i][c] = (10 * v[i] + c) \div 256
  BY <1>1
<1> HIDE DEF G
<1>3. PICK f \in [0..8 -> Nat] : f[0] = d /\ \A i \in 1..8 : f[i] = G[i][f[i - 1]]
  <2>1. StepOn(G, Nat, 8) /\ d \in Nat
    BY <1>2 DEF StepOn
  <2>2. PICK f : Iterates(f, G, Nat, d, 8)
    BY <2>1, Recursion
  <2> QED  BY <2>2 DEF Iterates
<1>4. \A i \in 1..8 : f[i] = (10 * v[i] + f[i - 1]) \div 256
  <2> TAKE i \in 1..8
  <2>1. PICK x \in Nat : x = f[i - 1]
    OBVIOUS
  <2>2. f[i] = G[i][x] /\ G[i][x] = (10 * v[i] + x) \div 256
    BY ZenonT(60), <1>2, <1>3, <2>1
  <2> QED  BY <2>1, <2>2
<1> DEFINE Is(c) == c = [i \in 0..8 |-> IF i = 0 THEN d ELSE (10 * v[i] + c[i - 1]) \div 256]
<1>5. Is(f)
  BY <1>3, <1>4
<1> DEFINE c == TenCarry(v, d)
<1>6. c = CHOOSE g : Is(g)
  BY DEF TenCarry
<1> HIDE DEF c, Is
<1>6a. Is(c)
  BY <1>5, <1>6
<1>7. c = [i \in 0..8 |-> IF i = 0 THEN d ELSE (10 * v[i] + c[i - 1]) \div 256]
  BY <1>6a DEF Is
<1>8. c[0] = d /\ \A i \in 1..8 : c[i] = (10 * v[i] + c[i - 1]) \div 256
  BY <1>7
<1>9. ASSUME NEW i \in 1..8, c[i - 1] \in Nat  PROVE c[i] \in Nat
  <2>1. PICK x \in Nat : x = c[i - 1]
    BY <1>9
  <2>2. (10 * v[i] + x) \div 256 \in Nat
    BY <1>1
  <2> QED  BY <2>1, <2>2, <1>8
<1> DEFINE T == {i \in 0..8 : c[i] \in Nat}
<1>10. 0 \in T /\ \A i \in 1..8 : i - 1 \in T => i \in T
  BY <1>8, <1>9
<1>11. 0..8 \subseteq T
  <2> HIDE DEF T
  <2> QED  BY <1>10, UpTo
<1>12. c \in [0..8 -> Nat]
  BY <1>7, <1>11
<1> QED  BY <1>8, <1>12 DEF c

LEMMA TenSum ==
  ASSUME NEW v \in [1..8 -> Int], NEW w \in [1..8 -> Int], NEW c \in [0..8 -> Int],
         \A i \in 1..8 : 10 * v[i] + c[i - 1] = 256 * c[i] + w[i]
  PROVE  10 * Carried(v, 0) + c[0] = Carried(w, c[8])
<1>1. /\ 10 * v[1] + c[0] = 256 * c[1] + w[1]
      /\ 10 * v[2] + c[1] = 256 * c[2] + w[2]
      /\ 10 * v[3] + c[2] = 256 * c[3] + w[3]
      /\ 10 * v[4] + c[3] = 256 * c[4] + w[4]
      /\ 10 * v[5] + c[4] = 256 * c[5] + w[5]
      /\ 10 * v[6] + c[5] = 256 * c[6] + w[6]
      /\ 10 * v[7] + c[6] = 256 * c[7] + w[7]
      /\ 10 * v[8] + c[7] = 256 * c[8] + w[8]
  OBVIOUS
<1>2. PICK h \in Int : h = Four(v[5], v[6], v[7], v[8], 0)
  BY DEF Four
<1>3. PICK g \in Int : g = 10 * h + c[4]
  OBVIOUS
<1>4. g = Four(w[5], w[6], w[7], w[8], c[8])
  BY <1>1, <1>2, <1>3 DEF Four
<1>5. 10 * Four(v[1], v[2], v[3], v[4], h) + c[0] = Four(w[1], w[2], w[3], w[4], g)
  BY <1>1, <1>3 DEF Four
<1> QED  BY <1>2, <1>4, <1>5 DEF Carried

\* What checked_mul and checked_add give, unless they overflow.
LEMMA TimesTen ==
  ASSUME NEW v \in Word64, NEW d \in Nat, TimesTenPlus(v, d) # None
  PROVE  TimesTenPlus(v, d) \in Word64 /\ Val(TimesTenPlus(v, d)) = 10 * Val(v) + d
<1> DEFINE c == TenCarry(v, d)
           w == [i \in 1..8 |-> (10 * v[i] + c[i - 1]) % 256]
<1>1. TimesTenPlus(v, d) = IF c[8] # 0 THEN None ELSE w
  BY Zenon DEF TimesTenPlus, Rippled, Carry, TenCarry
<1>2. /\ c \in [0..8 -> Nat] /\ c[0] = d
      /\ \A i \in 1..8 : c[i] = (10 * v[i] + c[i - 1]) \div 256
  BY TenCarryIs
<1> HIDE DEF c
<1>3. \A i \in 1..8 : w[i] \in Byte /\ 10 * v[i] + c[i - 1] = 256 * c[i] + w[i]
  <2> TAKE i \in 1..8
  <2>1. 10 * v[i] + c[i - 1] \in Nat
    BY <1>2, WordInts
  <2>2. w[i] = (10 * v[i] + c[i - 1]) % 256
    OBVIOUS
  <2> QED  BY <1>2, <2>1, <2>2, Parts
<1> HIDE DEF w
<1>4. w \in Word64
  BY <1>3 DEF w, Word64
<1>5. v \in [1..8 -> Int] /\ w \in [1..8 -> Int] /\ c \in [0..8 -> Int]
  BY <1>2, <1>4, WordInts
<1>6. 10 * Carried(v, 0) + c[0] = Carried(w, c[8])
  BY <1>3, <1>5, TenSum
<1> QED  BY <1>1, <1>2, <1>4, <1>6 DEF Val

-----------------------------------------------------------------------------
(* A tenth of a number, and the digit that is left.                        *)

LEMMA PartsTen ==
  ASSUME NEW n \in Nat
  PROVE  n \div 10 \in Nat /\ n % 10 \in 0..9 /\ n = 10 * (n \div 10) + (n % 10)
BY SMTT(30)

LEMMA RemaindersIs ==
  ASSUME NEW v \in Word64
  PROVE  /\ Remainders(v) \in [0..8 -> Int] /\ Remainders(v)[0] = 0
         /\ \A i \in 0..8 : Remainders(v)[i] \in 0..9
         /\ \A i \in 1..8 : Remainders(v)[i] = (256 * Remainders(v)[i - 1] + v[9 - i]) % 10
<1>1. ASSUME NEW r \in 0..9, NEW i \in 1..8
      PROVE  (256 * r + v[9 - i]) % 10 \in 0..9
  <2>1. 9 - i \in 1..8
    OBVIOUS
  <2>2. v[9 - i] \in 0..255
    BY <2>1, WordInts
  <2>3. PICK x \in 0..255 : x = v[9 - i]
    BY <2>2
  <2>4. 256 * r + x \in Nat
    OBVIOUS
  <2> QED  BY <2>3, <2>4, PartsTen
<1> DEFINE G == [i \in 1..8 |-> [r \in 0..9 |-> (256 * r + v[9 - i]) % 10]]
<1>2. G \in [1..8 -> [0..9 -> 0..9]]
  BY <1>1
<1>3. \A i \in 1..8 : \A r \in 0..9 : G[i][r] = (256 * r + v[9 - i]) % 10
  OBVIOUS
<1> HIDE DEF G
<1>4. PICK f \in [0..8 -> 0..9] : f[0] = 0 /\ \A i \in 1..8 : f[i] = G[i][f[i - 1]]
  <2>1. StepOn(G, 0..9, 8) /\ 0 \in 0..9
    BY <1>2 DEF StepOn
  <2>2. PICK f : Iterates(f, G, 0..9, 0, 8)
    BY <2>1, Recursion
  <2> QED  BY <2>2 DEF Iterates
<1>5. \A i \in 1..8 : f[i] = (256 * f[i - 1] + v[9 - i]) % 10
  <2> TAKE i \in 1..8
  <2>1. PICK x \in 0..9 : x = f[i - 1]
    OBVIOUS
  <2> QED  BY <2>1, <1>3, <1>4
<1> DEFINE Is(r) == r = [i \in 0..8 |-> IF i = 0 THEN 0 ELSE (256 * r[i - 1] + v[9 - i]) % 10]
<1>6. Is(f)
  <2>1. f = [i \in 0..8 |-> f[i]]
    BY ONLY f \in [0..8 -> 0..9]
  <2>2. \A i \in 0..8 : f[i] = IF i = 0 THEN 0 ELSE (256 * f[i - 1] + v[9 - i]) % 10
    BY <1>4, <1>5
  <2> QED  BY ONLY <2>1, <2>2
<1> DEFINE r == Remainders(v)
<1>7. r = CHOOSE g : Is(g)
  BY DEF Remainders
<1> HIDE DEF r, Is
<1>7a. Is(r)
  BY <1>6, <1>7
<1>8. r = [i \in 0..8 |-> IF i = 0 THEN 0 ELSE (256 * r[i - 1] + v[9 - i]) % 10]
  BY <1>7a DEF Is
<1>9. r[0] = 0 /\ \A i \in 1..8 : r[i] = (256 * r[i - 1] + v[9 - i]) % 10
  BY <1>8
<1> DEFINE T == {i \in 0..8 : r[i] \in 0..9}
<1>10. 0 \in T /\ \A i \in 1..8 : i - 1 \in T => i \in T
  <2>1. ASSUME NEW i \in 1..8, r[i - 1] \in 0..9  PROVE r[i] \in 0..9
    <3>1. PICK x \in 0..9 : x = r[i - 1]
      BY <2>1
    <3>2. (256 * x + v[9 - i]) % 10 \in 0..9
      BY <1>1
    <3> QED  BY <1>9, <3>1, <3>2
  <2> QED  BY <1>9, <2>1
<1>11. 0..8 \subseteq T
  <2> HIDE DEF T
  <2> QED  BY <1>10, UpTo
<1>12. r \in [0..8 -> Int] /\ \A i \in 0..8 : r[i] \in 0..9
  BY <1>8, <1>11
<1> QED  BY <1>9, <1>12 DEF r

\* One step of the division for each byte.
InTenths(v, q, r) ==
  r[0] = 0 /\ \A i \in 1..8 : 256 * r[8 - i] + v[i] = 10 * q[i] + r[9 - i]

LEMMA TenthSum ==
  ASSUME NEW v \in [1..8 -> Int], NEW q \in [1..8 -> Int], NEW r \in [0..8 -> Int],
         InTenths(v, q, r)
  PROVE  Val(v) = 10 * Val(q) + r[8]
<1>1. /\ 256 * r[7] + v[1] = 10 * q[1] + r[8]
      /\ 256 * r[6] + v[2] = 10 * q[2] + r[7]
      /\ 256 * r[5] + v[3] = 10 * q[3] + r[6]
      /\ 256 * r[4] + v[4] = 10 * q[4] + r[5]
      /\ 256 * r[3] + v[5] = 10 * q[5] + r[4]
      /\ 256 * r[2] + v[6] = 10 * q[6] + r[3]
      /\ 256 * r[1] + v[7] = 10 * q[7] + r[2]
      /\ 256 * r[0] + v[8] = 10 * q[8] + r[1] /\ r[0] = 0
  BY DEF InTenths
<1>2. PICK h \in Int : h = Four(v[5], v[6], v[7], v[8], 0)
  BY DEF Four
<1>3. PICK g \in Int : g = Four(q[5], q[6], q[7], q[8], 0)
  BY DEF Four
<1>4. h = 10 * g + r[4]
  BY <1>1, <1>2, <1>3 DEF Four
<1>5. Four(v[1], v[2], v[3], v[4], h) = 10 * Four(q[1], q[2], q[3], q[4], g) + r[8]
  BY <1>1, <1>4 DEF Four
<1> QED  BY <1>2, <1>3, <1>5 DEF Carried, Val

LEMMA Tenth ==
  ASSUME NEW v \in Word64
  PROVE  /\ DivTen(v).quot \in Word64 /\ DivTen(v).rem \in 0..9
         /\ Val(v) = 10 * Val(DivTen(v).quot) + DivTen(v).rem
<1> DEFINE r == Remainders(v)
           q == [i \in 1..8 |-> (256 * r[8 - i] + v[i]) \div 10]
<1>1. DivTen(v).quot = q /\ DivTen(v).rem = r[8]
  BY DEF DivTen
<1>2. /\ r \in [0..8 -> Int] /\ r[0] = 0 /\ \A i \in 0..8 : r[i] \in 0..9
      /\ \A i \in 1..8 : r[i] = (256 * r[i - 1] + v[9 - i]) % 10
  BY RemaindersIs
<1> HIDE DEF r
<1>3. ASSUME NEW i \in 1..8
      PROVE  q[i] \in 0..255 /\ 256 * r[8 - i] + v[i] = 10 * q[i] + r[9 - i]
  <2>0. PICK x \in 0..9 : x = r[8 - i]
    <3>1. 8 - i \in 0..8
      OBVIOUS
    <3> QED  BY <1>2, <3>1
  <2>1. PICK y \in 0..255 : y = v[i]
    BY WordInts
  <2>2. PICK n \in Nat : n = 256 * x + y
    OBVIOUS
  <2>3. n = 256 * r[8 - i] + v[i] /\ n <= 2559
    BY <2>0, <2>1, <2>2
  <2>4. r[9 - i] = n % 10
    <3>1. PICK j \in 1..8 : j = 9 - i /\ j - 1 = 8 - i /\ 9 - j = i
      OBVIOUS
    <3>2. r[j] = (256 * r[j - 1] + v[9 - j]) % 10
      BY <1>2
    <3> QED  BY <2>3, <3>1, <3>2
  <2>5. q[i] = n \div 10
    BY <2>3
  <2>6. n \div 10 \in 0..255
    BY <2>3
  <2>7. n = 10 * (n \div 10) + (n % 10)
    BY PartsTen
  <2> HIDE DEF q
  <2> QED  BY <2>3, <2>4, <2>5, <2>6, <2>7
<1> HIDE DEF q
<1>4. q \in Word64
  <2>1. q = [i \in 1..8 |-> q[i]]
    BY DEF q
  <2> QED  BY <1>3, <2>1, WordOf
<1>5. v \in [1..8 -> Int] /\ q \in [1..8 -> Int] /\ r \in [0..8 -> Int]
  BY <1>2, <1>4, WordInts
<1>6. Val(v) = 10 * Val(q) + r[8]
  <2>1. InTenths(v, q, r)
    BY <1>2, <1>3 DEF InTenths
  <2> QED  BY <1>5, <2>1, TenthSum
<1> QED  BY <1>1, <1>2, <1>4, <1>6

\* A tenth of ten times a number is that number.
LEMMA TenthOfTen ==
  ASSUME NEW v \in Word64, NEW d \in 0..9, TimesTenPlus(v, d) # None
  PROVE  DivTen(TimesTenPlus(v, d)).quot = v /\ DivTen(TimesTenPlus(v, d)).rem = d
<1> DEFINE w == TimesTenPlus(v, d)
           q == DivTen(w).quot
<1>1. w \in Word64 /\ Val(w) = 10 * Val(v) + d
  BY TimesTen
<1>2. PICK e \in 0..9 : e = DivTen(w).rem
  BY <1>1, Tenth
<1>3. q \in Word64 /\ Val(w) = 10 * Val(q) + e
  BY <1>1, <1>2, Tenth
<1> HIDE DEF w, q
<1>4. PICK x \in Nat, y \in Nat : x = Val(v) /\ y = Val(q)
  BY <1>3, ValType
<1>5. 10 * x + d = 10 * y + e
  BY <1>1, <1>3, <1>4
<1>6. x = y /\ d = e
  BY <1>5
<1> QED  BY <1>2, <1>3, <1>4, <1>6, ValUnique DEF q, w

-----------------------------------------------------------------------------
(* The number that digits make.                                            *)

AllDigits(ds) == ds \in Seq(Byte) /\ \A i \in 1..Len(ds) : ds[i] \in Digits

\* What strict_parse_i64 has read after i digits.
MaybeWord == Word64 \cup {None}

\* The next prefix.
Further(v, c) == IF v = None THEN None ELSE TimesTenPlus(v, c - 48)

LEMMA FunctionSeq ==
  ASSUME NEW S, NEW n \in Nat, NEW f \in [1..n -> S]
  PROVE  f \in Seq(S) /\ Len(f) = n
BY SMTT(30)

LEMMA NotNone ==
  ASSUME NEW v \in Word64
  PROVE  v # None
<1>1. PICK n \in Nat : n = 8
  OBVIOUS
<1>2. v \in [1..n -> Byte]
  BY <1>1 DEF Word64
<1>3. v \in Seq(Byte)
  BY <1>2, FunctionSeq
<1> QED  BY <1>3, ListpackAssumption

LEMMA FurtherType ==
  ASSUME NEW v \in MaybeWord, NEW c \in Digits
  PROVE  Further(v, c) \in MaybeWord
<1>1. PICK d \in Nat : d = c - 48
  BY DEF Digits
<1>2. CASE v = None
  BY <1>2 DEF Further, MaybeWord
<1>3. CASE v # None
  <2>1. v \in Word64 /\ Further(v, c) = TimesTenPlus(v, d)
    BY <1>1, <1>3 DEF Further, MaybeWord
  <2>2. TimesTenPlus(v, d) = None \/ TimesTenPlus(v, d) \in Word64
    BY <2>1, TimesTen
  <2> QED  BY <2>1, <2>2 DEF MaybeWord
<1> QED  BY <1>2, <1>3

LEMMA ZeroType == Zero64 \in Word64 /\ Val(Zero64) = 0
<1>1. Zero64 \in Word64
  BY DEF Zero64, Word64, Byte
<1>2. Val(Zero64) = 0
  BY DEF Zero64, Val, Carried, Four
<1> QED  BY <1>1, <1>2

LEMMA PrefixesIs ==
  ASSUME NEW ds, AllDigits(ds)
  PROVE  /\ Prefixes(ds)[0] = Zero64
         /\ \A i \in 0..Len(ds) : Prefixes(ds)[i] \in MaybeWord
         /\ \A i \in 1..Len(ds) : Prefixes(ds)[i] = Further(Prefixes(ds)[i - 1], ds[i])
<1>0. PICK n \in Nat : n = Len(ds)
  BY DEF AllDigits
<1> DEFINE S == MaybeWord
           G == [i \in 1..n |-> [x \in S |-> Further(x, ds[i])]]
<1>1. G \in [1..n -> [S -> S]]
  BY <1>0, FurtherType DEF AllDigits
<1>2. \A i \in 1..n : \A x \in S : G[i][x] = Further(x, ds[i])
  OBVIOUS
<1> HIDE DEF G, S
<1>3. PICK f : Iterates(f, G, S, Zero64, n)
  <2>1. StepOn(G, S, n) /\ Zero64 \in S
    BY <1>1, ZeroType DEF StepOn, S, MaybeWord
  <2> QED  BY <2>1, Recursion
<1>4. /\ f \in [0..n -> S] /\ f[0] = Zero64
      /\ \A i \in 1..n : f[i] = G[i][f[i - 1]]
  BY <1>3 DEF Iterates
<1>5. \A i \in 1..n : f[i] = Further(f[i - 1], ds[i])
  <2> TAKE i \in 1..n
  <2>1. f[i - 1] \in S
    BY <1>4
  <2> QED  BY <2>1, <1>2, <1>4
<1> DEFINE Is(g) == g = [i \in 0..n |-> IF i = 0 THEN Zero64 ELSE Further(g[i - 1], ds[i])]
<1>6. Is(f)
  BY <1>4, <1>5
<1>7. Is(Prefixes(ds))
  <2>1. Prefixes(ds) = CHOOSE g : Is(g)
    BY <1>0 DEF Prefixes, Further
  <2> HIDE DEF Is
  <2> QED  BY <1>6, <2>1
<1> DEFINE g == Prefixes(ds)
<1> HIDE DEF g
<1>8. g[0] = Zero64 /\ \A i \in 1..n : g[i] = Further(g[i - 1], ds[i])
  BY <1>7 DEF g
<1> DEFINE T == {i \in 0..n : g[i] \in MaybeWord}
<1>9. 0 \in T /\ \A i \in 1..n : i - 1 \in T => i \in T
  <2>1. 0 \in T
    BY <1>8, ZeroType DEF MaybeWord
  <2>2. ASSUME NEW i \in 1..n, g[i - 1] \in MaybeWord PROVE g[i] \in MaybeWord
    BY <1>0, <1>8, <2>2, FurtherType DEF AllDigits
  <2> QED  BY <2>1, <2>2
<1>10. 0..n \subseteq T
  <2> HIDE DEF T
  <2> QED  BY <1>9, UpTo
<1> QED  BY <1>0, <1>8, <1>10 DEF g

\* If the number does not overflow, none of its prefixes did.
LEMMA PrefixesGood ==
  ASSUME NEW ds, AllDigits(ds), Unsigned(ds) # None
  PROVE  /\ Prefixes(ds)[0] = Zero64 /\ Unsigned(ds) = Prefixes(ds)[Len(ds)]
         /\ \A i \in 0..Len(ds) : Prefixes(ds)[i] \in Word64
         /\ \A i \in 1..Len(ds) : /\ Prefixes(ds)[i] = TimesTenPlus(Prefixes(ds)[i - 1], ds[i] - 48)
                                  /\ Prefixes(ds)[i] # None
<1>0. PICK n \in Nat : n = Len(ds)
  BY DEF AllDigits
<1> DEFINE g == Prefixes(ds)
<1>1. /\ g[0] = Zero64 /\ \A i \in 0..n : g[i] \in MaybeWord
      /\ \A i \in 1..n : g[i] = Further(g[i - 1], ds[i])
  BY <1>0, PrefixesIs
<1>2. Unsigned(ds) = g[n] /\ g[n] # None
  BY <1>0 DEF Unsigned
<1> HIDE DEF g
<1> DEFINE T == {i \in 0..n : g[n - i] # None}
<1>3. 0 \in T
  BY <1>2
<1>4. ASSUME NEW i \in 1..n, i - 1 \in T  PROVE i \in T
  <2>1. PICK j \in 1..n : j = n - (i - 1) /\ j - 1 = n - i
    OBVIOUS
  <2>2. g[j] # None /\ g[j] = Further(g[j - 1], ds[j])
    BY <1>1, <1>4, <2>1
  <2>3. g[j - 1] # None
    BY <2>2 DEF Further
  <2> QED  BY <2>1, <2>3
<1>5. 0..n \subseteq T
  <2> HIDE DEF T
  <2> QED  BY <1>3, <1>4, UpTo
<1>6. \A i \in 0..n : g[i] # None
  <2> TAKE i \in 0..n
  <2>1. PICK j \in 0..n : j = n - i /\ n - j = i
    OBVIOUS
  <2> QED  BY <1>5, <2>1
<1>7. \A i \in 0..n : g[i] \in Word64
  BY <1>1, <1>6 DEF MaybeWord
<1>8. \A i \in 1..n : g[i] = TimesTenPlus(g[i - 1], ds[i] - 48)
  <2> TAKE i \in 1..n
  <2>1. i - 1 \in 0..n
    OBVIOUS
  <2> QED  BY <1>1, <1>6, <2>1 DEF Further
<1> QED  BY <1>0, <1>1, <1>2, <1>6, <1>7, <1>8 DEF g

-----------------------------------------------------------------------------
(* Two's complement.                                                       *)

NegCarry(v) ==
  LET carry[i \in 0..8] == IF i = 0 THEN 1 ELSE (255 - v[i] + carry[i - 1]) \div 256
  IN  carry

LEMMA NegParts ==
  ASSUME NEW b \in 0..255, NEW c \in 0..1
  PROVE  /\ (255 - b + c) \div 256 \in 0..1 /\ (255 - b + c) % 256 \in 0..255
         /\ 255 - b + c = 256 * ((255 - b + c) \div 256) + ((255 - b + c) % 256)
BY SMT

LEMMA NegCarryIs ==
  ASSUME NEW v \in Word64
  PROVE  /\ NegCarry(v)[0] = 1 /\ \A i \in 0..8 : NegCarry(v)[i] \in 0..1
         /\ NegCarry(v) \in [0..8 -> Int]
         /\ \A i \in 1..8 : NegCarry(v)[i] = (255 - v[i] + NegCarry(v)[i - 1]) \div 256
<1>0. ASSUME NEW c \in 0..1, NEW i \in 1..8  PROVE (255 - v[i] + c) \div 256 \in 0..1
  <2>1. PICK b \in 0..255 : b = v[i]
    BY WordInts
  <2> QED  BY <2>1, NegParts
<1> DEFINE G == [i \in 1..8 |-> [c \in 0..1 |-> (255 - v[i] + c) \div 256]]
<1>1. G \in [1..8 -> [0..1 -> 0..1]]
  BY <1>0
<1>2. \A i \in 1..8 : \A c \in 0..1 : G[i][c] = (255 - v[i] + c) \div 256
  OBVIOUS
<1> HIDE DEF G
<1>3. PICK f \in [0..8 -> 0..1] : f[0] = 1 /\ \A i \in 1..8 : f[i] = G[i][f[i - 1]]
  <2>1. StepOn(G, 0..1, 8) /\ 1 \in 0..1
    BY <1>1 DEF StepOn
  <2>2. PICK f : Iterates(f, G, 0..1, 1, 8)
    BY <2>1, Recursion
  <2> QED  BY <2>2 DEF Iterates
<1>4. \A i \in 1..8 : f[i] = (255 - v[i] + f[i - 1]) \div 256
  <2> TAKE i \in 1..8
  <2>1. f[i - 1] \in 0..1
    OBVIOUS
  <2> QED  BY <2>1, <1>2, <1>3
<1> DEFINE Is(c) == c = [i \in 0..8 |-> IF i = 0 THEN 1 ELSE (255 - v[i] + c[i - 1]) \div 256]
<1>5. Is(f)
  BY <1>3, <1>4
<1>6. Is(NegCarry(v))
  <2>1. NegCarry(v) = CHOOSE c : Is(c)
    BY DEF NegCarry
  <2> HIDE DEF Is
  <2> QED  BY <1>5, <2>1
<1> DEFINE c == NegCarry(v)
<1> HIDE DEF c
<1>7. c = [i \in 0..8 |-> IF i = 0 THEN 1 ELSE (255 - v[i] + c[i - 1]) \div 256]
  BY <1>6 DEF c
<1>8. c[0] = 1 /\ \A i \in 1..8 : c[i] = (255 - v[i] + c[i - 1]) \div 256
  BY <1>7
<1> DEFINE T == {i \in 0..8 : c[i] \in 0..1}
<1>9. 0 \in T /\ \A i \in 1..8 : i - 1 \in T => i \in T
  <2>1. ASSUME NEW i \in 1..8, c[i - 1] \in 0..1  PROVE c[i] \in 0..1
    <3>1. PICK x \in 0..1, b \in 0..255 : x = c[i - 1] /\ b = v[i]
      BY <2>1, WordInts
    <3>2. (255 - b + x) \div 256 \in 0..1
      BY NegParts
    <3> QED  BY <1>8, <3>1, <3>2
  <2> QED  BY <1>8, <2>1
<1>10. 0..8 \subseteq T
  <2> HIDE DEF T
  <2> QED  BY <1>9, UpTo
<1>11. c \in [0..8 -> Int] /\ \A i \in 0..8 : c[i] \in 0..1
  BY <1>7, <1>10
<1> QED  BY <1>8, <1>11 DEF c

Top == Carried(Zero64, 1)

\* One step of the negation for each byte.
InComplements(v, w, c) ==
  c[0] = 1 /\ \A i \in 1..8 : 255 - v[i] + c[i - 1] = 256 * c[i] + w[i]

LEMMA NegSum ==
  ASSUME NEW v \in [1..8 -> Int], NEW w \in [1..8 -> Int], NEW c \in [0..8 -> Int],
         InComplements(v, w, c)
  PROVE  Carried(w, c[8]) + Carried(v, 0) = Top
<1>1. /\ 255 - v[1] + c[0] = 256 * c[1] + w[1]
      /\ 255 - v[2] + c[1] = 256 * c[2] + w[2]
      /\ 255 - v[3] + c[2] = 256 * c[3] + w[3]
      /\ 255 - v[4] + c[3] = 256 * c[4] + w[4]
      /\ 255 - v[5] + c[4] = 256 * c[5] + w[5]
      /\ 255 - v[6] + c[5] = 256 * c[6] + w[6]
      /\ 255 - v[7] + c[6] = 256 * c[7] + w[7]
      /\ 255 - v[8] + c[7] = 256 * c[8] + w[8] /\ c[0] = 1
  BY DEF InComplements
<1>2. PICK v1 \in Int, v2 \in Int, v3 \in Int, v4 \in Int, w1 \in Int, w2 \in Int, w3 \in Int, w4 \in Int :
        /\ v1 = v[1] /\ v2 = v[2] /\ v3 = v[3] /\ v4 = v[4]
        /\ w1 = w[1] /\ w2 = w[2] /\ w3 = w[3] /\ w4 = w[4]
  <2>1. /\ v[1] \in Int /\ v[2] \in Int /\ v[3] \in Int /\ v[4] \in Int
        /\ w[1] \in Int /\ w[2] \in Int /\ w[3] \in Int /\ w[4] \in Int
    OBVIOUS
  <2> QED  BY <2>1
<1>3. PICK c1 \in Int, c2 \in Int, c3 \in Int, c4 \in Int :
        c1 = c[1] /\ c2 = c[2] /\ c3 = c[3] /\ c4 = c[4]
  <2>1. c[1] \in Int /\ c[2] \in Int /\ c[3] \in Int /\ c[4] \in Int
    OBVIOUS
  <2> QED  BY <2>1
<1>4. PICK h \in Int : h = Four(v[5], v[6], v[7], v[8], 0)
  BY DEF Four
<1>5. PICK g \in Int : g = Four(w[5], w[6], w[7], w[8], c[8])
  BY DEF Four
<1>6. g + h = (c[4] - 1) + Four(0, 0, 0, 0, 1)
  BY SMT, <1>1, <1>4, <1>5 DEF Four
<1>7. /\ 256 - v1 = 256 * c1 + w1 /\ 255 - v2 + c1 = 256 * c2 + w2
      /\ 255 - v3 + c2 = 256 * c3 + w3 /\ 255 - v4 + c3 = 256 * c4 + w4
  BY <1>1, <1>2, <1>3
<1>8. PICK k \in Int : k = Four(0, 0, 0, 0, 1)
  BY DEF Four
<1>9. g + h = (c4 - 1) + k
  BY <1>3, <1>6, <1>8
<1>10. Four(w1, w2, w3, w4, g) + Four(v1, v2, v3, v4, h) = Four(0, 0, 0, 0, k)
  BY SMT, <1>7, <1>9 DEF Four
<1>11. Top = Four(0, 0, 0, 0, k)
  BY <1>8 DEF Top, Carried, Zero64
<1> QED  BY <1>2, <1>4, <1>5, <1>10, <1>11 DEF Carried

LEMMA NegatedIs ==
  ASSUME NEW v \in Word64
  PROVE  /\ Negated(v) \in Word64
         /\ \E x \in 0..1 : Carried(Negated(v), x) + Val(v) = Top
<1> DEFINE c == NegCarry(v)
           w == [i \in 1..8 |-> (255 - v[i] + c[i - 1]) % 256]
<1>1. Negated(v) = w
  BY DEF Negated, Rippled, Carry, NegCarry
<1>2. /\ c[0] = 1 /\ c \in [0..8 -> Int] /\ \A i \in 0..8 : c[i] \in 0..1
      /\ \A i \in 1..8 : c[i] = (255 - v[i] + c[i - 1]) \div 256
  BY NegCarryIs
<1> HIDE DEF c
<1>3. \A i \in 1..8 : w[i] \in 0..255 /\ 255 - v[i] + c[i - 1] = 256 * c[i] + w[i]
  <2> TAKE i \in 1..8
  <2>0. i - 1 \in 0..8
    OBVIOUS
  <2>1. PICK x \in 0..1 : x = c[i - 1]
    BY <1>2, <2>0
  <2>1a. PICK b \in 0..255 : b = v[i]
    BY WordInts
  <2>2. PICK q \in 0..1, r \in 0..255 : /\ q = (255 - b + x) \div 256 /\ r = (255 - b + x) % 256
                                       /\ 255 - b + x = 256 * q + r
    BY NegParts
  <2>3. c[i] = (255 - v[i] + c[i - 1]) \div 256 /\ w[i] = (255 - v[i] + c[i - 1]) % 256
    BY <1>2
  <2>4. w[i] = r /\ c[i] = q
    <3> HIDE DEF w
    <3> QED  BY <2>1, <2>1a, <2>2, <2>3
  <2> HIDE DEF w
  <2> QED  BY ZenonT(60), <2>1, <2>1a, <2>2, <2>4
<1> HIDE DEF w
<1>4. w \in Word64
  <2>1. w = [i \in 1..8 |-> w[i]]
    BY DEF w
  <2> QED  BY <1>3, <2>1, WordOf
<1>5. v \in [1..8 -> Int] /\ w \in [1..8 -> Int]
  BY <1>4, WordInts
<1>6. Carried(w, c[8]) + Carried(v, 0) = Top
  <2>1. InComplements(v, w, c) /\ c \in [0..8 -> Int]
    BY <1>2, <1>3 DEF InComplements
  <2> QED  BY <1>5, <2>1, NegSum
<1>7. c[8] \in 0..1
  BY <1>2
<1> QED  BY <1>1, <1>4, <1>6, <1>7 DEF Val

LEMMA CarriedOne ==
  ASSUME NEW v \in Word64
  PROVE  Carried(v, 1) = Val(v) + Top
<1>1. /\ v[1] \in Int /\ v[2] \in Int /\ v[3] \in Int /\ v[4] \in Int
      /\ v[5] \in Int /\ v[6] \in Int /\ v[7] \in Int /\ v[8] \in Int
  <2>1. v \in [1..8 -> Int]
    BY WordInts
  <2> QED  BY ONLY <2>1
<1>2. Top = Four(0, 0, 0, 0, Four(0, 0, 0, 0, 1))
  BY DEF Top, Carried, Zero64
<1>3. PICK v1 \in Int, v2 \in Int, v3 \in Int, v4 \in Int, v5 \in Int, v6 \in Int, v7 \in Int, v8 \in Int :
        /\ v1 = v[1] /\ v2 = v[2] /\ v3 = v[3] /\ v4 = v[4]
        /\ v5 = v[5] /\ v6 = v[6] /\ v7 = v[7] /\ v8 = v[8]
  BY <1>1
<1>4. PICK h \in Int, k \in Int : h = Four(v5, v6, v7, v8, 0) /\ k = Four(0, 0, 0, 0, 1)
  BY DEF Four
<1>5. Four(v5, v6, v7, v8, 1) = h + k
  BY SMT, <1>4 DEF Four
<1>6. Four(v1, v2, v3, v4, h + k) = Four(v1, v2, v3, v4, h) + Four(0, 0, 0, 0, k)
  BY SMT DEF Four
<1> QED  BY <1>2, <1>3, <1>4, <1>5, <1>6 DEF Val, Carried

LEMMA BelowTop ==
  ASSUME NEW v \in Word64
  PROVE  Top \in Nat /\ Val(v) < Top
<1>1. PICK x \in 0..1 : Negated(v) \in Word64 /\ Carried(Negated(v), x) + Val(v) = Top
  BY NegatedIs
<1>2. Val(v) \in Nat /\ Val(Negated(v)) \in Nat
  BY <1>1, ValType
<1>3. Top \in Nat
  BY DEF Top, Carried, Four, Zero64
<1>4. Val(v) # Top
  <2> SUFFICES ASSUME Val(v) = Top PROVE FALSE
    OBVIOUS
  <2>1. 0 \in Whole /\ 1 \in Whole
    BY DEF Whole
  <2>2. 0 = Digit(Digit(Carried(v, 0), 5), 5) /\ 1 = Digit(Digit(Carried(Zero64, 1), 5), 5)
    BY <2>1, CarriedParts, ZeroType
  <2>3. Carried(v, 0) = Carried(Zero64, 1)
    BY DEF Val, Top
  <2>4. 0 = 1
    BY <2>2, <2>3
  <2> QED  BY <2>4
<1>5. x = 0 => Carried(Negated(v), x) = Val(Negated(v))
  BY DEF Val
<1>6. x = 1 => Carried(Negated(v), x) = Val(Negated(v)) + Top
  BY <1>1, CarriedOne
<1> QED  BY <1>1, <1>2, <1>3, <1>4, <1>5, <1>6

\* The negation of a number but zero.
LEMMA NegatedVal ==
  ASSUME NEW v \in Word64, Val(v) # 0
  PROVE  Negated(v) \in Word64 /\ Val(Negated(v)) + Val(v) = Top
<1>1. PICK x \in 0..1 : Negated(v) \in Word64 /\ Carried(Negated(v), x) + Val(v) = Top
  BY NegatedIs
<1>2. Val(v) \in Nat /\ Val(Negated(v)) \in Nat
  BY <1>1, ValType
<1>3. x = 0 => Carried(Negated(v), x) = Val(Negated(v))
  BY DEF Val
<1>4. x = 1 => Carried(Negated(v), x) = Val(Negated(v)) + Top
  BY <1>1, CarriedOne
<1>5. Top \in Nat
  BY BelowTop
<1> QED  BY <1>1, <1>2, <1>3, <1>4, <1>5

LEMMA TwiceNegated ==
  ASSUME NEW v \in Word64, Val(v) # 0
  PROVE  Negated(Negated(v)) = v
<1> DEFINE w == Negated(v)
<1>1. w \in Word64 /\ Val(w) + Val(v) = Top
  BY NegatedVal
<1>2. Val(v) \in Nat /\ Val(w) \in Nat /\ Top \in Nat /\ Val(v) < Top
  BY <1>1, ValType, BelowTop
<1> HIDE DEF w
<1>3. Val(w) # 0
  BY <1>1, <1>2
<1>4. Negated(w) \in Word64 /\ Val(Negated(w)) + Val(w) = Top
  BY <1>1, <1>3, NegatedVal
<1>5. Val(Negated(w)) \in Nat
  BY <1>4, ValType
<1>6. Val(Negated(w)) = Val(v)
  BY <1>1, <1>2, <1>4, <1>5
<1> QED  BY <1>4, <1>6, ValUnique DEF w

\* The top bit.
LEMMA FourBelow ==
  ASSUME NEW a \in 0..255, NEW b \in 0..255, NEW c \in 0..255, NEW d \in 0..255,
         NEW h \in Int, NEW k \in Int, h + 1 <= k
  PROVE  Four(a, b, c, d, h) < Four(0, 0, 0, 0, k)
<1>1. d + 256 * h < 256 * k
  BY SMT
<1>2. c + 256 * (d + 256 * h) < 256 * (256 * k)
  BY SMT, <1>1
<1>3. b + 256 * (c + 256 * (d + 256 * h)) < 256 * (256 * (256 * k))
  BY SMT, <1>2
<1>4. a + 256 * (b + 256 * (c + 256 * (d + 256 * h))) < 256 * (256 * (256 * (256 * k)))
  BY SMT, <1>3
<1> QED  BY SMT, <1>4 DEF Four

LEMMA HalfVal ==
  ASSUME NEW v \in Word64, v[8] < 128
  PROVE  Val(v) < Val(Min64)
<1>1. PICK d \in 0..127 : d = v[8]
  <2>1. PICK x \in 0..255 : x = v[8]
    BY WordInts
  <2>2. x \in 0..127
    BY <2>1
  <2> QED  BY <2>1, <2>2
<1>2. PICK a \in 0..255 : a = v[5]
  BY WordInts
<1>2a. PICK b \in 0..255 : b = v[6]
  BY WordInts
<1>2b. PICK c \in 0..255 : c = v[7]
  BY WordInts
<1>3. PICK k \in Int, h \in Int : /\ h = Four(a, b, c, d, 0) /\ k = Four(0, 0, 0, 128, 0)
                                 /\ h + 1 <= k
  BY SMT DEF Four
<1>4. PICK a1 \in 0..255 : a1 = v[1]
  BY WordInts
<1>4a. PICK b1 \in 0..255 : b1 = v[2]
  BY WordInts
<1>4b. PICK c1 \in 0..255 : c1 = v[3]
  BY WordInts
<1>4c. PICK d1 \in 0..255 : d1 = v[4]
  BY SMTT(30), WordInts
<1>5. Four(a1, b1, c1, d1, h) < Four(0, 0, 0, 0, k)
  BY ZenonT(60), <1>3, FourBelow
<1>6. Val(Min64) = Four(0, 0, 0, 0, Four(0, 0, 0, 128, 0))
  BY DEF Val, Carried, Min64
<1>7. Val(Min64) = Four(0, 0, 0, 0, k) /\ Val(v) = Four(a1, b1, c1, d1, h)
  <2>1. Val(Min64) = Four(0, 0, 0, 0, k)
    BY Zenon, <1>3, <1>6
  <2>2. Val(v) = Four(a1, b1, c1, d1, h)
    BY Zenon, <1>1, <1>2, <1>2a, <1>2b, <1>3, <1>4, <1>4a, <1>4b, <1>4c DEF Val, Carried
  <2> QED  BY <2>1, <2>2
<1>8. Four(a1, b1, c1, d1, h) \in Int /\ Four(0, 0, 0, 0, k) \in Int
  BY DEF Four
<1> QED  BY <1>5, <1>7, <1>8

LEMMA TwoHalves == Val(Min64) + Val(Min64) = Top /\ Min64 \in Word64
<1>1. Val(Min64) = Four(0, 0, 0, 0, Four(0, 0, 0, 128, 0))
  BY DEF Val, Carried, Min64
<1>2. Top = Four(0, 0, 0, 0, Four(0, 0, 0, 0, 1))
  BY DEF Top, Carried, Zero64
<1>3. Min64 \in Word64
  BY DEF Min64, Word64, Byte
<1> QED  BY SMT, <1>1, <1>2, <1>3 DEF Four

LEMMA NegatedHigh ==
  ASSUME NEW u \in Word64, Val(u) # 0, u[8] < 128 \/ u = Min64
  PROVE  Negated(u)[8] >= 128
<1> DEFINE w == Negated(u)
<1>1. w \in Word64 /\ Val(w) + Val(u) = Top
  BY NegatedVal
<1>2. Val(u) \in Nat /\ Val(w) \in Nat /\ Val(Min64) \in Nat
  BY <1>1, ValType, TwoHalves
<1>3. ~(Val(u) > Val(Min64))
  BY <1>2, HalfVal
<1> HIDE DEF w
<1>4. ~(w[8] < 128)
  <2> SUFFICES ASSUME w[8] < 128 PROVE FALSE
    OBVIOUS
  <2>1. Val(w) < Val(Min64)
    BY <1>1, HalfVal
  <2> QED  BY <1>1, <1>2, <1>3, <2>1, TwoHalves
<1>5. w[8] \in 0..255
  BY <1>1, BytesOf DEF Byte
<1> QED  BY <1>4, <1>5 DEF w

-----------------------------------------------------------------------------
(* A number is printed as it was written.                                  *)

\* The digits of a number, as strict_parse_i64 takes them.
Written(ds) == AllDigits(ds) /\ ds # << >> /\ ds[1] # 48 /\ Unsigned(ds) # None

\* The numbers on the way are ten times what is before them, and a digit.
LEMMA PrefixVals ==
  ASSUME NEW ds, Written(ds)
  PROVE  /\ \A i \in 0..Len(ds) : Val(Prefixes(ds)[i]) \in Nat
         /\ \A i \in 1..Len(ds) : \E d \in 0..9 :
              /\ ds[i] = 48 + d
              /\ Val(Prefixes(ds)[i]) = 10 * Val(Prefixes(ds)[i - 1]) + d
              /\ DivTen(Prefixes(ds)[i]).quot = Prefixes(ds)[i - 1]
              /\ DivTen(Prefixes(ds)[i]).rem = d
<1>1. AllDigits(ds) /\ Unsigned(ds) # None
  BY DEF Written
<1> DEFINE g == Prefixes(ds)
<1>2. PICK n \in Nat : n = Len(ds)
  BY <1>1 DEF AllDigits
<1>3. /\ \A i \in 0..n : g[i] \in Word64
      /\ \A i \in 1..n : g[i] = TimesTenPlus(g[i - 1], ds[i] - 48) /\ g[i] # None
  BY <1>1, <1>2, PrefixesGood
<1> HIDE DEF g
<1>4. ASSUME NEW i \in 1..n
      PROVE  \E d \in 0..9 : /\ ds[i] = 48 + d
                             /\ Val(g[i]) = 10 * Val(g[i - 1]) + d
                             /\ DivTen(g[i]).quot = g[i - 1] /\ DivTen(g[i]).rem = d
  <2>1. ds[i] \in 48..57
    BY <1>1, <1>2 DEF AllDigits, Digits
  <2>2. PICK d \in 0..9 : ds[i] = 48 + d /\ ds[i] - 48 = d
    <3>1. PICK c \in 48..57 : c = ds[i]
      BY <2>1
    <3>2. c - 48 \in 0..9 /\ c = 48 + (c - 48)
      OBVIOUS
    <3> QED  BY <3>1, <3>2
  <2>3. i - 1 \in 0..n
    OBVIOUS
  <2>4. g[i - 1] \in Word64 /\ g[i] = TimesTenPlus(g[i - 1], d) /\ TimesTenPlus(g[i - 1], d) # None
    BY <1>3, <2>2, <2>3
  <2>5. d \in Nat
    OBVIOUS
  <2>6. Val(g[i]) = 10 * Val(g[i - 1]) + d
    BY <2>4, <2>5, TimesTen
  <2>7. DivTen(g[i]).quot = g[i - 1] /\ DivTen(g[i]).rem = d
    BY <2>4, TenthOfTen
  <2> QED  BY <2>2, <2>6, <2>7
<1>5. \A i \in 0..n : Val(g[i]) \in Nat
  BY <1>3, ValType
<1> QED  BY <1>2, <1>4, <1>5 DEF g

LEMMA PrefixGrows ==
  ASSUME NEW ds, Written(ds), NEW i \in 1..Len(ds)
  PROVE  Val(Prefixes(ds)[i]) >= 1
<1> DEFINE g == Prefixes(ds)
<1>1. PICK n \in Nat : n = Len(ds)
  BY DEF Written, AllDigits
<1>2. \A j \in 0..n : Val(g[j]) \in Nat
  BY <1>1, PrefixVals
<1>3. \A j \in 1..n : \E d \in 0..9 : ds[j] = 48 + d /\ Val(g[j]) = 10 * Val(g[j - 1]) + d
  BY <1>1, PrefixVals
<1> HIDE DEF g
<1>4. n >= 1 /\ ds[1] # 48
  <2>1. n # 0
    BY <1>1 DEF Written, AllDigits
  <2> QED  BY <2>1 DEF Written
<1> DEFINE T == {j \in 0..n : j >= 1 => Val(g[j]) >= 1}
<1>5. 0 \in T
  OBVIOUS
<1>6. ASSUME NEW j \in 1..n, j - 1 \in T  PROVE j \in T
  <2>1. PICK d \in 0..9 : ds[j] = 48 + d /\ Val(g[j]) = 10 * Val(g[j - 1]) + d
    BY <1>3
  <2>2. PICK x \in Nat, y \in Nat : x = Val(g[j]) /\ y = Val(g[j - 1])
    <3>1. j \in 0..n /\ j - 1 \in 0..n
      OBVIOUS
    <3> QED  BY <1>2, <3>1
  <2>3. x = 10 * y + d
    BY <2>1, <2>2
  <2>4. CASE j = 1
    <3>1. d # 0
      BY <1>4, <2>1, <2>4
    <3>2. x >= 1
      BY <2>3, <3>1
    <3> QED  BY <2>2, <3>2
  <2>5. CASE j # 1
    <3>1. y >= 1
      BY <1>6, <2>2, <2>5
    <3>2. x >= 1
      BY <2>3, <3>1
    <3> QED  BY <2>2, <3>2
  <2> QED  BY <2>4, <2>5
<1>7. 0..n \subseteq T
  <2> HIDE DEF T
  <2> QED  BY <1>5, <1>6, UpTo
<1> QED  BY <1>1, <1>7 DEF g

\* Five digits further on, the number is at least 100000 times as large.
LEMMA FiveDigits ==
  ASSUME NEW ds, Written(ds), NEW i \in 0..Len(ds), i + 5 <= Len(ds),
         NEW m \in Nat, Val(Prefixes(ds)[i]) >= m
  PROVE  Val(Prefixes(ds)[i + 5]) >= 100000 * m
<1> DEFINE g == Prefixes(ds)
<1>1. PICK n \in Nat : n = Len(ds)
  BY DEF Written, AllDigits
<1>2. \A j \in 0..n : Val(g[j]) \in Nat
  BY <1>1, PrefixVals
<1>3. \A j \in 1..n : \E d \in 0..9 : Val(g[j]) = 10 * Val(g[j - 1]) + d
  BY <1>1, PrefixVals
<1> HIDE DEF g
<1>4. ASSUME NEW j \in Nat, j + 1 <= n, NEW k \in Nat, Val(g[j]) >= k
      PROVE  Val(g[j + 1]) >= 10 * k
  <2>1. PICK l \in 1..n : l = j + 1 /\ l - 1 = j
    BY <1>4
  <2>2. PICK d \in 0..9 : Val(g[l]) = 10 * Val(g[l - 1]) + d
    BY <1>3
  <2>3. PICK x \in Nat, y \in Nat : x = Val(g[l]) /\ y = Val(g[j])
    BY <1>2, <2>1
  <2>4. x = 10 * y + d /\ y >= k
    BY <1>4, <2>1, <2>2, <2>3
  <2>5. x >= 10 * k
    BY <2>4
  <2> QED  BY <2>1, <2>3, <2>5
<1>5. PICK i1 \in Nat, i2 \in Nat, i3 \in Nat, i4 \in Nat, i5 \in Nat :
        i1 = i + 1 /\ i2 = i1 + 1 /\ i3 = i2 + 1 /\ i4 = i3 + 1 /\ i5 = i4 + 1
  BY <1>1
<1>6. PICK m1 \in Nat, m2 \in Nat, m3 \in Nat, m4 \in Nat, m5 \in Nat :
        m1 = 10 * m /\ m2 = 10 * m1 /\ m3 = 10 * m2 /\ m4 = 10 * m3 /\ m5 = 10 * m4
  OBVIOUS
<1>7. i \in Nat /\ i1 <= n /\ i2 <= n /\ i3 <= n /\ i4 <= n /\ i5 <= n
  BY <1>1, <1>5
<1>8. Val(g[i1]) >= m1
  BY <1>4, <1>5, <1>6, <1>7 DEF g
<1>9. Val(g[i2]) >= m2
  BY <1>4, <1>5, <1>6, <1>7, <1>8
<1>10. Val(g[i3]) >= m3
  BY <1>4, <1>5, <1>6, <1>7, <1>9
<1>11. Val(g[i4]) >= m4
  BY <1>4, <1>5, <1>6, <1>7, <1>10
<1>12. Val(g[i5]) >= m5
  BY <1>4, <1>5, <1>6, <1>7, <1>11
<1>13. i5 = i + 5 /\ m5 = 100000 * m
  BY <1>1, <1>5, <1>6
<1> QED  BY <1>12, <1>13 DEF g

\* No number of 64 bits has more than twenty digits.
LEMMA TwentyDigits ==
  ASSUME NEW ds, Written(ds)
  PROVE  Len(ds) \in 1..20
<1>1. PICK n \in Nat \ {0} : n = Len(ds)
  <2>1. Len(ds) \in Nat /\ Len(ds) # 0
    BY DEF Written, AllDigits
  <2> QED  BY <2>1
<1>0. SUFFICES ASSUME n >= 21 PROVE FALSE
  <2>1. n \in 1..20
    BY <1>0
  <2> QED  BY <1>1, <2>1
<1> DEFINE g == Prefixes(ds)
<1>2. PICK a \in 1..n, b \in 1..n, c \in 1..n, d \in 1..n, e \in 1..n :
        a = 1 /\ b = a + 5 /\ c = b + 5 /\ d = c + 5 /\ e = d + 5
  BY <1>0
<1>3. PICK p \in Nat, q \in Nat, r \in Nat, s \in Nat, t \in Nat :
        p = 1 /\ q = 100000 * p /\ r = 100000 * q /\ s = 100000 * r /\ t = 100000 * s
  OBVIOUS
<1>4. /\ a \in 0..Len(ds) /\ b \in 0..Len(ds) /\ c \in 0..Len(ds) /\ d \in 0..Len(ds)
      /\ a + 5 <= Len(ds) /\ b + 5 <= Len(ds) /\ c + 5 <= Len(ds) /\ d + 5 <= Len(ds)
  BY <1>1, <1>2
<1>5. Val(g[a]) >= p
  BY <1>1, <1>2, <1>3, PrefixGrows
<1> HIDE DEF g
<1>6. Val(g[b]) >= q
  BY <1>2, <1>3, <1>4, <1>5, FiveDigits DEF g
<1>7. Val(g[c]) >= r
  BY <1>2, <1>3, <1>4, <1>6, FiveDigits DEF g
<1>8. Val(g[d]) >= s
  BY <1>2, <1>3, <1>4, <1>7, FiveDigits DEF g
<1>9. Val(g[e]) >= t
  BY <1>2, <1>3, <1>4, <1>8, FiveDigits DEF g
<1>10. g[e] \in Word64
  BY <1>1, PrefixesGood DEF g, Written
<1>11. Val(g[e]) \in Nat /\ Val(g[e]) < Top /\ Top \in Nat
  BY <1>10, ValType, BelowTop
<1>12. Top < t
  <2>1. Top = Four(0, 0, 0, 0, Four(0, 0, 0, 0, 1))
    BY DEF Top, Carried, Zero64
  <2> QED  BY SMT, <1>3, <2>1 DEF Four
<1> QED  BY <1>9, <1>11, <1>12

Taken == [left : Word64, text : Seq(Byte)]

\* One digit more is taken off.
TakeDigit(o) ==
  IF o.left = Zero64 /\ o.text # << >> THEN o
  ELSE [left |-> DivTen(o.left).quot, text |-> <<48 + DivTen(o.left).rem>> \o o.text]

LEMMA TakeDigitType ==
  ASSUME NEW o \in Taken
  PROVE  TakeDigit(o) \in Taken
<1>1. CASE o.left = Zero64 /\ o.text # << >>
  BY <1>1 DEF TakeDigit
<1>2. CASE ~(o.left = Zero64 /\ o.text # << >>)
  <2>1. o.left \in Word64 /\ o.text \in Seq(Byte)
    BY DEF Taken
  <2>2. DivTen(o.left).quot \in Word64 /\ DivTen(o.left).rem \in 0..9
    BY <2>1, Tenth
  <2>3. 48 + DivTen(o.left).rem \in Byte
    BY <2>2 DEF Byte
  <2>4. <<48 + DivTen(o.left).rem>> \in Seq(Byte)
    BY <2>3
  <2>5. <<48 + DivTen(o.left).rem>> \o o.text \in Seq(Byte)
    BY <2>1, <2>4
  <2> QED  BY <1>2, <2>2, <2>5 DEF TakeDigit, Taken
<1> QED  BY <1>1, <1>2

LEMMA DigitsOffIs ==
  ASSUME NEW v \in Word64
  PROVE  /\ DigitsOff(v)[0] = [left |-> v, text |-> << >>]
         /\ \A i \in 1..20 : DigitsOff(v)[i] = TakeDigit(DigitsOff(v)[i - 1])
<1> DEFINE G == [i \in 1..20 |-> [o \in Taken |-> TakeDigit(o)]]
           a == [left |-> v, text |-> << >>]
<1>1. G \in [1..20 -> [Taken -> Taken]]
  BY TakeDigitType
<1>2. \A i \in 1..20 : \A x \in Taken : G[i][x] = TakeDigit(x)
  OBVIOUS
<1>3. a \in Taken
  BY DEF Taken
<1> HIDE DEF G, a
<1>4. PICK f \in [0..20 -> Taken] : f[0] = a /\ \A i \in 1..20 : f[i] = G[i][f[i - 1]]
  <2>1. StepOn(G, Taken, 20)
    BY <1>1 DEF StepOn
  <2>2. PICK f : Iterates(f, G, Taken, a, 20)
    BY <1>3, <2>1, Recursion
  <2> QED  BY <2>2 DEF Iterates
<1>5. \A i \in 1..20 : f[i] = TakeDigit(f[i - 1])
  <2> TAKE i \in 1..20
  <2>1. f[i - 1] \in Taken
    OBVIOUS
  <2> QED  BY <2>1, <1>2, <1>4
<1> DEFINE Is(g) == g = [i \in 0..20 |-> IF i = 0 THEN a ELSE TakeDigit(g[i - 1])]
<1>6. Is(f)
  BY <1>4, <1>5
<1>7. Is(DigitsOff(v))
  <2>1. DigitsOff(v) = CHOOSE g : Is(g)
    BY DEF DigitsOff, TakeDigit, a
  <2> HIDE DEF Is
  <2> QED  BY <1>6, <2>1
<1> DEFINE g == DigitsOff(v)
<1> HIDE DEF g
<1>8. g[0] = a /\ \A i \in 1..20 : g[i] = TakeDigit(g[i - 1])
  BY <1>7 DEF g
<1> QED  BY <1>8 DEF g, a

\* After i steps the last i digits have been taken off.
TakenOff(ds, n, i) ==
  [left |-> Prefixes(ds)[n - i], text |-> SubSeq(ds, n - i + 1, n)]

LEMMA TakesDigit ==
  ASSUME NEW ds, Written(ds), NEW n \in Nat, n = Len(ds), NEW i \in 1..n
  PROVE  TakeDigit(TakenOff(ds, n, i - 1)) = TakenOff(ds, n, i)
<1> DEFINE g == Prefixes(ds)
<1>1. PICK j \in 1..n : j = n - i + 1 /\ j = n - (i - 1) /\ j - 1 = n - i
  BY SMTT(30)
<1>2. PICK d \in 0..9 : /\ ds[j] = 48 + d
                        /\ DivTen(g[j]).quot = g[j - 1] /\ DivTen(g[j]).rem = d
  BY SMTT(30), PrefixVals
<1>3. g[j] # Zero64
  <2>1. Val(g[j]) >= 1
    BY PrefixGrows
  <2>2. Val(Zero64) = 0
    BY ZeroType
  <2> HIDE DEF g
  <2> QED  BY <2>1, <2>2
<1> HIDE DEF g
<1>4. TakenOff(ds, n, i - 1) = [left |-> g[j], text |-> SubSeq(ds, j + 1, n)]
  <2>1. n - (i - 1) = j /\ n - (i - 1) + 1 = j + 1
    BY <1>1
  <2> QED  BY <2>1 DEF TakenOff, g
<1>5. TakeDigit(TakenOff(ds, n, i - 1))
        = [left |-> g[j - 1], text |-> <<ds[j]>> \o SubSeq(ds, j + 1, n)]
  <2> DEFINE o == [left |-> g[j], text |-> SubSeq(ds, j + 1, n)]
  <2>1. o.left = g[j] /\ o.text = SubSeq(ds, j + 1, n) /\ o.left # Zero64
    BY <1>3
  <2>2. 48 + DivTen(o.left).rem = ds[j] /\ DivTen(o.left).quot = g[j - 1]
    BY <1>2, <2>1
  <2> HIDE DEF o
  <2>3. TakeDigit(o) = [left |-> DivTen(o.left).quot, text |-> <<48 + DivTen(o.left).rem>> \o o.text]
    BY Zenon, <2>1 DEF TakeDigit
  <2> QED  BY Zenon, <1>4, <2>1, <2>2, <2>3 DEF o
<1>6. SubSeq(ds, j, n) = <<ds[j]>> \o SubSeq(ds, j + 1, n)
  <2>1. ds \in Seq(Byte) /\ j \in 1..Len(ds) /\ n \in j..Len(ds)
    BY <1>1 DEF Written, AllDigits
  <2> QED  BY <2>1, SubSeqRecursiveFirst
<1>7. TakenOff(ds, n, i) = [left |-> g[j - 1], text |-> SubSeq(ds, j, n)]
  BY <1>1 DEF TakenOff, g
<1> QED  BY <1>5, <1>6, <1>7

\* The digits of the number that digits make are those digits.
LEMMA DigitsBack ==
  ASSUME NEW ds, Written(ds)
  PROVE  DigitsOff(Unsigned(ds))[20].text = ds
<1>1. PICK n \in 1..20 : n = Len(ds)
  BY TwentyDigits
<1>2. AllDigits(ds) /\ Unsigned(ds) # None /\ ds \in Seq(Byte) /\ ds # << >>
  BY DEF Written, AllDigits
<1>3. Unsigned(ds) = Prefixes(ds)[n] /\ Prefixes(ds)[0] = Zero64 /\ Prefixes(ds)[n] \in Word64
  BY <1>1, <1>2, PrefixesGood
<1> DEFINE f == DigitsOff(Unsigned(ds))
<1>4. /\ f[0] = [left |-> Unsigned(ds), text |-> << >>]
      /\ \A i \in 1..20 : f[i] = TakeDigit(f[i - 1])
  BY <1>3, DigitsOffIs
<1> HIDE DEF f
<1> DEFINE T == {i \in 0..n : f[i] = TakenOff(ds, n, i)}
<1>5. 0 \in T
  <2>1. SubSeq(ds, n + 1, n) = << >>
    BY <1>1, SubSeqEmpty
  <2>2. n - 0 = n /\ n - 0 + 1 = n + 1
    OBVIOUS
  <2> QED  BY SMTT(30), <1>3, <1>4, <2>1, <2>2 DEF TakenOff
<1>6. ASSUME NEW i \in 1..n, i - 1 \in T  PROVE i \in T
  <2>1. n \in Nat /\ i \in 1..20
    OBVIOUS
  <2>2. TakeDigit(TakenOff(ds, n, i - 1)) = TakenOff(ds, n, i)
    BY <1>1, <2>1, TakesDigit
  <2>3. f[i - 1] = TakenOff(ds, n, i - 1)
    BY <1>6
  <2>4. f[i] = TakeDigit(f[i - 1])
    BY <1>4, <2>1
  <2>5. f[i] = TakenOff(ds, n, i)
    BY <2>2, <2>3, <2>4
  <2>6. i \in 0..n
    OBVIOUS
  <2> QED  BY <2>5, <2>6
<1>7. 0..n \subseteq T
  <2> HIDE DEF T
  <2> QED  BY <1>5, <1>6, UpTo
<1>8. f[n] = [left |-> Zero64, text |-> ds]
  <2>1. f[n] = TakenOff(ds, n, n)
    BY <1>7
  <2>2. SubSeq(ds, 1, n) = ds
    BY <1>1, <1>2, SubSeqFull
  <2>3. n - n = 0 /\ n - n + 1 = 1
    OBVIOUS
  <2> QED  BY <1>3, <2>1, <2>2, <2>3 DEF TakenOff
<1> DEFINE U == {i \in 0..20 : i >= n => f[i] = f[n]}
<1>9. 0 \in U
  OBVIOUS
<1>10. ASSUME NEW i \in 1..20, i - 1 \in U  PROVE i \in U
  <2> SUFFICES ASSUME i >= n, i # n PROVE f[i] = f[n]
    OBVIOUS
  <2>1. f[i - 1] = f[n]
    BY <1>10
  <2>2. f[i] = TakeDigit(f[n])
    BY <1>4, <2>1
  <2>3. TakeDigit(f[n]) = f[n]
    BY <1>2, <1>8 DEF TakeDigit
  <2> QED  BY <2>2, <2>3
<1>11. 0..20 \subseteq U
  <2> HIDE DEF U
  <2> QED  BY <1>9, <1>10, UpTo
<1>12. f[20] = f[n]
  BY <1>11
<1> QED  BY <1>8, <1>12 DEF f

LEMMA ZeroBack == DigitsOff(Zero64)[20].text = <<48>>
<1> DEFINE f == DigitsOff(Zero64)
<1>1. /\ f[0] = [left |-> Zero64, text |-> << >>]
      /\ \A i \in 1..20 : f[i] = TakeDigit(f[i - 1])
  BY ZeroType, DigitsOffIs
<1>2. DivTen(Zero64).quot = Zero64 /\ DivTen(Zero64).rem = 0
  <2>1. DivTen(Zero64).quot \in Word64 /\ Val(DivTen(Zero64).quot) \in Nat
    BY ZeroType, Tenth, ValType
  <2>2. PICK q \in Nat, r \in 0..9 : q = Val(DivTen(Zero64).quot) /\ r = DivTen(Zero64).rem
    BY <2>1, ZeroType, Tenth
  <2>3. 0 = 10 * q + r
    BY <2>2, ZeroType, Tenth
  <2>4. q = 0 /\ r = 0
    BY <2>3
  <2> QED  BY <2>1, <2>2, <2>4, ZeroType, ValUnique
<1> HIDE DEF f
<1>3. f[1] = [left |-> Zero64, text |-> <<48>>]
  <2>1. 1 \in 1..20 /\ 1 - 1 = 0
    OBVIOUS
  <2>2. f[1] = TakeDigit(f[0])
    BY <1>1, <2>1
  <2>3. TakeDigit(f[0]) = [left |-> Zero64, text |-> <<48 + 0>> \o << >>]
    <3>1. f[0].left = Zero64 /\ f[0].text = << >>
      BY <1>1
    <3>2. TakeDigit(f[0]) = [left |-> DivTen(Zero64).quot,
                             text |-> <<48 + DivTen(Zero64).rem>> \o << >>]
      BY Zenon, <3>1 DEF TakeDigit
    <3> QED  BY Zenon, <1>2, <3>2
  <2>4. <<48 + 0>> \o << >> = <<48>>
    OBVIOUS
  <2> QED  BY <2>2, <2>3, <2>4
<1> DEFINE U == {i \in 0..20 : i >= 1 => f[i] = f[1]}
<1>9. 0 \in U
  OBVIOUS
<1>10. ASSUME NEW i \in 1..20, i - 1 \in U  PROVE i \in U
  <2> SUFFICES ASSUME i # 1 PROVE f[i] = f[1]
    OBVIOUS
  <2>1. f[i - 1] = f[1]
    BY <1>10
  <2>2. f[i] = TakeDigit(f[1])
    BY <1>1, <2>1
  <2>3. TakeDigit(f[1]) = f[1]
    BY <1>3 DEF TakeDigit
  <2> QED  BY <2>2, <2>3
<1>11. 0..20 \subseteq U
  <2> HIDE DEF U
  <2> QED  BY <1>9, <1>10, UpTo
<1>12. f[20] = f[1]
  BY <1>11
<1> QED  BY <1>3, <1>12 DEF f

\* The three ways to be a number.
IsNatural(s, v) == Written(s) /\ s[1] # Minus /\ v = Unsigned(s) /\ v[8] < 128

IsNegative(s, v) ==
  /\ s # << >> /\ s[1] = Minus /\ Written(Tail(s))
  /\ v = Negated(Unsigned(Tail(s)))
  /\ Unsigned(Tail(s))[8] < 128 \/ Unsigned(Tail(s)) = Min64

LEMMA NumeralWritten ==
  ASSUME NEW ds \in Seq(Byte), Numeral(ds), Unsigned(ds) # None
  PROVE  Written(ds)
BY DEF Numeral, Written, AllDigits

LEMMA ParseCases ==
  ASSUME NEW s \in Seq(Byte), strict_parse_i64(s) # None
  PROVE  \/ s = <<48>> /\ strict_parse_i64(s) = Zero64
         \/ IsNatural(s, strict_parse_i64(s))
         \/ IsNegative(s, strict_parse_i64(s))
<1> DEFINE v == strict_parse_i64(s)
<1>1. CASE s = <<48>>
  BY Zenon, <1>1 DEF strict_parse_i64
<1>2. CASE s # <<48>> /\ s # << >> /\ s[1] = Minus
  <2> DEFINE ds == Tail(s)
             u == Unsigned(ds)
  <2>1. v = CASE s = <<48>> -> Zero64
              [] s # <<48>> /\ ~Numeral(ds) -> None
              [] s # <<48>> /\ Numeral(ds) ->
                   IF u = None THEN None
                   ELSE IF u[8] < 128 \/ u = Min64 THEN Negated(u) ELSE None
    BY Zenon, <1>2 DEF strict_parse_i64
  <2>2. ds \in Seq(Byte)
    BY <1>2, HeadTailProperties
  <2> HIDE DEF ds, u, v
  <2>3. v # None
    BY DEF v
  <2>4. Numeral(ds) /\ u # None /\ (u[8] < 128 \/ u = Min64) /\ v = Negated(u)
    BY Zenon, <1>2, <2>1, <2>3
  <2>5. Written(ds)
    BY <2>2, <2>4, NumeralWritten DEF u
  <2> QED  BY <1>2, <2>4, <2>5 DEF IsNegative, u, ds, v
<1>3. CASE s # <<48>> /\ ~(s # << >> /\ s[1] = Minus)
  <2> DEFINE u == Unsigned(s)
  <2>1. v = CASE s = <<48>> -> Zero64
              [] s # <<48>> /\ ~Numeral(s) -> None
              [] s # <<48>> /\ Numeral(s) ->
                   IF u = None THEN None ELSE IF u[8] < 128 THEN u ELSE None
    BY Zenon, <1>3 DEF strict_parse_i64
  <2> HIDE DEF u, v
  <2>3. v # None
    BY DEF v
  <2>4. Numeral(s) /\ u # None /\ u[8] < 128 /\ v = u
    BY Zenon, <1>3, <2>1, <2>3
  <2>5. Written(s)
    BY <2>4, NumeralWritten DEF u
  <2>6. s[1] # Minus
    BY <1>3, <2>5 DEF Written
  <2> QED  BY <2>4, <2>5, <2>6 DEF IsNatural, u, v
<1> QED  BY <1>1, <1>2, <1>3

LEMMA WrittenVal ==
  ASSUME NEW ds, Written(ds)
  PROVE  Unsigned(ds) \in Word64 /\ Val(Unsigned(ds)) # 0
<1>1. PICK n \in 1..20 : n = Len(ds)
  BY TwentyDigits
<1>2. AllDigits(ds) /\ Unsigned(ds) # None
  BY DEF Written
<1>3. Unsigned(ds) = Prefixes(ds)[n] /\ Prefixes(ds)[n] \in Word64
  BY <1>1, <1>2, PrefixesGood
<1>4. Val(Prefixes(ds)[n]) >= 1
  <2>1. n \in 1..Len(ds)
    BY <1>1
  <2> QED  BY <2>1, PrefixGrows
<1> QED  BY <1>3, <1>4

\* A text that is a number is stored as eight bytes, and printed as it was.
LEMMA PrintedBack ==
  ASSUME NEW s \in Seq(Byte), strict_parse_i64(s) # None
  PROVE  strict_parse_i64(s) \in Word64 /\ Printed(strict_parse_i64(s)) = s
<1> DEFINE v == strict_parse_i64(s)
<1>1. CASE s = <<48>> /\ v = Zero64
  <2>1. Printed(Zero64) = DigitsOff(Zero64)[20].text
    <3>1. ~(Zero64[8] >= 128)
      BY DEF Zero64
    <3> QED  BY Zenon, <3>1 DEF Printed
  <2> QED  BY <1>1, <2>1, ZeroBack, ZeroType
<1>2. CASE IsNatural(s, v)
  <2>1. Written(s) /\ v = Unsigned(s) /\ v[8] < 128
    BY <1>2 DEF IsNatural
  <2>2. v \in Word64
    BY <2>1, WrittenVal
  <2> HIDE DEF v
  <2>3. ~(v[8] >= 128)
    <3>1. PICK x \in 0..255 : x = v[8]
      BY SMTT(30), <2>2, BytesOf DEF Byte
    <3>2. x < 128
      BY <2>1, <3>1
    <3>3. ~(x >= 128)
      BY <3>2
    <3> QED  BY <3>1, <3>3
  <2>4. Printed(v) = DigitsOff(v)[20].text
    BY Zenon, <2>3 DEF Printed
  <2> QED  BY <2>1, <2>2, <2>4, DigitsBack DEF v
<1>3. CASE IsNegative(s, v)
  <2> DEFINE ds == Tail(s)
             u == Unsigned(ds)
  <2>1. s # << >> /\ s[1] = Minus /\ Written(ds) /\ v = Negated(u) /\ (u[8] < 128 \/ u = Min64)
    BY <1>3 DEF IsNegative
  <2>2. u \in Word64 /\ Val(u) # 0
    BY <2>1, WrittenVal
  <2> HIDE DEF v, u, ds
  <2>3. v \in Word64 /\ v[8] >= 128 /\ Negated(v) = u
    BY <2>1, <2>2, NegatedVal, NegatedHigh, TwiceNegated
  <2>4. Printed(v) = <<Minus>> \o DigitsOff(u)[20].text
    BY Zenon, <2>3 DEF Printed
  <2>5. DigitsOff(u)[20].text = ds
    BY <2>1, DigitsBack DEF u
  <2>6. s = <<Minus>> \o ds
    <3>1. s = <<Head(s)>> \o Tail(s) /\ Head(s) = s[1]
      BY <2>1
    <3> QED  BY <2>1, <3>1 DEF ds
  <2> QED  BY <2>3, <2>4, <2>5, <2>6 DEF v
<1> QED  BY <1>1, <1>2, <1>3, ParseCases

-----------------------------------------------------------------------------
(* The bytes of the header.                                                *)

LEMMA ToLESeq ==
  ASSUME NEW n \in Nat, NEW k \in {2, 4}, \A i \in 1..k : ToLE(n, k)[i] \in Byte
  PROVE  ToLE(n, k) \in Seq(Byte) /\ Len(ToLE(n, k)) = k
<1>1. k \in Nat /\ ToLE(n, k) \in [1..k -> Byte]
  BY DEF ToLE
<1> QED  BY <1>1, FunctionSeq

Bytes2(n) == ToLE(n, 2)

LEMMA ToLETwo ==
  ASSUME NEW n \in Nat, n < 65536
  PROVE  Bytes2(n) \in Seq(Byte) /\ Len(Bytes2(n)) = 2 /\ U16(Bytes2(n)) = n
<1>1. ToLE(n, 2)[1] = n % 256 /\ ToLE(n, 2)[2] = (n \div 256) % 256
  <2>1. 256^0 = 1 /\ 256^1 = 256
    BY SMT
  <2>2. n \div 1 = n
    OBVIOUS
  <2> QED  BY <2>1, <2>2 DEF ToLE
<1>2. n % 256 \in 0..255 /\ (n \div 256) % 256 \in 0..255 /\ n = (n % 256) + 256 * ((n \div 256) % 256)
  <2>1. PICK a \in Nat : a = n \div 256
    OBVIOUS
  <2>2. a < 256
    BY <2>1
  <2>3. a % 256 = a
    BY <2>2
  <2> QED  BY <2>1, <2>2, <2>3, Parts DEF Byte
<1>3. ToLE(n, 2) \in Seq(Byte) /\ Len(ToLE(n, 2)) = 2
  <2>1. \A i \in 1..2 : i = 1 \/ i = 2
    OBVIOUS
  <2>2. \A i \in 1..2 : ToLE(n, 2)[i] \in Byte
    BY <1>1, <1>2, <2>1 DEF Byte
  <2> QED  BY <2>2, ToLESeq
<1> QED  BY <1>1, <1>2, <1>3 DEF U16, Bytes2

\* n fits into four bytes.
FourBytes(n) == n \in Nat /\ n \div 65536 < 65536

Bytes4(n) == ToLE(n, 4)

\* The four bytes of n, one by one.
BytesAre(n) ==
  /\ Bytes4(n)[1] = n % 256 /\ Bytes4(n)[2] = (n \div 256) % 256
  /\ Bytes4(n)[3] = (n \div 65536) % 256 /\ Bytes4(n)[4] = (n \div 16777216) % 256

LEMMA FourBytesOf ==
  ASSUME NEW n \in Nat
  PROVE  BytesAre(n)
<1>1. 256^0 = 1 /\ 256^1 = 256 /\ 256^2 = 65536 /\ 256^3 = 16777216
  BY SMT
<1>2. n \div 1 = n
  OBVIOUS
<1> QED  BY SMT, <1>1, <1>2 DEF BytesAre, Bytes4, ToLE

LEMMA FourBytesType ==
  ASSUME NEW n \in Nat
  PROVE  Bytes4(n) \in Seq(Byte) /\ Len(Bytes4(n)) = 4
<1>1. BytesAre(n)
  BY FourBytesOf
<1>2. /\ n % 256 \in 0..255 /\ (n \div 256) % 256 \in 0..255
      /\ (n \div 65536) % 256 \in 0..255 /\ (n \div 16777216) % 256 \in 0..255
  BY SMT
<1>3. \A i \in 1..4 : i = 1 \/ i = 2 \/ i = 3 \/ i = 4
  OBVIOUS
<1>4. \A i \in 1..4 : ToLE(n, 4)[i] \in Byte
  BY SMTT(30), <1>1, <1>2, <1>3 DEF Byte, BytesAre, Bytes4
<1>5. PICK k \in {2, 4} : k = 4
  OBVIOUS
<1>6. \A i \in 1..k : ToLE(n, k)[i] \in Byte
  BY <1>4, <1>5
<1>7. ToLE(n, k) \in Seq(Byte) /\ Len(ToLE(n, k)) = k
  BY <1>6, ToLESeq
<1> QED  BY <1>5, <1>7 DEF Bytes4

LEMMA ToLEFour ==
  ASSUME NEW n, FourBytes(n)
  PROVE  Bytes4(n) \in Seq(Byte) /\ Len(Bytes4(n)) = 4 /\ U32(Bytes4(n)) = n
<1>1. n \in Nat /\ n \div 65536 < 65536
  BY DEF FourBytes
<1>2. n = (n % 256) + 256 * (((n \div 256) % 256) + 256 * (((n \div 65536) % 256)
            + 256 * ((n \div 16777216) % 256)))
  BY SMT, <1>1
<1>3. BytesAre(n)
  BY <1>1, FourBytesOf
<1>4. U32(Bytes4(n)) = (n % 256) + 256 * (((n \div 256) % 256) + 256 * (((n \div 65536) % 256)
            + 256 * ((n \div 16777216) % 256)))
  BY SMT, <1>3 DEF U32, BytesAre
<1> QED  BY <1>1, <1>2, <1>4, FourBytesType

\* e stands in bytes behind the first o ones.
Stands(bytes, o, e) ==
  o + Len(e) <= Len(bytes) /\ \A i \in 1..Len(e) : bytes[o + i] = e[i]

LEMMA SliceIs ==
  ASSUME NEW bytes \in Seq(Byte), NEW o \in Nat, NEW e \in Seq(Byte), Stands(bytes, o, e)
  PROVE  Slice(bytes, o, Len(e)) = e
<1> DEFINE n == Len(e)
<1>0. n \in Nat /\ o + n <= Len(bytes) /\ \A i \in 1..n : bytes[o + i] = e[i]
  BY DEF Stands
<1> HIDE DEF n
<1>1. o + 1 \in 1..(Len(bytes) + 1) /\ o + n \in o..Len(bytes)
  BY <1>0
<1>2. /\ SubSeq(bytes, o + 1, o + n) \in Seq(Byte)
      /\ Len(SubSeq(bytes, o + 1, o + n)) = n
      /\ \A i \in 1..n : SubSeq(bytes, o + 1, o + n)[i] = bytes[o + i]
  BY <1>0, <1>1
<1>3. Len(e) = n
  BY DEF n
<1>4. SubSeq(bytes, o + 1, o + n) = e
  BY <1>0, <1>2, <1>3, SeqEqual
<1> QED  BY <1>4 DEF Slice, n

-----------------------------------------------------------------------------
(* What is encoded is decoded.                                             *)

One(a) == <<a>>

LEMMA Single ==
  ASSUME NEW a \in Byte
  PROVE  One(a) \in Seq(Byte) /\ Len(One(a)) = 1 /\ One(a)[1] = a
BY DEF One

Two(a, b) == <<a, b>>

LEMMA Pair ==
  ASSUME NEW a \in Byte, NEW b \in Byte
  PROVE  Two(a, b) \in Seq(Byte) /\ Len(Two(a, b)) = 2 /\ Two(a, b)[1] = a /\ Two(a, b)[2] = b
BY DEF Two

\* What stands behind a prefix stands further on.
LEMMA StandsJoined ==
  ASSUME NEW p \in Seq(Byte), NEW s \in Seq(Byte), NEW bytes \in Seq(Byte), NEW o \in Nat,
         Stands(bytes, o, p \o s)
  PROVE  Stands(bytes, o, p) /\ Stands(bytes, o + Len(p), s)
<1>1. /\ Len(p) \in Nat /\ Len(s) \in Nat /\ Len(p \o s) = Len(p) + Len(s) /\ Len(bytes) \in Nat
      /\ \A i \in 1..(Len(p) + Len(s)) : (p \o s)[i] = IF i <= Len(p) THEN p[i] ELSE s[i - Len(p)]
  BY ConcatProperties
<1> DEFINE m == Len(p)
           n == Len(s)
<1>2. /\ m \in Nat /\ n \in Nat /\ Len(bytes) \in Nat /\ o + m + n <= Len(bytes)
      /\ \A i \in 1..(m + n) : bytes[o + i] = (p \o s)[i]
      /\ \A i \in 1..(m + n) : (p \o s)[i] = IF i <= m THEN p[i] ELSE s[i - m]
  BY <1>1 DEF Stands
<1> HIDE DEF m, n
<1>3. \A i \in 1..m : bytes[o + i] = p[i]
  <2> TAKE i \in 1..m
  <2>1. i \in 1..(m + n) /\ i <= m
    BY <1>2
  <2> QED  BY <1>2, <2>1
<1>4. \A i \in 1..n : bytes[(o + m) + i] = s[i]
  <2> TAKE i \in 1..n
  <2>1. PICK j \in 1..(m + n) : j = m + i
    BY <1>2
  <2>2. ~(j <= m) /\ j - m = i /\ o + j = (o + m) + i
    BY <1>2, <2>1
  <2>3. bytes[o + j] = s[j - m]
    BY <1>2, <2>2
  <2> QED  BY <2>2, <2>3
<1>5. o + m <= Len(bytes) /\ (o + m) + n <= Len(bytes)
  BY <1>2
<1> QED  BY <1>3, <1>4, <1>5 DEF Stands, m, n

\* The cases of a header, for strings of n bytes.
IsShort(n, a) ==
  /\ StringHeader(n) = One(a) /\ a \in Byte
  /\ HeaderLen(a) = 1 /\ a \in 128..191 /\ a % 64 = n

LEMMA ShortHeader ==
  ASSUME NEW n \in Nat, n < 64
  PROVE  \E a : IsShort(n, a)
<1>1. PICK a \in Nat : a = 128 + n
  OBVIOUS
<1>2. StringHeader(n) = <<a>>
  BY <1>1 DEF StringHeader
<1>3. a \in Byte /\ HeaderLen(a) = 1 /\ a \in 128..191 /\ a % 64 = n
  BY <1>1 DEF Byte, HeaderLen
<1> QED  BY <1>2, <1>3 DEF IsShort, One

IsMiddle(n, a, b) ==
  /\ StringHeader(n) = Two(a, b) /\ a \in Byte /\ b \in Byte
  /\ a \in 224..239 /\ HeaderLen(a) = 2 /\ 256 * (a % 16) + b = n

LEMMA MiddleHeader ==
  ASSUME NEW n \in Nat, 64 <= n, n < 4096
  PROVE  \E a, b : IsMiddle(n, a, b)
<1>1. PICK q \in Nat : q = n \div 256
  OBVIOUS
<1>2. PICK b \in 0..255 : b = n % 256
  OBVIOUS
<1>3. n = 256 * q + b /\ q \in 0..15
  BY <1>1, <1>2
<1>4. PICK a \in 224..239 : a = 224 + q
  BY <1>3
<1>5. a % 16 = q
  BY <1>3, <1>4
<1>6. HeaderLen(a) = 2 /\ a \in Byte /\ b \in Byte
  BY <1>3 DEF HeaderLen, Byte
<1>7. StringHeader(n) = <<a, b>>
  <2>1. StringHeader(n) = <<224 + (n \div 256), n % 256>>
    BY DEF StringHeader
  <2> QED  BY <1>1, <1>2, <1>4, <2>1
<1>8. 256 * (a % 16) + b = n
  BY <1>3, <1>5
<1> QED  BY <1>6, <1>7, <1>8 DEF IsMiddle, Two

LEMMA LongHeader ==
  ASSUME NEW n \in Nat, 4096 <= n
  PROVE  StringHeader(n) = One(240) \o Bytes4(n)
BY DEF StringHeader, One, Bytes4

LEMMA HeaderType ==
  ASSUME NEW s \in Seq(Byte)
  PROVE  /\ StringHeader(Len(s)) \in Seq(Byte) /\ encode_string(s) = StringHeader(Len(s)) \o s
         /\ encode_string(s) \in Seq(Byte)
         /\ Len(encode_string(s)) = Len(StringHeader(Len(s))) + Len(s)
<1>1. encode_string(s) = StringHeader(Len(s)) \o s
  BY DEF encode_string
<1>2. PICK n \in Nat : n = Len(s)
  OBVIOUS
<1>3. StringHeader(n) \in Seq(Byte)
  <2>2. CASE n < 64
    <3>1. PICK a : IsShort(n, a)
      BY <2>2, ShortHeader
    <3> QED  BY <3>1, Single DEF IsShort
  <2>3. CASE 64 <= n /\ n < 4096
    <3>1. PICK a, b : IsMiddle(n, a, b)
      BY <2>3, MiddleHeader
    <3> QED  BY <3>1, Pair DEF IsMiddle
  <2>4. CASE 4096 <= n
    <3>1. StringHeader(n) = One(240) \o Bytes4(n)
      BY <2>4, LongHeader
    <3>2. One(240) \in Seq(Byte)
      <4>1. 240 \in Byte
        BY DEF Byte
      <4> QED  BY <4>1, Single
    <3>3. Bytes4(n) \in Seq(Byte)
      BY FourBytesType
    <3> QED  BY <3>1, <3>2, <3>3, ConcatProperties
  <2> QED  BY <2>2, <2>3, <2>4
<1>4. (StringHeader(n) \o s) \in Seq(Byte) /\ Len(StringHeader(n) \o s) = Len(StringHeader(n)) + Len(s)
  BY <1>3, ConcatProperties
<1> QED  BY <1>1, <1>2, <1>3, <1>4

\* What a header says.
LEMMA ShortLen ==
  ASSUME NEW bytes, NEW o \in Nat, NEW n \in Nat, NEW a, IsShort(n, a), bytes[o + 1] = a
  PROVE  /\ HeaderLen(bytes[o + 1]) = 1 /\ StringLen(bytes, o) = n
         /\ bytes[o + 1] \in 128..191 \cup 224..240
BY DEF StringLen, IsShort

LEMMA MiddleLen ==
  ASSUME NEW bytes, NEW o \in Nat, NEW n \in Nat, NEW a, NEW b, IsMiddle(n, a, b),
         bytes[o + 1] = a, bytes[o + 2] = b
  PROVE  /\ HeaderLen(bytes[o + 1]) = 2 /\ StringLen(bytes, o) = n
         /\ bytes[o + 1] \in 128..191 \cup 224..240
<1>1. a \in 224..239 /\ a \notin 128..191 /\ HeaderLen(a) = 2 /\ 256 * (a % 16) + b = n
  BY DEF IsMiddle
<1> QED  BY <1>1 DEF StringLen

LEMMA LongLen ==
  ASSUME NEW bytes, NEW o \in Nat, NEW n \in Nat,
         bytes[o + 1] = 240, U32(Slice(bytes, o + 1, 4)) = n
  PROVE  /\ HeaderLen(bytes[o + 1]) = 5 /\ StringLen(bytes, o) = n
         /\ bytes[o + 1] \in 128..191 \cup 224..240
BY DEF StringLen, HeaderLen

LEMMA StringAt ==
  ASSUME NEW bytes, NEW o \in Nat, NEW h \in {1, 2, 5}, NEW n \in Nat,
         HeaderLen(bytes[o + 1]) = h, StringLen(bytes, o) = n,
         bytes[o + 1] \in 128..191 \cup 224..240
  PROVE  ValueAt(bytes, o) = String(Slice(bytes, o + h, n)) /\ bytes[o + 1] < 245
<1>1. PICK a \in 128..191 \cup 224..240 : a = bytes[o + 1]
  OBVIOUS
<1>2. ~(a < 128) /\ a < 245 /\ a \notin 192..223 /\ a \notin 241..244
  OBVIOUS
<1>3. ValueAt(bytes, o) = String(Slice(bytes, o + h, n))
  BY <1>1, <1>2 DEF ValueAt
<1> QED  BY <1>1, <1>2, <1>3

LEMMA DecodeString ==
  ASSUME NEW s \in Seq(Byte), FourBytes(Len(s)),
         NEW bytes \in Seq(Byte), NEW o \in Nat, Stands(bytes, o, encode_string(s))
  PROVE  /\ bytes[o + 1] < 245
         /\ HeaderLen(bytes[o + 1]) \in {1, 2, 5}
         /\ HeaderLen(bytes[o + 1]) + StringLen(bytes, o) = Len(encode_string(s))
         /\ StringLen(bytes, o) \in Nat
         /\ ValueAt(bytes, o) = String(s)
<1>1. PICK n \in Nat : n = Len(s)
  OBVIOUS
<1> DEFINE p == StringHeader(n)
<1>2. /\ p \in Seq(Byte) /\ encode_string(s) = p \o s
      /\ Len(encode_string(s)) = Len(p) + Len(s)
  BY <1>1, HeaderType
<1> HIDE DEF p
<1>3. Stands(bytes, o, p) /\ Stands(bytes, o + Len(p), s)
  BY <1>2, StandsJoined
<1>4. PICK h \in Nat : h = Len(p)
  BY <1>2
<1>5. Slice(bytes, o + h, n) = s
  BY <1>1, <1>3, <1>4, SliceIs
<1>6. /\ HeaderLen(bytes[o + 1]) = h /\ h \in {1, 2, 5} /\ StringLen(bytes, o) = n
      /\ bytes[o + 1] \in 128..191 \cup 224..240
  <2>1. CASE n < 64
    <3>1. PICK a : IsShort(n, a)
      BY <2>1, ShortHeader
    <3>2. Len(p) = 1 /\ p[1] = a
      BY <3>1, Single DEF p, IsShort
    <3>3. bytes[o + 1] = a
      BY <1>3, <3>2 DEF Stands
    <3>4. /\ HeaderLen(bytes[o + 1]) = 1 /\ StringLen(bytes, o) = n
          /\ bytes[o + 1] \in 128..191 \cup 224..240
      BY ZenonT(60), <2>1, <3>1, <3>3, ShortLen
    <3> QED  BY <1>4, <3>2, <3>4
  <2>2. CASE 64 <= n /\ n < 4096
    <3>1. PICK a, b : IsMiddle(n, a, b)
      BY <2>2, MiddleHeader
    <3>2. Len(p) = 2 /\ p[1] = a /\ p[2] = b
      BY <3>1, Pair DEF p, IsMiddle
    <3>3. bytes[o + 1] = a /\ bytes[o + 2] = b
      BY <1>3, <3>2 DEF Stands
    <3>4. /\ HeaderLen(bytes[o + 1]) = 2 /\ StringLen(bytes, o) = n
          /\ bytes[o + 1] \in 128..191 \cup 224..240
      BY ONLY ZenonT(60), n \in Nat, o \in Nat, <3>1, <3>3, MiddleLen
    <3> QED  BY <1>4, <3>2, <3>4
  <2>3. CASE 4096 <= n
    <3>0. PICK m \in Byte : m = 240
      BY DEF Byte
    <3>1. p = One(m) \o Bytes4(n)
      BY <2>3, <3>0, LongHeader DEF p
    <3>2. Bytes4(n) \in Seq(Byte) /\ Len(Bytes4(n)) = 4 /\ U32(Bytes4(n)) = n
      BY <1>1, ToLEFour
    <3>3. One(m) \in Seq(Byte) /\ Len(One(m)) = 1 /\ One(m)[1] = m
      BY Single
    <3>4. Len(p) = Len(One(m)) + Len(Bytes4(n))
      BY <3>1, <3>2, <3>3, ConcatProperties
    <3>5. Stands(bytes, o, One(m)) /\ Stands(bytes, o + Len(One(m)), Bytes4(n))
      BY <1>3, <3>1, <3>2, <3>3, StandsJoined
    <3>6. bytes[o + 1] = m
      BY <3>3, <3>5 DEF Stands
    <3>7. PICK o1 \in Nat : o1 = o + 1
      OBVIOUS
    <3>8. Slice(bytes, o1, Len(Bytes4(n))) = Bytes4(n)
      BY <3>2, <3>3, <3>5, <3>7, SliceIs
    <3>9. U32(Slice(bytes, o + 1, 4)) = n
      BY <3>2, <3>7, <3>8
    <3>10. h = 5
      BY <1>4, <3>2, <3>3, <3>4
    <3> QED  BY <3>0, <3>6, <3>9, <3>10, LongLen
  <2> QED  BY <2>1, <2>2, <2>3
<1>7. ValueAt(bytes, o) = String(s) /\ bytes[o + 1] < 245
  BY <1>5, <1>6, StringAt
<1>8. Len(encode_string(s)) = h + n
  BY <1>1, <1>2, <1>4
<1> QED  BY <1>6, <1>7, <1>8

\* The lowest n bytes of v.
Low(v, n) == SubSeq(v, 1, n)

LEMMA LowIs ==
  ASSUME NEW v \in Word64, NEW n \in 1..8
  PROVE  /\ Low(v, n) \in Seq(Byte) /\ Len(Low(v, n)) = n
         /\ \A i \in 1..n : Low(v, n)[i] = v[i]
<1>1. \A i \in 1..n : v[i] \in Byte
  BY DEF Word64
<1>2. 1 \in Int /\ n \in Int /\ 1 <= n
  OBVIOUS
<1>3. /\ SubSeq(v, 1, n) \in Seq(Byte) /\ Len(SubSeq(v, 1, n)) = n - 1 + 1
      /\ \A i \in 1..(n - 1 + 1) : SubSeq(v, 1, n)[i] = v[1 + i - 1]
  BY <1>1, <1>2, SubSeqProperties
<1>4. n - 1 + 1 = n /\ \A i \in 1..n : 1 + i - 1 = i
  OBVIOUS
<1>5. \A i \in 1..n : SubSeq(v, 1, n)[i] = v[i]
  <2> TAKE i \in 1..n
  <2>1. 1 + i - 1 = i
    OBVIOUS
  <2> QED  BY <1>3, <1>4, <2>1
<1> QED  BY <1>3, <1>4, <1>5 DEF Low

LEMMA FitsIs ==
  ASSUME NEW v \in Word64, NEW n \in 1..8
  PROVE  Fits(v, n) <=> v = SignExtended(Low(v, n))
BY DEF Fits, Low

LEMMA EightFit ==
  ASSUME NEW v \in Word64
  PROVE  v = SignExtended(Low(v, 8))
<1>0. PICK n \in 1..8 : n = 8
  OBVIOUS
<1> DEFINE s == Low(v, n)
<1>1. Len(s) = n /\ \A i \in 1..n : s[i] = v[i]
  BY LowIs
<1> HIDE DEF s
<1>2. SignExtended(s) = [i \in 1..8 |-> s[i]]
  BY <1>0, <1>1 DEF SignExtended
<1>3. v = [i \in 1..8 |-> s[i]]
  BY <1>0, <1>1 DEF Word64
<1> QED  BY <1>0, <1>2, <1>3 DEF s

LEMMA WidthIs ==
  ASSUME NEW v \in Word64
  PROVE  Width(v) \in {2, 3, 4, 8} /\ v = SignExtended(Low(v, Width(v)))
<1> DEFINE P(n) == Fits(v, n) /\ \A k \in {2, 3, 4, 8} : Fits(v, k) => n <= k
<1>1. Fits(v, 8)
  BY EightFit DEF Fits, Low
<1>2. \E n \in {2, 3, 4, 8} : P(n)
  BY <1>1, SMT
<1>3. Width(v) \in {2, 3, 4, 8} /\ P(Width(v))
  <2>1. Width(v) = CHOOSE n \in {2, 3, 4, 8} : P(n)
    BY DEF Width
  <2> HIDE DEF P
  <2> QED  BY <1>2, <2>1
<1> QED  BY <1>3 DEF Fits, Low

\* The three forms of a number.
IsByte(v) == Fits(v, 1) /\ v[1] < 128
IsTwelve(v) == Width(v) = 2 /\ v[2] \in 0..15 \cup 240..255

LEMMA EncodeInt ==
  ASSUME NEW v
  PROVE  /\ IsByte(v) => encode_int(v) = One(v[1])
         /\ ~IsByte(v) /\ IsTwelve(v) => encode_int(v) = Two(192 + (v[2] % 32), v[1])
         /\ ~IsByte(v) /\ ~IsTwelve(v) => encode_int(v) = One(Mark(Width(v))) \o Low(v, Width(v))
BY Zenon DEF encode_int, IsByte, IsTwelve, One, Two, Low

Marks(a, n) == a \in 241..244 /\ HeaderLen(a) = n + 1

LEMMA MarkIs ==
  ASSUME NEW n \in {2, 3, 4, 8}
  PROVE  Marks(Mark(n), n)
BY DEF Marks, Mark, HeaderLen

Thirteen(a, b) ==
  /\ a \in 192..223 /\ HeaderLen(a) = 2
  /\ b = IF a % 32 >= 16 THEN (a % 32) + 224 ELSE a % 32

\* v[2] in thirteen bits, and back.
LEMMA TwelveIs ==
  ASSUME NEW b \in 0..15 \cup 240..255
  PROVE  \E a : a = 192 + (b % 32) /\ Thirteen(a, b)
<1>1. PICK r \in 0..31 : r = b % 32
  OBVIOUS
<1>2. PICK a \in 192..223 : a = 192 + r
  OBVIOUS
<1>3. HeaderLen(a) = 2 /\ a % 32 = r
  BY <1>2 DEF HeaderLen
<1>4. b = IF r >= 16 THEN r + 224 ELSE r
  BY <1>1
<1> QED  BY <1>1, <1>2, <1>3, <1>4 DEF Thirteen

\* What a byte in front of a number says.
LEMMA ByteAt ==
  ASSUME NEW bytes, NEW o \in Nat, NEW a \in 0..127, bytes[o + 1] = a
  PROVE  /\ HeaderLen(bytes[o + 1]) = 1 /\ StringLen(bytes, o) = 0
         /\ ValueAt(bytes, o) = Int64(SignExtended(One(a)))
<1>1. HeaderLen(a) = 1 /\ a \notin 128..191 /\ a \notin 224..239 /\ a # 240
      /\ a \notin 128..191 \cup 224..240 /\ a < 128
  BY DEF HeaderLen
<1>2. StringLen(bytes, o) = 0
  BY <1>1 DEF StringLen
<1>3. ValueAt(bytes, o) = Int64(SignExtended(One(a)))
  BY <1>1 DEF ValueAt, One
<1> QED  BY <1>1, <1>2, <1>3

LEMMA TwelveAt ==
  ASSUME NEW bytes, NEW o \in Nat, NEW a, NEW b,
         bytes[o + 1] = a, Thirteen(a, b)
  PROVE  /\ HeaderLen(bytes[o + 1]) = 2 /\ StringLen(bytes, o) = 0
         /\ ValueAt(bytes, o) = Int64(SignExtended(Two(bytes[o + 2], b)))
<1>1. a \notin 128..191 /\ a \notin 224..239 /\ a # 240
      /\ a \notin 128..191 \cup 224..240 /\ ~(a < 128) /\ a \notin 241..244
      /\ a \in 192..223
  BY DEF Thirteen
<1>2. StringLen(bytes, o) = 0
  BY <1>1 DEF StringLen
<1>3. ValueAt(bytes, o) = Int64(SignExtended(Two(bytes[o + 2], b)))
  BY <1>1 DEF ValueAt, Two, Thirteen
<1> QED  BY <1>2, <1>3 DEF Thirteen

LEMMA MarkAt ==
  ASSUME NEW bytes, NEW o \in Nat, NEW a, NEW n \in Nat,
         bytes[o + 1] = a, Marks(a, n)
  PROVE  /\ HeaderLen(bytes[o + 1]) = n + 1 /\ StringLen(bytes, o) = 0
         /\ ValueAt(bytes, o) = Int64(SignExtended(Slice(bytes, o + 1, n)))
<1>1. a \notin 128..191 /\ a \notin 224..239 /\ a # 240
      /\ a \notin 128..191 \cup 224..240 /\ ~(a < 128) /\ a \notin 192..223
      /\ a \in 241..244 /\ HeaderLen(a) = n + 1
  BY DEF Marks
<1>2. StringLen(bytes, o) = 0
  BY <1>1 DEF StringLen
<1>3. PICK h \in Nat : h = HeaderLen(a) /\ h - 1 = n
  BY <1>1
<1>4. ValueAt(bytes, o) = Int64(SignExtended(Slice(bytes, o + 1, h - 1)))
  BY <1>1, <1>3 DEF ValueAt
<1> QED  BY <1>1, <1>2, <1>3, <1>4

LEMMA LowOne ==
  ASSUME NEW v \in Word64
  PROVE  Low(v, 1) = One(v[1])
<1>0. PICK n \in 1..8 : n = 1
  OBVIOUS
<1>1. v[n] \in Byte
  BY DEF Word64
<1>2. Low(v, n) \in Seq(Byte) /\ Len(Low(v, n)) = n /\ \A i \in 1..n : Low(v, n)[i] = v[i]
  BY LowIs
<1>3. One(v[n]) \in Seq(Byte) /\ Len(One(v[n])) = 1 /\ One(v[n])[1] = v[n]
  BY <1>1, Single
<1>4. \A i \in 1..Len(Low(v, n)) : Low(v, n)[i] = One(v[n])[i]
  BY <1>0, <1>2, <1>3
<1>5. Low(v, n) = One(v[n])
  BY <1>0, <1>2, <1>3, <1>4, SeqEqual
<1> QED  BY <1>0, <1>5

LEMMA LowTwo ==
  ASSUME NEW v \in Word64
  PROVE  Low(v, 2) = Two(v[1], v[2])
<1>0. PICK n \in 1..8, m \in 1..8 : n = 2 /\ m = 1
  OBVIOUS
<1>1. v[m] \in Byte /\ v[n] \in Byte
  BY DEF Word64
<1> DEFINE t == Two(v[m], v[n])
<1>2. Low(v, n) \in Seq(Byte) /\ Len(Low(v, n)) = n /\ \A i \in 1..n : Low(v, n)[i] = v[i]
  BY LowIs
<1>3. t \in Seq(Byte) /\ Len(t) = 2 /\ t[1] = v[m] /\ t[2] = v[n]
  BY <1>1, Pair
<1> HIDE DEF t
<1>4. \A i \in 1..2 : Low(v, n)[i] = t[i]
  <2> TAKE i \in 1..2
  <2>1. i = 1 \/ i = 2
    OBVIOUS
  <2> QED  BY <1>0, <1>2, <1>3, <2>1
<1>5. Low(v, n) = t
  BY <1>0, <1>2, <1>3, <1>4, SeqEqual
<1> QED  BY <1>0, <1>5 DEF t

\* What is read at o: an encoding of n bytes, and a value.
Reads(bytes, o, n, value) ==
  /\ bytes[o + 1] < 245 /\ HeaderLen(bytes[o + 1]) \in 1..9
  /\ HeaderLen(bytes[o + 1]) + StringLen(bytes, o) = n /\ StringLen(bytes, o) \in Nat
  /\ ValueAt(bytes, o) = value

LEMMA DecodeByte ==
  ASSUME NEW v \in Word64, IsByte(v),
         NEW bytes \in Seq(Byte), NEW o \in Nat, Stands(bytes, o, encode_int(v))
  PROVE  encode_int(v) \in Seq(Byte) /\ Reads(bytes, o, Len(encode_int(v)), Int64(v))
<1>1. v[1] \in Byte
  BY DEF Word64
<1>2. PICK a \in 0..127 : a = v[1]
  <2>1. PICK x \in 0..255 : x = v[1]
    BY <1>1 DEF Byte
  <2>2. x < 128
    BY <2>1 DEF IsByte
  <2>3. x \in 0..127
    BY <2>2
  <2> QED  BY <2>1, <2>3
<1>3. encode_int(v) = One(a)
  BY <1>2, EncodeInt
<1>4. One(a) \in Seq(Byte) /\ Len(One(a)) = 1 /\ One(a)[1] = a
  BY <1>1, <1>2, Single
<1>5. bytes[o + 1] = a
  BY <1>3, <1>4 DEF Stands
<1>6. /\ HeaderLen(bytes[o + 1]) = 1 /\ StringLen(bytes, o) = 0
      /\ ValueAt(bytes, o) = Int64(SignExtended(One(a)))
  BY <1>5, ByteAt
<1>7. SignExtended(One(a)) = v
  BY <1>2, LowOne DEF IsByte, Fits, Low
<1>8. bytes[o + 1] < 245 /\ HeaderLen(bytes[o + 1]) \in 1..9
      /\ HeaderLen(bytes[o + 1]) + StringLen(bytes, o) = 1
  BY <1>5, <1>6
<1> QED  BY <1>3, <1>4, <1>6, <1>7, <1>8 DEF Reads

LEMMA DecodeTwelve ==
  ASSUME NEW v \in Word64, ~IsByte(v), IsTwelve(v),
         NEW bytes \in Seq(Byte), NEW o \in Nat, Stands(bytes, o, encode_int(v))
  PROVE  encode_int(v) \in Seq(Byte) /\ Reads(bytes, o, Len(encode_int(v)), Int64(v))
<1>1. v[1] \in Byte /\ v[2] \in 0..15 \cup 240..255 /\ Width(v) = 2
  BY DEF Word64, IsTwelve
<1>2. PICK b \in 0..15 \cup 240..255, c \in Byte : b = v[2] /\ c = v[1]
  BY <1>1
<1>3. PICK a : a = 192 + (b % 32) /\ Thirteen(a, b)
  BY TwelveIs
<1>4. encode_int(v) = Two(a, c)
  BY <1>2, <1>3, EncodeInt
<1>5. a \in 192..223 /\ a \in Byte
  BY <1>3 DEF Byte, Thirteen
<1>6. Two(a, c) \in Seq(Byte) /\ Len(Two(a, c)) = 2 /\ Two(a, c)[1] = a /\ Two(a, c)[2] = c
  BY <1>5, Pair
<1>7. bytes[o + 1] = a /\ bytes[o + 2] = c
  BY <1>4, <1>6 DEF Stands
<1>8. /\ HeaderLen(bytes[o + 1]) = 2 /\ StringLen(bytes, o) = 0
      /\ ValueAt(bytes, o) = Int64(SignExtended(Two(c, b)))
  BY ZenonT(60), <1>3, <1>7, TwelveAt
<1>9. SignExtended(Two(c, b)) = v
  BY <1>1, <1>2, LowTwo, WidthIs
<1>10. bytes[o + 1] < 245 /\ HeaderLen(bytes[o + 1]) \in 1..9
       /\ HeaderLen(bytes[o + 1]) + StringLen(bytes, o) = 2
  BY <1>5, <1>7, <1>8
<1> QED  BY <1>4, <1>6, <1>8, <1>9, <1>10 DEF Reads

LEMMA DecodeMark ==
  ASSUME NEW v \in Word64, ~IsByte(v), ~IsTwelve(v),
         NEW bytes \in Seq(Byte), NEW o \in Nat, Stands(bytes, o, encode_int(v))
  PROVE  encode_int(v) \in Seq(Byte) /\ Reads(bytes, o, Len(encode_int(v)), Int64(v))
<1>1. PICK n \in {2, 3, 4, 8} : n = Width(v) /\ v = SignExtended(Low(v, n))
  BY WidthIs
<1>2. PICK a : a = Mark(n) /\ Marks(a, n)
  BY MarkIs
<1>3. encode_int(v) = One(a) \o Low(v, n)
  BY <1>1, <1>2, EncodeInt
<1>4. a \in 241..244 /\ a \in Byte /\ n \in 1..8
  BY SMTT(30), <1>2 DEF Byte, Marks
<1>5. One(a) \in Seq(Byte) /\ Len(One(a)) = 1 /\ One(a)[1] = a
  BY <1>4, Single
<1>6. Low(v, n) \in Seq(Byte) /\ Len(Low(v, n)) = n
  BY <1>4, LowIs
<1>7. encode_int(v) \in Seq(Byte) /\ Len(encode_int(v)) = Len(One(a)) + Len(Low(v, n))
  BY ZenonT(60), <1>3, <1>5, <1>6, ConcatProperties
<1>8. Stands(bytes, o, One(a)) /\ Stands(bytes, o + Len(One(a)), Low(v, n))
  BY ZenonT(60), <1>3, <1>5, <1>6, StandsJoined
<1>9. bytes[o + 1] = a
  BY <1>5, <1>8 DEF Stands
<1>10. PICK o1 \in Nat : o1 = o + 1
  OBVIOUS
<1>11. Slice(bytes, o1, Len(Low(v, n))) = Low(v, n)
  BY <1>5, <1>6, <1>8, <1>10, SliceIs
<1>12. Slice(bytes, o + 1, n) = Low(v, n)
  BY <1>6, <1>10, <1>11
<1>13. /\ HeaderLen(bytes[o + 1]) = n + 1 /\ StringLen(bytes, o) = 0
       /\ ValueAt(bytes, o) = Int64(v)
  BY <1>1, <1>2, <1>4, <1>9, <1>12, MarkAt
<1>14. /\ bytes[o + 1] < 245 /\ HeaderLen(bytes[o + 1]) \in 1..9
       /\ HeaderLen(bytes[o + 1]) + StringLen(bytes, o) = 1 + n
  BY <1>4, <1>9, <1>13
<1>15. Len(encode_int(v)) = 1 + n
  BY <1>5, <1>6, <1>7
<1> QED  BY <1>7, <1>13, <1>14, <1>15 DEF Reads

LEMMA DecodeInt ==
  ASSUME NEW v \in Word64,
         NEW bytes \in Seq(Byte), NEW o \in Nat, Stands(bytes, o, encode_int(v))
  PROVE  encode_int(v) \in Seq(Byte) /\ Reads(bytes, o, Len(encode_int(v)), Int64(v))
BY DecodeByte, DecodeTwelve, DecodeMark

-----------------------------------------------------------------------------
(* Back lengths.                                                           *)

\* n without its lowest 7j bits.
Shift(n, j) == n \div 128^j

\* n is a length that encode_backlen takes.
EntryLen(n) == n \in Nat /\ n <= MaxEntry

LEMMA ShiftNone ==
  ASSUME NEW n \in Nat
  PROVE  Shift(n, 0) = n
<1>1. 128^0 = 1
  BY SMT
<1>2. n \div 1 = n
  OBVIOUS
<1> QED  BY <1>1, <1>2 DEF Shift

LEMMA ShiftValues ==
  ASSUME NEW n \in Nat
  PROVE  /\ Shift(n, 0) = n /\ Shift(n, 1) = n \div 128 /\ Shift(n, 2) = n \div 16384
         /\ Shift(n, 3) = n \div 2097152 /\ Shift(n, 4) = n \div 268435456
<1>1. 128^1 = 128 /\ 128^2 = 16384 /\ 128^3 = 2097152 /\ 128^4 = 268435456
  BY SMT
<1> QED  BY SMT, <1>1, ShiftNone DEF Shift

LEMMA ShiftIs ==
  ASSUME NEW n \in Nat, NEW j \in 0..4
  PROVE  Shift(n, j) \in Nat
<1>1. j = 0 \/ j = 1 \/ j = 2 \/ j = 3 \/ j = 4
  BY SMT
<1>2. n \div 128 \in Nat /\ n \div 16384 \in Nat /\ n \div 2097152 \in Nat /\ n \div 268435456 \in Nat
  BY SMT
<1> QED  BY SMT, <1>1, <1>2, ShiftValues

LEMMA ShiftStep ==
  ASSUME NEW n \in Nat, NEW j \in 0..3
  PROVE  Shift(n, j) = 128 * Shift(n, j + 1) + (Shift(n, j) % 128)
<1>1. n = 128 * (n \div 128) + (n % 128)
  BY SMT
<1>2. n \div 128 = 128 * (n \div 16384) + ((n \div 128) % 128)
  BY SMT
<1>3. n \div 16384 = 128 * (n \div 2097152) + ((n \div 16384) % 128)
  BY SMT
<1>4. n \div 2097152 = 128 * (n \div 268435456) + ((n \div 2097152) % 128)
  BY SMT
<1>5. CASE j = 0
  <2>1. j + 1 = 1
    BY SMT, <1>5
  <2>2. Shift(n, j) = n /\ Shift(n, j + 1) = n \div 128
    BY SMT, <1>5, <2>1, ShiftValues
  <2> QED  BY SMT, <1>1, <2>2
<1>6. CASE j = 1
  <2>1. j + 1 = 2
    BY SMT, <1>6
  <2>2. Shift(n, j) = n \div 128 /\ Shift(n, j + 1) = n \div 16384
    BY SMT, <1>6, <2>1, ShiftValues
  <2>3. PICK x \in Nat, y \in Nat : x = n \div 128 /\ y = n \div 16384
    BY SMT
  <2>4. x = 128 * y + (x % 128)
    BY SMT, <1>2, <2>3
  <2>5. x = Shift(n, j) /\ y = Shift(n, j + 1)
    BY SMT, <2>2, <2>3
  <2> QED  BY SMT, <2>4, <2>5
<1>7. CASE j = 2
  <2>1. j + 1 = 3
    BY SMT, <1>7
  <2>2. Shift(n, j) = n \div 16384 /\ Shift(n, j + 1) = n \div 2097152
    BY SMT, <1>7, <2>1, ShiftValues
  <2> QED  BY SMT, <1>3, <2>2
<1>8. CASE j = 3
  <2>1. j + 1 = 4
    BY SMT, <1>8
  <2>2. Shift(n, j) = n \div 2097152 /\ Shift(n, j + 1) = n \div 268435456
    BY SMT, <1>8, <2>1, ShiftValues
  <2> QED  BY SMT, <1>4, <2>2
<1> QED  BY SMT, <1>5, <1>6, <1>7, <1>8

LEMMA BackSize ==
  ASSUME NEW n, EntryLen(n)
  PROVE  backlen_size(n) \in 1..5 /\ Shift(n, backlen_size(n) - 1) < 128
<1>1. n \in Nat /\ n <= 268435455
  BY SMT DEF EntryLen, MaxEntry
<1>2. CASE n <= 127
  <2>1. backlen_size(n) = 1
    BY SMT, <1>2 DEF backlen_size
  <2> QED  BY SMT, <1>1, <1>2, <2>1, ShiftValues
<1>3. CASE ~(n <= 127) /\ n < 16383
  <2>1. backlen_size(n) = 2
    BY SMT, <1>3 DEF backlen_size
  <2>2. n \div 128 < 128
    BY SMT, <1>1, <1>3
  <2> QED  BY SMT, <1>1, <2>1, <2>2, ShiftValues
<1>4. CASE ~(n <= 127) /\ ~(n < 16383) /\ n < 2097151
  <2>1. backlen_size(n) = 3
    BY SMT, <1>4 DEF backlen_size
  <2>2. n \div 16384 < 128
    BY SMT, <1>1, <1>4
  <2> QED  BY SMT, <1>1, <2>1, <2>2, ShiftValues
<1>5. CASE ~(n <= 127) /\ ~(n < 16383) /\ ~(n < 2097151) /\ n < 268435455
  <2>1. backlen_size(n) = 4
    BY SMT, <1>5 DEF backlen_size
  <2>2. n \div 2097152 < 128
    BY SMT, <1>1, <1>5
  <2> QED  BY SMT, <1>1, <2>1, <2>2, ShiftValues
<1>6. CASE ~(n <= 127) /\ ~(n < 16383) /\ ~(n < 2097151) /\ ~(n < 268435455)
  <2>1. backlen_size(n) = 5
    BY SMT, <1>6 DEF backlen_size
  <2>2. n \div 268435456 < 128
    BY SMT, <1>1, <1>6
  <2> QED  BY SMT, <1>1, <2>1, <2>2, ShiftValues
<1> QED  BY SMT, <1>1, <1>2, <1>3, <1>4, <1>5, <1>6

LEMMA BackBytes ==
  ASSUME NEW n, EntryLen(n)
  PROVE  /\ encode_backlen(n) \in Seq(Byte) /\ Len(encode_backlen(n)) = backlen_size(n)
         /\ \A i \in 1..backlen_size(n) :
              encode_backlen(n)[i] = IF i = 1 THEN Shift(n, backlen_size(n) - 1)
                                     ELSE (Shift(n, backlen_size(n) - i) % 128) + 128
<1>0. n \in Nat
  BY DEF EntryLen
<1>1. PICK k \in 1..5 : k = backlen_size(n) /\ Shift(n, k - 1) < 128
  BY BackSize
<1> DEFINE e == encode_backlen(n)
<1>2. e = [i \in 1..k |-> IF i = 1 THEN Shift(n, k - i) % 256 ELSE (Shift(n, k - i) % 128) + 128]
  BY <1>1 DEF encode_backlen, Shift
<1> HIDE DEF e
<1>3. \A i \in 1..k : /\ e[i] \in Byte
                      /\ e[i] = IF i = 1 THEN Shift(n, k - 1) ELSE (Shift(n, k - i) % 128) + 128
  <2> TAKE i \in 1..k
  <2>1. k - i \in 0..4
    OBVIOUS
  <2>2. PICK x \in Nat : x = Shift(n, k - i)
    BY <1>0, <2>1, ShiftIs
  <2>3. x % 128 \in 0..127
    OBVIOUS
  <2>4. i = 1 => x < 128 /\ x % 256 = x
    <3> SUFFICES ASSUME i = 1 PROVE x < 128 /\ x % 256 = x
      OBVIOUS
    <3>1. x < 128
      BY <1>1, <2>2
    <3> QED  BY <3>1
  <2>5. e[i] = IF i = 1 THEN x % 256 ELSE (x % 128) + 128
    BY <1>2, <2>2
  <2>6. CASE i = 1
    <3>1. e[i] = x /\ x \in 0..255
      BY <2>4, <2>5, <2>6
    <3> QED  BY <2>2, <2>6, <3>1 DEF Byte
  <2>7. CASE i # 1
    <3>1. e[i] = (x % 128) + 128 /\ (x % 128) + 128 \in 0..255
      BY <2>3, <2>5, <2>7
    <3> QED  BY <2>2, <2>7, <3>1 DEF Byte
  <2> QED  BY <2>6, <2>7
<1>4. e \in [1..k -> Byte] /\ k \in Nat
  BY <1>2, <1>3
<1>5. e \in Seq(Byte) /\ Len(e) = k
  BY <1>4, FunctionSeq
<1> QED  BY <1>1, <1>3, <1>5 DEF e

-----------------------------------------------------------------------------
(* Entries.                                                                *)

LEMMA IntType ==
  ASSUME NEW v \in Word64
  PROVE  encode_int(v) \in Seq(Byte) /\ Len(encode_int(v)) >= 1
<1>1. CASE IsByte(v)
  <2>1. v[1] \in Byte /\ encode_int(v) = One(v[1])
    BY <1>1, EncodeInt DEF Word64
  <2> QED  BY <2>1, Single
<1>2. CASE ~IsByte(v) /\ IsTwelve(v)
  <2>1. v[1] \in Byte /\ v[2] \in 0..15 \cup 240..255
    BY <1>2 DEF Word64, IsTwelve
  <2>2. PICK b \in 0..15 \cup 240..255 : b = v[2]
    BY <2>1
  <2>3. PICK a : a = 192 + (b % 32) /\ Thirteen(a, b)
    BY TwelveIs
  <2>4. a \in Byte
    BY <2>3 DEF Byte, Thirteen
  <2>5. encode_int(v) = Two(a, v[1])
    BY <1>2, <2>2, <2>3, EncodeInt
  <2> QED  BY <2>1, <2>4, <2>5, Pair
<1>3. CASE ~IsByte(v) /\ ~IsTwelve(v)
  <2>1. PICK n \in {2, 3, 4, 8} : n = Width(v)
    BY WidthIs
  <2>2. PICK a : a = Mark(n) /\ Marks(a, n)
    BY MarkIs
  <2>3. a \in Byte /\ n \in 1..8
    BY <2>2 DEF Byte, Marks
  <2>4. encode_int(v) = One(a) \o Low(v, n)
    BY <1>3, <2>1, <2>2, EncodeInt
  <2>5. One(a) \in Seq(Byte) /\ Len(One(a)) = 1 /\ Low(v, n) \in Seq(Byte) /\ Len(Low(v, n)) = n
    BY <2>3, Single, LowIs
  <2> QED  BY <2>3, <2>4, <2>5, ConcatProperties
<1> QED  BY <1>1, <1>2, <1>3

\* What decode_entry reads of a value.
Stored(s) ==
  LET v == strict_parse_i64(s)
  IN  IF v # None THEN Int64(v) ELSE String(s)

LEMMA HeaderLong ==
  ASSUME NEW s \in Seq(Byte)
  PROVE  Len(StringHeader(Len(s))) >= 1
<1>1. PICK n \in Nat : n = Len(s)
  OBVIOUS
<1>2. CASE n < 64
  <2>1. PICK a : IsShort(n, a)
    BY <1>2, ShortHeader
  <2> QED  BY <1>1, <2>1, Single DEF IsShort
<1>3. CASE 64 <= n /\ n < 4096
  <2>1. PICK a, b : IsMiddle(n, a, b)
    BY <1>3, MiddleHeader
  <2> QED  BY <1>1, <2>1, Pair DEF IsMiddle
<1>4. CASE 4096 <= n
  <2>0. PICK m \in Byte : m = 240
    BY DEF Byte
  <2>1. StringHeader(n) = One(m) \o Bytes4(n)
    BY <1>4, <2>0, LongHeader
  <2>2. One(m) \in Seq(Byte) /\ Len(One(m)) = 1
    BY Single
  <2>3. Bytes4(n) \in Seq(Byte) /\ Len(Bytes4(n)) = 4
    BY FourBytesType
  <2>4. Len(One(m) \o Bytes4(n)) = Len(One(m)) + Len(Bytes4(n))
    BY <2>2, <2>3, ConcatProperties
  <2> QED  BY <1>1, <2>1, <2>2, <2>3, <2>4
<1> QED  BY <1>2, <1>3, <1>4

LEMMA EncodingType ==
  ASSUME NEW s \in Seq(Byte)
  PROVE  encoding(s) \in Seq(Byte) /\ Len(encoding(s)) \in Nat /\ Len(encoding(s)) >= 1
<1>1. CASE strict_parse_i64(s) # None
  <2>1. strict_parse_i64(s) \in Word64 /\ encoding(s) = encode_int(strict_parse_i64(s))
    BY <1>1, PrintedBack DEF encoding
  <2> QED  BY <2>1, IntType
<1>2. CASE strict_parse_i64(s) = None
  <2>1. encoding(s) = encode_string(s)
    BY <1>2 DEF encoding
  <2>2. PICK n \in Nat, h \in Nat : n = Len(s) /\ h = Len(StringHeader(Len(s))) /\ h >= 1
    BY HeaderLong, HeaderType
  <2>3. encode_string(s) \in Seq(Byte) /\ Len(encode_string(s)) = h + n
    BY <2>2, HeaderType
  <2> QED  BY <2>1, <2>2, <2>3
<1> QED  BY <1>1, <1>2

LEMMA ReadsEncoding ==
  ASSUME NEW s \in Seq(Byte), EntryLen(Len(encoding(s))),
         NEW bytes \in Seq(Byte), NEW o \in Nat, Stands(bytes, o, encoding(s))
  PROVE  Reads(bytes, o, Len(encoding(s)), Stored(s))
<1>1. CASE strict_parse_i64(s) # None
  <2>1. strict_parse_i64(s) \in Word64 /\ encoding(s) = encode_int(strict_parse_i64(s))
    BY <1>1, PrintedBack DEF encoding
  <2>2. Stored(s) = Int64(strict_parse_i64(s))
    BY <1>1 DEF Stored
  <2> QED  BY <2>1, <2>2, DecodeInt
<1>2. CASE strict_parse_i64(s) = None
  <2>1. encoding(s) = encode_string(s) /\ Stored(s) = String(s)
    BY <1>2 DEF encoding, Stored
  <2>2. PICK n \in Nat, h \in Nat : n = Len(s) /\ h = Len(StringHeader(Len(s)))
    BY HeaderType
  <2>3. Len(encode_string(s)) = h + n
    BY <2>2, HeaderType
  <2>4. h + n <= 268435455
    BY SMT, <2>1, <2>3 DEF EntryLen, MaxEntry
  <2>5. FourBytes(n)
    BY SMT, <2>4 DEF FourBytes
  <2>6. /\ bytes[o + 1] < 245 /\ HeaderLen(bytes[o + 1]) \in {1, 2, 5}
        /\ HeaderLen(bytes[o + 1]) + StringLen(bytes, o) = Len(encode_string(s))
        /\ StringLen(bytes, o) \in Nat
        /\ ValueAt(bytes, o) = String(s)
    BY <2>1, <2>2, <2>5, DecodeString
  <2>7. HeaderLen(bytes[o + 1]) \in 1..9
    BY <2>6
  <2> QED  BY <2>1, <2>6, <2>7 DEF Reads
<1> QED  BY <1>1, <1>2

\* A value as it stands in a listpack.
Coded(s) == encoding(s) \o encode_backlen(Len(encoding(s)))

Fit(s) == s \in Seq(Byte) /\ EntryLen(Len(encoding(s)))

LEMMA CodedIs ==
  ASSUME NEW s, Fit(s)
  PROVE  /\ Coded(s) \in Seq(Byte) /\ Len(Coded(s)) \in Nat
         /\ encoding(s) \in Seq(Byte) /\ Len(encoding(s)) \in Nat /\ Len(encoding(s)) >= 1
         /\ encode_backlen(Len(encoding(s))) \in Seq(Byte)
         /\ Len(encode_backlen(Len(encoding(s)))) = backlen_size(Len(encoding(s)))
         /\ backlen_size(Len(encoding(s))) \in 1..5
         /\ Len(Coded(s)) = Len(encoding(s)) + backlen_size(Len(encoding(s)))
<1>1. encoding(s) \in Seq(Byte) /\ Len(encoding(s)) \in Nat /\ Len(encoding(s)) >= 1
  BY EncodingType DEF Fit
<1> DEFINE n == Len(encoding(s))
<1>2. /\ encode_backlen(n) \in Seq(Byte) /\ Len(encode_backlen(n)) = backlen_size(n)
      /\ backlen_size(n) \in 1..5
  BY BackBytes, BackSize DEF Fit
<1>3. Coded(s) \in Seq(Byte) /\ Len(Coded(s)) = n + Len(encode_backlen(n))
  BY <1>1, <1>2, ConcatProperties DEF Coded
<1> QED  BY <1>1, <1>2, <1>3

LEMMA DecodeEntry ==
  ASSUME NEW s, Fit(s), NEW bytes \in Seq(Byte), NEW o \in Nat, Stands(bytes, o, Coded(s))
  PROVE  /\ bytes[o + 1] < 245
         /\ decode_entry(bytes, o) = [value |-> Stored(s), len |-> Len(Coded(s))]
<1>1. /\ encoding(s) \in Seq(Byte) /\ Len(encoding(s)) \in Nat
      /\ encode_backlen(Len(encoding(s))) \in Seq(Byte)
      /\ Len(encode_backlen(Len(encoding(s)))) = backlen_size(Len(encoding(s)))
      /\ backlen_size(Len(encoding(s))) \in 1..5
      /\ Len(Coded(s)) = Len(encoding(s)) + backlen_size(Len(encoding(s)))
  BY CodedIs
<1>2. PICK n \in Nat, k \in 1..5 : n = Len(encoding(s)) /\ k = backlen_size(n)
  BY <1>1
<1> DEFINE b == encode_backlen(n)
<1>3. b \in Seq(Byte) /\ Len(b) = k /\ Len(Coded(s)) = n + k /\ Coded(s) = encoding(s) \o b
  BY <1>1, <1>2 DEF Coded
<1> HIDE DEF b
<1>4. Stands(bytes, o, encoding(s)) /\ Stands(bytes, o + Len(encoding(s)), b)
  BY <1>1, <1>3, StandsJoined
<1>5. Slice(bytes, o + n, k) = b
  <2>1. PICK o1 \in Nat : o1 = o + n
    OBVIOUS
  <2>2. Stands(bytes, o1, b)
    BY <1>2, <1>4, <2>1
  <2>3. Slice(bytes, o1, Len(b)) = b
    BY <1>3, <2>2, SliceIs
  <2> QED  BY <1>3, <2>1, <2>3
<1>6. Reads(bytes, o, n, Stored(s))
  BY <1>2, <1>4, ReadsEncoding DEF Fit
<1>7. PICK h \in 1..9, x \in Nat : /\ h = HeaderLen(bytes[o + 1]) /\ x = StringLen(bytes, o)
                                 /\ h + x = n /\ bytes[o + 1] < 245
                                 /\ ValueAt(bytes, o) = Stored(s)
  BY <1>6 DEF Reads
<1>8. PICK l \in Int : l = Len(bytes) - o /\ l >= n + k
  <2>1. o + Len(Coded(s)) <= Len(bytes)
    BY DEF Stands
  <2> QED  BY SMTT(30), <1>3, <2>1
<1>9. /\ ~(h = 0 \/ l < h) /\ ~(l < n + k \/ n > MaxEntry)
  <2>1. ~(n > MaxEntry)
    BY SMT, <1>2 DEF Fit, EntryLen, MaxEntry
  <2>2. ~(h = 0 \/ l < h) /\ ~(l < n + k)
    BY SMTT(30), <1>7, <1>8
  <2> QED  BY <2>1, <2>2
<1>10. decode_entry(bytes, o) =
         IF h = 0 \/ l < h THEN None
         ELSE IF l < n + k \/ n > MaxEntry THEN None
         ELSE IF Slice(bytes, o + n, k) # encode_backlen(n) THEN None
         ELSE [value |-> ValueAt(bytes, o), len |-> n + k]
  BY ZenonT(60), <1>2, <1>7, <1>8 DEF decode_entry
<1>11. decode_entry(bytes, o) = [value |-> ValueAt(bytes, o), len |-> n + k]
  BY Zenon, <1>5, <1>9, <1>10 DEF b
<1> QED  BY <1>3, <1>7, <1>11

-----------------------------------------------------------------------------
(* The walk through the entries.                                           *)

LEMMA HeaderLenOf ==
  ASSUME NEW a \in Nat, a < 256
  PROVE  /\ HeaderLen(a) \in Nat /\ (224 <= a /\ a < 240 => HeaderLen(a) = 2)
         /\ (a = 240 => HeaderLen(a) = 5)
<1>1. a < 192 \/ (192 <= a /\ a < 240) \/ a \in {240, 241, 242, 243, 244} \/ a > 244
  OBVIOUS
<1>2. CASE a < 192
  BY <1>2 DEF HeaderLen
<1>3. CASE 192 <= a /\ a < 240
  <2>1. HeaderLen(a) = 2
    BY <1>3 DEF HeaderLen
  <2> QED  BY <1>3, <2>1
<1>4. CASE a \in {240, 241, 242, 243, 244}
  BY <1>4 DEF HeaderLen
<1>5. CASE a > 244
  BY <1>5 DEF HeaderLen
<1> QED  BY <1>1, <1>2, <1>3, <1>4, <1>5

LengthCases(bytes, o, a) ==
  /\ (128 <= a /\ a < 192 => StringLen(bytes, o) = a % 64)
  /\ (224 <= a /\ a < 240 => StringLen(bytes, o) = 256 * (a % 16) + bytes[o + 2])
  /\ (a = 240 => StringLen(bytes, o) = U32(Slice(bytes, o + 1, 4)))
  /\ (a < 128 \/ (192 <= a /\ a < 224) \/ a > 240 => StringLen(bytes, o) = 0)

LEMMA StringLenOf ==
  ASSUME NEW bytes, NEW o, NEW a \in Nat, a = bytes[o + 1]
  PROVE  LengthCases(bytes, o, a)
<1> USE DEF LengthCases
<1>1. CASE 128 <= a /\ a < 192
  BY <1>1 DEF StringLen
<1>2. CASE 224 <= a /\ a < 240
  BY <1>2 DEF StringLen
<1>3. CASE a = 240
  BY <1>3 DEF StringLen
<1>4. CASE a < 128 \/ (192 <= a /\ a < 224) \/ a > 240
  BY <1>4 DEF StringLen
<1> QED  BY <1>1, <1>2, <1>3, <1>4

LEMMA SliceFour ==
  ASSUME NEW bytes \in Seq(Byte), NEW p \in Nat, p + 4 <= Len(bytes)
  PROVE  U32(Slice(bytes, p, 4)) \in Nat
<1>1. PICK N \in Nat : N = Len(bytes)
  OBVIOUS
<1>2. p + 1 \in 1..N /\ p + 2 \in 1..N /\ p + 3 \in 1..N /\ p + 4 \in 1..N
  BY <1>1
<1>3. \A i \in 1..N : bytes[i] \in Nat
  <2>1. \A b \in Byte : b \in Nat
    BY DEF Byte
  <2> QED  BY <1>1, <2>1
<1>4. PICK a \in Nat, b \in Nat, c \in Nat, d \in Nat :
        a = bytes[p + 1] /\ b = bytes[p + 2] /\ c = bytes[p + 3] /\ d = bytes[p + 4]
  BY <1>2, <1>3
<1> DEFINE s == SubSeq(bytes, p + 1, p + 4)
<1>5. s[1] = a /\ s[2] = b /\ s[3] = c /\ s[4] = d
  <2>1. \A i \in 1..4 : s[i] = bytes[p + i]
    BY <1>1, <1>2
  <2> QED  BY <1>4, <2>1
<1>6. U32(s) = a + 256 * (b + 256 * (c + 256 * d))
  BY ZenonT(60), <1>5 DEF U32
<1>7. U32(s) \in Nat
  BY <1>6
<1> QED  BY <1>7 DEF Slice

\* An entry that is not corrupted ends within the bytes.
LEMMA EntryEnds ==
  ASSUME NEW bytes \in Seq(Byte), NEW o \in Nat, o < Len(bytes), decode_entry(bytes, o) # None
  PROVE  decode_entry(bytes, o).len \in Nat /\ decode_entry(bytes, o).len >= 1
         /\ o + decode_entry(bytes, o).len <= Len(bytes)
<1>1. PICK N \in Nat : N = Len(bytes)
  OBVIOUS
<1>2. \A i \in 1..N : bytes[i] \in 0..255
  BY <1>1 DEF Byte
<1>3. PICK first \in 0..255 : first = bytes[o + 1]
  <2>1. o + 1 \in 1..N
    BY <1>1
  <2> QED  BY <1>2, <2>1
<1>4. PICK h \in Nat : h = HeaderLen(first)
  <2>1. first \in Nat /\ first < 256
    OBVIOUS
  <2> QED  BY <2>1, HeaderLenOf
<1>5. ~(h = 0 \/ N - o < h)
  <2> SUFFICES ASSUME h = 0 \/ N - o < h PROVE decode_entry(bytes, o) = None
    OBVIOUS
  <2> QED  BY Zenon, <1>1, <1>3, <1>4 DEF decode_entry
<1>6. StringLen(bytes, o) \in Nat
  <2>0. PICK a \in Nat : a = first /\ a < 256 /\ a = bytes[o + 1] /\ h = HeaderLen(a)
    <3>1. first \in Nat /\ first < 256
      OBVIOUS
    <3>2. first \in Nat /\ first < 256 /\ first = bytes[o + 1] /\ h = HeaderLen(first)
      BY Zenon, <3>1, <1>3, <1>4
    <3> QED  BY Zenon, <3>2
  <2> LengthCases(bytes, o, a)
    BY <2>0, StringLenOf
  <2>1. CASE 128 <= a /\ a < 192
    <3>1. StringLen(bytes, o) = a % 64 /\ a % 64 \in Nat
      BY <2>1 DEF LengthCases
    <3> QED  BY <3>1
  <2>2. CASE 224 <= a /\ a < 240
    <3>1. h = 2
      BY <2>0, <2>2, HeaderLenOf
    <3>2. PICK b \in 0..255 : b = bytes[o + 2]
      <4>1. o + 2 \in 1..N
        BY <1>5, <3>1
      <4> QED  BY <1>2, <4>1
    <3>3. PICK m \in Nat : m = a % 16
      OBVIOUS
    <3>4. StringLen(bytes, o) = 256 * (a % 16) + bytes[o + 2]
      BY <2>2 DEF LengthCases
    <3>5. StringLen(bytes, o) = 256 * m + b
      BY <3>2, <3>3, <3>4
    <3> QED  BY <3>5
  <2>3. CASE a = 240
    <3>1. h = 5
      BY <2>0, <2>3, HeaderLenOf
    <3>2. PICK p \in Nat : p = o + 1 /\ p + 4 <= N
      BY <1>5, <3>1
    <3>3. U32(Slice(bytes, p, 4)) \in Nat
      BY <1>1, <3>2, SliceFour
    <3>4. StringLen(bytes, o) = U32(Slice(bytes, o + 1, 4))
      BY <2>3 DEF LengthCases
    <3> QED  BY <3>2, <3>3, <3>4
  <2>4. CASE a < 128 \/ (192 <= a /\ a < 224) \/ a > 240
    <3>1. StringLen(bytes, o) = 0
      BY <2>4 DEF LengthCases
    <3> QED  BY <3>1
  <2>5. (128 <= a /\ a < 192) \/ (224 <= a /\ a < 240) \/ a = 240 \/ (a < 128 \/ (192 <= a /\ a < 224) \/ a > 240)
    OBVIOUS
  <2> QED  BY <2>1, <2>2, <2>3, <2>4, <2>5
<1>7. PICK x \in Nat : x = StringLen(bytes, o)
  BY <1>6
<1>8. PICK k \in 1..5 : k = backlen_size(h + x)
  BY DEF backlen_size
<1>9. ~(N - o < (h + x) + k)
  <2> SUFFICES ASSUME N - o < (h + x) + k PROVE decode_entry(bytes, o) = None
    OBVIOUS
  <2> QED  BY Zenon, <1>1, <1>3, <1>4, <1>5, <1>7, <1>8 DEF decode_entry
<1>10. decode_entry(bytes, o) \in {None, [value |-> ValueAt(bytes, o), len |-> (h + x) + k]}
  BY Zenon, <1>1, <1>3, <1>4, <1>7, <1>8 DEF decode_entry
<1>11. decode_entry(bytes, o).len = (h + x) + k
  BY <1>10
<1> QED  BY <1>1, <1>5, <1>9, <1>11

\* What follows from offset o, if f says what follows behind it.
EntryStep(bytes, f, o) ==
  IF o >= Len(bytes) THEN << >>
  ELSE IF bytes[o + 1] = LP_EOF THEN << >>
  ELSE IF decode_entry(bytes, o) = None THEN << >>
  ELSE <<[value |-> decode_entry(bytes, o).value, at |-> o]>> \o f[o + decode_entry(bytes, o).len]

\* It rests on what f says behind o only.
LEMMA StepLooksOn ==
  ASSUME NEW bytes \in Seq(Byte), NEW o \in 0..Len(bytes), NEW f, NEW g,
         \A p \in (o + 1)..Len(bytes) : f[p] = g[p]
  PROVE  EntryStep(bytes, f, o) = EntryStep(bytes, g, o)
<1>1. CASE o >= Len(bytes) \/ decode_entry(bytes, o) = None
  BY <1>1 DEF EntryStep
<1>2. CASE ~(o >= Len(bytes)) /\ decode_entry(bytes, o) # None
  <2>0. o \in Nat /\ o < Len(bytes)
    BY <1>2
  <2>1. PICK n \in Nat : n = decode_entry(bytes, o).len /\ n >= 1 /\ o + n <= Len(bytes)
    BY <2>0, <1>2, EntryEnds
  <2>2. o + n \in (o + 1)..Len(bytes)
    BY <2>1
  <2>3. f[o + decode_entry(bytes, o).len] = g[o + decode_entry(bytes, o).len]
    BY <2>1, <2>2
  <2> QED  BY Zenon, <2>3 DEF EntryStep
<1> QED  BY <1>1, <1>2

\* f says what follows from every offset.
Walks(bytes, f) == f = [o \in 0..Len(bytes) |-> EntryStep(bytes, f, o)]

LEMMA WalkExists ==
  ASSUME NEW bytes \in Seq(Byte)
  PROVE  \E f : Walks(bytes, f)
<1>1. PICK N \in Nat : N = Len(bytes)
  OBVIOUS
<1> DEFINE Good(f, i) == /\ f = [o \in 0..N |-> f[o]]
                         /\ \A o \in (N - i)..N : f[o] = EntryStep(bytes, f, o)
           T == {i \in 0..N : \E f : Good(f, i)}
<1>2. 0 \in T
  <2> DEFINE f == [o \in 0..N |-> << >>]
  <2>1. f = [o \in 0..N |-> f[o]]
    OBVIOUS
  <2>2. \A o \in (N - 0)..N : f[o] = EntryStep(bytes, f, o)
    BY <1>1 DEF EntryStep
  <2> HIDE DEF f
  <2> QED  BY <2>1, <2>2
<1>3. ASSUME NEW i \in 1..N, i - 1 \in T PROVE i \in T
  <2>1. PICK f : Good(f, i - 1)
    BY <1>3
  <2>2. PICK q \in 0..N : q = N - i
    OBVIOUS
  <2> DEFINE g == [o \in 0..N |-> IF o = q THEN EntryStep(bytes, f, q) ELSE f[o]]
  <2>3. g = [o \in 0..N |-> g[o]]
    OBVIOUS
  <2>4. /\ g[q] = EntryStep(bytes, f, q)
        /\ \A o \in (q + 1)..N : g[o] = f[o] /\ f[o] = EntryStep(bytes, f, o)
    BY <2>1, <2>2
  <2> HIDE DEF g
  <2>5. ASSUME NEW o \in q..N PROVE g[o] = EntryStep(bytes, g, o)
    <3>1. o \in 0..Len(bytes) /\ \A p \in (o + 1)..Len(bytes) : g[p] = f[p]
      BY <1>1, <2>4
    <3>2. EntryStep(bytes, g, o) = EntryStep(bytes, f, o)
      BY <3>1, StepLooksOn
    <3>3. o = q \/ o \in (q + 1)..N
      OBVIOUS
    <3> QED  BY <2>4, <3>2, <3>3
  <2>6. Good(g, i)
    BY <2>2, <2>3, <2>5
  <2> HIDE DEF Good
  <2> QED  BY <2>6
<1> HIDE DEF Good
<1>4. N \in T
  <2>1. 0..N \subseteq T
    <3> HIDE DEF T
    <3> QED  BY <1>2, <1>3, UpTo
  <2> QED  BY <2>1
<1>5. PICK f : Good(f, N)
  BY <1>4
<1>6. /\ f = [o \in 0..N |-> f[o]]
      /\ \A o \in (N - N)..N : f[o] = EntryStep(bytes, f, o)
  BY <1>5 DEF Good
<1>7. f = [o \in 0..N |-> EntryStep(bytes, f, o)]
  BY <1>6
<1> QED  BY <1>1, <1>7 DEF Walks

LEMMA EntriesFromIs ==
  ASSUME NEW bytes \in Seq(Byte), NEW o \in 0..Len(bytes)
  PROVE  EntriesFrom(bytes)[o] = EntryStep(bytes, EntriesFrom(bytes), o)
<1>1. EntriesFrom(bytes) = CHOOSE f : Walks(bytes, f)
  BY DEF EntriesFrom, Walks, EntryStep
<1>2. Walks(bytes, EntriesFrom(bytes))
  BY <1>1, WalkExists
<1> DEFINE f == EntriesFrom(bytes)
<1> HIDE DEF f
<1>3. f = [p \in 0..Len(bytes) |-> EntryStep(bytes, f, p)]
  BY <1>2 DEF Walks, f
<1>4. f[o] = EntryStep(bytes, f, o)
  BY <1>3
<1> QED  BY <1>4 DEF f

-----------------------------------------------------------------------------
(* What an append writes.                                                  *)

Header(n, c) == Bytes4(n) \o Bytes2(c)

\* The header in front of bytes holds n and c.
Headed(bytes, n, c) == U32(bytes) = n /\ read_num_elements(bytes) = c

LEMMA HeaderBytes ==
  ASSUME NEW n, FourBytes(n), NEW c \in Nat, c < 65536
  PROVE  Header(n, c) \in Seq(Byte) /\ Len(Header(n, c)) = LP_HDR_SIZE
<1>1. Bytes4(n) \in Seq(Byte) /\ Len(Bytes4(n)) = 4
  BY ToLEFour
<1>2. Bytes2(c) \in Seq(Byte) /\ Len(Bytes2(c)) = 2
  BY ToLETwo
<1>3. Bytes4(n) \o Bytes2(c) \in Seq(Byte)
      /\ Len(Bytes4(n) \o Bytes2(c)) = Len(Bytes4(n)) + Len(Bytes2(c))
  <2>1. Bytes4(n) \in Seq(Byte) /\ Bytes2(c) \in Seq(Byte)
    BY <1>1, <1>2
  <2> QED  BY <2>1, ConcatProperties
<1> QED  BY <1>1, <1>2, <1>3 DEF Header, LP_HDR_SIZE

LEMMA HeaderRead ==
  ASSUME NEW n, FourBytes(n), NEW c \in Nat, c < 65536, NEW bytes \in Seq(Byte),
         NEW o \in Nat, o = 0, Stands(bytes, o, Header(n, c))
  PROVE  Headed(bytes, n, c)
<1>1. Bytes4(n) \in Seq(Byte) /\ Len(Bytes4(n)) = 4 /\ U32(Bytes4(n)) = n
  BY ToLEFour
<1>2. Bytes2(c) \in Seq(Byte) /\ Len(Bytes2(c)) = 2 /\ U16(Bytes2(c)) = c
  BY ToLETwo
<1>3. Stands(bytes, o, Bytes4(n)) /\ Stands(bytes, o + Len(Bytes4(n)), Bytes2(c))
  <2>1. Bytes4(n) \in Seq(Byte) /\ Bytes2(c) \in Seq(Byte)
    BY <1>1, <1>2
  <2>2. Stands(bytes, o, Bytes4(n) \o Bytes2(c))
    BY DEF Header
  <2> QED  BY <2>1, <2>2, StandsJoined
<1>4. \A i \in 1..4 : bytes[i] = Bytes4(n)[i]
  <2>1. \A i \in 1..4 : bytes[o + i] = Bytes4(n)[i]
    BY <1>1, <1>3 DEF Stands
  <2> QED  BY <2>1
<1>5. U32(bytes) = n
  BY <1>1, <1>4 DEF U32
<1>6. PICK p \in Nat : p = 4 /\ p = o + Len(Bytes4(n))
  BY <1>1
<1>7. Stands(bytes, p, Bytes2(c))
  <2>1. p = o + Len(Bytes4(n))
    BY <1>6
  <2>2. Stands(bytes, o + Len(Bytes4(n)), Bytes2(c))
    BY <1>3
  <2> QED  BY ONLY Zenon, <2>1, <2>2
<1>8. Slice(bytes, p, Len(Bytes2(c))) = Bytes2(c)
  <2>1. Bytes2(c) \in Seq(Byte)
    BY <1>2
  <2> QED  BY <1>7, <2>1, SliceIs
<1>9. Slice(bytes, 4, 2) = Bytes2(c)
  <2>1. p = 4 /\ Len(Bytes2(c)) = 2
    BY <1>2, <1>6
  <2> QED  BY ONLY <2>1, <1>8
<1> QED  BY <1>2, <1>5, <1>9 DEF Headed, read_num_elements

Joined(p, e, x) == (p \o e) \o One(x)

LEMMA Pieces ==
  ASSUME NEW p \in Seq(Byte), NEW e \in Seq(Byte), NEW x \in Byte, NEW o \in Nat, o = 0
  PROVE  /\ Joined(p, e, x) \in Seq(Byte)
         /\ Len(Joined(p, e, x)) = Len(p) + Len(e) + 1
         /\ Stands(Joined(p, e, x), o, p) /\ Stands(Joined(p, e, x), Len(p), e)
         /\ Joined(p, e, x)[Len(Joined(p, e, x))] = x
<1>1. One(x) \in Seq(Byte) /\ Len(One(x)) = 1 /\ One(x)[1] = x
  BY Single
<1> DEFINE q == p \o e
           d == Joined(p, e, x)
<1>2. q \in Seq(Byte) /\ Len(q) = Len(p) + Len(e)
  BY ConcatProperties
<1> HIDE DEF q
<1>3. d \in Seq(Byte) /\ Len(d) = Len(q) + 1
  <2>1. One(x) \in Seq(Byte) /\ q \in Seq(Byte)
    BY <1>1, <1>2
  <2>2. q \o One(x) \in Seq(Byte) /\ Len(q \o One(x)) = Len(q) + Len(One(x))
    BY <2>1, ConcatProperties
  <2> QED  BY <1>1, <2>2 DEF Joined, q
<1>4. d = q \o One(x)
  BY DEF Joined, q
<1> HIDE DEF d
<1>5. Stands(d, o, q \o One(x))
  BY <1>3, <1>4 DEF Stands
<1>6. Stands(d, o, q) /\ Stands(d, o + Len(q), One(x))
  BY <1>1, <1>2, <1>3, <1>5, StandsJoined
<1>7. Stands(d, o, p) /\ Stands(d, o + Len(p), e)
  BY <1>3, <1>6, StandsJoined DEF q
<1>8. o + Len(p) = Len(p) /\ o + Len(q) = Len(q)
  BY <1>2
<1>9. d[Len(q) + 1] = x
  BY <1>1, <1>6, <1>8 DEF Stands
<1> QED  BY <1>2, <1>3, <1>7, <1>8, <1>9 DEF d

\* The bytes of the entries.
Body(bytes) == SubSeq(bytes, LP_HDR_SIZE + 1, Len(bytes) - 1)

LEMMA BodyIs ==
  ASSUME NEW bytes \in Seq(Byte), Len(bytes) > LP_HDR_SIZE
  PROVE  /\ Body(bytes) \in Seq(Byte) /\ LP_HDR_SIZE + Len(Body(bytes)) = Len(bytes) - 1
         /\ \A i \in 1..Len(Body(bytes)) : Body(bytes)[i] = bytes[LP_HDR_SIZE + i]
<1>1. PICK N \in Nat, h \in Nat : N = Len(bytes) /\ h = LP_HDR_SIZE /\ N > h
  BY DEF LP_HDR_SIZE
<1>2. h + 1 \in 1..N /\ N - 1 \in h..N
  BY <1>1
<1> DEFINE s == SubSeq(bytes, h + 1, N - 1)
<1>3. s \in Seq(Byte) /\ Len(s) = (N - 1) - h /\ \A i \in 1..((N - 1) - h) : s[i] = bytes[h + i]
  BY <1>1, <1>2
<1>4. Body(bytes) = s
  BY <1>1 DEF Body
<1> HIDE DEF s
<1>5. h + Len(s) = N - 1 /\ \A i \in 1..Len(s) : s[i] = bytes[h + i]
  BY <1>1, <1>3
<1> QED  BY <1>1, <1>3, <1>4, <1>5

\* Entries stay where they are.
LEMMA StandsStill ==
  ASSUME NEW bytes \in Seq(Byte), Len(bytes) > LP_HDR_SIZE, NEW d \in Seq(Byte),
         Stands(d, LP_HDR_SIZE, Body(bytes)),
         NEW a \in Nat, LP_HDR_SIZE <= a, NEW e \in Seq(Byte), Stands(bytes, a, e),
         a + Len(e) <= Len(bytes) - 1
  PROVE  Stands(d, a, e)
<1>1. PICK N \in Nat, M \in Nat, n \in Nat, m \in Nat, h \in Nat :
        /\ N = Len(bytes) /\ M = Len(d) /\ n = Len(e) /\ m = Len(Body(bytes)) /\ h = LP_HDR_SIZE
        /\ h + m = N - 1
  BY BodyIs DEF LP_HDR_SIZE
<1>2. /\ h + m <= M /\ \A i \in 1..m : d[h + i] = Body(bytes)[i]
      /\ \A i \in 1..m : Body(bytes)[i] = bytes[h + i]
      /\ \A i \in 1..n : bytes[a + i] = e[i]
      /\ h <= a /\ a + n <= N - 1
  BY <1>1, BodyIs DEF Stands
<1>3. a + n <= M
  BY <1>1, <1>2
<1>4. \A i \in 1..n : d[a + i] = e[i]
  <2> TAKE i \in 1..n
  <2>1. PICK j \in 1..m : j = (a - h) + i
    BY <1>1, <1>2
  <2>2. h + j = a + i
    BY <2>1
  <2> QED  BY <1>2, <2>2
<1> QED  BY <1>1, <1>3, <1>4 DEF Stands

LEMMA FourBytesBelow ==
  ASSUME NEW n \in Nat, n <= MaxBytes
  PROVE  FourBytes(n)
<1>1. PICK m \in Nat : m = MaxBytes /\ m \div 65536 < 65536
  BY SMT, ListpackAssumption
<1>2. n \div 65536 <= m \div 65536
  BY SMT, <1>1
<1>3. n \div 65536 < 65536
  BY SMT, <1>1, <1>2
<1> QED  BY SMTT(30), <1>3 DEF FourBytes

\* What push_encoded_entry returns, if it does not refuse.
LEMMA Pushed ==
  ASSUME NEW bytes \in Seq(Byte), Len(bytes) > LP_HDR_SIZE, NEW e \in Seq(Byte),
         push_encoded_entry(bytes, e) # None, NumElements(bytes) \in Nat, NumElements(bytes) < 65536,
         NEW s, Fit(s), e = encoding(s), NEW o \in Nat, o = 0
  PROVE  \E d \in Seq(Byte), n \in Nat :
           /\ d = push_encoded_entry(bytes, e) /\ Len(d) = n /\ Headed(d, n, NumElements(bytes))
           /\ n = Len(bytes) + Len(Coded(s)) /\ d[n] = LP_EOF
           /\ Stands(d, LP_HDR_SIZE, Body(bytes)) /\ Stands(d, Len(bytes) - 1, Coded(s))
<1> DEFINE b == encode_backlen(Len(e))
           n == Len(bytes) + Len(e) + Len(b)
           h == Header(n, NumElements(bytes))
<1>1. /\ b \in Seq(Byte) /\ Coded(s) = e \o b /\ Coded(s) \in Seq(Byte)
      /\ Len(Coded(s)) = Len(e) + Len(b) /\ Len(e) \in Nat /\ Len(b) \in Nat
  BY CodedIs DEF Coded
<1>2. /\ ~(Len(e) > MaxEntry \/ n > MaxBytes)
      /\ push_encoded_entry(bytes, e) =
           ((((ToLE(n, 4) \o ToLE(NumElements(bytes), 2)) \o Body(bytes)) \o e) \o b) \o <<LP_EOF>>
  <2> DEFINE w == ((((ToLE(n, 4) \o ToLE(NumElements(bytes), 2)) \o Body(bytes)) \o e) \o b)
                    \o <<LP_EOF>>
             big == Len(e) > MaxEntry \/ n > MaxBytes
  <2>1. push_encoded_entry(bytes, e) = IF big THEN None ELSE w
    BY DEF push_encoded_entry, Body
  <2> HIDE DEF w, big
  <2>2. ~big /\ push_encoded_entry(bytes, e) = w
    BY ONLY SMTT(30), <2>1, push_encoded_entry(bytes, e) # None
  <2> QED  BY <2>2 DEF w, big
<1> HIDE DEF b
<1>3. n \in Nat /\ n <= MaxBytes
  <2>1. n \in Nat
    BY <1>1
  <2>2. ~(n > MaxBytes)
    BY <1>2
  <2> QED  BY <2>1, <2>2, ListpackAssumption
<1>4. FourBytes(n)
  BY <1>3, FourBytesBelow
<1>5. h \in Seq(Byte) /\ Len(h) = LP_HDR_SIZE
  BY <1>4, HeaderBytes
<1>6. Body(bytes) \in Seq(Byte) /\ LP_HDR_SIZE + Len(Body(bytes)) = Len(bytes) - 1
  BY BodyIs
<1> DEFINE p == h \o Body(bytes)
<1>7. push_encoded_entry(bytes, e) = ((p \o e) \o b) \o One(LP_EOF)
  BY <1>2 DEF Header, Bytes4, Bytes2, One
<1> HIDE DEF n, h
<1>8. p \in Seq(Byte) /\ Len(p) = LP_HDR_SIZE + Len(Body(bytes))
  BY <1>5, <1>6, ConcatProperties
<1> HIDE DEF p
<1>9. (p \o e) \o b = p \o Coded(s)
  <2>1. p \in Seq(Byte) /\ e \in Seq(Byte) /\ b \in Seq(Byte)
    BY <1>1, <1>8
  <2>2. (p \o e) \o b = p \o (e \o b)
    BY SMTT(30), <2>1, ConcatAssociative
  <2> QED  BY <1>1, <2>2
<1> DEFINE d == push_encoded_entry(bytes, e)
<1>10. d = Joined(p, Coded(s), LP_EOF)
  BY <1>7, <1>9 DEF Joined
<1>11. LP_EOF \in Byte
  BY DEF LP_EOF, Byte
<1> HIDE DEF d
<1>12. /\ d \in Seq(Byte) /\ Len(d) = Len(p) + Len(Coded(s)) + 1
       /\ Stands(d, o, p) /\ Stands(d, Len(p), Coded(s)) /\ d[Len(d)] = LP_EOF
  <2>1. p \in Seq(Byte) /\ Coded(s) \in Seq(Byte)
    BY <1>1, <1>8
  <2> DEFINE j == Joined(p, Coded(s), LP_EOF)
  <2>2. /\ j \in Seq(Byte) /\ Len(j) = Len(p) + Len(Coded(s)) + 1
        /\ Stands(j, o, p) /\ Stands(j, Len(p), Coded(s)) /\ j[Len(j)] = LP_EOF
    BY <1>11, <2>1, Pieces
  <2> HIDE DEF j
  <2>3. d = j
    BY <1>10 DEF j
  <2> QED  BY ONLY <2>2, <2>3
<1>13. Stands(d, o, h) /\ Stands(d, o + Len(h), Body(bytes))
  BY <1>5, <1>6, <1>12, StandsJoined DEF p
<1>14. Headed(d, n, NumElements(bytes))
  BY <1>4, <1>12, <1>13, HeaderRead DEF h
<1>15. o + Len(h) = LP_HDR_SIZE
  BY <1>5 DEF LP_HDR_SIZE
<1>16. Len(p) = Len(bytes) - 1
  BY <1>6, <1>8
<1>17. Len(d) = n /\ n = Len(bytes) + Len(Coded(s))
  BY <1>1, <1>12, <1>16 DEF n
<1> QED  BY <1>3, <1>12, <1>13, <1>14, <1>15, <1>16, <1>17 DEF d

-----------------------------------------------------------------------------
(* The invariant of a listpack.                                            *)

\* at says where the entries of the values vs stand in bytes, and where they end.
Placed(bytes, vs, at) ==
  /\ at \in [1..(Len(vs) + 1) -> LP_HDR_SIZE..(Len(bytes) - 1)]
  /\ at[1] = LP_HDR_SIZE /\ at[Len(vs) + 1] = Len(bytes) - 1
  /\ \A i \in 1..Len(vs) : /\ Stands(bytes, at[i], Coded(vs[i]))
                           /\ at[i + 1] = at[i] + Len(Coded(vs[i]))

\* The number of elements in the header of a listpack of n values.
Count(n) == IF n < LP_NUMELE_UNKNOWN THEN n ELSE LP_NUMELE_UNKNOWN

\* bytes hold the values vs.
Packs(bytes, vs) ==
  /\ bytes \in Seq(Byte) /\ Len(bytes) > LP_HDR_SIZE
  /\ vs \in Seq(Values) /\ \A i \in 1..Len(vs) : Fit(vs[i])
  /\ Headed(bytes, Len(bytes), Count(Len(vs)))
  /\ bytes[Len(bytes)] = LP_EOF
  /\ \E at : Placed(bytes, vs, at)

PackInv == Packs(data, given)

LEMMA NewPacks == Packs(new, << >>)
<1>1. PICK n \in Nat, c \in Nat : n = 7 /\ c = 0 /\ c < 65536
  OBVIOUS
<1>2. FourBytes(n)
  <2>1. n \div 65536 = 0
    BY SMT, <1>1
  <2> QED  BY SMT, <2>1 DEF FourBytes
<1> DEFINE h == Header(n, c)
<1>3. h \in Seq(Byte) /\ Len(h) = LP_HDR_SIZE
  BY <1>1, <1>2, HeaderBytes
<1>4. LP_EOF \in Byte /\ One(LP_EOF) \in Seq(Byte) /\ Len(One(LP_EOF)) = 1 /\ One(LP_EOF)[1] = LP_EOF
  <2>1. LP_EOF \in Byte
    BY DEF LP_EOF, Byte
  <2> QED  BY <2>1, Single
<1>5. new = h \o One(LP_EOF)
  BY <1>1 DEF new, Header, Bytes4, Bytes2, One, LP_HDR_SIZE
<1> HIDE DEF h
<1> DEFINE d == new
<1> HIDE DEF d
<1>6. d \in Seq(Byte) /\ Len(d) = LP_HDR_SIZE + 1
  <2>1. h \in Seq(Byte) /\ One(LP_EOF) \in Seq(Byte)
    BY <1>3, <1>4
  <2>2. h \o One(LP_EOF) \in Seq(Byte) /\ Len(h \o One(LP_EOF)) = Len(h) + Len(One(LP_EOF))
    BY <2>1, ConcatProperties
  <2> QED  BY <1>3, <1>4, <1>5, <2>2 DEF d
<1>7. PICK o \in Nat : o = 0
  OBVIOUS
<1>8. Stands(d, o, h \o One(LP_EOF))
  BY <1>5, <1>6, <1>7 DEF Stands, d
<1>9. Stands(d, o, h) /\ Stands(d, o + Len(h), One(LP_EOF))
  BY <1>3, <1>4, <1>6, <1>8, StandsJoined
<1>10. Headed(d, n, c)
  BY <1>1, <1>2, <1>6, <1>7, <1>9, HeaderRead DEF h
<1>11. d[Len(d)] = LP_EOF
  BY SMTT(30), <1>3, <1>4, <1>6, <1>7, <1>9 DEF Stands, LP_HDR_SIZE
<1>12. Count(0) = c /\ Len(d) = n
  BY SMTT(30), <1>1, <1>6, ListpackAssumption DEF Count, LP_HDR_SIZE
<1>13. Headed(d, Len(d), Count(0))
  BY Zenon, <1>10, <1>12
<1>14. Placed(d, << >>, [i \in 1..1 |-> LP_HDR_SIZE])
  BY <1>6 DEF Placed, LP_HDR_SIZE
<1>15. \E at : Placed(d, << >>, at)
  BY <1>14
<1> QED  BY <1>6, <1>11, <1>13, <1>15 DEF Packs, d, LP_HDR_SIZE

LEMMA CountStep ==
  ASSUME NEW bytes, NEW n \in Nat, read_num_elements(bytes) = Count(n)
  PROVE  NumElements(bytes) = Count(n + 1) /\ NumElements(bytes) \in Nat /\ NumElements(bytes) < 65536
<1>1. PICK u \in Nat : u = LP_NUMELE_UNKNOWN /\ 1 <= u /\ u <= 65535
  <2>1. LP_NUMELE_UNKNOWN \in Nat /\ 1 <= LP_NUMELE_UNKNOWN /\ LP_NUMELE_UNKNOWN <= 65535
    BY ONLY SMTT(30), ListpackAssumption
  <2> QED  BY SMT, <2>1
<1>2. PICK c \in Nat : c = read_num_elements(bytes) /\ c = IF n < u THEN n ELSE u
  BY SMT, <1>1 DEF Count
<1>3. NumElements(bytes) = (IF c = u THEN c ELSE c + 1)
  BY SMT, <1>1, <1>2 DEF NumElements
<1>4. Count(n + 1) = (IF n + 1 < u THEN n + 1 ELSE u)
  BY SMT, <1>1 DEF Count
<1> QED  BY SMT, <1>1, <1>2, <1>3, <1>4

LEMMA PushPacks ==
  ASSUME NEW bytes, NEW vs, Packs(bytes, vs), NEW s \in Values,
         push_encoded_entry(bytes, encoding(s)) # None
  PROVE  Packs(push_encoded_entry(bytes, encoding(s)), Append(vs, s))
<1>1. /\ bytes \in Seq(Byte) /\ Len(bytes) > LP_HDR_SIZE
      /\ vs \in Seq(Values) /\ \A i \in 1..Len(vs) : Fit(vs[i])
      /\ read_num_elements(bytes) = Count(Len(vs))
  BY DEF Packs, Headed
<1>2. Fit(s)
  <2>1. s \in Seq(Byte)
    BY ListpackAssumption
  <2>2. ~(Len(encoding(s)) > MaxEntry)
    <3> DEFINE b == encode_backlen(Len(encoding(s)))
               m == Len(bytes) + Len(encoding(s)) + Len(b)
    <3>1. SUFFICES ASSUME Len(encoding(s)) > MaxEntry
                   PROVE  push_encoded_entry(bytes, encoding(s)) = None
      OBVIOUS
    <3> QED  BY Zenon, <3>1 DEF push_encoded_entry
  <2>3. Len(encoding(s)) \in Nat
    BY <2>1, EncodingType
  <2>4. MaxEntry \in Nat
    BY SMT DEF MaxEntry
  <2> QED  BY <2>1, <2>2, <2>3, <2>4 DEF Fit, EntryLen
<1>3. PICK L \in Nat : L = Len(vs)
  BY <1>1
<1>4. /\ NumElements(bytes) = Count(L + 1)
      /\ NumElements(bytes) \in Nat /\ NumElements(bytes) < 65536
  BY <1>1, <1>3, CountStep
<1> DEFINE e == encoding(s)
<1>5. e \in Seq(Byte)
  BY <1>2, CodedIs
<1>6. PICK o \in Nat : o = 0
  OBVIOUS
<1> HIDE DEF e
<1>7. PICK d \in Seq(Byte), n \in Nat :
        /\ d = push_encoded_entry(bytes, e) /\ Len(d) = n /\ Headed(d, n, NumElements(bytes))
        /\ n = Len(bytes) + Len(Coded(s)) /\ d[n] = LP_EOF
        /\ Stands(d, LP_HDR_SIZE, Body(bytes)) /\ Stands(d, Len(bytes) - 1, Coded(s))
  BY <1>1, <1>2, <1>4, <1>5, <1>6, Pushed DEF e
<1> DEFINE ws == Append(vs, s)
<1>8. /\ ws \in Seq(Values) /\ Len(ws) = L + 1 /\ ws[L + 1] = s
      /\ \A i \in 1..L : ws[i] = vs[i]
  BY <1>1, <1>3
<1> HIDE DEF ws
<1>9. \A i \in 1..Len(ws) : Fit(ws[i])
  <2>1. \A i \in 1..(L + 1) : i = L + 1 \/ i \in 1..L
    OBVIOUS
  <2> QED  BY <1>1, <1>2, <1>3, <1>8, <2>1
<1>10. PICK N \in Nat, h \in Nat, k \in Nat : N = Len(bytes) /\ h = LP_HDR_SIZE /\ k = Len(Coded(s)) /\ N > h
  <2>1. Len(Coded(s)) \in Nat
    BY <1>2, CodedIs
  <2>2. Len(bytes) \in Nat /\ LP_HDR_SIZE \in Nat
    BY <1>1 DEF LP_HDR_SIZE
  <2> QED  BY <1>1, <2>1, <2>2
<1>11. PICK at : Placed(bytes, vs, at)
  BY DEF Packs
<1>12. /\ at \in [1..(L + 1) -> h..(N - 1)]
       /\ at[1] = h /\ at[L + 1] = N - 1
       /\ \A i \in 1..L : Stands(bytes, at[i], Coded(vs[i])) /\ at[i + 1] = at[i] + Len(Coded(vs[i]))
  BY <1>3, <1>10, <1>11 DEF Placed
<1>13. n = N + k
  BY <1>7, <1>10
<1> DEFINE to == [i \in 1..(L + 2) |-> IF i = L + 2 THEN n - 1 ELSE at[i]]
<1>14. /\ to \in [1..(L + 2) -> h..(n - 1)] /\ to[1] = h /\ to[L + 2] = n - 1
       /\ to[L + 1] = N - 1 /\ \A i \in 1..(L + 1) : to[i] = at[i]
  <2>1. \A i \in 1..(L + 1) : i \in 1..(L + 2) /\ i # L + 2
    OBVIOUS
  <2>2. \A i \in 1..(L + 1) : to[i] = at[i]
    BY <2>1
  <2>3. 1 \in 1..(L + 1) /\ L + 1 \in 1..(L + 1)
    OBVIOUS
  <2>4. \A i \in 1..(L + 1) : at[i] \in h..(n - 1)
    BY <1>10, <1>12, <1>13
  <2>5. n - 1 \in h..(n - 1)
    BY <1>10, <1>13
  <2>6. to \in [1..(L + 2) -> h..(n - 1)]
    BY <2>4, <2>5
  <2> QED  BY <1>12, <2>2, <2>3, <2>6
<1> HIDE DEF to
<1>15. ASSUME NEW i \in 1..(L + 1)
       PROVE  Stands(d, to[i], Coded(ws[i])) /\ to[i + 1] = to[i] + Len(Coded(ws[i]))
  <2>1. CASE i = L + 1
    <3>1. Stands(d, N - 1, Coded(s))
      BY <1>7, <1>10
    <3>2. to[i] = N - 1 /\ ws[i] = s /\ to[i + 1] = n - 1
      BY <1>8, <1>14, <2>1
    <3> QED  BY <1>10, <1>13, <3>1, <3>2
  <2>2. CASE i # L + 1
    <3>1. i \in 1..L /\ i + 1 \in 1..(L + 1)
      BY <2>2
    <3>2. /\ ws[i] = vs[i] /\ to[i] = at[i] /\ to[i + 1] = at[i + 1]
          /\ Stands(bytes, at[i], Coded(vs[i])) /\ at[i + 1] = at[i] + Len(Coded(vs[i]))
      BY <1>8, <1>12, <1>14, <3>1
    <3>3. PICK a \in h..(N - 1), b \in h..(N - 1) : a = at[i] /\ b = at[i + 1]
      BY <1>12, <3>1
    <3>4. Coded(vs[i]) \in Seq(Byte)
      BY <1>1, <1>3, <3>1, CodedIs
    <3>5. PICK c \in Seq(Byte) : c = Coded(vs[i])
      BY <3>4
    <3>6. a + Len(c) = b /\ Stands(bytes, a, c)
      BY <3>2, <3>3, <3>5
    <3>7. a \in Nat /\ LP_HDR_SIZE <= a /\ a + Len(c) <= Len(bytes) - 1
      BY <1>10, <3>6
    <3>8. Stands(d, a, c)
      BY <1>1, <1>7, <3>6, <3>7, StandsStill
    <3> QED  BY <3>2, <3>3, <3>5, <3>8
  <2> QED  BY <2>1, <2>2
<1>16. Placed(d, ws, to)
  <2>1. Len(ws) + 1 = L + 2 /\ Len(ws) = L + 1 /\ Len(d) - 1 = n - 1
    BY <1>7, <1>8
  <2> QED  BY <1>10, <1>14, <1>15, <2>1 DEF Placed
<1>17. Headed(d, Len(d), Count(Len(ws))) /\ d[Len(d)] = LP_EOF
  BY <1>4, <1>7, <1>8
<1>18. Len(d) > LP_HDR_SIZE
  BY <1>7, <1>10, <1>13
<1>19. Packs(d, ws)
  BY <1>8, <1>9, <1>16, <1>17, <1>18 DEF Packs
<1> QED  BY <1>7, <1>19 DEF e, ws

\* The entries stand in a listpack as they were appended, whatever steps were taken.
THEOREM PackAlways == Spec => []PackInv
<1>1. Init => PackInv
  BY NewPacks DEF Init, PackInv
<1>2. PackInv /\ [Next]_<<data, given>> => PackInv'
  <2> SUFFICES ASSUME PackInv, [Next]_<<data, given>> PROVE PackInv'
    OBVIOUS
  <2>1. ASSUME NEW value \in Values, append(value) PROVE PackInv'
    <3>1. /\ push_encoded_entry(data, encoding(value)) # None
          /\ data' = push_encoded_entry(data, encoding(value)) /\ given' = Append(given, value)
      BY <2>1 DEF append
    <3>2. Packs(push_encoded_entry(data, encoding(value)), Append(given, value))
      BY <3>1, PushPacks DEF PackInv
    <3> QED  BY <3>1, <3>2 DEF PackInv
  <2>2. CASE UNCHANGED <<data, given>>
    BY <2>2 DEF PackInv
  <2> QED  BY <2>1, <2>2 DEF Next
<1> QED  BY <1>1, <1>2, PTL DEF Spec

-----------------------------------------------------------------------------
(* What is read back.                                                      *)

LEMMA RestOf ==
  ASSUME NEW S, NEW R \in Seq(S), NEW L \in Nat, L = Len(R), NEW i \in 1..L
  PROVE  <<R[i]>> \o SubSeq(R, i + 1, L) = SubSeq(R, i, L)
<1> DEFINE t == SubSeq(R, i + 1, L)
           u == SubSeq(R, i, L)
           w == <<R[i]>> \o t
<1>1. PICK m \in Nat : m = L - i
  <2>1. L - i \in Nat
    BY ONLY L \in Nat, i \in 1..L
  <2> QED  BY ONLY <2>1
<1>2. t \in Seq(S) /\ Len(t) = m /\ \A k \in 1..m : t[k] = R[i + k]
  <2>1. i + 1 \in 1..(L + 1) /\ L \in i..L
    OBVIOUS
  <2> QED  BY <1>1, <2>1
<1>3. u \in Seq(S) /\ Len(u) = m + 1 /\ \A k \in 1..(m + 1) : u[k] = R[i + k - 1]
  BY <1>1
<1>4. R[i] \in S /\ <<R[i]>> \in Seq(S) /\ Len(<<R[i]>>) = 1 /\ <<R[i]>>[1] = R[i]
  OBVIOUS
<1> DEFINE v == <<R[i]>>
<1> HIDE DEF t, u, v
<1>5. w = v \o t /\ v \in Seq(S) /\ Len(v) = 1 /\ v[1] = R[i]
  BY <1>4 DEF v
<1>6. /\ v \o t \in Seq(S) /\ Len(v \o t) = Len(v) + Len(t)
      /\ \A k \in 1..(Len(v) + Len(t)) : (v \o t)[k] = IF k <= Len(v) THEN v[k] ELSE t[k - Len(v)]
  BY <1>2, <1>5, ConcatProperties
<1> HIDE DEF w
<1>7. /\ w \in Seq(S) /\ Len(w) = 1 + m
      /\ \A k \in 1..(1 + m) : w[k] = IF k <= 1 THEN v[k] ELSE t[k - 1]
  BY <1>2, <1>5, <1>6
<1>8. ASSUME NEW k \in 1..(m + 1) PROVE w[k] = u[k]
  <2>1. CASE k = 1
    BY <1>3, <1>5, <1>7, <2>1
  <2>2. CASE k # 1
    <3>1. PICK j \in 1..m : j = k - 1
      BY <2>2
    <3>2. w[k] = t[j] /\ t[j] = R[i + j] /\ i + k - 1 = i + j
      BY <1>2, <1>7, <2>2, <3>1
    <3> QED  BY <1>3, <3>2
  <2> QED  BY <2>1, <2>2
<1>9. w = u
  BY <1>3, <1>7, <1>8, SeqEqual
<1> QED  BY <1>9 DEF t, u, v, w

\* A stored value is not none, so that its entry is not either.
LEMMA StoredType ==
  ASSUME NEW s \in Seq(Byte), NEW n \in Nat
  PROVE  [value |-> Stored(s), len |-> n] # None
<1> DEFINE V == [kind : {"String", "Int"}, value : Seq(Byte)]
<1>1. Stored(s) \in V
  <2>1. CASE strict_parse_i64(s) # None
    <3>1. PICK v \in Word64 : v = strict_parse_i64(s)
      BY <2>1, PrintedBack
    <3>2. PICK k \in Nat : k = 8
      OBVIOUS
    <3>3. v \in [1..k -> Byte]
      BY <3>2 DEF Word64
    <3>4. v \in Seq(Byte)
      BY <3>3, FunctionSeq
    <3>5. Stored(s) = Int64(v)
      BY <2>1, <3>1 DEF Stored
    <3> QED  BY <3>4, <3>5 DEF Int64
  <2>2. CASE strict_parse_i64(s) = None
    BY <2>2 DEF Stored, String
  <2> QED  BY <2>1, <2>2
<1> HIDE DEF V
<1>2. [value |-> Stored(s), len |-> n] \in [value : V, len : Nat]
  BY SMTT(30), <1>1
<1>3. None \notin [value : V, len : Nat]
  BY ONLY ListpackAssumption DEF V
<1> QED  BY <1>2, <1>3

\* The entries of the values vs that stand at at.
EntriesOf(vs, at) == [i \in 1..Len(vs) |-> [value |-> Stored(vs[i]), at |-> at[i]]]

LEMMA EntryFields ==
  ASSUME NEW r, NEW x, NEW n, r = [value |-> x, len |-> n]
  PROVE  r.value = x /\ r.len = n
OBVIOUS

LEMMA EntryRead ==
  ASSUME NEW bytes \in Seq(Byte), NEW s, Fit(s), NEW o \in Nat, o < Len(bytes),
         Stands(bytes, o, Coded(s)), NEW f
  PROVE  EntryStep(bytes, f, o) = <<[value |-> Stored(s), at |-> o]>> \o f[o + Len(Coded(s))]
<1>1. /\ bytes[o + 1] < 245
      /\ decode_entry(bytes, o) = [value |-> Stored(s), len |-> Len(Coded(s))]
  BY DecodeEntry
<1>2. bytes[o + 1] # LP_EOF
  <2>1. LP_EOF = 255 /\ ~(255 < 245)
    BY DEF LP_EOF
  <2> QED  BY SMT, <1>1, <2>1
<1>3. decode_entry(bytes, o) # None
  <2>1. s \in Seq(Byte) /\ Len(Coded(s)) \in Nat
    BY CodedIs DEF Fit
  <2> QED  BY <1>1, <2>1, StoredType
<1>4. /\ decode_entry(bytes, o).value = Stored(s)
      /\ decode_entry(bytes, o).len = Len(Coded(s))
  BY <1>1, EntryFields
<1>5. ~(o >= Len(bytes))
  OBVIOUS
<1> QED  BY Zenon, <1>2, <1>3, <1>4, <1>5 DEF EntryStep

LEMMA EntriesRead ==
  ASSUME NEW bytes, NEW vs, Packs(bytes, vs), NEW at, Placed(bytes, vs, at)
  PROVE  Entries(bytes) = EntriesOf(vs, at)
<1>1. /\ bytes \in Seq(Byte) /\ Len(bytes) > LP_HDR_SIZE /\ vs \in Seq(Values)
      /\ \A i \in 1..Len(vs) : Fit(vs[i])
      /\ bytes[Len(bytes)] = LP_EOF
  BY DEF Packs
<1>2. PICK L \in Nat, N \in Nat, h \in Nat : L = Len(vs) /\ N = Len(bytes) /\ h = LP_HDR_SIZE /\ N > h
  <2>1. Len(vs) \in Nat /\ Len(bytes) \in Nat /\ LP_HDR_SIZE \in Nat
    BY <1>1 DEF LP_HDR_SIZE
  <2> QED  BY <1>1, <2>1
<1>3. /\ at \in [1..(L + 1) -> h..(N - 1)]
      /\ at[1] = h /\ at[L + 1] = N - 1
      /\ \A i \in 1..L : Stands(bytes, at[i], Coded(vs[i])) /\ at[i + 1] = at[i] + Len(Coded(vs[i]))
  BY <1>2 DEF Placed
<1> DEFINE R == EntriesOf(vs, at)
           S == {R[i] : i \in 1..L}
           f == EntriesFrom(bytes)
<1>4. R \in [1..L -> S] /\ \A i \in 1..L : R[i] = [value |-> Stored(vs[i]), at |-> at[i]]
  BY <1>2 DEF EntriesOf
<1> HIDE DEF R
<1>5. R \in Seq(S) /\ Len(R) = L
  <2> HIDE DEF S
  <2> QED  BY <1>4, FunctionSeq
<1> HIDE DEF S
<1>6. \A o \in 0..N : f[o] = EntryStep(bytes, f, o)
  BY <1>1, <1>2, EntriesFromIs
<1> HIDE DEF f
<1> DEFINE T == {j \in 0..L : f[at[(L + 1) - j]] = SubSeq(R, (L + 1) - j, L)}
<1>7. 0 \in T
  <2>1. N - 1 \in 0..N /\ (N - 1) + 1 = N /\ N - 1 \in Nat
    BY <1>2
  <2>2. EntryStep(bytes, f, N - 1) = << >>
    BY <1>1, <1>2, <2>1 DEF EntryStep
  <2>3. SubSeq(R, L + 1, L) = << >>
    BY <1>5
  <2>4. (L + 1) - 0 = L + 1
    OBVIOUS
  <2>5. f[N - 1] = << >>
    BY <1>6, <2>1, <2>2
  <2>6. f[at[(L + 1) - 0]] = SubSeq(R, (L + 1) - 0, L)
    BY <1>3, <2>3, <2>4, <2>5
  <2>7. 0 \in 0..L
    OBVIOUS
  <2> QED  BY <2>6, <2>7
<1>8. ASSUME NEW j \in 1..L, j - 1 \in T PROVE j \in T
  <2>1. PICK i \in 1..L : i = (L + 1) - j
    OBVIOUS
  <2>2. (L + 1) - (j - 1) = i + 1 /\ i + 1 \in 1..(L + 1) /\ i \in 1..(L + 1)
    BY <2>1
  <2>3. f[at[i + 1]] = SubSeq(R, i + 1, L)
    BY <1>8, <2>2
  <2>4. PICK o \in h..(N - 1) : o = at[i]
    BY <1>3, <2>2
  <2>5. o \in Nat /\ o < Len(bytes) /\ o \in 0..N
    BY <1>2, <2>4
  <2>6. Fit(vs[i]) /\ Stands(bytes, o, Coded(vs[i])) /\ at[i + 1] = o + Len(Coded(vs[i]))
    BY <1>1, <1>2, <1>3, <2>4
  <2>7. EntryStep(bytes, f, o) = <<[value |-> Stored(vs[i]), at |-> o]>> \o f[o + Len(Coded(vs[i]))]
    BY <1>1, <2>5, <2>6, EntryRead
  <2>8. f[o] = <<R[i]>> \o SubSeq(R, i + 1, L)
    <3>1. R[i] = [value |-> Stored(vs[i]), at |-> o]
      BY <1>4, <2>4
    <3>2. f[o] = EntryStep(bytes, f, o)
      BY <1>6, <2>5
    <3> QED  BY ONLY Zenon, <3>1, <3>2, <2>3, <2>6, <2>7
  <2>9. <<R[i]>> \o SubSeq(R, i + 1, L) = SubSeq(R, i, L)
    BY <1>5, RestOf
  <2>10. f[at[(L + 1) - j]] = SubSeq(R, (L + 1) - j, L)
    BY <2>1, <2>4, <2>8, <2>9
  <2> QED  BY <2>10
<1>9. L \in T
  <2>1. 0..L \subseteq T
    <3> HIDE DEF T
    <3> QED  BY <1>7, <1>8, UpTo
  <2>2. L \in 0..L
    OBVIOUS
  <2> HIDE DEF T
  <2> QED  BY <2>1, <2>2
<1>10. f[at[1]] = SubSeq(R, 1, L)
  <2>1. (L + 1) - L = 1
    OBVIOUS
  <2> QED  BY <1>9, <2>1
<1>11. SubSeq(R, 1, L) = R
  BY <1>5
<1>12. f[LP_HDR_SIZE] = R
  BY <1>2, <1>3, <1>10, <1>11
<1> QED  BY <1>12 DEF Entries, f, R

LEMMA ValuesRead ==
  ASSUME NEW bytes, NEW vs, Packs(bytes, vs)
  PROVE  iter(bytes) = [i \in 1..Len(vs) |-> Stored(vs[i])] /\ Len(iter(bytes)) = Len(vs)
<1>1. PICK at : Placed(bytes, vs, at)
  BY DEF Packs
<1>2. Entries(bytes) = EntriesOf(vs, at)
  BY <1>1, EntriesRead
<1>3. PICK L \in Nat : L = Len(vs)
  BY DEF Packs
<1> DEFINE es == Entries(bytes)
<1>4. es = [i \in 1..L |-> [value |-> Stored(vs[i]), at |-> at[i]]]
  BY <1>2, <1>3 DEF EntriesOf
<1> HIDE DEF es
<1>5. Len(es) = L /\ \A i \in 1..L : es[i].value = Stored(vs[i])
  BY <1>4
<1>6. iter(bytes) = [i \in 1..L |-> es[i].value]
  BY <1>5 DEF iter, es
<1>7. iter(bytes) = [i \in 1..L |-> Stored(vs[i])]
  BY <1>5, <1>6
<1>8. Len([i \in 1..L |-> Stored(vs[i])]) = L
  OBVIOUS
<1> QED  BY <1>3, <1>7, <1>8

\* The header of a listpack tells how many bytes it has and how many values, or that
\* it does not know, and then len() counts them.
THEOREM HeaderAlwaysTrue == Spec => []HeaderIsTrue
<1>1. ASSUME PackInv PROVE HeaderIsTrue
  <2>1. /\ U32(data) = Len(data) /\ read_num_elements(data) = Count(Len(given))
        /\ data[Len(data)] = LP_EOF /\ Len(given) \in Nat
    BY <1>1 DEF PackInv, Packs, Headed
  <2>2. Len(iter(data)) = Len(given)
    BY <1>1, ValuesRead DEF PackInv
  <2>3. len(data) = Len(given)
    BY <2>1, <2>2 DEF len, Count
  <2> QED  BY <2>1, <2>3 DEF HeaderIsTrue, read_total_bytes
<1> QED  BY <1>1, PackAlways, PTL

\* Whatever byte strings have been appended, in whichever encodings, are read back byte
\* for byte and in their order.
THEOREM PackAlwaysReadsBack == Spec => []PackReadsBack
<1>1. ASSUME PackInv PROVE PackReadsBack
  <2>1. PICK L \in Nat : L = Len(given)
    BY <1>1 DEF PackInv, Packs
  <2>2. given \in Seq(Values) /\ \A i \in 1..L : Fit(given[i])
    BY <1>1, <2>1 DEF PackInv, Packs
  <2> DEFINE r == iter(data)
  <2>3. r = [i \in 1..L |-> Stored(given[i])] /\ Len(r) = L
    BY <1>1, <2>1, ValuesRead DEF PackInv
  <2> HIDE DEF r
  <2>4. ASSUME NEW i \in 1..L PROVE Text(r[i]) = given[i]
    <3>1. given[i] \in Seq(Byte) /\ r[i] = Stored(given[i])
      BY <2>2, <2>3 DEF Fit
    <3>2. CASE strict_parse_i64(given[i]) # None
      <4>1. Printed(strict_parse_i64(given[i])) = given[i]
        BY <3>1, <3>2, PrintedBack
      <4>2. r[i] = Int64(strict_parse_i64(given[i]))
        BY <3>1, <3>2 DEF Stored
      <4> QED  BY <4>1, <4>2 DEF Text, Int64
    <3>3. CASE strict_parse_i64(given[i]) = None
      <4>1. r[i] = String(given[i])
        BY <3>1, <3>3 DEF Stored
      <4> QED  BY <4>1 DEF Text, String
    <3> QED  BY <3>2, <3>3
  <2>5. [i \in 1..L |-> Text(r[i])] = [i \in 1..L |-> given[i]]
    BY <2>4
  <2>6. given = [i \in 1..L |-> given[i]]
    BY <2>1, <2>2
  <2> QED  BY <2>3, <2>5, <2>6 DEF PackReadsBack, r
<1> QED  BY <1>1, PackAlways, PTL

-----------------------------------------------------------------------------
(* The way back.                                                           *)

LEMMA ByteIn ==
  ASSUME NEW bytes \in Seq(Byte), NEW i \in 1..Len(bytes)
  PROVE  bytes[i] \in 0..255
<1>1. bytes[i] \in Byte
  OBVIOUS
<1> QED  BY <1>1 DEF Byte

\* What BackBits computes of k bytes behind the first o ones.
BitsOf(bytes, o, k, c) ==
  c[0] = 0 /\ \A i \in 1..k : c[i] = 128 * c[i - 1] + (bytes[o + i] % 128)

LEMMA BackBitsIs ==
  ASSUME NEW bytes \in Seq(Byte), NEW o \in Nat, NEW k \in Nat, o + k <= Len(bytes)
  PROVE  BitsOf(bytes, o, k, BackBits(bytes, o, k))
<1>1. \A i \in 1..k : bytes[o + i] % 128 \in Nat
  <2> TAKE i \in 1..k
  <2>1. PICK j \in 1..Len(bytes) : j = o + i
    OBVIOUS
  <2>2. PICK b \in 0..255 : b = bytes[o + i]
    BY <2>1, ByteIn
  <2>3. b % 128 \in Nat
    OBVIOUS
  <2> QED  BY <2>2, <2>3
<1> DEFINE G == [i \in 1..k |-> [c \in Nat |-> 128 * c + (bytes[o + i] % 128)]]
<1>2. ASSUME NEW c \in Nat, NEW i \in 1..k
      PROVE  128 * c + (bytes[o + i] % 128) \in Nat
  <2>1. PICK m \in Nat : m = bytes[o + i] % 128
    BY <1>1
  <2> QED  BY <2>1
<1>3. /\ G \in [1..k -> [Nat -> Nat]]
      /\ \A i \in 1..k : \A c \in Nat : G[i][c] = 128 * c + (bytes[o + i] % 128)
  BY <1>2
<1> HIDE DEF G
<1>4. PICK f \in [0..k -> Nat] : f[0] = 0 /\ \A i \in 1..k : f[i] = G[i][f[i - 1]]
  <2>1. StepOn(G, Nat, k) /\ 0 \in Nat
    BY <1>3 DEF StepOn
  <2>2. PICK f : Iterates(f, G, Nat, 0, k)
    BY <2>1, Recursion
  <2> QED  BY <2>2 DEF Iterates
<1>5. \A i \in 1..k : f[i] = 128 * f[i - 1] + (bytes[o + i] % 128)
  <2> TAKE i \in 1..k
  <2>1. f[i - 1] \in Nat
    OBVIOUS
  <2> QED  BY ZenonT(60), <2>1, <1>3, <1>4
<1> DEFINE Is(c) == c = [i \in 0..k |-> IF i = 0 THEN 0
                                        ELSE 128 * c[i - 1] + (bytes[o + i] % 128)]
<1>6. Is(f)
  BY <1>4, <1>5
<1> DEFINE c == BackBits(bytes, o, k)
<1>7. c = CHOOSE g : Is(g)
  BY DEF BackBits
<1> HIDE DEF c, Is
<1>8. Is(c)
  BY <1>6, <1>7
<1>9. c[0] = 0 /\ \A i \in 1..k : c[i] = 128 * c[i - 1] + (bytes[o + i] % 128)
  BY <1>8 DEF Is
<1> QED  BY <1>9 DEF c, BitsOf

\* A back length ends before e and has m bytes.
Ends(bytes, e, m) ==
  bytes[e + 1 - m] < 128 /\ \A j \in 1..(m - 1) : bytes[e + 1 - j] >= 128

LEMMA EndsOnce ==
  ASSUME NEW bytes \in Seq(Byte), NEW e \in Nat, e <= Len(bytes), NEW k \in 1..5, k <= e, Ends(bytes, e, k),
         NEW m \in 1..5, Ends(bytes, e, m)
  PROVE  m = k
<1>1. CASE m < k
  <2>1. PICK b \in 0..255 : b = bytes[e + 1 - m]
    <3>1. PICK j \in 1..Len(bytes) : j = e + 1 - m
      BY <1>1
    <3>2. bytes[j] \in 0..255
      BY ByteIn
    <3> QED  BY <3>1, <3>2
  <2>2. b >= 128 /\ b < 128
    BY <1>1, <2>1 DEF Ends
  <2> QED  BY <2>2
<1>2. CASE k < m
  <2>1. PICK b \in 0..255 : b = bytes[e + 1 - k]
    <3>1. PICK j \in 1..Len(bytes) : j = e + 1 - k
      BY <1>2
    <3>2. bytes[j] \in 0..255
      BY ByteIn
    <3> QED  BY <3>1, <3>2
  <2>2. b >= 128 /\ b < 128
    BY <1>2, <2>1 DEF Ends
  <2> QED  BY <2>2
<1> QED  BY <1>1, <1>2

\* b is the byte i of a back length of k bytes.
IsBackByte(n, k, i, b) ==
  b = IF i = 1 THEN Shift(n, k - 1) ELSE (Shift(n, k - i) % 128) + 128

LEMMA BackRead ==
  ASSUME NEW bytes \in Seq(Byte), NEW n, EntryLen(n), NEW o \in Nat, NEW e,
         Stands(bytes, o, encode_backlen(n)), e = o + backlen_size(n)
  PROVE  BackLength(bytes, e) = [size |-> backlen_size(n), len |-> n]
<1>0. n \in Nat
  BY DEF EntryLen
<1>1. PICK k \in 1..5 : k = backlen_size(n) /\ Shift(n, k - 1) < 128
  BY BackSize
<1> DEFINE b == encode_backlen(n)
<1>2. /\ b \in Seq(Byte) /\ Len(b) = k
      /\ \A i \in 1..k : IsBackByte(n, k, i, b[i])
  BY <1>1, BackBytes DEF IsBackByte
<1>3. PICK N \in Nat : N = Len(bytes) /\ o + k <= N /\ \A i \in 1..k : bytes[o + i] = b[i]
  BY <1>2 DEF Stands
<1> HIDE DEF b
<1>4. e \in Nat /\ e = o + k /\ e <= N /\ k <= e
  BY <1>1, <1>3
<1>5. \A i \in 1..k : IsBackByte(n, k, i, bytes[o + i])
  BY <1>2, <1>3
<1>6. ASSUME NEW i \in 1..k
      PROVE  \E x \in Nat : /\ x = Shift(n, k - i) /\ bytes[o + i] % 128 = x % 128
                            /\ (i = 1 => bytes[o + i] = x /\ x < 128)
                            /\ (i # 1 => bytes[o + i] >= 128)
  <2>1. k - i \in 0..4
    OBVIOUS
  <2>2. PICK x \in Nat : x = Shift(n, k - i)
    BY <1>0, <2>1, ShiftIs
  <2>3. CASE i = 1
    <3>1. bytes[o + i] = x /\ x < 128
      BY <1>1, <1>5, <2>2, <2>3 DEF IsBackByte
    <3> QED  BY <2>2, <2>3, <3>1
  <2>4. CASE i # 1
    <3>1. bytes[o + i] = (x % 128) + 128
      BY <1>5, <2>2, <2>4 DEF IsBackByte
    <3>2. PICK y \in 0..127 : y = x % 128
      OBVIOUS
    <3>3. (y + 128) % 128 = y /\ y + 128 >= 128
      OBVIOUS
    <3>4. bytes[o + i] % 128 = x % 128 /\ bytes[o + i] >= 128
      BY <3>1, <3>2, <3>3
    <3> QED  BY <2>2, <2>4, <3>4
  <2> QED  BY <2>3, <2>4
<1>7. Ends(bytes, e, k)
  <2>1. bytes[e + 1 - k] < 128
    <3>1. 1 \in 1..k /\ e + 1 - k = o + 1
      BY <1>4
    <3>2. PICK x \in Nat : bytes[o + 1] = x /\ x < 128
      BY <1>6, <3>1
    <3> QED  BY <3>1, <3>2
  <2>2. ASSUME NEW j \in 1..(k - 1) PROVE bytes[e + 1 - j] >= 128
    <3>1. PICK i \in 1..k : i = k + 1 - j /\ i # 1 /\ e + 1 - j = o + i
      BY <1>4
    <3>2. bytes[o + i] >= 128
      BY <1>6, <3>1
    <3> QED  BY <3>1, <3>2
  <2> QED  BY <2>1, <2>2 DEF Ends
<1>8. (CHOOSE m \in 1..5 : Ends(bytes, e, m)) = k
  <2>1. \A m \in 1..5 : Ends(bytes, e, m) => m = k
    BY <1>3, <1>4, <1>7, EndsOnce
  <2> QED  BY <1>7, <2>1
<1> DEFINE c == BackBits(bytes, o, k)
<1>9. c[0] = 0 /\ \A i \in 1..k : c[i] = 128 * c[i - 1] + (bytes[o + i] % 128)
  <2>1. k \in Nat /\ o + k <= Len(bytes)
    BY <1>3
  <2>2. BitsOf(bytes, o, k, c)
    BY <2>1, BackBitsIs
  <2> HIDE DEF c
  <2> QED  BY <2>2 DEF BitsOf
<1> HIDE DEF c
<1> DEFINE T == {i \in 0..k : i = 0 \/ c[i] = Shift(n, k - i)}
<1>10. 0 \in T
  OBVIOUS
<1>11. ASSUME NEW i \in 1..k, i - 1 \in T PROVE i \in T
  <2>1. PICK x \in Nat : /\ x = Shift(n, k - i) /\ bytes[o + i] % 128 = x % 128
                         /\ (i = 1 => bytes[o + i] = x /\ x < 128)
    BY <1>6
  <2>2. CASE i = 1
    <3>1. c[i] = 128 * c[0] + (x % 128)
      BY <1>9, <2>1, <2>2
    <3>2. x % 128 = x
      BY <2>1, <2>2
    <3>3. c[i] = x
      BY <1>9, <3>1, <3>2
    <3> QED  BY <2>1, <3>3
  <2>3. CASE i # 1
    <3>1. PICK j \in 0..3 : j = k - i
      BY <2>3
    <3>2. k - (i - 1) = j + 1 /\ j + 1 \in 0..4 /\ i - 1 # 0
      BY <2>3, <3>1
    <3>3. c[i - 1] = Shift(n, j + 1)
      BY <1>11, <3>2
    <3>4. Shift(n, j) = 128 * Shift(n, j + 1) + (Shift(n, j) % 128)
      BY <1>0, ShiftStep
    <3>5. PICK y \in Nat : y = Shift(n, j + 1)
      BY <1>0, <3>2, ShiftIs
    <3>6. x = 128 * y + (x % 128)
      BY <2>1, <3>1, <3>4, <3>5
    <3>7. c[i] = 128 * y + (x % 128)
      BY ZenonT(60), <1>9, <2>1, <3>3, <3>5
    <3> QED  BY <2>1, <3>6, <3>7
  <2> QED  BY <2>2, <2>3
<1>12. k \in T
  <2>1. 0..k \subseteq T
    <3> HIDE DEF T
    <3> QED  BY <1>10, <1>11, UpTo
  <2>2. k \in 0..k
    OBVIOUS
  <2> HIDE DEF T
  <2> QED  BY <2>1, <2>2
<1>13. c[k] = n
  <2>1. k - k = 0
    OBVIOUS
  <2>2. c[k] = Shift(n, 0)
    BY <1>12, <2>1
  <2> QED  BY <1>0, <2>2, ShiftNone
<1>14. BackLength(bytes, e) = [size |-> k, len |-> BackBits(bytes, e - k, k)[k]]
  BY ONLY <1>8 DEF BackLength, Ends
<1>15. e - k = o
  BY <1>4
<1> QED  BY <1>1, <1>13, <1>14, <1>15 DEF c

\* The back lengths lead from the end of every entry to its beginning, however many
\* bytes they and the entries have.
THEOREM PackAlwaysWalksBackwards == Spec => []WalksBackwards
<1>1. ASSUME PackInv PROVE WalksBackwards
  <2>1. PICK at : Placed(data, given, at)
    BY <1>1 DEF PackInv, Packs
  <2>2. PICK L \in Nat : L = Len(given) /\ \A i \in 1..L : Fit(given[i])
    BY <1>1 DEF PackInv, Packs
  <2> DEFINE es == Entries(data)
  <2>3. es = EntriesOf(given, at)
    BY <1>1, <2>1, EntriesRead DEF PackInv
  <2>4. es = [i \in 1..L |-> [value |-> Stored(given[i]), at |-> at[i]]]
    BY <2>2, <2>3 DEF EntriesOf
  <2> HIDE DEF es
  <2>5. Len(es) = L /\ \A i \in 1..L : es[i].at = at[i]
    BY <2>4
  <2>6. /\ at \in [1..(L + 1) -> LP_HDR_SIZE..(Len(data) - 1)] /\ at[L + 1] = Len(data) - 1
        /\ \A i \in 1..L : /\ Stands(data, at[i], Coded(given[i]))
                           /\ at[i + 1] = at[i] + Len(Coded(given[i]))
    BY <2>2, <2>1 DEF Placed
  <2>7. data \in Seq(Byte)
    BY <1>1 DEF PackInv, Packs
  <2> DEFINE end(i) == IF i = L THEN Len(data) - 1 ELSE es[i + 1].at
  <2>8. ASSUME NEW i \in 1..L
        PROVE  end(i) - BackLength(data, end(i)).size - BackLength(data, end(i)).len = es[i].at
    <3>1. end(i) = at[i + 1]
      <4>1. CASE i = L
        BY <2>6, <4>1
      <4>2. CASE i # L
        <5>1. i + 1 \in 1..L
          BY <4>2
        <5> QED  BY <2>5, <4>2, <5>1
      <4> QED  BY <4>1, <4>2
    <3> HIDE DEF end
    <3>2. PICK s : s = given[i] /\ Fit(s)
      BY <2>2
    <3>3. PICK o \in Nat : o = at[i]
      <4>1. i \in 1..(L + 1) /\ LP_HDR_SIZE \in Nat /\ Len(data) \in Nat
        BY <2>7 DEF LP_HDR_SIZE
      <4>2. at[i] \in LP_HDR_SIZE..(Len(data) - 1)
        BY <2>6, <4>1
      <4> QED  BY <4>1, <4>2
    <3>4. PICK n \in Nat, k \in 1..5 : n = Len(encoding(s)) /\ k = backlen_size(n) /\ EntryLen(n)
      BY <3>2, CodedIs DEF Fit
    <3>5. /\ encoding(s) \in Seq(Byte) /\ encode_backlen(n) \in Seq(Byte)
          /\ Len(Coded(s)) = n + k /\ Coded(s) = encoding(s) \o encode_backlen(n)
      BY <3>2, <3>4, CodedIs DEF Coded
    <3>6. Stands(data, o, encoding(s) \o encode_backlen(n))
      BY <2>6, <3>2, <3>3, <3>5
    <3>7. Stands(data, o + Len(encoding(s)), encode_backlen(n))
      BY <2>7, <3>5, <3>6, StandsJoined
    <3>8. PICK p \in Nat : p = o + n
      OBVIOUS
    <3>9. Stands(data, p, encode_backlen(n))
      BY <3>4, <3>7, <3>8
    <3>10. PICK e \in Nat : e = end(i) /\ e = p + k /\ e = p + backlen_size(n)
      <4>1. at[i + 1] = o + (n + k)
        BY <2>6, <3>2, <3>3, <3>5
      <4> QED  BY SMTT(30), <3>1, <3>4, <3>8, <4>1
    <3>11. BackLength(data, e) = [size |-> backlen_size(n), len |-> n]
      BY <2>7, <3>4, <3>9, <3>10, BackRead
    <3>12. BackLength(data, e).size = k /\ BackLength(data, e).len = n
      BY <3>4, <3>11
    <3>13. e - k - n = o
      BY <3>8, <3>10
    <3> QED  BY <2>5, <3>3, <3>10, <3>12, <3>13
  <2> QED  BY <2>5, <2>8 DEF WalksBackwards, es
<1> QED  BY <1>1, PackAlways, PTL
=============================================================================
