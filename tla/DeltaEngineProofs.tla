------------------------- MODULE DeltaEngineProofs -------------------------
(***************************************************************************)
(* For every input and every choice of the chunk sizes, mask and hash      *)
(* parameters, chunkData cuts its input without gap or overlap into chunks *)
(* of bounded size, where the bytes of the chunks say so, and reports them *)
(* in its statistics; the DeltaEngine uses the Chunker as it allows, a     *)
(* delta loses no chunk of its file, and an acknowledged upload of one     *)
(* stores the file; and what was compressed is given back.                 *)
(***************************************************************************)
EXTENDS MCDelta, SequenceTheorems, FiniteSetTheorems, WellFoundedInduction, TLAPS

(* Induction over data                                                     *)

(* A set of numbers that is not empty has a least one: < is well-founded.  *)
LEMMA LeastNumber ==
    ASSUME NEW T, T \subseteq Nat, T # {}
    PROVE  \E x \in T : \A y \in T : x <= y
<1>1. \E x \in T : \A y \in T : ~ (<<y, x>> \in OpToRel(<, Nat))
  BY NatLessThanWellFounded, WFMin
<1>2. PICK x \in T : \A y \in T : ~ (<<y, x>> \in {ss \in Nat \X Nat : ss[1] < ss[2]})
  BY <1>1 DEF OpToRel
<1>3. ASSUME NEW y \in T PROVE x <= y
  <2>1. y < x => <<y, x>> \in {ss \in Nat \X Nat : ss[1] < ss[2]}
    OBVIOUS
  <2>2. ~ (y < x)
    BY <1>2, <2>1
  <2> QED
    BY <2>2
<1> QED
  BY <1>3

(* A set that has 0, and with each number the next, has all numbers.       *)
LEMMA Induction ==
    ASSUME NEW T, 0 \in T, \A n \in Nat : n \in T => n + 1 \in T
    PROVE  \A n \in Nat : n \in T
<1> SUFFICES ASSUME Nat \ T # {} PROVE FALSE
  OBVIOUS
<1>1. PICK x \in Nat \ T : \A y \in Nat \ T : x <= y
  BY LeastNumber
<1>2. x # 0 /\ x - 1 \in Nat /\ x - 1 \notin Nat \ T
  BY <1>1
<1> QED
  BY <1>1, <1>2

-----------------------------------------------------------------------------
(* The rolling hash                                                        *)

(* A hash is a remainder.                                                  *)
LEMMA AppendType ==
    ASSUME NEW h \in 0 .. kMod - 1, NEW b \in Nat
    PROVE  append(h, b) \in 0 .. kMod - 1
<1>1. h * kPrime + b \in Nat /\ kMod \in Nat \ {0}
  BY HashAssumption
<1>2. \A x \in Nat : x % kMod \in 0 .. kMod - 1
  BY HashAssumption
<1> QED
  BY <1>1, <1>2 DEF append

(* FoldLeft's function: the hash of the bytes at a set of places.          *)
HashAt(b) ==
    CHOOSE f : f = [s \in SUBSET (DOMAIN b) |->
                      IF s = {} THEN reset ELSE append(f[s \ {Max(s)}], b[Max(s)])]

(* HashOf folds with that function.                                        *)
LEMMA HashOfIsFold == ASSUME NEW b PROVE HashOf(b) = HashAt(b)[DOMAIN b]
BY DEF HashOf, FoldLeft, MapThenFoldSet, HashAt

(* The greatest number of a set.                                           *)
LEMMA MaxIs ==
    ASSUME NEW s, NEW m \in s, s \subseteq Nat, \A x \in s : x <= m
    PROVE  Max(s) = m
<1>1. \A y \in s : m >= y
  OBVIOUS
<1>2. Max(s) \in s /\ \A y \in s : Max(s) >= y
  BY <1>1 DEF Max
<1>3. m \in Nat /\ Max(s) \in Nat /\ m >= Max(s) /\ Max(s) >= m
  BY <1>1, <1>2
<1> QED
  BY <1>3

(* The recursive definition of FoldLeft has a solution.                    *)
LEMMA HashAtDef ==
    ASSUME NEW S, NEW b \in Seq(S)
    PROVE  HashAt(b) = [s \in SUBSET (1 .. Len(b)) |->
                          IF s = {} THEN reset
                          ELSE append(HashAt(b)[s \ {Max(s)}], b[Max(s)])]
<1> DEFINE Solves(f, k) ==
             f = [s \in SUBSET (1 .. k) |->
                    IF s = {} THEN reset ELSE append(f[s \ {Max(s)}], b[Max(s)])]
           T == {k \in Nat : \E f : Solves(f, k)}
<1>1. 0 \in T
  <2> DEFINE f == [s \in SUBSET (1 .. 0) |-> reset]
  <2>1. \A s \in SUBSET (1 .. 0) : s = {}
    OBVIOUS
  <2>2. Solves(f, 0)
    BY <2>1
  <2> QED
    BY <2>2
<1>2. ASSUME NEW k \in Nat, k \in T PROVE k + 1 \in T
  <2>1. PICK f : Solves(f, k)
    BY <1>2
  <2> DEFINE g == [s \in SUBSET (1 .. k + 1) |->
                     IF k + 1 \in s THEN append(f[s \ {k + 1}], b[k + 1]) ELSE f[s]]
  <2>2. ASSUME NEW s \in SUBSET (1 .. k + 1)
        PROVE  g[s] = IF s = {} THEN reset ELSE append(g[s \ {Max(s)}], b[Max(s)])
    <3>1. CASE k + 1 \in s
      <4>1. Max(s) = k + 1
        <5>1. s \subseteq Nat /\ \A x \in s : x <= k + 1
          OBVIOUS
        <5> QED
          BY <3>1, <5>1, MaxIs
      <4>2. s \ {k + 1} \in SUBSET (1 .. k + 1) /\ k + 1 \notin s \ {k + 1} /\ s # {}
        BY <3>1
      <4> QED
        BY <3>1, <4>1, <4>2
    <3>2. CASE k + 1 \notin s
      <4>1. s \in SUBSET (1 .. k)
        BY <3>2
      <4>2. \A x : s \ {x} \in SUBSET (1 .. k + 1) /\ k + 1 \notin s \ {x}
        BY <3>2
      <4>3. f[s] = IF s = {} THEN reset ELSE append(f[s \ {Max(s)}], b[Max(s)])
        BY <2>1, <4>1
      <4>4. g[s] = f[s] /\ g[s \ {Max(s)}] = f[s \ {Max(s)}]
        BY <3>2, <4>2
      <4> QED
        BY <4>3, <4>4
    <3> QED
      BY <3>1, <3>2
  <2>3. Solves(g, k + 1)
    BY <2>2
  <2> HIDE DEF g, Solves
  <2> QED
    BY <2>3
<1>3. Len(b) \in T
  <2> HIDE DEF T
  <2> QED
    BY <1>1, <1>2, Induction
<1>4. PICK f : Solves(f, Len(b))
  BY <1>3
<1>5. DOMAIN b = 1 .. Len(b)
  OBVIOUS
<1> QED
  BY <1>4, <1>5 DEF HashAt

(* The hash of the first places is that of one place less and a byte.      *)
LEMMA HashAtStep ==
    ASSUME NEW S, NEW b \in Seq(S)
    PROVE  /\ HashAt(b)[1 .. 0] = reset
           /\ \A k \in Nat : k < Len(b) =>
                 HashAt(b)[1 .. k + 1] = append(HashAt(b)[1 .. k], b[k + 1])
<1>1. ASSUME NEW s \in SUBSET (1 .. Len(b))
      PROVE  HashAt(b)[s] = IF s = {} THEN reset
                            ELSE append(HashAt(b)[s \ {Max(s)}], b[Max(s)])
  BY HashAtDef, Zenon
<1>2. ASSUME NEW k \in Nat, k < Len(b)
      PROVE  HashAt(b)[1 .. k + 1] = append(HashAt(b)[1 .. k], b[k + 1])
  <2>1. 1 .. k + 1 \in SUBSET (1 .. Len(b)) /\ 1 .. k + 1 # {}
    <3>1. Len(b) \in Nat /\ 1 \in 1 .. k + 1
      OBVIOUS
    <3>2. 1 .. k + 1 \subseteq 1 .. Len(b)
      BY <1>2, <3>1
    <3> QED
      BY <3>1, <3>2, Zenon
  <2>2. Max(1 .. k + 1) = k + 1
    <3>1. k + 1 \in 1 .. k + 1 /\ 1 .. k + 1 \subseteq Nat /\ \A x \in 1 .. k + 1 : x <= k + 1
      OBVIOUS
    <3> QED
      BY <3>1, MaxIs
  <2>3. (1 .. k + 1) \ {k + 1} = 1 .. k
    OBVIOUS
  <2> QED
    BY <1>1, <2>1, <2>2, <2>3
<1>3. 1 .. 0 \in SUBSET (1 .. Len(b)) /\ 1 .. 0 = {}
  OBVIOUS
<1> QED
  BY <1>1, <1>2, <1>3

(* Sequences with the same first bytes have the same hashes of them.       *)
LEMMA HashAtPrefix ==
    ASSUME NEW S, NEW b \in Seq(S), NEW c \in Seq(S), NEW n \in Nat, n <= Len(b), n <= Len(c),
           \A k \in 1 .. n : b[k] = c[k]
    PROVE  HashAt(b)[1 .. n] = HashAt(c)[1 .. n]
<1> DEFINE T == {k \in Nat : k <= n => HashAt(b)[1 .. k] = HashAt(c)[1 .. k]}
<1>1. 0 \in T
  BY HashAtStep
<1>2. ASSUME NEW k \in Nat, k \in T PROVE k + 1 \in T
  <2> SUFFICES ASSUME k + 1 <= n PROVE HashAt(b)[1 .. k + 1] = HashAt(c)[1 .. k + 1]
    OBVIOUS
  <2>1. HashAt(b)[1 .. k] = HashAt(c)[1 .. k] /\ b[k + 1] = c[k + 1]
    BY <1>2
  <2>2. k < Len(b) /\ k < Len(c)
    OBVIOUS
  <2>3. HashAt(b)[1 .. k + 1] = append(HashAt(b)[1 .. k], b[k + 1])
    BY <2>2, HashAtStep
  <2>4. HashAt(c)[1 .. k + 1] = append(HashAt(c)[1 .. k], c[k + 1])
    BY <2>2, HashAtStep
  <2> QED
    BY <2>1, <2>3, <2>4
<1>3. n \in T
  <2> HIDE DEF T
  <2> QED
    BY <1>1, <1>2, Induction
<1> QED
  BY <1>3

(* The hash of no bytes.                                                   *)
LEMMA HashEmpty == HashOf(<<>>) = reset
<1>1. <<>> \in Seq(Nat) /\ DOMAIN <<>> = 1 .. 0
  OBVIOUS
<1> QED
  BY <1>1, HashOfIsFold, HashAtStep

(* The hash of one byte more.                                              *)
LEMMA HashAppend ==
    ASSUME NEW S, NEW b \in Seq(S), NEW x \in S
    PROVE  HashOf(Append(b, x)) = append(HashOf(b), x)
<1> DEFINE c == Append(b, x)
<1>1. /\ c \in Seq(S) /\ Len(c) = Len(b) + 1 /\ Len(b) \in Nat
      /\ DOMAIN b = 1 .. Len(b) /\ DOMAIN c = 1 .. Len(b) + 1
      /\ c[Len(b) + 1] = x /\ \A k \in 1 .. Len(b) : c[k] = b[k]
  OBVIOUS
<1> HIDE DEF c
<1>2. HashAt(c)[1 .. Len(b) + 1] = append(HashAt(c)[1 .. Len(b)], x)
  BY <1>1, HashAtStep
<1>3. HashAt(c)[1 .. Len(b)] = HashAt(b)[1 .. Len(b)]
  <2>1. Len(b) <= Len(b) /\ Len(b) <= Len(c)
    BY <1>1
  <2> QED
    BY <1>1, <2>1, HashAtPrefix
<1> QED
  BY <1>1, <1>2, <1>3, HashOfIsFold DEF c

(* Hashes are remainders.                                                  *)
LEMMA HashAtType ==
    ASSUME NEW b \in Seq(Nat), NEW n \in Nat, n <= Len(b)
    PROVE  HashAt(b)[1 .. n] \in 0 .. kMod - 1
<1> DEFINE T == {k \in Nat : k <= Len(b) => HashAt(b)[1 .. k] \in 0 .. kMod - 1}
<1>1. 0 \in T
  BY HashAtStep, HashAssumption DEF reset
<1>2. ASSUME NEW k \in Nat, k \in T PROVE k + 1 \in T
  <2> SUFFICES ASSUME k + 1 <= Len(b) PROVE HashAt(b)[1 .. k + 1] \in 0 .. kMod - 1
    OBVIOUS
  <2>1. HashAt(b)[1 .. k] \in 0 .. kMod - 1 /\ k < Len(b) /\ b[k + 1] \in Nat
    BY <1>2
  <2>2. HashAt(b)[1 .. k + 1] = append(HashAt(b)[1 .. k], b[k + 1])
    BY <2>1, HashAtStep
  <2> QED
    BY <2>1, <2>2, AppendType
<1>3. n \in T
  <2> HIDE DEF T
  <2> QED
    BY <1>1, <1>2, Induction
<1> QED
  BY <1>3

-----------------------------------------------------------------------------
(* Arithmetic modulo m                                                     *)

(* What a remainder is.                                                    *)
LEMMA Remainder ==
    ASSUME NEW a \in Int, NEW m \in Nat \ {0}
    PROVE  \E q \in Int : a = q * m + (a % m) /\ (a % m) \in 0 .. m - 1
<1>1. (a \div m) \in Int /\ a = (a \div m) * m + (a % m) /\ (a % m) \in 0 .. m - 1
  OBVIOUS
<1> QED
  BY <1>1

(* There is one number below m that a multiple of m can be short by.       *)
LEMMA RemainderUnique ==
    ASSUME NEW m \in Nat \ {0}, NEW q \in Int, NEW r \in 0 .. m - 1
    PROVE  (q * m + r) % m = r
OBVIOUS

(* Numbers that differ by a multiple of m have the same remainder.         *)
LEMMA SameRemainder ==
    ASSUME NEW m \in Nat \ {0}, NEW a \in Int, NEW b \in Int, NEW d \in Int, a = b + d * m
    PROVE  a % m = b % m
<1>1. PICK q \in Int : b = q * m + (b % m) /\ (b % m) \in 0 .. m - 1
  BY Remainder
<1> DEFINE r == b % m
<1> HIDE DEF r
<1>2. r \in 0 .. m - 1 /\ a = (q + d) * m + r
  BY <1>1 DEF r
<1>3. q + d \in Int
  OBVIOUS
<1>4. a % m = r
  BY <1>2, <1>3, RemainderUnique
<1> QED
  BY <1>4 DEF r

(* One step of the hash of a window, with its first byte o set apart.      *)
Rolls(m, o, w, h, p, c) ==
    (((o * w + h) % m) * p + c) % m = (o * ((w * p) % m) + ((h * p + c) % m)) % m

(* That step holds of all numbers.                                         *)
LEMMA RollArithmetic ==
    ASSUME NEW m \in Nat \ {0}, NEW o \in Nat, NEW w \in Nat, NEW h \in Nat,
           NEW p \in Nat, NEW c \in Nat
    PROVE  Rolls(m, o, w, h, p, c)
<1>1. o * w \in Nat /\ w * p \in Nat /\ h * p \in Nat
  OBVIOUS
<1> DEFINE a1 == o * w + h
           a2 == w * p
           a3 == h * p + c
           r1 == a1 % m
           r2 == a2 % m
           r3 == a3 % m
<1>a. a1 \in Int /\ a2 \in Int /\ a3 \in Int
  BY <1>1
<1> HIDE DEF a1, a2, a3
<1>2. PICK q1 \in Int : a1 = q1 * m + r1 /\ r1 \in 0 .. m - 1
  BY <1>a, Remainder, Zenon
<1>3. PICK q2 \in Int : a2 = q2 * m + r2 /\ r2 \in 0 .. m - 1
  BY <1>a, Remainder, Zenon
<1>4. PICK q3 \in Int : a3 = q3 * m + r3 /\ r3 \in 0 .. m - 1
  BY <1>a, Remainder, Zenon
<1> HIDE DEF r1, r2, r3
<1> DEFINE d == o * q2 + q3 - q1 * p
<1>5. r1 * p + c = o * r2 + r3 + d * m
  <2>1. r1 = o * w + h - q1 * m
    BY <1>1, <1>2 DEF a1
  <2>2. r1 * p = o * (w * p) + h * p - (q1 * p) * m
    BY <2>1, <1>1
  <2>3. o * (w * p) = (o * q2) * m + o * r2
    BY <1>3 DEF a2
  <2>4. o * q2 \in Int /\ q1 * p \in Int /\ o * r2 \in Int
    BY <1>3
  <2>5. d * m = (o * q2) * m + q3 * m - (q1 * p) * m
    BY <2>4
  <2>6. /\ (o * q2) * m \in Int /\ q3 * m \in Int /\ (q1 * p) * m \in Int
        /\ r1 * p \in Int /\ d * m \in Int
    BY <1>2, <2>4
  <2> HIDE DEF d
  <2> QED
    BY <1>1, <1>3, <1>4, <2>2, <2>3, <2>4, <2>5, <2>6 DEF a3
<1>6. r1 * p + c \in Int /\ o * r2 + r3 \in Int /\ d \in Int
  BY <1>2, <1>3, <1>4
<1> HIDE DEF d
<1>7. (r1 * p + c) % m = (o * r2 + r3) % m
  BY <1>5, <1>6, SameRemainder
<1> QED
  BY <1>7 DEF r1, r2, r3, a1, a2, a3, Rolls

(* Taking the first byte out again.                                        *)
LEMMA UnrollArithmetic ==
    ASSUME NEW m \in Nat \ {0}, NEW x \in Nat, NEW h \in 0 .. m - 1
    PROVE  (((x + h) % m) + m - (x % m)) % m = h
<1> DEFINE a == x + h
           r1 == a % m
           r2 == x % m
<1>a. a \in Int /\ x \in Int
  OBVIOUS
<1> HIDE DEF a
<1>1. PICK q1 \in Int : a = q1 * m + r1 /\ r1 \in 0 .. m - 1
  BY <1>a, Remainder, Zenon
<1>2. PICK q2 \in Int : x = q2 * m + r2 /\ r2 \in 0 .. m - 1
  BY <1>a, Remainder, Zenon
<1> HIDE DEF r1, r2
<1>3. r1 + m - r2 = (q2 - q1 + 1) * m + h
  <2>1. (q2 - q1 + 1) * m = q2 * m - q1 * m + m
    OBVIOUS
  <2> QED
    BY <1>1, <1>2, <2>1 DEF a
<1>4. q2 - q1 + 1 \in Int
  OBVIOUS
<1>5. (r1 + m - r2) % m = h
  BY <1>3, <1>4, RemainderUnique
<1> QED
  BY <1>5 DEF r1, r2, a

-----------------------------------------------------------------------------
(* The powers of kPrime, of which the constructor computes power_.         *)
Powers ==
    CHOOSE f : f = [n \in 0 .. window_size_ |->
                      IF n = 0 THEN 1 ELSE (f[n - 1] * kPrime) % kMod]

(* The recursive definition of the powers has a solution.                  *)
LEMMA PowersDef ==
    Powers = [n \in 0 .. window_size_ |->
                IF n = 0 THEN 1 ELSE (Powers[n - 1] * kPrime) % kMod]
<1> DEFINE Solves(f, k) ==
             f = [n \in 0 .. k |-> IF n = 0 THEN 1 ELSE (f[n - 1] * kPrime) % kMod]
           T == {k \in Nat : \E f : Solves(f, k)}
<1>1. 0 \in T
  <2> DEFINE f == [n \in 0 .. 0 |-> 1]
  <2>1. Solves(f, 0)
    OBVIOUS
  <2> QED
    BY <2>1
<1>2. ASSUME NEW k \in Nat, k \in T PROVE k + 1 \in T
  <2>1. PICK f : Solves(f, k)
    BY <1>2
  <2> DEFINE g == [n \in 0 .. k + 1 |-> IF n = k + 1 THEN (f[k] * kPrime) % kMod ELSE f[n]]
  <2>2. ASSUME NEW n \in 0 .. k + 1
        PROVE  g[n] = IF n = 0 THEN 1 ELSE (g[n - 1] * kPrime) % kMod
    <3>1. CASE n = k + 1
      <4>1. n # 0 /\ n - 1 = k /\ k \in 0 .. k + 1 /\ k # k + 1
        BY <3>1
      <4> QED
        BY <3>1, <4>1
    <3>2. CASE n # k + 1
      <4>1. n \in 0 .. k /\ g[n] = f[n]
        BY <3>2
      <4>2. n # 0 => n - 1 \in 0 .. k + 1 /\ n - 1 # k + 1
        OBVIOUS
      <4>3. n # 0 => g[n - 1] = f[n - 1]
        BY <4>2
      <4>4. f[n] = IF n = 0 THEN 1 ELSE (f[n - 1] * kPrime) % kMod
        BY <2>1, <4>1
      <4> HIDE DEF g
      <4> QED
        BY <4>1, <4>3, <4>4
    <3> QED
      BY <3>1, <3>2
  <2>3. Solves(g, k + 1)
    BY <2>2
  <2> HIDE DEF g, Solves
  <2> QED
    BY <2>3
<1>3. window_size_ \in T
  <2> HIDE DEF T
  <2> QED
    BY <1>1, <1>2, Induction, HashAssumption
<1>4. PICK f : Solves(f, window_size_)
  BY <1>3
<1> QED
  BY <1>4 DEF Powers

(* The powers are numbers, each made from the one before.                  *)
LEMMA PowersType ==
    ASSUME NEW n \in 0 .. window_size_
    PROVE  Powers[n] \in Nat /\ (n > 0 => Powers[n] = (Powers[n - 1] * kPrime) % kMod)
<1> DEFINE T == {k \in Nat : k <= window_size_ => Powers[k] \in Nat}
<1>1. \A k \in 0 .. window_size_ :
         Powers[k] = IF k = 0 THEN 1 ELSE (Powers[k - 1] * kPrime) % kMod
  BY PowersDef, Zenon
<1>2. 0 \in T
  BY <1>1, HashAssumption
<1>3. ASSUME NEW k \in Nat, k \in T PROVE k + 1 \in T
  <2> SUFFICES ASSUME k + 1 <= window_size_ PROVE Powers[k + 1] \in Nat
    OBVIOUS
  <2>1. k + 1 \in 0 .. window_size_ /\ k + 1 # 0 /\ k + 1 - 1 = k
    BY HashAssumption
  <2>2. Powers[k + 1] = (Powers[k] * kPrime) % kMod
    BY <1>1, <2>1
  <2>3. Powers[k] \in Nat /\ Powers[k] * kPrime \in Nat
    BY <1>3, HashAssumption
  <2> QED
    BY <2>2, <2>3, HashAssumption
<1>4. n \in T
  <2> HIDE DEF T
  <2> QED
    BY <1>2, <1>3, Induction, HashAssumption
<1> QED
  BY <1>1, <1>4, HashAssumption

(* The hash of a window: its first byte with its weight, and the rest.     *)
LEMMA WindowHash ==
    ASSUME NEW w \in Seq(Nat), NEW t \in Seq(Nat), Len(w) = Len(t) + 1,
           \A j \in 1 .. Len(t) : t[j] = w[j + 1],
           NEW n \in Nat, n <= Len(t), n <= window_size_
    PROVE  HashAt(w)[1 .. n + 1] = (w[1] * Powers[n] + HashAt(t)[1 .. n]) % kMod
<1> DEFINE T == {k \in Nat : k <= n =>
                    HashAt(w)[1 .. k + 1] = (w[1] * Powers[k] + HashAt(t)[1 .. k]) % kMod}
<1>0. w[1] \in Nat /\ Len(t) \in Nat /\ kMod \in Nat \ {0} /\ kPrime \in Nat
  BY HashAssumption
<1>1. 0 \in T
  <2>0. 0 \in Nat /\ 0 < Len(w)
    BY <1>0
  <2>1. HashAt(w)[1 .. 0 + 1] = append(HashAt(w)[1 .. 0], w[0 + 1])
    BY <2>0, HashAtStep, Zenon
  <2>2. HashAt(w)[1 .. 0] = 0 /\ HashAt(t)[1 .. 0] = 0
    BY HashAtStep DEF reset
  <2>3. Powers[0] = 1
    <3>1. 0 \in 0 .. window_size_
      BY HashAssumption
    <3> QED
      BY <3>1, PowersDef, Zenon
  <2>4. 0 * kPrime + w[1] = w[1] * 1 + 0 /\ 0 + 1 = 1
    BY <1>0
  <2>5. append(0, w[1]) = (w[1] * 1 + 0) % kMod
    BY <2>4 DEF append
  <2> QED
    BY <2>1, <2>2, <2>3, <2>4, <2>5
<1>2. ASSUME NEW k \in Nat, k \in T PROVE k + 1 \in T
  <2> SUFFICES ASSUME k + 1 <= n
               PROVE  HashAt(w)[1 .. (k + 1) + 1]
                        = (w[1] * Powers[k + 1] + HashAt(t)[1 .. k + 1]) % kMod
    OBVIOUS
  <2> DEFINE c == t[k + 1]
             h == HashAt(t)[1 .. k]
             p == Powers[k]
  <2>1. /\ k + 1 < Len(w) /\ k < Len(t) /\ k + 1 \in Nat /\ k <= Len(t) /\ k + 1 \in 1 .. Len(t)
        /\ k \in 0 .. window_size_ /\ k + 1 \in 0 .. window_size_ /\ k + 1 > 0 /\ k + 1 - 1 = k
    BY <1>0, HashAssumption, SMTT(60)
  <2>2. c \in Nat /\ c = w[(k + 1) + 1]
    BY <2>1, SMTT(60)
  <2>3. p \in Nat /\ Powers[k + 1] = (p * kPrime) % kMod
    BY <2>1, PowersType
  <2>4. h \in Nat
    BY <2>1, HashAtType, HashAssumption
  <2>5. HashAt(t)[1 .. k + 1] = (h * kPrime + c) % kMod
    BY <2>1, HashAtStep DEF append
  <2>6. HashAt(w)[1 .. (k + 1) + 1] = (HashAt(w)[1 .. k + 1] * kPrime + c) % kMod
    BY <2>1, <2>2, HashAtStep, ZenonT(60) DEF append
  <2>7. HashAt(w)[1 .. k + 1] = (w[1] * p + h) % kMod
    BY <1>2
  <2> HIDE DEF c, h, p
  <2>8. (((w[1] * p + h) % kMod) * kPrime + c) % kMod
          = (w[1] * ((p * kPrime) % kMod) + ((h * kPrime + c) % kMod)) % kMod
    <3>1. Rolls(kMod, w[1], p, h, kPrime, c)
      BY <1>0, <2>2, <2>3, <2>4, RollArithmetic
    <3> QED
      BY <3>1 DEF Rolls
  <2> QED
    BY <2>3, <2>5, <2>6, <2>7, <2>8
<1>3. n \in T
  <2> HIDE DEF T
  <2> QED
    BY <1>1, <1>2, Induction
<1> QED
  BY <1>3

(* RollingHash::update is exact: rolling the hash of a window one byte     *)
(* forward gives the hash a fresh object has of the window's bytes.        *)
LEMMA UpdateExact ==
    ASSUME NEW bytes \in Seq(Nat)
    PROVE  RollsOver(bytes)
<1> SUFFICES ASSUME NEW s \in 0 .. Len(bytes) - window_size_ - 1
             PROVE  update(HashOf(SubSeq(bytes, s + 1, s + window_size_)),
                           bytes[s + window_size_ + 1], bytes[s + 1])
                      = HashOf(SubSeq(bytes, s + 2, s + window_size_ + 1))
  BY DEF RollsOver
<1> DEFINE n == window_size_ - 1
           w == SubSeq(bytes, s + 1, s + window_size_)
           t == SubSeq(bytes, s + 2, s + window_size_)
           in == bytes[s + window_size_ + 1]
           out == bytes[s + 1]
<1>1. /\ Len(bytes) \in Nat /\ s \in Nat /\ window_size_ \in Nat /\ window_size_ >= 1
      /\ s + window_size_ + 1 <= Len(bytes) /\ kMod \in Nat \ {0}
  BY HashAssumption
<1>2. /\ w \in Seq(Nat) /\ Len(w) = window_size_ /\ w[1] = out
      /\ \A j \in 1 .. window_size_ : w[j] = bytes[s + j]
  <2>0. s + 1 \in 1 .. Len(bytes) + 1 /\ s + window_size_ \in s + 1 - 1 .. Len(bytes)
    BY <1>1
  <2>1. /\ w \in Seq(Nat) /\ Len(w) = (s + window_size_) - (s + 1) + 1
        /\ \A j \in 1 .. (s + window_size_) - (s + 1) + 1 : w[j] = bytes[s + 1 + j - 1]
    BY <2>0, SubSeqProperties, SMTT(60)
  <2>2. \A j \in 1 .. window_size_ : w[j] = bytes[s + j]
    BY <1>1, <2>1
  <2>3. 1 \in 1 .. window_size_
    BY <1>1
  <2> HIDE DEF w
  <2> QED
    BY <1>1, <2>1, <2>2, <2>3
<1>3. /\ t \in Seq(Nat) /\ Len(t) = n /\ n \in Nat
      /\ \A j \in 1 .. n : t[j] = bytes[s + 1 + j]
  BY <1>1
<1>4. in \in Nat /\ out \in Nat
  BY <1>1
<1>5. SubSeq(bytes, s + 2, s + window_size_ + 1) = Append(t, in)
  BY <1>1, <1>3
<1>6. \A j \in 1 .. n : t[j] = w[j + 1]
  BY <1>1, <1>2, <1>3
<1>7. /\ DOMAIN w = 1 .. n + 1 /\ DOMAIN t = 1 .. n
      /\ Len(w) = Len(t) + 1 /\ n <= window_size_ /\ n <= Len(t)
  BY <1>1, <1>2, <1>3
<1> HIDE DEF w, t, in, out, n
<1>8. HashAt(w)[1 .. n + 1] = (w[1] * Powers[n] + HashAt(t)[1 .. n]) % kMod
  BY <1>2, <1>3, <1>6, <1>7, WindowHash, ZenonT(60)
<1>9. HashOf(w) = (out * Powers[n] + HashOf(t)) % kMod
  BY <1>2, <1>7, <1>8, HashOfIsFold
<1>10. HashOf(t) \in 0 .. kMod - 1
  BY <1>3, <1>7, HashOfIsFold, HashAtType
<1>11. power_ = Powers[n] /\ Powers[n] \in Nat
  <2>1. power_ = Powers[n]
    BY DEF power_, Powers, n
  <2>2. n \in 0 .. window_size_
    BY <1>3, <1>7
  <2> QED
    BY <2>1, <2>2, PowersType
<1>12. out * Powers[n] \in Nat
  BY <1>4, <1>11
<1>13. (HashOf(w) + kMod - ((out * Powers[n]) % kMod)) % kMod = HashOf(t)
  <2> DEFINE x == out * Powers[n]
             h == HashOf(t)
  <2> HIDE DEF x, h
  <2>1. (((x + h) % kMod) + kMod - (x % kMod)) % kMod = h
    BY <1>1, <1>10, <1>12, UnrollArithmetic DEF x, h
  <2> QED
    BY <1>9, <2>1 DEF x, h
<1>14. update(HashOf(w), in, out) = append(HashOf(t), in)
  BY <1>11, <1>13 DEF update
<1>15. HashOf(Append(t, in)) = append(HashOf(t), in)
  BY <1>3, <1>4, HashAppend
<1> QED
  BY <1>5, <1>14, <1>15 DEF w, in, out

-----------------------------------------------------------------------------
(* The chunker                                                             *)

(* Where the scan is: the open chunk begins at or before the next byte.    *)
ScanPosition ==
    pc = "scan" => chunk_start <= i

IndInv == TypeOK /\ Tiling /\ SizesBounded /\ ScanPosition

(* A chunk that does not end the input is cut at kMinChunkSize or later;   *)
(* a chunk that is not cut is shorter than kMaxChunkSize.                  *)
LEMMA CutBounds ==
    ASSUME NEW h, NEW size \in Nat, NEW last \in BOOLEAN
    PROVE  /\ is_cut(h, size, last) => size >= kMinChunkSize \/ last
           /\ ~is_cut(h, size, last) => size < kMaxChunkSize /\ ~last
<1>1. normalized_chunk_size \in Nat /\ normalized_chunk_size >= kMinChunkSize
  BY ChunkerAssumption DEF normalized_chunk_size
<1>2. is_boundary(h, size) => size >= kMinChunkSize
  BY <1>1, ChunkerAssumption DEF is_boundary
<1> QED
  BY <1>2, ChunkerAssumption DEF is_cut

(* The object starts without chunks.                                       *)
LEMMA InitIndInv == Init => IndInv
<1> SUFFICES ASSUME Init PROVE IndInv
  OBVIOUS
<1>1. TypeOK
  <2>1. last_stats_ \in [total_chunks : Nat, min_size : Nat, max_size : Nat,
                         total_size : Nat]
    BY DEF Init, Uninitialised, NoStats
  <2> QED
    BY <2>1, HashAssumption, ChunkerAssumption DEF Init, TypeOK, reset, NoRead
<1>2. Tiling /\ SizesBounded /\ ScanPosition
  BY DEF Init, Tiling, SizesBounded, ScanPosition
<1> QED
  BY <1>1, <1>2 DEF IndInv

(* A call begins with no chunks and the scan at the first byte.            *)
LEMMA CallStep ==
    ASSUME IndInv, NEW d \in Inputs, ChunkData(d)
    PROVE  IndInv'
<1>1. d \in Seq(Byte)
  BY DEF Inputs
<1>2. TypeOK'
  <2>1. last_read' \in [done : BOOLEAN, chunks : Seq([offset : Nat, size : Positive]),
                        length : Nat]
    <3>1. \/ UNCHANGED last_read
          \/ last_read' = [done |-> TRUE, chunks |-> <<>>, length |-> 0]
      BY DEF ChunkData
    <3>2. [done |-> TRUE, chunks |-> <<>>, length |-> 0] \in
             [done : BOOLEAN, chunks : Seq([offset : Nat, size : Positive]), length : Nat]
      OBVIOUS
    <3> QED
      BY <3>1, <3>2, Zenon DEF IndInv, TypeOK, Positive
  <2> QED
    BY <1>1, <2>1, HashAssumption, ChunkerAssumption, SMTT(60)
       DEF ChunkData, IndInv, TypeOK, NoStats, reset
<1>3. Len(d) \in Nat /\ (d # <<>> => Len(d) # 0)
  BY <1>1
<1>4. Tiling' /\ SizesBounded' /\ ScanPosition'
  BY <1>3, ChunkerAssumption DEF ChunkData, Tiling, SizesBounded, ScanPosition
<1> QED
  BY <1>2, <1>4 DEF IndInv

(* One byte: the open chunk grows, or is closed where it ends.             *)
LEMMA ScanStep ==
    ASSUME IndInv, ScanByte
    PROVE  IndInv'
<1> DEFINE h == append(hash, data[i + 1])
           size == i + 1 - chunk_start
           last == i = Len(data) - 1
<1> USE DEF IndInv
<1>1. /\ pc = "scan" /\ i \in Nat /\ Len(data) \in Nat /\ i < Len(data)
      /\ chunk_start \in Nat /\ chunk_start <= i /\ data \in Seq(Byte)
      /\ i - chunk_start < kMaxChunkSize /\ kMaxChunkSize \in Nat
      /\ UNCHANGED <<data, pc, last_stats_, calls, last_read>> /\ i' = i + 1
  BY ChunkerAssumption DEF ScanByte, TypeOK, SizesBounded, ScanPosition
<1>2. h \in 0 .. kMod - 1 /\ size \in Positive /\ size <= kMaxChunkSize
  <2>1. data[i + 1] \in Byte /\ hash \in 0 .. kMod - 1
    BY <1>1 DEF TypeOK
  <2>2. h \in 0 .. kMod - 1
    BY <2>1, AppendType, ChunkerAssumption
  <2>3. size \in Positive /\ size <= kMaxChunkSize
    BY <1>1 DEF Positive
  <2> QED
    BY <2>2, <2>3
<1>3. CASE is_cut(h, size, last)
  <2> DEFINE new == [offset |-> chunk_start, size |-> size]
  <2>1. /\ chunks' = Append(chunks, new) /\ chunk_start' = i + 1 /\ hash' = reset
        /\ min_size' \in {size, min_size} /\ max_size' \in {size, max_size}
        /\ total_size' = total_size + size
    BY <1>3 DEF ScanByte, afterCut
  <2>2. new \in [offset : Nat, size : Positive]
    BY <1>1, <1>2
  <2>3. chunks \in Seq([offset : Nat, size : Positive])
    BY DEF TypeOK
  <2>4. /\ chunks' \in Seq([offset : Nat, size : Positive])
        /\ Len(chunks) \in Nat /\ Len(chunks') = Len(chunks) + 1
        /\ \A k \in 1 .. Len(chunks) : chunks'[k] = chunks[k]
        /\ chunks'[Len(chunks) + 1] = new
    BY <2>1, <2>2, <2>3
  <2>5. TypeOK'
    <3>1. {min_size, max_size, total_size}' \subseteq Nat
      <4>1. {min_size, max_size, total_size} \subseteq Nat
        BY DEF TypeOK
      <4>2. size \in Nat
        BY <1>2 DEF Positive
      <4> HIDE DEF size
      <4>3. total_size + size \in Nat
        BY <4>1, <4>2
      <4> QED
        BY <2>1, <4>1, <4>2, <4>3
    <3>2. hash' \in 0 .. kMod - 1
      BY <2>1, HashAssumption DEF reset
    <3> QED
      BY <1>1, <2>1, <2>4, <3>1, <3>2, SMTT(60) DEF TypeOK
  <2>6. Tiling'
    <3>1. new.offset + new.size = i + 1 /\ new.offset = chunk_start
      BY <1>1
    <3> HIDE DEF new
    <3>2. ASSUME NEW k \in 1 .. Len(chunks)
          PROVE  chunks'[k].offset + chunks'[k].size = chunks'[k + 1].offset
      <4>1. CASE k < Len(chunks)
        BY <2>4, <4>1, SMTT(60) DEF Tiling
      <4>2. CASE k = Len(chunks)
        BY <2>4, <3>1, <4>2 DEF Tiling
      <4> QED
        BY <2>4, <4>1, <4>2
    <3>3. chunks'[1].offset = 0
      <4>1. CASE chunks = <<>>
        BY <1>1, <2>3, <2>4, <3>1, <4>1 DEF Tiling
      <4>2. CASE chunks # <<>>
        BY <2>3, <2>4, <4>2 DEF Tiling
      <4> QED
        BY <4>1, <4>2
    <3>4. chunks' # <<>>
      BY <2>1, <2>4
    <3>5. \A k \in 1 .. Len(chunks') : k \in 1 .. Len(chunks) \/ k = Len(chunks')
      BY <2>4
    <3>6. ASSUME NEW k \in 1 .. Len(chunks')
          PROVE  chunks'[k].offset + chunks'[k].size =
                    IF k < Len(chunks') THEN chunks'[k + 1].offset ELSE chunk_start'
      BY <2>1, <2>4, <3>1, <3>2, <3>5
    <3> QED
      BY <1>1, <2>1, <3>3, <3>4, <3>6 DEF Tiling
  <2>7. SizesBounded'
    <3>1. size >= kMinChunkSize \/ chunk_start' = Len(data)
      <4>1. size \in Nat /\ last \in BOOLEAN
        BY <1>2 DEF Positive
      <4>2. last => chunk_start' = Len(data)
        BY <1>1, <2>1, SMTT(60)
      <4> HIDE DEF h, size, last
      <4> QED
        BY <1>3, <4>1, <4>2, CutBounds
    <3>2. chunk_start # Len(data)
      BY <1>1
    <3>3. new.size = size
      OBVIOUS
    <3> HIDE DEF new, size
    <3>4. ASSUME NEW k \in 1 .. Len(chunks')
          PROVE  /\ chunks'[k].size <= kMaxChunkSize
                 /\ \/ chunks'[k].size >= kMinChunkSize
                    \/ k = Len(chunks') /\ chunk_start' = Len(data)
      <4>1. CASE k \in 1 .. Len(chunks)
        BY <2>4, <3>2, <4>1 DEF SizesBounded
      <4>2. CASE k = Len(chunks')
        BY <1>2, <2>4, <3>1, <3>3, <4>2
      <4> QED
        BY <2>4, <4>1, <4>2
    <3>5. i' - chunk_start' < kMaxChunkSize
      BY <1>1, <2>1, ChunkerAssumption
    <3> QED
      BY <1>1, <3>4, <3>5 DEF SizesBounded
  <2>8. ScanPosition'
    BY <1>1, <2>1 DEF ScanPosition
  <2> QED
    BY <2>5, <2>6, <2>7, <2>8
<1>4. CASE ~is_cut(h, size, last)
  <2>1. /\ UNCHANGED <<chunks, chunk_start, min_size, max_size, total_size>>
        /\ hash' = h
    BY <1>4 DEF ScanByte
  <2>2. size < kMaxChunkSize /\ i # Len(data) - 1
    BY <1>1, <1>2, <1>4, CutBounds DEF Positive
  <2>3. TypeOK'
    BY <1>1, <1>2, <2>1 DEF TypeOK
  <2>4. Tiling'
    BY <1>1, <2>1, <2>2 DEF Tiling
  <2>5. SizesBounded'
    BY <1>1, <2>1, <2>2 DEF SizesBounded
  <2>6. ScanPosition'
    BY <1>1, <2>1 DEF ScanPosition
  <2> QED
    BY <2>3, <2>4, <2>5, <2>6
<1> QED
  BY <1>3, <1>4

(* The invariant holds in every reachable state.                           *)
LEMMA IndInvariant == Spec => []IndInv
<1>1. IndInv /\ [Next]_vars => IndInv'
  <2> SUFFICES ASSUME IndInv, [Next]_vars PROVE IndInv'
    OBVIOUS
  <2>1. CASE OpenFails
    BY <2>1, ChunkerAssumption
       DEF OpenFails, IndInv, TypeOK, Tiling, SizesBounded, ScanPosition
  <2>2. CASE Return
    <3>1. Len(chunks) \in Nat /\ Len(data) \in Nat
      BY DEF IndInv, TypeOK
    <3>2. TypeOK'
      BY <2>2, <3>1 DEF Return, locals, IndInv, TypeOK
    <3> QED
      BY <2>2, <3>2 DEF Return, locals, IndInv, Tiling, SizesBounded, ScanPosition
  <2>3. CASE UNCHANGED vars
    BY <2>3 DEF vars, locals, IndInv, TypeOK, Tiling, SizesBounded, ScanPosition
  <2> QED
    BY <2>1, <2>2, <2>3, CallStep, ScanStep DEF Next
<1> QED
  BY <1>1, InitIndInv, PTL DEF Spec

-----------------------------------------------------------------------------
(* The locals and statistics are well typed; no chunk is empty.            *)
THEOREM TypeCorrect == Spec => []TypeOK
<1>1. IndInv => TypeOK
  BY DEF IndInv
<1> QED
  BY <1>1, IndInvariant, PTL

(* The chunks tile the input: no byte is dropped and none is in two        *)
(* chunks.                                                                 *)
THEOREM ChunksTile == Spec => []Tiling
<1>1. IndInv => Tiling
  BY DEF IndInv
<1> QED
  BY <1>1, IndInvariant, PTL

(* No chunk exceeds kMaxChunkSize, only the last is below kMinChunkSize.   *)
THEOREM ChunkSizes == Spec => []SizesBounded
<1>1. IndInv => SizesBounded
  BY DEF IndInv
<1> QED
  BY <1>1, IndInvariant, PTL

-----------------------------------------------------------------------------
(* The sizes counted in the scan are those of the chunks made so far.      *)
Counted ==
    pc = "scan" =>
       /\ total_size = chunk_start
       /\ chunks = <<>> => min_size = 0 /\ max_size = 0
       /\ chunks # <<>> =>
             /\ min_size \in Sizes(chunks) /\ max_size \in Sizes(chunks)
             /\ \A s \in Sizes(chunks) : min_size <= s /\ s <= max_size

(* A chunk is closed, and counted.                                         *)
LEMMA CountChunk ==
    ASSUME IndInv, Counted, ScanByte
    PROVE  Counted'
<1> DEFINE h == append(hash, data[i + 1])
           size == i + 1 - chunk_start
           last == i = Len(data) - 1
<1> USE DEF IndInv
<1>1. /\ pc = "scan" /\ pc' = "scan" /\ i \in Nat /\ chunk_start \in Nat /\ chunk_start <= i
      /\ size \in Positive
  <2>1. pc = "scan" /\ pc' = "scan" /\ i \in Nat /\ chunk_start \in Nat /\ chunk_start <= i
    BY DEF ScanByte, TypeOK, ScanPosition
  <2> QED
    BY <2>1 DEF Positive
<1>2. CASE ~is_cut(h, size, last)
  BY <1>1, <1>2 DEF ScanByte, Counted, Sizes
<1>3. CASE is_cut(h, size, last)
  <2> DEFINE new == [offset |-> chunk_start, size |-> size]
  <2>1. /\ chunks' = Append(chunks, new) /\ chunk_start' = i + 1
        /\ min_size' = IF min_size = 0 \/ size < min_size THEN size ELSE min_size
        /\ max_size' = IF size > max_size THEN size ELSE max_size
        /\ total_size' = total_size + size
    BY <1>3 DEF ScanByte
  <2>2. new \in [offset : Nat, size : Positive] /\ new.size = size
    BY <1>1
  <2>3. total_size' = chunk_start'
    BY <1>1, <2>1 DEF Counted
  <2> HIDE DEF new, size, last, h
  <2>4. /\ Len(chunks) \in Nat /\ Len(chunks') = Len(chunks) + 1 /\ chunks' # <<>>
        /\ \A k \in 1 .. Len(chunks) : chunks'[k] = chunks[k]
        /\ chunks'[Len(chunks) + 1] = new
    <3>1. chunks \in Seq([offset : Nat, size : Positive])
      BY DEF TypeOK
    <3> QED
      BY <2>1, <2>2, <3>1, AppendProperties
  <2>5. Sizes(chunks') = Sizes(chunks) \cup {size}
    <3>1. \A k \in 1 .. Len(chunks') : chunks'[k].size \in Sizes(chunks) \cup {size}
      <4>1. \A k \in 1 .. Len(chunks') : k \in 1 .. Len(chunks) \/ k = Len(chunks) + 1
        BY <2>4
      <4> QED
        BY <2>2, <2>4, <4>1 DEF Sizes
    <3>2. \A s \in Sizes(chunks) \cup {size} : \E k \in 1 .. Len(chunks') : s = chunks'[k].size
      <4>1. Len(chunks) + 1 \in 1 .. Len(chunks') /\ 1 .. Len(chunks) \subseteq 1 .. Len(chunks')
        BY <2>4
      <4> QED
        BY <2>2, <2>4, <4>1 DEF Sizes
    <3> QED
      BY <3>1, <3>2 DEF Sizes
  <2>6. \A s \in Sizes(chunks) \cup {size} : s \in Nat \ {0}
    <3>1. \A k \in 1 .. Len(chunks) : chunks[k] \in [offset : Nat, size : Positive]
      BY ElementOfSeq DEF TypeOK
    <3> QED
      BY <1>1, <3>1 DEF Sizes, Positive
  <2>7. min_size \in Nat /\ max_size \in Nat /\ size \in Nat \ {0}
    BY <2>6 DEF TypeOK
  <2>8. /\ min_size' \in Sizes(chunks') /\ max_size' \in Sizes(chunks')
        /\ \A s \in Sizes(chunks') : min_size' <= s /\ s <= max_size'
    <3>1. CASE chunks = <<>>
      <4>1. Sizes(chunks) = {} /\ min_size' = size /\ max_size' = size
        BY <1>1, <2>1, <2>7, <3>1 DEF Counted, Sizes
      <4> QED
        BY <2>5, <2>7, <4>1
    <3>2. CASE chunks # <<>>
      <4>1. /\ min_size \in Sizes(chunks) /\ max_size \in Sizes(chunks) /\ min_size # 0
            /\ \A s \in Sizes(chunks) : min_size <= s /\ s <= max_size
        BY <1>1, <2>6, <3>2 DEF Counted
      <4>2. \A s \in Sizes(chunks) \cup {size} : min_size' <= s /\ s <= max_size'
        BY <2>1, <2>6, <2>7, <4>1
      <4> QED
        BY <2>1, <2>5, <4>1, <4>2
    <3> QED
      BY <3>1, <3>2
  <2> QED
    BY <2>3, <2>4, <2>8 DEF Counted
<1> QED
  BY <1>2, <1>3

(* Every step keeps the statistics true of the last call that read a file. *)
LEMMA CountStep ==
    ASSUME IndInv, Counted, StatsOfLastRead, [Next]_vars
    PROVE  Counted' /\ StatsOfLastRead'
<1>1. ASSUME NEW d \in Inputs, ChunkData(d) PROVE Counted' /\ StatsOfLastRead'
  <2>1. Counted'
    BY <1>1 DEF ChunkData, Counted
  <2>2. CASE d = <<>>
    <3>1. /\ last_stats_' = NoStats
          /\ last_read' = [done |-> TRUE, chunks |-> <<>>, length |-> 0]
      BY <1>1, <2>2 DEF ChunkData
    <3> QED
      BY <2>1, <3>1 DEF StatsOfLastRead, NoStats
  <2>3. CASE d # <<>>
    <3>1. UNCHANGED <<last_stats_, last_read>>
      BY <1>1, <2>3 DEF ChunkData
    <3> QED
      BY <2>1, <3>1 DEF StatsOfLastRead, NoStats
  <2> QED
    BY <2>2, <2>3
<1>2. CASE OpenFails
  BY <1>2 DEF OpenFails, Counted, StatsOfLastRead
<1>3. CASE ScanByte
  BY <1>3, CountChunk DEF ScanByte, StatsOfLastRead
<1>4. CASE Return
  <2>1. /\ pc = "scan" /\ pc' = "idle" /\ i = Len(data)
        /\ last_stats_' = [total_chunks |-> Len(chunks), min_size |-> min_size,
                           max_size |-> max_size, total_size |-> total_size]
        /\ last_read' = [done |-> TRUE, chunks |-> chunks, length |-> Len(data)]
    BY <1>4 DEF Return, locals
  <2>2. total_size = Len(data) /\ (chunks = <<>> => Len(data) = 0 /\ Len(chunks) = 0)
    BY <2>1 DEF IndInv, TypeOK, Tiling, Counted
  <2> QED
    BY <2>1, <2>2 DEF Counted, StatsOfLastRead, NoStats
<1>5. CASE UNCHANGED vars
  BY <1>5 DEF vars, locals, Counted, StatsOfLastRead
<1> QED
  BY <1>1, <1>2, <1>3, <1>4, <1>5 DEF Next

(* At any time the statistics describe the chunks of the last call that    *)
(* read its file to the end, whatever the calls before it left, however    *)
(* many calls have failed to open a file since and whatever was in memory. *)
THEOREM StatisticsOfLastRead == Spec => []StatsOfLastRead
<1>1. Init => Counted /\ StatsOfLastRead
  BY DEF Init, Counted, StatsOfLastRead, NoRead
<1>2. IndInv /\ Counted /\ StatsOfLastRead /\ [Next]_vars => Counted' /\ StatsOfLastRead'
  BY CountStep
<1> QED
  BY <1>1, <1>2, IndInvariant, PTL DEF Spec

(* RollingHash::update is exact on every input of the chunker, for every   *)
(* prime, modulus and window size.                                         *)
THEOREM UpdateIsExact == Spec => []UpdateForgets
<1>1. IndInv => UpdateForgets
  <2>1. IndInv => data \in Seq(Nat)
    BY ChunkerAssumption, SeqMonotonic DEF IndInv, TypeOK
  <2> QED
    BY <2>1, UpdateExact DEF UpdateForgets
<1> QED
  BY <1>1, IndInvariant, PTL

-----------------------------------------------------------------------------
(* Where the chunks are cut                                                *)

Chunk == [offset : Nat, size : Positive]

(* A cut after n bytes of the chunk at s, judged by its bytes.             *)
CutsAt(d, s, n) == is_cut(HashOf(SubSeq(d, s + 1, s + n)), n, FALSE)

(* The places where the chunk at s may end.                                *)
Cuts(d, s) == {n \in 1 .. Len(d) - s : CutsAt(d, s, n)} \cup {Len(d) - s}

(* The chunk at s ends at the first of them.                               *)
LEMMA FirstCut ==
    ASSUME NEW d \in Seq(Byte), NEW s \in Nat, s < Len(d), NEW n \in Cuts(d, s),
           \A m \in Cuts(d, s) : n <= m
    PROVE  CutAfter(d, s) = s + n
<1>1. Cuts(d, s) \subseteq Nat
  BY DEF Cuts
<1> DEFINE c == CHOOSE k \in Cuts(d, s) : \A m \in Cuts(d, s) : k <= m
<1>2. CutAfter(d, s) = s + c
  BY DEF CutAfter, Cuts, CutsAt
<1>3. c \in Cuts(d, s) /\ \A m \in Cuts(d, s) : c <= m
  OBVIOUS
<1> HIDE DEF c
<1>4. c \in Nat /\ n \in Nat /\ c <= n /\ n <= c
  BY <1>1, <1>3
<1>5. c = n
  BY <1>4
<1> QED
  BY <1>2, <1>5

(* The chunk at s is not empty and ends within d.                          *)
LEMMA CutAfterRange ==
    ASSUME NEW d \in Seq(Byte), NEW s \in Nat, s < Len(d)
    PROVE  CutAfter(d, s) \in s + 1 .. Len(d)
<1>1. Len(d) \in Nat
  OBVIOUS
<1>2. Cuts(d, s) \subseteq Nat /\ Cuts(d, s) # {} /\ Cuts(d, s) \subseteq 1 .. Len(d) - s
  BY <1>1 DEF Cuts
<1>3. PICK n \in Cuts(d, s) : \A m \in Cuts(d, s) : n <= m
  BY <1>2, LeastNumber
<1>4. CutAfter(d, s) = s + n
  BY <1>3, FirstCut
<1> QED
  BY <1>1, <1>2, <1>4

(* The function by which ChunksOf is defined: the chunks from s on.        *)
ChunksFrom(d) ==
    CHOOSE f : f = [s \in 0 .. Len(d) |->
                      IF s = Len(d) THEN <<>>
                      ELSE <<[offset |-> s, size |-> CutAfter(d, s) - s]>> \o f[CutAfter(d, s)]]

(* ChunksOf is that function from the first byte on.                       *)
LEMMA ChunksOfIsFrom == ASSUME NEW d PROVE ChunksOf(d) = ChunksFrom(d)[0]
BY DEF ChunksOf, ChunksFrom

(* Its recursive definition has a solution: a chunk ends after its begin.  *)
LEMMA ChunksFromDef ==
    ASSUME NEW d \in Seq(Byte)
    PROVE  \A s \in 0 .. Len(d) :
              ChunksFrom(d)[s] =
                 IF s = Len(d) THEN <<>>
                 ELSE <<[offset |-> s, size |-> CutAfter(d, s) - s]>>
                         \o ChunksFrom(d)[CutAfter(d, s)]
<1> DEFINE n == Len(d)
           next(s) == CutAfter(d, s)
           first(s) == <<[offset |-> s, size |-> next(s) - s]>>
           Solves(f, k) ==
             f = [s \in n - k .. n |-> IF s = n THEN <<>> ELSE first(s) \o f[next(s)]]
           T == {k \in Nat : k <= n => \E f : Solves(f, k)}
<1>0. n \in Nat /\ \A s \in Nat : s < n => next(s) \in s + 1 .. n
  BY CutAfterRange
<1>f. ChunksFrom(d) = CHOOSE f : Solves(f, n)
  <2>1. n - n = 0
    BY <1>0
  <2> QED
    BY <2>1 DEF ChunksFrom
<1> HIDE DEF n, next, first
<1>1. 0 \in T
  <2> DEFINE f == [s \in n - 0 .. n |-> <<>>]
  <2>1. \A s \in n - 0 .. n : s = n
    BY <1>0
  <2>2. Solves(f, 0)
    BY <2>1
  <2> QED
    BY <2>2
<1>2. ASSUME NEW k \in Nat, k \in T PROVE k + 1 \in T
  <2> SUFFICES ASSUME k + 1 <= n PROVE \E f : Solves(f, k + 1)
    OBVIOUS
  <2>0. k <= n
    BY <1>0
  <2>1. PICK f : Solves(f, k)
    <3> HIDE DEF Solves
    <3> QED
      BY <1>2, <2>0
  <2> DEFINE b == n - (k + 1)
             g == [s \in b .. n |-> IF s = b THEN first(s) \o f[next(s)] ELSE f[s]]
  <2>2. b \in Nat /\ b < n /\ b + 1 = n - k
    BY <1>0
  <2> HIDE DEF b
  <2>3. ASSUME NEW s \in b .. n
        PROVE  g[s] = IF s = n THEN <<>> ELSE first(s) \o g[next(s)]
    <3>1. s # n => next(s) \in b + 1 .. n /\ next(s) \in b .. n /\ next(s) # b
      BY <1>0, <2>2
    <3>2. s # n => g[next(s)] = f[next(s)]
      BY <3>1
    <3>3. CASE s = b
      <4>1. s # n /\ g[s] = first(s) \o f[next(s)]
        BY <1>0, <2>2, <3>3
      <4> QED
        BY <3>2, <4>1
    <3>4. CASE s # b
      <4>1. s \in n - k .. n
        BY <1>0, <2>2, <3>4
      <4>2. f[s] = IF s = n THEN <<>> ELSE first(s) \o f[next(s)]
        BY <2>1, <4>1
      <4>3. g[s] = f[s]
        BY <3>4
      <4> QED
        BY <3>2, <4>2, <4>3
    <3> QED
      BY <3>3, <3>4
  <2>4. Solves(g, k + 1)
    BY <2>3 DEF b
  <2> HIDE DEF g, Solves
  <2> QED
    BY <2>4
<1>3. n \in T
  <2> HIDE DEF T
  <2> QED
    BY <1>0, <1>1, <1>2, Induction
<1>4. \E f : Solves(f, n)
  <2>1. n <= n
    BY <1>0
  <2> HIDE DEF Solves
  <2> QED
    BY <1>3, <2>1
<1>5. Solves(ChunksFrom(d), n)
  <2> HIDE DEF Solves
  <2> QED
    BY <1>f, <1>4
<1>6. n - n = 0
  BY <1>0
<1>7. \A s \in 0 .. n : ChunksFrom(d)[s] =
          IF s = n THEN <<>> ELSE first(s) \o ChunksFrom(d)[next(s)]
  BY <1>5, <1>6
<1> QED
  BY <1>7 DEF n, next, first

(* The chunks from s on are chunks.                                        *)
LEMMA ChunksFromType ==
    ASSUME NEW d \in Seq(Byte), NEW s \in 0 .. Len(d)
    PROVE  ChunksFrom(d)[s] \in Seq(Chunk)
<1> DEFINE n == Len(d)
           T == {k \in Nat : \A t \in 0 .. n : n - t <= k => ChunksFrom(d)[t] \in Seq(Chunk)}
<1>0. n \in Nat
  OBVIOUS
<1>1. 0 \in T
  <2>1. \A t \in 0 .. n : n - t <= 0 => t = n
    BY <1>0
  <2>2. n \in 0 .. n
    BY <1>0
  <2>3. ChunksFrom(d)[n] = <<>>
    BY <2>2, ChunksFromDef, Zenon
  <2>4. <<>> \in Seq(Chunk)
    OBVIOUS
  <2> HIDE DEF n
  <2> QED
    BY <2>1, <2>3, <2>4
<1>2. ASSUME NEW k \in Nat, k \in T PROVE k + 1 \in T
  <2> SUFFICES ASSUME NEW t \in 0 .. n, n - t <= k + 1 PROVE ChunksFrom(d)[t] \in Seq(Chunk)
    OBVIOUS
  <2>1. CASE t = n
    <3>1. ChunksFrom(d)[t] = <<>>
      BY <2>1, ChunksFromDef, Zenon
    <3> QED
      BY <3>1
  <2>2. CASE t # n
    <3> DEFINE c == CutAfter(d, t)
               x == [offset |-> t, size |-> c - t]
    <3>1. c \in t + 1 .. n
      BY <1>0, <2>2, CutAfterRange
    <3> HIDE DEF c
    <3>2. x \in Chunk /\ c \in 0 .. n /\ n - c <= k
      BY <1>0, <3>1 DEF Chunk, Positive
    <3>3. ChunksFrom(d)[c] \in Seq(Chunk)
      BY <1>2, <3>2
    <3>4. ChunksFrom(d)[t] = <<x>> \o ChunksFrom(d)[c]
      BY <2>2, ChunksFromDef DEF c
    <3>5. <<x>> \in Seq(Chunk)
      BY <3>2
    <3> HIDE DEF x
    <3> QED
      BY <3>3, <3>4, <3>5, ConcatProperties
  <2> QED
    BY <2>1, <2>2
<1>3. n \in T
  <2> HIDE DEF T, n
  <2> QED
    BY <1>0, <1>1, <1>2, Induction
<1> QED
  BY <1>0, <1>3

(* In the scan: the hash is that of the open chunk, which has no cut yet,  *)
(* and the chunks made are those of the input up to the open one.          *)
Judged ==
    pc = "scan" =>
       /\ hash = HashOf(SubSeq(data, chunk_start + 1, i))
       /\ \A n \in 1 .. i - chunk_start : ~CutsAt(data, chunk_start, n)
       /\ chunks \o ChunksFrom(data)[chunk_start] = ChunksOf(data)

(* A byte is scanned: a cut is made where the bytes of the chunk say so.   *)
LEMMA JudgeByte ==
    ASSUME IndInv, Judged, ScanByte
    PROVE  Judged'
<1> DEFINE size == i + 1 - chunk_start
           last == i = Len(data) - 1
           bytes == SubSeq(data, chunk_start + 1, i)
           longer == SubSeq(data, chunk_start + 1, i + 1)
           h == append(hash, data[i + 1])
<1> USE DEF IndInv
<1>1. /\ pc = "scan" /\ pc' = "scan" /\ i \in Nat /\ chunk_start \in Nat /\ chunk_start <= i
      /\ i < Len(data) /\ Len(data) \in Nat /\ i' = i + 1 /\ data' = data /\ data \in Seq(Byte)
  BY DEF ScanByte, TypeOK, ScanPosition
<1>2. size \in Nat /\ size >= 1 /\ chunk_start + size = i + 1 /\ i - chunk_start = size - 1
  BY <1>1
<1>3. longer = Append(bytes, data[i + 1]) /\ bytes \in Seq(Byte) /\ data[i + 1] \in Byte
  BY <1>1
<1>4. h = HashOf(longer)
  BY <1>1, <1>3, HashAppend DEF Judged
<1>5. is_cut(h, size, last) <=> CutsAt(data, chunk_start, size) \/ last
  BY <1>2, <1>4 DEF is_cut, CutsAt
<1> HIDE DEF size
<1>6. \A n \in 1 .. size - 1 : ~CutsAt(data, chunk_start, n)
  BY <1>1, <1>2 DEF Judged
<1>7. CASE ~is_cut(h, size, last)
  <2>1. hash' = h /\ UNCHANGED <<chunks, chunk_start>>
    BY <1>7 DEF ScanByte, size
  <2>2. \A n \in 1 .. size : n \in 1 .. size - 1 \/ n = size
    BY <1>2
  <2>3. \A n \in 1 .. size : ~CutsAt(data, chunk_start, n)
    BY <1>5, <1>6, <1>7, <2>2
  <2>4. i' - chunk_start' = size
    BY <1>1, <1>2, <2>1
  <2> QED
    BY <1>1, <1>4, <2>1, <2>3, <2>4 DEF Judged
<1>8. CASE is_cut(h, size, last)
  <2> DEFINE new == [offset |-> chunk_start, size |-> size]
             rest == ChunksFrom(data)[i + 1]
  <2>1. chunks' = Append(chunks, new) /\ chunk_start' = i + 1 /\ hash' = reset
    BY <1>8 DEF ScanByte, afterCut, size
  <2>2. last <=> size = Len(data) - chunk_start
    BY <1>1, <1>2
  <2> HIDE DEF last
  <2>3. size \in Cuts(data, chunk_start) /\ \A m \in Cuts(data, chunk_start) : size <= m
    <3>1. size \in 1 .. Len(data) - chunk_start
      BY <1>1, <1>2
    <3>2. size \in Cuts(data, chunk_start)
      BY <1>5, <1>8, <2>2, <3>1 DEF Cuts
    <3>3. ASSUME NEW m \in Cuts(data, chunk_start) PROVE size <= m
      <4>1. m \in 1 .. Len(data) - chunk_start
        BY <1>1, <3>3 DEF Cuts
      <4>2. CASE m = Len(data) - chunk_start
        BY <3>1, <4>2
      <4>3. CASE CutsAt(data, chunk_start, m)
        BY <1>2, <1>6, <4>1, <4>3
      <4> QED
        BY <3>3, <4>2, <4>3 DEF Cuts
    <3> QED
      BY <3>2, <3>3
  <2>4. CutAfter(data, chunk_start) = i + 1
    <3>1. chunk_start < Len(data)
      BY <1>1
    <3>2. CutAfter(data, chunk_start) = chunk_start + size
      BY <1>1, <2>3, <3>1, FirstCut
    <3> QED
      BY <1>2, <3>2
  <2>5. chunk_start \in 0 .. Len(data) /\ chunk_start # Len(data) /\ i + 1 \in 0 .. Len(data)
    BY <1>1
  <2>6. new = [offset |-> chunk_start, size |-> (i + 1) - chunk_start] /\ new \in Chunk
    BY <1>1, <1>2 DEF size, Chunk, Positive
  <2> HIDE DEF new
  <2>7. ChunksFrom(data)[chunk_start] = <<new>> \o rest
    <3>1. ChunksFrom(data)[chunk_start] =
             <<[offset |-> chunk_start, size |-> CutAfter(data, chunk_start) - chunk_start]>>
                \o ChunksFrom(data)[CutAfter(data, chunk_start)]
      BY <1>1, <2>5, ChunksFromDef, Zenon
    <3> QED
      BY <2>4, <2>6, <3>1, Zenon
  <2>8. chunks \in Seq(Chunk) /\ <<new>> \in Seq(Chunk) /\ rest \in Seq(Chunk)
    <3>1. chunks \in Seq(Chunk)
      BY DEF TypeOK, Chunk
    <3>2. rest \in Seq(Chunk)
      BY <1>1, <2>5, ChunksFromType
    <3> QED
      BY <2>6, <3>1, <3>2
  <2>9. Append(chunks, new) \o rest = chunks \o (<<new>> \o rest)
    <3> HIDE DEF rest
    <3>1. Append(chunks, new) = chunks \o <<new>>
      BY <2>6, <2>8, AppendIsConcat
    <3> QED
      BY <2>8, <3>1, ConcatAssociative
  <2>10. chunks' \o ChunksFrom(data')[chunk_start'] = ChunksOf(data')
    BY <1>1, <2>1, <2>7, <2>9 DEF Judged
  <2>11. /\ SubSeq(data', chunk_start' + 1, i') = <<>>
         /\ 1 .. i' - chunk_start' = {}
    BY <1>1, <2>1
  <2> QED
    BY <2>1, <2>10, <2>11, HashEmpty DEF Judged
<1> QED
  BY <1>7, <1>8

(* Every step keeps the chunks those that the content of the input gives.  *)
LEMMA JudgeStep ==
    ASSUME IndInv, Judged, CutByContent, [Next]_vars
    PROVE  Judged' /\ CutByContent'
<1>0. ASSUME NEW d \in Seq(Byte)
      PROVE  /\ ChunksOf(d) = ChunksFrom(d)[0] /\ ChunksOf(d) \in Seq(Chunk)
             /\ d = <<>> => ChunksOf(d) = <<>>
             /\ ChunksFrom(d)[Len(d)] = <<>>
  <2>1. 0 \in 0 .. Len(d) /\ Len(d) \in 0 .. Len(d) /\ (d = <<>> => Len(d) = 0)
    OBVIOUS
  <2>2. ChunksFrom(d)[Len(d)] = <<>>
    BY <2>1, ChunksFromDef, Zenon
  <2>3. ChunksFrom(d)[0] \in Seq(Chunk)
    BY <2>1, ChunksFromType
  <2> QED
    BY <2>1, <2>2, <2>3, ChunksOfIsFrom
<1>1. ASSUME NEW d \in Inputs, ChunkData(d) PROVE Judged' /\ CutByContent'
  <2>1. d \in Seq(Byte) /\ Len(d) \in Nat
    BY DEF Inputs
  <2>2. /\ data' = d /\ chunks' = <<>> /\ i' = 0 /\ hash' = reset /\ chunk_start' = 0
        /\ d # <<>> => pc' = "scan"
    BY <1>1 DEF ChunkData
  <2>3. CutByContent'
    BY <1>0, <2>1, <2>2 DEF CutByContent
  <2>4. SubSeq(d, 0 + 1, 0) = <<>> /\ 1 .. 0 - 0 = {}
    OBVIOUS
  <2>5. <<>> \o ChunksFrom(d)[0] = ChunksOf(d)
    BY <1>0, <2>1, ConcatEmptySeq
  <2> QED
    BY <2>2, <2>3, <2>4, <2>5, HashEmpty DEF Judged
<1>2. CASE OpenFails
  BY <1>2 DEF OpenFails, Judged, CutByContent
<1>3. CASE ScanByte
  BY <1>3, JudgeByte DEF ScanByte, CutByContent
<1>4. CASE Return
  <2>1. /\ pc = "scan" /\ pc' = "idle" /\ i = Len(data) /\ UNCHANGED <<chunks, data>>
        /\ data \in Seq(Byte) /\ chunks \in Seq(Chunk) /\ chunk_start = Len(data)
    BY <1>4 DEF Return, locals, IndInv, TypeOK, Tiling, Chunk
  <2>2. chunks \o <<>> = ChunksOf(data)
    BY <1>0, <2>1 DEF Judged
  <2>3. chunks = ChunksOf(data)
    BY <2>1, <2>2, ConcatEmptySeq
  <2> QED
    BY <2>1, <2>3 DEF Judged, CutByContent
<1>5. CASE UNCHANGED vars
  BY <1>5 DEF vars, locals, Judged, CutByContent
<1> QED
  BY <1>1, <1>2, <1>3, <1>4, <1>5 DEF Next

(* Where a chunk ends depends on its own bytes only, for every input and   *)
(* whatever was scanned before it or in earlier calls of the object.       *)
THEOREM CutsByContent == Spec => []CutByContent
<1>1. Init => Judged /\ CutByContent
  <2>1. <<>> \in Seq(Byte) /\ Len(<<>>) = 0 /\ 0 \in 0 .. Len(<<>>)
    OBVIOUS
  <2>2. ChunksFrom(<<>>)[0] = <<>>
    BY <2>1, ChunksFromDef
  <2> QED
    BY <2>2, ChunksOfIsFrom DEF Init, Judged, CutByContent
<1>2. IndInv /\ Judged /\ CutByContent /\ [Next]_vars => Judged' /\ CutByContent'
  BY JudgeStep
<1> QED
  BY <1>1, <1>2, IndInvariant, PTL DEF Spec

-----------------------------------------------------------------------------
(* The DeltaEngine                                                         *)

(* Refinement: computeDelta chunks one file after the other the way the    *)
(* Chunker is specified, with any messages between the calls.              *)
THEOREM DeltaImplementsChunker == DeltaSpec => Spec
<1>1. DeltaInit => Init
  BY DEF DeltaInit
<1>2. [DeltaNext]_dvars => [Next]_vars
  <2> SUFFICES ASSUME DeltaNext PROVE [Next]_vars
    BY DEF dvars
  <2> QED
    BY DEF DeltaNext, Ask, Chunking, ComputeDelta, SendChunk, Finalize, OtherUploads, Next
<1> QED
  BY <1>1, <1>2, PTL DEF DeltaSpec, Spec

(* What is proved of the Chunker holds of the chunks that are compared     *)
(* with those of the server.                                               *)
THEOREM DeltaChunks ==
    DeltaSpec => [](Tiling /\ SizesBounded /\ CutByContent /\ StatsOfLastRead)
BY DeltaImplementsChunker, ChunksTile, ChunkSizes, CutsByContent, StatisticsOfLastRead, PTL
-----------------------------------------------------------------------------
(* Folds over a sequence                                                   *)

(* f is the function of FoldLeft over sets of places: it begins with start *)
(* and takes the step F for the greatest place.                            *)
Folds(f, n, V, start, F) ==
    /\ f \in [SUBSET (1 .. n) -> V]
    /\ \A s \in SUBSET (1 .. n) :
          f[s] = IF s = {} THEN start ELSE F[<<Max(s), f[s \ {Max(s)}]>>]

(* There is one.                                                           *)
LEMMA FoldExists ==
    ASSUME NEW n \in Nat, NEW V, NEW start \in V, NEW F \in [(1 .. n) \X V -> V]
    PROVE  \E f : Folds(f, n, V, start, F)
<1> DEFINE Solves(f, k) ==
             /\ f \in [SUBSET (1 .. k) -> V]
             /\ \A s \in SUBSET (1 .. k) :
                   f[s] = IF s = {} THEN start ELSE F[<<Max(s), f[s \ {Max(s)}]>>]
           T == {k \in Nat : k <= n => \E f : Solves(f, k)}
<1>1. 0 \in T
  <2> DEFINE f == [s \in SUBSET (1 .. 0) |-> start]
  <2>1. \A s \in SUBSET (1 .. 0) : s = {}
    OBVIOUS
  <2>2. Solves(f, 0)
    BY <2>1
  <2> QED
    BY <2>2
<1>2. ASSUME NEW k \in Nat, k \in T PROVE k + 1 \in T
  <2> HIDE DEF Solves
  <2> SUFFICES ASSUME k + 1 <= n PROVE \E f : Solves(f, k + 1)
    OBVIOUS
  <2>1. PICK f : Solves(f, k)
    BY <1>2
  <2> USE DEF Solves
  <2> DEFINE g == [s \in SUBSET (1 .. k + 1) |->
                     IF k + 1 \in s THEN F[<<k + 1, f[s \ {k + 1}]>>] ELSE f[s]]
  <2>2. ASSUME NEW s \in SUBSET (1 .. k + 1)
        PROVE  /\ g[s] \in V
               /\ g[s] = IF s = {} THEN start ELSE F[<<Max(s), g[s \ {Max(s)}]>>]
    <3>1. CASE k + 1 \in s
      <4>1. Max(s) = k + 1
        <5>1. s \subseteq Nat /\ \A x \in s : x <= k + 1
          OBVIOUS
        <5> QED
          BY <3>1, <5>1, MaxIs
      <4>2. /\ s \ {k + 1} \in SUBSET (1 .. k) /\ s \ {k + 1} \in SUBSET (1 .. k + 1)
            /\ k + 1 \notin s \ {k + 1} /\ s # {}
        BY <3>1
      <4>3. f[s \ {k + 1}] \in V /\ k + 1 \in 1 .. n
        BY <2>1, <4>2
      <4>4. g[s \ {k + 1}] = f[s \ {k + 1}] /\ g[s] = F[<<k + 1, f[s \ {k + 1}]>>]
        BY <3>1, <4>2
      <4>5. F[<<k + 1, f[s \ {k + 1}]>>] \in V
        BY <4>3
      <4> HIDE DEF g
      <4> QED
        BY <4>1, <4>2, <4>4, <4>5
    <3>2. CASE k + 1 \notin s
      <4>1. s \in SUBSET (1 .. k)
        BY <3>2
      <4>2. \A x : s \ {x} \in SUBSET (1 .. k + 1) /\ k + 1 \notin s \ {x}
        BY <3>2
      <4>3. /\ f[s] = IF s = {} THEN start ELSE F[<<Max(s), f[s \ {Max(s)}]>>]
            /\ f[s] \in V
        BY <2>1, <4>1
      <4>4. g[s] = f[s] /\ g[s \ {Max(s)}] = f[s \ {Max(s)}]
        BY <3>2, <4>2
      <4> HIDE DEF g
      <4> QED
        BY <4>3, <4>4
    <3> QED
      BY <3>1, <3>2
  <2>3. g \in [SUBSET (1 .. k + 1) -> V]
    BY <2>2
  <2>4. Solves(g, k + 1)
    <3> HIDE DEF g
    <3> QED
      BY <2>2, <2>3
  <2> HIDE DEF g, Solves
  <2> QED
    BY <2>4
<1>3. n \in T
  <2> HIDE DEF T
  <2> QED
    BY <1>1, <1>2, Induction
<1>4. \E f : Solves(f, n)
  <2> HIDE DEF Solves
  <2> QED
    BY <1>3
<1> QED
  BY <1>4 DEF Folds

(* A set of numbers up to n that is not empty has a greatest one.          *)
LEMMA MaxExists ==
    ASSUME NEW n \in Nat, NEW s \in SUBSET (1 .. n), s # {}
    PROVE  Max(s) \in s
<1> DEFINE above == {n - x : x \in s}
<1>1. above \subseteq Nat /\ above # {}
  <2>1. PICK x \in s : TRUE
    OBVIOUS
  <2>2. n - x \in above /\ \A y \in s : n - y \in Nat
    OBVIOUS
  <2> QED
    BY <2>2
<1>2. PICK a \in above : \A y \in above : a <= y
  BY <1>1, LeastNumber
<1>3. PICK m \in s : a = n - m
  OBVIOUS
<1>4. \A x \in s : x <= m
  BY <1>2, <1>3
<1> HIDE DEF above
<1>5. s \subseteq Nat
  OBVIOUS
<1> QED
  BY <1>4, <1>5, MaxIs

(* The first places of a sequence, as FoldLeft takes them apart.           *)
LEMMA FirstPlaces ==
    ASSUME NEW n \in Nat, NEW k \in Nat, k < n
    PROVE  /\ 1 .. k + 1 \in SUBSET (1 .. n) /\ 1 .. k + 1 # {}
           /\ Max(1 .. k + 1) = k + 1 /\ (1 .. k + 1) \ {k + 1} = 1 .. k
<1>1. k + 1 \in 1 .. k + 1 /\ 1 .. k + 1 \subseteq Nat /\ \A x \in 1 .. k + 1 : x <= k + 1
  OBVIOUS
<1>2. Max(1 .. k + 1) = k + 1
  BY <1>1, MaxIs
<1>3. 1 .. k + 1 \subseteq 1 .. n /\ (1 .. k + 1) \ {k + 1} = 1 .. k
  OBVIOUS
<1> QED
  BY <1>1, <1>2, <1>3

-----------------------------------------------------------------------------
(* Concatenation                                                           *)

(* The concatenations FlattenSeq goes through.                             *)
Flat(s) == CHOOSE f : f = [j \in 1 .. Len(s) |-> IF j = 1 THEN s[j] ELSE f[j - 1] \o s[j]]

(* FlattenSeq returns the last of them.                                    *)
LEMMA FlattenIs ==
    ASSUME NEW s, Len(s) # 0
    PROVE  FlattenSeq(s) = Flat(s)[Len(s)]
BY DEF FlattenSeq, Flat

(* Their recursive definition has a solution.                              *)
LEMMA FlatDef ==
    ASSUME NEW s, Len(s) \in Nat
    PROVE  Flat(s) = [j \in 1 .. Len(s) |->
                        IF j = 1 THEN s[j] ELSE Flat(s)[j - 1] \o s[j]]
<1> DEFINE Solves(f, k) ==
             f = [j \in 1 .. k |-> IF j = 1 THEN s[j] ELSE f[j - 1] \o s[j]]
           T == {k \in Nat : \E f : Solves(f, k)}
<1>1. 0 \in T
  <2> DEFINE f == [j \in 1 .. 0 |-> j]
  <2>1. Solves(f, 0)
    OBVIOUS
  <2> HIDE DEF Solves, f
  <2> QED
    BY <2>1
<1>2. ASSUME NEW k \in Nat, k \in T PROVE k + 1 \in T
  <2>1. PICK f : Solves(f, k)
    BY <1>2
  <2> DEFINE g == [j \in 1 .. k + 1 |->
                     IF j # k + 1 THEN f[j]
                     ELSE IF j = 1 THEN s[j] ELSE f[j - 1] \o s[j]]
  <2>2. ASSUME NEW j \in 1 .. k + 1
        PROVE  g[j] = IF j = 1 THEN s[j] ELSE g[j - 1] \o s[j]
    <3>1. j # 1 => j - 1 \in 1 .. k + 1 /\ j - 1 # k + 1
      OBVIOUS
    <3>2. j # 1 => g[j - 1] = f[j - 1]
      BY <3>1
    <3>3. CASE j = k + 1
      <4>1. g[j] = IF j = 1 THEN s[j] ELSE f[j - 1] \o s[j]
        BY <3>3
      <4> HIDE DEF g
      <4> QED
        BY <3>2, <4>1
    <3>4. CASE j # k + 1
      <4>1. j \in 1 .. k /\ g[j] = f[j]
        BY <3>4
      <4>2. f[j] = IF j = 1 THEN s[j] ELSE f[j - 1] \o s[j]
        BY <2>1, <4>1
      <4> HIDE DEF g
      <4> QED
        BY <3>2, <4>1, <4>2
    <3> QED
      BY <3>3, <3>4
  <2>3. Solves(g, k + 1)
    BY <2>2
  <2> HIDE DEF g, Solves
  <2> QED
    BY <2>3
<1>3. Len(s) \in T
  <2> HIDE DEF T
  <2> QED
    BY <1>1, <1>2, Induction
<1>4. PICK f : Solves(f, Len(s))
  BY <1>3
<1> QED
  BY <1>4 DEF Flat

(* FlattenSeq of no sequences.                                             *)
LEMMA FlattenEmpty == FlattenSeq(<<>>) = <<>>
BY DEF FlattenSeq

(* FlattenSeq of one sequence more.                                        *)
LEMMA FlattenAppend ==
    ASSUME NEW S, NEW ss \in Seq(Seq(S)), NEW s \in Seq(S)
    PROVE  FlattenSeq(Append(ss, s)) = FlattenSeq(ss) \o s
<1> DEFINE tt == Append(ss, s)
           n == Len(ss)
           T == {k \in Nat : k \in 1 .. n => Flat(tt)[k] = Flat(ss)[k]}
<1>1. /\ n \in Nat /\ Len(tt) = n + 1 /\ tt[n + 1] = s
      /\ \A k \in 1 .. n : tt[k] = ss[k]
  OBVIOUS
<1> HIDE DEF tt, n
<1>2. \A k \in 1 .. n : Flat(ss)[k] = IF k = 1 THEN ss[k] ELSE Flat(ss)[k - 1] \o ss[k]
  <2>1. Flat(ss) = [k \in 1 .. n |-> IF k = 1 THEN ss[k] ELSE Flat(ss)[k - 1] \o ss[k]]
    BY <1>1, FlatDef DEF n
  <2> QED
    BY <2>1, Zenon
<1>3. \A k \in 1 .. n + 1 : Flat(tt)[k] = IF k = 1 THEN tt[k] ELSE Flat(tt)[k - 1] \o tt[k]
  <2>1. Len(tt) \in Nat
    BY <1>1
  <2>2. Flat(tt) = [k \in 1 .. Len(tt) |-> IF k = 1 THEN tt[k] ELSE Flat(tt)[k - 1] \o tt[k]]
    BY <2>1, FlatDef
  <2>3. 1 .. Len(tt) = 1 .. n + 1
    BY <1>1
  <2> QED
    BY <2>2, <2>3, Zenon
<1>4. 0 \in T
  OBVIOUS
<1>5. ASSUME NEW k \in Nat, k \in T PROVE k + 1 \in T
  <2> SUFFICES ASSUME k + 1 \in 1 .. n PROVE Flat(tt)[k + 1] = Flat(ss)[k + 1]
    OBVIOUS
  <2>1. /\ Flat(ss)[k + 1] = IF k = 0 THEN ss[k + 1] ELSE Flat(ss)[k] \o ss[k + 1]
        /\ Flat(tt)[k + 1] = IF k = 0 THEN tt[k + 1] ELSE Flat(tt)[k] \o tt[k + 1]
    <3>1. k + 1 \in 1 .. n + 1 /\ (k + 1) - 1 = k /\ (k + 1 = 1 <=> k = 0)
      BY <1>1
    <3> QED
      BY <1>2, <1>3, <3>1
  <2>2. k # 0 => Flat(tt)[k] = Flat(ss)[k]
    BY <1>5, <1>1
  <2> QED
    BY <1>1, <2>1, <2>2
<1>6. \A k \in Nat : k \in T
  <2> HIDE DEF T
  <2> QED
    BY <1>4, <1>5, Induction
<1>7. FlattenSeq(tt) = IF n = 0 THEN s ELSE Flat(tt)[n] \o s
  <2>1. FlattenSeq(tt) = Flat(tt)[n + 1]
    BY <1>1, FlattenIs
  <2>2. n + 1 \in 1 .. n + 1 /\ (n + 1) - 1 = n /\ (n + 1 = 1 <=> n = 0)
    BY <1>1
  <2> QED
    BY <1>1, <1>3, <2>1, <2>2
<1>8. CASE n = 0
  <2>1. ss = <<>>
    BY <1>8 DEF n
  <2>2. FlattenSeq(ss) = <<>>
    BY <2>1, FlattenEmpty
  <2> QED
    BY <1>7, <1>8, <2>2, ConcatEmptySeq DEF tt
<1>9. CASE n # 0
  <2>1. Flat(tt)[n] = Flat(ss)[n]
    BY <1>1, <1>6, <1>9
  <2>2. FlattenSeq(ss) = Flat(ss)[n]
    BY <1>1, <1>9, FlattenIs DEF n
  <2> QED
    BY <1>7, <1>9, <2>1, <2>2 DEF tt
<1> QED
  BY <1>8, <1>9
-----------------------------------------------------------------------------
(* Chunks that tile a file                                                 *)

Tiles(d, cs) ==
    /\ cs \in Seq(Chunk)
    /\ cs = <<>> => d = <<>>
    /\ cs # <<>> => cs[1].offset = 0
    /\ \A k \in 1 .. Len(cs) :
          cs[k].offset + cs[k].size = IF k < Len(cs) THEN cs[k + 1].offset ELSE Len(d)

(* Where the k-th chunk ends.                                              *)
End(cs, k) == IF k = 0 THEN 0 ELSE cs[k].offset + cs[k].size

(* A chunk begins where the one before it ends, and the last ends with the *)
(* file.                                                                   *)
LEMMA EndIs ==
    ASSUME NEW d \in Seq(Byte), NEW cs, Tiles(d, cs)
    PROVE  /\ \A k \in 0 .. Len(cs) : End(cs, k) \in Nat
           /\ \A k \in 1 .. Len(cs) : cs[k] \in Chunk /\ cs[k].offset = End(cs, k - 1)
           /\ \A k \in 1 .. Len(cs) : End(cs, k) = End(cs, k - 1) + cs[k].size
           /\ End(cs, Len(cs)) = Len(d)
<1>1. Len(cs) \in Nat /\ \A k \in 1 .. Len(cs) : cs[k] \in Chunk
  BY DEF Tiles
<1>2. \A k \in 1 .. Len(cs) : cs[k].offset \in Nat /\ cs[k].size \in Nat \ {0}
  BY <1>1 DEF Chunk, Positive
<1>3. \A k \in 0 .. Len(cs) : End(cs, k) \in Nat
  BY <1>1, <1>2 DEF End
<1>4. ASSUME NEW k \in 1 .. Len(cs) PROVE cs[k].offset = End(cs, k - 1)
  <2>1. CASE k = 1
    <3>1. cs # <<>>
      BY <1>1
    <3> QED
      BY <2>1, <3>1 DEF Tiles, End
  <2>2. CASE k # 1
    <3>1. k - 1 \in 1 .. Len(cs) /\ k - 1 < Len(cs) /\ (k - 1) + 1 = k /\ k - 1 # 0
      BY <1>1, <2>2
    <3> QED
      BY <3>1 DEF Tiles, End
  <2> QED
    BY <2>1, <2>2
<1>5. ASSUME NEW k \in 1 .. Len(cs) PROVE End(cs, k) = End(cs, k - 1) + cs[k].size
  BY <1>1, <1>4 DEF End
<1>6. End(cs, Len(cs)) = Len(d)
  <2>1. CASE Len(cs) = 0
    <3>1. cs = <<>>
      BY <2>1 DEF Tiles
    <3> QED
      BY <2>1, <3>1 DEF Tiles, End
  <2>2. CASE Len(cs) # 0
    <3>1. Len(cs) \in 1 .. Len(cs) /\ ~(Len(cs) < Len(cs))
      BY <1>1, <2>2
    <3> QED
      BY <2>2, <3>1 DEF Tiles, End
  <2> QED
    BY <2>1, <2>2
<1> QED
  BY <1>1, <1>3, <1>4, <1>5, <1>6

(* Ends grow, by at least a byte a chunk.                                  *)
LEMMA EndsGrow ==
    ASSUME NEW d \in Seq(Byte), NEW cs, Tiles(d, cs),
           NEW j \in 0 .. Len(cs), NEW k \in 0 .. Len(cs), j <= k
    PROVE  End(cs, j) + (k - j) <= End(cs, k)
<1> DEFINE T == {n \in Nat : j <= n /\ n <= Len(cs) => End(cs, j) + (n - j) <= End(cs, n)}
<1>0. Len(cs) \in Nat
  BY DEF Tiles
<1>1. 0 \in T
  BY <1>0, EndIs
<1>2. ASSUME NEW n \in Nat, n \in T PROVE n + 1 \in T
  <2> SUFFICES ASSUME j <= n + 1, n + 1 <= Len(cs)
               PROVE  End(cs, j) + ((n + 1) - j) <= End(cs, n + 1)
    OBVIOUS
  <2>1. n + 1 \in 1 .. Len(cs) /\ (n + 1) - 1 = n /\ n \in 0 .. Len(cs)
    BY <1>0
  <2>2. /\ End(cs, n + 1) = End(cs, n) + cs[n + 1].size /\ cs[n + 1].size \in Nat \ {0}
        /\ End(cs, n) \in Nat /\ End(cs, j) \in Nat
    BY <2>1, EndIs DEF Chunk, Positive
  <2>3. CASE j = n + 1
    BY <2>2, <2>3
  <2>4. CASE j # n + 1
    <3>1. j <= n
      BY <2>4, <1>0
    <3>2. End(cs, j) + (n - j) <= End(cs, n)
      BY <1>2, <2>1, <3>1
    <3> QED
      BY <1>0, <2>2, <3>2, SMTT(60)
  <2> QED
    BY <2>3, <2>4
<1>3. k \in T
  <2> HIDE DEF T
  <2> QED
    BY <1>0, <1>1, <1>2, Induction
<1> QED
  BY <1>0, <1>3

(* The chunks lie within the file, there are no more of them than bytes,   *)
(* and a later one has a greater offset.                                   *)
LEMMA TilesOrdered ==
    ASSUME NEW d \in Seq(Byte), NEW cs, Tiles(d, cs)
    PROVE  /\ Len(cs) <= Len(d)
           /\ \A k \in 0 .. Len(cs) : End(cs, k) <= Len(d)
           /\ \A j, k \in 1 .. Len(cs) : cs[j].offset < cs[k].offset <=> j < k
<1>0. Len(cs) \in Nat /\ Len(d) \in Nat
  BY DEF Tiles
<1>1. ASSUME NEW k \in 0 .. Len(cs) PROVE End(cs, k) <= Len(d)
  <2>1. End(cs, k) + (Len(cs) - k) <= End(cs, Len(cs))
    BY <1>0, EndsGrow
  <2> QED
    BY <1>0, <2>1, EndIs
<1>2. Len(cs) <= Len(d)
  <2>1. End(cs, 0) + (Len(cs) - 0) <= End(cs, Len(cs))
    BY <1>0, EndsGrow
  <2>2. End(cs, 0) = 0
    BY DEF End
  <2> QED
    BY <1>0, <2>1, <2>2, EndIs
<1>3. ASSUME NEW j \in 1 .. Len(cs), NEW k \in 1 .. Len(cs)
      PROVE  cs[j].offset < cs[k].offset <=> j < k
  <2>1. /\ cs[j].offset = End(cs, j - 1) /\ cs[k].offset = End(cs, k - 1)
        /\ j - 1 \in 0 .. Len(cs) /\ k - 1 \in 0 .. Len(cs)
    BY <1>0, EndIs
  <2>2. End(cs, j - 1) \in Nat /\ End(cs, k - 1) \in Nat
    BY <2>1, EndIs
  <2>3. ASSUME NEW a \in 0 .. Len(cs), NEW b \in 0 .. Len(cs), a <= b
        PROVE  End(cs, a) + (b - a) <= End(cs, b)
    BY <2>3, EndsGrow
  <2>4. CASE j <= k
    <3>1. j - 1 <= k - 1
      BY <1>0, <2>4
    <3>2. End(cs, j - 1) + ((k - 1) - (j - 1)) <= End(cs, k - 1)
      BY <2>1, <2>3, <3>1
    <3> QED
      BY <2>1, <2>2, <2>4, <3>2, SMTT(60)
  <2>5. CASE k < j
    <3>1. k - 1 <= j - 1
      BY <1>0, <2>5
    <3>2. End(cs, k - 1) + ((j - 1) - (k - 1)) <= End(cs, j - 1)
      BY <2>1, <2>3, <3>1
    <3> QED
      BY <2>1, <2>2, <2>5, <3>2
  <2> QED
    BY <1>0, <2>4, <2>5
<1> QED
  BY <1>1, <1>2, <1>3

(* The bytes of a chunk.                                                   *)
LEMMA BytesOf ==
    ASSUME NEW d \in Seq(Byte), NEW cs, Tiles(d, cs), NEW k \in 1 .. Len(cs)
    PROVE  bytesOf(d, cs[k]) \in Seq(Byte) /\ Len(bytesOf(d, cs[k])) = cs[k].size
<1>1. /\ cs[k].offset \in Nat /\ cs[k].size \in Nat \ {0} /\ k \in 0 .. Len(cs)
      /\ End(cs, k) = cs[k].offset + cs[k].size
  BY EndIs, SMTT(60) DEF Chunk, Positive, End, Tiles
<1>2. cs[k].offset + cs[k].size <= Len(d)
  BY <1>1, TilesOrdered
<1> QED
  BY <1>1, <1>2, SMTT(60) DEF bytesOf

(* The first m chunks are the file up to where the m-th ends.              *)
LEMMA FirstChunks ==
    ASSUME NEW d \in Seq(Byte), NEW cs, Tiles(d, cs), NEW m \in 0 .. Len(cs)
    PROVE  FlattenSeq([k \in 1 .. m |-> bytesOf(d, cs[k])]) = SubSeq(d, 1, End(cs, m))
<1> DEFINE parts(n) == [k \in 1 .. n |-> bytesOf(d, cs[k])]
           T == {n \in Nat : n <= Len(cs) => FlattenSeq(parts(n)) = SubSeq(d, 1, End(cs, n))}
<1>0. Len(cs) \in Nat /\ Len(d) \in Nat
  BY DEF Tiles
<1>1. 0 \in T
  <2>1. parts(0) = <<>> /\ SubSeq(d, 1, 0) = <<>>
    OBVIOUS
  <2>2. FlattenSeq(parts(0)) = <<>>
    BY <2>1, FlattenEmpty
  <2> QED
    BY <2>1, <2>2 DEF End
<1>2. ASSUME NEW n \in Nat, n \in T PROVE n + 1 \in T
  <2> SUFFICES ASSUME n + 1 <= Len(cs)
               PROVE  FlattenSeq(parts(n + 1)) = SubSeq(d, 1, End(cs, n + 1))
    OBVIOUS
  <2> DEFINE b == bytesOf(d, cs[n + 1])
  <2>1. n + 1 \in 1 .. Len(cs) /\ (n + 1) - 1 = n /\ n \in 0 .. Len(cs) /\ n + 1 \in 0 .. Len(cs)
    BY <1>0
  <2>2. \A k \in 1 .. Len(cs) : bytesOf(d, cs[k]) \in Seq(Byte)
    BY BytesOf
  <2>3. parts(n) \in Seq(Seq(Byte)) /\ Len(parts(n)) = n /\ b \in Seq(Byte)
    <3>1. parts(n) \in [1 .. n -> Seq(Byte)]
      BY <2>1, <2>2
    <3> QED
      BY <2>1, <2>2, <3>1
  <2>4. parts(n + 1) = Append(parts(n), b)
    BY <2>3
  <2>5. FlattenSeq(parts(n + 1)) = FlattenSeq(parts(n)) \o b
    BY <2>3, <2>4, FlattenAppend
  <2>6. FlattenSeq(parts(n)) = SubSeq(d, 1, End(cs, n))
    BY <1>2, <2>1
  <2>7. b = SubSeq(d, End(cs, n) + 1, End(cs, n + 1))
    <3>1. cs[n + 1].offset = End(cs, n) /\ End(cs, n + 1) = End(cs, n) + cs[n + 1].size
      BY <2>1, EndIs
    <3> QED
      BY <3>1 DEF bytesOf
  <2>8. /\ End(cs, n) \in Nat /\ End(cs, n + 1) \in Nat /\ End(cs, n) <= End(cs, n + 1)
        /\ End(cs, n + 1) <= Len(d)
    <3>1. n <= n + 1
      OBVIOUS
    <3>2. End(cs, n) + ((n + 1) - n) <= End(cs, n + 1)
      BY <2>1, <3>1, EndsGrow
    <3> QED
      BY <2>1, <3>2, EndIs, TilesOrdered
  <2>9. /\ 1 \in 1 .. Len(d) + 1 /\ End(cs, n) \in 1 - 1 .. Len(d)
        /\ End(cs, n + 1) \in End(cs, n) .. Len(d)
    BY <1>0, <2>8
  <2>10. SubSeq(d, 1, End(cs, n)) \o SubSeq(d, End(cs, n) + 1, End(cs, n + 1))
            = SubSeq(d, 1, End(cs, n + 1))
    BY <2>9, ConcatAdjacentSubSeq
  <2> HIDE DEF b, parts
  <2> QED
    BY <2>5, <2>6, <2>7, <2>10
<1>3. m \in T
  <2> HIDE DEF T
  <2> QED
    BY <1>0, <1>1, <1>2, Induction
<1> QED
  BY <1>0, <1>3
-----------------------------------------------------------------------------
(* applyDelta                                                              *)

Results == [ok : BOOLEAN, data_offset : Nat, file : Seq(Byte)]

(* FoldLeft's function: what is written for the chunks at a set of places. *)
ApplyAt(cs, chunk_data) ==
    CHOOSE f : f = [s \in SUBSET (DOMAIN cs) |->
                      IF s = {} THEN Truncated
                      ELSE write(f[s \ {Max(s)}], cs[Max(s)], chunk_data)]

(* The loop folds with that function.                                      *)
LEMMA ApplyIsFold ==
    ASSUME NEW cs, NEW chunk_data
    PROVE  writeChunks(cs, chunk_data) = ApplyAt(cs, chunk_data)[DOMAIN cs]
BY DEF writeChunks, FoldLeft, MapThenFoldSet, ApplyAt

(* An iteration writes only bytes of the data.                             *)
LEMMA WriteType ==
    ASSUME NEW r \in Results, NEW c \in Chunk, NEW b \in Seq(Byte)
    PROVE  write(r, c, b) \in Results
<1>1. r.data_offset \in Nat /\ r.file \in Seq(Byte) /\ c.size \in Nat /\ Len(b) \in Nat
  BY DEF Results, Chunk, Positive
<1>2. CASE ~r.ok \/ exceeds(r.data_offset, c.size, Len(b))
  BY <1>2 DEF write, Results
<1>3. CASE ~(~r.ok \/ exceeds(r.data_offset, c.size, Len(b)))
  <2>1. r.data_offset + c.size <= Len(b)
    BY <1>1, <1>3 DEF exceeds
  <2>2. SubSeq(b, r.data_offset + 1, r.data_offset + c.size) \in Seq(Byte)
    BY <1>1, <2>1
  <2>3. r.file \o SubSeq(b, r.data_offset + 1, r.data_offset + c.size) \in Seq(Byte)
    BY <1>1, <2>2
  <2> QED
    BY <1>1, <1>3, <2>3 DEF write, Results
<1> QED
  BY <1>2, <1>3

(* The loop of applyDelta, chunk by chunk.                                 *)
LEMMA ApplySteps ==
    ASSUME NEW cs \in Seq(Chunk), NEW b \in Seq(Byte)
    PROVE  /\ ApplyAt(cs, b)[1 .. 0] = Truncated
           /\ \A k \in Nat : k < Len(cs) =>
                 ApplyAt(cs, b)[1 .. k + 1] = write(ApplyAt(cs, b)[1 .. k], cs[k + 1], b)
<1> DEFINE n == Len(cs)
           F == [p \in (1 .. n) \X Results |-> write(p[2], cs[p[1]], b)]
<1>1. n \in Nat /\ DOMAIN cs = 1 .. n /\ \A k \in 1 .. n : cs[k] \in Chunk
  OBVIOUS
<1>2. Truncated \in Results
  BY DEF Truncated, Results
<1>3. F \in [(1 .. n) \X Results -> Results]
  BY <1>1, WriteType
<1>4. \A k \in 1 .. n, v \in Results : F[<<k, v>>] = write(v, cs[k], b)
  OBVIOUS
<1> HIDE DEF n, F
<1>5. PICK f : Folds(f, n, Results, Truncated, F)
  BY <1>1, <1>2, <1>3, FoldExists
<1>6. ASSUME NEW s \in SUBSET (1 .. n)
      PROVE  f[s] = IF s = {} THEN Truncated ELSE write(f[s \ {Max(s)}], cs[Max(s)], b)
  <2>1. CASE s = {}
    BY <1>5, <2>1 DEF Folds
  <2>2. CASE s # {}
    <3>1. Max(s) \in 1 .. n
      BY <1>1, <2>2, MaxExists
    <3>2. f[s \ {Max(s)}] \in Results
      BY <1>5 DEF Folds
    <3> QED
      BY <1>4, <1>5, <2>2, <3>1, <3>2 DEF Folds
  <2> QED
    BY <2>1, <2>2
<1>7. f = [s \in SUBSET (DOMAIN cs) |->
             IF s = {} THEN Truncated ELSE write(f[s \ {Max(s)}], cs[Max(s)], b)]
  BY <1>1, <1>5, <1>6 DEF Folds
<1>8. ApplyAt(cs, b) = [s \in SUBSET (DOMAIN cs) |->
                          IF s = {} THEN Truncated
                          ELSE write(ApplyAt(cs, b)[s \ {Max(s)}], cs[Max(s)], b)]
  BY <1>7 DEF ApplyAt
<1>9. ASSUME NEW s \in SUBSET (1 .. n)
      PROVE  ApplyAt(cs, b)[s] = IF s = {} THEN Truncated
                                 ELSE write(ApplyAt(cs, b)[s \ {Max(s)}], cs[Max(s)], b)
  BY <1>1, <1>8, Zenon
<1>10. ASSUME NEW k \in Nat, k < n
       PROVE  ApplyAt(cs, b)[1 .. k + 1] = write(ApplyAt(cs, b)[1 .. k], cs[k + 1], b)
  BY <1>1, <1>9, <1>10, FirstPlaces, ZenonT(60)
<1>11. 1 .. 0 \in SUBSET (1 .. n) /\ 1 .. 0 = {}
  OBVIOUS
<1> QED
  BY <1>9, <1>10, <1>11 DEF n

(* Setting ok in a result leaves the rest of it.                           *)
LEMMA SetOk ==
    ASSUME NEW f, NEW e, NEW old \in BOOLEAN, NEW new \in BOOLEAN
    PROVE  [[ok |-> old, data_offset |-> e, file |-> f] EXCEPT !.ok = new]
              = [ok |-> new, data_offset |-> e, file |-> f]
OBVIOUS

(* Given the first n bytes of d, applyDelta has written the first k chunks *)
(* of d, or has stopped at one that does not lie within them.              *)
Applied(r, d, cs, n, k) ==
    \/ /\ End(cs, k) <= n
       /\ r = [ok |-> TRUE, data_offset |-> End(cs, k), file |-> SubSeq(d, 1, End(cs, k))]
    \/ \E m \in 0 .. k - 1 :
          /\ End(cs, m) <= n /\ n < End(cs, m + 1)
          /\ r \in Results /\ ~r.ok /\ r.file = SubSeq(d, 1, End(cs, m))

(* It is so after every iteration.                                         *)
LEMMA AppliedUpto ==
    ASSUME NEW d \in Seq(Byte), NEW cs, Tiles(d, cs), NEW n \in 0 .. Len(d),
           NEW j \in 0 .. Len(cs)
    PROVE  Applied(ApplyAt(cs, SubSeq(d, 1, n))[1 .. j], d, cs, n, j)
<1> DEFINE b == SubSeq(d, 1, n)
           A(k) == ApplyAt(cs, b)[1 .. k]
           T == {k \in Nat : k <= Len(cs) => Applied(A(k), d, cs, n, k)}
<1>0. /\ Len(cs) \in Nat /\ Len(d) \in Nat /\ cs \in Seq(Chunk)
      /\ b \in Seq(Byte) /\ Len(b) = n
  BY DEF Tiles
<1> HIDE DEF b
<1>1. 0 \in T
  <2>1. A(0) = Truncated
    BY <1>0, ApplySteps
  <2>2. End(cs, 0) = 0 /\ SubSeq(d, 1, 0) = <<>>
    BY DEF End
  <2>3. Applied(A(0), d, cs, n, 0)
    <3> HIDE DEF A
    <3>1. End(cs, 0) <= n
      BY <2>2
    <3>2. A(0) = [ok |-> TRUE, data_offset |-> End(cs, 0), file |-> SubSeq(d, 1, End(cs, 0))]
      BY <2>1, <2>2, Zenon DEF Truncated
    <3> QED
      BY <3>1, <3>2, Zenon DEF Applied
  <2> QED
    BY <2>3
<1>2. ASSUME NEW k \in Nat, k \in T PROVE k + 1 \in T
  <2> SUFFICES ASSUME k + 1 <= Len(cs) PROVE Applied(A(k + 1), d, cs, n, k + 1)
    OBVIOUS
  <2> DEFINE c == cs[k + 1]
             e == End(cs, k)
  <2>1. A(k + 1) = write(A(k), c, b)
    BY <1>0, ApplySteps
  <2>2. k + 1 \in 1 .. Len(cs) /\ (k + 1) - 1 = k /\ k \in 0 .. Len(cs) /\ k + 1 \in 0 .. Len(cs)
    BY <1>0
  <2>3. /\ c \in Chunk /\ e \in Nat /\ End(cs, k + 1) \in Nat
        /\ End(cs, k + 1) = e + c.size /\ End(cs, k + 1) <= Len(d)
    BY <2>2, EndIs, TilesOrdered
  <2>4. c.size \in Nat \ {0}
    BY <2>3 DEF Chunk, Positive
  <2>5. Applied(A(k), d, cs, n, k)
    BY <1>2, <2>2
  <2> HIDE DEF A, c, e
  <2>6. CASE /\ e <= n
             /\ A(k) = [ok |-> TRUE, data_offset |-> e, file |-> SubSeq(d, 1, e)]
    <3>1. CASE e + c.size <= n
      <4>1. SubSeq(b, e + 1, e + c.size) = SubSeq(d, e + 1, e + c.size)
        <5>1. /\ 1 \in 1 .. Len(d) /\ n \in 1 .. Len(d) /\ e + 1 \in 1 .. n - 1 + 1
              /\ e + c.size \in 1 .. n - 1 + 1
          BY <1>0, <2>3, <2>4, <3>1
        <5>2. \A x \in 1 .. n : b[x] = d[x]
          BY <1>0 DEF b
        <5>3. SubSeq(b, e + 1, e + c.size) = [x \in 1 .. c.size |-> b[e + x]]
          BY <1>0, <2>3, <2>4, <5>1
        <5>4. SubSeq(d, e + 1, e + c.size) = [x \in 1 .. c.size |-> d[e + x]]
          BY <1>0, <2>3, <2>4, <5>1
        <5>5. \A x \in 1 .. c.size : e + x \in 1 .. n
          BY <1>0, <2>3, <2>4, <3>1
        <5> QED
          BY <5>2, <5>3, <5>4, <5>5
      <4>2. SubSeq(d, 1, e) \o SubSeq(d, e + 1, e + c.size) = SubSeq(d, 1, e + c.size)
        <5>1. /\ 1 \in 1 .. Len(d) + 1 /\ e \in 1 - 1 .. Len(d)
              /\ e + c.size \in e .. Len(d)
          BY <1>0, <2>3, <2>4
        <5> QED
          BY <5>1, ConcatAdjacentSubSeq
      <4>3. ~exceeds(e, c.size, Len(b))
        BY <1>0, <2>3, <2>4, <3>1 DEF exceeds
      <4>4. A(k + 1) = [ok |-> TRUE, data_offset |-> e + c.size,
                        file |-> SubSeq(d, 1, e) \o SubSeq(b, e + 1, e + c.size)]
        BY <2>1, <2>6, <4>3 DEF write
      <4> QED
        BY <2>3, <3>1, <4>1, <4>2, <4>4 DEF Applied
    <3>2. CASE ~(e + c.size <= n)
      <4>1. exceeds(e, c.size, Len(b))
        BY <1>0, <2>3, <2>4, <3>2 DEF exceeds
      <4>2. A(k + 1) = [ok |-> FALSE, data_offset |-> e, file |-> SubSeq(d, 1, e)]
        <5>1. write(A(k), c, b) = [A(k) EXCEPT !.ok = FALSE]
          BY <2>6, <4>1 DEF write
        <5>2. [A(k) EXCEPT !.ok = FALSE] =
                 [[ok |-> TRUE, data_offset |-> e, file |-> SubSeq(d, 1, e)] EXCEPT !.ok = FALSE]
          BY <2>6, Zenon
        <5>3. ASSUME NEW f
              PROVE  [[ok |-> TRUE, data_offset |-> e, file |-> f] EXCEPT !.ok = FALSE]
                        = [ok |-> FALSE, data_offset |-> e, file |-> f]
          BY SetOk
        <5> QED
          BY <2>1, <5>1, <5>2, <5>3, Zenon
      <4>3. SubSeq(d, 1, e) \in Seq(Byte)
        BY <1>0, <2>3, <2>4
      <4>4. A(k + 1) \in Results /\ ~A(k + 1).ok /\ A(k + 1).file = SubSeq(d, 1, e)
        <5>1. ASSUME NEW f \in Seq(Byte)
              PROVE  /\ [ok |-> FALSE, data_offset |-> e, file |-> f] \in Results
                     /\ ~[ok |-> FALSE, data_offset |-> e, file |-> f].ok
                     /\ [ok |-> FALSE, data_offset |-> e, file |-> f].file = f
          BY <2>3 DEF Results
        <5> QED
          BY <4>2, <4>3, <5>1, Zenon
      <4>5. n < End(cs, k + 1) /\ k \in 0 .. (k + 1) - 1
        BY <2>3, <2>4, <3>2
      <4> QED
        BY <2>6, <4>4, <4>5 DEF Applied, e
    <3> QED
      BY <3>1, <3>2
  <2>7. CASE \E m \in 0 .. k - 1 :
                /\ End(cs, m) <= n /\ n < End(cs, m + 1)
                /\ A(k) \in Results /\ ~A(k).ok /\ A(k).file = SubSeq(d, 1, End(cs, m))
    <3>1. PICK m \in 0 .. k - 1 :
                /\ End(cs, m) <= n /\ n < End(cs, m + 1)
                /\ A(k) \in Results /\ ~A(k).ok /\ A(k).file = SubSeq(d, 1, End(cs, m))
      BY <2>7
    <3>2. A(k + 1) = [A(k) EXCEPT !.ok = FALSE]
      BY <2>1, <3>1 DEF write
    <3>3. A(k + 1) \in Results /\ ~A(k + 1).ok /\ A(k + 1).file = A(k).file
      BY <3>1, <3>2 DEF Results
    <3>4. m \in 0 .. (k + 1) - 1
      OBVIOUS
    <3> QED
      BY <3>1, <3>3, <3>4 DEF Applied
  <2> QED
    BY <2>5, <2>6, <2>7 DEF Applied, e
<1>3. j \in T
  <2> HIDE DEF T
  <2> QED
    BY <1>0, <1>1, <1>2, Induction, SMTT(60)
<1> QED
  BY <1>0, <1>3 DEF b

(* What the loop gives the stream when the data are the first n bytes of a *)
(* file.                                                                   *)
LEMMA ApplyResult ==
    ASSUME NEW d \in Seq(Byte), NEW cs, Tiles(d, cs), NEW n \in 0 .. Len(d)
    PROVE  LET r == writeChunks(cs, SubSeq(d, 1, n))
               fits == {k \in DOMAIN cs : cs[k].offset + cs[k].size <= n}
           IN  /\ r.file = FlattenSeq([k \in fits |-> bytesOf(d, cs[k])])
               /\ r.file \in Seq(Byte)
               /\ r.ok <=> n = Len(d)
               /\ r.ok => r.file = d
<1> DEFINE r == writeChunks(cs, SubSeq(d, 1, n))
           fits == {k \in DOMAIN cs : cs[k].offset + cs[k].size <= n}
           N == Len(cs)
<1>0. N \in Nat /\ Len(d) \in Nat /\ DOMAIN cs = 1 .. N /\ N \in 0 .. N
  BY DEF Tiles
<1>1. Applied(r, d, cs, n, N)
  <2>1. r = ApplyAt(cs, SubSeq(d, 1, n))[1 .. N]
    BY <1>0, ApplyIsFold
  <2>2. Applied(ApplyAt(cs, SubSeq(d, 1, n))[1 .. N], d, cs, n, N)
    BY <1>0, AppliedUpto
  <2> QED
    BY <2>1, <2>2
<1>2. \A k \in 1 .. N : End(cs, k) = cs[k].offset + cs[k].size
  BY DEF End
<1>3. \A k \in 0 .. N : End(cs, k) \in Nat
  BY EndIs
<1>4. End(cs, N) = Len(d)
  BY EndIs
<1> HIDE DEF r, N
<1>5. ASSUME NEW m \in 0 .. N, End(cs, m) <= n, m = N \/ n < End(cs, m + 1)
      PROVE  fits = 1 .. m
  <2>1. ASSUME NEW k \in 1 .. N PROVE End(cs, k) <= n <=> k <= m
    <3>1. k \in 0 .. N
      BY <1>0
    <3>2. CASE k <= m
      <4>1. End(cs, k) + (m - k) <= End(cs, m)
        BY <3>1, <3>2, EndsGrow DEF N
      <4> QED
        BY <1>0, <1>3, <1>5, <3>1, <3>2, <4>1
    <3>3. CASE ~(k <= m)
      <4>1. m + 1 \in 0 .. N /\ m + 1 <= k /\ n < End(cs, m + 1)
        BY <1>0, <1>5, <3>3
      <4>2. End(cs, m + 1) + (k - (m + 1)) <= End(cs, k)
        BY <3>1, <4>1, EndsGrow DEF N
      <4>3. n < End(cs, k)
        BY <1>0, <1>3, <3>1, <4>1, <4>2
      <4> QED
        BY <1>0, <1>3, <3>1, <3>3, <4>3
    <3> QED
      BY <3>2, <3>3
  <2> QED
    BY <1>0, <1>2, <2>1
<1>6. ASSUME NEW m \in 0 .. N, fits = 1 .. m
      PROVE  FlattenSeq([k \in fits |-> bytesOf(d, cs[k])]) = SubSeq(d, 1, End(cs, m))
  BY <1>6, FirstChunks DEF N
<1> HIDE DEF fits
<1>7. /\ r.file = FlattenSeq([k \in fits |-> bytesOf(d, cs[k])])
      /\ r.file \in Seq(Byte) /\ (r.ok <=> n = Len(d)) /\ (r.ok => r.file = d)
  <2>1. CASE /\ End(cs, N) <= n
             /\ r = [ok |-> TRUE, data_offset |-> End(cs, N), file |-> SubSeq(d, 1, End(cs, N))]
    <3>1. fits = 1 .. N
      BY <1>0, <1>5, <2>1
    <3>2. SubSeq(d, 1, Len(d)) = d
      BY <1>0
    <3> QED
      BY <1>0, <1>4, <1>6, <2>1, <3>1, <3>2
  <2>2. CASE \E m \in 0 .. N - 1 :
                /\ End(cs, m) <= n /\ n < End(cs, m + 1)
                /\ r \in Results /\ ~r.ok /\ r.file = SubSeq(d, 1, End(cs, m))
    <3>1. PICK m \in 0 .. N - 1 :
                /\ End(cs, m) <= n /\ n < End(cs, m + 1)
                /\ r \in Results /\ ~r.ok /\ r.file = SubSeq(d, 1, End(cs, m))
      BY <2>2
    <3>2. m \in 0 .. N /\ m + 1 \in 0 .. N /\ m + 1 <= N
      BY <1>0
    <3>3. fits = 1 .. m
      BY <1>5, <3>1, <3>2
    <3>4. End(cs, m + 1) <= Len(d)
      BY <3>2, TilesOrdered DEF N
    <3>5. n # Len(d)
      BY <1>0, <1>3, <3>1, <3>2, <3>4
    <3>6. r.file \in Seq(Byte)
      BY <3>1 DEF Results
    <3> QED
      BY <1>6, <3>1, <3>2, <3>3, <3>5, <3>6
  <2> QED
    BY <1>1, <2>1, <2>2 DEF Applied
<1> QED
  BY <1>7 DEF r, fits
(* When no scan is under way the chunks tile the input, which is no longer *)
(* than MaxLen.                                                            *)
Whole ==
    /\ Len(data) <= MaxLen
    /\ pc # "scan" => Tiles(data, chunks)

(* A scan that returns has left nothing out.                               *)
LEMMA WholeStep ==
    ASSUME IndInv, Whole, [Next]_vars
    PROVE  Whole'
<1>0. /\ data \in Seq(Byte) /\ chunks \in Seq(Chunk) /\ MaxLen \in Nat
      /\ Len(<<>>) = 0 /\ <<>> \in Seq(Chunk) /\ Tiles(<<>>, <<>>)
  BY ChunkerAssumption DEF IndInv, TypeOK, Chunk, Tiles
<1>1. CASE OpenFails
  BY <1>0, <1>1 DEF OpenFails, Whole
<1>2. ASSUME NEW d \in Inputs, ChunkData(d) PROVE Whole'
  <2>1. Len(d) <= MaxLen
    BY <1>0 DEF Inputs
  <2> QED
    BY <1>0, <1>2, <2>1 DEF ChunkData, Whole
<1>3. CASE ScanByte
  BY <1>3 DEF ScanByte, Whole
<1>4. CASE Return
  <2>1. /\ pc = "scan" /\ i = Len(data) /\ chunk_start = Len(data) /\ UNCHANGED <<data, chunks>>
    BY <1>4 DEF Return, locals, IndInv, Tiling
  <2>2. chunks = <<>> => data = <<>>
    BY <1>0, <2>1 DEF IndInv, Tiling
  <2>3. Tiles(data, chunks)
    BY <1>0, <2>1, <2>2 DEF IndInv, Tiling, Tiles
  <2> QED
    BY <2>1, <2>3 DEF Whole
<1>5. CASE UNCHANGED vars
  BY <1>5 DEF vars, locals, Whole
<1> QED
  BY <1>1, <1>2, <1>3, <1>4, <1>5 DEF Next

(* A file that has been chunked is tiled by its chunks.                    *)
LEMMA WholeInvariant == Spec => [](IndInv /\ Whole)
<1>1. Init => Whole
  <2>1. Tiles(<<>>, <<>>) /\ Len(<<>>) = 0
    BY DEF Tiles
  <2> QED
    BY <2>1, ChunkerAssumption DEF Init, Whole
<1>2. IndInv /\ Whole /\ [Next]_vars => Whole'
  BY WholeStep
<1> QED
  BY <1>1, <1>2, IndInvariant, PTL DEF Spec

(* The client compares and sends chunks only when the file has been        *)
(* chunked.                                                                *)
Chunked == phase # "chunk" => pc # "scan"

LEMMA ChunkedInvariant == DeltaSpec => [](IndInv /\ Whole /\ Chunked)
<1>1. DeltaInit => Chunked
  BY DEF DeltaInit, Init, Chunked
<1>2. Chunked /\ [DeltaNext]_dvars => Chunked'
  <2> SUFFICES ASSUME Chunked, [DeltaNext]_dvars PROVE Chunked'
    OBVIOUS
  <2>1. CASE Ask(OpenFails) \/ \E d \in Inputs : Ask(ChunkData(d))
    BY <2>1 DEF Ask, Chunked
  <2>2. CASE Chunking
    BY <2>2 DEF Chunking, ScanByte, Return, client, Chunked
  <2>3. CASE ComputeDelta
    BY <2>3 DEF ComputeDelta, vars, Chunked
  <2>4. CASE SendChunk \/ Finalize
    BY <2>4 DEF SendChunk, Finalize, vars, Chunked
  <2>5. ASSUME NEW d \in Inputs, OtherUploads(d) PROVE Chunked'
    BY <2>5 DEF OtherUploads, vars, Chunked
  <2>6. CASE UNCHANGED dvars
    BY <2>6 DEF dvars, vars, client, Chunked
  <2> QED
    BY <2>1, <2>2, <2>3, <2>4, <2>5, <2>6 DEF DeltaNext
<1> QED
  BY <1>1, <1>2, WholeInvariant, DeltaImplementsChunker, PTL DEF DeltaSpec

(* A beginning of what the stream was given.                               *)
LEMMA FirstPart ==
    ASSUME NEW f \in Seq(Byte), NEW k \in 0 .. Len(f)
    PROVE  /\ SubSeq(f, 1, k) \in Seq(Byte) /\ Len(SubSeq(f, 1, k)) = k
           /\ IsPrefix(SubSeq(f, 1, k), f)
           /\ k = Len(f) => SubSeq(f, 1, k) = f
<1>1. SubSeq(f, 1, k) \in Seq(Byte) /\ Len(SubSeq(f, 1, k)) = k
  OBVIOUS
<1>2. k = Len(f) => SubSeq(f, 1, k) = f
  OBVIOUS
<1>3. SubSeq(SubSeq(f, 1, k), 1, k) = SubSeq(f, 1, k)
  BY <1>1
<1> QED
  BY <1>1, <1>2, <1>3 DEF IsPrefix

(* For every file and any part of its data, applyDelta leaves the old file *)
(* and returns false, or leaves a beginning of the chunks that lie within  *)
(* that part, and returns true exactly when it was given all the data.     *)
THEOREM ApplyWritesWhatFits == DeltaSpec => []ApplyKeepsOrCuts
<1>1. IndInv /\ Whole /\ Chunked => ApplyKeepsOrCuts
  <2> SUFFICES ASSUME IndInv, Whole, Chunked, phase = "send", NEW n \in 0 .. Len(data),
                      NEW out \in applyDelta(NoRow, chunks, SubSeq(data, 1, n))
               PROVE  LET fits == {k \in DOMAIN chunks : chunks[k].offset + chunks[k].size <= n}
                          whole == FlattenSeq([k \in fits |-> bytesOf(data, chunks[k])])
                      IN  IF out.file = NoRow THEN ~out.result
                          ELSE /\ IsPrefix(out.file, whole)
                               /\ out.result <=> n = Len(data)
                               /\ out.result /\ Len(out.file) = Len(data) => out.file = data
    BY DEF ApplyKeepsOrCuts
  <2> DEFINE fits == {k \in DOMAIN chunks : chunks[k].offset + chunks[k].size <= n}
             whole == FlattenSeq([k \in fits |-> bytesOf(data, chunks[k])])
             r == writeChunks(chunks, SubSeq(data, 1, n))
  <2>1. data \in Seq(Byte) /\ Tiles(data, chunks)
    BY DEF IndInv, TypeOK, Whole, Chunked
  <2>2. r.file = whole /\ r.file \in Seq(Byte) /\ (r.ok <=> n = Len(data)) /\ (r.ok => r.file = data)
    BY <2>1, ApplyResult
  <2>3. \/ out = [result |-> FALSE, file |-> NoRow]
        \/ \E k \in 0 .. Len(r.file) : out = [result |-> r.ok, file |-> SubSeq(r.file, 1, k)]
    BY DEF applyDelta
  <2> HIDE DEF fits, whole, r
  <2>4. CASE out = [result |-> FALSE, file |-> NoRow]
    BY <2>4 DEF fits, whole
  <2>5. CASE \E k \in 0 .. Len(r.file) : out = [result |-> r.ok, file |-> SubSeq(r.file, 1, k)]
    <3>1. PICK k \in 0 .. Len(r.file) : out = [result |-> r.ok, file |-> SubSeq(r.file, 1, k)]
      BY <2>5
    <3>2. /\ out.file \in Seq(Byte) /\ Len(out.file) = k /\ IsPrefix(out.file, whole)
          /\ k = Len(r.file) => out.file = r.file
      BY <2>2, <3>1, FirstPart
    <3>3. out.result = r.ok /\ out.file # NoRow
      BY <3>1, <3>2, DeltaAssumption
    <3> QED
      BY <2>2, <3>2, <3>3 DEF fits, whole
  <2> QED
    BY <2>3, <2>4, <2>5
<1> QED
  BY <1>1, ChunkedInvariant, PTL
-----------------------------------------------------------------------------
(* computeDelta                                                            *)

DeltaInfo == [new_chunks : Seq(Chunk), existing_chunks : Seq(Chunk), bytes_to_transfer : Nat]

(* One iteration, for the file d and the hashes h of the server.           *)
Divide(d, h, r, c) ==
    IF bytesOf(d, c) \notin h
    THEN [r EXCEPT !.new_chunks = Append(@, c), !.bytes_to_transfer = @ + c.size]
    ELSE [r EXCEPT !.existing_chunks = Append(@, c)]

(* FoldLeft's function: the chunks at a set of places, divided.            *)
DivideAt(d, h, cs) ==
    CHOOSE f : f = [s \in SUBSET (DOMAIN cs) |->
                      IF s = {} THEN NoDelta
                      ELSE Divide(d, h, f[s \ {Max(s)}], cs[Max(s)])]

(* computeDelta folds with that function.                                  *)
LEMMA DeltaIsFold ==
    FoldLeft(divide, NoDelta, chunks) = DivideAt(data, server_hashes, chunks)[DOMAIN chunks]
BY DEF FoldLeft, MapThenFoldSet, divide, isNew, DivideAt, Divide

(* The DeltaInfo after an iteration with a chunk that is new.              *)
LEMMA DivideNew ==
    ASSUME NEW d, NEW h, NEW r \in DeltaInfo, NEW c \in Chunk, bytesOf(d, c) \notin h
    PROVE  /\ Divide(d, h, r, c) \in DeltaInfo
           /\ Divide(d, h, r, c).new_chunks = Append(r.new_chunks, c)
           /\ Divide(d, h, r, c).existing_chunks = r.existing_chunks
           /\ Divide(d, h, r, c).bytes_to_transfer = r.bytes_to_transfer + c.size
<1> DEFINE x == Divide(d, h, r, c)
<1>1. Append(r.new_chunks, c) \in Seq(Chunk) /\ r.bytes_to_transfer + c.size \in Nat
  BY DEF Chunk, Positive, DeltaInfo
<1>2. x = [r EXCEPT !.new_chunks = Append(@, c), !.bytes_to_transfer = @ + c.size]
  BY DEF Divide
<1> HIDE DEF x
<1>3. /\ x.new_chunks = Append(r.new_chunks, c) /\ x.existing_chunks = r.existing_chunks
      /\ x.bytes_to_transfer = r.bytes_to_transfer + c.size
  BY <1>2 DEF DeltaInfo
<1>4. x \in DeltaInfo
  BY <1>1, <1>2 DEF DeltaInfo
<1> QED
  BY <1>3, <1>4 DEF x

(* And with one that the server has.                                       *)
LEMMA DivideExisting ==
    ASSUME NEW d, NEW h, NEW r \in DeltaInfo, NEW c \in Chunk, bytesOf(d, c) \in h
    PROVE  /\ Divide(d, h, r, c) \in DeltaInfo
           /\ Divide(d, h, r, c).new_chunks = r.new_chunks
           /\ Divide(d, h, r, c).existing_chunks = Append(r.existing_chunks, c)
           /\ Divide(d, h, r, c).bytes_to_transfer = r.bytes_to_transfer
<1> DEFINE x == Divide(d, h, r, c)
<1>1. Append(r.existing_chunks, c) \in Seq(Chunk)
  BY DEF DeltaInfo
<1>2. x = [r EXCEPT !.existing_chunks = Append(@, c)]
  BY DEF Divide
<1> HIDE DEF x
<1>3. /\ x.new_chunks = r.new_chunks /\ x.existing_chunks = Append(r.existing_chunks, c)
      /\ x.bytes_to_transfer = r.bytes_to_transfer
  BY <1>2 DEF DeltaInfo
<1>4. x \in DeltaInfo
  BY <1>1, <1>2 DEF DeltaInfo
<1> QED
  BY <1>3, <1>4 DEF x

(* The loop of computeDelta, chunk by chunk.                               *)
LEMMA DivideSteps ==
    ASSUME NEW d, NEW h, NEW cs \in Seq(Chunk)
    PROVE  /\ DivideAt(d, h, cs)[1 .. 0] = NoDelta
           /\ \A k \in Nat : k < Len(cs) =>
                 DivideAt(d, h, cs)[1 .. k + 1] = Divide(d, h, DivideAt(d, h, cs)[1 .. k], cs[k + 1])
<1> DEFINE n == Len(cs)
           F == [p \in (1 .. n) \X DeltaInfo |-> Divide(d, h, p[2], cs[p[1]])]
<1>1. n \in Nat /\ DOMAIN cs = 1 .. n /\ \A k \in 1 .. n : cs[k] \in Chunk
  OBVIOUS
<1>2. NoDelta \in DeltaInfo
  BY DEF NoDelta, DeltaInfo
<1>3. F \in [(1 .. n) \X DeltaInfo -> DeltaInfo]
  <2>1. ASSUME NEW k \in 1 .. n, NEW v \in DeltaInfo PROVE Divide(d, h, v, cs[k]) \in DeltaInfo
    BY <1>1, DivideNew, DivideExisting
  <2> QED
    BY <2>1
<1>4. \A k \in 1 .. n, v \in DeltaInfo : F[<<k, v>>] = Divide(d, h, v, cs[k])
  OBVIOUS
<1> HIDE DEF n, F
<1>5. PICK f : Folds(f, n, DeltaInfo, NoDelta, F)
  BY <1>1, <1>2, <1>3, FoldExists
<1>6. ASSUME NEW s \in SUBSET (1 .. n)
      PROVE  f[s] = IF s = {} THEN NoDelta ELSE Divide(d, h, f[s \ {Max(s)}], cs[Max(s)])
  <2>1. CASE s = {}
    BY <1>5, <2>1 DEF Folds
  <2>2. CASE s # {}
    <3>1. Max(s) \in 1 .. n
      BY <1>1, <2>2, MaxExists
    <3>2. f[s \ {Max(s)}] \in DeltaInfo
      BY <1>5 DEF Folds
    <3> QED
      BY <1>4, <1>5, <2>2, <3>1, <3>2 DEF Folds
  <2> QED
    BY <2>1, <2>2
<1>7. f = [s \in SUBSET (DOMAIN cs) |->
             IF s = {} THEN NoDelta ELSE Divide(d, h, f[s \ {Max(s)}], cs[Max(s)])]
  BY <1>1, <1>5, <1>6 DEF Folds
<1>8. DivideAt(d, h, cs) = [s \in SUBSET (DOMAIN cs) |->
                              IF s = {} THEN NoDelta
                              ELSE Divide(d, h, DivideAt(d, h, cs)[s \ {Max(s)}], cs[Max(s)])]
  BY <1>7 DEF DivideAt
<1>9. ASSUME NEW s \in SUBSET (1 .. n)
      PROVE  DivideAt(d, h, cs)[s] =
                IF s = {} THEN NoDelta
                ELSE Divide(d, h, DivideAt(d, h, cs)[s \ {Max(s)}], cs[Max(s)])
  BY <1>1, <1>8, Zenon
<1>10. ASSUME NEW k \in Nat, k < n
       PROVE  DivideAt(d, h, cs)[1 .. k + 1] = Divide(d, h, DivideAt(d, h, cs)[1 .. k], cs[k + 1])
  BY <1>1, <1>9, <1>10, FirstPlaces, ZenonT(60)
<1>11. 1 .. 0 \in SUBSET (1 .. n) /\ 1 .. 0 = {}
  OBVIOUS
<1> QED
  BY <1>9, <1>10, <1>11 DEF n

(* What the DeltaInfo says of the first k chunks of d.                     *)
Divided(r, d, h, cs, k) ==
    /\ r \in DeltaInfo
    /\ Len(r.new_chunks) + Len(r.existing_chunks) = k
    /\ \A c : c \in Range(r.new_chunks) <=>
                 \E j \in 1 .. k : c = cs[j] /\ bytesOf(d, c) \notin h
    /\ \A c : c \in Range(r.existing_chunks) <=>
                 \E j \in 1 .. k : c = cs[j] /\ bytesOf(d, c) \in h
    /\ r.bytes_to_transfer =
          Len(FlattenSeq([j \in DOMAIN r.new_chunks |-> bytesOf(d, r.new_chunks[j])]))
    /\ FlattenSeq([j \in DOMAIN r.new_chunks |-> bytesOf(d, r.new_chunks[j])]) \in Seq(Byte)

(* The range of a longer sequence.                                         *)
LEMMA RangeAppend ==
    ASSUME NEW S, NEW s \in Seq(S), NEW x \in S
    PROVE  \A c : c \in Range(Append(s, x)) <=> c \in Range(s) \/ c = x
<1>1. /\ DOMAIN s = 1 .. Len(s) /\ DOMAIN Append(s, x) = 1 .. Len(s) + 1 /\ Len(s) \in Nat
      /\ \A k \in 1 .. Len(s) : Append(s, x)[k] = s[k]
      /\ Append(s, x)[Len(s) + 1] = x
  OBVIOUS
<1>2. \A k \in 1 .. Len(s) : k \in 1 .. Len(s) + 1
  BY <1>1
<1>3. Len(s) + 1 \in 1 .. Len(s) + 1
  BY <1>1
<1>4. \A k \in 1 .. Len(s) + 1 : k = Len(s) + 1 \/ k \in 1 .. Len(s)
  BY <1>1
<1> DEFINE t == Append(s, x)
           n == Len(s)
<1> HIDE DEF t, n
<1> QED
  BY <1>1, <1>2, <1>3, <1>4, Zenon DEF Range, t, n
(* The bytes of a longer list of chunks.                                   *)
LEMMA TransferAppend ==
    ASSUME NEW d, NEW new \in Seq(Chunk), NEW c \in Chunk, bytesOf(d, c) \in Seq(Byte),
           \A x \in Range(new) : bytesOf(d, x) \in Seq(Byte)
    PROVE  FlattenSeq([j \in DOMAIN Append(new, c) |-> bytesOf(d, Append(new, c)[j])])
              = FlattenSeq([j \in DOMAIN new |-> bytesOf(d, new[j])]) \o bytesOf(d, c)
<1> DEFINE n == Len(new)
           b(x) == bytesOf(d, x)
           parts == [j \in DOMAIN new |-> b(new[j])]
<1>1. /\ n \in Nat /\ DOMAIN new = 1 .. n /\ DOMAIN Append(new, c) = 1 .. n + 1
      /\ \A k \in 1 .. n : Append(new, c)[k] = new[k]
      /\ Append(new, c)[n + 1] = c
  OBVIOUS
<1>2. \A k \in 1 .. n : b(new[k]) \in Seq(Byte)
  BY <1>1, Zenon DEF Range
<1> HIDE DEF n, b
<1>3. parts \in Seq(Seq(Byte)) /\ Len(parts) = n
  BY <1>1, <1>2
<1>4. [j \in DOMAIN Append(new, c) |-> b(Append(new, c)[j])] = Append(parts, b(c))
  BY <1>1, <1>3
<1>5. b(c) \in Seq(Byte)
  BY DEF b
<1> HIDE DEF parts
<1>6. FlattenSeq(Append(parts, b(c))) = FlattenSeq(parts) \o b(c)
  BY <1>3, <1>5, FlattenAppend
<1> QED
  BY <1>4, <1>6, Zenon DEF parts, b

(* An iteration divides one chunk more.                                    *)
LEMMA DividedStep ==
    ASSUME NEW d \in Seq(Byte), NEW h, NEW cs, Tiles(d, cs), NEW k \in Nat, k < Len(cs),
           NEW r, Divided(r, d, h, cs, k)
    PROVE  Divided(Divide(d, h, r, cs[k + 1]), d, h, cs, k + 1)
<1> DEFINE c == cs[k + 1]
           x == Divide(d, h, r, c)
           b(y) == bytesOf(d, y)
<1>1. /\ Len(cs) \in Nat /\ k + 1 \in 1 .. Len(cs) /\ r \in DeltaInfo
      /\ r.new_chunks \in Seq(Chunk) /\ r.existing_chunks \in Seq(Chunk)
      /\ r.bytes_to_transfer \in Nat
  BY DEF Tiles, Divided, DeltaInfo
<1>2. c \in Chunk /\ b(c) \in Seq(Byte) /\ Len(b(c)) = c.size /\ c.size \in Nat
  BY <1>1, BytesOf, EndIs DEF Chunk, Positive
<1> HIDE DEF c
<1>3. r \in DeltaInfo /\ c \in Chunk
  BY <1>1, <1>2
<1> HIDE DEF x
<1>4. \A y : (\E j \in 1 .. k + 1 : y = cs[j]) <=> (\E j \in 1 .. k : y = cs[j]) \/ y = c
  <2>1. /\ \A j \in 1 .. k : j \in 1 .. k + 1
        /\ k + 1 \in 1 .. k + 1
        /\ \A j \in 1 .. k + 1 : j \in 1 .. k \/ j = k + 1
    OBVIOUS
  <2> QED
    BY <2>1, Zenon DEF c
<1>5. ASSUME NEW y \in Range(r.new_chunks) PROVE b(y) \in Seq(Byte)
  <2>1. PICK j \in 1 .. k : y = cs[j]
    BY <1>5 DEF Divided
  <2>2. j \in 1 .. Len(cs)
    BY <1>1
  <2> QED
    BY <2>1, <2>2, BytesOf
<1> HIDE DEF b
<1> DEFINE old == FlattenSeq([j \in DOMAIN r.new_chunks |-> b(r.new_chunks[j])])
           now == FlattenSeq([j \in DOMAIN x.new_chunks |-> b(x.new_chunks[j])])
<1>6. /\ Len(r.new_chunks) + Len(r.existing_chunks) = k
      /\ old \in Seq(Byte) /\ Len(old) = r.bytes_to_transfer
  BY Zenon DEF Divided, b
<1>7. /\ \A y : y \in Range(r.new_chunks) <=> \E j \in 1 .. k : y = cs[j] /\ b(y) \notin h
      /\ \A y : y \in Range(r.existing_chunks) <=> \E j \in 1 .. k : y = cs[j] /\ b(y) \in h
  BY Zenon DEF Divided, b
<1>8. CASE b(c) \notin h
  <2>1. /\ x.new_chunks = Append(r.new_chunks, c) /\ x.existing_chunks = r.existing_chunks
        /\ x.bytes_to_transfer = r.bytes_to_transfer + c.size /\ x \in DeltaInfo
    <3>1. bytesOf(d, c) \notin h
      BY <1>8 DEF b
    <3> HIDE DEF now, old
    <3> QED
      BY <1>3, <3>1, DivideNew DEF x
  <2>2. now = old \o b(c)
    <3>1. FlattenSeq([j \in DOMAIN Append(r.new_chunks, c) |-> bytesOf(d, Append(r.new_chunks, c)[j])])
             = FlattenSeq([j \in DOMAIN r.new_chunks |-> bytesOf(d, r.new_chunks[j])]) \o bytesOf(d, c)
      BY <1>1, <1>2, <1>5, TransferAppend DEF b
    <3> QED
      BY <2>1, <3>1, Zenon DEF b
  <2>3. \A y : y \in Range(x.new_chunks) <=> y \in Range(r.new_chunks) \/ y = c
    BY <1>1, <1>2, <2>1, RangeAppend
  <2> HIDE DEF now, old
  <2>5. now \in Seq(Byte) /\ Len(now) = x.bytes_to_transfer
    <3>1. old \o b(c) \in Seq(Byte) /\ Len(old \o b(c)) = Len(old) + Len(b(c))
      BY <1>2, <1>6, ConcatProperties
    <3> QED
      BY <1>2, <1>6, <2>1, <2>2, <3>1
  <2>6. Len(x.new_chunks) + Len(x.existing_chunks) = k + 1
    <3>1. /\ Len(Append(r.new_chunks, c)) = Len(r.new_chunks) + 1
          /\ Len(r.new_chunks) \in Nat /\ Len(r.existing_chunks) \in Nat
      BY <1>1, <1>2
    <3>2. /\ Len(x.new_chunks) = Len(r.new_chunks) + 1
          /\ Len(x.existing_chunks) = Len(r.existing_chunks)
      BY <2>1, <3>1, Zenon
    <3>3. (Len(r.new_chunks) + 1) + Len(r.existing_chunks) = k + 1
      <4> DEFINE m == Len(r.new_chunks)
                 n == Len(r.existing_chunks)
      <4>1. m + n = k /\ m \in Nat /\ n \in Nat
        BY <1>6, <3>1, Zenon
      <4> HIDE DEF m, n
      <4>2. (m + 1) + n = k + 1 /\ m + (n + 1) = k + 1
        BY <4>1
      <4> QED
        BY <4>2, Zenon DEF m, n
    <3> QED
      BY <3>2, <3>3, Zenon
  <2>7. ASSUME NEW y
        PROVE  y \in Range(x.new_chunks) <=> \E j \in 1 .. k + 1 : y = cs[j] /\ b(y) \notin h
    <3>1. (\E j \in 1 .. k + 1 : y = cs[j] /\ b(y) \notin h)
             <=> (\E j \in 1 .. k : y = cs[j] /\ b(y) \notin h) \/ (y = c /\ b(y) \notin h)
      BY <1>4, Zenon
    <3> QED
      BY <1>8, <1>7, <2>3, <3>1, Zenon
  <2>8. ASSUME NEW y
        PROVE  y \in Range(x.existing_chunks) <=> \E j \in 1 .. k + 1 : y = cs[j] /\ b(y) \in h
    <3>1. (\E j \in 1 .. k + 1 : y = cs[j] /\ b(y) \in h)
             <=> (\E j \in 1 .. k : y = cs[j] /\ b(y) \in h) \/ (y = c /\ b(y) \in h)
      BY <1>4, Zenon
    <3> QED
      BY <1>8, <1>7, <2>1, <3>1, Zenon
  <2> QED
    BY <2>1, <2>5, <2>6, <2>7, <2>8 DEF Divided, x, c, b, now
<1>9. CASE b(c) \in h
  <2>1. /\ x.new_chunks = r.new_chunks /\ x.existing_chunks = Append(r.existing_chunks, c)
        /\ x.bytes_to_transfer = r.bytes_to_transfer /\ x \in DeltaInfo
    <3>1. bytesOf(d, c) \in h
      BY <1>9 DEF b
    <3> HIDE DEF now, old
    <3> QED
      BY <1>3, <3>1, DivideExisting DEF x
  <2>2. now = old
    BY <2>1, Zenon
  <2>3. \A y : y \in Range(x.existing_chunks) <=> y \in Range(r.existing_chunks) \/ y = c
    BY <1>1, <1>2, <2>1, RangeAppend
  <2> HIDE DEF now, old
  <2>5. now \in Seq(Byte) /\ Len(now) = x.bytes_to_transfer
    BY <1>6, <2>1, <2>2
  <2>6. Len(x.new_chunks) + Len(x.existing_chunks) = k + 1
    <3>1. /\ Len(Append(r.existing_chunks, c)) = Len(r.existing_chunks) + 1
          /\ Len(r.new_chunks) \in Nat /\ Len(r.existing_chunks) \in Nat
      BY <1>1, <1>2
    <3>2. /\ Len(x.new_chunks) = Len(r.new_chunks)
          /\ Len(x.existing_chunks) = Len(r.existing_chunks) + 1
      BY <2>1, <3>1, Zenon
    <3>3. Len(r.new_chunks) + (Len(r.existing_chunks) + 1) = k + 1
      <4> DEFINE m == Len(r.new_chunks)
                 n == Len(r.existing_chunks)
      <4>1. m + n = k /\ m \in Nat /\ n \in Nat
        BY <1>6, <3>1, Zenon
      <4> HIDE DEF m, n
      <4>2. (m + 1) + n = k + 1 /\ m + (n + 1) = k + 1
        BY <4>1
      <4> QED
        BY <4>2, Zenon DEF m, n
    <3> QED
      BY <3>2, <3>3, Zenon
  <2>7. ASSUME NEW y
        PROVE  y \in Range(x.new_chunks) <=> \E j \in 1 .. k + 1 : y = cs[j] /\ b(y) \notin h
    <3>1. (\E j \in 1 .. k + 1 : y = cs[j] /\ b(y) \notin h)
             <=> (\E j \in 1 .. k : y = cs[j] /\ b(y) \notin h) \/ (y = c /\ b(y) \notin h)
      BY <1>4, Zenon
    <3> QED
      BY <1>9, <1>7, <2>1, <3>1, Zenon
  <2>8. ASSUME NEW y
        PROVE  y \in Range(x.existing_chunks) <=> \E j \in 1 .. k + 1 : y = cs[j] /\ b(y) \in h
    <3>1. (\E j \in 1 .. k + 1 : y = cs[j] /\ b(y) \in h)
             <=> (\E j \in 1 .. k : y = cs[j] /\ b(y) \in h) \/ (y = c /\ b(y) \in h)
      BY <1>4, Zenon
    <3> QED
      BY <1>9, <1>7, <2>3, <3>1, Zenon
  <2> QED
    BY <2>1, <2>5, <2>6, <2>7, <2>8 DEF Divided, x, c, b, now
<1> QED
  BY <1>8, <1>9

(* The DeltaInfo of a file that its chunks tile.                           *)
LEMMA DividedAll ==
    ASSUME NEW d \in Seq(Byte), NEW h, NEW cs, Tiles(d, cs)
    PROVE  Divided(DivideAt(d, h, cs)[DOMAIN cs], d, h, cs, Len(cs))
<1> DEFINE A(k) == DivideAt(d, h, cs)[1 .. k]
           T == {k \in Nat : k <= Len(cs) => Divided(A(k), d, h, cs, k)}
<1>0. Len(cs) \in Nat /\ cs \in Seq(Chunk) /\ DOMAIN cs = 1 .. Len(cs)
  BY DEF Tiles
<1>1. 0 \in T
  <2>1. A(0) = NoDelta
    BY <1>0, DivideSteps
  <2> HIDE DEF A
  <2> DEFINE f == [j \in DOMAIN NoDelta.new_chunks |-> bytesOf(d, NoDelta.new_chunks[j])]
  <2>2. f = <<>>
    BY DEF NoDelta
  <2> HIDE DEF f
  <2>3. FlattenSeq(f) = <<>>
    BY <2>2, FlattenEmpty
  <2>4. /\ NoDelta \in DeltaInfo /\ Range(NoDelta.new_chunks) = {}
        /\ Range(NoDelta.existing_chunks) = {} /\ NoDelta.bytes_to_transfer = 0
        /\ Len(NoDelta.new_chunks) + Len(NoDelta.existing_chunks) = 0
        /\ 1 .. 0 = {} /\ <<>> \in Seq(Byte) /\ Len(<<>>) = 0
    BY DEF NoDelta, DeltaInfo, Range
  <2>5. FlattenSeq(f) \in Seq(Byte) /\ Len(FlattenSeq(f)) = 0
    BY <2>3, <2>4
  <2>6. Divided(NoDelta, d, h, cs, 0)
    BY <2>4, <2>5 DEF Divided, f
  <2> QED
    BY <2>1, <2>6
<1>2. ASSUME NEW k \in Nat, k \in T PROVE k + 1 \in T
  <2> SUFFICES ASSUME k + 1 <= Len(cs) PROVE Divided(A(k + 1), d, h, cs, k + 1)
    OBVIOUS
  <2>1. k < Len(cs) /\ k <= Len(cs)
    BY <1>0
  <2>2. A(k + 1) = Divide(d, h, A(k), cs[k + 1])
    BY <1>0, <2>1, DivideSteps
  <2> HIDE DEF A
  <2>3. Divided(A(k), d, h, cs, k)
    BY <1>2, <2>1
  <2> QED
    BY <2>1, <2>2, <2>3, DividedStep
<1>3. Len(cs) \in T
  <2> HIDE DEF T
  <2> QED
    BY <1>0, <1>1, <1>2, Induction
<1> QED
  BY <1>0, <1>3
(* The first m chunks are m different ones.                                *)
LEMMA CountFirst ==
    ASSUME NEW d \in Seq(Byte), NEW cs, Tiles(d, cs), NEW m \in 0 .. Len(cs)
    PROVE  Cardinality({cs[j] : j \in 1 .. m}) = m
<1> DEFINE S == 1 .. m
           U == {cs[j] : j \in S}
           f == [j \in S |-> cs[j]]
<1>0. Len(cs) \in Nat /\ m \in Nat /\ S \subseteq 1 .. Len(cs)
  BY DEF Tiles
<1>1. \A j, k \in S : cs[j] = cs[k] => j = k
  <2>1. \A j, k \in 1 .. Len(cs) : cs[j].offset < cs[k].offset <=> j < k
    BY TilesOrdered
  <2>2. SUFFICES ASSUME NEW j \in S, NEW k \in S, cs[j] = cs[k] PROVE j = k
    OBVIOUS
  <2>3. ~(cs[j].offset < cs[k].offset) /\ ~(cs[k].offset < cs[j].offset)
    <3>1. j \in 1 .. Len(cs) /\ k \in 1 .. Len(cs)
      BY <1>0
    <3>2. cs[j].offset \in Nat
      BY <3>1, EndIs DEF Chunk
    <3> QED
      BY <2>2, <3>2
  <2> QED
    BY <1>0, <2>1, <2>3
<1>2. f \in Bijection(S, U)
  <2>1. f \in [S -> U]
    OBVIOUS
  <2> HIDE DEF S
  <2>2. f \in Injection(S, U)
    BY <1>1, <2>1 DEF Injection, IsInjective
  <2>3. f \in Surjection(S, U)
    BY <2>1 DEF Surjection
  <2> QED
    BY <2>2, <2>3 DEF Bijection
<1>3. IsFiniteSet(S) /\ Cardinality(S) = m
  BY <1>0, FS_Interval
<1>4. ExistsBijection(S, U)
  BY <1>2 DEF ExistsBijection
<1> HIDE DEF S, U
<1>5. Cardinality(U) = m
  BY <1>3, <1>4, FS_Bijection
<1> QED
  BY <1>5 DEF S, U

(* Counted by their offsets, the chunks have the indexes of the file.      *)
LEMMA IndexIs ==
    ASSUME NEW d \in Seq(Byte), NEW cs, Tiles(d, cs)
    PROVE  /\ Cardinality(Range(cs)) = Len(cs)
           /\ \A k \in 1 .. Len(cs) :
                 Cardinality({x \in Range(cs) : x.offset < cs[k].offset}) = k - 1
           /\ \A j, k \in 1 .. Len(cs) : cs[j] = cs[k] => j = k
<1>0. Len(cs) \in Nat /\ DOMAIN cs = 1 .. Len(cs)
  BY DEF Tiles
<1>1. Cardinality(Range(cs)) = Len(cs)
  <2>1. Range(cs) = {cs[j] : j \in 1 .. Len(cs)} /\ Len(cs) \in 0 .. Len(cs)
    BY <1>0 DEF Range
  <2> QED
    BY <2>1, CountFirst
<1>2. \A j, k \in 1 .. Len(cs) : cs[j].offset < cs[k].offset <=> j < k
  BY TilesOrdered
<1>3. ASSUME NEW k \in 1 .. Len(cs)
      PROVE  Cardinality({x \in Range(cs) : x.offset < cs[k].offset}) = k - 1
  <2>1. {x \in Range(cs) : x.offset < cs[k].offset} = {cs[j] : j \in 1 .. k - 1}
    <3>1. \A j \in 1 .. k - 1 : j \in 1 .. Len(cs) /\ j < k
      BY <1>0
    <3>2. \A j \in 1 .. Len(cs) : j < k => j \in 1 .. k - 1
      BY <1>0
    <3>3. ASSUME NEW x PROVE x \in Range(cs) /\ x.offset < cs[k].offset
                               <=> \E j \in 1 .. k - 1 : x = cs[j]
      <4>1. x \in Range(cs) <=> \E j \in 1 .. Len(cs) : x = cs[j]
        BY <1>0, Zenon DEF Range
      <4> QED
        BY <1>2, <3>1, <3>2, <4>1
    <3> QED
      BY <3>3
  <2>2. k - 1 \in 0 .. Len(cs)
    BY <1>0
  <2> QED
    BY <2>1, <2>2, CountFirst
<1>4. ASSUME NEW j \in 1 .. Len(cs), NEW k \in 1 .. Len(cs), cs[j] = cs[k] PROVE j = k
  <2>1. Cardinality({x \in Range(cs) : x.offset < cs[j].offset}) = j - 1
    BY <1>3
  <2>2. Cardinality({x \in Range(cs) : x.offset < cs[k].offset}) = k - 1
    BY <1>3
  <2>3. j - 1 = k - 1
    BY <1>4, <2>1, <2>2
  <2> QED
    BY <1>0, <2>3
<1> QED
  BY <1>1, <1>3, <1>4

(* What the client knows when the chunks have been divided.                *)
Compared ==
    phase \in {"send", "answered"} => Divided(delta, data, server_hashes, chunks, Len(chunks))

(* The two lists hold the chunks of the file, and indexOf is their place   *)
(* in it.                                                                  *)
LEMMA IndexOf ==
    ASSUME IndInv, Whole, Chunked, Compared, phase \in {"send", "answered"}
    PROVE  /\ AllChunks = Range(chunks) /\ Cardinality(AllChunks) = Len(chunks)
           /\ \A k \in 1 .. Len(chunks) : chunks[k] \in AllChunks /\ indexOf(chunks[k]) = k - 1
           /\ \A c \in AllChunks : \E k \in 1 .. Len(chunks) : c = chunks[k]
           /\ \A j, k \in 1 .. Len(chunks) : chunks[j] = chunks[k] => j = k
           /\ data \in Seq(Byte) /\ Tiles(data, chunks) /\ Len(chunks) \in Nat
           /\ Len(chunks) <= MaxLen /\ MaxLen \in Nat
<1>1. data \in Seq(Byte) /\ Tiles(data, chunks) /\ MaxLen \in Nat
  BY ChunkerAssumption DEF IndInv, TypeOK, Whole, Chunked
<1>2. Len(chunks) \in Nat /\ DOMAIN chunks = 1 .. Len(chunks)
  BY <1>1 DEF Tiles
<1>3. Len(chunks) <= MaxLen
  <2>1. Len(chunks) <= Len(data) /\ Len(data) <= MaxLen /\ Len(data) \in Nat
    BY <1>1, TilesOrdered DEF Whole
  <2> QED
    BY <1>1, <1>2, <2>1
<1>4. AllChunks = Range(chunks)
  <2>1. ASSUME NEW c PROVE c \in AllChunks <=> \E j \in 1 .. Len(chunks) : c = chunks[j]
    <3>1. /\ c \in Range(delta.new_chunks) <=>
                \E j \in 1 .. Len(chunks) : c = chunks[j] /\ bytesOf(data, c) \notin server_hashes
          /\ c \in Range(delta.existing_chunks) <=>
                \E j \in 1 .. Len(chunks) : c = chunks[j] /\ bytesOf(data, c) \in server_hashes
      BY Zenon DEF Compared, Divided
    <3> QED
      BY <3>1, Zenon DEF AllChunks
  <2>2. \A c : c \in Range(chunks) <=> \E j \in 1 .. Len(chunks) : c = chunks[j]
    BY <1>2, Zenon DEF Range
  <2> QED
    BY <2>1, <2>2
<1>5. /\ Cardinality(Range(chunks)) = Len(chunks)
      /\ \A k \in 1 .. Len(chunks) :
            Cardinality({x \in Range(chunks) : x.offset < chunks[k].offset}) = k - 1
      /\ \A j, k \in 1 .. Len(chunks) : chunks[j] = chunks[k] => j = k
  BY <1>1, IndexIs
<1>6. \A k \in 1 .. Len(chunks) : indexOf(chunks[k]) = k - 1
  BY <1>4, <1>5, Zenon DEF indexOf
<1>7. /\ \A k \in 1 .. Len(chunks) : chunks[k] \in Range(chunks)
      /\ \A c \in Range(chunks) : \E k \in 1 .. Len(chunks) : c = chunks[k]
  BY <1>2, Zenon DEF Range
<1> QED
  BY <1>1, <1>2, <1>3, <1>4, <1>5, <1>6, <1>7, Zenon
(* Until the client asks again, the DeltaInfo is that of the file.         *)
LEMMA ComparedStep ==
    ASSUME IndInv, Whole, Chunked, Compared, [DeltaNext]_dvars
    PROVE  Compared'
<1>1. CASE Ask(OpenFails) \/ \E d \in Inputs : Ask(ChunkData(d))
  BY <1>1 DEF Ask, Compared
<1>2. CASE Chunking
  BY <1>2 DEF Chunking, ScanByte, Return, client, Chunked, Compared
<1>3. CASE ComputeDelta
  <2>1. data \in Seq(Byte) /\ Tiles(data, chunks)
    BY <1>3 DEF ComputeDelta, IndInv, TypeOK, Whole
  <2>2. delta' = DivideAt(data, server_hashes, chunks)[DOMAIN chunks]
    BY <1>3, DeltaIsFold DEF ComputeDelta
  <2>3. Divided(delta', data, server_hashes, chunks, Len(chunks))
    BY <2>1, <2>2, DividedAll
  <2>4. data' = data /\ server_hashes' = server_hashes /\ chunks' = chunks
    BY <1>3 DEF ComputeDelta, vars, locals
  <2> QED
    BY <2>3, <2>4 DEF Compared
<1>4. CASE SendChunk \/ Finalize
  BY <1>4 DEF SendChunk, Finalize, vars, locals, Compared
<1>5. ASSUME NEW d \in Inputs, OtherUploads(d) PROVE Compared'
  BY <1>5 DEF OtherUploads, vars, locals, Compared
<1>6. CASE UNCHANGED dvars
  BY <1>6 DEF dvars, vars, locals, client, Compared
<1> QED
  BY <1>1, <1>2, <1>3, <1>4, <1>5, <1>6 DEF DeltaNext

LEMMA ComparedInvariant == DeltaSpec => [](IndInv /\ Whole /\ Chunked /\ Compared)
<1>1. DeltaInit => Compared
  BY DEF DeltaInit, Compared
<1>2. IndInv /\ Whole /\ Chunked /\ Compared /\ [DeltaNext]_dvars => Compared'
  BY ComparedStep
<1> QED
  BY <1>1, <1>2, ChunkedInvariant, PTL DEF DeltaSpec

(* For every file and whatever the server has, computeDelta loses no byte: *)
(* the chunks of its two lists, put at the indexes the client gives them,  *)
(* are the file, those not sent are known to the server, and               *)
(* bytes_to_transfer is the length of the others.                          *)
THEOREM DeltaLosesNothing == DeltaSpec => []DeltaRebuilds
<1>1. IndInv /\ Whole /\ Chunked /\ Compared => DeltaRebuilds
  <2> SUFFICES ASSUME IndInv, Whole, Chunked, Compared, phase = "send" PROVE DeltaRebuilds
    BY DEF DeltaRebuilds
  <2> DEFINE part(c) == bytesOf(data, c)
             N == Len(chunks)
             at(k) == CHOOSE c \in AllChunks : indexOf(c) = k - 1
  <2>1. /\ Cardinality(AllChunks) = N
        /\ \A k \in 1 .. N : chunks[k] \in AllChunks /\ indexOf(chunks[k]) = k - 1
        /\ \A c \in AllChunks : \E k \in 1 .. N : c = chunks[k]
        /\ data \in Seq(Byte) /\ Tiles(data, chunks) /\ N \in Nat
    BY IndexOf
  <2>2. ASSUME NEW k \in 1 .. N PROVE at(k) = chunks[k]
    <3>1. \E c \in AllChunks : indexOf(c) = k - 1
      BY <2>1
    <3>2. at(k) \in AllChunks /\ indexOf(at(k)) = k - 1
      BY <3>1, Zenon
    <3> HIDE DEF at
    <3>3. PICK j \in 1 .. N : at(k) = chunks[j]
      BY <2>1, <3>2
    <3>4. j - 1 = k - 1
      BY <2>1, <3>2, <3>3
    <3>5. j = k
      BY <3>4
    <3> QED
      BY <3>3, <3>5
  <2>3. FlattenSeq([k \in 1 .. N |-> part(at(k))]) = data
    <3>1. [k \in 1 .. N |-> part(at(k))] = [k \in 1 .. N |-> bytesOf(data, chunks[k])]
      <4> HIDE DEF at, N
      <4>1. \A k \in 1 .. N : part(at(k)) = bytesOf(data, chunks[k])
        BY <2>2
      <4> HIDE DEF part
      <4> QED
        BY <4>1
    <3>2. N \in 0 .. N /\ End(chunks, N) = Len(data)
      BY <2>1, EndIs
    <3>3. FlattenSeq([k \in 1 .. N |-> bytesOf(data, chunks[k])]) = SubSeq(data, 1, Len(data))
      BY <2>1, <3>2, FirstChunks
    <3>4. SubSeq(data, 1, Len(data)) = data
      BY <2>1
    <3> HIDE DEF at, part, N
    <3> QED
      BY <3>1, <3>3, <3>4, Zenon
  <2>4. /\ Len(delta.new_chunks) + Len(delta.existing_chunks) = N
        /\ delta.bytes_to_transfer =
              Len(FlattenSeq([k \in DOMAIN delta.new_chunks |-> part(delta.new_chunks[k])]))
    BY DEF Compared, Divided
  <2>5. ASSUME NEW c \in Range(delta.existing_chunks) PROVE part(c) \in server_hashes
    BY Zenon DEF Compared, Divided
  <2>6. FlattenSeq([k \in 1 .. Cardinality(AllChunks) |-> part(at(k))]) = data
    <3> HIDE DEF at, part, N
    <3> QED
      BY <2>1, <2>3, Zenon
  <2> QED
    BY <2>4, <2>5, <2>6, Zenon DEF DeltaRebuilds
<1> QED
  BY <1>1, ComparedInvariant, PTL
-----------------------------------------------------------------------------
(* The upload                                                              *)

(* The chunk with index k is among those sent so far.                      *)
Replaced(k) ==
    k < Len(chunks) /\ \E j \in 1 .. sent : delta.new_chunks[j] = chunks[k + 1]

(* While no other device uploads, the rows are those the client asked for, *)
(* but for the chunks it has sent; the answer was given for these rows.    *)
RowsSent ==
    \A k \in Indexes :
       rows.file[k] = IF Replaced(k) THEN bytesOf(data, chunks[k + 1]) ELSE base[k]

Tables == DOMAIN rows = {"file"} /\ DOMAIN rows.file = Indexes /\ DOMAIN base = Indexes

Sending ==
    /\ Tables
    /\ others \in Nat /\ seen \in Nat /\ seen <= others
    /\ phase = "chunk" => sent = 0 /\ (others = seen => \A k \in Indexes : rows.file[k] = base[k])
    /\ phase \in {"send", "answered"} => sent \in 0 .. Len(delta.new_chunks)
    /\ phase \in {"send", "answered"} /\ others = seen => RowsSent
    /\ phase = "answered" /\ others = seen =>
          /\ success <=> accepts(rows.file, sent, Cardinality(AllChunks))
          /\ success => stored = Rebuilt(rows.file)

(* SendChunk replaces the row at the index of its chunk, and no other.     *)
LEMMA SendStep ==
    ASSUME IndInv, Whole, Chunked, Compared, Sending, SendChunk
    PROVE  Sending'
<1> DEFINE N == Len(chunks)
           new == delta.new_chunks
           c == new[sent + 1]
           b == bytesOf(data, c)
<1>1. /\ phase = "send" /\ phase' = "send" /\ sent' = sent + 1 /\ sent < Len(new)
      /\ rows' = [rows EXCEPT !["file"][indexOf(c)] = b]
      /\ UNCHANGED <<data, chunks, stored, delta, success, base, others, seen>>
  BY DEF SendChunk, vars, locals, insertChunk
<1>2. /\ \A k \in 1 .. N : chunks[k] \in AllChunks /\ indexOf(chunks[k]) = k - 1
      /\ \A x \in AllChunks : \E k \in 1 .. N : x = chunks[k]
      /\ \A j, k \in 1 .. N : chunks[j] = chunks[k] => j = k
      /\ N \in Nat /\ N <= MaxLen /\ MaxLen \in Nat
  BY <1>1, IndexOf
<1>3. new \in Seq(Chunk) /\ Len(new) \in Nat /\ sent \in Nat /\ DOMAIN new = 1 .. Len(new)
  BY <1>1 DEF Sending, Compared, Divided, DeltaInfo
<1>4. c \in AllChunks
  <2>1. sent + 1 \in DOMAIN new
    BY <1>1, <1>3
  <2> QED
    BY <2>1, Zenon DEF AllChunks, Range
<1>5. PICK m \in 1 .. N : c = chunks[m]
  BY <1>2, <1>4
<1>6. indexOf(c) = m - 1 /\ m - 1 \in Indexes
  BY <1>2, <1>5 DEF Indexes
<1> HIDE DEF c, b, N, new
<1>7. Tables' /\ \A k \in Indexes : rows'.file[k] = IF k = m - 1 THEN b ELSE rows.file[k]
  <2>1. "file" \in DOMAIN rows /\ m - 1 \in DOMAIN rows.file
    BY <1>6 DEF Sending, Tables
  <2>2. rows'.file = [rows.file EXCEPT ![m - 1] = b] /\ DOMAIN rows' = DOMAIN rows
    BY <1>1, <1>6, <2>1
  <2> QED
    BY <1>1, <2>1, <2>2 DEF Sending, Tables
<1>8. ASSUME others = seen PROVE RowsSent'
  <2>1. RowsSent
    BY <1>1, <1>8 DEF Sending
  <2>2. ASSUME NEW k \in Indexes
        PROVE  rows'.file[k] = IF Replaced(k)' THEN bytesOf(data, chunks[k + 1])' ELSE base[k]'
    <3>1. k \in Nat /\ (k < N => k + 1 \in 1 .. N)
      BY <1>2 DEF Indexes
    <3>2. Replaced(k)' <=> Replaced(k) \/ (k < N /\ c = chunks[k + 1])
      <4>1. \A j : j \in 1 .. sent + 1 <=> j \in 1 .. sent \/ j = sent + 1
        BY <1>3
      <4> QED
        BY <1>1, <4>1, Zenon DEF Replaced, N, c, new
    <3>3. k < N /\ c = chunks[k + 1] <=> k = m - 1
      BY <1>2, <1>5, <3>1
    <3>4. rows'.file[k] = IF k = m - 1 THEN b ELSE rows.file[k]
      BY <1>7
    <3>5. rows.file[k] = IF Replaced(k) THEN bytesOf(data, chunks[k + 1]) ELSE base[k]
      BY <2>1 DEF RowsSent
    <3>6. k = m - 1 => b = bytesOf(data, chunks[k + 1])
      BY <3>3 DEF b
    <3> QED
      BY <1>1, <3>2, <3>3, <3>4, <3>5, <3>6, Zenon
  <2> QED
    BY <2>2 DEF RowsSent, Indexes
<1>9. sent' \in 0 .. Len(delta.new_chunks)'
  BY <1>1, <1>3 DEF new
<1> QED
  BY <1>1, <1>7, <1>8, <1>9 DEF Sending
(* The other steps keep the rows in the same relation to the chunks sent.  *)
LEMMA SendingStep ==
    ASSUME IndInv, Whole, Chunked, Compared, Sending, [DeltaNext]_dvars
    PROVE  Sending'
<1>1. CASE Ask(OpenFails) \/ \E d \in Inputs : Ask(ChunkData(d))
  <2>1. /\ phase' = "chunk" /\ sent' = 0 /\ base' = rows.file /\ seen' = others
        /\ rows' = rows /\ others' = others
    BY <1>1 DEF Ask, server
  <2> QED
    BY <2>1 DEF Sending, Tables, Indexes
<1>2. CASE Chunking
  <2>1. pc = "scan" /\ UNCHANGED <<server, client>>
    BY <1>2 DEF Chunking, ScanByte, Return
  <2>2. phase = "chunk" /\ phase' = "chunk" /\ UNCHANGED <<rows, base, sent, others, seen>>
    BY <2>1 DEF Chunked, server, client
  <2> QED
    BY <2>2 DEF Sending, Tables, Indexes
<1>3. CASE ComputeDelta
  <2>1. /\ phase = "chunk" /\ phase' = "send"
        /\ UNCHANGED <<data, chunks, rows, base, sent, others, seen>>
    BY <1>3 DEF ComputeDelta, vars, locals, server
  <2>2. Compared'
    BY <1>3, ComparedStep DEF DeltaNext
  <2>3. sent = 0 /\ sent' \in 0 .. Len(delta.new_chunks)'
    <3>1. Len(delta.new_chunks)' \in Nat
      BY <2>1, <2>2 DEF Compared, Divided, DeltaInfo
    <3> QED
      BY <2>1, <3>1 DEF Sending
  <2>4. \A k : ~Replaced(k)'
    BY <2>1, <2>3 DEF Replaced
  <2>5. others = seen => RowsSent'
    BY <2>1, <2>4 DEF Sending, RowsSent, Indexes
  <2> QED
    BY <2>1, <2>3, <2>5 DEF Sending, Tables, Indexes
<1>4. CASE SendChunk
  BY <1>4, SendStep
<1>5. CASE Finalize
  <2>1. /\ phase = "send" /\ phase' = "answered"
        /\ UNCHANGED <<data, chunks, rows, base, sent, delta, others, seen>>
        /\ success' = accepts(rows.file, sent, Cardinality(AllChunks))
        /\ success' => stored' = Rebuilt(rows.file)
    BY <1>5 DEF Finalize, vars, locals
  <2>2. AllChunks' = AllChunks
    BY <2>1 DEF AllChunks
  <2>3. others = seen => RowsSent'
    BY <2>1 DEF Sending, RowsSent, Replaced, Indexes
  <2>4. /\ success' <=> accepts(rows.file, sent, Cardinality(AllChunks))'
        /\ success' => stored' = Rebuilt(rows.file)'
    BY <2>1, <2>2, Zenon
  <2> QED
    BY <2>1, <2>3, <2>4 DEF Sending, Tables, Indexes
<1>6. ASSUME NEW d \in Inputs, OtherUploads(d) PROVE Sending'
  <2> DEFINE all == ChunksOf(d)
             table == [k \in Indexes |-> IF k < Len(all) THEN bytesOf(d, all[k + 1])
                                         ELSE rows.file[k]]
  <2>1. rows' = [rows EXCEPT !["file"] = table] /\ DOMAIN table = Indexes
    BY <1>6, Zenon DEF OtherUploads
  <2> HIDE DEF all, table
  <2>2. others' = others + 1 /\ UNCHANGED <<phase, delta, sent, base, seen>>
    BY <1>6 DEF OtherUploads
  <2>3. Tables'
    BY <2>1, <2>2 DEF Sending, Tables, Indexes
  <2>4. others' \in Nat /\ seen' \in Nat /\ seen' <= others' /\ others' # seen'
    BY <2>2 DEF Sending
  <2> QED
    BY <2>2, <2>3, <2>4 DEF Sending
<1>7. CASE UNCHANGED dvars
  <2>1. UNCHANGED <<data, chunks, rows, stored, phase, delta, sent, success, base, others, seen>>
    BY <1>7 DEF dvars, vars, locals, server, client
  <2>2. (RowsSent' <=> RowsSent) /\ AllChunks' = AllChunks /\ (Tables' <=> Tables)
    BY <2>1 DEF RowsSent, Replaced, Indexes, AllChunks, Tables
  <2> QED
    BY <2>1, <2>2 DEF Sending, Indexes
<1> QED
  BY <1>1, <1>2, <1>3, <1>4, <1>5, <1>6, <1>7 DEF DeltaNext

LEMMA SendingInvariant ==
    DeltaSpec => [](IndInv /\ Whole /\ Chunked /\ Compared /\ Sending)
<1>1. DeltaInit => Sending
  <2> SUFFICES ASSUME DeltaInit PROVE Sending
    OBVIOUS
  <2>1. rows.file = [k \in Indexes |-> NoRow] /\ DOMAIN rows = {"file"}
    BY DEF DeltaInit
  <2>2. base = rows.file /\ others = 0 /\ seen = 0 /\ phase = "idle"
    BY DEF DeltaInit
  <2> QED
    BY <2>1, <2>2 DEF Sending, Tables
<1>2. /\ IndInv /\ Whole /\ Chunked /\ Compared /\ Sending
      /\ [DeltaNext]_dvars
      => Sending'
  BY SendingStep
<1> QED
  BY <1>1, <1>2, ComparedInvariant, PTL DEF DeltaSpec

(* Of m byte sequences, those after the n-th are empty.                    *)
EmptyAfter(f, n, m) ==
    f \in [1 .. m -> Seq(Byte)] /\ \A k \in 1 .. m : k > n => f[k] = <<>>

FirstOf(f, n) == [k \in 1 .. n |-> f[k]]

(* Nothing is written where there is no row.                               *)
LEMMA FlattenTrailing ==
    ASSUME NEW n \in Nat, NEW m \in Nat, n <= m, NEW f, EmptyAfter(f, n, m)
    PROVE  FlattenSeq(f) = FlattenSeq(FirstOf(f, n))
<1> DEFINE S == Byte
           first(p) == [k \in 1 .. p |-> f[k]]
           T == {p \in Nat : n <= p /\ p <= m =>
                   FlattenSeq(first(p)) = FlattenSeq(first(n)) /\ FlattenSeq(first(p)) \in Seq(S)}
           U == {p \in Nat : p <= m => FlattenSeq(first(p)) \in Seq(S)}
<1>0. f \in [1 .. m -> Seq(S)] /\ \A k \in 1 .. m : k > n => f[k] = <<>>
  BY DEF EmptyAfter
<1> HIDE DEF S
<1>1. ASSUME NEW p \in Nat, p + 1 <= m
      PROVE  /\ FlattenSeq(first(p + 1)) = FlattenSeq(first(p)) \o f[p + 1]
             /\ f[p + 1] \in Seq(S)
  <2>1. f[p + 1] \in Seq(S) /\ first(p) \in Seq(Seq(S)) /\ Len(first(p)) = p
    BY <1>0, <1>1
  <2>2. first(p + 1) = Append(first(p), f[p + 1])
    BY <1>1, <2>1
  <2> HIDE DEF first
  <2> QED
    BY <2>1, <2>2, FlattenAppend
<1>2. FlattenSeq(first(0)) = <<>>
  <2>1. first(0) = <<>>
    OBVIOUS
  <2> HIDE DEF first
  <2> QED
    BY <2>1, FlattenEmpty
<1> HIDE DEF first
<1>3. \A p \in Nat : p \in U
  <2>1. 0 \in U
    <3>1. <<>> \in Seq(S)
      OBVIOUS
    <3>2. FlattenSeq(first(0)) \in Seq(S)
      BY <1>2, <3>1, Zenon
    <3> QED
      BY <3>2
  <2>2. ASSUME NEW p \in Nat, p \in U PROVE p + 1 \in U
    <3> SUFFICES ASSUME p + 1 <= m PROVE FlattenSeq(first(p + 1)) \in Seq(S)
      OBVIOUS
    <3>1. FlattenSeq(first(p)) \in Seq(S)
      BY <2>2
    <3> QED
      <4>1. /\ FlattenSeq(first(p + 1)) = FlattenSeq(first(p)) \o f[p + 1]
            /\ f[p + 1] \in Seq(S)
        BY <1>1
      <4>2. FlattenSeq(first(p)) \o f[p + 1] \in Seq(S)
        BY <3>1, <4>1, ConcatProperties
      <4> QED
        BY <4>1, <4>2, Zenon
  <2> HIDE DEF U
  <2> QED
    BY <2>1, <2>2, Induction
<1>4. 0 \in T
  <2>1. n <= 0 => n = 0
    OBVIOUS
  <2>2. 0 <= m => FlattenSeq(first(0)) \in Seq(S)
    BY <1>3
  <2> QED
    BY <2>1, <2>2
<1>5. ASSUME NEW p \in Nat, p \in T PROVE p + 1 \in T
  <2> SUFFICES ASSUME n <= p + 1, p + 1 <= m
               PROVE  FlattenSeq(first(p + 1)) = FlattenSeq(first(n))
    BY <1>3
  <2>1. CASE n = p + 1
    BY <2>1
  <2>2. CASE n # p + 1
    <3>1. n <= p /\ p <= m /\ p + 1 > n /\ p + 1 \in 1 .. m
      BY <2>2
    <3>2. FlattenSeq(first(p)) = FlattenSeq(first(n)) /\ FlattenSeq(first(p)) \in Seq(S)
      BY <1>5, <3>1
    <3>3. f[p + 1] = <<>>
      BY <1>0, <3>1
    <3> QED
      BY <1>1, <3>2, <3>3, ConcatEmptySeq
  <2> QED
    BY <2>1, <2>2
<1>6. m \in T
  <2> HIDE DEF T
  <2> QED
    BY <1>4, <1>5, Induction
<1>7. f = first(m)
  BY <1>0 DEF first
<1> QED
  <2>1. FlattenSeq(first(m)) = FlattenSeq(first(n))
    BY <1>6
  <2> QED
    BY <1>7, <2>1, Zenon DEF first, FirstOf

(* When all new chunks were sent and the others were in place, the rows of *)
(* the file's indexes are its chunks, and the others are as they were.     *)
LEMMA RowsOfFile ==
    ASSUME IndInv, Whole, Chunked, Compared, Sending, phase = "answered",
           sent = Len(delta.new_chunks), InPlace, others = seen
    PROVE  \A k \in Indexes :
              /\ k < Len(chunks) => rows.file[k] = bytesOf(data, chunks[k + 1])
              /\ ~(k < Len(chunks)) => rows.file[k] = base[k]
<1> DEFINE N == Len(chunks)
<1>1. /\ \A k \in 1 .. N : chunks[k] \in AllChunks /\ indexOf(chunks[k]) = k - 1
      /\ N \in Nat
  BY IndexOf
<1>2. \A k \in Indexes :
         rows.file[k] = IF Replaced(k) THEN bytesOf(data, chunks[k + 1]) ELSE base[k]
  BY DEF Sending, RowsSent
<1>3. ASSUME NEW k \in Indexes, ~(k < N) PROVE rows.file[k] = base[k]
  BY <1>2, <1>3 DEF Replaced
<1>4. ASSUME NEW k \in Indexes, k < N PROVE rows.file[k] = bytesOf(data, chunks[k + 1])
  <2> DEFINE c == chunks[k + 1]
  <2>1. k + 1 \in 1 .. N /\ (k + 1) - 1 = k
    BY <1>1, <1>4 DEF Indexes
  <2>2. c \in AllChunks /\ indexOf(c) = k
    BY <1>1, <2>1
  <2>3. CASE c \in Range(delta.new_chunks)
    <3>1. DOMAIN delta.new_chunks = 1 .. sent
      BY DEF Compared, Divided, DeltaInfo
    <3>2. PICK j \in 1 .. sent : delta.new_chunks[j] = c
      BY <2>3, <3>1, Zenon DEF Range
    <3>3. Replaced(k)
      BY <1>4, <3>2 DEF Replaced
    <3> QED
      BY <1>2, <3>3
  <2>4. CASE c \in Range(delta.existing_chunks)
    <3>1. base[k] = bytesOf(data, c)
      BY <2>2, <2>4 DEF InPlace
    <3> QED
      BY <1>2, <3>1
  <2> QED
    BY <2>2, <2>3, <2>4 DEF AllChunks
<1> QED
  BY <1>3, <1>4

(* For every file, every table the server may have and any uploads before, *)
(* an upload of all new chunks that no other device disturbs stores the    *)
(* file when it is acknowledged, and is refused only when nothing was sent *)
(* or a row of a longer file before is left.                               *)
THEOREM DeltaUploadStores == DeltaSpec => []DeltaUploadStored
<1>1. IndInv /\ Whole /\ Chunked /\ Compared /\ Sending => DeltaUploadStored
  <2> SUFFICES ASSUME IndInv, Whole, Chunked, Compared, Sending, phase = "answered",
                      sent = Len(delta.new_chunks), InPlace, others = seen
               PROVE  IF success THEN stored = data
                      ELSE sent = 0 \/ \E k \in Present(base) : k >= Len(chunks)
    BY DEF DeltaUploadStored
  <2> DEFINE N == Len(chunks)
             t == rows.file
             P == Present(t)
             I == 0 .. N - 1
  <2>1. /\ Cardinality(AllChunks) = N /\ data \in Seq(Byte) /\ Tiles(data, chunks)
        /\ N \in Nat /\ N <= MaxLen /\ MaxLen \in Nat
    BY IndexOf
  <2>2. \A k \in Indexes : /\ k < N => t[k] = bytesOf(data, chunks[k + 1])
                           /\ ~(k < N) => t[k] = base[k]
    BY RowsOfFile
  <2>3. \A k \in 1 .. N : bytesOf(data, chunks[k]) \in Seq(Byte)
    BY <2>1, BytesOf
  <2>4. DOMAIN t = Indexes /\ DOMAIN base = Indexes /\ sent \in Nat
    BY DEF Sending, Tables
  <2>5. /\ success <=> (sent > 0 /\ Cardinality(P) = N)
        /\ success => stored = Rebuilt(t)
    BY <2>1 DEF Sending, accepts
  <2> HIDE DEF t, N
  <2>6. I \subseteq P /\ P \subseteq Indexes
    <3>1. ASSUME NEW k \in I PROVE k \in P
      <4>1. k \in Indexes /\ k < N /\ k + 1 \in 1 .. N
        BY <2>1 DEF Indexes
      <4>2. t[k] \in Seq(Byte)
        BY <2>2, <2>3, <4>1
      <4> QED
        BY <2>4, <4>1, <4>2, DeltaAssumption DEF Present
    <3> QED
      BY <2>4, <3>1 DEF Present
  <2>7. IsFiniteSet(P) /\ Cardinality(I) = N /\ IsFiniteSet(I)
    <3>1. IsFiniteSet(Indexes)
      BY <2>1, FS_Interval DEF Indexes
    <3>2. IsFiniteSet(P)
      BY <2>6, <3>1, FS_Subset
    <3>3. Cardinality(I) = IF 0 > N - 1 THEN 0 ELSE (N - 1) - 0 + 1
      BY <2>1, FS_Interval
    <3>4. IsFiniteSet(I)
      BY <2>1, FS_Interval
    <3> QED
      BY <2>1, <3>2, <3>3, <3>4
  <2>8. CASE success
    <3>1. P = I
      BY <2>5, <2>6, <2>7, <2>8, FS_Subset
    <3> DEFINE f == [n \in 1 .. MaxLen |-> IF t[n - 1] = NoRow THEN <<>> ELSE t[n - 1]]
    <3>2. ASSUME NEW k \in 1 .. MaxLen
          PROVE  f[k] = IF k <= N THEN bytesOf(data, chunks[k]) ELSE <<>>
      <4>1. k - 1 \in Indexes /\ (k - 1) + 1 = k /\ (k - 1 < N <=> k <= N)
        BY <2>1 DEF Indexes
      <4>2. k - 1 \in P <=> k <= N
        BY <2>1, <3>1, <4>1
      <4>3. t[k - 1] # NoRow <=> k <= N
        BY <2>4, <4>1, <4>2 DEF Present
      <4>4. k <= N => t[k - 1] = bytesOf(data, chunks[k])
        BY <2>2, <4>1
      <4>5. f[k] = IF t[k - 1] = NoRow THEN <<>> ELSE t[k - 1]
        OBVIOUS
      <4> HIDE DEF f
      <4> QED
        BY <4>3, <4>4, <4>5
    <3>3. Rebuilt(t) = FlattenSeq(f) /\ DOMAIN f = 1 .. MaxLen
      BY Zenon DEF Rebuilt
    <3> HIDE DEF f
    <3>4. f \in [1 .. MaxLen -> Seq(Byte)]
      <4>1. f = [k \in 1 .. MaxLen |-> f[k]]
        BY <3>3 DEF f
      <4>2. \A k \in 1 .. MaxLen : f[k] \in Seq(Byte)
        <5>1. <<>> \in Seq(Byte)
          OBVIOUS
        <5>2. \A k \in 1 .. MaxLen : k <= N => k \in 1 .. N
          BY <2>1
        <5> QED
          BY <2>3, <3>2, <5>1, <5>2, Zenon
      <4> QED
        BY <4>1, <4>2
    <3>5. \A k \in 1 .. MaxLen : k > N => f[k] = <<>>
      BY <2>1, <3>2
    <3>6. FlattenSeq(f) = FlattenSeq([k \in 1 .. N |-> f[k]])
      <4>1. N \in Nat /\ MaxLen \in Nat /\ N <= MaxLen
        BY <2>1
      <4>2. EmptyAfter(f, N, MaxLen)
        BY <3>4, <3>5, Zenon DEF EmptyAfter
      <4> QED
        BY <4>1, <4>2, FlattenTrailing, Zenon DEF FirstOf
    <3>7. [k \in 1 .. N |-> f[k]] = [k \in 1 .. N |-> bytesOf(data, chunks[k])]
      BY <2>1, <3>2
    <3>8. N \in 0 .. N /\ End(chunks, N) = Len(data)
      BY <2>1, EndIs DEF N
    <3>9. FlattenSeq([k \in 1 .. N |-> bytesOf(data, chunks[k])]) = SubSeq(data, 1, Len(data))
      BY <2>1, <3>8, FirstChunks DEF N
    <3>10. SubSeq(data, 1, Len(data)) = data
      BY <2>1
    <3>11. stored = data
      BY <2>5, <2>8, <3>3, <3>6, <3>7, <3>9, <3>10, Zenon
    <3> QED
      BY <2>8, <3>11
  <2>9. CASE ~success
    <3>1. CASE sent = 0
      BY <2>9, <3>1
    <3>2. CASE sent # 0
      <4>1. Cardinality(P) # N
        BY <2>4, <2>5, <2>9, <3>2
      <4>2. P # I
        BY <2>7, <4>1
      <4>3. PICK k \in P : k \notin I
        BY <2>6, <4>2
      <4>4. k \in Indexes /\ ~(k < N) /\ k >= N /\ t[k] # NoRow
        <5>1. k \in Indexes /\ t[k] # NoRow
          BY <2>4 DEF Present
        <5> QED
          BY <2>1, <4>3, <5>1 DEF Indexes
      <4>5. k \in Present(base)
        BY <2>2, <2>4, <4>4 DEF Present
      <4> QED
        BY <2>9, <4>4, <4>5 DEF N
    <3> QED
      BY <3>1, <3>2
  <2> QED
    BY <2>8, <2>9
<1> QED
  BY <1>1, SendingInvariant, PTL
-----------------------------------------------------------------------------
(* decompress                                                              *)

(* The rooms of the attempts, by the length of the input.                  *)
Rooms(n) == CHOOSE f : f = [k \in 0 .. MaxDoublings |-> IF k = 0 THEN 4 * n ELSE 2 * f[k - 1]]

LEMMA RoomIs == ASSUME NEW b PROVE roomOf(b) = Rooms(b.length)
BY DEF roomOf, Rooms

(* The recursive definition of the rooms has a solution.                   *)
LEMMA RoomsDef ==
    ASSUME NEW b
    PROVE  Rooms(b) = [k \in 0 .. MaxDoublings |-> IF k = 0 THEN 4 * b ELSE 2 * Rooms(b)[k - 1]]
<1> DEFINE Solves(f, k) == f = [n \in 0 .. k |-> IF n = 0 THEN 4 * b ELSE 2 * f[n - 1]]
           T == {k \in Nat : \E f : Solves(f, k)}
<1>1. 0 \in T
  <2> DEFINE f == [n \in 0 .. 0 |-> 4 * b]
  <2>1. Solves(f, 0)
    OBVIOUS
  <2> HIDE DEF f, Solves
  <2> QED
    BY <2>1
<1>2. ASSUME NEW k \in Nat, k \in T PROVE k + 1 \in T
  <2>1. PICK f : Solves(f, k)
    BY <1>2
  <2> DEFINE g == [n \in 0 .. k + 1 |-> IF n = k + 1 THEN 2 * f[k] ELSE f[n]]
  <2>2. ASSUME NEW n \in 0 .. k + 1
        PROVE  g[n] = IF n = 0 THEN 4 * b ELSE 2 * g[n - 1]
    <3>1. CASE n = k + 1
      <4>1. n # 0 /\ n - 1 = k /\ k \in 0 .. k + 1 /\ k # k + 1
        BY <3>1
      <4> QED
        BY <3>1, <4>1
    <3>2. CASE n # k + 1
      <4>1. n \in 0 .. k /\ g[n] = f[n]
        BY <3>2
      <4>2. n # 0 => n - 1 \in 0 .. k + 1 /\ n - 1 # k + 1
        OBVIOUS
      <4>3. n # 0 => g[n - 1] = f[n - 1]
        BY <4>2
      <4>4. f[n] = IF n = 0 THEN 4 * b ELSE 2 * f[n - 1]
        BY <2>1, <4>1
      <4> HIDE DEF g
      <4> QED
        BY <4>1, <4>3, <4>4
    <3> QED
      BY <3>1, <3>2
  <2>3. Solves(g, k + 1)
    BY <2>2
  <2> HIDE DEF g, Solves
  <2> QED
    BY <2>3
<1>3. MaxDoublings \in T
  <2>1. MaxDoublings \in Nat
    BY CompressionAssumption
  <2> HIDE DEF T
  <2> QED
    BY <1>1, <1>2, <2>1, Induction
<1>4. PICK f : Solves(f, MaxDoublings)
  BY <1>3
<1> QED
  BY <1>4 DEF Rooms

(* An attempt has twice the room of the one before it, and at least four   *)
(* bytes more.                                                             *)
LEMMA RoomsGrow ==
    ASSUME NEW n \in Nat \ {0}, NEW m \in 0 .. MaxDoublings
    PROVE  /\ Rooms(n)[0] = 4 * n
           /\ m # 0 => Rooms(n)[m] = 2 * Rooms(n)[m - 1]
           /\ Rooms(n)[m] \in Nat /\ Rooms(n)[m] >= 4 * m + 4
<1> DEFINE R == Rooms(n)
           T == {k \in Nat : k <= MaxDoublings => R[k] \in Nat /\ R[k] >= 4 * k + 4}
<1>0. MaxDoublings \in Nat
  BY CompressionAssumption
<1>1. \A k \in 0 .. MaxDoublings : R[k] = IF k = 0 THEN 4 * n ELSE 2 * R[k - 1]
  <2>1. R = [k \in 0 .. MaxDoublings |-> IF k = 0 THEN 4 * n ELSE 2 * R[k - 1]]
    BY RoomsDef
  <2> HIDE DEF R
  <2> QED
    BY <2>1, Zenon
<1> HIDE DEF R
<1>2. 0 \in T
  BY <1>0, <1>1
<1>3. ASSUME NEW k \in Nat, k \in T PROVE k + 1 \in T
  <2> SUFFICES ASSUME k + 1 <= MaxDoublings PROVE R[k + 1] \in Nat /\ R[k + 1] >= 4 * (k + 1) + 4
    OBVIOUS
  <2>1. k + 1 \in 0 .. MaxDoublings /\ k + 1 # 0 /\ (k + 1) - 1 = k /\ k <= MaxDoublings
    BY <1>0
  <2>2. R[k + 1] = 2 * R[k]
    BY <1>1, <2>1
  <2>3. R[k] \in Nat /\ R[k] >= 4 * k + 4
    BY <1>3, <2>1
  <2> QED
    BY <2>2, <2>3
<1>4. m \in T
  <2> HIDE DEF T
  <2> QED
    BY <1>0, <1>2, <1>3, Induction
<1> QED
  BY <1>0, <1>1, <1>4 DEF R

(* The least number of a set.                                              *)
LEMMA MinIs ==
    ASSUME NEW s \in SUBSET Nat, s # {}
    PROVE  Min(s) \in s /\ \A x \in s : Min(s) <= x
<1>1. PICK m \in s : \A x \in s : m <= x
  BY LeastNumber
<1> QED
  BY <1>1 DEF Min

(* Buffers of at most MaxOriginal bytes: the loop ends, in time.           *)
LEMMA LoopEnds ==
    ASSUME NEW b, b.length \in Nat \ {0}, b.out \in 0 .. MaxOriginal
    PROVE  /\ Ending(b) # {} /\ Min(Ending(b)) \in 0 .. MaxDoublings
           /\ uncompress(b, roomOf(b)[Min(Ending(b))]) # "Z_BUF_ERROR"
           /\ roomOf(b)[Min(Ending(b))] <= Max({4 * b.length, 2 * b.out})
<1> DEFINE E == Ending(b)
           R == roomOf(b)
           D == MaxDoublings
<1>0. D \in Nat /\ MaxOriginal \in Nat /\ MaxOriginal <= 4 * D + 3
  BY CompressionAssumption
<1>1. \A k \in 0 .. D : /\ R[k] \in Nat /\ R[k] >= 4 * k + 4
                        /\ k = 0 => R[k] = 4 * b.length
                        /\ k # 0 => R[k] = 2 * R[k - 1]
  BY RoomIs, RoomsGrow
<1> HIDE DEF R
<1>2. \A k \in 0 .. D : k \in E <=> uncompress(b, R[k]) # "Z_BUF_ERROR"
  BY DEF Ending, R
<1>3. E \subseteq 0 .. D
  BY DEF Ending
<1> HIDE DEF E, D
<1>4. D \in E
  <2>1. D \in 0 .. D /\ R[D] > b.out
    BY <1>0, <1>1
  <2>2. uncompress(b, R[D]) # "Z_BUF_ERROR"
    BY <1>1, <2>1 DEF uncompress
  <2> QED
    BY <1>2, <2>1, <2>2
<1>5. Min(E) \in E /\ \A k \in E : Min(E) <= k
  BY <1>0, <1>3, <1>4, MinIs
<1>6. PICK m \in 0 .. D : m = Min(E)
  BY <1>3, <1>5
<1>7. R[m] <= 4 * b.length \/ R[m] <= 2 * b.out
  <2>1. CASE m = 0
    BY <1>1, <2>1
  <2>2. CASE m # 0
    <3>1. m - 1 \in 0 .. D /\ m - 1 < m
      BY <1>0, <2>2
    <3>2. m - 1 \notin E
      BY <1>5, <1>6, <3>1
    <3>3. uncompress(b, R[m - 1]) = "Z_BUF_ERROR"
      BY <1>2, <3>1, <3>2
    <3>4. R[m - 1] <= b.out
      <4>1. R[m - 1] \in Nat /\ b.out \in Nat
        BY <1>0, <1>1, <3>1
      <4> QED
        BY <3>3, <4>1 DEF uncompress
    <3>5. R[m] = 2 * R[m - 1] /\ R[m - 1] \in Nat
      BY <1>1, <2>2, <3>1
    <3> QED
      BY <1>0, <3>4, <3>5
  <2> QED
    BY <2>1, <2>2
<1>8. R[m] <= Max({4 * b.length, 2 * b.out})
  <2> DEFINE x == 4 * b.length
             y == 2 * b.out
             S == {x, y}
  <2>1. x \in Nat /\ y \in Nat
    BY <1>0
  <2>2. Max(S) = IF x <= y THEN y ELSE x
    <3> HIDE DEF x, y
    <3>1. CASE x <= y
      <4>1. y \in S /\ S \subseteq Nat /\ \A z \in S : z <= y
        BY <2>1, <3>1
      <4> HIDE DEF S
      <4> QED
        BY <3>1, <4>1, MaxIs
    <3>2. CASE ~(x <= y)
      <4>1. x \in S /\ S \subseteq Nat /\ \A z \in S : z <= x
        BY <2>1, <3>2
      <4> HIDE DEF S
      <4> QED
        BY <3>2, <4>1, MaxIs
    <3> QED
      BY <3>1, <3>2
  <2>3. R[m] \in Nat /\ (R[m] <= x \/ R[m] <= y)
    BY <1>1, <1>7
  <2> HIDE DEF x, y
  <2> QED
    BY <2>1, <2>2, <2>3 DEF x, y
<1>9. uncompress(b, R[m]) # "Z_BUF_ERROR"
  BY <1>2, <1>5, <1>6
<1> QED
  BY <1>4, <1>5, <1>6, <1>8, <1>9 DEF E, R, D

(* What compress returns, and what is left of it.                          *)
LEMMA BufferIs ==
    /\ \A b \in Buffers : /\ b.length \in Nat /\ b.out \in 0 .. MaxOriginal /\ ~b.cut
                          /\ b.length = 0 => b.out = 0
    /\ \A b \in Remains : b.length \in Nat \ {0} /\ b.out \in 0 .. MaxOriginal /\ b.cut
<1>0. MaxOriginal \in Nat
  BY CompressionAssumption
<1>1. ASSUME NEW b \in Buffers
      PROVE  /\ b.length \in Nat /\ b.out \in 0 .. MaxOriginal /\ ~b.cut
             /\ b.length = 0 => b.out = 0
  <2>1. PICK n \in 0 .. MaxOriginal : b \in compress(n)
    BY DEF Buffers
  <2>2. CASE n = 0
    BY <1>0, <2>1, <2>2 DEF compress
  <2>3. CASE n # 0
    <3>1. b \in [length : 1 .. n + 1, out : {n}, cut : {FALSE}]
      BY <2>1, <2>3 DEF compress
    <3>2. b.length \in 1 .. n + 1 /\ b.out = n
      BY <3>1
    <3>3. b.cut \in {FALSE}
      BY <3>1, Zenon
    <3>4. ~b.cut
      BY <3>3, Zenon
    <3> QED
      BY <1>0, <3>2, <3>4
  <2> QED
    BY <2>2, <2>3
<1>2. ASSUME NEW b \in Remains
      PROVE  b.length \in Nat \ {0} /\ b.out \in 0 .. MaxOriginal /\ b.cut
  <2>1. PICK x \in Buffers : b \in truncated(x)
    BY DEF Remains
  <2>2. x.length \in Nat /\ x.out \in 0 .. MaxOriginal
    BY <1>1
  <2> QED
    <3>1. b \in [length : 1 .. x.length - 1, out : 0 .. x.out, cut : {TRUE}]
      BY <2>1 DEF truncated
    <3>2. b.length \in 1 .. x.length - 1 /\ b.out \in 0 .. x.out
      BY <3>1
    <3>3. b.cut \in {TRUE}
      BY <3>1, Zenon
    <3>4. b.cut
      BY <3>3, Zenon
    <3> QED
      BY <1>0, <2>2, <3>2, <3>4
<1> QED
  BY <1>1, <1>2

(* For every length of the data and of what compress makes of it, the loop *)
(* of decompress ends, with room for no more than four times the input or  *)
(* twice the output; what was compressed comes back, and what lacks its    *)
(* end does not.                                                           *)
THEOREM CompressionRoundTrips == RoundTrips
<1>1. ASSUME NEW b \in Buffers \cup Remains, b.length > 0
      PROVE  /\ Ending(b) # {}
             /\ roomOf(b)[Min(Ending(b))] <= Max({4 * b.length, 2 * b.out})
  <2>1. b.length \in Nat \ {0} /\ b.out \in 0 .. MaxOriginal
    BY <1>1, BufferIs
  <2> QED
    BY <2>1, LoopEnds
<1>2. ASSUME NEW b \in Buffers PROVE decompress(b) = b.out
  <2>1. b.length \in Nat /\ b.out \in 0 .. MaxOriginal /\ ~b.cut /\ (b.length = 0 => b.out = 0)
    BY BufferIs
  <2>2. CASE b.length = 0
    BY <2>1, <2>2 DEF decompress
  <2>3. CASE b.length # 0
    <3>1. uncompress(b, roomOf(b)[Min(Ending(b))]) # "Z_BUF_ERROR"
      BY <2>1, <2>3, LoopEnds
    <3>2. uncompress(b, roomOf(b)[Min(Ending(b))]) = "Z_OK"
      BY <2>1, <3>1, Zenon DEF uncompress
    <3> QED
      BY <2>3, <3>2 DEF decompress
  <2> QED
    BY <2>2, <2>3
<1>3. ASSUME NEW b \in Remains PROVE decompress(b) = Throws
  <2>1. b.length \in Nat \ {0} /\ b.out \in 0 .. MaxOriginal /\ b.cut
    BY BufferIs
  <2>2. uncompress(b, roomOf(b)[Min(Ending(b))]) # "Z_BUF_ERROR"
    BY <2>1, LoopEnds
  <2>3. uncompress(b, roomOf(b)[Min(Ending(b))]) = "Z_DATA_ERROR"
    BY <2>1, <2>2, Zenon DEF uncompress
  <2>4. b.length # 0 /\ uncompress(b, roomOf(b)[Min(Ending(b))]) # "Z_OK"
    BY <2>1, <2>3
  <2> QED
    BY <2>4 DEF decompress
<1> QED
  BY <1>1, <1>2, <1>3, Zenon DEF RoundTrips

(* The loop of decompress ends (DecompressEnds, in every state).           *)
THEOREM DecompressAlwaysEnds == DeltaSpec => []DecompressEnds
<1>1. DecompressEnds
  BY CompressionRoundTrips DEF DecompressEnds
<1> QED
  BY <1>1, PTL
=============================================================================
