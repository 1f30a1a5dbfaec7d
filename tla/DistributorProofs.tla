------------------------- MODULE DistributorProofs -------------------------
(***************************************************************************)
(* Theorems about Distributor, for any number of nodes, any lengths of     *)
(* their ranges, any plan, user pool and list of roles.                    *)
(*                                                                         *)
(* FlattenSeq and FoldFunction are defined by recursion; what is needed of *)
(* them is proved by induction, with the property given as a set of        *)
(* numbers (SetInduction).  A flattened sequence is then described by its  *)
(* Offsets, where each of its parts begins.                                *)
(*                                                                         *)
(* Each theorem rests on an inductive invariant of the loops, beside the   *)
(* types (Typed):                                                          *)
(*    RolesShared   the first roles of the list have one holder more       *)
(*    Paired        for every entry the peers' nodes have the other end    *)
(*    Consecutive   the sessions of a type occupy consecutive slots        *)
(*    Crossing      calls among equal ranges are between two nodes         *)
(*    Assigned      the users are in the order of the addresses            *)
(*    Balanced      the slots before the cursor have one entry more        *)
(*    OnePeer       every entry of a call names one peer                   *)
(*    Shared        what SplitUsers has given to the nodes                 *)
(***************************************************************************)
EXTENDS Distributor, FiniteSetTheorems, FunctionTheorems, SequenceTheorems, WellFoundedInduction, TLAPS

\* A set of natural numbers has a least element.
LEMMA SmallestOf ==
    ASSUME NEW T, T \subseteq Nat, T # {}
    PROVE  \E x \in T : \A y \in T : x <= y
<1>1. IsWellFoundedOn(OpToRel(<, Nat), Nat)
  BY NatLessThanWellFounded
<1> DEFINE R == OpToRel(<, Nat)
<1>2. \A x, y \in Nat : <<x, y>> \in R <=> x < y
  BY DEF OpToRel
<1> HIDE DEF R
<1>3. PICK x \in T : \A y \in T : ~ (<<y, x>> \in R)
  <2>1. IsWellFoundedOn(R, Nat)
    BY <1>1 DEF R
  <2> QED
    BY <2>1, WFMin, Zenon
<1>4. ASSUME NEW y \in T PROVE x <= y
  <2>1. ~ (<<y, x>> \in R) /\ x \in Nat /\ y \in Nat
    BY <1>3
  <2>2. ~ (y < x)
    BY <1>2, <2>1, Zenon
  <2> QED
    BY <2>1, <2>2
<1> QED
  BY <1>4

\* Induction over the natural numbers, for a property given as the set of the
\* numbers that have it.
LEMMA SetInduction ==
    ASSUME NEW D, 0 \in D, \A n \in Nat : n \in D => n + 1 \in D
    PROVE  Nat \subseteq D
<1> SUFFICES ASSUME Nat \ D # {} PROVE FALSE
  OBVIOUS
<1>1. PICK x \in Nat \ D : \A y \in Nat \ D : x <= y
  <2>1. Nat \ D \subseteq Nat
    OBVIOUS
  <2> QED
    BY <2>1, SmallestOf
<1>2. x # 0 /\ x - 1 \in Nat
  BY <1>1
<1>3. x - 1 \in D
  BY <1>1, <1>2
<1> QED
  BY <1>1, <1>2, <1>3

LEMMA BoundedInduction ==
    ASSUME NEW N \in Nat, NEW D, 0 \in D, \A n \in 0 .. N - 1 : n \in D => n + 1 \in D
    PROVE  0 .. N \subseteq D
<1> DEFINE E == {n \in Nat : n \in 0 .. N => n \in D}
<1>1. 0 \in E
  OBVIOUS
<1>2. ASSUME NEW n \in Nat, n \in E PROVE n + 1 \in E
  BY <1>2
<1> HIDE DEF E
<1>3. Nat \subseteq E
  BY <1>1, <1>2, SetInduction
<1> QED
  BY <1>3 DEF E

-----------------------------------------------------------------------------
(* Remainders *)

LEMMA ModRange ==
    ASSUME NEW a \in Nat, NEW b \in Nat, b > 0
    PROVE  a % b \in 0 .. b - 1 /\ a \div b \in Nat /\ a = b * (a \div b) + (a % b)
<1>1. a % b \in 0 .. b - 1
  OBVIOUS
<1>2. a \div b \in Nat
  OBVIOUS
<1>3. a = b * (a \div b) + (a % b)
  OBVIOUS
<1> QED
  BY <1>1, <1>2, <1>3

LEMMA ModUnique ==
    ASSUME NEW b \in Nat, NEW q \in Int, NEW r \in Int, 0 <= r, r < b
    PROVE  (b * q + r) % b = r
OBVIOUS

LEMMA ModPlus ==
    ASSUME NEW a \in Nat, NEW b \in Nat, b > 0, NEW i \in 0 .. b
    PROVE  (a + i) % b = IF (a % b) + i < b THEN (a % b) + i ELSE (a % b) + i - b
<1> DEFINE q == a \div b
           r == a % b
<1>1. q \in Nat /\ r \in 0 .. b - 1 /\ a = b * q + r
  BY ModRange
<1> HIDE DEF q, r
<1>2. b * q \in Int /\ b * (q + 1) = b * q + b
  BY <1>1
<1>3. CASE r + i < b
  <2>1. a + i = b * q + (r + i)
    BY <1>1, <1>2
  <2>2. (b * q + (r + i)) % b = r + i
    BY <1>1, <1>3, ModUnique
  <2> QED
    BY <1>3, <2>1, <2>2 DEF r
<1>4. CASE ~ (r + i < b)
  <2> DEFINE p == q + 1
             t == r + i - b
  <2>1. a + i = b * p + t
    BY <1>1, <1>2
  <2>2. p \in Int /\ t \in Int /\ 0 <= t /\ t < b
    BY <1>1, <1>4
  <2> HIDE DEF p
  <2>3. (b * p + t) % b = t
    <3> HIDE DEF t
    <3> QED
      BY <2>2, ModUnique
  <2> QED
    BY <1>4, <2>1, <2>3 DEF r
<1> QED
  BY <1>3, <1>4

\* Less than a whole turn apart, two numbers have different remainders.
LEMMA ModApart ==
    ASSUME NEW a \in Nat, NEW b \in Nat, b > 0, NEW i \in 0 .. b - 1, NEW j \in 0 .. b - 1,
           (a + i) % b = (a + j) % b
    PROVE  i = j
<1>1. a % b \in 0 .. b - 1
  BY ModRange
<1>2. i \in 0 .. b /\ j \in 0 .. b
  OBVIOUS
<1>3. (a + i) % b = IF (a % b) + i < b THEN (a % b) + i ELSE (a % b) + i - b
  BY <1>2, ModPlus
<1>4. (a + j) % b = IF (a % b) + j < b THEN (a % b) + j ELSE (a % b) + j - b
  BY <1>2, ModPlus
<1> DEFINE r == a % b
<1>5. r \in 0 .. b - 1
  BY <1>1
<1>6. (IF r + i < b THEN r + i ELSE r + i - b) = (IF r + j < b THEN r + j ELSE r + j - b)
  BY <1>3, <1>4
<1> HIDE DEF r
<1> QED
  BY <1>5, <1>6

-----------------------------------------------------------------------------
(* Flattened sequences *)

\* f[i] is the concatenation of the first i elements of s.
Concatenates(f, s) ==
    /\ f[1] = s[1]
    /\ \A i \in 2 .. Len(s) : f[i] = f[i - 1] \o s[i]

\* What FlattenSeq computes, up to the k-th element.
FlattenBody(f, s, k) ==
    [i \in 1 .. k |-> IF i = 1 THEN s[i] ELSE f[i - 1] \o s[i]]

LEMMA FlattenEmpty == FlattenSeq(<<>>) = <<>>
<1>1. Len(<<>>) = 0
  OBVIOUS
<1> QED
  BY <1>1 DEF FlattenSeq

LEMMA FlattenExists ==
    ASSUME NEW S, NEW s \in Seq(Seq(S)), NEW k \in 1 .. Len(s)
    PROVE  \E f \in [1 .. k -> Seq(S)] : f = FlattenBody(f, s, k)
<1> DEFINE Body(f, m) == [i \in 1 .. m |-> IF i = 1 THEN s[i] ELSE f[i - 1] \o s[i]]
           Exists(m) == \E f \in [1 .. m -> Seq(S)] : f = Body(f, m)
           D == {n \in Nat : \A m \in 1 .. Len(s) : m = n + 1 => Exists(m)}
<1>1. ASSUME NEW m \in 1 .. Len(s), m = 1 PROVE Exists(m)
  <2> DEFINE f == [i \in 1 .. m |-> s[1]]
  <2>1. f \in [1 .. m -> Seq(S)]
    BY <1>1
  <2>2. f = Body(f, m)
    BY <1>1
  <2> QED
    BY <2>1, <2>2
<1>2. ASSUME NEW m \in 1 .. Len(s), m # 1, Exists(m - 1) PROVE Exists(m)
  <2>1. PICK g \in [1 .. m - 1 -> Seq(S)] : g = Body(g, m - 1)
    BY <1>2
  <2> DEFINE f == [i \in 1 .. m |-> IF i = m THEN g[m - 1] \o s[i] ELSE g[i]]
  <2>2. g[m - 1] \in Seq(S) /\ s[m] \in Seq(S)
    BY <1>2
  <2>3. g[m - 1] \o s[m] \in Seq(S)
    BY <2>2, ConcatProperties
  <2>4. f \in [1 .. m -> Seq(S)]
    <3>1. ASSUME NEW i \in 1 .. m PROVE f[i] \in Seq(S)
      BY <2>3
    <3> QED
      BY <3>1
  <2>5. ASSUME NEW i \in 1 .. m
        PROVE  f[i] = IF i = 1 THEN s[i] ELSE f[i - 1] \o s[i]
    <3>1. CASE i = m
      <4>1. m - 1 \in 1 .. m /\ m - 1 # m
        BY <1>2
      <4>2. f[i] = g[m - 1] \o s[m] /\ f[m - 1] = g[m - 1]
        BY <3>1, <4>1
      <4> QED
        BY <1>2, <3>1, <4>2
    <3>2. CASE i # m
      <4>1. i \in 1 .. m - 1 /\ f[i] = g[i]
        BY <3>2
      <4>2. g[i] = IF i = 1 THEN s[i] ELSE g[i - 1] \o s[i]
        BY <4>1, <2>1
      <4>3. i # 1 => f[i - 1] = g[i - 1]
        BY <4>1
      <4> QED
        BY <4>1, <4>2, <4>3
    <3> QED
      BY <3>1, <3>2
  <2>6. f = Body(f, m)
    BY <2>5
  <2> QED
    BY <2>4, <2>6
<1> HIDE DEF Exists
<1>3. 0 \in D
  BY <1>1
<1>4. ASSUME NEW n \in Nat, n \in D PROVE n + 1 \in D
  <2>1. ASSUME NEW m \in 1 .. Len(s), m = (n + 1) + 1 PROVE Exists(m)
    <3>1. m - 1 \in 1 .. Len(s) /\ m - 1 = n + 1 /\ m # 1
      BY <2>1
    <3>2. Exists(m - 1)
      BY <1>4, <3>1
    <3> QED
      BY <1>2, <3>1, <3>2
  <2> QED
    BY <2>1
<1> HIDE DEF D
<1>5. Nat \subseteq D
  BY <1>3, <1>4, SetInduction
<1>6. k - 1 \in D /\ k = (k - 1) + 1
  BY <1>5
<1>7. Exists(k)
  BY <1>6 DEF D
<1> QED
  BY <1>7 DEF Exists, FlattenBody

LEMMA FlattenIs ==
    ASSUME NEW S, NEW s \in Seq(Seq(S)), s # <<>>
    PROVE  \E f \in [1 .. Len(s) -> Seq(S)] : Concatenates(f, s) /\ FlattenSeq(s) = f[Len(s)]
<1> DEFINE Body(f) == [i \in 1 .. Len(s) |-> IF i = 1 THEN s[i] ELSE f[i - 1] \o s[i]]
           F == CHOOSE f : f = Body(f)
<1>1. Len(s) \in Nat /\ Len(s) > 0 /\ Len(s) \in 1 .. Len(s)
  BY EmptySeq
<1>2. \E g \in [1 .. Len(s) -> Seq(S)] : g = Body(g)
  <2> DEFINE k == Len(s)
  <2>1. k \in 1 .. Len(s)
    BY <1>1
  <2> HIDE DEF k
  <2>2. \E f \in [1 .. k -> Seq(S)] : f = FlattenBody(f, s, k)
    BY <2>1, FlattenExists, Zenon
  <2> QED
    BY <2>2 DEF k, FlattenBody
<1>3. F = Body(F)
  BY <1>2, Zenon
<1>4. FlattenSeq(s) = F[Len(s)]
  BY <1>1 DEF FlattenSeq
<1> HIDE DEF F
<1>5. Concatenates(F, s)
  <2>1. F[1] = s[1]
    BY <1>1, <1>3
  <2>2. ASSUME NEW i \in 2 .. Len(s) PROVE F[i] = F[i - 1] \o s[i]
    <3>1. i \in 1 .. Len(s) /\ i # 1
      BY <1>1
    <3> QED
      BY <1>3, <3>1
  <2> QED
    BY <2>1, <2>2 DEF Concatenates
<1>6. F \in [1 .. Len(s) -> Seq(S)]
  <2> DEFINE D == {n \in Nat : \A m \in 1 .. Len(s) : m = n + 1 => F[m] \in Seq(S)}
  <2>1. 0 \in D
    BY <1>5 DEF Concatenates
  <2>2. ASSUME NEW n \in Nat, n \in D PROVE n + 1 \in D
    <3>1. ASSUME NEW m \in 1 .. Len(s), m = (n + 1) + 1 PROVE F[m] \in Seq(S)
      <4>1. m - 1 \in 1 .. Len(s) /\ m - 1 = n + 1 /\ m \in 2 .. Len(s)
        BY <1>1, <3>1
      <4>2. F[m - 1] \in Seq(S) /\ s[m] \in Seq(S)
        BY <2>2, <4>1
      <4>3. F[m] = F[m - 1] \o s[m]
        BY <1>5, <4>1 DEF Concatenates
      <4> QED
        BY <4>2, <4>3, ConcatProperties
    <3> QED
      BY <3>1
  <2> HIDE DEF D
  <2>3. Nat \subseteq D
    BY <2>1, <2>2, SetInduction
  <2>4. ASSUME NEW i \in 1 .. Len(s) PROVE F[i] \in Seq(S)
    <3>1. i - 1 \in D /\ i = (i - 1) + 1
      BY <2>3
    <3> QED
      BY <3>1 DEF D
  <2> QED
    BY <1>3, <2>4
<1> QED
  BY <1>4, <1>5, <1>6

\* Where the elements of s are found in its concatenation: those of s[i] are at
\* the places after h[i - 1].
Offsets(h, s, flat) ==
    /\ h \in [0 .. Len(s) -> Nat] /\ h[0] = 0
    /\ \A i \in 1 .. Len(s) : h[i] = h[i - 1] + Len(s[i])
    /\ Len(flat) = h[Len(s)]
    /\ \A i \in 1 .. Len(s) : \A j \in 1 .. Len(s[i]) :
          h[i - 1] + j \in 1 .. Len(flat) /\ flat[h[i - 1] + j] = s[i][j]
    /\ \A k \in 1 .. Len(flat) :
          \E i \in 1 .. Len(s) : \E j \in 1 .. Len(s[i]) : k = h[i - 1] + j

LEMMA FlattenOffsets ==
    ASSUME NEW S, NEW s \in Seq(Seq(S))
    PROVE  FlattenSeq(s) \in Seq(S) /\ \E h : Offsets(h, s, FlattenSeq(s))
<1> DEFINE N == Len(s)
<1>1. N \in Nat /\ \A i \in 1 .. N : s[i] \in Seq(S) /\ Len(s[i]) \in Nat
  OBVIOUS
<1>2. PICK f \in [0 .. N -> Seq(S)] :
         /\ f[0] = <<>>
         /\ \A i \in 1 .. N : f[i] = f[i - 1] \o s[i]
         /\ FlattenSeq(s) = f[N]
  <2>1. CASE s = <<>>
    <3>1. N = 0 /\ <<>> \in Seq(S)
      BY <2>1
    <3> DEFINE f == [i \in 0 .. N |-> <<>>]
    <3>2. f \in [0 .. N -> Seq(S)] /\ f[0] = <<>> /\ f[N] = <<>> /\ 1 .. N = {}
      BY <3>1
    <3> HIDE DEF f
    <3>3. FlattenSeq(s) = <<>>
      BY <2>1, FlattenEmpty
    <3> QED
      BY <3>2, <3>3
  <2>2. CASE s # <<>>
    <3>1. PICK g \in [1 .. N -> Seq(S)] : Concatenates(g, s) /\ FlattenSeq(s) = g[N]
      BY <2>2, FlattenIs
    <3> DEFINE f == [i \in 0 .. N |-> IF i = 0 THEN <<>> ELSE g[i]]
    <3>2. N > 0
      BY <2>2, EmptySeq
    <3>3. f \in [0 .. N -> Seq(S)] /\ f[0] = <<>> /\ f[N] = g[N]
      BY <1>1, <3>2
    <3>4. ASSUME NEW i \in 1 .. N PROVE f[i] = f[i - 1] \o s[i]
      <4>1. CASE i = 1
        <5>1. f[i] = s[1] /\ f[i - 1] = <<>>
          BY <1>1, <3>1, <3>2, <4>1 DEF Concatenates
        <5> QED
          BY <1>1, <4>1, <5>1
      <4>2. CASE i # 1
        <5>1. i \in 2 .. N /\ i - 1 \in 1 .. N /\ f[i] = g[i] /\ f[i - 1] = g[i - 1]
          BY <1>1, <4>2
        <5> QED
          BY <3>1, <5>1 DEF Concatenates
      <4> QED
        BY <4>1, <4>2
    <3> HIDE DEF f
    <3> QED
      BY <3>1, <3>3, <3>4
  <2> QED
    BY <2>1, <2>2
<1> DEFINE h == [i \in 0 .. N |-> Len(f[i])]
<1>3. /\ h \in [0 .. N -> Nat]
      /\ h[0] = 0
      /\ \A i \in 0 .. N : h[i] = Len(f[i]) /\ f[i] \in Seq(S)
  BY <1>1, <1>2
<1> HIDE DEF h, N
<1>4. ASSUME NEW i \in 1 .. N
      PROVE  /\ h[i - 1] \in Nat /\ h[i] = h[i - 1] + Len(s[i])
             /\ \A k \in 1 .. h[i - 1] : f[i][k] = f[i - 1][k]
             /\ \A j \in 1 .. Len(s[i]) : f[i][h[i - 1] + j] = s[i][j]
  <2>0. i - 1 \in 0 .. N /\ i \in 0 .. N
    BY <1>1
  <2>1. i - 1 \in 0 .. N /\ i \in 0 .. N /\ f[i] = f[i - 1] \o s[i]
    BY <2>0, <1>2, Zenon
  <2>2. f[i - 1] \in Seq(S) /\ s[i] \in Seq(S) /\ Len(s[i]) \in Nat
    BY <1>1, <2>1, <1>3
  <2>3. /\ Len(f[i]) = Len(f[i - 1]) + Len(s[i])
        /\ \A k \in 1 .. Len(f[i - 1]) + Len(s[i]) :
              f[i][k] = IF k <= Len(f[i - 1]) THEN f[i - 1][k] ELSE s[i][k - Len(f[i - 1])]
    <3> DEFINE a == f[i - 1]
               b == s[i]
    <3>1. a \in Seq(S) /\ b \in Seq(S) /\ f[i] = a \o b
      BY <2>1, <2>2, Zenon
    <3> HIDE DEF a, b
    <3>2. /\ Len(a \o b) = Len(a) + Len(b)
          /\ \A k \in 1 .. Len(a) + Len(b) :
                (a \o b)[k] = IF k <= Len(a) THEN a[k] ELSE b[k - Len(a)]
      BY <3>1, ConcatProperties
    <3>3. /\ Len(f[i]) = Len(a) + Len(b)
          /\ \A k \in 1 .. Len(a) + Len(b) :
                f[i][k] = IF k <= Len(a) THEN a[k] ELSE b[k - Len(a)]
      BY <3>1, <3>2, Zenon
    <3> QED
      BY <3>3 DEF a, b
  <2>4. h[i - 1] = Len(f[i - 1]) /\ h[i] = Len(f[i]) /\ h[i - 1] \in Nat
    BY <1>3, <2>1
  <2>5. ASSUME NEW k \in 1 .. h[i - 1] PROVE f[i][k] = f[i - 1][k]
    <3>1. k \in 1 .. Len(f[i - 1]) + Len(s[i]) /\ k <= Len(f[i - 1])
      <4>1. Len(f[i - 1]) \in Nat /\ k \in 1 .. Len(f[i - 1])
        BY <2>4
      <4> DEFINE a == Len(f[i - 1])
                 b == Len(s[i])
      <4>2. a \in Nat /\ b \in Nat /\ k \in 1 .. a
        BY <2>2, <4>1, Zenon
      <4> HIDE DEF a, b
      <4>3. k \in 1 .. a + b /\ k <= a
        BY <4>2
      <4> QED
        BY <4>3 DEF a, b
    <3> QED
      BY <2>3, <3>1
  <2>6. ASSUME NEW j \in 1 .. Len(s[i]) PROVE f[i][h[i - 1] + j] = s[i][j]
    <3>0. /\ Len(f[i - 1]) \in Nat /\ Len(s[i]) \in Nat
          /\ j \in 1 .. Len(s[i]) /\ h[i - 1] = Len(f[i - 1])
      BY <2>2, <2>4
    <3>1. /\ h[i - 1] + j \in 1 .. Len(f[i - 1]) + Len(s[i])
          /\ ~ (h[i - 1] + j <= Len(f[i - 1]))
          /\ (h[i - 1] + j) - Len(f[i - 1]) = j
      <4> DEFINE a == Len(f[i - 1])
                 b == Len(s[i])
      <4>1. a \in Nat /\ b \in Nat /\ j \in 1 .. b /\ h[i - 1] = a
        BY <3>0, Zenon
      <4> HIDE DEF a, b
      <4>2. a + j \in 1 .. a + b /\ ~ (a + j <= a) /\ (a + j) - a = j
        BY <4>1
      <4> QED
        BY <4>1, <4>2, Zenon DEF a, b
    <3> QED
      BY <2>3, <3>1
  <2> QED
    BY <2>3, <2>4, <2>5, <2>6
<1> DEFINE Placed(m) ==
             /\ \A i \in 1 .. m : \A j \in 1 .. Len(s[i]) :
                   h[i - 1] + j \in 1 .. h[m] /\ f[m][h[i - 1] + j] = s[i][j]
             /\ \A k \in 1 .. h[m] :
                   \E i \in 1 .. m : \E j \in 1 .. Len(s[i]) : k = h[i - 1] + j
           D == {m \in 0 .. N : Placed(m)}
<1>5. 0 \in D
  BY <1>1, <1>3
<1>6. ASSUME NEW n \in 0 .. N - 1, n \in D PROVE n + 1 \in D
  <2>1. n + 1 \in 1 .. N /\ (n + 1) - 1 = n /\ n \in 0 .. N /\ h[n] \in Nat /\ Len(s[n + 1]) \in Nat
    <3>1. N \in Nat
      BY <1>1
    <3>2. n + 1 \in 1 .. N /\ (n + 1) - 1 = n /\ n \in 0 .. N
      BY <3>1
    <3>3. Len(s[n + 1]) \in Nat
      BY <1>1, <3>2, Zenon
    <3>4. h[n] \in Nat
      BY <1>3, <3>2
    <3> QED
      BY <3>2, <3>3, <3>4
  <2>2. h[n + 1] = h[n] + Len(s[n + 1])
    BY <1>4, <2>1
  <2>3. ASSUME NEW i \in 1 .. n + 1, NEW j \in 1 .. Len(s[i])
        PROVE  h[i - 1] + j \in 1 .. h[n + 1] /\ f[n + 1][h[i - 1] + j] = s[i][j]
    <3>1. CASE i = n + 1
      <4>1. h[i - 1] = h[n] /\ j \in 1 .. Len(s[n + 1])
        BY <2>1, <3>1
      <4>2. f[n + 1][h[(n + 1) - 1] + j] = s[n + 1][j]
        BY <1>4, <2>1, <4>1, Zenon
      <4>3. h[n] + j \in 1 .. h[n + 1]
        <5> DEFINE a == h[n]
                   b == Len(s[n + 1])
                   c == h[n + 1]
        <5>1. a \in Nat /\ b \in Nat /\ c = a + b /\ j \in 1 .. b
          BY <2>1, <2>2, <4>1, Zenon
        <5> HIDE DEF a, b, c
        <5>2. a + j \in 1 .. c
          BY <5>1
        <5> QED
          BY <5>2 DEF a, c
      <4> QED
        BY <2>1, <3>1, <4>2, <4>3
    <3>2. CASE i # n + 1
      <4>1. i \in 1 .. n
        BY <3>2
      <4>2. h[i - 1] + j \in 1 .. h[n] /\ f[n][h[i - 1] + j] = s[i][j]
        BY <1>6, <4>1
      <4>3. f[n + 1][h[i - 1] + j] = f[n][h[i - 1] + j]
        <5>1. \A k \in 1 .. h[(n + 1) - 1] : f[n + 1][k] = f[(n + 1) - 1][k]
          BY <1>4, <2>1, Zenon
        <5>2. \A k \in 1 .. h[n] : f[n + 1][k] = f[n][k]
          BY <2>1, <5>1
        <5> QED
          BY <4>2, <5>2, Zenon
      <4>4. h[i - 1] + j \in 1 .. h[n + 1]
        <5> DEFINE a == h[n]
                   b == Len(s[n + 1])
                   c == h[n + 1]
                   x == h[i - 1] + j
        <5>1. a \in Nat /\ b \in Nat /\ c = a + b /\ x \in 1 .. a
          BY <2>1, <2>2, <4>2, Zenon
        <5> HIDE DEF a, b, c, x
        <5>2. x \in 1 .. c
          BY <5>1
        <5> QED
          BY <5>2 DEF x, c
      <4> QED
        BY <4>2, <4>3, <4>4
    <3> QED
      BY <3>1, <3>2
  <2>4. ASSUME NEW k \in 1 .. h[n + 1]
        PROVE  \E i \in 1 .. n + 1 : \E j \in 1 .. Len(s[i]) : k = h[i - 1] + j
    <3>1. CASE k \in 1 .. h[n]
      <4>1. PICK i \in 1 .. n : \E j \in 1 .. Len(s[i]) : k = h[i - 1] + j
        BY <1>6, <3>1
      <4>2. i \in 1 .. n + 1
        OBVIOUS
      <4> QED
        BY <4>1, <4>2
    <3>2. CASE k \notin 1 .. h[n]
      <4>1. k - h[n] \in 1 .. Len(s[n + 1]) /\ k = h[(n + 1) - 1] + (k - h[n])
        BY <2>1, <2>2, <3>2
      <4>2. n + 1 \in 1 .. n + 1
        OBVIOUS
      <4> QED
        BY <4>1, <4>2
    <3> QED
      BY <3>1, <3>2
  <2> HIDE DEF Placed
  <2>5. Placed(n + 1)
    BY <2>3, <2>4 DEF Placed
  <2> QED
    BY <2>1, <2>5
<1> HIDE DEF Placed
<1>7. 0 .. N \subseteq D
  <2> HIDE DEF D
  <2> QED
    BY <1>1, <1>5, <1>6, BoundedInduction
<1>8. N \in 0 .. N /\ Placed(N) /\ Len(f[N]) = h[N] /\ f[N] \in Seq(S)
  BY <1>1, <1>3, <1>7
<1>9. Offsets(h, s, f[N])
  <2>1. \A i \in 1 .. N : h[i] = h[i - 1] + Len(s[i])
    BY <1>4
  <2>2. Placed(N) /\ h[N] = Len(f[N])
    BY <1>8
  <2>3. /\ \A i \in 1 .. N : \A j \in 1 .. Len(s[i]) :
              h[i - 1] + j \in 1 .. Len(f[N]) /\ f[N][h[i - 1] + j] = s[i][j]
        /\ \A k \in 1 .. Len(f[N]) :
              \E i \in 1 .. N : \E j \in 1 .. Len(s[i]) : k = h[i - 1] + j
    BY <2>2, Zenon DEF Placed
  <2>4. N = Len(s)
    BY DEF N
  <2> QED
    BY <1>3, <2>1, <2>2, <2>3, <2>4, Zenon DEF Offsets
<1> QED
  BY <1>2, <1>8, <1>9

\* No element of a concatenation comes twice when none comes twice in its parts.
LEMMA FlattenInjective ==
    ASSUME NEW s, NEW flat, NEW h, Offsets(h, s, flat),
           \A i, k \in 1 .. Len(s) : \A j \in 1 .. Len(s[i]), l \in 1 .. Len(s[k]) :
              s[i][j] = s[k][l] => i = k /\ j = l
    PROVE  \A p, q \in 1 .. Len(flat) : flat[p] = flat[q] => p = q
<1> SUFFICES ASSUME NEW p \in 1 .. Len(flat), NEW q \in 1 .. Len(flat), flat[p] = flat[q]
             PROVE  p = q
  OBVIOUS
<1>1. PICK i \in 1 .. Len(s) : \E j \in 1 .. Len(s[i]) : p = h[i - 1] + j
  BY DEF Offsets
<1>2. PICK j \in 1 .. Len(s[i]) : p = h[i - 1] + j
  BY <1>1
<1>3. PICK k \in 1 .. Len(s) : \E l \in 1 .. Len(s[k]) : q = h[k - 1] + l
  BY DEF Offsets
<1>4. PICK l \in 1 .. Len(s[k]) : q = h[k - 1] + l
  BY <1>3
<1>5. \A x \in 1 .. Len(s) : \A y \in 1 .. Len(s[x]) : flat[h[x - 1] + y] = s[x][y]
  BY DEF Offsets
<1>6. flat[p] = s[i][j] /\ flat[q] = s[k][l]
  BY <1>2, <1>4, <1>5, Zenon
<1>7. s[i][j] = s[k][l]
  BY <1>6
<1>8. i = k /\ j = l
  BY <1>7
<1> QED
  BY <1>2, <1>4, <1>8

-----------------------------------------------------------------------------
(* The addresses of the nodes, node by node and slot by slot *)

RangesOK == ranges \in Seq(Nat) /\ ranges # <<>>

LEMMA NodesExist ==
    ASSUME RangesOK
    PROVE  /\ Len(ranges) \in Nat /\ Len(ranges) > 0 /\ 1 \in Node
           /\ \A n \in Node : ranges[n] \in Nat
BY EmptySeq DEF RangesOK, Node

LEMMA LongestRange ==
    ASSUME RangesOK
    PROVE  /\ Max(ToSet(ranges)) \in Nat /\ Max(ToSet(ranges)) \in ToSet(ranges)
           /\ \A n \in Node : ranges[n] <= Max(ToSet(ranges))
<1>1. /\ Len(ranges) \in Nat /\ Len(ranges) > 0 /\ DOMAIN ranges = 1 .. Len(ranges)
      /\ \A n \in 1 .. Len(ranges) : ranges[n] \in Nat
  BY NodesExist DEF Node, RangesOK
<1> DEFINE Longest(m) == \E k \in 1 .. m : \A i \in 1 .. m : ranges[k] >= ranges[i]
           D == {n \in Nat : \A m \in 1 .. Len(ranges) : m = n + 1 => Longest(m)}
<1>2. 0 \in D
  <2>1. Longest(1)
    BY <1>1
  <2> QED
    BY <2>1
<1>3. ASSUME NEW n \in Nat, n \in D PROVE n + 1 \in D
  <2>1. ASSUME NEW m \in 1 .. Len(ranges), m = (n + 1) + 1 PROVE Longest(m)
    <3>1. m - 1 \in 1 .. Len(ranges) /\ m - 1 = n + 1
      BY <1>1, <2>1
    <3>2. PICK k \in 1 .. m - 1 : \A i \in 1 .. m - 1 : ranges[k] >= ranges[i]
      BY <1>3, <3>1
    <3>3. k \in 1 .. m /\ ranges[k] \in Nat /\ ranges[m] \in Nat /\ m \in 1 .. m
      BY <1>1, <3>1, <3>2
    <3>4. CASE ranges[k] >= ranges[m]
      <4>1. \A i \in 1 .. m : ranges[k] >= ranges[i]
        BY <3>2, <3>4
      <4> QED
        BY <3>3, <4>1
    <3>5. CASE ~ (ranges[k] >= ranges[m])
      <4>1. ASSUME NEW i \in 1 .. m PROVE ranges[m] >= ranges[i]
        <5>1. CASE i = m
          BY <3>3, <5>1
        <5>2. CASE i # m
          <6>1. i \in 1 .. m - 1 /\ ranges[i] \in Nat
            BY <1>1, <5>2
          <6>2. ranges[k] >= ranges[i]
            BY <3>2, <6>1
          <6> DEFINE a == ranges[k]
                     b == ranges[m]
                     c == ranges[i]
          <6>3. a \in Nat /\ b \in Nat /\ c \in Nat /\ a >= c /\ ~ (a >= b)
            BY <3>3, <3>5, <6>1, <6>2
          <6> HIDE DEF a, b, c
          <6>4. b >= c
            BY <6>3
          <6> QED
            BY <6>4 DEF b, c
        <5> QED
          BY <5>1, <5>2
      <4> QED
        BY <3>3, <4>1
    <3> QED
      BY <3>4, <3>5
  <2> HIDE DEF Longest
  <2> QED
    BY <2>1
<1> HIDE DEF D
<1>4. Nat \subseteq D
  BY <1>2, <1>3, SetInduction, Zenon
<1>5. Longest(Len(ranges))
  <2> HIDE DEF Longest
  <2>1. Len(ranges) - 1 \in D /\ Len(ranges) = (Len(ranges) - 1) + 1 /\ Len(ranges) \in 1 .. Len(ranges)
    BY <1>1, <1>4
  <2> QED
    BY <2>1 DEF D
<1>6. PICK k \in 1 .. Len(ranges) : \A i \in 1 .. Len(ranges) : ranges[k] >= ranges[i]
  BY <1>5
<1>7. \E x \in ToSet(ranges) : \A y \in ToSet(ranges) : x >= y
  BY <1>1, <1>6 DEF ToSet
<1> DEFINE x == Max(ToSet(ranges))
<1>8. x \in ToSet(ranges) /\ \A y \in ToSet(ranges) : x >= y
  BY <1>7 DEF Max
<1> HIDE DEF x
<1>9. x \in Nat
  BY <1>1, <1>8 DEF ToSet
<1>10. \A n \in Node : ranges[n] \in ToSet(ranges) /\ ranges[n] \in Nat
  BY <1>1 DEF ToSet, Node
<1>11. \A n \in Node : ranges[n] <= x
  BY <1>8, <1>9, <1>10
<1> QED
  BY <1>8, <1>9, <1>11 DEF x

\* The addresses of one node, as the code lists them.
IpsOf(n) == [i \in 1 .. ranges[n] |-> <<n, i>>]

LEMMA AllIpsOffsets ==
    ASSUME RangesOK
    PROVE  /\ AllIps \in Seq(AllAddresses)
           /\ \E h : Offsets(h, [n \in Node |-> IpsOf(n)], AllIps)
<1> DEFINE s == [n \in Node |-> IpsOf(n)]
<1>1. ASSUME NEW n \in Node PROVE IpsOf(n) \in Seq(AllAddresses)
  <2>1. ranges[n] \in Nat
    BY NodesExist
  <2>2. \A i \in 1 .. ranges[n] : <<n, i>> \in AllAddresses
    BY DEF AllAddresses, Addresses
  <2> QED
    BY <2>1, <2>2 DEF IpsOf
<1>2. s \in Seq(Seq(AllAddresses))
  BY <1>1, NodesExist DEF Node
<1>3. AllIps = FlattenSeq(s)
  BY DEF AllIps, IpsOf
<1> HIDE DEF s
<1>4. FlattenSeq(s) \in Seq(AllAddresses) /\ \E h : Offsets(h, s, FlattenSeq(s))
  BY <1>2, FlattenOffsets
<1> QED
  BY <1>3, <1>4 DEF s

LEMMA AllIpsInjective ==
    ASSUME RangesOK
    PROVE  \A p, q \in 1 .. Len(AllIps) : AllIps[p] = AllIps[q] => p = q
<1> DEFINE s == [n \in Node |-> IpsOf(n)]
<1>1. PICK h : Offsets(h, s, AllIps)
  BY AllIpsOffsets
<1>2. Len(s) = Len(ranges) /\ \A n \in Node : Len(s[n]) = ranges[n] /\ ranges[n] \in Nat
  BY NodesExist DEF Node, IpsOf
<1>3. \A i, k \in 1 .. Len(s) : \A j \in 1 .. Len(s[i]), l \in 1 .. Len(s[k]) :
         s[i][j] = s[k][l] => i = k /\ j = l
  BY <1>2 DEF Node, IpsOf
<1> HIDE DEF s
<1> QED
  BY <1>1, <1>3, FlattenInjective

\* What a node adds to the i-th row of slots.
PartOf(n, i) == IF i <= ranges[n] THEN << <<n, i>> >> ELSE <<>>

LEMMA RowOffsets ==
    ASSUME RangesOK, NEW i \in Nat, i > 0
    PROVE  /\ Row(i) \in Seq(AllAddresses)
           /\ \E h : Offsets(h, [n \in Node |-> PartOf(n, i)], Row(i))
<1> DEFINE s == [n \in Node |-> PartOf(n, i)]
<1>1. ASSUME NEW n \in Node PROVE PartOf(n, i) \in Seq(AllAddresses)
  <2>1. ranges[n] \in Nat
    BY NodesExist
  <2>2. CASE i <= ranges[n]
    <3>1. <<n, i>> \in AllAddresses
      BY <2>1, <2>2 DEF AllAddresses, Addresses
    <3> QED
      BY <2>2, <3>1 DEF PartOf
  <2>3. CASE ~ (i <= ranges[n])
    <3>1. PartOf(n, i) = <<>>
      BY <2>3 DEF PartOf
    <3> QED
      BY <3>1
  <2> QED
    BY <2>2, <2>3
<1>2. s \in Seq(Seq(AllAddresses))
  BY <1>1, NodesExist DEF Node
<1>3. Row(i) = FlattenSeq(s)
  BY DEF Row, PartOf
<1> HIDE DEF s
<1>4. FlattenSeq(s) \in Seq(AllAddresses) /\ \E h : Offsets(h, s, FlattenSeq(s))
  BY <1>2, FlattenOffsets
<1> QED
  BY <1>3, <1>4 DEF s

LEMMA RowFacts ==
    ASSUME RangesOK, NEW i \in Nat, i > 0
    PROVE  /\ \A k \in 1 .. Len(Row(i)) : Row(i)[k][2] = i
           /\ \A p, q \in 1 .. Len(Row(i)) : Row(i)[p] = Row(i)[q] => p = q
<1> DEFINE s == [n \in Node |-> PartOf(n, i)]
<1>1. PICK h : Offsets(h, s, Row(i))
  BY RowOffsets
<1>2. Len(s) = Len(ranges) /\ \A n \in Node : s[n] = PartOf(n, i) /\ ranges[n] \in Nat
  BY NodesExist DEF Node
<1>3. ASSUME NEW n \in Node, NEW j \in 1 .. Len(s[n])
      PROVE  j = 1 /\ s[n][j] = <<n, i>>
  <2>1. s[n] = PartOf(n, i) /\ ranges[n] \in Nat
    BY <1>2
  <2>2. CASE i <= ranges[n]
    <3>1. s[n] = << <<n, i>> >>
      BY <2>1, <2>2 DEF PartOf
    <3> QED
      BY <3>1
  <2>3. CASE ~ (i <= ranges[n])
    <3>1. s[n] = <<>>
      BY <2>1, <2>3 DEF PartOf
    <3>2. Len(s[n]) = 0
      BY <3>1
    <3> QED
      BY <3>2
  <2> QED
    BY <2>2, <2>3
<1> HIDE DEF s
<1>4. 1 .. Len(s) = Node
  BY <1>2 DEF Node
<1>5. ASSUME NEW k \in 1 .. Len(Row(i)) PROVE Row(i)[k][2] = i
  <2>1. PICK n \in 1 .. Len(s) : \E j \in 1 .. Len(s[n]) : k = h[n - 1] + j
    BY <1>1 DEF Offsets
  <2>2. PICK j \in 1 .. Len(s[n]) : k = h[n - 1] + j
    BY <2>1
  <2>3. \A x \in 1 .. Len(s) : \A y \in 1 .. Len(s[x]) : Row(i)[h[x - 1] + y] = s[x][y]
    BY <1>1 DEF Offsets
  <2>4. Row(i)[k] = s[n][j]
    BY <2>2, <2>3, Zenon
  <2>5. Row(i)[k] = <<n, i>>
    BY <1>3, <1>4, <2>4
  <2> QED
    BY <2>5
<1>6. \A a, b \in 1 .. Len(s) : \A j \in 1 .. Len(s[a]), l \in 1 .. Len(s[b]) :
         s[a][j] = s[b][l] => a = b /\ j = l
  <2> SUFFICES ASSUME NEW a \in Node, NEW b \in Node,
                      NEW j \in 1 .. Len(s[a]), NEW l \in 1 .. Len(s[b]), s[a][j] = s[b][l]
               PROVE  a = b /\ j = l
    BY <1>4
  <2>1. j = 1 /\ s[a][j] = <<a, i>> /\ l = 1 /\ s[b][l] = <<b, i>>
    BY <1>3
  <2> QED
    BY <2>1
<1>7. \A p, q \in 1 .. Len(Row(i)) : Row(i)[p] = Row(i)[q] => p = q
  BY <1>1, <1>6, FlattenInjective
<1> QED
  BY <1>5, <1>7

Rows == 1 .. Max(ToSet(ranges))

LEMMA SlotsOffsets ==
    ASSUME RangesOK
    PROVE  /\ Slots \in Seq(AllAddresses)
           /\ \E h : Offsets(h, [i \in Rows |-> Row(i)], Slots)
<1> DEFINE s == [i \in Rows |-> Row(i)]
<1>1. Max(ToSet(ranges)) \in Nat
  BY LongestRange
<1>2. ASSUME NEW i \in Rows PROVE Row(i) \in Seq(AllAddresses)
  <2>1. i \in Nat /\ i > 0
    BY <1>1 DEF Rows
  <2> QED
    BY <2>1, RowOffsets
<1>3. s \in Seq(Seq(AllAddresses))
  BY <1>1, <1>2 DEF Rows
<1>4. Slots = FlattenSeq(s)
  BY DEF Slots, Rows
<1> HIDE DEF s
<1>5. FlattenSeq(s) \in Seq(AllAddresses) /\ \E h : Offsets(h, s, FlattenSeq(s))
  BY <1>3, FlattenOffsets
<1> QED
  BY <1>4, <1>5 DEF s

\* No address has two slots.
LEMMA SlotsInjective ==
    ASSUME RangesOK
    PROVE  \A p, q \in 1 .. Len(Slots) : Slots[p] = Slots[q] => p = q
<1> DEFINE s == [i \in Rows |-> Row(i)]
<1>1. PICK h : Offsets(h, s, Slots)
  BY SlotsOffsets
<1>2. 1 .. Len(s) = Rows /\ \A i \in Rows : s[i] = Row(i) /\ i \in Nat /\ i > 0
  BY LongestRange DEF Rows
<1> HIDE DEF s
<1>3. \A a, b \in 1 .. Len(s) : \A j \in 1 .. Len(s[a]), l \in 1 .. Len(s[b]) :
         s[a][j] = s[b][l] => a = b /\ j = l
  <2> SUFFICES ASSUME NEW a \in Rows, NEW b \in Rows,
                      NEW j \in 1 .. Len(Row(a)), NEW l \in 1 .. Len(Row(b)),
                      Row(a)[j] = Row(b)[l]
               PROVE  a = b /\ j = l
    BY <1>2
  <2>1. Row(a)[j][2] = a /\ Row(b)[l][2] = b
    BY <1>2, RowFacts
  <2>2. a = b
    BY <2>1
  <2> QED
    BY <1>2, <2>2, RowFacts
<1> QED
  BY <1>1, <1>3, FlattenInjective

-----------------------------------------------------------------------------
(* Types *)

User == [ip : AllAddresses, name : 1 .. Len(Pool), role : STRING]
UdpEntry == [id : Type \X Nat, role : {"initiator", "responder"},
             local : AllAddresses, peers : SUBSET AllAddresses]

Typed ==
    /\ RangesOK
    /\ plan \in Plan
    /\ users \in [Kind -> [Node -> Nat]]
    /\ cursor \in Nat
    /\ added \in [Type -> Nat]
    /\ udp \in [Node -> SUBSET UdpEntry]
    /\ assigned \in Seq(User)
    /\ rotate \in Nat

\* The step nobody takes.
Steady == UNCHANGED inputs

LEMMA InputsStay == ASSUME [Next]_vars PROVE Steady
BY DEF Next, vars, inputs, Steady, SplitUsers, AddSession, Refuse, AllAdded, AssignUser, SliceUsers

LEMMA SameTables ==
    ASSUME Steady
    PROVE  /\ Node' = Node /\ AllAddresses' = AllAddresses /\ Slots' = Slots /\ AllIps' = AllIps
           /\ User' = User /\ UdpEntry' = UdpEntry /\ RangesOK' = RangesOK
           /\ \A type \in Type : Sessions(type)' = Sessions(type)
                                 /\ Receivers(type)' = Receivers(type)
           /\ \A n \in Node : Addresses(n)' = Addresses(n)
<1>1. ranges' = ranges /\ plan' = plan
  BY DEF Steady, inputs
<1>2. Node' = Node
  BY <1>1 DEF Node
<1>3. AllAddresses' = AllAddresses /\ \A n \in Node : Addresses(n)' = Addresses(n)
  BY <1>1, <1>2 DEF AllAddresses, Addresses
<1>4. Slots' = Slots
  BY <1>1 DEF Slots, Row, Node
<1>5. AllIps' = AllIps
  BY <1>1, <1>2 DEF AllIps
<1>6. User' = User /\ UdpEntry' = UdpEntry /\ RangesOK' = RangesOK
  BY <1>1, <1>3 DEF User, UdpEntry, RangesOK
<1>7. \A type \in Type : Sessions(type)' = Sessions(type)
                         /\ Receivers(type)' = Receivers(type)
  BY <1>1, <1>4 DEF Sessions, Receivers
<1> QED
  BY <1>2, <1>3, <1>4, <1>5, <1>6, <1>7

LEMMA PlanNumbers ==
    ASSUME Typed
    PROVE  /\ \A kind \in Kind : Wanted(kind) \in Nat
           /\ \A type \in Type : Sessions(type) \in Nat
BY DistributorAssumption DEF Typed, Plan, Wanted, Sessions, DistributorAssumption

LEMMA SlotPicked ==
    ASSUME RangesOK, cursor \in Nat, Slots # <<>>, NEW i \in Nat, i > 0
    PROVE  /\ Len(Slots) \in Nat /\ Len(Slots) > 0
           /\ ((cursor + i - 1) % Len(Slots)) + 1 \in 1 .. Len(Slots)
           /\ NextSlot(i) \in AllAddresses
<1>1. Slots \in Seq(AllAddresses)
  BY SlotsOffsets
<1>2. Len(Slots) \in Nat /\ Len(Slots) > 0
  BY <1>1, EmptySeq
<1>3. cursor + i - 1 \in Nat
  OBVIOUS
<1>4. (cursor + i - 1) % Len(Slots) \in 0 .. Len(Slots) - 1
  BY <1>2, <1>3, ModRange
<1> DEFINE k == ((cursor + i - 1) % Len(Slots)) + 1
<1>5. k \in 1 .. Len(Slots)
  BY <1>2, <1>4
<1>6. Slots[k] \in AllAddresses
  <2> HIDE DEF k
  <2> QED
    BY <1>1, <1>5
<1> QED
  BY <1>2, <1>5, <1>6 DEF NextSlot

LEMMA ReceiversFit ==
    ASSUME RangesOK, NEW type \in Type
    PROVE  /\ Receivers(type) \in 1 .. 4
           /\ Len(Slots) > 1 => Receivers(type) <= Len(Slots) - 1
<1> DEFINE L == Len(Slots)
<1>1. L \in Nat
  BY SlotsOffsets
<1>2. Receivers(type) = IF type = "screenshare" /\ L > 2
                          THEN IF L - 1 < 4 THEN L - 1 ELSE 4 ELSE 1
  BY DEF Receivers
<1> HIDE DEF L
<1>3. Receivers(type) \in 1 .. 4 /\ (L > 1 => Receivers(type) <= L - 1)
  BY <1>1, <1>2
<1> QED
  BY <1>3 DEF L

\* The entries of the next session of a type.
NewEntries(type) ==
    Entries(type, NextSlot(1), {NextSlot(1 + i) : i \in 1 .. Receivers(type)})

LEMMA NewEntriesTyped ==
    ASSUME Typed, Slots # <<>>, NEW type \in Type
    PROVE  NewEntries(type) \subseteq UdpEntry
<1>1. NextSlot(1) \in AllAddresses
  BY SlotPicked DEF Typed
<1>2. ASSUME NEW i \in 1 .. Receivers(type) PROVE NextSlot(1 + i) \in AllAddresses
  <2>1. 1 + i \in Nat /\ 1 + i > 0
    BY ReceiversFit DEF Typed
  <2> QED
    BY <2>1, SlotPicked DEF Typed
<1>3. <<type, added[type]>> \in Type \X Nat
  BY DEF Typed
<1> DEFINE receivers == {NextSlot(1 + i) : i \in 1 .. Receivers(type)}
           sender == NextSlot(1)
<1>4. receivers \subseteq AllAddresses /\ sender \in AllAddresses
  BY <1>1, <1>2
<1> HIDE DEF receivers, sender
<1>5. Entries(type, sender, receivers) \subseteq UdpEntry
  BY <1>3, <1>4 DEF Entries, Entry, UdpEntry
<1> QED
  BY <1>5 DEF NewEntries, sender, receivers

LEMMA TypedInit == Init => Typed
<1> SUFFICES ASSUME Init PROVE Typed
  OBVIOUS
<1>1. RangesOK
  BY DistributorAssumption DEF Init, RangesOK, DistributorAssumption
<1>2. users \in [Kind -> [Node -> Nat]]
  BY DEF Init
<1>3. /\ plan \in Plan /\ cursor \in Nat /\ rotate \in Nat /\ assigned \in Seq(User)
      /\ added \in [Type -> Nat] /\ udp \in [Node -> SUBSET UdpEntry]
  BY DEF Init
<1> QED
  BY <1>1, <1>2, <1>3 DEF Typed

LEMMA AssignedTyped ==
    ASSUME Typed, AssignUser
    PROVE  assigned' \in Seq(User) /\ rotate' \in Nat
<1> DEFINE name == (Len(assigned) % Len(Pool)) + 1
           turn == (rotate % Len(Roles)) + 1
           u == [ip |-> AllIps[Len(assigned) + 1], name |-> name, role |-> RoleOf(name)]
<1>1. Len(assigned) \in Nat /\ Len(assigned) + 1 \in 1 .. Len(AllIps) /\ AllIps \in Seq(AllAddresses)
  BY AllIpsOffsets DEF Typed, AssignUser
<1>2. /\ Pool \in Seq(STRING \cup {None}) /\ Len(Pool) \in Nat /\ Len(Pool) > 0
      /\ Roles \in Seq(STRING) /\ Len(Roles) \in Nat /\ Len(Roles) > 0
  BY DistributorAssumption, EmptySeq DEF DistributorAssumption
<1>3. name \in 1 .. Len(Pool)
  <2>1. Len(assigned) % Len(Pool) \in 0 .. Len(Pool) - 1
    BY <1>1, <1>2, ModRange
  <2> QED
    BY <1>2, <2>1
<1>4. turn \in 1 .. Len(Roles)
  <2>1. rotate % Len(Roles) \in 0 .. Len(Roles) - 1
    BY <1>2, ModRange DEF Typed
  <2> QED
    BY <1>2, <2>1
<1>5. RoleOf(name) \in STRING
  <2> HIDE DEF name
  <2>1. Roles[turn] \in STRING
    <3> HIDE DEF turn
    <3> QED
      BY <1>2, <1>4
  <2>2. Pool[name] \in STRING \cup {None}
    BY <1>2, <1>3
  <2> QED
    BY <2>1, <2>2 DEF RoleOf
<1>6. AllIps[Len(assigned) + 1] \in AllAddresses
  BY <1>1
<1>7. u \in User
  <2> HIDE DEF name
  <2> QED
    BY <1>3, <1>5, <1>6 DEF User
<1>8. assigned' = Append(assigned, u) /\ rotate' \in {rotate, rotate + 1}
  BY DEF AssignUser
<1> HIDE DEF u
<1> QED
  BY <1>7, <1>8, AppendProperties DEF Typed

LEMMA TypedStep == Typed /\ [Next]_vars => Typed'
<1> SUFFICES ASSUME Typed, [Next]_vars PROVE Typed'
  OBVIOUS
<1>1. Steady /\ ranges' = ranges /\ plan' = plan
  BY InputsStay DEF Steady, inputs
<1>2. Node' = Node /\ User' = User /\ UdpEntry' = UdpEntry /\ RangesOK' /\ Plan' = Plan
  BY <1>1, SameTables DEF Typed, Plan
<1> SUFFICES /\ users' \in [Kind -> [Node -> Nat]] /\ cursor' \in Nat /\ added' \in [Type -> Nat]
             /\ udp' \in [Node -> SUBSET UdpEntry] /\ assigned' \in Seq(User) /\ rotate' \in Nat
  <2> plan' \in Plan'
    BY <1>1, <1>2 DEF Typed
  <2> QED
    BY <1>2 DEF Typed
<1>3. CASE SplitUsers
  <2>1. ASSUME NEW kind \in Kind, NEW n \in Node PROVE ShareOf(Wanted(kind), n) \in Nat
    <3>1. Wanted(kind) \in Nat /\ Len(ranges) \in Nat /\ Len(ranges) > 0
      BY PlanNumbers, NodesExist DEF Typed
    <3>2. Wanted(kind) \div Len(ranges) \in Nat
      BY <3>1, ModRange
    <3> QED
      BY <3>2 DEF ShareOf
  <2> QED
    BY <1>3, <2>1 DEF SplitUsers, Typed
<1>4. ASSUME NEW type \in Type, AddSession(type)
      PROVE  /\ users' \in [Kind -> [Node -> Nat]] /\ cursor' \in Nat /\ added' \in [Type -> Nat]
             /\ udp' \in [Node -> SUBSET UdpEntry] /\ assigned' \in Seq(User) /\ rotate' \in Nat
  <2>1. NewEntries(type) \subseteq UdpEntry
    BY <1>4, NewEntriesTyped DEF AddSession
  <2>2. udp' = [n \in Node |-> udp[n] \cup {e \in NewEntries(type) : e.local[1] = n}]
    BY <1>4 DEF AddSession, NewEntries
  <2>3. udp' \in [Node -> SUBSET UdpEntry]
    BY <2>1, <2>2 DEF Typed
  <2>4. cursor' \in Nat
    <3>1. Receivers(type) \in 1 .. 4
      BY ReceiversFit DEF Typed
    <3> QED
      BY <1>4, <3>1 DEF AddSession, Advance, Typed
  <2>5. added' \in [Type -> Nat]
    BY <1>4 DEF AddSession, Typed
  <2> QED
    BY <1>4, <2>3, <2>4, <2>5 DEF AddSession, Typed
<1>5. CASE Refuse
  BY <1>5 DEF Refuse, Typed
<1>6. CASE AllAdded
  BY <1>6 DEF AllAdded, Typed
<1>7. CASE AssignUser
  BY <1>7, AssignedTyped DEF AssignUser, Typed
<1>8. CASE SliceUsers
  BY <1>8 DEF SliceUsers, Typed
<1>9. CASE UNCHANGED vars
  BY <1>9 DEF vars, Typed
<1> QED
  BY <1>3, <1>4, <1>5, <1>6, <1>7, <1>8, <1>9 DEF Next

-----------------------------------------------------------------------------
(* Roles *)

\* Where the rotation stands: the first rotate % Len(Roles) roles are held by
\* one more user without a fixed role than the others.
RolesShared ==
    /\ \A i \in DOMAIN assigned : Pool[assigned[i].name] \in {None, assigned[i].role}
    /\ \E q \in Nat : \A j \in 1 .. Len(Roles) :
          /\ IsFiniteSet(Holders(Roles[j]))
          /\ Cardinality(Holders(Roles[j])) = q + (IF j <= (rotate % Len(Roles)) THEN 1 ELSE 0)

LEMMA RolesExist ==
    /\ Pool \in Seq(STRING \cup {None}) /\ Len(Pool) \in Nat /\ Len(Pool) > 0
    /\ Roles \in Seq(STRING) /\ Len(Roles) \in Nat /\ Len(Roles) > 0
BY DistributorAssumption, EmptySeq DEF DistributorAssumption

LEMMA RolesSharedInit == Init => RolesShared
<1> SUFFICES ASSUME Init PROVE RolesShared
  OBVIOUS
<1>1. DOMAIN assigned = {} /\ rotate = 0
  BY DEF Init
<1>2. 0 % Len(Roles) = 0
  <2>1. 0 % Len(Roles) \in 0 .. Len(Roles) - 1 /\ 0 \div Len(Roles) \in Nat
        /\ 0 = Len(Roles) * (0 \div Len(Roles)) + (0 % Len(Roles))
    BY RolesExist, ModRange
  <2> QED
    BY <2>1, RolesExist
<1>3. \A r : Holders(r) = {}
  BY <1>1 DEF Holders
<1>4. IsFiniteSet({}) /\ Cardinality({}) = 0
  BY FS_EmptySet
<1>5. \A j \in 1 .. Len(Roles) :
         /\ IsFiniteSet(Holders(Roles[j]))
         /\ Cardinality(Holders(Roles[j])) = 0 + (IF j <= (rotate % Len(Roles)) THEN 1 ELSE 0)
  <2> SUFFICES ASSUME NEW j \in 1 .. Len(Roles)
               PROVE  /\ IsFiniteSet(Holders(Roles[j]))
                      /\ Cardinality(Holders(Roles[j])) = 0 + (IF j <= (rotate % Len(Roles)) THEN 1 ELSE 0)
    OBVIOUS
  <2>1. Holders(Roles[j]) = {}
    BY <1>3
  <2>2. 0 + (IF j <= (rotate % Len(Roles)) THEN 1 ELSE 0) = 0
    BY <1>1, <1>2
  <2> QED
    BY <1>4, <2>1, <2>2
<1> QED
  BY <1>1, <1>5 DEF RolesShared

\* What a step of the loop adds to the holders of each role.
LEMMA RolesSharedAssign ==
    ASSUME IsInjective(Roles), Typed, RolesShared, AssignUser
    PROVE  RolesShared'
<1> DEFINE L == Len(Roles)
           n == Len(assigned)
           name == (n % Len(Pool)) + 1
           turn == (rotate % L) + 1
           u == [ip |-> AllIps[n + 1], name |-> name, role |-> RoleOf(name)]
<1>1. n \in Nat /\ DOMAIN assigned = 1 .. n /\ assigned \in Seq(User) /\ rotate \in Nat
  BY DEF Typed
<1>2. L \in Nat /\ L > 0 /\ Roles \in Seq(STRING) /\ DOMAIN Roles = 1 .. L
  BY RolesExist
<1>3. /\ assigned' = Append(assigned, u)
      /\ rotate' = IF Pool[name] = None THEN rotate + 1 ELSE rotate
  BY DEF AssignUser
<1>4. u.name = name /\ u.role = IF Pool[name] # None THEN Pool[name] ELSE Roles[turn]
  BY DEF RoleOf
<1>5. turn \in 1 .. L
  BY <1>1, <1>2, ModRange
<1> HIDE DEF n, name, turn, u, L
<1>6. /\ DOMAIN assigned' = 1 .. n + 1
      /\ assigned'[n + 1] = u
      /\ \A i \in 1 .. n : assigned'[i] = assigned[i]
  BY <1>1, <1>3, AppendProperties DEF n
<1>7. \A i \in DOMAIN assigned' : Pool[assigned'[i].name] \in {None, assigned'[i].role}
  <2> SUFFICES ASSUME NEW i \in 1 .. n + 1
               PROVE  Pool[assigned'[i].name] \in {None, assigned'[i].role}
    BY <1>6
  <2>1. CASE i = n + 1
    BY <1>4, <1>6, <2>1
  <2>2. CASE i # n + 1
    <3>1. i \in 1 .. n
      BY <1>1, <2>2
    <3> QED
      BY <1>1, <1>6, <3>1 DEF RolesShared
  <2> QED
    BY <2>1, <2>2
<1>8. ASSUME NEW r
      PROVE  Holders(r)' = Holders(r) \cup (IF Pool[name] = None /\ u.role = r THEN {n + 1} ELSE {})
  <2>1. Holders(r)' = {i \in 1 .. n + 1 : Pool[assigned'[i].name] = None /\ assigned'[i].role = r}
    BY <1>6 DEF Holders
  <2>2. Holders(r) = {i \in 1 .. n : Pool[assigned[i].name] = None /\ assigned[i].role = r}
    BY <1>1 DEF Holders
  <2>3. 1 .. n + 1 = (1 .. n) \cup {n + 1}
    BY <1>1
  <2>4. Pool[assigned'[n + 1].name] = Pool[name] /\ assigned'[n + 1].role = u.role
    BY <1>4, <1>6
  <2> QED
    BY <1>6, <2>1, <2>2, <2>3, <2>4
<1>9. \A r : n + 1 \notin Holders(r)
  BY <1>1 DEF Holders
<1>10. PICK q \in Nat : \A j \in 1 .. L :
          /\ IsFiniteSet(Holders(Roles[j]))
          /\ Cardinality(Holders(Roles[j])) = q + (IF j <= (rotate % L) THEN 1 ELSE 0)
  BY DEF RolesShared, L
<1>11. CASE Pool[name] # None
  <2>1. \A r : Holders(r)' = Holders(r)
    BY <1>8, <1>11
  <2>2. rotate' = rotate
    BY <1>3, <1>11
  <2>3. \A j \in 1 .. L :
          /\ IsFiniteSet(Holders(Roles[j])')
          /\ Cardinality(Holders(Roles[j])') = q + (IF j <= (rotate' % L) THEN 1 ELSE 0)
    BY <1>10, <2>1, <2>2
  <2> QED
    BY <1>7, <2>3 DEF RolesShared, L
<1>12. CASE Pool[name] = None
  <2>1. u.role = Roles[turn] /\ rotate' = rotate + 1
    BY <1>3, <1>4, <1>12
  <2>2. rotate' % L = IF turn < L THEN turn ELSE 0
    <3>1. 1 \in 0 .. L /\ turn - 1 = rotate % L
      BY <1>1, <1>2, ModRange DEF turn
    <3>2. (rotate + 1) % L = IF (rotate % L) + 1 < L THEN (rotate % L) + 1 ELSE (rotate % L) + 1 - L
      BY <1>1, <1>2, <3>1, ModPlus
    <3> QED
      BY <1>2, <1>5, <2>1, <3>1, <3>2
  <2>3. rotate % L = turn - 1
    BY <1>1, <1>2, ModRange DEF turn
  <2>4. ASSUME NEW j \in 1 .. L
        PROVE  /\ IsFiniteSet(Holders(Roles[j])')
               /\ Cardinality(Holders(Roles[j])') =
                    q + (IF j <= (rotate % L) THEN 1 ELSE 0) + (IF j = turn THEN 1 ELSE 0)
    <3>1. IsFiniteSet(Holders(Roles[j]))
          /\ Cardinality(Holders(Roles[j])) = q + (IF j <= (rotate % L) THEN 1 ELSE 0)
      BY <1>10
    <3>2. Roles[turn] = Roles[j] <=> j = turn
      BY <1>2, <1>5 DEF IsInjective
    <3>3. CASE j = turn
      <4>1. Holders(Roles[j])' = Holders(Roles[j]) \cup {n + 1}
        BY <1>8, <1>12, <2>1, <3>3
      <4>2. /\ IsFiniteSet(Holders(Roles[j]) \cup {n + 1})
            /\ Cardinality(Holders(Roles[j]) \cup {n + 1}) = Cardinality(Holders(Roles[j])) + 1
        BY <1>9, <3>1, FS_AddElement
      <4> QED
        BY <1>5, <2>3, <3>1, <3>3, <4>1, <4>2
    <3>4. CASE j # turn
      <4>1. Holders(Roles[j])' = Holders(Roles[j])
        BY <1>8, <1>12, <2>1, <3>2, <3>4
      <4> QED
        BY <1>5, <2>3, <3>1, <3>4, <4>1
    <3> QED
      BY <3>3, <3>4
  <2> DEFINE p == IF turn < L THEN q ELSE q + 1
  <2>5. p \in Nat
    OBVIOUS
  <2>6. ASSUME NEW j \in 1 .. L
        PROVE  /\ IsFiniteSet(Holders(Roles[j])')
               /\ Cardinality(Holders(Roles[j])') = p + (IF j <= (rotate' % L) THEN 1 ELSE 0)
    <3>1. Cardinality(Holders(Roles[j])') =
            q + (IF j <= turn - 1 THEN 1 ELSE 0) + (IF j = turn THEN 1 ELSE 0)
      BY <2>3, <2>4
    <3>2. j \in 1 .. L /\ turn \in 1 .. L
      BY <1>5
    <3>3. CASE turn < L
      BY <1>2, <2>2, <2>4, <3>1, <3>2, <3>3
    <3>4. CASE ~ (turn < L)
      BY <1>2, <2>2, <2>4, <3>1, <3>2, <3>4
    <3> QED
      BY <3>3, <3>4
  <2> HIDE DEF p
  <2> QED
    BY <1>7, <2>5, <2>6 DEF RolesShared, L
<1> QED
  BY <1>11, <1>12

LEMMA RolesSharedStep == ASSUME IsInjective(Roles) PROVE Typed /\ RolesShared /\ [Next]_vars => RolesShared'
<1> SUFFICES ASSUME Typed, RolesShared, [Next]_vars PROVE RolesShared'
  OBVIOUS
<1>1. CASE AssignUser
  BY <1>1, RolesSharedAssign
<1>2. CASE UNCHANGED <<assigned, rotate>>
  BY <1>2 DEF RolesShared, Holders
<1>3. AssignUser \/ UNCHANGED <<assigned, rotate>>
  BY DEF Next, vars, SplitUsers, AddSession, Refuse, AllAdded, SliceUsers
<1> QED
  BY <1>1, <1>2, <1>3

\* user_pool.py:93-99: whatever the pool, the roles and the number of addresses,
\* the users without a fixed role are spread evenly over the roles of the plan at
\* every iteration of assign_users(), and no fixed role is replaced.  The plan
\* names no role twice: the dashboard adds a role to the list only when it is
\* not in it.
THEOREM RolesStayEven ==
    ASSUME IsInjective(Roles)
    PROVE  Spec => []RolesAreEven
<1>1. Init => Typed /\ RolesShared
  BY TypedInit, RolesSharedInit
<1>2. Typed /\ RolesShared /\ [Next]_vars => (Typed /\ RolesShared)'
  BY TypedStep, RolesSharedStep
<1>3. Typed /\ RolesShared => RolesAreEven
  <2> SUFFICES ASSUME Typed, RolesShared PROVE RolesAreEven
    OBVIOUS
  <2>1. PICK q \in Nat : \A j \in 1 .. Len(Roles) :
           Cardinality(Holders(Roles[j])) = q + (IF j <= (rotate % Len(Roles)) THEN 1 ELSE 0)
    BY DEF RolesShared
  <2>2. ASSUME NEW r \in ToSet(Roles)
        PROVE  Cardinality(Holders(r)) \in {q, q + 1}
    <3>1. PICK j \in 1 .. Len(Roles) : r = Roles[j]
      BY RolesExist DEF ToSet
    <3> QED
      BY <2>1, <3>1
  <2>3. \A r, s \in ToSet(Roles) : Cardinality(Holders(r)) <= Cardinality(Holders(s)) + 1
    BY <2>2
  <2> QED
    BY <2>3 DEF RolesShared, RolesAreEven
<1> QED
  BY <1>1, <1>2, <1>3, PTL DEF Spec

-----------------------------------------------------------------------------
(* The two ends of a session *)

IsEnd(f, role, id, local) == f.role = role /\ f.id = id /\ f.local = local

\* Every entry is with the node that owns its address, and for every peer the
\* node of the peer has the entry of the other end.
PairedIn(nodes, table, addresses, slots) ==
    \A n \in nodes : \A e \in table[n] :
        /\ e.local \in addresses /\ e.local[1] = n
        /\ Len(slots) > 1 => e.local \notin e.peers
        /\ e.role = "initiator" => \A p \in e.peers : \E m \in nodes : \E f \in table[m] :
              IsEnd(f, "responder", e.id, p) /\ f.peers = {e.local}
        /\ e.role = "responder" =>
              \E s \in e.peers : e.peers = {s} /\ \E m \in nodes : \E f \in table[m] :
                 IsEnd(f, "initiator", e.id, s) /\ e.local \in f.peers

Paired == PairedIn(Node, udp, AllAddresses, Slots)

LEMMA OwnersExist ==
    ASSUME NEW a \in AllAddresses
    PROVE  a[1] \in Node /\ a \in Addresses(a[1])
BY DEF AllAddresses, Addresses

\* As long as there is somebody else, a session is not with oneself.
LEMMA PeersDiffer ==
    ASSUME Typed, NEW type \in Type, Len(Slots) > 1, NEW i \in 1 .. Receivers(type)
    PROVE  NextSlot(1) # NextSlot(1 + i)
<1> DEFINE L == Len(Slots)
<1>1. cursor \in Nat /\ Slots # <<>> /\ L \in Nat
  BY SlotsOffsets DEF Typed
<1>2. i \in 1 .. L - 1
  BY <1>1, ReceiversFit DEF Typed
<1>3. NextSlot(1) = Slots[(cursor % L) + 1] /\ NextSlot(1 + i) = Slots[((cursor + i) % L) + 1]
  <2>1. cursor + 1 - 1 = cursor /\ cursor + (1 + i) - 1 = cursor + i
    BY <1>1, <1>2
  <2> QED
    BY <2>1 DEF NextSlot
<1>4. (cursor % L) + 1 \in 1 .. L /\ ((cursor + i) % L) + 1 \in 1 .. L
  BY <1>1, <1>2, ModRange
<1>5. ASSUME (cursor % L) + 1 = ((cursor + i) % L) + 1 PROVE FALSE
  <2>1. cursor % L = (cursor + i) % L
    <3> DEFINE x == cursor % L
               y == (cursor + i) % L
    <3>1. x + 1 \in 1 .. L /\ y + 1 \in 1 .. L /\ x + 1 = y + 1 /\ x \in Int /\ y \in Int
      BY <1>1, <1>2, <1>4, <1>5
    <3> HIDE DEF x, y
    <3>2. x = y
      BY <3>1
    <3> QED
      BY <3>2 DEF x, y
  <2>2. 0 \in 0 .. L - 1 /\ i \in 0 .. L - 1 /\ L > 0 /\ cursor + 0 = cursor
    BY <1>1, <1>2
  <2>3. L \in Nat /\ cursor \in Nat /\ (cursor + 0) % L = (cursor + i) % L
    BY <1>1, <2>1, <2>2
  <2> HIDE DEF L
  <2>4. 0 = i
    BY <2>2, <2>3, ModApart
  <2> QED
    BY <1>2, <2>4
<1>6. (cursor % L) + 1 # ((cursor + i) % L) + 1
  BY <1>5
<1> HIDE DEF L
<1>7. \A x, y \in 1 .. L : Slots[x] = Slots[y] => x = y
  BY SlotsInjective DEF Typed, L
<1> QED
  BY <1>3, <1>4, <1>6, <1>7

LEMMA PairedAdd ==
    ASSUME Typed, Paired, Steady, NEW type \in Type, AddSession(type)
    PROVE  Paired'
<1> DEFINE sender == NextSlot(1)
           receivers == {NextSlot(1 + i) : i \in 1 .. Receivers(type)}
           new == Entries(type, sender, receivers)
           id == <<type, added[type]>>
<1>1. Slots # <<>> /\ udp' = [n \in Node |-> udp[n] \cup {e \in new : e.local[1] = n}]
  BY DEF AddSession
<1>2. Node' = Node /\ Slots' = Slots /\ AllAddresses' = AllAddresses
  BY SameTables
<1>3. new \subseteq UdpEntry
  BY <1>1, NewEntriesTyped DEF NewEntries
<1>4. sender \in AllAddresses /\ receivers \subseteq AllAddresses
  <2>1. \A i \in 1 .. Receivers(type) : 1 + i \in Nat /\ 1 + i > 0
    BY ReceiversFit DEF Typed
  <2> QED
    BY <1>1, <2>1, SlotPicked DEF Typed
<1>5. Len(Slots) > 1 => sender \notin receivers
  BY PeersDiffer
<1> HIDE DEF sender, receivers
<1>6. \A e \in new : \/ e = [id |-> id, role |-> "initiator", local |-> sender, peers |-> receivers]
                     \/ \E r \in receivers :
                           e = [id |-> id, role |-> "responder", local |-> r, peers |-> {sender}]
  BY DEF Entries, Entry
<1>7. /\ [id |-> id, role |-> "initiator", local |-> sender, peers |-> receivers] \in new
      /\ \A r \in receivers : [id |-> id, role |-> "responder", local |-> r, peers |-> {sender}] \in new
  BY DEF Entries, Entry
<1> HIDE DEF new, id
<1>8. \A n \in Node : udp[n] \subseteq udp'[n]
  BY <1>1
<1>9. \A e \in new : e.local \in AllAddresses
                     /\ e.local[1] \in Node /\ e \in udp'[e.local[1]]
  BY <1>1, <1>3, OwnersExist DEF UdpEntry
<1>10. ASSUME NEW n \in Node, NEW e \in udp'[n]
       PROVE  /\ e.local \in AllAddresses /\ e.local[1] = n
              /\ Len(Slots) > 1 => e.local \notin e.peers
              /\ e.role = "initiator" => \A p \in e.peers : \E m \in Node : \E f \in udp'[m] :
                    IsEnd(f, "responder", e.id, p) /\ f.peers = {e.local}
              /\ e.role = "responder" => \E s \in e.peers : e.peers = {s} /\ \E m \in Node : \E f \in udp'[m] :
                    IsEnd(f, "initiator", e.id, s) /\ e.local \in f.peers
  <2>1. CASE e \in udp[n]
    <3>1. /\ e.local \in AllAddresses /\ e.local[1] = n
          /\ Len(Slots) > 1 => e.local \notin e.peers
      BY <2>1 DEF Paired, PairedIn
    <3>2. ASSUME e.role = "initiator", NEW p \in e.peers
          PROVE  \E m \in Node : \E f \in udp'[m] :
                    IsEnd(f, "responder", e.id, p) /\ f.peers = {e.local}
      <4>0. \A q \in e.peers : \E m \in Node : \E f \in udp[m] :
               IsEnd(f, "responder", e.id, q) /\ f.peers = {e.local}
        BY <2>1, <3>2, Zenon DEF Paired, PairedIn
      <4>1. PICK m \in Node : \E f \in udp[m] : IsEnd(f, "responder", e.id, p) /\ f.peers = {e.local}
        BY <3>2, <4>0, Zenon
      <4> QED
        BY <1>8, <4>1
    <3>3. ASSUME e.role = "responder"
          PROVE  \E s \in e.peers : e.peers = {s} /\ \E m \in Node : \E f \in udp'[m] :
                    IsEnd(f, "initiator", e.id, s) /\ e.local \in f.peers
      <4>1. PICK s \in e.peers : e.peers = {s} /\ \E m \in Node : \E f \in udp[m] :
               IsEnd(f, "initiator", e.id, s) /\ e.local \in f.peers
        BY <2>1, <3>3 DEF Paired, PairedIn
      <4>2. PICK m \in Node : \E f \in udp[m] : IsEnd(f, "initiator", e.id, s) /\ e.local \in f.peers
        BY <4>1
      <4> QED
        BY <1>8, <4>1, <4>2
    <3> QED
      BY <3>1, <3>2, <3>3
  <2>2. CASE e \notin udp[n]
    <3>1. e \in new /\ e.local[1] = n
      BY <1>1, <2>2
    <3>2. e.local \in AllAddresses /\ e.local[1] = n
      BY <1>9, <3>1
    <3>3. CASE e = [id |-> id, role |-> "initiator", local |-> sender, peers |-> receivers]
      <4>1. ASSUME NEW p \in e.peers
            PROVE  \E m \in Node : \E f \in udp'[m] :
                      IsEnd(f, "responder", e.id, p) /\ f.peers = {e.local}
        <5> DEFINE f == [id |-> id, role |-> "responder", local |-> p, peers |-> {sender}]
        <5>1. f \in new
          BY <1>7, <3>3, <4>1
        <5>2. f.local[1] \in Node /\ f \in udp'[f.local[1]]
          BY <1>9, <5>1
        <5>3. IsEnd(f, "responder", e.id, p) /\ f.peers = {e.local}
          BY <3>3 DEF IsEnd
        <5> HIDE DEF f
        <5> QED
          BY <5>2, <5>3
      <4>2. e.local = sender /\ e.peers = receivers /\ e.role = "initiator"
        BY <3>3
      <4> QED
        BY <1>5, <3>2, <4>1, <4>2
    <3>4. ASSUME NEW r \in receivers,
                 e = [id |-> id, role |-> "responder", local |-> r, peers |-> {sender}]
          PROVE  /\ Len(Slots) > 1 => e.local \notin e.peers
                 /\ e.role = "responder"
                 /\ \E s \in e.peers : e.peers = {s} /\ \E m \in Node : \E f \in udp'[m] :
                       IsEnd(f, "initiator", e.id, s) /\ e.local \in f.peers
      <4> DEFINE f == [id |-> id, role |-> "initiator", local |-> sender, peers |-> receivers]
      <4>1. f \in new
        BY <1>7
      <4>2. f.local[1] \in Node /\ f \in udp'[f.local[1]]
        BY <1>9, <4>1
      <4>3. IsEnd(f, "initiator", e.id, sender) /\ e.local \in f.peers
        BY <3>4 DEF IsEnd
      <4> HIDE DEF f
      <4>4. e.local = r /\ e.peers = {sender} /\ e.role = "responder" /\ sender \in e.peers
        BY <3>4
      <4>5. Len(Slots) > 1 => e.local \notin e.peers
        BY <1>5, <4>4
      <4> QED
        BY <4>2, <4>3, <4>4, <4>5
    <3> QED
      BY <1>6, <3>1, <3>2, <3>3, <3>4
  <2> QED
    BY <2>1, <2>2
<1> QED
  <2>1. PairedIn(Node, udp', AllAddresses, Slots)
    BY <1>10, Zenon DEF PairedIn
  <2> QED
    BY <1>2, <2>1 DEF Paired

LEMMA PairedStep == Typed /\ Paired /\ [Next]_vars => Paired'
<1> SUFFICES ASSUME Typed, Paired, [Next]_vars PROVE Paired'
  OBVIOUS
<1>1. Steady
  BY InputsStay
<1>2. CASE \E type \in Type : AddSession(type)
  BY <1>1, <1>2, PairedAdd
<1>3. CASE UNCHANGED udp
  <2>1. Node' = Node /\ Slots' = Slots /\ AllAddresses' = AllAddresses
    BY <1>1, SameTables
  <2> QED
    BY <1>3, <2>1 DEF Paired
<1>4. (\E type \in Type : AddSession(type)) \/ UNCHANGED udp
  BY DEF Next, vars, SplitUsers, Refuse, AllAdded, AssignUser, SliceUsers
<1> QED
  BY <1>2, <1>3, <1>4

LEMMA EndsAre ==
    ASSUME NEW role
    PROVE  /\ \A x \in Ends(role) : \E n \in Node : \E e \in udp[n] : \E p \in e.peers :
                 e.role = role /\ x = [id |-> e.id, node |-> n, local |-> e.local, peer |-> p]
           /\ \A n \in Node : \A e \in udp[n] : \A p \in e.peers :
                 e.role = role =>
                    [id |-> e.id, node |-> n, local |-> e.local, peer |-> p] \in Ends(role)
BY DEF Ends, EndsOf

LEMMA PairedEndsMatch == Paired => EndsMatch
<1> SUFFICES ASSUME Paired PROVE EndsMatch
  OBVIOUS
<1>1. ASSUME NEW role \in {"initiator", "responder"}, NEW x \in Ends(role)
      PROVE  x.local \in Addresses(x.node) /\ (Len(Slots) > 1 => x.local # x.peer)
  <2>1. PICK n \in Node : \E e \in udp[n] : \E p \in e.peers :
           e.role = role /\ x = [id |-> e.id, node |-> n, local |-> e.local, peer |-> p]
    BY EndsAre
  <2>2. PICK e \in udp[n] : \E p \in e.peers :
           e.role = role /\ x = [id |-> e.id, node |-> n, local |-> e.local, peer |-> p]
    BY <2>1
  <2>3. e.local \in Addresses(n) /\ (Len(Slots) > 1 => e.local \notin e.peers)
    BY OwnersExist DEF Paired, PairedIn
  <2> QED
    BY <2>2, <2>3
<1>2. ASSUME NEW x \in Ends("initiator")
      PROVE  \E y \in Ends("responder") : <<x.id, x.local, x.peer>> = <<y.id, y.peer, y.local>>
  <2>1. PICK n \in Node : \E e \in udp[n] : \E p \in e.peers :
           e.role = "initiator" /\ x = [id |-> e.id, node |-> n, local |-> e.local, peer |-> p]
    BY EndsAre
  <2>2. PICK e \in udp[n] : \E p \in e.peers :
           e.role = "initiator" /\ x = [id |-> e.id, node |-> n, local |-> e.local, peer |-> p]
    BY <2>1
  <2>3. PICK p \in e.peers : e.role = "initiator" /\ x = [id |-> e.id, node |-> n, local |-> e.local, peer |-> p]
    BY <2>2
  <2>0. \A q \in e.peers : \E m \in Node : \E f \in udp[m] :
           IsEnd(f, "responder", e.id, q) /\ f.peers = {e.local}
    BY <2>3, Zenon DEF Paired, PairedIn
  <2>4. PICK m \in Node : \E f \in udp[m] : IsEnd(f, "responder", e.id, p) /\ f.peers = {e.local}
    BY <2>0, <2>3, Zenon
  <2>5. PICK f \in udp[m] : IsEnd(f, "responder", e.id, p) /\ f.peers = {e.local}
    BY <2>4
  <2> DEFINE y == [id |-> f.id, node |-> m, local |-> f.local, peer |-> e.local]
  <2>6. f.role = "responder" /\ e.local \in f.peers
    BY <2>5 DEF IsEnd
  <2>7. y \in Ends("responder")
    BY <2>6, EndsAre
  <2>8. <<x.id, x.local, x.peer>> = <<y.id, y.peer, y.local>>
    BY <2>3, <2>5 DEF IsEnd
  <2> QED
    BY <2>7, <2>8
<1>3. ASSUME NEW y \in Ends("responder")
      PROVE  \E x \in Ends("initiator") : <<x.id, x.local, x.peer>> = <<y.id, y.peer, y.local>>
  <2>1. PICK n \in Node : \E e \in udp[n] : \E p \in e.peers :
           e.role = "responder" /\ y = [id |-> e.id, node |-> n, local |-> e.local, peer |-> p]
    BY EndsAre
  <2>2. PICK e \in udp[n] : \E p \in e.peers :
           e.role = "responder" /\ y = [id |-> e.id, node |-> n, local |-> e.local, peer |-> p]
    BY <2>1
  <2>3. PICK p \in e.peers : e.role = "responder" /\ y = [id |-> e.id, node |-> n, local |-> e.local, peer |-> p]
    BY <2>2
  <2>4. PICK s \in e.peers : e.peers = {s} /\ \E m \in Node : \E f \in udp[m] :
           IsEnd(f, "initiator", e.id, s) /\ e.local \in f.peers
    BY <2>3 DEF Paired, PairedIn
  <2>5. p = s
    BY <2>3, <2>4
  <2>6. PICK m \in Node : \E f \in udp[m] : IsEnd(f, "initiator", e.id, s) /\ e.local \in f.peers
    BY <2>4
  <2>7. PICK f \in udp[m] : IsEnd(f, "initiator", e.id, s) /\ e.local \in f.peers
    BY <2>6
  <2> DEFINE x == [id |-> f.id, node |-> m, local |-> f.local, peer |-> e.local]
  <2>8. x \in Ends("initiator")
    BY <2>7, EndsAre DEF IsEnd
  <2>9. <<x.id, x.local, x.peer>> = <<y.id, y.peer, y.local>>
    BY <2>3, <2>5, <2>7 DEF IsEnd
  <2> QED
    BY <2>8, <2>9
<1>4. {<<e.id, e.local, e.peer>> : e \in Ends("initiator")} =
        {<<e.id, e.peer, e.local>> : e \in Ends("responder")}
  BY <1>2, <1>3
<1> QED
  BY <1>1, <1>4 DEF EndsMatch

\* distributor.py:158-219: both ends of every UDP session are in the plans of the
\* nodes that own their addresses and name each other, for any number of nodes,
\* any ranges and any mix of calls and shares.
THEOREM EndsAlwaysMatch == Spec => []EndsMatch
<1>1. Init => Typed /\ Paired
  <2>1. Init => Paired
    BY DEF Init, Paired, PairedIn
  <2> QED
    BY <2>1, TypedInit
<1>2. Typed /\ Paired /\ [Next]_vars => (Typed /\ Paired)'
  BY TypedStep, PairedStep
<1> QED
  BY <1>1, <1>2, PairedEndsMatch, PTL DEF Spec

-----------------------------------------------------------------------------
(* Where the sessions of a type stand in the list of slots *)

SlotAt(slots, x) == slots[(x % Len(slots)) + 1]

rec == [type \in Type |-> Receivers(type)]
wanted == [type \in Type |-> Sessions(type)]

\* The j-th session of a type starts size slots after the one before it.
Size(type) == 1 + rec[type]

\* Entry e is the i-th responder of the j-th session, among the first c of a type
\* that has r receivers and stands at b.
InRun(e, type, slots, c, r, b) ==
    \E j \in 0 .. c - 1 : \E i \in 1 .. r :
        /\ e.id = <<type, j>>
        /\ e.local = SlotAt(slots, b + j * (1 + r) + i)
        /\ e.peers = {SlotAt(slots, b + j * (1 + r))}

\* The sessions of each type take consecutive slots from base[type] on, and the
\* types come one after the other.
PlacedIn(nodes, table, slots, r, w, count, at, base) ==
    /\ base \in [Type -> Nat]
    /\ \A type \in Type :
         /\ count[type] <= w[type]
         /\ count[type] \notin {0, w[type]} => at = base[type] + count[type] * (1 + r[type])
         /\ \A n \in nodes : \A e \in table[n] : e.id[1] = type /\ e.role = "responder" =>
               InRun(e, type, slots, count[type], r[type], base[type])

InTurn(w, count) ==
    /\ count["video"] > 0 => count["voice"] = w["voice"]
    /\ count["screenshare"] > 0 => count["voice"] = w["voice"] /\ count["video"] = w["video"]

Consecutive ==
    /\ InTurn(wanted, added)
    /\ \E base : PlacedIn(Node, udp, Slots, rec, wanted, added, cursor, base)

LEMMA SizesAre ==
    ASSUME Typed
    PROVE  /\ rec \in [Type -> 1 .. 4] /\ wanted \in [Type -> Nat]
           /\ \A type \in Type : rec[type] = Receivers(type) /\ wanted[type] = Sessions(type)
BY ReceiversFit, PlanNumbers DEF Typed, rec, wanted

LEMMA SameSizes ==
    ASSUME Steady
    PROVE  rec' = rec /\ wanted' = wanted
BY SameTables DEF rec, wanted

LEMMA ConsecutiveInit == Init => Consecutive
<1> SUFFICES ASSUME Init PROVE Consecutive
  OBVIOUS
<1>1. Typed
  BY TypedInit
<1>2. added = [type \in Type |-> 0] /\ \A n \in Node : udp[n] = {}
  BY DEF Init
<1> DEFINE base == [type \in Type |-> 0]
<1>3. wanted \in [Type -> Nat]
  BY <1>1, SizesAre
<1>4. PlacedIn(Node, udp, Slots, rec, wanted, added, cursor, base)
  BY <1>2, <1>3 DEF PlacedIn
<1>5. InTurn(wanted, added)
  BY <1>2 DEF InTurn, Type
<1> QED
  BY <1>4, <1>5 DEF Consecutive

LEMMA ConsecutiveAdd ==
    ASSUME Typed, Consecutive, Steady, NEW type \in Type, AddSession(type)
    PROVE  Consecutive'
<1> DEFINE R == rec[type]
           new == Entries(type, NextSlot(1), {NextSlot(1 + i) : i \in 1 .. Receivers(type)})
<1>1. /\ added \in [Type -> Nat] /\ cursor \in Nat /\ R \in 1 .. 4 /\ wanted \in [Type -> Nat]
      /\ R = Receivers(type) /\ wanted[type] = Sessions(type) /\ rec \in [Type -> 1 .. 4]
  BY SizesAre DEF Typed
<1>2. /\ added[type] < wanted[type] /\ Turn(type)
      /\ cursor' = cursor + 1 + R
      /\ added' = [added EXCEPT ![type] = @ + 1]
      /\ udp' = [n \in Node |-> udp[n] \cup {e \in new : e.local[1] = n}]
  BY <1>1 DEF AddSession, Advance
<1>3. Node' = Node /\ Slots' = Slots /\ rec' = rec /\ wanted' = wanted
  BY SameTables, SameSizes
<1>4. PICK base \in [Type -> Nat] : PlacedIn(Node, udp, Slots, rec, wanted, added, cursor, base)
  BY DEF Consecutive, PlacedIn
<1>5. InTurn(wanted, added)
  BY DEF Consecutive
<1> HIDE DEF R
<1> DEFINE base1 == [base EXCEPT ![type] = IF added[type] = 0 THEN cursor ELSE @]
<1>6. base1 \in [Type -> Nat] /\ \A t \in Type \ {type} : base1[t] = base[t]
  BY <1>1
<1>7. base1[type] + added[type] * (1 + R) = cursor
  <2>1. CASE added[type] = 0
    BY <1>1, <2>1
  <2>2. CASE added[type] # 0
    <3>1. cursor = base[type] + added[type] * (1 + rec[type])
      BY <1>1, <1>2, <1>4, <2>2 DEF PlacedIn
    <3>2. base1[type] = base[type]
      BY <2>2
    <3> QED
      BY <1>1, <3>1, <3>2 DEF R
  <2> QED
    BY <2>1, <2>2
<1>8. added[type] # 0 => base1[type] = base[type]
  BY <1>1
<1> HIDE DEF base1
<1>9. ASSUME NEW t \in Type \ {type} PROVE added[t] \in {0, wanted[t]}
  <2>1. /\ wanted["voice"] \in Nat /\ added["voice"] \in Nat
        /\ wanted["video"] \in Nat /\ added["video"] \in Nat
        /\ wanted["screenshare"] \in Nat /\ added["screenshare"] \in Nat
    BY <1>1 DEF Type
  <2>2. /\ type = "video" => added["voice"] = wanted["voice"]
        /\ type = "screenshare" => added["voice"] = wanted["voice"] /\ added["video"] = wanted["video"]
    BY <1>2, SizesAre DEF Turn, Type
  <2>3. type \in {"voice", "video", "screenshare"} /\ t \in {"voice", "video", "screenshare"}
    BY DEF Type
  <2> QED
    BY <1>2, <1>5, <2>1, <2>2, <2>3 DEF InTurn
<1>10. InTurn(wanted, added')
  <2>1. /\ type = "video" => added["voice"] = wanted["voice"]
        /\ type = "screenshare" => added["voice"] = wanted["voice"] /\ added["video"] = wanted["video"]
    BY <1>2, SizesAre DEF Turn, Type
  <2>2. \A t \in Type : added'[t] = IF t = type THEN added[t] + 1 ELSE added[t]
    BY <1>1, <1>2
  <2>3. /\ wanted["voice"] \in Nat /\ added["voice"] \in Nat
        /\ wanted["video"] \in Nat /\ added["video"] \in Nat
        /\ wanted["screenshare"] \in Nat /\ added["screenshare"] \in Nat
    BY <1>1 DEF Type
  <2>4. type \in {"voice", "video", "screenshare"}
    BY DEF Type
  <2>5. \A t \in {"voice", "video", "screenshare"} :
           added'[t] = IF t = type THEN added[t] + 1 ELSE added[t]
    BY <2>2 DEF Type
  <2> QED
    BY <1>2, <1>5, <2>1, <2>3, <2>4, <2>5 DEF InTurn
<1>11. \A e \in new : e.role = "responder" =>
          \E i \in 1 .. R : /\ e.id = <<type, added[type]>>
                            /\ e.local = SlotAt(Slots, cursor + i)
                            /\ e.peers = {SlotAt(Slots, cursor)}
  <2>1. NextSlot(1) = SlotAt(Slots, cursor)
    <3>1. cursor + 1 - 1 = cursor
      BY <1>1
    <3> QED
      BY <3>1 DEF NextSlot, SlotAt
  <2>2. \A i \in 1 .. R : NextSlot(1 + i) = SlotAt(Slots, cursor + i)
    <3>1. \A i \in 1 .. R : cursor + (1 + i) - 1 = cursor + i
      BY <1>1
    <3> QED
      BY <3>1 DEF NextSlot, SlotAt
  <2>3. ASSUME NEW e \in new, e.role = "responder"
        PROVE  \E r \in {NextSlot(1 + i) : i \in 1 .. Receivers(type)} :
                  e = [id |-> <<type, added[type]>>, role |-> "responder",
                       local |-> r, peers |-> {NextSlot(1)}]
    BY <2>3 DEF Entries, Entry
  <2> HIDE DEF new
  <2> QED
    BY <1>1, <2>1, <2>2, <2>3
<1> HIDE DEF new
<1>12. \A t \in Type : added'[t] = IF t = type THEN added[t] + 1 ELSE added[t]
  BY <1>1, <1>2
<1>13. ASSUME NEW t \in Type
       PROVE  /\ added'[t] <= wanted[t]
              /\ added'[t] \notin {0, wanted[t]} => cursor' = base1[t] + added'[t] * (1 + rec[t])
  <2>1. CASE t = type
    <3>1. added'[t] = added[t] + 1
      BY <1>12, <2>1
    <3>2. added[t] \in Nat /\ wanted[t] \in Nat /\ added[t] < wanted[t]
      BY <1>1, <1>2, <2>1
    <3>3. (added[t] + 1) * (1 + R) = added[t] * (1 + R) + 1 + R
      BY <1>1, <3>2
    <3>4. base1[t] \in Nat /\ added[t] * (1 + R) \in Nat
      BY <1>1, <1>6, <3>2
    <3>5. cursor' = base1[t] + (added[t] + 1) * (1 + R)
      BY <1>1, <1>2, <1>7, <2>1, <3>3, <3>4
    <3> QED
      BY <2>1, <3>1, <3>2, <3>5 DEF R
  <2>2. CASE t # type
    <3>1. added'[t] = added[t]
      BY <1>12, <2>2
    <3>2. added[t] <= wanted[t]
      BY <1>4 DEF PlacedIn
    <3> QED
      BY <1>9, <2>2, <3>1, <3>2
  <2> QED
    BY <2>1, <2>2
<1>14. ASSUME NEW t \in Type, NEW n \in Node, NEW e \in udp'[n], e.id[1] = t, e.role = "responder"
       PROVE  InRun(e, t, Slots, added'[t], rec[t], base1[t])
  <2>0. added[t] \in Nat /\ (t = type => added'[t] = added[t] + 1) /\ (t # type => added'[t] = added[t])
    BY <1>1, <1>12
  <2>1. CASE e \in udp[n]
    <3>1. PICK j \in 0 .. added[t] - 1 : \E i \in 1 .. rec[t] :
                 /\ e.id = <<t, j>>
                 /\ e.local = SlotAt(Slots, base[t] + j * (1 + rec[t]) + i)
                 /\ e.peers = {SlotAt(Slots, base[t] + j * (1 + rec[t]))}
      BY <1>4, <1>14, <2>1 DEF PlacedIn, InRun
    <3>2. base1[t] = base[t]
      <4>1. added[t] # 0
        BY <2>0
      <4> QED
        BY <1>6, <1>8, <4>1
    <3>3. j \in 0 .. added'[t] - 1
      BY <2>0
    <3> QED
      BY <3>1, <3>2, <3>3 DEF InRun
  <2>2. CASE e \notin udp[n]
    <3>1. e \in new
      BY <1>2, <2>2
    <3>2. PICK i \in 1 .. R : /\ e.id = <<type, added[type]>>
                              /\ e.local = SlotAt(Slots, cursor + i)
                              /\ e.peers = {SlotAt(Slots, cursor)}
      BY <1>11, <1>14, <3>1
    <3>3. t = type
      BY <1>14, <3>2
    <3>4. added[t] \in 0 .. added'[t] - 1
      BY <2>0, <3>3
    <3>5. base1[t] + added[t] * (1 + rec[t]) = cursor
      BY <1>7, <3>3 DEF R
    <3>6. /\ i \in 1 .. rec[t] /\ e.id = <<t, added[t]>>
          /\ e.local = SlotAt(Slots, base1[t] + added[t] * (1 + rec[t]) + i)
          /\ e.peers = {SlotAt(Slots, base1[t] + added[t] * (1 + rec[t]))}
      BY <3>2, <3>3, <3>5 DEF R
    <3> QED
      BY <3>4, <3>6 DEF InRun
  <2> QED
    BY <2>1, <2>2
<1>15. PlacedIn(Node, udp', Slots, rec, wanted, added', cursor', base1)
  <2>1. \A t \in Type :
           /\ added'[t] <= wanted[t]
           /\ added'[t] \notin {0, wanted[t]} => cursor' = base1[t] + added'[t] * (1 + rec[t])
    BY <1>13, Zenon
  <2>2. \A t \in Type : \A n \in Node : \A e \in udp'[n] : e.id[1] = t /\ e.role = "responder" =>
           InRun(e, t, Slots, added'[t], rec[t], base1[t])
    BY <1>14, Zenon
  <2>3. base1 \in [Type -> Nat]
    BY <1>6
  <2> QED
    BY <2>1, <2>2, <2>3, Zenon DEF PlacedIn
<1> QED
  BY <1>3, <1>10, <1>15 DEF Consecutive

LEMMA ConsecutiveStep == Typed /\ Consecutive /\ [Next]_vars => Consecutive'
<1> SUFFICES ASSUME Typed, Consecutive, [Next]_vars PROVE Consecutive'
  OBVIOUS
<1>1. Steady
  BY InputsStay
<1>2. CASE \E type \in Type : AddSession(type)
  BY <1>1, <1>2, ConsecutiveAdd
<1>3. CASE UNCHANGED <<udp, added, cursor>>
  <2>1. Node' = Node /\ Slots' = Slots /\ rec' = rec /\ wanted' = wanted
    BY <1>1, SameTables, SameSizes
  <2> QED
    BY <1>3, <2>1 DEF Consecutive
<1>4. (\E type \in Type : AddSession(type)) \/ UNCHANGED <<udp, added, cursor>>
  BY DEF Next, vars, SplitUsers, Refuse, AllAdded, AssignUser, SliceUsers
<1> QED
  BY <1>2, <1>3, <1>4

\* Two places of the same run of sessions are the same when they are a whole
\* number of turns apart and the run fits into one.
LEMMA PlaceInRun ==
    ASSUME NEW R \in 1 .. 4, NEW S \in Nat,
           NEW j \in 0 .. S - 1, NEW k \in 0 .. S - 1, NEW i \in 1 .. R, NEW l \in 1 .. R
    PROVE  /\ j * (1 + R) + i \in 0 .. S * (1 + R) - 1
           /\ j * (1 + R) + i = k * (1 + R) + l => j = k /\ i = l
<1>1. CASE R = 1
  BY <1>1
<1>2. CASE R = 2
  BY <1>2
<1>3. CASE R = 3
  BY <1>3
<1>4. CASE R = 4
  BY <1>4
<1> QED
  BY <1>1, <1>2, <1>3, <1>4

LEMMA SlotAtInjective ==
    ASSUME RangesOK, NEW a \in Nat, NEW x \in 0 .. Len(Slots) - 1, NEW y \in 0 .. Len(Slots) - 1,
           SlotAt(Slots, a + x) = SlotAt(Slots, a + y)
    PROVE  x = y
<1> DEFINE L == Len(Slots)
           u == (a + x) % L
           v == (a + y) % L
<1>1. L \in Nat /\ L > 0
  BY SlotsOffsets
<1>2. u \in 0 .. L - 1 /\ v \in 0 .. L - 1
  BY <1>1, ModRange
<1>3. Slots[u + 1] = Slots[v + 1]
  BY DEF SlotAt
<1>4. \A p, q \in 1 .. L : Slots[p] = Slots[q] => p = q
  BY SlotsInjective
<1>5. u = v
  <2> HIDE DEF L, u, v
  <2>1. u + 1 \in 1 .. L /\ v + 1 \in 1 .. L
    BY <1>1, <1>2
  <2>2. u + 1 = v + 1
    BY <1>3, <1>4, <2>1
  <2> QED
    BY <1>2, <2>2
<1>6. x \in 0 .. L - 1 /\ y \in 0 .. L - 1 /\ (a + x) % L = (a + y) % L
  BY <1>5
<1> HIDE DEF L, u, v
<1> QED
  BY <1>1, <1>6, ModApart

LEMMA ConsecutiveNoBusyPort == Typed /\ Paired /\ Consecutive => NoBusyPort
<1> SUFFICES ASSUME Typed, Paired, Consecutive,
                    NEW type \in Type, Sessions(type) * (1 + Receivers(type)) <= Len(Slots),
                    NEW x \in Ends("responder"), NEW y \in Ends("responder"),
                    x.id[1] = type, y.id[1] = type, x.local = y.local
             PROVE  x = y
  BY DEF NoBusyPort
<1> DEFINE R == rec[type]
           S == wanted[type]
<1>1. R \in 1 .. 4 /\ S \in Nat /\ S * (1 + R) <= Len(Slots) /\ Len(Slots) \in Nat
  BY SizesAre, SlotsOffsets DEF Typed
<1>2. PICK base \in [Type -> Nat] : PlacedIn(Node, udp, Slots, rec, wanted, added, cursor, base)
  BY DEF Consecutive, PlacedIn
<1>3. added[type] \in Nat /\ added[type] <= S
  BY <1>2 DEF Typed, PlacedIn
<1>4. ASSUME NEW z \in Ends("responder"), z.id[1] = type
      PROVE  \E j \in 0 .. S - 1 : \E i \in 1 .. R :
                /\ z.id = <<type, j>> /\ z.node = z.local[1]
                /\ z.local = SlotAt(Slots, base[type] + j * (1 + R) + i)
                /\ z.peer = SlotAt(Slots, base[type] + j * (1 + R))
  <2>1. PICK n \in Node : \E e \in udp[n] : \E p \in e.peers :
           e.role = "responder" /\ z = [id |-> e.id, node |-> n, local |-> e.local, peer |-> p]
    BY EndsAre
  <2>2. PICK e \in udp[n] : \E p \in e.peers :
           e.role = "responder" /\ z = [id |-> e.id, node |-> n, local |-> e.local, peer |-> p]
    BY <2>1
  <2>3. PICK p \in e.peers : e.role = "responder"
                             /\ z = [id |-> e.id, node |-> n, local |-> e.local, peer |-> p]
    BY <2>2
  <2>4. e.local[1] = n
    BY DEF Paired, PairedIn
  <2>5. e.id[1] = type
    BY <1>4, <2>3
  <2>6. PICK j \in 0 .. added[type] - 1 : \E i \in 1 .. R :
           /\ e.id = <<type, j>>
           /\ e.local = SlotAt(Slots, base[type] + j * (1 + R) + i)
           /\ e.peers = {SlotAt(Slots, base[type] + j * (1 + R))}
    BY <1>2, <2>3, <2>5 DEF PlacedIn, InRun
  <2>7. j \in 0 .. S - 1
    BY <1>1, <1>3
  <2> HIDE DEF R, S
  <2> QED
    BY <2>3, <2>4, <2>6, <2>7
<1> HIDE DEF R, S
<1>5. PICK j \in 0 .. S - 1 : \E i \in 1 .. R :
         /\ x.id = <<type, j>> /\ x.node = x.local[1]
         /\ x.local = SlotAt(Slots, base[type] + j * (1 + R) + i)
         /\ x.peer = SlotAt(Slots, base[type] + j * (1 + R))
  BY <1>4
<1>6. PICK i \in 1 .. R : x.local = SlotAt(Slots, base[type] + j * (1 + R) + i)
  BY <1>5
<1>7. PICK k \in 0 .. S - 1 : \E l \in 1 .. R :
         /\ y.id = <<type, k>> /\ y.node = y.local[1]
         /\ y.local = SlotAt(Slots, base[type] + k * (1 + R) + l)
         /\ y.peer = SlotAt(Slots, base[type] + k * (1 + R))
  BY <1>4
<1>8. PICK l \in 1 .. R : y.local = SlotAt(Slots, base[type] + k * (1 + R) + l)
  BY <1>7
<1> DEFINE u == j * (1 + R) + i
           v == k * (1 + R) + l
<1>9. /\ u \in 0 .. S * (1 + R) - 1 /\ v \in 0 .. S * (1 + R) - 1
      /\ u = v => j = k
  <2>1. /\ j * (1 + R) + i \in 0 .. S * (1 + R) - 1
        /\ j * (1 + R) + i = k * (1 + R) + l => j = k /\ i = l
    BY <1>1, PlaceInRun
  <2>2. k * (1 + R) + l \in 0 .. S * (1 + R) - 1
    BY <1>1, PlaceInRun
  <2> QED
    BY <2>1, <2>2
<1>10. base[type] + j * (1 + R) + i = base[type] + u /\ base[type] + k * (1 + R) + l = base[type] + v
  <2>1. j * (1 + R) \in Int /\ k * (1 + R) \in Int
    BY <1>1
  <2> QED
    BY <2>1
<1>11. u \in 0 .. Len(Slots) - 1 /\ v \in 0 .. Len(Slots) - 1
  <2>1. S * (1 + R) \in Nat
    BY <1>1
  <2> HIDE DEF u, v
  <2> QED
    BY <1>1, <1>9, <2>1
<1>12. SlotAt(Slots, base[type] + u) = SlotAt(Slots, base[type] + v)
  BY <1>6, <1>8, <1>10
<1>13. j = k
  <2> HIDE DEF u, v
  <2>1. u = v
    BY <1>11, <1>12, SlotAtInjective DEF Typed
  <2> QED
    BY <1>9, <2>1
<1>14. x.id = y.id /\ x.node = y.node /\ x.peer = y.peer
  BY <1>5, <1>7, <1>13
<1>15. /\ x = [id |-> x.id, node |-> x.node, local |-> x.local, peer |-> x.peer]
       /\ y = [id |-> y.id, node |-> y.node, local |-> y.local, peer |-> y.peer]
  BY EndsAre
<1> QED
  BY <1>14, <1>15

\* udp_session.py binds a responder to the one port of its stream type: no
\* address is a responder of a type twice as long as the type needs no more
\* addresses than there are, wherever in the list of slots its sessions start.
THEOREM PortsAreFree == Spec => []NoBusyPort
<1>1. Init => Typed /\ Paired /\ Consecutive
  <2>1. Init => Paired
    BY DEF Init, Paired, PairedIn
  <2> QED
    BY <2>1, TypedInit, ConsecutiveInit
<1>2. Typed /\ Paired /\ Consecutive /\ [Next]_vars => (Typed /\ Paired /\ Consecutive)'
  BY TypedStep, PairedStep, ConsecutiveStep
<1> QED
  BY <1>1, <1>2, ConsecutiveNoBusyPort, PTL DEF Spec

-----------------------------------------------------------------------------
(* Calls between nodes *)

SameRanges == Len(ranges) > 1 /\ \A m, n \in Node : ranges[m] = ranges[n]

\* Every node has an address in a row that is not longer than its range.
LEMMA FullRow ==
    ASSUME RangesOK, NEW i \in Nat, i > 0, \A n \in Node : i <= ranges[n]
    PROVE  Len(Row(i)) = Len(ranges) /\ \A n \in Node : Row(i)[n] = <<n, i>>
<1> DEFINE s == [n \in Node |-> PartOf(n, i)]
           N == Len(ranges)
<1>1. PICK h : Offsets(h, s, Row(i))
  BY RowOffsets
<1>2. N \in Nat /\ Node = 1 .. N /\ Len(s) = N
  BY NodesExist DEF Node
<1>3. \A n \in Node : s[n] = << <<n, i>> >>
  BY DEF PartOf
<1> HIDE DEF s
<1>4. \A n \in Node : Len(s[n]) = 1 /\ s[n][1] = <<n, i>> /\ 1 \in 1 .. Len(s[n])
  <2> SUFFICES ASSUME NEW n \in Node
               PROVE  Len(s[n]) = 1 /\ s[n][1] = <<n, i>> /\ 1 \in 1 .. Len(s[n])
    OBVIOUS
  <2>1. s[n] = << <<n, i>> >>
    BY <1>3
  <2> QED
    BY <2>1
<1> HIDE DEF N
<1>5. /\ h \in [0 .. N -> Nat] /\ h[0] = 0
      /\ \A n \in 1 .. N : h[n] = h[n - 1] + Len(s[n])
      /\ Len(Row(i)) = h[N]
      /\ \A n \in 1 .. N : \A j \in 1 .. Len(s[n]) : Row(i)[h[n - 1] + j] = s[n][j]
  BY <1>1, <1>2 DEF Offsets
<1> DEFINE D == {n \in 0 .. N : h[n] = n}
<1>6. 0 \in D
  BY <1>2, <1>5
<1>7. ASSUME NEW n \in 0 .. N - 1, n \in D PROVE n + 1 \in D
  <2>1. n + 1 \in 1 .. N /\ (n + 1) - 1 = n /\ h[n] = n
    BY <1>2, <1>7
  <2>2. h[n + 1] = n + 1
    <3>1. h[n + 1] = h[(n + 1) - 1] + Len(s[n + 1])
      BY <1>5, <2>1, Zenon
    <3>2. Len(s[n + 1]) = 1
      BY <1>2, <1>4, <2>1
    <3> QED
      BY <2>1, <3>1, <3>2
  <2> QED
    BY <1>2, <2>1, <2>2
<1>8. 0 .. N \subseteq D
  <2> HIDE DEF D
  <2> QED
    BY <1>2, <1>6, <1>7, BoundedInduction
<1>9. \A n \in 0 .. N : h[n] = n
  BY <1>8
<1>10. Len(Row(i)) = N
  BY <1>2, <1>5, <1>9
<1>11. ASSUME NEW n \in Node PROVE Row(i)[n] = <<n, i>>
  <2>1. n \in 1 .. N /\ n - 1 \in 0 .. N /\ h[n - 1] = n - 1 /\ h[n - 1] + 1 = n
    BY <1>2, <1>9
  <2>2. Row(i)[h[n - 1] + 1] = s[n][1]
    BY <1>4, <1>5, <2>1
  <2> QED
    BY <1>4, <2>1, <2>2
<1> QED
  BY <1>10, <1>11 DEF N

\* Among ranges of the same length the next slot is on another node.
LEMMA NeighboursDiffer ==
    ASSUME RangesOK, SameRanges, NEW p \in 1 .. Len(Slots)
    PROVE  Slots[p][1] # Slots[IF p = Len(Slots) THEN 1 ELSE p + 1][1]
<1> DEFINE s == [i \in Rows |-> Row(i)]
           N == Len(ranges)
           r == Max(ToSet(ranges))
           L == Len(Slots)
<1>1. PICK h : Offsets(h, s, Slots)
  BY SlotsOffsets
<1>2. N \in Nat /\ N > 1 /\ Node = 1 .. N
  BY NodesExist DEF SameRanges, Node
<1>3. r \in Nat /\ r \in ToSet(ranges)
  BY LongestRange
<1>4. \A n \in Node : ranges[n] = r
  <2>1. PICK m \in Node : ranges[m] = r
    <3>1. ranges \in Seq(Nat) /\ r \in {ranges[i] : i \in DOMAIN ranges}
      BY <1>3 DEF ToSet, RangesOK
    <3>2. DOMAIN ranges = Node
      BY <3>1 DEF Node
    <3> QED
      BY <3>1, <3>2
  <2> QED
    BY <2>1 DEF SameRanges
<1>5. Rows = 1 .. r /\ Len(s) = r /\ \A i \in 1 .. r : s[i] = Row(i)
  BY <1>3 DEF Rows
<1> HIDE DEF r
<1>6. ASSUME NEW i \in 1 .. r PROVE Len(s[i]) = N /\ \A n \in 1 .. N : s[i][n] = <<n, i>>
  <2>1. i \in Nat /\ i > 0 /\ \A n \in Node : i <= ranges[n]
    BY <1>3, <1>4
  <2> QED
    BY <1>2, <1>5, <2>1, FullRow
<1> HIDE DEF s, N, L
<1>7. /\ h \in [0 .. r -> Nat] /\ h[0] = 0
      /\ \A i \in 1 .. r : h[i] = h[i - 1] + N
      /\ L = h[r]
      /\ \A k \in 1 .. L : \E i \in 1 .. r : \E n \in 1 .. N : k = h[i - 1] + n
  <2>1. /\ h \in [0 .. r -> Nat] /\ h[0] = 0 /\ L = h[r]
        /\ \A i \in 1 .. r : h[i] = h[i - 1] + Len(s[i])
        /\ \A k \in 1 .. L : \E i \in 1 .. r : \E n \in 1 .. Len(s[i]) : k = h[i - 1] + n
    BY <1>1, <1>5, Zenon DEF Offsets, L
  <2>2. ASSUME NEW k \in 1 .. L PROVE \E i \in 1 .. r : \E n \in 1 .. N : k = h[i - 1] + n
    <3>1. PICK i \in 1 .. r : \E n \in 1 .. Len(s[i]) : k = h[i - 1] + n
      BY <2>1
    <3>2. Len(s[i]) = N
      BY <1>6
    <3> QED
      BY <3>1, <3>2
  <2>3. \A i \in 1 .. r : h[i] = h[i - 1] + N
    BY <1>6, <2>1
  <2> QED
    BY <2>1, <2>2, <2>3
<1>8. ASSUME NEW i \in 1 .. r, NEW n \in 1 .. N
      PROVE  h[i - 1] + n \in 1 .. L /\ Slots[h[i - 1] + n] = <<n, i>>
  <2>1. \A x \in 1 .. r : \A y \in 1 .. Len(s[x]) :
           h[x - 1] + y \in 1 .. L /\ Slots[h[x - 1] + y] = s[x][y]
    BY <1>1, <1>5, Zenon DEF Offsets, L
  <2>2. n \in 1 .. Len(s[i]) /\ s[i][n] = <<n, i>>
    BY <1>6
  <2>3. h[i - 1] + n \in 1 .. L /\ Slots[h[i - 1] + n] = s[i][n]
    BY <2>1, <2>2, Zenon
  <2> QED
    BY <2>2, <2>3
<1>9. PICK i \in 1 .. r : \E n \in 1 .. N : p = h[i - 1] + n
  BY <1>7 DEF L
<1>10. PICK n \in 1 .. N : p = h[i - 1] + n
  BY <1>9
<1>11. Slots[p][1] = n
  BY <1>8, <1>10
<1>12. L \in Nat /\ h[i - 1] \in Nat /\ i - 1 \in 0 .. r /\ h[i] = h[i - 1] + N
  BY <1>3, <1>7
<1>13. CASE n < N
  <2>1. n + 1 \in 1 .. N
    BY <1>2, <1>13
  <2>2. h[i - 1] + (n + 1) \in 1 .. L /\ Slots[h[i - 1] + (n + 1)] = <<n + 1, i>>
    BY <1>8, <2>1
  <2>3. p + 1 = h[i - 1] + (n + 1) /\ p # L
    <3> DEFINE a == h[i - 1]
    <3>1. a \in Nat /\ p = a + n /\ a + (n + 1) \in 1 .. L /\ L \in Nat
      BY <1>10, <1>12, <2>2
    <3> HIDE DEF a
    <3>2. p + 1 = a + (n + 1) /\ p # L
      BY <3>1
    <3> QED
      BY <3>2 DEF a
  <2>4. Slots[p + 1][1] = n + 1
    BY <2>2, <2>3
  <2> QED
    BY <1>11, <2>3, <2>4 DEF L
<1>14. CASE n = N /\ i < r
  <2>1. i + 1 \in 1 .. r /\ (i + 1) - 1 = i /\ 1 \in 1 .. N
    BY <1>2, <1>3, <1>14
  <2>2. h[i] + 1 \in 1 .. L /\ Slots[h[i] + 1] = <<1, i + 1>>
    BY <1>8, <2>1
  <2>3. p + 1 = h[i] + 1 /\ p # L
    BY <1>10, <1>12, <1>14, <2>2
  <2>4. Slots[p + 1][1] = 1
    BY <2>2, <2>3
  <2> QED
    BY <1>2, <1>11, <1>14, <2>3, <2>4 DEF L
<1>15. CASE n = N /\ i = r
  <2>1. p = L
    BY <1>7, <1>10, <1>12, <1>15
  <2>2. 1 \in 1 .. r /\ 1 - 1 = 0 /\ 1 \in 1 .. N
    BY <1>2, <1>3
  <2>3. Slots[h[0] + 1] = <<1, 1>>
    BY <1>8, <2>2
  <2>4. Slots[1][1] = 1
    BY <1>7, <2>3
  <2> QED
    BY <1>2, <1>11, <1>15, <2>1, <2>4 DEF L
<1> QED
  BY <1>2, <1>3, <1>13, <1>14, <1>15

CrossIn(nodes, table) ==
    \A n \in nodes : \A e \in table[n] : e.role = "initiator" /\ e.id[1] # "screenshare" =>
        \A p \in e.peers : e.local[1] # p[1]

Crossing == SameRanges => CrossIn(Node, udp)

LEMMA CrossingAdd ==
    ASSUME Typed, Crossing, Steady, NEW type \in Type, AddSession(type)
    PROVE  Crossing'
<1> DEFINE new == Entries(type, NextSlot(1), {NextSlot(1 + i) : i \in 1 .. Receivers(type)})
           L == Len(Slots)
<1>1. Slots # <<>> /\ udp' = [n \in Node |-> udp[n] \cup {e \in new : e.local[1] = n}]
  BY DEF AddSession
<1>2. Node' = Node /\ ranges' = ranges
  BY SameTables DEF Steady, inputs
<1>3. SameRanges' = SameRanges
  BY <1>2 DEF SameRanges
<1> SUFFICES ASSUME SameRanges PROVE CrossIn(Node, udp')
  BY <1>2, <1>3 DEF Crossing
<1>4. ASSUME type # "screenshare" PROVE NextSlot(1)[1] # NextSlot(2)[1]
  <2>1. cursor \in Nat /\ RangesOK /\ L \in Nat /\ L > 0
    BY <1>1, SlotPicked DEF Typed
  <2>2. cursor + 1 - 1 = cursor /\ cursor + 2 - 1 = cursor + 1
    BY <2>1
  <2>3. NextSlot(1) = Slots[(cursor % L) + 1] /\ NextSlot(2) = Slots[((cursor + 1) % L) + 1]
    BY <2>2 DEF NextSlot
  <2>4. cursor % L \in 0 .. L - 1
    BY <2>1, ModRange
  <2>5. (cursor + 1) % L = IF (cursor % L) + 1 < L THEN (cursor % L) + 1 ELSE (cursor % L) + 1 - L
    <3>1. 1 \in 0 .. L
      BY <2>1
    <3> HIDE DEF L
    <3> QED
      BY <2>1, <3>1, ModPlus
  <2> DEFINE p == (cursor % L) + 1
             q == IF p = L THEN 1 ELSE p + 1
  <2>6. p \in 1 .. L /\ ((cursor + 1) % L) + 1 = q
    <3> DEFINE u == cursor % L
    <3>1. u \in 0 .. L - 1 /\ (cursor + 1) % L = IF u + 1 < L THEN u + 1 ELSE u + 1 - L
      BY <2>4, <2>5
    <3>2. p = u + 1
      OBVIOUS
    <3> HIDE DEF u, L, p
    <3> QED
      BY <2>1, <3>1, <3>2
  <2>7. Slots[p][1] # Slots[q][1]
    <3> HIDE DEF p
    <3> QED
      BY <2>1, <2>6, NeighboursDiffer
  <2> QED
    BY <2>3, <2>6, <2>7
<1>5. \A e \in new : e.role = "initiator" /\ e.id[1] # "screenshare" =>
         \A p \in e.peers : e.local[1] # p[1]
  <2> SUFFICES ASSUME NEW e \in new, e.role = "initiator", e.id[1] # "screenshare", NEW p \in e.peers
               PROVE  e.local[1] # p[1]
    OBVIOUS
  <2>1. e = [id |-> <<type, added[type]>>, role |-> "initiator", local |-> NextSlot(1),
             peers |-> {NextSlot(1 + i) : i \in 1 .. Receivers(type)}]
    BY DEF Entries, Entry
  <2>2. type # "screenshare"
    BY <2>1
  <2>3. Receivers(type) = 1
    BY <2>2 DEF Receivers
  <2>4. p = NextSlot(2) /\ e.local = NextSlot(1)
    BY <2>1, <2>3
  <2> QED
    BY <1>4, <2>2, <2>4
<1> HIDE DEF new
<1>6. CrossIn(Node, udp)
  BY DEF Crossing
<1> QED
  BY <1>1, <1>5, <1>6 DEF CrossIn

LEMMA CrossingStep == Typed /\ Crossing /\ [Next]_vars => Crossing'
<1> SUFFICES ASSUME Typed, Crossing, [Next]_vars PROVE Crossing'
  OBVIOUS
<1>1. Steady
  BY InputsStay
<1>2. CASE \E type \in Type : AddSession(type)
  BY <1>1, <1>2, CrossingAdd
<1>3. CASE UNCHANGED udp
  <2>1. Node' = Node /\ ranges' = ranges
    BY <1>1, SameTables DEF Steady, inputs
  <2>2. SameRanges' = SameRanges
    BY <2>1 DEF SameRanges
  <2> QED
    BY <1>3, <2>1, <2>2 DEF Crossing
<1>4. (\E type \in Type : AddSession(type)) \/ UNCHANGED udp
  BY DEF Next, vars, SplitUsers, Refuse, AllAdded, AssignUser, SliceUsers
<1> QED
  BY <1>2, <1>3, <1>4

\* distributor.py:133-138: the order of the slots puts the two sides of a call on
\* different nodes, for any number of nodes with ranges of the same length, and
\* wherever in the list of slots the call starts.
THEOREM CallsLeaveTheNode == Spec => []CallsCrossNodes
<1>1. Init => Typed /\ Crossing
  <2>1. Init => Crossing
    BY DEF Init, Crossing, CrossIn
  <2> QED
    BY <2>1, TypedInit
<1>2. Typed /\ Crossing /\ [Next]_vars => (Typed /\ Crossing)'
  BY TypedStep, CrossingStep
<1>3. Typed /\ Crossing => CallsCrossNodes
  <2> SUFFICES ASSUME Typed, Crossing, SameRanges, NEW x \in Ends("initiator"), x.id[1] # "screenshare"
               PROVE  x.local[1] # x.peer[1]
    BY DEF CallsCrossNodes, SameRanges
  <2>1. PICK n \in Node : \E e \in udp[n] : \E p \in e.peers :
           e.role = "initiator" /\ x = [id |-> e.id, node |-> n, local |-> e.local, peer |-> p]
    BY EndsAre
  <2>2. PICK e \in udp[n] : \E p \in e.peers :
           e.role = "initiator" /\ x = [id |-> e.id, node |-> n, local |-> e.local, peer |-> p]
    BY <2>1
  <2> QED
    BY <2>2 DEF Crossing, CrossIn
<1> QED
  BY <1>1, <1>2, <1>3, PTL DEF Spec

-----------------------------------------------------------------------------
(* The users of the nodes *)

\* The users are assigned in the order of the addresses, and a plan that is done
\* has the slices of the whole list.
InOrder(list, ips) ==
    /\ Len(list) <= Len(ips)
    /\ \A k \in 1 .. Len(list) : /\ list[k].ip = ips[k]
                                 /\ list[k].name = ((k - 1) % Len(Pool)) + 1

Sliced(nodes, list, ips, slices, table) ==
    Len(list) = Len(ips) /\ \A n \in nodes : table[n] = slices[n]

slices == [n \in Node |-> Slice(n)]

Assigned ==
    /\ InOrder(assigned, AllIps)
    /\ phase = "done" /\ RadiusEnabled => Sliced(Node, assigned, AllIps, slices, radius)

LEMMA AssignedInit == Init => Assigned
<1> SUFFICES ASSUME Init PROVE Assigned
  OBVIOUS
<1>1. assigned = <<>> /\ phase # "done" /\ RangesOK
  BY TypedInit DEF Init, Typed
<1>2. Len(AllIps) \in Nat
  BY <1>1, AllIpsOffsets
<1>3. Len(assigned) = 0
  BY <1>1
<1> QED
  BY <1>1, <1>2, <1>3 DEF Assigned, InOrder

LEMMA InOrderStep ==
    ASSUME Typed, Assigned, AssignUser
    PROVE  InOrder(assigned', AllIps)
<1> DEFINE n == Len(assigned)
           name == (n % Len(Pool)) + 1
           u == [ip |-> AllIps[n + 1], name |-> name, role |-> RoleOf(name)]
<1>1. /\ n \in Nat /\ n < Len(AllIps) /\ Len(AllIps) \in Nat
      /\ assigned' = Append(assigned, u) /\ assigned \in Seq(User)
  BY AllIpsOffsets DEF AssignUser, Typed
<1>2. u.ip = AllIps[n + 1] /\ u.name = (n % Len(Pool)) + 1
  OBVIOUS
<1> HIDE DEF u
<1>3. /\ Len(assigned') = n + 1 /\ assigned'[n + 1] = u
      /\ \A i \in 1 .. n : assigned'[i] = assigned[i]
  BY <1>1, AppendProperties
<1> HIDE DEF n, name
<1>4. ASSUME NEW k \in 1 .. n + 1
      PROVE  assigned'[k].ip = AllIps[k] /\ assigned'[k].name = ((k - 1) % Len(Pool)) + 1
  <2>1. CASE k = n + 1
    <3>1. k - 1 = n
      BY <1>1, <2>1
    <3> QED
      BY <1>2, <1>3, <2>1, <3>1
  <2>2. CASE k # n + 1
    <3>1. k \in 1 .. n
      BY <1>1, <2>2
    <3>2. assigned[k].ip = AllIps[k] /\ assigned[k].name = ((k - 1) % Len(Pool)) + 1
      BY <3>1 DEF Assigned, InOrder, n
    <3> QED
      BY <1>3, <3>1, <3>2
  <2> QED
    BY <2>1, <2>2
<1>5. Len(assigned') <= Len(AllIps)
  BY <1>1, <1>3
<1> QED
  BY <1>3, <1>4, <1>5 DEF InOrder

LEMMA AssignedStep == Typed /\ Assigned /\ [Next]_vars => Assigned'
<1> SUFFICES ASSUME Typed, Assigned, [Next]_vars PROVE Assigned'
  OBVIOUS
<1>1. Steady /\ ranges' = ranges /\ plan' = plan
  BY InputsStay DEF Steady, inputs
<1>2. Node' = Node /\ AllIps' = AllIps /\ RadiusEnabled' = RadiusEnabled
  BY <1>1, SameTables DEF RadiusEnabled
<1>3. assigned' = assigned => slices' = slices
  BY <1>1, <1>2 DEF slices, Slice, Offset
<1>4. CASE AssignUser
  <2>1. phase' # "done"
    BY <1>4 DEF AssignUser
  <2> QED
    BY <1>2, <1>4, <2>1, InOrderStep DEF Assigned
<1>5. CASE SliceUsers
  <2>1. assigned' = assigned /\ Len(assigned) = Len(AllIps)
        /\ \A n \in Node : radius'[n] = slices[n]
    BY <1>5 DEF SliceUsers, slices
  <2>2. slices' = slices
    BY <1>3, <2>1
  <2>3. Sliced(Node, assigned, AllIps, slices, radius')
    BY <2>1 DEF Sliced
  <2> QED
    BY <1>2, <2>1, <2>2, <2>3 DEF Assigned
<1>6. CASE AllAdded
  <2>1. assigned' = assigned /\ (RadiusEnabled => phase' # "done")
    BY <1>6 DEF AllAdded
  <2> QED
    BY <1>2, <2>1 DEF Assigned
<1>7. CASE SplitUsers \/ Refuse \/ \E type \in Type : AddSession(type)
  <2>1. assigned' = assigned /\ phase' # "done"
    BY <1>7 DEF SplitUsers, Refuse, AddSession
  <2> QED
    BY <1>2, <2>1 DEF Assigned
<1>8. CASE UNCHANGED vars
  <2>1. assigned' = assigned /\ phase' = phase /\ radius' = radius
    BY <1>8 DEF vars
  <2>2. slices' = slices
    BY <1>3, <2>1
  <2> QED
    BY <1>2, <2>1, <2>2 DEF Assigned
<1> QED
  BY <1>4, <1>5, <1>6, <1>7, <1>8 DEF Next

\* The offset of a node is where its addresses start in the list of all.
LEMMA OffsetIs ==
    ASSUME RangesOK, NEW h, Offsets(h, [m \in Node |-> IpsOf(m)], AllIps), NEW n \in Node
    PROVE  Offset(n) = h[n - 1]
<1> DEFINE s == [m \in Node |-> IpsOf(m)]
           t == [m \in 1 .. n - 1 |-> [i \in 1 .. ranges[m] |-> m]]
           N == Len(ranges)
<1>1. N \in Nat /\ Node = 1 .. N /\ n \in 1 .. N /\ n - 1 \in Nat
      /\ \A m \in 1 .. N : ranges[m] \in Nat
  BY NodesExist DEF Node
<1>2. Len(s) = N /\ \A m \in 1 .. N : Len(s[m]) = ranges[m]
  BY <1>1 DEF IpsOf
<1>3. Len(t) = n - 1 /\ \A m \in 1 .. n - 1 : Len(t[m]) = ranges[m]
  BY <1>1
<1>4. t \in Seq(Seq(Nat))
  <2>1. ASSUME NEW m \in 1 .. n - 1 PROVE [i \in 1 .. ranges[m] |-> m] \in Seq(Nat)
    BY <1>1
  <2> QED
    BY <1>1, <2>1
<1>5. Offset(n) = Len(FlattenSeq(t))
  BY DEF Offset
<1> HIDE DEF s, t, N
<1>6. PICK g : Offsets(g, t, FlattenSeq(t))
  BY <1>4, FlattenOffsets
<1>7. /\ g[0] = 0 /\ Len(FlattenSeq(t)) = g[n - 1]
      /\ \A m \in 1 .. n - 1 : g[m] = g[m - 1] + ranges[m]
  <2>1. /\ g[0] = 0 /\ Len(FlattenSeq(t)) = g[n - 1]
        /\ \A m \in 1 .. n - 1 : g[m] = g[m - 1] + Len(t[m])
    BY <1>3, <1>6, Zenon DEF Offsets
  <2> QED
    BY <1>3, <2>1
<1>8. h[0] = 0 /\ \A m \in 1 .. N : h[m] = h[m - 1] + ranges[m]
  <2>1. Offsets(h, s, AllIps)
    BY DEF s
  <2>2. h[0] = 0 /\ \A m \in 1 .. N : h[m] = h[m - 1] + Len(s[m])
    BY <1>2, <2>1, Zenon DEF Offsets
  <2> QED
    BY <1>2, <2>2
<1> DEFINE D == {m \in 0 .. n - 1 : g[m] = h[m]}
<1>9. 0 \in D
  BY <1>1, <1>7, <1>8
<1>10. ASSUME NEW m \in 0 .. (n - 1) - 1, m \in D PROVE m + 1 \in D
  <2>1. m + 1 \in 1 .. n - 1 /\ m + 1 \in 1 .. N /\ (m + 1) - 1 = m /\ g[m] = h[m]
    BY <1>1, <1>10
  <2>2. g[m + 1] = h[m + 1]
    BY <1>7, <1>8, <2>1
  <2> QED
    BY <2>1, <2>2
<1>11. 0 .. n - 1 \subseteq D
  <2> HIDE DEF D
  <2> QED
    BY <1>1, <1>9, <1>10, BoundedInduction
<1>12. n - 1 \in D
  BY <1>1, <1>11
<1> QED
  BY <1>5, <1>7, <1>12

\* When all users are assigned, the slice of a node has the user of each of its
\* addresses, in their order.
LEMMA SliceIs ==
    ASSUME Typed, InOrder(assigned, AllIps), Len(assigned) = Len(AllIps), NEW n \in Node
    PROVE  /\ DOMAIN Slice(n) = 1 .. ranges[n] /\ Len(Slice(n)) = ranges[n]
           /\ \A i \in 1 .. ranges[n] : Slice(n)[i].ip = <<n, i>>
           /\ \A i \in 1 .. ranges[n] : \E k \in 1 .. Len(AllIps) :
                 /\ AllIps[k] = <<n, i>>
                 /\ Slice(n)[i].name = ((k - 1) % Len(Pool)) + 1
<1> DEFINE s == [m \in Node |-> IpsOf(m)]
           N == Len(ranges)
           r == ranges[n]
<1>1. PICK h : Offsets(h, s, AllIps)
  BY AllIpsOffsets DEF Typed
<1>2. N \in Nat /\ Node = 1 .. N /\ n \in 1 .. N /\ r \in Nat
  BY NodesExist DEF Typed, Node
<1>3. Len(s) = N /\ Len(s[n]) = r /\ \A i \in 1 .. r : s[n][i] = <<n, i>>
  BY <1>2 DEF IpsOf
<1>4. Offset(n) = h[n - 1]
  BY <1>1, OffsetIs DEF Typed
<1> DEFINE o == h[n - 1]
<1>5. o \in Nat
  <2>1. h \in [0 .. Len(s) -> Nat]
    BY <1>1 DEF Offsets
  <2> HIDE DEF s, N
  <2>2. n - 1 \in 0 .. N
    BY <1>2
  <2> QED
    BY <1>3, <2>1, <2>2
<1>6. \A i \in 1 .. r : o + i \in 1 .. Len(AllIps) /\ AllIps[o + i] = <<n, i>>
  <2>1. \A m \in 1 .. Len(s) : \A j \in 1 .. Len(s[m]) :
           h[m - 1] + j \in 1 .. Len(AllIps) /\ AllIps[h[m - 1] + j] = s[m][j]
    BY <1>1, Zenon DEF Offsets
  <2> HIDE DEF s, N
  <2>2. \A j \in 1 .. r : h[n - 1] + j \in 1 .. Len(AllIps) /\ AllIps[h[n - 1] + j] = s[n][j]
    BY <1>2, <1>3, <2>1
  <2> QED
    BY <1>3, <2>2
<1> HIDE DEF s, N, o
<1>7. Slice(n) = SubSeq(assigned, o + 1, o + r)
  BY <1>4 DEF Slice, o
<1> HIDE DEF r
<1>8. \A i \in o + 1 .. o + r : assigned[i] \in User
  <2> SUFFICES ASSUME NEW i \in o + 1 .. o + r PROVE assigned[i] \in User
    OBVIOUS
  <2>1. i - o \in 1 .. r /\ o + (i - o) = i
    BY <1>2, <1>5
  <2>2. i \in 1 .. Len(AllIps)
    BY <1>6, <2>1
  <2> QED
    BY <2>2 DEF Typed
<1>9. /\ Slice(n) \in Seq(User)
      /\ Len(Slice(n)) = IF o + 1 <= o + r THEN (o + r) - (o + 1) + 1 ELSE 0
      /\ \A i \in 1 .. (o + r) - (o + 1) + 1 : Slice(n)[i] = assigned[(o + 1) + i - 1]
  <2>1. o + 1 \in Int /\ o + r \in Int
    BY <1>2, <1>5
  <2> DEFINE a == o + 1
             b == o + r
  <2>2. a \in Int /\ b \in Int /\ \A i \in a .. b : assigned[i] \in User
    BY <1>8, <2>1
  <2> HIDE DEF a, b
  <2>3. /\ SubSeq(assigned, a, b) \in Seq(User)
        /\ Len(SubSeq(assigned, a, b)) = IF a <= b THEN b - a + 1 ELSE 0
        /\ \A i \in 1 .. b - a + 1 : SubSeq(assigned, a, b)[i] = assigned[a + i - 1]
    BY <2>2, SubSeqProperties
  <2> QED
    BY <1>7, <2>3 DEF a, b
<1>10. Len(Slice(n)) = r
  BY <1>2, <1>5, <1>9
<1>11. ASSUME NEW i \in 1 .. r PROVE Slice(n)[i] = assigned[o + i] /\ o + i \in 1 .. Len(assigned)
  <2>1. i \in 1 .. (o + r) - (o + 1) + 1 /\ (o + 1) + i - 1 = o + i
    BY <1>2, <1>5
  <2> QED
    BY <1>6, <1>9, <2>1
<1>12. ASSUME NEW i \in 1 .. r
       PROVE  /\ Slice(n)[i].ip = <<n, i>>
              /\ o + i \in 1 .. Len(AllIps) /\ AllIps[o + i] = <<n, i>>
              /\ Slice(n)[i].name = (((o + i) - 1) % Len(Pool)) + 1
  <2> DEFINE k == o + i
  <2>1. k \in 1 .. Len(assigned)
    BY <1>11
  <2> HIDE DEF k
  <2>2. assigned[k].ip = AllIps[k] /\ assigned[k].name = ((k - 1) % Len(Pool)) + 1
    BY <2>1, Zenon DEF InOrder
  <2>3. assigned[o + i].ip = AllIps[o + i] /\ assigned[o + i].name = (((o + i) - 1) % Len(Pool)) + 1
    BY <2>2, Zenon DEF k
  <2> QED
    BY <1>6, <1>11, <2>3
<1>13. ASSUME NEW i \in 1 .. r
       PROVE  \E k \in 1 .. Len(AllIps) :
                 /\ AllIps[k] = <<n, i>>
                 /\ Slice(n)[i].name = ((k - 1) % Len(Pool)) + 1
  <2> DEFINE k == o + i
  <2>1. k \in 1 .. Len(AllIps) /\ AllIps[k] = <<n, i>>
        /\ Slice(n)[i].name = ((k - 1) % Len(Pool)) + 1
    BY <1>12, Zenon
  <2> HIDE DEF k
  <2> QED
    BY <2>1, Zenon
<1>14. DOMAIN Slice(n) = 1 .. r
  BY <1>9, <1>10
<1> QED
  BY <1>10, <1>12, <1>13, <1>14 DEF r

\* The user of an address is the one at its place in the list of all addresses.
LEMMA UserOfAddress ==
    ASSUME Typed, InOrder(assigned, AllIps), Sliced(Node, assigned, AllIps, slices, radius),
           NEW a \in AllAddresses
    PROVE  \E k \in 1 .. Len(AllIps) :
              AllIps[k] = a /\ UserOf(a).name = ((k - 1) % Len(Pool)) + 1
<1>1. PICK n \in Node : a \in Addresses(n)
  BY DEF AllAddresses
<1>2. PICK i \in 1 .. ranges[n] : a = <<n, i>>
  BY <1>1 DEF Addresses
<1>3. radius[n] = Slice(n) /\ Len(assigned) = Len(AllIps) /\ a[1] = n
  BY <1>2 DEF Sliced, slices
<1>4. /\ DOMAIN Slice(n) = 1 .. ranges[n]
      /\ \A j \in 1 .. ranges[n] : Slice(n)[j].ip = <<n, j>>
      /\ \A j \in 1 .. ranges[n] : \E k \in 1 .. Len(AllIps) :
            /\ AllIps[k] = <<n, j>>
            /\ Slice(n)[j].name = ((k - 1) % Len(Pool)) + 1
  BY <1>3, SliceIs
<1>5. \A u \in ToSet(Slice(n)) : u.ip = a => u = Slice(n)[i]
  BY <1>2, <1>4 DEF ToSet
<1>6. Slice(n)[i] \in ToSet(Slice(n)) /\ Slice(n)[i].ip = a
  BY <1>2, <1>4 DEF ToSet
<1>7. UserOf(a) = Slice(n)[i]
  <2>1. UserOf(a) = CHOOSE u \in ToSet(Slice(n)) : u.ip = a
    BY <1>3 DEF UserOf
  <2> QED
    BY <1>5, <1>6, <2>1
<1> QED
  BY <1>2, <1>4, <1>7

LEMMA AssignedUsersFit == Typed /\ Assigned => UsersFitNodes
<1> SUFFICES ASSUME Typed, Assigned, phase = "done", RadiusEnabled PROVE UsersFitNodes
  BY DEF UsersFitNodes
<1>1. InOrder(assigned, AllIps) /\ Sliced(Node, assigned, AllIps, slices, radius)
  BY DEF Assigned
<1>2. ASSUME NEW n \in Node
      PROVE  {u.ip : u \in ToSet(radius[n])} = Addresses(n) /\ Len(radius[n]) = ranges[n]
  <2>1. radius[n] = Slice(n) /\ Len(assigned) = Len(AllIps)
    BY <1>1 DEF Sliced, slices
  <2>2. /\ DOMAIN Slice(n) = 1 .. ranges[n] /\ Len(Slice(n)) = ranges[n]
        /\ \A i \in 1 .. ranges[n] : Slice(n)[i].ip = <<n, i>>
    BY <1>1, <2>1, SliceIs
  <2>3. {u.ip : u \in ToSet(Slice(n))} = {Slice(n)[i].ip : i \in 1 .. ranges[n]}
    BY <2>2 DEF ToSet
  <2>4. {Slice(n)[i].ip : i \in 1 .. ranges[n]} = Addresses(n)
    BY <2>2 DEF Addresses
  <2> QED
    BY <2>1, <2>2, <2>3, <2>4
<1>3. ASSUME Len(AllIps) <= Len(Pool), NEW x \in Ends("initiator"), x.local # x.peer
      PROVE  UserOf(x.local).name # UserOf(x.peer).name
  <2>1. PICK n \in Node : \E e \in udp[n] : \E p \in e.peers :
           e.role = "initiator" /\ x = [id |-> e.id, node |-> n, local |-> e.local, peer |-> p]
    BY EndsAre
  <2>2. x.local \in AllAddresses /\ x.peer \in AllAddresses
    BY <2>1 DEF Typed, UdpEntry
  <2>3. PICK k \in 1 .. Len(AllIps) :
           AllIps[k] = x.local /\ UserOf(x.local).name = ((k - 1) % Len(Pool)) + 1
    BY <1>1, <2>2, UserOfAddress
  <2>4. PICK l \in 1 .. Len(AllIps) :
           AllIps[l] = x.peer /\ UserOf(x.peer).name = ((l - 1) % Len(Pool)) + 1
    BY <1>1, <2>2, UserOfAddress
  <2>5. Len(AllIps) \in Nat /\ Len(Pool) \in Nat /\ k # l
    BY <1>3, <2>3, <2>4, AllIpsOffsets, RolesExist DEF Typed
  <2> DEFINE P == Len(Pool)
  <2>6. P \in Nat /\ P > 0 /\ k - 1 \in 0 .. P - 1 /\ l - 1 \in 0 .. P - 1
    BY <1>3, <2>5
  <2> HIDE DEF P
  <2>7. ASSUME (k - 1) % P = (l - 1) % P PROVE FALSE
    <3>1. 0 + (k - 1) = k - 1 /\ 0 + (l - 1) = l - 1
      BY <2>6
    <3>2. (0 + (k - 1)) % P = (0 + (l - 1)) % P
      BY <2>7, <3>1
    <3> DEFINE u == k - 1
               v == l - 1
    <3>3. u \in 0 .. P - 1 /\ v \in 0 .. P - 1 /\ (0 + u) % P = (0 + v) % P
      BY <2>6, <3>2
    <3>4. u # v
      BY <2>5
    <3> HIDE DEF u, v
    <3>5. u = v
      BY <2>6, <3>3, ModApart
    <3> QED
      BY <3>4, <3>5
  <2>8. (k - 1) % P \in 0 .. P - 1 /\ (l - 1) % P \in 0 .. P - 1
    BY <2>6, ModRange
  <2>9. ((k - 1) % P) + 1 # ((l - 1) % P) + 1
    <3> DEFINE u == (k - 1) % P
               v == (l - 1) % P
    <3>1. u \in Int /\ v \in Int /\ u # v
      BY <2>6, <2>7, <2>8
    <3> HIDE DEF u, v
    <3>2. u + 1 # v + 1
      BY <3>1
    <3> QED
      BY <3>2 DEF u, v
  <2> QED
    BY <2>3, <2>4, <2>9 DEF P
<1> QED
  BY <1>2, <1>3 DEF UsersFitNodes

\* distributor.py:221-281: when the plans are done, a node has one user for each
\* of its addresses and for no other, and as long as the pool has a name for every
\* address the two ends of a session are different users.
THEOREM UsersAlwaysFit == Spec => []UsersFitNodes
<1>1. Init => Typed /\ Assigned
  BY TypedInit, AssignedInit
<1>2. Typed /\ Assigned /\ [Next]_vars => (Typed /\ Assigned)'
  BY TypedStep, AssignedStep
<1> QED
  BY <1>1, <1>2, AssignedUsersFit, PTL DEF Spec

-----------------------------------------------------------------------------
(* The load of an address *)

\* Every address has a slot.
LEMMA SlotsCover ==
    ASSUME RangesOK, NEW a \in AllAddresses
    PROVE  \E k \in 1 .. Len(Slots) : Slots[k] = a
<1> DEFINE s == [i \in Rows |-> Row(i)]
<1>1. PICK n \in Node : a \in Addresses(n)
  BY DEF AllAddresses
<1>2. PICK i \in 1 .. ranges[n] : a = <<n, i>>
  BY <1>1 DEF Addresses
<1>3. i \in Nat /\ i > 0 /\ i \in Rows /\ i <= ranges[n]
  BY <1>2, LongestRange, NodesExist DEF Rows
<1>4. Len(s) = Max(ToSet(ranges)) /\ i \in 1 .. Len(s) /\ s[i] = Row(i)
  BY <1>3, LongestRange DEF Rows
<1>5. \E j \in 1 .. Len(Row(i)) : Row(i)[j] = a
  <2> DEFINE t == [m \in Node |-> PartOf(m, i)]
  <2>1. PICK g : Offsets(g, t, Row(i))
    BY <1>3, RowOffsets
  <2>2. n \in 1 .. Len(t) /\ t[n] = << <<n, i>> >>
    BY <1>3, NodesExist DEF PartOf, Node
  <2> HIDE DEF t
  <2>3. Len(t[n]) = 1 /\ t[n][1] = <<n, i>> /\ 1 \in 1 .. Len(t[n])
    BY <2>2
  <2>4. \A x \in 1 .. Len(t) : \A y \in 1 .. Len(t[x]) :
           g[x - 1] + y \in 1 .. Len(Row(i)) /\ Row(i)[g[x - 1] + y] = t[x][y]
    BY <2>1, Zenon DEF Offsets
  <2>5. g[n - 1] + 1 \in 1 .. Len(Row(i)) /\ Row(i)[g[n - 1] + 1] = t[n][1]
    BY <2>2, <2>3, <2>4, Zenon
  <2> QED
    BY <1>2, <2>3, <2>5
<1>6. PICK j \in 1 .. Len(Row(i)) : Row(i)[j] = a
  BY <1>5
<1>7. PICK h : Offsets(h, s, Slots)
  BY SlotsOffsets
<1> HIDE DEF s
<1>8. \A x \in 1 .. Len(s) : \A y \in 1 .. Len(s[x]) :
         h[x - 1] + y \in 1 .. Len(Slots) /\ Slots[h[x - 1] + y] = s[x][y]
  BY <1>7, Zenon DEF Offsets
<1>9. j \in 1 .. Len(s[i]) /\ s[i][j] = a
  BY <1>4, <1>6
<1>10. h[i - 1] + j \in 1 .. Len(Slots) /\ Slots[h[i - 1] + j] = s[i][j]
  BY <1>4, <1>8, <1>9, Zenon
<1> QED
  BY <1>9, <1>10

\* The ids of the sessions so far.
Numbered ==
    \A n \in Node : \A e \in udp[n] : e.id[2] < added[e.id[1]]

EntriesAt(table, a) == {e \in table[a[1]] : e.local = a}

\* The slots before the cursor have one entry more than those after it.
BalancedIn(table, slots, at) ==
    \E q \in Nat : \A k \in 1 .. Len(slots) :
        /\ IsFiniteSet(EntriesAt(table, slots[k]))
        /\ Cardinality(EntriesAt(table, slots[k])) = q + (IF k <= (at % Len(slots)) THEN 1 ELSE 0)

Balanced == Numbered /\ BalancedIn(udp, Slots, cursor)

\* How the entries of a session fall on the slots.
Window(c, m, L, k) == (c < k /\ k <= c + m) \/ k <= c + m - L

LEMMA WindowMoves ==
    ASSUME NEW L \in Nat, L > 0, NEW at \in Nat, NEW m \in 1 .. L, NEW k \in 1 .. L
    PROVE  /\ Window(at % L, m, L, k) <=> \E i \in 0 .. m - 1 : k = ((at + i) % L) + 1
           /\ (IF k <= (at % L) THEN 1 ELSE 0) + (IF Window(at % L, m, L, k) THEN 1 ELSE 0)
                = (IF (at % L) + m < L THEN 0 ELSE 1) + (IF k <= ((at + m) % L) THEN 1 ELSE 0)
<1> DEFINE c == at % L
<1>1. c \in 0 .. L - 1
  BY ModRange
<1>2. ASSUME NEW i \in 0 .. m
      PROVE  (at + i) % L = IF c + i < L THEN c + i ELSE c + i - L
  <2>1. i \in 0 .. L
    OBVIOUS
  <2> QED
    BY <2>1, ModPlus
<1> HIDE DEF c
<1>3. m \in 0 .. m /\ \A i \in 0 .. m - 1 : i \in 0 .. m
  OBVIOUS
<1>4. ASSUME Window(c, m, L, k)
      PROVE  \E i \in 0 .. m - 1 : k = ((at + i) % L) + 1
  <2>1. CASE c < k /\ k <= c + m
    <3> DEFINE i == k - 1 - c
    <3>1. i \in 0 .. m - 1 /\ c + i = k - 1 /\ c + i < L
      BY <1>1, <2>1
    <3> HIDE DEF i
    <3>2. (at + i) % L = k - 1
      BY <1>2, <1>3, <3>1
    <3>3. k = ((at + i) % L) + 1
      BY <3>2
    <3> QED
      BY <3>1, <3>3
  <2>2. CASE k <= c + m - L
    <3> DEFINE i == (k - 1 + L) - c
    <3>1. i \in 0 .. m - 1 /\ ~ (c + i < L) /\ c + i - L = k - 1
      BY <1>1, <2>2
    <3> HIDE DEF i
    <3>2. (at + i) % L = k - 1
      BY <1>2, <1>3, <3>1
    <3>3. k = ((at + i) % L) + 1
      BY <3>2
    <3> QED
      BY <3>1, <3>3
  <2> QED
    BY <1>4, <2>1, <2>2 DEF Window
<1>5. ASSUME NEW i \in 0 .. m - 1, k = ((at + i) % L) + 1
      PROVE  Window(c, m, L, k)
  <2>1. (at + i) % L = IF c + i < L THEN c + i ELSE c + i - L
    BY <1>2, <1>3
  <2>2. CASE c + i < L
    <3>1. k = c + i + 1
      BY <1>5, <2>1, <2>2
    <3> QED
      BY <1>1, <3>1 DEF Window
  <2>3. CASE ~ (c + i < L)
    <3>1. k = c + i - L + 1
      BY <1>5, <2>1, <2>3
    <3> QED
      BY <1>1, <3>1 DEF Window
  <2> QED
    BY <2>2, <2>3
<1> DEFINE d == (at + m) % L
<1>6. d = IF c + m < L THEN c + m ELSE c + m - L
  BY <1>2, <1>3
<1> HIDE DEF d
<1>7. (IF k <= c THEN 1 ELSE 0) + (IF Window(c, m, L, k) THEN 1 ELSE 0)
        = (IF c + m < L THEN 0 ELSE 1) + (IF k <= d THEN 1 ELSE 0)
  BY <1>1, <1>6 DEF Window
<1> QED
  BY <1>4, <1>5, <1>7 DEF c, d

\* The entry of the session that falls on the i-th slot after the cursor.
EntryOn(type, i) ==
    IF i = 0
      THEN Entry(type, "initiator", NextSlot(1), {NextSlot(1 + j) : j \in 1 .. Receivers(type)})
      ELSE Entry(type, "responder", NextSlot(1 + i), {NextSlot(1)})

LEMMA NewEntriesOn ==
    ASSUME Typed, Slots # <<>>, NEW type \in Type
    PROVE  /\ NewEntries(type) = {EntryOn(type, i) : i \in 0 .. Receivers(type)}
           /\ \A i \in 0 .. Receivers(type) :
                 /\ EntryOn(type, i).local = Slots[((cursor + i) % Len(Slots)) + 1]
                 /\ EntryOn(type, i).id = <<type, added[type]>>
<1> DEFINE R == Receivers(type)
           senderEntry == Entry(type, "initiator", NextSlot(1), {NextSlot(1 + j) : j \in 1 .. R})
<1>1. R \in 1 .. 4 /\ cursor \in Nat
  BY ReceiversFit DEF Typed
<1>2. NewEntries(type) = {senderEntry} \cup {Entry(type, "responder", NextSlot(1 + i), {NextSlot(1)}) : i \in 1 .. R}
  BY DEF NewEntries, Entries
<1>3. EntryOn(type, 0) = senderEntry
  BY DEF EntryOn
<1>4. \A i \in 1 .. R : EntryOn(type, i) = Entry(type, "responder", NextSlot(1 + i), {NextSlot(1)})
  BY DEF EntryOn
<1>5. 0 .. R = {0} \cup 1 .. R
  BY <1>1
<1> HIDE DEF R
<1>6. NewEntries(type) = {EntryOn(type, i) : i \in 0 .. R}
  <2> HIDE DEF senderEntry
  <2> QED
    BY <1>2, <1>3, <1>4, <1>5
<1>7. ASSUME NEW i \in 0 .. R
      PROVE  /\ EntryOn(type, i).local = Slots[((cursor + i) % Len(Slots)) + 1]
             /\ EntryOn(type, i).id = <<type, added[type]>>
  <2>1. CASE i = 0
    <3>1. cursor + (1 - 1) = cursor + 0 /\ cursor + 0 = cursor
      BY <1>1
    <3>2. NextSlot(1) = Slots[((cursor + 0) % Len(Slots)) + 1]
      BY <3>1 DEF NextSlot
    <3> QED
      BY <1>3, <2>1, <3>2 DEF Entry
  <2>2. CASE i # 0
    <3>1. i \in 1 .. R /\ cursor + ((1 + i) - 1) = cursor + i
      BY <1>1, <2>2
    <3>2. NextSlot(1 + i) = Slots[((cursor + i) % Len(Slots)) + 1]
      BY <3>1 DEF NextSlot
    <3> QED
      BY <1>4, <3>1, <3>2 DEF Entry
  <2> QED
    BY <2>1, <2>2
<1> QED
  BY <1>6, <1>7 DEF R

\* What a session adds to the entries of a slot.
LEMMA OnSlot ==
    ASSUME Typed, Len(Slots) > 1, NEW type \in Type, NEW k \in 1 .. Len(Slots)
    PROVE  LET on == {e \in NewEntries(type) : e.local = Slots[k]}
           IN  IF Window(cursor % Len(Slots), 1 + Receivers(type), Len(Slots), k)
                 THEN \E e : on = {e}
                 ELSE on = {}
<1> DEFINE L == Len(Slots)
           R == Receivers(type)
           on == {e \in NewEntries(type) : e.local = Slots[k]}
           place == [i \in 0 .. R |-> ((cursor + i) % L) + 1]
<1>1. /\ cursor \in Nat /\ L \in Nat /\ L > 1 /\ Slots # <<>> /\ RangesOK
      /\ R \in 1 .. 4 /\ 1 + R \in 1 .. L
  BY SlotsOffsets, ReceiversFit DEF Typed
<1>2. NewEntries(type) = {EntryOn(type, i) : i \in 0 .. R}
      /\ \A i \in 0 .. R : EntryOn(type, i).local = Slots[place[i]]
  BY <1>1, NewEntriesOn
<1>3. Window(cursor % L, 1 + R, L, k) <=> \E i \in 0 .. R : k = place[i]
  <2>1. Window(cursor % L, 1 + R, L, k) <=> \E i \in 0 .. (1 + R) - 1 : k = ((cursor + i) % L) + 1
    <3> DEFINE m == 1 + R
    <3>1. m \in 1 .. L
      BY <1>1
    <3>2. k \in 1 .. L /\ L \in Nat /\ L > 0 /\ cursor \in Nat
      BY <1>1
    <3> HIDE DEF m, L
    <3>3. Window(cursor % L, m, L, k) <=> \E i \in 0 .. m - 1 : k = ((cursor + i) % L) + 1
      BY <3>1, <3>2, WindowMoves
    <3> QED
      BY <3>3 DEF m
  <2>2. (1 + R) - 1 = R
    BY <1>1
  <2> HIDE DEF L, R
  <2> QED
    BY <2>1, <2>2
<1>4. \A i \in 0 .. R : place[i] \in 1 .. L
  <2> SUFFICES ASSUME NEW i \in 0 .. R PROVE ((cursor + i) % L) + 1 \in 1 .. L
    OBVIOUS
  <2>1. cursor + i \in Nat
    BY <1>1
  <2>2. (cursor + i) % L \in 0 .. L - 1
    BY <1>1, <2>1, ModRange
  <2> QED
    BY <1>1, <2>2
<1>5. ASSUME NEW i \in 0 .. R, NEW j \in 0 .. R, place[i] = place[j] PROVE i = j
  <2> DEFINE u == (cursor + i) % L
             v == (cursor + j) % L
  <2>1. u + 1 = v + 1 /\ u + 1 \in 1 .. L /\ v + 1 \in 1 .. L
    BY <1>4, <1>5
  <2>2. u \in Int /\ v \in Int
    BY <1>1
  <2>3. u = v
    <3> HIDE DEF u, v
    <3> QED
      BY <2>1, <2>2
  <2>4. i \in 0 .. L - 1 /\ j \in 0 .. L - 1 /\ (cursor + i) % L = (cursor + j) % L
    BY <1>1, <2>3
  <2>5. L \in Nat /\ L > 0 /\ cursor \in Nat
    BY <1>1
  <2> HIDE DEF u, v, L, R, place
  <2> QED
    BY <2>4, <2>5, ModApart, Zenon
<1>6. \A x, y \in 1 .. L : Slots[x] = Slots[y] => x = y
  BY <1>1, SlotsInjective
<1> HIDE DEF place, L, R, on
<1>7. ASSUME NEW i \in 0 .. R PROVE EntryOn(type, i).local = Slots[k] <=> place[i] = k
  <2>1. k \in 1 .. L /\ place[i] \in 1 .. L
    BY <1>4 DEF L
  <2>2. Slots[place[i]] = Slots[k] <=> place[i] = k
    BY <1>6, <2>1, Zenon
  <2>3. EntryOn(type, i).local = Slots[place[i]]
    BY <1>2
  <2> QED
    BY <2>2, <2>3
<1>8. on = {EntryOn(type, i) : i \in {x \in 0 .. R : place[x] = k}}
  BY <1>2, <1>7 DEF on
<1>9. CASE Window(cursor % L, 1 + R, L, k)
  <2>1. PICK i \in 0 .. R : k = place[i]
    BY <1>3, <1>9
  <2>2. {x \in 0 .. R : place[x] = k} = {i}
    BY <1>5, <2>1
  <2>3. on = {EntryOn(type, i)}
    BY <1>8, <2>2
  <2> QED
    BY <1>9, <2>3 DEF on, L, R
<1>10. CASE ~ Window(cursor % L, 1 + R, L, k)
  <2>1. {x \in 0 .. R : place[x] = k} = {}
    BY <1>3, <1>10
  <2>2. on = {}
    BY <1>8, <2>1
  <2> QED
    BY <1>10, <2>2 DEF on, L, R
<1> QED
  BY <1>9, <1>10 DEF on, L, R

\* With a single slot both entries of a session fall on it.
LEMMA OnOneSlot ==
    ASSUME Typed, Len(Slots) = 1, NEW type \in Type
    PROVE  \E e, f : e # f /\ {x \in NewEntries(type) : x.local = Slots[1]} = {e, f}
<1>0. cursor \in Nat /\ RangesOK
  BY DEF Typed
<1>1. cursor \in Nat /\ Slots # <<>>
  <2>1. Slots \in Seq(AllAddresses)
    BY <1>0, SlotsOffsets
  <2>2. Slots # <<>>
    BY <2>1, EmptySeq
  <2> QED
    BY <1>0, <2>2
<1>2. Receivers(type) = 1
  BY DEF Receivers
<1>3. /\ NewEntries(type) = {EntryOn(type, i) : i \in 0 .. 1}
      /\ \A i \in 0 .. 1 : EntryOn(type, i).local = Slots[((cursor + i) % 1) + 1]
  BY <1>1, <1>2, NewEntriesOn
<1>4. ASSUME NEW i \in 0 .. 1 PROVE ((cursor + i) % 1) + 1 = 1
  <2>1. (cursor + i) % 1 \in 0 .. 1 - 1
    BY <1>1, ModRange
  <2> QED
    BY <2>1
<1>5. \A i \in 0 .. 1 : EntryOn(type, i).local = Slots[1]
  BY <1>3, <1>4
<1>6. EntryOn(type, 0) # EntryOn(type, 1)
  <2>1. EntryOn(type, 0).role = "initiator" /\ EntryOn(type, 1).role = "responder"
    BY DEF EntryOn, Entry
  <2> QED
    BY <2>1
<1>7. {x \in NewEntries(type) : x.local = Slots[1]} = {EntryOn(type, 0), EntryOn(type, 1)}
  <2>1. 0 .. 1 = {0, 1}
    OBVIOUS
  <2> QED
    BY <1>3, <1>5, <2>1
<1> QED
  BY <1>6, <1>7

LEMMA BalancedAdd ==
    ASSUME Typed, Balanced, Steady, NEW type \in Type, AddSession(type)
    PROVE  Balanced'
<1> DEFINE L == Len(Slots)
           R == Receivers(type)
           new == NewEntries(type)
<1>1. /\ Slots # <<>> /\ cursor' = cursor + (1 + R)
      /\ added' = [added EXCEPT ![type] = @ + 1]
      /\ udp' = [n \in Node |-> udp[n] \cup {e \in new : e.local[1] = n}]
  <2>1. /\ Slots # <<>> /\ cursor' = cursor + 1 + R
        /\ added' = [added EXCEPT ![type] = @ + 1]
        /\ udp' = [n \in Node |-> udp[n] \cup {e \in new : e.local[1] = n}]
    BY DEF AddSession, Advance, NewEntries
  <2>2. cursor \in Nat /\ RangesOK
    BY DEF Typed
  <2>3. R \in 1 .. 4
    BY <2>1, <2>2, ReceiversFit
  <2> HIDE DEF R, new
  <2>4. cursor + 1 + R = cursor + (1 + R)
    BY <2>2, <2>3
  <2> QED
    BY <2>1, <2>4
<1>2. Node' = Node /\ Slots' = Slots
  BY SameTables
<1>3. L \in Nat /\ L > 0 /\ cursor \in Nat /\ R \in 1 .. 4 /\ added \in [Type -> Nat] /\ RangesOK
      /\ Slots \in Seq(AllAddresses)
  BY <1>1, SlotsOffsets, EmptySeq, ReceiversFit DEF Typed
<1>4. \A e \in new : e.id = <<type, added[type]>>
  BY <1>1, NewEntriesOn
<1>5. ASSUME NEW n \in Node, NEW e \in udp[n]
      PROVE  e.id \in Type \X Nat /\ e.id[2] < added[e.id[1]] /\ e \notin new
  <2>1. e.id \in Type \X Nat /\ e.id[2] < added[e.id[1]]
    BY DEF Typed, UdpEntry, Balanced, Numbered
  <2>2. e.id # <<type, added[type]>>
    BY <1>3, <2>1
  <2> QED
    BY <1>4, <2>1, <2>2
<1> HIDE DEF new, L, R
<1>6. Numbered'
  <2>1. ASSUME NEW n \in Node, NEW e \in udp'[n] PROVE e.id[2] < added'[e.id[1]]
    <3>1. CASE e \in udp[n]
      <4>1. e.id[1] \in Type /\ e.id[2] \in Nat /\ e.id[2] < added[e.id[1]]
        BY <1>5, <3>1
      <4>2. added'[e.id[1]] \in {added[e.id[1]], added[e.id[1]] + 1} /\ added[e.id[1]] \in Nat
        BY <1>1, <1>3, <4>1
      <4> QED
        BY <4>1, <4>2
    <3>2. CASE e \notin udp[n]
      <4>1. e.id = <<type, added[type]>>
        BY <1>1, <1>4, <3>2
      <4> QED
        BY <1>1, <1>3, <4>1
    <3> QED
      BY <3>1, <3>2
  <2> QED
    BY <1>2, <2>1 DEF Numbered
<1>7. PICK q \in Nat : \A k \in 1 .. L :
         /\ IsFiniteSet(EntriesAt(udp, Slots[k]))
         /\ Cardinality(EntriesAt(udp, Slots[k])) = q + (IF k <= (cursor % L) THEN 1 ELSE 0)
  BY DEF Balanced, BalancedIn, L
<1>8. ASSUME NEW k \in 1 .. L
      PROVE  /\ EntriesAt(udp', Slots[k]) = EntriesAt(udp, Slots[k]) \cup {e \in new : e.local = Slots[k]}
             /\ EntriesAt(udp, Slots[k]) \cap {e \in new : e.local = Slots[k]} = {}
  <2>1. Slots[k] \in AllAddresses
    BY <1>3 DEF L
  <2>2. Slots[k][1] \in Node
    BY <2>1, OwnersExist
  <2>3. udp'[Slots[k][1]] = udp[Slots[k][1]] \cup {e \in new : e.local[1] = Slots[k][1]}
    BY <1>1, <2>2
  <2>4. EntriesAt(udp', Slots[k]) = EntriesAt(udp, Slots[k]) \cup {e \in new : e.local = Slots[k]}
    BY <2>3 DEF EntriesAt
  <2>5. EntriesAt(udp, Slots[k]) \cap {e \in new : e.local = Slots[k]} = {}
    BY <1>5, <2>2 DEF EntriesAt
  <2> QED
    BY <2>4, <2>5
<1>9. CASE L > 1
  <2> DEFINE m == 1 + R
             more == IF (cursor % L) + m < L THEN 0 ELSE 1
  <2>1. m \in 1 .. L
    BY <1>3, <1>9, ReceiversFit DEF L, R
  <2>2. ASSUME NEW k \in 1 .. L
        PROVE  /\ IsFiniteSet(EntriesAt(udp', Slots[k]))
               /\ Cardinality(EntriesAt(udp', Slots[k])) =
                    (q + more) + (IF k <= (cursor' % L) THEN 1 ELSE 0)
    <3> DEFINE on == {e \in new : e.local = Slots[k]}
               old == EntriesAt(udp, Slots[k])
    <3>1. IF Window(cursor % L, m, L, k) THEN \E e : on = {e} ELSE on = {}
      BY <1>9, OnSlot DEF L, R, new
    <3>2. IsFiniteSet(old) /\ Cardinality(old) = q + (IF k <= (cursor % L) THEN 1 ELSE 0)
      BY <1>7
    <3>3. EntriesAt(udp', Slots[k]) = old \cup on /\ old \cap on = {}
      BY <1>8
    <3> HIDE DEF on, old, m, more
    <3>4. (IF k <= (cursor % L) THEN 1 ELSE 0) + (IF Window(cursor % L, m, L, k) THEN 1 ELSE 0)
             = more + (IF k <= ((cursor + m) % L) THEN 1 ELSE 0)
      BY <1>3, <2>1, WindowMoves DEF more
    <3>5. cursor' = cursor + m
      BY <1>1 DEF m
    <3>6. /\ IsFiniteSet(old \cup on)
          /\ Cardinality(old \cup on) =
               Cardinality(old) + (IF Window(cursor % L, m, L, k) THEN 1 ELSE 0)
      <4>1. CASE Window(cursor % L, m, L, k)
        <5>1. PICK e : on = {e}
          BY <3>1, <4>1
        <5>2. e \notin old
          BY <3>3, <5>1
        <5>3. IsFiniteSet(old \cup {e}) /\ Cardinality(old \cup {e}) = Cardinality(old) + 1
          BY <3>2, <5>2, FS_AddElement
        <5> QED
          BY <4>1, <5>1, <5>3
      <4>2. CASE ~ Window(cursor % L, m, L, k)
        <5>1. old \cup on = old
          BY <3>1, <4>2
        <5>2. Cardinality(old) \in Nat
          BY <3>2, FS_CardinalityType
        <5>3. Cardinality(old) = Cardinality(old) + (IF Window(cursor % L, m, L, k) THEN 1 ELSE 0)
          BY <4>2, <5>2
        <5>4. IsFiniteSet(old \cup on) /\ Cardinality(old \cup on) = Cardinality(old)
          BY <3>2, <5>1
        <5> QED
          BY <5>3, <5>4
      <4> QED
        BY <4>1, <4>2
    <3>7. more \in Nat
      BY DEF more
    <3>8. Cardinality(old \cup on) = (q + more) + (IF k <= (cursor' % L) THEN 1 ELSE 0)
      BY <3>2, <3>4, <3>5, <3>6, <3>7
    <3> QED
      BY <3>3, <3>6, <3>8
  <2>3. q + more \in Nat
    OBVIOUS
  <2> HIDE DEF more, m
  <2>4. BalancedIn(udp', Slots, cursor')
    BY <2>2, <2>3 DEF BalancedIn, L
  <2> QED
    BY <1>2, <1>6, <2>4 DEF Balanced
<1>10. CASE L = 1
  <2>1. \A c \in Nat : c % 1 = 0
    <3> SUFFICES ASSUME NEW c \in Nat PROVE c % 1 = 0
      OBVIOUS
    <3>1. c % 1 \in 0 .. 1 - 1
      BY ModRange
    <3> QED
      BY <3>1
  <2>2. cursor % L = 0 /\ cursor' % L = 0
    BY <1>1, <1>3, <1>10, <2>1
  <2>3. PICK e, f : e # f /\ {x \in new : x.local = Slots[1]} = {e, f}
    BY <1>10, OnOneSlot DEF L, new
  <2> DEFINE old == EntriesAt(udp, Slots[1])
  <2>4. 1 \in 1 .. L /\ \A k \in 1 .. L : k = 1
    BY <1>10
  <2>5. IsFiniteSet(old) /\ Cardinality(old) = q
    BY <1>7, <2>2, <2>4
  <2>6. EntriesAt(udp', Slots[1]) = (old \cup {e}) \cup {f} /\ e \notin old /\ f \notin old \cup {e}
    BY <1>8, <2>3, <2>4
  <2> HIDE DEF old
  <2>7. IsFiniteSet(old \cup {e}) /\ Cardinality(old \cup {e}) = q + 1
    BY <2>5, <2>6, FS_AddElement
  <2>8. IsFiniteSet((old \cup {e}) \cup {f}) /\ Cardinality((old \cup {e}) \cup {f}) = q + 1 + 1
    <3> DEFINE mid == old \cup {e}
    <3>1. IsFiniteSet(mid) /\ Cardinality(mid) = q + 1 /\ f \notin mid
      BY <2>6, <2>7
    <3> HIDE DEF mid
    <3>2. IsFiniteSet(mid \cup {f}) /\ Cardinality(mid \cup {f}) = q + 1 + 1
      BY <3>1, FS_AddElement
    <3> QED
      BY <3>2 DEF mid
  <2>9. \A k \in 1 .. L :
           /\ IsFiniteSet(EntriesAt(udp', Slots[k]))
           /\ Cardinality(EntriesAt(udp', Slots[k])) =
                (q + 2) + (IF k <= (cursor' % L) THEN 1 ELSE 0)
    <3>1. (q + 2) + (IF 1 <= (cursor' % L) THEN 1 ELSE 0) = q + 1 + 1
      BY <2>2
    <3>2. /\ IsFiniteSet(EntriesAt(udp', Slots[1]))
          /\ Cardinality(EntriesAt(udp', Slots[1])) = q + 1 + 1
      BY <2>6, <2>8
    <3>3. /\ IsFiniteSet(EntriesAt(udp', Slots[1]))
          /\ Cardinality(EntriesAt(udp', Slots[1])) =
               (q + 2) + (IF 1 <= (cursor' % L) THEN 1 ELSE 0)
      BY <3>1, <3>2
    <3> QED
      BY <2>4, <3>3
  <2>10. BalancedIn(udp', Slots, cursor')
    <3>1. q + 2 \in Nat
      OBVIOUS
    <3> QED
      BY <2>9, <3>1 DEF BalancedIn, L
  <2> QED
    BY <1>2, <1>6, <2>10 DEF Balanced
<1> QED
  BY <1>3, <1>9, <1>10

LEMMA BalancedStep == Typed /\ Balanced /\ [Next]_vars => Balanced'
<1> SUFFICES ASSUME Typed, Balanced, [Next]_vars PROVE Balanced'
  OBVIOUS
<1>1. Steady
  BY InputsStay
<1>2. CASE \E type \in Type : AddSession(type)
  BY <1>1, <1>2, BalancedAdd
<1>3. CASE UNCHANGED <<udp, added, cursor>>
  <2>1. Node' = Node /\ Slots' = Slots
    BY <1>1, SameTables
  <2> QED
    BY <1>3, <2>1 DEF Balanced, Numbered
<1>4. (\E type \in Type : AddSession(type)) \/ UNCHANGED <<udp, added, cursor>>
  BY DEF Next, vars, SplitUsers, Refuse, AllAdded, AssignUser, SliceUsers
<1> QED
  BY <1>2, <1>3, <1>4

LEMMA BalancedInit == Init => Balanced
<1> SUFFICES ASSUME Init PROVE Balanced
  OBVIOUS
<1>1. Typed /\ cursor = 0 /\ \A n \in Node : udp[n] = {}
  BY TypedInit DEF Init
<1>2. Slots \in Seq(AllAddresses)
  BY <1>1, SlotsOffsets DEF Typed
<1>3. IsFiniteSet({}) /\ Cardinality({}) = 0
  BY FS_EmptySet
<1>4. ASSUME NEW k \in 1 .. Len(Slots)
      PROVE  /\ IsFiniteSet(EntriesAt(udp, Slots[k]))
             /\ Cardinality(EntriesAt(udp, Slots[k])) =
                  0 + (IF k <= (cursor % Len(Slots)) THEN 1 ELSE 0)
  <2>1. Slots[k] \in AllAddresses /\ Len(Slots) \in Nat /\ Len(Slots) > 0
    BY <1>2
  <2>2. EntriesAt(udp, Slots[k]) = {}
    BY <1>1, <2>1, OwnersExist DEF EntriesAt
  <2>3. cursor % Len(Slots) = 0
    <3> DEFINE L == Len(Slots)
    <3>1. L \in Nat /\ L > 0
      BY <2>1
    <3> HIDE DEF L
    <3>2. (L * 0 + 0) % L = 0
      BY <3>1, ModUnique
    <3>3. L * 0 + 0 = 0
      BY <3>1
    <3>4. 0 % L = 0
      BY <3>2, <3>3
    <3> QED
      BY <1>1, <3>4 DEF L
  <2> QED
    BY <1>3, <2>2, <2>3
<1>5. BalancedIn(udp, Slots, cursor)
  BY <1>4 DEF BalancedIn
<1> QED
  BY <1>1, <1>5 DEF Balanced, Numbered

-----------------------------------------------------------------------------
(* The users of the plan *)

\* What the sum over a set of nodes comes to when the first r nodes have one
\* more than q.
SharesOf(s, q, r) == Cardinality(s) * q + Cardinality(s \cap 1 .. r)

ShareFunction(N, q, r) == [n \in 1 .. N |-> q + (IF n - 1 < r THEN 1 ELSE 0)]

\* One element, any, is counted and taken away.
LessOne(N, q, r, s, x) ==
    /\ Cardinality(s \ {x}) \in Nat /\ Cardinality(s) = Cardinality(s \ {x}) + 1
    /\ SharesOf(s, q, r) = ShareFunction(N, q, r)[x] + SharesOf(s \ {x}, q, r)

LEMMA SharesLessOne ==
    ASSUME NEW N \in Nat, NEW q \in Nat, NEW r \in 0 .. N, NEW s \in SUBSET (1 .. N), NEW x \in s
    PROVE  LessOne(N, q, r, s, x)
<1> DEFINE c == Cardinality(s)
           d == Cardinality(s \ {x})
           firsts == s \cap 1 .. r
           c1 == Cardinality(firsts)
           d1 == Cardinality((s \ {x}) \cap 1 .. r)
<1>1. IsFiniteSet(1 .. N)
  BY FS_Interval
<1>2. IsFiniteSet(s) /\ IsFiniteSet(s \ {x}) /\ IsFiniteSet(firsts) /\ IsFiniteSet((s \ {x}) \cap 1 .. r)
  <2>1. s \subseteq 1 .. N /\ s \ {x} \subseteq 1 .. N /\ firsts \subseteq 1 .. N
        /\ (s \ {x}) \cap 1 .. r \subseteq 1 .. N
    OBVIOUS
  <2> HIDE DEF firsts
  <2> QED
    BY <1>1, <2>1, FS_Subset
<1>3. c \in Nat /\ d \in Nat /\ c1 \in Nat /\ d1 \in Nat
  BY <1>2, FS_CardinalityType
<1>4. d = c - 1
  BY <1>2, FS_RemoveElement
<1>5. d1 = c1 - (IF x - 1 < r THEN 1 ELSE 0)
  <2>1. x \in 1 .. N
    OBVIOUS
  <2>2. CASE x - 1 < r
    <3>1. x \in firsts /\ (s \ {x}) \cap 1 .. r = firsts \ {x}
      BY <2>1, <2>2
    <3> HIDE DEF firsts
    <3>2. Cardinality(firsts \ {x}) = Cardinality(firsts) - 1
      BY <1>2, <3>1, FS_RemoveElement
    <3> QED
      BY <2>2, <3>1, <3>2
  <2>3. CASE ~ (x - 1 < r)
    <3>1. (s \ {x}) \cap 1 .. r = firsts
      BY <2>1, <2>3
    <3> HIDE DEF firsts
    <3>2. d1 = c1
      BY <3>1
    <3> QED
      BY <1>3, <2>3, <3>2
  <2> QED
    BY <2>2, <2>3
<1>6. ShareFunction(N, q, r)[x] = q + (IF x - 1 < r THEN 1 ELSE 0)
  BY DEF ShareFunction
<1> HIDE DEF c, d, c1, d1
<1>7. c * q = d * q + q
  BY <1>3, <1>4
<1>8. c * q + c1 = (q + (IF x - 1 < r THEN 1 ELSE 0)) + (d * q + d1)
  <2>1. d * q \in Nat
    BY <1>3
  <2> DEFINE p == d * q
  <2> HIDE DEF p
  <2>2. (p + q) + c1 = (q + (IF x - 1 < r THEN 1 ELSE 0)) + (p + d1)
    <3>1. p \in Nat
      BY <2>1 DEF p
    <3> QED
      BY <1>3, <1>5, <3>1
  <2> QED
    BY <1>7, <2>2 DEF p
<1> QED
  BY <1>3, <1>4, <1>6, <1>8 DEF c, d, c1, d1, SharesOf, firsts, LessOne

\* FoldFunction adds up all elements, in whatever order it takes them.
LEMMA SharesAddUp ==
    ASSUME NEW N \in Nat, NEW q \in Nat, NEW r \in 0 .. N
    PROVE  FoldFunction(+, 0, ShareFunction(N, q, r)) = N * q + r
<1> DEFINE f == ShareFunction(N, q, r)
           Body(g) == [s \in SUBSET (1 .. N) |->
                         IF s = {} THEN 0
                         ELSE f[CHOOSE x \in s : TRUE] + g[s \ {CHOOSE x \in s : TRUE}]]
           F == CHOOSE g : g = Body(g)
           sum == [s \in SUBSET (1 .. N) |-> SharesOf(s, q, r)]
<1>0. ASSUME NEW s \in SUBSET (1 .. N), NEW x \in s
      PROVE  /\ Cardinality(s \ {x}) \in Nat /\ Cardinality(s) = Cardinality(s \ {x}) + 1
             /\ SharesOf(s, q, r) = f[x] + SharesOf(s \ {x}, q, r)
  <2>1. LessOne(N, q, r, s, x)
    BY SharesLessOne, Zenon
  <2> QED
    BY <2>1 DEF LessOne
<1>1. SharesOf({}, q, r) = 0
  <2>1. Cardinality({}) = 0 /\ {} \cap 1 .. r = {}
    BY FS_EmptySet
  <2>2. 0 * q + 0 = 0
    OBVIOUS
  <2> QED
    BY <2>1, <2>2 DEF SharesOf
<1>2. ASSUME NEW s \in SUBSET (1 .. N), s # {}
      PROVE  /\ (CHOOSE x \in s : TRUE) \in s
             /\ SharesOf(s, q, r) = f[CHOOSE x \in s : TRUE] + SharesOf(s \ {CHOOSE x \in s : TRUE}, q, r)
  <2> DEFINE x == CHOOSE x \in s : TRUE
  <2>1. x \in s
    BY <1>2
  <2> HIDE DEF x, f
  <2>2. SharesOf(s, q, r) = f[x] + SharesOf(s \ {x}, q, r)
    BY <1>0, <2>1
  <2> QED
    BY <2>1, <2>2 DEF x
<1> HIDE DEF f
<1>3. sum = Body(sum)
  <2>1. ASSUME NEW s \in SUBSET (1 .. N)
        PROVE  sum[s] = IF s = {} THEN 0
                        ELSE f[CHOOSE x \in s : TRUE] + sum[s \ {CHOOSE x \in s : TRUE}]
    <3>1. CASE s = {}
      BY <1>1, <3>1
    <3>2. CASE s # {}
      <4>1. s \ {CHOOSE x \in s : TRUE} \in SUBSET (1 .. N)
        OBVIOUS
      <4> QED
        BY <1>2, <3>2, <4>1
    <3> QED
      BY <3>1, <3>2
  <2> QED
    BY <2>1
<1> HIDE DEF sum
<1>4. F = Body(F)
  BY <1>3
<1>5. FoldFunction(+, 0, f) = F[1 .. N]
  <2>1. DOMAIN f = 1 .. N
    BY DEF f, ShareFunction
  <2> QED
    BY <2>1 DEF FoldFunction, FoldFunctionOnSet, MapThenFoldSet
<1> HIDE DEF F
<1> DEFINE D == {n \in Nat : \A s \in SUBSET (1 .. N) : Cardinality(s) = n => F[s] = SharesOf(s, q, r)}
<1>6. 0 \in D
  <2>1. ASSUME NEW s \in SUBSET (1 .. N), Cardinality(s) = 0 PROVE F[s] = SharesOf(s, q, r)
    <3>1. IsFiniteSet(s)
      <4>1. IsFiniteSet(1 .. N) /\ s \subseteq 1 .. N
        BY FS_Interval
      <4> QED
        BY <4>1, FS_Subset
    <3>2. s = {}
      BY <2>1, <3>1, FS_EmptySet
    <3> QED
      BY <1>1, <1>4, <3>2
  <2> QED
    BY <2>1
<1>7. ASSUME NEW n \in Nat, n \in D PROVE n + 1 \in D
  <2>1. ASSUME NEW s \in SUBSET (1 .. N), Cardinality(s) = n + 1 PROVE F[s] = SharesOf(s, q, r)
    <3>1. s # {}
      BY <2>1, FS_EmptySet
    <3> DEFINE x == CHOOSE x \in s : TRUE
    <3>2. x \in s /\ SharesOf(s, q, r) = f[x] + SharesOf(s \ {x}, q, r)
      BY <1>2, <3>1
    <3>3. F[s] = f[x] + F[s \ {x}]
      BY <1>4, <3>1
    <3> HIDE DEF x
    <3>4. s \ {x} \in SUBSET (1 .. N)
      OBVIOUS
    <3>5. Cardinality(s \ {x}) \in Nat /\ Cardinality(s) = Cardinality(s \ {x}) + 1
      BY <1>0, <3>2
    <3>6. Cardinality(s \ {x}) = n
      BY <2>1, <3>5
    <3>7. F[s \ {x}] = SharesOf(s \ {x}, q, r)
      BY <1>7, <3>4, <3>6
    <3> QED
      BY <3>2, <3>3, <3>7
  <2> QED
    BY <2>1
<1> HIDE DEF D
<1>8. Nat \subseteq D
  BY <1>6, <1>7, SetInduction
<1>9. Cardinality(1 .. N) = N
  BY FS_Interval
<1>10. F[1 .. N] = SharesOf(1 .. N, q, r)
  <2>1. N \in D
    BY <1>8
  <2> QED
    BY <1>9, <2>1 DEF D
<1>11. SharesOf(1 .. N, q, r) = N * q + r
  <2>1. 1 .. N \cap 1 .. r = 1 .. r
    OBVIOUS
  <2>2. Cardinality(1 .. r) = r
    BY FS_Interval
  <2> QED
    BY <1>9, <2>1, <2>2 DEF SharesOf
<1> QED
  BY <1>5, <1>10, <1>11 DEF f

Shared ==
    phase # "split" => users = [kind \in Kind |-> [n \in Node |-> ShareOf(Wanted(kind), n)]]

LEMMA SharedStep == Shared /\ [Next]_vars => Shared'
<1> SUFFICES ASSUME Shared, [Next]_vars PROVE Shared'
  OBVIOUS
<1>1. ranges' = ranges /\ plan' = plan
  BY InputsStay DEF Steady, inputs
<1>2. [kind \in Kind |-> [n \in Node |-> ShareOf(Wanted(kind), n)]]'
        = [kind \in Kind |-> [n \in Node |-> ShareOf(Wanted(kind), n)]]
  BY <1>1 DEF Node, ShareOf, Wanted
<1>3. CASE SplitUsers
  BY <1>2, <1>3 DEF Shared, SplitUsers
<1>4. CASE users' = users /\ (phase' # "split" => phase # "split")
  BY <1>2, <1>4 DEF Shared
<1>5. SplitUsers \/ (users' = users /\ (phase' # "split" => phase # "split"))
  BY DEF Next, vars, AddSession, Refuse, AllAdded, AssignUser, SliceUsers
<1> QED
  BY <1>3, <1>4, <1>5

LEMMA SharedEven ==
    ASSUME Typed, Shared, phase # "split", NEW kind \in Kind
    PROVE  /\ FoldFunction(+, 0, users[kind]) = Wanted(kind)
           /\ \A m, n \in Node : users[kind][m] <= users[kind][n] + 1
<1> DEFINE N == Len(ranges)
           W == Wanted(kind)
           q == W \div N
           r == W % N
<1>1. N \in Nat /\ N > 0 /\ W \in Nat /\ Node = 1 .. N
  BY NodesExist, PlanNumbers, EmptySeq DEF Typed, RangesOK, Node
<1>2. users[kind] = [n \in Node |-> ShareOf(W, n)]
  BY DEF Shared
<1>3. \A n \in Node : ShareOf(W, n) = q + (IF n - 1 < r THEN 1 ELSE 0)
  BY DEF ShareOf
<1> HIDE DEF N, W
<1>4. q \in Nat /\ r \in 0 .. N - 1 /\ W = N * q + r
  BY <1>1
<1> HIDE DEF q, r
<1>5. r \in 0 .. N
  BY <1>1, <1>4
<1>6. users[kind] = ShareFunction(N, q, r)
  BY <1>1, <1>2, <1>3 DEF ShareFunction
<1>7. FoldFunction(+, 0, users[kind]) = W
  <2>1. FoldFunction(+, 0, ShareFunction(N, q, r)) = N * q + r
    BY <1>1, <1>4, <1>5, SharesAddUp
  <2> QED
    BY <1>4, <1>6, <2>1
<1>8. ASSUME NEW m \in Node, NEW n \in Node PROVE users[kind][m] <= users[kind][n] + 1
  <2>1. users[kind][m] = ShareOf(W, m) /\ users[kind][n] = ShareOf(W, n)
    BY <1>2
  <2>2. ShareOf(W, m) = q + (IF m - 1 < r THEN 1 ELSE 0)
        /\ ShareOf(W, n) = q + (IF n - 1 < r THEN 1 ELSE 0)
    BY <1>3
  <2> QED
    BY <1>4, <2>1, <2>2
<1> QED
  BY <1>7, <1>8 DEF W

\* Every entry of a call names one peer.
OnePeer ==
    added["screenshare"] = 0 => \A n \in Node : \A e \in udp[n] : \E p : e.peers = {p}

LEMMA CallsHaveOnePeer ==
    ASSUME NEW type \in Type, type # "screenshare"
    PROVE  \A e \in NewEntries(type) : \E p : e.peers = {p}
<1>1. Receivers(type) = 1
  BY DEF Receivers
<1>2. {NextSlot(1 + i) : i \in 1 .. Receivers(type)} = {NextSlot(1 + 1)}
  <2>1. \A i : i \in 1 .. Receivers(type) <=> i = 1
    BY <1>1
  <2> QED
    BY <2>1
<1>3. NewEntries(type) = {Entry(type, "initiator", NextSlot(1), {NextSlot(1 + 1)}),
                          Entry(type, "responder", NextSlot(1 + 1), {NextSlot(1)})}
  BY <1>2 DEF NewEntries, Entries
<1> QED
  BY <1>3 DEF Entry

LEMMA OnePeerStep == ASSUME Typed, OnePeer, [Next]_vars PROVE OnePeer'
<1>0. Node' = Node
  BY InputsStay, SameTables
<1>1. ASSUME NEW type \in Type, AddSession(type) PROVE OnePeer'
  <2>1. /\ udp' = [n \in Node |-> udp[n] \cup {e \in NewEntries(type) : e.local[1] = n}]
        /\ added' = [added EXCEPT ![type] = @ + 1]
    BY <1>1 DEF AddSession, NewEntries
  <2>2. added[type] \in Nat /\ added'[type] = added[type] + 1
        /\ \A t \in Type : t # type => added'[t] = added[t]
    BY <2>1 DEF Typed
  <2>3. "screenshare" \in Type
    BY DEF Type
  <2>4. CASE type = "screenshare"
    BY <2>2, <2>4 DEF OnePeer
  <2>5. CASE type # "screenshare"
    BY <1>0, <2>1, <2>2, <2>3, <2>5, CallsHaveOnePeer DEF OnePeer
  <2> QED
    BY <2>4, <2>5
<1>2. CASE UNCHANGED <<udp, added>>
  BY <1>0, <1>2 DEF OnePeer
<1>3. (\E type \in Type : AddSession(type)) \/ UNCHANGED <<udp, added>>
  BY DEF Next, vars, SplitUsers, Refuse, AllAdded, AssignUser, SliceUsers
<1> QED
  BY <1>1, <1>2, <1>3

\* Then an address runs as many UDP sessions as it has entries.
LEMMA CallsLoad ==
    ASSUME OnePeer, added["screenshare"] = 0, NEW a \in AllAddresses,
           IsFiniteSet(EntriesAt(udp, a))
    PROVE  Load(a) = Parts(a)
<1> DEFINE S == EntriesAt(udp, a)
           T == UNION {{<<e, p>> : p \in e.peers} : e \in S}
           f == [e \in S |-> <<e, CHOOSE p : e.peers = {p}>>]
<1>1. \A e \in S : e.peers = {CHOOSE p : e.peers = {p}}
  BY OwnersExist DEF OnePeer, EntriesAt
<1>2. ASSUME NEW e \in S PROVE {<<e, p>> : p \in e.peers} = {f[e]}
  BY <1>1
<1>3. T = {f[e] : e \in S}
  <2>1. ASSUME NEW t PROVE t \in T <=> \E e \in S : t \in {<<e, p>> : p \in e.peers}
    <3> HIDE DEF S
    <3> QED
      OBVIOUS
  <2>2. ASSUME NEW t, NEW e \in S PROVE t \in {<<e, p>> : p \in e.peers} <=> t = f[e]
    BY <1>2
  <2> HIDE DEF S, T, f
  <2>3. ASSUME NEW t PROVE t \in T <=> t \in {f[e] : e \in S}
    BY <2>1, <2>2
  <2> QED
    BY <2>3
<1>4. f \in Bijection(S, T)
  <2>1. f \in [S -> T]
    BY <1>3
  <2>2. \A e, g \in S : f[e] = f[g] => e = g
    OBVIOUS
  <2>3. \A t \in T : \E e \in S : f[e] = t
    BY <1>3
  <2> QED
    BY <2>1, <2>2, <2>3, Fun_IsBij
<1>5. ExistsBijection(S, T)
  BY <1>4 DEF ExistsBijection
<1>6. IsFiniteSet(S)
  OBVIOUS
<1>7. Cardinality(T) = Cardinality(S)
  <2> HIDE DEF S, T, f
  <2> QED
    BY <1>5, <1>6, FS_Bijection
<1> QED
  BY <1>7 DEF Load, Parts, EntriesAt

\* distributor.py:113-156: whatever the ranges and the plan, no address has two
\* parts more than another in the calls and shares given out, at any point of the
\* distribution; nor does it run two UDP sessions more, as long as no share has been
\* added; every web and YouTube user of the plan is given to a node, and no node
\* gets two more of them than another.
THEOREM LoadStaysEven == Spec => []EvenLoad
<1>1. Init => Typed /\ Balanced /\ Shared /\ OnePeer
  BY TypedInit, BalancedInit DEF Init, Shared, OnePeer
<1>2. Typed /\ Balanced /\ Shared /\ OnePeer /\ [Next]_vars
      => (Typed /\ Balanced /\ Shared /\ OnePeer)'
  BY TypedStep, BalancedStep, SharedStep, OnePeerStep
<1>3. Typed /\ Balanced /\ Shared /\ OnePeer => EvenLoad
  <2> SUFFICES ASSUME Typed, Balanced, Shared, OnePeer PROVE EvenLoad
    OBVIOUS
  <2>1. PICK q \in Nat : \A k \in 1 .. Len(Slots) :
           /\ IsFiniteSet(EntriesAt(udp, Slots[k]))
           /\ Cardinality(EntriesAt(udp, Slots[k])) =
                q + (IF k <= (cursor % Len(Slots)) THEN 1 ELSE 0)
    BY DEF Balanced, BalancedIn
  <2>2. ASSUME NEW a \in AllAddresses
        PROVE  Parts(a) \in {q, q + 1} /\ IsFiniteSet(EntriesAt(udp, a))
    <3>1. PICK k \in 1 .. Len(Slots) : Slots[k] = a
      BY SlotsCover DEF Typed
    <3>2. Parts(a) = Cardinality(EntriesAt(udp, a))
      BY DEF Parts, EntriesAt
    <3>3. Cardinality(EntriesAt(udp, a)) = q + (IF k <= (cursor % Len(Slots)) THEN 1 ELSE 0)
      BY <2>1, <3>1
    <3>4. IsFiniteSet(EntriesAt(udp, a))
      BY <2>1, <3>1
    <3> QED
      BY <3>2, <3>3, <3>4
  <2>3. \A a, b \in AllAddresses : Parts(a) <= Parts(b) + 1
    BY <2>2
  <2>4. added["screenshare"] = 0 => \A a \in AllAddresses : Load(a) = Parts(a)
    BY <2>2, CallsLoad
  <2> QED
    BY <2>3, <2>4, SharedEven DEF EvenLoad
<1> QED
  BY <1>1, <1>2, <1>3, PTL DEF Spec

=============================================================================
