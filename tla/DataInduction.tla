--------------------------- MODULE DataInduction ---------------------------
(***************************************************************************)
(* Induction and recursion over data, stated about sets and functions      *)
(* instead of operators, so that every prover can use them: a property of  *)
(* numbers is the set of the numbers that have it, a property of sets a    *)
(* set of sets, a step of a loop a function.  The recursive functions of   *)
(* the other modules are reasoned about with these.                        *)
(***************************************************************************)
EXTENDS Integers, SequencesExt, FiniteSetTheorems, WellFoundedInduction, TLAPS

(* A set of numbers that is not empty has a least one.                     *)
LEMMA LeastNumber ==
    ASSUME NEW T, T \subseteq Nat, T # {}
    PROVE  \E m \in T : \A n \in T : m <= n
PROOF
<1> DEFINE R == {ss \in Nat \X Nat : ss[1] < ss[2]}
<1>1. IsWellFoundedOn(R, Nat)
  BY NatLessThanWellFounded DEF OpToRel
<1>2. PICK m \in T : \A n \in T : ~ (<<n, m>> \in R)
  BY <1>1, WFMin
<1>3. \A n \in T : ~ (n < m)
  BY <1>2
<1>4. \A n \in T : n \in Nat /\ m \in Nat
  OBVIOUS
<1>5. \A n \in T : m <= n
  BY <1>3, <1>4
<1> QED
  BY <1>5

(* Induction: a set of numbers that holds 0, and each number's successor,  *)
(* holds them all.                                                         *)
LEMMA NumberInduction ==
    ASSUME NEW T, 0 \in T, \A n \in Nat : n \in T => n + 1 \in T
    PROVE  Nat \subseteq T
PROOF
<1> SUFFICES ASSUME NEW k \in Nat, k \notin T PROVE FALSE
  OBVIOUS
<1>1. PICK m \in Nat \ T : \A n \in Nat \ T : m <= n
  <2>1. Nat \ T # {} /\ Nat \ T \subseteq Nat
    OBVIOUS
  <2> QED
    BY <2>1, LeastNumber
<1>2. m # 0 /\ m - 1 \in Nat /\ ~ (m <= m - 1)
  BY <1>1
<1>3. m - 1 \in T
  BY <1>1, <1>2
<1>4. (m - 1) + 1 \in T /\ (m - 1) + 1 = m
  BY <1>2, <1>3
<1> QED
  BY <1>1, <1>4

(* The same up to a bound.                                                 *)
LEMMA BoundedInduction ==
    ASSUME NEW N \in Nat, NEW T, 0 \in T,
           \A n \in 0..(N - 1) : n \in T => n + 1 \in T
    PROVE  0..N \subseteq T
PROOF
<1> DEFINE U == {n \in Nat : n <= N => n \in T}
<1>1. 0 \in U
  OBVIOUS
<1>2. ASSUME NEW n \in Nat, n \in U PROVE n + 1 \in U
  <2>1. CASE n + 1 <= N
    <3>1. n \in 0..(N - 1) /\ n <= N
      BY <2>1
    <3>2. n \in T
      BY <1>2, <3>1
    <3>3. n + 1 \in T
      BY <3>1, <3>2
    <3> QED
      BY <3>3
  <2>2. CASE ~ (n + 1 <= N)
    BY <2>2
  <2> QED
    BY <2>1, <2>2
<1> HIDE DEF U
<1>3. Nat \subseteq U
  BY <1>1, <1>2, NumberInduction
<1> QED
  BY <1>3 DEF U

(* The same from 1, each number from the one before it.                    *)
LEMMA CountingInduction ==
    ASSUME NEW N \in Nat, NEW T, 1 \in T,
           \A n \in 2..N : n - 1 \in T => n \in T
    PROVE  1..N \subseteq T
PROOF
<1> DEFINE U == {n \in Nat : n \in 1..N => n \in T}
<1>1. 0 \in U
  OBVIOUS
<1>2. ASSUME NEW n \in Nat, n \in U PROVE n + 1 \in U
  <2>1. CASE n + 1 \in 2..N
    <3>1. n \in 1..N /\ (n + 1) - 1 = n
      BY <2>1
    <3> QED
      BY <1>2, <2>1, <3>1
  <2>2. CASE n + 1 \notin 2..N
    <3>1. n + 1 \in 1..N => n + 1 = 1
      BY <2>2
    <3> QED
      BY <3>1
  <2> QED
    BY <2>1, <2>2
<1> HIDE DEF U
<1>3. Nat \subseteq U
  BY <1>1, <1>2, NumberInduction
<1> QED
  BY <1>3 DEF U

(* The same downwards.                                                     *)
LEMMA DownwardInduction ==
    ASSUME NEW N \in Nat, NEW T, N \in T,
           \A n \in 1..N : n \in T => n - 1 \in T
    PROVE  0..N \subseteq T
PROOF
<1> DEFINE U == {n \in 0..N : N - n \in T}
<1>1. 0 \in U
  OBVIOUS
<1>2. ASSUME NEW n \in 0..(N - 1), n \in U PROVE n + 1 \in U
  <2>1. N - n \in 1..N /\ N - n \in T
    BY <1>2
  <2>2. (N - n) - 1 \in T
    BY <2>1
  <2>3. (N - n) - 1 = N - (n + 1) /\ n + 1 \in 0..N
    OBVIOUS
  <2> QED
    BY <2>2, <2>3
<1> HIDE DEF U
<1>3. 0..N \subseteq U
  BY <1>1, <1>2, BoundedInduction
<1>4. ASSUME NEW n \in 0..N PROVE n \in T
  <2>1. N - n \in U
    BY <1>3
  <2> QED
    BY <2>1 DEF U
<1> QED
  BY <1>4

(* What is counted in two parts is counted once.                           *)
LEMMA DisjointUnion ==
    ASSUME NEW S, IsFiniteSet(S), NEW T, IsFiniteSet(T), S \cap T = {}
    PROVE  /\ IsFiniteSet(S \cup T)
           /\ Cardinality(S \cup T) = Cardinality(S) + Cardinality(T)
PROOF
<1>1. /\ IsFiniteSet(S \cup T)
      /\ Cardinality(S \cup T) = Cardinality(S) + Cardinality(T) - Cardinality(S \cap T)
  BY FS_Union
<1>2. Cardinality(S \cap T) = 0
  BY FS_EmptySet
<1>3. Cardinality(S) \in Nat /\ Cardinality(T) \in Nat
  BY FS_CardinalityType
<1> QED
  BY <1>1, <1>2, <1>3

(* Recursion: a loop of N turns from a, each turn a function of the turn's *)
(* number and of what the loop holds, has a run.                           *)
IsRun(f, N, T, a, D) ==
    /\ f \in [0..N -> T]
    /\ f[0] = a
    /\ \A n \in 0..(N - 1) : f[n + 1] = D[<<n, f[n]>>]

LEMMA LoopHasRun ==
    ASSUME NEW N \in Nat, NEW T, NEW a \in T, NEW D \in [Nat \X T -> T]
    PROVE  \E f : IsRun(f, N, T, a, D)
PROOF
<1> DEFINE U == {k \in Nat : \E f : IsRun(f, k, T, a, D)}
<1>1. 0 \in U
  <2>1. IsRun([i \in 0..0 |-> a], 0, T, a, D)
    BY DEF IsRun
  <2> QED
    BY <2>1
<1>2. ASSUME NEW k \in Nat, k \in U PROVE k + 1 \in U
  <2>1. PICK f : IsRun(f, k, T, a, D)
    BY <1>2
  <2>2. f \in [0..k -> T] /\ f[0] = a /\ \A n \in 0..(k - 1) : f[n + 1] = D[<<n, f[n]>>]
    BY <2>1 DEF IsRun
  <2> DEFINE g == [i \in 0..(k + 1) |-> IF i = k + 1 THEN D[<<k, f[k]>>] ELSE f[i]]
  <2>3. D[<<k, f[k]>>] \in T
    BY <2>2
  <2>4. g \in [0..(k + 1) -> T]
    <3>1. \A i \in 0..(k + 1) : i # k + 1 => i \in 0..k
      OBVIOUS
    <3> QED
      BY <2>2, <2>3, <3>1
  <2>5. g[0] = a
    BY <2>2
  <2>6. ASSUME NEW n \in 0..((k + 1) - 1) PROVE g[n + 1] = D[<<n, g[n]>>]
    <3>1. n \in 0..k /\ n + 1 \in 0..(k + 1) /\ n \in 0..(k + 1) /\ n # k + 1
      OBVIOUS
    <3>2. g[n] = f[n]
      BY <3>1
    <3>3. CASE n = k
      BY <3>1, <3>2, <3>3
    <3>4. CASE n # k
      <4>1. n \in 0..(k - 1) /\ n + 1 # k + 1
        BY <3>1, <3>4
      <4>2. g[n + 1] = f[n + 1]
        BY <3>1, <4>1
      <4> QED
        BY <2>2, <3>2, <4>1, <4>2
    <3> QED
      BY <3>3, <3>4
  <2>7. IsRun(g, k + 1, T, a, D)
    BY <2>4, <2>5, <2>6 DEF IsRun
  <2> QED
    BY <2>7
<1> HIDE DEF U
<1>3. Nat \subseteq U
  BY <1>1, <1>2, NumberInduction
<1> QED
  BY <1>3 DEF U

(* Where every element has a rank, what holds of an element as soon as it  *)
(* holds of all those of lower rank holds of every element.                *)
LEMMA RankInduction ==
    ASSUME NEW S, NEW rank \in [S -> Nat], NEW U,
           \A x \in S : (\A y \in S : rank[y] < rank[x] => y \in U) => x \in U
    PROVE  S \subseteq U
PROOF
<1> SUFFICES ASSUME NEW z \in S, z \notin U PROVE FALSE
  OBVIOUS
<1> DEFINE T == {n \in Nat : \E x \in S : x \notin U /\ rank[x] = n}
<1>1. rank[z] \in T
  OBVIOUS
<1>2. PICK m \in T : \A n \in T : m <= n
  <2>1. T \subseteq Nat /\ T # {}
    BY <1>1
  <2> HIDE DEF T
  <2> QED
    BY <2>1, LeastNumber
<1>3. PICK x \in S : x \notin U /\ rank[x] = m
  BY <1>2
<1>4. ASSUME NEW y \in S, rank[y] < rank[x] PROVE y \in U
  <2>1. rank[y] \in Nat /\ rank[x] \in Nat
    OBVIOUS
  <2>2. ~ (m <= rank[y])
    BY <1>3, <1>4, <2>1
  <2>3. rank[y] \notin T
    BY <1>2, <2>2
  <2> QED
    BY <2>1, <2>3
<1> QED
  BY <1>3, <1>4

(* Recursion over ranks: an equation that gives each element's value from  *)
(* the values at lower ranks has a solution.                               *)
DependsBelow(D, S, T, rank) ==
    \A x \in S : \A g, h \in [S -> T] :
        (\A y \in S : rank[y] < rank[x] => g[y] = h[y]) => D[<<x, g>>] = D[<<x, h>>]

Solves(f, S, D) == \A x \in S : f[x] = D[<<x, f>>]

LEMMA RankedRecursion ==
    ASSUME NEW S, NEW T, T # {}, NEW N \in Nat, NEW rank \in [S -> Nat],
           \A x \in S : rank[x] < N,
           NEW D \in [S \X [S -> T] -> T], DependsBelow(D, S, T, rank)
    PROVE  \E f \in [S -> T] : Solves(f, S, D)
PROOF
<1> DEFINE U == {k \in Nat : \E f \in [S -> T] : \A x \in S : rank[x] < k => f[x] = D[<<x, f>>]}
<1>1. 0 \in U
  <2>1. PICK t \in T : TRUE
    OBVIOUS
  <2>2. [x \in S |-> t] \in [S -> T]
    OBVIOUS
  <2>3. \A x \in S : ~ (rank[x] < 0)
    OBVIOUS
  <2> QED
    BY <2>2, <2>3
<1>2. ASSUME NEW k \in Nat, k \in U PROVE k + 1 \in U
  <2>1. PICK g \in [S -> T] : \A x \in S : rank[x] < k => g[x] = D[<<x, g>>]
    BY <1>2
  <2> DEFINE h == [x \in S |-> IF rank[x] < k THEN g[x] ELSE D[<<x, g>>]]
  <2>2. h \in [S -> T]
    OBVIOUS
  <2>3. ASSUME NEW x \in S, rank[x] < k + 1 PROVE h[x] = D[<<x, h>>]
    <3>1. \A y \in S : rank[y] < rank[x] => h[y] = g[y]
      <4>1. \A y \in S : rank[y] \in Nat
        OBVIOUS
      <4>2. \A y \in S : rank[y] < rank[x] => rank[y] < k
        BY <2>3, <4>1
      <4> QED
        BY <4>2
    <3>2. D[<<x, h>>] = D[<<x, g>>]
      <4> HIDE DEF h
      <4> QED
        BY <2>2, <3>1 DEF DependsBelow
    <3>3. h[x] = D[<<x, g>>]
      BY <2>1
    <3> QED
      BY <3>2, <3>3
  <2> HIDE DEF h
  <2>4. \E f \in [S -> T] : \A x \in S : rank[x] < k + 1 => f[x] = D[<<x, f>>]
    BY <2>2, <2>3
  <2> QED
    BY <2>4
<1> HIDE DEF U
<1>3. Nat \subseteq U
  BY <1>1, <1>2, NumberInduction
<1>4. N \in U
  BY <1>3
<1> QED
  BY <1>4 DEF U, Solves

(* A set matched one to one with a finite one has as many elements, and a  *)
(* set that maps one to one into a finite one has at most as many.         *)
LEMMA SameCount ==
    ASSUME NEW S, IsFiniteSet(S), NEW T, NEW f \in [S -> T],
           \A x, y \in S : f[x] = f[y] => x = y, \A z \in T : \E x \in S : f[x] = z
    PROVE  IsFiniteSet(T) /\ Cardinality(T) = Cardinality(S)
PROOF
<1>1. f \in Bijection(S, T)
  BY DEF Bijection, Injection, Surjection, IsInjective
<1>2. ExistsBijection(S, T)
  BY <1>1 DEF ExistsBijection
<1> QED
  BY <1>2, FS_Bijection

LEMMA CountAtMost ==
    ASSUME NEW S, NEW T, IsFiniteSet(T), NEW f \in [S -> T],
           \A x, y \in S : f[x] = f[y] => x = y
    PROVE  IsFiniteSet(S) /\ Cardinality(S) <= Cardinality(T)
PROOF
<1>1. f \in Injection(S, T)
  BY DEF Injection, IsInjective
<1> QED
  BY <1>1, FS_Injection

(* What is left of a set in an interval once its first place is passed.    *)
LEMMA CountFrom ==
    ASSUME NEW L \in Nat, NEW k \in 1..L, NEW S
    PROVE  /\ Cardinality(S \cap (k..L)) \in Nat /\ Cardinality(S \cap ((k + 1)..L)) \in Nat
           /\ Cardinality(S \cap (k..L)) = Cardinality(S \cap ((k + 1)..L)) + (IF k \in S THEN 1 ELSE 0)
PROOF
<1> DEFINE A == S \cap (k..L)
           B == S \cap ((k + 1)..L)
<1>1. IsFiniteSet(k..L) /\ IsFiniteSet((k + 1)..L)
  BY FS_Interval
<1>2. IsFiniteSet(A) /\ IsFiniteSet(B)
  <2>1. A \subseteq k..L /\ B \subseteq (k + 1)..L
    OBVIOUS
  <2> HIDE DEF A, B
  <2> QED
    BY <1>1, <2>1, FS_Subset
<1>3. A = (IF k \in S THEN B \cup {k} ELSE B) /\ k \notin B
  OBVIOUS
<1> HIDE DEF A, B
<1>4. Cardinality(A) = Cardinality(B) + (IF k \in S THEN 1 ELSE 0)
  BY <1>2, <1>3, FS_AddElement, FS_CardinalityType
<1> QED
  BY <1>2, <1>4, FS_CardinalityType DEF A, B

LEMMA NoneIsZero ==
    ASSUME NEW S, IsFiniteSet(S)
    PROVE  Cardinality(S) \in Nat /\ (Cardinality(S) > 0 <=> S # {})
PROOF BY FS_CardinalityType, FS_EmptySet

-----------------------------------------------------------------------------
(* Sequences, and the places in them.                                      *)

(* What a sequence has, and that it ends.                                  *)
LEMMA SequenceOf == ASSUME NEW S, NEW s \in Seq(S) PROVE Len(s) \in Nat /\ \A n \in 1..Len(s) : s[n] \in S
PROOF OBVIOUS

LEMMA SequenceShape ==
    ASSUME NEW s, s \in Seq(ToSet(s))
    PROVE  Len(s) \in Nat /\ DOMAIN s = 1..Len(s) /\ (s = <<>> <=> Len(s) = 0)
PROOF OBVIOUS

(* A sequence that grows by one.                                           *)
LEMMA SequenceGrows ==
    ASSUME NEW s, s \in Seq(ToSet(s)), NEW x
    PROVE  /\ Append(s, x) \in Seq(ToSet(Append(s, x))) /\ Len(s) \in Nat
           /\ Len(Append(s, x)) = Len(s) + 1 /\ DOMAIN s = 1..Len(s)
           /\ DOMAIN Append(s, x) = 1..(Len(s) + 1)
           /\ Append(s, x)[Len(s) + 1] = x /\ \A n \in 1..Len(s) : Append(s, x)[n] = s[n]
PROOF
<1> DEFINE X == ToSet(s)
           b == Append(s, x)
<1>1. s \in Seq(X)
  OBVIOUS
<1> HIDE DEF X
<1>2. /\ b \in Seq(X \cup {x}) /\ Len(b) = Len(s) + 1 /\ Len(s) \in Nat /\ DOMAIN s = 1..Len(s)
      /\ DOMAIN b = 1..(Len(s) + 1) /\ b[Len(s) + 1] = x /\ \A n \in 1..Len(s) : b[n] = s[n]
  BY <1>1
<1> HIDE DEF b
<1>3. b \in [1..Len(b) -> ToSet(b)] /\ Len(b) \in Nat
  BY <1>2 DEF ToSet
<1>4. b \in Seq(ToSet(b))
  BY <1>3
<1> QED
  BY <1>2, <1>4 DEF b

(* What is behind another sequence grows with it.                          *)
LEMMA OneMore ==
    ASSUME NEW X, NEW s \in Seq(X), NEW t \in Seq(X), NEW x \in X
    PROVE  s \o Append(t, x) = Append(s \o t, x)
PROOF OBVIOUS

(* The least and the greatest of some numbers are among them.              *)
LEMMA MinIsLeast ==
    ASSUME NEW S, S \subseteq Nat, S # {}
    PROVE  Min(S) \in S /\ \A n \in S : Min(S) <= n
PROOF
<1>1. \E m \in S : \A n \in S : m <= n
  BY LeastNumber
<1> QED
  BY <1>1 DEF Min

LEMMA MaxIsIn ==
    ASSUME NEW C \in Nat, NEW S, S \subseteq 0..(C - 1), S # {}
    PROVE  Max(S) \in S
PROOF
<1> DEFINE T == {n \in Nat : C - n \in S}
<1>1. PICK s \in S : TRUE
  OBVIOUS
<1>2. C - s \in T /\ T \subseteq Nat
  OBVIOUS
<1>3. PICK m \in T : \A n \in T : m <= n
  <2> HIDE DEF T
  <2> QED
    BY <1>2, LeastNumber
<1>4. C - m \in S /\ m \in Nat
  OBVIOUS
<1>5. ASSUME NEW k \in S PROVE C - m >= k
  <2>1. k \in 0..(C - 1) /\ C - k \in Nat /\ C - (C - k) = k
    OBVIOUS
  <2>2. C - k \in T
    BY <2>1
  <2>3. m <= C - k
    BY <1>3, <2>2
  <2> QED
    BY <1>4, <2>1, <2>3
<1> HIDE DEF T
<1>6. \E x \in S : \A k \in S : x >= k
  BY <1>4, <1>5
<1> QED
  BY <1>6 DEF Max

(* Places that are counted up to the last.                                 *)
LEMMA OnePlaceMore ==
    ASSUME NEW i \in Nat, NEW last \in Nat
    PROVE  /\ i < last => i + 1 \in 1..last
           /\ 1..(i + 1) = (1..i) \cup {i + 1}
           /\ i + 1 \in 1..last => \A k \in 1..i : k \in 1..last /\ k # i + 1
           /\ \A k \in 1..(i + 1) : k \in 1..i \/ k = i + 1
           /\ \A k \in 1..i : k \in 1..(i + 1)
           /\ i + 1 \in 1..(i + 1)
PROOF
  OBVIOUS

LEMMA EarlierPlaces ==
    ASSUME NEW last \in Nat, NEW k \in 1..last
    PROVE  /\ k \in 1..k
           /\ \A m \in 1..(k - 1) : m \in 1..k /\ m \in 1..last /\ \A j \in 1..(m - 1) : j \in 1..(k - 1)
PROOF
  OBVIOUS

LEMMA WithinPlaces ==
    ASSUME NEW a \in Nat, NEW last \in Nat, a + 1 <= last
    PROVE  a + 1 \in 1..last
PROOF
  OBVIOUS

LEMMA CountsTo ==
    ASSUME NEW n \in Nat, NEW m \in Nat, n <= m
    PROVE  /\ \E next : next = n + 1 /\ (next = 1 <=> n = 0) /\ next - 1 = n
           /\ \A k \in 1..n : k \in 1..m /\ (k > 1 => k # 1) /\ \A j \in 1..(k - 1) : j < k
PROOF OBVIOUS

(* What a sequence without repetition holds is counted by its places.      *)
LEMMA CountedInOrder ==
    ASSUME NEW X, NEW o \in Seq(X), IsInjective(o), NEW good
    PROVE  LET S == {n \in 1..Len(o) : o[n] \in good}
               T == {c \in ToSet(o) : c \in good}
           IN  Cardinality(S) = Cardinality(T)
PROOF
<1> DEFINE S == {n \in 1..Len(o) : o[n] \in good}
           T == {c \in ToSet(o) : c \in good}
           f == [n \in S |-> o[n]]
<1>1. DOMAIN o = 1..Len(o) /\ Len(o) \in Nat
  OBVIOUS
<1>2. IsFiniteSet(S)
  <2>1. S \subseteq 1..Len(o) /\ IsFiniteSet(1..Len(o))
    BY <1>1, FS_Interval
  <2> HIDE DEF S
  <2> QED
    BY <2>1, FS_Subset
<1>3. f \in [S -> T] /\ (\A z \in T : \E x \in S : f[x] = z)
  BY <1>1 DEF ToSet
<1>4. \A x, y \in S : f[x] = f[y] => x = y
  BY <1>1 DEF IsInjective
<1>5. Cardinality(T) = Cardinality(S)
  <2> HIDE DEF S, T, f
  <2> QED
    BY <1>2, <1>3, <1>4, SameCount
<1> QED
  BY <1>5

(* The last entry of a log that has a source, and what one entry more      *)
(* makes of it.                                                            *)
NamedLast(atoms, rev) ==
    CHOOSE n \in DOMAIN atoms : atoms[n].source = rev /\ \A k \in (n + 1)..Len(atoms) : atoms[k].source # rev

IsNamed(atoms, rev) == \E n \in DOMAIN atoms : atoms[n].source = rev

LEMMA LastNamed ==
    ASSUME NEW atoms, atoms \in Seq(ToSet(atoms)), NEW rev, IsNamed(atoms, rev)
    PROVE  /\ NamedLast(atoms, rev) \in DOMAIN atoms /\ atoms[NamedLast(atoms, rev)].source = rev
           /\ \A k \in (NamedLast(atoms, rev) + 1)..Len(atoms) : atoms[k].source # rev
           /\ \A n \in DOMAIN atoms :
                 atoms[n].source = rev /\ (\A k \in (n + 1)..Len(atoms) : atoms[k].source # rev)
                     => n = NamedLast(atoms, rev)
PROOF
<1> DEFINE N == Len(atoms)
           IsLast(n) == atoms[n].source = rev /\ \A k \in (n + 1)..N : atoms[k].source # rev
           T == {m \in Nat : \E n \in 1..N : atoms[n].source = rev /\ m = N - n}
<1>1. N \in Nat /\ DOMAIN atoms = 1..N
  OBVIOUS
<1>2. T \subseteq Nat /\ T # {}
  <2>1. PICK n \in 1..N : atoms[n].source = rev
    BY <1>1 DEF IsNamed
  <2>2. N - n \in Nat
    BY <1>1
  <2> QED
    BY <2>1, <2>2
<1>3. PICK m \in T : \A other \in T : m <= other
  BY <1>2, LeastNumber
<1>4. PICK n \in 1..N : atoms[n].source = rev /\ m = N - n
  BY <1>3
<1> HIDE DEF N
<1>5. IsLast(n)
  <2>1. ASSUME NEW k \in (n + 1)..N, atoms[k].source = rev PROVE FALSE
    <3>1. k \in 1..N /\ N - k \in Nat /\ N - k < N - n
      BY <1>1
    <3>2. N - k \in T
      BY <2>1, <3>1
    <3> QED
      BY <1>1, <1>3, <1>4, <3>1, <3>2
  <2> QED
    BY <1>4, <2>1
<1>6. NamedLast(atoms, rev) = CHOOSE x \in DOMAIN atoms : IsLast(x)
  BY DEF NamedLast, N
<1>7. NamedLast(atoms, rev) \in DOMAIN atoms /\ IsLast(NamedLast(atoms, rev))
  <2> HIDE DEF IsLast
  <2> QED
    BY <1>1, <1>5, <1>6
<1>8. ASSUME NEW x \in 1..N, IsLast(x), NEW y \in 1..N, IsLast(y) PROVE x = y
  <2>1. ~(x < y)
    <3>1. x < y => y \in (x + 1)..N
      BY <1>1
    <3> QED
      BY <1>8, <3>1
  <2>2. ~(y < x)
    <3>1. y < x => x \in (y + 1)..N
      BY <1>1
    <3> QED
      BY <1>8, <3>1
  <2> QED
    BY <1>1, <2>1, <2>2
<1> QED
  BY <1>1, <1>7, <1>8 DEF N

LEMMA LastNamedGrows ==
    ASSUME NEW atoms, atoms \in Seq(ToSet(atoms)), NEW one, NEW rev
    PROVE  LET more == Append(atoms, one) IN
           /\ IsNamed(more, rev) <=> (IsNamed(atoms, rev) \/ one.source = rev)
           /\ one.source = rev => NamedLast(more, rev) = Len(atoms) + 1
           /\ one.source # rev /\ IsNamed(atoms, rev) => NamedLast(more, rev) = NamedLast(atoms, rev)
PROOF
<1> DEFINE N == Len(atoms)
           more == Append(atoms, one)
<1>1. /\ more \in Seq(ToSet(more)) /\ N \in Nat /\ Len(more) = N + 1
      /\ DOMAIN atoms = 1..N /\ DOMAIN more = 1..(N + 1)
      /\ more[N + 1] = one /\ \A n \in 1..N : more[n] = atoms[n]
  BY SequenceGrows
<1> HIDE DEF more, N
<1>2. IsNamed(more, rev) <=> (IsNamed(atoms, rev) \/ one.source = rev)
  <2>1. \A n \in 1..(N + 1) : n \in 1..N \/ n = N + 1
    BY <1>1
  <2>2. (\A n \in 1..N : n \in 1..(N + 1)) /\ N + 1 \in 1..(N + 1)
    BY <1>1
  <2> QED
    BY <1>1, <2>1, <2>2 DEF IsNamed
<1>3. ASSUME one.source = rev PROVE NamedLast(more, rev) = N + 1
  <2>1. N + 1 \in DOMAIN more /\ more[N + 1].source = rev /\ \A k \in (N + 1 + 1)..Len(more) : more[k].source # rev
    BY <1>1, <1>3
  <2> QED
    BY <1>1, <1>2, <1>3, <2>1, LastNamed
<1>4. ASSUME one.source # rev, IsNamed(atoms, rev) PROVE NamedLast(more, rev) = NamedLast(atoms, rev)
  <2> DEFINE last == NamedLast(more, rev)
  <2>1. last \in 1..(N + 1) /\ more[last].source = rev
    BY <1>1, <1>2, <1>4, LastNamed
  <2>2. last \in 1..N
    BY <1>1, <1>4, <2>1
  <2>3. \A k \in (last + 1)..Len(more) : more[k].source # rev
    BY <1>1, <1>2, <1>4, LastNamed
  <2> HIDE DEF last
  <2>4. atoms[last].source = rev /\ \A k \in (last + 1)..N : atoms[k].source # rev
    <3>1. \A k \in (last + 1)..N : k \in 1..N /\ k \in (last + 1)..Len(more)
      BY <1>1, <2>2
    <3> QED
      BY <1>1, <2>1, <2>2, <2>3, <3>1
  <2> QED
    BY <1>1, <1>4, <2>2, <2>4, LastNamed DEF last, N
<1> QED
  BY <1>2, <1>3, <1>4 DEF more, N

(* What some ids lead to, one step after another; each place of `next`     *)
(* that is in S leads to a set.                                            *)
IsSpread(g, ids, S, next) ==
    g = [n \in 0..Cardinality(S) |->
           IF n = 0 THEN ids ELSE g[n - 1] \cup UNION {next[x] : x \in g[n - 1] \cap S}]

Spread(ids, S, next) == (CHOOSE g : IsSpread(g, ids, S, next))[Cardinality(S)]

(* It is closed after as many steps as there are places that lead on, and  *)
(* nothing smaller that holds the ids is.                                  *)
LEMMA SpreadIs ==
    ASSUME NEW S, IsFiniteSet(S), NEW ids, NEW next
    PROVE  /\ ids \subseteq Spread(ids, S, next)
           /\ \A x \in Spread(ids, S, next) \cap S : next[x] \subseteq Spread(ids, S, next)
           /\ \A U : ids \subseteq U /\ (\A x \in U \cap S : next[x] \subseteq U) => Spread(ids, S, next) \subseteq U
PROOF
<1> DEFINE N == Cardinality(S)
           Grow(near) == near \cup UNION {next[x] : x \in near \cap S}
           A == ids \cup UNION {next[x] : x \in S}
           T == SUBSET A
           D == [q \in Nat \X T |-> Grow(q[2])]
           Eq(f) == f = [n \in 0..N |-> IF n = 0 THEN ids ELSE Grow(f[n - 1])]
           g == CHOOSE f : Eq(f)
<1>1. N \in Nat
  BY FS_CardinalityType
<1>2. Spread(ids, S, next) = g[N]
  BY DEF Spread, IsSpread
<1>3. \A near \in T : Grow(near) \in T
  OBVIOUS
<1>4. D \in [Nat \X T -> T] /\ ids \in T
  <2> HIDE DEF Grow
  <2>1. ids \in T
    OBVIOUS
  <2> HIDE DEF T
  <2> QED
    BY <1>3, <2>1
<1>5. \A n \in Nat, near \in T : D[<<n, near>>] = Grow(near)
  <2> HIDE DEF Grow, T
  <2> QED
    OBVIOUS
<1>6. \A near : near \subseteq Grow(near)
  OBVIOUS
<1>7. \A near, U : near \subseteq U /\ (\A x \in U \cap S : next[x] \subseteq U) => Grow(near) \subseteq U
  OBVIOUS
<1>8. \A near, more : near \cap S = more \cap S /\ near \subseteq more => Grow(more) = more \cup Grow(near)
  OBVIOUS
<1>9. \A near : Grow(near) = near => \A x \in near \cap S : next[x] \subseteq near
  OBVIOUS
<1> HIDE DEF N, Grow, A, T, D
<1>10. PICK f : IsRun(f, N, T, ids, D)
  BY <1>1, <1>4, LoopHasRun
<1>11. Eq(f)
  <2>1. f \in [0..N -> T] /\ f[0] = ids /\ \A n \in 0..(N - 1) : f[n + 1] = D[<<n, f[n]>>]
    BY <1>10 DEF IsRun
  <2>2. ASSUME NEW n \in 0..N PROVE f[n] = IF n = 0 THEN ids ELSE Grow(f[n - 1])
    <3>1. CASE n = 0
      BY <2>1, <3>1
    <3>2. CASE n # 0
      <4>1. n - 1 \in 0..(N - 1) /\ n - 1 \in 0..N /\ n - 1 \in Nat /\ (n - 1) + 1 = n
        BY <1>1, <3>2
      <4>2. f[(n - 1) + 1] = D[<<n - 1, f[n - 1]>>] /\ f[n - 1] \in T
        BY <2>1, <4>1
      <4> QED
        BY <1>5, <3>2, <4>1, <4>2
    <3> QED
      BY <3>1, <3>2
  <2> QED
    BY <2>1, <2>2
<1>12. Eq(g)
  <2> HIDE DEF Eq
  <2> QED
    BY <1>11
<1> HIDE DEF g
<1>13. g[0] = ids /\ \A n \in 0..(N - 1) : g[n + 1] = Grow(g[n])
  <2>1. 0 \in 0..N /\ \A n \in 0..(N - 1) : n + 1 \in 0..N /\ n + 1 # 0 /\ (n + 1) - 1 = n
    BY <1>1
  <2> QED
    BY <1>12, <2>1
<1>14. ids \subseteq g[N]
  <2> DEFINE V == {n \in 0..N : ids \subseteq g[n]}
  <2>1. 0 \in V
    BY <1>1, <1>13
  <2>2. ASSUME NEW n \in 0..(N - 1), n \in V PROVE n + 1 \in V
    <3>1. n + 1 \in 0..N /\ g[n] \subseteq g[n + 1]
      BY <1>1, <1>6, <1>13
    <3> QED
      BY <2>2, <3>1
  <2> HIDE DEF V
  <2>3. N \in V
    BY <1>1, <2>1, <2>2, BoundedInduction
  <2> QED
    BY <2>3 DEF V
<1>15. ASSUME NEW U, ids \subseteq U, \A x \in U \cap S : next[x] \subseteq U
       PROVE  g[N] \subseteq U
  <2> DEFINE V == {n \in 0..N : g[n] \subseteq U}
  <2>1. 0 \in V
    BY <1>1, <1>13, <1>15
  <2>2. ASSUME NEW n \in 0..(N - 1), n \in V PROVE n + 1 \in V
    <3>1. n + 1 \in 0..N /\ g[n + 1] = Grow(g[n]) /\ g[n] \subseteq U
      BY <1>1, <1>13, <2>2
    <3>2. Grow(g[n]) \subseteq U
      BY <1>7, <1>15, <3>1
    <3> QED
      BY <3>1, <3>2
  <2> HIDE DEF V
  <2>3. N \in V
    BY <1>1, <2>1, <2>2, BoundedInduction
  <2> QED
    BY <2>3 DEF V
<1>16. Grow(g[N]) = g[N]
  <2> SUFFICES ASSUME Grow(g[N]) # g[N] PROVE FALSE
    OBVIOUS
  <2> DEFINE In(near) == near \cap S
             V == {n \in 0..N : Grow(g[n]) # g[n]}
             W == {n \in 0..N : Cardinality(In(g[n])) >= n + 1}
  <2>1. 0..N \subseteq V
    <3>1. N \in V
      BY <1>1
    <3>2. ASSUME NEW n \in 1..N, n \in V PROVE n - 1 \in V
      <4>1. n - 1 \in 0..(N - 1) /\ (n - 1) + 1 = n /\ n - 1 \in 0..N
        BY <1>1
      <4>2. g[n] = Grow(g[n - 1]) /\ Grow(g[n]) # g[n]
        BY <1>13, <3>2, <4>1
      <4> QED
        BY <4>1, <4>2
    <3> HIDE DEF V
    <3> QED
      BY <1>1, <3>1, <3>2, DownwardInduction
  <2>2. \A near : IsFiniteSet(In(near)) /\ Cardinality(In(near)) \in Nat /\ In(near) \subseteq S
    <3>1. \A near : In(near) \subseteq S
      OBVIOUS
    <3> HIDE DEF In
    <3> QED
      BY <3>1, FS_Subset, FS_CardinalityType
  <2>3. \A near : Grow(near) # near => In(near) # {}
    BY DEF Grow
  <2>4. 0 \in W
    <3>1. Grow(g[0]) # g[0]
      BY <1>1, <2>1
    <3>2. In(g[0]) # {}
      BY <2>3, <3>1
    <3> HIDE DEF In
    <3>3. Cardinality(In(g[0])) # 0
      BY <2>2, <3>2, FS_EmptySet
    <3>4. Cardinality(In(g[0])) >= 0 + 1
      BY <2>2, <3>3
    <3> QED
      BY <1>1, <3>4
  <2>5. ASSUME NEW n \in 0..(N - 1), n \in W PROVE n + 1 \in W
    <3>1. n + 1 \in 0..N /\ Grow(g[n + 1]) # g[n + 1] /\ g[n + 1] = Grow(g[n])
      BY <1>1, <1>13, <2>1
    <3>2. g[n] \subseteq g[n + 1]
      BY <1>6, <3>1
    <3>3. In(g[n]) # In(g[n + 1])
      <4> SUFFICES ASSUME In(g[n]) = In(g[n + 1]) PROVE FALSE
        OBVIOUS
      <4>1. Grow(g[n + 1]) = g[n + 1] \cup Grow(g[n])
        BY <1>8, <3>2
      <4> QED
        BY <3>1, <4>1
    <3>4. In(g[n]) \subseteq In(g[n + 1])
      BY <3>2
    <3> HIDE DEF In
    <3>5. Cardinality(In(g[n])) < Cardinality(In(g[n + 1]))
      BY <2>2, <3>3, <3>4, FS_Subset
    <3>6. Cardinality(In(g[n])) >= n + 1
      BY <2>5
    <3> QED
      BY <2>2, <3>1, <3>5, <3>6
  <2>6. N \in W
    <3> HIDE DEF W
    <3> QED
      BY <1>1, <2>4, <2>5, BoundedInduction
  <2>7. Cardinality(In(g[N])) >= N + 1
    BY <2>6
  <2>8. Cardinality(In(g[N])) <= N
    <3> HIDE DEF In
    <3> QED
      BY <2>2, FS_Subset DEF N
  <2> HIDE DEF In
  <2> QED
    BY <1>1, <2>2, <2>7, <2>8
<1>17. \A x \in g[N] \cap S : next[x] \subseteq g[N]
  BY <1>9, <1>16
<1> QED
  BY <1>2, <1>14, <1>15, <1>17
=============================================================================
