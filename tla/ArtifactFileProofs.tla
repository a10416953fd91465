------------------------- MODULE ArtifactFileProofs -------------------------
(***************************************************************************)
(* ArtifactFile implements BlobStore.  The first half is about data alone: *)
(* ends and cuts, the plan and its frames, the order the blobs are stored  *)
(* in, and that an artifact nothing happened to is read.  The second half  *)
(* is the inductive invariant, a lemma for each action, and the theorems.  *)
(***************************************************************************)
EXTENDS ArtifactFile, DataInduction, SequenceTheorems

-----------------------------------------------------------------------------
(* Pieces that follow one another: where each ends, and what they hold     *)
(* together.                                                               *)

(* Sums of lengths.                                                        *)
Numbers(lens) == Len(lens) \in Nat /\ \A n \in 1..Len(lens) : lens[n] \in Nat

\* Each end is the one before and the length between.
LEMMA EndsGrow ==
    ASSUME NEW lens, Numbers(lens)
    PROVE  /\ Ends(lens) \in [0..Len(lens) -> Nat] /\ Ends(lens)[0] = 0
           /\ \A n \in 1..Len(lens) : Ends(lens)[n] = Ends(lens)[n - 1] + lens[n]
PROOF
<1> DEFINE N == Len(lens)
           Of(n, f) == IF n = 0 THEN 0 ELSE f[n - 1] + lens[n]
           Eq(f) == f = [n \in 0..N |-> Of(n, f)]
           D == [q \in Nat \X Nat |-> IF q[1] < N THEN q[2] + lens[q[1] + 1] ELSE q[2]]
<1>1. N \in Nat /\ \A n \in 1..N : lens[n] \in Nat
  BY DEF Numbers
<1> HIDE DEF N
<1>2. D \in [Nat \X Nat -> Nat]
  <2>1. \A n, t \in Nat : n < N => n + 1 \in 1..N /\ t + lens[n + 1] \in Nat
    BY <1>1
  <2> QED
    BY <2>1
<1>3. PICK f : IsRun(f, N, Nat, 0, D)
  <2> HIDE DEF D
  <2> QED
    BY <1>1, <1>2, LoopHasRun
<1>4. f \in [0..N -> Nat] /\ f[0] = 0 /\ \A n \in 0..(N - 1) : f[n + 1] = f[n] + lens[n + 1]
  <2>1. f \in [0..N -> Nat] /\ f[0] = 0 /\ \A n \in 0..(N - 1) : f[n + 1] = D[<<n, f[n]>>]
    BY <1>3 DEF IsRun
  <2>2. ASSUME NEW n \in 0..(N - 1) PROVE f[n + 1] = f[n] + lens[n + 1]
    <3>1. n \in Nat /\ n < N /\ f[n] \in Nat
      BY <1>1, <2>1
    <3> QED
      BY <2>1, <3>1
  <2> QED
    BY <2>1, <2>2
<1>5. Eq(f)
  <2>1. ASSUME NEW n \in 0..N PROVE f[n] = Of(n, f)
    <3>1. CASE n = 0
      BY <1>4, <3>1
    <3>2. CASE n # 0
      <4>1. n - 1 \in 0..(N - 1) /\ (n - 1) + 1 = n
        BY <1>1, <3>2
      <4> QED
        BY <1>4, <3>2, <4>1
    <3> QED
      BY <3>1, <3>2
  <2> HIDE DEF Of
  <2> QED
    BY <1>4, <2>1
<1> DEFINE g == CHOOSE h : Eq(h)
<1>6. Eq(g)
  <2> HIDE DEF Eq
  <2> QED
    BY <1>5
<1>7. Ends(lens) = g
  BY DEF Ends, N
<1> HIDE DEF g
<1>8. DOMAIN g = 0..N /\ g[0] = 0 /\ \A n \in 1..N : g[n] = g[n - 1] + lens[n]
  <2>1. DOMAIN g = 0..N /\ \A n \in 0..N : g[n] = Of(n, g)
    <3> HIDE DEF Of
    <3> QED
      BY <1>6
  <2>2. 0 \in 0..N /\ \A n \in 1..N : n \in 0..N /\ n # 0
    BY <1>1
  <2> QED
    BY <2>1, <2>2
<1> DEFINE U == {n \in 0..N : g[n] \in Nat}
<1>9. 0..N \subseteq U
  <2>1. 0 \in U
    BY <1>1, <1>8
  <2>2. ASSUME NEW n \in 0..(N - 1), n \in U PROVE n + 1 \in U
    <3>1. n + 1 \in 1..N /\ n + 1 \in 0..N /\ (n + 1) - 1 = n
      BY <1>1
    <3>2. g[n + 1] = g[n] + lens[n + 1] /\ lens[n + 1] \in Nat /\ g[n] \in Nat
      BY <1>1, <1>8, <2>2, <3>1
    <3> QED
      BY <3>1, <3>2
  <2> HIDE DEF U
  <2> QED
    BY <1>1, <2>1, <2>2, BoundedInduction
<1>10. g \in [0..N -> Nat]
  <2>1. g = [n \in 0..N |-> g[n]]
    BY <1>6
  <2> QED
    BY <1>9, <2>1
<1> QED
  BY <1>7, <1>8, <1>10 DEF N

(* Sums grow.                                                              *)
LEMMA Ascend ==
    ASSUME NEW N \in Nat, NEW e \in [0..N -> Nat], \A n \in 1..N : e[n - 1] <= e[n]
    PROVE  \A m, n \in 0..N : m <= n => e[m] <= e[n]
PROOF
<1> SUFFICES ASSUME NEW m \in 0..N PROVE \A n \in 0..N : m <= n => e[m] <= e[n]
  OBVIOUS
<1> DEFINE U == {n \in 0..N : m <= n => e[m] <= e[n]}
<1>1. 0 \in U
  OBVIOUS
<1>2. ASSUME NEW n \in 0..(N - 1), n \in U PROVE n + 1 \in U
  <2>1. n + 1 \in 1..N /\ (n + 1) - 1 = n /\ n \in 0..N /\ n + 1 \in 0..N
    OBVIOUS
  <2>2. e[n] <= e[n + 1] /\ e[n] \in Nat /\ e[n + 1] \in Nat /\ e[m] \in Nat
    BY <2>1
  <2>3. CASE m <= n
    BY <1>2, <2>1, <2>2, <2>3
  <2>4. CASE ~ (m <= n)
    <3>1. m <= n + 1 => m = n + 1
      BY <2>4
    <3> QED
      BY <2>1, <2>2, <3>1
  <2> QED
    BY <2>3, <2>4
<1> HIDE DEF U
<1>3. 0..N \subseteq U
  BY <1>1, <1>2, BoundedInduction
<1> QED
  BY <1>3 DEF U

\* A later piece ends no earlier, and the first at its own length.
LEMMA EndsAscend ==
    ASSUME NEW lens, Numbers(lens)
    PROVE  \A m, n \in 0..Len(lens) : m <= n => Ends(lens)[m] <= Ends(lens)[n]
PROOF
<1> DEFINE e == Ends(lens)
           N == Len(lens)
<1>1. N \in Nat /\ e \in [0..N -> Nat] /\ \A n \in 1..N : e[n] = e[n - 1] + lens[n] /\ lens[n] \in Nat
  BY EndsGrow DEF Numbers
<1> HIDE DEF e, N
<1>2. ASSUME NEW n \in 1..N PROVE e[n - 1] <= e[n]
  <2>1. n - 1 \in 0..N /\ e[n - 1] \in Nat
    BY <1>1
  <2>2. e[n] = e[n - 1] + lens[n] /\ lens[n] \in Nat
    BY <1>1
  <2> QED
    BY <2>1, <2>2
<1>3. \A m, n \in 0..N : m <= n => e[m] <= e[n]
  BY <1>1, <1>2, Ascend
<1> QED
  BY <1>3 DEF e, N

(* What FlattenSeq computes, one piece after the other.                    *)
IsJoin(j, p, X) ==
    /\ j \in [0..Len(p) -> Seq(X)]
    /\ j[0] = <<>> /\ FlattenSeq(p) = j[Len(p)]
    /\ \A n \in 1..Len(p) : j[n] = j[n - 1] \o p[n]

\* Flattening joins the pieces in order.
LEMMA FlattenJoins ==
    ASSUME NEW X, NEW p, p \in Seq(Seq(X))
    PROVE  \E j : IsJoin(j, p, X)
PROOF
<1> DEFINE N == Len(p)
           T == Seq(X)
           Of(n, f) == IF n = 1 THEN p[n] ELSE f[n - 1] \o p[n]
           Eq(f) == f = [n \in 1..N |-> Of(n, f)]
           D == [q \in Nat \X T |-> IF q[1] < N THEN q[2] \o p[q[1] + 1] ELSE q[2]]
<1>1. N \in Nat /\ <<>> \in T
  OBVIOUS
<1>2. \A n \in 1..N : p[n] \in T
  OBVIOUS
<1>3. \A s, t \in T : s \o t \in T
  OBVIOUS
<1>4. \A t \in T : <<>> \o t = t
  OBVIOUS
<1>5. N = 0 => FlattenSeq(p) = <<>>
  BY DEF FlattenSeq
<1>6. N # 0 => FlattenSeq(p) = (CHOOSE h : Eq(h))[N]
  BY DEF FlattenSeq
<1> HIDE DEF N, T
<1>7. D \in [Nat \X T -> T]
  <2>1. \A n \in Nat : n < N => n + 1 \in 1..N
    BY <1>1
  <2>2. \A n \in Nat, t \in T : n < N => t \o p[n + 1] \in T
    BY <1>2, <1>3, <2>1
  <2> QED
    BY <2>2
<1>8. PICK f : IsRun(f, N, T, <<>>, D)
  <2> HIDE DEF D
  <2> QED
    BY <1>1, <1>7, LoopHasRun
<1>9. f \in [0..N -> T] /\ f[0] = <<>>
  BY <1>8 DEF IsRun
<1>10. ASSUME NEW n \in 1..N PROVE f[n] = f[n - 1] \o p[n]
  <2>1. n - 1 \in 0..(N - 1) /\ n - 1 \in Nat /\ n - 1 < N /\ (n - 1) + 1 = n /\ n - 1 \in 0..N
    BY <1>1
  <2>2. f[(n - 1) + 1] = D[<<n - 1, f[n - 1]>>]
    BY <1>8, <2>1 DEF IsRun
  <2>3. f[n - 1] \in T
    BY <1>9, <2>1
  <2>4. D[<<n - 1, f[n - 1]>>] = f[n - 1] \o p[(n - 1) + 1]
    BY <2>1, <2>3
  <2> QED
    BY <2>1, <2>2, <2>4
<1> DEFINE fs == [n \in 1..N |-> f[n]]
<1>11. Eq(fs)
  <2>1. ASSUME NEW n \in 1..N PROVE fs[n] = Of(n, fs)
    <3>1. CASE n = 1
      <4>1. f[1] = f[0] \o p[1]
        <5>1. n - 1 = 0
          BY <3>1
        <5>2. f[n] = f[n - 1] \o p[n]
          BY <1>10
        <5> QED
          BY <3>1, <5>1, <5>2
      <4>2. <<>> \o p[1] = p[1]
        BY <1>2, <1>4, <3>1
      <4> QED
        BY <1>9, <3>1, <4>1, <4>2
    <3>2. CASE n # 1
      <4>1. n - 1 \in 1..N
        BY <1>1, <3>2
      <4> QED
        BY <1>10, <3>2, <4>1
    <3> QED
      BY <3>1, <3>2
  <2> HIDE DEF Of
  <2> QED
    BY <2>1
<1> DEFINE g == CHOOSE h : Eq(h)
<1>12. Eq(g)
  <2> HIDE DEF Eq
  <2> QED
    BY <1>11
<1> HIDE DEF g
<1>13. \A n \in 1..N : g[n] = Of(n, g)
  <2> HIDE DEF Of
  <2> QED
    BY <1>12
<1> DEFINE U == {n \in 0..N : n \in 1..N => g[n] = f[n]}
<1>14. 0..N \subseteq U
  <2>1. 0 \in U
    BY <1>1
  <2>2. ASSUME NEW n \in 0..(N - 1), n \in U PROVE n + 1 \in U
    <3>1. n + 1 \in 1..N /\ n + 1 \in 0..N /\ (n + 1) - 1 = n
      BY <1>1
    <3>2. CASE n = 0
      <4>1. g[n + 1] = p[n + 1]
        BY <1>13, <3>1, <3>2
      <4>2. f[n + 1] = <<>> \o p[n + 1]
        BY <1>9, <1>10, <3>1, <3>2
      <4>3. <<>> \o p[n + 1] = p[n + 1]
        BY <1>2, <1>4, <3>1
      <4> QED
        BY <3>1, <4>1, <4>2, <4>3
    <3>3. CASE n # 0
      <4>1. n \in 1..N /\ n + 1 # 1
        BY <1>1, <3>3
      <4>2. g[n + 1] = g[n] \o p[n + 1]
        BY <1>13, <3>1, <4>1
      <4>3. f[n + 1] = f[n] \o p[n + 1]
        BY <1>10, <3>1
      <4> QED
        BY <2>2, <3>1, <4>1, <4>2, <4>3
    <3> QED
      BY <3>2, <3>3
  <2> HIDE DEF U
  <2> QED
    BY <1>1, <2>1, <2>2, BoundedInduction
<1>15. FlattenSeq(p) = f[N]
  <2>1. CASE N = 0
    BY <1>5, <1>9, <2>1
  <2>2. CASE N # 0
    <3>1. N \in 1..N /\ N \in 0..N
      BY <1>1, <2>2
    <3>2. g[N] = f[N]
      BY <1>14, <3>1
    <3> QED
      BY <1>6, <2>2, <3>2 DEF g
  <2> QED
    BY <2>1, <2>2
<1> QED
  BY <1>9, <1>10, <1>15 DEF N, T, IsJoin

(* Cut in pieces and joined again.                                         *)
LEMMA FlattenCuts ==
    ASSUME NEW X, NEW all \in Seq(X), NEW K \in Nat, NEW c \in [0..K -> 0..Len(all)],
           \A k \in 1..K : c[k - 1] <= c[k],
           NEW p, p = [k \in 1..K |-> SubSeq(all, c[k - 1] + 1, c[k])]
    PROVE  FlattenSeq(p) = SubSeq(all, c[0] + 1, c[K])
PROOF
<1> DEFINE L == Len(all)
<1>1. L \in Nat /\ c \in [0..K -> 0..L]
  OBVIOUS
<1>2. ASSUME NEW a \in 0..L, NEW b \in 0..L
      PROVE  SubSeq(all, a + 1, b) \in Seq(X)
  <2>1. \A i \in (a + 1)..b : all[i] \in X
    BY ElementOfSeq
  <2> QED
    BY <2>1, SubSeqProperties
<1>3. p \in Seq(Seq(X)) /\ Len(p) = K
  <2>1. \A k \in 1..K : k - 1 \in 0..K /\ k \in 0..K
    OBVIOUS
  <2>2. \A k \in 1..K : c[k - 1] \in 0..L /\ c[k] \in 0..L
    BY <1>1, <2>1
  <2>3. \A k \in 1..K : SubSeq(all, c[k - 1] + 1, c[k]) \in Seq(X)
    BY <1>2, <2>2
  <2> DEFINE T == Seq(X)
             e(k) == SubSeq(all, c[k - 1] + 1, c[k])
  <2>4. \A k \in 1..K : e(k) \in T
    BY <2>3
  <2>5. p = [k \in 1..K |-> e(k)]
    OBVIOUS
  <2> HIDE DEF T, e
  <2>6. p \in [1..K -> T]
    BY <2>4, <2>5
  <2>7. p \in Seq(T) /\ Len(p) = K
    <3>1. p \in Seq(T)
      BY <2>6, SeqDef
    <3>2. DOMAIN p = 1..Len(p) /\ Len(p) \in Nat /\ DOMAIN p = 1..K
      BY <2>6, <3>1, LenProperties
    <3> QED
      BY <3>1, <3>2
  <2> QED
    BY <2>7 DEF T
<1>4. PICK j \in [0..K -> Seq(X)] :
         /\ j[0] = <<>> /\ FlattenSeq(p) = j[K]
         /\ \A n \in 1..K : j[n] = j[n - 1] \o p[n]
  <2>1. PICK j : IsJoin(j, p, X)
    BY <1>3, FlattenJoins
  <2> QED
    BY <1>3, <2>1 DEF IsJoin
<1>5. \A m, n \in 0..K : m <= n => c[m] <= c[n]
  <2>1. c \in [0..K -> Nat]
    BY <1>1
  <2> QED
    BY <2>1, Ascend
<1> DEFINE U == {n \in 0..K : j[n] = SubSeq(all, c[0] + 1, c[n])}
<1>6. 0 \in U
  <2>1. 0 \in 0..K /\ c[0] \in Int /\ c[0] + 1 \in Int /\ c[0] < c[0] + 1
    BY <1>1
  <2> QED
    BY <1>4, <2>1, SubSeqEmpty
<1>7. ASSUME NEW n \in 0..(K - 1), n \in U PROVE n + 1 \in U
  <2>1. n + 1 \in 1..K /\ n + 1 \in 0..K /\ (n + 1) - 1 = n /\ n \in 0..K /\ 0 \in 0..K
    OBVIOUS
  <2>2. j[n + 1] = j[n] \o p[n + 1] /\ p[n + 1] = SubSeq(all, c[n] + 1, c[n + 1])
    BY <1>4, <2>1
  <2>3. c[0] <= c[n] /\ c[n] <= c[n + 1]
    BY <1>5, <2>1
  <2>4. c[0] + 1 \in 1..(L + 1) /\ c[n] \in (c[0] + 1) - 1 .. L /\ c[n + 1] \in c[n]..L
    BY <1>1, <2>1, <2>3, SMTT(40)
  <2>5. SubSeq(all, c[0] + 1, c[n]) \o SubSeq(all, c[n] + 1, c[n + 1]) = SubSeq(all, c[0] + 1, c[n + 1])
    BY <2>4, ConcatAdjacentSubSeq
  <2> QED
    BY <1>7, <2>1, <2>2, <2>5
<1> HIDE DEF U
<1>8. 0..K \subseteq U
  BY <1>6, <1>7, BoundedInduction
<1>9. K \in U
  BY <1>8
<1> QED
  BY <1>4, <1>9 DEF U

(* Joined and cut again.                                                   *)
LEMMA FlattenWhole ==
    ASSUME NEW X, NEW p, p \in Seq(Seq(X)), NEW lens, lens = [n \in 1..Len(p) |-> Len(p[n])]
    PROVE  /\ FlattenSeq(p) \in Seq(X) /\ Len(FlattenSeq(p)) = Ends(lens)[Len(p)]
           /\ \A n \in 1..Len(p) :
                 SubSeq(FlattenSeq(p), Ends(lens)[n - 1] + 1, Ends(lens)[n]) = p[n]
PROOF
<1> DEFINE N == Len(p)
           E == Ends(lens)
           all == FlattenSeq(p)
<1>1. N \in Nat /\ \A n \in 1..N : p[n] \in Seq(X) /\ Len(p[n]) \in Nat
  <2>1. N \in Nat /\ \A n \in 1..N : p[n] \in Seq(X)
    BY LenProperties, ElementOfSeq
  <2> QED
    BY <2>1, LenProperties
<1>2. Len(lens) = N /\ Numbers(lens) /\ \A n \in 1..N : lens[n] = Len(p[n])
  <2>1. lens \in [1..N -> Nat]
    BY <1>1
  <2>2. lens \in Seq(Nat)
    BY <1>1, <2>1, SeqDef
  <2>3. DOMAIN lens = 1..Len(lens) /\ Len(lens) \in Nat /\ DOMAIN lens = 1..N
    BY <2>1, <2>2, LenProperties
  <2>4. Len(lens) = N
    BY <1>1, <2>3
  <2> QED
    BY <1>1, <2>1, <2>4 DEF Numbers
<1>3. /\ E \in [0..N -> Nat] /\ E[0] = 0
      /\ \A n \in 1..N : E[n] = E[n - 1] + Len(p[n])
      /\ \A m, n \in 0..N : m <= n => E[m] <= E[n]
  BY <1>2, EndsGrow, EndsAscend
<1>4. PICK j : /\ j \in [0..N -> Seq(X)]
               /\ j[0] = <<>> /\ all = j[N]
               /\ \A n \in 1..N : j[n] = j[n - 1] \o p[n]
  <2>1. PICK j : IsJoin(j, p, X)
    BY FlattenJoins
  <2> QED
    BY <2>1 DEF IsJoin
<1> HIDE DEF N, E, all
<1> DEFINE Holds(k) == \A n \in 1..k : \A i \in 1..Len(p[n]) : j[k][E[n - 1] + i] = p[n][i]
           U == {k \in 0..N : Len(j[k]) = E[k] /\ Holds(k)}
<1>5. 0 \in U
  <2>1. 0 \in 0..N /\ Len(<<>>) = 0
    BY <1>1, EmptySeq
  <2>2. Holds(0)
    OBVIOUS
  <2> QED
    BY <1>3, <1>4, <2>1, <2>2
<1>6. ASSUME NEW k \in 0..(N - 1), k \in U PROVE k + 1 \in U
  <2>1. k + 1 \in 1..N /\ k + 1 \in 0..N /\ (k + 1) - 1 = k /\ k \in 0..N
    BY <1>1
  <2> DEFINE s == j[k]
             t == p[k + 1]
  <2>2. s \in Seq(X) /\ t \in Seq(X) /\ j[k + 1] = s \o t
    BY <1>1, <1>4, <2>1
  <2>3. Len(s) = E[k] /\ E[k + 1] = E[k] + Len(t) /\ Len(t) \in Nat /\ E[k] \in Nat
    BY <1>1, <1>3, <1>6, <2>1
  <2>4. /\ Len(s \o t) = Len(s) + Len(t)
        /\ \A i \in 1..(Len(s) + Len(t)) : (s \o t)[i] = IF i <= Len(s) THEN s[i] ELSE t[i - Len(s)]
    <3> HIDE DEF s, t
    <3> QED
      BY <2>2, ConcatProperties
  <2>5. ASSUME NEW n \in 1..(k + 1), NEW i \in 1..Len(p[n])
        PROVE  (s \o t)[E[n - 1] + i] = p[n][i]
    <3>1. n \in 1..N /\ n \in 0..N /\ n - 1 \in 0..N /\ Len(p[n]) \in Nat
      BY <1>1, <2>1
    <3>2. E[n - 1] \in Nat /\ E[n] = E[n - 1] + Len(p[n])
      BY <1>3, <3>1
    <3>3. CASE n = k + 1
      <4>1. E[n - 1] = E[k] /\ p[n] = t
        BY <2>1, <3>3
      <4>2. E[k] + i \in 1..(Len(s) + Len(t)) /\ ~ (E[k] + i <= Len(s)) /\ (E[k] + i) - Len(s) = i
        <5>1. i \in 1..Len(t)
          BY <4>1
        <5> HIDE DEF s, t
        <5> QED
          BY <2>3, <5>1, SMTT(40)
      <4>3. (s \o t)[E[k] + i] = t[i]
        <5> HIDE DEF s, t
        <5> QED
          BY <2>4, <4>2
      <4> QED
        BY <4>1, <4>3
    <3>4. CASE n # k + 1
      <4>1. n \in 1..k
        BY <2>1, <3>4
      <4>2. E[n] <= E[k]
        BY <1>3, <2>1, <3>1, <4>1
      <4>3. E[n - 1] + i \in 1..(Len(s) + Len(t)) /\ E[n - 1] + i <= Len(s)
        <5> DEFINE a == E[n - 1]
                   l == Len(p[n])
                   x == E[k]
                   m == Len(t)
        <5>1. a \in Nat /\ l \in Nat /\ x \in Nat /\ m \in Nat /\ a + l <= x /\ i \in 1..l /\ Len(s) = x
          BY <2>3, <3>1, <3>2, <4>2
        <5> HIDE DEF a, l, x, m, s
        <5>2. a + i \in 1..(x + m) /\ a + i <= x
          BY <5>1
        <5> QED
          BY <5>1, <5>2 DEF a, m
      <4>4. (s \o t)[E[n - 1] + i] = s[E[n - 1] + i]
        <5> HIDE DEF s, t
        <5> QED
          BY <2>4, <4>3
      <4>5. s[E[n - 1] + i] = p[n][i]
        BY <1>6, <4>1
      <4> QED
        BY <4>4, <4>5
    <3> QED
      BY <3>3, <3>4
  <2>6. Holds(k + 1)
    BY <2>2, <2>5
  <2>7. Len(j[k + 1]) = E[k + 1]
    <3> HIDE DEF s, t
    <3> QED
      BY <2>2, <2>3, <2>4
  <2> HIDE DEF Holds, s, t
  <2> QED
    BY <2>1, <2>6, <2>7
<1>7. N \in U
  <2> HIDE DEF U
  <2>1. 0..N \subseteq U
    BY <1>1, <1>5, <1>6, BoundedInduction
  <2> QED
    BY <1>1, <2>1
<1>8. N \in 0..N
  BY <1>1
<1>9. all \in Seq(X) /\ Len(all) = E[N] /\ \A n \in 1..N : \A i \in 1..Len(p[n]) : all[E[n - 1] + i] = p[n][i]
  BY <1>4, <1>7, <1>8
<1>10. ASSUME NEW n \in 1..N PROVE SubSeq(all, E[n - 1] + 1, E[n]) = p[n]
  <2> DEFINE a == E[n - 1]
             b == E[n]
             piece == p[n]
  <2>1. n \in 0..N /\ n - 1 \in 0..N /\ N \in 0..N
    BY <1>1
  <2>2. a \in Nat /\ b = a + Len(piece) /\ b <= Len(all) /\ piece \in Seq(X) /\ Len(piece) \in Nat
    BY <1>1, <1>3, <1>9, <2>1
  <2>3. \A i \in 1..Len(piece) : all[a + i] = piece[i]
    BY <1>9
  <2> HIDE DEF a, b, piece
  <2>4. \A i \in (a + 1)..b : all[i] \in X
    <3>1. \A i \in (a + 1)..b : i \in 1..Len(all)
      BY <1>9, <2>2
    <3> QED
      BY <1>9, <3>1, ElementOfSeq
  <2> DEFINE cut == SubSeq(all, a + 1, b)
  <2>5. /\ cut \in Seq(X) /\ Len(cut) = IF a + 1 <= b THEN b - (a + 1) + 1 ELSE 0
        /\ \A i \in 1..(b - (a + 1) + 1) : cut[i] = all[(a + 1) + i - 1]
    <3>1. a + 1 \in Int /\ b \in Int
      BY <2>2
    <3> QED
      BY <2>4, <3>1, SubSeqProperties
  <2> HIDE DEF cut
  <2>6. Len(cut) = Len(piece)
    BY <2>2, <2>5
  <2>7. ASSUME NEW i \in 1..Len(cut) PROVE cut[i] = piece[i]
    <3>1. i \in 1..(b - (a + 1) + 1) /\ (a + 1) + i - 1 = a + i /\ i \in 1..Len(piece)
      BY <2>2, <2>6
    <3> QED
      BY <2>3, <2>5, <3>1
  <2>8. cut = piece
    BY <2>2, <2>5, <2>6, <2>7, SeqEqual
  <2> QED
    BY <2>8 DEF cut, a, b, piece
<1> QED
  BY <1>9, <1>10 DEF N, E, all

(* The plan.  Its frames are runs of the pieces, one run behind the other, *)
(* and every piece is in one.                                              *)
PlanEntry == [len : Nat, from : Nat, upto : Nat]

IsRunOf(frames, k, n, E) ==
    /\ 1 <= frames[k].from /\ frames[k].from <= frames[k].upto /\ frames[k].upto <= n
    /\ E[frames[k].upto] = E[frames[k].from - 1] + frames[k].len
    /\ frames[k].from = IF k = 1 THEN 1 ELSE frames[k - 1].upto + 1

PlansUpTo(frames, n, E) ==
    /\ frames \in Seq(PlanEntry)
    /\ n = 0 <=> frames = <<>>
    /\ frames # <<>> => frames[Len(frames)].upto = n
    /\ \A k \in 1..Len(frames) : IsRunOf(frames, k, n, E)
    /\ \A m \in 1..n : \E k \in 1..Len(frames) : frames[k].from <= m /\ m <= frames[k].upto

\* One piece more keeps the plan a plan of all pieces so far.
LEMMA PlannedExtends ==
    ASSUME NEW n \in Nat, NEW E, \A m \in 0..(n + 1) : E[m] \in Nat,
           NEW len \in Nat, E[n + 1] = E[n] + len,
           NEW frames, PlansUpTo(frames, n, E)
    PROVE  PlansUpTo(Planned(frames, n + 1, len), n + 1, E)
PROOF
<1> DEFINE L == Len(frames)
           new == Planned(frames, n + 1, len)
<1>1. L \in Nat /\ frames \in Seq(PlanEntry) /\ \A k \in 1..L : frames[k] \in PlanEntry
  BY DEF PlansUpTo
<1>0. \A e \in PlanEntry : e.len \in Nat /\ e.from \in Nat /\ e.upto \in Nat
  BY DEF PlanEntry
<1>2. CASE Joins(frames, len)
  <2> DEFINE last == [len |-> frames[L].len + len, from |-> frames[L].from, upto |-> n + 1]
  <2>1. frames # <<>> /\ L \in 1..L
    BY <1>1, <1>2 DEF Joins, PlansUpTo
  <2>2. last \in PlanEntry
    <3>1. frames[L].len \in Nat /\ frames[L].from \in Nat
      BY <1>0, <1>1, <2>1
    <3> QED
      BY <3>1 DEF PlanEntry
  <2>3. new = [frames EXCEPT ![L] = last]
    BY <1>2 DEF Planned
  <2>4. frames[L].upto = n /\ IsRunOf(frames, L, n, E)
    BY <2>1 DEF PlansUpTo
  <2> HIDE DEF last
  <2>5. /\ new \in Seq(PlanEntry) /\ Len(new) = L /\ new[L] = last
        /\ \A k \in 1..L : k # L => new[k] = frames[k]
    <3>1. \A j \in 1..L : [frames EXCEPT ![L] = last][j] = IF j = L THEN last ELSE frames[j]
      BY <1>1, <2>1, <2>2, ExceptSeq
    <3> QED
      BY <1>1, <2>1, <2>2, <2>3, <3>1, ExceptSeq
  <2>6. last.len = frames[L].len + len /\ last.from = frames[L].from /\ last.upto = n + 1
    BY DEF last
  <2> HIDE DEF new
  <2>7. new # <<>>
    BY <2>1, <2>5
  <2>8. ASSUME NEW k \in 1..L PROVE IsRunOf(new, k, n + 1, E)
    <3>1. IsRunOf(frames, k, n, E) /\ frames[k] \in PlanEntry
      BY <1>1 DEF PlansUpTo
    <3>2. CASE k = L
      <4>1. k # 1 => k - 1 \in 1..L /\ k - 1 # L
        BY <1>1, <3>2
      <4>2. k # 1 => new[k - 1] = frames[k - 1]
        BY <2>5, <4>1
      <4>3. /\ frames[L].from \in Nat /\ frames[L].len \in Nat /\ frames[L].from - 1 \in 0..(n + 1)
            /\ 1 <= frames[L].from /\ frames[L].from <= n + 1
        <5>1. /\ frames[L].from \in Nat /\ frames[L].len \in Nat /\ frames[L].upto \in Nat
              /\ 1 <= frames[L].from /\ frames[L].from <= frames[L].upto /\ frames[L].upto <= n
          BY <1>0, <1>1, <2>1, <2>4 DEF IsRunOf
        <5> QED
          BY <5>1
      <4>4. E[n + 1] = E[frames[L].from - 1] + (frames[L].len + len)
        <5>1. E[n] = E[frames[L].from - 1] + frames[L].len /\ E[frames[L].from - 1] \in Nat
          BY <2>4, <4>3 DEF IsRunOf
        <5> QED
          BY <4>3, <5>1
      <4>5. /\ 1 <= frames[L].from /\ frames[L].from <= n + 1
            /\ frames[L].from = IF k = 1 THEN 1 ELSE frames[k - 1].upto + 1
        <5>1. frames[L].from = IF L = 1 THEN 1 ELSE frames[L - 1].upto + 1
          BY <2>4 DEF IsRunOf
        <5> QED
          BY <3>2, <4>3, <5>1
      <4>6. new[k].from = frames[L].from /\ new[k].upto = n + 1 /\ new[k].len = frames[L].len + len
        BY <2>5, <2>6, <3>2
      <4> QED
        BY <4>2, <4>4, <4>5, <4>6 DEF IsRunOf
    <3>3. CASE k # L
      <4>1. k # 1 => k - 1 \in 1..L /\ k - 1 # L
        BY <1>1, <3>3
      <4>2. new[k] = frames[k] /\ (k # 1 => new[k - 1] = frames[k - 1])
        BY <2>5, <3>3, <4>1
      <4> QED
        BY <3>1, <4>2 DEF IsRunOf, PlanEntry
    <3> QED
      BY <3>2, <3>3
  <2>9. ASSUME NEW m \in 1..(n + 1) PROVE \E k \in 1..L : new[k].from <= m /\ m <= new[k].upto
    <3>1. CASE m = n + 1
      <4>1. IsRunOf(new, L, n + 1, E) /\ new[L].upto = n + 1
        BY <2>1, <2>5, <2>6, <2>8
      <4> QED
        BY <2>1, <3>1, <4>1 DEF IsRunOf
    <3>2. CASE m # n + 1
      <4>0. m \in 1..n
        BY <3>2
      <4>1. PICK k \in 1..L : frames[k].from <= m /\ m <= frames[k].upto
        BY <4>0 DEF PlansUpTo
      <4>2. CASE k = L
        BY <2>5, <2>6, <4>1, <4>2
      <4>3. CASE k # L
        BY <2>5, <4>1, <4>3
      <4> QED
        BY <4>2, <4>3
    <3> QED
      BY <3>1, <3>2
  <2> QED
    BY <2>5, <2>6, <2>7, <2>8, <2>9 DEF PlansUpTo, new
<1>3. CASE ~Joins(frames, len)
  <2> DEFINE last == [len |-> len, from |-> n + 1, upto |-> n + 1]
  <2>1. last \in PlanEntry /\ new = Append(frames, last)
    BY <1>3 DEF Planned, PlanEntry
  <2>2. last.len = len /\ last.from = n + 1 /\ last.upto = n + 1
    OBVIOUS
  <2> HIDE DEF last, new
  <2>3. /\ new \in Seq(PlanEntry) /\ new # <<>> /\ Len(new) = L + 1 /\ new[L + 1] = last
        /\ \A k \in 1..L : new[k] = frames[k]
    BY <1>1, <2>1, AppendProperties
  <2>4. ASSUME NEW k \in 1..(L + 1) PROVE IsRunOf(new, k, n + 1, E)
    <3>1. CASE k = L + 1
      <4>1. frames = <<>> => n = 0 /\ L = 0
        BY EmptySeq DEF PlansUpTo
      <4>2. frames # <<>> => L \in 1..L /\ frames[L].upto = n /\ k # 1 /\ k - 1 = L
        BY <1>1, <3>1 DEF PlansUpTo
      <4>3. E[n + 1] = E[(n + 1) - 1] + len
        OBVIOUS
      <4>4. n + 1 = IF k = 1 THEN 1 ELSE new[k - 1].upto + 1
        <5>1. CASE frames = <<>>
          BY <3>1, <4>1, <5>1
        <5>2. CASE frames # <<>>
          BY <2>3, <4>2, <5>2
        <5> QED
          BY <5>1, <5>2
      <4>5. new[k].from = n + 1 /\ new[k].upto = n + 1 /\ new[k].len = len
        BY <2>2, <2>3, <3>1
      <4> QED
        BY <4>3, <4>4, <4>5 DEF IsRunOf
    <3>2. CASE k # L + 1
      <4>1. k \in 1..L /\ (k # 1 => k - 1 \in 1..L)
        BY <1>1, <3>2, SMTT(40)
      <4>2. IsRunOf(frames, k, n, E) /\ frames[k] \in PlanEntry
        BY <1>1, <4>1 DEF PlansUpTo
      <4>3. new[k] = frames[k] /\ (k # 1 => new[k - 1] = frames[k - 1])
        BY <2>3, <4>1
      <4> QED
        BY <4>2, <4>3 DEF IsRunOf, PlanEntry
    <3> QED
      BY <3>1, <3>2
  <2>5. ASSUME NEW m \in 1..(n + 1) PROVE \E k \in 1..(L + 1) : new[k].from <= m /\ m <= new[k].upto
    <3>1. CASE m = n + 1
      <4>1. L + 1 \in 1..(L + 1)
        BY <1>1
      <4> QED
        BY <2>2, <2>3, <3>1, <4>1
    <3>2. CASE m # n + 1
      <4>0. m \in 1..n
        BY <3>2
      <4>1. PICK k \in 1..L : frames[k].from <= m /\ m <= frames[k].upto
        BY <4>0 DEF PlansUpTo
      <4>2. k \in 1..(L + 1)
        BY <1>1
      <4> QED
        BY <2>3, <4>1, <4>2
    <3> QED
      BY <3>1, <3>2
  <2>6. new[L + 1].upto = n + 1
    BY <2>2, <2>3
  <2> QED
    BY <2>3, <2>4, <2>5, <2>6 DEF PlansUpTo, new
<1> QED
  BY <1>2, <1>3

\* The plan's frames are runs that follow one another and cover every piece.
LEMMA PlanIsRuns ==
    ASSUME NEW lens, Numbers(lens)
    PROVE  PlansUpTo(Plan(lens), Len(lens), Ends(lens))
PROOF
<1> DEFINE N == Len(lens)
           E == Ends(lens)
           T == Seq(PlanEntry)
           Of(n, f) == IF n = 0 THEN <<>> ELSE Planned(f[n - 1], n, lens[n])
           Eq(f) == f = [n \in 0..N |-> Of(n, f)]
           Good == {fr \in T : TRUE}
<1>1. N \in Nat /\ \A n \in 1..N : lens[n] \in Nat
  BY DEF Numbers
<1>2. E \in [0..N -> Nat] /\ E[0] = 0 /\ \A n \in 1..N : E[n] = E[n - 1] + lens[n]
  BY EndsGrow
<1> HIDE DEF N, E
<1>3. \E f : Eq(f)
  <2> DEFINE D == [q \in Nat \X T |->
                      IF q[1] < N /\ PlansUpTo(q[2], q[1], E) THEN Planned(q[2], q[1] + 1, lens[q[1] + 1])
                      ELSE q[2]]
  <2>1. ASSUME NEW n \in Nat, NEW fr, n < N, PlansUpTo(fr, n, E)
        PROVE  PlansUpTo(Planned(fr, n + 1, lens[n + 1]), n + 1, E)
    <3>1. n + 1 \in 1..N /\ (n + 1) - 1 = n /\ lens[n + 1] \in Nat
      BY <1>1, <2>1
    <3>2. \A m \in 0..(n + 1) : E[m] \in Nat
      BY <1>1, <1>2, <2>1
    <3>3. E[n + 1] = E[n] + lens[n + 1]
      BY <1>2, <3>1
    <3> QED
      BY <2>1, <3>1, <3>2, <3>3, PlannedExtends
  <2>2. D \in [Nat \X T -> T]
    <3>1. \A fr, n : PlansUpTo(fr, n, E) => fr \in T
      BY DEF PlansUpTo
    <3>2. \A n \in Nat, fr \in T : n < N /\ PlansUpTo(fr, n, E) => Planned(fr, n + 1, lens[n + 1]) \in T
      BY <2>1, <3>1
    <3> HIDE DEF T
    <3> QED
      BY <3>2
  <2>3. <<>> \in T
    BY EmptySeq
  <2>4. PICK f : IsRun(f, N, T, <<>>, D)
    <3> HIDE DEF D, T
    <3> QED
      BY <1>1, <2>2, <2>3, LoopHasRun
  <2>5. f \in [0..N -> T] /\ f[0] = <<>> /\ \A n \in 0..(N - 1) : f[n + 1] = D[<<n, f[n]>>]
    BY <2>4 DEF IsRun
  <2> DEFINE V == {n \in 0..N : PlansUpTo(f[n], n, E)}
  <2>6. ASSUME NEW n \in 0..(N - 1), n \in V PROVE f[n + 1] = Planned(f[n], n + 1, lens[n + 1])
    <3>1. n \in Nat /\ n < N /\ f[n] \in T /\ PlansUpTo(f[n], n, E)
      BY <1>1, <2>5, <2>6
    <3>2. D[<<n, f[n]>>] = Planned(f[n], n + 1, lens[n + 1])
      <4> HIDE DEF T
      <4> QED
        BY <3>1
    <3> HIDE DEF D
    <3> QED
      BY <2>5, <3>2
  <2>7. 0..N \subseteq V
    <3>1. 0 \in V
      <4>1. PlansUpTo(<<>>, 0, E)
        BY EmptySeq DEF PlansUpTo
      <4> QED
        BY <1>1, <2>5, <4>1
    <3>2. ASSUME NEW n \in 0..(N - 1), n \in V PROVE n + 1 \in V
      <4>1. n \in Nat /\ n < N /\ n + 1 \in 0..N
        BY <1>1
      <4> QED
        BY <2>1, <2>6, <3>2, <4>1
    <3> HIDE DEF V
    <3> QED
      BY <1>1, <3>1, <3>2, BoundedInduction
  <2>8. ASSUME NEW n \in 0..N PROVE f[n] = Of(n, f)
    <3>1. CASE n = 0
      BY <2>5, <3>1
    <3>2. CASE n # 0
      <4>1. n - 1 \in 0..(N - 1) /\ (n - 1) + 1 = n /\ n - 1 \in 0..N
        BY <1>1, <3>2
      <4>2. f[(n - 1) + 1] = Planned(f[n - 1], (n - 1) + 1, lens[(n - 1) + 1])
        BY <2>6, <2>7, <4>1
      <4> QED
        BY <3>2, <4>1, <4>2
    <3> QED
      BY <3>1, <3>2
  <2>9. Eq(f)
    <3> HIDE DEF Of, T
    <3> QED
      BY <2>5, <2>8
  <2> QED
    BY <2>9
<1> DEFINE g == CHOOSE h : Eq(h)
<1>4. Eq(g)
  <2> HIDE DEF Eq
  <2> QED
    BY <1>3
<1>5. Plan(lens) = g[N]
  BY DEF Plan, N
<1> HIDE DEF g
<1>6. \A n \in 0..N : g[n] = Of(n, g)
  <2> HIDE DEF Of
  <2> QED
    BY <1>4
<1> DEFINE U == {n \in 0..N : PlansUpTo(g[n], n, E)}
<1>7. 0 \in U
  <2>1. PlansUpTo(<<>>, 0, E)
    BY EmptySeq DEF PlansUpTo
  <2> QED
    BY <1>1, <1>6, <2>1
<1>8. ASSUME NEW n \in 0..(N - 1), n \in U PROVE n + 1 \in U
  <2>1. n + 1 \in 1..N /\ n + 1 \in 0..N /\ n + 1 # 0 /\ (n + 1) - 1 = n /\ n \in Nat
    BY <1>1
  <2>2. g[n + 1] = Planned(g[n], n + 1, lens[n + 1])
    BY <1>6, <2>1
  <2>3. E[n + 1] = E[n] + lens[n + 1] /\ lens[n + 1] \in Nat
    BY <1>1, <1>2, <2>1
  <2>4. \A m \in 0..(n + 1) : E[m] \in Nat
    BY <1>1, <1>2
  <2> QED
    BY <1>8, <2>1, <2>2, <2>3, <2>4, PlannedExtends
<1>9. N \in U
  <2> HIDE DEF U
  <2>1. 0..N \subseteq U
    BY <1>1, <1>7, <1>8, BoundedInduction
  <2> QED
    BY <1>1, <2>1
<1> QED
  BY <1>5, <1>9 DEF N, E

-----------------------------------------------------------------------------
(* The order the blobs are stored in.                                      *)
\* A function of a finite set takes finitely many values.
LEMMA ImageIsFinite ==
    ASSUME NEW S, IsFiniteSet(S), NEW f, DOMAIN f = S
    PROVE  IsFiniteSet({f[x] : x \in S})
PROOF
<1> DEFINE T == {f[x] : x \in S}
           g == [x \in S |-> f[x]]
<1>1. g \in Surjection(S, T)
  BY DEF Surjection
<1> QED
  BY <1>1, FS_Surjection

(* A finite set in a strict order: each element once, in the order.        *)
IsStrictOrder(R, S) ==
    /\ \A x \in S : <<x, x>> \notin R
    /\ \A x, y, z \in S : <<x, y>> \in R /\ <<y, z>> \in R => <<x, z>> \in R
    /\ \A x, y \in S : x # y => <<x, y>> \in R \/ <<y, x>> \in R

Sorts(o, R, S) ==
    /\ o \in [1..Cardinality(S) -> S]
    /\ \A x \in S : \E n \in 1..Cardinality(S) : o[n] = x
    /\ \A m, n \in 1..Cardinality(S) : m < n => <<o[m], o[n]>> \in R /\ o[m] # o[n]

\* InOrder lists a finite set by the order it is given: each element once.
LEMMA InOrderSorts ==
    ASSUME NEW S, IsFiniteSet(S), NEW R, IsStrictOrder(R, S)
    PROVE  Sorts(InOrder(S, R), R, S)
PROOF
<1> DEFINE N == Cardinality(S)
           Below(x) == {c \in S : <<c, x>> \in R}
           r == [x \in S |-> Cardinality(Below(x))]
           o == InOrder(S, R)
<1>1. N \in Nat
  BY FS_CardinalityType
<1>2. ASSUME NEW x \in S PROVE IsFiniteSet(Below(x)) /\ r[x] \in 0..(N - 1)
  <2> DEFINE A == Below(x)
             B == S \ {x}
  <2>1. A \subseteq B
    BY DEF IsStrictOrder
  <2>2. IsFiniteSet(B) /\ Cardinality(B) = N - 1
    BY FS_RemoveElement
  <2>3. r[x] = Cardinality(A)
    OBVIOUS
  <2> HIDE DEF A, B, r
  <2>4. IsFiniteSet(A) /\ Cardinality(A) <= Cardinality(B)
    BY <2>1, <2>2, FS_Subset
  <2>5. Cardinality(A) \in Nat
    BY <2>4, FS_CardinalityType
  <2>6. r[x] \in 0..(N - 1)
    <3> HIDE DEF N
    <3> QED
      BY <1>1, <2>2, <2>3, <2>4, <2>5
  <2> QED
    BY <2>4, <2>6 DEF A
<1>3. ASSUME NEW x \in S, NEW y \in S, <<x, y>> \in R PROVE r[x] < r[y]
  <2> DEFINE A == Below(x)
             B == Below(y)
  <2>1. A \cup {x} \subseteq B /\ x \notin A
    BY <1>3 DEF IsStrictOrder
  <2>2. IsFiniteSet(A) /\ IsFiniteSet(B) /\ r[x] = Cardinality(A) /\ r[y] = Cardinality(B)
    BY <1>2
  <2> HIDE DEF A, B, r
  <2>3. Cardinality(A \cup {x}) = Cardinality(A) + 1
    BY <2>1, <2>2, FS_AddElement
  <2>4. Cardinality(A \cup {x}) <= Cardinality(B)
    BY <2>1, <2>2, FS_Subset
  <2>5. Cardinality(A) \in Nat /\ Cardinality(B) \in Nat
    BY <2>2, FS_CardinalityType
  <2> QED
    BY <2>2, <2>3, <2>4, <2>5
<1>4. \A x, y \in S : r[x] = r[y] => x = y
  <2> SUFFICES ASSUME NEW x \in S, NEW y \in S, r[x] = r[y], x # y PROVE FALSE
    OBVIOUS
  <2>1. r[x] < r[y] \/ r[y] < r[x]
    <3> HIDE DEF r
    <3> QED
      BY <1>3 DEF IsStrictOrder
  <2>2. r[x] \in Nat /\ r[y] \in Nat
    <3>1. r[x] \in 0..(N - 1) /\ r[y] \in 0..(N - 1)
      BY <1>2
    <3> HIDE DEF r, N
    <3> QED
      BY <1>1, <3>1
  <2> HIDE DEF r
  <2> QED
    BY <2>1, <2>2
<1> DEFINE T == {r[x] : x \in S}
<1>5. r \in [S -> T]
  OBVIOUS
<1>6. \A x \in S : r[x] \in 0..(N - 1)
  BY <1>2
<1>7. \A n \in 1..N : o[n] = CHOOSE b \in S : r[b] = n - 1
  BY DEF InOrder
<1>8. DOMAIN o = 1..N
  BY DEF InOrder
<1> HIDE DEF r, o
<1>9. T = 0..(N - 1)
  <2>1. IsFiniteSet(T) /\ Cardinality(T) = N
    BY <1>4, <1>5, SameCount
  <2>2. IsFiniteSet(0..(N - 1)) /\ Cardinality(0..(N - 1)) = N
    <3>1. 0 \in Int /\ N - 1 \in Int /\ (0 > N - 1 => N = 0) /\ (N - 1) - 0 + 1 = N
      BY <1>1
    <3> QED
      BY <3>1, FS_Interval
  <2>3. T \subseteq 0..(N - 1)
    BY <1>6
  <2> HIDE DEF T
  <2> QED
    BY <2>1, <2>2, <2>3, FS_Subset
<1>10. ASSUME NEW n \in 1..N PROVE o[n] \in S /\ r[o[n]] = n - 1
  <2>1. n - 1 \in 0..(N - 1)
    BY <1>1
  <2>2. \E b \in S : r[b] = n - 1
    BY <1>9, <2>1
  <2> QED
    BY <1>7, <2>2
<1>11. o \in [1..N -> S]
  <2> DEFINE e(n) == CHOOSE b \in S : Cardinality({c \in S : <<c, b>> \in R}) = n - 1
  <2>1. o = [n \in 1..N |-> e(n)]
    BY DEF o, InOrder
  <2> HIDE DEF e
  <2>2. \A n \in 1..N : e(n) \in S
    BY <1>10, <2>1
  <2> QED
    BY <2>1, <2>2
<1>12. ASSUME NEW x \in S PROVE \E n \in 1..N : o[n] = x
  <2>1. r[x] \in 0..(N - 1)
    BY <1>6
  <2>2. r[x] + 1 \in 1..N /\ (r[x] + 1) - 1 = r[x]
    BY <1>1, <2>1
  <2>3. o[r[x] + 1] \in S /\ r[o[r[x] + 1]] = r[x]
    BY <1>10, <2>2
  <2>4. o[r[x] + 1] = x
    BY <1>4, <2>3
  <2> QED
    BY <2>2, <2>4
<1>13. ASSUME NEW m \in 1..N, NEW n \in 1..N, m < n PROVE <<o[m], o[n]>> \in R /\ o[m] # o[n]
  <2>1. o[m] \in S /\ o[n] \in S /\ r[o[m]] = m - 1 /\ r[o[n]] = n - 1
    BY <1>10
  <2>2. o[m] # o[n]
    BY <1>13, <2>1
  <2>3. <<o[n], o[m]>> \notin R
    <3>1. ~ (n - 1 < m - 1)
      BY <1>13
    <3> QED
      BY <1>3, <2>1, <3>1
  <2> QED
    BY <2>1, <2>2, <2>3 DEF IsStrictOrder
<1> QED
  BY <1>11, <1>12, <1>13 DEF Sorts, o

(* What is built: atoms that put blobs at paths.                           *)
IsIr(x) ==
    /\ Len(x) \in Nat /\ DOMAIN x = 1..Len(x)
    /\ \A a \in DOMAIN x : /\ IsFiniteSet(DOMAIN x[a]) /\ DOMAIN x[a] \subseteq Nat
                           /\ \A p \in DOMAIN x[a] : x[a][p] \in Blobs \cup {0}

\* An IR uses finitely many blobs, each of them one there is.
LEMMA UsesAreFinite ==
    ASSUME NEW x, IsIr(x)
    PROVE  IsFiniteSet(Referenced(x)) /\ Referenced(x) \subseteq Blobs
PROOF
<1> DEFINE Of(a) == {[atom |-> a, path |-> p, blob |-> x[a][p]] : p \in DOMAIN x[a]}
           F == [a \in DOMAIN x |-> Of(a)]
           All == {F[a] : a \in DOMAIN x}
<1>1. IsFiniteSet(DOMAIN x)
  BY FS_Interval DEF IsIr
<1>2. ASSUME NEW a \in DOMAIN x PROVE IsFiniteSet(F[a])
  <2> DEFINE f == [p \in DOMAIN x[a] |-> [atom |-> a, path |-> p, blob |-> x[a][p]]]
             I == {f[p] : p \in DOMAIN x[a]}
  <2>1. IsFiniteSet(I)
    <3>1. DOMAIN f = DOMAIN x[a] /\ IsFiniteSet(DOMAIN x[a])
      BY DEF IsIr
    <3> HIDE DEF f
    <3> QED
      BY <3>1, ImageIsFinite
  <2>2. F[a] = I
    OBVIOUS
  <2> QED
    BY <2>1, <2>2
<1>3. IsFiniteSet(All)
  <2>1. DOMAIN F = DOMAIN x
    OBVIOUS
  <2> HIDE DEF F
  <2> QED
    BY <1>1, <2>1, ImageIsFinite
<1>4. UsesOf(x) = UNION All
  BY DEF UsesOf
<1>5. IsFiniteSet(UsesOf(x))
  <2>1. \A t \in All : IsFiniteSet(t)
    <3> HIDE DEF F
    <3> QED
      BY <1>2
  <2> HIDE DEF All
  <2> QED
    BY <1>3, <1>4, <2>1, FS_UNION
<1>6. \A u \in UsesOf(x) : u.blob \in Blobs \cup {0}
  BY DEF UsesOf, IsIr
<1> DEFINE U == UsesOf(x)
           g == [u \in U |-> u.blob]
           I == {g[u] : u \in U}
<1>7. IsFiniteSet(I)
  <2>1. DOMAIN g = U /\ IsFiniteSet(U)
    BY <1>5
  <2> HIDE DEF g, U
  <2> QED
    BY <2>1, ImageIsFinite
<1>8. Referenced(x) \subseteq I
  BY DEF Referenced
<1>9. IsFiniteSet(Referenced(x))
  <2> HIDE DEF I
  <2> QED
    BY <1>7, <1>8, FS_Subset
<1> QED
  BY <1>6, <1>9 DEF Referenced

\* A blob that is referred to has one first use.
LEMMA FirstUseIsAUse ==
    ASSUME NEW x, IsIr(x), NEW b \in Referenced(x)
    PROVE  FirstUse(x, b) \in UsesOf(x) /\ FirstUse(x, b).blob = b
PROOF
<1> DEFINE V == {v \in UsesOf(x) : v.blob = b}
           Atoms == {v.atom : v \in V}
<1>1. \A v \in UsesOf(x) : v.atom \in Nat /\ v.path \in Nat
  BY DEF UsesOf, IsIr
<1>2. V # {}
  BY DEF Referenced
<1>3. PICK a \in Atoms : \A n \in Atoms : a <= n
  <2>1. Atoms \subseteq Nat /\ Atoms # {}
    BY <1>1, <1>2
  <2> HIDE DEF Atoms
  <2> QED
    BY <2>1, LeastNumber
<1> DEFINE OfAtom == {v \in V : v.atom = a}
           PathsOf == {v.path : v \in OfAtom}
<1>4. PICK p \in PathsOf : \A n \in PathsOf : p <= n
  <2>1. PathsOf \subseteq Nat /\ PathsOf # {}
    BY <1>1, <1>3
  <2> HIDE DEF PathsOf
  <2> QED
    BY <2>1, LeastNumber
<1>5. PICK u \in V : u.atom = a /\ u.path = p
  BY <1>4
<1>6. ASSUME NEW v \in UsesOf(x), v.blob = b
      PROVE  v.atom > u.atom \/ (v.atom = u.atom /\ v.path >= u.path)
  <2>1. v \in V /\ v.atom \in Nat /\ v.path \in Nat /\ u.atom \in Nat /\ u.path \in Nat
    BY <1>1, <1>6
  <2>2. a <= v.atom
    BY <1>3, <2>1
  <2>3. v.atom = a => p <= v.path
    BY <1>4, <2>1
  <2> QED
    BY <1>5, <2>1, <2>2, <2>3
<1>7. u \in UsesOf(x) /\ u.blob = b
  OBVIOUS
<1> DEFINE First(w) == /\ w.blob = b
                       /\ \A v \in UsesOf(x) :
                             v.blob = b => v.atom > w.atom \/ (v.atom = w.atom /\ v.path >= w.path)
<1>8. \E w \in UsesOf(x) : First(w)
  BY <1>6, <1>7
<1>9. FirstUse(x, b) = CHOOSE w \in UsesOf(x) : First(w)
  BY DEF FirstUse
<1>10. FirstUse(x, b) \in UsesOf(x) /\ First(FirstUse(x, b))
  <2> HIDE DEF First
  <2> QED
    BY <1>8, <1>9
<1> QED
  BY <1>10

\* store_order lists what the IR refers to, each blob once.
LEMMA StoreOrderSorts ==
    ASSUME NEW x, IsIr(x)
    PROVE  Sorts(store_order(x), StoredBefore(x), Referenced(x))
PROOF
<1> DEFINE S == Referenced(x)
           R == StoredBefore(x)
           first == [b \in S |-> FirstUse(x, b)]
<1>1. IsFiniteSet(S)
  BY UsesAreFinite
<1>2. \A b, c \in S : <<b, c>> \in R <=>
         \/ first[b].path < first[c].path
         \/ first[b].path = first[c].path /\ first[b].atom < first[c].atom
  BY DEF StoredBefore
<1>3. \A b \in S : first[b] \in UsesOf(x) /\ first[b].blob = b
  BY FirstUseIsAUse
<1>4. \A u, v \in UsesOf(x) : u.atom = v.atom /\ u.path = v.path => u.blob = v.blob
  BY DEF UsesOf
<1>5. \A u \in UsesOf(x) : u.atom \in Nat /\ u.path \in Nat
  BY DEF UsesOf, IsIr
<1> HIDE DEF S, R, first
<1>6. \A b, c \in S : b # c => first[b].path # first[c].path \/ first[b].atom # first[c].atom
  BY <1>3, <1>4
<1>7. \A b \in S : first[b].atom \in Nat /\ first[b].path \in Nat
  BY <1>3, <1>5
<1>8. IsStrictOrder(R, S)
  <2>1. \A b \in S : <<b, b>> \notin R
    BY <1>2, <1>7
  <2>2. \A b, c, d \in S : <<b, c>> \in R /\ <<c, d>> \in R => <<b, d>> \in R
    BY <1>2, <1>7
  <2>3. \A b, c \in S : b # c => <<b, c>> \in R \/ <<c, b>> \in R
    BY <1>2, <1>6, <1>7
  <2> QED
    BY <2>1, <2>2, <2>3 DEF IsStrictOrder
<1>9. Sorts(InOrder(S, R), R, S)
  BY <1>1, <1>8, InOrderSorts
<1> QED
  BY <1>9 DEF store_order, S, R

-----------------------------------------------------------------------------
(* What lies between two places of a sequence.                             *)
\* A function on 1..N is a sequence of length N.
LEMMA FunctionIsSeq ==
    ASSUME NEW T, NEW N \in Nat, NEW s, s \in [1..N -> T]
    PROVE  s \in Seq(T) /\ Len(s) = N /\ DOMAIN s = 1..N
PROOF
<1>1. s \in Seq(T)
  BY SeqDef
<1>2. DOMAIN s = 1..Len(s) /\ Len(s) \in Nat /\ DOMAIN s = 1..N
  BY <1>1, LenProperties
<1> QED
  BY <1>1, <1>2

(* What lies between two places.                                           *)
Between(s, a, b) == SubSeq(s, a + 1, b)

\* What lies between two places is as long as they are apart.
LEMMA BetweenTyped ==
    ASSUME NEW X, NEW s \in Seq(X), NEW a \in 0..Len(s), NEW b \in a..Len(s)
    PROVE  Between(s, a, b) \in Seq(X) /\ Len(Between(s, a, b)) = b - a
PROOF
<1>1. \A i \in (a + 1)..b : s[i] \in X
  BY ElementOfSeq
<1>2. a + 1 \in Int /\ b \in Int
  OBVIOUS
<1>3. /\ SubSeq(s, a + 1, b) \in Seq(X)
      /\ Len(SubSeq(s, a + 1, b)) = IF a + 1 <= b THEN b - (a + 1) + 1 ELSE 0
  BY <1>1, <1>2, SubSeqProperties
<1>4. (IF a + 1 <= b THEN b - (a + 1) + 1 ELSE 0) = b - a
  OBVIOUS
<1> QED
  BY <1>3, <1>4 DEF Between

\* A part of a part is a part.
LEMMA BetweenWithin ==
    ASSUME NEW X, NEW s \in Seq(X), NEW a \in 0..Len(s), NEW b \in a..Len(s),
           NEW m \in 0..(b - a), NEW n \in m..(b - a)
    PROVE  Between(Between(s, a, b), m, n) = Between(s, a + m, a + n)
PROOF
<1>1. Len(s) \in Nat
  BY LenProperties
<1>2. CASE m = n
  <2>1. /\ n \in Int /\ m + 1 \in Int /\ n < m + 1
        /\ a + n \in Int /\ a + m + 1 \in Int /\ a + n < a + m + 1
    BY <1>1, <1>2
  <2> QED
    BY <2>1, SubSeqEmpty DEF Between
<1>3. CASE m # n
  <2> DEFINE i == a + 1
  <2>1. /\ i \in 1..Len(s) /\ b \in 1..Len(s)
        /\ m + 1 \in 1..(b - i + 1) /\ n \in 1..(b - i + 1)
        /\ i + (m + 1) - 1 = a + m + 1 /\ i + n - 1 = a + n
    BY <1>1, <1>3
  <2> HIDE DEF i
  <2>2. SubSeq(SubSeq(s, i, b), m + 1, n) = SubSeq(s, i + (m + 1) - 1, i + n - 1)
    BY <2>1, SubSeqOfSubSeq
  <2> QED
    BY <2>1, <2>2 DEF Between, i
<1> QED
  BY <1>2, <1>3

\* Two parts that meet join to one.
LEMMA BetweenJoins ==
    ASSUME NEW X, NEW s \in Seq(X), NEW a \in 0..Len(s), NEW b \in a..Len(s), NEW d \in b..Len(s)
    PROVE  Between(s, a, b) \o Between(s, b, d) = Between(s, a, d)
PROOF
<1>1. a + 1 \in 1..(Len(s) + 1) /\ b \in (a + 1) - 1..Len(s) /\ d \in b..Len(s)
  BY LenProperties
<1> QED
  BY <1>1, ConcatAdjacentSubSeq DEF Between

\* Between a place and itself there is nothing.
LEMMA BetweenNothing ==
    ASSUME NEW s, NEW a \in Nat
    PROVE  Between(s, a, a) = <<>>
PROOF
<1>1. a \in Int /\ a + 1 \in Int /\ a < a + 1
  OBVIOUS
<1> QED
  BY <1>1, SubSeqEmpty DEF Between

\* Between the first and the last place is everything.
LEMMA BetweenAll ==
    ASSUME NEW X, NEW s \in Seq(X)
    PROVE  Between(s, 0, Len(s)) = s
PROOF
<1>1. 0 + 1 = 1
  OBVIOUS
<1> QED
  BY <1>1, SubSeqFull DEF Between

(* As FlattenCuts.                                                         *)
LEMMA CutsJoin ==
    ASSUME NEW X, NEW all \in Seq(X), NEW K \in Nat, NEW c \in [0..K -> 0..Len(all)],
           \A k \in 1..K : c[k - 1] <= c[k],
           NEW p, p = [k \in 1..K |-> Between(all, c[k - 1], c[k])]
    PROVE  FlattenSeq(p) = Between(all, c[0], c[K])
BY FlattenCuts DEF Between

\* A cut that stays inside takes what lies between its places.
LEMMA CutIsBetween ==
    ASSUME NEW s, NEW a \in Nat, NEW len \in Nat, a + len <= Len(s)
    PROVE  Cut(s, a, len) = Between(s, a, a + len)
BY DEF Cut, Between

-----------------------------------------------------------------------------
(* Blobs and their bytes.                                                  *)
Cell == Nat \X Nat

\* A blob's content is Size cells.
LEMMA ContentTyped ==
    ASSUME NEW b \in Blobs
    PROVE  Content(b) \in Seq(Cell) /\ Len(Content(b)) = Size[b] /\ Size[b] \in Nat
PROOF
<1>1. Size[b] \in Nat /\ b \in Nat
  BY FramesConstants
<1> DEFINE L == Size[b]
<1>2. \A n \in 1..L : <<b, n>> \in Cell
  BY <1>1 DEF Cell
<1>3. Content(b) = [n \in 1..L |-> <<b, n>>]
  BY DEF Content
<1> HIDE DEF L
<1>4. Content(b) \in [1..L -> Cell]
  BY <1>2, <1>3
<1>5. L \in Nat
  BY <1>1 DEF L
<1> QED
  BY <1>4, <1>5, FunctionIsSeq DEF L

\* A blob's content is the content of no other blob.
LEMMA ContentTells ==
    ASSUME NEW b \in Blobs
    PROVE  BlobOf(Content(b)) = {b}
PROOF
<1> SUFFICES ASSUME NEW d \in Blobs, Content(d) = Content(b) PROVE d = b
  BY DEF BlobOf
<1>1. Size[d] = Size[b] /\ Size[b] \in Nat
  BY ContentTyped
<1>2. CASE Size[b] = 0
  BY <1>1, <1>2, FramesConstants
<1>3. CASE Size[b] # 0
  <2>1. 1 \in 1..Size[b] /\ 1 \in 1..Size[d]
    BY <1>1, <1>3
  <2>2. Content(b)[1] = <<b, 1>> /\ Content(d)[1] = <<d, 1>>
    BY <2>1 DEF Content
  <2> QED
    BY <2>2
<1> QED
  BY <1>2, <1>3

(* Blobs one behind the other.                                             *)
Sizes(o) == [n \in DOMAIN o |-> Size[o[n]]]
AllOf(o) == FlattenSeq([n \in DOMAIN o |-> Content(o[n])])

IsOrder(o) == Len(o) \in Nat /\ o \in [1..Len(o) -> Blobs]

\* Blobs laid out in an order: each lies where the lengths before it end.
LEMMA LaidOut ==
    ASSUME NEW o, IsOrder(o)
    PROVE  /\ Numbers(Sizes(o)) /\ Len(Sizes(o)) = Len(o)
           /\ \A n \in 1..Len(o) : Sizes(o)[n] = Size[o[n]]
           /\ AllOf(o) \in Seq(Cell) /\ Len(AllOf(o)) = Ends(Sizes(o))[Len(o)]
           /\ \A n \in 1..Len(o) :
                 Between(AllOf(o), Ends(Sizes(o))[n - 1], Ends(Sizes(o))[n]) = Content(o[n])
PROOF
<1> DEFINE N == Len(o)
           T == Seq(Cell)
           p == [n \in 1..N |-> Content(o[n])]
           lens == [n \in 1..N |-> Size[o[n]]]
           lens2 == [n \in 1..Len(p) |-> Len(p[n])]
<1>1. N \in Nat /\ DOMAIN o = 1..N /\ \A n \in 1..N : o[n] \in Blobs
  BY DEF IsOrder
<1>2. \A n \in 1..N : Content(o[n]) \in T /\ Len(Content(o[n])) = Size[o[n]] /\ Size[o[n]] \in Nat
  BY <1>1, ContentTyped
<1>3. Sizes(o) = lens /\ AllOf(o) = FlattenSeq(p)
  BY <1>1 DEF Sizes, AllOf
<1> HIDE DEF N, T
<1>4. p \in [1..N -> T] /\ lens \in [1..N -> Nat]
  BY <1>2
<1>5. p \in Seq(T) /\ Len(p) = N
  <2> HIDE DEF p
  <2> QED
    BY <1>1, <1>4, FunctionIsSeq
<1>6. Len(lens) = N
  <2> HIDE DEF lens
  <2> QED
    BY <1>1, <1>4, FunctionIsSeq
<1>7. lens2 = lens
  BY <1>2, <1>5
<1>8. \A n \in 1..N : p[n] = Content(o[n]) /\ lens[n] = Size[o[n]] /\ lens[n] \in Nat
  BY <1>2
<1>9. p \in Seq(Seq(Cell))
  BY <1>5 DEF T
<1> HIDE DEF p
<1>10. /\ FlattenSeq(p) \in Seq(Cell) /\ Len(FlattenSeq(p)) = Ends(lens2)[Len(p)]
       /\ \A n \in 1..Len(p) :
             SubSeq(FlattenSeq(p), Ends(lens2)[n - 1] + 1, Ends(lens2)[n]) = p[n]
  BY <1>9, FlattenWhole, ZenonT(40)
<1> HIDE DEF lens, lens2
<1>11. Numbers(Sizes(o)) /\ Len(Sizes(o)) = N /\ \A n \in 1..N : Sizes(o)[n] = Size[o[n]]
  BY <1>1, <1>3, <1>6, <1>8 DEF Numbers
<1>12. AllOf(o) \in Seq(Cell) /\ Len(AllOf(o)) = Ends(Sizes(o))[N]
  BY <1>3, <1>5, <1>7, <1>10
<1>13. \A n \in 1..N : Between(AllOf(o), Ends(Sizes(o))[n - 1], Ends(Sizes(o))[n]) = Content(o[n])
  BY <1>3, <1>5, <1>7, <1>8, <1>10 DEF Between
<1> QED
  BY <1>11, <1>12, <1>13 DEF N

(* The frames of blobs in an order.                                        *)
Covered(o, k) == IF k = 0 THEN 0 ELSE Plan(Sizes(o))[k].upto
FrameBytes(o, k) == Between(AllOf(o), Ends(Sizes(o))[Covered(o, k - 1)], Ends(Sizes(o))[Covered(o, k)])

\* The ends of an order's blobs, in the bytes of them all.
LEMMA EndsOfOrder ==
    ASSUME NEW o, IsOrder(o)
    PROVE  /\ Len(o) \in Nat /\ AllOf(o) \in Seq(Cell) /\ Len(AllOf(o)) = Ends(Sizes(o))[Len(o)]
           /\ Ends(Sizes(o)) \in [0..Len(o) -> 0..Len(AllOf(o))] /\ Ends(Sizes(o))[0] = 0
           /\ \A n \in 1..Len(o) : Ends(Sizes(o))[n] = Ends(Sizes(o))[n - 1] + Sizes(o)[n]
           /\ \A n \in 1..Len(o) : Sizes(o)[n] \in Nat
           /\ \A m, n \in 0..Len(o) : m <= n => Ends(Sizes(o))[m] <= Ends(Sizes(o))[n]
PROOF
<1> DEFINE N == Len(o)
           E == Ends(Sizes(o))
           L == Len(AllOf(o))
<1>1. /\ Numbers(Sizes(o)) /\ Len(Sizes(o)) = N /\ N \in Nat
      /\ AllOf(o) \in Seq(Cell) /\ L = E[N]
  BY LaidOut DEF IsOrder
<1>2. /\ E \in [0..N -> Nat] /\ E[0] = 0
      /\ \A n \in 1..N : E[n] = E[n - 1] + Sizes(o)[n]
      /\ \A n \in 1..N : Sizes(o)[n] \in Nat
      /\ \A m, n \in 0..N : m <= n => E[m] <= E[n]
  BY <1>1, EndsGrow, EndsAscend DEF Numbers
<1> HIDE DEF N, E, L
<1>3. \A n \in 0..N : E[n] \in 0..L
  <2>1. \A n \in 0..N : n <= N /\ N \in 0..N
    BY <1>1
  <2> QED
    BY <1>1, <1>2, <2>1
<1> QED
  BY <1>1, <1>2, <1>3 DEF N, E, L

\* The plan of an order's lengths, frame by frame.
LEMMA PlanFits ==
    ASSUME NEW o, IsOrder(o)
    PROVE  /\ Plan(Sizes(o)) \in Seq(PlanEntry)
           /\ Len(Plan(Sizes(o))) \in Nat /\ DOMAIN Plan(Sizes(o)) = 1..Len(Plan(Sizes(o)))
           /\ \A k \in 0..Len(Plan(Sizes(o))) : Covered(o, k) \in 0..Len(o)
           /\ Covered(o, 0) = 0 /\ Covered(o, Len(Plan(Sizes(o)))) = Len(o)
           /\ \A k \in 1..Len(Plan(Sizes(o))) :
                 /\ Covered(o, k - 1) < Covered(o, k)
                 /\ Plan(Sizes(o))[k].from = Covered(o, k - 1) + 1
                 /\ Plan(Sizes(o))[k].upto = Covered(o, k)
                 /\ Plan(Sizes(o))[k].len \in Nat
                 /\ Ends(Sizes(o))[Covered(o, k)] = Ends(Sizes(o))[Covered(o, k - 1)] + Plan(Sizes(o))[k].len
           /\ \A n \in 1..Len(o) : \E k \in 1..Len(Plan(Sizes(o))) :
                 Plan(Sizes(o))[k].from <= n /\ n <= Plan(Sizes(o))[k].upto
PROOF
<1> DEFINE N == Len(o)
           E == Ends(Sizes(o))
           P == Plan(Sizes(o))
           K == Len(P)
<1>1. N \in Nat /\ PlansUpTo(P, N, E)
  BY LaidOut, PlanIsRuns DEF IsOrder
<1>2. P \in Seq(PlanEntry) /\ K \in Nat /\ DOMAIN P = 1..K
  BY <1>1, LenProperties DEF PlansUpTo
<1>3. \A k \in 1..K : P[k].len \in Nat /\ P[k].from \in Nat /\ P[k].upto \in Nat
  <2>1. \A e \in PlanEntry : e.len \in Nat /\ e.from \in Nat /\ e.upto \in Nat
    BY DEF PlanEntry
  <2> QED
    BY <1>2, <2>1, ElementOfSeq
<1>4. \A k : Covered(o, k) = IF k = 0 THEN 0 ELSE P[k].upto
  BY DEF Covered
<1>5. \A k \in 1..K : IsRunOf(P, k, N, E)
  BY <1>1 DEF PlansUpTo
<1>6. K = 0 <=> P = <<>>
  BY <1>2, EmptySeq
<1>7. N = 0 <=> K = 0
  BY <1>1, <1>6 DEF PlansUpTo
<1>8. K # 0 => P[K].upto = N
  BY <1>1, <1>6 DEF PlansUpTo
<1>9. \A n \in 1..N : \E k \in 1..K : P[k].from <= n /\ n <= P[k].upto
  BY <1>1 DEF PlansUpTo
<1> HIDE DEF N, E, P
<1>10. \A k \in 0..K : Covered(o, k) \in 0..N
  <2>1. ASSUME NEW k \in 0..K, k # 0 PROVE P[k].upto \in 0..N
    <3>1. k \in 1..K
      BY <1>2, <2>1
    <3>2. P[k].upto <= N /\ P[k].upto \in Nat
      BY <1>3, <1>5, <3>1 DEF IsRunOf
    <3> QED
      BY <1>1, <3>2
  <2> QED
    BY <1>1, <1>4, <2>1
<1>11. Covered(o, 0) = 0 /\ Covered(o, K) = N
  BY <1>4, <1>7, <1>8
<1>12. ASSUME NEW k \in 1..K
       PROVE  /\ Covered(o, k - 1) < Covered(o, k)
              /\ P[k].from = Covered(o, k - 1) + 1
              /\ P[k].upto = Covered(o, k)
              /\ P[k].len \in Nat
              /\ E[Covered(o, k)] = E[Covered(o, k - 1)] + P[k].len
  <2>1. IsRunOf(P, k, N, E) /\ P[k].len \in Nat
    BY <1>3, <1>5
  <2>2. P[k].upto = Covered(o, k)
    BY <1>4
  <2>3. P[k].from = Covered(o, k - 1) + 1
    <3>1. CASE k = 1
      BY <2>1, <3>1, <1>4 DEF IsRunOf
    <3>2. CASE k # 1
      <4>1. k - 1 # 0
        BY <3>2
      <4> QED
        BY <2>1, <3>2, <4>1, <1>4 DEF IsRunOf
    <3> QED
      BY <3>1, <3>2
  <2>4. k - 1 \in 0..K
    BY <1>2
  <2>5. Covered(o, k - 1) \in Nat /\ Covered(o, k) \in Nat
    BY <1>1, <1>2, <1>10, <2>4
  <2>6. P[k].from - 1 = Covered(o, k - 1) /\ P[k].from <= P[k].upto
    BY <2>1, <2>3, <2>5 DEF IsRunOf
  <2>7. E[P[k].upto] = E[P[k].from - 1] + P[k].len
    BY <2>1 DEF IsRunOf
  <2>8. Covered(o, k - 1) < Covered(o, k)
    BY <2>2, <2>3, <2>5, <2>6
  <2> QED
    BY <2>1, <2>2, <2>3, <2>6, <2>7, <2>8
<1> QED
  BY <1>2, <1>9, <1>10, <1>11, <1>12 DEF N, E, P, K

\* The frames' bytes are what the plan says, and together they are all bytes.
LEMMA FramesAreCut ==
    ASSUME NEW o, IsOrder(o)
    PROVE  /\ \A k \in 1..Len(Plan(Sizes(o))) :
                 FrameBytes(o, k) \in Seq(Cell) /\ Len(FrameBytes(o, k)) = Plan(Sizes(o))[k].len
           /\ FlattenSeq([k \in 1..Len(Plan(Sizes(o))) |-> FrameBytes(o, k)]) = AllOf(o)
PROOF
<1> DEFINE N == Len(o)
           E == Ends(Sizes(o))
           P == Plan(Sizes(o))
           K == Len(P)
           A == AllOf(o)
           L == Len(A)
           c == [k \in 0..K |-> E[Covered(o, k)]]
           p == [k \in 1..K |-> Between(A, c[k - 1], c[k])]
<1>1. N \in Nat /\ A \in Seq(Cell) /\ L = E[N] /\ E \in [0..N -> 0..L] /\ E[0] = 0
  BY EndsOfOrder
<1>2. L \in Nat
  BY <1>1, LenProperties
<1>3. /\ K \in Nat /\ \A k \in 0..K : Covered(o, k) \in 0..N
      /\ Covered(o, 0) = 0 /\ Covered(o, K) = N
      /\ \A k \in 1..K : P[k].len \in Nat /\ E[Covered(o, k)] = E[Covered(o, k - 1)] + P[k].len
  BY PlanFits
<1> HIDE DEF N, E, P, K, A, L
<1>4. c \in [0..K -> 0..L]
  BY <1>1, <1>3
<1>5. \A k \in 1..K : k - 1 \in 0..K /\ k \in 0..K
  BY <1>3
<1>6. \A k \in 1..K : c[k - 1] = E[Covered(o, k - 1)] /\ c[k] = E[Covered(o, k)]
  BY <1>5
<1>7. \A k \in 1..K : c[k] = c[k - 1] + P[k].len /\ P[k].len \in Nat
  BY <1>3, <1>6
<1>8. c[0] = 0 /\ c[K] = L
  BY <1>1, <1>3
<1>9. \A k \in 1..K : FrameBytes(o, k) = Between(A, c[k - 1], c[k])
  BY <1>6 DEF FrameBytes, A, E
<1> HIDE DEF c
<1>10. \A k \in 1..K : c[k - 1] \in 0..L /\ c[k] \in 0..L
  BY <1>4, <1>5
<1>11. \A k \in 1..K : c[k - 1] <= c[k] /\ c[k] - c[k - 1] = P[k].len
  BY <1>2, <1>7, <1>10
<1>12. ASSUME NEW k \in 1..K PROVE FrameBytes(o, k) \in Seq(Cell) /\ Len(FrameBytes(o, k)) = P[k].len
  <2> DEFINE a == c[k - 1]
             b == c[k]
  <2>1. a \in 0..L /\ b \in a..L /\ b - a = P[k].len
    BY <1>2, <1>10, <1>11
  <2>2. FrameBytes(o, k) = Between(A, a, b)
    BY <1>9
  <2> HIDE DEF a, b
  <2> QED
    BY <1>1, <2>1, <2>2, BetweenTyped, ZenonT(40) DEF L
<1>13. FlattenSeq(p) = A
  <2>1. \A k \in 1..K : c[k - 1] <= c[k]
    BY <1>11
  <2>2. c \in [0..K -> 0..Len(A)]
    BY <1>4 DEF L
  <2>3. FlattenSeq(p) = Between(A, c[0], c[K])
    <3> DEFINE q == p
    <3>1. q = [k \in 1..K |-> Between(A, c[k - 1], c[k])]
      OBVIOUS
    <3> HIDE DEF q
    <3>2. FlattenSeq(q) = Between(A, c[0], c[K])
      BY <1>1, <1>3, <2>1, <2>2, <3>1, CutsJoin
    <3> QED
      BY <3>2 DEF q
  <2> QED
    BY <1>1, <1>8, <2>3, BetweenAll DEF L
<1>14. [k \in 1..K |-> FrameBytes(o, k)] = p
  BY <1>9
<1> QED
  BY <1>12, <1>13, <1>14 DEF K, P, A

\* A blob cut out of its frame's bytes, at its place there, is itself.
LEMMA PieceOfFrame ==
    ASSUME NEW o, IsOrder(o), NEW k \in 1..Len(Plan(Sizes(o))), NEW n \in Nat,
           Plan(Sizes(o))[k].from <= n, n <= Plan(Sizes(o))[k].upto
    PROVE  /\ n \in 1..Len(o)
           /\ Cut(FrameBytes(o, k), Offset(Sizes(o), n) - Offset(Sizes(o), Plan(Sizes(o))[k].from),
                  Sizes(o)[n]) = Content(o[n])
PROOF
<1> DEFINE N == Len(o)
           E == Ends(Sizes(o))
           P == Plan(Sizes(o))
           K == Len(P)
           A == AllOf(o)
           L == Len(A)
           u == Covered(o, k - 1)
           v == Covered(o, k)
           len == Sizes(o)[n]
<1>1. k - 1 \in 0..K /\ k \in 0..K /\ K \in Nat
  BY PlanFits
<1>2. u \in 0..N /\ v \in 0..N /\ P[k].from = u + 1 /\ P[k].upto = v /\ N \in Nat
  BY <1>1, PlanFits, EndsOfOrder
<1>3. FrameBytes(o, k) = Between(A, E[u], E[v])
  BY DEF FrameBytes
<1>4. /\ A \in Seq(Cell) /\ L = E[N] /\ E \in [0..N -> 0..L]
      /\ \A i \in 1..N : E[i] = E[i - 1] + Sizes(o)[i] /\ Sizes(o)[i] \in Nat
      /\ \A i, j \in 0..N : i <= j => E[i] <= E[j]
  BY EndsOfOrder
<1>5. L \in Nat
  BY <1>4, LenProperties
<1>6. Offset(Sizes(o), n) = E[n - 1] /\ Offset(Sizes(o), P[k].from) = E[P[k].from - 1]
  BY DEF Offset
<1>7. \A i \in 1..N : Between(A, E[i - 1], E[i]) = Content(o[i])
  BY LaidOut
<1>8. \A i \in 1..N : Sizes(o)[i] \in Nat
  BY <1>4
<1>9. u + 1 <= n /\ n <= v
  BY <1>2
<1> HIDE DEF N, E, P, K, A, L, u, v, len
<1>10. n \in 1..N /\ n \in 0..N /\ n - 1 \in 0..N /\ u <= n - 1 /\ P[k].from - 1 = u
  BY <1>2, <1>9
<1>11. E[n] = E[n - 1] + len /\ len \in Nat
  BY <1>4, <1>8, <1>10 DEF len
<1>12. E[u] <= E[n - 1] /\ E[n] <= E[v]
  BY <1>2, <1>4, <1>9, <1>10
<1>13. E[u] \in 0..L /\ E[v] \in 0..L /\ E[n] \in 0..L /\ E[n - 1] \in 0..L
  BY <1>2, <1>4, <1>10
<1> DEFINE a == E[u]
           b == E[v]
           i == E[n - 1] - E[u]
           j == E[n] - E[u]
<1>14. /\ a \in 0..L /\ b \in a..L /\ i \in 0..(b - a) /\ j \in i..(b - a)
       /\ a + i = E[n - 1] /\ a + j = E[n] /\ i + len = j /\ i \in Nat /\ j <= b - a
  <2> DEFINE x == E[n - 1]
             y == E[n]
  <2>1. y = x + len /\ len \in Nat /\ a <= x /\ y <= b
    BY <1>11, <1>12
  <2>2. a \in 0..L /\ b \in 0..L /\ y \in 0..L /\ x \in 0..L
    BY <1>13
  <2>3. i = x - a /\ j = y - a
    OBVIOUS
  <2> HIDE DEF a, b, x, y, i, j
  <2>4. x \in Nat /\ y \in Nat /\ a \in Nat /\ b \in Nat /\ x <= y /\ b <= L
    BY <1>5, <2>1, <2>2
  <2>5. a \in 0..L /\ b \in a..L /\ i \in 0..(b - a) /\ j \in i..(b - a)
    BY <1>5, <2>1, <2>3, <2>4
  <2>6. a + i = x /\ a + j = y /\ i + len = j /\ i \in Nat /\ j <= b - a
    BY <2>1, <2>3, <2>4
  <2> QED
    BY <2>5, <2>6 DEF x, y
<1> HIDE DEF a, b, i, j
<1>15. Len(Between(A, a, b)) = b - a
  BY <1>4, <1>14, BetweenTyped DEF L
<1>16. Cut(Between(A, a, b), i, len) = Between(Between(A, a, b), i, j)
  <2>1. i + len <= Len(Between(A, a, b))
    BY <1>14, <1>15
  <2> QED
    BY <1>11, <1>14, <2>1, CutIsBetween
<1>17. Between(Between(A, a, b), i, j) = Between(A, E[n - 1], E[n])
  <2>1. Between(Between(A, a, b), i, j) = Between(A, a + i, a + j)
    BY <1>4, <1>14, BetweenWithin DEF L
  <2> QED
    BY <1>14, <2>1
<1>18. FrameBytes(o, k) = Between(A, a, b) /\ Offset(Sizes(o), n) - Offset(Sizes(o), P[k].from) = i
  BY <1>3, <1>6, <1>10 DEF a, b, i
<1> QED
  BY <1>7, <1>10, <1>16, <1>17, <1>18 DEF N, P, len

(* A frame that gives these bytes, and nothing else.                       *)
IsFrame(f, raw) == f.gives = {raw} /\ f.rawLen = Len(raw) /\ BoundsHold(f)

FrameSet == [codec : {"stored", "deflate"}, rawLen : Nat, storedLen : Nat, gives : SUBSET Seq(Cell)]

\* Such a frame inflates, and to its bytes.
LEMMA FrameGives ==
    ASSUME NEW f, NEW raw, IsFrame(f, raw)
    PROVE  Inflates(f) /\ Inflated(f) = {raw} /\ Raw(f) = raw
BY DEF IsFrame, Inflates, Inflated, Raw

\* Compressed or stored as it is, a frame gives its bytes.
LEMMA CompressedGives ==
    ASSUME NEW X, NEW raw \in Seq(X), NEW shrinks, shrinks \in BOOLEAN, shrinks => Len(raw) > 0
    PROVE  /\ IsFrame(Compressed(raw, shrinks), raw)
           /\ Compressed(raw, shrinks).rawLen = Len(raw)
           /\ X = Cell => Compressed(raw, shrinks) \in FrameSet
PROOF
<1> DEFINE L == Len(raw)
<1>1. L \in Nat
  BY LenProperties
<1>2. Stored(raw) = [codec |-> "stored", rawLen |-> L, storedLen |-> L, gives |-> {raw}]
  BY DEF Stored
<1>3. CASE shrinks
  <2>1. Compressed(raw, shrinks) = [codec |-> "deflate", rawLen |-> L, storedLen |-> L - 1, gives |-> {raw}]
    <3> HIDE DEF L
    <3>1. Compressed(raw, shrinks) = [Stored(raw) EXCEPT !.codec = "deflate", !.storedLen = L - 1]
      BY <1>3 DEF Compressed, L
    <3> DEFINE g == {raw}
               t == [Stored(raw) EXCEPT !.codec = "deflate"]
    <3>2. Stored(raw) = [codec |-> "stored", rawLen |-> L, storedLen |-> L, gives |-> g]
      BY <1>2
    <3>3. Compressed(raw, shrinks) = [t EXCEPT !.storedLen = L - 1]
      BY <3>1
    <3> HIDE DEF g
    <3>4. t = [codec |-> "deflate", rawLen |-> L, storedLen |-> L, gives |-> g]
      BY <3>2
    <3> HIDE DEF t
    <3>5. [t EXCEPT !.storedLen = L - 1] = [codec |-> "deflate", rawLen |-> L, storedLen |-> L - 1, gives |-> g]
      BY <3>4
    <3> QED
      BY <3>3, <3>5 DEF g
  <2>2. L <= 1032 * (L - 1) + 64 /\ L - 1 \in Nat
    <3>1. L > 0
      BY <1>3
    <3> HIDE DEF L
    <3> QED
      BY <1>1, <3>1
  <2> HIDE DEF L
  <2>3. BoundsHold(Compressed(raw, shrinks))
    BY <2>1, <2>2 DEF BoundsHold
  <2> QED
    BY <1>1, <2>1, <2>2, <2>3 DEF IsFrame, FrameSet, L
<1>4. CASE ~shrinks
  <2>1. Compressed(raw, shrinks) = [codec |-> "stored", rawLen |-> L, storedLen |-> L, gives |-> {raw}]
    BY <1>2, <1>4 DEF Compressed
  <2> HIDE DEF L
  <2>2. BoundsHold(Compressed(raw, shrinks))
    BY <2>1 DEF BoundsHold
  <2> QED
    BY <1>1, <2>1, <2>2 DEF IsFrame, FrameSet, L
<1> QED
  BY <1>3, <1>4

\* A frame stored as it is gives its bytes.
LEMMA StoredGives ==
    ASSUME NEW X, NEW raw \in Seq(X)
    PROVE  IsFrame(Stored(raw), raw) /\ (X = Cell => Stored(raw) \in FrameSet)
PROOF
<1>1. IsFrame(Compressed(raw, FALSE), raw) /\ (X = Cell => Compressed(raw, FALSE) \in FrameSet)
  BY CompressedGives
<1> QED
  BY <1>1 DEF Compressed

\* compress_frame makes a frame that gives its bytes.
LEMMA compressGives ==
    ASSUME NEW raw \in Seq(Cell)
    PROVE  IsFrame(compress_frame(raw), raw) /\ compress_frame(raw) \in FrameSet
PROOF
<1> DEFINE shrinks == \E n \in DOMAIN raw : raw[n][1] \in Compressible
<1>1. shrinks \in BOOLEAN
  OBVIOUS
<1>2. shrinks => Len(raw) > 0
  <2>1. DOMAIN raw = 1..Len(raw) /\ Len(raw) \in Nat
    BY LenProperties
  <2>2. ASSUME NEW n \in DOMAIN raw PROVE Len(raw) > 0
    BY <2>1
  <2> QED
    BY <2>2
<1>3. compress_frame(raw) = Compressed(raw, shrinks)
  BY DEF compress_frame
<1> HIDE DEF shrinks
<1> QED
  BY <1>1, <1>2, <1>3, CompressedGives

-----------------------------------------------------------------------------
(* The metadata's frames.                                                  *)
LEMMA Times ==
    ASSUME NEW C \in Nat, NEW i \in Nat, NEW j \in Nat, i <= j
    PROVE  i * C <= j * C /\ i * C \in Nat /\ j * C \in Nat
OBVIOUS

\* A length rounded up to chunks: the last one holds at least one byte.
LEMMA RoundedUp ==
    ASSUME NEW L \in Nat, NEW C \in Nat, L > 0, C > 0
    PROVE  /\ (L + C - 1) \div C \in Nat \ {0}
           /\ L <= ((L + C - 1) \div C) * C
           /\ (((L + C - 1) \div C) - 1) * C < L
OBVIOUS

\* Metadata cut into chunks fits check_meta_frame_plan, inflates, and is itself again.
LEMMA ChunksGive ==
    ASSUME NEW X, NEW m \in Seq(X), Len(m) > 0
    PROVE  /\ MetaFramesFit(MetaFrames(m))
           /\ \A k \in DOMAIN MetaFrames(m) : Inflates(MetaFrames(m)[k])
           /\ RawOf(MetaFrames(m)) = m
PROOF
<1> DEFINE L == Len(m)
           C == FrameCap
           K == (L + C - 1) \div C
           End(k) == IF k * C < L THEN k * C ELSE L
           e(k) == Between(m, (k - 1) * C, End(k))
           c == [k \in 0..K |-> End(k)]
           M == MetaFrames(m)
<1>1. L \in Nat /\ L > 0 /\ C \in Nat /\ C > 0
  BY LenProperties, FramesConstants
<1>2. K \in Nat \ {0} /\ L <= K * C /\ (K - 1) * C < L
  <2> HIDE DEF L, C
  <2> QED
    BY <1>1, RoundedUp
<1>3. Chunks(m) = [k \in 1..K |-> e(k)]
  BY DEF Chunks, Between
<1> HIDE DEF L, C, K
<1>4. ASSUME NEW k \in 1..K
      PROVE  /\ k - 1 \in Nat /\ k \in Nat /\ (k - 1) * C < L /\ k * C = (k - 1) * C + C
             /\ (k - 1) * C \in Nat /\ k * C \in Nat
             /\ k # K => k * C < L
  <2>1. k - 1 \in Nat /\ k \in Nat /\ K - 1 \in Nat /\ k - 1 <= K - 1 /\ (k # K => k <= K - 1)
    BY <1>2
  <2>2. (k - 1) * C <= (K - 1) * C /\ (k - 1) * C \in Nat /\ (K - 1) * C \in Nat
    BY <1>1, <2>1, Times
  <2>3. k # K => k * C <= (K - 1) * C
    BY <1>1, <2>1, Times
  <2>4. k * C = (k - 1) * C + C
    BY <1>1, <2>1
  <2>5. (k - 1) * C < L /\ k * C \in Nat
    BY <1>1, <1>2, <2>2, <2>4
  <2>6. k # K => k * C < L
    BY <1>1, <1>2, <2>2, <2>3, <2>5
  <2> QED
    BY <2>1, <2>2, <2>4, <2>5, <2>6
<1>5. End(0) = 0 /\ End(K) = L
  <2>1. 0 * C = 0 /\ ~ (K * C < L)
    BY <1>1, <1>2, Times
  <2> QED
    BY <1>1, <2>1
<1>6. ASSUME NEW k \in 1..K
      PROVE  /\ End(k - 1) = (k - 1) * C /\ End(k - 1) \in 0..L /\ End(k) \in 0..L
             /\ End(k - 1) <= End(k)
             /\ IF k = K THEN End(k) - End(k - 1) <= C ELSE End(k) - End(k - 1) = C
             /\ End(k) - End(k - 1) > 0
  <2> DEFINE x == (k - 1) * C
             y == k * C
  <2>1. x \in Nat /\ y \in Nat /\ x < L /\ y = x + C /\ (k # K => y < L)
    BY <1>4
  <2>2. k = K => End(k) = L
    BY <1>5
  <2>3. End(k - 1) = IF x < L THEN x ELSE L
    OBVIOUS
  <2>4. End(k) = IF y < L THEN y ELSE L
    OBVIOUS
  <2> HIDE DEF x, y, End
  <2>5. End(k - 1) = x
    BY <2>1, <2>3
  <2>6. x \in 0..L /\ End(k) \in 0..L /\ x <= End(k) /\ End(k) - x > 0
    BY <1>1, <2>1, <2>4
  <2>7. IF k = K THEN End(k) - x <= C ELSE End(k) - x = C
    BY <1>1, <2>1, <2>4
  <2> QED
    BY <2>5, <2>6, <2>7 DEF x
<1>7. \A k \in 1..K : e(k) = Between(m, End(k - 1), End(k))
  <2> HIDE DEF End
  <2> QED
    BY <1>6
<1> HIDE DEF e, End
<1>8. ASSUME NEW k \in 1..K PROVE e(k) \in Seq(X) /\ Len(e(k)) = End(k) - End(k - 1)
  <2> DEFINE a == End(k - 1)
             b == End(k)
  <2>1. a \in 0..L /\ b \in a..L
    BY <1>1, <1>6
  <2>2. e(k) = Between(m, a, b)
    BY <1>7
  <2> HIDE DEF a, b
  <2>3. e(k) \in Seq(X) /\ Len(e(k)) = b - a
    BY <2>1, <2>2, BetweenTyped DEF L
  <2> QED
    BY <2>3 DEF a, b
<1>9. DOMAIN M = 1..K /\ \A k \in 1..K : M[k] = Compressed(e(k), Len(e(k)) > 1)
  BY <1>3 DEF MetaFrames
<1>10. M = [k \in 1..K |-> Compressed(e(k), Len(e(k)) > 1)]
  BY <1>3 DEF MetaFrames
<1>11. Len(M) = K
  <2> DEFINE Z == {M[k] : k \in 1..K}
  <2>1. M \in [1..K -> Z]
    <3> HIDE DEF M
    <3> QED
      BY <1>10
  <2> HIDE DEF M, Z
  <2> QED
    BY <1>2, <2>1, FunctionIsSeq
<1> HIDE DEF M
<1>12. ASSUME NEW k \in 1..K
       PROVE  IsFrame(M[k], e(k)) /\ M[k].rawLen = End(k) - End(k - 1)
  <2> DEFINE s == Len(e(k)) > 1
  <2>1. s \in BOOLEAN /\ (s => Len(e(k)) > 0) /\ e(k) \in Seq(X) /\ M[k] = Compressed(e(k), s)
    BY <1>6, <1>8, <1>9
  <2> HIDE DEF s
  <2>2. IsFrame(Compressed(e(k), s), e(k))
    BY <2>1, CompressedGives
  <2> QED
    BY <1>8, <2>1, <2>2 DEF IsFrame
<1>13. MetaFramesFit(M)
  BY <1>6, <1>9, <1>11, <1>12 DEF MetaFramesFit, C
<1>14. \A k \in DOMAIN M : Inflates(M[k]) /\ Raw(M[k]) = e(k)
  BY <1>9, <1>12, FrameGives
<1> DEFINE p == [k \in 1..K |-> Between(m, c[k - 1], c[k])]
<1>15. [k \in DOMAIN M |-> Raw(M[k])] = p
  <2>1. \A k \in 1..K : c[k - 1] = End(k - 1) /\ c[k] = End(k)
    BY <1>2
  <2> HIDE DEF c
  <2> QED
    BY <1>7, <1>9, <1>14, <2>1
<1>16. RawOf(M) = FlattenSeq(p)
  BY <1>15 DEF RawOf
<1>17. FlattenSeq(p) = Between(m, c[0], c[K])
  <2>1. \A k \in 1..K : c[k - 1] = End(k - 1) /\ c[k] = End(k)
    BY <1>2
  <2>2. \A k \in 1..K : c[k - 1] <= c[k]
    BY <1>6, <2>1
  <2>3. \A k \in 0..K : End(k) \in 0..L
    <3>1. \A k \in 0..K : k = 0 \/ k \in 1..K
      BY <1>2
    <3> QED
      BY <1>1, <1>5, <1>6, <3>1
  <2>4. c \in [0..K -> 0..Len(m)]
    BY <2>3 DEF L
  <2> DEFINE q == p
  <2>5. q = [k \in 1..K |-> Between(m, c[k - 1], c[k])]
    OBVIOUS
  <2> HIDE DEF c, q
  <2>6. FlattenSeq(q) = Between(m, c[0], c[K])
    BY <1>2, <2>2, <2>4, <2>5, CutsJoin
  <2> QED
    BY <2>6 DEF q
<1>18. c[0] = 0 /\ c[K] = L
  BY <1>2, <1>5
<1>19. RawOf(M) = m
  BY <1>16, <1>17, <1>18, BetweenAll DEF L
<1> QED
  BY <1>13, <1>14, <1>19 DEF M

-----------------------------------------------------------------------------
(* An artifact that nothing has happened to reads.                         *)
\* Metadata says which IR it is of.
LEMMA MetadataHolds ==
    ASSUME NEW x, Len(x) \in Nat
    PROVE  /\ Metadata(x) \in Seq({x} \X Nat) /\ Len(Metadata(x)) > 0
           /\ IrIn(Metadata(x)) = x
PROOF
<1> DEFINE N == Len(x) + 1
           T == {x} \X Nat
           m == Metadata(x)
<1>1. m = [n \in 1..N |-> <<x, n>>]
  BY DEF Metadata
<1>2. N \in Nat /\ 1 \in 1..N /\ N > 0
  OBVIOUS
<1>3. m \in [1..N -> T]
  BY <1>1
<1> HIDE DEF N, T, m
<1>4. m \in Seq(T) /\ Len(m) = N
  BY <1>2, <1>3, FunctionIsSeq
<1>5. m[1] = <<x, 1>>
  BY <1>1, <1>2
<1>6. Head(m) = m[1]
  OBVIOUS
<1>7. IrIn(m) = x
  BY <1>5, <1>6 DEF IrIn
<1> QED
  BY <1>2, <1>4, <1>7 DEF T, m

\* The table lists the order's ids and lengths.
LEMMA TableHolds ==
    ASSUME NEW o, IsOrder(o), NEW table, table = TableOf(o, Sizes(o))
    PROVE  /\ Ids(table) = o /\ Lens(table) = Sizes(o)
           /\ Len(table) = Len(o) /\ DOMAIN table = 1..Len(o)
           /\ \A n \in 1..Len(o) : table[n].id = o[n] /\ table[n].len = Sizes(o)[n]
PROOF
<1> DEFINE N == Len(o)
           s == Sizes(o)
           Z == {[id |-> o[n], len |-> s[n]] : n \in 1..N}
<1>1. N \in Nat /\ o \in [1..N -> Blobs] /\ DOMAIN o = 1..N
  BY DEF IsOrder
<1>2. s = [n \in 1..N |-> Size[o[n]]]
  BY <1>1 DEF Sizes
<1> HIDE DEF N, s
<1>3. table = [n \in 1..N |-> [id |-> o[n], len |-> s[n]]]
  BY <1>1 DEF TableOf, s
<1>4. Len(table) = N /\ DOMAIN table = 1..N
  <2>1. table \in [1..N -> Z]
    BY <1>3
  <2> HIDE DEF Z
  <2> QED
    BY <1>1, <2>1, FunctionIsSeq
<1>5. \A n \in 1..N : table[n].id = o[n] /\ table[n].len = s[n]
  BY <1>3
<1>6. Ids(table) = o
  <2>1. Ids(table) = [n \in 1..N |-> o[n]]
    BY <1>4, <1>5 DEF Ids
  <2> QED
    BY <1>1, <2>1
<1>7. Lens(table) = s
  <2>1. Lens(table) = [n \in 1..N |-> s[n]]
    BY <1>4, <1>5 DEF Lens
  <2> QED
    BY <1>2, <2>1
<1> QED
  BY <1>4, <1>5, <1>6, <1>7 DEF N, s

-----------------------------------------------------------------------------
(* An artifact of contract 0.3.0 as it was written.                        *)
IsSound3(art, x, o) ==
    /\ art.contract = 3
    /\ art.meta = MetaFrames(Metadata(x)) /\ art.table = TableOf(o, Sizes(o))
    /\ art.digest = Digest(Metadata(x), TableOf(o, Sizes(o)), AllOf(o))
    /\ ~art.trailing
    /\ art.nframes = Len(Plan(Sizes(o))) /\ Len(art.frames) = Len(Plan(Sizes(o)))
    /\ DOMAIN art.frames = 1..Len(Plan(Sizes(o)))
    /\ \A k \in 1..Len(Plan(Sizes(o))) : IsFrame(art.frames[k], FrameBytes(o, k))

\* Every blob cut out of its frame is itself.
LEMMA PiecesAre ==
    ASSUME NEW x, NEW o, IsOrder(o), NEW art, IsSound3(art, x, o), NEW n \in 1..Len(o)
    PROVE  PieceOf(art, n) = Content(o[n])
PROOF
<1> DEFINE s == Sizes(o)
           P == Plan(s)
           k == CHOOSE i \in DOMAIN P : n \in P[i].from..P[i].upto
           first == P[k].from
<1>1. Lens(art.table) = s
  BY TableHolds DEF IsSound3
<1>2. DOMAIN P = 1..Len(P) /\ Len(P) \in Nat /\ n \in Nat
  BY PlanFits DEF IsOrder
<1>3. \E i \in 1..Len(P) : P[i].from <= n /\ n <= P[i].upto
  BY PlanFits
<1>4. \A i \in 1..Len(P) : P[i].from \in Nat /\ P[i].upto \in Nat
  <2>1. \A e \in PlanEntry : e.from \in Nat /\ e.upto \in Nat
    BY DEF PlanEntry
  <2>2. P \in Seq(PlanEntry)
    BY PlanFits
  <2> QED
    BY <2>1, <2>2, ElementOfSeq
<1>5. PieceOf(art, n) = Cut(Raw(art.frames[k]), Offset(s, n) - Offset(s, first), s[n])
  BY <1>1 DEF PieceOf
<1> HIDE DEF s, P
<1>6. \A i \in 1..Len(P) : n \in P[i].from..P[i].upto <=> P[i].from <= n /\ n <= P[i].upto
  BY <1>2, <1>4
<1>7. k \in 1..Len(P) /\ P[k].from <= n /\ n <= P[k].upto
  <2>1. \E i \in DOMAIN P : n \in P[i].from..P[i].upto
    BY <1>2, <1>3, <1>6
  <2>2. k \in DOMAIN P /\ n \in P[k].from..P[k].upto
    BY <2>1
  <2> QED
    BY <1>2, <1>6, <2>2
<1> HIDE DEF k
<1>8. Raw(art.frames[k]) = FrameBytes(o, k)
  <2>1. IsFrame(art.frames[k], FrameBytes(o, k))
    BY <1>7 DEF IsSound3, P, s
  <2> QED
    BY <2>1, FrameGives
<1>9. Cut(FrameBytes(o, k), Offset(s, n) - Offset(s, first), s[n]) = Content(o[n])
  BY <1>2, <1>7, PieceOfFrame DEF P, s
<1> QED
  BY <1>5, <1>8, <1>9

\* What was written with contract 0.3.0 is read.
LEMMA SoundReads3 ==
    ASSUME NEW x, Len(x) \in Nat, NEW o, o = store_order(x), IsOrder(o),
           NEW art, IsSound3(art, x, o)
    PROVE  Reads3(art)
PROOF
<1> DEFINE m == Metadata(x)
           P == Plan(Sizes(o))
<1>1. MetaFramesFit(art.meta) /\ (\A k \in DOMAIN art.meta : Inflates(art.meta[k])) /\ RawOf(art.meta) = m
  <2>1. m \in Seq({x} \X Nat) /\ Len(m) > 0
    BY MetadataHolds
  <2> HIDE DEF m
  <2>2. MetaFramesFit(MetaFrames(m)) /\ (\A k \in DOMAIN MetaFrames(m) : Inflates(MetaFrames(m)[k])) /\ RawOf(MetaFrames(m)) = m
    BY <2>1, ChunksGive
  <2> QED
    BY <2>2 DEF IsSound3, m
<1>2. Ids(art.table) = o /\ Lens(art.table) = Sizes(o) /\ DOMAIN art.table = 1..Len(o)
      /\ \A n \in 1..Len(o) : art.table[n].id = o[n]
  BY TableHolds DEF IsSound3
<1>3. DOMAIN P = 1..Len(P)
  BY PlanFits
<1>4. \A k \in 1..Len(P) : IsFrame(art.frames[k], FrameBytes(o, k)) /\ Len(FrameBytes(o, k)) = P[k].len
  BY FramesAreCut DEF IsSound3
<1>5. Canonical(art)
  <2>1. \A k \in 1..Len(P) : art.frames[k].rawLen = P[k].len
    BY <1>4 DEF IsFrame
  <2> QED
    BY <1>2, <1>3, <2>1 DEF Canonical, IsSound3
<1>6. \A k \in DOMAIN art.frames : Inflates(art.frames[k]) /\ Raw(art.frames[k]) = FrameBytes(o, k)
  BY <1>4, FrameGives DEF IsSound3
<1>7. RawOf(art.frames) = AllOf(o)
  <2> DEFINE p == [k \in DOMAIN art.frames |-> Raw(art.frames[k])]
             q == [k \in 1..Len(P) |-> FrameBytes(o, k)]
  <2>1. p = q
    BY <1>6 DEF IsSound3
  <2>2. FlattenSeq(q) = AllOf(o)
    BY FramesAreCut
  <2> HIDE DEF q
  <2> QED
    BY <2>1, <2>2 DEF RawOf
<1>8. IrIn(m) = x
  BY MetadataHolds
<1>9. \A n \in 1..Len(o) : BlobOf(PieceOf(art, n)) = {art.table[n].id}
  <2>1. \A n \in 1..Len(o) : o[n] \in Blobs
    BY DEF IsOrder
  <2> QED
    BY <1>2, <2>1, PiecesAre, ContentTells
<1>10. Mismatches(art) = {}
  BY <1>2, <1>9 DEF Mismatches
<1> QED
  BY <1>1, <1>2, <1>5, <1>6, <1>7, <1>8, <1>10 DEF Reads3, IsSound3, m

-----------------------------------------------------------------------------
(* One of contract 0.2.0.                                                  *)
IsSound2(art, x, o) ==
    /\ art.contract = 2
    /\ art.meta = Metadata(x) /\ art.table = TableOf(o, Sizes(o))
    /\ art.digest = Digest(Metadata(x), TableOf(o, Sizes(o)), AllOf(o))
    /\ ~art.trailing
    /\ art.body = AllOf(o)

\* In the body a blob lies where the table's lengths say.
LEMMA BodyHolds ==
    ASSUME NEW o, IsOrder(o), NEW n \in 1..Len(o)
    PROVE  Cut(AllOf(o), Offset(Sizes(o), n), Sizes(o)[n]) = Content(o[n])
PROOF
<1> DEFINE N == Len(o)
           E == Ends(Sizes(o))
           L == Len(AllOf(o))
           a == E[n - 1]
           len == Sizes(o)[n]
<1>1. N \in Nat /\ E \in [0..N -> 0..L] /\ E[n] = a + len /\ len \in Nat
  BY EndsOfOrder
<1>2. L \in Nat
  BY EndsOfOrder, LenProperties
<1>3. Offset(Sizes(o), n) = a
  BY DEF Offset
<1>4. Between(AllOf(o), a, E[n]) = Content(o[n])
  BY LaidOut
<1> HIDE DEF N, E, L, len
<1>5. n \in 0..N /\ n - 1 \in 0..N
  BY <1>1 DEF N
<1>6. a \in Nat /\ E[n] <= L
  BY <1>1, <1>2, <1>5
<1>7. Cut(AllOf(o), a, len) = Between(AllOf(o), a, a + len)
  BY <1>1, <1>6, CutIsBetween DEF L
<1> QED
  BY <1>1, <1>3, <1>4, <1>7 DEF len

\* What was written with contract 0.2.0 is read.
LEMMA SoundReads2 ==
    ASSUME NEW x, NEW o, IsOrder(o), \A n \in 2..Len(o) : o[n - 1] < o[n],
           NEW art, IsSound2(art, x, o)
    PROVE  Reads2(art)
PROOF
<1>1. /\ Lens(art.table) = Sizes(o) /\ DOMAIN art.table = 1..Len(o) /\ Len(art.table) = Len(o)
      /\ \A n \in 1..Len(o) : art.table[n].id = o[n] /\ art.table[n].len = Sizes(o)[n]
  BY TableHolds DEF IsSound2
<1>2. \A n \in 2..Len(art.table) : art.table[n - 1].id < art.table[n].id
  <2>1. \A n \in 2..Len(o) : n \in 1..Len(o) /\ n - 1 \in 1..Len(o)
    BY DEF IsOrder
  <2> QED
    BY <1>1, <2>1
<1>3. SumOf(Lens(art.table)) <= Len(art.body)
  <2>1. Len(Sizes(o)) = Len(o) /\ Len(AllOf(o)) = Ends(Sizes(o))[Len(o)] /\ AllOf(o) \in Seq(Cell)
    BY LaidOut
  <2>2. Len(AllOf(o)) \in Nat
    BY <2>1, LenProperties
  <2> QED
    BY <1>1, <2>1, <2>2 DEF SumOf, IsSound2
<1>4. \A n \in DOMAIN art.table : BlobOf(Body2(art, n)) = {art.table[n].id}
  <2>1. \A n \in 1..Len(o) : o[n] \in Blobs
    BY DEF IsOrder
  <2>2. \A n \in 1..Len(o) : Body2(art, n) = Content(o[n])
    BY <1>1, BodyHolds DEF Body2, IsSound2
  <2> QED
    BY <1>1, <2>1, <2>2, ContentTells
<1> QED
  BY <1>2, <1>3, <1>4 DEF Reads2, IsSound2

-----------------------------------------------------------------------------
(* The spill file, and the orders of this IR.                              *)
\* Joining more behind leaves what was there where it was.
LEMMA BetweenOfJoin ==
    ASSUME NEW X, NEW s \in Seq(X), NEW t \in Seq(X)
    PROVE  /\ \A a \in 0..Len(s) : \A b \in a..Len(s) : Between(s \o t, a, b) = Between(s, a, b)
           /\ Between(s \o t, Len(s), Len(s) + Len(t)) = t
PROOF
<1>1. Len(s) \in Nat /\ Len(t) \in Nat
  BY LenProperties
<1>2. ASSUME NEW a \in 0..Len(s), NEW b \in a..Len(s)
      PROVE  Between(s \o t, a, b) = Between(s, a, b)
  <2>1. CASE a = b
    BY <1>1, <2>1, BetweenNothing
  <2>2. CASE a # b
    <3> DEFINE i == a + 1
    <3>1. i \in 1..Len(s) /\ b \in 1..Len(s)
      BY <1>1, <2>2
    <3> HIDE DEF i
    <3>2. SubSeq(s \o t, i, b) = SubSeq(s, i, b)
      BY <3>1, SubSeqOfConcat1
    <3> QED
      BY <3>2 DEF Between, i
  <2> QED
    BY <2>1, <2>2
<1>3. Between(s \o t, Len(s), Len(s) + Len(t)) = t
  <2>1. CASE Len(t) = 0
    <3>1. t = <<>>
      BY <2>1, EmptySeq
    <3>2. Len(s) + Len(t) = Len(s)
      BY <1>1, <2>1
    <3> QED
      BY <1>1, <3>1, <3>2, BetweenNothing
  <2>2. CASE Len(t) # 0
    <3> DEFINE i == Len(s) + 1
               j == Len(s) + Len(t)
    <3>1. i \in Len(s) + 1..Len(s) + Len(t) /\ j \in Len(s) + 1..Len(s) + Len(t)
      BY <1>1, <2>2
    <3>2. i - Len(s) = 1 /\ j - Len(s) = Len(t)
      BY <1>1
    <3> HIDE DEF i, j
    <3>3. SubSeq(s \o t, i, j) = SubSeq(t, i - Len(s), j - Len(s))
      BY <3>1, SubSeqOfConcat2
    <3>4. SubSeq(s \o t, i, j) = t
      BY <3>2, <3>3, SubSeqFull
    <3> QED
      BY <3>4 DEF Between, i, j
  <2> QED
    BY <2>1, <2>2
<1> QED
  BY <1>2, <1>3

\* What is written at the end of the spill file is behind what it held.
LEMMA AtTheEnd ==
    ASSUME spill \in Seq(Cell), NEW bytes \in Seq(Cell)
    PROVE  Written(bytes) = spill \o bytes
PROOF
<1> DEFINE L == Len(spill)
           n == L + Len(bytes) + 1
<1>1. L \in Nat /\ Len(bytes) \in Nat
  BY LenProperties
<1>2. L < n /\ n \in Int /\ L \in Int
  BY <1>1
<1>3. SubSeq(spill, 1, L) = spill
  BY SubSeqFull
<1>4. SubSeq(spill, n, L) = <<>>
  <2> HIDE DEF n, L
  <2> QED
    BY <1>2, SubSeqEmpty
<1>5. spill \o bytes \in Seq(Cell)
  BY ConcatProperties
<1> HIDE DEF L
<1>6. Written(bytes) = spill \o bytes \o <<>>
  BY <1>3, <1>4 DEF Written, EndOfSpill, L
<1> QED
  BY <1>5, <1>6, ConcatEmptySeq

-----------------------------------------------------------------------------
(* What is built has its blobs in two orders.                              *)
LEMMA Ordered ==
    ASSUME ir \in Irs
    PROVE  /\ Len(ir) \in Nat /\ Referenced(ir) \subseteq Blobs
           /\ IsOrder(Order) /\ IsOrder(ById)
           /\ \A b \in Referenced(ir) : \E n \in 1..Len(Order) : Order[n] = b
           /\ \A b \in Referenced(ir) : \E n \in 1..Len(ById) : ById[n] = b
           /\ \A n \in 1..Len(Order) : Order[n] \in Referenced(ir)
           /\ \A n \in 1..Len(ById) : ById[n] \in Referenced(ir)
           /\ Len(Order) = Cardinality(Referenced(ir))
           /\ \A n \in 2..Len(ById) : ById[n - 1] < ById[n]
           /\ OrderLens = Sizes(Order) /\ FramePlan = Plan(Sizes(Order)) /\ Table = TableOf(Order, Sizes(Order))
PROOF
<1> DEFINE S == Referenced(ir)
           N == Cardinality(S)
           R == StoredBefore(ir)
           Q == {pair \in S \X S : pair[1] < pair[2]}
<1>1. IsIr(ir)
  BY ArtifactFileConstants DEF IsIr
<1>2. Sorts(Order, R, S)
  BY <1>1, StoreOrderSorts DEF Order
<1>3. IsFiniteSet(S) /\ S \subseteq Blobs
  BY <1>1, UsesAreFinite
<1>4. ById = InOrder(S, Q)
  BY DEF ById
<1>5. IsStrictOrder(Q, S)
  <2>1. \A b \in S : b \in Nat
    BY <1>3, FramesConstants
  <2> HIDE DEF S
  <2> QED
    BY <2>1 DEF IsStrictOrder
<1>6. \A b, c \in S : <<b, c>> \in Q => b < c
  OBVIOUS
<1>7. N \in Nat
  BY <1>3, FS_CardinalityType
<1> HIDE DEF S, R, Q, N
<1>8. Sorts(ById, Q, S)
  BY <1>3, <1>4, <1>5, InOrderSorts
<1>9. \A o, T : Sorts(o, T, S) => /\ o \in [1..N -> S]
                                  /\ \A b \in S : \E n \in 1..N : o[n] = b
                                  /\ \A i, j \in 1..N : i < j => <<o[i], o[j]>> \in T
  BY DEF Sorts, N
<1>10. \A o : o \in [1..N -> S] => Len(o) = N /\ IsOrder(o)
  <2> SUFFICES ASSUME NEW o, o \in [1..N -> S] PROVE Len(o) = N /\ IsOrder(o)
    OBVIOUS
  <2>1. Len(o) = N
    BY <1>7, FunctionIsSeq
  <2>2. o \in [1..N -> Blobs]
    BY <1>3
  <2> QED
    BY <1>7, <2>1, <2>2 DEF IsOrder
<1>11. /\ Order \in [1..N -> S] /\ Len(Order) = N /\ IsOrder(Order)
       /\ \A b \in S : \E n \in 1..N : Order[n] = b
  BY <1>2, <1>9, <1>10
<1>12. /\ ById \in [1..N -> S] /\ Len(ById) = N /\ IsOrder(ById)
       /\ \A b \in S : \E n \in 1..N : ById[n] = b
       /\ \A i, j \in 1..N : i < j => <<ById[i], ById[j]>> \in Q
  BY <1>8, <1>9, <1>10
<1>13. \A n \in 2..N : ById[n - 1] < ById[n]
  <2>1. \A n \in 2..N : n - 1 \in 1..N /\ n \in 1..N /\ n - 1 < n
    BY <1>7
  <2>2. \A n \in 2..N : <<ById[n - 1], ById[n]>> \in Q /\ ById[n - 1] \in S /\ ById[n] \in S
    BY <1>12, <2>1
  <2> QED
    BY <1>6, <2>2
<1>14. OrderLens = Sizes(Order) /\ FramePlan = Plan(Sizes(Order)) /\ Table = TableOf(Order, Sizes(Order))
  BY DEF OrderLens, FramePlan, Table, Sizes
<1>15. Len(ir) \in Nat
  BY <1>1 DEF IsIr
<1> QED
  BY <1>3, <1>11, <1>12, <1>13, <1>14, <1>15 DEF S, N

(* The indexes that reading makes.                                         *)
At(table, b) == CHOOSE n \in DOMAIN table : table[n].id = b

\* A table that lists a set in an order finds each of its members.
LEMMA AtFinds ==
    ASSUME NEW S, NEW o, IsOrder(o), NEW table, table = TableOf(o, Sizes(o)),
           \A b \in S : \E n \in 1..Len(o) : o[n] = b, \A n \in 1..Len(o) : o[n] \in S
    PROVE  /\ Range(Ids(table)) = S
           /\ \A b \in S : At(table, b) \in 1..Len(o) /\ o[At(table, b)] = b
PROOF
<1>1. /\ Ids(table) = o /\ DOMAIN table = 1..Len(o) /\ DOMAIN o = 1..Len(o)
      /\ \A n \in 1..Len(o) : table[n].id = o[n]
  BY TableHolds DEF IsOrder
<1>2. Range(Ids(table)) = S
  BY <1>1 DEF Range
<1>3. ASSUME NEW b \in S
      PROVE  At(table, b) \in 1..Len(o) /\ o[At(table, b)] = b
  <2>1. \E n \in DOMAIN table : table[n].id = b
    BY <1>1
  <2>2. At(table, b) \in DOMAIN table /\ table[At(table, b)].id = b
    BY <2>1 DEF At
  <2> QED
    BY <1>1, <2>2
<1> QED
  BY <1>2, <1>3

-----------------------------------------------------------------------------
(* The inductive invariant.                                                *)
Bytes(k) == FrameBytes(Order, k)
Frame(k) == [frame |-> k, raw |-> Bytes(k)]
Hashed(n) == Between(AllOf(Order), 0, Ends(Sizes(Order))[n])

Shape ==
    /\ ir \in Irs
    /\ stage \in {"build", "gather", "compress", "written", "open", "failed"}
    /\ {"backing", "index", "frames"} \subseteq DOMAIN store

\* While it is built, every blob in the index is where the index says.
IsKept(b) ==
    IF store.backing = "memory" THEN Place(b) = Content(b)
    ELSE /\ Place(b).at \in Nat /\ Place(b).len = Size[b] /\ Place(b).at + Size[b] <= Len(spill)
         /\ Between(spill, Place(b).at, Place(b).at + Size[b]) = Content(b)

Building ==
    stage \in {"build", "gather", "compress"} =>
        /\ store.backing \in {"memory", "file"} /\ cache = <<>> /\ spill \in Seq(Cell)
        /\ \A b \in Held : b \in Blobs /\ IsKept(b)
        /\ stage # "build" => Held = Referenced(ir)

\* While it is written, what is written, queued and gathered are the plan's first frames.
WriterShape == {"next", "blob", "gathered", "window", "out", "hashed"} \subseteq DOMAIN writer

Gathered ==
    /\ writer.next \in 1..(Len(FramePlan) + 1)
    /\ writer.blob \in 1..(Covered(Order, writer.next - 1) + 1)
    /\ Ends(Sizes(Order))[writer.blob - 1] = Ends(Sizes(Order))[Covered(Order, writer.next - 1)]
    /\ writer.hashed = Hashed(Covered(Order, writer.next - 1))

Queued ==
    /\ writer.window \in Seq(Seq(Cell)) /\ writer.out \in Seq(FrameSet)
    /\ \/ writer.gathered = {} /\ Len(writer.out) + Len(writer.window) = writer.next - 1
       \/ /\ writer.gathered = {Bytes(writer.next - 1)}
          /\ Len(writer.out) + Len(writer.window) = writer.next - 2
    /\ \A k \in 1..Len(writer.out) : IsFrame(writer.out[k], Bytes(k))
    /\ \A k \in 1..Len(writer.window) : writer.window[k] = Bytes(Len(writer.out) + k)

\* The threads make of each frame of the window what compress_frame makes of it.
Compressing ==
    stage = "compress" =>
        /\ DOMAIN slots = 1..Len(writer.window)
        /\ \A n \in 1..Len(writer.window) : slots[n] \subseteq {compress_frame(writer.window[n])}

Writing == stage \in {"gather", "compress"} => WriterShape /\ Gathered /\ Queued /\ Compressing

\* The file: unless something went wrong it is what was written; whatever
\* went wrong, its digest and its metadata are still what was written.
IsSound == \/ IsSound3(artifact, ir, Order) /\ artifact.frames \in Seq(FrameSet)
           \/ IsSound2(artifact, ir, ById)

IsTraced ==
    /\ {"contract", "digest", "meta"} \subseteq DOMAIN artifact
    /\ \/ /\ artifact.contract = 3 /\ artifact.meta = MetaFrames(Metadata(ir))
          /\ artifact.digest = Digest(Metadata(ir), TableOf(Order, Sizes(Order)), AllOf(Order))
       \/ /\ artifact.contract = 2
          /\ artifact.digest = Digest(Metadata(ir), TableOf(ById, Sizes(ById)), AllOf(ById))

InFile ==
    stage \in {"written", "open"} =>
        /\ IsTraced
        /\ ~faulty => IsSound
        /\ stage = "written" => cache = <<>>

\* Once it is open, every blob is there; in memory it is itself, and from the
\* file it is, unless something went wrong, what reading there gives.
IsServed(b) ==
    CASE store.backing = "artifact" ->
            artifact.contract = 2 /\ Cut(artifact.body, Place(b).at, Place(b).len) = Content(b)
      [] store.backing = "compact" ->
            /\ artifact.contract = 3 /\ store.frames = artifact.frames
            /\ Place(b).frame \in 1..Len(FramePlan)
            /\ Cut(Bytes(Place(b).frame), Place(b).at, Place(b).len) = Content(b)
      [] OTHER -> TRUE

Opened ==
    stage = "open" =>
        /\ Held = Referenced(ir) /\ store.backing \in {"memory", "artifact", "compact"}
        /\ \A b \in Held : store.backing = "memory" => Place(b) = Content(b)
        /\ ~faulty => /\ \A b \in Held : IsServed(b)
                      /\ cache \in Seq({Frame(k) : k \in 1..Len(FramePlan)})

FileInv == Shape /\ Building /\ Writing /\ InFile /\ Opened

-----------------------------------------------------------------------------
(* The store's own steps.                                                  *)
absVars == <<Referenced(ir), HeldBlobs, stage # "build", faulty, answer>>

\* In the beginning the invariant holds, and the abstract store is empty or sealed.
LEMMA InitHolds ==
    ASSUME Init
    PROVE  FileInv /\ Blob!Begin
PROOF
<1>1. ir \in Irs /\ cache = <<>> /\ spill = <<>> /\ faulty = FALSE /\ answer = NoAnswer
  BY DEF Init
<1>2. Empty("memory") = [backing |-> "memory", index |-> <<>>, frames |-> <<>>]
  BY DEF Empty, Closed
<1>3. Empty("file") = [backing |-> "file", index |-> <<>>, frames |-> <<>>]
  BY DEF Empty, Closed
<1>4. CASE stage = "build" /\ store \in {Empty("memory"), Empty("file")}
  <2>1. store.backing \in {"memory", "file"} /\ Held = {} /\ {"backing", "index", "frames"} \subseteq DOMAIN store
    BY <1>2, <1>3, <1>4 DEF Held
  <2>2. Shape
    BY <1>1, <1>4, <2>1 DEF Shape
  <2>3. spill \in Seq(Cell)
    BY <1>1, EmptySeq
  <2>4. Building
    BY <1>1, <1>4, <2>1, <2>3 DEF Building
  <2>5. Blob!Begin
    BY <1>1, <1>4, <2>1 DEF Blob!Begin, HeldBlobs, NoAnswer, Answer, Blob!NoAnswer, Blob!Answer
  <2> QED
    BY <1>4, <2>2, <2>4, <2>5 DEF FileInv, Writing, InFile, Opened
<1>5. CASE stage = "written" /\ store = Closed /\ (artifact = OldArtifact \/ artifact = StoredArtifact)
  <2>1. Shape
    BY <1>1, <1>5 DEF Shape, Closed
  <2>2. /\ IsOrder(Order) /\ IsOrder(ById) /\ OrderLens = Sizes(Order)
        /\ FramePlan = Plan(Sizes(Order)) /\ Table = TableOf(Order, Sizes(Order))
    BY <1>1, Ordered
  <2>3. IsTraced /\ IsSound
    <3>1. CASE artifact = OldArtifact
      <4>1. artifact = Artifact2(Metadata(ir), TableOf(ById, Sizes(ById)), AllOf(ById))
        BY <3>1 DEF OldArtifact, Sizes, AllOf
      <4> QED
        BY <4>1 DEF Artifact2, IsTraced, IsSound, IsSound2
    <3>2. CASE artifact = StoredArtifact
      <4> DEFINE P == Plan(Sizes(Order))
                 K == Len(P)
                 A == AllOf(Order)
                 E == Ends(Sizes(Order))
                 F == [k \in DOMAIN P |-> Stored(Cut(A, Offset(Sizes(Order), P[k].from), P[k].len))]
      <4>1. artifact = Artifact3(Metadata(ir), TableOf(Order, Sizes(Order)), F,
                                 Digest(Metadata(ir), TableOf(Order, Sizes(Order)), A))
        BY <2>2, <3>2 DEF StoredArtifact, AllOf
      <4>2. DOMAIN P = 1..K /\ K \in Nat
        BY <2>2, PlanFits
      <4>3. ASSUME NEW k \in 1..K
            PROVE  /\ Cut(A, Offset(Sizes(Order), P[k].from), P[k].len) = Bytes(k)
                   /\ Bytes(k) \in Seq(Cell)
        <5> DEFINE u == Covered(Order, k - 1)
                   v == Covered(Order, k)
                   L == Len(A)
                   N == Len(Order)
        <5>1. k - 1 \in 0..K /\ k \in 0..K
          BY <4>2
        <5>2. u \in 0..N /\ v \in 0..N /\ P[k].from = u + 1 /\ P[k].len \in Nat /\ E[v] = E[u] + P[k].len
          BY <2>2, <5>1, PlanFits
        <5>3. E \in [0..N -> 0..L] /\ A \in Seq(Cell) /\ N \in Nat
          BY <2>2, EndsOfOrder
        <5>4. L \in Nat
          BY <5>3, LenProperties
        <5>5. Offset(Sizes(Order), P[k].from) = E[u]
          <6>1. (u + 1) - 1 = u
            BY <5>2, <5>3
          <6> QED
            BY <5>2, <6>1 DEF Offset
        <5>6. Bytes(k) = Between(A, E[u], E[v])
          BY DEF Bytes, FrameBytes
        <5> HIDE DEF u, v, L, N, E, A, P
        <5>7. E[u] \in 0..L /\ E[v] \in 0..L
          BY <5>2, <5>3
        <5> DEFINE a == E[u]
                   b == E[v]
                   len == P[k].len
        <5>8. a \in 0..L /\ b \in 0..L /\ b = a + len /\ len \in Nat
          BY <5>2, <5>7
        <5> HIDE DEF a, b, len
        <5>9. b \in a..L /\ a \in Nat /\ a + len <= L
          BY <5>4, <5>8
        <5>10. Cut(A, a, len) = Between(A, a, b)
          BY <5>8, <5>9, CutIsBetween DEF L
        <5>11. Between(A, a, b) \in Seq(Cell)
          BY <5>3, <5>8, <5>9, BetweenTyped DEF L
        <5> QED
          BY <5>5, <5>6, <5>10, <5>11 DEF a, b, len
      <4>4. \A k \in 1..K : IsFrame(Stored(Bytes(k)), Bytes(k)) /\ Stored(Bytes(k)) \in FrameSet
        BY <4>3, StoredGives
      <4>5. F = [k \in 1..K |-> Stored(Bytes(k))]
        BY <4>2, <4>3
      <4> HIDE DEF F
      <4>6. F \in [1..K -> FrameSet]
        BY <4>4, <4>5
      <4>7. F \in Seq(FrameSet) /\ Len(F) = K /\ DOMAIN F = 1..K
        BY <4>2, <4>6, FunctionIsSeq
      <4>8. \A k \in 1..K : IsFrame(F[k], FrameBytes(Order, k))
        BY <4>4, <4>5 DEF Bytes
      <4>9. IsSound3(artifact, ir, Order)
        BY <4>1, <4>7, <4>8 DEF Artifact3, IsSound3
      <4>10. artifact.frames = F /\ artifact.contract = 3 /\ artifact.meta = MetaFrames(Metadata(ir))
            /\ artifact.digest = Digest(Metadata(ir), TableOf(Order, Sizes(Order)), A)
            /\ {"contract", "digest", "meta"} \subseteq DOMAIN artifact
        BY <4>1 DEF Artifact3
      <4> QED
        BY <4>7, <4>9, <4>10 DEF IsTraced, IsSound
    <3> QED
      BY <1>5, <3>1, <3>2
  <2>4. Blob!Begin
    BY <1>1, <1>5 DEF Blob!Begin, HeldBlobs, NoAnswer, Answer, Blob!NoAnswer, Blob!Answer
  <2> QED
    BY <1>1, <1>5, <2>1, <2>3, <2>4 DEF FileInv, Building, Writing, InFile, Opened
<1> QED
  BY <1>4, <1>5 DEF Init

\* What stays when neither what is written nor the file changes.
LEMMA OnlyBuilding ==
    ASSUME FileInv, stage = "build", stage' = "build", Shape', Building'
    PROVE  FileInv'
BY DEF FileInv, Writing, InFile, Opened

\* The index with an entry more.
LEMMA IndexedGives ==
    ASSUME {"backing", "index", "frames"} \subseteq DOMAIN store, NEW b, NEW place,
           store' = Indexed(b, place)
    PROVE  /\ {"backing", "index", "frames"} \subseteq DOMAIN store'
           /\ store'.backing = store.backing /\ Held' = Held \cup {b}
           /\ Place(b)' = place /\ \A c \in Held \ {b} : Place(c)' = Place(c)
PROOF
<1> DEFINE f == [c \in {b} \cup DOMAIN store.index |-> IF c = b THEN place ELSE store.index[c]]
<1>1. store' = [store EXCEPT !.index = f]
  BY DEF Indexed
<1>2. DOMAIN f = DOMAIN store.index \cup {b} /\ f[b] = place /\ \A c \in DOMAIN store.index \ {b} : f[c] = store.index[c]
  OBVIOUS
<1> HIDE DEF f
<1>3. DOMAIN store' = DOMAIN store /\ store'.index = f /\ store'.backing = store.backing
  BY <1>1
<1> QED
  BY <1>2, <1>3 DEF Held, Place

\* What is written behind the others leaves them where they are.
LEMMA WritingKeeps ==
    ASSUME spill \in Seq(Cell), NEW bytes \in Seq(Cell), spill' = Written(bytes),
           store.backing = "file", store'.backing = "file"
    PROVE  /\ spill' \in Seq(Cell)
           /\ \A c : IsKept(c) /\ c \in Blobs /\ Place(c)' = Place(c) => IsKept(c)'
           /\ Len(spill) \in Nat /\ Len(spill') = Len(spill) + Len(bytes)
           /\ Between(spill', Len(spill), Len(spill) + Len(bytes)) = bytes
PROOF
<1>1. spill' = spill \o bytes
  BY AtTheEnd
<1>2. spill' \in Seq(Cell) /\ Len(spill') = Len(spill) + Len(bytes)
  BY <1>1, ConcatProperties
<1>3. Len(spill) \in Nat /\ Len(bytes) \in Nat
  BY LenProperties
<1>4. /\ \A a \in 0..Len(spill) : \A d \in a..Len(spill) : Between(spill', a, d) = Between(spill, a, d)
      /\ Between(spill', Len(spill), Len(spill) + Len(bytes)) = bytes
  BY <1>1, BetweenOfJoin
<1>5. ASSUME NEW c \in Blobs, IsKept(c), Place(c)' = Place(c)
      PROVE  IsKept(c)'
  <2> DEFINE at == Place(c).at
             len == Size[c]
             L == Len(spill)
  <2>1. at \in Nat /\ Place(c).len = len /\ at + len <= L /\ Between(spill, at, at + len) = Content(c)
    BY <1>5 DEF IsKept
  <2>2. len \in Nat
    BY ContentTyped
  <2>3. at \in 0..L /\ at + len \in at..L /\ at + len <= Len(spill')
    <3> HIDE DEF at, len, L
    <3>1. Len(spill') = L + Len(bytes)
      BY <1>2 DEF L
    <3> QED
      BY <1>3, <2>1, <2>2, <3>1 DEF L
  <2>4. Between(spill', at, at + len) = Content(c)
    BY <1>4, <2>1, <2>3
  <2>5. Place(c)'.at = at /\ Place(c)'.len = len
    BY <1>5, <2>1
  <2> QED
    BY <2>1, <2>3, <2>4, <2>5 DEF IsKept
<1> QED
  BY <1>2, <1>3, <1>4, <1>5

\* insert puts the blob in.
LEMMA InsertPuts ==
    ASSUME FileInv, NEW b \in Blobs, Insert(b)
    PROVE  FileInv' /\ Blob!Put(b)
PROOF
<1>1. /\ stage = "build" /\ stage' = stage /\ ir' = ir /\ cache' = cache /\ faulty' = faulty
      /\ answer' = Answer(b, "stored", <<>>)
  BY DEF Insert, Store, insert
<1>2. /\ ir \in Irs /\ {"backing", "index", "frames"} \subseteq DOMAIN store
      /\ store.backing \in {"memory", "file"} /\ cache = <<>> /\ spill \in Seq(Cell)
      /\ \A c \in Held : c \in Blobs /\ IsKept(c)
  BY <1>1 DEF FileInv, Shape, Building
<1>3. Content(b) \in Seq(Cell) /\ Len(Content(b)) = Size[b] /\ Size[b] \in Nat
  BY ContentTyped
<1>4. CASE b \in Held /\ UNCHANGED <<store, spill>>
  <2>1. Held' = Held \cup {b} /\ \A c : IsKept(c)' = IsKept(c)
    BY <1>4 DEF Held, IsKept, Place
  <2>2. Shape' /\ Building'
    BY <1>1, <1>2, <1>4, <2>1 DEF Shape, Building
  <2> QED
    BY <1>1, <2>1, <2>2, OnlyBuilding DEF Blob!Put, Blob!Answer, Answer, HeldBlobs
<1>5. CASE b \notin Held /\ store.backing = "memory" /\ store' = Indexed(b, Content(b)) /\ UNCHANGED spill
  <2>1. /\ {"backing", "index", "frames"} \subseteq DOMAIN store'
        /\ store'.backing = "memory" /\ Held' = Held \cup {b}
        /\ Place(b)' = Content(b) /\ \A c \in Held \ {b} : Place(c)' = Place(c)
    BY <1>2, <1>5, IndexedGives
  <2>2. \A c \in Held' : c \in Blobs /\ IsKept(c)'
    BY <1>2, <1>5, <2>1 DEF IsKept
  <2>3. Shape' /\ Building'
    BY <1>1, <1>2, <1>5, <2>1, <2>2 DEF Shape, Building
  <2> QED
    BY <1>1, <2>1, <2>3, OnlyBuilding DEF Blob!Put, Blob!Answer, Answer, HeldBlobs
<1>6. CASE /\ b \notin Held /\ store.backing = "file"
           /\ store' = Indexed(b, [at |-> EndOfSpill, len |-> Size[b]]) /\ spill' = Written(Content(b))
  <2>1. /\ {"backing", "index", "frames"} \subseteq DOMAIN store'
        /\ store'.backing = "file" /\ Held' = Held \cup {b}
        /\ Place(b)' = [at |-> EndOfSpill, len |-> Size[b]] /\ \A c \in Held \ {b} : Place(c)' = Place(c)
    BY <1>2, <1>6, IndexedGives
  <2>2. /\ spill' \in Seq(Cell)
        /\ \A c : IsKept(c) /\ c \in Blobs /\ Place(c)' = Place(c) => IsKept(c)'
        /\ Len(spill) \in Nat /\ Len(spill') = Len(spill) + Len(Content(b))
        /\ Between(spill', Len(spill), Len(spill) + Len(Content(b))) = Content(b)
    BY <1>2, <1>3, <1>6, <2>1, WritingKeeps
  <2>3. IsKept(b)'
    <3>1. Place(b)'.at = Len(spill) /\ Place(b)'.len = Size[b]
      BY <2>1 DEF EndOfSpill
    <3>2. Len(spill) + Size[b] <= Len(spill')
      BY <1>3, <2>2
    <3> QED
      BY <1>3, <2>1, <2>2, <3>1, <3>2 DEF IsKept
  <2>4. \A c \in Held' : c \in Blobs /\ IsKept(c)'
    BY <1>2, <2>1, <2>2, <2>3
  <2>5. Shape' /\ Building'
    BY <1>1, <1>2, <2>1, <2>2, <2>4 DEF Shape, Building
  <2> QED
    BY <1>1, <2>1, <2>5, OnlyBuilding DEF Blob!Put, Blob!Answer, Answer, HeldBlobs
<1> QED
  BY <1>4, <1>5, <1>6 DEF Insert, Store, insert

\* An insert that breaks off leaves the index, and every blob in it, as it was.
LEMMA InsertBreaksFails ==
    ASSUME FileInv, NEW b \in Blobs, InsertBreaks(b)
    PROVE  FileInv' /\ Blob!PutFails(b)
PROOF
<1>1. /\ stage = "build" /\ stage' = stage /\ ir' = ir /\ cache' = cache /\ faulty' = TRUE
      /\ answer' = Answer(b, "error", <<>>) /\ store' = store /\ b \notin Held /\ store.backing = "file"
  BY DEF InsertBreaks, Store, InsertFails, DiskFails, AfterFailure, Failed
<1>2. /\ ir \in Irs /\ {"backing", "index", "frames"} \subseteq DOMAIN store
      /\ cache = <<>> /\ spill \in Seq(Cell)
      /\ \A c \in Held : c \in Blobs /\ IsKept(c)
  BY <1>1 DEF FileInv, Shape, Building
<1>3. PICK part \in 0..(IF Size[b] = 0 THEN 0 ELSE Size[b] - 1) : spill' = Written(SubSeq(Content(b), 1, part))
  BY DEF InsertBreaks, Store, InsertFails
<1>4. Between(Content(b), 0, part) \in Seq(Cell)
  <2>1. Content(b) \in Seq(Cell) /\ Len(Content(b)) = Size[b] /\ Size[b] \in Nat
    BY ContentTyped
  <2>2. 0 \in 0..Len(Content(b)) /\ part \in 0..Len(Content(b))
    BY <2>1
  <2> QED
    BY <2>1, <2>2, BetweenTyped
<1>5. spill' = Written(Between(Content(b), 0, part))
  BY <1>3 DEF Between
<1>6. /\ spill' \in Seq(Cell)
      /\ \A c : IsKept(c) /\ c \in Blobs /\ Place(c)' = Place(c) => IsKept(c)'
  BY <1>1, <1>2, <1>4, <1>5, WritingKeeps
<1>7. Held' = Held /\ \A c : Place(c)' = Place(c)
  BY <1>1 DEF Held, Place
<1>8. \A c \in Held' : c \in Blobs /\ IsKept(c)'
  BY <1>2, <1>6, <1>7
<1>9. Shape' /\ Building'
  BY <1>1, <1>2, <1>6, <1>8 DEF Shape, Building
<1> QED
  BY <1>1, <1>7, <1>9, OnlyBuilding DEF Blob!PutFails, Blob!Answer, Answer, HeldBlobs

-----------------------------------------------------------------------------
\* While it is built, reading at a blob's place gives the blob.
LEMMA KeptIsFound ==
    ASSUME Building, stage \in {"build", "gather", "compress"}, NEW b \in Held
    PROVE  BytesAt(b) = Content(b)
PROOF
<1>1. /\ store.backing \in {"memory", "file"} /\ spill \in Seq(Cell) /\ b \in Blobs /\ IsKept(b)
  BY DEF Building
<1>2. CASE store.backing = "memory"
  BY <1>1, <1>2 DEF IsKept, BytesAt
<1>3. CASE store.backing # "memory"
  <2> DEFINE at == Place(b).at
             len == Size[b]
  <2>1. at \in Nat /\ Place(b).len = len /\ at + len <= Len(spill) /\ Between(spill, at, at + len) = Content(b)
    BY <1>1, <1>3 DEF IsKept
  <2>2. len \in Nat
    BY <1>1, ContentTyped
  <2>3. BytesAt(b) = Cut(spill, at, len)
    BY <1>3, <2>1 DEF BytesAt
  <2> HIDE DEF at, len
  <2> QED
    BY <2>1, <2>2, <2>3, CutIsBetween
<1> QED
  BY <1>2, <1>3

\* The re-hash: what is given is the blob, and the blob's own bytes are given.
LEMMA RehashedTells ==
    ASSUME NEW b \in Blobs, NEW bytes, Rehashed(b, bytes)
    PROVE  \/ answer' = Answer(b, "found", Content(b))
           \/ answer' = Answer(b, "error", <<>>) /\ bytes # Content(b)
PROOF
<1>1. CASE BlobOf(bytes) = {b}
  <2>1. answer' = Answer(b, "found", bytes)
    BY <1>1 DEF Rehashed, Found
  <2>2. bytes = Content(b)
    BY <1>1 DEF BlobOf
  <2> QED
    BY <2>1, <2>2
<1>2. CASE BlobOf(bytes) # {b}
  <2>1. answer' = Answer(b, "error", <<>>)
    BY <1>2 DEF Rehashed, Failed
  <2>2. bytes # Content(b)
    BY <1>2, ContentTells
  <2> QED
    BY <2>1, <2>2
<1> QED
  BY <1>1, <1>2

\* What is sound gives each frame its bytes, when it is inflated again too.
LEMMA SoundInflates ==
    ASSUME FileInv, stage = "open", ~faulty, NEW b \in Held, store.backing = "compact"
    PROVE  /\ Place(b).frame \in 1..Len(FramePlan)
           /\ InflatedAgain(Place(b).frame) = {Bytes(Place(b).frame)}
           /\ \A n \in CachedAt(Place(b).frame) : cache[n].raw = Bytes(Place(b).frame)
           /\ Cut(Bytes(Place(b).frame), Place(b).at, Place(b).len) = Content(b)
PROOF
<1> DEFINE k == Place(b).frame
           f == artifact.frames[k]
           K == Len(FramePlan)
<1>1. ir \in Irs /\ IsServed(b) /\ cache \in Seq({Frame(j) : j \in 1..K}) /\ IsSound
  BY DEF FileInv, Shape, InFile, Opened
<1>2. artifact.contract = 3 /\ store.frames = artifact.frames /\ k \in 1..K
      /\ Cut(Bytes(k), Place(b).at, Place(b).len) = Content(b)
  BY <1>1 DEF IsServed
<1>3. IsSound3(artifact, ir, Order) /\ artifact.frames \in Seq(FrameSet)
  BY <1>1, <1>2 DEF IsSound, IsSound2
<1>4. FramePlan = Plan(Sizes(Order))
  BY <1>1, Ordered
<1> HIDE DEF k
<1>5. DOMAIN artifact.frames = 1..K /\ Len(artifact.frames) = K /\ IsFrame(f, Bytes(k))
  BY <1>2, <1>3, <1>4 DEF IsSound3, Bytes
<1>6. f \in FrameSet
  BY <1>2, <1>3, <1>5, ElementOfSeq
<1> DEFINE g == [f EXCEPT !.gives = f.gives]
<1>7. NotedFrame(k) = {g}
  BY <1>2, <1>5 DEF NotedFrame
<1>8. g.gives = f.gives /\ g.rawLen = f.rawLen
  <2> HIDE DEF f
  <2> QED
    BY <1>6 DEF FrameSet
<1>9. Inflated(g) = {Bytes(k)}
  <2> HIDE DEF g
  <2> QED
    BY <1>5, <1>8 DEF IsFrame, Inflated
<1>10. InflatedAgain(k) = {Bytes(k)}
  <2> HIDE DEF g
  <2> QED
    BY <1>7, <1>9 DEF InflatedAgain
<1>11. ASSUME NEW n \in CachedAt(k) PROVE cache[n].raw = Bytes(k)
  <2> DEFINE T == {Frame(j) : j \in 1..K}
  <2>1. n \in DOMAIN cache /\ cache[n].frame = k
    BY DEF CachedAt
  <2>2. cache \in Seq(T)
    BY <1>1
  <2>3. cache[n] \in T
    <3> HIDE DEF T
    <3>1. DOMAIN cache = 1..Len(cache)
      BY <2>2, LenProperties
    <3> QED
      BY <2>1, <2>2, <3>1, ElementOfSeq
  <2> QED
    BY <2>1, <2>3 DEF Frame
<1> QED
  BY <1>2, <1>10, <1>11 DEF k, K

\* A frame more in the cache, and perhaps the oldest gone.
LEMMA KeptTyped ==
    ASSUME NEW T, cache \in Seq(T), NEW k, NEW raw, [frame |-> k, raw |-> raw] \in T
    PROVE  Kept(k, raw) \in Seq(T)
PROOF
<1> DEFINE e == [frame |-> k, raw |-> raw]
           s == IF Len(cache) >= CacheFrames THEN Tail(cache) ELSE cache
<1>1. s \in Seq(T)
  <2>1. CASE Len(cache) >= CacheFrames
    <3>1. cache # <<>>
      BY <2>1, EmptySeq, ContentStoreConstants
    <3> QED
      BY <2>1, <3>1, HeadTailProperties
  <2>2. CASE ~ (Len(cache) >= CacheFrames)
    BY <2>2
  <2> QED
    BY <2>1, <2>2
<1>2. Kept(k, raw) = Append(s, e)
  BY DEF Kept
<1> HIDE DEF e, s
<1>3. e \in T
  BY DEF e
<1> QED
  BY <1>1, <1>2, <1>3, AppendProperties

\* While it is open, a call that changes the cache alone.
LEMMA OnlyCached ==
    ASSUME FileInv, stage = "open", UNCHANGED <<store, spill, artifact, faulty, ir, stage, writer, slots>>,
           ~faulty => cache' \in Seq({Frame(j) : j \in 1..Len(FramePlan)})
    PROVE  FileInv'
PROOF
<1>1. /\ Order' = Order /\ ById' = ById /\ FramePlan' = FramePlan
      /\ (\A k : Bytes(k)' = Bytes(k)) /\ (\A k : Frame(k)' = Frame(k))
  BY DEF Order, ById, FramePlan, OrderLens, Bytes, Frame
<1>2. Held' = Held /\ (\A c : Place(c)' = Place(c)) /\ \A c : IsServed(c)' = IsServed(c)
  BY <1>1 DEF Held, Place, IsServed
<1>3. Shape'
  BY DEF FileInv, Shape
<1>4. InFile'
  <2>1. IsTraced' = IsTraced /\ IsSound' = IsSound
    BY <1>1 DEF IsTraced, IsSound
  <2> QED
    BY <2>1 DEF FileInv, InFile
<1>5. Opened'
  <2>1. /\ Held = Referenced(ir) /\ store.backing \in {"memory", "artifact", "compact"}
        /\ \A b \in Held : store.backing = "memory" => Place(b) = Content(b)
        /\ ~faulty => \A b \in Held : IsServed(b)
    BY DEF FileInv, Opened
  <2>2. ~faulty' => cache' \in Seq({Frame(j)' : j \in 1..Len(FramePlan')})
    BY <1>1
  <2> QED
    BY <1>2, <2>1, <2>2 DEF Opened
<1> QED
  BY <1>3, <1>4, <1>5 DEF FileInv, Building, Writing

\* get gives the blob, or fails after something went wrong.
LEMMA GetGives ==
    ASSUME FileInv, NEW b \in Blobs, Get(b)
    PROVE  FileInv' /\ (Blob!Give(b) \/ Blob!GiveFails(b))
PROOF
<1>1. /\ stage \in {"build", "open"} /\ get(b)
      /\ UNCHANGED <<store, spill, artifact, faulty, ir, stage, writer, slots>>
  BY DEF Get, Store, get
<1>2. HeldBlobs = Held /\ HeldBlobs' = Held
  BY <1>1 DEF HeldBlobs, Held
<1>3. CASE stage = "build"
  <2>1. /\ store.backing \in {"memory", "file"} /\ cache = <<>>
        /\ \A c \in Held : BytesAt(c) = Content(c)
    BY <1>3, KeptIsFound DEF FileInv, Building
  <2>2. cache' = cache
    BY <1>1, <2>1 DEF get, GetFromMemory, GetFromSpill, GetFromArtifact, GetFromFrame
  <2>3. Shape' /\ Building'
    <3>1. Held' = Held /\ \A c : IsKept(c)' = IsKept(c)
      BY <1>1 DEF Held, IsKept, Place
    <3> QED
      BY <1>1, <1>3, <2>2, <3>1 DEF FileInv, Shape, Building
  <2>4. FileInv'
    BY <1>1, <1>3, <2>3, OnlyBuilding
  <2>5. CASE b \notin Held
    <3>1. answer' = Answer(b, "absent", <<>>)
      BY <1>1, <2>5 DEF get
    <3> QED
      BY <1>1, <1>2, <2>4, <2>5, <3>1 DEF Blob!Give, Blob!Answer, Answer
  <2>6. CASE b \in Held
    <3>1. answer' = Answer(b, "found", BytesAt(b))
      BY <1>1, <2>1, <2>6 DEF get, GetFromMemory, GetFromSpill, GetFromArtifact, GetFromFrame, Found, BytesAt
    <3>2. answer' = Answer(b, "found", Content(b))
      BY <2>1, <2>6, <3>1
    <3> QED
      BY <1>1, <1>2, <2>4, <2>6, <3>2 DEF Blob!Give, Blob!Answer, Answer
  <2> QED
    BY <2>5, <2>6
<1>4. CASE stage = "open"
  <2> DEFINE T == {Frame(j) : j \in 1..Len(FramePlan)}
             Ok == answer' = Answer(b, "found", Content(b))
             Bad == answer' = Answer(b, "error", <<>>)
  <2>1. /\ store.backing \in {"memory", "artifact", "compact"}
        /\ \A c \in Held : store.backing = "memory" => Place(c) = Content(c)
        /\ ~faulty => (\A c \in Held : IsServed(c)) /\ cache \in Seq(T)
    BY <1>4 DEF FileInv, Opened
  <2>2. CASE b \notin Held
    <3>1. answer' = Answer(b, "absent", <<>>) /\ cache' = cache
      BY <1>1, <2>2 DEF get
    <3>2. FileInv'
      BY <1>1, <1>4, <2>1, <3>1, OnlyCached
    <3> QED
      BY <1>1, <1>2, <2>2, <3>1, <3>2 DEF Blob!Give, Blob!Answer, Answer
  <2>3. ASSUME b \in Held PROVE (~faulty => cache' \in Seq(T)) /\ (Ok \/ (Bad /\ faulty))
    <3> USE <2>3
    <3>1. CASE GetFromMemory(b)
      <4>1. cache' = cache /\ Ok
        BY <2>1, <3>1 DEF GetFromMemory, Found
      <4> QED
        BY <2>1, <4>1
    <3>2. CASE GetFromSpill(b)
      BY <2>1, <3>2 DEF GetFromSpill
    <3>3. CASE GetFromArtifact(b)
      <4>1. cache' = cache /\ store.backing = "artifact" /\ Rehashed(b, Cut(artifact.body, Place(b).at, Place(b).len))
        BY <3>3 DEF GetFromArtifact
      <4>2. Ok \/ (Bad /\ Cut(artifact.body, Place(b).at, Place(b).len) # Content(b))
        BY <4>1, RehashedTells
      <4>3. ~faulty => Cut(artifact.body, Place(b).at, Place(b).len) = Content(b)
        BY <2>1, <4>1 DEF IsServed
      <4> QED
        BY <2>1, <4>1, <4>2, <4>3
    <3>4. CASE GetFromFrame(b)
      <4> DEFINE k == Place(b).frame
                 Bit(raw) == Cut(raw, Place(b).at, Place(b).len)
                 C1 == /\ cache' = cache
                       /\ \E n \in CachedAt(k) : Rehashed(b, Bit(cache[n].raw))
                 C2 == \E raw \in InflatedAgain(k) :
                          Rehashed(b, Bit(raw)) /\ (cache' = cache \/ cache' = Kept(k, raw))
                 C3 == InflatedAgain(k) = {} /\ Bad /\ cache' = cache
      <4>1. store.backing = "compact" /\ (C1 \/ C2 \/ C3)
        BY <3>4 DEF GetFromFrame, Failed
      <4>2. ~faulty => /\ k \in 1..Len(FramePlan)
                       /\ InflatedAgain(k) = {Bytes(k)}
                       /\ \A n \in CachedAt(k) : cache[n].raw = Bytes(k)
                       /\ Bit(Bytes(k)) = Content(b)
        BY <1>4, <4>1, SoundInflates
      <4> HIDE DEF k, Bit, T
      <4>3. CASE C1
        <5>1. PICK n \in CachedAt(k) : Rehashed(b, Bit(cache[n].raw))
          BY <4>3
        <5>2. Ok \/ (Bad /\ Bit(cache[n].raw) # Content(b))
          BY <5>1, RehashedTells
        <5>3. ~faulty => Bit(cache[n].raw) = Content(b)
          BY <4>2
        <5> QED
          BY <2>1, <4>3, <5>2, <5>3
      <4>4. CASE C2
        <5>1. PICK raw \in InflatedAgain(k) :
                 Rehashed(b, Bit(raw)) /\ (cache' = cache \/ cache' = Kept(k, raw))
          BY <4>4
        <5>2. Ok \/ (Bad /\ Bit(raw) # Content(b))
          BY <5>1, RehashedTells
        <5>3. ~faulty => raw = Bytes(k) /\ Bit(raw) = Content(b)
          BY <4>2
        <5>4. ~faulty => Kept(k, raw) \in Seq(T)
          <6> SUFFICES ASSUME ~faulty PROVE Kept(k, raw) \in Seq(T)
            OBVIOUS
          <6>1. [frame |-> k, raw |-> raw] \in T
            BY <4>2, <5>3 DEF T, Frame
          <6> QED
            BY <2>1, <6>1, KeptTyped
        <5> QED
          BY <2>1, <5>1, <5>2, <5>3, <5>4
      <4>5. CASE C3
        BY <2>1, <4>2, <4>5
      <4> QED
        BY <4>1, <4>3, <4>4, <4>5
    <3> QED
      BY <1>1, <2>3, <3>1, <3>2, <3>3, <3>4 DEF get
  <2>4. CASE b \in Held
    <3>1. (~faulty => cache' \in Seq(T)) /\ (Ok \/ (Bad /\ faulty))
      BY <2>3, <2>4
    <3>2. FileInv'
      BY <1>1, <1>4, <3>1, OnlyCached
    <3> QED
      BY <1>1, <1>2, <2>4, <3>1, <3>2 DEF Blob!Give, Blob!GiveFails, Blob!Answer, Answer
  <2> QED
    BY <2>2, <2>4
<1> QED
  BY <1>1, <1>3, <1>4

\* A refused read fails, and changes nothing.
LEMMA GetBreaksFails ==
    ASSUME FileInv, NEW b \in Blobs, GetBreaks(b)
    PROVE  FileInv' /\ Blob!GiveFails(b)
PROOF
<1>1. /\ stage \in {"build", "open"} /\ b \in Held /\ faulty' = TRUE /\ answer' = Answer(b, "error", <<>>)
      /\ UNCHANGED <<store, spill, cache, artifact, ir, stage, writer, slots>>
  BY DEF GetBreaks, Store, GetFails, DiskFails, Failed
<1>2. HeldBlobs = Held /\ HeldBlobs' = Held
  BY <1>1 DEF HeldBlobs, Held
<1>3. CASE stage = "build"
  <2>1. Held' = Held /\ \A c : IsKept(c)' = IsKept(c)
    BY <1>1 DEF Held, IsKept, Place
  <2>2. Shape' /\ Building'
    BY <1>1, <1>3, <2>1 DEF FileInv, Shape, Building
  <2> QED
    BY <1>1, <1>2, <1>3, <2>2, OnlyBuilding DEF Blob!GiveFails, Blob!Answer, Answer
<1>4. CASE stage = "open"
  <2>1. Order' = Order /\ ById' = ById /\ FramePlan' = FramePlan
    BY <1>1 DEF Order, ById, FramePlan, OrderLens
  <2>2. Held' = Held /\ (\A c : Place(c)' = Place(c)) /\ IsTraced' = IsTraced
    BY <1>1, <2>1 DEF Held, Place, IsTraced
  <2>3. FileInv'
    BY <1>1, <1>4, <2>2 DEF FileInv, Shape, Building, Writing, InFile, Opened
  <2> QED
    BY <1>1, <1>2, <2>3 DEF Blob!GiveFails, Blob!Answer, Answer
<1> QED
  BY <1>1, <1>3, <1>4

\* What the IR fixes stays while the IR does.
LEMMA OrderStays ==
    ASSUME ir' = ir
    PROVE  /\ Order' = Order /\ ById' = ById /\ FramePlan' = FramePlan
           /\ (\A k : Bytes(k)' = Bytes(k)) /\ (\A k : Frame(k)' = Frame(k)) /\ (\A n : Hashed(n)' = Hashed(n))
BY DEF Order, ById, FramePlan, OrderLens, Bytes, Frame, Hashed

\* While it is written, a step that leaves the store alone.
LEMMA OnlyWriting ==
    ASSUME FileInv, stage \in {"gather", "compress"}, stage' \in {"gather", "compress"},
           UNCHANGED <<storeVars, ir>>, Writing'
    PROVE  FileInv' /\ UNCHANGED absVars
PROOF
<1>1. UNCHANGED <<store, spill, cache, artifact, faulty, answer, ir>>
  BY DEF storeVars
<1>2. Held' = Held /\ \A c : IsKept(c)' = IsKept(c)
  BY <1>1 DEF Held, IsKept, Place
<1>3. Shape' /\ Building'
  BY <1>1, <1>2 DEF FileInv, Shape, Building
<1>4. FileInv'
  BY <1>3 DEF FileInv, InFile, Opened
<1>5. UNCHANGED absVars
  BY <1>1, <1>2 DEF absVars, HeldBlobs
<1> QED
  BY <1>4, <1>5

\* finish keeps exactly what the IR refers to.
LEMMA WriteSeals ==
    ASSUME FileInv, Write
    PROVE  FileInv' /\ Blob!Seal
PROOF
<1> DEFINE S == Referenced(ir)
           g == [b \in S \cap DOMAIN store.index |-> store.index[b]]
<1>1. /\ stage = "build" /\ S \subseteq Held /\ writer' = NoWriter /\ answer' = NoAnswer
      /\ UNCHANGED <<spill, cache, artifact, faulty, ir>>
      /\ store' = [store EXCEPT !.index = g]
      /\ stage' = IF Len(Order) = Cardinality(DOMAIN store'.index) THEN "gather" ELSE "failed"
  BY DEF Write, Retained, Restrict
<1>2. /\ ir \in Irs /\ {"backing", "index", "frames"} \subseteq DOMAIN store
      /\ store.backing \in {"memory", "file"} /\ cache = <<>> /\ spill \in Seq(Cell)
      /\ \A b \in Held : b \in Blobs /\ IsKept(b)
  BY <1>1 DEF FileInv, Shape, Building
<1>3. DOMAIN g = S /\ \A b \in S : g[b] = store.index[b]
  BY <1>1 DEF Held
<1> HIDE DEF g
<1>4. DOMAIN store' = DOMAIN store /\ store'.index = g /\ store'.backing = store.backing
  BY <1>1, <1>2
<1>5. Held' = S /\ \A b \in S : Place(b)' = Place(b)
  BY <1>3, <1>4 DEF Held, Place
<1>6. stage' = "gather"
  <2>1. Len(Order) = Cardinality(S)
    BY <1>2, Ordered
  <2> QED
    BY <1>1, <1>3, <1>4, <2>1
<1>7. Shape'
  BY <1>1, <1>2, <1>4, <1>6 DEF Shape
<1>8. Building'
  <2>1. \A b \in S : b \in Blobs /\ IsKept(b)'
    BY <1>1, <1>2, <1>4, <1>5 DEF IsKept
  <2> QED
    BY <1>1, <1>2, <1>4, <1>5, <1>6, <2>1 DEF Building
<1>9. Writing'
  <2>1. /\ writer'.next = 1 /\ writer'.blob = 1 /\ writer'.gathered = {} /\ writer'.window = <<>>
        /\ writer'.out = <<>> /\ writer'.hashed = <<>> /\ WriterShape'
    BY <1>1 DEF NoWriter, WriterShape
  <2>2. Order' = Order /\ FramePlan' = FramePlan /\ (\A k : Bytes(k)' = Bytes(k)) /\ (\A n : Hashed(n)' = Hashed(n))
    BY <1>1, OrderStays
  <2>3. IsOrder(Order) /\ FramePlan = Plan(Sizes(Order))
    BY <1>2, Ordered
  <2>4. Len(FramePlan) \in Nat /\ Covered(Order, 0) = 0 /\ Ends(Sizes(Order))[0] = 0
    BY <2>3, PlanFits, EndsOfOrder
  <2>5. Hashed(0) = <<>>
    BY <2>4, BetweenNothing DEF Hashed
  <2>6. Gathered'
    <3>1. 1 \in 1..(Len(FramePlan) + 1) /\ 1 - 1 = 0 /\ 1 \in 1..(0 + 1)
      BY <2>4
    <3> QED
      BY <2>1, <2>2, <2>4, <2>5, <3>1 DEF Gathered
  <2>7. Queued'
    <3>1. Len(<<>>) = 0 /\ <<>> \in Seq(Seq(Cell)) /\ <<>> \in Seq(FrameSet)
      BY EmptySeq
    <3> QED
      BY <2>1, <2>2, <3>1 DEF Queued
  <2> QED
    BY <1>6, <2>1, <2>6, <2>7 DEF Writing, Compressing
<1>10. FileInv'
  BY <1>6, <1>7, <1>8, <1>9 DEF FileInv, InFile, Opened
<1>11. Blob!Seal
  BY <1>1, <1>5, <1>6 DEF Blob!Seal, HeldBlobs, NoAnswer, Answer, Blob!NoAnswer, Blob!Answer
<1> QED
  BY <1>10, <1>11

-----------------------------------------------------------------------------
(* Gathering a frame.                                                      *)
LEMMA ThroughIsBetween ==
    ASSUME FileInv, stage = "gather", NEW n \in (writer.blob - 1)..Len(Order)
    PROVE  /\ writer.blob - 1 \in 0..Len(Order)
           /\ Through(n) = Between(AllOf(Order), Ends(Sizes(Order))[writer.blob - 1], Ends(Sizes(Order))[n])
           /\ Len(Through(n)) = Ends(Sizes(Order))[n] - Ends(Sizes(Order))[writer.blob - 1]
PROOF
<1> DEFINE N == Len(Order)
           E == Ends(Sizes(Order))
           A == AllOf(Order)
           L == Len(A)
           B == writer.blob
           K == n - B + 1
           c == [i \in 0..K |-> E[B - 1 + i]]
           p == [i \in 1..K |-> BytesAt(Order[B + i - 1])]
<1>1. ir \in Irs /\ Gathered /\ Building /\ Held = Referenced(ir)
  BY DEF FileInv, Shape, Writing, Building
<1>2. IsOrder(Order) /\ FramePlan = Plan(Sizes(Order)) /\ \A i \in 1..N : Order[i] \in Referenced(ir)
  BY <1>1, Ordered
<1>3. B \in Nat \ {0} /\ B - 1 \in 0..N /\ N \in Nat
  <2>1. N \in Nat /\ Len(FramePlan) \in Nat /\ \A k \in 0..Len(FramePlan) : Covered(Order, k) \in 0..N
    BY <1>2, PlanFits DEF IsOrder
  <2>2. writer.next \in 1..(Len(FramePlan) + 1) /\ B \in 1..(Covered(Order, writer.next - 1) + 1)
    BY <1>1 DEF Gathered
  <2>3. writer.next - 1 \in 0..Len(FramePlan)
    BY <2>1, <2>2
  <2>4. Covered(Order, writer.next - 1) \in 0..N
    BY <2>1, <2>3
  <2> HIDE DEF N, B
  <2> QED
    BY <2>1, <2>2, <2>4
<1>4. /\ A \in Seq(Cell) /\ E \in [0..N -> 0..L]
      /\ \A i \in 1..N : Between(A, E[i - 1], E[i]) = Content(Order[i])
      /\ \A i, j \in 0..N : i <= j => E[i] <= E[j]
  BY <1>2, EndsOfOrder, LaidOut
<1>5. \A i \in 1..N : BytesAt(Order[i]) = Content(Order[i])
  BY <1>1, <1>2, KeptIsFound
<1>6. n \in (B - 1)..N
  OBVIOUS
<1>7. Through(n) = FlattenSeq(p)
  BY DEF Through
<1>8. E[B - 1 + 0] = E[B - 1] /\ E[B - 1 + K] = E[n]
  <2>1. B - 1 + 0 = B - 1 /\ B - 1 + K = n
    BY <1>3, <1>6
  <2> QED
    BY <2>1
<1> HIDE DEF N, E, A, L, B
<1>9. K \in Nat /\ \A i \in 0..K : B - 1 + i \in 0..N
  BY <1>3, <1>6
<1>10. \A i \in 1..K : /\ i \in 0..K /\ i - 1 \in 0..K /\ B + i - 1 \in 1..N
                       /\ B - 1 + i = B + i - 1 /\ B - 1 + (i - 1) = (B + i - 1) - 1
                       /\ B - 1 + (i - 1) <= B - 1 + i
  BY <1>3, <1>6
<1>11. \A i \in 0..K : c[i] = E[B - 1 + i]
  OBVIOUS
<1>12. c \in [0..K -> 0..L]
  BY <1>4, <1>9
<1> HIDE DEF K, c
<1>13. \A i \in 1..K : c[i - 1] <= c[i]
  BY <1>4, <1>9, <1>10, <1>11
<1>14. \A i \in 1..K : BytesAt(Order[B + i - 1]) = Between(A, c[i - 1], c[i])
  <2> SUFFICES ASSUME NEW i \in 1..K PROVE BytesAt(Order[B + i - 1]) = Between(A, c[i - 1], c[i])
    OBVIOUS
  <2> DEFINE j == B + i - 1
  <2>1. j \in 1..N /\ c[i] = E[j] /\ c[i - 1] = E[j - 1]
    BY <1>10, <1>11
  <2> HIDE DEF j
  <2>2. BytesAt(Order[j]) = Between(A, E[j - 1], E[j])
    BY <1>4, <1>5, <2>1
  <2> QED
    BY <2>1, <2>2 DEF j
<1>15. p = [i \in 1..K |-> Between(A, c[i - 1], c[i])]
  BY <1>14
<1> HIDE DEF p
<1>16. FlattenSeq(p) = Between(A, c[0], c[K])
  BY <1>4, <1>9, <1>12, <1>13, <1>15, CutsJoin DEF L, K
<1>17. c[0] = E[B - 1] /\ c[K] = E[n]
  BY <1>8, <1>9, <1>11
<1>18. Through(n) = Between(A, E[B - 1], E[n])
  BY <1>7, <1>16, <1>17
<1> DEFINE x == E[B - 1]
           y == E[n]
<1>19. x \in 0..L /\ y \in 0..L /\ x <= y
  <2>1. n \in 0..N /\ B - 1 <= n
    BY <1>3, <1>6
  <2> QED
    BY <1>3, <1>4, <2>1
<1> HIDE DEF x, y
<1>20. y \in x..L
  <2>1. L \in Nat
    BY <1>4, LenProperties DEF L
  <2> QED
    BY <1>19, <2>1
<1>21. Len(Between(A, x, y)) = y - x
  BY <1>4, <1>19, <1>20, BetweenTyped DEF L
<1> QED
  BY <1>3, <1>18, <1>21 DEF x, y, N, E, A, B

\* As many blobs are read as make the frame the plan asks for.
LEMMA UpToLands ==
    ASSUME FileInv, stage = "gather", writer.next <= Len(FramePlan),
           NEW n, n = UpTo(FramePlan[writer.next].len)
    PROVE  /\ n \in (writer.blob - 1)..Covered(Order, writer.next)
           /\ Ends(Sizes(Order))[n] = Ends(Sizes(Order))[Covered(Order, writer.next)]
           /\ Through(n) = Bytes(writer.next)
PROOF
<1> DEFINE N == Len(Order)
           E == Ends(Sizes(Order))
           A == AllOf(Order)
           L == Len(A)
           b0 == writer.blob - 1
           t == writer.next
           u == Covered(Order, t - 1)
           v == Covered(Order, t)
           len == FramePlan[t].len
<1>1. ir \in Irs /\ Gathered
  BY DEF FileInv, Shape, Writing
<1>2. IsOrder(Order) /\ FramePlan = Plan(Sizes(Order))
  BY <1>1, Ordered
<1>3. Len(FramePlan) \in Nat /\ t \in 1..Len(FramePlan) /\ t - 1 \in 0..Len(FramePlan) /\ t \in 0..Len(FramePlan)
  <2>1. Len(FramePlan) \in Nat
    BY <1>2, PlanFits
  <2> QED
    BY <1>1, <2>1 DEF Gathered
<1>4. u \in 0..N /\ v \in 0..N /\ u < v /\ len \in Nat /\ E[v] = E[u] + len
  BY <1>2, <1>3, PlanFits
<1>5. /\ E \in [0..N -> 0..L] /\ N \in Nat /\ A \in Seq(Cell)
      /\ \A i, j \in 0..N : i <= j => E[i] <= E[j]
  BY <1>2, EndsOfOrder
<1>6. writer.blob \in 1..(u + 1) /\ E[b0] = E[u]
  BY <1>1 DEF Gathered
<1>7. \A m \in b0..N : /\ Through(m) = Between(A, E[b0], E[m])
                       /\ Len(Through(m)) = E[m] - E[b0]
  BY ThroughIsBetween
<1>8. Bytes(t) = Between(A, E[u], E[v])
  BY DEF Bytes, FrameBytes
<1> DEFINE Lands(m) == Len(Through(m)) >= len /\ \A i \in b0..(m - 1) : Len(Through(i)) < len
<1>9. n = CHOOSE m \in b0..N : Lands(m)
  BY DEF UpTo
<1> HIDE DEF N, E, A, L, b0, u, v, len, t
<1>10. b0 \in 0..u /\ b0 <= v /\ b0 \in Nat
  <2>1. b0 = writer.blob - 1 /\ writer.blob \in 1..(u + 1)
    BY <1>6 DEF b0
  <2>2. u \in Nat /\ v \in Nat /\ u < v
    BY <1>4, <1>5
  <2> QED
    BY <2>1, <2>2
<1>11. L \in Nat
  BY <1>5, LenProperties DEF L
<1>12. \A m \in 0..N : E[m] \in Nat
  BY <1>5, <1>11
<1>13. \A m \in b0..N : m \in 0..N /\ m \in Nat
  BY <1>5, <1>10
<1>14. \A m \in b0..N : Len(Through(m)) >= len <=> E[m] >= E[v]
  <2> SUFFICES ASSUME NEW m \in b0..N PROVE Len(Through(m)) >= len <=> E[m] >= E[v]
    OBVIOUS
  <2>1. Len(Through(m)) = E[m] - E[u] /\ E[m] \in Nat /\ E[u] \in Nat /\ E[v] = E[u] + len
    BY <1>4, <1>6, <1>7, <1>12, <1>13
  <2> QED
    BY <1>4, <2>1
<1>15. v \in b0..N
  BY <1>4, <1>5, <1>10
<1> DEFINE Z == {m \in b0..N : E[m] >= E[v]}
<1>16. PICK z \in Z : \A m \in Z : z <= m
  <2>1. Z \subseteq Nat /\ v \in Z
    BY <1>12, <1>13, <1>15
  <2> HIDE DEF Z
  <2> QED
    BY <2>1, LeastNumber
<1>17. Lands(z)
  <2>1. \A i \in b0..(z - 1) : i \in b0..N /\ ~ (z <= i)
    BY <1>5, <1>10, <1>16
  <2>2. \A i \in b0..(z - 1) : ~ (E[i] >= E[v])
    BY <1>16, <2>1
  <2>3. \A i \in b0..(z - 1) : ~ (Len(Through(i)) >= len)
    BY <1>14, <2>1, <2>2
  <2>4. \A i \in b0..(z - 1) : Len(Through(i)) \in Int
    <3>1. \A i \in b0..N : Len(Through(i)) = E[i] - E[b0] /\ E[i] \in Nat
      BY <1>7, <1>12, <1>13
    <3>2. E[b0] \in Nat
      BY <1>4, <1>6, <1>12
    <3> QED
      BY <2>1, <3>1, <3>2
  <2>5. \A i \in b0..(z - 1) : Len(Through(i)) < len
    BY <1>4, <2>3, <2>4
  <2> QED
    BY <1>14, <1>16, <2>5
<1>18. n \in b0..N /\ Lands(n)
  <2>1. \E m \in b0..N : Lands(m)
    BY <1>16, <1>17
  <2> HIDE DEF Lands
  <2> QED
    BY <1>9, <2>1
<1>19. n <= v
  <2> SUFFICES ASSUME ~ (n <= v) PROVE FALSE
    OBVIOUS
  <2>1. v \in b0..(n - 1)
    BY <1>13, <1>15, <1>18
  <2>2. Len(Through(v)) < len
    BY <1>18, <2>1
  <2>3. Len(Through(v)) = E[v] - E[u] /\ E[v] = E[u] + len /\ E[u] \in Nat /\ len \in Nat
    BY <1>4, <1>6, <1>7, <1>12, <1>15
  <2> QED
    BY <2>2, <2>3
<1>20. E[n] = E[v]
  <2>1. E[n] >= E[v]
    BY <1>14, <1>18
  <2>2. E[n] <= E[v]
    BY <1>4, <1>5, <1>13, <1>18, <1>19
  <2> QED
    BY <1>4, <1>12, <1>13, <1>18, <2>1, <2>2
<1>21. Through(n) = Bytes(t)
  BY <1>6, <1>7, <1>8, <1>18, <1>20
<1>22. n \in b0..v
  BY <1>4, <1>13, <1>18, <1>19
<1> QED
  BY <1>20, <1>21, <1>22 DEF E, b0, v, t

\* The frame gathered is the plan's next, and what was hashed goes as far.
LEMMA GatherStutters ==
    ASSUME FileInv, Gather
    PROVE  FileInv' /\ UNCHANGED absVars
PROOF
<1> DEFINE t == writer.next
           n == UpTo(FramePlan[t].len)
           u == Covered(Order, t - 1)
           v == Covered(Order, t)
           E == Ends(Sizes(Order))
           A == AllOf(Order)
<1>1. /\ stage = "gather" /\ writer.gathered = {} /\ t <= Len(FramePlan)
      /\ writer' = [writer EXCEPT !.gathered = {Through(n)}, !.next = @ + 1, !.blob = n + 1,
                                  !.hashed = @ \o Through(n)]
      /\ UNCHANGED <<storeVars, ir, stage, slots>>
  BY DEF Gather
<1>2. ir \in Irs /\ WriterShape /\ Gathered /\ Queued
  BY <1>1 DEF FileInv, Shape, Writing
<1>3. IsOrder(Order) /\ FramePlan = Plan(Sizes(Order))
  BY <1>2, Ordered
<1>4. /\ n \in (writer.blob - 1)..v /\ E[n] = E[v] /\ Through(n) = Bytes(t)
  BY <1>1, UpToLands
<1>5. Len(FramePlan) \in Nat /\ t \in 1..Len(FramePlan) /\ t - 1 \in 0..Len(FramePlan) /\ t \in 0..Len(FramePlan)
  <2>1. Len(FramePlan) \in Nat
    BY <1>3, PlanFits
  <2> QED
    BY <1>1, <1>2, <2>1 DEF Gathered
<1>6. u \in 0..Len(Order) /\ v \in 0..Len(Order) /\ u < v
  BY <1>3, <1>5, PlanFits
<1> HIDE DEF n
<1>7. /\ writer'.gathered = {Bytes(t)} /\ writer'.next = t + 1 /\ writer'.blob = n + 1
      /\ writer'.hashed = writer.hashed \o Bytes(t) /\ WriterShape'
      /\ writer'.window = writer.window /\ writer'.out = writer.out
  BY <1>1, <1>2, <1>4 DEF WriterShape
<1>8. /\ Order' = Order /\ FramePlan' = FramePlan /\ (\A k : Bytes(k)' = Bytes(k)) /\ (\A k : Hashed(k)' = Hashed(k))
  BY <1>1, OrderStays
<1>9. Hashed(u) \o Bytes(t) = Hashed(v)
  <2>1. /\ A \in Seq(Cell) /\ E \in [0..Len(Order) -> 0..Len(A)] /\ Len(Order) \in Nat
        /\ \A i, j \in 0..Len(Order) : i <= j => E[i] <= E[j]
    BY <1>3, EndsOfOrder
  <2>2. Hashed(u) = Between(A, 0, E[u]) /\ Bytes(t) = Between(A, E[u], E[v]) /\ Hashed(v) = Between(A, 0, E[v])
    BY DEF Hashed, Bytes, FrameBytes
  <2> DEFINE x == E[u]
             y == E[v]
  <2> HIDE DEF u, v, E, A
  <2>3. x \in 0..Len(A) /\ y \in 0..Len(A) /\ x <= y
    <3>1. u <= v
      BY <1>6, <2>1
    <3> QED
      BY <1>6, <2>1, <3>1
  <2> HIDE DEF x, y
  <2>4. 0 \in 0..Len(A) /\ x \in 0..Len(A) /\ y \in x..Len(A)
    BY <2>1, <2>3, LenProperties
  <2>5. Between(A, 0, x) \o Between(A, x, y) = Between(A, 0, y)
    BY <2>1, <2>4, BetweenJoins
  <2> QED
    BY <2>2, <2>5 DEF x, y
<1>10. t + 1 \in 1..(Len(FramePlan) + 1) /\ (t + 1) - 1 = t /\ (t + 1) - 2 = t - 1
  BY <1>5
<1>11. n + 1 \in 1..(v + 1) /\ (n + 1) - 1 = n
  <2>1. writer.blob \in 1..(u + 1)
    BY <1>2 DEF Gathered
  <2>2. u \in Nat /\ v \in Nat
    BY <1>3, <1>6 DEF IsOrder
  <2> HIDE DEF u, v
  <2> QED
    BY <1>4, <2>1, <2>2
<1>12. writer.hashed = Hashed(u)
  BY <1>2 DEF Gathered
<1>13. Gathered'
  <2>1. writer'.next \in 1..(Len(FramePlan') + 1)
    BY <1>7, <1>8, <1>10
  <2>2. Covered(Order, writer.next - 1)' = v
    BY <1>7, <1>8, <1>10
  <2>3. writer'.blob \in 1..(v + 1) /\ Ends(Sizes(Order'))[writer'.blob - 1] = Ends(Sizes(Order'))[v]
    BY <1>4, <1>7, <1>8, <1>11
  <2>4. writer'.hashed = Hashed(v)
    BY <1>7, <1>9, <1>12
  <2>5. Hashed(v) = Between(AllOf(Order'), 0, Ends(Sizes(Order'))[v])
    BY <1>8 DEF Hashed
  <2>6. Covered(Order', writer'.next - 1) = v
    BY <1>7, <1>8, <1>10
  <2> HIDE DEF v
  <2>7. writer'.hashed = Between(AllOf(Order'), 0, Ends(Sizes(Order'))[Covered(Order', writer'.next - 1)])
    BY <2>4, <2>5, <2>6
  <2>8. /\ writer'.blob \in 1..(Covered(Order', writer'.next - 1) + 1)
        /\ Ends(Sizes(Order'))[writer'.blob - 1] = Ends(Sizes(Order'))[Covered(Order', writer'.next - 1)]
    BY <2>3, <2>6
  <2> QED
    BY <2>1, <2>7, <2>8 DEF Gathered, Hashed
<1>14. Queued'
  <2>1. Len(writer.out) + Len(writer.window) = t - 1
    <3>1. writer.gathered # {Bytes(t - 1)}
      BY <1>1
    <3> QED
      BY <1>2, <3>1 DEF Queued
  <2> QED
    BY <1>2, <1>7, <1>8, <1>10, <2>1 DEF Queued
<1>15. Writing'
  BY <1>1, <1>7, <1>13, <1>14 DEF Writing, Compressing
<1> QED
  BY <1>1, <1>15, OnlyWriting

\* A window to be compressed: no slot is filled yet.
LEMMA StartFlushStutters ==
    ASSUME FileInv, stage = "gather", StartFlush
    PROVE  FileInv' /\ UNCHANGED absVars
PROOF
<1>1. /\ stage' = "compress" /\ slots' = [n \in DOMAIN writer.window |-> {}]
      /\ UNCHANGED <<storeVars, ir, writer>>
  BY DEF StartFlush
<1>2. WriterShape /\ Gathered /\ Queued
  BY DEF FileInv, Writing
<1>3. /\ Order' = Order /\ FramePlan' = FramePlan /\ (\A k : Bytes(k)' = Bytes(k)) /\ (\A k : Hashed(k)' = Hashed(k))
  BY <1>1, OrderStays
<1>4. WriterShape' /\ Gathered' /\ Queued'
  BY <1>1, <1>2, <1>3 DEF WriterShape, Gathered, Queued
<1>5. Compressing'
  <2>1. DOMAIN writer.window = 1..Len(writer.window)
    BY <1>2, LenProperties DEF Queued
  <2> QED
    BY <1>1, <2>1 DEF Compressing
<1>6. Writing'
  BY <1>4, <1>5 DEF Writing
<1> QED
  BY <1>1, <1>6, OnlyWriting

\* The gathered frame goes behind what is queued and what is written.
LEMMA PlaceFrameStutters ==
    ASSUME FileInv, PlaceFrame
    PROVE  FileInv' /\ UNCHANGED absVars
PROOF
<1>1. stage = "gather" /\ ir \in Irs /\ WriterShape /\ Gathered /\ Queued
  BY DEF PlaceFrame, FileInv, Shape, Writing
<1>2. PICK raw \in writer.gathered :
         \/ Flushes(raw) /\ StartFlush
         \/ /\ ~Flushes(raw)
            /\ writer' = IF Len(raw) >= Window
                         THEN [writer EXCEPT !.gathered = {}, !.out = Append(@, compress_frame(raw))]
                         ELSE [writer EXCEPT !.gathered = {}, !.window = Append(@, raw)]
            /\ UNCHANGED <<storeVars, ir, stage, slots>>
  BY DEF PlaceFrame
<1>3. CASE Flushes(raw) /\ StartFlush
  BY <1>1, <1>3, StartFlushStutters
<1>4. CASE /\ ~Flushes(raw)
           /\ writer' = IF Len(raw) >= Window
                        THEN [writer EXCEPT !.gathered = {}, !.out = Append(@, compress_frame(raw))]
                        ELSE [writer EXCEPT !.gathered = {}, !.window = Append(@, raw)]
           /\ UNCHANGED <<storeVars, ir, stage, slots>>
  <2> DEFINE t == writer.next
             O == writer.out
             W == writer.window
             c == compress_frame(raw)
             X == Seq(Cell)
  <2>1. /\ raw = Bytes(t - 1) /\ Len(O) + Len(W) = t - 2 /\ W \in Seq(X) /\ O \in Seq(FrameSet)
        /\ \A k \in 1..Len(O) : IsFrame(O[k], Bytes(k))
        /\ \A k \in 1..Len(W) : W[k] = Bytes(Len(O) + k)
    BY <1>1 DEF Queued
  <2>2. Len(O) \in Nat /\ Len(W) \in Nat /\ t \in Nat
    <3>1. Len(FramePlan) \in Nat
      <4>1. IsOrder(Order) /\ FramePlan = Plan(Sizes(Order))
        BY <1>1, Ordered
      <4> QED
        BY <4>1, PlanFits
    <3>2. t \in Nat
      BY <1>1, <3>1 DEF Gathered
    <3> QED
      BY <2>1, <3>2, LenProperties
  <2>3. raw \in X
    <3>1. IsOrder(Order) /\ FramePlan = Plan(Sizes(Order))
      BY <1>1, Ordered
    <3>2. t - 1 \in 1..Len(FramePlan)
      <4>1. t \in 1..(Len(FramePlan) + 1) /\ Len(FramePlan) \in Nat
        BY <1>1, <3>1, PlanFits DEF Gathered
      <4> DEFINE o == Len(O)
                 w == Len(W)
                 m == Len(FramePlan)
      <4>2. o + w = t - 2 /\ o \in Nat /\ w \in Nat /\ t \in 1..(m + 1) /\ m \in Nat
        BY <2>1, <2>2, <4>1
      <4> HIDE DEF t, o, w, m
      <4>3. t - 1 \in 1..m
        BY <4>2
      <4> QED
        BY <4>3 DEF m
    <3> HIDE DEF t
    <3> QED
      BY <2>1, <3>1, <3>2, FramesAreCut DEF Bytes
  <2>4. IsFrame(c, raw) /\ c \in FrameSet
    BY <2>3, compressGives
  <2>5. /\ Order' = Order /\ FramePlan' = FramePlan /\ (\A k : Bytes(k)' = Bytes(k)) /\ (\A k : Hashed(k)' = Hashed(k))
    BY <1>4, OrderStays
  <2>6. CASE Len(raw) >= Window
    <3>1. /\ writer'.gathered = {} /\ writer'.out = Append(O, c) /\ writer'.window = W
          /\ writer'.next = t /\ writer'.blob = writer.blob /\ writer'.hashed = writer.hashed /\ WriterShape'
      <4> HIDE DEF c
      <4>1. writer' = [writer EXCEPT !.gathered = {}, !.out = Append(@, c)]
        BY <1>4, <2>6 DEF c
      <4> QED
        BY <1>1, <4>1 DEF WriterShape
    <3>2. W = <<>>
      BY <1>4, <2>6 DEF Flushes
    <3> HIDE DEF c, O, W, t, X
    <3>3. Len(W) = 0
      BY <3>2, EmptySeq
    <3>4. /\ Append(O, c) \in Seq(FrameSet) /\ Len(Append(O, c)) = Len(O) + 1
          /\ \A k \in 1..Len(O) : Append(O, c)[k] = O[k]
          /\ Append(O, c)[Len(O) + 1] = c
      BY <2>1, <2>4, AppendProperties
    <3>5. t - 1 = Len(O) + 1
      BY <2>1, <2>2, <3>3
    <3>6. \A k \in 1..(Len(O) + 1) : IsFrame(Append(O, c)[k], Bytes(k))
      <4>1. \A k \in 1..(Len(O) + 1) : k \in 1..Len(O) \/ k = Len(O) + 1
        BY <2>2
      <4> QED
        BY <2>1, <2>4, <3>4, <3>5, <4>1
    <3>7. Queued'
      <4>1. Len(Append(O, c)) + Len(W) = t - 1
        BY <2>2, <3>3, <3>4, <3>5
      <4>2. \A k \in 1..Len(W) : FALSE
        BY <3>3
      <4>3. W \in Seq(Seq(Cell))
        BY <2>1 DEF X
      <4> QED
        BY <2>5, <3>1, <3>4, <3>6, <4>1, <4>2, <4>3 DEF Queued
    <3>8. Gathered'
      BY <1>1, <2>5, <3>1 DEF Gathered, t
    <3>9. Writing'
      BY <1>1, <1>4, <3>1, <3>7, <3>8 DEF Writing, Compressing
    <3> QED
      BY <1>1, <1>4, <3>9, OnlyWriting
  <2>7. CASE ~ (Len(raw) >= Window)
    <3>1. /\ writer'.gathered = {} /\ writer'.out = O /\ writer'.window = Append(W, raw)
          /\ writer'.next = t /\ writer'.blob = writer.blob /\ writer'.hashed = writer.hashed /\ WriterShape'
      <4>1. writer' = [writer EXCEPT !.gathered = {}, !.window = Append(@, raw)]
        BY <1>4, <2>7
      <4> QED
        BY <1>1, <4>1 DEF WriterShape
    <3> HIDE DEF c, O, W, t, X
    <3>2. /\ Append(W, raw) \in Seq(X) /\ Len(Append(W, raw)) = Len(W) + 1
          /\ \A k \in 1..Len(W) : Append(W, raw)[k] = W[k]
          /\ Append(W, raw)[Len(W) + 1] = raw
      BY <2>1, <2>3, AppendProperties
    <3>3. t - 1 = Len(O) + (Len(W) + 1)
      BY <2>1, <2>2
    <3>4. \A k \in 1..(Len(W) + 1) : Append(W, raw)[k] = Bytes(Len(O) + k)
      <4>1. \A k \in 1..(Len(W) + 1) : k \in 1..Len(W) \/ k = Len(W) + 1
        BY <2>2
      <4> QED
        BY <2>1, <3>2, <3>3, <4>1
    <3>5. Queued'
      <4>1. Len(O) + Len(Append(W, raw)) = t - 1
        BY <3>2, <3>3
      <4>2. Append(W, raw) \in Seq(Seq(Cell))
        BY <3>2 DEF X
      <4> QED
        BY <2>1, <2>5, <3>1, <3>2, <3>4, <4>1, <4>2 DEF Queued
    <3>6. Gathered'
      BY <1>1, <2>5, <3>1 DEF Gathered, t
    <3>7. Writing'
      BY <1>1, <1>4, <3>1, <3>5, <3>6 DEF Writing, Compressing
    <3> QED
      BY <1>1, <1>4, <3>7, OnlyWriting
  <2> QED
    BY <2>6, <2>7
<1> QED
  BY <1>2, <1>3, <1>4

\* The last window.
LEMMA FlushLastStutters ==
    ASSUME FileInv, FlushLast
    PROVE  FileInv' /\ UNCHANGED absVars
BY StartFlushStutters DEF FlushLast

\* A thread fills a slot with what compress_frame makes of its frame.
LEMMA CompressStutters ==
    ASSUME FileInv, NEW worker, Compress(worker)
    PROVE  FileInv' /\ UNCHANGED absVars
PROOF
<1>1. PICK n \in RunOf(worker) : slots' = [slots EXCEPT ![n] = {compress_frame(writer.window[n])}]
  BY DEF Compress
<1>2. stage = "compress" /\ UNCHANGED <<storeVars, ir, stage, writer>>
  BY DEF Compress
<1>3. WriterShape /\ Gathered /\ Queued /\ Compressing
  BY <1>2 DEF FileInv, Writing
<1>4. DOMAIN slots = 1..Len(writer.window)
      /\ \A k \in 1..Len(writer.window) : slots[k] \subseteq {compress_frame(writer.window[k])}
  BY <1>2, <1>3 DEF Compressing
<1>5. Order' = Order /\ FramePlan' = FramePlan /\ (\A k : Bytes(k)' = Bytes(k)) /\ (\A k : Hashed(k)' = Hashed(k))
  BY <1>2, OrderStays
<1>6. WriterShape' /\ Gathered' /\ Queued'
  BY <1>2, <1>3, <1>5 DEF WriterShape, Gathered, Queued
<1>7. Compressing'
  <2>1. DOMAIN slots' = DOMAIN slots
    BY <1>1
  <2>2. \A k \in DOMAIN slots : slots'[k] = slots[k] \/ slots'[k] = {compress_frame(writer.window[k])}
    BY <1>1
  <2> QED
    BY <1>2, <1>4, <2>1, <2>2 DEF Compressing
<1>8. Writing'
  BY <1>6, <1>7 DEF Writing
<1> QED
  BY <1>2, <1>8, OnlyWriting

\* The window's frames join the written ones in their order.
LEMMA FlushStutters ==
    ASSUME FileInv, Flush
    PROVE  FileInv' /\ UNCHANGED absVars
PROOF
<1> DEFINE O == writer.out
           W == writer.window
           q == [n \in DOMAIN slots |-> CHOOSE f \in slots[n] : TRUE]
<1>1. /\ stage = "compress" /\ stage' = "gather" /\ slots' = <<>> /\ \A n \in DOMAIN slots : slots[n] # {}
      /\ writer' = [writer EXCEPT !.window = <<>>, !.out = @ \o q]
      /\ UNCHANGED <<storeVars, ir>>
  BY DEF Flush
<1>2. WriterShape /\ Gathered /\ Queued /\ Compressing
  BY <1>1 DEF FileInv, Writing
<1>3. DOMAIN slots = 1..Len(W) /\ \A k \in 1..Len(W) : slots[k] \subseteq {compress_frame(W[k])}
  BY <1>1, <1>2 DEF Compressing
<1>4. /\ W \in Seq(Seq(Cell)) /\ O \in Seq(FrameSet)
      /\ \A k \in 1..Len(O) : IsFrame(O[k], Bytes(k))
      /\ \A k \in 1..Len(W) : W[k] = Bytes(Len(O) + k)
  BY <1>2 DEF Queued
<1>5. Len(W) \in Nat /\ Len(O) \in Nat
  BY <1>4, LenProperties
<1>6. \A k \in 1..Len(W) : IsFrame(compress_frame(W[k]), W[k]) /\ compress_frame(W[k]) \in FrameSet
  <2>1. \A k \in 1..Len(W) : W[k] \in Seq(Cell)
    BY <1>4, ElementOfSeq
  <2> HIDE DEF W
  <2> QED
    BY <2>1, compressGives
<1>7. \A k \in 1..Len(W) : q[k] = compress_frame(W[k])
  BY <1>1, <1>3
<1>8. q = [n \in 1..Len(W) |-> q[n]]
  BY <1>3
<1> HIDE DEF q
<1>9. /\ writer'.gathered = writer.gathered /\ writer'.out = O \o q /\ writer'.window = <<>>
      /\ writer'.next = writer.next /\ writer'.blob = writer.blob /\ writer'.hashed = writer.hashed /\ WriterShape'
  BY <1>1, <1>2 DEF WriterShape
<1> HIDE DEF O, W
<1>10. q \in Seq(FrameSet) /\ Len(q) = Len(W)
  <2>1. q \in [1..Len(W) -> FrameSet]
    BY <1>6, <1>7, <1>8
  <2> QED
    BY <1>5, <2>1, FunctionIsSeq
<1>11. /\ O \o q \in Seq(FrameSet) /\ Len(O \o q) = Len(O) + Len(W)
       /\ \A i \in 1..(Len(O) + Len(W)) : (O \o q)[i] = IF i <= Len(O) THEN O[i] ELSE q[i - Len(O)]
  <2>1. q \in Seq(FrameSet) /\ Len(q) = Len(W) /\ O \in Seq(FrameSet)
    BY <1>4, <1>10
  <2> DEFINE Z == FrameSet
  <2> HIDE DEF Z
  <2>2. q \in Seq(Z) /\ O \in Seq(Z)
    BY <2>1 DEF Z
  <2>3. /\ O \o q \in Seq(Z) /\ Len(O \o q) = Len(O) + Len(q)
        /\ \A i \in 1..(Len(O) + Len(q)) : (O \o q)[i] = IF i <= Len(O) THEN O[i] ELSE q[i - Len(O)]
    BY <2>2, ConcatProperties
  <2> QED
    BY <2>1, <2>3 DEF Z
<1>12. \A i \in 1..(Len(O) + Len(W)) : IsFrame((O \o q)[i], Bytes(i))
  <2> SUFFICES ASSUME NEW i \in 1..(Len(O) + Len(W)) PROVE IsFrame((O \o q)[i], Bytes(i))
    OBVIOUS
  <2>1. CASE i <= Len(O)
    <3>1. i \in 1..Len(O)
      BY <1>5, <2>1
    <3> QED
      BY <1>4, <1>11, <2>1, <3>1
  <2>2. CASE ~ (i <= Len(O))
    <3>1. i - Len(O) \in 1..Len(W) /\ Len(O) + (i - Len(O)) = i
      BY <1>5, <2>2
    <3>2. (O \o q)[i] = compress_frame(W[i - Len(O)]) /\ W[i - Len(O)] = Bytes(i)
      BY <1>4, <1>7, <1>11, <2>2, <3>1
    <3> QED
      BY <1>6, <3>1, <3>2
  <2> QED
    BY <2>1, <2>2
<1>13. Order' = Order /\ FramePlan' = FramePlan /\ (\A k : Bytes(k)' = Bytes(k)) /\ (\A k : Hashed(k)' = Hashed(k))
  BY <1>1, OrderStays
<1>14. Queued'
  <2>1. Len(<<>>) = 0 /\ <<>> \in Seq(Seq(Cell))
    BY EmptySeq
  <2>2. Len(O \o q) + Len(<<>>) = Len(O) + Len(W)
    BY <1>5, <1>11, <2>1
  <2>3. \/ writer.gathered = {} /\ Len(O) + Len(W) = writer.next - 1
        \/ writer.gathered = {Bytes(writer.next - 1)} /\ Len(O) + Len(W) = writer.next - 2
    BY <1>2 DEF Queued, O, W
  <2>4. \A k \in 1..Len(<<>>) : FALSE
    BY <2>1
  <2> QED
    BY <1>9, <1>11, <1>12, <1>13, <2>1, <2>2, <2>3, <2>4 DEF Queued
<1>15. Gathered'
  BY <1>2, <1>9, <1>13 DEF Gathered
<1>16. Writing'
  BY <1>1, <1>9, <1>14, <1>15 DEF Writing, Compressing
<1> QED
  BY <1>1, <1>16, OnlyWriting

-----------------------------------------------------------------------------
(* The end of writing, and what is left when it breaks.                    *)
LEMMA FinishWritingStutters ==
    ASSUME FileInv, FinishWriting
    PROVE  FileInv' /\ UNCHANGED absVars
PROOF
<1> DEFINE K == Len(FramePlan)
           O == writer.out
           D == Digest(Metadata(ir), TableOf(Order, Sizes(Order)), AllOf(Order))
<1>1. /\ stage = "gather" /\ writer.gathered = {} /\ writer.next > K /\ writer.window = <<>>
      /\ artifact' = Artifact3(Metadata(ir), Table, O, Digest(Metadata(ir), Table, writer.hashed))
      /\ stage' = "written" /\ store' = Closed
      /\ UNCHANGED <<cache, faulty, answer, ir>>
  BY DEF FinishWriting
<1>2. ir \in Irs /\ Gathered /\ Queued /\ cache = <<>> /\ Held = Referenced(ir)
  BY <1>1 DEF FileInv, Shape, Building, Writing
<1>3. /\ IsOrder(Order) /\ FramePlan = Plan(Sizes(Order)) /\ Table = TableOf(Order, Sizes(Order))
      /\ Order' = Order /\ FramePlan' = FramePlan
  BY <1>1, <1>2, Ordered, OrderStays
<1>4. K \in Nat /\ writer.next = K + 1 /\ writer.next - 1 = K
  <2>1. K \in Nat /\ writer.next \in 1..(K + 1)
    BY <1>2, <1>3, PlanFits DEF Gathered
  <2> DEFINE t == writer.next
  <2>2. t \in 1..(K + 1) /\ t > K
    BY <1>1, <2>1
  <2> HIDE DEF t, K
  <2>3. t = K + 1 /\ t - 1 = K
    BY <2>1, <2>2
  <2> QED
    BY <2>1, <2>3 DEF t
<1>5. O \in Seq(FrameSet) /\ Len(O) = K /\ \A k \in 1..K : IsFrame(O[k], Bytes(k))
  <2>1. O \in Seq(FrameSet) /\ Len(O) + Len(writer.window) = writer.next - 1
        /\ \A k \in 1..Len(O) : IsFrame(O[k], Bytes(k))
    <3>1. writer.gathered # {Bytes(writer.next - 1)}
      BY <1>1
    <3> QED
      BY <1>2, <3>1 DEF Queued
  <2>2. Len(writer.window) = 0
    BY <1>1, EmptySeq
  <2>3. Len(O) \in Nat
    BY <2>1, LenProperties
  <2>4. Len(O) = K
    <3> DEFINE l == Len(O)
    <3>1. l + 0 = K /\ l \in Nat
      BY <1>4, <2>1, <2>2, <2>3
    <3> HIDE DEF l, K
    <3>2. l = K
      BY <3>1
    <3> QED
      BY <3>2 DEF l
  <2> QED
    BY <2>1, <2>4
<1>6. writer.hashed = AllOf(Order)
  <2>1. writer.hashed = Hashed(Covered(Order, K)) /\ Covered(Order, K) = Len(Order)
    BY <1>2, <1>3, <1>4, PlanFits DEF Gathered
  <2>2. AllOf(Order) \in Seq(Cell) /\ Len(AllOf(Order)) = Ends(Sizes(Order))[Len(Order)]
    BY <1>3, EndsOfOrder
  <2>3. Between(AllOf(Order), 0, Len(AllOf(Order))) = AllOf(Order)
    BY <2>2, BetweenAll
  <2> QED
    BY <2>1, <2>2, <2>3 DEF Hashed
<1>7. artifact' = Artifact3(Metadata(ir), TableOf(Order, Sizes(Order)), O, D)
  BY <1>1, <1>3, <1>6
<1> HIDE DEF O, D
<1>8. /\ artifact'.contract = 3 /\ artifact'.meta = MetaFrames(Metadata(ir)) /\ artifact'.digest = D
      /\ artifact'.table = TableOf(Order, Sizes(Order)) /\ artifact'.frames = O /\ artifact'.nframes = Len(O)
      /\ artifact'.trailing = FALSE /\ {"contract", "digest", "meta"} \subseteq DOMAIN artifact'
  BY <1>7 DEF Artifact3
<1>9. ir' = ir /\ Metadata(ir') = Metadata(ir)
  BY <1>1
<1>10. IsTraced'
  BY <1>3, <1>8, <1>9 DEF IsTraced, D
<1>11. IsSound'
  <2>1. DOMAIN O = 1..K
    BY <1>5, LenProperties
  <2>2. \A k \in 1..K : IsFrame(O[k], FrameBytes(Order, k))
    BY <1>5 DEF Bytes
  <2>3. IsSound3(artifact', ir, Order)
    BY <1>3, <1>5, <1>8, <2>1, <2>2 DEF IsSound3, D
  <2> QED
    BY <1>3, <1>5, <1>8, <1>9, <2>3 DEF IsSound
<1>12. FileInv'
  BY <1>1, <1>2, <1>10, <1>11 DEF FileInv, Shape, Closed, Building, Writing, InFile, Opened
<1>13. HeldBlobs' = HeldBlobs
  BY <1>1, <1>2 DEF HeldBlobs
<1> QED
  BY <1>1, <1>12, <1>13 DEF absVars

\* A failure ends the store.
LEMMA GivingUpLoses ==
    ASSUME FileInv, GiveUp, faulty', UNCHANGED <<ir, answer>>, stage # "build"
    PROVE  FileInv' /\ Blob!Lose
PROOF
<1>1. stage' = "failed" /\ store' = Closed /\ ir' = ir /\ answer' = answer
  BY DEF GiveUp
<1>2. FileInv'
  BY <1>1 DEF FileInv, Shape, Closed, Building, Writing, InFile, Opened
<1>3. HeldBlobs' = {}
  BY <1>1 DEF HeldBlobs
<1> QED
  BY <1>1, <1>2, <1>3 DEF Blob!Lose

\* Writing fails only because the disk did.
LEMMA WriteBreaksLoses ==
    ASSUME FileInv, WriteBreaks
    PROVE  FileInv' /\ Blob!Lose
PROOF
<1>1. GiveUp /\ faulty' = TRUE /\ UNCHANGED <<ir, answer>> /\ stage # "build"
  BY DEF WriteBreaks, DiskFails
<1> QED
  BY <1>1, GivingUpLoses

-----------------------------------------------------------------------------
(* The file is changed: its digest and its metadata are not.               *)
LEMMA ChangedKeeps ==
    ASSUME NEW art, {"contract", "digest", "meta"} \subseteq DOMAIN art, NEW new \in Changed(art)
    PROVE  /\ {"contract", "digest", "meta"} \subseteq DOMAIN new
           /\ new.contract = art.contract /\ new.digest = art.digest /\ new.meta = art.meta
PROOF
<1> DEFINE Keeps(x) == /\ {"contract", "digest", "meta"} \subseteq DOMAIN x
                       /\ x.contract = art.contract /\ x.digest = art.digest /\ x.meta = art.meta
<1>1. ASSUME NEW x \in ChangedFrames(art) PROVE Keeps(x)
  <2>1. PICK frames : x = [art EXCEPT !.frames = frames]
    BY DEF ChangedFrames
  <2> QED
    BY <2>1
<1>2. ASSUME NEW x \in ChangedBody(art) PROVE Keeps(x)
  <2>1. PICK bytes : x = [art EXCEPT !.body = bytes]
    BY DEF ChangedBody
  <2> QED
    BY <2>1
<1>3. Keeps([art EXCEPT !.trailing = TRUE]) /\ Keeps([art EXCEPT !.table = Reverse(@)])
  <2>1. Keeps([art EXCEPT !.trailing = TRUE])
    OBVIOUS
  <2> DEFINE r == Reverse(art.table)
  <2> HIDE DEF r
  <2>2. Keeps([art EXCEPT !.table = r])
    OBVIOUS
  <2> QED
    BY <2>1, <2>2 DEF r
<1> HIDE DEF Keeps
<1>4. Keeps(new)
  BY <1>1, <1>2, <1>3 DEF Changed
<1> QED
  BY <1>4 DEF Keeps

\* A changed file is a fault, and an open store still holds its index.
LEMMA FileChangesIsAFault ==
    ASSUME FileInv, FileChanges
    PROVE  FileInv' /\ Blob!Fault
PROOF
<1>1. /\ stage \in {"written", "open"} /\ artifact' \in Changed(artifact) /\ faulty' = TRUE
      /\ UNCHANGED <<store, spill, cache, answer, ir, stage>>
  BY DEF FileChanges
<1>2. IsTraced /\ Shape /\ Opened /\ (stage = "written" => cache = <<>>)
  BY <1>1 DEF FileInv, InFile
<1>3. /\ {"contract", "digest", "meta"} \subseteq DOMAIN artifact'
      /\ artifact'.contract = artifact.contract /\ artifact'.digest = artifact.digest
      /\ artifact'.meta = artifact.meta
  <2>1. {"contract", "digest", "meta"} \subseteq DOMAIN artifact
    BY <1>2 DEF IsTraced
  <2> QED
    BY <1>1, <2>1, ChangedKeeps
<1>4. Order' = Order /\ ById' = ById
  BY <1>1, OrderStays
<1>5. IsTraced'
  BY <1>1, <1>2, <1>3, <1>4 DEF IsTraced
<1>6. Held' = Held /\ HeldBlobs' = HeldBlobs /\ \A b : Place(b)' = Place(b)
  BY <1>1 DEF Held, HeldBlobs, Place
<1>7. FileInv'
  BY <1>1, <1>2, <1>5, <1>6 DEF FileInv, Shape, Building, Writing, InFile, Opened
<1> QED
  BY <1>1, <1>6, <1>7 DEF Blob!Fault

-----------------------------------------------------------------------------
(* Opening.                                                                *)
LEMMA ContractIsTraced ==
    ASSUME FileInv, stage = "written"
    PROVE  /\ artifact.contract \in {2, 3} /\ IsTraced /\ ir \in Irs /\ Len(ir) \in Nat
           /\ IsOrder(Order) /\ IsOrder(ById)
BY Ordered DEF FileInv, Shape, InFile, IsTraced

\* A file nothing happened to is never refused.
LEMMA SoundReads ==
    ASSUME FileInv, stage = "written", ~faulty
    PROVE  Reads(artifact)
PROOF
<1>1. IsSound /\ ir \in Irs /\ Len(ir) \in Nat /\ IsOrder(Order) /\ IsOrder(ById)
      /\ \A n \in 2..Len(ById) : ById[n - 1] < ById[n]
  BY Ordered DEF FileInv, Shape, InFile
<1>2. CASE IsSound3(artifact, ir, Order)
  <2>1. Order = store_order(ir)
    BY DEF Order
  <2>2. Reads3(artifact)
    BY <1>1, <1>2, <2>1, SoundReads3
  <2>3. artifact.contract # 2
    BY <1>2 DEF IsSound3
  <2> QED
    BY <2>2, <2>3 DEF Reads
<1>3. CASE IsSound2(artifact, ir, ById)
  <2>1. Reads2(artifact) /\ artifact.contract = 2
    BY <1>1, <1>3, SoundReads2 DEF IsSound2
  <2> QED
    BY <2>1 DEF Reads
<1> QED
  BY <1>1, <1>2, <1>3 DEF IsSound

\* What an entry's bytes hash to its id can only be that blob's.
LEMMA HashTells ==
    ASSUME NEW b, NEW bytes, BlobOf(bytes) = {b}
    PROVE  bytes = Content(b)
PROOF
<1>1. b \in {c \in Blobs : Content(c) = bytes}
  BY DEF BlobOf
<1> QED
  BY <1>1

\* What is read of 0.3.0 lists this IR's order, whatever became of the frames.
LEMMA ReadsThree ==
    ASSUME FileInv, stage = "written", artifact.contract = 3, Reads(artifact)
    PROVE  /\ artifact.table = TableOf(Order, Sizes(Order))
           /\ \A n \in 1..Len(Order) : PieceOf(artifact, n) = Content(Order[n])
PROOF
<1>1. IsTraced /\ Len(ir) \in Nat /\ IsOrder(Order)
  BY ContractIsTraced
<1>2. Reads3(artifact)
  BY DEF Reads
<1>3. artifact.digest = Digest(Metadata(ir), TableOf(Order, Sizes(Order)), AllOf(Order))
  BY <1>1 DEF IsTraced
<1>4. artifact.digest = Digest(RawOf(artifact.meta), artifact.table, RawOf(artifact.frames))
  BY <1>2 DEF Reads3
<1>5. artifact.table = TableOf(Order, Sizes(Order))
  BY <1>3, <1>4 DEF Digest
<1>6. /\ DOMAIN artifact.table = 1..Len(Order)
      /\ \A n \in 1..Len(Order) : artifact.table[n].id = Order[n]
  BY <1>1, <1>5, TableHolds
<1>7. \A n \in 1..Len(Order) : BlobOf(PieceOf(artifact, n)) = {Order[n]}
  <2>1. Mismatches(artifact) = {}
    BY <1>2 DEF Reads3
  <2> QED
    BY <1>6, <2>1 DEF Mismatches
<1> QED
  BY <1>5, <1>7, HashTells

\* What is read of 0.2.0 lists this IR's blobs, whatever became of the body.
LEMMA ReadsTwo ==
    ASSUME FileInv, stage = "written", artifact.contract = 2, Reads(artifact)
    PROVE  /\ artifact.table = TableOf(ById, Sizes(ById))
           /\ \A n \in 1..Len(ById) : Body2(artifact, n) = Content(ById[n])
PROOF
<1>1. IsTraced /\ IsOrder(ById)
  BY ContractIsTraced
<1>2. Reads2(artifact)
  BY DEF Reads
<1>3. artifact.digest = Digest(Metadata(ir), TableOf(ById, Sizes(ById)), AllOf(ById))
  BY <1>1 DEF IsTraced
<1>4. artifact.digest = Digest(artifact.meta, artifact.table, artifact.body)
  BY <1>2 DEF Reads2
<1>5. artifact.table = TableOf(ById, Sizes(ById))
  BY <1>3, <1>4 DEF Digest
<1>6. /\ DOMAIN artifact.table = 1..Len(ById)
      /\ \A n \in 1..Len(ById) : artifact.table[n].id = ById[n]
  BY <1>1, <1>5, TableHolds
<1>7. \A n \in 1..Len(ById) : BlobOf(Body2(artifact, n)) = {ById[n]}
  BY <1>2, <1>6 DEF Reads2
<1> QED
  BY <1>5, <1>7, HashTells

\* What the table lists.
LEMMA OrderLists ==
    ASSUME ir \in Irs, NEW table, table = TableOf(Order, Sizes(Order))
    PROVE  /\ Range(Ids(table)) = Referenced(ir)
           /\ \A b \in Referenced(ir) : At(table, b) \in 1..Len(Order) /\ Order[At(table, b)] = b
PROOF
<1> DEFINE o == Order
           S == Referenced(ir)
<1>1. /\ IsOrder(o) /\ table = TableOf(o, Sizes(o))
      /\ \A b \in S : \E n \in 1..Len(o) : o[n] = b
      /\ \A n \in 1..Len(o) : o[n] \in S
  BY Ordered
<1> HIDE DEF o, S
<1>2. /\ Range(Ids(table)) = S
      /\ \A b \in S : At(table, b) \in 1..Len(o) /\ o[At(table, b)] = b
  BY <1>1, AtFinds, SMTT(40)
<1> QED
  BY <1>2 DEF o, S

\* As OrderLists, of contract 0.2.0.
LEMMA ByIdLists ==
    ASSUME ir \in Irs, NEW table, table = TableOf(ById, Sizes(ById))
    PROVE  /\ Range(Ids(table)) = Referenced(ir)
           /\ \A b \in Referenced(ir) : At(table, b) \in 1..Len(ById) /\ ById[At(table, b)] = b
PROOF
<1> DEFINE o == ById
           S == Referenced(ir)
<1>1. /\ IsOrder(o) /\ table = TableOf(o, Sizes(o))
      /\ \A b \in S : \E n \in 1..Len(o) : o[n] = b
      /\ \A n \in 1..Len(o) : o[n] \in S
  BY Ordered
<1> HIDE DEF o, S
<1>2. /\ Range(Ids(table)) = S
      /\ \A b \in S : At(table, b) \in 1..Len(o) /\ o[At(table, b)] = b
  BY <1>1, AtFinds, SMTT(40)
<1> QED
  BY <1>2 DEF o, S

\* from_bytes fills a store with the blobs themselves.
LEMMA OpensInMemory ==
    ASSUME FileInv, stage = "written", Reads(artifact), store' = InMemory(artifact)
    PROVE  /\ {"backing", "index", "frames"} \subseteq DOMAIN store' /\ store'.backing = "memory"
           /\ Held' = Referenced(ir) /\ \A b \in Referenced(ir) : Place(b)' = Content(b)
PROOF
<1> DEFINE BytesOf(n) == IF artifact.contract = 2 THEN Body2(artifact, n) ELSE PieceOf(artifact, n)
           g == [b \in Range(Ids(artifact.table)) |-> BytesOf(At(artifact.table, b))]
           S == Referenced(ir)
<1>1. store' = [Empty("memory") EXCEPT !.index = g]
  BY DEF InMemory, At
<1>2. Empty("memory") = [backing |-> "memory", index |-> <<>>, frames |-> <<>>]
  BY DEF Empty, Closed
<1>3. artifact.contract \in {2, 3} /\ ir \in Irs /\ IsOrder(Order) /\ IsOrder(ById)
  BY ContractIsTraced
<1>4. Range(Ids(artifact.table)) = S /\ \A b \in S : BytesOf(At(artifact.table, b)) = Content(b)
  <2>1. CASE artifact.contract = 2
    <3>1. /\ artifact.table = TableOf(ById, Sizes(ById))
          /\ \A n \in 1..Len(ById) : Body2(artifact, n) = Content(ById[n])
      BY <2>1, ReadsTwo
    <3>2. Range(Ids(artifact.table)) = S
          /\ \A b \in S : At(artifact.table, b) \in 1..Len(ById) /\ ById[At(artifact.table, b)] = b
      BY <1>3, <3>1, ByIdLists
    <3> QED
      BY <2>1, <3>1, <3>2
  <2>2. CASE artifact.contract = 3
    <3>1. /\ artifact.table = TableOf(Order, Sizes(Order))
          /\ \A n \in 1..Len(Order) : PieceOf(artifact, n) = Content(Order[n])
      BY <2>2, ReadsThree
    <3>2. Range(Ids(artifact.table)) = S
          /\ \A b \in S : At(artifact.table, b) \in 1..Len(Order) /\ Order[At(artifact.table, b)] = b
      BY <1>3, <3>1, OrderLists
    <3> QED
      BY <2>2, <3>1, <3>2
  <2> QED
    BY <1>3, <2>1, <2>2
<1>5. DOMAIN g = S /\ \A b \in S : g[b] = Content(b)
  BY <1>4
<1> HIDE DEF g
<1>6. store'.index = g /\ store'.backing = "memory" /\ {"backing", "index", "frames"} \subseteq DOMAIN store'
  BY <1>1, <1>2
<1> QED
  BY <1>5, <1>6 DEF Held, Place

\* read_from of 0.2.0 notes where each blob lies in the body.
LEMMA OpensByOffset ==
    ASSUME FileInv, stage = "written", artifact.contract = 2, Reads(artifact), store' = read_from(artifact),
           UNCHANGED <<artifact, ir>>
    PROVE  /\ {"backing", "index", "frames"} \subseteq DOMAIN store' /\ store'.backing = "artifact"
           /\ Held' = Referenced(ir)
           /\ ~faulty => \A b \in Referenced(ir) : IsServed(b)'
PROOF
<1> DEFINE S == Referenced(ir)
           g == [b \in Range(Ids(artifact.table)) |->
                   [at |-> Offset(Lens(artifact.table), At(artifact.table, b)),
                    len |-> artifact.table[At(artifact.table, b)].len]]
<1>1. store' = [Empty("artifact") EXCEPT !.index = g]
  BY DEF read_from, ByOffset, At
<1>2. Empty("artifact") = [backing |-> "artifact", index |-> <<>>, frames |-> <<>>]
  BY DEF Empty, Closed
<1>3. ir \in Irs /\ IsOrder(ById)
  BY ContractIsTraced
<1>4. artifact.table = TableOf(ById, Sizes(ById))
  BY ReadsTwo
<1>5. Lens(artifact.table) = Sizes(ById) /\ \A n \in 1..Len(ById) : artifact.table[n].len = Sizes(ById)[n]
  BY <1>3, <1>4, TableHolds
<1>6. Range(Ids(artifact.table)) = S
      /\ \A b \in S : At(artifact.table, b) \in 1..Len(ById) /\ ById[At(artifact.table, b)] = b
  BY <1>3, <1>4, ByIdLists
<1>7. /\ DOMAIN g = S
      /\ \A b \in S : /\ g[b].at = Offset(Sizes(ById), At(artifact.table, b))
                      /\ g[b].len = Sizes(ById)[At(artifact.table, b)]
  BY <1>5, <1>6
<1> HIDE DEF g
<1>8. store'.index = g /\ store'.backing = "artifact" /\ {"backing", "index", "frames"} \subseteq DOMAIN store'
  BY <1>1, <1>2
<1>9. ASSUME ~faulty, NEW b \in S PROVE IsServed(b)'
  <2>1. IsSound
    BY <1>9 DEF FileInv, InFile
  <2>2. artifact.body = AllOf(ById)
    BY <2>1 DEF IsSound, IsSound2, IsSound3
  <2>3. Cut(AllOf(ById), Offset(Sizes(ById), At(artifact.table, b)), Sizes(ById)[At(artifact.table, b)]) = Content(b)
    BY <1>3, <1>6, BodyHolds
  <2>4. Place(b)' = g[b]
    BY <1>8 DEF Place
  <2>5. Cut(artifact'.body, Place(b)'.at, Place(b)'.len) = Content(b)
    BY <1>7, <2>2, <2>3, <2>4
  <2> QED
    BY <1>8, <2>5 DEF IsServed
<1> QED
  BY <1>7, <1>8, <1>9 DEF Held

\* read_from of 0.3.0 notes each blob's frame, and its place there.
LEMMA OpensByFrame ==
    ASSUME FileInv, stage = "written", artifact.contract = 3, Reads(artifact), store' = read_from(artifact),
           UNCHANGED <<artifact, ir>>
    PROVE  /\ {"backing", "index", "frames"} \subseteq DOMAIN store' /\ store'.backing = "compact"
           /\ Held' = Referenced(ir)
           /\ ~faulty => \A b \in Referenced(ir) : IsServed(b)'
PROOF
<1> DEFINE S == Referenced(ir)
           lens == Lens(artifact.table)
           P == Plan(Sizes(Order))
           FrameOf(n) == CHOOSE k \in DOMAIN P : n \in P[k].from..P[k].upto
           h(b) == [frame |-> FrameOf(At(artifact.table, b)), len |-> Sizes(Order)[At(artifact.table, b)],
                    at |-> Offset(Sizes(Order), At(artifact.table, b))
                             - Offset(Sizes(Order), P[FrameOf(At(artifact.table, b))].from)]
           g == [b \in Range(Ids(artifact.table)) |-> h(b)]
<1>1. ir \in Irs /\ IsOrder(Order)
  BY ContractIsTraced
<1>2. artifact.table = TableOf(Order, Sizes(Order))
  BY ReadsThree
<1>3. lens = Sizes(Order)
  BY <1>1, <1>2, TableHolds
<1>4. store' = [backing |-> "compact", frames |-> artifact.frames, index |-> g]
  BY <1>3 DEF read_from, ByFrame, At
<1>5. Range(Ids(artifact.table)) = S
      /\ \A b \in S : At(artifact.table, b) \in 1..Len(Order) /\ Order[At(artifact.table, b)] = b
  BY <1>1, <1>2, OrderLists
<1>6. DOMAIN g = S /\ \A b \in S : g[b] = h(b)
  BY <1>5
<1>7. FramePlan = P /\ FramePlan' = FramePlan /\ \A k : Bytes(k)' = Bytes(k)
  BY <1>1, Ordered, OrderStays
<1>8. /\ DOMAIN P = 1..Len(P) /\ Len(P) \in Nat
      /\ \A n \in 1..Len(Order) : \E k \in 1..Len(P) : P[k].from <= n /\ n <= P[k].upto
      /\ \A k \in 1..Len(P) : P[k].from \in Nat /\ P[k].upto \in Nat
  <2>1. /\ P \in Seq(PlanEntry) /\ DOMAIN P = 1..Len(P) /\ Len(P) \in Nat
        /\ \A n \in 1..Len(Order) : \E k \in 1..Len(P) : P[k].from <= n /\ n <= P[k].upto
    BY <1>1, PlanFits
  <2> HIDE DEF P
  <2>2. \A k \in 1..Len(P) : P[k] \in PlanEntry
    BY <2>1, ElementOfSeq
  <2> QED
    BY <2>1, <2>2 DEF PlanEntry
<1>9. ASSUME NEW n \in 1..Len(Order)
      PROVE  /\ FrameOf(n) \in 1..Len(P)
             /\ P[FrameOf(n)].from <= n /\ n <= P[FrameOf(n)].upto /\ n \in Nat
  <2>1. Len(Order) \in Nat /\ n \in Nat
    BY <1>1 DEF IsOrder
  <2> HIDE DEF P
  <2>2. PICK j \in 1..Len(P) : P[j].from <= n /\ n <= P[j].upto
    BY <1>8
  <2>3. n \in P[j].from..P[j].upto
    BY <1>8, <2>1, <2>2
  <2>4. FrameOf(n) \in DOMAIN P /\ n \in P[FrameOf(n)].from..P[FrameOf(n)].upto
    BY <1>8, <2>3
  <2> HIDE DEF FrameOf
  <2>5. P[FrameOf(n)].from <= n /\ n <= P[FrameOf(n)].upto
    BY <1>8, <2>1, <2>4
  <2> QED
    BY <1>8, <2>1, <2>4, <2>5
<1> HIDE DEF g
<1>10. /\ store'.index = g /\ store'.backing = "compact" /\ store'.frames = artifact.frames
       /\ {"backing", "index", "frames"} \subseteq DOMAIN store'
  BY <1>4
<1>11. ASSUME ~faulty, NEW b \in S PROVE IsServed(b)'
  <2> DEFINE n == At(artifact.table, b)
             k == FrameOf(n)
  <2>1. n \in 1..Len(Order) /\ Order[n] = b
    BY <1>5
  <2>2. k \in 1..Len(P) /\ P[k].from <= n /\ n <= P[k].upto /\ n \in Nat
    BY <1>9, <2>1
  <2>3. Place(b)' = g[b]
    BY <1>10 DEF Place
  <2>4. /\ Place(b)'.frame = k /\ Place(b)'.len = Sizes(Order)[n]
        /\ Place(b)'.at = Offset(Sizes(Order), n) - Offset(Sizes(Order), P[k].from)
    BY <1>6, <2>3
  <2> HIDE DEF n, k, h, FrameOf
  <2>5. Cut(FrameBytes(Order, k), Offset(Sizes(Order), n) - Offset(Sizes(Order), P[k].from), Sizes(Order)[n])
          = Content(Order[n])
    BY <1>1, <2>2, PieceOfFrame
  <2>6. Cut(Bytes(Place(b).frame), Place(b).at, Place(b).len)' = Content(b)
    <3>1. Order' = Order
      BY OrderStays
    <3> QED
      BY <2>1, <2>4, <2>5, <3>1 DEF Bytes
  <2>7. Place(b)'.frame \in 1..Len(FramePlan')
    BY <1>7, <2>2, <2>4
  <2> QED
    BY <1>10, <2>6, <2>7 DEF IsServed
<1> QED
  BY <1>6, <1>10, <1>11 DEF Held

\* Opening gives the store back, or fails after something went wrong.
LEMMA OpenGivesOrLoses ==
    ASSUME FileInv, Open
    PROVE  FileInv' /\ (UNCHANGED absVars \/ Blob!Lose)
PROOF
<1>1. stage = "written" /\ UNCHANGED <<faulty, answer, ir>>
  BY DEF Open
<1>2. CASE ~Reads(artifact) /\ GiveUp
  <2>1. faulty'
    BY <1>1, <1>2, SoundReads
  <2> QED
    BY <1>1, <1>2, <2>1, GivingUpLoses
<1>3. CASE /\ Reads(artifact)
           /\ store' = InMemory(artifact) \/ store' = read_from(artifact)
           /\ stage' = "open"
           /\ UNCHANGED <<artifact, cache, spill, writer, slots>>
  <2>1. artifact.contract \in {2, 3} /\ IsTraced
    BY <1>1, ContractIsTraced
  <2>2. /\ {"backing", "index", "frames"} \subseteq DOMAIN store' /\ Held' = Referenced(ir)
        /\ store'.backing \in {"memory", "artifact", "compact"}
        /\ \A b \in Referenced(ir) : store'.backing = "memory" => Place(b)' = Content(b)
        /\ ~faulty => \A b \in Referenced(ir) : IsServed(b)'
    <3>1. CASE store' = InMemory(artifact)
      <4>1. /\ {"backing", "index", "frames"} \subseteq DOMAIN store' /\ store'.backing = "memory"
            /\ Held' = Referenced(ir) /\ \A b \in Referenced(ir) : Place(b)' = Content(b)
        BY <1>1, <1>3, <3>1, OpensInMemory
      <4> QED
        BY <4>1 DEF IsServed
    <3>2. CASE store' = read_from(artifact)
      <4>1. CASE artifact.contract = 2
        BY <1>1, <1>3, <3>2, <4>1, OpensByOffset
      <4>2. CASE artifact.contract = 3
        BY <1>1, <1>3, <3>2, <4>2, OpensByFrame
      <4> QED
        BY <2>1, <4>1, <4>2
    <3> QED
      BY <1>3, <3>1, <3>2
  <2>3. cache = <<>> /\ ir \in Irs /\ (~faulty => IsSound)
    BY <1>1 DEF FileInv, Shape, InFile
  <2>4. Order' = Order /\ ById' = ById /\ FramePlan' = FramePlan /\ \A k : Frame(k)' = Frame(k)
    BY <1>1, OrderStays
  <2>5. InFile'
    <3>1. IsTraced' /\ IsSound' = IsSound
      BY <1>1, <1>3, <2>1, <2>4 DEF IsTraced, IsSound
    <3> QED
      BY <1>1, <1>3, <2>3, <3>1 DEF InFile
  <2>6. cache' \in Seq({Frame(k) : k \in 1..Len(FramePlan)})'
    <3>1. <<>> \in Seq({Frame(k) : k \in 1..Len(FramePlan)}')
      BY EmptySeq
    <3> QED
      BY <1>3, <2>3, <3>1
  <2>7. Opened'
    BY <1>1, <1>3, <2>2, <2>6 DEF Opened
  <2>8. FileInv'
    BY <1>1, <1>3, <2>2, <2>3, <2>5, <2>7 DEF FileInv, Shape, Building, Writing
  <2>9. HeldBlobs' = HeldBlobs
    BY <1>1, <1>3, <2>2 DEF HeldBlobs
  <2> QED
    BY <1>1, <1>3, <2>8, <2>9 DEF absVars
<1> QED
  BY <1>2, <1>3 DEF Open

-----------------------------------------------------------------------------
(* Every step.                                                             *)
LEMMA StepHolds ==
    ASSUME FileInv, [Next]_vars
    PROVE  FileInv' /\ [Blob!Step]_absVars
PROOF
<1>1. CASE \E b \in Blobs : Insert(b) \/ InsertBreaks(b) \/ Get(b) \/ GetBreaks(b)
  <2>1. PICK b \in Blobs : Insert(b) \/ InsertBreaks(b) \/ Get(b) \/ GetBreaks(b)
    BY <1>1
  <2>2. FileInv' /\ (Blob!Put(b) \/ Blob!PutFails(b) \/ Blob!Give(b) \/ Blob!GiveFails(b))
    BY <2>1, InsertPuts, InsertBreaksFails, GetGives, GetBreaksFails
  <2> QED
    BY <2>2 DEF Blob!Step
<1>2. CASE Write
  BY <1>2, WriteSeals DEF Blob!Step
<1>3. CASE Gather \/ PlaceFrame \/ FlushLast
  BY <1>3, GatherStutters, PlaceFrameStutters, FlushLastStutters
<1>4. CASE \E worker \in 1..Workers : Compress(worker)
  BY <1>4, CompressStutters
<1>5. CASE Flush \/ FinishWriting
  BY <1>5, FlushStutters, FinishWritingStutters
<1>6. CASE WriteBreaks
  BY <1>6, WriteBreaksLoses DEF Blob!Step
<1>7. CASE Open
  BY <1>7, OpenGivesOrLoses DEF Blob!Step
<1>8. CASE FileChanges
  BY <1>8, FileChangesIsAFault DEF Blob!Step
<1>9. CASE UNCHANGED vars
  <2>1. UNCHANGED <<store, spill, cache, artifact, faulty, answer, ir, stage, writer, slots>>
    BY <1>9 DEF vars, storeVars
  <2>2. /\ Order' = Order /\ ById' = ById /\ FramePlan' = FramePlan
        /\ (\A k : Bytes(k)' = Bytes(k)) /\ (\A k : Frame(k)' = Frame(k)) /\ (\A n : Hashed(n)' = Hashed(n))
    BY <2>1, OrderStays
  <2>3. Held' = Held /\ (\A b : IsKept(b)' = IsKept(b)) /\ (\A b : Place(b)' = Place(b))
    BY <2>1 DEF Held, IsKept, Place
  <2>4. \A b : IsServed(b)' = IsServed(b)
    BY <2>1, <2>2 DEF IsServed, Place
  <2>5. Shape' = Shape /\ Building' = Building
    BY <2>1, <2>3 DEF Shape, Building
  <2>6. WriterShape' = WriterShape /\ Gathered' = Gathered
    BY <2>1, <2>2 DEF WriterShape, Gathered
  <2>7. Queued' = Queued /\ Compressing' = Compressing
    BY <2>1, <2>2 DEF Queued, Compressing
  <2>8. InFile' = InFile
    BY <2>1, <2>2 DEF InFile, IsTraced, IsSound
  <2>9. Opened' = Opened
    BY <2>1, <2>2, <2>3, <2>4 DEF Opened
  <2>10. FileInv'
    BY <2>5, <2>6, <2>7, <2>8, <2>9, <2>1 DEF FileInv, Writing
  <2>11. UNCHANGED absVars
    BY <2>1, <2>3 DEF absVars, HeldBlobs
  <2> QED
    BY <2>10, <2>11
<1> QED
  BY <1>1, <1>2, <1>3, <1>4, <1>5, <1>6, <1>7, <1>8, <1>9 DEF Next

(* Through every build, write, failure, change and reading back, the blobs *)
(* are where the index, the writer's place in the plan or the file says,   *)
(* and, unless something outside went wrong, what they should be.          *)
THEOREM FileInvariant == Spec => []FileInv
PROOF
<1>1. Init => FileInv
  BY InitHolds
<1>2. FileInv /\ [Next]_vars => FileInv'
  BY StepHolds
<1> QED
  BY <1>1, <1>2, PTL DEF Spec

(* A store that is filled, spilled, written as an artifact by any number   *)
(* of threads, read back by either reader of either contract and asked     *)
(* again is a store of blobs: what it gives is what was put in, and it     *)
(* fails only when the disk failed or the file was changed.                *)
THEOREM StoreIsABlobStore == Spec => StoresBlobs
PROOF
<1>1. Init => FileInv /\ Blob!Begin
  BY InitHolds
<1>2. FileInv /\ [Next]_vars => FileInv' /\ [Blob!Step]_absVars
  BY StepHolds
<1> QED
  BY <1>1, <1>2, PTL DEF Spec, StoresBlobs, Blob!Behaves, absVars

=============================================================================
