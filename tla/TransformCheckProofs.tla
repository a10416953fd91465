----------------------- MODULE TransformCheckProofs -----------------------
(***************************************************************************)
(* transform::check is sound, for every input and output artifact: what it *)
(* accepts keeps every promise of HonestStep.                              *)
(***************************************************************************)
EXTENDS TransformCheck, HonestStep, DataInduction

-----------------------------------------------------------------------------
(* FlattenSeq: the run of its loop, what it holds, and two special cases.  *)

LEMMA ConcatHolds ==
    ASSUME NEW X, NEW s \in Seq(X), NEW t \in Seq(X)
    PROVE  /\ s \o t \in Seq(X) /\ Len(s \o t) = Len(s) + Len(t)
           /\ ToSet(s \o t) = ToSet(s) \cup ToSet(t)
PROOF
<1> DEFINE m == Len(s)  n == Len(t)  st == s \o t
<1>1. m \in Nat /\ n \in Nat /\ DOMAIN s = 1..m /\ DOMAIN t = 1..n
      /\ st \in Seq(X) /\ DOMAIN st = 1..(m + n)
  OBVIOUS
<1>2. /\ \A i \in 1..m : i \in 1..(m + n) /\ st[i] = s[i]
      /\ \A i \in 1..n : m + i \in 1..(m + n) /\ st[m + i] = t[i]
  BY <1>1
<1>3. \A i \in 1..(m + n) : i \in 1..m \/ (i - m \in 1..n /\ m + (i - m) = i)
  BY <1>1
<1> HIDE DEF m, n, st
<1>4. ToSet(st) \subseteq ToSet(s) \cup ToSet(t)
  <2> SUFFICES ASSUME NEW i \in 1..(m + n) PROVE st[i] \in ToSet(s) \cup ToSet(t)
    BY <1>1 DEF ToSet
  <2>1. CASE i \in 1..m
    BY <1>1, <1>2, <2>1 DEF ToSet
  <2>2. CASE i - m \in 1..n /\ m + (i - m) = i
    <3>1. st[i] = t[i - m]
      BY <1>2, <2>2
    <3> QED
      BY <1>1, <2>2, <3>1 DEF ToSet
  <2> QED
    BY <1>3, <2>1, <2>2
<1>5. ToSet(s) \subseteq ToSet(st) /\ ToSet(t) \subseteq ToSet(st)
  BY <1>1, <1>2 DEF ToSet
<1> QED
  BY <1>1, <1>4, <1>5 DEF st, m, n

LEMMA FlattenRuns ==
    ASSUME NEW X, NEW ss \in Seq(Seq(X)), Len(ss) # 0
    PROVE  \E f \in [1..Len(ss) -> Seq(X)] :
              /\ f[1] = ss[1]
              /\ \A i \in 2..Len(ss) : f[i] = f[i - 1] \o ss[i]
              /\ FlattenSeq(ss) = f[Len(ss)]
PROOF
<1> DEFINE L == Len(ss)
           Eq(f) == f = [i \in 1..L |-> IF i = 1 THEN ss[i] ELSE f[i - 1] \o ss[i]]
           D == [p \in Nat \X Seq(X) |-> IF p[1] + 2 <= L THEN p[2] \o ss[p[1] + 2] ELSE p[2]]
<1>1. L \in Nat \ {0} /\ L - 1 \in Nat /\ \A i \in 1..L : ss[i] \in Seq(X)
  OBVIOUS
<1>2. D \in [Nat \X Seq(X) -> Seq(X)]
  BY <1>1
<1>3. \A n \in Nat : \A s \in Seq(X) : n + 2 <= L => D[<<n, s>>] = s \o ss[n + 2]
  OBVIOUS
<1> HIDE DEF L, D
<1>4. PICK r : IsRun(r, L - 1, Seq(X), ss[1], D)
  <2>1. ss[1] \in Seq(X)
    BY <1>1
  <2> QED
    BY <1>1, <1>2, <2>1, LoopHasRun
<1>5. r \in [0..(L - 1) -> Seq(X)] /\ r[0] = ss[1]
      /\ \A n \in 0..((L - 1) - 1) : r[n + 1] = D[<<n, r[n]>>]
  BY <1>4 DEF IsRun
<1> DEFINE g == [i \in 1..L |-> r[i - 1]]
<1>6. g \in [1..L -> Seq(X)] /\ g[1] = ss[1]
  <2>1. 1 \in 1..L /\ \A i \in 1..L : i - 1 \in 0..(L - 1)
    BY <1>1
  <2> QED
    BY <1>5, <2>1
<1>7. ASSUME NEW i \in 2..L PROVE g[i] = g[i - 1] \o ss[i]
  <2> DEFINE n == i - 2
  <2>1. n \in 0..((L - 1) - 1) /\ n \in Nat /\ n + 2 = i /\ n + 2 <= L /\ n + 1 = i - 1
        /\ (i - 1) - 1 = n /\ i \in 1..L /\ i - 1 \in 1..L /\ n \in 0..(L - 1)
    BY <1>1
  <2> HIDE DEF n
  <2>2. r[n + 1] = D[<<n, r[n]>>] /\ r[n] \in Seq(X)
    BY <1>5, <2>1
  <2>3. D[<<n, r[n]>>] = r[n] \o ss[n + 2]
    BY <1>3, <2>1, <2>2
  <2>4. g[i] = r[n + 1] /\ g[i - 1] = r[n]
    BY <2>1
  <2> QED
    BY <2>1, <2>2, <2>3, <2>4
<1> HIDE DEF g
<1>8. \A i \in 1..L : g[i] = IF i = 1 THEN ss[i] ELSE g[i - 1] \o ss[i]
  <2>1. \A i \in 1..L : i = 1 \/ i \in 2..L
    BY <1>1
  <2> QED
    BY <1>6, <1>7, <2>1
<1>9. Eq(g)
  BY <1>6, <1>8
<1> DEFINE flatten == CHOOSE f : Eq(f)
<1>10. Eq(flatten)
  BY <1>9
<1>11. FlattenSeq(ss) = flatten[L]
  BY <1>1 DEF FlattenSeq, L
<1> HIDE DEF flatten
<1>12. ASSUME NEW i \in 1..L PROVE flatten[i] = IF i = 1 THEN ss[i] ELSE flatten[i - 1] \o ss[i]
  BY <1>10
<1>13. flatten = [i \in 1..L |-> flatten[i]]
  BY <1>10
<1> HIDE DEF Eq
<1> DEFINE U == {i \in 1..L : flatten[i] \in Seq(X)}
<1>14. 1 \in U
  BY <1>1, <1>12
<1>15. ASSUME NEW n \in 2..L, n - 1 \in U PROVE n \in U
  <2>1. n \in 1..L /\ n # 1
    BY <1>1
  <2>2. flatten[n] = flatten[n - 1] \o ss[n]
    BY <1>12, <2>1
  <2>3. flatten[n - 1] \in Seq(X) /\ ss[n] \in Seq(X)
    BY <1>1, <1>15, <2>1
  <2>4. flatten[n] \in Seq(X)
    BY <2>2, <2>3, ConcatHolds
  <2> QED
    BY <2>1, <2>4
<1>16. 1..L \subseteq U
  <2> HIDE DEF U
  <2> QED
    BY <1>1, <1>14, <1>15, CountingInduction
<1>17. \A i \in 1..L : flatten[i] \in Seq(X)
  BY <1>16
<1>18. flatten[1] = ss[1] /\ \A i \in 2..L : flatten[i] = flatten[i - 1] \o ss[i]
  <2>1. 1 \in 1..L /\ \A i \in 2..L : i \in 1..L /\ i # 1
    BY <1>1
  <2> QED
    BY <1>12, <2>1
<1>19. flatten \in [1..L -> Seq(X)]
  BY <1>13, <1>17
<1> QED
  BY <1>11, <1>18, <1>19 DEF L

LEMMA FlattenHolds ==
    ASSUME NEW X, NEW ss \in Seq(Seq(X))
    PROVE  /\ FlattenSeq(ss) \in Seq(X)
           /\ ToSet(FlattenSeq(ss)) = UNION {ToSet(ss[i]) : i \in 1..Len(ss)}
PROOF
<1>1. CASE Len(ss) = 0
  <2>1. FlattenSeq(ss) = <<>>
    BY <1>1 DEF FlattenSeq
  <2>2. ToSet(<<>>) = {} /\ 1..Len(ss) = {}
    BY <1>1 DEF ToSet
  <2> QED
    BY <2>1, <2>2
<1>2. CASE Len(ss) # 0
  <2> DEFINE L == Len(ss)
  <2>1. PICK f \in [1..L -> Seq(X)] : /\ f[1] = ss[1]
                                      /\ \A i \in 2..L : f[i] = f[i - 1] \o ss[i]
                                      /\ FlattenSeq(ss) = f[L]
    BY <1>2, FlattenRuns
  <2>2. L \in Nat \ {0} /\ \A i \in 1..L : ss[i] \in Seq(X)
    BY <1>2
  <2> HIDE DEF L
  <2> DEFINE U == {n \in 1..L : ToSet(f[n]) = UNION {ToSet(ss[i]) : i \in 1..n}}
  <2>3. 1 \in U
    <3>1. 1..1 = {1} /\ 1 \in 1..L
      BY <2>2
    <3> QED
      BY <2>1, <3>1
  <2>4. ASSUME NEW n \in 2..L, n - 1 \in U PROVE n \in U
    <3>1. n \in 1..L /\ n - 1 \in 1..L /\ 1..n = (1..(n - 1)) \cup {n}
      BY <2>2
    <3>2. f[n] = f[n - 1] \o ss[n] /\ f[n - 1] \in Seq(X) /\ ss[n] \in Seq(X)
      BY <2>1, <2>2, <3>1
    <3>3. ToSet(f[n]) = ToSet(f[n - 1]) \cup ToSet(ss[n])
      BY <3>2, ConcatHolds
    <3>4. ToSet(f[n - 1]) = UNION {ToSet(ss[i]) : i \in 1..(n - 1)}
      BY <2>4
    <3>5. UNION {ToSet(ss[i]) : i \in 1..n} = ToSet(f[n - 1]) \cup ToSet(ss[n])
      BY <3>1, <3>4
    <3> QED
      BY <3>1, <3>3, <3>5
  <2>5. 1..L \subseteq U
    <3> HIDE DEF U
    <3> QED
      BY <2>2, <2>3, <2>4, CountingInduction
  <2>6. L \in U
    BY <2>2, <2>5
  <2>7. f[L] \in Seq(X)
    BY <2>1, <2>2
  <2> QED
    BY <2>1, <2>6, <2>7 DEF L
<1> QED
  BY <1>1, <1>2

LEMMA FlattenSingletons ==
    ASSUME NEW X, NEW s \in Seq(X)
    PROVE  FlattenSeq([n \in DOMAIN s |-> <<s[n]>>]) = s
PROOF
<1> DEFINE ss == [n \in DOMAIN s |-> <<s[n]>>]
           L == Len(s)
<1>1. ss \in Seq(Seq(X)) /\ Len(ss) = L /\ L \in Nat /\ \A n \in 1..L : ss[n] = <<s[n]>> /\ s[n] \in X
  <2>1. L \in Nat /\ DOMAIN s = 1..L /\ \A n \in 1..L : s[n] \in X
    OBVIOUS
  <2>2. \A n \in 1..L : <<s[n]>> \in Seq(X)
    BY <2>1
  <2>3. ss = [n \in 1..L |-> <<s[n]>>]
    BY <2>1
  <2>4. ss \in [1..L -> Seq(X)]
    BY <2>2, <2>3
  <2>5. ss \in Seq(Seq(X)) /\ Len(ss) = L
    <3> HIDE DEF ss, L
    <3> QED
      BY <2>1, <2>4
  <2> QED
    BY <2>1, <2>5
<1>2. s = [i \in 1..L |-> s[i]]
  OBVIOUS
<1> HIDE DEF ss, L
<1>3. CASE L = 0
  <2>1. FlattenSeq(ss) = ss /\ ss = <<>> /\ s = <<>>
    BY <1>1, <1>2, <1>3 DEF FlattenSeq
  <2> QED
    BY <2>1 DEF ss
<1>4. CASE L # 0
  <2>1. PICK f \in [1..L -> Seq(X)] : /\ f[1] = ss[1]
                                      /\ \A i \in 2..L : f[i] = f[i - 1] \o ss[i]
                                      /\ FlattenSeq(ss) = f[L]
    BY <1>1, <1>4, FlattenRuns
  <2> DEFINE start(n) == [i \in 1..n |-> s[i]]
             U == {n \in 1..L : f[n] = start(n)}
  <2>2. 1 \in U
    <3>1. f[1] = <<s[1]>> /\ 1 \in 1..L
      BY <1>1, <1>4, <2>1
    <3>2. <<s[1]>> = start(1)
      OBVIOUS
    <3> QED
      BY <3>1, <3>2
  <2>3. ASSUME NEW n \in 2..L, n - 1 \in U PROVE n \in U
    <3> DEFINE was == start(n - 1)
    <3>1. n \in 1..L /\ n - 1 \in Nat /\ \A i \in 1..(n - 1) : i \in 1..L
      BY <1>1
    <3>2. was \in Seq(X) /\ Len(was) = n - 1 /\ \A i \in 1..(n - 1) : was[i] = s[i]
      BY <1>1, <3>1
    <3>3. f[n] = was \o <<s[n]>>
      BY <1>1, <2>1, <2>3, <3>1
    <3> HIDE DEF was
    <3>4. was \o <<s[n]>> \in Seq(X) /\ Len(was \o <<s[n]>>) = n
      <4>1. <<s[n]>> \in Seq(X) /\ Len(<<s[n]>>) = 1 /\ (n - 1) + 1 = n
        BY <1>1, <3>1
      <4> QED
        BY <3>2, <4>1, ConcatHolds
    <3>5. \A i \in 1..n : (was \o <<s[n]>>)[i] = s[i]
      BY <1>1, <3>1, <3>2
    <3>6. was \o <<s[n]>> = start(n)
      BY <3>4, <3>5
    <3> QED
      BY <3>1, <3>3, <3>6
  <2>4. 1..L \subseteq U
    <3> HIDE DEF U
    <3> QED
      BY <1>1, <2>2, <2>3, CountingInduction
  <2>5. L \in U
    BY <1>1, <1>4, <2>4
  <2> QED
    BY <1>2, <2>1, <2>5 DEF ss
<1> QED
  BY <1>3, <1>4 DEF ss

-----------------------------------------------------------------------------
(* FirstOccurrences: the run of its loop, and what it keeps of a sequence. *)

LEMMA AppendHolds ==
    ASSUME NEW X, NEW s \in Seq(X), NEW x \in X, IsInjective(s), x \notin ToSet(s)
    PROVE  IsInjective(Append(s, x)) /\ ToSet(Append(s, x)) = ToSet(s) \cup {x}
PROOF
<1> DEFINE m == Len(s)  t == Append(s, x)
<1>1. m \in Nat /\ DOMAIN s = 1..m /\ DOMAIN t = 1..(m + 1) /\ t[m + 1] = x
      /\ \A i \in 1..m : t[i] = s[i]
  OBVIOUS
<1>2. 1..(m + 1) = (1..m) \cup {m + 1}
  BY <1>1
<1>3. \A i \in 1..m : s[i] # x
  BY <1>1 DEF ToSet
<1> HIDE DEF m, t
<1>4. IsInjective(t)
  BY <1>1, <1>2, <1>3 DEF IsInjective
<1>5. ToSet(t) = ToSet(s) \cup {x}
  BY <1>1, <1>2 DEF ToSet
<1> QED
  BY <1>4, <1>5 DEF t

LEMMA FirstOccurrencesRuns ==
    ASSUME NEW X, NEW seq \in Seq(X)
    PROVE  \E f \in [0..Len(seq) -> Seq(X)] :
              /\ f[0] = <<>>
              /\ \A n \in 0..(Len(seq) - 1) :
                    f[n + 1] = IF seq[n + 1] \in ToSet(f[n]) THEN f[n] ELSE Append(f[n], seq[n + 1])
              /\ FirstOccurrences(seq) = f[Len(seq)]
PROOF
<1> DEFINE L == Len(seq)
           Turn(n, s) == IF Contains(s, seq[n]) THEN s ELSE Append(s, seq[n])
           D == [p \in Nat \X Seq(X) |-> IF p[1] + 1 \in 1..L THEN Turn(p[1] + 1, p[2]) ELSE p[2]]
           Eq(f) == f = [n \in 0..L |-> IF n = 0 THEN <<>> ELSE Turn(n, f[n - 1])]
<1>1. L \in Nat /\ \A i \in 1..L : seq[i] \in X
  OBVIOUS
<1>2. \A n \in 1..L : \A s \in Seq(X) : Turn(n, s) \in Seq(X)
  BY <1>1
<1>3. D \in [Nat \X Seq(X) -> Seq(X)]
  <2> HIDE DEF Turn
  <2> QED
    BY <1>2
<1>4. \A n \in Nat : \A s \in Seq(X) : n + 1 \in 1..L => D[<<n, s>>] = Turn(n + 1, s)
  <2> HIDE DEF Turn, L
  <2> QED
    OBVIOUS
<1> HIDE DEF L, D, Turn
<1>5. PICK r : IsRun(r, L, Seq(X), <<>>, D)
  <2>1. <<>> \in Seq(X)
    OBVIOUS
  <2> QED
    BY <1>1, <1>3, <2>1, LoopHasRun
<1>6. r \in [0..L -> Seq(X)] /\ r[0] = <<>> /\ \A n \in 0..(L - 1) : r[n + 1] = D[<<n, r[n]>>]
  BY <1>5 DEF IsRun
<1>7. ASSUME NEW n \in 1..L PROVE r[n] = Turn(n, r[n - 1])
  <2>1. n - 1 \in 0..(L - 1) /\ (n - 1) + 1 = n /\ n - 1 \in 0..L /\ n - 1 \in Nat
    BY <1>1
  <2>2. r[n] = D[<<n - 1, r[n - 1]>>] /\ r[n - 1] \in Seq(X)
    BY <1>6, <2>1
  <2> QED
    BY <1>4, <2>1, <2>2
<1>8. \A n \in 0..L : r[n] = IF n = 0 THEN <<>> ELSE Turn(n, r[n - 1])
  <2>1. \A n \in 0..L : n = 0 \/ n \in 1..L
    BY <1>1
  <2> QED
    BY <1>6, <1>7, <2>1
<1>9. Eq(r)
  BY <1>6, <1>8
<1> DEFINE kept == CHOOSE f : Eq(f)
<1>10. Eq(kept)
  BY <1>9
<1>11. FirstOccurrences(seq) = kept[L]
  BY DEF FirstOccurrences, L, Turn
<1> HIDE DEF kept
<1>12. kept = [n \in 0..L |-> kept[n]] /\ kept[0] = <<>>
       /\ \A n \in 1..L : kept[n] = Turn(n, kept[n - 1])
  <2>1. 0 \in 0..L /\ \A n \in 1..L : n \in 0..L /\ n # 0
    BY <1>1
  <2> QED
    BY <1>10, <2>1
<1> HIDE DEF Eq
<1>13. ASSUME NEW n \in 0..(L - 1) PROVE kept[n + 1] = Turn(n + 1, kept[n])
  <2>1. n + 1 \in 1..L /\ (n + 1) - 1 = n
    BY <1>1
  <2> QED
    BY <1>12, <2>1
<1> DEFINE U == {n \in 0..L : kept[n] \in Seq(X)}
<1>14. 0 \in U
  BY <1>1, <1>12
<1>15. ASSUME NEW n \in 0..(L - 1), n \in U PROVE n + 1 \in U
  <2>1. n + 1 \in 1..L /\ n + 1 \in 0..L
    BY <1>1
  <2> QED
    BY <1>2, <1>13, <1>15, <2>1
<1>16. 0..L \subseteq U
  <2> HIDE DEF U
  <2> QED
    BY <1>1, <1>14, <1>15, BoundedInduction
<1>17. kept \in [0..L -> Seq(X)]
  BY <1>12, <1>16
<1>18. ASSUME NEW n \in 0..(L - 1)
       PROVE  kept[n + 1] = IF seq[n + 1] \in ToSet(kept[n]) THEN kept[n] ELSE Append(kept[n], seq[n + 1])
  <2>1. kept[n] \in Seq(X)
    <3>1. n \in 0..L
      BY <1>1
    <3> QED
      BY <1>17, <3>1
  <2>2. \A s \in Seq(X) : \A e : Contains(s, e) <=> e \in ToSet(s)
    BY DEF Contains, ToSet
  <2> QED
    BY <1>13, <2>1, <2>2 DEF Turn
<1> QED
  BY <1>11, <1>12, <1>17, <1>18 DEF L

\* First occurrences are all of them, each once, and all there is when none repeats.
LEMMA FirstOccurrencesKeep ==
    ASSUME NEW X, NEW seq \in Seq(X)
    PROVE  /\ FirstOccurrences(seq) \in Seq(X)
           /\ IsInjective(FirstOccurrences(seq))
           /\ ToSet(FirstOccurrences(seq)) = ToSet(seq)
           /\ IsInjective(seq) => FirstOccurrences(seq) = seq
PROOF
<1> DEFINE L == Len(seq)
<1>1. L \in Nat /\ seq = [i \in 1..L |-> seq[i]] /\ \A i \in 1..L : seq[i] \in X
  OBVIOUS
<1>2. PICK f \in [0..L -> Seq(X)] :
         /\ f[0] = <<>>
         /\ \A n \in 0..(L - 1) :
               f[n + 1] = IF seq[n + 1] \in ToSet(f[n]) THEN f[n] ELSE Append(f[n], seq[n + 1])
         /\ FirstOccurrences(seq) = f[L]
  BY FirstOccurrencesRuns
<1> HIDE DEF L
<1> DEFINE U == {n \in 0..L : IsInjective(f[n]) /\ ToSet(f[n]) = {seq[i] : i \in 1..n}}
<1>3. 0 \in U
  <2>1. IsInjective(<<>>) /\ ToSet(<<>>) = {} /\ 1..0 = {} /\ 0 \in 0..L
    BY <1>1 DEF IsInjective, ToSet
  <2> QED
    BY <1>2, <2>1
<1>4. ASSUME NEW n \in 0..(L - 1), n \in U PROVE n + 1 \in U
  <2>1. n + 1 \in 1..L /\ n + 1 \in 0..L /\ n \in 0..L /\ 1..(n + 1) = (1..n) \cup {n + 1}
    BY <1>1
  <2>2. IsInjective(f[n]) /\ ToSet(f[n]) = {seq[i] : i \in 1..n}
    BY <1>4
  <2>3. {seq[i] : i \in 1..(n + 1)} = ToSet(f[n]) \cup {seq[n + 1]}
    BY <2>1, <2>2
  <2>4. CASE seq[n + 1] \in ToSet(f[n])
    BY <1>2, <2>1, <2>2, <2>3, <2>4
  <2>5. CASE seq[n + 1] \notin ToSet(f[n])
    <3>1. f[n + 1] = Append(f[n], seq[n + 1]) /\ f[n] \in Seq(X) /\ seq[n + 1] \in X
      BY <1>1, <1>2, <2>1, <2>5
    <3>2. IsInjective(f[n + 1]) /\ ToSet(f[n + 1]) = ToSet(f[n]) \cup {seq[n + 1]}
      <4> DEFINE s == f[n]  x == seq[n + 1]
      <4>1. s \in Seq(X) /\ x \in X /\ IsInjective(s) /\ x \notin ToSet(s) /\ f[n + 1] = Append(s, x)
        BY <2>2, <2>5, <3>1
      <4> HIDE DEF s, x
      <4>2. IsInjective(Append(s, x)) /\ ToSet(Append(s, x)) = ToSet(s) \cup {x}
        BY <4>1, AppendHolds
      <4> QED
        BY <4>1, <4>2 DEF s, x
    <3> QED
      BY <2>1, <2>3, <3>2
  <2> QED
    BY <2>4, <2>5
<1>5. 0..L \subseteq U
  <2> HIDE DEF U
  <2> QED
    BY <1>1, <1>3, <1>4, BoundedInduction
<1>6. L \in U
  BY <1>1, <1>5
<1>7. ToSet(seq) = {seq[i] : i \in 1..L}
  BY <1>1 DEF ToSet
<1>8. ASSUME IsInjective(seq) PROVE f[L] = seq
  <2> DEFINE start(n) == [i \in 1..n |-> seq[i]]
             V == {n \in 0..L : f[n] = start(n)}
  <2>1. 0 \in V
    BY <1>1, <1>2
  <2>2. ASSUME NEW n \in 0..(L - 1), n \in V PROVE n + 1 \in V
    <3>1. n + 1 \in 1..L /\ n + 1 \in 0..L /\ n \in 0..L /\ n \in Nat /\ \A i \in 1..n : i \in 1..L /\ i # n + 1
      BY <1>1
    <3>2. ToSet(f[n]) = {seq[i] : i \in 1..n}
      BY <1>5, <3>1
    <3>3. seq[n + 1] \notin ToSet(f[n])
      BY <1>1, <1>8, <3>1, <3>2 DEF IsInjective
    <3>4. f[n + 1] = Append(f[n], seq[n + 1]) /\ f[n] \in Seq(X) /\ seq[n + 1] \in X
      BY <1>1, <1>2, <3>1, <3>3
    <3>5. f[n] = start(n)
      BY <2>2
    <3>6. Append(f[n], seq[n + 1]) = start(n + 1)
      <4>1. Len(f[n]) = n /\ \A i \in 1..n : f[n][i] = seq[i]
        BY <3>1, <3>5
      <4> DEFINE s == f[n]
      <4>2. s \in Seq(X) /\ Len(s) = n
        BY <3>4, <4>1
      <4> HIDE DEF s
      <4>3. Append(s, seq[n + 1]) = [i \in 1..(n + 1) |-> IF i <= n THEN s[i] ELSE seq[n + 1]]
        BY <3>1, <3>4, <4>2
      <4>4. \A i \in 1..(n + 1) : i \in 1..n \/ i = n + 1
        BY <3>1
      <4> QED
        BY <3>1, <4>1, <4>3, <4>4 DEF s
    <3> QED
      BY <3>1, <3>4, <3>6
  <2>3. 0..L \subseteq V
    <3> HIDE DEF V
    <3> QED
      BY <1>1, <2>1, <2>2, BoundedInduction
  <2>4. L \in V
    <3> HIDE DEF V
    <3> QED
      BY <1>1, <2>3
  <2> QED
    BY <1>1, <2>4
<1>9. f[L] \in Seq(X)
  BY <1>1, <1>2
<1> QED
  BY <1>2, <1>6, <1>7, <1>8, <1>9

-----------------------------------------------------------------------------
(* The atoms of an artifact can be ranked: a parent comes before its       *)
(* children.  So the recursions over parents have the values they describe.*)

Ranks(atoms, rank) ==
    /\ rank \in [atoms -> Nat]
    /\ \A a \in atoms : /\ a.parents \in Seq(atoms)
                        /\ \A p \in ToSet(a.parents) : p \in atoms /\ rank[p] < rank[a]

LEMMA AtomRanks ==
    ASSUME NEW ir, Readable(ir)
    PROVE  \E N, rank : /\ N \in Nat /\ Ranks(ToSet(ir.atoms), rank)
                        /\ \A a \in ToSet(ir.atoms) : rank[a] < N
PROOF
<1> DEFINE s == ir.atoms
           atoms == ToSet(s)
           L == Len(s)
           rank == [a \in atoms |-> CHOOSE i \in 1..L : s[i] = a]
<1>1. /\ s \in Seq(atoms) /\ IsInjective(s)
      /\ \A i \in DOMAIN s : s[i].parents \in Seq(Earlier(s, i))
  BY DEF Readable, Decoded
<1> HIDE DEF s
<1>2. L \in Nat /\ DOMAIN s = 1..L
  BY <1>1
<1>3. \A a \in atoms : rank[a] \in 1..L /\ s[rank[a]] = a
  BY <1>2 DEF ToSet
<1>4. \A i \in 1..L : rank[s[i]] = i
  BY <1>1, <1>2, <1>3 DEF ToSet, IsInjective
<1> HIDE DEF rank
<1>5. ASSUME NEW a \in atoms
      PROVE  a.parents \in Seq(atoms) /\ \A p \in ToSet(a.parents) : p \in atoms /\ rank[p] < rank[a]
  <2> DEFINE i == rank[a]  q == a.parents
  <2>1. i \in 1..L /\ s[i] = a /\ q \in Seq(Earlier(s, i))
    BY <1>1, <1>2, <1>3
  <2>2. \A p \in Earlier(s, i) : p \in atoms /\ rank[p] < i
    <3> SUFFICES ASSUME NEW j \in 1..(i - 1) PROVE s[j] \in atoms /\ rank[s[j]] < i
      BY DEF Earlier
    <3>1. j \in 1..L /\ j < i
      BY <1>2, <2>1
    <3> QED
      BY <1>2, <1>4, <3>1 DEF ToSet
  <2> HIDE DEF i, q
  <2>3. \A p \in ToSet(q) : p \in Earlier(s, i)
    BY <2>1 DEF ToSet
  <2>4. q \in Seq(atoms)
    <3>1. Len(q) \in Nat /\ q = [n \in 1..Len(q) |-> q[n]] /\ \A n \in 1..Len(q) : q[n] \in Earlier(s, i)
      BY <2>1
    <3>2. \A n \in 1..Len(q) : q[n] \in atoms
      BY <2>2, <3>1
    <3> HIDE DEF atoms
    <3> QED
      BY <3>1, <3>2
  <2> QED
    BY <2>2, <2>3, <2>4 DEF i, q
<1>6. rank \in [atoms -> Nat] /\ \A a \in atoms : rank[a] < L + 1
  <2>1. \A a \in atoms : rank[a] \in Nat /\ rank[a] < L + 1
    BY <1>2, <1>3
  <2> QED
    BY <2>1 DEF rank
<1>7. L + 1 \in Nat
  BY <1>2
<1>8. Ranks(atoms, rank)
  BY <1>5, <1>6 DEF Ranks
<1> HIDE DEF rank, L
<1> QED
  BY <1>6, <1>7, <1>8 DEF s

LEMMA AncestorsSolved ==
    ASSUME NEW ir, Readable(ir), NEW a \in ToSet(ir.atoms)
    PROVE  LET anc == AncestorSources(ToSet(ir.atoms)) IN
           anc[a] = {p.source : p \in ToSet(a.parents)} \cup UNION {anc[p] : p \in ToSet(a.parents)}
PROOF
<1> DEFINE atoms == ToSet(ir.atoms)
           T == SUBSET {b.source : b \in atoms}
           Of(x, f) == {p.source : p \in ToSet(x.parents)} \cup UNION {f[p] : p \in ToSet(x.parents)}
           D == [q \in atoms \X [atoms -> T] |-> Of(q[1], q[2])]
           Eq(f) == f = [x \in atoms |-> Of(x, f)]
<1>1. PICK N, rank : N \in Nat /\ Ranks(atoms, rank) /\ \A x \in atoms : rank[x] < N
  BY AtomRanks
<1>2. rank \in [atoms -> Nat] /\ \A x \in atoms : \A p \in ToSet(x.parents) : p \in atoms /\ rank[p] < rank[x]
  BY <1>1 DEF Ranks
<1>3. a \in atoms
  OBVIOUS
<1> HIDE DEF atoms
<1>4. D \in [atoms \X [atoms -> T] -> T]
  <2>1. ASSUME NEW x \in atoms, NEW f \in [atoms -> T] PROVE Of(x, f) \in T
    <3>1. \A p \in ToSet(x.parents) : p.source \in {b.source : b \in atoms} /\ f[p] \in T
      BY <1>2
    <3> QED
      BY <3>1
  <2> HIDE DEF Of, T
  <2> QED
    BY <2>1
<1>5. ASSUME NEW x \in atoms, NEW g \in [atoms -> T], NEW h \in [atoms -> T],
             \A y \in atoms : rank[y] < rank[x] => g[y] = h[y]
      PROVE  D[<<x, g>>] = D[<<x, h>>]
  <2>1. \A p \in ToSet(x.parents) : g[p] = h[p]
    BY <1>2, <1>5
  <2>2. Of(x, g) = Of(x, h)
    BY <2>1
  <2> HIDE DEF Of
  <2> QED
    BY <2>2
<1>6. T # {}
  OBVIOUS
<1>7. PICK f \in [atoms -> T] : Solves(f, atoms, D)
  <2> HIDE DEF T, D
  <2>1. DependsBelow(D, atoms, T, rank)
    BY <1>5 DEF DependsBelow
  <2>2. rank \in [atoms -> Nat] /\ (\A x \in atoms : rank[x] < N) /\ N \in Nat
    BY <1>1, <1>2
  <2> QED
    BY <1>4, <1>6, <2>1, <2>2, RankedRecursion
<1>8. \A x \in atoms : f[x] = Of(x, f)
  <2> HIDE DEF Of
  <2> QED
    BY <1>7 DEF Solves
<1> HIDE DEF Of, T, D
<1>9. Eq(f)
  BY <1>7, <1>8
<1> DEFINE anc == CHOOSE g : Eq(g)
<1>10. Eq(anc)
  BY <1>9
<1>11. anc[a] = Of(a, anc)
  <2> HIDE DEF anc
  <2> QED
    BY <1>3, <1>10
<1>12. AncestorSources(atoms) = anc
  BY DEF AncestorSources, Of
<1> HIDE DEF anc
<1> QED
  BY <1>11, <1>12 DEF Of, atoms

Resolves(resolve, map, atoms) ==
    \A a \in atoms :
       /\ resolve[a] = IF a \in DOMAIN map THEN <<map[a]>>
                       ELSE FlattenSeq([n \in DOMAIN a.parents |-> resolve[a.parents[n]]])
       /\ MappedParents(a.parents, map, atoms) =
             FirstOccurrences(FlattenSeq([n \in DOMAIN a.parents |-> resolve[a.parents[n]]]))

LEMMA ResolveSolved ==
    ASSUME NEW ir, Readable(ir), NEW X, NEW map, DOMAIN map \subseteq ToSet(ir.atoms),
           \A a \in DOMAIN map : map[a] \in X
    PROVE  \E resolve \in [ToSet(ir.atoms) -> Seq(X)] : Resolves(resolve, map, ToSet(ir.atoms))
PROOF
<1> DEFINE atoms == ToSet(ir.atoms)
           T == Seq(X)
           Through(x, f) == FlattenSeq([n \in DOMAIN x.parents |-> f[x.parents[n]]])
           Of(x, f) == IF x \in DOMAIN map THEN <<map[x]>> ELSE Through(x, f)
           D == [q \in atoms \X [atoms -> T] |-> Of(q[1], q[2])]
           Eq(f) == f = [x \in atoms |-> Of(x, f)]
<1>1. PICK N, rank : N \in Nat /\ Ranks(atoms, rank) /\ \A x \in atoms : rank[x] < N
  BY AtomRanks
<1>2. rank \in [atoms -> Nat]
      /\ \A x \in atoms : /\ x.parents \in Seq(atoms)
                          /\ \A n \in DOMAIN x.parents : rank[x.parents[n]] < rank[x]
  BY <1>1 DEF Ranks, ToSet
<1> HIDE DEF atoms
<1>3. D \in [atoms \X [atoms -> T] -> T]
  <2> SUFFICES ASSUME NEW x \in atoms, NEW f \in [atoms -> T] PROVE Of(x, f) \in T
    OBVIOUS
  <2> DEFINE ss == [n \in DOMAIN x.parents |-> f[x.parents[n]]]
  <2>1. ss \in Seq(Seq(X))
    <3> DEFINE q == x.parents
    <3>1. q \in Seq(atoms)
      BY <1>2
    <3> HIDE DEF q
    <3>2. Len(q) \in Nat /\ DOMAIN q = 1..Len(q) /\ \A n \in 1..Len(q) : f[q[n]] \in T
      BY <3>1
    <3> HIDE DEF T
    <3>3. [n \in DOMAIN q |-> f[q[n]]] \in Seq(T)
      BY <3>2
    <3> QED
      BY <3>3 DEF q, T
  <2> HIDE DEF ss
  <2>2. FlattenSeq(ss) \in Seq(X)
    BY <2>1, FlattenHolds
  <2>3. x \in DOMAIN map => <<map[x]>> \in Seq(X)
    OBVIOUS
  <2> QED
    BY <2>2, <2>3 DEF ss
<1>4. ASSUME NEW x \in atoms, NEW g \in [atoms -> T], NEW h \in [atoms -> T],
             \A y \in atoms : rank[y] < rank[x] => g[y] = h[y]
      PROVE  D[<<x, g>>] = D[<<x, h>>]
  <2>1. \A n \in DOMAIN x.parents : g[x.parents[n]] = h[x.parents[n]]
    <3>1. \A n \in DOMAIN x.parents : x.parents[n] \in atoms
      BY <1>2
    <3> QED
      BY <1>2, <1>4, <3>1
  <2>2. [n \in DOMAIN x.parents |-> g[x.parents[n]]] = [n \in DOMAIN x.parents |-> h[x.parents[n]]]
    BY <2>1
  <2>3. Of(x, g) = Of(x, h)
    BY <2>2
  <2> HIDE DEF Of
  <2> QED
    BY <2>3
<1>5. T # {}
  <2>1. <<>> \in T
    OBVIOUS
  <2> QED
    BY <2>1
<1>6. PICK f \in [atoms -> T] : Solves(f, atoms, D)
  <2> HIDE DEF T, D
  <2>1. DependsBelow(D, atoms, T, rank)
    BY <1>4 DEF DependsBelow
  <2>2. rank \in [atoms -> Nat] /\ (\A x \in atoms : rank[x] < N) /\ N \in Nat
    BY <1>1, <1>2
  <2> QED
    BY <1>3, <1>5, <2>1, <2>2, RankedRecursion
<1>7. \A x \in atoms : f[x] = Of(x, f)
  <2> HIDE DEF Of
  <2> QED
    BY <1>6 DEF Solves
<1> HIDE DEF Of, Through, T, D
<1>9. Eq(f)
  BY <1>6, <1>7
<1> DEFINE resolve == CHOOSE g : Eq(g)
<1>10. Eq(resolve)
  BY <1>9
<1>11. \A parents : MappedParents(parents, map, atoms) =
                       FirstOccurrences(FlattenSeq([n \in DOMAIN parents |-> resolve[parents[n]]]))
  BY DEF MappedParents, Of, Through
<1>12. ASSUME NEW g, Eq(g) PROVE g = f
  <2> DEFINE U == {x \in atoms : g[x] = f[x]}
  <2>1. ASSUME NEW x \in atoms, \A y \in atoms : rank[y] < rank[x] => y \in U PROVE x \in U
    <3>1. \A n \in DOMAIN x.parents : x.parents[n] \in atoms
      BY <1>2
    <3>2. \A n \in DOMAIN x.parents : g[x.parents[n]] = f[x.parents[n]]
      BY <1>2, <2>1, <3>1
    <3>3. [n \in DOMAIN x.parents |-> g[x.parents[n]]] = [n \in DOMAIN x.parents |-> f[x.parents[n]]]
      BY <3>2
    <3>4. Of(x, g) = Of(x, f)
      BY <3>3 DEF Of, Through
    <3> QED
      BY <1>7, <1>12, <3>4
  <2>2. atoms \subseteq U
    <3> HIDE DEF U
    <3> QED
      BY <1>2, <2>1, RankInduction
  <2>3. g = [x \in atoms |-> g[x]] /\ f = [x \in atoms |-> f[x]]
    BY <1>12, <1>6
  <2> QED
    BY <2>2, <2>3
<1>13. resolve = f
  BY <1>10, <1>12
<1> HIDE DEF resolve, Eq
<1>14. \A parents : MappedParents(parents, map, atoms) =
                       FirstOccurrences(FlattenSeq([n \in DOMAIN parents |-> f[parents[n]]]))
  BY <1>11, <1>13
<1>15. f \in [ToSet(ir.atoms) -> Seq(X)]
  BY <1>6 DEF T, atoms
<1>16. \A a \in ToSet(ir.atoms) :
          f[a] = IF a \in DOMAIN map THEN <<map[a]>>
                 ELSE FlattenSeq([n \in DOMAIN a.parents |-> f[a.parents[n]]])
  BY <1>7 DEF Of, Through, atoms
<1> WITNESS f \in [ToSet(ir.atoms) -> Seq(X)]
<1> QED
  BY <1>14, <1>16 DEF atoms, Resolves

-----------------------------------------------------------------------------
(* What Check looks at: the matching, the operations at a path, the refs   *)
(* at a key, the subjects of the new drops.                                *)

Accepts(in, out, name) == Readable(in.ir) /\ Readable(out.ir) /\ Check(in, out, name)

LEMMA Matching ==
    ASSUME NEW in, NEW out, NEW name, Check(in, out, name)
    PROVE  LET map == IdMap(in, out) IN
           /\ \A a \in DOMAIN map : /\ a \in ToSet(in.ir.atoms) /\ map[a] \in ToSet(out.ir.atoms)
                                    /\ map[a].source = a.source
           /\ \A a, b \in DOMAIN map : map[a] = map[b] => a = b
           /\ \A a \in ToSet(in.ir.atoms), b \in ToSet(out.ir.atoms) :
                 a.source = b.source => a \in DOMAIN map /\ map[a] = b
           /\ \A a \in DOMAIN map : AtomIsHonest(in, out, map, a)
PROOF
<1> DEFINE map == IdMap(in, out)
<1>1. \A a, b \in ToSet(in.ir.atoms) : a.source = b.source => a = b
  BY DEF Check, UniqueSources, ToSet
<1>2. \A a, b \in ToSet(out.ir.atoms) : a.source = b.source => a = b
  BY DEF Check, AtomsAccounted, UniqueSources, ToSet
<1>3. \A a \in DOMAIN map : a \in ToSet(in.ir.atoms) /\ map[a] \in ToSet(out.ir.atoms) /\ map[a].source = a.source
  BY DEF IdMap
<1>4. \A a \in ToSet(in.ir.atoms), b \in ToSet(out.ir.atoms) : a.source = b.source => a \in DOMAIN map
  BY DEF IdMap
<1>5. \A a \in DOMAIN map : AtomIsHonest(in, out, map, a)
  BY DEF Check
<1> HIDE DEF map
<1> QED
  BY <1>1, <1>2, <1>3, <1>4, <1>5 DEF map

LEMMA OpAt ==
    ASSUME NEW ops, \A o1, o2 \in ops : o1.path = o2.path => o1 = o2
    PROVE  /\ \A path \in Paths(ops) : At(ops, path) \in ops /\ At(ops, path).path = path
           /\ \A op \in ops : op.path \in Paths(ops) /\ At(ops, op.path) = op
PROOF BY DEF Paths, At

LEMMA KeysCount ==
    ASSUME NEW ir, IsFiniteSet(ir.refs), OneRefPerKey(ir.refs)
    PROVE  /\ IsFiniteSet(RefKeys(ir)) /\ Cardinality(RefKeys(ir)) = Cardinality(ir.refs)
           /\ \A rf \in ir.refs : RefKey(rf) \in RefKeys(ir) /\ RefAt(ir, RefKey(rf)) = rf
           /\ \A key \in RefKeys(ir) : RefAt(ir, key) \in ir.refs /\ RefKey(RefAt(ir, key)) = key
PROOF
<1> DEFINE f == [rf \in ir.refs |-> RefKey(rf)]
<1>1. f \in [ir.refs -> RefKeys(ir)] /\ (\A r, s \in ir.refs : f[r] = f[s] => r = s)
      /\ \A key \in RefKeys(ir) : \E rf \in ir.refs : f[rf] = key
  BY DEF RefKeys, OneRefPerKey
<1>2. /\ \A rf \in ir.refs : RefKey(rf) \in RefKeys(ir) /\ RefAt(ir, RefKey(rf)) = rf
      /\ \A key \in RefKeys(ir) : RefAt(ir, key) \in ir.refs /\ RefKey(RefAt(ir, key)) = key
  BY DEF RefKeys, RefAt, OneRefPerKey
<1> HIDE DEF f
<1> QED
  BY <1>1, <1>2, SameCount

\* The subjects Check reads from the new drops are those HonestStep sees.
LEMMA DropsAreSeen ==
    ASSUME NEW in, NEW out, PassesThrough(in, out)
    PROVE  /\ \A x : <<x>> \in DropSubjects(in, out, "atom") <=> <<"atom", x>> \in StepDrops(in.ir, out.ir)
           /\ \A word \in {"op", "copy", "ref"} : \A x, y :
                 <<x, y>> \in DropSubjects(in, out, word) <=> <<word, x, y>> \in StepDrops(in.ir, out.ir)
           /\ \A what \in StepDrops(in.ir, out.ir) : NamesASubject(what)
PROOF
<1>1. /\ \A d \in NewDrops(in, out) : d.what \in StepDrops(in.ir, out.ir) /\ NamesASubject(d.what)
      /\ \A what \in StepDrops(in.ir, out.ir) : \E d \in NewDrops(in, out) : d.what = what
  BY DEF NewDrops, StepDrops, PassesThrough
<1>2. \A x, y : Head(<<x, y>>) = x /\ Tail(<<x, y>>) = <<y>>
  OBVIOUS
<1>3. \A x, y, z : Head(<<x, y, z>>) = x /\ Tail(<<x, y, z>>) = <<y, z>>
  OBVIOUS
<1>4. ASSUME NEW x, <<x>> \in DropSubjects(in, out, "atom")
      PROVE  <<"atom", x>> \in StepDrops(in.ir, out.ir)
  <2>1. PICK d \in NewDrops(in, out) : Head(d.what) = "atom" /\ Tail(d.what) = <<x>>
    BY <1>4 DEF DropSubjects
  <2>2. CASE d.what = <<"atom", d.what[2]>>
    <3>1. <<x>> = <<d.what[2]>>
      BY <1>2, <2>1, <2>2
    <3> QED
      BY <1>1, <2>2, <3>1
  <2>3. CASE d.what[1] \in {"op", "copy", "ref"} /\ d.what = <<d.what[1], d.what[2], d.what[3]>>
    BY <1>3, <2>1, <2>3
  <2> QED
    BY <1>1, <2>2, <2>3 DEF NamesASubject
<1>5. ASSUME NEW word \in {"op", "copy", "ref"}, NEW x, NEW y, <<x, y>> \in DropSubjects(in, out, word)
      PROVE  <<word, x, y>> \in StepDrops(in.ir, out.ir)
  <2>1. PICK d \in NewDrops(in, out) : Head(d.what) = word /\ Tail(d.what) = <<x, y>>
    BY <1>5 DEF DropSubjects
  <2>2. CASE d.what = <<"atom", d.what[2]>>
    BY <1>2, <2>1, <2>2
  <2>3. CASE d.what[1] \in {"op", "copy", "ref"} /\ d.what = <<d.what[1], d.what[2], d.what[3]>>
    <3>1. PICK u, v, w : d.what = <<u, v, w>>
      BY <2>3
    <3>2. u = word
      BY <1>3, <2>1, <3>1
    <3>3. <<x, y>> = <<v, w>>
      BY <1>3, <2>1, <3>1
    <3>4. x = v /\ y = w
      BY <3>3
    <3> QED
      BY <1>1, <3>1, <3>2, <3>4
  <2> QED
    BY <1>1, <2>2, <2>3 DEF NamesASubject
<1>6. ASSUME NEW x, <<"atom", x>> \in StepDrops(in.ir, out.ir)
      PROVE  <<x>> \in DropSubjects(in, out, "atom")
  <2>1. PICK d \in NewDrops(in, out) : d.what = <<"atom", x>>
    BY <1>1, <1>6
  <2>2. Head(d.what) = "atom" /\ Tail(d.what) = <<x>>
    BY <1>2, <2>1
  <2> QED
    BY <2>2 DEF DropSubjects
<1>7. ASSUME NEW word \in {"op", "copy", "ref"}, NEW x, NEW y, <<word, x, y>> \in StepDrops(in.ir, out.ir)
      PROVE  <<x, y>> \in DropSubjects(in, out, word)
  <2>1. PICK d \in NewDrops(in, out) : d.what = <<word, x, y>>
    BY <1>1, <1>7
  <2>2. Head(d.what) = word /\ Tail(d.what) = <<x, y>>
    BY <1>3, <2>1
  <2> QED
    BY <2>2 DEF DropSubjects
<1>8. \A what \in StepDrops(in.ir, out.ir) : NamesASubject(what)
  BY <1>1
<1> QED
  BY <1>4, <1>5, <1>6, <1>7, <1>8

\* So an operation of an atom, or a ref, is dropped for the one as for the other.
LEMMA DroppedIsSeen ==
    ASSUME NEW in, NEW out, PassesThrough(in, out)
    PROVE  /\ \A a, path : path \in DroppedPaths(in.ir, out.ir, a)
                              <=> <<a, path>> \in DropSubjects(in, out, "op")
           /\ \A kind, name : <<kind, name>> \in DroppedRefs(in.ir, out.ir)
                              <=> <<kind, name>> \in DropSubjects(in, out, "ref")
PROOF
<1> DEFINE drops == StepDrops(in.ir, out.ir)
<1>1. \A what \in drops : what[1] \in {"op", "ref"} => what = <<what[1], what[2], what[3]>>
  <2>1. \A what : NamesASubject(what) /\ what[1] \in {"op", "ref"} => what = <<what[1], what[2], what[3]>>
    BY DEF NamesASubject
  <2> QED
    BY <2>1, DropsAreSeen
<1>2. ASSUME NEW a, NEW path
      PROVE  path \in DroppedPaths(in.ir, out.ir, a) <=> <<"op", a, path>> \in drops
  <2>1. <<"op", a, path>>[1] = "op" /\ <<"op", a, path>>[2] = a /\ <<"op", a, path>>[3] = path
    OBVIOUS
  <2>2. ASSUME <<"op", a, path>> \in drops PROVE path \in DroppedPaths(in.ir, out.ir, a)
    BY <2>1, <2>2 DEF DroppedPaths
  <2>3. ASSUME path \in DroppedPaths(in.ir, out.ir, a) PROVE <<"op", a, path>> \in drops
    <3>1. PICK what \in drops : what[1] = "op" /\ what[2] = a /\ what[3] = path
      BY <2>3 DEF DroppedPaths
    <3> QED
      BY <1>1, <3>1
  <2> QED
    BY <2>2, <2>3
<1>3. ASSUME NEW kind, NEW name
      PROVE  <<kind, name>> \in DroppedRefs(in.ir, out.ir) <=> <<"ref", kind, name>> \in drops
  <2>1. <<"ref", kind, name>>[1] = "ref" /\ <<"ref", kind, name>>[2] = kind /\ <<"ref", kind, name>>[3] = name
    OBVIOUS
  <2>2. ASSUME <<"ref", kind, name>> \in drops PROVE <<kind, name>> \in DroppedRefs(in.ir, out.ir)
    BY <2>1, <2>2 DEF DroppedRefs
  <2>3. ASSUME <<kind, name>> \in DroppedRefs(in.ir, out.ir) PROVE <<"ref", kind, name>> \in drops
    <3>1. PICK what \in drops : what[1] = "ref" /\ <<what[2], what[3]>> = <<kind, name>>
      BY <2>3 DEF DroppedRefs
    <3>2. what[2] = kind /\ what[3] = name
      BY <3>1
    <3> QED
      BY <1>1, <3>1, <3>2
  <2> QED
    BY <2>2, <2>3
<1> HIDE DEF drops
<1> QED
  BY <1>2, <1>3, DropsAreSeen DEF drops

-----------------------------------------------------------------------------
(* Counting is tracing.  When there are as many new keys as keys gone and  *)
(* not dropped, the new can be traced to the gone one to one: each record  *)
(* has one of its own behind it, and all that is left over is dropped.     *)

\* Each record of A has a key of its own, and these are the keys.
Keyed(A, key, keys) ==
    /\ IsFiniteSet(A) /\ key \in [A -> keys]
    /\ \A x, y \in A : key[x] = key[y] => x = y
    /\ \A z \in keys : \E x \in A : key[x] = z

Traces(from, A, ka, was, B, kb, now, D) ==
    /\ from \in Injection(B, A)
    /\ \A b \in B : IF kb[b] \in was THEN ka[from[b]] = kb[b]
                    ELSE ka[from[b]] \notin now \cup D
    /\ \A a \in A : (\E b \in B : from[b] = a) \/ ka[a] \in D

LEMMA CountedReading ==
    ASSUME NEW A, NEW ka, NEW was, NEW B, NEW kb, NEW now, NEW D,
           Keyed(A, ka, was), Keyed(B, kb, now),
           Cardinality(now \ was) = Cardinality((was \ now) \ D)
    PROVE  \E from : Traces(from, A, ka, was, B, kb, now, D)
PROOF
<1>0. /\ IsFiniteSet(A) /\ ka \in [A -> was] /\ IsFiniteSet(B) /\ kb \in [B -> now]
      /\ \A x, y \in A : ka[x] = ka[y] => x = y
      /\ \A x, y \in B : kb[x] = kb[y] => x = y
      /\ \A z \in was : \E x \in A : ka[x] = z
      /\ \A z \in now : \E x \in B : kb[x] = z
  BY DEF Keyed
<1> DEFINE new   == now \ was
           moved == (was \ now) \ D
<1>1. IsFiniteSet(new) /\ IsFiniteSet(moved)
  <2>1. IsFiniteSet(was) /\ IsFiniteSet(now)
    BY <1>0, SameCount
  <2> QED
    BY <2>1, FS_Subset
<1>2. PICK g \in Bijection(new, moved) : TRUE
  <2> HIDE DEF new, moved
  <2>1. ExistsBijection(new, moved)
    BY <1>1, FS_SameCardinalityBij DEF new, moved
  <2> QED
    BY <2>1 DEF ExistsBijection
<1>3. /\ g \in [new -> moved] /\ \A x, y \in new : g[x] = g[y] => x = y
      /\ \A z \in moved : \E x \in new : g[x] = z
  BY <1>2 DEF Bijection, Injection, Surjection, IsInjective
<1> DEFINE key == [b \in B |-> IF kb[b] \in was THEN kb[b] ELSE g[kb[b]]]
           from == [b \in B |-> CHOOSE a \in A : ka[a] = key[b]]
<1>4. \A b \in B : key[b] \in was
  BY <1>0, <1>3
<1>5. \A b \in B : from[b] \in A /\ ka[from[b]] = key[b]
  <2> HIDE DEF key
  <2> QED
    BY <1>0, <1>4
<1> HIDE DEF from
<1>6. \A b \in B : IF kb[b] \in was THEN key[b] = kb[b] /\ key[b] \in now
                   ELSE key[b] = g[kb[b]] /\ kb[b] \in new /\ key[b] \in moved
  BY <1>0, <1>3
<1>7. \A x, y \in B : key[x] = key[y] => x = y
  BY <1>0, <1>3, <1>6
<1>8. from \in Injection(B, A)
  <2>1. from \in [B -> A]
    BY <1>5 DEF from
  <2>2. \A x, y \in B : from[x] = from[y] => x = y
    BY <1>0, <1>5, <1>7
  <2> QED
    BY <2>1, <2>2 DEF Injection, IsInjective
<1>9. ASSUME NEW b \in B
      PROVE  IF kb[b] \in was THEN ka[from[b]] = kb[b] ELSE ka[from[b]] \notin now \cup D
  BY <1>5, <1>6
<1>10. ASSUME NEW a \in A, ka[a] \notin D PROVE \E b \in B : from[b] = a
  <2>1. PICK b \in B : key[b] = ka[a]
    <3>1. CASE ka[a] \in now
      <4>1. PICK b \in B : kb[b] = ka[a]
        BY <1>0, <3>1
      <4> QED
        BY <1>0, <4>1
    <3>2. CASE ka[a] \notin now
      <4>1. ka[a] \in moved
        BY <1>0, <1>10, <3>2
      <4>2. PICK x \in new : g[x] = ka[a]
        BY <1>3, <4>1
      <4>3. PICK b \in B : kb[b] = x
        BY <1>0, <4>2
      <4> QED
        BY <4>2, <4>3
    <3> QED
      BY <3>1, <3>2
  <2> QED
    BY <1>0, <1>5, <2>1
<1> WITNESS from
<1> QED
  BY <1>8, <1>9, <1>10 DEF Traces

-----------------------------------------------------------------------------
(* One surviving atom.                                                     *)

OpsDecoded(ops) ==
    /\ IsFiniteSet(ops)
    /\ \A op \in ops : op = PlainOp(op)
    /\ \A o1, o2 \in ops : o1.path = o2.path => o1 = o2

LEMMA PairIsHonest ==
    ASSUME NEW in, NEW out, NEW name, Accepts(in, out, name),
           NEW a \in ToSet(in.ir.atoms), NEW b \in ToSet(out.ir.atoms), a.source = b.source
    PROVE  LET map == IdMap(in, out) IN
           /\ a \in DOMAIN map /\ map[a] = b
           /\ OpsDecoded(a.ops) /\ OpsDecoded(b.ops)
           /\ OpsAreHonest(a, b, DropSubjects(in, out, "op"), Len(in.ir.chain))
           /\ CopiesAreHonest(a, b, DropSubjects(in, out, "copy"), map)
           /\ b.parents = MappedParents(a.parents, map, ToSet(in.ir.atoms))
           /\ MarkIsExact(a.status, b.status, AtomDiffers(a, b, map), Len(in.ir.chain))
PROOF
<1> DEFINE map == IdMap(in, out)
<1>1. a \in DOMAIN map /\ map[a] = b /\ AtomIsHonest(in, out, map, a)
  BY Matching DEF Accepts
<1>2. OpsDecoded(a.ops) /\ OpsDecoded(b.ops)
  BY DEF Accepts, Readable, Decoded, OpsDecoded
<1> HIDE DEF map
<1> QED
  BY <1>1, <1>2 DEF AtomIsHonest, Step, map

\* An operation without a mark of this step is one of the input's.
LEMMA UnmarkedOp ==
    ASSUME NEW a, NEW b, NEW drops, NEW k, OpsDecoded(a.ops), OpsDecoded(b.ops),
           OpsAreHonest(a, b, drops, k), NEW op \in b.ops, ~ MarkedBy(k, op.status)
    PROVE  op \in a.ops
PROOF
<1> DEFINE o == At(a.ops, op.path)
<1>1. op.path \in Paths(b.ops) /\ At(b.ops, op.path) = op
  BY OpAt DEF OpsDecoded
<1>2. op.path \in Paths(a.ops)
  BY <1>1 DEF OpsAreHonest, NewPaths, MarkNames, MarkedBy
<1>3. o \in a.ops /\ o.path = op.path
  BY <1>2, OpAt DEF OpsDecoded
<1>4. KeptOpIsHonest(o, op, k)
  BY <1>1, <1>2 DEF OpsAreHonest, KeptPaths
<1>5. o = PlainOp(o) /\ op = PlainOp(op)
  BY <1>3 DEF OpsDecoded
<1> HIDE DEF o
<1>6. o.kind = op.kind /\ o.status = op.status /\ OpDiffers(o, op) = {}
  BY <1>4 DEF KeptOpIsHonest, OpPayload, MarkIsExact, MarkedBy
<1>7. o.blob = op.blob /\ o.mode = op.mode
  BY <1>6 DEF OpDiffers, OpPayload
<1> QED
  BY <1>3, <1>5, <1>6, <1>7 DEF PlainOp

\* A mark of this step on an operation that kept its path is on the input's status.
LEMMA MarkedOp ==
    ASSUME NEW a, NEW b, NEW drops, NEW k, OpsDecoded(a.ops), OpsDecoded(b.ops),
           OpsAreHonest(a, b, drops, k), NEW o \in a.ops, NEW p \in b.ops,
           o.path = p.path, MarkedBy(k, p.status)
    PROVE  Prior(p.status) = o.status
PROOF
<1>1. At(a.ops, o.path) = o /\ At(b.ops, o.path) = p /\ o.path \in KeptPaths(a, b)
  BY OpAt DEF OpsDecoded, KeptPaths
<1> QED
  BY <1>1 DEF OpsAreHonest, KeptOpIsHonest, MarkIsExact, MarkedBy

\* Changes of an operation that kept its path are named by its mark.
LEMMA ChangedOp ==
    ASSUME NEW a, NEW b, NEW drops, NEW k, OpsDecoded(a.ops), OpsDecoded(b.ops),
           OpsAreHonest(a, b, drops, k), NEW o \in a.ops, NEW p \in b.ops, o.path = p.path
    PROVE  OpChangesAreNamed(k, o, p)
PROOF
<1>1. At(a.ops, o.path) = o /\ At(b.ops, o.path) = p /\ o.path \in KeptPaths(a, b)
  BY OpAt DEF OpsDecoded, KeptPaths
<1>2. KeptOpIsHonest(o, p, k)
  BY <1>1 DEF OpsAreHonest
<1>3. p.kind = o.kind
  BY <1>2 DEF KeptOpIsHonest, OpPayload
<1>4. /\ p.blob # o.blob => "blob" \in OpDiffers(o, p)
      /\ p.mode # o.mode => "mode" \in OpDiffers(o, p)
  BY DEF OpDiffers, OpPayload
<1>5. \A part \in OpDiffers(o, p) : NamedBy(k, p.status, part)
  BY <1>2 DEF KeptOpIsHonest, MarkIsExact, NamedBy, MarkedBy
<1> QED
  BY <1>3, <1>4, <1>5 DEF OpChangesAreNamed

\* The operations of a surviving atom can be read, and what is left over is dropped.
LEMMA OpsAreRead ==
    ASSUME NEW in, NEW out, NEW name, Accepts(in, out, name),
           NEW a \in ToSet(in.ir.atoms), NEW b \in ToSet(out.ir.atoms), a.source = b.source
    PROVE  LET dropped == DroppedPaths(in.ir, out.ir, a) IN
           \E from \in OpReadings(Len(in.ir.chain), a, b, dropped) :
               \A op \in a.ops : op \in Range(from) \/ op.path \in dropped
PROOF
<1> DEFINE k       == Len(in.ir.chain)
           drops   == DropSubjects(in, out, "op")
           dropped == DroppedPaths(in.ir, out.ir, a)
           was     == Paths(a.ops)
           now     == Paths(b.ops)
<1>1. OpsDecoded(a.ops) /\ OpsDecoded(b.ops) /\ OpsAreHonest(a, b, drops, k)
  BY PairIsHonest
<1>2. \A path : path \in dropped <=> <<a, path>> \in drops
  BY DroppedIsSeen DEF Accepts, Check
<1>3. Cardinality(now \ was) = Cardinality((was \ now) \ dropped)
  <2>1. now \ was = NewPaths(a, b)
    BY DEF NewPaths
  <2>2. (was \ now) \ dropped = {path \in GonePaths(a, b) : <<a, path>> \notin drops}
    BY <1>2 DEF GonePaths
  <2> QED
    BY <1>1, <2>1, <2>2 DEF OpsAreHonest
<1> DEFINE ka == [op \in a.ops |-> op.path]
           kb == [op \in b.ops |-> op.path]
<1>4. PICK from : Traces(from, a.ops, ka, was, b.ops, kb, now, dropped)
  <2>1. Keyed(a.ops, ka, was) /\ Keyed(b.ops, kb, now)
    BY <1>1 DEF Keyed, Paths, OpsDecoded
  <2> HIDE DEF ka, kb, was, now, dropped
  <2> QED
    BY <1>3, <2>1, CountedReading
<1>5. /\ from \in Injection(b.ops, a.ops) /\ from \in [b.ops -> a.ops]
      /\ \A op \in b.ops : IF kb[op] \in was THEN ka[from[op]] = kb[op]
                       ELSE ka[from[op]] \notin now \cup dropped
      /\ \A op \in a.ops : (\E p \in b.ops : from[p] = op) \/ ka[op] \in dropped
  BY <1>4 DEF Traces, Injection
<1> HIDE DEF dropped
<1>6. ASSUME NEW op \in b.ops
      PROVE  \/ from[op].path = op.path
             \/ /\ NamedBy(k, op.status, "path")
                /\ op.path \notin was
                /\ from[op].path \notin now \cup dropped
  <2>1. CASE op.path \in was
    BY <1>5, <2>1
  <2>2. CASE op.path \notin was
    <3>1. op.path \in NewPaths(a, b) /\ At(b.ops, op.path) = op
      BY <1>1, <2>2, OpAt DEF OpsDecoded, NewPaths
    <3>2. NamedBy(k, op.status, "path")
      BY <1>1, <3>1 DEF OpsAreHonest, MarkNames, NamedBy, MarkedBy
    <3> QED
      BY <1>5, <2>2, <3>2
  <2> QED
    BY <2>1, <2>2
<1>7. from \in OpReadings(k, a, b, dropped)
  BY <1>5, <1>6 DEF OpReadings
<1>8. \A op \in a.ops : op \in Range(from) \/ op.path \in dropped
  BY <1>5 DEF Range
<1> QED
  BY <1>7, <1>8 DEF dropped

\* Where no parent was removed, the parents are the input's, through the matching.
LEMMA ParentsMapped ==
    ASSUME NEW in, NEW out, NEW name, Accepts(in, out, name),
           NEW a \in ToSet(in.ir.atoms), NEW b \in ToSet(out.ir.atoms), a.source = b.source,
           ~ ParentsDiffer(a, IdMap(in, out))
    PROVE  LET mapped == [n \in DOMAIN a.parents |-> IdMap(in, out)[a.parents[n]]] IN
           /\ \A n \in DOMAIN a.parents : a.parents[n] \in DOMAIN IdMap(in, out)
           /\ mapped \in Seq(ToSet(out.ir.atoms)) /\ b.parents = FirstOccurrences(mapped)
PROOF
<1> DEFINE map == IdMap(in, out)
           X == ToSet(out.ir.atoms)
           s == a.parents
           t == [n \in DOMAIN s |-> map[s[n]]]
<1>1. /\ \A x \in DOMAIN map : x \in ToSet(in.ir.atoms) /\ map[x] \in X /\ map[x].source = x.source
      /\ \A x, y \in DOMAIN map : map[x] = map[y] => x = y
  BY Matching DEF Accepts
<1>2. PICK resolve \in [ToSet(in.ir.atoms) -> Seq(X)] : Resolves(resolve, map, ToSet(in.ir.atoms))
  <2>1. Readable(in.ir) /\ DOMAIN map \subseteq ToSet(in.ir.atoms) /\ \A x \in DOMAIN map : map[x] \in X
    BY <1>1 DEF Accepts
  <2> HIDE DEF map, X
  <2> QED
    BY <2>1, ResolveSolved
<1>3. b.parents = MappedParents(s, map, ToSet(in.ir.atoms))
  BY PairIsHonest
<1>4. \A n \in DOMAIN s : s[n] \in DOMAIN map
  BY DEF ParentsDiffer, ToSet
<1>5. s \in Seq(ToSet(in.ir.atoms))
  BY AtomRanks DEF Accepts, Ranks
<1> HIDE DEF map, X, s
<1>6. t \in Seq(X)
  <2>1. DOMAIN s = 1..Len(s) /\ Len(s) \in Nat
    BY <1>5
  <2>2. \A n \in 1..Len(s) : map[s[n]] \in X
    BY <1>1, <1>4, <2>1
  <2>3. t = [n \in 1..Len(s) |-> map[s[n]]]
    BY <2>1
  <2> QED
    BY <2>1, <2>2, <2>3
<1>7. [n \in DOMAIN s |-> resolve[s[n]]] = [n \in DOMAIN t |-> <<t[n]>>]
  <2>1. \A n \in DOMAIN s : resolve[s[n]] = <<map[s[n]]>>
    BY <1>1, <1>2, <1>4 DEF Resolves
  <2>2. DOMAIN t = DOMAIN s /\ \A n \in DOMAIN s : t[n] = map[s[n]]
    OBVIOUS
  <2> HIDE DEF t
  <2> QED
    BY <2>1, <2>2
<1>8. b.parents = FirstOccurrences(t)
  <2>1. FlattenSeq([n \in DOMAIN t |-> <<t[n]>>]) = t
    <3> HIDE DEF t
    <3> QED
      BY <1>6, FlattenSingletons
  <2>2. b.parents = FirstOccurrences(FlattenSeq([n \in DOMAIN s |-> resolve[s[n]]]))
    BY <1>2, <1>3 DEF s, Resolves
  <2> HIDE DEF t
  <2> QED
    BY <1>7, <2>1, <2>2
<1> HIDE DEF t
<1> QED
  BY <1>4, <1>6, <1>8 DEF map, X, s, t

\* So they are from the same sources.
LEMMA ParentsKept ==
    ASSUME NEW in, NEW out, NEW name, Accepts(in, out, name),
           NEW a \in ToSet(in.ir.atoms), NEW b \in ToSet(out.ir.atoms), a.source = b.source,
           ~ ParentsDiffer(a, IdMap(in, out))
    PROVE  /\ ToSet(SourcesOf(b.parents)) = ToSet(SourcesOf(a.parents))
           /\ IsInjective(a.parents) => SourcesOf(b.parents) = SourcesOf(a.parents)
PROOF
<1> DEFINE map == IdMap(in, out)
           X == ToSet(out.ir.atoms)
           s == a.parents
           t == [n \in DOMAIN s |-> map[s[n]]]
<1>1. /\ \A x \in DOMAIN map : x \in ToSet(in.ir.atoms) /\ map[x] \in X /\ map[x].source = x.source
      /\ \A x, y \in DOMAIN map : map[x] = map[y] => x = y
  BY Matching DEF Accepts
<1>4. \A n \in DOMAIN s : s[n] \in DOMAIN map
  BY ParentsMapped
<1>6. t \in Seq(X) /\ b.parents = FirstOccurrences(t)
  BY ParentsMapped
<1>8. b.parents = FirstOccurrences(t)
  BY <1>6
<1> HIDE DEF map, X, s
<1>9. DOMAIN t = DOMAIN s /\ \A n \in DOMAIN s : t[n] = map[s[n]] /\ t[n].source = s[n].source
  BY <1>1, <1>4
<1> HIDE DEF t
<1>10. ToSet(b.parents) = ToSet(t) /\ (IsInjective(t) => b.parents = t)
  BY <1>6, <1>8, FirstOccurrencesKeep
<1>11. \A seq : ToSet(SourcesOf(seq)) = {x.source : x \in ToSet(seq)}
  BY DEF ToSet, SourcesOf
<1>12. {x.source : x \in ToSet(t)} = {x.source : x \in ToSet(s)}
  BY <1>9 DEF ToSet
<1>13. SourcesOf(t) = SourcesOf(s)
  BY <1>9 DEF SourcesOf
<1>14. IsInjective(s) => IsInjective(t)
  BY <1>1, <1>4, <1>9 DEF IsInjective
<1> QED
  BY <1>10, <1>11, <1>12, <1>13, <1>14 DEF s

\* A copy alone at its destination is told apart from every other.
LEMMA LoneCopy ==
    ASSUME NEW copies, NEW c \in LoneCopies(copies)
    PROVE  c \in copies /\ c.to \in Destinations(copies) /\ CopyTo(copies, c.to) = c
PROOF BY DEF LoneCopies, Destinations, CopyTo

LEMMA CopyAt ==
    ASSUME NEW copies, NEW to \in Destinations(copies)
    PROVE  CopyTo(copies, to) \in copies /\ CopyTo(copies, to).to = to
PROOF BY DEF Destinations, CopyTo

LEMMA CopiesKept ==
    ASSUME NEW in, NEW out, NEW name, Accepts(in, out, name),
           NEW a \in ToSet(in.ir.atoms), NEW b \in ToSet(out.ir.atoms), a.source = b.source
    PROVE  /\ CopyFacts(LoneCopies(b.copies)) \subseteq CopyFacts(a.copies)
           /\ \A c \in b.copies : \E d \in a.copies : d.to = c.to
           /\ \A c \in a.copies : \/ <<"copy", a, c.to>> \in StepDrops(in.ir, out.ir)
                                  \/ \E d \in b.copies : d.to = c.to
           /\ ~ CopiesDiffer(a, b) => CopyFacts(LoneCopies(a.copies)) \subseteq CopyFacts(b.copies)
PROOF
<1> DEFINE map == IdMap(in, out)
<1>1. CopiesAreHonest(a, b, DropSubjects(in, out, "copy"), map)
  BY PairIsHonest
<1>2. \A x \in DOMAIN map : map[x].source = x.source
  BY Matching DEF Accepts
<1> HIDE DEF map
<1>3. \A to \in Destinations(b.copies) :
         /\ to \in Destinations(a.copies)
         /\ CopyTo(a.copies, to).from = CopyTo(b.copies, to).from
         /\ CopyTo(a.copies, to).status = CopyTo(b.copies, to).status
         /\ CopyTo(a.copies, to).fromAtom.source = CopyTo(b.copies, to).fromAtom.source
  BY <1>1, <1>2 DEF CopiesAreHonest
<1>4. \A to \in Destinations(b.copies) :
         LET c == CopyTo(a.copies, to) IN LET d == CopyTo(b.copies, to) IN
         /\ c \in a.copies /\ d \in b.copies
         /\ <<c.to, c.from, c.fromAtom.source, c.status>> = <<d.to, d.from, d.fromAtom.source, d.status>>
  BY <1>3, CopyAt
<1>5. CopyFacts(LoneCopies(b.copies)) \subseteq CopyFacts(a.copies)
  BY <1>4, LoneCopy DEF CopyFacts
<1>6. ASSUME ~ CopiesDiffer(a, b) PROVE CopyFacts(LoneCopies(a.copies)) \subseteq CopyFacts(b.copies)
  <2>1. Destinations(a.copies) \subseteq Destinations(b.copies)
    BY <1>6 DEF CopiesDiffer
  <2> QED
    BY <1>4, <2>1, LoneCopy DEF CopyFacts
<1>7. \A c \in b.copies : \E d \in a.copies : d.to = c.to
  BY <1>3 DEF Destinations
<1>8. ASSUME NEW c \in a.copies
      PROVE  <<"copy", a, c.to>> \in StepDrops(in.ir, out.ir) \/ \E d \in b.copies : d.to = c.to
  <2>1. CASE c.to \in Destinations(b.copies)
    BY <2>1 DEF Destinations
  <2>2. CASE c.to \notin Destinations(b.copies)
    <3>1. <<a, c.to>> \in DropSubjects(in, out, "copy")
      BY <1>1, <2>2 DEF CopiesAreHonest, Destinations
    <3> QED
      BY <3>1, DropsAreSeen DEF Accepts, Check
  <2> QED
    BY <2>1, <2>2
<1> QED
  BY <1>5, <1>6, <1>7, <1>8

\* An atom without a mark of this step is the input's.
LEMMA UnmarkedAtom ==
    ASSUME NEW in, NEW out, NEW name, Accepts(in, out, name),
           NEW a \in ToSet(in.ir.atoms), NEW b \in ToSet(out.ir.atoms), a.source = b.source,
           ~ MarkedBy(Len(in.ir.chain), b.status)
    PROVE  UnmarkedAtomUnchanged(a, b)
PROOF
<1> DEFINE map == IdMap(in, out)
           k == Len(in.ir.chain)
<1>1. /\ OpsDecoded(a.ops) /\ OpsDecoded(b.ops)
      /\ OpsAreHonest(a, b, DropSubjects(in, out, "op"), k)
      /\ MarkIsExact(a.status, b.status, AtomDiffers(a, b, map), k)
  BY PairIsHonest
<1>2. b.status = a.status /\ AtomDiffers(a, b, map) = {}
  BY <1>1 DEF MarkIsExact, MarkedBy
<1>3. /\ \A part \in DOMAIN a.meta : a.meta[part] = b.meta[part]
      /\ ~ OpsDiffer(a, b) /\ ~ CopiesDiffer(a, b) /\ ~ ParentsDiffer(a, map)
  BY <1>2 DEF AtomDiffers
<1>4. /\ ToSet(SourcesOf(b.parents)) = ToSet(SourcesOf(a.parents))
      /\ IsInjective(a.parents) => SourcesOf(b.parents) = SourcesOf(a.parents)
  BY <1>3, ParentsKept
<1>5. CopyFacts(LoneCopies(a.copies)) \subseteq CopyFacts(b.copies)
  BY <1>3, CopiesKept
<1>6. ASSUME NEW op \in b.ops PROVE op \in a.ops
  <2>1. op.path \in Paths(b.ops) /\ At(b.ops, op.path) = op
    BY <1>1, OpAt DEF OpsDecoded
  <2>2. op.path \in KeptPaths(a, b) /\ ~ IsTransformed(op.status)
    BY <1>3, <2>1 DEF OpsDiffer, KeptPaths, NewPaths
  <2> QED
    BY <1>1, <2>2, UnmarkedOp DEF MarkedBy
<1> QED
  BY <1>2, <1>3, <1>4, <1>5, <1>6 DEF UnmarkedAtomUnchanged

-----------------------------------------------------------------------------
(* Refs.                                                                   *)

LEMMA UnmarkedRef ==
    ASSUME NEW in, NEW out, NEW name, Accepts(in, out, name),
           NEW rf \in out.ir.refs, ~ MarkedBy(Len(in.ir.chain), rf.status)
    PROVE  UnmarkedRefUnchanged(in.ir, rf)
PROOF
<1> DEFINE key == RefKey(rf)
           was == RefAt(in.ir, key)
<1>1. /\ IsFiniteSet(in.ir.refs) /\ OneRefPerKey(in.ir.refs)
      /\ IsFiniteSet(out.ir.refs) /\ OneRefPerKey(out.ir.refs) /\ RefsAreHonest(in, out)
  BY DEF Accepts, Readable, Decoded, Check
<1>2. key \in RefKeys(out.ir) /\ RefAt(out.ir, key) = rf
  BY <1>1, KeysCount
<1>3. key \in RefKeys(in.ir)
  BY <1>1, <1>2 DEF RefsAreHonest, MarkNames, MarkedBy, Step
<1>4. was \in in.ir.refs /\ RefKey(was) = key
  BY <1>1, <1>3, KeysCount
<1>5. MarkIsExact(was.status, rf.status, RefDiffers(was, rf), Len(in.ir.chain))
  BY <1>1, <1>2, <1>3 DEF RefsAreHonest, Step
<1> HIDE DEF was
<1>6. rf.status = was.status /\ RefDiffers(was, rf) = {}
  BY <1>5 DEF MarkIsExact, MarkedBy
<1>7. was.target.source = rf.target.source /\ was.annotation = rf.annotation
  BY <1>6 DEF RefDiffers
<1>8. was.kind = rf.kind /\ was.name = rf.name
  BY <1>4 DEF RefKey
<1> QED
  BY <1>4, <1>6, <1>7, <1>8 DEF UnmarkedRefUnchanged

LEMMA RefsHold ==
    ASSUME NEW in, NEW out, NEW name, Accepts(in, out, name)
    PROVE  /\ IsFiniteSet(in.ir.refs) /\ OneRefPerKey(in.ir.refs)
           /\ IsFiniteSet(out.ir.refs) /\ OneRefPerKey(out.ir.refs)
           /\ RefsAreHonest(in, out)
PROOF BY DEF Accepts, Readable, Decoded, Check

\* Of a ref that kept its kind and name, the mark names what differs, over the
\* status the input has.
LEMMA KeptRef ==
    ASSUME NEW in, NEW out, NEW name, Accepts(in, out, name),
           NEW was \in in.ir.refs, NEW now \in out.ir.refs, RefKey(was) = RefKey(now)
    PROVE  LET k == Len(in.ir.chain) IN
           /\ RefChangesAreNamed(k, was, now)
           /\ MarkedBy(k, now.status) => Prior(now.status) = was.status
PROOF
<1> DEFINE k == Len(in.ir.chain)
           key == RefKey(was)
<1>1. RefAt(in.ir, key) = was /\ RefAt(out.ir, key) = now /\ key \in RefKeys(in.ir) \cap RefKeys(out.ir)
  BY RefsHold, KeysCount
<1>2. MarkIsExact(was.status, now.status, RefDiffers(was, now), k)
  BY <1>1, RefsHold DEF RefsAreHonest, Step
<1>3. /\ now.target.source # was.target.source => "target" \in RefDiffers(was, now)
      /\ now.annotation # was.annotation => "annotation" \in RefDiffers(was, now)
  BY DEF RefDiffers
<1>4. \A part \in RefDiffers(was, now) : NamedBy(k, now.status, part)
  BY <1>2 DEF MarkIsExact, NamedBy, MarkedBy
<1>5. MarkedBy(k, now.status) => Prior(now.status) = was.status
  BY <1>2 DEF MarkIsExact, MarkedBy
<1> QED
  BY <1>3, <1>4, <1>5 DEF RefChangesAreNamed

\* The refs can be read, and what is left over is dropped.
LEMMA RefsAreRead ==
    ASSUME NEW in, NEW out, NEW name, Accepts(in, out, name)
    PROVE  LET dropped == DroppedRefs(in.ir, out.ir) IN
           \E from \in RefReadings(Len(in.ir.chain), in.ir, out.ir, dropped) :
               \A rf \in in.ir.refs : rf \in Range(from) \/ RefKey(rf) \in dropped
PROOF
<1> DEFINE k       == Len(in.ir.chain)
           drops   == DropSubjects(in, out, "ref")
           dropped == DroppedRefs(in.ir, out.ir)
           A       == in.ir.refs
           B       == out.ir.refs
           was     == RefKeys(in.ir)
           now     == RefKeys(out.ir)
<1>1. IsFiniteSet(A) /\ OneRefPerKey(A) /\ IsFiniteSet(B) /\ OneRefPerKey(B) /\ RefsAreHonest(in, out)
  BY RefsHold
<1>2. \A key \in was : key \in dropped <=> key \in drops
  <2>1. \A kind, name_ : <<kind, name_>> \in dropped <=> <<kind, name_>> \in drops
    BY DroppedIsSeen DEF Accepts, Check
  <2> QED
    BY <2>1 DEF RefKeys, RefKey
<1>3. Cardinality(now \ was) = Cardinality((was \ now) \ dropped)
  <2>1. (was \ now) \ dropped = (was \ now) \ drops
    BY <1>2
  <2> QED
    BY <1>1, <2>1 DEF RefsAreHonest
<1> DEFINE ka == [rf \in A |-> RefKey(rf)]
           kb == [rf \in B |-> RefKey(rf)]
<1>4. PICK from : Traces(from, A, ka, was, B, kb, now, dropped)
  <2>1. Keyed(A, ka, was) /\ Keyed(B, kb, now)
    BY <1>1 DEF Keyed, RefKeys, OneRefPerKey
  <2> HIDE DEF ka, kb, was, now, dropped, A, B
  <2> QED
    BY <1>3, <2>1, CountedReading
<1>5. /\ from \in Injection(B, A) /\ from \in [B -> A]
      /\ \A rf \in B : IF kb[rf] \in was THEN ka[from[rf]] = kb[rf]
                       ELSE ka[from[rf]] \notin now \cup dropped
      /\ \A rf \in A : (\E p \in B : from[p] = rf) \/ ka[rf] \in dropped
  BY <1>4 DEF Traces, Injection
<1> HIDE DEF dropped
<1>6. ASSUME NEW rf \in B
      PROVE  \/ RefKey(from[rf]) = RefKey(rf)
             \/ /\ NamedBy(k, rf.status, "name") \/ NamedBy(k, rf.status, "kind")
                /\ RefKey(rf) \notin was
                /\ RefKey(from[rf]) \notin now \cup dropped
  <2>1. CASE RefKey(rf) \in was
    BY <1>5, <2>1
  <2>2. CASE RefKey(rf) \notin was
    <3>1. RefKey(rf) \in now \ was /\ RefAt(out.ir, RefKey(rf)) = rf
      BY <1>1, <2>2, KeysCount
    <3>2. MarkNames(rf.status, k, {"name", "kind"})
      BY <1>1, <3>1 DEF RefsAreHonest, Step
    <3>3. NamedBy(k, rf.status, "name") \/ NamedBy(k, rf.status, "kind")
      BY <3>2 DEF MarkNames, NamedBy, MarkedBy
    <3> QED
      BY <1>5, <2>2, <3>3
  <2> QED
    BY <2>1, <2>2
<1>7. was = Keys(A) /\ now = Keys(B)
  BY DEF RefKeys, Keys
<1>8. from \in RefReadings(k, in.ir, out.ir, dropped)
  BY <1>5, <1>6, <1>7 DEF RefReadings
<1>9. \A rf \in A : rf \in Range(from) \/ RefKey(rf) \in dropped
  BY <1>5 DEF Range
<1> QED
  BY <1>8, <1>9 DEF dropped

-----------------------------------------------------------------------------
(* The promises, one at a time.                                            *)

LEMMA SurvivorsHold ==
    ASSUME NEW in, NEW out, NEW pair \in Survivors(in, out)
    PROVE  pair[1] \in ToSet(in.atoms) /\ pair[2] \in ToSet(out.atoms) /\ pair[1].source = pair[2].source
PROOF BY DEF Survivors

LEMMA MarksAreRead ==
    ASSUME NEW in, NEW out, NEW name, Accepts(in, out, name)
    PROVE  UnmarkedIsUnchanged(in.ir, out.ir)
PROOF
<1> DEFINE k == Len(in.ir.chain)
<1>1. ASSUME NEW pair \in Survivors(in.ir, out.ir)
      PROVE  /\ MarkedBy(k, pair[2].status) \/ UnmarkedAtomUnchanged(pair[1], pair[2])
             /\ \A op \in pair[2].ops : MarkedBy(k, op.status) \/ op \in pair[1].ops
  <2> DEFINE a == pair[1]  b == pair[2]
  <2>1. a \in ToSet(in.ir.atoms) /\ b \in ToSet(out.ir.atoms) /\ a.source = b.source
    BY SurvivorsHold
  <2> HIDE DEF a, b
  <2>2. MarkedBy(k, b.status) \/ UnmarkedAtomUnchanged(a, b)
    BY <2>1, UnmarkedAtom
  <2>3. OpsDecoded(a.ops) /\ OpsDecoded(b.ops) /\ OpsAreHonest(a, b, DropSubjects(in, out, "op"), k)
    BY <2>1, PairIsHonest
  <2>4. \A op \in b.ops : MarkedBy(k, op.status) \/ op \in a.ops
    BY <2>3, UnmarkedOp
  <2> QED
    BY <2>2, <2>4 DEF a, b
<1>2. \A rf \in out.ir.refs : MarkedBy(k, rf.status) \/ UnmarkedRefUnchanged(in.ir, rf)
  BY UnmarkedRef
<1> QED
  BY <1>1, <1>2 DEF UnmarkedIsUnchanged

LEMMA RemovalsAreRead ==
    ASSUME NEW in, NEW out, NEW name, Accepts(in, out, name)
    PROVE  EveryLossIsNamed(in.ir, out.ir)
PROOF
<1> DEFINE k == Len(in.ir.chain)
<1>1. ASSUME NEW a \in ToSet(in.ir.atoms)
      PROVE  <<"atom", a>> \in StepDrops(in.ir, out.ir)
                <=> \A b \in ToSet(out.ir.atoms) : b.source # a.source
  <2>1. a \in DOMAIN IdMap(in, out) <=> <<"atom", a>> \notin StepDrops(in.ir, out.ir)
    BY DropsAreSeen DEF Accepts, Check, AtomsAccounted
  <2>2. a \in DOMAIN IdMap(in, out) <=> \E b \in ToSet(out.ir.atoms) : b.source = a.source
    BY DEF IdMap
  <2> QED
    BY <2>1, <2>2
<1>2. ASSUME NEW pair \in Survivors(in.ir, out.ir)
      PROVE  LET a == pair[1] IN LET b == pair[2] IN LET dropped == DroppedPaths(in.ir, out.ir, a) IN
             /\ \E from \in OpReadings(k, a, b, dropped) :
                   \A op \in a.ops : op \in Range(from) \/ op.path \in dropped
             /\ \A c \in a.copies : \/ <<"copy", a, c.to>> \in StepDrops(in.ir, out.ir)
                                    \/ \E d \in b.copies : d.to = c.to
  <2> DEFINE a == pair[1]  b == pair[2]
  <2>1. a \in ToSet(in.ir.atoms) /\ b \in ToSet(out.ir.atoms) /\ a.source = b.source
    BY SurvivorsHold
  <2> HIDE DEF a, b
  <2>2. \E from \in OpReadings(k, a, b, DroppedPaths(in.ir, out.ir, a)) :
            \A op \in a.ops : op \in Range(from) \/ op.path \in DroppedPaths(in.ir, out.ir, a)
    BY <2>1, OpsAreRead
  <2>3. \A c \in a.copies : <<"copy", a, c.to>> \in StepDrops(in.ir, out.ir) \/ \E d \in b.copies : d.to = c.to
    BY <2>1, CopiesKept
  <2> QED
    BY <2>2, <2>3 DEF a, b
<1>3. \E from \in RefReadings(k, in.ir, out.ir, DroppedRefs(in.ir, out.ir)) :
          \A rf \in in.ir.refs : rf \in Range(from) \/ RefKey(rf) \in DroppedRefs(in.ir, out.ir)
  BY RefsAreRead
<1> QED
  BY <1>1, <1>2, <1>3 DEF EveryLossIsNamed

LEMMA OriginsAreRead ==
    ASSUME NEW in, NEW out, NEW name, Accepts(in, out, name)
    PROVE  EveryRecordHasAnOrigin(in.ir, out.ir)
PROOF
<1> DEFINE k == Len(in.ir.chain)
<1>1. ASSUME NEW b \in ToSet(out.ir.atoms)
      PROVE  Cardinality({pair \in Survivors(in.ir, out.ir) : pair[2].source = b.source}) = 1
  <2>1. PICK a \in ToSet(in.ir.atoms) : a.source = b.source
    BY DEF Accepts, Check, AtomsAccounted
  <2>2. \A x, y \in ToSet(in.ir.atoms) : x.source = y.source => x = y
    BY DEF Accepts, Check, UniqueSources, ToSet
  <2>3. \A x, y \in ToSet(out.ir.atoms) : x.source = y.source => x = y
    BY DEF Accepts, Check, AtomsAccounted, UniqueSources, ToSet
  <2>4. <<a, b>> \in Survivors(in.ir, out.ir)
    BY <2>1 DEF Survivors
  <2>5. ASSUME NEW pair \in Survivors(in.ir, out.ir), pair[2].source = b.source PROVE pair = <<a, b>>
    <3>1. pair = <<pair[1], pair[2]>>
      BY DEF Survivors
    <3>2. pair[2] = b /\ pair[1] = a
      BY <2>1, <2>2, <2>3, <2>5, SurvivorsHold
    <3> QED
      BY <3>1, <3>2
  <2>6. {pair \in Survivors(in.ir, out.ir) : pair[2].source = b.source} = {<<a, b>>}
    BY <2>4, <2>5
  <2> QED
    BY <2>6, FS_Singleton
<1>2. ASSUME NEW pair \in Survivors(in.ir, out.ir)
      PROVE  LET a == pair[1] IN LET b == pair[2] IN
             /\ \A part \in DOMAIN a.meta :
                   b.meta[part] # a.meta[part] => NamedBy(k, b.status, part)
             /\ OpReadings(k, a, b, DroppedPaths(in.ir, out.ir, a)) # {}
             /\ \A was \in a.ops, now \in b.ops :
                   was.path = now.path => OpChangesAreNamed(k, was, now)
             /\ CopyFacts(LoneCopies(b.copies)) \subseteq CopyFacts(a.copies)
             /\ \A c \in b.copies : \E d \in a.copies : d.to = c.to
  <2> DEFINE a == pair[1]  b == pair[2]
  <2>1. a \in ToSet(in.ir.atoms) /\ b \in ToSet(out.ir.atoms) /\ a.source = b.source
    BY SurvivorsHold
  <2> HIDE DEF a, b
  <2>2. /\ OpsDecoded(a.ops) /\ OpsDecoded(b.ops) /\ OpsAreHonest(a, b, DropSubjects(in, out, "op"), k)
        /\ MarkIsExact(a.status, b.status, AtomDiffers(a, b, IdMap(in, out)), k)
    BY <2>1, PairIsHonest
  <2>3. \A part \in DOMAIN a.meta : b.meta[part] # a.meta[part] => NamedBy(k, b.status, part)
    <3>1. \A part \in DOMAIN a.meta : b.meta[part] # a.meta[part] => part \in AtomDiffers(a, b, IdMap(in, out))
      BY DEF AtomDiffers
    <3> QED
      BY <2>2, <3>1 DEF MarkIsExact, NamedBy, MarkedBy
  <2>4. OpReadings(k, a, b, DroppedPaths(in.ir, out.ir, a)) # {}
    BY <2>1, OpsAreRead
  <2>5. \A was \in a.ops, now \in b.ops : was.path = now.path => OpChangesAreNamed(k, was, now)
    BY <2>2, ChangedOp
  <2>6. /\ CopyFacts(LoneCopies(b.copies)) \subseteq CopyFacts(a.copies)
        /\ \A c \in b.copies : \E d \in a.copies : d.to = c.to
    BY <2>1, CopiesKept
  <2> QED
    BY <2>3, <2>4, <2>5, <2>6 DEF a, b
<1>3. RefReadings(k, in.ir, out.ir, DroppedRefs(in.ir, out.ir)) # {}
  BY RefsAreRead
<1>4. \A was \in in.ir.refs, now \in out.ir.refs : RefKey(was) = RefKey(now) => RefChangesAreNamed(k, was, now)
  BY KeptRef
<1> QED
  BY <1>1, <1>2, <1>3, <1>4 DEF EveryRecordHasAnOrigin

LEMMA HistoryIsRead ==
    ASSUME NEW in, NEW out, NEW name, Accepts(in, out, name)
    PROVE  HistoryKept(in.ir, out.ir)
PROOF
<1> DEFINE k == Len(in.ir.chain)
<1>1. SubSeq(out.ir.chain, 1, k) = in.ir.chain
  <2> DEFINE s == in.ir.chain
  <2>1. s \in Seq(ToSet(s))
    BY DEF Accepts, Readable, Decoded
  <2> HIDE DEF s
  <2>2. SubSeq(s, 1, Len(s)) = s
    BY <2>1
  <2> QED
    BY <2>2 DEF Accepts, Check, ChainExtends, IsPrefix, s
<1>2. in.ir.drops \subseteq out.ir.drops /\ in.ir.flags = out.ir.flags /\ in.ir.prov = out.ir.prov
  BY DEF Accepts, Check, PassesThrough
<1>3. ASSUME NEW pair \in Survivors(in.ir, out.ir)
      PROVE  /\ MarkedBy(k, pair[2].status) => Prior(pair[2].status) = pair[1].status
             /\ \A o \in pair[1].ops, p \in pair[2].ops :
                   o.path = p.path /\ MarkedBy(k, p.status) => Prior(p.status) = o.status
  <2> DEFINE a == pair[1]  b == pair[2]
  <2>1. a \in ToSet(in.ir.atoms) /\ b \in ToSet(out.ir.atoms) /\ a.source = b.source
    BY SurvivorsHold
  <2> HIDE DEF a, b
  <2>2. /\ OpsDecoded(a.ops) /\ OpsDecoded(b.ops) /\ OpsAreHonest(a, b, DropSubjects(in, out, "op"), k)
        /\ MarkIsExact(a.status, b.status, AtomDiffers(a, b, IdMap(in, out)), k)
    BY <2>1, PairIsHonest
  <2>3. MarkedBy(k, b.status) => Prior(b.status) = a.status
    BY <2>2 DEF MarkIsExact, MarkedBy
  <2>4. \A o \in a.ops, p \in b.ops : o.path = p.path /\ MarkedBy(k, p.status) => Prior(p.status) = o.status
    BY <2>2, MarkedOp
  <2> QED
    BY <2>3, <2>4 DEF a, b
<1>4. \A was \in in.ir.refs, now \in out.ir.refs :
          RefKey(was) = RefKey(now) /\ MarkedBy(k, now.status) => Prior(now.status) = was.status
  BY KeptRef
<1> QED
  BY <1>1, <1>2, <1>3, <1>4 DEF HistoryKept

\* The parents of a surviving atom are the nearest survivors among its old
\* ancestors, each listed once; so the ancestors that stay are the same.
LEMMA AncestryIsRead ==
    ASSUME NEW in, NEW out, NEW name, Accepts(in, out, name)
    PROVE  AncestryKept(in.ir, out.ir)
PROOF
<1> DEFINE map == IdMap(in, out)
           old == ToSet(in.ir.atoms)
           X   == ToSet(out.ir.atoms)
           was == AncestorSources(old)
           now == AncestorSources(X)
           stay == {b.source : b \in X}
           Reach(Q) == {q.source : q \in Q} \cup UNION {now[q] : q \in Q}
<1>1. /\ \A x \in DOMAIN map : x \in old /\ map[x] \in X /\ map[x].source = x.source
      /\ \A x \in old, y \in X : x.source = y.source => x \in DOMAIN map /\ map[x] = y
  BY Matching DEF Accepts
<1>2. PICK resolve \in [old -> Seq(X)] : Resolves(resolve, map, old)
  <2>1. Readable(in.ir) /\ DOMAIN map \subseteq old /\ \A x \in DOMAIN map : map[x] \in X
    BY <1>1 DEF Accepts
  <2> HIDE DEF map, X
  <2> QED
    BY <2>1, ResolveSolved
<1>3. PICK rank : Ranks(old, rank)
  BY AtomRanks DEF Accepts
<1>4. \A x \in old : was[x] = {p.source : p \in ToSet(x.parents)} \cup UNION {was[p] : p \in ToSet(x.parents)}
  BY AncestorsSolved DEF Accepts
<1>5. \A y \in X : now[y] = Reach(ToSet(y.parents))
  BY AncestorsSolved DEF Accepts
<1>6. \A x \in DOMAIN map : map[x].parents = MappedParents(x.parents, map, old)
  BY <1>1, PairIsHonest
<1> HIDE DEF map, old, X, was, now
<1>7. \A x \in old : /\ x.parents \in Seq(old)
                     /\ \A p \in ToSet(x.parents) : p \in old /\ rank[p] < rank[x]
  BY <1>3 DEF Ranks
<1> DEFINE Through(x) == FlattenSeq([n \in DOMAIN x.parents |-> resolve[x.parents[n]]])
           Found(x) == UNION {ToSet(resolve[p]) : p \in ToSet(x.parents)}
<1>8. \A x \in old : Through(x) \in Seq(X) /\ ToSet(Through(x)) = Found(x)
  <2> TAKE x \in old
  <2> DEFINE s == x.parents  ss == [n \in DOMAIN s |-> resolve[s[n]]]
  <2>1. s \in Seq(old) /\ DOMAIN s = 1..Len(s) /\ Len(s) \in Nat
    BY <1>7
  <2> HIDE DEF s
  <2>2. ss \in Seq(Seq(X)) /\ Len(ss) = Len(s) /\ \A n \in 1..Len(s) : ss[n] = resolve[s[n]]
    <3>1. \A n \in 1..Len(s) : resolve[s[n]] \in Seq(X)
      BY <2>1
    <3> DEFINE T == Seq(X)
    <3>2. \A n \in 1..Len(s) : resolve[s[n]] \in T
      BY <3>1
    <3> HIDE DEF T
    <3>3. ss \in Seq(T) /\ Len(ss) = Len(s) /\ \A n \in 1..Len(s) : ss[n] = resolve[s[n]]
      BY <2>1, <3>2
    <3> QED
      BY <3>3 DEF T
  <2> HIDE DEF ss
  <2>3. FlattenSeq(ss) \in Seq(X) /\ ToSet(FlattenSeq(ss)) = UNION {ToSet(ss[n]) : n \in 1..Len(s)}
    BY <2>2, FlattenHolds
  <2>4. UNION {ToSet(ss[n]) : n \in 1..Len(s)} = UNION {ToSet(resolve[p]) : p \in ToSet(s)}
    <3>1. \A n \in 1..Len(s) : s[n] \in ToSet(s) /\ ToSet(ss[n]) = ToSet(resolve[s[n]])
      BY <2>1, <2>2, ZenonT(40) DEF ToSet
    <3>2. \A p \in ToSet(s) : \E n \in 1..Len(s) : p = s[n]
      BY <2>1 DEF ToSet
    <3>3. \A p \in ToSet(s) : \E n \in 1..Len(s) : ToSet(resolve[p]) = ToSet(ss[n])
      BY <3>1, <3>2
    <3> QED
      BY <3>1, <3>3
  <2> QED
    BY <2>3, <2>4 DEF s, ss
<1> HIDE DEF Through
<1>9. \A x \in old : resolve[x] = IF x \in DOMAIN map THEN <<map[x]>> ELSE Through(x)
  BY <1>2 DEF Resolves, Through
<1>10. \A x \in DOMAIN map : map[x].parents = FirstOccurrences(Through(x))
  BY <1>1, <1>2, <1>6 DEF Resolves, Through
<1>11. \A x \in DOMAIN map : /\ map[x].parents \in Seq(X) /\ IsInjective(map[x].parents)
                             /\ ToSet(map[x].parents) = Found(x)
  BY <1>1, <1>8, <1>10, FirstOccurrencesKeep
<1> DEFINE Good(x) == Reach(ToSet(resolve[x])) = ({x.source} \cup was[x]) \cap stay
<1>12. ASSUME NEW x \in old, \A p \in ToSet(x.parents) : Good(p)
       PROVE  Reach(Found(x)) = was[x] \cap stay
  <2>1. Reach(Found(x)) = UNION {Reach(ToSet(resolve[p])) : p \in ToSet(x.parents)}
    OBVIOUS
  <2>2. \A p \in ToSet(x.parents) : Reach(ToSet(resolve[p])) = ({p.source} \cup was[p]) \cap stay
    BY <1>12
  <2> HIDE DEF Reach, Found, stay
  <2>3. Reach(Found(x)) = UNION {({p.source} \cup was[p]) \cap stay : p \in ToSet(x.parents)}
    BY <2>1, <2>2
  <2>4. was[x] = {p.source : p \in ToSet(x.parents)} \cup UNION {was[p] : p \in ToSet(x.parents)}
    BY <1>4
  <2>5. UNION {({p.source} \cup was[p]) \cap stay : p \in ToSet(x.parents)} = was[x] \cap stay
    BY <2>4
  <2> QED
    BY <2>3, <2>5
<1> DEFINE U == {x \in old : Good(x)}
<1>13. ASSUME NEW x \in old, \A p \in old : rank[p] < rank[x] => p \in U
       PROVE  x \in U
  <2>1. \A p \in ToSet(x.parents) : Good(p)
    BY <1>7, <1>13
  <2> HIDE DEF Good
  <2>2. Reach(Found(x)) = was[x] \cap stay
    BY <1>12, <2>1
  <2>3. CASE x \in DOMAIN map
    <3>1. ToSet(resolve[x]) = {map[x]}
      BY <1>9, <2>3 DEF ToSet
    <3>2. Reach({map[x]}) = {x.source} \cup now[map[x]]
      BY <1>1, <2>3
    <3>3. now[map[x]] = was[x] \cap stay
      BY <1>1, <1>5, <1>11, <2>2, <2>3
    <3>4. x.source \in stay
      BY <1>1, <2>3
    <3> HIDE DEF Reach, stay
    <3> QED
      BY <3>1, <3>2, <3>3, <3>4 DEF Good
  <2>4. CASE x \notin DOMAIN map
    <3>1. ToSet(resolve[x]) = Found(x)
      BY <1>8, <1>9, <2>4
    <3>2. x.source \notin stay
      BY <1>1, <2>4
    <3> HIDE DEF Reach, stay, Found
    <3> QED
      BY <2>2, <3>1, <3>2 DEF Good
  <2> QED
    BY <2>3, <2>4
<1>14. old \subseteq U
  <2>1. rank \in [old -> Nat]
    BY <1>3 DEF Ranks
  <2> HIDE DEF U
  <2> QED
    BY <1>13, <2>1, RankInduction
<1>15. ASSUME NEW pair \in Survivors(in.ir, out.ir)
       PROVE  /\ now[pair[2]] = was[pair[1]] \cap stay
              /\ Cardinality(ToSet(pair[2].parents)) = Len(pair[2].parents)
  <2> DEFINE a == pair[1]  b == pair[2]
  <2>1. a \in old /\ b \in X /\ a.source = b.source
    BY SurvivorsHold DEF old, X
  <2> HIDE DEF a, b
  <2>2. a \in DOMAIN map /\ map[a] = b
    BY <1>1, <2>1
  <2>3. \A p \in ToSet(a.parents) : Good(p)
    BY <1>7, <1>14, <2>1
  <2>4. Reach(Found(a)) = was[a] \cap stay
    <3> HIDE DEF Reach, Found, Good, stay
    <3> QED
      BY <1>12, <2>1, <2>3
  <2>5. now[b] = was[a] \cap stay
    <3>1. now[b] = Reach(ToSet(b.parents)) /\ ToSet(b.parents) = Found(a)
      BY <1>5, <1>11, <2>1, <2>2
    <3> HIDE DEF Reach, Found, stay
    <3> QED
      BY <2>4, <3>1
  <2>6. Cardinality(ToSet(b.parents)) = Len(b.parents)
    <3> DEFINE s == b.parents
    <3>1. s \in Seq(X) /\ IsInjective(s)
      BY <1>11, <2>2
    <3> HIDE DEF s
    <3>2. Len(s) \in Nat /\ DOMAIN s = 1..Len(s) /\ s \in [1..Len(s) -> ToSet(s)]
      BY <3>1 DEF ToSet
    <3>3. IsFiniteSet(1..Len(s)) /\ Cardinality(1..Len(s)) = Len(s)
      BY <3>2, FS_Interval, SMTT(40)
    <3>4. (\A i, j \in 1..Len(s) : s[i] = s[j] => i = j) /\ \A y \in ToSet(s) : \E i \in 1..Len(s) : s[i] = y
      BY <3>1, <3>2 DEF IsInjective, ToSet
    <3>5. Cardinality(ToSet(s)) = Cardinality(1..Len(s))
      BY <3>2, <3>3, <3>4, SameCount
    <3> QED
      BY <3>3, <3>5 DEF s
  <2> QED
    BY <2>5, <2>6 DEF a, b
<1> QED
  BY <1>15 DEF AncestryKept, was, now, old, X

-----------------------------------------------------------------------------
(* transform::check is sound: of an output it accepts, whatever program    *)
(* wrote it, every unmarked record is the input's; what is gone is named   *)
(* by a drop and what is there has a record of the input behind it, where  *)
(* a moved operation or a renamed ref may stand for any one that is gone;  *)
(* the chain and the drops are intact, and so is the status under the mark *)
(* of what kept its place; the surviving atoms have the ancestors they had.*)
THEOREM CheckIsSound ==
    ASSUME NEW in, NEW out, NEW name,
           Readable(in.ir), Readable(out.ir), Check(in, out, name)
    PROVE  /\ UnmarkedIsUnchanged(in.ir, out.ir)
           /\ EveryLossIsNamed(in.ir, out.ir)
           /\ EveryRecordHasAnOrigin(in.ir, out.ir)
           /\ HistoryKept(in.ir, out.ir)
           /\ AncestryKept(in.ir, out.ir)
PROOF
<1>1. Accepts(in, out, name)
  BY DEF Accepts
<1> QED
  BY <1>1, MarksAreRead, RemovalsAreRead, OriginsAreRead, HistoryIsRead, AncestryIsRead

=============================================================================
