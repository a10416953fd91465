--------------------------- MODULE RefusalProofs ---------------------------
(***************************************************************************)
(* Of what is refused, for every source.  verify, which forgets the trees  *)
(* that nobody will ask for again, judges as one that keeps them all.  And *)
(* the decoders that can verify what they read, git and Mercurial, refuse  *)
(* an import exactly where something in the repository is wrong; what is   *)
(* not refused, and no hash covers, is where a Mercurial copy comes from.  *)
(***************************************************************************)
EXTENDS ImportProofs

-----------------------------------------------------------------------------
(* verify: the replay that forgets what nobody will ask for again.         *)

Length == Len(Ir.atoms)

\* The tree an atom starts from, and whether its copies and operations fit.
StartOf(n) == IF Ir.atoms[n].parents = <<>> THEN {} ELSE PlainTrees(Ir)[PlaceOf(Ir.atoms[n].parents[1])]

AtomFits(n) ==
    /\ \A c \in Ir.atoms[n].copies : c.from \in PlainTrees(Ir)[PlaceOf(c.fromAtom)]
    /\ \A o \in Ir.atoms[n].ops : Fits(o, StartOf(n))

\* What atom n asks of earlier trees.
AskedOf(n) == FirstParent(n) \cup {PlaceOf(c.fromAtom) : c \in Ir.atoms[n].copies}

\* The uses of a tree that are not taken off once k atoms are replayed: those to
\* come, and the copies by the atoms that started from it.
StartsToCome(s, k) == {n \in (k + 1)..Length : s \in FirstParent(n)}
CopiesLeft(s, k) == UNION {{n} \X CopiesFrom(n, s) : n \in {m \in 1..Length : m > k \/ s \in FirstParent(m)}}
UsesAfter(s, k) == Cardinality(StartsToCome(s, k)) + Cardinality(CopiesLeft(s, k))

ReplayGoes ==
    /\ replay.at \in 0..Length
    /\ DOMAIN replay.uses = 1..Length
    /\ \A s \in 1..Length : replay.uses[s] = UsesAfter(s, replay.at)
    /\ DOMAIN replay.trees = {s \in 1..replay.at : replay.uses[s] > 0}
    /\ \A s \in DOMAIN replay.trees : replay.trees[s] = PlainTrees(Ir)[s]
    /\ \A n \in 1..replay.at : AtomFits(n)

ReplayStages == {"verify begin", "verify replay", "verify checks"}
LaterStages == {"verify source", "verified"}

ReplayInv ==
    /\ stage \notin ReplayStages \cup LaterStages => artifact = {}
    /\ stage \in ReplayStages => artifact # {}
    /\ artifact # {} => \E file : artifact = {file} /\ Readable(file)
    /\ stage = "verify replay" => ReplayGoes
    /\ stage = "verify checks" => "replay" \in DOMAIN results
    /\ (stage = "verify checks" \/ stage \in LaterStages) /\ artifact # {} =>
          (results["replay"] = "pass" <=> PlainlySound(Ir))

\* What a reader makes sure of, as far as the replay needs it.
IsReadIn(ir) ==
    /\ Len(ir.atoms) \in Nat /\ DOMAIN ir.atoms = 1..Len(ir.atoms)
    /\ \A n, m \in DOMAIN ir.atoms : ir.atoms[n] = ir.atoms[m] => n = m
    /\ \A n \in DOMAIN ir.atoms :
          /\ ir.atoms[n].parents \in Seq(Earlier(ir.atoms, n))
          /\ \A c \in ir.atoms[n].copies : c.fromAtom \in Earlier(ir.atoms, n)
          /\ IsFiniteSet(ir.atoms[n].copies)

LEMMA ReadableIs == ASSUME NEW ir, Readable(ir) PROVE IsReadIn(ir)
PROOF
<1>1. ir.atoms \in Seq(ToSet(ir.atoms))
  BY DEF Readable, Decoded
<1>2. Len(ir.atoms) \in Nat /\ DOMAIN ir.atoms = 1..Len(ir.atoms)
  BY <1>1
<1>3. \A n, m \in DOMAIN ir.atoms : ir.atoms[n] = ir.atoms[m] => n = m
  BY DEF Readable, IsInjective
<1>4. ASSUME NEW n \in DOMAIN ir.atoms
      PROVE  /\ ir.atoms[n].parents \in Seq(Earlier(ir.atoms, n))
             /\ \A c \in ir.atoms[n].copies : c.fromAtom \in Earlier(ir.atoms, n)
             /\ IsFiniteSet(ir.atoms[n].copies)
  <2>1. ir.atoms[n] \in ToSet(ir.atoms)
    BY DEF ToSet
  <2>2. IsFiniteSet(ir.atoms[n].copies)
    BY <2>1 DEF Readable, Decoded
  <2> QED
    BY <2>2 DEF Readable
<1> QED
  BY <1>2, <1>3, <1>4 DEF IsReadIn

\* An atom is found at its place.
LEMMA PlaceIs ==
    ASSUME IsReadIn(Ir), NEW n \in 1..Length, NEW a \in Earlier(Ir.atoms, n)
    PROVE  PlaceOf(a) \in 1..(n - 1) /\ PlaceOf(a) \in 1..Length /\ Ir.atoms[PlaceOf(a)] = a
PROOF
<1>1. DOMAIN Ir.atoms = 1..Length /\ Length \in Nat
  BY DEF IsReadIn, Length
<1>2. PICK m \in 1..(n - 1) : Ir.atoms[m] = a
  BY DEF Earlier
<1>3. m \in DOMAIN Ir.atoms
  BY <1>1
<1>4. PlaceOf(a) \in DOMAIN Ir.atoms /\ Ir.atoms[PlaceOf(a)] = a
  BY <1>2, <1>3 DEF PlaceOf
<1>5. PlaceOf(a) = m
  BY <1>2, <1>3, <1>4 DEF IsReadIn
<1> QED
  BY <1>1, <1>3, <1>4, <1>5

LEMMA FirstParentIs ==
    ASSUME IsReadIn(Ir), NEW n \in 1..Length
    PROVE  /\ Ir.atoms[n].parents = <<>> => FirstParent(n) = {}
           /\ Ir.atoms[n].parents # <<>> => /\ Ir.atoms[n].parents[1] \in Earlier(Ir.atoms, n)
                                            /\ FirstParent(n) = {PlaceOf(Ir.atoms[n].parents[1])}
           /\ FirstParent(n) \subseteq 1..(n - 1)
           /\ AskedOf(n) \subseteq 1..(n - 1)
PROOF
<1> DEFINE ps == Ir.atoms[n].parents
<1>1. n \in DOMAIN Ir.atoms /\ Length \in Nat
  BY DEF IsReadIn, Length
<1>2. ps \in Seq(Earlier(Ir.atoms, n)) /\ \A c \in Ir.atoms[n].copies : c.fromAtom \in Earlier(Ir.atoms, n)
  BY <1>1 DEF IsReadIn
<1>3. FirstParent(n) = {PlaceOf(p) : p \in {ps[k] : k \in DOMAIN ps \cap {1}}}
  BY DEF FirstParent
<1> HIDE DEF ps
<1>4. CASE ps = <<>>
  <2>1. DOMAIN ps \cap {1} = {}
    BY <1>4
  <2>2. FirstParent(n) = {}
    BY <1>3, <2>1
  <2>3. AskedOf(n) \subseteq 1..(n - 1)
    BY <1>2, <2>2, PlaceIs DEF AskedOf
  <2> QED
    BY <1>4, <2>2, <2>3 DEF ps
<1>5. CASE ps # <<>>
  <2>1. 1 \in DOMAIN ps /\ ps[1] \in Earlier(Ir.atoms, n)
    BY <1>2, <1>5
  <2>2. DOMAIN ps \cap {1} = {1}
    BY <2>1
  <2>3. FirstParent(n) = {PlaceOf(ps[1])}
    BY <1>3, <2>2
  <2>4. FirstParent(n) \subseteq 1..(n - 1)
    BY <2>1, <2>3, PlaceIs
  <2>5. AskedOf(n) \subseteq 1..(n - 1)
    BY <1>2, <2>4, PlaceIs DEF AskedOf
  <2> QED
    BY <1>5, <2>1, <2>3, <2>4, <2>5 DEF ps
<1> QED
  BY <1>4, <1>5

\* The trees of the plain replay are each its first parent's under the atom's
\* operations.
LEMMA PlainTreesAre ==
    ASSUME IsReadIn(Ir)
    PROVE  \A n \in 1..Length : PlainTrees(Ir)[n] = PathsAfter(StartOf(n), Ir.atoms[n].ops)
PROOF
<1> DEFINE S == 1..Length
           all == UNION {{o.path : o \in Ir.atoms[n].ops} : n \in S}
           T == SUBSET all
           Of(f, n) == PathsAfter(IF Ir.atoms[n].parents = <<>> THEN {}
                                  ELSE f[PlaceOf(Ir.atoms[n].parents[1])], Ir.atoms[n].ops)
           D == [x \in S \X [S -> T] |-> Of(x[2], x[1])]
           rank == [n \in S |-> n]
           Eq(f) == f = [n \in DOMAIN Ir.atoms |-> Of(f, n)]
           g == CHOOSE f : Eq(f)
<1>1. Length \in Nat /\ DOMAIN Ir.atoms = S
  BY DEF IsReadIn, Length
<1>2. ASSUME NEW n \in S, NEW h \in [S -> T] PROVE Of(h, n) \in T
  <2>1. CASE Ir.atoms[n].parents = <<>>
    BY <2>1 DEF PathsAfter
  <2>2. CASE Ir.atoms[n].parents # <<>>
    <3>1. PlaceOf(Ir.atoms[n].parents[1]) \in S
      BY <2>2, FirstParentIs, PlaceIs
    <3>2. h[PlaceOf(Ir.atoms[n].parents[1])] \in T
      BY <3>1
    <3> QED
      BY <2>2, <3>2 DEF PathsAfter
  <2> QED
    BY <2>1, <2>2
<1>3. ASSUME NEW n \in S, NEW h1 \in [S -> T], NEW h2 \in [S -> T],
             \A y \in S : rank[y] < rank[n] => h1[y] = h2[y]
      PROVE  Of(h1, n) = Of(h2, n)
  <2>1. CASE Ir.atoms[n].parents = <<>>
    BY <2>1
  <2>2. CASE Ir.atoms[n].parents # <<>>
    <3>1. PlaceOf(Ir.atoms[n].parents[1]) \in S /\ PlaceOf(Ir.atoms[n].parents[1]) \in 1..(n - 1)
      BY <2>2, FirstParentIs, PlaceIs
    <3>2. h1[PlaceOf(Ir.atoms[n].parents[1])] = h2[PlaceOf(Ir.atoms[n].parents[1])]
      BY <1>1, <1>3, <3>1
    <3> QED
      BY <2>2, <3>2
  <2> QED
    BY <2>1, <2>2
<1>4. PlainTrees(Ir) = g
  BY DEF PlainTrees, PlaceOf
<1>5. \A n \in S, h \in [S -> T] : D[<<n, h>>] = Of(h, n)
  <2> HIDE DEF Of, T
  <2> QED
    OBVIOUS
<1>6. D \in [S \X [S -> T] -> T]
  <2> HIDE DEF Of, T
  <2> QED
    BY <1>2
<1>7. rank \in [S -> Nat] /\ (\A x \in S : rank[x] < Length + 1) /\ Length + 1 \in Nat
  BY <1>1
<1>8. T # {}
  OBVIOUS
<1>9. DependsBelow(D, S, T, rank)
  <2> HIDE DEF Of, T, D, rank, S
  <2> SUFFICES ASSUME NEW n \in S, NEW h1 \in [S -> T], NEW h2 \in [S -> T],
                      \A y \in S : rank[y] < rank[n] => h1[y] = h2[y]
               PROVE  D[<<n, h1>>] = D[<<n, h2>>]
    BY DEF DependsBelow
  <2>1. Of(h1, n) = Of(h2, n)
    BY <1>3
  <2> QED
    BY <1>5, <2>1
<1> HIDE DEF T, D, rank, S, Of
<1>10. PICK f \in [S -> T] : Solves(f, S, D)
  BY <1>1, <1>6, <1>7, <1>8, <1>9, RankedRecursion
<1>11. Eq(f)
  <2>1. \A n \in S : f[n] = Of(f, n)
    BY <1>5, <1>10 DEF Solves
  <2> QED
    BY <1>1, <1>10, <2>1
<1>12. Eq(g)
  <2> HIDE DEF Eq
  <2> QED
    BY <1>11
<1> HIDE DEF g
<1>13. \A n \in S : g[n] = Of(g, n)
  BY <1>1, <1>12
<1> QED
  BY <1>4, <1>13 DEF StartOf, Of, S

LEMMA SoundnessIs ==
    ASSUME IsReadIn(Ir) PROVE PlainlySound(Ir) <=> \A n \in 1..Length : AtomFits(n)
PROOF
<1>1. DOMAIN Ir.atoms = 1..Length
  BY DEF IsReadIn, Length
<1> DEFINE trees == PlainTrees(Ir)
<1>2. PlainlySound(Ir) <=>
        \A n \in DOMAIN Ir.atoms :
           /\ \A c \in Ir.atoms[n].copies : c.from \in trees[PlaceOf(c.fromAtom)]
           /\ \A o \in Ir.atoms[n].ops :
                 (o.kind = "Add") # (o.path \in (IF Ir.atoms[n].parents = <<>> THEN {}
                                                 ELSE trees[PlaceOf(Ir.atoms[n].parents[1])]))
  BY DEF PlainlySound, PlaceOf
<1> HIDE DEF trees
<1>3. \A n \in DOMAIN Ir.atoms : AtomFits(n) <=>
           /\ \A c \in Ir.atoms[n].copies : c.from \in trees[PlaceOf(c.fromAtom)]
           /\ \A o \in Ir.atoms[n].ops :
                 (o.kind = "Add") # (o.path \in (IF Ir.atoms[n].parents = <<>> THEN {}
                                                 ELSE trees[PlaceOf(Ir.atoms[n].parents[1])]))
  BY DEF AtomFits, StartOf, Fits, trees
<1> QED
  BY <1>1, <1>2, <1>3

\* What the uses left of a tree say.
LEMMA UsesAre ==
    ASSUME IsReadIn(Ir), NEW k \in 0..Length, NEW s \in 1..Length
    PROVE  /\ IsFiniteSet(StartsToCome(s, k)) /\ IsFiniteSet(CopiesLeft(s, k))
           /\ UsesAfter(s, k) \in Nat
           /\ UsesAfter(s, k) > 0 <=>
                 \/ \E n \in (k + 1)..Length : s \in AskedOf(n)
                 \/ \E n \in 1..k : s \in FirstParent(n) /\ CopiesFrom(n, s) # {}
PROOF
<1>1. Length \in Nat /\ DOMAIN Ir.atoms = 1..Length
  BY DEF IsReadIn, Length
<1>2. IsFiniteSet(StartsToCome(s, k))
  <2>1. StartsToCome(s, k) \subseteq (k + 1)..Length /\ IsFiniteSet((k + 1)..Length)
    BY <1>1, FS_Interval DEF StartsToCome
  <2> QED
    BY <2>1, FS_Subset
<1>3. \A n \in 1..Length : IsFiniteSet({n} \X CopiesFrom(n, s))
  <2> TAKE n \in 1..Length
  <2>1. IsFiniteSet(Ir.atoms[n].copies) /\ CopiesFrom(n, s) \subseteq Ir.atoms[n].copies
    BY <1>1 DEF IsReadIn, CopiesFrom
  <2>2. IsFiniteSet(CopiesFrom(n, s)) /\ IsFiniteSet({n})
    BY <2>1, FS_Subset, FS_Singleton
  <2> QED
    BY <2>2, FS_Product
<1>4. IsFiniteSet(CopiesLeft(s, k))
  <2> DEFINE ns == {m \in 1..Length : m > k \/ s \in FirstParent(m)}
             sets == {{n} \X CopiesFrom(n, s) : n \in ns}
  <2>1. IsFiniteSet(ns)
    <3>1. ns \subseteq 1..Length /\ IsFiniteSet(1..Length)
      BY <1>1, FS_Interval
    <3> QED
      BY <3>1, FS_Subset
  <2>2. IsFiniteSet(sets) /\ \A x \in sets : IsFiniteSet(x)
    <3>1. \A x \in sets : IsFiniteSet(x)
      BY <1>3
    <3> DEFINE f == [n \in ns |-> {n} \X CopiesFrom(n, s)]
    <3>2. f \in Surjection(ns, sets)
      BY DEF Surjection
    <3> HIDE DEF f, ns, sets
    <3> QED
      BY <2>1, <3>1, <3>2, FS_Surjection
  <2>3. CopiesLeft(s, k) = UNION sets
    BY DEF CopiesLeft
  <2> HIDE DEF sets
  <2> QED
    BY <2>2, <2>3, FS_UNION
<1>5. /\ Cardinality(StartsToCome(s, k)) \in Nat /\ Cardinality(CopiesLeft(s, k)) \in Nat
      /\ Cardinality(StartsToCome(s, k)) > 0 <=> StartsToCome(s, k) # {}
      /\ Cardinality(CopiesLeft(s, k)) > 0 <=> CopiesLeft(s, k) # {}
  BY <1>2, <1>4, NoneIsZero
<1>6. UsesAfter(s, k) \in Nat /\ (UsesAfter(s, k) > 0 <=> StartsToCome(s, k) # {} \/ CopiesLeft(s, k) # {})
  BY <1>5 DEF UsesAfter
<1>7. StartsToCome(s, k) # {} <=> \E n \in (k + 1)..Length : s \in FirstParent(n)
  BY DEF StartsToCome
<1>8. CopiesLeft(s, k) # {} <=>
        \E n \in 1..Length : (n > k \/ s \in FirstParent(n)) /\ CopiesFrom(n, s) # {}
  <2> DEFINE ns == {m \in 1..Length : m > k \/ s \in FirstParent(m)}
  <2>1. CopiesLeft(s, k) = UNION {{n} \X CopiesFrom(n, s) : n \in ns}
    BY DEF CopiesLeft
  <2>2. \A n : {n} \X CopiesFrom(n, s) # {} <=> CopiesFrom(n, s) # {}
    <3> TAKE n
    <3>1. ASSUME NEW c \in CopiesFrom(n, s) PROVE <<n, c>> \in {n} \X CopiesFrom(n, s)
      BY <3>1
    <3> QED
      BY <3>1
  <2>3. CopiesLeft(s, k) # {} <=> \E n \in ns : {n} \X CopiesFrom(n, s) # {}
    BY <2>1
  <2> QED
    BY <2>2, <2>3
<1>9. \A n \in 1..Length : CopiesFrom(n, s) # {} <=> s \in {PlaceOf(c.fromAtom) : c \in Ir.atoms[n].copies}
  BY DEF CopiesFrom
<1>10. \A n : n \in (k + 1)..Length <=> n \in 1..Length /\ n > k
  BY <1>1
<1>11. \A n : n \in 1..k <=> n \in 1..Length /\ ~ (n > k)
  BY <1>1
<1>12. (\E n \in 1..Length : (n > k \/ s \in FirstParent(n)) /\ CopiesFrom(n, s) # {}) \/ (\E n \in (k + 1)..Length : s \in FirstParent(n))
        <=> \/ \E n \in (k + 1)..Length : s \in AskedOf(n)
            \/ \E n \in 1..k : s \in FirstParent(n) /\ CopiesFrom(n, s) # {}
  BY <1>9, <1>10, <1>11 DEF AskedOf
<1> QED
  BY <1>2, <1>4, <1>6, <1>7, <1>8, <1>12

LEMMA UsesBegin ==
    ASSUME IsReadIn(Ir), NEW s \in 1..Length
    PROVE  UsesToCome(s) = UsesAfter(s, 0)
PROOF
<1>1. Length \in Nat /\ DOMAIN Ir.atoms = 1..Length /\ (0 + 1)..Length = 1..Length
  BY DEF IsReadIn, Length
<1>2. StartsToCome(s, 0) = {n \in DOMAIN Ir.atoms : s \in FirstParent(n)}
  BY <1>1 DEF StartsToCome
<1>3. {m \in 1..Length : m > 0 \/ s \in FirstParent(m)} = DOMAIN Ir.atoms
  BY <1>1
<1>4. CopiesLeft(s, 0) = UNION {{n} \X CopiesFrom(n, s) : n \in DOMAIN Ir.atoms}
  BY <1>3 DEF CopiesLeft
<1> QED
  BY <1>2, <1>4 DEF UsesToCome, UsesAfter

\* What an atom takes off.
LEMMA UsesFall ==
    ASSUME IsReadIn(Ir), NEW k \in 0..(Length - 1), NEW s \in 1..Length
    PROVE  UsesAfter(s, k + 1) = UsesAfter(s, k)
              - (IF s \in FirstParent(k + 1) THEN 1 ELSE Cardinality(CopiesFrom(k + 1, s)))
PROOF
<1>1. Length \in Nat /\ DOMAIN Ir.atoms = 1..Length /\ k \in 0..Length /\ k + 1 \in 0..Length /\ k + 1 \in 1..Length
  BY DEF IsReadIn, Length
<1>2. IsFiniteSet(StartsToCome(s, k + 1)) /\ IsFiniteSet(CopiesLeft(s, k + 1))
  BY <1>1, UsesAre
<1>3. Cardinality(StartsToCome(s, k + 1)) \in Nat /\ Cardinality(CopiesLeft(s, k + 1)) \in Nat
  BY <1>2, FS_CardinalityType
<1>4. CASE s \in FirstParent(k + 1)
  <2>1. StartsToCome(s, k) = StartsToCome(s, k + 1) \cup {k + 1} /\ k + 1 \notin StartsToCome(s, k + 1)
    BY <1>1, <1>4 DEF StartsToCome
  <2>2. Cardinality(StartsToCome(s, k)) = Cardinality(StartsToCome(s, k + 1)) + 1
    BY <1>2, <2>1, FS_AddElement
  <2>3. {m \in 1..Length : m > k \/ s \in FirstParent(m)} = {m \in 1..Length : m > k + 1 \/ s \in FirstParent(m)}
    BY <1>1, <1>4
  <2>4. CopiesLeft(s, k) = CopiesLeft(s, k + 1)
    BY <2>3 DEF CopiesLeft
  <2> QED
    BY <1>3, <1>4, <2>2, <2>4 DEF UsesAfter
<1>5. CASE s \notin FirstParent(k + 1)
  <2> DEFINE C == CopiesFrom(k + 1, s)
             P == {k + 1} \X C
  <2>1. StartsToCome(s, k) = StartsToCome(s, k + 1)
    BY <1>1, <1>5 DEF StartsToCome
  <2>2. {m \in 1..Length : m > k \/ s \in FirstParent(m)} = {m \in 1..Length : m > k + 1 \/ s \in FirstParent(m)} \cup {k + 1}
    BY <1>1
  <2>3. CopiesLeft(s, k) = CopiesLeft(s, k + 1) \cup P
    BY <2>2 DEF CopiesLeft
  <2>4. CopiesLeft(s, k + 1) \cap P = {}
    <3>1. \A m \in {i \in 1..Length : i > k + 1 \/ s \in FirstParent(i)} : m # k + 1
      BY <1>1, <1>5
    <3>2. \A x \in CopiesLeft(s, k + 1) : x[1] # k + 1
      BY <3>1 DEF CopiesLeft
    <3>3. \A x \in P : x[1] = k + 1
      OBVIOUS
    <3> QED
      BY <3>2, <3>3
  <2>5. IsFiniteSet(C)
    <3>1. IsFiniteSet(Ir.atoms[k + 1].copies) /\ C \subseteq Ir.atoms[k + 1].copies
      BY <1>1 DEF IsReadIn, CopiesFrom
    <3> QED
      BY <3>1, FS_Subset
  <2>6. IsFiniteSet(P) /\ Cardinality(P) = Cardinality(C)
    <3> DEFINE f == [c \in C |-> <<k + 1, c>>]
    <3>1. f \in [C -> P] /\ (\A x, y \in C : f[x] = f[y] => x = y) /\ \A z \in P : \E x \in C : f[x] = z
      OBVIOUS
    <3> HIDE DEF f, C, P
    <3> QED
      BY <2>5, <3>1, SameCount
  <2> HIDE DEF P
  <2>7. Cardinality(CopiesLeft(s, k)) = Cardinality(CopiesLeft(s, k + 1)) + Cardinality(C)
    BY <1>2, <2>3, <2>4, <2>6, DisjointUnion
  <2>8. Cardinality(C) \in Nat
    BY <2>5, FS_CardinalityType
  <2> HIDE DEF C
  <2>9. UsesAfter(s, k + 1) = UsesAfter(s, k) - Cardinality(C)
    BY <1>3, <2>1, <2>7, <2>8 DEF UsesAfter
  <2> QED
    BY <1>5, <2>9 DEF C
<1> QED
  BY <1>4, <1>5

-----------------------------------------------------------------------------
\* What is said of the artifact stays said while it stays.
LEMMA ReplayStays ==
    ASSUME artifact' = artifact
    PROVE  /\ Ir' = Ir /\ Length' = Length /\ PlainTrees(Ir)' = PlainTrees(Ir)
           /\ PlainlySound(Ir)' = PlainlySound(Ir)
           /\ \A n : AtomFits(n)' = AtomFits(n) /\ StartOf(n)' = StartOf(n)
           /\ \A s, k : UsesAfter(s, k)' = UsesAfter(s, k)
           /\ replay' = replay /\ ReplayGoes => ReplayGoes'
PROOF
<1>1. Ir' = Ir /\ Length' = Length
  BY DEF Ir, OneOf, Length
<1>2. PlainTrees(Ir)' = PlainTrees(Ir)
  BY <1>1 DEF PlainTrees, PathsAfter
<1>3. \A a : PlaceOf(a)' = PlaceOf(a)
  BY <1>1 DEF PlaceOf
<1>4. \A n : AtomFits(n)' = AtomFits(n) /\ StartOf(n)' = StartOf(n)
  BY <1>1, <1>2, <1>3 DEF AtomFits, StartOf, Fits
<1>5. PlainlySound(Ir)' = PlainlySound(Ir)
  BY <1>1, <1>2 DEF PlainlySound
<1>6. \A n, s : FirstParent(n)' = FirstParent(n) /\ CopiesFrom(n, s)' = CopiesFrom(n, s)
  BY <1>1, <1>3 DEF FirstParent, CopiesFrom
<1>7. \A s, k : UsesAfter(s, k)' = UsesAfter(s, k)
  <2> TAKE s, k
  <2>1. StartsToCome(s, k)' = StartsToCome(s, k)
    BY <1>1, <1>6 DEF StartsToCome
  <2>2. {m \in 1..Length : m > k \/ s \in FirstParent(m)}' = {m \in 1..Length : m > k \/ s \in FirstParent(m)}
    BY <1>1, <1>6
  <2>3. CopiesLeft(s, k)' = CopiesLeft(s, k)
    BY <1>6, <2>2 DEF CopiesLeft
  <2> QED
    BY <2>1, <2>3 DEF UsesAfter
<1>8. replay' = replay /\ ReplayGoes => ReplayGoes'
  BY <1>1, <1>2, <1>4, <1>7 DEF ReplayGoes
<1> QED
  BY <1>1, <1>2, <1>4, <1>5, <1>7, <1>8

LEMMA ReplayStarts == Init => ReplayInv
PROOF
<1> SUFFICES ASSUME Init PROVE ReplayInv
  OBVIOUS
<1>1. PICK source \in Sources : DecodingInit(source, Begin(source.kind))
  BY DEF Init
<1>2. source.kind \in {"git", "hg", "svn", "cvs", "artifact"} /\ stage = Begin(source.kind)
  BY <1>1, SourceKinds DEF DecodingInit
<1>3. stage \notin ReplayStages \cup LaterStages
  BY <1>2 DEF Begin, ReplayStages, LaterStages
<1>4. artifact = {}
  BY DEF Init, VerifyIdle
<1> QED
  BY <1>3, <1>4 DEF ReplayInv, ReplayStages, LaterStages

LEMMA ReadingStartsReplay == ReplayInv /\ VerifyArtifact => ReplayInv'
PROOF
<1> SUFFICES ASSUME ReplayInv, VerifyArtifact PROVE ReplayInv'
  OBVIOUS
<1>1. artifact = {} /\ stage \notin ReplayStages \cup LaterStages
  BY DEF ReplayInv, VerifyArtifact, ReplayStages, LaterStages
<1>2. CASE Readable(File) /\ artifact' = {File} /\ Goto("verify begin")
  <2>1. File = File'
    BY <1>2 DEF File, Goto, Artifact, VerifyArtifact
  <2>2. stage' = "verify begin"
    BY <1>2 DEF Goto
  <2>3. \E file : artifact' = {file} /\ Readable(file)
    BY <1>2
  <2> QED
    BY <1>2, <2>2, <2>3 DEF ReplayInv, ReplayStages, LaterStages
<1>3. CASE Goto("verify source") /\ artifact' = artifact
  <2>1. stage' = "verify source"
    BY <1>3 DEF Goto
  <2> QED
    BY <1>1, <1>3, <2>1 DEF ReplayInv, ReplayStages, LaterStages
<1> QED
  BY <1>2, <1>3 DEF VerifyArtifact

LEMMA IrIsRead == ReplayInv /\ artifact # {} => Readable(Ir) /\ IsReadIn(Ir)
PROOF
<1> SUFFICES ASSUME ReplayInv, artifact # {} PROVE Readable(Ir) /\ IsReadIn(Ir)
  OBVIOUS
<1>1. PICK file : artifact = {file} /\ Readable(file)
  BY DEF ReplayInv
<1>2. Ir = file
  BY <1>1 DEF Ir, OneOf
<1> QED
  BY <1>1, <1>2, ReadableIs

LEMMA BeginStartsReplay == ReplayInv /\ ReplayBegins => ReplayInv'
PROOF
<1> SUFFICES ASSUME ReplayInv, ReplayBegins PROVE ReplayInv'
  OBVIOUS
<1>1. stage = "verify begin" /\ stage' = "verify replay" /\ artifact' = artifact /\ artifact # {}
  BY DEF ReplayBegins, Goto, ReplayInv, ReplayStages
<1>2. IsReadIn(Ir)
  BY <1>1, IrIsRead
<1>3. DOMAIN Ir.atoms = 1..Length /\ Length \in Nat
  BY <1>2 DEF IsReadIn, Length
<1>4. /\ replay'.at = 0 /\ replay'.trees = EmptyTree
      /\ replay'.uses = [s \in 1..Length |-> UsesToCome(s)]
  BY <1>3 DEF ReplayBegins, NoReplay
<1>5. \A s \in 1..Length : replay'.uses[s] = UsesAfter(s, 0)
  BY <1>2, <1>4, UsesBegin
<1>6. ReplayGoes'
  <2>1. Length' = Length /\ \A s, k : UsesAfter(s, k)' = UsesAfter(s, k)
    BY <1>1, ReplayStays
  <2>2. DOMAIN replay'.trees = {} /\ 1..0 = {}
    BY <1>4 DEF EmptyTree
  <2>3. (replay.at \in 0..Length)' /\ (DOMAIN replay.uses = 1..Length)'
    BY <1>3, <1>4, <2>1
  <2>4. (\A s \in 1..Length : replay.uses[s] = UsesAfter(s, replay.at))'
    BY <1>4, <1>5, <2>1
  <2>5. (DOMAIN replay.trees = {s \in 1..replay.at : replay.uses[s] > 0})'
    BY <1>4, <2>2
  <2>6. (\A s \in DOMAIN replay.trees : replay.trees[s] = PlainTrees(Ir)[s])'
    BY <2>2
  <2>7. (\A n \in 1..replay.at : AtomFits(n))'
    BY <1>4, <2>2
  <2> QED
    BY <2>3, <2>4, <2>5, <2>6, <2>7 DEF ReplayGoes
<1> QED
  BY <1>1, <1>6 DEF ReplayInv, ReplayStages, LaterStages

\* The trees that are kept are those the next atoms ask for, and the atom at hand
\* is put to the test of the plain replay.
LEMMA AtHandIs ==
    ASSUME IsReadIn(Ir), ReplayGoes, replay.at < Length, NEW start,
           start = (IF FirstParent(replay.at + 1) \subseteq DOMAIN replay.trees
                    THEN UNION {replay.trees[p] : p \in FirstParent(replay.at + 1)} ELSE {})
    PROVE  /\ AskedOf(replay.at + 1) \subseteq DOMAIN replay.trees
           /\ start = StartOf(replay.at + 1)
           /\ \A s \in FirstParent(replay.at + 1) : PlainTrees(Ir)[s] = start
PROOF
<1> DEFINE n == replay.at + 1
<1>1. Length \in Nat /\ replay.at \in 0..Length /\ n \in 1..Length /\ n - 1 = replay.at /\ n \in (replay.at + 1)..Length
  BY DEF IsReadIn, Length, ReplayGoes
<1>2. AskedOf(n) \subseteq 1..replay.at /\ FirstParent(n) \subseteq AskedOf(n)
  BY <1>1, FirstParentIs DEF AskedOf
<1>3. AskedOf(n) \subseteq DOMAIN replay.trees
  <2> SUFFICES ASSUME NEW s \in AskedOf(n) PROVE s \in DOMAIN replay.trees
    OBVIOUS
  <2>1. s \in 1..replay.at /\ s \in 1..Length
    BY <1>1, <1>2
  <2>2. UsesAfter(s, replay.at) > 0
    BY <1>1, <2>1, UsesAre
  <2> QED
    BY <2>1, <2>2 DEF ReplayGoes
<1>4. FirstParent(n) \subseteq DOMAIN replay.trees
  BY <1>2, <1>3
<1>5. start = UNION {replay.trees[p] : p \in FirstParent(n)}
  BY <1>4
<1>6. \A p \in FirstParent(n) : replay.trees[p] = PlainTrees(Ir)[p]
  BY <1>4 DEF ReplayGoes
<1> HIDE DEF n
<1>7. CASE Ir.atoms[n].parents = <<>>
  <2>1. FirstParent(n) = {}
    BY <1>1, <1>7, FirstParentIs
  <2> QED
    BY <1>3, <1>5, <1>7, <2>1 DEF StartOf, n
<1>8. CASE Ir.atoms[n].parents # <<>>
  <2>1. FirstParent(n) = {PlaceOf(Ir.atoms[n].parents[1])}
    BY <1>1, <1>8, FirstParentIs
  <2> DEFINE p == PlaceOf(Ir.atoms[n].parents[1])
  <2>2. start = PlainTrees(Ir)[p]
    BY <1>5, <1>6, <2>1
  <2> QED
    BY <1>3, <1>8, <2>1, <2>2 DEF StartOf, n
<1> QED
  BY <1>7, <1>8

LEMMA PassIs ==
    ASSUME NEW check, NEW passes \in BOOLEAN, Pass(check, passes)
    PROVE  check \in DOMAIN results' /\ (results'[check] = "pass" <=> passes)
PROOF
<1> DEFINE outcomes == [c \in {check} |-> Outcome(passes)]
<1>1. results' = [c \in DOMAIN results \cup DOMAIN outcomes |->
                    IF c \in DOMAIN outcomes THEN outcomes[c] ELSE results[c]]
  BY DEF Pass, Note
<1>2. check \in DOMAIN results' /\ results'[check] = Outcome(passes)
  BY <1>1
<1> QED
  BY <1>2 DEF Outcome

LEMMA ReplayStepIs ==
    ASSUME ReplayInv, ReplayAtom
    PROVE  /\ stage = "verify replay" /\ artifact' = artifact /\ IsReadIn(Ir) /\ ReplayGoes
           /\ replay.at + 1 \in 1..Length /\ replay.at \in 0..(Length - 1) /\ Length \in Nat
           /\ \/ /\ ~AtomFits(replay.at + 1) /\ Pass("replay", FALSE)
                 /\ stage' = "verify checks"
              \/ /\ AtomFits(replay.at + 1) /\ stage' = "verify replay"
                 /\ replay'.at = replay.at + 1
                 /\ replay'.uses = [s \in 1..Length |-> UsesAfter(s, replay.at + 1)]
                 /\ DOMAIN replay'.trees = {k \in DOMAIN replay.trees \cup {replay.at + 1} : replay'.uses[k] > 0}
                 /\ \A s \in DOMAIN replay'.trees :
                       replay'.trees[s] = IF s = replay.at + 1
                                          THEN PathsAfter(StartOf(replay.at + 1), Ir.atoms[replay.at + 1].ops)
                                          ELSE replay.trees[s]
PROOF
<1>1. /\ stage = "verify replay" /\ artifact' = artifact /\ artifact # {}
      /\ ReplayGoes /\ replay.at < Len(Ir.atoms)
  BY DEF ReplayAtom, ReplayInv, ReplayStages
<1>2. IsReadIn(Ir)
  BY <1>1, IrIsRead
<1>3. replay.at < Length /\ Length \in Nat /\ replay.at \in 0..Length /\ DOMAIN replay.uses = 1..Length
  BY <1>1, <1>2 DEF Length, IsReadIn, ReplayGoes
<1>4. replay.at + 1 \in 1..Length /\ replay.at \in 0..(Length - 1) /\ Length \in Nat
  BY <1>3
<1> DEFINE n == replay.at + 1
           first == FirstParent(n)
           start == IF first \subseteq DOMAIN replay.trees THEN UNION {replay.trees[p] : p \in first} ELSE {}
           Used(s) == IF s \in first THEN 1 ELSE Cardinality(CopiesFrom(n, s))
           uses == [s \in DOMAIN replay.uses |-> replay.uses[s] - Used(s)]
           TreeAt(s) == IF s \in first THEN start ELSE replay.trees[s]
           sources == {PlaceOf(c.fromAtom) : c \in Ir.atoms[n].copies}
           sound == /\ first \cup sources \subseteq DOMAIN replay.trees
                    /\ \A c \in Ir.atoms[n].copies : c.from \in TreeAt(PlaceOf(c.fromAtom))
                    /\ \A o \in Ir.atoms[n].ops : Fits(o, start)
           held == {k \in DOMAIN replay.trees \cup {n} : uses[k] > 0}
           trees == [s \in held |-> IF s = n THEN PathsAfter(start, Ir.atoms[n].ops) ELSE replay.trees[s]]
<1>5. \/ ~sound /\ Pass("replay", FALSE) /\ Goto("verify checks")
      \/ sound /\ replay' = [at |-> n, uses |-> uses, trees |-> trees] /\ Goto("verify replay")
  BY DEF ReplayAtom
<1> HIDE DEF start
<1>6. first \cup sources \subseteq DOMAIN replay.trees /\ start = StartOf(n) /\ \A s \in first : PlainTrees(Ir)[s] = start
  <2>1. start = IF first \subseteq DOMAIN replay.trees THEN UNION {replay.trees[p] : p \in first} ELSE {}
    BY DEF start
  <2> QED
    BY <1>1, <1>2, <1>3, <2>1, AtHandIs DEF AskedOf
<1>7. \A s \in first \cup sources : TreeAt(s) = PlainTrees(Ir)[s]
  BY <1>1, <1>6 DEF ReplayGoes
<1>8. sound <=> AtomFits(n)
  <2>1. (\A c \in Ir.atoms[n].copies : c.from \in TreeAt(PlaceOf(c.fromAtom)))
         <=> \A c \in Ir.atoms[n].copies : c.from \in PlainTrees(Ir)[PlaceOf(c.fromAtom)]
    BY <1>7
  <2> QED
    BY <1>6, <2>1 DEF AtomFits
<1>9. uses = [s \in 1..Length |-> UsesAfter(s, n)]
  <2>1. \A s \in 1..Length : replay.uses[s] = UsesAfter(s, replay.at)
    BY <1>1 DEF ReplayGoes
  <2>2. \A s \in 1..Length : UsesAfter(s, n) = replay.uses[s] - Used(s)
    BY <1>2, <1>4, <2>1, UsesFall
  <2> HIDE DEF Used, n
  <2> QED
    BY <1>3, <2>2
<1> HIDE DEF sound, uses, trees, n, held
<1>10. CASE ~sound /\ Pass("replay", FALSE) /\ Goto("verify checks")
  BY <1>1, <1>2, <1>4, <1>8, <1>10 DEF Goto, n
<1>11. CASE sound /\ replay' = [at |-> n, uses |-> uses, trees |-> trees] /\ Goto("verify replay")
  <2>1. replay'.at = n /\ replay'.uses = uses /\ replay'.trees = trees /\ stage' = "verify replay"
    BY <1>11 DEF Goto
  <2>2. DOMAIN trees = held /\ \A s \in held : trees[s] = IF s = n THEN PathsAfter(start, Ir.atoms[n].ops) ELSE replay.trees[s]
    BY DEF trees
  <2>3. AtomFits(n)
    BY <1>8, <1>11
  <2> QED
    BY <1>1, <1>2, <1>4, <1>6, <1>9, <2>1, <2>2, <2>3 DEF n, held
<1> QED
  BY <1>5, <1>10, <1>11

LEMMA ReplayGoesOn == ReplayInv /\ ReplayAtom => ReplayInv'
PROOF
<1> SUFFICES ASSUME ReplayInv, ReplayAtom PROVE ReplayInv'
  OBVIOUS
<1> DEFINE n == replay.at + 1
<1>1. /\ artifact' = artifact /\ IsReadIn(Ir) /\ ReplayGoes /\ artifact # {} /\ stage = "verify replay"
      /\ n \in 1..Length /\ replay.at \in 0..(Length - 1) /\ Length \in Nat
  BY ReplayStepIs DEF ReplayInv, ReplayStages
<1>7. \A L \in Nat : \A i \in 0..(L - 1) : i \in Int /\ i \in 0..L /\ i + 1 \in 0..L
  OBVIOUS
<1>6. Length \in Nat /\ replay.at \in Int /\ replay.at \in 0..Length
  BY <1>1, <1>7
<1>2. /\ Ir' = Ir /\ Length' = Length /\ PlainTrees(Ir)' = PlainTrees(Ir)
      /\ PlainlySound(Ir)' = PlainlySound(Ir)
      /\ \A m : AtomFits(m)' = AtomFits(m) /\ StartOf(m)' = StartOf(m)
      /\ \A s, k : UsesAfter(s, k)' = UsesAfter(s, k)
  BY <1>1, ReplayStays
<1>3. \E file : artifact' = {file} /\ Readable(file)
  BY <1>1 DEF ReplayInv
<1>4. CASE ~AtomFits(n) /\ Pass("replay", FALSE) /\ stage' = "verify checks"
  <2>1. ~PlainlySound(Ir)
    BY <1>1, <1>4, SoundnessIs
  <2>2. results'["replay"] # "pass" /\ "replay" \in DOMAIN results'
    BY <1>4, PassIs
  <2> QED
    BY <1>1, <1>2, <1>3, <1>4, <2>1, <2>2 DEF ReplayInv, ReplayStages, LaterStages
<1>5. CASE /\ AtomFits(n) /\ stage' = "verify replay"
           /\ replay'.at = n
           /\ replay'.uses = [s \in 1..Length |-> UsesAfter(s, n)]
           /\ DOMAIN replay'.trees = {k \in DOMAIN replay.trees \cup {n} : replay'.uses[k] > 0}
           /\ \A s \in DOMAIN replay'.trees :
                 replay'.trees[s] = IF s = n THEN PathsAfter(StartOf(n), Ir.atoms[n].ops) ELSE replay.trees[s]
  <2>1. Length \in Nat /\ n \in 0..Length
    BY <1>1, <1>7
  <2>2. \A s \in 1..replay.at : replay'.uses[s] > 0 => replay.uses[s] > 0
    <3> SUFFICES ASSUME NEW s \in 1..replay.at, UsesAfter(s, n) > 0 PROVE UsesAfter(s, replay.at) > 0
      <4>1. \A s \in 1..replay.at : s \in 1..Length
        BY <1>6
      <4>2. \A s \in 1..Length : replay.uses[s] = UsesAfter(s, replay.at) /\ replay'.uses[s] = UsesAfter(s, n)
        BY <1>1, <1>5 DEF ReplayGoes
      <4> HIDE DEF n
      <4> QED
        BY <4>1, <4>2
    <3>1. s \in 1..Length /\ replay.at \in 0..Length
      BY <1>6
    <3>2. UsesAfter(s, n) = UsesAfter(s, replay.at)
             - (IF s \in FirstParent(n) THEN 1 ELSE Cardinality(CopiesFrom(n, s)))
      BY <1>1, <3>1, UsesFall
    <3>3. UsesAfter(s, n) \in Nat /\ UsesAfter(s, replay.at) \in Nat
      BY <1>1, <2>1, <3>1, UsesAre
    <3>4. Cardinality(CopiesFrom(n, s)) \in Nat
      <4>1. IsFiniteSet(Ir.atoms[n].copies) /\ CopiesFrom(n, s) \subseteq Ir.atoms[n].copies
        BY <1>1 DEF IsReadIn, CopiesFrom, Length
      <4> QED
        BY <4>1, FS_Subset, FS_CardinalityType
    <3> HIDE DEF n
    <3> QED
      BY <3>2, <3>3, <3>4
  <2>3. \A s : s \in 1..n <=> s \in 1..replay.at \/ s = n
    BY <1>6
  <2>4. DOMAIN replay'.trees = {s \in 1..n : replay'.uses[s] > 0}
    <3>1. DOMAIN replay.trees = {s \in 1..replay.at : replay.uses[s] > 0}
      BY <1>1 DEF ReplayGoes
    <3> QED
      BY <1>5, <2>2, <2>3, <3>1
  <2>5. \A s \in DOMAIN replay'.trees : replay'.trees[s] = PlainTrees(Ir)[s]
    <3>1. PlainTrees(Ir)[n] = PathsAfter(StartOf(n), Ir.atoms[n].ops)
      BY <1>1, PlainTreesAre
    <3>2. \A s \in DOMAIN replay.trees : replay.trees[s] = PlainTrees(Ir)[s]
      BY <1>1 DEF ReplayGoes
    <3>3. \A s \in DOMAIN replay'.trees : s = n \/ s \in DOMAIN replay.trees
      BY <1>5
    <3> QED
      BY <1>5, <3>1, <3>2, <3>3
  <2>6. \A m \in 1..n : AtomFits(m)
    BY <1>1, <1>5, <2>3 DEF ReplayGoes
  <2> HIDE DEF n
  <2>7. ReplayGoes'
    BY <1>2, <1>5, <2>1, <2>4, <2>5, <2>6 DEF ReplayGoes
  <2> QED
    BY <1>1, <1>3, <1>5, <2>7 DEF ReplayInv, ReplayStages, LaterStages
<1> QED
  BY <1>4, <1>5, ReplayStepIs

LEMMA EndKeepsReplay == ReplayInv /\ ReplayEnds => ReplayInv'
PROOF
<1> SUFFICES ASSUME ReplayInv, ReplayEnds PROVE ReplayInv'
  OBVIOUS
<1>1. /\ stage = "verify replay" /\ stage' = "verify checks" /\ artifact' = artifact /\ artifact # {}
      /\ ReplayGoes /\ replay.at = Length /\ Pass("replay", TRUE)
  BY DEF ReplayEnds, Goto, ReplayInv, ReplayStages, Length
<1>2. PlainlySound(Ir) /\ PlainlySound(Ir)' = PlainlySound(Ir)
  <2>1. IsReadIn(Ir)
    BY <1>1, IrIsRead
  <2>2. \A n \in 1..Length : AtomFits(n)
    BY <1>1 DEF ReplayGoes
  <2> QED
    BY <1>1, <2>1, <2>2, SoundnessIs, ReplayStays
<1>3. results'["replay"] = "pass" /\ "replay" \in DOMAIN results'
  BY <1>1, PassIs
<1>4. \E file : artifact' = {file} /\ Readable(file)
  BY <1>1 DEF ReplayInv
<1> QED
  BY <1>1, <1>2, <1>3, <1>4 DEF ReplayInv, ReplayStages, LaterStages

LEMMA LaterKeepsReplay == ReplayInv /\ (RunChecks \/ CompareWithSource) => ReplayInv'
PROOF
<1> SUFFICES ASSUME ReplayInv, RunChecks \/ CompareWithSource PROVE ReplayInv'
  OBVIOUS
<1>1. /\ artifact' = artifact /\ stage \in {"verify checks"} \cup LaterStages /\ stage' \in LaterStages
      /\ stage = "verify checks" => artifact # {}
  BY DEF RunChecks, CompareWithSource, Goto, LaterStages, ReplayInv, ReplayStages
<1>2. results'["replay"] = results["replay"]
  <2>1. CASE CompareWithSource
    BY <2>1 DEF CompareWithSource
  <2>2. CASE RunChecks
    <3> DEFINE noted == [c \in {"derivations", "source-invariants", "provenance", "loss-boundary"} |->
                           CASE c = "derivations" -> Outcome(DerivationsAreWhole(Ir))
                             [] c = "source-invariants" -> IF Ir.prov.kind \notin KnownKinds THEN "not-checked"
                                                           ELSE Outcome(KeepsSourceInvariants(Ir))
                             [] c = "provenance" -> Outcome(Ir.prov.whole)
                             [] c = "loss-boundary" -> Outcome(\A d \in Ir.drops : d.what # "")]
    <3>4. Note(noted)
      BY <2>2 DEF RunChecks
    <3>5. DOMAIN noted = {"derivations", "source-invariants", "provenance", "loss-boundary"}
      OBVIOUS
    <3> HIDE DEF noted
    <3>1. PICK f : Note(f) /\ DOMAIN f = {"derivations", "source-invariants", "provenance", "loss-boundary"}
      BY <3>4, <3>5
    <3>2. "replay" \notin DOMAIN f /\ results' = [c \in DOMAIN results \cup DOMAIN f |->
                                                 IF c \in DOMAIN f THEN f[c] ELSE results[c]]
      BY <3>1 DEF Note
    <3>3. "replay" \in DOMAIN results
      BY <2>2 DEF RunChecks, ReplayInv
    <3> QED
      BY <3>2, <3>3
  <2> QED
    BY <2>1, <2>2
<1>3. PlainlySound(Ir)' = PlainlySound(Ir)
  BY <1>1, ReplayStays
<1>4. artifact # {} => \E file : artifact' = {file} /\ Readable(file)
  BY <1>1 DEF ReplayInv
<1> QED
  BY <1>1, <1>2, <1>3, <1>4 DEF ReplayInv, ReplayStages, LaterStages

LEMMA ReplayInvHolds == Spec => []ReplayInv
PROOF
<1>1. ReplayInv /\ [Next]_vars => ReplayInv'
  <2> SUFFICES ASSUME ReplayInv, [Next]_vars PROVE ReplayInv'
    OBVIOUS
  <2>1. CASE VerifyNext
    BY <2>1, ReadingStartsReplay, BeginStartsReplay, ReplayGoesOn, EndKeepsReplay, LaterKeepsReplay DEF VerifyNext
  <2>2. CASE Decoder
    <3>1. stage \notin ReplayStages \cup LaterStages /\ stage' \notin ReplayStages \cup LaterStages
      BY <2>2, GitStays, HgStays, SvnStays, CvsStays
      DEF Decoder, Stays, GitStages, HgStages, SvnStages, CvsStages, Ends, ReplayStages, LaterStages
    <3>2. artifact' = artifact
      BY <2>2 DEF Decoder, verifyVars
    <3> QED
      BY <3>1, <3>2 DEF ReplayInv, ReplayStages, LaterStages
  <2>3. CASE Reader \/ Thread \/ Child \/ UNCHANGED vars
    <3>1. UNCHANGED <<stage, artifact, replay, results>>
      BY <2>3 DEF Reader, Thread, Child, DecoderReads, ThreadRuns, ChildRuns, During, decoding, verifyVars, vars
    <3>2. PlainlySound(Ir)' = PlainlySound(Ir) /\ (ReplayGoes => ReplayGoes')
      BY <3>1, ReplayStays
    <3> QED
      BY <3>1, <3>2 DEF ReplayInv, ReplayStages, LaterStages
  <2> QED
    BY <2>1, <2>2, <2>3 DEF Next, Verifier
<1> QED
  BY <1>1, ReplayStarts, PTL DEF Spec

LEMMA ReplayInvIsEnough == ReplayInv => ReplayIsExact
PROOF
<1> SUFFICES ASSUME ReplayInv PROVE ReplayIsExact
  OBVIOUS
<1>1. (stage = "verified" /\ artifact # {}) => (results["replay"] = "pass" <=> PlainlySound(Ir))
  BY DEF ReplayInv, LaterStages
<1>2. ASSUME stage = "verify replay"
      PROVE  LET trees == PlainTrees(Ir)
                 coming == UNION {AskedOf(n) : n \in (replay.at + 1)..Length}
             IN  /\ coming \cap 1..replay.at \subseteq DOMAIN replay.trees
                 /\ \A s \in DOMAIN replay.trees : replay.trees[s] = trees[s]
                 /\ \A s \in DOMAIN replay.trees \ coming :
                       \E n \in 1..replay.at : s \in FirstParent(n) /\ CopiesFrom(n, s) # {}
  <2>1. IsReadIn(Ir) /\ ReplayGoes
    BY <1>2, IrIsRead DEF ReplayInv, ReplayStages
  <2>2. Length \in Nat /\ replay.at \in 0..Length
    BY <2>1 DEF IsReadIn, Length, ReplayGoes
  <2>3. \A s \in 1..replay.at : s \in 1..Length
    BY <2>2
  <2>4. \A s \in 1..replay.at :
           s \in DOMAIN replay.trees <=>
              \/ \E n \in (replay.at + 1)..Length : s \in AskedOf(n)
              \/ \E n \in 1..replay.at : s \in FirstParent(n) /\ CopiesFrom(n, s) # {}
    <3> SUFFICES ASSUME NEW s \in 1..replay.at
                 PROVE  s \in DOMAIN replay.trees <=>
                           \/ \E n \in (replay.at + 1)..Length : s \in AskedOf(n)
                           \/ \E n \in 1..replay.at : s \in FirstParent(n) /\ CopiesFrom(n, s) # {}
      OBVIOUS
    <3>1. s \in DOMAIN replay.trees <=> UsesAfter(s, replay.at) > 0
      BY <2>1, <2>3 DEF ReplayGoes
    <3> QED
      BY <2>1, <2>2, <2>3, <3>1, UsesAre
  <2>5. /\ DOMAIN replay.trees \subseteq 1..replay.at
        /\ \A s \in DOMAIN replay.trees : replay.trees[s] = PlainTrees(Ir)[s]
    BY <2>1 DEF ReplayGoes
  <2> QED
    BY <2>4, <2>5
<1> QED
  BY <1>1, <1>2 DEF ReplayIsExact, AskedOf, Length

\* Whatever the artifact: while it is replayed the trees that atoms to come ask for
\* are kept and are what they should be, and the replay passes exactly where one
\* that keeps every tree does.
THEOREM ReplaysAreExact == Spec => []ReplayIsExact
PROOF BY ReplayInvHolds, ReplayInvIsEnough, PTL

-----------------------------------------------------------------------------
(* git: an import is refused exactly where something is wrong.             *)

(* Everything is such a spread.                                            *)
IsEverything(all, ids) ==
    all = [n \in 0..Cardinality(DOMAIN input.objects) |->
             IF n = 0 THEN ids
             ELSE all[n - 1] \cup UNION {Named(id) : id \in all[n - 1] \cap DOMAIN input.objects}]

LEMMA EverythingIs ==
    ASSUME IsFiniteSet(DOMAIN input.objects), NEW ids
    PROVE  /\ ids \subseteq Everything(ids)
           /\ \A id \in Everything(ids) \cap DOMAIN input.objects : Named(id) \subseteq Everything(ids)
           /\ \A U : ids \subseteq U /\ (\A id \in U \cap DOMAIN input.objects : Named(id) \subseteq U)
                     => Everything(ids) \subseteq U
PROOF
<1> DEFINE S == DOMAIN input.objects
           next == [id \in S |-> Named(id)]
<1>1. \A x \in S : next[x] = Named(x)
  OBVIOUS
<1> HIDE DEF next
<1>2. \A near : UNION {next[x] : x \in near \cap S} = UNION {Named(x) : x \in near \cap S}
  BY <1>1
<1>3. \A g : IsSpread(g, ids, S, next) <=> IsEverything(g, ids)
  BY <1>2 DEF IsSpread, IsEverything
<1>4. (CHOOSE g : IsSpread(g, ids, S, next)) = (CHOOSE g : IsEverything(g, ids))
  BY <1>3
<1>5. Everything(ids) = (CHOOSE g : IsEverything(g, ids))[Cardinality(S)]
  BY DEF Everything, IsEverything
<1>6. Everything(ids) = Spread(ids, S, next)
  BY <1>4, <1>5 DEF Spread
<1> QED
  BY <1>1, <1>6, SpreadIs

(* The places of a tree, level by level.                                   *)
StartOfTree(root) == [tree |-> root, path |-> <<>>]
AllPlaces(root) == UNION {Places(root)[n] : n \in 1..MaxTreeDepth}

LEMMA LevelsAre ==
    ASSUME NEW root
    PROVE  /\ Places(root)[1] = {StartOfTree(root)}
           /\ \A n \in 1..(MaxTreeDepth - 1) : Places(root)[n + 1] = UNION {Deeper(pl) : pl \in Places(root)[n]}
PROOF
<1> DEFINE M == MaxTreeDepth
           Below(level) == UNION {Deeper(pl) : pl \in level}
           start == StartOfTree(root)
           trees == {t \in DOMAIN input.objects : Obj(t).kind = "tree"}
           entries == UNION {Obj(t).entries : t \in trees}
           P == [tree : {root} \cup {e.id : e \in entries}, path : Seq({e.name : e \in entries})]
           T == SUBSET P
           D == [q \in Nat \X T |-> Below(q[2])]
           Eq(f) == f = [n \in 1..M |-> IF n = 1 THEN {start} ELSE Below(f[n - 1])]
           g == CHOOSE f : Eq(f)
<1>1. M \in Nat /\ M - 1 \in Nat
  BY GitLimits
<1>2. Places(root) = g
  BY DEF Places, Deeper, StartOfTree
<1>3. \A pl \in P : Deeper(pl) \subseteq P
  <2> SUFFICES ASSUME NEW pl \in P, NEW e \in EntriesOf(pl)
               PROVE  [tree |-> e.id, path |-> PathOf(pl, e)] \in P
    BY DEF Deeper
  <2>1. e \in entries
    BY DEF EntriesOf, ReadsAs, Verified, Exists
  <2>2. Append(pl.path, e.name) \in Seq({x.name : x \in entries})
    <3> HIDE DEF entries
    <3> QED
      BY <2>1
  <2> QED
    BY <2>1, <2>2 DEF PathOf
<1>4. \A near \in T : Below(near) \in T
  <2> HIDE DEF P
  <2> QED
    BY <1>3
<1>5. start \in P
  BY DEF StartOfTree
<1>6. D \in [Nat \X T -> T] /\ {start} \in T
  <2> HIDE DEF Below
  <2>1. {start} \in T
    <3> HIDE DEF P, start
    <3> QED
      BY <1>5
  <2> HIDE DEF T
  <2> QED
    BY <1>4, <2>1
<1>7. \A n \in Nat, near \in T : D[<<n, near>>] = Below(near)
  <2> HIDE DEF Below, T
  <2> QED
    OBVIOUS
<1> HIDE DEF M, Below, start, T, D, P
<1>8. PICK f : IsRun(f, M - 1, T, {start}, D)
  BY <1>1, <1>6, LoopHasRun
<1> DEFINE h == [n \in 1..M |-> f[n - 1]]
<1>9. Eq(h)
  <2>1. f \in [0..(M - 1) -> T] /\ f[0] = {start} /\ \A n \in 0..((M - 1) - 1) : f[n + 1] = D[<<n, f[n]>>]
    BY <1>8 DEF IsRun
  <2>2. ASSUME NEW n \in 1..M PROVE h[n] = IF n = 1 THEN {start} ELSE Below(h[n - 1])
    <3>1. CASE n = 1
      BY <2>1, <3>1
    <3>2. CASE n # 1
      <4>1. n - 2 \in 0..((M - 1) - 1) /\ n - 1 \in 1..M /\ n - 2 \in Nat /\ (n - 2) + 1 = n - 1 /\ (n - 1) - 1 = n - 2
            /\ n - 2 \in 0..(M - 1)
        BY <1>1, <3>2
      <4>2. f[(n - 2) + 1] = D[<<n - 2, f[n - 2]>>] /\ f[n - 2] \in T
        BY <2>1, <4>1
      <4>3. h[n] = f[n - 1] /\ h[n - 1] = f[n - 2]
        BY <4>1
      <4> QED
        BY <1>7, <3>2, <4>1, <4>2, <4>3
    <3> QED
      BY <3>1, <3>2
  <2>3. h = [n \in 1..M |-> h[n]]
    OBVIOUS
  <2> HIDE DEF h
  <2> QED
    BY <2>2, <2>3
<1> HIDE DEF h
<1>10. Eq(g)
  <2> HIDE DEF Eq
  <2> QED
    BY <1>9
<1> HIDE DEF g
<1>11. 1 \in 1..M /\ \A n \in 1..(M - 1) : n + 1 \in 1..M /\ n + 1 # 1 /\ (n + 1) - 1 = n
  BY <1>1
<1>12. g[1] = {start} /\ \A n \in 1..(M - 1) : g[n + 1] = Below(g[n])
  BY <1>10, <1>11
<1> QED
  BY <1>2, <1>12 DEF M, start, Below

LEMMA DepthIs == MaxTreeDepth \in Nat /\ MaxTreeDepth - 1 \in Nat /\ 1 \in 1..MaxTreeDepth
PROOF BY GitLimits

(* What a tree holds is reached from it.                                   *)
LEMMA PlacesWithin ==
    ASSUME NEW root, NEW U, root \in U, \A id \in U \cap DOMAIN input.objects : Named(id) \subseteq U
    PROVE  /\ \A pl \in AllPlaces(root) : pl.tree \in U
           /\ \A l \in Leaves(root) : l.oid \in U
PROOF
<1> DEFINE M == MaxTreeDepth
           V == {n \in 0..(M - 1) : \A pl \in Places(root)[n + 1] : pl.tree \in U}
<1>1. ASSUME NEW pl, pl.tree \in U, NEW e \in EntriesOf(pl), e.mode # "gitlink" PROVE e.id \in U
  <2>1. pl.tree \in DOMAIN input.objects /\ Obj(pl.tree).kind = "tree" /\ e \in Obj(pl.tree).entries
    BY <1>1 DEF EntriesOf, ReadsAs, Verified, Exists
  <2>2. e.id \in Named(pl.tree)
    BY <1>1, <2>1 DEF Named
  <2> QED
    BY <1>1, <2>1, <2>2
<1>2. 0 \in V
  BY LevelsAre, DepthIs DEF StartOfTree
<1>3. ASSUME NEW n \in 0..((M - 1) - 1), n \in V PROVE n + 1 \in V
  <2>1. n + 1 \in 1..(M - 1) /\ n + 1 \in 0..(M - 1)
    BY DepthIs
  <2>2. Places(root)[(n + 1) + 1] = UNION {Deeper(pl) : pl \in Places(root)[n + 1]}
    BY <2>1, LevelsAre
  <2>3. \A pl \in Places(root)[n + 1] : \A deep \in Deeper(pl) : deep.tree \in U
    <3>1. \A pl \in Places(root)[n + 1] : pl.tree \in U
      BY <1>3
    <3> QED
      BY <1>1, <3>1 DEF Deeper
  <2> QED
    BY <2>1, <2>2, <2>3
<1> HIDE DEF V
<1>4. 0..(M - 1) \subseteq V
  BY <1>2, <1>3, DepthIs, BoundedInduction
<1>5. ASSUME NEW pl \in AllPlaces(root) PROVE pl.tree \in U
  <2>1. PICK n \in 1..M : pl \in Places(root)[n]
    BY DEF AllPlaces
  <2>2. n - 1 \in 0..(M - 1) /\ (n - 1) + 1 = n
    BY DepthIs
  <2>3. n - 1 \in V
    BY <1>4, <2>2
  <2> QED
    BY <2>1, <2>2, <2>3 DEF V
<1>6. ASSUME NEW l \in Leaves(root) PROVE l.oid \in U
  <2>1. PICK pl \in AllPlaces(root) : \E e \in EntriesOf(pl) : e.mode # "gitlink" /\ l.oid = e.id
    BY DEF Leaves, AllPlaces
  <2> QED
    BY <1>1, <1>5, <2>1
<1> QED
  BY <1>5, <1>6

(* A tree without a fault: all of it is read, and named apart.             *)
LEMMA FaultlessTree ==
    ASSUME NEW root, TreeFaults(root) = {}
    PROVE  /\ \A pl \in AllPlaces(root) : ReadsAs(pl.tree, "tree")
           /\ \A l, k \in Leaves(root) : l.path = k.path => l = k
           /\ \A pl \in Places(root)[MaxTreeDepth] : \A e \in EntriesOf(pl) : e.mode # "tree"
PROOF
<1>1. "unreadable object" \notin TreeFaults(root) /\ "duplicate path" \notin TreeFaults(root)
      /\ "tree nesting limit" \notin TreeFaults(root)
  OBVIOUS
<1>2. \A pl \in AllPlaces(root) : ReadsAs(pl.tree, "tree")
  BY <1>1 DEF TreeFaults, AllPlaces
<1>3. \A l, k \in Leaves(root) : l.path = k.path => l = k
  BY <1>1 DEF TreeFaults
<1>4. \A pl \in Places(root)[MaxTreeDepth] : \A e \in EntriesOf(pl) : e.mode # "tree"
  BY <1>1 DEF TreeFaults
<1> QED
  BY <1>2, <1>3, <1>4

(* A commit of which everything was read that its import needs.            *)
CommitIsGood(c) ==
    /\ HeaderFaults(c) = {} /\ TreeFaults(OwnTree(c)) = {}
    /\ \A l \in Leaves(OwnTree(c)) : ReadsAs(l.oid, "blob") /\ Obj(l.oid).size <= MaxBlobBytes

(* What good commits lead to is commits, trees and blobs that were read.   *)
LEMMA GoodIsVerified ==
    ASSUME IsFiniteSet(DOMAIN input.objects), NEW H,
           \A c \in H : ReadsAs(c, "commit") /\ ToSet(Obj(c).parents) \subseteq H /\ CommitIsGood(c)
    PROVE  Everything(H) \subseteq DOMAIN input.objects \ input.altered
PROOF
<1> DEFINE trees == UNION {{pl.tree : pl \in AllPlaces(OwnTree(c))} : c \in H}
           blobs == UNION {{l.oid : l \in Leaves(OwnTree(c))} : c \in H}
           U == H \cup trees \cup blobs
<1>1. \A c \in H : TreeFaults(OwnTree(c)) = {}
  BY DEF CommitIsGood
<1>2. \A id \in H : ReadsAs(id, "commit") /\ OwnTree(id) \in trees
  <2>1. \A c \in H : StartOfTree(OwnTree(c)) \in AllPlaces(OwnTree(c))
    BY LevelsAre, DepthIs DEF AllPlaces
  <2>2. \A c \in H : OwnTree(c) \in {pl.tree : pl \in AllPlaces(OwnTree(c))}
    <3>1. \A t : StartOfTree(t).tree = t
      BY DEF StartOfTree
    <3> QED
      BY <2>1, <3>1
  <2>3. \A c \in H : OwnTree(c) \in trees
    BY <2>2
  <2> HIDE DEF trees
  <2> QED
    BY <2>3
<1>3. \A id \in trees : ReadsAs(id, "tree")
  BY <1>1, FaultlessTree
<1>4. \A id \in blobs : ReadsAs(id, "blob")
  BY DEF CommitIsGood
<1>5. ASSUME NEW c \in H, NEW pl \in AllPlaces(OwnTree(c)), NEW e \in EntriesOf(pl), e.mode # "gitlink"
      PROVE  e.id \in trees \cup blobs
  <2>1. CASE e.mode = "tree"
    <3>1. PICK n \in 1..MaxTreeDepth : pl \in Places(OwnTree(c))[n]
      BY DEF AllPlaces
    <3>2. n # MaxTreeDepth
      BY <1>1, <2>1, <3>1, FaultlessTree
    <3>3. n \in 1..(MaxTreeDepth - 1) /\ n + 1 \in 1..MaxTreeDepth
      BY <3>1, <3>2, DepthIs
    <3>4. [tree |-> e.id, path |-> PathOf(pl, e)] \in Places(OwnTree(c))[n + 1]
      BY <2>1, <3>1, <3>3, LevelsAre DEF Deeper
    <3>5. [tree |-> e.id, path |-> PathOf(pl, e)] \in AllPlaces(OwnTree(c))
      BY <3>3, <3>4 DEF AllPlaces
    <3> QED
      BY <3>5
  <2>2. CASE e.mode # "tree"
    <3>1. [path |-> PathOf(pl, e), oid |-> e.id, mode |-> e.mode] \in Leaves(OwnTree(c))
      BY <1>5, <2>2 DEF Leaves, AllPlaces
    <3> QED
      BY <3>1
  <2> QED
    BY <2>1, <2>2
<1>6. ASSUME NEW id \in U, id \in DOMAIN input.objects PROVE Named(id) \subseteq U
  <2>1. CASE id \in H
    <3>1. Obj(id).kind = "commit" /\ Obj(id).tree \in trees /\ ToSet(Obj(id).parents) \subseteq H
      BY <1>2, <2>1 DEF ReadsAs, OwnTree
    <3> HIDE DEF trees, blobs
    <3> QED
      BY <3>1 DEF Named
  <2>2. CASE id \in trees
    <3>1. PICK c \in H : \E pl \in AllPlaces(OwnTree(c)) : pl.tree = id
      BY <2>2
    <3>2. PICK pl \in AllPlaces(OwnTree(c)) : pl.tree = id
      BY <3>1
    <3>3. ReadsAs(id, "tree")
      BY <1>3, <2>2
    <3>4. Obj(id).kind = "tree" /\ EntriesOf(pl) = Obj(id).entries
      BY <3>2, <3>3 DEF ReadsAs, EntriesOf
    <3>5. \A e \in Obj(id).entries : e.mode # "gitlink" => e.id \in U
      BY <1>5, <3>4
    <3> HIDE DEF U
    <3> QED
      BY <3>4, <3>5 DEF Named
  <2>3. CASE id \in blobs
    <3>1. Obj(id).kind = "blob"
      BY <1>4, <2>3 DEF ReadsAs
    <3>2. Named(id) = {}
      BY <3>1 DEF Named
    <3> QED
      BY <3>2
  <2> QED
    BY <2>1, <2>2, <2>3
<1>7. \A id \in U : id \in DOMAIN input.objects \ input.altered
  <2>1. \A id \in U : Verified(id)
    BY <1>2, <1>3, <1>4 DEF ReadsAs
  <2> QED
    BY <2>1 DEF Verified, Exists
<1>8. H \subseteq U
  OBVIOUS
<1> HIDE DEF U
<1>9. Everything(H) \subseteq U
  BY <1>6, <1>8, EverythingIs
<1> QED
  BY <1>7, <1>9

(* What a chain of tags passes is closed, whether it ends or runs round.   *)
LEMMA ThroughIsClosed ==
    ASSUME IsFiniteSet(DOMAIN input.objects), NEW id
    PROVE  id \in Through(id) /\ \A x \in Through(id) : Follow(x) \in Through(id)
PROOF
<1> DEFINE A == AllHops
           c == Chain(id, A)
           tags == {t \in DOMAIN input.objects : Obj(t).kind = "tag"}
<1>1. IsFiniteSet(tags) /\ A = Cardinality(tags) /\ A \in Nat
  <2>1. tags \subseteq DOMAIN input.objects
    OBVIOUS
  <2> QED
    BY <2>1, FS_Subset, FS_CardinalityType DEF AllHops
<1>2. DOMAIN c = 0..A /\ c[0] = id /\ \A n \in 0..(A - 1) : c[n + 1] = Follow(c[n])
  <2>1. A \in Nat
    BY <1>1
  <2> HIDE DEF A
  <2> QED
    BY <2>1, ChainFollows
<1>3. Through(id) = {c[n] : n \in 0..A}
  BY <1>2 DEF Through, Range
<1>4. Follow(c[A]) \in Through(id)
  <2>1. CASE ~HasKind(c[A], "tag")
    <3>1. Follow(c[A]) = c[A] /\ A \in 0..A
      BY <1>1, <2>1 DEF Follow
    <3> QED
      BY <1>3, <3>1
  <2>2. CASE HasKind(c[A], "tag")
    <3>1. \A n \in 0..A : HasKind(c[n], "tag")
      <4> SUFFICES ASSUME NEW n \in 0..A, ~HasKind(c[n], "tag") PROVE FALSE
        OBVIOUS
      <4>1. A \in n..A
        BY <1>1
      <4>2. c[A] = c[n]
        BY <1>1, <4>1, ChainRests
      <4> QED
        BY <2>2, <4>2
    <3>2. \E i, j \in 0..A : i < j /\ c[i] = c[j]
      <4> SUFFICES ASSUME \A i, j \in 0..A : i < j => c[i] # c[j] PROVE FALSE
        OBVIOUS
      <4> DEFINE f == [m \in 0..A |-> c[m]]
      <4>1. f \in [0..A -> tags]
        BY <3>1 DEF HasKind, Exists
      <4>2. \A x, y \in 0..A : f[x] = f[y] => x = y
        <5> SUFFICES ASSUME NEW x \in 0..A, NEW y \in 0..A, c[x] = c[y], x # y PROVE FALSE
          OBVIOUS
        <5>1. x < y \/ y < x
          BY <1>1
        <5> QED
          BY <5>1
      <4>3. Cardinality(0..A) = A + 1
        <5>1. Cardinality(0..A) = IF 0 > A THEN 0 ELSE (A - 0) + 1
          BY <1>1, FS_Interval
        <5> QED
          BY <1>1, <5>1
      <4>4. Cardinality(0..A) <= Cardinality(tags)
        <5> HIDE DEF f, tags, A
        <5> QED
          BY <1>1, <4>1, <4>2, CountAtMost
      <4> QED
        BY <1>1, <4>3, <4>4
    <3>3. PICK i \in 0..A, j \in 0..A : i < j /\ c[i] = c[j]
      BY <3>2
    <3> DEFINE V == {e \in 0..(A - j) : c[i + e] = c[j + e]}
    <3>4. 0 \in V /\ A - j \in Nat
      <4>1. i + 0 = i /\ j + 0 = j /\ A - j \in Nat /\ 0 \in 0..(A - j)
        BY <1>1
      <4> HIDE DEF c
      <4> QED
        BY <3>3, <4>1
    <3>5. ASSUME NEW e \in 0..((A - j) - 1), e \in V PROVE e + 1 \in V
      <4>1. /\ i + e \in 0..(A - 1) /\ j + e \in 0..(A - 1) /\ e + 1 \in 0..(A - j)
            /\ i + (e + 1) = (i + e) + 1 /\ j + (e + 1) = (j + e) + 1
        BY <1>1, <3>3
      <4>2. c[i + e] = c[j + e]
        BY <3>5
      <4> HIDE DEF c
      <4> QED
        BY <1>2, <4>1, <4>2
    <3> HIDE DEF V
    <3>6. 0..(A - j) \subseteq V
      BY <3>4, <3>5, BoundedInduction
    <3>7. A - j \in V
      BY <3>4, <3>6
    <3>8. /\ c[i + (A - j)] = c[j + (A - j)] /\ j + (A - j) = A
          /\ i + (A - j) \in 0..(A - 1) /\ (i + (A - j)) + 1 \in 0..A
      BY <1>1, <3>3, <3>7 DEF V
    <3> HIDE DEF c
    <3>9. Follow(c[A]) = c[(i + (A - j)) + 1]
      BY <1>2, <3>8
    <3> QED
      BY <1>3, <3>8, <3>9
  <2> QED
    BY <2>1, <2>2
<1>5. ASSUME NEW x \in Through(id) PROVE Follow(x) \in Through(id)
  <2>1. PICK n \in 0..A : x = c[n]
    BY <1>3, <1>5
  <2>2. CASE n = A
    BY <1>4, <2>1, <2>2
  <2>3. CASE n # A
    <3>1. n \in 0..(A - 1) /\ n + 1 \in 0..A
      BY <1>1, <2>3
    <3> HIDE DEF c
    <3> QED
      BY <1>2, <1>3, <2>1, <3>1
  <2> QED
    BY <2>2, <2>3
<1>6. id \in Through(id)
  <2>1. 0 \in 0..A
    BY <1>1
  <2> HIDE DEF c
  <2> QED
    BY <1>2, <1>3, <2>1
<1> QED
  BY <1>5, <1>6

LEMMA ChainWithin ==
    ASSUME IsFiniteSet(DOMAIN input.objects), NEW id, NEW hops \in Nat
    PROVE  \A n \in 0..hops : Chain(id, hops)[n] \in Through(id)
PROOF
<1> DEFINE c == Chain(id, hops)
           V == {n \in 0..hops : c[n] \in Through(id)}
<1>1. 0 \in V
  BY ChainFollows, ThroughIsClosed
<1>2. ASSUME NEW n \in 0..(hops - 1), n \in V PROVE n + 1 \in V
  <2>1. n + 1 \in 0..hops /\ c[n + 1] = Follow(c[n]) /\ c[n] \in Through(id)
    BY <1>2, ChainFollows
  <2> HIDE DEF c
  <2>2. c[n + 1] \in Through(id)
    BY <2>1, ThroughIsClosed
  <2> QED
    BY <2>1, <2>2
<1> HIDE DEF V
<1>3. 0..hops \subseteq V
  BY <1>1, <1>2, BoundedInduction
<1> QED
  BY <1>3 DEF V

TagsIn(ids) == {o \in ids : Obj(o).kind = "tag"}

IsChainGood(id) ==
    /\ Through(id) \subseteq DOMAIN input.objects \ input.altered
    /\ Cardinality(TagsIn(Through(id))) <= MaxTagChain

(* Tags that were read do not run round: as many hops as the limit has     *)
(* meet more tags than it.                                                 *)
LEMMA TagsApart ==
    ASSUME IsRepository(input), NEW id, Through(id) \subseteq DOMAIN input.objects \ input.altered,
           NEW hops \in Nat, \A n \in 0..hops : HasKind(Chain(id, hops)[n], "tag")
    PROVE  Cardinality(TagsIn(Through(id))) > hops
PROOF
<1> DEFINE c == Chain(id, hops)
           tags == TagsIn(Through(id))
<1>1. IsFiniteSet(DOMAIN input.objects)
  BY DEF IsRepository
<1>2. IsFiniteSet(tags)
  <2>1. tags \subseteq DOMAIN input.objects
    BY DEF TagsIn
  <2> QED
    BY <1>1, <2>1, FS_Subset
<1>3. \A n \in 0..hops : c[n] \in tags
  BY <1>1, ChainWithin DEF TagsIn, HasKind
<1>4. \A n \in 0..(hops - 1) : c[n + 1] = Obj(c[n]).to
  <2> SUFFICES ASSUME NEW n \in 0..(hops - 1) PROVE c[n + 1] = Obj(c[n]).to
    OBVIOUS
  <2>1. n \in 0..hops /\ c[n + 1] = Follow(c[n])
    BY ChainFollows
  <2>2. HasKind(c[n], "tag")
    BY <2>1
  <2> HIDE DEF c
  <2> QED
    BY <2>1, <2>2 DEF Follow
<1> HIDE DEF c
<1>5. ASSUME NEW i \in 0..hops, NEW j \in 0..hops, i < j, c[i] = c[j] PROVE FALSE
  <2> DEFINE ids == {c[e] : e \in i..(j - 1)}
  <2>1. c[i] \in ids /\ ids # {}
    <3>1. i \in i..(j - 1)
      BY <1>5
    <3> QED
      BY <3>1
  <2>2. \A t \in ids : t \in DOMAIN input.objects /\ input.objects[t].kind = "tag" /\ t \notin input.altered
    <3> SUFFICES ASSUME NEW e \in i..(j - 1) PROVE c[e] \in DOMAIN input.objects /\ input.objects[c[e]].kind = "tag" /\ c[e] \notin input.altered
      OBVIOUS
    <3>1. e \in 0..hops
      OBVIOUS
    <3>2. c[e] \in tags
      BY <1>3, <3>1
    <3> QED
      BY <3>2 DEF TagsIn, Obj
  <2>3. ASSUME NEW e \in i..(j - 1) PROVE input.objects[c[e]].to \in ids
    <3>1. e \in 0..(hops - 1) /\ (e + 1 = j \/ e + 1 \in i..(j - 1))
      BY <1>5
    <3>2. input.objects[c[e]].to = c[e + 1]
      BY <1>4, <3>1 DEF Obj
    <3>3. CASE e + 1 = j
      BY <1>5, <2>1, <3>2, <3>3
    <3>4. CASE e + 1 \in i..(j - 1)
      BY <3>2, <3>4
    <3> QED
      BY <3>1, <3>3, <3>4
  <2>4. \A t \in ids : input.objects[t].to \in ids
    BY <2>3
  <2>5. ids # {}
    BY <2>1
  <2> HIDE DEF ids
  <2>6. ids \in SUBSET {t \in DOMAIN input.objects : input.objects[t].kind = "tag" /\ t \notin input.altered}
    BY <2>2
  <2>7. \E t \in ids : input.objects[t].to \notin ids
    BY <2>5, <2>6 DEF IsRepository
  <2> QED
    BY <2>4, <2>7
<1> DEFINE f == [m \in 0..hops |-> c[m]]
<1>6. f \in [0..hops -> tags]
  BY <1>3
<1>7. \A x, y \in 0..hops : f[x] = f[y] => x = y
  <2> SUFFICES ASSUME NEW x \in 0..hops, NEW y \in 0..hops, c[x] = c[y], x # y PROVE FALSE
    OBVIOUS
  <2>1. x < y \/ y < x
    OBVIOUS
  <2> QED
    BY <1>5, <2>1
<1>8. Cardinality(0..hops) = hops + 1
  <2>1. Cardinality(0..hops) = IF 0 > hops THEN 0 ELSE (hops - 0) + 1
    BY FS_Interval
  <2> QED
    BY <2>1
<1> HIDE DEF f
<1>9. Cardinality(0..hops) <= Cardinality(tags)
  <2> HIDE DEF tags
  <2> QED
    BY <1>2, <1>6, <1>7, CountAtMost
<1>10. Cardinality(tags) \in Nat
  BY <1>2, FS_CardinalityType
<1> HIDE DEF tags
<1>11. Cardinality(tags) > hops
  BY <1>8, <1>9, <1>10
<1> QED
  BY <1>11 DEF tags

(* Within the limit a chain is verified, counted and left exactly where    *)
(* the whole of it can be.                                                 *)
LEMMA PeelRefuses ==
    ASSUME IsRepository(input), NEW id, NEW carries
    PROVE  Peel(id, carries).fault = NoFailure <=> IsChainGood(id)
PROOF
<1> DEFINE M == MaxTagChain
           c == Chain(id, M)
           S == {n \in 0..M : HasKind(c[n], "tag")}
           tags == TagsIn(Through(id))
<1>1. M \in Nat
  BY GitLimits
<1>2. DOMAIN c = 0..M
  BY <1>1, ChainFollows
<1>3. IsFiniteSet(DOMAIN input.objects)
  BY DEF IsRepository
<1>4. TagHops(c) = Cardinality(S)
  BY <1>2 DEF TagHops
<1>5. IsFiniteSet(S) /\ Cardinality(S) \in Nat /\ Cardinality(0..M) = M + 1
  <2>1. S \subseteq 0..M /\ IsFiniteSet(0..M)
    BY <1>1, FS_Interval
  <2>2. Cardinality(0..M) = IF 0 > M THEN 0 ELSE (M - 0) + 1
    BY <1>1, FS_Interval
  <2> HIDE DEF S
  <2>3. IsFiniteSet(S)
    BY <2>1, FS_Subset
  <2>4. Cardinality(S) \in Nat
    BY <2>3, FS_CardinalityType
  <2>5. Cardinality(0..M) = M + 1
    BY <1>1, <2>2
  <2> QED
    BY <2>3, <2>4, <2>5
<1>6. TagHops(c) > M <=> \A n \in 0..M : HasKind(c[n], "tag")
  <2>1. ASSUME \A n \in 0..M : HasKind(c[n], "tag") PROVE Cardinality(S) > M
    <3>1. S = 0..M
      BY <2>1
    <3> HIDE DEF S
    <3> QED
      BY <1>1, <1>5, <3>1
  <2>2. ASSUME NEW n \in 0..M, ~HasKind(c[n], "tag") PROVE ~(Cardinality(S) > M)
    <3>1. S \subseteq 0..M /\ S # 0..M
      BY <2>2
    <3>2. IsFiniteSet(0..M)
      BY <1>1, FS_Interval
    <3> HIDE DEF S
    <3>3. Cardinality(S) <= Cardinality(0..M) /\ Cardinality(S) # Cardinality(0..M)
      BY <3>1, <3>2, FS_Subset
    <3> QED
      BY <1>1, <1>5, <3>3
  <2> QED
    BY <1>4, <2>1, <2>2
<1>7. Peel(id, carries).fault = NoFailure <=>
         (\A n \in 0..M : Verified(c[n])) /\ ~ (\A n \in 0..M : HasKind(c[n], "tag"))
  BY <1>2, <1>6 DEF Peel, NoFailure
<1>8. ASSUME IsChainGood(id) PROVE (\A n \in 0..M : Verified(c[n])) /\ ~ (\A n \in 0..M : HasKind(c[n], "tag"))
  <2>1. \A n \in 0..M : Verified(c[n])
    BY <1>1, <1>3, <1>8, ChainWithin DEF IsChainGood, Verified, Exists
  <2>2. ASSUME \A n \in 0..M : HasKind(c[n], "tag") PROVE FALSE
    <3>1. Cardinality(tags) > M
      BY <1>1, <1>8, <2>2, TagsApart DEF IsChainGood
    <3>2. Cardinality(tags) <= M
      BY <1>8 DEF IsChainGood
    <3>3. Cardinality(tags) \in Nat
      <4>1. tags \subseteq DOMAIN input.objects
        BY <1>8 DEF TagsIn, IsChainGood
      <4> QED
        BY <1>3, <4>1, FS_Subset, FS_CardinalityType
    <3> HIDE DEF tags
    <3> QED
      BY <1>1, <3>1, <3>2, <3>3
  <2> QED
    BY <2>1, <2>2
<1>9. ASSUME \A n \in 0..M : Verified(c[n]), NEW d \in 0..M, ~HasKind(c[d], "tag")
      PROVE  IsChainGood(id)
  <2>1. AllHops \in Nat
    BY <1>1, <1>3, <1>9, TagsEnd
  <2>2. ASSUME NEW x \in Through(id) PROVE \E n \in 0..M : c[n] = x
    <3> DEFINE a == Chain(id, AllHops)
    <3>1. PICK n \in 0..AllHops : a[n] = x
      BY <2>1, ChainFollows DEF Through, Range
    <3>2. CASE n <= M
      <4>1. n \in 0..M /\ a[n] = c[n]
        BY <1>1, <2>1, <3>2, ChainsAgree
      <4> QED
        BY <3>1, <4>1
    <3>3. CASE ~ (n <= M)
      <4>1. d \in 0..AllHops /\ d <= M /\ n \in d..AllHops
        BY <1>1, <2>1, <3>3
      <4>2. a[d] = c[d]
        BY <1>1, <2>1, <4>1, ChainsAgree
      <4>3. a[n] = a[d]
        BY <1>9, <2>1, <4>1, <4>2, ChainRests
      <4> QED
        BY <3>1, <4>2, <4>3
    <3> QED
      BY <3>2, <3>3
  <2>3. Through(id) \subseteq DOMAIN input.objects \ input.altered
    BY <1>9, <2>2 DEF Verified, Exists
  <2>4. Cardinality(tags) <= M
    <3> DEFINE f == [x \in tags |-> CHOOSE n \in 0..M : c[n] = x]
    <3>1. \A x \in tags : f[x] \in 0..M /\ c[f[x]] = x
      <4> HIDE DEF c
      <4> QED
        BY <2>2 DEF TagsIn
    <3>2. \A x \in tags : HasKind(x, "tag")
      BY <2>3 DEF TagsIn, HasKind, Exists
    <3> HIDE DEF c
    <3>3. f \in [tags -> S]
      BY <3>1, <3>2
    <3>4. \A x, y \in tags : f[x] = f[y] => x = y
      BY <3>1
    <3> HIDE DEF f, tags, S
    <3>5. Cardinality(tags) <= Cardinality(S)
      BY <1>5, <3>3, <3>4, CountAtMost
    <3>6. ~(Cardinality(S) > M)
      BY <1>4, <1>6, <1>9 DEF c
    <3>7. IsFiniteSet(tags)
      BY <1>5, <3>3, <3>4, CountAtMost
    <3> QED
      BY <1>1, <1>5, <3>5, <3>6, <3>7, FS_CardinalityType
  <2> QED
    BY <2>3, <2>4 DEF IsChainGood
<1> QED
  BY <1>7, <1>8, <1>9

(* A ref that refuses no import.                                           *)
RefIsFit(n) ==
    LET ref == input.refs[n] IN
    /\ ref.space # "replace"
    /\ IsCarried(ref) => ref.symbolic \/ ref.utf8
    /\ IsCarried(ref) /\ ~ref.symbolic => IsChainGood(ref.to)

RefsFitTo(i) == \A n \in 1..i : RefIsFit(n)

HistoryIsRead ==
    /\ Cardinality(CarriedHistory) <= MaxCommits
    /\ \A c \in CarriedHistory : ReadsAs(c, "commit")

LEMMA CarriedIsClosed ==
    ASSUME IsRepository(input), \A c \in CarriedHistory : HasKind(c, "commit")
    PROVE  \A c \in CarriedHistory : ToSet(Obj(c).parents) \subseteq CarriedHistory
PROOF
  BY ReachIsClosed DEF CarriedHistory, IsRepository, Commits

(* A repository is sound when its refs fit, its history is read, and every *)
(* commit in it is good; that nothing unverified is reached follows.       *)
LEMMA SoundIs ==
    ASSUME IsRepository(input)
    PROVE  GitIsSound <=> /\ input.defects = {} /\ RefsFitTo(Len(input.refs)) /\ HistoryIsRead
                          /\ \A c \in CarriedHistory : CommitIsGood(c)
PROOF
<1> DEFINE H == CarriedHistory
<1>1. DOMAIN input.refs = 1..Len(input.refs) /\ IsFiniteSet(DOMAIN input.objects)
  BY DEF IsRepository
<1>2. RefsFitTo(Len(input.refs)) <=>
         /\ \A n \in DOMAIN input.refs :
               /\ input.refs[n].space # "replace"
               /\ IsCarried(input.refs[n]) => input.refs[n].symbolic \/ input.refs[n].utf8
         /\ \A id \in CarriedFrom : IsChainGood(id)
  <2>1. \A id : id \in CarriedFrom <=>
           \E n \in DOMAIN input.refs : IsCarried(input.refs[n]) /\ ~input.refs[n].symbolic /\ id = input.refs[n].to
    BY DEF CarriedFrom
  <2> QED
    BY <1>1, <2>1 DEF RefsFitTo, RefIsFit
<1>3. \A id : IsChainGood(id) <=>
         /\ Through(id) \subseteq DOMAIN input.objects \ input.altered
         /\ Cardinality({o \in Through(id) : Obj(o).kind = "tag"}) <= MaxTagChain
  BY DEF IsChainGood, TagsIn
<1>4. ASSUME GitIsSound PROVE HistoryIsRead /\ \A c \in H : CommitIsGood(c)
  <2> DEFINE U == Everything(H)
  <2>1. H \subseteq U /\ \A id \in U \cap DOMAIN input.objects : Named(id) \subseteq U
    BY <1>1, EverythingIs
  <2>2. U \subseteq DOMAIN input.objects \ input.altered
    BY <1>4 DEF GitIsSound
  <2>3. \A c \in H : HasKind(c, "commit") /\ HeaderFaults(c) = {} /\ TreeFaults(OwnTree(c)) = {}
    BY <1>4 DEF GitIsSound
  <2>4. Cardinality(H) <= MaxCommits
    BY <1>4 DEF GitIsSound
  <2>5. \A c \in H : \A l \in Leaves(OwnTree(c)) : HasKind(l.oid, "blob") /\ Obj(l.oid).size <= MaxBlobBytes
    BY <1>4 DEF GitIsSound
  <2> HIDE DEF H, U
  <2>6. \A id \in U : Verified(id)
    BY <2>2 DEF Verified, Exists
  <2>7. \A c \in H : ReadsAs(c, "commit")
    BY <2>1, <2>3, <2>6 DEF ReadsAs, HasKind
  <2>8. ASSUME NEW c \in H PROVE \A l \in Leaves(OwnTree(c)) : l.oid \in U
    <3>1. OwnTree(c) \in Named(c)
      BY <2>3 DEF Named, OwnTree, HasKind
    <3>2. OwnTree(c) \in U
      BY <2>1, <2>2, <3>1
    <3> QED
      BY <2>1, <3>2, PlacesWithin
  <2>9. \A c \in H : CommitIsGood(c)
    BY <2>3, <2>5, <2>6, <2>8 DEF CommitIsGood, ReadsAs, HasKind
  <2> QED
    BY <2>4, <2>7, <2>9 DEF HistoryIsRead, H
<1>5. ASSUME HistoryIsRead, \A c \in H : CommitIsGood(c)
      PROVE  /\ Cardinality(CarriedHistory) <= MaxCommits
             /\ Everything(CarriedHistory) \subseteq DOMAIN input.objects \ input.altered
             /\ \A c \in CarriedHistory :
                   /\ HasKind(c, "commit") /\ HeaderFaults(c) = {}
                   /\ TreeFaults(OwnTree(c)) = {}
                   /\ \A l \in Leaves(OwnTree(c)) : HasKind(l.oid, "blob") /\ Obj(l.oid).size <= MaxBlobBytes
  <2>1. \A c \in H : ReadsAs(c, "commit") /\ HasKind(c, "commit")
    BY <1>5 DEF HistoryIsRead, ReadsAs, HasKind, Verified
  <2>2. \A c \in H : ToSet(Obj(c).parents) \subseteq H
    BY <2>1, CarriedIsClosed
  <2>3. Everything(H) \subseteq DOMAIN input.objects \ input.altered
    <3> HIDE DEF H
    <3> QED
      BY <1>1, <1>5, <2>1, <2>2, GoodIsVerified
  <2>4. Cardinality(H) <= MaxCommits
    BY <1>5 DEF HistoryIsRead
  <2> QED
    BY <1>5, <2>1, <2>3, <2>4 DEF CommitIsGood, ReadsAs, HasKind, Verified
<1> QED
  BY <1>2, <1>3, <1>4, <1>5 DEF GitIsSound

(* The faults of a tree, one disjunct each.                                *)
IsTooLong(path) == SumFunction([n \in DOMAIN path |-> Len(path[n]) + 1]) - 1 > MaxPathBytes

HasFault(root, fault) ==
    \/ fault = "unreadable object" /\ \E pl \in AllPlaces(root) : ~ReadsAs(pl.tree, "tree")
    \/ fault = "non-utf8-path" /\ \E pl \in AllPlaces(root) : \E e \in EntriesOf(pl) : ~e.utf8
    \/ fault = "submodule" /\ \E pl \in AllPlaces(root) : \E e \in EntriesOf(pl) : e.mode = "gitlink"
    \/ fault = "path limit" /\ \E pl \in AllPlaces(root) : \E e \in EntriesOf(pl) : IsTooLong(PathOf(pl, e))
    \/ fault = "tree nesting limit"
       /\ \E pl \in Places(root)[MaxTreeDepth] : \E e \in EntriesOf(pl) : e.mode = "tree"
    \/ fault = "duplicate path" /\ \E l, k \in Leaves(root) : l # k /\ l.path = k.path

LEMMA FaultsAre == \A root, fault : fault \in TreeFaults(root) <=> HasFault(root, fault)
PROOF
<1> SUFFICES ASSUME NEW root, NEW fault PROVE fault \in TreeFaults(root) <=> HasFault(root, fault)
  OBVIOUS
<1>1. CASE fault = "unreadable object"
  BY <1>1 DEF TreeFaults, HasFault, AllPlaces
<1>2. CASE fault = "non-utf8-path"
  BY <1>2 DEF TreeFaults, HasFault, AllPlaces
<1>3. CASE fault = "submodule"
  BY <1>3 DEF TreeFaults, HasFault, AllPlaces
<1>4. CASE fault = "path limit"
  BY <1>4 DEF TreeFaults, HasFault, AllPlaces, IsTooLong
<1>5. CASE fault = "tree nesting limit"
  BY <1>5 DEF TreeFaults, HasFault, AllPlaces
<1>6. CASE fault = "duplicate path"
  BY <1>6 DEF TreeFaults, HasFault, AllPlaces
<1>7. CASE fault \notin {"unreadable object", "non-utf8-path", "submodule", "path limit",
                         "tree nesting limit", "duplicate path"}
  BY <1>7 DEF TreeFaults, HasFault
<1> QED
  BY <1>1, <1>2, <1>3, <1>4, <1>5, <1>6, <1>7

LEMMA FaultsAreThen == \A root, fault : (fault \in TreeFaults(root))' <=> HasFault(root, fault)'
PROOF
<1> SUFFICES ASSUME NEW root, NEW fault PROVE (fault \in TreeFaults(root))' <=> HasFault(root, fault)'
  OBVIOUS
<1>1. CASE fault = "unreadable object"
  BY <1>1 DEF TreeFaults, HasFault, AllPlaces
<1>2. CASE fault = "non-utf8-path"
  BY <1>2 DEF TreeFaults, HasFault, AllPlaces
<1>3. CASE fault = "submodule"
  BY <1>3 DEF TreeFaults, HasFault, AllPlaces
<1>4. CASE fault = "path limit"
  BY <1>4 DEF TreeFaults, HasFault, AllPlaces, IsTooLong
<1>5. CASE fault = "tree nesting limit"
  BY <1>5 DEF TreeFaults, HasFault, AllPlaces
<1>6. CASE fault = "duplicate path"
  BY <1>6 DEF TreeFaults, HasFault, AllPlaces
<1>7. CASE fault \notin {"unreadable object", "non-utf8-path", "submodule", "path limit",
                         "tree nesting limit", "duplicate path"}
  BY <1>7 DEF TreeFaults, HasFault
<1> QED
  BY <1>1, <1>2, <1>3, <1>4, <1>5, <1>6, <1>7

(* What is asked of the repository changes only with it.                   *)
LEMMA SoundnessStays ==
    ASSUME input' = input
    PROVE  /\ GitIsSound' <=> GitIsSound
           /\ \A i : RefsFitTo(i)' <=> RefsFitTo(i)
           /\ HistoryIsRead' <=> HistoryIsRead
           /\ \A c : CommitIsGood(c)' <=> CommitIsGood(c)
PROOF
<1>1. \A c : Obj(c)' = Obj(c) /\ OwnTree(c)' = OwnTree(c) /\ HeaderFaults(c)' = HeaderFaults(c)
  BY DEF Obj, OwnTree, HeaderFaults
<1>2. \A id, kind : ReadsAs(id, kind)' = ReadsAs(id, kind) /\ HasKind(id, kind)' = HasKind(id, kind)
  BY DEF ReadsAs, HasKind, Verified, Exists, Obj
<1>3. \A pl : EntriesOf(pl)' = EntriesOf(pl)
  BY <1>1, <1>2 DEF EntriesOf
<1>4. \A root : Places(root)' = Places(root)
  BY PlacesStay
<1>5. \A root : Leaves(root)' = Leaves(root)
  BY <1>3, <1>4 DEF Leaves, PathOf
<1>6. \A root : TreeFaults(root)' = TreeFaults(root)
  <2>1. \A root : AllPlaces(root)' = AllPlaces(root)
    BY <1>4 DEF AllPlaces
  <2>2. \A id, kind : ReadsAs(id, kind)' <=> ReadsAs(id, kind)
    BY DEF ReadsAs, Verified, Exists, Obj
  <2>3. ASSUME NEW root, NEW fault PROVE HasFault(root, fault)' <=> HasFault(root, fault)
    <3>1. (\E pl \in AllPlaces(root) : ~ReadsAs(pl.tree, "tree"))'
          <=> \E pl \in AllPlaces(root) : ~ReadsAs(pl.tree, "tree")
      BY <2>1, <2>2
    <3>2. (\E pl \in AllPlaces(root) : \E e \in EntriesOf(pl) : ~e.utf8)'
          <=> \E pl \in AllPlaces(root) : \E e \in EntriesOf(pl) : ~e.utf8
      BY <1>3, <2>1
    <3>3. (\E pl \in AllPlaces(root) : \E e \in EntriesOf(pl) : e.mode = "gitlink")'
          <=> \E pl \in AllPlaces(root) : \E e \in EntriesOf(pl) : e.mode = "gitlink"
      BY <1>3, <2>1
    <3>4. (\E pl \in AllPlaces(root) : \E e \in EntriesOf(pl) : IsTooLong(PathOf(pl, e)))'
          <=> \E pl \in AllPlaces(root) : \E e \in EntriesOf(pl) : IsTooLong(PathOf(pl, e))
      <4>1. \A pl, e : IsTooLong(PathOf(pl, e))' <=> IsTooLong(PathOf(pl, e))
        BY DEF IsTooLong, PathOf
      <4> QED
        BY <1>3, <2>1, <4>1
    <3>5. (\E pl \in Places(root)[MaxTreeDepth] : \E e \in EntriesOf(pl) : e.mode = "tree")'
          <=> \E pl \in Places(root)[MaxTreeDepth] : \E e \in EntriesOf(pl) : e.mode = "tree"
      BY <1>3, <1>4
    <3>6. (\E l, k \in Leaves(root) : l # k /\ l.path = k.path)'
          <=> \E l, k \in Leaves(root) : l # k /\ l.path = k.path
      BY <1>5
    <3> QED
      BY <3>1, <3>2, <3>3, <3>4, <3>5, <3>6 DEF HasFault
  <2>4. ASSUME NEW root, NEW fault PROVE (fault \in TreeFaults(root))' <=> HasFault(root, fault)'
    BY FaultsAreThen
  <2> QED
    BY <2>3, <2>4, FaultsAre
<1>7. AllHops' = AllHops
  BY DEF AllHops, Obj
<1>8. \A id : Through(id)' = Through(id)
  BY <1>7, ChainStays DEF Through
<1>9. \A id : IsChainGood(id)' <=> IsChainGood(id)
  BY <1>1, <1>8 DEF IsChainGood, TagsIn
<1>10. \A i : RefsFitTo(i)' <=> RefsFitTo(i)
  BY <1>9 DEF RefsFitTo, RefIsFit, IsCarried
<1>11. CarriedHistory' = CarriedHistory
  BY HistoryStays
<1>12. HistoryIsRead' <=> HistoryIsRead
  BY <1>2, <1>11 DEF HistoryIsRead
<1>13. \A c : CommitIsGood(c)' <=> CommitIsGood(c)
  BY <1>1, <1>2, <1>5, <1>6 DEF CommitIsGood
<1>14. \A ids : Everything(ids)' = Everything(ids)
  <2>1. \A id : Named(id)' = Named(id)
    BY <1>1 DEF Named
  <2>2. \A all, ids : IsEverything(all, ids)' <=> IsEverything(all, ids)
    BY <2>1 DEF IsEverything
  <2>3. \A ids : (CHOOSE all : IsEverything(all, ids)') = (CHOOSE all : IsEverything(all, ids))
    BY <2>2
  <2>4. \A ids : Everything(ids) = (CHOOSE all : IsEverything(all, ids))[Cardinality(DOMAIN input.objects)]
    BY DEF Everything, IsEverything
  <2>5. \A ids : Everything(ids)' = (CHOOSE all : IsEverything(all, ids)')[Cardinality(DOMAIN input'.objects)]
    BY DEF Everything, IsEverything
  <2> QED
    BY <2>3, <2>4, <2>5
<1>15. GitIsSound' <=> GitIsSound
  <2>1. CarriedFrom' = CarriedFrom
    BY DEF CarriedFrom, IsCarried
  <2> QED
    BY <1>1, <1>2, <1>5, <1>6, <1>8, <1>11, <1>14, <2>1 DEF GitIsSound, IsCarried
<1> QED
  BY <1>10, <1>12, <1>13, <1>15

(* Of two scanned refs no two are one, and each is one of those read.      *)
IsSameRef(r, s) == r.space = s.space /\ r.name = s.name

NamesApart == \A n, k \in DOMAIN scanned : IsSameRef(scanned[n], scanned[k]) => n = k

RefsApart ==
    /\ \A n \in DOMAIN scanned : \E k \in 1..Scanned : IsSameRef(scanned[n], input.refs[k])
    /\ NamesApart

(* What is read so far is what the repository must have for the import to  *)
(* be done, and what was refused it must not have.                         *)
RefusalInv ==
    /\ stage = "git scan" => input.defects = {} /\ RefsFitTo(Scanned) /\ RefsApart
    /\ stage = "git import" => NamesApart
    /\ (stage = "git import" \/ OfGit) =>
          /\ input.defects = {} /\ RefsFitTo(Len(input.refs)) /\ HistoryIsRead
          /\ \A n \in 1..Len(builder.atoms) : CommitIsGood(order[n])
    /\ stage = "failed" /\ input.kind = "git" => ~GitIsSound

LEMMA RepositoryIsOne ==
    KindInv /\ input.kind = "git" => IsRepository(input)
PROOF
  BY SourceRepositories DEF KindInv

LEMMA RefusalStarts == Init => RefusalInv
PROOF
<1> SUFFICES ASSUME Init PROVE RefusalInv
  OBVIOUS
<1>1. PICK source \in Sources : DecodingInit(source, Begin(source.kind))
  BY DEF Init
<1>2. source.kind \in {"git", "hg", "svn", "cvs", "artifact"} /\ stage = Begin(source.kind)
  BY <1>1, SourceKinds DEF DecodingInit
<1>3. stage \notin {"git scan", "git import", "done", "failed"}
  BY <1>2 DEF Begin
<1> QED
  BY <1>3 DEF RefusalInv, OfGit

LEMMA OpenRefuses == KindInv /\ ExactInv /\ OpenRepository => RefusalInv'
PROOF
<1> SUFFICES ASSUME KindInv, ExactInv, OpenRepository PROVE RefusalInv'
  OBVIOUS
<1>1. /\ stage = "git open" /\ input' = input /\ tally' = tally /\ scanned' = scanned
      /\ \/ stage' = "git scan" /\ input.defects = {}
         \/ stage' = "failed" /\ input.defects # {}
  BY DEF OpenRepository, Goto, Fail, gitVars
<1>2. tally = NoTally /\ scanned = <<>> /\ input.kind = "git"
  BY <1>1 DEF ExactInv
<1>3. CASE input.defects = {}
  <2>0. Len(<<>>) = 0 /\ DOMAIN <<>> = {} /\ NoTally.symbolic = 0
    BY DEF NoTally
  <2>1. Len(scanned') = 0 /\ DOMAIN scanned' = {} /\ tally'.symbolic = 0
    BY <1>1, <1>2, <2>0
  <2>2. Scanned' = 0 /\ 1..0 = {}
    BY <2>1 DEF Scanned
  <2>3. RefsFitTo(Scanned)' /\ RefsApart'
    BY <2>1, <2>2 DEF RefsFitTo, RefsApart, NamesApart
  <2> QED
    BY <1>1, <1>3, <2>3 DEF RefusalInv, OfGit
<1>4. CASE input.defects # {}
  <2>1. ~GitIsSound
    BY <1>4 DEF GitIsSound
  <2>2. ~GitIsSound'
    BY <1>1, <2>1, SoundnessStays
  <2> QED
    BY <1>1, <1>4, <2>2 DEF RefusalInv, OfGit
<1> QED
  BY <1>3, <1>4

LEMMA RefPlaces ==
    ASSUME IsRepository(input)
    PROVE  DOMAIN input.refs = 1..Len(input.refs) /\ Len(input.refs) \in Nat
PROOF
  BY DEF IsRepository

(* A ref is taken when it refuses nothing, and only then.                  *)
LEMMA RefTaken ==
    ASSUME IsRepository(input), ScanInv, ScanRef
    PROVE  LET i == Scanned
               ref == input.refs[i + 1]
           IN  /\ i \in Nat /\ i + 1 \in 1..Len(input.refs) /\ input' = input
               /\ stage' = "failed" <=> ~RefIsFit(i + 1)
               /\ stage' # "failed" =>
                    /\ stage' = "git scan" /\ Scanned' = i + 1
                    /\ \/ scanned' = scanned
                       \/ \E c, id : scanned' = Append(scanned, [space |-> ref.space, name |-> ref.name,
                                                                 commit |-> c, identity |-> id])
PROOF
<1> DEFINE i == Scanned
           ref == input.refs[i + 1]
           keep(c, id) == [space |-> ref.space, name |-> ref.name, commit |-> c, identity |-> id]
<1>1. /\ Len(input.refs) \in Nat /\ Len(scanned) \in Nat /\ i \in Nat /\ tally.symbolic \in Nat
      /\ scanned \in Seq(ToSet(scanned)) /\ "symbolic" \in DOMAIN tally
  BY DEF IsRepository, ScanInv, Scanned
<1>2. i < Len(input.refs) /\ stage = "git scan"
  BY DEF ScanRef, Scanned
<1>3. i + 1 \in 1..Len(input.refs)
  BY <1>1, <1>2, OnePlaceMore
<1>4. input' = input
  BY DEF ScanRef, Goto, Fail
<1>5. \A carries : Peel(ref.to, carries).fault = NoFailure <=> IsChainGood(ref.to)
  BY PeelRefuses
<1>6. RefIsFit(i + 1) <=> /\ ref.space # "replace"
                          /\ IsCarried(ref) => ref.symbolic \/ ref.utf8
                          /\ IsCarried(ref) /\ ~ref.symbolic => IsChainGood(ref.to)
  BY DEF RefIsFit
<1>7. IsCarried(ref) <=> ref.space \in {"heads", "tags"}
  BY DEF IsCarried
<1> DEFINE peeled == Peel(ref.to, ref.space = "tags")
           identity == IF ref.space = "tags" THEN TagIdentity(ref.to) ELSE <<>>
           taken == \/ /\ ref.space # "replace" /\ ref.symbolic
                       /\ tally' = [tally EXCEPT !.symbolic = @ + 1]
                       /\ scanned' = scanned
                    \/ /\ ~ref.symbolic /\ tally'.symbolic = tally.symbolic
                       /\ \E c, id : scanned' = Append(scanned, keep(c, id))
<1>8. \/ ref.space = "replace" /\ stage' = "failed"
      \/ ref.space # "replace" /\ ref.symbolic /\ stage' = "git scan" /\ taken
      \/ IsCarried(ref) /\ ~ref.symbolic /\ ~ref.utf8 /\ stage' = "failed"
      \/ IsCarried(ref) /\ ~ref.symbolic /\ ref.utf8 /\ peeled.fault # NoFailure /\ stage' = "failed"
      \/ /\ IsCarried(ref) /\ ~ref.symbolic /\ ref.utf8 /\ peeled.fault = NoFailure
         /\ stage' = "git scan" /\ taken
      \/ ref.space # "replace" /\ ~IsCarried(ref) /\ ~ref.symbolic /\ stage' = "git scan" /\ taken
  <2> DEFINE Keep(commit, id, t) == scanned' = Append(scanned, keep(commit, id)) /\ tally' = t /\ stage' = "git scan"
             counted == [tally EXCEPT
                               !.nested = @ + peeled.nested,
                               !.taggerTimes = @ + LackSeconds(TaggerClaims(identity)),
                               !.taggerOffsets = @ + LackOffset(TaggerClaims(identity))]
  <2>1. \/ ref.space = "replace" /\ stage' = "failed"
        \/ /\ ref.space # "replace" /\ ref.symbolic /\ stage' = "git scan"
           /\ tally' = [tally EXCEPT !.symbolic = @ + 1] /\ scanned' = scanned
        \/ IsCarried(ref) /\ ~ref.symbolic /\ ~ref.utf8 /\ stage' = "failed"
        \/ IsCarried(ref) /\ ~ref.symbolic /\ ref.utf8 /\ peeled.fault # NoFailure /\ stage' = "failed"
        \/ IsCarried(ref) /\ ~ref.symbolic /\ ref.utf8 /\ peeled.fault = NoFailure /\ Keep(peeled.commit, identity, counted)
        \/ ref.space \notin {"heads", "tags", "replace"} /\ ~ref.symbolic /\ Keep(PeelLeniently(ref.to), <<>>, tally)
    BY DEF ScanRef, Scanned, Goto, Fail
  <2>2. counted.symbolic = tally.symbolic
    BY <1>1
  <2>3. ref.space \in {"heads", "tags"} => ref.space # "replace"
    OBVIOUS
  <2> HIDE DEF counted, peeled, identity
  <2>4. ASSUME NEW c, NEW id, NEW t, t.symbolic = tally.symbolic, ~ref.symbolic, Keep(c, id, t) PROVE taken
    BY <2>4
  <2> HIDE DEF Keep
  <2>5. \A c, id, t : Keep(c, id, t) => stage' = "git scan"
    BY DEF Keep
  <2> HIDE DEF taken
  <2> QED
    BY <1>7, <2>1, <2>2, <2>3, <2>4, <2>5 DEF taken
<1>9. stage' = "failed" <=> ~RefIsFit(i + 1)
  <2> HIDE DEF taken, ref, i, peeled
  <2>1. peeled.fault = NoFailure <=> IsChainGood(ref.to)
    BY <1>5 DEF peeled
  <2> QED
    BY <1>6, <1>7, <1>8, <2>1
<1>10. stage' # "failed" => stage' = "git scan" /\ taken
  BY <1>8
<1>11. taken => Scanned' = i + 1
  <2> SUFFICES ASSUME taken PROVE Scanned' = i + 1
    OBVIOUS
  <2>1. CASE ref.symbolic
    <3>1. tally'.symbolic = tally.symbolic + 1 /\ scanned' = scanned
      BY <1>1, <2>1
    <3> QED
      BY <1>1, <3>1 DEF Scanned
  <2>2. CASE ~ref.symbolic
    <3>1. PICK c, id : scanned' = Append(scanned, keep(c, id)) /\ tally'.symbolic = tally.symbolic
      BY <2>2
    <3> DEFINE r == keep(c, id)
    <3>2. Len(Append(scanned, r)) = Len(scanned) + 1
      <4> HIDE DEF r
      <4> QED
        BY <1>1, SequenceGrows
    <3> QED
      BY <1>1, <3>1, <3>2 DEF Scanned
  <2> QED
    BY <2>1, <2>2
<1> QED
  BY <1>1, <1>3, <1>4, <1>9, <1>10, <1>11

LEMMA ScanRefuses == KindInv /\ ExactInv /\ RefusalInv /\ ScanRef => RefusalInv'
PROOF
<1> SUFFICES ASSUME KindInv, ExactInv, RefusalInv, ScanRef PROVE RefusalInv'
  OBVIOUS
<1> DEFINE i == Scanned
           ref == input.refs[i + 1]
<1>1. stage = "git scan" /\ input.kind = "git" /\ ScanInv /\ IsRepository(input)
  BY RepositoryIsOne DEF ScanRef, ExactInv
<1>2. input.defects = {} /\ RefsFitTo(i) /\ RefsApart
  BY <1>1 DEF RefusalInv
<1>3. /\ i \in Nat /\ i + 1 \in 1..Len(input.refs) /\ input' = input
      /\ stage' = "failed" <=> ~RefIsFit(i + 1)
      /\ stage' # "failed" => stage' = "git scan" /\ Scanned' = i + 1
  BY <1>1, RefTaken
<1>4. stage' # "failed" => \/ scanned' = scanned
                           \/ \E c, id : scanned' = Append(scanned, [space |-> ref.space, name |-> ref.name,
                                                                     commit |-> c, identity |-> id])
  BY <1>1, RefTaken
<1> HIDE DEF i
<1>5. CASE stage' = "failed"
  <2>1. ~RefsFitTo(Len(input.refs))
    BY <1>3, <1>5 DEF RefsFitTo
  <2>2. ~GitIsSound
    BY <1>1, <2>1, SoundIs
  <2>3. ~GitIsSound'
    BY <1>3, <2>2, SoundnessStays
  <2> QED
    BY <1>5, <2>3 DEF RefusalInv, OfGit
<1>6. CASE stage' # "failed"
  <2>1. RefsFitTo(i + 1)
    <3>1. 1..(i + 1) = (1..i) \cup {i + 1}
      BY <1>3, OnePlaceMore
    <3> QED
      BY <1>2, <1>3, <1>6, <3>1 DEF RefsFitTo
  <2>2. RefsFitTo(Scanned)'
    BY <1>3, <1>6, <2>1, SoundnessStays
  <2>3. scanned \in Seq(ToSet(scanned)) /\ Len(scanned) \in Nat /\ DOMAIN scanned = 1..Len(scanned)
    <3> DEFINE X == ToSet(scanned)
    <3>1. scanned \in Seq(X)
      BY <1>1 DEF ScanInv
    <3> HIDE DEF X
    <3>2. Len(scanned) \in Nat /\ DOMAIN scanned = 1..Len(scanned)
      BY <3>1
    <3> QED
      BY <3>1, <3>2 DEF X
  <2>10. \A k \in 1..i : k \in 1..(i + 1)
    BY <1>3, OnePlaceMore
  <2>4. \A n \in DOMAIN scanned : \E k \in 1..i : IsSameRef(scanned[n], input.refs[k])
    BY <1>2 DEF RefsApart, i
  <2>5. RefsApart'
    <3>1. CASE scanned' = scanned
      <4>1. \A n \in DOMAIN scanned : \E k \in 1..(i + 1) : IsSameRef(scanned[n], input.refs[k])
        BY <2>4, <2>10
      <4> QED
        BY <1>2, <1>3, <1>6, <3>1, <4>1 DEF RefsApart, NamesApart
    <3>2. CASE scanned' # scanned
      <4>1. PICK c, id : scanned' = Append(scanned, [space |-> ref.space, name |-> ref.name,
                                                     commit |-> c, identity |-> id])
        BY <1>4, <1>6, <3>2
      <4> DEFINE r == [space |-> ref.space, name |-> ref.name, commit |-> c, identity |-> id]
                 s == Append(scanned, r)
                 N == Len(scanned)
      <4>2. IsSameRef(r, ref)
        BY DEF IsSameRef
      <4> HIDE DEF r
      <4>3. /\ Len(s) = N + 1 /\ s \in Seq(ToSet(s)) /\ s[N + 1] = r
            /\ \A n \in 1..N : s[n] = scanned[n]
        BY <2>3, SequenceGrows
      <4> HIDE DEF s
      <4>4. DOMAIN s = 1..(N + 1) /\ DOMAIN scanned = 1..N
        BY <2>3, <4>3
      <4>5. \A n \in 1..N : \E k \in 1..i : IsSameRef(s[n], input.refs[k])
        BY <2>4, <4>3, <4>4
      <4>6. IsSameRef(s[N + 1], input.refs[i + 1])
        BY <4>2, <4>3
      <4>7. \A n \in DOMAIN s : \E k \in 1..(i + 1) : IsSameRef(s[n], input.refs[k])
        <5>1. i + 1 \in 1..(i + 1) /\ \A n \in DOMAIN s : n \in 1..N \/ n = N + 1
          <6>1. i \in Nat /\ N \in Nat /\ DOMAIN s = 1..(N + 1)
            BY <1>3, <2>3, <4>4
          <6> HIDE DEF N
          <6> QED
            BY <6>1, OnePlaceMore
        <5> QED
          BY <2>10, <4>5, <4>6, <5>1
      <4>8. \A j, k \in DOMAIN input.refs : IsSameRef(input.refs[j], input.refs[k]) => j = k
        BY <1>1 DEF IsRepository, IsSameRef
      <4>9. DOMAIN input.refs = 1..Len(input.refs) /\ Len(input.refs) \in Nat
        BY <1>1, RefPlaces
      <4>10. ASSUME NEW n \in 1..N PROVE ~IsSameRef(s[n], s[N + 1]) /\ ~IsSameRef(s[N + 1], s[n])
        <5>1. PICK k \in 1..i : IsSameRef(s[n], input.refs[k])
          BY <4>5
        <5>2. k \in DOMAIN input.refs /\ i + 1 \in DOMAIN input.refs /\ k # i + 1
          BY <1>3, <4>9, OnePlaceMore
        <5>3. ~IsSameRef(input.refs[k], input.refs[i + 1])
          BY <4>8, <5>2
        <5> QED
          BY <4>6, <5>1, <5>3 DEF IsSameRef
      <4>11. \A n, k \in 1..N : IsSameRef(s[n], s[k]) => n = k
        BY <1>2, <4>3, <4>4 DEF RefsApart, NamesApart
      <4>12. \A n, k \in DOMAIN s : IsSameRef(s[n], s[k]) => n = k
        <5>1. \A n \in DOMAIN s : n \in 1..N \/ n = N + 1
          BY <2>3, <4>4
        <5> QED
          BY <4>10, <4>11, <5>1
      <4>13. scanned' = s
        BY <4>1 DEF s, r
      <4> QED
        BY <1>3, <1>6, <4>7, <4>12, <4>13 DEF RefsApart, NamesApart
    <3> QED
      BY <3>1, <3>2
  <2> QED
    BY <1>2, <1>3, <1>6, <2>2, <2>5 DEF RefusalInv, OfGit
<1> QED
  BY <1>5, <1>6

(* The walk reads the history, and fails where it cannot be read.          *)
LEMMA WalkRefuses == KindInv /\ GitInv /\ ExactInv /\ RefusalInv /\ WalkHistory => RefusalInv'
PROOF
<1> SUFFICES ASSUME KindInv, GitInv, ExactInv, RefusalInv, WalkHistory PROVE RefusalInv'
  OBVIOUS
<1> DEFINE found == Reach(CarriedTips)
<1>1. stage = "git scan" /\ input.kind = "git" /\ ScanInv /\ IsRepository(input) /\ Scanned = Len(input.refs)
  BY RepositoryIsOne DEF WalkHistory, ExactInv, Scanned
<1>2. input.defects = {} /\ RefsFitTo(Len(input.refs)) /\ NamesApart
  BY <1>1 DEF RefusalInv, RefsApart
<1>3. found = CarriedHistory
  BY <1>1, TipsAreFound
<1>4. input' = input /\ scanned' = scanned /\ tally' = tally
  BY DEF WalkHistory, Goto, Fail
<1>5. HistoryIsRead <=> /\ found = Commits(found) /\ Cardinality(found) <= MaxCommits
                        /\ \A c \in found : Verified(c)
  BY <1>3 DEF HistoryIsRead, ReadsAs, Commits, HasKind, Verified
<1>6. found = Commits(found) => Cardinality(found) \in Nat
  <2>1. Commits(found) \subseteq DOMAIN input.objects /\ IsFiniteSet(DOMAIN input.objects)
    BY <1>1 DEF Commits, HasKind, Exists, IsRepository
  <2>2. IsFiniteSet(Commits(found))
    BY <2>1, FS_Subset
  <2> QED
    BY <2>2, FS_CardinalityType
<1>7. MaxCommits \in Nat
  BY GitLimits
<1>8. CASE stage' = "failed"
  <2>1. \/ found # Commits(found)
        \/ Cardinality(Commits(found)) > MaxCommits
        \/ \E c \in found : ~Verified(c)
    BY <1>8 DEF WalkHistory, WalkFails, Goto
  <2>2. ~HistoryIsRead
    <3> HIDE DEF found
    <3> QED
      BY <1>5, <1>6, <1>7, <2>1
  <2>3. ~GitIsSound
    BY <1>1, <2>2, SoundIs
  <2>4. ~GitIsSound'
    BY <1>4, <2>3, SoundnessStays
  <2> QED
    BY <1>8, <2>4 DEF RefusalInv, OfGit
<1>9. CASE stage' # "failed"
  <2>1. /\ found = Commits(found) /\ Cardinality(found) <= MaxCommits
        /\ \A c \in found : Verified(c)
        /\ stage' = "git import" /\ builder' = builder
    BY <1>9, Moves DEF WalkHistory, WalkFails, Goto, Fail
  <2>2. HistoryIsRead
    BY <1>5, <2>1
  <2>3. builder'.atoms = <<>>
    <3>1. builder = NewBuilder
      BY <1>1 DEF GitInv, GitStages, AtBeginning
    <3> QED
      BY <2>1, <3>1 DEF NewBuilder
  <2>4. 1..Len(builder'.atoms) = {}
    <3>1. Len(<<>>) = 0 /\ 1..0 = {}
      OBVIOUS
    <3> QED
      BY <2>3, <3>1
  <2>5. HistoryIsRead' /\ RefsFitTo(Len(input.refs))'
    BY <1>2, <1>4, <2>2, SoundnessStays
  <2>6. NamesApart'
    BY <1>2, <1>4 DEF NamesApart
  <2> QED
    BY <1>2, <1>4, <2>1, <2>4, <2>5, <2>6 DEF RefusalInv, OfGit
<1> QED
  BY <1>8, <1>9

(* Trees a commit's import asks for are those of commits before it.        *)
LEMMA AskedAreOwn ==
    ASSUME HistoryRight, NEW n \in 1..Len(order)
    PROVE  /\ Len(order) \in Nat /\ order[n] \in CarriedHistory
           /\ \A p \in FirstParents(order[n]) : \E m \in 1..(n - 1) : m \in 1..Len(order) /\ p = order[m]
           /\ \A t \in BaseTrees(order[n]) : \E m \in 1..(n - 1) : m \in 1..Len(order) /\ t = OwnTree(order[m])
PROOF
<1> DEFINE X == ToSet(order)
<1>1. order \in Seq(X) /\ X = CarriedHistory
  BY DEF HistoryRight, IsOrder
<1> HIDE DEF X
<1>2. Len(order) \in Nat /\ DOMAIN order = 1..Len(order)
  BY <1>1
<1>3. order[n] \in CarriedHistory
  BY <1>1, <1>2
<1>4. ASSUME NEW p \in FirstParents(order[n]) PROVE \E m \in 1..(n - 1) : m \in 1..Len(order) /\ p = order[m]
  <2>1. p \in ToSet(Obj(order[n]).parents)
    BY DEF FirstParents, ToSet
  <2>2. PICK m \in 1..(n - 1) : order[m] = p
    BY <2>1 DEF HistoryRight, IsOrder, ParentsBefore
  <2>3. m \in 1..Len(order)
    BY <1>2
  <2> QED
    BY <2>2, <2>3
<1>5. \A t \in BaseTrees(order[n]) : \E m \in 1..(n - 1) : m \in 1..Len(order) /\ t = OwnTree(order[m])
  <2> SUFFICES ASSUME NEW t \in BaseTrees(order[n])
               PROVE  \E m \in 1..(n - 1) : m \in 1..Len(order) /\ t = OwnTree(order[m])
    OBVIOUS
  <2>1. PICK p \in FirstParents(order[n]) : t = OwnTree(p)
    BY DEF BaseTrees
  <2>2. PICK m \in 1..(n - 1) : m \in 1..Len(order) /\ p = order[m]
    BY <1>4
  <2> QED
    BY <2>1, <2>2
<1> QED
  BY <1>2, <1>3, <1>4, <1>5

(* A snapshot holds what the leaves of its tree name.                      *)
LEMMA SnapshotNames ==
    ASSUME NEW root
    PROVE  /\ \A p \in DOMAIN Snapshot(root) : \E l \in Leaves(root) : l.path = p /\ Snapshot(root)[p].oid = l.oid
           /\ TreeFaults(root) = {} =>
                \A l \in Leaves(root) : /\ l.path \in DOMAIN Snapshot(root)
                                        /\ Snapshot(root)[l.path].oid = l.oid
PROOF
<1> DEFINE S == {l.path : l \in Leaves(root)}
           LeafAt(p) == CHOOSE l \in Leaves(root) : l.path = p
<1>1. Snapshot(root) = [p \in S |-> [oid |-> LeafAt(p).oid, mode |-> LeafAt(p).mode]]
  BY DEF Snapshot
<1>2. \A p \in S : LeafAt(p) \in Leaves(root) /\ LeafAt(p).path = p
  OBVIOUS
<1> HIDE DEF LeafAt
<1>3. DOMAIN Snapshot(root) = S /\ \A p \in S : Snapshot(root)[p].oid = LeafAt(p).oid
  BY <1>1
<1>4. \A p \in DOMAIN Snapshot(root) : \E l \in Leaves(root) : l.path = p /\ Snapshot(root)[p].oid = l.oid
  <2> HIDE DEF S
  <2> QED
    BY <1>2, <1>3
<1>5. ASSUME TreeFaults(root) = {}, NEW l \in Leaves(root)
      PROVE  l.path \in DOMAIN Snapshot(root) /\ Snapshot(root)[l.path].oid = l.oid
  <2>1. l.path \in S
    OBVIOUS
  <2>2. LeafAt(l.path) = l
    BY <1>2, <1>5, <2>1, FaultlessTree
  <2> QED
    BY <1>3, <2>1, <2>2
<1> QED
  BY <1>4, <1>5

(* A blob is refused unless it is one, read, and within the limit.         *)
LEMMA BlobRefuses ==
    ASSUME IsRepository(input), NEW id
    PROVE  BlobFaults(id) = {} <=> ReadsAs(id, "blob") /\ Obj(id).size <= MaxBlobBytes
PROOF
<1>1. MaxBlobBytes \in Nat
  BY GitLimits
<1>2. Exists(id) /\ Obj(id).kind = "blob" => Obj(id).size \in Nat
  BY DEF IsRepository, Exists, Obj
<1>3. ReadsAs(id, "blob") => Exists(id) /\ Obj(id).kind = "blob"
  BY DEF ReadsAs, Verified
<1> HIDE DEF ReadsAs
<1>4. BlobFaults(id) = {} <=> Exists(id) /\ ~(Obj(id).kind = "blob" /\ Obj(id).size > MaxBlobBytes)
                              /\ ReadsAs(id, "blob")
  <2> HIDE DEF Exists, Obj
  <2> QED
    BY DEF BlobFaults
<1>5. ASSUME NEW size \in Nat PROVE ~(size > MaxBlobBytes) <=> size <= MaxBlobBytes
  BY <1>1
<1>6. ReadsAs(id, "blob") => (~(Obj(id).size > MaxBlobBytes) <=> Obj(id).size <= MaxBlobBytes)
  BY <1>2, <1>3, <1>5
<1> QED
  BY <1>3, <1>4, <1>6

\* What the import of the commit whose turn it is may find wrong.
TreesNow == {OwnTree(order[NextAtom])} \cup BaseTrees(order[NextAtom])
BuiltNow == Cached(snaps, TreesNow)
ChildNow == BuiltNow[OwnTree(order[NextAtom])]
BaseNow == IF BaseTrees(order[NextAtom]) = {} THEN EmptyTree
           ELSE BuiltNow[CHOOSE t \in BaseTrees(order[NextAtom]) : TRUE]
TreeFaultsNow == UNION {TreeFaults(t) : t \in TreesNow \ DOMAIN snaps}
ReadFaultsNow == (UNION {BlobFaults(b) : b \in ReadBlobs(BaseNow, ChildNow)}) \cup HeaderFaults(order[NextAtom])

LEMMA TurnRefuses ==
    ASSUME ImportCommit
    PROVE  /\ stage = "git import" /\ NextAtom <= Len(order) /\ input' = input /\ order' = order /\ scanned' = scanned
           /\ stage' = "failed" => TreeFaultsNow # {} \/ ReadFaultsNow # {} \/ ~Accepts(DraftNow)
           /\ stage' # "failed" => /\ TreeFaultsNow = {} /\ ReadFaultsNow = {} /\ stage' = "git import"
                                   /\ builder' = WithAtom(builder, DraftNow)
PROOF
<1> DEFINE faults == IF TreeFaultsNow # {} THEN TreeFaultsNow
                     ELSE IF ReadFaultsNow # {} THEN ReadFaultsNow
                     ELSE IF ~Accepts(DraftNow) THEN {"refused by the builder"}
                     ELSE {}
<1>1. stage = "git import" /\ NextAtom <= Len(order) /\ order' = order /\ scanned' = scanned /\ input' = input
  BY DEF ImportCommit, Goto, Fail
<1>2. \/ (\E fault \in faults : Fail(fault))
      \/ faults = {} /\ stage' = "git import" /\ builder' = WithAtom(builder, DraftNow)
  BY DEF ImportCommit, DraftNow, TreeFaultsNow, ReadFaultsNow, BaseNow, ChildNow, BuiltNow, TreesNow, Goto
<1>3. \A why : Fail(why) => stage' = "failed"
  BY DEF Fail
<1>4. faults # {} => TreeFaultsNow # {} \/ ReadFaultsNow # {} \/ ~Accepts(DraftNow)
  OBVIOUS
<1>5. faults = {} => TreeFaultsNow = {} /\ ReadFaultsNow = {}
  OBVIOUS
<1> HIDE DEF faults
<1> QED
  BY <1>1, <1>2, <1>3, <1>4, <1>5

LEMMA OrderIs == HistoryRight => Len(order) \in Nat
PROOF
<1> SUFFICES ASSUME HistoryRight PROVE Len(order) \in Nat
  OBVIOUS
<1> DEFINE X == ToSet(order)
<1>1. order \in Seq(X)
  BY DEF HistoryRight, IsOrder
<1> HIDE DEF X
<1> QED
  BY <1>1

(* The trees at hand are those of the commit and of its first parent.      *)
LEMMA TurnIs ==
    ASSUME GitInv, HistoryRight, AtomsRight, stage = "git import", NextAtom <= Len(order)
    PROVE  LET c == order[NextAtom] IN
           /\ NextAtom \in 1..Len(order) /\ NextAtom - 1 = Len(builder.atoms) /\ Len(builder.atoms) \in Nat
           /\ NextAtom = Len(builder.atoms) + 1
           /\ c \in CarriedHistory /\ ChildNow = Snapshot(OwnTree(c))
           /\ \/ BaseNow = EmptyTree
              \/ \E m \in 1..(NextAtom - 1) : m \in 1..Len(order) /\ BaseNow = Snapshot(OwnTree(order[m]))
           /\ \A t \in TreesNow : \E m \in 1..NextAtom : m \in 1..Len(order) /\ t = OwnTree(order[m])
           /\ \A t \in TreesNow \cap DOMAIN snaps :
                 \E m \in 1..(NextAtom - 1) : m \in 1..Len(order) /\ t = OwnTree(order[m])
PROOF
<1> DEFINE k == NextAtom
           c == order[k]
<1>1. CacheIsFrontier /\ AtomsGrow /\ \A t \in DOMAIN snaps : snaps[t] = Snapshot(t)
  BY DEF GitInv, GitStages, CacheIsFrontier
<1>2. Len(order) \in Nat
  BY OrderIs
<1>3. Len(builder.atoms) \in Nat /\ k = Len(builder.atoms) + 1 /\ k - 1 = Len(builder.atoms) /\ k \in 1..Len(order)
  <2> DEFINE a == Len(builder.atoms)
  <2>1. a \in Nat /\ k = a + 1 /\ k - 1 = a /\ k <= Len(order)
    BY <1>1, AtomsCounted
  <2> HIDE DEF a, k
  <2>2. k \in 1..Len(order)
    BY <1>2, <2>1, WithinPlaces
  <2> QED
    BY <2>1, <2>2 DEF a
<1>4. /\ c \in CarriedHistory
      /\ \A t \in BaseTrees(c) : \E m \in 1..(k - 1) : m \in 1..Len(order) /\ t = OwnTree(order[m])
  BY <1>3, AskedAreOwn
<1>5. \A t \in TreesNow : BuiltNow[t] = Snapshot(t)
  BY <1>1 DEF BuiltNow, Cached
<1>6. ChildNow = Snapshot(OwnTree(c))
  BY <1>5 DEF ChildNow, TreesNow
<1>7. \/ BaseNow = EmptyTree
      \/ \E m \in 1..(k - 1) : m \in 1..Len(order) /\ BaseNow = Snapshot(OwnTree(order[m]))
  <2>1. CASE BaseTrees(c) = {}
    BY <2>1 DEF BaseNow
  <2>2. CASE BaseTrees(c) # {}
    <3> DEFINE t == CHOOSE u \in BaseTrees(c) : TRUE
    <3>1. t \in BaseTrees(c) /\ BaseNow = BuiltNow[t]
      BY <2>2 DEF BaseNow
    <3> HIDE DEF t
    <3>2. BaseNow = Snapshot(t)
      BY <1>5, <3>1 DEF TreesNow
    <3> QED
      BY <1>4, <3>1, <3>2
  <2> QED
    BY <2>1, <2>2
<1>8. \A m \in 1..(k - 1) : m \in 1..k
  BY <1>2, <1>3, EarlierPlaces
<1>9. \A t \in TreesNow : \E m \in 1..k : m \in 1..Len(order) /\ t = OwnTree(order[m])
  <2>1. k \in 1..k
    <3> DEFINE last == Len(order)
    <3>1. last \in Nat /\ k \in 1..last
      BY <1>2, <1>3
    <3> HIDE DEF k, c, last
    <3> QED
      BY <3>1, EarlierPlaces
  <2> QED
    BY <1>3, <1>4, <1>8, <2>1 DEF TreesNow
<1>10. \A t \in DOMAIN snaps : \E m \in 1..(k - 1) : m \in 1..Len(order) /\ t = OwnTree(order[m])
  <2> SUFFICES ASSUME NEW t \in DOMAIN snaps PROVE \E m \in 1..(k - 1) : m \in 1..Len(order) /\ t = OwnTree(order[m])
    OBVIOUS
  <2>1. t \in AskedIn(order, 1..(k - 1))
    BY <1>1, <1>3 DEF CacheIsFrontier
  <2>2. PICK n \in 1..(k - 1) : t \in {OwnTree(order[n])} \cup BaseTrees(order[n])
    BY <2>1 DEF AskedIn
  <2>3. n \in 1..Len(order) /\ \A m \in 1..(n - 1) : m \in 1..(k - 1)
    BY <1>2, <1>3, EarlierPlaces
  <2>4. CASE t = OwnTree(order[n])
    BY <2>3, <2>4
  <2>5. CASE t \in BaseTrees(order[n])
    <3>1. \A u \in BaseTrees(order[n]) : \E m \in 1..(n - 1) : m \in 1..Len(order) /\ u = OwnTree(order[m])
      BY <2>3, AskedAreOwn
    <3> QED
      BY <2>3, <2>5, <3>1
  <2> QED
    BY <2>2, <2>4, <2>5
<1> QED
  BY <1>3, <1>4, <1>6, <1>7, <1>9, <1>10

(* The builder takes every commit.                                         *)
LEMMA BuilderAccepts ==
    ASSUME HistoryRight, AtomsRight, AtomsGrow, NextAtom \in 1..Len(order), NextAtom - 1 = Len(builder.atoms)
    PROVE  Accepts(DraftNow)
PROOF
<1> DEFINE c == order[NextAtom]
<1>1. \A o1, o2 \in DraftNow.ops : o1.path = o2.path => o1 = o2
  <2>1. DraftNow.ops = DiffOps(Contents(BaseNow), Contents(ChildNow), AsStated)
    BY DEF DraftNow, BaseNow, ChildNow, BuiltNow, TreesNow
  <2>2. \A base, child, status : \A o1, o2 \in DiffOps(base, child, status) : o1.path = o2.path => o1 = o2
    <3> SUFFICES ASSUME NEW base, NEW child, NEW status,
                        NEW o1 \in DiffOps(base, child, status), NEW o2 \in DiffOps(base, child, status),
                        o1.path = o2.path
                 PROVE  o1 = o2
      OBVIOUS
    <3> DEFINE Is(o) == \/ \E p \in DOMAIN child \ DOMAIN base : o = AddOp(p, child[p].blob, child[p].mode, status)
                        \/ \E p \in {q \in DOMAIN child \cap DOMAIN base : child[q] # base[q]} :
                              o = ModifyOp(p, child[p].blob, child[p].mode, status)
                        \/ \E p \in DOMAIN base \ DOMAIN child : o = DeleteOp(p, status)
    <3>1. Is(o1) /\ Is(o2)
      BY DEF DiffOps
    <3>2. \A p, b, m, s : AddOp(p, b, m, s).path = p /\ ModifyOp(p, b, m, s).path = p /\ DeleteOp(p, s).path = p
      BY DEF AddOp, ModifyOp, DeleteOp
    <3> QED
      BY <3>1, <3>2
  <2> QED
    BY <2>1, <2>2
<1>2. \A copy \in DraftNow.copies : copy.fromAtom \in DOMAIN builder.atoms
  <2> DEFINE from == {AtomNamed(p) : p \in FirstParents(c)}
  <2>1. DraftNow.copies = InferredCopies(BaseNow, ChildNow, from)
    BY DEF DraftNow, BaseNow, ChildNow, BuiltNow, TreesNow
  <2>2. \A base, child, atoms : \A copy \in InferredCopies(base, child, atoms) : copy.fromAtom \in atoms
    <3> SUFFICES ASSUME NEW base, NEW child, NEW atoms, NEW copy \in InferredCopies(base, child, atoms)
                 PROVE  copy.fromAtom \in atoms
      OBVIOUS
    <3> DEFINE gone == DOMAIN base \ DOMAIN child
               new == DOMAIN child \ DOMAIN base
               Only(listed, paths, oid) == {p \in paths : listed[p].oid = oid}
               moved == {b \in {base[p].oid : p \in gone} :
                           /\ Cardinality(Only(base, gone, b)) = 1
                           /\ Cardinality(Only(child, new, b)) = 1}
               From(b) == CHOOSE p \in Only(base, gone, b) : TRUE
               To(b) == CHOOSE p \in Only(child, new, b) : TRUE
    <3>1. InferredCopies(base, child, atoms) =
             IF ~input.renames THEN {}
             ELSE {[from |-> From(b), to |-> To(b), fromAtom |-> a, status |-> Derived("InferredRename")] :
                      b \in moved, a \in atoms}
      BY DEF InferredCopies
    <3> HIDE DEF From, To, moved
    <3> QED
      BY <3>1
  <2>3. \A p \in FirstParents(c) : AtomNamed(p) \in DOMAIN builder.atoms
    <3> SUFFICES ASSUME NEW p \in FirstParents(c) PROVE AtomNamed(p) \in DOMAIN builder.atoms
      OBVIOUS
    <3>1. PICK m \in 1..(NextAtom - 1) : p = order[m]
      BY AskedAreOwn
    <3>2. DOMAIN builder.atoms = 1..(NextAtom - 1)
      <4> DEFINE a == builder.atoms
                 X == ToSet(a)
      <4>1. a \in Seq(X) /\ Len(a) = NextAtom - 1
        BY DEF AtomsGrow
      <4> HIDE DEF X, a
      <4>2. DOMAIN a = 1..Len(a)
        BY <4>1
      <4> QED
        BY <4>1, <4>2 DEF a
    <3>3. builder.atoms[m].source = p
      BY <3>1 DEF AtomsRight, AtomIsRight
    <3>4. \E i \in DOMAIN builder.atoms : builder.atoms[i].source = p
      BY <3>1, <3>2, <3>3
    <3> QED
      BY <3>4 DEF AtomNamed
  <2> QED
    BY <2>1, <2>2, <2>3
<1> QED
  BY <1>1, <1>2 DEF Accepts, MayAddAtom

(* Where the repository is sound, nothing is found wrong.                  *)
LEMMA SoundTurn ==
    ASSUME IsRepository(input), GitInv, HistoryRight, AtomsRight, stage = "git import", NextAtom <= Len(order),
           \A c \in CarriedHistory : CommitIsGood(c)
    PROVE  TreeFaultsNow = {} /\ ReadFaultsNow = {} /\ Accepts(DraftNow)
PROOF
<1> DEFINE c == order[NextAtom]
<1>1. /\ NextAtom \in 1..Len(order) /\ NextAtom - 1 = Len(builder.atoms)
      /\ c \in CarriedHistory /\ ChildNow = Snapshot(OwnTree(c))
      /\ \A t \in TreesNow : \E m \in 1..NextAtom : m \in 1..Len(order) /\ t = OwnTree(order[m])
  BY TurnIs
<1>2. AtomsGrow
  BY DEF GitInv, GitStages
<1>3. \A t \in TreesNow : TreeFaults(t) = {}
  BY <1>1, AskedAreOwn DEF CommitIsGood
<1>8. \A p \in DOMAIN ChildNow : \E l \in Leaves(OwnTree(c)) : ChildNow[p].oid = l.oid
  <2> DEFINE own == OwnTree(c)
  <2>1. ChildNow = Snapshot(own)
    BY <1>1
  <2> HIDE DEF own
  <2>2. \A p \in DOMAIN Snapshot(own) : \E l \in Leaves(own) : Snapshot(own)[p].oid = l.oid
    BY SnapshotNames
  <2> QED
    BY <2>1, <2>2 DEF own
<1>4. \A b \in ReadBlobs(BaseNow, ChildNow) : BlobFaults(b) = {}
  <2> SUFFICES ASSUME NEW p \in DOMAIN ChildNow PROVE BlobFaults(ChildNow[p].oid) = {}
    BY DEF ReadBlobs
  <2>1. PICK l \in Leaves(OwnTree(c)) : ChildNow[p].oid = l.oid
    BY <1>1, <1>8
  <2>2. ReadsAs(l.oid, "blob") /\ Obj(l.oid).size <= MaxBlobBytes
    BY <1>1 DEF CommitIsGood
  <2> QED
    BY <2>1, <2>2, BlobRefuses
<1>5. HeaderFaults(c) = {}
  BY <1>1 DEF CommitIsGood
<1>6. TreeFaultsNow = {}
  BY <1>3 DEF TreeFaultsNow
<1>7. ReadFaultsNow = {}
  BY <1>4, <1>5 DEF ReadFaultsNow
<1> QED
  BY <1>1, <1>2, <1>6, <1>7, BuilderAccepts

(* And where nothing is found wrong the commit is good: what is not read   *)
(* again was read for a commit before it.                                  *)
LEMMA GoodTurn ==
    ASSUME IsRepository(input), GitInv, HistoryRight, AtomsRight, stage = "git import", NextAtom <= Len(order),
           \A n \in 1..Len(builder.atoms) : CommitIsGood(order[n]),
           TreeFaultsNow = {}, ReadFaultsNow = {}
    PROVE  CommitIsGood(order[NextAtom])
PROOF
<1> DEFINE c == order[NextAtom]
<1>1. /\ NextAtom - 1 = Len(builder.atoms) /\ ChildNow = Snapshot(OwnTree(c))
      /\ \/ BaseNow = EmptyTree
         \/ \E m \in 1..(NextAtom - 1) : m \in 1..Len(order) /\ BaseNow = Snapshot(OwnTree(order[m]))
      /\ \A t \in TreesNow \cap DOMAIN snaps :
            \E m \in 1..(NextAtom - 1) : m \in 1..Len(order) /\ t = OwnTree(order[m])
  BY TurnIs
<1>2. HeaderFaults(c) = {} /\ \A b \in ReadBlobs(BaseNow, ChildNow) : BlobFaults(b) = {}
  BY DEF ReadFaultsNow
<1>3. TreeFaults(OwnTree(c)) = {}
  <2>1. OwnTree(c) \in TreesNow
    BY DEF TreesNow
  <2>2. CASE OwnTree(c) \in DOMAIN snaps
    BY <1>1, <2>1, <2>2 DEF CommitIsGood
  <2>3. CASE OwnTree(c) \notin DOMAIN snaps
    BY <2>1, <2>3 DEF TreeFaultsNow
  <2> QED
    BY <2>2, <2>3
<1>4. ASSUME NEW l \in Leaves(OwnTree(c))
      PROVE  ReadsAs(l.oid, "blob") /\ Obj(l.oid).size <= MaxBlobBytes
  <2>1. l.path \in DOMAIN ChildNow /\ ChildNow[l.path].oid = l.oid
    BY <1>1, <1>3, SnapshotNames
  <2>2. CASE l.path \in DOMAIN BaseNow /\ BaseNow[l.path] = ChildNow[l.path]
    <3>1. DOMAIN EmptyTree = {}
      BY DEF EmptyTree
    <3>2. PICK m \in 1..(NextAtom - 1) : BaseNow = Snapshot(OwnTree(order[m]))
      BY <1>1, <2>2, <3>1
    <3> DEFINE base == Snapshot(OwnTree(order[m]))
    <3>3. \A p \in DOMAIN base : \E k \in Leaves(OwnTree(order[m])) : base[p].oid = k.oid
      BY SnapshotNames
    <3> HIDE DEF base
    <3>4. l.path \in DOMAIN base /\ BaseNow[l.path] = base[l.path]
      BY <2>2, <3>2 DEF base
    <3>5. PICK k \in Leaves(OwnTree(order[m])) : BaseNow[l.path].oid = k.oid
      BY <3>3, <3>4
    <3>6. CommitIsGood(order[m])
      BY <1>1
    <3> QED
      BY <2>1, <2>2, <3>5, <3>6 DEF CommitIsGood
  <2>3. CASE ~(l.path \in DOMAIN BaseNow /\ BaseNow[l.path] = ChildNow[l.path])
    <3>1. l.oid \in ReadBlobs(BaseNow, ChildNow)
      BY <2>1, <2>3 DEF ReadBlobs
    <3> QED
      BY <1>2, <3>1, BlobRefuses
  <2> QED
    BY <2>2, <2>3
<1> QED
  BY <1>2, <1>3, <1>4 DEF CommitIsGood

LEMMA ImportRefuses == KindInv /\ GitInv /\ ExactInv /\ RefusalInv /\ ImportCommit => RefusalInv'
PROOF
<1> SUFFICES ASSUME KindInv, GitInv, ExactInv, RefusalInv, ImportCommit PROVE RefusalInv'
  OBVIOUS
<1>1. /\ stage = "git import" /\ NextAtom <= Len(order) /\ input' = input /\ order' = order /\ scanned' = scanned
      /\ stage' = "failed" => TreeFaultsNow # {} \/ ReadFaultsNow # {} \/ ~Accepts(DraftNow)
      /\ stage' # "failed" => /\ TreeFaultsNow = {} /\ ReadFaultsNow = {} /\ stage' = "git import"
                              /\ builder' = WithAtom(builder, DraftNow)
  BY TurnRefuses
<1>2. /\ HistoryRight /\ AtomsRight /\ input.kind = "git" /\ IsRepository(input) /\ NamesApart
      /\ input.defects = {} /\ RefsFitTo(Len(input.refs)) /\ HistoryIsRead
      /\ \A n \in 1..Len(builder.atoms) : CommitIsGood(order[n])
  BY <1>1, RepositoryIsOne DEF ExactInv, RefusalInv, KindInv, GitStages
<1>3. CASE stage' = "failed"
  <2>1. ~ \A c \in CarriedHistory : CommitIsGood(c)
    BY <1>1, <1>2, <1>3, SoundTurn
  <2>2. ~GitIsSound
    BY <1>2, <2>1, SoundIs
  <2>3. ~GitIsSound'
    BY <1>1, <2>2, SoundnessStays
  <2> QED
    BY <1>3, <2>3 DEF RefusalInv, OfGit
<1>4. CASE stage' # "failed"
  <2>1. CommitIsGood(order[NextAtom])
    BY <1>1, <1>2, <1>4, GoodTurn
  <2>2. AtomsGrow
    BY <1>1 DEF GitInv, GitStages
  <2>3. /\ NextAtom = Len(builder.atoms) + 1 /\ Len(builder.atoms) \in Nat
    BY <1>1, <1>2, TurnIs
  <2>4. Len(builder'.atoms) = NextAtom
    <3> DEFINE a == builder.atoms
               b == Append(a, DraftNow)
    <3>1. builder = [atoms |-> a, refs |-> {}, drops |-> {}, flags |-> {}] /\ a \in Seq(ToSet(a))
      BY <2>2 DEF AtomsGrow
    <3>2. builder' = [builder EXCEPT !.atoms = b]
      BY <1>1, <1>4 DEF WithAtom
    <3>3. Len(b) = Len(a) + 1
      <4> HIDE DEF a
      <4> QED
        BY <3>1, SequenceGrows
    <3>4. builder'.atoms = b
      <4> HIDE DEF a, b
      <4> QED
        BY <3>1, <3>2
    <3> QED
      BY <2>3, <3>3, <3>4
  <2>5. \A n \in 1..NextAtom : CommitIsGood(order[n])
    <3>1. 1..NextAtom = (1..Len(builder.atoms)) \cup {NextAtom}
      BY <2>3
    <3> QED
      BY <1>2, <2>1, <3>1
  <2>6. (\A n \in 1..Len(builder.atoms) : CommitIsGood(order[n]))'
    BY <1>1, <2>4, <2>5, SoundnessStays
  <2>7. NamesApart' /\ HistoryIsRead' /\ RefsFitTo(Len(input.refs))'
    BY <1>1, <1>2, SoundnessStays DEF NamesApart
  <2> QED
    BY <1>1, <1>2, <1>4, <2>6, <2>7 DEF RefusalInv, OfGit
<1> QED
  BY <1>3, <1>4

(* No ref that is carried has the kind and the name of another.            *)
LEMMA FinishRefuses == KindInv /\ GitInv /\ ExactInv /\ RefusalInv /\ FinishGit => RefusalInv'
PROOF
<1> SUFFICES ASSUME KindInv, GitInv, ExactInv, RefusalInv, FinishGit PROVE RefusalInv'
  OBVIOUS
<1>1. stage = "git import" /\ input' = input /\ order' = order
  BY DEF FinishGit, gitVars, Finish, Goto, Fail
<1>2. /\ NamesApart /\ input.defects = {} /\ RefsFitTo(Len(input.refs)) /\ HistoryIsRead
      /\ \A n \in 1..Len(builder.atoms) : CommitIsGood(order[n])
  BY <1>1 DEF RefusalInv
<1>3. OneRefPerKey(CarriedRefs)
  <2> DEFINE ns == {k \in DOMAIN scanned : IsCarried(scanned[k]) /\ HasTarget(k)}
             Of(n) == Ref(Names(scanned[n].space), scanned[n].name,
                          AtomNamed(CHOOSE c \in scanned[n].commit : TRUE), AsStated, scanned[n].identity)
  <2>1. CarriedRefs = {Of(n) : n \in ns}
    BY DEF CarriedRefs
  <2>2. \A n : Of(n).kind = Names(scanned[n].space) /\ Of(n).name = scanned[n].name
    BY DEF Ref
  <2>3. \A n \in ns : n \in DOMAIN scanned /\ scanned[n].space \in {"heads", "tags"}
    BY DEF IsCarried
  <2> HIDE DEF Of, ns
  <2>4. ASSUME NEW n \in ns, NEW k \in ns, RefKey(Of(n)) = RefKey(Of(k)) PROVE n = k
    <3>1. Names(scanned[n].space) = Names(scanned[k].space) /\ scanned[n].name = scanned[k].name
      BY <2>2, <2>4 DEF RefKey
    <3>2. scanned[n].space = scanned[k].space
      BY <2>3, <3>1 DEF Names
    <3> QED
      BY <1>2, <2>3, <3>1, <3>2 DEF NamesApart, IsSameRef
  <2> QED
    BY <2>1, <2>4 DEF OneRefPerKey
<1>4. stage' = "done" /\ builder' = [builder EXCEPT !.refs = CarriedRefs, !.drops = GitLoss, !.flags = {}]
  BY <1>3 DEF FinishGit, Finish, Goto
<1>5. builder'.atoms = builder.atoms
  <2>1. builder = [atoms |-> builder.atoms, refs |-> {}, drops |-> {}, flags |-> {}]
    BY <1>1 DEF GitInv, GitStages, AtomsGrow
  <2> QED
    BY <1>4, <2>1
<1>6. (\A n \in 1..Len(builder.atoms) : CommitIsGood(order[n]))'
  BY <1>1, <1>2, <1>5, SoundnessStays
<1>7. HistoryIsRead' /\ RefsFitTo(Len(input.refs))'
  BY <1>1, <1>2, SoundnessStays
<1> QED
  BY <1>1, <1>2, <1>4, <1>6, <1>7 DEF RefusalInv, OfGit

LEMMA RefusalInvHolds == Spec => []RefusalInv
PROOF
<1>1. KindInv /\ GitInv /\ ExactInv /\ RefusalInv /\ [Next]_vars => RefusalInv'
  <2> SUFFICES ASSUME KindInv, GitInv, ExactInv, RefusalInv, [Next]_vars PROVE RefusalInv'
    OBVIOUS
  <2>1. CASE GitNext
    BY <2>1, OpenRefuses, ScanRefuses, WalkRefuses, ImportRefuses, FinishRefuses DEF GitNext
  <2>2. ASSUME Stays(HgStages, HgStages \cup Ends) \/ Stays(SvnStages, SvnStages \cup Ends)
               \/ Stays(CvsStages, CvsStages \cup Ends)
        PROVE  RefusalInv'
    <3>1. input.kind # "git" /\ input' = input
      BY <2>2 DEF KindInv, Stays, HgStages, SvnStages, CvsStages
    <3>2. stage' \notin {"git scan", "git import"}
      BY <2>2 DEF Stays, HgStages, SvnStages, CvsStages, Ends
    <3> QED
      BY <3>1, <3>2 DEF RefusalInv, OfGit
  <2>3. CASE VerifyNext
    <3>1. stage' \in VerifyStages
      BY <2>3, VerifyStays DEF Stays
    <3>2. stage' \notin {"git scan", "git import", "done", "failed"}
      BY <3>1 DEF VerifyStages
    <3> QED
      BY <3>2 DEF RefusalInv, OfGit
  <2>4. CASE UNCHANGED <<decoding, gitVars>>
    <3>1. input' = input /\ stage' = stage /\ builder' = builder /\ scanned' = scanned /\ order' = order /\ tally' = tally
      BY <2>4 DEF decoding, gitVars
    <3>2. Scanned' = Scanned /\ (RefsApart' <=> RefsApart) /\ (NamesApart' <=> NamesApart)
      BY <3>1 DEF Scanned, RefsApart, NamesApart
    <3>3. /\ GitIsSound' <=> GitIsSound
          /\ RefsFitTo(Scanned)' <=> RefsFitTo(Scanned)
          /\ RefsFitTo(Len(input.refs))' <=> RefsFitTo(Len(input.refs))
          /\ HistoryIsRead' <=> HistoryIsRead
          /\ (\A n \in 1..Len(builder.atoms) : CommitIsGood(order[n]))' <=> \A n \in 1..Len(builder.atoms) : CommitIsGood(order[n])
      BY <3>1, <3>2, SoundnessStays
    <3> QED
      BY <3>1, <3>2, <3>3 DEF RefusalInv, OfGit
  <2>5. CASE Reader \/ Thread \/ Child
    BY <2>4, <2>5 DEF Reader, Thread, Child, DecoderReads, ThreadRuns, ChildRuns, During
  <2>6. CASE UNCHANGED vars
    BY <2>4, <2>6 DEF vars
  <2> QED
    BY <2>1, <2>2, <2>3, <2>5, <2>6, HgStays, SvnStays, CvsStays DEF Next, Decoder, Verifier
<1> QED
  BY <1>1, RefusalStarts, KindInvHolds, GitInvHolds, ExactInvHolds, PTL DEF Spec

LEMMA RefusalInvIsEnough == KindInv /\ ExactInv /\ RefusalInv => GitRefusesExactly
PROOF
<1> SUFFICES ASSUME KindInv, ExactInv, RefusalInv, Ended, input.kind = "git"
             PROVE  stage = "done" <=> GitIsSound
  BY DEF GitRefusesExactly
<1>1. CASE stage = "failed"
  BY <1>1 DEF RefusalInv
<1>2. CASE stage = "done"
  <2>1. /\ HistoryRight /\ Len(builder.atoms) = Len(order)
        /\ input.defects = {} /\ RefsFitTo(Len(input.refs)) /\ HistoryIsRead
        /\ \A n \in 1..Len(builder.atoms) : CommitIsGood(order[n])
    BY <1>2 DEF ExactInv, RefusalInv, OfGit
  <2>2. \A c \in CarriedHistory : CommitIsGood(c)
    <3>1. order \in Seq(ToSet(order)) /\ ToSet(order) = CarriedHistory
      BY <2>1 DEF HistoryRight, IsOrder
    <3>2. \A c \in ToSet(order) : \E n \in 1..Len(order) : c = order[n]
      BY <3>1 DEF ToSet
    <3> QED
      BY <2>1, <3>1, <3>2
  <2> QED
    BY <1>2, <2>1, <2>2, RepositoryIsOne, SoundIs
<1> QED
  BY <1>1, <1>2 DEF Ended

\* Whatever the repository: a git import that has ended is done exactly when
\* everything its carried refs lead to can be verified and is above the floor,
\* although a blob is read only where it changed, a tree only when it is not
\* cached, and what only dropped refs reach is not looked at.
THEOREM GitRefusesWhatItMust == Spec => []GitRefusesExactly
PROOF
  BY KindInvHolds, ExactInvHolds, RefusalInvHolds, RefusalInvIsEnough, PTL

-----------------------------------------------------------------------------
(* Mercurial: exactly the sound repositories are imported.                 *)

LEMMA FirstOfIs ==
    ASSUME NEW N \in Nat, NEW names, DOMAIN names = 1..N, NEW set
    PROVE  FirstOf(names, set) = {} <=> set \cap ToSet(names) = {}
PROOF
<1> DEFINE T == {k \in 1..N : names[k] \in set}
<1>1. set \cap ToSet(names) = {} <=> T = {}
  BY DEF ToSet
<1>2. T = {} => FirstOf(names, set) = {}
  BY DEF FirstOf
<1>3. ASSUME T # {} PROVE FirstOf(names, set) # {}
  <2>1. T \subseteq Nat
    OBVIOUS
  <2>2. PICK m \in T : \A n \in T : m <= n
    <3> HIDE DEF T
    <3> QED
      BY <1>3, <2>1, LeastNumber
  <2>3. \A j \in 1..(m - 1) : j \in 1..N /\ ~(m <= j)
    BY <2>2
  <2>4. \A j \in 1..(m - 1) : names[j] \notin set
    BY <2>2, <2>3
  <2>5. names[m] \in FirstOf(names, set)
    BY <2>2, <2>4 DEF FirstOf
  <2> QED
    BY <2>5
<1> QED
  BY <1>1, <1>2, <1>3

LEMMA NamesAre ==
    /\ \A set : FirstOf(HgDefects, set) = {} <=> set \cap ToSet(HgDefects) = {}
    /\ \A set : FirstOf(ViewFiles, set) = {} <=> set \cap ToSet(ViewFiles) = {}
    /\ \A set : FirstOf(RefusedFlags, set) = {} <=> set \cap ToSet(RefusedFlags) = {}
PROOF
<1>1. DOMAIN HgDefects = 1..4 /\ DOMAIN ViewFiles = 1..5 /\ DOMAIN RefusedFlags = 1..4 /\ 4 \in Nat /\ 5 \in Nat
  BY DEF HgDefects, ViewFiles, RefusedFlags
<1> QED
  BY <1>1, FirstOfIs

LEMMA OrElseIs == \A first, second : OrElse(first, second) = {} <=> first = {} /\ second = {}
PROOF BY DEF OrElse

LEMMA PatchIsOne == \A base, hunks : \A x, y \in mpatch(base, hunks) : x = y
PROOF BY DEF mpatch

(* A revision's text, if it has one, is one text.                          *)
LEMMA TextIsOne ==
    ASSUME NEW C \in Nat, NEW log, DOMAIN log = 0..(C - 1), \A r \in DOMAIN log : log[r].base \in Int,
           NEW rev \in DOMAIN log
    PROVE  \A x, y \in Rebuilt(log, rev) : x = y
PROOF
<1> DEFINE Whole(f, r) ==
             IF log[r].codec \notin Codecs THEN {}
             ELSE IF IsSnapshot(log, r) THEN {log[r].body}
             ELSE IF log[r].base > r THEN {}
             ELSE UNION {mpatch(base, log[r].body) : base \in f[log[r].base]}
           IsBounded(r, t) == (IsSnapshot(log, r) /\ log[r].codec = "none") \/ Len(t) <= MaxRevisionBytes
           Of(f, r) == {t \in Whole(f, r) : Len(t) = log[r].len /\ IsBounded(r, t)}
           Eq(f, k) == f = [r \in 0..k |-> Of(f, r)]
           text == CHOOSE f : Eq(f, rev)
<1>1. rev \in Nat /\ rev \in 0..rev /\ \A r \in 0..rev : r \in Nat /\ log[r].base \in Int
  OBVIOUS
<1>2. \A r \in 0..rev : \/ IsSnapshot(log, r) \/ log[r].base > r
                        \/ log[r].base \in 0..(r - 1)
  BY <1>1 DEF IsSnapshot
<1>3. ASSUME NEW f, NEW g, NEW r \in 0..rev, \A q \in 0..(r - 1) : f[q] = g[q]
      PROVE  Of(f, r) = Of(g, r)
  <2>1. Whole(f, r) = Whole(g, r)
    <3>1. CASE IsSnapshot(log, r) \/ log[r].base > r
      BY <3>1
    <3>2. CASE log[r].base \in 0..(r - 1)
      BY <1>3, <3>2
    <3> QED
      BY <1>2, <3>1, <3>2
  <2> HIDE DEF Whole, IsBounded
  <2> QED
    BY <2>1
<1>4. Rebuilt(log, rev) = text[rev]
  BY DEF Rebuilt
<1> HIDE DEF Of
<1>5. \E f : Eq(f, rev)
  <2> DEFINE U == {k \in 0..rev : \E f : Eq(f, k)}
  <2>1. 0 \in U
    <3> DEFINE g == [r \in 0..0 |-> Of(<<>>, 0)]
    <3>1. \A q \in 0..(0 - 1) : <<>>[q] = g[q]
      OBVIOUS
    <3>2. 0 \in 0..rev
      BY <1>1
    <3>3. Of(<<>>, 0) = Of(g, 0)
      BY <1>3, <3>1, <3>2
    <3>4. 0..0 = {0}
      OBVIOUS
    <3>5. Eq(g, 0)
      <4>1. \A r \in 0..0 : Of(<<>>, 0) = Of(g, r)
        BY <3>3, <3>4
      <4> QED
        BY <4>1
    <3> HIDE DEF g, Eq
    <3> QED
      BY <3>2, <3>5
  <2>2. ASSUME NEW k \in 0..(rev - 1), k \in U PROVE k + 1 \in U
    <3>1. PICK f : Eq(f, k)
      BY <2>2
    <3> DEFINE g == [r \in 0..(k + 1) |-> IF r = k + 1 THEN Of(f, k + 1) ELSE f[r]]
    <3>2. k \in Nat /\ k + 1 \in 0..rev /\ \A r \in 0..(k + 1) : r = k + 1 \/ (r \in 0..k /\ r \in 0..rev)
      BY <1>1
    <3>3. \A r \in 0..k : r \in 0..(k + 1) /\ r # k + 1 /\ \A q \in 0..(r - 1) : q \in 0..k
      BY <3>2
    <3>4. \A r \in 0..k : g[r] = f[r]
      BY <3>3
    <3>5. g[k + 1] = Of(f, k + 1)
      BY <3>2
    <3>6. \A r \in 0..k : f[r] = Of(f, r)
      BY <3>1
    <3>7. \A q \in 0..((k + 1) - 1) : q \in 0..k
      BY <3>2
    <3>8. ASSUME NEW r \in 0..(k + 1) PROVE g[r] = Of(g, r)
      <4> HIDE DEF g
      <4>1. CASE r = k + 1
        <5>1. \A q \in 0..(r - 1) : f[q] = g[q]
          BY <3>4, <3>7, <4>1
        <5>2. Of(f, r) = Of(g, r)
          BY <1>3, <3>2, <4>1, <5>1
        <5> QED
          BY <3>5, <4>1, <5>2
      <4>2. CASE r # k + 1
        <5>1. r \in 0..k /\ r \in 0..rev
          BY <3>2, <4>2
        <5>2. \A q \in 0..(r - 1) : f[q] = g[q]
          BY <3>3, <3>4, <5>1
        <5>3. Of(f, r) = Of(g, r)
          BY <1>3, <5>1, <5>2
        <5> QED
          BY <3>4, <3>6, <5>1, <5>3
      <4> QED
        BY <4>1, <4>2
    <3>9. Eq(g, k + 1)
      <4>1. g = [r \in 0..(k + 1) |-> g[r]]
        OBVIOUS
      <4> HIDE DEF g
      <4> QED
        BY <3>8, <4>1
    <3> HIDE DEF g, Eq
    <3> QED
      BY <3>2, <3>9
  <2> HIDE DEF U
  <2>3. 0..rev \subseteq U
    BY <1>1, <2>1, <2>2, BoundedInduction
  <2> QED
    BY <1>1, <2>3 DEF U
<1>6. Eq(text, rev)
  BY <1>5
<1> HIDE DEF text
<1>7. \A r \in 0..rev : text[r] = Of(text, r)
  BY <1>6
<1> DEFINE One(r) == \A x, y \in text[r] : x = y
           V == {k \in 0..rev : \A q \in 0..k : One(q)}
<1>8. ASSUME NEW r \in 0..rev, \A q \in 0..(r - 1) : One(q) PROVE One(r)
  <2>1. \A x, y \in Whole(text, r) : x = y
    <3>1. CASE IsSnapshot(log, r) \/ log[r].base > r \/ log[r].codec \notin Codecs
      BY <3>1
    <3>2. CASE log[r].base \in 0..(r - 1) /\ ~IsSnapshot(log, r) /\ log[r].codec \in Codecs /\ ~(log[r].base > r)
      <4>1. Whole(text, r) = UNION {mpatch(base, log[r].body) : base \in text[log[r].base]}
        BY <3>2
      <4>2. \A x, y \in text[log[r].base] : x = y
        BY <1>8, <3>2
      <4> HIDE DEF Whole
      <4> QED
        BY <4>1, <4>2, PatchIsOne
    <3> QED
      BY <1>2, <3>1, <3>2
  <2>2. Of(text, r) \subseteq Whole(text, r)
    <3> HIDE DEF Whole, IsBounded
    <3> QED
      BY DEF Of
  <2> HIDE DEF Whole
  <2> QED
    BY <1>7, <2>1, <2>2
<1> HIDE DEF One
<1>9. 0 \in V
  <2>1. \A q \in 0..(0 - 1) : FALSE
    OBVIOUS
  <2>2. 0 \in 0..rev /\ \A q \in 0..0 : q = 0
    BY <1>1
  <2> QED
    BY <1>8, <2>1, <2>2
<1>10. ASSUME NEW k \in 0..(rev - 1), k \in V PROVE k + 1 \in V
  <2>1. k + 1 \in 0..rev /\ \A q \in 0..(k + 1) : q \in 0..k \/ q = k + 1
    BY <1>1
  <2>2. \A q \in 0..((k + 1) - 1) : q \in 0..k
    OBVIOUS
  <2>3. One(k + 1)
    BY <1>8, <1>10, <2>1, <2>2
  <2> QED
    BY <1>10, <2>1, <2>3
<1> HIDE DEF V
<1>11. rev \in V
  BY <1>1, <1>9, <1>10, BoundedInduction
<1>12. One(rev)
  BY <1>1, <1>11 DEF V
<1> QED
  BY <1>4, <1>12 DEF One

LEMMA RevisionFaultsAre ==
    ASSUME NEW log, IsRevlog(log), NEW r \in DOMAIN log.entries
    PROVE  RevisionFaults(log.entries, r) = {} <=> IsGenuine(log.entries, r)
PROOF
<1> DEFINE entries == log.entries
           texts == Rebuilt(entries, r)
           its == input.made[entries[r].node]
<1>1. \A x, y \in texts : x = y
  <2> DEFINE C == Cardinality(DOMAIN log.entries)
  <2>1. C \in Nat /\ DOMAIN log.entries = 0..(C - 1) /\ \A q \in DOMAIN log.entries : log.entries[q].base \in Int
    BY FS_CardinalityType DEF IsRevlog
  <2> HIDE DEF C
  <2> QED
    BY <2>1, TextIsOne
<1>2. (\E text \in texts : its.text = text) <=> texts = {its.text}
  <2> HIDE DEF texts, its
  <2> QED
    BY <1>1
<1>3. FirstOf(RefusedFlags, entries[r].flags) = {} <=> entries[r].flags \cap ToSet(RefusedFlags) = {}
  BY NamesAre
<1>4. (\E text \in texts : verify_node(entries, r, text)) <=>
         /\ ParentsInRange(entries, r) /\ entries[r].node \in DOMAIN input.made
         /\ its.parents = ParentNodes(entries, r) /\ \E text \in texts : its.text = text
  BY DEF verify_node
<1>5. RevisionFaults(entries, r) = {} <=>
         FirstOf(RefusedFlags, entries[r].flags) = {} /\ \E text \in texts : verify_node(entries, r, text)
  <2>1. RevisionFaults(entries, r) =
          OrElse(FirstOf(RefusedFlags, entries[r].flags),
                 IF \E text \in texts : verify_node(entries, r, text) THEN {} ELSE {"unreadable revision"})
    BY DEF RevisionFaults
  <2> DEFINE first == FirstOf(RefusedFlags, entries[r].flags)
             second == IF \E text \in texts : verify_node(entries, r, text) THEN {} ELSE {"unreadable revision"}
  <2>2. second = {} <=> \E text \in texts : verify_node(entries, r, text)
    BY Zenon
  <2>3. OrElse(first, second) = {} <=> first = {} /\ second = {}
    BY OrElseIs
  <2> QED
    BY <2>1, <2>2, <2>3, Zenon
<1>6. IsGenuine(entries, r) <=>
         /\ entries[r].flags \cap ToSet(RefusedFlags) = {} /\ entries[r].node \in DOMAIN input.made
         /\ ParentsInRange(entries, r) /\ its.parents = ParentNodes(entries, r) /\ texts = {its.text}
  BY DEF IsGenuine
<1> HIDE DEF texts, its, entries
<1> QED
  BY <1>2, <1>3, <1>4, <1>5, <1>6 DEF entries

\* The logs that are open are logs of the repository.
LEMMA LogsAre ==
    ASSUME input \in Sources, input.kind = "hg"
    PROVE  /\ Opened(input.changelog) => input.changelog # {} /\ IsRevlog(OneOf(input.changelog))
           /\ Opened(input.manifests) => IsRevlog(OneOf(input.manifests))
           /\ \A path : FilelogFaults(path) = {} => IsRevlog(input.filelogs[path])
           /\ input.defects \subseteq ToSet(HgDefects) /\ input.unreadable \subseteq ToSet(ViewFiles)
PROOF
<1>1. IsStore(input)
  BY SourceStores
<1>2. \A logs : Opened(logs) => logs # {} /\ OneOf(logs) \in logs
  BY DEF Opened, OneOf
<1>3. \A path : FilelogFaults(path) = {} => path \in DOMAIN input.filelogs
  BY DEF FilelogFaults
<1> QED
  BY <1>1, <1>2, <1>3 DEF IsStore

LEMMA LastIsIn ==
    ASSUME NEW log, IsRevlog(log), NEW S, S \subseteq DOMAIN log.entries, S # {}
    PROVE  Max(S) \in S /\ Min(S) \in S
PROOF
<1> DEFINE C == Cardinality(DOMAIN log.entries)
<1>1. C \in Nat /\ S \subseteq 0..(C - 1)
  BY FS_CardinalityType DEF IsRevlog
<1> HIDE DEF C
<1>2. S \subseteq Nat
  BY <1>1
<1> QED
  BY <1>1, <1>2, MaxIsIn, MinIsLeast

LEMMA ManifestFaultsAre ==
    ASSUME input \in Sources, input.kind = "hg", Opened(input.manifests), NEW node
    PROVE  ManifestFaults(node) = {} <=> ManifestIsSound(node)
PROOF
<1> DEFINE log == OneOf(input.manifests)
           revs == ManifestRevs(node)
           listed == ManifestLines(node)
<1>1. IsRevlog(log) /\ Manifests = log.entries
  BY LogsAre DEF Manifests
<1>2. LineFaults(listed) = {} <=> \A l \in listed : l.utf8 /\ l.mode # "unknown flag"
  <2> HIDE DEF listed
  <2>1. {l \in listed : ~l.utf8} = {} /\ {l \in listed : l.mode = "unknown flag"} = {}
          <=> \A l \in listed : l.utf8 /\ l.mode # "unknown flag"
    OBVIOUS
  <2>2. LineFaults(listed) = {} <=> {l \in listed : ~l.utf8} = {} /\ {l \in listed : l.mode = "unknown flag"} = {}
    BY Zenon DEF LineFaults
  <2> QED
    BY <2>1, <2>2, Zenon
<1>3. revs # {} => (RevisionFaults(Manifests, Max(revs)) = {} <=> IsGenuine(Manifests, Max(revs)))
  <2> SUFFICES ASSUME revs # {} PROVE RevisionFaults(Manifests, Max(revs)) = {} <=> IsGenuine(Manifests, Max(revs))
    OBVIOUS
  <2>1. revs \subseteq DOMAIN log.entries
    BY <1>1 DEF ManifestRevs
  <2> HIDE DEF log, revs
  <2>2. Max(revs) \in DOMAIN log.entries
    BY <1>1, <2>1, LastIsIn
  <2>3. RevisionFaults(log.entries, Max(revs)) = {} <=> IsGenuine(log.entries, Max(revs))
    BY <1>1, <2>2, RevisionFaultsAre
  <2> QED
    BY <1>1, <2>3, Zenon
<1>4. ManifestFaults(node) = (IF node = NullNode THEN {} ELSE IF revs = {} THEN {"unreadable manifest"}
                              ELSE OrElse(RevisionFaults(Manifests, Max(revs)), LineFaults(listed)))
  BY DEF ManifestFaults
<1>5. ManifestIsSound(node) <=>
        (node # NullNode => /\ revs # {} /\ IsGenuine(Manifests, Max(revs))
                            /\ \A l \in listed : l.utf8 /\ l.mode # "unknown flag")
  BY DEF ManifestIsSound
<1> DEFINE first == RevisionFaults(Manifests, Max(revs))
           second == LineFaults(listed)
<1>6. OrElse(first, second) = {} <=> first = {} /\ second = {}
  BY OrElseIs
<1> HIDE DEF log, revs, listed
<1> QED
  BY <1>2, <1>3, <1>4, <1>5, <1>6, Zenon

LEMMA FileFaultsAre ==
    ASSUME input \in Sources, input.kind = "hg", NEW path, NEW node
    PROVE  FileFaults(path, node) = {} <=> FileIsSound(path, node)
PROOF
<1> DEFINE log == input.filelogs[path]
           revs == FileRevs(path, node)
           opening == FilelogFaults(path)
           reading == RevisionFaults(Filelog(path), Min(revs))
           header == HeaderFault(FileText(path, node))
<1>1. FileFaults(path, node) =
        OrElse(opening, IF revs = {} THEN {"unreadable filelog"} ELSE OrElse(reading, header))
  BY DEF FileFaults
<1>2. FileIsSound(path, node) <=> opening = {} /\ revs # {} /\ IsGenuine(Filelog(path), Min(revs)) /\ header = {}
  BY DEF FileIsSound
<1>3. opening = {} /\ revs # {} => (reading = {} <=> IsGenuine(Filelog(path), Min(revs)))
  <2> SUFFICES ASSUME opening = {}, revs # {} PROVE reading = {} <=> IsGenuine(Filelog(path), Min(revs))
    OBVIOUS
  <2>1. IsRevlog(log) /\ Filelog(path) = log.entries
    BY LogsAre DEF Filelog
  <2>2. revs \subseteq DOMAIN log.entries
    BY <2>1 DEF FileRevs
  <2> HIDE DEF log, revs
  <2>3. Min(revs) \in DOMAIN log.entries
    BY <2>1, <2>2, LastIsIn
  <2>4. RevisionFaults(log.entries, Min(revs)) = {} <=> IsGenuine(log.entries, Min(revs))
    BY <2>1, <2>3, RevisionFaultsAre
  <2> QED
    BY <2>1, <2>4, Zenon
<1> HIDE DEF revs, opening, reading, header
<1> DEFINE rest == IF revs = {} THEN {"unreadable filelog"} ELSE OrElse(reading, header)
<1>4. rest = {} <=> revs # {} /\ reading = {} /\ header = {}
  <2>1. OrElse(reading, header) = {} <=> reading = {} /\ header = {}
    BY OrElseIs
  <2> QED
    BY <2>1, Zenon
<1>5. OrElse(opening, rest) = {} <=> opening = {} /\ rest = {}
  BY OrElseIs
<1> QED
  BY <1>1, <1>2, <1>3, <1>4, <1>5, Zenon

(* What refuses a changeset, when its first parent holds nothing unsound:  *)
(* the files that are not read are that parent's.                          *)
LEMMA ImportFaultsAre ==
    ASSUME input \in Sources, input.kind = "hg", Opened(input.changelog), Opened(input.manifests),
           NEW r \in DOMAIN Changelog, P1(r) # {} => HgChangesetIsSound(Changelog[r].p1)
    PROVE  ImportFaults(r, BaseOf(r), ManifestAt(r), StatedCopies(BaseOf(r), ManifestAt(r))) = {}
             <=> HgChangesetIsSound(r)
PROOF
<1> DEFINE base == BaseOf(r)
           child == ManifestAt(r)
           stated == StatedCopies(base, child)
           node == Changeset(r).manifest
           extras == Changeset(r).extras
           filesRead == UNION {FileFaults(p, child[p].node) : p \in ReadPaths(base, child)}
           subrepo == {<<".hgsub">>, <<".hgsubstate">>} \cap DOMAIN child # {}
           lost == \E c \in stated : c.rev # {} /\ FilelogFaults(c.from) # {}
           last == IF lost THEN {"unreadable filelog"} ELSE IF "raw key" \in extras THEN {"non-utf8-extra-key"} ELSE {}
           fourth == OrElse(filesRead, last)
           third == IF subrepo THEN {"subrepo"} ELSE fourth
           second == OrElse(ManifestFaults(node), third)
<1>1. ImportFaults(r, base, child, stated) = OrElse(ChangesetFaults(r), second)
  BY DEF ImportFaults
<1>2. ChangesetFaults(r) = {} <=> IsGenuine(Changelog, r) /\ "malformed" \notin extras
  <2>1. RevisionFaults(Changelog, r) = {} <=> IsGenuine(Changelog, r)
    <3>1. IsRevlog(OneOf(input.changelog)) /\ Changelog = OneOf(input.changelog).entries
      BY LogsAre DEF Changelog
    <3> QED
      BY <3>1, RevisionFaultsAre
  <2> DEFINE outside == RevisionFaults(Changelog, r)
             inside == IF "malformed" \in TextOf(Changelog, r)[1].extras THEN {"unreadable changeset"} ELSE {}
  <2>2. ChangesetFaults(r) = OrElse(outside, inside)
    BY DEF ChangesetFaults
  <2>3. OrElse(outside, inside) = {} <=> outside = {} /\ inside = {}
    BY OrElseIs
  <2>4. inside = {} <=> "malformed" \notin extras
    BY Zenon DEF Changeset
  <2> QED
    BY <2>1, <2>2, <2>3, <2>4, Zenon
<1>3. ManifestFaults(node) = {} <=> ManifestIsSound(node)
  BY ManifestFaultsAre
<1>4. filesRead = {} <=> \A p \in ReadPaths(base, child) : FileIsSound(p, child[p].node)
  <2>1. filesRead = {} <=> \A p \in ReadPaths(base, child) : FileFaults(p, child[p].node) = {}
    <3> HIDE DEF base, child
    <3> QED
      BY Zenon
  <2>2. \A p, n : FileFaults(p, n) = {} <=> FileIsSound(p, n)
    BY FileFaultsAre
  <2> HIDE DEF filesRead, base, child
  <2> QED
    BY <2>1, <2>2, Zenon
<1>5. \A p \in DOMAIN child \ ReadPaths(base, child) : FileIsSound(p, child[p].node)
  <2> SUFFICES ASSUME NEW p \in DOMAIN child \ ReadPaths(base, child) PROVE FileIsSound(p, child[p].node)
    OBVIOUS
  <2>1. p \in DOMAIN base /\ base[p] = child[p]
    BY DEF ReadPaths
  <2>2. P1(r) # {} /\ base = ManifestAt(Changelog[r].p1)
    <3>1. CASE P1(r) = {}
      <4>1. base = EmptyTree
        BY <3>1 DEF BaseOf
      <4>2. DOMAIN EmptyTree = {}
        BY DEF EmptyTree
      <4> HIDE DEF base
      <4> QED
        BY <2>1, <4>1, <4>2
    <3>2. CASE P1(r) # {}
      BY <3>2 DEF BaseOf
    <3> QED
      BY <3>1, <3>2
  <2>3. HgChangesetIsSound(Changelog[r].p1)
    BY <2>2
  <2>4. \A q \in DOMAIN ManifestAt(Changelog[r].p1) : FileIsSound(q, ManifestAt(Changelog[r].p1)[q].node)
    BY <2>3 DEF HgChangesetIsSound
  <2> HIDE DEF base, child
  <2> QED
    BY <2>1, <2>2, <2>4
<1>6. ReadPaths(base, child) \subseteq DOMAIN child
  BY DEF ReadPaths
<1>7. HgChangesetIsSound(r) <=>
        /\ IsGenuine(Changelog, r) /\ "malformed" \notin extras /\ "raw key" \notin extras
        /\ ManifestIsSound(node) /\ ~subrepo /\ ~lost
        /\ \A p \in DOMAIN child : FileIsSound(p, child[p].node)
  <2>1. CopiesStatedBy(r) = stated
    BY DEF CopiesStatedBy
  <2>2. ~subrepo <=> \A p \in DOMAIN child : p \notin {<<".hgsub">>, <<".hgsubstate">>}
    <3> HIDE DEF child
    <3> QED
      BY Zenon
  <2>3. extras \cap {"malformed", "raw key"} = {} <=> "malformed" \notin extras /\ "raw key" \notin extras
    <3> HIDE DEF extras
    <3> QED
      OBVIOUS
  <2>4. ~lost <=> \A c \in stated : c.rev # {} => FilelogFaults(c.from) = {}
    <3> HIDE DEF stated
    <3> QED
      BY Zenon
  <2>5. HgChangesetIsSound(r) <=>
          /\ IsGenuine(Changelog, r) /\ extras \cap {"malformed", "raw key"} = {} /\ ManifestIsSound(node)
          /\ \A p \in DOMAIN child : p \notin {<<".hgsub">>, <<".hgsubstate">>} /\ FileIsSound(p, child[p].node)
          /\ \A c \in stated : c.rev # {} => FilelogFaults(c.from) = {}
    BY <2>1, Zenon DEF HgChangesetIsSound
  <2> HIDE DEF stated, child, extras, node, lost, subrepo
  <2> QED
    BY <2>2, <2>3, <2>4, <2>5, Zenon
<1> HIDE DEF filesRead, subrepo, lost, base, child, stated, node, extras
<1>8. last = {} <=> ~lost /\ "raw key" \notin extras
  BY Zenon
<1>9. fourth = {} <=> filesRead = {} /\ last = {}
  <2> HIDE DEF last
  <2> QED
    BY OrElseIs, Zenon
<1> HIDE DEF last, fourth
<1>10. third = {} <=> ~subrepo /\ fourth = {}
  BY Zenon
<1> HIDE DEF third
<1>11. second = {} <=> ManifestFaults(node) = {} /\ third = {}
  BY OrElseIs, Zenon
<1> HIDE DEF second
<1>12. OrElse(ChangesetFaults(r), second) = {} <=> ChangesetFaults(r) = {} /\ second = {}
  BY OrElseIs, Zenon
<1>13. (\A p \in DOMAIN child : FileIsSound(p, child[p].node))
         <=> \A p \in ReadPaths(base, child) : FileIsSound(p, child[p].node)
  BY <1>5, <1>6
<1>14. ImportFaults(r, base, child, stated) = {} <=> HgChangesetIsSound(r)
  BY <1>1, <1>2, <1>3, <1>4, <1>7, <1>8, <1>9, <1>10, <1>11, <1>12, <1>13, Zenon
<1> QED
  BY <1>14 DEF base, child, stated

-----------------------------------------------------------------------------
(* The published view is never refused: it holds the parents of all that   *)
(* it holds, by what is proved of reachability in the module for the view. *)
View == INSTANCE HgPublishedProofs WITH
    Stores <- {}, Branches <- {}, store <- input, pc <- stage, rev <- hgNext, phase <- <<>>,
    visible <- {}, served <- hgServed, counts <- hgTally, parents <- [r \in hgServed |-> {}],
    tips <- <<>>, why <- failure

LEMMA StoreIsOrdered ==
    ASSUME input \in Sources, input.kind = "hg", input.changelog # {}
    PROVE  Store.n \in Nat /\ View!Revs(Store) = DOMAIN Changelog /\ View!Ordered(Store)
PROOF
<1> DEFINE C == Cardinality(DOMAIN Changelog)
<1>1. C \in Nat /\ DOMAIN Changelog = 0..(C - 1)
  BY ChangelogIs
<1>2. Store.n = C /\ View!Revs(Store) = DOMAIN Changelog
  BY <1>1 DEF Store, View!Revs
<1>3. \A r \in DOMAIN Changelog : \A p \in View!ParentRevs(Store, r) : p \in 0..(r - 1)
  <2> SUFFICES ASSUME NEW r \in DOMAIN Changelog, NEW p \in View!ParentRevs(Store, r) PROVE p \in 0..(r - 1)
    OBVIOUS
  <2>1. p \in {Changelog[r].p1, Changelog[r].p2} /\ p # -1
    BY DEF View!ParentRevs, View!NULL_REV, Store
  <2>2. Changelog[r].p1 \in -1..(r - 1) /\ Changelog[r].p2 \in -1..(r - 1) /\ r \in Nat
    BY <1>1, ChangelogIs
  <2> QED
    BY <2>1, <2>2
<1> QED
  BY <1>1, <1>2, <1>3 DEF View!Ordered

LEMMA ViewIsClosed ==
    ASSUME input \in Sources, input.kind = "hg", input.changelog # {}
    PROVE  Published!IsClosed(Store, PublishedRevs)
PROOF
<1>1. Store.n \in Nat /\ View!Revs(Store) = DOMAIN Changelog /\ View!Ordered(Store)
  BY StoreIsOrdered
<1>2. Store.precursors \subseteq View!Revs(Store) /\ Store.otherPins \subseteq View!Revs(Store)
  BY <1>1 DEF Store, RevsOf
<1>3. View!IsClosed(Store, View!ServedRef(Store))
  BY <1>1, <1>2, View!ReferenceIsClosed
<1>4. View!ServedRef(Store) = PublishedRevs
  BY <1>1 DEF PublishedRevs, PublishedIn, View!ServedRef,
     View!SecretRef, View!ObsoleteRef, View!VisibleRef, View!AncestorsOf, View!Revs, View!KnownParents,
     View!ParentRevs, View!NULL_REV, View!NOT_PUBLISHED_FLOOR,
     Published!SecretRef, Published!ObsoleteRef, Published!VisibleRef, Published!AncestorsOf, Published!Revs,
     Published!KnownParents, Published!ParentRevs, Published!NULL_REV, Published!NOT_PUBLISHED_FLOOR
<1> QED
  BY <1>3, <1>4 DEF View!IsClosed, View!ParentRevs, View!NULL_REV,
     Published!IsClosed, Published!ParentRevs, Published!NULL_REV

\* What the store is found to be when it is opened, and when the view is read.
HgGateIsPassed ==
    /\ input.defects = {}
    /\ "fncache" \in ToSet(input.requires) /\ ToSet(input.requires) \subseteq Supported
    /\ Opened(input.changelog) /\ Opened(input.manifests)

HgViewIsRead ==
    DOMAIN Changelog # {} =>
        /\ ~input.merging /\ input.unreadable = {}
        /\ \A root \in input.phaseroots : root.phase \in KnownPhases

BookmarksAreApart ==
    LET carried == {n \in DOMAIN input.bookmarks : RevsOf({input.bookmarks[n].node}) \cap PublishedRevs # {}}
    IN  \A n, k \in carried : input.bookmarks[n].name = input.bookmarks[k].name => n = k

HgPartsAreSound ==
    /\ HgGateIsPassed /\ HgViewIsRead
    /\ DOMAIN Changelog # {} => (\A r \in PublishedRevs : HgChangesetIsSound(r)) /\ BookmarksAreApart

LEMMA HgIsSoundWhen == HgIsSound <=> HgPartsAreSound
PROOF
<1> DEFINE Apart(carried) == \A n, k \in carried : input.bookmarks[n].name = input.bookmarks[k].name => n = k
           carried == {n \in DOMAIN input.bookmarks : RevsOf({input.bookmarks[n].node}) \cap PublishedRevs # {}}
<1>1. BookmarksAreApart <=> Apart(carried)
  BY Zenon DEF BookmarksAreApart
<1>2. HgIsSound <=>
        /\ HgGateIsPassed
        /\ DOMAIN Changelog # {} =>
              /\ ~input.merging /\ input.unreadable = {}
              /\ \A root \in input.phaseroots : root.phase \in KnownPhases
              /\ \A r \in PublishedRevs : HgChangesetIsSound(r)
              /\ Apart(carried)
  BY Zenon DEF HgIsSound, HgGateIsPassed
<1> HIDE DEF Apart, carried
<1> QED
  BY <1>1, <1>2, Zenon DEF HgPartsAreSound, HgViewIsRead

LEMMA RequirementFaultsAre ==
    ASSUME NEW reqs
    PROVE  RequirementFaults(reqs) = {} <=> "fncache" \in ToSet(reqs) /\ ToSet(reqs) \subseteq Supported
PROOF
<1> DEFINE strange == {n \in DOMAIN reqs : reqs[n] \notin Supported}
           named == {IF q \in HgFloor THEN q ELSE "unknown requirement" : q \in {reqs[Min(strange)]}}
<1>1. strange = {} <=> ToSet(reqs) \subseteq Supported
  <2> HIDE DEF Supported
  <2> QED
    BY DEF ToSet
<1>2. RequirementFaults(reqs) =
        IF strange # {} THEN named ELSE IF "fncache" \in ToSet(reqs) THEN {} ELSE {"store-without-fncache"}
  BY DEF RequirementFaults
<1>3. named # {}
  OBVIOUS
<1> HIDE DEF named, strange
<1> QED
  BY <1>1, <1>2, <1>3, Zenon

LEMMA OpeningFaultsAre ==
    ASSUME input \in Sources, input.kind = "hg"
    PROVE  OrElse(FirstOf(HgDefects, input.defects), OrElse(RequirementFaults(input.requires),
               IF ~Opened(input.changelog) THEN {"unreadable changelog"}
               ELSE IF ~Opened(input.manifests) THEN {"unreadable manifest"} ELSE {})) = {}
             <=> HgGateIsPassed
PROOF
<1> DEFINE last == IF ~Opened(input.changelog) THEN {"unreadable changelog"}
                   ELSE IF ~Opened(input.manifests) THEN {"unreadable manifest"} ELSE {}
           first == FirstOf(HgDefects, input.defects)
           second == RequirementFaults(input.requires)
<1>1. last = {} <=> Opened(input.changelog) /\ Opened(input.manifests)
  BY Zenon
<1>2. first = {} <=> input.defects = {}
  <2>1. input.defects \cap ToSet(HgDefects) = input.defects
    BY LogsAre
  <2> QED
    BY <2>1, NamesAre
<1>3. second = {} <=> "fncache" \in ToSet(input.requires) /\ ToSet(input.requires) \subseteq Supported
  BY RequirementFaultsAre
<1> HIDE DEF last, first, second
<1>4. OrElse(first, OrElse(second, last)) = {} <=> first = {} /\ second = {} /\ last = {}
  <2> DEFINE rest == OrElse(second, last)
  <2>1. rest = {} <=> second = {} /\ last = {}
    BY OrElseIs, Zenon
  <2> HIDE DEF rest
  <2>2. OrElse(first, rest) = {} <=> first = {} /\ rest = {}
    BY OrElseIs, Zenon
  <2> QED
    BY <2>1, <2>2, Zenon DEF rest
<1>5. OrElse(first, OrElse(second, last)) = {} <=> HgGateIsPassed
  BY <1>1, <1>2, <1>3, <1>4, Zenon DEF HgGateIsPassed
<1> QED
  BY <1>5 DEF last, first, second

LEMMA ViewFaultsAre ==
    ASSUME input \in Sources, input.kind = "hg", input.changelog # {}
    PROVE  ViewFaults(PublishedRevs) = {} <=> HgViewIsRead
PROOF
<1> DEFINE unknown == {"phaseroots" : x \in {y \in input.phaseroots : y.phase \notin KnownPhases}}
           first == FirstOf(ViewFiles, input.unreadable \cup unknown)
           second == IF Published!IsClosed(Store, PublishedRevs) THEN {} ELSE {"not closed under ancestry"}
<1>1. ViewFaults(PublishedRevs) =
        IF DOMAIN Changelog = {} THEN {} ELSE IF input.merging THEN {"unfinished-merge"} ELSE OrElse(first, second)
  BY DEF ViewFaults
<1>2. second = {}
  BY ViewIsClosed
<1>3. first = {} <=> input.unreadable = {} /\ unknown = {}
  <2>1. unknown \subseteq ToSet(ViewFiles)
    <3>1. "phaseroots" \in ToSet(ViewFiles)
      <4>1. 1 \in DOMAIN ViewFiles /\ ViewFiles[1] = "phaseroots"
        BY DEF ViewFiles
      <4> QED
        BY <4>1 DEF ToSet
    <3> QED
      BY <3>1
  <2>2. input.unreadable \subseteq ToSet(ViewFiles)
    BY LogsAre
  <2> HIDE DEF unknown
  <2>3. (input.unreadable \cup unknown) \cap ToSet(ViewFiles) = input.unreadable \cup unknown
    BY <2>1, <2>2
  <2>4. first = {} <=> input.unreadable \cup unknown = {}
    BY <2>3, NamesAre
  <2> QED
    BY <2>4
<1>4. unknown = {} <=> \A root \in input.phaseroots : root.phase \in KnownPhases
  <2> HIDE DEF KnownPhases
  <2> QED
    OBVIOUS
<1> HIDE DEF first, second, unknown
<1>5. OrElse(first, second) = {} <=> first = {} /\ second = {}
  BY OrElseIs
<1> QED
  BY <1>1, <1>2, <1>3, <1>4, <1>5, Zenon DEF HgViewIsRead

(* What is asked of the repository changes only with it.                   *)
LEMMA HgSoundnessStays ==
    ASSUME input' = input
    PROVE  /\ HgIsSound' <=> HgIsSound
           /\ HgGateIsPassed' <=> HgGateIsPassed
           /\ HgViewIsRead' <=> HgViewIsRead
           /\ BookmarksAreApart' <=> BookmarksAreApart
           /\ \A r : HgChangesetIsSound(r)' <=> HgChangesetIsSound(r)
           /\ (DOMAIN Changelog)' = DOMAIN Changelog
PROOF
<1>1. Changelog' = Changelog /\ Manifests' = Manifests /\ PublishedRevs' = PublishedRevs
  BY ManifestsStay DEF Manifests
<1>2. \A log, r : IsGenuine(log, r)' <=> IsGenuine(log, r)
  BY DEF IsGenuine, ParentsInRange, ParentNodes
<1>3. \A r : /\ ManifestAt(r)' = ManifestAt(r) /\ BaseOf(r)' = BaseOf(r) /\ Changeset(r)' = Changeset(r)
             /\ (IsGenuine(Changelog, r)' <=> IsGenuine(Changelog, r))
             /\ (IsGenuine(Manifests, r)' <=> IsGenuine(Manifests, r))
  <2>1. \A r : ManifestAt(r)' = ManifestAt(r) /\ BaseOf(r)' = BaseOf(r) /\ Changeset(r)' = Changeset(r)
    BY <1>1, ManifestsStay DEF Changeset
  <2>2. \A r : (IsGenuine(Changelog, r)' <=> IsGenuine(Changelog, r))
               /\ (IsGenuine(Manifests, r)' <=> IsGenuine(Manifests, r))
    BY <1>1 DEF IsGenuine, ParentsInRange, ParentNodes
  <2> QED
    BY <2>1, <2>2
<1>4. \A path : FilelogFaults(path)' = FilelogFaults(path) /\ Filelog(path)' = Filelog(path)
  BY DEF FilelogFaults, Filelog
<1>5. \A path, node : /\ FileRevs(path, node)' = FileRevs(path, node)
                      /\ FileText(path, node)' = FileText(path, node)
                      /\ FileRevision(path, node)' = FileRevision(path, node)
  BY <1>4 DEF FileRevs, FileText, FileRevision
<1>6. \A path, node : FileIsSound(path, node)' <=> FileIsSound(path, node)
  <2>1. \A path, r : IsGenuine(Filelog(path), r)' <=> IsGenuine(Filelog(path), r)
    BY <1>4 DEF IsGenuine, ParentsInRange, ParentNodes
  <2> QED
    BY <1>4, <1>5, <2>1 DEF FileIsSound
<1>7. \A node : ManifestIsSound(node)' <=> ManifestIsSound(node)
  BY <1>1, <1>3 DEF ManifestIsSound, ManifestRevs, ManifestLines
<1>8. \A r : CopiesStatedBy(r)' = CopiesStatedBy(r)
  BY <1>3, <1>5 DEF CopiesStatedBy, StatedCopies
<1>9. \A r : HgChangesetIsSound(r)' <=> HgChangesetIsSound(r)
  BY <1>3, <1>4, <1>6, <1>7, <1>8 DEF HgChangesetIsSound
<1>10. (HgGateIsPassed' <=> HgGateIsPassed) /\ (HgViewIsRead' <=> HgViewIsRead)
       /\ (BookmarksAreApart' <=> BookmarksAreApart)
  BY <1>1 DEF HgGateIsPassed, HgViewIsRead, BookmarksAreApart, RevsOf
<1>11. HgIsSound' <=> HgIsSound
  <2>1. (HgIsSound <=> HgPartsAreSound)'
    BY HgIsSoundWhen, PTL
  <2>2. HgPartsAreSound' <=> HgPartsAreSound
    BY <1>1, <1>9, <1>10 DEF HgPartsAreSound
  <2> QED
    BY <2>1, <2>2, HgIsSoundWhen
<1> QED
  BY <1>1, <1>9, <1>10, <1>11

-----------------------------------------------------------------------------
(* What has been found sound so far; and what is refused is not.           *)
HgRefusalInv ==
    /\ (stage \in {"hg view", "hg import"} \/ OfHg) => HgGateIsPassed
    /\ (stage = "hg import" \/ OfHg) => HgViewIsRead /\ \A r \in Passed : HgChangesetIsSound(r)
    /\ OfHg => (DOMAIN Changelog # {} => BookmarksAreApart)
    /\ (stage = "failed" /\ input.kind = "hg") => ~HgIsSound

LEMMA HgOpenRefuses == KindInv /\ HgRefusalInv /\ OpenHg => HgRefusalInv'
PROOF
<1> SUFFICES ASSUME KindInv, HgRefusalInv, OpenHg PROVE HgRefusalInv'
  OBVIOUS
<1> DEFINE faults == OrElse(FirstOf(HgDefects, input.defects), OrElse(RequirementFaults(input.requires),
                         IF ~Opened(input.changelog) THEN {"unreadable changelog"}
                         ELSE IF ~Opened(input.manifests) THEN {"unreadable manifest"} ELSE {}))
<1>1. stage = "hg open" /\ input' = input
      /\ ((\E fault \in faults : Fail(fault)) \/ (faults = {} /\ stage' = "hg view"))
  BY DEF OpenHg, Goto, Fail
<1>2. input \in Sources /\ input.kind = "hg"
  BY <1>1 DEF KindInv, HgStages
<1>3. faults = {} <=> HgGateIsPassed
  BY <1>2, OpeningFaultsAre
<1> HIDE DEF faults
<1>4. (HgIsSound' <=> HgIsSound) /\ (HgGateIsPassed' <=> HgGateIsPassed)
  BY <1>1, HgSoundnessStays
<1>5. HgIsSound => HgGateIsPassed
  BY HgIsSoundWhen DEF HgPartsAreSound
<1>6. CASE \E fault \in faults : Fail(fault)
  <2>1. stage' = "failed" /\ ~HgIsSound'
    BY <1>3, <1>4, <1>5, <1>6 DEF Fail
  <2> QED
    BY <2>1 DEF HgRefusalInv, OfHg
<1>7. CASE faults = {} /\ stage' = "hg view"
  BY <1>3, <1>4, <1>7 DEF HgRefusalInv, OfHg
<1> QED
  BY <1>1, <1>6, <1>7

LEMMA NonePassed ==
    ASSUME input \in Sources, input.kind = "hg", input.changelog # {},
           hgServed' \subseteq DOMAIN Changelog, hgNext' = 0
    PROVE  Passed' = {}
PROOF
<1> DEFINE C == Cardinality(DOMAIN Changelog)
<1>1. DOMAIN Changelog = 0..(C - 1) /\ C \in Nat
  BY ChangelogIs
<1> HIDE DEF C
<1>2. \A r \in DOMAIN Changelog : r \in Nat
  BY <1>1
<1>3. \A r \in hgServed' : ~(r < hgNext')
  BY <1>2
<1> QED
  BY <1>3 DEF Passed

LEMMA OnePassedMore ==
    ASSUME input \in Sources, input.kind = "hg", input.changelog # {},
           hgServed \subseteq DOMAIN Changelog, hgServed' = hgServed,
           hgNext \in DOMAIN Changelog, hgNext' = hgNext + 1
    PROVE  \A r \in Passed' : r \in Passed \/ (r = hgNext /\ r \in hgServed)
PROOF
<1> DEFINE C == Cardinality(DOMAIN Changelog)
<1>1. DOMAIN Changelog = 0..(C - 1) /\ C \in Nat
  BY ChangelogIs
<1> HIDE DEF C
<1>2. \A r \in hgServed : r \in Nat /\ (r < hgNext + 1 <=> (r < hgNext \/ r = hgNext))
  BY <1>1, WithinBounds
<1> QED
  BY <1>2 DEF Passed

LEMMA ViewRefuses == KindInv /\ HgExactInv /\ HgRefusalInv /\ ComputeView => HgRefusalInv'
PROOF
<1> SUFFICES ASSUME KindInv, HgExactInv, HgRefusalInv, ComputeView PROVE HgRefusalInv'
  OBVIOUS
<1>1. stage = "hg view" /\ input' = input
      /\ \/ \E fault \in ViewFaults(PublishedRevs) : Fail(fault)
         \/ /\ ViewFaults(PublishedRevs) = {} /\ stage' = "hg import"
            /\ hgServed' = PublishedRevs /\ hgNext' = hgNext
  BY DEF ComputeView, PublishedRevs, Goto, Fail
<1>2. input \in Sources /\ input.kind = "hg" /\ input.changelog # {} /\ hgNext = 0 /\ HgGateIsPassed
  BY <1>1 DEF KindInv, HgStages, HgExactInv, HgRefusalInv
<1>3. ViewFaults(PublishedRevs) = {} <=> HgViewIsRead
  BY <1>2, ViewFaultsAre
<1>4. (HgIsSound' <=> HgIsSound) /\ (HgGateIsPassed' <=> HgGateIsPassed) /\ (HgViewIsRead' <=> HgViewIsRead)
  BY <1>1, HgSoundnessStays
<1>5. HgIsSound => HgViewIsRead
  BY HgIsSoundWhen DEF HgPartsAreSound
<1>6. CASE \E fault \in ViewFaults(PublishedRevs) : Fail(fault)
  <2>1. stage' = "failed" /\ ~HgIsSound'
    BY <1>3, <1>4, <1>5, <1>6 DEF Fail
  <2> QED
    BY <2>1 DEF HgRefusalInv, OfHg
<1>7. CASE /\ ViewFaults(PublishedRevs) = {} /\ stage' = "hg import"
           /\ hgServed' = PublishedRevs /\ hgNext' = hgNext
  <2>1. Passed' = {}
    <3>1. hgServed' \subseteq DOMAIN Changelog
      BY <1>7 DEF PublishedRevs, PublishedIn
    <3> QED
      BY <1>2, <1>7, <3>1, NonePassed
  <2>2. HgGateIsPassed' /\ HgViewIsRead'
    BY <1>2, <1>3, <1>4, <1>7
  <2> QED
    BY <1>7, <2>1, <2>2 DEF HgRefusalInv, OfHg
<1> QED
  BY <1>1, <1>6, <1>7

LEMMA SkipRefuses == KindInv /\ HgExactInv /\ HgRefusalInv /\ SkipChangeset => HgRefusalInv'
PROOF
<1> SUFFICES ASSUME KindInv, HgExactInv, HgRefusalInv, SkipChangeset PROVE HgRefusalInv'
  OBVIOUS
<1>1. /\ stage = "hg import" /\ stage' = "hg import" /\ input' = input /\ hgServed' = hgServed
      /\ hgNext \in DOMAIN Changelog /\ hgNext \notin hgServed /\ hgNext' = hgNext + 1
  BY DEF SkipChangeset, Goto
<1>2. /\ input \in Sources /\ input.kind = "hg" /\ input.changelog # {}
      /\ hgServed \subseteq DOMAIN Changelog
  BY <1>1 DEF KindInv, HgStages, HgExactInv, PublishedRevs, PublishedIn
<1>3. \A r \in Passed' : r \in Passed
  BY <1>1, <1>2, OnePassedMore
<1>4. /\ (HgGateIsPassed' <=> HgGateIsPassed) /\ (HgViewIsRead' <=> HgViewIsRead)
      /\ \A r : HgChangesetIsSound(r)' <=> HgChangesetIsSound(r)
  BY <1>1, HgSoundnessStays
<1> QED
  BY <1>1, <1>3, <1>4 DEF HgRefusalInv, OfHg

LEMMA ChangesetRefuses == KindInv /\ HgExactInv /\ HgRefusalInv /\ ImportChangeset => HgRefusalInv'
PROOF
<1> SUFFICES ASSUME KindInv, HgExactInv, HgRefusalInv, ImportChangeset PROVE HgRefusalInv'
  OBVIOUS
<1> DEFINE faults == ImportFaults(hgNext, BaseOf(hgNext), ManifestAt(hgNext),
                                  StatedCopies(BaseOf(hgNext), ManifestAt(hgNext)))
<1>1. /\ stage = "hg import" /\ input' = input /\ hgServed' = hgServed
      /\ hgNext \in DOMAIN Changelog /\ hgNext \in hgServed
      /\ \/ \E fault \in faults : Fail(fault)
         \/ faults = {} /\ stage' = "hg import" /\ hgNext' = hgNext + 1
  BY DEF ImportChangeset, ImportOver, Goto, Fail
<1>2. /\ input \in Sources /\ input.kind = "hg" /\ input.changelog # {}
      /\ hgServed = PublishedRevs /\ Published!IsClosed(Store, hgServed)
      /\ hgServed \subseteq DOMAIN Changelog
      /\ HgGateIsPassed /\ HgViewIsRead /\ \A r \in Passed : HgChangesetIsSound(r)
  BY <1>1 DEF KindInv, HgStages, HgExactInv, HgRefusalInv, PublishedRevs, PublishedIn
<1>3. P1(hgNext) # {} => HgChangesetIsSound(Changelog[hgNext].p1)
  <2> SUFFICES ASSUME P1(hgNext) # {} PROVE Changelog[hgNext].p1 \in Passed
    BY <1>2
  <2>1. Changelog[hgNext].p1 # -1 /\ Changelog[hgNext].p1 \in -1..(hgNext - 1)
    BY <1>1, <1>2, ChangelogIs DEF P1, NULL_REV
  <2>2. Changelog[hgNext].p1 \in hgServed
    BY <1>1, <1>2, <2>1 DEF Published!IsClosed, Published!ParentRevs, Published!NULL_REV, Store
  <2>3. hgNext \in Int
    <3> DEFINE C == Cardinality(DOMAIN Changelog)
    <3>1. DOMAIN Changelog = 0..(C - 1) /\ C \in Nat
      BY <1>2, ChangelogIs
    <3> HIDE DEF C
    <3>2. hgNext \in 0..(C - 1)
      BY <1>1, <3>1, Zenon
    <3> QED
      BY <3>1, <3>2
  <2>4. \A p \in -1..(hgNext - 1) : p < hgNext
    BY <2>3
  <2> QED
    BY <2>1, <2>2, <2>4 DEF Passed
<1>4. faults = {} <=> HgChangesetIsSound(hgNext)
  BY <1>1, <1>2, <1>3, ImportFaultsAre DEF HgGateIsPassed
<1> HIDE DEF faults
<1>5. /\ (HgIsSound' <=> HgIsSound) /\ (HgGateIsPassed' <=> HgGateIsPassed) /\ (HgViewIsRead' <=> HgViewIsRead)
      /\ \A r : HgChangesetIsSound(r)' <=> HgChangesetIsSound(r)
  BY <1>1, HgSoundnessStays
<1>6. HgIsSound => HgChangesetIsSound(hgNext)
  BY <1>1, <1>2, HgIsSoundWhen DEF HgPartsAreSound
<1>7. CASE \E fault \in faults : Fail(fault)
  <2>1. stage' = "failed" /\ ~HgIsSound'
    BY <1>4, <1>5, <1>6, <1>7 DEF Fail
  <2> QED
    BY <2>1 DEF HgRefusalInv, OfHg
<1>8. CASE faults = {} /\ stage' = "hg import" /\ hgNext' = hgNext + 1
  <2>1. \A r \in Passed' : r \in Passed \/ r = hgNext
    BY <1>1, <1>2, <1>8, OnePassedMore
  <2>2. \A r \in Passed' : HgChangesetIsSound(r)'
    BY <1>2, <1>4, <1>5, <1>8, <2>1
  <2> QED
    BY <1>2, <1>5, <1>8, <2>2 DEF HgRefusalInv, OfHg
<1> QED
  BY <1>1, <1>7, <1>8

\* The bookmarks that are carried are the ones on published changesets.
LEMMA CarriedAre ==
    ASSUME input \in Sources, input.kind = "hg", input.changelog # {}, ChangesetsRight, Passed = PublishedRevs
    PROVE  CarriedBookmarks =
             {n \in DOMAIN input.bookmarks : RevsOf({input.bookmarks[n].node}) \cap PublishedRevs # {}}
PROOF
<1> DEFINE atoms == builder.atoms
           N == Len(atoms)
<1>1. DOMAIN atoms = 1..N
  <2> DEFINE X == ToSet(atoms)
  <2>1. atoms \in Seq(X)
    BY DEF ChangesetsRight
  <2> HIDE DEF atoms, X
  <2> QED
    BY <2>1
<1>2. /\ {RevNamed(atoms[n].source) : n \in 1..N} = PublishedRevs
      /\ \A n \in 1..N : Changelog[RevNamed(atoms[n].source)].node = atoms[n].source
  BY DEF ChangesetsRight, IsOfChangeset
<1>3. PublishedRevs \subseteq DOMAIN Changelog
  BY DEF PublishedRevs, PublishedIn
<1> HIDE DEF N
<1>4. ASSUME NEW node PROVE HasAtom(node) <=> RevsOf({node}) \cap PublishedRevs # {}
  <2>1. HasAtom(node) <=> \E n \in 1..N : atoms[n].source = node
    BY <1>1 DEF HasAtom
  <2>2. RevsOf({node}) \cap PublishedRevs # {} <=> \E r \in PublishedRevs : Changelog[r].node = node
    BY <1>3 DEF RevsOf
  <2> HIDE DEF atoms
  <2>3. (\E n \in 1..N : atoms[n].source = node) <=> \E r \in PublishedRevs : Changelog[r].node = node
    BY <1>2
  <2> QED
    BY <2>1, <2>2, <2>3
<1> QED
  BY <1>4 DEF CarriedBookmarks

LEMMA HgRefsAreApart ==
    ASSUME \A n, k \in CarriedBookmarks : input.bookmarks[n].name = input.bookmarks[k].name => n = k
    PROVE  OneRefPerKey(HgRefs)
PROOF
<1> DEFINE marks == {input.bookmarks[n] : n \in CarriedBookmarks}
           branches == {Changeset(r).branch : r \in hgServed}
           MarkRef(b) == Ref("Bookmark", b.name, AtomNamed(b.node), AsStated, <<>>)
           BranchRef(b) == Ref("NamedBranch", b, AtomOf(Published!BranchTip(BranchedStore, b)), AsStated, <<>>)
<1>1. HgRefs = {MarkRef(b) : b \in marks} \cup {BranchRef(b) : b \in branches}
  BY DEF HgRefs
<1>2. \A b, c \in marks : b.name = c.name => b = c
  OBVIOUS
<1>3. \A b : MarkRef(b).kind = "Bookmark" /\ MarkRef(b).name = b.name
             /\ BranchRef(b).kind = "NamedBranch" /\ BranchRef(b).name = b
  BY DEF Ref
<1> HIDE DEF marks, branches, MarkRef, BranchRef
<1>4. ASSUME NEW rf \in HgRefs, NEW sf \in HgRefs, rf.kind = sf.kind, rf.name = sf.name PROVE rf = sf
  BY <1>1, <1>2, <1>3, <1>4
<1> QED
  BY <1>4 DEF OneRefPerKey, RefKey

LEMMA HgFinishRefuses == KindInv /\ HgExactInv /\ HgRefusalInv /\ FinishHg => HgRefusalInv'
PROOF
<1> SUFFICES ASSUME KindInv, HgExactInv, HgRefusalInv, FinishHg PROVE HgRefusalInv'
  OBVIOUS
<1> DEFINE C == Cardinality(DOMAIN Changelog)
           apart == \A n, k \in CarriedBookmarks : input.bookmarks[n].name = input.bookmarks[k].name => n = k
<1>1. /\ stage = "hg import" /\ input' = input /\ hgNext \notin DOMAIN Changelog
      /\ hgNext' = hgNext /\ hgServed' = hgServed
      /\ IF apart THEN Finish(HgRefs, HgLoss, {}) ELSE Fail("two refs of one kind and name")
  BY DEF FinishHg, Finish, Fail, Goto, hgVars
<1>2. apart => stage' = "done"
  BY <1>1, HgRefsAreApart DEF Finish, Goto
<1>3. ~apart => stage' = "failed"
  BY <1>1 DEF Fail
<1>4. /\ input \in Sources /\ input.kind = "hg" /\ input.changelog # {}
      /\ hgServed = PublishedRevs /\ ChangesetsRight /\ hgNext \in 0..C
      /\ HgGateIsPassed /\ HgViewIsRead /\ \A r \in Passed : HgChangesetIsSound(r)
  BY <1>1 DEF KindInv, HgExactInv, HgStages, HgRefusalInv
<1>5. C \in Nat /\ DOMAIN Changelog = 0..(C - 1) /\ PublishedRevs \subseteq DOMAIN Changelog
  BY <1>4, ChangelogIs DEF PublishedRevs, PublishedIn
<1> HIDE DEF C
<1>6. Passed = PublishedRevs
  <2>1. hgNext = C
    <3>1. hgNext \in 0..C /\ hgNext \notin 0..(C - 1)
      BY <1>1, <1>4, <1>5
    <3> QED
      BY <1>5, <3>1
  <2>2. \A r \in DOMAIN Changelog : r < C
    BY <1>5
  <2> QED
    BY <1>4, <1>5, <2>1, <2>2 DEF Passed
<1>7. apart <=> BookmarksAreApart
  <2> DEFINE Apart(marks) == \A n, k \in marks : input.bookmarks[n].name = input.bookmarks[k].name => n = k
             marks == {n \in DOMAIN input.bookmarks : RevsOf({input.bookmarks[n].node}) \cap PublishedRevs # {}}
  <2>1. BookmarksAreApart <=> Apart(marks)
    BY Zenon DEF BookmarksAreApart
  <2>2. CarriedBookmarks = marks
    BY <1>4, <1>6, CarriedAre
  <2>3. apart <=> Apart(CarriedBookmarks)
    OBVIOUS
  <2> HIDE DEF Apart, marks, apart
  <2> QED
    BY <2>1, <2>2, <2>3
<1> HIDE DEF apart
<1>8. /\ (HgIsSound' <=> HgIsSound) /\ (HgGateIsPassed' <=> HgGateIsPassed) /\ (HgViewIsRead' <=> HgViewIsRead)
      /\ (BookmarksAreApart' <=> BookmarksAreApart) /\ (DOMAIN Changelog)' = DOMAIN Changelog
      /\ \A r : HgChangesetIsSound(r)' <=> HgChangesetIsSound(r)
  BY <1>1, HgSoundnessStays
<1>9. Passed' = Passed
  BY <1>1 DEF Passed
<1>10. CASE apart
  BY <1>2, <1>4, <1>7, <1>8, <1>9, <1>10 DEF HgRefusalInv
<1>11. CASE ~apart
  <2>1. DOMAIN Changelog # {}
    <3> SUFFICES ASSUME DOMAIN Changelog = {} PROVE apart
      BY <1>11
    <3>1. PublishedRevs = {}
      BY <1>5
    <3> QED
      BY <1>7, <3>1 DEF BookmarksAreApart
  <2>2. ~HgIsSound
    BY <1>7, <1>11, <2>1, HgIsSoundWhen DEF HgPartsAreSound
  <2> QED
    BY <1>3, <1>8, <1>11, <2>2 DEF HgRefusalInv, OfHg
<1> QED
  BY <1>10, <1>11

LEMMA HgRefusalInvHolds == Spec => []HgRefusalInv
PROOF
<1>1. Init => HgRefusalInv
  <2> SUFFICES ASSUME Init PROVE HgRefusalInv
    OBVIOUS
  <2>1. PICK source \in Sources : DecodingInit(source, Begin(source.kind))
    BY DEF Init
  <2>2. source.kind \in {"git", "hg", "svn", "cvs", "artifact"}
    BY SourceKinds
  <2>3. stage \notin {"hg view", "hg import", "done", "failed"}
    BY <2>1, <2>2 DEF DecodingInit, Begin
  <2> QED
    BY <2>3 DEF HgRefusalInv, OfHg
<1>2. KindInv /\ HgExactInv /\ HgRefusalInv /\ [Next]_vars => HgRefusalInv'
  <2> SUFFICES ASSUME KindInv, HgExactInv, HgRefusalInv, [Next]_vars PROVE HgRefusalInv'
    OBVIOUS
  <2>1. CASE HgNext
    BY <2>1, HgOpenRefuses, ViewRefuses, SkipRefuses, ChangesetRefuses, HgFinishRefuses DEF HgNext
  <2>2. CASE GitNext \/ SvnStep \/ CvsNext \/ VerifyNext
    <3>1. stage' \notin HgStages /\ ~OfHg' /\ ~(stage' = "failed" /\ input'.kind = "hg")
      BY <2>2, GitStays, SvnStays, CvsStays, VerifyStays
      DEF KindInv, OfHg, Stays, GitStages, HgStages, SvnStages, CvsStages, VerifyStages, Ends
    <3> QED
      BY <3>1 DEF HgRefusalInv, HgStages
  <2>3. CASE Reader \/ Thread \/ Child
    <3>1. stage' \notin HgStages \cup {"done", "failed"}
      BY <2>3 DEF Reader, Thread, Child, DecoderReads, ThreadRuns, ChildRuns, During, decoding, HgStages
    <3> QED
      BY <3>1 DEF HgRefusalInv, OfHg, HgStages
  <2>4. CASE UNCHANGED vars
    <3>1. UNCHANGED <<input, stage, hgServed, hgNext>>
      BY <2>4 DEF vars, decoding, hgVars
    <3>2. Passed' = Passed
      BY <3>1 DEF Passed
    <3>3. /\ (HgIsSound' <=> HgIsSound) /\ (HgGateIsPassed' <=> HgGateIsPassed) /\ (HgViewIsRead' <=> HgViewIsRead)
          /\ (BookmarksAreApart' <=> BookmarksAreApart) /\ (DOMAIN Changelog)' = DOMAIN Changelog
          /\ \A r : HgChangesetIsSound(r)' <=> HgChangesetIsSound(r)
      BY <3>1, HgSoundnessStays
    <3> QED
      BY <3>1, <3>2, <3>3 DEF HgRefusalInv, OfHg
  <2> QED
    BY <2>1, <2>2, <2>3, <2>4 DEF Next, Decoder, Verifier
<1> QED
  BY <1>1, <1>2, KindInvHolds, HgExactInvHolds, PTL DEF Spec

LEMMA HgRefusalInvIsEnough == KindInv /\ HgExactInv /\ HgRefusalInv => HgRefusesExactly
PROOF
<1> SUFFICES ASSUME KindInv, HgExactInv, HgRefusalInv, Ended, input.kind = "hg"
             PROVE  stage = "done" <=> HgIsSound
  BY DEF HgRefusesExactly
<1>1. CASE stage = "failed"
  BY <1>1 DEF HgRefusalInv
<1>2. CASE stage = "done"
  <2> DEFINE C == Cardinality(DOMAIN Changelog)
  <2>1. OfHg
    BY <1>2 DEF OfHg
  <2>2. /\ input \in Sources /\ input.changelog # {} /\ hgServed = PublishedRevs /\ hgNext = C
        /\ HgGateIsPassed /\ HgViewIsRead /\ \A r \in Passed : HgChangesetIsSound(r)
        /\ DOMAIN Changelog # {} => BookmarksAreApart
    BY <2>1 DEF KindInv, HgExactInv, HgRefusalInv
  <2>3. C \in Nat /\ DOMAIN Changelog = 0..(C - 1) /\ PublishedRevs \subseteq DOMAIN Changelog
    BY <2>2, ChangelogIs DEF PublishedRevs, PublishedIn
  <2> HIDE DEF C
  <2>4. \A r \in DOMAIN Changelog : r < C
    BY <2>3
  <2>5. PublishedRevs \subseteq Passed
    BY <2>2, <2>3, <2>4 DEF Passed
  <2>6. HgPartsAreSound
    BY <2>2, <2>5 DEF HgPartsAreSound
  <2> QED
    BY <1>2, <2>6, HgIsSoundWhen
<1> QED
  BY <1>1, <1>2 DEF Ended

\* Whatever the repository, damaged or not: a Mercurial import is done exactly
\* when all that the published changesets hold is genuine and above the floor,
\* although a file revision is read only where it differs from the first
\* parent's, and what only unpublished changesets reach is not looked at.
THEOREM HgRefusesWhatItMust == Spec => []HgRefusesExactly
PROOF
  BY KindInvHolds, HgExactInvHolds, HgRefusalInvHolds, HgRefusalInvIsEnough, PTL

\* So a decoder of revisions that can be verified imports exactly the sources
\* that are whole.
THEOREM SourcesAreRefusedExactly == Spec => []RefusesExactly
PROOF
  BY GitRefusesWhatItMust, HgRefusesWhatItMust, PTL DEF RefusesExactly


-----------------------------------------------------------------------------
(* Where the copies of a Mercurial import come from.                       *)
\* The parents of a changeset are in the changelog, and come before it.
LEMMA ParentsAre ==
    ASSUME input \in Sources, input.kind = "hg", input.changelog # {}, NEW r \in DOMAIN Changelog
    PROVE  /\ r \in Nat
           /\ \A p \in P1(r) \cup P2(r) : p \in DOMAIN Changelog /\ p \in Nat /\ p < r
           /\ Published!ParentRevs(Store, r) = P1(r) \cup P2(r)
           /\ Published!KnownParents(Store, r) = P1(r) \cup P2(r)
PROOF
<1> DEFINE C == Cardinality(DOMAIN Changelog)
<1>1. C \in Nat /\ DOMAIN Changelog = 0..(C - 1)
  BY ChangelogIs
<1>2. Changelog[r].p1 \in -1..(r - 1) /\ Changelog[r].p2 \in -1..(r - 1)
  BY ChangelogIs
<1>3. P1(r) = {Changelog[r].p1} \ {-1} /\ P2(r) = {Changelog[r].p2} \ {-1}
  BY DEF P1, P2, NULL_REV
<1>4. Published!ParentRevs(Store, r) = {Changelog[r].p1, Changelog[r].p2} \ {-1}
  BY DEF Published!ParentRevs, Published!NULL_REV, Store
<1>5. Published!Revs(Store) = DOMAIN Changelog
  BY <1>1 DEF Store, Published!Revs
<1> HIDE DEF C
<1>6. r \in Nat /\ \A p \in P1(r) \cup P2(r) : p \in DOMAIN Changelog /\ p \in Nat /\ p < r
  <2> DEFINE revs == DOMAIN Changelog
  <2>1. r \in revs /\ revs = 0..(C - 1)
    BY <1>1
  <2> HIDE DEF revs
  <2>2. r \in Nat /\ \A p \in -1..(r - 1) : p # -1 => p \in revs /\ p \in Nat /\ p < r
    BY <1>1, <2>1
  <2> QED
    BY <1>2, <1>3, <2>2 DEF revs
<1>7. Published!ParentRevs(Store, r) = P1(r) \cup P2(r)
  BY <1>3, <1>4
<1>8. Published!KnownParents(Store, r) = P1(r) \cup P2(r)
  BY <1>5, <1>6, <1>7 DEF Published!KnownParents
<1> QED
  BY <1>6, <1>7, <1>8

\* What is an ancestor of a changeset: itself, and its parents' ancestors.
LEMMA AncestorsAre ==
    ASSUME input \in Sources, input.kind = "hg", input.changelog # {}, NEW r \in DOMAIN Changelog
    PROVE  /\ r \in Published!AncestorsOf(Store, r)
           /\ \A a \in Published!AncestorsOf(Store, r) :
                 /\ a \in DOMAIN Changelog /\ a \in Nat /\ a <= r
                 /\ P1(a) \cup P2(a) \subseteq Published!AncestorsOf(Store, r)
           /\ \A C : C \subseteq DOMAIN Changelog /\ r \in C /\ (\A a \in C : P1(a) \cup P2(a) \subseteq C)
                 => Published!AncestorsOf(Store, r) \subseteq C
PROOF
<1> DEFINE R == Published!AncestorsOf(Store, r)
           revs == DOMAIN Changelog
<1>1. Store.n \in Nat /\ View!Revs(Store) = revs /\ View!Ordered(Store)
  BY StoreIsOrdered
<1>2. R = View!AncestorsOf(Store, r)
  BY DEF View!AncestorsOf, View!Revs, View!KnownParents, View!ParentRevs, View!NULL_REV,
         Published!AncestorsOf, Published!Revs, Published!KnownParents, Published!ParentRevs, Published!NULL_REV
<1>3. \A a \in revs : View!KnownParents(Store, a) = P1(a) \cup P2(a)
  BY ParentsAre DEF View!Revs, View!KnownParents, View!ParentRevs, View!NULL_REV,
     Published!Revs, Published!KnownParents, Published!ParentRevs, Published!NULL_REV
<1> HIDE DEF R
<1>4. /\ r \in R /\ R \subseteq revs /\ View!Closure(Store, R)
      /\ \A C : (r \in C /\ View!Closure(Store, C)) => R \subseteq C
  BY <1>1, <1>2, View!ReachedAreClosed
<1>5. \A a \in R : P1(a) \cup P2(a) \subseteq R
  BY <1>3, <1>4 DEF View!Closure
<1>6. \A C : C \subseteq revs /\ r \in C /\ (\A a \in C : P1(a) \cup P2(a) \subseteq C) => R \subseteq C
  BY <1>3, <1>4 DEF View!Closure
<1>7. \A a \in R : a \in Nat /\ a <= r
  <2> DEFINE C == {a \in revs : a <= r}
  <2>1. \A a \in revs : a \in Nat /\ \A p \in P1(a) \cup P2(a) : p \in revs /\ p \in Nat /\ p < a
    BY ParentsAre
  <2> HIDE DEF revs
  <2>2. r \in revs /\ r \in Nat
    BY <2>1 DEF revs
  <2>3. C \subseteq revs /\ r \in C /\ \A a \in C : P1(a) \cup P2(a) \subseteq C
    BY <2>1, <2>2
  <2>4. R \subseteq C
    BY <1>6, <2>3
  <2> QED
    BY <2>1, <2>4
<1> QED
  BY <1>4, <1>5, <1>6, <1>7 DEF R

\* The line of first parents leads on from each changeset that is on it.
LEMMA FirstLineIs ==
    ASSUME input \in Sources, input.kind = "hg", input.changelog # {}, NEW r \in DOMAIN Changelog
    PROVE  /\ P1(r) \subseteq FirstLine(r) /\ \A a \in FirstLine(r) : P1(a) \subseteq FirstLine(r)
           /\ \A C : P1(r) \subseteq C /\ (\A a \in C : P1(a) \subseteq C) => FirstLine(r) \subseteq C
PROOF
<1> DEFINE revs == DOMAIN Changelog
           N == Store.n
           Grow(near) == near \cup UNION {P1(a) : a \in near}
           IsLine(f) == f = [d \in 0..N |-> IF d = 0 THEN P1(r) ELSE Grow(f[d - 1])]
           line == CHOOSE f : IsLine(f)
<1>1. N \in Nat /\ revs = 0..(N - 1) /\ r \in revs
  BY StoreIsOrdered DEF View!Revs
<1>2. \A a \in revs : a \in Nat /\ \A p \in P1(a) : p \in revs /\ p \in Nat /\ p < a
  BY ParentsAre
<1>3. FirstLine(r) = line[N]
  BY DEF FirstLine
<1> HIDE DEF N, revs
<1>4. \E f : IsLine(f)
  <2> DEFINE T == SUBSET revs
             D == [q \in Nat \X T |-> Grow(q[2])]
  <2>1. D \in [Nat \X T -> T] /\ P1(r) \in T
    BY <1>1, <1>2
  <2> HIDE DEF T
  <2>2. PICK f : IsRun(f, N, T, P1(r), D)
    <3> HIDE DEF D
    <3> QED
      BY <1>1, <2>1, LoopHasRun
  <2>3. ASSUME NEW d \in 0..N, d # 0 PROVE f[d] = Grow(f[d - 1])
    <3>1. d - 1 \in 0..(N - 1) /\ d - 1 \in Nat /\ d - 1 \in 0..N /\ (d - 1) + 1 = d
      BY <1>1, <2>3
    <3>2. f[d] = D[<<d - 1, f[d - 1]>>] /\ <<d - 1, f[d - 1]>> \in Nat \X T
      BY <2>2, <3>1 DEF IsRun
    <3> QED
      BY <3>2
  <2>4. IsLine(f)
    BY <2>2, <2>3 DEF IsRun
  <2> QED
    BY <2>4
<1>5. IsLine(line)
  BY <1>4
<1> HIDE DEF line
<1>6. /\ 0 \in 0..N /\ N \in 0..N /\ line[0] = P1(r)
      /\ \A d \in 0..(N - 1) : d + 1 \in 0..N /\ d \in 0..N /\ line[d + 1] = Grow(line[d])
  BY <1>1, <1>5
<1>7. ASSUME NEW C, P1(r) \subseteq C, \A a \in C : P1(a) \subseteq C PROVE line[N] \subseteq C
  <2> DEFINE U == {d \in 0..N : line[d] \subseteq C}
  <2>1. 0 \in U
    BY <1>6, <1>7
  <2>2. \A d \in 0..(N - 1) : d \in U => d + 1 \in U
    BY <1>6, <1>7
  <2> HIDE DEF U
  <2>3. 0..N \subseteq U
    BY <1>1, <2>1, <2>2, BoundedInduction
  <2> QED
    BY <1>6, <2>3 DEF U
<1>8. P1(r) \subseteq line[N]
  <2> DEFINE U == {d \in 0..N : P1(r) \subseteq line[d]}
  <2>1. 0 \in U
    BY <1>6
  <2>2. \A d \in 0..(N - 1) : d \in U => d + 1 \in U
    BY <1>6
  <2> HIDE DEF U
  <2>3. 0..N \subseteq U
    BY <1>1, <2>1, <2>2, BoundedInduction
  <2> QED
    BY <1>6, <2>3 DEF U
<1>9. \A a \in line[N] : P1(a) \subseteq line[N]
  <2> DEFINE U == {d \in 0..N : \A a \in line[d] : a \in revs /\ (P1(a) \subseteq line[d] \/ a < r - d)}
  <2>1. 0 \in U
    BY <1>1, <1>2, <1>6
  <2>2. ASSUME NEW d \in 0..(N - 1), d \in U PROVE d + 1 \in U
    <3>1. d + 1 \in 0..N /\ line[d + 1] = Grow(line[d])
      BY <1>6
    <3> SUFFICES ASSUME NEW a \in line[d + 1]
                 PROVE  a \in revs /\ (P1(a) \subseteq line[d + 1] \/ a < r - (d + 1))
      BY <3>1
    <3>2. CASE a \in line[d]
      BY <2>2, <3>1, <3>2
    <3>3. CASE a \notin line[d]
      <4>1. PICK c \in line[d] : a \in P1(c)
        BY <3>1, <3>3
      <4>2. c \in revs /\ c < r - d
        BY <2>2, <3>3, <4>1
      <4>3. a \in revs /\ a \in Nat /\ c \in Nat /\ r \in Nat /\ a < c
        BY <1>1, <1>2, <4>1, <4>2
      <4>4. a < r - (d + 1)
        BY <1>1, <4>2, <4>3
      <4> QED
        BY <4>3, <4>4
    <3> QED
      BY <3>2, <3>3
  <2>3. N \in U
    <3> HIDE DEF U
    <3> QED
      BY <1>1, <1>6, <2>1, <2>2, BoundedInduction
  <2>4. \A a \in revs : ~(a < r - N)
    BY <1>1
  <2> QED
    BY <2>3, <2>4
<1> QED
  BY <1>3, <1>7, <1>8, <1>9

\* It is of ancestors, and goes on from the first parent.
LEMMA LineGoesOn ==
    ASSUME input \in Sources, input.kind = "hg", input.changelog # {}, NEW r \in DOMAIN Changelog
    PROVE  /\ FirstLine(r) \subseteq P1(r) \cup UNION {FirstLine(p) : p \in P1(r)}
           /\ \A p \in P1(r) \cup P2(r) : Published!AncestorsOf(Store, p) \subseteq Published!AncestorsOf(Store, r)
           /\ \A p \in P1(r) : FirstLine(p) \subseteq Published!AncestorsOf(Store, p)
PROOF
<1>1. \A p \in P1(r) \cup P2(r) : p \in DOMAIN Changelog
  BY ParentsAre
<1>2. FirstLine(r) \subseteq P1(r) \cup UNION {FirstLine(p) : p \in P1(r)}
  <2> DEFINE C == P1(r) \cup UNION {FirstLine(p) : p \in P1(r)}
  <2>1. \A p \in P1(r) : P1(p) \subseteq FirstLine(p) /\ \A a \in FirstLine(p) : P1(a) \subseteq FirstLine(p)
    BY <1>1, FirstLineIs
  <2>2. P1(r) \subseteq C /\ \A a \in C : P1(a) \subseteq C
    BY <2>1
  <2> HIDE DEF C
  <2>3. FirstLine(r) \subseteq C
    BY <2>2, FirstLineIs
  <2> QED
    BY <2>3 DEF C
<1>3. ASSUME NEW p \in P1(r) \cup P2(r)
      PROVE  Published!AncestorsOf(Store, p) \subseteq Published!AncestorsOf(Store, r)
  <2> DEFINE C == Published!AncestorsOf(Store, r)
  <2>1. /\ r \in C
        /\ \A a \in C : a \in DOMAIN Changelog /\ P1(a) \cup P2(a) \subseteq C
    BY AncestorsAre
  <2> HIDE DEF C
  <2>2. C \subseteq DOMAIN Changelog /\ p \in C
    BY <2>1
  <2> QED
    BY <1>1, <2>1, <2>2, AncestorsAre DEF C
<1>4. ASSUME NEW p \in P1(r) PROVE FirstLine(p) \subseteq Published!AncestorsOf(Store, p)
  <2> DEFINE C == Published!AncestorsOf(Store, p)
  <2>1. p \in C /\ \A a \in C : P1(a) \cup P2(a) \subseteq C
    BY <1>1, AncestorsAre
  <2> HIDE DEF C
  <2>2. P1(p) \subseteq C /\ \A a \in C : P1(a) \subseteq C
    BY <2>1
  <2>3. FirstLine(p) \subseteq C
    BY <1>1, <2>2, FirstLineIs
  <2> QED
    BY <2>3 DEF C
<1> QED
  BY <1>2, <1>3, <1>4

\* Where a stated copy is found to come from, and when it is found at all.
LEMMA SourcesAre ==
    ASSUME input \in Sources, input.kind = "hg", input.changelog # {},
           hgServed = PublishedRevs, Published!IsClosed(Store, hgServed), NEW r \in hgServed,
           NEW path, NEW node
    PROVE  /\ \A a \in CopySource(r, path, node) :
                 /\ a \in hgServed /\ a < r /\ a \in Published!AncestorsOf(Store, r)
                 /\ LinkIsTrue(path, node) => MapsTo(a, path, node)
           /\ LinkIsTrue(path, node) /\ FileRevs(path, node) # {} =>
                 ((\E a \in P2(r) \cup FirstLine(r) : MapsTo(a, path, node)) => CopySource(r, path, node) # {})
PROOF
<1> DEFINE revs == DOMAIN Changelog
           elders == P1(r) \cup P2(r)
           R == Published!AncestorsOf(Store, r)
           Holding(few) == {p \in few : MapsTo(p, path, node)}
           links == Linkrev(path, node)
           first == Holding(P1(r))
           second == Holding(P2(r))
           third == LinkedAncestor(r, path, node)
           line == OnLine(r, path, node)
           fourth == Nearest(line)
           chosen == OrElse(first, OrElse(second, OrElse(third, fourth)))
<1>1. r \in revs /\ hgServed \subseteq revs
  BY DEF PublishedRevs, PublishedIn
<1>2. \A p \in elders : p \in revs /\ p \in Nat /\ p < r /\ r \in Nat
  BY <1>1, ParentsAre
<1>3. CopySource(r, path, node) = IF FileRevs(path, node) = {} THEN {} ELSE chosen
  BY DEF CopySource
<1>4. R \subseteq hgServed
  <2>1. \A a \in hgServed : P1(a) \cup P2(a) \subseteq hgServed
    BY <1>1, ParentsAre DEF Published!IsClosed
  <2> QED
    BY <1>1, <2>1, AncestorsAre
<1>5. ASSUME NEW p \in elders, NEW a \in Published!AncestorsOf(Store, p)
      PROVE  a \in R /\ a \in hgServed /\ a < r
  <2>1. a \in R
    BY <1>1, LineGoesOn
  <2>2. a \in Nat /\ a <= p
    BY <1>2, AncestorsAre
  <2>3. a < r
    BY <1>2, <2>2
  <2> QED
    BY <1>4, <2>1, <2>3
<1>6. \A p \in elders : p \in Published!AncestorsOf(Store, p)
  BY <1>2, AncestorsAre
<1>7. \A p \in P1(r) : FirstLine(p) \subseteq Published!AncestorsOf(Store, p)
  BY <1>1, LineGoesOn
<1>8. line \subseteq hgServed /\ \A a \in line : a \in R /\ a < r /\ MapsTo(a, path, node)
  BY <1>5, <1>7 DEF OnLine
<1>9. third \subseteq hgServed /\ \A a \in third : a \in R /\ a < r /\ a \in links
  BY <1>5 DEF LinkedAncestor, AncestorsOf
<1>10. fourth \subseteq line /\ (line # {} => fourth # {})
  <2>1. CASE line = {}
    BY <2>1 DEF Nearest
  <2>2. CASE line # {}
    <3> DEFINE C == Cardinality(DOMAIN Changelog)
    <3>1. C \in Nat /\ revs = 0..(C - 1)
      BY ChangelogIs
    <3>2. line \subseteq revs
      BY <1>1, <1>8
    <3> HIDE DEF C, line, revs
    <3>3. line \subseteq 0..(C - 1)
      BY <3>1, <3>2
    <3>4. Max(line) \in line
      BY <2>2, <3>1, <3>3, MaxIsIn
    <3> QED
      BY <2>2, <3>4 DEF Nearest
  <2> QED
    BY <2>1, <2>2
<1>11. chosen \in {first, second, third, fourth} /\ (chosen = {} => first = {} /\ second = {} /\ fourth = {})
  <2> HIDE DEF first, second, third, fourth
  <2> QED
    BY DEF OrElse
<1>12. LinkIsTrue(path, node) /\ FileRevs(path, node) # {} => \A a \in third : MapsTo(a, path, node)
  BY <1>9 DEF LinkIsTrue
<1>13. first \cup second \subseteq hgServed
       /\ \A a \in first \cup second : a \in R /\ a < r /\ MapsTo(a, path, node)
  BY <1>5, <1>6
<1>14. ASSUME LinkIsTrue(path, node), FileRevs(path, node) # {},
              NEW a \in P2(r) \cup FirstLine(r), MapsTo(a, path, node)
       PROVE  first # {} \/ second # {} \/ line # {}
  <2>1. CASE a \in P1(r) \cup P2(r)
    BY <1>14, <2>1
  <2>2. CASE a \notin P1(r) \cup P2(r)
    <3>1. PICK p \in P1(r) : a \in FirstLine(p)
      BY <1>1, <2>2, LineGoesOn
    <3>2. a \in hgServed
      BY <1>5, <1>7, <3>1
    <3>3. a \in Nat
      BY <1>1, <3>2, ParentsAre
    <3>4. \A l \in links : l <= a /\ l \in Nat
      BY <1>14, <3>2 DEF LinkIsTrue, Linkrev
    <3>5. \A l \in links : a >= l
      BY <3>3, <3>4
    <3>6. a \in line
      BY <1>14, <3>1, <3>5 DEF OnLine
    <3> QED
      BY <3>6
  <2> QED
    BY <2>1, <2>2
<1> HIDE DEF first, second, third, fourth, line, links, R, chosen
<1>15. ASSUME NEW a \in CopySource(r, path, node)
       PROVE  a \in hgServed /\ a < r /\ a \in R /\ (LinkIsTrue(path, node) => MapsTo(a, path, node))
  <2>1. FileRevs(path, node) # {} /\ a \in chosen
    BY <1>3
  <2>2. a \in first \cup second \/ a \in third \/ a \in line
    BY <1>10, <1>11, <2>1
  <2> QED
    BY <1>8, <1>9, <1>12, <1>13, <2>1, <2>2
<1>16. LinkIsTrue(path, node) /\ FileRevs(path, node) # {} =>
         ((\E a \in P2(r) \cup FirstLine(r) : MapsTo(a, path, node)) => CopySource(r, path, node) # {})
  BY <1>3, <1>10, <1>11, <1>14
<1> QED
  BY <1>15, <1>16 DEF R

-----------------------------------------------------------------------------
(* The copies of an atom, by the changeset it is made of.                  *)
IsStated(c, copy) == c.to = copy.to /\ c.from = copy.from

CopiesAreOf(atoms, n) ==
    LET r == RevNamed(atoms[n].source) IN
    /\ \A c \in atoms[n].copies :
          /\ c.fromAtom \in 1..(n - 1)
          /\ \E copy \in CopiesStatedBy(r) :
                IsStated(c, copy) /\ RevNamed(atoms[c.fromAtom].source) \in SourceOf(r, copy)
    /\ \A copy \in CopiesStatedBy(r) :
          SourceOf(r, copy) # {} => \E c \in atoms[n].copies : IsStated(c, copy)

HgCopiesInv ==
    (stage = "hg import" \/ OfHg) =>
        \A n \in 1..Len(builder.atoms) : CopiesAreOf(builder.atoms, n)

LEMMA CopiesStay ==
    ASSUME input' = input, hgServed' = hgServed
    PROVE  \A atoms, n : CopiesAreOf(atoms, n)' <=> CopiesAreOf(atoms, n)
PROOF
<1>1. /\ Changelog' = Changelog /\ Store' = Store
      /\ \A r : P1(r)' = P1(r) /\ P2(r)' = P2(r)
      /\ \A node : RevNamed(node)' = RevNamed(node)
      /\ \A r : ManifestAt(r)' = ManifestAt(r) /\ BaseOf(r)' = BaseOf(r)
  BY ManifestsStay
<1>2. \A path : Filelog(path)' = Filelog(path)
  BY DEF Filelog
<1>3. \A path, node : FileRevs(path, node)' = FileRevs(path, node) /\ Linkrev(path, node)' = Linkrev(path, node)
  BY <1>2 DEF FileRevs, Linkrev
<1>4. \A path, node : FileRevision(path, node)' = FileRevision(path, node)
  BY <1>2, <1>3 DEF FileRevision, FileText
<1>5. \A r : CopiesStatedBy(r)' = CopiesStatedBy(r)
  BY <1>1, <1>4 DEF CopiesStatedBy, StatedCopies
<1>6. \A r, path, node : MapsTo(r, path, node)' <=> MapsTo(r, path, node)
  BY <1>1 DEF MapsTo, Holds
<1>7. \A r : FirstLine(r)' = FirstLine(r)
  BY <1>1 DEF FirstLine, P1
<1>8. \A some : AncestorsOf(some)' = AncestorsOf(some)
  BY <1>1 DEF AncestorsOf, Published!AncestorsOf, Published!Revs, Published!KnownParents, Published!ParentRevs
<1>9. \A r, path, node : /\ LinkedAncestor(r, path, node)' = LinkedAncestor(r, path, node)
                         /\ OnLine(r, path, node)' = OnLine(r, path, node)
  BY <1>1, <1>3, <1>6, <1>7, <1>8 DEF LinkedAncestor, OnLine
<1>10. \A r, path, node : CopySource(r, path, node)' = CopySource(r, path, node)
  BY <1>1, <1>3, <1>6, <1>9 DEF CopySource
<1>11. \A r, copy : SourceOf(r, copy)' = SourceOf(r, copy)
  BY <1>10 DEF SourceOf
<1> QED
  BY <1>1, <1>5, <1>11 DEF CopiesAreOf

\* A step that is not a changeset's leaves the atoms as they are.
LEMMA CopiesWait ==
    ASSUME input' = input, hgServed' = hgServed, builder'.atoms = builder.atoms,
           stage = "hg import" \/ OfHg, HgCopiesInv
    PROVE  HgCopiesInv'
PROOF
<1>1. \A n \in 1..Len(builder.atoms) : CopiesAreOf(builder.atoms, n)
  BY DEF HgCopiesInv
<1>2. (\A n \in 1..Len(builder.atoms) : CopiesAreOf(builder.atoms, n))'
  BY <1>1, CopiesStay
<1> QED
  BY <1>2 DEF HgCopiesInv

LEMMA ChangesetKeepsCopies == KindInv /\ HgExactInv /\ HgCopiesInv /\ ImportChangeset => HgCopiesInv'
PROOF
<1> SUFFICES ASSUME KindInv, HgExactInv, HgCopiesInv, ImportChangeset, stage' # "failed" PROVE HgCopiesInv'
  BY DEF HgCopiesInv, OfHg
<1> DEFINE r == hgNext
           stated == CopiesStatedBy(r)
           copies == PlacedCopies(r, stated)
           draft == ChangesetDraft(r, BaseOf(r), ManifestAt(r), copies)
           a == builder.atoms
           b == Append(a, draft)
<1>1. /\ stage = "hg import" /\ input' = input /\ hgServed' = hgServed
      /\ builder' = WithAtom(builder, draft) /\ r \in DOMAIN Changelog /\ r \in hgServed
  <2>1. \A why : ~Fail(why)
    BY Moves
  <2> QED
    BY <2>1 DEF ImportChangeset, ImportOver, Goto, CopiesStatedBy
<1>2. /\ input \in Sources /\ input.kind = "hg" /\ input.changelog # {}
      /\ hgServed = PublishedRevs /\ Published!IsClosed(Store, hgServed) /\ ChangesetsRight
      /\ hgServed \subseteq DOMAIN Changelog
      /\ \A n \in 1..Len(a) : CopiesAreOf(a, n)
  BY <1>1 DEF KindInv, HgExactInv, HgStages, HgCopiesInv, PublishedRevs, PublishedIn
<1>3. RevNamed(draft.source) = r
  BY <1>1, <1>2, ChangelogIs DEF ChangesetDraft
<1>4. draft.copies = copies
  BY DEF ChangesetDraft
<1>5. builder'.atoms = b
  <2>1. builder = [atoms |-> a, refs |-> {}, drops |-> {}, flags |-> {}]
    BY <1>1 DEF HgExactInv, HgStages
  <2>2. builder' = [builder EXCEPT !.atoms = b]
    BY <1>1 DEF WithAtom
  <2> HIDE DEF a, b
  <2> QED
    BY <2>1, <2>2
<1>6. a \in Seq(ToSet(a)) /\ \A n \in 1..Len(a) : IsOfChangeset(a, n)
  BY <1>2 DEF ChangesetsRight
<1>7. /\ Len(a) \in Nat /\ DOMAIN a = 1..Len(a) /\ Len(b) = Len(a) + 1
      /\ b[Len(a) + 1] = draft /\ \A n \in 1..Len(a) : b[n] = a[n]
  <2> HIDE DEF a, draft
  <2> QED
    BY <1>6, SequenceGrows
<1>8. ASSUME NEW s \in hgServed, s < r
      PROVE  AtomOf(s) \in 1..Len(a) /\ RevNamed(a[AtomOf(s)].source) = s
  <2>1. s \in Passed
    BY <1>8 DEF Passed
  <2>2. PICK n \in 1..Len(a) : RevNamed(a[n].source) = s
    BY <1>2, <2>1 DEF ChangesetsRight
  <2>3. Changelog[s].node = a[n].source
    BY <1>6, <2>2 DEF IsOfChangeset
  <2>4. HasAtom(Changelog[s].node)
    BY <1>7, <2>2, <2>3 DEF HasAtom
  <2>5. AtomOf(s) \in DOMAIN a /\ a[AtomOf(s)].source = Changelog[s].node
    BY <2>4 DEF AtomOf, AtomNamed, HasAtom
  <2>6. RevNamed(Changelog[s].node) = s
    BY <1>2, ChangelogIs
  <2> QED
    BY <1>7, <2>5, <2>6
<1>9. ASSUME NEW copy, NEW s \in SourceOf(r, copy) PROVE s \in hgServed /\ s < r
  <2>1. PICK node \in copy.rev : s \in CopySource(r, copy.from, node)
    BY <1>9 DEF SourceOf
  <2> QED
    BY <1>1, <1>2, <2>1, SourcesAre
<1> DEFINE Copied(copy, s) == [from |-> copy.from, fromAtom |-> AtomOf(s), to |-> copy.to, status |-> AsStated]
<1>10. copies = UNION {{Copied(copy, s) : s \in SourceOf(r, copy)} : copy \in stated}
  BY DEF PlacedCopies
<1>11. \A copy, s : IsStated(Copied(copy, s), copy) /\ Copied(copy, s).fromAtom = AtomOf(s)
  BY DEF IsStated
<1> HIDE DEF copies, Copied, draft, stated, a, b, r
<1>12. ASSUME NEW c \in copies
       PROVE  /\ c.fromAtom \in 1..Len(a)
              /\ \E copy \in stated : IsStated(c, copy) /\ RevNamed(a[c.fromAtom].source) \in SourceOf(r, copy)
  <2>1. PICK copy \in stated : \E s \in SourceOf(r, copy) : c = Copied(copy, s)
    BY <1>10
  <2>2. PICK s \in SourceOf(r, copy) : c = Copied(copy, s)
    BY <2>1
  <2>3. AtomOf(s) \in 1..Len(a) /\ RevNamed(a[AtomOf(s)].source) = s
    BY <1>8, <1>9
  <2> QED
    BY <1>11, <2>2, <2>3
<1>13. ASSUME NEW copy \in stated, SourceOf(r, copy) # {}
       PROVE  \E c \in copies : IsStated(c, copy)
  BY <1>10, <1>11, <1>13
<1>14. ASSUME NEW n \in 1..Len(b) PROVE CopiesAreOf(b, n)
  <2>1. CASE n \in 1..Len(a)
    <3>1. CopiesAreOf(a, n) /\ b[n] = a[n]
      BY <1>2, <1>7, <2>1 DEF a
    <3>2. \A c \in a[n].copies : c.fromAtom \in 1..Len(a)
      <4>1. \A m \in 1..(n - 1) : m \in 1..Len(a)
        BY <1>7, <2>1
      <4> QED
        BY <3>1, <4>1 DEF CopiesAreOf
    <3> QED
      BY <1>7, <3>1, <3>2 DEF CopiesAreOf
  <2>2. CASE n = Len(a) + 1
    <3>1. b[n] = draft /\ n - 1 = Len(a) /\ RevNamed(b[n].source) = r
      BY <1>3, <1>7, <2>2
    <3>2. \A c \in copies : b[c.fromAtom] = a[c.fromAtom]
      BY <1>7, <1>12
    <3> QED
      BY <1>4, <1>12, <1>13, <3>1, <3>2 DEF CopiesAreOf, stated
  <2> QED
    BY <1>7, <2>1, <2>2
<1>15. (\A n \in 1..Len(builder.atoms) : CopiesAreOf(builder.atoms, n))'
  BY <1>1, <1>5, <1>14, CopiesStay
<1> QED
  BY <1>15 DEF HgCopiesInv

LEMMA HgCopiesInvHolds == Spec => []HgCopiesInv
PROOF
<1>1. Init => HgCopiesInv
  <2> SUFFICES ASSUME Init PROVE HgCopiesInv
    OBVIOUS
  <2>1. PICK source \in Sources : DecodingInit(source, Begin(source.kind))
    BY DEF Init
  <2>2. source.kind \in {"git", "hg", "svn", "cvs", "artifact"}
    BY SourceKinds
  <2>3. stage \notin {"hg import", "done"}
    BY <2>1, <2>2 DEF DecodingInit, Begin
  <2> QED
    BY <2>3 DEF HgCopiesInv, OfHg
<1>2. KindInv /\ HgExactInv /\ HgCopiesInv /\ [Next]_vars => HgCopiesInv'
  <2> SUFFICES ASSUME KindInv, HgExactInv, HgCopiesInv, [Next]_vars PROVE HgCopiesInv'
    OBVIOUS
  <2>1. CASE OpenHg
    <3>1. stage' \notin {"hg import", "done"}
      BY <2>1 DEF OpenHg, Fail, Goto
    <3> QED
      BY <3>1 DEF HgCopiesInv, OfHg
  <2>2. CASE ComputeView
    <3> SUFFICES ASSUME stage' # "failed" PROVE HgCopiesInv'
      BY DEF HgCopiesInv, OfHg
    <3>1. \A why : ~Fail(why)
      BY Moves
    <3>2. stage = "hg view" /\ builder' = builder
      BY <2>2, <3>1 DEF ComputeView, Goto
    <3>3. builder'.atoms = <<>>
      BY <3>2 DEF HgExactInv
    <3>4. 1..Len(<<>>) = {}
      OBVIOUS
    <3> QED
      BY <3>3, <3>4 DEF HgCopiesInv
  <2>3. CASE SkipChangeset
    <3>1. input' = input /\ hgServed' = hgServed /\ builder' = builder /\ stage = "hg import"
      BY <2>3 DEF SkipChangeset, Goto
    <3> QED
      BY <3>1, CopiesWait
  <2>4. CASE ImportChangeset
    BY <2>4, ChangesetKeepsCopies
  <2>5. CASE FinishHg
    <3> SUFFICES ASSUME stage' # "failed" PROVE HgCopiesInv'
      BY DEF HgCopiesInv, OfHg
    <3>1. \A why : ~Fail(why)
      BY Moves
    <3>2. /\ stage = "hg import" /\ input' = input /\ hgServed' = hgServed
          /\ builder' = [builder EXCEPT !.refs = HgRefs, !.drops = HgLoss, !.flags = {}]
      BY <2>5, <3>1 DEF FinishHg, Finish, Goto, hgVars
    <3>3. builder'.atoms = builder.atoms
      <4>1. builder = [atoms |-> builder.atoms, refs |-> {}, drops |-> {}, flags |-> {}]
        BY <3>2 DEF HgExactInv, HgStages
      <4> QED
        BY <3>2, <4>1
    <3> QED
      BY <3>2, <3>3, CopiesWait
  <2>6. CASE GitNext \/ SvnStep \/ CvsNext \/ VerifyNext
    <3>1. stage' \notin HgStages /\ ~OfHg'
      BY <2>6, GitStays, SvnStays, CvsStays, VerifyStays
      DEF KindInv, OfHg, Stays, GitStages, HgStages, SvnStages, CvsStages, VerifyStages, Ends
    <3> QED
      BY <3>1 DEF HgCopiesInv, HgStages
  <2>7. CASE Reader \/ Thread \/ Child
    <3>1. stage' \notin {"hg import", "done"}
      BY <2>7 DEF Reader, Thread, Child, DecoderReads, ThreadRuns, ChildRuns, During, decoding
    <3> QED
      BY <3>1 DEF HgCopiesInv, OfHg
  <2>8. CASE UNCHANGED vars
    <3>1. UNCHANGED <<input, stage, builder, hgServed>>
      BY <2>8 DEF vars, decoding, hgVars
    <3>2. CASE stage = "hg import" \/ OfHg
      BY <3>1, <3>2, CopiesWait
    <3>3. CASE ~(stage = "hg import" \/ OfHg)
      BY <3>1, <3>3 DEF HgCopiesInv, OfHg
    <3> QED
      BY <3>2, <3>3
  <2> QED
    BY <2>1, <2>2, <2>3, <2>4, <2>5, <2>6, <2>7, <2>8 DEF Next, Decoder, Verifier, HgNext
<1> QED
  BY <1>1, <1>2, KindInvHolds, HgExactInvHolds, PTL DEF Spec

LEMMA HgCopiesInvIsEnough == KindInv /\ HgExactInv /\ HgRefusalInv /\ HgCopiesInv => HgCopiesAreTrue
PROOF
<1> SUFFICES ASSUME KindInv, HgExactInv, HgRefusalInv, HgCopiesInv, stage = "done", input.kind = "hg"
             PROVE  HgCopiesAreTrue
  BY DEF HgCopiesAreTrue
<1> DEFINE atoms == builder.atoms
<1>1. /\ input \in Sources /\ input.changelog # {} /\ hgServed = PublishedRevs
      /\ Published!IsClosed(Store, hgServed) /\ ChangesetsRight /\ hgServed \subseteq DOMAIN Changelog
      /\ \A n \in 1..Len(atoms) : CopiesAreOf(atoms, n)
  BY DEF KindInv, HgExactInv, HgCopiesInv, OfHg, PublishedRevs, PublishedIn
<1>2. HgIsSound
  BY HgRefusalInvIsEnough DEF HgRefusesExactly, Ended
<1>3. \A q \in hgServed : HgChangesetIsSound(q)
  BY <1>1, <1>2, HgIsSoundWhen DEF HgPartsAreSound
<1>4. DOMAIN atoms = 1..Len(atoms) /\ {RevNamed(atoms[n].source) : n \in 1..Len(atoms)} \subseteq hgServed
  <2>1. atoms \in Seq(ToSet(atoms))
    BY <1>1 DEF ChangesetsRight
  <2>2. {RevNamed(atoms[n].source) : n \in 1..Len(atoms)} = Passed
    BY <1>1 DEF ChangesetsRight
  <2>3. Passed \subseteq hgServed
    BY DEF Passed
  <2> HIDE DEF atoms
  <2> QED
    BY <2>1, <2>2, <2>3
<1>5. \A n : RevOfAtom(n) = RevNamed(atoms[n].source)
  BY DEF RevOfAtom, RevNamed
<1> HIDE DEF atoms
<1>6. ASSUME NEW n \in DOMAIN atoms, NEW r, r = RevNamed(atoms[n].source),
             NEW stated, stated = CopiesStatedBy(r), NEW c \in atoms[n].copies, NEW a, a = RevNamed(atoms[c.fromAtom].source)
      PROVE  /\ a # r /\ a \in Published!AncestorsOf(Store, r)
             /\ \E x \in stated : (c.to = x.to /\ c.from = x.from)
                                   /\ \E node \in x.rev : LinksAreTrue => MapsTo(a, x.from, node)
  <2>1. r \in hgServed /\ r \in Nat
    <3>1. r \in hgServed
      BY <1>4, <1>6
    <3> QED
      BY <1>1, <3>1, ParentsAre
  <2>2. PICK copy \in stated : IsStated(c, copy) /\ a \in SourceOf(r, copy)
    BY <1>1, <1>4, <1>6 DEF CopiesAreOf
  <2>3. PICK node \in copy.rev : a \in CopySource(r, copy.from, node)
    BY <2>2 DEF SourceOf
  <2>4. /\ a < r /\ a \in Published!AncestorsOf(Store, r)
        /\ LinkIsTrue(copy.from, node) => MapsTo(a, copy.from, node)
    BY <1>1, <2>1, <2>3, SourcesAre
  <2>5. LinksAreTrue => LinkIsTrue(copy.from, node)
    BY <1>1, <1>6, <2>1, <2>2, <2>3 DEF LinksAreTrue
  <2> QED
    BY <2>1, <2>2, <2>4, <2>5 DEF IsStated
<1>7. ASSUME NEW n \in DOMAIN atoms, NEW r, r = RevNamed(atoms[n].source), LinksAreTrue,
             NEW stated, stated = CopiesStatedBy(r), NEW x \in stated,
             NEW node \in x.rev, NEW a \in P2(r) \cup FirstLine(r), MapsTo(a, x.from, node)
      PROVE  \E c \in atoms[n].copies : c.to = x.to /\ c.from = x.from
  <2>1. r \in hgServed /\ r \in DOMAIN Changelog
    BY <1>1, <1>4, <1>7
  <2>2. a \in hgServed
    <3>1. \A p \in P1(r) \cup P2(r) : p \in DOMAIN Changelog /\ p \in hgServed
      BY <1>1, <2>1, ParentsAre DEF Published!IsClosed
    <3>2. \A p \in hgServed : P1(p) \subseteq hgServed
      BY <1>1, ParentsAre DEF Published!IsClosed
    <3>3. FirstLine(r) \subseteq hgServed
      BY <1>1, <2>1, <3>1, <3>2, FirstLineIs
    <3> QED
      BY <3>1, <3>3
  <2>3. FileRevs(x.from, node) # {}
    <3>1. x.from \in DOMAIN ManifestAt(a) /\ ManifestAt(a)[x.from].node = node
      BY <1>7 DEF MapsTo, Holds
    <3>2. FileIsSound(x.from, node)
      BY <1>3, <2>2, <3>1 DEF HgChangesetIsSound
    <3> QED
      BY <3>2 DEF FileIsSound
  <2>4. LinkIsTrue(x.from, node)
    BY <1>1, <1>7, <2>1 DEF LinksAreTrue
  <2>5. CopySource(r, x.from, node) # {}
    BY <1>1, <1>7, <2>1, <2>3, <2>4, SourcesAre
  <2>6. SourceOf(r, x) # {}
    BY <2>5 DEF SourceOf
  <2> QED
    BY <1>1, <1>4, <1>7, <2>6 DEF CopiesAreOf, IsStated
<1>8. ASSUME NEW n \in DOMAIN atoms, NEW r \in {RevOfAtom(n)}, NEW stated \in {CopiesStatedBy(r)}
      PROVE  /\ \A c \in atoms[n].copies :
                   /\ RevOfAtom(c.fromAtom) # r /\ RevOfAtom(c.fromAtom) \in Published!AncestorsOf(Store, r)
                   /\ \E x \in stated :
                         (c.to = x.to /\ c.from = x.from)
                         /\ \E node \in x.rev : LinksAreTrue => MapsTo(RevOfAtom(c.fromAtom), x.from, node)
             /\ LinksAreTrue => \A x \in stated :
                   (\E node \in x.rev : \E a \in P2(r) \cup FirstLine(r) : MapsTo(a, x.from, node))
                   => \E c \in atoms[n].copies : c.to = x.to /\ c.from = x.from
  <2>1. r = RevNamed(atoms[n].source) /\ stated = CopiesStatedBy(r)
    BY <1>5, <1>8
  <2>2. ASSUME NEW c \in atoms[n].copies
        PROVE  /\ RevOfAtom(c.fromAtom) # r /\ RevOfAtom(c.fromAtom) \in Published!AncestorsOf(Store, r)
               /\ \E x \in stated :
                     (c.to = x.to /\ c.from = x.from)
                     /\ \E node \in x.rev : LinksAreTrue => MapsTo(RevOfAtom(c.fromAtom), x.from, node)
    <3>1. RevOfAtom(c.fromAtom) = RevNamed(atoms[c.fromAtom].source)
      BY <1>5
    <3> QED
      BY <1>6, <2>1, <3>1
  <2>3. ASSUME LinksAreTrue, NEW x \in stated,
               \E node \in x.rev : \E a \in P2(r) \cup FirstLine(r) : MapsTo(a, x.from, node)
        PROVE  \E c \in atoms[n].copies : c.to = x.to /\ c.from = x.from
    <3>1. PICK node \in x.rev : \E a \in P2(r) \cup FirstLine(r) : MapsTo(a, x.from, node)
      BY <2>3
    <3>2. PICK a \in P2(r) \cup FirstLine(r) : MapsTo(a, x.from, node)
      BY <3>1
    <3> QED
      BY <1>7, <2>1, <2>3, <3>2
  <2> QED
    BY <2>2, <2>3
<1> QED
  BY <1>8, Zenon DEF HgCopiesAreTrue, atoms

\* Whatever the repository: a copy of a Mercurial import that is done is placed
\* on an ancestor, one that holds the file revision it states unless a link that
\* no hash covers says what is not so; and a copy whose revision a parent or an
\* earlier changeset on the line of first parents holds is not left out.
THEOREM CopiesAreTrue == Spec => []HgCopiesAreTrue
PROOF
  BY KindInvHolds, HgExactInvHolds, HgRefusalInvHolds, HgCopiesInvHolds, HgCopiesInvIsEnough, PTL

=============================================================================
