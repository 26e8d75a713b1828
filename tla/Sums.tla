-------------------------------- MODULE Sums --------------------------------
(***************************************************************************)
(* Sums over finite sets of indices (SumFunctionOnSet), for every set and  *)
(* every function: what the account arithmetic of Sizer is proved from.    *)
(*                                                                         *)
(* The fold is defined by recursion over subsets.  Induction is by a       *)
(* minimal counterexample: among the subsets for which a fact fails there  *)
(* is one no proper subset of which fails (WFMin), and taking one index    *)
(* out of it contradicts that.                                             *)
(***************************************************************************)
EXTENDS Integers, FiniteSets, Functions, FiniteSetTheorems,
        WellFoundedInduction, TLAPS

\* Every set of naturals has a least one.
LEMMA LeastNat ==
  ASSUME NEW T, T \subseteq Nat, T # {}
  PROVE  \E n \in T : \A m \in T : n <= m
  <1>. DEFINE U == {1 .. m : m \in T}
  <1>1. U \subseteq FiniteSubsetsOf(Nat)
    <2>1. ASSUME NEW m \in T
          PROVE  1 .. m \in FiniteSubsetsOf(Nat)
      <3>1. IsFiniteSet(1 .. m)
        BY FS_Interval
      <3>. QED
        BY <3>1 DEF FiniteSubsetsOf
    <2>. QED
      BY <2>1
  <1>2. U # {}
    OBVIOUS
  <1>. HIDE DEF U
  <1>3. PICK u \in U : \A v \in U : <<v, u>> \notin StrictSubsetOrdering(Nat)
    <2>1. IsWellFoundedOn(StrictSubsetOrdering(Nat), FiniteSubsetsOf(Nat))
      BY FS_StrictSubsetOrderingWellFounded
    <2>. QED
      BY <1>1, <1>2, <2>1, WFMin
  <1>4. PICK n \in T : u = 1 .. n
    BY DEF U
  <1>5. ASSUME NEW m \in T, m < n
        PROVE  FALSE
    <2>1. 1 .. m \in U
      BY DEF U
    <2>2. <<1 .. m, 1 .. n>> \in StrictSubsetOrdering(Nat)
      <3>1. n \in 1 .. n /\ n \notin 1 .. m
        BY <1>5
      <3>. QED
        BY <1>5, <3>1 DEF StrictSubsetOrdering
    <2>. QED
      BY <1>3, <1>4, <2>1, <2>2
  <1>. QED
    BY <1>5


\* Every collection of subsets of a finite set has a minimal one.
LEMMA MinimalSubset ==
  ASSUME NEW S, IsFiniteSet(S), NEW T, T \subseteq SUBSET S, T # {}
  PROVE  \E s \in T : \A t \in T : t \subseteq s => t = s
  <1>1. FiniteSubsetsOf(S) = SUBSET S
    BY FS_FiniteSubsetsOfFinite
  <1>2. IsWellFoundedOn(StrictSubsetOrdering(S), SUBSET S)
    BY <1>1, FS_StrictSubsetOrderingWellFounded
  <1>3. PICK s \in T : \A t \in T : <<t, s>> \notin StrictSubsetOrdering(S)
    BY <1>2, WFMin
  <1>. QED
    BY <1>3 DEF StrictSubsetOrdering

\* The index the fold takes first.
Choice(s) == CHOOSE x \in s : TRUE

\* The step of the fold.
Unfold(g, f, s) == IF s = {} THEN 0 ELSE f[Choice(s)] + g[s \ {Choice(s)}]

Iter(f, S) == CHOOSE g : g = [s \in SUBSET S |-> Unfold(g, f, s)]

\* The fold of the library is that recursion.
LEMMA SumIter ==
  ASSUME NEW f, NEW S
  PROVE  SumFunctionOnSet(f, S) = Iter(f, S)[S]
  BY DEF SumFunctionOnSet, FoldFunctionOnSet, MapThenFoldSet, Choice, Iter, Unfold

\* The terms of a sum are integers.
Ints(f, S) == \A x \in S : f[x] \in Int

\* The recursion has a solution: by the size of the subsets it is solved for.
LEMMA IterExists ==
  ASSUME NEW f, NEW S, IsFiniteSet(S), Ints(f, S)
  PROVE  \E g \in [SUBSET S -> Int] : g = [s \in SUBSET S |-> Unfold(g, f, s)]
  <1>. DEFINE Solves(g, n) == \A s \in SUBSET S :
                  Cardinality(s) <= n => g[s] = Unfold(g, f, s)
              K == {n \in Nat : ~ \E g \in [SUBSET S -> Int] : Solves(g, n)}
  <1>1. \A s \in SUBSET S : IsFiniteSet(s) /\ Cardinality(s) \in Nat
    BY FS_Subset, FS_CardinalityType
  <1>2. 0 \notin K
    <2>. DEFINE g == [s \in SUBSET S |-> 0]
    <2>1. g \in [SUBSET S -> Int]
      OBVIOUS
    <2>2. ASSUME NEW s \in SUBSET S, Cardinality(s) <= 0
          PROVE  g[s] = Unfold(g, f, s)
      <3>1. s = {}
        BY <1>1, <2>2, FS_EmptySet
      <3>. QED
        BY <3>1 DEF Unfold
    <2>. HIDE DEF g
    <2>. QED
      BY <2>1, <2>2
  <1>3. ASSUME NEW n \in Nat, n \notin K
        PROVE  n + 1 \notin K
    <2>1. PICK g \in [SUBSET S -> Int] : Solves(g, n)
      BY <1>3
    <2>. DEFINE h == [s \in SUBSET S |-> Unfold(g, f, s)]
    <2>2. ASSUME NEW s \in SUBSET S, s # {}
          PROVE  /\ Choice(s) \in s /\ s \ {Choice(s)} \in SUBSET S
                 /\ Cardinality(s \ {Choice(s)}) = Cardinality(s) - 1
      BY <1>1, <2>2, FS_RemoveElement DEF Choice
    <2>3. ASSUME NEW s \in SUBSET S
          PROVE  Unfold(g, f, s) \in Int
      <3>1. CASE s = {}
        BY <3>1 DEF Unfold
      <3>2. CASE s # {}
        <4>1. f[Choice(s)] \in Int /\ g[s \ {Choice(s)}] \in Int
          BY <2>1, <2>2, <3>2 DEF Ints
        <4>. QED
          BY <3>2, <4>1 DEF Unfold
      <3>. QED
        BY <3>1, <3>2
    <2>4. h \in [SUBSET S -> Int]
      BY <2>3
    <2>5. ASSUME NEW s \in SUBSET S, Cardinality(s) <= n + 1
          PROVE  h[s] = Unfold(h, f, s)
      <3>1. CASE s = {}
        BY <3>1 DEF Unfold
      <3>2. CASE s # {}
        <4>. DEFINE t == s \ {Choice(s)}
        <4>1. t \in SUBSET S /\ Cardinality(t) <= n
          BY <1>1, <2>2, <2>5, <3>2
        <4>2. h[t] = g[t]
          BY <2>1, <4>1
        <4>. QED
          BY <3>2, <4>2 DEF Unfold
      <3>. QED
        BY <3>1, <3>2
    <2>. HIDE DEF h
    <2>. QED
      BY <2>4, <2>5
  <1>4. K = {}
    <2>. SUFFICES ASSUME K # {} PROVE FALSE
      OBVIOUS
    <2>1. PICK n \in K : \A m \in K : n <= m
      <3>1. K \subseteq Nat
        OBVIOUS
      <3>. HIDE DEF K
      <3>. QED
        BY <3>1, LeastNat
    <2>2. n \in Nat /\ n # 0
      BY <1>2
    <2>. HIDE DEF K
    <2>3. n - 1 \in Nat /\ n - 1 \notin K
      BY <2>1, <2>2
    <2>. QED
      BY <1>3, <2>1, <2>2, <2>3
  <1>5. PICK g \in [SUBSET S -> Int] : Solves(g, Cardinality(S))
    BY <1>1, <1>4
  <1>6. \A s \in SUBSET S : g[s] = Unfold(g, f, s)
    <2>1. \A s \in SUBSET S : Cardinality(s) <= Cardinality(S)
      BY FS_Subset
    <2>. QED
      BY <1>5, <2>1
  <1>7. g = [s \in SUBSET S |-> Unfold(g, f, s)]
    BY <1>6
  <1>. QED
    BY <1>7

\* And only one, which Iter therefore is.
LEMMA IterDef ==
  ASSUME NEW f, NEW S, IsFiniteSet(S), Ints(f, S)
  PROVE  /\ Iter(f, S) \in [SUBSET S -> Int]
         /\ \A s \in SUBSET S : Iter(f, S)[s] = Unfold(Iter(f, S), f, s)
  <1>. DEFINE Sol(g) == g = [s \in SUBSET S |-> Unfold(g, f, s)]
  <1>1. PICK g \in [SUBSET S -> Int] : Sol(g)
    BY IterExists
  <1>2. ASSUME NEW h, Sol(h)
        PROVE  h = g
    <2>. DEFINE D == {s \in SUBSET S : h[s] # g[s]}
    <2>1. \A s \in SUBSET S : h[s] = Unfold(h, f, s) /\ g[s] = Unfold(g, f, s)
      BY <1>1, <1>2
    <2>2. D = {}
      <3>. SUFFICES ASSUME D # {} PROVE FALSE
        OBVIOUS
      <3>1. PICK s \in D : \A t \in D : t \subseteq s => t = s
        <4>1. D \subseteq SUBSET S
          OBVIOUS
        <4>. HIDE DEF D
        <4>. QED
          BY <4>1, MinimalSubset
      <3>2. s # {}
        BY <2>1 DEF Unfold
      <3>3. Choice(s) \in s
        BY <3>2 DEF Choice
      <3>4. s \ {Choice(s)} \notin D
        BY <3>1, <3>3
      <3>5. h[s \ {Choice(s)}] = g[s \ {Choice(s)}]
        BY <3>4
      <3>. QED
        BY <2>1, <3>2, <3>5 DEF Unfold
    <2>3. \A s \in SUBSET S : h[s] = g[s]
      BY <2>2
    <2>4. h = [s \in SUBSET S |-> h[s]] /\ g = [s \in SUBSET S |-> g[s]]
      BY <1>1, <1>2
    <2>. QED
      BY <2>3, <2>4
  <1>3. Iter(f, S) = g
    <2>1. Sol(Iter(f, S))
      BY <1>1 DEF Iter
    <2>. HIDE DEF Sol
    <2>. QED
      BY <1>2, <2>1
  <1>. QED
    BY <1>1, <1>3

-----------------------------------------------------------------------------
\* The recursion over a larger set gives a subset the same sum.
LEMMA IterOfSubset ==
  ASSUME NEW f, NEW S, IsFiniteSet(S), Ints(f, S), NEW T \in SUBSET S
  PROVE  Iter(f, S)[T] = Iter(f, T)[T]
  <1>. DEFINE D == {s \in SUBSET T : Iter(f, S)[s] # Iter(f, T)[s]}
  <1>1. IsFiniteSet(T) /\ Ints(f, T)
    BY FS_Subset DEF Ints
  <1>2. \A s \in SUBSET T : /\ Iter(f, S)[s] = Unfold(Iter(f, S), f, s)
                            /\ Iter(f, T)[s] = Unfold(Iter(f, T), f, s)
    BY <1>1, IterDef
  <1>3. ASSUME D # {}
        PROVE  FALSE
    <2>1. PICK s \in D : \A t \in D : t \subseteq s => t = s
      <3>1. D \subseteq SUBSET T
        OBVIOUS
      <3>. HIDE DEF D
      <3>. QED
        BY <1>1, <1>3, <3>1, MinimalSubset
    <2>2. s # {} /\ s \in SUBSET T
      BY <1>2 DEF Unfold
    <2>3. Choice(s) \in s
      BY <2>2 DEF Choice
    <2>4. s \ {Choice(s)} \notin D
      BY <2>1, <2>3
    <2>5. Iter(f, S)[s \ {Choice(s)}] = Iter(f, T)[s \ {Choice(s)}]
      BY <2>2, <2>4
    <2>. QED
      BY <1>2, <2>2, <2>5 DEF Unfold
  <1>. QED
    BY <1>3

\* The sum over no index, and over one index more.
LEMMA SumFirst ==
  ASSUME NEW f, NEW S, IsFiniteSet(S), Ints(f, S)
  PROVE  /\ SumFunctionOnSet(f, S) \in Int
         /\ S = {} => SumFunctionOnSet(f, S) = 0
         /\ S # {} => /\ Choice(S) \in S
                      /\ SumFunctionOnSet(f, S)
                           = f[Choice(S)] + SumFunctionOnSet(f, S \ {Choice(S)})
  <1>1. /\ Iter(f, S) \in [SUBSET S -> Int]
        /\ Iter(f, S)[S] = Unfold(Iter(f, S), f, S)
    BY IterDef
  <1>2. SumFunctionOnSet(f, S) = Iter(f, S)[S]
    BY SumIter
  <1>3. ASSUME S # {}
        PROVE  /\ Choice(S) \in S
               /\ Iter(f, S)[S \ {Choice(S)}]
                     = SumFunctionOnSet(f, S \ {Choice(S)})
    <2>1. Choice(S) \in S
      BY <1>3 DEF Choice
    <2>2. Iter(f, S)[S \ {Choice(S)}] = Iter(f, S \ {Choice(S)})[S \ {Choice(S)}]
      BY IterOfSubset
    <2>. QED
      BY <2>1, <2>2, SumIter
  <1>. QED
    BY <1>1, <1>2, <1>3 DEF Unfold

\* Any index can be taken out of a sum.
LEMMA SumRemove ==
  ASSUME NEW f, NEW S, IsFiniteSet(S), Ints(f, S), NEW x \in S
  PROVE  SumFunctionOnSet(f, S) = f[x] + SumFunctionOnSet(f, S \ {x})
  <1>. DEFINE D == {s \in SUBSET S : \E y \in s :
                 SumFunctionOnSet(f, s) # f[y] + SumFunctionOnSet(f, s \ {y})}
  <1>1. \A s \in SUBSET S : IsFiniteSet(s) /\ Ints(f, s)
    BY FS_Subset DEF Ints
  <1>2. ASSUME D # {}
        PROVE  FALSE
    <2>1. PICK s \in D : \A t \in D : t \subseteq s => t = s
      <3>1. D \subseteq SUBSET S
        OBVIOUS
      <3>. HIDE DEF D
      <3>. QED
        BY <1>2, <3>1, MinimalSubset
    <2>2. PICK y \in s :
             SumFunctionOnSet(f, s) # f[y] + SumFunctionOnSet(f, s \ {y})
      OBVIOUS
    <2>. DEFINE c == Choice(s)
    <2>3. /\ c \in s
          /\ SumFunctionOnSet(f, s) = f[c] + SumFunctionOnSet(f, s \ {c})
      BY <1>1, <2>2, SumFirst
    <2>4. c # y
      BY <2>2, <2>3
    <2>. HIDE DEF c
    <2>5. s \ {c} \notin D /\ s \ {y} \notin D
      BY <2>1, <2>2, <2>3
    <2>. DEFINE w == (s \ {c}) \ {y}
    <2>6. SumFunctionOnSet(f, s \ {c}) = f[y] + SumFunctionOnSet(f, w)
      BY <2>2, <2>4, <2>5
    <2>7. SumFunctionOnSet(f, s \ {y}) = f[c] + SumFunctionOnSet(f, w)
      <3>1. SumFunctionOnSet(f, s \ {y})
               = f[c] + SumFunctionOnSet(f, (s \ {y}) \ {c})
        BY <2>3, <2>4, <2>5
      <3>2. w = (s \ {y}) \ {c}
        OBVIOUS
      <3>. QED
        BY <3>1, <3>2, Zenon
    <2>8. SumFunctionOnSet(f, w) \in Int /\ f[y] \in Int /\ f[c] \in Int
      <3>1. w \in SUBSET S
        OBVIOUS
      <3>. HIDE DEF w
      <3>. QED
        BY <1>1, <2>2, <2>3, <3>1, SumFirst DEF Ints
    <2>. HIDE DEF D, w
    <2>9. SumFunctionOnSet(f, s) = f[y] + SumFunctionOnSet(f, s \ {y})
      BY <2>3, <2>6, <2>7, <2>8
    <2>. QED
      BY <2>2, <2>9
  <1>. QED
    BY <1>2

\* Sums of smaller terms are smaller.
LEMMA SumMonotone ==
  ASSUME NEW f, NEW g, NEW S, IsFiniteSet(S), Ints(f, S), Ints(g, S),
         \A x \in S : f[x] <= g[x]
  PROVE  SumFunctionOnSet(f, S) <= SumFunctionOnSet(g, S)
  <1>. DEFINE D == {s \in SUBSET S :
                       ~ (SumFunctionOnSet(f, s) <= SumFunctionOnSet(g, s))}
  <1>1. \A s \in SUBSET S : IsFiniteSet(s) /\ Ints(f, s) /\ Ints(g, s)
    BY FS_Subset DEF Ints
  <1>2. ASSUME D # {}
        PROVE  FALSE
    <2>1. PICK s \in D : \A t \in D : t \subseteq s => t = s
      <3>1. D \subseteq SUBSET S
        OBVIOUS
      <3>. HIDE DEF D
      <3>. QED
        BY <1>2, <3>1, MinimalSubset
    <2>2. s # {}
      <3>1. s = {} => /\ SumFunctionOnSet(f, s) = 0
                      /\ SumFunctionOnSet(g, s) = 0
        BY <1>1, SumFirst
      <3>2. ~ (SumFunctionOnSet(f, s) <= SumFunctionOnSet(g, s))
        OBVIOUS
      <3>. HIDE DEF D
      <3>. QED
        BY <3>1, <3>2
    <2>3. PICK x \in s : TRUE
      BY <2>2
    <2>4. s \ {x} \in SUBSET S /\ s \ {x} \notin D
      BY <2>1, <2>3
    <2>5. /\ SumFunctionOnSet(f, s) = f[x] + SumFunctionOnSet(f, s \ {x})
          /\ SumFunctionOnSet(g, s) = g[x] + SumFunctionOnSet(g, s \ {x})
      BY <1>1, <2>3, SumRemove
    <2>6. /\ SumFunctionOnSet(f, s \ {x}) \in Int
          /\ SumFunctionOnSet(g, s \ {x}) \in Int
          /\ f[x] \in Int /\ g[x] \in Int
      BY <1>1, <2>3, <2>4, SumFirst DEF Ints
    <2>7. SumFunctionOnSet(f, s \ {x}) <= SumFunctionOnSet(g, s \ {x})
      BY <2>4
    <2>8. ~ (SumFunctionOnSet(f, s) <= SumFunctionOnSet(g, s)) /\ f[x] <= g[x]
      BY <2>3
    <2>. HIDE DEF D
    <2>. QED
      BY <2>5, <2>6, <2>7, <2>8
  <1>. QED
    BY <1>2

\* A linear combination, term by term.
LEMMA SumLinear ==
  ASSUME NEW f, NEW g, NEW h, NEW S, IsFiniteSet(S),
         Ints(f, S), Ints(g, S), NEW a \in Int, NEW b \in Int,
         \A x \in S : h[x] = a * f[x] + b * g[x]
  PROVE  SumFunctionOnSet(h, S)
            = a * SumFunctionOnSet(f, S) + b * SumFunctionOnSet(g, S)
  <1>. DEFINE Good(s) == SumFunctionOnSet(h, s)
                 = a * SumFunctionOnSet(f, s) + b * SumFunctionOnSet(g, s)
              D == {s \in SUBSET S : ~ Good(s)}
  <1>1. Ints(h, S)
    BY DEF Ints
  <1>2. \A s \in SUBSET S :
           IsFiniteSet(s) /\ Ints(f, s) /\ Ints(g, s) /\ Ints(h, s)
    BY <1>1, FS_Subset DEF Ints
  <1>3. ASSUME D # {}
        PROVE  FALSE
    <2>1. PICK s \in D : \A t \in D : t \subseteq s => t = s
      <3>1. D \subseteq SUBSET S
        OBVIOUS
      <3>. HIDE DEF D
      <3>. QED
        BY <1>3, <3>1, MinimalSubset
    <2>2. s # {}
      <3>1. ASSUME s = {}
            PROVE  Good(s)
        <4>1. /\ SumFunctionOnSet(f, s) = 0 /\ SumFunctionOnSet(g, s) = 0
              /\ SumFunctionOnSet(h, s) = 0
          BY <1>2, <3>1, SumFirst
        <4>. QED
          BY <4>1
      <3>. QED
        BY <3>1
    <2>3. PICK x \in s : TRUE
      BY <2>2
    <2>4. s \ {x} \in SUBSET S /\ s \ {x} \notin D
      BY <2>1, <2>3
    <2>5. /\ SumFunctionOnSet(f, s) = f[x] + SumFunctionOnSet(f, s \ {x})
          /\ SumFunctionOnSet(g, s) = g[x] + SumFunctionOnSet(g, s \ {x})
          /\ SumFunctionOnSet(h, s) = h[x] + SumFunctionOnSet(h, s \ {x})
      BY <1>2, <2>3, SumRemove
    <2>6. /\ SumFunctionOnSet(f, s \ {x}) \in Int
          /\ SumFunctionOnSet(g, s \ {x}) \in Int
          /\ f[x] \in Int /\ g[x] \in Int
      BY <1>2, <2>3, <2>4, SumFirst DEF Ints
    <2>7. Good(s \ {x})
      BY <2>4
    <2>8. ~ Good(s) /\ h[x] = a * f[x] + b * g[x]
      BY <2>3
    <2>. HIDE DEF D
    <2>9. \A p, q, u, v \in Int :
             a * p + b * q + (a * u + b * v) = a * (p + u) + b * (q + v)
      OBVIOUS
    <2>10. Good(s)
      BY <2>5, <2>6, <2>7, <2>8, <2>9
    <2>. QED
      BY <2>8, <2>10
  <1>. QED
    BY <1>3

\* Terms are multiplied together.
LEMMA SumTimes ==
  ASSUME NEW f, NEW h, NEW S, IsFiniteSet(S), Ints(f, S), NEW a \in Int,
         \A x \in S : h[x] = a * f[x]
  PROVE  /\ SumFunctionOnSet(h, S) = a * SumFunctionOnSet(f, S)
         /\ SumFunctionOnSet(h, S) \in Int
  <1>1. \A x \in S : h[x] = a * f[x] + 0 * f[x]
    BY DEF Ints
  <1>2. SumFunctionOnSet(f, S) \in Int
    BY SumFirst
  <1>3. SumFunctionOnSet(h, S)
           = a * SumFunctionOnSet(f, S) + 0 * SumFunctionOnSet(f, S)
    BY <1>1, <1>2, SumLinear
  <1>. QED
    BY <1>2, <1>3

\* Equal terms, equal sums.
LEMMA SumSame ==
  ASSUME NEW f, NEW g, NEW S, IsFiniteSet(S), Ints(f, S),
         \A x \in S : f[x] = g[x]
  PROVE  SumFunctionOnSet(f, S) = SumFunctionOnSet(g, S)
  <1>1. Ints(g, S) /\ \A x \in S : f[x] <= g[x] /\ g[x] <= f[x]
    BY DEF Ints
  <1>2. /\ SumFunctionOnSet(f, S) <= SumFunctionOnSet(g, S)
        /\ SumFunctionOnSet(g, S) <= SumFunctionOnSet(f, S)
    BY <1>1, SumMonotone
  <1>3. SumFunctionOnSet(f, S) \in Int /\ SumFunctionOnSet(g, S) \in Int
    BY <1>1, SumFirst
  <1>. QED
    BY <1>2, <1>3

\* Equal terms are as many times the term.
LEMMA SumConstant ==
  ASSUME NEW f, NEW S, IsFiniteSet(S), NEW k \in Int, \A x \in S : f[x] = k
  PROVE  SumFunctionOnSet(f, S) = k * Cardinality(S)
  <1>. DEFINE Good(s) == SumFunctionOnSet(f, s) = k * Cardinality(s)
              D == {s \in SUBSET S : ~ Good(s)}
  <1>1. \A s \in SUBSET S :
           IsFiniteSet(s) /\ Ints(f, s) /\ Cardinality(s) \in Nat
    BY FS_Subset, FS_CardinalityType DEF Ints
  <1>2. ASSUME D # {}
        PROVE  FALSE
    <2>1. PICK s \in D : \A t \in D : t \subseteq s => t = s
      <3>1. D \subseteq SUBSET S
        OBVIOUS
      <3>. HIDE DEF D
      <3>. QED
        BY <1>2, <3>1, MinimalSubset
    <2>2. s # {}
      <3>1. ASSUME s = {}
            PROVE  Good(s)
        <4>1. SumFunctionOnSet(f, s) = 0 /\ Cardinality(s) = 0
          BY <1>1, <3>1, SumFirst, FS_EmptySet
        <4>. QED
          BY <4>1
      <3>. QED
        BY <3>1
    <2>3. PICK x \in s : TRUE
      BY <2>2
    <2>4. s \ {x} \in SUBSET S /\ s \ {x} \notin D
      BY <2>1, <2>3
    <2>5. /\ SumFunctionOnSet(f, s) = f[x] + SumFunctionOnSet(f, s \ {x})
          /\ Cardinality(s) = Cardinality(s \ {x}) + 1
      <3>1. Cardinality(s \ {x}) = Cardinality(s) - 1
        BY <1>1, <2>3, FS_RemoveElement
      <3>. QED
        BY <1>1, <2>3, <3>1, SumRemove
    <2>6. Cardinality(s \ {x}) \in Nat /\ f[x] = k
      BY <1>1, <2>3, <2>4
    <2>7. Good(s \ {x})
      BY <2>4
    <2>8. ~ Good(s)
      BY <2>3
    <2>. HIDE DEF D
    <2>9. \A n \in Nat : k + k * n = k * (n + 1)
      OBVIOUS
    <2>. QED
      BY <2>5, <2>6, <2>7, <2>8, <2>9
  <1>. QED
    BY <1>2

\* Indices whose term is zero do not count.
LEMMA SumNonzero ==
  ASSUME NEW f, NEW S, IsFiniteSet(S), Ints(f, S), NEW T \in SUBSET S,
         \A x \in S \ T : f[x] = 0
  PROVE  SumFunctionOnSet(f, S) = SumFunctionOnSet(f, T)
  <1>. DEFINE Good(s) == SumFunctionOnSet(f, s) = SumFunctionOnSet(f, s \cap T)
              D == {s \in SUBSET S : ~ Good(s)}
  <1>1. \A s \in SUBSET S : IsFiniteSet(s) /\ Ints(f, s)
    BY FS_Subset DEF Ints
  <1>2. ASSUME D # {}
        PROVE  FALSE
    <2>1. PICK s \in D : \A t \in D : t \subseteq s => t = s
      <3>1. D \subseteq SUBSET S
        OBVIOUS
      <3>. HIDE DEF D
      <3>. QED
        BY <1>2, <3>1, MinimalSubset
    <2>2. PICK x \in s : x \notin T
      <3>1. ASSUME s \cap T = s
            PROVE  Good(s)
        BY <3>1
      <3>. QED
        BY <3>1
    <2>3. s \ {x} \in SUBSET S /\ s \ {x} \notin D
      BY <2>1, <2>2
    <2>4. SumFunctionOnSet(f, s) = f[x] + SumFunctionOnSet(f, s \ {x})
      BY <1>1, <2>2, SumRemove
    <2>5. SumFunctionOnSet(f, s \ {x}) \in Int /\ f[x] = 0
      BY <1>1, <2>2, <2>3, SumFirst
    <2>6. (s \ {x}) \cap T = s \cap T
      BY <2>2
    <2>7. Good(s \ {x})
      BY <2>3
    <2>8. ~ Good(s)
      BY <2>2
    <2>9. Good(s)
      <3>1. SumFunctionOnSet(f, s) = SumFunctionOnSet(f, s \ {x})
        BY <2>4, <2>5
      <3>2. SumFunctionOnSet(f, s \ {x}) = SumFunctionOnSet(f, s \cap T)
        BY <2>6, <2>7, Zenon
      <3>. QED
        BY <3>1, <3>2
    <2>. QED
      BY <2>8, <2>9
  <1>3. Good(S)
    BY <1>2
  <1>4. S \cap T = T
    OBVIOUS
  <1>. QED
    BY <1>3, <1>4

\* No negative term, no negative sum.
LEMMA SumNatural ==
  ASSUME NEW f, NEW S, IsFiniteSet(S), \A x \in S : f[x] \in Nat
  PROVE  SumFunctionOnSet(f, S) \in Nat
  <1>. DEFINE zero == [x \in S |-> 0]
  <1>1. Ints(f, S) /\ Ints(zero, S) /\ \A x \in S : zero[x] <= f[x]
    BY DEF Ints
  <1>2. \A x \in S : zero[x] = 0
    OBVIOUS
  <1>. HIDE DEF zero
  <1>3. SumFunctionOnSet(zero, S) = 0 * Cardinality(S)
    BY <1>2, SumConstant
  <1>4. SumFunctionOnSet(zero, S) = 0
    BY <1>3, FS_CardinalityType
  <1>5. SumFunctionOnSet(zero, S) <= SumFunctionOnSet(f, S)
    BY <1>1, SumMonotone
  <1>6. SumFunctionOnSet(f, S) \in Int
    BY <1>1, SumFirst
  <1>. QED
    BY <1>4, <1>5, <1>6

\* Sums of one and of two terms.
LEMMA SumPair ==
  ASSUME NEW f, NEW x, NEW y, x # y, f[x] \in Int, f[y] \in Int
  PROVE  /\ SumFunctionOnSet(f, {}) = 0
         /\ SumFunctionOnSet(f, {x}) = f[x]
         /\ SumFunctionOnSet(f, {x, y}) = f[x] + f[y]
  <1>1. /\ IsFiniteSet({}) /\ IsFiniteSet({x}) /\ IsFiniteSet({x, y})
    <2>1. IsFiniteSet({x}) /\ IsFiniteSet({})
      BY FS_EmptySet, FS_Singleton
    <2>2. IsFiniteSet({x} \union {y})
      BY <2>1, FS_AddElement
    <2>3. {x, y} = {x} \union {y}
      OBVIOUS
    <2>. QED
      BY <2>1, <2>2, <2>3, Zenon
  <1>2. Ints(f, {}) /\ Ints(f, {x}) /\ Ints(f, {x, y})
    BY DEF Ints
  <1>3. SumFunctionOnSet(f, {}) = 0
    BY <1>1, <1>2, SumFirst
  <1>4. SumFunctionOnSet(f, {x}) = f[x]
    <2>1. SumFunctionOnSet(f, {x}) = f[x] + SumFunctionOnSet(f, {x} \ {x})
      BY <1>1, <1>2, SumRemove
    <2>2. {x} \ {x} = {}
      OBVIOUS
    <2>3. SumFunctionOnSet(f, {x}) = f[x] + SumFunctionOnSet(f, {})
      BY <2>1, <2>2, Zenon
    <2>. QED
      BY <1>3, <2>3
  <1>5. SumFunctionOnSet(f, {x, y}) = f[x] + f[y]
    <2>1. SumFunctionOnSet(f, {x, y}) = f[y] + SumFunctionOnSet(f, {x, y} \ {y})
      BY <1>1, <1>2, SumRemove
    <2>2. {x, y} \ {y} = {x}
      OBVIOUS
    <2>3. SumFunctionOnSet(f, {x, y}) = f[y] + SumFunctionOnSet(f, {x})
      BY <2>1, <2>2, Zenon
    <2>. QED
      BY <1>4, <2>3
  <1>. QED
    BY <1>3, <1>4, <1>5

\* A sum in two parts; a part of a sum of naturals is not more than the whole.
LEMMA SumSplit ==
  ASSUME NEW f, NEW S, IsFiniteSet(S), Ints(f, S), NEW T \in SUBSET S
  PROVE  SumFunctionOnSet(f, S)
            = SumFunctionOnSet(f, T) + SumFunctionOnSet(f, S \ T)
  <1>. DEFINE a == [x \in S |-> IF x \in T THEN f[x] ELSE 0]
              b == [x \in S |-> IF x \in T THEN 0 ELSE f[x]]
  <1>1. /\ Ints(a, S) /\ Ints(b, S)
        /\ \A x \in S : f[x] = 1 * a[x] + 1 * b[x]
        /\ \A x \in S \ T : a[x] = 0
        /\ \A x \in S \ (S \ T) : b[x] = 0
        /\ \A x \in T : a[x] = f[x]
        /\ \A x \in S \ T : b[x] = f[x]
    BY DEF Ints
  <1>2. /\ S \ T \in SUBSET S /\ Ints(a, T) /\ Ints(b, S \ T)
        /\ IsFiniteSet(T) /\ IsFiniteSet(S \ T)
    BY <1>1, FS_Subset DEF Ints
  <1>. HIDE DEF a, b
  <1>3. SumFunctionOnSet(f, S)
           = 1 * SumFunctionOnSet(a, S) + 1 * SumFunctionOnSet(b, S)
    BY <1>1, SumLinear
  <1>4. SumFunctionOnSet(a, S) = SumFunctionOnSet(a, T)
    BY <1>1, SumNonzero
  <1>5. SumFunctionOnSet(b, S) = SumFunctionOnSet(b, S \ T)
    BY <1>1, <1>2, SumNonzero
  <1>6. SumFunctionOnSet(a, T) = SumFunctionOnSet(f, T)
    BY <1>1, <1>2, SumSame
  <1>7. SumFunctionOnSet(b, S \ T) = SumFunctionOnSet(f, S \ T)
    BY <1>1, <1>2, SumSame
  <1>8. SumFunctionOnSet(a, S) \in Int /\ SumFunctionOnSet(b, S) \in Int
    BY <1>1, SumFirst
  <1>. QED
    BY <1>3, <1>4, <1>5, <1>6, <1>7, <1>8

LEMMA SumPart ==
  ASSUME NEW f, NEW S, IsFiniteSet(S), \A x \in S : f[x] \in Nat,
         NEW T \in SUBSET S
  PROVE  SumFunctionOnSet(f, T) <= SumFunctionOnSet(f, S)
  <1>1. Ints(f, S)
    BY DEF Ints
  <1>2. SumFunctionOnSet(f, S)
           = SumFunctionOnSet(f, T) + SumFunctionOnSet(f, S \ T)
    BY <1>1, SumSplit
  <1>3. IsFiniteSet(T) /\ IsFiniteSet(S \ T)
    BY FS_Subset
  <1>4. SumFunctionOnSet(f, T) \in Nat /\ SumFunctionOnSet(f, S \ T) \in Nat
    BY <1>3, SumNatural
  <1>. QED
    BY <1>2, <1>4
=============================================================================
