---------------------------- MODULE PuzzleProofs ----------------------------
(***************************************************************************)
(* Puzzles: the verdict on one (Boards), for every set of puzzles, digit   *)
(* ceiling and budget; then what the generators build (Generator), for     *)
(* every seed, size and vocabulary.                                        *)
(*                                                                         *)
(* The search looks only at the regions of the cell it has just filled;    *)
(* DeepHolds is why that is enough.  What it has handed over is always     *)
(* what its trail has left behind, and nothing else (ExactInv), so when    *)
(* the trail is empty it has seen every assignment; pruning throws none of *)
(* them away (PassesIsSatisfies), and the assignments of the numbered      *)
(* cells are the fillings of the board (SolutionsArePassing).              *)
(*                                                                         *)
(* A generator is right whatever it draws: a draw stays below its bound    *)
(* and a shuffle loses nothing, so a Latin square is one, the cages        *)
(* partition the board, a Kakuro fill repeats no digit in a run and a laid *)
(* word can be read.  Of a candidate the contract then has nothing to say  *)
(* but that its solution is not the only one.                              *)
(***************************************************************************)
EXTENDS Generator, SequenceTheorems, FiniteSetTheorems, TLAPS

USE BoundsAssumption DEF SolutionLimit, BoundsAssumption

-----------------------------------------------------------------------------
\* Sums over a finite set.

\* Of any set of subsets of a finite set, one has no other of them inside it.
LEMMA SmallestSubset ==
    ASSUME NEW S, IsFiniteSet(S), NEW T, T \subseteq SUBSET S, T # {}
    PROVE  \E x \in T : \A y \in T : y \subseteq x => y = x
<1> DEFINE R == StrictSubsetOrdering(S)
<1>1. IsWellFoundedOn(R, SUBSET S)
  BY FS_StrictSubsetOrderingWellFounded, FS_FiniteSubsetsOfFinite
<1>2. \A y, x \in SUBSET S : (y \subseteq x /\ y # x) => <<y, x>> \in R
  BY DEF StrictSubsetOrdering
<1> HIDE DEF R
<1>3. PICK x \in T : \A y \in T : ~(<<y, x>> \in R)
  BY <1>1, WFMin
<1>4. \A y \in T : y \subseteq x => y = x
  <2> TAKE y \in T
  <2>1. y \in SUBSET S /\ x \in SUBSET S /\ ~(<<y, x>> \in R)
    BY <1>3
  <2> QED BY <1>2, <2>1
<1> QED BY <1>4

\* The table by which the community module folds a sum over a set.
One(s) == CHOOSE x \in s : TRUE
Tallies(v, g, S) == g = [s \in SUBSET S |-> IF s = {} THEN 0 ELSE v[One(s)] + g[s \ {One(s)}]]
SumOver(v, S) == (CHOOSE g : Tallies(v, g, S))[S]

\* The sum by which the code's totals are modelled, over the places of its values.
LEMMA TotalIsASum == ASSUME NEW v PROVE Total(v) = SumOver(v, DOMAIN v)
  BY DEF Total, FoldFunction, FoldFunctionOnSet, MapThenFoldSet, SumOver, Tallies, One

\* The element the table takes out of a set is in it.
LEMMA OneOf == ASSUME NEW s, s # {} PROVE One(s) \in s
  BY DEF One

\* Two tables agree wherever their values do.
LEMMA TalliesAgree ==
    ASSUME NEW v, NEW w, NEW g, NEW h, NEW S, NEW T, Tallies(v, g, S), Tallies(w, h, T),
           NEW R, IsFiniteSet(R), R \subseteq S \cap T, \A x \in R : v[x] = w[x]
    PROVE  g[R] = h[R]
<1> SUFFICES ASSUME g[R] # h[R] PROVE FALSE
  OBVIOUS
<1> DEFINE Bad == {s \in SUBSET R : g[s] # h[s]}
<1>0. R \in Bad /\ Bad \subseteq SUBSET R
  OBVIOUS
<1>1. PICK s \in Bad : \A y \in Bad : y \subseteq s => y = s
  <2> HIDE DEF Bad
  <2> QED BY <1>0, SmallestSubset
<1>2. s \subseteq S /\ s \subseteq T
  OBVIOUS
<1>3. /\ g[s] = IF s = {} THEN 0 ELSE v[One(s)] + g[s \ {One(s)}]
      /\ h[s] = IF s = {} THEN 0 ELSE w[One(s)] + h[s \ {One(s)}]
  BY <1>2 DEF Tallies
<1>4. s # {}
  BY <1>3
<1>5. One(s) \in s /\ One(s) \in R
  BY <1>4, OneOf
<1>6. s \ {One(s)} \notin Bad
  BY <1>1, <1>5
<1>7. g[s \ {One(s)}] = h[s \ {One(s)}]
  BY <1>6
<1> QED BY <1>3, <1>4, <1>5, <1>7

\* There is a table of every finite set.
LEMMA TalliesExist ==
    ASSUME NEW v, NEW S, IsFiniteSet(S)
    PROVE  \E g : Tallies(v, g, S)
<1> SUFFICES ASSUME ~\E g : Tallies(v, g, S) PROVE FALSE
  OBVIOUS
<1> DEFINE Bad == {s \in SUBSET S : ~\E g : Tallies(v, g, s)}
<1>0. S \in Bad /\ Bad \subseteq SUBSET S
  OBVIOUS
<1>1. PICK T \in Bad : \A y \in Bad : y \subseteq T => y = T
  <2> HIDE DEF Bad
  <2> QED BY <1>0, SmallestSubset
<1> DEFINE G(s) == CHOOSE g : Tallies(v, g, s)
           val(s) == IF s = {} THEN 0 ELSE v[One(s)] + G(s \ {One(s)})[s \ {One(s)}]
           f == [s \in SUBSET T |-> val(s)]
<1>2. \A s : s \subseteq T /\ s # T => Tallies(v, G(s), s)
  <2> TAKE s
  <2> HAVE s \subseteq T /\ s # T
  <2>1. s \notin Bad /\ s \in SUBSET S
    BY <1>1
  <2>2. \E g : Tallies(v, g, s)
    BY <2>1
  <2> QED BY <2>2
<1>3. \A s : s \subseteq T /\ s # T => G(s)[s] = val(s)
  <2> TAKE s
  <2> HAVE s \subseteq T /\ s # T
  <2> DEFINE r == s \ {One(s)}
  <2>1. Tallies(v, G(s), s)
    BY <1>2
  <2>2. G(s)[s] = IF s = {} THEN 0 ELSE v[One(s)] + G(s)[r]
    BY <2>1 DEF Tallies
  <2>3. ASSUME s # {} PROVE G(s)[r] = G(r)[r]
    <3>1. One(s) \in s /\ r \subseteq T /\ r # T /\ r \subseteq s
      BY <2>3, OneOf
    <3>2. Tallies(v, G(r), r)
      BY <3>1, <1>2
    <3>3. IsFiniteSet(r)
      BY <3>1, FS_Subset
    <3> HIDE DEF G, r
    <3> QED BY <2>1, <3>1, <3>2, <3>3, TalliesAgree
  <2> HIDE DEF G
  <2> QED BY <2>2, <2>3
<1>4. \A s \in SUBSET T : s # {} => f[s \ {One(s)}] = G(s \ {One(s)})[s \ {One(s)}]
  <2> TAKE s \in SUBSET T
  <2> HAVE s # {}
  <2> DEFINE r == s \ {One(s)}
  <2>1. One(s) \in s /\ r \subseteq T /\ r # T
    BY OneOf
  <2>2. f[r] = val(r)
    BY <2>1
  <2> HIDE DEF f, G, val
  <2> QED BY <2>1, <2>2, <1>3
<1>5. f = [s \in SUBSET T |-> IF s = {} THEN 0 ELSE v[One(s)] + f[s \ {One(s)}]]
  <2> DEFINE F == [s \in SUBSET T |-> IF s = {} THEN 0 ELSE v[One(s)] + f[s \ {One(s)}]]
  <2>1. \A s \in SUBSET T : F[s] = f[s]
    <3> TAKE s \in SUBSET T
    <3>1. F[s] = IF s = {} THEN 0 ELSE v[One(s)] + f[s \ {One(s)}]
      OBVIOUS
    <3>2. f[s] = IF s = {} THEN 0 ELSE v[One(s)] + G(s \ {One(s)})[s \ {One(s)}]
      OBVIOUS
    <3> HIDE DEF f, F, G
    <3> QED BY <3>1, <3>2, <1>4
  <2>2. DOMAIN F = SUBSET T /\ DOMAIN f = SUBSET T
    OBVIOUS
  <2>3. F = [s \in SUBSET T |-> F[s]] /\ f = [s \in SUBSET T |-> f[s]]
    OBVIOUS
  <2> HIDE DEF F, f
  <2>4. F = f
    BY <2>1, <2>3
  <2> QED BY <2>4 DEF F
<1>6. Tallies(v, f, T)
  BY <1>5 DEF Tallies
<1> QED BY <1>1, <1>6

\* A sum over a finite set, taken apart as the table takes it apart.
LEMMA SumStep ==
    ASSUME NEW v, NEW S, IsFiniteSet(S)
    PROVE  SumOver(v, S) = IF S = {} THEN 0 ELSE v[One(S)] + SumOver(v, S \ {One(S)})
<1> DEFINE G(s) == CHOOSE g : Tallies(v, g, s)
           r == S \ {One(S)}
<1>1. Tallies(v, G(S), S)
  BY TalliesExist
<1>2. IsFiniteSet(r) /\ Tallies(v, G(r), r)
  BY FS_Subset, TalliesExist
<1>3. G(S)[S] = IF S = {} THEN 0 ELSE v[One(S)] + G(S)[r]
  BY <1>1 DEF Tallies
<1>4. G(S)[r] = G(r)[r]
  <2> HIDE DEF G
  <2>1. r \subseteq S \cap r
    OBVIOUS
  <2> HIDE DEF r
  <2> QED BY <1>1, <1>2, <2>1, TalliesAgree
<1>5. SumOver(v, S) = G(S)[S] /\ SumOver(v, r) = G(r)[r]
  BY DEF SumOver
<1> HIDE DEF G
<1> QED BY <1>3, <1>4, <1>5

\* A sum reads only the values of its own set.
LEMMA SumSame ==
    ASSUME NEW v, NEW w, NEW S, IsFiniteSet(S), \A x \in S : v[x] = w[x]
    PROVE  SumOver(v, S) = SumOver(w, S)
<1>1. Tallies(v, CHOOSE g : Tallies(v, g, S), S)
  BY TalliesExist
<1>2. Tallies(w, CHOOSE g : Tallies(w, g, S), S)
  BY TalliesExist
<1> QED BY <1>1, <1>2, TalliesAgree DEF SumOver

\* A sum of integers is one.
LEMMA SumType ==
    ASSUME NEW v, NEW S, IsFiniteSet(S), \A x \in S : v[x] \in Int
    PROVE  SumOver(v, S) \in Int
<1> SUFFICES ASSUME SumOver(v, S) \notin Int PROVE FALSE
  OBVIOUS
<1> DEFINE Bad == {s \in SUBSET S : SumOver(v, s) \notin Int}
<1>0. S \in Bad /\ Bad \subseteq SUBSET S
  OBVIOUS
<1>1. PICK s \in Bad : \A y \in Bad : y \subseteq s => y = s
  <2> HIDE DEF Bad
  <2> QED BY <1>0, SmallestSubset
<1>2. SumOver(v, s) = IF s = {} THEN 0 ELSE v[One(s)] + SumOver(v, s \ {One(s)})
  BY SumStep, FS_Subset
<1>3. s # {}
  BY <1>2
<1>4. One(s) \in s
  BY <1>3, OneOf
<1>5. s \ {One(s)} \notin Bad /\ s \ {One(s)} \in SUBSET S
  BY <1>1, <1>4
<1>6. SumOver(v, s \ {One(s)}) \in Int /\ v[One(s)] \in Int
  BY <1>4, <1>5
<1> QED BY <1>2, <1>3, <1>6

\* Whatever is taken out first, the sum is the same.
LEMMA SumAny ==
    ASSUME NEW v, NEW S, IsFiniteSet(S), \A x \in S : v[x] \in Int, NEW a \in S
    PROVE  SumOver(v, S) = v[a] + SumOver(v, S \ {a})
<1> DEFINE Off(s) == \E x \in s : SumOver(v, s) # v[x] + SumOver(v, s \ {x})
<1> SUFFICES ASSUME Off(S) PROVE FALSE
  OBVIOUS
<1> DEFINE Bad == {s \in SUBSET S : Off(s)}
<1>0. S \in Bad /\ Bad \subseteq SUBSET S
  OBVIOUS
<1>1. PICK s \in Bad : \A y \in Bad : y \subseteq s => y = s
  <2> HIDE DEF Bad
  <2> QED BY <1>0, SmallestSubset
<1>2. PICK x \in s : SumOver(v, s) # v[x] + SumOver(v, s \ {x})
  OBVIOUS
<1> DEFINE y == One(s)
           t == s \ {x, y}
<1>3. y \in s /\ SumOver(v, s) = v[y] + SumOver(v, s \ {y})
  BY <1>2, SumStep, FS_Subset, OneOf
<1>4. y # x
  BY <1>2, <1>3
<1>5. s \ {y} \notin Bad /\ s \ {x} \notin Bad
  BY <1>1, <1>2, <1>3
<1>6. ~Off(s \ {y}) /\ ~Off(s \ {x})
  BY <1>5
<1>7. (s \ {y}) \ {x} = t /\ (s \ {x}) \ {y} = t
  OBVIOUS
<1> HIDE DEF y, t
<1>8. SumOver(v, s \ {y}) = v[x] + SumOver(v, t) /\ SumOver(v, s \ {x}) = v[y] + SumOver(v, t)
  BY <1>2, <1>3, <1>4, <1>6, <1>7
<1>9. v[x] \in Int /\ v[y] \in Int /\ SumOver(v, t) \in Int
  <2>1. t \subseteq S
    BY DEF t
  <2>2. IsFiniteSet(t)
    BY <2>1, FS_Subset
  <2> QED BY <1>2, <1>3, <2>1, <2>2, SumType
<1> QED BY <1>2, <1>3, <1>8, <1>9

\* A sum of positive numbers grows with every one of them.
LEMMA SumGrows ==
    ASSUME NEW v, NEW S, IsFiniteSet(S), \A x \in S : v[x] \in Nat \ {0},
           NEW T, T \subseteq S, T # S
    PROVE  SumOver(v, T) < SumOver(v, S)
<1> DEFINE Off(s) == T \subseteq s /\ T # s /\ ~(SumOver(v, T) < SumOver(v, s))
<1> SUFFICES ASSUME Off(S) PROVE FALSE
  OBVIOUS
<1> DEFINE Bad == {s \in SUBSET S : Off(s)}
<1>0. S \in Bad /\ Bad \subseteq SUBSET S
  OBVIOUS
<1>1. PICK s \in Bad : \A y \in Bad : y \subseteq s => y = s
  <2> HIDE DEF Bad
  <2> QED BY <1>0, SmallestSubset
<1>2. PICK a \in s : a \notin T
  OBVIOUS
<1> DEFINE r == s \ {a}
<1>3. T \subseteq r /\ r \subseteq S /\ r \subseteq s /\ r # s /\ s \subseteq S
  BY <1>2
<1>4. SumOver(v, s) = v[a] + SumOver(v, r)
  BY <1>3, SumAny, FS_Subset
<1>5. T = r \/ SumOver(v, T) < SumOver(v, r)
  <2>1. r \notin Bad
    BY <1>1, <1>3
  <2> HIDE DEF r
  <2> QED BY <2>1, <1>3
<1>6. v[a] \in Nat \ {0} /\ SumOver(v, r) \in Int /\ SumOver(v, T) \in Int
  <2>1. IsFiniteSet(r) /\ IsFiniteSet(T)
    BY <1>3, FS_Subset
  <2> HIDE DEF r
  <2> QED BY <2>1, <1>3, SumType
<1> HIDE DEF r
<1>7. ~(SumOver(v, T) < SumOver(v, s))
  OBVIOUS
<1> QED BY <1>4, <1>5, <1>6, <1>7

-----------------------------------------------------------------------------
\* The numbers, and folds over a sequence.

\* The least of a set of naturals.
LEMMA LeastIsIn ==
    ASSUME NEW I, I \subseteq Nat, I # {}
    PROVE  \E x \in I : \A y \in I : x <= y
<1>1. PICK x \in I : \A y \in I : ~(<<y, x>> \in OpToRel(<, Nat))
  BY NatLessThanWellFounded, WFMin
<1>2. \A y \in I : x \in Nat /\ y \in Nat /\ ~(y < x)
  BY <1>1, Zenon DEF OpToRel
<1> QED BY <1>2

\* Climbing from 0 to n, a step at a time.
LEMMA Climb ==
    ASSUME NEW n \in Nat, NEW T, 0 \in T, \A k \in 1 .. n : k - 1 \in T => k \in T
    PROVE  \A k \in 0 .. n : k \in T
<1> DEFINE I == {k \in 0 .. n : k \notin T}
<1> SUFFICES ASSUME I # {} PROVE FALSE
  OBVIOUS
<1>1. PICK x \in I : \A y \in I : x <= y
  <2> HIDE DEF I
  <2>1. I \subseteq Nat
    BY DEF I
  <2> QED BY <2>1, LeastIsIn
<1>2. x \in 1 .. n
  OBVIOUS
<1>3. x - 1 \in 0 .. n /\ x - 1 \notin I
  BY <1>1, <1>2
<1> QED BY <1>2, <1>3

\* The first places of a sequence, and the last of them.
LEMMA Firsts ==
    ASSUME NEW n \in Nat, NEW k \in 1 .. n
    PROVE  /\ 1 .. k \in SUBSET (1 .. n) /\ 1 .. k # {}
           /\ Max(1 .. k) = k
           /\ (1 .. k) \ {Max(1 .. k)} = 1 .. (k - 1)
<1>1. 1 .. k \in SUBSET (1 .. n) /\ 1 .. k # {} /\ (1 .. k) \ {k} = 1 .. (k - 1)
  OBVIOUS
<1>2. k \in 1 .. k /\ \A y \in 1 .. k : k >= y
  OBVIOUS
<1>3. \A x \in 1 .. k : (\A y \in 1 .. k : x >= y) => x = k
  BY <1>2
<1>4. Max(1 .. k) = k
  BY <1>2, <1>3 DEF Max
<1> QED BY <1>1, <1>4

\* The last of some places of a sequence.
LEMMA LastIsIn ==
    ASSUME NEW n \in Nat, NEW s \in SUBSET (1 .. n), s # {}
    PROVE  Max(s) \in s /\ \A y \in s : y <= Max(s)
<1> DEFINE J == {n - x : x \in s}
<1>1. J \subseteq Nat /\ J # {}
  <2>1. \A x \in s : n - x \in Nat
    OBVIOUS
  <2> QED BY <2>1
<1>2. PICK j \in J : \A y \in J : j <= y
  <2> HIDE DEF J
  <2> QED BY <1>1, LeastIsIn
<1>3. PICK x \in s : j = n - x
  OBVIOUS
<1>4. \A y \in s : n - y \in J
  OBVIOUS
<1> HIDE DEF J
<1>5. \A y \in s : x >= y
  BY <1>2, <1>3, <1>4
<1>6. \E z \in s : \A y \in s : z >= y
  BY <1>5
<1>7. Max(s) \in s /\ \A y \in s : Max(s) >= y
  BY <1>6 DEF Max
<1> QED BY <1>7

\* The table by which the community module folds a sequence of n elements: a
\* step G takes what the places before the last came to, and the last.
Run(G, base, n, t) ==
    t = [s \in SUBSET (1 .. n) |-> IF s = {} THEN base ELSE G[<<t[s \ {Max(s)}], Max(s)>>]]

\* A base and a step that stay in V; a table that steps so wherever it is in V;
\* and what it comes to, a place after the other.
Steps(G, base, V, n) ==
    n \in Nat /\ base \in V /\ \A v \in V, k \in 1 .. n : G[<<v, k>>] \in V
Follows(t, G, base, V, n) ==
    t[{}] = base /\ \A k \in 1 .. n : t[1 .. (k - 1)] \in V => t[1 .. k] = G[<<t[1 .. (k - 1)], k>>]
Trace(f, G, base, V, n) ==
    f \in [0 .. n -> V] /\ f[0] = base /\ \A k \in 1 .. n : f[k] = G[<<f[k - 1], k>>]

\* There is such a table.
LEMMA RunsExist ==
    ASSUME NEW n, NEW V, NEW base, NEW G, Steps(G, base, V, n)
    PROVE  \E t \in [SUBSET (1 .. n) -> V] : Run(G, base, n, t)
<1>0. n \in Nat /\ base \in V /\ \A v \in V, k \in 1 .. n : G[<<v, k>>] \in V
  BY DEF Steps
<1> DEFINE T == {k \in 0 .. n : \E t \in [SUBSET (1 .. k) -> V] : Run(G, base, k, t)}
<1>1. 0 \in T
  <2> DEFINE t == [s \in SUBSET (1 .. 0) |-> base]
  <2>1. SUBSET (1 .. 0) = {{}}
    OBVIOUS
  <2>2. t \in [SUBSET (1 .. 0) -> V]
    BY <1>0
  <2>3. \A s \in SUBSET (1 .. 0) : base = IF s = {} THEN base ELSE G[<<t[s \ {Max(s)}], Max(s)>>]
    BY <2>1
  <2>4. Run(G, base, 0, t)
    <3>1. t = [s \in SUBSET (1 .. 0) |-> IF s = {} THEN base ELSE G[<<t[s \ {Max(s)}], Max(s)>>]]
      BY <2>3
    <3> HIDE DEF t
    <3> QED BY <3>1 DEF Run
  <2>5. 0 \in 0 .. n
    BY <1>0
  <2> HIDE DEF t
  <2> QED BY <2>2, <2>4, <2>5
<1>2. ASSUME NEW k \in 1 .. n, k - 1 \in T PROVE k \in T
  <2> DEFINE R == SUBSET (1 .. (k - 1))
             S == SUBSET (1 .. k)
  <2>0. k \in Nat
    BY <1>0
  <2>1. PICK h \in [R -> V] : Run(G, base, k - 1, h)
    BY <1>2
  <2> DEFINE t == [s \in S |-> IF k \in s THEN G[<<h[s \ {k}], k>>] ELSE h[s]]
  <2>2. \A s \in S : /\ s \ {k} \in R /\ (k \notin s => s \in R)
                     /\ k \in s => Max(s) = k /\ s # {}
    <3> TAKE s \in S
    <3>0. \A y \in s : y \in 1 .. k
      OBVIOUS
    <3>1. s \ {k} \in R /\ (k \notin s => s \in R)
      <4>1. \A y \in 1 .. k : y # k => y \in 1 .. (k - 1)
        BY <2>0
      <4> QED BY <3>0, <4>1
    <3>2. ASSUME k \in s PROVE Max(s) = k
      <4>1. Max(s) \in s /\ k <= Max(s)
        BY <2>0, <3>2, LastIsIn
      <4>2. Max(s) \in 1 .. k
        BY <3>0, <4>1
      <4> HIDE DEF S, R
      <4> QED BY <2>0, <4>1, <4>2
    <3> QED BY <3>1, <3>2
  <2>3. \A s \in R : s \in S /\ k \notin s /\ t[s] = h[s]
    OBVIOUS
  <2>4. t \in [S -> V]
    <3>1. \A s \in S : (IF k \in s THEN G[<<h[s \ {k}], k>>] ELSE h[s]) \in V
      BY <1>0, <2>1, <2>2
    <3> QED BY <3>1
  <2>5. \A s \in R : h[s] = IF s = {} THEN base ELSE G[<<h[s \ {Max(s)}], Max(s)>>]
    BY <2>1 DEF Run
  <2>6. \A s \in S : t[s] = IF s = {} THEN base ELSE G[<<t[s \ {Max(s)}], Max(s)>>]
    <3> TAKE s \in S
    <3>1. CASE k \in s
      <4>1. t[s] = G[<<h[s \ {k}], k>>]
        BY <3>1
      <4>2. t[s \ {k}] = h[s \ {k}]
        BY <2>2, <2>3
      <4> HIDE DEF t, S, R
      <4> QED BY <3>1, <4>1, <4>2, <2>2
    <3>2. CASE k \notin s
      <4>1. s \in R /\ t[s] = h[s] /\ s \ {Max(s)} \in R
        BY <3>2, <2>2, <2>3
      <4>2. t[s \ {Max(s)}] = h[s \ {Max(s)}]
        BY <4>1, <2>3
      <4> HIDE DEF t, S, R
      <4> QED BY <4>1, <4>2, <2>5
    <3> QED BY <3>1, <3>2
  <2>7. Run(G, base, k, t)
    <3>1. t = [s \in S |-> t[s]]
      OBVIOUS
    <3> HIDE DEF t
    <3>2. t = [s \in S |-> IF s = {} THEN base ELSE G[<<t[s \ {Max(s)}], Max(s)>>]]
      BY <2>6, <3>1
    <3> QED BY <3>2 DEF Run
  <2> HIDE DEF t
  <2> QED BY <2>4, <2>7
<1>3. n \in T
  <2>0. \A k \in 1 .. n : k - 1 \in T => k \in T
    BY <1>2
  <2>1. \A k \in 0 .. n : k \in T
    <3> HIDE DEF T
    <3> QED BY <1>0, <1>1, <2>0, Climb
  <2>2. n \in 0 .. n
    BY <1>0
  <2> HIDE DEF T
  <2> QED BY <2>1, <2>2
<1> QED BY <1>3

\* What a table comes to that follows a step.
LEMMA Unrolled ==
    ASSUME NEW n, NEW V, NEW base, NEW G, Steps(G, base, V, n), NEW t, Follows(t, G, base, V, n)
    PROVE  \E f : Trace(f, G, base, V, n) /\ f[n] = t[1 .. n]
<1> DEFINE f == [k \in 0 .. n |-> t[1 .. k]]
           T == {k \in 0 .. n : t[1 .. k] \in V}
<1>0. /\ n \in Nat /\ base \in V /\ \A v \in V, k \in 1 .. n : G[<<v, k>>] \in V
      /\ t[{}] = base
      /\ \A k \in 1 .. n : t[1 .. (k - 1)] \in V => t[1 .. k] = G[<<t[1 .. (k - 1)], k>>]
  BY DEF Steps, Follows
<1>1. 0 \in T /\ t[1 .. 0] = base
  <2>1. 1 .. 0 = {} /\ 0 \in 0 .. n
    BY <1>0
  <2> QED BY <1>0, <2>1
<1>2. \A k \in 1 .. n : k \in 0 .. n /\ k - 1 \in 0 .. n
  BY <1>0
<1>3. \A k \in 1 .. n : k - 1 \in T => k \in T
  BY <1>0, <1>2
<1>4. \A k \in 0 .. n : k \in T
  <2> HIDE DEF T
  <2> QED BY <1>0, <1>1, <1>3, Climb
<1>5. f \in [0 .. n -> V]
  BY <1>4
<1>6. \A k \in 1 .. n : f[k] = G[<<f[k - 1], k>>]
  BY <1>0, <1>2, <1>4
<1>7. f[0] = base /\ f[n] = t[1 .. n]
  BY <1>0, <1>1
<1> HIDE DEF f
<1> QED BY <1>5, <1>6, <1>7 DEF Trace

\* Keeping the elements of a set, one place of the sequence after another.
Keeps(f, X, s, S) ==
    /\ f \in [0 .. Len(s) -> Seq(X \cap S)] /\ f[0] = <<>> /\ f[Len(s)] = Kept(s, S)
    /\ \A k \in 1 .. Len(s) : f[k] = IF s[k] \in S THEN Append(f[k - 1], s[k]) ELSE f[k - 1]

\* The keeping can be told element by element.
LEMMA KeptRuns ==
    ASSUME NEW X, NEW s \in Seq(X), NEW S
    PROVE  \E f : Keeps(f, X, s, S)
<1> DEFINE n == Len(s)
           V == Seq(X \cap S)
           step(v, e) == IF e \in S THEN Append(v, e) ELSE v
           G == [x \in V \X (1 .. n) |-> step(x[1], s[x[2]])]
           Table(t) == t = [u \in SUBSET (1 .. n) |->
                               IF u = {} THEN <<>> ELSE step(t[u \ {Max(u)}], s[Max(u)])]
           t == CHOOSE t : Table(t)
<1>1. n \in Nat /\ DOMAIN s = 1 .. n /\ <<>> \in V /\ \A k \in 1 .. n : s[k] \in X
  OBVIOUS
<1>2. \A v \in V, k \in 1 .. n : step(v, s[k]) \in V
  <2> TAKE v \in V, k \in 1 .. n
  <2>1. s[k] \in S => s[k] \in X \cap S
    BY <1>1
  <2> QED BY <2>1
<1>3. \A v \in V, k \in 1 .. n : G[<<v, k>>] = step(v, s[k])
  OBVIOUS
<1>4. Steps(G, <<>>, V, n)
  BY <1>1, <1>2, <1>3 DEF Steps
<1>5. PICK h \in [SUBSET (1 .. n) -> V] : Run(G, <<>>, n, h)
  <2> HIDE DEF G, V, n
  <2> QED BY <1>4, RunsExist
<1>6. Table(h)
  <2> HIDE DEF G, V, n, step
  <2>1. \A u \in SUBSET (1 .. n) : u # {} => G[<<h[u \ {Max(u)}], Max(u)>>] = step(h[u \ {Max(u)}], s[Max(u)])
    <3> TAKE u \in SUBSET (1 .. n)
    <3> HAVE u # {}
    <3>1. Max(u) \in 1 .. n /\ h[u \ {Max(u)}] \in V
      BY <1>1, LastIsIn
    <3> QED BY <1>3, <3>1
  <2> QED BY <1>5, <2>1 DEF Run
<1>7. Table(t)
  BY <1>6
<1>8. Kept(s, S) = t[1 .. n]
  BY <1>1 DEF Kept, FoldLeft, MapThenFoldSet
<1> HIDE DEF t
<1>9. Follows(t, G, <<>>, V, n)
  <2>1. t[{}] = <<>>
    BY <1>7
  <2>2. ASSUME NEW k \in 1 .. n, t[1 .. (k - 1)] \in V PROVE t[1 .. k] = G[<<t[1 .. (k - 1)], k>>]
    <3>1. /\ 1 .. k \in SUBSET (1 .. n) /\ 1 .. k # {} /\ Max(1 .. k) = k
          /\ (1 .. k) \ {Max(1 .. k)} = 1 .. (k - 1)
      BY <1>1, Firsts
    <3> HIDE DEF n, step, V, G
    <3> QED BY <1>3, <1>7, <2>2, <3>1
  <2> QED BY <2>1, <2>2 DEF Follows
<1> HIDE DEF G, V, n
<1>10. PICK f : Trace(f, G, <<>>, V, n) /\ f[n] = t[1 .. n]
  BY <1>4, <1>9, Unrolled
<1>11. \A k \in 1 .. n : f[k - 1] \in V /\ f[k] = step(f[k - 1], s[k])
  <2>1. \A k \in 1 .. n : k - 1 \in 0 .. n
    BY <1>1
  <2> QED BY <1>3, <1>10, <2>1 DEF Trace
<1>12. Keeps(f, X, s, S)
  BY <1>8, <1>10, <1>11 DEF V, n, Trace, Keeps
<1> QED BY <1>12

\* What is kept is what the set has of the sequence, each element as often.
LEMMA KeptFacts ==
    ASSUME NEW X, NEW s \in Seq(X), NEW S
    PROVE  /\ Kept(s, S) \in Seq(X \cap S)
           /\ Range(Kept(s, S)) = Range(s) \cap S
           /\ IsInjective(s) => IsInjective(Kept(s, S))
<1> DEFINE n == Len(s)
<1>1. n \in Nat /\ DOMAIN s = 1 .. n /\ \A k \in 1 .. n : s[k] \in X
  OBVIOUS
<1>0. PICK f : Keeps(f, X, s, S)
  BY KeptRuns
<1>2. /\ f \in [0 .. n -> Seq(X \cap S)] /\ f[0] = <<>> /\ f[n] = Kept(s, S)
      /\ \A k \in 1 .. n : f[k] = IF s[k] \in S THEN Append(f[k - 1], s[k]) ELSE f[k - 1]
  BY <1>0 DEF Keeps
<1> DEFINE Good(k) ==
        /\ Range(f[k]) = {s[i] : i \in 1 .. k} \cap S
        /\ IsInjective(s) => IsInjective(f[k])
           T == {k \in 0 .. n : Good(k)}
<1> HIDE DEF n
<1>3. 0 \in T
  <2>1. 1 .. 0 = {} /\ Range(<<>>) = {} /\ IsInjective(<<>>) /\ 0 \in 0 .. n
    BY <1>1 DEF Range, IsInjective
  <2> QED BY <1>2, <2>1
<1>4. ASSUME NEW k \in 1 .. n, Good(k - 1) PROVE Good(k)
  <2>1. k \in 0 .. n /\ k - 1 \in 0 .. n /\ s[k] \in X
    BY <1>1
  <2>2. {s[i] : i \in 1 .. k} = {s[i] : i \in 1 .. (k - 1)} \cup {s[k]}
    <3>1. 1 .. k = (1 .. (k - 1)) \cup {k}
      BY <1>1
    <3> QED BY <3>1
  <2>3. CASE s[k] \notin S
    <3>1. f[k] = f[k - 1]
      BY <1>2, <2>3
    <3> QED BY <1>4, <2>2, <2>3, <3>1
  <2>4. CASE s[k] \in S
    <3> DEFINE g == f[k - 1]
               m == Len(g)
    <3>1. f[k] = Append(g, s[k]) /\ g \in Seq(X \cap S) /\ s[k] \in X \cap S
      BY <1>2, <2>1, <2>4
    <3>2. /\ m \in Nat /\ DOMAIN g = 1 .. m /\ DOMAIN f[k] = 1 .. (m + 1)
          /\ \A i \in 1 .. m : f[k][i] = g[i]
          /\ f[k][m + 1] = s[k]
      <4> HIDE DEF g
      <4> QED BY <3>1
    <3>3. Range(g) = {s[i] : i \in 1 .. (k - 1)} \cap S
      BY <1>4
    <3> HIDE DEF m, g
    <3>4. Range(f[k]) = Range(g) \cup {s[k]}
      <4>1. 1 .. (m + 1) = (1 .. m) \cup {m + 1}
        BY <3>2
      <4> QED BY <3>2, <4>1 DEF Range
    <3>5. Range(f[k]) = {s[i] : i \in 1 .. k} \cap S
      BY <2>2, <2>4, <3>3, <3>4
    <3>6. ASSUME IsInjective(s) PROVE IsInjective(f[k])
      <4>1. s[k] \notin Range(g)
        <5> SUFFICES ASSUME s[k] \in Range(g) PROVE FALSE
          OBVIOUS
        <5>1. PICK i \in 1 .. (k - 1) : s[k] = s[i]
          BY <3>3
        <5>2. i \in 1 .. n /\ i # k
          BY <1>1
        <5> QED BY <1>1, <3>6, <5>1, <5>2 DEF IsInjective
      <4>2. IsInjective(g)
        BY <1>4, <3>6 DEF g
      <4>3. \A i, j \in 1 .. m : g[i] = g[j] => i = j
        BY <3>2, <4>2 DEF IsInjective
      <4>4. \A i \in 1 .. m : g[i] # s[k]
        BY <3>2, <4>1 DEF Range
      <4>5. \A i \in 1 .. (m + 1) : i \in 1 .. m \/ i = m + 1
        BY <3>2
      <4>6. \A i, j \in 1 .. (m + 1) : f[k][i] = f[k][j] => i = j
        BY <3>2, <4>3, <4>4, <4>5
      <4> QED BY <3>2, <4>6 DEF IsInjective
    <3> QED BY <3>5, <3>6
  <2> QED BY <2>3, <2>4
<1>5. \A k \in 1 .. n : k - 1 \in T => k \in T
  <2>1. \A k \in 1 .. n : k \in 0 .. n
    BY <1>1
  <2> QED BY <1>4, <2>1
<1>6. n \in T
  <2>1. n \in 0 .. n
    BY <1>1
  <2> HIDE DEF T
  <2> QED BY <1>1, <1>3, <1>5, <2>1, Climb
<1>7. Range(s) = {s[i] : i \in 1 .. n}
  BY <1>1 DEF Range
<1>8. f[n] \in Seq(X \cap S)
  BY <1>1, <1>2
<1> QED BY <1>2, <1>6, <1>7, <1>8

\* The walk over the board meets each of its cells once.
LEMMA WalkFacts ==
    ASSUME NEW n \in Nat \ {0}
    PROVE  /\ ReadingOrder(n) \in Seq(Cells(n)) /\ IsInjective(ReadingOrder(n))
           /\ DOMAIN ReadingOrder(n) = 1 .. n * n /\ Len(ReadingOrder(n)) = n * n
           /\ n * n \in Nat /\ Range(ReadingOrder(n)) = Cells(n)
<1> DEFINE s == ReadingOrder(n)
           at(i) == <<(i - 1) \div n, (i - 1) % n>>
<1>1. n * n \in Nat /\ s = [i \in 1 .. n * n |-> at(i)]
  BY DEF ReadingOrder
<1>2. \A i \in 1 .. n * n : i - 1 \in 0 .. n * n - 1 /\ i - 1 \in Nat
  BY <1>1
<1>3. \A i \in 0 .. n * n - 1 : i \div n \in 0 .. n - 1 /\ i % n \in 0 .. n - 1 /\ i = n * (i \div n) + (i % n)
  <2> TAKE i \in 0 .. n * n - 1
  <2>1. i \div n \in 0 .. n - 1
    BY SMT
  <2>2. i % n \in 0 .. n - 1 /\ i = n * (i \div n) + (i % n)
    BY SMT
  <2> QED BY <2>1, <2>2
<1>4. \A i \in 1 .. n * n : at(i) \in Cells(n)
  BY <1>2, <1>3 DEF Cells
<1>5. \A i, j \in 1 .. n * n : at(i) = at(j) => i = j
  <2> TAKE i, j \in 1 .. n * n
  <2> HAVE at(i) = at(j)
  <2>1. (i - 1) \div n = (j - 1) \div n /\ (i - 1) % n = (j - 1) % n
    OBVIOUS
  <2>2. i - 1 = j - 1
    BY <1>2, <1>3, <2>1
  <2> QED BY <1>1, <2>2
<1>6. \A a, b \in 0 .. n - 1 : n * a + b + 1 \in 1 .. n * n /\ at(n * a + b + 1) = <<a, b>>
  <2> TAKE a, b \in 0 .. n - 1
  <2>1. (n * a + b) \div n = a /\ (n * a + b) % n = b
    OBVIOUS
  <2>2. n * a + b \in Nat /\ n * a + b < n * n
    <3>1. n * (a + 1) <= n * n /\ n * (a + 1) = n * a + n
      OBVIOUS
    <3> QED BY <3>1
  <2>3. n * a + b + 1 \in 1 .. n * n /\ (n * a + b + 1) - 1 = n * a + b
    BY <1>1, <2>2
  <2> QED BY <2>1, <2>3
<1>7. s \in Seq(Cells(n)) /\ DOMAIN s = 1 .. n * n /\ Len(s) = n * n
  <2> HIDE DEF at
  <2>1. s \in [1 .. n * n -> Cells(n)] 
    BY <1>1, <1>4
  <2> QED BY <1>1, <2>1
<1>8. IsInjective(s)
  <2> HIDE DEF at
  <2>1. \A i \in 1 .. n * n : s[i] = at(i)
    BY <1>1
  <2> QED BY <1>5, <1>7, <2>1 DEF IsInjective
<1>9. Range(s) = Cells(n)
  <2>1. \A i \in 1 .. n * n : s[i] = at(i)
    BY <1>1
  <2>2. ASSUME NEW c \in Cells(n) PROVE c \in Range(s)
    <3>1. PICK a \in 0 .. n - 1, b \in 0 .. n - 1 : c = <<a, b>>
      BY <2>2 DEF Cells
    <3> HIDE DEF s, at
    <3> QED BY <1>6, <1>7, <2>1, <3>1 DEF Range
  <2>3. ASSUME NEW c \in Range(s) PROVE c \in Cells(n)
    <3> HIDE DEF s, at
    <3> QED BY <1>4, <1>7, <2>1, <2>3 DEF Range
  <2> QED BY <2>2, <2>3
<1> QED BY <1>1, <1>7, <1>8, <1>9

\* The cells a player may fill, each once.
LEMMA FillableFacts ==
    ASSUME NEW p, p.size \in Nat \ {0}
    PROVE  /\ FillableCells(p) \in Seq(Cells(p.size) \ p.blocked) /\ IsInjective(FillableCells(p))
           /\ Fillable(p) = Cells(p.size) \ p.blocked
<1> DEFINE w == ReadingOrder(p.size)
           S == Cells(p.size) \ p.blocked
<1>1. w \in Seq(Cells(p.size)) /\ IsInjective(w) /\ Range(w) = Cells(p.size)
  BY WalkFacts
<1> HIDE DEF w, S
<1>2. /\ Kept(w, S) \in Seq(Cells(p.size) \cap S) /\ Range(Kept(w, S)) = Range(w) \cap S
      /\ IsInjective(Kept(w, S))
  BY <1>1, KeptFacts
<1>3. Cells(p.size) \cap S = S
  BY DEF S
<1> QED BY <1>1, <1>2, <1>3 DEF w, S, FillableCells, Fillable

-----------------------------------------------------------------------------
\* The boards that nothing rejects.

\* The first of some places.
LEMMA MinIsIn ==
    ASSUME NEW I, I \subseteq Nat, I # {}
    PROVE  Min(I) \in I
  BY LeastIsIn DEF Min

\* A set of places has a greatest.
LEMMA GreatestIsIn ==
    ASSUME NEW n \in Nat, NEW I, I \subseteq 1 .. n, I # {}
    PROVE  \E x \in I : \A y \in I : y <= x
  BY LastIsIn

\* The rejections, in whatever order they are looked for.
Tags == {"payload_shape", "solution_shape", "word_not_found", "word_occurs_twice",
         "blocked_cell_outside_board", "given_cell_outside_board", "cage_cell_outside_board",
         "cage_cells_overlap", "cage_coverage_incomplete", "binary_cage_size", "unreachable_target"}

\* A board that nothing rejects is well formed and has a solution of its shape.
LEMMA Unrejected ==
    ASSUME NEW p, p.kind # "wordSearch", FirstRejection(p) = "none"
    PROVE  WellFormed(p) /\ SolutionShaped(p)
<1> DEFINE C == Checks(p)
           I == {i \in 1 .. Len(C) : Wrong(p, C[i])}
<1>1. /\ C \in Seq(Tags)
      /\ WellFormed(p) => 3 \in 1 .. Len(C) /\ C[3] = "solution_shape"
  <2> DEFINE A == <<"blocked_cell_outside_board", "given_cell_outside_board", "solution_shape">>
             B == <<"cage_cell_outside_board", "cage_cells_overlap",
                    "cage_coverage_incomplete", "binary_cage_size", "unreachable_target">>
             E == <<"payload_shape">>
  <2>1. A \in Seq(Tags)
    <3>1. \A i \in 1 .. 3 : A[i] \in Tags
      BY DEF Tags
    <3>2. A = [i \in 1 .. 3 |-> A[i]]
      OBVIOUS
    <3> HIDE DEF A
    <3> QED BY <3>1, <3>2
  <2>2. B \in Seq(Tags)
    <3>1. \A i \in 1 .. 5 : B[i] \in Tags
      BY DEF Tags
    <3>2. B = [i \in 1 .. 5 |-> B[i]]
      OBVIOUS
    <3> HIDE DEF B
    <3> QED BY <3>1, <3>2
  <2>4. E \in Seq(Tags) /\ <<>> \in Seq(Tags)
    BY DEF Tags
  <2>5. (C = E /\ ~WellFormed(p)) \/ C = A \o B \/ C = A \o <<>>
    BY DEF Checks
  <2>6. Len(A) = 3 /\ A[3] = "solution_shape"
    OBVIOUS
  <2> HIDE DEF A, B, C, E
  <2>7. ASSUME NEW x \in Seq(Tags)
        PROVE  A \o x \in Seq(Tags) /\ 3 \in 1 .. Len(A \o x) /\ (A \o x)[3] = "solution_shape"
    <3>1. A \o x \in Seq(Tags) /\ Len(A \o x) = Len(A) + Len(x) /\ Len(x) \in Nat
      BY <2>1
    <3>2. \A i \in 1 .. Len(A) : (A \o x)[i] = A[i]
      BY <2>1
    <3> QED BY <2>6, <3>1, <3>2
  <2> QED BY <2>1, <2>2, <2>4, <2>5, <2>7
<1>2. FirstRejection(p) = IF (IF I # {} THEN Min(I) ELSE 0) = 0 THEN "none"
                          ELSE C[IF I # {} THEN Min(I) ELSE 0]
  BY DEF FirstRejection, SelectInSeq
<1>3. I \subseteq Nat /\ \A i \in I : i # 0 /\ C[i] # "none"
  BY <1>1 DEF Tags
<1>4. I = {}
  <2> SUFFICES ASSUME I # {} PROVE FALSE
    OBVIOUS
  <2>1. Min(I) \in I
    <3> HIDE DEF I
    <3> QED BY <1>3, MinIsIn
  <2> HIDE DEF I, C
  <2> QED BY <1>2, <1>3, <2>1
<1>5. WellFormed(p)
  <2> SUFFICES ASSUME ~WellFormed(p) PROVE FALSE
    OBVIOUS
  <2>1. C = <<"payload_shape">>
    BY DEF Checks
  <2>2. C[1] = "payload_shape" /\ Len(C) = 1
    BY <2>1
  <2>3. Wrong(p, C[1])
    BY <2>2 DEF Wrong
  <2> HIDE DEF C
  <2>4. 1 \in I
    BY <2>2, <2>3
  <2> QED BY <1>4, <2>4
<1>6. 3 \in 1 .. Len(C) /\ C[3] = "solution_shape"
  BY <1>1, <1>5
<1>7. ~Wrong(p, "solution_shape")
  BY <1>4, <1>6
<1>8. SolutionShaped(p)
  BY <1>7 DEF Wrong
<1> QED BY <1>5, <1>8

\* A board that the search is asked about.
Board(p) == p \in Puzzles /\ p.kind # "wordSearch" /\ FirstRejection(p) = "none"

Squares(p) == Cells(p.size) \ p.blocked

\* A board that the search is asked about: its cells are numbered once each, and
\* its problem is those cells, its digits and the views of its regions.
LEMMA BoardFacts ==
    ASSUME NEW p, Board(p)
    PROVE  LET s == FillableCells(p)
           IN  /\ p.kind \in {"kenken", "killer", "kakuro", "magicSquare"}
               /\ p.size \in 3 .. 6
               /\ DomainMax(p) \in Nat \ {0}
               /\ Len(s) \in Nat /\ s \in Seq(Squares(p)) /\ DOMAIN s = 1 .. Len(s)
               /\ \A i \in 1 .. Len(s) : s[i] \in Fillable(p)
               /\ \A c \in Fillable(p) : \E i \in 1 .. Len(s) : s[i] = c
               /\ Fillable(p) \subseteq Squares(p)
               /\ \A i, j \in 1 .. Len(s) : s[i] = s[j] => i = j
               /\ ProblemOf(p).cells = Len(s) /\ ProblemOf(p).digits = DomainMax(p)
               /\ ProblemOf(p).views = {View(s, r) : r \in Regions(p)}
<1> DEFINE s == FillableCells(p)
<1>0. p.kind \in {"kenken", "killer", "kakuro", "magicSquare"}
  BY PuzzlesAssumption DEF Board
<1>2. p.size \in 3 .. 6
  <2>1. WellFormed(p)
    BY Unrejected DEF Board
  <2> QED BY <1>0, <2>1 DEF WellFormed
<1>1. /\ p.kind \in {"kenken", "killer", "kakuro", "magicSquare"}
      /\ s \in Seq(Squares(p)) /\ IsInjective(s)
  <2>1. p.size \in Nat \ {0}
    BY <1>2
  <2> QED BY <1>0, <2>1, FillableFacts DEF Squares
<1>3. DomainMax(p) \in Nat \ {0}
  BY <1>1, <1>2, BoundsAssumption DEF DomainMax, Caged, BoundsAssumption
<1>4. Len(s) \in Nat /\ DOMAIN s = 1 .. Len(s)
  BY <1>1
<1>5. Fillable(p) = {s[i] : i \in 1 .. Len(s)}
  BY <1>4 DEF Fillable, Range
<1>6. \A i \in 1 .. Len(s) : s[i] \in Squares(p)
  BY <1>1
<1>7. \A i, j \in 1 .. Len(s) : s[i] = s[j] => i = j
  BY <1>1, <1>4 DEF IsInjective
<1>8. ProblemOf(p).cells = Len(s) /\ ProblemOf(p).digits = DomainMax(p)
      /\ ProblemOf(p).views = {View(s, r) : r \in Regions(p)}
  BY DEF ProblemOf
<1> HIDE DEF s
<1> QED BY <1>1, <1>2, <1>3, <1>4, <1>5, <1>6, <1>7, <1>8 DEF s

\* A region names finitely many cells, and a clue at least one.
LEMMA RegionFacts ==
    ASSUME NEW p, Board(p), NEW r \in Regions(p)
    PROVE  /\ IsFiniteSet(DOMAIN r.cells)
           /\ r.kind # "distinct" => DOMAIN r.cells # {}
<1>1. /\ p.kind \in {"kenken", "killer", "kakuro", "magicSquare"}
      /\ p.size \in 3 .. 6 /\ Len(FillableCells(p)) \in Nat
      /\ DOMAIN FillableCells(p) = 1 .. Len(FillableCells(p))
  BY BoardFacts
<1>2. \A n \in Nat : IsFiniteSet(1 .. n)
  BY FS_Interval
<1>3. ASSUME NEW c, NEW x, r = SumOf(<<c>>, x)
      PROVE  IsFiniteSet(DOMAIN r.cells) /\ DOMAIN r.cells # {}
  <2>1. DOMAIN r.cells = 1 .. 1
    BY <1>3 DEF SumOf
  <2>2. 1 \in Nat /\ 1 .. 1 # {}
    OBVIOUS
  <2> QED BY <1>2, <2>1, <2>2
<1>4. ASSUME NEW i, \/ r.cells = Row(p.size, i) \/ r.cells = Column(p.size, i)
      PROVE  IsFiniteSet(DOMAIN r.cells) /\ DOMAIN r.cells # {}
  <2>1. DOMAIN r.cells = 1 .. p.size
    BY <1>4 DEF Row, Column
  <2>2. p.size \in Nat /\ p.size >= 1
    BY <1>1
  <2>3. 1 \in 1 .. p.size
    BY <2>2
  <2> QED BY <1>2, <2>1, <2>2, <2>3
<1>5. ASSUME NEW g, g \in Range(p.groups), p.kind # "magicSquare", r.cells = g.cells
      PROVE  IsFiniteSet(DOMAIN r.cells) /\ DOMAIN r.cells # {}
  <2>1. g.cells \in Seq(Range(g.cells))
    BY <1>5, PuzzlesAssumption DEF Board
  <2>2. DOMAIN g.cells = 1 .. Len(g.cells) /\ Len(g.cells) \in Nat
    BY <2>1
  <2>3. WellFormed(p)
    BY Unrejected DEF Board
  <2>4. Len(g.cells) >= 1
    BY <1>1, <1>5, <2>2, <2>3 DEF WellFormed
  <2> QED BY <1>2, <1>5, <2>2, <2>4
<1>6. ASSUME NEW line \in Lines(p.size), r.cells = line
      PROVE  IsFiniteSet(DOMAIN r.cells) /\ DOMAIN r.cells # {}
  <2>1. PICK i : line = Row(p.size, i) \/ line = Column(p.size, i)
    BY <1>6 DEF Lines
  <2> QED BY <1>4, <1>6, <2>1
<1>7. CASE r \in {SumOf(<<c>>, Declared(p, c)) : c \in p.given}
  BY <1>3, <1>7
<1>8. CASE p.kind = "magicSquare"
  <2>1. \/ \E c \in p.given : r = SumOf(<<c>>, Declared(p, c))
        \/ r = Distinct(FillableCells(p))
        \/ \E i : r = SumOf(Row(p.size, i), p.targets[1][i + 1])
        \/ \E i : r = SumOf(Column(p.size, i), p.targets[2][i + 1])
    BY <1>8 DEF Regions
  <2>2. CASE r = Distinct(FillableCells(p))
    <3>1. r.cells = FillableCells(p) /\ r.kind = "distinct"
      BY <2>2 DEF Distinct
    <3> QED BY <1>1, <1>2, <3>1
  <2>3. CASE \E i : r = SumOf(Row(p.size, i), p.targets[1][i + 1])
    <3>1. PICK i : r.cells = Row(p.size, i)
      BY <2>3 DEF SumOf
    <3> QED BY <1>4, <3>1
  <2>4. CASE \E i : r = SumOf(Column(p.size, i), p.targets[2][i + 1])
    <3>1. PICK i : r.cells = Column(p.size, i)
      BY <2>4 DEF SumOf
    <3> QED BY <1>4, <3>1
  <2> QED BY <1>3, <2>1, <2>2, <2>3, <2>4
<1>9. CASE p.kind = "kakuro"
  <2>1. \/ \E c \in p.given : r = SumOf(<<c>>, Declared(p, c))
        \/ \E g \in Range(p.groups) : r = DistinctSum(g.cells, g.target)
    BY <1>9 DEF Regions
  <2>2. CASE \E g \in Range(p.groups) : r = DistinctSum(g.cells, g.target)
    <3>1. PICK g \in Range(p.groups) : r.cells = g.cells
      BY <2>2 DEF DistinctSum
    <3> QED BY <1>5, <1>9, <3>1
  <2> QED BY <1>3, <2>1, <2>2
<1>10. CASE p.kind = "killer"
  <2>1. \/ \E c \in p.given : r = SumOf(<<c>>, Declared(p, c))
        \/ \E line \in Lines(p.size) : r = Distinct(line)
        \/ \E g \in Range(p.groups) : r = DistinctSum(g.cells, g.target)
    BY <1>10 DEF Regions
  <2>2. CASE \E g \in Range(p.groups) : r = DistinctSum(g.cells, g.target)
    <3>1. PICK g \in Range(p.groups) : r.cells = g.cells
      BY <2>2 DEF DistinctSum
    <3> QED BY <1>5, <1>10, <3>1
  <2>3. CASE \E line \in Lines(p.size) : r = Distinct(line)
    <3>1. PICK line \in Lines(p.size) : r.cells = line
      BY <2>3 DEF Distinct
    <3> QED BY <1>6, <3>1
  <2> QED BY <1>3, <2>1, <2>2, <2>3
<1>11. CASE p.kind = "kenken"
  <2>1. \/ \E c \in p.given : r = SumOf(<<c>>, Declared(p, c))
        \/ \E line \in Lines(p.size) : r = Distinct(line)
        \/ \E g \in Range(p.groups) : r = Arithmetic(g.cells, g.op, g.target)
    BY <1>11 DEF Regions
  <2>2. CASE \E g \in Range(p.groups) : r = Arithmetic(g.cells, g.op, g.target)
    <3>1. PICK g \in Range(p.groups) : r.cells = g.cells
      BY <2>2 DEF Arithmetic
    <3> QED BY <1>5, <1>11, <3>1
  <2>3. CASE \E line \in Lines(p.size) : r = Distinct(line)
    <3>1. PICK line \in Lines(p.size) : r.cells = line
      BY <2>3 DEF Distinct
    <3> QED BY <1>6, <3>1
  <2> QED BY <1>3, <2>1, <2>2, <2>3
<1> QED BY <1>1, <1>8, <1>9, <1>10, <1>11

-----------------------------------------------------------------------------
\* The search, and what it finds.

\* Without its last element.
LEMMA FrontProperties ==
    ASSUME NEW S, NEW s \in Seq(S), s # <<>>
    PROVE  /\ Front(s) \in Seq(S)
           /\ Len(Front(s)) = Len(s) - 1
           /\ Len(s) \in Nat \ {0}
           /\ \A i \in 1 .. Len(s) - 1 : Front(s)[i] = s[i]
<1>1. Len(s) \in Nat \ {0}
  OBVIOUS
<1>2. Front(s) = [i \in 1 .. Len(s) - 1 |-> s[i]]
  BY <1>1 DEF Front
<1> QED BY <1>1, <1>2

\* The frames below the top hold values that satisfy every region they fill.
Deep(t, views) ==
    \A view \in views :
        (/\ DOMAIN view.at # {}
         /\ \A k \in DOMAIN view.at : view.at[k] \in 1 .. Len(t) - 1) =>
        RuleSatisfied(view, [k \in DOMAIN view.at |-> t[view.at[k]]])

DeepHolds == Deep(trail, problem.views)

\* A frame beyond the last cell was opened while a solution was still wanted.
StillWanted == (trail # <<>> /\ Len(trail) = problem.cells + 1) => solutions < SolutionLimit

\* Once the budget has ended a frame nothing more is found.
OverBudget == exhausted => /\ solutions < SolutionLimit
                           /\ nodes = NodeBudget
                           /\ Len(trail) <= problem.cells

FoundLength == \A f \in found : Len(f) = problem.cells

SearchInv == TypeOK /\ StillWanted /\ OverBudget /\ DeepHolds /\ FoundLength /\ FoundSatisfyRegions
             /\ (problem = NoProblem => trail = <<>> /\ found = {} /\ solutions = 0 /\ ~exhausted)
             /\ puzzle \in Puzzles

\* Before the checks there is nothing to search.
LEMMA InitInv == Init => SearchInv
<1> SUFFICES ASSUME Init
             PROVE  SearchInv
  OBVIOUS
<1>1. problem.cells = 0 /\ problem.digits = 0 /\ problem.views = {}
  BY DEF Init, NoProblem
<1>2. TypeOK
  <2>1. trail = <<>> /\ <<>> \in Seq(0 .. problem.digits)
    BY DEF Init
  <2>2. Len(trail) = 0
    BY <2>1
  <2>3. solutions = 0 /\ nodes = 0 /\ exhausted = FALSE
    BY DEF Init
  <2>4. trail \in Seq(0 .. problem.digits)
    BY <2>1
  <2>5. solutions \in 0 .. 2 /\ nodes \in 0 .. NodeBudget /\ Len(trail) \in 0 .. problem.cells + 1
    BY <1>1, <2>2, <2>3
  <2>6. exhausted \in BOOLEAN
    BY <2>3
  <2>7. problem.cells \in Nat /\ problem.digits \in Nat
    BY <1>1
  <2> QED BY <2>4, <2>5, <2>6, <2>7 DEF TypeOK
<1>3. StillWanted /\ OverBudget /\ FoundLength /\ FoundSatisfyRegions
  BY DEF Init, StillWanted, OverBudget, FoundLength, FoundSatisfyRegions
<1>4. DeepHolds
  BY <1>1 DEF DeepHolds, Deep
<1> QED BY <1>2, <1>3, <1>4 DEF Init, SearchInv

\* A shorter trail asks less of the regions.
LEMMA DeepFront ==
    ASSUME NEW S, NEW t \in Seq(S), t # <<>>, NEW views, Deep(t, views)
    PROVE  Deep(Front(t), views)
<1> SUFFICES ASSUME NEW view \in views, DOMAIN view.at # {},
                    \A k \in DOMAIN view.at : view.at[k] \in 1 .. Len(Front(t)) - 1
             PROVE  RuleSatisfied(view, [k \in DOMAIN view.at |-> Front(t)[view.at[k]]])
  BY DEF Deep
<1>1. \A k \in DOMAIN view.at : view.at[k] \in 1 .. Len(t) - 1 /\ Front(t)[view.at[k]] = t[view.at[k]]
  BY FrontProperties
<1>2. [k \in DOMAIN view.at |-> Front(t)[view.at[k]]] = [k \in DOMAIN view.at |-> t[view.at[k]]]
  BY <1>1
<1> QED BY <1>1, <1>2 DEF Deep

\* Another value in the top frame changes nothing below it.
LEMMA DeepTop ==
    ASSUME NEW S, NEW t \in Seq(S), t # <<>>, NEW v \in S, NEW views, Deep(t, views)
    PROVE  Deep([t EXCEPT ![Len(t)] = v], views)
<1> DEFINE u == [t EXCEPT ![Len(t)] = v]
<1>0. Len(u) = Len(t) /\ \A i \in 1 .. Len(t) - 1 : u[i] = t[i]
  OBVIOUS
<1> SUFFICES ASSUME NEW view \in views, DOMAIN view.at # {},
                    \A k \in DOMAIN view.at : view.at[k] \in 1 .. Len(u) - 1
             PROVE  RuleSatisfied(view, [k \in DOMAIN view.at |-> u[view.at[k]]])
  BY DEF Deep
<1> HIDE DEF u
<1>1. [k \in DOMAIN view.at |-> u[view.at[k]]] = [k \in DOMAIN view.at |-> t[view.at[k]]]
  BY <1>0
<1>2. \A k \in DOMAIN view.at : view.at[k] \in 1 .. Len(t) - 1
  BY <1>0
<1> QED BY <1>1, <1>2 DEF Deep

\* A value that the regions of its cell allow may be gone deeper from.
LEMMA DeepAppend ==
    ASSUME NEW S, NEW t \in Seq(S), t # <<>>, NEW v, Deep(t, problem.views), Consistent(t)
    PROVE  Deep(Append(t, v), problem.views)
<1> DEFINE u == Append(t, v)
<1>0. Len(u) = Len(t) + 1 /\ (\A i \in 1 .. Len(t) : u[i] = t[i]) /\ Len(t) \in Nat \ {0}
  OBVIOUS
<1> HIDE DEF u
<1> SUFFICES ASSUME NEW view \in problem.views, DOMAIN view.at # {},
                    \A k \in DOMAIN view.at : view.at[k] \in 1 .. Len(u) - 1
             PROVE  RuleSatisfied(view, [k \in DOMAIN view.at |-> u[view.at[k]]])
  BY DEF Deep, u
<1>1. \A k \in DOMAIN view.at : view.at[k] \in 1 .. Len(t)
  BY <1>0
<1>2. [k \in DOMAIN view.at |-> u[view.at[k]]] = [k \in DOMAIN view.at |-> t[view.at[k]]]
  BY <1>0, <1>1
<1>3. CASE Len(t) \in Range(view.at)
  <2>1. StillConsistent(view, t)
    BY <1>3 DEF Consistent
  <2>2. Filled(view, t) = DOMAIN view.at
    BY <1>1 DEF Filled
  <2>3. Values(view, t) = [k \in DOMAIN view.at |-> t[view.at[k]]]
    BY <2>2 DEF Values
  <2> QED BY <1>2, <2>1, <2>2, <2>3 DEF StillConsistent
<1>4. CASE Len(t) \notin Range(view.at)
  <2>1. \A k \in DOMAIN view.at : view.at[k] \in 1 .. Len(t) - 1
    BY <1>0, <1>1, <1>4 DEF Range
  <2> QED BY <1>2, <2>1 DEF Deep
<1> QED BY <1>3, <1>4

\* Of a full board every region is.
LEMMA FoundSatisfies ==
    ASSUME NEW S, NEW t \in Seq(S), t # <<>>, NEW views, Deep(t, views),
           NEW view \in views, DOMAIN view.at # {}, Filled(view, Front(t)) = DOMAIN view.at
    PROVE  RuleSatisfied(view, Values(view, Front(t)))
<1>1. \A k \in DOMAIN view.at : view.at[k] \in 1 .. Len(t) - 1
  BY FrontProperties DEF Filled
<1>2. Values(view, Front(t)) = [k \in DOMAIN view.at |-> t[view.at[k]]]
  BY <1>1, FrontProperties DEF Values
<1> QED BY <1>1, <1>2 DEF Deep

----------------------------------------------------------------------------

\* The checks open a search with one frame, or none.
LEMMA ValidateInv == SearchInv /\ Validate => SearchInv'
<1> SUFFICES ASSUME SearchInv, Validate
             PROVE  SearchInv'
  OBVIOUS
<1> USE DEF SearchInv
<1>1. CASE puzzle.kind # "wordSearch" /\ FirstRejection(puzzle) = "none"
  <2>1. problem' = ProblemOf(puzzle) /\ trail' = <<0>> /\ found' = {} /\ solutions' = 0 /\ ~exhausted'
        /\ nodes' = nodes /\ exhausted' = exhausted /\ puzzle' = puzzle
    BY <1>1 DEF Validate
  <2>2. problem'.cells \in Nat /\ problem'.digits \in Nat \ {0}
    BY <1>1, <2>1, BoardFacts DEF Board
  <2>3. Deep(trail', problem'.views)
    <3>1. \A view : (DOMAIN view.at # {}) => ~(\A k \in DOMAIN view.at : view.at[k] \in 1 .. Len(trail') - 1)
      BY <2>1
    <3> QED BY <3>1 DEF Deep
  <2>4. TypeOK'
    BY <2>1, <2>2 DEF TypeOK
  <2>5. problem' # NoProblem
    BY <2>2 DEF NoProblem
  <2> QED BY <2>1, <2>2, <2>3, <2>4, <2>5 DEF StillWanted, OverBudget, DeepHolds, FoundLength, FoundSatisfyRegions
<1>2. CASE ~(puzzle.kind # "wordSearch" /\ FirstRejection(puzzle) = "none")
  <2>1. UNCHANGED <<puzzle, problem, trail, solutions, nodes, exhausted, found>>
    BY <1>2 DEF Validate
  <2> QED BY <2>1 DEF TypeOK, StillWanted, OverBudget, DeepHolds, FoundLength, FoundSatisfyRegions
<1> QED BY <1>1, <1>2

\* What is found has been allowed by the regions of every cell of it.
LEMMA FoundInv == SearchInv /\ Found => SearchInv'
<1> SUFFICES ASSUME SearchInv, Found
             PROVE  SearchInv'
  OBVIOUS
<1> USE DEF SearchInv
<1>1. /\ trail \in Seq(0 .. problem.digits) /\ trail # <<>> /\ Len(trail) = problem.cells + 1
      /\ problem' = problem /\ puzzle' = puzzle /\ nodes' = nodes /\ exhausted' = exhausted
      /\ trail' = Front(trail) /\ solutions' = solutions + 1 /\ found' = found \cup {Front(trail)}
  BY DEF Found, TypeOK
<1>2. trail' \in Seq(0 .. problem.digits) /\ Len(trail') = problem.cells
  BY <1>1, FrontProperties DEF TypeOK
<1>3. TypeOK'
  BY <1>1, <1>2 DEF TypeOK, StillWanted
<1>4. StillWanted' /\ ~exhausted
  BY <1>1, <1>2 DEF StillWanted, OverBudget, TypeOK
<1>5. DeepHolds'
  BY <1>1, DeepFront DEF DeepHolds
<1>6. FoundLength'
  BY <1>1, <1>2 DEF FoundLength
<1>7. FoundSatisfyRegions'
  BY <1>1, FoundSatisfies DEF FoundSatisfyRegions, DeepHolds
<1>8. problem # NoProblem
  BY <1>1
<1> QED BY <1>1, <1>3, <1>4, <1>5, <1>6, <1>7, <1>8 DEF OverBudget

\* A value that is tried is counted, and a frame is opened only above one its
\* regions allow.
LEMMA TryValueInv == SearchInv /\ TryValue => SearchInv'
<1> SUFFICES ASSUME SearchInv, TryValue
             PROVE  SearchInv'
  OBVIOUS
<1> USE DEF SearchInv
<1> DEFINE D == 0 .. problem.digits
           t == [trail EXCEPT ![Len(trail)] = @ + 1]
<1>1. /\ trail \in Seq(D) /\ trail # <<>> /\ Len(trail) <= problem.cells
      /\ problem' = problem /\ puzzle' = puzzle /\ solutions' = solutions
      /\ exhausted' = exhausted /\ found' = found /\ nodes' = nodes + 1
      /\ trail' = IF Consistent(t) THEN Append(t, 0) ELSE t
      /\ ~Enough /\ ~Broke /\ trail[Len(trail)] < problem.digits
      /\ problem.digits \in Nat /\ problem.cells \in Nat
  BY DEF TryValue, TypeOK, Last
<1>2. Len(trail) \in 1 .. problem.cells /\ trail[Len(trail)] + 1 \in D
  BY <1>1
<1>3. t \in Seq(D) /\ Len(t) = Len(trail) /\ t # <<>>
  BY <1>1, <1>2
<1>4. Deep(t, problem.views)
  BY <1>1, <1>2, DeepTop DEF DeepHolds
<1> HIDE DEF t
<1>5. trail' \in Seq(D) /\ Len(trail') \in 1 .. problem.cells + 1
  <2>1. Append(t, 0) \in Seq(D) /\ Len(Append(t, 0)) = Len(t) + 1
    BY <1>1, <1>3
  <2>2. trail' = Append(t, 0) \/ trail' = t
    BY <1>1
  <2> HIDE DEF D
  <2> QED BY <1>1, <1>2, <1>3, <2>1, <2>2
<1>6. DeepHolds'
  BY <1>1, <1>3, <1>4, DeepAppend DEF DeepHolds
<1>7. nodes' \in 0 .. NodeBudget /\ solutions < SolutionLimit /\ nodes < NodeBudget
  BY <1>1 DEF Enough, Broke, TypeOK
<1>8. TypeOK'
  BY <1>1, <1>5, <1>7 DEF TypeOK
<1>9. StillWanted' /\ OverBudget'
  BY <1>1, <1>7 DEF StillWanted, OverBudget, TypeOK
<1>10. FoundLength' /\ FoundSatisfyRegions'
  BY <1>1 DEF FoundLength, FoundSatisfyRegions
<1>11. problem # NoProblem
  BY <1>1
<1> QED BY <1>1, <1>6, <1>8, <1>9, <1>10, <1>11

\* Closing a frame forgets the top of the trail and nothing below it.
LEMMA ReturnInv == SearchInv /\ Return => SearchInv'
<1> SUFFICES ASSUME SearchInv, Return
             PROVE  SearchInv'
  OBVIOUS
<1> USE DEF SearchInv
<1>1. /\ trail \in Seq(0 .. problem.digits) /\ trail # <<>> /\ Len(trail) <= problem.cells
      /\ problem' = problem /\ puzzle' = puzzle /\ nodes' = nodes /\ solutions' = solutions
      /\ found' = found /\ trail' = Front(trail)
      /\ exhausted' = (exhausted \/ (Last(trail) < problem.digits /\ Broke))
      /\ problem.cells \in Nat
  BY DEF Return, TypeOK
<1>2. trail' \in Seq(0 .. problem.digits) /\ Len(trail') \in 0 .. problem.cells - 1
  BY <1>1, FrontProperties
<1>3. TypeOK'
  BY <1>1, <1>2 DEF TypeOK
<1>4. StillWanted'
  BY <1>1, <1>2 DEF StillWanted
<1>5. OverBudget'
  BY <1>1, <1>2 DEF OverBudget, Broke, Enough, TypeOK
<1>6. DeepHolds'
  BY <1>1, DeepFront DEF DeepHolds
<1>7. FoundLength' /\ FoundSatisfyRegions' /\ problem # NoProblem
  BY <1>1 DEF FoundLength, FoundSatisfyRegions
<1> QED BY <1>1, <1>3, <1>4, <1>5, <1>6, <1>7

\* Each step of the search keeps the invariant.
LEMMA SearchInvInductive == SearchInv /\ [Next]_vars => SearchInv'
<1> SUFFICES ASSUME SearchInv, [Next]_vars
             PROVE  SearchInv'
  OBVIOUS
<1>1. CASE Conclude \/ UNCHANGED vars
  BY <1>1 DEF Conclude, vars, SearchInv, TypeOK, StillWanted, OverBudget, DeepHolds, FoundLength,
         FoundSatisfyRegions
<1> QED BY <1>1, ValidateInv, FoundInv, TryValueInv, ReturnInv DEF Next, Search

\* The inductive invariant: what is below the top frame satisfies the regions it
\* fills, and the budget has not overrun a search that was decided.
THEOREM SearchInvariant == Spec => []SearchInv
<1> QED BY InitInv, SearchInvInductive, PTL DEF Spec

\* The frames, the counters and the flag have their types, and no more than the
\* budget is spent nor more than two solutions counted.
THEOREM TypesAlways == Spec => []TypeOK
<1>1. SearchInv => TypeOK
  BY DEF SearchInv
<1> QED BY <1>1, SearchInvariant, PTL

\* uniqueness.ts: the budget never takes a second solution back.
THEOREM BudgetOnlyEndsOpenQuestions == Spec => []BudgetOnlyWhenOpen
<1>1. SearchInv => BudgetOnlyWhenOpen
  BY DEF SearchInv, OverBudget, BudgetOnlyWhenOpen
<1> QED BY <1>1, SearchInvariant, PTL

\* uniqueness.ts: an assignment handed to the callback satisfies every region
\* whose cells the search fills, on every board.
THEOREM FoundAlwaysSatisfy == Spec => []FoundSatisfyRegions
<1>1. SearchInv => FoundSatisfyRegions
  BY DEF SearchInv
<1> QED BY <1>1, SearchInvariant, PTL

-----------------------------------------------------------------------------
\* The search, and what it leaves behind.

\* In the order of the search f is less than t at the cell k, or the same up to it.
Below(f, t, k) == f[k] < t[k] /\ \A i \in 1 .. k - 1 : f[i] = t[i]
Same(f, t, k) == \A i \in 1 .. k : f[i] = t[i]

\* The assignment f of n cells comes no later than what the trail t stands for.
Behind(n, f, t) == \/ \E k \in 1 .. Len(t) : k <= n /\ Below(f, t, k)
                   \/ Len(t) <= n /\ Same(f, t, Len(t))

Upto(f, n) == [k \in 1 .. n |-> f[k]]

\* What they say of two trails that agree.
LEMMA Agreeing ==
    ASSUME NEW n \in Nat, NEW f, NEW t, NEW u, \A i \in 1 .. n : t[i] = u[i]
    PROVE  /\ Same(f, t, n) <=> Same(f, u, n)
           /\ \A k \in 1 .. n : Below(f, t, k) <=> Below(f, u, k)
<1>1. \A k \in 1 .. n : \A i \in 1 .. k - 1 : i \in 1 .. n
  OBVIOUS
<1> QED BY <1>1 DEF Same, Below

\* Handing over a full assignment leaves that one behind, and no other.
LEMMA BehindFound ==
    ASSUME NEW n \in Nat, NEW d \in Nat, NEW t \in Seq(0 .. d), Len(t) = n + 1,
           NEW f \in [1 .. n -> 1 .. d]
    PROVE  /\ Behind(n, f, Front(t)) <=> Behind(n, f, t) \/ f = Front(t)
           /\ f = Front(t) => ~Behind(n, f, t)
<1> DEFINE u == Front(t)
<1>0. t # <<>>
  OBVIOUS
<1>1. u \in Seq(0 .. d) /\ Len(u) = n /\ \A i \in 1 .. n : u[i] = t[i]
  <2>1. /\ u \in Seq(0 .. d) /\ Len(u) = Len(t) - 1
        /\ \A i \in 1 .. Len(t) - 1 : u[i] = t[i]
    BY <1>0, FrontProperties
  <2>2. Len(t) - 1 = n
    OBVIOUS
  <2> QED BY <2>1, <2>2
<1>2. \A i \in 1 .. n : t[i] \in Int /\ f[i] \in Int
  OBVIOUS
<1>3. u = [i \in 1 .. n |-> u[i]] /\ f = [i \in 1 .. n |-> f[i]]
  BY <1>1
<1> HIDE DEF u
<1>4. Behind(n, f, t) <=> \E k \in 1 .. n : Below(f, t, k)
  <2>1. 1 .. n \subseteq 1 .. n + 1 /\ \A k \in 1 .. n + 1 : k <= n => k \in 1 .. n
    OBVIOUS
  <2>2. \A k \in 1 .. n : k <= n
    OBVIOUS
  <2>3. ~(Len(t) <= n)
    OBVIOUS
  <2> QED BY <2>1, <2>2, <2>3 DEF Behind
<1>5. Behind(n, f, u) <=> (\E k \in 1 .. n : Below(f, u, k)) \/ Same(f, u, n)
  <2>1. \A k \in 1 .. n : k <= n
    OBVIOUS
  <2> QED BY <1>1, <2>1 DEF Behind
<1>6. \A k \in 1 .. n : Below(f, t, k) <=> Below(f, u, k)
  BY <1>1, Agreeing
<1>7. Same(f, u, n) <=> f = u
  BY <1>3 DEF Same
<1>8. f = u => \A k \in 1 .. n : ~Below(f, t, k)
  BY <1>1, <1>2 DEF Below
<1> QED BY <1>4, <1>5, <1>6, <1>7, <1>8 DEF u

\* The next value of a cell: gone deeper from, it leaves nothing behind yet;
\* given up, it leaves behind what starts with it.
LEMMA BehindNext ==
    ASSUME NEW n \in Nat, NEW d \in Nat, NEW t \in Seq(0 .. d), Len(t) \in 1 .. n,
           NEW u \in Seq(0 .. d), Len(u) = Len(t), u[Len(t)] = t[Len(t)] + 1,
           \A i \in 1 .. Len(t) - 1 : u[i] = t[i],
           NEW f \in [1 .. n -> 1 .. d]
    PROVE  /\ Behind(n, f, Append(u, 0)) <=> Behind(n, f, t)
           /\ Behind(n, f, u) <=> Behind(n, f, t) \/ Upto(f, Len(u)) = u
<1> DEFINE m == Len(t)
           w == Append(u, 0)
<1>1. m \in Nat /\ m >= 1 /\ m <= n
  OBVIOUS
<1>2. Len(w) = m + 1 /\ w[m + 1] = 0
  OBVIOUS
<1>3. \A i \in 1 .. m : w[i] = u[i]
  OBVIOUS
<1>4. \A i \in 1 .. m : t[i] \in Int /\ u[i] \in Int
  OBVIOUS
<1>5. \A i \in 1 .. n : f[i] \in Int /\ f[i] >= 1
  OBVIOUS
<1>6. u = [i \in 1 .. m |-> u[i]]
  OBVIOUS
<1>7. Len(u) = m /\ Len(t) = m /\ u[m] = t[m] + 1 /\ \A i \in 1 .. m - 1 : u[i] = t[i]
  OBVIOUS
<1> HIDE DEF m, w
<1>8. \A k \in 1 .. m : k <= n
  BY <1>1
<1>9. Behind(n, f, t) <=> (\E k \in 1 .. m : Below(f, t, k)) \/ Same(f, t, m)
  BY <1>1, <1>7, <1>8 DEF Behind
<1>10. Behind(n, f, u) <=> (\E k \in 1 .. m : Below(f, u, k)) \/ Same(f, u, m)
  BY <1>1, <1>7, <1>8 DEF Behind
<1>11. Behind(n, f, w) <=> \E k \in 1 .. m : Below(f, u, k)
  <2>1. m + 1 <= n => ~Below(f, w, m + 1) /\ ~Same(f, w, m + 1)
    <3> HAVE m + 1 <= n
    <3>1. m + 1 \in 1 .. n /\ m + 1 \in 1 .. m + 1
      BY <1>1
    <3>2. ~(f[m + 1] < w[m + 1]) /\ f[m + 1] # w[m + 1]
      BY <1>2, <1>5, <3>1
    <3> QED BY <3>1, <3>2 DEF Below, Same
  <2>2. \A k \in 1 .. m : Below(f, w, k) <=> Below(f, u, k)
    BY <1>1, <1>3, Agreeing
  <2>3. \A k \in 1 .. m + 1 : k \in 1 .. m \/ k = m + 1
    BY <1>1
  <2>4. 1 .. m \subseteq 1 .. m + 1
    BY <1>1
  <2> QED BY <1>2, <1>8, <2>1, <2>2, <2>3, <2>4 DEF Behind
<1>12. \A k \in 1 .. m - 1 : Below(f, u, k) <=> Below(f, t, k)
  <2>1. m - 1 \in Nat
    BY <1>1
  <2> QED BY <1>7, <2>1, Agreeing
<1>13. Below(f, u, m) <=> Below(f, t, m) \/ Same(f, t, m)
  <2>1. f[m] \in Int /\ t[m] \in Int
    BY <1>1, <1>4, <1>5
  <2>2. f[m] < u[m] <=> f[m] < t[m] \/ f[m] = t[m]
    BY <1>7, <2>1
  <2>3. (\A i \in 1 .. m - 1 : f[i] = u[i]) <=> (\A i \in 1 .. m - 1 : f[i] = t[i])
    BY <1>7
  <2>4. Same(f, t, m) <=> f[m] = t[m] /\ \A i \in 1 .. m - 1 : f[i] = t[i]
    <3>1. \A i : i \in 1 .. m <=> i = m \/ i \in 1 .. m - 1
      BY <1>1
    <3> QED BY <3>1 DEF Same
  <2> QED BY <2>2, <2>3, <2>4 DEF Below
<1>14. (\E k \in 1 .. m : Below(f, u, k)) <=> (\E k \in 1 .. m : Below(f, t, k)) \/ Same(f, t, m)
  <2>1. \A k : k \in 1 .. m <=> k = m \/ k \in 1 .. m - 1
    BY <1>1
  <2> QED BY <1>12, <1>13, <2>1
<1>15. Upto(f, m) = u <=> Same(f, u, m)
  BY <1>6 DEF Upto, Same
<1> QED BY <1>7, <1>9, <1>10, <1>11, <1>14, <1>15 DEF m, w

\* A cell out of values leaves behind what starts with the cells before it.
LEMMA BehindReturn ==
    ASSUME NEW n \in Nat, NEW d \in Nat, NEW t \in Seq(0 .. d), Len(t) \in 1 .. n,
           t[Len(t)] >= d, NEW f \in [1 .. n -> 1 .. d]
    PROVE  Behind(n, f, Front(t)) <=> Behind(n, f, t)
<1> DEFINE m == Len(t)
           u == Front(t)
<1>1. m \in Nat /\ m >= 1 /\ m <= n /\ t[m] = d /\ t # <<>> /\ Len(t) = m
  OBVIOUS
<1>2. Len(u) = m - 1 /\ \A i \in 1 .. m - 1 : u[i] = t[i]
  BY <1>1, FrontProperties
<1>3. f[m] \in Int /\ f[m] <= d
  BY <1>1
<1> HIDE DEF m, u
<1>4. \A k \in 1 .. m : k <= n
  BY <1>1
<1>5. Behind(n, f, t) <=> (\E k \in 1 .. m : Below(f, t, k)) \/ Same(f, t, m)
  BY <1>1, <1>4 DEF Behind
<1>6. Behind(n, f, u) <=> (\E k \in 1 .. m - 1 : Below(f, u, k)) \/ Same(f, u, m - 1)
  <2>1. m - 1 <= n /\ \A k \in 1 .. m - 1 : k <= n
    BY <1>1
  <2> QED BY <1>2, <2>1 DEF Behind
<1>7. /\ Same(f, u, m - 1) <=> Same(f, t, m - 1)
      /\ \A k \in 1 .. m - 1 : Below(f, u, k) <=> Below(f, t, k)
  <2>1. m - 1 \in Nat
    BY <1>1
  <2> QED BY <1>2, <2>1, Agreeing
<1>8. Same(f, t, m - 1) <=> Below(f, t, m) \/ Same(f, t, m)
  <2>1. Same(f, t, m) <=> f[m] = t[m] /\ Same(f, t, m - 1)
    <3>1. \A i : i \in 1 .. m <=> i = m \/ i \in 1 .. m - 1
      BY <1>1
    <3> QED BY <3>1 DEF Same
  <2>2. f[m] < t[m] \/ f[m] = t[m]
    BY <1>1, <1>3
  <2> QED BY <2>1, <2>2 DEF Below, Same
<1>9. \A k : k \in 1 .. m <=> k = m \/ k \in 1 .. m - 1
  BY <1>1
<1> QED BY <1>5, <1>6, <1>7, <1>8, <1>9 DEF u

-----------------------------------------------------------------------------
\* The assignments, and those whose every beginning the search lets by.
Assignments == [1 .. problem.cells -> 1 .. problem.digits]
Passes(f) == \A n \in 1 .. problem.cells : Consistent(Upto(f, n))

Searching == problem # NoProblem /\ ~Enough /\ ~exhausted

\* What the search has handed over is what it has left behind.
ExactInv ==
    /\ problem = NoProblem \/ /\ problem = ProblemOf(puzzle) /\ puzzle.kind # "wordSearch"
                              /\ FirstRejection(puzzle) = "none"
    /\ \A f \in found : f \in Assignments /\ Passes(f)
    /\ IsFiniteSet(found) /\ solutions = Cardinality(found)
    /\ \A n \in 1 .. Len(trail) - 1 : trail[n] \in 1 .. problem.digits /\ Consistent(Upto(trail, n))
    /\ Searching => \A f \in Assignments : Passes(f) => (f \in found <=> Behind(problem.cells, f, trail))
    /\ (verdict # "open" /\ problem # NoProblem) => trail = <<>> /\ verdict = Outcome

\* Before the checks there is nothing to search.
LEMMA ExactInit == Init => ExactInv
<1> SUFFICES ASSUME Init PROVE ExactInv
  OBVIOUS
<1>1. problem = NoProblem /\ found = {} /\ solutions = 0 /\ trail = <<>> /\ Len(trail) = 0
      /\ verdict = "open"
  BY DEF Init
<1>2. IsFiniteSet({}) /\ Cardinality({}) = 0
  BY FS_EmptySet
<1> QED BY <1>1, <1>2 DEF ExactInv, Searching

\* The checks open the search with everything ahead of it.
LEMMA ExactValidate == SearchInv /\ ExactInv /\ Validate => ExactInv'
<1> SUFFICES ASSUME SearchInv, ExactInv, Validate PROVE ExactInv'
  OBVIOUS
<1>1. problem = NoProblem /\ found' = {} /\ solutions' = 0 /\ UNCHANGED <<puzzle, solutions, exhausted, found>>
  BY DEF Validate, SearchInv
<1>2. IsFiniteSet({}) /\ Cardinality({}) = 0
  BY FS_EmptySet
<1>3. CASE puzzle.kind # "wordSearch" /\ FirstRejection(puzzle) = "none"
  <2>1. problem' = ProblemOf(puzzle) /\ trail' = <<0>> /\ verdict' = "open" /\ puzzle' = puzzle
    BY <1>3 DEF Validate
  <2>2. problem'.cells \in Nat /\ problem'.digits \in Nat \ {0}
    BY <1>3, <2>1, BoardFacts DEF SearchInv, Board
  <2>3. Len(trail') = 1 /\ trail'[1] = 0
    BY <2>1
  <2>4. \A f \in Assignments' : ~Behind(problem'.cells, f, trail')
    <3> TAKE f \in Assignments'
    <3>1. problem'.cells >= 1 => f[1] \in Int /\ f[1] >= 1
      BY <2>2 DEF Assignments
    <3> HIDE <2>1
    <3>2. problem'.cells >= 1 => ~Below(f, trail', 1) /\ ~Same(f, trail', 1)
      BY <2>3, <3>1 DEF Below, Same
    <3>3. 1 .. Len(trail') = {1}
      BY <2>3
    <3>4. 1 <= problem'.cells \/ ~(1 <= problem'.cells)
      OBVIOUS
    <3> QED BY <2>2, <2>3, <3>2, <3>3, <3>4 DEF Behind
  <2>5. \A n : ~(n \in 1 .. Len(trail') - 1)
    BY <2>3
  <2> QED BY <1>1, <1>2, <1>3, <2>1, <2>4, <2>5 DEF ExactInv
<1>4. CASE ~(puzzle.kind # "wordSearch" /\ FirstRejection(puzzle) = "none")
  <2>1. UNCHANGED <<problem, trail>>
    BY <1>4 DEF Validate
  <2>2. trail = <<>> /\ Len(trail) = 0
    BY <1>1 DEF SearchInv
  <2> QED BY <1>1, <1>2, <2>1, <2>2 DEF ExactInv, Searching
<1> QED BY <1>3, <1>4

\* A step that changes neither the problem nor the flags judges assignments as before.
LEMMA SameJudgement ==
    ASSUME problem' = problem
    PROVE  /\ Assignments' = Assignments
           /\ \A t : Consistent(t)' = Consistent(t)
           /\ \A f : Passes(f)' = Passes(f)
  BY DEF Assignments, Passes, Consistent

\* A full assignment, let by at every cell of it, is handed over once.
LEMMA ExactFound == SearchInv /\ ExactInv /\ Found => ExactInv'
<1> SUFFICES ASSUME SearchInv, ExactInv, Found PROVE ExactInv'
  OBVIOUS
<1> DEFINE n == problem.cells
           d == problem.digits
           u == Front(trail)
<1>1. /\ trail \in Seq(0 .. d) /\ trail # <<>> /\ Len(trail) = n + 1 /\ n \in Nat /\ d \in Nat
      /\ trail' = u /\ solutions' = solutions + 1 /\ found' = found \cup {u}
      /\ UNCHANGED <<puzzle, verdict, problem, nodes, exhausted>>
  BY DEF Found, SearchInv, TypeOK
<1>2. problem # NoProblem /\ ~Enough /\ ~exhausted /\ solutions \in Nat
  BY <1>1 DEF SearchInv, StillWanted, OverBudget, Enough, TypeOK
<1>3. Len(u) = n /\ u \in Seq(0 .. d) /\ \A i \in 1 .. n : u[i] = trail[i]
  <2>1. /\ u \in Seq(0 .. d) /\ Len(u) = Len(trail) - 1
        /\ \A i \in 1 .. Len(trail) - 1 : u[i] = trail[i]
    BY <1>1, FrontProperties
  <2>2. Len(trail) - 1 = n
    BY <1>1
  <2> QED BY <2>1, <2>2
<1>4. \A i \in 1 .. n : trail[i] \in 1 .. d /\ Consistent(Upto(trail, i))
  <2>1. Len(trail) - 1 = n
    BY <1>1
  <2> QED BY <2>1 DEF ExactInv
<1>5. u \in Assignments
  <2>1. u = [i \in 1 .. n |-> u[i]]
    BY <1>3
  <2>2. \A i \in 1 .. n : u[i] \in 1 .. d
    BY <1>3, <1>4
  <2> HIDE DEF u
  <2> QED BY <2>1, <2>2 DEF Assignments
<1>6. Passes(u)
  <2>1. \A i \in 1 .. n : Upto(u, i) = Upto(trail, i)
    <3> TAKE i \in 1 .. n
    <3>1. \A j \in 1 .. i : u[j] = trail[j]
      BY <1>3
    <3> QED BY <3>1 DEF Upto
  <2> QED BY <1>4, <2>1 DEF Passes
<1>7. \A f \in Assignments : /\ Behind(n, f, u) <=> Behind(n, f, trail) \/ f = u
                             /\ f = u => ~Behind(n, f, trail)
  BY <1>1, BehindFound DEF Assignments
<1>8. Searching
  BY <1>2 DEF Searching
<1>9. u \notin found
  BY <1>5, <1>6, <1>7, <1>8 DEF ExactInv
<1>10. IsFiniteSet(found') /\ solutions' = Cardinality(found')
  BY <1>1, <1>9, FS_AddElement DEF ExactInv
<1>11. /\ Assignments' = Assignments /\ \A f : Passes(f)' = Passes(f)
       /\ \A t : Consistent(t)' = Consistent(t)
  BY <1>1, SameJudgement
<1>12. \A f \in found' : f \in Assignments /\ Passes(f)
  BY <1>1, <1>5, <1>6 DEF ExactInv
<1>13. \A f \in Assignments : Passes(f) => (f \in found' <=> Behind(n, f, u))
  <2> TAKE f \in Assignments
  <2> HAVE Passes(f)
  <2>1. f \in found <=> Behind(n, f, trail)
    BY <1>8 DEF ExactInv
  <2> QED BY <1>1, <1>7, <2>1
<1>14. \A i \in 1 .. Len(u) - 1 : u[i] \in 1 .. d /\ Consistent(Upto(u, i))
  <2> TAKE i \in 1 .. Len(u) - 1
  <2>1. i \in 1 .. n
    BY <1>3
  <2>2. Consistent(Upto(u, i))
    BY <1>6, <2>1 DEF Passes
  <2>3. u[i] \in 1 .. d
    BY <1>3, <1>4, <2>1
  <2> QED BY <2>2, <2>3
<1>15. verdict' = "open"
  BY <1>1, <1>2 DEF ExactInv
<1> HIDE DEF u
<1> QED BY <1>1, <1>10, <1>11, <1>12, <1>13, <1>14, <1>15 DEF ExactInv

\* A value that is given up is in no assignment that is let by.
LEMMA ExactTryValue == SearchInv /\ ExactInv /\ TryValue => ExactInv'
<1> SUFFICES ASSUME SearchInv, ExactInv, TryValue PROVE ExactInv'
  OBVIOUS
<1> DEFINE n == problem.cells
           d == problem.digits
           m == Len(trail)
           t == [trail EXCEPT ![m] = @ + 1]
           w == Append(t, 0)
<1>1. /\ trail \in Seq(0 .. d) /\ trail # <<>> /\ m <= n /\ n \in Nat /\ d \in Nat
      /\ trail[m] < d /\ ~Enough
      /\ trail' = IF Consistent(t) THEN w ELSE t
      /\ UNCHANGED <<puzzle, verdict, problem, solutions, exhausted, found>>
  BY DEF TryValue, SearchInv, TypeOK, Last
<1>2. problem # NoProblem
  BY <1>1 DEF SearchInv
<1>3. m \in 1 .. n /\ trail[m] + 1 \in 1 .. d /\ \A i \in 1 .. m : trail[i] \in 0 .. d
  BY <1>1
<1>4. /\ t \in Seq(0 .. d) /\ Len(t) = m /\ t[m] = trail[m] + 1
      /\ \A i \in 1 .. m - 1 : t[i] = trail[i]
  BY <1>1, <1>3
<1>5. w \in Seq(0 .. d) /\ Len(w) = m + 1 /\ \A i \in 1 .. m : w[i] = t[i]
  <2> HIDE DEF t, m, n
  <2>1. t \in Seq(0 .. d) /\ Len(t) = m
    BY <1>4
  <2> QED BY <1>1, <2>1
<1> HIDE DEF t, w
<1>6. t = Upto(t, m)
  <2>1. t = [i \in 1 .. Len(t) |-> t[i]]
    BY <1>4
  <2> QED BY <1>4, <2>1 DEF Upto
<1>7. \A f \in Assignments : /\ Behind(n, f, w) <=> Behind(n, f, trail)
                             /\ Behind(n, f, t) <=> Behind(n, f, trail) \/ Upto(f, m) = t
  BY <1>1, <1>3, <1>4, BehindNext DEF Assignments, w
<1>8. \A i \in 1 .. m - 1 : trail[i] \in 1 .. d /\ Consistent(Upto(trail, i))
  BY DEF ExactInv
<1>9. \A i \in 1 .. m - 1 : t[i] \in 1 .. d /\ Consistent(Upto(t, i))
  <2> TAKE i \in 1 .. m - 1
  <2>1. \A j \in 1 .. i : t[j] = trail[j]
    BY <1>3, <1>4
  <2>2. Upto(t, i) = Upto(trail, i)
    BY <2>1 DEF Upto
  <2> QED BY <1>4, <1>8, <2>2
<1>10. /\ Assignments' = Assignments /\ \A f : Passes(f)' = Passes(f)
       /\ \A s : Consistent(s)' = Consistent(s)
  BY <1>1, SameJudgement
<1>11. verdict' = "open"
  BY <1>1, <1>2 DEF ExactInv
<1>12. Searching' => Searching
  BY <1>1 DEF Searching, Enough
<1>13. CASE Consistent(t)
  <2>1. trail' = w
    BY <1>1, <1>13
  <2>2. \A i \in 1 .. Len(w) - 1 : w[i] \in 1 .. d /\ Consistent(Upto(w, i))
    <3> TAKE i \in 1 .. Len(w) - 1
    <3>1. i \in 1 .. m
      BY <1>3, <1>5
    <3>2. \A j \in 1 .. i : w[j] = t[j]
      BY <1>3, <1>5, <3>1
    <3>3. Upto(w, i) = Upto(t, i)
      BY <3>2 DEF Upto
    <3>4. CASE i = m
      BY <1>3, <1>4, <1>5, <1>6, <1>13, <3>1, <3>3, <3>4
    <3>5. CASE i # m
      <4>1. i \in 1 .. m - 1
        BY <1>3, <3>1, <3>5
      <4> QED BY <1>5, <1>9, <3>1, <3>3, <4>1
    <3> QED BY <3>4, <3>5
  <2>3. Searching' => \A f \in Assignments : Passes(f) => (f \in found <=> Behind(n, f, w))
    BY <1>7, <1>12 DEF ExactInv
  <2> QED BY <1>1, <1>10, <1>11, <2>1, <2>2, <2>3 DEF ExactInv
<1>14. CASE ~Consistent(t)
  <2>1. trail' = t
    BY <1>1, <1>14
  <2>2. \A f \in Assignments : Passes(f) => Upto(f, m) # t
    BY <1>3, <1>14 DEF Passes
  <2>3. Searching' => \A f \in Assignments : Passes(f) => (f \in found <=> Behind(n, f, t))
    BY <1>7, <1>12, <2>2 DEF ExactInv
  <2> QED BY <1>1, <1>4, <1>9, <1>10, <1>11, <2>1, <2>3 DEF ExactInv
<1> QED BY <1>13, <1>14

\* A frame is closed when its cell is out of values, or nothing more is wanted.
LEMMA ExactReturn == SearchInv /\ ExactInv /\ Return => ExactInv'
<1> SUFFICES ASSUME SearchInv, ExactInv, Return PROVE ExactInv'
  OBVIOUS
<1> DEFINE n == problem.cells
           d == problem.digits
           m == Len(trail)
           u == Front(trail)
<1>1. /\ trail \in Seq(0 .. d) /\ trail # <<>> /\ m <= n /\ n \in Nat /\ d \in Nat
      /\ trail[m] >= d \/ Enough \/ Broke
      /\ exhausted' = (exhausted \/ (trail[m] < d /\ Broke))
      /\ trail' = u
      /\ UNCHANGED <<puzzle, verdict, problem, solutions, nodes, found>>
  BY DEF Return, SearchInv, TypeOK, Last
<1>2. problem # NoProblem
  BY <1>1 DEF SearchInv
<1>3. m \in 1 .. n /\ trail[m] \in 0 .. d
  BY <1>1
<1>4. Len(u) = m - 1 /\ \A i \in 1 .. m - 1 : u[i] = trail[i]
  BY <1>1, FrontProperties
<1>5. \A i \in 1 .. m - 1 : trail[i] \in 1 .. d /\ Consistent(Upto(trail, i))
  BY DEF ExactInv
<1> HIDE DEF u
<1>6. \A i \in 1 .. Len(u) - 1 : u[i] \in 1 .. d /\ Consistent(Upto(u, i))
  <2> TAKE i \in 1 .. Len(u) - 1
  <2>1. i \in 1 .. m - 1
    BY <1>3, <1>4
  <2>2. \A j \in 1 .. i : u[j] = trail[j]
    BY <1>3, <1>4, <2>1
  <2>3. Upto(u, i) = Upto(trail, i)
    BY <2>2 DEF Upto
  <2> QED BY <1>4, <1>5, <2>1, <2>3
<1>7. /\ Assignments' = Assignments /\ \A f : Passes(f)' = Passes(f)
      /\ \A s : Consistent(s)' = Consistent(s)
  BY <1>1, SameJudgement
<1>8. verdict' = "open"
  BY <1>1, <1>2 DEF ExactInv
<1>9. Searching' => Searching /\ trail[m] >= d
  <2> HAVE Searching'
  <2>1. ~exhausted /\ ~(trail[m] < d /\ Broke) /\ ~Enough
    BY <1>1 DEF Searching, Enough
  <2>2. trail[m] >= d
    BY <1>1, <1>3, <2>1
  <2> QED BY <1>2, <2>1, <2>2 DEF Searching
<1>10. Searching' => \A f \in Assignments : Passes(f) => (f \in found <=> Behind(n, f, u))
  <2> HAVE Searching'
  <2>1. \A f \in Assignments : Behind(n, f, u) <=> Behind(n, f, trail)
    BY <1>1, <1>3, <1>9, BehindReturn DEF Assignments, u
  <2> QED BY <1>9, <2>1 DEF ExactInv
<1> QED BY <1>1, <1>6, <1>7, <1>8, <1>10 DEF ExactInv

\* Each step of the search keeps what is handed over equal to what is left behind.
LEMMA ExactNext == SearchInv /\ ExactInv /\ [Next]_vars => ExactInv'
<1> SUFFICES ASSUME SearchInv, ExactInv, [Next]_vars PROVE ExactInv'
  OBVIOUS
<1>1. CASE Conclude
  <2>1. UNCHANGED <<puzzle, problem, trail, solutions, nodes, exhausted, found>>
        /\ trail = <<>> /\ verdict' = Outcome
    BY <1>1 DEF Conclude
  <2>2. /\ Assignments' = Assignments /\ \A f : Passes(f)' = Passes(f)
        /\ \A s : Consistent(s)' = Consistent(s)
    BY <2>1, SameJudgement
  <2>3. Outcome' = Outcome /\ Searching' = Searching
    BY <2>1 DEF Outcome, DeclaredFound, Searching, Enough
  <2> QED BY <2>1, <2>2, <2>3 DEF ExactInv
<1>2. CASE UNCHANGED vars
  <2>1. UNCHANGED <<puzzle, problem, trail, solutions, nodes, exhausted, found, verdict>>
    BY <1>2 DEF vars
  <2>2. /\ Assignments' = Assignments /\ \A f : Passes(f)' = Passes(f)
        /\ \A s : Consistent(s)' = Consistent(s)
    BY <2>1, SameJudgement
  <2>3. Outcome' = Outcome /\ Searching' = Searching
    BY <2>1 DEF Outcome, DeclaredFound, Searching, Enough
  <2> QED BY <2>1, <2>2, <2>3 DEF ExactInv
<1> QED BY <1>1, <1>2, ExactValidate, ExactFound, ExactTryValue, ExactReturn DEF Next, Search

-----------------------------------------------------------------------------
\* Pruning.

\* The part of an assignment that a region sees.
WellViewed(view, n) ==
    /\ IsFiniteSet(DOMAIN view.at)
    /\ \A k \in DOMAIN view.at : view.at[k] \in 0 .. n
    /\ view.kind # "distinct" =>
          DOMAIN view.at # {} /\ \A k \in DOMAIN view.at : view.at[k] \in 1 .. n

Within(view, n) == {k \in DOMAIN view.at : view.at[k] \in 1 .. n}

\* The beginning of an assignment shows a region the part it has come to, with the
\* values of the whole.
LEMMA UptoSees ==
    ASSUME NEW n \in Nat, NEW t, t = [i \in 1 .. n |-> t[i]], NEW m \in 1 .. n,
           NEW s, s = Upto(t, m), NEW view
    PROVE  /\ Len(s) = m /\ Len(t) = n
           /\ Filled(view, s) = Within(view, m)
           /\ Filled(view, t) = Within(view, n)
           /\ Filled(view, s) \subseteq Filled(view, t)
           /\ DOMAIN Values(view, s) = Filled(view, s)
           /\ DOMAIN Values(view, t) = Filled(view, t)
           /\ \A k \in Filled(view, s) : Values(view, s)[k] = Values(view, t)[k]
           /\ Filled(view, s) = Filled(view, t) => Values(view, s) = Values(view, t)
<1>1. Len(s) = m /\ Len(t) = n
  <2>1. s \in [1 .. m -> {s[i] : i \in 1 .. m}]
    BY DEF Upto
  <2>2. t \in [1 .. n -> {t[i] : i \in 1 .. n}]
    OBVIOUS
  <2> QED BY <2>1, <2>2
<1>2. \A i \in 1 .. m : s[i] = t[i]
  BY DEF Upto
<1>3. /\ Filled(view, s) = Within(view, m)
      /\ Filled(view, t) = Within(view, n)
  BY <1>1 DEF Filled, Within
<1>4. Filled(view, s) \subseteq Filled(view, t)
  BY <1>3 DEF Within
<1>5. /\ DOMAIN Values(view, s) = Filled(view, s)
      /\ DOMAIN Values(view, t) = Filled(view, t)
      /\ \A k \in Filled(view, s) : Values(view, s)[k] = s[view.at[k]]
      /\ \A k \in Filled(view, t) : Values(view, t)[k] = t[view.at[k]]
  BY DEF Values
<1>6. \A k \in Filled(view, s) : Values(view, s)[k] = Values(view, t)[k]
  BY <1>2, <1>3, <1>4, <1>5 DEF Within
<1>7. Filled(view, s) = Filled(view, t) => Values(view, s) = Values(view, t)
  <2> HAVE Filled(view, s) = Filled(view, t)
  <2>1. \A k \in Filled(view, t) : s[view.at[k]] = t[view.at[k]]
    BY <1>5, <1>6
  <2> QED BY <2>1 DEF Values
<1> QED BY <1>1, <1>3, <1>4, <1>5, <1>6, <1>7

\* Pruning loses nothing and lets nothing through: an assignment is let by at
\* every cell exactly when it satisfies every region.
LEMMA PassesIsSatisfies ==
    ASSUME problem.cells \in Nat, problem.digits \in Nat,
           \A view \in problem.views : WellViewed(view, problem.cells),
           NEW t \in Assignments
    PROVE  Passes(t) <=> \A view \in problem.views : RuleSatisfied(view, Values(view, t))
<1> DEFINE n == problem.cells
<1>0. n \in Nat /\ t = [i \in 1 .. n |-> t[i]] /\ \A i \in 1 .. n : t[i] \in Nat \ {0}
  BY DEF Assignments
<1>s. ASSUME NEW m \in 1 .. n, NEW view
      PROVE  /\ Len(Upto(t, m)) = m
             /\ Filled(view, Upto(t, m)) = Within(view, m)
             /\ Filled(view, t) = Within(view, n)
             /\ Filled(view, Upto(t, m)) \subseteq Filled(view, t)
             /\ DOMAIN Values(view, Upto(t, m)) = Filled(view, Upto(t, m))
             /\ DOMAIN Values(view, t) = Filled(view, t)
             /\ \A k \in Filled(view, Upto(t, m)) : Values(view, Upto(t, m))[k] = Values(view, t)[k]
             /\ Filled(view, Upto(t, m)) = Filled(view, t)
                    => Values(view, Upto(t, m)) = Values(view, t)
  <2> DEFINE s == Upto(t, m)
  <2>1. n \in Nat /\ t = [i \in 1 .. n |-> t[i]] /\ m \in 1 .. n
    BY <1>0
  <2>2. s = Upto(t, m)
    OBVIOUS
  <2> HIDE DEF n, s
  <2>3. /\ Len(s) = m
        /\ Filled(view, s) = Within(view, m)
        /\ Filled(view, t) = Within(view, n)
        /\ Filled(view, s) \subseteq Filled(view, t)
        /\ DOMAIN Values(view, s) = Filled(view, s)
        /\ DOMAIN Values(view, t) = Filled(view, t)
        /\ \A k \in Filled(view, s) : Values(view, s)[k] = Values(view, t)[k]
        /\ Filled(view, s) = Filled(view, t) => Values(view, s) = Values(view, t)
    BY ONLY <2>1, <2>2, UptoSees
  <2> QED BY <2>3 DEF s
<1>1. ASSUME Passes(t), NEW view \in problem.views
      PROVE  RuleSatisfied(view, Values(view, t))
  <2>1. WellViewed(view, n)
    OBVIOUS
  <2>2. Filled(view, t) = Within(view, n)
        /\ DOMAIN Values(view, t) = Filled(view, t)
    <3>1. Len(t) = n
      BY <1>0
    <3> QED BY <3>1 DEF Filled, Values, Within
  <2>3. view.kind = "distinct" => RuleSatisfied(view, Values(view, t)) = ~HasDuplicate(Values(view, t))
    BY DEF RuleSatisfied
  <2>4. CASE Filled(view, t) = {}
    <3>1. view.kind = "distinct"
      BY <2>1, <2>2, <2>4 DEF WellViewed, Within
    <3>2. ~HasDuplicate(Values(view, t))
      BY <2>2, <2>4 DEF HasDuplicate
    <3> QED BY <2>3, <3>1, <3>2
  <2>5. CASE Filled(view, t) # {}
    <3> DEFINE P == {view.at[k] : k \in Filled(view, t)}
    <3>1. P \subseteq 1 .. n /\ P # {}
      BY <2>2, <2>5 DEF Within
    <3>2. PICK m \in P : \A y \in P : y <= m
      <4> HIDE DEF P, n
      <4> QED BY <1>0, <3>1, GreatestIsIn
    <3> DEFINE s == Upto(t, m)
    <3>3. m \in 1 .. n
      BY <3>1
    <3>4. \A k \in Filled(view, t) : view.at[k] \in 1 .. m
      <4>1. \A k \in Filled(view, t) : view.at[k] \in P
        OBVIOUS
      <4> HIDE DEF P
      <4> QED BY <2>2, <3>2, <3>3, <4>1 DEF Within
    <3>5. m \in Range(view.at)
      BY <2>2, <3>2 DEF Range, Within
    <3> HIDE DEF P
    <3>6. Consistent(s) /\ Len(s) = m
      <4>1. Len(s) = m
        BY <1>s, <3>3
      <4> QED BY <1>1, <3>3, <4>1 DEF Passes
    <3>7. Filled(view, s) = Filled(view, t) /\ Values(view, s) = Values(view, t)
      <4>1. Filled(view, s) = Within(view, m)
            /\ (Filled(view, s) = Filled(view, t) => Values(view, s) = Values(view, t))
            /\ Filled(view, s) \subseteq Filled(view, t)
        BY <1>s, <3>3
      <4>2. Filled(view, t) \subseteq Filled(view, s)
        BY <2>2, <3>4, <4>1 DEF Within
      <4> QED BY <4>1, <4>2
    <3>8. StillConsistent(view, s)
      BY <3>5, <3>6 DEF Consistent
    <3> HIDE DEF s
    <3>9. CASE Filled(view, t) = DOMAIN view.at
      BY <3>7, <3>8, <3>9 DEF StillConsistent
    <3>10. CASE Filled(view, t) # DOMAIN view.at
      <4>1. view.kind = "distinct"
        BY <2>1, <2>2, <3>10 DEF WellViewed, Within
      <4>2. ~RulePrunable(view, Values(view, t))
        BY <3>7, <3>8, <3>10 DEF StillConsistent
      <4> QED BY <2>3, <4>1, <4>2 DEF RulePrunable
    <3> QED BY <3>9, <3>10
  <2> QED BY <2>4, <2>5
<1>2. ASSUME \A view \in problem.views : RuleSatisfied(view, Values(view, t))
      PROVE  Passes(t)
  <2> SUFFICES ASSUME NEW m \in 1 .. n, NEW view \in problem.views,
                      m \in Range(view.at)
               PROVE  StillConsistent(view, Upto(t, m))
    <3>1. \A m \in 1 .. n : Len(Upto(t, m)) = m
      BY <1>s
    <3> QED BY <3>1 DEF Passes, Consistent
  <2> DEFINE s == Upto(t, m)
             A == Filled(view, s)
             B == Filled(view, t)
             v == Values(view, s)
             w == Values(view, t)
  <2>1. /\ B = Within(view, n)
        /\ A \subseteq B /\ DOMAIN v = A /\ DOMAIN w = B
        /\ \A k \in A : v[k] = w[k]
        /\ A = B => v = w
    BY <1>s
  <2>2. WellViewed(view, n) /\ RuleSatisfied(view, w)
    BY <1>2
  <2>3. \A k \in B : w[k] \in Nat \ {0}
    BY <1>0, <2>1 DEF Values, Within
  <2>4. B \subseteq DOMAIN view.at
    BY <2>1 DEF Within
  <2> HIDE DEF s, A, B, v, w
  <2>5. CASE A = DOMAIN view.at
    <3>1. A = B /\ v = w
      BY <2>1, <2>4, <2>5
    <3> QED BY <2>2, <2>5, <3>1 DEF StillConsistent, A, v, s
  <2>6. CASE A # DOMAIN view.at
    <3>1. HasDuplicate(v) => HasDuplicate(w)
      BY <2>1 DEF HasDuplicate
    <3>2. view.kind \in {"distinct", "distinctSum"} => ~HasDuplicate(w)
      BY <2>2 DEF RuleSatisfied
    <3>3. ASSUME view.kind \in {"sum", "distinctSum"} PROVE ~(Total(v) >= view.target)
      <4>1. B = DOMAIN view.at
        BY <2>1, <2>2, <3>3 DEF WellViewed, Within
      <4>2. IsFiniteSet(B) /\ IsFiniteSet(A)
        BY <2>1, <2>2, <4>1, FS_Subset DEF WellViewed
      <4>3. A \subseteq B /\ A # B
        BY <2>1, <2>6, <4>1
      <4>4. SumOver(w, A) < SumOver(w, B)
        BY <2>3, <4>2, <4>3, SumGrows
      <4>5. SumOver(v, A) = SumOver(w, A)
        BY <2>1, <4>2, SumSame
      <4>6. Total(v) = SumOver(v, A) /\ Total(w) = SumOver(w, B)
        BY <2>1, TotalIsASum
      <4>7. Total(w) = view.target
        BY <2>2, <3>3 DEF RuleSatisfied
      <4>8. SumOver(w, A) \in Int /\ SumOver(w, B) \in Int
        <5>1. (\A k \in A : w[k] \in Int) /\ (\A k \in B : w[k] \in Int)
          BY <2>3, <4>3
        <5> QED BY <4>2, <5>1, SumType
      <4> QED BY <4>4, <4>5, <4>6, <4>7, <4>8
    <3>4. ~RulePrunable(view, v)
      BY <3>1, <3>2, <3>3 DEF RulePrunable
    <3> QED BY <2>6, <3>4 DEF StillConsistent, A, v, s
  <2> QED BY <2>5, <2>6
<1> QED BY <1>1, <1>2

-----------------------------------------------------------------------------
\* The assignments and the fillings of the board.

\* The place of a cell in the order of the search, 0 for one it never fills.
Place(s, c) == SelectInSeq(s, LAMBDA x : x = c)

\* A cell that is numbered has its number for its place.
LEMMA PlaceFacts ==
    ASSUME NEW s, Len(s) \in Nat, \A i, j \in 1 .. Len(s) : s[i] = s[j] => i = j, NEW c
    PROVE  /\ \A i \in 1 .. Len(s) : s[i] = c => Place(s, c) = i
           /\ (\A i \in 1 .. Len(s) : s[i] # c) => Place(s, c) = 0
<1> DEFINE I == {i \in 1 .. Len(s) : s[i] = c}
<1>1. Place(s, c) = IF I # {} THEN Min(I) ELSE 0
  BY DEF Place, SelectInSeq
<1>2. I \subseteq Nat
  OBVIOUS
<1>3. I # {} => Min(I) \in I
  <2> HIDE DEF I
  <2> QED BY <1>2, MinIsIn
<1>4. \A i \in 1 .. Len(s) : s[i] = c => i \in I /\ \A j \in I : j = i
  OBVIOUS
<1>5. (\A i \in 1 .. Len(s) : s[i] # c) => I = {}
  OBVIOUS
<1> HIDE DEF I
<1> QED BY <1>1, <1>3, <1>4, <1>5

\* The board that an assignment fills in.
FillingOf(p, t) == [c \in Fillable(p) |-> t[Place(FillableCells(p), c)]]

\* The values that a filling f gives the cells of a region.
Shown(r, f) == [k \in {k \in DOMAIN r.cells : r.cells[k] \in DOMAIN f} |-> f[r.cells[k]]]

\* A view is its region with each cell's place for the cell.
LEMMA ViewFacts ==
    ASSUME NEW p, Board(p), NEW r
    PROVE  LET s == FillableCells(p)
               v == View(s, r)
           IN  /\ v.kind = r.kind /\ v.target = r.target
               /\ DOMAIN v.at = DOMAIN r.cells
               /\ \A k \in DOMAIN r.cells : v.at[k] = Place(s, r.cells[k])
               /\ \A k \in DOMAIN r.cells :
                     IF r.cells[k] \in Fillable(p) THEN v.at[k] \in 1 .. Len(s) /\ s[v.at[k]] = r.cells[k]
                                                   ELSE v.at[k] = 0
<1> DEFINE s == FillableCells(p)
           v == View(s, r)
<1>1. /\ v.kind = r.kind /\ v.target = r.target
      /\ v.at = [k \in DOMAIN r.cells |-> Place(s, r.cells[k])]
  BY DEF View, Place
<1>2. Len(s) \in Nat /\ \A i, j \in 1 .. Len(s) : s[i] = s[j] => i = j
  BY BoardFacts
<1>3. /\ \A c \in Fillable(p) : \E i \in 1 .. Len(s) : s[i] = c
      /\ \A i \in 1 .. Len(s) : s[i] \in Fillable(p)
  BY BoardFacts
<1> HIDE DEF s, v
<1>4. \A c : /\ \A i \in 1 .. Len(s) : s[i] = c => Place(s, c) = i
             /\ (\A i \in 1 .. Len(s) : s[i] # c) => Place(s, c) = 0
  BY <1>2, PlaceFacts
<1>5. ASSUME NEW c
      PROVE  IF c \in Fillable(p) THEN Place(s, c) \in 1 .. Len(s) /\ s[Place(s, c)] = c
                                  ELSE Place(s, c) = 0
  <2>1. CASE c \in Fillable(p)
    <3>1. PICK i \in 1 .. Len(s) : s[i] = c
      BY <1>3, <2>1
    <3> QED BY <1>4, <2>1, <3>1
  <2>2. CASE c \notin Fillable(p)
    BY <1>3, <1>4, <2>2
  <2> QED BY <2>1, <2>2
<1>6. DOMAIN v.at = DOMAIN r.cells /\ \A k \in DOMAIN r.cells : v.at[k] = Place(s, r.cells[k])
  BY <1>1
<1> QED BY <1>1, <1>5, <1>6 DEF s, v

\* An assignment lets a region show what its filling shows.
LEMMA SeesAlike ==
    ASSUME NEW p, Board(p), NEW r, NEW d, NEW t \in [1 .. Len(FillableCells(p)) -> d]
    PROVE  /\ Values(View(FillableCells(p), r), t) = Shown(r, FillingOf(p, t))
           /\ RuleSatisfied(View(FillableCells(p), r), Values(View(FillableCells(p), r), t))
                 <=> RuleSatisfied(r, Shown(r, FillingOf(p, t)))
<1> DEFINE s == FillableCells(p)
           v == View(s, r)
           f == FillingOf(p, t)
<1>1. /\ v.kind = r.kind /\ v.target = r.target
      /\ DOMAIN v.at = DOMAIN r.cells
      /\ \A k \in DOMAIN r.cells : v.at[k] = Place(s, r.cells[k])
      /\ \A k \in DOMAIN r.cells :
            IF r.cells[k] \in Fillable(p) THEN v.at[k] \in 1 .. Len(s) /\ s[v.at[k]] = r.cells[k]
                                          ELSE v.at[k] = 0
  BY ViewFacts
<1>2. Len(s) \in Nat /\ Len(t) = Len(s)
  <2>1. Len(s) \in Nat
    BY BoardFacts
  <2> QED BY <2>1
<1>3. f = [c \in Fillable(p) |-> t[Place(s, c)]]
  BY DEF FillingOf
<1> HIDE DEF s, v, f
<1> DEFINE K == {k \in DOMAIN r.cells : r.cells[k] \in Fillable(p)}
<1>4. Filled(v, t) = K
  BY <1>1, <1>2 DEF Filled
<1>5. {k \in DOMAIN r.cells : r.cells[k] \in DOMAIN f} = K
  BY <1>3
<1>6. \A k \in K : t[v.at[k]] = f[r.cells[k]]
  BY <1>1, <1>3
<1> HIDE DEF K
<1>7. Values(v, t) = Shown(r, f)
  BY <1>4, <1>5, <1>6 DEF Values, Shown
<1>8. \A w : RuleSatisfied(v, w) <=> RuleSatisfied(r, w)
  BY <1>1 DEF RuleSatisfied
<1> QED BY <1>7, <1>8 DEF s, v, f

\* An assignment is let by exactly when its filling obeys the regions.
LEMMA PassesIsObeys ==
    ASSUME Board(puzzle), problem = ProblemOf(puzzle), CluesFillable(puzzle), NEW t \in Assignments
    PROVE  Passes(t) <=> Obeys(puzzle, FillingOf(puzzle, t))
<1> DEFINE p == puzzle
           s == FillableCells(p)
           f == FillingOf(p, t)
<1>1. /\ problem.cells = Len(s) /\ Len(s) \in Nat /\ problem.digits \in Nat
      /\ problem.views = {View(s, r) : r \in Regions(p)}
  BY BoardFacts
<1>2. \A view \in problem.views : WellViewed(view, problem.cells)
  <2> SUFFICES ASSUME NEW r \in Regions(p) PROVE WellViewed(View(s, r), Len(s))
    BY <1>1
  <2> DEFINE v == View(s, r)
  <2>1. /\ v.kind = r.kind
        /\ DOMAIN v.at = DOMAIN r.cells
        /\ \A k \in DOMAIN r.cells :
              IF r.cells[k] \in Fillable(p) THEN v.at[k] \in 1 .. Len(s) /\ s[v.at[k]] = r.cells[k]
                                            ELSE v.at[k] = 0
    BY ViewFacts
  <2>2. IsFiniteSet(DOMAIN r.cells) /\ (r.kind # "distinct" => DOMAIN r.cells # {})
    BY RegionFacts
  <2>3. r.kind # "distinct" => \A k \in DOMAIN r.cells : r.cells[k] \in Fillable(p)
    BY DEF CluesFillable, Range
  <2> HIDE DEF v, s
  <2> QED BY <1>1, <2>1, <2>2, <2>3 DEF WellViewed, v
<1>3. Passes(t) <=> \A view \in problem.views : RuleSatisfied(view, Values(view, t))
  BY <1>1, <1>2, PassesIsSatisfies
<1>4. t \in [1 .. Len(s) -> 1 .. problem.digits]
  BY <1>1 DEF Assignments
<1>5. \A r \in Regions(p) : RuleSatisfied(View(s, r), Values(View(s, r), t))
                               <=> RuleSatisfied(r, Shown(r, f))
  BY <1>4, SeesAlike
<1>6. Obeys(p, f) <=> \A r \in Regions(p) : RuleSatisfied(r, Shown(r, f))
  BY DEF Obeys, Shown
<1> HIDE DEF s, f, p
<1> QED BY <1>1, <1>3, <1>5, <1>6 DEF f, p

-----------------------------------------------------------------------------
\* The verdict.

\* The functions from one finite set to another are finitely many.
LEMMA FinitelyManyFunctions ==
    ASSUME NEW A, IsFiniteSet(A), NEW S, IsFiniteSet(S)
    PROVE  IsFiniteSet([A -> S])
<1> SUFFICES ASSUME ~IsFiniteSet([A -> S]) PROVE FALSE
  OBVIOUS
<1> DEFINE Bad == {a \in SUBSET A : ~IsFiniteSet([a -> S])}
<1>0. A \in Bad /\ Bad \subseteq SUBSET A
  OBVIOUS
<1>1. PICK a \in Bad : \A y \in Bad : y \subseteq a => y = a
  <2> HIDE DEF Bad
  <2> QED BY <1>0, SmallestSubset
<1>2. CASE a = {}
  <2>1. \A f, g \in [a -> S] : f = g
    BY <1>2
  <2> DEFINE W == [a -> S]
  <2> HIDE DEF W
  <2>2. IsFiniteSet(W)
    <3>1. CASE W = {}
      BY <3>1, FS_EmptySet
    <3>2. CASE W # {}
      <4>1. PICK f : f \in W
        BY <3>2
      <4>2. \A g \in W : g = f
        BY <2>1, <4>1 DEF W
      <4>3. W = {f}
        BY <4>1, <4>2
      <4> QED BY <4>3, FS_Singleton
    <3> QED BY <3>1, <3>2
  <2> QED BY <2>2 DEF W
<1>3. CASE a # {}
  <2>1. PICK x : x \in a
    BY <1>3
  <2> DEFINE b == a \ {x}
             T == [b -> S] \X S
             g == [p \in T |-> [y \in a |-> IF y = x THEN p[2] ELSE p[1][y]]]
  <2>2. b \in SUBSET A /\ b \subseteq a /\ b # a
    BY <2>1
  <2>3. IsFiniteSet([b -> S])
    BY <1>1, <2>2
  <2>4. IsFiniteSet(T)
    <3> HIDE DEF b
    <3> QED BY <2>3, FS_Product
  <2>5. g \in Surjection(T, [a -> S])
    <3>1. g \in [T -> [a -> S]]
      OBVIOUS
    <3>2. ASSUME NEW f \in [a -> S] PROVE \E p \in T : g[p] = f
      <4> DEFINE p == <<[y \in b |-> f[y]], f[x]>>
      <4>1. p \in T
        BY <2>1
      <4>2. g[p] = [y \in a |-> IF y = x THEN f[x] ELSE f[y]]
        BY <4>1
      <4>3. g[p] = f
        BY <4>2
      <4> QED BY <4>1, <4>3
    <3> QED BY <3>1, <3>2 DEF Surjection
  <2>6. IsFiniteSet([a -> S])
    <3> HIDE DEF T, g
    <3> QED BY <2>4, <2>5, FS_Surjection
  <2> QED BY <2>6
<1> QED BY <1>2, <1>3

\* What obeys the regions keeps what is printed.
LEMMA PrintedIsKept ==
    ASSUME NEW p, Board(p), CluesFillable(p), NEW f, DOMAIN f = Fillable(p),
           \A c \in Fillable(p) : f[c] \in Int, Obeys(p, f), NEW c \in p.given
    PROVE  c \in Fillable(p) /\ f[c] = Declared(p, c)
<1> DEFINE r == SumOf(<<c>>, Declared(p, c))
           v == Shown(r, f)
<1>1. r \in Regions(p)
  BY DEF Regions
<1>2. r.cells = <<c>> /\ r.kind = "sum" /\ r.target = Declared(p, c)
  BY DEF SumOf
<1>3. DOMAIN r.cells = {1} /\ r.cells[1] = c
  BY <1>2
<1> HIDE DEF r
<1>4. c \in Fillable(p)
  BY <1>1, <1>2, <1>3 DEF CluesFillable, Range
<1>5. v = [k \in {1} |-> f[c]]
  <2>1. {k \in DOMAIN r.cells : r.cells[k] \in DOMAIN f} = {1}
    BY <1>3, <1>4
  <2> QED BY <1>3, <2>1 DEF Shown
<1>6. DOMAIN v = {1} /\ v[1] = f[c] /\ f[c] \in Int
  BY <1>4, <1>5
<1>7. RuleSatisfied(r, v)
  BY <1>1 DEF Obeys, Shown
<1> HIDE DEF v
<1>8. Total(v) = Declared(p, c)
  BY <1>2, <1>7 DEF RuleSatisfied
<1>9. Total(v) = SumOver(v, {1})
  BY <1>6, TotalIsASum
<1>10. SumOver(v, {1}) = v[1] + SumOver(v, {1} \ {1})
  <2>1. IsFiniteSet({1}) /\ \A x \in {1} : v[x] \in Int
    BY <1>6, FS_Singleton
  <2> QED BY <2>1, SumAny
<1>11. SumOver(v, {1} \ {1}) = 0
  <2>1. {1} \ {1} = {} /\ IsFiniteSet({})
    BY FS_EmptySet
  <2> QED BY <2>1, SumStep
<1> QED BY <1>4, <1>6, <1>8, <1>9, <1>10, <1>11

\* No digit of a magic square is used twice.
LEMMA SquareIsDistinct ==
    ASSUME NEW p, Board(p), p.kind = "magicSquare", NEW f, DOMAIN f = Fillable(p), Obeys(p, f),
           NEW a \in Fillable(p), NEW b \in Fillable(p), f[a] = f[b]
    PROVE  a = b
<1> DEFINE s == FillableCells(p)
           r == Distinct(s)
           v == Shown(r, f)
<1>1. r \in Regions(p)
  BY DEF Regions
<1>2. r.cells = s /\ r.kind = "distinct"
  BY DEF Distinct
<1> HIDE DEF r
<1>3. RuleSatisfied(r, v)
  BY <1>1 DEF Obeys, Shown
<1>4. DOMAIN s = 1 .. Len(s) /\ \A i \in 1 .. Len(s) : s[i] \in Fillable(p)
  BY BoardFacts
<1>5. v = [k \in 1 .. Len(s) |-> f[s[k]]]
  <2> HIDE DEF s
  <2>1. {k \in DOMAIN r.cells : r.cells[k] \in DOMAIN f} = 1 .. Len(s)
    BY <1>2, <1>4
  <2> QED BY <1>2, <2>1 DEF Shown
<1>6. PICK i \in 1 .. Len(s) : s[i] = a
  BY BoardFacts
<1>7. PICK j \in 1 .. Len(s) : s[j] = b
  BY BoardFacts
<1> HIDE DEF s, v
<1>8. ~HasDuplicate(v)
  BY <1>2, <1>3 DEF RuleSatisfied
<1>9. DOMAIN v = 1 .. Len(s) /\ v[i] = v[j]
  BY <1>5, <1>6, <1>7
<1> QED BY <1>6, <1>7, <1>8, <1>9 DEF HasDuplicate

\* The solution that is declared is of the board's digits.
LEMMA DeclaredIsADigit ==
    ASSUME NEW p, Board(p), NEW c \in Fillable(p)
    PROVE  Declared(p, c) \in 1 .. DomainMax(p)
<1>1. c \in Squares(p) /\ p.size \in 3 .. 6
  BY BoardFacts
<1>2. SolutionShaped(p)
  BY Unrejected DEF Board
<1>3. c[1] + 1 \in 1 .. p.size /\ c[2] + 1 \in 1 .. p.size
      /\ <<(c[1] + 1) - 1, (c[2] + 1) - 1>> = c /\ c \notin p.blocked
  BY <1>1 DEF Squares, Cells
<1> QED BY <1>2, <1>3 DEF SolutionShaped, Declared

\* Filling in and reading off are inverse.
LEMMA FillingFacts ==
    ASSUME NEW p, Board(p), NEW d
    PROVE  LET s == FillableCells(p)
           IN  /\ \A t \in [1 .. Len(s) -> d] :
                     /\ FillingOf(p, t) \in [Fillable(p) -> d]
                     /\ \A i \in 1 .. Len(s) : FillingOf(p, t)[s[i]] = t[i]
               /\ \A f \in [Fillable(p) -> d] :
                     /\ [i \in 1 .. Len(s) |-> f[s[i]]] \in [1 .. Len(s) -> d]
                     /\ FillingOf(p, [i \in 1 .. Len(s) |-> f[s[i]]]) = f
               /\ \A t, u \in [1 .. Len(s) -> d] : FillingOf(p, t) = FillingOf(p, u) => t = u
<1> DEFINE s == FillableCells(p)
<1>1. /\ Len(s) \in Nat
      /\ \A i \in 1 .. Len(s) : s[i] \in Fillable(p)
      /\ \A c \in Fillable(p) : \E i \in 1 .. Len(s) : s[i] = c
      /\ \A i, j \in 1 .. Len(s) : s[i] = s[j] => i = j
  BY BoardFacts
<1> HIDE DEF s
<1>2. \A i \in 1 .. Len(s) : Place(s, s[i]) = i
  BY <1>1, PlaceFacts
<1>3. \A c \in Fillable(p) : Place(s, c) \in 1 .. Len(s) /\ s[Place(s, c)] = c
  BY <1>1, <1>2
<1>4. \A t : FillingOf(p, t) = [c \in Fillable(p) |-> t[Place(s, c)]]
  BY DEF FillingOf, s
<1>5. ASSUME NEW t \in [1 .. Len(s) -> d]
      PROVE  /\ FillingOf(p, t) \in [Fillable(p) -> d]
             /\ \A i \in 1 .. Len(s) : FillingOf(p, t)[s[i]] = t[i]
  BY <1>1, <1>2, <1>3, <1>4
<1>6. ASSUME NEW f \in [Fillable(p) -> d]
      PROVE  /\ [i \in 1 .. Len(s) |-> f[s[i]]] \in [1 .. Len(s) -> d]
             /\ FillingOf(p, [i \in 1 .. Len(s) |-> f[s[i]]]) = f
  <2> DEFINE t == [i \in 1 .. Len(s) |-> f[s[i]]]
  <2>1. t \in [1 .. Len(s) -> d]
    BY <1>1
  <2>2. FillingOf(p, t) = [c \in Fillable(p) |-> t[Place(s, c)]]
    BY <1>4
  <2>3. \A c \in Fillable(p) : t[Place(s, c)] = f[c]
    BY <1>3
  <2> HIDE DEF t
  <2>4. FillingOf(p, t) = f
    BY <2>2, <2>3
  <2> QED BY <2>1, <2>4 DEF t
<1>7. ASSUME NEW t \in [1 .. Len(s) -> d], NEW u \in [1 .. Len(s) -> d],
             FillingOf(p, t) = FillingOf(p, u)
      PROVE  t = u
  <2>1. \A i \in 1 .. Len(s) : t[i] = u[i]
    BY <1>5, <1>7
  <2> QED BY <2>1
<1> QED BY <1>5, <1>6, <1>7 DEF s

\* A solution of the board is the filling of an assignment that is let by.
LEMMA SolutionsArePassing ==
    ASSUME Board(puzzle), problem = ProblemOf(puzzle), CluesFillable(puzzle)
    PROVE  /\ \A t \in Assignments : Passes(t) => FillingOf(puzzle, t) \in SolutionsOf(puzzle)
           /\ \A f \in SolutionsOf(puzzle) : \E t \in Assignments : Passes(t) /\ f = FillingOf(puzzle, t)
<1> DEFINE p == puzzle
           s == FillableCells(p)
           F == Fillable(p)
           D == 1 .. DomainMax(p)
<1>1. Assignments = [1 .. Len(s) -> D] /\ DomainMax(p) \in Nat \ {0}
  BY BoardFacts DEF Assignments
<1>2. ASSUME NEW t \in Assignments, Passes(t)
      PROVE  FillingOf(p, t) \in SolutionsOf(p)
  <2> DEFINE f == FillingOf(p, t)
  <2>1. f \in [F -> D]
    BY <1>1, FillingFacts
  <2>2. Obeys(p, f)
    BY <1>2, PassesIsObeys
  <2> HIDE DEF f
  <2>3. \A c \in p.given : c \in F /\ f[c] = Declared(p, c)
    <3>1. DOMAIN f = F /\ \A c \in F : f[c] \in Int
      BY <1>1, <2>1
    <3> QED BY <2>2, <3>1, PrintedIsKept
  <2> DEFINE h == [c \in Free(p) |-> f[c]]
  <2>4. h \in [Free(p) -> Unprinted(p)]
    <3> SUFFICES ASSUME NEW c \in Free(p) PROVE f[c] \in Unprinted(p)
      OBVIOUS
    <3>1. c \in F /\ c \notin p.given /\ f[c] \in D
      BY <2>1 DEF Free
    <3>2. ASSUME p.kind = "magicSquare", NEW b \in p.given PROVE f[c] # Declared(p, b)
      <4>1. b \in F /\ f[b] = Declared(p, b) /\ b # c
        BY <2>3, <3>1
      <4>2. DOMAIN f = F
        BY <2>1
      <4> QED BY <2>2, <3>1, <3>2, <4>1, <4>2, SquareIsDistinct
    <3> QED BY <3>1, <3>2 DEF Unprinted
  <2>5. f = [c \in F |-> IF c \in p.given THEN Declared(p, c) ELSE h[c]]
    <3>1. \A c \in F : f[c] = IF c \in p.given THEN Declared(p, c) ELSE h[c]
      BY <2>3 DEF Free
    <3> HIDE DEF h
    <3> QED BY <2>1, <3>1
  <2>6. f \in Fillings(p)
    BY <2>4, <2>5 DEF Fillings
  <2> QED BY <2>2, <2>6 DEF SolutionsOf, f
<1>3. ASSUME NEW f \in SolutionsOf(p)
      PROVE  \E t \in Assignments : Passes(t) /\ f = FillingOf(p, t)
  <2>1. f \in Fillings(p) /\ Obeys(p, f)
    BY DEF SolutionsOf
  <2>2. PICK h \in [Free(p) -> Unprinted(p)] :
            f = [c \in F |-> IF c \in p.given THEN Declared(p, c) ELSE h[c]]
    BY <2>1 DEF Fillings
  <2>3. \A c \in F : f[c] \in D
    <3> TAKE c \in F
    <3>1. CASE c \in p.given
      BY <2>2, <3>1, DeclaredIsADigit
    <3>2. CASE c \notin p.given
      <4>1. h[c] \in D
        BY <3>2 DEF Free, Unprinted
      <4> QED BY <2>2, <3>2, <4>1
    <3> QED BY <3>1, <3>2
  <2>4. f \in [F -> D]
    BY <2>2, <2>3
  <2> DEFINE t == [i \in 1 .. Len(s) |-> f[s[i]]]
  <2>5. t \in [1 .. Len(s) -> D] /\ FillingOf(p, t) = f
    BY <2>4, FillingFacts
  <2> HIDE DEF t
  <2>6. t \in Assignments
    BY <1>1, <2>5
  <2>7. Passes(t)
    BY <2>1, <2>5, <2>6, PassesIsObeys
  <2> QED BY <2>5, <2>6, <2>7
<1> QED BY <1>2, <1>3

\* A board has finitely many solutions.
LEMMA SolutionsAreFinite ==
    ASSUME NEW p, Board(p)
    PROVE  IsFiniteSet(SolutionsOf(p))
<1> DEFINE all == SolutionsOf(p)
           s == FillableCells(p)
           F == Fillable(p)
           D == 1 .. DomainMax(p)
           W == [F -> D]
<1>1. \A f \in all : f \in W
  <2> TAKE f \in all
  <2>1. f \in Fillings(p)
    BY DEF SolutionsOf
  <2>2. PICK h \in [Free(p) -> Unprinted(p)] : f = [c \in F |-> IF c \in p.given THEN Declared(p, c) ELSE h[c]]
    BY <2>1 DEF Fillings
  <2>3. \A c \in F : f[c] \in D
    <3> TAKE c \in F
    <3>1. CASE c \in p.given
      BY <2>2, <3>1, DeclaredIsADigit
    <3>2. CASE c \notin p.given
      <4>1. h[c] \in D
        BY <3>2 DEF Free, Unprinted
      <4> QED BY <2>2, <3>2, <4>1
    <3> QED BY <3>1, <3>2
  <2> QED BY <2>2, <2>3
<1>2. Len(s) \in Nat /\ DomainMax(p) \in Nat
  BY BoardFacts
<1>3. IsFiniteSet(F)
  <2> DEFINE I == 1 .. Len(s)
  <2>1. s \in Surjection(I, F)
    <3>1. /\ s \in Seq(Squares(p)) /\ DOMAIN s = I
          /\ \A i \in I : s[i] \in F
          /\ \A c \in F : \E i \in I : s[i] = c
      BY BoardFacts
    <3>2. s = [i \in I |-> s[i]]
      BY <3>1
    <3> HIDE DEF s, I, F
    <3>3. s \in [I -> F]
      BY <3>1, <3>2
    <3> QED BY <3>1, <3>3 DEF Surjection
  <2>2. IsFiniteSet(I)
    BY <1>2, FS_Interval
  <2> HIDE DEF s, I, F
  <2> QED BY <2>1, <2>2, FS_Surjection
<1>4. IsFiniteSet(D)
  BY <1>2, FS_Interval
<1>5. IsFiniteSet(W)
  <2> HIDE DEF D, F
  <2> QED BY <1>3, <1>4, FinitelyManyFunctions
<1> HIDE DEF W, all
<1>6. all \subseteq W
  BY <1>1
<1>7. IsFiniteSet(all)
  BY <1>5, <1>6, FS_Subset
<1> QED BY <1>7 DEF all

\* How many solutions there are.
LEMMA CountFacts ==
    ASSUME NEW S, IsFiniteSet(S)
    PROVE  /\ Cardinality(S) \in Nat
           /\ Cardinality(S) > 1 <=> \E x, y \in S : x # y
           /\ Cardinality(S) = 1 <=> \E x : S = {x}
<1>1. Cardinality(S) \in Nat
  BY FS_CardinalityType
<1>2. Cardinality(S) = 0 <=> S = {}
  BY FS_EmptySet
<1>3. Cardinality(S) = 1 <=> \E x : S = {x}
  BY FS_Singleton
<1>4. (\E x, y \in S : x # y) <=> (S # {} /\ ~\E x : S = {x})
  OBVIOUS
<1> QED BY <1>1, <1>2, <1>3, <1>4

\* A search that is over has seen every assignment, so it has handed over as many
\* as the board has solutions, or the two it stops at, and the declared one if that
\* is a solution.
LEMMA RightWhenOver == SearchInv /\ ExactInv => VerdictIsRight
<1> SUFFICES ASSUME SearchInv, ExactInv, verdict # "open", problem # NoProblem, ~exhausted,
                    CluesFillable(puzzle)
             PROVE  verdict = CASE Cardinality(SolutionsOf(puzzle)) > 1 -> "solution_not_unique"
                                [] SolutionsOf(puzzle) = {DeclaredFilling(puzzle)} -> "playable"
                                [] OTHER -> "solution_mismatch"
  BY DEF VerdictIsRight
<1> DEFINE all == SolutionsOf(puzzle)
           s == FillableCells(puzzle)
           told == DeclaredFilling(puzzle)
           read == [i \in 1 .. Len(s) |-> Declared(puzzle, s[i])]
<1>1. Board(puzzle) /\ problem = ProblemOf(puzzle)
  BY DEF SearchInv, ExactInv, Board
<1>2. trail = <<>> /\ verdict = Outcome
  BY DEF ExactInv
<1>3. problem.cells = Len(s) /\ Len(s) \in Nat /\ problem.digits = DomainMax(puzzle)
      /\ DomainMax(puzzle) \in Nat \ {0}
  BY <1>1, BoardFacts
<1>4. Assignments = [1 .. Len(s) -> 1 .. DomainMax(puzzle)]
  BY <1>3 DEF Assignments
<1>5. /\ \A t \in Assignments : Passes(t) => FillingOf(puzzle, t) \in all
      /\ \A f \in all : \E t \in Assignments : Passes(t) /\ f = FillingOf(puzzle, t)
  BY <1>1, SolutionsArePassing
<1>6. \A t, u \in Assignments : FillingOf(puzzle, t) = FillingOf(puzzle, u) => t = u
  BY <1>1, <1>4, FillingFacts
<1>7. IsFiniteSet(all)
  BY <1>1, SolutionsAreFinite
<1>8. /\ Cardinality(all) \in Nat
      /\ Cardinality(all) > 1 <=> \E x, y \in all : x # y
  <2> HIDE DEF all
  <2> QED BY <1>7, CountFacts
<1>9. /\ \A f \in found : f \in Assignments /\ Passes(f)
      /\ IsFiniteSet(found) /\ solutions = Cardinality(found)
  BY DEF ExactInv
<1>10. /\ Cardinality(found) \in Nat
       /\ Cardinality(found) > 1 <=> \E x, y \in found : x # y
       /\ Cardinality(found) = 1 <=> \E x : found = {x}
  BY <1>9, CountFacts
<1>11. DeclaredFound <=> read \in found
  BY <1>3 DEF DeclaredFound
<1> HIDE DEF all, read, told
<1>12. CASE solutions > 1
  <2>1. verdict = "solution_not_unique"
    BY <1>2, <1>12 DEF Outcome
  <2>2. PICK x \in found, y \in found : x # y
    BY <1>9, <1>10, <1>12
  <2>3. FillingOf(puzzle, x) # FillingOf(puzzle, y)
    BY <1>6, <1>9, <2>2
  <2>4. FillingOf(puzzle, x) \in all /\ FillingOf(puzzle, y) \in all
    BY <1>5, <1>9, <2>2
  <2>5. Cardinality(all) > 1
    BY <1>8, <2>3, <2>4
  <2>6. all # {told}
    BY <2>3, <2>4
  <2> QED BY <2>1, <2>5, <2>6 DEF all, told
<1>13. CASE ~(solutions > 1)
  <2>1. Searching
    BY <1>9, <1>10, <1>13 DEF Searching, Enough, SolutionLimit
  <2>2. \A f \in Assignments : Passes(f) => f \in found
    <3> TAKE f \in Assignments
    <3> HAVE Passes(f)
    <3>1. Behind(problem.cells, f, trail)
      <4>1. Len(trail) = 0
        BY <1>2
      <4> QED BY <1>3, <4>1 DEF Behind, Same
    <3> QED BY <2>1, <3>1 DEF ExactInv
  <2>3. ~\E x, y \in found : x # y
    BY <1>9, <1>10, <1>13
  <2>4. \A f \in all : \E t \in found : f = FillingOf(puzzle, t)
    BY <1>5, <2>2
  <2>5. ~(Cardinality(all) > 1)
    BY <1>8, <2>3, <2>4
  <2>6. told = FillingOf(puzzle, read) /\ read \in Assignments
    <3>1. told \in [Fillable(puzzle) -> 1 .. DomainMax(puzzle)]
      BY <1>1, DeclaredIsADigit DEF told, DeclaredFilling
    <3>2. /\ [i \in 1 .. Len(s) |-> told[s[i]]] \in [1 .. Len(s) -> 1 .. DomainMax(puzzle)]
          /\ FillingOf(puzzle, [i \in 1 .. Len(s) |-> told[s[i]]]) = told
      BY <1>1, <3>1, FillingFacts
    <3>3. \A i \in 1 .. Len(s) : told[s[i]] = Declared(puzzle, s[i])
      <4>1. \A i \in 1 .. Len(s) : s[i] \in Fillable(puzzle)
        BY <1>1, BoardFacts
      <4> HIDE DEF s
      <4> QED BY <4>1 DEF told, DeclaredFilling
    <3>4. [i \in 1 .. Len(s) |-> told[s[i]]] = read
      <4> HIDE DEF s
      <4> QED BY <3>3 DEF read
    <3> QED BY <1>4, <3>2, <3>4
  <2>7. all = {told} <=> (solutions = 1 /\ read \in found)
    <3>1. ASSUME all = {told} PROVE solutions = 1 /\ read \in found
      <4>1. PICK t \in found : told = FillingOf(puzzle, t)
        BY <2>4, <3>1
      <4>2. t = read
        BY <1>6, <1>9, <2>6, <4>1
      <4>3. found = {read}
        BY <2>3, <4>1, <4>2
      <4> QED BY <1>9, <1>10, <4>3
    <3>2. ASSUME read \in found PROVE all = {told}
      <4>1. told \in all
        BY <1>5, <1>9, <2>6, <3>2
      <4>2. \A f \in all : f = told
        BY <2>3, <2>4, <2>6, <3>2
      <4> QED BY <4>1, <4>2
    <3> QED BY <3>1, <3>2
  <2>8. verdict = IF solutions = 1 /\ read \in found THEN "playable" ELSE "solution_mismatch"
    BY <1>2, <1>11, <1>13 DEF Outcome
  <2> QED BY <2>5, <2>7, <2>8 DEF all, told
<1> QED BY <1>12, <1>13

\* uniqueness.ts: until it stops, the search has handed over exactly the
\* assignments whose every beginning the regions let by and that its trail has left
\* behind, each of them once; a verdict is told only when the trail is empty.
THEOREM HandedOverIsLeftBehind == Spec => []ExactInv
<1>1. Init => ExactInv
  BY ExactInit
<1>2. SearchInv /\ ExactInv /\ [Next]_vars => ExactInv'
  BY ExactNext
<1> QED BY <1>1, <1>2, SearchInvariant, PTL DEF Spec

\* checkUniqueSolution: a search that the budget did not end gives the verdict the
\* board deserves, whatever the board: not unique when it has more than one
\* solution, playable when the declared solution is its only one, a mismatch
\* otherwise.
THEOREM EveryVerdictIsRight == Spec => []VerdictIsRight
<1> QED BY HandedOverIsLeftBehind, SearchInvariant, RightWhenOver, PTL

-----------------------------------------------------------------------------
\* The generators from here on.

HIDE BoundsAssumption DEF SolutionLimit, BoundsAssumption

-----------------------------------------------------------------------------
\* The stream.

\* A finite interval.
LEMMA UpToIsFinite == \A n \in Nat : IsFiniteSet(1 .. n)
  BY FS_Interval

\* A list of n elements.
LEMMA ListIs ==
    ASSUME NEW n \in Nat, NEW X, NEW w \in [1 .. n -> X]
    PROVE  w \in Seq(X) /\ Len(w) = n /\ DOMAIN w = 1 .. n
  OBVIOUS

\* A list of none, one or two.
LEMMA FewAre ==
    ASSUME NEW X, NEW a \in X, NEW b \in X
    PROVE  <<>> \in Seq(X) /\ <<a>> \in Seq(X) /\ <<a, b>> \in Seq(X) /\ Len(<<a>>) = 1 /\ Len(<<a, b>>) = 2
  OBVIOUS

\* Division leaves no remainder, or what it leaves.
LEMMA DivisionIs ==
    ASSUME NEW h \in Nat, NEW l \in Nat \ {0}
    PROVE  h \div l \in Nat /\ h % l \in 0 .. l - 1 /\ h = l * (h \div l) + (h % l)
<1>1. h % l \in 0 .. l - 1 /\ h = l * (h \div l) + (h % l)
  BY SMT
<1>3. h \div l \in Int
  BY SMT
<1> DEFINE q == h \div l
           r == h % l
<1>4. q \in Int /\ r \in 0 .. l - 1 /\ h = l * q + r
  BY <1>1, <1>3
<1> HIDE DEF q, r
<1>5. q >= 0
  <2> SUFFICES ASSUME q < 0 PROVE FALSE
    BY <1>4
  <2>1. q <= -1
    BY <1>4
  <2>2. l * q <= -l
    BY <1>4, <2>1
  <2> QED BY <1>4, <2>2
<1>6. q \in Nat
  BY <1>4, <1>5
<1>7. h \div l \in Nat
  BY <1>6 DEF q
<1> QED BY <1>1, <1>7, Zenon

\* A sum of naturals is one.
LEMMA SumNat ==
    ASSUME NEW v, NEW S, IsFiniteSet(S), \A x \in S : v[x] \in Nat
    PROVE  SumOver(v, S) \in Nat
<1> SUFFICES ASSUME SumOver(v, S) \notin Nat PROVE FALSE
  OBVIOUS
<1> DEFINE Bad == {s \in SUBSET S : SumOver(v, s) \notin Nat}
<1>0. S \in Bad /\ Bad \subseteq SUBSET S
  OBVIOUS
<1>1. PICK s \in Bad : \A y \in Bad : y \subseteq s => y = s
  <2> HIDE DEF Bad
  <2> QED BY <1>0, SmallestSubset
<1>2. SumOver(v, s) = IF s = {} THEN 0 ELSE v[One(s)] + SumOver(v, s \ {One(s)})
  BY SumStep, FS_Subset
<1>3. s # {}
  BY <1>2
<1>4. One(s) \in s
  BY <1>3, OneOf
<1>5. s \ {One(s)} \notin Bad /\ s \ {One(s)} \in SUBSET S
  BY <1>1, <1>4
<1>6. SumOver(v, s \ {One(s)}) \in Nat /\ v[One(s)] \in Nat
  BY <1>4, <1>5
<1> QED BY <1>2, <1>3, <1>6

\* The total of a list of naturals is one, and more than nothing when they are.
LEMMA TotalNat ==
    ASSUME NEW v, NEW n \in Nat, DOMAIN v = 1 .. n, \A k \in 1 .. n : v[k] \in Nat
    PROVE  /\ Total(v) \in Nat
           /\ (n > 0 /\ \A k \in 1 .. n : v[k] \in Nat \ {0}) => Total(v) >= 1
<1> DEFINE S == 1 .. n
<1>1. Total(v) = SumOver(v, S) /\ IsFiniteSet(S)
  BY TotalIsASum, UpToIsFinite
<1>2. \A k \in S : v[k] \in Nat
  OBVIOUS
<1>3. SumOver(v, S) \in Nat
  <2> HIDE DEF S
  <2> QED BY <1>1, <1>2, SumNat
<1>4. ASSUME n > 0, \A k \in S : v[k] \in Nat \ {0} PROVE SumOver(v, S) >= 1
  <2>1. 1 \in S
    BY <1>4
  <2>2. SumOver(v, {}) = 0
    BY FS_EmptySet, SumStep
  <2>3. SumOver(v, {}) < SumOver(v, S)
    <3> HIDE DEF S
    <3> QED BY <1>1, <1>4, <2>1, SumGrows
  <2> HIDE DEF S
  <2> QED BY <1>3, <2>2, <2>3
<1> HIDE DEF S
<1> QED BY <1>1, <1>3, <1>4 DEF S

\* The bits of a word are naturals.
LEMMA BitsAre == \A i \in 1 .. 16 : Bits[i] \in Nat \ {0}
<1> TAKE i \in 1 .. 16
<1>1. i = 1 \/ i = 2 \/ i = 3 \/ i = 4 \/ i = 5 \/ i = 6 \/ i = 7 \/ i = 8 \/ i = 9 \/ i = 10
      \/ i = 11 \/ i = 12 \/ i = 13 \/ i = 14 \/ i = 15 \/ i = 16
  OBVIOUS
<1> QED BY <1>1 DEF Bits

\* Two words differ in a word.
LEMMA XorIs ==
    ASSUME NEW a \in Nat, NEW b \in Nat
    PROVE  Xor(a, b) \in Nat
<1> DEFINE term(i) == Bits[i] * ((a \div Bits[i] + b \div Bits[i]) % 2)
           v == [i \in 1 .. 16 |-> term(i)]
<1>1. \A i \in 1 .. 16 : term(i) \in Nat
  <2> TAKE i \in 1 .. 16
  <2> DEFINE q == Bits[i]
  <2>1. q \in Nat \ {0}
    BY BitsAre
  <2> HIDE DEF q
  <2>2. a \div q \in Nat /\ b \div q \in Nat
    BY <2>1
  <2> DEFINE x == a \div q
             y == b \div q
  <2> HIDE DEF x, y
  <2>3. (x + y) % 2 \in 0 .. 1
    BY <2>2 DEF x, y
  <2>4. q * ((x + y) % 2) \in Nat
    BY <2>1, <2>3
  <2> QED BY <2>4 DEF x, y, q
<1>2. DOMAIN v = 1 .. 16 /\ \A i \in 1 .. 16 : v[i] \in Nat
  <2> HIDE DEF term
  <2> QED BY <1>1
<1>3. Xor(a, b) = Total(v)
  BY DEF Xor
<1> HIDE DEF v
<1>4. Total(v) \in Nat
  <2>1. 16 \in Nat
    OBVIOUS
  <2> QED BY <1>2, <2>1, TotalNat
<1> QED BY <1>3, <1>4

\* splitmix64.ts: what a shift and an exclusive or leave is a number.
LEMMA ShiftedIs ==
    ASSUME NEW z \in Nat, NEW by \in 0 .. 15
    PROVE  Shifted(z, by) \in Nat
<1>1. Bits[by + 1] \in Nat \ {0}
  BY BitsAre
<1>2. z \div Bits[by + 1] \in Nat
  BY <1>1
<1> QED BY <1>2, XorIs DEF Shifted

\* Every word of a stream is a natural.
LEMMA MixIs == \A z \in Nat : mix64(z) \in Nat
<1> TAKE z \in Nat
<1>1. \A x \in Nat : x % WordSpace \in Nat
  BY DEF WordSpace
<1>2. ASSUME NEW x \in Nat, NEW by \in 0 .. 15, NEW factor \in Nat
      PROVE  Multiplied(x, by, factor) \in Nat
  <2>1. Shifted(x, by) \in Nat
    BY ShiftedIs
  <2>2. Shifted(x, by) * factor \in Nat
    BY <2>1
  <2> QED BY <1>1, <2>2 DEF Multiplied
<1> DEFINE y == z % WordSpace
           first == Multiplied(y, 7, 31153)
           second == Multiplied(first, 6, 25819)
<1>3. y \in Nat
  BY <1>1
<1> HIDE DEF y
<1>4. first \in Nat
  <2>1. 7 \in 0 .. 15 /\ 31153 \in Nat
    OBVIOUS
  <2> QED BY <1>2, <1>3, <2>1
<1> HIDE DEF first
<1>5. second \in Nat
  <2>1. 6 \in 0 .. 15 /\ 25819 \in Nat
    OBVIOUS
  <2> QED BY <1>2, <1>4, <2>1
<1>6. 8 \in 0 .. 15
  OBVIOUS
<1>7. mix64(z) = Shifted(second, 8)
  BY DEF mix64, second, first, y
<1> QED BY <1>5, <1>6, <1>7, ShiftedIs

\* So is every word of a stream.
LEMMA WordIs == \A seed, index \in Nat : wordAt(seed, index) \in Nat
<1> TAKE seed, index \in Nat
<1>1. (seed + (index + 1) * 25033) % WordSpace \in Nat
  BY DEF WordSpace
<1> QED BY <1>1, MixIs DEF wordAt

\* A draw is a choice of those it is asked to choose between, and leaves off
\* further on.
LEMMA DrawIs ==
    ASSUME NEW seed \in Nat, NEW at \in Nat, NEW bound \in Int
    PROVE  LET d == Draw(seed, at, bound)
           IN  d.value \in Nat /\ (bound >= 0 => d.value \in 0 .. bound) /\ d.at \in Nat
<1>1. CASE bound <= 0
  <2>1. Draw(seed, at, bound) = [value |-> 0, at |-> at]
    BY <1>1 DEF Draw
  <2> QED BY <2>1
<1>2. CASE bound > 0
  <2> DEFINE end == at + MaxRejections - 1
             good(i) == Usable(seed, i, bound + 1) \/ i = end
             I == {i \in at .. end : good(i)}
             first(i) == good(i) /\ \A j \in at .. i - 1 : ~Usable(seed, j, bound + 1)
             pick == CHOOSE i \in at .. end : first(i)
  <2>1. end \in Nat /\ end \in at .. end /\ at .. end \subseteq Nat
    BY DEF MaxRejections
  <2> HIDE DEF end
  <2>2. PICK x \in I : \A y \in I : x <= y
    <3>1. I \subseteq Nat /\ I # {}
      BY <2>1
    <3> HIDE DEF I
    <3> QED BY <3>1, LeastIsIn
  <2>3. x \in at .. end /\ good(x)
    OBVIOUS
  <2>4. \A j \in at .. x - 1 : ~Usable(seed, j, bound + 1)
    <3> TAKE j \in at .. x - 1
    <3>1. j \in at .. end /\ j < x
      BY <2>1, <2>3
    <3>2. j \notin I
      BY <2>1, <2>2, <3>1
    <3> QED BY <3>1, <3>2
  <2>5. \E i \in at .. end : first(i)
    BY <2>3, <2>4
  <2>6. pick \in at .. end
    BY <2>5
  <2>7. Draw(seed, at, bound) = DrawnAt(seed, pick, bound + 1)
    BY <1>2 DEF Draw, end
  <2> HIDE DEF pick
  <2>8. pick \in Nat /\ wordAt(seed, pick) \in Nat
    BY <2>1, <2>6, WordIs
  <2>9. wordAt(seed, pick) % (bound + 1) \in 0 .. bound /\ pick + 1 \in Nat
    BY <1>2, <2>8
  <2> QED BY <1>2, <2>7, <2>9 DEF DrawnAt
<1> QED BY <1>1, <1>2

-----------------------------------------------------------------------------
\* Shuffles.

\* What a shuffle of n has got to after a swap: the n numbers, each in one place.
Mixed(n) == {acc \in [order : [1 .. n -> 0 .. n - 1], at : Nat] :
                \A i, j \in 1 .. n : acc.order[i] = acc.order[j] => i = j}

\* A swap of Fisher-Yates leaves an order without repetitions.
LEMMA SwapKeeps ==
    ASSUME NEW n \in Nat, NEW v \in Mixed(n), NEW i \in 0 .. n - 1, NEW d,
           d.value \in 0 .. i, d.at \in Nat
    PROVE  Swapped(v, i, d) \in Mixed(n)
<1> DEFINE a == i + 1
           b == d.value + 1
           g == v.order
           h == [g EXCEPT ![a] = g[b], ![b] = g[a]]
<1>1. /\ g \in [1 .. n -> 0 .. n - 1] /\ a \in 1 .. n /\ b \in 1 .. n
      /\ \A x, y \in 1 .. n : g[x] = g[y] => x = y
  BY DEF Mixed
<1>2. Swapped(v, i, d) = [order |-> h, at |-> d.at]
  BY DEF Swapped
<1> HIDE DEF a, b, g
<1>3. h \in [1 .. n -> 0 .. n - 1]
      /\ \A x \in 1 .. n : h[x] = IF x = b THEN g[a] ELSE IF x = a THEN g[b] ELSE g[x]
  BY <1>1
<1> HIDE DEF h
<1>4. \A x, y \in 1 .. n : h[x] = h[y] => x = y
  BY <1>1, <1>3
<1> QED BY <1>2, <1>3, <1>4 DEF Mixed

\* So a shuffle of n is a permutation of them.
LEMMA ShuffledIsMixed ==
    ASSUME NEW seed \in Nat, NEW from \in Nat, NEW n \in Nat
    PROVE  Shuffled(seed, from, n) \in Mixed(n)
<1> DEFINE m == (IF n = 0 THEN 0 ELSE n - 1)
           s == [k \in 1 .. n - 1 |-> n - k]
           W == Mixed(n)
           base == [order |-> [i \in 1 .. n |-> i - 1], at |-> from]
           step(acc, e) == Swapped(acc, e, Draw(seed, acc.at, e))
           G == [x \in W \X (1 .. m) |-> step(x[1], s[x[2]])]
           Table(t) == t = [u \in SUBSET (DOMAIN s) |->
                               IF u = {} THEN base ELSE step(t[u \ {Max(u)}], s[Max(u)])]
           t == CHOOSE t : Table(t)
<1>1. m \in Nat /\ DOMAIN s = 1 .. m /\ base \in W
  <2>1. m \in Nat
    OBVIOUS
  <2>2. 1 .. n - 1 = 1 .. m
    OBVIOUS
  <2>3. base.order \in [1 .. n -> 0 .. n - 1]
    <3>1. \A i \in 1 .. n : i - 1 \in 0 .. n - 1
      OBVIOUS
    <3> QED BY <3>1
  <2>4. \A i, j \in 1 .. n : base.order[i] = base.order[j] => i = j
    OBVIOUS
  <2> QED BY <2>1, <2>2, <2>3, <2>4 DEF Mixed
<1>2. \A v \in W, k \in 1 .. m : step(v, s[k]) \in W
  <2> TAKE v \in W, k \in 1 .. m
  <2> DEFINE i == n - k
             d == Draw(seed, v.at, i)
  <2>1. i \in 1 .. n - 1 /\ s[k] = i
    OBVIOUS
  <2>2. d.value \in 0 .. i /\ d.at \in Nat
    <3>1. i \in Int /\ i >= 0 /\ v.at \in Nat
      BY <2>1 DEF Mixed
    <3> HIDE DEF i
    <3> QED BY <3>1, DrawIs
  <2>3. step(v, s[k]) = Swapped(v, i, d)
    BY <2>1
  <2>4. i \in 0 .. n - 1
    BY <2>1
  <2> HIDE DEF i, d, step, s
  <2> QED BY <2>2, <2>3, <2>4, SwapKeeps
<1>3. Shuffled(seed, from, n) = t[DOMAIN s]
  BY DEF Shuffled, FoldLeft, MapThenFoldSet
<1> HIDE DEF s, base, step
<1>4. \A v \in W, k \in 1 .. m : G[<<v, k>>] = step(v, s[k])
  OBVIOUS
<1>5. Steps(G, base, W, m)
  <2> HIDE DEF W, m, G
  <2> QED BY <1>1, <1>2, <1>4 DEF Steps
<1>6. PICK h \in [SUBSET (1 .. m) -> W] : Run(G, base, m, h)
  <2> HIDE DEF G, W, m
  <2> QED BY <1>5, RunsExist
<1>7. Table(h)
  <2> HIDE DEF G, W, m
  <2>1. \A u \in SUBSET (1 .. m) : u # {} => G[<<h[u \ {Max(u)}], Max(u)>>] = step(h[u \ {Max(u)}], s[Max(u)])
    <3> TAKE u \in SUBSET (1 .. m)
    <3> HAVE u # {}
    <3>1. Max(u) \in 1 .. m /\ h[u \ {Max(u)}] \in W
      BY <1>1, LastIsIn
    <3> QED BY <1>4, <3>1
  <2> QED BY <1>1, <1>6, <2>1 DEF Run
<1>8. Table(t)
  BY <1>7
<1> HIDE DEF t
<1>9. Follows(t, G, base, W, m)
  <2>1. t[{}] = base
    BY <1>8
  <2>2. ASSUME NEW k \in 1 .. m, t[1 .. (k - 1)] \in W PROVE t[1 .. k] = G[<<t[1 .. (k - 1)], k>>]
    <3>1. /\ 1 .. k \in SUBSET (1 .. m) /\ 1 .. k # {} /\ Max(1 .. k) = k
          /\ (1 .. k) \ {Max(1 .. k)} = 1 .. (k - 1)
      BY <1>1, Firsts
    <3>2. 1 .. k \in SUBSET (DOMAIN s)
      BY <1>1, <3>1
    <3>3. t[1 .. k] = step(t[(1 .. k) \ {Max(1 .. k)}], s[Max(1 .. k)])
      BY <1>8, <3>1, <3>2
    <3>4. t[1 .. k] = step(t[1 .. (k - 1)], s[k])
      BY <3>1, <3>3
    <3> HIDE DEF m, W, G
    <3> QED BY <1>4, <2>2, <3>4
  <2> QED BY <2>1, <2>2 DEF Follows
<1> HIDE DEF G, W, m
<1>10. PICK f : Trace(f, G, base, W, m) /\ f[m] = t[1 .. m]
  BY <1>5, <1>9, Unrolled
<1>11. f[m] \in W
  <2>1. m \in 0 .. m
    BY <1>1
  <2> QED BY <1>10, <2>1 DEF Trace
<1> QED BY <1>1, <1>3, <1>10, <1>11 DEF W

\* draw.ts: whatever the words drawn, a shuffle of n things is an order of all of
\* them, none left out and none twice, and the stream goes on behind it.
THEOREM ShufflesArePermutations ==
    ASSUME NEW seed \in Nat, NEW from \in Nat, NEW n \in Nat
    PROVE  LET mixed == Shuffled(seed, from, n)
           IN  /\ mixed.order \in [1 .. n -> 0 .. n - 1] /\ mixed.at \in Nat
               /\ \A i, j \in 1 .. n : mixed.order[i] = mixed.order[j] => i = j
  BY ShuffledIsMixed DEF Mixed

\* The cells are numbered in reading order.
LEMMA CellAtIs ==
    ASSUME NEW n \in Nat \ {0}
    PROVE  /\ n * n \in Nat \ {0}
           /\ \A i \in 0 .. n * n - 1 : CellAt(n, i) \in Cells(n)
           /\ \A i, j \in 0 .. n * n - 1 : CellAt(n, i) = CellAt(n, j) => i = j
<1> DEFINE s == ReadingOrder(n)
<1>1. /\ s \in Seq(Cells(n)) /\ IsInjective(s) /\ DOMAIN s = 1 .. n * n /\ n * n \in Nat
  BY WalkFacts
<1>2. \A i \in 0 .. n * n - 1 : i + 1 \in 1 .. n * n /\ (i + 1) - 1 = i
  BY <1>1
<1>3. \A i \in 0 .. n * n - 1 : s[i + 1] = CellAt(n, i)
  BY <1>2 DEF ReadingOrder, CellAt
<1>4. \A i \in 1 .. n * n : s[i] \in Cells(n)
  BY <1>1
<1>5. \A i, j \in 1 .. n * n : s[i] = s[j] => i = j
  BY <1>1 DEF IsInjective
<1>6. n * n \in Nat \ {0}
  OBVIOUS
<1> HIDE DEF s
<1> QED BY <1>2, <1>3, <1>4, <1>5, <1>6

\* No row and no column of a latin square holds a digit twice.
Latin(L, n) ==
    /\ L \in [1 .. n -> [1 .. n -> 1 .. n]]
    /\ \A r, a, b \in 1 .. n : L[r][a] = L[r][b] => a = b
    /\ \A c, a, b \in 1 .. n : L[a][c] = L[b][c] => a = b

\* latin.ts: a shuffled square holds each digit once in each row and each column,
\* for every seed and every size.
THEOREM LatinSquaresAreLatin ==
    ASSUME NEW seed \in Nat, NEW n \in Nat \ {0}
    PROVE  Latin(latinSquare(seed, n), n)
<1> DEFINE rows == Shuffled(seed, 0, n)
           columns == Shuffled(seed, rows.at, n)
           symbols == Shuffled(seed, columns.at, n)
           R == rows.order
           C == columns.order
           S == symbols.order
           cell(r, c) == S[((R[r] + C[c]) % n) + 1] + 1
           L == [r \in 1 .. n |-> [c \in 1 .. n |-> cell(r, c)]]
<1>1. rows.at \in Nat /\ R \in [1 .. n -> 0 .. n - 1] /\ \A i, j \in 1 .. n : R[i] = R[j] => i = j
  BY ShufflesArePermutations
<1>2. columns.at \in Nat /\ C \in [1 .. n -> 0 .. n - 1] /\ \A i, j \in 1 .. n : C[i] = C[j] => i = j
  <2> HIDE DEF rows
  <2> QED BY <1>1, ShufflesArePermutations
<1>3. S \in [1 .. n -> 0 .. n - 1] /\ \A i, j \in 1 .. n : S[i] = S[j] => i = j
  <2> HIDE DEF columns
  <2> QED BY <1>2, ShufflesArePermutations
<1>4. latinSquare(seed, n) = L
  BY DEF latinSquare
<1> HIDE DEF R, C, S
<1> DEFINE turn(x, y) == (x + y) % n
<1>5. \A x \in 0 .. n - 1, y \in 0 .. n - 1 :
          /\ turn(x, y) = IF x + y < n THEN x + y ELSE x + y - n
          /\ turn(x, y) \in 0 .. n - 1
  <2>1. \A z \in 0 .. 2 * n - 1 : z % n = IF z < n THEN z ELSE z - n
    BY SMT
  <2> TAKE x \in 0 .. n - 1, y \in 0 .. n - 1
  <2>2. x + y \in 0 .. 2 * n - 1
    OBVIOUS
  <2> QED BY <2>1, <2>2
<1> DEFINE at(r, c) == turn(R[r], C[c])
<1>9. \A r, c : cell(r, c) = S[at(r, c) + 1] + 1
  OBVIOUS
<1> HIDE DEF turn, cell
<1>6. \A i, x, y \in 0 .. n - 1 : (turn(i, x) = turn(i, y) \/ turn(x, i) = turn(y, i)) => x = y
  <2> TAKE i, x, y \in 0 .. n - 1
  <2>1. turn(i, x) = (IF i + x < n THEN i + x ELSE i + x - n)
        /\ turn(i, y) = (IF i + y < n THEN i + y ELSE i + y - n)
    BY <1>5
  <2>2. turn(x, i) = (IF x + i < n THEN x + i ELSE x + i - n)
        /\ turn(y, i) = (IF y + i < n THEN y + i ELSE y + i - n)
    BY <1>5
  <2> QED BY <2>1, <2>2
<1>7. \A r, c \in 1 .. n : at(r, c) \in 0 .. n - 1 /\ at(r, c) + 1 \in 1 .. n
  <2> TAKE r, c \in 1 .. n
  <2>1. R[r] \in 0 .. n - 1 /\ C[c] \in 0 .. n - 1
    BY <1>1, <1>2
  <2>2. at(r, c) \in 0 .. n - 1
    BY <1>5, <2>1
  <2> HIDE DEF at
  <2> QED BY <2>2
<1>8. /\ \A r, a, b \in 1 .. n : at(r, a) = at(r, b) => a = b
      /\ \A c, a, b \in 1 .. n : at(a, c) = at(b, c) => a = b
  BY <1>1, <1>2, <1>6
<1> HIDE DEF at
<1>10. \A r, c \in 1 .. n : cell(r, c) \in 1 .. n
  <2> TAKE r, c \in 1 .. n
  <2>1. S[at(r, c) + 1] \in 0 .. n - 1
    BY <1>3, <1>7
  <2> QED BY <1>9, <2>1
<1>11. \A r, c, a, b \in 1 .. n : cell(r, c) = cell(a, b) => at(r, c) = at(a, b)
  <2> TAKE r, c, a, b \in 1 .. n
  <2> DEFINE i == at(r, c) + 1
             j == at(a, b) + 1
  <2>1. i \in 1 .. n /\ j \in 1 .. n /\ at(r, c) \in 0 .. n - 1 /\ at(a, b) \in 0 .. n - 1
    BY <1>7
  <2>2. S[i] \in 0 .. n - 1 /\ S[j] \in 0 .. n - 1
    BY <1>3, <2>1
  <2>3. cell(r, c) = S[i] + 1 /\ cell(a, b) = S[j] + 1
    BY <1>9
  <2> HIDE DEF i, j
  <2>4. cell(r, c) = cell(a, b) => i = j
    BY <1>3, <2>1, <2>2, <2>3
  <2> QED BY <2>1, <2>4 DEF i, j
<1>12. \A r, c \in 1 .. n : L[r][c] = cell(r, c)
  OBVIOUS
<1>13. L \in [1 .. n -> [1 .. n -> 1 .. n]]
  BY <1>10
<1> HIDE DEF L
<1>14. \A r, a, b \in 1 .. n : L[r][a] = L[r][b] => a = b
  BY <1>8, <1>11, <1>12
<1>15. \A c, a, b \in 1 .. n : L[a][c] = L[b][c] => a = b
  BY <1>8, <1>11, <1>12
<1> QED BY <1>4, <1>13, <1>14, <1>15 DEF Latin

-----------------------------------------------------------------------------
\* Lists of lists.

\* What a step comes to that is taken over and over.
LEMMA TracesExist ==
    ASSUME NEW n, NEW V, NEW base, NEW G, Steps(G, base, V, n)
    PROVE  \E f : Trace(f, G, base, V, n)
<1>1. PICK h \in [SUBSET (1 .. n) -> V] : Run(G, base, n, h)
  BY RunsExist
<1>2. n \in Nat
  BY DEF Steps
<1>3. Follows(h, G, base, V, n)
  <2>1. h[{}] = base
    BY <1>1 DEF Run
  <2>2. ASSUME NEW k \in 1 .. n PROVE h[1 .. k] = G[<<h[1 .. (k - 1)], k>>]
    <3>1. /\ 1 .. k \in SUBSET (1 .. n) /\ 1 .. k # {} /\ Max(1 .. k) = k
          /\ (1 .. k) \ {Max(1 .. k)} = 1 .. (k - 1)
      BY <1>2, Firsts
    <3>2. h[1 .. k] = G[<<h[(1 .. k) \ {Max(1 .. k)}], Max(1 .. k)>>]
      BY <1>1, <3>1 DEF Run
    <3> QED BY <3>1, <3>2
  <2> QED BY <2>1, <2>2 DEF Follows
<1> QED BY <1>3, Unrolled

\* One list behind another.
LEMMA BothFacts ==
    ASSUME NEW X, NEW a \in Seq(X), NEW b \in Seq(X)
    PROVE  /\ a \o b \in Seq(X) /\ Range(a \o b) = Range(a) \cup Range(b)
           /\ (IsInjective(a) /\ IsInjective(b) /\ Range(a) \cap Range(b) = {}) => IsInjective(a \o b)
<1> DEFINE m == Len(a)
           n == Len(b)
           c == a \o b
<1>1. /\ m \in Nat /\ n \in Nat /\ DOMAIN a = 1 .. m /\ DOMAIN b = 1 .. n
      /\ c \in Seq(X) /\ DOMAIN c = 1 .. (m + n)
      /\ \A i \in 1 .. m : c[i] = a[i]
      /\ \A i \in 1 .. (m + n) : i \notin 1 .. m => i - m \in 1 .. n /\ c[i] = b[i - m]
  OBVIOUS
<1>2. \A i \in 1 .. n : m + i \in 1 .. (m + n) /\ c[m + i] = b[i]
  OBVIOUS
<1>3. \A i \in 1 .. m : i \in 1 .. (m + n)
  BY <1>1
<1> HIDE DEF m, n, c
<1>4. Range(c) = Range(a) \cup Range(b)
  <2>1. \A x \in Range(c) : x \in Range(a) \cup Range(b)
    <3> TAKE x \in Range(c)
    <3>1. PICK i \in 1 .. (m + n) : x = c[i]
      BY <1>1 DEF Range
    <3> QED BY <1>1, <3>1 DEF Range
  <2>2. \A x \in Range(a) : x \in Range(c)
    BY <1>1, <1>3 DEF Range
  <2>3. \A x \in Range(b) : x \in Range(c)
    <3> TAKE x \in Range(b)
    <3>1. PICK i \in 1 .. n : x = b[i]
      BY <1>1 DEF Range
    <3>2. m + i \in DOMAIN c /\ c[m + i] = x
      BY <1>1, <1>2, <3>1
    <3> QED BY <3>2 DEF Range
  <2> QED BY <2>1, <2>2, <2>3
<1>5. ASSUME IsInjective(a), IsInjective(b), Range(a) \cap Range(b) = {} PROVE IsInjective(c)
  <2>1. \A i, j \in 1 .. m : a[i] = a[j] => i = j
    BY <1>1, <1>5 DEF IsInjective
  <2>2. \A i, j \in 1 .. n : b[i] = b[j] => i = j
    BY <1>1, <1>5 DEF IsInjective
  <2>3. \A i \in 1 .. m, j \in 1 .. n : a[i] # b[j]
    BY <1>1, <1>5 DEF Range
  <2>4. ASSUME NEW i \in 1 .. (m + n), NEW j \in 1 .. (m + n), c[i] = c[j] PROVE i = j
    <3>1. CASE i \in 1 .. m /\ j \in 1 .. m
      BY <1>1, <2>1, <2>4, <3>1
    <3>2. CASE i \in 1 .. m /\ j \notin 1 .. m
      BY <1>1, <2>3, <2>4, <3>2
    <3>3. CASE i \notin 1 .. m /\ j \in 1 .. m
      BY <1>1, <2>3, <2>4, <3>3
    <3>4. CASE i \notin 1 .. m /\ j \notin 1 .. m
      <4>1. i - m = j - m
        BY <1>1, <2>2, <2>4, <3>4
      <4> QED BY <1>1, <4>1
    <3> QED BY <3>1, <3>2, <3>3, <3>4
  <2> QED BY <1>1, <2>4 DEF IsInjective
<1> QED BY <1>1, <1>4, <1>5 DEF c

\* The lists up to each place, one behind another.
Joins(f, X, ss) ==
    /\ f \in [0 .. Len(ss) -> Seq(X)] /\ f[0] = <<>> /\ f[Len(ss)] = FlattenSeq(ss)
    /\ \A k \in 1 .. Len(ss) : f[k] = f[k - 1] \o ss[k]

\* The places of a flattened list can be told one by one.
LEMMA JoinsExist ==
    ASSUME NEW X, NEW ss \in Seq(Seq(X))
    PROVE  \E f : Joins(f, X, ss)
<1> DEFINE m == Len(ss)
           V == Seq(X)
           G == [x \in V \X (1 .. m) |-> x[1] \o ss[x[2]]]
           Table(t) == t = [i \in 1 .. m |-> IF i = 1 THEN ss[i] ELSE t[i - 1] \o ss[i]]
           t == CHOOSE t : Table(t)
<1>1. m \in Nat /\ DOMAIN ss = 1 .. m /\ <<>> \in V /\ \A k \in 1 .. m : ss[k] \in V
  OBVIOUS
<1>2. \A v \in V, k \in 1 .. m : G[<<v, k>>] = v \o ss[k] /\ v \o ss[k] \in V
  <2> TAKE v \in V, k \in 1 .. m
  <2>1. G[<<v, k>>] = v \o ss[k]
    OBVIOUS
  <2>2. v \in Seq(X) /\ ss[k] \in Seq(X)
    BY <1>1
  <2>3. v \o ss[k] \in Seq(X)
    BY <2>2
  <2> QED BY <2>1, <2>3
<1>3. Steps(G, <<>>, V, m)
  <2> HIDE DEF G, V, m
  <2> QED BY <1>1, <1>2 DEF Steps
<1>4. PICK f : Trace(f, G, <<>>, V, m)
  <2> HIDE DEF G, V, m
  <2> QED BY <1>3, TracesExist
<1>5. /\ f \in [0 .. m -> V] /\ f[0] = <<>>
      /\ \A k \in 1 .. m : k - 1 \in 0 .. m /\ k \in 0 .. m /\ f[k] = f[k - 1] \o ss[k]
  <2> HIDE DEF G, V, m
  <2>1. \A k \in 1 .. m : k - 1 \in 0 .. m /\ k \in 0 .. m
    BY <1>1
  <2>2. f \in [0 .. m -> V] /\ f[0] = <<>> /\ \A k \in 1 .. m : f[k] = G[<<f[k - 1], k>>]
    BY <1>4 DEF Trace
  <2> QED BY <1>2, <2>1, <2>2
<1> HIDE DEF G
<1>13. 1 \in 1 .. m => f[1] = ss[1]
  <2> HAVE 1 \in 1 .. m
  <2>1. f[1] = f[1 - 1] \o ss[1] /\ 1 - 1 = 0 /\ ss[1] \in Seq(X)
    BY <1>1, <1>5
  <2>2. <<>> \o ss[1] = ss[1]
    BY <2>1
  <2> QED BY <1>5, <2>1, <2>2
<1> DEFINE g == [i \in 1 .. m |-> f[i]]
<1>6. Table(g)
  <2>1. \A i \in 1 .. m : f[i] = IF i = 1 THEN ss[i] ELSE g[i - 1] \o ss[i]
    <3> TAKE i \in 1 .. m
    <3>1. CASE i = 1
      BY <1>13, <3>1
    <3>2. CASE i # 1
      <4>1. i - 1 \in 1 .. m
        BY <1>1, <3>2
      <4> QED BY <1>5, <3>2, <4>1
    <3> QED BY <3>1, <3>2
  <2> HIDE DEF m
  <2> QED BY <2>1
<1>7. Table(t)
  <2> HIDE DEF g
  <2> QED BY <1>6
<1>8. FlattenSeq(ss) = IF m = 0 THEN ss ELSE t[m]
  BY DEF FlattenSeq
<1> HIDE DEF t, g
<1>9. \A k \in 1 .. m : t[k] = IF k = 1 THEN ss[k] ELSE t[k - 1] \o ss[k]
  BY <1>7
<1> DEFINE T == {k \in 0 .. m : k = 0 \/ t[k] = f[k]}
<1> HIDE DEF m
<1>10. m \in T
  <2>1. 0 \in T /\ m \in 0 .. m
    BY <1>1
  <2>2. ASSUME NEW k \in 1 .. m, k - 1 \in T PROVE k \in T
    <3>1. CASE k = 1
      <4>1. 1 \in 1 .. m /\ 1 \in 0 .. m /\ t[1] = ss[1]
        BY <1>9, <3>1
      <4> QED BY <1>13, <3>1, <4>1
    <3>2. CASE k # 1
      <4>1. t[k - 1] = f[k - 1]
        BY <1>1, <2>2, <3>2
      <4>2. t[k] = t[k - 1] \o ss[k] /\ f[k] = f[k - 1] \o ss[k] /\ k \in 0 .. m
        BY <1>5, <1>9, <3>2
      <4> QED BY <4>1, <4>2
    <3> QED BY <3>1, <3>2
  <2> HIDE DEF T
  <2> QED BY <1>1, <2>1, <2>2, Climb
<1>11. f[m] = FlattenSeq(ss)
  <2>1. CASE m = 0
    <3>1. ss = <<>>
      BY <2>1 DEF m
    <3> QED BY <1>5, <1>8, <2>1, <3>1
  <2>2. CASE m # 0
    BY <1>8, <1>10, <2>2
  <2> QED BY <2>1, <2>2
<1>12. Joins(f, X, ss)
  BY <1>5, <1>11 DEF Joins, m
<1> QED BY <1>12

\* No element is twice in a list, and none is in two of them.
Apart(ss) == /\ \A i \in DOMAIN ss : IsInjective(ss[i])
             /\ \A i, j \in DOMAIN ss : i # j => Range(ss[i]) \cap Range(ss[j]) = {}

\* A flattened list holds what its lists hold, each element once if they are apart.
LEMMA FlattenFacts ==
    ASSUME NEW X, NEW ss \in Seq(Seq(X))
    PROVE  /\ FlattenSeq(ss) \in Seq(X)
           /\ Range(FlattenSeq(ss)) = UNION {Range(ss[i]) : i \in DOMAIN ss}
           /\ Apart(ss) => IsInjective(FlattenSeq(ss))
<1> DEFINE m == Len(ss)
<1>1. m \in Nat /\ DOMAIN ss = 1 .. m /\ \A k \in 1 .. m : ss[k] \in Seq(X)
  OBVIOUS
<1>2. PICK f : Joins(f, X, ss)
  BY JoinsExist
<1>3. /\ f \in [0 .. m -> Seq(X)] /\ f[0] = <<>> /\ f[m] = FlattenSeq(ss)
      /\ \A k \in 1 .. m : f[k] = f[k - 1] \o ss[k]
  BY <1>2 DEF Joins
<1> HIDE DEF m
<1> DEFINE Before(k) == UNION {Range(ss[i]) : i \in 1 .. k}
           Good(k) == Range(f[k]) = Before(k) /\ (Apart(ss) => IsInjective(f[k]))
           T == {k \in 0 .. m : Good(k)}
<1>4. 0 \in T
  <2>1. 1 .. 0 = {} /\ 0 \in 0 .. m
    BY <1>1
  <2>2. Before(0) = {}
    BY <2>1
  <2>3. Range(<<>>) = {} /\ IsInjective(<<>>)
    BY DEF Range, IsInjective
  <2> HIDE DEF Before
  <2> QED BY <1>3, <2>1, <2>2, <2>3
<1>5. ASSUME NEW k \in 1 .. m, Good(k - 1) PROVE Good(k)
  <2>1. k - 1 \in 0 .. m /\ k \in 0 .. m /\ k \in Nat
    BY <1>1
  <2> DEFINE a == f[k - 1]
             b == ss[k]
  <2>2. a \in Seq(X) /\ b \in Seq(X) /\ f[k] = a \o b
    BY <1>1, <1>3, <2>1
  <2>3. Range(a) = Before(k - 1) /\ (Apart(ss) => IsInjective(a))
    BY <1>5
  <2> HIDE DEF a
  <2>4. Before(k) = Before(k - 1) \cup Range(b)
    <3>1. 1 .. k = (1 .. (k - 1)) \cup {k}
      BY <2>1
    <3> QED BY <3>1
  <2>5. ASSUME Apart(ss) PROVE IsInjective(b) /\ Range(a) \cap Range(b) = {}
    <3>1. \A i \in 1 .. (k - 1) : Range(ss[i]) \cap Range(ss[k]) = {}
      <4>1. \A i \in 1 .. (k - 1) : i \in 1 .. m /\ i # k
        BY <1>1
      <4> QED BY <1>1, <2>5, <4>1 DEF Apart
    <3>2. Before(k - 1) \cap Range(b) = {}
      BY <3>1
    <3> HIDE DEF Before
    <3> QED BY <1>1, <2>3, <2>5, <3>2 DEF Apart
  <2> HIDE DEF b, Before
  <2>6. Range(a \o b) = Range(a) \cup Range(b)
        /\ ((IsInjective(a) /\ IsInjective(b) /\ Range(a) \cap Range(b) = {}) => IsInjective(a \o b))
    BY <2>2, BothFacts
  <2> QED BY <2>2, <2>3, <2>4, <2>5, <2>6
<1>6. \A k \in 1 .. m : k - 1 \in T => k \in T
  <2>1. \A k \in 1 .. m : k \in 0 .. m
    BY <1>1
  <2> HIDE DEF Good
  <2> QED BY <1>5, <2>1
<1>7. m \in T
  <2>1. m \in 0 .. m
    BY <1>1
  <2> HIDE DEF T
  <2> QED BY <1>1, <1>4, <1>6, <2>1, Climb
<1>8. f[m] \in Seq(X)
  BY <1>1, <1>3
<1> QED BY <1>1, <1>3, <1>7, <1>8

-----------------------------------------------------------------------------
\* Cages.

\* What a cage has to be: some cells, each once, of which the second touches the
\* first.
Shaped(n, cage) ==
    /\ cage \in Seq(Cells(n)) /\ cage # <<>> /\ IsInjective(cage)
    /\ Len(cage) >= 2 => cage[2] \in Range(Neighbours(cage[1]))

\* A cage on its way from a cell, beside the cells that were taken before it.
Growing(n, taken, start) ==
    {acc \in [cage : Seq(Cells(n)), taken : SUBSET Cells(n), at : Nat] :
        Shaped(n, acc.cage) /\ start \in Range(acc.cage)
        /\ acc.taken = taken \cup Range(acc.cage) /\ Range(acc.cage) \cap taken = {}}

\* The cells it may annex are free, and touch it.
LEMMA BorderingIs ==
    ASSUME NEW n \in Nat \ {0}, NEW acc, acc.cage \in Seq(Cells(n))
    PROVE  /\ Bordering(n, acc) \in Seq(Cells(n) \ acc.taken)
           /\ \A c \in Range(Bordering(n, acc)) :
                  \E k \in DOMAIN acc.cage : c \in Range(Neighbours(acc.cage[k]))
<1> DEFINE X == Int \X Int
           cage == acc.cage
           ss == [k \in DOMAIN cage |-> Neighbours(cage[k])]
           flat == FlattenSeq(ss)
           free == Cells(n) \ acc.taken
<1>1. \A c \in Cells(n) : Neighbours(c) \in Seq(X)
  <2> TAKE c \in Cells(n)
  <2> DEFINE w == Neighbours(c)
  <2>1. c[1] \in Int /\ c[2] \in Int
    BY DEF Cells
  <2>2. DOMAIN w = 1 .. 4 /\ \A i \in 1 .. 4 : w[i] \in X
    BY <2>1 DEF Neighbours
  <2>3. w = [i \in 1 .. 4 |-> w[i]]
    BY DEF Neighbours
  <2>4. 4 \in Nat
    OBVIOUS
  <2> HIDE DEF w, X
  <2>5. w \in [1 .. 4 -> X]
    BY <2>2, <2>3
  <2>6. w \in Seq(X)
    BY <2>4, <2>5, ListIs
  <2> QED BY <2>6 DEF w
<1>2. DOMAIN cage = 1 .. Len(cage) /\ Len(cage) \in Nat /\ \A k \in DOMAIN cage : cage[k] \in Cells(n)
  OBVIOUS
<1> HIDE DEF cage
<1>3. ss \in Seq(Seq(X)) /\ DOMAIN ss = DOMAIN cage /\ \A k \in DOMAIN cage : ss[k] = Neighbours(cage[k])
  <2>1. \A k \in 1 .. Len(cage) : Neighbours(cage[k]) \in Seq(X)
    BY <1>1, <1>2
  <2> HIDE DEF X
  <2>2. ss \in [1 .. Len(cage) -> Seq(X)]
    BY <1>2, <2>1
  <2> QED BY <1>2, <2>2
<1> HIDE DEF ss, X
<1>4. flat \in Seq(X) /\ Range(flat) = UNION {Range(ss[k]) : k \in DOMAIN ss}
  BY <1>3, FlattenFacts
<1>5. Bordering(n, acc) = Kept(flat, free)
  BY DEF Bordering, cage, ss
<1> HIDE DEF flat, free
<1>6. Kept(flat, free) \in Seq(X \cap free) /\ Range(Kept(flat, free)) = Range(flat) \cap free
  BY <1>4, KeptFacts
<1>7. X \cap free = free
  BY DEF X, free, Cells
<1>8. \A c \in Range(Kept(flat, free)) : \E k \in DOMAIN cage : c \in Range(Neighbours(cage[k]))
  BY <1>3, <1>4, <1>6
<1> QED BY <1>5, <1>6, <1>7, <1>8 DEF free, cage

\* A cell that is annexed keeps the cage one.
LEMMA AnnexedIs ==
    ASSUME NEW n \in Nat \ {0}, NEW seed \in Nat, NEW taken, NEW start, NEW acc \in Growing(n, taken, start)
    PROVE  Annexed(seed, n, acc) \in Growing(n, taken, start)
<1> DEFINE options == Bordering(n, acc)
           d == Draw(seed, acc.at, Len(options) - 1)
           c == options[d.value + 1]
<1>1. /\ acc.cage \in Seq(Cells(n)) /\ acc.taken \in SUBSET Cells(n) /\ acc.at \in Nat
      /\ acc.cage # <<>> /\ IsInjective(acc.cage)
      /\ Len(acc.cage) >= 2 => acc.cage[2] \in Range(Neighbours(acc.cage[1]))
      /\ acc.taken = taken \cup Range(acc.cage) /\ Range(acc.cage) \cap taken = {} /\ start \in Range(acc.cage)
  BY DEF Growing, Shaped
<1>2. /\ options \in Seq(Cells(n) \ acc.taken)
      /\ \A e \in Range(options) : \E k \in DOMAIN acc.cage : e \in Range(Neighbours(acc.cage[k]))
  BY <1>1, BorderingIs
<1>3. Annexed(seed, n, acc) = IF options = <<>> THEN acc ELSE WithCell(acc, c, d.at)
  BY DEF Annexed
<1> HIDE DEF options
<1>4. CASE options = <<>>
  BY <1>3, <1>4
<1>5. CASE options # <<>>
  <2>1. Len(options) \in Nat \ {0} /\ DOMAIN options = 1 .. Len(options)
    BY <1>2, <1>5
  <2>2. d.value \in 0 .. Len(options) - 1 /\ d.at \in Nat
    <3>1. Len(options) - 1 \in Int /\ Len(options) - 1 >= 0
      BY <2>1
    <3> QED BY <1>1, <3>1, DrawIs
  <2> HIDE DEF d
  <2>3. d.value + 1 \in 1 .. Len(options)
    BY <2>1, <2>2
  <2>4. c \in Cells(n) \ acc.taken /\ c \in Range(options)
    BY <1>2, <2>1, <2>3 DEF Range
  <2>5. PICK k \in DOMAIN acc.cage : c \in Range(Neighbours(acc.cage[k]))
    BY <1>2, <2>4
  <2> HIDE DEF c
  <2> DEFINE old == acc.cage
             new == Append(old, c)
             m == Len(old)
  <2>6. /\ m \in Nat \ {0} /\ DOMAIN old = 1 .. m
        /\ new \in Seq(Cells(n)) /\ DOMAIN new = 1 .. (m + 1) /\ Len(new) = m + 1
        /\ \A i \in 1 .. m : new[i] = old[i]
        /\ new[m + 1] = c
    BY <1>1, <2>4
  <2>7. k \in 1 .. m /\ c \in Range(Neighbours(old[k]))
    BY <2>5, <2>6
  <2>8. /\ IsInjective(old) /\ (m >= 2 => old[2] \in Range(Neighbours(old[1])))
        /\ acc.taken = taken \cup Range(old) /\ Range(old) \cap taken = {} /\ start \in Range(old)
    BY <1>1
  <2>9. WithCell(acc, c, d.at) = [cage |-> new, taken |-> acc.taken \cup {c}, at |-> d.at]
    BY DEF WithCell
  <2> HIDE DEF old, new, m
  <2>10. Range(new) = Range(old) \cup {c}
    <3>1. 1 .. (m + 1) = (1 .. m) \cup {m + 1}
      BY <2>6
    <3> QED BY <2>6, <3>1 DEF Range
  <2>11. IsInjective(new)
    <3>1. \A i, j \in 1 .. m : old[i] = old[j] => i = j
      BY <2>6, <2>8 DEF IsInjective
    <3>2. \A i \in 1 .. m : old[i] # c
      BY <2>4, <2>6, <2>8 DEF Range
    <3>3. \A i \in 1 .. (m + 1) : i \in 1 .. m \/ i = m + 1
      BY <2>6
    <3>4. \A i, j \in 1 .. (m + 1) : new[i] = new[j] => i = j
      BY <2>6, <3>1, <3>2, <3>3
    <3> QED BY <2>6, <3>4 DEF IsInjective
  <2>12. new[2] \in Range(Neighbours(new[1]))
    <3>1. new[1] = old[1]
      BY <2>6
    <3>2. CASE m = 1
      <4>1. k = 1 /\ new[2] = c
        BY <2>6, <2>7, <3>2
      <4> QED BY <2>7, <3>1, <4>1
    <3>3. CASE m # 1
      <4>1. m >= 2 /\ new[2] = old[2]
        BY <2>6, <3>3
      <4> QED BY <2>8, <3>1, <4>1
    <3> QED BY <3>2, <3>3
  <2>13. new # <<>>
    BY <2>6
  <2>14. Shaped(n, new)
    BY <2>6, <2>11, <2>12, <2>13 DEF Shaped
  <2>15. acc.taken \cup {c} = taken \cup Range(new) /\ Range(new) \cap taken = {}
         /\ acc.taken \cup {c} \in SUBSET Cells(n) /\ start \in Range(new)
    BY <1>1, <2>4, <2>8, <2>10
  <2> QED BY <1>3, <1>5, <2>2, <2>6, <2>9, <2>14, <2>15 DEF Growing
<1> QED BY <1>4, <1>5

\* A cage that starts at a free cell grows to one.
LEMMA GrownIs ==
    ASSUME NEW seed \in Nat, NEW n \in Nat \ {0}, NEW taken \in SUBSET Cells(n),
           NEW c \in Cells(n) \ taken, NEW wanted, wanted.value \in Nat, wanted.at \in Nat
    PROVE  Grown(seed, n, taken, c, wanted) \in Growing(n, taken, c)
<1> DEFINE m == wanted.value
           s == [k \in 1 .. wanted.value |-> k]
           W == Growing(n, taken, c)
           base == [cage |-> <<c>>, taken |-> taken \cup {c}, at |-> wanted.at]
           step(acc, e) == Annexed(seed, n, acc)
           G == [x \in W \X (1 .. m) |-> step(x[1], s[x[2]])]
           Table(t) == t = [u \in SUBSET (DOMAIN s) |->
                               IF u = {} THEN base ELSE step(t[u \ {Max(u)}], s[Max(u)])]
           t == CHOOSE t : Table(t)
<1>1. m \in Nat /\ DOMAIN s = 1 .. m /\ base \in W
  <2> DEFINE one == <<c>>
  <2>1. one \in Seq(Cells(n)) /\ DOMAIN one = {1} /\ one[1] = c /\ Len(one) = 1 /\ one # <<>>
    OBVIOUS
  <2> HIDE DEF one
  <2>2. Range(one) = {c} /\ IsInjective(one)
    BY <2>1 DEF Range, IsInjective
  <2>3. Shaped(n, one)
    BY <2>1, <2>2 DEF Shaped
  <2>4. base \in W
    BY <2>1, <2>2, <2>3 DEF Growing, one
  <2> QED BY <2>4
<1>2. \A v \in W, k \in 1 .. m : step(v, s[k]) \in W
  <2> HIDE DEF s
  <2> QED BY AnnexedIs
<1>3. Grown(seed, n, taken, c, wanted) = t[DOMAIN s]
  BY DEF Grown, FoldLeft, MapThenFoldSet
<1> HIDE DEF s, base, step
<1>4. \A v \in W, k \in 1 .. m : G[<<v, k>>] = step(v, s[k])
  OBVIOUS
<1>5. Steps(G, base, W, m)
  <2> HIDE DEF W, m, G
  <2> QED BY <1>1, <1>2, <1>4 DEF Steps
<1>6. PICK h \in [SUBSET (1 .. m) -> W] : Run(G, base, m, h)
  <2> HIDE DEF G, W, m
  <2> QED BY <1>5, RunsExist
<1>7. Table(h)
  <2> HIDE DEF G, W, m
  <2>1. \A u \in SUBSET (1 .. m) : u # {} => G[<<h[u \ {Max(u)}], Max(u)>>] = step(h[u \ {Max(u)}], s[Max(u)])
    <3> TAKE u \in SUBSET (1 .. m)
    <3> HAVE u # {}
    <3>1. Max(u) \in 1 .. m /\ h[u \ {Max(u)}] \in W
      BY <1>1, LastIsIn
    <3> QED BY <1>4, <3>1
  <2> QED BY <1>1, <1>6, <2>1 DEF Run
<1>8. Table(t)
  BY <1>7
<1> HIDE DEF t
<1>9. Follows(t, G, base, W, m)
  <2>1. t[{}] = base
    BY <1>8
  <2>2. ASSUME NEW k \in 1 .. m, t[1 .. (k - 1)] \in W PROVE t[1 .. k] = G[<<t[1 .. (k - 1)], k>>]
    <3>1. /\ 1 .. k \in SUBSET (1 .. m) /\ 1 .. k # {} /\ Max(1 .. k) = k
          /\ (1 .. k) \ {Max(1 .. k)} = 1 .. (k - 1)
      BY <1>1, Firsts
    <3>2. 1 .. k \in SUBSET (DOMAIN s)
      BY <1>1, <3>1
    <3>3. t[1 .. k] = step(t[(1 .. k) \ {Max(1 .. k)}], s[Max(1 .. k)])
      BY <1>8, <3>1, <3>2
    <3>4. t[1 .. k] = step(t[1 .. (k - 1)], s[k])
      BY <3>1, <3>3
    <3> HIDE DEF m, W, G
    <3> QED BY <1>4, <2>2, <3>4
  <2> QED BY <2>1, <2>2 DEF Follows
<1> HIDE DEF G, W, m
<1>10. PICK f : Trace(f, G, base, W, m) /\ f[m] = t[1 .. m]
  BY <1>5, <1>9, Unrolled
<1>11. f[m] \in W
  <2>1. m \in 0 .. m
    BY <1>1
  <2> QED BY <1>10, <2>1 DEF Trace
<1> QED BY <1>1, <1>3, <1>10, <1>11 DEF W

\* Some cages, none with a cell of another, and the cells they have taken.
Partial(n) ==
    {acc \in [cages : Seq(Seq(Cells(n))), taken : SUBSET Cells(n), at : Nat] :
        /\ \A i \in DOMAIN acc.cages : Shaped(n, acc.cages[i])
        /\ Apart(acc.cages) /\ acc.taken = UNION {Range(acc.cages[i]) : i \in DOMAIN acc.cages}}

\* A cage more, and the cell it is for is taken.
LEMMA WithCageIs ==
    ASSUME NEW seed \in Nat, NEW n \in Nat \ {0}, NEW acc \in Partial(n), NEW c \in Cells(n)
    PROVE  /\ WithCage(seed, n, acc, c) \in Partial(n)
           /\ acc.taken \cup {c} \subseteq WithCage(seed, n, acc, c).taken
<1> DEFINE wanted == Draw(seed, acc.at, MaxCageCells - 1)
           grown == Grown(seed, n, acc.taken, c, wanted)
           more == [cages |-> Append(acc.cages, grown.cage), taken |-> grown.taken, at |-> grown.at]
<1>1. /\ acc.cages \in Seq(Seq(Cells(n))) /\ acc.taken \in SUBSET Cells(n) /\ acc.at \in Nat
      /\ \A i \in DOMAIN acc.cages : Shaped(n, acc.cages[i])
      /\ Apart(acc.cages) /\ acc.taken = UNION {Range(acc.cages[i]) : i \in DOMAIN acc.cages}
  BY DEF Partial
<1>2. WithCage(seed, n, acc, c) = IF c \in acc.taken THEN acc ELSE more
  BY DEF WithCage
<1>3. CASE c \in acc.taken
  BY <1>2, <1>3
<1>4. CASE c \notin acc.taken
  <2>1. wanted.value \in Nat /\ wanted.at \in Nat
    <3>1. MaxCageCells - 1 \in Int
      BY GeneratorAssumption DEF GeneratorAssumption
    <3> QED BY <1>1, <3>1, DrawIs
  <2> HIDE DEF wanted
  <2>2. grown \in Growing(n, acc.taken, c)
    BY <1>1, <1>4, <2>1, GrownIs
  <2> HIDE DEF grown
  <2> DEFINE old == acc.cages
             cage == grown.cage
             new == Append(old, cage)
             m == Len(old)
  <2>3. /\ cage \in Seq(Cells(n)) /\ grown.taken \in SUBSET Cells(n) /\ grown.at \in Nat
        /\ Shaped(n, cage) /\ IsInjective(cage)
        /\ grown.taken = acc.taken \cup Range(cage) /\ Range(cage) \cap acc.taken = {}
    BY <2>2 DEF Growing, Shaped
  <2>4. /\ m \in Nat /\ DOMAIN old = 1 .. m
        /\ new \in Seq(Seq(Cells(n))) /\ DOMAIN new = 1 .. (m + 1)
        /\ \A i \in 1 .. m : new[i] = old[i]
        /\ new[m + 1] = cage
    BY <1>1, <2>3
  <2>5. /\ \A i \in 1 .. m : Shaped(n, old[i]) /\ IsInjective(old[i]) /\ Range(old[i]) \subseteq acc.taken
        /\ \A i, j \in 1 .. m : i # j => Range(old[i]) \cap Range(old[j]) = {}
        /\ acc.taken = UNION {Range(old[i]) : i \in 1 .. m}
    BY <1>1, <2>4 DEF Apart
  <2>6. more = [cages |-> new, taken |-> grown.taken, at |-> grown.at]
    OBVIOUS
  <2> HIDE DEF old, cage, new, m, more
  <2>7. \A i \in 1 .. (m + 1) : i \in 1 .. m \/ i = m + 1
    BY <2>4
  <2>8. \A i \in DOMAIN new : Shaped(n, new[i])
    BY <2>3, <2>4, <2>5, <2>7
  <2>9. \A i \in DOMAIN new : IsInjective(new[i])
    BY <2>3, <2>4, <2>5, <2>7
  <2>10. \A i, j \in 1 .. (m + 1) : i # j => Range(new[i]) \cap Range(new[j]) = {}
    <3> TAKE i, j \in 1 .. (m + 1)
    <3>1. CASE i \in 1 .. m /\ j \in 1 .. m
      BY <2>4, <2>5, <3>1
    <3>2. CASE i \in 1 .. m /\ j = m + 1
      BY <2>3, <2>4, <2>5, <3>2
    <3>3. CASE i = m + 1 /\ j \in 1 .. m
      BY <2>3, <2>4, <2>5, <3>3
    <3> QED BY <2>7, <3>1, <3>2, <3>3
  <2>11. Apart(new)
    BY <2>4, <2>9, <2>10 DEF Apart
  <2>12. grown.taken = UNION {Range(new[i]) : i \in DOMAIN new}
    <3>1. 1 .. (m + 1) = (1 .. m) \cup {m + 1}
      BY <2>4
    <3>2. {Range(new[i]) : i \in 1 .. (m + 1)} = {Range(old[i]) : i \in 1 .. m} \cup {Range(cage)}
      BY <2>4, <3>1
    <3> QED BY <2>3, <2>4, <2>5, <3>2
  <2>13. more \in Partial(n)
    <3>1. more.cages = new /\ more.taken = grown.taken
          /\ more \in [cages : Seq(Seq(Cells(n))), taken : SUBSET Cells(n), at : Nat]
      BY <2>3, <2>4, <2>6
    <3> QED BY <2>8, <2>11, <2>12, <3>1 DEF Partial
  <2>14. c \in grown.taken
    BY <2>2, <2>3 DEF Growing
  <2> QED BY <1>2, <1>4, <2>3, <2>6, <2>13, <2>14
<1> QED BY <1>3, <1>4

\* The board divided, a cell after the other.
Divides(f, seed, n) ==
    /\ f \in [0 .. (n * n) -> Partial(n)] /\ f[0] = [cages |-> <<>>, taken |-> {}, at |-> 0]
    /\ f[(n * n)] = FoldLeft(LAMBDA acc, c : WithCage(seed, n, acc, c), [cages |-> <<>>, taken |-> {}, at |-> 0],
                      ReadingOrder(n))
    /\ \A k \in 1 .. (n * n) : f[k] = WithCage(seed, n, f[k - 1], ReadingOrder(n)[k])

\* The division of the board can be told cell by cell.
LEMMA DividesExists ==
    ASSUME NEW seed \in Nat, NEW n \in Nat \ {0}
    PROVE  \E f : Divides(f, seed, n)
<1> DEFINE m == (n * n)
           s == ReadingOrder(n)
           W == Partial(n)
           base == [cages |-> <<>>, taken |-> {}, at |-> 0]
           step(acc, e) == WithCage(seed, n, acc, e)
           G == [x \in W \X (1 .. m) |-> step(x[1], s[x[2]])]
           Table(t) == t = [u \in SUBSET (DOMAIN s) |->
                               IF u = {} THEN base ELSE step(t[u \ {Max(u)}], s[Max(u)])]
           t == CHOOSE t : Table(t)
<1>1. m \in Nat /\ DOMAIN s = 1 .. m /\ base \in W
  <2>1. m \in Nat /\ DOMAIN s = 1 .. m
    BY WalkFacts
  <2>2. base \in W
    BY DEF Partial, Apart
  <2> QED BY <2>1, <2>2
<1>2. \A v \in W, k \in 1 .. m : step(v, s[k]) \in W
  <2>1. \A k \in 1 .. m : s[k] \in Cells(n)
    BY WalkFacts
  <2> HIDE DEF s
  <2> QED BY <2>1, WithCageIs
<1>8. FoldLeft(LAMBDA acc, c : WithCage(seed, n, acc, c), [cages |-> <<>>, taken |-> {}, at |-> 0],
                      ReadingOrder(n)) = t[DOMAIN s]
  BY DEF FoldLeft, MapThenFoldSet
<1> HIDE DEF s, base, step
<1>3. \A v \in W, k \in 1 .. m : G[<<v, k>>] = step(v, s[k])
  OBVIOUS
<1>4. Steps(G, base, W, m)
  <2> HIDE DEF W, m, G
  <2> QED BY <1>1, <1>2, <1>3 DEF Steps
<1>5. PICK h \in [SUBSET (1 .. m) -> W] : Run(G, base, m, h)
  <2> HIDE DEF G, W, m
  <2> QED BY <1>4, RunsExist
<1>6. Table(h)
  <2> HIDE DEF G, W, m
  <2>1. \A u \in SUBSET (1 .. m) : u # {} => G[<<h[u \ {Max(u)}], Max(u)>>] = step(h[u \ {Max(u)}], s[Max(u)])
    <3> TAKE u \in SUBSET (1 .. m)
    <3> HAVE u # {}
    <3>1. Max(u) \in 1 .. m /\ h[u \ {Max(u)}] \in W
      BY <1>1, LastIsIn
    <3> QED BY <1>3, <3>1
  <2> QED BY <1>1, <1>5, <2>1 DEF Run
<1>7. Table(t)
  BY <1>6
<1> HIDE DEF t
<1>9. Follows(t, G, base, W, m)
  <2>1. t[{}] = base
    BY <1>7
  <2>2. ASSUME NEW k \in 1 .. m, t[1 .. (k - 1)] \in W PROVE t[1 .. k] = G[<<t[1 .. (k - 1)], k>>]
    <3>1. /\ 1 .. k \in SUBSET (1 .. m) /\ 1 .. k # {} /\ Max(1 .. k) = k
          /\ (1 .. k) \ {Max(1 .. k)} = 1 .. (k - 1)
      BY <1>1, Firsts
    <3>2. 1 .. k \in SUBSET (DOMAIN s)
      BY <1>1, <3>1
    <3>3. t[1 .. k] = step(t[(1 .. k) \ {Max(1 .. k)}], s[Max(1 .. k)])
      BY <1>7, <3>1, <3>2
    <3>4. t[1 .. k] = step(t[1 .. (k - 1)], s[k])
      BY <3>1, <3>3
    <3> HIDE DEF m, W, G
    <3> QED BY <1>3, <2>2, <3>4
  <2> QED BY <2>1, <2>2 DEF Follows
<1> HIDE DEF G, W, m
<1>10. PICK f : Trace(f, G, base, W, m) /\ f[m] = t[1 .. m]
  BY <1>4, <1>9, Unrolled
<1>11. \A k \in 1 .. m : f[k - 1] \in W /\ f[k] = step(f[k - 1], s[k])
  <2>1. \A k \in 1 .. m : k - 1 \in 0 .. m
    BY <1>1
  <2> QED BY <1>3, <1>10, <2>1 DEF Trace
<1>12. f \in [0 .. m -> W] /\ f[0] = base /\ f[m] = FoldLeft(LAMBDA acc, c : WithCage(seed, n, acc, c), [cages |-> <<>>, taken |-> {}, at |-> 0],
                      ReadingOrder(n))
  BY <1>1, <1>8, <1>10 DEF Trace
<1>13. Divides(f, seed, n)
  BY <1>11, <1>12 DEF m, W, s, base, step, Divides
<1> QED BY <1>13

\* A partition of the board: its cages have no cell in common and leave none out.
Partition(n, cages) ==
    /\ cages \in Seq(Seq(Cells(n))) /\ \A i \in DOMAIN cages : Shaped(n, cages[i])
    /\ Apart(cages) /\ UNION {Range(cages[i]) : i \in DOMAIN cages} = Cells(n)

\* cages.ts: whatever is drawn, a cage lists its cells once each, no two cages have a
\* cell in common, and none of the board is left out.
THEOREM CagesPartitionTheBoard ==
    ASSUME NEW seed \in Nat, NEW n \in Nat \ {0}
    PROVE  Partition(n, cagePartition(seed, n))
<1> DEFINE m == n * n
           s == ReadingOrder(n)
<1>1. /\ m \in Nat /\ DOMAIN s = 1 .. m /\ Range(s) = Cells(n)
      /\ \A k \in 1 .. m : s[k] \in Cells(n)
  BY WalkFacts
<1>2. PICK f : Divides(f, seed, n)
  BY DividesExists
<1>3. /\ f \in [0 .. m -> Partial(n)] /\ f[0] = [cages |-> <<>>, taken |-> {}, at |-> 0]
      /\ f[m].cages = cagePartition(seed, n)
      /\ \A k \in 1 .. m : f[k] = WithCage(seed, n, f[k - 1], s[k])
  BY <1>2 DEF Divides, cagePartition
<1> HIDE DEF m, s
<1> DEFINE T == {k \in 0 .. m : \A i \in 1 .. k : s[i] \in f[k].taken}
<1>4. m \in T
  <2>1. 0 \in T /\ m \in 0 .. m
    BY <1>1
  <2>2. ASSUME NEW k \in 1 .. m, k - 1 \in T PROVE k \in T
    <3>1. k - 1 \in 0 .. m /\ k \in 0 .. m /\ f[k - 1] \in Partial(n)
      BY <1>1, <1>3
    <3>2. f[k - 1].taken \cup {s[k]} \subseteq f[k].taken
      BY <1>1, <1>3, <3>1, WithCageIs
    <3>3. \A i \in 1 .. k : i = k \/ i \in 1 .. (k - 1)
      BY <1>1
    <3> QED BY <2>2, <3>1, <3>2, <3>3
  <2> HIDE DEF T
  <2> QED BY <1>1, <2>1, <2>2, Climb
<1>5. f[m] \in Partial(n)
  BY <1>1, <1>3
<1>6. Cells(n) \subseteq f[m].taken
  BY <1>1, <1>4 DEF Range
<1>7. f[m].taken \in SUBSET Cells(n) /\ f[m].taken = UNION {Range(f[m].cages[i]) : i \in DOMAIN f[m].cages}
  BY <1>5 DEF Partial
<1>8. /\ f[m].cages \in Seq(Seq(Cells(n))) /\ Apart(f[m].cages)
      /\ \A i \in DOMAIN f[m].cages : Shaped(n, f[m].cages[i])
  BY <1>5 DEF Partial
<1>9. Partition(n, f[m].cages)
  BY <1>6, <1>7, <1>8 DEF Partition
<1> QED BY <1>3, <1>9

-----------------------------------------------------------------------------
\* Sums and products.

\* The table by which the community module folds a product over a set.
Factors(v, g, S) == g = [s \in SUBSET S |-> IF s = {} THEN 1 ELSE v[One(s)] * g[s \ {One(s)}]]

\* Two of them agree.
LEMMA FactorsAgree ==
    ASSUME NEW v, NEW g, NEW h, NEW S, NEW T, Factors(v, g, S), Factors(v, h, T),
           NEW R, IsFiniteSet(R), R \subseteq S \cap T
    PROVE  g[R] = h[R]
<1> SUFFICES ASSUME g[R] # h[R] PROVE FALSE
  OBVIOUS
<1> DEFINE Bad == {s \in SUBSET R : g[s] # h[s]}
<1>0. R \in Bad /\ Bad \subseteq SUBSET R
  OBVIOUS
<1>1. PICK s \in Bad : \A y \in Bad : y \subseteq s => y = s
  <2> HIDE DEF Bad
  <2> QED BY <1>0, SmallestSubset
<1>2. s \subseteq S /\ s \subseteq T
  OBVIOUS
<1>3. /\ g[s] = IF s = {} THEN 1 ELSE v[One(s)] * g[s \ {One(s)}]
      /\ h[s] = IF s = {} THEN 1 ELSE v[One(s)] * h[s \ {One(s)}]
  BY <1>2 DEF Factors
<1>4. s # {}
  BY <1>3
<1>5. One(s) \in s /\ One(s) \in R
  BY <1>4, OneOf
<1>6. s \ {One(s)} \notin Bad
  BY <1>1, <1>5
<1>7. g[s \ {One(s)}] = h[s \ {One(s)}]
  BY <1>6
<1> QED BY <1>3, <1>4, <1>5, <1>7

\* Of positive numbers there is one, and what it comes to is positive.
LEMMA FactorsExist ==
    ASSUME NEW v, NEW S, IsFiniteSet(S), \A x \in S : v[x] \in Nat \ {0}
    PROVE  \E g : Factors(v, g, S) /\ g[S] \in Nat \ {0}
<1> SUFFICES ASSUME ~\E g : Factors(v, g, S) /\ g[S] \in Nat \ {0} PROVE FALSE
  OBVIOUS
<1> DEFINE Bad == {s \in SUBSET S : ~\E g : Factors(v, g, s) /\ g[s] \in Nat \ {0}}
<1>0. S \in Bad /\ Bad \subseteq SUBSET S
  OBVIOUS
<1>1. PICK T \in Bad : \A y \in Bad : y \subseteq T => y = T
  <2> HIDE DEF Bad
  <2> QED BY <1>0, SmallestSubset
<1> DEFINE G(s) == CHOOSE g : Factors(v, g, s) /\ g[s] \in Nat \ {0}
           val(s) == IF s = {} THEN 1 ELSE v[One(s)] * G(s \ {One(s)})[s \ {One(s)}]
           f == [s \in SUBSET T |-> val(s)]
<1>2. \A s : s \subseteq T /\ s # T => Factors(v, G(s), s) /\ G(s)[s] \in Nat \ {0}
  <2> TAKE s
  <2> HAVE s \subseteq T /\ s # T
  <2>1. s \notin Bad /\ s \in SUBSET S
    BY <1>1
  <2>2. \E g : Factors(v, g, s) /\ g[s] \in Nat \ {0}
    BY <2>1
  <2> QED BY <2>2
<1>3. \A s : s \subseteq T /\ s # T => G(s)[s] = val(s)
  <2> TAKE s
  <2> HAVE s \subseteq T /\ s # T
  <2> DEFINE r == s \ {One(s)}
  <2>1. Factors(v, G(s), s)
    BY <1>2
  <2>2. G(s)[s] = IF s = {} THEN 1 ELSE v[One(s)] * G(s)[r]
    BY <2>1 DEF Factors
  <2>3. ASSUME s # {} PROVE G(s)[r] = G(r)[r]
    <3>1. One(s) \in s /\ r \subseteq T /\ r # T /\ r \subseteq s
      BY <2>3, OneOf
    <3>2. Factors(v, G(r), r)
      BY <3>1, <1>2
    <3>3. IsFiniteSet(r)
      BY <3>1, FS_Subset
    <3> HIDE DEF G, r
    <3> QED BY <2>1, <3>1, <3>2, <3>3, FactorsAgree
  <2> HIDE DEF G
  <2> QED BY <2>2, <2>3
<1>4. \A s \in SUBSET T : s # {} => f[s \ {One(s)}] = G(s \ {One(s)})[s \ {One(s)}]
  <2> TAKE s \in SUBSET T
  <2> HAVE s # {}
  <2> DEFINE r == s \ {One(s)}
  <2>1. One(s) \in s /\ r \subseteq T /\ r # T
    BY OneOf
  <2>2. f[r] = val(r)
    BY <2>1
  <2> HIDE DEF f, G, val
  <2> QED BY <2>1, <2>2, <1>3
<1>5. Factors(v, f, T)
  <2> DEFINE F == [s \in SUBSET T |-> IF s = {} THEN 1 ELSE v[One(s)] * f[s \ {One(s)}]]
  <2>1. \A s \in SUBSET T : F[s] = f[s]
    <3> TAKE s \in SUBSET T
    <3>1. F[s] = IF s = {} THEN 1 ELSE v[One(s)] * f[s \ {One(s)}]
      OBVIOUS
    <3>2. f[s] = IF s = {} THEN 1 ELSE v[One(s)] * G(s \ {One(s)})[s \ {One(s)}]
      OBVIOUS
    <3> HIDE DEF f, F, G
    <3> QED BY <3>1, <3>2, <1>4
  <2>2. F = [s \in SUBSET T |-> F[s]] /\ f = [s \in SUBSET T |-> f[s]]
    OBVIOUS
  <2> HIDE DEF F, f
  <2>3. F = f
    BY <2>1, <2>2
  <2> QED BY <2>3 DEF F, Factors
<1>6. f[T] \in Nat \ {0}
  <2> DEFINE r == T \ {One(T)}
  <2>1. f[T] = IF T = {} THEN 1 ELSE v[One(T)] * G(r)[r]
    OBVIOUS
  <2>2. ASSUME T # {} PROVE v[One(T)] \in Nat \ {0} /\ G(r)[r] \in Nat \ {0}
    <3>1. One(T) \in T /\ T \subseteq S /\ r \subseteq T /\ r # T
      BY <2>2, OneOf
    <3> HIDE DEF r, G
    <3> QED BY <1>2, <3>1
  <2> DEFINE x == v[One(T)]
             y == G(r)[r]
  <2>3. f[T] = IF T = {} THEN 1 ELSE x * y
    BY <2>1
  <2>4. T # {} => x \in Nat \ {0} /\ y \in Nat \ {0}
    BY <2>2
  <2> HIDE DEF x, y, f
  <2> QED BY <2>3, <2>4
<1> HIDE DEF f
<1> QED BY <1>1, <1>5, <1>6

\* A product of positive numbers is one.
LEMMA ProductIs ==
    ASSUME NEW v, NEW n \in Nat, DOMAIN v = 1 .. n, \A k \in 1 .. n : v[k] \in Nat \ {0}
    PROVE  Product(v) \in Nat \ {0}
<1> DEFINE S == 1 .. n
           t == CHOOSE g : Factors(v, g, S)
<1>1. Product(v) = t[S]
  BY DEF Product, FoldFunction, FoldFunctionOnSet, MapThenFoldSet, Factors, One
<1>2. IsFiniteSet(S) /\ \A x \in S : v[x] \in Nat \ {0}
  BY UpToIsFinite
<1> HIDE DEF S
<1>3. PICK g : Factors(v, g, S) /\ g[S] \in Nat \ {0}
  BY <1>2, FactorsExist
<1>4. Factors(v, t, S)
  BY <1>3
<1> HIDE DEF t
<1>5. t[S] = g[S]
  BY <1>2, <1>3, <1>4, FactorsAgree
<1> QED BY <1>1, <1>3, <1>5

\* A sum, twice over, between that of the smallest digits and that of the largest.
Bounded(v, s, top) ==
    LET k == Cardinality(s)
    IN  /\ k <= top
        /\ k * (k + 1) <= 2 * SumOver(v, s)
        /\ 2 * SumOver(v, s) <= k * (2 * top - k + 1)

\* Distinct digits have such a sum.
LEMMA DistinctSums ==
    ASSUME NEW v, NEW S, IsFiniteSet(S), NEW max \in Nat, \A x \in S : v[x] \in 1 .. max,
           \A x, y \in S : v[x] = v[y] => x = y
    PROVE  Bounded(v, S, max)
<1> DEFINE Off(s) == \E top \in Nat : (\A x \in s : v[x] \in 1 .. top) /\ ~Bounded(v, s, top)
<1> SUFFICES ASSUME ~Bounded(v, S, max) PROVE FALSE
  OBVIOUS
<1> DEFINE Bad == {s \in SUBSET S : Off(s)}
<1>0. S \in Bad /\ Bad \subseteq SUBSET S
  OBVIOUS
<1>1. PICK s \in Bad : \A y \in Bad : y \subseteq s => y = s
  <2> HIDE DEF Bad
  <2> QED BY <1>0, SmallestSubset
<1>2. PICK top \in Nat : (\A x \in s : v[x] \in 1 .. top) /\ ~Bounded(v, s, top)
  OBVIOUS
<1>3. IsFiniteSet(s) /\ Cardinality(s) \in Nat /\ s \subseteq S
  BY FS_Subset, FS_CardinalityType
<1>4. CASE s = {}
  <2>1. Cardinality(s) = 0 /\ SumOver(v, s) = 0
    BY <1>3, <1>4, FS_EmptySet, SumStep
  <2>2. 0 * (2 * top - 0 + 1) = 0
    OBVIOUS
  <2>3. Bounded(v, s, top)
    BY <2>1, <2>2 DEF Bounded
  <2> QED BY <1>2, <2>3
<1>5. CASE s # {}
  <2> DEFINE I == {v[x] : x \in s}
  <2>1. I \subseteq 1 .. top /\ I # {}
    BY <1>2, <1>5
  <2>2. PICK m \in I : \A y \in I : y <= m
    <3> HIDE DEF I
    <3> QED BY <2>1, GreatestIsIn
  <2>3. PICK a \in s : v[a] = m
    OBVIOUS
  <2>4. \A x \in s : v[x] \in I
    OBVIOUS
  <2>5. m \in 1 .. top
    BY <2>1
  <2> HIDE DEF I
  <2> DEFINE r == s \ {a}
  <2>6. r \subseteq s /\ r # s /\ IsFiniteSet(r) /\ Cardinality(r) = Cardinality(s) - 1 /\ r \in SUBSET S
    BY <1>3, <2>3, FS_RemoveElement
  <2>7. \A x \in r : v[x] \in 1 .. (m - 1)
    <3> TAKE x \in r
    <3>1. v[x] <= m /\ v[x] \in 1 .. top
      BY <1>2, <2>2, <2>4
    <3>2. v[x] # m
      BY <1>3, <2>3
    <3> QED BY <2>5, <3>1, <3>2
  <2>8. Bounded(v, r, m - 1)
    <3>1. r \notin Bad
      BY <1>1, <2>6
    <3>2. m - 1 \in Nat
      BY <2>5
    <3> QED BY <2>6, <2>7, <3>1, <3>2
  <2>9. SumOver(v, s) = m + SumOver(v, r)
    <3>1. \A x \in s : v[x] \in Int
      BY <1>2
    <3> QED BY <1>3, <2>3, <3>1, SumAny
  <2>10. SumOver(v, r) \in Int
    <3>1. \A x \in r : v[x] \in Int
      BY <1>2
    <3> HIDE DEF r
    <3> QED BY <2>6, <3>1, SumType
  <2> DEFINE k == Cardinality(s)
             sum == SumOver(v, r)
  <2>11. /\ k \in Nat /\ Cardinality(r) = k - 1 /\ sum \in Int /\ m \in Nat /\ m <= top
         /\ k - 1 <= m - 1 /\ (k - 1) * ((k - 1) + 1) <= 2 * sum
         /\ 2 * sum <= (k - 1) * (2 * (m - 1) - (k - 1) + 1)
    BY <1>3, <2>5, <2>6, <2>8, <2>10 DEF Bounded
  <2>12. SumOver(v, s) = m + sum
    BY <2>9
  <2> HIDE DEF k, sum, r
  <2>13. k <= top
    BY <2>11
  <2>14. k * (k + 1) <= 2 * (m + sum)
    <3>1. k * (k + 1) = (k - 1) * ((k - 1) + 1) + 2 * k
      BY <2>11
    <3> QED BY <2>11, <3>1
  <2>15. 2 * (m + sum) <= k * (2 * top - k + 1)
    <3>1. (k - 1) * (2 * (m - 1) - (k - 1) + 1) + 2 * m = k * (2 * m - k + 1)
      BY <2>11
    <3>2. k * (2 * m - k + 1) <= k * (2 * top - k + 1)
      <4>1. k * (2 * top - k + 1) = k * (2 * m - k + 1) + 2 * (k * (top - m))
        BY <2>11
      <4>2. k * (top - m) \in Nat
        BY <2>11
      <4> QED BY <2>11, <4>1, <4>2
    <3> DEFINE A == (k - 1) * (2 * (m - 1) - (k - 1) + 1)
               B == k * (2 * m - k + 1)
               C == k * (2 * top - k + 1)
    <3>3. A \in Int /\ B \in Int /\ C \in Int /\ 2 * sum <= A /\ A + 2 * m = B /\ B <= C
      BY <2>11, <3>1, <3>2
    <3> HIDE DEF A, B, C
    <3>4. 2 * (m + sum) <= C
      BY <2>11, <3>3
    <3> QED BY <3>4 DEF C
  <2>16. Bounded(v, s, top)
    BY <2>12, <2>13, <2>14, <2>15 DEF Bounded, k
  <2> QED BY <1>2, <2>16
<1> QED BY <1>4, <1>5

\* checkSumReachable lets every sum of distinct digits by.
LEMMA DistinctReachable ==
    ASSUME NEW max \in Nat \ {0}, NEW k \in Nat \ {0}, NEW v, DOMAIN v = 1 .. k,
           \A i \in 1 .. k : v[i] \in 1 .. max, \A i, j \in 1 .. k : v[i] = v[j] => i = j
    PROVE  SumReachable(k, Total(v), max) /\ Total(v) \in Nat /\ (k >= 2 => Total(v) >= 3)
<1> DEFINE S == 1 .. k
           t == SumOver(v, S)
<1>1. Total(v) = t /\ IsFiniteSet(S) /\ Cardinality(S) = k
  BY TotalIsASum, FS_Interval
<1>2. t \in Nat
  <2>1. \A i \in S : v[i] \in Nat
    OBVIOUS
  <2> HIDE DEF S
  <2> QED BY <1>1, <2>1, SumNat
<1>3. k <= max /\ k * (k + 1) <= 2 * t /\ 2 * t <= k * (2 * max - k + 1)
  <2>1. \A i \in S : v[i] \in 1 .. max
    OBVIOUS
  <2>2. \A i, j \in S : v[i] = v[j] => i = j
    OBVIOUS
  <2> HIDE DEF S
  <2>3. Bounded(v, S, max)
    BY <1>1, <2>1, <2>2, DistinctSums
  <2> QED BY <1>1, <2>3 DEF Bounded
<1> HIDE DEF t
<1> DEFINE x == k * (k + 1)
           y == k * (2 * max - k + 1)
<1>4. x \in Int /\ y \in Int /\ x <= 2 * t /\ 2 * t <= y
  BY <1>3
<1>5. x \div 2 <= t /\ t <= y \div 2
  <2> HIDE DEF x, y
  <2> QED BY <1>2, <1>4
<1>6. t \in x \div 2 .. y \div 2
  <2>1. x \div 2 \in Int /\ y \div 2 \in Int
    BY <1>4
  <2> HIDE DEF x, y
  <2> QED BY <1>2, <1>5, <2>1
<1>7. (IF k < max THEN k ELSE max) = k
  BY <1>3
<1>8. k >= 2 => t >= 3
  <2> HAVE k >= 2
  <2>1. k * (k + 1) = k * k + k /\ k * k >= 2 * k
    OBVIOUS
  <2> QED BY <1>2, <1>3, <2>1
<1> QED BY <1>1, <1>2, <1>6, <1>7, <1>8 DEF SumReachable

-----------------------------------------------------------------------------
\* The labels of the cages, and what is printed.

Operations == {"+", "-", "*", "/"}

\* A label tells the truth of the values in its cage.
Truthful(g, cage, v) ==
    /\ g.cells = cage /\ g.op \in Operations /\ g.target \in Nat \ {0}
    /\ g.op \in {"-", "/"} => Len(v) = 2
    /\ RuleSatisfied(Arithmetic(cage, g.op, g.target), v)

Tells(kind, g, cage, v) == Truthful(g, cage, v) /\ (kind = "killer" => g.op = "+")

LabelsOf(n) == [cells : Seq(Cells(n)), op : Operations, target : Nat \ {0}]

\* The values of a cage of a latin square are digits, and two of them differ.
LEMMA ValuesAre ==
    ASSUME NEW n \in Nat \ {0}, NEW L, Latin(L, n), NEW cage, Shaped(n, cage)
    PROVE  LET v == ValuesOf(L, cage)
           IN  /\ v \in Seq(1 .. n) /\ Len(v) = Len(cage) /\ Len(cage) \in Nat \ {0}
               /\ DOMAIN v = 1 .. Len(cage) /\ DOMAIN cage = 1 .. Len(cage)
               /\ \A k \in 1 .. Len(cage) : v[k] = L[cage[k][1] + 1][cage[k][2] + 1]
               /\ Len(cage) = 2 => v[1] # v[2]
<1> DEFINE m == Len(cage)
           v == ValuesOf(L, cage)
<1>1. /\ m \in Nat \ {0} /\ DOMAIN cage = 1 .. m
      /\ \A k \in 1 .. m : cage[k] \in Cells(n)
  BY DEF Shaped
<1>2. \A c \in Cells(n) : c[1] + 1 \in 1 .. n /\ c[2] + 1 \in 1 .. n /\ c[1] \in Int /\ c[2] \in Int
  BY DEF Cells
<1>3. /\ L \in [1 .. n -> [1 .. n -> 1 .. n]]
      /\ \A r, a, b \in 1 .. n : L[r][a] = L[r][b] => a = b
      /\ \A c, a, b \in 1 .. n : L[a][c] = L[b][c] => a = b
  BY DEF Latin
<1> HIDE DEF m
<1>4. DOMAIN v = 1 .. m /\ \A k \in 1 .. m : v[k] = L[cage[k][1] + 1][cage[k][2] + 1]
  BY <1>1 DEF ValuesOf
<1>5. \A c \in Cells(n) : L[c[1] + 1][c[2] + 1] \in 1 .. n
  BY <1>2, <1>3
<1>6. \A k \in 1 .. m : v[k] \in 1 .. n
  BY <1>1, <1>4, <1>5
<1>7. v \in Seq(1 .. n) /\ Len(v) = m
  <2>1. v = [k \in 1 .. m |-> v[k]]
    BY <1>1 DEF ValuesOf
  <2> HIDE DEF v
  <2>2. v \in [1 .. m -> 1 .. n]
    BY <1>6, <2>1
  <2> QED BY <1>1, <2>2, ListIs
<1>8. ASSUME m = 2 PROVE v[1] # v[2]
  <2> DEFINE a == cage[1]
             b == cage[2]
  <2>1. a \in Cells(n) /\ b \in Cells(n)
    BY <1>1, <1>8
  <2>2. b \in Range(Neighbours(a))
    BY <1>8 DEF Shaped, m
  <2>3. v[1] = L[a[1] + 1][a[2] + 1] /\ v[2] = L[b[1] + 1][b[2] + 1]
    BY <1>4, <1>8
  <2> HIDE DEF a, b, v
  <2>4. b \in {<<a[1], a[2] + 1>>, <<a[1], a[2] - 1>>, <<a[1] + 1, a[2]>>, <<a[1] - 1, a[2]>>}
    <3>1. DOMAIN Neighbours(a) = 1 .. 4
      BY DEF Neighbours
    <3>2. PICK i \in 1 .. 4 : b = Neighbours(a)[i]
      BY <2>2, <3>1 DEF Range
    <3>3. i = 1 \/ i = 2 \/ i = 3 \/ i = 4
      OBVIOUS
    <3> QED BY <3>2, <3>3 DEF Neighbours
  <2>5. /\ a[1] + 1 \in 1 .. n /\ a[2] + 1 \in 1 .. n /\ b[1] + 1 \in 1 .. n /\ b[2] + 1 \in 1 .. n
        /\ a[1] \in Int /\ a[2] \in Int
    BY <1>2, <2>1
  <2>6. CASE b[1] = a[1] /\ b[2] # a[2]
    <3> DEFINE r == a[1] + 1
               x == a[2] + 1
               y == b[2] + 1
    <3>1. x # y
      BY <1>2, <2>1, <2>6
    <3>2. v[1] = L[r][x] /\ v[2] = L[r][y] /\ r \in 1 .. n /\ x \in 1 .. n /\ y \in 1 .. n
      BY <2>3, <2>5, <2>6
    <3> HIDE DEF r, x, y
    <3> QED BY <1>3, <3>1, <3>2
  <2>7. CASE b[2] = a[2] /\ b[1] # a[1]
    <3>1. b[1] + 1 # a[1] + 1
      BY <1>2, <2>1, <2>7
    <3> QED BY <1>3, <2>3, <2>5, <2>7, <3>1
  <2>8. (b[1] = a[1] /\ b[2] # a[2]) \/ (b[2] = a[2] /\ b[1] # a[1])
    BY <2>4, <2>5
  <2> QED BY <2>6, <2>7, <2>8
<1> QED BY <1>1, <1>4, <1>7, <1>8 DEF m

\* Every operation that a cage's values admit tells the truth of them.
LEMMA OptionsAre ==
    ASSUME NEW n \in Nat \ {0}, NEW cage \in Seq(Cells(n)), NEW v \in Seq(Nat \ {0}),
           Len(v) \in Nat \ {0}, Len(v) = 2 => v[1] # v[2]
    PROVE  /\ Options(cage, v) # <<>>
           /\ Options(cage, v) \in Seq({g \in LabelsOf(n) : Truthful(g, cage, v)})
<1> DEFINE Y == {g \in LabelsOf(n) : Truthful(g, cage, v)}
           high == IF v[1] >= v[2] THEN v[1] ELSE v[2]
           low == IF v[1] >= v[2] THEN v[2] ELSE v[1]
           as(op, target) == [cells |-> cage, op |-> op, target |-> target]
           times == <<as("+", Total(v)), as("*", Product(v))>>
           minus == IF Len(v) = 2 THEN <<as("-", high - low)>> ELSE <<>>
           over == IF Len(v) = 2 /\ high % low = 0 THEN <<as("/", high \div low)>> ELSE <<>>
<1>1. DOMAIN v = 1 .. Len(v) /\ \A k \in 1 .. Len(v) : v[k] \in Nat \ {0}
  OBVIOUS
<1>2. Total(v) \in Nat \ {0} /\ Product(v) \in Nat \ {0}
  <2>1. \A k \in 1 .. Len(v) : v[k] \in Nat
    BY <1>1
  <2>2. Len(v) \in Nat /\ Len(v) > 0
    OBVIOUS
  <2>3. Total(v) \in Nat /\ Total(v) >= 1
    BY <1>1, <2>1, <2>2, TotalNat
  <2> QED BY <1>1, <2>2, <2>3, ProductIs
<1>3. Len(v) = 2 => /\ high - low \in Nat \ {0} /\ high - low \in {v[1] - v[2], v[2] - v[1]}
                    /\ low \in Nat \ {0} /\ high \in Nat \ {0}
  <2> HAVE Len(v) = 2
  <2>1. v[1] \in Nat \ {0} /\ v[2] \in Nat \ {0} /\ v[1] # v[2]
    BY <1>1
  <2> QED BY <2>1
<1>4. ASSUME Len(v) = 2, high % low = 0
      PROVE  /\ high \div low \in Nat \ {0}
             /\ \/ v[1] >= v[2] /\ v[1] = (high \div low) * v[2]
                \/ v[2] >= v[1] /\ v[2] = (high \div low) * v[1]
  <2> DEFINE h == high
             l == low
  <2>1. h \in Nat \ {0} /\ l \in Nat \ {0} /\ h % l = 0
    BY <1>3, <1>4
  <2>2. (h = v[1] /\ l = v[2] /\ v[1] >= v[2]) \/ (h = v[2] /\ l = v[1] /\ v[2] >= v[1])
    BY <1>1, <1>4
  <2> HIDE DEF h, l
  <2>3. h \div l \in Nat /\ h = l * (h \div l) + (h % l)
    BY <2>1, DivisionIs
  <2> DEFINE q == h \div l
  <2>4. q \in Nat /\ h = l * q
    BY <2>1, <2>3
  <2> HIDE DEF q
  <2>5. q # 0 /\ h = q * l
    BY <2>1, <2>4
  <2> QED BY <2>2, <2>4, <2>5 DEF q, h, l
<1> HIDE DEF high, low
<1>5. as("+", Total(v)) \in Y
  <2>1. RuleSatisfied(Arithmetic(cage, "+", Total(v)), v)
    BY DEF RuleSatisfied, Arithmetic
  <2> QED BY <1>2, <2>1 DEF LabelsOf, Truthful, Operations
<1>6. as("*", Product(v)) \in Y
  <2>1. RuleSatisfied(Arithmetic(cage, "*", Product(v)), v)
    BY DEF RuleSatisfied, Arithmetic
  <2> QED BY <1>2, <2>1 DEF LabelsOf, Truthful, Operations
<1>7. ASSUME Len(v) = 2 PROVE as("-", high - low) \in Y
  <2>1. RuleSatisfied(Arithmetic(cage, "-", high - low), v)
    BY <1>3, <1>7 DEF RuleSatisfied, Arithmetic
  <2> QED BY <1>3, <1>7, <2>1 DEF LabelsOf, Truthful, Operations
<1>8. ASSUME Len(v) = 2, high % low = 0 PROVE as("/", high \div low) \in Y
  <2>1. RuleSatisfied(Arithmetic(cage, "/", high \div low), v)
    BY <1>4, <1>8 DEF RuleSatisfied, Arithmetic
  <2> QED BY <1>4, <1>8, <2>1 DEF LabelsOf, Truthful, Operations
<1>9. Options(cage, v) = IF Len(v) = 1 THEN <<as("+", Total(v))>> ELSE times \o minus \o over
  BY DEF Options, high, low
<1> HIDE DEF Y, as
<1>10. times \in Seq(Y) /\ Len(times) = 2 /\ <<as("+", Total(v))>> \in Seq(Y)
  BY <1>5, <1>6, FewAre
<1>11. minus \in Seq(Y)
  <2>1. CASE Len(v) = 2
    <3>1. minus = <<as("-", high - low)>>
      BY <2>1
    <3> QED BY <1>7, <2>1, <3>1, FewAre
  <2>2. CASE Len(v) # 2
    <3>1. minus = <<>> /\ <<>> \in Seq(Y)
      BY <2>2
    <3> HIDE DEF minus
    <3> QED BY <3>1
  <2> QED BY <2>1, <2>2
<1>12. over \in Seq(Y)
  <2>1. CASE Len(v) = 2 /\ high % low = 0
    <3>1. over = <<as("/", high \div low)>>
      BY <2>1
    <3> QED BY <1>8, <2>1, <3>1, FewAre
  <2>2. CASE ~(Len(v) = 2 /\ high % low = 0)
    <3>1. over = <<>> /\ <<>> \in Seq(Y)
      BY <2>2
    <3> HIDE DEF over
    <3> QED BY <3>1
  <2> QED BY <2>1, <2>2
<1> HIDE DEF times, minus, over
<1>13. times \o minus \o over \in Seq(Y) /\ Len(times \o minus \o over) = 2 + Len(minus) + Len(over)
       /\ Len(minus) \in Nat /\ Len(over) \in Nat
  <2> DEFINE both == times \o minus
  <2>1. both \in Seq(Y) /\ minus \in Seq(Y) /\ times \in Seq(Y)
    BY <1>10, <1>11, BothFacts
  <2>2. Len(both) = 2 + Len(minus) /\ Len(minus) \in Nat /\ Len(over) \in Nat
    <3>1. Len(both) = Len(times) + Len(minus)
      BY <2>1
    <3>2. Len(minus) \in Nat /\ Len(over) \in Nat
      BY <1>12, <2>1
    <3> QED BY <1>10, <3>1, <3>2
  <2> HIDE DEF both
  <2>3. both \o over \in Seq(Y)
    BY <1>12, <2>1, BothFacts
  <2>4. Len(both \o over) = Len(both) + Len(over)
    BY <1>12, <2>1
  <2> QED BY <2>2, <2>3, <2>4 DEF both
<1>14. times \o minus \o over # <<>>
  BY <1>13
<1>15. <<as("+", Total(v))>> # <<>>
  OBVIOUS
<1> QED BY <1>9, <1>10, <1>13, <1>14, <1>15 DEF Y

\* What a cage is given: a truthful label, after those of the cages before.
Labels(n) == [groups : Seq(LabelsOf(n)), at : Nat]

\* A cage gets one label more, and it is true of the values under it.
LEMMA LabelledIs ==
    ASSUME NEW kind, NEW seed \in Nat, NEW n \in Nat \ {0}, NEW L, Latin(L, n),
           NEW acc \in Labels(n), NEW cage, Shaped(n, cage)
    PROVE  /\ Labelled(kind, seed, L, acc, cage) \in Labels(n)
           /\ \E g \in LabelsOf(n) : /\ Labelled(kind, seed, L, acc, cage).groups = Append(acc.groups, g)
                                     /\ Tells(kind, g, cage, ValuesOf(L, cage))
<1> DEFINE v == ValuesOf(L, cage)
           options == Options(cage, v)
           d == Draw(seed, acc.at, Len(options) - 1)
           sum == [cells |-> cage, op |-> "+", target |-> Total(v)]
           next == Labelled(kind, seed, L, acc, cage)
<1>1. /\ v \in Seq(1 .. n) /\ Len(v) \in Nat \ {0} /\ (Len(v) = 2 => v[1] # v[2])
      /\ DOMAIN v = 1 .. Len(v)
  BY ValuesAre
<1>2. next = IF kind = "killer" THEN [acc EXCEPT !.groups = Append(@, sum)]
             ELSE [groups |-> Append(acc.groups, options[d.value + 1]), at |-> d.at]
  BY DEF Labelled
<1> HIDE DEF v, next
<1>3. acc.groups \in Seq(LabelsOf(n)) /\ acc.at \in Nat
      /\ acc = [groups |-> acc.groups, at |-> acc.at] /\ cage \in Seq(Cells(n))
  BY DEF Labels, Shaped
<1>4. CASE kind = "killer"
  <2>1. Total(v) \in Nat \ {0}
    <3>1. \A k \in 1 .. Len(v) : v[k] \in Nat \ {0} /\ v[k] \in Nat
      BY <1>1
    <3>2. Len(v) \in Nat /\ Len(v) > 0
      BY <1>1
    <3>3. Total(v) \in Nat /\ Total(v) >= 1
      BY <1>1, <3>1, <3>2, TotalNat
    <3> QED BY <3>3
  <2>2. sum \in LabelsOf(n) /\ Truthful(sum, cage, v) /\ sum.op = "+"
    <3>1. RuleSatisfied(Arithmetic(cage, "+", Total(v)), v)
      BY DEF RuleSatisfied, Arithmetic
    <3> QED BY <1>3, <2>1, <3>1 DEF LabelsOf, Truthful, Operations
  <2> HIDE DEF sum
  <2>3. next = [groups |-> Append(acc.groups, sum), at |-> acc.at]
    BY <1>2, <1>3, <1>4
  <2>4. Append(acc.groups, sum) \in Seq(LabelsOf(n))
    BY <1>3, <2>2
  <2>5. next \in Labels(n) /\ next.groups = Append(acc.groups, sum)
    BY <1>3, <2>3, <2>4 DEF Labels
  <2> QED BY <2>2, <2>5 DEF next, v, Tells
<1>5. CASE kind # "killer"
  <2> DEFINE Y == {g \in LabelsOf(n) : Truthful(g, cage, v)}
  <2>1. options # <<>> /\ options \in Seq(Y)
    <3>1. v \in Seq(Nat \ {0})
      <4>1. 1 .. n \subseteq Nat \ {0}
        OBVIOUS
      <4> QED BY <1>1, <4>1
    <3> QED BY <1>1, <1>3, <3>1, OptionsAre
  <2> HIDE DEF options, Y
  <2>2. Len(options) \in Nat \ {0}
    BY <2>1
  <2>3. d.value \in 0 .. Len(options) - 1 /\ d.at \in Nat
    <3>1. Len(options) - 1 \in Int /\ Len(options) - 1 >= 0
      BY <2>2
    <3> QED BY <1>3, <3>1, DrawIs
  <2> HIDE DEF d
  <2> DEFINE g == options[d.value + 1]
  <2>4. g \in Y
    <3>1. d.value + 1 \in 1 .. Len(options)
      BY <2>2, <2>3
    <3> QED BY <2>1, <3>1
  <2>5. next = [groups |-> Append(acc.groups, g), at |-> d.at]
    BY <1>2, <1>5
  <2> HIDE DEF g
  <2>6. g \in LabelsOf(n) /\ Truthful(g, cage, v)
    BY <2>4 DEF Y
  <2>7. Append(acc.groups, g) \in Seq(LabelsOf(n))
    BY <1>3, <2>6
  <2>8. next \in Labels(n) /\ next.groups = Append(acc.groups, g)
    BY <2>3, <2>5, <2>7 DEF Labels
  <2> QED BY <1>5, <2>6, <2>8 DEF next, v, Tells
<1> QED BY <1>4, <1>5

\* The cages labelled, one after the other.
Names(f, kind, seed, n, L, cages) ==
    /\ f \in [0 .. Len(cages) -> Labels(n)] /\ f[0] = [groups |-> <<>>, at |-> 0]
    /\ f[Len(cages)] = labels(kind, seed, L, cages)
    /\ \A k \in 1 .. Len(cages) : f[k] = Labelled(kind, seed, L, f[k - 1], cages[k])

\* So can the labelling, cage by cage.
LEMMA NamesExists ==
    ASSUME NEW kind, NEW seed \in Nat, NEW n \in Nat \ {0}, NEW L, Latin(L, n), NEW cages, Partition(n, cages)
    PROVE  \E f : Names(f, kind, seed, n, L, cages)
<1> DEFINE m == Len(cages)
           s == cages
           W == Labels(n)
           base == [groups |-> <<>>, at |-> 0]
           step(acc, e) == Labelled(kind, seed, L, acc, e)
           G == [x \in W \X (1 .. m) |-> step(x[1], s[x[2]])]
           Table(t) == t = [u \in SUBSET (DOMAIN s) |->
                               IF u = {} THEN base ELSE step(t[u \ {Max(u)}], s[Max(u)])]
           t == CHOOSE t : Table(t)
<1>1. m \in Nat /\ DOMAIN s = 1 .. m /\ base \in W
  <2>1. m \in Nat /\ DOMAIN s = 1 .. m
    BY DEF Partition
  <2>2. base \in W
    BY DEF Labels
  <2> QED BY <2>1, <2>2
<1>2. \A v \in W, k \in 1 .. m : step(v, s[k]) \in W
  <2>1. \A k \in 1 .. m : Shaped(n, s[k])
    BY <1>1 DEF Partition
  <2> HIDE DEF s
  <2> QED BY <2>1, LabelledIs
<1>8. labels(kind, seed, L, cages) = t[DOMAIN s]
  BY DEF labels, FoldLeft, MapThenFoldSet
<1> HIDE DEF s, base, step
<1>3. \A v \in W, k \in 1 .. m : G[<<v, k>>] = step(v, s[k])
  OBVIOUS
<1>4. Steps(G, base, W, m)
  <2> HIDE DEF W, m, G
  <2> QED BY <1>1, <1>2, <1>3 DEF Steps
<1>5. PICK h \in [SUBSET (1 .. m) -> W] : Run(G, base, m, h)
  <2> HIDE DEF G, W, m
  <2> QED BY <1>4, RunsExist
<1>6. Table(h)
  <2> HIDE DEF G, W, m
  <2>1. \A u \in SUBSET (1 .. m) : u # {} => G[<<h[u \ {Max(u)}], Max(u)>>] = step(h[u \ {Max(u)}], s[Max(u)])
    <3> TAKE u \in SUBSET (1 .. m)
    <3> HAVE u # {}
    <3>1. Max(u) \in 1 .. m /\ h[u \ {Max(u)}] \in W
      BY <1>1, LastIsIn
    <3> QED BY <1>3, <3>1
  <2> QED BY <1>1, <1>5, <2>1 DEF Run
<1>7. Table(t)
  BY <1>6
<1> HIDE DEF t
<1>9. Follows(t, G, base, W, m)
  <2>1. t[{}] = base
    BY <1>7
  <2>2. ASSUME NEW k \in 1 .. m, t[1 .. (k - 1)] \in W PROVE t[1 .. k] = G[<<t[1 .. (k - 1)], k>>]
    <3>1. /\ 1 .. k \in SUBSET (1 .. m) /\ 1 .. k # {} /\ Max(1 .. k) = k
          /\ (1 .. k) \ {Max(1 .. k)} = 1 .. (k - 1)
      BY <1>1, Firsts
    <3>2. 1 .. k \in SUBSET (DOMAIN s)
      BY <1>1, <3>1
    <3>3. t[1 .. k] = step(t[(1 .. k) \ {Max(1 .. k)}], s[Max(1 .. k)])
      BY <1>7, <3>1, <3>2
    <3>4. t[1 .. k] = step(t[1 .. (k - 1)], s[k])
      BY <3>1, <3>3
    <3> HIDE DEF m, W, G
    <3> QED BY <1>3, <2>2, <3>4
  <2> QED BY <2>1, <2>2 DEF Follows
<1> HIDE DEF G, W, m
<1>10. PICK f : Trace(f, G, base, W, m) /\ f[m] = t[1 .. m]
  BY <1>4, <1>9, Unrolled
<1>11. \A k \in 1 .. m : f[k - 1] \in W /\ f[k] = step(f[k - 1], s[k])
  <2>1. \A k \in 1 .. m : k - 1 \in 0 .. m
    BY <1>1
  <2> QED BY <1>3, <1>10, <2>1 DEF Trace
<1>12. f \in [0 .. m -> W] /\ f[0] = base /\ f[m] = labels(kind, seed, L, cages)
  BY <1>1, <1>8, <1>10 DEF Trace
<1>13. Names(f, kind, seed, n, L, cages)
  BY <1>11, <1>12 DEF m, W, s, base, step, Names
<1> QED BY <1>13

\* Every cage has its label, in the order of the cages, and each is true.
LEMMA LabelsAre ==
    ASSUME NEW kind, NEW seed \in Nat, NEW n \in Nat \ {0}, NEW L, Latin(L, n), NEW cages, Partition(n, cages)
    PROVE  LET told == labels(kind, seed, L, cages)
           IN  /\ told.groups \in Seq(LabelsOf(n)) /\ Len(told.groups) = Len(cages) /\ told.at \in Nat
               /\ \A i \in 1 .. Len(cages) :
                      Tells(kind, told.groups[i], cages[i], ValuesOf(L, cages[i]))
<1> DEFINE m == Len(cages)
<1>1. m \in Nat /\ \A k \in 1 .. m : Shaped(n, cages[k])
  BY DEF Partition
<1>2. PICK f : Names(f, kind, seed, n, L, cages)
  BY NamesExists
<1>3. /\ f \in [0 .. m -> Labels(n)] /\ f[0] = [groups |-> <<>>, at |-> 0]
      /\ f[m] = labels(kind, seed, L, cages)
      /\ \A k \in 1 .. m : f[k] = Labelled(kind, seed, L, f[k - 1], cages[k])
  BY <1>2 DEF Names
<1> HIDE DEF m
<1> DEFINE True(g, i) == Tells(kind, g, cages[i], ValuesOf(L, cages[i]))
           T == {k \in 0 .. m : Len(f[k].groups) = k /\ \A i \in 1 .. k : True(f[k].groups[i], i)}
<1>4. m \in T
  <2>1. 0 \in T /\ m \in 0 .. m
    BY <1>1, <1>3
  <2>2. ASSUME NEW k \in 1 .. m, k - 1 \in T PROVE k \in T
    <3>1. k - 1 \in 0 .. m /\ k \in 0 .. m /\ f[k - 1] \in Labels(n) /\ k \in Nat
      BY <1>1, <1>3
    <3> DEFINE old == f[k - 1].groups
    <3>2. PICK g \in LabelsOf(n) : f[k].groups = Append(old, g) /\ True(g, k)
      <4>1. f[k] = Labelled(kind, seed, L, f[k - 1], cages[k]) /\ Shaped(n, cages[k])
        BY <1>1, <1>3
      <4>2. \E g \in LabelsOf(n) : /\ Labelled(kind, seed, L, f[k - 1], cages[k]).groups = Append(old, g)
                                    /\ Tells(kind, g, cages[k], ValuesOf(L, cages[k]))
        <5> DEFINE before == f[k - 1]
                   cage == cages[k]
        <5>1. before \in Labels(n) /\ Shaped(n, cage)
          BY <3>1, <4>1
        <5> HIDE DEF before, cage
        <5>2. \E g \in LabelsOf(n) : /\ Labelled(kind, seed, L, before, cage).groups = Append(before.groups, g)
                                      /\ Tells(kind, g, cage, ValuesOf(L, cage))
          BY <5>1, LabelledIs
        <5> QED BY <5>2 DEF before, cage
      <4> QED BY <4>1, <4>2
    <3>3. old \in Seq(LabelsOf(n)) /\ Len(old) = k - 1
      BY <2>2, <3>1 DEF Labels
    <3>4. \A i \in 1 .. (k - 1) : True(old[i], i)
      BY <2>2
    <3> HIDE DEF old, True
    <3>5. Len(Append(old, g)) = k /\ Append(old, g)[k] = g /\ \A i \in 1 .. (k - 1) : Append(old, g)[i] = old[i]
      BY <3>1, <3>3
    <3>6. \A i \in 1 .. k : i = k \/ i \in 1 .. (k - 1)
      BY <3>1
    <3> QED BY <3>1, <3>2, <3>4, <3>5, <3>6
  <2> HIDE DEF T
  <2> QED BY <1>1, <2>1, <2>2, Climb
<1>5. f[m] \in Labels(n)
  BY <1>1, <1>3
<1> QED BY <1>3, <1>4, <1>5 DEF Labels, m

\* What is printed is in a cage, so on the board.
LEMMA GivenAre ==
    ASSUME NEW seed \in Nat, NEW from \in Nat, NEW n \in Nat \ {0}, NEW cages, Partition(n, cages)
    PROVE  FoldLeft(LAMBDA acc, i : Printed(seed, cages, acc, i),
                    [given |-> {}, at |-> Shuffled(seed, from, Len(cages)).at],
                    SubSeq(Shuffled(seed, from, Len(cages)).order, 1,
                           IF GivenCells < Len(cages) THEN GivenCells ELSE Len(cages))) \in [given : SUBSET Cells(n), at : Nat]
<1> DEFINE m == (IF GivenCells < Len(cages) THEN GivenCells ELSE Len(cages))
           s == SubSeq(Shuffled(seed, from, Len(cages)).order, 1, IF GivenCells < Len(cages) THEN GivenCells ELSE Len(cages))
           W == [given : SUBSET Cells(n), at : Nat]
           base == [given |-> {}, at |-> Shuffled(seed, from, Len(cages)).at]
           step(acc, e) == Printed(seed, cages, acc, e)
           G == [x \in W \X (1 .. m) |-> step(x[1], s[x[2]])]
           Table(t) == t = [u \in SUBSET (DOMAIN s) |->
                               IF u = {} THEN base ELSE step(t[u \ {Max(u)}], s[Max(u)])]
           t == CHOOSE t : Table(t)
<1>1. m \in Nat /\ DOMAIN s = 1 .. m /\ base \in W
  <2> DEFINE N == Len(cages)
             mixed == Shuffled(seed, from, N)
  <2>0. N \in Nat /\ GivenCells \in Nat
    BY GeneratorAssumption DEF GeneratorAssumption, Partition
  <2>1. mixed.order \in [1 .. N -> 0 .. N - 1] /\ mixed.at \in Nat
    <3> HIDE DEF N
    <3> QED BY <2>0, ShufflesArePermutations
  <2>2. m \in Nat /\ m <= N
    BY <2>0
  <2>3. mixed.order \in Seq(0 .. N - 1) /\ Len(mixed.order) = N
    <3> HIDE DEF mixed, N
    <3> QED BY <2>0, <2>1, ListIs
  <2>4. s = SubSeq(mixed.order, 1, m)
    OBVIOUS
  <2>5. DOMAIN s = 1 .. m /\ \A k \in 1 .. m : s[k] \in 0 .. N - 1
    <3> HIDE DEF mixed, N, m, s
    <3> QED BY <2>0, <2>2, <2>3, <2>4
  <2> QED BY <2>1, <2>2, <2>5
<1>2. \A v \in W, k \in 1 .. m : step(v, s[k]) \in W
  <2> DEFINE N == Len(cages)
  <2>0. N \in Nat /\ GivenCells \in Nat
    BY GeneratorAssumption DEF GeneratorAssumption, Partition
  <2>1. Shuffled(seed, from, N).order \in Seq(0 .. N - 1) /\ Len(Shuffled(seed, from, N).order) = N
    <3>1. Shuffled(seed, from, N).order \in [1 .. N -> 0 .. N - 1]
      <4> HIDE DEF N
      <4> QED BY <2>0, ShufflesArePermutations
    <3> HIDE DEF N
    <3> QED BY <2>0, <3>1, ListIs
  <2>2. \A k \in 1 .. m : s[k] \in 0 .. N - 1
    <3> DEFINE order == Shuffled(seed, from, N).order
    <3>1. s = SubSeq(order, 1, m) /\ order \in Seq(0 .. N - 1) /\ Len(order) = N /\ m \in Nat /\ m <= N
      BY <2>0, <2>1
    <3> HIDE DEF order, m, s, N
    <3> QED BY <2>0, <3>1
  <2> TAKE v \in W, k \in 1 .. m
  <2> DEFINE i == s[k]
             cage == cages[i + 1]
             d == Draw(seed, v.at, Len(cage) - 1)
  <2>3. i \in 0 .. N - 1
    BY <2>2
  <2> HIDE DEF i, s
  <2>4. cage \in Seq(Cells(n)) /\ Len(cage) \in Nat \ {0}
    <3>1. i + 1 \in DOMAIN cages
      BY <2>0, <2>3 DEF Partition
    <3>2. Shaped(n, cage)
      BY <3>1 DEF Partition
    <3> HIDE DEF cage
    <3> QED BY <3>2 DEF Shaped
  <2> HIDE DEF cage
  <2>5. d.value \in 0 .. Len(cage) - 1 /\ d.at \in Nat
    <3>1. Len(cage) - 1 \in Int /\ Len(cage) - 1 >= 0 /\ v.at \in Nat
      BY <2>4
    <3> QED BY <3>1, DrawIs
  <2> HIDE DEF d
  <2>6. cage[d.value + 1] \in Cells(n)
    <3>1. d.value + 1 \in 1 .. Len(cage)
      BY <2>4, <2>5
    <3> QED BY <2>4, <3>1
  <2>7. step(v, i) = [given |-> v.given \cup {cage[d.value + 1]}, at |-> d.at]
    BY DEF Printed, cage, d
  <2> HIDE DEF step
  <2>8. step(v, i) \in W
    BY <2>5, <2>6, <2>7
  <2> QED BY <2>8 DEF i
<1>3. FoldLeft(LAMBDA acc, i : Printed(seed, cages, acc, i),
                    [given |-> {}, at |-> Shuffled(seed, from, Len(cages)).at],
                    SubSeq(Shuffled(seed, from, Len(cages)).order, 1,
                           IF GivenCells < Len(cages) THEN GivenCells ELSE Len(cages))) = t[DOMAIN s]
  BY DEF FoldLeft, MapThenFoldSet
<1> HIDE DEF s, base, step
<1>4. \A v \in W, k \in 1 .. m : G[<<v, k>>] = step(v, s[k])
  OBVIOUS
<1>5. Steps(G, base, W, m)
  <2> HIDE DEF W, m, G
  <2> QED BY <1>1, <1>2, <1>4 DEF Steps
<1>6. PICK h \in [SUBSET (1 .. m) -> W] : Run(G, base, m, h)
  <2> HIDE DEF G, W, m
  <2> QED BY <1>5, RunsExist
<1>7. Table(h)
  <2> HIDE DEF G, W, m
  <2>1. \A u \in SUBSET (1 .. m) : u # {} => G[<<h[u \ {Max(u)}], Max(u)>>] = step(h[u \ {Max(u)}], s[Max(u)])
    <3> TAKE u \in SUBSET (1 .. m)
    <3> HAVE u # {}
    <3>1. Max(u) \in 1 .. m /\ h[u \ {Max(u)}] \in W
      BY <1>1, LastIsIn
    <3> QED BY <1>4, <3>1
  <2> QED BY <1>1, <1>6, <2>1 DEF Run
<1>8. Table(t)
  BY <1>7
<1> HIDE DEF t
<1>9. Follows(t, G, base, W, m)
  <2>1. t[{}] = base
    BY <1>8
  <2>2. ASSUME NEW k \in 1 .. m, t[1 .. (k - 1)] \in W PROVE t[1 .. k] = G[<<t[1 .. (k - 1)], k>>]
    <3>1. /\ 1 .. k \in SUBSET (1 .. m) /\ 1 .. k # {} /\ Max(1 .. k) = k
          /\ (1 .. k) \ {Max(1 .. k)} = 1 .. (k - 1)
      BY <1>1, Firsts
    <3>2. 1 .. k \in SUBSET (DOMAIN s)
      BY <1>1, <3>1
    <3>3. t[1 .. k] = step(t[(1 .. k) \ {Max(1 .. k)}], s[Max(1 .. k)])
      BY <1>8, <3>1, <3>2
    <3>4. t[1 .. k] = step(t[1 .. (k - 1)], s[k])
      BY <3>1, <3>3
    <3> HIDE DEF m, W, G
    <3> QED BY <1>4, <2>2, <3>4
  <2> QED BY <2>1, <2>2 DEF Follows
<1> HIDE DEF G, W, m
<1>10. PICK f : Trace(f, G, base, W, m) /\ f[m] = t[1 .. m]
  BY <1>5, <1>9, Unrolled
<1>11. f[m] \in W
  <2>1. m \in 0 .. m
    BY <1>1
  <2> QED BY <1>10, <2>1 DEF Trace
<1> QED BY <1>1, <1>3, <1>10, <1>11 DEF W

\* What a caged board prints is a cell of it.
LEMMA GivenIsInside ==
    ASSUME NEW seed \in Nat, NEW from \in Nat, NEW n \in Nat \ {0}, NEW cages, Partition(n, cages)
    PROVE  givenCells(seed, from, cages) \subseteq Cells(n)
  BY GivenAre DEF givenCells

----------------------------------------------------------------------------
\* What the contract says of a candidate.

\* Nothing, or that a word is read twice, or that a KenKen cage repeats a digit
\* more often than its check of the sums allows for.
Undoubted(p) == \/ FirstRejection(p) \in {"none", "word_occurs_twice"}
                \/ FirstRejection(p) = "unreachable_target" /\ RepeatingSum(p)

\* Its clues are about its cells, and what it declares is a solution.
Solved(p) == p.kind # "wordSearch" => CluesFillable(p) /\ Obeys(p, DeclaredFilling(p))

\* A rejection is one of the things looked for, and is found.
LEMMA RejectionIs ==
    ASSUME NEW p, NEW X, Checks(p) \in Seq(X)
    PROVE  FirstRejection(p) = "none" \/ \E tag \in X : FirstRejection(p) = tag /\ Wrong(p, tag)
<1> DEFINE C == Checks(p)
           I == {i \in 1 .. Len(C) : Wrong(p, C[i])}
<1>1. FirstRejection(p) = IF (IF I # {} THEN Min(I) ELSE 0) = 0 THEN "none"
                          ELSE C[IF I # {} THEN Min(I) ELSE 0]
  BY DEF FirstRejection, SelectInSeq
<1>2. I \subseteq Nat
  OBVIOUS
<1>3. CASE I = {}
  BY <1>1, <1>3
<1>4. CASE I # {}
  <2>1. Min(I) \in I
    <3> HIDE DEF I
    <3> QED BY <1>2, <1>4, MinIsIn
  <2>2. Min(I) \in 1 .. Len(C) /\ Wrong(p, C[Min(I)]) /\ Min(I) # 0
    BY <2>1
  <2>3. C[Min(I)] \in X
    <3> DEFINE i == Min(I)
    <3>1. i \in 1 .. Len(C)
      BY <2>2
    <3> HIDE DEF i, C
    <3>2. C[i] \in X
      BY <3>1 DEF C
    <3> QED BY <3>2 DEF i
  <2>4. FirstRejection(p) = C[Min(I)]
    <3> HIDE DEF C
    <3> QED BY <1>1, <1>4, <2>2
  <2> QED BY <2>2, <2>3, <2>4
<1> QED BY <1>3, <1>4

\* A candidate with cells of its own, of which everything but the reach of the
\* sums is right.
Sturdy(p) ==
    /\ WellFormed(p) /\ SolutionShaped(p)
    /\ \A c \in p.blocked : Inside(c, p.size)
    /\ \A c \in p.given : Inside(c, p.size) /\ c \notin p.blocked
    /\ p.kind # "magicSquare" => Stray(p) = 0 /\ Covered(p)
    /\ p.kind = "kenken" => \A g \in Range(p.groups) : g.op \in {"-", "/"} => Len(g.cells) = 2
    /\ p.kind \in {"killer", "kakuro"} => ~Unreachable(p)

\* Of a sturdy candidate no check says anything that was in doubt.
LEMMA SturdyIsUndoubted ==
    ASSUME NEW p, p.kind \in {"kenken", "killer", "kakuro", "magicSquare"}, Sturdy(p)
    PROVE  Undoubted(p)
<1> DEFINE X == {"blocked_cell_outside_board", "given_cell_outside_board", "solution_shape"}
           Y == {"cage_cell_outside_board", "cage_cells_overlap",
                 "cage_coverage_incomplete", "binary_cage_size", "unreachable_target"}
<1>1. CASE p.kind = "magicSquare"
  <2>1. Checks(p) \in Seq(X)
    <3>1. Checks(p) = <<"blocked_cell_outside_board", "given_cell_outside_board", "solution_shape">>
      BY <1>1 DEF Checks, Sturdy
    <3> QED BY <3>1
  <2>2. \A tag \in X : ~Wrong(p, tag)
    BY <1>1 DEF Wrong, Sturdy
  <2>3. FirstRejection(p) = "none"
    <3> HIDE DEF X
    <3> QED BY <2>1, <2>2, RejectionIs
  <2> QED BY <2>3 DEF Undoubted
<1>2. CASE p.kind # "magicSquare"
  <2>1. Checks(p) \in Seq(X \cup Y)
    <3> DEFINE A == <<"blocked_cell_outside_board", "given_cell_outside_board", "solution_shape">>
               B == <<"cage_cell_outside_board", "cage_cells_overlap",
                      "cage_coverage_incomplete", "binary_cage_size", "unreachable_target">>
    <3>1. Checks(p) = A \o B
      BY <1>2 DEF Checks, Sturdy
    <3>2. A \in Seq(X \cup Y)
      <4>1. \A i \in 1 .. 3 : A[i] \in X \cup Y
        OBVIOUS
      <4>2. A = [i \in 1 .. 3 |-> A[i]]
        OBVIOUS
      <4> HIDE DEF A, X, Y
      <4> QED BY <4>1, <4>2
    <3>3. B \in Seq(X \cup Y)
      <4>1. \A i \in 1 .. 5 : B[i] \in X \cup Y
        OBVIOUS
      <4>2. B = [i \in 1 .. 5 |-> B[i]]
        OBVIOUS
      <4> HIDE DEF B, X, Y
      <4> QED BY <4>1, <4>2
    <3> HIDE DEF A, B, X, Y
    <3> QED BY <3>1, <3>2, <3>3
  <2>2. \A tag \in (X \cup Y) \ {"unreachable_target"} : ~Wrong(p, tag)
    BY <1>2 DEF Wrong, Sturdy
  <2>3. Wrong(p, "unreachable_target") => RepeatingSum(p)
    BY <1>2 DEF Wrong, Sturdy, RepeatingSum
  <2>4. FirstRejection(p) = "none" \/ \E tag \in X \cup Y : FirstRejection(p) = tag /\ Wrong(p, tag)
    <3> HIDE DEF X, Y
    <3> QED BY <2>1, RejectionIs
  <2>5. FirstRejection(p) = "none" \/ (FirstRejection(p) = "unreachable_target" /\ RepeatingSum(p))
    <3> HIDE DEF X, Y
    <3> QED BY <2>2, <2>3, <2>4
  <2> QED BY <2>5 DEF Undoubted
<1> QED BY <1>1, <1>2

\* The declared filling shows a region what is declared of its cells.
LEMMA ShownIs ==
    ASSUME NEW p, NEW r, \A k \in DOMAIN r.cells : r.cells[k] \in Fillable(p)
    PROVE  Shown(r, DeclaredFilling(p)) = [k \in DOMAIN r.cells |-> Declared(p, r.cells[k])]
<1> DEFINE f == DeclaredFilling(p)
<1>1. DOMAIN f = Fillable(p) /\ \A c \in Fillable(p) : f[c] = Declared(p, c)
  BY DEF DeclaredFilling
<1> HIDE DEF f
<1>2. {k \in DOMAIN r.cells : r.cells[k] \in DOMAIN f} = DOMAIN r.cells
  BY <1>1
<1>3. Shown(r, f) = [k \in DOMAIN r.cells |-> f[r.cells[k]]]
  BY <1>2 DEF Shown
<1> QED BY <1>1, <1>3 DEF f

\* What is printed is what is declared.
LEMMA PrintedHolds ==
    ASSUME NEW p, NEW c \in Fillable(p), Declared(p, c) \in Int
    PROVE  RuleSatisfied(SumOf(<<c>>, Declared(p, c)), Shown(SumOf(<<c>>, Declared(p, c)), DeclaredFilling(p)))
<1> DEFINE r == SumOf(<<c>>, Declared(p, c))
           v == [k \in {1} |-> Declared(p, c)]
<1>1. r.cells = <<c>> /\ r.kind = "sum" /\ r.target = Declared(p, c)
  BY DEF SumOf
<1>2. DOMAIN r.cells = {1} /\ r.cells[1] = c
  BY <1>1
<1>3. Shown(r, DeclaredFilling(p)) = v
  <2> HIDE DEF r
  <2>1. \A k \in DOMAIN r.cells : r.cells[k] \in Fillable(p)
    BY <1>2
  <2>2. Shown(r, DeclaredFilling(p)) = [k \in DOMAIN r.cells |-> Declared(p, r.cells[k])]
    BY <2>1, ShownIs
  <2> QED BY <1>2, <2>2
<1>4. Total(v) = Declared(p, c)
  <2>1. Total(v) = SumOver(v, {1})
    BY TotalIsASum
  <2>2. IsFiniteSet({1})
    BY FS_Singleton
  <2>3. One({1}) = 1 /\ {1} \ {1} = {} /\ IsFiniteSet({}) /\ v[1] = Declared(p, c)
    BY FS_EmptySet DEF One
  <2> HIDE DEF v
  <2>4. SumOver(v, {1}) = v[1] + SumOver(v, {})
    BY <2>2, <2>3, SumStep
  <2>5. SumOver(v, {}) = 0
    BY <2>3, SumStep
  <2> QED BY <2>1, <2>3, <2>4, <2>5
<1> HIDE DEF r, v
<1>5. RuleSatisfied(r, v)
  BY <1>1, <1>4 DEF RuleSatisfied
<1> QED BY <1>3, <1>5 DEF r

----------------------------------------------------------------------------
\* KenKen and Killer.

\* A board whose cages part its cells, each labelled with the truth.
Caging(p, n, cages) ==
    /\ p.kind \in {"kenken", "killer"} /\ p.size = n /\ p.blocked = {} /\ p.given \subseteq Cells(n)
    /\ Latin(p.solution, n) /\ Partition(n, cages)
    /\ p.groups \in Seq(LabelsOf(n)) /\ Len(p.groups) = Len(cages)
    /\ \A i \in 1 .. Len(cages) : Tells(p.kind, p.groups[i], cages[i], ValuesOf(p.solution, cages[i]))
    /\ p.kind = "killer" => \A i \in 1 .. Len(cages) : ~HasDuplicate(ValuesOf(p.solution, cages[i]))

\* What is put together from a Latin square and a partition is such a board.
LEMMA CagedBoardIs ==
    ASSUME NEW kind \in {"kenken", "killer"}, NEW n \in Nat \ {0}, NEW seed \in Nat, NEW L, Latin(L, n),
           NEW cages, Partition(n, cages),
           kind = "killer" => \A i \in 1 .. Len(cages) : ~HasDuplicate(ValuesOf(L, cages[i]))
    PROVE  Caging(CagedBoard(kind, n, seed, L, cages), n, cages)
<1> DEFINE p == CagedBoard(kind, n, seed, L, cages)
           told == labels(kind, seed, L, cages)
<1>1. /\ told.groups \in Seq(LabelsOf(n)) /\ Len(told.groups) = Len(cages) /\ told.at \in Nat
      /\ \A i \in 1 .. Len(cages) : Tells(kind, told.groups[i], cages[i], ValuesOf(L, cages[i]))
  BY LabelsAre
<1>2. givenCells(seed, told.at, cages) \subseteq Cells(n)
  <2> HIDE DEF told
  <2> QED BY <1>1, GivenIsInside
<1>3. p = [kind |-> kind, size |-> n, blocked |-> {}, given |-> givenCells(seed, told.at, cages),
           solution |-> L, groups |-> told.groups]
  BY DEF CagedBoard
<1> HIDE DEF p, told
<1> QED BY <1>1, <1>2, <1>3 DEF Caging, p

\* The cells it has and the cells its cages claim.
LEMMA CagingClaims ==
    ASSUME NEW p, NEW n \in Nat \ {0}, NEW cages, Caging(p, n, cages)
    PROVE  /\ Fillable(p) = Cells(n) /\ Claims(p) \in Seq(Cells(n))
           /\ Stray(p) = 0 /\ Covered(p)
           /\ Len(cages) \in Nat /\ DOMAIN cages = 1 .. Len(cages) /\ DOMAIN p.groups = 1 .. Len(cages)
           /\ \A i \in 1 .. Len(cages) : Shaped(n, cages[i]) /\ p.groups[i].cells = cages[i]
<1>1. /\ p.kind \in {"kenken", "killer"} /\ p.size = n /\ p.blocked = {}
      /\ Len(p.groups) = Len(cages) /\ p.groups \in Seq(LabelsOf(n)) /\ Partition(n, cages)
      /\ \A i \in 1 .. Len(cages) : p.groups[i].cells = cages[i]
  BY DEF Caging, Tells, Truthful
<1>2. /\ cages \in Seq(Seq(Cells(n))) /\ \A i \in DOMAIN cages : Shaped(n, cages[i])
      /\ Apart(cages) /\ UNION {Range(cages[i]) : i \in DOMAIN cages} = Cells(n)
  BY <1>1 DEF Partition
<1>3. Len(cages) \in Nat /\ DOMAIN cages = 1 .. Len(cages) /\ DOMAIN p.groups = 1 .. Len(cages)
  BY <1>1, <1>2
<1>4. Fillable(p) = Cells(n)
  <2>1. Fillable(p) = Cells(p.size) \ p.blocked
    BY <1>1, FillableFacts
  <2> QED BY <1>1, <2>1
<1>5. [i \in DOMAIN p.groups |-> p.groups[i].cells] = cages
  <2>1. cages = [i \in 1 .. Len(cages) |-> cages[i]]
    BY <1>2, <1>3
  <2>2. [i \in 1 .. Len(cages) |-> p.groups[i].cells] = [i \in 1 .. Len(cages) |-> cages[i]]
    BY <1>1
  <2> QED BY <1>3, <2>1, <2>2
<1>6. Claims(p) = FlattenSeq(cages)
  BY <1>5 DEF Claims
<1> DEFINE all == Claims(p)
<1>7. all \in Seq(Cells(n)) /\ Range(all) = Cells(n) /\ IsInjective(all)
  BY <1>2, <1>6, FlattenFacts
<1>8. Stray(p) = 0
  <2>1. Stray(p) = 0 <=> \A i \in DOMAIN Claims(p) :
                            /\ Inside(Claims(p)[i], p.size)
                            /\ ~(Caged(p) /\ \E j \in 1 .. i - 1 : Claims(p)[j] = Claims(p)[i])
    <3> DEFINE bad == {i \in DOMAIN Claims(p) :
                            \/ ~Inside(Claims(p)[i], p.size)
                            \/ Caged(p) /\ \E j \in 1 .. i - 1 : Claims(p)[j] = Claims(p)[i]}
    <3>1. Stray(p) = IF bad = {} THEN 0 ELSE Min(bad)
      BY DEF Stray
    <3>2. bad # {} => Min(bad) # 0
      <4>1. bad \subseteq Nat /\ 0 \notin bad
        BY <1>7
      <4> HIDE DEF bad
      <4> QED BY <4>1, MinIsIn
    <3> QED BY <3>1, <3>2
  <2> HIDE DEF all
  <2>2. ASSUME NEW i \in DOMAIN all PROVE Inside(all[i], p.size) /\ \A j \in 1 .. i - 1 : all[j] # all[i]
    <3>1. DOMAIN all = 1 .. Len(all) /\ Len(all) \in Nat /\ all[i] \in Cells(n) /\ i \in Nat
      BY <1>7
    <3>2. Inside(all[i], p.size)
      BY <1>1, <3>1 DEF Cells, Inside
    <3>3. \A j \in 1 .. i - 1 : j \in DOMAIN all /\ j # i
      BY <3>1
    <3>4. \A j \in 1 .. i - 1 : all[j] # all[i]
      BY <1>7, <3>3 DEF IsInjective
    <3> QED BY <3>2, <3>4
  <2> QED BY <2>1, <2>2 DEF all
<1>9. Covered(p)
  BY <1>1, <1>4, <1>7 DEF Covered, Caged
<1> QED BY <1>1, <1>2, <1>3, <1>4, <1>7, <1>8, <1>9

\* A Killer cage's sum is in reach, for its digits are different.
LEMMA CagingReach ==
    ASSUME NEW p, NEW n \in Nat \ {0}, NEW cages, Caging(p, n, cages), p.kind = "killer"
    PROVE  ~Unreachable(p)
<1> SUFFICES ASSUME NEW g \in Range(p.groups) PROVE SumReachable(Len(g.cells), g.target, DomainMax(p))
  BY DEF Unreachable
<1>1. PICK i \in 1 .. Len(cages) : g = p.groups[i]
  BY CagingClaims DEF Range
<1> DEFINE cage == cages[i]
           v == ValuesOf(p.solution, cage)
<1>2. /\ Latin(p.solution, n) /\ Shaped(n, cage) /\ g.cells = cage /\ p.size = n
      /\ g.op = "+" /\ RuleSatisfied(Arithmetic(cage, g.op, g.target), v) /\ ~HasDuplicate(v)
  BY <1>1, CagingClaims DEF Caging, Tells, Truthful
<1> HIDE DEF cage
<1>3. /\ v \in Seq(1 .. n) /\ Len(v) = Len(cage) /\ Len(cage) \in Nat \ {0}
      /\ DOMAIN v = 1 .. Len(cage)
  BY <1>2, ValuesAre
<1> HIDE DEF v
<1>4. Total(v) = g.target
  BY <1>2 DEF RuleSatisfied, Arithmetic
<1>5. \A a, b \in 1 .. Len(cage) : v[a] = v[b] => a = b
  BY <1>2, <1>3 DEF HasDuplicate
<1>6. SumReachable(Len(cage), Total(v), n)
  <2>1. \A a \in 1 .. Len(cage) : v[a] \in 1 .. n
    BY <1>3
  <2> QED BY <1>3, <1>5, <2>1, DistinctReachable
<1>7. DomainMax(p) = n
  BY <1>2 DEF DomainMax, Caged, Caging
<1> QED BY <1>2, <1>4, <1>6, <1>7

\* Nothing else is wrong with it.
LEMMA CagingIsSturdy ==
    ASSUME NEW p, NEW n \in 3 .. 6, NEW cages, Caging(p, n, cages)
    PROVE  Sturdy(p) /\ p.kind \in {"kenken", "killer"}
<1>1. /\ n \in Nat \ {0} /\ p.kind \in {"kenken", "killer"} /\ p.size = n /\ p.blocked = {}
      /\ p.given \subseteq Cells(n) /\ Latin(p.solution, n)
  BY DEF Caging
<1>2. /\ Stray(p) = 0 /\ Covered(p)
      /\ Len(cages) \in Nat /\ DOMAIN cages = 1 .. Len(cages) /\ DOMAIN p.groups = 1 .. Len(cages)
      /\ \A i \in 1 .. Len(cages) : Shaped(n, cages[i]) /\ p.groups[i].cells = cages[i]
  BY <1>1, CagingClaims
<1>3. ASSUME NEW i \in 1 .. Len(cages)
      PROVE  LET g == p.groups[i]
             IN  /\ Len(g.cells) \in Nat \ {0} /\ g.target \in Nat \ {0}
                 /\ g.op \in {"-", "/"} => Len(g.cells) = 2
  <2> DEFINE g == p.groups[i]
             cage == cages[i]
             v == ValuesOf(p.solution, cage)
  <2>1. Truthful(g, cage, v) /\ Shaped(n, cage) /\ g.cells = cage
    BY <1>2 DEF Caging, Tells
  <2> HIDE DEF g, cage
  <2>2. Len(v) = Len(cage) /\ Len(cage) \in Nat \ {0}
    BY <1>1, <2>1, ValuesAre
  <2> HIDE DEF v
  <2>3. Len(g.cells) \in Nat \ {0} /\ g.target \in Nat \ {0} /\ (g.op \in {"-", "/"} => Len(g.cells) = 2)
    BY <2>1, <2>2 DEF Truthful
  <2> QED BY <2>3 DEF g
<1>4. \A g \in Range(p.groups) : /\ Len(g.cells) \in Nat \ {0} /\ g.target \in Nat \ {0}
                                 /\ g.op \in {"-", "/"} => Len(g.cells) = 2
  BY <1>2, <1>3 DEF Range
<1>5. p.groups # <<>>
  <2>1. UNION {Range(cages[i]) : i \in DOMAIN cages} = Cells(n)
    BY DEF Caging, Partition
  <2>2. <<0, 0>> \in Cells(n)
    BY DEF Cells
  <2>3. DOMAIN cages # {}
    BY <2>1, <2>2
  <2>4. 1 \in DOMAIN p.groups
    BY <1>2, <2>3
  <2> QED BY <2>4
<1>6. WellFormed(p)
  BY <1>1, <1>4, <1>5 DEF WellFormed
<1>7. SolutionShaped(p)
  <2>1. DomainMax(p) = n
    BY <1>1 DEF DomainMax, Caged
  <2>2. Len(p.solution) = n /\ \A r \in 1 .. n : Len(p.solution[r]) = n /\ \A c \in 1 .. n : p.solution[r][c] \in 1 .. n
    <3>1. p.solution \in [1 .. n -> [1 .. n -> 1 .. n]]
      BY <1>1 DEF Latin
    <3> QED BY <3>1
  <2>3. \A r, c \in 1 .. n : <<r - 1, c - 1>> \notin p.blocked
    BY <1>1
  <2> QED BY <1>1, <2>1, <2>2, <2>3 DEF SolutionShaped
<1>8. \A c \in p.given : Inside(c, p.size) /\ c \notin p.blocked
  BY <1>1 DEF Cells, Inside
<1>9. p.kind = "killer" => ~Unreachable(p)
  BY <1>1, CagingReach
<1> QED BY <1>1, <1>2, <1>4, <1>6, <1>7, <1>8, <1>9 DEF Sturdy

\* The rows and columns run over the cells.
LEMMA LinesAre ==
    ASSUME NEW n \in Nat \ {0}, NEW line \in Lines(n)
    PROVE  /\ line \in Seq(Cells(n)) /\ Len(line) = n /\ DOMAIN line = 1 .. n
           /\ \A i, j \in 1 .. n : line[i] = line[j] => i = j
           /\ \E i \in 0 .. n - 1 : \/ \A k \in 1 .. n : line[k] = <<i, k - 1>>
                                    \/ \A k \in 1 .. n : line[k] = <<k - 1, i>>
<1>1. PICK i \in 0 .. n - 1 : line = Row(n, i) \/ line = Column(n, i)
  BY DEF Lines
<1>2. CASE line = Row(n, i)
  <2>1. line = [k \in 1 .. n |-> <<i, k - 1>>]
    BY <1>2 DEF Row
  <2>2. \A k \in 1 .. n : k - 1 \in 0 .. n - 1
    OBVIOUS
  <2>3. line \in [1 .. n -> Cells(n)]
    BY <2>1, <2>2 DEF Cells
  <2>4. line \in Seq(Cells(n)) /\ Len(line) = n /\ DOMAIN line = 1 .. n
    BY <2>3, ListIs
  <2>5. \A k \in 1 .. n : line[k] = <<i, k - 1>>
    BY <2>1
  <2>6. \A a, b \in 1 .. n : line[a] = line[b] => a = b
    BY <2>5
  <2> QED BY <2>4, <2>5, <2>6
<1>3. CASE line = Column(n, i)
  <2>1. line = [k \in 1 .. n |-> <<k - 1, i>>]
    BY <1>3 DEF Column
  <2>2. \A k \in 1 .. n : k - 1 \in 0 .. n - 1
    OBVIOUS
  <2>3. line \in [1 .. n -> Cells(n)]
    BY <2>1, <2>2 DEF Cells
  <2>4. line \in Seq(Cells(n)) /\ Len(line) = n /\ DOMAIN line = 1 .. n
    BY <2>3, ListIs
  <2>5. \A k \in 1 .. n : line[k] = <<k - 1, i>>
    BY <2>1
  <2>6. \A a, b \in 1 .. n : line[a] = line[b] => a = b
    BY <2>5
  <2> QED BY <2>4, <2>5, <2>6
<1> QED BY <1>1, <1>2, <1>3

\* The lines of a Latin square and the labels of its cages hold of it.
LEMMA CagingIsSolved ==
    ASSUME NEW p, NEW n \in Nat \ {0}, NEW cages, Caging(p, n, cages)
    PROVE  CluesFillable(p) /\ Obeys(p, DeclaredFilling(p))
<1> DEFINE D == DeclaredFilling(p)
           L == p.solution
<1>1. /\ p.kind \in {"kenken", "killer"} /\ p.size = n /\ p.blocked = {}
      /\ p.given \subseteq Cells(n) /\ Latin(L, n) /\ Fillable(p) = Cells(n)
  BY CagingClaims DEF Caging
<1>2. \A c \in Cells(n) : Declared(p, c) = L[c[1] + 1][c[2] + 1] /\ Declared(p, c) \in 1 .. n
  <2> TAKE c \in Cells(n)
  <2>1. c[1] + 1 \in 1 .. n /\ c[2] + 1 \in 1 .. n
    BY DEF Cells
  <2>2. L \in [1 .. n -> [1 .. n -> 1 .. n]]
    BY <1>1 DEF Latin
  <2> QED BY <2>1, <2>2 DEF Declared
<1>3. ASSUME NEW g \in Range(p.groups)
      PROVE  \E i \in 1 .. Len(cages) : /\ Shaped(n, cages[i]) /\ g.cells = cages[i]
                                        /\ Truthful(g, cages[i], ValuesOf(L, cages[i]))
                                        /\ p.kind = "killer" => g.op = "+" /\ ~HasDuplicate(ValuesOf(L, cages[i]))
  <2>1. PICK i \in 1 .. Len(cages) : g = p.groups[i]
    <3>1. DOMAIN p.groups = 1 .. Len(cages)
      BY CagingClaims
    <3> QED BY <3>1 DEF Range
  <2> QED BY <2>1, CagingClaims DEF Caging, Tells
<1> HIDE DEF D, L
<1>4. ASSUME NEW r, NEW cage, Shaped(n, cage), r.cells = cage
      PROVE  Range(r.cells) \subseteq Fillable(p) /\ Shown(r, D) = ValuesOf(L, cage)
  <2>1. DOMAIN cage = 1 .. Len(cage) /\ \A k \in 1 .. Len(cage) : cage[k] \in Cells(n)
    BY <1>4 DEF Shaped
  <2>2. \A k \in DOMAIN r.cells : r.cells[k] \in Fillable(p)
    BY <1>1, <1>4, <2>1
  <2>3. Shown(r, D) = [k \in DOMAIN r.cells |-> Declared(p, r.cells[k])]
    BY <2>2, ShownIs DEF D
  <2>4. \A k \in DOMAIN cage : Declared(p, cage[k]) = L[cage[k][1] + 1][cage[k][2] + 1]
    BY <1>2, <2>1
  <2>5. Shown(r, D) = ValuesOf(L, cage)
    BY <1>4, <2>3, <2>4 DEF ValuesOf
  <2> QED BY <2>2, <2>5 DEF Range
<1> DEFINE Good(r) == /\ r.kind # "distinct" => Range(r.cells) \subseteq Fillable(p)
                      /\ RuleSatisfied(r, Shown(r, D))
<1>5. ASSUME NEW c \in p.given PROVE Good(SumOf(<<c>>, Declared(p, c)))
  <2>1. c \in Fillable(p) /\ Declared(p, c) \in Int
    BY <1>1, <1>2
  <2>2. Range(<<c>>) \subseteq Fillable(p)
    BY <2>1 DEF Range
  <2>3. SumOf(<<c>>, Declared(p, c)).cells = <<c>>
    BY DEF SumOf
  <2>4. RuleSatisfied(SumOf(<<c>>, Declared(p, c)), Shown(SumOf(<<c>>, Declared(p, c)), D))
    BY <2>1, PrintedHolds DEF D
  <2> QED BY <2>2, <2>3, <2>4
<1>6. ASSUME NEW line \in Lines(n) PROVE Good(Distinct(line))
  <2> DEFINE r == Distinct(line)
  <2>1. /\ r.cells = line /\ r.kind = "distinct" /\ DOMAIN line = 1 .. n
        /\ \A k \in 1 .. n : line[k] \in Cells(n)
    <3>1. line \in Seq(Cells(n)) /\ Len(line) = n /\ DOMAIN line = 1 .. n
      BY LinesAre
    <3> QED BY <3>1 DEF Distinct
  <2> HIDE DEF r
  <2>2. Shown(r, D) = [k \in 1 .. n |-> Declared(p, line[k])]
    <3>1. \A k \in DOMAIN r.cells : r.cells[k] \in Fillable(p)
      BY <1>1, <2>1
    <3> QED BY <2>1, <3>1, ShownIs DEF D
  <2>3. PICK i \in 0 .. n - 1 : \/ \A k \in 1 .. n : line[k] = <<i, k - 1>>
                                \/ \A k \in 1 .. n : line[k] = <<k - 1, i>>
    BY LinesAre
  <2>4. ~HasDuplicate(Shown(r, D))
    <3>1. \A r1, a, b \in 1 .. n : L[r1][a] = L[r1][b] => a = b
      BY <1>1 DEF Latin
    <3>2. \A c, a, b \in 1 .. n : L[a][c] = L[b][c] => a = b
      BY <1>1 DEF Latin
    <3>3. i + 1 \in 1 .. n
      OBVIOUS
    <3>4. \A k \in 1 .. n : Declared(p, line[k]) = L[line[k][1] + 1][line[k][2] + 1]
      BY <1>2, <2>1
    <3>5. CASE \A k \in 1 .. n : line[k] = <<i, k - 1>>
      <4>1. \A k \in 1 .. n : Declared(p, line[k]) = L[i + 1][k]
        BY <3>4, <3>5
      <4> QED BY <2>2, <3>1, <3>3, <4>1 DEF HasDuplicate
    <3>6. CASE \A k \in 1 .. n : line[k] = <<k - 1, i>>
      <4>1. \A k \in 1 .. n : Declared(p, line[k]) = L[k][i + 1]
        BY <3>4, <3>6
      <4> QED BY <2>2, <3>2, <3>3, <4>1 DEF HasDuplicate
    <3> QED BY <2>3, <3>5, <3>6
  <2> QED BY <2>1, <2>4 DEF RuleSatisfied, r
<1>7. ASSUME NEW g \in Range(p.groups), p.kind = "killer" PROVE Good(DistinctSum(g.cells, g.target))
  <2> DEFINE r == DistinctSum(g.cells, g.target)
  <2>1. PICK i \in 1 .. Len(cages) : /\ Shaped(n, cages[i]) /\ g.cells = cages[i]
                                    /\ Truthful(g, cages[i], ValuesOf(L, cages[i]))
                                    /\ g.op = "+" /\ ~HasDuplicate(ValuesOf(L, cages[i]))
    BY <1>3, <1>7
  <2>2. r.cells = cages[i] /\ r.kind = "distinctSum" /\ r.target = g.target
    BY <2>1 DEF DistinctSum
  <2>3. Total(ValuesOf(L, cages[i])) = g.target
    BY <2>1 DEF Truthful, RuleSatisfied, Arithmetic
  <2> HIDE DEF r
  <2>4. Range(r.cells) \subseteq Fillable(p) /\ Shown(r, D) = ValuesOf(L, cages[i])
    BY <1>4, <2>1, <2>2
  <2>5. RuleSatisfied(r, Shown(r, D))
    BY <2>1, <2>2, <2>3, <2>4 DEF RuleSatisfied
  <2> QED BY <2>4, <2>5 DEF r
<1>8. ASSUME NEW g \in Range(p.groups), p.kind = "kenken" PROVE Good(Arithmetic(g.cells, g.op, g.target))
  <2> DEFINE r == Arithmetic(g.cells, g.op, g.target)
  <2>1. PICK i \in 1 .. Len(cages) : /\ Shaped(n, cages[i]) /\ g.cells = cages[i]
                                    /\ Truthful(g, cages[i], ValuesOf(L, cages[i]))
    BY <1>3
  <2>2. r.cells = cages[i] /\ RuleSatisfied(r, ValuesOf(L, cages[i]))
    BY <2>1 DEF Truthful, Arithmetic
  <2> HIDE DEF r
  <2>4. Range(r.cells) \subseteq Fillable(p) /\ Shown(r, D) = ValuesOf(L, cages[i])
    BY <1>4, <2>1, <2>2
  <2> QED BY <2>2, <2>4 DEF r
<1>9. \A r \in Regions(p) : Good(r)
  <2> HIDE DEF Good
  <2>1. CASE p.kind = "killer"
    <3>1. Regions(p) = {SumOf(<<c>>, Declared(p, c)) : c \in p.given} \cup
                       ({Distinct(line) : line \in Lines(p.size)} \cup
                        {DistinctSum(g.cells, g.target) : g \in Range(p.groups)})
      BY <2>1 DEF Regions
    <3> QED BY <1>1, <1>5, <1>6, <1>7, <2>1, <3>1
  <2>2. CASE p.kind = "kenken"
    <3>1. Regions(p) = {SumOf(<<c>>, Declared(p, c)) : c \in p.given} \cup
                       ({Distinct(line) : line \in Lines(p.size)} \cup
                        {Arithmetic(g.cells, g.op, g.target) : g \in Range(p.groups)})
      BY <2>2 DEF Regions
    <3> QED BY <1>1, <1>5, <1>6, <1>8, <2>2, <3>1
  <2> QED BY <1>1, <2>1, <2>2
<1>10. CluesFillable(p)
  BY <1>9 DEF CluesFillable
<1>11. Obeys(p, D)
  BY <1>9 DEF Obeys, Shown
<1> QED BY <1>10, <1>11 DEF D

\* caged.ts: a caged board lies within itself, its cages part it, and
\* its square satisfies every label; only a KenKen sum can be out of the range that
\* the contract gives sums of different digits.
THEOREM CagedCandidatesAreSolved ==
    ASSUME NEW kind \in {"kenken", "killer"}, NEW seed \in Nat, NEW n \in 3 .. 6,
           cagedCandidate(kind, seed, n).kind # "declined"
    PROVE  LET p == cagedCandidate(kind, seed, n) IN Undoubted(p) /\ Solved(p)
<1> DEFINE L == latinSquare(seed, n)
           cages == cagePartition(mix64(seed), n)
           p == CagedBoard(kind, n, mix64(mix64(seed)), L, cages)
<1>1. n \in Nat \ {0} /\ mix64(seed) \in Nat /\ mix64(mix64(seed)) \in Nat
  <2>1. mix64(seed) \in Nat
    BY MixIs
  <2> QED BY <2>1, MixIs
<1>2. Latin(L, n) /\ Partition(n, cages)
  BY <1>1, LatinSquaresAreLatin, CagesPartitionTheBoard
<1>3. /\ cagedCandidate(kind, seed, n) = p
      /\ ~(kind = "killer" /\ \E cage \in Range(cages) : HasDuplicate(ValuesOf(L, cage)))
  <2>1. Declined("repeated_digit_in_cage").kind = "declined"
    BY DEF Declined
  <2> QED BY <2>1 DEF cagedCandidate
<1> HIDE DEF L, cages
<1>4. kind = "killer" => \A i \in 1 .. Len(cages) : ~HasDuplicate(ValuesOf(L, cages[i]))
  <2>1. DOMAIN cages = 1 .. Len(cages)
    BY <1>2 DEF Partition
  <2> QED BY <1>3, <2>1 DEF Range
<1>5. Caging(p, n, cages)
  BY <1>1, <1>2, <1>4, CagedBoardIs
<1> HIDE DEF p
<1>6. Sturdy(p) /\ p.kind \in {"kenken", "killer"}
  BY <1>5, CagingIsSturdy
<1>7. Undoubted(p)
  BY <1>6, SturdyIsUndoubted
<1>8. Solved(p)
  BY <1>1, <1>5, CagingIsSolved DEF Solved
<1> QED BY <1>3, <1>7, <1>8

----------------------------------------------------------------------------
\* Magic squares.

\* A square of different values that prints some and tells its own sums.
Squared(p, n) ==
    /\ p.kind = "magicSquare" /\ p.size = n /\ p.blocked = {} /\ p.given \subseteq Cells(n)
    /\ p.solution \in [1 .. n -> [1 .. n -> 1 .. n * n]]
    /\ \A a, b, c, d \in 1 .. n : p.solution[a][b] = p.solution[c][d] => a = c /\ b = d
    /\ p.targets = <<[r \in 1 .. n |-> Total(p.solution[r])],
                     [c \in 1 .. n |-> Total([r \in 1 .. n |-> p.solution[r][c]])]>>

\* The larger of one and a count that is between none and a bound above one.
LEMMA AtLeastOne ==
    ASSUME NEW n \in Nat \ {0}, NEW x \in 0 .. n
    PROVE  Max({1, x}) \in 1 .. n
<1>1. CASE x = 0
  <2>1. Max({1, 0}) = 1
    BY DEF Max
  <2> QED BY <1>1, <2>1
<1>2. CASE x # 0
  <2>1. {1, x} \in SUBSET (1 .. n) /\ {1, x} # {}
    BY <1>2
  <2>2. Max({1, x}) \in {1, x}
    BY <2>1, LastIsIn
  <2> QED BY <2>1, <2>2
<1> QED BY <1>1, <1>2

\* magic-square.ts: what is not declined is such a board, of size 3 to 5.
LEMMA SquaredIs ==
    ASSUME NEW seed \in Nat, NEW n \in Nat, magicSquareCandidate(seed, n).kind # "declined"
    PROVE  n \in 3 .. 5 /\ Squared(magicSquareCandidate(seed, n), n)
<1> DEFINE values == Shuffled(seed, 0, n * n)
           solution == [r \in 1 .. n |-> [c \in 1 .. n |-> values.order[(r - 1) * n + c] + 1]]
           wanted == Max({1, Rounded(n * n, IF n <= 3 THEN 30 ELSE 60)})
           given == PickFrom(Shuffled(seed, values.at, n * n).order, wanted, LAMBDA i : CellAt(n, i))
           p == magicSquareCandidate(seed, n)
<1>1. n \in 3 .. 5 /\ p = [kind |-> "magicSquare", size |-> n, blocked |-> {}, given |-> given,
          solution |-> solution,
          targets |-> <<[r \in 1 .. n |-> Total(solution[r])],
                        [c \in 1 .. n |-> Total([r \in 1 .. n |-> solution[r][c]])]>>]
  <2>1. Declined("size_below_the_format").kind = "declined" /\ Declined("size_not_verifiable").kind = "declined"
    BY DEF Declined
  <2>2. ~(n < 3) /\ ~(n > LargestVerifiableSize)
    BY <2>1 DEF magicSquareCandidate
  <2>3. n \in 3 .. 5
    BY <2>2 DEF LargestVerifiableSize
  <2> QED BY <2>2, <2>3 DEF magicSquareCandidate
<1> DEFINE m == n * n
<1>2. m \in Nat \ {0} /\ n \in Nat \ {0}
      /\ \A i \in 0 .. m - 1 : CellAt(n, i) \in Cells(n)
  BY <1>1, CellAtIs
<1>3. /\ values.order \in [1 .. m -> 0 .. m - 1] /\ values.at \in Nat
      /\ \A i, j \in 1 .. m : values.order[i] = values.order[j] => i = j
  <2> HIDE DEF m
  <2> QED BY <1>2, ShufflesArePermutations DEF m
<1>4. wanted \in 1 .. m
  <2>1. Rounded(n * n, IF n <= 3 THEN 30 ELSE 60) \in 0 .. n * n
    <3>1. CASE n = 3
      BY <3>1 DEF Rounded
    <3>2. CASE n = 4
      BY <3>2 DEF Rounded
    <3>3. CASE n = 5
      BY <3>3 DEF Rounded
    <3> QED BY <1>1, <3>1, <3>2, <3>3
  <2> QED BY <1>2, <2>1, AtLeastOne
<1>5. given \subseteq Cells(n)
  <2> DEFINE order == Shuffled(seed, values.at, n * n).order
  <2>1. order \in [1 .. m -> 0 .. m - 1]
    <3> DEFINE at == values.at
    <3>1. at \in Nat
      BY <1>3
    <3> HIDE DEF at, m
    <3>2. Shuffled(seed, at, m).order \in [1 .. m -> 0 .. m - 1]
      BY <1>2, <3>1, ShufflesArePermutations
    <3> QED BY <3>2 DEF at, m
  <2> HIDE DEF values
  <2>2. given = {CellAt(n, order[i]) : i \in 1 .. wanted}
    BY DEF PickFrom
  <2> HIDE DEF order, wanted, given
  <2>3. \A i \in 1 .. wanted : order[i] \in 0 .. m - 1
    <3>1. \A i \in 1 .. wanted : i \in 1 .. m
      <4> HIDE DEF m
      <4> QED BY <1>2, <1>4
    <3> HIDE DEF m
    <3> QED BY <2>1, <3>1
  <2> HIDE DEF m
  <2> QED BY <1>2, <2>2, <2>3
<1>6. \A r, c \in 1 .. n : (r - 1) * n + c \in 1 .. m
  <2>1. CASE n = 3
    BY <2>1
  <2>2. CASE n = 4
    BY <2>2
  <2>3. CASE n = 5
    BY <2>3
  <2> QED BY <1>1, <2>1, <2>2, <2>3
<1>7. \A a, b, c, d \in 1 .. n : (a - 1) * n + b = (c - 1) * n + d => a = c /\ b = d
  <2>1. CASE n = 3
    BY <2>1
  <2>2. CASE n = 4
    BY <2>2
  <2>3. CASE n = 5
    BY <2>3
  <2> QED BY <1>1, <2>1, <2>2, <2>3
<1>8. \A r, c \in 1 .. n : solution[r][c] = values.order[(r - 1) * n + c] + 1
  OBVIOUS
<1>9. solution \in [1 .. n -> [1 .. n -> 1 .. m]]
  <2>1. \A r, c \in 1 .. n : values.order[(r - 1) * n + c] \in 0 .. m - 1
    <3> HIDE DEF m, values
    <3> QED BY <1>3, <1>6
  <2>2. \A x \in 0 .. m - 1 : x + 1 \in 1 .. m
    <3> HIDE DEF m
    <3> QED BY <1>2
  <2> HIDE DEF m, values
  <2> QED BY <2>1, <2>2
<1>10. \A a, b, c, d \in 1 .. n : solution[a][b] = solution[c][d] => a = c /\ b = d
  <2> TAKE a, b, c, d \in 1 .. n
  <2> HAVE solution[a][b] = solution[c][d]
  <2> DEFINE i == (a - 1) * n + b
             j == (c - 1) * n + d
  <2>1. i \in 1 .. m /\ j \in 1 .. m
    BY <1>6
  <2>2. values.order[i] + 1 = values.order[j] + 1
    BY <1>8
  <2>3. values.order[i] \in Nat /\ values.order[j] \in Nat
    <3> HIDE DEF i, j, m, values
    <3> QED BY <1>2, <1>3, <2>1
  <2>4. values.order[i] = values.order[j]
    <3> HIDE DEF i, j, values
    <3> QED BY <2>2, <2>3
  <2>5. i = j
    <3> HIDE DEF i, j, values, m
    <3> QED BY <1>3, <2>1, <2>4
  <2> QED BY <1>7, <2>5
<1> HIDE DEF solution, given, p
<1>11. Squared(p, n)
  BY <1>1, <1>5, <1>9, <1>10 DEF Squared
<1> QED BY <1>1, <1>11 DEF p

\* Nothing is wrong with it.
LEMMA SquaredIsSturdy ==
    ASSUME NEW p, NEW n \in 3 .. 5, Squared(p, n)
    PROVE  Sturdy(p)
<1> DEFINE rows == [r \in 1 .. n |-> Total(p.solution[r])]
           columns == [c \in 1 .. n |-> Total([r \in 1 .. n |-> p.solution[r][c]])]
<1>1. /\ p.kind = "magicSquare" /\ p.size = n /\ p.blocked = {} /\ p.given \subseteq Cells(n)
      /\ p.solution \in [1 .. n -> [1 .. n -> 1 .. n * n]] /\ p.targets = <<rows, columns>>
  BY DEF Squared
<1>2. \A k \in 1 .. n : rows[k] >= 1 /\ columns[k] >= 1 /\ rows[k] \in Nat /\ columns[k] \in Nat
  <2> TAKE k \in 1 .. n
  <2>0. n * n \in Nat /\ 1 .. (n * n) \subseteq Nat \ {0}
    OBVIOUS
  <2>1. ASSUME NEW v, DOMAIN v = 1 .. n, \A i \in 1 .. n : v[i] \in 1 .. (n * n)
        PROVE  Total(v) >= 1 /\ Total(v) \in Nat
    <3>1. \A i \in 1 .. n : v[i] \in Nat /\ v[i] \in Nat \ {0}
      BY <2>0, <2>1
    <3> QED BY <2>1, <3>1, TotalNat
  <2>2. DOMAIN p.solution[k] = 1 .. n /\ \A i \in 1 .. n : p.solution[k][i] \in 1 .. (n * n)
    BY <1>1
  <2>3. rows[k] >= 1 /\ rows[k] \in Nat
    BY <2>1, <2>2
  <2> DEFINE column == [r \in 1 .. n |-> p.solution[r][k]]
  <2>4. DOMAIN column = 1 .. n /\ \A i \in 1 .. n : column[i] \in 1 .. (n * n)
    <3>1. \A i \in 1 .. n : column[i] = p.solution[i][k]
      OBVIOUS
    <3>2. \A i \in 1 .. n : p.solution[i][k] \in 1 .. (n * n)
      <4> DEFINE m == n * n
      <4>1. p.solution \in [1 .. n -> [1 .. n -> 1 .. m]]
        BY <1>1
      <4> HIDE DEF m
      <4>2. \A i \in 1 .. n : p.solution[i][k] \in 1 .. m
        BY <4>1
      <4> QED BY <4>2 DEF m
    <3> QED BY <3>1, <3>2
  <2>5. Total(column) >= 1 /\ Total(column) \in Nat
    <3> HIDE DEF column
    <3> QED BY <2>1, <2>4
  <2> QED BY <2>3, <2>5
<1>3. /\ Len(rows) = n /\ Len(columns) = n /\ DOMAIN rows = 1 .. n /\ DOMAIN columns = 1 .. n
  OBVIOUS
<1> HIDE DEF rows, columns
<1>4. Range(p.targets) = {rows, columns}
  <2>1. DOMAIN <<rows, columns>> = {1, 2} /\ <<rows, columns>>[1] = rows /\ <<rows, columns>>[2] = columns
    OBVIOUS
  <2> QED BY <1>1, <2>1 DEF Range
<1>5. WellFormed(p)
  <2>1. \A side \in Range(p.targets) : Len(side) \in 3 .. 6 /\ \A t \in Range(side) : t >= 1
    <3>1. \A k \in 1 .. n : rows[k] >= 1 /\ columns[k] >= 1
      BY <1>2
    <3>2. (\A t \in Range(rows) : t >= 1) /\ (\A t \in Range(columns) : t >= 1)
      BY <1>3, <3>1 DEF Range
    <3>3. Len(rows) \in 3 .. 6 /\ Len(columns) \in 3 .. 6
      BY <1>3
    <3>4. \A side : side \in Range(p.targets) <=> side = rows \/ side = columns
      BY <1>4
    <3> TAKE side \in Range(p.targets)
    <3>5. CASE side = rows
      BY <3>2, <3>3, <3>5
    <3>6. CASE side = columns
      BY <3>2, <3>3, <3>6
    <3> QED BY <3>4, <3>5, <3>6
  <2> QED BY <1>1, <2>1 DEF WellFormed
<1>6. SolutionShaped(p)
  <2>1. DomainMax(p) = n * n
    BY <1>1 DEF DomainMax, Caged
  <2>2. Len(p.solution) = n /\ \A r \in 1 .. n : Len(p.solution[r]) = n /\ \A c \in 1 .. n : p.solution[r][c] \in 1 .. n * n
    <3> DEFINE m == n * n
    <3>1. p.solution \in [1 .. n -> [1 .. n -> 1 .. m]]
      BY <1>1
    <3> HIDE DEF m
    <3>2. Len(p.solution) = n /\ \A r \in 1 .. n : Len(p.solution[r]) = n /\ \A c \in 1 .. n : p.solution[r][c] \in 1 .. m
      BY <3>1
    <3> QED BY <3>2 DEF m
  <2>3. \A r, c \in 1 .. n : <<r - 1, c - 1>> \notin p.blocked
    BY <1>1
  <2>4. \A side \in Range(p.targets) : Len(side) = n
    BY <1>3, <1>4
  <2> QED BY <1>1, <2>1, <2>2, <2>3, <2>4 DEF SolutionShaped
<1>7. \A c \in p.given : Inside(c, p.size) /\ c \notin p.blocked
  BY <1>1 DEF Cells, Inside
<1> QED BY <1>1, <1>5, <1>6, <1>7 DEF Sturdy

\* Its declared solution satisfies its clues.
LEMMA SquaredIsSolved ==
    ASSUME NEW p, NEW n \in 3 .. 5, Squared(p, n)
    PROVE  CluesFillable(p) /\ Obeys(p, DeclaredFilling(p))
<1> DEFINE D == DeclaredFilling(p)
           L == p.solution
           rows == [r \in 1 .. n |-> Total(L[r])]
           columns == [c \in 1 .. n |-> Total([r \in 1 .. n |-> L[r][c]])]
<1>1. /\ n \in Nat \ {0} /\ p.kind = "magicSquare" /\ p.size = n /\ p.blocked = {} /\ p.given \subseteq Cells(n)
      /\ L \in [1 .. n -> [1 .. n -> 1 .. n * n]] /\ p.targets = <<rows, columns>>
      /\ \A a, b, c, d \in 1 .. n : L[a][b] = L[c][d] => a = c /\ b = d
  BY DEF Squared
<1>2. /\ Fillable(p) = Cells(n) /\ FillableCells(p) \in Seq(Cells(n)) /\ IsInjective(FillableCells(p))
  <2>1. /\ FillableCells(p) \in Seq(Cells(p.size) \ p.blocked) /\ IsInjective(FillableCells(p))
        /\ Fillable(p) = Cells(p.size) \ p.blocked
    BY <1>1, FillableFacts
  <2> QED BY <1>1, <2>1
<1>3. \A c \in Cells(n) : /\ c[1] + 1 \in 1 .. n /\ c[2] + 1 \in 1 .. n
                          /\ Declared(p, c) = L[c[1] + 1][c[2] + 1] /\ Declared(p, c) \in Int
  <2> TAKE c \in Cells(n)
  <2>1. c[1] + 1 \in 1 .. n /\ c[2] + 1 \in 1 .. n
    BY DEF Cells
  <2>2. L[c[1] + 1][c[2] + 1] \in 1 .. n * n
    <3> DEFINE i == c[1] + 1
               j == c[2] + 1
               X == 1 .. n * n
    <3>1. L \in [1 .. n -> [1 .. n -> X]] /\ i \in 1 .. n /\ j \in 1 .. n
      BY <1>1, <2>1
    <3> HIDE DEF L, i, j, X
    <3>2. L[i][j] \in X
      BY <3>1
    <3> QED BY <3>2 DEF i, j, X
  <2>3. L[c[1] + 1][c[2] + 1] \in Int
    <3> HIDE DEF L
    <3> QED BY <2>2
  <2> QED BY <2>1, <2>3 DEF Declared
<1>4. \A c, d \in Cells(n) : Declared(p, c) = Declared(p, d) => c = d
  <2> TAKE c, d \in Cells(n)
  <2> HAVE Declared(p, c) = Declared(p, d)
  <2> DEFINE a == c[1] + 1
             b == c[2] + 1
             e == d[1] + 1
             f == d[2] + 1
  <2>1. a \in 1 .. n /\ b \in 1 .. n /\ e \in 1 .. n /\ f \in 1 .. n /\ L[a][b] = L[e][f]
    BY <1>3
  <2>2. a = e /\ b = f
    <3> HIDE DEF a, b, e, f, L
    <3> QED BY <1>1, <2>1
  <2> QED BY <2>2 DEF Cells
<1>5. p.targets[1] = rows /\ p.targets[2] = columns
  BY <1>1
<1> DEFINE Good(r) == /\ r.kind # "distinct" => Range(r.cells) \subseteq Fillable(p)
                      /\ RuleSatisfied(r, Shown(r, D))
<1>6. ASSUME NEW c \in p.given PROVE Good(SumOf(<<c>>, Declared(p, c)))
  <2>1. c \in Fillable(p) /\ Declared(p, c) \in Int
    BY <1>1, <1>2, <1>3
  <2>2. Range(<<c>>) \subseteq Fillable(p)
    BY <2>1 DEF Range
  <2>3. SumOf(<<c>>, Declared(p, c)).cells = <<c>>
    BY DEF SumOf
  <2>4. RuleSatisfied(SumOf(<<c>>, Declared(p, c)), Shown(SumOf(<<c>>, Declared(p, c)), D))
    BY <2>1, PrintedHolds DEF D
  <2> QED BY <2>2, <2>3, <2>4
<1>7. Good(Distinct(FillableCells(p)))
  <2> DEFINE r == Distinct(FillableCells(p))
             s == FillableCells(p)
  <2>1. r.cells = s /\ r.kind = "distinct"
    BY DEF Distinct
  <2>2. \A k \in DOMAIN s : s[k] \in Cells(n)
    BY <1>2
  <2> HIDE DEF r, s
  <2>3. Shown(r, D) = [k \in DOMAIN s |-> Declared(p, s[k])]
    <3>1. \A k \in DOMAIN r.cells : r.cells[k] \in Fillable(p)
      BY <1>2, <2>1, <2>2
    <3> QED BY <2>1, <3>1, ShownIs DEF D
  <2>4. \A i, j \in DOMAIN s : s[i] = s[j] => i = j
    BY <1>2 DEF s, IsInjective
  <2>5. ~HasDuplicate(Shown(r, D))
    BY <1>4, <2>2, <2>3, <2>4 DEF HasDuplicate
  <2> QED BY <2>1, <2>5 DEF RuleSatisfied, r
<1>8. ASSUME NEW line \in Lines(n), NEW v, DOMAIN v = 1 .. n, \A k \in 1 .. n : v[k] = Declared(p, line[k]),
             v = [k \in 1 .. n |-> v[k]]
      PROVE  Good(SumOf(line, Total(v)))
  <2> DEFINE r == SumOf(line, Total(v))
  <2>1. /\ r.cells = line /\ r.kind = "sum" /\ r.target = Total(v) /\ DOMAIN line = 1 .. n
        /\ \A k \in 1 .. n : line[k] \in Cells(n)
    <3>1. line \in Seq(Cells(n)) /\ Len(line) = n /\ DOMAIN line = 1 .. n
      BY <1>1, LinesAre
    <3> QED BY <3>1 DEF SumOf
  <2> HIDE DEF r
  <2>2. Shown(r, D) = [k \in 1 .. n |-> Declared(p, line[k])]
    <3>1. \A k \in DOMAIN r.cells : r.cells[k] \in Fillable(p)
      BY <1>2, <2>1
    <3> QED BY <2>1, <3>1, ShownIs DEF D
  <2>3. Shown(r, D) = v
    <3>1. [k \in 1 .. n |-> Declared(p, line[k])] = [k \in 1 .. n |-> v[k]]
      BY <1>8
    <3> QED BY <1>8, <2>2, <3>1
  <2>4. RuleSatisfied(r, Shown(r, D))
    BY <2>1, <2>3 DEF RuleSatisfied
  <2>5. Range(r.cells) \subseteq Fillable(p)
    BY <1>2, <2>1 DEF Range
  <2> QED BY <2>4, <2>5 DEF r
<1>9. ASSUME NEW i \in 0 .. p.size - 1
      PROVE  /\ Good(SumOf(Row(p.size, i), p.targets[1][i + 1]))
             /\ Good(SumOf(Column(p.size, i), p.targets[2][i + 1]))
  <2>1. i + 1 \in 1 .. n /\ Row(n, i) \in Lines(n) /\ Column(n, i) \in Lines(n) /\ p.size = n
    BY <1>1 DEF Lines
  <2> DEFINE v == L[i + 1]
             w == [r \in 1 .. n |-> L[r][i + 1]]
  <2>2. p.targets[1][i + 1] = Total(v) /\ p.targets[2][i + 1] = Total(w)
    BY <1>5, <2>1
  <2>3. DOMAIN v = 1 .. n /\ v = [k \in 1 .. n |-> v[k]] /\ DOMAIN w = 1 .. n /\ w = [k \in 1 .. n |-> w[k]]
    BY <1>1, <2>1
  <2>4. \A k \in 1 .. n : v[k] = Declared(p, Row(n, i)[k]) /\ w[k] = Declared(p, Column(n, i)[k])
    BY <2>1 DEF Row, Column, Declared
  <2> HIDE DEF v, w, Good
  <2> QED BY <1>8, <2>1, <2>2, <2>3, <2>4
<1>10. \A r \in Regions(p) : Good(r)
  <2> HIDE DEF Good
  <2>1. Regions(p) = {SumOf(<<c>>, Declared(p, c)) : c \in p.given} \cup
                     ({Distinct(FillableCells(p))} \cup
                      {SumOf(Row(p.size, i), p.targets[1][i + 1]) : i \in 0 .. p.size - 1} \cup
                      {SumOf(Column(p.size, i), p.targets[2][i + 1]) : i \in 0 .. p.size - 1})
    BY <1>1 DEF Regions
  <2> QED BY <1>6, <1>7, <1>9, <2>1
<1>11. CluesFillable(p)
  BY <1>10 DEF CluesFillable
<1>12. Obeys(p, D)
  <2> HIDE DEF D
  <2> QED BY <1>10 DEF Obeys, Shown
<1> QED BY <1>11, <1>12 DEF D

\* magic-square.ts: nothing is wrong with a magic square that is not declined, and
\* the square it declares adds up to the targets it prints.
THEOREM MagicSquareCandidatesAreSolved ==
    ASSUME NEW seed \in Nat, NEW n \in Nat, magicSquareCandidate(seed, n).kind # "declined"
    PROVE  LET p == magicSquareCandidate(seed, n) IN Undoubted(p) /\ Solved(p)
<1> DEFINE p == magicSquareCandidate(seed, n)
<1>1. n \in 3 .. 5 /\ Squared(p, n)
  BY SquaredIs
<1> HIDE DEF p
<1>2. Undoubted(p)
  <2>1. Sturdy(p) /\ p.kind = "magicSquare"
    BY <1>1, SquaredIsSturdy DEF Squared
  <2> QED BY <2>1, SturdyIsUndoubted
<1>3. Solved(p)
  BY <1>1, SquaredIsSolved DEF Solved
<1> QED BY <1>2, <1>3 DEF p

----------------------------------------------------------------------------
\* Kakuro: the runs.

\* A set written out in some order.
LEMMA WrittenIs ==
    ASSUME NEW S, IsFiniteSet(S)
    PROVE  LET list == SetToSeq(S)
           IN  /\ list \in Seq(S) /\ Len(list) \in Nat /\ DOMAIN list = 1 .. Len(list)
               /\ Range(list) = S
<1> DEFINE k == Cardinality(S)
           list == SetToSeq(S)
<1>1. k \in Nat /\ ExistsBijection(1 .. k, S)
  BY FS_CardinalityType
<1>2. \E f \in [1 .. k -> S] : IsInjective(f)
  BY <1>1 DEF ExistsBijection, Bijection, Injection
<1>3. list \in [1 .. k -> S] /\ IsInjective(list)
  BY <1>2 DEF SetToSeq
<1> HIDE DEF list
<1>4. list \in Seq(S) /\ Len(list) = k /\ DOMAIN list = 1 .. k
  <2> HIDE DEF k
  <2> QED BY <1>1, <1>3, ListIs
<1>5. list \in Injection(1 .. k, S)
  BY <1>3 DEF Injection
<1>6. Cardinality(1 .. k) = k
  <2>1. 1 \in Int /\ k \in Int
    BY <1>1
  <2> HIDE DEF k
  <2>2. Cardinality(1 .. k) = IF 1 > k THEN 0 ELSE k - 1 + 1
    BY <2>1, FS_Interval
  <2> QED BY <1>1, <2>2
<1>7. list \in Surjection(1 .. k, S)
  <2> DEFINE T == 1 .. k
  <2>1. list \in Injection(T, S) /\ Cardinality(T) = Cardinality(S)
    BY <1>5, <1>6
  <2> HIDE DEF T, k
  <2>2. list \in Surjection(T, S)
    BY <2>1, FS_Injection
  <2> QED BY <2>2 DEF T
<1>8. Range(list) = S
  BY <1>3, <1>4, <1>7 DEF Surjection, Range
<1> QED BY <1>1, <1>4, <1>8 DEF list

\* A run is two or more open cells of a line, each once.
Runs(n, blocked) ==
    {run \in Seq(Cells(n) \ blocked) :
        /\ Len(run) \in 2 .. n /\ DOMAIN run = 1 .. Len(run)
        /\ \A i, j \in 1 .. Len(run) : run[i] = run[j] => i = j
        /\ \E line \in Lines(n) : Range(run) \subseteq Range(line)}

\* The stretches of a line are runs.
LEMMA StretchesAre ==
    ASSUME NEW n \in Nat \ {0}, NEW line \in Lines(n), NEW blocked
    PROVE  Stretches(line, blocked) \subseteq Runs(n, blocked)
<1>1. /\ line \in Seq(Cells(n)) /\ Len(line) = n /\ DOMAIN line = 1 .. n
      /\ \A i, j \in 1 .. n : line[i] = line[j] => i = j
  BY LinesAre
<1> SUFFICES ASSUME NEW run \in Stretches(line, blocked)
             PROVE  run \in Runs(n, blocked)
  OBVIOUS
<1>0. PICK e \in (1 .. n) \X (1 .. n) : /\ run = SubSeq(line, e[1], e[2]) /\ e[1] < e[2]
                                        /\ \A k \in e[1] .. e[2] : line[k] \notin blocked
  <2> DEFINE open(i, j) == \A k \in i .. j : line[k] \notin blocked
             good(e) == /\ e[1] < e[2] /\ open(e[1], e[2])
                        /\ e[1] = 1 \/ line[e[1] - 1] \in blocked
                        /\ e[2] = n \/ line[e[2] + 1] \in blocked
             ends == {e \in (1 .. n) \X (1 .. n) : good(e)}
  <2>1. Stretches(line, blocked) = {SubSeq(line, e[1], e[2]) : e \in ends}
    BY <1>1 DEF Stretches
  <2>2. \A e \in ends : e \in (1 .. n) \X (1 .. n) /\ e[1] < e[2] /\ open(e[1], e[2])
    OBVIOUS
  <2> HIDE DEF ends
  <2> QED BY <2>1, <2>2
<1> DEFINE a == e[1]
           b == e[2]
<1>10. a \in 1 .. n /\ b \in 1 .. n /\ a < b /\ run = SubSeq(line, a, b) /\ \A k \in a .. b : line[k] \notin blocked
  BY <1>0
<1> HIDE DEF a, b
<1> DEFINE k == b - a + 1
<1>2. k \in 2 .. n /\ k \in Nat
  BY <1>10
<1>3. \A i \in 1 .. k : a + i - 1 \in a .. b /\ a + i - 1 \in 1 .. n
  BY <1>10
<1>4. run = [i \in 1 .. k |-> line[a + i - 1]]
  BY <1>1, <1>10
<1>5. \A i \in 1 .. k : line[a + i - 1] \in Cells(n) \ blocked
  BY <1>1, <1>3, <1>10
<1>6. run \in [1 .. k -> Cells(n) \ blocked]
  <2> HIDE DEF k
  <2> QED BY <1>4, <1>5
<1>7. run \in Seq(Cells(n) \ blocked) /\ Len(run) = k /\ DOMAIN run = 1 .. k
  <2> HIDE DEF k
  <2> QED BY <1>2, <1>6, ListIs
<1>8. \A i, j \in 1 .. k : run[i] = run[j] => i = j
  <2> TAKE i, j \in 1 .. k
  <2> HAVE run[i] = run[j]
  <2>1. line[a + i - 1] = line[a + j - 1]
    BY <1>4
  <2>2. a + i - 1 = a + j - 1
    BY <1>1, <1>3, <2>1
  <2> QED BY <1>10, <2>2
<1> HIDE DEF k
<1>9. Range(run) \subseteq Range(line)
  BY <1>1, <1>3, <1>4, <1>7 DEF Range
<1> QED BY <1>2, <1>7, <1>8, <1>9 DEF Runs

\* So are the maximal runs, and there are finitely many.
LEMMA RunsAre ==
    ASSUME NEW n \in Nat \ {0}, NEW blocked
    PROVE  maximalRuns(n, blocked) \subseteq Runs(n, blocked) /\ IsFiniteSet(maximalRuns(n, blocked))
<1>1. maximalRuns(n, blocked) \subseteq Runs(n, blocked)
  BY StretchesAre DEF maximalRuns
<1> DEFINE ends == (1 .. n) \X (1 .. n)
           X == Lines(n) \X ends
           cut == [x \in X |-> SubSeq(x[1], x[2][1], x[2][2])]
           T == {cut[x] : x \in X}
<1>2. IsFiniteSet(X)
  <2>1. IsFiniteSet(0 .. n - 1) /\ IsFiniteSet(1 .. n)
    <3>1. 0 \in Int /\ 1 \in Int /\ n \in Int /\ n - 1 \in Int
      OBVIOUS
    <3> QED BY <3>1, FS_Interval
  <2>2. IsFiniteSet(ends)
    BY <2>1, FS_Product
  <2>3. IsFiniteSet(Lines(n))
    <3> DEFINE R == [i \in 0 .. n - 1 |-> Row(n, i)]
               C == [i \in 0 .. n - 1 |-> Column(n, i)]
               I == 0 .. n - 1
    <3>1. ASSUME NEW g, DOMAIN g = I
          PROVE  IsFiniteSet({g[i] : i \in I})
      <4> HIDE DEF I
      <4>0. IsFiniteSet(I)
        BY <2>1 DEF I
      <4>1. [i \in I |-> g[i]] \in Surjection(I, {g[i] : i \in I})
        BY DEF Surjection
      <4> QED BY <4>0, <4>1, FS_Surjection
    <3>2. IsFiniteSet({R[i] : i \in I}) /\ IsFiniteSet({C[i] : i \in I})
      <4>1. DOMAIN R = I /\ DOMAIN C = I
        OBVIOUS
      <4> HIDE DEF R, C, I
      <4> QED BY <3>1, <4>1
    <3>3. Lines(n) = {R[i] : i \in I} \cup {C[i] : i \in I}
      BY DEF Lines
    <3> HIDE DEF R, C, I
    <3> QED BY <3>2, <3>3, FS_Union
  <2> HIDE DEF ends
  <2> QED BY <2>2, <2>3, FS_Product
<1>3. IsFiniteSet(T)
  <2>1. cut \in Surjection(X, T)
    <3> HIDE DEF X
    <3> QED BY DEF Surjection
  <2> HIDE DEF X, T, cut
  <2> QED BY <1>2, <2>1, FS_Surjection
<1>4. maximalRuns(n, blocked) \subseteq T
  <2> SUFFICES ASSUME NEW line \in Lines(n), NEW run \in Stretches(line, blocked) PROVE run \in T
    BY DEF maximalRuns
  <2>1. Len(line) = n
    BY LinesAre
  <2>2. PICK e \in ends : run = SubSeq(line, e[1], e[2])
    BY <2>1 DEF Stretches
  <2> HIDE DEF ends
  <2>3. <<line, e>> \in X /\ cut[<<line, e>>] = run
    BY <2>2
  <2> HIDE DEF X, cut
  <2> QED BY <2>3
<1>5. IsFiniteSet(maximalRuns(n, blocked))
  <2> HIDE DEF T
  <2> QED BY <1>3, <1>4, FS_Subset
<1> QED BY <1>1, <1>5

----------------------------------------------------------------------------
\* Kakuro: the digits.

Digits == 1 .. HighestDigit

\* All the digits, in some order.
Orders == {order \in [1 .. HighestDigit -> Digits] : \A d \in Digits : \E k \in 1 .. HighestDigit : order[k] = d}

\* No run shows a digit twice among the cells that are filled.
Sane(open, runs, grid) ==
    \A i, j \in DOMAIN grid, run \in runs :
        ({open[i], open[j]} \subseteq Range(run) /\ grid[i] = grid[j]) => i = j

\* What may come of a grid: nothing, or all of it filled, and as sanely.
Outcomes(open) == {<<>>} \cup [1 .. Len(open) -> Digits]
Answers(open, runs, grid) == {d \in Outcomes(open) : Sane(open, runs, grid) => d = <<>> \/ Sane(open, runs, d)}
Deepers(open, runs, left) ==
    {g \in [[1 .. Len(open) - left -> Digits] -> Outcomes(open)] :
        \A grid \in [1 .. Len(open) - left -> Digits] : g[grid] \in Answers(open, runs, grid)}

\* A digit that clashes with none before it keeps the grid sane.
LEMMA SaneAppend ==
    ASSUME NEW open, NEW runs, NEW n \in Nat, NEW grid \in [1 .. n -> Digits], NEW value \in Digits,
           ~Clashes(open, runs, grid, value)
    PROVE  /\ Append(grid, value) \in [1 .. n + 1 -> Digits]
           /\ Sane(open, runs, grid) => Sane(open, runs, Append(grid, value))
<1>1. grid \in Seq(Digits) /\ Len(grid) = n /\ DOMAIN grid = 1 .. n
  BY ListIs
<1> DEFINE next == Append(grid, value)
<1>2. /\ next \in Seq(Digits) /\ Len(next) = n + 1 /\ next[n + 1] = value
      /\ \A i \in 1 .. n : next[i] = grid[i]
  BY <1>1
<1> HIDE DEF next
<1>3. DOMAIN next = 1 .. n + 1 /\ next \in [1 .. n + 1 -> Digits]
  BY <1>2
<1>4. \A i \in 1 .. n + 1 : i = n + 1 \/ i \in 1 .. n
  OBVIOUS
<1>5. \A run \in runs, i \in 1 .. n : {open[n + 1], open[i]} \subseteq Range(run) => grid[i] # value
  BY <1>1 DEF Clashes
<1>6. ASSUME Sane(open, runs, grid), NEW i \in 1 .. n + 1, NEW j \in 1 .. n + 1, NEW run \in runs,
             {open[i], open[j]} \subseteq Range(run), next[i] = next[j]
      PROVE  i = j
  <2>1. CASE i \in 1 .. n /\ j \in 1 .. n
    <3>1. grid[i] = grid[j] /\ i \in DOMAIN grid /\ j \in DOMAIN grid
      BY <1>1, <1>2, <1>6, <2>1
    <3> QED BY <1>6, <3>1 DEF Sane
  <2>2. CASE i \in 1 .. n /\ j = n + 1
    <3>1. grid[i] = value /\ {open[n + 1], open[i]} \subseteq Range(run)
      BY <1>2, <1>6, <2>2
    <3> QED BY <1>5, <2>2, <3>1
  <2>3. CASE i = n + 1 /\ j \in 1 .. n
    <3>1. grid[j] = value /\ {open[n + 1], open[j]} \subseteq Range(run)
      BY <1>2, <1>6, <2>3
    <3> QED BY <1>5, <2>3, <3>1
  <2> QED BY <1>4, <2>1, <2>2, <2>3
<1>7. Sane(open, runs, grid) => Sane(open, runs, next)
  BY <1>3, <1>6 DEF Sane
<1> QED BY <1>3, <1>7 DEF next

\* The choices for a cell, tried one after the other.
Tried(f, open, runs, grid, choices, deeper) ==
    /\ f \in [0 .. HighestDigit -> Outcomes(open)] /\ f[0] = <<>>
    /\ f[HighestDigit] = FirstFit(open, runs, grid, choices, deeper)
    /\ \A k \in 1 .. HighestDigit : f[k] = (IF f[k - 1] # <<>> \/ Clashes(open, runs, grid, choices[k]) THEN f[k - 1] ELSE deeper[Append(grid, choices[k])])

\* There is such a trying.
LEMMA TriedExists ==
    ASSUME NEW open, Len(open) \in Nat, NEW runs, NEW left \in 1 .. Len(open),
           NEW grid \in [1 .. Len(open) - left -> Digits], NEW choices \in [1 .. HighestDigit -> Digits],
           NEW deeper \in [[1 .. Len(open) - (left - 1) -> Digits] -> Outcomes(open)]
    PROVE  \E f : Tried(f, open, runs, grid, choices, deeper)
<1> DEFINE m == HighestDigit
           s == choices
           W == Outcomes(open)
           base == <<>>
           step(acc, e) == (IF acc # <<>> \/ Clashes(open, runs, grid, e) THEN acc ELSE deeper[Append(grid, e)])
           G == [x \in W \X (1 .. m) |-> step(x[1], s[x[2]])]
           Table(t) == t = [u \in SUBSET (DOMAIN s) |->
                               IF u = {} THEN base ELSE step(t[u \ {Max(u)}], s[Max(u)])]
           t == CHOOSE t : Table(t)
<1>1. m \in Nat /\ DOMAIN s = 1 .. m /\ base \in W
  <2>1. HighestDigit \in Nat
    BY GeneratorAssumption DEF GeneratorAssumption
  <2>2. <<>> \in Outcomes(open)
    BY DEF Outcomes
  <2> QED BY <2>1, <2>2
<1>2. \A v \in W, k \in 1 .. m : step(v, s[k]) \in W
  <2> TAKE v \in W, k \in 1 .. m
  <2> DEFINE e == s[k]
             n == Len(open) - left
  <2>1. e \in Digits /\ n \in Nat /\ n + 1 = Len(open) - (left - 1)
    OBVIOUS
  <2>2. CASE v # <<>> \/ Clashes(open, runs, grid, e)
    BY <2>2
  <2>3. CASE ~(v # <<>> \/ Clashes(open, runs, grid, e))
    <3> DEFINE next == Append(grid, e)
    <3>1. next \in [1 .. n + 1 -> Digits]
      <4>1. grid \in [1 .. n -> Digits] /\ ~Clashes(open, runs, grid, e)
        BY <2>3
      <4> HIDE DEF n, e
      <4> QED BY <2>1, <4>1, SaneAppend
    <3>2. next \in [1 .. Len(open) - (left - 1) -> Digits]
      <4> HIDE DEF next, n, e
      <4> QED BY <2>1, <3>1
    <3> HIDE DEF next
    <3>3. deeper[next] \in Outcomes(open)
      BY <3>2
    <3> QED BY <2>3, <3>3 DEF next
  <2> HIDE DEF step, W
  <2> QED BY <2>2, <2>3
<1>8. FirstFit(open, runs, grid, choices, deeper) = t[DOMAIN s]
  BY DEF FirstFit, FoldLeft, MapThenFoldSet
<1> HIDE DEF s, base, step
<1>3. \A v \in W, k \in 1 .. m : G[<<v, k>>] = step(v, s[k])
  OBVIOUS
<1>4. Steps(G, base, W, m)
  <2> HIDE DEF W, m, G
  <2> QED BY <1>1, <1>2, <1>3 DEF Steps
<1>5. PICK h \in [SUBSET (1 .. m) -> W] : Run(G, base, m, h)
  <2> HIDE DEF G, W, m
  <2> QED BY <1>4, RunsExist
<1>6. Table(h)
  <2> HIDE DEF G, W, m
  <2>1. \A u \in SUBSET (1 .. m) : u # {} => G[<<h[u \ {Max(u)}], Max(u)>>] = step(h[u \ {Max(u)}], s[Max(u)])
    <3> TAKE u \in SUBSET (1 .. m)
    <3> HAVE u # {}
    <3>1. Max(u) \in 1 .. m /\ h[u \ {Max(u)}] \in W
      BY <1>1, LastIsIn
    <3> QED BY <1>3, <3>1
  <2> QED BY <1>1, <1>5, <2>1 DEF Run
<1>7. Table(t)
  BY <1>6
<1> HIDE DEF t
<1>9. Follows(t, G, base, W, m)
  <2>1. t[{}] = base
    BY <1>7
  <2>2. ASSUME NEW k \in 1 .. m, t[1 .. (k - 1)] \in W PROVE t[1 .. k] = G[<<t[1 .. (k - 1)], k>>]
    <3>1. /\ 1 .. k \in SUBSET (1 .. m) /\ 1 .. k # {} /\ Max(1 .. k) = k
          /\ (1 .. k) \ {Max(1 .. k)} = 1 .. (k - 1)
      BY <1>1, Firsts
    <3>2. 1 .. k \in SUBSET (DOMAIN s)
      BY <1>1, <3>1
    <3>3. t[1 .. k] = step(t[(1 .. k) \ {Max(1 .. k)}], s[Max(1 .. k)])
      BY <1>7, <3>1, <3>2
    <3>4. t[1 .. k] = step(t[1 .. (k - 1)], s[k])
      BY <3>1, <3>3
    <3> HIDE DEF m, W, G
    <3> QED BY <1>3, <2>2, <3>4
  <2> QED BY <2>1, <2>2 DEF Follows
<1> HIDE DEF G, W, m
<1>10. PICK f : Trace(f, G, base, W, m) /\ f[m] = t[1 .. m]
  BY <1>4, <1>9, Unrolled
<1>11. \A k \in 1 .. m : f[k - 1] \in W /\ f[k] = step(f[k - 1], s[k])
  <2>1. \A k \in 1 .. m : k - 1 \in 0 .. m
    BY <1>1
  <2> QED BY <1>3, <1>10, <2>1 DEF Trace
<1>12. f \in [0 .. m -> W] /\ f[0] = base /\ f[m] = FirstFit(open, runs, grid, choices, deeper)
  BY <1>1, <1>8, <1>10 DEF Trace
<1>13. Tried(f, open, runs, grid, choices, deeper)
  BY <1>11, <1>12 DEF m, W, s, base, step, Tried
<1> QED BY <1>13

\* What the first choice that leaves room for the rest comes to; there is none only
\* when every choice clashes or leaves no room.
LEMMA FirstFitIs ==
    ASSUME NEW open, Len(open) \in Nat, NEW runs, NEW left \in 1 .. Len(open),
           NEW grid \in [1 .. Len(open) - left -> Digits], NEW choices \in [1 .. HighestDigit -> Digits],
           NEW deeper \in Deepers(open, runs, left - 1)
    PROVE  /\ FirstFit(open, runs, grid, choices, deeper) \in Answers(open, runs, grid)
           /\ FirstFit(open, runs, grid, choices, deeper) = <<>> =>
                  \A k \in 1 .. HighestDigit :
                      Clashes(open, runs, grid, choices[k]) \/ deeper[Append(grid, choices[k])] = <<>>
<1> DEFINE m == HighestDigit
           W == Answers(open, runs, grid)
           got == FirstFit(open, runs, grid, choices, deeper)
           skips(k) == Clashes(open, runs, grid, choices[k])
           next(k) == deeper[Append(grid, choices[k])]
<1>1. m \in Nat /\ deeper \in [[1 .. Len(open) - (left - 1) -> Digits] -> Outcomes(open)]
  BY GeneratorAssumption DEF GeneratorAssumption, Deepers
<1>2. PICK f : Tried(f, open, runs, grid, choices, deeper)
  BY <1>1, TriedExists
<1>3. /\ f \in [0 .. m -> Outcomes(open)] /\ f[0] = <<>> /\ f[m] = got
      /\ \A k \in 1 .. m : f[k] = IF f[k - 1] # <<>> \/ skips(k) THEN f[k - 1] ELSE next(k)
  BY <1>2 DEF Tried
<1>4. \A k \in 1 .. m : ~skips(k) => next(k) \in W
  <2> TAKE k \in 1 .. m
  <2> HAVE ~skips(k)
  <2> DEFINE e == choices[k]
             n == Len(open) - left
             longer == Append(grid, e)
  <2>1. e \in Digits /\ n \in Nat /\ n + 1 = Len(open) - (left - 1)
    OBVIOUS
  <2>2. longer \in [1 .. n + 1 -> Digits] /\ (Sane(open, runs, grid) => Sane(open, runs, longer))
    <3>1. grid \in [1 .. n -> Digits] /\ ~Clashes(open, runs, grid, e)
      OBVIOUS
    <3> HIDE DEF n, e
    <3> QED BY <2>1, <3>1, SaneAppend
  <2>3. longer \in [1 .. Len(open) - (left - 1) -> Digits]
    <3> HIDE DEF longer, n, e
    <3> QED BY <2>1, <2>2
  <2> HIDE DEF longer
  <2>4. deeper[longer] \in Answers(open, runs, longer)
    BY <2>3 DEF Deepers
  <2>5. deeper[longer] \in Answers(open, runs, grid)
    BY <2>2, <2>4 DEF Answers
  <2> QED BY <2>5 DEF longer
<1>5. <<>> \in W
  BY DEF Answers, Outcomes
<1> HIDE DEF m, W, got, skips, next
<1>6. got \in W
  <2> DEFINE T == {k \in 0 .. m : f[k] \in W}
  <2>1. 0 \in T
    BY <1>1, <1>3, <1>5
  <2>2. ASSUME NEW k \in 1 .. m, k - 1 \in T PROVE k \in T
    <3>1. f[k - 1] \in W /\ k \in 0 .. m
      BY <2>2, <1>1
    <3> QED BY <1>3, <1>4, <3>1
  <2> HIDE DEF T
  <2>3. \A k \in 0 .. m : k \in T
    BY <1>1, <2>1, <2>2, Climb
  <2>4. m \in T
    BY <1>1, <2>3
  <2> QED BY <1>3, <2>4 DEF T
<1>7. ASSUME got = <<>> PROVE \A k \in 1 .. m : skips(k) \/ next(k) = <<>>
  <2> DEFINE T == {k \in 0 .. m : f[m - k] = <<>>}
  <2>1. 0 \in T
    BY <1>1, <1>3, <1>7
  <2>2. ASSUME NEW k \in 1 .. m, k - 1 \in T PROVE k \in T
    <3> DEFINE j == m - (k - 1)
    <3>1. j \in 1 .. m /\ j - 1 = m - k /\ f[j] = <<>> /\ k \in 0 .. m
      BY <1>1, <2>2
    <3> HIDE DEF j
    <3>2. f[j - 1] = <<>>
      BY <1>3, <3>1
    <3> QED BY <3>1, <3>2
  <2> HIDE DEF T
  <2>3. \A k \in 0 .. m : k \in T
    BY <1>1, <2>1, <2>2, Climb
  <2>4. \A k \in 0 .. m : f[k] = <<>>
    <3> TAKE k \in 0 .. m
    <3>1. m - k \in T /\ m - (m - k) = k
      BY <1>1, <2>3
    <3> QED BY <3>1 DEF T
  <2>5. \A k \in 1 .. m : k \in 0 .. m /\ k - 1 \in 0 .. m
    BY <1>1
  <2>6. \A k \in 1 .. m : f[k] = <<>> /\ f[k - 1] = <<>>
    BY <2>4, <2>5
  <2> QED BY <1>3, <2>6
<1> QED BY <1>6, <1>7 DEF m, W, got, skips, next

\* A choice that neither clashes nor leaves the rest without room is not passed over.
LEMMA FirstFitLooks ==
    ASSUME NEW open, Len(open) \in Nat, NEW runs, NEW left \in 1 .. Len(open),
           NEW grid \in [1 .. Len(open) - left -> Digits], NEW choices \in [1 .. HighestDigit -> Digits],
           NEW deeper \in Deepers(open, runs, left - 1), NEW k \in 1 .. HighestDigit, NEW v, choices[k] = v,
           ~Clashes(open, runs, grid, v), deeper[Append(grid, v)] # <<>>
    PROVE  FirstFit(open, runs, grid, choices, deeper) # <<>>
<1>1. FirstFit(open, runs, grid, choices, deeper) = <<>> =>
          \A i \in 1 .. HighestDigit :
              Clashes(open, runs, grid, choices[i]) \/ deeper[Append(grid, choices[i])] = <<>>
  BY FirstFitIs
<1> QED BY <1>1

\* fillBoard's recursion, a cell less to fill at each level.
Recursion(open, runs, orders, fill) ==
    fill = [left \in 0 .. Len(open) |->
               [grid \in [1 .. Len(open) - left -> Digits] |->
                   IF left = 0 THEN grid
                   ELSE FirstFit(open, runs, grid, orders[Len(open) - left + 1], fill[left - 1])]]

\* The recursion has a table, each level of it an answer to every prefix.
LEMMA RecursionExists ==
    ASSUME NEW open, Len(open) \in Nat, NEW runs, NEW orders,
           \A i \in 1 .. Len(open) : orders[i] \in [1 .. HighestDigit -> Digits]
    PROVE  \E fill : Recursion(open, runs, orders, fill)
<1> DEFINE m == Len(open)
           Room(k) == Deepers(open, runs, k)
           V == UNION {Room(k) : k \in 0 .. m}
           base == [grid \in [1 .. m - 0 -> Digits] |-> grid]
           next(g, k) == [grid \in [1 .. m - k -> Digits] |-> FirstFit(open, runs, grid, orders[m - k + 1], g)]
           G == [x \in V \X (1 .. m) |-> IF x[1] \in Room(x[2] - 1) THEN next(x[1], x[2]) ELSE base]
<1>1. base \in Room(0)
  <2>1. \A grid \in [1 .. m - 0 -> Digits] : grid \in Answers(open, runs, grid)
    BY DEF Answers, Outcomes
  <2>2. base \in [[1 .. m - 0 -> Digits] -> Outcomes(open)]
    BY DEF Outcomes
  <2> QED BY <2>1, <2>2 DEF Deepers
<1>2. ASSUME NEW k \in 1 .. m, NEW g \in Room(k - 1) PROVE next(g, k) \in Room(k)
  <2> DEFINE D == [1 .. m - k -> Digits]
             choices == orders[m - k + 1]
  <2>1. choices \in [1 .. HighestDigit -> Digits]
    <3>1. m - k + 1 \in 1 .. m
      OBVIOUS
    <3> QED BY <3>1
  <2> HIDE DEF choices
  <2>2. \A grid \in D : FirstFit(open, runs, grid, choices, g) \in Answers(open, runs, grid)
    BY <2>1, FirstFitIs
  <2>3. \A grid \in D : FirstFit(open, runs, grid, choices, g) \in Outcomes(open)
    BY <2>2 DEF Answers
  <2>4. [grid \in D |-> FirstFit(open, runs, grid, choices, g)] \in Room(k)
    BY <2>2, <2>3 DEF Deepers
  <2> QED BY <2>4 DEF choices
<1>3. Steps(G, base, V, m)
  <2>1. base \in V
    <3>1. 0 \in 0 .. m
      OBVIOUS
    <3> HIDE DEF base, Room
    <3> QED BY <1>1, <3>1
  <2>2. ASSUME NEW g \in V, NEW k \in 1 .. m PROVE G[<<g, k>>] \in V
    <3>1. k \in 0 .. m
      OBVIOUS
    <3>2. G[<<g, k>>] = IF g \in Room(k - 1) THEN next(g, k) ELSE base
      <4> HIDE DEF next, base, Room, V
      <4> QED OBVIOUS
    <3>3. next(g, k) \in V \/ g \notin Room(k - 1)
      <4> HIDE DEF next, Room
      <4> QED BY <1>2, <3>1
    <3> HIDE DEF next, base, Room, G, V
    <3> QED BY <2>1, <3>2, <3>3
  <2> HIDE DEF V, G, base
  <2> QED BY <2>1, <2>2 DEF Steps
<1>4. PICK f : Trace(f, G, base, V, m)
  <2> HIDE DEF V, G, base
  <2> QED BY <1>3, TracesExist
<1> HIDE DEF base, next, Room
<1>5. /\ f \in [0 .. m -> V] /\ f[0] = base
      /\ \A k \in 1 .. m : f[k] = IF f[k - 1] \in Room(k - 1) THEN next(f[k - 1], k) ELSE base
  <2>1. f \in [0 .. m -> V] /\ f[0] = base /\ \A k \in 1 .. m : f[k] = G[<<f[k - 1], k>>]
    <3> HIDE DEF V, G
    <3> QED BY <1>4 DEF Trace
  <2>2. \A k \in 1 .. m : k - 1 \in 0 .. m /\ f[k - 1] \in V
    <3> HIDE DEF V
    <3> QED BY <2>1
  <2>3. \A g \in V, k \in 1 .. m : G[<<g, k>>] = IF g \in Room(k - 1) THEN next(g, k) ELSE base
    <3> HIDE DEF V
    <3> QED OBVIOUS
  <2> HIDE DEF V, G
  <2> QED BY <2>1, <2>2, <2>3
<1> HIDE DEF V, G
<1> DEFINE T == {k \in 0 .. m : f[k] \in Room(k)}
<1>6. \A k \in 0 .. m : k \in T
  <2>1. 0 \in T
    BY <1>1, <1>5
  <2>2. ASSUME NEW k \in 1 .. m, k - 1 \in T PROVE k \in T
    BY <1>2, <1>5, <2>2
  <2> HIDE DEF T
  <2> QED BY <2>1, <2>2, Climb
<1>7. \A k \in 1 .. m : k - 1 \in 0 .. m /\ f[k] = next(f[k - 1], k)
  BY <1>5, <1>6
<1>8. \A k \in 0 .. m : f[k] = [grid \in [1 .. m - k -> Digits] |->
                                 IF k = 0 THEN grid ELSE FirstFit(open, runs, grid, orders[m - k + 1], f[k - 1])]
  <2> TAKE k \in 0 .. m
  <2>1. CASE k = 0
    BY <1>5, <2>1 DEF base
  <2>2. CASE k # 0
    <3>1. k \in 1 .. m
      BY <2>2
    <3>2. f[k] = next(f[k - 1], k)
      BY <1>7, <3>1
    <3> QED BY <2>2, <3>2 DEF next
  <2> QED BY <2>1, <2>2
<1>9. Recursion(open, runs, orders, f)
  <2>1. f = [k \in 0 .. m |-> f[k]]
    BY <1>5
  <2> QED BY <1>8, <2>1 DEF Recursion
<1> QED BY <1>9

\* A fill level by level, each an answer to every prefix.
Levels(t, open, runs, orders) ==
    /\ Fill(open, runs, orders) = t[Len(open)][<<>>]
    /\ t[0] = [grid \in [1 .. Len(open) - 0 -> Digits] |-> grid]
    /\ \A k \in 1 .. Len(open) :
           t[k] = [grid \in [1 .. Len(open) - k -> Digits] |->
                      FirstFit(open, runs, grid, orders[Len(open) - k + 1], t[k - 1])]
    /\ \A k \in 0 .. Len(open) : t[k] \in Deepers(open, runs, k)

\* A fill has such levels.
LEMMA LevelsExist ==
    ASSUME NEW open, Len(open) \in Nat, NEW runs, NEW orders,
           \A i \in 1 .. Len(open) : orders[i] \in [1 .. HighestDigit -> Digits]
    PROVE  \E t : Levels(t, open, runs, orders)
<1> DEFINE m == Len(open)
           t == CHOOSE fill : Recursion(open, runs, orders, fill)
           T == {k \in 0 .. m : t[k] \in Deepers(open, runs, k)}
<1>1. Fill(open, runs, orders) = t[m][<<>>]
  BY DEF Fill, Recursion, Digits
<1>2. Recursion(open, runs, orders, t)
  BY RecursionExists
<1> HIDE DEF t
<1>3. /\ t[0] = [grid \in [1 .. m - 0 -> Digits] |-> grid]
      /\ \A k \in 1 .. m : t[k] = [grid \in [1 .. m - k -> Digits] |->
                                      FirstFit(open, runs, grid, orders[m - k + 1], t[k - 1])]
  <2> DEFINE value(k) == [grid \in [1 .. m - k -> Digits] |->
                                 IF k = 0 THEN grid ELSE FirstFit(open, runs, grid, orders[m - k + 1], t[k - 1])]
  <2>1. t = [k \in 0 .. m |-> value(k)]
    BY <1>2 DEF Recursion
  <2>2. value(0) = [grid \in [1 .. m - 0 -> Digits] |-> grid]
    OBVIOUS
  <2>3. \A k \in 1 .. m : value(k) = [grid \in [1 .. m - k -> Digits] |->
                                         FirstFit(open, runs, grid, orders[m - k + 1], t[k - 1])]
    <3> TAKE k \in 1 .. m
    <3>1. k # 0
      OBVIOUS
    <3> QED BY <3>1
  <2> HIDE DEF value
  <2>4. 0 \in 0 .. m /\ \A k \in 1 .. m : k \in 0 .. m
    OBVIOUS
  <2>5. \A k \in 0 .. m : t[k] = value(k)
    BY <2>1
  <2> QED BY <2>2, <2>3, <2>4, <2>5
<1>4. 0 \in T
  <2>1. \A grid \in [1 .. m - 0 -> Digits] : grid \in Answers(open, runs, grid)
    BY DEF Answers, Outcomes
  <2>2. t[0] = [grid \in [1 .. m - 0 -> Digits] |-> grid]
    BY <1>3
  <2>3. t[0] \in [[1 .. m - 0 -> Digits] -> Outcomes(open)]
    BY <2>2 DEF Outcomes
  <2>4. 0 \in 0 .. m
    OBVIOUS
  <2> QED BY <2>1, <2>2, <2>3, <2>4 DEF Deepers
<1>5. ASSUME NEW k \in 1 .. m, k - 1 \in T PROVE k \in T
  <2> DEFINE D == [1 .. m - k -> Digits]
             choices == orders[m - k + 1]
             g == t[k - 1]
  <2>1. choices \in [1 .. HighestDigit -> Digits] /\ g \in Deepers(open, runs, k - 1) /\ k \in 0 .. m
    <3>1. m - k + 1 \in 1 .. m
      OBVIOUS
    <3> QED BY <1>5, <3>1
  <2>2. t[k] = [grid \in D |-> FirstFit(open, runs, grid, choices, g)]
    BY <1>3, <2>1
  <2> HIDE DEF choices, g
  <2>3. \A grid \in D : FirstFit(open, runs, grid, choices, g) \in Answers(open, runs, grid)
    BY <2>1, FirstFitIs
  <2>4. \A grid \in D : FirstFit(open, runs, grid, choices, g) \in Outcomes(open)
    BY <2>3 DEF Answers
  <2>5. t[k] \in Deepers(open, runs, k)
    BY <2>2, <2>3, <2>4 DEF Deepers
  <2> QED BY <2>1, <2>5
<1>6. \A k \in 0 .. m : k \in T
  <2> HIDE DEF T
  <2> QED BY <1>4, <1>5, Climb
<1>7. Levels(t, open, runs, orders)
  <2> HIDE DEF m
  <2>1. \A k \in 0 .. m : t[k] \in Deepers(open, runs, k)
    BY <1>6
  <2> HIDE DEF T
  <2> QED BY <1>1, <1>3, <2>1 DEF Levels, m
<1> QED BY <1>7

\* A fill gives each open cell a digit, and none twice in a run.
LEMMA FillIs ==
    ASSUME NEW open, Len(open) \in Nat, NEW runs, NEW orders,
           \A i \in 1 .. Len(open) : orders[i] \in [1 .. HighestDigit -> Digits],
           Fill(open, runs, orders) # <<>>
    PROVE  /\ Fill(open, runs, orders) \in [1 .. Len(open) -> Digits]
           /\ Sane(open, runs, Fill(open, runs, orders))
<1> DEFINE m == Len(open)
<1>1. PICK t : Levels(t, open, runs, orders)
  BY LevelsExist
<1>2. Fill(open, runs, orders) = t[m][<<>>] /\ t[m] \in Deepers(open, runs, m)
  BY <1>1 DEF Levels
<1>3. t[m][<<>>] \in Answers(open, runs, <<>>)
  <2>1. <<>> \in [1 .. m - m -> Digits]
    OBVIOUS
  <2> QED BY <1>2, <2>1 DEF Deepers
<1>4. Sane(open, runs, <<>>)
  BY DEF Sane
<1> QED BY <1>2, <1>3, <1>4 DEF Answers, Outcomes

\* Backtracking overlooks no fill: where a sane one exists, it finds one.
LEMMA FillLooks ==
    ASSUME NEW open, Len(open) \in Nat \ {0}, NEW runs, NEW orders,
           \A i \in 1 .. Len(open) : orders[i] \in Orders,
           NEW full \in [1 .. Len(open) -> Digits], Sane(open, runs, full)
    PROVE  Fill(open, runs, orders) # <<>>
<1> DEFINE m == Len(open)
           prefix(k) == [i \in 1 .. m - k |-> full[i]]
<1>1. m \in Nat \ {0} /\ \A i \in 1 .. m : orders[i] \in [1 .. HighestDigit -> Digits]
  BY DEF Orders
<1>2. PICK t : Levels(t, open, runs, orders)
  BY <1>1, LevelsExist
<1>3. /\ Fill(open, runs, orders) = t[m][<<>>] /\ t[0] = [grid \in [1 .. m - 0 -> Digits] |-> grid]
      /\ \A k \in 1 .. m : t[k] = [grid \in [1 .. m - k -> Digits] |->
                                      FirstFit(open, runs, grid, orders[m - k + 1], t[k - 1])]
      /\ \A k \in 0 .. m : t[k] \in Deepers(open, runs, k)
  BY <1>2 DEF Levels
<1>4. \A k \in 0 .. m : prefix(k) \in [1 .. m - k -> Digits]
  OBVIOUS
<1> DEFINE T == {k \in 0 .. m : t[k][prefix(k)] # <<>>}
<1>5. 0 \in T
  <2>1. prefix(0) \in [1 .. m - 0 -> Digits] /\ prefix(0) # <<>>
    BY <1>1
  <2> HIDE DEF prefix
  <2> QED BY <1>1, <1>3, <2>1
<1>6. ASSUME NEW k \in 1 .. m, k - 1 \in T PROVE k \in T
  <2> DEFINE n == m - k
             v == full[n + 1]
             grid == prefix(k)
             choices == orders[n + 1]
             deeper == t[k - 1]
  <2>1. /\ n \in Nat /\ n + 1 \in 1 .. m /\ v \in Digits /\ k \in 0 .. m /\ k - 1 \in 0 .. m
        /\ m - (k - 1) = n + 1
    BY <1>1
  <2>2. choices \in Orders /\ deeper \in Deepers(open, runs, k - 1) /\ deeper[prefix(k - 1)] # <<>>
    <3> HIDE DEF prefix, n, m
    <3> QED BY <1>3, <1>6, <2>1 DEF m
  <2>3. grid \in [1 .. n -> Digits] /\ grid \in Seq(Digits) /\ Len(grid) = n /\ DOMAIN grid = 1 .. n
        /\ \A i \in 1 .. n : grid[i] = full[i]
    <3>1. grid \in [1 .. n -> Digits] /\ \A i \in 1 .. n : grid[i] = full[i]
      BY <2>1
    <3> HIDE DEF grid, n
    <3> QED BY <2>1, <3>1, ListIs
  <2>4. ~Clashes(open, runs, grid, v)
    <3> SUFFICES ASSUME NEW run \in runs, NEW i \in 1 .. n,
                        {open[n + 1], open[i]} \subseteq Range(run), grid[i] = v
                 PROVE  FALSE
      <4> HIDE DEF grid, n, v
      <4> QED BY <2>3 DEF Clashes
    <3>1. full[i] = full[n + 1] /\ i \in 1 .. m /\ n + 1 \in 1 .. m /\ i # n + 1
      BY <2>1, <2>3
    <3>2. DOMAIN full = 1 .. m
      OBVIOUS
    <3> HIDE DEF n, grid, v, m
    <3> QED BY <3>1, <3>2 DEF Sane
  <2>5. Append(grid, v) = prefix(k - 1)
    <3>1. prefix(k - 1) = [i \in 1 .. n + 1 |-> full[i]]
      BY <2>1
    <3> HIDE DEF n, prefix, m
    <3>2. prefix(k - 1) \in [1 .. n + 1 -> Digits] /\ DOMAIN full = 1 .. m /\ 1 .. n + 1 \subseteq 1 .. m
      BY <2>1, <3>1 DEF m
    <3>3. prefix(k - 1) \in Seq(Digits) /\ Len(prefix(k - 1)) = n + 1
      <4> DEFINE longer == prefix(k - 1)
                 l == n + 1
      <4>1. l \in Nat /\ longer \in [1 .. l -> Digits]
        BY <2>1, <3>2
      <4> HIDE DEF longer, l
      <4>2. longer \in Seq(Digits) /\ Len(longer) = l
        BY <4>1, ListIs
      <4> QED BY <4>2 DEF longer, l
    <3> HIDE DEF grid, v
    <3>4. /\ Append(grid, v) \in Seq(Digits) /\ Len(Append(grid, v)) = n + 1 /\ Append(grid, v)[n + 1] = v
          /\ \A i \in 1 .. n : Append(grid, v)[i] = grid[i]
      BY <2>1, <2>3
    <3>5. \A i \in 1 .. n + 1 : i = n + 1 \/ i \in 1 .. n
      BY <2>1
    <3>6. \A i \in 1 .. n + 1 : prefix(k - 1)[i] = full[i]
      BY <3>1
    <3>7. \A i \in 1 .. n + 1 : Append(grid, v)[i] = prefix(k - 1)[i]
      BY <2>3, <3>4, <3>5, <3>6 DEF v
    <3> QED BY <3>3, <3>4, <3>7
  <2>6. PICK j \in 1 .. HighestDigit : choices[j] = v
    <3> HIDE DEF choices, v
    <3> QED BY <2>1, <2>2 DEF Orders
  <2>7. FirstFit(open, runs, grid, choices, deeper) # <<>>
    <3>1. choices \in [1 .. HighestDigit -> Digits]
      BY <2>2 DEF Orders
    <3>2. grid \in [1 .. m - k -> Digits] /\ k \in 1 .. m /\ m \in Nat
      BY <1>1, <2>3
    <3>3. deeper[Append(grid, v)] # <<>>
      BY <2>2, <2>5
    <3> HIDE DEF grid, choices, deeper, v, n, prefix
    <3>4. deeper \in Deepers(open, runs, k - 1) /\ Len(open) \in Nat
      BY <1>1, <2>2
    <3> QED BY <2>4, <2>6, <3>1, <3>2, <3>3, <3>4, FirstFitLooks
  <2>8. t[k][grid] = FirstFit(open, runs, grid, choices, deeper)
    <3>1. t[k] = [g \in [1 .. n -> Digits] |-> FirstFit(open, runs, g, choices, deeper)]
      BY <1>3
    <3> HIDE DEF grid, choices, deeper, n
    <3> QED BY <2>3, <3>1
  <2>9. t[k][prefix(k)] # <<>>
    BY <2>7, <2>8
  <2> HIDE DEF prefix, n, m
  <2> QED BY <2>1, <2>9
<1>7. m \in 0 .. m /\ prefix(m) = <<>>
  BY <1>1
<1>8. \A k \in 0 .. m : k \in T
  <2> HIDE DEF T
  <2> QED BY <1>1, <1>5, <1>6, Climb
<1>9. t[m][prefix(m)] # <<>>
  <2> HIDE DEF prefix
  <2> QED BY <1>7, <1>8
<1> QED BY <1>3, <1>7, <1>9

\* An order of their own for each cell.
Draws == [orders : Seq(Orders), at : Nat]

\* A shuffle of the digits leaves none out.
LEMMA OrdersAre ==
    ASSUME NEW H \in Nat, NEW order \in [1 .. H -> 1 .. H], \A i, j \in 1 .. H : order[i] = order[j] => i = j
    PROVE  \A d \in 1 .. H : \E k \in 1 .. H : order[k] = d
<1> DEFINE I == 1 .. H
<1>1. IsFiniteSet(I)
  BY UpToIsFinite
<1>2. order \in Injection(I, I)
  BY DEF Injection, IsInjective
<1> HIDE DEF I
<1>3. order \in Surjection(I, I)
  BY <1>1, <1>2, FS_Injection
<1> QED BY <1>3 DEF Surjection, I

\* An order is drawn for one cell more.
LEMMA OrderedIs ==
    ASSUME NEW seed \in Nat, NEW acc \in Draws
    PROVE  /\ Ordered(seed, acc) \in Draws
           /\ Len(Ordered(seed, acc).orders) = Len(acc.orders) + 1
<1> DEFINE H == HighestDigit
           s == Shuffled(seed, acc.at, H)
           order == [k \in 1 .. H |-> s.order[k] + 1]
<1>1. H \in Nat /\ acc.at \in Nat /\ acc.orders \in Seq(Orders)
  BY GeneratorAssumption DEF GeneratorAssumption, Draws
<1>2. /\ s.order \in [1 .. H -> 0 .. H - 1] /\ s.at \in Nat
      /\ \A i, j \in 1 .. H : s.order[i] = s.order[j] => i = j
  <2> HIDE DEF H
  <2> QED BY <1>1, ShufflesArePermutations
<1>3. Ordered(seed, acc) = [orders |-> Append(acc.orders, order), at |-> s.at]
  BY DEF Ordered
<1> HIDE DEF s, H
<1>4. order \in [1 .. H -> 1 .. H] /\ \A i, j \in 1 .. H : order[i] = order[j] => i = j
  <2>1. \A k \in 1 .. H : s.order[k] \in 0 .. H - 1 /\ s.order[k] + 1 \in 1 .. H
    BY <1>1, <1>2
  <2>2. \A i, j \in 1 .. H : s.order[i] + 1 = s.order[j] + 1 => i = j
    BY <1>1, <1>2, <2>1
  <2> QED BY <2>1, <2>2
<1> HIDE DEF order
<1>5. order \in Orders
  <2>1. \A d \in 1 .. H : \E k \in 1 .. H : order[k] = d
    BY <1>1, <1>4, OrdersAre
  <2> QED BY <1>4, <2>1 DEF Orders, Digits, H
<1>6. Append(acc.orders, order) \in Seq(Orders) /\ Len(Append(acc.orders, order)) = Len(acc.orders) + 1
  BY <1>1, <1>5
<1> QED BY <1>2, <1>3, <1>6 DEF Draws

\* The orders drawn, a cell after the other.
DrawsFor(f, seed, from, open) ==
    /\ f \in [0 .. Len(open) -> Draws] /\ f[0] = [orders |-> <<>>, at |-> from]
    /\ f[Len(open)] = FoldLeft(LAMBDA acc, c : Ordered(seed, acc), [orders |-> <<>>, at |-> from], open)
    /\ \A k \in 1 .. Len(open) : f[k] = Ordered(seed, f[k - 1])

\* The drawing can be told cell by cell.
LEMMA DrawsForExists ==
    ASSUME NEW seed \in Nat, NEW from \in Nat, NEW X, NEW open \in Seq(X)
    PROVE  \E f : DrawsFor(f, seed, from, open)
<1> DEFINE m == Len(open)
           s == open
           W == Draws
           base == [orders |-> <<>>, at |-> from]
           step(acc, e) == Ordered(seed, acc)
           G == [x \in W \X (1 .. m) |-> step(x[1], s[x[2]])]
           Table(t) == t = [u \in SUBSET (DOMAIN s) |->
                               IF u = {} THEN base ELSE step(t[u \ {Max(u)}], s[Max(u)])]
           t == CHOOSE t : Table(t)
<1>1. m \in Nat /\ DOMAIN s = 1 .. m /\ base \in W
  <2>1. m \in Nat /\ DOMAIN s = 1 .. m
    OBVIOUS
  <2>2. base \in W
    BY DEF Draws
  <2> QED BY <2>1, <2>2
<1>2. \A v \in W, k \in 1 .. m : step(v, s[k]) \in W
  <2> HIDE DEF s
  <2> QED BY OrderedIs
<1>8. FoldLeft(LAMBDA acc, c : Ordered(seed, acc), [orders |-> <<>>, at |-> from], open) = t[DOMAIN s]
  BY DEF FoldLeft, MapThenFoldSet
<1> HIDE DEF s, base, step
<1>3. \A v \in W, k \in 1 .. m : G[<<v, k>>] = step(v, s[k])
  OBVIOUS
<1>4. Steps(G, base, W, m)
  <2> HIDE DEF W, m, G
  <2> QED BY <1>1, <1>2, <1>3 DEF Steps
<1>5. PICK h \in [SUBSET (1 .. m) -> W] : Run(G, base, m, h)
  <2> HIDE DEF G, W, m
  <2> QED BY <1>4, RunsExist
<1>6. Table(h)
  <2> HIDE DEF G, W, m
  <2>1. \A u \in SUBSET (1 .. m) : u # {} => G[<<h[u \ {Max(u)}], Max(u)>>] = step(h[u \ {Max(u)}], s[Max(u)])
    <3> TAKE u \in SUBSET (1 .. m)
    <3> HAVE u # {}
    <3>1. Max(u) \in 1 .. m /\ h[u \ {Max(u)}] \in W
      BY <1>1, LastIsIn
    <3> QED BY <1>3, <3>1
  <2> QED BY <1>1, <1>5, <2>1 DEF Run
<1>7. Table(t)
  BY <1>6
<1> HIDE DEF t
<1>9. Follows(t, G, base, W, m)
  <2>1. t[{}] = base
    BY <1>7
  <2>2. ASSUME NEW k \in 1 .. m, t[1 .. (k - 1)] \in W PROVE t[1 .. k] = G[<<t[1 .. (k - 1)], k>>]
    <3>1. /\ 1 .. k \in SUBSET (1 .. m) /\ 1 .. k # {} /\ Max(1 .. k) = k
          /\ (1 .. k) \ {Max(1 .. k)} = 1 .. (k - 1)
      BY <1>1, Firsts
    <3>2. 1 .. k \in SUBSET (DOMAIN s)
      BY <1>1, <3>1
    <3>3. t[1 .. k] = step(t[(1 .. k) \ {Max(1 .. k)}], s[Max(1 .. k)])
      BY <1>7, <3>1, <3>2
    <3>4. t[1 .. k] = step(t[1 .. (k - 1)], s[k])
      BY <3>1, <3>3
    <3> HIDE DEF m, W, G
    <3> QED BY <1>3, <2>2, <3>4
  <2> QED BY <2>1, <2>2 DEF Follows
<1> HIDE DEF G, W, m
<1>10. PICK f : Trace(f, G, base, W, m) /\ f[m] = t[1 .. m]
  BY <1>4, <1>9, Unrolled
<1>11. \A k \in 1 .. m : f[k - 1] \in W /\ f[k] = step(f[k - 1], s[k])
  <2>1. \A k \in 1 .. m : k - 1 \in 0 .. m
    BY <1>1
  <2> QED BY <1>3, <1>10, <2>1 DEF Trace
<1>12. f \in [0 .. m -> W] /\ f[0] = base /\ f[m] = FoldLeft(LAMBDA acc, c : Ordered(seed, acc), [orders |-> <<>>, at |-> from], open)
  BY <1>1, <1>8, <1>10 DEF Trace
<1>13. DrawsFor(f, seed, from, open)
  BY <1>11, <1>12 DEF m, W, s, base, step, DrawsFor
<1> QED BY <1>13

\* There is an order for every open cell.
LEMMA DrawsAre ==
    ASSUME NEW seed \in Nat, NEW from \in Nat, NEW X, NEW open \in Seq(X)
    PROVE  LET draws == FoldLeft(LAMBDA acc, c : Ordered(seed, acc), [orders |-> <<>>, at |-> from], open)
           IN  draws \in Draws /\ Len(draws.orders) = Len(open)
<1> DEFINE m == Len(open)
           draws == FoldLeft(LAMBDA acc, c : Ordered(seed, acc), [orders |-> <<>>, at |-> from], open)
<1>1. PICK f : DrawsFor(f, seed, from, open)
  BY DrawsForExists
<1>2. /\ f \in [0 .. m -> Draws] /\ f[0] = [orders |-> <<>>, at |-> from] /\ f[m] = draws
      /\ \A k \in 1 .. m : f[k] = Ordered(seed, f[k - 1])
  BY <1>1 DEF DrawsFor
<1>3. m \in Nat
  OBVIOUS
<1> HIDE DEF m, draws
<1> DEFINE T == {k \in 0 .. m : Len(f[k].orders) = k}
<1>4. 0 \in T
  BY <1>2, <1>3
<1>5. ASSUME NEW k \in 1 .. m, k - 1 \in T PROVE k \in T
  <2> DEFINE old == f[k - 1]
  <2>1. old \in Draws /\ f[k] = Ordered(seed, old) /\ Len(old.orders) = k - 1 /\ k \in 0 .. m
    BY <1>2, <1>3, <1>5
  <2> HIDE DEF old
  <2>2. Len(Ordered(seed, old).orders) = Len(old.orders) + 1
    BY <2>1, OrderedIs
  <2>3. Len(f[k].orders) = k
    BY <2>1, <2>2
  <2> QED BY <2>1, <2>3
<1>6. m \in T
  <2> HIDE DEF T
  <2>1. \A k \in 0 .. m : k \in T
    BY <1>3, <1>4, <1>5, Climb
  <2>2. m \in 0 .. m
    BY <1>3
  <2> QED BY <2>1, <2>2
<1> QED BY <1>2, <1>3, <1>6 DEF draws, m

\* A fill that keeps every run distinct, when there is one.
LEMMA FillBoardIs ==
    ASSUME NEW seed \in Nat, NEW from \in Nat, NEW X, NEW open \in Seq(X), NEW runs
    PROVE  LET fill == fillBoard(seed, from, open, runs)
           IN  /\ fill.at \in Nat
               /\ fill.grid # <<>> => fill.grid \in [1 .. Len(open) -> Digits] /\ Sane(open, runs, fill.grid)
<1> DEFINE draws == FoldLeft(LAMBDA acc, c : Ordered(seed, acc), [orders |-> <<>>, at |-> from], open)
           fill == fillBoard(seed, from, open, runs)
<1>1. draws \in Draws /\ Len(draws.orders) = Len(open)
  BY DrawsAre
<1>2. fill = [grid |-> IF \E run \in runs : Len(run) > HighestDigit THEN <<>>
                       ELSE Fill(open, runs, draws.orders),
              at |-> draws.at]
  BY DEF fillBoard
<1> HIDE DEF draws, fill
<1>3. fill.at \in Nat
  BY <1>1, <1>2 DEF Draws
<1>4. ASSUME fill.grid # <<>> PROVE fill.grid \in [1 .. Len(open) -> Digits] /\ Sane(open, runs, fill.grid)
  <2>1. fill.grid = Fill(open, runs, draws.orders)
    BY <1>2, <1>4
  <2>2. \A i \in 1 .. Len(open) : draws.orders[i] \in [1 .. HighestDigit -> Digits]
    <3>1. draws.orders \in Seq(Orders)
      BY <1>1 DEF Draws
    <3>2. \A i \in 1 .. Len(open) : draws.orders[i] \in Orders
      BY <1>1, <3>1
    <3> QED BY <3>2 DEF Orders
  <2>3. Len(open) \in Nat
    OBVIOUS
  <2> QED BY <1>4, <2>1, <2>2, <2>3, FillIs
<1> QED BY <1>3, <1>4 DEF fill

\* It finds one wherever no run is longer than there are digits and one exists.
LEMMA FillBoardLooks ==
    ASSUME NEW seed \in Nat, NEW from \in Nat, NEW X, NEW open \in Seq(X), Len(open) # 0, NEW runs,
           \A run \in runs : ~(Len(run) > HighestDigit),
           NEW full \in [1 .. Len(open) -> Digits], Sane(open, runs, full)
    PROVE  fillBoard(seed, from, open, runs).grid # <<>>
<1> DEFINE draws == FoldLeft(LAMBDA acc, c : Ordered(seed, acc), [orders |-> <<>>, at |-> from], open)
           orders == draws.orders
<1>1. draws \in Draws /\ Len(orders) = Len(open)
  BY DrawsAre
<1>2. fillBoard(seed, from, open, runs).grid = Fill(open, runs, orders)
  BY DEF fillBoard
<1> HIDE DEF draws
<1>3. orders \in Seq(Orders)
  BY <1>1 DEF Draws
<1> HIDE DEF orders
<1>4. \A i \in 1 .. Len(open) : orders[i] \in Orders
  BY <1>1, <1>3
<1>5. Len(open) \in Nat \ {0}
  OBVIOUS
<1> QED BY <1>2, <1>4, <1>5, FillLooks

----------------------------------------------------------------------------
\* Kakuro: the board.

\* A board whose runs are listed with the sums of their digits, which differ.
Crossed(p, n, list) ==
    /\ p.kind = "kakuro" /\ p.size = n /\ p.given \subseteq Cells(n) \ p.blocked /\ p.blocked \subseteq Cells(n)
    /\ \A r \in 1 .. n : Len(p.solution[r]) = n
    /\ Len(p.solution) = n
    /\ \A r, c \in 1 .. n : <<r - 1, c - 1>> \in p.blocked => p.solution[r][c] = 0
    /\ \A c \in Cells(n) \ p.blocked : Declared(p, c) \in 1 .. DigitCeiling
    /\ list \in Seq(Runs(n, p.blocked)) /\ list # <<>>
    /\ DOMAIN p.groups = 1 .. Len(list) /\ p.groups # <<>>
    /\ \A i \in 1 .. Len(list) :
           /\ p.groups[i] = [cells |-> list[i], op |-> "+",
                             target |-> Total([k \in DOMAIN list[i] |-> Declared(p, list[i][k])])]
           /\ \A a, b \in DOMAIN list[i] : Declared(p, list[i][a]) = Declared(p, list[i][b]) => a = b
    /\ Cells(n) \ p.blocked \subseteq UNION {Range(list[i]) : i \in 1 .. Len(list)}

\* Its groups, one by one.
LEMMA CrossedGroups ==
    ASSUME NEW p, NEW n \in Nat \ {0}, NEW list, Crossed(p, n, list), NEW g \in Range(p.groups)
    PROVE  /\ g.cells \in Runs(n, p.blocked) /\ SumReachable(Len(g.cells), g.target, DigitCeiling)
           /\ g.target \in Nat /\ g.target >= 3
           /\ g.target = Total([k \in DOMAIN g.cells |-> Declared(p, g.cells[k])])
           /\ \A a, b \in DOMAIN g.cells : Declared(p, g.cells[a]) = Declared(p, g.cells[b]) => a = b
<1>1. PICK i \in 1 .. Len(list) : g = p.groups[i]
  BY DEF Crossed, Range
<1> DEFINE run == list[i]
           v == [k \in DOMAIN run |-> Declared(p, run[k])]
<1>2. /\ run \in Runs(n, p.blocked) /\ g.cells = run /\ g.target = Total(v)
      /\ \A a, b \in DOMAIN run : Declared(p, run[a]) = Declared(p, run[b]) => a = b
  <2>1. list \in Seq(Runs(n, p.blocked))
    BY DEF Crossed
  <2>2. run \in Runs(n, p.blocked)
    BY <2>1
  <2>3. /\ p.groups[i] = [cells |-> list[i], op |-> "+",
                          target |-> Total([k \in DOMAIN list[i] |-> Declared(p, list[i][k])])]
        /\ \A a, b \in DOMAIN list[i] : Declared(p, list[i][a]) = Declared(p, list[i][b]) => a = b
    BY DEF Crossed
  <2>4. g.cells = run /\ g.target = Total(v)
    BY <1>1, <2>3
  <2> QED BY <2>2, <2>3, <2>4
<1> HIDE DEF run
<1>3. /\ Len(run) \in Nat \ {0} /\ Len(run) >= 2 /\ DOMAIN run = 1 .. Len(run)
      /\ \A k \in 1 .. Len(run) : run[k] \in Cells(n) \ p.blocked
  BY <1>2 DEF Runs
<1>4. DOMAIN v = 1 .. Len(run) /\ (\A k \in 1 .. Len(run) : v[k] \in 1 .. DigitCeiling)
      /\ \A a, b \in 1 .. Len(run) : v[a] = v[b] => a = b
  BY <1>2, <1>3 DEF Crossed
<1>5. DigitCeiling \in Nat \ {0}
  BY BoundsAssumption DEF BoundsAssumption
<1>6. SumReachable(Len(run), Total(v), DigitCeiling) /\ Total(v) \in Nat /\ Total(v) >= 3
  <2> HIDE DEF v
  <2> QED BY <1>3, <1>4, <1>5, DistinctReachable
<1> QED BY <1>2, <1>6

\* Everything the checks ask of such a board holds.
LEMMA CrossedIsSturdy ==
    ASSUME NEW p, NEW n \in 3 .. 6, NEW list, Crossed(p, n, list)
    PROVE  Sturdy(p)
<1>1. /\ n \in Nat \ {0} /\ p.kind = "kakuro" /\ p.size = n
      /\ p.given \subseteq Cells(n) \ p.blocked /\ p.blocked \subseteq Cells(n)
      /\ p.groups # <<>> /\ DomainMax(p) = DigitCeiling
  BY DEF Crossed, DomainMax, Caged
<1>2. \A g \in Range(p.groups) : /\ Len(g.cells) >= 2 /\ g.target >= 3
                                 /\ SumReachable(Len(g.cells), g.target, DigitCeiling)
  <2> TAKE g \in Range(p.groups)
  <2>1. g.cells \in Runs(n, p.blocked) /\ SumReachable(Len(g.cells), g.target, DigitCeiling) /\ g.target >= 3
    BY <1>1, CrossedGroups
  <2> QED BY <2>1 DEF Runs
<1>3. WellFormed(p)
  BY <1>1, <1>2 DEF WellFormed
<1>4. ~Unreachable(p)
  BY <1>1, <1>2 DEF Unreachable
<1>5. SolutionShaped(p)
  <2>1. ASSUME NEW r \in 1 .. n, NEW c \in 1 .. n
        PROVE  IF <<r - 1, c - 1>> \in p.blocked THEN p.solution[r][c] = 0
                                                 ELSE p.solution[r][c] \in 1 .. DomainMax(p)
    <3> DEFINE cell == <<r - 1, c - 1>>
    <3>1. cell \in Cells(n) /\ cell[1] + 1 = r /\ cell[2] + 1 = c
      BY DEF Cells
    <3>2. Declared(p, cell) = p.solution[r][c]
      BY <3>1 DEF Declared
    <3> QED BY <1>1, <3>1, <3>2 DEF Crossed
  <2> QED BY <1>1, <2>1 DEF SolutionShaped, Crossed
<1>6. \A c \in Cells(n) : Inside(c, n)
  BY DEF Cells, Inside
<1>7. Stray(p) = 0 /\ Covered(p)
  <2>1. /\ list \in Seq(Runs(n, p.blocked)) /\ DOMAIN list = 1 .. Len(list)
        /\ DOMAIN p.groups = 1 .. Len(list) /\ \A i \in 1 .. Len(list) : p.groups[i].cells = list[i]
    <3>1. list \in Seq(Runs(n, p.blocked)) /\ DOMAIN p.groups = 1 .. Len(list)
      BY DEF Crossed
    <3>2. ASSUME NEW i \in 1 .. Len(list) PROVE p.groups[i].cells = list[i]
      <4>1. p.groups[i] = [cells |-> list[i], op |-> "+",
                           target |-> Total([k \in DOMAIN list[i] |-> Declared(p, list[i][k])])]
        BY DEF Crossed
      <4> QED BY <4>1
    <3> QED BY <3>1, <3>2
  <2>2. [i \in DOMAIN p.groups |-> p.groups[i].cells] = list
    <3>1. list = [i \in 1 .. Len(list) |-> list[i]]
      BY <2>1
    <3>2. [i \in 1 .. Len(list) |-> p.groups[i].cells] = [i \in 1 .. Len(list) |-> list[i]]
      BY <2>1
    <3> QED BY <2>1, <3>1, <3>2
  <2>3. list \in Seq(Seq(Cells(n)))
    <3>1. Runs(n, p.blocked) \subseteq Seq(Cells(n))
      BY DEF Runs
    <3> QED BY <2>1, <3>1
  <2> DEFINE all == Claims(p)
  <2>4. /\ all \in Seq(Cells(n)) /\ Range(all) = UNION {Range(list[i]) : i \in 1 .. Len(list)}
    <3>1. all = FlattenSeq(list)
      BY <2>2 DEF Claims
    <3> QED BY <2>1, <2>3, <3>1, FlattenFacts
  <2>5. Stray(p) = 0
    <3> DEFINE bad == {i \in DOMAIN Claims(p) :
                            \/ ~Inside(Claims(p)[i], p.size)
                            \/ Caged(p) /\ \E j \in 1 .. i - 1 : Claims(p)[j] = Claims(p)[i]}
    <3>1. Stray(p) = IF bad = {} THEN 0 ELSE Min(bad)
      BY DEF Stray
    <3>2. ~Caged(p)
      BY <1>1 DEF Caged
    <3>3. \A i \in DOMAIN Claims(p) : Inside(Claims(p)[i], p.size)
      <4> HIDE DEF all
      <4>1. \A i \in DOMAIN all : all[i] \in Cells(n)
        BY <2>4
      <4> QED BY <1>1, <1>6, <4>1 DEF all
    <3>4. bad = {}
      BY <3>2, <3>3
    <3> QED BY <3>1, <3>4
  <2>6. Fillable(p) = Cells(n) \ p.blocked
    BY <1>1, FillableFacts
  <2>7. Covered(p)
    <3>1. ~Caged(p) /\ Fillable(p) \subseteq Range(Claims(p))
      BY <1>1, <2>4, <2>6 DEF Caged, Crossed
    <3> QED BY <3>1 DEF Covered
  <2> QED BY <2>5, <2>7
<1> QED BY <1>1, <1>3, <1>4, <1>5, <1>6, <1>7 DEF Sturdy

\* Its declared solution satisfies its clues.
LEMMA CrossedIsSolved ==
    ASSUME NEW p, NEW n \in 3 .. 6, NEW list, Crossed(p, n, list)
    PROVE  CluesFillable(p) /\ Obeys(p, DeclaredFilling(p))
<1> DEFINE D == DeclaredFilling(p)
<1>1. /\ n \in Nat \ {0} /\ p.kind = "kakuro" /\ p.size = n
      /\ p.given \subseteq Cells(n) \ p.blocked /\ Fillable(p) = Cells(n) \ p.blocked
  <2>1. n \in Nat \ {0} /\ p.kind = "kakuro" /\ p.size = n /\ p.given \subseteq Cells(n) \ p.blocked
    BY DEF Crossed
  <2> QED BY <2>1, FillableFacts
<1>2. \A c \in Fillable(p) : Declared(p, c) \in Int
  <2>1. \A c \in Cells(n) \ p.blocked : Declared(p, c) \in 1 .. DigitCeiling
    BY DEF Crossed
  <2>2. DigitCeiling \in Int
    BY BoundsAssumption DEF BoundsAssumption
  <2> QED BY <1>1, <2>1, <2>2
<1> DEFINE Good(r) == /\ r.kind # "distinct" => Range(r.cells) \subseteq Fillable(p)
                      /\ RuleSatisfied(r, Shown(r, D))
<1>3. ASSUME NEW c \in p.given PROVE Good(SumOf(<<c>>, Declared(p, c)))
  <2>1. c \in Fillable(p) /\ Declared(p, c) \in Int
    BY <1>1, <1>2
  <2>2. Range(<<c>>) \subseteq Fillable(p)
    BY <2>1 DEF Range
  <2>3. SumOf(<<c>>, Declared(p, c)).cells = <<c>>
    BY DEF SumOf
  <2>4. RuleSatisfied(SumOf(<<c>>, Declared(p, c)), Shown(SumOf(<<c>>, Declared(p, c)), D))
    BY <2>1, PrintedHolds DEF D
  <2> QED BY <2>2, <2>3, <2>4
<1>4. ASSUME NEW g \in Range(p.groups) PROVE Good(DistinctSum(g.cells, g.target))
  <2> DEFINE r == DistinctSum(g.cells, g.target)
  <2>1. /\ g.cells \in Runs(n, p.blocked)
        /\ g.target = Total([k \in DOMAIN g.cells |-> Declared(p, g.cells[k])])
        /\ \A a, b \in DOMAIN g.cells : Declared(p, g.cells[a]) = Declared(p, g.cells[b]) => a = b
    BY <1>1, CrossedGroups
  <2>2. r.cells = g.cells /\ r.kind = "distinctSum" /\ r.target = g.target
    BY DEF DistinctSum
  <2> HIDE DEF r
  <2>3. \A k \in DOMAIN r.cells : r.cells[k] \in Fillable(p)
    BY <1>1, <2>1, <2>2 DEF Runs
  <2> DEFINE v == [k \in DOMAIN g.cells |-> Declared(p, g.cells[k])]
  <2>4. Shown(r, D) = v
    BY <2>2, <2>3, ShownIs DEF D
  <2>5. ~HasDuplicate(v)
    BY <2>1 DEF HasDuplicate
  <2>6. Total(v) = g.target
    BY <2>1
  <2> HIDE DEF v
  <2>7. RuleSatisfied(r, Shown(r, D))
    BY <2>2, <2>4, <2>5, <2>6 DEF RuleSatisfied
  <2>8. Range(r.cells) \subseteq Fillable(p)
    BY <2>3 DEF Range
  <2> QED BY <2>7, <2>8 DEF r
<1>5. \A r \in Regions(p) : Good(r)
  <2> HIDE DEF Good
  <2>1. Regions(p) = {SumOf(<<c>>, Declared(p, c)) : c \in p.given} \cup
                     {DistinctSum(g.cells, g.target) : g \in Range(p.groups)}
    BY <1>1 DEF Regions
  <2> QED BY <1>3, <1>4, <2>1
<1>6. CluesFillable(p)
  BY <1>5 DEF CluesFillable
<1>7. Obeys(p, D)
  <2> HIDE DEF D
  <2> QED BY <1>5 DEF Obeys, Shown
<1> QED BY <1>6, <1>7 DEF D

\* What is put together from the runs and a fill is such a board.
LEMMA KakuroBoardIs ==
    ASSUME NEW n \in 3 .. 6, NEW blocked \in SUBSET Cells(n), NEW start \in Cells(n) \ blocked,
           NEW open, open = Kept(ReadingOrder(n), Cells(n) \ blocked),
           NEW runs, runs = maximalRuns(n, blocked),
           \A c \in Range(open) : \E run \in runs : c \in Range(run),
           NEW grid \in [1 .. Len(open) -> Digits], Sane(open, runs, grid),
           NEW given \in SUBSET (Cells(n) \ blocked)
    PROVE  Crossed(KakuroBoard(n, blocked, open, runs, grid, given), n, SetToSeq(runs))
<1> DEFINE list == SetToSeq(runs)
           squares == Cells(n) \ blocked
           p == KakuroBoard(n, blocked, open, runs, grid, given)
           value(c) == ValueAt(open, grid, c)
<1>1. /\ open \in Seq(squares) /\ Range(open) = squares /\ Len(open) \in Nat /\ DOMAIN open = 1 .. Len(open)
      /\ \A i, j \in 1 .. Len(open) : open[i] = open[j] => i = j
  <2>1. n \in Nat \ {0}
    OBVIOUS
  <2>2. ReadingOrder(n) \in Seq(Cells(n)) /\ IsInjective(ReadingOrder(n)) /\ Range(ReadingOrder(n)) = Cells(n)
    BY <2>1, WalkFacts
  <2>3. open = Kept(ReadingOrder(n), squares) /\ Cells(n) \cap squares = squares
    OBVIOUS
  <2> HIDE DEF squares
  <2>4. open \in Seq(Cells(n) \cap squares) /\ Range(open) = Cells(n) \cap squares /\ IsInjective(open)
    <3> DEFINE s == ReadingOrder(n)
               X == Cells(n)
    <3>1. s \in Seq(X) /\ IsInjective(s) /\ Range(s) = X /\ open = Kept(s, squares)
      BY <2>2, <2>3
    <3> HIDE DEF s, X
    <3>2. Kept(s, squares) \in Seq(X \cap squares) /\ Range(Kept(s, squares)) = Range(s) \cap squares
          /\ IsInjective(Kept(s, squares))
      BY <3>1, KeptFacts
    <3>3. open \in Seq(X \cap squares) /\ Range(open) = X \cap squares /\ IsInjective(open)
      BY <3>1, <3>2
    <3> QED BY <3>3 DEF X
  <2>5. open \in Seq(squares) /\ Range(open) = squares
    BY <2>3, <2>4
  <2>6. Len(open) \in Nat /\ DOMAIN open = 1 .. Len(open)
    BY <2>5
  <2> QED BY <2>4, <2>5, <2>6 DEF IsInjective
<1>2. /\ runs \subseteq Runs(n, blocked) /\ list \in Seq(runs) /\ Len(list) \in Nat
      /\ DOMAIN list = 1 .. Len(list) /\ Range(list) = runs
  <2>1. n \in Nat \ {0}
    OBVIOUS
  <2>2. runs \subseteq Runs(n, blocked) /\ IsFiniteSet(runs)
    BY <2>1, RunsAre
  <2> QED BY <2>2, WrittenIs
<1> HIDE DEF list, squares
<1>3. \A c \in squares : \E i \in 1 .. Len(open) : open[i] = c /\ value(c) = grid[i]
  <2> TAKE c \in squares
  <2>1. PICK i \in 1 .. Len(open) : open[i] = c
    BY <1>1 DEF Range
  <2>2. Place(open, c) = i
    BY <1>1, <2>1, PlaceFacts
  <2>3. value(c) = grid[i]
    BY <2>2 DEF ValueAt, Place
  <2> QED BY <2>1, <2>3
<1> HIDE DEF value
<1>4. \A c \in squares : value(c) \in Digits
  <2> TAKE c \in squares
  <2>1. PICK i \in 1 .. Len(open) : open[i] = c /\ value(c) = grid[i]
    BY <1>3
  <2>2. grid[i] \in Digits
    OBVIOUS
  <2> QED BY <2>1, <2>2
<1>5. /\ p.kind = "kakuro" /\ p.size = n /\ p.blocked = blocked /\ p.given = given
      /\ p.solution = [r \in 1 .. n |-> [c \in 1 .. n |->
                          IF <<r - 1, c - 1>> \in blocked THEN 0 ELSE value(<<r - 1, c - 1>>)]]
      /\ p.groups = [i \in DOMAIN list |->
                        [cells |-> list[i], op |-> "+",
                         target |-> Total([k \in DOMAIN list[i] |-> value(list[i][k])])]]
  BY DEF KakuroBoard, list, value
<1> HIDE DEF p
<1>6. \A r, c \in 1 .. n : p.solution[r][c] = IF <<r - 1, c - 1>> \in blocked THEN 0 ELSE value(<<r - 1, c - 1>>)
  BY <1>5
<1>7. \A c \in squares : Declared(p, c) = value(c)
  <2> TAKE c \in squares
  <2>1. c \in Cells(n) /\ c \notin blocked
    BY DEF squares
  <2>2. c[1] + 1 \in 1 .. n /\ c[2] + 1 \in 1 .. n /\ <<(c[1] + 1) - 1, (c[2] + 1) - 1>> = c
    BY <2>1 DEF Cells
  <2>3. p.solution[c[1] + 1][c[2] + 1] = value(c)
    BY <1>6, <2>1, <2>2
  <2> QED BY <2>3 DEF Declared
<1>8. \A c \in squares : Declared(p, c) \in 1 .. DigitCeiling
  <2>1. Digits \subseteq 1 .. DigitCeiling
    BY GeneratorAssumption, BoundsAssumption DEF GeneratorAssumption, BoundsAssumption, Digits
  <2> QED BY <1>4, <1>7, <2>1
<1>9. ASSUME NEW i \in 1 .. Len(list)
      PROVE  /\ list[i] \in runs /\ list[i] \in Runs(n, blocked) /\ DOMAIN list[i] = 1 .. Len(list[i])
             /\ \A k \in DOMAIN list[i] : list[i][k] \in squares
             /\ \A a, b \in DOMAIN list[i] : list[i][a] = list[i][b] => a = b
  <2>1. list[i] \in runs /\ list[i] \in Runs(n, blocked)
    BY <1>2
  <2> DEFINE run == list[i]
  <2> HIDE DEF run
  <2>2. run \in Runs(n, blocked)
    BY <2>1 DEF run
  <2>3. /\ run \in Seq(squares) /\ DOMAIN run = 1 .. Len(run)
        /\ \A a, b \in DOMAIN run : run[a] = run[b] => a = b
    BY <2>2 DEF Runs, squares
  <2>4. \A k \in DOMAIN run : run[k] \in squares
    BY <2>3
  <2> QED BY <2>1, <2>3, <2>4 DEF run
<1>10. ASSUME NEW i \in 1 .. Len(list)
       PROVE  /\ p.groups[i] = [cells |-> list[i], op |-> "+",
                                target |-> Total([k \in DOMAIN list[i] |-> Declared(p, list[i][k])])]
              /\ \A a, b \in DOMAIN list[i] : Declared(p, list[i][a]) = Declared(p, list[i][b]) => a = b
  <2>1. [k \in DOMAIN list[i] |-> Declared(p, list[i][k])] = [k \in DOMAIN list[i] |-> value(list[i][k])]
    BY <1>7, <1>9
  <2>2. p.groups[i] = [cells |-> list[i], op |-> "+",
                       target |-> Total([k \in DOMAIN list[i] |-> value(list[i][k])])]
    BY <1>2, <1>5
  <2>3. ASSUME NEW a \in DOMAIN list[i], NEW b \in DOMAIN list[i],
               Declared(p, list[i][a]) = Declared(p, list[i][b])
        PROVE  a = b
    <3> DEFINE c == list[i][a]
               d == list[i][b]
    <3>1. c \in squares /\ d \in squares /\ c \in Range(list[i]) /\ d \in Range(list[i])
      BY <1>9 DEF Range
    <3>2. value(c) = value(d)
      BY <1>7, <2>3, <3>1
    <3> HIDE DEF c, d
    <3>3. PICK x \in 1 .. Len(open) : open[x] = c /\ value(c) = grid[x]
      BY <1>3, <3>1
    <3>4. PICK y \in 1 .. Len(open) : open[y] = d /\ value(d) = grid[y]
      BY <1>3, <3>1
    <3>5. x = y
      <4>1. DOMAIN grid = 1 .. Len(open) /\ list[i] \in runs /\ {open[x], open[y]} \subseteq Range(list[i])
        BY <1>9, <3>1, <3>3, <3>4
      <4> QED BY <3>2, <3>3, <3>4, <4>1 DEF Sane
    <3>6. c = d
      BY <3>3, <3>4, <3>5
    <3> QED BY <1>9, <3>6 DEF c, d
  <2> QED BY <2>1, <2>2, <2>3
<1>11. squares \subseteq UNION {Range(list[i]) : i \in 1 .. Len(list)}
  <2> SUFFICES ASSUME NEW c \in squares PROVE \E i \in 1 .. Len(list) : c \in Range(list[i])
    OBVIOUS
  <2>1. PICK run \in runs : c \in Range(run)
    BY <1>1
  <2>2. PICK i \in 1 .. Len(list) : run = list[i]
    BY <1>2 DEF Range
  <2> QED BY <2>1, <2>2
<1>12. list # <<>> /\ p.groups # <<>> /\ DOMAIN p.groups = 1 .. Len(list)
  <2>1. start \in squares
    BY DEF squares
  <2>2. \E i \in 1 .. Len(list) : start \in Range(list[i])
    BY <1>11, <2>1
  <2>3. DOMAIN p.groups = 1 .. Len(list)
    BY <1>2, <1>5
  <2> QED BY <1>2, <2>2, <2>3
<1>13. Len(p.solution) = n /\ \A r \in 1 .. n : Len(p.solution[r]) = n
  BY <1>5
<1>14. list \in Seq(Runs(n, blocked))
  BY <1>2
<1>15. Crossed(p, n, list)
  BY <1>5, <1>6, <1>8, <1>10, <1>11, <1>12, <1>13, <1>14 DEF Crossed, squares
<1> QED BY <1>15 DEF p, list

\* The cells that kakuro.ts blocks, and those it leaves open.
Barred(seed, n) == PickFrom(Shuffled(seed, 0, n * n).order, (2 * n * n + 3) \div 6, LAMBDA i : CellAt(n, i))
OpenCells(seed, n) == Kept(ReadingOrder(n), Cells(n) \ Barred(seed, n))

\* The board keeps some cell open.
LEMMA OpenCellsAre ==
    ASSUME NEW seed \in Nat, NEW n \in 3 .. 6
    PROVE  /\ Barred(seed, n) \in SUBSET Cells(n)
           /\ OpenCells(seed, n) \in Seq(Cells(n) \ Barred(seed, n))
           /\ Range(OpenCells(seed, n)) = Cells(n) \ Barred(seed, n)
           /\ Len(OpenCells(seed, n)) \in Nat \ {0} /\ IsInjective(OpenCells(seed, n))
           /\ Shuffled(seed, 0, n * n).at \in Nat
<1> DEFINE m == n * n
           mixed == Shuffled(seed, 0, n * n)
           blocked == Barred(seed, n)
           open == OpenCells(seed, n)
<1>1. n \in Nat \ {0}
  OBVIOUS
<1>2. /\ n \in Nat \ {0} /\ m \in Nat \ {0}
      /\ \A i \in 0 .. m - 1 : CellAt(n, i) \in Cells(n)
      /\ \A i, j \in 0 .. m - 1 : CellAt(n, i) = CellAt(n, j) => i = j
  BY <1>1, CellAtIs
<1>3. /\ mixed.order \in [1 .. m -> 0 .. m - 1] /\ mixed.at \in Nat
      /\ \A i, j \in 1 .. m : mixed.order[i] = mixed.order[j] => i = j
  <2>1. 0 \in Nat /\ m \in Nat
    BY <1>2
  <2> HIDE DEF m
  <2> QED BY <2>1, ShufflesArePermutations DEF m
<1> DEFINE k == (2 * n * n + 3) \div 6
<1>4. k \in Nat /\ k < m
  <2>1. CASE n = 3
    BY <2>1
  <2>2. CASE n = 4
    BY <2>2
  <2>3. CASE n = 5
    BY <2>3
  <2>4. CASE n = 6
    BY <2>4
  <2> QED BY <1>1, <2>1, <2>2, <2>3, <2>4
<1>5. blocked = {CellAt(n, mixed.order[i]) : i \in 1 .. k}
  BY DEF PickFrom, Barred
<1> DEFINE start == CellAt(n, mixed.order[k + 1])
<1>6. blocked \in SUBSET Cells(n) /\ start \in Cells(n) \ blocked
  <2> DEFINE order == mixed.order
  <2>1. /\ order \in [1 .. m -> 0 .. m - 1] /\ \A i, j \in 1 .. m : order[i] = order[j] => i = j
    BY <1>3
  <2>2. k + 1 \in 1 .. m /\ \A i \in 1 .. k : i \in 1 .. m /\ i # k + 1
    <3> HIDE DEF k, m
    <3> QED BY <1>2, <1>4
  <2>3. start = CellAt(n, order[k + 1]) /\ blocked = {CellAt(n, order[i]) : i \in 1 .. k}
    BY <1>5
  <2> HIDE DEF order, m, k, start, blocked
  <2>4. \A i \in 1 .. m : order[i] \in 0 .. m - 1 /\ CellAt(n, order[i]) \in Cells(n)
    BY <1>2, <2>1
  <2>5. \A i \in 1 .. k : CellAt(n, order[i]) # CellAt(n, order[k + 1])
    BY <1>2, <2>1, <2>2, <2>4
  <2> QED BY <2>2, <2>3, <2>4, <2>5
<1> HIDE DEF blocked, start, m, k
<1> DEFINE squares == Cells(n) \ blocked
<1>7. open \in Seq(squares) /\ Range(open) = squares /\ Len(open) \in Nat \ {0} /\ IsInjective(open)
  <2>0. open = Kept(ReadingOrder(n), squares)
    BY DEF OpenCells, blocked
  <2>1. ReadingOrder(n) \in Seq(Cells(n)) /\ Range(ReadingOrder(n)) = Cells(n) /\ IsInjective(ReadingOrder(n))
    BY <1>2, WalkFacts
  <2> HIDE DEF open, squares
  <2>2. open \in Seq(Cells(n) \cap squares) /\ Range(open) = Cells(n) \cap squares /\ IsInjective(open)
    BY <2>0, <2>1, KeptFacts
  <2>3. Cells(n) \cap squares = squares
    BY DEF squares
  <2> HIDE DEF open
  <2>4. open \in Seq(squares) /\ Range(open) = squares
    BY <2>2, <2>3
  <2>5. start \in Range(open)
    BY <1>6, <2>4 DEF squares
  <2>6. Len(open) # 0
    BY <2>4, <2>5 DEF Range
  <2> QED BY <2>2, <2>4, <2>6
<1> QED BY <1>3, <1>6, <1>7 DEF blocked, squares

\* kakuro.ts: in a kakuro that is not declined every open cell is in a run, no run
\* repeats a digit, and each adds up to its clue, which digits can reach.
THEOREM KakuroCandidatesAreSolved ==
    ASSUME NEW seed \in Nat, NEW n \in Nat, kakuroCandidate(seed, n).kind # "declined"
    PROVE  LET p == kakuroCandidate(seed, n) IN Undoubted(p) /\ Solved(p)
<1> DEFINE mixed == Shuffled(seed, 0, n * n)
           blocked == PickFrom(mixed.order, (2 * n * n + 3) \div 6, LAMBDA i : CellAt(n, i))
           open == Kept(ReadingOrder(n), Cells(n) \ blocked)
           runs == maximalRuns(n, blocked)
           fill == fillBoard(seed, mixed.at, open, runs)
           printed == Max({1, Rounded(Len(open), IF n <= 3 THEN 35 ELSE 50)})
           second == Shuffled(seed, fill.at, Len(open)).order
           given == PickFrom(second, printed, LAMBDA i : open[i + 1])
           p == kakuroCandidate(seed, n)
           squares == Cells(n) \ blocked
<1>1. /\ n \in 3 .. 6 /\ n \in Nat \ {0} /\ \A c \in Range(open) : \E run \in runs : c \in Range(run)
      /\ fill.grid # <<>> /\ p = KakuroBoard(n, blocked, open, runs, fill.grid, given)
  <2>1. /\ Declined("size_outside_the_format").kind = "declined"
        /\ Declined("a_cell_belongs_to_no_run").kind = "declined"
        /\ Declined("no_fill_keeps_every_run_distinct").kind = "declined"
    BY DEF Declined
  <2>2. /\ ~(n < 3 \/ n > 6) /\ ~(\E c \in Range(open) : \A run \in runs : c \notin Range(run))
        /\ ~(fill.grid = <<>>)
    BY <2>1 DEF kakuroCandidate
  <2>3. p = KakuroBoard(n, blocked, open, runs, fill.grid, given)
    BY <2>2 DEF kakuroCandidate
  <2>4. n \in 3 .. 6 /\ n \in Nat \ {0}
    BY <2>2
  <2> QED BY <2>2, <2>3, <2>4
<1> HIDE DEF p
<1>7. /\ blocked \in SUBSET Cells(n) /\ open \in Seq(squares) /\ Range(open) = squares
      /\ Len(open) \in Nat \ {0} /\ mixed.at \in Nat
  <2>1. blocked = Barred(seed, n) /\ open = OpenCells(seed, n)
    BY DEF Barred, OpenCells
  <2> HIDE DEF blocked, open
  <2> QED BY <1>1, <2>1, OpenCellsAre
<1> HIDE DEF blocked
<1>8. fill.at \in Nat /\ fill.grid \in [1 .. Len(open) -> Digits] /\ Sane(open, runs, fill.grid)
  <2> DEFINE at == mixed.at
  <2>1. at \in Nat
    BY <1>7
  <2> HIDE DEF at, open, runs
  <2>2. LET f == fillBoard(seed, at, open, runs)
        IN  /\ f.at \in Nat
            /\ f.grid # <<>> => f.grid \in [1 .. Len(open) -> Digits] /\ Sane(open, runs, f.grid)
    BY <1>7, <2>1, FillBoardIs
  <2> QED BY <1>1, <2>2 DEF at
<1> HIDE DEF fill
<1>9. given \subseteq squares
  <2> DEFINE N == Len(open)
  <2>1. Rounded(N, IF n <= 3 THEN 35 ELSE 50) \in 0 .. N
    <3>1. N \in Nat \ {0}
      BY <1>7
    <3> HIDE DEF N
    <3> QED BY <3>1 DEF Rounded
  <2>2. printed \in 1 .. N /\ N \in Nat \ {0}
    <3> DEFINE x == Rounded(N, IF n <= 3 THEN 35 ELSE 50)
    <3>1. x \in 0 .. N /\ N \in Nat \ {0}
      BY <1>7, <2>1
    <3> HIDE DEF x, N
    <3>2. Max({1, x}) \in 1 .. N
      BY <3>1, AtLeastOne
    <3> QED BY <3>1, <3>2 DEF x, N
  <2>3. second \in [1 .. N -> 0 .. N - 1]
    <3> DEFINE at == fill.at
    <3>1. at \in Nat /\ N \in Nat
      BY <1>8, <2>2
    <3> HIDE DEF at, N
    <3>2. Shuffled(seed, at, N).order \in [1 .. N -> 0 .. N - 1]
      BY <3>1, ShufflesArePermutations
    <3> QED BY <3>2 DEF at, N
  <2>4. given = {open[second[i] + 1] : i \in 1 .. printed}
    BY DEF PickFrom
  <2> HIDE DEF second, printed, given, N
  <2>5. \A i \in 1 .. printed : second[i] + 1 \in 1 .. N
    BY <2>2, <2>3
  <2>6. \A i \in 1 .. N : open[i] \in squares
    <3> HIDE DEF open, squares
    <3> QED BY <1>7 DEF N
  <2> HIDE DEF open, squares
  <2> QED BY <2>4, <2>5, <2>6
<1> HIDE DEF given
<1>10. Crossed(p, n, SetToSeq(runs))
  <2> DEFINE grid == fill.grid
  <2>1. p = KakuroBoard(n, blocked, open, runs, grid, given) /\ given \in SUBSET (Cells(n) \ blocked)
        /\ grid \in [1 .. Len(open) -> Digits] /\ Sane(open, runs, grid)
        /\ \A c \in Range(open) : \E run \in runs : c \in Range(run)
    BY <1>1, <1>8, <1>9
  <2>2. open = Kept(ReadingOrder(n), Cells(n) \ blocked) /\ runs = maximalRuns(n, blocked)
    OBVIOUS
  <2> HIDE DEF open, runs, grid
  <2>4. blocked \in SUBSET Cells(n) /\ n \in 3 .. 6
    BY <1>1, <1>7
  <2>5. PICK start \in Cells(n) \ blocked : TRUE
    <3>1. open[1] \in Range(open)
      BY <1>7 DEF Range
    <3> QED BY <1>7, <3>1
  <2> HIDE DEF blocked, squares
  <2>3. Crossed(KakuroBoard(n, blocked, open, runs, grid, given), n, SetToSeq(runs))
    BY <2>1, <2>2, <2>4, <2>5, KakuroBoardIs
  <2> QED BY <2>1, <2>3
<1> HIDE DEF runs
<1>11. Undoubted(p)
  <2>1. Sturdy(p) /\ p.kind = "kakuro"
    <3>1. p.kind = "kakuro"
      BY <1>10 DEF Crossed
    <3> QED BY <1>1, <1>10, <3>1, CrossedIsSturdy
  <2> QED BY <2>1, SturdyIsUndoubted
<1>12. Solved(p)
  BY <1>1, <1>10, CrossedIsSolved DEF Solved
<1> QED BY <1>11, <1>12 DEF p

\* The digits of a cyclic square: none twice in a line.
Cyclic(n, c) == ((c[1] + c[2]) % n) + 1

\* So it is.
LEMMA CyclicIs ==
    ASSUME NEW n \in Nat \ {0}
    PROVE  /\ \A c \in Cells(n) : Cyclic(n, c) \in 1 .. n
           /\ \A line \in Lines(n), c, d \in Cells(n) :
                  {c, d} \subseteq Range(line) /\ Cyclic(n, c) = Cyclic(n, d) => c = d
<1> DEFINE I == 0 .. n - 1
           turn(x, y) == (x + y) % n
<1>1. \A x, y \in I : turn(x, y) = (IF x + y < n THEN x + y ELSE x + y - n) /\ turn(x, y) \in I
  <2>1. \A z \in 0 .. 2 * n - 1 : z % n = IF z < n THEN z ELSE z - n
    BY SMT
  <2> TAKE x, y \in I
  <2>2. x + y \in 0 .. 2 * n - 1
    OBVIOUS
  <2> QED BY <2>1, <2>2
<1>2. \A c : Cyclic(n, c) = turn(c[1], c[2]) + 1
  BY DEF Cyclic
<1> HIDE DEF turn
<1>3. \A i, x, y \in I : (turn(i, x) = turn(i, y) \/ turn(x, i) = turn(y, i)) => x = y
  <2> TAKE i, x, y \in I
  <2>1. turn(i, x) = (IF i + x < n THEN i + x ELSE i + x - n)
        /\ turn(i, y) = (IF i + y < n THEN i + y ELSE i + y - n)
    BY <1>1
  <2>2. turn(x, i) = (IF x + i < n THEN x + i ELSE x + i - n)
        /\ turn(y, i) = (IF y + i < n THEN y + i ELSE y + i - n)
    BY <1>1
  <2> QED BY <2>1, <2>2
<1>4. \A c \in Cells(n) : c[1] \in I /\ c[2] \in I /\ c = <<c[1], c[2]>> /\ turn(c[1], c[2]) \in I
  BY <1>1 DEF Cells
<1>5. ASSUME NEW line \in Lines(n), NEW c \in Cells(n), NEW d \in Cells(n),
             {c, d} \subseteq Range(line), Cyclic(n, c) = Cyclic(n, d)
      PROVE  c = d
  <2>1. turn(c[1], c[2]) = turn(d[1], d[2])
    BY <1>2, <1>4, <1>5
  <2>2. c[1] = d[1] \/ c[2] = d[2]
    <3>1. CASE \E i \in I : line = Row(n, i)
      <4>1. PICK i \in I : line = Row(n, i)
        BY <3>1
      <4>2. \A e \in Range(line) : e[1] = i
        BY <4>1 DEF Row, Range
      <4> QED BY <1>5, <4>2
    <3>2. CASE \E i \in I : line = Column(n, i)
      <4>1. PICK i \in I : line = Column(n, i)
        BY <3>2
      <4>2. \A e \in Range(line) : e[2] = i
        BY <4>1 DEF Column, Range
      <4> QED BY <1>5, <4>2
    <3> QED BY <3>1, <3>2 DEF Lines
  <2>3. c[1] = d[1] /\ c[2] = d[2]
    BY <1>3, <1>4, <2>1, <2>2
  <2> QED BY <1>4, <2>3
<1>6. \A c \in Cells(n) : Cyclic(n, c) \in 1 .. n
  BY <1>2, <1>4
<1> QED BY <1>5, <1>6

\* kakuro.ts says that with as many digits as a line has cells a fill always exists,
\* "so the `null` it can return is unreachable through `kakuroCandidate`": so it is.
THEOREM AFillAlwaysExists ==
    ASSUME NEW seed \in Nat, NEW n \in Nat, n <= HighestDigit
    PROVE  kakuroCandidate(seed, n) # Declined("no_fill_keeps_every_run_distinct")
<1> DEFINE mixed == Shuffled(seed, 0, n * n)
           blocked == PickFrom(mixed.order, (2 * n * n + 3) \div 6, LAMBDA i : CellAt(n, i))
           open == Kept(ReadingOrder(n), Cells(n) \ blocked)
           runs == maximalRuns(n, blocked)
           fill == fillBoard(seed, mixed.at, open, runs)
           stray == \E c \in Range(open) : \A run \in runs : c \notin Range(run)
           given == PickFrom(Shuffled(seed, fill.at, Len(open)).order,
                             Max({1, Rounded(Len(open), IF n <= 3 THEN 35 ELSE 50)}), LAMBDA i : open[i + 1])
           board == KakuroBoard(n, blocked, open, runs, fill.grid, given)
<1>1. kakuroCandidate(seed, n) = IF n < 3 \/ n > 6 THEN Declined("size_outside_the_format")
                                 ELSE IF stray THEN Declined("a_cell_belongs_to_no_run")
                                 ELSE IF fill.grid = <<>> THEN Declined("no_fill_keeps_every_run_distinct")
                                 ELSE board
  BY DEF kakuroCandidate
<1>2. /\ Declined("size_outside_the_format") # Declined("no_fill_keeps_every_run_distinct")
      /\ Declined("a_cell_belongs_to_no_run") # Declined("no_fill_keeps_every_run_distinct")
      /\ board # Declined("no_fill_keeps_every_run_distinct")
  <2>1. board.kind = "kakuro" /\ Declined("no_fill_keeps_every_run_distinct").kind = "declined"
    BY DEF KakuroBoard, Declined
  <2> QED BY <2>1 DEF Declined
<1> HIDE DEF given, board, stray
<1>3. ASSUME ~(n < 3 \/ n > 6) PROVE fill.grid # <<>>
  <2> DEFINE squares == Cells(n) \ blocked
             full == [i \in 1 .. Len(open) |-> Cyclic(n, open[i])]
             at == mixed.at
  <2>1. n \in 3 .. 6 /\ n \in Nat \ {0}
    BY <1>3
  <2>2. /\ open \in Seq(squares) /\ Len(open) \in Nat \ {0} /\ at \in Nat /\ IsInjective(open)
    <3>1. blocked = Barred(seed, n) /\ open = OpenCells(seed, n)
      BY DEF Barred, OpenCells
    <3> HIDE DEF blocked, open
    <3> QED BY <2>1, <3>1, OpenCellsAre
  <2>3. runs \subseteq Runs(n, blocked)
    <3> HIDE DEF blocked
    <3> QED BY <2>1, RunsAre
  <2>4. \A run \in runs : ~(Len(run) > HighestDigit)
    <3> HIDE DEF runs, blocked
    <3> TAKE run \in runs
    <3>1. Len(run) \in 2 .. n
      BY <2>3 DEF Runs
    <3>2. HighestDigit \in Nat
      BY GeneratorAssumption DEF GeneratorAssumption
    <3> QED BY <2>1, <3>1, <3>2
  <2> HIDE DEF at, open, runs
  <2>5. DOMAIN open = 1 .. Len(open) /\ \A i \in 1 .. Len(open) : open[i] \in Cells(n)
    <3>1. squares \subseteq Cells(n)
      OBVIOUS
    <3> HIDE DEF squares
    <3> QED BY <2>2, <3>1
  <2>6. full \in [1 .. Len(open) -> Digits]
    <3>1. \A i \in 1 .. Len(open) : Cyclic(n, open[i]) \in 1 .. n
      BY <2>1, <2>5, CyclicIs
    <3>2. 1 .. n \subseteq Digits
      BY <2>1, GeneratorAssumption DEF GeneratorAssumption, Digits
    <3> QED BY <3>1, <3>2
  <2>7. Sane(open, runs, full)
    <3> SUFFICES ASSUME NEW i \in 1 .. Len(open), NEW j \in 1 .. Len(open), NEW run \in runs,
                        {open[i], open[j]} \subseteq Range(run), full[i] = full[j]
                 PROVE  i = j
      BY DEF Sane
    <3>1. PICK line \in Lines(n) : Range(run) \subseteq Range(line)
      <4> HIDE DEF blocked
      <4> QED BY <2>3 DEF Runs
    <3>2. Cyclic(n, open[i]) = Cyclic(n, open[j]) /\ {open[i], open[j]} \subseteq Range(line)
      BY <3>1
    <3>3. open[i] = open[j]
      BY <2>1, <2>5, <3>2, CyclicIs
    <3> QED BY <2>2, <2>5, <3>3 DEF IsInjective
  <2> HIDE DEF full, squares
  <2>8. Len(open) # 0
    BY <2>2
  <2>9. fillBoard(seed, at, open, runs).grid # <<>>
    BY <2>2, <2>4, <2>6, <2>7, <2>8, FillBoardLooks
  <2> QED BY <2>9 DEF at
<1> HIDE DEF fill
<1> QED BY <1>1, <1>2, <1>3

----------------------------------------------------------------------------
\* Word search.

Letters == {Blank} \cup Range(Filler) \cup UNION {Range(w) : w \in Range(Vocabulary)}
Short(n) == {w \in Range(Vocabulary) : Len(w) <= n}

\* The grid holds the word somewhere, in some direction.
Legible(n, grid, word) ==
    \E start \in Cells(n), d \in Directions :
        \A k \in DOMAIN word : CellOf(start, d, k) \in Cells(n) /\ grid[CellOf(start, d, k)] = word[k]

\* Words in a grid, eight at most, each of them legible.
Lain(n) == {acc \in [grid : [Cells(n) -> Letters], placed : SUBSET Short(n), at : Nat] :
               /\ IsFiniteSet(acc.placed) /\ Cardinality(acc.placed) <= MaxWords
               /\ \A w \in acc.placed : Legible(n, acc.grid, w)}

\* A word that is short enough has three letters or more and no blank.
LEMMA WordsAre ==
    ASSUME NEW n, NEW w \in Short(n)
    PROVE  /\ Len(w) \in Nat /\ 3 <= Len(w) /\ Len(w) <= n /\ DOMAIN w = 1 .. Len(w)
           /\ \A k \in DOMAIN w : w[k] # Blank /\ w[k] \in Letters
<1>1. w \in Range(Vocabulary) /\ Len(w) <= n
  BY DEF Short
<1>2. w \in Seq(Range(w) \ {Blank}) /\ Len(w) >= 3
  BY <1>1, VocabularyAssumption DEF VocabularyAssumption
<1>3. Len(w) \in Nat /\ DOMAIN w = 1 .. Len(w) /\ \A k \in DOMAIN w : w[k] \in Range(w) \ {Blank}
  BY <1>2
<1>4. \A k \in DOMAIN w : w[k] \in Letters
  BY <1>1, <1>3 DEF Letters
<1> QED BY <1>1, <1>2, <1>3, <1>4

\* What stands in a grid goes on being read where only blanks are filled.
LEMMA StillLegible ==
    ASSUME NEW n, NEW grid, NEW next, \A c \in Cells(n) : grid[c] # Blank => next[c] = grid[c],
           NEW w \in Short(n), Legible(n, grid, w)
    PROVE  Legible(n, next, w)
<1>1. PICK start \in Cells(n), d \in Directions :
          \A k \in DOMAIN w : CellOf(start, d, k) \in Cells(n) /\ grid[CellOf(start, d, k)] = w[k]
  BY DEF Legible
<1>2. \A k \in DOMAIN w : w[k] # Blank
  BY WordsAre
<1>3. \A k \in DOMAIN w : CellOf(start, d, k) \in Cells(n) /\ next[CellOf(start, d, k)] = w[k]
  BY <1>1, <1>2
<1> QED BY <1>3 DEF Legible

\* A direction takes a word to other cells all the way.
LEMMA ApartOnTheWay ==
    ASSUME NEW n, NEW start \in Cells(n), NEW d \in Directions, NEW i \in Nat, NEW j \in Nat,
           CellOf(start, d, i) = CellOf(start, d, j)
    PROVE  i = j
<1>1. d[1] \in {-1, 0, 1} /\ d[2] \in {-1, 0, 1} /\ ~(d[1] = 0 /\ d[2] = 0)
  BY DEF Directions
<1>2. start[1] \in Int /\ start[2] \in Int
  BY DEF Cells
<1>3. /\ start[1] + d[1] * (i - 1) = start[1] + d[1] * (j - 1)
      /\ start[2] + d[2] * (i - 1) = start[2] + d[2] * (j - 1)
  BY DEF CellOf
<1>4. CASE d[1] = 1
  BY <1>2, <1>3, <1>4
<1>5. CASE d[1] = -1
  BY <1>2, <1>3, <1>5
<1>6. CASE d[2] = 1
  BY <1>2, <1>3, <1>6
<1>7. CASE d[2] = -1
  BY <1>2, <1>3, <1>7
<1> QED BY <1>1, <1>4, <1>5, <1>6, <1>7

\* A word written where it fits is legible, and nothing else is lost.
LEMMA WrittenFits ==
    ASSUME NEW n, NEW grid \in [Cells(n) -> Letters], NEW word \in Short(n),
           NEW start \in Cells(n), NEW d \in Directions, Fits(grid, word, start, d)
    PROVE  /\ Written(grid, word, start, d) \in [Cells(n) -> Letters]
           /\ Legible(n, Written(grid, word, start, d), word)
           /\ \A c \in Cells(n) : grid[c] # Blank => Written(grid, word, start, d)[c] = grid[c]
<1> DEFINE next == Written(grid, word, start, d)
           at(k) == CellOf(start, d, k)
           pick(c) == CHOOSE k \in DOMAIN word : at(k) = c
<1>1. DOMAIN word \subseteq Nat /\ \A k \in DOMAIN word : word[k] \in Letters /\ word[k] # Blank
  BY WordsAre
<1>2. \A k \in DOMAIN word : at(k) \in Cells(n) /\ grid[at(k)] \in {Blank, word[k]}
  BY DEF Fits
<1>3. next = [c \in Cells(n) |-> IF \E k \in DOMAIN word : at(k) = c THEN word[pick(c)] ELSE grid[c]]
  BY DEF Written
<1>4. \A i, j \in DOMAIN word : at(i) = at(j) => i = j
  BY <1>1, ApartOnTheWay
<1>5. \A c : (\E k \in DOMAIN word : at(k) = c) => pick(c) \in DOMAIN word /\ at(pick(c)) = c
  OBVIOUS
<1> HIDE DEF next, at, pick
<1>6. \A k \in DOMAIN word : next[at(k)] = word[k]
  <2> TAKE k \in DOMAIN word
  <2>1. next[at(k)] = word[pick(at(k))]
    BY <1>2, <1>3
  <2>2. pick(at(k)) = k
    BY <1>4, <1>5
  <2> QED BY <2>1, <2>2
<1>7. \A c \in Cells(n) : next[c] \in Letters
  BY <1>1, <1>3, <1>5
<1>8. next \in [Cells(n) -> Letters]
  BY <1>3, <1>7
<1>9. Legible(n, next, word)
  BY <1>2, <1>6 DEF Legible, at
<1>10. \A c \in Cells(n) : grid[c] # Blank => next[c] = grid[c]
  <2> TAKE c \in Cells(n)
  <2> HAVE grid[c] # Blank
  <2>1. CASE \E k \in DOMAIN word : at(k) = c
    <3>1. pick(c) \in DOMAIN word /\ at(pick(c)) = c /\ next[c] = word[pick(c)]
      BY <1>3, <1>5, <2>1
    <3>2. grid[at(pick(c))] \in {Blank, word[pick(c)]}
      BY <1>2, <3>1
    <3> QED BY <3>1, <3>2
  <2>2. CASE ~\E k \in DOMAIN word : at(k) = c
    BY <1>3, <2>2
  <2> QED BY <2>1, <2>2
<1> QED BY <1>8, <1>9, <1>10 DEF next

\* Every try is a cell and a direction.
LEMMA TriesAre ==
    ASSUME NEW n \in Nat \ {0}, NEW starts \in [1 .. n * n -> 0 .. n * n - 1], NEW ways \in [1 .. 8 -> 0 .. 7]
    PROVE  Tries(n, starts, ways) \in Seq([start : Cells(n), d : Directions])
<1> DEFINE X == [start : Cells(n), d : Directions]
           m == n * n
           round(i) == [j \in DOMAIN Compass |-> [start |-> CellAt(n, starts[i]), d |-> Compass[ways[j] + 1]]]
           ss == [i \in 1 .. m |-> round(i)]
<1>1. DOMAIN Compass = 1 .. 8 /\ \A i \in 1 .. 8 : Compass[i] \in Directions
  <2>1. \A i \in 1 .. 8 : Compass[i] \in ({-1, 0, 1} \X {-1, 0, 1})
    BY DEF Compass
  <2>2. \A i \in 1 .. 8 : Compass[i] # <<0, 0>>
    BY DEF Compass
  <2>3. DOMAIN Compass = 1 .. 8
    BY DEF Compass
  <2> QED BY <2>1, <2>2, <2>3 DEF Directions
<1>2. m \in Nat /\ \A i \in 0 .. m - 1 : CellAt(n, i) \in Cells(n)
  BY CellAtIs
<1>3. \A i \in 1 .. m : round(i) \in Seq(X)
  <2> TAKE i \in 1 .. m
  <2>1. starts[i] \in 0 .. m - 1
    OBVIOUS
  <2>2. CellAt(n, starts[i]) \in Cells(n)
    <3> HIDE DEF m
    <3> QED BY <1>2, <2>1
  <2>3. \A j \in 1 .. 8 : Compass[ways[j] + 1] \in Directions
    <3>1. \A j \in 1 .. 8 : ways[j] + 1 \in 1 .. 8
      <4>1. \A j \in 1 .. 8 : ways[j] \in 0 .. 7
        OBVIOUS
      <4>2. \A x \in 0 .. 7 : x + 1 \in 1 .. 8
        OBVIOUS
      <4> QED BY <4>1, <4>2
    <3> QED BY <1>1, <3>1
  <2>4. round(i) \in [1 .. 8 -> X]
    BY <1>1, <2>2, <2>3
  <2> HIDE DEF round, X
  <2>5. 8 \in Nat
    OBVIOUS
  <2> QED BY <2>4, <2>5, ListIs
<1> HIDE DEF round, X
<1>4. ss \in Seq(Seq(X))
  <2>1. ss \in [1 .. m -> Seq(X)]
    BY <1>3
  <2> HIDE DEF ss, m
  <2> QED BY <1>2, <2>1, ListIs
<1>5. FlattenSeq(ss) \in Seq(X)
  <2> HIDE DEF ss
  <2> QED BY <1>4, FlattenFacts
<1>6. Tries(n, starts, ways) = FlattenSeq(ss)
  BY DEF Tries, round
<1> QED BY <1>5, <1>6 DEF X

\* One word more, or the grid as it was.
LEMMA PlaceWordIs ==
    ASSUME NEW seed \in Nat, NEW n \in Nat \ {0}, NEW acc \in Lain(n), NEW word \in Short(n)
    PROVE  placeWord(seed, n, acc, word) \in Lain(n)
<1> DEFINE starts == Shuffled(seed, acc.at, n * n)
           ways == Shuffled(seed, starts.at, Len(Compass))
           tries == Tries(n, starts.order, ways.order)
           I == {i \in 1 .. Len(tries) : Fits(acc.grid, word, tries[i].start, tries[i].d)}
           i == SelectInSeq(tries, LAMBDA t : Fits(acc.grid, word, t.start, t.d))
           next == placeWord(seed, n, acc, word)
<1>1. /\ acc.grid \in [Cells(n) -> Letters] /\ acc.placed \in SUBSET Short(n) /\ acc.at \in Nat
      /\ IsFiniteSet(acc.placed) /\ Cardinality(acc.placed) <= MaxWords
      /\ \A w \in acc.placed : Legible(n, acc.grid, w)
      /\ acc = [grid |-> acc.grid, placed |-> acc.placed, at |-> acc.at]
  BY DEF Lain
<1>2. starts.order \in [1 .. n * n -> 0 .. n * n - 1] /\ starts.at \in Nat
  <2> DEFINE m == n * n
             at == acc.at
  <2>1. m \in Nat /\ at \in Nat
    BY <1>1, CellAtIs
  <2> HIDE DEF m, at
  <2>2. Shuffled(seed, at, m).order \in [1 .. m -> 0 .. m - 1] /\ Shuffled(seed, at, m).at \in Nat
    BY <2>1, ShufflesArePermutations
  <2> QED BY <2>2 DEF m, at
<1>3. ways.order \in [1 .. 8 -> 0 .. 7] /\ ways.at \in Nat
  <2> DEFINE at == starts.at
  <2>1. at \in Nat /\ Len(Compass) = 8 /\ 8 \in Nat /\ 8 - 1 = 7
    BY <1>2 DEF Compass
  <2> HIDE DEF at
  <2>2. Shuffled(seed, at, 8).order \in [1 .. 8 -> 0 .. 8 - 1] /\ Shuffled(seed, at, 8).at \in Nat
    BY <2>1, ShufflesArePermutations
  <2> QED BY <2>1, <2>2 DEF at
<1>4. tries \in Seq([start : Cells(n), d : Directions])
  <2> DEFINE s == starts.order
             w == ways.order
  <2>1. s \in [1 .. n * n -> 0 .. n * n - 1] /\ w \in [1 .. 8 -> 0 .. 7]
    BY <1>2, <1>3
  <2> HIDE DEF s, w
  <2>2. Tries(n, s, w) \in Seq([start : Cells(n), d : Directions])
    BY <2>1, TriesAre
  <2> QED BY <2>2 DEF s, w
<1>5. next = IF Cardinality(acc.placed) = MaxWords THEN acc
             ELSE IF i = 0 THEN [acc EXCEPT !.at = ways.at]
             ELSE [grid |-> Written(acc.grid, word, tries[i].start, tries[i].d),
                   placed |-> acc.placed \cup {word}, at |-> ways.at]
  BY DEF placeWord
<1>6. i = IF I # {} THEN Min(I) ELSE 0
  BY DEF SelectInSeq
<1> HIDE DEF tries, ways, next, i
<1>7. i # 0 => i \in I
  <2>1. I \subseteq Nat
    OBVIOUS
  <2> HIDE DEF I
  <2> QED BY <1>6, <2>1, MinIsIn
<1>8. ASSUME Cardinality(acc.placed) = MaxWords PROVE next \in Lain(n)
  BY <1>5, <1>8
<1>9. ASSUME Cardinality(acc.placed) # MaxWords, i = 0 PROVE next \in Lain(n)
  <2>1. next = [grid |-> acc.grid, placed |-> acc.placed, at |-> ways.at]
    BY <1>1, <1>5, <1>9
  <2>2. /\ next \in [grid : [Cells(n) -> Letters], placed : SUBSET Short(n), at : Nat]
        /\ next.grid = acc.grid /\ next.placed = acc.placed
    BY <1>1, <1>3, <2>1
  <2> QED BY <1>1, <2>2 DEF Lain
<1>10. ASSUME Cardinality(acc.placed) # MaxWords, i # 0 PROVE next \in Lain(n)
  <2> DEFINE start == tries[i].start
             d == tries[i].d
             grid == Written(acc.grid, word, start, d)
             placed == acc.placed \cup {word}
  <2>1. i \in 1 .. Len(tries) /\ Fits(acc.grid, word, start, d)
    BY <1>7, <1>10
  <2>2. start \in Cells(n) /\ d \in Directions
    <3> DEFINE X == [start : Cells(n), d : Directions]
    <3>1. \A x \in X : x.start \in Cells(n) /\ x.d \in Directions
      OBVIOUS
    <3> HIDE DEF X
    <3>2. tries \in Seq(X)
      BY <1>4 DEF X
    <3>3. tries[i] \in X
      BY <2>1, <3>2
    <3> QED BY <3>1, <3>3
  <2>3. next = [grid |-> grid, placed |-> placed, at |-> ways.at]
    BY <1>5, <1>10
  <2> HIDE DEF start, d
  <2>4. /\ grid \in [Cells(n) -> Letters] /\ Legible(n, grid, word)
        /\ \A c \in Cells(n) : acc.grid[c] # Blank => grid[c] = acc.grid[c]
    BY <1>1, <2>1, <2>2, WrittenFits
  <2> HIDE DEF grid
  <2>5. \A w \in placed : Legible(n, grid, w)
    <3> TAKE w \in placed
    <3>1. CASE w = word
      BY <2>4, <3>1
    <3>2. CASE w \in acc.placed
      <4> DEFINE old == acc.grid
      <4>1. (\A c \in Cells(n) : old[c] # Blank => grid[c] = old[c]) /\ w \in Short(n) /\ Legible(n, old, w)
        BY <1>1, <2>4, <3>2
      <4> HIDE DEF old
      <4> QED BY <4>1, StillLegible
    <3> QED BY <3>1, <3>2
  <2>6. IsFiniteSet(placed) /\ Cardinality(placed) <= MaxWords
    <3> DEFINE old == acc.placed
    <3>1. IsFiniteSet(old) /\ Cardinality(old) <= 8 /\ Cardinality(old) # 8
      BY <1>1, <1>10 DEF MaxWords
    <3> HIDE DEF old
    <3>2. Cardinality(old) \in Nat
      BY <3>1, FS_CardinalityType
    <3>3. /\ IsFiniteSet(old \cup {word})
          /\ Cardinality(old \cup {word}) = IF word \in old THEN Cardinality(old) ELSE Cardinality(old) + 1
      BY <3>1, FS_AddElement
    <3>4. Cardinality(old \cup {word}) <= 8
      BY <3>1, <3>2, <3>3
    <3> QED BY <3>3, <3>4 DEF MaxWords, old
  <2>7. placed \in SUBSET Short(n)
    BY <1>1
  <2> HIDE DEF placed
  <2>8. next \in [grid : [Cells(n) -> Letters], placed : SUBSET Short(n), at : Nat]
    BY <1>3, <2>3, <2>4, <2>7
  <2>9. next.grid = grid /\ next.placed = placed
    BY <2>3
  <2> QED BY <2>5, <2>6, <2>8, <2>9 DEF Lain
<1> QED BY <1>8, <1>9, <1>10 DEF next

\* Laid one after the other, all the words that were placed are legible.
LEMMA LaidAre ==
    ASSUME NEW seed \in Nat, NEW from \in Nat, NEW n \in Nat \ {0}, NEW words \in Seq(Short(n))
    PROVE  laidWords(seed, n, from, words) \in Lain(n)
<1> DEFINE m == Len(words)
           s == words
           W == Lain(n)
           base == [grid |-> [c \in Cells(n) |-> Blank], placed |-> {}, at |-> from]
           step(acc, e) == placeWord(seed, n, acc, e)
           G == [x \in W \X (1 .. m) |-> step(x[1], s[x[2]])]
           Table(t) == t = [u \in SUBSET (DOMAIN s) |->
                               IF u = {} THEN base ELSE step(t[u \ {Max(u)}], s[Max(u)])]
           t == CHOOSE t : Table(t)
<1>1. m \in Nat /\ DOMAIN s = 1 .. m /\ base \in W
  <2>1. m \in Nat /\ DOMAIN s = 1 .. m
    OBVIOUS
  <2>2. base.grid \in [Cells(n) -> Letters]
    BY DEF Letters
  <2>3. IsFiniteSet({}) /\ Cardinality({}) <= MaxWords
    BY FS_EmptySet DEF MaxWords
  <2>4. base \in W
    BY <2>2, <2>3 DEF Lain
  <2> QED BY <2>1, <2>4
<1>2. \A v \in W, k \in 1 .. m : step(v, s[k]) \in W
  <2>1. \A k \in 1 .. m : s[k] \in Short(n)
    OBVIOUS
  <2> HIDE DEF s
  <2> QED BY <2>1, PlaceWordIs
<1>3. laidWords(seed, n, from, words) = t[DOMAIN s]
  BY DEF laidWords, FoldLeft, MapThenFoldSet
<1> HIDE DEF s, base, step
<1>4. \A v \in W, k \in 1 .. m : G[<<v, k>>] = step(v, s[k])
  OBVIOUS
<1>5. Steps(G, base, W, m)
  <2> HIDE DEF W, m, G
  <2> QED BY <1>1, <1>2, <1>4 DEF Steps
<1>6. PICK h \in [SUBSET (1 .. m) -> W] : Run(G, base, m, h)
  <2> HIDE DEF G, W, m
  <2> QED BY <1>5, RunsExist
<1>7. Table(h)
  <2> HIDE DEF G, W, m
  <2>1. \A u \in SUBSET (1 .. m) : u # {} => G[<<h[u \ {Max(u)}], Max(u)>>] = step(h[u \ {Max(u)}], s[Max(u)])
    <3> TAKE u \in SUBSET (1 .. m)
    <3> HAVE u # {}
    <3>1. Max(u) \in 1 .. m /\ h[u \ {Max(u)}] \in W
      BY <1>1, LastIsIn
    <3> QED BY <1>4, <3>1
  <2> QED BY <1>1, <1>6, <2>1 DEF Run
<1>8. Table(t)
  BY <1>7
<1> HIDE DEF t
<1>9. Follows(t, G, base, W, m)
  <2>1. t[{}] = base
    BY <1>8
  <2>2. ASSUME NEW k \in 1 .. m, t[1 .. (k - 1)] \in W PROVE t[1 .. k] = G[<<t[1 .. (k - 1)], k>>]
    <3>1. /\ 1 .. k \in SUBSET (1 .. m) /\ 1 .. k # {} /\ Max(1 .. k) = k
          /\ (1 .. k) \ {Max(1 .. k)} = 1 .. (k - 1)
      BY <1>1, Firsts
    <3>2. 1 .. k \in SUBSET (DOMAIN s)
      BY <1>1, <3>1
    <3>3. t[1 .. k] = step(t[(1 .. k) \ {Max(1 .. k)}], s[Max(1 .. k)])
      BY <1>8, <3>1, <3>2
    <3>4. t[1 .. k] = step(t[1 .. (k - 1)], s[k])
      BY <3>1, <3>3
    <3> HIDE DEF m, W, G
    <3> QED BY <1>4, <2>2, <3>4
  <2> QED BY <2>1, <2>2 DEF Follows
<1> HIDE DEF G, W, m
<1>10. PICK f : Trace(f, G, base, W, m) /\ f[m] = t[1 .. m]
  BY <1>5, <1>9, Unrolled
<1>11. f[m] \in W
  <2>1. m \in 0 .. m
    BY <1>1
  <2> QED BY <1>10, <2>1 DEF Trace
<1> QED BY <1>1, <1>3, <1>10, <1>11 DEF W

\* Filled up, a grid keeps what stood in it.
FilledUp(n, grid) ==
    {acc \in [grid : [Cells(n) -> Letters], at : Nat] :
        \A c \in Cells(n) : grid[c] # Blank => acc.grid[c] = grid[c]}

\* A letter more is put only where there is none.
LEMMA PaddedIs ==
    ASSUME NEW seed \in Nat, NEW n, NEW grid, NEW acc \in FilledUp(n, grid), NEW c \in Cells(n)
    PROVE  Padded(seed, acc, c) \in FilledUp(n, grid)
<1> DEFINE d == Draw(seed, acc.at, Len(Filler) - 1)
           letter == Filler[d.value + 1]
<1>1. acc.grid \in [Cells(n) -> Letters] /\ acc.at \in Nat /\ \A x \in Cells(n) : grid[x] # Blank => acc.grid[x] = grid[x]
  BY DEF FilledUp
<1>2. Filler \in Seq(Range(Filler) \ {Blank}) /\ Len(Filler) \in Nat \ {0} /\ DOMAIN Filler = 1 .. Len(Filler)
  BY VocabularyAssumption DEF VocabularyAssumption
<1>3. d.value \in 0 .. Len(Filler) - 1 /\ d.at \in Nat
  <2>1. Len(Filler) - 1 \in Int /\ Len(Filler) - 1 >= 0
    BY <1>2
  <2> QED BY <1>1, <2>1, DrawIs
<1>4. Padded(seed, acc, c) = IF acc.grid[c] # Blank THEN acc
                             ELSE [grid |-> [acc.grid EXCEPT ![c] = letter], at |-> d.at]
  BY DEF Padded
<1> HIDE DEF d
<1>5. letter \in Letters
  <2>1. d.value + 1 \in DOMAIN Filler
    BY <1>2, <1>3
  <2> QED BY <2>1 DEF Letters, Range
<1> HIDE DEF letter
<1>6. CASE acc.grid[c] # Blank
  BY <1>4, <1>6
<1>7. CASE acc.grid[c] = Blank
  <2> DEFINE next == [acc.grid EXCEPT ![c] = letter]
  <2>1. next \in [Cells(n) -> Letters] /\ \A x \in Cells(n) : x # c => next[x] = acc.grid[x]
    BY <1>1, <1>5
  <2>2. \A x \in Cells(n) : grid[x] # Blank => next[x] = grid[x]
    BY <1>1, <1>7, <2>1
  <2>3. Padded(seed, acc, c) = [grid |-> next, at |-> d.at]
    BY <1>4, <1>7
  <2> HIDE DEF next
  <2> QED BY <1>3, <2>1, <2>2, <2>3 DEF FilledUp
<1> QED BY <1>6, <1>7

\* The whole grid filled up.
LEMMA PaddedGridIs ==
    ASSUME NEW seed \in Nat, NEW n \in Nat \ {0}, NEW laid \in Lain(n)
    PROVE  FoldLeft(LAMBDA acc, c : Padded(seed, acc, c), [grid |-> laid.grid, at |-> laid.at], ReadingOrder(n)) \in FilledUp(n, laid.grid)
<1> DEFINE m == (n * n)
           s == ReadingOrder(n)
           W == FilledUp(n, laid.grid)
           base == [grid |-> laid.grid, at |-> laid.at]
           step(acc, e) == Padded(seed, acc, e)
           G == [x \in W \X (1 .. m) |-> step(x[1], s[x[2]])]
           Table(t) == t = [u \in SUBSET (DOMAIN s) |->
                               IF u = {} THEN base ELSE step(t[u \ {Max(u)}], s[Max(u)])]
           t == CHOOSE t : Table(t)
<1>1. m \in Nat /\ DOMAIN s = 1 .. m /\ base \in W
  <2>1. m \in Nat /\ DOMAIN s = 1 .. m
    BY WalkFacts
  <2>2. laid.grid \in [Cells(n) -> Letters] /\ laid.at \in Nat
    BY DEF Lain
  <2>3. base \in W
    BY <2>2 DEF FilledUp
  <2> QED BY <2>1, <2>3
<1>2. \A v \in W, k \in 1 .. m : step(v, s[k]) \in W
  <2>1. \A k \in 1 .. m : s[k] \in Cells(n)
    BY WalkFacts
  <2> HIDE DEF s
  <2> QED BY <2>1, PaddedIs
<1>3. FoldLeft(LAMBDA acc, c : Padded(seed, acc, c), [grid |-> laid.grid, at |-> laid.at], ReadingOrder(n)) = t[DOMAIN s]
  BY DEF FoldLeft, MapThenFoldSet
<1> HIDE DEF s, base, step
<1>4. \A v \in W, k \in 1 .. m : G[<<v, k>>] = step(v, s[k])
  OBVIOUS
<1>5. Steps(G, base, W, m)
  <2> HIDE DEF W, m, G
  <2> QED BY <1>1, <1>2, <1>4 DEF Steps
<1>6. PICK h \in [SUBSET (1 .. m) -> W] : Run(G, base, m, h)
  <2> HIDE DEF G, W, m
  <2> QED BY <1>5, RunsExist
<1>7. Table(h)
  <2> HIDE DEF G, W, m
  <2>1. \A u \in SUBSET (1 .. m) : u # {} => G[<<h[u \ {Max(u)}], Max(u)>>] = step(h[u \ {Max(u)}], s[Max(u)])
    <3> TAKE u \in SUBSET (1 .. m)
    <3> HAVE u # {}
    <3>1. Max(u) \in 1 .. m /\ h[u \ {Max(u)}] \in W
      BY <1>1, LastIsIn
    <3> QED BY <1>4, <3>1
  <2> QED BY <1>1, <1>6, <2>1 DEF Run
<1>8. Table(t)
  BY <1>7
<1> HIDE DEF t
<1>9. Follows(t, G, base, W, m)
  <2>1. t[{}] = base
    BY <1>8
  <2>2. ASSUME NEW k \in 1 .. m, t[1 .. (k - 1)] \in W PROVE t[1 .. k] = G[<<t[1 .. (k - 1)], k>>]
    <3>1. /\ 1 .. k \in SUBSET (1 .. m) /\ 1 .. k # {} /\ Max(1 .. k) = k
          /\ (1 .. k) \ {Max(1 .. k)} = 1 .. (k - 1)
      BY <1>1, Firsts
    <3>2. 1 .. k \in SUBSET (DOMAIN s)
      BY <1>1, <3>1
    <3>3. t[1 .. k] = step(t[(1 .. k) \ {Max(1 .. k)}], s[Max(1 .. k)])
      BY <1>8, <3>1, <3>2
    <3>4. t[1 .. k] = step(t[1 .. (k - 1)], s[k])
      BY <3>1, <3>3
    <3> HIDE DEF m, W, G
    <3> QED BY <1>4, <2>2, <3>4
  <2> QED BY <2>1, <2>2 DEF Follows
<1> HIDE DEF G, W, m
<1>10. PICK f : Trace(f, G, base, W, m) /\ f[m] = t[1 .. m]
  BY <1>5, <1>9, Unrolled
<1>11. f[m] \in W
  <2>1. m \in 0 .. m
    BY <1>1
  <2> QED BY <1>10, <2>1 DEF Trace
<1> QED BY <1>1, <1>3, <1>10, <1>11 DEF W

\* The words that are printed are the ones that were laid: one to eight of them.
LEMMA PrintedWords ==
    ASSUME NEW n, NEW laid \in Lain(n), laid.placed # {}
    PROVE  LET q == Kept(Vocabulary, laid.placed)
           IN  q \in Seq(Short(n)) /\ Range(q) = laid.placed /\ Len(q) \in 1 .. 8
<1> DEFINE S == laid.placed
           q == Kept(Vocabulary, S)
           m == Len(q)
<1>1. S \subseteq Short(n) /\ IsFiniteSet(S) /\ Cardinality(S) <= 8 /\ S # {}
  BY DEF Lain, MaxWords
<1>2. S \subseteq Range(Vocabulary)
  BY <1>1 DEF Short
<1> HIDE DEF S
<1>3. Vocabulary \in Seq(Range(Vocabulary)) /\ IsInjective(Vocabulary)
  BY VocabularyAssumption DEF VocabularyAssumption
<1>4. q \in Seq(Range(Vocabulary) \cap S) /\ Range(q) = Range(Vocabulary) \cap S /\ IsInjective(q)
  <2> DEFINE s == Vocabulary
             X == Range(Vocabulary)
  <2>1. s \in Seq(X) /\ IsInjective(s)
    BY <1>3
  <2> HIDE DEF s, X
  <2>2. Kept(s, S) \in Seq(X \cap S) /\ Range(Kept(s, S)) = Range(s) \cap S /\ IsInjective(Kept(s, S))
    BY <2>1, KeptFacts
  <2> QED BY <2>2 DEF s, X
<1> HIDE DEF q
<1>5. q \in Seq(S) /\ Range(q) = S
  <2>1. Range(Vocabulary) \cap S = S
    BY <1>2
  <2> QED BY <1>4, <2>1
<1>6. q \in Seq(Short(n))
  <2> DEFINE T == Short(n)
  <2>1. S \subseteq T
    BY <1>1
  <2> HIDE DEF T
  <2>2. q \in Seq(T)
    BY <1>5, <2>1
  <2> QED BY <2>2 DEF T
<1>7. m \in Nat /\ DOMAIN q = 1 .. m /\ q = [k \in 1 .. m |-> q[k]] /\ m # 0
  <2>1. m \in Nat /\ DOMAIN q = 1 .. m /\ q = [k \in 1 .. m |-> q[k]]
    BY <1>5
  <2>2. m # 0
    BY <1>1, <1>5, <2>1 DEF Range
  <2> QED BY <2>1, <2>2
<1>8. Cardinality(1 .. m) = m /\ IsFiniteSet(1 .. m)
  <2> HIDE DEF m
  <2> QED BY <1>7, FS_Interval
<1>9. q \in Injection(1 .. m, S)
  BY <1>4, <1>5, <1>7 DEF IsInjective, Injection
<1>10. m <= Cardinality(S)
  <2> HIDE DEF m
  <2> QED BY <1>1, <1>8, <1>9, FS_Injection
<1>11. Cardinality(S) \in Nat
  BY <1>1, FS_CardinalityType
<1>12. m \in 1 .. 8
  <2> DEFINE c == Cardinality(S)
  <2>1. m \in Nat /\ m # 0 /\ c \in Nat /\ c <= 8 /\ m <= c
    BY <1>1, <1>7, <1>10, <1>11
  <2> HIDE DEF m, c
  <2> QED BY <2>1
<1> QED BY <1>5, <1>6, <1>12 DEF q, S

\* The rows of a grid, numbered from 1.
Sheet(n, full) == [r \in 1 .. n |-> [c \in 1 .. n |-> full[<<r - 1, c - 1>>]]]

\* Where a word is legible it occurs, and it occurs in finitely many places.
LEMMA LegibleOccurs ==
    ASSUME NEW n \in Nat \ {0}, NEW full, NEW w \in Short(n), Legible(n, full, w)
    PROVE  IsFiniteSet(Occurrences(Sheet(n, full), w)) /\ Cardinality(Occurrences(Sheet(n, full), w)) # 0
<1> DEFINE grid == Sheet(n, full)
           O == Occurrences(grid, w)
           I == 1 .. n
<1>1. DOMAIN grid = I /\ \A r \in I : DOMAIN grid[r] = I /\ \A c \in I : grid[r][c] = full[<<r - 1, c - 1>>]
  BY DEF Sheet
<1>2. 1 \in I
  OBVIOUS
<1> HIDE DEF grid
<1>3. O = {o \in I \X I \X Directions : ReadsAs(grid, w, o[1], o[2], o[3])}
  BY <1>1, <1>2 DEF Occurrences
<1>4. PICK start \in Cells(n), d \in Directions :
          \A k \in DOMAIN w : CellOf(start, d, k) \in Cells(n) /\ full[CellOf(start, d, k)] = w[k]
  BY DEF Legible
<1>5. start[1] \in 0 .. n - 1 /\ start[2] \in 0 .. n - 1
  BY DEF Cells
<1>6. d[1] \in Int /\ d[2] \in Int
  BY DEF Directions
<1>7. ReadsAs(grid, w, start[1] + 1, start[2] + 1, d)
  <2> SUFFICES ASSUME NEW k \in DOMAIN w
               PROVE  LET at == <<(start[1] + 1) + d[1] * (k - 1), (start[2] + 1) + d[2] * (k - 1)>>
                      IN  /\ at[1] \in DOMAIN grid
                          /\ at[2] \in DOMAIN grid[at[1]]
                          /\ grid[at[1]][at[2]] = w[k]
    BY DEF ReadsAs
  <2> DEFINE a == d[1] * (k - 1)
             b == d[2] * (k - 1)
  <2>1. k \in Nat
    BY WordsAre
  <2>2. a \in Int /\ b \in Int
    BY <1>6, <2>1
  <2>3. CellOf(start, d, k) = <<start[1] + a, start[2] + b>>
    BY DEF CellOf
  <2> HIDE DEF a, b
  <2>4. <<start[1] + a, start[2] + b>> \in Cells(n) /\ full[<<start[1] + a, start[2] + b>>] = w[k]
    BY <1>4, <2>3
  <2> DEFINE r == (start[1] + 1) + a
             c == (start[2] + 1) + b
  <2>5. r \in I /\ c \in I /\ r - 1 = start[1] + a /\ c - 1 = start[2] + b
    <3>1. start[1] + a \in 0 .. n - 1 /\ start[2] + b \in 0 .. n - 1
      BY <2>4 DEF Cells
    <3> QED BY <1>5, <2>2, <3>1
  <2> HIDE DEF r, c, I
  <2>6. r \in DOMAIN grid /\ c \in DOMAIN grid[r] /\ grid[r][c] = w[k]
    BY <1>1, <2>4, <2>5
  <2> QED BY <2>6 DEF r, c, a, b
<1>8. <<start[1] + 1, start[2] + 1, d>> \in O
  <2>1. start[1] + 1 \in I /\ start[2] + 1 \in I
    BY <1>5
  <2> QED BY <1>3, <1>7, <2>1
<1>9. IsFiniteSet(I \X I \X Directions)
  <2>1. IsFiniteSet(I)
    BY UpToIsFinite
  <2>2. IsFiniteSet({-1, 0, 1})
    <3>1. IsFiniteSet({}) /\ {-1, 0, 1} = (({} \cup {-1}) \cup {0}) \cup {1}
      BY FS_EmptySet
    <3>2. IsFiniteSet({} \cup {-1})
      BY <3>1, FS_AddElement
    <3>3. IsFiniteSet(({} \cup {-1}) \cup {0})
      BY <3>2, FS_AddElement
    <3>4. IsFiniteSet((({} \cup {-1}) \cup {0}) \cup {1})
      BY <3>3, FS_AddElement
    <3> QED BY <3>1, <3>4
  <2>3. IsFiniteSet({-1, 0, 1} \X {-1, 0, 1})
    BY <2>2, FS_Product
  <2>4. IsFiniteSet(Directions)
    BY <2>3, FS_Subset DEF Directions
  <2>5. IsFiniteSet(I \X I)
    BY <2>1, FS_Product
  <2>6. IsFiniteSet((I \X I) \X Directions)
    BY <2>4, <2>5, FS_Product
  <2> DEFINE A == (I \X I) \X Directions
             B == I \X I \X Directions
             flat == [x \in A |-> <<x[1][1], x[1][2], x[2]>>]
  <2>7. flat \in Surjection(A, B)
    <3>1. \A x \in A : flat[x] \in B
      OBVIOUS
    <3>2. \A y \in B : <<<<y[1], y[2]>>, y[3]>> \in A /\ flat[<<<<y[1], y[2]>>, y[3]>>] = y
      OBVIOUS
    <3> HIDE DEF A, B
    <3>3. flat \in [A -> B]
      BY <3>1
    <3> HIDE DEF flat
    <3> QED BY <3>2, <3>3 DEF Surjection
  <2> HIDE DEF flat
  <2> QED BY <2>6, <2>7, FS_Surjection
<1>10. IsFiniteSet(O)
  BY <1>3, <1>9, FS_Subset
<1> HIDE DEF O
<1>11. Cardinality(O) # 0
  BY <1>8, <1>10, FS_EmptySet
<1> QED BY <1>10, <1>11 DEF O, grid

\* word-search.ts: a grid is a square of letters, and every word it prints is in
\* it; that a word is not in it twice is left to the contract.
THEOREM WordSearchCandidatesAreLegible ==
    ASSUME NEW seed \in Nat, NEW n \in 3 .. 8, wordSearchCandidate(seed, n).kind # "declined"
    PROVE  LET p == wordSearchCandidate(seed, n) IN Undoubted(p) /\ Solved(p)
<1> DEFINE l == Len(Vocabulary)
           mixed == Shuffled(seed, 0, l)
           list == [i \in DOMAIN Vocabulary |-> Vocabulary[mixed.order[i] + 1]]
           words == Kept(list, {w \in Range(Vocabulary) : Len(w) <= n})
           laid == laidWords(seed, n, mixed.at, words)
           full == paddedGrid(seed, n, laid)
           p == wordSearchCandidate(seed, n)
           q == Kept(Vocabulary, laid.placed)
           board == [kind |-> "wordSearch", grid |-> Sheet(n, full), words |-> q]
<1>1. n \in Nat \ {0} /\ n \in 3 .. 8
  OBVIOUS
<1>2. Vocabulary \in Seq(Range(Vocabulary)) /\ l \in Nat /\ DOMAIN Vocabulary = 1 .. l
      /\ \A i \in 1 .. l : Vocabulary[i] \in Range(Vocabulary)
  BY VocabularyAssumption DEF VocabularyAssumption
<1>3. mixed.order \in [1 .. l -> 0 .. l - 1] /\ mixed.at \in Nat
  <2> HIDE DEF l
  <2> QED BY <1>2, ShufflesArePermutations
<1>4. p = IF laid.placed = {} THEN Declined("no_word_fits_the_grid") ELSE board
  BY DEF wordSearchCandidate, Sheet
<1>5. list \in Seq(Range(Vocabulary))
  <2> DEFINE X == Range(Vocabulary)
  <2>1. \A i \in 1 .. l : mixed.order[i] \in 0 .. l - 1
    BY <1>3
  <2> HIDE DEF mixed, l
  <2>2. \A i \in 1 .. l : mixed.order[i] + 1 \in 1 .. l
    BY <1>2, <2>1
  <2>3. \A i \in 1 .. l : Vocabulary[mixed.order[i] + 1] \in X
    BY <1>2, <2>2
  <2> HIDE DEF X
  <2>4. list \in [1 .. l -> X]
    BY <1>2, <2>3
  <2> HIDE DEF list
  <2>5. list \in Seq(X)
    BY <1>2, <2>4, ListIs
  <2> QED BY <2>5 DEF X
<1> HIDE DEF list
<1>6. words \in Seq(Short(n))
  <2> DEFINE X == Range(Vocabulary)
             S == {w \in X : Len(w) <= n}
  <2>1. X \cap S = Short(n)
    BY DEF Short
  <2>2. list \in Seq(X)
    BY <1>5
  <2> HIDE DEF S, X
  <2>3. Kept(list, S) \in Seq(X \cap S)
    BY <2>2, KeptFacts
  <2> QED BY <2>1, <2>3 DEF S, X
<1> HIDE DEF words
<1>7. laid \in Lain(n)
  <2> DEFINE at == mixed.at
  <2>1. at \in Nat
    BY <1>3
  <2> HIDE DEF at
  <2>2. laidWords(seed, n, at, words) \in Lain(n)
    BY <1>1, <1>6, <2>1, LaidAre
  <2> QED BY <2>2 DEF at
<1> HIDE DEF laid, mixed
<1>8. full \in [Cells(n) -> Letters] /\ \A c \in Cells(n) : laid.grid[c] # Blank => full[c] = laid.grid[c]
  <2> DEFINE filled == FoldLeft(LAMBDA acc, c : Padded(seed, acc, c), [grid |-> laid.grid, at |-> laid.at], ReadingOrder(n))
  <2>1. filled \in FilledUp(n, laid.grid)
    BY <1>1, <1>7, PaddedGridIs
  <2>2. full = filled.grid
    BY DEF paddedGrid
  <2> HIDE DEF filled
  <2> QED BY <2>1, <2>2 DEF FilledUp
<1> HIDE DEF full
<1>9. laid.placed # {} /\ p = board
  BY <1>4 DEF Declined
<1>10. q \in Seq(Short(n)) /\ Range(q) = laid.placed /\ Len(q) \in 1 .. 8
  <2>1. laid \in Lain(n) /\ laid.placed # {}
    BY <1>7, <1>9
  <2> QED BY <2>1, PrintedWords
<1> HIDE DEF q, p
<1>11. p.kind = "wordSearch" /\ p.grid = Sheet(n, full) /\ p.words = q
  BY <1>9
<1>12. \A w \in Range(q) : IsFiniteSet(Occurrences(p.grid, w)) /\ Cardinality(Occurrences(p.grid, w)) # 0
  <2> TAKE w \in Range(q)
  <2>1. w \in Short(n) /\ Legible(n, laid.grid, w)
    BY <1>7, <1>10 DEF Lain
  <2> DEFINE old == laid.grid
  <2>2. \A c \in Cells(n) : old[c] # Blank => full[c] = old[c]
    BY <1>8
  <2> HIDE DEF old
  <2>3. Legible(n, full, w)
    BY <2>1, <2>2, StillLegible DEF old
  <2>4. IsFiniteSet(Occurrences(Sheet(n, full), w)) /\ Cardinality(Occurrences(Sheet(n, full), w)) # 0
    BY <1>1, <2>1, <2>3, LegibleOccurs
  <2> QED BY <1>11, <2>4
<1>13. DOMAIN p.grid = 1 .. n /\ Len(p.grid) = n /\ \A row \in Range(p.grid) : row # <<>> /\ Len(row) = n
  <2> DEFINE rows == Sheet(n, full)
  <2>1. DOMAIN rows = 1 .. n /\ \A r \in 1 .. n : rows[r] = [c \in 1 .. n |-> full[<<r - 1, c - 1>>]]
    BY DEF Sheet
  <2>2. \A r \in 1 .. n : DOMAIN rows[r] = 1 .. n /\ Len(rows[r]) = n /\ rows[r] # <<>>
    BY <1>1, <2>1
  <2> HIDE DEF rows
  <2>3. Len(rows) = n
    BY <1>1, <2>1
  <2> QED BY <1>11, <2>1, <2>2, <2>3 DEF rows, Range
<1>14. WellFormed(p)
  <2>1. Len(p.grid) \in 3 .. 8 /\ Len(p.words) \in 1 .. 8
    BY <1>10, <1>11, <1>13
  <2>2. \A w \in Range(p.words) : Len(w) \in 3 .. 8
    <3> TAKE w \in Range(p.words)
    <3>1. w \in Short(n)
      BY <1>7, <1>10, <1>11 DEF Lain
    <3>2. Len(w) \in Nat /\ 3 <= Len(w) /\ Len(w) <= n
      BY <3>1, WordsAre
    <3>3. n \in Nat /\ n <= 8
      BY <1>1
    <3> DEFINE k == Len(w)
    <3>4. k \in Nat /\ 3 <= k /\ k <= n
      BY <3>2
    <3> HIDE DEF k
    <3>5. k \in 3 .. 8
      BY <3>3, <3>4
    <3> QED BY <3>5 DEF k
  <2> QED BY <1>11, <2>1, <2>2 DEF WellFormed
<1>15. Rectangular(p)
  <2>1. p.grid[1] \in Range(p.grid)
    BY <1>1, <1>13 DEF Range
  <2> QED BY <1>13, <2>1 DEF Rectangular
<1>16. Misprint(p) # 0 => Times(p) # 0
  <2> HAVE Misprint(p) # 0
  <2> DEFINE I == {i \in 1 .. Len(p.words) : Cardinality(Occurrences(p.grid, p.words[i])) # 1}
             i == Misprint(p)
  <2>1. i = IF I # {} THEN Min(I) ELSE 0
    BY DEF Misprint, SelectInSeq
  <2>2. I \subseteq Nat
    OBVIOUS
  <2>3. i \in I
    <3> HIDE DEF I
    <3> QED BY <2>1, <2>2, MinIsIn
  <2>4. i \in 1 .. Len(p.words)
    BY <2>3
  <2> HIDE DEF i, I
  <2>5. p.words[i] \in Range(q)
    BY <1>10, <1>11, <2>4 DEF Range
  <2>6. Cardinality(Occurrences(p.grid, p.words[i])) # 0
    BY <1>12, <2>5
  <2> QED BY <2>6 DEF Times, i
<1>17. FirstRejection(p) \in {"none", "word_occurs_twice"}
  <2> DEFINE X == {"solution_shape", "word_not_found", "word_occurs_twice"}
  <2>1. Checks(p) \in Seq(X)
    <3>1. Checks(p) = <<"solution_shape", "word_not_found", "word_occurs_twice">>
      BY <1>11, <1>14 DEF Checks
    <3> QED BY <3>1
  <2>2. FirstRejection(p) = "none" \/ \E tag \in X : FirstRejection(p) = tag /\ Wrong(p, tag)
    <3> HIDE DEF X
    <3> QED BY <2>1, RejectionIs
  <2>3. ~Wrong(p, "solution_shape") /\ ~Wrong(p, "word_not_found")
    BY <1>11, <1>15, <1>16 DEF Wrong
  <2> QED BY <2>2, <2>3
<1>18. Undoubted(p) /\ Solved(p)
  BY <1>11, <1>17 DEF Undoubted, Solved
<1> QED BY <1>18 DEF p

----------------------------------------------------------------------------
\* What the contract makes of a batch.

\* batch.ts: of no candidate, whatever the seed, does a check before the
\* search say anything but that a word is read twice, or that a KenKen sum is out
\* of a range it does not have to be in; and what a candidate declares is a
\* solution of the clues it prints.
THEOREM EveryCandidateIsUndoubted == \A p \in Candidates : Undoubted(p) /\ Solved(p)
<1> SUFFICES ASSUME NEW p \in Candidates PROVE Undoubted(p) /\ Solved(p)
  OBVIOUS
<1>1. PICK r \in Requests, seed \in Seeds : p = Propose(r[1], r[2], seed)
  BY DEF Candidates, Proposals
<1>2. p.kind # "declined"
  BY DEF Candidates
<1> DEFINE kind == r[1]
           n == r[2]
<1>3. seed \in Nat
  BY GeneratorAssumption DEF GeneratorAssumption
<1>4. n \in Nat /\ \/ kind \in {"kenken", "killer"} /\ n \in 3 .. 6
                   \/ kind = "wordSearch" /\ n \in 3 .. 8
                   \/ kind \in {"magicSquare", "kakuro"}
  BY RequestsAssumption DEF RequestsAssumption
<1>5. p = Propose(kind, n, seed)
  BY <1>1
<1> HIDE DEF kind, n
<1>6. CASE kind \in {"kenken", "killer"} /\ n \in 3 .. 6
  <2>1. p = cagedCandidate(kind, seed, n)
    BY <1>5, <1>6 DEF Propose
  <2> QED BY <1>2, <1>3, <1>6, <2>1, CagedCandidatesAreSolved
<1>7. CASE kind = "wordSearch" /\ n \in 3 .. 8
  <2>1. p = wordSearchCandidate(seed, n)
    BY <1>5, <1>7 DEF Propose
  <2> QED BY <1>2, <1>3, <1>7, <2>1, WordSearchCandidatesAreLegible
<1>8. CASE kind = "magicSquare"
  <2>1. p = magicSquareCandidate(seed, n)
    BY <1>5, <1>8 DEF Propose
  <2> QED BY <1>2, <1>3, <1>4, <2>1, MagicSquareCandidatesAreSolved
<1>9. CASE kind = "kakuro"
  <2>1. p = kakuroCandidate(seed, n)
    BY <1>5, <1>9 DEF Propose
  <2> QED BY <1>2, <1>3, <1>4, <2>1, KakuroCandidatesAreSolved
<1> QED BY <1>4, <1>6, <1>7, <1>8, <1>9

\* A declared solution that satisfies the regions is one that listing the
\* fillings comes to.
LEMMA DeclaredIsASolution ==
    ASSUME NEW p, Board(p), CluesFillable(p), Obeys(p, DeclaredFilling(p))
    PROVE  DeclaredFilling(p) \in SolutionsOf(p)
<1> DEFINE f == DeclaredFilling(p)
           F == Fillable(p)
           h == [c \in Free(p) |-> f[c]]
<1>1. DOMAIN f = F /\ \A c \in F : f[c] = Declared(p, c)
  BY DEF DeclaredFilling
<1>2. Obeys(p, f)
  OBVIOUS
<1>3. DomainMax(p) \in Nat \ {0}
  BY BoardFacts
<1>4. \A c \in F : f[c] \in 1 .. DomainMax(p)
  BY <1>1, DeclaredIsADigit
<1> HIDE DEF f
<1>5. \A c \in p.given : c \in F /\ f[c] = Declared(p, c)
  <2>1. DOMAIN f = F /\ \A c \in F : f[c] \in Int
    BY <1>1, <1>3, <1>4
  <2> QED BY <1>2, <2>1, PrintedIsKept
<1>6. h \in [Free(p) -> Unprinted(p)]
  <2> SUFFICES ASSUME NEW c \in Free(p) PROVE f[c] \in Unprinted(p)
    OBVIOUS
  <2>1. c \in F /\ c \notin p.given /\ f[c] \in 1 .. DomainMax(p)
    BY <1>4 DEF Free
  <2>2. ASSUME p.kind = "magicSquare", NEW b \in p.given PROVE f[c] # Declared(p, b)
    <3>1. b \in F /\ f[b] = Declared(p, b) /\ b # c
      BY <1>5, <2>1
    <3> QED BY <1>1, <1>2, <2>1, <2>2, <3>1, SquareIsDistinct
  <2> QED BY <2>1, <2>2 DEF Unprinted
<1>7. f = [c \in F |-> IF c \in p.given THEN Declared(p, c) ELSE h[c]]
  <2>1. \A c \in F : f[c] = IF c \in p.given THEN Declared(p, c) ELSE h[c]
    BY <1>5 DEF Free
  <2>2. f = [c \in F |-> f[c]]
    BY DEF f, DeclaredFilling
  <2> HIDE DEF h
  <2> QED BY <2>1, <2>2
<1>8. f \in Fillings(p)
  BY <1>6, <1>7 DEF Fillings
<1> QED BY <1>2, <1>8 DEF SolutionsOf, f

\* A verdict given without a search is what the checks found.
Unsearched == (verdict # "open" /\ problem = NoProblem) =>
                  verdict = IF FirstRejection(puzzle) = "none" THEN "playable" ELSE FirstRejection(puzzle)

\* parsePuzzle: a verdict without a search is the first thing found wrong, if any.
LEMMA UnsearchedAlways == Spec => []Unsearched
<1>1. Init => Unsearched
  BY DEF Init, Unsearched
<1>2. Unsearched /\ [Next]_vars => Unsearched'
  <2> SUFFICES ASSUME Unsearched, [Next]_vars PROVE Unsearched'
    OBVIOUS
  <2>1. CASE Validate
    <3>1. puzzle' = puzzle /\ verdict = "open"
      BY <2>1 DEF Validate
    <3>2. CASE FirstRejection(puzzle) = "none" /\ puzzle.kind # "wordSearch"
      <4>1. verdict' = "open"
        BY <2>1, <3>1, <3>2 DEF Validate
      <4> QED BY <4>1 DEF Unsearched
    <3>3. CASE ~(FirstRejection(puzzle) = "none" /\ puzzle.kind # "wordSearch")
      <4>1. verdict' = IF FirstRejection(puzzle) = "none" THEN "playable" ELSE FirstRejection(puzzle)
        BY <2>1, <3>3 DEF Validate
      <4> QED BY <3>1, <4>1 DEF Unsearched
    <3> QED BY <3>2, <3>3
  <2>2. CASE Conclude
    <3>1. problem' # NoProblem
      BY <2>2 DEF Conclude
    <3> QED BY <3>1 DEF Unsearched
  <2>3. CASE Found \/ TryValue \/ Return
    <3>1. verdict' = verdict /\ problem' = problem /\ puzzle' = puzzle
      BY <2>3 DEF Found, TryValue, Return
    <3> QED BY <3>1 DEF Unsearched
  <2>4. CASE UNCHANGED vars
    BY <2>4 DEF vars, Unsearched
  <2> QED BY <2>1, <2>2, <2>3, <2>4 DEF Next, Search
<1> QED BY <1>1, <1>2, PTL DEF Spec

\* The verdict on a candidate, from what the search found and what the
\* candidate is.
LEMMA InDoubtWhenOver ==
    SearchInv /\ ExactInv /\ VerdictIsRight /\ Unsearched => OnlyUniquenessIsInDoubt
<1> SUFFICES ASSUME SearchInv, ExactInv, VerdictIsRight, Unsearched, verdict # "open", puzzle \notin Authored
             PROVE  \/ verdict \in {"playable", "solution_not_unique", "search_budget_exhausted", "word_occurs_twice"}
                    \/ verdict = "unreachable_target" /\ RepeatingSum(puzzle)
  BY DEF OnlyUniquenessIsInDoubt
<1>1. puzzle \in Puzzles
  BY DEF SearchInv
<1>2. Undoubted(puzzle) /\ Solved(puzzle)
  <2>1. puzzle \in Candidates
    BY <1>1, ProvenanceAssumption DEF ProvenanceAssumption
  <2> QED BY <2>1, EveryCandidateIsUndoubted
<1>3. CASE problem = NoProblem
  <2>1. verdict = IF FirstRejection(puzzle) = "none" THEN "playable" ELSE FirstRejection(puzzle)
    BY <1>3 DEF Unsearched
  <2> QED BY <1>2, <2>1 DEF Undoubted
<1>4. CASE problem # NoProblem
  <2>1. Board(puzzle)
    BY <1>1, <1>4 DEF ExactInv, Board
  <2>2. verdict = Outcome
    BY <1>4 DEF ExactInv
  <2>3. CASE exhausted
    BY <2>2, <2>3 DEF Outcome
  <2>4. CASE ~exhausted
    <3>1. CluesFillable(puzzle) /\ Obeys(puzzle, DeclaredFilling(puzzle))
      BY <1>2, <2>1 DEF Solved, Board
    <3> DEFINE all == SolutionsOf(puzzle)
               told == DeclaredFilling(puzzle)
    <3>2. told \in all
      BY <2>1, <3>1, DeclaredIsASolution
    <3>3. verdict = CASE Cardinality(all) > 1 -> "solution_not_unique"
                      [] all = {told} -> "playable"
                      [] OTHER -> "solution_mismatch"
      BY <1>4, <2>4, <3>1 DEF VerdictIsRight
    <3>4. IsFiniteSet(all)
      BY <2>1, <1>4, SolutionsAreFinite
    <3> HIDE DEF all, told
    <3>5. Cardinality(all) > 1 \/ all = {told}
      <4>1. Cardinality(all) > 1 <=> \E x, y \in all : x # y
        BY <3>4, CountFacts
      <4> QED BY <3>2, <4>1
    <3> QED BY <3>3, <3>5
  <2> QED BY <2>3, <2>4
<1> QED BY <1>3, <1>4

\* "The arithmetic is true by construction and only the uniqueness is in doubt":
\* whatever the seeds, the sizes, the digits, the budget and the vocabulary, a
\* verdict on a candidate is that it is playable, that its solution is not the
\* only one, that the budget ended the search, that a word is read twice, or the
\* one rejection that the contract's own range of sums gives a KenKen cage.
THEOREM OnlyUniquenessIsEverInDoubt == Spec => []OnlyUniquenessIsInDoubt
<1> QED BY SearchInvariant, HandedOverIsLeftBehind, EveryVerdictIsRight, UnsearchedAlways, InDoubtWhenOver, PTL

=============================================================================
