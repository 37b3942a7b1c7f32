--------------------------- MODULE Treasury_proofs ---------------------------
(***************************************************************************)
(* Proofs about the treasury: sums over finite sets; the planner, for any  *)
(* policy, roster, snapshot and bound on the rounds of rebalancing; the    *)
(* executor, for any finite set of proposed plans, any opening balances    *)
(* and any number of failures, crashes and resumptions.                    *)
(***************************************************************************)
EXTENDS TreasuryPlanner, TreasuryExecutor, FiniteSetTheorems, WellFoundedInduction, TLAPS

-----------------------------------------------------------------------------
(* Sums.  SumOver adds the values of a function over a finite set in the   *)
(* order in which CHOOSE takes the elements; the lemmas say that the order *)
(* does not matter.  Induction is an appeal to a least counterexample.     *)

LEMMA NatMin ==
  ASSUME NEW T, T \subseteq Nat, T # {}
  PROVE  \E x \in T : \A y \in T : x <= y
<1>1. IsWellFoundedOn(OpToRel(<, Nat), Nat)
  BY NatLessThanWellFounded
<1>2. PICK x \in T : \A y \in T : ~(<<y, x>> \in OpToRel(<, Nat))
  BY <1>1, WFMin
<1>3. \A y \in T : ~(y < x)
  BY <1>2 DEF OpToRel
<1> QED
  BY <1>3

LEMMA SetMin ==
  ASSUME NEW S, IsFiniteSet(S), NEW T, T \subseteq SUBSET S, T # {}
  PROVE  \E s \in T : \A r \in T : r \subseteq s => r = s
<1> DEFINE C == {Cardinality(s) : s \in T}
<1>1. \A s \in T : IsFiniteSet(s) /\ Cardinality(s) \in Nat
  BY FS_Subset, FS_CardinalityType
<1>2. PICK n \in C : \A m \in C : n <= m
  <2>1. C \subseteq Nat /\ C # {}
    BY <1>1
  <2> HIDE DEF C
  <2> QED
    BY <2>1, NatMin
<1>3. PICK s \in T : Cardinality(s) = n
  BY <1>2
<1>4. ASSUME NEW r \in T, r \subseteq s, r # s PROVE FALSE
  <2>1. Cardinality(r) < Cardinality(s)
    BY <1>1, <1>4, FS_Subset
  <2>2. Cardinality(r) \in C
    BY <1>4
  <2> QED
    BY <1>1, <1>2, <1>3, <1>4, <2>1, <2>2
<1> QED
  BY <1>4

(* The recursion of the fold, and what solves it below a set.              *)
Pick1(s) == CHOOSE x \in s : TRUE
SumBody(v, g, r) == IF r = {} THEN 0 ELSE v[Pick1(r)] + g[r \ {Pick1(r)}]
Sums(v, g, S) == g = [r \in SUBSET S |-> SumBody(v, g, r)]

LEMMA PickIn == ASSUME NEW s, s # {} PROVE Pick1(s) \in s
BY DEF Pick1

LEMMA SumsAgree ==
  ASSUME NEW v, NEW S, NEW R, IsFiniteSet(S), NEW g, NEW h, Sums(v, g, S), Sums(v, h, R),
         NEW r \in SUBSET (S \cap R)
  PROVE  g[r] = h[r]
<1> DEFINE T == {q \in SUBSET (S \cap R) : g[q] # h[q]}
<1> SUFFICES ASSUME T # {} PROVE FALSE
  OBVIOUS
<1>1. PICK q \in T : \A p \in T : p \subseteq q => p = q
  <2>1. T \subseteq SUBSET S
    OBVIOUS
  <2> HIDE DEF T
  <2> QED
    BY <2>1, SetMin
<1>2. g[q] = SumBody(v, g, q) /\ h[q] = SumBody(v, h, q)
  BY DEF Sums
<1>3. q # {}
  BY <1>2 DEF SumBody
<1>4. q \ {Pick1(q)} \notin T
  BY <1>1, <1>3, PickIn
<1>5. g[q \ {Pick1(q)}] = h[q \ {Pick1(q)}]
  BY <1>4
<1> QED
  BY <1>2, <1>3, <1>5 DEF SumBody

LEMMA SumsExist ==
  ASSUME NEW v, NEW S, IsFiniteSet(S)
  PROVE  \E g : Sums(v, g, S)
<1> DEFINE T == {s \in SUBSET S : ~ \E g : Sums(v, g, s)}
<1> SUFFICES ASSUME T # {} PROVE FALSE
  OBVIOUS
<1>1. PICK s \in T : \A p \in T : p \subseteq s => p = s
  <2>1. T \subseteq SUBSET S
    OBVIOUS
  <2> HIDE DEF T
  <2> QED
    BY <2>1, SetMin
<1>2. \A r \in SUBSET s : r # s => \E g : Sums(v, g, r)
  BY <1>1
<1> DEFINE G(r) == CHOOSE g : Sums(v, g, r)
           f == [r \in SUBSET s |-> IF r = {} THEN 0 ELSE v[Pick1(r)] + G(r \ {Pick1(r)})[r \ {Pick1(r)}]]
<1>3. \A r \in SUBSET s : r # s => Sums(v, G(r), r)
  BY <1>2
<1>4. \A r \in SUBSET s : r # s => f[r] = G(r)[r]
  <2> SUFFICES ASSUME NEW r \in SUBSET s, r # s PROVE f[r] = G(r)[r]
    OBVIOUS
  <2>1. G(r)[r] = SumBody(v, G(r), r)
    <3>1. Sums(v, G(r), r)
      BY <1>3
    <3> HIDE DEF G
    <3> QED
      BY <3>1 DEF Sums
  <2>2. CASE r = {}
    BY <2>1, <2>2 DEF SumBody
  <2>3. CASE r # {}
    <3> DEFINE q == r \ {Pick1(r)}
    <3>1. q \in SUBSET s /\ q # s /\ q \subseteq r
      BY <2>3, PickIn
    <3>2. Sums(v, G(r), r) /\ Sums(v, G(q), q)
      BY <1>3, <3>1
    <3>3. IsFiniteSet(r)
      BY FS_Subset
    <3>4. G(r)[q] = G(q)[q]
      <4> HIDE DEF G, q
      <4> QED
        BY <3>1, <3>2, <3>3, SumsAgree
    <3>5. f[r] = v[Pick1(r)] + G(q)[q]
      <4> HIDE DEF G
      <4> QED
        BY <2>3
    <3> HIDE DEF G, f
    <3> QED
      BY <2>1, <2>3, <3>4, <3>5 DEF SumBody
  <2> QED
    BY <2>2, <2>3
<1>5. \A r \in SUBSET s : f[r] = SumBody(v, f, r)
  <2> SUFFICES ASSUME NEW r \in SUBSET s PROVE f[r] = SumBody(v, f, r)
    OBVIOUS
  <2>1. CASE r = {}
    BY <2>1 DEF SumBody
  <2>2. CASE r # {}
    <3> DEFINE q == r \ {Pick1(r)}
    <3>1. q \in SUBSET s /\ q # s
      BY <2>2, PickIn
    <3>2. f[q] = G(q)[q]
      BY <1>4, <3>1
    <3>3. f[r] = v[Pick1(r)] + G(q)[q]
      <4> HIDE DEF G
      <4> QED
        BY <2>2
    <3> HIDE DEF G, f
    <3> QED
      BY <2>2, <3>2, <3>3 DEF SumBody
  <2> QED
    BY <2>1, <2>2
<1>6. Sums(v, f, s)
  <2>1. f = [r \in SUBSET s |-> f[r]]
    OBVIOUS
  <2> HIDE DEF f
  <2> QED
    BY <1>5, <2>1 DEF Sums
<1> QED
  BY <1>1, <1>6

(* The sum over S is the solution's value at S, and so is the sum over any *)
(* of its subsets.                                                         *)
LEMMA SumIsSolution ==
  ASSUME NEW v, NEW S, IsFiniteSet(S)
  PROVE  \E g : Sums(v, g, S) /\ SumOver(v, S) = g[S]
<1> DEFINE h == CHOOSE g : Sums(v, g, S)
<1>1. Sums(v, h, S)
  BY SumsExist
<1>2. SumOver(v, S) = h[S]
  BY DEF SumOver, MapThenSumSet, MapThenFoldSet, Sums, SumBody, Pick1
<1> QED
  BY <1>1, <1>2

LEMMA SumBelow ==
  ASSUME NEW v, NEW S, IsFiniteSet(S), NEW g, Sums(v, g, S), NEW r \in SUBSET S
  PROVE  SumOver(v, r) = g[r]
<1>1. IsFiniteSet(r)
  BY FS_Subset
<1>2. PICK h : Sums(v, h, r) /\ SumOver(v, r) = h[r]
  BY <1>1, SumIsSolution
<1> QED
  BY <1>1, <1>2, SumsAgree

LEMMA SumEmpty == ASSUME NEW v PROVE SumOver(v, {}) = 0
<1>1. PICK g : Sums(v, g, {}) /\ SumOver(v, {}) = g[{}]
  BY SumIsSolution, FS_EmptySet
<1> QED
  BY <1>1 DEF Sums, SumBody

LEMMA SumPick ==
  ASSUME NEW v, NEW S, IsFiniteSet(S), S # {}
  PROVE  SumOver(v, S) = v[Pick1(S)] + SumOver(v, S \ {Pick1(S)})
<1>1. PICK g : Sums(v, g, S) /\ SumOver(v, S) = g[S]
  BY SumIsSolution
<1>2. SumOver(v, S \ {Pick1(S)}) = g[S \ {Pick1(S)}]
  BY <1>1, SumBelow
<1> QED
  BY <1>1, <1>2 DEF Sums, SumBody

(* Induction on finite sets for sums: a least set in T has a first element *)
(* to take off, and no smaller set is in T.                                *)
LEMMA LeastSum ==
  ASSUME NEW v, NEW S, IsFiniteSet(S), NEW T, T \subseteq SUBSET S, T # {}, {} \notin T
  PROVE  \E s \in T, c \in S :
           /\ c \in s /\ \A p \in SUBSET s : p # s => p \notin T
           /\ SumOver(v, s) = v[c] + SumOver(v, s \ {c})
<1>1. PICK s \in T : \A p \in T : p \subseteq s => p = s
  BY SetMin
<1>2. s # {} /\ IsFiniteSet(s)
  BY FS_Subset
<1>3. SumOver(v, s) = v[Pick1(s)] + SumOver(v, s \ {Pick1(s)})
  BY <1>2, SumPick
<1> DEFINE c == Pick1(s)
<1>4. c \in s /\ c \in S /\ SumOver(v, s) = v[c] + SumOver(v, s \ {c})
  BY <1>2, <1>3, PickIn
<1> HIDE DEF c
<1> QED
  BY <1>1, <1>4

LEMMA SumInt ==
  ASSUME NEW v, NEW S, IsFiniteSet(S), \A x \in S : v[x] \in Int
  PROVE  SumOver(v, S) \in Int
<1> DEFINE T == {s \in SUBSET S : SumOver(v, s) \notin Int}
<1> SUFFICES ASSUME T # {} PROVE FALSE
  OBVIOUS
<1>1. PICK s \in T, c \in S :
        /\ c \in s /\ \A p \in SUBSET s : p # s => p \notin T
        /\ SumOver(v, s) = v[c] + SumOver(v, s \ {c})
  <2>1. T \subseteq SUBSET S /\ {} \notin T
    BY SumEmpty
  <2> HIDE DEF T
  <2> QED
    BY <2>1, LeastSum
<1>2. s \ {c} \in SUBSET S /\ s \ {c} \notin T
  BY <1>1
<1>3. SumOver(v, s \ {c}) \in Int /\ v[c] \in Int /\ SumOver(v, s) \notin Int
  BY <1>2
<1> HIDE DEF T
<1> QED
  BY <1>1, <1>3

LEMMA SumTake ==
  ASSUME NEW v, NEW S, IsFiniteSet(S), \A x \in S : v[x] \in Int, NEW y \in S
  PROVE  SumOver(v, S) = v[y] + SumOver(v, S \ {y})
<1> DEFINE Wrong(s, z) == SumOver(v, s) # v[z] + SumOver(v, s \ {z})
           T == {s \in SUBSET S : \E z \in s : Wrong(s, z)}
<1> SUFFICES ASSUME T # {} PROVE FALSE
  OBVIOUS
<1>1. PICK s \in T, c \in S :
        /\ c \in s /\ \A p \in SUBSET s : p # s => p \notin T
        /\ SumOver(v, s) = v[c] + SumOver(v, s \ {c})
  <2>1. T \subseteq SUBSET S /\ {} \notin T
    OBVIOUS
  <2> HIDE DEF T
  <2> QED
    BY <2>1, LeastSum
<1>2. PICK z \in s : Wrong(s, z)
  OBVIOUS
<1>3. s \in SUBSET S /\ c # z
  BY <1>1, <1>2
<1>4. ~Wrong(s \ {c}, z) /\ ~Wrong(s \ {z}, c)
  <2>1. /\ s \ {c} \in SUBSET S /\ s \ {c} \notin T /\ z \in s \ {c}
        /\ s \ {z} \in SUBSET S /\ s \ {z} \notin T /\ c \in s \ {z}
    <3> HIDE DEF T
    <3> QED
      BY <1>1, <1>3
  <2> HIDE DEF Wrong
  <2> QED
    BY <2>1
<1> DEFINE r == (s \ {c}) \ {z}
<1>5. (s \ {z}) \ {c} = r
  OBVIOUS
<1>6. SumOver(v, r) \in Int /\ v[c] \in Int /\ v[z] \in Int
  <2>1. r \subseteq S /\ IsFiniteSet(r)
    BY <1>3, FS_Subset
  <2> HIDE DEF r, T
  <2> QED
    BY <1>3, <2>1, SumInt
<1>7. SumOver(v, s \ {c}) = v[z] + SumOver(v, r) /\ SumOver(v, s \ {z}) = v[c] + SumOver(v, r)
  BY <1>4, <1>5
<1>8. SumOver(v, s) # v[z] + SumOver(v, s \ {z})
  BY <1>2
<1> HIDE DEF r, T, Wrong
<1> QED
  BY <1>1, <1>6, <1>7, <1>8

(* The sum grows with the values, depends on them alone, and grows with    *)
(* the set if none is negative.                                            *)
LEMMA SumMono ==
  ASSUME NEW S, IsFiniteSet(S), NEW v, NEW w,
         \A x \in S : v[x] \in Int /\ w[x] \in Int /\ v[x] <= w[x]
  PROVE  SumOver(v, S) <= SumOver(w, S)
<1> DEFINE T == {s \in SUBSET S : ~(SumOver(v, s) <= SumOver(w, s))}
<1> SUFFICES ASSUME T # {} PROVE FALSE
  OBVIOUS
<1>1. PICK s \in T : \A p \in T : p \subseteq s => p = s
  <2>1. T \subseteq SUBSET S
    OBVIOUS
  <2> HIDE DEF T
  <2> QED
    BY <2>1, SetMin
<1>2. s # {} /\ IsFiniteSet(s)
  <2>1. ~(SumOver(v, s) <= SumOver(w, s)) /\ s \in SUBSET S
    OBVIOUS
  <2>2. SumOver(v, {}) <= SumOver(w, {})
    BY SumEmpty
  <2> HIDE DEF T
  <2> QED
    BY <2>1, <2>2, FS_Subset
<1> DEFINE c == Pick1(s)
<1>3. /\ c \in s
      /\ SumOver(v, s) = v[c] + SumOver(v, s \ {c})
      /\ SumOver(w, s) = w[c] + SumOver(w, s \ {c})
  BY <1>2, SumPick, PickIn
<1> HIDE DEF c
<1>4. s \ {c} \in SUBSET S /\ s \ {c} \notin T /\ IsFiniteSet(s \ {c})
  BY <1>1, <1>3, FS_Subset
<1>5. SumOver(v, s \ {c}) <= SumOver(w, s \ {c})
  BY <1>4
<1>6. SumOver(v, s \ {c}) \in Int /\ SumOver(w, s \ {c}) \in Int
  <2> HIDE DEF T
  <2>1. \A x \in s \ {c} : v[x] \in Int /\ w[x] \in Int
    BY <1>4
  <2> QED
    BY <1>4, <2>1, SumInt
<1>7. v[c] \in Int /\ w[c] \in Int /\ v[c] <= w[c] /\ ~(SumOver(v, s) <= SumOver(w, s))
  BY <1>3
<1> HIDE DEF T
<1> QED
  BY <1>5, <1>6, <1>7, <1>3

LEMMA SumSame ==
  ASSUME NEW S, IsFiniteSet(S), NEW v, NEW w, \A x \in S : v[x] \in Int /\ w[x] = v[x]
  PROVE  SumOver(v, S) = SumOver(w, S)
<1>1. SumOver(v, S) <= SumOver(w, S) /\ SumOver(w, S) <= SumOver(v, S)
  BY SumMono
<1>2. SumOver(v, S) \in Int /\ SumOver(w, S) \in Int
  BY SumInt
<1> QED
  BY <1>1, <1>2

LEMMA SumNat ==
  ASSUME NEW v, NEW S, IsFiniteSet(S), \A x \in S : v[x] \in Nat
  PROVE  SumOver(v, S) \in Nat
<1> DEFINE T == {s \in SUBSET S : SumOver(v, s) \notin Nat}
<1> SUFFICES ASSUME T # {} PROVE FALSE
  OBVIOUS
<1>1. PICK s \in T, c \in S :
        /\ c \in s /\ \A p \in SUBSET s : p # s => p \notin T
        /\ SumOver(v, s) = v[c] + SumOver(v, s \ {c})
  <2>1. SumOver(v, {}) \in Nat
    BY SumEmpty
  <2>2. T \subseteq SUBSET S /\ {} \notin T
    BY <2>1
  <2> HIDE DEF T
  <2> QED
    BY <2>2, LeastSum
<1>2. s \ {c} \in SUBSET S /\ s \ {c} \notin T
  BY <1>1
<1>3. SumOver(v, s \ {c}) \in Nat /\ v[c] \in Nat /\ SumOver(v, s) \notin Nat
  BY <1>2
<1> HIDE DEF T
<1> QED
  BY <1>1, <1>3

(* Elements whose value is nought add nothing.                             *)
LEMMA SumZeros ==
  ASSUME NEW v, NEW S, IsFiniteSet(S), \A x \in S : v[x] \in Int, NEW R \in SUBSET S,
         \A x \in S \ R : v[x] = 0
  PROVE  SumOver(v, S) = SumOver(v, R)
<1> DEFINE T == {s \in SUBSET S : SumOver(v, s) # SumOver(v, s \cap R)}
<1>1. T = {}
  <2> SUFFICES ASSUME T # {} PROVE FALSE
    OBVIOUS
  <2>1. PICK s \in T, c \in S :
          /\ c \in s /\ \A p \in SUBSET s : p # s => p \notin T
          /\ SumOver(v, s) = v[c] + SumOver(v, s \ {c})
    <3>1. T \subseteq SUBSET S /\ {} \notin T
      BY SumEmpty
    <3> HIDE DEF T
    <3> QED
      BY <3>1, LeastSum
  <2>2. s \ {c} \in SUBSET S /\ s \ {c} \notin T
    BY <2>1
  <2>3. SumOver(v, s \ {c}) = SumOver(v, (s \ {c}) \cap R)
    BY <2>2
  <2>4. SumOver(v, s) # SumOver(v, s \cap R) /\ s \in SUBSET S
    OBVIOUS
  <2>5. IsFiniteSet(s \cap R) /\ \A x \in s \cap R : v[x] \in Int
    BY <2>4, FS_Subset
  <2> HIDE DEF T
  <2>6. CASE c \in R
    <3>1. (s \ {c}) \cap R = (s \cap R) \ {c} /\ c \in s \cap R
      BY <2>1, <2>6
    <3>2. SumOver(v, s \cap R) = v[c] + SumOver(v, (s \cap R) \ {c})
      BY <2>5, <3>1, SumTake
    <3> QED
      BY <2>1, <2>3, <2>4, <3>1, <3>2
  <2>7. CASE c \notin R
    <3>1. v[c] = 0 /\ (s \ {c}) \cap R = s \cap R
      BY <2>1, <2>7
    <3>2. SumOver(v, s \cap R) \in Int
      BY <2>5, SumInt
    <3>3. SumOver(v, s \ {c}) = SumOver(v, s \cap R)
      BY <2>3, <3>1
    <3> QED
      BY <2>1, <2>4, <3>1, <3>2, <3>3
  <2> QED
    BY <2>6, <2>7
<1>2. S \cap R = R /\ SumOver(v, S) = SumOver(v, S \cap R)
  BY <1>1
<1> QED
  BY <1>2

LEMMA SumGrows ==
  ASSUME NEW v, NEW S, IsFiniteSet(S), \A x \in S : v[x] \in Nat, NEW R \in SUBSET S
  PROVE  SumOver(v, R) <= SumOver(v, S)
<1> DEFINE w == [x \in S |-> IF x \in R THEN v[x] ELSE 0]
<1>1. /\ \A x \in S : w[x] \in Int /\ v[x] \in Int /\ w[x] <= v[x]
      /\ \A x \in S \ R : w[x] = 0
      /\ \A x \in R : v[x] \in Int /\ w[x] = v[x]
  OBVIOUS
<1>2. IsFiniteSet(R)
  BY FS_Subset
<1> HIDE DEF w
<1>3. SumOver(w, S) <= SumOver(v, S)
  BY <1>1, SumMono
<1>4. SumOver(w, S) = SumOver(w, R)
  BY <1>1, SumZeros
<1>5. SumOver(v, R) = SumOver(w, R)
  BY <1>1, <1>2, SumSame
<1> QED
  BY <1>3, <1>4, <1>5

(* A sum over one element more, and over elements whose value is nought.   *)
LEMMA SumAdd ==
  ASSUME NEW v, NEW S, IsFiniteSet(S), NEW y, y \notin S, \A x \in S \cup {y} : v[x] \in Int
  PROVE  SumOver(v, S \cup {y}) = SumOver(v, S) + v[y]
<1>1. IsFiniteSet(S \cup {y})
  BY FS_AddElement
<1>2. SumOver(v, S \cup {y}) = v[y] + SumOver(v, (S \cup {y}) \ {y})
  <2> DEFINE R == S \cup {y}
  <2>1. y \in R /\ IsFiniteSet(R) /\ \A x \in R : v[x] \in Int
    BY <1>1
  <2> HIDE DEF R
  <2>2. SumOver(v, R) = v[y] + SumOver(v, R \ {y})
    BY <2>1, SumTake
  <2> QED
    BY <2>2 DEF R
<1>3. (S \cup {y}) \ {y} = S
  OBVIOUS
<1>4. SumOver(v, S) \in Int /\ v[y] \in Int
  BY SumInt
<1>5. SumOver(v, S \cup {y}) = v[y] + SumOver(v, S)
  BY <1>2, <1>3, Zenon
<1> QED
  BY <1>4, <1>5

(* The elements may be renamed, one to one.                                *)
LEMMA FiniteImage ==
  ASSUME NEW f, IsFiniteSet(DOMAIN f), f = [x \in DOMAIN f |-> f[x]]
  PROVE  IsFiniteSet({f[x] : x \in DOMAIN f})
<1> DEFINE S == DOMAIN f
           R == {f[x] : x \in S}
<1>1. f \in Surjection(S, R) /\ IsFiniteSet(S)
  BY DEF Surjection
<1> HIDE DEF R, S
<1>2. IsFiniteSet(R)
  BY <1>1, FS_Surjection
<1> QED
  BY <1>2 DEF R, S

LEMMA SumImage ==
  ASSUME NEW f, IsFiniteSet(DOMAIN f), f = [x \in DOMAIN f |-> f[x]],
         \A x, y \in DOMAIN f : f[x] = f[y] => x = y,
         NEW v, NEW w, \A x \in DOMAIN f : v[x] \in Int /\ w[f[x]] = v[x]
  PROVE  SumOver(w, {f[x] : x \in DOMAIN f}) = SumOver(v, DOMAIN f)
<1> DEFINE S == DOMAIN f
           Im(s) == {f[x] : x \in s}
           T == {s \in SUBSET S : SumOver(w, Im(s)) # SumOver(v, s)}
<1> SUFFICES ASSUME T # {} PROVE FALSE
  OBVIOUS
<1>1. PICK s \in T, c \in S :
        /\ c \in s /\ \A p \in SUBSET s : p # s => p \notin T
        /\ SumOver(v, s) = v[c] + SumOver(v, s \ {c})
  <2>1. SumOver(w, {}) = 0 /\ SumOver(v, {}) = 0 /\ Im({}) = {}
    BY SumEmpty
  <2>2. T \subseteq SUBSET S /\ {} \notin T
    BY <2>1
  <2> HIDE DEF T, S
  <2> QED
    BY <2>2, LeastSum DEF S
<1> DEFINE r == s \ {c}
<1>2. r \in SUBSET S /\ r \notin T /\ s \in SUBSET S
  BY <1>1
<1>3. SumOver(w, Im(r)) = SumOver(v, r) /\ SumOver(w, Im(s)) # SumOver(v, s)
  BY <1>2
<1>4. Im(s) = Im(r) \cup {f[c]} /\ f[c] \notin Im(r)
  BY <1>1, <1>2
<1>5. \A y \in Im(r) \cup {f[c]} : w[y] \in Int
  BY <1>2
<1>6. IsFiniteSet(Im(r))
  <2>1. IsFiniteSet(Im(S)) /\ Im(r) \subseteq Im(S)
    BY <1>2, FiniteImage
  <2> HIDE DEF Im
  <2> QED
    BY <2>1, FS_Subset
<1>7. w[f[c]] = v[c] /\ v[c] \in Int
  OBVIOUS
<1> HIDE DEF T, Im, r
<1>8. SumOver(w, Im(r) \cup {f[c]}) = SumOver(w, Im(r)) + w[f[c]]
  <2> DEFINE y == f[c]
             R == Im(r)
  <2>1. IsFiniteSet(R) /\ y \notin R /\ \A z \in R \cup {y} : w[z] \in Int
    BY <1>4, <1>5, <1>6
  <2> HIDE DEF y, R
  <2>2. SumOver(w, R \cup {y}) = SumOver(w, R) + w[y]
    BY <2>1, SumAdd
  <2> QED
    BY <2>2 DEF y, R
<1>9. SumOver(w, Im(r)) \in Int
  BY <1>5, <1>6, SumInt
<1>10. SumOver(w, Im(s)) = SumOver(w, Im(r)) + w[f[c]]
  BY <1>4, <1>8
<1>11. SumOver(v, s) = v[c] + SumOver(v, r)
  BY <1>1 DEF r
<1> QED
  BY <1>3, <1>7, <1>9, <1>10, <1>11

-----------------------------------------------------------------------------
(* What a plan adds up to.                                                 *)

Spent(body, a, n) == {i \in 1..n : body.intents[i].from = a}

LEMMA FiniteRun == ASSUME NEW n \in Nat PROVE IsFiniteSet(1..n)
BY FS_Interval

LEMMA SpentFinite ==
  ASSUME NEW b, NEW a, NEW n \in Nat
  PROVE  IsFiniteSet(Spent(b, a, n)) /\ Spent(b, a, n) \subseteq 1..n
<1>1. Spent(b, a, n) \subseteq 1..n
  BY DEF Spent
<1> QED
  BY <1>1, FiniteRun, FS_Subset

LEMMA AmountTypes ==
  ASSUME NEW b, b.intents \in Seq(Intent), NEW i \in 1..Len(b.intents)
  PROVE  /\ b.intents[i] \in Intent /\ b.intents[i].amount \in Nat
         /\ Amounts(b)[i] = b.intents[i].amount /\ Amounts(b)[i] \in Nat
         /\ Costs(b)[i] = b.intents[i].amount + FeeBuffer /\ Costs(b)[i] \in Nat
<1>1. b.intents[i] \in Intent
  <2> QED
    OBVIOUS
<1>2. b.intents[i].amount \in Nat /\ FeeBuffer \in Nat
  BY <1>1, PolicyAssumption DEF Intent
<1> QED
  BY <1>1, <1>2 DEF Amounts, Costs, Positions

(* Some of a plan's intents cost an account no more than all of them, and  *)
(* no account is credited less than nothing.                               *)
LEMMA PartialSums ==
  ASSUME NEW b, b.intents \in Seq(Intent), NEW a, NEW n \in 0..Len(b.intents)
  PROVE  /\ Debits(b, a, Len(b.intents)) \in Nat /\ Debits(b, a, n) \in Nat
         /\ Debits(b, a, n) <= Debits(b, a, Len(b.intents))
         /\ Credits(b, a, n) \in Nat /\ Total(b) \in Nat
<1> DEFINE l == Len(b.intents)
           In == {i \in 1..n : b.intents[i].to = a}
<1>1. l \in Nat /\ n \in Nat /\ 1..n \subseteq 1..l
  OBVIOUS
<1>2. \A i \in 1..l : Amounts(b)[i] \in Nat /\ Costs(b)[i] \in Nat
  BY AmountTypes
<1>3. /\ IsFiniteSet(Spent(b, a, l)) /\ IsFiniteSet(Spent(b, a, n)) /\ IsFiniteSet(1..l)
      /\ Spent(b, a, l) \subseteq 1..l /\ Spent(b, a, n) \subseteq Spent(b, a, l)
  <2>1. /\ IsFiniteSet(Spent(b, a, l)) /\ IsFiniteSet(Spent(b, a, n)) /\ IsFiniteSet(1..l)
        /\ Spent(b, a, l) \subseteq 1..l
    BY <1>1, SpentFinite, FiniteRun
  <2>2. Spent(b, a, n) \subseteq Spent(b, a, l)
    BY <1>1 DEF Spent
  <2> QED
    BY <2>1, <2>2
<1>4. IsFiniteSet(In) /\ In \subseteq 1..l
  <2>1. In \subseteq 1..l
    BY <1>1
  <2> HIDE DEF In
  <2> QED
    BY <1>3, <2>1, FS_Subset
<1> HIDE DEF l, In
<1>5. \A i \in Spent(b, a, l) : Costs(b)[i] \in Nat
  BY <1>2, <1>3
<1>6. SumOver(Costs(b), Spent(b, a, l)) \in Nat /\ SumOver(Costs(b), Spent(b, a, n)) \in Nat
  BY <1>3, <1>5, SumNat
<1>7. SumOver(Costs(b), Spent(b, a, n)) <= SumOver(Costs(b), Spent(b, a, l))
  BY <1>3, <1>5, SumGrows
<1>8. SumOver(Amounts(b), In) \in Nat /\ SumOver(Amounts(b), 1..l) \in Nat
  BY <1>2, <1>3, <1>4, SumNat
<1> QED
  BY <1>6, <1>7, <1>8 DEF Debits, Credits, Total, Positions, Spent, In, l

(* An intent more is a cost more for its source and adds to the total.     *)
CostTo(x, a) == IF x.from = a THEN x.amount + FeeBuffer ELSE 0

LEMMA AppendSums ==
  ASSUME NEW b, NEW c, NEW x \in Intent, b.intents \in Seq(Intent),
         c.intents = Append(b.intents, x), NEW a
  PROVE  /\ Total(c) = Total(b) + x.amount
         /\ Debits(c, a, Len(c.intents)) = Debits(b, a, Len(b.intents)) + CostTo(x, a)
<1> DEFINE n == Len(b.intents)
<1>1. /\ n \in Nat /\ c.intents \in Seq(Intent) /\ Len(c.intents) = n + 1
      /\ c.intents[n + 1] = x /\ \A i \in 1..n : c.intents[i] = b.intents[i]
      /\ Len(b.intents) = n
  OBVIOUS
<1> HIDE DEF n
<1>2. /\ \A i \in 1..n : /\ Amounts(b)[i] \in Int /\ Amounts(c)[i] = Amounts(b)[i]
                         /\ Costs(b)[i] \in Int /\ Costs(c)[i] = Costs(b)[i]
      /\ Amounts(c)[n + 1] = x.amount /\ Costs(c)[n + 1] = x.amount + FeeBuffer
      /\ Amounts(c)[n + 1] \in Int /\ Costs(c)[n + 1] \in Int
  <2>1. n + 1 \in 1..Len(c.intents) /\ \A i \in 1..n : i \in 1..Len(b.intents) /\ i \in 1..Len(c.intents)
    BY <1>1
  <2>2. /\ Amounts(c)[n + 1] = x.amount /\ Costs(c)[n + 1] = x.amount + FeeBuffer
        /\ Amounts(c)[n + 1] \in Nat /\ Costs(c)[n + 1] \in Nat
    BY <1>1, <2>1, AmountTypes
  <2>3. ASSUME NEW i \in 1..n
        PROVE  /\ Amounts(b)[i] \in Nat /\ Amounts(c)[i] = Amounts(b)[i]
               /\ Costs(b)[i] \in Nat /\ Costs(c)[i] = Costs(b)[i]
    <3>1. /\ Amounts(b)[i] = b.intents[i].amount /\ Amounts(b)[i] \in Nat
          /\ Costs(b)[i] = b.intents[i].amount + FeeBuffer /\ Costs(b)[i] \in Nat
      BY <2>1, AmountTypes
    <3>2. /\ Amounts(c)[i] = c.intents[i].amount
          /\ Costs(c)[i] = c.intents[i].amount + FeeBuffer
      BY <1>1, <2>1, AmountTypes
    <3> QED
      BY <1>1, <3>1, <3>2
  <2>4. \A i \in 1..n : /\ Amounts(b)[i] \in Int /\ Amounts(c)[i] = Amounts(b)[i]
                        /\ Costs(b)[i] \in Int /\ Costs(c)[i] = Costs(b)[i]
    BY <2>3
  <2> QED
    BY <2>2, <2>4
<1>3. 1..n + 1 = (1..n) \cup {n + 1} /\ n + 1 \notin 1..n /\ IsFiniteSet(1..n)
  BY <1>1, FiniteRun
<1>4. Total(c) = Total(b) + x.amount
  <2>1. SumOver(Amounts(c), (1..n) \cup {n + 1}) = SumOver(Amounts(c), 1..n) + Amounts(c)[n + 1]
    <3> DEFINE R == 1..n
               v == Amounts(c)
    <3>1. IsFiniteSet(R) /\ n + 1 \notin R /\ \A i \in R \cup {n + 1} : v[i] \in Int
      BY <1>2, <1>3
    <3> HIDE DEF R, v
    <3>2. SumOver(v, R \cup {n + 1}) = SumOver(v, R) + v[n + 1]
      BY <3>1, SumAdd
    <3> QED
      BY <3>2 DEF R, v
  <2>2. SumOver(Amounts(b), 1..n) = SumOver(Amounts(c), 1..n)
    <3> DEFINE R == 1..n
    <3>1. IsFiniteSet(R) /\ \A i \in R : Amounts(b)[i] \in Int /\ Amounts(c)[i] = Amounts(b)[i]
      BY <1>2, <1>3
    <3> HIDE DEF R
    <3>2. SumOver(Amounts(b), R) = SumOver(Amounts(c), R)
      BY <3>1, SumSame
    <3> QED
      BY <3>2 DEF R
  <2>3. Total(c) = SumOver(Amounts(c), (1..n) \cup {n + 1}) /\ Total(b) = SumOver(Amounts(b), 1..n)
    BY <1>1, <1>3 DEF Total, Positions
  <2> QED
    BY <1>2, <2>1, <2>2, <2>3
<1>5. SumOver(Costs(b), Spent(b, a, n)) = SumOver(Costs(c), Spent(b, a, n))
  <2>1. IsFiniteSet(Spent(b, a, n)) /\ Spent(b, a, n) \subseteq 1..n
    BY <1>1, SpentFinite
  <2> QED
    BY <1>2, <2>1, SumSame
<1>6. ASSUME x.from = a PROVE Debits(c, a, n + 1) = Debits(b, a, n) + x.amount + FeeBuffer
  <2> DEFINE S == Spent(b, a, n)
  <2>1. Spent(c, a, n + 1) = S \cup {n + 1}
    BY <1>1, <1>3, <1>6 DEF Spent
  <2>2. S \subseteq 1..n /\ IsFiniteSet(S) /\ n + 1 \notin S
    BY <1>1, <1>3, SpentFinite
  <2>3. \A i \in S \cup {n + 1} : Costs(c)[i] \in Int
    BY <1>2, <2>2
  <2>4. SumOver(Costs(b), S) = SumOver(Costs(c), S)
    BY <1>5
  <2> HIDE DEF S
  <2>5. SumOver(Costs(c), S \cup {n + 1}) = SumOver(Costs(c), S) + Costs(c)[n + 1]
    <3> DEFINE v == Costs(c)
               y == n + 1
    <3>1. IsFiniteSet(S) /\ y \notin S /\ \A i \in S \cup {y} : v[i] \in Int
      BY <2>2, <2>3
    <3> HIDE DEF v, y
    <3>2. SumOver(v, S \cup {y}) = SumOver(v, S) + v[y]
      BY <3>1, SumAdd
    <3> QED
      BY <3>2 DEF v, y
  <2>6. /\ Debits(c, a, n + 1) = SumOver(Costs(c), S \cup {n + 1})
        /\ Debits(b, a, n) = SumOver(Costs(b), S)
    BY <2>1 DEF Debits, Spent, S
  <2>7. x.amount \in Nat /\ FeeBuffer \in Nat
    BY PolicyAssumption DEF Intent
  <2>8. SumOver(Costs(c), S) \in Int
    BY <2>2, <2>3, SumInt
  <2> QED
    BY <1>2, <2>4, <2>5, <2>6, <2>7, <2>8
<1>7. ASSUME x.from # a PROVE Debits(c, a, n + 1) = Debits(b, a, n)
  <2>1. Spent(c, a, n + 1) = Spent(b, a, n)
    BY <1>1, <1>3, <1>7 DEF Spent
  <2> QED
    BY <1>5, <2>1 DEF Debits, Spent
<1>8. Debits(b, a, n) \in Nat
  BY <1>1, PartialSums DEF n
<1>9. Debits(c, a, n + 1) = Debits(b, a, n) + CostTo(x, a)
  BY <1>6, <1>7, <1>8, PolicyAssumption DEF Intent, CostTo
<1> QED
  BY <1>1, <1>4, <1>9 DEF n

(* The gate's floors hold for an account that a plan debits if it can pay  *)
(* all of the plan from its own balance.                                   *)
LEMMA FloorsFromOwn ==
  ASSUME NEW b, b.intents \in Seq(Intent), NEW i \in Positions(b),
         b.intents[i].from \in Accounts, b.balances[b.intents[i].from] \in Int,
         LET a == b.intents[i].from
         IN  b.balances[a] - Debits(b, a, Len(b.intents)) >= MinBalance[a]
  PROVE  KeepsFloor(b, i)
<1> DEFINE a == b.intents[i].from
<1>1. Len(b.intents) \in Nat /\ i \in 0..Len(b.intents) /\ i - 1 \in 0..Len(b.intents)
  BY DEF Positions
<1>2. /\ Debits(b, a, Len(b.intents)) \in Nat /\ Debits(b, a, i) \in Nat
      /\ Debits(b, a, i) <= Debits(b, a, Len(b.intents)) /\ Credits(b, a, i - 1) \in Nat
  BY <1>1, PartialSums
<1>3. MinBalance[a] \in Nat /\ b.balances[a] \in Int
  BY PolicyAssumption
<1>4. b.balances[a] - Debits(b, a, Len(b.intents)) >= MinBalance[a]
  OBVIOUS
<1> HIDE DEF a
<1>5. b.balances[a] - Debits(b, a, i) + Credits(b, a, i - 1) >= MinBalance[a]
  BY <1>2, <1>3, <1>4
<1> QED
  BY <1>5 DEF KeepsFloor, a

-----------------------------------------------------------------------------
(* The planner.                                                            *)

(* The accounts are booked: what is left is the snapshot less the debits   *)
(* plus the credits, and payroll credits nobody.                           *)
Booked ==
  /\ \A a \in Accounts : working[a] = snapshot[a] - debited[a] + credited[a]
  /\ phase \in {"payroll", "targets"} => \A a \in Accounts : credited[a] = 0

PlanInv == PlanTypeOK /\ Booked /\ SelfFunded /\ NoOvershoot

-----------------------------------------------------------------------------
(* Smallest of five integers is none above any of them: Math.min.          *)
LEMMA SmallestOfFive ==
  ASSUME NEW a \in Int, NEW b \in Int, NEW c \in Int, NEW d \in Int, NEW e \in Int
  PROVE  /\ Smallest({a, b, c, d, e}) \in Int
         /\ Smallest({a, b, c, d, e}) <= a /\ Smallest({a, b, c, d, e}) <= b
         /\ Smallest({a, b, c, d, e}) <= c /\ Smallest({a, b, c, d, e}) <= d
         /\ Smallest({a, b, c, d, e}) <= e
<1> DEFINE S == {a, b, c, d, e}
<1>1. \E m \in S : \A x \in S : m <= x
  <2>1. \E m \in {a, b} : m <= a /\ m <= b
    OBVIOUS
  <2>2. \E m \in {a, b, c} : m <= a /\ m <= b /\ m <= c
    BY <2>1
  <2>3. \E m \in {a, b, c, d} : m <= a /\ m <= b /\ m <= c /\ m <= d
    BY <2>2
  <2>4. \E m \in S : m <= a /\ m <= b /\ m <= c /\ m <= d /\ m <= e
    BY <2>3
  <2> QED
    BY <2>4
<1>2. Smallest(S) \in S /\ \A x \in S : Smallest(S) <= x
  BY <1>1 DEF Smallest
<1> QED
  BY <1>2

(* A move is within the donor's headroom, the per-tx cap, what the per-run *)
(* cap leaves and the receiver's deficit.                                  *)
LEMMA MoveBounds ==
  ASSUME PlanTypeOK, NEW d \in Accounts, NEW r \in Accounts
  PROVE  /\ Move(d, r) \in Int /\ Delta(d) \in Int /\ Target(d) \in Int /\ Target(r) \in Int
         /\ Move(d, r) <= Headroom(d) /\ Move(d, r) <= PerTxCap
         /\ Move(d, r) <= PerRunCap - runTotal
         /\ 100 * (working[r] + Move(d, r)) <= Target(r)
<1>1. /\ working[d] \in Nat /\ working[r] \in Nat /\ total \in Nat
      /\ MinBalance[d] \in Nat /\ FeeBuffer \in Nat /\ PerTxCap \in Int
      /\ PerRunCap \in Int /\ runTotal \in Int /\ TargetPct[d] \in Nat /\ TargetPct[r] \in Nat
  BY PolicyAssumption, PlannerAssumption DEF PlanTypeOK
<1>2. Target(d) \in Int /\ Target(r) \in Int
  BY <1>1 DEF Target
<1>3. Delta(d) \in Int /\ Delta(r) \in Int
  BY <1>1, <1>2 DEF Delta
<1>4. Headroom(d) \in Int
  BY <1>1 DEF Headroom
<1>5. /\ Move(d, r) \in Int
      /\ Move(d, r) <= (-Delta(r)) \div 100
      /\ Move(d, r) <= Headroom(d) /\ Move(d, r) <= PerTxCap
      /\ Move(d, r) <= PerRunCap - runTotal
  <2>1. (Delta(d) \div 100) \in Int /\ ((-Delta(r)) \div 100) \in Int
    BY <1>3
  <2>2. PerRunCap - runTotal \in Int
    BY <1>1
  <2> DEFINE x == Delta(d) \div 100
             y == (-Delta(r)) \div 100
             z == PerRunCap - runTotal
  <2>3. Move(d, r) = Smallest({x, y, Headroom(d), PerTxCap, z})
    BY DEF Move
  <2> HIDE DEF x, y, z
  <2>4. x \in Int /\ y \in Int /\ z \in Int /\ Headroom(d) \in Int /\ PerTxCap \in Int
    BY <2>1, <2>2, <1>1, <1>4 DEF x, y, z
  <2>5. /\ Move(d, r) \in Int /\ Move(d, r) <= y /\ Move(d, r) <= Headroom(d)
        /\ Move(d, r) <= PerTxCap /\ Move(d, r) <= z
    <3> DEFINE m == Smallest({x, y, Headroom(d), PerTxCap, z})
    <3>1. m \in Int /\ m <= x /\ m <= y /\ m <= Headroom(d) /\ m <= PerTxCap /\ m <= z
      BY <2>4, SmallestOfFive, Zenon
    <3> QED
      BY <2>3, <3>1
  <2> QED
    BY <2>5 DEF y, z
<1>6. 100 * Move(d, r) <= -Delta(r)
  BY <1>5, <1>3
<1> QED
  BY <1>1, <1>2, <1>3, <1>5, <1>6 DEF Delta

(* The types of one account's books and of the policy's numbers.           *)
LEMMA AccountTypes ==
  ASSUME PlanTypeOK, NEW a \in Accounts
  PROVE  /\ snapshot[a] \in Nat /\ working[a] \in Nat /\ debited[a] \in Nat
         /\ credited[a] \in Nat /\ MinBalance[a] \in Nat /\ FeeBuffer \in Nat
BY PolicyAssumption DEF PlanTypeOK

LEMMA RosterTypes ==
  /\ Len(Payroll) \in Nat
  /\ \A i \in 1..Len(Payroll) : Payroll[i].to \in Refs /\ Payroll[i].amount \in Int
<1> DEFINE E == [to : Refs, amount : Int]
<1>1. Payroll \in Seq(E)
  BY PlannerAssumption
<1> HIDE DEF E
<1>2. Len(Payroll) \in Nat /\ \A i \in 1..Len(Payroll) : Payroll[i] \in E
  BY <1>1
<1>3. \A e \in E : e.to \in Refs /\ e.amount \in Int
  BY DEF E
<1> QED
  BY <1>2, <1>3

(* An intent that Push appends is one the type allows.                     *)
LEMMA PushTypes ==
  ASSUME PlanTypeOK, NEW k \in Kinds, NEW f \in Accounts, NEW t \in Refs, NEW x \in Nat,
         Push(k, f, t, x), runTotal + x <= PerRunCap
  PROVE  /\ intents' \in Seq(Intent)
         /\ runTotal' \in 0..PerRunCap
         /\ debited' = [debited EXCEPT ![f] = @ + x + FeeBuffer]
         /\ debited' \in [Accounts -> Nat]
<1>1. MakeIntent(Len(intents) + 1, k, f, t, x) \in Intent
  <2>1. Len(intents) + 1 \in Nat /\ f \in Refs
    BY DEF PlanTypeOK, Refs
  <2>2. IntentId(Len(intents) + 1, k, t, x) \in Ids
    BY <2>1 DEF IntentId, Ids
  <2> QED
    BY <2>1, <2>2 DEF MakeIntent, Intent
<1> QED
  BY <1>1, PolicyAssumption DEF PlanTypeOK, Push

-----------------------------------------------------------------------------
LEMMA InitPlanInv == PlanInit => PlanInv
<1> SUFFICES ASSUME PlanInit PROVE PlanInv
  OBVIOUS
<1>1. snapshot \in [Accounts -> Nat]
  BY PlannerAssumption DEF PlanInit
<1>2. PlanTypeOK
  BY <1>1, PolicyAssumption, PlannerAssumption DEF PlanInit, PlanTypeOK
<1>3. Booked /\ SelfFunded /\ NoOvershoot
  BY <1>1 DEF PlanInit, Booked, SelfFunded, NoOvershoot
<1> QED
  BY <1>2, <1>3 DEF PlanInv

LEMMA PayEntryPlanInv == PlanInv /\ PayEntry => PlanInv'
<1> SUFFICES ASSUME PlanInv, PayEntry PROVE PlanInv'
  OBVIOUS
<1> USE DEF PlanInv
<1> DEFINE e == Payroll[entry]
<1>1. /\ e.to \in Refs /\ e.amount \in Nat /\ e.amount > 0
      /\ runTotal + e.amount <= PerRunCap
  <2>1. entry \in 1..Len(Payroll)
    BY RosterTypes DEF PayEntry, PlanTypeOK
  <2>2. e.to \in Refs /\ e.amount \in Int
    BY <2>1, RosterTypes
  <2>3. e.amount > 0 /\ runTotal + e.amount <= PerRunCap
    BY DEF PayEntry, Payable
  <2> QED
    BY <2>2, <2>3
<1>2. PICK a \in Funders(e) :
        /\ Push("payroll", a, e.to, e.amount)
        /\ working' = [working EXCEPT ![a] = @ - (e.amount + FeeBuffer)]
  BY DEF PayEntry
<1>3. a \in Accounts /\ Headroom(a) >= e.amount
  BY <1>2 DEF Funders
<1>4. /\ working[a] \in Nat /\ MinBalance[a] \in Nat /\ FeeBuffer \in Nat
      /\ working[a] - (e.amount + FeeBuffer) >= MinBalance[a]
  BY <1>1, <1>3, AccountTypes DEF Headroom
<1>5. /\ intents' \in Seq(Intent) /\ runTotal' \in 0..PerRunCap
      /\ debited' = [debited EXCEPT ![a] = @ + e.amount + FeeBuffer]
      /\ debited' \in [Accounts -> Nat]
  BY <1>1, <1>2, <1>3, PushTypes DEF Kinds
<1>6. PlanTypeOK'
  <2>1. working' \in [Accounts -> Nat]
    <3> DEFINE w == working[a] - (e.amount + FeeBuffer)
    <3>1. w \in Nat
      BY <1>1, <1>4
    <3>2. working \in [Accounts -> Nat] /\ working' = [working EXCEPT ![a] = w]
      BY <1>2 DEF PlanTypeOK
    <3> QED
      BY <1>3, <3>1, <3>2
  <2>2. entry' \in 1..Len(Payroll) + 1
    BY RosterTypes DEF PlanTypeOK, PayEntry
  <2> QED
    BY <1>5, <2>1, <2>2 DEF PlanTypeOK, PayEntry
<1>7. Booked'
  <2> SUFFICES ASSUME NEW b \in Accounts
               PROVE  working'[b] = snapshot[b] - debited'[b] + credited[b]
    BY DEF Booked, PayEntry
  <2>1. working[b] = snapshot[b] - debited[b] + credited[b]
    BY DEF Booked
  <2>2. CASE b = a
    <3>1. /\ working'[a] = working[a] - (e.amount + FeeBuffer)
          /\ debited'[a] = debited[a] + e.amount + FeeBuffer
      BY <1>2, <1>3, <1>5 DEF PlanTypeOK
    <3> QED
      BY <2>1, <2>2, <3>1, <1>1, <1>3, AccountTypes
  <2>3. CASE b # a
    BY <2>1, <2>3, <1>2, <1>5 DEF PlanTypeOK
  <2> QED
    BY <2>2, <2>3
<1>8. SelfFunded'
  <2>1. snapshot[a] - debited'[a] >= MinBalance[a]
    <3>1. debited'[a] = debited[a] + e.amount + FeeBuffer
      BY <1>3, <1>5 DEF PlanTypeOK
    <3>2. working[a] = snapshot[a] - debited[a] /\ debited[a] \in Nat /\ snapshot[a] \in Nat
      BY <1>3, AccountTypes DEF Booked, PayEntry
    <3> QED
      BY <3>1, <3>2, <1>1, <1>4
  <2> QED
    BY <2>1, <1>3, <1>5 DEF PlanTypeOK, SelfFunded, PayEntry
<1>9. NoOvershoot'
  BY DEF Booked, NoOvershoot, PayEntry
<1> QED
  BY <1>6, <1>7, <1>8, <1>9

LEMMA RebalancePlanInv == PlanInv /\ Rebalance => PlanInv'
<1> SUFFICES ASSUME PlanInv, Rebalance PROVE PlanInv'
  OBVIOUS
<1> USE DEF PlanInv
<1>1. PICK d \in Accounts, r \in Accounts :
        /\ IsDonor(d, r) /\ Move(d, r) >= MinMove
        /\ Push("rebalance", d, r, Move(d, r))
        /\ working' = [working EXCEPT ![d] = @ - (Move(d, r) + FeeBuffer),
                                      ![r] = @ + Move(d, r)]
        /\ credited' = [credited EXCEPT ![r] = @ + Move(d, r)]
  BY DEF Rebalance
<1> DEFINE m == Move(d, r)
<1>2. /\ m \in Nat /\ m > 0 /\ m <= Headroom(d) /\ runTotal + m <= PerRunCap
      /\ 100 * (working[r] + m) <= Target(r) /\ Target(r) \in Int
  <2>1. MinMove \in Nat /\ MinMove > 0 /\ runTotal \in Int /\ PerRunCap \in Int
    BY PlannerAssumption, PolicyAssumption DEF PlanTypeOK
  <2>2. /\ m \in Int /\ m <= Headroom(d) /\ m <= PerRunCap - runTotal
        /\ 100 * (working[r] + m) <= Target(r) /\ Target(r) \in Int
    BY MoveBounds
  <2> QED
    BY <2>1, <2>2, <1>1
<1>3. d # r /\ credited[d] = 0
  <2>1. 100 * working[d] - Target(d) > 0
    <3>1. MinMove \in Nat /\ MinMove > 0 /\ Delta(d) \in Int
      BY PlannerAssumption, MoveBounds
    <3>2. Delta(d) >= 100 * MinMove
      BY <1>1 DEF IsDonor, CanGive
    <3>3. Delta(d) > 0
      BY <3>1, <3>2
    <3> QED
      BY <3>3 DEF Delta
  <2>2. Target(d) \in Int /\ working[d] \in Int
    <3>1. PlanTypeOK
      OBVIOUS
    <3>2. Target(d) \in Int
      BY <3>1, MoveBounds
    <3>3. working[d] \in Int
      BY <3>1, AccountTypes
    <3> QED
      BY <3>2, <3>3
  <2>3. ~(credited[d] > 0)
    <3>1. d \in Accounts /\ (credited[d] > 0 => 100 * working[d] <= Target(d))
      BY DEF NoOvershoot
    <3>2. ~(100 * working[d] <= Target(d))
      BY <2>1, <2>2
    <3> QED
      BY <3>1, <3>2
  <2> QED
    BY <1>1, <2>3 DEF IsDonor, PlanTypeOK
<1>4. /\ working[d] \in Nat /\ MinBalance[d] \in Nat /\ FeeBuffer \in Nat
      /\ working[d] - (m + FeeBuffer) >= MinBalance[d]
  BY <1>2, AccountTypes DEF Headroom
<1>5. /\ intents' \in Seq(Intent) /\ runTotal' \in 0..PerRunCap
      /\ debited' = [debited EXCEPT ![d] = @ + m + FeeBuffer]
      /\ debited' \in [Accounts -> Nat]
  BY <1>1, <1>2, PushTypes DEF Kinds, Refs
<1>6. /\ working' \in [Accounts -> Nat] /\ credited' \in [Accounts -> Nat]
      /\ working'[d] = working[d] - (m + FeeBuffer) /\ working'[r] = working[r] + m
      /\ credited'[r] = credited[r] + m /\ credited'[d] = 0
      /\ \A a \in Accounts \ {d, r} : working'[a] = working[a] /\ credited'[a] = credited[a]
  <2>1. working \in [Accounts -> Nat] /\ credited \in [Accounts -> Nat]
    BY DEF PlanTypeOK
  <2>2. working[d] - (m + FeeBuffer) \in Nat /\ working[r] + m \in Nat /\ credited[r] + m \in Nat
    BY <2>1, <1>2, <1>4
  <2> QED
    BY <1>1, <1>3, <2>1, <2>2
<1>7. PlanTypeOK'
  <2>1. moves' \in 0..MaxMoves
    BY PlannerAssumption DEF PlanTypeOK, Rebalance
  <2> QED
    BY <1>5, <1>6, <2>1 DEF PlanTypeOK, Rebalance
<1>8. Booked'
  <2> SUFFICES ASSUME NEW a \in Accounts
               PROVE  working'[a] = snapshot[a] - debited'[a] + credited'[a]
    BY DEF Booked, Rebalance
  <2>1. /\ working[a] = snapshot[a] - debited[a] + credited[a]
        /\ debited'[a] = IF a = d THEN debited[a] + m + FeeBuffer ELSE debited[a]
    BY <1>5 DEF PlanTypeOK, Booked
  <2>2. CASE a = d
    BY <2>1, <2>2, <1>2, <1>3, <1>6, AccountTypes
  <2>3. CASE a = r
    BY <2>1, <2>3, <1>2, <1>3, <1>6, AccountTypes
  <2>4. CASE a \notin {d, r}
    BY <2>1, <2>4, <1>6
  <2> QED
    BY <2>2, <2>3, <2>4
<1>9. SelfFunded'
  <2>1. snapshot[d] - debited'[d] >= MinBalance[d]
    <3>1. debited'[d] = debited[d] + m + FeeBuffer
      BY <1>5 DEF PlanTypeOK
    <3>2. working[d] = snapshot[d] - debited[d] /\ debited[d] \in Nat /\ snapshot[d] \in Nat
      BY <1>3, AccountTypes DEF Booked
    <3> QED
      BY <3>1, <3>2, <1>2, <1>4
  <2> QED
    BY <2>1, <1>5 DEF PlanTypeOK, SelfFunded, Rebalance
<1>10. NoOvershoot'
  <2> SUFFICES ASSUME NEW a \in Accounts, credited'[a] > 0
               PROVE  100 * working'[a] <= Target(a)'
    BY DEF NoOvershoot
  <2>1. Target(a)' = Target(a) /\ a # d
    BY <1>6 DEF Target, Rebalance
  <2>2. CASE a = r
    BY <2>1, <2>2, <1>2, <1>6
  <2>3. CASE a # r
    BY <2>1, <2>3, <1>6 DEF NoOvershoot
  <2> QED
    BY <2>2, <2>3
<1> QED
  BY <1>7, <1>8, <1>9, <1>10

(* The other steps leave the accounts alone.                               *)
LEMMA OtherPlanInv ==
  PlanInv /\ (Shortfall \/ EndPayroll \/ SetTargets \/ Finish \/ UNCHANGED planVars) => PlanInv'
<1> SUFFICES ASSUME PlanInv, Shortfall \/ EndPayroll \/ SetTargets \/ Finish \/ UNCHANGED planVars
             PROVE  PlanInv'
  OBVIOUS
<1> USE DEF PlanInv
<1>1. CASE Shortfall
  BY <1>1, PlannerAssumption
     DEF Shortfall, PlanTypeOK, Booked, SelfFunded, NoOvershoot, Target
<1>2. CASE EndPayroll
  BY <1>2
     DEF EndPayroll, PlanTypeOK, Booked, SelfFunded, NoOvershoot, Target
<1>3. CASE SetTargets
  <2>1. summed + 1 \in Accounts /\ working[summed + 1] \in Nat /\ N \in Nat
    BY <1>3, PolicyAssumption DEF SetTargets, PlanTypeOK, Accounts
  <2>2. PlanTypeOK'
    <3>1. /\ total' \in Nat /\ summed' \in 0..N
          /\ phase' \in {"payroll", "targets"} => summed' < N
      BY <1>3, <2>1 DEF SetTargets, PlanTypeOK
    <3>2. phase' \in {"rebalance", "targets"}
      BY <1>3 DEF SetTargets
    <3> QED
      BY <1>3, <3>1, <3>2 DEF SetTargets, PlanTypeOK
  <2>3. Booked' /\ SelfFunded'
    BY <1>3 DEF SetTargets, Booked, SelfFunded
  <2>4. NoOvershoot'
    BY <1>3 DEF SetTargets, Booked, NoOvershoot
  <2> QED
    BY <2>2, <2>3, <2>4
<1>4. CASE Finish
  BY <1>4 DEF Finish, PlanTypeOK, Booked, SelfFunded, NoOvershoot, Target
<1>5. CASE UNCHANGED planVars
  BY <1>5 DEF planVars, PlanTypeOK, Booked, SelfFunded, NoOvershoot, Target
<1> QED
  BY <1>1, <1>2, <1>3, <1>4, <1>5

LEMMA PlanInvariance == PlanSpec => []PlanInv
<1>1. PlanInv /\ [PlanNext]_planVars => PlanInv'
  BY PayEntryPlanInv, RebalancePlanInv, OtherPlanInv DEF PlanNext
<1> QED
  BY <1>1, InitPlanInv, PTL DEF PlanSpec

(* The planner's state keeps its types: no account is planned into debt    *)
(* and the running total stays within the per-run cap.                     *)
THEOREM PlannerTyping == PlanSpec => []PlanTypeOK
BY PlanInvariance, PTL DEF PlanInv

(* Whatever the policy and the snapshot, a plan debits an account only as  *)
(* far as its own snapshot carries it above its floor, and rebalancing     *)
(* lifts no account above its target.                                      *)
THEOREM PlanSafety == PlanSpec => [](SelfFunded /\ NoOvershoot)
BY PlanInvariance, PTL DEF PlanInv

-----------------------------------------------------------------------------
(* What the planner keeps along the way adds up to the plan it hands over. *)

(* Payroll pays an entry of the roster, rebalancing an account.            *)
Entered(x) ==
  /\ x.kind = "payroll" => \E k \in 1..Len(Payroll) : Payroll[k].to = x.to
  /\ x.kind # "payroll" => x.to \in Accounts

Drawn(x, i) ==
  /\ x.id = IntentId(i, x.kind, x.to, x.amount)
  /\ x.amount > 0 /\ x.amount <= PerTxCap /\ x.from \in Accounts /\ Entered(x)

Tallied ==
  /\ \A a \in Accounts : debited[a] = Debits(Plan.body, a, Len(intents))
  /\ runTotal = Total(Plan.body)
  /\ \A i \in 1..Len(intents) : Drawn(intents[i], i) /\ debited[intents[i].from] > 0

LEMMA PushTallied ==
  ASSUME PlanTypeOK, Tallied, NEW k \in Kinds, NEW f \in Accounts, NEW t \in Refs, NEW m \in Nat,
         Push(k, f, t, m), runTotal + m <= PerRunCap, m > 0, m <= PerTxCap,
         Entered(MakeIntent(Len(intents) + 1, k, f, t, m))
  PROVE  Tallied'
<1> DEFINE n == Len(intents)
           x == MakeIntent(n + 1, k, f, t, m)
           b == Plan.body
           c == Plan'.body
<1>1. /\ intents \in Seq(Intent) /\ n \in Nat /\ intents' \in Seq(Intent)
      /\ debited \in [Accounts -> Nat] /\ FeeBuffer \in Nat
      /\ debited' = [debited EXCEPT ![f] = @ + m + FeeBuffer]
  <2>1. intents \in Seq(Intent) /\ debited \in [Accounts -> Nat] /\ FeeBuffer \in Nat
    BY PolicyAssumption DEF PlanTypeOK
  <2>2. intents' \in Seq(Intent) /\ debited' = [debited EXCEPT ![f] = @ + m + FeeBuffer]
    BY PushTypes
  <2>3. n \in Nat
    BY <2>1
  <2> QED
    BY <2>1, <2>2, <2>3
<1>2. x \in Intent /\ x.from = f /\ x.amount = m /\ Drawn(x, n + 1)
  <2>1. x \in Intent
    BY <1>1 DEF MakeIntent, IntentId, Intent, Ids, Refs
  <2> QED
    BY <2>1 DEF Drawn, MakeIntent
<1>3. intents' = Append(intents, x) /\ runTotal' = runTotal + m
  BY DEF Push
<1>4. b.intents = intents /\ c.intents = intents'
  BY DEF Plan
<1> HIDE DEF x, b, c
<1>5. /\ Len(intents') = n + 1 /\ intents'[n + 1] = x /\ \A i \in 1..n : intents'[i] = intents[i]
  <2> QED
    BY <1>1, <1>2, <1>3
<1>6. b.intents \in Seq(Intent) /\ c.intents = Append(b.intents, x) /\ x \in Intent
  BY <1>1, <1>2, <1>3, <1>4
<1>7. ASSUME NEW a \in Accounts PROVE debited'[a] = Debits(c, a, n + 1)
  <2>1. debited[a] = Debits(b, a, n)
    BY DEF Tallied, b
  <2>2. debited'[a] = debited[a] + IF f = a THEN m + FeeBuffer ELSE 0
    BY <1>1
  <2>3. Debits(c, a, Len(c.intents)) = Debits(b, a, Len(b.intents)) + CostTo(x, a)
    BY <1>6, AppendSums
  <2>4. Len(c.intents) = n + 1 /\ Len(b.intents) = n
    BY <1>4, <1>5
  <2> HIDE DEF n
  <2> QED
    BY <1>2, <2>1, <2>2, <2>3, <2>4 DEF CostTo
<1>8. runTotal' = Total(c)
  <2>1. Total(c) = Total(b) + x.amount
    BY <1>6, AppendSums
  <2> QED
    BY <1>2, <1>3, <2>1 DEF Tallied, b
<1>9. ASSUME NEW i \in 1..n + 1 PROVE Drawn(intents'[i], i) /\ debited'[intents'[i].from] > 0
  <2>1. CASE i \in 1..n
    <3>1. Drawn(intents[i], i) /\ debited[intents[i].from] > 0
      BY <2>1 DEF Tallied
    <3>2. intents[i].from \in Accounts
      BY <3>1 DEF Drawn
    <3>3. debited'[intents[i].from] > 0
      BY <1>1, <3>1, <3>2
    <3> QED
      BY <1>5, <2>1, <3>1, <3>3
  <2>2. CASE i = n + 1
    <3>1. debited'[f] > 0
      BY <1>1
    <3> QED
      BY <1>2, <1>5, <2>2, <3>1
  <2>3. i \in 1..n \/ i = n + 1
    BY <1>1
  <2> QED
    BY <2>1, <2>2, <2>3
<1>10. ASSUME NEW i \in 1..n + 1 PROVE Drawn(intents[i], i)' /\ debited'[intents'[i].from] > 0
  BY <1>9 DEF Drawn, Entered
<1>11. /\ \A a \in Accounts : (debited[a] = Debits(Plan.body, a, Len(intents)))'
       /\ (runTotal = Total(Plan.body))'
  BY <1>5, <1>7, <1>8 DEF c, Plan, Debits, Costs, Total, Amounts, Positions
<1> QED
  BY <1>5, <1>10, <1>11 DEF Tallied

LEMMA TallyStep == ASSUME PlanInv, Tallied, [PlanNext]_planVars PROVE Tallied'
<1>1. CASE PayEntry
  <2> DEFINE e == Payroll[entry]
  <2>1. entry \in 1..Len(Payroll)
    BY <1>1, RosterTypes DEF PayEntry, PlanInv, PlanTypeOK
  <2>2. e.to \in Refs /\ e.amount \in Int
    BY <2>1, RosterTypes
  <2>3. e.amount > 0 /\ e.amount <= PerTxCap /\ runTotal + e.amount <= PerRunCap
    BY <1>1 DEF PayEntry, Payable
  <2>4. PICK a \in Accounts : Push("payroll", a, e.to, e.amount)
    BY <1>1 DEF PayEntry, Funders
  <2>5. Entered(MakeIntent(Len(intents) + 1, "payroll", a, e.to, e.amount))
    BY <2>1 DEF Entered, MakeIntent
  <2>6. e.amount \in Nat /\ "payroll" \in Kinds /\ PlanTypeOK
    BY <2>2, <2>3 DEF Kinds, PlanInv
  <2> HIDE DEF e
  <2> QED
    BY <2>2, <2>3, <2>4, <2>5, <2>6, PushTallied
<1>2. CASE Rebalance
  <2>1. PICK d \in Accounts, r \in Accounts :
          Move(d, r) >= MinMove /\ Push("rebalance", d, r, Move(d, r))
    BY <1>2 DEF Rebalance
  <2> DEFINE m == Move(d, r)
  <2>2. /\ m \in Int /\ m <= PerTxCap /\ m <= PerRunCap - runTotal
    BY MoveBounds DEF PlanInv
  <2>3. MinMove \in Nat /\ MinMove > 0 /\ runTotal \in Int /\ PerRunCap \in Int
    BY PlannerAssumption, PolicyAssumption DEF PlanInv, PlanTypeOK
  <2>4. m >= MinMove /\ Push("rebalance", d, r, m)
    BY <2>1
  <2>5. Entered(MakeIntent(Len(intents) + 1, "rebalance", d, r, m))
    BY DEF Entered, MakeIntent
  <2> HIDE DEF m
  <2>6. m \in Nat /\ m > 0 /\ runTotal + m <= PerRunCap
    BY <2>2, <2>3, <2>4
  <2>7. "rebalance" \in Kinds /\ r \in Refs /\ PlanTypeOK
    BY DEF Kinds, Refs, PlanInv
  <2> QED
    BY <2>2, <2>4, <2>5, <2>6, <2>7, PushTallied
<1>3. CASE Shortfall \/ EndPayroll \/ SetTargets \/ Finish \/ UNCHANGED planVars
  <2>1. UNCHANGED <<intents, snapshot, debited, runTotal>>
    BY <1>3 DEF Shortfall, EndPayroll, SetTargets, Finish, planVars
  <2> QED
    BY <2>1 DEF Tallied, Plan, Drawn, Entered, Debits, Costs, Total, Amounts, Positions
<1> QED
  BY <1>1, <1>2, <1>3 DEF PlanNext

LEMMA InitTallied == PlanInit => Tallied
<1> SUFFICES ASSUME PlanInit PROVE Tallied
  OBVIOUS
<1>1. intents = <<>> /\ Len(intents) = 0 /\ Plan.body.intents = <<>> /\ 1..0 = {}
  BY DEF PlanInit, Plan
<1>2. \A a \in Accounts : Debits(Plan.body, a, Len(intents)) = 0
  <2> SUFFICES ASSUME NEW a \in Accounts PROVE Debits(Plan.body, a, Len(intents)) = 0
    OBVIOUS
  <2>1. {i \in 1..Len(intents) : Plan.body.intents[i].from = a} = {}
    BY <1>1
  <2> QED
    BY <2>1, SumEmpty DEF Debits
<1>3. Total(Plan.body) = 0
  BY <1>1, SumEmpty DEF Total, Positions
<1> QED
  BY <1>1, <1>2, <1>3 DEF PlanInit, Tallied

(* A finished plan whose roster is allowlisted is one the gate approves.   *)
LEMMA TalliedPasses == ASSUME PlanInv, Tallied PROVE PlanPassesGate
<1> SUFFICES ASSUME \A k \in 1..Len(Payroll) : Payroll[k].to \in Allowlist PROVE Approvable(Plan)
  BY DEF PlanPassesGate
<1> DEFINE b == Plan.body
<1>1. /\ b.policyId = PolicyId /\ Plan.sealed /\ b.balances = snapshot /\ b.intents = intents
      /\ snapshot \in [Accounts -> Nat] /\ intents \in Seq(Intent)
  BY DEF Plan, PlanInv, PlanTypeOK
<1>2. Total(b) <= PerRunCap
  BY PolicyAssumption DEF Tallied, PlanInv, PlanTypeOK
<1>3. ASSUME NEW i \in Positions(b) PROVE IntentOk(b, i)
  <2> DEFINE x == intents[i]
  <2>1. i \in 1..Len(intents) /\ Len(b.intents) = Len(intents)
    BY <1>1 DEF Positions
  <2>2. Drawn(x, i) /\ debited[x.from] > 0 /\ x.from \in Accounts
    BY <2>1 DEF Tallied, Drawn
  <2>3. RecipientAllowed(x)
    BY <2>2 DEF Drawn, Entered, RecipientAllowed
  <2>4. debited[x.from] = Debits(b, x.from, Len(b.intents))
    BY <1>1, <2>2 DEF Tallied
  <2>5. snapshot[x.from] - debited[x.from] >= MinBalance[x.from] /\ snapshot[x.from] \in Int
    BY <1>1, <2>2 DEF PlanInv, SelfFunded
  <2>6. KeepsFloor(b, i)
    <3>1. x = b.intents[i]
      BY <1>1
    <3> HIDE DEF b, x
    <3> QED
      BY <1>1, <2>2, <2>4, <2>5, <3>1, FloorsFromOwn
  <2> QED
    BY <1>1, <2>2, <2>3, <2>6 DEF IntentOk, Drawn
<1> QED
  BY <1>1, <1>2, <1>3 DEF Approvable

(* Whatever the policy, the snapshot and the roster, as long as the roster *)
(* is allowlisted the gate approves the plan the planner arrives at: what  *)
(* planner.ts checks on the way is what approval.ts derives again from the *)
(* plan alone.  And rebalancing lifts no account above its target.         *)
THEOREM PlanSoundness == PlanSpec => []PlanIsSound
<1>1. PlanInv /\ Tallied /\ [PlanNext]_planVars => Tallied'
  BY TallyStep
<1>2. PlanInv /\ Tallied => PlanIsSound
  BY TalliedPasses DEF PlanIsSound, PlanInv
<1> QED
  BY <1>1, <1>2, InitTallied, PlanInvariance, PTL DEF PlanSpec

-----------------------------------------------------------------------------
(* The executor.                                                           *)

Bodies == {p.body : p \in Proposals}

(* What the gate's signature says of a plan, as far as the proofs use it.  *)
Good(body) ==
  /\ Total(body) <= PerRunCap
  /\ \A i \in Positions(body) :
       LET x == body.intents[i]
       IN /\ x.id = IntentId(i, x.kind, x.to, x.amount)
          /\ x.from \in Accounts /\ x.to \in Accounts \cup Allowlist

(* Every plan that is executed or has a result is one the gate signed.     *)
GateInv ==
  /\ \A t \in tokens : t.key = GateKey => Good(t.body)
  /\ Good(plan) /\ \A r \in results : Good(r.body)
  /\ \A b \in executed : Good(b)

(* The intent the executor is at has been transferred and its record will  *)
(* say ok.                                                                 *)
InFlight(id) == (step = "confirm" \/ (step = "append" /\ status = "ok")) /\ Here.id = id

(* The journal's ok records are those the run found and those of intents   *)
(* it has passed, so the intent it is at has none; and a transfer is       *)
(* journaled as ok, in flight or exposed.                                  *)
PayInv ==
  /\ step \in {"transfer", "confirm", "append"} => Here.id \notin done
  /\ done \subseteq DoneIds
  /\ step # "idle" => \A id \in DoneIds \ done : \E j \in 1..pos - 1 : Intents[j].id = id
  /\ \A id \in AllIds : paid[id] > 0 => id \in exposed \/ id \in DoneIds \/ InFlight(id)
  /\ \A id \in AllIds : paid[id] > 1 => id \in exposed

(* The records are of the first n intents of the plan, and the ok ones     *)
(* were transferred, as pd counts the transfers.                           *)
Records(body, records, n, pd) ==
  /\ Len(records) = n
  /\ \A i \in 1..n :
       /\ records[i].id = body.intents[i].id
       /\ records[i].status = "ok" => pd[records[i].id] > 0

ResultInv ==
  /\ \A id \in DoneIds : paid[id] > 0
  /\ \A id \in AllIds : InFlight(id) => paid[id] > 0
  /\ step # "idle" => Records(plan, perIntent, pos - 1, paid)
  /\ \A r \in results : Records(r.body, r.perIntent, Len(r.body.intents), paid)

(* Only plans that were begun are paid for, and as long as a single plan   *)
(* was and nothing is exposed, an account has lost no more than what the   *)
(* intents transferred from it cost.                                       *)
OwnIds(b) == {b.intents[i].id : i \in Positions(b)}
PaidFrom(b, a, pd) == {i \in Positions(b) : b.intents[i].from = a /\ pd[b.intents[i].id] > 0}

SpendInv ==
  /\ step # "idle" => plan \in executed
  /\ \A id \in AllIds : paid[id] > 0 => \E b \in executed : id \in OwnIds(b)
  /\ \A b \in Bodies : executed \subseteq {b} /\ exposed = {} =>
       \A a \in Accounts : ledger[a] >= Opening[a] - SumOver(Costs(b), PaidFrom(b, a, paid))

ExecInv ==
  /\ TypeOK
  /\ Trusted \subseteq {GateKey} => GateInv /\ PayInv /\ ResultInv /\ OnlyAllowed /\ SpendInv

-----------------------------------------------------------------------------
(* Types of the plans and of the intent the executor is at.                *)

LEMMA BodyTypes ==
  ASSUME NEW b \in Bodies \cup {NoPlan}
  PROVE  b.intents \in Seq(Intent) /\ Len(b.intents) \in Nat
<1>1. CASE b \in Bodies
  <2>1. PICK p \in Proposals : b = p.body
    BY <1>1 DEF Bodies
  <2>2. p.body \in Body
    BY ExecutorAssumption
  <2> QED
    BY <2>1, <2>2 DEF Body
<1>2. CASE b = NoPlan
  BY <1>2 DEF NoPlan
<1> QED
  BY <1>1, <1>2

LEMMA IntentTypes ==
  ASSUME NEW b \in Bodies \cup {NoPlan}, NEW i \in 1..Len(b.intents)
  PROVE  /\ b.intents[i].id \in AllIds
         /\ b.intents[i].from \in Refs /\ b.intents[i].to \in Refs
         /\ b.intents[i].amount \in Nat
<1>1. b.intents[i] \in Intent
  BY BodyTypes
<1>2. b \in Bodies
  BY BodyTypes DEF NoPlan
<1>3. PICK p \in Proposals : b = p.body
  BY <1>2 DEF Bodies
<1>4. b.intents[i].id \in {p.body.intents[j].id : j \in Positions(p.body)}
  BY <1>3 DEF Positions
<1>5. b.intents[i].id \in AllIds
  <2> DEFINE Own(q) == {q.body.intents[j].id : j \in Positions(q.body)}
  <2>1. b.intents[i].id \in Own(p)
    BY <1>4
  <2>2. AllIds = UNION {Own(q) : q \in Proposals}
    BY DEF AllIds
  <2> HIDE DEF Own
  <2> QED
    BY <2>1, <2>2
<1> QED
  BY <1>1, <1>5 DEF Intent

LEMMA HereTypes ==
  ASSUME TypeOK, pos <= Len(Intents)
  PROVE  /\ Here.id \in AllIds /\ Here.from \in Refs /\ Here.to \in Refs
         /\ Here.amount \in Nat /\ Len(Intents) \in Nat /\ pos \in 1..Len(Intents)
         /\ plan \in Bodies \cup {NoPlan}
<1>1. plan \in Bodies \cup {NoPlan}
  BY DEF TypeOK, Bodies
<1>2. Len(Intents) \in Nat
  BY <1>1, BodyTypes DEF Intents
<1>3. pos \in 1..Len(plan.intents)
  BY <1>2 DEF TypeOK, Intents
<1> QED
  BY <1>1, <1>2, <1>3, IntentTypes DEF Here, Intents

(* A record of the intent the executor is at extends the run's records.    *)
LEMMA AppendTypes ==
  ASSUME TypeOK, pos <= Len(Intents), NEW st \in Status
  PROVE  /\ [id |-> Here.id, status |-> st] \in Record
         /\ Append(perIntent, [id |-> Here.id, status |-> st]) \in Seq(Record)
<1>1. [id |-> Here.id, status |-> st] \in Record
  BY HereTypes DEF Record
<1> HIDE DEF Record
<1>2. perIntent \in Seq(Record)
  BY DEF TypeOK
<1> QED
  BY <1>1, <1>2

(* A transfer that the chain accepts overdraws nobody.                     *)
LEMMA TransferredTypes ==
  ASSUME TypeOK, pos <= Len(Intents), Funded
  PROVE  Transferred \in [Refs -> Nat]
<1>1. Here.from \in Refs /\ Here.to \in Refs /\ Here.amount \in Nat
  BY HereTypes
<1>2. ledger \in [Refs -> Nat] /\ Fee \in Nat
  BY ExecutorAssumption, PolicyAssumption DEF TypeOK
<1> DEFINE w == ledger[Here.from] - (Here.amount + Fee)
           dl == [ledger EXCEPT ![Here.from] = w]
<1>3. w \in Nat
  BY <1>1, <1>2 DEF Funded
<1>4. dl \in [Refs -> Nat]
  BY <1>1, <1>2, <1>3
<1>5. Transferred = [dl EXCEPT ![Here.to] = dl[Here.to] + Here.amount]
  BY DEF Transferred
<1> HIDE DEF dl
<1>6. dl[Here.to] + Here.amount \in Nat
  BY <1>1, <1>4
<1> QED
  BY <1>1, <1>4, <1>5, <1>6

-----------------------------------------------------------------------------
(* Types.                                                                  *)

LEMMA InitTypes == Init => TypeOK
<1> SUFFICES ASSUME Init PROVE TypeOK
  OBVIOUS
<1>1. ledger \in [Refs -> Nat] /\ MaxFaults \in Nat
  BY ExecutorAssumption DEF Init
<1>2. plan = NoPlan /\ pos = 1 /\ Len(plan.intents) = 0
  BY DEF Init, NoPlan
<1>3. /\ perIntent \in Seq(Record) /\ paid \in [AllIds -> Nat]
      /\ pos \in 1..Len(plan.intents) + 1 /\ faults \in 0..MaxFaults
  BY <1>1, <1>2 DEF Init
<1> QED
  BY <1>1, <1>2, <1>3 DEF Init, TypeOK, Status

LEMMA SignTypes == ASSUME TypeOK, NEW p \in Proposals, NEW key \in Keys, Sign(key, p) PROVE TypeOK'
<1>1. tokens' \subseteq [key : Keys, body : {q.body : q \in Proposals}]
  BY DEF TypeOK, Sign
<1> QED
  BY <1>1 DEF TypeOK, Sign, executor

LEMMA ExecuteTypes == ASSUME TypeOK, NEW p \in Proposals, NEW t \in tokens, Execute(p, t) PROVE TypeOK'
<1>1. plan' \in {q.body : q \in Proposals} /\ executed' \subseteq {q.body : q \in Proposals}
  BY DEF TypeOK, Execute
<1>2. pos' \in 1..Len(plan'.intents) + 1
  <2>1. Len(plan'.intents) \in Nat
    BY <1>1, BodyTypes DEF Bodies
  <2> QED
    BY <2>1 DEF Execute
<1>3. done' \subseteq AllIds
  BY DEF TypeOK, Execute, DoneIds, Record
<1>4. perIntent' \in Seq(Record)
  BY DEF Execute
<1> QED
  BY <1>1, <1>2, <1>3, <1>4 DEF TypeOK, Execute, Status

LEMMA RunTypes == ASSUME TypeOK, Run PROVE TypeOK'
<1>1. CASE Skip
  <2>1. More /\ pos <= Len(Intents)
    BY <1>1 DEF Skip, More
  <2>2. perIntent' \in Seq(Record)
    BY <1>1, <2>1, AppendTypes DEF Skip, Status
  <2>3. pos' \in 1..Len(plan.intents) + 1
    BY <1>1, <2>1, HereTypes DEF Skip, Intents
  <2> QED
    BY <1>1, <2>1, <2>2, <2>3 DEF TypeOK, Skip, More
<1>2. CASE ReadBalances
  BY <1>2 DEF TypeOK, ReadBalances, More, Intents
<1>3. CASE Transfer
  <2>1. pos <= Len(Intents)
    BY <1>3 DEF TypeOK, Transfer, Intents
  <2>2. ledger' \in [Refs -> Nat]
    BY <1>3, <2>1, TransferredTypes DEF Transfer
  <2>3. paid' \in [AllIds -> Nat]
    BY <1>3, <2>1, HereTypes DEF TypeOK, Transfer
  <2> QED
    BY <1>3, <2>1, <2>2, <2>3 DEF TypeOK, Transfer, Intents
<1>4. CASE TransferFails
  <2>1. faults' \in 0..MaxFaults
    BY <1>4, ExecutorAssumption DEF TypeOK, TransferFails
  <2> QED
    BY <1>4, <2>1 DEF TypeOK, TransferFails, Status
<1>5. CASE ConfirmBalances
  BY <1>5 DEF TypeOK, ConfirmBalances, Status
<1>6. CASE ConfirmFails
  <2>1. faults' \in 0..MaxFaults
    BY <1>6, ExecutorAssumption DEF TypeOK, ConfirmFails
  <2>2. exposed' \subseteq AllIds
    BY <1>6, HereTypes DEF TypeOK, ConfirmFails, Intents
  <2> QED
    BY <1>6, <2>1, <2>2 DEF TypeOK, ConfirmFails, Status
<1>7. CASE AppendRecord
  <2>1. pos <= Len(Intents) /\ status \in Status
    BY <1>7 DEF TypeOK, AppendRecord, Intents
  <2>2. perIntent' \in Seq(Record) /\ journal' \subseteq Record
    BY <1>7, <2>1, AppendTypes DEF TypeOK, AppendRecord
  <2>3. pos' \in 1..Len(plan.intents) + 1
    BY <1>7, <2>1, HereTypes DEF AppendRecord, Intents
  <2> QED
    BY <1>7, <2>2, <2>3 DEF TypeOK, AppendRecord
<1>8. CASE Return
  <2> HIDE DEF Record
  <2>1. plan \in {p.body : p \in Proposals}
    BY <1>8 DEF TypeOK, Return
  <2>2. results' \subseteq [body : {p.body : p \in Proposals}, perIntent : Seq(Record)]
    BY <1>8, <2>1 DEF TypeOK, Return
  <2> QED
    BY <1>8, <2>2 DEF TypeOK, Return
<1> QED
  BY <1>1, <1>2, <1>3, <1>4, <1>5, <1>6, <1>7, <1>8 DEF Run

LEMMA DiesTypes == ASSUME TypeOK, Dies PROVE TypeOK'
<1>1. faults' \in 0..MaxFaults
  BY ExecutorAssumption DEF TypeOK, Dies
<1>2. exposed' \subseteq AllIds
  BY HereTypes DEF TypeOK, Dies, Intents
<1>3. torn' \in BOOLEAN
  BY Zenon DEF Dies
<1> QED
  BY <1>1, <1>2, <1>3 DEF TypeOK, Dies

LEMMA StepTypes == TypeOK /\ [Next]_vars => TypeOK'
<1> SUFFICES ASSUME TypeOK, [Next]_vars PROVE TypeOK'
  OBVIOUS
<1>1. ASSUME NEW p \in Proposals, Approve(p) PROVE TypeOK'
  BY <1>1, SignTypes, ExecutorAssumption DEF Approve
<1>2. ASSUME NEW p \in Proposals, NEW key \in Keys, OtherSigns(key, p) PROVE TypeOK'
  BY <1>2, SignTypes DEF OtherSigns
<1>3. ASSUME NEW p \in Proposals, NEW t \in tokens, Execute(p, t) PROVE TypeOK'
  BY <1>3, ExecuteTypes
<1>4. CASE UNCHANGED vars
  BY <1>4 DEF TypeOK, vars, executor
<1> QED
  BY <1>1, <1>2, <1>3, <1>4, RunTypes, DiesTypes DEF Next

-----------------------------------------------------------------------------
(* The gate: an executed plan is one it signed.                            *)

LEMMA ApprovedIsGood == ASSUME NEW p \in Proposals, Approvable(p) PROVE Good(p.body)
<1> SUFFICES ASSUME NEW i \in Positions(p.body)
             PROVE  LET x == p.body.intents[i]
                    IN /\ x.id = IntentId(i, x.kind, x.to, x.amount)
                       /\ x.from \in Accounts /\ x.to \in Accounts \cup Allowlist
  BY DEF Good, Approvable
<1>1. IntentOk(p.body, i)
  BY DEF Approvable
<1> QED
  BY <1>1 DEF IntentOk, RecipientAllowed

LEMMA GateStep ==
  ASSUME TypeOK, Trusted \subseteq {GateKey}, GateInv, Next
  PROVE  GateInv'
<1>1. ASSUME NEW p \in Proposals, Approve(p) PROVE GateInv'
  <2>1. Good(p.body)
    BY <1>1, ApprovedIsGood DEF Approve
  <2> QED
    BY <1>1, <2>1 DEF GateInv, Approve, Sign, executor
<1>2. ASSUME NEW p \in Proposals, NEW key \in Keys, OtherSigns(key, p) PROVE GateInv'
  BY <1>2 DEF GateInv, OtherSigns, Sign, executor
<1>3. ASSUME NEW p \in Proposals, NEW t \in tokens, Execute(p, t) PROVE GateInv'
  BY <1>3 DEF GateInv, Execute, Accepts
<1>4. CASE Return
  BY <1>4 DEF GateInv, Return
<1>5. CASE (Run /\ ~Return) \/ Dies
  BY <1>5 DEF GateInv, Run, Skip, ReadBalances, Transfer, TransferFails, ConfirmBalances,
              ConfirmFails, AppendRecord, Dies
<1> QED
  BY <1>1, <1>2, <1>3, <1>4, <1>5 DEF Next, Run

(* Only a transfer moves money, and it goes where the gate allows.         *)
LEMMA AllowedStep ==
  ASSUME TypeOK, Trusted \subseteq {GateKey}, GateInv, OnlyAllowed, Next
  PROVE  OnlyAllowed'
<1>1. CASE Transfer
  <2>1. pos <= Len(Intents) /\ pos \in Positions(plan)
    <3>1. pos <= Len(Intents)
      BY <1>1 DEF TypeOK, Transfer, Intents
    <3> QED
      BY <3>1, HereTypes DEF Positions, Intents
  <2>2. Here.from \in Accounts /\ Here.to \in Accounts \cup Allowlist
    BY <2>1 DEF GateInv, Good, Here, Intents
  <2>3. ledger \in [Refs -> Nat]
    BY DEF TypeOK
  <2>4. \A r \in Refs \ (Accounts \cup Allowlist) : Transferred[r] = ledger[r]
    BY <2>2, <2>3 DEF Transferred
  <2> QED
    BY <1>1, <2>4 DEF OnlyAllowed, Transfer
<1>2. CASE UNCHANGED ledger
  BY <1>2 DEF OnlyAllowed
<1>3. ~Transfer => UNCHANGED ledger
  BY DEF Next, Approve, OtherSigns, Sign, Execute, Run, Skip, ReadBalances, TransferFails,
         ConfirmBalances, ConfirmFails, AppendRecord, Return, Dies
<1> QED
  BY <1>1, <1>2, <1>3

-----------------------------------------------------------------------------
(* Ids and the journal.                                                    *)

LEMMA DistinctIds ==
  ASSUME NEW b, Good(b), NEW i \in Positions(b), NEW j \in Positions(b),
         b.intents[i].id = b.intents[j].id
  PROVE  i = j
BY DEF Good, IntentId

LEMMA DoneAfterAppend ==
  ASSUME AppendRecord
  PROVE  DoneIds' = DoneIds \cup IF status = "ok" THEN {Here.id} ELSE {}
BY DEF AppendRecord, DoneIds

LEMMA DoneOtherwise == ASSUME UNCHANGED journal PROVE DoneIds' = DoneIds
BY DEF DoneIds

LEMMA DoneTypes == ASSUME TypeOK PROVE DoneIds \subseteq AllIds
BY DEF TypeOK, DoneIds, Record

-----------------------------------------------------------------------------
(* Payments.                                                               *)

(* An intent about to be transferred was not, unless it is exposed.        *)
LEMMA FreshTransfer ==
  ASSUME TypeOK, GateInv, PayInv, step = "transfer"
  PROVE  /\ pos \in Positions(plan) /\ Here.id \in AllIds /\ pos \in Nat /\ pos <= Len(Intents)
         /\ Here.id \notin DoneIds /\ (paid[Here.id] > 0 => Here.id \in exposed)
<1>1. pos <= Len(Intents) /\ pos \in Positions(plan) /\ Here.id \in AllIds /\ pos \in Nat
  <2>1. pos <= Len(Intents)
    BY DEF TypeOK, Intents
  <2> QED
    BY <2>1, HereTypes DEF Positions, Intents
<1>2. Here.id \notin DoneIds
  <2> SUFFICES ASSUME Here.id \in DoneIds PROVE FALSE
    OBVIOUS
  <2>1. Here.id \notin done
    BY DEF PayInv
  <2>2. PICK j \in 1..pos - 1 : Intents[j].id = Here.id
    BY <2>1 DEF PayInv
  <2>3. j \in Positions(plan) /\ j # pos
    BY <1>1, HereTypes DEF Positions, Intents
  <2> QED
    BY <1>1, <2>2, <2>3, DistinctIds DEF GateInv, Intents, Here
<1>3. paid[Here.id] > 0 => Here.id \in exposed
  BY <1>1, <1>2 DEF PayInv, InFlight
<1> QED
  BY <1>1, <1>2, <1>3

LEMMA PayTransfer ==
  ASSUME TypeOK, GateInv, PayInv, Transfer
  PROVE  PayInv'
<1>1. pos <= Len(Intents) /\ pos \in Positions(plan) /\ Here.id \in AllIds /\ pos \in Nat
  BY FreshTransfer DEF Transfer
<1>2. Here.id \notin DoneIds
  BY FreshTransfer DEF Transfer
<1>3. paid[Here.id] > 0 => Here.id \in exposed
  BY FreshTransfer DEF Transfer
<1>4. /\ DoneIds' = DoneIds /\ Here' = Here /\ Intents' = Intents
      /\ InFlight(Here.id)'
  BY DoneOtherwise DEF Transfer, Here, Intents, InFlight
<1>5. /\ paid \in [AllIds -> Nat] /\ paid' = [paid EXCEPT ![Here.id] = paid[Here.id] + 1]
  BY DEF TypeOK, Transfer
<1>6. ASSUME NEW id \in AllIds
      PROVE  /\ paid'[id] > 0 => id \in exposed \/ id \in DoneIds \/ InFlight(id)'
             /\ paid'[id] > 1 => id \in exposed
  <2>1. CASE id = Here.id
    BY <2>1, <1>1, <1>3, <1>4, <1>5
  <2>2. CASE id # Here.id
    <3>1. paid'[id] = paid[id] /\ ~InFlight(id)
      BY <2>2, <1>5 DEF InFlight
    <3> QED
      BY <3>1 DEF PayInv
  <2> QED
    BY <2>1, <2>2
<1>7. exposed' = exposed /\ done' = done /\ pos' = pos
  BY DEF Transfer
<1> QED
  BY <1>4, <1>6, <1>7 DEF PayInv, Transfer

LEMMA PayAppend ==
  ASSUME TypeOK, PayInv, AppendRecord
  PROVE  PayInv'
<1>1. pos <= Len(Intents) /\ Here.id \in AllIds /\ pos \in Nat /\ pos >= 1
  <2>1. pos <= Len(Intents)
    BY DEF TypeOK, AppendRecord, Intents
  <2> QED
    BY <2>1, HereTypes
<1>2. DoneIds' = DoneIds \cup IF status = "ok" THEN {Here.id} ELSE {}
  BY DoneAfterAppend
<1>3. /\ done' = done /\ step' = "next" /\ Intents' = Intents /\ pos' = pos + 1
      /\ paid' = paid /\ exposed' = exposed
  BY DEF AppendRecord, Intents
<1>4. \A id \in DoneIds' \ done : \E j \in 1..pos : Intents[j].id = id
  <2> SUFFICES ASSUME NEW id \in DoneIds' \ done PROVE \E j \in 1..pos : Intents[j].id = id
    OBVIOUS
  <2>1. CASE id \in DoneIds
    <3>1. \E j \in 1..pos - 1 : Intents[j].id = id
      BY <2>1 DEF PayInv, AppendRecord
    <3> QED
      BY <3>1, <1>1
  <2>2. CASE id = Here.id
    BY <2>2, <1>1 DEF Here
  <2> QED
    BY <2>1, <2>2, <1>2
<1>5. \A id \in AllIds : InFlight(id) => id \in DoneIds'
  BY <1>2 DEF InFlight, AppendRecord
<1>6. \A id \in AllIds : paid[id] > 0 => id \in exposed \/ id \in DoneIds'
  BY <1>2, <1>5 DEF PayInv
<1> QED
  BY <1>1, <1>2, <1>3, <1>4, <1>6 DEF PayInv

(* Steps that leave the journal and the payments alone.                    *)
LEMMA PayQuiet ==
  ASSUME TypeOK, PayInv, UNCHANGED <<journal, paid>>,
         Skip \/ ReadBalances \/ TransferFails \/ ConfirmBalances \/ ConfirmFails \/ Return \/ Dies
  PROVE  PayInv'
<1>1. DoneIds' = DoneIds
  BY DoneOtherwise
<1>2. CASE Skip
  <2>1. pos \in Nat
    BY <1>2, HereTypes DEF Skip, More
  <2>2. \A id \in DoneIds \ done : \E j \in 1..pos : Intents[j].id = id
    BY <1>2, <2>1 DEF PayInv, Skip, More
  <2>3. /\ pos' = pos + 1 /\ step = "next" /\ step' = "next" /\ Intents' = Intents
        /\ done' = done /\ exposed' = exposed /\ paid' = paid
    BY <1>2 DEF Skip, More, Intents
  <2>4. \A id \in AllIds : ~InFlight(id)
    BY <2>3 DEF InFlight
  <2> QED
    BY <1>1, <2>1, <2>2, <2>3, <2>4 DEF PayInv
<1>3. CASE ReadBalances
  <2>1. /\ pos' = pos /\ step = "next" /\ step' = "transfer" /\ Intents' = Intents
        /\ done' = done /\ exposed' = exposed /\ paid' = paid /\ Here' = Here
        /\ Here.id \notin done
    BY <1>3 DEF ReadBalances, More, Intents, Here
  <2>2. \A id \in AllIds : ~InFlight(id)
    BY <2>1 DEF InFlight
  <2> QED
    BY <1>1, <2>1, <2>2 DEF PayInv
<1>4. CASE TransferFails
  <2>1. /\ pos' = pos /\ step = "transfer" /\ step' = "append" /\ Intents' = Intents
        /\ done' = done /\ exposed' = exposed /\ paid' = paid /\ Here' = Here
    BY <1>4 DEF TransferFails, Intents, Here
  <2>2. \A id \in AllIds : ~InFlight(id)
    BY <2>1 DEF InFlight
  <2> QED
    BY <1>1, <2>1, <2>2 DEF PayInv
<1>5. CASE ConfirmBalances
  <2>1. /\ pos' = pos /\ step = "confirm" /\ step' = "append" /\ Intents' = Intents
        /\ done' = done /\ exposed' = exposed /\ paid' = paid /\ Here' = Here
        /\ status' = "ok"
    BY <1>5 DEF ConfirmBalances, Intents, Here
  <2>2. \A id \in AllIds : InFlight(id) => InFlight(id)'
    BY <2>1 DEF InFlight
  <2> QED
    BY <1>1, <2>1, <2>2 DEF PayInv
<1>6. CASE ConfirmFails
  <2>1. /\ pos' = pos /\ step = "confirm" /\ step' = "append" /\ Intents' = Intents
        /\ done' = done /\ exposed' = exposed \cup {Here.id} /\ paid' = paid /\ Here' = Here
    BY <1>6 DEF ConfirmFails, Intents, Here
  <2>2. \A id \in AllIds : InFlight(id) => id \in exposed'
    BY <2>1 DEF InFlight
  <2> QED
    BY <1>1, <2>1, <2>2 DEF PayInv
<1>7. CASE Return
  <2>1. /\ step = "next" /\ step' = "idle" /\ done' = done /\ exposed' = exposed
        /\ paid' = paid
    BY <1>7 DEF Return
  <2>2. \A id \in AllIds : ~InFlight(id)
    BY <2>1 DEF InFlight
  <2> QED
    BY <1>1, <2>1, <2>2 DEF PayInv
<1>8. CASE Dies
  <2>1. /\ step' = "idle" /\ done' = done /\ exposed \subseteq exposed' /\ paid' = paid
    BY <1>8 DEF Dies
  <2>2. \A id \in AllIds : InFlight(id) => id \in exposed'
    BY <1>8 DEF InFlight, Dies
  <2> QED
    BY <1>1, <2>1, <2>2 DEF PayInv
<1> QED
  BY <1>2, <1>3, <1>4, <1>5, <1>6, <1>7, <1>8

LEMMA PayStep ==
  ASSUME TypeOK, GateInv, PayInv, Next
  PROVE  PayInv'
<1>1. ASSUME NEW p \in Proposals, Approve(p) \/ \E key \in Keys : OtherSigns(key, p)
      PROVE  PayInv'
  <2>1. UNCHANGED <<journal, executor, paid, exposed>>
    BY <1>1 DEF Approve, OtherSigns, Sign
  <2> QED
    BY <2>1 DEF PayInv, DoneIds, InFlight, Here, Intents, executor
<1>2. ASSUME NEW p \in Proposals, NEW t \in tokens, Execute(p, t) PROVE PayInv'
  <2>1. /\ step = "idle" /\ step' = "next" /\ done' = DoneIds /\ DoneIds' = DoneIds
        /\ exposed' = exposed /\ paid' = paid
    BY <1>2, DoneOtherwise DEF Execute
  <2>2. \A id \in AllIds : ~InFlight(id)
    BY <2>1 DEF InFlight
  <2> QED
    BY <2>1, <2>2 DEF PayInv
<1>3. CASE Transfer
  BY <1>3, PayTransfer
<1>4. CASE AppendRecord
  BY <1>4, PayAppend
<1>5. CASE Skip \/ ReadBalances \/ TransferFails \/ ConfirmBalances \/ ConfirmFails \/ Return
           \/ Dies
  <2>1. UNCHANGED <<journal, paid>>
    BY <1>5 DEF Skip, ReadBalances, TransferFails, ConfirmBalances, ConfirmFails, Return, Dies
  <2> QED
    BY <1>5, <2>1, PayQuiet
<1> QED
  BY <1>1, <1>2, <1>3, <1>4, <1>5 DEF Next, Run

-----------------------------------------------------------------------------
(* Results.                                                                *)

LEMMA RecordsKept ==
  ASSUME NEW b, NEW rs \in Seq(Record), NEW n \in Nat, NEW pd, NEW pd2,
         Records(b, rs, n, pd), \A id \in AllIds : pd[id] > 0 => pd2[id] > 0
  PROVE  Records(b, rs, n, pd2)
<1> SUFFICES ASSUME NEW i \in 1..n, rs[i].status = "ok" PROVE pd2[rs[i].id] > 0
  BY DEF Records
<1>1. rs[i] \in Record
  <2>1. Len(rs) = n
    BY DEF Records
  <2> HIDE DEF Record
  <2> QED
    BY <2>1
<1>2. rs[i].id \in AllIds
  BY <1>1 DEF Record
<1>3. pd[rs[i].id] > 0
  BY DEF Records
<1> QED
  BY <1>2, <1>3

LEMMA RecordsExtended ==
  ASSUME NEW b, NEW rs \in Seq(Record), NEW n \in Nat, NEW pd, Records(b, rs, n, pd),
         NEW r \in Record, r.id = b.intents[n + 1].id, r.status = "ok" => pd[r.id] > 0
  PROVE  Records(b, Append(rs, r), n + 1, pd)
<1>1. Len(rs) = n
  BY DEF Records
<1>2. /\ Len(Append(rs, r)) = n + 1 /\ Append(rs, r)[n + 1] = r
      /\ \A i \in 1..n : Append(rs, r)[i] = rs[i]
  <2> HIDE DEF Record
  <2> QED
    BY <1>1
<1> QED
  BY <1>2 DEF Records

(* Every result stays what it was while payments only grow.                *)
LEMMA ResultsKept ==
  ASSUME TypeOK, ResultInv, UNCHANGED results,
         \A id \in AllIds : paid[id] > 0 => paid'[id] > 0
  PROVE  \A r \in results' : Records(r.body, r.perIntent, Len(r.body.intents), paid')
<1> SUFFICES ASSUME NEW r \in results
             PROVE  Records(r.body, r.perIntent, Len(r.body.intents), paid')
  OBVIOUS
<1>1. r.perIntent \in Seq(Record) /\ r.body \in Bodies
  BY DEF TypeOK, Bodies
<1>2. Len(r.body.intents) \in Nat
  BY <1>1, BodyTypes
<1>3. Records(r.body, r.perIntent, Len(r.body.intents), paid)
  BY DEF ResultInv
<1> HIDE DEF Record
<1> QED
  BY <1>1, <1>2, <1>3, RecordsKept

LEMMA ResultTransfer ==
  ASSUME TypeOK, ResultInv, Transfer
  PROVE  ResultInv'
<1>1. pos <= Len(Intents) /\ Here.id \in AllIds /\ pos - 1 \in Nat
  <2>1. pos <= Len(Intents)
    BY DEF TypeOK, Transfer, Intents
  <2> QED
    BY <2>1, HereTypes
<1>2. paid \in [AllIds -> Nat] /\ paid' = [paid EXCEPT ![Here.id] = paid[Here.id] + 1]
  BY DEF TypeOK, Transfer
<1>3. \A id \in AllIds : paid[id] > 0 => paid'[id] > 0
  BY <1>1, <1>2
<1>4. DoneIds' = DoneIds /\ Here' = Here
  BY DoneOtherwise DEF Transfer, Here, Intents
<1>5. \A id \in DoneIds' : paid'[id] > 0
  BY <1>3, <1>4, DoneTypes DEF ResultInv
<1>6. \A id \in AllIds : InFlight(id)' => paid'[id] > 0
  BY <1>1, <1>2, <1>4 DEF InFlight
<1>7. Records(plan, perIntent, pos - 1, paid')
  <2>1. Records(plan, perIntent, pos - 1, paid) /\ perIntent \in Seq(Record)
    BY DEF ResultInv, Transfer, TypeOK
  <2> HIDE DEF Record
  <2> QED
    BY <1>1, <1>3, <2>1, RecordsKept
<1>8. \A r \in results' : Records(r.body, r.perIntent, Len(r.body.intents), paid')
  BY <1>3, ResultsKept DEF Transfer
<1> QED
  BY <1>5, <1>6, <1>7, <1>8 DEF ResultInv, Transfer

(* Skip and AppendRecord add a record of the intent the executor is at.    *)
LEMMA ResultRecord ==
  ASSUME TypeOK, PayInv, ResultInv, Skip \/ AppendRecord
  PROVE  ResultInv'
<1> DEFINE st == IF Skip THEN "ok" ELSE status
           r == [id |-> Here.id, status |-> st]
<1>1. pos <= Len(Intents) /\ Here.id \in AllIds /\ pos - 1 \in Nat /\ pos \in Nat
  <2>1. pos <= Len(Intents)
    BY DEF TypeOK, Skip, More, AppendRecord, Intents
  <2> QED
    BY <2>1, HereTypes
<1>2. /\ perIntent' = Append(perIntent, r) /\ pos' = pos + 1 /\ plan' = plan /\ paid' = paid
      /\ step' = "next" /\ results' = results /\ step # "idle"
  BY DEF Skip, More, AppendRecord
<1>3. st \in Status /\ r \in Record /\ r.id = Here.id /\ r.status = st
  <2>1. st \in Status
    BY DEF TypeOK, Status
  <2> QED
    BY <1>1, <2>1, AppendTypes
<1>4. st = "ok" => paid[Here.id] > 0
  <2>1. CASE Skip
    BY <2>1 DEF PayInv, ResultInv, Skip
  <2>2. CASE ~Skip
    BY <2>2, <1>1 DEF ResultInv, InFlight, AppendRecord
  <2> QED
    BY <2>1, <2>2
<1>5. Records(plan, perIntent', pos, paid)
  <2>1. Records(plan, perIntent, pos - 1, paid) /\ perIntent \in Seq(Record)
    BY <1>2 DEF ResultInv, TypeOK
  <2>2. r.id = plan.intents[(pos - 1) + 1].id
    BY <1>1, <1>3 DEF Here, Intents
  <2> HIDE DEF Record, r
  <2>3. r.status = "ok" => paid[r.id] > 0
    BY <1>3, <1>4
  <2>4. Records(plan, Append(perIntent, r), (pos - 1) + 1, paid)
    BY <1>1, <1>3, <2>1, <2>2, <2>3, RecordsExtended
  <2> QED
    BY <1>1, <1>2, <2>4
<1>6. \A id \in DoneIds' : paid[id] > 0
  <2>1. CASE Skip
    BY <2>1, DoneOtherwise DEF ResultInv, Skip
  <2>2. CASE ~Skip
    BY <2>2, <1>4, DoneAfterAppend DEF ResultInv
  <2> QED
    BY <2>1, <2>2
<1>7. \A id \in AllIds : ~InFlight(id)'
  BY <1>2 DEF InFlight
<1>8. Records(plan', perIntent', pos' - 1, paid')
  BY <1>1, <1>2, <1>5
<1> QED
  BY <1>2, <1>6, <1>7, <1>8 DEF ResultInv

LEMMA ResultReturn ==
  ASSUME TypeOK, ResultInv, Return
  PROVE  ResultInv'
<1>1. Len(plan.intents) \in Nat /\ pos - 1 = Len(plan.intents)
  <2>1. Len(plan.intents) \in Nat
    BY BodyTypes DEF TypeOK, Bodies, Return
  <2> QED
    BY <2>1 DEF TypeOK, Return, Intents
<1>2. Records(plan, perIntent, Len(plan.intents), paid)
  BY <1>1 DEF ResultInv, Return
<1>3. /\ results' = results \cup {[body |-> plan, perIntent |-> perIntent]}
      /\ DoneIds' = DoneIds /\ paid' = paid /\ step' = "idle"
  BY DoneOtherwise DEF Return
<1>4. \A r \in results' : Records(r.body, r.perIntent, Len(r.body.intents), paid)
  BY <1>2, <1>3 DEF ResultInv
<1> QED
  BY <1>3, <1>4 DEF ResultInv, InFlight

LEMMA ResultStep ==
  ASSUME TypeOK, PayInv, ResultInv, Next
  PROVE  ResultInv'
<1>1. ASSUME NEW p \in Proposals, Approve(p) \/ \E key \in Keys : OtherSigns(key, p)
      PROVE  ResultInv'
  <2>1. UNCHANGED <<journal, executor, paid, results>>
    BY <1>1 DEF Approve, OtherSigns, Sign
  <2> QED
    BY <2>1 DEF ResultInv, DoneIds, InFlight, Here, Intents, executor
<1>2. ASSUME NEW p \in Proposals, NEW t \in tokens, Execute(p, t) PROVE ResultInv'
  <2>1. Records(plan', perIntent', pos' - 1, paid')
    BY <1>2 DEF Execute, Records
  <2>2. /\ DoneIds' = DoneIds /\ paid' = paid /\ results' = results /\ step' = "next"
    BY <1>2, DoneOtherwise DEF Execute
  <2> QED
    BY <2>1, <2>2 DEF ResultInv, InFlight
<1>3. CASE Transfer
  BY <1>3, ResultTransfer
<1>4. CASE Skip \/ AppendRecord
  BY <1>4, ResultRecord
<1>5. CASE Return
  BY <1>5, ResultReturn
<1>6. CASE ReadBalances \/ TransferFails \/ ConfirmBalances \/ ConfirmFails \/ Dies
  <2>1. /\ UNCHANGED <<journal, paid, results, plan, perIntent, pos>> /\ Here' = Here
        /\ step # "idle"
    BY <1>6 DEF ReadBalances, More, TransferFails, ConfirmBalances, ConfirmFails, Dies, Here,
                Intents
  <2>2. DoneIds' = DoneIds
    BY <2>1, DoneOtherwise
  <2>3. \A id \in AllIds : InFlight(id)' => InFlight(id)
    BY <1>6, <2>1 DEF InFlight, ReadBalances, More, TransferFails, ConfirmBalances,
                      ConfirmFails, Dies
  <2> QED
    BY <2>1, <2>2, <2>3 DEF ResultInv
<1> QED
  BY <1>1, <1>2, <1>3, <1>4, <1>5, <1>6 DEF Next, Run

LEMMA ResultsVerify ==
  ASSUME TypeOK, GateInv, ResultInv
  PROVE  EveryResultVerifies
<1> SUFFICES ASSUME NEW r \in results
             PROVE  /\ RecordsVerify(r)
                    /\ Len(r.perIntent) = Len(r.body.intents)
                    /\ \A i \in Positions(r.body) :
                         /\ r.perIntent[i].id = r.body.intents[i].id
                         /\ r.perIntent[i].status = "ok" => paid[r.perIntent[i].id] > 0
  BY DEF EveryResultVerifies
<1>1. Good(r.body) /\ Records(r.body, r.perIntent, Len(r.body.intents), paid)
  BY DEF GateInv, ResultInv
<1>2. /\ Len(r.perIntent) = Len(r.body.intents)
      /\ \A i \in Positions(r.body) :
           /\ r.perIntent[i].id = r.body.intents[i].id
           /\ r.perIntent[i].status = "ok" => paid[r.perIntent[i].id] > 0
  BY <1>1 DEF Records, Positions
<1>3. DOMAIN r.perIntent = Positions(r.body)
  <2>1. r.perIntent \in Seq(Record)
    BY DEF TypeOK
  <2> HIDE DEF Record
  <2> QED
    BY <2>1, <1>2 DEF Positions
<1>4. RecordsVerify(r)
  BY <1>1, <1>2, <1>3, DistinctIds DEF RecordsVerify
<1> QED
  BY <1>2, <1>4

-----------------------------------------------------------------------------
(* What is spent.                                                          *)

(* Steps that leave the money alone.                                       *)
LEMMA SpendQuiet ==
  ASSUME SpendInv, UNCHANGED <<ledger, paid>>, executed \subseteq executed',
         exposed \subseteq exposed', step' # "idle" => plan' \in executed'
  PROVE  SpendInv'
<1>1. \A id \in AllIds : paid'[id] > 0 => \E b \in executed' : id \in OwnIds(b)
  BY DEF SpendInv
<1>2. ASSUME NEW b \in Bodies, executed' \subseteq {b}, exposed' = {}, NEW a \in Accounts
      PROVE  ledger'[a] >= Opening[a] - SumOver(Costs(b), PaidFrom(b, a, paid'))
  <2>1. executed \subseteq {b} /\ exposed = {}
    BY <1>2
  <2> QED
    BY <2>1 DEF SpendInv
<1> QED
  BY <1>1, <1>2 DEF SpendInv

LEMMA InitSpend ==
  ASSUME Init, \A id \in AllIds : paid[id] = 0
  PROVE  SpendInv
<1>1. ASSUME NEW b \in Bodies, NEW a \in Accounts
      PROVE  ledger[a] >= Opening[a] - SumOver(Costs(b), PaidFrom(b, a, paid))
  <2>1. \A i \in Positions(b) : b.intents[i].id \in AllIds
    BY BodyTypes, IntentTypes DEF Positions
  <2>2. PaidFrom(b, a, paid) = {}
    BY <2>1 DEF PaidFrom
  <2>3. SumOver(Costs(b), PaidFrom(b, a, paid)) = 0
    BY <2>2, SumEmpty
  <2>4. ledger[a] = Opening[a] /\ Opening[a] \in Nat
    BY ExecutorAssumption DEF Init, Refs
  <2> QED
    BY <2>3, <2>4
<1> QED
  BY <1>1 DEF Init, SpendInv

(* What was transferred from an account is some of what the plan takes.    *)
LEMMA PaidFromTypes ==
  ASSUME NEW b \in Bodies, NEW a, NEW pd
  PROVE  /\ b.intents \in Seq(Intent) /\ Len(b.intents) \in Nat
         /\ PaidFrom(b, a, pd) \subseteq Spent(b, a, Len(b.intents))
         /\ IsFiniteSet(Spent(b, a, Len(b.intents))) /\ IsFiniteSet(PaidFrom(b, a, pd))
         /\ \A i \in Spent(b, a, Len(b.intents)) : Costs(b)[i] \in Nat
         /\ \A i \in PaidFrom(b, a, pd) : Costs(b)[i] \in Nat
<1>1. b.intents \in Seq(Intent) /\ Len(b.intents) \in Nat
  BY BodyTypes
<1>2. PaidFrom(b, a, pd) \subseteq Spent(b, a, Len(b.intents))
  BY DEF PaidFrom, Spent, Positions
<1>3. IsFiniteSet(Spent(b, a, Len(b.intents))) /\ Spent(b, a, Len(b.intents)) \subseteq 1..Len(b.intents)
  BY <1>1, SpentFinite
<1>4. IsFiniteSet(PaidFrom(b, a, pd))
  BY <1>2, <1>3, FS_Subset
<1>5. \A i \in 1..Len(b.intents) : Costs(b)[i] \in Nat
  BY <1>1, AmountTypes
<1> QED
  BY <1>1, <1>2, <1>3, <1>4, <1>5

LEMMA SpendTransfer ==
  ASSUME TypeOK, GateInv, PayInv, SpendInv, Transfer
  PROVE  SpendInv'
<1>1. /\ pos \in Positions(plan) /\ Here.id \in AllIds /\ pos <= Len(Intents)
      /\ paid[Here.id] > 0 => Here.id \in exposed
  BY FreshTransfer DEF Transfer
<1>2. /\ Here = plan.intents[pos] /\ plan \in executed
      /\ ledger \in [Refs -> Nat] /\ paid \in [AllIds -> Nat]
      /\ executed' = executed /\ exposed' = exposed /\ plan' = plan
  BY DEF Here, Intents, SpendInv, Transfer, TypeOK
<1>3. Here.from \in Accounts /\ Here.to \in Refs /\ Here.amount \in Nat /\ Here.from \in Refs
  BY <1>1, <1>2, HereTypes DEF GateInv, Good
<1>4. paid' = [paid EXCEPT ![Here.id] = paid[Here.id] + 1]
  BY DEF Transfer
<1>5. ASSUME NEW id \in AllIds, paid'[id] > 0 PROVE \E b \in executed : id \in OwnIds(b)
  <2>1. CASE id = Here.id
    <3>1. id \in OwnIds(plan)
      BY <1>1, <1>2, <2>1 DEF OwnIds
    <3> QED
      BY <1>2, <3>1
  <2>2. CASE id # Here.id
    <3>1. paid[id] > 0
      BY <1>2, <1>4, <1>5, <2>2
    <3> QED
      BY <3>1 DEF SpendInv
  <2> QED
    BY <2>1, <2>2
<1>6. ASSUME NEW b \in Bodies, executed \subseteq {b}, exposed = {}, NEW a \in Accounts
      PROVE  ledger'[a] >= Opening[a] - SumOver(Costs(b), PaidFrom(b, a, paid'))
  <2> DEFINE S == PaidFrom(b, a, paid)
             v == Costs(b)
  <2>1. b = plan /\ ~(paid[Here.id] > 0) /\ Good(b)
    BY <1>1, <1>2, <1>6 DEF GateInv
  <2>2. ledger[a] >= Opening[a] - SumOver(v, S)
    BY <1>6 DEF SpendInv
  <2>3. /\ IsFiniteSet(S) /\ \A i \in S : v[i] \in Nat
        /\ v[pos] = Here.amount + FeeBuffer /\ v[pos] \in Nat
    <3>1. IsFiniteSet(S) /\ (\A i \in S : v[i] \in Nat) /\ b.intents \in Seq(Intent)
      BY PaidFromTypes
    <3>2. pos \in 1..Len(b.intents)
      BY <1>1, <2>1 DEF Positions
    <3> HIDE DEF S
    <3>3. v[pos] = b.intents[pos].amount + FeeBuffer /\ v[pos] \in Nat
      BY <3>1, <3>2, AmountTypes
    <3> QED
      BY <1>2, <2>1, <3>1, <3>3
  <2>4. \A i \in Positions(b) : b.intents[i].id = Here.id <=> i = pos
    BY <1>1, <1>2, <2>1, DistinctIds
  <2>5. \A i \in Positions(b) : i # pos => paid'[b.intents[i].id] = paid[b.intents[i].id]
    <3>1. \A i \in Positions(b) : b.intents[i].id \in AllIds
      BY IntentTypes DEF Positions
    <3> QED
      BY <1>2, <1>4, <2>4, <3>1
  <2>6. paid'[Here.id] > 0
    BY <1>1, <1>2, <1>4
  <2>7. pos \notin S
    BY <1>2, <2>1 DEF PaidFrom
  <2>8. Opening[a] \in Nat /\ ledger[a] \in Nat /\ Fee \in Nat /\ FeeBuffer \in Nat /\ Fee <= FeeBuffer /\ a \in Refs
    BY <1>2, ExecutorAssumption, PolicyAssumption DEF Refs
  <2>9. CASE a = Here.from
    <3>1. PaidFrom(b, a, paid') = S \cup {pos}
      BY <1>1, <1>2, <2>1, <2>4, <2>5, <2>6, <2>9 DEF PaidFrom
    <3>2. ledger'[a] >= ledger[a] - (Here.amount + Fee)
      <4> DEFINE w == ledger[a] - (Here.amount + Fee)
                 dl == [ledger EXCEPT ![Here.from] = w]
      <4>1. w \in Int /\ dl \in [Refs -> Int] /\ dl[a] = w
        BY <1>2, <1>3, <2>8, <2>9
      <4>2. ledger' = [dl EXCEPT ![Here.to] = dl[Here.to] + Here.amount]
        BY <2>9 DEF Transfer, Transferred
      <4> HIDE DEF w, dl
      <4>3. ledger'[a] = IF a = Here.to THEN w + Here.amount ELSE w
        BY <2>8, <4>1, <4>2
      <4>4. ledger'[a] >= w
        BY <1>3, <4>1, <4>3
      <4> QED
        BY <4>4 DEF w
    <3>3. SumOver(v, S \cup {pos}) = SumOver(v, S) + v[pos]
      <4> HIDE DEF S, v
      <4> QED
        BY <2>3, <2>7, SumAdd
    <3>4. SumOver(v, S) \in Nat /\ ledger'[a] \in Int
      <4>1. SumOver(v, S) \in Nat
        <5> HIDE DEF S, v
        <5> QED
          BY <2>3, SumNat
      <4>2. ledger'[a] \in Int
        <5>1. ledger' \in [Refs -> Nat]
          BY <1>1, TransferredTypes DEF Transfer
        <5> QED
          BY <2>8, <5>1
      <4> QED
        BY <4>1, <4>2
    <3> HIDE DEF S, v
    <3>5. ledger'[a] >= Opening[a] - SumOver(v, S \cup {pos})
      BY <1>3, <2>2, <2>3, <2>8, <3>2, <3>3, <3>4
    <3> QED
      BY <3>1, <3>5 DEF v
  <2>10. CASE a # Here.from
    <3>1. PaidFrom(b, a, paid') = S
      BY <1>1, <1>2, <2>1, <2>4, <2>5, <2>6, <2>10 DEF PaidFrom
    <3>2. ledger'[a] >= ledger[a]
      <4> DEFINE w == ledger[Here.from] - (Here.amount + Fee)
                 dl == [ledger EXCEPT ![Here.from] = w]
      <4>1. dl[a] = ledger[a] /\ DOMAIN dl = Refs
        BY <1>2, <2>8, <2>10
      <4>2. ledger' = [dl EXCEPT ![Here.to] = dl[Here.to] + Here.amount]
        BY DEF Transfer, Transferred
      <4> HIDE DEF dl
      <4>3. ledger'[a] = IF a = Here.to THEN ledger[a] + Here.amount ELSE ledger[a]
        BY <2>8, <4>1, <4>2
      <4> QED
        BY <1>3, <2>8, <4>3
    <3>3. SumOver(v, S) \in Nat /\ ledger'[a] \in Int
      <4>1. SumOver(v, S) \in Nat
        <5> HIDE DEF S, v
        <5> QED
          BY <2>3, SumNat
      <4>2. ledger'[a] \in Int
        <5>1. ledger' \in [Refs -> Nat]
          BY <1>1, TransferredTypes DEF Transfer
        <5> QED
          BY <2>8, <5>1
      <4> QED
        BY <4>1, <4>2
    <3> HIDE DEF S, v
    <3>4. ledger'[a] >= Opening[a] - SumOver(v, S)
      BY <2>2, <2>8, <3>2, <3>3
    <3> QED
      BY <3>1, <3>4 DEF v
  <2> QED
    BY <2>9, <2>10
<1> QED
  BY <1>2, <1>5, <1>6 DEF SpendInv

LEMMA SpendStep ==
  ASSUME TypeOK, GateInv, PayInv, SpendInv, Next
  PROVE  SpendInv'
<1>1. ASSUME NEW p \in Proposals, Approve(p) \/ \E key \in Keys : OtherSigns(key, p)
      PROVE  SpendInv'
  <2>1. UNCHANGED <<ledger, paid, executed, exposed, step, plan>>
    BY <1>1 DEF Approve, OtherSigns, Sign, executor
  <2> QED
    BY <2>1, SpendQuiet DEF SpendInv
<1>2. ASSUME NEW p \in Proposals, NEW t \in tokens, Execute(p, t) PROVE SpendInv'
  <2>1. /\ UNCHANGED <<ledger, paid, exposed>> /\ executed \subseteq executed'
        /\ plan' \in executed'
    BY <1>2 DEF Execute
  <2> QED
    BY <2>1, SpendQuiet
<1>3. CASE Transfer
  BY <1>3, SpendTransfer
<1>4. CASE (Run /\ ~Transfer) \/ Dies
  <2>1. /\ UNCHANGED <<ledger, paid, executed, plan>> /\ exposed \subseteq exposed'
        /\ step # "idle"
    BY <1>4 DEF Run, Skip, More, ReadBalances, TransferFails, ConfirmBalances, ConfirmFails,
                AppendRecord, Return, Dies
  <2> QED
    BY <2>1, SpendQuiet DEF SpendInv
<1> QED
  BY <1>1, <1>2, <1>3, <1>4 DEF Next

-----------------------------------------------------------------------------
(* The policy's floors and cap.                                            *)

LEMMA IdTypes ==
  /\ IsFiniteSet(AllIds) /\ AllIds \subseteq Ids
  /\ \A b \in Bodies : OwnIds(b) \subseteq AllIds /\ IsFiniteSet(OwnIds(b))
<1>1. ASSUME NEW b \in Bodies PROVE OwnIds(b) \subseteq AllIds /\ IsFiniteSet(OwnIds(b))
  <2>1. Len(b.intents) \in Nat /\ OwnIds(b) \subseteq AllIds
    BY BodyTypes, IntentTypes DEF OwnIds, Positions
  <2> DEFINE f == [i \in Positions(b) |-> b.intents[i].id]
  <2>2. IsFiniteSet(Positions(b)) /\ DOMAIN f = Positions(b)
    BY <2>1, FiniteRun DEF Positions
  <2>3. f = [i \in DOMAIN f |-> f[i]] /\ OwnIds(b) = {f[i] : i \in DOMAIN f}
    BY DEF OwnIds
  <2> HIDE DEF f
  <2> QED
    BY <2>1, <2>2, <2>3, FiniteImage
<1>2. AllIds \subseteq Ids
  <2> SUFFICES ASSUME NEW p \in Proposals, NEW i \in Positions(p.body)
               PROVE  p.body.intents[i].id \in Ids
    BY DEF AllIds
  <2>1. p.body \in Bodies
    BY DEF Bodies
  <2>2. p.body.intents[i] \in Intent
    BY <2>1, BodyTypes DEF Positions
  <2> QED
    BY <2>2 DEF Intent
<1>3. IsFiniteSet(AllIds)
  <2> DEFINE f == [p \in Proposals |-> OwnIds(p.body)]
             R == {f[p] : p \in DOMAIN f}
  <2>1. DOMAIN f = Proposals /\ IsFiniteSet(Proposals) /\ f = [p \in DOMAIN f |-> f[p]]
    BY ExecutorAssumption
  <2>2. AllIds = UNION R
    BY DEF AllIds, OwnIds
  <2>3. \A s \in R : IsFiniteSet(s)
    BY <1>1 DEF Bodies
  <2>4. IsFiniteSet(R)
    <3> HIDE DEF f
    <3> QED
      BY <2>1, FiniteImage
  <2> HIDE DEF R
  <2> QED
    BY <2>2, <2>3, <2>4, FS_UNION
<1> QED
  BY <1>1, <1>2, <1>3

(* An intent paid at most once adds nothing or its amount.                 *)
LEMMA PaidValue ==
  ASSUME NEW m \in Nat, NEW n \in Nat, ~(n > 1)
  PROVE  n * m \in Int /\ n * m <= m /\ (~(n > 0) => n * m = 0)
<1>1. n = 0 \/ n = 1
  OBVIOUS
<1>2. CASE n = 0
  BY <1>2
<1>3. CASE n = 1
  BY <1>3
<1> QED
  BY <1>1, <1>2, <1>3

LEMMA CapKept ==
  ASSUME TypeOK, GateInv, PayInv, SpendInv, NEW b \in Bodies, executed = {b}, exposed = {}
  PROVE  PaidOut <= PerRunCap
<1> DEFINE v == [id \in AllIds |-> paid[id] * id[4]]
           f == [i \in Positions(b) |-> b.intents[i].id]
           w == [i \in Positions(b) |-> v[f[i]]]
<1>1. IsFiniteSet(AllIds) /\ AllIds \subseteq Ids /\ OwnIds(b) \subseteq AllIds
  BY IdTypes
<1>2. \A id \in AllIds : paid[id] \in Nat /\ ~(paid[id] > 1) /\ id[4] \in Nat
  BY <1>1 DEF TypeOK, PayInv, Ids
<1>3. \A id \in AllIds : v[id] \in Int /\ v[id] <= id[4] /\ (~(paid[id] > 0) => v[id] = 0)
  BY <1>2, PaidValue
<1>4. \A id \in AllIds \ OwnIds(b) : v[id] = 0
  <2>1. \A id \in AllIds \ OwnIds(b) : ~(paid[id] > 0)
    BY DEF SpendInv
  <2> HIDE DEF v
  <2> QED
    BY <1>3, <2>1
<1>5. PaidOut = SumOver(v, AllIds)
  BY DEF PaidOut
<1>6. /\ \A i \in Positions(b) : f[i] = b.intents[i].id /\ f[i] \in AllIds
      /\ DOMAIN f = Positions(b) /\ f = [i \in DOMAIN f |-> f[i]]
      /\ OwnIds(b) = {f[i] : i \in DOMAIN f}
  BY <1>1 DEF OwnIds
<1>7. Good(b) /\ b.intents \in Seq(Intent) /\ Len(b.intents) \in Nat
  BY BodyTypes DEF GateInv
<1>8. \A i, j \in DOMAIN f : f[i] = f[j] => i = j
  <2> HIDE DEF f
  <2> QED
    BY <1>6, <1>7, DistinctIds
<1>9. ASSUME NEW i \in Positions(b)
      PROVE  Amounts(b)[i] \in Int /\ f[i][4] = Amounts(b)[i]
  <2>1. b.intents[i].id = IntentId(i, b.intents[i].kind, b.intents[i].to, b.intents[i].amount)
    BY <1>7 DEF Good
  <2>2. Amounts(b)[i] = b.intents[i].amount /\ Amounts(b)[i] \in Nat
    BY <1>7, AmountTypes DEF Positions
  <2> QED
    BY <1>6, <2>1, <2>2 DEF IntentId
<1> HIDE DEF v, f
<1>10. \A i \in DOMAIN f : w[i] \in Int /\ v[f[i]] = w[i] /\ w[i] <= Amounts(b)[i]
  BY <1>3, <1>6, <1>9
<1>11. IsFiniteSet(DOMAIN f)
  BY <1>6, <1>7, FiniteRun DEF Positions
<1> HIDE DEF w
<1>12. SumOver(v, AllIds) = SumOver(v, OwnIds(b))
  BY <1>1, <1>3, <1>4, SumZeros
<1>13. SumOver(v, {f[i] : i \in DOMAIN f}) = SumOver(w, DOMAIN f)
  BY <1>6, <1>8, <1>10, <1>11, SumImage
<1>14. SumOver(w, DOMAIN f) <= SumOver(Amounts(b), DOMAIN f)
  <2>1. \A i \in DOMAIN f : w[i] \in Int /\ Amounts(b)[i] \in Int /\ w[i] <= Amounts(b)[i]
    BY <1>6, <1>9, <1>10
  <2> QED
    BY <1>11, <2>1, SumMono
<1>15. SumOver(Amounts(b), DOMAIN f) <= PerRunCap
  BY <1>6, <1>7 DEF Good, Total
<1>16. /\ SumOver(w, DOMAIN f) \in Int /\ SumOver(Amounts(b), DOMAIN f) \in Int
       /\ PerRunCap \in Int
  <2>1. (\A i \in DOMAIN f : w[i] \in Int) /\ \A i \in DOMAIN f : Amounts(b)[i] \in Int
    BY <1>6, <1>9, <1>10
  <2> QED
    BY <1>11, <2>1, SumInt, PolicyAssumption
<1>17. PaidOut = SumOver(w, DOMAIN f)
  BY <1>5, <1>6, <1>12, <1>13
<1> QED
  BY <1>14, <1>15, <1>16, <1>17

LEMMA SpendsWithin ==
  ASSUME TypeOK, GateInv, PayInv, SpendInv
  PROVE  WithinPolicy
<1> SUFFICES ASSUME NEW p \in Proposals, executed = {p.body}, exposed = {}, Honest(p.body)
             PROVE  PaidOut <= PerRunCap /\ (PaysItself(p.body) => FloorsKept(p.body))
  BY DEF WithinPolicy
<1> DEFINE b == p.body
<1>1. b \in Bodies
  BY DEF Bodies
<1>2. PaidOut <= PerRunCap
  BY <1>1, CapKept
<1>3. ASSUME PaysItself(b), NEW a \in Accounts, Spends(b, a) > 0
      PROVE  ledger[a] >= MinBalance[a]
  <2> DEFINE S == PaidFrom(b, a, paid)
             R == Spent(b, a, Len(b.intents))
  <2>1. ledger[a] >= Opening[a] - SumOver(Costs(b), S)
    BY <1>1 DEF SpendInv
  <2>2. Opening[a] - Spends(b, a) >= MinBalance[a]
    BY <1>3 DEF PaysItself, Honest
  <2>3. Spends(b, a) = SumOver(Costs(b), R)
    BY DEF Spends, Debits, Spent
  <2>4. /\ S \in SUBSET R /\ IsFiniteSet(R) /\ IsFiniteSet(S)
        /\ \A i \in R : Costs(b)[i] \in Nat
        /\ \A i \in S : Costs(b)[i] \in Nat
    BY <1>1, PaidFromTypes
  <2> HIDE DEF S, R, b
  <2>5. SumOver(Costs(b), S) <= SumOver(Costs(b), R)
    BY <2>4, SumGrows
  <2>6. SumOver(Costs(b), S) \in Nat /\ SumOver(Costs(b), R) \in Nat
    BY <2>4, SumNat
  <2>7. Opening[a] \in Nat /\ ledger[a] \in Nat /\ MinBalance[a] \in Nat
    BY ExecutorAssumption, PolicyAssumption DEF TypeOK, Refs
  <2> QED
    BY <2>1, <2>2, <2>3, <2>5, <2>6, <2>7
<1> QED
  BY <1>2, <1>3 DEF FloorsKept

-----------------------------------------------------------------------------
LEMMA InitExecInv == Init => ExecInv
<1> SUFFICES ASSUME Init PROVE ExecInv
  OBVIOUS
<1>1. TypeOK
  BY InitTypes
<1>2. DoneIds = {} /\ \A id \in AllIds : paid[id] = 0 /\ ~InFlight(id)
  BY DEF Init, DoneIds, InFlight
<1>3. GateInv
  <2>1. NoPlan.intents = <<>> /\ Positions(NoPlan) = {}
    BY DEF NoPlan, Positions
  <2>2. Total(NoPlan) = 0 /\ PerRunCap \in Nat
    BY <2>1, SumEmpty, PolicyAssumption DEF Total
  <2>3. Good(NoPlan)
    BY <2>1, <2>2 DEF Good
  <2> QED
    BY <2>3 DEF Init, GateInv
<1>4. PayInv /\ ResultInv /\ OnlyAllowed
  BY <1>2 DEF Init, PayInv, ResultInv, OnlyAllowed
<1>5. SpendInv
  BY <1>2, InitSpend
<1> QED
  BY <1>1, <1>3, <1>4, <1>5 DEF ExecInv

LEMMA StutterExecInv == ExecInv /\ UNCHANGED vars => ExecInv'
<1> SUFFICES ASSUME ExecInv, UNCHANGED vars PROVE ExecInv'
  OBVIOUS
<1>1. TypeOK'
  BY StepTypes DEF ExecInv
<1>2. DoneIds' = DoneIds /\ \A id \in AllIds : InFlight(id)' = InFlight(id)
  BY DEF vars, executor, DoneIds, InFlight, Here, Intents
<1>3. GateInv => GateInv'
  BY DEF GateInv, vars, executor
<1>4. PayInv => PayInv'
  BY <1>2 DEF PayInv, vars, executor, Here, Intents
<1>5. ResultInv => ResultInv'
  BY <1>2 DEF ResultInv, vars, executor
<1>6. OnlyAllowed => OnlyAllowed'
  BY DEF OnlyAllowed, vars
<1>7. SpendInv => SpendInv'
  <2> SUFFICES ASSUME SpendInv PROVE SpendInv'
    OBVIOUS
  <2>1. /\ UNCHANGED <<ledger, paid>> /\ executed \subseteq executed' /\ exposed \subseteq exposed'
        /\ step' # "idle" => plan' \in executed'
    BY DEF SpendInv, vars, executor
  <2> QED
    BY <2>1, SpendQuiet
<1> QED
  BY <1>1, <1>3, <1>4, <1>5, <1>6, <1>7 DEF ExecInv

LEMMA ExecInvariance == Spec => []ExecInv
<1>1. ExecInv /\ [Next]_vars => ExecInv'
  <2>1. ExecInv /\ Next => ExecInv'
    BY StepTypes, GateStep, AllowedStep, PayStep, ResultStep, SpendStep DEF ExecInv
  <2> QED
    BY <2>1, StutterExecInv
<1> QED
  BY <1>1, InitExecInv, PTL DEF Spec

(* The executor's state keeps its types: no account is overdrawn, and the  *)
(* executor stands at an intent of a plan it accepted.                     *)
THEOREM ExecutorTyping == Spec => []TypeOK
BY ExecInvariance, PTL DEF ExecInv

(* While the executor trusts only the gate's key, whatever plans and       *)
(* tokens there are, an intent is transferred twice only after a transfer  *)
(* of it went unrecorded.                                                  *)
THEOREM PaymentSafety == Spec => []PaidOnceUnlessExposed
<1>1. ExecInv => PaidOnceUnlessExposed
  BY DEF ExecInv, PayInv, PaidOnceUnlessExposed
<1> QED
  BY <1>1, ExecInvariance, PTL

(* Nor is anybody outside the policy paid; an approved plan made from the  *)
(* real balances keeps every floor and the per-run cap at every step, and  *)
(* every result returned verifies and accounts for its plan.               *)
THEOREM ExecutionSafety == Spec => []ExecutionIsSound
<1>1. ExecInv => ExecutionIsSound
  <2> SUFFICES ASSUME ExecInv PROVE ExecutionIsSound
    OBVIOUS
  <2>1. CASE Trusted \subseteq {GateKey}
    BY <2>1, ResultsVerify, SpendsWithin DEF ExecInv, ExecutionIsSound
  <2>2. CASE ~(Trusted \subseteq {GateKey})
    BY <2>2 DEF OnlyAllowed, WithinPolicy, EveryResultVerifies, ExecutionIsSound
  <2> QED
    BY <2>1, <2>2
<1> QED
  BY <1>1, ExecInvariance, PTL
=============================================================================
