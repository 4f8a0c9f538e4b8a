----------------------------- MODULE SumProofs -----------------------------
(***************************************************************************)
(* Sums over finite sets: what MapThenSumSet computes.  The fold is a       *)
(* function on the subsets of the set, defined by its own equation; that    *)
(* there is such a function is shown along strict inclusion of subsets.     *)
(***************************************************************************)
EXTENDS FiniteSetsExt, FiniteSetTheorems, TLAPS

SumOf(f, S) == MapThenSumSet(LAMBDA x : f[x], S)

First(s) == CHOOSE x \in s : TRUE
Added(f, s, g) == IF s = {} THEN 0 ELSE f[First(s)] + g[s \ {First(s)}]
IsAdder(g, f, S) == g = [s \in SUBSET S |-> Added(f, s, g)]
Adder(f, S) == CHOOSE g : IsAdder(g, f, S)

LEMMA SumOfIsAdder ==
    ASSUME NEW f, NEW S
    PROVE  SumOf(f, S) = Adder(f, S)[S]
BY DEF SumOf, MapThenSumSet, MapThenFoldSet, Adder, IsAdder, Added, First

LEMMA FirstIn ==
    ASSUME NEW s, s # {}
    PROVE  First(s) \in s
BY DEF First

(* Induction over the subsets of a finite set: a set of subsets that has each *)
(* one whose strict subsets it has, has them all.                            *)
LEMMA SubsetInduction ==
    ASSUME NEW S, IsFiniteSet(S), NEW Good,
           \A t \in SUBSET S : (\A u \in SUBSET t : u # t => u \in Good) => t \in Good
    PROVE  SUBSET S \subseteq Good
<1> DEFINE Bad == {t \in SUBSET S : t \notin Good}
<1>1. IsWellFoundedOn(StrictSubsetOrdering(S), SUBSET S)
    BY FS_StrictSubsetOrderingWellFounded, FS_FiniteSubsetsOfFinite
<1>2. SUFFICES ASSUME Bad # {} PROVE FALSE
    OBVIOUS
<1>3. PICK t \in Bad : \A u \in Bad : <<u, t>> \notin StrictSubsetOrdering(S)
    <2> HIDE DEF Bad
    <2>1. Bad \subseteq SUBSET S
        BY DEF Bad
    <2> QED BY <1>1, <1>2, <2>1, WFMin
<1>4. \A u \in SUBSET t : u # t => u \in Good
    BY <1>3 DEF StrictSubsetOrdering
<1> QED BY <1>3, <1>4

LEMMA AdderUnique ==
    ASSUME NEW S, IsFiniteSet(S), NEW f, NEW g, NEW h, IsAdder(g, f, S), IsAdder(h, f, S)
    PROVE  g = h
<1> DEFINE Same == {s \in SUBSET S : g[s] = h[s]}
<1>1. \A t \in SUBSET S : (\A u \in SUBSET t : u # t => u \in Same) => t \in Same
    <2> SUFFICES ASSUME NEW t \in SUBSET S, \A u \in SUBSET t : u # t => u \in Same
                 PROVE  g[t] = h[t]
        OBVIOUS
    <2>1. g[t] = Added(f, t, g) /\ h[t] = Added(f, t, h)
        BY DEF IsAdder
    <2>2. t # {} => g[t \ {First(t)}] = h[t \ {First(t)}]
        BY FirstIn
    <2> QED BY <2>1, <2>2 DEF Added
<1>2. SUBSET S \subseteq Same
    <2> HIDE DEF Same
    <2> QED BY <1>1, SubsetInduction
<1> QED BY <1>2 DEF IsAdder

LEMMA AdderOfPart ==
    ASSUME NEW S, NEW T \in SUBSET S, NEW f, NEW g, IsAdder(g, f, S)
    PROVE  IsAdder([s \in SUBSET T |-> g[s]], f, T)
<1> DEFINE h == [s \in SUBSET T |-> g[s]]
<1>1. \A s \in SUBSET T : g[s] = Added(f, s, g)
    BY DEF IsAdder
<1>2. \A s \in SUBSET T : Added(f, s, g) = Added(f, s, h)
    BY FirstIn DEF Added
<1> QED BY <1>1, <1>2 DEF IsAdder

(* A sum on a part is the same, taken in the whole or by itself.             *)
LEMMA PartAgrees ==
    ASSUME NEW S, IsFiniteSet(S), NEW T \in SUBSET S, NEW f,
           \E g : IsAdder(g, f, S)
    PROVE  IsAdder(Adder(f, S), f, S) /\ IsAdder(Adder(f, T), f, T)
             /\ Adder(f, S)[T] = Adder(f, T)[T]
<1>1. IsAdder(Adder(f, S), f, S)
    BY DEF Adder
<1> DEFINE h == [s \in SUBSET T |-> Adder(f, S)[s]]
<1>2. IsAdder(h, f, T)
    BY <1>1, AdderOfPart
<1>3. IsAdder(Adder(f, T), f, T)
    <2> HIDE DEF h
    <2> QED BY <1>2 DEF Adder
<1>4. IsFiniteSet(T)
    BY FS_Subset
<1>5. h = Adder(f, T)
    <2> HIDE DEF h
    <2> QED BY <1>2, <1>3, <1>4, AdderUnique
<1>6. h[T] = Adder(f, S)[T]
    OBVIOUS
<1> QED BY <1>1, <1>3, <1>5, <1>6

LEMMA AdderExists ==
    ASSUME NEW S, IsFiniteSet(S), NEW f
    PROVE  \E g : IsAdder(g, f, S)
<1> DEFINE Good == {t \in SUBSET S : \E g : IsAdder(g, f, t)}
<1>1. \A t \in SUBSET S : (\A u \in SUBSET t : u # t => u \in Good) => t \in Good
    <2> SUFFICES ASSUME NEW t \in SUBSET S, \A u \in SUBSET t : u # t => u \in Good
                 PROVE  \E g : IsAdder(g, f, t)
        OBVIOUS
    <2> DEFINE part == [u \in SUBSET t |-> Adder(f, u)[u]]
               g == [s \in SUBSET t |-> Added(f, s, part)]
    <2>1. ASSUME NEW u \in SUBSET t, u # t
          PROVE  part[u] = Added(f, u, part)
        <3>1. \E k : IsAdder(k, f, u)
            BY <2>1
        <3>2. IsFiniteSet(u)
            BY FS_Subset
        <3>3. IsAdder(Adder(f, u), f, u)
            BY <3>1, <3>2, PartAgrees
        <3>4. Adder(f, u)[u] = Added(f, u, Adder(f, u))
            BY <3>3 DEF IsAdder
        <3>5. u # {} => Adder(f, u)[u \ {First(u)}] = part[u \ {First(u)}]
            BY <3>1, <3>2, PartAgrees
        <3>6. part[u] = Adder(f, u)[u]
            OBVIOUS
        <3> HIDE DEF part
        <3> QED BY <3>4, <3>5, <3>6 DEF Added
    <2>2. ASSUME NEW s \in SUBSET t
          PROVE  Added(f, s, part) = Added(f, s, g)
        <3>1. s # {} => s \ {First(s)} \in SUBSET t /\ s \ {First(s)} # t
            BY FirstIn
        <3>2. s # {} => part[s \ {First(s)}] = g[s \ {First(s)}]
            BY <2>1, <3>1
        <3> HIDE DEF part, g
        <3> QED BY <3>2 DEF Added
    <2>3. IsAdder(g, f, t)
        <3>1. g = [s \in SUBSET t |-> Added(f, s, g)]
            BY <2>2
        <3> HIDE DEF g
        <3> QED BY <3>1 DEF IsAdder
    <2> HIDE DEF g
    <2> QED BY <2>3
<1>2. SUBSET S \subseteq Good
    <2> HIDE DEF Good
    <2> QED BY <1>1, SubsetInduction
<1>3. S \in Good
    BY <1>2
<1> QED BY <1>3

-----------------------------------------------------------------------------
(* The fold's own equation.                                                 *)
LEMMA SumEquation ==
    ASSUME NEW S, IsFiniteSet(S), NEW f
    PROVE  SumOf(f, S) = IF S = {} THEN 0
                         ELSE f[First(S)] + SumOf(f, S \ {First(S)})
<1>1. \E g : IsAdder(g, f, S)
    BY AdderExists
<1>2. IsAdder(Adder(f, S), f, S)
    BY <1>1, PartAgrees
<1>3. Adder(f, S)[S] = Added(f, S, Adder(f, S))
    BY <1>2 DEF IsAdder
<1>4. Adder(f, S)[S \ {First(S)}] = Adder(f, S \ {First(S)})[S \ {First(S)}]
    BY <1>1, PartAgrees
<1> QED BY <1>3, <1>4, SumOfIsAdder DEF Added

(* The sum of no numbers, and that sums of numbers are numbers.              *)
LEMMA SumEmpty ==
    ASSUME NEW f
    PROVE  SumOf(f, {}) = 0
BY SumEquation, FS_EmptySet

LEMMA SumInt ==
    ASSUME NEW S, IsFiniteSet(S), NEW f, \A x \in S : f[x] \in Int
    PROVE  SumOf(f, S) \in Int
<1> DEFINE Good == {t \in SUBSET S : SumOf(f, t) \in Int}
<1>1. ASSUME NEW t \in SUBSET S, \A u \in SUBSET t : u # t => u \in Good
      PROVE  SumOf(f, t) \in Int
    <2>1. IsFiniteSet(t)
        BY FS_Subset
    <2>2. t # {} => f[First(t)] \in Int /\ SumOf(f, t \ {First(t)}) \in Int
        BY <1>1, FirstIn
    <2>3. SumOf(f, t) = IF t = {} THEN 0 ELSE f[First(t)] + SumOf(f, t \ {First(t)})
        BY <2>1, SumEquation
    <2> QED BY <2>2, <2>3
<1>2. SUBSET S \subseteq Good
    <2>1. \A t \in SUBSET S : (\A u \in SUBSET t : u # t => u \in Good) => t \in Good
        BY <1>1
    <2> HIDE DEF Good
    <2> QED BY <2>1, SubsetInduction
<1> QED BY <1>2

(* Any element may be taken first.                                          *)
LEMMA SumRemove ==
    ASSUME NEW S, IsFiniteSet(S), NEW f, \A x \in S : f[x] \in Int, NEW y \in S
    PROVE  SumOf(f, S) = f[y] + SumOf(f, S \ {y})
<1> DEFINE Good == {t \in SUBSET S : \A x \in t : SumOf(f, t) = f[x] + SumOf(f, t \ {x})}
<1>1. ASSUME NEW t \in SUBSET S, \A u \in SUBSET t : u # t => u \in Good, NEW x \in t
      PROVE  SumOf(f, t) = f[x] + SumOf(f, t \ {x})
    <2> DEFINE z == First(t)
    <2>1. IsFiniteSet(t) /\ IsFiniteSet(t \ {x}) /\ IsFiniteSet(t \ {z}) /\ IsFiniteSet((t \ {x}) \ {z})
        BY FS_Subset
    <2>2. z \in t
        BY FirstIn
    <2>3. SumOf(f, t) = f[z] + SumOf(f, t \ {z})
        BY <2>1, SumEquation
    <2> HIDE DEF z
    <2>4. CASE x = z
        BY <2>3, <2>4
    <2>5. CASE x # z
        <3> DEFINE rest == SumOf(f, (t \ {x}) \ {z})
        <3>1. (t \ {x}) \ {z} = (t \ {z}) \ {x}
            OBVIOUS
        <3>2. SumOf(f, t \ {z}) = f[x] + rest
            BY <1>1, <2>2, <2>5, <3>1
        <3>3. SumOf(f, t \ {x}) = f[z] + rest
            BY <1>1, <2>2, <2>5
        <3>4. rest \in Int
            BY <2>1, SumInt
        <3>5. f[x] \in Int /\ f[z] \in Int
            BY <2>2
        <3> HIDE DEF rest
        <3>6. SumOf(f, t) = f[z] + (f[x] + rest)
            BY <2>3, <3>2
        <3>7. f[z] + (f[x] + rest) = f[x] + (f[z] + rest)
            BY <3>4, <3>5
        <3> QED BY <3>3, <3>6, <3>7
    <2> QED BY <2>4, <2>5
<1>2. SUBSET S \subseteq Good
    <2>1. \A t \in SUBSET S : (\A u \in SUBSET t : u # t => u \in Good) => t \in Good
        BY <1>1
    <2> HIDE DEF Good
    <2> QED BY <2>1, SubsetInduction
<1> QED BY <1>2

LEMMA SumAdd ==
    ASSUME NEW S, IsFiniteSet(S), NEW f, NEW y, y \notin S,
           \A x \in S \cup {y} : f[x] \in Int
    PROVE  SumOf(f, S \cup {y}) = SumOf(f, S) + f[y]
<1>1. IsFiniteSet(S \cup {y})
    BY FS_AddElement
<1>2. (S \cup {y}) \ {y} = S
    OBVIOUS
<1>3. SumOf(f, S) \in Int
    BY SumInt
<1> QED BY <1>1, <1>2, <1>3, SumRemove

(* A sum does not see what lies outside its set.                             *)
LEMMA SumSame ==
    ASSUME NEW S, IsFiniteSet(S), NEW f, NEW g, \A x \in S : f[x] = g[x]
    PROVE  SumOf(f, S) = SumOf(g, S)
<1> DEFINE Good == {t \in SUBSET S : SumOf(f, t) = SumOf(g, t)}
<1>1. ASSUME NEW t \in SUBSET S, \A u \in SUBSET t : u # t => u \in Good
      PROVE  SumOf(f, t) = SumOf(g, t)
    <2>1. IsFiniteSet(t)
        BY FS_Subset
    <2>2. t # {} => /\ f[First(t)] = g[First(t)]
                    /\ SumOf(f, t \ {First(t)}) = SumOf(g, t \ {First(t)})
        BY <1>1, FirstIn
    <2> QED BY <2>1, <2>2, SumEquation
<1>2. SUBSET S \subseteq Good
    <2>1. \A t \in SUBSET S : (\A u \in SUBSET t : u # t => u \in Good) => t \in Good
        BY <1>1
    <2> HIDE DEF Good
    <2> QED BY <2>1, SubsetInduction
<1> QED BY <1>2

LEMMA SumUnion ==
    ASSUME NEW S, IsFiniteSet(S), NEW T, IsFiniteSet(T), S \cap T = {}, NEW f,
           \A x \in S \cup T : f[x] \in Int
    PROVE  SumOf(f, S \cup T) = SumOf(f, S) + SumOf(f, T)
<1> DEFINE Good == {t \in SUBSET T : SumOf(f, S \cup t) = SumOf(f, S) + SumOf(f, t)}
<1>1. ASSUME NEW t \in SUBSET T, \A u \in SUBSET t : u # t => u \in Good
      PROVE  SumOf(f, S \cup t) = SumOf(f, S) + SumOf(f, t)
    <2> DEFINE z == First(t)
               u == t \ {z}
    <2>1. IsFiniteSet(t) /\ IsFiniteSet(u) /\ IsFiniteSet(S \cup u)
        BY FS_Subset, FS_Union
    <2>2. SumOf(f, S) \in Int /\ SumOf(f, u) \in Int
        BY <2>1, SumInt
    <2>3. CASE t = {}
        <3>1. S \cup t = S
            BY <2>3
        <3> QED BY <2>2, <2>3, <3>1, SumEmpty
    <2>4. CASE t # {}
        <3>1. z \in t
            BY <2>4, FirstIn
        <3>2. SumOf(f, S \cup u) = SumOf(f, S) + SumOf(f, u)
            BY <1>1, <3>1
        <3>3. z \notin u /\ z \notin S \cup u /\ u \cup {z} = t
                /\ (S \cup u) \cup {z} = S \cup t /\ f[z] \in Int
            BY <3>1
        <3> HIDE DEF z, u
        <3>4. SumOf(f, t) = SumOf(f, u) + f[z]
            BY <2>1, <3>3, SumAdd
        <3>5. SumOf(f, S \cup t) = SumOf(f, S \cup u) + f[z]
            <4> DEFINE base == S \cup u
            <4>1. /\ IsFiniteSet(base) /\ z \notin base /\ base \cup {z} = S \cup t
                  /\ \A x \in base \cup {z} : f[x] \in Int
                BY <2>1, <3>3
            <4> HIDE DEF base
            <4>2. SumOf(f, base \cup {z}) = SumOf(f, base) + f[z]
                BY ONLY <4>1, SumAdd
            <4> QED BY <4>1, <4>2 DEF base
        <3> QED BY <2>2, <3>2, <3>3, <3>4, <3>5
    <2> QED BY <2>3, <2>4
<1>2. SUBSET T \subseteq Good
    <2>1. \A t \in SUBSET T : (\A u \in SUBSET t : u # t => u \in Good) => t \in Good
        BY <1>1
    <2> HIDE DEF Good
    <2> QED BY <2>1, SubsetInduction
<1> QED BY <1>2

LEMMA SumNat ==
    ASSUME NEW S, IsFiniteSet(S), NEW f, \A x \in S : f[x] \in Nat
    PROVE  SumOf(f, S) \in Nat
<1> DEFINE Good == {t \in SUBSET S : SumOf(f, t) \in Nat}
<1>1. ASSUME NEW t \in SUBSET S, \A u \in SUBSET t : u # t => u \in Good
      PROVE  SumOf(f, t) \in Nat
    <2>1. IsFiniteSet(t)
        BY FS_Subset
    <2>2. t # {} => f[First(t)] \in Nat /\ SumOf(f, t \ {First(t)}) \in Nat
        BY <1>1, FirstIn
    <2>3. SumOf(f, t) = IF t = {} THEN 0 ELSE f[First(t)] + SumOf(f, t \ {First(t)})
        BY <2>1, SumEquation
    <2> QED BY <2>2, <2>3
<1>2. SUBSET S \subseteq Good
    <2>1. \A t \in SUBSET S : (\A u \in SUBSET t : u # t => u \in Good) => t \in Good
        BY <1>1
    <2> HIDE DEF Good
    <2> QED BY <2>1, SubsetInduction
<1> QED BY <1>2

(* A part of natural numbers sums up to no more than the whole.              *)
LEMMA SumPart ==
    ASSUME NEW S, IsFiniteSet(S), NEW T \in SUBSET S, NEW f, \A x \in S : f[x] \in Nat
    PROVE  SumOf(f, T) <= SumOf(f, S)
<1>1. IsFiniteSet(T) /\ IsFiniteSet(S \ T) /\ T \cap (S \ T) = {} /\ T \cup (S \ T) = S
    BY FS_Subset
<1>2. SumOf(f, T) \in Nat /\ SumOf(f, S \ T) \in Nat
    BY <1>1, SumNat
<1>3. SumOf(f, S) = SumOf(f, T) + SumOf(f, S \ T)
    <2>1. \A x \in T \cup (S \ T) : f[x] \in Int
        OBVIOUS
    <2> QED BY <1>1, <2>1, SumUnion
<1> QED BY <1>2, <1>3

(* Sums over the pieces of a set add up to the sum over the whole.           *)
LEMMA SumOfPieces ==
    ASSUME NEW I, IsFiniteSet(I), NEW piece, \A i \in I : IsFiniteSet(piece[i]),
           \A i, j \in I : i # j => piece[i] \cap piece[j] = {},
           NEW f, \A i \in I : \A x \in piece[i] : f[x] \in Int,
           NEW g, \A i \in I : g[i] = SumOf(f, piece[i])
    PROVE  SumOf(g, I) = SumOf(f, UNION {piece[i] : i \in I})
<1> DEFINE All(t) == UNION {piece[i] : i \in t}
           Good == {t \in SUBSET I : IsFiniteSet(All(t)) /\ SumOf(g, t) = SumOf(f, All(t))}
<1>1. ASSUME NEW t \in SUBSET I, \A u \in SUBSET t : u # t => u \in Good
      PROVE  t \in Good
    <2>1. CASE t = {}
        <3>1. All(t) = {}
            BY <2>1
        <3> HIDE DEF All
        <3> QED BY <2>1, <3>1, SumEmpty, FS_EmptySet
    <2>2. CASE t # {}
        <3> DEFINE z == First(t)
                   u == t \ {z}
        <3>1. z \in t
            BY <2>2, FirstIn
        <3>2. u \in Good /\ IsFiniteSet(u) /\ z \notin u /\ u \cup {z} = t
            BY <1>1, <3>1, FS_Subset
        <3>3. All(t) = All(u) \cup piece[z]
            BY <3>1
        <3>4. All(u) \cap piece[z] = {}
            BY <3>1
        <3>5. \A x \in All(u) \cup piece[z] : f[x] \in Int
            BY <3>1
        <3>6. IsFiniteSet(All(u)) /\ SumOf(g, u) = SumOf(f, All(u)) /\ IsFiniteSet(piece[z])
            BY <3>1, <3>2
        <3>7. \A i \in t : g[i] \in Int
            <4> SUFFICES ASSUME NEW i \in t PROVE g[i] \in Int
                OBVIOUS
            <4>1. IsFiniteSet(piece[i]) /\ (\A x \in piece[i] : f[x] \in Int) /\ g[i] = SumOf(f, piece[i])
                OBVIOUS
            <4> QED BY <4>1, SumInt
        <3>8. g[z] = SumOf(f, piece[z])
            BY <3>1
        <3> HIDE DEF All, z, u
        <3>9. IsFiniteSet(All(t))
            <4>1. IsFiniteSet(All(u) \cup piece[z])
                BY ONLY <3>6, FS_Union
            <4> QED BY <3>3, <4>1
        <3>10. SumOf(f, All(t)) = SumOf(f, All(u)) + SumOf(f, piece[z])
            BY <3>3, <3>4, <3>5, <3>6, SumUnion
        <3>11. SumOf(g, t) = SumOf(g, u) + g[z]
            BY <3>2, <3>7, SumAdd
        <3> QED BY <3>6, <3>8, <3>9, <3>10, <3>11
    <2> QED BY <2>1, <2>2
<1>2. SUBSET I \subseteq Good
    <2> HIDE DEF Good
    <2> QED BY <1>1, SubsetInduction
<1> HIDE DEF All
<1>3. I \in Good
    BY <1>2
<1> QED BY <1>3 DEF All

(* The fold that adds up the amounts of rows is the sum of their amounts.    *)
LEMMA SumOfAmounts ==
    ASSUME NEW r, NEW S, IsFiniteSet(S), NEW f, \A x \in S : f[x] = r[x].amount
    PROVE  MapThenSumSet(LAMBDA p : r[p].amount, S) = SumOf(f, S)
<1> DEFINE Meets(g) == g = [s \in SUBSET S |->
                              IF s = {} THEN 0 ELSE r[First(s)].amount + g[s \ {First(s)}]]
           fold == CHOOSE g : Meets(g)
<1>1. MapThenSumSet(LAMBDA p : r[p].amount, S) = fold[S]
    BY DEF MapThenSumSet, MapThenFoldSet, First
<1>2. \A g : Meets(g) <=> IsAdder(g, f, S)
    BY FirstIn DEF IsAdder, Added
<1>3. \E g : Meets(g)
    BY <1>2, AdderExists
<1> HIDE DEF Meets
<1>4. IsAdder(fold, f, S)
    BY <1>2, <1>3
<1>5. IsAdder(Adder(f, S), f, S)
    BY <1>4, AdderExists, PartAgrees
<1> HIDE DEF fold
<1>6. fold = Adder(f, S)
    BY <1>4, <1>5, AdderUnique
<1> QED BY <1>1, <1>6, SumOfIsAdder

-----------------------------------------------------------------------------
(* Parts of a set are counted apart; the largest and the smallest number.    *)
LEMMA CardUnion ==
    ASSUME NEW S, IsFiniteSet(S), NEW T, IsFiniteSet(T), S \cap T = {}
    PROVE  Cardinality(S \cup T) = Cardinality(S) + Cardinality(T)
<1>1. Cardinality(S \cup T) = Cardinality(S) + Cardinality(T) - Cardinality(S \cap T)
    BY FS_Union
<1>2. Cardinality(S \cap T) = 0
    BY FS_EmptySet
<1>3. Cardinality(S) \in Nat /\ Cardinality(T) \in Nat
    BY FS_CardinalityType
<1> QED BY <1>1, <1>2, <1>3

LEMMA MaxIs ==
    ASSUME NEW S \in SUBSET Int, NEW m \in S, \A x \in S : x <= m
    PROVE  Max(S) = m
<1>1. Max(S) \in S /\ \A y \in S : Max(S) >= y
    BY DEF Max
<1>2. Max(S) \in Int /\ m \in Int
    BY <1>1
<1>3. Max(S) >= m /\ Max(S) <= m
    BY <1>1, <1>2
<1> QED BY <1>2, <1>3

LEMMA MinIs ==
    ASSUME NEW S \in SUBSET Int, NEW m \in S, \A x \in S : m <= x
    PROVE  Min(S) = m
<1>1. Min(S) \in S /\ \A y \in S : Min(S) <= y
    BY DEF Min
<1>2. Min(S) \in Int /\ m \in Int
    BY <1>1
<1>3. Min(S) <= m /\ Min(S) >= m
    BY <1>1, <1>2
<1> QED BY <1>2, <1>3
=============================================================================
