--------------------------- MODULE ConstraintProofs ---------------------------
(***************************************************************************)
(* Theorems about ConstraintChecker, for any constraints, any values they  *)
(* are held against and any registry of unknown types.                     *)
(***************************************************************************)
EXTENDS ConstraintRefinement, FiniteSetTheorems, TLAPS

------------------------------------------------------------------------------
(* Sums over finite sets.  What SumFunctionOnSet computes is a recursive    *)
(* function; that the order of its terms does not matter is an induction    *)
(* on the set, in the form the provers can use.                             *)

\* Among sets of elements of a finite set there is a least one.
LEMMA LeastSet ==
    ASSUME NEW S, IsFiniteSet(S), NEW B, B \subseteq SUBSET S, B # {}
    PROVE  \E T \in B : \A U \in SUBSET T : U # T => U \notin B
<1>1. IsWellFoundedOn(StrictSubsetOrdering(S), SUBSET S)
  BY FS_StrictSubsetOrderingWellFounded, FS_FiniteSubsetsOfFinite
<1>2. PICK T \in B : \A U \in B : ~(<<U, T>> \in StrictSubsetOrdering(S))
  BY <1>1, WFMin
<1>3. ASSUME NEW U \in SUBSET T, U # T, U \in B PROVE FALSE
  <2>1. <<U, T>> \in (SUBSET S) \X (SUBSET S) /\ <<U, T>>[1] = U /\ <<U, T>>[2] = T
    BY <1>3
  <2> QED
    BY <1>2, <1>3, <2>1 DEF StrictSubsetOrdering
<1> QED
  BY <1>3

\* What holds of the empty set and of a set with one more element holds of all.
LEMMA SetInduction ==
    ASSUME NEW S, IsFiniteSet(S), NEW F, {} \in F,
           \A T \in SUBSET S : \A x \in S \ T : T \in F => T \cup {x} \in F
    PROVE  S \in F
<1> SUFFICES ASSUME S \notin F PROVE FALSE
  OBVIOUS
<1> DEFINE bad == {T \in SUBSET S : T \notin F}
<1>1. PICK T \in bad : \A U \in SUBSET T : U # T => U \notin bad
  <2>1. bad \subseteq SUBSET S /\ bad # {}
    OBVIOUS
  <2> HIDE DEF bad
  <2> QED
    BY <2>1, LeastSet
<1>2. PICK x \in T : TRUE
  BY <1>1
<1>3. T \ {x} \in F
  BY <1>1, <1>2
<1>4. (T \ {x}) \cup {x} \in F
  BY <1>1, <1>2, <1>3
<1> QED
  BY <1>1, <1>2, <1>4, (T \ {x}) \cup {x} = T

\* The same for the natural numbers.
LEMMA NatSetInduction ==
    ASSUME NEW F, 0 \in F, \A m \in Nat : m \in F => m + 1 \in F, NEW size \in Nat
    PROVE  size \in F
<1> SUFFICES ASSUME size \notin F PROVE FALSE
  OBVIOUS
<1> DEFINE bad == {m \in Nat : m \notin F}
<1>1. PICK m \in bad : \A l \in bad : ~(<<l, m>> \in OpToRel(<, Nat))
  <2>1. bad \subseteq Nat /\ bad # {}
    OBVIOUS
  <2> HIDE DEF bad
  <2> QED
    BY <2>1, NatLessThanWellFounded, WFMin
<1>2. m \in Nat /\ m # 0 /\ m - 1 \in Nat /\ (m - 1) + 1 = m
  <2>1. m \in Nat /\ m \notin F
    OBVIOUS
  <2> HIDE DEF bad
  <2> QED
    BY <2>1
<1>3. m - 1 \in bad
  BY <1>1, <1>2
<1>4. <<m - 1, m>> \in Nat \X Nat /\ <<m - 1, m>>[1] = m - 1 /\ <<m - 1, m>>[2] = m
  BY <1>2
<1> HIDE DEF bad
<1>5. ~(m - 1 < m)
  BY <1>1, <1>3, <1>4 DEF OpToRel
<1> QED
  BY <1>2, <1>5

\* SumFunctionOnSet, unfolded: h holds the sum over every subset of S.
Pick(S) == CHOOSE x \in S : TRUE

SumsBy(g, S, h) ==
    h = [s \in SUBSET S |-> IF s = {} THEN 0 ELSE g[Pick(s)] + h[s \ {Pick(s)}]]

LEMMA SumUnfolds == ASSUME NEW g, NEW S PROVE SumFunctionOnSet(g, S) = (CHOOSE h : SumsBy(g, S, h))[S]
BY DEF SumFunctionOnSet, FoldFunctionOnSet, MapThenFoldSet, SumsBy, Pick

LEMMA SumsExist ==
    ASSUME NEW g, NEW S, IsFiniteSet(S)
    PROVE  \E h : SumsBy(g, S, h)
<1> DEFINE Small(size) == {s \in SUBSET S : Cardinality(s) <= size}
           Part(size, h) == h = [s \in Small(size) |-> IF s = {} THEN 0 ELSE g[Pick(s)] + h[s \ {Pick(s)}]]
           F == {size \in Nat : \E h : Part(size, h)}
<1>1. \A s \in SUBSET S : IsFiniteSet(s) /\ Cardinality(s) \in Nat
  BY FS_Subset, FS_CardinalityType
<1>2. 0 \in F
  <2>1. Small(0) = {{}}
    BY <1>1, FS_EmptySet
  <2>2. Part(0, [s \in {{}} |-> 0])
    BY <2>1
  <2> QED
    BY <2>2
<1>3. ASSUME NEW m \in Nat, m \in F PROVE m + 1 \in F
  <2>1. PICK h : Part(m, h)
    BY <1>3
  <2> DEFINE h2 == [s \in Small(m + 1) |-> IF s = {} THEN 0 ELSE g[Pick(s)] + h[s \ {Pick(s)}]]
  <2>2. ASSUME NEW s \in Small(m + 1), s # {}
        PROVE  h2[s \ {Pick(s)}] = h[s \ {Pick(s)}]
    <3> DEFINE u == s \ {Pick(s)}
    <3>1. Pick(s) \in s
      BY <2>2 DEF Pick
    <3>2. u \in Small(m) /\ u \in Small(m + 1)
      <4>1. IsFiniteSet(s) /\ Cardinality(s) \in Nat /\ Cardinality(s) <= m + 1
        BY <1>1, <2>2
      <4>2. Cardinality(u) = Cardinality(s) - 1
        BY <3>1, <4>1, FS_RemoveElement
      <4> QED
        BY <4>1, <4>2, <2>2
    <3> HIDE DEF u, Small
    <3>3. h[u] = IF u = {} THEN 0 ELSE g[Pick(u)] + h[u \ {Pick(u)}]
      BY <2>1, <3>2
    <3>4. h2[u] = IF u = {} THEN 0 ELSE g[Pick(u)] + h[u \ {Pick(u)}]
      BY <3>2
    <3> HIDE DEF h2
    <3>5. h2[u] = h[u]
      BY <3>3, <3>4
    <3> QED
      BY <3>5 DEF u
  <2>3. Part(m + 1, h2)
    <3> DEFINE h3 == [s \in Small(m + 1) |-> IF s = {} THEN 0 ELSE g[Pick(s)] + h2[s \ {Pick(s)}]]
    <3> HIDE DEF Small
    <3>1. \A s \in Small(m + 1) : h3[s] = h2[s]
      <4> TAKE s \in Small(m + 1)
      <4>1. h3[s] = IF s = {} THEN 0 ELSE g[Pick(s)] + h2[s \ {Pick(s)}]
        BY DEF h3
      <4>2. h2[s] = IF s = {} THEN 0 ELSE g[Pick(s)] + h[s \ {Pick(s)}]
        OBVIOUS
      <4> HIDE DEF h2, h3
      <4> QED
        BY <2>2, <4>1, <4>2
    <3>2. h2 = h3
      <4>1. h2 = [s \in Small(m + 1) |-> h2[s]] /\ h3 = [s \in Small(m + 1) |-> h3[s]]
        OBVIOUS
      <4> HIDE DEF h2, h3
      <4> QED
        BY <3>1, <4>1
    <3> QED
      BY <3>2
  <2> HIDE DEF h2, Part
  <2> QED
    BY <2>3
<1>4. Cardinality(S) \in F
  <2> HIDE DEF F
  <2>1. Cardinality(S) \in Nat
    BY <1>1
  <2> QED
    BY <1>2, <1>3, <2>1, NatSetInduction
<1>5. PICK h : Part(Cardinality(S), h)
  BY <1>4
<1>6. Small(Cardinality(S)) = SUBSET S
  BY FS_Subset
<1>7. SumsBy(g, S, h)
  BY <1>5, <1>6 DEF SumsBy
<1> QED
  BY <1>7

LEMMA SumsAgree ==
    ASSUME NEW g, NEW S, IsFiniteSet(S), NEW T \in SUBSET S, NEW h1, SumsBy(g, S, h1), NEW h2, SumsBy(g, T, h2)
    PROVE  \A s \in SUBSET T : h1[s] = h2[s]
<1> SUFFICES ASSUME NEW s0 \in SUBSET T, h1[s0] # h2[s0] PROVE FALSE
  OBVIOUS
<1> DEFINE bad == {s \in SUBSET T : h1[s] # h2[s]}
<1>1. PICK s \in bad : \A u \in SUBSET s : u # s => u \notin bad
  <2>1. IsFiniteSet(T) /\ bad \subseteq SUBSET T /\ bad # {}
    BY FS_Subset
  <2> HIDE DEF bad
  <2> QED
    BY <2>1, LeastSet
<1>2. /\ h1[s] = IF s = {} THEN 0 ELSE g[Pick(s)] + h1[s \ {Pick(s)}]
      /\ h2[s] = IF s = {} THEN 0 ELSE g[Pick(s)] + h2[s \ {Pick(s)}]
  <2>1. s \in SUBSET S /\ s \in SUBSET T
    OBVIOUS
  <2> QED
    BY <2>1 DEF SumsBy
<1>3. s # {} /\ Pick(s) \in s
  BY <1>1, <1>2 DEF Pick
<1>4. h1[s \ {Pick(s)}] = h2[s \ {Pick(s)}]
  BY <1>1, <1>3
<1> QED
  BY <1>1, <1>2, <1>4

\* Over no elements the sum is zero; otherwise some element is added to the sum
\* over the rest.
LEMMA SumSplits ==
    ASSUME NEW g, NEW S, IsFiniteSet(S)
    PROVE  /\ SumFunctionOnSet(g, {}) = 0
           /\ S # {} => \E x \in S : SumFunctionOnSet(g, S) = g[x] + SumFunctionOnSet(g, S \ {x})
<1> DEFINE H(T) == CHOOSE h : SumsBy(g, T, h)
<1>1. \A T \in SUBSET S : SumsBy(g, T, H(T))
  BY FS_Subset, SumsExist
<1>2. \A T : SumFunctionOnSet(g, T) = H(T)[T]
  BY SumUnfolds
<1> HIDE DEF H
<1>3. SumFunctionOnSet(g, {}) = 0
  BY <1>1, <1>2 DEF SumsBy
<1>4. ASSUME S # {} PROVE \E x \in S : SumFunctionOnSet(g, S) = g[x] + SumFunctionOnSet(g, S \ {x})
  <2> DEFINE x == Pick(S)
  <2>1. x \in S
    BY <1>4 DEF Pick
  <2>2. H(S)[S] = g[x] + H(S)[S \ {x}]
    BY <1>1, <1>4 DEF SumsBy
  <2> HIDE DEF x
  <2>3. H(S)[S \ {x}] = H(S \ {x})[S \ {x}]
    BY <1>1, SumsAgree
  <2> QED
    BY <1>2, <2>1, <2>2, <2>3
<1> QED
  BY <1>3, <1>4

LEMMA SumOfNone == ASSUME NEW g PROVE SumFunctionOnSet(g, {}) = 0
BY SumSplits, FS_EmptySet

LEMMA SumIsInt ==
    ASSUME NEW g, NEW S, IsFiniteSet(S), \A x \in S : g[x] \in Int
    PROVE  SumFunctionOnSet(g, S) \in Int
<1> SUFFICES ASSUME SumFunctionOnSet(g, S) \notin Int PROVE FALSE
  OBVIOUS
<1> DEFINE bad == {T \in SUBSET S : SumFunctionOnSet(g, T) \notin Int}
<1>1. PICK T \in bad : \A U \in SUBSET T : U # T => U \notin bad
  <2>1. bad \subseteq SUBSET S /\ bad # {}
    OBVIOUS
  <2> HIDE DEF bad
  <2> QED
    BY <2>1, LeastSet
<1>2. T # {} /\ IsFiniteSet(T)
  <2>1. SumFunctionOnSet(g, {}) \in Int
    BY SumOfNone
  <2> QED
    BY <1>1, <2>1, FS_Subset
<1>3. PICK x \in T : SumFunctionOnSet(g, T) = g[x] + SumFunctionOnSet(g, T \ {x})
  BY <1>2, SumSplits
<1>4. SumFunctionOnSet(g, T \ {x}) \in Int
  BY <1>1
<1> QED
  BY <1>1, <1>3, <1>4

\* Any element may be the one that is added last.
LEMMA SumWithout ==
    ASSUME NEW g, NEW S, IsFiniteSet(S), \A x \in S : g[x] \in Int, NEW y \in S
    PROVE  SumFunctionOnSet(g, S) = g[y] + SumFunctionOnSet(g, S \ {y})
<1> DEFINE bad == {T \in SUBSET S : \E x \in T :
                      SumFunctionOnSet(g, T) # g[x] + SumFunctionOnSet(g, T \ {x})}
<1> SUFFICES ASSUME bad # {} PROVE FALSE
  OBVIOUS
<1>1. PICK T \in bad : \A U \in SUBSET T : U # T => U \notin bad
  <2>1. bad \subseteq SUBSET S
    OBVIOUS
  <2> HIDE DEF bad
  <2> QED
    BY <2>1, LeastSet
<1>2. PICK x \in T : SumFunctionOnSet(g, T) # g[x] + SumFunctionOnSet(g, T \ {x})
  BY <1>1
<1>3. T \in SUBSET S
  BY <1>1
<1>4. PICK z \in T : SumFunctionOnSet(g, T) = g[z] + SumFunctionOnSet(g, T \ {z})
  BY <1>2, <1>3, FS_Subset, SumSplits
<1>5. x # z
  BY <1>2, <1>4
<1>6. /\ SumFunctionOnSet(g, T \ {z}) = g[x] + SumFunctionOnSet(g, (T \ {z}) \ {x})
      /\ SumFunctionOnSet(g, T \ {x}) = g[z] + SumFunctionOnSet(g, (T \ {x}) \ {z})
  <2>1. T \ {z} \notin bad /\ T \ {x} \notin bad
    BY <1>1
  <2>2. T \ {z} \in SUBSET S /\ T \ {x} \in SUBSET S /\ x \in T \ {z} /\ z \in T \ {x}
    BY <1>3, <1>5
  <2> QED
    BY <2>1, <2>2
<1>7. (T \ {z}) \ {x} = (T \ {x}) \ {z}
  OBVIOUS
<1>8. /\ g[x] \in Int /\ g[z] \in Int
      /\ SumFunctionOnSet(g, (T \ {x}) \ {z}) \in Int
  <2>1. (T \ {x}) \ {z} \in SUBSET S
    BY <1>3
  <2>2. \A u \in (T \ {x}) \ {z} : g[u] \in Int
    BY <2>1
  <2>3. IsFiniteSet((T \ {x}) \ {z})
    BY <2>1, FS_Subset
  <2> QED
    BY <1>3, <2>2, <2>3, SumIsInt
<1> HIDE DEF bad
<1> QED
  <2> DEFINE rest == SumFunctionOnSet(g, (T \ {x}) \ {z})
  <2>1. /\ SumFunctionOnSet(g, T) = g[z] + (g[x] + rest)
        /\ g[x] + SumFunctionOnSet(g, T \ {x}) = g[x] + (g[z] + rest)
    BY <1>4, <1>6, <1>7
  <2>2. rest \in Int /\ g[x] \in Int /\ g[z] \in Int
    BY <1>8
  <2> HIDE DEF rest
  <2>3. g[z] + (g[x] + rest) = g[x] + (g[z] + rest)
    BY <2>2
  <2> QED
    BY <1>2, <2>1, <2>3

\* One more element.
LEMMA SumWith ==
    ASSUME NEW g, NEW S, IsFiniteSet(S), NEW y, y \notin S, \A x \in S \cup {y} : g[x] \in Int
    PROVE  SumFunctionOnSet(g, S \cup {y}) = SumFunctionOnSet(g, S) + g[y]
<1>1. IsFiniteSet(S \cup {y}) /\ (S \cup {y}) \ {y} = S
  BY FS_AddElement
<1>2. SumFunctionOnSet(g, S \cup {y}) = g[y] + SumFunctionOnSet(g, S)
  BY <1>1, SumWithout
<1>3. SumFunctionOnSet(g, S) \in Int /\ g[y] \in Int
  BY SumIsInt
<1> QED
  BY <1>2, <1>3

\* Smaller values have a smaller sum.
LEMMA SumMonotone ==
    ASSUME NEW g, NEW h, NEW S, IsFiniteSet(S), \A x \in S : g[x] \in Int /\ h[x] \in Int /\ g[x] <= h[x]
    PROVE  SumFunctionOnSet(g, S) <= SumFunctionOnSet(h, S)
<1> DEFINE F == {T \in SUBSET S : SumFunctionOnSet(g, T) <= SumFunctionOnSet(h, T)}
<1>1. {} \in F
  BY SumOfNone
<1>2. ASSUME NEW T \in SUBSET S, NEW x \in S \ T, T \in F PROVE T \cup {x} \in F
  <2>1. IsFiniteSet(T) /\ \A y \in T \cup {x} : g[y] \in Int /\ h[y] \in Int
    BY FS_Subset
  <2>2. SumFunctionOnSet(g, T \cup {x}) = SumFunctionOnSet(g, T) + g[x]
    BY <2>1, SumWith
  <2>3. SumFunctionOnSet(h, T \cup {x}) = SumFunctionOnSet(h, T) + h[x]
    BY <2>1, SumWith
  <2>4. SumFunctionOnSet(g, T) \in Int /\ SumFunctionOnSet(h, T) \in Int
    BY <2>1, SumIsInt
  <2>5. SumFunctionOnSet(g, T) <= SumFunctionOnSet(h, T) /\ g[x] <= h[x] /\ g[x] \in Int /\ h[x] \in Int
    BY <1>2
  <2>6. SumFunctionOnSet(g, T \cup {x}) <= SumFunctionOnSet(h, T \cup {x})
    BY <2>2, <2>3, <2>4, <2>5
  <2> QED
    BY <2>6
<1> HIDE DEF F
<1>3. S \in F
  BY <1>1, <1>2, SetInduction
<1> QED
  BY <1>3 DEF F

\* The sum depends on the values on the set only.
LEMMA SumSame ==
    ASSUME NEW g, NEW h, NEW S, IsFiniteSet(S), \A x \in S : g[x] \in Int /\ g[x] = h[x]
    PROVE  SumFunctionOnSet(g, S) = SumFunctionOnSet(h, S)
<1>1. \A x \in S : g[x] \in Int /\ h[x] \in Int /\ g[x] <= h[x] /\ h[x] <= g[x]
  OBVIOUS
<1>2. /\ SumFunctionOnSet(g, S) <= SumFunctionOnSet(h, S)
      /\ SumFunctionOnSet(h, S) <= SumFunctionOnSet(g, S)
  BY <1>1, SumMonotone
<1>3. SumFunctionOnSet(g, S) \in Int /\ SumFunctionOnSet(h, S) \in Int
  BY <1>1, SumIsInt
<1> QED
  BY <1>2, <1>3

\* What is added to a set without weight changes no sum.
LEMMA SumOfSupport ==
    ASSUME NEW g, NEW S, IsFiniteSet(S), NEW T \in SUBSET S,
           \A x \in S : g[x] \in Int, \A x \in S \ T : g[x] = 0
    PROVE  SumFunctionOnSet(g, S) = SumFunctionOnSet(g, T)
<1> DEFINE F == {U \in SUBSET (S \ T) : SumFunctionOnSet(g, T \cup U) = SumFunctionOnSet(g, T)}
<1>1. {} \in F
  <2>1. T \cup {} = T
    OBVIOUS
  <2> QED
    BY <2>1
<1>2. ASSUME NEW U \in SUBSET (S \ T), NEW x \in (S \ T) \ U, U \in F PROVE U \cup {x} \in F
  <2> DEFINE V == T \cup U
             W == T \cup (U \cup {x})
  <2>1. /\ IsFiniteSet(V) /\ x \notin V /\ \A y \in V \cup {x} : g[y] \in Int
        /\ V \cup {x} = W /\ g[x] = 0
    BY FS_Subset
  <2>2. SumFunctionOnSet(g, V) = SumFunctionOnSet(g, T)
    BY <1>2
  <2>3. U \cup {x} \in SUBSET (S \ T)
    BY <1>2
  <2> HIDE DEF V, W
  <2>4. SumFunctionOnSet(g, V \cup {x}) = SumFunctionOnSet(g, V) + g[x]
    BY <2>1, SumWith
  <2>5. SumFunctionOnSet(g, V) \in Int
    BY <2>1, SumIsInt
  <2>6. SumFunctionOnSet(g, W) = SumFunctionOnSet(g, T)
    <3>1. V \cup {x} = W /\ g[x] = 0
      BY <2>1
    <3>2. SumFunctionOnSet(g, W) = SumFunctionOnSet(g, V) + 0
      BY <2>4, <3>1
    <3> QED
      BY <2>2, <2>5, <3>2
  <2> QED
    BY <2>3, <2>6 DEF W
<1> HIDE DEF F
<1>3. IsFiniteSet(S \ T)
  BY FS_Subset
<1>4. S \ T \in F
  BY <1>1, <1>2, <1>3, SetInduction
<1>5. T \cup (S \ T) = S
  OBVIOUS
<1> QED
  BY <1>4, <1>5 DEF F

\* A part of a sum of natural numbers is at most the whole, and natural itself.
LEMMA SumOfPart ==
    ASSUME NEW g, NEW S, IsFiniteSet(S), NEW T \in SUBSET S, \A x \in S : g[x] \in Nat
    PROVE  /\ SumFunctionOnSet(g, T) <= SumFunctionOnSet(g, S)
           /\ SumFunctionOnSet(g, S) \in Nat /\ SumFunctionOnSet(g, T) \in Nat
<1> DEFINE part == [x \in S |-> IF x \in T THEN g[x] ELSE 0]
           none == [x \in S |-> 0]
<1>1. \A x \in S : g[x] \in Int /\ part[x] \in Int /\ part[x] <= g[x] /\ none[x] = 0
                   /\ 0 <= g[x] /\ (x \notin T => part[x] = 0) /\ (x \in T => part[x] = g[x])
  OBVIOUS
<1> HIDE DEF part, none
<1>2. SumFunctionOnSet(part, S) <= SumFunctionOnSet(g, S)
  BY <1>1, SumMonotone
<1>3. SumFunctionOnSet(part, S) = SumFunctionOnSet(part, T)
  BY <1>1, SumOfSupport
<1>4. IsFiniteSet(T)
  BY FS_Subset
<1>5. SumFunctionOnSet(part, T) = SumFunctionOnSet(g, T)
  BY <1>1, <1>4, SumSame
<1>6. SumFunctionOnSet(none, S) = 0 /\ SumFunctionOnSet(none, T) = 0
  <2>1. {} \in SUBSET S /\ {} \in SUBSET T /\ \A x \in S : none[x] \in Int
    BY <1>1
  <2>2. SumFunctionOnSet(none, S) = SumFunctionOnSet(none, {})
    BY <1>1, <2>1, SumOfSupport
  <2>3. SumFunctionOnSet(none, T) = SumFunctionOnSet(none, {})
    BY <1>1, <1>4, <2>1, SumOfSupport
  <2> QED
    BY <2>2, <2>3, SumOfNone
<1>7. SumFunctionOnSet(none, S) <= SumFunctionOnSet(g, S) /\ SumFunctionOnSet(none, T) <= SumFunctionOnSet(g, T)
  BY <1>1, <1>4, SumMonotone
<1>8. SumFunctionOnSet(g, S) \in Int /\ SumFunctionOnSet(g, T) \in Int
  BY <1>1, <1>4, SumIsInt
<1> QED
  BY <1>2, <1>3, <1>5, <1>6, <1>7, <1>8

\* A term of a sum of natural numbers is at most the sum, and a sum that is not
\* zero has a term that is not.
LEMMA SumAndTerms ==
    ASSUME NEW g, NEW S, IsFiniteSet(S), \A x \in S : g[x] \in Nat
    PROVE  /\ \A x \in S : g[x] <= SumFunctionOnSet(g, S)
           /\ SumFunctionOnSet(g, S) > 0 <=> \E x \in S : g[x] > 0
<1>1. ASSUME NEW x \in S PROVE g[x] <= SumFunctionOnSet(g, S)
  <2>1. S \ {x} \in SUBSET S /\ g[x] \in Nat /\ \A y \in S : g[y] \in Int
    BY <1>1
  <2>2. SumFunctionOnSet(g, S) = g[x] + SumFunctionOnSet(g, S \ {x})
    BY <1>1, <2>1, SumWithout
  <2>3. SumFunctionOnSet(g, S \ {x}) \in Nat
    BY <2>1, SumOfPart
  <2> QED
    BY <2>1, <2>2, <2>3
<1>2. SumFunctionOnSet(g, S) \in Nat
  BY SumOfPart
<1>3. ASSUME ~\E x \in S : g[x] > 0 PROVE SumFunctionOnSet(g, S) = 0
  <2>1. {} \in SUBSET S /\ \A x \in S : g[x] \in Int /\ g[x] = 0
    BY <1>3
  <2>2. SumFunctionOnSet(g, S) = SumFunctionOnSet(g, {})
    BY <2>1, SumOfSupport
  <2> QED
    BY <2>2, SumOfNone
<1> QED
  BY <1>1, <1>2, <1>3

LEMMA SumOfSums ==
    ASSUME NEW g, NEW h, NEW both, NEW S, IsFiniteSet(S),
           \A x \in S : g[x] \in Int /\ h[x] \in Int /\ both[x] = g[x] + h[x]
    PROVE  SumFunctionOnSet(both, S) = SumFunctionOnSet(g, S) + SumFunctionOnSet(h, S)
<1> DEFINE F == {T \in SUBSET S : SumFunctionOnSet(both, T) = SumFunctionOnSet(g, T) + SumFunctionOnSet(h, T)}
<1>1. {} \in F
  BY SumOfNone
<1>2. ASSUME NEW T \in SUBSET S, NEW x \in S \ T, T \in F PROVE T \cup {x} \in F
  <2>1. IsFiniteSet(T) /\ \A y \in T \cup {x} : g[y] \in Int /\ h[y] \in Int /\ both[y] \in Int
    BY FS_Subset
  <2>2. SumFunctionOnSet(g, T \cup {x}) = SumFunctionOnSet(g, T) + g[x]
    BY <2>1, SumWith
  <2>3. SumFunctionOnSet(h, T \cup {x}) = SumFunctionOnSet(h, T) + h[x]
    BY <2>1, SumWith
  <2>4. SumFunctionOnSet(both, T \cup {x}) = SumFunctionOnSet(both, T) + both[x]
    BY <2>1, SumWith
  <2>5. SumFunctionOnSet(g, T) \in Int /\ SumFunctionOnSet(h, T) \in Int
    BY <2>1, SumIsInt
  <2>6. /\ SumFunctionOnSet(both, T) = SumFunctionOnSet(g, T) + SumFunctionOnSet(h, T)
        /\ both[x] = g[x] + h[x] /\ g[x] \in Int /\ h[x] \in Int
    BY <1>2
  <2>7. SumFunctionOnSet(both, T \cup {x}) = SumFunctionOnSet(g, T \cup {x}) + SumFunctionOnSet(h, T \cup {x})
    <3> HIDE DEF F
    <3> QED
      BY <2>2, <2>3, <2>4, <2>5, <2>6
  <2> QED
    BY <2>7
<1> HIDE DEF F
<1>3. S \in F
  BY <1>1, <1>2, SetInduction
<1> QED
  BY <1>3 DEF F

\* A table may be added up by rows or by columns.
LEMMA SumOfTable ==
    ASSUME NEW S, NEW T, IsFiniteSet(S), IsFiniteSet(T), NEW m, \A x \in S, y \in T : m[x][y] \in Int
    PROVE  SumFunctionOnSet([x \in S |-> SumFunctionOnSet(m[x], T)], S)
             = SumFunctionOnSet([y \in T |-> SumFunctionOnSet([x \in S |-> m[x][y]], S)], T)
<1> DEFINE rows(U) == [x \in S |-> SumFunctionOnSet(m[x], U)]
           columns == [y \in T |-> SumFunctionOnSet([x \in S |-> m[x][y]], S)]
           F == {U \in SUBSET T : SumFunctionOnSet(rows(U), S) = SumFunctionOnSet(columns, U)}
<1>0. \A y \in T : columns[y] = SumFunctionOnSet([x \in S |-> m[x][y]], S) /\ columns[y] \in Int
  <2> TAKE y \in T
  <2> DEFINE column == [x \in S |-> m[x][y]]
  <2>1. \A x \in S : column[x] \in Int
    OBVIOUS
  <2> HIDE DEF column
  <2>2. SumFunctionOnSet(column, S) \in Int
    BY <2>1, SumIsInt
  <2> QED
    BY <2>2 DEF column
<1>1. {} \in F
  <2>1. \A x \in S : rows({})[x] = 0 /\ rows({})[x] \in Int
    BY SumOfNone
  <2> HIDE DEF rows
  <2>2. {} \in SUBSET S
    OBVIOUS
  <2>3. SumFunctionOnSet(rows({}), S) = SumFunctionOnSet(rows({}), {})
    BY <2>1, <2>2, SumOfSupport
  <2> HIDE DEF columns
  <2> QED
    BY <2>3, SumOfNone
<1>2. ASSUME NEW U \in SUBSET T, NEW y \in T \ U, U \in F PROVE U \cup {y} \in F
  <2> DEFINE column == [x \in S |-> m[x][y]]
  <2>1. IsFiniteSet(U)
    BY FS_Subset
  <2>2. \A x \in S : /\ rows(U)[x] \in Int /\ column[x] \in Int
                     /\ rows(U \cup {y})[x] = rows(U)[x] + column[x]
    <3> TAKE x \in S
    <3>1. \A z \in U \cup {y} : m[x][z] \in Int
      BY <1>2
    <3>2. SumFunctionOnSet(m[x], U \cup {y}) = SumFunctionOnSet(m[x], U) + m[x][y]
      BY <1>2, <2>1, <3>1, SumWith
    <3>3. SumFunctionOnSet(m[x], U) \in Int
      BY <2>1, <3>1, SumIsInt
    <3> QED
      BY <3>1, <3>2, <3>3
  <2>3. columns[y] = SumFunctionOnSet(column, S)
    BY <1>0
  <2>4. U \cup {y} \in SUBSET T /\ SumFunctionOnSet(rows(U), S) = SumFunctionOnSet(columns, U)
    BY <1>2
  <2> HIDE DEF F, rows, column, columns
  <2>5. SumFunctionOnSet(rows(U \cup {y}), S) = SumFunctionOnSet(rows(U), S) + SumFunctionOnSet(column, S)
    <3> DEFINE before == rows(U)
               after == rows(U \cup {y})
    <3>1. \A x \in S : before[x] \in Int /\ column[x] \in Int /\ after[x] = before[x] + column[x]
      BY <2>2
    <3> HIDE DEF before, after
    <3>2. SumFunctionOnSet(after, S) = SumFunctionOnSet(before, S) + SumFunctionOnSet(column, S)
      BY <3>1, SumOfSums
    <3> QED
      BY <3>2 DEF before, after
  <2>6. SumFunctionOnSet(columns, U \cup {y}) = SumFunctionOnSet(columns, U) + columns[y]
    BY <1>0, <1>2, <2>1, SumWith
  <2> QED
    BY <2>3, <2>4, <2>5, <2>6 DEF F
<1> HIDE DEF F
<1>3. T \in F
  BY <1>1, <1>2, SetInduction
<1> QED
  BY <1>3 DEF F

\* A sum may be taken key by key.
LEMMA SumByKey ==
    ASSUME NEW D, IsFiniteSet(D), NEW K, IsFiniteSet(K), NEW u, NEW key,
           \A j \in D : u[j] \in Int /\ key[j] \in K
    PROVE  SumFunctionOnSet([p \in K |-> SumFunctionOnSet(u, {j \in D : key[j] = p})], K)
             = SumFunctionOnSet(u, D)
<1> DEFINE m == [p \in K |-> [j \in D |-> IF key[j] = p THEN u[j] ELSE 0]]
           rows == [p \in K |-> SumFunctionOnSet(m[p], D)]
           columns == [j \in D |-> SumFunctionOnSet([p \in K |-> m[p][j]], K)]
           byKey == [p \in K |-> SumFunctionOnSet(u, {j \in D : key[j] = p})]
<1>1. \A p \in K, j \in D : m[p][j] \in Int /\ m[p][j] = IF key[j] = p THEN u[j] ELSE 0
  OBVIOUS
<1>2. rows = byKey
  <2> SUFFICES ASSUME NEW p \in K PROVE SumFunctionOnSet(m[p], D) = SumFunctionOnSet(u, {j \in D : key[j] = p})
    OBVIOUS
  <2> DEFINE own == {j \in D : key[j] = p}
             row == m[p]
  <2>1. own \in SUBSET D /\ IsFiniteSet(own)
    BY FS_Subset
  <2>2. \A j \in D : row[j] \in Int /\ (j \notin own => row[j] = 0) /\ (j \in own => row[j] = u[j])
    BY <1>1
  <2> HIDE DEF own, row
  <2>3. SumFunctionOnSet(row, D) = SumFunctionOnSet(row, own)
    BY <2>1, <2>2, SumOfSupport
  <2>4. SumFunctionOnSet(row, own) = SumFunctionOnSet(u, own)
    BY <2>1, <2>2, SumSame
  <2> QED
    BY <2>3, <2>4 DEF own, row
<1>3. \A j \in D : columns[j] = u[j]
  <2> TAKE j \in D
  <2> DEFINE column == [p \in K |-> m[p][j]]
  <2>1. {key[j]} \in SUBSET K /\ IsFiniteSet({}) /\ key[j] \notin {} /\ {} \cup {key[j]} = {key[j]}
    BY FS_EmptySet
  <2>2. \A p \in K : column[p] \in Int /\ (p \notin {key[j]} => column[p] = 0)
    BY <1>1
  <2>3. column[key[j]] = u[j] /\ u[j] \in Int
    BY <1>1
  <2> HIDE DEF column
  <2>4. SumFunctionOnSet(column, K) = SumFunctionOnSet(column, {key[j]})
    BY <2>1, <2>2, SumOfSupport
  <2>5. SumFunctionOnSet(column, {} \cup {key[j]}) = SumFunctionOnSet(column, {}) + column[key[j]]
    BY <2>1, <2>3, SumWith
  <2>6. SumFunctionOnSet(column, K) = u[j]
    BY <2>1, <2>3, <2>4, <2>5, SumOfNone
  <2> QED
    BY <2>6 DEF column
<1>4. SumFunctionOnSet(rows, K) = SumFunctionOnSet(columns, D)
  <2> HIDE DEF m
  <2> QED
    BY <1>1, SumOfTable
<1>5. SumFunctionOnSet(columns, D) = SumFunctionOnSet(u, D)
  <2> HIDE DEF columns, m
  <2> QED
    BY <1>3, SumSame
<1> HIDE DEF rows, columns
<1> QED
  BY <1>2, <1>4, <1>5

------------------------------------------------------------------------------
(* The invariant of a call. *)

\* Every fault some handler reports.
Faults ==
    {"arguments", "entry", "amount", "min", "max", "malformed", "currency", "party", "allowed",
     "not allowed", "unknown", "no entries", "id", "acceptable_items", "quantity", "title", "item",
     "no items", "line_items", "line", "not acceptable", "total", "cap", "match_mode", "missing"}

Results ==
    [satisfied: BOOLEAN, violations: SUBSET Faults, checked: SUBSET Registry,
     unopened: SUBSET Registry, skipped: SUBSET UnknownTypes]

\* The two inner loops are those of a line_items constraint, and the second has a
\* cart to read.
InLineItems ==
    /\ stage \in {"entries", "cart"} =>
         Looping /\ TypeOf(This) = "line_items" /\ This.items # Malformed
    /\ stage = "cart" => f.line_items \in Seq(Line \cup {Malformed})

Inv == TypeOK /\ result \in Results /\ InLineItems

------------------------------------------------------------------------------
(* The data. *)

LEMMA ArgumentsRead ==
    ASSUME check \in Check, Looping
    PROVE  check.constraints \in Seq(Constraint) /\ f \in Fulfillment
BY DEF Check, Looping, f

LEMMA LineItemsRead ==
    ASSUME NEW c \in Constraint, TypeOf(c) = "line_items"
    PROVE  /\ c.items # Malformed => c.items \in Seq(Entry \cup {Malformed})
           /\ c.match_mode \in {"minimum", "exact", Malformed}
           /\ c.type = "line_items" /\ c # Malformed
<1>1. c # Malformed /\ c.type = "line_items"
  BY DEF TypeOf
<1>2. c \in [type: {"line_items"}, items: {Malformed} \cup Seq(Entry \cup {Malformed}),
             match_mode: {"minimum", "exact", Malformed}]
  BY <1>1, UnknownTypesAreUnknown DEF Constraint, ElsewhereTypes
<1> QED
  BY <1>1, <1>2

LEMMA TypesKnown ==
    ASSUME NEW c \in Constraint, c # Malformed
    PROVE  c.type \in Registry \cup UnknownTypes \cup {"unhashable"} /\ TypeOf(c) = c.type
BY DEF Constraint, Registry, TypeOf

------------------------------------------------------------------------------
(* What a handler does to the result. *)

LEMMA ReportStep ==
    ASSUME result \in Results, NEW faults \in SUBSET Faults, Report(faults)
    PROVE  /\ result' \in Results
           /\ result'.violations = result.violations \cup faults
           /\ result'.satisfied = (result.satisfied /\ faults = {})
           /\ result'.checked = result.checked /\ result'.unopened = result.unopened
           /\ result'.skipped = result.skipped
BY DEF Report, Results

LEMMA JudgeStep ==
    ASSUME result \in Results, NEW faults \in SUBSET Faults, This.type \in Registry, Judge(faults)
    PROVE  /\ result' \in Results
           /\ result'.violations = result.violations \cup faults
           /\ result'.satisfied = (result.satisfied /\ faults = {})
           /\ result'.checked = result.checked \cup {This.type} /\ result'.unopened = result.unopened
           /\ result'.skipped = result.skipped
BY DEF Judge, Results

ResultOK ==
    /\ result \in Results
    /\ result.satisfied <=> result.violations = {}
    /\ result.unopened \subseteq result.checked

LEMMA ReportKeeps ==
    ASSUME ResultOK, NEW faults \in SUBSET Faults, Report(faults)
    PROVE  ResultOK'
<1>1. result \in Results
  BY DEF ResultOK
<1>2. /\ result' \in Results
      /\ result'.violations = result.violations \cup faults
      /\ result'.satisfied = (result.satisfied /\ faults = {})
      /\ result'.checked = result.checked /\ result'.unopened = result.unopened
  BY <1>1, ReportStep
<1> QED
  BY <1>2 DEF ResultOK

LEMMA JudgeKeeps ==
    ASSUME ResultOK, NEW faults \in SUBSET Faults, This.type \in Registry, Judge(faults)
    PROVE  ResultOK'
<1>1. result \in Results
  BY DEF ResultOK
<1>2. /\ result' \in Results
      /\ result'.violations = result.violations \cup faults
      /\ result'.satisfied = (result.satisfied /\ faults = {})
      /\ result'.checked = result.checked \cup {This.type} /\ result'.unopened = result.unopened
  BY <1>1, JudgeStep
<1> QED
  BY <1>2 DEF ResultOK

\* Positions and sums.
Allows == [ids: SUBSET Products, cap: [Products -> Nat], total: Nat, listing: BOOLEAN, wildcard: BOOLEAN]

LoopOK ==
    /\ check \in Check
    /\ stage \in {"constraints", "entries", "cart", "done", "raised"}
    /\ k \in Nat \ {0} /\ n \in Nat \ {0}
    /\ stage \in {"entries", "cart"} => k <= Len(check.constraints)
    /\ stage = "entries" => n <= Len(This.items) + 1
    /\ stage = "cart" => n <= Len(f.line_items) + 1
    /\ allows \in Allows
    /\ bought \in [Products -> Nat]
    /\ InLineItems

LEMMA InvParts == Inv <=> LoopOK /\ ResultOK
BY DEF Inv, LoopOK, ResultOK, TypeOK, Results, Allows

LEMMA InvInit == Init => Inv
<1> SUFFICES ASSUME Init PROVE LoopOK /\ ResultOK
  BY InvParts
<1>1. LoopOK
  BY ChecksAreChecks DEF Init, LoopOK, InLineItems, NothingAllowed, NothingBought, Allows
<1>2. ResultOK
  BY DEF Init, ResultOK, Results
<1> QED
  BY <1>1, <1>2

LEMMA ProceedKeeps == ASSUME LoopOK, stage = "constraints", Proceed PROVE LoopOK'
BY DEF LoopOK, Proceed, InLineItems

LEMMA AtThis ==
    ASSUME LoopOK, Looping, NEW types, At(types)
    PROVE  /\ stage = "constraints" /\ This \in Constraint /\ TypeOf(This) \in types
           /\ k \in DOMAIN check.constraints /\ k <= Len(check.constraints)
<1>1. check.constraints \in Seq(Constraint)
  BY ArgumentsRead DEF LoopOK
<1> QED
  BY <1>1 DEF At, This

------------------------------------------------------------------------------
(* The steps of the outer loop. *)

LEMMA InvRejectArguments == ASSUME Inv, RejectArguments PROVE Inv'
<1>1. LoopOK /\ ResultOK
  BY InvParts
<1>2. ResultOK'
  <2>1. {"arguments"} \in SUBSET Faults
    BY DEF Faults
  <2> QED
    BY <1>1, <2>1, ReportKeeps DEF RejectArguments
<1>3. LoopOK'
  BY <1>1 DEF RejectArguments, LoopOK, InLineItems
<1> QED
  BY <1>2, <1>3, InvParts, PTL

LEMMA InvRejectEntry == ASSUME Inv, RejectEntry PROVE Inv'
<1>1. LoopOK /\ ResultOK
  BY InvParts
<1>2. ResultOK'
  <2>1. {"entry"} \in SUBSET Faults
    BY DEF Faults
  <2> QED
    BY <1>1, <2>1, ReportKeeps DEF RejectEntry
<1>3. LoopOK'
  BY <1>1, ProceedKeeps DEF RejectEntry, At
<1> QED
  BY <1>2, <1>3, InvParts, PTL

LEMMA InvCheckAmount == ASSUME Inv, CheckAmount PROVE Inv'
<1>1. LoopOK /\ ResultOK
  BY InvParts
<1>2. This \in Constraint /\ TypeOf(This) = "amount_range"
  BY <1>1, AtThis DEF CheckAmount
<1>3. This.type = "amount_range"
  BY <1>2, TypesKnown DEF TypeOf
<1> DEFINE faults == IF f.paid = Absent \/ f.paid.amount \in {Absent, Malformed} THEN {"amount"}
                     ELSE AmountFaults(This, f.paid)
<1>4. faults \in SUBSET Faults
  <2>1. AmountFaults(This, f.paid) \subseteq {"min", "max", "malformed", "currency"}
    BY DEF AmountFaults, Failing
  <2>2. {"min", "max", "malformed", "currency"} \subseteq Faults /\ {"amount"} \subseteq Faults
    BY DEF Faults
  <2> QED
    BY <2>1, <2>2
<1>5. Judge(faults)
  BY DEF CheckAmount
<1> HIDE DEF faults
<1>6. ResultOK'
  BY <1>1, <1>3, <1>4, <1>5, JudgeKeeps DEF Registry
<1>7. LoopOK'
  BY <1>1, ProceedKeeps DEF CheckAmount, At
<1> QED
  BY <1>6, <1>7, InvParts, PTL

LEMMA InvCheckAllowlist == ASSUME Inv, CheckAllowlist PROVE Inv'
<1>1. LoopOK /\ ResultOK
  BY InvParts
<1>2. This \in Constraint /\ TypeOf(This) \in {"allowed_payees", "allowed_merchants"}
  BY <1>1, AtThis DEF CheckAllowlist
<1>3. This.type \in {"allowed_payees", "allowed_merchants"}
  BY <1>2, TypesKnown DEF TypeOf
<1>4. AllowlistFaults \in SUBSET Faults
  <2>1. CASE AllowlistFaults = {}
    BY <2>1
  <2>2. CASE AllowlistFaults = {"party"}
    BY <2>2 DEF Faults
  <2>3. CASE AllowlistFaults = {"allowed"}
    BY <2>3 DEF Faults
  <2>4. CASE AllowlistFaults = {"not allowed"}
    BY <2>4 DEF Faults
  <2> QED
    BY <2>1, <2>2, <2>3, <2>4 DEF AllowlistFaults
<1>5. ResultOK'
  BY <1>1, <1>3, <1>4 DEF CheckAllowlist, ResultOK, Results, Registry
<1>6. LoopOK'
  BY <1>1, ProceedKeeps DEF CheckAllowlist, At
<1> QED
  BY <1>5, <1>6, InvParts, PTL

LEMMA InvRaise == ASSUME Inv, Raise PROVE Inv'
<1>1. LoopOK /\ ResultOK
  BY InvParts
<1>2. LoopOK' /\ ResultOK'
  BY <1>1 DEF Raise, LoopOK, ResultOK, InLineItems
<1> QED
  BY <1>2, InvParts, PTL

LEMMA InvNote == ASSUME Inv, Note PROVE Inv'
<1>1. LoopOK /\ ResultOK
  BY InvParts
<1>2. This \in Constraint /\ TypeOf(This) \in ElsewhereTypes \cup {"budget"} /\ stage = "constraints"
  BY <1>1, AtThis DEF Note
<1>3. This.type \in Registry
  BY <1>2, TypesKnown DEF TypeOf, ElsewhereTypes, Registry
<1>4. ResultOK'
  BY <1>1, <1>3, JudgeKeeps DEF Note
<1>5. LoopOK'
  BY <1>1, <1>2, ProceedKeeps DEF Note
<1> QED
  BY <1>4, <1>5, InvParts, PTL

LEMMA InvCheckUnknown == ASSUME Inv, CheckUnknown PROVE Inv'
<1>1. LoopOK /\ ResultOK
  BY InvParts
<1>2. This \in Constraint /\ TypeOf(This) \in UnknownTypes /\ stage = "constraints" /\ This # Malformed
      /\ This.type = TypeOf(This)
  <2>1. This \in Constraint /\ TypeOf(This) \in UnknownTypes /\ stage = "constraints"
    BY <1>1, AtThis DEF CheckUnknown
  <2> QED
    BY <2>1, UnknownTypesAreUnknown DEF TypeOf
<1>3. CASE Report({"unknown"})
  <2>1. {"unknown"} \in SUBSET Faults
    BY DEF Faults
  <2>1a. ResultOK'
    BY <1>1, <1>3, <2>1, ReportKeeps
  <2>2. LoopOK'
    BY <1>1, <1>2, ProceedKeeps DEF CheckUnknown
  <2> QED
    BY <2>1a, <2>2, InvParts, PTL
<1>4. CASE result' = [result EXCEPT !.skipped = @ \cup {This.type}]
  <2>1. ResultOK'
    BY <1>1, <1>2, <1>4 DEF ResultOK, Results
  <2>2. LoopOK'
    BY <1>1, <1>2, ProceedKeeps DEF CheckUnknown
  <2> QED
    BY <2>1, <2>2, InvParts, PTL
<1> QED
  BY <1>3, <1>4 DEF CheckUnknown

LEMMA InvFinish == ASSUME Inv, Finish PROVE Inv'
<1>1. LoopOK /\ ResultOK
  BY InvParts
<1>2. LoopOK' /\ ResultOK'
  BY <1>1 DEF Finish, LoopOK, ResultOK, InLineItems
<1> QED
  BY <1>2, InvParts, PTL
------------------------------------------------------------------------------
(* The two inner loops. *)

LEMMA InLoop ==
    ASSUME LoopOK, stage \in {"entries", "cart"}
    PROVE  /\ Looping /\ k \in DOMAIN check.constraints /\ This \in Constraint /\ This.type = "line_items"
           /\ This.items \in Seq(Entry \cup {Malformed}) /\ This.items # Malformed
           /\ f \in Fulfillment
           /\ This.match_mode \in {"minimum", "exact", Malformed}
<1>1. Looping /\ TypeOf(This) = "line_items" /\ This.items # Malformed
  BY DEF LoopOK, InLineItems
<1>2. check.constraints \in Seq(Constraint) /\ f \in Fulfillment
  BY <1>1, ArgumentsRead DEF LoopOK
<1>3. k \in DOMAIN check.constraints /\ This \in Constraint
  BY <1>2 DEF LoopOK, This
<1> QED
  BY <1>1, <1>2, <1>3, LineItemsRead

LEMMA SameThis == ASSUME UNCHANGED <<check, k>> PROVE This' = This /\ f' = f
BY DEF This, f

LEMMA Sums ==
    ASSUME allows \in Allows, NEW entry \in Entry, entry.quantity \in Nat, IsList(entry.acceptable)
    PROVE  /\ AddEntry(entry) \in Allows
           /\ [allows EXCEPT !.total = @ + entry.quantity] \in Allows
<1>1. [allows EXCEPT !.total = @ + entry.quantity] \in Allows
  BY DEF Allows
<1>2. ItemIds(entry) \subseteq Products
  <2> SUFFICES ASSUME NEW item \in Range(AcceptableOf(entry)), ~item.ref,
                      KeyOf(item) \notin {Absent, Malformed}
               PROVE  KeyOf(item) \in Products
    BY DEF ItemIds
  <2>1. item \in Item
    BY DEF AcceptableOf, Entry, Loose, Range, IsList
  <2> QED
    BY <2>1 DEF KeyOf, Item, Loose
<1>3. [p \in Products |-> allows.cap[p] + IF p \in ItemIds(entry) THEN entry.quantity ELSE 0]
        \in [Products -> Nat]
  BY DEF Allows
<1> QED
  BY <1>1, <1>2, <1>3 DEF AddEntry, Allows

LEMMA Sighting ==
    ASSUME NEW before \in Allows, NEW entry PROVE Sighted(before, entry) \in Allows
<1>1. (before.listing \/ AcceptableOf(entry) \notin {Malformed, <<>>}) \in BOOLEAN
      /\ (before.wildcard \/ AcceptableOf(entry) = <<>>) \in BOOLEAN
  OBVIOUS
<1> QED
  BY <1>1 DEF Sighted, Allows


LEMMA InvEnterLineItems == ASSUME Inv, EnterLineItems PROVE Inv'
<1>1. LoopOK /\ ResultOK
  BY InvParts
<1>2. /\ This \in Constraint /\ TypeOf(This) = "line_items" /\ stage = "constraints"
      /\ k \in DOMAIN check.constraints /\ k <= Len(check.constraints)
  <2>1. Looping /\ At({"line_items"})
    BY DEF EnterLineItems
  <2> QED
    BY <1>1, <2>1, AtThis
<1>3. This.type = "line_items" /\ This.items \in Seq(Entry \cup {Malformed})
  BY <1>2, LineItemsRead DEF EnterLineItems
<1>4. ResultOK'
  <2> DEFINE faults == IF This.items = <<>> THEN {"no entries"} ELSE {}
  <2>1. faults \in SUBSET Faults
    BY DEF Faults
  <2>2. Judge(faults)
    BY DEF EnterLineItems
  <2> HIDE DEF faults
  <2> QED
    BY <1>1, <1>3, <2>1, <2>2, JudgeKeeps DEF Registry
<1>5. allows' \in Allows /\ bought' \in [Products -> Nat] /\ check' = check /\ n' = 1
  BY DEF EnterLineItems, NothingAllowed, NothingBought, Allows
<1>6. CASE This.items = <<>>
  <2>1. stage' = "constraints" /\ k' = k + 1
    BY <1>2, <1>6 DEF EnterLineItems
  <2>2. LoopOK'
    BY <1>1, <1>5, <2>1 DEF LoopOK, InLineItems
  <2> QED
    BY <1>4, <2>2, InvParts, PTL
<1>7. CASE This.items # <<>>
  <2>1. stage' = "entries" /\ k' = k
    BY <1>7 DEF EnterLineItems
  <2>2. This' = This /\ f' = f
    BY <1>5, <2>1, SameThis
  <2>3. Looping
    BY DEF EnterLineItems
  <2>4. Looping' /\ TypeOf(This)' = "line_items" /\ This'.items # Malformed
    <3>1. This.items # Malformed
      BY DEF EnterLineItems
    <3> QED
      BY <1>2, <1>5, <2>2, <2>3, <3>1 DEF Looping, TypeOf
  <2>5. LoopOK'
    BY <1>1, <1>2, <1>3, <1>5, <2>1, <2>2, <2>4 DEF LoopOK, InLineItems
  <2> QED
    BY <1>4, <2>5, InvParts, PTL
<1> QED
  BY <1>6, <1>7

LEMMA InvScanEntry == ASSUME Inv, ScanEntry PROVE Inv'
<1>1. LoopOK /\ ResultOK
  BY InvParts
<1>2. /\ Looping /\ This.items \in Seq(Entry \cup {Malformed}) /\ n \in DOMAIN This.items
      /\ stage = "entries"
  BY <1>1, InLoop DEF ScanEntry
<1> DEFINE entry == This.items[n]
           shown == {x \in Range(entry.acceptable) : ~x.ref}
           tests == Failing([title |-> \E x \in shown : ~x.titled,
                             item |-> \E x \in shown : KeyOf(x) = Malformed])
<1>3. entry \in Entry \cup {Malformed}
  BY <1>2
<1>4. /\ check' = check /\ stage' = stage /\ k' = k /\ bought' = bought /\ n' = n + 1
  BY DEF ScanEntry
<1>5. \/ entry = Malformed /\ Report({"entry"}) /\ UNCHANGED allows
      \/ entry # Malformed /\ EntryFaults(entry) # {}
           /\ Report(EntryFaults(entry)) /\ allows' = Sighted(allows, entry)
      \/ entry # Malformed /\ EntryFaults(entry) = {} /\ ~IsList(entry.acceptable)
           /\ Report({"acceptable_items"}) /\ allows' = [allows EXCEPT !.total = @ + entry.quantity]
      \/ entry # Malformed /\ EntryFaults(entry) = {} /\ IsList(entry.acceptable)
           /\ Report(tests) /\ allows' = Sighted(AddEntry(entry), entry)
  BY DEF ScanEntry
<1>6. tests \in SUBSET Faults
  <2>1. tests \subseteq {"title", "item"}
    BY DEF Failing
  <2> QED
    BY <2>1 DEF Faults
<1>7. entry # Malformed /\ EntryFaults(entry) = {} => entry \in Entry /\ entry.quantity \in Nat
  <2> SUFFICES ASSUME entry # Malformed, EntryFaults(entry) = {}
               PROVE  entry \in Entry /\ entry.quantity \in Nat
    OBVIOUS
  <2>1. entry \in Entry
    BY <1>3
  <2>2. entry.quantity \in Loose(Int)
    BY <2>1 DEF Entry
  <2> HIDE DEF entry
  <2>3. entry.quantity \notin {Absent, Malformed} /\ ~(entry.quantity <= 0)
    BY Zenon DEF EntryFaults
  <2> QED
    BY <2>1, <2>2, <2>3 DEF Loose
<1>8. EntryFaults(entry) \in SUBSET Faults /\ {"entry"} \in SUBSET Faults /\ {"acceptable_items"} \in SUBSET Faults
  BY DEF EntryFaults, Faults
<1> HIDE DEF tests
<1>9. ResultOK'
  BY <1>1, <1>5, <1>6, <1>8, ReportKeeps
<1>10. allows' \in Allows
  <2>1. allows \in Allows
    BY <1>1 DEF LoopOK
  <2>2. CASE UNCHANGED allows
    BY <2>1, <2>2
  <2>3. CASE allows' = Sighted(allows, entry)
    BY <2>1, <2>3, Sighting
  <2>4. CASE entry \in Entry /\ entry.quantity \in Nat
             /\ allows' = [allows EXCEPT !.total = @ + entry.quantity]
    BY <2>1, <2>4 DEF Allows
  <2>5. CASE entry \in Entry /\ entry.quantity \in Nat /\ IsList(entry.acceptable)
             /\ allows' = Sighted(AddEntry(entry), entry)
    BY <2>1, <2>5, Sums, Sighting
  <2> HIDE DEF entry
  <2> QED
    BY <1>5, <1>7, <2>2, <2>3, <2>4, <2>5
<1>11. This' = This /\ f' = f
  BY <1>4, SameThis
<1>12. Looping' /\ TypeOf(This)' = TypeOf(This)
  BY <1>2, <1>4, <1>11 DEF Looping, TypeOf
<1>13. n + 1 <= Len(This.items) + 1 /\ n \in Nat \ {0}
  BY <1>2
<1>14. LoopOK'
  BY <1>1, <1>2, <1>4, <1>10, <1>11, <1>12, <1>13 DEF LoopOK, InLineItems
<1> QED
  BY <1>9, <1>14, InvParts, PTL

LEMMA CartRead ==
    ASSUME LoopOK, stage \in {"entries", "cart"}, CartFaults = {}
    PROVE  f.line_items \in Seq(Line \cup {Malformed})
<1>1. f \in Fulfillment
  BY InLoop
<1> QED
  BY <1>1 DEF CartFaults, Fulfillment

LEMMA InvEndEntries == ASSUME Inv, EndEntries PROVE Inv'
<1>1. LoopOK /\ ResultOK
  BY InvParts
<1>2. Looping /\ k \in DOMAIN check.constraints /\ stage = "entries"
  BY <1>1, InLoop DEF EndEntries
<1>3. ResultOK'
  <2>1. CartFaults \in SUBSET Faults
    BY DEF CartFaults, Faults
  <2> QED
    BY <1>1, <2>1, ReportKeeps DEF EndEntries
<1>4. check' = check /\ allows' = allows /\ bought' = bought /\ n' = 1
  BY DEF EndEntries
<1>5. CASE CartFaults = {}
  <2>1. stage' = "cart" /\ k' = k
    BY <1>5 DEF EndEntries
  <2>2. This' = This /\ f' = f
    BY <1>4, <2>1, SameThis
  <2>3. Looping' /\ TypeOf(This)' = TypeOf(This)
    BY <1>2, <1>4, <2>2 DEF Looping, TypeOf
  <2>4. f.line_items \in Seq(Line \cup {Malformed}) /\ Len(f.line_items) \in Nat
    BY <1>1, <1>2, <1>5, CartRead
  <2>5. LoopOK'
    BY <1>1, <1>2, <1>4, <2>1, <2>2, <2>3, <2>4 DEF LoopOK, InLineItems
  <2> QED
    BY <1>3, <2>5, InvParts, PTL
<1>6. CASE CartFaults # {}
  <2>1. stage' = "constraints" /\ k' = k + 1
    BY <1>6 DEF EndEntries
  <2>2. LoopOK'
    BY <1>1, <1>2, <1>4, <2>1 DEF LoopOK, InLineItems
  <2> QED
    BY <1>3, <2>2, InvParts, PTL
<1> QED
  BY <1>5, <1>6

LEMMA InvScanLine == ASSUME Inv, ScanLine PROVE Inv'
<1>1. LoopOK /\ ResultOK
  BY InvParts
<1>2. /\ Looping /\ stage = "cart" /\ n \in DOMAIN f.line_items
      /\ f.line_items \in Seq(Line \cup {Malformed})
  BY <1>1, InLoop DEF ScanLine, LoopOK, InLineItems
<1> DEFINE line == f.line_items[n]
           strange == IF allows.ids # {} /\ ~allows.wildcard /\ KeyOf(line) \notin allows.ids
                      THEN {"not acceptable"} ELSE {}
<1>3. line \in Line \cup {Malformed}
  BY <1>2
<1>4. check' = check /\ stage' = stage /\ k' = k /\ allows' = allows /\ n' = n + 1
  BY DEF ScanLine
<1>5. \/ LineFaults(line) # {} /\ Report(LineFaults(line)) /\ UNCHANGED bought
      \/ LineFaults(line) = {} /\ Report(strange)
           /\ bought' = [bought EXCEPT ![KeyOf(line)] = @ + QuantityOf(line)]
  BY DEF ScanLine
<1>6. LineFaults(line) \in SUBSET Faults /\ strange \in SUBSET Faults
  BY DEF LineFaults, Faults
<1>7. ResultOK'
  <2> HIDE DEF strange, line
  <2> QED
    BY <1>1, <1>5, <1>6, ReportKeeps
<1>8. bought' \in [Products -> Nat]
  <2>0. bought \in [Products -> Nat]
    BY <1>1 DEF LoopOK
  <2> SUFFICES ASSUME LineFaults(line) = {} PROVE QuantityOf(line) \in Nat
    <3> HIDE DEF line, strange
    <3> QED
      BY <1>5, <2>0
  <2> HIDE DEF line
  <2>1. line # Malformed /\ line.quantity # Malformed
        /\ ~(line.quantity # Absent /\ line.quantity < 0)
    BY Zenon DEF LineFaults
  <2>2. line.quantity \in Loose(Int)
    BY <1>3, <2>1 DEF Line
  <2> QED
    BY <2>1, <2>2 DEF Loose, QuantityOf
<1>9. This' = This /\ f' = f
  BY <1>4, SameThis
<1>10. Looping' /\ TypeOf(This)' = TypeOf(This)
  BY <1>2, <1>4, <1>9 DEF Looping, TypeOf
<1>11. LoopOK'
  <2>1. n + 1 <= Len(f.line_items) + 1 /\ n \in Nat \ {0}
    BY <1>2
  <2> QED
    BY <1>1, <1>2, <1>4, <1>8, <1>9, <1>10, <2>1 DEF LoopOK, InLineItems
<1> QED
  BY <1>7, <1>11, InvParts, PTL

LEMMA InvEndCart == ASSUME Inv, EndCart PROVE Inv'
<1>1. LoopOK /\ ResultOK
  BY InvParts
<1> DEFINE last == IF This.match_mode = Malformed THEN {"match_mode"}
                   ELSE IF This.match_mode = "exact" /\ Missing # {} THEN {"missing"} ELSE {}
<1>2. last \in SUBSET Faults
  BY DEF Faults
<1>3. CapFaults \in SUBSET Faults
  <2>1. CapFaults \subseteq {"total", "cap"}
    BY DEF CapFaults, Failing
  <2> QED
    BY <2>1 DEF Faults
<1>4. Report(CapFaults \cup last)
  BY DEF EndCart
<1>5. ResultOK'
  <2> HIDE DEF last
  <2>1. CapFaults \cup last \in SUBSET Faults
    BY <1>2, <1>3
  <2> QED
    BY <1>1, <1>4, <2>1, ReportKeeps
<1>6. LoopOK'
  BY <1>1 DEF EndCart, LoopOK, InLineItems
<1> QED
  BY <1>5, <1>6, InvParts, PTL

LEMMA InvNext == ASSUME Inv, [Next]_vars PROVE Inv'
<1>1. CASE UNCHANGED vars
  <2>1. LoopOK /\ ResultOK
    BY InvParts
  <2>2. This' = This /\ f' = f
    BY <1>1, SameThis DEF vars
  <2>3. LoopOK' /\ ResultOK'
    BY <1>1, <2>1, <2>2 DEF vars, LoopOK, ResultOK, InLineItems, Looping, TypeOf
  <2> QED
    BY <2>3, InvParts, PTL
<1>2. CASE Next
  BY <1>2, InvRejectArguments, InvRejectEntry, InvCheckAmount, InvCheckAllowlist, InvRaise, InvNote,
     InvCheckUnknown, InvEnterLineItems, InvScanEntry, InvEndEntries, InvScanLine, InvEndCart,
     InvFinish DEF Next
<1> QED
  BY <1>1, <1>2

LEMMA Invariance == Spec => []Inv
BY InvInit, InvNext, PTL DEF Spec

\* Type correctness of check_constraints, whatever it is called with.
THEOREM TypeCorrect == Spec => []TypeOK
BY Invariance, PTL DEF Inv

------------------------------------------------------------------------------
(* The pass over the constraints decides what the rules decide for each     *)
(* constraint by itself.                                                   *)

Seen == {check.constraints[j] : j \in 1..(k - 1)}

\* What the promise says of one constraint.
Admits(c) == Promise!Admitted(c, check)

Owned(c) ==
    /\ c # Malformed
    /\ \/ c.type \in UnknownTypes /\ Promise!Tolerated(c.type, check)
       \/ /\ c.type \in Promise!Allowlists /\ Promise!Closed(c, f)
          /\ Promise!PartyOf(c, f) # Absent

Noted == result.skipped \cup result.unopened

\* What the two passes of line_items have read.
Passed == IF stage = "entries" THEN 1..(n - 1) ELSE DOMAIN This.items

Read == 1..(n - 1)

EntriesGood == \A j \in Passed : Promise!WellFormed(This.items[j])

LinesGood == \A j \in Read : Promise!GoodLine(f.line_items[j])

Offering(p, js) == {j \in js : p \in Promise!Offers(This.items[j])}

SomethingOffered ==
    \E j \in DOMAIN This.items : Promise!AnyProduct(This.items[j]) \/ Promise!Offers(This.items[j]) # {}

OnOffer(p) == \E j \in DOMAIN This.items : p \in Promise!Offers(This.items[j]) \/ Promise!AnyProduct(This.items[j])

LinesOffered == \A j \in Read : OnOffer(KeyOf(f.line_items[j]))

\* What a line_items constraint has come to so far.
SoFar ==
    /\ stage = "entries" => EntriesGood
    /\ stage = "cart" => EntriesGood /\ SomethingOffered /\ LinesGood /\ LinesOffered

\* The books of the handler, as long as nothing it read was faulty: what the
\* entries passed list and allow, and what the lines read buy.
AllowsKept ==
    /\ allows.ids = {p \in Products : Offering(p, Passed) # {}}
    /\ \A p \in Products : allows.cap[p] = Promise!Allowance(This.items, Offering(p, Passed))
    /\ allows.total = Promise!Allowance(This.items, Passed)
    /\ allows.listing <=> \E j \in Passed : This.items[j].acceptable # <<>>
    /\ allows.wildcard <=> \E j \in Passed : Promise!AnyProduct(This.items[j])

BoughtKept ==
    \A p \in Products :
        bought[p] = SumFunctionOnSet(Promise!Ordered(f.line_items), {j \in Read : KeyOf(f.line_items[j]) = p})

Books ==
    /\ stage \in {"entries", "cart"} => This.items # <<>> /\ (EntriesGood => AllowsKept)
    /\ stage = "entries" => bought = NothingBought
    /\ stage = "cart" => CartFaults = {} /\ (LinesGood => BoughtKept)

\* The answer so far is that of the constraints seen so far, and of what was seen
\* of the present one.
Judged ==
    /\ result.satisfied <=> (\A c \in Seen : Admits(c)) /\ SoFar
    /\ \A c \in Seen : ~Promise!Unreadable(c)
    /\ Noted = {c.type : c \in {d \in Seen : Owned(d)}}

Pass ==
    /\ ~Looping => stage \notin {"entries", "cart"}
    /\ Looping =>
        /\ Judged /\ Books /\ k <= Len(check.constraints) + 1
        /\ stage = "done" => k = Len(check.constraints) + 1
        /\ stage = "raised" => Promise!Unreadable(This) /\ k <= Len(check.constraints)
    /\ ~Looping =>
        /\ stage # "raised" /\ Noted = {}
        /\ stage = "done" => ~result.satisfied

LEMMA SeenNext ==
    ASSUME LoopOK, check' = check, k' = k + 1
    PROVE  Seen' = Seen \cup {This}
<1>1. k \in Nat \ {0} /\ check' = check /\ k' = k + 1
  BY DEF LoopOK
<1>2. 1..(k' - 1) = (1..(k - 1)) \cup {k}
  BY <1>1
<1> QED
  BY <1>1, <1>2 DEF Seen, This

\* The work on a constraint ends.
LEMMA Over ==
    ASSUME LoopOK, Pass, Looping, k \in DOMAIN check.constraints,
           check' = check, k' = k + 1, stage' = "constraints",
           result'.satisfied <=> (\A c \in Seen : Admits(c)) /\ Admits(This), ~Promise!Unreadable(This),
           Noted' = Noted \cup (IF Owned(This) THEN {This.type} ELSE {})
    PROVE  Pass'
<1>1. Looping'
  BY DEF Looping, f
<1>2. Seen' = Seen \cup {This}
  BY SeenNext
<1>3. \A c : Admits(c)' = Admits(c) /\ Owned(c)' = Owned(c)
  BY <1>1 DEF Admits, Owned, f
<1>4. Judged
  BY DEF Pass
<1>5. Judged'
  <2>0. SoFar'
    BY DEF SoFar
  <2>1. result'.satisfied <=> (\A c \in Seen' : Admits(c)') /\ SoFar'
    BY <1>2, <1>3, <2>0
  <2>2. \A c \in Seen' : ~Promise!Unreadable(c)
    BY <1>2, <1>4 DEF Judged
  <2>3. Noted' = {c.type : c \in {d \in Seen' : Owned(d)'}}
    BY <1>2, <1>3, <1>4 DEF Judged
  <2> QED
    BY <2>1, <2>2, <2>3 DEF Judged
<1>6. k' <= Len(check'.constraints) + 1
  <2>1. check.constraints \in Seq(Constraint)
    BY ArgumentsRead DEF LoopOK
  <2> QED
    BY <1>1, <2>1
<1>7. Books'
  BY DEF Books
<1> QED
  BY <1>1, <1>5, <1>6, <1>7 DEF Pass

\* One more constraint, in one step.
LEMMA Onward ==
    ASSUME LoopOK, Pass, Looping, stage = "constraints", k \in DOMAIN check.constraints, Proceed,
           result'.satisfied = (result.satisfied /\ Admits(This)), ~Promise!Unreadable(This),
           Noted' = Noted \cup (IF Owned(This) THEN {This.type} ELSE {})
    PROVE  Pass'
<1>1. check' = check /\ stage' = "constraints" /\ k' = k + 1
  BY DEF Proceed
<1>2. result.satisfied <=> \A c \in Seen : Admits(c)
  BY DEF Pass, Judged, SoFar
<1>3. result'.satisfied <=> (\A c \in Seen : Admits(c)) /\ Admits(This)
  BY <1>2
<1> QED
  BY <1>1, <1>3, Over

LEMMA AmountRead ==
    ASSUME NEW c \in Constraint, TypeOf(c) = "amount_range"
    PROVE  /\ c \in [type: {"amount_range"}, min: Loose(Int), max: Loose(Int), currency: OrAbsent(Currencies)]
           /\ c # Malformed /\ c.type = "amount_range"
<1>1. c # Malformed /\ c.type = "amount_range"
  BY DEF TypeOf
<1> QED
  BY <1>1, UnknownTypesAreUnknown DEF Constraint, ElsewhereTypes

LEMMA BudgetRead ==
    ASSUME NEW c \in Constraint, TypeOf(c) = "budget"
    PROVE  c \in [type: {"budget"}, min: Loose(Int), max: Loose(Int)] /\ c # Malformed
<1>1. c # Malformed /\ c.type = "budget"
  BY DEF TypeOf
<1> QED
  BY <1>1, UnknownTypesAreUnknown DEF Constraint, ElsewhereTypes

LEMMA AllowlistRead ==
    ASSUME NEW c \in Constraint, TypeOf(c) \in {"allowed_payees", "allowed_merchants"}
    PROVE  /\ c \in [type: {"allowed_payees", "allowed_merchants"}, allowed: {Malformed} \cup Seq(Listed)]
           /\ c # Malformed
<1>1. c # Malformed /\ c.type \in {"allowed_payees", "allowed_merchants"}
  BY UnknownTypesAreUnknown DEF TypeOf
<1> QED
  BY <1>1, UnknownTypesAreUnknown DEF Constraint, ElsewhereTypes

\* The amount handler reports something exactly when the rule refuses.
LEMMA AmountJudged ==
    ASSUME NEW c \in Constraint, TypeOf(c) = "amount_range",
           NEW paid \in [amount: Loose(Int), currency: OrAbsent(Currencies)],
           paid.amount \notin {Absent, Malformed}
    PROVE  AmountFaults(c, paid) = {} <=>
             /\ c.min # Absent => Promise!IsNumber(c.min) /\ paid.amount >= c.min
             /\ c.max # Absent => Promise!IsNumber(c.max) /\ paid.amount <= c.max
             /\ paid.currency \in {Absent, IF c.currency = Absent THEN Dollar ELSE c.currency}
<1>1. c.min \in Loose(Int) /\ c.max \in Loose(Int) /\ paid.amount \in Int
  BY AmountRead DEF Loose
<1> DEFINE tmin == c.min \notin {Absent, Malformed} /\ paid.amount < c.min
           tmax == Malformed \notin {c.min, c.max} /\ c.max # Absent /\ paid.amount > c.max
           tmal == Malformed \in {c.min, c.max}
           tcur == Malformed \notin {c.min, c.max}
                     /\ paid.currency \notin {Absent, IF c.currency = Absent THEN Dollar ELSE c.currency}
<1>2. AmountFaults(c, paid) = Failing([min |-> tmin, max |-> tmax, malformed |-> tmal, currency |-> tcur])
  BY DEF AmountFaults
<1>3. AmountFaults(c, paid) = {} <=> ~tmin /\ ~tmax /\ ~tmal /\ ~tcur
  <2> HIDE DEF tmin, tmax, tmal, tcur
  <2> QED
    BY <1>2 DEF Failing
<1>4. Absent # Malformed
  BY NothingIsAValue
<1> QED
  BY <1>1, <1>3, <1>4 DEF Promise!IsNumber, Loose

\* The rule for each type.
LEMMA Rules ==
    ASSUME NEW c, c # Malformed
    PROVE  /\ c.type = "amount_range" =>
                (Admits(c) <=> Promise!AmountAdmitted(c, f) \/ Promise!AmountLetThrough(c, f))
           /\ c.type \in Promise!Allowlists
                => (Admits(c) <=> Promise!PartyAdmitted(c, f, Promise!PartyOf(c, f)))
           /\ c.type \in UnknownTypes => (Admits(c) <=> Promise!Tolerated(c.type, check))
           /\ c.type \in ElsewhereTypes \cup {"budget"} => Admits(c)
<1>1. c.type = "amount_range" =>
        (Admits(c) <=> Promise!AmountAdmitted(c, f) \/ Promise!AmountLetThrough(c, f))
  BY UnknownTypesAreUnknown DEF Admits, Promise!Admitted, f, Promise!Allowlists
<1>2. c.type \in Promise!Allowlists
                => (Admits(c) <=> Promise!PartyAdmitted(c, f, Promise!PartyOf(c, f)))
  BY UnknownTypesAreUnknown DEF Admits, Promise!Admitted, f, Promise!Allowlists
<1>3. c.type \in UnknownTypes => (Admits(c) <=> Promise!Tolerated(c.type, check))
  BY UnknownTypesAreUnknown DEF Admits, Promise!Admitted, f, Promise!Allowlists
<1>4. c.type \in ElsewhereTypes \cup {"budget"} => Admits(c)
  BY UnknownTypesAreUnknown DEF Admits, Promise!Admitted, f, Promise!Allowlists, ElsewhereTypes
<1> QED
  BY <1>1, <1>2, <1>3, <1>4

LEMMA PassCheckAmount == ASSUME Inv, Pass, CheckAmount PROVE Pass'
<1>1. LoopOK /\ ResultOK
  BY InvParts
<1>2. Looping /\ At({"amount_range"}) /\ Proceed
  BY DEF CheckAmount
<1>3. This \in Constraint /\ TypeOf(This) = "amount_range" /\ stage = "constraints" /\ k \in DOMAIN check.constraints
  BY <1>1, <1>2, AtThis
<1>4. This # Malformed /\ This.type = "amount_range"
  BY <1>3, AmountRead
<1>5. f \in Fulfillment
  BY <1>1, <1>2, ArgumentsRead DEF LoopOK
<1> DEFINE faults == IF f.paid = Absent \/ f.paid.amount \in {Absent, Malformed} THEN {"amount"}
                     ELSE AmountFaults(This, f.paid)
<1>6. Judge(faults)
  BY DEF CheckAmount
<1>7. Admits(This) <=> Promise!AmountAdmitted(This, f) \/ Promise!AmountLetThrough(This, f)
  BY <1>4, Rules
<1>8. Promise!AmountAdmitted(This, f) \/ Promise!AmountLetThrough(This, f) <=> faults = {}
  <2>1. CASE f.paid = Absent \/ f.paid.amount \in {Absent, Malformed}
    BY <2>1 DEF Promise!AmountAdmitted, Promise!AmountLetThrough, Promise!WithinBounds, Promise!IsNumber
  <2>2. CASE ~(f.paid = Absent \/ f.paid.amount \in {Absent, Malformed})
    <3>1. f.paid \in [amount: Loose(Int), currency: OrAbsent(Currencies)]
      BY <1>5, <2>2 DEF Fulfillment, OrAbsent
    <3>2. faults = AmountFaults(This, f.paid)
      BY <2>2
    <3> HIDE DEF faults
    <3>3. faults = {} <=>
             /\ This.min # Absent => Promise!IsNumber(This.min) /\ f.paid.amount >= This.min
             /\ This.max # Absent => Promise!IsNumber(This.max) /\ f.paid.amount <= This.max
             /\ f.paid.currency \in {Absent, IF This.currency = Absent THEN Dollar ELSE This.currency}
      BY <1>3, <2>2, <3>1, <3>2, AmountJudged
    <3>4. Promise!IsNumber(f.paid.amount)
      BY <2>2 DEF Promise!IsNumber
    <3>5. f.paid.amount \in Int
      BY <2>2, <3>1 DEF Loose
    <3> QED
      BY <2>2, <3>3, <3>4, <3>5 DEF Promise!AmountAdmitted, Promise!AmountLetThrough,
         Promise!WithinBounds, Promise!CurrencyOf, Dollar, Promise!Dollar
  <2> QED
    BY <2>1, <2>2
<1> HIDE DEF faults
<1>9. result'.satisfied = (result.satisfied /\ faults = {}) /\ Noted' = Noted
  BY <1>1, <1>6 DEF Judge, ResultOK, Results, Noted
<1>10. ~Owned(This) /\ ~Promise!Unreadable(This)
  BY <1>4, UnknownTypesAreUnknown DEF Owned, Promise!Unreadable, Promise!Allowlists
<1> QED
  BY <1>1, <1>2, <1>3, <1>7, <1>8, <1>9, <1>10, Onward

\* One merchant matches another as the rule says, and the list the code searches
\* is the one the rule names.
LEMMA SameMatches == ASSUME NEW a, NEW b PROVE Matches(a, b) <=> Promise!SameMerchant(a, b)
BY DEF Matches, Promise!SameMerchant

LEMMA ListsAgree ==
    ASSUME f \in Fulfillment, This \in Constraint, TypeOf(This) \in {"allowed_payees", "allowed_merchants"}
    PROVE  /\ Promise!PartyOf(This, f) = Party
           /\ AllowlistFaults = {} <=> Promise!PartyAdmitted(This, f, Party)
           /\ Unopened <=> Party # Absent /\ Promise!Closed(This, f)
<1>1. This.allowed = Malformed \/ This.allowed \in Seq(Listed)
  BY AllowlistRead
<1>2. f.allowed_merchants \in Seq(Merchant)
  BY DEF Fulfillment
<1>3. Promise!PartyOf(This, f) = Party
  BY DEF Promise!PartyOf, Party
<1> DEFINE own == {m \in Promise!Range(This.allowed) : ~m.ref /\ {m.id, m.name} # {Absent}}
<1>4. Resolved = IF f.allowed_merchants = <<>> THEN own ELSE Promise!Range(f.allowed_merchants)
  BY DEF Resolved, Inline, Range, Promise!Range
<1>5. f.allowed_merchants # <<>> => Range(f.allowed_merchants) # {}
  <2> DEFINE s == f.allowed_merchants
  <2>1. s \in Seq(Merchant)
    BY <1>2
  <2> HIDE DEF s
  <2>2. s # <<>> => 1 \in DOMAIN s
    BY <2>1
  <2>3. s # <<>> => Range(s) # {}
    BY <2>2 DEF Range
  <2> QED
    BY <2>3 DEF s
<1>6. Unopened <=> Party # Absent /\ Promise!Closed(This, f)
  <2>1. CASE This.allowed \in {Malformed, <<>>}
    BY <2>1 DEF Unopened, Promise!Closed
  <2>2. CASE This.allowed \notin {Malformed, <<>>}
    <3>1. (\A m \in Range(This.allowed) : m.ref) <=> \A j \in DOMAIN This.allowed : This.allowed[j].ref
      BY DEF Range
    <3>2. (\A m \in Range(This.allowed) : m.ref) => Inline = {}
      BY DEF Inline
    <3> QED
      BY <1>5, <2>2, <3>1, <3>2 DEF Unopened, Promise!Closed, Resolved
  <2> QED
    BY <2>1, <2>2
<1>7. AllowlistFaults = {} <=> Promise!PartyAdmitted(This, f, Party)
  <2>1. CASE Party = Absent \/ This.allowed \in {Malformed, <<>>}
    BY <2>1 DEF AllowlistFaults, Promise!PartyAdmitted
  <2>2. CASE Party # Absent /\ This.allowed \notin {Malformed, <<>>}
    <3>1. AllowlistFaults = {} <=> Unopened \/ \E m \in Resolved : Matches(m, Party)
      BY <2>2 DEF AllowlistFaults
    <3>2. Promise!PartyAdmitted(This, f, Party)
            <=> Promise!Closed(This, f) \/ \E m \in Resolved : Promise!SameMerchant(m, Party)
      <4>1. Promise!PartyAdmitted(This, f, Party)
              <=> \/ Promise!Closed(This, f)
                  \/ \E m \in IF f.allowed_merchants = <<>> THEN own ELSE Promise!Range(f.allowed_merchants) :
                        Promise!SameMerchant(m, Party)
        BY <2>2 DEF Promise!PartyAdmitted
      <4> HIDE DEF own
      <4> QED
        BY <1>4, <4>1
    <3> QED
      BY <1>6, <2>2, <3>1, <3>2, SameMatches
  <2> QED
    BY <2>1, <2>2
<1> QED
  BY <1>3, <1>6, <1>7

LEMMA PassCheckAllowlist == ASSUME Inv, Pass, CheckAllowlist PROVE Pass'
<1>1. LoopOK /\ ResultOK
  BY InvParts
<1>2. Looping /\ At({"allowed_payees", "allowed_merchants"}) /\ Proceed
  BY DEF CheckAllowlist
<1>3. /\ This \in Constraint /\ TypeOf(This) \in {"allowed_payees", "allowed_merchants"}
      /\ stage = "constraints" /\ k \in DOMAIN check.constraints
  BY <1>1, <1>2, AtThis
<1>4. This # Malformed /\ This.type \in Promise!Allowlists
  BY <1>3, AllowlistRead DEF Promise!Allowlists
<1>5. f \in Fulfillment
  BY <1>1, <1>2, ArgumentsRead DEF LoopOK
<1>6. /\ Admits(This) <=> AllowlistFaults = {}
      /\ Owned(This) <=> Unopened
  <2>1. This.type \notin UnknownTypes
    BY <1>4, UnknownTypesAreUnknown DEF Promise!Allowlists
  <2> QED
    BY <1>3, <1>4, <1>5, <2>1, Rules, ListsAgree DEF Owned
<1>7. result'.satisfied = (result.satisfied /\ AllowlistFaults = {})
      /\ Noted' = Noted \cup (IF Unopened THEN {This.type} ELSE {})
  BY <1>1 DEF CheckAllowlist, ResultOK, Results, Noted
<1>8. ~Promise!Unreadable(This)
  BY <1>4 DEF Promise!Unreadable, Promise!Allowlists
<1> QED
  BY <1>1, <1>2, <1>3, <1>6, <1>7, <1>8, Onward

LEMMA PassRejectEntry == ASSUME Inv, Pass, RejectEntry PROVE Pass'
<1>1. LoopOK /\ ResultOK
  BY InvParts
<1>2. Looping /\ At({"malformed"}) /\ Proceed /\ Report({"entry"})
  BY DEF RejectEntry
<1>3. /\ This \in Constraint /\ TypeOf(This) = "malformed"
      /\ stage = "constraints" /\ k \in DOMAIN check.constraints
  BY <1>1, <1>2, AtThis
<1>4. This = Malformed
  BY <1>3, UnknownTypesAreUnknown DEF TypeOf, Constraint, ElsewhereTypes
<1>5. ~Admits(This) /\ ~Owned(This) /\ ~Promise!Unreadable(This)
  BY <1>4 DEF Admits, Promise!Admitted, Owned, Promise!Unreadable
<1>6. result'.satisfied = FALSE /\ Noted' = Noted
  BY <1>1, <1>2 DEF Report, ResultOK, Results, Noted
<1> QED
  BY <1>1, <1>2, <1>3, <1>5, <1>6, Onward

LEMMA PassNote == ASSUME Inv, Pass, Note PROVE Pass'
<1>1. LoopOK /\ ResultOK
  BY InvParts
<1>2. Looping /\ (At(ElsewhereTypes) \/ (At({"budget"}) /\ Readable(This))) /\ Proceed /\ Judge({})
  BY DEF Note
<1>3. /\ This \in Constraint /\ TypeOf(This) \in ElsewhereTypes \cup {"budget"}
      /\ stage = "constraints" /\ k \in DOMAIN check.constraints
  BY <1>1, <1>2, AtThis
<1>4. This # Malformed /\ TypeOf(This) = This.type
  BY <1>3 DEF TypeOf, ElsewhereTypes
<1>5. Admits(This) /\ ~Owned(This)
  BY <1>3, <1>4, Rules, UnknownTypesAreUnknown DEF Owned, Promise!Allowlists, ElsewhereTypes
<1>6. ~Promise!Unreadable(This)
  <2>1. CASE TypeOf(This) # "budget"
    <3>1. This.type \in ElsewhereTypes
      BY <1>3, <1>4, <2>1
    <3> QED
      BY <3>1 DEF ElsewhereTypes, Promise!Unreadable
  <2>2. CASE TypeOf(This) = "budget"
    <3>1. Readable(This)
      BY <1>2, <2>2 DEF At, ElsewhereTypes
    <3>2. This.min \in Loose(Int) /\ This.max \in Loose(Int)
      BY <1>3, <2>2, BudgetRead
    <3>3. This.type = "budget"
      BY <1>4, <2>2
    <3> QED
      BY <3>1, <3>2, <3>3 DEF Readable, Promise!Unreadable, Promise!IsNumber, Loose
  <2> QED
    BY <2>1, <2>2
<1>7. result'.satisfied = (result.satisfied /\ {} = {}) /\ Noted' = Noted
  BY <1>1, <1>2 DEF Judge, ResultOK, Results, Noted
<1> QED
  BY <1>1, <1>2, <1>3, <1>5, <1>6, <1>7, Onward

LEMMA PassCheckUnknown == ASSUME Inv, Pass, CheckUnknown PROVE Pass'
<1>1. LoopOK /\ ResultOK
  BY InvParts
<1>2. Looping /\ At(UnknownTypes) /\ Proceed
  BY DEF CheckUnknown
<1>3. /\ This \in Constraint /\ TypeOf(This) \in UnknownTypes
      /\ stage = "constraints" /\ k \in DOMAIN check.constraints
  BY <1>1, <1>2, AtThis
<1>4. This # Malformed /\ This.type \in UnknownTypes
  BY <1>3, UnknownTypesAreUnknown DEF TypeOf
<1> DEFINE tolerated == ~(check.is_open_mandate \/ EffectiveMode(This.type) = "strict")
<1>5. Promise!Tolerated(This.type, check) <=> tolerated
  <2>1. check \in Check /\ check.mode \in Strictness
        /\ check.policy[This.type] \in OrAbsent(Strictness)
    BY <1>1, <1>4 DEF LoopOK, Check
  <2> QED
    BY <2>1 DEF Promise!Tolerated, EffectiveMode, Strictness, OrAbsent
<1>6. (Admits(This) <=> tolerated) /\ (Owned(This) <=> tolerated)
  BY <1>4, <1>5, Rules, UnknownTypesAreUnknown DEF Owned, Promise!Allowlists
<1>7. result'.satisfied = (result.satisfied /\ tolerated)
      /\ Noted' = Noted \cup (IF tolerated THEN {This.type} ELSE {})
  BY <1>1 DEF CheckUnknown, Report, ResultOK, Results, Noted
<1>8. ~Promise!Unreadable(This)
  BY <1>4, UnknownTypesAreUnknown DEF Promise!Unreadable
<1> HIDE DEF tolerated
<1> QED
  BY <1>1, <1>2, <1>3, <1>6, <1>7, <1>8, Onward

LEMMA PassRaise == ASSUME Inv, Pass, Raise PROVE Pass'
<1>1. LoopOK /\ ResultOK
  BY InvParts
<1>2. /\ Looping /\ At({"unhashable", "budget", "line_items"}) /\ Raises(This) /\ stage' = "raised"
      /\ UNCHANGED <<check, k, result>>
  BY DEF Raise
<1>3. /\ This \in Constraint /\ TypeOf(This) \in {"unhashable", "budget", "line_items"}
      /\ k <= Len(check.constraints) /\ stage = "constraints"
  BY <1>1, <1>2, AtThis
<1>4. Promise!Unreadable(This)
  <2>1. This # Malformed /\ This.type = TypeOf(This)
    BY <1>3 DEF TypeOf
  <2>2. CASE This.type = "budget"
    <3>1. This.min \in Loose(Int) /\ This.max \in Loose(Int)
      BY <1>3, <2>1, <2>2, BudgetRead
    <3>2. ~Readable(This)
      BY <1>2, <2>2 DEF Raises
    <3> QED
      BY <2>1, <2>2, <3>1, <3>2 DEF Readable, Promise!Unreadable, Promise!IsNumber, Loose
  <2>3. CASE This.type # "budget"
    BY <1>2, <2>1, <2>3 DEF Raises, Promise!Unreadable
  <2> QED
    BY <2>2, <2>3
<1>5. This' = This /\ f' = f /\ Seen' = Seen /\ Noted' = Noted /\ Looping'
      /\ \A c : Admits(c)' = Admits(c) /\ Owned(c)' = Owned(c)
  BY <1>2 DEF This, f, Seen, Noted, Looping, Admits, Owned
<1>6. Judged' /\ Books'
  BY <1>2, <1>3, <1>5 DEF Pass, Judged, SoFar, Books
<1> QED
  BY <1>2, <1>3, <1>4, <1>5, <1>6 DEF Pass

LEMMA PassInit == Init => Pass
<1> SUFFICES ASSUME Init PROVE Pass
  OBVIOUS
<1>1. Seen = {} /\ Noted = {}
  BY DEF Init, Seen, Noted
<1>2. Judged /\ Books
  BY <1>1 DEF Init, Judged, SoFar, Books
<1>3. Looping => k <= Len(check.constraints) + 1
  <2>1. Looping => check.constraints \in Seq(Constraint)
    BY ChecksAreChecks, ArgumentsRead DEF Init
  <2> QED
    BY <2>1 DEF Init
<1> QED
  BY <1>1, <1>2, <1>3 DEF Init, Pass

LEMMA PassRejectArguments == ASSUME Inv, Pass, RejectArguments PROVE Pass'
<1>1. LoopOK /\ ResultOK
  BY InvParts
<1>2. ~Looping /\ stage' = "done" /\ ~Looping' /\ Noted = {}
  BY DEF RejectArguments, Looping, f, Pass
<1>3. ~result'.satisfied /\ Noted' = Noted
  BY <1>1 DEF RejectArguments, Report, ResultOK, Results, Noted
<1> QED
  BY <1>2, <1>3 DEF Pass

LEMMA PassFinish == ASSUME Inv, Pass, Finish PROVE Pass'
<1>1. LoopOK
  BY InvParts
<1>2. Looping /\ k \notin DOMAIN check.constraints /\ stage' = "done" /\ UNCHANGED <<check, k, result>>
      /\ stage = "constraints"
  BY DEF Finish
<1>3. Seen' = Seen /\ Noted' = Noted /\ Looping'
      /\ \A c : Admits(c)' = Admits(c) /\ Owned(c)' = Owned(c)
  BY <1>2 DEF f, Seen, Noted, Looping, Admits, Owned
<1>4. Judged' /\ Books'
  BY <1>2, <1>3 DEF Pass, Judged, SoFar, Books
<1>5. k = Len(check.constraints) + 1
  <2>1. check.constraints \in Seq(Constraint) /\ k \in Nat \ {0}
    BY <1>1, <1>2, ArgumentsRead DEF LoopOK
  <2> QED
    BY <1>2, <2>1 DEF Pass
<1> QED
  BY <1>2, <1>3, <1>4, <1>5 DEF Pass

------------------------------------------------------------------------------
(* line_items: the two passes come to what the rule says.                  *)

LEMMA SameSums ==
    ASSUME NEW g, NEW S
    PROVE  Promise!SumFunctionOnSet(g, S) = SumFunctionOnSet(g, S)
BY DEF SumFunctionOnSet, FoldFunctionOnSet, MapThenFoldSet,
       Promise!SumFunctionOnSet, Promise!FoldFunctionOnSet, Promise!MapThenFoldSet

LEMMA AllowanceIs ==
    ASSUME NEW list, NEW js
    PROVE  Promise!Allowance(list, js) = SumFunctionOnSet([m \in DOMAIN list |-> list[m].quantity], js)
BY SameSums DEF Promise!Allowance

LEMMA BoughtIs ==
    ASSUME NEW cart, NEW p
    PROVE  Promise!Bought(cart, p)
             = SumFunctionOnSet(Promise!Ordered(cart), {m \in DOMAIN cart : KeyOf(cart[m]) = p})
BY SameSums DEF Promise!Bought, Promise!KeyOf, KeyOf

LEMMA OrderedIs ==
    ASSUME NEW cart
    PROVE  Promise!SumFunction(Promise!Ordered(cart)) = SumFunctionOnSet(Promise!Ordered(cart), DOMAIN cart)
BY SameSums DEF Promise!SumFunction, Promise!Ordered

\* The rule for line_items, entry by entry and line by line.
CartParts ==
    /\ This.items # <<>> /\ \A j \in DOMAIN This.items : Promise!WellFormed(This.items[j])
    /\ SomethingOffered
    /\ f.line_items \notin {Malformed, <<>>}
    /\ \A j \in DOMAIN f.line_items : Promise!GoodLine(f.line_items[j])
    /\ \A j \in DOMAIN f.line_items : OnOffer(KeyOf(f.line_items[j]))
    /\ SumFunctionOnSet(Promise!Ordered(f.line_items), DOMAIN f.line_items)
         <= Promise!Allowance(This.items, DOMAIN This.items)
    /\ \A j \in DOMAIN f.line_items :
         Offering(KeyOf(f.line_items[j]), DOMAIN This.items) # {} =>
            Promise!Bought(f.line_items, KeyOf(f.line_items[j]))
              <= Promise!Allowance(This.items, Offering(KeyOf(f.line_items[j]), DOMAIN This.items))
    /\ This.match_mode # Malformed
    /\ This.match_mode = "exact" => \A j \in DOMAIN This.items :
         \/ Promise!Offers(This.items[j]) = {}
         \/ \E p \in Promise!Offers(This.items[j]) : Promise!Bought(f.line_items, p) > 0

LEMMA CartRule ==
    ASSUME This # Malformed, This.type = "line_items"
    PROVE  Admits(This) <=> CartParts
<1>1. Admits(This) <=> Promise!CartAdmitted(This, f)
  BY UnknownTypesAreUnknown DEF Admits, Promise!Admitted, f, Promise!Allowlists
<1> DEFINE listing(product) == {m \in DOMAIN This.items : product \in Promise!Offers(This.items[m])}
           products == {Promise!KeyOf(line) : line \in Promise!Range(f.line_items)}
<1>2. Promise!CartAdmitted(This, f) <=>
        /\ This.items # <<>> /\ \A entry \in Promise!Range(This.items) : Promise!WellFormed(entry)
        /\ \E entry \in Promise!Range(This.items) : Promise!AnyProduct(entry) \/ Promise!Offers(entry) # {}
        /\ f.line_items \notin {Malformed, <<>>}
        /\ \A line \in Promise!Range(f.line_items) : Promise!GoodLine(line)
        /\ \A p \in products : listing(p) # {} \/ \E entry \in Promise!Range(This.items) : Promise!AnyProduct(entry)
        /\ Promise!SumFunction(Promise!Ordered(f.line_items)) <= Promise!Allowance(This.items, DOMAIN This.items)
        /\ \A p \in products :
             listing(p) # {} => Promise!Bought(f.line_items, p) <= Promise!Allowance(This.items, listing(p))
        /\ This.match_mode # Malformed
        /\ This.match_mode = "exact" => \A entry \in Promise!Range(This.items) :
             Promise!Offers(entry) = {} \/ \E p \in Promise!Offers(entry) : Promise!Bought(f.line_items, p) > 0
  BY DEF Promise!CartAdmitted
<1>3. \A p : listing(p) = Offering(p, DOMAIN This.items)
  BY DEF Offering
<1>4. products = {KeyOf(f.line_items[j]) : j \in DOMAIN f.line_items}
  BY DEF Promise!Range, Promise!KeyOf, KeyOf
<1> HIDE DEF listing, products
<1>5. /\ (\A entry \in Promise!Range(This.items) : Promise!WellFormed(entry))
           <=> \A j \in DOMAIN This.items : Promise!WellFormed(This.items[j])
      /\ (\E entry \in Promise!Range(This.items) : Promise!AnyProduct(entry) \/ Promise!Offers(entry) # {})
           <=> SomethingOffered
      /\ (\A line \in Promise!Range(f.line_items) : Promise!GoodLine(line))
           <=> \A j \in DOMAIN f.line_items : Promise!GoodLine(f.line_items[j])
      /\ (\A entry \in Promise!Range(This.items) : 
             Promise!Offers(entry) = {} \/ \E p \in Promise!Offers(entry) : Promise!Bought(f.line_items, p) > 0)
           <=> \A j \in DOMAIN This.items :
                 \/ Promise!Offers(This.items[j]) = {}
                 \/ \E p \in Promise!Offers(This.items[j]) : Promise!Bought(f.line_items, p) > 0
  BY DEF Promise!Range, SomethingOffered
<1>6. (\A p \in products : listing(p) # {} \/ \E entry \in Promise!Range(This.items) : Promise!AnyProduct(entry))
        <=> \A j \in DOMAIN f.line_items : OnOffer(KeyOf(f.line_items[j]))
  <2>1. \A p : OnOffer(p) <=> \/ Offering(p, DOMAIN This.items) # {}
                              \/ \E entry \in Promise!Range(This.items) : Promise!AnyProduct(entry)
    BY DEF OnOffer, Offering, Promise!Range
  <2> QED
    BY <1>3, <1>4, <2>1
<1>7. (\A p \in products :
         listing(p) # {} => Promise!Bought(f.line_items, p) <= Promise!Allowance(This.items, listing(p)))
        <=> \A j \in DOMAIN f.line_items :
              Offering(KeyOf(f.line_items[j]), DOMAIN This.items) # {} =>
                 Promise!Bought(f.line_items, KeyOf(f.line_items[j]))
                   <= Promise!Allowance(This.items, Offering(KeyOf(f.line_items[j]), DOMAIN This.items))
  BY <1>3, <1>4
<1>8. Promise!SumFunction(Promise!Ordered(f.line_items))
        = SumFunctionOnSet(Promise!Ordered(f.line_items), DOMAIN f.line_items)
  BY OrderedIs
<1> QED
  BY <1>1, <1>2, <1>5, <1>6, <1>7, <1>8 DEF CartParts

\* An entry in order, as the handler reads it.
LEMMA EntryRead ==
    ASSUME NEW e \in Entry \cup {Malformed}
    PROVE  /\ Promise!WellFormed(e) <=>
                /\ e # Malformed /\ EntryFaults(e) = {} /\ IsList(e.acceptable)
                /\ \A x \in Range(e.acceptable) : ~x.ref => x.titled /\ KeyOf(x) # Malformed
           /\ Promise!WellFormed(e) =>
                /\ e \in Entry /\ e.quantity \in Nat \ {0} /\ AcceptableOf(e) = e.acceptable
                /\ Promise!Offers(e) = ItemIds(e) /\ ItemIds(e) \subseteq Products
                /\ e.acceptable # Malformed /\ e.acceptable \in Seq(Item)
<1>1. CASE e = Malformed
  BY <1>1 DEF Promise!WellFormed
<1>2. CASE e # Malformed
  <2>1. e \in Entry /\ e.quantity \in Loose(Int) /\ e.acceptable \in Loose(Seq(Item)) /\ e.named \in BOOLEAN
    BY <1>2 DEF Entry
  <2>2. EntryFaults(e) = {} <=>
          /\ e.named /\ e.acceptable # Absent /\ e.quantity \notin {Absent, Malformed} /\ ~(e.quantity <= 0)
    BY Zenon DEF EntryFaults
  <2>3. e.quantity \notin {Absent, Malformed} => e.quantity \in Int
    BY <2>1 DEF Loose
  <2>4. e.quantity \notin {Absent, Malformed} => (~(e.quantity <= 0) <=> e.quantity > 0)
    BY <2>3
  <2>5. Promise!WellFormed(e) <=>
          /\ e.named /\ e.acceptable \notin {Absent, Malformed}
          /\ e.quantity \notin {Absent, Malformed} /\ e.quantity > 0
          /\ \A x \in Range(e.acceptable) : ~x.ref => x.titled /\ KeyOf(x) # Malformed
    BY <1>2 DEF Promise!WellFormed, Promise!IsNumber, Promise!Range, Range, Promise!KeyOf, KeyOf
  <2>6. Promise!WellFormed(e) <=>
                /\ e # Malformed /\ EntryFaults(e) = {} /\ IsList(e.acceptable)
                /\ \A x \in Range(e.acceptable) : ~x.ref => x.titled /\ KeyOf(x) # Malformed
    BY <1>2, <2>2, <2>4, <2>5 DEF IsList
  <2>7. ASSUME Promise!WellFormed(e)
        PROVE  /\ e.quantity \in Nat \ {0} /\ AcceptableOf(e) = e.acceptable
               /\ Promise!Offers(e) = ItemIds(e) /\ ItemIds(e) \subseteq Products
               /\ e.acceptable # Malformed /\ e.acceptable \in Seq(Item)
    <3>1. e.quantity \in Nat \ {0}
      BY <2>3, <2>5, <2>7
    <3>2. e.acceptable \notin {Absent, Malformed} /\ e.acceptable \in Seq(Item)
      BY <2>1, <2>5, <2>7 DEF Loose
    <3>3. AcceptableOf(e) = e.acceptable
      BY <3>2 DEF AcceptableOf
    <3>4. Promise!Offers(e) = ItemIds(e)
      BY <1>2, <3>2, <3>3 DEF Promise!Offers, ItemIds, Promise!Range, Range, Promise!KeyOf, KeyOf
    <3>5. ItemIds(e) \subseteq Products
      <4> SUFFICES ASSUME NEW item \in Range(e.acceptable), KeyOf(item) \notin {Absent, Malformed}
                   PROVE  KeyOf(item) \in Products
        BY <3>3 DEF ItemIds
      <4>1. item \in Item
        BY <3>2 DEF Range
      <4> QED
        BY <4>1 DEF KeyOf, Item, Loose
    <3> QED
      BY <3>1, <3>2, <3>3, <3>4, <3>5
  <2> QED
    BY <2>1, <2>6, <2>7
<1> QED
  BY <1>1, <1>2

\* A line in order, as the handler reads it.
LEMMA LineRead ==
    ASSUME NEW line \in Line \cup {Malformed}
    PROVE  /\ Promise!GoodLine(line) <=> LineFaults(line) = {}
           /\ Promise!GoodLine(line) => /\ KeyOf(line) \in Products /\ QuantityOf(line) \in Nat
                                        /\ Promise!Units(line) = QuantityOf(line)
<1>1. CASE line = Malformed
  BY <1>1 DEF Promise!GoodLine, LineFaults
<1>2. CASE line # Malformed
  <2>1. line.quantity \in Loose(Int) /\ line.id \in Loose(Products) /\ line.sku \in Loose(Products)
    BY <1>2 DEF Line
  <2>2. LineFaults(line) = {} <=>
          /\ KeyOf(line) \notin {Absent, Malformed} /\ line.quantity # Malformed
          /\ ~(line.quantity # Absent /\ line.quantity < 0)
    BY <1>2, Zenon DEF LineFaults
  <2>3. line.quantity \notin {Absent, Malformed} => line.quantity \in Int
    BY <2>1 DEF Loose
  <2>4. Promise!GoodLine(line) <=>
          /\ KeyOf(line) \notin {Absent, Malformed} /\ line.quantity # Malformed
          /\ (line.quantity = Absent \/ line.quantity >= 0)
    BY <1>2 DEF Promise!GoodLine, Promise!KeyOf, KeyOf
  <2>5. Promise!GoodLine(line) <=> LineFaults(line) = {}
    BY <2>2, <2>3, <2>4
  <2>6. KeyOf(line) \notin {Absent, Malformed} => KeyOf(line) \in Products
    BY <2>1 DEF KeyOf, Loose
  <2>7. Promise!GoodLine(line) => QuantityOf(line) \in Nat
    BY <2>3, <2>4 DEF QuantityOf
  <2> QED
    BY <2>4, <2>5, <2>6, <2>7 DEF Promise!Units, QuantityOf
<1> QED
  BY <1>1, <1>2

\* What the handler of line_items does not change.
LEMMA LineItemsNeither ==
    ASSUME LoopOK, Looping, This.type = "line_items", This # Malformed, This.items # Malformed
    PROVE  ~Owned(This) /\ ~Promise!Unreadable(This)
BY UnknownTypesAreUnknown DEF Owned, Promise!Unreadable, Promise!Allowlists

\* A step within the two passes.
LEMMA Within ==
    ASSUME Pass, Looping, k <= Len(check.constraints), check' = check, k' = k, stage' \in {"entries", "cart"},
           result'.satisfied <=> (\A c \in Seen : Admits(c)) /\ SoFar', Noted' = Noted, Books'
    PROVE  Pass'
<1>1. This' = This /\ f' = f /\ Seen' = Seen /\ Looping'
  BY DEF This, f, Seen, Looping
<1>2. \A c : Admits(c)' = Admits(c) /\ Owned(c)' = Owned(c)
  BY <1>1 DEF Admits, Owned
<1>3. Judged'
  BY <1>1, <1>2 DEF Pass, Judged
<1> QED
  BY <1>1, <1>3 DEF Pass

LEMMA PassEnterLineItems == ASSUME Inv, Pass, EnterLineItems PROVE Pass'
<1>1. LoopOK /\ ResultOK
  BY InvParts
<1>2. /\ Looping /\ This \in Constraint /\ TypeOf(This) = "line_items" /\ stage = "constraints"
      /\ k \in DOMAIN check.constraints /\ k <= Len(check.constraints)
  <2>1. Looping /\ At({"line_items"})
    BY DEF EnterLineItems
  <2> QED
    BY <1>1, <2>1, AtThis
<1>3. This.type = "line_items" /\ This # Malformed /\ This.items \in Seq(Entry \cup {Malformed})
  BY <1>2, LineItemsRead DEF EnterLineItems
<1>4. check' = check /\ n' = 1 /\ allows' = NothingAllowed /\ bought' = NothingBought
  BY DEF EnterLineItems
<1>5. /\ result'.satisfied = (result.satisfied /\ This.items # <<>>) /\ Noted' = Noted
  <2> DEFINE faults == IF This.items = <<>> THEN {"no entries"} ELSE {}
  <2>1. Judge(faults) /\ (faults = {} <=> This.items # <<>>)
    BY DEF EnterLineItems
  <2> HIDE DEF faults
  <2> QED
    BY <1>1, <2>1 DEF Judge, ResultOK, Results, Noted
<1>6. result.satisfied <=> \A c \in Seen : Admits(c)
  BY <1>2 DEF Pass, Judged, SoFar
<1>7. CASE This.items = <<>>
  <2>1. stage' = "constraints" /\ k' = k + 1
    BY <1>2, <1>7 DEF EnterLineItems
  <2>2. ~Admits(This)
    BY <1>3, <1>7, CartRule DEF CartParts
  <2>3. ~result'.satisfied
    BY <1>5, <1>7
  <2>4. ~Owned(This) /\ ~Promise!Unreadable(This)
    BY <1>1, <1>2, <1>3, LineItemsNeither DEF EnterLineItems
  <2> QED
    BY <1>1, <1>2, <1>4, <1>5, <2>1, <2>2, <2>3, <2>4, Over
<1>8. CASE This.items # <<>>
  <2>1. stage' = "entries" /\ k' = k
    BY <1>8 DEF EnterLineItems
  <2>2. This' = This /\ f' = f /\ Seen' = Seen /\ Looping' /\ Passed' = {}
    BY <1>2, <1>4, <2>1 DEF This, f, Seen, Looping, Passed
  <2>4. SoFar'
    BY <2>1, <2>2 DEF SoFar, EntriesGood
  <2>5. result'.satisfied <=> (\A c \in Seen : Admits(c)) /\ SoFar'
    BY <1>5, <1>6, <1>8, <2>4
  <2>6. AllowsKept'
    <3>2. Promise!Allowance(This.items, {}) = 0
      BY AllowanceIs, SumOfNone
    <3>3. allows' = [ids |-> {}, cap |-> [p \in Products |-> 0], total |-> 0, listing |-> FALSE, wildcard |-> FALSE]
      BY <1>4 DEF NothingAllowed
    <3>4. \A p : Offering(p, Passed)' = {}
      BY <2>2 DEF Offering
    <3> QED
      BY <2>2, <3>2, <3>3, <3>4 DEF AllowsKept
  <2>7. Books'
    BY <1>4, <1>8, <2>1, <2>2, <2>6 DEF Books
  <2> QED
    BY <1>2, <1>4, <1>5, <2>1, <2>5, <2>7, Within
<1> QED
  BY <1>7, <1>8

\* The books with one more entry.
LEMMA AllowsWith ==
    ASSUME LoopOK, stage = "entries", n \in DOMAIN This.items, EntriesGood, AllowsKept,
           Promise!WellFormed(This.items[n]),
           This' = This, Passed' = Passed \cup {n},
           allows' = Sighted(AddEntry(This.items[n]), This.items[n])
    PROVE  AllowsKept'
<1> DEFINE entry == This.items[n]
           q == [m \in DOMAIN This.items |-> This.items[m].quantity]
<1>1. This.items \in Seq(Entry \cup {Malformed}) /\ n \in Nat \ {0}
  BY InLoop DEF LoopOK
<1>2. Passed = 1..(n - 1) /\ n \notin Passed /\ IsFiniteSet(Passed) /\ Passed \subseteq DOMAIN This.items
  <2>1. IsFiniteSet(1..(n - 1))
    BY <1>1, FS_Interval
  <2> QED
    BY <1>1, <2>1 DEF Passed
<1>3. entry \in Entry \cup {Malformed} /\ \A j \in DOMAIN This.items : This.items[j] \in Entry \cup {Malformed}
  BY <1>1
<1>4. /\ entry.quantity \in Nat \ {0} /\ AcceptableOf(entry) = entry.acceptable /\ entry.acceptable # Malformed
      /\ Promise!Offers(entry) = ItemIds(entry) /\ ItemIds(entry) \subseteq Products
  BY <1>3, EntryRead
<1>5. \A j \in Passed \cup {n} : q[j] \in Int
  <2> TAKE j \in Passed \cup {n}
  <2>1. Promise!WellFormed(This.items[j]) /\ j \in DOMAIN This.items
    BY <1>2 DEF EntriesGood
  <2>2. This.items[j].quantity \in Nat
    BY <1>3, <2>1, EntryRead
  <2> QED
    BY <2>1, <2>2
<1>6. q[n] = entry.quantity
  OBVIOUS
<1>7. \A js : Promise!Allowance(This.items, js) = SumFunctionOnSet(q, js)
  BY AllowanceIs
<1>8. /\ allows'.ids = allows.ids \cup ItemIds(entry)
      /\ allows'.cap = [p \in Products |-> allows.cap[p] + IF p \in ItemIds(entry) THEN entry.quantity ELSE 0]
      /\ allows'.total = allows.total + entry.quantity
      /\ allows'.listing <=> allows.listing \/ entry.acceptable # <<>>
      /\ allows'.wildcard <=> allows.wildcard \/ entry.acceptable = <<>>
  <2>1. allows \in Allows /\ AddEntry(entry) \in Allows
    <3>1. IsList(entry.acceptable) /\ entry \in Entry
      BY <1>3, EntryRead
    <3> QED
      BY <1>4, <3>1, Sums DEF LoopOK
  <2> HIDE DEF entry
  <2>2. /\ AddEntry(entry).ids = allows.ids \cup ItemIds(entry)
        /\ AddEntry(entry).cap = [p \in Products |-> allows.cap[p] + IF p \in ItemIds(entry) THEN entry.quantity ELSE 0]
        /\ AddEntry(entry).total = allows.total + entry.quantity
        /\ AddEntry(entry).listing = allows.listing /\ AddEntry(entry).wildcard = allows.wildcard
    BY <2>1 DEF AddEntry, Allows
  <2>3. AcceptableOf(entry) \notin {Malformed, <<>>} <=> entry.acceptable # <<>>
    BY <1>4
  <2>4. allows' = Sighted(AddEntry(entry), entry)
    BY DEF entry
  <2>5. /\ allows'.ids = AddEntry(entry).ids /\ allows'.cap = AddEntry(entry).cap
        /\ allows'.total = AddEntry(entry).total
        /\ allows'.listing <=> AddEntry(entry).listing \/ AcceptableOf(entry) \notin {Malformed, <<>>}
        /\ allows'.wildcard <=> AddEntry(entry).wildcard \/ AcceptableOf(entry) = <<>>
    BY <2>1, <2>4 DEF Sighted, Allows
  <2> QED
    BY <1>4, <2>2, <2>3, <2>5
<1> HIDE DEF q
<1>9. \A p : Offering(p, Passed)' = Offering(p, Passed) \cup (IF p \in ItemIds(entry) THEN {n} ELSE {})
  <2> TAKE p
  <2>1. Offering(p, Passed)' = {j \in Passed \cup {n} : p \in Promise!Offers(This.items[j])}
    BY DEF Offering
  <2> QED
    BY <1>4, <2>1 DEF Offering
<1>10. allows'.ids = {p \in Products : Offering(p, Passed)' # {}}
  BY <1>4, <1>8, <1>9 DEF AllowsKept
<1>11. \A p \in Products : allows'.cap[p] = SumFunctionOnSet(q, Offering(p, Passed)')
  <2> TAKE p \in Products
  <2>1. allows.cap[p] = SumFunctionOnSet(q, Offering(p, Passed))
    BY <1>7 DEF AllowsKept
  <2>2. Offering(p, Passed) \subseteq Passed /\ IsFiniteSet(Offering(p, Passed)) /\ n \notin Offering(p, Passed)
    BY <1>2, FS_Subset DEF Offering
  <2>3. CASE p \in ItemIds(entry)
    <3>1. SumFunctionOnSet(q, Offering(p, Passed) \cup {n}) = SumFunctionOnSet(q, Offering(p, Passed)) + q[n]
      BY <1>5, <2>2, SumWith
    <3> QED
      BY <1>6, <1>8, <1>9, <2>1, <2>3, <3>1
  <2>4. CASE p \notin ItemIds(entry)
    <3>1. SumFunctionOnSet(q, Offering(p, Passed)) \in Int
      BY <1>5, <2>2, SumIsInt
    <3>2. Offering(p, Passed)' = Offering(p, Passed)
      BY <1>9, <2>4
    <3>3. allows'.cap[p] = allows.cap[p] + 0
      BY <1>8, <2>4
    <3> QED
      BY <2>1, <3>1, <3>2, <3>3
  <2> QED
    BY <2>3, <2>4
<1>12. allows'.total = SumFunctionOnSet(q, Passed')
  <2>1. SumFunctionOnSet(q, Passed \cup {n}) = SumFunctionOnSet(q, Passed) + q[n]
    BY <1>2, <1>5, SumWith
  <2>2. allows.total = SumFunctionOnSet(q, Passed)
    BY <1>7 DEF AllowsKept
  <2> QED
    BY <1>6, <1>8, <2>1, <2>2
<1>13. /\ allows'.listing <=> \E j \in Passed' : This'.items[j].acceptable # <<>>
       /\ allows'.wildcard <=> \E j \in Passed' : Promise!AnyProduct(This'.items[j])
  BY <1>8 DEF AllowsKept, Promise!AnyProduct
<1> QED
  BY <1>7, <1>10, <1>11, <1>12, <1>13 DEF AllowsKept

LEMMA PassScanEntry == ASSUME Inv, Pass, ScanEntry PROVE Pass'
<1>1. LoopOK /\ ResultOK
  BY InvParts
<1>2. /\ Looping /\ This.items \in Seq(Entry \cup {Malformed}) /\ n \in DOMAIN This.items
      /\ stage = "entries" /\ k \in DOMAIN check.constraints /\ n \in Nat \ {0} /\ k <= Len(check.constraints)
  BY <1>1, InLoop DEF ScanEntry, LoopOK
<1> DEFINE entry == This.items[n]
           shown == {x \in Range(entry.acceptable) : ~x.ref}
           tests == Failing([title |-> \E x \in shown : ~x.titled,
                             item |-> \E x \in shown : KeyOf(x) = Malformed])
           good == Promise!WellFormed(entry)
<1>3. entry \in Entry \cup {Malformed}
  BY <1>2
<1>4. check' = check /\ stage' = stage /\ k' = k /\ bought' = bought /\ n' = n + 1
  BY DEF ScanEntry
<1>5. \/ entry = Malformed /\ Report({"entry"}) /\ UNCHANGED allows
      \/ entry # Malformed /\ EntryFaults(entry) # {}
           /\ Report(EntryFaults(entry)) /\ allows' = Sighted(allows, entry)
      \/ entry # Malformed /\ EntryFaults(entry) = {} /\ ~IsList(entry.acceptable)
           /\ Report({"acceptable_items"}) /\ allows' = [allows EXCEPT !.total = @ + entry.quantity]
      \/ entry # Malformed /\ EntryFaults(entry) = {} /\ IsList(entry.acceptable)
           /\ Report(tests) /\ allows' = Sighted(AddEntry(entry), entry)
  BY DEF ScanEntry
<1>6. tests = {} <=> \A x \in Range(entry.acceptable) : ~x.ref => x.titled /\ KeyOf(x) # Malformed
  <2> DEFINE title == \E x \in shown : ~x.titled
             item == \E x \in shown : KeyOf(x) = Malformed
  <2>1. tests = {} <=> ~title /\ ~item
    <3>1. tests = Failing([title |-> title, item |-> item])
      OBVIOUS
    <3> HIDE DEF title, item, tests
    <3> QED
      BY <3>1 DEF Failing
  <2> HIDE DEF tests
  <2> QED
    BY <2>1
<1>7. good <=> /\ entry # Malformed /\ EntryFaults(entry) = {} /\ IsList(entry.acceptable) /\ tests = {}
  <2>1. good <=> /\ entry # Malformed /\ EntryFaults(entry) = {} /\ IsList(entry.acceptable)
                 /\ \A x \in Range(entry.acceptable) : ~x.ref => x.titled /\ KeyOf(x) # Malformed
    BY <1>3, EntryRead
  <2> HIDE DEF tests, entry
  <2> QED
    BY <1>6, <2>1 DEF entry
<1> HIDE DEF tests, entry, good
<1>8. \E faults : Report(faults) /\ (faults = {} <=> good)
  BY <1>5, <1>7
<1>9. result'.satisfied = (result.satisfied /\ good) /\ Noted' = Noted
  BY <1>1, <1>8 DEF Report, ResultOK, Results, Noted, good
<1>10. good => allows' = Sighted(AddEntry(entry), entry)
  BY <1>5, <1>7
<1>11. This' = This /\ f' = f
  BY <1>4, SameThis
<1>12. Passed' = Passed \cup {n}
  <2>1. Passed = 1..(n - 1) /\ Passed' = 1..((n + 1) - 1)
    BY <1>2, <1>4 DEF Passed
  <2> QED
    BY <1>2, <2>1
<1>13. EntriesGood' <=> EntriesGood /\ good
  BY <1>11, <1>12 DEF EntriesGood, good, entry
<1>14. SoFar' <=> SoFar /\ good
  BY <1>2, <1>4, <1>13 DEF SoFar
<1>15. Books'
  <2>1. ASSUME EntriesGood' PROVE AllowsKept'
    <3>1. EntriesGood /\ good /\ AllowsKept
      BY <1>2, <1>13, <2>1 DEF Pass, Books
    <3> QED
      BY <1>1, <1>2, <1>10, <1>11, <1>12, <3>1, AllowsWith DEF good, entry
  <2> QED
    BY <1>2, <1>4, <1>11, <2>1 DEF Pass, Books
<1>16. result'.satisfied <=> (\A c \in Seen : Admits(c)) /\ SoFar'
  BY <1>2, <1>9, <1>14 DEF Pass, Judged
<1> QED
  BY <1>2, <1>4, <1>9, <1>15, <1>16, Within

\* Between the passes, a constraint in order whose books are kept offers something
\* exactly when the handler goes on.
LEMMA Offered ==
    ASSUME LoopOK, stage = "entries", Pass, n \notin DOMAIN This.items, EntriesGood
    PROVE  /\ Passed = DOMAIN This.items
           /\ SomethingOffered <=> ~(allows.listing /\ allows.ids = {} /\ ~allows.wildcard)
<1>1. This.items \in Seq(Entry \cup {Malformed}) /\ n \in Nat \ {0} /\ n <= Len(This.items) + 1 /\ Looping
  BY InLoop DEF LoopOK
<1>2. Passed = DOMAIN This.items
  <2>1. n = Len(This.items) + 1
    BY <1>1
  <2> QED
    BY <1>1, <2>1 DEF Passed
<1>3. AllowsKept /\ This.items # <<>>
  BY <1>1 DEF Pass, Books
<1>4. \A j \in DOMAIN This.items :
         /\ Promise!Offers(This.items[j]) \subseteq Products
         /\ Promise!AnyProduct(This.items[j]) <=> This.items[j].acceptable = <<>>
  <2> TAKE j \in DOMAIN This.items
  <2>1. Promise!WellFormed(This.items[j]) /\ This.items[j] \in Entry \cup {Malformed}
    BY <1>1, <1>2 DEF EntriesGood
  <2> QED
    BY <2>1, EntryRead DEF Promise!AnyProduct
<1>5. 1 \in DOMAIN This.items
  BY <1>1, <1>3
<1>6. allows.ids = {} <=> \A j \in DOMAIN This.items : Promise!Offers(This.items[j]) = {}
  BY <1>2, <1>3, <1>4 DEF AllowsKept, Offering
<1>7. allows.wildcard <=> \E j \in DOMAIN This.items : Promise!AnyProduct(This.items[j])
  BY <1>2, <1>3 DEF AllowsKept
<1>8. ~allows.wildcard => allows.listing
  BY <1>2, <1>3, <1>4, <1>5, <1>7 DEF AllowsKept
<1> QED
  BY <1>2, <1>6, <1>7, <1>8 DEF SomethingOffered

LEMMA PassEndEntries == ASSUME Inv, Pass, EndEntries PROVE Pass'
<1>1. LoopOK /\ ResultOK
  BY InvParts
<1>2. /\ Looping /\ k \in DOMAIN check.constraints /\ stage = "entries" /\ n \notin DOMAIN This.items
      /\ This \in Constraint /\ This.type = "line_items" /\ This # Malformed /\ k <= Len(check.constraints)
      /\ This.items \in Seq(Entry \cup {Malformed}) /\ n \in Nat \ {0} /\ n <= Len(This.items) + 1
  BY <1>1, InLoop, LineItemsRead DEF EndEntries, LoopOK, InLineItems
<1>3. check' = check /\ allows' = allows /\ bought' = bought /\ n' = 1
  BY DEF EndEntries
<1>4. result'.satisfied = (result.satisfied /\ CartFaults = {}) /\ Noted' = Noted
  BY <1>1 DEF EndEntries, Report, ResultOK, Results, Noted
<1>5. result.satisfied <=> (\A c \in Seen : Admits(c)) /\ EntriesGood
  BY <1>2 DEF Pass, Judged, SoFar
<1>6. Passed = DOMAIN This.items
  <2>1. n = Len(This.items) + 1
    BY <1>2
  <2> QED
    BY <1>2, <2>1 DEF Passed
<1>7. EntriesGood =>
        (CartFaults = {} <=> SomethingOffered /\ f.line_items \notin {Malformed, <<>>})
  <2>1. CartFaults = {} <=> /\ ~(allows.listing /\ allows.ids = {} /\ ~allows.wildcard)
                            /\ f.line_items \notin {Malformed, <<>>}
    BY DEF CartFaults
  <2> QED
    BY <1>1, <1>2, <2>1, Offered
<1>8. CASE CartFaults # {}
  <2>1. stage' = "constraints" /\ k' = k + 1
    BY <1>8 DEF EndEntries
  <2>2. ~Admits(This)
    <3>1. ~CartParts
      BY <1>6, <1>7, <1>8 DEF CartParts, EntriesGood
    <3> QED
      BY <1>2, <3>1, CartRule
  <2>3. ~Owned(This) /\ ~Promise!Unreadable(This)
    BY <1>1, <1>2, InLoop, LineItemsNeither
  <2> QED
    BY <1>1, <1>2, <1>3, <1>4, <1>8, <2>1, <2>2, <2>3, Over
<1>9. CASE CartFaults = {}
  <2>1. stage' = "cart" /\ k' = k
    BY <1>9 DEF EndEntries
  <2>2. This' = This /\ f' = f /\ Passed' = Passed /\ Read' = {}
    BY <1>3, <1>6, <2>1, SameThis DEF Passed, Read
  <2>3. EntriesGood' = EntriesGood /\ (EntriesGood => SomethingOffered)
    BY <1>7, <1>9, <2>2 DEF EntriesGood
  <2>4. SoFar' <=> EntriesGood
    BY <2>1, <2>2, <2>3 DEF SoFar, LinesGood, LinesOffered, SomethingOffered
  <2>5. result'.satisfied <=> (\A c \in Seen : Admits(c)) /\ SoFar'
    BY <1>4, <1>5, <1>9, <2>4
  <2>6. AllowsKept' = AllowsKept
    BY <1>3, <2>2 DEF AllowsKept, Offering
  <2>7. BoughtKept'
    <3>1. bought' = [p \in Products |-> 0]
      BY <1>2, <1>3 DEF Pass, Books, NothingBought
    <3>2. \A p : {j \in Read' : KeyOf(f'.line_items[j]) = p} = {}
      BY <2>2
    <3> QED
      BY <3>1, <3>2, SumOfNone DEF BoughtKept
  <2>8. CartFaults' = {}
    BY <1>3, <1>9, <2>2 DEF CartFaults
  <2>9. Books'
    BY <1>2, <2>1, <2>2, <2>3, <2>6, <2>7, <2>8 DEF Pass, Books
  <2> QED
    BY <1>2, <1>3, <1>4, <1>9, <2>1, <2>5, <2>9, Within
<1> QED
  BY <1>8, <1>9

LEMMA PassScanLine == ASSUME Inv, Pass, ScanLine PROVE Pass'
<1>1. LoopOK /\ ResultOK
  BY InvParts
<1>2. /\ Looping /\ stage = "cart" /\ n \in DOMAIN f.line_items /\ k \in DOMAIN check.constraints
      /\ f.line_items \in Seq(Line \cup {Malformed}) /\ n \in Nat \ {0} /\ k <= Len(check.constraints)
  BY <1>1, InLoop DEF ScanLine, LoopOK, InLineItems
<1> DEFINE line == f.line_items[n]
           strange == IF allows.ids # {} /\ ~allows.wildcard /\ KeyOf(line) \notin allows.ids
                      THEN {"not acceptable"} ELSE {}
           good == Promise!GoodLine(line)
           units == Promise!Ordered(f.line_items)
<1>3. line \in Line \cup {Malformed}
  BY <1>2
<1>4. check' = check /\ stage' = stage /\ k' = k /\ allows' = allows /\ n' = n + 1
  BY DEF ScanLine
<1>5. /\ good <=> LineFaults(line) = {}
      /\ good => KeyOf(line) \in Products /\ QuantityOf(line) \in Nat /\ Promise!Units(line) = QuantityOf(line)
  BY <1>3, LineRead
<1>6. \/ LineFaults(line) # {} /\ Report(LineFaults(line)) /\ UNCHANGED bought
      \/ LineFaults(line) = {} /\ Report(strange)
           /\ bought' = [bought EXCEPT ![KeyOf(line)] = @ + QuantityOf(line)]
  BY DEF ScanLine
<1>7. strange = {} <=> ~(allows.ids # {} /\ ~allows.wildcard /\ KeyOf(line) \notin allows.ids)
  OBVIOUS
<1>8. units[n] = Promise!Units(line)
  BY <1>2 DEF Promise!Ordered
<1>9. This' = This /\ f' = f /\ Passed' = Passed /\ Read' = Read \cup {n} /\ n \notin Read /\ IsFiniteSet(Read)
  <2>1. This' = This /\ f' = f
    BY <1>4, SameThis
  <2>2. IsFiniteSet(1..(n - 1))
    BY <1>2, FS_Interval
  <2>3. 1..((n + 1) - 1) = (1..(n - 1)) \cup {n} /\ n \notin 1..(n - 1)
    BY <1>2
  <2> QED
    BY <1>2, <1>4, <2>1, <2>2, <2>3 DEF Passed, Read
<1>10. LinesGood' <=> LinesGood /\ good
  BY <1>9 DEF LinesGood
<1>11. EntriesGood' <=> EntriesGood
  BY <1>9 DEF EntriesGood
<1>12. EntriesGood => AllowsKept /\ SomethingOffered
  <2>1. ASSUME EntriesGood PROVE AllowsKept
    BY <1>2, <2>1 DEF Pass, Books
  <2>2. ASSUME EntriesGood PROVE SomethingOffered
    <3>1. AllowsKept /\ CartFaults = {} /\ This.items # <<>>
      BY <1>2, <2>1, <2>2 DEF Pass, Books
    <3>2. This.items \in Seq(Entry \cup {Malformed})
      BY <1>1, <1>2, InLoop
    <3>3. Passed = DOMAIN This.items
      BY <1>2 DEF Passed
    <3>4. 1 \in DOMAIN This.items
      BY <3>1, <3>2
    <3>5. ~(allows.listing /\ allows.ids = {} /\ ~allows.wildcard)
      BY <3>1 DEF CartFaults
    <3>6. This.items[1].acceptable # <<>> \/ Promise!AnyProduct(This.items[1])
      <4>1. This.items[1] \in Entry \cup {Malformed} /\ Promise!WellFormed(This.items[1])
        BY <2>2, <3>2, <3>3, <3>4 DEF EntriesGood
      <4> QED
        BY <4>1 DEF Promise!AnyProduct, Promise!WellFormed
    <3>7. allows.listing \/ allows.wildcard
      BY <3>1, <3>3, <3>4, <3>6 DEF AllowsKept
    <3> QED
      BY <3>1, <3>3, <3>5, <3>7 DEF AllowsKept, SomethingOffered, Offering
  <2> QED
    BY <2>1, <2>2
<1>13. EntriesGood /\ good => (strange = {} <=> OnOffer(KeyOf(line)))
  <2> SUFFICES ASSUME EntriesGood, good PROVE strange = {} <=> OnOffer(KeyOf(line))
    OBVIOUS
  <2> DEFINE p == KeyOf(line)
  <2>1. Passed = DOMAIN This.items /\ AllowsKept /\ SomethingOffered /\ p \in Products
    BY <1>2, <1>5, <1>12 DEF Passed
  <2> HIDE DEF p, strange, line
  <2>2. OnOffer(p) <=> p \in allows.ids \/ allows.wildcard
    BY <2>1 DEF OnOffer, AllowsKept, Offering
  <2>3. allows.ids # {} \/ allows.wildcard
    <3>1. \A j \in DOMAIN This.items : Promise!Offers(This.items[j]) \subseteq Products
      <4> TAKE j \in DOMAIN This.items
      <4>1. This.items \in Seq(Entry \cup {Malformed})
        BY <1>1, <1>2, InLoop
      <4>2. This.items[j] \in Entry \cup {Malformed} /\ Promise!WellFormed(This.items[j])
        BY <2>1, <4>1 DEF EntriesGood
      <4> QED
        BY <4>2, EntryRead
    <3> QED
      BY <2>1, <3>1 DEF SomethingOffered, AllowsKept, Offering
  <2> QED
    BY <1>7, <2>2, <2>3 DEF p
<1> HIDE DEF strange
<1>14. /\ result'.satisfied <=> result.satisfied /\ good /\ strange = {}
       /\ Noted' = Noted
  <2>1. \E faults : Report(faults) /\ (faults = {} <=> LineFaults(line) = {} /\ strange = {})
    BY <1>6
  <2> HIDE DEF line, good
  <2> QED
    BY <1>1, <1>5, <2>1 DEF Report, ResultOK, Results, Noted
<1>15. good => bought' = [bought EXCEPT ![KeyOf(line)] = @ + QuantityOf(line)]
  BY <1>5, <1>6
<1> HIDE DEF line, good, units
<1>16. ASSUME LinesGood' PROVE BoughtKept'
  <2>1. LinesGood /\ good /\ BoughtKept
    BY <1>2, <1>10, <1>16 DEF Pass, Books
  <2>2. bought \in [Products -> Nat] /\ KeyOf(line) \in Products
    BY <1>1, <1>5, <2>1 DEF LoopOK
  <2>3. \A j \in Read \cup {n} : units[j] \in Int
    <3> TAKE j \in Read \cup {n}
    <3>1. j \in DOMAIN f.line_items
      BY <1>2 DEF Read
    <3>2. Promise!GoodLine(f.line_items[j])
      BY <2>1 DEF LinesGood, good, line
    <3>3. f.line_items[j] \in Line \cup {Malformed}
      BY <1>2, <3>1
    <3>4. Promise!Units(f.line_items[j]) \in Nat
      BY <3>2, <3>3, LineRead
    <3> QED
      BY <3>1, <3>4 DEF units, Promise!Ordered
  <2> DEFINE own(p) == {j \in Read : KeyOf(f.line_items[j]) = p}
  <2>4. \A p \in Products : bought[p] = SumFunctionOnSet(units, own(p))
    BY <2>1 DEF BoughtKept, units
  <2>5. \A p \in Products : /\ IsFiniteSet(own(p)) /\ n \notin own(p) /\ own(p) \subseteq Read
                            /\ SumFunctionOnSet(units, own(p)) \in Int
    <3> TAKE p \in Products
    <3>1. IsFiniteSet(own(p)) /\ n \notin own(p) /\ own(p) \subseteq Read
      BY <1>9, FS_Subset
    <3> HIDE DEF own
    <3> QED
      BY <2>3, <3>1, SumIsInt
  <2>6. \A p : {j \in Read' : KeyOf(f'.line_items[j]) = p} = own(p) \cup (IF p = KeyOf(line) THEN {n} ELSE {})
    BY <1>9 DEF line
  <2> HIDE DEF own
  <2>7. ASSUME NEW p \in Products
        PROVE  bought'[p] = SumFunctionOnSet(units, own(p) \cup (IF p = KeyOf(line) THEN {n} ELSE {}))
    <3>1. CASE p = KeyOf(line)
      <4>1. SumFunctionOnSet(units, own(p) \cup {n}) = SumFunctionOnSet(units, own(p)) + units[n]
        BY <2>3, <2>5, SumWith
      <4>2. bought'[p] = bought[p] + QuantityOf(line)
        BY <1>15, <2>1, <2>2, <3>1
      <4>3. units[n] = QuantityOf(line)
        BY <1>5, <1>8, <2>1 DEF units
      <4> QED
        BY <2>4, <3>1, <4>1, <4>2, <4>3
    <3>2. CASE p # KeyOf(line)
      <4>1. bought'[p] = bought[p]
        BY <1>15, <2>1, <2>2, <3>2
      <4> QED
        BY <2>4, <3>2, <4>1
    <3> QED
      BY <3>1, <3>2
  <2> QED
    BY <1>9, <2>6, <2>7 DEF BoughtKept, units
<1>17. Books'
  <2>1. AllowsKept' = AllowsKept /\ CartFaults' = CartFaults
    BY <1>4, <1>9 DEF AllowsKept, Offering, CartFaults
  <2> QED
    BY <1>2, <1>4, <1>9, <1>11, <1>16, <2>1 DEF Pass, Books
<1>18. SoFar' <=> SoFar /\ good /\ strange = {}
  <2>1. /\ SoFar <=> EntriesGood /\ SomethingOffered /\ LinesGood /\ LinesOffered
        /\ SoFar' <=> EntriesGood' /\ SomethingOffered' /\ LinesGood' /\ LinesOffered'
    BY <1>2, <1>4 DEF SoFar
  <2>2. \A p : (OnOffer(p))' = OnOffer(p)
    BY <1>9 DEF OnOffer
  <2>3. SomethingOffered' = SomethingOffered
    BY <1>9 DEF SomethingOffered
  <2>4. LinesOffered' <=> LinesOffered /\ OnOffer(KeyOf(line))
    BY <1>9, <2>2 DEF LinesOffered, OnOffer, line
  <2> QED
    BY <1>10, <1>11, <1>13, <2>1, <2>3, <2>4
<1>19. result'.satisfied <=> (\A c \in Seen : Admits(c)) /\ SoFar'
  BY <1>2, <1>14, <1>18 DEF Pass, Judged
<1> QED
  BY <1>2, <1>4, <1>14, <1>17, <1>19, Within

\* When both lists have been read, the books say what the rule sums up.
AtEnd == stage = "cart" /\ n \notin DOMAIN f.line_items

LEMMA EndFacts ==
    ASSUME LoopOK, Pass, AtEnd
    PROVE  /\ This \in Constraint /\ This.type = "line_items" /\ This # Malformed /\ Looping
           /\ This.items \in Seq(Entry \cup {Malformed}) /\ This.items \notin {Malformed, <<>>}
           /\ f.line_items \in Seq(Line \cup {Malformed}) /\ f.line_items # <<>> /\ f.line_items # Malformed
           /\ Read = DOMAIN f.line_items /\ IsFiniteSet(DOMAIN f.line_items)
           /\ Passed = DOMAIN This.items /\ IsFiniteSet(DOMAIN This.items)
           /\ k \in DOMAIN check.constraints
<1>1. /\ Looping /\ k \in DOMAIN check.constraints /\ This \in Constraint /\ This.type = "line_items"
      /\ This.items \in Seq(Entry \cup {Malformed}) /\ f.line_items \in Seq(Line \cup {Malformed})
      /\ n \in Nat \ {0} /\ n <= Len(f.line_items) + 1 /\ This # Malformed /\ This.items # Malformed
  BY InLoop, LineItemsRead DEF AtEnd, LoopOK, InLineItems
<1>2. CartFaults = {} /\ This.items # <<>>
  BY <1>1 DEF AtEnd, Pass, Books
<1>3. f.line_items # <<>> /\ f.line_items # Malformed
  BY <1>2 DEF CartFaults
<1>4. Read = DOMAIN f.line_items
  <2>1. n = Len(f.line_items) + 1
    BY <1>1 DEF AtEnd
  <2> QED
    BY <1>1, <2>1 DEF Read
<1>5. Passed = DOMAIN This.items
  BY DEF AtEnd, Passed
<1>6. IsFiniteSet(DOMAIN This.items) /\ IsFiniteSet(DOMAIN f.line_items)
  <2>1. /\ DOMAIN This.items = 1..Len(This.items) /\ Len(This.items) \in Nat
        /\ DOMAIN f.line_items = 1..Len(f.line_items) /\ Len(f.line_items) \in Nat
    BY <1>1
  <2>2. IsFiniteSet(1..Len(This.items)) /\ IsFiniteSet(1..Len(f.line_items))
    BY <2>1, FS_Interval
  <2> QED
    BY <2>1, <2>2
<1> QED
  BY <1>1, <1>2, <1>3, <1>4, <1>5, <1>6

\* The products of the cart are finitely many, and its units are those of its products.
LEMMA CartByProduct ==
    ASSUME NEW cart, IsFiniteSet(DOMAIN cart),
           \A j \in DOMAIN cart : Promise!Units(cart[j]) \in Nat
    PROVE  LET units == Promise!Ordered(cart)
               keys == {KeyOf(cart[j]) : j \in DOMAIN cart}
           IN  /\ IsFiniteSet(keys)
               /\ \A p : Promise!Bought(cart, p) \in Nat
               /\ \A p : p \notin keys => Promise!Bought(cart, p) = 0
               /\ SumFunctionOnSet([p \in keys |-> Promise!Bought(cart, p)], keys)
                    = SumFunctionOnSet(units, DOMAIN cart)
<1> DEFINE units == Promise!Ordered(cart)
           keys == {KeyOf(cart[j]) : j \in DOMAIN cart}
           key == [j \in DOMAIN cart |-> KeyOf(cart[j])]
           own(p) == {j \in DOMAIN cart : KeyOf(cart[j]) = p}
<1>1. IsFiniteSet(keys)
  <2>1. key \in Surjection(DOMAIN cart, keys)
    BY DEF Surjection
  <2> QED
    BY <2>1, FS_Surjection
<1>2. \A j \in DOMAIN cart : units[j] \in Nat
  BY DEF Promise!Ordered
<1>3. ASSUME NEW p PROVE Promise!Bought(cart, p) = SumFunctionOnSet(units, own(p))
  BY BoughtIs
<1>4. \A p : own(p) \in SUBSET DOMAIN cart /\ (p \notin keys => own(p) = {})
  OBVIOUS
<1>5. \A p : own(p) = {j \in DOMAIN cart : key[j] = p}
  OBVIOUS
<1>6. \A j \in DOMAIN cart : key[j] \in keys
  OBVIOUS
<1> HIDE DEF units, keys, key, own
<1>7. \A p : Promise!Bought(cart, p) \in Nat /\ (p \notin keys => Promise!Bought(cart, p) = 0)
  BY <1>2, <1>3, <1>4, SumOfPart, SumOfNone
<1>8. [p \in keys |-> Promise!Bought(cart, p)]
        = [p \in keys |-> SumFunctionOnSet(units, {j \in DOMAIN cart : key[j] = p})]
  BY <1>3, <1>5
<1>9. SumFunctionOnSet([p \in keys |-> SumFunctionOnSet(units, {j \in DOMAIN cart : key[j] = p})], keys)
        = SumFunctionOnSet(units, DOMAIN cart)
  BY <1>1, <1>2, <1>6, SumByKey
<1> QED
  BY <1>1, <1>7, <1>8, <1>9 DEF units, keys

LEMMA EndBooks ==
    ASSUME LoopOK, Pass, AtEnd, EntriesGood, LinesGood
    PROVE  /\ \A p \in Products : bought[p] = Promise!Bought(f.line_items, p) /\ bought[p] \in Nat
           /\ \A j \in DOMAIN f.line_items : KeyOf(f.line_items[j]) \in Products
           /\ \A p : (\A j \in DOMAIN f.line_items : KeyOf(f.line_items[j]) # p)
                        => Promise!Bought(f.line_items, p) = 0
           /\ SumFunctionOnSet(bought, {p \in Products : bought[p] > 0})
                = SumFunctionOnSet(Promise!Ordered(f.line_items), DOMAIN f.line_items)
           /\ allows.total = Promise!Allowance(This.items, DOMAIN This.items) /\ allows.total > 0
           /\ allows.ids = {p \in Products : Offering(p, DOMAIN This.items) # {}}
           /\ \A p \in Products : /\ allows.cap[p] = Promise!Allowance(This.items, Offering(p, DOMAIN This.items))
                                  /\ allows.cap[p] \in Nat
<1> DEFINE cart == f.line_items
           units == Promise!Ordered(cart)
           keys == {KeyOf(cart[j]) : j \in DOMAIN cart}
           support == {p \in Products : bought[p] > 0}
           byKey == [p \in keys |-> Promise!Bought(cart, p)]
<1>1. AllowsKept /\ BoughtKept
  BY EndFacts DEF Pass, Books, AtEnd
<1>2. \A j \in DOMAIN cart : KeyOf(cart[j]) \in Products /\ Promise!Units(cart[j]) \in Nat
  <2> TAKE j \in DOMAIN cart
  <2>1. cart[j] \in Line \cup {Malformed}
    BY EndFacts
  <2>2. Promise!GoodLine(cart[j])
    BY EndFacts DEF LinesGood
  <2> QED
    BY <2>1, <2>2, LineRead
<1>3. bought \in [Products -> Nat] /\ allows \in Allows
  BY DEF LoopOK
<1>4. \A p \in Products : bought[p] = Promise!Bought(cart, p)
  <2> TAKE p \in Products
  <2>1. Promise!Bought(cart, p) = SumFunctionOnSet(units, {m \in DOMAIN cart : KeyOf(cart[m]) = p})
    BY BoughtIs
  <2>2. bought[p] = SumFunctionOnSet(units, {j \in Read : KeyOf(cart[j]) = p})
    BY <1>1 DEF BoughtKept
  <2> QED
    BY <2>1, <2>2, EndFacts
<1>5. /\ IsFiniteSet(keys) /\ \A p : p \notin keys => Promise!Bought(cart, p) = 0
      /\ SumFunctionOnSet(byKey, keys) = SumFunctionOnSet(units, DOMAIN cart)
  <2>1. IsFiniteSet(DOMAIN cart)
    BY EndFacts
  <2> QED
    BY <1>2, <2>1, CartByProduct
<1>6. keys \subseteq Products /\ support \subseteq keys
  <2>1. keys \subseteq Products
    BY <1>2
  <2> HIDE DEF keys, cart
  <2> QED
    BY <1>4, <1>5, <2>1
<1>7. SumFunctionOnSet(bought, support) = SumFunctionOnSet(units, DOMAIN cart)
  <2>1. \A p \in keys : /\ bought[p] \in Int /\ (p \notin support => bought[p] = 0)
                        /\ bought[p] = byKey[p]
    BY <1>3, <1>4, <1>6
  <2> HIDE DEF keys, support, byKey, units, cart
  <2>2. SumFunctionOnSet(bought, keys) = SumFunctionOnSet(bought, support)
    BY <1>5, <1>6, <2>1, SumOfSupport
  <2>3. SumFunctionOnSet(bought, keys) = SumFunctionOnSet(byKey, keys)
    BY <1>5, <2>1, SumSame
  <2> QED
    BY <1>5, <2>2, <2>3
<1>8. allows.total > 0
  <2> DEFINE q == [m \in DOMAIN This.items |-> This.items[m].quantity]
  <2>1. \A j \in DOMAIN This.items : q[j] \in Nat /\ q[j] > 0
    <3> TAKE j \in DOMAIN This.items
    <3>1. This.items[j] \in Entry \cup {Malformed} /\ Promise!WellFormed(This.items[j])
      BY EndFacts DEF EntriesGood
    <3> QED
      BY <3>1, EntryRead
  <2>2. 1 \in DOMAIN This.items
    BY EndFacts
  <2>3. allows.total = SumFunctionOnSet(q, DOMAIN This.items)
    BY <1>1, EndFacts, AllowanceIs DEF AllowsKept
  <2> HIDE DEF q
  <2> QED
    BY <2>1, <2>2, <2>3, EndFacts, SumAndTerms
<1>9. /\ allows.total = Promise!Allowance(This.items, DOMAIN This.items)
      /\ allows.ids = {p \in Products : Offering(p, DOMAIN This.items) # {}}
      /\ \A p \in Products : /\ allows.cap[p] = Promise!Allowance(This.items, Offering(p, DOMAIN This.items))
                             /\ allows.cap[p] \in Nat
  BY <1>1, <1>3, EndFacts DEF AllowsKept, Allows
<1>10. \A p : (\A j \in DOMAIN cart : KeyOf(cart[j]) # p) => Promise!Bought(cart, p) = 0
  BY <1>5
<1>11. \A p \in Products : bought[p] = Promise!Bought(f.line_items, p) /\ bought[p] \in Nat
  BY <1>3, <1>4
<1> HIDE DEF keys, byKey
<1> QED
  BY <1>2, <1>7, <1>8, <1>9, <1>10, <1>11

\* The tests at the end are those of the rule that no single entry or line decides.
LEMMA EndTests ==
    ASSUME LoopOK, Pass, AtEnd, EntriesGood, LinesGood
    PROVE  /\ CapFaults = {} <=>
                /\ SumFunctionOnSet(Promise!Ordered(f.line_items), DOMAIN f.line_items)
                     <= Promise!Allowance(This.items, DOMAIN This.items)
                /\ \A j \in DOMAIN f.line_items :
                     Offering(KeyOf(f.line_items[j]), DOMAIN This.items) # {} =>
                        Promise!Bought(f.line_items, KeyOf(f.line_items[j]))
                          <= Promise!Allowance(This.items, Offering(KeyOf(f.line_items[j]), DOMAIN This.items))
           /\ Missing = {} <=>
                \A j \in DOMAIN This.items :
                   \/ Promise!Offers(This.items[j]) = {}
                   \/ \E p \in Promise!Offers(This.items[j]) : Promise!Bought(f.line_items, p) > 0
<1> DEFINE sum == SumFunctionOnSet(Promise!Ordered(f.line_items), DOMAIN f.line_items)
           over == allows.total > 0
                     /\ SumFunctionOnSet(bought, {p \in Products : bought[p] > 0}) > allows.total
           exceeded == \E p \in allows.ids : bought[p] > allows.cap[p]
<1>1. CapFaults = {} <=> ~over /\ ~exceeded
  <2>1. CapFaults = Failing([total |-> over, cap |-> exceeded])
    BY DEF CapFaults
  <2> HIDE DEF over, exceeded
  <2> QED
    BY <2>1 DEF Failing
<1>2. sum \in Nat
  <2>1. \A j \in DOMAIN f.line_items : Promise!Ordered(f.line_items)[j] \in Nat
    <3> TAKE j \in DOMAIN f.line_items
    <3>1. f.line_items[j] \in Line \cup {Malformed} /\ Promise!GoodLine(f.line_items[j])
      BY EndFacts DEF LinesGood
    <3> QED
      BY <3>1, LineRead DEF Promise!Ordered
  <2> QED
    BY <2>1, EndFacts, SumOfPart
<1>3. ~over <=> sum <= Promise!Allowance(This.items, DOMAIN This.items)
  <2>1. allows.total \in Nat
    BY DEF LoopOK, Allows
  <2> HIDE DEF sum
  <2> QED
    BY <1>2, <2>1, EndBooks DEF sum
<1>4. ~exceeded <=>
        \A j \in DOMAIN f.line_items :
           Offering(KeyOf(f.line_items[j]), DOMAIN This.items) # {} =>
              Promise!Bought(f.line_items, KeyOf(f.line_items[j]))
                <= Promise!Allowance(This.items, Offering(KeyOf(f.line_items[j]), DOMAIN This.items))
  <2>1. \A p \in allows.ids :
          ~(bought[p] > allows.cap[p])
            <=> Promise!Bought(f.line_items, p) <= Promise!Allowance(This.items, Offering(p, DOMAIN This.items))
    BY EndBooks
  <2>2. \A p \in allows.ids :
          (\A j \in DOMAIN f.line_items : KeyOf(f.line_items[j]) # p) => ~(bought[p] > allows.cap[p])
    BY EndBooks
  <2>3. \A j \in DOMAIN f.line_items :
          Offering(KeyOf(f.line_items[j]), DOMAIN This.items) # {} <=> KeyOf(f.line_items[j]) \in allows.ids
    BY EndBooks
  <2> QED
    BY <2>1, <2>2, <2>3
<1>5. ASSUME NEW j \in DOMAIN This.items
      PROVE  j \notin Missing <=>
               \/ Promise!Offers(This.items[j]) = {}
               \/ \E p \in Promise!Offers(This.items[j]) : Promise!Bought(f.line_items, p) > 0
  <2> DEFINE entry == This.items[j]
  <2>1. entry \in Entry \cup {Malformed} /\ Promise!WellFormed(entry)
    BY EndFacts DEF EntriesGood
  <2>2. entry # Malformed /\ IsList(entry.acceptable) /\ Promise!Offers(entry) = ItemIds(entry)
        /\ ItemIds(entry) \subseteq Products
    BY <2>1, EntryRead
  <2>3. j \notin Missing <=> ItemIds(entry) = {} \/ \E p \in ItemIds(entry) : bought[p] # 0
    BY <2>2 DEF Missing
  <2> HIDE DEF entry
  <2>4. \A p \in ItemIds(entry) : bought[p] # 0 <=> Promise!Bought(f.line_items, p) > 0
    BY <2>2, EndBooks
  <2> QED
    BY <2>2, <2>3, <2>4 DEF entry
<1>6. Missing \subseteq DOMAIN This.items
  BY DEF Missing
<1> HIDE DEF over, exceeded
<1> QED
  BY <1>1, <1>3, <1>4, <1>5, <1>6

LEMMA PassEndCart == ASSUME Inv, Pass, EndCart PROVE Pass'
<1>1. LoopOK /\ ResultOK
  BY InvParts
<1>2. AtEnd
  BY DEF EndCart, AtEnd
<1>3. check' = check /\ stage' = "constraints" /\ k' = k + 1
  BY DEF EndCart
<1> DEFINE last == IF This.match_mode = Malformed THEN {"match_mode"}
                   ELSE IF This.match_mode = "exact" /\ Missing # {} THEN {"missing"} ELSE {}
<1>4. Report(CapFaults \cup last)
  BY DEF EndCart
<1>5. last = {} <=> This.match_mode # Malformed /\ (This.match_mode = "exact" => Missing = {})
  OBVIOUS
<1> HIDE DEF last
<1>6. /\ result'.satisfied <=> result.satisfied /\ CapFaults = {} /\ last = {}
      /\ Noted' = Noted
  BY <1>1, <1>4 DEF Report, ResultOK, Results, Noted
<1>7. result.satisfied <=>
        (\A c \in Seen : Admits(c)) /\ EntriesGood /\ SomethingOffered /\ LinesGood /\ LinesOffered
  BY <1>1, <1>2, EndFacts DEF Pass, Judged, SoFar, AtEnd
<1>8. Admits(This) <=> CartParts
  BY <1>1, <1>2, EndFacts, CartRule
<1>9. CartParts <=> EntriesGood /\ SomethingOffered /\ LinesGood /\ LinesOffered /\ CapFaults = {} /\ last = {}
  <2>1. CASE EntriesGood /\ LinesGood
    BY <1>1, <1>2, <1>5, <2>1, EndFacts, EndTests DEF CartParts, EntriesGood, LinesGood, LinesOffered
  <2>2. CASE ~(EntriesGood /\ LinesGood)
    BY <1>1, <1>2, <2>2, EndFacts DEF CartParts, EntriesGood, LinesGood
  <2> QED
    BY <2>1, <2>2
<1>10. result'.satisfied <=> (\A c \in Seen : Admits(c)) /\ Admits(This)
  BY <1>6, <1>7, <1>8, <1>9
<1>11. Looping /\ k \in DOMAIN check.constraints /\ ~Owned(This) /\ ~Promise!Unreadable(This)
  BY <1>1, <1>2, EndFacts, LineItemsNeither
<1> QED
  BY <1>1, <1>3, <1>6, <1>10, <1>11, Over

LEMMA CheckStays == ASSUME Next PROVE check' = check
BY DEF Next, RejectArguments, RejectEntry, CheckAmount, CheckAllowlist, Raise, Note,
   CheckUnknown, EnterLineItems, ScanEntry, EndEntries, ScanLine, EndCart, Finish, Proceed

LEMMA PassNext == ASSUME Inv, Pass, [Next]_vars PROVE Pass'
<1>1. CASE UNCHANGED vars
  <2>1. This' = This /\ f' = f /\ Seen' = Seen /\ Passed' = Passed /\ Read' = Read /\ Noted' = Noted
        /\ (Looping' <=> Looping) /\ CartFaults' = CartFaults
    BY <1>1 DEF vars, This, f, Seen, Passed, Read, Noted, Looping, CartFaults
  <2>2. \A c : Admits(c)' = Admits(c) /\ Owned(c)' = Owned(c)
    BY <1>1, <2>1 DEF vars, Admits, Owned
  <2>3. SoFar' <=> SoFar
    BY <1>1, <2>1 DEF vars, SoFar, EntriesGood, SomethingOffered, LinesGood, LinesOffered, OnOffer
  <2>4. Books' <=> Books
    BY <1>1, <2>1 DEF vars, Books, EntriesGood, LinesGood, AllowsKept, BoughtKept, Offering, NothingBought
  <2>5. Judged' <=> Judged
    BY <1>1, <2>1, <2>2, <2>3 DEF vars, Judged
  <2> QED
    BY <1>1, <2>1, <2>4, <2>5 DEF vars, Pass
<1>2. CASE Next
  BY <1>2, PassRejectArguments, PassRejectEntry, PassCheckAmount, PassCheckAllowlist, PassRaise, PassNote,
     PassCheckUnknown, PassEnterLineItems, PassScanEntry, PassEndEntries, PassScanLine, PassEndCart,
     PassFinish DEF Next
<1> QED
  BY <1>1, <1>2

\* What a pass that has ended says.
LEMMA PassEnds ==
    ASSUME Inv, Pass
    PROVE  /\ Verdict # "pending" => Verdict = Promise!Judgement(check)
           /\ stage = "done" => Unjudged = Promise!Unjudged(check)
<1>1. LoopOK /\ ResultOK
  BY InvParts
<1>2. CASE ~Looping
  <2>1. Malformed \in {check.constraints, check.fulfillment}
    BY <1>2 DEF Looping, f
  <2> QED
    BY <1>2, <2>1 DEF Pass, Verdict, Unjudged, Noted, Promise!Judgement, Promise!Unjudged
<1>3. CASE Looping
  <2>1. Malformed \notin {check.constraints, check.fulfillment} /\ check.constraints \in Seq(Constraint)
    BY <1>1, <1>3, ArgumentsRead DEF Looping, f, LoopOK
  <2>2. k \in Nat \ {0}
    BY <1>1 DEF LoopOK
  <2>3. CASE stage = "raised"
    <3>1. This \in Promise!Range(check.constraints)
      BY <1>3, <2>1, <2>2, <2>3 DEF Pass, This, Promise!Range
    <3>2. Promise!Unreadable(This)
      BY <1>3, <2>3 DEF Pass
    <3> QED
      BY <2>1, <2>3, <3>1, <3>2 DEF Verdict, Promise!Judgement
  <2>4. CASE stage = "done"
    <3>1. Seen = Promise!Range(check.constraints)
      <4>1. 1..(k - 1) = DOMAIN check.constraints
        BY <1>3, <2>1, <2>2, <2>4 DEF Pass
      <4> QED
        BY <4>1 DEF Seen, Promise!Range
    <3>2. Judged
      BY <1>3 DEF Pass
    <3>3. Verdict = Promise!Judgement(check)
      BY <2>1, <2>4, <3>1, <3>2 DEF Judged, SoFar, Verdict, Promise!Judgement, Admits
    <3>4. Unjudged = Promise!Unjudged(check)
      <4>1. Promise!Unjudged(check) = {c.type : c \in {d \in Seen : Owned(d)}}
        BY <2>1, <3>1 DEF Promise!Unjudged, Owned, f
      <4> QED
        BY <2>4, <3>2, <4>1 DEF Judged, Unjudged, Noted
    <3> QED
      BY <3>3, <3>4
  <2> QED
    BY <2>3, <2>4 DEF Pass, Verdict
<1> QED
  BY <1>2, <1>3

\* What a call has answered is the answer of the rules, with what they leave open.
Answered ==
    /\ Verdict # "pending" => Verdict = Promise!Judgement(check)
    /\ stage = "done" => Unjudged = Promise!Unjudged(check)

LEMMA AnsweredAlways == Inv /\ Pass => Answered
BY PassEnds DEF Answered

\* A step ends the call with the promised answer or shows nothing.
LEMMA StepAnswers ==
    ASSUME Inv, [Next]_vars, Answered'
    PROVE  [Promise!Answer]_(Promise!vars)
<1>1. CASE UNCHANGED vars
  BY <1>1 DEF vars, Promise!vars, Verdict, Unjudged
<1>2. CASE Next
  <2>1. check' = check
    BY <1>2, CheckStays
  <2>2. stage \in {"constraints", "entries", "cart"}
    BY <1>2 DEF Next, RejectArguments, RejectEntry, CheckAmount, CheckAllowlist, Raise, Note,
       CheckUnknown, EnterLineItems, ScanEntry, EndEntries, ScanLine, EndCart, Finish, At
  <2>3. Verdict = "pending" /\ Unjudged = {}
    BY <2>2 DEF Verdict, Unjudged
  <2>4. stage' \in {"constraints", "entries", "cart", "done", "raised"}
    BY <1>2, InvNext, InvParts DEF Next, RejectArguments, RejectEntry, CheckAmount, CheckAllowlist, Raise, Note,
       CheckUnknown, EnterLineItems, ScanEntry, EndEntries, ScanLine, EndCart, Finish, At, Proceed
  <2>5. CASE stage' \in {"constraints", "entries", "cart"}
    BY <2>1, <2>3, <2>5 DEF Verdict, Unjudged, Promise!vars
  <2>6. CASE stage' \in {"done", "raised"}
    <3>1. Verdict' # "pending"
      BY <2>6 DEF Verdict
    <3>2. Verdict' = Promise!Judgement(check)
      BY <2>1, <3>1 DEF Answered
    <3>3. Unjudged' = IF Verdict' = "raised" THEN {} ELSE Promise!Unjudged(check)
      <4>1. CASE stage' = "done"
        BY <2>1, <4>1 DEF Answered, Verdict
      <4>2. CASE stage' = "raised"
        BY <4>2 DEF Verdict, Unjudged
      <4> QED
        BY <2>6, <4>1, <4>2
    <3> QED
      BY <2>1, <2>3, <3>2, <3>3 DEF Promise!Answer
  <2> QED
    BY <2>4, <2>5, <2>6
<1> QED
  BY <1>1, <1>2

LEMMA InitAnswers == Init => Promise!Init
<1>1. Promise!Merchant = Merchant /\ Promise!Listed = Listed /\ Promise!Item = Item
  BY DEF Merchant, Promise!Merchant, Listed, Promise!Listed, Item, Promise!Item,
         OrAbsent, Promise!OrAbsent, Loose, Promise!Loose
<1>2. Promise!Line = Line /\ Promise!Entry = Entry
  BY <1>1 DEF Line, Promise!Line, Entry, Promise!Entry, Loose, Promise!Loose
<1>3. Promise!Constraint = Constraint
  BY <1>1, <1>2 DEF Constraint, Promise!Constraint, ElsewhereTypes, Promise!ElsewhereTypes,
     OrAbsent, Promise!OrAbsent, Loose, Promise!Loose
<1>4. Promise!Fulfillment = Fulfillment
  BY <1>1, <1>2 DEF Fulfillment, Promise!Fulfillment,
     OrAbsent, Promise!OrAbsent, Loose, Promise!Loose
<1>5. Promise!Check = Check
  BY <1>3, <1>4 DEF Check, Promise!Check, Strictness, Promise!Strictness, OrAbsent, Promise!OrAbsent
<1> QED
  BY <1>5, ChecksAreChecks DEF Init, Promise!Init, Verdict, Unjudged

LEMMA PassAlways == Spec => [](Inv /\ Pass)
<1>1. Inv /\ Pass /\ Inv' /\ [Next]_vars => Pass'
  BY PassNext
<1> QED
  BY <1>1, Invariance, PassInit, PTL DEF Spec

\* A call ends, if it ends, with the answer of the declarative rules, whatever
\* constraints it is given in whatever order.
THEOREM JudgedByTheRules == Spec => []Answered
BY PassAlways, AnsweredAlways, PTL

\* check_constraints implements the promise: it gives the one answer of the rules
\* in a single visible step, and owns up to what it did not judge.
THEOREM AnswersAsTheRules == Spec => Promise!Safety
<1>1. Inv /\ Answered' /\ [Next]_vars => [Promise!Answer]_(Promise!vars)
  BY StepAnswers
<1>2. Spec => Promise!Init
  BY InitAnswers, PTL DEF Spec
<1>3. Spec => [][Promise!Answer]_(Promise!vars)
  BY <1>1, PassAlways, JudgedByTheRules, PTL DEF Spec
<1> QED
  BY <1>2, <1>3, PTL DEF Promise!Safety

------------------------------------------------------------------------------
(* A cart that fits is admitted: what is bought of a product, and of all,  *)
(* is what an allotment puts on the lines of the constraint, line by line. *)

\* The counting: a table of units by line of the constraint and product, whose
\* columns add up to what is bought and whose rows keep within the quantities.
LEMMA Counting ==
    ASSUME NEW D, IsFiniteSet(D), NEW K, IsFiniteSet(K), NEW split, NEW quantity, NEW buys,
           \A j \in D : quantity[j] \in Nat /\ \A p \in K : split[j][p] \in Nat,
           \A p \in K : buys[p] = SumFunctionOnSet([j \in D |-> split[j][p]], D),
           \A j \in D : SumFunctionOnSet(split[j], K) <= quantity[j]
    PROVE  /\ SumFunctionOnSet(buys, K) <= SumFunctionOnSet(quantity, D)
           /\ \A p \in K : /\ buys[p] \in Nat
                           /\ buys[p] > 0 <=> \E j \in D : split[j][p] > 0
           /\ \A p \in K, js \in SUBSET D :
                (\A j \in D \ js : split[j][p] = 0) => buys[p] <= SumFunctionOnSet(quantity, js)
<1> DEFINE column(p) == [j \in D |-> split[j][p]]
           row == [j \in D |-> SumFunctionOnSet(split[j], K)]
           columns == [p \in K |-> SumFunctionOnSet(column(p), D)]
<1>1. \A j \in D : /\ row[j] \in Nat /\ row[j] <= quantity[j] /\ quantity[j] \in Nat
                   /\ \A p \in K : split[j][p] <= row[j] /\ split[j][p] \in Nat
  BY SumOfPart, SumAndTerms
<1>2. \A p \in K : \A j \in D : column(p)[j] \in Nat /\ column(p)[j] = split[j][p]
  OBVIOUS
<1>3. SumFunctionOnSet(row, D) = SumFunctionOnSet(columns, K)
  BY SumOfTable
<1>4. \A p \in K : buys[p] = SumFunctionOnSet(column(p), D) /\ columns[p] = buys[p]
  OBVIOUS
<1> HIDE DEF column, row, columns
<1>5. ASSUME NEW p \in K
      PROVE  /\ buys[p] \in Nat
             /\ buys[p] > 0 <=> \E j \in D : split[j][p] > 0
  <2> DEFINE col == column(p)
  <2>1. \A j \in D : col[j] \in Nat /\ col[j] = split[j][p]
    BY <1>2
  <2>2. buys[p] = SumFunctionOnSet(col, D)
    BY <1>4
  <2> HIDE DEF col
  <2>3. SumFunctionOnSet(col, D) \in Nat
    BY <2>1, SumOfPart
  <2>4. SumFunctionOnSet(col, D) > 0 <=> \E j \in D : col[j] > 0
    BY <2>1, SumAndTerms
  <2> QED
    BY <2>1, <2>2, <2>3, <2>4
<1>6. SumFunctionOnSet(buys, K) <= SumFunctionOnSet(quantity, D)
  <2>1. SumFunctionOnSet(columns, K) = SumFunctionOnSet(buys, K)
    <3>1. \A p \in K : columns[p] \in Int /\ columns[p] = buys[p]
      BY <1>4, <1>5
    <3> QED
      BY <3>1, SumSame
  <2>2. SumFunctionOnSet(row, D) <= SumFunctionOnSet(quantity, D)
    BY <1>1, SumMonotone
  <2> QED
    BY <1>3, <2>1, <2>2
<1>7. ASSUME NEW p \in K, NEW js \in SUBSET D, \A j \in D \ js : split[j][p] = 0
      PROVE  buys[p] <= SumFunctionOnSet(quantity, js)
  <2> DEFINE col == column(p)
  <2>1. \A j \in D : col[j] \in Int /\ col[j] = split[j][p]
    BY <1>2
  <2>2. buys[p] = SumFunctionOnSet(col, D)
    BY <1>4
  <2> HIDE DEF col
  <2>3. SumFunctionOnSet(col, D) = SumFunctionOnSet(col, js)
    BY <1>7, <2>1, SumOfSupport
  <2>4. IsFiniteSet(js)
    BY FS_Subset
  <2>5. \A j \in js : col[j] \in Int /\ quantity[j] \in Int /\ col[j] <= quantity[j]
    BY <1>1, <2>1
  <2>6. SumFunctionOnSet(col, js) <= SumFunctionOnSet(quantity, js)
    BY <2>4, <2>5, SumMonotone
  <2> QED
    BY <2>2, <2>3, <2>6
<1> QED
  BY <1>5, <1>6, <1>7

\* The rule for line_items admits a cart that can be allotted.
LEMMA AllottedAdmitted ==
    ASSUME Inv, CartCall, \A line \in Range(f.line_items) : QuantityOf(line) > 0,
           NEW split \in Allotments,
           \A j \in DOMAIN Entries : Fits(split, j) /\ (Exact => OnLine(split, j) > 0)
    PROVE  Promise!CartAdmitted(check.constraints[1], f)
<1> DEFINE c == check.constraints[1]
           items == c.items
           cart == f.line_items
           D == DOMAIN items
           K == Purchased
           quantity == [j \in D |-> items[j].quantity]
           buys == [p \in K |-> Promise!Bought(cart, p)]
           units == Promise!Ordered(cart)
<1>1. /\ c.type = "line_items" /\ items # <<>> /\ c.match_mode # Malformed
      /\ items \in Seq(Entry \cup {Malformed}) /\ cart \in Seq(Line \cup {Malformed})
      /\ cart # Malformed /\ cart # <<>>
  <2>1. check.constraints \in Seq(Constraint) /\ f \in Fulfillment
    BY ArgumentsRead DEF Inv, TypeOK, CartCall
  <2>2. c \in Constraint /\ TypeOf(c) = "line_items"
    BY <2>1 DEF CartCall
  <2> QED
    BY <2>1, <2>2, LineItemsRead DEF CartCall, Fulfillment
<1>2. \A j \in D : /\ Promise!WellFormed(items[j]) /\ items[j].quantity \in Nat
                   /\ Promise!Offers(items[j]) = ItemIds(items[j]) /\ ItemIds(items[j]) # {}
  <2> TAKE j \in D
  <2>1. items[j] \in Entry \cup {Malformed} /\ items[j] \in Range(items)
    BY <1>1 DEF Range
  <2>2. Promise!WellFormed(items[j]) /\ ItemIds(items[j]) # {}
    BY <2>1 DEF CartCall
  <2> QED
    BY <2>1, <2>2, EntryRead
<1>3. \A j \in DOMAIN cart : /\ Promise!GoodLine(cart[j]) /\ KeyOf(cart[j]) \in K
                             /\ Promise!Units(cart[j]) \in Nat /\ Promise!Units(cart[j]) > 0
  <2> TAKE j \in DOMAIN cart
  <2>1. cart[j] \in Line \cup {Malformed} /\ cart[j] \in Range(cart)
    BY <1>1 DEF Range
  <2>2. Promise!GoodLine(cart[j]) /\ QuantityOf(cart[j]) > 0
    BY <2>1 DEF CartCall
  <2> QED
    BY <2>1, <2>2, LineRead DEF Purchased
<1>4. IsFiniteSet(D) /\ IsFiniteSet(DOMAIN cart)
  <2>1. D = 1..Len(items) /\ Len(items) \in Nat /\ DOMAIN cart = 1..Len(cart) /\ Len(cart) \in Nat
    BY <1>1
  <2> HIDE DEF items, cart, D
  <2>2. 1 \in Int /\ Len(items) \in Int /\ Len(cart) \in Int
    BY <2>1
  <2>3. IsFiniteSet(1..Len(items)) /\ IsFiniteSet(1..Len(cart))
    BY <2>2, FS_Interval
  <2> QED
    BY <2>1, <2>3
<1>5. K = {KeyOf(cart[j]) : j \in DOMAIN cart}
  BY DEF Purchased, Range
<1>6. /\ IsFiniteSet(K) /\ SumFunctionOnSet(buys, K) = SumFunctionOnSet(units, DOMAIN cart)
  <2>1. /\ IsFiniteSet({KeyOf(cart[j]) : j \in DOMAIN cart})
        /\ SumFunctionOnSet([p \in {KeyOf(cart[j]) : j \in DOMAIN cart} |-> Promise!Bought(cart, p)],
                            {KeyOf(cart[j]) : j \in DOMAIN cart})
             = SumFunctionOnSet(units, DOMAIN cart)
    BY <1>3, <1>4, CartByProduct
  <2> QED
    BY <1>5, <2>1
<1>7. /\ split \in [D -> [K -> Nat]]
      /\ \A p \in K : /\ SumFunctionOnSet([j \in D |-> split[j][p]], D) = Promise!Bought(cart, p)
                      /\ \A j \in D : split[j][p] > 0 => p \in ItemIds(items[j])
  <2> DEFINE total == SumFunction(units)
  <2>1. /\ split \in [DOMAIN Entries -> [Purchased -> 0..total]]
        /\ \A p \in Purchased :
              /\ SumFunction([j \in DOMAIN Entries |-> split[j][p]]) = Promise!Bought(f.line_items, p)
              /\ \A j \in DOMAIN Entries : split[j][p] > 0 => p \in ItemIds(Entries[j])
    BY DEF Allotments
  <2> HIDE DEF total
  <2>2. 0..total \subseteq Nat
    OBVIOUS
  <2> QED
    BY <2>1, <2>2 DEF Entries, SumFunction
<1>8. \A j \in D : /\ SumFunctionOnSet(split[j], K) <= quantity[j]
                   /\ Exact => SumFunctionOnSet(split[j], K) > 0
  <2> TAKE j \in D
  <2>1. DOMAIN split[j] = K
    BY <1>7
  <2>2. Fits(split, j) /\ (Exact => OnLine(split, j) > 0)
    BY DEF Entries
  <2> QED
    BY <2>1, <2>2 DEF Fits, OnLine, SumFunction, Entries
<1>9. /\ SumFunctionOnSet(buys, K) <= SumFunctionOnSet(quantity, D)
      /\ \A p \in K : /\ buys[p] \in Nat
                      /\ buys[p] > 0 <=> \E j \in D : split[j][p] > 0
      /\ \A p \in K, js \in SUBSET D :
           (\A j \in D \ js : split[j][p] = 0) => buys[p] <= SumFunctionOnSet(quantity, js)
  <2>1. \A j \in D : quantity[j] \in Nat /\ \A p \in K : split[j][p] \in Nat
    BY <1>2, <1>7
  <2>2. \A p \in K : buys[p] = SumFunctionOnSet([j \in D |-> split[j][p]], D)
    BY <1>7
  <2>3. \A j \in D : SumFunctionOnSet(split[j], K) <= quantity[j]
    BY <1>8
  <2> HIDE DEF D, K, quantity, buys
  <2> QED
    BY <1>4, <1>6, <2>1, <2>2, <2>3, Counting
<1>10. \A js : Promise!Allowance(items, js) = SumFunctionOnSet(quantity, js)
  BY AllowanceIs
<1> DEFINE listing(p) == {m \in D : p \in Promise!Offers(items[m])}
<1>11. ASSUME NEW p \in K PROVE Promise!Bought(cart, p) <= Promise!Allowance(items, listing(p))
  <2>1. \A j \in D \ listing(p) : split[j][p] = 0
    <3> TAKE j \in D \ listing(p)
    <3>1. split[j][p] \in Nat /\ ~(split[j][p] > 0)
      BY <1>2, <1>7
    <3> QED
      BY <3>1
  <2>2. listing(p) \in SUBSET D /\ buys[p] = Promise!Bought(cart, p)
    OBVIOUS
  <2> HIDE DEF buys, quantity, listing, D, K
  <2> QED
    BY <1>9, <1>10, <2>1, <2>2
<1>12. ASSUME NEW p \in K PROVE Promise!Bought(cart, p) > 0 /\ listing(p) # {}
  <2>1. PICK i \in DOMAIN cart : KeyOf(cart[i]) = p
    BY <1>5
  <2> DEFINE own == {j \in DOMAIN cart : KeyOf(cart[j]) = p}
  <2>2. Promise!Bought(cart, p) = SumFunctionOnSet(units, own)
    BY BoughtIs
  <2>3. \A j \in own : units[j] \in Nat /\ units[j] > 0
    BY <1>3 DEF Promise!Ordered
  <2>4. IsFiniteSet(own) /\ i \in own
    BY <1>4, <2>1, FS_Subset
  <2>5. SumFunctionOnSet(units, own) > 0
    <3> HIDE DEF own, units
    <3> QED
      BY <2>3, <2>4, SumAndTerms
  <2>6. buys[p] > 0
    BY <2>2, <2>5
  <2>7. PICK j \in D : split[j][p] > 0
    BY <1>9, <2>6
  <2>8. j \in listing(p)
    BY <1>2, <1>7, <2>7
  <2> QED
    BY <2>2, <2>5, <2>8
<1>13. c.match_mode = "exact" =>
         \A j \in D : \E p \in Promise!Offers(items[j]) : Promise!Bought(cart, p) > 0
  <2> SUFFICES ASSUME c.match_mode = "exact", NEW j \in D
               PROVE  \E p \in Promise!Offers(items[j]) : Promise!Bought(cart, p) > 0
    OBVIOUS
  <2>1. SumFunctionOnSet(split[j], K) > 0
    BY <1>8 DEF Exact
  <2>2. \A p \in K : split[j][p] \in Nat
    BY <1>7
  <2>3. PICK p \in K : split[j][p] > 0
    <3> HIDE DEF K
    <3> QED
      BY <1>6, <2>1, <2>2, SumAndTerms
  <2>4. p \in Promise!Offers(items[j])
    BY <1>2, <1>7, <2>3
  <2> QED
    BY <1>12, <2>3, <2>4
<1> DEFINE products == {Promise!KeyOf(line) : line \in Promise!Range(cart)}
<1>14. products = K
  BY DEF Purchased, Range, Promise!Range, Promise!KeyOf, KeyOf
<1>15. Promise!CartAdmitted(c, f) <=>
        /\ items # <<>> /\ \A entry \in Promise!Range(items) : Promise!WellFormed(entry)
        /\ \E entry \in Promise!Range(items) : Promise!AnyProduct(entry) \/ Promise!Offers(entry) # {}
        /\ cart \notin {Malformed, <<>>}
        /\ \A line \in Promise!Range(cart) : Promise!GoodLine(line)
        /\ \A p \in products : listing(p) # {} \/ \E entry \in Promise!Range(items) : Promise!AnyProduct(entry)
        /\ Promise!SumFunction(Promise!Ordered(cart)) <= Promise!Allowance(items, DOMAIN items)
        /\ \A p \in products :
             listing(p) # {} => Promise!Bought(cart, p) <= Promise!Allowance(items, listing(p))
        /\ c.match_mode # Malformed
        /\ c.match_mode = "exact" => \A entry \in Promise!Range(items) :
             Promise!Offers(entry) = {} \/ \E p \in Promise!Offers(entry) : Promise!Bought(cart, p) > 0
  BY DEF Promise!CartAdmitted
<1>16. Promise!SumFunction(Promise!Ordered(cart)) <= Promise!Allowance(items, DOMAIN items)
  BY <1>6, <1>9, <1>10, OrderedIs
<1>17. \E entry \in Promise!Range(items) : Promise!Offers(entry) # {}
  <2>1. 1 \in D
    BY <1>1
  <2> QED
    BY <1>2, <2>1 DEF Promise!Range
<1>18. /\ \A entry \in Promise!Range(items) : Promise!WellFormed(entry)
       /\ \A line \in Promise!Range(cart) : Promise!GoodLine(line)
       /\ c.match_mode = "exact" => \A entry \in Promise!Range(items) :
             \E p \in Promise!Offers(entry) : Promise!Bought(cart, p) > 0
  BY <1>2, <1>3, <1>13 DEF Promise!Range
<1> HIDE DEF products, listing, items, cart, D, K, c
<1> QED
  BY <1>1, <1>11, <1>12, <1>14, <1>15, <1>16, <1>17, <1>18 DEF c, cart

LEMMA AcceptedIfFits == Inv /\ Pass => FeasibleAccepted
<1> SUFFICES ASSUME Inv, Pass, CartCall, \A line \in Range(f.line_items) : QuantityOf(line) > 0,
                    NEW split \in Allotments,
                    \A j \in DOMAIN Entries : Fits(split, j) /\ (Exact => OnLine(split, j) > 0)
             PROVE  result.satisfied
  BY DEF FeasibleAccepted
<1>1. Promise!CartAdmitted(check.constraints[1], f)
  BY AllottedAdmitted
<1>2. /\ check.constraints \in Seq(Constraint) /\ Len(check.constraints) = 1 /\ stage = "done" /\ Looping
      /\ check.constraints[1] # Malformed /\ check.constraints[1].type = "line_items"
  <2>1. check.constraints \in Seq(Constraint)
    BY ArgumentsRead DEF Inv, TypeOK, CartCall
  <2>2. check.constraints[1] \in Constraint /\ TypeOf(check.constraints[1]) = "line_items"
    BY <2>1 DEF CartCall
  <2> QED
    BY <2>1, <2>2, LineItemsRead DEF CartCall
<1>3. Admits(check.constraints[1])
  BY <1>1, <1>2, UnknownTypesAreUnknown DEF Admits, Promise!Admitted, f, Promise!Allowlists
<1>4. k = 2
  BY <1>2 DEF Pass
<1>5. \A c \in Seen : c = check.constraints[1]
  BY <1>4 DEF Seen
<1> QED
  BY <1>2, <1>3, <1>5 DEF Pass, Judged, SoFar

\* No cart that can be spread over the lines of its constraint, within each
\* quantity, is ever refused, for carts and constraints of any length.
THEOREM FittingCartsAccepted == Spec => []FeasibleAccepted
BY PassAlways, AcceptedIfFits, PTL

===============================================================================
