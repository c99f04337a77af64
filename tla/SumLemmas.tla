------------------------------ MODULE SumLemmas ------------------------------
(***************************************************************************)
(* Lemmas about SumFunctionOnSet, which the models add amounts with: that  *)
(* it is the sum its recursion says, that the order of the terms does not  *)
(* matter, and how sums combine.  Facts that hold of every finite set are  *)
(* proved by looking at a counterexample with the fewest elements.         *)
(***************************************************************************)
EXTENDS Integers, FiniteSets, Functions, FiniteSetTheorems, WellFoundedInduction, TLAPS

\* A nonempty set of numbers has a least one.
LEMMA LeastNumber ==
  ASSUME NEW S \in SUBSET Nat, S # {}
  PROVE  \E x \in S : \A y \in S : x <= y
<1> DEFINE less == OpToRel(<, Nat)
<1>1. IsWellFoundedOn(less, Nat)
  BY NatLessThanWellFounded
<1>2. \A x, y \in Nat : <<y, x>> \in less <=> y < x
  BY DEF OpToRel
<1> HIDE DEF less
<1>3. PICK x \in S : \A y \in S : <<y, x>> \notin less
  BY <1>1, WFMin
<1>4. \A y \in S : ~(y < x)
  BY <1>2, <1>3
<1>5. \A y \in S : x <= y
  BY <1>4
<1> QED BY <1>5

\* A nonempty collection of finite sets has one with the fewest elements.
LEMMA Fewest ==
  ASSUME NEW C, \A T \in C : IsFiniteSet(T), C # {}
  PROVE  \E T \in C : \A U \in C : Cardinality(T) <= Cardinality(U)
<1> DEFINE sizes == {Cardinality(T) : T \in C}
<1>1. sizes \in SUBSET Nat /\ sizes # {}
  BY FS_CardinalityType
<1>2. PICK x \in sizes : \A y \in sizes : x <= y
  <2> HIDE DEF sizes
  <2> QED BY <1>1, LeastNumber
<1> QED BY <1>2

\* A finite set loses one from its size when it loses an element.
LEMMA OneLess ==
  ASSUME NEW S, IsFiniteSet(S), NEW x \in S
  PROVE  /\ IsFiniteSet(S \ {x})
         /\ Cardinality(S) \in Nat /\ Cardinality(S \ {x}) \in Nat
         /\ Cardinality(S \ {x}) = Cardinality(S) - 1
         /\ Cardinality(S \ {x}) < Cardinality(S)
<1>1. IsFiniteSet(S \ {x}) /\ Cardinality(S \ {x}) = Cardinality(S) - 1
  BY FS_RemoveElement
<1>2. Cardinality(S) \in Nat /\ Cardinality(S \ {x}) \in Nat
  BY <1>1, FS_CardinalityType
<1> QED BY <1>1, <1>2

\* Subsets of a finite set are finite.
LEMMA PartFinite ==
  ASSUME NEW S, IsFiniteSet(S), NEW T, T \subseteq S
  PROVE  IsFiniteSet(T) /\ Cardinality(T) \in Nat
BY FS_Subset, FS_CardinalityType

\* A nonempty finite set of numbers has a greatest one: fewest are above it.
LEMMA GreatestNumber ==
  ASSUME NEW S \in SUBSET Nat, IsFiniteSet(S), S # {}
  PROVE  \E x \in S : \A y \in S : y <= x
<1> DEFINE above(x) == {y \in S : x < y}
           C == {above(x) : x \in S}
<1>1. \A x \in S : above(x) \subseteq S /\ IsFiniteSet(above(x))
  BY FS_Subset
<1>2. (\A T \in C : IsFiniteSet(T)) /\ C # {}
  BY <1>1
<1>3. PICK T \in C : \A U \in C : Cardinality(T) <= Cardinality(U)
  <2> HIDE DEF C
  <2> QED BY <1>2, Fewest
<1>4. PICK x \in S : T = above(x)
  OBVIOUS
<1>5. ASSUME NEW y \in S PROVE y <= x
  <2> SUFFICES ASSUME x < y PROVE FALSE
    OBVIOUS
  <2>1. y \in above(x) /\ above(y) \subseteq above(x) \ {y}
    <3>1. \A z \in S : y < z => x < z /\ z # y
      <4>1. x \in Nat /\ y \in Nat /\ \A z \in S : z \in Nat
        OBVIOUS
      <4> QED BY <4>1
    <3> QED BY <3>1
  <2> HIDE DEF above
  <2>2. /\ IsFiniteSet(above(x) \ {y}) /\ Cardinality(above(x) \ {y}) < Cardinality(above(x))
        /\ Cardinality(above(x)) \in Nat /\ Cardinality(above(x) \ {y}) \in Nat
    BY <1>1, <2>1, OneLess
  <2>3. Cardinality(above(y)) <= Cardinality(above(x) \ {y}) /\ Cardinality(above(y)) \in Nat
    BY <2>1, <2>2, FS_Subset, FS_CardinalityType
  <2>4. Cardinality(above(x)) <= Cardinality(above(y))
    BY <1>3, <1>4
  <2> QED BY <2>2, <2>3, <2>4
<1> QED BY <1>5
-----------------------------------------------------------------------------
(* The recursion behind the sum. *)

Pick(s) == CHOOSE x \in s : TRUE

\* it[s] is the sum of f over s, for the sets s that are part of S.
Adds(it, f, S) ==
  it = [s \in SUBSET S |-> IF s = {} THEN 0 ELSE f[Pick(s)] + it[s \ {Pick(s)}]]

LEMMA SumIsFold ==
  ASSUME NEW f, NEW S
  PROVE  SumFunctionOnSet(f, S) = (CHOOSE it : Adds(it, f, S))[S]
BY DEF SumFunctionOnSet, FoldFunctionOnSet, MapThenFoldSet, Adds, Pick

\* f has integer values on S.
IntOn(f, S) == \A x \in S : f[x] \in Int

LEMMA PickIn ==
  ASSUME NEW s, s # {}
  PROVE  Pick(s) \in s
BY DEF Pick

\* h follows the recursion on the subsets of S of at most n elements.
AddsUpTo(h, f, S, n) ==
  \A s \in SUBSET S : Cardinality(s) <= n =>
    h[s] = IF s = {} THEN 0 ELSE f[Pick(s)] + h[s \ {Pick(s)}]

\* One size more: the sums of the smaller sets give those of the larger ones.
LEMMA AddsOneMore ==
  ASSUME NEW f, NEW S, IsFiniteSet(S), IntOn(f, S), NEW n \in Nat,
         NEW h \in [SUBSET S -> Int], AddsUpTo(h, f, S, n)
  PROVE  \E g \in [SUBSET S -> Int] : AddsUpTo(g, f, S, n + 1)
<1> DEFINE g == [s \in SUBSET S |-> IF Cardinality(s) <= n THEN h[s]
                                    ELSE f[Pick(s)] + h[s \ {Pick(s)}]]
<1>1. \A s \in SUBSET S : Cardinality(s) \in Nat
  BY PartFinite
<1>2. \A s \in SUBSET S : s # {} =>
        /\ Pick(s) \in S /\ s \ {Pick(s)} \in SUBSET S
        /\ Cardinality(s \ {Pick(s)}) = Cardinality(s) - 1
  BY PickIn, PartFinite, OneLess
<1>3. \A s \in SUBSET S : s = {} => Cardinality(s) <= n
  BY FS_EmptySet
<1>4. g \in [SUBSET S -> Int]
  BY <1>2, <1>3 DEF IntOn
<1>5. ASSUME NEW s \in SUBSET S, Cardinality(s) <= n + 1
      PROVE  g[s] = IF s = {} THEN 0 ELSE f[Pick(s)] + g[s \ {Pick(s)}]
  <2>1. CASE s = {}
    BY <1>3, <2>1 DEF AddsUpTo
  <2>2. CASE s # {}
    <3>1. Cardinality(s \ {Pick(s)}) <= n /\ s \ {Pick(s)} \in SUBSET S
      BY <1>1, <1>2, <1>5, <2>2
    <3>2. g[s \ {Pick(s)}] = h[s \ {Pick(s)}]
      BY <3>1
    <3>3. g[s] = f[Pick(s)] + h[s \ {Pick(s)}]
      BY <2>2 DEF AddsUpTo
    <3> HIDE DEF g
    <3> QED BY <2>2, <3>2, <3>3
  <2> QED BY <2>1, <2>2
<1> HIDE DEF g
<1>6. AddsUpTo(g, f, S, n + 1)
  BY <1>5 DEF AddsUpTo
<1> QED BY <1>4, <1>6

\* The function the fold asks for exists, and its values are integers.
LEMMA AddsExists ==
  ASSUME NEW f, NEW S, IsFiniteSet(S), IntOn(f, S)
  PROVE  \E it \in [SUBSET S -> Int] : Adds(it, f, S)
<1> DEFINE bad == {n \in Nat : ~ \E h \in [SUBSET S -> Int] : AddsUpTo(h, f, S, n)}
<1>1. 0 \notin bad
  <2> DEFINE zero == [s \in SUBSET S |-> 0]
  <2>1. \A s \in SUBSET S : Cardinality(s) <= 0 => s = {}
    BY PartFinite, FS_EmptySet
  <2>2. zero \in [SUBSET S -> Int] /\ AddsUpTo(zero, f, S, 0)
    BY <2>1 DEF AddsUpTo
  <2> HIDE DEF zero
  <2> QED BY <2>2
<1>2. bad = {}
  <2> SUFFICES ASSUME bad # {} PROVE FALSE
    OBVIOUS
  <2>1. PICK n \in bad : \A m \in bad : n <= m
    <3>1. bad \in SUBSET Nat
      OBVIOUS
    <3> HIDE DEF bad
    <3> QED BY <3>1, LeastNumber
  <2>2. n \in Nat /\ n # 0
    BY <1>1
  <2>3. n - 1 \in Nat /\ n - 1 \notin bad
    <3>1. n - 1 \in Nat /\ ~(n <= n - 1)
      BY <2>2
    <3> HIDE DEF bad
    <3> QED BY <2>1, <3>1
  <2>4. PICK h \in [SUBSET S -> Int] : AddsUpTo(h, f, S, n - 1)
    BY <2>3
  <2>5. \E g \in [SUBSET S -> Int] : AddsUpTo(g, f, S, (n - 1) + 1)
    BY <2>3, <2>4, AddsOneMore
  <2>6. (n - 1) + 1 = n
    BY <2>2
  <2> QED BY <2>5, <2>6
<1>3. PICK h \in [SUBSET S -> Int] : AddsUpTo(h, f, S, Cardinality(S))
  <2>1. Cardinality(S) \in Nat \ bad
    BY <1>2, FS_CardinalityType
  <2> QED BY <2>1
<1>4. \A s \in SUBSET S : Cardinality(s) <= Cardinality(S)
  BY FS_Subset
<1>5. \A s \in SUBSET S : h[s] = IF s = {} THEN 0 ELSE f[Pick(s)] + h[s \ {Pick(s)}]
  BY <1>3, <1>4 DEF AddsUpTo
<1>6. h = [s \in SUBSET S |-> h[s]]
  OBVIOUS
<1>7. Adds(h, f, S)
  BY <1>5, <1>6 DEF Adds
<1> QED BY <1>7

\* Two such functions agree on what both speak of and their terms agree on.
LEMMA AddsAgree ==
  ASSUME NEW f, NEW S, NEW it, Adds(it, f, S),
         NEW g, NEW T, NEW jt, Adds(jt, g, T),
         NEW U, U \subseteq S, U \subseteq T, IsFiniteSet(U), \A x \in U : f[x] = g[x]
  PROVE  it[U] = jt[U]
<1> DEFINE bad == {s \in SUBSET U : it[s] # jt[s]}
<1> SUFFICES ASSUME bad # {} PROVE FALSE
  OBVIOUS
<1>1. PICK s \in bad : \A t \in bad : Cardinality(s) <= Cardinality(t)
  <2>1. \A t \in bad : IsFiniteSet(t)
    BY PartFinite
  <2> HIDE DEF bad
  <2> QED BY <2>1, Fewest
<1>2. s \in SUBSET U /\ it[s] # jt[s] /\ s \in SUBSET S /\ s \in SUBSET T
  BY <1>1
<1>3. /\ it[s] = IF s = {} THEN 0 ELSE f[Pick(s)] + it[s \ {Pick(s)}]
      /\ jt[s] = IF s = {} THEN 0 ELSE g[Pick(s)] + jt[s \ {Pick(s)}]
  BY <1>2 DEF Adds
<1>4. s # {}
  BY <1>2, <1>3
<1>5. Pick(s) \in s
  BY <1>4, PickIn
<1>6. s \ {Pick(s)} \in bad
  BY <1>2, <1>3, <1>4, <1>5
<1>7. IsFiniteSet(s)
  BY <1>2, PartFinite
<1>8. Cardinality(s \ {Pick(s)}) < Cardinality(s)
  BY <1>5, <1>7, OneLess
<1>9. Cardinality(s \ {Pick(s)}) \in Nat /\ Cardinality(s) \in Nat
  BY <1>5, <1>7, OneLess
<1> HIDE DEF bad
<1> QED BY <1>1, <1>6, <1>8, <1>9
-----------------------------------------------------------------------------
(* What the models use. *)

\* The sum of integers is an integer, and follows its recursion.
LEMMA SumRecursion ==
  ASSUME NEW f, NEW S, IsFiniteSet(S), IntOn(f, S)
  PROVE  /\ SumFunctionOnSet(f, S) \in Int
         /\ SumFunctionOnSet(f, S) =
              IF S = {} THEN 0 ELSE f[Pick(S)] + SumFunctionOnSet(f, S \ {Pick(S)})
<1> DEFINE it == CHOOSE h : Adds(h, f, S)
           jt == CHOOSE h : Adds(h, f, S \ {Pick(S)})
<1>1. PICK h \in [SUBSET S -> Int] : Adds(h, f, S)
  BY AddsExists
<1>2. Adds(it, f, S)
  BY <1>1
<1>3. S \subseteq S /\ \A x \in S : f[x] = f[x]
  OBVIOUS
<1>4. SumFunctionOnSet(f, S) = it[S]
  BY SumIsFold
<1> HIDE DEF it
<1>5. it[S] = h[S]
  BY <1>1, <1>2, <1>3, AddsAgree
<1>6. SumFunctionOnSet(f, S) \in Int
  BY <1>1, <1>4, <1>5
<1>7. it[S] = IF S = {} THEN 0 ELSE f[Pick(S)] + it[S \ {Pick(S)}]
  BY <1>2 DEF Adds
<1>8. CASE S # {}
  <2> DEFINE R == S \ {Pick(S)}
  <2>1. IsFiniteSet(R) /\ IntOn(f, R)
    BY PartFinite DEF IntOn
  <2>2. \E k \in [SUBSET R -> Int] : Adds(k, f, R)
    BY <2>1, AddsExists
  <2>3. Adds(jt, f, R)
    BY <2>2
  <2>4. SumFunctionOnSet(f, R) = jt[R]
    BY SumIsFold
  <2> HIDE DEF jt
  <2>5. R \subseteq S /\ R \subseteq R /\ \A x \in R : f[x] = f[x]
    OBVIOUS
  <2> HIDE DEF R
  <2>6. it[R] = jt[R]
    BY <1>2, <2>1, <2>3, <2>5, AddsAgree
  <2> QED BY <1>4, <1>6, <1>7, <1>8, <2>4, <2>6 DEF R
<1> QED BY <1>4, <1>6, <1>7, <1>8

\* Equal terms have equal sums.
LEMMA SumSame ==
  ASSUME NEW f, NEW g, NEW S, IsFiniteSet(S), IntOn(f, S), \A x \in S : f[x] = g[x]
  PROVE  SumFunctionOnSet(f, S) = SumFunctionOnSet(g, S)
<1> DEFINE it == CHOOSE h : Adds(h, f, S)
           jt == CHOOSE h : Adds(h, g, S)
<1>1. IntOn(g, S)
  BY DEF IntOn
<1>2. (\E h \in [SUBSET S -> Int] : Adds(h, f, S)) /\ (\E h \in [SUBSET S -> Int] : Adds(h, g, S))
  BY <1>1, AddsExists
<1>3. Adds(it, f, S) /\ Adds(jt, g, S)
  BY <1>2
<1>4. SumFunctionOnSet(f, S) = it[S] /\ SumFunctionOnSet(g, S) = jt[S]
  BY SumIsFold
<1> HIDE DEF it, jt
<1>5. S \subseteq S
  OBVIOUS
<1>6. it[S] = jt[S]
  BY <1>3, <1>5, AddsAgree
<1> QED BY <1>4, <1>6

LEMMA SumEmpty ==
  ASSUME NEW f
  PROVE  SumFunctionOnSet(f, {}) = 0
BY SumRecursion, FS_EmptySet DEF IntOn

\* The order of the terms does not matter: any of them may be taken out first.
THEOREM SumTakeOut ==
  ASSUME NEW f, NEW S, IsFiniteSet(S), IntOn(f, S), NEW x \in S
  PROVE  SumFunctionOnSet(f, S) = f[x] + SumFunctionOnSet(f, S \ {x})
<1> DEFINE total(T) == SumFunctionOnSet(f, T)
           bad == {T \in SUBSET S : \E y \in T : total(T) # f[y] + total(T \ {y})}
<1>1. \A T \in SUBSET S : IsFiniteSet(T) /\ IntOn(f, T) /\ total(T) \in Int
  BY PartFinite, SumRecursion DEF IntOn
<1>2. \A T \in SUBSET S : T # {} => /\ Pick(T) \in T
                                   /\ total(T) = f[Pick(T)] + total(T \ {Pick(T)})
  BY <1>1, SumRecursion, PickIn
<1>3. \A y \in S : f[y] \in Int
  BY DEF IntOn
<1> HIDE DEF total
<1>4. bad = {}
  <2> SUFFICES ASSUME bad # {} PROVE FALSE
    OBVIOUS
  <2>1. PICK T \in bad : \A U \in bad : Cardinality(T) <= Cardinality(U)
    <3>1. \A U \in bad : IsFiniteSet(U)
      BY <1>1
    <3> HIDE DEF bad
    <3> QED BY <3>1, Fewest
  <2>2. PICK y \in T : total(T) # f[y] + total(T \ {y})
    BY <2>1
  <2>3. T \in SUBSET S /\ T # {}
    BY <2>1
  <2> DEFINE c == Pick(T)
             R == T \ {c}
             Q == T \ {y}
             O == (T \ {c}) \ {y}
  <2>4. c \in T /\ total(T) = f[c] + total(R)
    BY <1>2, <2>3
  <2>5. c # y
    BY <2>2, <2>4
  <2>6. R \notin bad /\ Q \notin bad
    <3>1. Cardinality(R) < Cardinality(T) /\ Cardinality(Q) < Cardinality(T)
      BY <1>1, <2>3, <2>4, OneLess
    <3>2. Cardinality(R) \in Nat /\ Cardinality(Q) \in Nat /\ Cardinality(T) \in Nat
      BY <1>1, <2>3, <2>4, OneLess
    <3> HIDE DEF bad, R, Q
    <3> QED BY <2>1, <3>1, <3>2
  <2>7. y \in R /\ c \in Q /\ R \in SUBSET S /\ Q \in SUBSET S
    BY <2>3, <2>4, <2>5
  <2>8. total(R) = f[y] + total(R \ {y}) /\ total(Q) = f[c] + total(Q \ {c})
    BY <2>6, <2>7
  <2>9. R \ {y} = O /\ Q \ {c} = O /\ O \in SUBSET S
    BY <2>3
  <2>10. f[c] \in Int /\ f[y] \in Int /\ total(O) \in Int
    BY <1>1, <1>3, <2>3, <2>4, <2>9
  <2>11. total(T) # f[y] + total(Q)
    BY <2>2
  <2>12. total(R) = f[y] + total(O) /\ total(Q) = f[c] + total(O)
    BY <2>8, <2>9
  <2> HIDE DEF c, R, Q, O
  <2> QED BY <2>4, <2>10, <2>11, <2>12
<1>5. S \in SUBSET S
  OBVIOUS
<1>6. total(S) = f[x] + total(S \ {x})
  BY <1>4, <1>5
<1> QED BY <1>6 DEF total

\* Adding a term.
LEMMA SumPutIn ==
  ASSUME NEW f, NEW S, IsFiniteSet(S), NEW x, x \notin S, IntOn(f, S \cup {x})
  PROVE  /\ IsFiniteSet(S \cup {x})
         /\ SumFunctionOnSet(f, S \cup {x}) = f[x] + SumFunctionOnSet(f, S)
<1>1. IsFiniteSet(S \cup {x})
  BY FS_AddElement
<1>2. x \in S \cup {x} /\ (S \cup {x}) \ {x} = S
  OBVIOUS
<1>3. SumFunctionOnSet(f, S \cup {x}) = f[x] + SumFunctionOnSet(f, (S \cup {x}) \ {x})
  BY <1>1, <1>2, SumTakeOut
<1> QED BY <1>1, <1>2, <1>3

\* The sum over two disjoint sets.
LEMMA SumOfUnion ==
  ASSUME NEW f, NEW S, IsFiniteSet(S), NEW T, IsFiniteSet(T), S \cap T = {},
         IntOn(f, S \cup T)
  PROVE  /\ IsFiniteSet(S \cup T)
         /\ SumFunctionOnSet(f, S \cup T) = SumFunctionOnSet(f, S) + SumFunctionOnSet(f, T)
<1> DEFINE total(U) == SumFunctionOnSet(f, U)
           bad == {U \in SUBSET T : total(S \cup U) # total(S) + total(U)}
<1>1. \A U \in SUBSET T : IsFiniteSet(U) /\ IsFiniteSet(S \cup U)
  BY PartFinite, FS_Union
<1>2. \A U \in SUBSET T : total(U) \in Int /\ total(S \cup U) \in Int
  BY <1>1, SumRecursion DEF IntOn
<1>3. total(S) \in Int
  BY SumRecursion DEF IntOn
<1>4. total({}) = 0
  BY SumEmpty
<1>5. ASSUME NEW U \in SUBSET T, NEW x \in U
      PROVE  /\ total(U) = f[x] + total(U \ {x})
             /\ total(S \cup U) = f[x] + total((S \cup U) \ {x})
             /\ f[x] \in Int
  <2>1. IntOn(f, U) /\ IntOn(f, S \cup U) /\ f[x] \in Int
    BY DEF IntOn
  <2>2. x \in S \cup U
    OBVIOUS
  <2> QED BY <1>1, <2>1, <2>2, SumTakeOut
<1> HIDE DEF total
<1>6. bad = {}
  <2> SUFFICES ASSUME bad # {} PROVE FALSE
    OBVIOUS
  <2>1. PICK U \in bad : \A V \in bad : Cardinality(U) <= Cardinality(V)
    <3>1. \A V \in bad : IsFiniteSet(V)
      BY <1>1
    <3> HIDE DEF bad
    <3> QED BY <3>1, Fewest
  <2>2. U \in SUBSET T /\ total(S \cup U) # total(S) + total(U)
    BY <2>1
  <2>3. U # {}
    <3> SUFFICES ASSUME U = {} PROVE FALSE
      OBVIOUS
    <3>1. S \cup U = S
      OBVIOUS
    <3>2. total(S \cup U) = total(S)
      BY <3>1
    <3>3. total(U) = 0
      BY <1>4
    <3> HIDE DEF bad
    <3> QED BY <1>3, <2>2, <3>2, <3>3
  <2>4. PICK x \in U : TRUE
    BY <2>3
  <2> DEFINE V == U \ {x}
  <2>5. (S \cup U) \ {x} = S \cup V /\ V \in SUBSET T
    BY <2>2
  <2>6. V \notin bad
    <3>1. Cardinality(V) < Cardinality(U) /\ Cardinality(V) \in Nat /\ Cardinality(U) \in Nat
      BY <1>1, <2>2, OneLess
    <3> HIDE DEF bad, V
    <3> QED BY <2>1, <3>1
  <2>7. total(S \cup V) = total(S) + total(V)
    BY <2>5, <2>6
  <2>8. total(U) = f[x] + total(V) /\ total(S \cup U) = f[x] + total(S \cup V) /\ f[x] \in Int
    <3>1. /\ total(U) = f[x] + total(V)
          /\ total(S \cup U) = f[x] + total((S \cup U) \ {x})
          /\ f[x] \in Int
      BY <1>5, <2>2
    <3> HIDE DEF V
    <3> QED BY <2>5, <3>1
  <2>9. total(V) \in Int
    BY <1>2, <2>5
  <2> HIDE DEF V, bad
  <2> QED BY <1>3, <2>2, <2>7, <2>8, <2>9
<1>7. T \in SUBSET T
  OBVIOUS
<1>8. total(S \cup T) = total(S) + total(T)
  BY <1>6, <1>7
<1> QED BY <1>1, <1>7, <1>8 DEF total

\* Sums add up term by term.
LEMMA SumOfSums ==
  ASSUME NEW f, NEW g, NEW h, NEW S, IsFiniteSet(S), IntOn(f, S), IntOn(g, S),
         \A x \in S : h[x] = f[x] + g[x]
  PROVE  SumFunctionOnSet(h, S) = SumFunctionOnSet(f, S) + SumFunctionOnSet(g, S)
<1> DEFINE F(U) == SumFunctionOnSet(f, U)
           G(U) == SumFunctionOnSet(g, U)
           H(U) == SumFunctionOnSet(h, U)
           bad == {U \in SUBSET S : H(U) # F(U) + G(U)}
<1>1. \A U \in SUBSET S : IsFiniteSet(U)
  BY PartFinite
<1>2. \A U \in SUBSET S : IntOn(f, U) /\ IntOn(g, U) /\ IntOn(h, U)
  BY DEF IntOn
<1>3. \A U \in SUBSET S : F(U) \in Int /\ G(U) \in Int
  BY <1>1, <1>2, SumRecursion
<1>4. F({}) = 0 /\ G({}) = 0 /\ H({}) = 0
  BY SumEmpty
<1>5. ASSUME NEW U \in SUBSET S, NEW x \in U
      PROVE  /\ F(U) = f[x] + F(U \ {x})
             /\ G(U) = g[x] + G(U \ {x})
             /\ H(U) = h[x] + H(U \ {x})
  <2>1. IsFiniteSet(U) /\ IntOn(f, U) /\ IntOn(g, U) /\ IntOn(h, U)
    BY <1>1, <1>2
  <2> QED BY <2>1, SumTakeOut
<1> HIDE DEF F, G, H
<1>6. bad = {}
  <2> SUFFICES ASSUME bad # {} PROVE FALSE
    OBVIOUS
  <2>1. PICK U \in bad : \A V \in bad : Cardinality(U) <= Cardinality(V)
    <3>1. \A V \in bad : IsFiniteSet(V)
      BY <1>1
    <3> HIDE DEF bad
    <3> QED BY <3>1, Fewest
  <2>2. U \in SUBSET S /\ H(U) # F(U) + G(U)
    BY <2>1
  <2>3. U # {}
    BY <1>4, <2>2
  <2>4. PICK x \in U : TRUE
    BY <2>3
  <2> DEFINE V == U \ {x}
  <2>5. V \in SUBSET S
    BY <2>2
  <2>6. V \notin bad
    <3>1. Cardinality(V) < Cardinality(U) /\ Cardinality(V) \in Nat /\ Cardinality(U) \in Nat
      BY <1>1, <2>2, OneLess
    <3> HIDE DEF bad, V
    <3> QED BY <2>1, <3>1
  <2>7. H(V) = F(V) + G(V)
    BY <2>5, <2>6
  <2>8. F(U) = f[x] + F(V) /\ G(U) = g[x] + G(V) /\ H(U) = h[x] + H(V)
    BY <1>5, <2>2
  <2>9. F(V) \in Int /\ G(V) \in Int
    BY <1>3, <2>5
  <2>10. f[x] \in Int /\ g[x] \in Int /\ h[x] = f[x] + g[x]
    BY <2>2 DEF IntOn
  <2> HIDE DEF V, bad
  <2> QED BY <2>2, <2>7, <2>8, <2>9, <2>10
<1>7. S \in SUBSET S
  OBVIOUS
<1>8. H(S) = F(S) + G(S)
  BY <1>6, <1>7
<1> QED BY <1>8 DEF F, G, H

\* Terms that are all zero.
LEMMA SumOfZeros ==
  ASSUME NEW f, NEW S, IsFiniteSet(S), \A x \in S : f[x] = 0
  PROVE  SumFunctionOnSet(f, S) = 0
<1>1. IntOn(f, S)
  BY DEF IntOn
<1>2. SumFunctionOnSet(f, S) = SumFunctionOnSet(f, S) + SumFunctionOnSet(f, S)
  BY <1>1, SumOfSums
<1>3. SumFunctionOnSet(f, S) \in Int
  BY <1>1, SumRecursion
<1>4. \A total \in Int : total = total + total => total = 0
  OBVIOUS
<1> QED BY <1>2, <1>3, <1>4

\* What is zero may be left out.
LEMMA SumOverPart ==
  ASSUME NEW f, NEW S, IsFiniteSet(S), NEW T, T \subseteq S, IntOn(f, S),
         \A x \in S \ T : f[x] = 0
  PROVE  SumFunctionOnSet(f, S) = SumFunctionOnSet(f, T)
<1>1. IsFiniteSet(T) /\ IsFiniteSet(S \ T)
  BY PartFinite
<1>2. T \cap (S \ T) = {} /\ T \cup (S \ T) = S
  OBVIOUS
<1>3. SumFunctionOnSet(f, S) = SumFunctionOnSet(f, T) + SumFunctionOnSet(f, S \ T)
  BY <1>1, <1>2, SumOfUnion
<1>4. SumFunctionOnSet(f, S \ T) = 0
  <2> DEFINE R == S \ T
  <2>1. IsFiniteSet(R) /\ \A x \in R : f[x] = 0
    BY <1>1
  <2> HIDE DEF R
  <2>2. SumFunctionOnSet(f, R) = 0
    BY <2>1, SumOfZeros
  <2> QED BY <2>2 DEF R
<1>5. SumFunctionOnSet(f, T) \in Int
  BY <1>1, SumRecursion DEF IntOn
<1> QED BY <1>3, <1>4, <1>5

\* The opposite terms have the opposite sum.
LEMMA SumOfOpposites ==
  ASSUME NEW f, NEW g, NEW S, IsFiniteSet(S), IntOn(f, S), \A x \in S : g[x] = -f[x]
  PROVE  SumFunctionOnSet(g, S) = -SumFunctionOnSet(f, S)
<1> DEFINE zero == [x \in S |-> 0]
<1>1. IntOn(g, S)
  BY DEF IntOn
<1>2. \A x \in S : zero[x] = f[x] + g[x]
  BY DEF IntOn
<1>3. SumFunctionOnSet(zero, S) = SumFunctionOnSet(f, S) + SumFunctionOnSet(g, S)
  <2> HIDE DEF zero
  <2> QED BY <1>1, <1>2, SumOfSums
<1>4. SumFunctionOnSet(zero, S) = 0
  BY SumOfZeros
<1>5. SumFunctionOnSet(f, S) \in Int /\ SumFunctionOnSet(g, S) \in Int
  BY <1>1, SumRecursion
<1> HIDE DEF zero
<1> QED BY <1>3, <1>4, <1>5

\* A single term.
LEMMA SumOfOne ==
  ASSUME NEW f, NEW x, f[x] \in Int
  PROVE  SumFunctionOnSet(f, {x}) = f[x]
<1>1. IsFiniteSet({}) /\ x \notin {} /\ {} \cup {x} = {x} /\ IntOn(f, {x})
  BY FS_EmptySet DEF IntOn
<1>2. SumFunctionOnSet(f, {} \cup {x}) = f[x] + SumFunctionOnSet(f, {})
  BY <1>1, SumPutIn
<1> QED BY <1>1, <1>2, SumEmpty

\* The sum over two elements has two terms.
LEMMA SumOfPair ==
  ASSUME NEW f, NEW i, NEW j, i # j, f[i] \in Int, f[j] \in Int
  PROVE  /\ IsFiniteSet({i, j})
         /\ SumFunctionOnSet(f, {i, j}) = f[i] + f[j]
<1>1. IsFiniteSet({i})
  BY FS_Singleton
<1>2. {i} \cup {j} = {i, j} /\ j \notin {i}
  OBVIOUS
<1>3. IntOn(f, {i} \cup {j})
  BY DEF IntOn
<1>4. IsFiniteSet({i} \cup {j}) /\ SumFunctionOnSet(f, {i} \cup {j}) = f[j] + SumFunctionOnSet(f, {i})
  BY <1>1, <1>2, <1>3, SumPutIn
<1>5. SumFunctionOnSet(f, {i}) = f[i]
  BY SumOfOne
<1>6. SumFunctionOnSet(f, {i, j}) = f[j] + f[i]
  BY <1>2, <1>4, <1>5
<1> QED BY <1>2, <1>4, <1>6

\* The image of a finite set is finite.
LEMMA ImageFinite ==
  ASSUME NEW S, IsFiniteSet(S), NEW b
  PROVE  IsFiniteSet({b[x] : x \in S})
<1> DEFINE T == {b[x] : x \in S}
           send == [x \in S |-> b[x]]
<1>1. send \in Surjection(S, T)
  BY DEF Surjection
<1> HIDE DEF send, T
<1>2. IsFiniteSet(T)
  BY <1>1, FS_Surjection
<1> QED BY <1>2 DEF T

\* Terms may be added up by groups: h[a] is the sum of the group that b sends to a.
THEOREM SumByGroup ==
  ASSUME NEW f, NEW S, IsFiniteSet(S), IntOn(f, S), NEW b, NEW h,
         \A x \in S : h[b[x]] = SumFunctionOnSet(f, {y \in S : b[y] = b[x]})
  PROVE  /\ IsFiniteSet({b[x] : x \in S}) /\ IntOn(h, {b[x] : x \in S})
         /\ SumFunctionOnSet(h, {b[x] : x \in S}) = SumFunctionOnSet(f, S)
<1> DEFINE T == {b[x] : x \in S}
           group(a) == {y \in S : b[y] = a}
           part(U) == {y \in S : b[y] \in U}
           bad == {U \in SUBSET T : SumFunctionOnSet(h, U) # SumFunctionOnSet(f, part(U))}
<1>1. IsFiniteSet(T)
  BY ImageFinite
<1>2. \A U \in SUBSET T : IsFiniteSet(U)
  BY <1>1, PartFinite
<1>3. \A R \in SUBSET S : IsFiniteSet(R) /\ IntOn(f, R) /\ SumFunctionOnSet(f, R) \in Int
  BY PartFinite, SumRecursion DEF IntOn
<1>4. \A a \in T : h[a] = SumFunctionOnSet(f, group(a)) /\ group(a) \in SUBSET S
  OBVIOUS
<1>5. \A a \in T : h[a] \in Int
  BY <1>3, <1>4
<1>6. \A U \in SUBSET T : IntOn(h, U)
  BY <1>5 DEF IntOn
<1>7. bad = {}
  <2> SUFFICES ASSUME bad # {} PROVE FALSE
    OBVIOUS
  <2>1. PICK U \in bad : \A V \in bad : Cardinality(U) <= Cardinality(V)
    <3>1. \A V \in bad : IsFiniteSet(V)
      BY <1>2
    <3> HIDE DEF bad
    <3> QED BY <3>1, Fewest
  <2>2. U \in SUBSET T /\ SumFunctionOnSet(h, U) # SumFunctionOnSet(f, part(U))
    BY <2>1
  <2>3. U # {}
    <3> SUFFICES ASSUME U = {} PROVE FALSE
      OBVIOUS
    <3>1. part(U) = {}
      OBVIOUS
    <3>2. SumFunctionOnSet(f, {}) = 0 /\ SumFunctionOnSet(h, {}) = 0
      BY SumEmpty
    <3> HIDE DEF bad, part
    <3> QED BY <2>2, <3>1, <3>2
  <2>4. PICK a \in U : TRUE
    BY <2>3
  <2> DEFINE V == U \ {a}
  <2>5. V \in SUBSET T /\ a \in T
    BY <2>2
  <2>6. V \notin bad
    <3>1. Cardinality(V) < Cardinality(U) /\ Cardinality(V) \in Nat /\ Cardinality(U) \in Nat
      BY <1>2, <2>2, OneLess
    <3> HIDE DEF bad, V
    <3> QED BY <2>1, <3>1
  <2>7. SumFunctionOnSet(h, V) = SumFunctionOnSet(f, part(V))
    BY <2>5, <2>6
  <2>8. SumFunctionOnSet(h, U) = h[a] + SumFunctionOnSet(h, V)
    BY <1>2, <1>6, <2>2, SumTakeOut
  <2>9. /\ group(a) \cap part(V) = {} /\ group(a) \cup part(V) = part(U)
        /\ group(a) \in SUBSET S /\ part(V) \in SUBSET S /\ part(U) \in SUBSET S
    OBVIOUS
  <2>10. h[a] = SumFunctionOnSet(f, group(a))
    BY <1>4, <2>5
  <2> HIDE DEF V, bad, group, part, T
  <2>11. /\ IsFiniteSet(group(a)) /\ IsFiniteSet(part(V)) /\ IntOn(f, group(a) \cup part(V))
    BY <1>3, <2>9
  <2>12. SumFunctionOnSet(f, group(a) \cup part(V))
           = SumFunctionOnSet(f, group(a)) + SumFunctionOnSet(f, part(V))
    BY <2>9, <2>11, SumOfUnion
  <2> QED BY <2>2, <2>7, <2>8, <2>9, <2>10, <2>12
<1>8. T \in SUBSET T /\ part(T) = S
  OBVIOUS
<1>9. SumFunctionOnSet(h, T) = SumFunctionOnSet(f, part(T))
  BY <1>7, <1>8
<1>10. SumFunctionOnSet(h, T) = SumFunctionOnSet(f, S)
  <2> HIDE DEF part
  <2> QED BY <1>8, <1>9
<1> QED BY <1>1, <1>6, <1>8, <1>10

\* The same, for parts with names: b sends each term to its part.
LEMMA SumByPart ==
  ASSUME NEW f, NEW S, IsFiniteSet(S), IntOn(f, S), NEW T, NEW b, b \in [S -> T],
         \A t \in T : \E x \in S : b[x] = t,
         NEW part, part \in [T -> SUBSET S], \A t \in T : \A x \in S : x \in part[t] <=> b[x] = t,
         NEW h, \A t \in T : h[t] = SumFunctionOnSet(f, part[t])
  PROVE  IsFiniteSet(T) /\ IntOn(h, T) /\ SumFunctionOnSet(h, T) = SumFunctionOnSet(f, S)
<1>1. \A x \in S : part[b[x]] = {y \in S : b[y] = b[x]}
  OBVIOUS
<1>2. \A x \in S : h[b[x]] = SumFunctionOnSet(f, {y \in S : b[y] = b[x]})
  BY <1>1
<1>3. {b[x] : x \in S} = T
  OBVIOUS
<1>4. /\ IsFiniteSet({b[x] : x \in S}) /\ IntOn(h, {b[x] : x \in S})
      /\ SumFunctionOnSet(h, {b[x] : x \in S}) = SumFunctionOnSet(f, S)
  BY <1>2, SumByGroup
<1> QED BY <1>3, <1>4
=============================================================================
