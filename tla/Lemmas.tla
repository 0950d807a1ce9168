------------------------------- MODULE Lemmas -------------------------------
(***************************************************************************)
(* What several proofs need: sums over finite sets, the months of the      *)
(* calendar of CardCycle, and orders with the folds that follow them.      *)
(***************************************************************************)
EXTENDS CardCycle, FiniteSets, Functions, FiniteSetTheorems, WellFoundedInduction, TLAPS

-----------------------------------------------------------------------------
(* Sums over finite sets.  The library computes them by a function that is *)
(* recursive on the subsets of its set; that there is such a function, and *)
(* what it gives, is shown by looking at a smallest set that would have    *)
(* none.                                                                   *)

LEMMA Smallest ==
  ASSUME NEW B, B # {}, \A S \in B : IsFiniteSet(S)
  PROVE  \E S \in B : \A T \in B : T \subseteq S => T = S
<1> DEFINE N == {Cardinality(S) : S \in B}
<1>1. N \subseteq Nat /\ N # {}
  BY FS_CardinalityType
<1>2. PICK n \in N : \A m \in N : <<m, n>> \notin OpToRel(<, Nat)
  <2> HIDE DEF N
  <2> QED
    BY <1>1, NatLessThanWellFounded, WFMin
<1>3. PICK S \in B : n = Cardinality(S)
  OBVIOUS
<1>4. ASSUME NEW T \in B, T \subseteq S PROVE T = S
  <2>1. IsFiniteSet(S) /\ Cardinality(S) \in Nat /\ Cardinality(T) \in Nat
        /\ Cardinality(T) <= Cardinality(S)
        /\ (Cardinality(S) = Cardinality(T) => S = T)
    BY <1>4, FS_Subset, FS_CardinalityType
  <2>2. ~(Cardinality(T) < Cardinality(S))
    <3>1. Cardinality(T) \in N
      OBVIOUS
    <3>2. <<Cardinality(T), n>> \notin OpToRel(<, Nat)
      BY <1>2, <3>1
    <3> QED
      BY <1>3, <2>1, <3>2 DEF OpToRel
  <2> QED
    BY <2>1, <2>2
<1> QED
  BY <1>4

\* What the sum of g over S is computed by: f adds up g over every subset.
Some(s) == CHOOSE x \in s : TRUE
AddsUpOn(g, S, f) == f = [s \in SUBSET S |-> IF s = {} THEN 0 ELSE g[Some(s)] + f[s \ {Some(s)}]]
SumOver(g, S) == (CHOOSE f : AddsUpOn(g, S, f))[S]

LEMMA SomeIn == \A s : s # {} => Some(s) \in s
  BY DEF Some

LEMMA SumsAgree ==
  ASSUME NEW g, NEW S, NEW T, NEW f, NEW h, AddsUpOn(g, S, f), AddsUpOn(g, T, h),
         NEW U, IsFiniteSet(U), U \subseteq S, U \subseteq T
  PROVE  f[U] = h[U]
<1> DEFINE B == {V \in SUBSET U : f[V] # h[V]}
<1>1. CASE B = {}
  BY <1>1
<1>2. CASE B # {}
  <2>1. \A V \in B : IsFiniteSet(V)
    BY FS_Subset
  <2>2. PICK V \in B : \A W \in B : W \subseteq V => W = V
    <3> HIDE DEF B
    <3> QED
      BY <1>2, <2>1, Smallest
  <2>3. V \subseteq S /\ V \subseteq T
    BY <2>2
  <2>4. /\ f[V] = IF V = {} THEN 0 ELSE g[Some(V)] + f[V \ {Some(V)}]
        /\ h[V] = IF V = {} THEN 0 ELSE g[Some(V)] + h[V \ {Some(V)}]
    BY <2>3 DEF AddsUpOn
  <2>5. V # {}
    BY <2>2, <2>4
  <2>6. V \ {Some(V)} \notin B
    BY <2>2, <2>5, SomeIn
  <2>7. f[V \ {Some(V)}] = h[V \ {Some(V)}]
    BY <2>2, <2>6
  <2> QED
    BY <2>2, <2>4, <2>7
<1> QED
  BY <1>1, <1>2

LEMMA SumExists ==
  ASSUME NEW g, NEW S, IsFiniteSet(S)
  PROVE  \E f : AddsUpOn(g, S, f)
<1> DEFINE B == {V \in SUBSET S : ~\E f : AddsUpOn(g, V, f)}
<1>1. CASE B = {}
  BY <1>1
<1>2. CASE B # {}
  <2>1. \A V \in B : IsFiniteSet(V)
    BY FS_Subset
  <2>2. PICK V \in B : \A W \in B : W \subseteq V => W = V
    <3> HIDE DEF B
    <3> QED
      BY <1>2, <2>1, Smallest
  <2>3. \A W \in SUBSET V : W # V => AddsUpOn(g, W, CHOOSE f : AddsUpOn(g, W, f))
    BY <2>2
  <2> DEFINE f == [s \in SUBSET V |-> IF s = {} THEN 0 ELSE g[Some(s)] + SumOver(g, s \ {Some(s)})]
  <2>4. ASSUME NEW W \in SUBSET V, W # V PROVE f[W] = SumOver(g, W)
    <3> DEFINE h == CHOOSE e : AddsUpOn(g, W, e)
    <3>1. AddsUpOn(g, W, h) /\ SumOver(g, W) = h[W]
      BY <2>3, <2>4 DEF SumOver
    <3>2. h[W] = IF W = {} THEN 0 ELSE g[Some(W)] + h[W \ {Some(W)}]
      BY <3>1 DEF AddsUpOn
    <3>3. ASSUME W # {} PROVE h[W \ {Some(W)}] = SumOver(g, W \ {Some(W)})
      <4> DEFINE X == W \ {Some(W)}
                 k == CHOOSE e : AddsUpOn(g, X, e)
      <4>1. X \in SUBSET V /\ X # V /\ IsFiniteSet(X) /\ X \subseteq W
        BY <2>4, FS_Subset
      <4>2. AddsUpOn(g, X, k) /\ SumOver(g, X) = k[X]
        BY <2>3, <4>1 DEF SumOver
      <4> HIDE DEF h, k, X
      <4>3. h[X] = k[X]
        BY <3>1, <4>1, <4>2, SumsAgree
      <4> QED
        BY <4>2, <4>3 DEF X
    <3> QED
      BY <3>1, <3>2, <3>3
  <2>5. \A s \in SUBSET V : s # {} => f[s \ {Some(s)}] = SumOver(g, s \ {Some(s)})
    <3>1. TAKE s \in SUBSET V
    <3>2. HAVE s # {}
    <3>3. s \ {Some(s)} \in SUBSET V /\ s \ {Some(s)} # V
      BY <3>2, SomeIn
    <3> HIDE DEF f
    <3> QED
      BY <2>4, <3>3
  <2>6. AddsUpOn(g, V, f)
    <3>1. f = [s \in SUBSET V |-> IF s = {} THEN 0 ELSE g[Some(s)] + f[s \ {Some(s)}]]
      BY <2>5
    <3> QED
      BY <3>1 DEF AddsUpOn
  <2> HIDE DEF f
  <2> QED
    BY <2>2, <2>6
<1> QED
  BY <1>1, <1>2

\* The sum, one element at a time.
LEMMA SumSteps ==
  ASSUME NEW g, NEW S, IsFiniteSet(S)
  PROVE  SumOver(g, S) = IF S = {} THEN 0 ELSE g[Some(S)] + SumOver(g, S \ {Some(S)})
<1> DEFINE f == CHOOSE e : AddsUpOn(g, S, e)
           T == S \ {Some(S)}
           h == CHOOSE e : AddsUpOn(g, T, e)
<1>1. AddsUpOn(g, S, f) /\ SumOver(g, S) = f[S]
  BY SumExists DEF SumOver
<1>2. f[S] = IF S = {} THEN 0 ELSE g[Some(S)] + f[T]
  BY <1>1 DEF AddsUpOn
<1>3. IsFiniteSet(T) /\ T \subseteq S
  BY FS_Subset
<1>4. AddsUpOn(g, T, h) /\ SumOver(g, T) = h[T]
  BY <1>3, SumExists DEF SumOver
<1> HIDE DEF f, T, h
<1>5. f[T] = h[T]
  BY <1>1, <1>3, <1>4, SumsAgree
<1> QED
  BY <1>1, <1>2, <1>4, <1>5 DEF T

LEMMA SumIsInt ==
  ASSUME NEW g, NEW S, IsFiniteSet(S), \A x \in S : g[x] \in Int
  PROVE  SumOver(g, S) \in Int
<1> DEFINE B == {V \in SUBSET S : SumOver(g, V) \notin Int}
<1>1. CASE B = {}
  BY <1>1
<1>2. CASE B # {}
  <2>1. \A V \in B : IsFiniteSet(V)
    BY FS_Subset
  <2>2. PICK V \in B : \A W \in B : W \subseteq V => W = V
    <3> HIDE DEF B
    <3> QED
      BY <1>2, <2>1, Smallest
  <2>3. SumOver(g, V) = IF V = {} THEN 0 ELSE g[Some(V)] + SumOver(g, V \ {Some(V)})
    BY <2>1, <2>2, SumSteps
  <2>4. V # {} /\ V \subseteq S
    BY <2>2, <2>3
  <2>5. Some(V) \in V /\ V \ {Some(V)} \notin B
    BY <2>2, <2>4, SomeIn
  <2>6. SumOver(g, V \ {Some(V)}) \in Int
    BY <2>4, <2>5
  <2> QED
    BY <2>2, <2>3, <2>4, <2>5, <2>6
<1> QED
  BY <1>1, <1>2

LEMMA SumIsNat ==
  ASSUME NEW g, NEW S, IsFiniteSet(S), \A x \in S : g[x] \in Nat
  PROVE  SumOver(g, S) \in Nat
<1> DEFINE B == {V \in SUBSET S : SumOver(g, V) \notin Nat}
<1>1. CASE B = {}
  BY <1>1
<1>2. CASE B # {}
  <2>1. \A V \in B : IsFiniteSet(V)
    BY FS_Subset
  <2>2. PICK V \in B : \A W \in B : W \subseteq V => W = V
    <3> HIDE DEF B
    <3> QED
      BY <1>2, <2>1, Smallest
  <2>3. SumOver(g, V) = IF V = {} THEN 0 ELSE g[Some(V)] + SumOver(g, V \ {Some(V)})
    BY <2>1, <2>2, SumSteps
  <2>4. V # {} /\ V \subseteq S
    BY <2>2, <2>3
  <2>5. Some(V) \in V /\ V \ {Some(V)} \notin B
    BY <2>2, <2>4, SomeIn
  <2>6. SumOver(g, V \ {Some(V)}) \in Nat
    BY <2>4, <2>5
  <2> QED
    BY <2>2, <2>3, <2>4, <2>5, <2>6
<1> QED
  BY <1>1, <1>2

\* The sum of nothing, of one value, and of the same values by another name.
LEMMA SumOfNone == \A g : SumOver(g, {}) = 0
  BY SumSteps, FS_EmptySet

LEMMA SumSame ==
  ASSUME NEW S, IsFiniteSet(S), NEW g, NEW h, \A x \in S : g[x] = h[x]
  PROVE  SumOver(g, S) = SumOver(h, S)
<1> DEFINE B == {V \in SUBSET S : SumOver(g, V) # SumOver(h, V)}
<1>1. CASE B = {}
  BY <1>1
<1>2. CASE B # {}
  <2>1. \A V \in B : IsFiniteSet(V)
    BY FS_Subset
  <2>2. PICK V \in B : \A W \in B : W \subseteq V => W = V
    <3> HIDE DEF B
    <3> QED
      BY <1>2, <2>1, Smallest
  <2>3. /\ SumOver(g, V) = IF V = {} THEN 0 ELSE g[Some(V)] + SumOver(g, V \ {Some(V)})
        /\ SumOver(h, V) = IF V = {} THEN 0 ELSE h[Some(V)] + SumOver(h, V \ {Some(V)})
    BY <2>1, <2>2, SumSteps
  <2>4. V # {} /\ V \subseteq S
    BY <2>2, <2>3
  <2>5. Some(V) \in V /\ V \ {Some(V)} \notin B
    BY <2>2, <2>4, SomeIn
  <2> QED
    BY <2>2, <2>3, <2>4, <2>5
<1> QED
  BY <1>1, <1>2

\* Any element may be taken out first.
LEMMA SumTakesOut ==
  ASSUME NEW S, IsFiniteSet(S), NEW g, \A x \in S : g[x] \in Int, NEW x \in S
  PROVE  SumOver(g, S) = g[x] + SumOver(g, S \ {x})
<1> DEFINE B == {V \in SUBSET S : \E y \in V : SumOver(g, V) # g[y] + SumOver(g, V \ {y})}
<1>1. CASE B = {}
  BY <1>1
<1>2. CASE B # {}
  <2>1. \A V \in B : IsFiniteSet(V)
    BY FS_Subset
  <2>2. PICK V \in B : \A W \in B : W \subseteq V => W = V
    <3> HIDE DEF B
    <3> QED
      BY <1>2, <2>1, Smallest
  <2>3. PICK y \in V : SumOver(g, V) # g[y] + SumOver(g, V \ {y})
    BY <2>2
  <2> DEFINE z == Some(V)
             W == V \ {z}
             U == V \ {y}
  <2>4. z \in V /\ V # {} /\ SumOver(g, V) = g[z] + SumOver(g, W)
    BY <2>1, <2>2, <2>3, SumSteps, SomeIn
  <2>5. y # z
    BY <2>3, <2>4
  <2>6. V \subseteq S /\ IsFiniteSet(V) /\ z \in S /\ y \in S /\ z \in V
    BY <2>1, <2>2, <2>3, <2>4
  <2> HIDE DEF z
  <2>7. W \subseteq S /\ U \subseteq S /\ W \subseteq V /\ U \subseteq V /\ W # V /\ U # V
        /\ y \in W /\ z \in U /\ W \ {y} = U \ {z}
    BY <2>3, <2>5, <2>6
  <2>8. W \notin B /\ U \notin B
    <3> HIDE DEF B, U, W
    <3> QED
      BY <2>2, <2>7
  <2>9. SumOver(g, W) = g[y] + SumOver(g, W \ {y}) /\ SumOver(g, U) = g[z] + SumOver(g, U \ {z})
    <3> HIDE DEF U, W
    <3> QED
      BY <2>7, <2>8
  <2>10. SumOver(g, W \ {y}) \in Int
    <3>1. W \ {y} \subseteq S
      BY <2>7
    <3>2. IsFiniteSet(W \ {y}) /\ \A v \in W \ {y} : g[v] \in Int
      BY <3>1, FS_Subset
    <3> HIDE DEF W
    <3> QED
      BY <3>2, SumIsInt
  <2>11. g[y] \in Int /\ g[z] \in Int
    BY <2>6
  <2> HIDE DEF B, U, W
  <2>12. g[z] + (g[y] + SumOver(g, W \ {y})) = g[y] + (g[z] + SumOver(g, W \ {y}))
    BY <2>10, <2>11
  <2> QED
    BY <2>3, <2>4, <2>7, <2>9, <2>12 DEF U
<1> QED
  BY <1>1, <1>2

LEMMA SumOfOne ==
  ASSUME NEW x, NEW g, g[x] \in Int
  PROVE  SumOver(g, {x}) = g[x]
<1>1. IsFiniteSet({x}) /\ {x} \ {x} = {}
  BY FS_Singleton
<1>2. SumOver(g, {x}) = g[x] + SumOver(g, {x} \ {x})
  BY <1>1, SumTakesOut
<1> QED
  BY <1>1, <1>2, SumOfNone

\* Two sets without a common element.
LEMMA SumOfUnion ==
  ASSUME NEW S, NEW T, IsFiniteSet(S), IsFiniteSet(T), S \cap T = {},
         NEW g, \A x \in S \cup T : g[x] \in Int
  PROVE  SumOver(g, S \cup T) = SumOver(g, S) + SumOver(g, T)
<1> DEFINE B == {V \in SUBSET T : SumOver(g, S \cup V) # SumOver(g, S) + SumOver(g, V)}
<1>1. CASE B = {}
  BY <1>1
<1>2. CASE B # {}
  <2>1. \A V \in B : IsFiniteSet(V)
    BY FS_Subset
  <2>2. PICK V \in B : \A W \in B : W \subseteq V => W = V
    <3> HIDE DEF B
    <3> QED
      BY <1>2, <2>1, Smallest
  <2>3. V \subseteq T /\ IsFiniteSet(V) /\ SumOver(g, S \cup V) # SumOver(g, S) + SumOver(g, V)
    BY <2>1, <2>2
  <2>4. SumOver(g, S) \in Int
    BY SumIsInt
  <2>5. V # {}
    <3> SUFFICES ASSUME V = {} PROVE FALSE
      OBVIOUS
    <3>1. S \cup V = S /\ SumOver(g, V) = 0
      BY SumOfNone
    <3> QED
      BY <2>3, <2>4, <3>1
  <2>6. PICK y \in V : TRUE
    BY <2>5
  <2> DEFINE W == V \ {y}
  <2>7. W \subseteq T /\ W \subseteq V /\ W # V /\ (S \cup V) \ {y} = S \cup W /\ IsFiniteSet(W)
    <3>1. y \notin S
      BY <2>3, <2>6
    <3>2. IsFiniteSet(W)
      BY <2>3, FS_Subset
    <3> QED
      BY <2>3, <2>6, <3>1, <3>2
  <2>8. SumOver(g, S \cup W) = SumOver(g, S) + SumOver(g, W)
    <3> HIDE DEF W
    <3> QED
      BY <2>2, <2>7
  <2>9. IsFiniteSet(S \cup V) /\ \A x \in S \cup V : g[x] \in Int
    BY <2>3, FS_Union
  <2>10. SumOver(g, S \cup V) = g[y] + SumOver(g, S \cup W)
    <3>1. SumOver(g, S \cup V) = g[y] + SumOver(g, (S \cup V) \ {y})
      BY <2>6, <2>9, SumTakesOut
    <3> QED
      BY <2>7, <3>1
  <2>11. SumOver(g, V) = g[y] + SumOver(g, W)
    BY <2>3, <2>6, SumTakesOut
  <2>12. SumOver(g, W) \in Int /\ g[y] \in Int
    <3>1. \A x \in W : g[x] \in Int
      BY <2>7
    <3> HIDE DEF W
    <3> QED
      BY <2>3, <2>6, <2>7, <3>1, SumIsInt
  <2> HIDE DEF B, W
  <2> QED
    BY <2>3, <2>4, <2>8, <2>10, <2>11, <2>12
<1> QED
  BY <1>1, <1>2

\* Sums of differences.
LEMMA SumOfDifference ==
  ASSUME NEW S, IsFiniteSet(S), NEW f, NEW g, NEW h,
         \A x \in S : f[x] \in Int /\ g[x] \in Int /\ h[x] = f[x] - g[x]
  PROVE  SumOver(h, S) = SumOver(f, S) - SumOver(g, S)
<1> DEFINE B == {V \in SUBSET S : SumOver(h, V) # SumOver(f, V) - SumOver(g, V)}
<1>1. CASE B = {}
  BY <1>1
<1>2. CASE B # {}
  <2>1. \A V \in B : IsFiniteSet(V)
    BY FS_Subset
  <2>2. PICK V \in B : \A W \in B : W \subseteq V => W = V
    <3> HIDE DEF B
    <3> QED
      BY <1>2, <2>1, Smallest
  <2>3. V \subseteq S /\ IsFiniteSet(V) /\ SumOver(h, V) # SumOver(f, V) - SumOver(g, V)
    BY <2>1, <2>2
  <2>4. V # {}
    <3> SUFFICES ASSUME V = {} PROVE FALSE
      OBVIOUS
    <3>1. SumOver(f, V) = 0 /\ SumOver(g, V) = 0 /\ SumOver(h, V) = 0
      BY SumOfNone
    <3> QED
      BY <2>3, <3>1
  <2> DEFINE z == Some(V)
             W == V \ {z}
  <2>5. z \in V /\ z \in S
    BY <2>3, <2>4, SomeIn
  <2>6. /\ SumOver(f, V) = f[z] + SumOver(f, W)
        /\ SumOver(g, V) = g[z] + SumOver(g, W)
        /\ SumOver(h, V) = h[z] + SumOver(h, W)
    BY <2>3, <2>4, SumSteps
  <2> HIDE DEF z
  <2>7. W \subseteq S /\ IsFiniteSet(W) /\ W \subseteq V /\ W # V
    BY <2>3, <2>5, FS_Subset
  <2> HIDE DEF W
  <2>8. SumOver(h, W) = SumOver(f, W) - SumOver(g, W)
    BY <2>2, <2>7
  <2>9. SumOver(f, W) \in Int /\ SumOver(g, W) \in Int
    <3>1. \A x \in W : f[x] \in Int /\ g[x] \in Int
      BY <2>7
    <3> QED
      BY <2>7, <3>1, SumIsInt
  <2>10. f[z] \in Int /\ g[z] \in Int /\ h[z] = f[z] - g[z]
    BY <2>5
  <2> QED
    BY <2>3, <2>6, <2>8, <2>9, <2>10
<1> QED
  BY <1>1, <1>2

LEMMA SumOfZeros ==
  ASSUME NEW S, IsFiniteSet(S), NEW g, \A x \in S : g[x] = 0
  PROVE  SumOver(g, S) = 0
<1>1. SumOver(g, S) = SumOver(g, S) - SumOver(g, S) /\ SumOver(g, S) \in Int
  BY SumOfDifference, SumIsInt
<1> QED
  BY <1>1

\* So many times the same.
LEMMA SumOfEqual ==
  ASSUME NEW S, IsFiniteSet(S), NEW g, NEW q \in Int, \A x \in S : g[x] = q
  PROVE  SumOver(g, S) = q * Cardinality(S)
<1> DEFINE B == {V \in SUBSET S : SumOver(g, V) # q * Cardinality(V)}
<1>1. CASE B = {}
  BY <1>1
<1>2. CASE B # {}
  <2>1. \A V \in B : IsFiniteSet(V)
    BY FS_Subset
  <2>2. PICK V \in B : \A W \in B : W \subseteq V => W = V
    <3> HIDE DEF B
    <3> QED
      BY <1>2, <2>1, Smallest
  <2>3. V \subseteq S /\ IsFiniteSet(V) /\ SumOver(g, V) # q * Cardinality(V)
    BY <2>1, <2>2
  <2>4. SumOver(g, V) = IF V = {} THEN 0 ELSE g[Some(V)] + SumOver(g, V \ {Some(V)})
    BY <2>3, SumSteps
  <2>5. V # {}
    BY <2>3, <2>4, FS_EmptySet
  <2>6. Some(V) \in V /\ V \ {Some(V)} \notin B /\ V \ {Some(V)} \subseteq S
    BY <2>2, <2>3, <2>5, SomeIn
  <2>7. SumOver(g, V \ {Some(V)}) = q * Cardinality(V \ {Some(V)})
    BY <2>6
  <2>8. Cardinality(V \ {Some(V)}) = Cardinality(V) - 1 /\ Cardinality(V) \in Nat
    BY <2>3, <2>6, FS_RemoveElement, FS_CardinalityType
  <2>9. g[Some(V)] = q
    BY <2>3, <2>6
  <2> DEFINE c == Cardinality(V)
             v == SumOver(g, V)
             w == SumOver(g, V \ {Some(V)})
  <2>10. /\ v = q + w /\ w = q * (c - 1) /\ c \in Nat /\ v # q * c
    BY <2>3, <2>4, <2>5, <2>7, <2>8, <2>9
  <2> HIDE DEF c, v, w
  <2> QED
    BY <2>10
<1> QED
  BY <1>1, <1>2

\* What is zero outside of T does not count.
LEMMA SumOnPart ==
  ASSUME NEW S, IsFiniteSet(S), NEW T, T \subseteq S,
         NEW g, \A x \in S : g[x] \in Int, \A x \in S \ T : g[x] = 0
  PROVE  SumOver(g, S) = SumOver(g, T)
<1>1. IsFiniteSet(T) /\ IsFiniteSet(S \ T) /\ T \cup (S \ T) = S
  BY FS_Subset
<1>2. SumOver(g, T \cup (S \ T)) = SumOver(g, T) + SumOver(g, S \ T)
  <2> DEFINE U == S \ T
  <2>1. T \cap U = {} /\ \A x \in T \cup U : g[x] \in Int
    OBVIOUS
  <2> HIDE DEF U
  <2>2. SumOver(g, T \cup U) = SumOver(g, T) + SumOver(g, U)
    BY <1>1, <2>1, SumOfUnion DEF U
  <2> QED
    BY <2>2 DEF U
<1>3. SumOver(g, S \ T) = 0
  BY <1>1, SumOfZeros
<1>4. SumOver(g, T) \in Int
  BY <1>1, SumIsInt
<1>5. SumOver(g, S) = SumOver(g, T \cup (S \ T))
  BY <1>1
<1> QED
  BY <1>2, <1>3, <1>4, <1>5

\* A table g of which c are the columns, f adds up the rows and h the columns.
Table(S, T, g, c, f, h) ==
  /\ \A x \in S : \A y \in T : g[x][y] \in Int /\ c[y][x] = g[x][y]
  /\ \A x \in S : f[x] = SumOver(g[x], T)
  /\ \A y \in T : h[y] = SumOver(c[y], S)

LEMMA SumOfSums ==
  ASSUME NEW S, NEW T, IsFiniteSet(S), IsFiniteSet(T), NEW g, NEW c, NEW f, NEW h,
         Table(S, T, g, c, f, h)
  PROVE  SumOver(f, S) = SumOver(h, T)
<1>0. /\ \A x \in S : \A y \in T : g[x][y] \in Int /\ c[y][x] = g[x][y]
      /\ \A x \in S : f[x] = SumOver(g[x], T)
      /\ \A y \in T : h[y] = SumOver(c[y], S)
  BY DEF Table
<1> DEFINE col(V) == [y \in T |-> SumOver([x \in S |-> g[x][y]], V)]
           B == {V \in SUBSET S : SumOver(f, V) # SumOver(col(V), T)}
<1>1. SumOver(col(S), T) = SumOver(h, T)
  <2>1. ASSUME NEW y \in T PROVE col(S)[y] = h[y]
    <3> DEFINE k == [x \in S |-> g[x][y]]
    <3>1. \A x \in S : k[x] = c[y][x]
      BY <1>0
    <3>2. col(S)[y] = SumOver(k, S)
      OBVIOUS
    <3> HIDE DEF k, col
    <3> QED
      BY <1>0, <3>1, <3>2, SumSame
  <2> HIDE DEF col
  <2> QED
    BY <2>1, SumSame
<1>2. CASE B = {}
  BY <1>1, <1>2
<1>3. CASE B # {}
  <2>1. \A V \in B : IsFiniteSet(V)
    BY FS_Subset
  <2>2. PICK V \in B : \A W \in B : W \subseteq V => W = V
    <3> HIDE DEF B
    <3> QED
      BY <1>3, <2>1, Smallest
  <2>3. V \subseteq S /\ IsFiniteSet(V) /\ SumOver(f, V) # SumOver(col(V), T)
    BY <2>1, <2>2
  <2>4. V # {}
    <3> SUFFICES ASSUME V = {} PROVE FALSE
      OBVIOUS
    <3>1. \A y \in T : col(V)[y] = 0
      BY SumOfNone
    <3>2. SumOver(col(V), T) = 0
      <4> HIDE DEF col
      <4> QED
        BY <3>1, SumOfZeros
    <3> QED
      BY <2>3, <3>2, SumOfNone
  <2> DEFINE z == Some(V)
             W == V \ {z}
  <2>5. z \in V /\ z \in S
    BY <2>3, <2>4, SomeIn
  <2>6. SumOver(f, V) = f[z] + SumOver(f, W)
    BY <2>3, <2>4, SumSteps
  <2>7. ASSUME NEW y \in T
        PROVE  /\ col(V)[y] = g[z][y] + col(W)[y]
               /\ col(W)[y] \in Int
    <3> DEFINE k == [x \in S |-> g[x][y]]
    <3>1. SumOver(k, V) = k[z] + SumOver(k, W)
      BY <2>3, <2>4, SumSteps
    <3>2. k[z] = g[z][y] /\ col(V)[y] = SumOver(k, V) /\ col(W)[y] = SumOver(k, W)
      BY <2>5
    <3>3. IsFiniteSet(W) /\ \A x \in W : k[x] \in Int
      BY <1>0, <2>3, FS_Subset
    <3> HIDE DEF k, W, col, z
    <3>4. SumOver(k, W) \in Int
      BY <3>3, SumIsInt
    <3> QED
      BY <3>1, <3>2, <3>4
  <2> HIDE DEF z
  <2>8. W \subseteq S /\ IsFiniteSet(W) /\ W \subseteq V /\ W # V
    BY <2>3, <2>5, FS_Subset
  <2> HIDE DEF W, col
  <2>9. SumOver(f, W) = SumOver(col(W), T)
    BY <2>2, <2>8
  <2>10. SumOver(col(W), T) = SumOver(col(V), T) - SumOver(g[z], T)
    <3>1. \A y \in T : /\ col(V)[y] \in Int /\ g[z][y] \in Int
                       /\ col(W)[y] = col(V)[y] - g[z][y]
      <4> TAKE y \in T
      <4>1. g[z][y] \in Int
        BY <1>0, <2>5
      <4> QED
        BY <2>7, <4>1
    <3> QED
      BY <3>1, SumOfDifference
  <2>11. f[z] = SumOver(g[z], T)
    BY <1>0, <2>5
  <2>12. SumOver(g[z], T) \in Int /\ SumOver(col(W), T) \in Int /\ SumOver(col(V), T) \in Int
    <3>1. \A y \in T : g[z][y] \in Int
      BY <1>0, <2>5
    <3>2. \A y \in T : col(W)[y] \in Int
      BY <2>7
    <3>3. \A y \in T : col(V)[y] \in Int
      BY <2>7, <3>1
    <3> QED
      BY <3>1, <3>2, <3>3, SumIsInt
  <2> QED
    BY <2>3, <2>6, <2>9, <2>10, <2>11, <2>12
<1> QED
  BY <1>2, <1>3

\* Every element of S is of one kind.
LEMMA SumByKind ==
  ASSUME NEW S, NEW K, IsFiniteSet(S), IsFiniteSet(K), NEW kind, \A x \in S : kind[x] \in K,
         NEW g, \A x \in S : g[x] \in Int,
         NEW part, \A k \in K : part[k] = {x \in S : kind[x] = k},
         NEW f, \A k \in K : f[k] = SumOver(g, part[k])
  PROVE  SumOver(f, K) = SumOver(g, S)
<1> DEFINE Of(V) == {x \in S : kind[x] \in V}
           B == {V \in SUBSET K : SumOver(f, V) # SumOver(g, Of(V))}
<1>1. Of(K) = S
  OBVIOUS
<1>2. CASE B = {}
  BY <1>1, <1>2
<1>3. CASE B # {}
  <2>1. \A V \in B : IsFiniteSet(V)
    BY FS_Subset
  <2>2. PICK V \in B : \A W \in B : W \subseteq V => W = V
    <3> HIDE DEF B
    <3> QED
      BY <1>3, <2>1, Smallest
  <2>3. V \subseteq K /\ IsFiniteSet(V) /\ SumOver(f, V) # SumOver(g, Of(V))
    BY <2>1, <2>2
  <2>4. V # {}
    <3> SUFFICES ASSUME V = {} PROVE FALSE
      OBVIOUS
    <3>1. Of(V) = {}
      OBVIOUS
    <3> QED
      BY <2>3, <3>1, SumOfNone
  <2> DEFINE z == Some(V)
             W == V \ {z}
             E == {x \in S : kind[x] = z}
  <2>5. z \in V /\ z \in K
    BY <2>3, <2>4, SomeIn
  <2>6. SumOver(f, V) = f[z] + SumOver(f, W)
    BY <2>3, <2>4, SumSteps
  <2> HIDE DEF z
  <2>7. W \subseteq K /\ W \subseteq V /\ W # V
    BY <2>3, <2>5
  <2>8. Of(V) = E \cup Of(W) /\ E \cap Of(W) = {}
    BY <2>5
  <2>9. IsFiniteSet(E) /\ IsFiniteSet(Of(W))
    BY FS_Subset
  <2>10. (\A x \in E \cup Of(W) : g[x] \in Int) /\ f[z] = SumOver(g, E)
    BY <2>5
  <2> HIDE DEF W, E, Of
  <2>11. SumOver(f, W) = SumOver(g, Of(W))
    BY <2>2, <2>7
  <2>12. SumOver(g, E \cup Of(W)) = SumOver(g, E) + SumOver(g, Of(W))
    BY <2>8, <2>9, <2>10, SumOfUnion
  <2> QED
    BY <2>3, <2>6, <2>8, <2>10, <2>11, <2>12
<1> QED
  BY <1>2, <1>3

-----------------------------------------------------------------------------
(* Months *)

LEMMA PassedIs ==
  /\ Passed[1] = 0 /\ Passed[2] = 31 /\ Passed[3] = 59 /\ Passed[4] = 90 /\ Passed[5] = 120
  /\ Passed[6] = 151 /\ Passed[7] = 181 /\ Passed[8] = 212 /\ Passed[9] = 243
  /\ Passed[10] = 273 /\ Passed[11] = 304 /\ Passed[12] = 334
  BY DEF Passed

\* The months of a year, one by one.
LEMMA YearIs ==
  ASSUME NEW y \in Int
  PROVE  /\ MonthStart(12 * y) = 365 * y + 1
         /\ MonthStart(12 * y + 1) = 365 * y + 32
         /\ MonthStart(12 * y + 2) = 365 * y + 60
         /\ MonthStart(12 * y + 3) = 365 * y + 91
         /\ MonthStart(12 * y + 4) = 365 * y + 121
         /\ MonthStart(12 * y + 5) = 365 * y + 152
         /\ MonthStart(12 * y + 6) = 365 * y + 182
         /\ MonthStart(12 * y + 7) = 365 * y + 213
         /\ MonthStart(12 * y + 8) = 365 * y + 244
         /\ MonthStart(12 * y + 9) = 365 * y + 274
         /\ MonthStart(12 * y + 10) = 365 * y + 305
         /\ MonthStart(12 * y + 11) = 365 * y + 335
         /\ MonthStart(12 * y + 12) = 365 * y + 366
<1>1. \A i \in 0 .. 11 : (12 * y + i) \div 12 = y /\ (12 * y + i) % 12 = i
  BY SMT
<1>2. \A i \in 0 .. 11 : MonthStart(12 * y + i) = 365 * y + Passed[i + 1] + 1
  BY <1>1 DEF MonthStart
<1>3. (12 * y + 12) \div 12 = y + 1 /\ (12 * y + 12) % 12 = 0
  BY SMT
<1>4. MonthStart(12 * y + 12) = 365 * y + 366
  BY <1>3, PassedIs DEF MonthStart
<1>5. QED
  BY <1>2, <1>4, PassedIs

LEMMA MonthIs ==
  ASSUME NEW m \in Int
  PROVE  \E y \in Int, i \in 0 .. 11 : m = 12 * y + i
<1>1. m \div 12 \in Int /\ m % 12 \in 0 .. 11 /\ m = 12 * (m \div 12) + (m % 12)
  BY SMT
<1>2. QED
  BY <1>1

\* A month has 28 to 31 days, and the next begins where it ends.
LEMMA MonthHas ==
  ASSUME NEW m \in Int
  PROVE  /\ MonthStart(m) \in Int /\ MonthLength(m) \in 28 .. 31
         /\ MonthStart(m + 1) = MonthStart(m) + MonthLength(m)
<1>1. PICK y \in Int, i \in 0 .. 11 : m = 12 * y + i
  BY MonthIs
<1>2. /\ MonthStart(m) \in Int /\ MonthStart(m + 1) \in Int
      /\ MonthStart(m + 1) - MonthStart(m) \in 28 .. 31
  BY <1>1, YearIs
<1>3. QED
  BY <1>2 DEF MonthLength

LEMMA MonthsApart ==
  ASSUME NEW m \in Int, NEW n \in Int, m <= n
  PROVE  MonthStart(n) >= MonthStart(m) + 28 * (n - m)
<1>1. \A k \in Int : \E y \in Int : /\ 12 * y <= k /\ k < 12 * y + 12
                                    /\ MonthStart(k) - 28 * k - 29 * y \in 1 .. 27
  <2> TAKE k \in Int
  <2>1. PICK y \in Int, i \in 0 .. 11 : k = 12 * y + i
    BY MonthIs
  <2>2. MonthStart(k) - 28 * k - 29 * y \in 1 .. 27
    BY <2>1, YearIs
  <2> QED
    BY <2>1, <2>2
<1>2. PICK a \in Int : /\ 12 * a <= m /\ m < 12 * a + 12
                       /\ MonthStart(m) - 28 * m - 29 * a \in 1 .. 27
  BY <1>1
<1>3. PICK b \in Int : /\ 12 * b <= n /\ n < 12 * b + 12
                       /\ MonthStart(n) - 28 * n - 29 * b \in 1 .. 27
  BY <1>1
<1>4. MonthStart(m) \in Int /\ MonthStart(n) \in Int
  BY MonthHas
<1>5. CASE a < b
  BY <1>2, <1>3, <1>4, <1>5
<1>6. CASE a = b
  <2>1. PICK i \in 0 .. 11, j \in 0 .. 11 : m = 12 * a + i /\ n = 12 * a + j /\ i <= j
    <3>1. m - 12 * a \in 0 .. 11 /\ n - 12 * a \in 0 .. 11
      BY <1>2, <1>3, <1>6
    <3>2. m = 12 * a + (m - 12 * a) /\ n = 12 * a + (n - 12 * a)
      BY <1>2, <1>3
    <3> QED
      BY <3>1, <3>2
  <2>2. QED
    BY <2>1, YearIs
<1>7. QED
  BY <1>2, <1>3, <1>5, <1>6

\* Every day is in one month.
LEMMA MonthOfIs ==
  ASSUME NEW d \in Nat \ {0}
  PROVE  /\ MonthOf(d) \in Nat
         /\ MonthStart(MonthOf(d)) <= d /\ d < MonthStart(MonthOf(d) + 1)
<1> DEFINE y == (d - 1) \div 365
           k == (d - 1) % 365
<1>1. y \in Nat /\ k \in 0 .. 364 /\ d = 365 * y + k + 1
  BY SMT
<1> HIDE DEF y, k
<1>2. PICK m \in Nat : MonthStart(m) <= d /\ d < MonthStart(m + 1)
  <2>1. \E i \in 0 .. 11 : MonthStart(12 * y + i) <= d /\ d < MonthStart(12 * y + i + 1)
    BY <1>1, YearIs
  <2>2. PICK i \in 0 .. 11 : MonthStart(12 * y + i) <= d /\ d < MonthStart(12 * y + i + 1)
    BY <2>1
  <2>3. 12 * y + i \in Nat
    BY <1>1
  <2> QED
    BY <2>2, <2>3
<1>3. MonthStart(0) = 1
  <2>1. 0 \div 12 = 0 /\ 0 % 12 = 0
    BY SMT
  <2> QED
    BY <2>1, PassedIs DEF MonthStart
<1>4. d >= 1 + 28 * m
  <2>1. MonthStart(m) >= MonthStart(0) + 28 * (m - 0)
    BY MonthsApart
  <2>2. MonthStart(m) \in Int
    BY MonthHas
  <2> QED
    BY <1>2, <1>3, <2>1, <2>2
<1>5. m \in 0 .. (d \div 28)
  BY <1>4
<1>6. \E n \in 0 .. (d \div 28) : MonthStart(n) <= d /\ d < MonthStart(n + 1)
  BY <1>2, <1>5
<1>7. QED
  BY <1>6 DEF MonthOf

LEMMA OneMonth ==
  ASSUME NEW d \in Nat \ {0}, NEW m \in Int, MonthStart(m) <= d, d < MonthStart(m + 1)
  PROVE  MonthOf(d) = m
<1> DEFINE n == MonthOf(d)
<1>1. n \in Nat /\ MonthStart(n) <= d /\ d < MonthStart(n + 1)
  BY MonthOfIs
<1> HIDE DEF n
<1>2. /\ MonthStart(m) \in Int /\ MonthStart(m + 1) \in Int
      /\ MonthStart(n) \in Int /\ MonthStart(n + 1) \in Int
  BY <1>1, MonthHas
<1>3. ~(n < m)
  <2>1. n < m => MonthStart(m) >= MonthStart(n + 1)
    <3> SUFFICES ASSUME n < m PROVE MonthStart(m) >= MonthStart(n + 1)
      OBVIOUS
    <3>1. MonthStart(m) >= MonthStart(n + 1) + 28 * (m - (n + 1))
      BY <1>1, MonthsApart
    <3> QED
      BY <1>1, <1>2, <3>1
  <2> QED
    BY <1>1, <1>2, <2>1
<1>4. ~(m < n)
  <2>1. m < n => MonthStart(n) >= MonthStart(m + 1)
    <3> SUFFICES ASSUME m < n PROVE MonthStart(n) >= MonthStart(m + 1)
      OBVIOUS
    <3>1. MonthStart(n) >= MonthStart(m + 1) + 28 * (n - (m + 1))
      BY <1>1, MonthsApart
    <3> QED
      BY <1>1, <1>2, <3>1
  <2> QED
    BY <1>1, <1>2, <2>1
<1>5. n = m
  BY <1>1, <1>3, <1>4
<1>6. QED
  BY <1>5 DEF n

-----------------------------------------------------------------------------
(* Day n of every month *)

LEMMA ClampIs ==
  ASSUME NEW m \in Int, NEW n \in 1 .. 31
  PROVE  /\ ClampDay(m, n) \in Int
         /\ MonthStart(m) <= ClampDay(m, n) /\ ClampDay(m, n) < MonthStart(m + 1)
  BY MonthHas DEF ClampDay

LEMMA ClampGrows ==
  ASSUME NEW m \in Int, NEW k \in Int, m < k, NEW n \in 1 .. 31
  PROVE  ClampDay(m, n) < MonthStart(k) /\ ClampDay(m, n) < ClampDay(k, n)
<1>1. MonthStart(k) >= MonthStart(m + 1) + 28 * (k - (m + 1))
  BY MonthsApart
<1>2. MonthStart(m + 1) \in Int /\ MonthStart(k) \in Int
  BY MonthHas
<1>3. /\ ClampDay(m, n) \in Int /\ ClampDay(m, n) < MonthStart(m + 1)
      /\ ClampDay(k, n) \in Int /\ MonthStart(k) <= ClampDay(k, n)
  BY ClampIs
<1>4. QED
  BY <1>1, <1>2, <1>3

\* Around the day n of month k.
LEMMA ClampsAround ==
  ASSUME NEW k \in Int, NEW n \in 1 .. 31
  PROVE  /\ ClampDay(k - 1, n) \in Int /\ ClampDay(k, n) \in Int /\ ClampDay(k + 1, n) \in Int
         /\ MonthStart(k) \in Int /\ MonthStart(k + 1) \in Int
         /\ ClampDay(k - 1, n) < MonthStart(k)
         /\ MonthStart(k) <= ClampDay(k, n) /\ ClampDay(k, n) < MonthStart(k + 1)
         /\ MonthStart(k + 1) <= ClampDay(k + 1, n)
<1>1. k - 1 \in Int /\ k + 1 \in Int /\ k - 1 < k
  OBVIOUS
<1>2. ClampDay(k - 1, n) \in Int /\ ClampDay(k - 1, n) < MonthStart(k)
  BY <1>1, ClampIs, ClampGrows
<1>3. ClampDay(k, n) \in Int /\ MonthStart(k) <= ClampDay(k, n) /\ ClampDay(k, n) < MonthStart(k + 1)
  BY ClampIs
<1>4. ClampDay(k + 1, n) \in Int /\ MonthStart(k + 1) <= ClampDay(k + 1, n)
  BY <1>1, ClampIs
<1>5. MonthStart(k) \in Int /\ MonthStart(k + 1) \in Int
  BY <1>1, MonthHas
<1>6. QED
  BY <1>2, <1>3, <1>4, <1>5

LEMMA ClampIn ==
  ASSUME NEW m \in Int, NEW n \in 1 .. 31, ClampDay(m, n) \in Nat \ {0}
  PROVE  MonthOf(ClampDay(m, n)) = m
  BY ClampIs, OneMonth

\* Between which two of them a day is.
LEMMA Between ==
  ASSUME NEW n \in 1 .. 31, NEW m \in Int, NEW k \in Int, NEW d \in Int,
         ClampDay(m, n) <= d, d < ClampDay(m + 1, n), ClampDay(k, n) <= d, d < ClampDay(k + 1, n)
  PROVE  m = k
<1>1. /\ ClampDay(m, n) \in Int /\ ClampDay(k, n) \in Int
      /\ ClampDay(m + 1, n) \in Int /\ ClampDay(k + 1, n) \in Int
  BY ClampsAround
<1>2. m < k => m + 1 = k \/ ClampDay(m + 1, n) < ClampDay(k, n)
  BY ClampGrows
<1>3. k < m => k + 1 = m \/ ClampDay(k + 1, n) < ClampDay(m, n)
  BY ClampGrows
<1>4. QED
  BY <1>1, <1>2, <1>3

LEMMA FirstAfterIs ==
  ASSUME NEW d \in Nat \ {0}, NEW n \in 1 .. 31
  PROVE  \E m \in Nat : /\ FirstAfter(d, n) = ClampDay(m, n)
                        /\ ClampDay(m - 1, n) <= d /\ d < ClampDay(m, n)
<1> DEFINE k == MonthOf(d)
<1>1. k \in Nat /\ MonthStart(k) <= d /\ d < MonthStart(k + 1)
  BY MonthOfIs
<1>2. FirstAfter(d, n) = IF ClampDay(k, n) > d THEN ClampDay(k, n) ELSE ClampDay(k + 1, n)
  BY DEF FirstAfter
<1> HIDE DEF k
<1>3. /\ ClampDay(k - 1, n) \in Int /\ ClampDay(k, n) \in Int /\ ClampDay(k + 1, n) \in Int
      /\ MonthStart(k) \in Int /\ MonthStart(k + 1) \in Int
      /\ ClampDay(k - 1, n) < MonthStart(k) /\ MonthStart(k + 1) <= ClampDay(k + 1, n)
  <2>1. k \in Int
    BY <1>1
  <2> QED
    BY <2>1, ClampsAround
<1>5. CASE ClampDay(k, n) > d
  <2>1. ClampDay(k - 1, n) <= d
    BY <1>1, <1>3
  <2> QED
    BY <1>1, <1>2, <1>5, <2>1
<1>6. CASE ~(ClampDay(k, n) > d)
  <2>1. /\ FirstAfter(d, n) = ClampDay(k + 1, n) /\ k + 1 \in Nat /\ (k + 1) - 1 = k
        /\ ClampDay(k, n) <= d /\ d < ClampDay(k + 1, n)
    BY <1>1, <1>2, <1>3, <1>6
  <2> QED
    BY <2>1
<1>7. QED
  BY <1>5, <1>6

LEMMA LastIs ==
  ASSUME NEW d \in Nat \ {0}, NEW n \in 1 .. 31
  PROVE  \E m \in Int : /\ m >= MonthOf(d) - 1
                        /\ LastOnOrBefore(d, n) = ClampDay(m, n)
                        /\ ClampDay(m, n) <= d /\ d < ClampDay(m + 1, n)
<1> DEFINE k == MonthOf(d)
<1>1. k \in Nat /\ MonthStart(k) <= d /\ d < MonthStart(k + 1)
  BY MonthOfIs
<1>2. LastOnOrBefore(d, n) = IF ClampDay(k, n) <= d THEN ClampDay(k, n) ELSE ClampDay(k - 1, n)
  BY DEF LastOnOrBefore
<1> HIDE DEF k
<1>3. /\ ClampDay(k - 1, n) \in Int /\ ClampDay(k, n) \in Int /\ ClampDay(k + 1, n) \in Int
      /\ MonthStart(k) \in Int /\ MonthStart(k + 1) \in Int
      /\ ClampDay(k - 1, n) < MonthStart(k) /\ MonthStart(k + 1) <= ClampDay(k + 1, n)
  <2>1. k \in Int
    BY <1>1
  <2> QED
    BY <2>1, ClampsAround
<1>5. CASE ClampDay(k, n) <= d
  <2>1. d < ClampDay(k + 1, n) /\ k \in Int /\ k >= k - 1
    BY <1>1, <1>3
  <2> QED
    BY <1>2, <1>5, <2>1 DEF k
<1>6. CASE ~(ClampDay(k, n) <= d)
  <2>1. /\ k - 1 \in Int /\ (k - 1) + 1 = k
        /\ ClampDay(k - 1, n) <= d /\ d < ClampDay(k, n)
    BY <1>1, <1>3, <1>6
  <2>2. k - 1 >= MonthOf(d) - 1
    BY <1>1 DEF k
  <2> QED
    BY <1>2, <1>6, <2>1, <2>2
<1>7. QED
  BY <1>5, <1>6

-----------------------------------------------------------------------------
(* Orders, and steps one after the other.  A fold of the library is        *)
(* computed by a function on the subsets of the indices, of which it takes *)
(* the highest out.                                                        *)

\* One that is before all others, under a total order given by its pairs.
LEMMA Foremost ==
  ASSUME NEW S, IsFiniteSet(S), S # {}, NEW R,
         \A x, y \in S : x # y => <<x, y>> \in R \/ <<y, x>> \in R,
         \A x, y, z \in S : <<x, y>> \in R /\ <<y, z>> \in R => <<x, z>> \in R
  PROVE  \E x \in S : \A y \in S : y # x => <<x, y>> \in R
<1> DEFINE Leads(x, V) == \A y \in V : y # x => <<x, y>> \in R
           B == {V \in SUBSET S : V # {} /\ \A x \in V : ~Leads(x, V)}
<1>1. CASE B = {}
  <2>1. S \notin B
    BY <1>1
  <2> QED
    BY <2>1
<1>2. CASE B # {}
  <2>1. \A V \in B : IsFiniteSet(V)
    BY FS_Subset
  <2>2. PICK V \in B : \A W \in B : W \subseteq V => W = V
    <3> HIDE DEF B
    <3> QED
      BY <1>2, <2>1, Smallest
  <2>3. V \subseteq S /\ V # {} /\ \A x \in V : ~Leads(x, V)
    BY <2>2
  <2>4. PICK x \in V : TRUE
    BY <2>3
  <2> DEFINE W == V \ {x}
  <2>5. CASE W = {}
    <3>1. Leads(x, V)
      BY <2>5
    <3> QED
      BY <2>3, <2>4, <3>1
  <2>6. CASE W # {}
    <3>1. W \notin B /\ W \subseteq S
      <4>1. W \subseteq V /\ W # V /\ W \subseteq S
        BY <2>3, <2>4
      <4> HIDE DEF B, W
      <4> QED
        BY <2>2, <4>1
    <3>2. PICK y \in W : Leads(y, W)
      BY <2>6, <3>1
    <3>3. x \in S /\ y \in S /\ x # y /\ y \in V
      BY <2>3, <2>4, <3>2
    <3>4. CASE <<y, x>> \in R
      <4>1. Leads(y, V)
        BY <3>2, <3>4
      <4> QED
        BY <2>3, <3>3, <4>1
    <3>5. CASE <<x, y>> \in R
      <4>1. ASSUME NEW z \in V, z # x PROVE <<x, z>> \in R
        <5>1. z \in W /\ z \in S
          BY <2>3, <4>1
        <5>2. z = y \/ <<y, z>> \in R
          BY <3>2, <5>1
        <5> QED
          BY <3>3, <3>5, <5>1, <5>2
      <4>2. Leads(x, V)
        BY <4>1
      <4> QED
        BY <2>3, <2>4, <4>2
    <3> QED
      BY <3>3, <3>4, <3>5
  <2> QED
    BY <2>5, <2>6
<1> QED
  BY <1>1, <1>2

Top(s) == CHOOSE x \in s : \A y \in s : x >= y

LEMMA TopIs ==
  ASSUME NEW S, IsFiniteSet(S), S # {}, S \subseteq Int
  PROVE  Top(S) \in S /\ \A y \in S : Top(S) >= y
<1> DEFINE R == {p \in S \X S : p[1] >= p[2]}
<1>1. \A x, y \in S : <<x, y>> \in R <=> x >= y
  OBVIOUS
<1>2. /\ \A x, y \in S : x # y => <<x, y>> \in R \/ <<y, x>> \in R
      /\ \A x, y, z \in S : <<x, y>> \in R /\ <<y, z>> \in R => <<x, z>> \in R
  <2> HIDE DEF R
  <2> QED
    BY <1>1
<1>3. PICK x \in S : \A y \in S : y # x => <<x, y>> \in R
  <2> HIDE DEF R
  <2> QED
    BY <1>2, Foremost
<1> HIDE DEF R
<1>4. \A y \in S : x >= y
  <2> TAKE y \in S
  <2>1. x \in Int /\ y \in Int /\ (<<x, y>> \in R <=> x >= y)
    BY <1>1
  <2>2. y = x \/ <<x, y>> \in R
    BY <1>3
  <2> QED
    BY <1>1, <2>1, <2>2
<1> QED
  BY <1>4 DEF Top

LEMMA TopOf ==
  ASSUME NEW n \in Nat, NEW t \in SUBSET (1 .. n), t # {} PROVE Top(t) \in 1 .. n /\ Top(t) \in t
<1>1. IsFiniteSet(1 .. n) /\ t \subseteq Int
  BY FS_Interval
<1>2. IsFiniteSet(t)
  BY <1>1, FS_Subset
<1> QED
  BY <1>1, <1>2, TopIs

\* From the beginning to the end, one step at a time.
LEMMA StepByStep ==
  ASSUME NEW n \in Nat, NEW G, 0 \in G, \A k \in 1 .. n : k - 1 \in G => k \in G
  PROVE  \A k \in 0 .. n : k \in G
<1> DEFINE N == {k \in 0 .. n : k \notin G}
<1>1. SUFFICES ASSUME N # {} PROVE FALSE
  OBVIOUS
<1>2. PICK m \in N : \A k \in N : <<k, m>> \notin OpToRel(<, Nat)
  <2>1. N \subseteq Nat
    OBVIOUS
  <2> HIDE DEF N
  <2> QED
    BY <1>1, <2>1, NatLessThanWellFounded, WFMin
<1>3. m \in 1 .. n /\ m \notin G
  <2>1. m \in 0 .. n /\ m \notin G
    OBVIOUS
  <2>2. m # 0
    BY <2>1
  <2> QED
    BY <2>1, <2>2
<1>4. m - 1 \in N
  BY <1>3
<1>5. <<m - 1, m>> \in OpToRel(<, Nat)
  BY <1>3 DEF OpToRel
<1> QED
  BY <1>2, <1>4, <1>5

RunsOn(st, d, n, h) ==
  h = [t \in SUBSET (1 .. n) |-> IF t = {} THEN d ELSE st[Top(t)][h[t \ {Top(t)}]]]

LEMMA Runs ==
  ASSUME NEW D, NEW d \in D, NEW n \in Nat, NEW st,
         \A k \in 1 .. n : \A e \in D : st[k][e] \in D
  PROVE  \E h : RunsOn(st, d, n, h) /\ \A t \in SUBSET (1 .. n) : h[t] \in D
<1> DEFINE Good(k, h) == RunsOn(st, d, k, h) /\ \A t \in SUBSET (1 .. k) : h[t] \in D
           G == {k \in 0 .. n : \E h : Good(k, h)}
<1>1. 0 \in G
  <2> DEFINE h == [t \in SUBSET (1 .. 0) |-> d]
  <2>1. \A t \in SUBSET (1 .. 0) : t = {}
    OBVIOUS
  <2>2. h = [t \in SUBSET (1 .. 0) |-> IF t = {} THEN d ELSE st[Top(t)][h[t \ {Top(t)}]]]
    BY <2>1
  <2>3. RunsOn(st, d, 0, h) /\ \A t \in SUBSET (1 .. 0) : h[t] \in D
    BY <2>2 DEF RunsOn
  <2> HIDE DEF h
  <2> QED
    BY <2>3
<1>2. ASSUME NEW k \in 1 .. n, k - 1 \in G PROVE k \in G
  <2>1. PICK h : Good(k - 1, h)
    BY <1>2
  <2> DEFINE g == [t \in SUBSET (1 .. k) |-> IF k \in t THEN st[k][h[t \ {k}]] ELSE h[t]]
  <2>2. h = [t \in SUBSET (1 .. k - 1) |-> IF t = {} THEN d ELSE st[Top(t)][h[t \ {Top(t)}]]]
    BY <2>1 DEF RunsOn
  <2>3. \A t \in SUBSET (1 .. k - 1) : h[t] = IF t = {} THEN d ELSE st[Top(t)][h[t \ {Top(t)}]]
    BY <2>2
  <2>4. \A t \in SUBSET (1 .. k) : k \notin t => t \in SUBSET (1 .. k - 1)
    OBVIOUS
  <2>5. \A t \in SUBSET (1 .. k) : g[t] \in D
    BY <2>1, <2>4
  <2>6. ASSUME NEW t \in SUBSET (1 .. k), t # {}
        PROVE  g[t] = st[Top(t)][g[t \ {Top(t)}]]
    <3>1. Top(t) \in t /\ \A y \in t : Top(t) >= y
      <4>1. IsFiniteSet(t) /\ t \subseteq Int
        <5>1. IsFiniteSet(1 .. k) /\ t \subseteq 1 .. k
          BY FS_Interval
        <5>2. IsFiniteSet(t)
          BY <5>1, FS_Subset
        <5>3. t \subseteq Int
          BY <5>1
        <5> QED
          BY <5>2, <5>3
      <4> QED
        BY <2>6, <4>1, TopIs
    <3>2. CASE k \in t
      <4>1. Top(t) = k
        <5>1. Top(t) \in 1 .. k /\ Top(t) >= k
          BY <3>1, <3>2
        <5> QED
          BY <5>1
      <4>2. t \ {k} \in SUBSET (1 .. k) /\ k \notin t \ {k}
        OBVIOUS
      <4>3. g[t \ {k}] = h[t \ {k}]
        BY <4>2
      <4> QED
        BY <3>2, <4>1, <4>3
    <3>3. CASE k \notin t
      <4>1. t \in SUBSET (1 .. k - 1) /\ t \ {Top(t)} \in SUBSET (1 .. k) /\ k \notin t \ {Top(t)}
        BY <2>4, <3>3
      <4>2. g[t] = h[t] /\ g[t \ {Top(t)}] = h[t \ {Top(t)}]
        BY <3>3, <4>1
      <4> HIDE DEF g
      <4> QED
        BY <2>3, <2>6, <4>1, <4>2
    <3> QED
      BY <3>2, <3>3
  <2>7. g[{}] = d
    BY <2>3
  <2>8. g = [t \in SUBSET (1 .. k) |-> g[t]]
    OBVIOUS
  <2> HIDE DEF g
  <2>9. g = [t \in SUBSET (1 .. k) |-> IF t = {} THEN d ELSE st[Top(t)][g[t \ {Top(t)}]]]
    BY <2>6, <2>7, <2>8
  <2>10. Good(k, g)
    BY <2>5, <2>9 DEF RunsOn
  <2> QED
    BY <2>10
<1>3. \A k \in 0 .. n : k \in G
  <2> HIDE DEF G
  <2> QED
    BY <1>1, <1>2, StepByStep
<1>4. n \in G
  <2> HIDE DEF G
  <2> QED
    BY <1>3
<1> QED
  BY <1>4

LEMMA UpTo ==
  ASSUME NEW n \in Nat, NEW k \in 1 .. n
  PROVE  /\ 1 .. k \in SUBSET (1 .. n) /\ 1 .. k # {}
         /\ Top(1 .. k) = k /\ (1 .. k) \ {k} = 1 .. k - 1
<1>1. 1 .. k \in SUBSET (1 .. n) /\ 1 .. k # {}
  <2>1. n \in Nat /\ k \in Nat /\ 1 <= k /\ k <= n
    OBVIOUS
  <2>2. k \in 1 .. k /\ 1 .. k \subseteq 1 .. n
    BY <2>1
  <2> QED
    BY <2>2
<1>2. Top(1 .. k) = k
  <2>1. k \in 1 .. k /\ \A y \in 1 .. k : k >= y
    OBVIOUS
  <2>2. \A x \in 1 .. k : (\A y \in 1 .. k : x >= y) => x = k
    OBVIOUS
  <2> QED
    BY <2>1, <2>2 DEF Top
<1>3. (1 .. k) \ {k} = 1 .. k - 1
  OBVIOUS
<1> QED
  BY <1>1, <1>2, <1>3

\* A function that takes the highest out each time goes through 1, 2, ..., n.
LEMMA Folded ==
  ASSUME NEW D, NEW n \in Nat, NEW c, c[{}] \in D, NEW st,
         \A k \in 1 .. n : \A e \in D : st[k][e] \in D,
         \A t \in SUBSET (1 .. n) :
            t # {} /\ c[t \ {Top(t)}] \in D => c[t] = st[Top(t)][c[t \ {Top(t)}]]
  PROVE  \A k \in 0 .. n : c[1 .. k] \in D
<1>1. ASSUME NEW k \in 1 .. n, c[1 .. k - 1] \in D PROVE c[1 .. k] \in D
  <2>1. c[1 .. k] = st[k][c[1 .. k - 1]]
    BY <1>1, UpTo
  <2> QED
    BY <1>1, <2>1
<1> DEFINE G == {k \in 0 .. n : c[1 .. k] \in D}
<1>2. 0 \in G
  <2>1. 1 .. 0 = {}
    OBVIOUS
  <2> QED
    BY <2>1
<1>3. \A k \in 1 .. n : k - 1 \in G => k \in G
  BY <1>1
<1>4. \A k \in 0 .. n : k \in G
  <2> HIDE DEF G
  <2> QED
    BY <1>2, <1>3, StepByStep
<1> QED
  BY <1>4

\* A finite set in the order given by pairs.
SortedBy(R, s, V) ==
  /\ s \in Bijection(1 .. Cardinality(V), V)
  /\ \A m, n \in DOMAIN s : m < n => <<s[m], s[n]>> \in R

LEMMA SortedExists ==
  ASSUME NEW S, IsFiniteSet(S), NEW R,
         \A x, y \in S : x # y => <<x, y>> \in R \/ <<y, x>> \in R,
         \A x, y, z \in S : <<x, y>> \in R /\ <<y, z>> \in R => <<x, z>> \in R
  PROVE  \E s : SortedBy(R, s, S)
<1> DEFINE B == {V \in SUBSET S : ~\E s : SortedBy(R, s, V)}
<1>1. CASE B = {}
  BY <1>1
<1>2. CASE B # {}
  <2>1. \A V \in B : IsFiniteSet(V)
    BY FS_Subset
  <2>2. PICK V \in B : \A W \in B : W \subseteq V => W = V
    <3> HIDE DEF B
    <3> QED
      BY <1>2, <2>1, Smallest
  <2>3. V \subseteq S /\ IsFiniteSet(V) /\ ~\E s : SortedBy(R, s, V)
    BY <2>1, <2>2
  <2>4. CASE V = {}
    <3> DEFINE s == [k \in 1 .. 0 |-> 0]
    <3>1. s \in Bijection(1 .. 0, {}) /\ DOMAIN s = {}
      BY DEF Bijection, Injection, IsInjective, Surjection
    <3>2. SortedBy(R, s, V)
      BY <2>4, <3>1, FS_EmptySet DEF SortedBy
    <3> QED
      BY <2>3, <3>2
  <2>5. CASE V # {}
    <3> DEFINE L == {p \in S \X S : <<p[2], p[1]>> \in R}
    <3>1. \A x, y \in S : <<x, y>> \in L <=> <<y, x>> \in R
      OBVIOUS
    <3>2. PICK x \in V : \A y \in V : y # x => <<x, y>> \in L
      <4>1. /\ \A y, z \in V : y # z => <<y, z>> \in L \/ <<z, y>> \in L
            /\ \A w, y, z \in V : <<w, y>> \in L /\ <<y, z>> \in L => <<w, z>> \in L
        <5> HIDE DEF L
        <5> QED
          BY <2>3, <3>1
      <4> HIDE DEF L
      <4> QED
        BY <2>3, <2>5, <4>1, Foremost
    <3>3. \A y \in V : y # x => <<y, x>> \in R
      BY <2>3, <3>1, <3>2
    <3> HIDE DEF L
    <3> DEFINE W == V \ {x}
               n == Cardinality(V)
    <3>4. IsFiniteSet(W) /\ Cardinality(W) = n - 1 /\ n \in Nat /\ n - 1 \in Nat
      <4>1. IsFiniteSet(W) /\ Cardinality(W) = n - 1
        BY <2>3, <3>2, FS_RemoveElement
      <4>2. Cardinality(W) \in Nat /\ n \in Nat
        BY <2>3, <4>1, FS_CardinalityType
      <4> QED
        BY <4>1, <4>2
    <3>5. W \notin B
      BY <2>2, <3>2
    <3>6. PICK s : SortedBy(R, s, W)
      BY <2>3, <3>5
    <3> HIDE DEF n
    <3>7. /\ s \in [1 .. n - 1 -> W]
          /\ \A j, k \in 1 .. n - 1 : s[j] = s[k] => j = k
          /\ \A y \in W : \E k \in 1 .. n - 1 : s[k] = y
          /\ \A j, k \in 1 .. n - 1 : j < k => <<s[j], s[k]>> \in R
      BY <3>4, <3>6 DEF SortedBy, Bijection, Injection, IsInjective, Surjection
    <3> DEFINE t == [k \in 1 .. n |-> IF k = n THEN x ELSE s[k]]
    <3>8. /\ t[n] = x /\ n \in 1 .. n
          /\ \A k \in 1 .. n : k = n \/ (k \in 1 .. n - 1 /\ t[k] = s[k] /\ t[k] \in W)
      BY <3>4, <3>7
    <3>9. t \in [1 .. n -> V]
      BY <3>2, <3>8
    <3>10. DOMAIN t = 1 .. n
      OBVIOUS
    <3> HIDE DEF t
    <3>11. \A j, k \in 1 .. n : t[j] = t[k] => j = k
      BY <3>7, <3>8
    <3>12. \A y \in V : \E k \in 1 .. n : t[k] = y
      <4> TAKE y \in V
      <4>1. CASE y = x
        BY <3>8, <4>1
      <4>2. CASE y # x
        <5>1. PICK k \in 1 .. n - 1 : s[k] = y
          BY <3>7, <4>2
        <5>2. k \in 1 .. n /\ k # n
          BY <3>4
        <5> QED
          BY <3>8, <5>1, <5>2
      <4> QED
        BY <4>1, <4>2
    <3>13. \A j, k \in 1 .. n : j < k => <<t[j], t[k]>> \in R
      <4> TAKE j \in 1 .. n, k \in 1 .. n
      <4> HAVE j < k
      <4>1. j \in 1 .. n - 1 /\ t[j] = s[j] /\ t[j] \in V /\ t[j] # x
        BY <3>4, <3>8
      <4>2. CASE k = n
        BY <3>3, <3>8, <4>1, <4>2
      <4>3. CASE k # n
        BY <3>7, <3>8, <4>1, <4>3
      <4> QED
        BY <4>2, <4>3
    <3>14. SortedBy(R, t, V)
      BY <3>9, <3>10, <3>11, <3>12, <3>13
         DEF SortedBy, Bijection, Injection, IsInjective, Surjection, n
    <3> QED
      BY <2>3, <3>14
  <2> QED
    BY <2>4, <2>5
<1> QED
  BY <1>1, <1>2

-----------------------------------------------------------------------------
(* FUNCTIONS ON SUBSETS THAT TAKE ELEMENTS OUT ONE BY ONE *)

\* A function on the subsets of S that takes the chosen element out each time.
TakesOut(st, ch, d, S, f) ==
  f = [s \in SUBSET S |-> IF s = {} THEN d ELSE st[ch[s]][f[s \ {ch[s]}]]]

LEMMA TakingOut ==
  ASSUME NEW S, IsFiniteSet(S), NEW ch, \A s \in SUBSET S : s # {} => ch[s] \in s,
         NEW D, NEW d \in D, NEW st, \A i \in S : \A e \in D : st[i][e] \in D
  PROVE  \E f : TakesOut(st, ch, d, S, f) /\ \A s \in SUBSET S : f[s] \in D
<1> DEFINE n == Cardinality(S)
           Eq(f, s) == f[s] = IF s = {} THEN d ELSE st[ch[s]][f[s \ {ch[s]}]]
           Good(k, f) == /\ f = [s \in SUBSET S |-> f[s]]
                         /\ \A s \in SUBSET S : f[s] \in D
                         /\ \A s \in SUBSET S : Cardinality(s) <= k => Eq(f, s)
           G == {k \in 0 .. n : \E f : Good(k, f)}
<1>1. n \in Nat
  BY FS_CardinalityType
<1>2. \A s \in SUBSET S : IsFiniteSet(s) /\ Cardinality(s) \in 0 .. n
  <2> TAKE s \in SUBSET S
  <2>1. IsFiniteSet(s) /\ Cardinality(s) <= n
    BY FS_Subset
  <2>2. Cardinality(s) \in Nat
    BY <2>1, FS_CardinalityType
  <2> QED
    BY <1>1, <2>1, <2>2
<1>3. \A s \in SUBSET S : s # {} => /\ s \ {ch[s]} \in SUBSET S
                                    /\ Cardinality(s \ {ch[s]}) = Cardinality(s) - 1
  <2> TAKE s \in SUBSET S
  <2> HAVE s # {}
  <2>1. IsFiniteSet(s) /\ ch[s] \in s
    BY <1>2
  <2>2. Cardinality(s \ {ch[s]}) = Cardinality(s) - 1
    BY <2>1, FS_RemoveElement
  <2> QED
    BY <2>2
<1>4. 0 \in G
  <2> DEFINE f == [s \in SUBSET S |-> d]
  <2>1. \A s \in SUBSET S : Cardinality(s) <= 0 => s = {}
    <3> TAKE s \in SUBSET S
    <3> HAVE Cardinality(s) <= 0
    <3>1. IsFiniteSet(s) /\ Cardinality(s) = 0
      BY <1>2
    <3> QED
      BY <3>1, FS_EmptySet
  <2>2. Good(0, f)
    BY <2>1
  <2> HIDE DEF f, Good
  <2> QED
    BY <1>1, <2>2
<1>5. ASSUME NEW k \in 1 .. n, k - 1 \in G PROVE k \in G
  <2>1. PICK f : Good(k - 1, f)
    BY <1>5
  <2> DEFINE g == [s \in SUBSET S |-> IF Cardinality(s) <= k - 1 THEN f[s]
                                      ELSE st[ch[s]][f[s \ {ch[s]}]]]
  <2>2. \A s \in SUBSET S : Cardinality(s) <= k - 1 => g[s] = f[s]
    OBVIOUS
  <2>3. \A s \in SUBSET S : ~(Cardinality(s) <= k - 1) =>
           /\ s # {} /\ g[s] = st[ch[s]][f[s \ {ch[s]}]]
    <3>1. Cardinality({}) = 0 /\ 0 <= k - 1
      BY FS_EmptySet
    <3> QED
      BY <3>1
  <2>4. g = [s \in SUBSET S |-> g[s]]
    OBVIOUS
  <2> HIDE DEF g
  <2>5. ASSUME NEW s \in SUBSET S PROVE g[s] \in D
    <3>1. CASE Cardinality(s) <= k - 1
      BY <2>1, <2>2, <3>1
    <3>2. CASE ~(Cardinality(s) <= k - 1)
      <4>1. s # {} /\ g[s] = st[ch[s]][f[s \ {ch[s]}]]
        BY <2>3, <3>2
      <4>2. ch[s] \in S /\ f[s \ {ch[s]}] \in D
        BY <1>3, <2>1, <4>1
      <4> QED
        BY <4>1, <4>2
    <3> QED
      BY <3>1, <3>2
  <2>6. ASSUME NEW s \in SUBSET S, Cardinality(s) <= k PROVE Eq(g, s)
    <3>1. s # {} => g[s \ {ch[s]}] = f[s \ {ch[s]}]
      <4>1. SUFFICES ASSUME s # {} PROVE g[s \ {ch[s]}] = f[s \ {ch[s]}]
        OBVIOUS
      <4>2. s \ {ch[s]} \in SUBSET S /\ Cardinality(s \ {ch[s]}) = Cardinality(s) - 1
        BY <1>3, <4>1
      <4>3. Cardinality(s) \in Nat /\ k \in Nat
        BY <1>1, <1>2
      <4> QED
        BY <2>2, <2>6, <4>2, <4>3
    <3>2. CASE Cardinality(s) <= k - 1
      <4>1. Eq(f, s) /\ g[s] = f[s]
        BY <2>1, <2>2, <3>2
      <4> QED
        BY <3>1, <4>1
    <3>3. CASE ~(Cardinality(s) <= k - 1)
      BY <2>3, <3>1, <3>3
    <3> QED
      BY <3>2, <3>3
  <2>7. Good(k, g)
    BY <2>4, <2>5, <2>6
  <2> HIDE DEF Good
  <2> QED
    BY <2>7
<1>6. \A k \in 0 .. n : k \in G
  <2> HIDE DEF G, n
  <2> QED
    BY <1>1, <1>4, <1>5, StepByStep
<1>7. PICK f : Good(n, f)
  <2>1. n \in 0 .. n
    BY <1>1
  <2> HIDE DEF Good
  <2> QED
    BY <1>6, <2>1
<1>8. \A s \in SUBSET S : Eq(f, s)
  <2> TAKE s \in SUBSET S
  <2>1. Cardinality(s) <= n
    BY <1>1, <1>2
  <2> HIDE DEF n, Eq
  <2> QED
    BY <1>7, <2>1
<1>9. f = [s \in SUBSET S |-> IF s = {} THEN d ELSE st[ch[s]][f[s \ {ch[s]}]]]
  BY <1>7, <1>8
<1> QED
  BY <1>7, <1>9 DEF TakesOut
=============================================================================
