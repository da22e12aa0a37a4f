-------------------------------- MODULE Sums --------------------------------
(***************************************************************************)
(* Sums over finite sets.  MapThenSumSet adds up in an order that CHOOSE   *)
(* fixes; what the proofs about quantities need is that the order does not *)
(* matter: nothing sums up to 0, and one more element adds its weight.     *)
(***************************************************************************)
EXTENDS Integers, FiniteSetTheorems, WellFoundedInduction, TLAPS

Pick(s) == CHOOSE x \in s : TRUE

(* The function by which MapThenSumSet is defined, over weights w. *)
IsSum(g, w, S) ==
  g = [s \in SUBSET S |-> IF s = {} THEN 0 ELSE w[Pick(s)] + g[s \ {Pick(s)}]]

Sum(w, S) == (CHOOSE g : IsSum(g, w, S))[S]

LEMMA PickInside ==
  ASSUME NEW s, s # {}
  PROVE  Pick(s) \in s
BY DEF Pick

LEMMA SumUnfold ==
  ASSUME NEW S, NEW w, NEW g, IsSum(g, w, S), NEW s \in SUBSET S
  PROVE  g[s] = IF s = {} THEN 0 ELSE w[Pick(s)] + g[s \ {Pick(s)}]
<1> DEFINE h == [r \in SUBSET S |-> IF r = {} THEN 0 ELSE w[Pick(r)] + g[r \ {Pick(r)}]]
<1>1. h[s] = IF s = {} THEN 0 ELSE w[Pick(s)] + g[s \ {Pick(s)}]
  OBVIOUS
<1>2. g = h
  BY DEF IsSum
<1> HIDE DEF h
<1> QED BY <1>1, <1>2

(* Induction over finite sets, as it is used below: among the subsets with *)
(* a property there is a smallest one.                                     *)
LEMMA SmallestSubset ==
  ASSUME NEW S, IsFiniteSet(S), NEW F, F \subseteq SUBSET S, F # {}
  PROVE  \E T \in F : \A U \in F : ~(U \subseteq T /\ U # T)
<1>1. IsWellFoundedOn(StrictSubsetOrdering(S), SUBSET S)
  BY FS_StrictSubsetOrderingWellFounded, FS_FiniteSubsetsOfFinite
<1>2. PICK T \in F : \A U \in F : ~(<<U, T>> \in StrictSubsetOrdering(S))
  BY <1>1, WFMin
<1>3. ASSUME NEW U \in F, U \subseteq T, U # T PROVE FALSE
  <2>1. <<U, T>> \in (SUBSET S) \X (SUBSET S)
    OBVIOUS
  <2>2. <<U, T>> \in StrictSubsetOrdering(S)
    BY <1>3, <2>1 DEF StrictSubsetOrdering
  <2> QED BY <1>2, <2>2
<1> QED BY <1>3

(* Two such functions agree where both are defined. *)
LEMMA SumUnique ==
  ASSUME NEW S, NEW T, IsFiniteSet(S), NEW w, NEW g, NEW h, IsSum(g, w, S), IsSum(h, w, T),
         NEW s \in SUBSET S, s \in SUBSET T
  PROVE  g[s] = h[s]
<1> DEFINE F == {r \in SUBSET S : r \in SUBSET T /\ g[r] # h[r]}
<1>1. SUFFICES ASSUME F # {} PROVE FALSE
  OBVIOUS
<1>a. F \subseteq SUBSET S
  OBVIOUS
<1> HIDE DEF F
<1>2. PICK r \in F : \A U \in F : ~(U \subseteq r /\ U # r)
  BY <1>1, <1>a, SmallestSubset
<1> USE DEF F
<1>b. r \in SUBSET S /\ r \in SUBSET T /\ g[r] # h[r]
  OBVIOUS
<1>3. /\ g[r] = IF r = {} THEN 0 ELSE w[Pick(r)] + g[r \ {Pick(r)}]
      /\ h[r] = IF r = {} THEN 0 ELSE w[Pick(r)] + h[r \ {Pick(r)}]
  BY <1>b, SumUnfold
<1>4. r # {}
  BY <1>b, <1>3
<1>5. r \ {Pick(r)} \subseteq r /\ r \ {Pick(r)} # r
  BY <1>4, PickInside
<1>6. g[r \ {Pick(r)}] = h[r \ {Pick(r)}]
  BY <1>2, <1>5
<1> QED BY <1>b, <1>3, <1>4, <1>6

LEMMA SumExists ==
  ASSUME NEW S, IsFiniteSet(S), NEW w
  PROVE  \E g : IsSum(g, w, S)
<1> DEFINE F == {r \in SUBSET S : ~\E g : IsSum(g, w, r)}
<1>1. SUFFICES ASSUME F # {} PROVE FALSE
  BY DEF F
<1>a. F \subseteq SUBSET S
  OBVIOUS
<1> HIDE DEF F
<1>2. PICK U \in F : \A V \in F : ~(V \subseteq U /\ V # U)
  BY <1>1, <1>a, SmallestSubset
<1> USE DEF F
<1> DEFINE G == [s \in SUBSET U |-> IF s = {} THEN 0 ELSE w[Pick(s)] + Sum(w, s \ {Pick(s)})]
<1>3. ASSUME NEW V \in SUBSET U, V # U
      PROVE  \E g : IsSum(g, w, V) /\ Sum(w, V) = g[V]
  <2>1. \E g : IsSum(g, w, V)
    BY <1>2, <1>3
  <2>2. IsSum(CHOOSE g : IsSum(g, w, V), w, V)
    BY <2>1
  <2> QED BY <2>2 DEF Sum
<1>4. ASSUME NEW V \in SUBSET U, V # U PROVE G[V] = Sum(w, V)
  <2>1. PICK g : IsSum(g, w, V) /\ Sum(w, V) = g[V]
    BY <1>3, <1>4
  <2>2. Sum(w, V) = IF V = {} THEN 0 ELSE w[Pick(V)] + g[V \ {Pick(V)}]
    BY <2>1, SumUnfold
  <2>3. ASSUME V # {} PROVE g[V \ {Pick(V)}] = Sum(w, V \ {Pick(V)})
    <3>0. V \ {Pick(V)} \in SUBSET U /\ V \ {Pick(V)} \in SUBSET V /\ V \ {Pick(V)} # U
      BY <1>4, <2>3, PickInside
    <3>1. PICK v \in SUBSET U : v = V \ {Pick(V)} /\ v \in SUBSET V /\ v # U
      BY <3>0
    <3>2. PICK h : IsSum(h, w, v) /\ Sum(w, v) = h[v]
      BY <1>3, <3>1
    <3>3. IsFiniteSet(V)
      BY FS_Subset
    <3>4. g[v] = h[v]
      BY <2>1, <3>1, <3>2, <3>3, SumUnique
    <3> QED BY <3>1, <3>2, <3>4
  <2>4. G[V] = IF V = {} THEN 0 ELSE w[Pick(V)] + Sum(w, V \ {Pick(V)})
    OBVIOUS
  <2> QED BY <2>2, <2>3, <2>4
<1>5. ASSUME NEW s \in SUBSET U, s # {} PROVE Sum(w, s \ {Pick(s)}) = G[s \ {Pick(s)}]
  <2>1. s \ {Pick(s)} \in SUBSET U /\ s \ {Pick(s)} # U
    BY <1>5, PickInside
  <2> QED BY <1>4, <2>1
<1>6. G = [s \in SUBSET U |-> IF s = {} THEN 0 ELSE w[Pick(s)] + G[s \ {Pick(s)}]]
  BY <1>5
<1>7. IsSum(G, w, U)
  BY <1>6 DEF IsSum
<1> QED BY <1>2, <1>7

LEMMA SumIs ==
  ASSUME NEW S, IsFiniteSet(S), NEW w, NEW T \in SUBSET S, NEW g, IsSum(g, w, S)
  PROVE  Sum(w, T) = g[T]
<1>1. IsFiniteSet(T)
  BY FS_Subset
<1>2. IsSum(CHOOSE h : IsSum(h, w, T), w, T)
  BY <1>1, SumExists
<1> QED BY <1>1, <1>2, SumUnique DEF Sum

LEMMA SumEmpty ==
  ASSUME NEW w
  PROVE  Sum(w, {}) = 0
<1>1. PICK g : IsSum(g, w, {})
  BY FS_EmptySet, SumExists
<1>2. g[{}] = 0
  BY <1>1, SumUnfold
<1> QED BY <1>1, <1>2, FS_EmptySet, SumIs

LEMMA SumStep ==
  ASSUME NEW S, IsFiniteSet(S), S # {}, NEW w
  PROVE  Sum(w, S) = w[Pick(S)] + Sum(w, S \ {Pick(S)})
<1>1. PICK g : IsSum(g, w, S)
  BY SumExists
<1>2. g[S] = w[Pick(S)] + g[S \ {Pick(S)}]
  BY <1>1, SumUnfold
<1>3. S \in SUBSET S /\ S \ {Pick(S)} \in SUBSET S
  OBVIOUS
<1> QED BY <1>1, <1>2, <1>3, SumIs

LEMMA SumType ==
  ASSUME NEW D, D = Nat \/ D = Int, NEW S, IsFiniteSet(S), NEW w, \A x \in S : w[x] \in D
  PROVE  Sum(w, S) \in D
<1> DEFINE F == {r \in SUBSET S : Sum(w, r) \notin D}
<1>1. SUFFICES ASSUME F # {} PROVE FALSE
  OBVIOUS
<1>2. F \subseteq SUBSET S
  OBVIOUS
<1> HIDE DEF F
<1>3. PICK r \in F : \A U \in F : ~(U \subseteq r /\ U # r)
  BY <1>1, <1>2, SmallestSubset
<1> USE DEF F
<1>4. r \in SUBSET S /\ Sum(w, r) \notin D
  OBVIOUS
<1>5. r # {}
  BY <1>4, SumEmpty
<1>6. r \ {Pick(r)} \in SUBSET S /\ r \ {Pick(r)} \subseteq r /\ r \ {Pick(r)} # r /\ Pick(r) \in S
  BY <1>4, <1>5, PickInside
<1>7. Sum(w, r \ {Pick(r)}) \in D
  BY <1>3, <1>6
<1>8. w[Pick(r)] \in D
  BY <1>6
<1>9. Sum(w, r) = w[Pick(r)] + Sum(w, r \ {Pick(r)})
  BY <1>4, <1>5, FS_Subset, SumStep
<1>10. w[Pick(r)] + Sum(w, r \ {Pick(r)}) \in D
  BY <1>7, <1>8
<1> QED BY <1>4, <1>9, <1>10

(* Whatever element comes last, it adds its weight. *)
LEMMA SumInsert ==
  ASSUME NEW S, IsFiniteSet(S), NEW w, NEW x, x \notin S, \A y \in S \cup {x} : w[y] \in Int
  PROVE  Sum(w, S \cup {x}) = w[x] + Sum(w, S)
<1> DEFINE R == S \cup {x}
           F == {T \in SUBSET R : \E y \in R \ T : Sum(w, T \cup {y}) # w[y] + Sum(w, T)}
<1>1. SUFFICES ASSUME F # {} PROVE FALSE
  <2>1. S \in SUBSET R /\ x \in R \ S
    OBVIOUS
  <2> QED BY <1>1, <2>1
<1>2. F \subseteq SUBSET R
  OBVIOUS
<1>3. IsFiniteSet(R) /\ \A y \in R : w[y] \in Int
  BY FS_AddElement
<1> HIDE DEF F, R
<1>4. PICK T \in F : \A U \in F : ~(U \subseteq T /\ U # T)
  BY <1>1, <1>2, <1>3, SmallestSubset
<1>5. T \in SUBSET R
  BY DEF F
<1>6. PICK y \in R \ T : Sum(w, T \cup {y}) # w[y] + Sum(w, T)
  BY DEF F
<1>7. ASSUME NEW U \in SUBSET T, U # T, NEW z \in R \ U
      PROVE  Sum(w, U \cup {z}) = w[z] + Sum(w, U)
  <2>1. U \in SUBSET R
    BY <1>5
  <2>2. U \notin F
    BY <1>4, <1>7
  <2> QED BY <2>1, <2>2 DEF F
<1>8. ASSUME NEW U \in SUBSET R PROVE IsFiniteSet(U) /\ Sum(w, U) \in Int
  <2>1. IsFiniteSet(U) /\ \A v \in U : w[v] \in Int
    BY <1>3, FS_Subset
  <2> QED BY <2>1, SumType
<1> DEFINE Ty == T \cup {y}
           z == Pick(Ty)
<1>9. z \in Ty /\ Ty \in SUBSET R /\ Sum(w, Ty) = w[z] + Sum(w, Ty \ {z})
  <2>1. Ty # {} /\ Ty \in SUBSET R
    BY <1>5, <1>6
  <2> QED BY <1>8, <2>1, PickInside, SumStep
<1> HIDE DEF z
<1>10. CASE z = y
  <2>1. Ty \ {z} = T
    BY <1>6, <1>10
  <2> QED BY <1>6, <1>9, <1>10, <2>1
<1>11. CASE z # y
  <2> DEFINE U == T \ {z}
  <2>1. z \in T /\ U \in SUBSET T /\ U # T /\ y \in R \ U /\ z \in R \ U
    BY <1>5, <1>6, <1>9, <1>11
  <2>2. Ty \ {z} = U \cup {y} /\ T = U \cup {z}
    BY <1>11, <2>1
  <2>3. Sum(w, U \cup {y}) = w[y] + Sum(w, U) /\ Sum(w, U \cup {z}) = w[z] + Sum(w, U)
    BY <1>7, <2>1
  <2>4. w[y] \in Int /\ w[z] \in Int /\ Sum(w, U) \in Int
    BY <1>3, <1>5, <1>8, <2>1
  <2>5. Sum(w, Ty) = w[z] + (w[y] + Sum(w, U)) /\ Sum(w, T) = w[z] + Sum(w, U)
    BY <1>9, <2>2, <2>3
  <2>6. Sum(w, Ty) = w[y] + Sum(w, T)
    BY <2>4, <2>5
  <2> QED BY <1>6, <2>6
<1> QED BY <1>10, <1>11

LEMMA SumRemove ==
  ASSUME NEW S, IsFiniteSet(S), NEW w, NEW x \in S, \A y \in S : w[y] \in Int
  PROVE  Sum(w, S \ {x}) = Sum(w, S) - w[x]
<1>1. IsFiniteSet(S \ {x}) /\ x \notin S \ {x} /\ S = (S \ {x}) \cup {x}
  BY FS_Subset
<1>2. Sum(w, S) = w[x] + Sum(w, S \ {x})
  BY <1>1, SumInsert
<1>3. Sum(w, S \ {x}) \in Int /\ w[x] \in Int
  BY <1>1, SumType
<1> QED BY <1>2, <1>3

(* With weights that are natural numbers a part weighs no more. *)
LEMMA SumMonotone ==
  ASSUME NEW S, IsFiniteSet(S), NEW w, \A x \in S : w[x] \in Nat, NEW T \in SUBSET S
  PROVE  Sum(w, T) <= Sum(w, S)
<1> DEFINE F == {U \in SUBSET S : T \subseteq U /\ ~(Sum(w, T) <= Sum(w, U))}
<1>1. SUFFICES ASSUME F # {} PROVE FALSE
  OBVIOUS
<1>2. F \subseteq SUBSET S
  OBVIOUS
<1> HIDE DEF F
<1>3. PICK U \in F : \A V \in F : ~(V \subseteq U /\ V # U)
  BY <1>1, <1>2, SmallestSubset
<1> USE DEF F
<1>4. U \in SUBSET S /\ T \subseteq U /\ ~(Sum(w, T) <= Sum(w, U))
  OBVIOUS
<1>5. ASSUME NEW V \in SUBSET S PROVE IsFiniteSet(V) /\ Sum(w, V) \in Nat
  <2>1. IsFiniteSet(V)
    BY FS_Subset
  <2> QED BY <2>1, SumType
<1>6. T # U
  BY <1>4, <1>5
<1>7. PICK x \in U : x \notin T
  BY <1>4, <1>6
<1>8. U \ {x} \in SUBSET S /\ T \subseteq U \ {x} /\ U \ {x} \subseteq U /\ U \ {x} # U
  BY <1>4, <1>7
<1>9. Sum(w, T) <= Sum(w, U \ {x})
  BY <1>3, <1>8
<1>10. Sum(w, U \ {x}) = Sum(w, U) - w[x]
  BY <1>4, <1>5, SumRemove
<1>11. w[x] \in Nat /\ Sum(w, U) \in Nat /\ Sum(w, T) \in Nat /\ Sum(w, U \ {x}) \in Nat
  BY <1>4, <1>5, <1>8
<1> QED BY <1>4, <1>9, <1>10, <1>11

=============================================================================
