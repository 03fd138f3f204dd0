----------------------------- MODULE FiniteSums -----------------------------
(***************************************************************************)
(* Sums of a function over a finite set (SumFunctionOnSet of Functions):   *)
(* the sum is taken apart one element at a time, in any order.  Induction  *)
(* over the finite subsets takes the form of a smallest counterexample,    *)
(* as strict inclusion is well-founded on them.  And what one element does *)
(* to a cardinality.                                                       *)
(***************************************************************************)
EXTENDS Integers, FiniteSets, Functions, FiniteSetTheorems, TLAPS

(* Two sets that differ in one element at most.                            *)
LEMMA CountChange ==
  ASSUME NEW S, IsFiniteSet(S), NEW A \in SUBSET S, NEW B \in SUBSET S, NEW x,
         A \ {x} = B \ {x}
  PROVE  /\ Cardinality(A) \in Nat /\ Cardinality(B) \in Nat
         /\ (x \in A <=> x \in B) => Cardinality(B) = Cardinality(A)
         /\ x \notin A /\ x \in B => Cardinality(B) = Cardinality(A) + 1
         /\ x \in A /\ x \notin B => Cardinality(B) = Cardinality(A) - 1
  <1>1. IsFiniteSet(A) /\ IsFiniteSet(B)
    BY FS_Subset
  <1>2. Cardinality(A) \in Nat /\ Cardinality(B) \in Nat
    BY <1>1, FS_CardinalityType
  <1>3. (x \in A <=> x \in B) => A = B
    OBVIOUS
  <1>4. x \notin A /\ x \in B => B = A \cup {x}
    OBVIOUS
  <1>5. x \in A /\ x \notin B => A = B \cup {x}
    OBVIOUS
  <1> QED BY <1>1, <1>2, <1>3, <1>4, <1>5, FS_AddElement

-----------------------------------------------------------------------------

(* A family of finite sets has a member that includes no other.            *)
LEMMA SmallestSet ==
  ASSUME NEW S, IsFiniteSet(S), NEW F \in SUBSET (SUBSET S), F # {}
  PROVE  \E T \in F : \A U \in F : U \subseteq T => U = T
  <1> DEFINE R == StrictSubsetOrdering(S)
  <1>1. IsWellFoundedOn(R, SUBSET S)
    BY FS_FiniteSubsetsOfFinite, FS_StrictSubsetOrderingWellFounded
  <1>2. \E T \in F : \A U \in F : ~ (<<U, T>> \in R)
    <2> HIDE DEF R
    <2> QED BY <1>1, WFMin
  <1> QED BY <1>2 DEF StrictSubsetOrdering

-----------------------------------------------------------------------------

(* The sum is a value of a function that is defined by recursion over the  *)
(* subsets.  One step of that recursion:                                   *)
Pick(s) == CHOOSE x \in s : TRUE

SumStep(f, g, s) == IF s = {} THEN 0 ELSE f[Pick(s)] + g[s \ {Pick(s)}]

Sums(f, S, g) == g = [s \in SUBSET S |-> SumStep(f, g, s)]

LEMMA SumIsChosen ==
  ASSUME NEW f, NEW S
  PROVE  SumFunctionOnSet(f, S) = (CHOOSE g : Sums(f, S, g))[S]
  BY DEF SumFunctionOnSet, FoldFunctionOnSet, MapThenFoldSet, Sums, SumStep, Pick

LEMMA PickIn ==
  ASSUME NEW s, s # {}
  PROVE  Pick(s) \in s
  BY DEF Pick

LEMMA SumsAt ==
  ASSUME NEW f, NEW S, NEW g, Sums(f, S, g), NEW s \in SUBSET S
  PROVE  g[s] = SumStep(f, g, s)
  BY Zenon DEF Sums


(* Two such functions agree wherever both are defined.                     *)
LEMMA SumsAgree ==
  ASSUME NEW f, NEW S, IsFiniteSet(S), NEW T, IsFiniteSet(T), NEW g, NEW h,
         Sums(f, S, g), Sums(f, T, h)
  PROVE  \A s \in SUBSET (S \cap T) : g[s] = h[s]
  <1> DEFINE F == {s \in SUBSET (S \cap T) : g[s] # h[s]}
  <1>1. F \in SUBSET (SUBSET S)
    OBVIOUS
  <1>2. SUFFICES ASSUME F # {} PROVE FALSE
    OBVIOUS
  <1>3. PICK s \in F : \A u \in F : u \subseteq s => u = s
    <2> HIDE DEF F
    <2> QED BY <1>1, <1>2, SmallestSet
  <1>4. s \in SUBSET (S \cap T) /\ g[s] # h[s]
    OBVIOUS
  <1>5. g[s] = SumStep(f, g, s) /\ h[s] = SumStep(f, h, s)
    BY <1>4, SumsAt
  <1>6. CASE s = {}
    BY <1>4, <1>5, <1>6 DEF SumStep
  <1>7. CASE s # {}
    <2> DEFINE u == s \ {Pick(s)}
    <2>1. u \subseteq s /\ u # s /\ u \in SUBSET (S \cap T)
      BY <1>4, <1>7, PickIn
    <2>2. g[u] = h[u]
      BY <1>3, <2>1
    <2> QED BY <1>4, <1>5, <1>7, <2>2 DEF SumStep
  <1> QED BY <1>6, <1>7

(* There is one for every finite set: at a set, go on from the function of *)
(* that set without one element.                                           *)
LEMMA SumsExist ==
  ASSUME NEW f, NEW S, IsFiniteSet(S)
  PROVE  \E g : Sums(f, S, g)
  <1> DEFINE F == {T \in SUBSET S : ~ \E g : Sums(f, T, g)}
             G(s) == CHOOSE g : Sums(f, s, g)
  <1>1. SUFFICES ASSUME F # {} PROVE FALSE
    <2>1. S \notin F
      BY <1>1
    <2> QED BY <2>1
  <1>2. F \in SUBSET (SUBSET S)
    OBVIOUS
  <1>3. PICK T \in F : \A U \in F : U \subseteq T => U = T
    <2> HIDE DEF F
    <2> QED BY <1>1, <1>2, SmallestSet
  <1>4. T \in SUBSET S /\ ~ \E g : Sums(f, T, g)
    OBVIOUS
  <1>5. \A U \in SUBSET T : IsFiniteSet(U)
    BY <1>4, FS_Subset
  <1>6. \A U \in SUBSET T : U # T => Sums(f, U, G(U))
    <2> SUFFICES ASSUME NEW U \in SUBSET T, U # T PROVE Sums(f, U, G(U))
      OBVIOUS
    <2>1. U \notin F /\ U \in SUBSET S
      BY <1>3, <1>4
    <2>2. \E g : Sums(f, U, g)
      BY <2>1
    <2> QED BY <2>2
  <1> HIDE DEF F, G
  <1> DEFINE Before(s) == G(s \ {Pick(s)})[s \ {Pick(s)}]
             h == [s \in SUBSET T |-> IF s = {} THEN 0 ELSE f[Pick(s)] + Before(s)]
  <1>7. \A s \in SUBSET T : s # {} => h[s \ {Pick(s)}] = Before(s)
    <2> SUFFICES ASSUME NEW s \in SUBSET T, s # {}
                 PROVE  h[s \ {Pick(s)}] = Before(s)
      OBVIOUS
    <2> DEFINE u == s \ {Pick(s)}
    <2>1. u \in SUBSET T /\ u # T
      BY PickIn
    <2>2. Sums(f, u, G(u))
      BY <1>6, <2>1
    <2>3. G(u)[u] = SumStep(f, G(u), u)
      BY <2>2, SumsAt
    <2>4. CASE u = {}
      BY <2>1, <2>3, <2>4 DEF SumStep
    <2>5. CASE u # {}
      <3> DEFINE v == u \ {Pick(u)}
      <3>1. v \in SUBSET T /\ v # T /\ v \subseteq u
        BY <2>1
      <3>2. Sums(f, v, G(v))
        BY <1>6, <3>1
      <3>3. G(u)[v] = G(v)[v]
        <4>1. IsFiniteSet(u) /\ IsFiniteSet(v)
          BY <1>5, <2>1, <3>1
        <4>2. \A g, k : Sums(f, u, g) /\ Sums(f, v, k)
                        => \A w \in SUBSET (u \cap v) : g[w] = k[w]
          <5> HIDE DEF u, v
          <5> QED BY <4>1, SumsAgree
        <4>3. \A w \in SUBSET (u \cap v) : G(u)[w] = G(v)[w]
          BY <2>2, <3>2, <4>2
        <4> QED BY <3>1, <4>3
      <3>4. h[u] = f[Pick(u)] + Before(u)
        BY <2>1, <2>5
      <3>5. G(u)[u] = f[Pick(u)] + G(u)[v]
        BY <2>3, <2>5 DEF SumStep
      <3> QED BY <3>3, <3>4, <3>5
    <2> QED BY <2>4, <2>5
  <1>8. \A s \in SUBSET T : h[s] = SumStep(f, h, s)
    <2> SUFFICES ASSUME NEW s \in SUBSET T PROVE h[s] = SumStep(f, h, s)
      OBVIOUS
    <2>1. h[s] = IF s = {} THEN 0 ELSE f[Pick(s)] + Before(s)
      OBVIOUS
    <2> HIDE DEF h, Before
    <2> QED BY <1>7, <2>1 DEF SumStep
  <1>9. h = [s \in SUBSET T |-> h[s]]
    OBVIOUS
  <1>10. h = [s \in SUBSET T |-> SumStep(f, h, s)]
    <2> HIDE DEF h
    <2> QED BY <1>8, <1>9
  <1> HIDE DEF h
  <1> QED BY <1>4, <1>10 DEF Sums

LEMMA SumByAny ==
  ASSUME NEW f, NEW S, IsFiniteSet(S), NEW g, Sums(f, S, g)
  PROVE  \A T \in SUBSET S : SumFunctionOnSet(f, T) = g[T]
  <1> SUFFICES ASSUME NEW T \in SUBSET S PROVE SumFunctionOnSet(f, T) = g[T]
    OBVIOUS
  <1> DEFINE h == CHOOSE h : Sums(f, T, h)
  <1>1. IsFiniteSet(T)
    BY FS_Subset
  <1>2. Sums(f, T, h)
    BY <1>1, SumsExist
  <1>3. SumFunctionOnSet(f, T) = h[T]
    BY SumIsChosen
  <1> HIDE DEF h
  <1>4. \A s \in SUBSET (S \cap T) : g[s] = h[s]
    BY <1>1, <1>2, SumsAgree
  <1> QED BY <1>3, <1>4

(* The recursion itself.                                                   *)
LEMMA SumRecursion ==
  ASSUME NEW f, NEW S, IsFiniteSet(S)
  PROVE  SumFunctionOnSet(f, S) =
           IF S = {} THEN 0
           ELSE f[Pick(S)] + SumFunctionOnSet(f, S \ {Pick(S)})
  <1>1. PICK g : Sums(f, S, g)
    BY SumsExist
  <1>2. g[S] = SumStep(f, g, S)
    BY <1>1, SumsAt
  <1>3. \A T \in SUBSET S : SumFunctionOnSet(f, T) = g[T]
    BY <1>1, SumByAny
  <1>4. S \in SUBSET S /\ S \ {Pick(S)} \in SUBSET S
    OBVIOUS
  <1> QED BY <1>2, <1>3, <1>4 DEF SumStep

-----------------------------------------------------------------------------

LEMMA EmptySum ==
  ASSUME NEW f
  PROVE  SumFunctionOnSet(f, {}) = 0
  BY SumRecursion, FS_EmptySet

(* Any element may be taken first.                                         *)
LEMMA SumSplit ==
  ASSUME NEW f, NEW S, IsFiniteSet(S), \A s \in S : f[s] \in Int
  PROVE  /\ SumFunctionOnSet(f, S) \in Int
         /\ \A x \in S : SumFunctionOnSet(f, S) = f[x] + SumFunctionOnSet(f, S \ {x})
  <1> DEFINE Good(T) ==
               /\ SumFunctionOnSet(f, T) \in Int
               /\ \A x \in T :
                    SumFunctionOnSet(f, T) = f[x] + SumFunctionOnSet(f, T \ {x})
             F == {T \in SUBSET S : ~Good(T)}
  <1>1. SUFFICES ASSUME F # {} PROVE FALSE
    <2>1. S \notin F
      BY <1>1
    <2>2. Good(S)
      BY <2>1
    <2> QED BY <2>2
  <1>2. F \in SUBSET (SUBSET S)
    OBVIOUS
  <1>3. PICK T \in F : \A U \in F : U \subseteq T => U = T
    <2> HIDE DEF F
    <2> QED BY <1>1, <1>2, SmallestSet
  <1>4. T \in SUBSET S /\ ~Good(T)
    OBVIOUS
  <1>5. \A U \in SUBSET T : IsFiniteSet(U) /\ (U # T => Good(U))
    <2> SUFFICES ASSUME NEW U \in SUBSET T PROVE IsFiniteSet(U) /\ (U # T => Good(U))
      OBVIOUS
    <2>1. IsFiniteSet(U)
      BY <1>4, FS_Subset
    <2>2. U # T => U \notin F
      BY <1>3
    <2> QED BY <1>4, <2>1, <2>2
  <1> HIDE DEF F
  <1>6. CASE T = {}
    BY <1>4, <1>6, EmptySum
  <1>7. CASE T # {}
    <2> DEFINE p == Pick(T)
               Sum(U) == SumFunctionOnSet(f, U)
    <2>1. p \in T /\ f[p] \in Int
      BY <1>4, <1>7, PickIn
    <2>2. Sum(T) = f[p] + Sum(T \ {p})
      BY <1>5, <1>7, SumRecursion
    <2>3. Good(T \ {p})
      BY <1>5, <2>1
    <2>4. Sum(T) \in Int
      BY <2>1, <2>2, <2>3
    <2>5. ASSUME NEW x \in T PROVE Sum(T) = f[x] + Sum(T \ {x})
      <3>1. CASE x = p
        BY <2>2, <3>1
      <3>2. CASE x # p
        <4> DEFINE rest == (T \ {p}) \ {x}
        <4>1. rest = (T \ {x}) \ {p} /\ x \in T \ {p} /\ p \in T \ {x}
          BY <2>1, <3>2
        <4>2. Good(T \ {x})
          BY <1>5
        <4>3. Good(rest)
          BY <1>5, <2>1
        <4>4. Sum(T \ {p}) = f[x] + Sum(rest)
          BY <2>3, <4>1
        <4>5. Sum(T \ {x}) = f[p] + Sum(rest)
          BY <4>1, <4>2
        <4>6. f[x] \in Int /\ Sum(rest) \in Int
          BY <1>4, <4>3
        <4> HIDE DEF Good, Sum, p, rest
        <4> QED BY <2>1, <2>2, <4>4, <4>5, <4>6
      <3> QED BY <3>1, <3>2
    <2> QED BY <1>4, <2>4, <2>5
  <1> QED BY <1>6, <1>7

LEMMA SumAdd ==
  ASSUME NEW f, NEW S, IsFiniteSet(S), NEW x, x \notin S,
         \A s \in S \cup {x} : f[s] \in Int
  PROVE  SumFunctionOnSet(f, S \cup {x}) = f[x] + SumFunctionOnSet(f, S)
  <1>1. IsFiniteSet(S \cup {x})
    BY FS_AddElement
  <1>2. (S \cup {x}) \ {x} = S
    OBVIOUS
  <1> QED BY <1>1, <1>2, SumSplit

(* Sums of functions that agree on the set are the same.                   *)
LEMMA SumSame ==
  ASSUME NEW f, NEW g, NEW S, IsFiniteSet(S), \A s \in S : f[s] = g[s]
  PROVE  SumFunctionOnSet(f, S) = SumFunctionOnSet(g, S)
  <1> DEFINE F == {T \in SUBSET S : SumFunctionOnSet(f, T) # SumFunctionOnSet(g, T)}
  <1>1. SUFFICES ASSUME F # {} PROVE FALSE
    BY <1>1
  <1>2. F \in SUBSET (SUBSET S)
    OBVIOUS
  <1>3. PICK T \in F : \A U \in F : U \subseteq T => U = T
    <2> HIDE DEF F
    <2> QED BY <1>1, <1>2, SmallestSet
  <1>4. T \in SUBSET S /\ SumFunctionOnSet(f, T) # SumFunctionOnSet(g, T)
    OBVIOUS
  <1>5. IsFiniteSet(T)
    BY <1>4, FS_Subset
  <1>6. T # {}
    BY <1>4, EmptySum
  <1>7. Pick(T) \in T /\ T \ {Pick(T)} \in SUBSET S /\ T \ {Pick(T)} # T
    BY <1>4, <1>6, PickIn
  <1>8. SumFunctionOnSet(f, T \ {Pick(T)}) = SumFunctionOnSet(g, T \ {Pick(T)})
    BY <1>3, <1>7
  <1> QED BY <1>4, <1>5, <1>6, <1>7, <1>8, SumRecursion

LEMMA ZeroSum ==
  ASSUME NEW f, NEW S, IsFiniteSet(S), \A s \in S : f[s] = 0
  PROVE  SumFunctionOnSet(f, S) = 0
  <1> DEFINE F == {T \in SUBSET S : SumFunctionOnSet(f, T) # 0}
  <1>1. SUFFICES ASSUME F # {} PROVE FALSE
    BY <1>1
  <1>2. F \in SUBSET (SUBSET S)
    OBVIOUS
  <1>3. PICK T \in F : \A U \in F : U \subseteq T => U = T
    <2> HIDE DEF F
    <2> QED BY <1>1, <1>2, SmallestSet
  <1>4. T \in SUBSET S /\ SumFunctionOnSet(f, T) # 0
    OBVIOUS
  <1>5. IsFiniteSet(T)
    BY <1>4, FS_Subset
  <1>6. T # {}
    BY <1>4, EmptySum
  <1>7. Pick(T) \in T /\ T \ {Pick(T)} \in SUBSET S /\ T \ {Pick(T)} # T
    BY <1>4, <1>6, PickIn
  <1>8. SumFunctionOnSet(f, T \ {Pick(T)}) = 0
    BY <1>3, <1>7
  <1> QED BY <1>4, <1>5, <1>6, <1>7, <1>8, SumRecursion

(* One summand changes.                                                    *)
LEMMA SumChange ==
  ASSUME NEW f, NEW g, NEW S, IsFiniteSet(S), NEW x \in S,
         \A s \in S : f[s] \in Int /\ g[s] \in Int,
         \A s \in S \ {x} : f[s] = g[s]
  PROVE  SumFunctionOnSet(g, S) = SumFunctionOnSet(f, S) - f[x] + g[x]
  <1> DEFINE rest == S \ {x}
  <1>1. IsFiniteSet(rest)
    BY FS_Subset
  <1>2. SumFunctionOnSet(f, rest) = SumFunctionOnSet(g, rest)
    BY <1>1, SumSame
  <1>3. SumFunctionOnSet(f, rest) \in Int
    BY <1>1, SumSplit
  <1>4. /\ SumFunctionOnSet(f, S) = f[x] + SumFunctionOnSet(f, rest)
        /\ SumFunctionOnSet(g, S) = g[x] + SumFunctionOnSet(g, rest)
    BY SumSplit
  <1>5. f[x] \in Int /\ g[x] \in Int
    OBVIOUS
  <1> HIDE DEF rest
  <1> QED BY <1>2, <1>3, <1>4, <1>5

(* Summands that fall, or stay, make the sum fall or stay.                 *)
LEMMA SumMonotone ==
  ASSUME NEW f, NEW g, NEW S, IsFiniteSet(S),
         \A s \in S : f[s] \in Int /\ g[s] \in Int /\ f[s] <= g[s]
  PROVE  SumFunctionOnSet(f, S) <= SumFunctionOnSet(g, S)
  <1> DEFINE F == {T \in SUBSET S :
                     ~(SumFunctionOnSet(f, T) <= SumFunctionOnSet(g, T))}
  <1>1. SUFFICES ASSUME F # {} PROVE FALSE
    BY <1>1
  <1>2. F \in SUBSET (SUBSET S)
    OBVIOUS
  <1>3. PICK T \in F : \A U \in F : U \subseteq T => U = T
    <2> HIDE DEF F
    <2> QED BY <1>1, <1>2, SmallestSet
  <1>4. T \in SUBSET S /\ ~(SumFunctionOnSet(f, T) <= SumFunctionOnSet(g, T))
    OBVIOUS
  <1>5. IsFiniteSet(T)
    BY <1>4, FS_Subset
  <1>6. T # {}
    BY <1>4, EmptySum
  <1> DEFINE p == Pick(T)
             U == T \ {p}
  <1>7. p \in T /\ U \in SUBSET S /\ U # T /\ U \subseteq T /\ IsFiniteSet(U)
    BY <1>4, <1>5, <1>6, PickIn, FS_Subset
  <1>8. SumFunctionOnSet(f, U) <= SumFunctionOnSet(g, U)
    BY <1>3, <1>7
  <1>9. SumFunctionOnSet(f, U) \in Int /\ SumFunctionOnSet(g, U) \in Int
    BY <1>7, SumSplit
  <1>10. /\ SumFunctionOnSet(f, T) = f[p] + SumFunctionOnSet(f, U)
         /\ SumFunctionOnSet(g, T) = g[p] + SumFunctionOnSet(g, U)
    BY <1>5, <1>6, SumRecursion
  <1>11. f[p] \in Int /\ g[p] \in Int /\ f[p] <= g[p]
    BY <1>4, <1>7
  <1> HIDE DEF p, U
  <1> QED BY <1>4, <1>8, <1>9, <1>10, <1>11

(* The sum over two parts of the set.                                      *)
LEMMA SumParts ==
  ASSUME NEW f, NEW S, IsFiniteSet(S), NEW A \in SUBSET S, NEW B, B = S \ A,
         \A s \in S : f[s] \in Int
  PROVE  SumFunctionOnSet(f, S) = SumFunctionOnSet(f, A) + SumFunctionOnSet(f, B)
  <1> DEFINE Good(T) == SumFunctionOnSet(f, T) =
                          SumFunctionOnSet(f, T \cap A) + SumFunctionOnSet(f, T \ A)
             F == {T \in SUBSET S : ~Good(T)}
  <1>1. SUFFICES ASSUME F # {} PROVE FALSE
    <2>1. S \notin F
      BY <1>1
    <2>2. Good(S)
      BY <2>1
    <2>3. S \cap A = A
      OBVIOUS
    <2> QED BY <2>2, <2>3
  <1>2. F \in SUBSET (SUBSET S)
    OBVIOUS
  <1>3. PICK T \in F : \A U \in F : U \subseteq T => U = T
    <2> HIDE DEF F
    <2> QED BY <1>1, <1>2, SmallestSet
  <1>4. T \in SUBSET S /\ ~Good(T)
    OBVIOUS
  <1>5. T # {}
    <2> SUFFICES ASSUME T = {} PROVE FALSE
      OBVIOUS
    <2>1. T \cap A = {} /\ T \ A = {}
      OBVIOUS
    <2>2. /\ SumFunctionOnSet(f, T) = 0
          /\ SumFunctionOnSet(f, T \cap A) = 0 /\ SumFunctionOnSet(f, T \ A) = 0
      BY <2>1, EmptySum, Zenon
    <2> QED BY <1>4, <2>2
  <1> DEFINE x == Pick(T)
             U == T \ {x}
  <1>6. x \in T /\ U \in SUBSET S /\ U # T /\ U \subseteq T
    BY <1>4, <1>5, PickIn
  <1>7. Good(U)
    BY <1>3, <1>6
  <1>8. /\ IsFiniteSet(T) /\ IsFiniteSet(U)
        /\ IsFiniteSet(T \cap A) /\ IsFiniteSet(T \ A)
        /\ IsFiniteSet(U \cap A) /\ IsFiniteSet(U \ A)
    BY <1>4, <1>6, FS_Subset
  <1>9. /\ SumFunctionOnSet(f, T) = f[x] + SumFunctionOnSet(f, U)
        /\ SumFunctionOnSet(f, U \cap A) \in Int /\ SumFunctionOnSet(f, U \ A) \in Int
        /\ SumFunctionOnSet(f, U) \in Int /\ f[x] \in Int
    BY <1>4, <1>6, <1>8, SumSplit
  <1> HIDE DEF x
  <1>10. CASE x \in A
    <2>1. T \ A = U \ A /\ (T \cap A) \ {x} = U \cap A /\ x \in T \cap A
      BY <1>6, <1>10
    <2>2. SumFunctionOnSet(f, T \cap A) = f[x] + SumFunctionOnSet(f, U \cap A)
      <3>1. \A s \in T \cap A : f[s] \in Int
        BY <1>4
      <3> QED BY <1>8, <2>1, <3>1, SumSplit
    <2>3. SumFunctionOnSet(f, T \ A) = SumFunctionOnSet(f, U \ A)
      BY <2>1, Zenon
    <2> HIDE DEF U
    <2> QED BY <1>4, <1>7, <1>9, <2>2, <2>3
  <1>11. CASE x \notin A
    <2>1. T \cap A = U \cap A /\ (T \ A) \ {x} = U \ A /\ x \in T \ A
      BY <1>6, <1>11
    <2>2. SumFunctionOnSet(f, T \ A) = f[x] + SumFunctionOnSet(f, U \ A)
      <3>1. \A s \in T \ A : f[s] \in Int
        BY <1>4
      <3> QED BY <1>8, <2>1, <3>1, SumSplit
    <2>3. SumFunctionOnSet(f, T \cap A) = SumFunctionOnSet(f, U \cap A)
      BY <2>1, Zenon
    <2> HIDE DEF U
    <2> QED BY <1>4, <1>7, <1>9, <2>2, <2>3
  <1> QED BY <1>10, <1>11

(* Something is added to each summand.                                     *)
LEMMA SumOfSums ==
  ASSUME NEW f, NEW g, NEW h, NEW S, IsFiniteSet(S),
         \A s \in S : f[s] \in Int /\ g[s] \in Int /\ h[s] = f[s] + g[s]
  PROVE  SumFunctionOnSet(h, S) = SumFunctionOnSet(f, S) + SumFunctionOnSet(g, S)
  <1> DEFINE Good(T) == SumFunctionOnSet(h, T) =
                          SumFunctionOnSet(f, T) + SumFunctionOnSet(g, T)
             F == {T \in SUBSET S : ~Good(T)}
  <1>1. SUFFICES ASSUME F # {} PROVE FALSE
    BY <1>1
  <1>2. F \in SUBSET (SUBSET S)
    OBVIOUS
  <1>3. PICK T \in F : \A U \in F : U \subseteq T => U = T
    <2> HIDE DEF F
    <2> QED BY <1>1, <1>2, SmallestSet
  <1>4. T \in SUBSET S /\ ~Good(T)
    OBVIOUS
  <1>5. T # {}
    BY <1>4, EmptySum
  <1> DEFINE x == Pick(T)
             U == T \ {x}
  <1>6. x \in T /\ U \in SUBSET S /\ U # T /\ U \subseteq T
    BY <1>4, <1>5, PickIn
  <1>7. Good(U)
    BY <1>3, <1>6
  <1>8. IsFiniteSet(T) /\ IsFiniteSet(U)
    BY <1>4, <1>6, FS_Subset
  <1>9. f[x] \in Int /\ g[x] \in Int /\ h[x] = f[x] + g[x]
    BY <1>4, <1>6
  <1>10. /\ SumFunctionOnSet(f, T) = f[x] + SumFunctionOnSet(f, U)
         /\ SumFunctionOnSet(g, T) = g[x] + SumFunctionOnSet(g, U)
         /\ SumFunctionOnSet(h, T) = h[x] + SumFunctionOnSet(h, U)
    BY <1>5, <1>8, SumRecursion
  <1>11. SumFunctionOnSet(f, U) \in Int /\ SumFunctionOnSet(g, U) \in Int
    <2>1. \A s \in U : f[s] \in Int /\ g[s] \in Int
      BY <1>6
    <2> QED BY <1>8, <2>1, SumSplit
  <1> HIDE DEF x, U
  <1> QED BY <1>4, <1>7, <1>9, <1>10, <1>11

(* No summand exceeds b.                                                   *)
LEMMA SumAtMost ==
  ASSUME NEW f, NEW S, IsFiniteSet(S), NEW b \in Int,
         \A s \in S : f[s] \in Int /\ f[s] <= b
  PROVE  SumFunctionOnSet(f, S) <= Cardinality(S) * b
  <1> DEFINE Good(T) == SumFunctionOnSet(f, T) <= Cardinality(T) * b
             F == {T \in SUBSET S : ~Good(T)}
  <1>1. SUFFICES ASSUME F # {} PROVE FALSE
    BY <1>1
  <1>2. F \in SUBSET (SUBSET S)
    OBVIOUS
  <1>3. PICK T \in F : \A U \in F : U \subseteq T => U = T
    <2> HIDE DEF F
    <2> QED BY <1>1, <1>2, SmallestSet
  <1>4. T \in SUBSET S /\ ~Good(T)
    OBVIOUS
  <1>5. T # {}
    BY <1>4, EmptySum, FS_EmptySet
  <1> DEFINE x == Pick(T)
             U == T \ {x}
  <1>6. x \in T /\ U \in SUBSET S /\ U # T /\ U \subseteq T
    BY <1>4, <1>5, PickIn
  <1>7. Good(U)
    BY <1>3, <1>6
  <1>8. IsFiniteSet(T) /\ IsFiniteSet(U)
    BY <1>4, <1>6, FS_Subset
  <1>9. f[x] \in Int /\ f[x] <= b
    BY <1>4, <1>6
  <1>10. SumFunctionOnSet(f, T) = f[x] + SumFunctionOnSet(f, U)
    BY <1>5, <1>8, SumRecursion
  <1>11. SumFunctionOnSet(f, U) \in Int
    <2>1. \A s \in U : f[s] \in Int
      BY <1>6
    <2> QED BY <1>8, <2>1, SumSplit
  <1>12. Cardinality(U) = Cardinality(T) - 1 /\ Cardinality(T) \in Nat
    BY <1>6, <1>8, FS_RemoveElement, FS_CardinalityType
  <1> DEFINE n == Cardinality(T)
  <1>13. Cardinality(U) * b = n * b - b /\ n \in Int
    BY <1>12
  <1>14. n * b \in Int
    <2> HIDE DEF n
    <2> QED BY <1>13
  <1> HIDE DEF x, U
  <1> QED BY <1>4, <1>7, <1>9, <1>10, <1>11, <1>13, <1>14

(* Among finitely many there is one with the least value.                  *)
LEMMA LeastValue ==
  ASSUME NEW S, IsFiniteSet(S), S # {}, NEW f, \A s \in S : f[s] \in Int
  PROVE  \E k \in S : \A j \in S : f[k] <= f[j]
  <1> DEFINE Good(T) == \E k \in T : \A j \in T : f[k] <= f[j]
             F == {T \in SUBSET S : T # {} /\ ~Good(T)}
  <1>1. SUFFICES ASSUME F # {} PROVE FALSE
    BY <1>1
  <1>2. F \in SUBSET (SUBSET S)
    OBVIOUS
  <1>3. PICK T \in F : \A U \in F : U \subseteq T => U = T
    <2> HIDE DEF F
    <2> QED BY <1>1, <1>2, SmallestSet
  <1>4. PICK x \in T : TRUE
    OBVIOUS
  <1> DEFINE U == T \ {x}
  <1>5. f[x] \in Int /\ \A j \in U : f[j] \in Int
    OBVIOUS
  <1>6. CASE U = {}
    <2>1. Good(T)
      BY <1>4, <1>5, <1>6
    <2> QED BY <2>1
  <1>7. CASE U # {}
    <2>1. Good(U)
      <3>1. U \in SUBSET S /\ U \subseteq T /\ U # T
        OBVIOUS
      <3>2. U \notin F
        <4> HIDE DEF F
        <4> QED BY <1>3, <3>1
      <3> QED BY <1>7, <3>1, <3>2
    <2>2. PICK k \in U : \A j \in U : f[k] <= f[j]
      BY <2>1
    <2>3. CASE f[k] <= f[x]
      BY <2>2, <2>3
    <2>4. CASE f[x] <= f[k]
      <3>1. \A j \in U : f[x] <= f[j]
        BY <1>5, <2>2, <2>4
      <3>2. \A j \in T : f[x] <= f[j]
        BY <1>5, <3>1
      <3> QED BY <1>4, <3>2
    <2> QED BY <1>5, <2>3, <2>4
  <1> QED BY <1>6, <1>7

=============================================================================
