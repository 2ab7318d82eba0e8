----------------------------- MODULE FiniteSums -----------------------------
(***************************************************************************)
(* Facts about the sum of a function over a finite set (SumFunctionOnSet   *)
(* and SumFunction of Functions), and counting by parts.  They are what    *)
(* the all_reduce of the mesh, the ranges of the global dofs and the       *)
(* offsets of the rows rest on.  Every induction is on the smallest set    *)
(* for which the claim would fail.                                         *)
(***************************************************************************)
EXTENDS Integers, FiniteSets, Functions, FiniteSetTheorems,
        WellFoundedInduction, TLAPS

(* Every set of natural numbers that is not empty has a least element      *)
LEMMA LeastNatural ==
  ASSUME NEW S \in SUBSET Nat, S # {}
  PROVE  \E x \in S : \A y \in S : x <= y
<1> DEFINE R == {s \in Nat \X Nat : s[1] < s[2]}
<1>1. R = OpToRel(<, Nat)
  BY DEF OpToRel
<1>2. IsWellFoundedOn(R, Nat)
  BY <1>1, NatLessThanWellFounded
<1>3. \E x \in S : \A y \in S : <<y, x>> \notin R
  <2> HIDE DEF R
  <2> QED BY <1>2, WFMin
<1>4. PICK x \in S : \A y \in S : <<y, x>> \notin R
  BY <1>3
<1>5. ASSUME NEW y \in S PROVE x <= y
  <2>1. ~ (y < x)
    BY <1>4
  <2>. QED BY <2>1
<1>. QED BY <1>5

(* Among some subsets of a finite set one has no other one inside          *)
LEMMA SmallestSubset ==
  ASSUME NEW S, IsFiniteSet(S), NEW Bad \in SUBSET SUBSET S, Bad # {}
  PROVE  \E T \in Bad : \A U \in Bad : U \subseteq T => U = T
<1>1. FiniteSubsetsOf(S) = SUBSET S
  BY FS_FiniteSubsetsOfFinite
<1>2. IsWellFoundedOn(StrictSubsetOrdering(S), SUBSET S)
  BY <1>1, FS_StrictSubsetOrderingWellFounded
<1>3. PICK T \in Bad : \A U \in Bad : ~(<<U, T>> \in StrictSubsetOrdering(S))
  BY <1>2, WFMin
<1>4. ASSUME NEW U \in Bad, U \subseteq T PROVE U = T
  BY <1>3, <1>4 DEF StrictSubsetOrdering
<1>. QED BY <1>4

(* What holds of the empty set and stays true when an element is added     *)
(* holds of a finite set                                                   *)
LEMMA GrowingSets ==
  ASSUME NEW S, IsFiniteSet(S), NEW Good,
         {} \in Good,
         \A T \in SUBSET S : \A x \in S \ T : T \in Good => T \cup {x} \in Good
  PROVE  S \in Good
<1> DEFINE Bad == {T \in SUBSET S : T \notin Good}
<1>1. SUFFICES ASSUME S \notin Good PROVE FALSE
  OBVIOUS
<1>2. Bad # {} /\ Bad \in SUBSET SUBSET S
  BY <1>1
<1>3. PICK T \in Bad : \A U \in Bad : U \subseteq T => U = T
  <2> HIDE DEF Bad
  <2>. QED BY <1>2, SmallestSubset
<1>4. PICK x \in T : TRUE
  BY <1>3
<1>5. T \ {x} \in Good /\ T \ {x} \in SUBSET S /\ x \in S \ (T \ {x})
  BY <1>3, <1>4
<1>6. (T \ {x}) \cup {x} = T
  BY <1>4
<1>7. T \in Good
  BY <1>5, <1>6
<1>. QED BY <1>3, <1>7

(* The values of a function on a finite set                                *)
LEMMA FiniteImage ==
  ASSUME NEW S, IsFiniteSet(S), NEW f
  PROVE  /\ IsFiniteSet({f[x] : x \in S})
         /\ Cardinality({f[x] : x \in S}) <= Cardinality(S)
<1> DEFINE g == [x \in S |-> f[x]]
<1>1. g \in Surjection(S, {f[x] : x \in S})
  BY DEF Surjection
<1>. QED BY <1>1, FS_Surjection

-----------------------------------------------------------------------------
(* The sum is well defined                                                 *)

SumOver(F, g, s) ==
  IF s = {} THEN 0 ELSE F[CHOOSE x \in s : TRUE] + g[s \ {CHOOSE x \in s : TRUE}]

Sums(F, S, g) == g = [s \in SUBSET S |-> SumOver(F, g, s)]

LEMMA SumIsChosen ==
  ASSUME NEW F, NEW S
  PROVE  SumFunctionOnSet(F, S) = (CHOOSE g : Sums(F, S, g))[S]
BY DEF SumFunctionOnSet, FoldFunctionOnSet, MapThenFoldSet, Sums, SumOver

LEMMA SumsAgree ==
  ASSUME NEW F, NEW S, NEW T, NEW g, NEW h, Sums(F, S, g), Sums(F, T, h),
         NEW s, IsFiniteSet(s), s \subseteq S, s \subseteq T
  PROVE  g[s] = h[s]
<1> DEFINE Bad == {U \in SUBSET s : g[U] # h[U]}
<1>1. SUFFICES ASSUME Bad # {} PROVE FALSE
  OBVIOUS
<1>2. PICK U \in Bad : \A V \in Bad : V \subseteq U => V = U
  <2>1. Bad \in SUBSET SUBSET s
    OBVIOUS
  <2> HIDE DEF Bad
  <2>. QED BY <1>1, <2>1, SmallestSubset
<1>3. U \in SUBSET S /\ U \in SUBSET T /\ g[U] # h[U] /\ U \subseteq s
  BY <1>2
<1>4. g[U] = SumOver(F, g, U) /\ h[U] = SumOver(F, h, U)
  BY <1>3 DEF Sums
<1>5. U # {}
  BY <1>3, <1>4 DEF SumOver
<1>6. PICK x \in U : x = CHOOSE y \in U : TRUE
  BY <1>5
<1>7. g[U \ {x}] = h[U \ {x}]
  BY <1>2, <1>3, <1>6
<1>. QED BY <1>3, <1>4, <1>6, <1>7 DEF SumOver

LEMMA SumsRestrict ==
  ASSUME NEW F, NEW S, NEW g, Sums(F, S, g), NEW T \in SUBSET S
  PROVE  Sums(F, T, [s \in SUBSET T |-> g[s]])
<1> DEFINE h == [s \in SUBSET T |-> g[s]]
<1>1. ASSUME NEW s \in SUBSET T PROVE h[s] = SumOver(F, h, s)
  <2>1. s \in SUBSET S /\ h[s] = g[s]
    OBVIOUS
  <2>2. g[s] = SumOver(F, g, s)
    BY <2>1 DEF Sums
  <2>3. s # {} => s \ {CHOOSE x \in s : TRUE} \in SUBSET T
    OBVIOUS
  <2>. QED BY <2>1, <2>2, <2>3 DEF SumOver
<1>2. h = [s \in SUBSET T |-> SumOver(F, h, s)]
  BY <1>1
<1>. QED BY <1>2 DEF Sums

(* When the partial sums of a set exist, its sum is one of them            *)
LEMMA SumIsOne ==
  ASSUME NEW F, NEW S, IsFiniteSet(S), NEW g, Sums(F, S, g), NEW T \in SUBSET S
  PROVE  SumFunctionOnSet(F, T) = g[T]
<1>1. Sums(F, T, [s \in SUBSET T |-> g[s]])
  BY SumsRestrict
<1>2. PICK h : Sums(F, T, h) /\ SumFunctionOnSet(F, T) = h[T]
  BY <1>1, SumIsChosen
<1>3. IsFiniteSet(T)
  BY FS_Subset
<1>4. h[T] = g[T]
  BY <1>2, <1>3, SumsAgree
<1>. QED BY <1>2, <1>4

LEMMA SumsExist ==
  ASSUME NEW F, NEW S, IsFiniteSet(S)
  PROVE  \E g : Sums(F, S, g)
<1> DEFINE Bad == {T \in SUBSET S : \A g : ~Sums(F, T, g)}
<1>1. SUFFICES ASSUME Bad # {} PROVE FALSE
  OBVIOUS
<1>2. PICK T \in Bad : \A U \in Bad : U \subseteq T => U = T
  <2>1. Bad \in SUBSET SUBSET S
    OBVIOUS
  <2> HIDE DEF Bad
  <2>. QED BY <1>1, <2>1, SmallestSubset
<1>3. T \in SUBSET S /\ \A g : ~Sums(F, T, g)
  BY <1>2
<1>4. \A U \in SUBSET T : U # T => \E g : Sums(F, U, g)
  BY <1>2, <1>3
<1> DEFINE Sum(U) == SumFunctionOnSet(F, U)
           x(U) == CHOOSE y \in U : TRUE
           h == [U \in SUBSET T |->
                   IF U = {} THEN 0 ELSE F[x(U)] + Sum(U \ {x(U)})]
<1>5. \A U \in SUBSET T : U # {} => x(U) \in U
  OBVIOUS
<1>6. ASSUME NEW U \in SUBSET T, U # T PROVE Sum(U) = h[U]
  <2>1. PICK g : Sums(F, U, g)
    BY <1>4, <1>6
  <2>2. IsFiniteSet(U)
    BY <1>3, FS_Subset
  <2>3. Sum(U) = g[U]
    BY <2>1, <2>2, SumIsOne
  <2>4. g[U] = SumOver(F, g, U)
    BY <2>1 DEF Sums
  <2>5. U # {} => g[U \ {x(U)}] = Sum(U \ {x(U)})
    BY <2>1, <2>2, SumIsOne
  <2>. QED BY <2>3, <2>4, <2>5 DEF SumOver
<1>7. ASSUME NEW U \in SUBSET T PROVE h[U] = SumOver(F, h, U)
  <2>1. CASE U = {}
    BY <2>1 DEF SumOver
  <2>2. CASE U # {}
    <3>1. x(U) \in U
      BY <1>5, <2>2
    <3>2. U \ {x(U)} \in SUBSET T /\ U \ {x(U)} # T
      BY <3>1
    <3>3. Sum(U \ {x(U)}) = h[U \ {x(U)}]
      <4> HIDE DEF h, Sum, x
      <4>. QED BY <1>6, <3>2
    <3>4. h[U] = F[x(U)] + Sum(U \ {x(U)})
      BY <2>2
    <3>. QED BY <2>2, <3>3, <3>4 DEF SumOver
  <2>. QED BY <2>1, <2>2
<1>8. h = [U \in SUBSET T |-> SumOver(F, h, U)]
  BY <1>7
<1>9. Sums(F, T, h)
  BY <1>8 DEF Sums
<1>. QED BY <1>3, <1>9

-----------------------------------------------------------------------------
(* Computing a sum                                                         *)

LEMMA SumEmpty ==
  ASSUME NEW F
  PROVE  SumFunctionOnSet(F, {}) = 0
<1>1. IsFiniteSet({})
  BY FS_EmptySet
<1>2. PICK g : Sums(F, {}, g)
  BY <1>1, SumsExist
<1>3. SumFunctionOnSet(F, {}) = g[{}]
  BY <1>1, <1>2, SumIsOne
<1>. QED BY <1>2, <1>3 DEF Sums, SumOver

(* One element, chosen by the sum, is taken out                            *)
LEMMA SumOneOut ==
  ASSUME NEW F, NEW S, IsFiniteSet(S), S # {}
  PROVE  \E x \in S : SumFunctionOnSet(F, S) = F[x] + SumFunctionOnSet(F, S \ {x})
<1>1. PICK g : Sums(F, S, g)
  BY SumsExist
<1>2. PICK x \in S : x = CHOOSE y \in S : TRUE
  OBVIOUS
<1>3. SumFunctionOnSet(F, S) = g[S] /\ SumFunctionOnSet(F, S \ {x}) = g[S \ {x}]
  BY <1>1, SumIsOne
<1>4. g[S] = F[x] + g[S \ {x}]
  BY <1>1, <1>2 DEF Sums, SumOver
<1>. QED BY <1>3, <1>4

LEMMA SumInt ==
  ASSUME NEW F, NEW S, IsFiniteSet(S), \A x \in S : F[x] \in Int
  PROVE  SumFunctionOnSet(F, S) \in Int
<1> DEFINE Bad == {T \in SUBSET S : SumFunctionOnSet(F, T) \notin Int}
<1>1. SUFFICES ASSUME Bad # {} PROVE FALSE
  OBVIOUS
<1>2. PICK T \in Bad : \A U \in Bad : U \subseteq T => U = T
  <2>1. Bad \in SUBSET SUBSET S
    OBVIOUS
  <2> HIDE DEF Bad
  <2>. QED BY <1>1, <2>1, SmallestSubset
<1>3. T \in SUBSET S /\ SumFunctionOnSet(F, T) \notin Int /\ IsFiniteSet(T)
  BY <1>2, FS_Subset
<1>4. T # {}
  BY <1>3, SumEmpty
<1>5. PICK x \in T : SumFunctionOnSet(F, T) = F[x] + SumFunctionOnSet(F, T \ {x})
  BY <1>3, <1>4, SumOneOut
<1>6. SumFunctionOnSet(F, T \ {x}) \in Int
  BY <1>2, <1>3
<1>. QED BY <1>3, <1>5, <1>6

(* Any element can be the one taken out                                    *)
LEMMA SumTakeOut ==
  ASSUME NEW F, NEW S, IsFiniteSet(S), \A x \in S : F[x] \in Int, NEW z \in S
  PROVE  SumFunctionOnSet(F, S) = F[z] + SumFunctionOnSet(F, S \ {z})
<1> DEFINE Sum(T) == SumFunctionOnSet(F, T)
           Bad == {T \in SUBSET S : \E y \in T : Sum(T) # F[y] + Sum(T \ {y})}
<1>1. SUFFICES ASSUME Bad # {} PROVE FALSE
  OBVIOUS
<1>2. PICK T \in Bad : \A U \in Bad : U \subseteq T => U = T
  <2>1. Bad \in SUBSET SUBSET S
    OBVIOUS
  <2> HIDE DEF Bad
  <2>. QED BY <1>1, <2>1, SmallestSubset
<1>3. T \in SUBSET S /\ IsFiniteSet(T)
  BY <1>2, FS_Subset
<1>4. PICK y \in T : Sum(T) # F[y] + Sum(T \ {y})
  BY <1>2
<1>5. PICK x \in T : Sum(T) = F[x] + Sum(T \ {x})
  BY <1>3, <1>4, SumOneOut
<1>6. x # y
  BY <1>4, <1>5
<1>7. \A U \in SUBSET T : U # T => \A u \in U : Sum(U) = F[u] + Sum(U \ {u})
  BY <1>2, <1>3
<1>8. Sum(T \ {x}) = F[y] + Sum((T \ {x}) \ {y})
  BY <1>5, <1>6, <1>7
<1>9. Sum(T \ {y}) = F[x] + Sum((T \ {x}) \ {y})
  <2>1. Sum(T \ {y}) = F[x] + Sum((T \ {y}) \ {x})
    BY <1>4, <1>6, <1>7
  <2>2. (T \ {y}) \ {x} = (T \ {x}) \ {y}
    OBVIOUS
  <2>. QED BY <2>1, <2>2, Zenon
<1>10. F[x] \in Int /\ F[y] \in Int
  BY <1>3
<1>11. Sum((T \ {x}) \ {y}) \in Int
  <2>1. (T \ {x}) \ {y} \in SUBSET S
    BY <1>3
  <2>2. IsFiniteSet((T \ {x}) \ {y})
    BY <2>1, FS_Subset
  <2>. QED BY <2>1, <2>2, SumInt
<1>12. F[x] + Sum(T \ {x}) = F[y] + Sum(T \ {y})
  BY <1>8, <1>9, <1>10, <1>11
<1>. QED BY <1>4, <1>5, <1>12

LEMMA SumAddTo ==
  ASSUME NEW F, NEW S, IsFiniteSet(S), NEW z, z \notin S, F[z] \in Int,
         \A x \in S : F[x] \in Int
  PROVE  SumFunctionOnSet(F, S \cup {z}) = F[z] + SumFunctionOnSet(F, S)
<1>1. IsFiniteSet(S \cup {z}) /\ z \in S \cup {z} /\ (S \cup {z}) \ {z} = S
  BY FS_AddElement
<1>2. \A x \in S \cup {z} : F[x] \in Int
  OBVIOUS
<1>. QED BY <1>1, <1>2, SumTakeOut

LEMMA SumNat ==
  ASSUME NEW F, NEW S, IsFiniteSet(S), \A x \in S : F[x] \in Nat
  PROVE  SumFunctionOnSet(F, S) \in Nat
<1> DEFINE Good == {T \in SUBSET S : SumFunctionOnSet(F, T) \in Nat}
<1>1. {} \in Good
  BY SumEmpty
<1>2. ASSUME NEW T \in SUBSET S, NEW z \in S \ T, T \in Good
      PROVE  T \cup {z} \in Good
  <2>1. IsFiniteSet(T) /\ z \notin T /\ F[z] \in Int /\ \A x \in T : F[x] \in Int
    BY FS_Subset
  <2>2. SumFunctionOnSet(F, T \cup {z}) = F[z] + SumFunctionOnSet(F, T)
    BY <2>1, SumAddTo
  <2>3. F[z] \in Nat /\ SumFunctionOnSet(F, T) \in Nat
    BY <1>2
  <2>. QED BY <2>2, <2>3
<1>3. S \in Good
  <2> HIDE DEF Good
  <2>. QED BY <1>1, <1>2, GrowingSets
<1>. QED BY <1>3

(* Only the values on the set count                                        *)
LEMMA SumSame ==
  ASSUME NEW F, NEW G, NEW S, IsFiniteSet(S), \A x \in S : F[x] \in Int /\ F[x] = G[x]
  PROVE  SumFunctionOnSet(F, S) = SumFunctionOnSet(G, S)
<1> DEFINE Good == {T \in SUBSET S : SumFunctionOnSet(F, T) = SumFunctionOnSet(G, T)}
<1>1. {} \in Good
  BY SumEmpty
<1>2. ASSUME NEW T \in SUBSET S, NEW z \in S \ T, T \in Good
      PROVE  T \cup {z} \in Good
  <2>1. /\ IsFiniteSet(T) /\ z \notin T /\ F[z] \in Int /\ \A x \in T : F[x] \in Int
        /\ G[z] \in Int /\ \A x \in T : G[x] \in Int
    BY FS_Subset
  <2>2. /\ SumFunctionOnSet(F, T \cup {z}) = F[z] + SumFunctionOnSet(F, T)
        /\ SumFunctionOnSet(G, T \cup {z}) = G[z] + SumFunctionOnSet(G, T)
    BY <2>1, SumAddTo
  <2>. QED BY <1>2, <2>2
<1>3. S \in Good
  <2> HIDE DEF Good
  <2>. QED BY <1>1, <1>2, GrowingSets
<1>. QED BY <1>3

LEMMA SumDisjoint ==
  ASSUME NEW F, NEW S, NEW T, IsFiniteSet(S), IsFiniteSet(T), S \cap T = {},
         \A x \in S \cup T : F[x] \in Int
  PROVE  SumFunctionOnSet(F, S \cup T) = SumFunctionOnSet(F, S) + SumFunctionOnSet(F, T)
<1> DEFINE Sum(U) == SumFunctionOnSet(F, U)
           Good == {U \in SUBSET T : Sum(S \cup U) = Sum(S) + Sum(U)}
<1>1. {} \in Good
  <2>1. Sum({}) = 0 /\ S \cup {} = S
    BY SumEmpty
  <2>2. Sum(S) \in Int
    BY SumInt
  <2> HIDE DEF Sum
  <2>. QED BY <2>1, <2>2
<1>2. ASSUME NEW U \in SUBSET T, NEW z \in T \ U, U \in Good
      PROVE  U \cup {z} \in Good
  <2>1. /\ IsFiniteSet(U) /\ z \notin U /\ F[z] \in Int
        /\ \A x \in U : F[x] \in Int
    BY FS_Subset
  <2>2. /\ IsFiniteSet(S \cup U) /\ z \notin S \cup U
        /\ \A x \in S \cup U : F[x] \in Int
    BY <2>1, FS_Union
  <2>3. Sum(U \cup {z}) = F[z] + Sum(U)
    BY <2>1, SumAddTo
  <2>4. Sum(S \cup (U \cup {z})) = F[z] + Sum(S \cup U)
    <3>1. Sum((S \cup U) \cup {z}) = F[z] + Sum(S \cup U)
      BY <2>1, <2>2, SumAddTo
    <3>2. (S \cup U) \cup {z} = S \cup (U \cup {z})
      OBVIOUS
    <3>. QED BY <3>1, <3>2, Zenon
  <2>5. Sum(U) \in Int /\ Sum(S) \in Int
    BY <2>1, SumInt
  <2>6. Sum(S \cup U) = Sum(S) + Sum(U)
    BY <1>2
  <2>7. Sum(S \cup (U \cup {z})) = Sum(S) + Sum(U \cup {z})
    BY <2>1, <2>3, <2>4, <2>5, <2>6
  <2>. QED BY <2>7
<1>3. T \in Good
  <2> HIDE DEF Good
  <2>. QED BY <1>1, <1>2, GrowingSets
<1>. QED BY <1>3

(* A larger set of natural numbers has a larger sum                        *)
LEMMA SumGrows ==
  ASSUME NEW F, NEW S, IsFiniteSet(S), \A x \in S : F[x] \in Nat, NEW T \in SUBSET S
  PROVE  /\ SumFunctionOnSet(F, T) \in Nat /\ SumFunctionOnSet(F, S) \in Nat
         /\ SumFunctionOnSet(F, T) <= SumFunctionOnSet(F, S)
<1>1. IsFiniteSet(T) /\ IsFiniteSet(S \ T) /\ S \ T \in SUBSET S
  BY FS_Subset
<1>2. \A x \in T \cup (S \ T) : F[x] \in Int
  OBVIOUS
<1>3. /\ SumFunctionOnSet(F, T) \in Nat /\ SumFunctionOnSet(F, S) \in Nat
      /\ SumFunctionOnSet(F, S \ T) \in Nat
  BY <1>1, SumNat
<1>4. T \cup (S \ T) = S /\ T \cap (S \ T) = {}
  OBVIOUS
<1>5. SumFunctionOnSet(F, T \cup (S \ T))
        = SumFunctionOnSet(F, T) + SumFunctionOnSet(F, S \ T)
  <2> HIDE <1>4
  <2>. QED BY <1>1, <1>2, <1>4, SumDisjoint
<1>. QED BY <1>3, <1>4, <1>5

(* What is zero adds nothing                                               *)
LEMMA SumZeros ==
  ASSUME NEW F, NEW S, IsFiniteSet(S), \A x \in S : F[x] = 0
  PROVE  SumFunctionOnSet(F, S) = 0
<1> DEFINE Good == {T \in SUBSET S : SumFunctionOnSet(F, T) = 0}
<1>1. {} \in Good
  BY SumEmpty
<1>2. ASSUME NEW T \in SUBSET S, NEW z \in S \ T, T \in Good
      PROVE  T \cup {z} \in Good
  <2>1. IsFiniteSet(T) /\ z \notin T /\ F[z] \in Int /\ \A x \in T : F[x] \in Int
    BY FS_Subset
  <2>2. SumFunctionOnSet(F, T \cup {z}) = F[z] + SumFunctionOnSet(F, T)
    BY <2>1, SumAddTo
  <2>3. F[z] = 0 /\ SumFunctionOnSet(F, T) = 0
    BY <1>2
  <2>. QED BY <2>2, <2>3
<1>3. S \in Good
  <2> HIDE DEF Good
  <2>. QED BY <1>1, <1>2, GrowingSets
<1>. QED BY <1>3

LEMMA SumOnPart ==
  ASSUME NEW F, NEW S, IsFiniteSet(S), NEW T \in SUBSET S,
         \A x \in S : F[x] \in Int, \A x \in S \ T : F[x] = 0
  PROVE  SumFunctionOnSet(F, S) = SumFunctionOnSet(F, T)
<1>1. IsFiniteSet(T) /\ IsFiniteSet(S \ T)
  BY FS_Subset
<1>2. \A x \in T \cup (S \ T) : F[x] \in Int
  OBVIOUS
<1>3. T \cup (S \ T) = S /\ T \cap (S \ T) = {}
  OBVIOUS
<1>4. SumFunctionOnSet(F, S \ T) = 0
  BY <1>1, SumZeros
<1>5. SumFunctionOnSet(F, T \cup (S \ T))
        = SumFunctionOnSet(F, T) + SumFunctionOnSet(F, S \ T)
  <2> HIDE <1>3
  <2>. QED BY <1>1, <1>2, <1>3, SumDisjoint
<1>6. SumFunctionOnSet(F, T) \in Int
  BY <1>1, SumInt
<1>7. SumFunctionOnSet(F, T \cup (S \ T)) = SumFunctionOnSet(F, T)
  BY <1>4, <1>5, <1>6
<1>. QED BY <1>3, <1>7, Zenon

LEMMA SumPlus ==
  ASSUME NEW F, NEW G, NEW H, NEW S, IsFiniteSet(S),
         \A x \in S : F[x] \in Int /\ G[x] \in Int /\ H[x] = F[x] + G[x]
  PROVE  SumFunctionOnSet(H, S) = SumFunctionOnSet(F, S) + SumFunctionOnSet(G, S)
<1> DEFINE Good == {T \in SUBSET S : SumFunctionOnSet(H, T)
                      = SumFunctionOnSet(F, T) + SumFunctionOnSet(G, T)}
<1>1. {} \in Good
  BY SumEmpty
<1>2. ASSUME NEW T \in SUBSET S, NEW z \in S \ T, T \in Good
      PROVE  T \cup {z} \in Good
  <2>1. /\ IsFiniteSet(T) /\ z \notin T
        /\ F[z] \in Int /\ \A x \in T : F[x] \in Int
        /\ G[z] \in Int /\ \A x \in T : G[x] \in Int
        /\ H[z] \in Int /\ \A x \in T : H[x] \in Int
        /\ H[z] = F[z] + G[z]
    BY FS_Subset
  <2>2. /\ SumFunctionOnSet(F, T \cup {z}) = F[z] + SumFunctionOnSet(F, T)
        /\ SumFunctionOnSet(G, T \cup {z}) = G[z] + SumFunctionOnSet(G, T)
        /\ SumFunctionOnSet(H, T \cup {z}) = H[z] + SumFunctionOnSet(H, T)
    BY <2>1, SumAddTo
  <2>3. SumFunctionOnSet(F, T) \in Int /\ SumFunctionOnSet(G, T) \in Int
    BY <2>1, SumInt
  <2>4. SumFunctionOnSet(H, T) = SumFunctionOnSet(F, T) + SumFunctionOnSet(G, T)
    BY <1>2
  <2>5. SumFunctionOnSet(H, T \cup {z})
          = SumFunctionOnSet(F, T \cup {z}) + SumFunctionOnSet(G, T \cup {z})
    BY <2>1, <2>2, <2>3, <2>4
  <2>. QED BY <2>5
<1>3. S \in Good
  <2> HIDE DEF Good
  <2>. QED BY <1>1, <1>2, GrowingSets
<1>. QED BY <1>3

-----------------------------------------------------------------------------
(* Counting a set by the parts it is made of                               *)

LEMMA CountParts ==
  ASSUME NEW K, IsFiniteSet(K), NEW Part,
         \A k \in K : IsFiniteSet(Part[k]),
         \A j, k \in K : j # k => Part[j] \cap Part[k] = {}
  PROVE  /\ IsFiniteSet(UNION {Part[k] : k \in K})
         /\ Cardinality(UNION {Part[k] : k \in K})
              = SumFunctionOnSet([k \in K |-> Cardinality(Part[k])], K)
<1> DEFINE C == [k \in K |-> Cardinality(Part[k])]
           All(J) == UNION {Part[k] : k \in J}
           Good == {J \in SUBSET K : /\ IsFiniteSet(All(J))
                                     /\ Cardinality(All(J)) = SumFunctionOnSet(C, J)}
<1>1. \A k \in K : C[k] = Cardinality(Part[k]) /\ C[k] \in Nat
  BY FS_CardinalityType
<1>2. {} \in Good
  <2>1. All({}) = {}
    OBVIOUS
  <2>. QED BY <2>1, SumEmpty, FS_EmptySet
<1>3. ASSUME NEW J \in SUBSET K, NEW z \in K \ J, J \in Good
      PROVE  J \cup {z} \in Good
  <2>1. All(J \cup {z}) = All(J) \cup Part[z] /\ All(J) \cap Part[z] = {}
    OBVIOUS
  <2>2. IsFiniteSet(All(J)) /\ Cardinality(All(J)) = SumFunctionOnSet(C, J)
    BY <1>3
  <2>3. IsFiniteSet(J)
    BY FS_Subset
  <2>4. SumFunctionOnSet(C, J \cup {z}) = C[z] + SumFunctionOnSet(C, J)
    <3>1. z \notin J /\ C[z] \in Int /\ \A x \in J : C[x] \in Int
      BY <1>1
    <3> HIDE DEF C
    <3>. QED BY <2>3, <3>1, SumAddTo
  <2>5. /\ IsFiniteSet(All(J) \cup Part[z])
        /\ Cardinality(All(J) \cup Part[z])
             = Cardinality(All(J)) + Cardinality(Part[z]) - Cardinality({})
    <3>1. IsFiniteSet(Part[z])
      OBVIOUS
    <3> HIDE DEF All
    <3>. QED BY <2>1, <2>2, <3>1, FS_Union
  <2>6. Cardinality(All(J)) \in Nat /\ Cardinality({}) = 0
    BY <2>2, FS_CardinalityType, FS_EmptySet
  <2>7. C[z] = Cardinality(Part[z]) /\ C[z] \in Nat
    BY <1>1
  <2>8. /\ IsFiniteSet(All(J) \cup Part[z])
        /\ Cardinality(All(J) \cup Part[z]) = SumFunctionOnSet(C, J \cup {z})
    <3> HIDE DEF All, C
    <3>. QED BY <2>2, <2>4, <2>5, <2>6, <2>7
  <2>. QED BY <2>1, <2>8
<1>4. K \in Good
  <2> HIDE DEF Good
  <2>. QED BY <1>2, <1>3, GrowingSets
<1>. QED BY <1>4
=============================================================================
