-------------------------------- MODULE Sums --------------------------------
(***************************************************************************)
(* Finite sums: what SumFunctionOnSet, which the models add amounts up     *)
(* with, is for any finite set and any amounts, though it is computed      *)
(* element by element in an order nobody knows.                            *)
(*                                                                         *)
(* Induction is over the subsets of a finite set: a family P of them that  *)
(* has the empty one, and each that has an element less than which is in P *)
(* whatever the element, has them all.                                     *)
(***************************************************************************)
EXTENDS Integers, FiniteSetsExt, FiniteSetTheorems, WellFoundedInduction,
        TLAPS

\* A set of natural numbers has a least one.
LEMMA LeastNatural ==
  ASSUME NEW T, T \subseteq Nat, T # {}
  PROVE  \E m \in T : \A y \in T : m <= y
<1> DEFINE R == {ss \in Nat \X Nat : ss[1] < ss[2]}
<1>1. IsWellFoundedOn(R, Nat)
  BY NatLessThanWellFounded DEF OpToRel
<1> HIDE DEF R
<1>2. PICK m \in T : \A y \in T : ~(<<y, m>> \in R)
  BY <1>1, WFMin
<1>3. ASSUME NEW y \in T PROVE m <= y
  <2>1. m \in Nat /\ y \in Nat /\ ~(<<y, m>> \in R)
    BY <1>2
  <2>2. ~(y < m)
    BY <2>1 DEF R
  <2> QED
    BY <2>1, <2>2
<1> QED
  BY <1>2, <1>3

LEMMA FiniteInduction ==
  ASSUME NEW S, IsFiniteSet(S), NEW P, {} \in P,
         \A T \in SUBSET S :
           T # {} /\ (\A x \in T : T \ {x} \in P) => T \in P
  PROVE  S \in P
<1> SUFFICES ASSUME S \notin P PROVE FALSE
  OBVIOUS
<1> DEFINE Others == {T \in SUBSET S : T \notin P}
           N == {Cardinality(T) : T \in Others}
<1>1. \A T \in SUBSET S : IsFiniteSet(T) /\ Cardinality(T) \in Nat
  BY FS_Subset, FS_CardinalityType
<1>2. N \subseteq Nat /\ N # {}
  <2>1. S \in Others
    OBVIOUS
  <2> QED
    BY <1>1, <2>1
<1>3. PICK m \in N : \A y \in N : m <= y
  <2> HIDE DEF N
  <2> QED
    BY <1>2, LeastNatural
<1>4. PICK T \in Others : m = Cardinality(T)
  BY <1>3
<1>5. ASSUME NEW x \in T PROVE T \ {x} \in P
  <2>1. Cardinality(T \ {x}) = m - 1 /\ m \in Nat
    BY <1>1, <1>4, FS_RemoveElement
  <2>2. Cardinality(T \ {x}) \notin N
    BY <1>3, <2>1
  <2>3. T \ {x} \in SUBSET S
    BY <1>4
  <2> QED
    BY <2>2, <2>3
<1> QED
  BY <1>4, <1>5

(***************************************************************************)
(* The sum.                                                                *)
(***************************************************************************)
Pick(s) == CHOOSE x \in s : TRUE

\* g adds up fun over the subsets of S, taking an element of each away.
Adds(fun, S, g) ==
  g = [s \in SUBSET S |->
         IF s = {} THEN 0 ELSE fun[Pick(s)] + g[s \ {Pick(s)}]]

\* The same, whichever element is taken.
AddsAnyhow(fun, S, g) ==
  /\ g \in [SUBSET S -> Int]
  /\ g[{}] = 0
  /\ \A s \in SUBSET S : \A x \in s : g[s] = fun[x] + g[s \ {x}]

LEMMA SumUnfolds ==
  ASSUME NEW fun, NEW S
  PROVE  SumFunctionOnSet(fun, S) = (CHOOSE g : Adds(fun, S, g))[S]
BY DEF SumFunctionOnSet, FoldFunctionOnSet, MapThenFoldSet, Adds, Pick

LEMMA AnElementMore ==
  ASSUME NEW fun, NEW T, NEW z, z \notin T,
         \A x \in T \cup {z} : fun[x] \in Int,
         NEW g, AddsAnyhow(fun, T, g)
  PROVE  \E h : AddsAnyhow(fun, T \cup {z}, h)
<1> DEFINE U == T \cup {z}
           h == [s \in SUBSET U |->
                   IF z \in s THEN fun[z] + g[s \ {z}] ELSE g[s]]
<1>1. \A s \in SUBSET U : s \ {z} \in SUBSET T /\ (z \notin s => s \in SUBSET T)
  OBVIOUS
<1>2. h \in [SUBSET U -> Int]
  BY <1>1 DEF AddsAnyhow
<1>3. h[{}] = 0
  BY DEF AddsAnyhow
<1>4. ASSUME NEW s \in SUBSET U, NEW x \in s
      PROVE  h[s] = fun[x] + h[s \ {x}]
  <2>0. s \ {x} \in SUBSET U
    OBVIOUS
  <2>1. CASE z \notin s
    BY <1>1, <2>0, <2>1 DEF AddsAnyhow
  <2>2. CASE x = z
    BY <1>1, <2>0, <2>2
  <2>3. CASE z \in s /\ x # z
    <3>1. h[s] = fun[z] + g[s \ {z}] /\ h[s \ {x}] = fun[z] + g[(s \ {x}) \ {z}]
      BY <2>0, <2>3
    <3>2. s \ {z} \in SUBSET T /\ x \in s \ {z}
      BY <1>1, <2>3
    <3>3. g[s \ {z}] = fun[x] + g[(s \ {z}) \ {x}]
      BY <3>2 DEF AddsAnyhow
    <3>4. (s \ {z}) \ {x} = (s \ {x}) \ {z} /\ (s \ {z}) \ {x} \in SUBSET T
      BY <3>2
    <3>5. g[(s \ {z}) \ {x}] \in Int /\ fun[z] \in Int /\ fun[x] \in Int
      BY <3>2, <3>4 DEF AddsAnyhow
    <3>6. PICK b, c, d : b = fun[z] /\ c = fun[x] /\ d = g[(s \ {z}) \ {x}]
      OBVIOUS
    <3>7. h[s] = b + (c + d) /\ h[s \ {x}] = b + d
      BY <3>1, <3>3, <3>4, <3>6
    <3>8. b \in Int /\ c \in Int /\ d \in Int
      BY <3>5, <3>6
    <3>9. b + (c + d) = c + (b + d)
      BY <3>8
    <3> HIDE DEF h
    <3> QED
      BY <3>6, <3>7, <3>9
  <2> QED
    BY <2>1, <2>2, <2>3
<1> HIDE DEF h
<1> QED
  BY <1>2, <1>3, <1>4 DEF AddsAnyhow

\* A finite set of amounts is added up by some function.
LEMMA AddsExist ==
  ASSUME NEW S, IsFiniteSet(S), NEW fun, \A x \in S : fun[x] \in Int
  PROVE  \E g : AddsAnyhow(fun, S, g)
<1> DEFINE P == {T \in SUBSET S : \E g : AddsAnyhow(fun, T, g)}
<1>1. {} \in P
  <2> DEFINE g == [s \in SUBSET {} |-> 0]
  <2>1. g \in [SUBSET {} -> Int] /\ g[{}] = 0
    OBVIOUS
  <2>2. \A s \in SUBSET {} : \A x \in s : FALSE
    OBVIOUS
  <2> HIDE DEF g
  <2>3. AddsAnyhow(fun, {}, g)
    BY <2>1, <2>2 DEF AddsAnyhow
  <2> QED
    BY <2>3
<1>2. ASSUME NEW T \in SUBSET S, T # {}, \A x \in T : T \ {x} \in P
      PROVE  T \in P
  <2>1. PICK x \in T : TRUE
    BY <1>2
  <2>2. PICK g : AddsAnyhow(fun, T \ {x}, g)
    BY <1>2
  <2>3. (T \ {x}) \cup {x} = T /\ x \notin T \ {x}
    BY <2>1
  <2>4. \E h : AddsAnyhow(fun, (T \ {x}) \cup {x}, h)
    BY <2>2, <2>3, AnElementMore
  <2> QED
    BY <2>3, <2>4
<1>3. S \in P
  <2> HIDE DEF P
  <2> QED
    BY <1>1, <1>2, FiniteInduction
<1> QED
  BY <1>3

\* Whichever function adds up in any order has the sums.
LEMMA SumIs ==
  ASSUME NEW S, IsFiniteSet(S), NEW fun, NEW g, AddsAnyhow(fun, S, g),
         NEW U \in SUBSET S
  PROVE  SumFunctionOnSet(fun, U) = g[U]
<1>1. IsFiniteSet(U)
  BY FS_Subset
<1> DEFINE k == [s \in SUBSET U |-> g[s]]
<1>2. Adds(fun, U, k)
  <2>1. ASSUME NEW s \in SUBSET U, s # {}
        PROVE  k[s] = fun[Pick(s)] + k[s \ {Pick(s)}]
    <3>1. Pick(s) \in s
      BY <2>1 DEF Pick
    <3>2. s \in SUBSET S /\ s \ {Pick(s)} \in SUBSET U
      OBVIOUS
    <3>3. g[s] = fun[Pick(s)] + g[s \ {Pick(s)}]
      BY <3>1, <3>2 DEF AddsAnyhow
    <3> QED
      BY <3>2, <3>3
  <2>2. k[{}] = 0
    BY DEF AddsAnyhow
  <2> DEFINE r == [s \in SUBSET U |->
                    IF s = {} THEN 0 ELSE fun[Pick(s)] + k[s \ {Pick(s)}]]
  <2>3. \A s \in SUBSET U : k[s] = r[s]
    <3> HIDE DEF k
    <3> QED
      BY <2>1, <2>2
  <2>4. k = r
    BY <2>3
  <2> HIDE DEF k
  <2> QED
    BY <2>4 DEF Adds
<1> HIDE DEF k
<1>3. PICK h : h = (CHOOSE f : Adds(fun, U, f)) /\ Adds(fun, U, h)
  BY <1>2
<1> DEFINE P == {T \in SUBSET U : h[T] = g[T]}
<1>4. {} \in P
  BY <1>3 DEF Adds, AddsAnyhow
<1>5. ASSUME NEW T \in SUBSET U, T # {}, \A x \in T : T \ {x} \in P
      PROVE  T \in P
  <2>1. Pick(T) \in T /\ T \ {Pick(T)} \in SUBSET U
    BY <1>5 DEF Pick
  <2>2. h[T] = fun[Pick(T)] + h[T \ {Pick(T)}]
    BY <1>3, <1>5, <2>1 DEF Adds
  <2>3. h[T \ {Pick(T)}] = g[T \ {Pick(T)}]
    BY <1>5, <2>1
  <2>4. g[T] = fun[Pick(T)] + g[T \ {Pick(T)}]
    BY <2>1 DEF AddsAnyhow
  <2> QED
    BY <2>2, <2>3, <2>4
<1>6. U \in P
  <2> HIDE DEF P
  <2> QED
    BY <1>1, <1>4, <1>5, FiniteInduction
<1> QED
  BY <1>3, <1>6, SumUnfolds

(***************************************************************************)
(* What follows for the models: sums of integers over a finite set.        *)
(***************************************************************************)
LEMMA SumEmpty ==
  ASSUME NEW fun
  PROVE  SumFunctionOnSet(fun, {}) = 0
<1>1. IsFiniteSet({})
  BY FS_EmptySet
<1>2. \A x \in {} : fun[x] \in Int
  OBVIOUS
<1>3. PICK g : AddsAnyhow(fun, {}, g)
  BY <1>1, <1>2, AddsExist
<1>4. g[{}] = 0 /\ {} \in SUBSET {}
  BY <1>3 DEF AddsAnyhow
<1>5. SumFunctionOnSet(fun, {}) = g[{}]
  BY <1>1, <1>3, <1>4, SumIs
<1> QED
  BY <1>4, <1>5

LEMMA SumType ==
  ASSUME NEW S, IsFiniteSet(S), NEW fun, \A x \in S : fun[x] \in Int
  PROVE  SumFunctionOnSet(fun, S) \in Int
<1>1. PICK g : AddsAnyhow(fun, S, g)
  BY AddsExist
<1>2. g[S] \in Int
  BY <1>1 DEF AddsAnyhow
<1> QED
  BY <1>1, <1>2, SumIs

\* Any element can be set apart.
LEMMA SumRemove ==
  ASSUME NEW S, IsFiniteSet(S), NEW fun, \A x \in S : fun[x] \in Int,
         NEW x \in S
  PROVE  SumFunctionOnSet(fun, S) = fun[x] + SumFunctionOnSet(fun, S \ {x})
<1>1. PICK g : AddsAnyhow(fun, S, g)
  BY AddsExist
<1>2. g[S] = fun[x] + g[S \ {x}]
  BY <1>1 DEF AddsAnyhow
<1>3. SumFunctionOnSet(fun, S) = g[S]
  BY <1>1, SumIs
<1>4. SumFunctionOnSet(fun, S \ {x}) = g[S \ {x}]
  BY <1>1, SumIs
<1> QED
  BY <1>2, <1>3, <1>4

\* Only the amounts of the elements count.
LEMMA SumSame ==
  ASSUME NEW S, IsFiniteSet(S), NEW f, NEW g, \A x \in S : f[x] \in Int,
         \A x \in S : f[x] = g[x]
  PROVE  SumFunctionOnSet(f, S) = SumFunctionOnSet(g, S)
<1> DEFINE P == {T \in SUBSET S :
                   SumFunctionOnSet(f, T) = SumFunctionOnSet(g, T)}
<1>1. {} \in P
  BY SumEmpty
<1>2. ASSUME NEW T \in SUBSET S, T # {}, \A x \in T : T \ {x} \in P
      PROVE  T \in P
  <2>1. PICK x \in T : TRUE
    BY <1>2
  <2>2. IsFiniteSet(T)
    BY FS_Subset
  <2>3. SumFunctionOnSet(f, T) = f[x] + SumFunctionOnSet(f, T \ {x})
    BY <2>2, SumRemove
  <2>4. \A y \in T : g[y] \in Int
    OBVIOUS
  <2>5. SumFunctionOnSet(g, T) = g[x] + SumFunctionOnSet(g, T \ {x})
    BY <2>2, <2>4, SumRemove
  <2>6. SumFunctionOnSet(f, T \ {x}) = SumFunctionOnSet(g, T \ {x})
    BY <1>2
  <2>7. f[x] = g[x]
    OBVIOUS
  <2> QED
    BY <2>3, <2>5, <2>6, <2>7
<1> HIDE DEF P
<1>3. S \in P
  BY <1>1, <1>2, FiniteInduction
<1> QED
  BY <1>3 DEF P

\* A set is what it has of another and what it has besides.
LEMMA SumSplit ==
  ASSUME NEW S, IsFiniteSet(S), NEW fun, \A x \in S : fun[x] \in Int, NEW U
  PROVE  SumFunctionOnSet(fun, S)
           = SumFunctionOnSet(fun, S \cap U) + SumFunctionOnSet(fun, S \ U)
<1> DEFINE Sum(T) == SumFunctionOnSet(fun, T)
           P == {T \in SUBSET S : Sum(T) = Sum(T \cap U) + Sum(T \ U)}
<1>0. \A T \in SUBSET S : IsFiniteSet(T)
  BY FS_Subset
<1>1. {} \in P
  <2>1. {} \cap U = {} /\ {} \ U = {} /\ Sum({}) = 0
    BY SumEmpty
  <2> QED
    BY <2>1
<1>2. ASSUME NEW T \in SUBSET S, T # {}, \A x \in T : T \ {x} \in P
      PROVE  T \in P
  <2>1. PICK x \in T : TRUE
    BY <1>2
  <2>2. Sum(T) = fun[x] + Sum(T \ {x})
    BY <1>0, SumRemove
  <2>3. Sum(T \ {x}) = Sum((T \ {x}) \cap U) + Sum((T \ {x}) \ U)
    BY <1>2
  <2>4. /\ Sum(T \cap U) \in Int /\ Sum(T \ U) \in Int
        /\ Sum((T \ {x}) \cap U) \in Int /\ Sum((T \ {x}) \ U) \in Int
    <3>1. \A V \in SUBSET S : Sum(V) \in Int
      BY <1>0, SumType
    <3> QED
      BY <3>1
  <2>5. fun[x] \in Int
    OBVIOUS
  <2>6. CASE x \in U
    <3>1. (T \ {x}) \cap U = (T \cap U) \ {x} /\ (T \ {x}) \ U = T \ U
      BY <2>6
    <3>2. T \cap U \in SUBSET S /\ x \in T \cap U
      BY <2>6
    <3>3. Sum(T \cap U) = fun[x] + Sum((T \cap U) \ {x})
      BY <1>0, <3>2, SumRemove
    <3>4. PICK a, b, c : /\ a = fun[x] /\ b = Sum((T \cap U) \ {x})
                         /\ c = Sum(T \ U)
      OBVIOUS
    <3>5. Sum(T) = a + (b + c) /\ Sum(T \cap U) + Sum(T \ U) = (a + b) + c
      BY <2>2, <2>3, <3>1, <3>3, <3>4
    <3>6. a \in Int /\ b \in Int /\ c \in Int
      <4> HIDE DEF Sum
      <4> QED
        BY <2>4, <2>5, <3>1, <3>4
    <3>7. a + (b + c) = (a + b) + c
      BY <3>6
    <3> QED
      BY <3>5, <3>7
  <2>7. CASE x \notin U
    <3>1. (T \ {x}) \cap U = T \cap U /\ (T \ {x}) \ U = (T \ U) \ {x}
      BY <2>7
    <3>2. T \ U \in SUBSET S /\ x \in T \ U
      BY <2>7
    <3>3. Sum(T \ U) = fun[x] + Sum((T \ U) \ {x})
      BY <1>0, <3>2, SumRemove
    <3>4. PICK a, b, c : /\ a = fun[x] /\ b = Sum(T \cap U)
                         /\ c = Sum((T \ U) \ {x})
      OBVIOUS
    <3>5. Sum(T) = a + (b + c) /\ Sum(T \cap U) + Sum(T \ U) = b + (a + c)
      BY <2>2, <2>3, <3>1, <3>3, <3>4
    <3>6. a \in Int /\ b \in Int /\ c \in Int
      <4> HIDE DEF Sum
      <4> QED
        BY <2>4, <2>5, <3>1, <3>4
    <3>7. a + (b + c) = b + (a + c)
      BY <3>6
    <3> QED
      BY <3>5, <3>7
  <2> HIDE DEF Sum
  <2> QED
    BY <2>6, <2>7
<1> HIDE DEF P, Sum
<1>3. S \in P
  BY <1>1, <1>2, FiniteInduction
<1> QED
  BY <1>3 DEF P, Sum

\* Nothing and nothing is nothing.
LEMMA SumZero ==
  ASSUME NEW S, IsFiniteSet(S), NEW fun, \A x \in S : fun[x] = 0
  PROVE  SumFunctionOnSet(fun, S) = 0
<1> DEFINE P == {T \in SUBSET S : SumFunctionOnSet(fun, T) = 0}
<1>1. {} \in P
  BY SumEmpty
<1>2. ASSUME NEW T \in SUBSET S, T # {}, \A x \in T : T \ {x} \in P
      PROVE  T \in P
  <2>1. PICK x \in T : TRUE
    BY <1>2
  <2>2. IsFiniteSet(T) /\ (\A y \in T : fun[y] \in Int)
    BY FS_Subset
  <2>3. SumFunctionOnSet(fun, T) = fun[x] + SumFunctionOnSet(fun, T \ {x})
    BY <2>2, SumRemove
  <2> QED
    BY <1>2, <2>3
<1> HIDE DEF P
<1>3. S \in P
  BY <1>1, <1>2, FiniteInduction
<1> QED
  BY <1>3 DEF P

\* What amounts to nothing may be left out.
LEMMA SumPart ==
  ASSUME NEW S, IsFiniteSet(S), NEW fun, \A x \in S : fun[x] \in Int,
         NEW T \in SUBSET S, \A x \in S \ T : fun[x] = 0
  PROVE  SumFunctionOnSet(fun, S) = SumFunctionOnSet(fun, T)
<1>1. S \cap T = T /\ IsFiniteSet(S \ T) /\ IsFiniteSet(T)
  BY FS_Subset
<1>2. SumFunctionOnSet(fun, S \ T) = 0
  BY <1>1, SumZero
<1>3. SumFunctionOnSet(fun, S)
        = SumFunctionOnSet(fun, S \cap T) + SumFunctionOnSet(fun, S \ T)
  BY SumSplit
<1>4. SumFunctionOnSet(fun, T) \in Int
  BY <1>1, SumType
<1>5. PICK c : c = SumFunctionOnSet(fun, T)
  OBVIOUS
<1>6. c \in Int /\ SumFunctionOnSet(fun, S) = c + 0
  BY <1>1, <1>2, <1>3, <1>4, <1>5
<1> QED
  BY <1>5, <1>6

\* Amounts added one by one, or all of the first and all of the second.
LEMMA SumPlus ==
  ASSUME NEW S, IsFiniteSet(S), NEW f, NEW g, NEW h,
         \A x \in S : f[x] \in Int /\ g[x] \in Int /\ h[x] = f[x] + g[x]
  PROVE  SumFunctionOnSet(h, S)
           = SumFunctionOnSet(f, S) + SumFunctionOnSet(g, S)
<1> DEFINE F(T) == SumFunctionOnSet(f, T)
           G(T) == SumFunctionOnSet(g, T)
           H(T) == SumFunctionOnSet(h, T)
           P == {T \in SUBSET S : H(T) = F(T) + G(T)}
<1>0. \A T \in SUBSET S : /\ IsFiniteSet(T)
                          /\ F(T) \in Int /\ G(T) \in Int
  BY FS_Subset, SumType
<1>1. {} \in P
  <2>1. F({}) = 0 /\ G({}) = 0 /\ H({}) = 0
    BY SumEmpty
  <2> QED
    BY <2>1
<1>2. ASSUME NEW T \in SUBSET S, T # {}, \A x \in T : T \ {x} \in P
      PROVE  T \in P
  <2>1. PICK x \in T : TRUE
    BY <1>2
  <2>2. IsFiniteSet(T) /\ T \ {x} \in SUBSET S
    BY <1>0
  <2>3. F(T) = f[x] + F(T \ {x})
    BY <2>2, SumRemove
  <2>4. G(T) = g[x] + G(T \ {x})
    BY <2>2, SumRemove
  <2>5. H(T) = h[x] + H(T \ {x})
    BY <2>2, SumRemove
  <2>6. H(T \ {x}) = F(T \ {x}) + G(T \ {x}) /\ h[x] = f[x] + g[x]
    BY <1>2
  <2>7. PICK a, b, c, d : /\ a = f[x] /\ b = g[x]
                          /\ c = F(T \ {x}) /\ d = G(T \ {x})
    OBVIOUS
  <2>8. a \in Int /\ b \in Int /\ c \in Int /\ d \in Int
    BY <1>0, <2>2, <2>7
  <2>9. H(T) = (a + b) + (c + d) /\ F(T) + G(T) = (a + c) + (b + d)
    BY <2>3, <2>4, <2>5, <2>6, <2>7
  <2>10. (a + b) + (c + d) = (a + c) + (b + d)
    BY <2>8
  <2> HIDE DEF F, G, H
  <2> QED
    BY <2>9, <2>10
<1> HIDE DEF P, F, G, H
<1>3. S \in P
  BY <1>1, <1>2, FiniteInduction
<1> QED
  BY <1>3 DEF P, F, G, H

\* One amount is another: the sum changes by as much.
LEMMA SumChange ==
  ASSUME NEW S, IsFiniteSet(S), NEW f, NEW g, NEW z \in S,
         \A x \in S : f[x] \in Int /\ g[x] \in Int,
         \A x \in S \ {z} : f[x] = g[x]
  PROVE  SumFunctionOnSet(g, S) - SumFunctionOnSet(f, S) = g[z] - f[z]
<1>1. IsFiniteSet(S \ {z})
  BY FS_Subset
<1>2. SumFunctionOnSet(f, S) = f[z] + SumFunctionOnSet(f, S \ {z})
  BY SumRemove
<1>3. SumFunctionOnSet(g, S) = g[z] + SumFunctionOnSet(g, S \ {z})
  BY SumRemove
<1>4. SumFunctionOnSet(f, S \ {z}) = SumFunctionOnSet(g, S \ {z})
  BY <1>1, SumSame
<1>5. SumFunctionOnSet(f, S \ {z}) \in Int
  BY <1>1, SumType
<1>6. PICK a, b, c : /\ a = f[z] /\ b = g[z]
                     /\ c = SumFunctionOnSet(f, S \ {z})
  OBVIOUS
<1>7. (b + c) - (a + c) = b - a
  BY <1>5, <1>6
<1> QED
  BY <1>2, <1>3, <1>4, <1>6, <1>7

\* Every element is in one group, and each group has its sum.
Grouped(S, K, key, group) ==
  /\ \A x \in S : key[x] \in K
  /\ \A y \in K : \A x : x \in group[y] <=> x \in S /\ key[x] = y

GroupSums(fun, K, group, sums) ==
  \A y \in K : sums[y] = SumFunctionOnSet(fun, group[y])

\* The sum is that of the sums of its groups.
LEMMA SumGroup ==
  ASSUME NEW S, IsFiniteSet(S), NEW fun, \A x \in S : fun[x] \in Int,
         NEW K, IsFiniteSet(K), NEW key, NEW group, Grouped(S, K, key, group),
         NEW sums, GroupSums(fun, K, group, sums)
  PROVE  SumFunctionOnSet(sums, K) = SumFunctionOnSet(fun, S)
<1> USE DEF Grouped, GroupSums
<1> DEFINE Of(T) == {x \in S : key[x] \in T}
           P == {T \in SUBSET K :
                   SumFunctionOnSet(sums, T) = SumFunctionOnSet(fun, Of(T))}
<1>0. /\ \A T : IsFiniteSet(Of(T)) /\ \A x \in Of(T) : fun[x] \in Int
      /\ \A y \in K : sums[y] \in Int
  <2>1. \A T : IsFiniteSet(Of(T)) /\ \A x \in Of(T) : fun[x] \in Int
    BY FS_Subset
  <2>2. ASSUME NEW y \in K PROVE sums[y] \in Int
    <3>1. Of({y}) = group[y]
      OBVIOUS
    <3> HIDE DEF Of
    <3>2. SumFunctionOnSet(fun, Of({y})) \in Int
      BY <2>1, SumType
    <3> QED
      BY <3>1, <3>2
  <2> QED
    BY <2>1, <2>2
<1>1. {} \in P
  <2>1. Of({}) = {}
    OBVIOUS
  <2> QED
    BY <2>1, SumEmpty
<1>2. ASSUME NEW T \in SUBSET K, T # {}, \A y \in T : T \ {y} \in P
      PROVE  T \in P
  <2>1. PICK y \in T : TRUE
    BY <1>2
  <2>2. Of(T) \cap Of({y}) = group[y] /\ Of(T) \ Of({y}) = Of(T \ {y})
    BY <2>1
  <2>3. IsFiniteSet(T) /\ \A z \in T : sums[z] \in Int
    BY <1>0, FS_Subset
  <2>4. SumFunctionOnSet(sums, T \ {y}) = SumFunctionOnSet(fun, Of(T \ {y}))
    BY <1>2, <2>1
  <2> HIDE DEF Of
  <2>5. SumFunctionOnSet(fun, Of(T))
          = SumFunctionOnSet(fun, Of(T) \cap Of({y}))
              + SumFunctionOnSet(fun, Of(T) \ Of({y}))
    BY <1>0, SumSplit
  <2>6. SumFunctionOnSet(sums, T)
          = sums[y] + SumFunctionOnSet(sums, T \ {y})
    BY <2>1, <2>3, SumRemove
  <2>7. SumFunctionOnSet(sums, T) = SumFunctionOnSet(fun, Of(T))
    BY <2>1, <2>2, <2>4, <2>5, <2>6
  <2> QED
    BY <2>7
<1>3. K \in P
  <2> HIDE DEF P
  <2> QED
    BY <1>1, <1>2, FiniteInduction
<1>4. Of(K) = S
  OBVIOUS
<1> QED
  BY <1>3, <1>4
=============================================================================
