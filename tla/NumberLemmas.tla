---------------------------- MODULE NumberLemmas ----------------------------
(***************************************************************************)
(* Facts about numbers that the proofs rest on: a nonempty set of naturals *)
(* has a least element, and a bounded one a greatest; what a sum over a    *)
(* finite set is.                                                          *)
(***************************************************************************)
EXTENDS Integers, FiniteSetsExt, Functions, FiniteSetTheorems, WellFoundedInduction, TLAPS

(* The order of the naturals, as a relation, is well founded.              *)
LEMMA LessThanIsWellFounded ==
  IsWellFoundedOn({ss \in Nat \X Nat : ss[1] < ss[2]}, Nat)
BY NatLessThanWellFounded DEF OpToRel

(* A nonempty set of naturals has a least element.                         *)
LEMMA LeastExists ==
  ASSUME NEW S \in SUBSET Nat, S # {}
  PROVE  \E x \in S : \A y \in S : x <= y
<1> DEFINE Less == {ss \in Nat \X Nat : ss[1] < ss[2]}
<1>1. IsWellFoundedOn(Less, Nat)
  BY LessThanIsWellFounded
<1>2. PICK x \in S : \A y \in S : <<y, x>> \notin Less
  <2> HIDE DEF Less
  <2> QED  BY <1>1, WFMin
<1>3. \A y \in S : <<y, x>> \in Nat \X Nat
  OBVIOUS
<1>4. \A y \in S : ~(y < x)
  BY <1>2, <1>3
<1> QED  BY <1>4

(* A nonempty set of naturals with an upper bound has a greatest element.  *)
LEMMA GreatestExists ==
  ASSUME NEW n \in Nat, NEW S \in SUBSET (0..n), S # {}
  PROVE  \E m \in S : \A x \in S : x <= m
<1> DEFINE T == {k \in Nat : \E x \in S : k = n - x}
<1>1. \A x \in S : n - x \in T
  OBVIOUS
<1>2. T \in SUBSET Nat /\ T # {}
  BY <1>1
<1>3. PICK t \in T : \A y \in T : t <= y
  <2> HIDE DEF T
  <2> QED  BY <1>2, LeastExists
<1>4. PICK m \in S : t = n - m
  OBVIOUS
<1>5. \A x \in S : x <= m
  BY <1>1, <1>3, <1>4
<1> QED  BY <1>5

(* So Min and Max are what their names say.                                *)
LEMMA MinIsLeast ==
  ASSUME NEW S \in SUBSET Nat, S # {}
  PROVE  Min(S) \in S /\ \A x \in S : Min(S) <= x
BY LeastExists DEF Min

(* Max of a bounded set of naturals is its greatest element,               *)
LEMMA MaxIsGreatest ==
  ASSUME NEW n \in Nat, NEW S \in SUBSET (0..n), S # {}
  PROVE  Max(S) \in S /\ \A x \in S : x <= Max(S)
BY GreatestExists DEF Max

(* and Max of two integers is one of them and bounds both.                 *)
LEMMA MaxOfTwo ==
  ASSUME NEW a \in Int, NEW b \in Int
  PROVE  /\ Max({a, b}) \in {a, b}
         /\ a <= Max({a, b}) /\ b <= Max({a, b})
<1>1. CASE a >= b
  BY <1>1 DEF Max
<1>2. CASE ~(a >= b)
  BY <1>2 DEF Max
<1> QED  BY <1>1, <1>2

-----------------------------------------------------------------------------
(* Of some subsets of a finite set, one has no other of them in it: what   *)
(* stands in for an induction over finite sets.                            *)
LEMMA SmallestSet ==
  ASSUME NEW S, IsFiniteSet(S), NEW F \in SUBSET (SUBSET S), F # {}
  PROVE  \E T \in F : \A U \in F : U \subseteq T => U = T
<1> DEFINE sizes == {Cardinality(T) : T \in F}
<1>1. \A T \in F : IsFiniteSet(T) /\ Cardinality(T) \in Nat
  BY FS_Subset, FS_CardinalityType
<1>2. PICK k \in sizes : \A n \in sizes : k <= n
  <2>1. sizes \in SUBSET Nat /\ sizes # {}
    BY <1>1
  <2> HIDE DEF sizes
  <2> QED  BY <2>1, LeastExists
<1>3. PICK T \in F : Cardinality(T) = k
  BY <1>2
<1>4. ASSUME NEW U \in F, U \subseteq T  PROVE U = T
  <2>1. Cardinality(U) <= Cardinality(T) /\ (Cardinality(T) = Cardinality(U) => T = U)
    BY <1>1, <1>4, FS_Subset
  <2>2. k <= Cardinality(U) /\ k \in Nat /\ Cardinality(U) \in Nat
    BY <1>1, <1>2, <1>3
  <2> QED  BY <1>3, <2>1, <2>2
<1> QED  BY <1>4

-----------------------------------------------------------------------------
(* SumFunctionOnSet(f, S) takes the elements of S in an order that Folds   *)
(* chooses, by a recursive function.                                       *)
FirstOf(T) == CHOOSE x \in T : TRUE

SumsUp(iter, f, S) ==
  iter = [T \in SUBSET S |-> IF T = {} THEN 0 ELSE f[FirstOf(T)] + iter[T \ {FirstOf(T)}]]

(* All such functions agree,                                               *)
LEMMA AddsAlike ==
  ASSUME NEW f, NEW S, NEW R, NEW a, NEW b, SumsUp(a, f, S), SumsUp(b, f, R),
         NEW T, T \subseteq S, T \subseteq R, IsFiniteSet(T)
  PROVE  a[T] = b[T]
<1> DEFINE Unlike == {U \in SUBSET T : a[U] # b[U]}
<1> SUFFICES ASSUME Unlike # {}  PROVE FALSE
  OBVIOUS
<1>1. PICK U \in Unlike : \A V \in Unlike : V \subseteq U => V = U
  <2>1. Unlike \in SUBSET (SUBSET T)
    OBVIOUS
  <2> HIDE DEF Unlike
  <2> QED  BY <2>1, SmallestSet
<1> DEFINE x == FirstOf(U)
<1>2. a[{}] = 0 /\ b[{}] = 0
  <2>1. {} \in SUBSET S /\ {} \in SUBSET R
    OBVIOUS
  <2> QED  BY <2>1 DEF SumsUp
<1>3. x \in U
  BY <1>2 DEF FirstOf
<1>4. a[U] = f[x] + a[U \ {x}] /\ b[U] = f[x] + b[U \ {x}]
  <2>1. U \in SUBSET S /\ U \in SUBSET R
    OBVIOUS
  <2> QED  BY <1>3, <2>1 DEF SumsUp
<1> HIDE DEF x
<1>5. a[U \ {x}] = b[U \ {x}]
  BY <1>1, <1>3
<1> QED  BY <1>4, <1>5

(* and there is one for every finite set.                                  *)
LEMMA AddsExists ==
  ASSUME NEW f, NEW S, IsFiniteSet(S)
  PROVE  \E iter : SumsUp(iter, f, S)
<1> DEFINE Without == {R \in SUBSET S : ~\E iter : SumsUp(iter, f, R)}
<1> SUFFICES ASSUME Without # {}  PROVE FALSE
  OBVIOUS
<1>1. PICK R \in Without : \A T \in Without : T \subseteq R => T = R
  <2>1. Without \in SUBSET (SUBSET S)
    OBVIOUS
  <2> HIDE DEF Without
  <2> QED  BY <2>1, SmallestSet
<1> DEFINE part(T) == CHOOSE iter : SumsUp(iter, f, T)
<1>2. ASSUME NEW T \in SUBSET R, T # R
      PROVE  SumsUp(part(T), f, T) /\ IsFiniteSet(T)
  <2>1. T \notin Without /\ T \in SUBSET S
    BY <1>1, <1>2
  <2>2. \E iter : SumsUp(iter, f, T)
    BY <2>1
  <2> QED  BY <2>1, <2>2, FS_Subset
<1> HIDE DEF part
<1> DEFINE g == [T \in SUBSET R |->
                   IF T = {} THEN 0
                   ELSE f[FirstOf(T)] + part(T \ {FirstOf(T)})[T \ {FirstOf(T)}]]
           h == [T \in SUBSET R |-> IF T = {} THEN 0 ELSE f[FirstOf(T)] + g[T \ {FirstOf(T)}]]
<1>3. ASSUME NEW T \in SUBSET R, T # R
      PROVE  g[T] = part(T)[T]
  <2>1. T \in SUBSET T
    OBVIOUS
  <2>2. CASE T = {}
    <3>1. part(T)[T] = 0
      BY <1>2, <1>3, <2>1, <2>2 DEF SumsUp
    <3> QED  BY <2>2, <3>1
  <2>3. CASE T # {}
    <3> DEFINE x == FirstOf(T)
               U == T \ {x}
    <3>1. x \in T
      BY <2>3 DEF FirstOf
    <3>2. part(T)[T] = f[x] + part(T)[U]
      BY <1>2, <1>3, <2>1, <2>3 DEF SumsUp
    <3>3. g[T] = f[x] + part(U)[U]
      BY <2>3
    <3>4. U \in SUBSET R /\ U # R /\ U \subseteq T /\ U \subseteq U
      BY <1>3, <3>1
    <3> HIDE DEF U, x
    <3>5. part(T)[U] = part(U)[U]
      BY <1>2, <1>3, <3>4, AddsAlike
    <3> QED  BY <3>2, <3>3, <3>5
  <2> QED  BY <2>2, <2>3
<1>4. ASSUME NEW T \in SUBSET R
      PROVE  g[T] = h[T]
  <2>1. CASE T = {}
    BY <2>1
  <2>2. CASE T # {}
    <3> DEFINE x == FirstOf(T)
               U == T \ {x}
    <3>1. x \in T
      BY <2>2 DEF FirstOf
    <3>2. U \in SUBSET R /\ U # R
      BY <3>1
    <3>3. g[T] = f[x] + part(U)[U] /\ h[T] = f[x] + g[U]
      BY <2>2
    <3> QED  BY <1>3, <3>2, <3>3
  <2> QED  BY <2>1, <2>2
<1>5. g = [T \in SUBSET R |-> g[T]] /\ h = [T \in SUBSET R |-> h[T]]
  OBVIOUS
<1>6. g = h
  <2> HIDE DEF g, h
  <2> QED  BY <1>4, <1>5
<1>7. SumsUp(g, f, R)
  <2> HIDE DEF g
  <2> QED  BY <1>6 DEF SumsUp
<1> QED  BY <1>1, <1>7

(* So a sum is that of the rest and of the element that is taken first,    *)
LEMMA SumFirst ==
  ASSUME NEW f, NEW S, IsFiniteSet(S)
  PROVE  /\ S = {} => SumFunctionOnSet(f, S) = 0
         /\ S # {} => SumFunctionOnSet(f, S) = f[FirstOf(S)] + SumFunctionOnSet(f, S \ {FirstOf(S)})
<1> DEFINE part(T) == CHOOSE iter : SumsUp(iter, f, T)
<1>1. \A T : SumFunctionOnSet(f, T) = part(T)[T]
  BY DEF SumFunctionOnSet, FoldFunctionOnSet, MapThenFoldSet, SumsUp, FirstOf
<1>2. \A T \in SUBSET S : SumsUp(part(T), f, T)
  BY AddsExists, FS_Subset
<1> HIDE DEF part
<1>3. S = {} => part(S)[S] = 0
  BY <1>2 DEF SumsUp
<1>4. CASE S # {}
  <2> DEFINE x == FirstOf(S)
             U == S \ {x}
  <2>1. part(S)[S] = f[x] + part(S)[U]
    BY <1>2, <1>4 DEF SumsUp
  <2>2. U \in SUBSET S /\ IsFiniteSet(U) /\ U \subseteq U
    BY FS_Subset
  <2> HIDE DEF x, U
  <2>3. part(S)[U] = part(U)[U]
    BY <1>2, <2>2, AddsAlike
  <2>4. SumFunctionOnSet(f, S) = f[x] + SumFunctionOnSet(f, U)
    BY <1>1, <2>1, <2>3
  <2> QED  BY <1>4, <2>4 DEF U, x
<1> QED  BY <1>1, <1>3, <1>4

(* and of any other element, as integers may be added in any order.        *)
LEMMA SumTakes ==
  ASSUME NEW f, NEW S, IsFiniteSet(S), \A x \in S : f[x] \in Int
  PROVE  /\ SumFunctionOnSet(f, S) \in Int
         /\ \A x \in S : SumFunctionOnSet(f, S) = f[x] + SumFunctionOnSet(f, S \ {x})
<1> DEFINE Good(R) == /\ SumFunctionOnSet(f, R) \in Int
                      /\ \A x \in R : SumFunctionOnSet(f, R) = f[x] + SumFunctionOnSet(f, R \ {x})
           Bad == {R \in SUBSET S : ~Good(R)}
<1> SUFFICES ASSUME Bad # {}  PROVE FALSE
  OBVIOUS
<1>1. PICK R \in Bad : \A T \in Bad : T \subseteq R => T = R
  <2>1. Bad \in SUBSET (SUBSET S)
    OBVIOUS
  <2> HIDE DEF Bad
  <2> QED  BY <2>1, SmallestSet
<1>2. \A T \in SUBSET R : T # R => Good(T)
  BY <1>1
<1>3. IsFiniteSet(R) /\ R \in SUBSET S
  BY FS_Subset
<1>4. CASE R = {}
  <2>1. SumFunctionOnSet(f, R) = 0
    BY <1>3, <1>4, SumFirst
  <2>2. Good(R)
    BY <1>4, <2>1
  <2> QED  BY <1>1, <2>2
<1>5. CASE R # {}
  <2> DEFINE y == FirstOf(R)
  <2>1. y \in R /\ f[y] \in Int
    BY <1>5 DEF FirstOf
  <2>2. SumFunctionOnSet(f, R) = f[y] + SumFunctionOnSet(f, R \ {y})
    BY <1>3, <1>5, SumFirst
  <2> HIDE DEF y
  <2>3. SumFunctionOnSet(f, R \ {y}) \in Int
    BY <1>2, <2>1
  <2>4. ASSUME NEW x \in R
        PROVE  SumFunctionOnSet(f, R) = f[x] + SumFunctionOnSet(f, R \ {x})
    <3>1. CASE x = y
      BY <2>2, <3>1
    <3>2. CASE x # y
      <4> DEFINE U == (R \ {y}) \ {x}
      <4>1. SumFunctionOnSet(f, R \ {y}) = f[x] + SumFunctionOnSet(f, U)
        BY <1>2, <2>1, <3>2
      <4>2. SumFunctionOnSet(f, R \ {x}) = f[y] + SumFunctionOnSet(f, (R \ {x}) \ {y})
        BY <1>2, <2>1, <3>2
      <4>3. (R \ {x}) \ {y} = U
        OBVIOUS
      <4>4. SumFunctionOnSet(f, U) \in Int
        BY <1>2, <2>1
      <4>5. f[x] \in Int /\ f[y] \in Int
        BY <2>1
      <4> DEFINE u == SumFunctionOnSet(f, U)
      <4>6. SumFunctionOnSet(f, R) = f[y] + (f[x] + u)
        BY <2>2, <4>1
      <4>7. f[x] + SumFunctionOnSet(f, R \ {x}) = f[x] + (f[y] + u)
        BY <4>2, <4>3
      <4> HIDE DEF U, u
      <4>8. u \in Int
        BY <4>4 DEF u
      <4> QED  BY <4>5, <4>6, <4>7, <4>8
    <3> QED  BY <3>1, <3>2
  <2> QED  BY <1>1, <2>1, <2>2, <2>3, <2>4
<1> QED  BY <1>4, <1>5

(* A sum of naturals is one,                                               *)
LEMMA SumIsNatural ==
  ASSUME NEW f, NEW S, IsFiniteSet(S), \A x \in S : f[x] \in Nat
  PROVE  SumFunctionOnSet(f, S) \in Nat
<1> DEFINE Bad == {R \in SUBSET S : SumFunctionOnSet(f, R) \notin Nat}
<1> SUFFICES ASSUME Bad # {}  PROVE FALSE
  OBVIOUS
<1>1. PICK R \in Bad : \A T \in Bad : T \subseteq R => T = R
  <2>1. Bad \in SUBSET (SUBSET S)
    OBVIOUS
  <2> HIDE DEF Bad
  <2> QED  BY <2>1, SmallestSet
<1>2. IsFiniteSet(R)
  BY FS_Subset
<1>3. R # {}
  <2>1. R = {} => SumFunctionOnSet(f, R) = 0
    BY <1>2, SumFirst
  <2> QED  BY <2>1
<1>4. PICK x \in R : TRUE
  BY <1>3
<1>5. SumFunctionOnSet(f, R \ {x}) \in Nat
  BY <1>1
<1>6. SumFunctionOnSet(f, R) = f[x] + SumFunctionOnSet(f, R \ {x})
  BY <1>2, SumTakes
<1>7. f[x] \in Nat
  OBVIOUS
<1> QED  BY <1>5, <1>6, <1>7

(* functions that agree on a set have one sum over it,                     *)
LEMMA SumsAlike ==
  ASSUME NEW f, NEW g, NEW S, IsFiniteSet(S), \A x \in S : f[x] \in Int /\ f[x] = g[x]
  PROVE  SumFunctionOnSet(f, S) = SumFunctionOnSet(g, S)
<1> DEFINE Bad == {R \in SUBSET S : SumFunctionOnSet(f, R) # SumFunctionOnSet(g, R)}
<1> SUFFICES ASSUME Bad # {}  PROVE FALSE
  OBVIOUS
<1>1. PICK R \in Bad : \A T \in Bad : T \subseteq R => T = R
  <2>1. Bad \in SUBSET (SUBSET S)
    OBVIOUS
  <2> HIDE DEF Bad
  <2> QED  BY <2>1, SmallestSet
<1>2. IsFiniteSet(R)
  BY FS_Subset
<1>3. R # {}
  <2>1. R = {} => SumFunctionOnSet(f, R) = 0 /\ SumFunctionOnSet(g, R) = 0
    BY <1>2, SumFirst
  <2> QED  BY <2>1
<1>4. PICK x \in R : TRUE
  BY <1>3
<1>5. SumFunctionOnSet(f, R \ {x}) = SumFunctionOnSet(g, R \ {x})
  BY <1>1
<1>6. SumFunctionOnSet(f, R) = f[x] + SumFunctionOnSet(f, R \ {x})
  BY <1>2, SumTakes
<1>7. SumFunctionOnSet(g, R) = g[x] + SumFunctionOnSet(g, R \ {x})
  BY <1>2, SumTakes
<1>8. f[x] = g[x]
  OBVIOUS
<1> QED  BY <1>5, <1>6, <1>7, <1>8

(* a sum over two sets apart is that of their sums,                        *)
LEMMA SumOfParts ==
  ASSUME NEW f, NEW S, NEW T, IsFiniteSet(S), IsFiniteSet(T), S \cap T = {},
         \A x \in S \cup T : f[x] \in Int
  PROVE  SumFunctionOnSet(f, S \cup T) = SumFunctionOnSet(f, S) + SumFunctionOnSet(f, T)
<1> DEFINE Bad == {R \in SUBSET S :
                     SumFunctionOnSet(f, R \cup T) # SumFunctionOnSet(f, R) + SumFunctionOnSet(f, T)}
<1> SUFFICES ASSUME Bad # {}  PROVE FALSE
  OBVIOUS
<1>1. PICK R \in Bad : \A U \in Bad : U \subseteq R => U = R
  <2>1. Bad \in SUBSET (SUBSET S)
    OBVIOUS
  <2> HIDE DEF Bad
  <2> QED  BY <2>1, SmallestSet
<1>2. IsFiniteSet(R) /\ IsFiniteSet(R \cup T) /\ R \in SUBSET S
  BY FS_Subset, FS_Union
<1>3. SumFunctionOnSet(f, T) \in Int
  BY SumTakes
<1>4. R # {}
  <2>1. SUFFICES ASSUME R = {}  PROVE FALSE
    OBVIOUS
  <2>2. SumFunctionOnSet(f, R) = 0
    BY <1>2, <2>1, SumFirst
  <2>3. R \cup T = T
    BY <2>1
  <2> DEFINE t == SumFunctionOnSet(f, T)
  <2>4. SumFunctionOnSet(f, R \cup T) = t /\ SumFunctionOnSet(f, R) + t = 0 + t
    BY <2>2, <2>3
  <2>5. t \in Int
    BY <1>3
  <2>6. R \in Bad
    OBVIOUS
  <2> HIDE DEF t
  <2>7. SumFunctionOnSet(f, R \cup T) = SumFunctionOnSet(f, R) + t
    BY <2>4, <2>5
  <2> QED  BY <2>6, <2>7 DEF t
<1>5. PICK x \in R : TRUE
  BY <1>4
<1> DEFINE U == R \ {x}
<1>6. U \in SUBSET R /\ U # R /\ (R \cup T) \ {x} = U \cup T /\ x \in R \cup T
  BY <1>2
<1> HIDE DEF U
<1>7. SumFunctionOnSet(f, U \cup T) = SumFunctionOnSet(f, U) + SumFunctionOnSet(f, T)
  BY <1>1, <1>6
<1>8. SumFunctionOnSet(f, R) = f[x] + SumFunctionOnSet(f, U)
  BY <1>2, SumTakes DEF U
<1>9. SumFunctionOnSet(f, R \cup T) = f[x] + SumFunctionOnSet(f, U \cup T)
  <2>1. \A y \in R \cup T : f[y] \in Int
    BY <1>2
  <2> QED  BY <1>2, <1>6, <2>1, SumTakes
<1>10. f[x] \in Int /\ SumFunctionOnSet(f, U) \in Int
  <2>1. IsFiniteSet(U) /\ \A y \in U : f[y] \in Int
    BY <1>2, <1>6, FS_Subset
  <2>2. SumFunctionOnSet(f, U) \in Int
    BY <2>1, SumTakes
  <2> QED  BY <1>2, <2>2
<1> DEFINE u == SumFunctionOnSet(f, U)
           t == SumFunctionOnSet(f, T)
<1>11. SumFunctionOnSet(f, R \cup T) = f[x] + (u + t) /\ SumFunctionOnSet(f, R) + t = (f[x] + u) + t
  BY <1>7, <1>8, <1>9
<1>12. u \in Int /\ t \in Int
  BY <1>3, <1>10
<1> HIDE DEF u
<1>13. SumFunctionOnSet(f, R \cup T) = SumFunctionOnSet(f, R) + t
  <2> HIDE DEF t
  <2> QED  BY <1>10, <1>11, <1>12
<1> QED  BY <1>13

(* and where every term counts a set, and the sets are apart, it counts    *)
(* what is in any of them.                                                 *)
LEMMA SumCounts ==
  ASSUME NEW f, NEW U, NEW S, IsFiniteSet(S),
         \A x \in S : IsFiniteSet(U[x]) /\ f[x] = Cardinality(U[x]),
         \A x, y \in S : x # y => U[x] \cap U[y] = {}
  PROVE  /\ IsFiniteSet(UNION {U[x] : x \in S})
         /\ SumFunctionOnSet(f, S) = Cardinality(UNION {U[x] : x \in S})
<1> DEFINE All(R) == UNION {U[x] : x \in R}
           Good(R) == IsFiniteSet(All(R)) /\ SumFunctionOnSet(f, R) = Cardinality(All(R))
           Bad == {R \in SUBSET S : ~Good(R)}
<1> SUFFICES ASSUME Bad # {}  PROVE FALSE
  OBVIOUS
<1>1. PICK R \in Bad : \A T \in Bad : T \subseteq R => T = R
  <2>1. Bad \in SUBSET (SUBSET S)
    OBVIOUS
  <2> HIDE DEF Bad
  <2> QED  BY <2>1, SmallestSet
<1>2. IsFiniteSet(R) /\ R \in SUBSET S
  BY FS_Subset
<1>3. R # {}
  <2>1. SUFFICES ASSUME R = {}  PROVE FALSE
    OBVIOUS
  <2>2. SumFunctionOnSet(f, R) = 0
    BY <1>2, <2>1, SumFirst
  <2>3. All(R) = {}
    BY <2>1
  <2>4. IsFiniteSet({}) /\ Cardinality({}) = 0
    BY FS_EmptySet
  <2> HIDE DEF All
  <2> QED  BY <1>1, <2>2, <2>3, <2>4
<1>4. PICK x \in R : TRUE
  BY <1>3
<1> DEFINE V == R \ {x}
<1>5. IsFiniteSet(All(V)) /\ SumFunctionOnSet(f, V) = Cardinality(All(V))
  <2>1. V \in SUBSET S /\ V # R /\ V \subseteq R
    BY <1>2
  <2> HIDE DEF V, Good
  <2>2. Good(V)
    BY <1>1, <2>1
  <2> QED  BY <2>2 DEF Good
<1>6. All(R) = All(V) \cup U[x]
  OBVIOUS
<1>7. All(V) \cap U[x] = {}
  BY <1>2
<1>8. \A y \in R : f[y] \in Int
  BY <1>2, FS_CardinalityType
<1>9. SumFunctionOnSet(f, R) = f[x] + SumFunctionOnSet(f, V)
  BY <1>2, <1>8, SumTakes
<1>10. IsFiniteSet(U[x]) /\ f[x] = Cardinality(U[x])
  BY <1>2
<1>11. R \in Bad
  OBVIOUS
<1> HIDE DEF All, V
<1>12. IsFiniteSet(All(R))
  <2>1. IsFiniteSet(All(V) \cup U[x])
    BY <1>5, <1>10, FS_Union
  <2> QED  BY <1>6, <2>1
<1>13. Cardinality(All(R)) = Cardinality(All(V)) + Cardinality(U[x]) - Cardinality(All(V) \cap U[x])
  BY <1>5, <1>6, <1>10, FS_Union
<1>14. Cardinality(All(V)) \in Nat /\ Cardinality(U[x]) \in Nat
  BY <1>5, <1>10, FS_CardinalityType
<1>15. Cardinality(All(V) \cap U[x]) = 0
  BY <1>7, FS_EmptySet
<1>16. SumFunctionOnSet(f, R) = Cardinality(All(R))
  BY <1>5, <1>9, <1>10, <1>13, <1>14, <1>15
<1> QED  BY <1>11, <1>12, <1>16

-----------------------------------------------------------------------------
(* What a function of a finite domain takes as values is finite.           *)
LEMMA ImageFinite ==
  ASSUME NEW S, IsFiniteSet(S), NEW f, DOMAIN f = S, f = [x \in S |-> f[x]]
  PROVE  IsFiniteSet({f[x] : x \in S})
<1> DEFINE T == {f[x] : x \in S}
<1>1. f \in [S -> T]
  OBVIOUS
<1>2. \A y \in T : \E x \in S : f[x] = y
  OBVIOUS
<1> HIDE DEF T
<1>3. f \in Surjection(S, T)
  BY <1>1, <1>2 DEF Surjection
<1>4. IsFiniteSet(T)
  BY <1>3, FS_Surjection
<1> QED  BY <1>4 DEF T

(* A finite nonempty set of naturals has a greatest element.               *)
LEMMA TopExists ==
  ASSUME NEW S, IsFiniteSet(S)
  PROVE  S # {} /\ S \subseteq Nat => \E m \in S : \A x \in S : x <= m
<1> DEFINE Without == {T \in SUBSET S : T # {} /\ T \subseteq Nat /\ ~\E m \in T : \A x \in T : x <= m}
<1>1. Without = {}
  <2> SUFFICES ASSUME Without # {}  PROVE FALSE
    OBVIOUS
  <2>1. PICK T \in Without : \A U \in Without : U \subseteq T => U = T
    <3>1. Without \in SUBSET (SUBSET S)
      OBVIOUS
    <3> HIDE DEF Without
    <3> QED  BY <3>1, SmallestSet
  <2>2. T \in SUBSET Nat /\ T # {} /\ ~\E m \in T : \A x \in T : x <= m
    OBVIOUS
  <2>3. PICK x \in T : TRUE
    BY <2>2
  <2> DEFINE U == T \ {x}
  <2>4. U \in SUBSET S /\ U # T /\ U \subseteq T /\ U \subseteq Nat
    BY <2>2, <2>3
  <2>5. CASE U = {}
    <3>1. \A y \in T : y <= x
      BY <2>2, <2>3, <2>5
    <3> QED  BY <2>2, <2>3, <3>1
  <2>6. CASE U # {}
    <3>1. PICK m \in U : \A y \in U : y <= m
      BY <2>1, <2>4, <2>6
    <3>2. \A y \in T : y = x \/ y <= m
      BY <3>1
    <3>3. m \in Nat /\ x \in Nat /\ m \in T
      BY <2>2, <2>3, <3>1
    <3>4. CASE m <= x
      <4>1. ASSUME NEW y \in T  PROVE y <= x
        <5>1. y \in Nat /\ (y = x \/ y <= m)
          BY <2>2, <3>2
        <5> QED  BY <3>3, <3>4, <5>1
      <4> QED  BY <2>2, <2>3, <4>1
    <3>5. CASE x <= m
      <4>1. \A y \in T : y <= m
        BY <3>2, <3>5
      <4> QED  BY <2>2, <3>3, <4>1
    <3> QED  BY <3>3, <3>4, <3>5
  <2> QED  BY <2>5, <2>6
<1> QED  BY <1>1

(* Max of a nonempty finite set of naturals is its greatest element.       *)
LEMMA FiniteGreatest ==
  ASSUME NEW S, S \subseteq Nat, IsFiniteSet(S), S # {}
  PROVE  Max(S) \in S /\ \A x \in S : x <= Max(S)
<1>1. \E m \in S : \A x \in S : x <= m
  BY TopExists
<1> QED  BY <1>1 DEF Max
=============================================================================
