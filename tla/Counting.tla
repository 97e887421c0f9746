----------------------------- MODULE Counting -----------------------------
(***************************************************************************)
(* Sets of bounded size, the largest of a set of numbers, and sums over    *)
(* finite sets: what the proofs of more than one component need of them.   *)
(***************************************************************************)
EXTENDS Integers, FiniteSets, FiniteSetTheorems, WellFoundedInduction, TLAPS

AtMost(S, n) == IsFiniteSet(S) /\ Cardinality(S) <= n

(* Nothing is as much as nothing. *)
LEMMA NoneAtMost == AtMost({}, 0)
BY FS_EmptySet DEF AtMost

(* Less is no more. *)
LEMMA Fewer ==
  ASSUME NEW S, NEW n \in Nat, NEW m \in Nat, AtMost(S, n), n <= m, NEW T, T \subseteq S
  PROVE  AtMost(T, m)
<1>1. IsFiniteSet(S) /\ T \in SUBSET S
  BY DEF AtMost
<1>2. IsFiniteSet(T) /\ Cardinality(T) <= Cardinality(S)
  BY <1>1, FS_Subset
<1>3. Cardinality(T) \in Nat /\ Cardinality(S) \in Nat
  BY <1>1, <1>2, FS_CardinalityType
<1>4. QED BY <1>2, <1>3 DEF AtMost

(* One more is at most one more. *)
LEMMA OneMore ==
  ASSUME NEW S, NEW n \in Nat, NEW m \in Nat, AtMost(S, n), n + 1 <= m,
         NEW x, NEW T, T \subseteq S \cup {x}
  PROVE  AtMost(T, m)
<1>1. IsFiniteSet(S) /\ Cardinality(S) \in Nat /\ Cardinality(S) <= n
  BY FS_CardinalityType DEF AtMost
<1>2. /\ IsFiniteSet(S \cup {x})
      /\ Cardinality(S \cup {x}) \in {Cardinality(S), Cardinality(S) + 1}
  BY <1>1, FS_AddElement
<1>3. AtMost(S \cup {x}, n + 1)
  BY <1>1, <1>2 DEF AtMost
<1>4. QED BY <1>3, Fewer

(* One for another is no more. *)
LEMMA Replaced ==
  ASSUME NEW S, NEW n \in Nat, NEW m \in Nat, AtMost(S, n), n <= m,
         NEW x \in S, NEW y, NEW T, T \subseteq (S \ {x}) \cup {y}
  PROVE  AtMost(T, m)
<1>1. /\ IsFiniteSet(S \ {x}) /\ Cardinality(S \ {x}) = Cardinality(S) - 1
      /\ Cardinality(S) \in Nat /\ Cardinality(S \ {x}) \in Nat
  BY FS_RemoveElement, FS_CardinalityType DEF AtMost
<1>2. PICK k \in Nat : AtMost(S \ {x}, k) /\ k + 1 <= m
  <2>1. AtMost(S \ {x}, n - 1) /\ n - 1 \in Nat /\ (n - 1) + 1 <= m
    BY <1>1 DEF AtMost
  <2>2. QED BY <2>1
<1>3. QED BY <1>2, OneMore

(* Two of them together are at most as many. *)
LEMMA Together ==
  ASSUME NEW S, NEW n \in Nat, NEW T, NEW m \in Nat, AtMost(S, n), AtMost(T, m)
  PROVE  AtMost(S \cup T, n + m)
<1>1. /\ IsFiniteSet(S \cup T)
      /\ Cardinality(S \cup T) = Cardinality(S) + Cardinality(T) - Cardinality(S \cap T)
      /\ IsFiniteSet(S \cap T)
  BY FS_Union, FS_Intersection DEF AtMost
<1>2. /\ Cardinality(S) \in Nat /\ Cardinality(T) \in Nat /\ Cardinality(S \cap T) \in Nat
  BY <1>1, FS_CardinalityType DEF AtMost
<1>3. QED BY <1>1, <1>2 DEF AtMost

(* If each is found at a place of its own, there are as many places.         *)
LEMMA OneEach ==
  ASSUME NEW S, NEW n \in Nat, AtMost(S, n), NEW T, NEW f,
         \A x \in T : f[x] \in S, \A x, y \in T : f[x] = f[y] => x = y
  PROVE  AtMost(T, n)
<1> DEFINE g == [x \in T |-> f[x]]
<1>1. g \in Injection(T, S)
  BY DEF Injection, IsInjective
<1> HIDE DEF g
<1>2. IsFiniteSet(T) /\ Cardinality(T) <= Cardinality(S)
  BY <1>1, FS_Injection DEF AtMost
<1>3. Cardinality(S) \in Nat /\ Cardinality(T) \in Nat
  BY <1>2, FS_CardinalityType DEF AtMost
<1>4. QED BY <1>2, <1>3 DEF AtMost

(* Some number of a set of natural numbers is the least. *)
LEMMA LeastIs ==
  ASSUME NEW S, S # {}, S \subseteq Nat
  PROVE  \E m \in S : \A k \in S : m <= k
<1>1. PICK m \in S : \A k \in S : ~(<<k, m>> \in OpToRel(<, Nat))
  BY NatLessThanWellFounded, WFMin
<1>2. \A k \in S : ~(<<k, m>> \in {ss \in Nat \X Nat : ss[1] < ss[2]})
  BY <1>1 DEF OpToRel
<1>3. \A k \in Nat : k < m => <<k, m>> \in {ss \in Nat \X Nat : ss[1] < ss[2]}
  OBVIOUS
<1>4. \A k \in S : ~(k < m)
  BY <1>2, <1>3
<1>5. QED BY <1>4

(* Numbers that are bounded have a largest one among them. *)
LEMMA LargestIs ==
  ASSUME NEW n \in Nat, NEW S, S # {}, S \subseteq 0..n
  PROVE  \E m \in S : \A k \in S : k <= m
<1> DEFINE T == {n - k : k \in S}
<1>1. /\ \A k \in S : k \in Nat /\ k <= n /\ n - k \in Nat
      /\ T # {} /\ T \subseteq Nat
  <2>1. \A k \in S : k \in Nat /\ k <= n
    OBVIOUS
  <2>2. \A k \in S : n - k \in Nat
    BY <2>1
  <2>3. \A x \in T : \E k \in S : x = n - k
    OBVIOUS
  <2>4. \A k \in S : n - k \in T
    OBVIOUS
  <2> HIDE DEF T
  <2>5. T # {}
    BY <2>4
  <2>6. T \subseteq Nat
    BY <2>2, <2>3
  <2>7. QED BY <2>1, <2>2, <2>5, <2>6
<1>2. PICK x \in T : \A y \in T : x <= y
  <2> HIDE DEF T
  <2>1. QED BY <1>1, LeastIs
<1>3. PICK m \in S : x = n - m
  OBVIOUS
<1>4. \A k \in S : x <= n - k
  BY <1>2
<1>5. QED BY <1>1, <1>3, <1>4

-----------------------------------------------------------------------------
(***************************************************************************)
(* Sums over finite sets.  The library's fold takes the elements of a set  *)
(* in an order of its own; a sum does not depend on it.                    *)
(***************************************************************************)

(* Of finite sets, some have no smaller ones among them: what is wrong of    *)
(* some subset is wrong of one without an element to spare.                  *)
LEMMA SmallestIs ==
  ASSUME NEW S, IsFiniteSet(S), NEW F, F # {}, F \subseteq SUBSET S
  PROVE  \E T \in F : \A x \in T : T \ {x} \notin F
<1> DEFINE N == {Cardinality(T) : T \in F}
<1>1. \A T \in F : IsFiniteSet(T) /\ Cardinality(T) \in Nat
  BY FS_Subset, FS_CardinalityType
<1>2. N # {} /\ N \subseteq Nat
  BY <1>1
<1>3. PICK n \in N : \A m \in N : n <= m
  <2> HIDE DEF N
  <2>1. QED BY <1>2, LeastIs
<1>4. PICK T \in F : n = Cardinality(T)
  OBVIOUS
<1>5. ASSUME NEW x \in T, T \ {x} \in F
      PROVE  FALSE
  <2>1. Cardinality(T \ {x}) = Cardinality(T) - 1
    BY <1>1, FS_RemoveElement
  <2>2. Cardinality(T) <= Cardinality(T \ {x})
    BY <1>3, <1>4, <1>5
  <2>3. QED BY <1>1, <2>1, <2>2
<1>6. QED BY <1>5

Any(T) == CHOOSE x \in T : TRUE
\* g adds up w over every subset of S, as the library's fold does it.
Sums(g, w, S) ==
  g = [T \in SUBSET S |-> IF T = {} THEN 0 ELSE w[Any(T)] + g[T \ {Any(T)}]]
IntegersOn(w, S) == \A x \in S : w[x] \in Int
NaturalsOn(w, S) == \A x \in S : w[x] \in Nat

(* There is such a g, however large the finite set. *)
LEMMA SumExists ==
  ASSUME NEW S, IsFiniteSet(S), NEW w
  PROVE  \E g : Sums(g, w, S)
<1> DEFINE Upto(n) == {T \in SUBSET S : Cardinality(T) <= n}
           Good(g, n) == g = [T \in Upto(n) |->
                                IF T = {} THEN 0 ELSE w[Any(T)] + g[T \ {Any(T)}]]
           Bad == {n \in Nat : \A g : ~Good(g, n)}
<1>1. \A T \in SUBSET S : IsFiniteSet(T) /\ Cardinality(T) \in Nat
  BY FS_Subset, FS_CardinalityType
<1>2. \A T \in SUBSET S : T # {} =>
        /\ Any(T) \in T /\ T \ {Any(T)} \in SUBSET S
        /\ Cardinality(T \ {Any(T)}) = Cardinality(T) - 1
  <2> SUFFICES ASSUME NEW T \in SUBSET S, T # {}
               PROVE  /\ Any(T) \in T /\ T \ {Any(T)} \in SUBSET S
                      /\ Cardinality(T \ {Any(T)}) = Cardinality(T) - 1
    OBVIOUS
  <2>1. Any(T) \in T
    BY DEF Any
  <2>2. Cardinality(T \ {Any(T)}) = Cardinality(T) - 1
    BY <1>1, <2>1, FS_RemoveElement
  <2>3. QED BY <2>1, <2>2
<1>3. ASSUME NEW T \in SUBSET S, T # {}
      PROVE  Cardinality(T) >= 1
  <2>1. Cardinality(T \ {Any(T)}) \in Nat /\ Cardinality(T) \in Nat
    BY <1>1
  <2>2. Cardinality(T \ {Any(T)}) = Cardinality(T) - 1
    BY <1>2, <1>3
  <2>3. QED BY <2>1, <2>2
<1>4. ASSUME Bad # {}
      PROVE  FALSE
  <2>1. PICK n \in Bad : \A m \in Bad : n <= m
    <3>1. Bad \subseteq Nat
      OBVIOUS
    <3> HIDE DEF Bad
    <3>2. QED BY <1>4, <3>1, LeastIs
  <2>2. n \in Nat
    OBVIOUS
  <2>3. CASE n = 0
    <3> DEFINE g == [T \in Upto(n) |-> 0]
    <3>1. \A T \in Upto(n) : T = {}
      BY <1>1, <1>3, <2>3
    <3>2. g = [T \in Upto(n) |-> IF T = {} THEN 0 ELSE w[Any(T)] + g[T \ {Any(T)}]]
      BY <3>1
    <3> HIDE DEF g
    <3>3. Good(g, n)
      BY <3>2
    <3>4. QED BY <3>3
  <2>4. CASE n # 0
    <3>1. n - 1 \in Nat /\ ~(n <= n - 1)
      BY <2>2, <2>4
    <3>2. n - 1 \notin Bad
      BY <2>1, <3>1
    <3>3. PICK f : Good(f, n - 1)
      BY <3>1, <3>2
    <3> DEFINE h == [T \in Upto(n) |-> IF T = {} THEN 0 ELSE w[Any(T)] + f[T \ {Any(T)}]]
    <3>4. \A T \in Upto(n) : T # {} => T \ {Any(T)} \in Upto(n - 1)
      BY <1>1, <1>2, <2>2
    <3>5. \A T \in Upto(n - 1) : T \in Upto(n) /\ h[T] = f[T]
      <4>1. \A T \in Upto(n - 1) : T \in Upto(n)
        BY <1>1, <2>2
      <4>2. \A T \in Upto(n - 1) : f[T] = IF T = {} THEN 0 ELSE w[Any(T)] + f[T \ {Any(T)}]
        BY <3>3
      <4>3. \A T \in Upto(n) : h[T] = IF T = {} THEN 0 ELSE w[Any(T)] + f[T \ {Any(T)}]
        OBVIOUS
      <4> HIDE DEF h, Good, Upto
      <4>4. QED BY <4>1, <4>2, <4>3
    <3>6. \A T \in Upto(n) : T # {} => h[T \ {Any(T)}] = f[T \ {Any(T)}]
      <4> HIDE DEF h, Good, Upto
      <4>1. QED BY <3>4, <3>5
    <3>7. h = [T \in Upto(n) |-> IF T = {} THEN 0 ELSE w[Any(T)] + h[T \ {Any(T)}]]
      <4> DEFINE k == [T \in Upto(n) |-> IF T = {} THEN 0 ELSE w[Any(T)] + h[T \ {Any(T)}]]
      <4>1. \A T \in Upto(n) : h[T] = IF T = {} THEN 0 ELSE w[Any(T)] + f[T \ {Any(T)}]
        OBVIOUS
      <4>2. h = [T \in Upto(n) |-> h[T]]
        OBVIOUS
      <4> HIDE DEF h, Good, Upto
      <4>3. \A T \in Upto(n) : h[T] = IF T = {} THEN 0 ELSE w[Any(T)] + h[T \ {Any(T)}]
        BY <3>6, <4>1
      <4>4. QED BY <4>2, <4>3
    <3> HIDE DEF h
    <3>8. Good(h, n)
      BY <3>7
    <3>9. QED BY <3>8
  <2>5. QED BY <2>3, <2>4
<1>5. Cardinality(S) \notin Bad
  BY <1>4
<1>6. PICK g : Good(g, Cardinality(S))
  BY <1>1, <1>5
<1>7. Upto(Cardinality(S)) = SUBSET S
  BY FS_Subset
<1>8. Sums(g, w, S)
  BY <1>6, <1>7 DEF Sums
<1>9. QED BY <1>8

(* What the definition says, one set at a time. *)
LEMMA SumStep ==
  ASSUME NEW S, NEW w, NEW g, Sums(g, w, S)
  PROVE  /\ g[{}] = 0
         /\ \A T \in SUBSET S : T # {} =>
              /\ Any(T) \in T
              /\ g[T] = w[Any(T)] + g[T \ {Any(T)}]
<1>1. g[{}] = 0
  BY DEF Sums
<1>2. ASSUME NEW T \in SUBSET S, T # {}
      PROVE  Any(T) \in T /\ g[T] = w[Any(T)] + g[T \ {Any(T)}]
  <2>1. Any(T) \in T
    BY <1>2 DEF Any
  <2>2. g[T] = IF T = {} THEN 0 ELSE w[Any(T)] + g[T \ {Any(T)}]
    BY DEF Sums
  <2>3. QED BY <1>2, <2>1, <2>2
<1>3. QED BY <1>1, <1>2

(* Sums of integers are integers. *)
LEMMA SumIsInt ==
  ASSUME NEW S, IsFiniteSet(S), NEW w, IntegersOn(w, S), NEW g, Sums(g, w, S)
  PROVE  \A T \in SUBSET S : g[T] \in Int
<1>0. /\ g[{}] = 0
      /\ \A T \in SUBSET S : T # {} => Any(T) \in T /\ g[T] = w[Any(T)] + g[T \ {Any(T)}]
  BY SumStep
<1> DEFINE Bad == {T \in SUBSET S : g[T] \notin Int}
<1>1. ASSUME NEW T \in Bad, \A x \in T : T \ {x} \notin Bad
      PROVE  FALSE
  <2>1. T # {}
    <3>1. T \in SUBSET S /\ g[T] \notin Int /\ 0 \in Int
      OBVIOUS
    <3>2. QED BY <1>0, <3>1, Zenon
  <2>2. Any(T) \in T /\ g[T] = w[Any(T)] + g[T \ {Any(T)}]
    BY <1>0, <2>1
  <2>3. g[T \ {Any(T)}] \in Int
    BY <1>1, <2>2
  <2>4. QED BY <2>2, <2>3 DEF IntegersOn
<1>2. Bad \subseteq SUBSET S
  OBVIOUS
<1>3. Bad = {}
  <2> HIDE DEF Bad
  <2>1. QED BY <1>1, <1>2, SmallestIs
<1>4. QED BY <1>3

(* Any element can be the one that is added last. *)
LEMMA SumWithout ==
  ASSUME NEW S, IsFiniteSet(S), NEW w, IntegersOn(w, S), NEW g, Sums(g, w, S)
  PROVE  \A T \in SUBSET S : \A x \in T : g[T] = w[x] + g[T \ {x}]
<1> DEFINE Bad == {T \in SUBSET S : \E x \in T : g[T] # w[x] + g[T \ {x}]}
<1>0. /\ g[{}] = 0
      /\ \A T \in SUBSET S : T # {} => Any(T) \in T /\ g[T] = w[Any(T)] + g[T \ {Any(T)}]
  BY SumStep
<1>1. ASSUME NEW T \in Bad, \A x \in T : T \ {x} \notin Bad
      PROVE  FALSE
  <2>1. PICK x \in T : g[T] # w[x] + g[T \ {x}]
    OBVIOUS
  <2> DEFINE y == Any(T)
  <2>2. y \in T /\ g[T] = w[y] + g[T \ {y}]
    BY <1>0, <2>1
  <2> HIDE DEF y
  <2>3. x # y
    BY <2>1, <2>2
  <2>4. g[T \ {y}] = w[x] + g[(T \ {y}) \ {x}]
    BY <1>1, <2>2, <2>3
  <2>5. y \in T \ {x} /\ T \ {x} \notin Bad
    BY <1>1, <2>2, <2>3
  <2>6. g[T \ {x}] = w[y] + g[(T \ {x}) \ {y}]
    BY <2>5
  <2>7. (T \ {x}) \ {y} = (T \ {y}) \ {x} /\ (T \ {x}) \ {y} \in SUBSET S
    OBVIOUS
  <2>8. w[x] \in Int /\ w[y] \in Int /\ g[(T \ {x}) \ {y}] \in Int
    <3>1. x \in S /\ y \in S
      BY <2>2
    <3>2. QED BY <2>7, <3>1, SumIsInt DEF IntegersOn
  <2> DEFINE r == g[(T \ {x}) \ {y}]
  <2>9. /\ g[T] = w[y] + g[T \ {y}] /\ g[T \ {y}] = w[x] + r
        /\ g[T \ {x}] = w[y] + r /\ r \in Int
    BY <2>2, <2>4, <2>6, <2>7, <2>8
  <2> HIDE DEF Bad, r
  <2>10. g[T] = w[x] + g[T \ {x}]
    BY <2>8, <2>9
  <2>11. QED BY <2>1, <2>10
<1>2. Bad \subseteq SUBSET S
  OBVIOUS
<1>3. Bad = {}
  <2> HIDE DEF Bad
  <2>1. QED BY <1>1, <1>2, SmallestIs
<1>4. QED BY <1>3

(* A sum is of the values summed, and of nothing else. *)
LEMMA SumSame ==
  ASSUME NEW S, IsFiniteSet(S), NEW w, NEW g, Sums(g, w, S),
         NEW T, T \subseteq S, NEW v, NEW h, Sums(h, v, T), \A x \in T : v[x] = w[x]
  PROVE  \A U \in SUBSET T : h[U] = g[U]
<1> DEFINE Bad == {U \in SUBSET T : h[U] # g[U]}
<1>0. /\ g[{}] = 0 /\ h[{}] = 0
      /\ \A U \in SUBSET S : U # {} => g[U] = w[Any(U)] + g[U \ {Any(U)}]
      /\ \A U \in SUBSET T : U # {} => Any(U) \in U /\ h[U] = v[Any(U)] + h[U \ {Any(U)}]
  <2>1. g[{}] = 0 /\ \A U \in SUBSET S : U # {} => g[U] = w[Any(U)] + g[U \ {Any(U)}]
    BY SumStep
  <2>2. /\ h[{}] = 0
        /\ \A U \in SUBSET T : U # {} => Any(U) \in U /\ h[U] = v[Any(U)] + h[U \ {Any(U)}]
    BY SumStep
  <2>3. QED BY <2>1, <2>2
<1>1. ASSUME NEW U \in Bad, \A x \in U : U \ {x} \notin Bad
      PROVE  FALSE
  <2>1. U \in SUBSET T /\ U \in SUBSET S /\ U # {}
    BY <1>0
  <2>2. /\ Any(U) \in U /\ h[U] = v[Any(U)] + h[U \ {Any(U)}]
        /\ g[U] = w[Any(U)] + g[U \ {Any(U)}]
    BY <1>0, <2>1
  <2>3. h[U \ {Any(U)}] = g[U \ {Any(U)}]
    BY <1>1, <2>1, <2>2
  <2>4. QED BY <2>1, <2>2, <2>3
<1>2. Bad \subseteq SUBSET T /\ IsFiniteSet(T)
  BY FS_Subset
<1>3. Bad = {}
  <2> HIDE DEF Bad
  <2>1. QED BY <1>1, <1>2, SmallestIs
<1>4. QED BY <1>3

(* The sum of the parts is the sum of the whole. *)
LEMMA SumSplit ==
  ASSUME NEW S, IsFiniteSet(S), NEW w, IntegersOn(w, S), NEW g, Sums(g, w, S),
         NEW T, T \subseteq S
  PROVE  g[S] = g[T] + g[S \ T]
<1> DEFINE Bad == {U \in SUBSET S : g[S] # g[U] + g[S \ U]}
<1>1. ASSUME NEW U \in Bad, \A x \in U : U \ {x} \notin Bad
      PROVE  FALSE
  <2>1. U \in SUBSET S /\ g[S] # g[U] + g[S \ U]
    OBVIOUS
  <2>2. U # {}
    <3>1. S \ {} = S /\ g[{}] = 0 /\ g[S] \in Int
      BY SumStep, SumIsInt
    <3>2. QED BY <2>1, <3>1
  <2>3. PICK x \in U : x \in S
    BY <2>1, <2>2
  <2>4. g[S] = g[U \ {x}] + g[S \ (U \ {x})]
    BY <1>1, <2>1
  <2>5. g[U] = w[x] + g[U \ {x}]
    BY <2>1, SumWithout
  <2>6. g[S \ (U \ {x})] = w[x] + g[(S \ (U \ {x})) \ {x}]
    <3>1. x \in S \ (U \ {x}) /\ S \ (U \ {x}) \in SUBSET S
      BY <2>3
    <3>2. QED BY <3>1, SumWithout
  <2>7. (S \ (U \ {x})) \ {x} = S \ U /\ S \ U \in SUBSET S /\ U \ {x} \in SUBSET S
    BY <2>1
  <2>8. w[x] \in Int /\ g[S \ U] \in Int /\ g[U \ {x}] \in Int
    BY <2>3, <2>7, SumIsInt DEF IntegersOn
  <2> DEFINE r == g[U \ {x}]
  <2>9. g[S] = r + (w[x] + g[S \ U]) /\ g[U] = w[x] + r /\ r \in Int
    BY <2>4, <2>5, <2>6, <2>7, <2>8
  <2> HIDE DEF Bad, r
  <2>10. g[S] = g[U] + g[S \ U]
    BY <2>8, <2>9
  <2>11. QED BY <2>1, <2>10
<1>2. Bad \subseteq SUBSET S
  OBVIOUS
<1>3. Bad = {}
  <2> HIDE DEF Bad
  <2>1. QED BY <1>1, <1>2, SmallestIs
<1>4. QED BY <1>3

(* Values that are made of two parts add up to the sums of the parts. *)
LEMMA SumPlus ==
  ASSUME NEW S, IsFiniteSet(S), NEW v, IntegersOn(v, S), NEW w, IntegersOn(w, S),
         NEW u, \A x \in S : u[x] = v[x] + w[x],
         NEW g, Sums(g, u, S), NEW h, Sums(h, v, S), NEW k, Sums(k, w, S)
  PROVE  \A T \in SUBSET S : g[T] = h[T] + k[T]
<1> DEFINE Bad == {T \in SUBSET S : g[T] # h[T] + k[T]}
<1>0. /\ g[{}] = 0 /\ h[{}] = 0 /\ k[{}] = 0
      /\ \A T \in SUBSET S : T # {} =>
           /\ Any(T) \in T
           /\ g[T] = u[Any(T)] + g[T \ {Any(T)}]
           /\ h[T] = v[Any(T)] + h[T \ {Any(T)}]
           /\ k[T] = w[Any(T)] + k[T \ {Any(T)}]
  <2>1. /\ g[{}] = 0
        /\ \A T \in SUBSET S : T # {} => Any(T) \in T /\ g[T] = u[Any(T)] + g[T \ {Any(T)}]
    BY ONLY Sums(g, u, S), SumStep
  <2>2. h[{}] = 0 /\ \A T \in SUBSET S : T # {} => h[T] = v[Any(T)] + h[T \ {Any(T)}]
    BY ONLY Sums(h, v, S), SumStep
  <2>3. k[{}] = 0 /\ \A T \in SUBSET S : T # {} => k[T] = w[Any(T)] + k[T \ {Any(T)}]
    BY ONLY Sums(k, w, S), SumStep
  <2>4. QED BY <2>1, <2>2, <2>3
<1>1. \A T \in SUBSET S : h[T] \in Int /\ k[T] \in Int
  <2>1. \A T \in SUBSET S : h[T] \in Int
    BY SumIsInt
  <2>2. \A T \in SUBSET S : k[T] \in Int
    BY SumIsInt
  <2>3. QED BY <2>1, <2>2
<1>2. ASSUME NEW T \in Bad, \A x \in T : T \ {x} \notin Bad
      PROVE  FALSE
  <2>1. T \in SUBSET S /\ g[T] # h[T] + k[T]
    OBVIOUS
  <2>2. T # {}
    <3>1. g[{}] = h[{}] + k[{}]
      BY <1>0
    <3>2. QED BY <2>1, <3>1, Zenon
  <2>3. PICK x \in T : /\ g[T] = u[x] + g[T \ {x}] /\ h[T] = v[x] + h[T \ {x}]
                       /\ k[T] = w[x] + k[T \ {x}]
    BY <1>0, <2>1, <2>2
  <2>4. PICK R \in SUBSET S : R = T \ {x}
    BY <2>1
  <2>5. g[R] = h[R] + k[R]
    BY <1>2, <2>1, <2>3, <2>4
  <2>6. h[R] \in Int /\ k[R] \in Int
    BY <1>1
  <2>7. u[x] = v[x] + w[x] /\ v[x] \in Int /\ w[x] \in Int
    BY <2>1, <2>3 DEF IntegersOn
  <2>8. g[T] = u[x] + g[R] /\ h[T] = v[x] + h[R] /\ k[T] = w[x] + k[R]
    BY <2>3, <2>4
  <2>9. QED BY ONLY <2>1, <2>5, <2>6, <2>7, <2>8
<1>3. Bad \subseteq SUBSET S
  OBVIOUS
<1>4. Bad = {}
  <2> HIDE DEF Bad
  <2>1. QED BY <1>2, <1>3, SmallestIs
<1>5. QED BY <1>4

(* A sum of what is not negative is not. *)
LEMMA SumNotNegative ==
  ASSUME NEW S, IsFiniteSet(S), NEW w, NaturalsOn(w, S), NEW g, Sums(g, w, S)
  PROVE  \A T \in SUBSET S : g[T] \in Nat
<1>0. /\ g[{}] = 0
      /\ \A T \in SUBSET S : T # {} => Any(T) \in T /\ g[T] = w[Any(T)] + g[T \ {Any(T)}]
  BY SumStep
<1> DEFINE Bad == {T \in SUBSET S : g[T] \notin Nat}
<1>1. ASSUME NEW T \in Bad, \A x \in T : T \ {x} \notin Bad
      PROVE  FALSE
  <2>1. T # {}
    <3>1. T \in SUBSET S /\ g[T] \notin Nat /\ 0 \in Nat
      OBVIOUS
    <3>2. QED BY <1>0, <3>1, Zenon
  <2>2. Any(T) \in T /\ g[T] = w[Any(T)] + g[T \ {Any(T)}]
    BY <1>0, <2>1
  <2>3. g[T \ {Any(T)}] \in Nat
    BY <1>1, <2>2
  <2>4. w[Any(T)] \in Nat
    BY <2>2 DEF NaturalsOn
  <2>5. QED BY <2>2, <2>3, <2>4
<1>2. Bad \subseteq SUBSET S
  OBVIOUS
<1>3. Bad = {}
  <2> HIDE DEF Bad
  <2>1. QED BY <1>1, <1>2, SmallestIs
<1>4. QED BY <1>3

(* If each has a place of its own that is worth as much, all of them are     *)
(* worth no more than all of the places.                                     *)
LEMMA SumOneEach ==
  ASSUME NEW S, IsFiniteSet(S), NEW w, IntegersOn(w, S), NEW g, Sums(g, w, S),
         NEW C, IsFiniteSet(C), NEW v, NaturalsOn(v, C), NEW h, Sums(h, v, C),
         NEW f, \A x \in S : f[x] \in C /\ w[x] <= v[f[x]],
         \A x, y \in S : f[x] = f[y] => x = y
  PROVE  g[S] <= h[C]
<1> DEFINE Images(T) == {f[x] : x \in T}
           Bad == {T \in SUBSET S : ~(g[T] <= h[Images(T)])}
<1>1. IntegersOn(v, C)
  BY DEF IntegersOn, NaturalsOn
<1>2. ASSUME NEW T \in Bad, \A x \in T : T \ {x} \notin Bad
      PROVE  FALSE
  <2>1. T \in SUBSET S /\ ~(g[T] <= h[Images(T)])
    OBVIOUS
  <2>2. T # {}
    <3>1. Images({}) = {} /\ g[{}] = 0 /\ h[{}] = 0
      BY SumStep
    <3>2. QED BY <2>1, <3>1
  <2>3. PICK x \in T : x \in S
    BY <2>1, <2>2
  <2>4. g[T \ {x}] <= h[Images(T \ {x})]
    BY <1>2, <2>1
  <2>5. /\ f[x] \in Images(T) /\ Images(T) \in SUBSET C
        /\ Images(T \ {x}) = Images(T) \ {f[x]} /\ Images(T \ {x}) \in SUBSET C
    BY <2>1, <2>3
  <2>6. g[T] = w[x] + g[T \ {x}] /\ g[T \ {x}] \in Int /\ w[x] \in Int
    <3>1. T \in SUBSET S /\ T \ {x} \in SUBSET S
      BY <2>1
    <3>2. g[T] = w[x] + g[T \ {x}]
      BY ONLY IsFiniteSet(S), IntegersOn(w, S), Sums(g, w, S), <3>1, SumWithout
    <3>3. g[T \ {x}] \in Int
      BY ONLY IsFiniteSet(S), IntegersOn(w, S), Sums(g, w, S), <3>1, SumIsInt
    <3>4. w[x] \in Int
      BY <2>3 DEF IntegersOn
    <3>5. QED BY <3>2, <3>3, <3>4
  <2> HIDE DEF Images, Bad
  <2>7. h[Images(T)] = v[f[x]] + h[Images(T \ {x})] /\ h[Images(T \ {x})] \in Int
    <3>1. \A U \in SUBSET C : h[U] \in Int
      BY ONLY IsFiniteSet(C), Sums(h, v, C), <1>1, SumIsInt
    <3>2. PICK c : c = f[x]
      OBVIOUS
    <3>3. PICK U \in SUBSET C : U = Images(T) /\ c \in U
      BY <2>5, <3>2
    <3>4. PICK R \in SUBSET C : R = Images(T \ {x}) /\ R = U \ {c}
      BY <2>5, <3>2, <3>3
    <3>5. h[U] = v[c] + h[U \ {c}]
      BY ONLY IsFiniteSet(C), Sums(h, v, C), <1>1, <3>3, SumWithout
    <3>6. h[R] \in Int
      BY ONLY <3>1, <3>4
    <3>7. QED BY <3>2, <3>3, <3>4, <3>5, <3>6
  <2>8. v[f[x]] \in Int /\ w[x] <= v[f[x]]
    BY <2>3 DEF NaturalsOn
  <2>9. QED BY <2>1, <2>4, <2>6, <2>7, <2>8
<1>3. Bad \subseteq SUBSET S
  OBVIOUS
<1>4. Bad = {}
  <2> HIDE DEF Bad
  <2>1. QED BY <1>2, <1>3, SmallestIs
<1>5. g[S] <= h[Images(S)]
  BY <1>4
<1>6. Images(S) \in SUBSET C
  OBVIOUS
<1> HIDE DEF Images
<1>7. h[C] = h[Images(S)] + h[C \ Images(S)]
  <2> DEFINE D == Images(S)
  <2>1. D \subseteq C
    BY <1>6
  <2> HIDE DEF D
  <2>2. h[C] = h[D] + h[C \ D]
    BY <1>1, <2>1, SumSplit
  <2>3. QED BY <2>2 DEF D
<1>8. h[Images(S)] \in Nat /\ h[C \ Images(S)] \in Nat /\ g[S] \in Int
  BY <1>6, SumNotNegative, SumIsInt
<1>9. QED BY <1>5, <1>7, <1>8
=============================================================================
