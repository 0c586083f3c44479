-------------------------- MODULE AlgorithmProofs --------------------------
(***************************************************************************)
(* Proofs about the algorithms that are given a task and answer it:        *)
(* Selection, ScoreTables and Explanation, for any number of candidates,   *)
(* rows, groups, bins and columns.  Each algorithm has a lemma about what  *)
(* it computes from an input; an answer is what was computed from its      *)
(* task.                                                                   *)
(*                                                                         *)
(* The lemmas that are for all three come first.  That a set of numbers    *)
(* has a least and a greatest member comes from the order of Nat being     *)
(* well-founded, and from that comes induction over a finite set, stated   *)
(* for a property that is given as the set of the sets that have it.       *)
(***************************************************************************)
EXTENDS Selection, ScoreTables, Explanation, WellFoundedInduction,
        FiniteSetTheorems, TLAPS

\* A set of natural numbers has a least member.
LEMMA LeastNat ==
  ASSUME NEW T, T \subseteq Nat, T # {}
  PROVE  \E x \in T : \A y \in T : x <= y
<1> DEFINE R == OpToRel(<, Nat)
<1>1. IsWellFoundedOn(R, Nat)
  BY NatLessThanWellFounded
<1>2. \A x, y \in Nat : x < y => <<x, y>> \in R
  BY DEF OpToRel
<1> HIDE DEF R
<1>3. PICK x \in T : \A y \in T : ~ (<<y, x>> \in R)
  BY <1>1, WFMin
<1>4. ASSUME NEW y \in T PROVE x <= y
  <2>1. x \in Nat /\ y \in Nat /\ ~(y < x)
    BY <1>2, <1>3
  <2>. QED  BY <2>1
<1>. QED  BY <1>4

\* Min is the least of a set of natural numbers.
LEMMA MinNat ==
  ASSUME NEW T, T \subseteq Nat, T # {}
  PROVE  Min(T) \in T /\ \A y \in T : Min(T) <= y
BY LeastNat DEF Min

\* Max is the greatest of a set of integers that has a bound.
LEMMA MaxInt ==
  ASSUME NEW T, NEW b \in Int, \A x \in T : x \in Int /\ x <= b, T # {}
  PROVE  Max(T) \in T /\ \A y \in T : Max(T) >= y
<1> DEFINE U == {b - x : x \in T}
<1>0. \A x \in T : x \in Int /\ x <= b /\ b - x \in Nat
  OBVIOUS
<1>1. U \subseteq Nat /\ U # {}
  BY <1>0
<1>2. PICK u \in U : \A y \in U : u <= y
  BY <1>1, LeastNat
<1>3. PICK x \in T : u = b - x
  BY <1>2
<1>4. \A y \in T : x >= y
  <2> SUFFICES ASSUME NEW y \in T PROVE x >= y
    OBVIOUS
  <2>1. b - x <= b - y
    BY <1>2, <1>3
  <2>. QED  BY <1>0, <2>1
<1>. QED  BY <1>4 DEF Max

\* Induction over a finite set, for a property given as the set of the subsets
\* that have it.
LEMMA FiniteInduction ==
  ASSUME NEW S, IsFiniteSet(S), NEW G, {} \in G,
         \A T \in SUBSET S : \A x \in S \ T : T \in G => T \cup {x} \in G
  PROVE  S \in G
<1> DEFINE Sizes == {n \in Nat : \E T \in SUBSET S : T \notin G /\ Cardinality(T) = n}
<1>1. \A T \in SUBSET S : IsFiniteSet(T) /\ Cardinality(T) \in Nat
  BY FS_Subset, FS_CardinalityType
<1> SUFFICES ASSUME S \notin G PROVE FALSE
  OBVIOUS
<1>2. Sizes \subseteq Nat /\ Sizes # {}
  <2>1. Cardinality(S) \in Sizes
    BY <1>1
  <2>. QED  BY <2>1
<1>3. PICK n \in Sizes : \A m \in Sizes : n <= m
  BY <1>2, LeastNat
<1>4. PICK T \in SUBSET S : T \notin G /\ Cardinality(T) = n
  BY <1>3
<1>5. PICK x \in T : TRUE
  BY <1>4
<1>6. Cardinality(T \ {x}) = n - 1 /\ Cardinality(T \ {x}) \in Nat /\ n \in Nat
  BY <1>1, <1>3, <1>4, <1>5, FS_RemoveElement
<1>7. T \ {x} \notin G
  <2>1. (T \ {x}) \cup {x} = T /\ x \in S \ (T \ {x}) /\ T \ {x} \in SUBSET S
    BY <1>5
  <2>. QED  BY <1>4, <2>1
<1>8. n - 1 \in Sizes
  <2>1. T \ {x} \in SUBSET S
    OBVIOUS
  <2>. QED  BY <1>6, <1>7, <2>1
<1>. QED  BY <1>3, <1>6, <1>8

\* An order of a set, given by who is before whom.
IsOrder(S, before) ==
  /\ \A i \in S : before[i] \subseteq S /\ i \notin before[i]
  /\ \A i, j \in S : i # j => i \in before[j] \/ j \in before[i]
  /\ \A i, j \in S : j \in before[i] => before[j] \subseteq before[i]

\* The k-th is the one with k - 1 before it, if there is one.
FindsPlaces(S, before, order) ==
  \A k \in 1..Cardinality(S) :
    (\E i \in S : Cardinality(before[i]) = k - 1) =>
      order[k] \in S /\ Cardinality(before[order[k]]) = k - 1

\* Everyone has a place, and places follow the order.
PlacesFollow(S, before, order) ==
  /\ \A k \in 1..Cardinality(S) : order[k] \in S
  /\ \A i \in S : \E k \in 1..Cardinality(S) : order[k] = i
  /\ \A k, l \in 1..Cardinality(S) : k < l <=> order[k] \in before[order[l]]
  /\ \A k, l \in 1..Cardinality(S) : order[k] = order[l] => k = l

\* Finding each place by how many are before it gives everyone one place.
LEMMA OrderFacts ==
  ASSUME NEW S, IsFiniteSet(S), NEW before, IsOrder(S, before),
         NEW order, FindsPlaces(S, before, order)
  PROVE  PlacesFollow(S, before, order)
<1> USE DEF IsOrder, FindsPlaces
<1> DEFINE n == Cardinality(S)
           Places == 0..(n - 1)
           place == [i \in S |-> Cardinality(before[i])]
<1>1. n \in Nat
  BY FS_CardinalityType
<1>2. \A i \in S : /\ IsFiniteSet(before[i]) /\ Cardinality(before[i]) \in Nat
                   /\ Cardinality(before[i]) < n
  <2> SUFFICES ASSUME NEW i \in S
               PROVE  /\ IsFiniteSet(before[i]) /\ Cardinality(before[i]) \in Nat
                      /\ Cardinality(before[i]) < n
    OBVIOUS
  <2>1. before[i] \in SUBSET S /\ before[i] # S
    OBVIOUS
  <2>2. IsFiniteSet(before[i]) /\ Cardinality(before[i]) <= n /\ Cardinality(before[i]) # n
    BY <2>1, FS_Subset
  <2>3. Cardinality(before[i]) \in Nat
    BY <2>2, FS_CardinalityType
  <2>. QED  BY <1>1, <2>2, <2>3
<1>3. \A i, j \in S : j \in before[i] => Cardinality(before[j]) < Cardinality(before[i])
  <2> SUFFICES ASSUME NEW i \in S, NEW j \in S, j \in before[i]
               PROVE  Cardinality(before[j]) < Cardinality(before[i])
    OBVIOUS
  <2>1. before[j] \in SUBSET before[i] /\ before[j] # before[i]
    OBVIOUS
  <2>2. Cardinality(before[j]) <= Cardinality(before[i])
        /\ Cardinality(before[j]) # Cardinality(before[i])
    BY <1>2, <2>1, FS_Subset
  <2>. QED  BY <1>2, <2>2
<1>4. \A i, j \in S : Cardinality(before[i]) = Cardinality(before[j]) => i = j
  BY <1>2, <1>3
<1>5. IsFiniteSet(Places) /\ Cardinality(Places) = n
  <2>1. 0 \in Int /\ n - 1 \in Int
    BY <1>1
  <2>2. IsFiniteSet(0..(n - 1))
        /\ Cardinality(0..(n - 1)) = IF 0 > n - 1 THEN 0 ELSE n - 1 - 0 + 1
    BY <2>1, FS_Interval
  <2>. QED  BY <1>1, <2>2
<1>6. place \in [S -> Places]
  BY <1>1, <1>2
<1>7. place \in Injection(S, Places)
  <2>1. \A i, j \in S : place[i] = place[j] => i = j
    BY <1>4
  <2> HIDE DEF place
  <2>. QED  BY <1>6, <2>1 DEF Injection, IsInjective
<1>8. place \in Surjection(S, Places)
  BY <1>5, <1>7, FS_Injection
<1>9. \A q \in Places : \E i \in S : Cardinality(before[i]) = q
  <2>1. \A q \in Places : \E i \in S : place[i] = q
    BY <1>8, Zenon DEF Surjection
  <2>. QED  BY <2>1
<1>10. \A k \in 1..n : order[k] \in S /\ Cardinality(before[order[k]]) = k - 1
  <2> SUFFICES ASSUME NEW k \in 1..n
               PROVE  \E i \in S : Cardinality(before[i]) = k - 1
    OBVIOUS
  <2>1. k - 1 \in Places
    BY <1>1
  <2>. QED  BY <1>9, <2>1
<1>11. ASSUME NEW i \in S PROVE \E k \in 1..n : order[k] = i
  <2> DEFINE k == Cardinality(before[i]) + 1
  <2>1. k \in 1..n /\ k - 1 = Cardinality(before[i])
    BY <1>1, <1>2
  <2>. QED  BY <1>4, <1>10, <2>1
<1>12. ASSUME NEW k \in 1..n, NEW l \in 1..n
       PROVE  /\ k < l <=> order[k] \in before[order[l]]
              /\ order[k] = order[l] => k = l
  <2>1. /\ order[k] \in S /\ Cardinality(before[order[k]]) = k - 1
        /\ order[l] \in S /\ Cardinality(before[order[l]]) = l - 1
    BY <1>10
  <2>2. order[k] \in before[order[l]] => k < l
    BY <1>1, <1>3, <2>1
  <2>3. order[l] \in before[order[k]] => l < k
    BY <1>1, <1>3, <2>1
  <2>4. order[k] = order[l] => k = l
    BY <1>1, <2>1
  <2>. QED  BY <1>1, <2>1, <2>2, <2>3, <2>4
<1>. QED  BY <1>10, <1>11, <1>12 DEF PlacesFollow

\* An order by a key, and by number among equals.
Preceding(S, key, i) == {j \in S : key[j] < key[i] \/ (key[j] = key[i] /\ j < i)}

IsOrdered(S, key, order) ==
  /\ order \in [1..Cardinality(S) -> S]
  /\ \A i \in S : \E k \in 1..Cardinality(S) : order[k] = i
  /\ \A k, l \in 1..Cardinality(S) :
       /\ k < l <=> \/ key[order[k]] < key[order[l]]
                    \/ key[order[k]] = key[order[l]] /\ order[k] < order[l]
       /\ order[k] = order[l] => k = l

\* The order by a key is one that everyone has a place in.
LEMMA KeyOrder ==
  ASSUME NEW S, S \subseteq Int, IsFiniteSet(S),
         NEW key, \A i \in S : key[i] \in Int,
         NEW order, order = [k \in 1..Cardinality(S) |-> order[k]],
         \A k \in 1..Cardinality(S) :
           (\E i \in S : Cardinality(Preceding(S, key, i)) = k - 1) =>
             order[k] \in S /\ Cardinality(Preceding(S, key, order[k])) = k - 1
  PROVE  IsOrdered(S, key, order)
<1> DEFINE before == [i \in S |-> Preceding(S, key, i)]
           n == Cardinality(S)
<1>1. \A i, j \in S : j \in before[i] <=> key[j] < key[i] \/ (key[j] = key[i] /\ j < i)
  BY DEF Preceding
<1>2. \A i \in S : before[i] \subseteq S
  BY DEF Preceding
<1>3. \A k \in 1..n :
        (\E i \in S : Cardinality(before[i]) = k - 1) =>
          order[k] \in S /\ Cardinality(before[order[k]]) = k - 1
  OBVIOUS
<1> HIDE DEF before
<1>4. \A i \in S : i \notin before[i]
  BY <1>1
<1>5. \A i, j \in S : i # j => i \in before[j] \/ j \in before[i]
  <2> SUFFICES ASSUME NEW i \in S, NEW j \in S, i # j
               PROVE  i \in before[j] \/ j \in before[i]
    OBVIOUS
  <2>1. i \in Int /\ j \in Int /\ key[i] \in Int /\ key[j] \in Int
    OBVIOUS
  <2>. QED  BY <1>1, <2>1
<1>6. \A i, j \in S : j \in before[i] => before[j] \subseteq before[i]
  <2> SUFFICES ASSUME NEW i \in S, NEW j \in S, j \in before[i], NEW h \in before[j]
               PROVE  h \in before[i]
    OBVIOUS
  <2>1. h \in S
    BY <1>2
  <2>2. /\ i \in Int /\ j \in Int /\ h \in Int
        /\ key[i] \in Int /\ key[j] \in Int /\ key[h] \in Int
    BY <2>1
  <2>. QED  BY <1>1, <2>1, <2>2
<1>8. IsOrder(S, before) /\ FindsPlaces(S, before, order)
  BY <1>2, <1>3, <1>4, <1>5, <1>6 DEF IsOrder, FindsPlaces
<1>7. /\ \A k \in 1..n : order[k] \in S
      /\ \A i \in S : \E k \in 1..n : order[k] = i
      /\ \A k, l \in 1..n : k < l <=> order[k] \in before[order[l]]
      /\ \A k, l \in 1..n : order[k] = order[l] => k = l
  <2>1. PlacesFollow(S, before, order)
    BY <1>8, OrderFacts
  <2>. QED  BY <2>1 DEF PlacesFollow
<1>. QED  BY <1>1, <1>7 DEF IsOrdered

Ascending(S, key) ==
  Ordered(S, LAMBDA j, i : key[j] < key[i] \/ (key[j] = key[i] /\ j < i))

Negated(S, score) == [i \in S |-> -score[i]]

Descending(S, score) ==
  Ordered(S, LAMBDA j, i : score[j] > score[i] \/ (score[j] = score[i] /\ j < i))

\* So is Ordered, for the lowest key first,
LEMMA AscendingOrder ==
  ASSUME NEW S, S \subseteq Int, IsFiniteSet(S),
         NEW key, \A i \in S : key[i] \in Int
  PROVE  IsOrdered(S, key, Ascending(S, key))
<1> DEFINE order == Ascending(S, key)
<1> USE DEF Ascending
<1>1. order = [k \in 1..Cardinality(S) |-> order[k]]
  BY DEF Ordered
<1>2. \A k \in 1..Cardinality(S) :
        order[k] = CHOOSE i \in S :
          Cardinality({j \in S : key[j] < key[i] \/ (key[j] = key[i] /\ j < i)}) = k - 1
  BY DEF Ordered
<1> HIDE DEF order, Ascending
<1>3. ASSUME NEW k \in 1..Cardinality(S),
             \E i \in S : Cardinality(Preceding(S, key, i)) = k - 1
      PROVE  order[k] \in S /\ Cardinality(Preceding(S, key, order[k])) = k - 1
  BY <1>2, <1>3 DEF Preceding
<1>. QED  BY <1>1, <1>3, KeyOrder DEF order

\* Quotient and remainder.
LEMMA DivisionFacts ==
  ASSUME NEW n \in Int, NEW d \in Int, d > 0
  PROVE  /\ n \div d \in Int /\ n % d \in Int
         /\ 0 <= n % d /\ n % d < d
         /\ n = d * (n \div d) + (n % d)
<1>1. n = d * (n \div d) + (n % d)
  OBVIOUS
<1>2. n \div d \in Int /\ n % d \in 0..(d - 1)
  OBVIOUS
<1>. QED  BY <1>1, <1>2

\* What is not below its divisor has a quotient that is not 0.
LEMMA QuotientFacts ==
  ASSUME NEW n \in Nat, NEW d \in Nat, 0 < d, d <= n
  PROVE  n \div d \in Nat /\ n \div d > 0
<1>1. n \div d \in Nat
  OBVIOUS
<1>2. ASSUME n \div d = 0 PROVE FALSE
  <2> DEFINE q == n \div d
  <2>1. n = d * q + (n % d) /\ n % d < d /\ n % d \in Int
    BY DivisionFacts
  <2>2. d * q = 0
    BY <1>2
  <2>. QED  BY <2>1, <2>2
<1>. QED  BY <1>1, <1>2

\* Min and Max of two numbers.
LEMMA MinOfTwo ==
  ASSUME NEW a \in Int, NEW b \in Int
  PROVE  Min({a, b}) = IF a <= b THEN a ELSE b
BY DEF Min

LEMMA MaxOfTwo ==
  ASSUME NEW a \in Int, NEW b \in Int
  PROVE  Max({a, b}) = IF a <= b THEN b ELSE a
BY DEF Max

\* An injective image of a finite set is as large as the set.
LEMMA ImageFacts ==
  ASSUME NEW A, IsFiniteSet(A), NEW f,
         \A a, b \in A : f[a] = f[b] => a = b
  PROVE  LET image == {f[a] : a \in A}
         IN  IsFiniteSet(image) /\ Cardinality(image) = Cardinality(A)
<1> DEFINE image == {f[a] : a \in A}
           g == [a \in A |-> f[a]]
<1>1. g \in [A -> image] /\ \A y \in image : \E a \in A : g[a] = y
  OBVIOUS
<1>2. \A a, b \in A : g[a] = g[b] => a = b
  OBVIOUS
<1> HIDE DEF g, image
<1>3. g \in Bijection(A, image)
  BY <1>1, <1>2 DEF Bijection, Injection, IsInjective, Surjection
<1>. QED  BY <1>3, FS_Bijection DEF ExistsBijection, image

\* and for the highest score first, the lower number among equals.
LEMMA DescendingOrder ==
  ASSUME NEW S, S \subseteq Int, IsFiniteSet(S),
         NEW score, \A i \in S : score[i] \in Int
  PROVE  IsOrdered(S, Negated(S, score), Descending(S, score))
<1> DEFINE order == Descending(S, score)
           key == Negated(S, score)
           Above(i) == {j \in S : score[j] > score[i] \/ (score[j] = score[i] /\ j < i)}
<1> USE DEF Descending
<1>1. order = [k \in 1..Cardinality(S) |-> order[k]]
  BY DEF Ordered
<1>2. \A k \in 1..Cardinality(S) :
        order[k] = CHOOSE i \in S : Cardinality(Above(i)) = k - 1
  BY DEF Ordered
<1>3. \A i \in S : Preceding(S, key, i) = Above(i)
  <2>1. \A i, j \in S : /\ key[j] < key[i] <=> score[j] > score[i]
                        /\ key[j] = key[i] <=> score[j] = score[i]
    BY DEF Negated
  <2> HIDE DEF key
  <2>. QED  BY <2>1 DEF Preceding
<1>4. \A i \in S : key[i] \in Int
  BY DEF Negated
<1> HIDE DEF order, Descending, key, Above
<1>5. ASSUME NEW k \in 1..Cardinality(S),
             \E i \in S : Cardinality(Preceding(S, key, i)) = k - 1
      PROVE  order[k] \in S /\ Cardinality(Preceding(S, key, order[k])) = k - 1
  <2>1. \E i \in S : Cardinality(Above(i)) = k - 1
    BY <1>3, <1>5
  <2>2. order[k] \in S /\ Cardinality(Above(order[k])) = k - 1
    BY <1>2, <2>1
  <2>. QED  BY <1>3, <2>2
<1>6. IsOrdered(S, key, order)
  BY <1>1, <1>4, <1>5, KeyOrder
<1>. QED  BY <1>6 DEF order, key

\* Any image of a finite set is finite, and not larger.
LEMMA ImageBound ==
  ASSUME NEW A, IsFiniteSet(A), NEW f
  PROVE  LET image == {f[a] : a \in A}
         IN  IsFiniteSet(image) /\ Cardinality(image) <= Cardinality(A)
<1> DEFINE image == {f[a] : a \in A}
           g == [a \in A |-> f[a]]
<1>1. g \in [A -> image] /\ \A y \in image : \E a \in A : g[a] = y
  OBVIOUS
<1> HIDE DEF g, image
<1>2. g \in Surjection(A, image)
  BY <1>1 DEF Surjection
<1>. QED  BY <1>2, FS_Surjection DEF image

\* There are n numbers from 1 to n.
LEMMA FirstPlaces ==
  ASSUME NEW n \in Nat
  PROVE  IsFiniteSet(1..n) /\ Cardinality(1..n) = n
<1>1. IsFiniteSet(1..n) /\ Cardinality(1..n) = IF 1 > n THEN 0 ELSE n - 1 + 1
  BY FS_Interval
<1>. QED  BY <1>1

\* What holds of a set when it holds of its proper subsets holds of all subsets.
LEMMA SubsetInduction ==
  ASSUME NEW S, IsFiniteSet(S), NEW G,
         \A T \in SUBSET S : (\A U \in SUBSET T : U # T => U \in G) => T \in G
  PROVE  \A T \in SUBSET S : T \in G
<1> DEFINE Sizes == {n \in Nat : \E T \in SUBSET S : T \notin G /\ Cardinality(T) = n}
<1>1. \A T \in SUBSET S : IsFiniteSet(T) /\ Cardinality(T) \in Nat
  BY FS_Subset, FS_CardinalityType
<1> SUFFICES ASSUME NEW R \in SUBSET S, R \notin G PROVE FALSE
  OBVIOUS
<1>2. Sizes \subseteq Nat /\ Sizes # {}
  <2>1. Cardinality(R) \in Sizes
    BY <1>1
  <2>. QED  BY <2>1
<1>3. PICK n \in Sizes : \A m \in Sizes : n <= m
  BY <1>2, LeastNat
<1>4. PICK T \in SUBSET S : T \notin G /\ Cardinality(T) = n
  BY <1>3
<1>5. PICK U \in SUBSET T : U # T /\ U \notin G
  BY <1>4
<1>6. Cardinality(U) <= n /\ Cardinality(U) # n /\ Cardinality(U) \in Nat
  BY <1>1, <1>4, <1>5, FS_Subset
<1>7. Cardinality(U) \in Sizes
  BY <1>5, <1>6
<1>. QED  BY <1>3, <1>6, <1>7

-----------------------------------------------------------------------------
(***************************************************************************)
(* Selection: the search candidate.                                        *)
(***************************************************************************)
\* Who is tied with the best: somebody is, and nobody has more than Tolerance
\* over one who is.
LEMMA TiedFacts ==
  ASSUME NEW among, among # {}, NEW values,
         \A i \in among : values[i] \in Metrics
  PROVE  LET best == BestOf(values, among)
             tied == Tied(values, among, best)
         IN  /\ tied \subseteq among /\ tied # {}
             /\ best \in Int
             /\ \A i \in among : values[i] <= best
             /\ \A i \in tied : best <= values[i] + Tolerance
<1> DEFINE T == {values[i] : i \in among}
<1>1. TopMetric \in Nat /\ Tolerance \in Nat
  BY SelectionAssumption
<1>2. T # {} /\ \A x \in T : x \in Int /\ x <= TopMetric
  BY <1>1 DEF Metrics
<1>3. Max(T) \in T /\ \A y \in T : Max(T) >= y
  <2> HIDE DEF T
  <2>1. TopMetric \in Int
    BY <1>1
  <2>. QED  BY <1>2, <2>1, MaxInt
<1>4. PICK m \in among : values[m] = Max(T)
  BY <1>3
<1>5. BestOf(values, among) = Max(T) /\ Max(T) \in Int
  BY <1>2, <1>3 DEF BestOf
<1>6. \A i \in among : values[i] \in Int /\ values[i] <= Max(T)
  BY <1>2, <1>3
<1> HIDE DEF T
<1>7. m \in Tied(values, among, Max(T))
  BY <1>1, <1>4, <1>5 DEF Tied
<1>. QED  BY <1>1, <1>5, <1>6, <1>7 DEF Tied

\* The simplest of a set of candidates, and the earliest among those.
LEMMA SimplestExists ==
  ASSUME NEW S, S \subseteq Nat, S # {},
         NEW simplicity, \A i \in S : simplicity[i] \in {0, 1}
  PROVE  \E c \in S : \A d \in S :
           \/ simplicity[c] < simplicity[d]
           \/ simplicity[c] = simplicity[d] /\ c <= d
<1> DEFINE Z == {i \in S : simplicity[i] = 0}
<1>1. CASE Z # {}
  <2>1. PICK c \in Z : \A d \in Z : c <= d
    BY <1>1, LeastNat
  <2>2. ASSUME NEW d \in S
        PROVE  \/ simplicity[c] < simplicity[d]
               \/ simplicity[c] = simplicity[d] /\ c <= d
    <3>1. simplicity[c] = 0
      OBVIOUS
    <3>2. CASE simplicity[d] = 0
      BY <2>1, <3>1, <3>2
    <3>3. CASE simplicity[d] = 1
      BY <3>1, <3>3
    <3>. QED  BY <3>2, <3>3
  <2>. QED  BY <2>2
<1>2. CASE Z = {}
  <2>1. PICK c \in S : \A d \in S : c <= d
    BY LeastNat
  <2>2. \A d \in S : simplicity[d] = 1
    BY <1>2
  <2>. QED  BY <2>1, <2>2
<1>. QED  BY <1>1, <1>2

\* The candidate that the search takes is not dominated, and pays for its
\* complexity.
LEMMA CandidateFacts ==
  ASSUME NEW t \in SearchTables
  PROVE  LET c == SelectCandidate(t) IN
         /\ c \in 1..Candidates
         /\ \A d \in 1..Candidates :
              /\ t.auc[d] <= t.auc[c] + Tolerance
              /\ t.auc[d] >= t.auc[c] /\ t.ap[d] >= t.ap[c] =>
                   /\ t.ap[d] <= t.ap[c] + Tolerance
                   /\ t.simplicity[d] >= t.simplicity[c]
                   /\ t.simplicity[d] = t.simplicity[c] => d >= c
<1> DEFINE all == 1..Candidates
           onAuc == Tied(t.auc, all, BestOf(t.auc, all))
           onAp == Tied(t.ap, onAuc, BestOf(t.ap, onAuc))
           c == SelectCandidate(t)
<1>0. Tolerance \in Nat /\ Candidates \in Nat \ {0}
  BY SelectionAssumption
<1>1. \A i \in all : /\ t.auc[i] \in Metrics /\ t.ap[i] \in Metrics
                     /\ t.simplicity[i] \in {0, 1}
                     /\ t.auc[i] \in Int /\ t.ap[i] \in Int
  <2>1. \A i \in all : /\ t.auc[i] \in Metrics /\ t.ap[i] \in Metrics
                       /\ t.simplicity[i] \in 0..1
    BY DEF SearchTables
  <2>2. TopMetric \in Nat
    BY SelectionAssumption
  <2>3. \A m \in Metrics : m \in Int
    BY <2>2 DEF Metrics
  <2>4. \A m \in 0..1 : m \in {0, 1}
    OBVIOUS
  <2> HIDE DEF all
  <2>. QED  BY <2>1, <2>3, <2>4
<1>2. 1 \in all /\ all \subseteq Nat
  BY <1>0
<1>3. /\ onAuc \subseteq all /\ onAuc # {} /\ BestOf(t.auc, all) \in Int
      /\ \A i \in all : t.auc[i] <= BestOf(t.auc, all)
      /\ \A i \in onAuc : BestOf(t.auc, all) <= t.auc[i] + Tolerance
  BY <1>1, <1>2, TiedFacts
<1>4. /\ onAp \subseteq onAuc /\ onAp # {} /\ BestOf(t.ap, onAuc) \in Int
      /\ \A i \in onAuc : t.ap[i] <= BestOf(t.ap, onAuc)
      /\ \A i \in onAp : BestOf(t.ap, onAuc) <= t.ap[i] + Tolerance
  <2> HIDE DEF onAuc
  <2>1. \A i \in onAuc : t.ap[i] \in Metrics
    BY <1>1, <1>3
  <2>. QED  BY <1>3, <2>1, TiedFacts
<1>5. c \in onAp /\ \A d \in onAp : \/ t.simplicity[c] < t.simplicity[d]
                                    \/ t.simplicity[c] = t.simplicity[d] /\ c <= d
  <2>1. c = CHOOSE e \in onAp : \A d \in onAp :
              \/ t.simplicity[e] < t.simplicity[d]
              \/ t.simplicity[e] = t.simplicity[d] /\ e <= d
    BY DEF SelectCandidate
  <2> HIDE DEF c, onAp
  <2>2. onAp \subseteq Nat /\ \A i \in onAp : t.simplicity[i] \in {0, 1}
    BY <1>1, <1>2, <1>3, <1>4
  <2>3. \E e \in onAp : \A d \in onAp :
              \/ t.simplicity[e] < t.simplicity[d]
              \/ t.simplicity[e] = t.simplicity[d] /\ e <= d
    BY <1>4, <2>2, SimplestExists
  <2>. QED  BY <2>1, <2>3
<1>6. \A d \in all : d \in onAuc <=> BestOf(t.auc, all) - t.auc[d] <= Tolerance
  BY DEF Tied
<1>7. \A d \in onAuc : d \in onAp <=> BestOf(t.ap, onAuc) - t.ap[d] <= Tolerance
  <2> HIDE DEF onAuc
  <2>. QED  BY DEF Tied
<1> DEFINE bestAuc == BestOf(t.auc, all)
           bestAp == BestOf(t.ap, onAuc)
<1> HIDE DEF bestAuc, bestAp, onAuc, onAp, c
<1>8. c \in all /\ c \in onAuc
  BY <1>3, <1>4, <1>5
<1>9. ASSUME NEW d \in all
      PROVE  /\ t.auc[d] <= t.auc[c] + Tolerance
             /\ t.auc[d] >= t.auc[c] /\ t.ap[d] >= t.ap[c] =>
                  /\ t.ap[d] <= t.ap[c] + Tolerance
                  /\ t.simplicity[d] >= t.simplicity[c]
                  /\ t.simplicity[d] = t.simplicity[c] => d >= c
  <2>1. t.auc[d] <= t.auc[c] + Tolerance
    BY <1>0, <1>1, <1>3, <1>8
  <2>2. ASSUME t.auc[d] >= t.auc[c], t.ap[d] >= t.ap[c]
        PROVE  /\ t.ap[d] <= t.ap[c] + Tolerance
               /\ d \in onAp
    <3>1. /\ t.auc[d] \in Int /\ t.auc[c] \in Int /\ t.ap[d] \in Int /\ t.ap[c] \in Int
          /\ bestAuc \in Int /\ bestAp \in Int
      BY <1>1, <1>3, <1>4, <1>8 DEF bestAuc, bestAp
    <3>2. bestAuc <= t.auc[c] + Tolerance /\ bestAp <= t.ap[c] + Tolerance
      BY <1>3, <1>4, <1>5, <1>8 DEF bestAuc, bestAp
    <3>3. bestAuc - t.auc[d] <= Tolerance /\ bestAp - t.ap[d] <= Tolerance
      BY <1>0, <2>2, <3>1, <3>2
    <3>4. d \in onAuc
      BY <1>6, <3>3 DEF bestAuc
    <3>5. d \in onAp
      BY <1>7, <3>3, <3>4 DEF bestAp
    <3>6. t.ap[d] <= bestAp
      BY <1>4, <3>4 DEF bestAp
    <3>. QED  BY <1>0, <3>1, <3>2, <3>5, <3>6
  <2>3. d \in onAp => /\ t.simplicity[d] >= t.simplicity[c]
                      /\ t.simplicity[d] = t.simplicity[c] => d >= c
    <3>1. /\ t.simplicity[d] \in {0, 1} /\ t.simplicity[c] \in {0, 1}
          /\ d \in Nat /\ c \in Nat
      BY <1>1, <1>2, <1>8
    <3>. QED  BY <1>5, <3>1
  <2>. QED  BY <2>1, <2>2, <2>3
<1>. QED  BY <1>8, <1>9 DEF c

-----------------------------------------------------------------------------
(***************************************************************************)
(* Selection: the calibration method.                                      *)
(***************************************************************************)
LEMMA MethodFacts ==
  ASSUME NEW t \in CalibrationTables
  PROVE  \A i, j \in 1..Len(Methods) :
           i < j /\ Methods[j] = ChooseMethod(t) =>
             t.brier[j] < t.brier[i] \/ t.loss[j] < t.loss[i]
<1> DEFINE all == 1..Len(Methods)
           least(values, among) == Min({values[i] : i \in among})
           onBrier == {i \in all : t.brier[i] - Min({t.brier[k] : k \in all}) <= Tolerance}
           onLoss == {i \in onBrier :
                        t.loss[i] - Min({t.loss[k] : k \in onBrier}) <= Tolerance}
<1>0. Tolerance \in Nat /\ TopMetric \in Nat
  BY SelectionAssumption
<1>1. all = {1, 2, 3} /\ all \subseteq Nat
  BY DEF Methods
<1>2. \A i \in all : t.brier[i] \in Nat /\ t.loss[i] \in Nat
  BY <1>0 DEF CalibrationTables, Metrics
<1>3. \A i, j \in all : Methods[i] = Methods[j] => i = j
  BY <1>1 DEF Methods
<1>4. ChooseMethod(t) = Methods[Min(onLoss)]
  BY DEF ChooseMethod
<1> DEFINE brier == Min({t.brier[k] : k \in all})
<1>5. brier \in Nat /\ \E k \in all : t.brier[k] = brier
  <2>1. {t.brier[k] : k \in all} \subseteq Nat /\ {t.brier[k] : k \in all} # {}
    BY <1>1, <1>2
  <2>2. brier \in {t.brier[k] : k \in all}
    BY <2>1, MinNat
  <2>. QED  BY <2>1, <2>2
<1> HIDE DEF brier
<1>6. onBrier = {i \in all : t.brier[i] - brier <= Tolerance}
  BY DEF brier
<1>7. onBrier # {} /\ onBrier \subseteq all
  <2>1. PICK k \in all : t.brier[k] = brier
    BY <1>5
  <2>2. t.brier[k] - brier <= Tolerance
    BY <1>0, <1>5, <2>1
  <2>3. k \in onBrier
    BY <1>6, <2>1, <2>2
  <2>. QED  BY <2>3
<1> HIDE DEF onBrier
<1> DEFINE loss == Min({t.loss[k] : k \in onBrier})
<1>8. loss \in Nat /\ \E k \in onBrier : t.loss[k] = loss
  <2>1. {t.loss[k] : k \in onBrier} \subseteq Nat /\ {t.loss[k] : k \in onBrier} # {}
    BY <1>2, <1>7
  <2>2. loss \in {t.loss[k] : k \in onBrier}
    BY <2>1, MinNat
  <2>. QED  BY <2>1, <2>2
<1> HIDE DEF loss
<1>9. onLoss = {i \in onBrier : t.loss[i] - loss <= Tolerance}
  BY DEF loss
<1>10. onLoss # {} /\ onLoss \subseteq Nat /\ onLoss \subseteq all
  <2>1. PICK k \in onBrier : t.loss[k] = loss
    BY <1>8
  <2>2. t.loss[k] - loss <= Tolerance
    BY <1>0, <1>8, <2>1
  <2>3. onLoss # {}
    BY <1>9, <2>1, <2>2
  <2> HIDE DEF onLoss
  <2>4. onLoss \subseteq onBrier
    BY <1>9
  <2>. QED  BY <1>1, <1>7, <2>3, <2>4
<1> HIDE DEF onLoss
<1>11. Min(onLoss) \in onLoss /\ \A i \in onLoss : Min(onLoss) <= i
  BY <1>10, MinNat
<1> SUFFICES ASSUME NEW i \in all, NEW j \in all, i < j, Methods[j] = ChooseMethod(t),
                    ~(t.brier[j] < t.brier[i]), ~(t.loss[j] < t.loss[i])
             PROVE  FALSE
  OBVIOUS
<1>12. j = Min(onLoss)
  BY <1>3, <1>4, <1>10, <1>11
<1>13. t.brier[j] - brier <= Tolerance /\ t.loss[j] - loss <= Tolerance
  BY <1>6, <1>9, <1>11, <1>12
<1>14. i \in onBrier
  <2>1. t.brier[i] \in Nat /\ t.brier[j] \in Nat /\ t.brier[i] <= t.brier[j]
    BY <1>2
  <2>2. \A a, b, m, x \in Int : a <= b /\ b - m <= x => a - m <= x
    OBVIOUS
  <2>3. t.brier[i] - brier <= Tolerance
    <3>1. /\ t.brier[i] \in Int /\ t.brier[j] \in Int
          /\ brier \in Int /\ Tolerance \in Int
      BY <1>0, <1>5, <2>1
    <3>. QED  BY <1>13, <2>1, <2>2, <3>1
  <2>. QED  BY <1>6, <2>3
<1>15. i \in onLoss
  <2>1. /\ t.loss[i] \in Nat /\ t.loss[j] \in Nat /\ loss \in Nat
        /\ t.loss[i] <= t.loss[j]
    BY <1>2, <1>8
  <2>2. \A a, b, m, x \in Int : a <= b /\ b - m <= x => a - m <= x
    OBVIOUS
  <2>3. t.loss[i] - loss <= Tolerance
    <3>1. t.loss[i] \in Int /\ t.loss[j] \in Int /\ loss \in Int /\ Tolerance \in Int
      BY <1>0, <2>1
    <3>. QED  BY <1>13, <2>1, <2>2, <3>1
  <2>. QED  BY <1>9, <1>14, <2>3
<1>. QED  BY <1>1, <1>11, <1>12, <1>15

-----------------------------------------------------------------------------
(***************************************************************************)
(* Selection: the threshold.                                               *)
(***************************************************************************)
LEMMA RowFacts ==
  ASSUME NEW d \in Predictions
  PROVE  /\ \A i \in 1..Sample : /\ d.y[i] \in {0, 1}
                                 /\ d.p[i] \in Nat /\ d.p[i] <= TopP
         /\ \A class \in {0, 1} : \E i \in 1..Sample : d.y[i] = class
<1>1. TopP \in Nat
  BY TopPAssumption
<1>2. \A i \in 1..Sample : d.y[i] \in {0, 1} /\ d.p[i] \in 0..TopP
  BY DEF Predictions
<1>3. {d.y[i] : i \in 1..Sample} = {0, 1}
  BY DEF Predictions
<1>4. \A class \in {0, 1} : class \in {d.y[i] : i \in 1..Sample}
  BY <1>3
<1>. QED  BY <1>1, <1>2, <1>4

\* The rows of a class at or above a threshold are counted by a number, no
\* larger at a higher threshold, and zero only if there are none.
LEMMA CountFacts ==
  ASSUME NEW d \in Predictions, NEW class
  PROVE  /\ \A p : Count(d, class, p) \in Nat
         /\ \A p : Count(d, class, p) = 0 <=>
                     ~ \E i \in 1..Sample : d.y[i] = class /\ d.p[i] >= p
         /\ \A p, q \in Int : p <= q => Count(d, class, q) <= Count(d, class, p)
<1> DEFINE RowsAbove(p) == {i \in 1..Sample : d.y[i] = class /\ d.p[i] >= p}
<1>1. Sample \in Nat
  BY SelectionAssumption
<1>2. IsFiniteSet(1..Sample)
  BY <1>1, FS_Interval
<1>3. \A p : RowsAbove(p) \subseteq 1..Sample /\ Count(d, class, p) = Cardinality(RowsAbove(p))
  BY DEF Count
<1>4. \A p : IsFiniteSet(RowsAbove(p))
  <2> HIDE DEF RowsAbove
  <2>. QED  BY <1>2, <1>3, FS_Subset
<1>5. \A p, q \in Int : p <= q => RowsAbove(q) \subseteq RowsAbove(p)
  BY RowFacts
<1>6. \A p : RowsAbove(p) = {} <=> ~ \E i \in 1..Sample : d.y[i] = class /\ d.p[i] >= p
  OBVIOUS
<1> HIDE DEF RowsAbove
<1>7. \A p : Cardinality(RowsAbove(p)) \in Nat
  BY <1>4, FS_CardinalityType
<1>8. \A p : Cardinality(RowsAbove(p)) = 0 <=> RowsAbove(p) = {}
  BY <1>4, FS_EmptySet
<1>9. \A p, q \in Int : p <= q => Cardinality(RowsAbove(q)) <= Cardinality(RowsAbove(p))
  BY <1>4, <1>5, FS_Subset
<1>. QED  BY <1>3, <1>6, <1>7, <1>8, <1>9

\* Both classes have members.
LEMMA ClassSizeFacts ==
  ASSUME NEW d \in Predictions, NEW class \in {0, 1}
  PROVE  ClassSize(d, class) \in Nat \ {0}
<1>1. PICK i \in 1..Sample : d.y[i] = class
  BY RowFacts
<1>2. d.p[i] >= 0
  BY RowFacts
<1>3. Count(d, class, 0) \in Nat /\ Count(d, class, 0) # 0
  BY <1>1, <1>2, CountFacts
<1>. QED  BY <1>3 DEF ClassSize

LEMMA Separated ==
  ASSUME NEW tp \in Nat, NEW fp \in Nat, NEW p \in Nat, NEW n \in Nat, tp <= p
  PROVE  tp * n - fp * p \in Int /\ tp * n - fp * p <= p * n
<1>1. tp * n \in Nat /\ fp * p \in Nat /\ p * n \in Nat
  OBVIOUS
<1>2. tp * n <= p * n
  OBVIOUS
<1>. QED  BY <1>1, <1>2

\* What youden is at a threshold follows from the rows on either side.
LEMMA SeparationFacts ==
  ASSUME NEW d \in Predictions, NEW t \in Nat
  PROVE  /\ Separation(d, t) \in Int
         /\ Separation(d, t) <= ClassSize(d, 1) * ClassSize(d, 0)
<1>1. /\ Count(d, 1, t) \in Nat /\ Count(d, 0, t) \in Nat
      /\ ClassSize(d, 1) \in Nat /\ ClassSize(d, 0) \in Nat
      /\ Count(d, 1, t) <= ClassSize(d, 1)
  <2>1. t \in Int /\ 0 \in Int /\ 0 <= t
    OBVIOUS
  <2>. QED  BY <2>1, CountFacts DEF ClassSize
<1>. QED  BY <1>1, Separated DEF Separation

\* Any threshold that selects somebody selects the same rows as the least
\* prediction it selects.
LEMMA SameRowsAtAPrediction ==
  ASSUME NEW d \in Predictions, NEW t \in Nat,
         \E i \in 1..Sample : d.p[i] >= t
  PROVE  \E r \in RocThresholds(d) :
           r >= t /\ \A class : Count(d, class, r) = Count(d, class, t)
<1> DEFINE Above == {r \in RocThresholds(d) : r >= t}
<1>1. \A i \in 1..Sample : d.p[i] \in Nat /\ d.p[i] \in RocThresholds(d)
  BY RowFacts DEF RocThresholds
<1>2. RocThresholds(d) \subseteq Nat
  BY RowFacts DEF RocThresholds
<1>3. Above \subseteq Nat /\ Above # {}
  BY <1>1, <1>2
<1>4. PICK r \in Above : \A s \in Above : r <= s
  BY <1>3, LeastNat
<1>5. r \in RocThresholds(d) /\ r \in Nat /\ r >= t
  BY <1>2, <1>4
<1>6. \A i \in 1..Sample : d.p[i] >= t <=> d.p[i] >= r
  BY <1>1, <1>4, <1>5
<1>7. \A class : {i \in 1..Sample : d.y[i] = class /\ d.p[i] >= r}
                   = {i \in 1..Sample : d.y[i] = class /\ d.p[i] >= t}
  BY <1>6
<1>8. \A class : Count(d, class, r) = Count(d, class, t)
  BY <1>7 DEF Count
<1>. QED  BY <1>5, <1>8

\* The chosen threshold is the largest of the best.
LEMMA ThresholdFacts ==
  ASSUME NEW d \in Predictions
  PROVE  LET selected == SelectThreshold(d) IN
         /\ \A t \in 0..(TopP + 1) : Separation(d, t) <= Separation(d, selected)
         /\ \A t \in (selected + 1)..TopP :
              (\E i \in 1..Sample : d.p[i] >= t) => Separation(d, t) < Separation(d, selected)
         /\ ThresholdMetrics(d, selected).tp > 0
<1> DEFINE roc == RocThresholds(d)
           S(t) == Separation(d, t)
           P == ClassSize(d, 1)
           N == ClassSize(d, 0)
           values == {S(t) : t \in roc}
           best == Max(values)
           winners == {t \in roc : S(t) = best}
           selected == SelectThreshold(d)
<1>1. TopP \in Nat
  BY TopPAssumption
<1>2. P \in Nat \ {0} /\ N \in Nat \ {0} /\ P * N \in Int
  BY ClassSizeFacts
<1>3. /\ \A t \in roc : t \in Nat /\ t <= TopP
      /\ \A t \in roc : \E i \in 1..Sample : d.p[i] = t
  BY RowFacts DEF RocThresholds
<1>4. \E i \in 1..Sample : d.p[i] >= 0
  BY RowFacts
<1>5. \A t \in Nat : S(t) \in Int /\ S(t) <= P * N
  BY SeparationFacts
<1>6. PICK z \in roc : \A class : Count(d, class, z) = Count(d, class, 0)
  BY <1>4, SameRowsAtAPrediction
<1>7. S(z) = 0
  <2>1. S(z) = P * N - N * P
    BY <1>6 DEF Separation, ClassSize
  <2>. QED  BY <1>2, <2>1
<1>8. selected = Max(winners)
  BY DEF SelectThreshold
<1>9. \A t \in Nat : S(t) = Count(d, 1, t) * N - Count(d, 0, t) * P
  BY DEF Separation
<1>10. \A r, t \in Nat :
         (\A class : Count(d, class, r) = Count(d, class, t)) => S(r) = S(t)
  BY <1>9
<1>11. \A t \in Nat : (\E i \in 1..Sample : d.p[i] >= t) =>
         \E r \in roc : r >= t /\ S(r) = S(t)
  BY <1>3, <1>10, SameRowsAtAPrediction
<1>12. \A t \in Nat : (~ \E i \in 1..Sample : d.p[i] >= t) => S(t) = 0
  <2> SUFFICES ASSUME NEW t \in Nat, ~ \E i \in 1..Sample : d.p[i] >= t
               PROVE  S(t) = 0
    OBVIOUS
  <2>1. Count(d, 1, t) = 0 /\ Count(d, 0, t) = 0
    BY CountFacts
  <2>. QED  BY <1>2, <1>9, <2>1
<1> HIDE DEF S, P, N, roc
<1>13. best \in values /\ \A x \in values : best >= x
  <2>1. values # {} /\ \A x \in values : x \in Int /\ x <= P * N
    BY <1>3, <1>5, <1>6
  <2> HIDE DEF values
  <2>. QED  BY <1>2, <2>1, MaxInt
<1>14. /\ best \in Int /\ best >= 0
       /\ \A t \in roc : S(t) <= best
       /\ \E t \in roc : S(t) = best
  <2> HIDE DEF best
  <2>. QED  BY <1>3, <1>5, <1>6, <1>7, <1>13
<1> HIDE DEF best
<1>15. Max(winners) \in winners /\ \A t \in winners : Max(winners) >= t
  <2>1. winners # {} /\ \A t \in winners : t \in Int /\ t <= TopP
    BY <1>3, <1>14
  <2> HIDE DEF winners
  <2>. QED  BY <1>1, <2>1, MaxInt
<1>16. /\ selected \in roc /\ selected \in Nat /\ S(selected) = best
       /\ \A t \in roc : S(t) = best => selected >= t
  BY <1>3, <1>8, <1>15
<1> HIDE DEF winners, selected
<1>17. \A t \in 0..(TopP + 1) : S(t) <= S(selected)
  <2> SUFFICES ASSUME NEW t \in 0..(TopP + 1) PROVE S(t) <= best
    BY <1>16
  <2>1. t \in Nat
    BY <1>1
  <2>. QED  BY <1>11, <1>12, <1>14, <2>1
<1>18. \A t \in (selected + 1)..TopP :
         (\E i \in 1..Sample : d.p[i] >= t) => S(t) < S(selected)
  <2> SUFFICES ASSUME NEW t \in (selected + 1)..TopP, \E i \in 1..Sample : d.p[i] >= t
               PROVE  S(t) < best
    BY <1>16
  <2>1. t \in Nat /\ t > selected
    BY <1>1, <1>16
  <2>2. PICK r \in roc : r >= t /\ S(r) = S(t)
    BY <1>11, <2>1
  <2>3. r \in Nat /\ S(r) \in Int /\ S(r) <= best
    BY <1>3, <1>5, <1>14
  <2>4. S(r) # best
    BY <1>16, <2>1, <2>2, <2>3
  <2>. QED  BY <1>14, <2>2, <2>3, <2>4
<1>19. Count(d, 1, selected) > 0
  <2>1. Count(d, 1, selected) \in Nat /\ Count(d, 0, selected) \in Nat
    BY CountFacts
  <2> SUFFICES ASSUME Count(d, 1, selected) = 0 PROVE FALSE
    BY <2>1
  <2>2. Count(d, 0, selected) * P <= 0
    <3>1. S(selected) = 0 * N - Count(d, 0, selected) * P
      BY <1>9, <1>16
    <3>2. Count(d, 0, selected) * P \in Int /\ 0 * N = 0
      BY <1>2, <2>1
    <3>. QED  BY <1>14, <1>16, <3>1, <3>2
  <2>3. Count(d, 0, selected) = 0
    BY <1>2, <2>1, <2>2
  <2>4. PICK i \in 1..Sample : d.p[i] = selected
    BY <1>3, <1>16
  <2>5. d.y[i] \in {0, 1} /\ d.p[i] >= selected
    BY <1>16, <2>4, RowFacts
  <2>. QED  BY <2>3, <2>5, CountFacts
<1>20. ThresholdMetrics(d, selected).tp = Count(d, 1, selected)
  BY DEF ThresholdMetrics
<1>. QED  BY <1>17, <1>18, <1>19, <1>20 DEF S, selected

-----------------------------------------------------------------------------
(***************************************************************************)
(* Selection: the tasks.                                                   *)
(***************************************************************************)
\* An answer is what the algorithm of the task's kind makes of its input.
AnswerOfTheTask ==
  \/ /\ task.kind = "search"
     /\ task.table \in SearchTables
     /\ answer # Pending => answer = [candidate |-> SelectCandidate(task.table)]
  \/ /\ task.kind = "calibration"
     /\ task.table \in CalibrationTables
     /\ answer # Pending => answer = [method |-> ChooseMethod(task.table)]
  \/ /\ task.kind = "threshold"
     /\ task.data \in Predictions
     /\ answer # Pending =>
          answer = [threshold |-> SelectThreshold(task.data),
                    matrix |-> ThresholdMetrics(task.data, SelectThreshold(task.data))]

\* An answer of Selection is what the code makes of the task.
LEMMA SelectionAnswers == SelectionSpec => []AnswerOfTheTask
<1>1. SelectionInit => AnswerOfTheTask
  BY DEF SelectionInit, AnswerOfTheTask
<1>2. AnswerOfTheTask /\ [SelectionNext]_vars => AnswerOfTheTask'
  <2> SUFFICES ASSUME AnswerOfTheTask, [SelectionNext]_vars PROVE AnswerOfTheTask'
    OBVIOUS
  <2>1. CASE Search
    BY <2>1 DEF AnswerOfTheTask, Search
  <2>2. CASE Calibrate
    BY <2>2 DEF AnswerOfTheTask, Calibrate
  <2>3. CASE Threshold
    BY <2>3 DEF AnswerOfTheTask, Threshold
  <2>4. CASE UNCHANGED vars
    BY <2>4 DEF AnswerOfTheTask, vars
  <2>. QED  BY <2>1, <2>2, <2>3, <2>4 DEF SelectionNext
<1>. QED  BY <1>1, <1>2, PTL DEF SelectionSpec

\* Whatever the scores and the tolerance, no candidate dominates the one the
\* search selects (select_candidate).
THEOREM SelectionNobodyDominates == SelectionSpec => []NobodyDominatesTheCandidate
<1>1. AnswerOfTheTask => NobodyDominatesTheCandidate
  <2> SUFFICES ASSUME AnswerOfTheTask, Answered("search")
               PROVE  NobodyDominatesTheCandidate
    BY DEF NobodyDominatesTheCandidate
  <2>1. task.table \in SearchTables /\ answer.candidate = SelectCandidate(task.table)
    BY DEF AnswerOfTheTask, Answered
  <2>. QED  BY <2>1, CandidateFacts DEF NobodyDominatesTheCandidate
<1>. QED  BY <1>1, SelectionAnswers, PTL

\* Whatever the scores and the tolerance, a calibration method that is chosen
\* beats every simpler one on a score (choose_method).
THEOREM SelectionComplexityIsPaidFor == SelectionSpec => []ComplexityIsPaidFor
<1>1. AnswerOfTheTask => ComplexityIsPaidFor
  <2> SUFFICES ASSUME AnswerOfTheTask, Answered("calibration")
               PROVE  ComplexityIsPaidFor
    BY DEF ComplexityIsPaidFor
  <2>1. task.table \in CalibrationTables /\ answer.method = ChooseMethod(task.table)
    BY DEF AnswerOfTheTask, Answered
  <2>. QED  BY <2>1, MethodFacts DEF ComplexityIsPaidFor
<1>. QED  BY <1>1, SelectionAnswers, PTL

\* Whatever the predictions and the classes, the threshold selected is the
\* largest of the best, among predictions and all other numbers, and catches
\* a default (select_train_threshold, threshold_metrics).
THEOREM SelectionThresholdIsTheLargestBest ==
  SelectionSpec => []ThresholdIsTheLargestBest
<1>1. AnswerOfTheTask => ThresholdIsTheLargestBest
  <2> SUFFICES ASSUME AnswerOfTheTask, Answered("threshold")
               PROVE  ThresholdIsTheLargestBest
    BY DEF ThresholdIsTheLargestBest
  <2>1. /\ task.data \in Predictions
        /\ answer.threshold = SelectThreshold(task.data)
        /\ answer.matrix = ThresholdMetrics(task.data, SelectThreshold(task.data))
    BY DEF AnswerOfTheTask, Answered
  <2>. QED  BY <2>1, ThresholdFacts DEF ThresholdIsTheLargestBest
<1>. QED  BY <1>1, SelectionAnswers, PTL

-----------------------------------------------------------------------------
(***************************************************************************)
(* ScoreTables: how array_split cuts an order into parts, and what a part  *)
(* holds.                                                                  *)
(***************************************************************************)

\* A rising sequence cuts what lies below its last value into pieces.
LEMMA Pieces ==
  ASSUME NEW parts \in Nat, NEW n \in Nat, NEW f,
         \A g \in 1..(parts + 1) : f[g] \in Int,
         f[1] = 0, f[parts + 1] = n,
         \A g \in 1..parts : f[g] < f[g + 1]
  PROVE  /\ \A k \in 1..n : \E g \in 1..parts : f[g] < k /\ k <= f[g + 1]
         /\ \A g, h \in 1..(parts + 1) : g < h => f[g] < f[h]
<1>1. ASSUME NEW k \in 1..n
      PROVE  \E g \in 1..parts : f[g] < k /\ k <= f[g + 1]
  <2> DEFINE G == {g \in 1..(parts + 1) : k <= f[g]}
  <2>1. parts + 1 \in G
    OBVIOUS
  <2>2. PICK g \in G : \A h \in G : g <= h
    <3>1. G \subseteq Nat /\ G # {}
      BY <2>1
    <3>. QED  BY <3>1, LeastNat
  <2>3. g # 1
    BY <2>2
  <2>4. g - 1 \in 1..parts /\ g - 1 \notin G /\ (g - 1) + 1 = g
    BY <2>2, <2>3
  <2>. QED  BY <2>2, <2>4
<1>2. ASSUME NEW g \in 1..(parts + 1), NEW h \in 1..(parts + 1), g < h, ~ (f[g] < f[h])
      PROVE  FALSE
  <2> DEFINE H == {i \in 1..(parts + 1) : g < i /\ ~ (f[g] < f[i])}
  <2>1. PICK i \in H : \A j \in H : i <= j
    <3>1. H \subseteq Nat /\ h \in H
      BY <1>2
    <3>. QED  BY <3>1, LeastNat
  <2>2. i - 1 \in 1..parts /\ i - 1 \notin H /\ (i - 1) + 1 = i
    BY <2>1
  <2>3. f[i - 1] < f[i] /\ f[i - 1] \in Int /\ f[i] \in Int /\ f[g] \in Int
    BY <2>1, <2>2
  <2>4. i - 1 = g \/ f[g] < f[i - 1]
    BY <2>1, <2>2
  <2>. QED  BY <2>1, <2>3, <2>4
<1>. QED  BY <1>1, <1>2

\* Where array_split cuts.
Cut(n, parts, g) == (g - 1) * (n \div parts) + Min({g - 1, n % parts})

\* The cuts rise from 0 to n, by the quotient or one more.
LEMMA CutFacts ==
  ASSUME NEW n \in Nat, NEW parts \in Nat, 0 < parts, parts <= n
  PROVE  /\ Cut(n, parts, 1) = 0
         /\ Cut(n, parts, parts + 1) = n
         /\ \A g \in 1..(parts + 1) : Cut(n, parts, g) \in Int
         /\ \A g \in 1..parts :
              /\ Cut(n, parts, g + 1) = Cut(n, parts, g) + (n \div parts)
                                          + (IF g <= n % parts THEN 1 ELSE 0)
              /\ Cut(n, parts, g) < Cut(n, parts, g + 1)
<1> DEFINE q == n \div parts
           r == n % parts
           cut(g) == (g - 1) * q + Min({g - 1, r})
<1>1. q \in Nat /\ q > 0 /\ r \in Int /\ 0 <= r /\ r < parts /\ n = parts * q + r
  BY DivisionFacts, QuotientFacts
<1>2. \A g : Cut(n, parts, g) = cut(g)
  BY DEF Cut
<1> HIDE DEF q, r
<1>3. \A g \in 1..(parts + 1) : Min({g - 1, r}) = IF g - 1 <= r THEN g - 1 ELSE r
  BY <1>1, MinOfTwo
<1>4. \A g \in 1..(parts + 1) : (g - 1) * q \in Int
  BY <1>1
<1>5. \A g \in 1..(parts + 1) : cut(g) \in Int
  BY <1>1, <1>3, <1>4
<1>6. cut(1) = 0
  <2>1. (1 - 1) * q = 0
    BY <1>1
  <2>. QED  BY <1>1, <1>3, <2>1
<1>7. cut(parts + 1) = n
  <2>1. (parts + 1 - 1) * q = parts * q /\ parts * q \in Int
    BY <1>1
  <2>2. Min({parts + 1 - 1, r}) = r
    BY <1>1, <1>3
  <2>. QED  BY <1>1, <2>1, <2>2
<1>8. ASSUME NEW g \in 1..parts
      PROVE  cut(g + 1) = cut(g) + q + (IF g <= r THEN 1 ELSE 0) /\ cut(g) < cut(g + 1)
  <2>1. (g + 1 - 1) * q = (g - 1) * q + q /\ (g - 1) * q \in Int
    BY <1>1
  <2>2. /\ Min({g + 1 - 1, r}) = IF g <= r THEN g ELSE r
        /\ Min({g - 1, r}) = IF g - 1 <= r THEN g - 1 ELSE r
    BY <1>1, <1>3
  <2>. QED  BY <1>1, <2>1, <2>2
<1>. QED  BY <1>2, <1>5, <1>6, <1>7, <1>8 DEF q, r

\* An order, and into how many parts it goes.
Divides(parts, order, n, S) ==
  n \in Nat /\ order \in [1..n -> S] /\ parts \in Nat /\ 0 < parts /\ parts <= n

\* The members of an order between two cuts.
Between(order, n, parts, g) ==
  {order[k] : k \in (Cut(n, parts, g) + 1)..Cut(n, parts, g + 1)}

\* A part is what lies between two cuts.
LEMMA PartRows ==
  ASSUME NEW S, NEW n, NEW order, NEW parts, Divides(parts, order, n, S),
         NEW g, g \in 1..parts
  PROVE  Part(order, parts, g) = Between(order, n, parts, g)
<1> DEFINE first == Cut(n, parts, g)
           size == (n \div parts) + (IF g <= n % parts THEN 1 ELSE 0)
<1> USE DEF Divides
<1>1. Len(order) = n
  OBVIOUS
<1>2. Part(order, parts, g) = {order[first + k] : k \in 1..size}
  BY <1>1 DEF Part, Cut
<1>3. first \in Int /\ size \in Int /\ Cut(n, parts, g + 1) = first + size
  <2>1. n \div parts \in Int /\ n % parts \in Int /\ g \in 1..(parts + 1)
    BY QuotientFacts, DivisionFacts
  <2>2. size \in Int
    BY <2>1
  <2>3. first \in Int
    BY <2>1, CutFacts
  <2>4. Cut(n, parts, g + 1) = first + (n \div parts) + (IF g <= n % parts THEN 1 ELSE 0)
    BY CutFacts
  <2>. QED  BY <2>1, <2>2, <2>3, <2>4
<1> HIDE DEF first, size
<1>4. \A k \in 1..size : first + k \in (first + 1)..(first + size)
  BY <1>3
<1>5. \A k \in (first + 1)..(first + size) : k - first \in 1..size /\ first + (k - first) = k
  BY <1>3
<1>6. {order[first + k] : k \in 1..size} = {order[k] : k \in (first + 1)..(first + size)}
  BY <1>4, <1>5
<1>. QED  BY <1>2, <1>3, <1>6 DEF first, Between

\* The parts of an order: everyone is in one, nobody in two, they follow the
\* order, and their sizes differ by one row at most.
PartsFollow(S, key, order, parts) ==
  /\ \A g \in 1..parts :
       LET part == Part(order, parts, g)
           q == Cardinality(S) \div parts
       IN  /\ part \subseteq S /\ part # {} /\ IsFiniteSet(part)
           /\ Cardinality(part) = IF g <= Cardinality(S) % parts THEN q + 1 ELSE q
  /\ \A i \in S : \E g \in 1..parts : i \in Part(order, parts, g)
  /\ \A g, h \in 1..parts : g < h =>
       \A i \in Part(order, parts, g), j \in Part(order, parts, h) :
         /\ i # j
         /\ key[i] < key[j] \/ (key[i] = key[j] /\ i < j)

\* The parts of an order take everyone, are as large as the cuts say, and follow
\* the order.
LEMMA PartFacts ==
  ASSUME NEW S, IsFiniteSet(S), NEW key, NEW order, IsOrdered(S, key, order),
         NEW parts \in Nat, 0 < parts, parts <= Cardinality(S)
  PROVE  PartsFollow(S, key, order, parts)
<1> DEFINE n == Cardinality(S)
           cut(g) == Cut(n, parts, g)
           q == n \div parts
<1>1. n \in Nat
  BY FS_CardinalityType
<1>2. /\ order \in [1..n -> S]
      /\ \A i \in S : \E k \in 1..n : order[k] = i
      /\ \A k, l \in 1..n :
           /\ k < l => \/ key[order[k]] < key[order[l]]
                       \/ key[order[k]] = key[order[l]] /\ order[k] < order[l]
           /\ order[k] = order[l] => k = l
  BY DEF IsOrdered
<1> HIDE DEF n
<1>3. /\ cut(1) = 0 /\ cut(parts + 1) = n
      /\ \A g \in 1..(parts + 1) : cut(g) \in Int
      /\ \A g \in 1..parts :
           /\ cut(g + 1) = cut(g) + q + (IF g <= n % parts THEN 1 ELSE 0)
           /\ cut(g) < cut(g + 1)
  BY <1>1, CutFacts DEF n
<1>4. q \in Nat /\ n % parts \in Int
  BY <1>1, QuotientFacts, DivisionFacts DEF n
<1>5. ASSUME NEW g \in 1..parts
      PROVE  Part(order, parts, g) = {order[k] : k \in (cut(g) + 1)..cut(g + 1)}
  <2>1. Divides(parts, order, n, S)
    BY <1>1, <1>2 DEF n, Divides
  <2> HIDE DEF cut, q
  <2>2. Part(order, parts, g) = Between(order, n, parts, g)
    BY <2>1, PartRows
  <2>. QED  BY <2>2 DEF cut, Between
<1> DEFINE f == [g \in 1..(parts + 1) |-> cut(g)]
<1>6. /\ \A k \in 1..n : \E g \in 1..parts : f[g] < k /\ k <= f[g + 1]
      /\ \A g, h \in 1..(parts + 1) : g < h => f[g] < f[h]
  <2>1. /\ \A g \in 1..(parts + 1) : f[g] \in Int
        /\ f[1] = 0 /\ f[parts + 1] = n
        /\ \A g \in 1..parts : f[g] < f[g + 1]
    BY <1>3
  <2> HIDE DEF f
  <2>. QED  BY <1>1, <2>1, Pieces
<1>7. \A g \in 1..(parts + 1) : cut(g) \in Int /\ cut(g) >= 0 /\ cut(g) <= n
  <2> SUFFICES ASSUME NEW g \in 1..(parts + 1) PROVE cut(g) >= 0 /\ cut(g) <= n
    BY <1>3
  <2>1. g = 1 \/ f[1] < f[g]
    BY <1>6
  <2>2. g = parts + 1 \/ f[g] < f[parts + 1]
    BY <1>6
  <2>3. f[1] = 0 /\ f[g] = cut(g) /\ f[parts + 1] = n /\ cut(g) \in Int
    BY <1>3
  <2>. QED  BY <1>1, <2>1, <2>2, <2>3
<1>8. \A g, h \in 1..(parts + 1) : g < h => cut(g) < cut(h)
  <2>1. \A g \in 1..(parts + 1) : f[g] = cut(g)
    OBVIOUS
  <2> HIDE DEF f, cut
  <2>. QED  BY <1>6, <2>1
<1>9. \A k \in 1..n : \E g \in 1..parts : cut(g) < k /\ k <= cut(g + 1)
  <2>1. \A g \in 1..(parts + 1) : f[g] = cut(g)
    OBVIOUS
  <2>2. \A g \in 1..parts : g \in 1..(parts + 1) /\ g + 1 \in 1..(parts + 1)
    OBVIOUS
  <2> HIDE DEF f, cut
  <2>. QED  BY <1>6, <2>1, <2>2
<1> HIDE DEF f, cut
<1>10. \A g \in 1..parts : \A k \in (cut(g) + 1)..cut(g + 1) : k \in 1..n
  <2> SUFFICES ASSUME NEW g \in 1..parts, NEW k \in (cut(g) + 1)..cut(g + 1)
               PROVE  k \in 1..n
    OBVIOUS
  <2>1. g \in 1..(parts + 1) /\ g + 1 \in 1..(parts + 1)
    OBVIOUS
  <2>. QED  BY <1>1, <1>7, <2>1
<1>11. ASSUME NEW g \in 1..parts
       PROVE  LET part == Part(order, parts, g)
              IN  /\ part \subseteq S /\ part # {} /\ IsFiniteSet(part)
                  /\ Cardinality(part) = IF g <= n % parts THEN q + 1 ELSE q
  <2> DEFINE I == (cut(g) + 1)..cut(g + 1)
             part == Part(order, parts, g)
  <2>1. g \in 1..(parts + 1) /\ g + 1 \in 1..(parts + 1)
    OBVIOUS
  <2>2. cut(g) \in Int /\ cut(g + 1) \in Int /\ cut(g) < cut(g + 1)
    BY <1>3, <2>1
  <2>3. IsFiniteSet(I) /\ Cardinality(I) = cut(g + 1) - cut(g)
    <3>1. cut(g) + 1 \in Int
      BY <2>2
    <3>2. IsFiniteSet(I)
          /\ Cardinality(I) = IF cut(g) + 1 > cut(g + 1) THEN 0
                              ELSE cut(g + 1) - (cut(g) + 1) + 1
      BY <2>2, <3>1, FS_Interval
    <3>. QED  BY <2>2, <3>2
  <2>4. part = {order[k] : k \in I}
    BY <1>5
  <2>5. \A k, l \in I : order[k] = order[l] => k = l
    BY <1>2, <1>10
  <2>6. cut(g) + 1 \in I
    BY <2>2
  <2>7. part \subseteq S /\ part # {}
    BY <1>2, <1>10, <2>4, <2>6
  <2> HIDE DEF I, part
  <2>8. IsFiniteSet(part) /\ Cardinality(part) = Cardinality(I)
    BY <2>3, <2>4, <2>5, ImageFacts
  <2>9. cut(g + 1) - cut(g) = IF g <= n % parts THEN q + 1 ELSE q
    BY <1>3, <1>4, <2>2
  <2>. QED  BY <2>3, <2>7, <2>8, <2>9 DEF part
<1>12. ASSUME NEW i \in S PROVE \E g \in 1..parts : i \in Part(order, parts, g)
  <2>1. PICK k \in 1..n : order[k] = i
    BY <1>2
  <2>2. PICK g \in 1..parts : cut(g) < k /\ k <= cut(g + 1)
    BY <1>9
  <2>3. k \in (cut(g) + 1)..cut(g + 1)
    <3>1. g \in 1..(parts + 1) /\ g + 1 \in 1..(parts + 1)
      OBVIOUS
    <3>2. cut(g) \in Int /\ cut(g + 1) \in Int
      BY <1>7, <3>1
    <3>. QED  BY <2>2, <3>2
  <2>. QED  BY <1>5, <2>1, <2>3
<1>13. ASSUME NEW g \in 1..parts, NEW h \in 1..parts, g < h,
              NEW i \in Part(order, parts, g), NEW j \in Part(order, parts, h)
       PROVE  i # j /\ (key[i] < key[j] \/ (key[i] = key[j] /\ i < j))
  <2>1. PICK k \in (cut(g) + 1)..cut(g + 1) : i = order[k]
    BY <1>5
  <2>2. PICK l \in (cut(h) + 1)..cut(h + 1) : j = order[l]
    BY <1>5
  <2>3. k < l
    <3>1. /\ g \in 1..(parts + 1) /\ g + 1 \in 1..(parts + 1)
          /\ h \in 1..(parts + 1) /\ h + 1 \in 1..(parts + 1)
      OBVIOUS
    <3>2. /\ cut(g) \in Int /\ cut(g + 1) \in Int
          /\ cut(h) \in Int /\ cut(h + 1) \in Int
      BY <1>7, <3>1
    <3>3. g + 1 = h \/ cut(g + 1) < cut(h)
      BY <1>8, <1>13, <3>1
    <3>. QED  BY <2>1, <2>2, <3>2, <3>3
  <2>4. k \in 1..n /\ l \in 1..n
    BY <1>10
  <2>. QED  BY <1>2, <2>1, <2>2, <2>3, <2>4
<1>. QED  BY <1>11, <1>12, <1>13 DEF n, PartsFollow

-----------------------------------------------------------------------------
(***************************************************************************)
(* ScoreTables: the two tables, deciles and ranking, each a cut of an order*)
(* of the rows.                                                            *)
(***************************************************************************)

\* A column of predictions has rows 1..n, of which there are two at least.
LEMMA ColumnFacts ==
  ASSUME NEW p \in Columns
  PROVE  \E n \in Nat :
           /\ n >= 2 /\ Rows(p) = 1..n /\ Len(p) = n
           /\ IsFiniteSet(Rows(p)) /\ Cardinality(Rows(p)) = n
           /\ \A i \in Rows(p) : p[i] \in Int /\ 0 <= p[i] /\ p[i] <= TopP
<1>1. MaxRows \in Nat /\ TopP \in Nat
  BY ScoreTablesAssumption, TopPAssumption
<1>2. PICK n \in 2..MaxRows : p \in [1..n -> 0..TopP]
  BY DEF Columns
<1>3. n \in Nat /\ n >= 2
  BY <1>1
<1>4. DOMAIN p = 1..n
  BY <1>2
<1>5. Len(p) = n
  BY <1>2, <1>3
<1>6. IsFiniteSet(1..n) /\ Cardinality(1..n) = n
  <2>1. IsFiniteSet(1..n) /\ Cardinality(1..n) = IF 1 > n THEN 0 ELSE n - 1 + 1
    BY <1>3, FS_Interval
  <2>. QED  BY <1>3, <2>1
<1>7. \A i \in 1..n : p[i] \in Int /\ 0 <= p[i] /\ p[i] <= TopP
  BY <1>1, <1>2
<1>. QED  BY <1>3, <1>4, <1>5, <1>6, <1>7 DEF Rows

\* A column has a score for each row.
LEMMA ScoreFacts ==
  ASSUME NEW p \in Columns
  PROVE  /\ DOMAIN Score(p) = Rows(p)
         /\ \A i \in Rows(p) : /\ Score(p)[i] \in Int
                               /\ 0 <= Score(p)[i] /\ Score(p)[i] <= TopP
<1>1. Epsilon \in Nat /\ TopP \in Nat /\ 2 * Epsilon < TopP
  BY ScoreTablesAssumption, TopPAssumption
<1>2. \A i \in Rows(p) : p[i] \in Int
  BY ColumnFacts
<1> DEFINE low(i) == Min({p[i], TopP - Epsilon})
           clipped(i) == Max({Epsilon, low(i)})
<1>3. \A i \in Rows(p) : low(i) \in Int /\ low(i) <= TopP - Epsilon
  BY <1>1, <1>2, MinOfTwo
<1> HIDE DEF low
<1>4. \A i \in Rows(p) : clipped(i) \in Int /\ 0 <= clipped(i) /\ clipped(i) <= TopP
  BY <1>1, <1>3, MaxOfTwo
<1>5. \A i \in Rows(p) : Score(p)[i] = TopP - clipped(i)
  BY DEF Score, low
<1> HIDE DEF clipped
<1>6. DOMAIN Score(p) = Rows(p)
  BY DEF Score
<1>. QED  BY <1>1, <1>4, <1>5, <1>6

\* What a row of a table says of its members.
RowOf(score, rows) ==
  LET scores == {score[i] : i \in rows}
  IN  [rows |-> rows, count |-> Cardinality(rows), min |-> Min(scores), max |-> Max(scores)]

\* A row's minimum and maximum bound the scores of its members.
LEMMA RowOfFacts ==
  ASSUME NEW score, NEW rows, rows # {},
         \A i \in rows : score[i] \in Int /\ 0 <= score[i] /\ score[i] <= TopP
  PROVE  LET row == RowOf(score, rows)
         IN  /\ row.rows = rows /\ row.count = Cardinality(rows)
             /\ row.min \in Int /\ row.max \in Int /\ row.min <= row.max
             /\ \A i \in rows : row.min <= score[i] /\ score[i] <= row.max
<1> DEFINE scores == {score[i] : i \in rows}
           row == RowOf(score, rows)
<1>1. TopP \in Int
  BY TopPAssumption
<1>2. scores # {} /\ scores \subseteq Nat /\ \A x \in scores : x \in Int /\ x <= TopP
  BY <1>1
<1>3. /\ row.rows = rows /\ row.count = Cardinality(rows)
      /\ row.min = Min(scores) /\ row.max = Max(scores)
  BY DEF RowOf
<1>4. \A i \in rows : score[i] \in scores
  OBVIOUS
<1> HIDE DEF scores, row
<1>5. Min(scores) \in scores /\ \A x \in scores : Min(scores) <= x
  BY <1>2, MinNat
<1>6. Max(scores) \in scores /\ \A x \in scores : Max(scores) >= x
  BY <1>1, <1>2, MaxInt
<1>7. Min(scores) \in Int /\ Max(scores) \in Int /\ Min(scores) <= Max(scores)
  BY <1>2, <1>5, <1>6
<1>. QED  BY <1>2, <1>3, <1>4, <1>5, <1>6, <1>7 DEF row

\* A table of groups that follow a key.
IsTable(table, S, key, score, groups) ==
  LET n == Cardinality(S)
      parts == IF groups <= n THEN groups ELSE n
      q == n \div parts
  IN  /\ DOMAIN table = 1..parts /\ Len(table) = parts /\ parts > 0
      /\ \A g \in 1..parts :
           /\ table[g] = RowOf(score, table[g].rows)
           /\ table[g].rows \subseteq S /\ table[g].rows # {} /\ IsFiniteSet(table[g].rows)
           /\ Cardinality(table[g].rows) = IF g <= n % parts THEN q + 1 ELSE q
      /\ \A i \in S : \E g \in 1..parts : i \in table[g].rows
      /\ \A g, h \in 1..parts : g < h =>
           \A i \in table[g].rows, j \in table[h].rows :
             /\ i # j
             /\ key[i] < key[j] \/ (key[i] = key[j] /\ i < j)

\* Grouped is such a table.
LEMMA GroupedFacts ==
  ASSUME NEW S, IsFiniteSet(S), S # {}, NEW key, NEW order, IsOrdered(S, key, order),
         NEW score, NEW groups, groups \in Nat, groups > 0
  PROVE  /\ IsTable(Grouped(score, order, groups), S, key, score, groups)
         /\ \A g \in DOMAIN Grouped(score, order, groups) :
              Grouped(score, order, groups)[g].rows
                = Part(order, IF groups <= Cardinality(S) THEN groups ELSE Cardinality(S), g)
<1> DEFINE n == Cardinality(S)
           parts == IF groups <= n THEN groups ELSE n
           table == Grouped(score, order, groups)
           row(g) == RowOf(score, Part(order, parts, g))
<1>1. n \in Nat /\ n > 0
  BY FS_CardinalityType, FS_EmptySet
<1>2. order \in [1..n -> S]
  BY DEF IsOrdered
<1>3. Len(order) = n
  BY <1>1, <1>2
<1>4. Min({groups, Len(order)}) = parts
  BY <1>1, <1>3, MinOfTwo
<1>5. table = [g \in 1..parts |-> row(g)]
  BY <1>4 DEF Grouped, RowOf
<1>6. parts \in Nat /\ 0 < parts /\ parts <= n
  BY <1>1
<1>7. PartsFollow(S, key, order, parts)
  <2> HIDE DEF parts
  <2>. QED  BY <1>6, PartFacts
<1> HIDE DEF table, parts, n
<1>8. DOMAIN table = 1..parts /\ Len(table) = parts
  BY <1>5, <1>6
<1>9. \A g \in 1..parts : table[g] = row(g) /\ table[g].rows = Part(order, parts, g)
  BY <1>5 DEF RowOf
<1>10. \A g \in 1..parts : table[g] = RowOf(score, table[g].rows)
  BY <1>9
<1>11. IsTable(table, S, key, score, groups)
  <2> DEFINE Sized(g) == Cardinality(table[g].rows) = IF g <= n % parts THEN n \div parts + 1
                                                     ELSE n \div parts
             InKey(i, j) == i # j /\ (key[i] < key[j] \/ (key[i] = key[j] /\ i < j))
  <2>1. \A g \in 1..parts :
          /\ table[g].rows \subseteq S /\ table[g].rows # {} /\ IsFiniteSet(table[g].rows)
          /\ Sized(g)
    BY <1>7, <1>9 DEF PartsFollow, n
  <2>2. \A i \in S : \E g \in 1..parts : i \in table[g].rows
    BY <1>7, <1>9 DEF PartsFollow
  <2>3. \A g, h \in 1..parts : g < h => \A i \in table[g].rows, j \in table[h].rows : InKey(i, j)
    BY <1>7, <1>9 DEF PartsFollow
  <2>. QED  BY <1>6, <1>8, <1>10, <2>1, <2>2, <2>3 DEF IsTable, parts, n
<1>. QED  BY <1>8, <1>9, <1>11 DEF table, parts, n

RiskKey(p) == Negated(Rows(p), Score(p))

\* The order of the deciles, and that of the ranking table.
DecileOrder(p) == Descending(Rows(p), Score(p))
RankingOrder(p) == Ascending(Rows(p), Score(p))

\* The two tables are cut from orders by risk and by score.
LEMMA TableOrders ==
  ASSUME NEW p \in Columns
  PROVE  /\ IsOrdered(Rows(p), RiskKey(p), DecileOrder(p))
         /\ IsOrdered(Rows(p), Score(p), RankingOrder(p))
<1>1. Rows(p) \subseteq Int /\ IsFiniteSet(Rows(p))
  BY ColumnFacts
<1>2. \A i \in Rows(p) : Score(p)[i] \in Int
  BY ScoreFacts
<1>3. IsOrdered(Rows(p), RiskKey(p), DecileOrder(p))
  BY <1>1, <1>2, DescendingOrder DEF RiskKey, DecileOrder
<1>4. IsOrdered(Rows(p), Score(p), RankingOrder(p))
  BY <1>1, <1>2, AscendingOrder DEF RankingOrder
<1>. QED  BY <1>3, <1>4

\* ScoreDeciles and RankingTable are tables of these orders.
LEMMA TableFacts ==
  ASSUME NEW p \in Columns, NEW groups \in 1..MaxGroups
  PROVE  /\ ScoreDeciles(p, groups) = Grouped(Score(p), DecileOrder(p), groups)
         /\ RankingTable(p, groups) = Grouped(Score(p), RankingOrder(p), groups)
         /\ IsTable(ScoreDeciles(p, groups), Rows(p), RiskKey(p), Score(p), groups)
         /\ IsTable(RankingTable(p, groups), Rows(p), Score(p), Score(p), groups)
<1>1. ScoreDeciles(p, groups) = Grouped(Score(p), DecileOrder(p), groups)
  BY DEF ScoreDeciles, DecileOrder, Descending
<1>2. RankingTable(p, groups) = Grouped(Score(p), RankingOrder(p), groups)
  BY DEF RankingTable, RankingOrder, Ascending
<1>3. groups \in Nat /\ groups > 0
  BY ScoreTablesAssumption
<1>4. IsFiniteSet(Rows(p)) /\ Rows(p) # {}
  BY ColumnFacts
<1>5. IsTable(ScoreDeciles(p, groups), Rows(p), RiskKey(p), Score(p), groups)
  BY <1>1, <1>3, <1>4, TableOrders, GroupedFacts
<1>6. IsTable(RankingTable(p, groups), Rows(p), Score(p), Score(p), groups)
  BY <1>2, <1>3, <1>4, TableOrders, GroupedFacts
<1>. QED  BY <1>1, <1>2, <1>5, <1>6

\* What DecilesFollowRisk says of the deciles.
LEMMA DecilesFacts ==
  ASSUME NEW p \in Columns, NEW groups \in 1..MaxGroups, RankValidated(p)
  PROVE  LET d == ScoreDeciles(p, groups)
         IN  /\ Partitions([g \in DOMAIN d |-> d[g].rows], p)
             /\ \A g, h \in DOMAIN d :
                  /\ d[g].count - d[h].count \in -1..1
                  /\ g < h => \A i \in d[g].rows, j \in d[h].rows : p[i] <= p[j]
<1> DEFINE d == ScoreDeciles(p, groups)
           n == Cardinality(Rows(p))
           parts == IF groups <= n THEN groups ELSE n
           q == n \div parts
           rows == [g \in DOMAIN d |-> d[g].rows]
<1>1. /\ DOMAIN d = 1..parts /\ parts > 0
      /\ \A g \in 1..parts :
           /\ d[g] = RowOf(Score(p), d[g].rows)
           /\ d[g].rows \subseteq Rows(p) /\ d[g].rows # {} /\ IsFiniteSet(d[g].rows)
           /\ Cardinality(d[g].rows) = IF g <= n % parts THEN q + 1 ELSE q
      /\ \A i \in Rows(p) : \E g \in 1..parts : i \in d[g].rows
      /\ \A g, h \in 1..parts : g < h =>
           \A i \in d[g].rows, j \in d[h].rows :
             /\ i # j
             /\ \/ RiskKey(p)[i] < RiskKey(p)[j]
                \/ RiskKey(p)[i] = RiskKey(p)[j] /\ i < j
  BY TableFacts DEF IsTable
<1>2. n \in Nat /\ groups \in Nat
  BY ColumnFacts, ScoreTablesAssumption
<1>3. parts \in Nat /\ q \in Nat
  <2>1. parts \in Nat /\ 0 < parts /\ parts <= n
    BY <1>1, <1>2
  <2> HIDE DEF parts, n
  <2>. QED  BY <1>2, <2>1, QuotientFacts
<1> HIDE DEF d, n, parts, q
<1>4. Partitions(rows, p)
  <2>1. DOMAIN rows = 1..parts /\ \A g \in 1..parts : rows[g] = d[g].rows
    BY <1>1
  <2> HIDE DEF rows
  <2>2. {} \notin {rows[g] : g \in DOMAIN rows}
    BY <1>1, <2>1
  <2>3. UNION {rows[g] : g \in DOMAIN rows} = Rows(p)
    <3>1. \A g \in DOMAIN rows : rows[g] \subseteq Rows(p)
      BY <1>1, <2>1
    <3>2. \A i \in Rows(p) : \E g \in DOMAIN rows : i \in rows[g]
      BY <1>1, <2>1
    <3>. QED  BY <3>1, <3>2
  <2>4. ASSUME NEW g \in DOMAIN rows, NEW h \in DOMAIN rows, g # h
        PROVE  rows[g] \cap rows[h] = {}
    <3>1. g \in 1..parts /\ h \in 1..parts /\ (g < h \/ h < g)
      BY <1>3, <2>1, <2>4
    <3>2. \A i \in d[g].rows, j \in d[h].rows : i # j
      BY <1>1, <3>1
    <3>. QED  BY <2>1, <3>1, <3>2
  <2>. QED  BY <2>2, <2>3, <2>4 DEF Partitions
<1>5. ASSUME NEW g \in DOMAIN d, NEW h \in DOMAIN d
      PROVE  d[g].count - d[h].count \in -1..1
  <2>1. g \in 1..parts /\ h \in 1..parts
    BY <1>1
  <2>2. d[g].count = Cardinality(d[g].rows) /\ d[h].count = Cardinality(d[h].rows)
    <3>1. d[g] = RowOf(Score(p), d[g].rows) /\ d[h] = RowOf(Score(p), d[h].rows)
      BY <1>1, <2>1
    <3>2. \A rows_ : RowOf(Score(p), rows_).count = Cardinality(rows_)
      BY DEF RowOf
    <3>. QED  BY <3>1, <3>2
  <2>3. d[g].count \in {q, q + 1} /\ d[h].count \in {q, q + 1}
    BY <1>1, <2>1, <2>2
  <2>. QED  BY <1>3, <2>3
<1>6. ASSUME NEW g \in DOMAIN d, NEW h \in DOMAIN d, g < h,
             NEW i \in d[g].rows, NEW j \in d[h].rows
      PROVE  p[i] <= p[j]
  <2>1. g \in 1..parts /\ h \in 1..parts /\ i \in Rows(p) /\ j \in Rows(p)
    BY <1>1
  <2>2. RiskKey(p)[i] <= RiskKey(p)[j]
    <3>1. RiskKey(p)[i] \in Int /\ RiskKey(p)[j] \in Int
      BY <2>1, ScoreFacts DEF RiskKey, Negated
    <3>. QED  BY <1>1, <1>6, <2>1, <3>1
  <2>3. Score(p)[i] >= Score(p)[j] /\ Score(p)[i] \in Int /\ Score(p)[j] \in Int
    BY <2>1, <2>2, ScoreFacts DEF RiskKey, Negated
  <2>4. p[j] < p[i] => Score(p)[j] > Score(p)[i]
    BY <2>1 DEF RankValidated
  <2>5. p[i] \in Int /\ p[j] \in Int
    BY <2>1, ColumnFacts
  <2>. QED  BY <2>3, <2>4, <2>5
<1>. QED  BY <1>4, <1>5, <1>6 DEF d

-----------------------------------------------------------------------------
(***************************************************************************)
(* ScoreTables: without ties, and with groups of one size, one table is the*)
(* other read from its end.                                                *)
(***************************************************************************)

\* Only one enumeration follows an order.
LEMMA OneOrder ==
  ASSUME NEW S, S \subseteq Int, IsFiniteSet(S), NEW key, \A i \in S : key[i] \in Int,
         NEW a, NEW b, IsOrdered(S, key, a), IsOrdered(S, key, b)
  PROVE  a = b
<1> DEFINE n == Cardinality(S)
           Before(i, j) == key[i] < key[j] \/ (key[i] = key[j] /\ i < j)
           D == {k \in 1..n : a[k] # b[k]}
<1>1. n \in Nat
  BY FS_CardinalityType
<1>2. /\ a \in [1..n -> S] /\ b \in [1..n -> S]
      /\ \A i \in S : (\E k \in 1..n : a[k] = i) /\ (\E k \in 1..n : b[k] = i)
      /\ \A k, l \in 1..n : /\ k < l <=> Before(a[k], a[l])
                            /\ k < l <=> Before(b[k], b[l])
                            /\ a[k] = a[l] => k = l
                            /\ b[k] = b[l] => k = l
  BY DEF IsOrdered
<1>3. \A i, j \in S : ~ (Before(i, j) /\ Before(j, i))
  OBVIOUS
<1> HIDE DEF n, Before
<1> SUFFICES ASSUME D # {} PROVE FALSE
  <2>1. a = [k \in 1..n |-> a[k]] /\ b = [k \in 1..n |-> b[k]]
    BY <1>2
  <2>2. D = {} => \A k \in 1..n : a[k] = b[k]
    OBVIOUS
  <2> HIDE DEF D
  <2>3. ASSUME \A k \in 1..n : a[k] = b[k] PROVE a = b
    <3>1. [k \in 1..n |-> a[k]] = [k \in 1..n |-> b[k]]
      BY <2>3
    <3>. QED  BY <2>1, <3>1
  <2>. QED  BY <2>2, <2>3
<1>4. PICK k \in D : \A l \in D : k <= l
  <2>1. D \subseteq Nat
    BY <1>1
  <2> HIDE DEF D
  <2>. QED  BY <2>1, LeastNat
<1>5. k \in 1..n /\ a[k] # b[k] /\ a[k] \in S /\ b[k] \in S
  BY <1>2, <1>4
<1>6. PICK l \in 1..n : b[l] = a[k]
  BY <1>2, <1>5
<1>7. PICK m \in 1..n : a[m] = b[k]
  BY <1>2, <1>5
<1>8. k < l
  <2>1. l # k
    BY <1>5, <1>6
  <2>2. ASSUME l < k PROVE FALSE
    <3>1. a[l] = b[l]
      BY <1>1, <1>4, <2>2
    <3>2. a[l] = a[k]
      BY <1>6, <3>1
    <3>. QED  BY <1>2, <1>5, <2>1, <3>2
  <2>. QED  BY <1>1, <1>5, <2>1, <2>2
<1>9. k < m
  <2>1. m # k
    BY <1>5, <1>7
  <2>2. ASSUME m < k PROVE FALSE
    <3>1. a[m] = b[m]
      BY <1>1, <1>4, <2>2
    <3>2. b[m] = b[k]
      BY <1>7, <3>1
    <3>. QED  BY <1>2, <1>5, <2>1, <3>2
  <2>. QED  BY <1>1, <1>5, <2>1, <2>2
<1>10. Before(b[k], b[l]) /\ Before(a[k], a[m])
  BY <1>2, <1>5, <1>8, <1>9
<1>. QED  BY <1>3, <1>5, <1>6, <1>7, <1>10

\* Two enumerations of which one is the other read backwards.
TurnedRound(up, down, n) ==
  \A k \in 1..n : n + 1 - k \in 1..n /\ down[k] = up[n + 1 - k]

\* Without two equal keys, turning the keys round turns the order round.
LEMMA TurnedOrder ==
  ASSUME NEW S, S \subseteq Int, IsFiniteSet(S), NEW key, \A i \in S : key[i] \in Int,
         \A i, j \in S : key[i] = key[j] => i = j,
         NEW up, IsOrdered(S, key, up),
         NEW down, IsOrdered(S, Negated(S, key), down)
  PROVE  TurnedRound(up, down, Cardinality(S))
<1> DEFINE n == Cardinality(S)
           turned == [k \in 1..n |-> up[n + 1 - k]]
           neg == Negated(S, key)
<1>1. n \in Nat
  BY FS_CardinalityType
<1>2. /\ up \in [1..n -> S]
      /\ \A i \in S : \E k \in 1..n : up[k] = i
      /\ \A k, l \in 1..n :
           /\ k < l <=> \/ key[up[k]] < key[up[l]]
                        \/ key[up[k]] = key[up[l]] /\ up[k] < up[l]
           /\ up[k] = up[l] => k = l
  BY DEF IsOrdered
<1> HIDE DEF n
<1>3. \A k \in 1..n : n + 1 - k \in 1..n /\ n + 1 - (n + 1 - k) = k
  BY <1>1
<1>4. turned \in [1..n -> S] /\ \A k \in 1..n : turned[k] = up[n + 1 - k]
  BY <1>2, <1>3
<1> HIDE DEF turned
<1>5. \A i \in S : \E k \in 1..n : turned[k] = i
  <2> SUFFICES ASSUME NEW i \in S PROVE \E k \in 1..n : turned[k] = i
    OBVIOUS
  <2>1. PICK k \in 1..n : up[k] = i
    BY <1>2
  <2>2. turned[n + 1 - k] = up[k] /\ n + 1 - k \in 1..n
    BY <1>3, <1>4
  <2>. QED  BY <2>1, <2>2
<1>6. ASSUME NEW k \in 1..n, NEW l \in 1..n
      PROVE  /\ k < l <=> \/ neg[turned[k]] < neg[turned[l]]
                          \/ neg[turned[k]] = neg[turned[l]] /\ turned[k] < turned[l]
             /\ turned[k] = turned[l] => k = l
  <2> DEFINE x == n + 1 - k
             y == n + 1 - l
  <2>1. x \in 1..n /\ y \in 1..n /\ turned[k] = up[x] /\ turned[l] = up[y]
        /\ k = n + 1 - x /\ l = n + 1 - y
    BY <1>3, <1>4
  <2>2. /\ k < l <=> y < x
        /\ k = l <=> x = y
    BY <1>1
  <2> HIDE DEF x, y
  <2>3. up[x] \in S /\ up[y] \in S
    BY <1>2, <2>1
  <2>4. /\ key[up[x]] \in Int /\ key[up[y]] \in Int
        /\ neg[up[x]] = -key[up[x]] /\ neg[up[y]] = -key[up[y]]
        /\ up[x] \in Int /\ up[y] \in Int
    BY <2>3 DEF Negated
  <2>5. key[up[x]] = key[up[y]] => up[x] = up[y]
    BY <2>3
  <2>6. y < x <=> key[up[y]] < key[up[x]] \/ (key[up[y]] = key[up[x]] /\ up[y] < up[x])
    BY <1>2, <2>1
  <2>7. up[x] = up[y] => x = y
    BY <1>2, <2>1
  <2> HIDE DEF neg
  <2>. QED  BY <2>1, <2>2, <2>4, <2>5, <2>6, <2>7
<1>7. IsOrdered(S, neg, turned)
  BY <1>4, <1>5, <1>6 DEF IsOrdered, n
<1>8. down = turned
  <2>1. \A i \in S : neg[i] \in Int
    BY DEF Negated
  <2> HIDE DEF neg
  <2>2. IsOrdered(S, neg, down)
    BY DEF neg
  <2>. QED  BY <1>7, <2>1, <2>2, OneOrder
<1>. QED  BY <1>3, <1>4, <1>8 DEF n, TurnedRound

\* The parts of an order turned round, when all are of one size.
LEMMA TurnedPart ==
  ASSUME NEW S, NEW n, NEW up, NEW down, NEW parts,
         Divides(parts, up, n, S), Divides(parts, down, n, S), n % parts = 0,
         TurnedRound(up, down, n),
         NEW g, g \in 1..parts, NEW h, h = parts + 1 - g
  PROVE  Part(down, parts, g) = Part(up, parts, h)
<1> DEFINE q == n \div parts
<1>1. n \in Nat /\ parts \in Nat /\ 0 < parts /\ parts <= n /\ g \in Nat
  BY DEF Divides
<1>2. q \in Nat /\ n = parts * q
  BY <1>1, DivisionFacts, QuotientFacts
<1>3. \A f \in 1..(parts + 1) : Cut(n, parts, f) = (f - 1) * q
  <2>1. \A f \in 1..(parts + 1) : Min({f - 1, 0}) = 0 /\ (f - 1) * q \in Int
    BY <1>1, <1>2, MinOfTwo
  <2>. QED  BY <1>2, <2>1 DEF Cut
<1>4. h \in 1..parts /\ h \in 1..(parts + 1) /\ h + 1 \in 1..(parts + 1)
      /\ g \in 1..(parts + 1) /\ g + 1 \in 1..(parts + 1)
  BY <1>1
<1> DEFINE c == Cut(n, parts, g)
           d == Cut(n, parts, g + 1)
           e == Cut(n, parts, h)
           f == Cut(n, parts, h + 1)
<1>5. e = n - d /\ f = n - c /\ c \in Int /\ d \in Int
  <2>1. c = (g - 1) * q /\ d = g * q /\ e = (parts - g) * q /\ f = (parts - g + 1) * q
    BY <1>1, <1>3, <1>4
  <2>2. (parts - g) * q = parts * q - g * q
        /\ (parts - g + 1) * q = parts * q - (g - 1) * q
    BY <1>1, <1>2
  <2>3. g * q \in Int /\ (g - 1) * q \in Int
    BY <1>1, <1>2
  <2>. QED  BY <1>2, <2>1, <2>2, <2>3
<1>6. 0 <= c /\ d <= n
  <2>1. 0 <= (g - 1) * q /\ c = (g - 1) * q
    BY <1>1, <1>2, <1>3, <1>4
  <2>2. g * q <= parts * q /\ d = g * q
    BY <1>1, <1>2, <1>3, <1>4
  <2>. QED  BY <1>2, <2>1, <2>2
<1>7. Part(down, parts, g) = Between(down, n, parts, g)
  BY PartRows
<1>8. Part(up, parts, h) = Between(up, n, parts, h)
  <2>1. h \in 1..parts
    BY <1>4
  <2>. QED  BY <2>1, PartRows
<1>9. Between(down, n, parts, g) = {down[k] : k \in (c + 1)..d}
  BY DEF Between
<1>10. Between(up, n, parts, h) = {up[k] : k \in (e + 1)..f}
  BY DEF Between
<1> HIDE DEF c, d, e, f, q
<1>11. \A k \in (c + 1)..d : n + 1 - k \in (e + 1)..f /\ down[k] = up[n + 1 - k]
  BY <1>1, <1>5, <1>6 DEF TurnedRound
<1>12. \A k \in (e + 1)..f : n + 1 - k \in (c + 1)..d /\ down[n + 1 - k] = up[k]
  <2> SUFFICES ASSUME NEW k \in (e + 1)..f
               PROVE  n + 1 - k \in (c + 1)..d /\ down[n + 1 - k] = up[k]
    OBVIOUS
  <2>1. n + 1 - k \in (c + 1)..d /\ n + 1 - k \in 1..n /\ n + 1 - (n + 1 - k) = k
    BY <1>1, <1>5, <1>6
  <2>. QED  BY <2>1 DEF TurnedRound
<1>13. {down[k] : k \in (c + 1)..d} = {up[k] : k \in (e + 1)..f}
  BY <1>11, <1>12
<1>. QED  BY <1>7, <1>8, <1>9, <1>10, <1>13

\* What TablesMirror says of the two tables.
LEMMA MirrorFacts ==
  ASSUME NEW p \in Columns, NEW groups \in 1..MaxGroups, RankValidated(p),
         Distinct(p), Len(p) % groups = 0
  PROVE  LET deciles == ScoreDeciles(p, groups)
             ranking == RankingTable(p, groups)
         IN  \A g \in DOMAIN deciles : deciles[g] = ranking[Len(ranking) + 1 - g]
<1> DEFINE S == Rows(p)
           up == RankingOrder(p)
           down == DecileOrder(p)
           deciles == ScoreDeciles(p, groups)
           ranking == RankingTable(p, groups)
<1>1. PICK n \in Nat : /\ n >= 2 /\ S = 1..n /\ Len(p) = n
                       /\ IsFiniteSet(S) /\ Cardinality(S) = n
                       /\ \A i \in S : p[i] \in Int
  BY ColumnFacts
<1>2. groups \in Nat /\ groups > 0
  BY ScoreTablesAssumption
<1>3. groups <= n /\ n % groups = 0
  <2>1. n % groups = 0
    BY <1>1
  <2>2. ASSUME n < groups PROVE FALSE
    <3> DEFINE q == n \div groups
    <3>1. n = groups * q + 0 /\ q \in Int
      BY <1>1, <1>2, <2>1, DivisionFacts
    <3>2. q <= 0 => groups * q <= 0
      BY <1>2, <3>1
    <3>3. q >= 1 => groups * q >= groups
      BY <1>2, <3>1
    <3> HIDE DEF q
    <3>. QED  BY <1>1, <1>2, <2>2, <3>1, <3>2, <3>3
  <2>. QED  BY <1>1, <1>2, <2>1, <2>2
<1>4. \A i, j \in S : Score(p)[i] = Score(p)[j] => i = j
  <2> SUFFICES ASSUME NEW i \in S, NEW j \in S, Score(p)[i] = Score(p)[j] PROVE i = j
    OBVIOUS
  <2>1. Score(p)[i] \in Int /\ Score(p)[j] \in Int
    BY ScoreFacts
  <2>2. /\ p[i] < p[j] => Score(p)[i] > Score(p)[j]
        /\ p[j] < p[i] => Score(p)[j] > Score(p)[i]
    BY DEF RankValidated
  <2>3. p[i] = p[j]
    BY <1>1, <2>1, <2>2
  <2>. QED  BY <2>3 DEF Distinct
<1>5. IsOrdered(S, Score(p), up) /\ IsOrdered(S, Negated(S, Score(p)), down)
  BY TableOrders DEF RiskKey
<1>6. /\ deciles = Grouped(Score(p), down, groups)
      /\ ranking = Grouped(Score(p), up, groups)
      /\ IsTable(deciles, S, RiskKey(p), Score(p), groups)
      /\ IsTable(ranking, S, Score(p), Score(p), groups)
  BY TableFacts
<1>7. S \subseteq Int /\ \A i \in S : Score(p)[i] \in Int
  BY <1>1, ScoreFacts
<1> HIDE DEF S, up, down, deciles, ranking
<1>8. TurnedRound(up, down, n)
  <2> DEFINE score == Score(p)
  <2>1. /\ \A i \in S : score[i] \in Int
        /\ \A i, j \in S : score[i] = score[j] => i = j
        /\ IsOrdered(S, score, up) /\ IsOrdered(S, Negated(S, score), down)
    BY <1>4, <1>5, <1>7
  <2> HIDE DEF score
  <2>2. TurnedRound(up, down, Cardinality(S))
    BY <1>1, <1>7, <2>1, TurnedOrder
  <2>. QED  BY <1>1, <2>2
<1>9. Divides(groups, up, n, S) /\ Divides(groups, down, n, S)
  BY <1>1, <1>2, <1>3, <1>5 DEF Divides, IsOrdered
<1>10. /\ DOMAIN deciles = 1..groups /\ DOMAIN ranking = 1..groups
       /\ Len(ranking) = groups
       /\ \A g \in 1..groups : /\ deciles[g] = RowOf(Score(p), deciles[g].rows)
                               /\ ranking[g] = RowOf(Score(p), ranking[g].rows)
  BY <1>1, <1>3, <1>6 DEF IsTable
<1>11. \A g \in 1..groups : /\ deciles[g].rows = Part(down, groups, g)
                            /\ ranking[g].rows = Part(up, groups, g)
  <2>1. (IF groups <= Cardinality(S) THEN groups ELSE Cardinality(S)) = groups
    BY <1>1, <1>3
  <2>2. IsFiniteSet(S) /\ S # {}
    <3>1. IsFiniteSet(S) /\ 1 \in S
      BY <1>1
    <3>. QED  BY <3>1
  <2>. QED  BY <1>2, <1>5, <1>6, <1>10, <2>1, <2>2, GroupedFacts
<1>12. ASSUME NEW g \in 1..groups
       PROVE  deciles[g] = ranking[groups + 1 - g]
  <2> DEFINE h == groups + 1 - g
  <2>1. h \in 1..groups /\ h = groups + 1 - g
    BY <1>2
  <2> HIDE DEF h
  <2>2. Part(down, groups, g) = Part(up, groups, h)
    BY <1>3, <1>8, <1>9, <2>1, TurnedPart
  <2>3. deciles[g].rows = ranking[h].rows
    BY <1>11, <2>1, <2>2
  <2>. QED  BY <1>10, <2>1, <2>3
<1>. QED  BY <1>10, <1>12 DEF deciles, ranking

-----------------------------------------------------------------------------
(***************************************************************************)
(* ScoreTables: the boundaries of a baseline separate its groups, so that  *)
(* each score is counted for the group it is of.                           *)
(***************************************************************************)

\* Between two integers with room the middle is strictly between.
LEMMA MiddleFacts ==
  ASSUME NEW a \in Int, NEW b \in Int, a + 2 <= b
  PROVE  Middle(a, b) \in Int /\ a < Middle(a, b) /\ Middle(a, b) < b
<1> DEFINE half == (a + b) \div 2
<1>1. half \in Int /\ (a + b) % 2 \in Int /\ 0 <= (a + b) % 2 /\ (a + b) % 2 < 2
      /\ a + b = 2 * half + ((a + b) % 2)
  <2>1. a + b \in Int /\ 2 \in Int /\ 2 > 0
    OBVIOUS
  <2>. QED  BY <2>1, DivisionFacts
<1>2. Middle(a, b) = half \/ (Middle(a, b) = half + 1 /\ (a + b) % 2 = 1)
  BY DEF Middle
<1> HIDE DEF half
<1>. QED  BY <1>1, <1>2

\* A sequence that rises from each place to the next rises.
LEMMA Rising ==
  ASSUME NEW n, n \in Nat, NEW f, \A g \in 1..n : f[g] \in Int,
         \A g \in 1..(n - 1) : f[g] < f[g + 1]
  PROVE  \A g, h \in 1..n : g < h => f[g] < f[h]
<1> SUFFICES ASSUME NEW g \in 1..n, NEW h \in 1..n, g < h, ~ (f[g] < f[h])
             PROVE  FALSE
  OBVIOUS
<1> DEFINE H == {i \in 1..n : g < i /\ ~ (f[g] < f[i])}
<1>1. PICK i \in H : \A j \in H : i <= j
  <2>1. H \subseteq Nat /\ h \in H
    OBVIOUS
  <2>. QED  BY <2>1, LeastNat
<1>2. i - 1 \in 1..(n - 1) /\ i - 1 \in 1..n /\ i - 1 \notin H /\ (i - 1) + 1 = i
  BY <1>1
<1>3. f[i - 1] < f[i] /\ f[i - 1] \in Int /\ f[i] \in Int /\ f[g] \in Int
  BY <1>1, <1>2
<1>4. i - 1 = g \/ f[g] < f[i - 1]
  BY <1>1, <1>2
<1>. QED  BY <1>1, <1>3, <1>4

\* The order in which build_baseline goes through a table.
LowFirst(S, d) ==
  Ordered(S, LAMBDA h, g : \/ d[h].min < d[g].min
                           \/ d[h].min = d[g].min /\ h < g)

Minima(S, d) == [g \in S |-> d[g].min]

\* The rows of a table, sorted by their minimum.
LEMMA LowFirstOrder ==
  ASSUME NEW S, S \subseteq Int, IsFiniteSet(S), NEW d, \A g \in S : d[g].min \in Int
  PROVE  IsOrdered(S, Minima(S, d), LowFirst(S, d))
<1> DEFINE order == LowFirst(S, d)
           key == Minima(S, d)
           Below(i) == {j \in S : d[j].min < d[i].min \/ (d[j].min = d[i].min /\ j < i)}
<1>1. order = [k \in 1..Cardinality(S) |->
                 CHOOSE i \in S : Cardinality(Below(i)) = k - 1]
  BY DEF Ordered, LowFirst
<1> HIDE DEF order, Below
<1>3. order = [k \in 1..Cardinality(S) |-> order[k]]
  BY <1>1
<1>4. \A k \in 1..Cardinality(S) :
        order[k] = CHOOSE i \in S : Cardinality(Below(i)) = k - 1
  BY <1>1
<1> USE DEF Below
<1>5. \A i \in S : Preceding(S, key, i) = Below(i)
  <2>1. \A i, j \in S : /\ key[j] < key[i] <=> d[j].min < d[i].min
                        /\ key[j] = key[i] <=> d[j].min = d[i].min
    BY DEF Minima
  <2> HIDE DEF key
  <2>. QED  BY <2>1 DEF Preceding
<1>6. \A i \in S : key[i] \in Int
  BY DEF Minima
<1> HIDE DEF order, key, Below
<1>7. ASSUME NEW k \in 1..Cardinality(S),
             \E i \in S : Cardinality(Preceding(S, key, i)) = k - 1
      PROVE  order[k] \in S /\ Cardinality(Preceding(S, key, order[k])) = k - 1
  <2>1. \E i \in S : Cardinality(Below(i)) = k - 1
    BY <1>5, <1>7
  <2>2. order[k] \in S /\ Cardinality(Below(order[k])) = k - 1
    BY <1>4, <2>1
  <2>. QED  BY <1>5, <2>2
<1>8. IsOrdered(S, key, order)
  BY <1>3, <1>6, <1>7, KeyOrder
<1>. QED  BY <1>8 DEF order, key

\* The boundaries of an accepted baseline fall between its rows.
Separates(c, row, n) ==
  /\ n \in Nat /\ n > 0
  /\ DOMAIN c = 1..(n - 1) /\ Len(c) = n - 1
  /\ \A b \in 1..(n - 1) : c[b] \in Int /\ row[b].max < c[b] /\ c[b] < row[b + 1].min
  /\ \A b \in 1..n : row[b].min \in Int /\ row[b].max \in Int /\ row[b].min <= row[b].max

\* The boundaries that a score has reached.
Reached(c, score) == {e \in DOMAIN c : c[e] <= score}

\* Boundaries that separate rows rise.
LEMMA BoundariesRise ==
  ASSUME NEW n, NEW row, NEW c, Separates(c, row, n)
  PROVE  /\ \A b \in 1..(n - 2) : c[b] < c[b + 1]
         /\ \A e, f \in 1..(n - 1) : e < f => c[e] < c[f]
<1>1. /\ n \in Nat /\ n > 0
      /\ \A b \in 1..(n - 1) : c[b] \in Int /\ row[b].max < c[b] /\ c[b] < row[b + 1].min
      /\ \A b \in 1..n : row[b].min \in Int /\ row[b].max \in Int /\ row[b].min <= row[b].max
  BY DEF Separates
<1>2. ASSUME NEW b \in 1..(n - 2) PROVE c[b] < c[b + 1]
  <2>1. b \in 1..(n - 1) /\ b + 1 \in 1..(n - 1) /\ b + 1 \in 1..n
    BY <1>1
  <2>2. c[b] \in Int /\ c[b + 1] \in Int /\ row[b + 1].min \in Int /\ row[b + 1].max \in Int
    BY <1>1, <2>1
  <2>3. c[b] < row[b + 1].min /\ row[b + 1].min <= row[b + 1].max /\ row[b + 1].max < c[b + 1]
    BY <1>1, <2>1
  <2>. QED  BY <2>2, <2>3
<1> DEFINE m == n - 1
<1>3. m \in Nat /\ (\A g \in 1..m : c[g] \in Int)
      /\ \A g \in 1..(m - 1) : c[g] < c[g + 1]
  BY <1>1, <1>2
<1> HIDE DEF m
<1>4. \A e, f \in 1..m : e < f => c[e] < c[f]
  BY <1>3, Rising
<1>. QED  BY <1>2, <1>4 DEF m

\* A score of the b-th row has reached the b - 1 boundaries below that row.
LEMMA ReachedFacts ==
  ASSUME NEW n, NEW row, NEW c, Separates(c, row, n),
         NEW b, b \in 1..n, NEW s, s \in Int, row[b].min <= s, s <= row[b].max
  PROVE  Cardinality(Reached(c, s)) = b - 1
<1>1. /\ n \in Nat /\ n > 0 /\ DOMAIN c = 1..(n - 1)
      /\ row[b].min \in Int /\ row[b].max \in Int
      /\ \A e \in 1..(n - 1) : c[e] \in Int /\ row[e].max < c[e] /\ c[e] < row[e + 1].min
  BY DEF Separates
<1>2. \A e, f \in 1..(n - 1) : e < f => c[e] < c[f]
  BY BoundariesRise
<1>3. ASSUME NEW e \in 1..(n - 1) PROVE c[e] <= s <=> e <= b - 1
  <2>1. c[e] \in Int /\ e \in Int /\ b \in Int
    BY <1>1
  <2>2. CASE e <= b - 1
    <3> DEFINE a == b - 1
    <3>1. a \in 1..(n - 1) /\ a + 1 = b
      BY <1>1, <2>1, <2>2
    <3> HIDE DEF a
    <3>2. c[a] \in Int /\ c[a] < row[b].min
      BY <1>1, <3>1
    <3>3. e = a \/ c[e] < c[a]
      <4>1. e = a \/ e < a
        BY <2>1, <2>2, <3>1
      <4>. QED  BY <1>2, <3>1, <4>1
    <3>4. c[e] <= c[a] /\ row[b].min \in Int
      BY <1>1, <2>1, <3>2, <3>3
    <3>5. c[e] <= s
      BY <2>1, <3>2, <3>4
    <3>. QED  BY <2>2, <3>5
  <2>3. CASE b <= e
    <3>1. b \in 1..(n - 1)
      BY <1>1, <2>3
    <3>2. row[b].max < c[b] /\ c[b] \in Int
      BY <1>1, <3>1
    <3>3. e = b \/ c[b] < c[e]
      BY <1>2, <2>1, <2>3, <3>1
    <3>4. ~ (c[e] <= s)
      BY <1>1, <2>1, <3>2, <3>3
    <3>. QED  BY <2>1, <2>3, <3>4
  <2>. QED  BY <2>1, <2>2, <2>3
<1>4. Reached(c, s) = 1..(b - 1)
  <2>1. \A e \in 1..(b - 1) : e \in 1..(n - 1) /\ e <= b - 1
    BY <1>1
  <2>2. \A e \in 1..(n - 1) : e <= b - 1 => e \in 1..(b - 1)
    BY <1>1
  <2>. QED  BY <1>1, <1>3, <2>1, <2>2 DEF Reached
<1>5. Cardinality(1..(b - 1)) = b - 1
  <2>1. 1 \in Int /\ b - 1 \in Int /\ b >= 1
    BY <1>1
  <2>2. Cardinality(1..(b - 1)) = IF 1 > b - 1 THEN 0 ELSE b - 1 - 1 + 1
    BY <2>1, FS_Interval
  <2>. QED  BY <2>1, <2>2
<1>. QED  BY <1>4, <1>5

\* The scores of the rows, counted into the boundaries between them.
LEMMA CountsFacts ==
  ASSUME NEW n, NEW row, NEW c, Separates(c, row, n),
         NEW s, \A i \in DOMAIN s : s[i] \in Int,
         \A b \in 1..n : row[b].rows \subseteq DOMAIN s
                        /\ \A i \in row[b].rows : row[b].min <= s[i] /\ s[i] <= row[b].max,
         \A i \in DOMAIN s : \E b \in 1..n : i \in row[b].rows
  PROVE  BinCounts(s, c) = [b \in 1..n |-> Cardinality(row[b].rows)]
<1> DEFINE below(i) == Reached(c, s[i])
           bin(b) == {i \in DOMAIN s : Cardinality(below(i)) = b - 1}
<1>0. n \in Nat /\ n > 0 /\ Len(c) = n - 1 /\ \A b \in 1..(n - 1) : c[b] \in Int
  BY DEF Separates
<1>1. \A b \in 1..n : \A i \in row[b].rows : Cardinality(below(i)) = b - 1
  BY ReachedFacts
<1>2. ~ \E b \in 1..(Len(c) - 1) : c[b] >= c[b + 1]
  <2> SUFFICES ASSUME NEW b \in 1..(n - 2) PROVE ~ (c[b] >= c[b + 1])
    BY <1>0
  <2>1. c[b] < c[b + 1]
    BY BoundariesRise
  <2>2. b \in 1..(n - 1) /\ b + 1 \in 1..(n - 1)
    BY <1>0
  <2>3. c[b] \in Int /\ c[b + 1] \in Int
    BY <1>0, <2>2
  <2>. QED  BY <2>1, <2>3
<1>3. BinCounts(s, c) = [b \in 1..n |-> Cardinality(bin(b))]
  <2>1. Len(c) + 1 = n
    BY <1>0
  <2>2. BinCounts(s, c) = [b \in 1..(Len(c) + 1) |-> Cardinality(bin(b))]
    BY <1>2 DEF BinCounts, Reached
  <2>. QED  BY <2>1, <2>2
<1> HIDE DEF below
<1>4. ASSUME NEW b \in 1..n PROVE bin(b) = row[b].rows
  <2>1. \A i \in row[b].rows : i \in bin(b)
    BY <1>1
  <2>2. ASSUME NEW i \in bin(b) PROVE i \in row[b].rows
    <3>1. PICK f \in 1..n : i \in row[f].rows
      OBVIOUS
    <3>2. b - 1 = f - 1
      BY <1>1, <3>1
    <3>3. b = f
      BY <1>0, <3>2
    <3>. QED  BY <3>1, <3>3
  <2>. QED  BY <2>1, <2>2
<1> HIDE DEF bin
<1>. QED  BY <1>3, <1>4

\* What BaselineCountsItself says of the baseline.
LEMMA BaselineFacts ==
  ASSUME NEW p \in Columns, NEW groups \in 1..MaxGroups,
         LET baseline == BuildBaseline(ScoreDeciles(p, groups), groups)
         IN  baseline # Refused /\ 1 \notin baseline.gaps
  PROVE  LET baseline == BuildBaseline(ScoreDeciles(p, groups), groups)
         IN  BinCounts(Score(p), baseline.boundaries) = baseline.counts
<1> DEFINE d == ScoreDeciles(p, groups)
           low == LowFirst(DOMAIN d, d)
           row == [b \in DOMAIN d |-> d[low[b]]]
           n == Len(d)
           inner == 1..(n - 1)
           c == [b \in inner |-> Middle(row[b].max, row[b + 1].min)]
           baseline == BuildBaseline(d, groups)
           s == Score(p)
<1>1. /\ n \in Nat /\ n > 0 /\ DOMAIN d = 1..n
      /\ \A g \in 1..n : /\ d[g] = RowOf(s, d[g].rows)
                         /\ d[g].rows \subseteq Rows(p) /\ d[g].rows # {}
      /\ \A i \in Rows(p) : \E g \in 1..n : i \in d[g].rows
  <2>1. IsTable(d, Rows(p), RiskKey(p), s, groups)
    BY TableFacts
  <2>2. Cardinality(Rows(p)) \in Nat /\ groups \in Nat
    BY ColumnFacts, ScoreTablesAssumption
  <2> HIDE DEF d, s
  <2>. QED  BY <2>1, <2>2 DEF IsTable
<1>2. DOMAIN s = Rows(p) /\ \A i \in Rows(p) : s[i] \in Int /\ 0 <= s[i] /\ s[i] <= TopP
  BY ScoreFacts
<1>3. baseline # Refused /\ 1 \notin baseline.gaps
  OBVIOUS
<1>4. /\ \A b \in inner : ~ (row[b].max >= row[b + 1].min)
      /\ baseline.boundaries = c
      /\ baseline.counts = [b \in DOMAIN d |-> row[b].count]
      /\ baseline.gaps = {row[b + 1].min - row[b].max : b \in inner}
  BY <1>3 DEF BuildBaseline, LowFirst
<1> HIDE DEF d, s, baseline
<1>5. ASSUME NEW g \in 1..n
      PROVE  /\ d[g].count = Cardinality(d[g].rows)
             /\ d[g].min \in Int /\ d[g].max \in Int /\ d[g].min <= d[g].max
             /\ \A i \in d[g].rows : d[g].min <= s[i] /\ s[i] <= d[g].max
  <2> DEFINE rows == d[g].rows
  <2>1. rows # {} /\ (\A i \in rows : s[i] \in Int /\ 0 <= s[i] /\ s[i] <= TopP)
        /\ d[g] = RowOf(s, rows)
    BY <1>1, <1>2
  <2> HIDE DEF rows
  <2>2. LET r == RowOf(s, rows)
         IN  /\ r.rows = rows /\ r.count = Cardinality(rows)
             /\ r.min \in Int /\ r.max \in Int /\ r.min <= r.max
             /\ \A i \in rows : r.min <= s[i] /\ s[i] <= r.max
    BY <2>1, RowOfFacts
  <2>. QED  BY <2>1, <2>2
<1>6. low \in [1..n -> 1..n] /\ \A g \in 1..n : \E b \in 1..n : low[b] = g
  <2> DEFINE S == DOMAIN d
  <2>1. S = 1..n /\ n \in Nat /\ \A g \in S : d[g].min \in Int
    BY <1>1, <1>5
  <2> HIDE DEF n, low, S
  <2>2. S \subseteq Int /\ IsFiniteSet(S) /\ Cardinality(S) = n
    <3>1. IsFiniteSet(1..n) /\ Cardinality(1..n) = IF 1 > n THEN 0 ELSE n - 1 + 1
      BY <2>1, FS_Interval
    <3>. QED  BY <1>1, <2>1, <3>1
  <2>3. IsOrdered(S, Minima(S, d), LowFirst(S, d))
    BY <2>1, <2>2, LowFirstOrder
  <2>. QED  BY <2>1, <2>2, <2>3 DEF low, S, IsOrdered
<1> HIDE DEF low, n
<1>7. \A b \in 1..n : row[b] = d[low[b]] /\ low[b] \in 1..n
  BY <1>1, <1>6
<1>8. \A b \in 1..n : /\ row[b].count = Cardinality(row[b].rows)
                      /\ row[b].min \in Int /\ row[b].max \in Int /\ row[b].min <= row[b].max
                      /\ row[b].rows \subseteq DOMAIN s
                      /\ \A i \in row[b].rows : row[b].min <= s[i] /\ s[i] <= row[b].max
  BY <1>1, <1>2, <1>5, <1>7
<1>9. \A i \in DOMAIN s : \E b \in 1..n : i \in row[b].rows
  <2> SUFFICES ASSUME NEW i \in DOMAIN s PROVE \E b \in 1..n : i \in row[b].rows
    OBVIOUS
  <2>1. PICK g \in 1..n : i \in d[g].rows
    BY <1>1, <1>2
  <2>2. PICK b \in 1..n : low[b] = g
    BY <1>6
  <2>. QED  BY <1>7, <2>1, <2>2
<1> HIDE DEF row
<1>10. \A b \in 1..(n - 1) : c[b] \in Int /\ row[b].max < c[b] /\ c[b] < row[b + 1].min
  <2> SUFFICES ASSUME NEW b \in 1..(n - 1)
               PROVE  c[b] \in Int /\ row[b].max < c[b] /\ c[b] < row[b + 1].min
    OBVIOUS
  <2>1. b \in 1..n /\ b + 1 \in 1..n
    BY <1>1
  <2>2. row[b].max \in Int /\ row[b + 1].min \in Int
    BY <1>8, <2>1
  <2>3. row[b + 1].min - row[b].max # 1
    BY <1>3, <1>4
  <2>4. row[b].max + 2 <= row[b + 1].min
    BY <1>4, <2>2, <2>3
  <2>5. c[b] = Middle(row[b].max, row[b + 1].min)
    OBVIOUS
  <2> HIDE DEF c
  <2>. QED  BY <2>2, <2>4, <2>5, MiddleFacts
<1>11. DOMAIN c = 1..(n - 1) /\ Len(c) = n - 1
  BY <1>1
<1> HIDE DEF c
<1>12. BinCounts(s, c) = [b \in 1..n |-> Cardinality(row[b].rows)]
  <2>1. Separates(c, row, n)
    BY <1>1, <1>8, <1>10, <1>11 DEF Separates
  <2>2. \A i \in DOMAIN s : s[i] \in Int
    BY <1>2
  <2>3. \A b \in 1..n : row[b].rows \subseteq DOMAIN s
          /\ \A i \in row[b].rows : row[b].min <= s[i] /\ s[i] <= row[b].max
    BY <1>8
  <2>. QED  BY <1>9, <2>1, <2>2, <2>3, CountsFacts
<1>13. baseline.counts = [b \in 1..n |-> Cardinality(row[b].rows)]
  <2>1. baseline.counts = [b \in 1..n |-> row[b].count]
    BY <1>1, <1>4
  <2>. QED  BY <1>8, <2>1
<1>. QED  BY <1>4, <1>12, <1>13 DEF d, s, baseline

-----------------------------------------------------------------------------
(***************************************************************************)
(* ScoreTables: the quantiles that bound the bins of the reliability diagram,*)
(* and the label of a probability: how many of them it has reached.        *)
(***************************************************************************)

\* The least m with l * N <= m * bins.
Up(l, N, bins) == (l * N + bins - 1) \div bins

\* Up rounds up.
LEMMA UpFacts ==
  ASSUME NEW l \in Nat, NEW N \in Nat, NEW bins \in Nat, bins > 0
  PROVE  /\ Up(l, N, bins) \in Int
         /\ \E r \in 0..(bins - 1) : bins * Up(l, N, bins) + r = l * N + bins - 1
         /\ \A m \in Int : l * N <= m * bins <=> Up(l, N, bins) <= m
<1> DEFINE u == Up(l, N, bins)
           x == l * N + bins - 1
           r == x % bins
<1>1. l * N \in Int /\ x \in Int
  OBVIOUS
<1>2. u \in Int /\ r \in 0..(bins - 1) /\ x = bins * u + r
  <2> HIDE DEF x
  <2>1. /\ x \div bins \in Int /\ x % bins \in Int
        /\ 0 <= x % bins /\ x % bins < bins
        /\ x = bins * (x \div bins) + (x % bins)
    BY <1>1, DivisionFacts
  <2>. QED  BY <2>1 DEF Up, x
<1> HIDE DEF u, r
<1>3. ASSUME NEW m \in Int PROVE l * N <= m * bins <=> u <= m
  <2>1. m * bins \in Int /\ bins * u \in Int
    BY <1>2
  <2>2. u <= m => bins * u <= m * bins
    BY <1>2
  <2>3. m <= u - 1 => m * bins <= bins * u - bins
    <3>1. m <= u - 1 => m * bins <= (u - 1) * bins
      BY <1>2
    <3>2. (u - 1) * bins = bins * u - bins
      BY <1>2
    <3>. QED  BY <3>1, <3>2
  <2>4. l * N = bins * u + r - bins + 1
    BY <1>1, <1>2, <2>1
  <2>. QED  BY <1>1, <1>2, <2>1, <2>2, <2>3, <2>4
<1>. QED  BY <1>1, <1>2, <1>3 DEF u

\* A multiple of bins that is more than -bins and less than 2 * bins.
LEMMA SmallMultiple ==
  ASSUME NEW bins \in Nat, bins > 0, NEW x \in Int, -bins < bins * x, bins * x < 2 * bins
  PROVE  x \in {0, 1}
<1>1. x <= -1 => bins * x <= -bins
  OBVIOUS
<1>2. x >= 2 => bins * x >= 2 * bins
  OBVIOUS
<1>3. bins * x \in Int
  OBVIOUS
<1>. QED  BY <1>1, <1>2, <1>3

\* How many steps of bins there are from one multiple of N to the next.
LEMMA StepFacts ==
  ASSUME NEW l \in Nat, NEW N \in Nat, NEW bins \in Nat, bins > 0
  PROVE  Up(l + 1, N, bins) - Up(l, N, bins) \in {N \div bins, N \div bins + 1}
<1> DEFINE a == Up(l, N, bins)
           b == Up(l + 1, N, bins)
           q == N \div bins
           s == N % bins
<1>1. a \in Int /\ \E r \in 0..(bins - 1) : bins * a + r = l * N + bins - 1
  BY UpFacts
<1>2. b \in Int /\ \E r \in 0..(bins - 1) : bins * b + r = (l + 1) * N + bins - 1
  <2> DEFINE k == l + 1
  <2>1. k \in Nat
    OBVIOUS
  <2> HIDE DEF k
  <2>2. Up(k, N, bins) \in Int
        /\ \E r \in 0..(bins - 1) : bins * Up(k, N, bins) + r = k * N + bins - 1
    BY <2>1, UpFacts
  <2>. QED  BY <2>2 DEF k
<1>3. q \in Int /\ s \in Int /\ 0 <= s /\ s < bins /\ N = bins * q + s
  BY DivisionFacts
<1> HIDE DEF a, b, q, s
<1>4. PICK r \in 0..(bins - 1) : bins * a + r = l * N + bins - 1
  BY <1>1
<1>5. PICK t \in 0..(bins - 1) : bins * b + t = (l + 1) * N + bins - 1
  BY <1>2
<1> DEFINE x == b - a - q
<1>6. x \in Int /\ bins * x = bins * b - bins * a - bins * q
  BY <1>1, <1>2, <1>3
<1>7. (l + 1) * N = l * N + N /\ l * N \in Int
  OBVIOUS
<1>8. bins * b \in Int /\ bins * a \in Int /\ bins * q \in Int
  BY <1>1, <1>2, <1>3
<1>9. bins * x = s + r - t
  BY <1>3, <1>4, <1>5, <1>6, <1>7, <1>8
<1>10. x \in {0, 1}
  <2>1. -bins < bins * x /\ bins * x < 2 * bins
    BY <1>3, <1>9
  <2>. QED  BY <1>6, <2>1, SmallMultiple
<1>. QED  BY <1>1, <1>2, <1>3, <1>10 DEF a, b, q

\* The last label has one rank more than the quotient.
LEMMA LastStep ==
  ASSUME NEW N \in Nat, NEW bins \in Nat, bins > 0
  PROVE  N + 1 - Up(bins - 1, N, bins) = N \div bins + 1
<1> DEFINE l == bins - 1
           a == Up(l, N, bins)
           q == N \div bins
           s == N % bins
<1>0. l \in Nat
  OBVIOUS
<1>1. a \in Int /\ \E r \in 0..(bins - 1) : bins * a + r = l * N + bins - 1
  <2> HIDE DEF l
  <2>. QED  BY <1>0, UpFacts
<1>3. q \in Int /\ s \in Int /\ 0 <= s /\ s < bins /\ N = bins * q + s
  BY DivisionFacts
<1> HIDE DEF a, q, s
<1>4. PICK r \in 0..(bins - 1) : bins * a + r = l * N + bins - 1
  BY <1>1
<1>5. l * N = bins * N - N /\ bins * N \in Int
  OBVIOUS
<1> DEFINE x == N - a - q
<1>6. x \in Int /\ bins * x = bins * N - bins * a - bins * q
  BY <1>1, <1>3
<1>7. bins * a \in Int /\ bins * q \in Int
  BY <1>1, <1>3
<1>8. bins * x = s + r - (bins - 1)
  BY <1>3, <1>4, <1>5, <1>6, <1>7
<1>9. x \in {0, 1}
  <2>1. -bins < bins * x /\ bins * x < 2 * bins
    BY <1>3, <1>8
  <2>. QED  BY <1>6, <2>1, SmallMultiple
<1>10. x # 1
  <2>1. x = 1 => bins * x = bins
    OBVIOUS
  <2>. QED  BY <1>3, <1>8, <2>1
<1>. QED  BY <1>1, <1>3, <1>9, <1>10 DEF a, q

Sorted(p) == Ascending(Rows(p), p)

\* The probabilities, lowest first.
Value(p) == [k \in Rows(p) |-> p[Sorted(p)[k]]]

\* The k-th lowest probability rises with k, and strictly if no two are equal.
LEMMA ValueFacts ==
  ASSUME NEW p \in Columns
  PROVE  /\ IsOrdered(Rows(p), p, Sorted(p))
         /\ \A k \in Rows(p) : Sorted(p)[k] \in Rows(p) /\ Value(p)[k] \in Int
         /\ \A k, l \in Rows(p) : k <= l => Value(p)[k] <= Value(p)[l]
         /\ Distinct(p) => \A k, l \in Rows(p) : k < l => Value(p)[k] < Value(p)[l]
<1> DEFINE S == Rows(p)
           o == Sorted(p)
           v == Value(p)
<1>1. PICK n \in Nat : /\ S = 1..n /\ IsFiniteSet(S) /\ Cardinality(S) = n
                       /\ \A i \in S : p[i] \in Int
  BY ColumnFacts
<1>2. IsOrdered(S, p, o)
  BY <1>1, AscendingOrder DEF Sorted
<1>3. \A k \in S : v[k] = p[o[k]]
  BY DEF Value
<1>4. Distinct(p) => \A i, j \in S : p[i] = p[j] => i = j
  BY DEF Distinct
<1> HIDE DEF S, o, v
<1>5. /\ \A k \in S : o[k] \in S
      /\ \A k, l \in S : k < l => \/ p[o[k]] < p[o[l]]
                                  \/ p[o[k]] = p[o[l]] /\ o[k] < o[l]
      /\ \A k, l \in S : o[k] = o[l] => k = l
  BY <1>1, <1>2 DEF IsOrdered
<1>6. \A k \in S : v[k] \in Int
  BY <1>1, <1>3, <1>5
<1>7. ASSUME NEW k \in S, NEW l \in S, k <= l PROVE v[k] <= v[l]
  <2>1. k \in Int /\ l \in Int /\ v[k] \in Int /\ v[l] \in Int
    BY <1>1, <1>6
  <2>2. k = l \/ k < l
    BY <1>7, <2>1
  <2>3. k < l => v[k] < v[l] \/ v[k] = v[l]
    BY <1>3, <1>5
  <2>. QED  BY <2>1, <2>2, <2>3
<1>8. ASSUME Distinct(p), NEW k \in S, NEW l \in S, k < l PROVE v[k] < v[l]
  <2>1. k \in Int /\ l \in Int /\ v[k] \in Int /\ v[l] \in Int
    BY <1>1, <1>6
  <2>2. v[k] <= v[l]
    BY <1>7, <1>8, <2>1
  <2>3. o[k] # o[l]
    BY <1>5, <1>8, <2>1
  <2>4. v[k] # v[l]
    BY <1>3, <1>4, <1>5, <1>8, <2>3
  <2>. QED  BY <2>1, <2>2, <2>4
<1>. QED  BY <1>2, <1>5, <1>6, <1>7, <1>8 DEF S, o, v

\* Quantile j of QuantileEdges.
Quantile(p, bins, j) ==
  LET at   == j * (Len(p) - 1)
      low  == (at \div bins) + 1
      high == Min({low + 1, Len(p)})
  IN  p[Sorted(p)[low]] * (bins - (at % bins)) + p[Sorted(p)[high]] * (at % bins)

Inside(p, bins) ==
  {e \in {Quantile(p, bins, j) : j \in 1..(bins - 1)} :
     bins * Min({p[i] : i \in Rows(p)}) < e /\ e < bins * Max({p[i] : i \in Rows(p)})}

\* The edges are the quantiles strictly inside the range of the probabilities.
LEMMA EdgesAreQuantiles ==
  ASSUME NEW p, NEW bins
  PROVE  QuantileEdges(p, bins) = Inside(p, bins)
BY DEF QuantileEdges, Inside, Quantile, Sorted, Ascending

\* Where a quantile is: between two neighbours.
IsQuantile(e, j, low, r, p, N, bins) ==
  /\ low \in 1..N /\ r \in 0..(bins - 1)
  /\ j * N = bins * (low - 1) + r
  /\ Value(p)[low] \in Int /\ Value(p)[low + 1] \in Int
  /\ e = Value(p)[low] * (bins - r) + Value(p)[low + 1] * r

\* A quantile is interpolated between two neighbours.
LEMMA QuantileFacts ==
  ASSUME NEW p \in Columns, NEW bins, bins \in Nat, NEW j \in 1..(bins - 1)
  PROVE  \E low, r : IsQuantile(Quantile(p, bins, j), j, low, r, p, Len(p) - 1, bins)
<1> DEFINE at == j * (Len(p) - 1)
           q == at \div bins
           r == at % bins
           low == q + 1
<1>1. PICK n \in Nat : /\ n >= 2 /\ Rows(p) = 1..n /\ Len(p) = n
                       /\ IsFiniteSet(Rows(p)) /\ Cardinality(Rows(p)) = n
  BY ColumnFacts
<1> DEFINE N == n - 1
<1>2. N \in Nat /\ N >= 1 /\ bins > 0 /\ j \in Nat /\ at = j * N /\ at \in Nat
  BY <1>1
<1>3. q \in Int /\ r \in 0..(bins - 1) /\ at = bins * q + r
  <2>1. /\ at \div bins \in Int /\ at % bins \in Int
        /\ 0 <= at % bins /\ at % bins < bins
        /\ at = bins * (at \div bins) + (at % bins)
    <3> HIDE DEF at
    <3>. QED  BY <1>2, DivisionFacts
  <2> HIDE DEF at
  <2>. QED  BY <2>1
<1>4. Quantile(p, bins, j)
        = p[Sorted(p)[low]] * (bins - r) + p[Sorted(p)[Min({low + 1, Len(p)})]] * r
  BY DEF Quantile
<1> HIDE DEF q, r, at
<1>5. 0 <= q /\ q < N
  <2>1. j * N <= (bins - 1) * N
    BY <1>2
  <2>2. (bins - 1) * N = bins * N - N /\ bins * N \in Int /\ bins * q \in Int
    BY <1>2, <1>3
  <2>3. bins * q < bins * N
    BY <1>2, <1>3, <2>1, <2>2
  <2>4. q >= N => bins * q >= bins * N
    BY <1>2, <1>3
  <2>5. q <= -1 => bins * q <= -bins
    BY <1>2, <1>3
  <2>. QED  BY <1>2, <1>3, <2>2, <2>3, <2>4, <2>5
<1>6. low \in 1..N /\ low \in Rows(p) /\ low + 1 \in Rows(p) /\ low - 1 = q
  BY <1>1, <1>2, <1>3, <1>5
<1>7. Min({low + 1, Len(p)}) = low + 1
  BY <1>1, <1>6, MinOfTwo
<1> HIDE DEF low
<1>8. Value(p)[low] = p[Sorted(p)[low]] /\ Value(p)[low + 1] = p[Sorted(p)[low + 1]]
  BY <1>6 DEF Value
<1>9. Value(p)[low] \in Int /\ Value(p)[low + 1] \in Int
  BY <1>6, ValueFacts
<1>10. IsQuantile(Quantile(p, bins, j), j, low, r, p, N, bins)
  BY <1>2, <1>3, <1>4, <1>6, <1>7, <1>8, <1>9 DEF IsQuantile
<1>. QED  BY <1>1, <1>10

\* A quantile is a number.
LEMMA QuantileType ==
  ASSUME NEW p \in Columns, NEW bins, bins \in Nat
  PROVE  \A j \in 1..(bins - 1) : Quantile(p, bins, j) \in Int
<1> SUFFICES ASSUME NEW j \in 1..(bins - 1) PROVE Quantile(p, bins, j) \in Int
  OBVIOUS
<1> DEFINE e == Quantile(p, bins, j)
           N == Len(p) - 1
<1>1. PICK low, r : IsQuantile(e, j, low, r, p, N, bins)
  BY QuantileFacts
<1> HIDE DEF e, N
<1>2. /\ r \in 0..(bins - 1) /\ Value(p)[low] \in Int /\ Value(p)[low + 1] \in Int
      /\ e = Value(p)[low] * (bins - r) + Value(p)[low + 1] * r
  BY <1>1 DEF IsQuantile
<1>3. Value(p)[low] * (bins - r) \in Int /\ Value(p)[low + 1] * r \in Int
  BY <1>2
<1>4. e \in Int
  BY <1>2, <1>3
<1>. QED  BY <1>4 DEF e

\* Comparisons are kept by a factor.
LEMMA Scaled ==
  ASSUME NEW c \in Nat, c > 0, NEW a \in Int, NEW b \in Int
  PROVE  /\ c * a \in Int /\ c * b \in Int
         /\ c * a = a * c
         /\ a <= b <=> c * a <= c * b
         /\ a < b <=> c * a < c * b
         /\ c * (a - b) = c * a - c * b
<1>1. c * a \in Int /\ c * b \in Int
  OBVIOUS
<1>2. a <= b => c * a <= c * b
  OBVIOUS
<1>3. a < b => c * a < c * b
  OBVIOUS
<1>4. b < a => c * b < c * a
  OBVIOUS
<1>5. b <= a => c * b <= c * a
  OBVIOUS
<1>6. c * (a - b) = c * a - c * b /\ c * a = a * c
  OBVIOUS
<1>7. (a <= b <=> c * a <= c * b) /\ (a < b <=> c * a < c * b)
  BY <1>1, <1>2, <1>3, <1>4, <1>5
<1>. QED  BY <1>1, <1>6, <1>7

\* A value between two others, a away from the first by r of bins steps.
LEMMA Interpolation ==
  ASSUME NEW a \in Int, NEW b \in Int, a < b,
         NEW bins, bins \in Nat, NEW r, r \in 0..(bins - 1)
  PROVE  LET e == a * (bins - r) + b * r
         IN  /\ e \in Int
             /\ bins * a <= e /\ e < bins * b
             /\ r = 0 <=> e = bins * a
<1> DEFINE gap == b - a
<1>1. gap \in Int /\ gap > 0 /\ r \in Int /\ bins > 0
  OBVIOUS
<1>2. a * (bins - r) = a * bins - a * r /\ gap * r = b * r - a * r
      /\ gap * bins = b * bins - a * bins
  OBVIOUS
<1>3. /\ a * bins \in Int /\ a * r \in Int /\ b * r \in Int /\ b * bins \in Int
      /\ a * bins = bins * a /\ b * bins = bins * b
  OBVIOUS
<1>4. gap * r \in Int /\ gap * bins \in Int /\ 0 <= gap * r
  BY <1>1
<1>5. r > 0 => gap * r > 0
  BY <1>1
<1>6. r = 0 => gap * r = 0
  BY <1>1
<1>7. gap * r < gap * bins
  <2>1. gap * (bins - r) > 0
    BY <1>1
  <2>2. gap * (bins - r) = gap * bins - gap * r
    BY <1>1
  <2>. QED  BY <1>4, <2>1, <2>2
<1> HIDE DEF gap
<1>. QED  BY <1>1, <1>2, <1>3, <1>4, <1>5, <1>6, <1>7

\* Without ties, which values a quantile is above.
LEMMA QuantilePlace ==
  ASSUME NEW p \in Columns, Distinct(p), NEW bins, bins \in Nat,
         NEW e, NEW j \in 1..(bins - 1), NEW low, NEW r,
         IsQuantile(e, j, low, r, p, Len(p) - 1, bins)
  PROVE  /\ e \in Int
         /\ bins * Value(p)[low] <= e /\ e < bins * Value(p)[low + 1]
         /\ r = 0 <=> e = bins * Value(p)[low]
         /\ \A k \in Rows(p) : e <= bins * Value(p)[k] <=> j * (Len(p) - 1) <= (k - 1) * bins
<1> DEFINE v == Value(p)
           N == Len(p) - 1
<1>1. PICK n \in Nat : n >= 2 /\ Rows(p) = 1..n /\ Len(p) = n
  BY ColumnFacts
<1>2. /\ low \in 1..N /\ r \in 0..(bins - 1) /\ j * N = bins * (low - 1) + r
      /\ v[low] \in Int /\ v[low + 1] \in Int
      /\ e = v[low] * (bins - r) + v[low + 1] * r
  BY DEF IsQuantile
<1>3. /\ \A k \in Rows(p) : v[k] \in Int
      /\ \A k, l \in Rows(p) : k < l => v[k] < v[l]
  BY ValueFacts
<1>4. N = n - 1 /\ N \in Nat /\ low \in Rows(p) /\ low + 1 \in Rows(p)
  BY <1>1, <1>2
<1> HIDE DEF v, N
<1>5. v[low] < v[low + 1]
  BY <1>1, <1>3, <1>4
<1>6. /\ e \in Int
      /\ bins * v[low] <= e /\ e < bins * v[low + 1]
      /\ r = 0 <=> e = bins * v[low]
  <2> DEFINE a == v[low]
             b == v[low + 1]
  <2>1. /\ a \in Int /\ b \in Int /\ a < b /\ bins \in Nat /\ r \in 0..(bins - 1)
        /\ e = a * (bins - r) + b * r
    BY <1>2, <1>5
  <2> HIDE DEF a, b
  <2>2. /\ e \in Int /\ bins * a <= e /\ e < bins * b
        /\ r = 0 <=> e = bins * a
    BY <2>1, Interpolation
  <2>. QED  BY <2>2 DEF a, b
<1>7. bins \in Nat /\ bins > 0 /\ j \in Int
  OBVIOUS
<1>8. bins * v[low] \in Int /\ bins * v[low + 1] \in Int
  BY <1>2, <1>7, Scaled
<1>9. ASSUME NEW k \in Rows(p)
      PROVE  e <= bins * v[k] <=> j * N <= (k - 1) * bins
  <2>1. k \in Int /\ low \in Int /\ v[k] \in Int
    BY <1>1, <1>2, <1>3
  <2> DEFINE x == bins * (low - 1)
             y == (k - 1) * bins
  <2>2. /\ x \in Int /\ y \in Int /\ bins * v[k] \in Int
        /\ y = bins * (k - 1)
        /\ low < k => bins * low <= y
        /\ k < low => bins * k <= x
    <3>1. bins * v[k] \in Int
      BY <1>7, <2>1, Scaled
    <3>2. low - 1 \in Int /\ k - 1 \in Int
      BY <2>1
    <3>3. /\ bins * (low - 1) \in Int /\ bins * (k - 1) \in Int
          /\ bins * (k - 1) = (k - 1) * bins
          /\ low <= k - 1 => bins * low <= bins * (k - 1)
          /\ k <= low - 1 => bins * k <= bins * (low - 1)
      BY <1>7, <2>1, <3>2, Scaled
    <3>. QED  BY <2>1, <3>1, <3>3
  <2>3. bins * low = x + bins /\ bins * k = y + bins
    BY <1>7, <2>1
  <2>4. j * N = x + r
    BY <1>2
  <2>5. low = k => x = y
    BY <2>2
  <2> HIDE DEF x, y
  <2>6. CASE low < k
    <3>1. low + 1 = k \/ v[low + 1] < v[k]
      BY <1>1, <1>3, <1>4, <2>1, <2>6
    <3>2. v[low + 1] <= v[k]
      BY <1>2, <2>1, <3>1
    <3>3. bins * v[low + 1] <= bins * v[k]
      BY <1>2, <1>7, <2>1, <3>2, Scaled
    <3>4. e <= bins * v[k]
      BY <1>6, <1>8, <2>2, <3>3
    <3>5. j * N <= y
      BY <1>2, <1>7, <2>2, <2>3, <2>4, <2>6
    <3>. QED  BY <3>4, <3>5 DEF y
  <2>7. CASE low = k
    <3>3. x \in Int /\ y = x /\ r \in Int /\ 0 <= r
      BY <1>2, <2>2, <2>5, <2>7
    <3>1. j * N <= y <=> r = 0
      BY <2>4, <3>3
    <3>2. e <= bins * v[k] <=> r = 0
      BY <1>6, <1>8, <2>7
    <3>. QED  BY <3>1, <3>2 DEF y
  <2>8. CASE k < low
    <3>1. v[k] < v[low]
      BY <1>3, <1>4, <2>8
    <3>2. bins * v[k] < bins * v[low]
      BY <1>2, <1>7, <2>1, <3>1, Scaled
    <3>3. ~ (e <= bins * v[k])
      BY <1>6, <1>8, <2>2, <3>2
    <3>4. ~ (j * N <= y)
      BY <1>2, <1>7, <2>2, <2>3, <2>4, <2>8
    <3>. QED  BY <3>3, <3>4 DEF y
  <2>. QED  BY <2>1, <2>6, <2>7, <2>8
<1>. QED  BY <1>6, <1>9 DEF v, N

\* There is at most one edge fewer than bins.
LEMMA EdgesFacts ==
  ASSUME NEW p \in Columns, NEW bins, bins \in Nat, bins > 0
  PROVE  LET edges == QuantileEdges(p, bins)
         IN  /\ IsFiniteSet(edges) /\ Cardinality(edges) <= bins - 1
             /\ edges \subseteq Int
<1> DEFINE J == 1..(bins - 1)
           f == [j \in J |-> Quantile(p, bins, j)]
           image == {f[j] : j \in J}
           edges == QuantileEdges(p, bins)
<1>1. IsFiniteSet(J) /\ Cardinality(J) = bins - 1
  <2>1. bins - 1 \in Nat
    OBVIOUS
  <2>. QED  BY <2>1, FirstPlaces
<1>2. IsFiniteSet(image) /\ Cardinality(image) <= bins - 1
  <2> HIDE DEF J, f
  <2>. QED  BY <1>1, ImageBound
<1>3. image = {Quantile(p, bins, j) : j \in J}
  OBVIOUS
<1>4. \A j \in J : Quantile(p, bins, j) \in Int
  BY QuantileType
<1>5. edges \subseteq image /\ edges \subseteq Int
  BY <1>3, <1>4, EdgesAreQuantiles DEF Inside
<1> HIDE DEF image, edges, f, J
<1>6. IsFiniteSet(edges) /\ Cardinality(edges) <= Cardinality(image)
  BY <1>2, <1>5, FS_Subset
<1>7. Cardinality(edges) \in Nat /\ Cardinality(image) \in Nat
  BY <1>2, <1>6, FS_CardinalityType
<1>8. Cardinality(edges) <= bins - 1
  BY <1>2, <1>6, <1>7
<1>. QED  BY <1>5, <1>6, <1>8 DEF edges

\* The label of a number counts the edges that it has reached, and does not fall
\* when the number rises.
LEMMA BinOfFacts ==
  ASSUME NEW edges, IsFiniteSet(edges), edges \subseteq Int
  PROVE  /\ \A x : BinOf(x, edges) \in Nat /\ BinOf(x, edges) <= Cardinality(edges)
         /\ \A x, y \in Int : x <= y => BinOf(x, edges) <= BinOf(y, edges)
<1> DEFINE below(x) == {e \in edges : e <= x}
<1>1. \A x : below(x) \subseteq edges
  OBVIOUS
<1>2. ASSUME NEW x \in Int, NEW y \in Int, x <= y PROVE below(x) \subseteq below(y)
  <2>1. \A e \in edges : e <= x => e <= y
    BY <1>2
  <2>. QED  BY <2>1
<1>3. \A x : BinOf(x, edges) = Cardinality(below(x))
  BY DEF BinOf
<1> HIDE DEF below
<1>4. \A x : /\ IsFiniteSet(below(x)) /\ Cardinality(below(x)) <= Cardinality(edges)
             /\ Cardinality(below(x)) \in Nat
  BY <1>1, FS_Subset, FS_CardinalityType
<1>5. \A x, y \in Int : x <= y => Cardinality(below(x)) <= Cardinality(below(y))
  BY <1>2, <1>4, FS_Subset
<1>. QED  BY <1>3, <1>4, <1>5

\* The labels of the rows.
Labels(p, bins) == {BinOf(bins * p[i], QuantileEdges(p, bins)) : i \in Rows(p)}
LabelOrder(p, bins) == Ordered(Labels(p, bins), LAMBDA k, l : k < l)
RowsWith(p, bins, l) == {i \in Rows(p) : BinOf(bins * p[i], QuantileEdges(p, bins)) = l}

\* The bins are the rows of the labels that occur, in the order of the labels.
LEMMA ReliabilityIs ==
  ASSUME NEW p, NEW bins
  PROVE  Reliability(p, bins)
           = [b \in 1..Cardinality(Labels(p, bins)) |->
                RowsWith(p, bins, LabelOrder(p, bins)[b])]
BY DEF Reliability, Labels, LabelOrder, RowsWith

\* A set of numbers in their order.
NumberKey(S) == [i \in S |-> i]
Counted(S) == Ordered(S, LAMBDA k, l : k < l)

\* Numbers in their own order.
LEMMA NumberOrder ==
  ASSUME NEW S, S \subseteq Int, IsFiniteSet(S)
  PROVE  IsOrdered(S, NumberKey(S), Counted(S))
<1> DEFINE order == Counted(S)
           key == NumberKey(S)
           Below(i) == {j \in S : j < i}
<1>1. order = [k \in 1..Cardinality(S) |->
                 CHOOSE i \in S : Cardinality(Below(i)) = k - 1]
  BY DEF Ordered, Counted
<1> HIDE DEF order, Below
<1>2. order = [k \in 1..Cardinality(S) |-> order[k]]
  BY <1>1
<1>3. \A k \in 1..Cardinality(S) :
        order[k] = CHOOSE i \in S : Cardinality(Below(i)) = k - 1
  BY <1>1
<1>4. \A i \in S : key[i] = i /\ key[i] \in Int
  BY DEF NumberKey
<1> HIDE DEF key
<1>5. \A i \in S : Preceding(S, key, i) = Below(i)
  <2>1. ASSUME NEW i \in S, NEW j \in S
        PROVE  key[j] < key[i] \/ (key[j] = key[i] /\ j < i) <=> j < i
    BY <1>4
  <2>. QED  BY <2>1 DEF Preceding, Below
<1>6. ASSUME NEW k \in 1..Cardinality(S),
             \E i \in S : Cardinality(Preceding(S, key, i)) = k - 1
      PROVE  order[k] \in S /\ Cardinality(Preceding(S, key, order[k])) = k - 1
  <2>1. \E i \in S : Cardinality(Below(i)) = k - 1
    BY <1>5, <1>6
  <2>2. order[k] \in S /\ Cardinality(Below(order[k])) = k - 1
    BY <1>3, <2>1
  <2>. QED  BY <1>5, <2>2
<1>7. IsOrdered(S, key, order)
  BY <1>2, <1>4, <1>6, KeyOrder
<1>. QED  BY <1>7 DEF order, key

\* At most bins labels occur, and they are numbered from the lowest.
LEMMA LabelFacts ==
  ASSUME NEW p \in Columns, NEW bins, bins \in Nat, bins > 0
  PROVE  LET L == Labels(p, bins)
             m == Cardinality(L)
             label == LabelOrder(p, bins)
         IN  /\ L \subseteq 0..(bins - 1) /\ m \in 1..bins
             /\ \A b \in 1..m : label[b] \in L
             /\ \A l \in L : \E b \in 1..m : label[b] = l
             /\ \A b, c \in 1..m : b < c => label[b] < label[c]
<1> DEFINE L == Labels(p, bins)
           m == Cardinality(L)
           label == LabelOrder(p, bins)
           edges == QuantileEdges(p, bins)
<1>1. /\ IsFiniteSet(edges) /\ Cardinality(edges) <= bins - 1 /\ edges \subseteq Int
      /\ Cardinality(edges) \in Nat
  BY EdgesFacts, FS_CardinalityType
<1>2. \A x : BinOf(x, edges) \in 0..(bins - 1)
  <2> HIDE DEF edges
  <2>1. \A x : BinOf(x, edges) \in Nat /\ BinOf(x, edges) <= Cardinality(edges)
    BY <1>1, BinOfFacts
  <2>. QED  BY <1>1, <2>1
<1>3. L \subseteq 0..(bins - 1)
  BY <1>2 DEF Labels
<1>4. L # {}
  <2>1. 1 \in Rows(p)
    BY ColumnFacts
  <2>. QED  BY <2>1 DEF Labels
<1> HIDE DEF L, edges
<1>5. IsFiniteSet(0..(bins - 1)) /\ Cardinality(0..(bins - 1)) = bins
  <2>1. 0 \in Int /\ bins - 1 \in Int
    OBVIOUS
  <2>2. IsFiniteSet(0..(bins - 1))
        /\ Cardinality(0..(bins - 1)) = IF 0 > bins - 1 THEN 0 ELSE bins - 1 - 0 + 1
    BY <2>1, FS_Interval
  <2>. QED  BY <2>2
<1>6. IsFiniteSet(L) /\ m <= bins
  BY <1>3, <1>5, FS_Subset
<1>7. m \in Nat /\ m # 0
  BY <1>4, <1>6, FS_CardinalityType, FS_EmptySet
<1>8. L \subseteq Int
  BY <1>3
<1>9. IsOrdered(L, NumberKey(L), label)
  <2>1. label = Counted(L)
    BY DEF LabelOrder, Counted, L
  <2>. QED  BY <1>6, <1>8, <2>1, NumberOrder
<1> HIDE DEF label, m
<1>10. /\ \A b \in 1..m : label[b] \in L
       /\ \A l \in L : \E b \in 1..m : label[b] = l
       /\ \A b, c \in 1..m : b < c =>
            \/ NumberKey(L)[label[b]] < NumberKey(L)[label[c]]
            \/ label[b] < label[c]
  BY <1>9 DEF IsOrdered, m
<1>11. \A l \in L : NumberKey(L)[l] = l
  BY DEF NumberKey
<1>12. \A b, c \in 1..m : b < c => label[b] < label[c]
  BY <1>10, <1>11
<1>. QED  BY <1>3, <1>6, <1>7, <1>10, <1>12 DEF L, m, label

-----------------------------------------------------------------------------
(***************************************************************************)
(* ScoreTables: the bins are of neighbours, and without ties of one size, or*)
(* one more: the ranks of a label are those from one multiple of the number*)
(* of rows to the next.                                                    *)
(***************************************************************************)

\* What BinsAreEquallyFilled says of the bins, but for their sizes.
LEMMA BinsFacts ==
  ASSUME NEW p \in Columns, NEW bins, bins \in Nat, bins > 0
  PROVE  LET result == Reliability(p, bins)
         IN  /\ Len(result) \in 1..bins
             /\ DOMAIN result = 1..Cardinality(Labels(p, bins))
             /\ Partitions(result, p)
             /\ \A b \in DOMAIN result :
                  \E l \in 0..(bins - 1) : result[b] = RowsWith(p, bins, l)
             /\ \A b, c \in DOMAIN result : b < c =>
                  \A i \in result[b], j \in result[c] : p[i] < p[j]
<1> DEFINE L == Labels(p, bins)
           m == Cardinality(L)
           label == LabelOrder(p, bins)
           edges == QuantileEdges(p, bins)
           table == Reliability(p, bins)
           of(i) == BinOf(bins * p[i], edges)
<1>1. table = [b \in 1..m |-> RowsWith(p, bins, label[b])]
  BY ReliabilityIs
<1>2. /\ L \subseteq 0..(bins - 1) /\ m \in 1..bins
      /\ \A b \in 1..m : label[b] \in L
      /\ \A l \in L : \E b \in 1..m : label[b] = l
      /\ \A b, c \in 1..m : b < c => label[b] < label[c]
  BY LabelFacts
<1>3. \A i : i \in Rows(p) => of(i) \in L
  BY DEF Labels
<1>4. \A l \in L : \E i \in Rows(p) : of(i) = l
  BY DEF Labels
<1>5. \A l, i : i \in RowsWith(p, bins, l) <=> i \in Rows(p) /\ of(i) = l
  BY DEF RowsWith
<1>6. IsFiniteSet(edges) /\ edges \subseteq Int
  BY EdgesFacts
<1>7. \A i \in Rows(p) : p[i] \in Int
  BY ColumnFacts
<1>8. ASSUME NEW i \in Rows(p), NEW j \in Rows(p), of(i) < of(j) PROVE p[i] < p[j]
  <2> SUFFICES ASSUME p[j] <= p[i] PROVE FALSE
    BY <1>7
  <2>1. bins * p[j] <= bins * p[i] /\ bins * p[j] \in Int /\ bins * p[i] \in Int
    BY <1>7, Scaled
  <2> HIDE DEF edges
  <2>2. BinOf(bins * p[j], edges) <= BinOf(bins * p[i], edges)
    BY <1>6, <2>1, BinOfFacts
  <2>3. of(i) \in Int /\ of(j) \in Int
    <3>1. \A x : BinOf(x, edges) \in Nat
      BY <1>6, BinOfFacts
    <3>. QED  BY <3>1
  <2>. QED  BY <1>8, <2>2, <2>3
<1> HIDE DEF L, label, table, of, m
<1>9. DOMAIN table = 1..m /\ m \in Nat /\ Len(table) = m
  BY <1>1, <1>2
<1>10. \A b \in 1..m : \A i : i \in table[b] <=> i \in Rows(p) /\ of(i) = label[b]
  BY <1>1, <1>5
<1>11. Partitions(table, p)
  <2>1. \A b \in DOMAIN table : table[b] # {}
    BY <1>2, <1>4, <1>9, <1>10
  <2>2. UNION {table[b] : b \in DOMAIN table} = Rows(p)
    <3>1. \A b \in DOMAIN table : table[b] \subseteq Rows(p)
      BY <1>9, <1>10
    <3>2. \A i \in Rows(p) : \E b \in DOMAIN table : i \in table[b]
      BY <1>2, <1>3, <1>9, <1>10
    <3>. QED  BY <3>1, <3>2
  <2>3. ASSUME NEW b \in DOMAIN table, NEW c \in DOMAIN table, b # c
        PROVE  table[b] \cap table[c] = {}
    <3>1. b \in 1..m /\ c \in 1..m /\ (b < c \/ c < b)
      BY <1>9, <2>3
    <3>2. label[b] \in Int /\ label[c] \in Int
      <4>1. label[b] \in 0..(bins - 1) /\ label[c] \in 0..(bins - 1)
        BY <1>2, <3>1
      <4>. QED  BY <4>1
    <3>3. label[b] # label[c]
      BY <1>2, <3>1, <3>2
    <3>. QED  BY <1>10, <3>1, <3>3
  <2>. QED  BY <2>1, <2>2, <2>3 DEF Partitions
<1>12. ASSUME NEW b \in DOMAIN table
       PROVE  \E l \in 0..(bins - 1) : table[b] = RowsWith(p, bins, l)
  <2>1. b \in 1..m /\ label[b] \in 0..(bins - 1)
    BY <1>2, <1>9
  <2>. QED  BY <1>1, <2>1
<1>13. ASSUME NEW b \in DOMAIN table, NEW c \in DOMAIN table, b < c,
              NEW i \in table[b], NEW j \in table[c]
       PROVE  p[i] < p[j]
  <2>1. b \in 1..m /\ c \in 1..m
    BY <1>9
  <2>2. /\ i \in Rows(p) /\ j \in Rows(p) /\ of(i) = label[b] /\ of(j) = label[c]
        /\ label[b] < label[c]
    BY <1>2, <1>10, <1>13, <2>1
  <2>. QED  BY <1>8, <2>2
<1>14. Len(table) \in 1..bins
  BY <1>2, <1>9
<1>. QED  BY <1>9, <1>11, <1>12, <1>13, <1>14 DEF table, m, L

\* Two quantiles of a column without ties.
LEMMA QuantilesRise ==
  ASSUME NEW p \in Columns, Distinct(p), NEW bins, bins \in Nat,
         NEW i, i \in 1..(bins - 1), NEW j, j \in 1..(bins - 1), i < j
  PROVE  Quantile(p, bins, i) < Quantile(p, bins, j)
<1> DEFINE v == Value(p)
           N == Len(p) - 1
           d == Quantile(p, bins, i)
           e == Quantile(p, bins, j)
<1>1. PICK n \in Nat : n >= 2 /\ Rows(p) = 1..n /\ Len(p) = n
  BY ColumnFacts
<1>2. N = n - 1 /\ N \in Nat /\ N > 0 /\ bins > 0 /\ i \in Nat /\ j \in Nat
  BY <1>1
<1>3. PICK low, r : IsQuantile(d, i, low, r, p, N, bins)
  BY QuantileFacts
<1>4. PICK upp, t : IsQuantile(e, j, upp, t, p, N, bins)
  BY QuantileFacts
<1>5. /\ d \in Int /\ d < bins * v[low + 1]
      /\ e \in Int /\ bins * v[upp] <= e
  BY <1>3, <1>4, QuantilePlace
<1> HIDE DEF d, e, N
<1>6. /\ low \in 1..N /\ r \in 0..(bins - 1) /\ i * N = bins * (low - 1) + r
      /\ v[low] \in Int /\ v[low + 1] \in Int
      /\ d = v[low] * (bins - r) + v[low + 1] * r
  BY <1>3 DEF IsQuantile
<1>7. /\ upp \in 1..N /\ t \in 0..(bins - 1) /\ j * N = bins * (upp - 1) + t
      /\ v[upp] \in Int /\ v[upp + 1] \in Int
      /\ e = v[upp] * (bins - t) + v[upp + 1] * t
  BY <1>4 DEF IsQuantile
<1> HIDE DEF v
<1>8. i * N < j * N /\ i * N \in Int /\ j * N \in Int
  <2>1. (j - i) * N > 0
    BY <1>2
  <2>2. (j - i) * N = j * N - i * N /\ i * N \in Int /\ j * N \in Int
    BY <1>2
  <2>. QED  BY <2>1, <2>2
<1>9. low <= upp
  <2> DEFINE a == low - 1
             b == upp - 1
  <2>1. a \in Int /\ b \in Int /\ bins * a \in Int /\ bins * b \in Int
    BY <1>2, <1>6, <1>7
  <2>2. b + 1 <= a => bins * b + bins <= bins * a
    <3>1. b + 1 <= a => bins * (b + 1) <= bins * a
      BY <1>2, <2>1
    <3>2. bins * (b + 1) = bins * b + bins
      BY <1>2, <2>1
    <3>. QED  BY <3>1, <3>2
  <2>3. i * N = bins * a + r /\ j * N = bins * b + t
    BY <1>6, <1>7
  <2>4. ~ (b + 1 <= a)
    <3> HIDE DEF a, b
    <3>. QED  BY <1>2, <1>6, <1>7, <1>8, <2>1, <2>2, <2>3
  <2>. QED  BY <1>2, <1>6, <1>7, <2>4
<1>10. CASE low < upp
  <2>1. low + 1 \in Rows(p) /\ upp \in Rows(p) /\ low + 1 <= upp
    BY <1>1, <1>2, <1>6, <1>7, <1>10
  <2>2. v[low + 1] <= v[upp]
    BY <2>1, ValueFacts DEF v
  <2>3. /\ bins * v[low + 1] <= bins * v[upp]
        /\ bins * v[low + 1] \in Int /\ bins * v[upp] \in Int
    BY <1>2, <1>6, <1>7, <2>2, Scaled
  <2>. QED  BY <1>5, <2>3 DEF d, e
<1>11. CASE low = upp
  <2> DEFINE a == v[low]
             b == v[low + 1]
  <2>1. a < b
    <3>1. low \in Rows(p) /\ low + 1 \in Rows(p) /\ low < low + 1
      BY <1>1, <1>2, <1>6
    <3>. QED  BY <3>1, ValueFacts DEF v
  <2>2. r < t
    <3>1. bins * (low - 1) \in Int
      BY <1>2, <1>6
    <3>. QED  BY <1>2, <1>6, <1>7, <1>8, <1>11, <3>1
  <2>3. d = a * (bins - r) + b * r /\ e = a * (bins - t) + b * t
    BY <1>6, <1>7, <1>11
  <2>4. a \in Int /\ b \in Int /\ r \in Int /\ t \in Int
    BY <1>6, <1>7
  <2> HIDE DEF a, b
  <2>5. d < e
    <3>1. (b - a) * (t - r) > 0
      BY <2>1, <2>2, <2>4
    <3>2. (b - a) * (t - r) = b * t - b * r - a * t + a * r
      BY <2>4
    <3>3. a * (bins - r) = a * bins - a * r /\ a * (bins - t) = a * bins - a * t
      BY <1>2, <2>4
    <3>4. /\ a * bins \in Int /\ a * r \in Int /\ a * t \in Int
          /\ b * r \in Int /\ b * t \in Int
      BY <1>2, <2>4
    <3>. QED  BY <2>3, <3>1, <3>2, <3>3, <3>4
  <2>. QED  BY <2>5 DEF d, e
<1>. QED  BY <1>2, <1>6, <1>7, <1>9, <1>10, <1>11

\* The quantiles up to a rank.
UpTo(p, bins, k) == {j \in 1..(bins - 1) : j * (Len(p) - 1) <= (k - 1) * bins}

\* Without ties every quantile is an edge.
LEMMA DistinctEdges ==
  ASSUME NEW p \in Columns, Distinct(p), NEW bins, bins \in Nat, bins > 0
  PROVE  QuantileEdges(p, bins) = {Quantile(p, bins, j) : j \in 1..(bins - 1)}
<1> DEFINE v == Value(p)
           range == {p[i] : i \in Rows(p)}
<1>1. PICK n \in Nat : /\ n >= 2 /\ Rows(p) = 1..n /\ Len(p) = n
                       /\ \A i \in Rows(p) : p[i] \in Int /\ 0 <= p[i] /\ p[i] <= TopP
  BY ColumnFacts
<1>2. /\ \A k \in Rows(p) : Sorted(p)[k] \in Rows(p) /\ v[k] \in Int
      /\ \A k, l \in Rows(p) : k <= l => v[k] <= v[l]
  BY ValueFacts
<1>3. \A k \in Rows(p) : v[k] \in range
  BY <1>2 DEF Value
<1>4. range \subseteq Nat /\ range # {}
  BY <1>1
<1> HIDE DEF range, v
<1>5. \A k \in Rows(p) : Min(range) <= v[k] /\ Min(range) \in Int
  <2>1. Min(range) \in range /\ \A x \in range : Min(range) <= x
    BY <1>4, MinNat
  <2>2. \A m : m \in range => m \in Int
    BY <1>4
  <2>3. Min(range) \in Int
    BY <2>1, <2>2
  <2>. QED  BY <1>3, <2>1, <2>3
<1>6. \A k \in Rows(p) : v[k] <= Max(range) /\ Max(range) \in Int
  <2>1. TopP \in Int /\ \A x \in range : x \in Int /\ x <= TopP
    BY <1>1, TopPAssumption DEF range
  <2>2. Max(range) \in range /\ \A x \in range : Max(range) >= x
    BY <1>4, <2>1, MaxInt
  <2>. QED  BY <1>2, <1>3, <2>1, <2>2
<1>7. ASSUME NEW j \in 1..(bins - 1)
      PROVE  /\ bins * Min(range) < Quantile(p, bins, j)
             /\ Quantile(p, bins, j) < bins * Max(range)
  <2> DEFINE e == Quantile(p, bins, j)
             N == Len(p) - 1
  <2>1. PICK low, r : IsQuantile(e, j, low, r, p, N, bins)
    BY QuantileFacts
  <2>2. /\ e \in Int /\ e < bins * v[low + 1]
        /\ \A k \in Rows(p) : e <= bins * v[k] <=> j * N <= (k - 1) * bins
    BY <2>1, QuantilePlace DEF v
  <2>3. low + 1 \in Rows(p)
    BY <1>1, <2>1 DEF IsQuantile
  <2>4. 1 \in Rows(p)
    BY <1>1
  <2>5. ~ (e <= bins * v[1])
    <3>1. j * N > 0
      BY <1>1
    <3>2. (1 - 1) * bins = 0
      OBVIOUS
    <3>. QED  BY <2>2, <2>4, <3>1, <3>2
  <2> HIDE DEF e, N
  <2>6. bins * Min(range) <= bins * v[1] /\ bins * Min(range) \in Int /\ bins * v[1] \in Int
    BY <1>2, <1>5, <2>4, Scaled
  <2>7. /\ bins * v[low + 1] <= bins * Max(range)
        /\ bins * v[low + 1] \in Int /\ bins * Max(range) \in Int
    BY <1>2, <1>6, <2>3, Scaled
  <2>8. bins * Min(range) < e /\ e < bins * Max(range)
    BY <2>2, <2>5, <2>6, <2>7
  <2>. QED  BY <2>8 DEF e
<1>8. Inside(p, bins) = {e \in {Quantile(p, bins, j) : j \in 1..(bins - 1)} :
                           bins * Min(range) < e /\ e < bins * Max(range)}
  BY DEF Inside, range
<1>9. Inside(p, bins) = {Quantile(p, bins, j) : j \in 1..(bins - 1)}
  BY <1>7, <1>8
<1>. QED  BY <1>9, EdgesAreQuantiles

\* Without ties the label of a rank counts the quantiles up to it.
LEMMA DistinctLabel ==
  ASSUME NEW p \in Columns, Distinct(p), NEW bins, bins \in Nat, bins > 0,
         NEW k, k \in Rows(p)
  PROVE  BinOf(bins * Value(p)[k], QuantileEdges(p, bins)) = Cardinality(UpTo(p, bins, k))
<1> DEFINE J == UpTo(p, bins, k)
           f == [j \in 1..(bins - 1) |-> Quantile(p, bins, j)]
           x == bins * Value(p)[k]
           image == {f[j] : j \in J}
<1>1. J \subseteq 1..(bins - 1)
  BY DEF UpTo
<1>2. IsFiniteSet(J)
  <2>1. bins - 1 \in Nat
    OBVIOUS
  <2>2. IsFiniteSet(1..(bins - 1))
    BY <2>1, FirstPlaces
  <2>. QED  BY <1>1, <2>2, FS_Subset
<1>3. \A i, j \in 1..(bins - 1) : Quantile(p, bins, i) = Quantile(p, bins, j) => i = j
  <2> SUFFICES ASSUME NEW i \in 1..(bins - 1), NEW j \in 1..(bins - 1), i # j
               PROVE  Quantile(p, bins, i) # Quantile(p, bins, j)
    OBVIOUS
  <2>1. Quantile(p, bins, i) \in Int /\ Quantile(p, bins, j) \in Int
    BY QuantileType
  <2>2. i < j \/ j < i
    OBVIOUS
  <2>3. i < j => Quantile(p, bins, i) < Quantile(p, bins, j)
    BY QuantilesRise
  <2>4. j < i => Quantile(p, bins, j) < Quantile(p, bins, i)
    BY QuantilesRise
  <2>. QED  BY <2>1, <2>2, <2>3, <2>4
<1>4. \A j \in 1..(bins - 1) : Quantile(p, bins, j) <= x <=> j \in J
  <2> SUFFICES ASSUME NEW j \in 1..(bins - 1) PROVE Quantile(p, bins, j) <= x <=> j \in J
    OBVIOUS
  <2> DEFINE e == Quantile(p, bins, j)
             N == Len(p) - 1
  <2>1. PICK low, r : IsQuantile(e, j, low, r, p, N, bins)
    BY QuantileFacts
  <2>2. e <= x <=> j * N <= (k - 1) * bins
    BY <2>1, QuantilePlace
  <2>. QED  BY <2>2 DEF UpTo
<1>5. \A j \in 1..(bins - 1) : f[j] = Quantile(p, bins, j)
  OBVIOUS
<1>6. QuantileEdges(p, bins) = {f[j] : j \in 1..(bins - 1)}
  BY DistinctEdges
<1> HIDE DEF J, f, x
<1>7. {e \in QuantileEdges(p, bins) : e <= x} = image
  BY <1>1, <1>4, <1>5, <1>6
<1>8. Cardinality(image) = Cardinality(J)
  <2>1. \A i, j \in J : f[i] = f[j] => i = j
    BY <1>1, <1>3, <1>5
  <2>. QED  BY <1>2, <2>1, ImageFacts
<1>. QED  BY <1>7, <1>8 DEF BinOf, J, x

\* The label l of the rows from one rank to another.
Covers(l, k, N, bins) ==
  /\ l * N <= (k - 1) * bins
  /\ l = bins - 1 \/ (k - 1) * bins < (l + 1) * N

\* A rank that is covered by l has the label l.
LEMMA CoveredLabel ==
  ASSUME NEW p \in Columns, NEW bins, bins \in Nat, bins > 0,
         NEW k, k \in Rows(p), NEW l, l \in 0..(bins - 1), Covers(l, k, Len(p) - 1, bins)
  PROVE  Cardinality(UpTo(p, bins, k)) = l
<1> DEFINE N == Len(p) - 1
           a == (k - 1) * bins
<1>1. N \in Nat /\ N > 0 /\ k \in Nat /\ l \in Nat /\ a \in Int
  BY ColumnFacts
<1>2. /\ l * N <= a
      /\ l = bins - 1 \/ a < (l + 1) * N
  BY DEF Covers
<1>3. UpTo(p, bins, k) = {j \in 1..(bins - 1) : j * N <= a}
  BY DEF UpTo
<1> HIDE DEF a, N
<1>4. \A j \in 1..(bins - 1) : j * N <= a <=> j <= l
  <2> SUFFICES ASSUME NEW j \in 1..(bins - 1) PROVE j * N <= a <=> j <= l
    OBVIOUS
  <2>1. j * N \in Int /\ l * N \in Int /\ (l + 1) * N \in Int
    BY <1>1
  <2>2. j <= l => j * N <= l * N
    BY <1>1
  <2>3. l + 1 <= j => (l + 1) * N <= j * N
    BY <1>1
  <2>. QED  BY <1>1, <1>2, <2>1, <2>2, <2>3
<1>5. \A j \in 1..l : j \in 1..(bins - 1) /\ j <= l
  BY <1>1
<1>6. \A j \in 1..(bins - 1) : j <= l => j \in 1..l
  BY <1>1
<1>7. UpTo(p, bins, k) = 1..l
  BY <1>3, <1>4, <1>5, <1>6
<1>. QED  BY <1>1, <1>7, FirstPlaces

\* Every rank is covered.
LEMMA CoverExists ==
  ASSUME NEW N, N \in Nat, NEW k, k \in Nat, k > 0, NEW bins, bins \in Nat, bins > 0
  PROVE  \E l \in 0..(bins - 1) : Covers(l, k, N, bins)
<1> DEFINE a == (k - 1) * bins
           H == {h \in 1..bins : h = bins \/ a < h * N}
<1>1. a \in Int /\ 0 <= a
  OBVIOUS
<1>2. PICK h \in H : \A g \in H : h <= g
  <2>1. H \subseteq Nat /\ bins \in H
    OBVIOUS
  <2> HIDE DEF H
  <2>. QED  BY <2>1, LeastNat
<1>3. h \in 1..bins /\ (h = bins \/ a < h * N) /\ h - 1 \in 0..(bins - 1)
  OBVIOUS
<1> DEFINE l == h - 1
<1>4. l * N <= a
  <2>1. CASE l = 0
    BY <1>1, <2>1
  <2>2. CASE l > 0
    <3>1. l \in 1..bins /\ l \notin H
      BY <1>2, <1>3, <2>2
    <3>2. ~ (a < l * N)
      BY <3>1
    <3>3. l * N \in Int
      BY <1>3
    <3> HIDE DEF l
    <3>. QED  BY <1>1, <3>2, <3>3
  <2>. QED  BY <1>3, <2>1, <2>2
<1>5. l + 1 = h /\ l \in 0..(bins - 1)
  BY <1>3
<1> HIDE DEF l
<1>6. Covers(l, k, N, bins)
  BY <1>3, <1>4, <1>5 DEF Covers
<1>. QED  BY <1>5, <1>6

\* The ranks of a label are as many as the others', or one more.
LEMMA PlacesFacts ==
  ASSUME NEW N, N \in Nat, N > 0, NEW bins, bins \in Nat, bins > 0,
         NEW l, l \in 0..(bins - 1)
  PROVE  LET places == {k \in 1..(N + 1) : Covers(l, k, N, bins)}
         IN  /\ IsFiniteSet(places)
             /\ Cardinality(places) \in {N \div bins, N \div bins + 1}
<1> DEFINE places == {k \in 1..(N + 1) : Covers(l, k, N, bins)}
           a == Up(l, N, bins)
           b == IF l = bins - 1 THEN N + 1 ELSE Up(l + 1, N, bins)
           q == N \div bins
<1>1. l \in Nat /\ l + 1 \in Nat /\ q \in Int
  BY DivisionFacts
<1>2. a \in Int /\ \A m \in Int : l * N <= m * bins <=> a <= m
  BY <1>1, UpFacts
<1>3. l # bins - 1 => /\ b \in Int
                      /\ \A m \in Int : (l + 1) * N <= m * bins <=> b <= m
  <2> DEFINE h == l + 1
  <2>1. h \in Nat
    BY <1>1
  <2> HIDE DEF h
  <2>2. Up(h, N, bins) \in Int
        /\ \A m \in Int : h * N <= m * bins <=> Up(h, N, bins) <= m
    BY <2>1, UpFacts
  <2>. QED  BY <2>2 DEF h
<1>4. b \in Int
  BY <1>3
<1>5. 0 <= a
  <2>1. l * N >= 0 /\ (-1) * bins < 0 /\ -1 \in Int
    BY <1>1
  <2>2. ~ (a <= -1)
    BY <1>1, <1>2, <2>1
  <2>. QED  BY <1>2, <2>2
<1>6. b <= N + 1
  <2>1. CASE l = bins - 1
    BY <2>1
  <2>2. CASE l # bins - 1
    <3>1. (l + 1) * N <= bins * N
      BY <1>1, <2>2
    <3>2. (l + 1) * N <= N * bins
      BY <3>1
    <3>3. b <= N
      BY <1>3, <2>2, <3>2
    <3>. QED  BY <1>3, <2>2, <3>3
  <2>. QED  BY <2>1, <2>2
<1>7. b - a \in {q, q + 1}
  <2>1. CASE l = bins - 1
    <3>1. N + 1 - Up(bins - 1, N, bins) = q + 1
      BY LastStep
    <3>2. a = Up(bins - 1, N, bins) /\ b = N + 1
      BY <2>1
    <3> HIDE DEF a, b
    <3>3. b - a = q + 1
      BY <1>1, <1>2, <3>1, <3>2
    <3>. QED  BY <3>3
  <2>2. CASE l # bins - 1
    <3>1. Up(l + 1, N, bins) - Up(l, N, bins) \in {q, q + 1}
      BY <1>1, StepFacts
    <3>. QED  BY <2>2, <3>1
  <2>. QED  BY <2>1, <2>2
<1>8. q >= 0
  <2> DEFINE s == N % bins
  <2>1. q \in Int /\ s \in Int /\ s < bins /\ N = bins * q + s
    BY DivisionFacts
  <2>2. q <= -1 => bins * q <= -bins
    BY <2>1
  <2>3. bins * q \in Int
    BY <2>1
  <2> HIDE DEF q, s
  <2>. QED  BY <2>1, <2>2, <2>3
<1>9. ASSUME NEW k \in 1..(N + 1)
      PROVE  Covers(l, k, N, bins) <=> a <= k - 1 /\ k - 1 < b
  <2>1. k - 1 \in Int /\ (k - 1) * bins \in Int /\ (l + 1) * N \in Int
    BY <1>1
  <2>2. l * N <= (k - 1) * bins <=> a <= k - 1
    BY <1>2, <2>1
  <2>3. CASE l = bins - 1
    <3>1. k - 1 < b
      BY <2>3
    <3>. QED  BY <2>2, <2>3, <3>1 DEF Covers
  <2>4. CASE l # bins - 1
    <3>1. (l + 1) * N <= (k - 1) * bins <=> b <= k - 1
      BY <1>3, <2>1, <2>4
    <3>2. (k - 1) * bins < (l + 1) * N <=> k - 1 < b
      BY <1>4, <2>1, <3>1
    <3>. QED  BY <2>2, <2>4, <3>2 DEF Covers
  <2>. QED  BY <2>3, <2>4
<1> HIDE DEF a, b, q
<1>10. places = (a + 1)..b
  <2>1. \A k \in (a + 1)..b : k \in 1..(N + 1) /\ a <= k - 1 /\ k - 1 < b
    BY <1>2, <1>4, <1>5, <1>6
  <2>2. \A k \in 1..(N + 1) : a <= k - 1 /\ k - 1 < b => k \in (a + 1)..b
    BY <1>2, <1>4
  <2>. QED  BY <1>9, <2>1, <2>2
<1>11. IsFiniteSet((a + 1)..b) /\ Cardinality((a + 1)..b) = b - a
  <2>1. a + 1 \in Int
    BY <1>2
  <2>2. IsFiniteSet((a + 1)..b)
        /\ Cardinality((a + 1)..b) = IF a + 1 > b THEN 0 ELSE b - (a + 1) + 1
    BY <1>4, <2>1, FS_Interval
  <2>. QED  BY <1>1, <1>2, <1>4, <1>7, <1>8, <2>2
<1> HIDE DEF places
<1>12. IsFiniteSet(places) /\ Cardinality(places) \in {q, q + 1}
  BY <1>7, <1>10, <1>11
<1>. QED  BY <1>12 DEF places, q

\* Without ties a bin has as many rows as its label has ranks.
LEMMA BinSizes ==
  ASSUME NEW p \in Columns, Distinct(p), NEW bins, bins \in Nat, bins > 0,
         NEW l, l \in 0..(bins - 1)
  PROVE  LET q == (Len(p) - 1) \div bins
         IN  q \in Int /\ Cardinality(RowsWith(p, bins, l)) \in {q, q + 1}
<1> DEFINE N == Len(p) - 1
           q == N \div bins
           edges == QuantileEdges(p, bins)
           o == Sorted(p)
           places == {k \in 1..(N + 1) : Covers(l, k, N, bins)}
           image == {o[k] : k \in places}
<1>1. PICK n \in Nat : /\ n >= 2 /\ Rows(p) = 1..n /\ Len(p) = n
                       /\ IsFiniteSet(Rows(p)) /\ Cardinality(Rows(p)) = n
  BY ColumnFacts
<1>2. N \in Nat /\ N > 0 /\ N + 1 = n /\ q \in Int
  BY <1>1, DivisionFacts
<1>3. IsFiniteSet(places) /\ Cardinality(places) \in {q, q + 1}
  <2> HIDE DEF N
  <2>. QED  BY <1>2, PlacesFacts
<1>4. /\ \A k \in Rows(p) : o[k] \in Rows(p)
      /\ \A i \in Rows(p) : \E k \in Rows(p) : o[k] = i
      /\ \A j, k \in Rows(p) : o[j] = o[k] => j = k
  <2>1. IsOrdered(Rows(p), p, o)
    BY ValueFacts
  <2> HIDE DEF o
  <2>. QED  BY <1>1, <2>1 DEF IsOrdered
<1>5. ASSUME NEW k \in Rows(p)
      PROVE  BinOf(bins * p[o[k]], edges) = l <=> Covers(l, k, N, bins)
  <2>1. p[o[k]] = Value(p)[k]
    BY DEF Value
  <2>2. BinOf(bins * p[o[k]], edges) = Cardinality(UpTo(p, bins, k))
    BY <2>1, DistinctLabel
  <2>3. Covers(l, k, N, bins) => Cardinality(UpTo(p, bins, k)) = l
    BY CoveredLabel
  <2>4. PICK h \in 0..(bins - 1) : Covers(h, k, N, bins)
    <3>1. k \in Nat /\ k > 0
      BY <1>1
    <3> HIDE DEF N
    <3>. QED  BY <1>2, <3>1, CoverExists
  <2>5. Cardinality(UpTo(p, bins, k)) = h
    BY <2>4, CoveredLabel
  <2>. QED  BY <2>2, <2>3, <2>4, <2>5
<1>6. places \subseteq Rows(p) /\ \A k \in Rows(p) : k \in places <=> Covers(l, k, N, bins)
  BY <1>1, <1>2
<1>7. \A i : i \in RowsWith(p, bins, l) <=> i \in Rows(p) /\ BinOf(bins * p[i], edges) = l
  BY DEF RowsWith
<1> HIDE DEF places, o, edges, N, q
<1>8. RowsWith(p, bins, l) = image
  <2>1. ASSUME NEW i \in RowsWith(p, bins, l) PROVE i \in image
    <3>1. PICK k \in Rows(p) : o[k] = i
      BY <1>4, <1>7
    <3>2. k \in places
      BY <1>5, <1>6, <1>7, <3>1
    <3>. QED  BY <3>1, <3>2
  <2>2. ASSUME NEW k \in places PROVE o[k] \in RowsWith(p, bins, l)
    BY <1>4, <1>5, <1>6, <1>7
  <2>. QED  BY <2>1, <2>2
<1>9. Cardinality(image) = Cardinality(places)
  <2>1. \A j, k \in places : o[j] = o[k] => j = k
    BY <1>4, <1>6
  <2>. QED  BY <1>3, <2>1, ImageFacts
<1>. QED  BY <1>2, <1>3, <1>8, <1>9 DEF q, N

\* What BinsAreEquallyFilled says of the bins.
LEMMA ReliabilityFacts ==
  ASSUME NEW p \in Columns, NEW bins, bins \in Nat, bins > 0
  PROVE  LET table == Reliability(p, bins)
         IN  /\ Len(table) \in 1..bins
             /\ Partitions(table, p)
             /\ \A b, c \in DOMAIN table :
                  /\ Distinct(p) => Cardinality(table[b]) - Cardinality(table[c]) \in -1..1
                  /\ b < c => \A i \in table[b], j \in table[c] : p[i] < p[j]
<1> DEFINE table == Reliability(p, bins)
<1>1. /\ Len(table) \in 1..bins
      /\ Partitions(table, p)
      /\ \A b \in DOMAIN table : \E l \in 0..(bins - 1) : table[b] = RowsWith(p, bins, l)
      /\ \A b, c \in DOMAIN table : b < c => \A i \in table[b], j \in table[c] : p[i] < p[j]
  BY BinsFacts
<1> HIDE DEF table
<1>2. ASSUME Distinct(p), NEW b \in DOMAIN table, NEW c \in DOMAIN table
      PROVE  Cardinality(table[b]) - Cardinality(table[c]) \in -1..1
  <2> DEFINE q == (Len(p) - 1) \div bins
  <2>1. PICK k \in 0..(bins - 1) : table[b] = RowsWith(p, bins, k)
    BY <1>1
  <2>2. PICK l \in 0..(bins - 1) : table[c] = RowsWith(p, bins, l)
    BY <1>1
  <2>3. q \in Int /\ Cardinality(table[b]) \in {q, q + 1}
    BY <1>2, <2>1, BinSizes
  <2>4. Cardinality(table[c]) \in {q, q + 1}
    BY <1>2, <2>2, BinSizes
  <2> HIDE DEF q
  <2>. QED  BY <2>3, <2>4
<1>. QED  BY <1>1, <1>2 DEF table

-----------------------------------------------------------------------------
(***************************************************************************)
(* ScoreTables: the theorems.                                              *)
(***************************************************************************)

\* A task of ScoreTables, unanswered or answered by what the code makes of it.
ScoreTablesInv ==
  /\ \/ /\ task.kind = "scores"
        /\ task.p \in Columns /\ task.groups \in 1..MaxGroups
     \/ /\ task.kind = "reliability"
        /\ task.p \in Columns /\ task.bins \in 1..MaxBins
  /\ answer # Pending =>
       /\ task.kind = "scores" /\ ~ RankValidated(task.p) => answer = Refused
       /\ task.kind = "scores" /\ RankValidated(task.p) =>
            /\ answer.deciles = ScoreDeciles(task.p, task.groups)
            /\ answer.ranking = RankingTable(task.p, task.groups)
            /\ answer.baseline = BuildBaseline(ScoreDeciles(task.p, task.groups), task.groups)
       /\ task.kind = "reliability" => answer.bins = Reliability(task.p, task.bins)

\* An answer of ScoreTables is what the code makes of its task, which stays one
\* of the inputs (score_deciles, ranking_tables, build_baseline, reliability).
THEOREM ScoreTablesInvariant == ScoreTablesSpec => []ScoreTablesInv
<1>1. ScoreTablesInit => ScoreTablesInv
  BY DEF ScoreTablesInit, ScoreTablesInv
<1>2. ScoreTablesInv /\ [ScoreTablesNext]_vars => ScoreTablesInv'
  <2> SUFFICES ASSUME ScoreTablesInv, [ScoreTablesNext]_vars PROVE ScoreTablesInv'
    OBVIOUS
  <2>1. CASE RankScores
    BY <2>1 DEF ScoreTablesInv, RankScores
  <2>2. CASE BinPredictions
    BY <2>2 DEF ScoreTablesInv, BinPredictions
  <2>3. CASE UNCHANGED vars
    BY <2>3 DEF ScoreTablesInv, vars
  <2>. QED  BY <2>1, <2>2, <2>3 DEF ScoreTablesNext
<1>. QED  BY <1>1, <1>2, PTL DEF ScoreTablesSpec

\* For any number of rows and groups, the deciles of the score share out the
\* rows, differ by at most one in size and follow the probability: where clipping
\* makes the scores of two probabilities equal, the validation before refuses
\* them (score_deciles, rank_validation).
THEOREM DecilesInOrder == ScoreTablesSpec => []DecilesFollowRisk
<1>1. ScoreTablesInv => DecilesFollowRisk
  <2> SUFFICES ASSUME ScoreTablesInv, Published PROVE DecilesFollowRisk
    BY DEF DecilesFollowRisk
  <2>1. /\ task.p \in Columns /\ task.groups \in 1..MaxGroups /\ RankValidated(task.p)
        /\ answer.deciles = ScoreDeciles(task.p, task.groups)
    BY DEF ScoreTablesInv, Published, Answered
  <2> DEFINE d == answer.deciles
  <2>2. /\ Partitions([g \in DOMAIN d |-> d[g].rows], task.p)
        /\ \A g, h \in DOMAIN d :
             /\ d[g].count - d[h].count \in -1..1
             /\ g < h => \A i \in d[g].rows, j \in d[h].rows : task.p[i] <= task.p[j]
    BY <2>1, DecilesFacts
  <2>. QED  BY <2>2 DEF DecilesFollowRisk
<1>. QED  BY <1>1, ScoreTablesInvariant, PTL

\* For any number of rows that the groups divide, without ties, a decile is the
\* row of the ranking table that is as far from its end: descending and ascending
\* order are each other's reverse, and so are their cuts (score_deciles,
\* ranking_tables).
THEOREM TablesOpposite == ScoreTablesSpec => []TablesMirror
<1>1. ScoreTablesInv => TablesMirror
  <2> SUFFICES ASSUME ScoreTablesInv, Published, Distinct(task.p),
                      Len(task.p) % task.groups = 0
               PROVE  \A g \in DOMAIN answer.deciles :
                        answer.deciles[g] = answer.ranking[Len(answer.ranking) + 1 - g]
    BY DEF TablesMirror
  <2>1. /\ task.p \in Columns /\ task.groups \in 1..MaxGroups /\ RankValidated(task.p)
        /\ answer.deciles = ScoreDeciles(task.p, task.groups)
        /\ answer.ranking = RankingTable(task.p, task.groups)
    BY DEF ScoreTablesInv, Published, Answered
  <2>. QED  BY <2>1, MirrorFacts
<1>. QED  BY <1>1, ScoreTablesInvariant, PTL

\* For any number of rows and groups, counting the scores that an accepted
\* baseline was made from gives its own counts: its boundaries rise and separate
\* the groups, unless two groups are one float apart (build_baseline, bin_counts).
THEOREM BaselineOfItself == ScoreTablesSpec => []BaselineCountsItself
<1>1. ScoreTablesInv => BaselineCountsItself
  <2> SUFFICES ASSUME ScoreTablesInv, Published, answer.baseline # Refused,
                      1 \notin answer.baseline.gaps
               PROVE  BinCounts(Score(task.p), answer.baseline.boundaries)
                        = answer.baseline.counts
    BY DEF BaselineCountsItself
  <2>1. /\ task.p \in Columns /\ task.groups \in 1..MaxGroups
        /\ answer.baseline = BuildBaseline(ScoreDeciles(task.p, task.groups), task.groups)
    BY DEF ScoreTablesInv, Published, Answered
  <2>. QED  BY <2>1, BaselineFacts
<1>. QED  BY <1>1, ScoreTablesInvariant, PTL

\* For any number of rows and bins, the reliability bins share out the rows in
\* the order of the probability, and without ties differ by at most one in size,
\* though their edges are interpolated (reliability).
THEOREM BinsEqual == ScoreTablesSpec => []BinsAreEquallyFilled
<1>1. ScoreTablesInv => BinsAreEquallyFilled
  <2> SUFFICES ASSUME ScoreTablesInv, Binned PROVE BinsAreEquallyFilled
    BY DEF BinsAreEquallyFilled
  <2>1. /\ task.p \in Columns /\ task.bins \in 1..MaxBins
        /\ answer.bins = Reliability(task.p, task.bins)
    BY DEF ScoreTablesInv, Binned, Answered
  <2>2. task.bins \in Nat /\ task.bins > 0
    BY <2>1, ScoreTablesAssumption
  <2> DEFINE t == answer.bins
  <2>3. /\ Len(t) \in 1..task.bins
        /\ Partitions(t, task.p)
        /\ \A b, c \in DOMAIN t :
             /\ Distinct(task.p) => Cardinality(t[b]) - Cardinality(t[c]) \in -1..1
             /\ b < c => \A i \in t[b], j \in t[c] : task.p[i] < task.p[j]
    BY <2>1, <2>2, ReliabilityFacts
  <2>. QED  BY <2>3 DEF BinsAreEquallyFilled
<1>. QED  BY <1>1, ScoreTablesInvariant, PTL

-----------------------------------------------------------------------------
(***************************************************************************)
(* Explanation: sums over finite sets.                                     *)
(***************************************************************************)

\* Sums over finite sets.  The library's sum is the value at S of a function on
\* the subsets of S that takes one member off after the other.
One(s) == CHOOSE x \in s : TRUE

Sums(row, S, f) ==
  f = [s \in SUBSET S |-> IF s = {} THEN 0 ELSE row[One(s)] + f[s \ {One(s)}]]

\* The sum is taken by a function of that kind, if there is one.
LEMMA SumIsOfSums ==
  ASSUME NEW row, NEW S
  PROVE  SumOf(row, S) = (CHOOSE f : Sums(row, S, f))[S]
BY DEF SumOf, MapThenSumSet, MapThenFoldSet, Sums, One

Unfolds(row, T) ==
  SumOf(row, T) = IF T = {} THEN 0 ELSE row[One(T)] + SumOf(row, T \ {One(T)})

\* There is one, so that a sum unfolds.
LEMMA SumUnfold ==
  ASSUME NEW S, IsFiniteSet(S), NEW row
  PROVE  \A T \in SUBSET S : Unfolds(row, T)
<1> DEFINE G == {T \in SUBSET S : Unfolds(row, T)}
<1>1. ASSUME NEW T \in SUBSET S, \A U \in SUBSET T : U # T => Unfolds(row, U)
      PROVE  Unfolds(row, T)
  <2> DEFINE f == [s \in SUBSET T |->
                     IF s # T THEN SumOf(row, s)
                     ELSE IF s = {} THEN 0 ELSE row[One(s)] + SumOf(row, s \ {One(s)})]
             g == CHOOSE h : Sums(row, T, h)
  <2>1. \A s \in SUBSET T : s # {} => /\ One(s) \in s /\ s \ {One(s)} \in SUBSET T
                                      /\ s \ {One(s)} # T /\ s \ {One(s)} # s
    BY DEF One
  <2>2. ASSUME NEW s \in SUBSET T
        PROVE  f[s] = IF s = {} THEN 0 ELSE row[One(s)] + f[s \ {One(s)}]
    <3>1. s # {} => f[s \ {One(s)}] = SumOf(row, s \ {One(s)})
      BY <2>1
    <3>2. s # T => SumOf(row, s) = IF s = {} THEN 0 ELSE row[One(s)] + SumOf(row, s \ {One(s)})
      BY <1>1 DEF Unfolds
    <3>. QED  BY <3>1, <3>2
  <2>3. f = [s \in SUBSET T |-> f[s]]
    OBVIOUS
  <2> HIDE DEF f
  <2>4. Sums(row, T, f)
    <3>1. [s \in SUBSET T |-> f[s]]
            = [s \in SUBSET T |-> IF s = {} THEN 0 ELSE row[One(s)] + f[s \ {One(s)}]]
      BY <2>2
    <3>. QED  BY <2>3, <3>1 DEF Sums
  <2>5. Sums(row, T, g)
    BY <2>4
  <2>6. SumOf(row, T) = g[T]
    BY SumIsOfSums
  <2> HIDE DEF g
  <2>7. \A s \in SUBSET T : g[s] = IF s = {} THEN 0 ELSE row[One(s)] + g[s \ {One(s)}]
    BY <2>5 DEF Sums
  <2>8. \A s \in SUBSET T : s \in {r \in SUBSET T : r # T => g[r] = SumOf(row, r)}
    <3> DEFINE H == {r \in SUBSET T : r # T => g[r] = SumOf(row, r)}
    <3>1. ASSUME NEW s \in SUBSET T, \A U \in SUBSET s : U # s => U \in H, s # T
          PROVE  g[s] = SumOf(row, s)
      <4>1. s # {} => g[s \ {One(s)}] = SumOf(row, s \ {One(s)})
        BY <2>1, <3>1
      <4>2. Unfolds(row, s)
        BY <1>1, <3>1
      <4>. QED  BY <2>7, <4>1, <4>2 DEF Unfolds
    <3>2. \A s \in SUBSET T : (\A U \in SUBSET s : U # s => U \in H) => s \in H
      BY <3>1
    <3>3. IsFiniteSet(T)
      BY FS_Subset
    <3> HIDE DEF H
    <3>4. \A s \in SUBSET T : s \in H
      BY <3>2, <3>3, SubsetInduction
    <3>. QED  BY <3>4 DEF H
  <2>9. T # {} => g[T \ {One(T)}] = SumOf(row, T \ {One(T)})
    BY <2>1, <2>8
  <2>. QED  BY <2>6, <2>7, <2>9 DEF Unfolds
<1>2. \A T \in SUBSET S : (\A U \in SUBSET T : U # T => U \in G) => T \in G
  <2> SUFFICES ASSUME NEW T \in SUBSET S, \A U \in SUBSET T : U # T => U \in G
               PROVE  T \in G
    OBVIOUS
  <2>1. \A U \in SUBSET T : U # T => Unfolds(row, U)
    OBVIOUS
  <2>. QED  BY <1>1, <2>1
<1> HIDE DEF G
<1>3. \A T \in SUBSET S : T \in G
  BY <1>2, SubsetInduction
<1>. QED  BY <1>3 DEF G

\* The sum over nothing.
LEMMA SumEmpty == ASSUME NEW row PROVE SumOf(row, {}) = 0
<1>1. IsFiniteSet({})
  BY FS_EmptySet
<1>. QED  BY <1>1, SumUnfold DEF Unfolds

\* Rows whose sums are taken.
Numbers(S, row) == IsFiniteSet(S) /\ \A x \in S : row[x] \in Int

\* Sums of numbers are numbers.
LEMMA SumType ==
  ASSUME NEW S, NEW row, Numbers(S, row)
  PROVE  \A T \in SUBSET S : SumOf(row, T) \in Int
<1> DEFINE G == {T \in SUBSET S : SumOf(row, T) \in Int}
<1>1. ASSUME NEW T \in SUBSET S, \A U \in SUBSET T : U # T => U \in G
      PROVE  SumOf(row, T) \in Int
  <2>1. Unfolds(row, T)
    BY SumUnfold DEF Numbers
  <2>2. T # {} => One(T) \in T /\ T \ {One(T)} \in SUBSET T /\ T \ {One(T)} # T
    BY DEF One
  <2>3. T # {} => row[One(T)] \in Int /\ SumOf(row, T \ {One(T)}) \in Int
    BY <1>1, <2>2 DEF Numbers
  <2>. QED  BY <2>1, <2>3 DEF Unfolds
<1>2. \A T \in SUBSET S : (\A U \in SUBSET T : U # T => U \in G) => T \in G
  BY <1>1
<1> HIDE DEF G
<1>3. \A T \in SUBSET S : T \in G
  BY <1>2, SubsetInduction DEF Numbers
<1>. QED  BY <1>3 DEF G

TakesOff(row, T) == \A x \in T : SumOf(row, T) = row[x] + SumOf(row, T \ {x})

\* Any member can be taken off first, not only the one the library chooses.
LEMMA SumTakeOff ==
  ASSUME NEW S, NEW row, Numbers(S, row)
  PROVE  \A T \in SUBSET S : TakesOff(row, T)
<1> DEFINE G == {T \in SUBSET S : TakesOff(row, T)}
<1>1. ASSUME NEW T \in SUBSET S, \A U \in SUBSET T : U # T => U \in G
      PROVE  TakesOff(row, T)
  <2> SUFFICES ASSUME NEW x \in T
               PROVE  SumOf(row, T) = row[x] + SumOf(row, T \ {x})
    BY DEF TakesOff
  <2> DEFINE y == One(T)
  <2>1. y \in T
    BY DEF One
  <2>2. SumOf(row, T) = row[y] + SumOf(row, T \ {y})
    BY SumUnfold DEF Numbers, Unfolds
  <2> HIDE DEF y
  <2>3. CASE x = y
    BY <2>2, <2>3
  <2>4. CASE x # y
    <3> DEFINE R == (T \ {x}) \ {y}
    <3>1. TakesOff(row, T \ {x}) /\ TakesOff(row, T \ {y})
      BY <1>1, <2>1
    <3>2. SumOf(row, T \ {x}) = row[y] + SumOf(row, R)
      BY <2>1, <2>4, <3>1 DEF TakesOff
    <3>3. (T \ {y}) \ {x} = R
      OBVIOUS
    <3> HIDE DEF R
    <3>4. SumOf(row, T \ {y}) = row[x] + SumOf(row, R)
      BY <2>4, <3>1, <3>3 DEF TakesOff
    <3>5. row[x] \in Int /\ row[y] \in Int /\ SumOf(row, R) \in Int
      <4>1. R \in SUBSET S
        BY DEF R
      <4>2. x \in S /\ y \in S
        BY <2>1
      <4>. QED  BY <4>1, <4>2, SumType DEF Numbers
    <3>. QED  BY <2>2, <3>2, <3>4, <3>5
  <2>. QED  BY <2>3, <2>4
<1>2. \A T \in SUBSET S : (\A U \in SUBSET T : U # T => U \in G) => T \in G
  BY <1>1
<1> HIDE DEF G
<1>3. \A T \in SUBSET S : T \in G
  BY <1>2, SubsetInduction DEF Numbers
<1>. QED  BY <1>3 DEF G

\* A member more adds its term: what inductions over a sum go by.
LEMMA SumAdd ==
  ASSUME NEW S, NEW row, Numbers(S, row), NEW T \in SUBSET S, NEW x \in S \ T
  PROVE  /\ SumOf(row, T \cup {x}) = row[x] + SumOf(row, T)
         /\ row[x] \in Int /\ SumOf(row, T) \in Int
<1>1. T \cup {x} \in SUBSET S /\ (T \cup {x}) \ {x} = T
  OBVIOUS
<1>2. TakesOff(row, T \cup {x})
  BY <1>1, SumTakeOff
<1>3. row[x] \in Int
  BY DEF Numbers
<1>. QED  BY <1>1, <1>2, <1>3, SumType DEF TakesOff

\* Equal terms have equal sums.
LEMMA SumSame ==
  ASSUME NEW S, IsFiniteSet(S), NEW a, NEW b,
         \A x \in S : a[x] \in Int /\ a[x] = b[x]
  PROVE  SumOf(a, S) = SumOf(b, S)
<1> DEFINE G == {T \in SUBSET S : SumOf(a, T) = SumOf(b, T)}
<1>1. Numbers(S, a) /\ Numbers(S, b)
  BY DEF Numbers
<1>2. ASSUME NEW T \in SUBSET S, NEW x \in S \ T, SumOf(a, T) = SumOf(b, T)
      PROVE  SumOf(a, T \cup {x}) = SumOf(b, T \cup {x})
  BY <1>1, <1>2, SumAdd
<1>3. {} \in G
  BY SumEmpty
<1>4. \A T \in SUBSET S : \A x \in S \ T : T \in G => T \cup {x} \in G
  BY <1>2
<1> HIDE DEF G
<1>5. S \in G
  BY <1>3, <1>4, FiniteInduction
<1>. QED  BY <1>5 DEF G

\* The sum of the sums.
LEMMA SumPlus ==
  ASSUME NEW S, NEW a, NEW b, NEW c, Numbers(S, a), Numbers(S, b),
         \A x \in S : c[x] = a[x] + b[x]
  PROVE  SumOf(c, S) = SumOf(a, S) + SumOf(b, S)
<1> DEFINE G == {T \in SUBSET S : SumOf(c, T) = SumOf(a, T) + SumOf(b, T)}
<1>1. Numbers(S, c)
  BY DEF Numbers
<1>2. ASSUME NEW T \in SUBSET S, NEW x \in S \ T, SumOf(c, T) = SumOf(a, T) + SumOf(b, T)
      PROVE  SumOf(c, T \cup {x}) = SumOf(a, T \cup {x}) + SumOf(b, T \cup {x})
  <2>1. /\ SumOf(a, T \cup {x}) = a[x] + SumOf(a, T)
        /\ a[x] \in Int /\ SumOf(a, T) \in Int
    BY SumAdd
  <2>2. /\ SumOf(b, T \cup {x}) = b[x] + SumOf(b, T)
        /\ b[x] \in Int /\ SumOf(b, T) \in Int
    BY SumAdd
  <2>3. SumOf(c, T \cup {x}) = c[x] + SumOf(c, T)
    BY <1>1, SumAdd
  <2>. QED  BY <1>2, <2>1, <2>2, <2>3
<1>3. {} \in G
  BY SumEmpty
<1>4. \A T \in SUBSET S : \A x \in S \ T : T \in G => T \cup {x} \in G
  BY <1>2
<1> HIDE DEF G
<1>5. S \in G
  BY <1>3, <1>4, FiniteInduction DEF Numbers
<1>. QED  BY <1>5 DEF G

\* A factor of every term is a factor of the sum.
LEMMA SumTimes ==
  ASSUME NEW S, NEW a, NEW b, NEW k \in Int, Numbers(S, a),
         \A x \in S : b[x] = k * a[x]
  PROVE  SumOf(b, S) = k * SumOf(a, S)
<1> DEFINE G == {T \in SUBSET S : SumOf(b, T) = k * SumOf(a, T)}
<1>1. Numbers(S, b)
  BY DEF Numbers
<1>2. ASSUME NEW T \in SUBSET S, NEW x \in S \ T, SumOf(b, T) = k * SumOf(a, T)
      PROVE  SumOf(b, T \cup {x}) = k * SumOf(a, T \cup {x})
  <2>1. /\ SumOf(a, T \cup {x}) = a[x] + SumOf(a, T)
        /\ a[x] \in Int /\ SumOf(a, T) \in Int
    BY SumAdd
  <2>2. SumOf(b, T \cup {x}) = b[x] + SumOf(b, T)
    BY <1>1, SumAdd
  <2>3. k * (a[x] + SumOf(a, T)) = k * a[x] + k * SumOf(a, T)
    BY <2>1
  <2>. QED  BY <1>2, <2>1, <2>2, <2>3
<1>3. {} \in G
  BY SumEmpty
<1>4. \A T \in SUBSET S : \A x \in S \ T : T \in G => T \cup {x} \in G
  BY <1>2
<1> HIDE DEF G
<1>5. S \in G
  BY <1>3, <1>4, FiniteInduction DEF Numbers
<1>. QED  BY <1>5 DEF G

\* Smaller terms have a smaller sum, by as much as some term is smaller.
LEMMA SumLess ==
  ASSUME NEW S, NEW a, NEW b, Numbers(S, a), Numbers(S, b),
         \A x \in S : a[x] <= b[x]
  PROVE  /\ SumOf(a, S) <= SumOf(b, S)
         /\ SumOf(a, S) < SumOf(b, S) <=> \E x \in S : a[x] < b[x]
<1> DEFINE Less(T) == /\ SumOf(a, T) <= SumOf(b, T)
                      /\ SumOf(a, T) < SumOf(b, T) <=> \E x \in T : a[x] < b[x]
           G == {T \in SUBSET S : Less(T)}
<1>1. ASSUME NEW T \in SUBSET S, NEW x \in S \ T, Less(T)
      PROVE  Less(T \cup {x})
  <2>1. /\ SumOf(a, T \cup {x}) = a[x] + SumOf(a, T)
        /\ a[x] \in Int /\ SumOf(a, T) \in Int
    BY SumAdd
  <2>2. /\ SumOf(b, T \cup {x}) = b[x] + SumOf(b, T)
        /\ b[x] \in Int /\ SumOf(b, T) \in Int
    BY SumAdd
  <2>3. (\E y \in T \cup {x} : a[y] < b[y]) <=> (\E y \in T : a[y] < b[y]) \/ a[x] < b[x]
    OBVIOUS
  <2>4. a[x] <= b[x]
    OBVIOUS
  <2>. QED  BY <1>1, <2>1, <2>2, <2>3, <2>4
<1>2. {} \in G
  BY SumEmpty
<1>3. \A T \in SUBSET S : \A x \in S \ T : T \in G => T \cup {x} \in G
  BY <1>1
<1> HIDE DEF G
<1>4. S \in G
  BY <1>2, <1>3, FiniteInduction DEF Numbers
<1>. QED  BY <1>4 DEF G

\* Under another name, everyone's term counts once.
Renames(f, A, B) ==
  /\ \A x \in A : f[x] \in B
  /\ \A x, y \in A : f[x] = f[y] => x = y
  /\ \A y \in B : \E x \in A : f[x] = y

\* The sum does not depend on the names.
LEMMA SumRename ==
  ASSUME NEW A, NEW B, NEW f, Renames(f, A, B),
         NEW a, NEW b, Numbers(A, a), Numbers(B, b),
         \A x \in A : a[x] = b[f[x]]
  PROVE  SumOf(a, A) = SumOf(b, B)
<1> USE DEF Renames
<1> DEFINE Image(T) == {f[x] : x \in T}
           G == {T \in SUBSET A : SumOf(a, T) = SumOf(b, Image(T))}
<1>1. ASSUME NEW T \in SUBSET A, NEW x \in A \ T, SumOf(a, T) = SumOf(b, Image(T))
      PROVE  SumOf(a, T \cup {x}) = SumOf(b, Image(T \cup {x}))
  <2>1. SumOf(a, T \cup {x}) = a[x] + SumOf(a, T)
    BY SumAdd
  <2> DEFINE I == Image(T)
  <2>2. Image(T \cup {x}) = I \cup {f[x]}
    OBVIOUS
  <2>3. I \in SUBSET B /\ f[x] \in B \ I
    OBVIOUS
  <2>4. SumOf(a, T) = SumOf(b, I)
    BY <1>1
  <2> HIDE DEF I
  <2>5. SumOf(b, I \cup {f[x]}) = b[f[x]] + SumOf(b, I)
    BY <2>3, SumAdd
  <2>. QED  BY <2>1, <2>2, <2>4, <2>5
<1>2. {} \in G
  <2>1. Image({}) = {}
    OBVIOUS
  <2>. QED  BY <2>1, SumEmpty
<1>3. \A T \in SUBSET A : \A x \in A \ T : T \in G => T \cup {x} \in G
  BY <1>1
<1>4. Image(A) = B
  OBVIOUS
<1> HIDE DEF G
<1>5. A \in G
  BY <1>2, <1>3, FiniteInduction DEF Numbers
<1>. QED  BY <1>4, <1>5 DEF G

\* One term more.
LEMMA SumBump ==
  ASSUME NEW L, NEW a, NEW b, NEW l \in L, NEW d \in Int, Numbers(L, a),
         b[l] = a[l] + d, \A n \in L \ {l} : b[n] = a[n]
  PROVE  SumOf(b, L) = SumOf(a, L) + d
<1> DEFINE R == L \ {l}
<1>1. Numbers(L, b)
  BY DEF Numbers
<1>2. TakesOff(a, L) /\ TakesOff(b, L)
  BY <1>1, SumTakeOff
<1>3. SumOf(a, L) = a[l] + SumOf(a, R) /\ SumOf(b, L) = b[l] + SumOf(b, R)
  BY <1>2 DEF TakesOff
<1>4. SumOf(a, R) = SumOf(b, R)
  <2>1. IsFiniteSet(R) /\ \A x \in R : a[x] \in Int /\ a[x] = b[x]
    BY FS_Subset DEF Numbers
  <2> HIDE DEF R
  <2>. QED  BY <2>1, SumSame
<1>5. a[l] \in Int /\ SumOf(a, R) \in Int
  BY SumType DEF Numbers
<1>. QED  BY <1>3, <1>4, <1>5

\* Sums by label.
ByLabel(row, T, label, L) == [n \in L |-> SumOf(row, {x \in T : label[x] = n})]

\* The sums by label add up to the sum.
LEMMA SumByLabel ==
  ASSUME NEW S, NEW row, Numbers(S, row),
         NEW L, IsFiniteSet(L), NEW label, \A x \in S : label[x] \in L
  PROVE  /\ Numbers(L, ByLabel(row, S, label, L))
         /\ SumOf(ByLabel(row, S, label, L), L) = SumOf(row, S)
<1> DEFINE by(T) == ByLabel(row, T, label, L)
           G == {T \in SUBSET S : SumOf(by(T), L) = SumOf(row, T)}
<1>0. \A T \in SUBSET S : Numbers(L, by(T))
  <2> SUFFICES ASSUME NEW T \in SUBSET S, NEW n \in L
               PROVE  SumOf(row, {x \in T : label[x] = n}) \in Int
    BY DEF Numbers, ByLabel
  <2>1. {x \in T : label[x] = n} \in SUBSET S
    OBVIOUS
  <2>. QED  BY <2>1, SumType
<1>1. ASSUME NEW T \in SUBSET S, NEW x \in S \ T, SumOf(by(T), L) = SumOf(row, T)
      PROVE  SumOf(by(T \cup {x}), L) = SumOf(row, T \cup {x})
  <2>6. /\ SumOf(row, T \cup {x}) = row[x] + SumOf(row, T)
        /\ row[x] \in Int /\ SumOf(row, T) \in Int
    BY SumAdd
  <2> DEFINE l == label[x]
             P(n) == {y \in T : label[y] = n}
  <2>1. \A n \in L : by(T)[n] = SumOf(row, P(n))
    BY DEF ByLabel
  <2>2. by(T \cup {x})[l] = SumOf(row, P(l) \cup {x})
    <3>1. {y \in T \cup {x} : label[y] = l} = P(l) \cup {x}
      OBVIOUS
    <3>. QED  BY <3>1 DEF ByLabel
  <2>3. \A n \in L \ {l} : by(T \cup {x})[n] = SumOf(row, P(n))
    <3>1. \A n \in L \ {l} : {y \in T \cup {x} : label[y] = n} = P(n)
      OBVIOUS
    <3>. QED  BY <3>1 DEF ByLabel
  <2>4. /\ SumOf(row, P(l) \cup {x}) = row[x] + SumOf(row, P(l))
        /\ row[x] \in Int /\ SumOf(row, P(l)) \in Int
    <3>1. P(l) \in SUBSET S /\ x \in S \ P(l)
      OBVIOUS
    <3> HIDE DEF P, l
    <3>. QED  BY <3>1, SumAdd
  <2>5. l \in L
    OBVIOUS
  <2>7. Numbers(L, by(T))
    BY <1>0
  <2>8. /\ by(T \cup {x})[l] = by(T)[l] + row[x]
        /\ \A n \in L \ {l} : by(T \cup {x})[n] = by(T)[n]
    <3> HIDE DEF by, P, l
    <3>1. by(T)[l] = SumOf(row, P(l))
      BY <2>1, <2>5
    <3>2. by(T \cup {x})[l] = row[x] + SumOf(row, P(l))
      BY <2>2, <2>4
    <3>3. by(T \cup {x})[l] = by(T)[l] + row[x]
      BY <2>4, <3>1, <3>2
    <3>4. \A n \in L \ {l} : by(T \cup {x})[n] = by(T)[n]
      BY <2>1, <2>3
    <3>. QED  BY <3>3, <3>4
  <2> DEFINE b == by(T \cup {x})
             a == by(T)
  <2> HIDE DEF a, b, l
  <2>9. SumOf(b, L) = SumOf(a, L) + row[x]
    <3>1. b[l] = a[l] + row[x] /\ \A n \in L \ {l} : b[n] = a[n]
      BY <2>8 DEF a, b
    <3>2. Numbers(L, a)
      BY <2>7 DEF a
    <3>. QED  BY <2>4, <2>5, <3>1, <3>2, SumBump
  <2>. QED  BY <1>1, <2>4, <2>6, <2>9 DEF a, b
<1>2. {} \in G
  <2>1. \A n \in L : by({})[n] = 0
    <3>1. \A n \in L : {x \in {} : label[x] = n} = {}
      OBVIOUS
    <3>. QED  BY <3>1, SumEmpty DEF ByLabel
  <2> DEFINE none == by({})
  <2>2. \A n \in L : none[n] \in Int /\ none[n] = 0 * none[n]
    BY <2>1
  <2> HIDE DEF none
  <2>3. Numbers(L, none)
    BY <2>2 DEF Numbers
  <2>4. SumOf(none, L) = 0 * SumOf(none, L)
    BY <2>2, <2>3, SumTimes
  <2>5. SumOf(none, L) \in Int
    BY <2>3, SumType
  <2>6. SumOf(none, L) = 0
    BY <2>4, <2>5
  <2>. QED  BY <2>6, SumEmpty DEF none
<1>3. \A T \in SUBSET S : \A x \in S \ T : T \in G => T \cup {x} \in G
  BY <1>1
<1> HIDE DEF G
<1>4. S \in G
  BY <1>2, <1>3, FiniteInduction DEF Numbers
<1>. QED  BY <1>0, <1>4 DEF G

\* Rows of numbers, summed by row and by column.
Column(m, R, c) == [r \in R |-> m[r][c]]

SummedByRow(m, R, C, byRow) ==
  \A r \in R : Numbers(C, m[r]) /\ byRow[r] = SumOf(m[r], C)

SummedByColumn(m, R, C, byColumn) ==
  \A c \in C : byColumn[c] = SumOf(Column(m, R, c), R)

\* By row first or by column first, the total is the same.
LEMMA SumTwice ==
  ASSUME NEW R, IsFiniteSet(R), NEW C, IsFiniteSet(C),
         NEW m, NEW byRow, SummedByRow(m, R, C, byRow),
         NEW byColumn, SummedByColumn(m, R, C, byColumn)
  PROVE  /\ Numbers(R, byRow) /\ Numbers(C, byColumn)
         /\ SumOf(byRow, R) = SumOf(byColumn, C)
<1> USE DEF SummedByRow, SummedByColumn
<1> DEFINE rows(T) == [r \in R |-> SumOf(m[r], T)]
           G == {T \in SUBSET C : SumOf(rows(T), R) = SumOf(byColumn, T)}
<1>1. \A c \in C : Numbers(R, Column(m, R, c))
  BY DEF Numbers, Column
<1>2. Numbers(C, byColumn)
  <2>1. \A c \in C : SumOf(Column(m, R, c), R) \in Int
    BY <1>1, SumType
  <2>. QED  BY <2>1 DEF Numbers
<1>3. \A T \in SUBSET C : Numbers(R, rows(T))
  <2>1. \A T \in SUBSET C : \A r \in R : SumOf(m[r], T) \in Int
    BY SumType
  <2>. QED  BY <2>1 DEF Numbers
<1>4. ASSUME NEW T \in SUBSET C, NEW c \in C \ T, SumOf(rows(T), R) = SumOf(byColumn, T)
      PROVE  SumOf(rows(T \cup {c}), R) = SumOf(byColumn, T \cup {c})
  <2> DEFINE a == Column(m, R, c)
             b == rows(T)
             d == rows(T \cup {c})
  <2>1. \A r \in R : d[r] = a[r] + b[r]
    <3>1. \A r \in R : SumOf(m[r], T \cup {c}) = m[r][c] + SumOf(m[r], T)
      BY SumAdd
    <3>. QED  BY <3>1 DEF Column
  <2>2. Numbers(R, a) /\ Numbers(R, b)
    BY <1>1, <1>3
  <2>3. SumOf(b, R) = SumOf(byColumn, T) /\ SumOf(a, R) = byColumn[c]
    BY <1>4
  <2> HIDE DEF a, b, d
  <2>4. SumOf(d, R) = SumOf(a, R) + SumOf(b, R)
    BY <2>1, <2>2, SumPlus
  <2>5. SumOf(byColumn, T \cup {c}) = byColumn[c] + SumOf(byColumn, T)
    BY <1>2, SumAdd
  <2>. QED  BY <2>3, <2>4, <2>5 DEF d
<1>5. {} \in G
  <2> DEFINE none == rows({})
  <2>2. \A r \in R : none[r] \in Int /\ none[r] = 0 * none[r]
    BY SumEmpty
  <2> HIDE DEF none
  <2>3. Numbers(R, none)
    BY <2>2 DEF Numbers
  <2>4. SumOf(none, R) = 0 * SumOf(none, R)
    BY <2>2, <2>3, SumTimes
  <2>5. SumOf(none, R) \in Int
    BY <2>3, SumType
  <2>6. SumOf(none, R) = 0
    BY <2>4, <2>5
  <2>. QED  BY <2>6, SumEmpty DEF none
<1>6. \A T \in SUBSET C : \A x \in C \ T : T \in G => T \cup {x} \in G
  BY <1>4
<1> HIDE DEF G
<1>7. C \in G
  BY <1>5, <1>6, FiniteInduction
<1>8. \A r \in R : byRow[r] \in Int /\ byRow[r] = rows(C)[r]
  <2>1. \A r \in R : SumOf(m[r], C) \in Int
    BY SumType
  <2>. QED  BY <2>1
<1> DEFINE all == rows(C)
<1>9. SumOf(all, R) = SumOf(byColumn, C)
  BY <1>7 DEF G
<1> HIDE DEF all
<1>10. SumOf(byRow, R) = SumOf(all, R)
  BY <1>8, SumSame DEF all
<1>. QED  BY <1>2, <1>8, <1>9, <1>10 DEF Numbers

\* The magnitude of a sum.
LEMMA SumAbs ==
  ASSUME NEW S, NEW a, NEW b, Numbers(S, a), \A x \in S : b[x] = Abs(a[x])
  PROVE  /\ Numbers(S, b)
         /\ Abs(SumOf(a, S)) <= SumOf(b, S)
         /\ Abs(SumOf(a, S)) < SumOf(b, S) <=> \E x, y \in S : a[x] > 0 /\ a[y] < 0
<1> DEFINE k == 0 - 1
           c == [x \in S |-> k * a[x]]
<1>1. \A x \in S : a[x] \in Int
  BY DEF Numbers
<1>2. \A x \in S : /\ c[x] \in Int /\ c[x] = k * a[x] /\ b[x] \in Int
                   /\ a[x] <= b[x] /\ c[x] <= b[x]
                   /\ a[x] < b[x] <=> a[x] < 0
                   /\ c[x] < b[x] <=> a[x] > 0
  BY <1>1 DEF Abs
<1>9. k \in Int
  OBVIOUS
<1> HIDE DEF c, k
<1>3. Numbers(S, b) /\ Numbers(S, c)
  BY <1>2 DEF Numbers
<1>4. SumOf(c, S) = k * SumOf(a, S)
  BY <1>2, <1>9, SumTimes
<1>5. /\ SumOf(a, S) <= SumOf(b, S)
      /\ SumOf(a, S) < SumOf(b, S) <=> \E x \in S : a[x] < b[x]
  BY <1>2, <1>3, SumLess
<1>6. /\ SumOf(c, S) <= SumOf(b, S)
      /\ SumOf(c, S) < SumOf(b, S) <=> \E x \in S : c[x] < b[x]
  BY <1>2, <1>3, SumLess
<1>7. SumOf(a, S) \in Int /\ SumOf(b, S) \in Int
  BY <1>3, SumType
<1>8. /\ SumOf(a, S) < SumOf(b, S) <=> \E x \in S : a[x] < 0
      /\ SumOf(c, S) < SumOf(b, S) <=> \E x \in S : a[x] > 0
  BY <1>2, <1>5, <1>6
<1>. QED  BY <1>3, <1>4, <1>5, <1>6, <1>7, <1>8 DEF Abs, k

-----------------------------------------------------------------------------
(***************************************************************************)
(* Explanation: rows summed by source and by family, and their rankings.   *)
(***************************************************************************)

\* A finite row has finitely many labels.
LEMMA RangeFinite ==
  ASSUME NEW label, IsFiniteSet(DOMAIN label)
  PROVE  IsFiniteSet(Range(label))
<1> DEFINE D == DOMAIN label
           g == [x \in D |-> label[x]]
<1>1. g \in [D -> Range(label)] /\ \A y \in Range(label) : \E x \in D : g[x] = y
  BY DEF Range
<1> HIDE DEF g
<1>2. g \in Surjection(D, Range(label))
  BY <1>1 DEF Surjection
<1>. QED  BY <1>2, FS_Surjection

\* A row summed by label.
LEMMA AggregateFacts ==
  ASSUME NEW D, IsFiniteSet(D), NEW row \in [D -> Int], NEW label, DOMAIN label = D
  PROVE  /\ Numbers(D, row)
         /\ IsFiniteSet(Range(label))
         /\ Aggregate(row, label) \in [Range(label) -> Int]
         /\ \A n \in Range(label) :
              Aggregate(row, label)[n] = SumOf(row, {c \in D : label[c] = n})
         /\ Total(Aggregate(row, label)) = Total(row)
<1> DEFINE L == Range(label)
           a == Aggregate(row, label)
<1>1. IsFiniteSet(L)
  BY RangeFinite
<1>2. \A x \in D : label[x] \in L
  BY DEF Range
<1>3. Numbers(D, row)
  BY DEF Numbers
<1>4. a = ByLabel(row, D, label, L)
  BY DEF Aggregate, ByLabel
<1> HIDE DEF a, L
<1>5. Numbers(L, a) /\ SumOf(a, L) = SumOf(row, D)
  BY <1>1, <1>2, <1>3, <1>4, SumByLabel
<1>6. a = [n \in L |-> a[n]] /\ \A n \in L : a[n] = SumOf(row, {c \in D : label[c] = n})
  BY <1>4 DEF ByLabel
<1>7. a \in [L -> Int]
  BY <1>5, <1>6 DEF Numbers
<1>8. Total(a) = SumOf(a, L) /\ Total(row) = SumOf(row, D)
  BY <1>7 DEF Total
<1>. QED  BY <1>1, <1>3, <1>5, <1>6, <1>7, <1>8 DEF a, L

\* Everyone is ranked, and once.
LEMMA RankedFacts ==
  ASSUME NEW S, S \subseteq Int, IsFiniteSet(S), NEW weight, \A s \in S : weight[s] \in Int
  PROVE  /\ Ranked(S, weight) = [i \in 1..Cardinality(S) |-> Ranked(S, weight)[i]]
         /\ IsOrdered(S, Negated(S, weight), Ranked(S, weight))
<1>1. Ranked(S, weight) = Descending(S, weight)
  BY DEF Ranked, Descending
<1>2. IsOrdered(S, Negated(S, weight), Descending(S, weight))
  BY DescendingOrder
<1>. QED  BY <1>1, <1>2 DEF IsOrdered

\* A global ranking of the columns D of some rows.
Magnitude(values, R, n) == Total([r \in R |-> Abs(values[r][n])])

IsRanking(ranking, values, R, D) ==
  /\ DOMAIN ranking = 1..Cardinality(D)
  /\ \A i \in DOMAIN ranking :
       /\ ranking[i].name \in D
       /\ ranking[i].magnitude = Magnitude(values, R, ranking[i].name)
       /\ ranking[i].signed = SumOf(Column(values, R, ranking[i].name), R)
  /\ \A n \in D : \E i \in DOMAIN ranking : ranking[i].name = n
  /\ \A i, j \in DOMAIN ranking : ranking[i].name = ranking[j].name => i = j

\* Importance is such a ranking.
LEMMA ImportanceFacts ==
  ASSUME NEW R, IsFiniteSet(R), 1 \in R,
         NEW D, D \subseteq Int, IsFiniteSet(D), NEW values \in [R -> [D -> Int]]
  PROVE  IsRanking(Importance(values), values, R, D)
<1> DEFINE magnitude == [n \in D |-> Magnitude(values, R, n)]
           signed == [n \in D |-> Total([r \in R |-> values[r][n]])]
           order == Ranked(D, magnitude)
           ranking == [i \in DOMAIN order |->
                         [name |-> order[i], magnitude |-> magnitude[order[i]],
                          signed |-> signed[order[i]]]]
<1>1. DOMAIN values = R /\ DOMAIN values[1] = D
  OBVIOUS
<1>2. Importance(values) = ranking
  BY <1>1 DEF Importance, Magnitude
<1>3. \A n \in D : magnitude[n] \in Int
  <2> SUFFICES ASSUME NEW n \in D PROVE Magnitude(values, R, n) \in Int
    OBVIOUS
  <2> DEFINE a == [r \in R |-> Abs(values[r][n])]
  <2>1. \A r \in R : values[r][n] \in Int
    OBVIOUS
  <2>2. \A r \in R : a[r] \in Int
    BY <2>1 DEF Abs
  <2>3. DOMAIN a = R
    OBVIOUS
  <2> HIDE DEF a
  <2>4. Numbers(R, a)
    BY <2>2 DEF Numbers
  <2>5. SumOf(a, R) \in Int
    BY <2>4, SumType
  <2>6. Total(a) \in Int
    BY <2>3, <2>5 DEF Total
  <2>. QED  BY <2>6 DEF Magnitude, a
<1>4. \A n \in D : signed[n] = SumOf(Column(values, R, n), R)
  BY DEF Total, Column
<1>5. \A n \in D : magnitude[n] = Magnitude(values, R, n)
  OBVIOUS
<1> HIDE DEF magnitude, signed
<1>6. /\ order = [i \in 1..Cardinality(D) |-> order[i]]
      /\ IsOrdered(D, Negated(D, magnitude), order)
  BY <1>3, RankedFacts
<1> HIDE DEF order
<1>7. /\ DOMAIN order = 1..Cardinality(D)
      /\ \A i \in DOMAIN order : order[i] \in D
      /\ \A n \in D : \E i \in DOMAIN order : order[i] = n
      /\ \A i, j \in DOMAIN order : order[i] = order[j] => i = j
  BY <1>6 DEF IsOrdered
<1>8. /\ DOMAIN ranking = DOMAIN order
      /\ \A i \in DOMAIN order :
           /\ ranking[i].name = order[i] /\ ranking[i].magnitude = magnitude[order[i]]
           /\ ranking[i].signed = signed[order[i]]
  OBVIOUS
<1> HIDE DEF ranking
<1>9. IsRanking(ranking, values, R, D)
  <2>1. \A i \in DOMAIN ranking :
          /\ ranking[i].name \in D
          /\ ranking[i].magnitude = Magnitude(values, R, ranking[i].name)
          /\ ranking[i].signed = SumOf(Column(values, R, ranking[i].name), R)
    BY <1>4, <1>5, <1>7, <1>8
  <2>2. /\ \A n \in D : \E i \in DOMAIN ranking : ranking[i].name = n
        /\ \A i, j \in DOMAIN ranking : ranking[i].name = ranking[j].name => i = j
    BY <1>7, <1>8
  <2>. QED  BY <1>7, <1>8, <2>1, <2>2 DEF IsRanking
<1>. QED  BY <1>2, <1>9

\* Its signed importances have the total of all rows.
TotalsOfRows(values, R, byRow) == \A r \in R : byRow[r] = Total(values[r])

\* The total of a ranking is that of the rows it is made from.
LEMMA RankingTotal ==
  ASSUME NEW R, IsFiniteSet(R), NEW D, IsFiniteSet(D), NEW values \in [R -> [D -> Int]],
         NEW ranking, IsRanking(ranking, values, R, D),
         NEW byRow, TotalsOfRows(values, R, byRow)
  PROVE  SignedTotal(ranking) = SumOf(byRow, R)
<1> USE DEF TotalsOfRows
<1> DEFINE P == DOMAIN ranking
           name == [i \in P |-> ranking[i].name]
           a == [i \in P |-> ranking[i].signed]
           b == [n \in D |-> SumOf(Column(values, R, n), R)]
<1>1. \A r \in R : Numbers(D, values[r]) /\ Total(values[r]) = SumOf(values[r], D)
  BY DEF Numbers, Total
<1>2. \A n \in D : b[n] = SumOf(Column(values, R, n), R)
  OBVIOUS
<1>3. Renames(name, P, D)
  BY DEF IsRanking, Renames
<1>9. \A i \in P : name[i] \in D /\ a[i] = b[name[i]]
  BY DEF IsRanking
<1>4. SignedTotal(ranking) = SumOf(a, P)
  BY DEF SignedTotal, Total
<1>5. IsFiniteSet(P)
  <2>1. P = 1..Cardinality(D) /\ Cardinality(D) \in Nat
    BY FS_CardinalityType DEF IsRanking
  <2>. QED  BY <2>1, FS_Interval
<1> HIDE DEF a, b, name, P
<1>6. Numbers(D, b) /\ SumOf(byRow, R) = SumOf(b, D)
  <2>1. SummedByRow(values, R, D, byRow) /\ SummedByColumn(values, R, D, b)
    BY <1>1, <1>2 DEF SummedByRow, SummedByColumn
  <2>. QED  BY <2>1, SumTwice
<1>7. Numbers(P, a)
  BY <1>5, <1>6, <1>9 DEF Numbers
<1>8. SumOf(a, P) = SumOf(b, D)
  BY <1>3, <1>6, <1>7, <1>9, SumRename
<1>. QED  BY <1>4, <1>6, <1>8

\* The columns of a family.
OfFamily(source, family, f) == {c \in Names : family[source[c]] = f}

FamilyOf(source, family) == [s \in Range(source) |-> family[s]]

\* There are columns, and finitely many.
LEMMA NamesFinite == IsFiniteSet(Names) /\ Names \subseteq Int /\ Names # {}
<1>1. 1 \in Int /\ Width \in Int /\ Width > 0
  BY ExplanationAssumption
<1>2. IsFiniteSet(1..Width)
  BY <1>1, FS_Interval
<1>3. 1 \in Names /\ Names \subseteq Int
  BY <1>1 DEF Names
<1>. QED  BY <1>2, <1>3 DEF Names

\* One row, by source and by family.
LEMMA LevelFacts ==
  ASSUME NEW row \in [Names -> Int], NEW source \in Lineages, NEW family \in Lineages
  PROVE  LET bySource == Aggregate(row, source)
             label == FamilyOf(source, family)
             byFamily == Aggregate(bySource, label)
         IN  /\ bySource \in [Range(source) -> Int]
             /\ byFamily \in [Range(label) -> Int]
             /\ IsFiniteSet(Range(source)) /\ Range(source) \subseteq Names
             /\ IsFiniteSet(Range(label)) /\ Range(label) \subseteq Names
             /\ Total(bySource) = Total(row) /\ Total(byFamily) = Total(bySource)
             /\ \A f \in Range(label) : byFamily[f] = SumOf(row, OfFamily(source, family, f))
<1> DEFINE S == Range(source)
           label == FamilyOf(source, family)
           bySource == Aggregate(row, source)
           byFamily == Aggregate(bySource, label)
<1>1. source \in [Names -> Names] /\ family \in [Names -> Names] /\ DOMAIN source = Names
  BY DEF Lineages
<1>2. S \subseteq Names /\ \A c \in Names : source[c] \in S
  BY <1>1 DEF Range
<1>3. /\ Numbers(Names, row) /\ IsFiniteSet(S) /\ bySource \in [S -> Int]
      /\ \A s \in S : bySource[s] = SumOf(row, {c \in Names : source[c] = s})
      /\ Total(bySource) = Total(row)
  <2>1. IsFiniteSet(Names)
    BY NamesFinite
  <2>. QED  BY <1>1, <2>1, AggregateFacts
<1>4. DOMAIN label = S /\ \A s \in S : label[s] = family[s]
  BY DEF FamilyOf
<1>5. Range(label) \subseteq Names
  BY <1>1, <1>2, <1>4 DEF Range
<1> HIDE DEF S, label, bySource
<1>6. /\ Numbers(S, bySource) /\ IsFiniteSet(Range(label)) /\ byFamily \in [Range(label) -> Int]
      /\ \A f \in Range(label) : byFamily[f] = SumOf(bySource, {s \in S : label[s] = f})
      /\ Total(byFamily) = Total(bySource)
  BY <1>3, <1>4, AggregateFacts
<1> HIDE DEF byFamily
<1>7. ASSUME NEW f \in Range(label)
      PROVE  byFamily[f] = SumOf(row, OfFamily(source, family, f))
  <2> DEFINE C == OfFamily(source, family, f)
             L == {s \in S : label[s] = f}
             a == ByLabel(row, C, source, L)
  <2>1. C \subseteq Names /\ \A c \in C : source[c] \in L
    BY <1>2, <1>4 DEF OfFamily
  <2>2. Numbers(C, row) /\ IsFiniteSet(L)
    BY <1>3, <2>1, FS_Subset DEF Numbers
  <2>3. \A s \in L : {c \in C : source[c] = s} = {c \in Names : source[c] = s}
    BY <1>4 DEF OfFamily
  <2>4. \A s \in L : a[s] = bySource[s] /\ s \in S
    BY <1>3, <2>3 DEF ByLabel
  <2> HIDE DEF C, L
  <2>5. Numbers(L, a) /\ SumOf(a, L) = SumOf(row, C)
    BY <2>1, <2>2, SumByLabel
  <2> HIDE DEF a
  <2>6. SumOf(a, L) = SumOf(bySource, L)
    <3>1. \A s \in L : a[s] \in Int /\ a[s] = bySource[s]
      BY <2>4, <2>5 DEF Numbers
    <3>. QED  BY <2>2, <3>1, SumSame
  <2>. QED  BY <1>6, <2>5, <2>6 DEF C, L
<1>. QED  BY <1>2, <1>3, <1>5, <1>6, <1>7 DEF S, label, bySource, byFamily

\* What some columns weigh together, and what they weigh apart.
Apart(columns, C) ==
  SumOf([j \in DOMAIN columns |-> columns[j].magnitude],
        {j \in DOMAIN columns : columns[j].name \in C})

Cancelling(values, R, C) ==
  \E r \in R, b, c \in C : values[r][b] > 0 /\ values[r][c] < 0

\* Together they weigh at most what they weigh apart, and less exactly where they
\* cancel in a row.
LEMMA ApartFacts ==
  ASSUME NEW R, IsFiniteSet(R), NEW D, IsFiniteSet(D), NEW values \in [R -> [D -> Int]],
         NEW columns, IsRanking(columns, values, R, D), NEW C, C \subseteq D,
         NEW total, SummedByRow(values, R, C, total)
  PROVE  LET whole == SumOf([r \in R |-> Abs(total[r])], R)
         IN  /\ whole <= Apart(columns, C)
             /\ whole < Apart(columns, C) <=> Cancelling(values, R, C)
<1> DEFINE P == DOMAIN columns
           Q == {j \in P : columns[j].name \in C}
           name == [j \in P |-> columns[j].name]
           a == [j \in P |-> columns[j].magnitude]
           weight == [r \in R |-> [n \in D |-> Abs(values[r][n])]]
           b == [n \in D |-> SumOf(Column(weight, R, n), R)]
           d == [r \in R |-> SumOf(weight[r], C)]
           e == [r \in R |-> Abs(total[r])]
<1>1. IsFiniteSet(C) /\ \A r \in R : Numbers(C, values[r])
  BY FS_Subset DEF Numbers
<1>2. \A r \in R : \A n \in C : weight[r][n] = Abs(values[r][n])
  OBVIOUS
<1>3. IsFiniteSet(P)
  <2>1. P = 1..Cardinality(D) /\ Cardinality(D) \in Nat
    BY FS_CardinalityType DEF IsRanking
  <2>. QED  BY <2>1, FS_Interval
<1>4. \A j \in Q : a[j] = b[name[j]]
  <2>1. \A n \in D : Column(weight, R, n) = [r \in R |-> Abs(values[r][n])]
    BY DEF Column
  <2>2. \A n \in D : Magnitude(values, R, n) = b[n]
    BY <2>1 DEF Magnitude, Total
  <2> HIDE DEF b
  <2>3. \A j \in P : columns[j].name \in D /\ columns[j].magnitude = Magnitude(values, R, columns[j].name)
    BY DEF IsRanking
  <2>. QED  BY <2>2, <2>3
<1>5. Renames(name, Q, C)
  BY DEF IsRanking, Renames
<1>6. \A n \in C : b[n] = SumOf(Column(weight, R, n), R)
  OBVIOUS
<1>7. /\ \A r \in R : d[r] = SumOf(weight[r], C)
      /\ \A r \in R : e[r] = Abs(total[r]) /\ total[r] = SumOf(values[r], C)
  BY DEF SummedByRow
<1>8. Apart(columns, C) = SumOf(a, Q)
  BY DEF Apart
<1>9. Q \subseteq P
  OBVIOUS
<1> HIDE DEF P, Q, a, b, d, e, name, weight
<1>10. ASSUME NEW r \in R
       PROVE  /\ Numbers(C, weight[r])
              /\ Abs(SumOf(values[r], C)) <= SumOf(weight[r], C)
              /\ Abs(SumOf(values[r], C)) < SumOf(weight[r], C) <=>
                   \E x, y \in C : values[r][x] > 0 /\ values[r][y] < 0
  <2> DEFINE v == values[r]
             w == weight[r]
  <2>1. Numbers(C, v) /\ \A n \in C : w[n] = Abs(v[n])
    BY <1>1, <1>2
  <2> HIDE DEF v, w
  <2>2. /\ Numbers(C, w)
        /\ Abs(SumOf(v, C)) <= SumOf(w, C)
        /\ Abs(SumOf(v, C)) < SumOf(w, C) <=> \E x, y \in C : v[x] > 0 /\ v[y] < 0
    BY <2>1, SumAbs
  <2>. QED  BY <2>2 DEF v, w
<1>11. Numbers(R, d) /\ Numbers(C, b) /\ SumOf(d, R) = SumOf(b, C)
  <2>1. SummedByRow(weight, R, C, d) /\ SummedByColumn(weight, R, C, b)
    BY <1>6, <1>7, <1>10 DEF SummedByRow, SummedByColumn
  <2>. QED  BY <1>1, <2>1, SumTwice
<1>12. Numbers(R, e)
  <2>1. \A r \in R : total[r] \in Int
    BY <1>1, SumType DEF SummedByRow
  <2>. QED  BY <1>7, <2>1 DEF Numbers, Abs
<1>13. /\ SumOf(e, R) <= SumOf(d, R)
       /\ SumOf(e, R) < SumOf(d, R) <=> \E r \in R : e[r] < d[r]
  <2>1. \A r \in R : e[r] <= d[r]
    BY <1>7, <1>10
  <2>. QED  BY <1>11, <1>12, <2>1, SumLess
<1>14. (\E r \in R : e[r] < d[r]) <=> Cancelling(values, R, C)
  BY <1>7, <1>10 DEF Cancelling
<1>15. SumOf(a, Q) = SumOf(b, C)
  <2>1. Numbers(Q, a)
    BY <1>3, <1>4, <1>5, <1>9, <1>11, FS_Subset DEF Numbers, Renames
  <2>. QED  BY <1>4, <1>5, <1>11, <2>1, SumRename
<1>. QED  BY <1>8, <1>11, <1>13, <1>14, <1>15 DEF e

-----------------------------------------------------------------------------
(***************************************************************************)
(* Explanation: the points and the drivers of a record.                    *)
(***************************************************************************)

\* The first of a sequence.
LEMMA FirstFacts ==
  ASSUME NEW n \in Nat, NEW S, NEW s, s \in [1..n -> S], NEW m \in 0..n
  PROVE  /\ SubSeq(s, 1, m) \in [1..m -> S]
         /\ \A i \in 1..m : SubSeq(s, 1, m)[i] = s[i]
         /\ Len(SubSeq(s, 1, m)) = m
<1>1. s \in Seq(S) /\ Len(s) = n
  OBVIOUS
<1>2. /\ SubSeq(s, 1, m) \in Seq(S) /\ Len(SubSeq(s, 1, m)) = m
      /\ \A i \in 1..m : SubSeq(s, 1, m)[i] = s[i]
  BY <1>1
<1> DEFINE first == SubSeq(s, 1, m)
<1>3. first \in Seq(S) /\ Len(first) = m
  BY <1>2
<1> HIDE DEF first
<1>4. first \in [1..Len(first) -> S]
  BY <1>3
<1>. QED  BY <1>2, <1>3, <1>4 DEF first

\* The drivers of a direction, that push by at most as much as the one before.
Stronger(push, a, b) == push[a] > push[b] \/ (push[a] = push[b] /\ a < b)

AreDrivers(list, push, D, top_k) ==
  /\ \A i \in DOMAIN list : list[i] \in D /\ push[list[i]] > 0
  /\ \A i, j \in DOMAIN list : i < j => Stronger(push, list[i], list[j])
  /\ \A s \in D \ {list[i] : i \in DOMAIN list} :
       push[s] > 0 => /\ Len(list) = top_k
                      /\ \A i \in DOMAIN list : Stronger(push, list[i], s)

\* Drivers finds them.
LEMMA DriversFacts ==
  ASSUME NEW D, D \subseteq Int, IsFiniteSet(D), NEW values \in [D -> Int],
         NEW sign \in {1, -1}, NEW top_k \in Nat,
         NEW push, \A s \in D : push[s] = sign * values[s]
  PROVE  AreDrivers(Drivers(values, sign, top_k), push, D, top_k)
<1> DEFINE P == {s \in D : sign * values[s] > 0}
           weight == [s \in P |-> sign * values[s]]
           order == Ranked(P, weight)
           n == Cardinality(P)
           m == Min({top_k, n})
           list == SubSeq(order, 1, m)
<1>1. Drivers(values, sign, top_k) = list
  BY DEF Drivers
<1>2. \A s \in D : push[s] \in Int /\ values[s] \in Int
  OBVIOUS
<1>3. P = {s \in D : push[s] > 0} /\ \A s \in P : weight[s] = push[s]
  OBVIOUS
<1>4. P \subseteq D
  OBVIOUS
<1>5. IsFiniteSet(P) /\ n \in Nat
  BY <1>4, FS_Subset, FS_CardinalityType
<1> HIDE DEF P, weight
<1>6. IsOrdered(P, Negated(P, weight), order)
  <2>1. \A s \in P : weight[s] \in Int
    BY <1>2, <1>3, <1>4
  <2>2. P \subseteq Int
    BY <1>4
  <2>. QED  BY <1>5, <2>1, <2>2, RankedFacts
<1> HIDE DEF order, n
<1>7. /\ order \in [1..n -> P]
      /\ \A i \in P : \E k \in 1..n : order[k] = i
  BY <1>6 DEF IsOrdered, n
<1>8. \A k, l \in 1..n : k < l => Stronger(push, order[k], order[l])
  <2> SUFFICES ASSUME NEW k \in 1..n, NEW l \in 1..n, k < l
               PROVE  Stronger(push, order[k], order[l])
    OBVIOUS
  <2> DEFINE a == order[k]
             b == order[l]
  <2>1. a \in P /\ b \in P
    BY <1>7
  <2>2. \/ Negated(P, weight)[a] < Negated(P, weight)[b]
        \/ Negated(P, weight)[a] = Negated(P, weight)[b] /\ a < b
    BY <1>6 DEF IsOrdered, n
  <2> HIDE DEF a, b
  <2>3. -push[a] < -push[b] \/ (-push[a] = -push[b] /\ a < b)
    BY <1>3, <2>1, <2>2 DEF Negated
  <2>4. push[a] \in Int /\ push[b] \in Int
    BY <1>2, <1>4, <2>1
  <2>5. push[a] > push[b] \/ (push[a] = push[b] /\ a < b)
    BY <2>3, <2>4
  <2>. QED  BY <2>5 DEF a, b, Stronger
<1>9. m = (IF top_k <= n THEN top_k ELSE n)
  BY <1>5, MinOfTwo
<1>10. m \in 0..n
  BY <1>5, <1>9
<1> HIDE DEF m
<1>11. /\ list \in [1..m -> P]
       /\ \A i \in 1..m : list[i] = order[i]
       /\ Len(list) = m
  BY <1>5, <1>7, <1>10, FirstFacts
<1> HIDE DEF list
<1>12. \A i \in DOMAIN list : list[i] \in D /\ push[list[i]] > 0
  BY <1>3, <1>4, <1>11
<1>13. \A i, j \in DOMAIN list : i < j => Stronger(push, list[i], list[j])
  <2>1. DOMAIN list = 1..m /\ \A i \in 1..m : i \in 1..n
    BY <1>5, <1>10, <1>11
  <2>. QED  BY <1>8, <1>11, <2>1
<1>14. ASSUME NEW s \in D, s \notin {list[i] : i \in DOMAIN list}, push[s] > 0
       PROVE  /\ Len(list) = top_k
              /\ \A i \in DOMAIN list : Stronger(push, list[i], s)
  <2>1. PICK k \in 1..n : order[k] = s
    BY <1>3, <1>7, <1>14
  <2>2. ~ (k \in 1..m)
    BY <1>11, <1>14, <2>1
  <2>3. m < k /\ m = top_k
    BY <1>5, <1>9, <1>10, <2>1, <2>2
  <2>4. \A i \in 1..m : i \in 1..n /\ i < k
    BY <1>5, <1>10, <2>1, <2>3
  <2>5. \A i \in 1..m : Stronger(push, order[i], order[k])
    BY <1>8, <2>4
  <2>. QED  BY <1>11, <2>1, <2>3, <2>5
<1>15. AreDrivers(list, push, D, top_k)
  BY <1>12, <1>13, <1>14 DEF AreDrivers
<1>. QED  BY <1>1, <1>15

\* The score is linear in the margin, so that points add up.
LEMMA LinearFacts ==
  ASSUME NEW f \in Int, NEW x \in Int, NEW y \in Int, NEW k \in Int, k = 0 - f
  PROVE  /\ -f * x = k * x /\ f * x \in Int /\ k * x \in Int
         /\ f * (x + y) = f * x + f * y
         /\ k * y = -(f * y)
OBVIOUS

\* The points of a score that is not clipped add up to the score.
LEMMA DecomposeFacts ==
  ASSUME NEW D, NEW values, Numbers(D, values), values \in [D -> Int],
         NEW base \in Int, NEW identity \in BOOLEAN
  PROVE  ~ Decompose(base, values, base + Total(values), identity).failed
<1> DEFINE margin == base + Total(values)
           k == 0 - Factor
           points == [s \in D |-> -Factor * values[s]]
<1>1. Factor \in Int /\ TopMargin \in Int /\ Offset \in Int /\ k \in Int
  BY ExplanationAssumption
<1>2. Total(values) = SumOf(values, D) /\ Total(points) = SumOf(points, D)
  BY DEF Total
<1>3. SumOf(values, D) \in Int
  BY SumType
<1>4. \A s \in D : points[s] = k * values[s]
  <2> SUFFICES ASSUME NEW s \in D PROVE -Factor * values[s] = k * values[s]
    OBVIOUS
  <2>1. values[s] \in Int
    OBVIOUS
  <2>. QED  BY <1>1, <2>1, LinearFacts
<1> SUFFICES ASSUME Supported(margin, identity)
             PROVE  Offset - Factor * base + Total(points) = ScoreOf(margin)
  BY DEF Decompose
<1> HIDE DEF points
<1>5. SumOf(points, D) = k * SumOf(values, D)
  BY <1>1, <1>4, SumTimes
<1>6. margin \in -TopMargin..TopMargin /\ margin \in Int
  BY <1>1, <1>2, <1>3 DEF Supported, Clipped
<1>7. ScoreOf(margin) = Offset - Factor * margin
  <2> HIDE DEF margin
  <2>1. -TopMargin \in Int /\ -TopMargin <= margin /\ margin <= TopMargin
    BY <1>1, <1>6
  <2>2. Min({margin, TopMargin}) = margin
    BY <1>1, <1>6, <2>1, MinOfTwo
  <2>3. Max({-TopMargin, margin}) = margin
    BY <1>6, <2>1, MaxOfTwo
  <2>. QED  BY <2>2, <2>3 DEF ScoreOf
<1> DEFINE v == SumOf(values, D)
<1>8. Total(points) = k * v /\ margin = base + v /\ v \in Int
  BY <1>2, <1>3, <1>5
<1> HIDE DEF v, margin
<1>9. /\ Factor * (base + v) = Factor * base + Factor * v
      /\ k * v = -(Factor * v) /\ Factor * base \in Int
  BY <1>1, <1>8, LinearFacts
<1>10. Factor * v \in Int
  BY <1>1, <1>8
<1>. QED  BY <1>1, <1>7, <1>8, <1>9, <1>10

-----------------------------------------------------------------------------
(***************************************************************************)
(* Explanation: the theorems.                                              *)
(***************************************************************************)

\* What ExplanationAddsUp says of a global explanation.
LEMMA GlobalFacts ==
  ASSUME NEW R, IsFiniteSet(R), 1 \in R, NEW values \in [R -> [Names -> Int]],
         NEW source \in Lineages, NEW family \in Lineages,
         NEW result, result = GlobalImportance(values, source, family)
  PROVE  /\ result # Refused
         /\ SignedTotal(result.columns) = SignedTotal(result.sources)
         /\ SignedTotal(result.sources) = SignedTotal(result.families)
         /\ \A r \in R : \A f \in DOMAIN result.rows[r] :
              result.rows[r][f] = SumOf(values[r], OfFamily(source, family, f))
         /\ \A i \in DOMAIN result.families :
              LET C == OfFamily(source, family, result.families[i].name)
              IN  /\ result.families[i].magnitude <= Apart(result.columns, C)
                  /\ result.families[i].magnitude < Apart(result.columns, C) <=> Cancelling(values, R, C)
<1> DEFINE label == FamilyOf(source, family)
           S == Range(source)
           F == Range(label)
           bySource == [r \in R |-> Aggregate(values[r], source)]
           byFamily == [r \in R |-> Aggregate(bySource[r], label)]
<1>2. ASSUME NEW r \in R
      PROVE  /\ bySource[r] \in [S -> Int] /\ byFamily[r] \in [F -> Int]
             /\ Total(bySource[r]) = Total(values[r])
             /\ Total(byFamily[r]) = Total(bySource[r])
             /\ \A f \in F : byFamily[r][f] = SumOf(values[r], OfFamily(source, family, f))
  <2> DEFINE row == values[r]
  <2>1. row \in [Names -> Int]
    OBVIOUS
  <2> HIDE DEF row
  <2>2. LET a == Aggregate(row, source)
            b == Aggregate(a, label)
        IN  /\ a \in [S -> Int] /\ b \in [F -> Int]
            /\ Total(a) = Total(row) /\ Total(b) = Total(a)
            /\ \A f \in F : b[f] = SumOf(row, OfFamily(source, family, f))
    BY <2>1, LevelFacts
  <2>. QED  BY <2>2 DEF row
<1>3. IsFiniteSet(S) /\ S \subseteq Int /\ IsFiniteSet(F) /\ F \subseteq Int
  <2>1. values[1] \in [Names -> Int]
    OBVIOUS
  <2>2. IsFiniteSet(S) /\ S \subseteq Names /\ IsFiniteSet(F) /\ F \subseteq Names
    BY <2>1, LevelFacts
  <2>. QED  BY <2>2, NamesFinite
<1>4. DOMAIN values = R /\ label = [s \in S |-> family[s]]
  BY DEF FamilyOf
<1>5. \A r \in R : TotalKept(values[r], source) /\ TotalKept(bySource[r], label)
  BY <1>2 DEF TotalKept
<1>6. result = [columns |-> Importance(values), sources |-> Importance(bySource),
                 families |-> Importance(byFamily), rows |-> byFamily]
  BY <1>4, <1>5 DEF GlobalImportance
<1> DEFINE columns == Importance(values)
           families == Importance(byFamily)
           sources == Importance(bySource)
<1>7. /\ result.columns = columns /\ result.sources = sources
      /\ result.families = families /\ result.rows = byFamily
  BY <1>6
<1>16. result # Refused
  <2>1. "rows" \in DOMAIN result
    BY <1>6
  <2>. QED  BY <2>1 DEF Refused
<1>8. bySource \in [R -> [S -> Int]] /\ byFamily \in [R -> [F -> Int]]
  BY <1>2
<1>9. \A r \in R : byFamily[r] = byFamily[r] /\ DOMAIN byFamily[r] = F
  BY <1>2
<1> HIDE DEF S, F, bySource, byFamily, columns, families, sources
<1>10. IsRanking(columns, values, R, Names)
  BY NamesFinite, ImportanceFacts DEF columns
<1>11. IsRanking(sources, bySource, R, S)
  BY <1>3, <1>8, ImportanceFacts DEF sources
<1>12. IsRanking(families, byFamily, R, F)
  BY <1>3, <1>8, ImportanceFacts DEF families
<1>13. /\ SignedTotal(columns) = SignedTotal(sources)
       /\ SignedTotal(sources) = SignedTotal(families)
  <2> DEFINE total == [r \in R |-> Total(values[r])]
  <2>1. /\ TotalsOfRows(values, R, total) /\ TotalsOfRows(bySource, R, total)
        /\ TotalsOfRows(byFamily, R, total)
    BY <1>2 DEF TotalsOfRows
  <2> HIDE DEF total
  <2>2. SignedTotal(columns) = SumOf(total, R)
    <3>1. IsFiniteSet(Names)
      BY NamesFinite
    <3>2. TotalsOfRows(values, R, total)
      BY <2>1
    <3>. QED  BY <1>10, <3>1, <3>2, RankingTotal
  <2>3. SignedTotal(sources) = SumOf(total, R)
    <3>1. IsFiniteSet(S)
      BY <1>3
    <3>2. TotalsOfRows(bySource, R, total)
      BY <2>1
    <3>3. bySource \in [R -> [S -> Int]]
      BY <1>8
    <3>. QED  BY <1>11, <3>1, <3>2, <3>3, RankingTotal
  <2>4. SignedTotal(families) = SumOf(total, R)
    <3>1. IsFiniteSet(F)
      BY <1>3
    <3>2. TotalsOfRows(byFamily, R, total)
      BY <2>1
    <3>3. byFamily \in [R -> [F -> Int]]
      BY <1>8
    <3>. QED  BY <1>12, <3>1, <3>2, <3>3, RankingTotal
  <2>. QED  BY <2>2, <2>3, <2>4
<1>14. \A r \in R : \A f \in DOMAIN byFamily[r] :
         byFamily[r][f] = SumOf(values[r], OfFamily(source, family, f))
  BY <1>2, <1>9
<1>15. ASSUME NEW i \in DOMAIN families, NEW C,
              C = OfFamily(source, family, families[i].name)
       PROVE  /\ families[i].magnitude <= Apart(columns, C)
              /\ families[i].magnitude < Apart(columns, C) <=> Cancelling(values, R, C)
  <2> DEFINE f == families[i].name
             total == [r \in R |-> byFamily[r][f]]
             whole == SumOf([r \in R |-> Abs(total[r])], R)
  <2>1. f \in F /\ families[i].magnitude = Magnitude(byFamily, R, f)
    BY <1>12 DEF IsRanking
  <2>2. whole = Magnitude(byFamily, R, f)
    <3>1. [r \in R |-> Abs(total[r])] = [r \in R |-> Abs(byFamily[r][f])]
      OBVIOUS
    <3>. QED  BY <3>1 DEF Magnitude, Total
  <2>3. C \subseteq Names
    BY <1>15 DEF OfFamily
  <2>4. SummedByRow(values, R, C, total)
    <3>1. \A r \in R : total[r] = SumOf(values[r], C)
      BY <1>2, <1>15, <2>1
    <3>2. \A r \in R : Numbers(C, values[r])
      BY <2>3, NamesFinite, FS_Subset DEF Numbers
    <3>. QED  BY <3>1, <3>2 DEF SummedByRow
  <2> HIDE DEF total, f
  <2>5. /\ whole <= Apart(columns, C)
        /\ whole < Apart(columns, C) <=> Cancelling(values, R, C)
    BY <1>10, <2>3, <2>4, NamesFinite, ApartFacts
  <2>. QED  BY <2>1, <2>2, <2>5
<1>. QED  BY <1>7, <1>13, <1>14, <1>15, <1>16

\* What both properties say of an explained record.
LEMMA RecordFacts ==
  ASSUME NEW t, t.values \in [Names -> Int], t.source \in Lineages,
         t.base \in Int, t.identity \in BOOLEAN, t.top_k \in Nat,
         NEW result, result = ExplainRecord(t)
  PROVE  /\ result = Refused <=> ~ t.identity
         /\ result # Refused =>
              LET values == result.contributions
                  D == DOMAIN values
              IN  /\ t.base + Total(values) = result.margin
                  /\ result.supported <=> ~ Clipped(t.base + Total(t.values))
                  /\ \A sign \in {1, -1} :
                       AreDrivers(IF sign = 1 THEN result.increasing ELSE result.decreasing,
                                  [s \in D |-> sign * values[s]], D, t.top_k)
<1> DEFINE D == Range(t.source)
           values == Aggregate(t.values, t.source)
           margin == t.base + Total(t.values)
           decomposition == Decompose(t.base, values, margin, t.identity)
           record == [margin |-> margin, score |-> ScoreOf(margin),
                      supported |-> decomposition.supported, contributions |-> values,
                      increasing |-> Drivers(values, 1, t.top_k),
                      decreasing |-> Drivers(values, -1, t.top_k)]
<1>1. /\ values \in [D -> Int] /\ IsFiniteSet(D) /\ D \subseteq Names
      /\ Total(values) = Total(t.values)
  BY LevelFacts
<1>2. TotalKept(t.values, t.source)
  BY <1>1 DEF TotalKept
<1>3. D \subseteq Int
  BY <1>1, NamesFinite
<1> HIDE DEF values, D
<1>4. Numbers(D, values)
  BY <1>1 DEF Numbers
<1>5. ~ decomposition.failed
  <2>1. ~ Decompose(t.base, values, t.base + Total(values), t.identity).failed
    BY <1>1, <1>4, DecomposeFacts
  <2>. QED  BY <1>1, <2>1
<1>6. decomposition.supported = Supported(margin, t.identity)
  BY DEF Decompose
<1>7. result = IF ~ t.identity THEN Refused ELSE record
  BY <1>2, <1>5 DEF ExplainRecord, values
<1> HIDE DEF decomposition, margin
<1>8. record # Refused
  BY DEF Refused
<1> SUFFICES ASSUME t.identity
             PROVE  /\ result # Refused
                    /\ t.base + Total(result.contributions) = result.margin
                    /\ result.supported <=> ~ Clipped(t.base + Total(t.values))
                    /\ \A sign \in {1, -1} :
                         AreDrivers(IF sign = 1 THEN result.increasing ELSE result.decreasing,
                                    [s \in D |-> sign * values[s]], D, t.top_k)
                    /\ result.contributions = values /\ DOMAIN values = D
  BY <1>7
<1>9. /\ result.contributions = values /\ result.margin = margin
      /\ result.supported = decomposition.supported
      /\ result.increasing = Drivers(values, 1, t.top_k)
      /\ result.decreasing = Drivers(values, -1, t.top_k)
  BY <1>7
<1>10. ASSUME NEW sign \in {1, -1}
       PROVE  AreDrivers(IF sign = 1 THEN result.increasing ELSE result.decreasing,
                         [s \in D |-> sign * values[s]], D, t.top_k)
  <2> DEFINE push == [s \in D |-> sign * values[s]]
             list == IF sign = 1 THEN result.increasing ELSE result.decreasing
  <2>1. \A s \in D : push[s] = sign * values[s]
    OBVIOUS
  <2>2. list = Drivers(values, sign, t.top_k)
    BY <1>9
  <2> HIDE DEF push, list
  <2>3. AreDrivers(Drivers(values, sign, t.top_k), push, D, t.top_k)
    BY <1>1, <1>3, <2>1, DriversFacts
  <2>. QED  BY <2>2, <2>3 DEF push, list
<1>. QED  BY <1>1, <1>6, <1>7, <1>8, <1>9, <1>10 DEF Supported, margin

\* A task of Explanation, unanswered or answered by what the code makes of it.
ExplanationInv ==
  /\ task \in GlobalTasks \cup LocalTasks
  /\ Answered("importance") =>
       answer = GlobalImportance(task.values, task.source, task.family)
  /\ Answered("record") => answer = ExplainRecord(task)

\* An answer of Explanation is what the code makes of its task, which stays one
\* of the inputs (global_importance, explain_record).
THEOREM ExplanationInvariant == ExplanationSpec => []ExplanationInv
<1>1. ExplanationInit => ExplanationInv
  BY DEF ExplanationInit, ExplanationInv, Answered
<1>2. ExplanationInv /\ [ExplanationNext]_vars => ExplanationInv'
  <2> SUFFICES ASSUME ExplanationInv, [ExplanationNext]_vars PROVE ExplanationInv'
    OBVIOUS
  <2>1. CASE ExplainGlobally
    BY <2>1 DEF ExplanationInv, ExplainGlobally, Answered
  <2>2. CASE ExplainLocally
    BY <2>2 DEF ExplanationInv, ExplainLocally, Answered
  <2>3. CASE UNCHANGED vars
    BY <2>3 DEF ExplanationInv, vars, Answered
  <2>. QED  BY <2>1, <2>2, <2>3 DEF ExplanationNext
<1>. QED  BY <1>1, <1>2, PTL DEF ExplanationSpec

\* What the inputs of a task are.
LEMMA TaskFacts ==
  ASSUME task \in GlobalTasks \cup LocalTasks
  PROVE  /\ task.kind = "importance" =>
              /\ task.values \in [1..GlobalRows -> [Names -> Int]]
              /\ task.source \in Lineages /\ task.family \in Lineages
         /\ task.kind = "record" =>
              /\ task.values \in [Names -> Int] /\ task.source \in Lineages
              /\ task.base \in Int /\ task.identity \in BOOLEAN /\ task.top_k \in Nat
<1>1. ASSUME task \in GlobalTasks
      PROVE  /\ task.kind = "importance"
             /\ task.values \in [1..GlobalRows -> [Names -> Int]]
             /\ task.source \in Lineages /\ task.family \in Lineages
  <2>1. /\ task.kind = "importance" /\ task.source \in Lineages /\ task.family \in Lineages
        /\ task.values \in [1..GlobalRows -> [Names -> -1..1]]
    BY <1>1 DEF GlobalTasks
  <2>. QED  BY <2>1
<1>2. ASSUME task \in LocalTasks
      PROVE  /\ task.kind = "record"
             /\ task.values \in [Names -> Int] /\ task.source \in Lineages
             /\ task.base \in Int /\ task.identity \in BOOLEAN /\ task.top_k \in Nat
  <2>1. /\ task.kind = "record" /\ task.source \in Lineages /\ task.identity \in BOOLEAN
        /\ task.values \in Contributions /\ task.base \in {0, TopMargin} /\ task.top_k \in 1..2
    BY <1>2 DEF LocalTasks
  <2>2. task.values \in [Names -> Int]
    BY <2>1, ExplanationAssumption DEF Contributions
  <2>. QED  BY <2>1, <2>2, ExplanationAssumption
<1>. QED  BY <1>1, <1>2

\* For any number of columns and rows and any lineage, the levels of a global
\* explanation add up and its families weigh less than their columns exactly where
\* these cancel; an explained record gives the margin from its sources, and no
\* check on the way fails (aggregate, global_importance, decompose,
\* explain_record).
THEOREM ExplanationsAddUp == ExplanationSpec => []ExplanationAddsUp
<1>1. ExplanationInv => ExplanationAddsUp
  <2> SUFFICES ASSUME ExplanationInv PROVE ExplanationAddsUp
    OBVIOUS
  <2>1. ASSUME Answered("importance")
        PROVE  LET of(f) == OfFamily(task.source, task.family, f)
               IN  /\ answer # Refused
                   /\ SignedTotal(answer.columns) = SignedTotal(answer.sources)
                   /\ SignedTotal(answer.sources) = SignedTotal(answer.families)
                   /\ \A r \in 1..GlobalRows : \A f \in DOMAIN answer.rows[r] :
                        answer.rows[r][f] = SumOf(task.values[r], of(f))
                   /\ \A i \in DOMAIN answer.families :
                        LET C == of(answer.families[i].name)
                        IN  /\ answer.families[i].magnitude <= Apart(answer.columns, C)
                            /\ answer.families[i].magnitude < Apart(answer.columns, C)
                                 <=> Cancelling(task.values, 1..GlobalRows, C)
    <3> DEFINE R == 1..GlobalRows
    <3>1. IsFiniteSet(R) /\ 1 \in R
      <4>1. 1 \in Int /\ GlobalRows \in Int /\ 1 <= GlobalRows
        BY ExplanationAssumption
      <4>2. IsFiniteSet(1..GlobalRows)
        BY <4>1, FS_Interval
      <4>. QED  BY <4>1, <4>2
    <3>2. /\ task.values \in [R -> [Names -> Int]]
          /\ task.source \in Lineages /\ task.family \in Lineages
          /\ answer = GlobalImportance(task.values, task.source, task.family)
      BY <2>1, TaskFacts DEF ExplanationInv, Answered
    <3> HIDE DEF R
    <3>3. /\ answer # Refused
          /\ SignedTotal(answer.columns) = SignedTotal(answer.sources)
          /\ SignedTotal(answer.sources) = SignedTotal(answer.families)
          /\ \A r \in R : \A f \in DOMAIN answer.rows[r] :
               answer.rows[r][f] = SumOf(task.values[r], OfFamily(task.source, task.family, f))
          /\ \A i \in DOMAIN answer.families :
               LET C == OfFamily(task.source, task.family, answer.families[i].name)
               IN  /\ answer.families[i].magnitude <= Apart(answer.columns, C)
                   /\ answer.families[i].magnitude < Apart(answer.columns, C)
                        <=> Cancelling(task.values, R, C)
      BY <3>1, <3>2, GlobalFacts
    <3>. QED  BY <3>3 DEF R
  <2>2. ASSUME Answered("record")
        PROVE  /\ answer = Refused <=> ~task.identity
               /\ answer # Refused =>
                    /\ task.base + Total(answer.contributions) = answer.margin
                    /\ answer.supported <=> ~Clipped(task.base + Total(task.values))
    <3>1. /\ task.values \in [Names -> Int] /\ task.source \in Lineages
          /\ task.base \in Int /\ task.identity \in BOOLEAN /\ task.top_k \in Nat
          /\ answer = ExplainRecord(task)
      BY <2>2, TaskFacts DEF ExplanationInv, Answered
    <3>. QED  BY <3>1, RecordFacts
  <2>. QED  BY <2>1, <2>2 DEF ExplanationAddsUp, OfFamily, Apart, Cancelling
<1>. QED  BY <1>1, ExplanationInvariant, PTL

\* For any number of columns and any lineage, the drivers of each direction are
\* the strongest sources that push in it, all of them if there is room
\* (reason_codes).
THEOREM StrongestDrivers == ExplanationSpec => []DriversAreTheStrongest
<1>1. ExplanationInv => DriversAreTheStrongest
  <2> SUFFICES ASSUME ExplanationInv, Answered("record"), answer # Refused,
                      NEW sign \in {1, -1}
               PROVE  LET list == IF sign = 1 THEN answer.increasing ELSE answer.decreasing
                          push == [s \in DOMAIN answer.contributions |->
                                     sign * answer.contributions[s]]
                          listed == {list[i] : i \in DOMAIN list}
                      IN  /\ \A s \in listed : push[s] > 0
                          /\ \A i, j \in DOMAIN list : i < j => Stronger(push, list[i], list[j])
                          /\ \A s \in DOMAIN push \ listed :
                               push[s] > 0 => /\ Len(list) = task.top_k
                                              /\ \A l \in listed : Stronger(push, l, s)
    BY DEF DriversAreTheStrongest, Stronger
  <2> DEFINE D == DOMAIN answer.contributions
             list == IF sign = 1 THEN answer.increasing ELSE answer.decreasing
             push == [s \in D |-> sign * answer.contributions[s]]
  <2>1. /\ task.values \in [Names -> Int] /\ task.source \in Lineages
        /\ task.base \in Int /\ task.identity \in BOOLEAN /\ task.top_k \in Nat
        /\ answer = ExplainRecord(task)
    BY TaskFacts DEF ExplanationInv, Answered
  <2>3. AreDrivers(list, push, D, task.top_k)
    BY <2>1, RecordFacts
  <2>4. DOMAIN push = D
    OBVIOUS
  <2> HIDE DEF list, push, D
  <2>. QED  BY <2>3, <2>4 DEF AreDrivers, list, push, D
<1>. QED  BY <1>1, ExplanationInvariant, PTL

=============================================================================
