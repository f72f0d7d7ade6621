------------------------------ MODULE DataLemmas ------------------------------
(***************************************************************************)
(* What the proofs of several components need to know of their data, with  *)
(* no word of what it is the data of.  The library's induction theorems    *)
(* take a predicate, which the provers cannot instantiate; induction is    *)
(* done here for sets, by a least counterexample.  What SumFunctionOnSet   *)
(* sums up is a fold, by the order in which it chooses the elements.       *)
(***************************************************************************)
EXTENDS Integers, Functions, SequenceTheorems, FiniteSetTheorems,
        WellFoundedInduction, TLAPS

(* Induction over the naturals, for a set instead of a predicate.          *)
LEMMA NaturalsClosed ==
  ASSUME NEW Good, 0 \in Good, \A n \in Nat : n \in Good => n + 1 \in Good
  PROVE  Nat \subseteq Good
<1>1. SUFFICES ASSUME Nat \ Good # {}
               PROVE  FALSE
  OBVIOUS
<1>2. PICK least \in Nat \ Good : \A n \in Nat \ Good : ~(n < least)
  <2>1. PICK x \in Nat \ Good :
          \A n \in Nat \ Good : ~(<<n, x>> \in OpToRel(<, Nat))
    <3>1. Nat \ Good \subseteq Nat
      OBVIOUS
    <3>. QED
      BY <1>1, <3>1, NatLessThanWellFounded, WFMin
  <2>2. \A n \in Nat \ Good : n < x => <<n, x>> \in OpToRel(<, Nat)
    BY DEF OpToRel
  <2>3. \A n \in Nat \ Good : ~(n < x)
    BY <2>1, <2>2
  <2>. QED
    BY <2>3
<1>3. least # 0 /\ least - 1 \in Nat /\ least - 1 < least
  OBVIOUS
<1>4. least - 1 \in Good
  BY <1>2, <1>3
<1>. QED
  BY <1>3, <1>4

(* Induction over the finite subsets of a set: a set of them that holds    *)
(* every subset once it holds those with an element less is all of them.   *)
LEMMA SubsetsClosed ==
  ASSUME NEW U, IsFiniteSet(U), NEW Good,
         \A T \in SUBSET U : (\A x \in T : T \ {x} \in Good) => T \in Good
  PROVE  SUBSET U \subseteq Good
<1>. DEFINE Small == {n \in Nat : \A T \in SUBSET U : Cardinality(T) <= n => T \in Good}
<1>1. \A T \in SUBSET U : IsFiniteSet(T) /\ Cardinality(T) \in Nat
  BY FS_Subset, FS_CardinalityType
<1>2. 0 \in Small
  <2>1. ASSUME NEW T \in SUBSET U, Cardinality(T) <= 0
        PROVE  T \in Good
    <3>1. T = {}
      BY <1>1, <2>1, FS_EmptySet
    <3>. QED
      BY <3>1
  <2>. QED
    BY <2>1
<1>3. ASSUME NEW n \in Nat, n \in Small
      PROVE  n + 1 \in Small
  <2>1. ASSUME NEW T \in SUBSET U, Cardinality(T) <= n + 1
        PROVE  T \in Good
    <3>1. ASSUME NEW x \in T
          PROVE  T \ {x} \in Good
      <4>1. Cardinality(T \ {x}) = Cardinality(T) - 1
        BY <1>1, FS_RemoveElement
      <4>2. T \ {x} \in SUBSET U /\ Cardinality(T \ {x}) <= n
        BY <1>1, <2>1, <4>1
      <4>. QED
        BY <1>3, <4>2
    <3>. QED
      BY <3>1
  <2>. QED
    BY <2>1
<1>. HIDE DEF Small
<1>4. Nat \subseteq Small
  BY <1>2, <1>3, NaturalsClosed
<1>5. ASSUME NEW T \in SUBSET U
      PROVE  T \in Good
  <2>1. Cardinality(T) \in Small
    BY <1>1, <1>4
  <2>. QED
    BY <1>1, <2>1 DEF Small
<1>. QED
  BY <1>5

-----------------------------------------------------------------------------
(* Sums                                                                    *)

(* How SumFunctionOnSet goes about it: it takes an element out, sums up the*)
(* rest, and is done when there is none.                                   *)
ChosenIn(S) == CHOOSE x \in S : TRUE

SumRecursion(f, T) ==
  SumFunctionOnSet(f, T) =
    IF T = {} THEN 0 ELSE f[ChosenIn(T)] + SumFunctionOnSet(f, T \ {ChosenIn(T)})

(* It is well-defined.                                                     *)
LEMMA SumUnfolds ==
  ASSUME NEW f, NEW S, IsFiniteSet(S)
  PROVE  SumRecursion(f, S)
<1>. DEFINE Step(g, s) == IF s = {} THEN 0 ELSE f[ChosenIn(s)] + g[s \ {ChosenIn(s)}]
            Whole(g, T) == g = [s \in SUBSET T |-> Step(g, s)]
            iter(T) == CHOOSE g : Whole(g, T)
            Good == {T \in SUBSET S : \A s \in SUBSET T : SumRecursion(f, s)}
<1>1. \A T : SumFunctionOnSet(f, T) = iter(T)[T]
  BY DEF SumFunctionOnSet, FoldFunctionOnSet, MapThenFoldSet, ChosenIn
<1>2. ASSUME NEW T \in SUBSET S, \A x \in T : T \ {x} \in Good
      PROVE  T \in Good
  <2>1. \A s \in SUBSET T : s # T => SumRecursion(f, s)
    BY <1>2
  <2>. DEFINE h == [s \in SUBSET T |-> Step([r \in SUBSET T |-> SumFunctionOnSet(f, r)], s)]
  <2>2. \A s \in SUBSET T : s # {} => ChosenIn(s) \in s
    BY DEF ChosenIn
  <2>3. \A s \in SUBSET T : s # T => h[s] = SumFunctionOnSet(f, s)
    BY <2>1, <2>2 DEF SumRecursion
  <2>4. Whole(h, T)
    BY <2>2, <2>3
  <2>5. Whole(iter(T), T)
    BY <2>4
  <2>6. SUBSET T \subseteq {s \in SUBSET T : iter(T)[s] = h[s]}
    <3>. DEFINE Same == {s \in SUBSET T : iter(T)[s] = h[s]}
    <3>1. ASSUME NEW s \in SUBSET T, \A x \in s : s \ {x} \in Same
          PROVE  s \in Same
      <4>1. iter(T)[s] = Step(iter(T), s) /\ h[s] = Step(h, s)
        BY <2>4, <2>5
      <4>2. s # {} => iter(T)[s \ {ChosenIn(s)}] = h[s \ {ChosenIn(s)}]
        BY <2>2, <3>1
      <4>. QED
        BY <4>1, <4>2
    <3>2. IsFiniteSet(T)
      BY FS_Subset
    <3>. HIDE DEF Same
    <3>3. SUBSET T \subseteq Same
      BY <3>1, <3>2, SubsetsClosed
    <3>. QED
      BY <3>3 DEF Same
  <2>7. SumRecursion(f, T)
    BY <1>1, <2>2, <2>6 DEF SumRecursion
  <2>. QED
    BY <2>1, <2>7
<1>. HIDE DEF Good
<1>3. SUBSET S \subseteq Good
  BY <1>2, SubsetsClosed
<1>. QED
  BY <1>3 DEF Good

(* There is nothing in an empty sum.                                       *)
LEMMA SumOverNone ==
  ASSUME NEW f
  PROVE  SumFunctionOnSet(f, {}) = 0
BY SumUnfolds, FS_EmptySet DEF SumRecursion

(* What is summed up is all that counts.                                   *)
LEMMA SumIsOfTheSame ==
  ASSUME NEW S, IsFiniteSet(S), NEW f, NEW g, \A x \in S : f[x] = g[x]
  PROVE  SumFunctionOnSet(f, S) = SumFunctionOnSet(g, S)
<1>. DEFINE Good == {T \in SUBSET S : SumFunctionOnSet(f, T) = SumFunctionOnSet(g, T)}
<1>1. ASSUME NEW T \in SUBSET S, \A x \in T : T \ {x} \in Good
      PROVE  T \in Good
  <2>1. SumRecursion(f, T) /\ SumRecursion(g, T)
    BY SumUnfolds, FS_Subset
  <2>2. T # {} => ChosenIn(T) \in T
    BY DEF ChosenIn
  <2>. QED
    BY <1>1, <2>1, <2>2 DEF SumRecursion
<1>. HIDE DEF Good
<1>2. SUBSET S \subseteq Good
  BY <1>1, SubsetsClosed
<1>. QED
  BY <1>2 DEF Good

(* A sum of integers is an integer.                                        *)
LEMMA SumOfIntegers ==
  ASSUME NEW S, IsFiniteSet(S), NEW f, \A x \in S : f[x] \in Int
  PROVE  SumFunctionOnSet(f, S) \in Int
<1>. DEFINE Good == {T \in SUBSET S : SumFunctionOnSet(f, T) \in Int}
<1>1. ASSUME NEW T \in SUBSET S, \A x \in T : T \ {x} \in Good
      PROVE  T \in Good
  <2>1. SumRecursion(f, T)
    BY SumUnfolds, FS_Subset
  <2>2. T # {} => ChosenIn(T) \in T
    BY DEF ChosenIn
  <2>. QED
    BY <1>1, <2>1, <2>2 DEF SumRecursion
<1>. HIDE DEF Good
<1>2. SUBSET S \subseteq Good
  BY <1>1, SubsetsClosed
<1>. QED
  BY <1>2 DEF Good

(* Any summand can be taken out, not only the one the fold chooses.        *)
LEMMA SumWithout ==
  ASSUME NEW S, IsFiniteSet(S), NEW f, \A x \in S : f[x] \in Int, NEW a \in S
  PROVE  SumFunctionOnSet(f, S) = f[a] + SumFunctionOnSet(f, S \ {a})
<1>. DEFINE Sum(T) == SumFunctionOnSet(f, T)
            Good == {T \in SUBSET S : \A x \in T : Sum(T) = f[x] + Sum(T \ {x})}
<1>1. \A T \in SUBSET S : Sum(T) \in Int
  BY SumOfIntegers, FS_Subset
<1>2. ASSUME NEW T \in SUBSET S, \A x \in T : T \ {x} \in Good
      PROVE  T \in Good
  <2>1. ASSUME NEW x \in T
        PROVE  Sum(T) = f[x] + Sum(T \ {x})
    <3>. DEFINE c == ChosenIn(T)
    <3>1. c \in T /\ Sum(T) = f[c] + Sum(T \ {c})
      BY SumUnfolds, FS_Subset, <2>1 DEF SumRecursion, ChosenIn
    <3>. HIDE DEF c
    <3>2. CASE x = c
      BY <3>1, <3>2
    <3>3. CASE x # c
      <4>1. Sum(T \ {c}) = f[x] + Sum((T \ {c}) \ {x})
        BY <1>2, <3>1, <3>3
      <4>2. Sum(T \ {x}) = f[c] + Sum((T \ {x}) \ {c})
        BY <1>2, <3>1, <3>3
      <4>3. (T \ {c}) \ {x} = (T \ {x}) \ {c}
        OBVIOUS
      <4>4. f[x] \in Int /\ f[c] \in Int /\ Sum((T \ {x}) \ {c}) \in Int
        BY <1>1, <2>1, <3>1
      <4>. HIDE DEF Sum
      <4>5. Sum(T) = f[c] + (f[x] + Sum((T \ {x}) \ {c}))
        BY <3>1, <4>1, <4>3
      <4>. QED
        BY <4>2, <4>4, <4>5
    <3>. QED
      BY <3>2, <3>3
  <2>. QED
    BY <2>1
<1>. HIDE DEF Good
<1>3. SUBSET S \subseteq Good
  BY <1>2, SubsetsClosed
<1>. QED
  BY <1>3 DEF Good

(* A sum of naturals is a natural.                                         *)
LEMMA SumOfNaturals ==
  ASSUME NEW S, IsFiniteSet(S), NEW f, \A x \in S : f[x] \in Nat
  PROVE  SumFunctionOnSet(f, S) \in Nat
<1>. DEFINE Good == {T \in SUBSET S : SumFunctionOnSet(f, T) \in Nat}
<1>1. ASSUME NEW T \in SUBSET S, \A x \in T : T \ {x} \in Good
      PROVE  T \in Good
  <2>1. SumRecursion(f, T)
    BY SumUnfolds, FS_Subset
  <2>2. T # {} => ChosenIn(T) \in T
    BY DEF ChosenIn
  <2>. QED
    BY <1>1, <2>1, <2>2 DEF SumRecursion
<1>. HIDE DEF Good
<1>2. SUBSET S \subseteq Good
  BY <1>1, SubsetsClosed
<1>. QED
  BY <1>2 DEF Good

(* Adding an element to the set adds its summand.                          *)
LEMMA SumInserted ==
  ASSUME NEW S, IsFiniteSet(S), NEW a, a \notin S, NEW f, \A x \in S \cup {a} : f[x] \in Int
  PROVE  SumFunctionOnSet(f, S \cup {a}) = f[a] + SumFunctionOnSet(f, S)
<1>1. IsFiniteSet(S \cup {a}) /\ (S \cup {a}) \ {a} = S
  BY FS_AddElement
<1>. QED
  BY <1>1, SumWithout

(* A part of naturals sums up to no more than all of them.                 *)
LEMMA SumOfPart ==
  ASSUME NEW T, IsFiniteSet(T), NEW g, \A x \in T : g[x] \in Nat, NEW S \in SUBSET T
  PROVE  SumFunctionOnSet(g, S) <= SumFunctionOnSet(g, T)
<1>. DEFINE Sum(A) == SumFunctionOnSet(g, A)
            Good == {R \in SUBSET T : Sum(T \ R) <= Sum(T)}
<1>1. \A A \in SUBSET T : Sum(A) \in Nat
  BY SumOfNaturals, FS_Subset
<1>2. ASSUME NEW R \in SUBSET T, \A x \in R : R \ {x} \in Good
      PROVE  R \in Good
  <2>1. CASE R = {}
    <3>1. T \ R = T /\ Sum(T) \in Nat
      BY <1>1, <2>1
    <3>. HIDE DEF Sum
    <3>. QED
      BY <3>1
  <2>2. CASE R # {}
    <3>1. PICK c \in R : TRUE
      BY <2>2
    <3>. DEFINE more == T \ (R \ {c})
    <3>2. Sum(more) = g[c] + Sum(more \ {c})
      <4>1. more \in SUBSET T /\ c \in more
        OBVIOUS
      <4>2. IsFiniteSet(more)
        BY <4>1, FS_Subset
      <4>. HIDE DEF more
      <4>3. \A x \in more : g[x] \in Int
        BY <4>1
      <4>. QED
        BY <4>1, <4>2, <4>3, SumWithout
    <3>3. more \ {c} = T \ R
      OBVIOUS
    <3>4. Sum(more) <= Sum(T)
      BY <1>2, <3>1
    <3>5. g[c] \in Nat /\ Sum(T \ R) \in Nat /\ Sum(T) \in Nat /\ Sum(more) \in Nat
      BY <1>1
    <3>. HIDE DEF Sum, more
    <3>6. Sum(more) = g[c] + Sum(T \ R)
      BY <3>2, <3>3
    <3>7. Sum(T \ R) <= Sum(T)
      BY <3>4, <3>5, <3>6
    <3>. QED
      BY <3>7 DEF Sum
  <2>. QED
    BY <2>1, <2>2
<1>. HIDE DEF Good
<1>3. SUBSET T \subseteq Good
  BY <1>2, SubsetsClosed
<1>4. T \ S \in Good /\ T \ (T \ S) = S
  BY <1>3
<1>. QED
  BY <1>4 DEF Good

(* If every summand has one of its own in the other sum that is at least   *)
(* as large, the sum is no larger than the other.                          *)
LEMMA SumAtMost ==
  ASSUME NEW S, IsFiniteSet(S), NEW f, \A x \in S : f[x] \in Nat,
         NEW T, IsFiniteSet(T), NEW g, \A x \in T : g[x] \in Nat,
         NEW pos \in [S -> T], \A x, y \in S : pos[x] = pos[y] => x = y,
         \A x \in S : f[x] <= g[pos[x]]
  PROVE  SumFunctionOnSet(f, S) <= SumFunctionOnSet(g, T)
<1>. DEFINE Image(A) == {pos[x] : x \in A}
            Good == {A \in SUBSET S : SumFunctionOnSet(f, A) <= SumFunctionOnSet(g, Image(A))}
<1>1. \A A \in SUBSET S : IsFiniteSet(A) /\ SumFunctionOnSet(f, A) \in Nat
  BY SumOfNaturals, FS_Subset
<1>2. \A A \in SUBSET S : Image(A) \in SUBSET T
  OBVIOUS
<1>3. \A B \in SUBSET T : IsFiniteSet(B) /\ SumFunctionOnSet(g, B) \in Nat
  BY SumOfNaturals, FS_Subset
<1>4. ASSUME NEW A \in SUBSET S, \A x \in A : A \ {x} \in Good
      PROVE  A \in Good
  <2>1. CASE A = {}
    <3>1. Image(A) = {}
      BY <2>1
    <3>. HIDE DEF Image
    <3>. QED
      BY <2>1, <3>1, SumOverNone
  <2>2. CASE A # {}
    <3>1. PICK c \in A : TRUE
      BY <2>2
    <3>2. SumFunctionOnSet(f, A) = f[c] + SumFunctionOnSet(f, A \ {c})
      BY <1>1, SumWithout
    <3>3. Image(A) \ {pos[c]} = Image(A \ {c}) /\ pos[c] \in Image(A)
      OBVIOUS
    <3>4. SumFunctionOnSet(f, A \ {c}) <= SumFunctionOnSet(g, Image(A \ {c}))
      BY <1>4
    <3>. HIDE DEF Image
    <3>5. SumFunctionOnSet(g, Image(A)) = g[pos[c]] + SumFunctionOnSet(g, Image(A) \ {pos[c]})
      BY <1>2, <1>3, <3>3, SumWithout
    <3>6. /\ f[c] \in Nat /\ g[pos[c]] \in Nat /\ f[c] <= g[pos[c]]
          /\ SumFunctionOnSet(f, A \ {c}) \in Nat
          /\ SumFunctionOnSet(g, Image(A \ {c})) \in Nat
      BY <1>1, <1>2, <1>3
    <3>7. SumFunctionOnSet(g, Image(A)) = g[pos[c]] + SumFunctionOnSet(g, Image(A \ {c}))
      BY <3>3, <3>5
    <3>8. SumFunctionOnSet(f, A) <= SumFunctionOnSet(g, Image(A))
      BY <3>2, <3>4, <3>6, <3>7
    <3>. QED
      BY <3>8
  <2>. QED
    BY <2>1, <2>2
<1>. HIDE DEF Good
<1>5. SUBSET S \subseteq Good
  BY <1>4, SubsetsClosed
<1>6. SumFunctionOnSet(f, S) <= SumFunctionOnSet(g, Image(S))
  BY <1>5 DEF Good
<1>7. SumFunctionOnSet(g, Image(S)) <= SumFunctionOnSet(g, T)
  BY <1>2, SumOfPart
<1>8. SumFunctionOnSet(f, S) \in Nat /\ SumFunctionOnSet(g, Image(S)) \in Nat /\ SumFunctionOnSet(g, T) \in Nat
  BY <1>1, <1>2, <1>3
<1>. QED
  BY <1>6, <1>7, <1>8

(* What is summed up over two disjoint sets is the two sums together.      *)
LEMMA SumDisjoint ==
  ASSUME NEW S, IsFiniteSet(S), NEW T, IsFiniteSet(T), S \cap T = {},
         NEW f, \A x \in S \cup T : f[x] \in Int
  PROVE  SumFunctionOnSet(f, S \cup T) = SumFunctionOnSet(f, S) + SumFunctionOnSet(f, T)
<1>. DEFINE Good == {U \in SUBSET T : SumFunctionOnSet(f, S \cup U) = SumFunctionOnSet(f, S) + SumFunctionOnSet(f, U)}
<1>1. SumFunctionOnSet(f, S) \in Int
  BY SumOfIntegers
<1>2. ASSUME NEW U \in SUBSET T, \A x \in U : U \ {x} \in Good
      PROVE  U \in Good
  <2>1. CASE U = {}
    <3>1. S \cup U = S /\ SumFunctionOnSet(f, U) = 0
      BY <2>1, SumOverNone
    <3>. DEFINE all == SumFunctionOnSet(f, S)
    <3>2. all \in Int
      BY <1>1
    <3>. HIDE DEF all
    <3>3. all = all + 0
      BY <3>2
    <3>4. SumFunctionOnSet(f, S \cup U) = SumFunctionOnSet(f, S) + SumFunctionOnSet(f, U)
      BY <3>1, <3>3, Zenon DEF all
    <3>. QED
      BY <3>4
  <2>2. CASE U # {}
    <3>1. PICK a \in U : TRUE
      BY <2>2
    <3>. DEFINE V == U \ {a}
    <3>2. IsFiniteSet(U) /\ IsFiniteSet(V)
      BY FS_Subset
    <3>3. SumFunctionOnSet(f, S \cup V) = SumFunctionOnSet(f, S) + SumFunctionOnSet(f, V)
      BY <1>2, <3>1
    <3>4. f[a] \in Int /\ SumFunctionOnSet(f, V) \in Int
      <4>1. \A x \in V : f[x] \in Int
        OBVIOUS
      <4>. HIDE DEF V
      <4>. QED
        BY <3>1, <3>2, <4>1, SumOfIntegers
    <3>5. SumFunctionOnSet(f, U) = f[a] + SumFunctionOnSet(f, V)
      BY <3>1, <3>2, SumWithout
    <3>6. SumFunctionOnSet(f, S \cup U) = f[a] + SumFunctionOnSet(f, S \cup V)
      <4>1. IsFiniteSet(S \cup V)
        BY <3>2, FS_Union
      <4>2. a \notin S \cup V /\ (S \cup V) \cup {a} = S \cup U /\ \A x \in (S \cup V) \cup {a} : f[x] \in Int
        BY <3>1
      <4>. HIDE DEF V
      <4>. QED
        BY <4>1, <4>2, SumInserted
    <3>. HIDE DEF V
    <3>. QED
      BY <1>1, <3>3, <3>4, <3>5, <3>6
  <2>. QED
    BY <2>1, <2>2
<1>. HIDE DEF Good
<1>3. SUBSET T \subseteq Good
  BY <1>2, SubsetsClosed
<1>4. T \in Good
  BY <1>3
<1>. QED
  BY <1>4 DEF Good

=============================================================================
