------------------------------ MODULE GatewayProofs ------------------------------
(***************************************************************************)
(* Proofs about GatewayOrders, for any orders, handlers, quantities, rooms *)
(* and numbers of faults: what was stored before it is acknowledged, in    *)
(* which order the fills travel, that none is applied twice and what       *)
(* becomes of those that do not arrive, and what rows and live orders show *)
(* of them.                                                                *)
(***************************************************************************)
EXTENDS GatewayOrders, DataLemmas

-----------------------------------------------------------------------------
(* Sequences in order                                                      *)

(* FlattenSeq, as a relation: flat[n] is the first n sequences in one.     *)
IsFlat(flat, c) ==
  /\ flat[1] = c[1]
  /\ \A n \in 1..Len(c) : n > 1 => flat[n] = flat[n - 1] \o c[n]
  /\ FlattenSeq(c) = flat[Len(c)]

(* It is well-defined.                                                     *)
LEMMA FlattenSteps ==
  ASSUME NEW S, NEW c \in Seq(Seq(S)), c # << >>
  PROVE  \E flat \in [1..Len(c) -> Seq(S)] : IsFlat(flat, c)
<1>. DEFINE Upto(flat, n) == IF n = 1 THEN c[n] ELSE flat[n - 1] \o c[n]
            Steps(flat, n) == \A m \in 1..n : flat[m] = Upto(flat, m)
            Good == {n \in Nat : n <= Len(c) => \E flat \in [1..n -> Seq(S)] : Steps(flat, n)}
<1>1. Len(c) \in Nat /\ Len(c) > 0 /\ \A n \in 1..Len(c) : c[n] \in Seq(S)
  OBVIOUS
<1>2. 0 \in Good
  <2>. DEFINE start == [m \in 1..0 |-> << >>]
  <2>1. start \in [1..0 -> Seq(S)]
    OBVIOUS
  <2>2. 1..0 = {}
    OBVIOUS
  <2>3. Steps(start, 0)
    <3>. HIDE DEF start, Upto
    <3>. QED
      BY <2>2
  <2>. QED
    BY <2>1, <2>3
<1>3. ASSUME NEW n \in Nat, n \in Good
      PROVE  n + 1 \in Good
  <2>1. SUFFICES ASSUME n + 1 <= Len(c)
                 PROVE  \E flat \in [1..(n + 1) -> Seq(S)] : Steps(flat, n + 1)
    <3>. HIDE DEF Steps
    <3>. QED
      OBVIOUS
  <2>2. PICK flat \in [1..n -> Seq(S)] : Steps(flat, n)
    <3>1. n <= Len(c)
      BY <1>1, <2>1
    <3>. HIDE DEF Steps
    <3>. QED
      BY <1>3, <3>1
  <2>3. Upto(flat, n + 1) \in Seq(S)
    <3>1. c[n + 1] \in Seq(S)
      BY <1>1, <2>1
    <3>2. CASE n = 0
      BY <3>1, <3>2
    <3>3. CASE n # 0
      <4>1. (n + 1) - 1 = n /\ flat[n] \in Seq(S) /\ n + 1 # 1
        BY <3>3
      <4>2. flat[n] \o c[n + 1] \in Seq(S)
        BY <3>1, <4>1, ConcatProperties
      <4>. QED
        BY <4>1, <4>2
    <3>. QED
      BY <3>2, <3>3
  <2>. DEFINE more == [m \in 1..(n + 1) |-> IF m = n + 1 THEN Upto(flat, m) ELSE flat[m]]
  <2>4. more \in [1..(n + 1) -> Seq(S)]
    <3>. HIDE DEF Upto
    <3>. QED
      BY <2>3
  <2>5. ASSUME NEW m \in 1..(n + 1)
        PROVE  more[m] = Upto(more, m)
    <3>1. CASE m = 1
      <4>1. CASE n = 0
        BY <3>1, <4>1
      <4>2. CASE n # 0
        <5>1. m \in 1..n /\ more[m] = flat[m]
          BY <3>1, <4>2
        <5>. QED
          BY <2>2, <3>1, <5>1
      <4>. QED
        BY <4>1, <4>2
    <3>2. CASE m # 1 /\ m = n + 1
      <4>1. more[m] = Upto(flat, m)
        <5>. HIDE DEF Upto
        <5>. QED
          BY <3>2
      <4>2. m - 1 \in 1..n /\ m - 1 \in 1..(n + 1) /\ m - 1 # n + 1
        BY <3>2
      <4>3. more[m - 1] = flat[m - 1]
        <5>. HIDE DEF Upto
        <5>. QED
          BY <4>2
      <4>. QED
        BY <3>2, <4>1, <4>3
    <3>3. CASE m # 1 /\ m # n + 1
      <4>1. m \in 1..n /\ more[m] = flat[m] /\ more[m - 1] = flat[m - 1]
        BY <3>3
      <4>2. flat[m] = Upto(flat, m)
        BY <2>2, <4>1
      <4>. QED
        BY <3>3, <4>1, <4>2
    <3>. QED
      BY <3>1, <3>2, <3>3
  <2>6. Steps(more, n + 1)
    BY <2>5
  <2>. QED
    BY <2>4, <2>6
<1>. HIDE DEF Good
<1>4. Nat \subseteq Good
  BY <1>2, <1>3, NaturalsClosed
<1>5. PICK some \in [1..Len(c) -> Seq(S)] : Steps(some, Len(c))
  <2>. HIDE DEF Steps
  <2>1. Len(c) \in Good /\ Len(c) <= Len(c)
    BY <1>1, <1>4
  <2>. QED
    BY <2>1, Zenon DEF Good
<1>. DEFINE Whole(f) == f = [m \in 1..Len(c) |-> Upto(f, m)]
            flat == CHOOSE f : Whole(f)
<1>6. Whole(some)
  BY <1>5
<1>7. Whole(flat)
  BY <1>6
<1>8. FlattenSeq(c) = flat[Len(c)]
  BY <1>1 DEF FlattenSeq
<1>. HIDE DEF flat
<1>9. flat[1] = c[1] /\ \A n \in 1..Len(c) : n > 1 => flat[n] = flat[n - 1] \o c[n]
  <2>1. 1 \in 1..Len(c) /\ \A n \in 1..Len(c) : n > 1 => n # 1
    BY <1>1
  <2>2. \A n \in 1..Len(c) : flat[n] = Upto(flat, n)
    <3>. HIDE DEF Upto
    <3>. QED
      BY <1>7
  <2>. QED
    BY <2>1, <2>2, Zenon
<1>10. \A n \in 1..Len(c) : flat[n] \in Seq(S)
  <2>. DEFINE Fine == {n \in Nat : n \in 1..Len(c) => flat[n] \in Seq(S)}
  <2>1. 0 \in Fine
    OBVIOUS
  <2>2. ASSUME NEW n \in Nat, n \in Fine
        PROVE  n + 1 \in Fine
    <3>1. CASE n = 0
      BY <1>1, <1>9, <3>1
    <3>2. CASE n # 0 /\ n + 1 \in 1..Len(c)
      <4>1. n \in 1..Len(c) /\ n + 1 > 1 /\ (n + 1) - 1 = n
        BY <1>1, <3>2
      <4>2. flat[n] \in Seq(S) /\ c[n + 1] \in Seq(S) /\ flat[n + 1] = flat[n] \o c[n + 1]
        BY <1>1, <1>9, <2>2, <3>2, <4>1
      <4>3. flat[n] \o c[n + 1] \in Seq(S)
        BY <4>2, ConcatProperties
      <4>4. flat[n + 1] \in Seq(S)
        BY <4>2, <4>3, Zenon
      <4>. QED
        BY <4>4
    <3>3. CASE n + 1 \notin 1..Len(c)
      BY <3>3
    <3>. QED
      BY <3>1, <3>2, <3>3
  <2>. HIDE DEF Fine
  <2>3. Nat \subseteq Fine
    BY <2>1, <2>2, NaturalsClosed
  <2>. QED
    BY <1>1, <2>3 DEF Fine
<1>11. flat = [n \in 1..Len(c) |-> flat[n]]
  BY <1>7
<1>. HIDE DEF Upto, Steps, Whole
<1>12. flat \in [1..Len(c) -> Seq(S)]
  BY <1>10, <1>11
<1>. QED
  BY <1>8, <1>9, <1>12 DEF IsFlat

(* A sequence in front, one element or sequence after the other.           *)
LEMMA FlattenNone == FlattenSeq(<< >>) = << >>
BY DEF FlattenSeq

LEMMA FlattenOne ==
  ASSUME NEW S, NEW c \in Seq(Seq(S)), Len(c) = 1
  PROVE  FlattenSeq(c) = c[1]
<1>1. c # << >>
  OBVIOUS
<1>2. PICK flat \in [1..Len(c) -> Seq(S)] : IsFlat(flat, c)
  BY <1>1, FlattenSteps, Zenon
<1>. QED
  BY <1>2 DEF IsFlat

LEMMA FlattenType ==
  ASSUME NEW S, NEW c \in Seq(Seq(S))
  PROVE  FlattenSeq(c) \in Seq(S)
<1>1. CASE c = << >>
  BY <1>1, FlattenNone, EmptySeq
<1>2. CASE c # << >>
  <2>1. PICK flat \in [1..Len(c) -> Seq(S)] : IsFlat(flat, c)
    BY <1>2, FlattenSteps
  <2>2. Len(c) \in 1..Len(c)
    BY <1>2
  <2>. QED
    BY <2>1, <2>2 DEF IsFlat
<1>. QED
  BY <1>1, <1>2

(* A sequence that is put in line comes last.                              *)
LEMMA FlattenAppend ==
  ASSUME NEW S, NEW c \in Seq(Seq(S)), NEW s \in Seq(S)
  PROVE  FlattenSeq(Append(c, s)) = FlattenSeq(c) \o s
<1>. DEFINE d == Append(c, s)
            L == Len(c)
<1>1. /\ d \in Seq(Seq(S)) /\ d # << >> /\ Len(d) = L + 1 /\ d[L + 1] = s
      /\ \A n \in 1..L : d[n] = c[n]
      /\ L \in Nat
  <2>. DEFINE T == Seq(S)
  <2>1. c \in Seq(T) /\ s \in T
    OBVIOUS
  <2>. HIDE DEF T
  <2>2. /\ d \in Seq(T) /\ Len(d) = L + 1 /\ d[L + 1] = s
        /\ \A n \in 1..L : d[n] = c[n]
        /\ L \in Nat
    BY <2>1, AppendProperties, LenProperties
  <2>3. d # << >>
    BY <2>2
  <2>. QED
    BY <2>2, <2>3 DEF T
<1>2. CASE c = << >>
  <2>1. L = 0 /\ Len(d) = 1 /\ d[1] = s
    BY <1>1, <1>2
  <2>2. FlattenSeq(d) = s
    <3>. HIDE DEF d
    <3>. QED
      BY <1>1, <2>1, FlattenOne
  <2>3. << >> \o s = s
    BY ConcatEmptySeq
  <2>. QED
    BY <1>2, <2>2, <2>3, FlattenNone
<1>3. CASE c # << >>
  <2>1. L > 0
    BY <1>3
  <2>2. PICK flat \in [1..L -> Seq(S)] : IsFlat(flat, c)
    BY <1>3, FlattenSteps
  <2>3. PICK more \in [1..(L + 1) -> Seq(S)] : IsFlat(more, d)
    <3>. HIDE DEF d
    <3>. QED
      BY <1>1, FlattenSteps
  <2>. HIDE DEF d, L
  <2>. DEFINE Same == {n \in Nat : n \in 1..L => more[n] = flat[n]}
  <2>4. 0 \in Same
    BY <1>1
  <2>5. ASSUME NEW n \in Nat, n \in Same
        PROVE  n + 1 \in Same
    <3>1. CASE n = 0
      <4>1. more[1] = d[1] /\ flat[1] = c[1] /\ d[1] = c[1]
        BY <1>1, <2>1, <2>2, <2>3 DEF IsFlat
      <4>. QED
        BY <3>1, <4>1
    <3>2. CASE n # 0 /\ n + 1 \in 1..L
      <4>1. n \in 1..L /\ n + 1 > 1 /\ (n + 1) - 1 = n /\ n + 1 \in 1..Len(d) /\ n + 1 \in 1..Len(c)
        BY <1>1, <3>2 DEF L
      <4>2. more[n + 1] = more[n] \o d[n + 1]
        BY <2>3, <4>1 DEF IsFlat
      <4>3. flat[n + 1] = flat[n] \o c[n + 1]
        BY <2>2, <4>1 DEF IsFlat
      <4>4. more[n] = flat[n] /\ d[n + 1] = c[n + 1]
        BY <1>1, <2>5, <3>2, <4>1
      <4>5. more[n + 1] = flat[n + 1]
        BY <4>2, <4>3, <4>4, Zenon
      <4>. QED
        BY <4>5
    <3>3. CASE n + 1 \notin 1..L
      BY <3>3
    <3>. QED
      BY <3>1, <3>2, <3>3
  <2>. HIDE DEF Same
  <2>6. Nat \subseteq Same
    BY <2>4, <2>5, NaturalsClosed
  <2>7. L \in 1..L /\ L \in Same
    BY <1>1, <2>1, <2>6
  <2>8. more[L] = flat[L]
    BY <2>7 DEF Same
  <2>9. FlattenSeq(c) = flat[L]
    BY <2>2 DEF IsFlat, L
  <2>10. FlattenSeq(d) = more[L + 1]
    BY <1>1, <2>3 DEF IsFlat
  <2>11. more[L + 1] = more[L] \o s
    <3>1. L + 1 \in 1..Len(d) /\ L + 1 > 1 /\ (L + 1) - 1 = L
      BY <1>1, <2>1
    <3>2. more[L + 1] = more[(L + 1) - 1] \o d[L + 1]
      BY <2>3, <3>1 DEF IsFlat
    <3>. QED
      BY <1>1, <3>1, <3>2
  <2>12. FlattenSeq(d) = FlattenSeq(c) \o s
    BY <2>8, <2>9, <2>10, <2>11, Zenon
  <2>. QED
    BY <2>12 DEF d
<1>. QED
  BY <1>2, <1>3

(* And the first is in front of all the others.                            *)
LEMMA FlattenFirst ==
  ASSUME NEW S, NEW c \in Seq(Seq(S)), c # << >>
  PROVE  FlattenSeq(c) = Head(c) \o FlattenSeq(Tail(c))
<1>. DEFINE d == Tail(c)
            L == Len(c)
<1>1. /\ d \in Seq(Seq(S)) /\ Len(d) = L - 1 /\ L \in Nat /\ L > 0 /\ Head(c) = c[1] /\ c[1] \in Seq(S)
      /\ \A n \in 1..(L - 1) : d[n] = c[n + 1] /\ d[n] \in Seq(S)
      /\ d = << >> <=> L = 1
  <2>. DEFINE T == Seq(S)
  <2>1. c \in Seq(T)
    OBVIOUS
  <2>. HIDE DEF T
  <2>2. d \in Seq(T) /\ Len(d) = L - 1 /\ L \in Nat /\ L > 0 /\ Head(c) = c[1] /\ c[1] \in T
    BY <2>1
  <2>3. \A n \in 1..(L - 1) : d[n] = c[n + 1] /\ d[n] \in T
    BY <2>1, <2>2, HeadTailProperties
  <2>4. d = << >> <=> L = 1
    <3>1. d = << >> <=> Len(d) = 0
      <4>. HIDE DEF d, L
      <4>. QED
        BY <2>2, EmptySeq
    <3>. QED
      BY <2>2, <3>1
  <2>. QED
    BY <2>2, <2>3, <2>4 DEF T
<1>2. PICK flat \in [1..L -> Seq(S)] : IsFlat(flat, c)
  BY FlattenSteps
<1>3. CASE L = 1
  <2>1. FlattenSeq(c) = c[1]
    BY <1>3, FlattenOne
  <2>2. d = << >>
    BY <1>1, <1>3
  <2>3. c[1] \o << >> = c[1]
    BY <1>1, ConcatEmptySeq
  <2>. QED
    BY <1>1, <2>1, <2>2, <2>3, FlattenNone
<1>4. CASE L # 1
  <2>1. L - 1 \in Nat /\ L - 1 > 0
    BY <1>1, <1>4
  <2>2. PICK rest \in [1..(L - 1) -> Seq(S)] : IsFlat(rest, d)
    <3>1. d # << >>
      BY <1>1, <1>4
    <3>. HIDE DEF d
    <3>. QED
      BY <1>1, <3>1, FlattenSteps
  <2>3. Len(c) = L /\ FlattenSeq(c) = flat[L] /\ FlattenSeq(d) = rest[L - 1]
    BY <1>1, <1>2, <2>2 DEF IsFlat
  <2>. HIDE DEF d, L
  <2>. DEFINE Good == {n \in Nat : n \in 1..(L - 1) => flat[n + 1] = c[1] \o rest[n]}
  <2>4. 0 \in Good
    BY <1>1
  <2>5. ASSUME NEW n \in Nat, n \in Good
        PROVE  n + 1 \in Good
    <3>1. CASE n = 0 /\ n + 1 \in 1..(L - 1)
      <4>1. rest[1] = d[1] /\ flat[1] = c[1] /\ d[1] = c[1 + 1] /\ 1 + 1 \in 1..Len(c) /\ 1 + 1 > 1 /\ (1 + 1) - 1 = 1
        BY <1>1, <1>2, <2>2, <2>3, <3>1 DEF IsFlat
      <4>2. flat[1 + 1] = flat[(1 + 1) - 1] \o c[1 + 1]
        BY <1>2, <4>1 DEF IsFlat
      <4>3. flat[1 + 1] = c[1] \o rest[1]
        BY <4>1, <4>2
      <4>. QED
        BY <3>1, <4>3
    <3>2. CASE n # 0 /\ n + 1 \in 1..(L - 1)
      <4>1. /\ n \in 1..(L - 1) /\ n + 1 > 1 /\ (n + 1) - 1 = n /\ n + 1 \in 1..Len(d)
            /\ (n + 1) + 1 \in 1..Len(c) /\ (n + 1) + 1 > 1 /\ ((n + 1) + 1) - 1 = n + 1
        BY <1>1, <2>3, <3>2
      <4>2. rest[n + 1] = rest[n] \o d[n + 1]
        BY <2>2, <4>1 DEF IsFlat
      <4>3. flat[(n + 1) + 1] = flat[n + 1] \o c[(n + 1) + 1]
        BY <1>2, <4>1 DEF IsFlat
      <4>4. flat[n + 1] = c[1] \o rest[n] /\ d[n + 1] = c[(n + 1) + 1]
        BY <1>1, <2>5, <3>2, <4>1
      <4>5. rest[n] \in Seq(S) /\ d[n + 1] \in Seq(S)
        BY <1>1, <3>2, <4>1, Zenon
      <4>6. (c[1] \o rest[n]) \o d[n + 1] = c[1] \o (rest[n] \o d[n + 1])
        <5>. DEFINE x == c[1]
                    y == rest[n]
                    z == d[n + 1]
        <5>1. x \in Seq(S) /\ y \in Seq(S) /\ z \in Seq(S)
          BY <1>1, <4>5, Zenon
        <5>. HIDE DEF x, y, z
        <5>2. (x \o y) \o z = x \o (y \o z)
          BY <5>1, ConcatAssociative
        <5>. QED
          BY <5>2 DEF x, y, z
      <4>7. flat[(n + 1) + 1] = c[1] \o rest[n + 1]
        BY <4>2, <4>3, <4>4, <4>6, Zenon
      <4>8. n + 1 \in Nat
        OBVIOUS
      <4>. QED
        BY <4>7, <4>8, Zenon
    <3>3. CASE n + 1 \notin 1..(L - 1)
      <4>1. n + 1 \in Nat
        OBVIOUS
      <4>. QED
        BY <3>3, <4>1, Zenon
    <3>. QED
      BY <3>1, <3>2, <3>3
  <2>. HIDE DEF Good
  <2>6. Nat \subseteq Good
    BY <2>4, <2>5, NaturalsClosed
  <2>7. L - 1 \in 1..(L - 1) /\ L - 1 \in Good /\ (L - 1) + 1 = L
    BY <1>1, <2>1, <2>6
  <2>8. flat[L] = c[1] \o rest[L - 1]
    BY <2>7 DEF Good
  <2>. QED
    BY <1>1, <2>3, <2>8 DEF d
<1>. QED
  BY <1>3, <1>4

(* Fills in the order in which they were made, none of them twice.         *)
Ordered(s) == \A m, n \in 1..Len(s) : m < n => s[m] < s[n]

(* All fills of one set were made before those of the other.               *)
Before(A, B) == \A a \in A, b \in B : a < b

LEMMA SetOfSeq ==
  ASSUME NEW S, NEW s \in Seq(S)
  PROVE  /\ ToSet(s) = {s[n] : n \in 1..Len(s)} /\ ToSet(s) \subseteq S
         /\ s = << >> => ToSet(s) = {}
         /\ s # << >> => ToSet(s) # {}
         /\ \A n \in 1..Len(s) : s[n] \in ToSet(s)
         /\ \A x \in ToSet(s) : \E n \in 1..Len(s) : s[n] = x
<1>1. DOMAIN s = 1..Len(s) /\ \A n \in 1..Len(s) : s[n] \in S
  OBVIOUS
<1>2. ToSet(s) = {s[n] : n \in 1..Len(s)}
  BY <1>1 DEF ToSet
<1>3. s # << >> => 1 \in 1..Len(s)
  OBVIOUS
<1>4. s = << >> => 1..Len(s) = {}
  OBVIOUS
<1>. HIDE DEF ToSet
<1>5. ToSet(s) \subseteq S
  BY <1>1, <1>2
<1>6. (\A n \in 1..Len(s) : s[n] \in ToSet(s)) /\ \A x \in ToSet(s) : \E n \in 1..Len(s) : s[n] = x
  BY <1>2
<1>7. s = << >> => ToSet(s) = {}
  BY <1>4, <1>6
<1>8. s # << >> => ToSet(s) # {}
  BY <1>3, <1>6
<1>. QED
  BY <1>2, <1>5, <1>6, <1>7, <1>8

LEMMA SetOfNone == ToSet(<< >>) = {} /\ Ordered(<< >>)
BY DEF ToSet, Ordered

(* Two sequences, one behind the other.                                    *)
LEMMA ConcatOrdered ==
  ASSUME NEW s \in Seq(Int), NEW t \in Seq(Int)
  PROVE  /\ s \o t \in Seq(Int)
         /\ ToSet(s \o t) = ToSet(s) \cup ToSet(t)
         /\ Ordered(s \o t) <=> Ordered(s) /\ Ordered(t) /\ Before(ToSet(s), ToSet(t))
<1>. DEFINE u == s \o t
            k == Len(s)
            l == Len(t)
<1>1. /\ u \in Seq(Int) /\ Len(u) = k + l /\ k \in Nat /\ l \in Nat
      /\ \A n \in 1..k : u[n] = s[n] /\ n \in 1..(k + l)
      /\ \A n \in 1..l : u[k + n] = t[n] /\ k + n \in 1..(k + l)
      /\ \A n \in 1..(k + l) : n \in 1..k \/ (n - k \in 1..l /\ n = k + (n - k))
  <2>1. u \in Seq(Int) /\ Len(u) = k + l /\ k \in Nat /\ l \in Nat
    OBVIOUS
  <2>2. \A n \in 1..(k + l) : u[n] = IF n <= k THEN s[n] ELSE t[n - k]
    BY ConcatProperties
  <2>. HIDE DEF u, k, l
  <2>3. \A n \in 1..k : u[n] = s[n] /\ n \in 1..(k + l)
    BY <2>1, <2>2
  <2>4. ASSUME NEW n \in 1..l
        PROVE  u[k + n] = t[n] /\ k + n \in 1..(k + l)
    <3>1. k + n \in 1..(k + l) /\ ~(k + n <= k) /\ (k + n) - k = n
      BY <2>1
    <3>. QED
      BY <2>2, <3>1
  <2>5. \A n \in 1..(k + l) : n \in 1..k \/ (n - k \in 1..l /\ n = k + (n - k))
    BY <2>1
  <2>. QED
    BY <2>1, <2>3, <2>4, <2>5
<1>2. /\ (\A n \in 1..(k + l) : u[n] \in ToSet(u)) /\ \A x \in ToSet(u) : \E n \in 1..(k + l) : u[n] = x
      /\ (\A n \in 1..k : s[n] \in ToSet(s)) /\ \A x \in ToSet(s) : \E n \in 1..k : s[n] = x
      /\ (\A n \in 1..l : t[n] \in ToSet(t)) /\ \A x \in ToSet(t) : \E n \in 1..l : t[n] = x
  <2>1. u \in Seq(Int) /\ Len(u) = k + l
    BY <1>1
  <2>2. (\A n \in 1..(k + l) : u[n] \in ToSet(u)) /\ \A x \in ToSet(u) : \E n \in 1..(k + l) : u[n] = x
    <3>. HIDE DEF u
    <3>. QED
      BY <2>1, SetOfSeq
  <2>. QED
    BY <2>2, SetOfSeq
<1>3. (\A n \in 1..k : s[n] \in Int) /\ (\A n \in 1..l : t[n] \in Int)
  OBVIOUS
<1>4. Ordered(s) <=> \A m, n \in 1..k : m < n => s[m] < s[n]
  BY DEF Ordered
<1>5. Ordered(t) <=> \A m, n \in 1..l : m < n => t[m] < t[n]
  BY DEF Ordered
<1>6. Ordered(u) <=> \A m, n \in 1..(k + l) : m < n => u[m] < u[n]
  BY <1>1 DEF Ordered
<1>. HIDE DEF u, k, l
<1>7. ToSet(u) = ToSet(s) \cup ToSet(t)
  <2>1. ASSUME NEW x \in ToSet(u)
        PROVE  x \in ToSet(s) \cup ToSet(t)
    <3>1. PICK n \in 1..(k + l) : u[n] = x
      BY <1>2
    <3>2. CASE n \in 1..k
      <4>1. u[n] = s[n] /\ s[n] \in ToSet(s)
        BY <1>1, <1>2, <3>2
      <4>. QED
        BY <3>1, <4>1
    <3>3. CASE n - k \in 1..l /\ n = k + (n - k)
      <4>1. u[n] = t[n - k] /\ t[n - k] \in ToSet(t)
        BY <1>1, <1>2, <3>3
      <4>. QED
        BY <3>1, <4>1
    <3>. QED
      BY <1>1, <3>2, <3>3
  <2>2. ASSUME NEW x \in ToSet(s) \cup ToSet(t)
        PROVE  x \in ToSet(u)
    <3>1. CASE x \in ToSet(s)
      <4>1. PICK n \in 1..k : s[n] = x
        BY <1>2, <3>1
      <4>2. u[n] = x /\ u[n] \in ToSet(u)
        BY <1>1, <1>2, <4>1
      <4>. QED
        BY <4>2
    <3>2. CASE x \in ToSet(t)
      <4>1. PICK n \in 1..l : t[n] = x
        BY <1>2, <3>2
      <4>2. u[k + n] = x /\ u[k + n] \in ToSet(u)
        BY <1>1, <1>2, <4>1
      <4>. QED
        BY <4>2
    <3>. QED
      BY <2>2, <3>1, <3>2
  <2>. QED
    BY <2>1, <2>2
<1>8. ASSUME Ordered(u)
      PROVE  Ordered(s) /\ Ordered(t) /\ Before(ToSet(s), ToSet(t))
  <2>1. Ordered(s)
    BY <1>1, <1>4, <1>6, <1>8
  <2>2. Ordered(t)
    <3>1. ASSUME NEW m \in 1..l, NEW n \in 1..l, m < n
          PROVE  t[m] < t[n]
      <4>1. k + m < k + n
        BY <1>1, <3>1
      <4>. QED
        BY <1>1, <1>6, <1>8, <4>1
    <3>. QED
      BY <1>5, <3>1
  <2>3. ASSUME NEW m \in 1..k, NEW n \in 1..l
        PROVE  s[m] < t[n]
    <3>1. m < k + n
      BY <1>1
    <3>. QED
      BY <1>1, <1>6, <1>8, <3>1
  <2>. QED
    BY <1>2, <2>1, <2>2, <2>3 DEF Before
<1>9. ASSUME Ordered(s), Ordered(t), Before(ToSet(s), ToSet(t))
      PROVE  Ordered(u)
  <2>1. ASSUME NEW m \in 1..(k + l), NEW n \in 1..(k + l), m < n
        PROVE  u[m] < u[n]
    <3>1. CASE n \in 1..k
      <4>1. m \in 1..k
        BY <1>1, <2>1, <3>1
      <4>. QED
        BY <1>1, <1>4, <1>9, <2>1, <3>1, <4>1
    <3>2. CASE m \in 1..k /\ n - k \in 1..l /\ n = k + (n - k)
      <4>1. s[m] \in ToSet(s) /\ t[n - k] \in ToSet(t)
        BY <1>2, <3>2
      <4>2. u[m] = s[m] /\ u[n] = t[n - k]
        BY <1>1, <3>2
      <4>. QED
        BY <1>9, <4>1, <4>2 DEF Before
    <3>3. CASE /\ m - k \in 1..l /\ m = k + (m - k)
               /\ n - k \in 1..l /\ n = k + (n - k)
      <4>1. u[m] = t[m - k] /\ u[n] = t[n - k]
        BY <1>1, <3>3
      <4>2. m - k < n - k
        BY <1>1, <2>1
      <4>. QED
        BY <1>5, <1>9, <3>3, <4>1, <4>2
    <3>. QED
      BY <1>1, <3>1, <3>2, <3>3
  <2>. QED
    BY <1>6, <2>1
<1>10. u \in Seq(Int)
  BY <1>1
<1>. QED
  BY <1>7, <1>8, <1>9, <1>10 DEF u

(* Three behind one another, and a fourth.                                 *)
LEMMA FourOrdered ==
  ASSUME NEW s \in Seq(Int), NEW t \in Seq(Int), NEW u \in Seq(Int), NEW v \in Seq(Int)
  PROVE  LET w == s \o t \o u \o v
         IN  /\ w \in Seq(Int)
             /\ ToSet(w) = ToSet(s) \cup ToSet(t) \cup ToSet(u) \cup ToSet(v)
             /\ Ordered(w) <=>
                  /\ Ordered(s) /\ Ordered(t) /\ Ordered(u) /\ Ordered(v)
                  /\ Before(ToSet(s), ToSet(t)) /\ Before(ToSet(s), ToSet(u)) /\ Before(ToSet(s), ToSet(v))
                  /\ Before(ToSet(t), ToSet(u)) /\ Before(ToSet(t), ToSet(v)) /\ Before(ToSet(u), ToSet(v))
<1>. DEFINE a == s \o t
            b == a \o u
            w == b \o v
<1>1. /\ a \in Seq(Int) /\ ToSet(a) = ToSet(s) \cup ToSet(t)
      /\ Ordered(a) <=> Ordered(s) /\ Ordered(t) /\ Before(ToSet(s), ToSet(t))
  BY ConcatOrdered
<1>. HIDE DEF a
<1>2. /\ b \in Seq(Int) /\ ToSet(b) = ToSet(a) \cup ToSet(u)
      /\ Ordered(b) <=> Ordered(a) /\ Ordered(u) /\ Before(ToSet(a), ToSet(u))
  BY <1>1, ConcatOrdered
<1>. HIDE DEF b
<1>3. /\ w \in Seq(Int) /\ ToSet(w) = ToSet(b) \cup ToSet(v)
      /\ Ordered(w) <=> Ordered(b) /\ Ordered(v) /\ Before(ToSet(b), ToSet(v))
  BY <1>2, ConcatOrdered
<1>. HIDE DEF w
<1>4. Before(ToSet(a), ToSet(u)) <=> Before(ToSet(s), ToSet(u)) /\ Before(ToSet(t), ToSet(u))
  BY <1>1, Zenon DEF Before
<1>5. Before(ToSet(b), ToSet(v)) <=>
        Before(ToSet(s), ToSet(v)) /\ Before(ToSet(t), ToSet(v)) /\ Before(ToSet(u), ToSet(v))
  BY <1>1, <1>2, Zenon DEF Before
<1>6. ToSet(w) = ToSet(s) \cup ToSet(t) \cup ToSet(u) \cup ToSet(v)
  BY <1>1, <1>2, <1>3, Zenon
<1>7. /\ w \in Seq(Int)
      /\ ToSet(w) = ToSet(s) \cup ToSet(t) \cup ToSet(u) \cup ToSet(v)
      /\ Ordered(w) <=>
           /\ Ordered(s) /\ Ordered(t) /\ Ordered(u) /\ Ordered(v)
           /\ Before(ToSet(s), ToSet(t)) /\ Before(ToSet(s), ToSet(u)) /\ Before(ToSet(s), ToSet(v))
           /\ Before(ToSet(t), ToSet(u)) /\ Before(ToSet(t), ToSet(v)) /\ Before(ToSet(u), ToSet(v))
  BY <1>1, <1>2, <1>3, <1>4, <1>5, <1>6, Zenon
<1>. QED
  BY <1>7 DEF w, b, a

(* A part of a sequence, and the two parts it falls into.                  *)
LEMMA PartOrdered ==
  ASSUME NEW s \in Seq(Int), NEW m \in Nat \ {0}, NEW n \in 0..Len(s)
  PROVE  /\ SubSeq(s, m, n) \in Seq(Int) /\ ToSet(SubSeq(s, m, n)) \subseteq ToSet(s)
         /\ Ordered(s) => Ordered(SubSeq(s, m, n))
         /\ Len(SubSeq(s, m, n)) = IF m <= n THEN n - m + 1 ELSE 0
         /\ \A i \in 1..Len(SubSeq(s, m, n)) : SubSeq(s, m, n)[i] = s[m + i - 1] /\ m + i - 1 \in 1..Len(s)
<1>. DEFINE u == SubSeq(s, m, n)
<1>1. \A i \in m..n : s[i] \in Int
  OBVIOUS
<1>2. /\ u \in Seq(Int) /\ Len(u) = (IF m <= n THEN n - m + 1 ELSE 0)
      /\ \A i \in 1..(n - m + 1) : u[i] = s[m + i - 1]
  BY <1>1, SubSeqProperties
<1>. HIDE DEF u
<1>3. \A i \in 1..Len(u) : u[i] = s[m + i - 1] /\ m + i - 1 \in 1..Len(s)
  BY <1>2
<1>4. ToSet(u) \subseteq ToSet(s)
  <2>1. ASSUME NEW x \in ToSet(u)
        PROVE  x \in ToSet(s)
    <3>1. PICK i \in 1..Len(u) : u[i] = x
      BY <1>2, SetOfSeq
    <3>2. s[m + i - 1] = x /\ m + i - 1 \in 1..Len(s)
      BY <1>3, <3>1
    <3>3. \A k \in 1..Len(s) : s[k] \in ToSet(s)
      BY SetOfSeq
    <3>. QED
      BY <3>2, <3>3, Zenon
  <2>. QED
    BY <2>1
<1>5. ASSUME Ordered(s)
      PROVE  Ordered(u)
  <2>1. ASSUME NEW i \in 1..Len(u), NEW j \in 1..Len(u), i < j
        PROVE  u[i] < u[j]
    <3>1. m + i - 1 < m + j - 1
      BY <1>2, <2>1
    <3>. QED
      BY <1>3, <1>5, <3>1 DEF Ordered
  <2>. QED
    BY <2>1 DEF Ordered
<1>. QED
  BY <1>2, <1>3, <1>4, <1>5 DEF u

LEMMA PartsOfSeq ==
  ASSUME NEW s \in Seq(Int), NEW n \in 0..Len(s)
  PROVE  ToSet(s) = ToSet(SubSeq(s, 1, n)) \cup ToSet(SubSeq(s, n + 1, Len(s)))
<1>. DEFINE u == SubSeq(s, 1, n)
            v == SubSeq(s, n + 1, Len(s))
<1>1. Len(s) \in Nat /\ Len(s) \in 0..Len(s) /\ n + 1 \in Nat \ {0} /\ 1 \in Nat \ {0}
  OBVIOUS
<1>2. /\ u \in Seq(Int) /\ ToSet(u) \subseteq ToSet(s) /\ Len(u) = n
      /\ \A i \in 1..n : u[i] = s[i]
  <2>1. /\ u \in Seq(Int) /\ ToSet(u) \subseteq ToSet(s) /\ Len(u) = (IF 1 <= n THEN n - 1 + 1 ELSE 0)
        /\ \A i \in 1..Len(u) : u[i] = s[1 + i - 1]
    BY <1>1, PartOrdered
  <2>. QED
    BY <2>1
<1>3. /\ v \in Seq(Int) /\ ToSet(v) \subseteq ToSet(s) /\ Len(v) = Len(s) - n
      /\ \A i \in 1..Len(v) : v[i] = s[n + i]
  <2>1. /\ v \in Seq(Int) /\ ToSet(v) \subseteq ToSet(s)
        /\ Len(v) = (IF n + 1 <= Len(s) THEN Len(s) - (n + 1) + 1 ELSE 0)
        /\ \A i \in 1..Len(v) : v[i] = s[n + 1 + i - 1]
    BY <1>1, PartOrdered
  <2>. QED
    BY <1>1, <2>1
<1>. HIDE DEF u, v
<1>4. ASSUME NEW x \in ToSet(s)
      PROVE  x \in ToSet(u) \cup ToSet(v)
  <2>1. PICK i \in 1..Len(s) : s[i] = x
    BY SetOfSeq
  <2>2. CASE i <= n
    <3>1. i \in 1..Len(u) /\ u[i] = x
      BY <1>2, <2>1, <2>2
    <3>. QED
      BY <1>2, <3>1, SetOfSeq
  <2>3. CASE ~(i <= n)
    <3>1. i - n \in 1..Len(v) /\ n + (i - n) = i
      BY <1>1, <1>3, <2>3
    <3>2. v[i - n] = x
      BY <1>3, <2>1, <3>1
    <3>. QED
      BY <1>3, <3>1, <3>2, SetOfSeq
  <2>. QED
    BY <2>2, <2>3
<1>. QED
  BY <1>2, <1>3, <1>4 DEF u, v

(* The first of a sequence and the rest, and one more behind it.           *)
LEMMA FirstOrdered ==
  ASSUME NEW s \in Seq(Int), s # << >>
  PROVE  /\ Tail(s) \in Seq(Int) /\ Head(s) \in ToSet(s)
         /\ ToSet(s) = {Head(s)} \cup ToSet(Tail(s))
         /\ Ordered(s) => Ordered(Tail(s)) /\ \A f \in ToSet(Tail(s)) : Head(s) < f
<1>. DEFINE u == Tail(s)
<1>1. /\ u \in Seq(Int) /\ Len(u) = Len(s) - 1 /\ Head(s) = s[1] /\ Len(s) \in Nat /\ 1 \in 1..Len(s)
      /\ \A n \in 1..Len(u) : u[n] = s[n + 1] /\ n + 1 \in 1..Len(s)
  BY HeadTailProperties
<1>. HIDE DEF u
<1>2. (\A n \in 1..Len(s) : s[n] \in ToSet(s)) /\ \A x \in ToSet(s) : \E n \in 1..Len(s) : s[n] = x
  BY SetOfSeq
<1>3. (\A n \in 1..Len(u) : u[n] \in ToSet(u)) /\ \A x \in ToSet(u) : \E n \in 1..Len(u) : u[n] = x
  BY <1>1, SetOfSeq
<1>4. ASSUME NEW x \in ToSet(s)
      PROVE  x = Head(s) \/ x \in ToSet(u)
  <2>1. PICK n \in 1..Len(s) : s[n] = x
    BY <1>2
  <2>2. CASE n = 1
    BY <1>1, <2>1, <2>2
  <2>3. CASE n # 1
    <3>1. n - 1 \in 1..Len(u) /\ (n - 1) + 1 = n
      BY <1>1, <2>3
    <3>2. u[n - 1] = x
      BY <1>1, <2>1, <3>1
    <3>. QED
      BY <1>3, <3>1, <3>2
  <2>. QED
    BY <2>2, <2>3
<1>5. ASSUME NEW x \in ToSet(u)
      PROVE  x \in ToSet(s)
  <2>1. PICK n \in 1..Len(u) : u[n] = x
    BY <1>3
  <2>2. s[n + 1] = x /\ n + 1 \in 1..Len(s)
    BY <1>1, <2>1
  <2>. QED
    BY <1>2, <2>2
<1>6. Head(s) \in ToSet(s)
  BY <1>1, <1>2
<1>7. ToSet(s) = {Head(s)} \cup ToSet(u)
  BY <1>4, <1>5, <1>6, Zenon
<1>8. ASSUME Ordered(s)
      PROVE  Ordered(u) /\ \A f \in ToSet(u) : Head(s) < f
  <2>1. ASSUME NEW m \in 1..Len(u), NEW n \in 1..Len(u), m < n
        PROVE  u[m] < u[n]
    <3>1. m + 1 < n + 1
      BY <2>1
    <3>. QED
      BY <1>1, <1>8, <3>1 DEF Ordered
  <2>2. ASSUME NEW f \in ToSet(u)
        PROVE  Head(s) < f
    <3>1. PICK n \in 1..Len(u) : u[n] = f
      BY <1>3
    <3>2. 1 < n + 1 /\ n + 1 \in 1..Len(s) /\ s[n + 1] = f
      BY <1>1, <3>1
    <3>. QED
      BY <1>1, <1>8, <3>2 DEF Ordered
  <2>. QED
    BY <2>1, <2>2 DEF Ordered
<1>. QED
  BY <1>1, <1>6, <1>7, <1>8 DEF u

LEMMA LastOrdered ==
  ASSUME NEW s \in Seq(Int), NEW x \in Int
  PROVE  /\ Append(s, x) \in Seq(Int) /\ ToSet(Append(s, x)) = ToSet(s) \cup {x}
         /\ Ordered(s) /\ (\A f \in ToSet(s) : f < x) => Ordered(Append(s, x))
<1>. DEFINE t == <<x>>
<1>1. t \in Seq(Int) /\ Len(t) = 1 /\ t[1] = x
  OBVIOUS
<1>2. Append(s, x) = s \o t
  BY AppendIsConcat
<1>. HIDE DEF t
<1>3. ToSet(t) = {x}
  <2>1. (\A n \in 1..Len(t) : t[n] \in ToSet(t)) /\ \A y \in ToSet(t) : \E n \in 1..Len(t) : t[n] = y
    BY <1>1, SetOfSeq
  <2>2. 1..Len(t) = {1}
    BY <1>1
  <2>. QED
    BY <1>1, <2>1, <2>2
<1>4. Ordered(t)
  BY <1>1 DEF Ordered
<1>5. /\ s \o t \in Seq(Int) /\ ToSet(s \o t) = ToSet(s) \cup ToSet(t)
      /\ Ordered(s) /\ Ordered(t) /\ Before(ToSet(s), ToSet(t)) => Ordered(s \o t)
  BY <1>1, ConcatOrdered
<1>. QED
  BY <1>2, <1>3, <1>4, <1>5, Zenon DEF Before

(* The last of an ordered sequence is the largest.                         *)
LEMMA LastIsLargest ==
  ASSUME NEW s \in Seq(Int), s # << >>, Ordered(s)
  PROVE  Last(s) \in ToSet(s) /\ \A f \in ToSet(s) : f <= Last(s)
<1>1. Len(s) \in 1..Len(s) /\ \A n \in 1..Len(s) : n < Len(s) \/ n = Len(s)
  OBVIOUS
<1>2. (\A n \in 1..Len(s) : s[n] \in ToSet(s) /\ s[n] \in Int) /\ \A x \in ToSet(s) : \E n \in 1..Len(s) : s[n] = x
  BY SetOfSeq
<1>3. ASSUME NEW f \in ToSet(s)
      PROVE  f <= s[Len(s)]
  <2>1. PICK n \in 1..Len(s) : s[n] = f
    BY <1>2
  <2>. QED
    BY <1>1, <1>2, <2>1 DEF Ordered
<1>. QED
  BY <1>1, <1>2, <1>3 DEF Last

(* The largest number of a set, and the lesser of two.                     *)
LEMMA MaxOfSome ==
  ASSUME NEW N \in Nat, NEW T \in SUBSET (0..N), T # {}
  PROVE  Max(T) \in T /\ \A t \in T : t <= Max(T)
<1>. DEFINE Good == {n \in Nat : \A U \in SUBSET (0..n) : U # {} => \E m \in U : \A t \in U : m >= t}
<1>1. 0 \in Good
  <2>1. ASSUME NEW U \in SUBSET (0..0), U # {}
        PROVE  \E m \in U : \A t \in U : m >= t
    <3>1. PICK x \in U : TRUE
      BY <2>1
    <3>2. \A t \in U : t = 0
      OBVIOUS
    <3>3. 0 \in U /\ \A t \in U : 0 >= t
      BY <3>1, <3>2
    <3>. QED
      BY <3>3
  <2>. QED
    BY <2>1
<1>2. ASSUME NEW n \in Nat, n \in Good
      PROVE  n + 1 \in Good
  <2>1. ASSUME NEW U \in SUBSET (0..(n + 1)), U # {}
        PROVE  \E m \in U : \A t \in U : m >= t
    <3>1. CASE n + 1 \in U
      <4>1. \A t \in U : n + 1 >= t
        OBVIOUS
      <4>. QED
        BY <3>1, <4>1
    <3>2. CASE n + 1 \notin U
      <4>1. U \in SUBSET (0..n)
        BY <3>2
      <4>. QED
        BY <1>2, <2>1, <4>1
    <3>. QED
      BY <3>1, <3>2
  <2>2. n + 1 \in Nat
    OBVIOUS
  <2>. QED
    BY <2>1, <2>2, Zenon
<1>. HIDE DEF Good
<1>3. N \in Good
  BY <1>1, <1>2, NaturalsClosed
<1>4. PICK m \in T : \A t \in T : m >= t
  BY <1>3 DEF Good
<1>5. Max(T) \in T /\ \A t \in T : Max(T) >= t
  BY <1>4, Zenon DEF Max
<1>. QED
  BY <1>5

LEMMA MaxOfTwo ==
  ASSUME NEW a \in Int, NEW b \in Int
  PROVE  Max({a, b}) = IF a >= b THEN a ELSE b
<1>. DEFINE c == IF a >= b THEN a ELSE b
<1>1. c \in {a, b} /\ \A y \in {a, b} : c >= y
  OBVIOUS
<1>2. \A x \in {a, b} : (\A y \in {a, b} : x >= y) => x = c
  OBVIOUS
<1>. HIDE DEF c
<1>3. Max({a, b}) = c
  BY <1>1, <1>2 DEF Max
<1>. QED
  BY <1>3 DEF c

LEMMA MinOfTwo ==
  ASSUME NEW a \in Nat, NEW b \in Nat
  PROVE  Min({a, b}) = IF a <= b THEN a ELSE b
<1>. DEFINE c == IF a <= b THEN a ELSE b
<1>1. c \in {a, b} /\ \A y \in {a, b} : c <= y
  OBVIOUS
<1>2. \A x \in {a, b} : (\A y \in {a, b} : x <= y) => x = c
  OBVIOUS
<1>. HIDE DEF c
<1>3. Min({a, b}) = c
  BY <1>1, <1>2 DEF Min
<1>. QED
  BY <1>3 DEF c

-----------------------------------------------------------------------------
(* The stream                                                              *)

LEMMA FillsAreNumbers ==
  ASSUME NEW s \in FillIds
  PROVE  s \in Seq(Int) /\ s \in Seq(Nat) /\ ToSet(s) \subseteq 1..MaxFills
<1>1. MaxFills \in Nat
  BY FillsAssumption
<1>2. 1..MaxFills \subseteq Int /\ 1..MaxFills \subseteq Nat
  BY <1>1
<1>3. s \in Seq(Int) /\ s \in Seq(Nat)
  BY <1>2, SeqMonotonic DEF FillIds
<1>. QED
  BY <1>3, SetOfSeq DEF FillIds

LEMMA NumbersAreFills ==
  ASSUME NEW s \in Seq(Int), ToSet(s) \subseteq 1..MaxFills
  PROVE  s \in FillIds
<1>1. \A n \in 1..Len(s) : s[n] \in 1..MaxFills
  BY SetOfSeq
<1>2. s = [n \in 1..Len(s) |-> s[n]] /\ Len(s) \in Nat
  OBVIOUS
<1>. DEFINE T == 1..MaxFills
<1>3. \A n \in 1..Len(s) : s[n] \in T
  BY <1>1
<1>. HIDE DEF T
<1>4. s \in Seq(T)
  BY <1>2, <1>3
<1>. QED
  BY <1>4 DEF FillIds, T

(* A stream in order is read up to an entry, and from it on is not.        *)
LEMMA AheadIsUnread ==
  ASSUME stream \in FillIds, Ordered(stream), cursor \in Nat
  PROVE  Ahead \in FillIds /\ Ordered(Ahead) /\ ToSet(Ahead) = Unread(stream)
<1>. DEFINE L == Len(stream)
            given == {n \in 1..L : stream[n] <= cursor}
            k == Max(given \cup {0})
<1>1. stream \in Seq(Int) /\ L \in Nat /\ DOMAIN stream = 1..L /\ (\A n \in 1..L : stream[n] \in Int)
  BY FillsAreNumbers
<1>2. k \in given \cup {0} /\ \A n \in given \cup {0} : n <= k
  <2>1. given \cup {0} \in SUBSET (0..L) /\ given \cup {0} # {}
    OBVIOUS
  <2>. HIDE DEF given
  <2>. QED
    BY <1>1, <2>1, MaxOfSome
<1>3. Ahead = SubSeq(stream, k + 1, L)
  BY <1>1 DEF Ahead
<1>. HIDE DEF k
<1>4. k \in 0..L
  BY <1>1, <1>2
<1>5. \A n \in 1..L : n <= k => stream[n] <= cursor
  <2>1. ASSUME NEW n \in 1..L, n <= k
        PROVE  stream[n] <= cursor
    <3>1. k \in 1..L /\ stream[k] <= cursor
      BY <1>2, <1>4, <2>1
    <3>2. n = k \/ stream[n] < stream[k]
      BY <1>1, <1>4, <2>1, <3>1 DEF Ordered
    <3>. QED
      BY <1>1, <3>1, <3>2
  <2>. QED
    BY <2>1
<1>6. \A n \in 1..L : k < n => cursor < stream[n]
  <2>1. ASSUME NEW n \in 1..L, k < n
        PROVE  cursor < stream[n]
    <3>1. n \notin given
      BY <1>2, <1>4, <2>1
    <3>. QED
      BY <1>1, <3>1
  <2>. QED
    BY <2>1
<1>. HIDE DEF given
<1>7. /\ Ahead \in Seq(Int) /\ ToSet(Ahead) \subseteq ToSet(stream) /\ Ordered(Ahead)
      /\ \A i \in 1..Len(Ahead) : Ahead[i] = stream[k + 1 + i - 1] /\ k + 1 + i - 1 \in 1..L
      /\ Len(Ahead) = L - k
  <2>1. k + 1 \in Nat \ {0} /\ L \in 0..L
    BY <1>1, <1>4
  <2>2. /\ Ahead \in Seq(Int) /\ ToSet(Ahead) \subseteq ToSet(stream) /\ Ordered(Ahead)
        /\ \A i \in 1..Len(Ahead) : Ahead[i] = stream[k + 1 + i - 1] /\ k + 1 + i - 1 \in 1..L
        /\ Len(Ahead) = IF k + 1 <= L THEN L - (k + 1) + 1 ELSE 0
    BY <1>1, <1>3, <2>1, PartOrdered
  <2>3. Len(Ahead) = L - k
    <3>. HIDE DEF L
    <3>. QED
      BY <1>1, <1>4, <2>2
  <2>. QED
    BY <2>2, <2>3, Zenon
<1>. HIDE DEF L
<1>8. /\ (\A n \in 1..L : stream[n] \in ToSet(stream)) /\ \A x \in ToSet(stream) : \E n \in 1..L : stream[n] = x
      /\ (\A n \in 1..Len(Ahead) : Ahead[n] \in ToSet(Ahead))
      /\ \A x \in ToSet(Ahead) : \E n \in 1..Len(Ahead) : Ahead[n] = x
  BY <1>1, <1>7, SetOfSeq DEF L
<1>9. ASSUME NEW f \in ToSet(Ahead)
      PROVE  f \in Unread(stream)
  <2>1. PICK i \in 1..Len(Ahead) : Ahead[i] = f
    BY <1>8
  <2>2. k + i \in 1..L /\ stream[k + i] = f /\ k < k + i
    <3>1. k + 1 + i - 1 = k + i
      BY <1>4
    <3>. QED
      BY <1>4, <1>7, <2>1, <3>1
  <2>. QED
    BY <1>6, <1>8, <2>2 DEF Unread
<1>10. ASSUME NEW f \in Unread(stream)
       PROVE  f \in ToSet(Ahead)
  <2>1. PICK n \in 1..L : stream[n] = f
    BY <1>8 DEF Unread
  <2>2. k < n
    BY <1>1, <1>4, <1>5, <2>1 DEF Unread
  <2>3. n - k \in 1..Len(Ahead) /\ k + 1 + (n - k) - 1 = n
    BY <1>1, <1>4, <1>7, <2>2
  <2>4. Ahead[n - k] = f
    BY <1>7, <2>1, <2>3
  <2>. QED
    BY <1>8, <2>3, <2>4
<1>11. ToSet(Ahead) \subseteq 1..MaxFills
  BY <1>7, FillsAreNumbers
<1>. QED
  BY <1>7, <1>9, <1>10, <1>11, NumbersAreFills

(* What is delivered is the beginning of that.                             *)
LEMMA DeliveredIsNext ==
  ASSUME stream \in FillIds, Ordered(stream), cursor \in Nat, Delivered # << >>
  PROVE  /\ Delivered \in FillIds /\ Ordered(Delivered) /\ ToSet(Delivered) \subseteq Unread(stream)
         /\ Last(Delivered) \in ToSet(Delivered) /\ \A f \in ToSet(Delivered) : f <= Last(Delivered)
         /\ \A f \in Unread(stream) : f \in ToSet(Delivered) <=> f <= Last(Delivered)
<1>. DEFINE L == Len(Ahead)
            k == Min({BatchCount, L})
<1>1. Ahead \in FillIds /\ Ahead \in Seq(Int) /\ Ordered(Ahead) /\ ToSet(Ahead) = Unread(stream)
      /\ L \in Nat /\ \A n \in 1..L : Ahead[n] \in Int
  BY AheadIsUnread, FillsAreNumbers
<1>2. k \in 0..L
  <2>1. k = IF BatchCount <= L THEN BatchCount ELSE L
    BY <1>1, MinOfTwo, FillsAssumption
  <2>. QED
    BY <1>1, <2>1, FillsAssumption
<1>3. Delivered = SubSeq(Ahead, 1, k)
  BY DEF Delivered
<1>. HIDE DEF k
<1>4. /\ Delivered \in Seq(Int) /\ ToSet(Delivered) \subseteq ToSet(Ahead) /\ Ordered(Delivered)
      /\ Len(Delivered) = k /\ \A i \in 1..k : Delivered[i] = Ahead[i]
  <2>1. 1 \in Nat \ {0}
    OBVIOUS
  <2>2. /\ Delivered \in Seq(Int) /\ ToSet(Delivered) \subseteq ToSet(Ahead) /\ Ordered(Delivered)
        /\ Len(Delivered) = (IF 1 <= k THEN k - 1 + 1 ELSE 0)
        /\ \A i \in 1..Len(Delivered) : Delivered[i] = Ahead[1 + i - 1]
    BY <1>1, <1>2, <1>3, <2>1, PartOrdered
  <2>. QED
    BY <1>1, <1>2, <2>2
<1>. HIDE DEF L
<1>5. Last(Delivered) \in ToSet(Delivered) /\ \A f \in ToSet(Delivered) : f <= Last(Delivered)
  BY <1>4, LastIsLargest
<1>6. Last(Delivered) = Ahead[k] /\ k \in 1..L
  <2>1. k # 0
    BY <1>4
  <2>2. k \in 1..k /\ k \in 1..L
    BY <1>1, <1>2, <2>1
  <2>. QED
    BY <1>4, <2>2 DEF Last
<1>7. ASSUME NEW f \in Unread(stream), f <= Last(Delivered)
      PROVE  f \in ToSet(Delivered)
  <2>1. PICK n \in 1..L : Ahead[n] = f
    BY <1>1, SetOfSeq DEF L
  <2>2. ~(k < n)
    <3>1. k < n => Ahead[k] < Ahead[n]
      BY <1>1, <1>6, <2>1 DEF Ordered, L
    <3>. QED
      BY <1>1, <1>6, <1>7, <2>1, <3>1
  <2>3. n \in 1..k
    BY <1>1, <1>2, <2>2
  <2>. QED
    BY <1>4, <2>1, <2>3, SetOfSeq
<1>8. ToSet(Delivered) \subseteq 1..MaxFills
  BY <1>1, <1>4, FillsAreNumbers
<1>. QED
  BY <1>1, <1>4, <1>5, <1>7, <1>8, NumbersAreFills

-----------------------------------------------------------------------------
(* Records                                                                 *)

(* What the persist worker takes for stored is in the table; it is this,   *)
(* and not the order of its calls alone, that acknowledging needs.         *)
RecordedInv ==
  /\ stored \in BOOLEAN
  /\ acked \subseteq trades
  /\ stored => persisting # <<>> /\ ToSet(persisting) \subseteq trades

(* What RecordedInv is about.                                              *)
recordVars == <<stored, acked, trades, persisting>>

LEMMA RecordedInit == GatewayInit => RecordedInv
BY DEF GatewayInit, FillsInit, RecordedInv

(* The engine, Redis and the reader have no part in it.                    *)
LEMMA OthersLeaveRecords ==
  ASSUME Match(<<>>) \/ (\E fills : Match(fills)) \/ Publish \/ EngineCrashes \/ TakeBatch \/ Send \/ SendFails
  PROVE  UNCHANGED recordVars
BY DEF Match, Publish, EngineCrashes, TakeBatch, Send, SendFails, redisVars, consumerVars, tableVars, recordVars

LEMMA ReaderLeavesRecords ==
  ASSUME RedisRestarts \/ EnsureGroup \/ ReadBatch \/ ReadFails \/ Tell \/ HandOff \/ GatewayStarts
  PROVE  UNCHANGED recordVars
BY DEF RedisRestarts, EnsureGroup, ReadBatch, ReadFails, Tell, HandOff, GatewayStarts,
       engineVars, redisVars, consumerVars, tableVars, recordVars

(* The persist worker, one step after the other.                           *)
LEMMA WorkerKeepsRecords ==
  ASSUME RecordedInv,
         TakeForPersist \/ Persist \/ Acknowledge \/ AcknowledgeFails \/ PersistFails \/ GatewayStops
  PROVE  RecordedInv'
<1>1. CASE TakeForPersist
  BY <1>1 DEF TakeForPersist, RecordedInv, redisVars, tableVars
<1>2. CASE Persist
  BY <1>2 DEF Persist, Commit, RecordedInv, redisVars
<1>3. CASE Acknowledge
  BY <1>3 DEF Acknowledge, RecordedInv, tableVars
<1>4. CASE AcknowledgeFails
  BY <1>4 DEF AcknowledgeFails, RecordedInv, redisVars, tableVars
<1>5. CASE PersistFails
  BY <1>5 DEF PersistFails, RecordedInv, redisVars, tableVars
<1>6. CASE GatewayStops
  BY <1>6 DEF GatewayStops, RecordedInv, redisVars, tableVars
<1>. QED
  BY <1>1, <1>2, <1>3, <1>4, <1>5, <1>6

(* The handlers, each of which calls the engine or touches no fill.        *)
LEMMA HandlersLeaveRecords ==
  ASSUME NEW h \in Handlers,
         \/ \E o \in Orders : Submit(h, o) \/ LoadOrder(h, o)
         \/ CreateOrder(h) \/ PutLive(h) \/ CancelInEngine(h) \/ StoreCancel(h) \/ DeleteLive(h)
         \/ ModifyInEngine(h) \/ StoreModify(h) \/ StoreFails(h)
  PROVE  UNCHANGED recordVars
<1>1. \A o, quantity : Engine(o, quantity) => UNCHANGED recordVars
  BY OthersLeaveRecords DEF Engine
<1>2. CASE \E o \in Orders : Submit(h, o)
  BY <1>1, <1>2 DEF Submit
<1>3. CASE ModifyInEngine(h)
  BY <1>1, <1>3 DEF ModifyInEngine, pipeline, redisVars, consumerVars, tableVars, recordVars
<1>4. CASE (\E o \in Orders : LoadOrder(h, o)) \/ CreateOrder(h) \/ PutLive(h) \/ CancelInEngine(h)
  BY <1>4 DEF LoadOrder, CreateOrder, PutLive, CancelInEngine,
              pipeline, redisVars, consumerVars, tableVars, recordVars
<1>5. CASE StoreCancel(h) \/ DeleteLive(h) \/ StoreModify(h) \/ StoreFails(h)
  BY <1>5 DEF StoreCancel, DeleteLive, StoreModify, StoreFails,
              pipeline, redisVars, consumerVars, tableVars, recordVars
<1>. QED
  BY <1>2, <1>3, <1>4, <1>5

LEMMA RecordedStep ==
  ASSUME RecordedInv, [Next]_vars
  PROVE  RecordedInv'
<1>1. UNCHANGED recordVars => RecordedInv'
  BY DEF recordVars, RecordedInv
<1>2. CASE UNCHANGED vars
  BY <1>1, <1>2 DEF vars, pipeline, redisVars, consumerVars, tableVars, recordVars
<1>3. CASE \E h \in Handlers :
             \/ \E o \in Orders : Submit(h, o) \/ LoadOrder(h, o)
             \/ CreateOrder(h) \/ PutLive(h) \/ CancelInEngine(h) \/ StoreCancel(h) \/ DeleteLive(h)
             \/ ModifyInEngine(h) \/ StoreModify(h) \/ StoreFails(h)
  BY <1>1, <1>3, HandlersLeaveRecords
<1>4. CASE PublishAndAnswer \/ EngineRestarts
  BY <1>1, <1>4, OthersLeaveRecords DEF PublishAndAnswer, EngineRestarts
<1>5. CASE TellFill \/ StartAndHydrate
  BY <1>1, <1>5, ReaderLeavesRecords DEF TellFill, StartAndHydrate
<1>6. CASE PersistBatch \/ Stop
  BY <1>6, WorkerKeepsRecords DEF PersistBatch, Stop
<1>7. CASE Flow
  BY <1>1, <1>7, OthersLeaveRecords, ReaderLeavesRecords, WorkerKeepsRecords DEF Flow
<1>. QED
  BY <1>2, <1>3, <1>4, <1>5, <1>6, <1>7 DEF Next

-----------------------------------------------------------------------------
(* The way of the fills                                                    *)

Fill == [bid : Orders, ask : Orders, quantity : 1..Quantity]

(* The queues of the publisher and of the worker, as the fills in them.    *)
Queued == FlattenSeq(channel)
Waiting == FlattenSeq(persist_ch)

(* Each in order, and one behind the other.                                *)
InLine(s, t, u, v) ==
  /\ Ordered(s) /\ Ordered(t) /\ Ordered(u) /\ Ordered(v)
  /\ Before(ToSet(s), ToSet(t)) /\ Before(ToSet(s), ToSet(u)) /\ Before(ToSet(s), ToSet(v))
  /\ Before(ToSet(t), ToSet(u)) /\ Before(ToSet(t), ToSet(v)) /\ Before(ToSet(u), ToSet(v))

PipeTypes == made \in Seq(Fill) /\ PipelineTypeOK

(* What is on its way to the stream lies behind what is in it, and behind  *)
(* the cursor; without a group nothing in the stream was delivered.        *)
EngineOrder ==
  /\ InLine(stream, sending, Queued, unsent)
  /\ \A f \in ToSet(stream) \cup ToSet(sending) \cup ToSet(Queued) \cup ToSet(unsent) : f <= Len(made)
  /\ \A f \in ToSet(sending) \cup ToSet(Queued) \cup ToSet(unsent) : cursor < f
  /\ ~group => \A f \in ToSet(stream) : cursor < f
  /\ cursor <= Len(made)

(* What the gateway has it has in order, up to what clients were told of.  *)
GatewayOrder ==
  /\ InLine(persisting, Waiting, told, reading)
  /\ \A f \in ToSet(persisting) \cup ToSet(Waiting) \cup ToSet(told) : f <= last_told
  /\ \A f \in ToSet(reading) : last_told < f /\ f <= cursor
  /\ last_told <= cursor

(* What is in the table was taken off the rows once, what is on its way    *)
(* there not at all, and nothing is there that clients were not told of.   *)
TableInv ==
  /\ \A f \in 1..MaxFills : applied[f] = IF f \in trades THEN 1 ELSE 0
  /\ \A f \in trades : f <= last_told
  /\ \A f \in ToSet(Waiting) \cup ToSet(told) : f \notin trades
  /\ ~stored => \A f \in ToSet(persisting) : f \notin trades

(* The fills that have a fate but the table.                               *)
Gone == lost \cup trimmed \cup passed \cup stranded

(* No fill is missing.                                                     *)
AccountInv ==
  1..Len(made) = ToSet(persisting) \cup ToSet(Waiting) \cup ToSet(told) \cup ToSet(reading)
                   \cup Unread(stream) \cup ToSet(sending) \cup ToSet(Queued) \cup ToSet(unsent)
                   \cup trades \cup Gone

PipeInv == PipeTypes /\ RecordedInv /\ EngineOrder /\ GatewayOrder /\ TableInv /\ AccountInv

(* The fills the gateway has in memory.                                    *)
InHand == ToSet(persisting) \cup ToSet(Waiting) \cup ToSet(told) \cup ToSet(reading)

(* What the types say of the sequences.                                    *)
LEMMA PipeSequences ==
  ASSUME PipeTypes
  PROVE  /\ unsent \in FillIds /\ sending \in FillIds /\ stream \in FillIds /\ reading \in FillIds
         /\ told \in FillIds /\ persisting \in FillIds /\ Queued \in FillIds /\ Waiting \in FillIds
         /\ channel \in Seq(FillIds) /\ persist_ch \in Seq(FillIds)
         /\ Len(made) \in Nat /\ Len(made) <= MaxFills /\ MaxFills \in Nat
         /\ cursor \in Nat /\ last_told \in Nat /\ cursor \in Int /\ last_told \in Int
<1>1. /\ unsent \in FillIds /\ sending \in FillIds /\ stream \in FillIds /\ reading \in FillIds
      /\ told \in FillIds /\ persisting \in FillIds
      /\ channel \in Seq(FillIds) /\ persist_ch \in Seq(FillIds)
  BY DEF PipeTypes, PipelineTypeOK
<1>2. Queued \in FillIds /\ Waiting \in FillIds
  BY <1>1, FlattenType DEF Queued, Waiting, FillIds
<1>3. Len(made) \in Nat /\ Len(made) <= MaxFills /\ MaxFills \in Nat
  <2>1. made \in Seq(Fill) /\ Len(made) <= MaxFills
    BY DEF PipeTypes, PipelineTypeOK
  <2>. QED
    BY <2>1, FillsAssumption
<1>4. cursor \in Nat /\ last_told \in Nat
  BY <1>3 DEF PipeTypes, PipelineTypeOK
<1>. QED
  BY <1>1, <1>2, <1>3, <1>4

(* What is not touched stays in order.                                     *)
LEMMA GatewayUnmoved ==
  ASSUME GatewayOrder, TableInv, UNCHANGED <<consumerVars, tableVars, last_told, cursor>>
  PROVE  GatewayOrder' /\ TableInv'
BY DEF GatewayOrder, TableInv, consumerVars, tableVars, Waiting, InLine, Ordered, Before

LEMMA EngineUnmoved ==
  ASSUME EngineOrder, UNCHANGED <<engineVars, stream, group, cursor>>
  PROVE  EngineOrder'
BY DEF EngineOrder, engineVars, Queued, InLine, Ordered, Before

(* A call: its fills are new, and come last.                               *)
LEMMA MatchInOrder ==
  ASSUME PipeTypes, EngineOrder, GatewayOrder, TableInv, AccountInv, NEW fills \in Seq(Fill), Match(fills)
  PROVE  PipeTypes' /\ EngineOrder' /\ GatewayOrder' /\ TableInv' /\ AccountInv'
<1>. DEFINE L == Len(made)
            K == Len(fills)
<1>1. /\ unsent = << >> /\ L + K <= MaxFills /\ made' = made \o fills
      /\ unsent' = [n \in 1..K |-> L + n]
      /\ UNCHANGED <<channel, sending, redisVars, consumerVars, tableVars, up, last_told, missing, faults>>
  BY DEF Match, EngineIdle
<1>2. L \in Nat /\ K \in Nat /\ MaxFills \in Nat /\ made' \in Seq(Fill) /\ Len(made') = L + K
  BY <1>1, FillsAssumption DEF PipeTypes
<1>3. /\ unsent' \in FillIds /\ Ordered(unsent')
      /\ \A f : f \in ToSet(unsent') <=> f \in (L + 1)..(L + K)
  <2>. HIDE DEF L, K
  <2>1. \A n \in 1..K : L + n \in 1..MaxFills
    BY <1>1, <1>2
  <2>2. unsent' \in Seq(1..MaxFills) /\ Len(unsent') = K /\ \A n \in 1..K : unsent'[n] = L + n
    BY <1>1, <1>2, <2>1
  <2>3. Ordered(unsent')
    BY <1>2, <2>2 DEF Ordered
  <2>. DEFINE u == unsent'
  <2>4. (\A n \in 1..K : u[n] \in ToSet(u)) /\ \A x \in ToSet(u) : \E n \in 1..K : u[n] = x
    <3>1. u \in Seq(1..MaxFills) /\ Len(u) = K
      BY <2>2
    <3>. HIDE DEF u
    <3>. QED
      BY <3>1, SetOfSeq
  <2>5. ASSUME NEW f \in (L + 1)..(L + K)
        PROVE  f \in ToSet(u)
    <3>1. f - L \in 1..K /\ L + (f - L) = f
      BY <1>2
    <3>. QED
      BY <2>2, <2>4, <3>1
  <2>6. ASSUME NEW f \in ToSet(u)
        PROVE  f \in (L + 1)..(L + K)
    <3>1. PICK n \in 1..K : u[n] = f
      BY <2>4
    <3>. QED
      BY <1>2, <2>2, <3>1
  <2>. QED
    BY <2>2, <2>3, <2>5, <2>6 DEF FillIds
<1>. HIDE DEF L, K
<1>4. PipeTypes'
  BY <1>1, <1>2, <1>3 DEF PipeTypes, PipelineTypeOK, Gone, missing, redisVars, consumerVars, tableVars
<1>5. stream' = stream /\ sending' = sending /\ Queued' = Queued /\ cursor' = cursor /\ group' = group
  BY <1>1 DEF redisVars, Queued
<1>6. \A f \in ToSet(stream) \cup ToSet(sending) \cup ToSet(Queued) : f \in Nat /\ f <= L
  BY PipeSequences, FillsAreNumbers DEF EngineOrder, L
<1>7. cursor \in Nat /\ cursor <= L
  BY PipeSequences DEF EngineOrder, L
<1>8. EngineOrder'
  <2>1. InLine(stream, sending, Queued, unsent)
    BY DEF EngineOrder
  <2>2. \A a \in ToSet(stream) \cup ToSet(sending) \cup ToSet(Queued), b \in ToSet(unsent') : a < b
    BY <1>2, <1>3, <1>6
  <2>3. InLine(stream, sending, Queued, unsent')
    BY <1>3, <2>1, <2>2, Zenon DEF InLine, Before
  <2>4. \A f \in ToSet(stream) \cup ToSet(sending) \cup ToSet(Queued) \cup ToSet(unsent') : f <= L + K
    BY <1>2, <1>3, <1>6
  <2>5. \A f \in ToSet(sending) \cup ToSet(Queued) \cup ToSet(unsent') : cursor < f
    BY <1>2, <1>3, <1>7 DEF EngineOrder
  <2>6. cursor <= L + K /\ (~group => \A f \in ToSet(stream) : cursor < f)
    BY <1>2, <1>7 DEF EngineOrder
  <2>7. InLine(stream, sending, Queued, unsent)'
    BY <1>5, <2>3, Zenon
  <2>. QED
    BY <1>2, <1>5, <2>4, <2>5, <2>6, <2>7, Zenon DEF EngineOrder
<1>9. GatewayOrder' /\ TableInv'
  BY <1>1, <1>5, GatewayUnmoved
<1>10. AccountInv'
  <2>1. 1..(L + K) = (1..L) \cup ((L + 1)..(L + K))
    BY <1>2
  <2>2. ToSet(unsent) = {}
    BY <1>1, SetOfNone
  <2>3. /\ Unread(stream)' = Unread(stream) /\ Waiting' = Waiting /\ persisting' = persisting
        /\ told' = told /\ reading' = reading /\ trades' = trades /\ Gone' = Gone
    BY <1>1 DEF Unread, Gone, missing, Waiting, redisVars, consumerVars, tableVars
  <2>. DEFINE rest == ToSet(persisting) \cup ToSet(Waiting) \cup ToSet(told) \cup ToSet(reading)
                        \cup Unread(stream) \cup ToSet(sending) \cup ToSet(Queued) \cup trades \cup Gone
  <2>4. 1..L = rest
    BY <2>2, Zenon DEF AccountInv, L
  <2>5. 1..Len(made') = rest \cup ToSet(unsent')
    BY <1>2, <1>3, <2>1, <2>4, Zenon
  <2>. QED
    BY <1>5, <2>3, <2>5, Zenon DEF AccountInv
<1>. QED
  BY <1>4, <1>8, <1>9, <1>10

(* Into the publisher's queue, and out of it in one batch: all that is     *)
(* there stays there, in its order.                                        *)
LEMMA PublishInOrder ==
  ASSUME PipeTypes, EngineOrder, GatewayOrder, TableInv, AccountInv, Publish \/ TakeBatch
  PROVE  PipeTypes' /\ EngineOrder' /\ GatewayOrder' /\ TableInv' /\ AccountInv'
<1>. DEFINE coming == ToSet(sending) \cup ToSet(Queued) \cup ToSet(unsent)
<1>1. /\ UNCHANGED <<made, redisVars, consumerVars, tableVars, up, last_told, missing, faults>>
      /\ stream' = stream /\ cursor' = cursor /\ group' = group
      /\ Unread(stream)' = Unread(stream) /\ Waiting' = Waiting
  BY DEF Publish, TakeBatch, redisVars, consumerVars, Unread, Waiting
<1>2. InLine(stream, sending, Queued, unsent)
  BY DEF EngineOrder
<1>3. /\ PipeTypes' /\ InLine(stream, sending', Queued', unsent')
      /\ ToSet(sending') \cup ToSet(Queued') \cup ToSet(unsent') = coming
  <2>1. CASE Publish
    <3>1. /\ channel' = Append(channel, unsent) /\ Len(channel) < ChannelRoom
          /\ unsent' = << >> /\ sending' = sending
      BY <2>1 DEF Publish
    <3>2. Queued' = Queued \o unsent
      BY <3>1, PipeSequences, FlattenAppend DEF Queued, FillIds
    <3>3. /\ ToSet(Queued') = ToSet(Queued) \cup ToSet(unsent)
          /\ Ordered(Queued') <=> Ordered(Queued) /\ Ordered(unsent) /\ Before(ToSet(Queued), ToSet(unsent))
      <4>1. Queued \in Seq(Int) /\ unsent \in Seq(Int)
        BY PipeSequences, FillsAreNumbers
      <4>. QED
        BY <3>2, <4>1, ConcatOrdered
    <3>4. ToSet(unsent') = {} /\ Ordered(unsent')
      BY <3>1, SetOfNone
    <3>5. InLine(stream, sending', Queued', unsent')
      BY <1>2, <3>1, <3>3, <3>4, Zenon DEF InLine, Before
    <3>6. << >> \in FillIds
      BY DEF FillIds
    <3>7. channel' \in Seq(FillIds) /\ Len(channel') <= ChannelRoom
      <4>. DEFINE F == FillIds
      <4>1. channel \in Seq(F) /\ unsent \in F
        BY PipeSequences
      <4>. HIDE DEF F
      <4>2. channel' \in Seq(F) /\ Len(channel') = Len(channel) + 1 /\ Len(channel) \in Nat
        BY <3>1, <4>1
      <4>. QED
        BY <3>1, <4>2, FillsAssumption DEF F
    <3>8. PipeTypes'
      BY <1>1, <3>1, <3>6, <3>7 DEF PipeTypes, PipelineTypeOK, Gone, missing, redisVars, consumerVars, tableVars
    <3>. QED
      BY <3>1, <3>3, <3>4, <3>5, <3>8, Zenon
  <2>2. CASE TakeBatch
    <3>1. sending = << >> /\ sending' = Queued /\ channel' = << >> /\ unsent' = unsent
      BY <2>2 DEF TakeBatch, Queued
    <3>2. Queued' = << >>
      BY <3>1, FlattenNone DEF Queued
    <3>3. ToSet(sending) = {} /\ ToSet(Queued') = {} /\ Ordered(Queued')
      BY <3>1, <3>2, SetOfNone
    <3>4. InLine(stream, sending', Queued', unsent')
      BY <1>2, <3>1, <3>3, Zenon DEF InLine, Before
    <3>5. channel' \in Seq(FillIds) /\ Len(channel') <= ChannelRoom
      BY <3>1, FillsAssumption
    <3>6. sending' \in FillIds
      BY <3>1, PipeSequences
    <3>7. PipeTypes'
      BY <1>1, <3>1, <3>5, <3>6 DEF PipeTypes, PipelineTypeOK, Gone, missing, redisVars, consumerVars, tableVars
    <3>. QED
      BY <3>1, <3>3, <3>4, <3>7, Zenon
  <2>. QED
    BY <2>1, <2>2
<1>. HIDE DEF coming
<1>4. EngineOrder'
  <2>1. \A f \in ToSet(stream) \cup coming : f <= Len(made)
    BY Zenon DEF EngineOrder, coming
  <2>2. \A f \in coming : cursor < f
    BY Zenon DEF EngineOrder, coming
  <2>3. InLine(stream, sending, Queued, unsent)'
    BY <1>1, <1>3, Zenon
  <2>4. made' = made
    BY <1>1
  <2>. QED
    BY <1>1, <1>3, <2>1, <2>2, <2>3, <2>4, Zenon DEF EngineOrder
<1>5. GatewayOrder' /\ TableInv'
  BY <1>1, GatewayUnmoved
<1>6. AccountInv'
  <2>1. 1..Len(made) = ToSet(persisting) \cup ToSet(Waiting) \cup ToSet(told) \cup ToSet(reading)
                         \cup Unread(stream) \cup coming \cup trades \cup Gone
    BY Zenon DEF AccountInv, coming
  <2>2. /\ made' = made /\ persisting' = persisting /\ told' = told /\ reading' = reading
        /\ trades' = trades /\ Gone' = Gone
    BY <1>1 DEF Gone, missing, consumerVars, tableVars
  <2>. QED
    BY <1>1, <1>3, <2>1, <2>2, Zenon DEF AccountInv
<1>. QED
  BY <1>3, <1>4, <1>5, <1>6

(* What the engine loses, or the stream drops, is lost.                    *)
LEMMA EngineLosesInOrder ==
  ASSUME PipeTypes, EngineOrder, GatewayOrder, TableInv, AccountInv, EngineCrashes \/ RedisRestarts
  PROVE  PipeTypes' /\ EngineOrder' /\ GatewayOrder' /\ TableInv' /\ AccountInv'
<1>1. /\ UNCHANGED <<made, acked, cursor, consumerVars, tableVars, up, last_told>>
      /\ Waiting' = Waiting /\ faults < MaxFaults /\ faults' = faults + 1
      /\ pending' \subseteq pending
  BY DEF EngineCrashes, RedisRestarts, Faulty, engineVars, redisVars, consumerVars, Waiting
<1>2. faults' \in 0..MaxFaults
  BY <1>1, FillsAssumption DEF PipeTypes, PipelineTypeOK, Gone, missing
<1>3. << >> \in FillIds /\ << >> \in Seq(FillIds) /\ 0 <= ChannelRoom
  BY FillsAssumption DEF FillIds
<1>4. GatewayOrder' /\ TableInv'
  BY <1>1, GatewayUnmoved
<1>5. CASE EngineCrashes
  <2>1. /\ unsent' = << >> /\ channel' = << >> /\ sending' = << >> /\ stream' = stream /\ group' = group
        /\ Gone' = Gone \cup ToSet(unsent \o Queued \o sending)
    BY <1>5 DEF EngineCrashes, Gone, redisVars, Queued
  <2>2. Queued' = << >>
    BY <2>1, FlattenNone DEF Queued
  <2>3. Gone' = Gone \cup ToSet(unsent) \cup ToSet(Queued) \cup ToSet(sending)
    <3>. DEFINE u == unsent \o Queued
    <3>1. unsent \in Seq(Int) /\ Queued \in Seq(Int) /\ sending \in Seq(Int)
      BY PipeSequences, FillsAreNumbers
    <3>2. u \in Seq(Int) /\ ToSet(u) = ToSet(unsent) \cup ToSet(Queued)
      BY <3>1, ConcatOrdered
    <3>. HIDE DEF u
    <3>3. ToSet(u \o sending) = ToSet(u) \cup ToSet(sending)
      BY <3>1, <3>2, ConcatOrdered
    <3>. QED
      BY <2>1, <3>2, <3>3, Zenon DEF u
  <2>4. Gone' \subseteq 1..MaxFills
    BY <2>3, PipeSequences, FillsAreNumbers DEF PipeTypes, PipelineTypeOK, Gone, missing
  <2>5. PipeTypes'
    BY <1>1, <1>2, <1>3, <2>1, <2>4 DEF PipeTypes, PipelineTypeOK, Gone, missing, consumerVars, tableVars
  <2>6. /\ ToSet(sending') = {} /\ ToSet(Queued') = {} /\ ToSet(unsent') = {}
        /\ Ordered(sending') /\ Ordered(Queued') /\ Ordered(unsent')
    BY <2>1, <2>2, SetOfNone
  <2>7. EngineOrder'
    <3>1. Ordered(stream) /\ \A f \in ToSet(stream) : f <= Len(made)
      BY Zenon DEF EngineOrder, InLine
    <3>2. InLine(stream, sending, Queued, unsent)'
      BY <2>1, <2>6, <3>1, Zenon DEF InLine, Before
    <3>. QED
      BY <1>1, <2>1, <2>6, <3>1, <3>2, Zenon DEF EngineOrder
  <2>8. AccountInv'
    <3>1. Unread(stream)' = Unread(stream)
      BY <1>1, <2>1 DEF Unread
    <3>2. /\ made' = made /\ persisting' = persisting /\ told' = told /\ reading' = reading /\ trades' = trades
      BY <1>1 DEF consumerVars, tableVars
    <3>. QED
      BY <1>1, <2>3, <2>6, <3>1, <3>2, Zenon DEF AccountInv
  <2>. QED
    BY <1>4, <2>5, <2>7, <2>8
<1>6. CASE RedisRestarts
  <2>1. /\ stream' = << >> /\ group' = FALSE /\ Gone' = Gone \cup Unread(stream)
        /\ UNCHANGED engineVars /\ Queued' = Queued
    BY <1>6 DEF RedisRestarts, Gone, engineVars, Queued
  <2>2. Gone' \subseteq 1..MaxFills
    BY <2>1, PipeSequences, FillsAreNumbers DEF PipeTypes, PipelineTypeOK, Gone, missing, Unread
  <2>3. PipeTypes'
    BY <1>1, <1>2, <1>3, <2>1, <2>2 DEF PipeTypes, PipelineTypeOK, Gone, missing, engineVars, consumerVars, tableVars
  <2>4. ToSet(stream') = {} /\ Ordered(stream')
    BY <2>1, SetOfNone
  <2>5. Unread(stream)' = {}
    BY <2>4 DEF Unread
  <2>6. EngineOrder'
    <3>1. InLine(stream, sending, Queued, unsent)'
      BY <2>1, <2>4, Zenon DEF EngineOrder, InLine, Before, engineVars
    <3>. QED
      BY <1>1, <2>1, <2>4, <3>1, Zenon DEF EngineOrder, engineVars
  <2>7. AccountInv'
    <3>1. /\ made' = made /\ persisting' = persisting /\ told' = told /\ reading' = reading /\ trades' = trades
          /\ sending' = sending /\ unsent' = unsent
      BY <1>1, <2>1 DEF engineVars, consumerVars, tableVars
    <3>. QED
      BY <1>1, <2>1, <2>5, <3>1, Zenon DEF AccountInv
  <2>. QED
    BY <1>4, <2>3, <2>6, <2>7
<1>. QED
  BY <1>5, <1>6

(* Trimming drops a beginning of the stream.                               *)
LEMMA TrimmedIsPart ==
  ASSUME NEW s \in Seq(Int), NEW t \in Trimmed(s)
  PROVE  t \in Seq(Int) /\ ToSet(t) \subseteq ToSet(s) /\ (Ordered(s) => Ordered(t))
<1>1. Len(s) \in Int /\ Len(s) \in 0..Len(s) /\ Len(s) - StreamRoom + 1 \in Int
  BY FillsAssumption
<1>2. PICK n \in 1..(Max({1, Len(s) - StreamRoom + 1})) : t = SubSeq(s, n, Len(s))
  BY DEF Trimmed
<1>3. Max({1, Len(s) - StreamRoom + 1}) \in Int
  BY <1>1, MaxOfTwo
<1>4. n \in Nat \ {0}
  BY <1>2, <1>3
<1>. QED
  BY <1>1, <1>2, <1>4, PartOrdered

(* The batch, or as much of it as arrived, goes behind the stream.         *)
LEMMA TakenInOrder ==
  ASSUME PipeTypes, EngineOrder, GatewayOrder, TableInv, AccountInv,
         UNCHANGED <<made, unsent, channel, group, cursor, pending, acked, consumerVars, tableVars, up, last_told>>,
         faults' \in 0..MaxFaults,
         NEW taken \in Seq(Int), NEW rest \in Seq(Int), Ordered(taken),
         ToSet(taken) \cup ToSet(rest) = ToSet(stream) \cup ToSet(sending),
         ToSet(rest) \subseteq ToSet(sending),
         stream' \in Trimmed(taken), sending' = << >>,
         Gone' = Gone \cup ToSet(rest) \cup (Unread(taken) \ ToSet(stream'))
  PROVE  PipeTypes' /\ EngineOrder' /\ GatewayOrder' /\ TableInv' /\ AccountInv'
<1>1. GatewayOrder' /\ TableInv' /\ Queued' = Queued /\ Waiting' = Waiting
  BY GatewayUnmoved DEF Queued, Waiting, consumerVars
<1>2. stream' \in Seq(Int) /\ ToSet(stream') \subseteq ToSet(taken) /\ Ordered(stream')
  BY TrimmedIsPart
<1>3. ToSet(stream') \subseteq ToSet(stream) \cup ToSet(sending)
  BY <1>2
<1>4. /\ ToSet(stream) \cup ToSet(sending) \subseteq 1..MaxFills
      /\ \A f \in ToSet(stream) \cup ToSet(sending) : f \in Nat
  BY PipeSequences, FillsAreNumbers
<1>5. ToSet(sending') = {} /\ Ordered(sending')
  BY SetOfNone
<1>6. PipeTypes'
  <2>1. stream' \in FillIds
    BY <1>2, <1>3, <1>4, NumbersAreFills
  <2>2. sending' \in FillIds
    BY DEF FillIds
  <2>3. Gone' \subseteq 1..MaxFills
    <3>1. Gone \subseteq 1..MaxFills
      BY DEF PipeTypes, PipelineTypeOK, Gone, missing
    <3>2. Unread(taken) \subseteq ToSet(taken)
      BY DEF Unread
    <3>. QED
      BY <1>4, <3>1, <3>2
  <2>. QED
    BY <2>1, <2>2, <2>3 DEF PipeTypes, PipelineTypeOK, Gone, missing, consumerVars, tableVars
<1>7. EngineOrder'
  <2>1. InLine(stream, sending, Queued, unsent)
    BY DEF EngineOrder
  <2>2. InLine(stream', sending', Queued, unsent)
    BY <1>2, <1>3, <1>5, <2>1, Zenon DEF InLine, Before
  <2>3. InLine(stream, sending, Queued, unsent)'
    BY <1>1, <2>2, Zenon
  <2>4. \A f \in ToSet(stream') : f <= Len(made)
    BY <1>3, Zenon DEF EngineOrder
  <2>5. ~group => \A f \in ToSet(stream') : cursor < f
    BY <1>3, Zenon DEF EngineOrder
  <2>. QED
    BY <1>1, <1>5, <2>3, <2>4, <2>5, Zenon DEF EngineOrder
<1>8. AccountInv'
  <2>1. /\ made' = made /\ persisting' = persisting /\ told' = told /\ reading' = reading /\ trades' = trades
        /\ unsent' = unsent
    BY DEF consumerVars, tableVars
  <2>2. Unread(stream)' = Unread(taken) \cap ToSet(stream')
    BY <1>2, Zenon DEF Unread
  <2>3. Unread(stream) \cup ToSet(sending) = Unread(taken) \cup ToSet(rest)
    <3>1. \A f \in ToSet(sending) : cursor < f
      BY Zenon DEF EngineOrder
    <3>2. \A f \in Nat : f > cursor <=> cursor < f
      BY PipeSequences
    <3>. QED
      BY <1>4, <3>1, <3>2 DEF Unread
  <2>4. Unread(stream)' \cup Gone' = Unread(stream) \cup ToSet(sending) \cup Gone
    <3>. HIDE DEF Unread
    <3>. QED
      BY <2>2, <2>3
  <2>. QED
    BY <1>1, <1>5, <2>1, <2>4, Zenon DEF AccountInv
<1>. QED
  BY <1>1, <1>6, <1>7, <1>8

LEMMA SendInOrder ==
  ASSUME PipeTypes, EngineOrder, GatewayOrder, TableInv, AccountInv, Send \/ SendFails
  PROVE  PipeTypes' /\ EngineOrder' /\ GatewayOrder' /\ TableInv' /\ AccountInv'
<1>1. stream \in Seq(Int) /\ sending \in Seq(Int)
  BY PipeSequences, FillsAreNumbers
<1>2. Ordered(stream) /\ Ordered(sending) /\ Before(ToSet(stream), ToSet(sending))
  BY Zenon DEF EngineOrder, InLine
<1>3. CASE Send
  <2>. DEFINE taken == stream \o sending
              rest == << >>
  <2>1. /\ taken \in Seq(Int) /\ Ordered(taken) /\ ToSet(taken) = ToSet(stream) \cup ToSet(sending)
        /\ rest \in Seq(Int) /\ ToSet(rest) = {}
    BY <1>1, <1>2, ConcatOrdered, SetOfNone
  <2>2. /\ UNCHANGED <<made, unsent, channel, group, cursor, pending, acked, consumerVars, tableVars, up, last_told, faults>>
        /\ stream' \in Trimmed(taken) /\ sending' = << >>
        /\ Gone' = Gone \cup (Unread(taken) \ ToSet(stream'))
    BY <1>3 DEF Send, Gone
  <2>3. faults' \in 0..MaxFaults
    BY <2>2 DEF PipeTypes, PipelineTypeOK, Gone, missing
  <2>. HIDE DEF taken, rest
  <2>4. Gone' = Gone \cup ToSet(rest) \cup (Unread(taken) \ ToSet(stream'))
    BY <2>1, <2>2, Zenon
  <2>5. ToSet(taken) \cup ToSet(rest) = ToSet(stream) \cup ToSet(sending) /\ ToSet(rest) \subseteq ToSet(sending)
    BY <2>1, Zenon
  <2>. QED
    BY <2>1, <2>2, <2>3, <2>4, <2>5, TakenInOrder
<1>4. CASE SendFails
  <2>1. /\ UNCHANGED <<made, unsent, channel, group, cursor, pending, acked, consumerVars, tableVars, up, last_told>>
        /\ faults < MaxFaults /\ faults' = faults + 1 /\ sending' = << >>
    BY <1>4 DEF SendFails, Faulty
  <2>2. PICK n \in 0..Len(sending) :
          LET some == stream \o SubSeq(sending, 1, n)
          IN  /\ stream' \in Trimmed(some)
              /\ Gone' = Gone \cup ToSet(SubSeq(sending, n + 1, Len(sending))) \cup (Unread(some) \ ToSet(stream'))
    BY <1>4 DEF SendFails, Gone
  <2>. DEFINE part == SubSeq(sending, 1, n)
              rest == SubSeq(sending, n + 1, Len(sending))
              taken == stream \o part
  <2>3. faults' \in 0..MaxFaults
    BY <2>1, FillsAssumption DEF PipeTypes, PipelineTypeOK, Gone, missing
  <2>4. /\ part \in Seq(Int) /\ Ordered(part) /\ ToSet(part) \subseteq ToSet(sending)
        /\ rest \in Seq(Int) /\ ToSet(rest) \subseteq ToSet(sending)
    <3>1. 1 \in Nat \ {0} /\ n + 1 \in Nat \ {0} /\ Len(sending) \in 0..Len(sending)
      BY <1>1
    <3>2. part \in Seq(Int) /\ Ordered(part) /\ ToSet(part) \subseteq ToSet(sending)
      BY <1>1, <1>2, <3>1, PartOrdered
    <3>3. rest \in Seq(Int) /\ ToSet(rest) \subseteq ToSet(sending)
      BY <1>1, <3>1, PartOrdered
    <3>. QED
      BY <3>2, <3>3
  <2>5. ToSet(sending) = ToSet(part) \cup ToSet(rest)
    BY <1>1, PartsOfSeq
  <2>6. stream' \in Trimmed(taken) /\ Gone' = Gone \cup ToSet(rest) \cup (Unread(taken) \ ToSet(stream'))
    BY <2>2
  <2>. HIDE DEF part, rest
  <2>7. Before(ToSet(stream), ToSet(part))
    BY <1>2, <2>4, Zenon DEF Before
  <2>8. taken \in Seq(Int) /\ Ordered(taken) /\ ToSet(taken) = ToSet(stream) \cup ToSet(part)
    BY <1>1, <1>2, <2>4, <2>7, ConcatOrdered
  <2>. HIDE DEF taken
  <2>9. ToSet(taken) \cup ToSet(rest) = ToSet(stream) \cup ToSet(sending)
    BY <2>5, <2>8, Zenon
  <2>. QED
    BY <2>1, <2>3, <2>4, <2>6, <2>8, <2>9, TakenInOrder
<1>. QED
  BY <1>3, <1>4

(* A new group starts behind what is there: nobody will be told of it.     *)
LEMMA GroupInOrder ==
  ASSUME PipeTypes, EngineOrder, GatewayOrder, TableInv, AccountInv, EnsureGroup
  PROVE  PipeTypes' /\ EngineOrder' /\ GatewayOrder' /\ TableInv' /\ AccountInv'
<1>1. /\ reading = << >> /\ told = << >> /\ ~group /\ group' = TRUE /\ Gone' = Gone \cup Unread(stream)
      /\ cursor' = (IF stream = << >> THEN cursor ELSE Last(stream))
      /\ UNCHANGED <<engineVars, stream, pending, acked, consumerVars, tableVars, up, last_told, faults>>
      /\ Queued' = Queued /\ Waiting' = Waiting
  BY DEF EnsureGroup, Gone, ReaderFree, engineVars, consumerVars, Queued, Waiting
<1>2. stream \in FillIds /\ stream \in Seq(Int) /\ ToSet(stream) \subseteq 1..MaxFills /\ cursor \in Nat
      /\ last_told \in Nat /\ MaxFills \in Nat
  BY PipeSequences, FillsAreNumbers
<1>3. /\ cursor' \in 0..MaxFills /\ cursor <= cursor' /\ cursor' <= Len(made)
      /\ \A f \in ToSet(stream) : f <= cursor'
      /\ \A f \in ToSet(sending) \cup ToSet(Queued) \cup ToSet(unsent) : cursor' < f
  <2>1. CASE stream = << >>
    <3>1. ToSet(stream) = {}
      BY <2>1, SetOfNone
    <3>2. cursor' = cursor
      BY <1>1, <2>1
    <3>. QED
      BY <1>2, <3>1, <3>2 DEF EngineOrder, PipeTypes, PipelineTypeOK
  <2>2. CASE stream # << >>
    <3>1. Last(stream) \in ToSet(stream) /\ \A f \in ToSet(stream) : f <= Last(stream)
      BY <1>2, <2>2, LastIsLargest DEF EngineOrder, InLine
    <3>2. cursor' = Last(stream)
      BY <1>1, <2>2
    <3>3. cursor < Last(stream) /\ Last(stream) <= Len(made)
      BY <1>1, <3>1 DEF EngineOrder
    <3>4. \A f \in ToSet(sending) \cup ToSet(Queued) \cup ToSet(unsent) : Last(stream) < f
      BY <3>1, Zenon DEF EngineOrder, InLine, Before
    <3>5. Last(stream) \in 1..MaxFills
      BY <1>2, <3>1
    <3>. QED
      BY <1>2, <3>1, <3>2, <3>3, <3>4, <3>5
  <2>. QED
    BY <2>1, <2>2
<1>4. PipeTypes'
  <2>1. Gone' \subseteq 1..MaxFills
    BY <1>1, <1>2 DEF PipeTypes, PipelineTypeOK, Gone, missing, Unread
  <2>. QED
    BY <1>1, <1>3, <2>1 DEF PipeTypes, PipelineTypeOK, Gone, missing, engineVars, consumerVars, tableVars
<1>5. EngineOrder'
  BY <1>1, <1>3, Zenon DEF EngineOrder, engineVars, InLine
<1>6. GatewayOrder'
  <2>1. ToSet(reading) = {} /\ last_told <= cursor'
    BY <1>1, <1>2, <1>3, SetOfNone DEF GatewayOrder
  <2>2. /\ persisting' = persisting /\ told' = told /\ reading' = reading /\ last_told' = last_told
    BY <1>1 DEF consumerVars
  <2>3. InLine(persisting, Waiting, told, reading)'
    BY <1>1, <2>2, Zenon DEF GatewayOrder
  <2>. QED
    BY <1>1, <2>1, <2>2, <2>3, Zenon DEF GatewayOrder
<1>7. TableInv'
  BY <1>1, Zenon DEF TableInv, consumerVars, tableVars
<1>8. AccountInv'
  <2>1. Unread(stream)' = {}
    BY <1>1, <1>2, <1>3 DEF Unread
  <2>2. /\ made' = made /\ persisting' = persisting /\ told' = told /\ reading' = reading /\ trades' = trades
        /\ sending' = sending /\ unsent' = unsent
    BY <1>1 DEF engineVars, consumerVars, tableVars
  <2>. QED
    BY <1>1, <2>1, <2>2, Zenon DEF AccountInv
<1>. QED
  BY <1>4, <1>5, <1>6, <1>7, <1>8

(* A read moves the cursor behind what it delivers, whether the answer     *)
(* arrives or not.                                                         *)
LEMMA ReadInOrder ==
  ASSUME PipeTypes, EngineOrder, GatewayOrder, TableInv, AccountInv, ReadBatch \/ ReadFails
  PROVE  PipeTypes' /\ EngineOrder' /\ GatewayOrder' /\ TableInv' /\ AccountInv'
<1>1. /\ reading = << >> /\ told = << >> /\ group /\ Delivered # << >> /\ cursor' = Last(Delivered)
      /\ pending' = pending \cup ToSet(Delivered)
      /\ UNCHANGED <<engineVars, stream, group, acked, told, persist_ch, persisting, stored, tableVars, up, last_told>>
      /\ Queued' = Queued /\ Waiting' = Waiting
  BY DEF ReadBatch, ReadFails, ReaderFree, engineVars, consumerVars, Queued, Waiting
<1>2. /\ Delivered \in FillIds /\ Ordered(Delivered) /\ ToSet(Delivered) \subseteq Unread(stream)
      /\ Last(Delivered) \in ToSet(Delivered) /\ \A f \in ToSet(Delivered) : f <= Last(Delivered)
      /\ \A f \in Unread(stream) : f \in ToSet(Delivered) <=> f <= Last(Delivered)
  BY <1>1, DeliveredIsNext, PipeSequences DEF EngineOrder, InLine
<1>3. /\ ToSet(stream) \subseteq 1..MaxFills /\ cursor \in Nat /\ last_told \in Nat /\ MaxFills \in Nat
  BY PipeSequences, FillsAreNumbers
<1>4. /\ Last(Delivered) \in ToSet(stream) /\ cursor < Last(Delivered) /\ Last(Delivered) \in 1..MaxFills
      /\ \A f \in ToSet(Delivered) : cursor < f
  BY <1>2, <1>3 DEF Unread
<1>5. EngineOrder'
  <2>1. cursor' <= Len(made)
    BY <1>1, <1>4, Zenon DEF EngineOrder
  <2>2. \A f \in ToSet(sending) \cup ToSet(Queued) \cup ToSet(unsent) : cursor' < f
    BY <1>1, <1>4, Zenon DEF EngineOrder, InLine, Before
  <2>. QED
    BY <1>1, <2>1, <2>2, Zenon DEF EngineOrder, engineVars, InLine
<1>6. TableInv'
  BY <1>1, Zenon DEF TableInv, tableVars
<1>7. last_told < cursor' /\ last_told <= cursor
  BY <1>1, <1>3, <1>4 DEF GatewayOrder
<1>8. ToSet(reading) = {} /\ Ordered(reading)
  BY <1>1, SetOfNone
<1>9. Unread(stream)' = Unread(stream) \ ToSet(Delivered)
  <2>1. ASSUME NEW f \in ToSet(stream)
        PROVE  f > cursor' <=> f > cursor /\ f \notin ToSet(Delivered)
    <3>1. f \in Nat /\ Last(Delivered) \in Nat
      BY <1>3, <1>4
    <3>2. f > cursor => (f \in ToSet(Delivered) <=> f <= Last(Delivered))
      BY <1>2 DEF Unread
    <3>3. f > Last(Delivered) => f > cursor
      BY <1>3, <1>4, <3>1
    <3>. QED
      BY <1>1, <3>1, <3>2, <3>3
  <2>2. stream' = stream
    BY <1>1
  <2>. QED
    BY <2>1, <2>2, Zenon DEF Unread
<1>10. CASE ReadBatch
  <2>1. reading' = Delivered /\ Gone' = Gone /\ faults' = faults
    BY <1>10 DEF ReadBatch, Gone, missing
  <2>2. PipeTypes'
    <3>1. ToSet(Delivered) \subseteq 1..MaxFills
      BY <1>2, <1>3 DEF Unread
    <3>2. pending' \subseteq 1..MaxFills
      BY <1>1, <3>1 DEF PipeTypes, PipelineTypeOK
    <3>3. Gone' \subseteq 1..MaxFills
      BY <2>1 DEF PipeTypes, PipelineTypeOK, Gone
    <3>. QED
      BY <1>1, <1>2, <1>4, <2>1, <3>2, <3>3 DEF PipeTypes, PipelineTypeOK, Gone, engineVars, tableVars
  <2>3. GatewayOrder'
    <3>1. \A f \in ToSet(reading') : last_told < f /\ f <= cursor'
      BY <1>1, <1>2, <1>3, <1>4, <1>7, <2>1 DEF Unread
    <3>2. ToSet(told) = {} /\ \A f \in ToSet(persisting) \cup ToSet(Waiting) : f <= last_told
      BY <1>1, SetOfNone DEF GatewayOrder
    <3>3. \A a \in ToSet(persisting) \cup ToSet(Waiting), b \in ToSet(reading') : a < b
      <4>1. \A a \in ToSet(persisting) \cup ToSet(Waiting) : a \in Nat
        BY PipeSequences, FillsAreNumbers
      <4>2. \A b \in ToSet(reading') : b \in Nat
        BY <1>2, <1>3, <2>1 DEF Unread
      <4>. QED
        BY <1>3, <3>1, <3>2, <4>1, <4>2
    <3>4. InLine(persisting, Waiting, told, reading')
      BY <1>2, <2>1, <3>2, <3>3, Zenon DEF GatewayOrder, InLine, Before
    <3>5. InLine(persisting, Waiting, told, reading)'
      BY <1>1, <3>4, Zenon
    <3>6. last_told' <= cursor'
      BY <1>1, <1>3, <1>4, <1>7
    <3>. QED
      BY <1>1, <3>1, <3>2, <3>5, <3>6, Zenon DEF GatewayOrder
  <2>4. AccountInv'
    <3>1. Unread(stream) = Unread(stream)' \cup ToSet(reading')
      BY <1>2, <1>9, <2>1, Zenon
    <3>2. made' = made /\ sending' = sending /\ unsent' = unsent /\ trades' = trades
      BY <1>1 DEF engineVars, tableVars
    <3>. QED
      BY <1>1, <1>8, <2>1, <3>1, <3>2, Zenon DEF AccountInv
  <2>. QED
    BY <1>5, <1>6, <2>2, <2>3, <2>4
<1>11. CASE ReadFails
  <2>1. reading' = reading /\ Gone' = Gone \cup ToSet(Delivered) /\ faults < MaxFaults /\ faults' = faults + 1
    BY <1>11 DEF ReadFails, Gone, Faulty, consumerVars
  <2>2. PipeTypes'
    <3>1. Gone' \subseteq 1..MaxFills
      BY <1>2, <1>3, <2>1 DEF PipeTypes, PipelineTypeOK, Gone, missing, Unread
    <3>2. faults' \in 0..MaxFaults
      BY <2>1, FillsAssumption DEF PipeTypes, PipelineTypeOK, Gone, missing
    <3>. QED
      BY <1>1, <1>4, <2>1, <3>1, <3>2 DEF PipeTypes, PipelineTypeOK, Gone, missing, engineVars, tableVars
  <2>3. GatewayOrder'
    <3>1. InLine(persisting, Waiting, told, reading)'
      BY <1>1, <2>1, Zenon DEF GatewayOrder
    <3>2. last_told' <= cursor'
      BY <1>1, <1>3, <1>4, <1>7
    <3>. QED
      BY <1>1, <1>8, <2>1, <3>1, <3>2, Zenon DEF GatewayOrder
  <2>4. AccountInv'
    <3>1. Unread(stream) \cup Gone = Unread(stream)' \cup Gone'
      BY <1>2, <1>9, <2>1, Zenon
    <3>2. made' = made /\ sending' = sending /\ unsent' = unsent /\ trades' = trades
      BY <1>1 DEF engineVars, tableVars
    <3>. QED
      BY <1>1, <2>1, <3>1, <3>2, Zenon DEF AccountInv
  <2>. QED
    BY <1>5, <1>6, <2>2, <2>3, <2>4
<1>. QED
  BY <1>10, <1>11

(* The clients are told of the first fill that was read.                   *)
LEMMA TellInOrder ==
  ASSUME PipeTypes, EngineOrder, GatewayOrder, TableInv, AccountInv, Tell
  PROVE  /\ PipeTypes' /\ EngineOrder' /\ GatewayOrder' /\ TableInv' /\ AccountInv'
         /\ last_told' > last_told /\ InHand' = InHand
<1>. DEFINE first == Head(reading)
<1>1. /\ reading # << >> /\ reading' = Tail(reading) /\ told' = Append(told, first) /\ last_told' = first
      /\ UNCHANGED <<engineVars, redisVars, persist_ch, persisting, stored, tableVars, up, missing, faults>>
      /\ Waiting' = Waiting /\ stream' = stream /\ group' = group /\ cursor' = cursor
  BY DEF Tell, Waiting, redisVars
<1>2. /\ reading \in Seq(Int) /\ told \in Seq(Int) /\ last_told \in Nat /\ cursor \in Nat /\ MaxFills \in Nat
      /\ ToSet(reading) \subseteq 1..MaxFills /\ ToSet(told) \subseteq 1..MaxFills
      /\ ToSet(persisting) \subseteq 1..MaxFills /\ ToSet(Waiting) \subseteq 1..MaxFills
  BY PipeSequences, FillsAreNumbers
<1>3. /\ reading' \in Seq(Int) /\ first \in ToSet(reading) /\ ToSet(reading) = {first} \cup ToSet(reading')
      /\ Ordered(reading') /\ \A f \in ToSet(reading') : first < f
  BY <1>1, <1>2, FirstOrdered DEF GatewayOrder, InLine
<1>. HIDE DEF first
<1>4. first \in 1..MaxFills /\ first \in Int /\ last_told < first /\ first <= cursor
  BY <1>2, <1>3 DEF GatewayOrder
<1>5. /\ told' \in Seq(Int) /\ ToSet(told') = ToSet(told) \cup {first} /\ Ordered(told')
  <2>1. \A f \in ToSet(told) : f < first
    BY <1>3, Zenon DEF GatewayOrder, InLine, Before
  <2>2. Ordered(told)
    BY DEF GatewayOrder, InLine
  <2>. QED
    BY <1>1, <1>2, <1>4, <2>1, <2>2, LastOrdered
<1>6. PipeTypes'
  <2>1. reading' \in FillIds /\ told' \in FillIds
    <3>1. ToSet(reading') \subseteq 1..MaxFills /\ ToSet(told') \subseteq 1..MaxFills
      BY <1>2, <1>3, <1>4, <1>5
    <3>. QED
      BY <1>3, <1>5, <3>1, NumbersAreFills
  <2>2. last_told' \in 0..MaxFills
    BY <1>1, <1>4
  <2>. QED
    BY <1>1, <2>1, <2>2 DEF PipeTypes, PipelineTypeOK, Gone, missing, engineVars, redisVars, tableVars
<1>7. EngineOrder'
  BY <1>1, EngineUnmoved
<1>8. GatewayOrder'
  <2>1. \A f \in ToSet(persisting) \cup ToSet(Waiting) \cup ToSet(told') : f <= first
    <3>1. \A f \in ToSet(persisting) \cup ToSet(Waiting) \cup ToSet(told) : f <= last_told /\ f \in Nat
      BY <1>2 DEF GatewayOrder
    <3>. QED
      BY <1>2, <1>4, <1>5, <3>1
  <2>2. \A f \in ToSet(reading') : first < f /\ f <= cursor
    BY <1>3, Zenon DEF GatewayOrder
  <2>3. InLine(persisting, Waiting, told', reading')
    <3>1. InLine(persisting, Waiting, told, reading)
      BY DEF GatewayOrder
    <3>. QED
      BY <1>3, <1>5, <3>1, Zenon DEF InLine, Before
  <2>4. InLine(persisting, Waiting, told, reading)'
    BY <1>1, <2>3, Zenon
  <2>. QED
    BY <1>1, <1>4, <2>1, <2>2, <2>4, Zenon DEF GatewayOrder
<1>9. TableInv'
  <2>1. \A f \in trades : f <= first
    <3>1. \A f \in trades : f <= last_told /\ f \in 1..MaxFills
      BY DEF TableInv, PipeTypes, PipelineTypeOK
    <3>. QED
      BY <1>2, <1>4, <3>1
  <2>2. first \notin trades
    BY <1>2, <1>4 DEF TableInv
  <2>3. trades' = trades /\ applied' = applied
    BY <1>1 DEF tableVars
  <2>. QED
    BY <1>1, <1>5, <2>1, <2>2, <2>3, Zenon DEF TableInv
<1>10. AccountInv'
  <2>1. ToSet(told') \cup ToSet(reading') = ToSet(told) \cup ToSet(reading)
    BY <1>3, <1>5, Zenon
  <2>2. /\ made' = made /\ sending' = sending /\ unsent' = unsent /\ Queued' = Queued /\ trades' = trades
        /\ Unread(stream)' = Unread(stream) /\ Gone' = Gone
    BY <1>1 DEF engineVars, tableVars, Queued, Unread, Gone, missing
  <2>. QED
    BY <1>1, <2>1, <2>2, Zenon DEF AccountInv
<1>11. last_told' > last_told
  BY <1>1, <1>2, <1>4
<1>12. InHand' = InHand
  BY <1>1, <1>3, <1>5, Zenon DEF InHand
<1>. QED
  BY <1>6, <1>7, <1>8, <1>9, <1>10, <1>11, <1>12

(* The batch goes to the worker, and the worker takes the first one.       *)
LEMMA HandOverInOrder ==
  ASSUME PipeTypes, EngineOrder, GatewayOrder, TableInv, AccountInv, HandOff \/ TakeForPersist
  PROVE  /\ PipeTypes' /\ EngineOrder' /\ GatewayOrder' /\ TableInv' /\ AccountInv'
         /\ InHand' = InHand
<1>. DEFINE held == ToSet(persisting) \cup ToSet(Waiting) \cup ToSet(told)
<1>1. /\ UNCHANGED <<engineVars, redisVars, reading, stored, tableVars, up, last_told, missing, faults>>
      /\ stream' = stream /\ group' = group /\ cursor' = cursor
  BY DEF HandOff, TakeForPersist, redisVars
<1>2. InLine(persisting, Waiting, told, reading)
  BY DEF GatewayOrder
<1>3. EngineOrder'
  BY <1>1, EngineUnmoved
<1>4. << >> \in FillIds
  BY DEF FillIds
<1>5. /\ PipeTypes' /\ InLine(persisting', Waiting', told', reading)
      /\ ToSet(persisting') \cup ToSet(Waiting') \cup ToSet(told') = held
      /\ \A f \in ToSet(Waiting') \cup ToSet(told') : f \notin trades
      /\ ~stored => \A f \in ToSet(persisting') : f \notin trades
  <2>1. CASE HandOff
    <3>1. /\ told # << >> /\ Len(persist_ch) < PersistDepth /\ persist_ch' = Append(persist_ch, told)
          /\ told' = << >> /\ persisting' = persisting
      BY <2>1 DEF HandOff
    <3>2. Waiting' = Waiting \o told
      BY <3>1, PipeSequences, FlattenAppend DEF Waiting, FillIds
    <3>3. /\ ToSet(Waiting') = ToSet(Waiting) \cup ToSet(told)
          /\ Ordered(Waiting') <=> Ordered(Waiting) /\ Ordered(told) /\ Before(ToSet(Waiting), ToSet(told))
      <4>1. Waiting \in Seq(Int) /\ told \in Seq(Int)
        BY PipeSequences, FillsAreNumbers
      <4>. QED
        BY <3>2, <4>1, ConcatOrdered
    <3>4. ToSet(told') = {} /\ Ordered(told')
      BY <3>1, SetOfNone
    <3>5. InLine(persisting', Waiting', told', reading)
      BY <1>2, <3>1, <3>3, <3>4, Zenon DEF InLine, Before
    <3>6. persist_ch' \in Seq(FillIds) /\ Len(persist_ch') <= PersistDepth
      <4>. DEFINE F == FillIds
      <4>1. persist_ch \in Seq(F) /\ told \in F
        BY PipeSequences
      <4>. HIDE DEF F
      <4>2. persist_ch' \in Seq(F) /\ Len(persist_ch') = Len(persist_ch) + 1 /\ Len(persist_ch) \in Nat
        BY <3>1, <4>1
      <4>. QED
        BY <3>1, <4>2, FillsAssumption DEF F
    <3>7. PipeTypes'
      BY <1>1, <1>4, <3>1, <3>6 DEF PipeTypes, PipelineTypeOK, Gone, missing, engineVars, redisVars, tableVars
    <3>8. /\ \A f \in ToSet(Waiting') \cup ToSet(told') : f \notin trades
          /\ ~stored => \A f \in ToSet(persisting') : f \notin trades
      BY <3>1, <3>3, <3>4, Zenon DEF TableInv
    <3>. QED
      BY <3>1, <3>3, <3>4, <3>5, <3>7, <3>8, Zenon
  <2>2. CASE TakeForPersist
    <3>1. /\ persisting = << >> /\ persist_ch # << >> /\ persisting' = Head(persist_ch)
          /\ persist_ch' = Tail(persist_ch) /\ told' = told
      BY <2>2 DEF TakeForPersist
    <3>2. persist_ch' \in Seq(FillIds) /\ Len(persist_ch') <= PersistDepth /\ persisting' \in FillIds
      <4>. DEFINE F == FillIds
      <4>1. persist_ch \in Seq(F)
        BY PipeSequences
      <4>2. Len(persist_ch) <= PersistDepth
        BY DEF PipeTypes, PipelineTypeOK, Gone, missing
      <4>. HIDE DEF F
      <4>3. persist_ch' \in Seq(F) /\ Len(persist_ch') = Len(persist_ch) - 1 /\ Len(persist_ch) \in Nat /\ persisting' \in F
        BY <3>1, <4>1, HeadTailProperties
      <4>. QED
        BY <4>2, <4>3, FillsAssumption DEF F
    <3>3. Waiting = persisting' \o Waiting'
      <4>1. persist_ch \in Seq(Seq(1..MaxFills))
        BY PipeSequences DEF FillIds
      <4>. QED
        BY <3>1, <4>1, FlattenFirst DEF Waiting
    <3>4. Waiting' \in FillIds
      BY <3>2, FlattenType DEF Waiting, FillIds
    <3>5. /\ ToSet(Waiting) = ToSet(persisting') \cup ToSet(Waiting')
          /\ Ordered(Waiting) <=> Ordered(persisting') /\ Ordered(Waiting') /\ Before(ToSet(persisting'), ToSet(Waiting'))
      <4>. DEFINE s == persisting'
                  t == Waiting'
      <4>1. s \in Seq(Int) /\ t \in Seq(Int)
        BY <3>2, <3>4, FillsAreNumbers
      <4>. HIDE DEF s, t
      <4>2. ToSet(s \o t) = ToSet(s) \cup ToSet(t) /\ (Ordered(s \o t) <=> Ordered(s) /\ Ordered(t) /\ Before(ToSet(s), ToSet(t)))
        BY <4>1, ConcatOrdered
      <4>. QED
        BY <3>3, <4>2 DEF s, t
    <3>6. ToSet(persisting) = {}
      BY <3>1, SetOfNone
    <3>7. InLine(persisting', Waiting', told', reading)
      BY <1>2, <3>1, <3>5, Zenon DEF InLine, Before
    <3>8. PipeTypes'
      BY <1>1, <3>1, <3>2 DEF PipeTypes, PipelineTypeOK, Gone, missing, engineVars, redisVars, tableVars
    <3>9. /\ \A f \in ToSet(Waiting') \cup ToSet(told') : f \notin trades
          /\ ~stored => \A f \in ToSet(persisting') : f \notin trades
      BY <3>1, <3>5, Zenon DEF TableInv
    <3>. QED
      BY <3>1, <3>5, <3>6, <3>7, <3>8, <3>9, Zenon
  <2>. QED
    BY <2>1, <2>2
<1>. HIDE DEF held
<1>6. GatewayOrder'
  <2>1. \A f \in held : f <= last_told
    BY Zenon DEF GatewayOrder, held
  <2>2. InLine(persisting, Waiting, told, reading)'
    BY <1>1, <1>5, Zenon
  <2>. QED
    BY <1>1, <1>5, <2>1, <2>2, Zenon DEF GatewayOrder
<1>7. TableInv'
  BY <1>1, <1>5, Zenon DEF TableInv, tableVars
<1>8. AccountInv'
  <2>1. 1..Len(made) = held \cup ToSet(reading)
                         \cup Unread(stream) \cup ToSet(sending) \cup ToSet(Queued) \cup ToSet(unsent)
                         \cup trades \cup Gone
    BY Zenon DEF AccountInv, held
  <2>2. /\ made' = made /\ sending' = sending /\ unsent' = unsent /\ Queued' = Queued /\ trades' = trades
        /\ Unread(stream)' = Unread(stream)
    BY <1>1 DEF engineVars, tableVars, Queued, Unread
  <2>. QED
    BY <1>1, <1>5, <2>1, <2>2, Zenon DEF AccountInv, Gone, missing
<1>9. InHand' = InHand
  <2>1. InHand = held \cup ToSet(reading)
    BY Zenon DEF InHand, held
  <2>. QED
    BY <1>1, <1>5, <2>1, Zenon DEF InHand
<1>. QED
  BY <1>3, <1>5, <1>6, <1>7, <1>8, <1>9

(* The batch is committed, and acknowledged or given up.                   *)
LEMMA PersistInOrder ==
  ASSUME PipeTypes, EngineOrder, GatewayOrder, TableInv, AccountInv, Persist
  PROVE  PipeTypes' /\ EngineOrder' /\ GatewayOrder' /\ TableInv' /\ AccountInv'
<1>1. /\ ~stored /\ stored' = TRUE /\ trades' = trades \cup ToSet(persisting)
      /\ applied' = [f \in 1..MaxFills |-> applied[f] + (IF f \in ToSet(persisting) THEN 1 ELSE 0)]
      /\ UNCHANGED <<engineVars, redisVars, reading, told, persist_ch, persisting, up, last_told, missing, faults>>
  BY DEF Persist, Commit
<1>2. /\ stream' = stream /\ group' = group /\ cursor' = cursor /\ persisting' = persisting
      /\ told' = told /\ reading' = reading /\ Waiting' = Waiting /\ last_told' = last_told
  BY <1>1 DEF redisVars, Waiting
<1>3. EngineOrder'
  BY <1>1, <1>2, EngineUnmoved
<1>4. ToSet(persisting) \subseteq 1..MaxFills
  BY PipeSequences, FillsAreNumbers
<1>5. PipeTypes'
  <2>1. trades' \subseteq 1..MaxFills
    BY <1>1, <1>4 DEF PipeTypes, PipelineTypeOK, Gone, missing
  <2>2. applied' \in [1..MaxFills -> Nat]
    <3>1. applied \in [1..MaxFills -> Nat]
      BY DEF PipeTypes, PipelineTypeOK, Gone, missing
    <3>. QED
      BY <1>1, <3>1
  <2>. QED
    BY <1>1, <2>1, <2>2 DEF PipeTypes, PipelineTypeOK, Gone, missing, engineVars, redisVars
<1>6. GatewayOrder'
  <2>1. InLine(persisting, Waiting, told, reading)'
    <3>1. InLine(persisting, Waiting, told, reading)
      BY DEF GatewayOrder
    <3>. QED
      BY <1>2, <3>1, Zenon
  <2>. QED
    BY <1>2, <2>1, Zenon DEF GatewayOrder
<1>7. TableInv'
  <2>1. \A f \in 1..MaxFills : applied'[f] = IF f \in trades' THEN 1 ELSE 0
    <3>. SUFFICES ASSUME NEW f \in 1..MaxFills
                  PROVE  applied'[f] = IF f \in trades' THEN 1 ELSE 0
      OBVIOUS
    <3>1. applied[f] = IF f \in trades THEN 1 ELSE 0
      BY DEF TableInv
    <3>2. f \in ToSet(persisting) => f \notin trades
      BY <1>1 DEF TableInv
    <3>3. applied'[f] = applied[f] + (IF f \in ToSet(persisting) THEN 1 ELSE 0)
      BY <1>1
    <3>4. CASE f \in ToSet(persisting)
      BY <1>1, <3>1, <3>2, <3>3, <3>4
    <3>5. CASE f \notin ToSet(persisting)
      BY <1>1, <3>1, <3>3, <3>5
    <3>. QED
      BY <3>4, <3>5
  <2>2. \A f \in trades' : f <= last_told
    BY <1>1, Zenon DEF TableInv, GatewayOrder
  <2>3. \A f \in ToSet(Waiting) \cup ToSet(told) : f \notin trades'
    <3>. SUFFICES ASSUME NEW f \in ToSet(Waiting) \cup ToSet(told), f \in ToSet(persisting)
                  PROVE  FALSE
      BY <1>1, Zenon DEF TableInv
    <3>1. f < f
      BY Zenon DEF GatewayOrder, InLine, Before
    <3>. QED
      BY <1>4, <3>1
  <2>. QED
    BY <1>1, <1>2, <2>1, <2>2, <2>3, Zenon DEF TableInv
<1>8. AccountInv'
  <2>1. /\ made' = made /\ sending' = sending /\ unsent' = unsent /\ Queued' = Queued /\ Gone' = Gone
        /\ Unread(stream)' = Unread(stream)
    BY <1>1, <1>2 DEF Gone, missing, engineVars, Queued, Unread
  <2>2. 1..Len(made) = ToSet(persisting) \cup ToSet(Waiting) \cup ToSet(told) \cup ToSet(reading)
                   \cup Unread(stream) \cup ToSet(sending) \cup ToSet(Queued) \cup ToSet(unsent)
                   \cup (trades \cup ToSet(persisting)) \cup Gone
    BY Zenon DEF AccountInv
  <2>. QED
    BY <1>1, <1>2, <2>1, <2>2, Zenon DEF AccountInv
<1>. QED
  BY <1>3, <1>5, <1>6, <1>7, <1>8

(* The worker has done with its batch: it is in the table, or given up.    *)
LEMMA DoneInOrder ==
  ASSUME PipeTypes, RecordedInv, EngineOrder, GatewayOrder, TableInv, AccountInv,
         Acknowledge \/ AcknowledgeFails \/ PersistFails
  PROVE  PipeTypes' /\ EngineOrder' /\ GatewayOrder' /\ TableInv' /\ AccountInv'
<1>1. /\ persisting' = << >> /\ ~stored'
      /\ pending' \subseteq pending
      /\ UNCHANGED <<engineVars, stream, group, cursor, reading, told, persist_ch, tableVars, up, last_told>>
  BY DEF Acknowledge, AcknowledgeFails, PersistFails, redisVars, RecordedInv
<1>2. /\ stream' = stream /\ group' = group /\ cursor' = cursor /\ trades' = trades
      /\ told' = told /\ reading' = reading /\ Waiting' = Waiting /\ last_told' = last_told
  BY <1>1 DEF tableVars, Waiting
<1>3. EngineOrder'
  BY <1>1, <1>2, EngineUnmoved
<1>4. ToSet(persisting) \subseteq 1..MaxFills
  BY PipeSequences, FillsAreNumbers
<1>5. ToSet(persisting') = {} /\ Ordered(persisting')
  BY <1>1, SetOfNone
<1>6. /\ acked' \subseteq acked \cup ToSet(persisting) /\ Gone' \subseteq Gone \cup ToSet(persisting)
      /\ faults' \in 0..MaxFaults /\ stored' \in BOOLEAN
  <2>1. faults \in 0..MaxFaults /\ MaxFaults \in Nat
    BY FillsAssumption DEF PipeTypes, PipelineTypeOK, Gone, missing
  <2>2. CASE Acknowledge
    BY <2>1, <2>2 DEF Acknowledge, Gone, missing
  <2>3. CASE AcknowledgeFails
    <3>1. acked' = acked /\ Gone' = Gone /\ stored' = FALSE /\ faults < MaxFaults /\ faults' = faults + 1
      BY <2>3 DEF AcknowledgeFails, Gone, missing, redisVars, Faulty
    <3>2. faults' \in 0..MaxFaults
      BY <2>1, <3>1
    <3>. QED
      BY <3>1, <3>2
  <2>4. CASE PersistFails
    BY <2>1, <2>4 DEF PersistFails, GivesUp, Gone, redisVars, Faulty, RecordedInv
  <2>. QED
    BY <2>2, <2>3, <2>4
<1>7. PipeTypes'
  <2>1. << >> \in FillIds
    BY DEF FillIds
  <2>2. acked' \cup trades' \cup Gone' \subseteq 1..MaxFills
    BY <1>2, <1>4, <1>6 DEF PipeTypes, PipelineTypeOK, Gone, missing
  <2>. QED
    BY <1>1, <1>6, <2>1, <2>2 DEF PipeTypes, PipelineTypeOK, Gone, missing, engineVars, tableVars
<1>8. GatewayOrder'
  <2>1. InLine(persisting, Waiting, told, reading)'
    <3>1. InLine(persisting', Waiting, told, reading)
      BY <1>5, Zenon DEF GatewayOrder, InLine, Before
    <3>. QED
      BY <1>2, <3>1, Zenon
  <2>. QED
    BY <1>2, <1>5, <2>1, Zenon DEF GatewayOrder
<1>9. TableInv'
  BY <1>1, <1>2, <1>5, Zenon DEF TableInv, tableVars
<1>10. AccountInv'
  <2>1. /\ made' = made /\ sending' = sending /\ unsent' = unsent /\ Queued' = Queued
        /\ Unread(stream)' = Unread(stream)
    BY <1>1, <1>2 DEF engineVars, Queued, Unread
  <2>2. trades \cup Gone' = trades \cup Gone \cup ToSet(persisting)
    BY DEF Gone, missing, GivesUp, Acknowledge, AcknowledgeFails, PersistFails, RecordedInv
  <2>. DEFINE way == ToSet(Waiting) \cup ToSet(told) \cup ToSet(reading)
                       \cup Unread(stream) \cup ToSet(sending) \cup ToSet(Queued) \cup ToSet(unsent)
  <2>3. 1..Len(made) = ToSet(persisting) \cup way \cup trades \cup Gone
    BY Zenon DEF AccountInv
  <2>4. 1..Len(made) = ToSet(persisting') \cup way \cup trades \cup Gone'
    <3>. HIDE DEF way
    <3>. QED
      BY <1>5, <2>2, <2>3
  <2>5. 1..Len(made) = ToSet(persisting') \cup ToSet(Waiting) \cup ToSet(told) \cup ToSet(reading)
                   \cup Unread(stream) \cup ToSet(sending) \cup ToSet(Queued) \cup ToSet(unsent)
                   \cup trades \cup Gone'
    BY <2>4, Zenon
  <2>. QED
    BY <1>1, <1>2, <2>1, <2>5, Zenon DEF AccountInv
<1>. QED
  BY <1>3, <1>7, <1>8, <1>9, <1>10

(* The gateway stops with all it has, and goes on behind what it was       *)
(* given.                                                                  *)
LEMMA StopInOrder ==
  ASSUME PipeTypes, EngineOrder, GatewayOrder, TableInv, AccountInv, GatewayStops
  PROVE  PipeTypes' /\ EngineOrder' /\ GatewayOrder' /\ TableInv' /\ AccountInv'
<1>1. /\ reading' = << >> /\ told' = << >> /\ persist_ch' = << >> /\ persisting' = << >> /\ ~stored'
      /\ Gone' = Gone \cup (ToSet(reading \o told \o Waiting \o persisting) \ trades)
      /\ stored' \in BOOLEAN /\ up' \in BOOLEAN
      /\ UNCHANGED <<engineVars, stream, group, cursor, pending, acked, tableVars, last_told>>
  BY DEF GatewayStops, GivesUp, Gone, redisVars, Waiting
<1>2. stream' = stream /\ group' = group /\ cursor' = cursor /\ trades' = trades /\ last_told' = last_told
  BY <1>1 DEF tableVars
<1>3. EngineOrder'
  BY <1>1, <1>2, EngineUnmoved
<1>4. Waiting' = << >>
  BY <1>1, FlattenNone DEF Waiting
<1>5. /\ ToSet(persisting') = {} /\ ToSet(Waiting') = {} /\ ToSet(told') = {} /\ ToSet(reading') = {}
      /\ Ordered(persisting') /\ Ordered(Waiting') /\ Ordered(told') /\ Ordered(reading')
  BY <1>1, <1>4, SetOfNone
<1>6. ToSet(reading \o told \o Waiting \o persisting)
        = ToSet(reading) \cup ToSet(told) \cup ToSet(Waiting) \cup ToSet(persisting)
  <2>1. reading \in Seq(Int) /\ told \in Seq(Int) /\ Waiting \in Seq(Int) /\ persisting \in Seq(Int)
    BY PipeSequences, FillsAreNumbers
  <2>2. reading \o told \in Seq(Int) /\ ToSet(reading \o told) = ToSet(reading) \cup ToSet(told)
    BY <2>1, ConcatOrdered
  <2>. DEFINE rt == reading \o told
  <2>3. rt \in Seq(Int)
    BY <2>2
  <2>. HIDE DEF rt
  <2>4. rt \o Waiting \in Seq(Int) /\ ToSet(rt \o Waiting) = ToSet(rt) \cup ToSet(Waiting)
    BY <2>1, <2>3, ConcatOrdered
  <2>5. ToSet((rt \o Waiting) \o persisting) = ToSet(rt \o Waiting) \cup ToSet(persisting)
    BY <2>1, <2>4, ConcatOrdered
  <2>. QED
    BY <2>2, <2>4, <2>5 DEF rt
<1>7. Gone' = Gone \cup ((ToSet(reading) \cup ToSet(told) \cup ToSet(Waiting) \cup ToSet(persisting)) \ trades)
  BY <1>1, <1>6
<1>8. PipeTypes'
  <2>1. ToSet(reading) \cup ToSet(told) \cup ToSet(Waiting) \cup ToSet(persisting) \subseteq 1..MaxFills
    BY PipeSequences, FillsAreNumbers
  <2>2. acked' \cup trades' \cup Gone' \subseteq 1..MaxFills
    BY <1>1, <1>2, <1>7, <2>1 DEF PipeTypes, PipelineTypeOK, Gone, missing
  <2>3. << >> \in FillIds /\ << >> \in Seq(FillIds) /\ Len(<< >>) <= PersistDepth
    BY FillsAssumption DEF FillIds
  <2>4. faults' \in 0..MaxFaults
    <3>1. faults \in 0..MaxFaults /\ MaxFaults \in Nat
      BY FillsAssumption DEF PipeTypes, PipelineTypeOK, Gone, missing
    <3>. QED
      BY <3>1 DEF GatewayStops, Faulty
  <2>. QED
    BY <1>1, <2>2, <2>3, <2>4 DEF PipeTypes, PipelineTypeOK, Gone, missing, engineVars, tableVars
<1>9. GatewayOrder'
  <2>1. InLine(persisting', Waiting', told', reading')
    BY <1>5, Zenon DEF InLine, Before
  <2>2. InLine(persisting, Waiting, told, reading)'
    BY <2>1, Zenon
  <2>3. last_told <= cursor
    BY DEF GatewayOrder
  <2>. QED
    BY <1>2, <1>5, <2>2, <2>3, Zenon DEF GatewayOrder
<1>10. TableInv'
  BY <1>1, <1>2, <1>5, Zenon DEF TableInv, tableVars
<1>11. AccountInv'
  <2>1. /\ made' = made /\ sending' = sending /\ unsent' = unsent /\ Queued' = Queued
        /\ Unread(stream)' = Unread(stream)
    BY <1>1, <1>2 DEF engineVars, Queued, Unread
  <2>. DEFINE held == ToSet(reading) \cup ToSet(told) \cup ToSet(Waiting) \cup ToSet(persisting)
              way == Unread(stream) \cup ToSet(sending) \cup ToSet(Queued) \cup ToSet(unsent)
  <2>2. 1..Len(made) = held \cup way \cup trades \cup Gone
    BY Zenon DEF AccountInv
  <2>3. Gone' = Gone \cup (held \ trades)
    BY <1>7
  <2>4. 1..Len(made) = way \cup trades \cup Gone'
    <3>. HIDE DEF way, held
    <3>. QED
      BY <2>2, <2>3
  <2>5. 1..Len(made) = ToSet(persisting') \cup ToSet(Waiting') \cup ToSet(told') \cup ToSet(reading')
                   \cup Unread(stream) \cup ToSet(sending) \cup ToSet(Queued) \cup ToSet(unsent)
                   \cup trades \cup Gone'
    <3>. DEFINE un == Unread(stream)
                se == ToSet(sending)
                qu == ToSet(Queued)
                us == ToSet(unsent)
    <3>1. 1..Len(made) = un \cup se \cup qu \cup us \cup trades \cup Gone'
      BY <2>4
    <3>. HIDE DEF un, se, qu, us
    <3>2. 1..Len(made) = ToSet(persisting') \cup ToSet(Waiting') \cup ToSet(told') \cup ToSet(reading')
                          \cup un \cup se \cup qu \cup us \cup trades \cup Gone'
      BY <1>5, <3>1
    <3>. QED
      BY <3>2 DEF un, se, qu, us
  <2>. QED
    BY <1>1, <1>2, <2>1, <2>5, Zenon DEF AccountInv
<1>. QED
  BY <1>3, <1>8, <1>9, <1>10, <1>11

LEMMA StartInOrder ==
  ASSUME PipeTypes, EngineOrder, GatewayOrder, TableInv, AccountInv, GatewayStarts
  PROVE  PipeTypes' /\ EngineOrder' /\ GatewayOrder' /\ TableInv' /\ AccountInv'
<1>1. up' = TRUE /\ UNCHANGED <<engineVars, stream, group, cursor, pending, acked, consumerVars, tableVars, last_told,
                                missing, faults>>
  BY DEF GatewayStarts, Resumed
<1>2. PipeTypes'
  BY <1>1 DEF PipeTypes, PipelineTypeOK, Gone, missing, engineVars, consumerVars, tableVars
<1>3. EngineOrder' /\ GatewayOrder' /\ TableInv'
  BY <1>1, EngineUnmoved, GatewayUnmoved
<1>4. AccountInv'
  BY <1>1 DEF AccountInv, Gone, missing, engineVars, consumerVars, tableVars, Waiting, Queued, Unread
<1>. QED
  BY <1>2, <1>3, <1>4

(* A step that leaves the pipeline alone, but for the count of faults.     *)
LEMMA UnmovedInOrder ==
  ASSUME PipeTypes, RecordedInv, EngineOrder, GatewayOrder, TableInv, AccountInv,
         UNCHANGED <<engineVars, redisVars, consumerVars, tableVars, up, last_told, missing>>,
         faults' \in 0..MaxFaults
  PROVE  PipeInv'
<1>1. PipeTypes'
  BY DEF PipeTypes, PipelineTypeOK, Gone, missing, engineVars, consumerVars, tableVars, redisVars
<1>2. EngineOrder' /\ GatewayOrder' /\ TableInv'
  BY EngineUnmoved, GatewayUnmoved DEF redisVars
<1>3. AccountInv'
  BY DEF AccountInv, Gone, missing, engineVars, consumerVars, tableVars, redisVars, Waiting, Queued, Unread
<1>4. RecordedInv'
  BY DEF RecordedInv, consumerVars, redisVars, tableVars
<1>. QED
  BY <1>1, <1>2, <1>3, <1>4 DEF PipeInv

-----------------------------------------------------------------------------
(* Orders, and the calls of the handlers                                   *)

Pcs == {"idle", "submitting", "submitted", "to put", "to cancel", "cancelled",
        "to delete", "to modify", "modifying", "modified"}
Call == [pc : Pcs, order : Orders \cup {None}]

OrderTypes ==
  /\ left \in [Orders -> 0..Quantity] /\ filled \in [Orders -> Nat]
  /\ sent \subseteq Orders /\ amended \subseteq sent
  /\ rows \in [Orders -> State \cup {None}] /\ registry \in [Orders -> State \cup {None}]

(* A handler that is at work has an order that was submitted.              *)
CallTypes ==
  /\ handler \in [Handlers -> Call]
  /\ \A h \in Handlers :
       /\ handler[h].pc = "idle" <=> handler[h].order = None
       /\ handler[h].order \in sent \cup {None}

(* Of an order that was not submitted there is nothing.                    *)
Unsent ==
  \A o \in Orders \ sent : left[o] = 0 /\ filled[o] = 0 /\ rows[o] = None /\ registry[o] = None

(* What a handler does leaves the others where they are.                   *)
LEMMA CallStarts ==
  ASSUME CallTypes, NEW h \in Handlers, NEW o \in Orders, NEW pc \in Pcs \ {"idle"},
         handler' = [handler EXCEPT ![h] = At(pc, o)], sent \subseteq sent', o \in sent', sent' \subseteq Orders
  PROVE  /\ CallTypes' /\ handler'[h].pc = pc /\ handler'[h].order = o
         /\ \A g \in Handlers \ {h} : handler'[g] = handler[g]
<1>. DEFINE call == At(pc, o)
<1>1. call \in Call /\ call.pc = pc /\ call.order = o
  BY DEF At, Call
<1>2. o # None
  BY OrdersAssumption
<1>. HIDE DEF call
<1>3. handler' \in [Handlers -> Call] /\ handler'[h] = call /\ \A g \in Handlers \ {h} : handler'[g] = handler[g]
  BY <1>1 DEF CallTypes, call
<1>4. \A g \in Handlers : /\ handler'[g].pc = "idle" <=> handler'[g].order = None
                          /\ handler'[g].order \in sent' \cup {None}
  <2>. SUFFICES ASSUME NEW g \in Handlers
                PROVE  /\ handler'[g].pc = "idle" <=> handler'[g].order = None
                       /\ handler'[g].order \in sent' \cup {None}
    OBVIOUS
  <2>1. CASE g = h
    BY <1>1, <1>2, <1>3, <2>1
  <2>2. CASE g # h
    BY <1>3, <2>2 DEF CallTypes
  <2>. QED
    BY <2>1, <2>2
<1>. QED
  BY <1>1, <1>3, <1>4 DEF CallTypes

LEMMA CallGoes ==
  ASSUME CallTypes, NEW h \in Handlers, NEW pc \in Pcs \ {"idle"}, handler[h].pc # "idle", Goes(h, pc), sent' = sent
  PROVE  /\ CallTypes' /\ handler'[h].pc = pc /\ handler'[h].order = handler[h].order
         /\ \A g \in Handlers \ {h} : handler'[g] = handler[g]
<1>. DEFINE call == [handler[h] EXCEPT !.pc = pc]
<1>1. handler[h] \in Call
  BY DEF CallTypes
<1>2. call \in Call /\ call.pc = pc /\ call.order = handler[h].order
  BY <1>1 DEF Call
<1>3. handler' = [handler EXCEPT ![h] = call]
  BY <1>1 DEF Goes, CallTypes, Call
<1>. HIDE DEF call
<1>4. handler' \in [Handlers -> Call] /\ handler'[h] = call /\ \A g \in Handlers \ {h} : handler'[g] = handler[g]
  BY <1>2, <1>3 DEF CallTypes
<1>5. \A g \in Handlers : /\ handler'[g].pc = "idle" <=> handler'[g].order = None
                          /\ handler'[g].order \in sent' \cup {None}
  <2>. SUFFICES ASSUME NEW g \in Handlers
                PROVE  /\ handler'[g].pc = "idle" <=> handler'[g].order = None
                       /\ handler'[g].order \in sent' \cup {None}
    OBVIOUS
  <2>1. CASE g = h
    BY <1>2, <1>4, <2>1 DEF CallTypes
  <2>2. CASE g # h
    BY <1>4, <2>2 DEF CallTypes
  <2>. QED
    BY <2>1, <2>2
<1>. QED
  BY <1>2, <1>4, <1>5 DEF CallTypes

LEMMA CallReturns ==
  ASSUME CallTypes, NEW h \in Handlers, Returns(h), sent' = sent
  PROVE  /\ CallTypes' /\ handler'[h].pc = "idle" /\ handler'[h].order = None
         /\ \A g \in Handlers \ {h} : handler'[g] = handler[g]
<1>1. Idle \in Call /\ Idle.pc = "idle" /\ Idle.order = None
  BY DEF Idle, Call, Pcs
<1>2. handler' = [handler EXCEPT ![h] = Idle]
  BY DEF Returns
<1>3. handler' \in [Handlers -> Call] /\ handler'[h] = Idle /\ \A g \in Handlers \ {h} : handler'[g] = handler[g]
  BY <1>1, <1>2 DEF CallTypes
<1>4. \A g \in Handlers : /\ handler'[g].pc = "idle" <=> handler'[g].order = None
                          /\ handler'[g].order \in sent' \cup {None}
  <2>. SUFFICES ASSUME NEW g \in Handlers
                PROVE  /\ handler'[g].pc = "idle" <=> handler'[g].order = None
                       /\ handler'[g].order \in sent' \cup {None}
    OBVIOUS
  <2>1. CASE g = h
    BY <1>1, <1>3, <2>1
  <2>2. CASE g # h
    BY <1>3, <2>2 DEF CallTypes
  <2>. QED
    BY <2>1, <2>2
<1>. QED
  BY <1>1, <1>3, <1>4 DEF CallTypes

(* A call is answered, or lost with the engine: the others stay.           *)
LEMMA AnswerOfCall ==
  ASSUME NEW call \in Call
  PROVE  /\ Answered(call) \in Call /\ Answered(call).order = call.order
         /\ Answered(call).pc = CASE call.pc = "submitting" -> "submitted"
                                  [] call.pc = "modifying" -> "modified"
                                  [] OTHER -> call.pc
<1>1. CASE call.pc = "submitting"
  BY <1>1 DEF Answered, Call, Pcs
<1>2. CASE call.pc = "modifying"
  BY <1>2 DEF Answered, Call, Pcs
<1>3. CASE call.pc \notin {"submitting", "modifying"}
  BY <1>3 DEF Answered
<1>. QED
  BY <1>1, <1>2, <1>3

LEMMA CallsAnswered ==
  ASSUME CallTypes, handler' = [h \in Handlers |-> Answered(handler[h])], sent' = sent
  PROVE  /\ CallTypes'
         /\ \A h \in Handlers :
              /\ handler'[h].order = handler[h].order
              /\ handler'[h].pc = CASE handler[h].pc = "submitting" -> "submitted"
                                    [] handler[h].pc = "modifying" -> "modified"
                                    [] OTHER -> handler[h].pc
<1>1. ASSUME NEW h \in Handlers
      PROVE  /\ handler'[h] \in Call
             /\ handler'[h].order = handler[h].order
             /\ handler'[h].pc = CASE handler[h].pc = "submitting" -> "submitted"
                                   [] handler[h].pc = "modifying" -> "modified"
                                   [] OTHER -> handler[h].pc
             /\ handler'[h].pc = "idle" <=> handler'[h].order = None
             /\ handler'[h].order \in sent' \cup {None}
  <2>. DEFINE call == handler[h]
  <2>1. call \in Call /\ handler'[h] = Answered(call)
    BY DEF CallTypes
  <2>2. (call.pc = "idle" <=> call.order = None) /\ call.order \in sent \cup {None}
    BY DEF CallTypes
  <2>. HIDE DEF call
  <2>3. /\ Answered(call) \in Call /\ Answered(call).order = call.order
        /\ Answered(call).pc = CASE call.pc = "submitting" -> "submitted"
                                 [] call.pc = "modifying" -> "modified"
                                 [] OTHER -> call.pc
    BY <2>1, AnswerOfCall
  <2>. QED
    BY <2>1, <2>2, <2>3 DEF call
<1>. QED
  BY <1>1 DEF CallTypes

LEMMA CallsLost ==
  ASSUME CallTypes,
         handler' = [h \in Handlers |-> IF Answered(handler[h]) = handler[h] THEN handler[h] ELSE Idle],
         sent' = sent
  PROVE  /\ CallTypes'
         /\ \A h \in Handlers :
              \/ handler'[h] = handler[h] /\ handler[h].pc \notin {"submitting", "modifying"}
              \/ handler'[h] = Idle
<1>1. Idle \in Call /\ Idle.pc = "idle" /\ Idle.order = None
  BY DEF Idle, Call, Pcs
<1>2. ASSUME NEW h \in Handlers
      PROVE  /\ \/ handler'[h] = handler[h] /\ handler[h].pc \notin {"submitting", "modifying"}
                \/ handler'[h] = Idle
             /\ handler'[h] \in Call
  <2>1. handler[h] \in Call
    BY DEF CallTypes
  <2>2. CASE Answered(handler[h]) = handler[h]
    <3>1. handler[h].pc \notin {"submitting", "modifying"}
      BY <2>1, <2>2, AnswerOfCall
    <3>. QED
      BY <2>1, <2>2, <3>1
  <2>3. CASE Answered(handler[h]) # handler[h]
    BY <1>1, <2>3
  <2>. QED
    BY <2>2, <2>3
<1>3. \A h \in Handlers : /\ handler'[h].pc = "idle" <=> handler'[h].order = None
                          /\ handler'[h].order \in sent' \cup {None}
  BY <1>1, <1>2 DEF CallTypes
<1>4. handler' \in [Handlers -> Call]
  BY <1>2
<1>. QED
  BY <1>2, <1>3, <1>4 DEF CallTypes

(* What a call does in the engine.                                         *)
LEMMA EngineEffect ==
  ASSUME OrderTypes, NEW o \in Orders, Engine(o, Quantity)
  PROVE  /\ left' \in [Orders -> 0..Quantity] /\ filled' \in [Orders -> Nat]
         /\ \/ /\ Match(<<>>) /\ filled' = filled /\ left'[o] <= Quantity
               /\ \A p \in Orders \ {o} : left'[p] = left[p]
            \/ \E other \in Orders \ {o}, traded \in 1..Quantity :
                 /\ traded <= left[other]
                 /\ Match(<<[bid |-> o, ask |-> other, quantity |-> traded]>>)
                 /\ left'[o] <= Quantity - traded /\ left'[other] = left[other] - traded
                 /\ filled'[o] = filled[o] + traded /\ filled'[other] = filled[other] + traded
                 /\ \A p \in Orders \ {o, other} : left'[p] = left[p] /\ filled'[p] = filled[p]
<1>. DEFINE Q == Quantity
<1>1. Q \in Nat /\ left \in [Orders -> 0..Q] /\ filled \in [Orders -> Nat]
  BY OrdersAssumption DEF OrderTypes
<1>2. CASE \E rest \in {Q, 0} :
             /\ Match(<<>>)
             /\ left' = [left EXCEPT ![o] = rest]
             /\ UNCHANGED filled
  <2>1. PICK rest \in {Q, 0} : Match(<<>>) /\ left' = [left EXCEPT ![o] = rest] /\ filled' = filled
    BY <1>2
  <2>2. rest \in 0..Q /\ rest <= Q
    BY <1>1, <2>1
  <2>. HIDE DEF Q
  <2>3. left' \in [Orders -> 0..Q] /\ left'[o] = rest /\ \A p \in Orders \ {o} : left'[p] = left[p]
    BY <1>1, <2>1, <2>2
  <2>. QED
    BY <1>1, <2>1, <2>2, <2>3 DEF Q
<1>3. CASE \E other \in Orders \ {o}, traded \in 1..Q :
             /\ traded <= left[other]
             /\ Match(<<[bid |-> o, ask |-> other, quantity |-> traded]>>)
             /\ \E rest \in {Q - traded, 0} :
                  left' = [left EXCEPT ![o] = rest, ![other] = @ - traded]
             /\ filled' = [filled EXCEPT ![o] = @ + traded, ![other] = @ + traded]
  <2>1. PICK other \in Orders \ {o}, traded \in 1..Q :
             /\ traded <= left[other]
             /\ Match(<<[bid |-> o, ask |-> other, quantity |-> traded]>>)
             /\ \E rest \in {Q - traded, 0} :
                  left' = [left EXCEPT ![o] = rest, ![other] = @ - traded]
             /\ filled' = [filled EXCEPT ![o] = @ + traded, ![other] = @ + traded]
    BY <1>3
  <2>2. PICK rest \in {Q - traded, 0} : left' = [left EXCEPT ![o] = rest, ![other] = @ - traded]
    BY <2>1
  <2>. HIDE DEF Q
  <2>3. left[other] \in 0..Q /\ traded \in 1..Q
    BY <1>1
  <2>4. rest \in 0..Q /\ rest <= Q - traded /\ left[other] - traded \in 0..Q
    BY <1>1, <2>1, <2>3
  <2>5. /\ left'[o] = rest /\ left'[other] = left[other] - traded
        /\ \A p \in Orders \ {o, other} : left'[p] = left[p]
        /\ left' \in [Orders -> 0..Q]
    BY <1>1, <2>2, <2>4
  <2>6. filled[o] + traded \in Nat /\ filled[other] + traded \in Nat
    BY <1>1, <2>3
  <2>7. /\ filled'[o] = filled[o] + traded /\ filled'[other] = filled[other] + traded
        /\ \A p \in Orders \ {o, other} : filled'[p] = filled[p]
        /\ filled' \in [Orders -> Nat]
    BY <1>1, <2>1, <2>6
  <2>8. left'[o] <= Q - traded
    BY <2>4, <2>5
  <2>9. other \in Orders \ {o} /\ traded <= left[other] /\ Match(<<[bid |-> o, ask |-> other, quantity |-> traded]>>)
    BY <2>1
  <2>. QED
    BY <2>5, <2>7, <2>8, <2>9 DEF Q
<1>. QED
  BY <1>2, <1>3 DEF Engine

(* An order that is not in the book is left alone.                         *)
LEMMA EngineLeavesClosed ==
  ASSUME OrderTypes, NEW o \in Orders, Engine(o, Quantity), NEW p \in Orders \ {o}, left[p] = 0
  PROVE  left'[p] = left[p] /\ filled'[p] = filled[p]
<1>1. CASE filled' = filled /\ \A q \in Orders \ {o} : left'[q] = left[q]
  BY <1>1
<1>2. CASE \E other \in Orders \ {o}, traded \in 1..Quantity :
             /\ traded <= left[other]
             /\ \A q \in Orders \ {o, other} : left'[q] = left[q] /\ filled'[q] = filled[q]
  <2>1. PICK other \in Orders \ {o}, traded \in 1..Quantity :
             /\ traded <= left[other]
             /\ \A q \in Orders \ {o, other} : left'[q] = left[q] /\ filled'[q] = filled[q]
    BY <1>2
  <2>2. p # other
    <3>1. ~(traded <= 0)
      BY OrdersAssumption
    <3>. QED
      BY <2>1, <3>1
  <2>. QED
    BY <2>1, <2>2
<1>. QED
  BY <1>1, <1>2, EngineEffect

LEMMA EngineMatches ==
  ASSUME OrderTypes, NEW o \in Orders, Engine(o, Quantity)
  PROVE  \E fills \in Seq(Fill) : Match(fills)
<1>1. CASE Match(<<>>)
  <2>1. <<>> \in Seq(Fill)
    OBVIOUS
  <2>. QED
    BY <1>1, <2>1
<1>2. CASE \E other \in Orders \ {o}, traded \in 1..Quantity :
             Match(<<[bid |-> o, ask |-> other, quantity |-> traded]>>)
  <2>1. PICK other \in Orders \ {o}, traded \in 1..Quantity :
             Match(<<[bid |-> o, ask |-> other, quantity |-> traded]>>)
    BY <1>2
  <2>2. [bid |-> o, ask |-> other, quantity |-> traded] \in Fill
    BY DEF Fill
  <2>3. <<[bid |-> o, ask |-> other, quantity |-> traded]>> \in Seq(Fill)
    BY <2>2
  <2>. QED
    BY <2>1, <2>3
<1>. QED
  BY <1>1, <1>2, EngineEffect

(* Rows and live orders, fresh and after a fill.                           *)
LEMMA FreshIsState == Fresh \in State /\ Fresh # None /\ Fresh.remaining = Quantity /\ Fresh.status = "Empty"
BY OrdersAssumption DEF Fresh, State, Statuses

LEMMA AfterIsState ==
  ASSUME NEW state \in State, NEW quantity \in Int
  PROVE  /\ After(state, quantity) \in State /\ After(state, quantity) # None
         /\ After(state, quantity).remaining = state.remaining - quantity
         /\ After(state, quantity).status = IF state.remaining - quantity <= 0 THEN "Filled"
                                            ELSE IF state.status = "Empty" THEN "PartiallyFilled"
                                            ELSE state.status
<1>. DEFINE remaining == state.remaining - quantity
            status == IF state.remaining - quantity <= 0 THEN "Filled"
                      ELSE IF state.status = "Empty" THEN "PartiallyFilled"
                      ELSE state.status
<1>1. state.remaining \in Int /\ state.status \in Statuses
  BY DEF State
<1>2. remaining \in Int /\ status \in Statuses
  BY <1>1 DEF Statuses
<1>3. After(state, quantity) = [remaining |-> remaining, status |-> status]
  BY DEF After
<1>. HIDE DEF remaining, status
<1>4. After(state, quantity) \in State /\ After(state, quantity).remaining = remaining /\ After(state, quantity).status = status
  BY <1>2, <1>3 DEF State
<1>. QED
  BY <1>4, OrdersAssumption DEF remaining, status

(* What reader and worker hold was made.                                   *)
LEMMA HeldAreMade ==
  ASSUME PipeTypes, EngineOrder, GatewayOrder
  PROVE  /\ \A f \in ToSet(persisting) \cup ToSet(reading) : f \in DOMAIN made
         /\ \A n \in DOMAIN persisting : persisting[n] \in ToSet(persisting)
         /\ reading # << >> => Head(reading) \in ToSet(reading)
<1>1. \A f \in ToSet(persisting) \cup ToSet(reading) : f \in DOMAIN made
  <2>1. SUFFICES ASSUME NEW f \in ToSet(persisting) \cup ToSet(reading)
                 PROVE  f \in DOMAIN made
    OBVIOUS
  <2>2. f \in 1..MaxFills
    BY PipeSequences, FillsAreNumbers
  <2>3. f <= cursor
    <3>1. f <= last_told \/ f <= cursor
      BY DEF GatewayOrder
    <3>2. last_told <= cursor
      BY DEF GatewayOrder
    <3>. QED
      BY <2>2, <3>1, <3>2, PipeSequences
  <2>4. f <= Len(made)
    <3>1. cursor <= Len(made)
      BY DEF EngineOrder
    <3>. QED
      BY <2>2, <2>3, <3>1, PipeSequences
  <2>5. DOMAIN made = 1..Len(made) /\ Len(made) \in Nat
    BY DEF PipeTypes
  <2>. QED
    BY <2>2, <2>4, <2>5
<1>2. \A n \in DOMAIN persisting : persisting[n] \in ToSet(persisting)
  <2>1. persisting \in Seq(Int) /\ persisting \in FillIds
    BY PipeSequences, FillsAreNumbers
  <2>2. DOMAIN persisting = 1..Len(persisting)
    BY <2>1
  <2>. QED
    BY <2>1, <2>2, SetOfSeq
<1>3. reading # << >> => Head(reading) \in ToSet(reading)
  <2>1. reading \in Seq(Int)
    BY PipeSequences, FillsAreNumbers
  <2>2. reading # << >> => 1 \in 1..Len(reading) /\ reading[1] = Head(reading)
    BY <2>1
  <2>. QED
    BY <2>1, <2>2, SetOfSeq
<1>. QED
  BY <1>1, <1>2, <1>3

LEMMA TakesOfMade ==
  ASSUME PipeTypes, NEW f \in DOMAIN made, NEW o
  PROVE  Takes(f, o) \in Nat /\ (Involves(f, o) => Takes(f, o) = made[f].quantity) /\ (~Involves(f, o) => Takes(f, o) = 0)
<1>1. made[f] \in Fill
  BY DEF PipeTypes
<1>2. made[f].quantity \in Nat
  BY <1>1, OrdersAssumption DEF Fill
<1>. QED
  BY <1>2 DEF Takes

LEMMA DeltaIsNat ==
  ASSUME PipeTypes, EngineOrder, GatewayOrder, NEW o
  PROVE  Delta(persisting, o) \in Nat
<1>. DEFINE d == [n \in DOMAIN persisting |-> Takes(persisting[n], o)]
<1>1. IsFiniteSet(DOMAIN persisting)
  <2>1. persisting \in FillIds
    BY PipeSequences
  <2>2. DOMAIN persisting = 1..Len(persisting) /\ Len(persisting) \in Nat
    BY <2>1 DEF FillIds
  <2>. QED
    BY <2>2, FS_Interval
<1>2. \A n \in DOMAIN persisting : d[n] \in Nat
  BY HeldAreMade, TakesOfMade
<1>. HIDE DEF d
<1>3. SumFunctionOnSet(d, DOMAIN persisting) \in Nat
  BY <1>1, <1>2, SumOfNaturals
<1>. QED
  BY <1>3 DEF Delta, d

(* The steps of the handlers, as far as types go.                          *)
LEMMA SubmitTypes ==
  ASSUME OrderTypes, CallTypes, Unsent, NEW h \in Handlers, NEW o \in Orders, Submit(h, o)
  PROVE  /\ OrderTypes' /\ CallTypes' /\ Unsent'
         /\ handler'[h].order = o /\ handler'[h].pc \in {"submitted", "submitting"}
         /\ \A g \in Handlers \ {h} : handler'[g] = handler[g]
<1>1. /\ o \notin sent /\ sent' = sent \cup {o} /\ Engine(o, Quantity)
      /\ Calls(h, o, "submitted", "submitting") /\ UNCHANGED <<amended, rows, registry>>
  BY DEF Submit
<1>2. OrderTypes'
  BY <1>1, EngineEffect DEF OrderTypes
<1>3. /\ CallTypes' /\ handler'[h].order = o /\ handler'[h].pc \in {"submitted", "submitting"}
      /\ \A g \in Handlers \ {h} : handler'[g] = handler[g]
  <2>. DEFINE pc == IF unsent' = <<>> THEN "submitted" ELSE "submitting"
  <2>1. pc \in Pcs \ {"idle"} /\ pc \in {"submitted", "submitting"} /\ handler' = [handler EXCEPT ![h] = At(pc, o)]
    BY <1>1 DEF Calls, Pcs
  <2>2. sent \subseteq sent' /\ o \in sent' /\ sent' \subseteq Orders
    BY <1>1 DEF OrderTypes
  <2>. HIDE DEF pc
  <2>3. /\ CallTypes' /\ handler'[h].pc = pc /\ handler'[h].order = o
        /\ \A g \in Handlers \ {h} : handler'[g] = handler[g]
    BY <2>1, <2>2, CallStarts
  <2>. QED
    BY <2>1, <2>3
<1>4. Unsent'
  <2>. SUFFICES ASSUME NEW p \in Orders \ sent'
                PROVE  left'[p] = 0 /\ filled'[p] = 0 /\ rows'[p] = None /\ registry'[p] = None
    BY DEF Unsent
  <2>1. p \in Orders \ sent /\ p # o
    BY <1>1
  <2>2. left[p] = 0 /\ filled[p] = 0 /\ rows[p] = None /\ registry[p] = None
    BY <2>1 DEF Unsent
  <2>3. left'[p] = left[p] /\ filled'[p] = filled[p]
    BY <1>1, <2>1, <2>2, EngineLeavesClosed
  <2>. QED
    BY <1>1, <2>2, <2>3
<1>. QED
  BY <1>2, <1>3, <1>4

LEMMA ModifyTypes ==
  ASSUME OrderTypes, CallTypes, Unsent, NEW h \in Handlers, ModifyInEngine(h)
  PROVE  /\ OrderTypes' /\ CallTypes' /\ Unsent'
         /\ handler[h].order \in sent
         /\ \A g \in Handlers \ {h} : handler'[g] = handler[g]
         /\ \/ handler'[h].pc = "idle" /\ handler'[h].order = None
            \/ handler'[h].pc \in {"modified", "modifying"} /\ handler'[h].order = handler[h].order
<1>. DEFINE o == handler[h].order
<1>1. handler[h].pc = "to modify" /\ sent' = sent /\ rows' = rows /\ registry' = registry
  BY DEF ModifyInEngine
<1>2. o \in sent /\ o \in Orders
  BY <1>1 DEF CallTypes, OrderTypes
<1>3. CASE Returns(h) /\ UNCHANGED <<pipeline, left, filled, amended>>
  <2>1. OrderTypes' /\ Unsent'
    BY <1>1, <1>3 DEF OrderTypes, Unsent
  <2>. QED
    BY <1>1, <1>2, <1>3, <2>1, CallReturns
<1>4. CASE left[o] > 0 /\ Engine(o, Quantity) /\ Calls(h, o, "modified", "modifying") /\ amended' = {o}
  <2>1. OrderTypes'
    BY <1>1, <1>2, <1>4, EngineEffect DEF OrderTypes
  <2>2. /\ CallTypes' /\ handler'[h].order = o /\ handler'[h].pc \in {"modified", "modifying"}
        /\ \A g \in Handlers \ {h} : handler'[g] = handler[g]
    <3>. DEFINE pc == IF unsent' = <<>> THEN "modified" ELSE "modifying"
    <3>1. pc \in Pcs \ {"idle"} /\ pc \in {"modified", "modifying"} /\ handler' = [handler EXCEPT ![h] = At(pc, o)]
      BY <1>4 DEF Calls, Pcs
    <3>2. sent \subseteq sent' /\ o \in sent' /\ sent' \subseteq Orders
      BY <1>1, <1>2 DEF OrderTypes
    <3>. HIDE DEF pc, o
    <3>3. /\ CallTypes' /\ handler'[h].pc = pc /\ handler'[h].order = o
          /\ \A g \in Handlers \ {h} : handler'[g] = handler[g]
      BY <1>2, <3>1, <3>2, CallStarts
    <3>. QED
      BY <3>1, <3>3
  <2>3. Unsent'
    <3>. SUFFICES ASSUME NEW p \in Orders \ sent'
                  PROVE  left'[p] = 0 /\ filled'[p] = 0 /\ rows'[p] = None /\ registry'[p] = None
      BY DEF Unsent
    <3>1. p \in Orders \ sent /\ p # o
      BY <1>1, <1>2
    <3>2. left[p] = 0 /\ filled[p] = 0 /\ rows[p] = None /\ registry[p] = None
      BY <3>1 DEF Unsent
    <3>3. left'[p] = left[p] /\ filled'[p] = filled[p]
      BY <1>2, <1>4, <3>1, <3>2, EngineLeavesClosed
    <3>. QED
      BY <1>1, <3>2, <3>3
  <2>. QED
    BY <1>2, <2>1, <2>2, <2>3
<1>. QED
  BY <1>3, <1>4 DEF ModifyInEngine

(* The handlers after the engine answered.  Each lemma says what the step  *)
(* did besides, order by order.                                            *)
LEMMA StoreTypes ==
  ASSUME OrderTypes, CallTypes, Unsent, NEW h \in Handlers, CreateOrder(h) \/ StoreModify(h)
  PROVE  /\ OrderTypes' /\ CallTypes' /\ Unsent'
         /\ handler[h].order \in sent /\ handler'[h].order = handler[h].order /\ handler'[h].pc = "to put"
         /\ \A g \in Handlers \ {h} : handler'[g] = handler[g]
         /\ rows'[handler[h].order] = Fresh
         /\ \A p \in Orders \ {handler[h].order} : rows'[p] = rows[p]
<1>. DEFINE o == handler[h].order
<1>1. /\ handler[h].pc \in {"submitted", "modified"} /\ rows' = [rows EXCEPT ![o] = Fresh] /\ Goes(h, "to put")
      /\ UNCHANGED <<left, filled, sent, amended, registry>>
  BY DEF CreateOrder, StoreModify
<1>2. o \in sent /\ o \in Orders
  BY <1>1 DEF CallTypes, OrderTypes
<1>3. /\ CallTypes' /\ handler'[h].order = o /\ handler'[h].pc = "to put"
      /\ \A g \in Handlers \ {h} : handler'[g] = handler[g]
  BY <1>1, CallGoes DEF Pcs
<1>. HIDE DEF o
<1>4. /\ rows' \in [Orders -> State \cup {None}] /\ rows'[o] = Fresh
      /\ \A p \in Orders \ {o} : rows'[p] = rows[p]
  BY <1>1, <1>2, FreshIsState DEF OrderTypes
<1>5. OrderTypes' /\ Unsent'
  BY <1>1, <1>2, <1>4 DEF OrderTypes, Unsent
<1>. QED
  BY <1>2, <1>3, <1>4, <1>5 DEF o

LEMMA LiveTypes ==
  ASSUME OrderTypes, CallTypes, Unsent, NEW h \in Handlers, PutLive(h) \/ DeleteLive(h)
  PROVE  /\ OrderTypes' /\ CallTypes' /\ Unsent'
         /\ handler[h].order \in sent /\ handler'[h].order = None /\ handler'[h].pc = "idle"
         /\ \A g \in Handlers \ {h} : handler'[g] = handler[g]
         /\ \/ handler[h].pc = "to put" /\ registry'[handler[h].order] = Fresh
            \/ handler[h].pc = "to delete" /\ registry'[handler[h].order] = None
         /\ \A p \in Orders \ {handler[h].order} : registry'[p] = registry[p]
<1>. DEFINE o == handler[h].order
<1>1. /\ handler[h].pc \in {"to put", "to delete"} /\ Returns(h)
      /\ UNCHANGED <<left, filled, sent, amended, rows>>
  BY DEF PutLive, DeleteLive
<1>2. o \in sent /\ o \in Orders
  BY <1>1 DEF CallTypes, OrderTypes
<1>3. PICK live \in {Fresh, None} :
        /\ registry' = [registry EXCEPT ![o] = live]
        /\ (handler[h].pc = "to put" /\ live = Fresh) \/ (handler[h].pc = "to delete" /\ live = None)
  BY DEF PutLive, DeleteLive
<1>4. /\ CallTypes' /\ handler'[h].order = None /\ handler'[h].pc = "idle"
      /\ \A g \in Handlers \ {h} : handler'[g] = handler[g]
  BY <1>1, CallReturns
<1>. HIDE DEF o
<1>5. /\ registry' \in [Orders -> State \cup {None}] /\ registry'[o] = live
      /\ \A p \in Orders \ {o} : registry'[p] = registry[p]
  BY <1>2, <1>3, FreshIsState DEF OrderTypes
<1>6. OrderTypes' /\ Unsent'
  BY <1>1, <1>2, <1>5 DEF OrderTypes, Unsent
<1>. QED
  BY <1>2, <1>3, <1>4, <1>5, <1>6 DEF o

LEMMA LoadTypes ==
  ASSUME OrderTypes, CallTypes, Unsent, NEW h \in Handlers, NEW o \in Orders, LoadOrder(h, o)
  PROVE  /\ OrderTypes' /\ CallTypes' /\ Unsent'
         /\ o \in sent /\ handler'[h].order = o /\ handler'[h].pc \in {"to cancel", "to modify"}
         /\ \A g \in Handlers \ {h} : handler'[g] = handler[g]
<1>1. /\ rows[o] # None /\ UNCHANGED <<left, filled, sent, amended, rows, registry>>
      /\ \E pc \in {"to cancel", "to modify"} : handler' = [handler EXCEPT ![h] = At(pc, o)]
  BY DEF LoadOrder, IsOpen
<1>2. o \in sent
  BY <1>1 DEF Unsent
<1>3. PICK pc \in {"to cancel", "to modify"} : handler' = [handler EXCEPT ![h] = At(pc, o)]
  BY <1>1
<1>4. pc \in Pcs \ {"idle"} /\ sent \subseteq sent' /\ o \in sent' /\ sent' \subseteq Orders
  BY <1>1, <1>2 DEF Pcs, OrderTypes
<1>5. /\ CallTypes' /\ handler'[h].order = o /\ handler'[h].pc = pc
      /\ \A g \in Handlers \ {h} : handler'[g] = handler[g]
  BY <1>3, <1>4, CallStarts
<1>6. OrderTypes' /\ Unsent'
  BY <1>1 DEF OrderTypes, Unsent
<1>. QED
  BY <1>2, <1>3, <1>5, <1>6

LEMMA CancelTypes ==
  ASSUME OrderTypes, CallTypes, Unsent, NEW h \in Handlers, CancelInEngine(h)
  PROVE  /\ OrderTypes' /\ CallTypes' /\ Unsent'
         /\ handler[h].order \in sent
         /\ \A g \in Handlers \ {h} : handler'[g] = handler[g]
         /\ \/ left[handler[h].order] > 0 /\ handler'[h].order = handler[h].order /\ handler'[h].pc = "cancelled"
            \/ handler'[h].order = None /\ handler'[h].pc = "idle"
         /\ left'[handler[h].order] = 0
         /\ \A p \in Orders \ {handler[h].order} : left'[p] = left[p]
<1>. DEFINE o == handler[h].order
<1>1. /\ handler[h].pc = "to cancel" /\ left' = [left EXCEPT ![o] = 0]
      /\ IF left[o] > 0 THEN Goes(h, "cancelled") ELSE Returns(h)
      /\ UNCHANGED <<filled, sent, amended, rows, registry>>
  BY DEF CancelInEngine
<1>2. o \in sent /\ o \in Orders
  BY <1>1 DEF CallTypes, OrderTypes
<1>3. /\ CallTypes'
      /\ \A g \in Handlers \ {h} : handler'[g] = handler[g]
      /\ \/ left[o] > 0 /\ handler'[h].order = o /\ handler'[h].pc = "cancelled"
         \/ handler'[h].order = None /\ handler'[h].pc = "idle"
  <2>1. CASE left[o] > 0
    BY <1>1, <2>1, CallGoes DEF Pcs
  <2>2. CASE ~(left[o] > 0)
    BY <1>1, <2>2, CallReturns
  <2>. QED
    BY <2>1, <2>2
<1>. HIDE DEF o
<1>4. /\ left' \in [Orders -> 0..Quantity] /\ left'[o] = 0
      /\ \A p \in Orders \ {o} : left'[p] = left[p]
  <2>1. 0 \in 0..Quantity
    BY OrdersAssumption
  <2>. QED
    BY <1>1, <1>2, <2>1 DEF OrderTypes
<1>5. OrderTypes' /\ Unsent'
  BY <1>1, <1>2, <1>4 DEF OrderTypes, Unsent
<1>. QED
  BY <1>2, <1>3, <1>4, <1>5 DEF o

LEMMA StoreCancelTypes ==
  ASSUME OrderTypes, CallTypes, Unsent, NEW h \in Handlers, StoreCancel(h)
  PROVE  /\ OrderTypes' /\ CallTypes' /\ Unsent'
         /\ handler[h].order \in sent /\ handler'[h].order = handler[h].order /\ handler'[h].pc = "to delete"
         /\ \A g \in Handlers \ {h} : handler'[g] = handler[g]
         /\ \/ rows'[handler[h].order] = rows[handler[h].order] /\ ~IsOpen(rows[handler[h].order])
            \/ /\ rows[handler[h].order] # None
               /\ rows'[handler[h].order] # None
               /\ rows'[handler[h].order].status = "Cancelled"
               /\ rows'[handler[h].order].remaining = rows[handler[h].order].remaining
               /\ IsOpen(rows[handler[h].order])
         /\ \A p \in Orders \ {handler[h].order} : rows'[p] = rows[p]
<1>. DEFINE o == handler[h].order
<1>1. /\ handler[h].pc = "cancelled" /\ Goes(h, "to delete")
      /\ rows' = IF IsOpen(rows[o]) THEN [rows EXCEPT ![o].status = "Cancelled"] ELSE rows
      /\ UNCHANGED <<left, filled, sent, amended, registry>>
  BY DEF StoreCancel
<1>2. o \in sent /\ o \in Orders
  BY <1>1 DEF CallTypes, OrderTypes
<1>3. /\ CallTypes' /\ handler'[h].order = o /\ handler'[h].pc = "to delete"
      /\ \A g \in Handlers \ {h} : handler'[g] = handler[g]
  BY <1>1, CallGoes DEF Pcs
<1>. HIDE DEF o
<1>4. /\ rows' \in [Orders -> State \cup {None}]
      /\ \/ rows'[o] = rows[o] /\ ~IsOpen(rows[o])
         \/ /\ rows[o] # None /\ rows'[o] # None /\ rows'[o].status = "Cancelled"
            /\ rows'[o].remaining = rows[o].remaining /\ IsOpen(rows[o])
      /\ \A p \in Orders \ {o} : rows'[p] = rows[p]
  <2>1. CASE ~IsOpen(rows[o])
    BY <1>1, <2>1 DEF OrderTypes
  <2>2. CASE IsOpen(rows[o])
    <3>. DEFINE row == [rows[o] EXCEPT !.status = "Cancelled"]
    <3>1. rows[o] \in State /\ rows[o] # None
      BY <1>2, <2>2 DEF OrderTypes, IsOpen
    <3>2. row \in State /\ row.status = "Cancelled" /\ row.remaining = rows[o].remaining /\ row # None
      BY <3>1, OrdersAssumption DEF State, Statuses
    <3>3. rows' = [rows EXCEPT ![o] = row]
      BY <1>1, <1>2, <2>2, <3>1 DEF OrderTypes
    <3>. HIDE DEF row
    <3>4. rows' \in [Orders -> State \cup {None}] /\ rows'[o] = row /\ \A p \in Orders \ {o} : rows'[p] = rows[p]
      BY <1>2, <3>2, <3>3 DEF OrderTypes
    <3>. QED
      BY <2>2, <3>1, <3>2, <3>4
  <2>. QED
    BY <2>1, <2>2
<1>5. OrderTypes' /\ Unsent'
  BY <1>1, <1>2, <1>4 DEF OrderTypes, Unsent
<1>. QED
  BY <1>2, <1>3, <1>4, <1>5 DEF o

LEMMA FailTypes ==
  ASSUME OrderTypes, CallTypes, Unsent, NEW h \in Handlers, StoreFails(h)
  PROVE  /\ OrderTypes' /\ CallTypes' /\ Unsent'
         /\ handler'[h].order = None /\ handler'[h].pc = "idle"
         /\ \A g \in Handlers \ {h} : handler'[g] = handler[g]
<1>1. Returns(h) /\ UNCHANGED <<left, filled, sent, amended, rows, registry>>
  BY DEF StoreFails
<1>2. OrderTypes' /\ Unsent'
  BY <1>1 DEF OrderTypes, Unsent
<1>. QED
  BY <1>1, <1>2, CallReturns

(* The engine answers, and fills arrive.                                   *)
LEMMA AnswerTypes ==
  ASSUME OrderTypes, CallTypes, Unsent, PublishAndAnswer
  PROVE  /\ OrderTypes' /\ CallTypes' /\ Unsent'
         /\ \A h \in Handlers :
              /\ handler'[h].order = handler[h].order
              /\ handler'[h].pc = CASE handler[h].pc = "submitting" -> "submitted"
                                    [] handler[h].pc = "modifying" -> "modified"
                                    [] OTHER -> handler[h].pc
<1>1. handler' = [h \in Handlers |-> Answered(handler[h])] /\ UNCHANGED <<left, filled, sent, amended, rows, registry>>
  BY DEF PublishAndAnswer
<1>2. OrderTypes' /\ Unsent'
  BY <1>1 DEF OrderTypes, Unsent
<1>. QED
  BY <1>1, <1>2, CallsAnswered

LEMMA RestartTypes ==
  ASSUME OrderTypes, CallTypes, Unsent, EngineRestarts
  PROVE  /\ OrderTypes' /\ CallTypes' /\ Unsent'
         /\ \A h \in Handlers :
              \/ handler'[h] = handler[h]
              \/ handler'[h].pc = "idle" /\ handler'[h].order = None
<1>1. /\ handler' = [h \in Handlers |-> IF Answered(handler[h]) = handler[h] THEN handler[h] ELSE Idle]
      /\ UNCHANGED <<left, filled, sent, amended, rows, registry>>
  BY DEF EngineRestarts
<1>2. OrderTypes' /\ Unsent'
  BY <1>1 DEF OrderTypes, Unsent
<1>3. Idle.pc = "idle" /\ Idle.order = None
  BY DEF Idle
<1>. QED
  BY <1>1, <1>2, <1>3, CallsLost

LEMMA TellTypes ==
  ASSUME PipeTypes, EngineOrder, GatewayOrder, OrderTypes, CallTypes, Unsent, TellFill
  PROVE  /\ OrderTypes' /\ CallTypes' /\ Unsent'
         /\ Head(reading) \in DOMAIN made
         /\ \A p \in Orders :
              /\ registry'[p] # None =>
                   /\ registry[p] # None
                   /\ registry'[p].remaining = registry[p].remaining - Takes(Head(reading), p)
                   /\ registry[p].status \in OpenStatuses => registry'[p].status \in OpenStatuses
              /\ registry[p] # None /\ registry[p].status \in OpenStatuses /\ registry'[p] = None =>
                   registry[p].remaining <= Takes(Head(reading), p)
<1>. DEFINE f == Head(reading)
<1>1. /\ registry' = [o \in Orders |-> Live(o, f)]
      /\ UNCHANGED <<left, filled, sent, amended, rows, handler>> /\ reading # << >>
  BY DEF TellFill, Tell
<1>2. f \in DOMAIN made
  BY <1>1, HeldAreMade
<1>. HIDE DEF f
<1>3. ASSUME NEW p \in Orders
      PROVE  /\ registry'[p] \in State \cup {None}
             /\ registry[p] = None => registry'[p] = None
             /\ registry'[p] # None =>
                   /\ registry[p] # None
                   /\ registry'[p].remaining = registry[p].remaining - Takes(f, p)
                   /\ registry[p].status \in OpenStatuses => registry'[p].status \in OpenStatuses
             /\ registry[p] # None /\ registry[p].status \in OpenStatuses /\ registry'[p] = None =>
                   registry[p].remaining <= Takes(f, p)
  <2>1. registry'[p] = Live(p, f) /\ registry[p] \in State \cup {None}
    BY <1>1 DEF OrderTypes
  <2>2. CASE registry[p] = None
    BY <2>1, <2>2 DEF Live
  <2>3. CASE registry[p] # None /\ ~Involves(f, p)
    <3>1. registry'[p] = registry[p] /\ Takes(f, p) = 0
      BY <2>1, <2>3 DEF Live, Takes
    <3>2. registry[p].remaining \in Int
      BY <2>1, <2>3 DEF State
    <3>. QED
      BY <2>1, <2>3, <3>1, <3>2
  <2>4. CASE registry[p] # None /\ Involves(f, p)
    <3>. DEFINE state == registry[p]
                q == made[f].quantity
                after == After(registry[p], made[f].quantity)
    <3>1. state \in State /\ state.remaining \in Int
      BY <2>1, <2>4 DEF State
    <3>2. Takes(f, p) = q /\ q \in Nat
      BY <1>2, <2>4, TakesOfMade
    <3>3. registry'[p] = IF after.status = "Filled" THEN None ELSE after
      BY <2>1, <2>4 DEF Live
    <3>. HIDE DEF state, q
    <3>4. /\ after \in State /\ after # None /\ after.remaining = state.remaining - q
          /\ after.status = IF state.remaining - q <= 0 THEN "Filled"
                            ELSE IF state.status = "Empty" THEN "PartiallyFilled"
                            ELSE state.status
      <4>1. q \in Int
        BY <3>2
      <4>2. after = After(state, q)
        BY DEF state, q
      <4>. HIDE DEF after
      <4>. QED
        BY <3>1, <4>1, <4>2, AfterIsState
    <3>. HIDE DEF after
    <3>5. CASE after.status = "Filled"
      <4>1. registry'[p] = None
        BY <3>3, <3>5
      <4>2. state.status \in OpenStatuses => state.remaining <= q
        BY <3>1, <3>2, <3>4, <3>5 DEF OpenStatuses
      <4>. QED
        BY <2>4, <3>2, <4>1, <4>2 DEF state
    <3>6. CASE after.status # "Filled"
      <4>1. registry'[p] = after /\ after # None
        BY <3>3, <3>4, <3>6
      <4>2. state.status \in OpenStatuses => after.status \in OpenStatuses
        BY <3>4, <3>6 DEF OpenStatuses
      <4>. QED
        BY <2>4, <3>2, <3>4, <4>1, <4>2 DEF state
    <3>. QED
      BY <3>5, <3>6
  <2>. QED
    BY <2>2, <2>3, <2>4
<1>4. registry' \in [Orders -> State \cup {None}]
  BY <1>1, <1>3
<1>5. OrderTypes' /\ CallTypes'
  BY <1>1, <1>4 DEF OrderTypes, CallTypes
<1>6. Unsent'
  BY <1>1, <1>3 DEF Unsent
<1>. QED
  BY <1>2, <1>3, <1>5, <1>6 DEF f

LEMMA PersistTypes ==
  ASSUME PipeTypes, EngineOrder, GatewayOrder, OrderTypes, CallTypes, Unsent, PersistBatch
  PROVE  /\ OrderTypes' /\ CallTypes' /\ Unsent'
         /\ \A p \in Orders :
              /\ rows[p] = None <=> rows'[p] = None
              /\ rows[p] # None =>
                   /\ rows'[p].remaining = rows[p].remaining - Delta(persisting, p)
                   /\ Delta(persisting, p) = 0 => rows'[p] = rows[p]
                   /\ Delta(persisting, p) # 0 =>
                        rows'[p].status = IF rows[p].remaining - Delta(persisting, p) <= 0 THEN "Filled"
                                          ELSE IF rows[p].status = "Empty" THEN "PartiallyFilled"
                                          ELSE rows[p].status
<1>1. /\ rows' = [o \in Orders |->
                    IF rows[o] = None \/ Delta(persisting, o) = 0 THEN rows[o]
                    ELSE After(rows[o], Delta(persisting, o))]
      /\ UNCHANGED <<left, filled, sent, amended, registry, handler>>
  BY DEF PersistBatch
<1>2. ASSUME NEW p \in Orders
      PROVE  /\ rows'[p] \in State \cup {None}
             /\ rows[p] = None <=> rows'[p] = None
             /\ rows[p] # None =>
                   /\ rows'[p].remaining = rows[p].remaining - Delta(persisting, p)
                   /\ Delta(persisting, p) = 0 => rows'[p] = rows[p]
                   /\ Delta(persisting, p) # 0 =>
                        rows'[p].status = IF rows[p].remaining - Delta(persisting, p) <= 0 THEN "Filled"
                                          ELSE IF rows[p].status = "Empty" THEN "PartiallyFilled"
                                          ELSE rows[p].status
  <2>. DEFINE d == Delta(persisting, p)
              row == rows[p]
  <2>1. d \in Nat
    BY DeltaIsNat
  <2>2. row \in State \cup {None} /\ rows'[p] = IF row = None \/ d = 0 THEN row ELSE After(row, d)
    BY <1>1 DEF OrderTypes
  <2>3. row # None => row \in State /\ row.remaining \in Int
    BY <2>2 DEF State
  <2>. HIDE DEF d, row
  <2>4. CASE row = None \/ d = 0
    BY <2>1, <2>2, <2>3, <2>4 DEF d, row
  <2>5. CASE row # None /\ d # 0
    <3>1. /\ After(row, d) \in State /\ After(row, d) # None /\ After(row, d).remaining = row.remaining - d
          /\ After(row, d).status = IF row.remaining - d <= 0 THEN "Filled"
                            ELSE IF row.status = "Empty" THEN "PartiallyFilled"
                            ELSE row.status
      BY <2>1, <2>3, <2>5, AfterIsState
    <3>2. rows'[p] = After(row, d)
      BY <2>2, <2>5
    <3>. QED
      BY <2>5, <3>1, <3>2 DEF d, row
  <2>. QED
    BY <2>4, <2>5
<1>3. rows' \in [Orders -> State \cup {None}]
  BY <1>1, <1>2
<1>4. OrderTypes' /\ CallTypes'
  BY <1>1, <1>3 DEF OrderTypes, CallTypes
<1>5. Unsent'
  BY <1>1, <1>2 DEF Unsent
<1>. QED
  BY <1>2, <1>4, <1>5

LEMMA StopTypes ==
  ASSUME OrderTypes, CallTypes, Unsent, Stop \/ StartAndHydrate
  PROVE  /\ OrderTypes' /\ CallTypes' /\ Unsent'
         /\ \/ Stop /\ \A h \in Handlers : handler'[h].pc = "idle" /\ handler'[h].order = None
            \/ StartAndHydrate /\ handler' = handler
         /\ \A p \in Orders : registry'[p] = None \/ (registry'[p] = rows[p] /\ IsOpen(rows[p]))
<1>1. UNCHANGED <<left, filled, sent, amended, rows>>
  BY DEF Stop, StartAndHydrate
<1>2. /\ registry' \in [Orders -> State \cup {None}]
      /\ \A p \in Orders : registry'[p] = None \/ (registry'[p] = rows[p] /\ IsOpen(rows[p]))
  <2>1. CASE Stop
    BY <2>1 DEF Stop
  <2>2. CASE StartAndHydrate
    BY <2>2 DEF StartAndHydrate, OrderTypes
  <2>. QED
    BY <2>1, <2>2
<1>3. OrderTypes' /\ Unsent'
  BY <1>1, <1>2 DEF OrderTypes, Unsent, IsOpen
<1>4. CallTypes' /\ \/ Stop /\ \A h \in Handlers : handler'[h].pc = "idle" /\ handler'[h].order = None
                    \/ StartAndHydrate /\ handler' = handler
  <2>1. Idle \in Call /\ Idle.pc = "idle" /\ Idle.order = None
    BY DEF Idle, Call, Pcs
  <2>2. CASE Stop
    BY <1>1, <2>1, <2>2 DEF Stop, CallTypes
  <2>3. CASE StartAndHydrate
    BY <1>1, <2>3 DEF StartAndHydrate, CallTypes
  <2>. QED
    BY <2>2, <2>3
<1>. QED
  BY <1>2, <1>3, <1>4

-----------------------------------------------------------------------------
(* The pipeline with the gateway around it                                 *)

LEMMA TypesInit == GatewayInit => OrderTypes /\ CallTypes /\ Unsent
<1>. SUFFICES ASSUME GatewayInit
              PROVE  OrderTypes /\ CallTypes /\ Unsent
  OBVIOUS
<1>1. 0 \in 0..Quantity
  BY OrdersAssumption
<1>2. OrderTypes /\ Unsent
  BY <1>1 DEF GatewayInit, OrderTypes, Unsent
<1>3. Idle \in Call /\ Idle.pc = "idle" /\ Idle.order = None
  BY DEF Idle, Call, Pcs
<1>4. CallTypes
  BY <1>3 DEF GatewayInit, CallTypes
<1>. QED
  BY <1>2, <1>4

LEMMA PipeInit == GatewayInit => PipeInv
<1>. SUFFICES ASSUME GatewayInit
              PROVE  PipeInv
  OBVIOUS
<1>1. /\ made = <<>> /\ unsent = <<>> /\ channel = <<>> /\ sending = <<>>
      /\ stream = <<>> /\ group = FALSE /\ cursor = 0 /\ pending = {} /\ acked = {}
      /\ up = TRUE
      /\ reading = <<>> /\ told = <<>> /\ persist_ch = <<>> /\ persisting = <<>> /\ stored = FALSE
      /\ trades = {} /\ applied = [f \in 1..MaxFills |-> 0]
      /\ last_told = 0 /\ Gone = {} /\ faults = 0
  BY DEF GatewayInit, FillsInit, Gone
<1>2. Queued = << >> /\ Waiting = << >>
  BY <1>1, FlattenNone DEF Queued, Waiting
<1>3. ToSet(<< >>) = {} /\ Ordered(<< >>)
  BY SetOfNone
<1>4. PipeTypes
  <2>1. << >> \in FillIds /\ << >> \in Seq(FillIds) /\ << >> \in Seq(Fill) /\ Len(<< >>) = 0
    BY DEF FillIds
  <2>2. /\ 0 <= MaxFills /\ 0 <= ChannelRoom /\ 0 <= PersistDepth /\ 0 \in 0..MaxFills /\ 0 \in 0..MaxFaults
        /\ [f \in 1..MaxFills |-> 0] \in [1..MaxFills -> Nat]
    BY FillsAssumption
  <2>. QED
    BY <1>1, <2>1, <2>2 DEF PipeTypes, PipelineTypeOK, Gone
<1>5. Unread(stream) = {}
  BY <1>1, <1>3 DEF Unread
<1>6. EngineOrder /\ GatewayOrder
  <2>1. InLine(stream, sending, Queued, unsent) /\ InLine(persisting, Waiting, told, reading)
    BY <1>1, <1>2, <1>3, Zenon DEF InLine, Before
  <2>2. cursor <= Len(made) /\ last_told <= cursor
    BY <1>1
  <2>3. /\ ToSet(stream) = {} /\ ToSet(sending) = {} /\ ToSet(Queued) = {} /\ ToSet(unsent) = {}
        /\ ToSet(persisting) = {} /\ ToSet(Waiting) = {} /\ ToSet(told) = {} /\ ToSet(reading) = {}
    BY <1>1, <1>2, <1>3
  <2>. QED
    BY <2>1, <2>2, <2>3, Zenon DEF EngineOrder, GatewayOrder
<1>7. TableInv
  BY <1>1, <1>2, <1>3 DEF TableInv
<1>8. AccountInv
  <2>1. 1..Len(made) = {}
    BY <1>1
  <2>2. /\ ToSet(sending) = {} /\ ToSet(Queued) = {} /\ ToSet(unsent) = {}
        /\ ToSet(persisting) = {} /\ ToSet(Waiting) = {} /\ ToSet(told) = {} /\ ToSet(reading) = {}
    BY <1>1, <1>2, <1>3
  <2>. QED
    BY <1>1, <1>5, <2>1, <2>2 DEF AccountInv
<1>. QED
  BY <1>4, <1>6, <1>7, <1>8, RecordedInit DEF PipeInv

LEMMA TypesStep ==
  ASSUME PipeTypes, EngineOrder, GatewayOrder, OrderTypes, CallTypes, Unsent, [Next]_vars
  PROVE  OrderTypes' /\ CallTypes' /\ Unsent'
<1>1. CASE UNCHANGED orderVars
  BY <1>1 DEF orderVars, OrderTypes, CallTypes, Unsent
<1>2. CASE UNCHANGED vars \/ Flow
  BY <1>1, <1>2 DEF vars, Flow
<1>3. ASSUME NEW h \in Handlers, NEW o \in Orders, Submit(h, o) \/ LoadOrder(h, o)
      PROVE  OrderTypes' /\ CallTypes' /\ Unsent'
  BY <1>3, SubmitTypes, LoadTypes
<1>4. ASSUME NEW h \in Handlers, CreateOrder(h) \/ PutLive(h) \/ CancelInEngine(h) \/ StoreCancel(h)
      PROVE  OrderTypes' /\ CallTypes' /\ Unsent'
  BY <1>4, StoreTypes, LiveTypes, CancelTypes, StoreCancelTypes
<1>5. ASSUME NEW h \in Handlers, DeleteLive(h) \/ ModifyInEngine(h) \/ StoreModify(h) \/ StoreFails(h)
      PROVE  OrderTypes' /\ CallTypes' /\ Unsent'
  BY <1>5, LiveTypes, ModifyTypes, StoreTypes, FailTypes
<1>6. CASE PublishAndAnswer \/ EngineRestarts \/ TellFill \/ PersistBatch \/ Stop \/ StartAndHydrate
  BY <1>6, AnswerTypes, RestartTypes, TellTypes, PersistTypes, StopTypes
<1>. QED
  BY <1>2, <1>3, <1>4, <1>5, <1>6 DEF Next

LEMMA PipeStep ==
  ASSUME PipeInv, OrderTypes, CallTypes, [Next]_vars
  PROVE  PipeInv'
<1>1. PipeTypes /\ RecordedInv /\ EngineOrder /\ GatewayOrder /\ TableInv /\ AccountInv
  BY DEF PipeInv
<1>2. RecordedInv'
  BY <1>1, RecordedStep
<1>3. faults \in 0..MaxFaults /\ MaxFaults \in Nat
  BY <1>1, FillsAssumption DEF PipeTypes, PipelineTypeOK
<1>4. CASE UNCHANGED pipeline
  BY <1>1, <1>3, <1>4, UnmovedInOrder DEF pipeline
<1>5. CASE UNCHANGED vars
  BY <1>4, <1>5 DEF vars
<1>6. ASSUME NEW o \in Orders, Engine(o, Quantity)
      PROVE  PipeInv'
  <2>1. PICK fills \in Seq(Fill) : Match(fills)
    BY <1>6, EngineMatches
  <2>. QED
    BY <1>1, <1>2, <2>1, MatchInOrder DEF PipeInv
<1>7. ASSUME NEW h \in Handlers, NEW o \in Orders, Submit(h, o) \/ LoadOrder(h, o)
      PROVE  PipeInv'
  BY <1>4, <1>6, <1>7 DEF Submit, LoadOrder
<1>8. ASSUME NEW h \in Handlers, CreateOrder(h) \/ PutLive(h) \/ CancelInEngine(h) \/ StoreCancel(h)
                                 \/ DeleteLive(h) \/ StoreModify(h)
      PROVE  PipeInv'
  BY <1>4, <1>8 DEF CreateOrder, PutLive, CancelInEngine, StoreCancel, DeleteLive, StoreModify
<1>9. ASSUME NEW h \in Handlers, ModifyInEngine(h)
      PROVE  PipeInv'
  <2>1. handler[h].order \in Orders
    BY <1>9 DEF ModifyInEngine, CallTypes, OrderTypes
  <2>. QED
    BY <1>4, <1>6, <1>9, <2>1 DEF ModifyInEngine
<1>10. ASSUME NEW h \in Handlers, StoreFails(h)
       PROVE  PipeInv'
  <2>1. faults' \in 0..MaxFaults
    BY <1>3, <1>10 DEF StoreFails, Faulty
  <2>. QED
    BY <1>1, <1>10, <2>1, UnmovedInOrder DEF StoreFails
<1>11. CASE PublishAndAnswer \/ EngineRestarts \/ TellFill
  BY <1>1, <1>2, <1>11, PublishInOrder, EngineLosesInOrder, TellInOrder
     DEF PublishAndAnswer, EngineRestarts, TellFill, PipeInv
<1>12. CASE PersistBatch \/ Stop \/ StartAndHydrate
  BY <1>1, <1>2, <1>12, PersistInOrder, StopInOrder, StartInOrder DEF PersistBatch, Stop, StartAndHydrate, PipeInv
<1>13. CASE Flow
  <2>1. CASE TakeBatch \/ Send \/ SendFails \/ RedisRestarts
    BY <1>1, <1>2, <2>1, PublishInOrder, SendInOrder, EngineLosesInOrder DEF PipeInv
  <2>2. CASE EnsureGroup \/ ReadBatch \/ ReadFails
    BY <1>1, <1>2, <2>2, GroupInOrder, ReadInOrder DEF PipeInv
  <2>3. CASE HandOff \/ TakeForPersist \/ Acknowledge \/ PersistFails \/ AcknowledgeFails
    BY <1>1, <1>2, <2>3, HandOverInOrder, DoneInOrder DEF PipeInv
  <2>. QED
    BY <1>13, <2>1, <2>2, <2>3 DEF Flow
<1>. QED
  BY <1>5, <1>7, <1>8, <1>9, <1>10, <1>11, <1>12, <1>13 DEF Next

(* The gateway, by its types, and the pipeline.                            *)
FlowInv == PipeInv /\ OrderTypes /\ CallTypes /\ Unsent

THEOREM FlowInvariant == Spec => []FlowInv
<1>1. GatewayInit => FlowInv
  BY PipeInit, TypesInit DEF FlowInv
<1>2. FlowInv /\ [Next]_vars => FlowInv'
  BY PipeStep, TypesStep DEF FlowInv, PipeInv
<1>. QED
  BY <1>1, <1>2, PTL DEF Spec

(* The types, of the pipeline and of what is kept of orders.               *)
THEOREM GatewayTypeCorrect == Spec => []GatewayTypeOK
<1>1. FlowInv => GatewayTypeOK
  <2>. SUFFICES ASSUME FlowInv
                PROVE  GatewayTypeOK
    OBVIOUS
  <2>1. PipelineTypeOK /\ \A f \in DOMAIN made : made[f] \in [bid : Orders, ask : Orders, quantity : 1..Quantity]
    <3>1. PipelineTypeOK /\ made \in Seq(Fill)
      BY DEF FlowInv, PipeInv, PipeTypes
    <3>2. \A f \in DOMAIN made : made[f] \in Fill
      BY <3>1
    <3>. QED
      BY <3>1, <3>2, Zenon DEF Fill
  <2>2. /\ left \in [Orders -> 0..Quantity] /\ filled \in [Orders -> Nat]
        /\ sent \subseteq Orders /\ amended \subseteq sent
        /\ \A o \in Orders : {rows[o], registry[o]} \subseteq State \cup {None}
    BY DEF FlowInv, OrderTypes
  <2>3. \A h \in Handlers : handler[h].pc \in Pcs /\ handler[h].order \in Orders \cup {None}
    BY DEF FlowInv, CallTypes, Call
  <2>. QED
    BY <2>1, <2>2, <2>3 DEF GatewayTypeOK, Pcs
<1>. QED
  BY <1>1, FlowInvariant, PTL

(* A fill is taken off the rows of its orders once at most, though only    *)
(* the table trades could tell a second delivery.                          *)
THEOREM FillsApplyOnce == Spec => []AppliedOnce
<1>1. FlowInv => AppliedOnce
  BY DEF FlowInv, PipeInv, TableInv, AppliedOnce
<1>. QED
  BY <1>1, FlowInvariant, PTL

(* Clients are told of fills in the order they were made, and of none      *)
(* twice.                                                                  *)
THEOREM FillsToldInOrder == Spec => ToldInOrder
<1>1. FlowInv /\ [Next]_vars => [last_told' > last_told]_last_told
  <2>. SUFFICES ASSUME FlowInv, [Next]_vars
                PROVE  last_told' > last_told \/ last_told' = last_told
    OBVIOUS
  <2>1. CASE TellFill
    BY <2>1, TellInOrder DEF FlowInv, PipeInv, TellFill
  <2>2. CASE UNCHANGED pipeline
    BY <2>2 DEF pipeline
  <2>3. CASE UNCHANGED vars
    BY <2>3, <2>2 DEF vars
  <2>4. ASSUME NEW o, NEW quantity, Engine(o, quantity)
        PROVE  last_told' = last_told
    BY <2>4 DEF Engine, Match
  <2>5. ASSUME NEW h \in Handlers, NEW o \in Orders, Submit(h, o) \/ LoadOrder(h, o)
        PROVE  last_told' = last_told
    <3>1. CASE Engine(o, Quantity)
      BY <2>4, <3>1
    <3>2. CASE LoadOrder(h, o)
      BY <2>2, <3>2 DEF LoadOrder, pipeline
    <3>. QED
      BY <2>5, <3>1, <3>2 DEF Submit
  <2>6. ASSUME NEW h \in Handlers, CreateOrder(h) \/ PutLive(h) \/ CancelInEngine(h) \/ StoreCancel(h)
                                   \/ DeleteLive(h) \/ StoreModify(h) \/ StoreFails(h)
        PROVE  last_told' = last_told
    BY <2>2, <2>6 DEF CreateOrder, PutLive, CancelInEngine, StoreCancel, DeleteLive, StoreModify, StoreFails, pipeline
  <2>7. ASSUME NEW h \in Handlers, ModifyInEngine(h)
        PROVE  last_told' = last_told
    <3>1. CASE Engine(handler[h].order, Quantity)
      BY <2>4, <3>1
    <3>2. CASE UNCHANGED <<pipeline, left, filled, amended>>
      BY <2>2, <3>2 DEF pipeline
    <3>. QED
      BY <2>7, <3>1, <3>2 DEF ModifyInEngine
  <2>8. CASE PublishAndAnswer \/ EngineRestarts \/ PersistBatch \/ Stop \/ StartAndHydrate
    BY <2>8 DEF PublishAndAnswer, Publish, EngineRestarts, EngineCrashes, PersistBatch, Persist,
                Stop, GatewayStops, StartAndHydrate, GatewayStarts
  <2>9. CASE Flow
    BY <2>9 DEF Flow, TakeBatch, Send, EnsureGroup, ReadBatch, HandOff, TakeForPersist, Acknowledge,
                SendFails, RedisRestarts, ReadFails, PersistFails, AcknowledgeFails
  <2>. QED
    BY <2>1, <2>3, <2>5, <2>6, <2>7, <2>8, <2>9 DEF Next, pipeline
<1>. QED
  BY <1>1, FlowInvariant, PTL DEF Spec, ToldInOrder

(* On its way to the table no fill overtakes another, from the publisher's *)
(* queue to the consumer's worker.                                         *)
LEMMA WayInOrder ==
  ASSUME PipeTypes, EngineOrder, GatewayOrder
  PROVE  LET way == persisting \o Waiting \o told \o reading \o Ahead \o sending \o Queued \o unsent
         IN  /\ way \in Seq(Int) /\ Ordered(way)
             /\ ToSet(way) = ToSet(persisting) \cup ToSet(Waiting) \cup ToSet(told) \cup ToSet(reading)
                               \cup Unread(stream) \cup ToSet(sending) \cup ToSet(Queued) \cup ToSet(unsent)
<1>. DEFINE a == persisting \o Waiting \o told \o reading
            b == a \o Ahead \o sending \o Queued
            c == b \o unsent
            gateway == ToSet(persisting) \cup ToSet(Waiting) \cup ToSet(told) \cup ToSet(reading)
            engine == Unread(stream) \cup ToSet(sending) \cup ToSet(Queued) \cup ToSet(unsent)
<1>1. Ahead \in FillIds /\ Ordered(Ahead) /\ ToSet(Ahead) = Unread(stream)
  <2>1. stream \in FillIds /\ Ordered(stream) /\ cursor \in Nat
    BY PipeSequences DEF EngineOrder, InLine
  <2>. QED
    BY <2>1, AheadIsUnread
<1>2. /\ persisting \in Seq(Int) /\ Waiting \in Seq(Int) /\ told \in Seq(Int) /\ reading \in Seq(Int)
      /\ Ahead \in Seq(Int) /\ sending \in Seq(Int) /\ Queued \in Seq(Int) /\ unsent \in Seq(Int)
  BY <1>1, PipeSequences, FillsAreNumbers
<1>3. a \in Seq(Int) /\ ToSet(a) = gateway /\ Ordered(a)
  <2>1. InLine(persisting, Waiting, told, reading)
    BY DEF GatewayOrder
  <2>2. /\ a \in Seq(Int)
        /\ ToSet(a) = ToSet(persisting) \cup ToSet(Waiting) \cup ToSet(told) \cup ToSet(reading)
        /\ InLine(persisting, Waiting, told, reading) => Ordered(a)
    <3>. DEFINE s == persisting
                t == Waiting
                u == told
                v == reading
    <3>1. s \in Seq(Int) /\ t \in Seq(Int) /\ u \in Seq(Int) /\ v \in Seq(Int) /\ a = s \o t \o u \o v
      BY <1>2
    <3>. HIDE DEF s, t, u, v, a
    <3>2. /\ s \o t \o u \o v \in Seq(Int)
          /\ ToSet(s \o t \o u \o v) = ToSet(s) \cup ToSet(t) \cup ToSet(u) \cup ToSet(v)
          /\ InLine(s, t, u, v) => Ordered(s \o t \o u \o v)
      BY <3>1, FourOrdered DEF InLine
    <3>. QED
      BY <3>1, <3>2, Zenon DEF s, t, u, v
  <2>. QED
    BY <2>1, <2>2
<1>4. \A f \in gateway : f \in Int /\ f <= cursor
  <2>1. ASSUME NEW f \in gateway
        PROVE  f \in Int /\ f <= cursor
    <3>1. f \in Int
      BY <1>3, SetOfSeq
    <3>2. f <= last_told \/ f <= cursor
      BY Zenon DEF GatewayOrder
    <3>3. last_told <= cursor /\ last_told \in Int /\ cursor \in Int
      BY PipeSequences DEF GatewayOrder
    <3>. HIDE DEF gateway
    <3>. QED
      BY <3>1, <3>2, <3>3
  <2>. QED
    BY <2>1
<1>5. \A g \in engine : g \in Int /\ cursor < g
  <2>1. \A g \in ToSet(sending) \cup ToSet(Queued) \cup ToSet(unsent) : g \in Int /\ cursor < g
    BY <1>2, SetOfSeq DEF EngineOrder
  <2>2. \A g \in Unread(stream) : g \in Int /\ cursor < g
    <3>1. \A g \in Unread(stream) : g \in Int
      BY <1>1, <1>2, SetOfSeq
    <3>. QED
      BY <3>1 DEF Unread
  <2>. QED
    BY <2>1, <2>2
<1>6. Before(gateway, engine)
  <2>1. ASSUME NEW f \in gateway, NEW g \in engine
        PROVE  f < g
    <3>1. f \in Int /\ f <= cursor /\ g \in Int /\ cursor < g /\ cursor \in Int
      BY <1>4, <1>5, PipeSequences
    <3>. HIDE DEF gateway, engine
    <3>. QED
      BY <3>1
  <2>. QED
    BY <2>1 DEF Before
<1>7. InLine(Ahead, sending, Queued, unsent)
  <2>1. InLine(stream, sending, Queued, unsent)
    BY DEF EngineOrder
  <2>2. ToSet(Ahead) \subseteq ToSet(stream)
    BY <1>1 DEF Unread
  <2>. QED
    BY <1>1, <2>1, <2>2, Zenon DEF InLine, Before
<1>8. b \in Seq(Int) /\ ToSet(b) = gateway \cup Unread(stream) \cup ToSet(sending) \cup ToSet(Queued) /\ Ordered(b)
  <2>1. Before(ToSet(a), ToSet(Ahead)) /\ Before(ToSet(a), ToSet(sending)) /\ Before(ToSet(a), ToSet(Queued))
    BY <1>1, <1>3, <1>6, Zenon DEF Before
  <2>2. /\ Ordered(Ahead) /\ Ordered(sending) /\ Ordered(Queued)
        /\ Before(ToSet(Ahead), ToSet(sending)) /\ Before(ToSet(Ahead), ToSet(Queued)) /\ Before(ToSet(sending), ToSet(Queued))
    BY <1>7, Zenon DEF InLine
  <2>. HIDE DEF a
  <2>3. b \in Seq(Int) /\ ToSet(b) = ToSet(a) \cup ToSet(Ahead) \cup ToSet(sending) \cup ToSet(Queued) /\ Ordered(b)
    <3>. DEFINE s == a
                t == Ahead
                u == sending
                v == Queued
    <3>1. s \in Seq(Int) /\ t \in Seq(Int) /\ u \in Seq(Int) /\ v \in Seq(Int) /\ b = s \o t \o u \o v
      BY <1>2, <1>3
    <3>2. InLine(s, t, u, v)
      BY <1>3, <2>1, <2>2, Zenon DEF InLine
    <3>. HIDE DEF s, t, u, v, b
    <3>3. /\ s \o t \o u \o v \in Seq(Int)
          /\ ToSet(s \o t \o u \o v) = ToSet(s) \cup ToSet(t) \cup ToSet(u) \cup ToSet(v)
          /\ InLine(s, t, u, v) => Ordered(s \o t \o u \o v)
      BY <3>1, FourOrdered DEF InLine
    <3>. QED
      BY <3>1, <3>2, <3>3, Zenon DEF s, t, u, v
  <2>. QED
    BY <1>1, <1>3, <2>3
<1>9. c \in Seq(Int) /\ ToSet(c) = gateway \cup Unread(stream) \cup ToSet(sending) \cup ToSet(Queued) \cup ToSet(unsent) /\ Ordered(c)
  <2>1. Before(ToSet(b), ToSet(unsent))
    <3>1. /\ Before(gateway, ToSet(unsent)) /\ Before(Unread(stream), ToSet(unsent))
          /\ Before(ToSet(sending), ToSet(unsent)) /\ Before(ToSet(Queued), ToSet(unsent))
      BY <1>1, <1>6, <1>7, Zenon DEF InLine, Before
    <3>. HIDE DEF b, gateway
    <3>. QED
      BY <1>8, <3>1, Zenon DEF Before
  <2>2. Ordered(unsent)
    BY <1>7 DEF InLine
  <2>. HIDE DEF b
  <2>. QED
    <3>1. c \in Seq(Int) /\ ToSet(c) = ToSet(b) \cup ToSet(unsent) /\ Ordered(c)
      <4>. DEFINE s == b
                  t == unsent
      <4>1. s \in Seq(Int) /\ t \in Seq(Int) /\ c = s \o t /\ Ordered(s) /\ Ordered(t) /\ Before(ToSet(s), ToSet(t))
        BY <1>2, <1>8, <2>1, <2>2
      <4>. HIDE DEF s, t, c
      <4>2. /\ s \o t \in Seq(Int) /\ ToSet(s \o t) = ToSet(s) \cup ToSet(t)
            /\ Ordered(s \o t) <=> Ordered(s) /\ Ordered(t) /\ Before(ToSet(s), ToSet(t))
        BY <4>1, ConcatOrdered
      <4>. QED
        BY <4>1, <4>2, Zenon DEF s, t
    <3>. HIDE DEF c
    <3>. QED
      BY <1>8, <3>1, Zenon
<1>. QED
  BY <1>9

-----------------------------------------------------------------------------
(* What the gateway leaves behind                                          *)

(* A fill that a fault of the gateway left is pending, is not in the table *)
(* and cannot come there: the gateway was given it and does not have it.   *)
(* Without a fault nothing is left or lost.                                *)
StrandedInv ==
  /\ stranded \subseteq pending \ trades
  /\ stranded \cap InHand = {}
  /\ \A f \in pending : f <= cursor
  /\ faults = 0 => lost = {} /\ stranded = {}

LEMMA PendingNumbers ==
  ASSUME PipeTypes
  PROVE  /\ \A f \in pending : f \in Nat
         /\ \A f \in InHand : f \in Nat
         /\ cursor \in Nat /\ faults \in Nat
<1>1. \A f \in InHand : f \in Nat
  <2>1. /\ ToSet(persisting) \subseteq 1..MaxFills /\ ToSet(Waiting) \subseteq 1..MaxFills
        /\ ToSet(told) \subseteq 1..MaxFills /\ ToSet(reading) \subseteq 1..MaxFills
    BY PipeSequences, FillsAreNumbers
  <2>. QED
    BY <2>1, FillsAssumption DEF InHand
<1>2. (\A f \in pending : f \in Nat) /\ faults \in Nat
  BY FillsAssumption DEF PipeTypes, PipelineTypeOK
<1>. QED
  BY <1>1, <1>2, PipeSequences

(* A step that gives up nothing, and takes nothing back.                   *)
LEMMA StrandedKept ==
  ASSUME PipeTypes, StrandedInv,
         stranded' = stranded, pending' = pending, trades' = trades, InHand' \subseteq InHand,
         cursor' \in Nat, cursor <= cursor',
         (lost' = lost /\ faults' = faults) \/ faults' = faults + 1
  PROVE  StrandedInv'
<1>1. \A f \in pending : f <= cursor'
  BY PendingNumbers DEF StrandedInv
<1>2. faults' = 0 => lost' = {} /\ stranded' = {}
  BY PendingNumbers DEF StrandedInv
<1>. QED
  BY <1>1, <1>2, Zenon DEF StrandedInv

LEMMA StrandedUnmoved ==
  ASSUME PipeTypes, StrandedInv, UNCHANGED <<consumerVars, pending, trades, stranded, cursor>>,
         (lost' = lost /\ faults' = faults) \/ faults' = faults + 1
  PROVE  StrandedInv'
<1>1. InHand' = InHand
  BY DEF consumerVars, InHand, Waiting
<1>2. cursor' \in Nat /\ cursor <= cursor'
  BY PendingNumbers
<1>. QED
  BY <1>1, <1>2, StrandedKept

(* The engine and its publisher, a crash of it, and a new process.         *)
LEMMA EngineStrandsNone ==
  ASSUME PipeTypes, StrandedInv,
         \/ \E fills \in Seq(Fill) : Match(fills)
         \/ Publish \/ TakeBatch \/ Send \/ SendFails \/ EngineCrashes \/ GatewayStarts
  PROVE  StrandedInv'
<1>1. CASE \E fills \in Seq(Fill) : Match(fills)
  BY <1>1, StrandedUnmoved DEF Match, redisVars, tableVars, missing
<1>2. CASE Publish \/ TakeBatch \/ Send
  BY <1>2, StrandedUnmoved DEF Publish, TakeBatch, Send, redisVars, tableVars, missing
<1>3. CASE SendFails \/ EngineCrashes
  BY <1>3, StrandedUnmoved DEF SendFails, EngineCrashes, Faulty, redisVars, tableVars
<1>4. CASE GatewayStarts
  BY <1>4, StrandedUnmoved DEF GatewayStarts, Resumed, tableVars, missing
<1>. QED
  BY <1>1, <1>2, <1>3, <1>4

(* Redis: its restart takes what was pending, and a new group starts       *)
(* behind what is in the stream.                                           *)
LEMMA RedisStrandsNone ==
  ASSUME PipeTypes, PipeTypes', EngineOrder, StrandedInv, RedisRestarts \/ EnsureGroup
  PROVE  StrandedInv'
<1>1. CASE RedisRestarts
  <2>1. pending' = {} /\ stranded' = {} /\ faults' = faults + 1
    BY <1>1 DEF RedisRestarts, Faulty
  <2>2. faults' # 0
    BY <2>1, PendingNumbers
  <2>. QED
    BY <2>1, <2>2 DEF StrandedInv
<1>2. CASE EnsureGroup
  <2>1. /\ ~group /\ cursor' = IF stream = << >> THEN cursor ELSE Last(stream)
        /\ stranded' = stranded /\ pending' = pending /\ trades' = trades /\ UNCHANGED consumerVars
        /\ lost' = lost /\ faults' = faults
    BY <1>2 DEF EnsureGroup, tableVars
  <2>2. cursor \in Nat /\ cursor' \in Nat
    BY PipeSequences DEF PipeTypes, PipelineTypeOK
  <2>3. cursor <= cursor'
    <3>1. CASE stream = << >>
      BY <2>1, <2>2, <3>1
    <3>2. CASE stream # << >>
      <4>1. stream \in Seq(Int)
        BY PipeSequences, FillsAreNumbers
      <4>2. Last(stream) \in ToSet(stream)
        BY <3>2, <4>1, LastIsLargest DEF EngineOrder, InLine
      <4>3. cursor < Last(stream)
        BY <2>1, <4>2 DEF EngineOrder
      <4>. QED
        BY <2>1, <2>2, <3>2, <4>3
    <3>. QED
      BY <3>1, <3>2
  <2>4. InHand' = InHand
    BY <2>1 DEF consumerVars, InHand, Waiting
  <2>. QED
    BY <2>1, <2>2, <2>3, <2>4, StrandedKept
<1>. QED
  BY <1>1, <1>2

(* A read: what it delivers the gateway was not given before.              *)
LEMMA ReadStrands ==
  ASSUME PipeTypes, PipeTypes', EngineOrder, GatewayOrder, TableInv, StrandedInv, ReadBatch \/ ReadFails
  PROVE  StrandedInv'
<1>1. /\ reading = << >> /\ Delivered # << >> /\ cursor' = Last(Delivered)
      /\ pending' = pending \cup ToSet(Delivered) /\ trades' = trades
      /\ persisting' = persisting /\ told' = told /\ Waiting' = Waiting
  BY DEF ReadBatch, ReadFails, ReaderFree, consumerVars, tableVars, Waiting
<1>2. /\ ToSet(Delivered) \subseteq Unread(stream)
      /\ Last(Delivered) \in ToSet(Delivered) /\ \A f \in ToSet(Delivered) : f <= Last(Delivered)
  BY <1>1, DeliveredIsNext, PipeSequences DEF EngineOrder, InLine
<1>3. /\ ToSet(stream) \subseteq 1..MaxFills /\ cursor \in Nat /\ last_told \in Nat /\ MaxFills \in Nat
  BY PipeSequences, FillsAreNumbers
<1>4. \A f \in ToSet(Delivered) : cursor < f /\ f \in Nat
  BY <1>2, <1>3 DEF Unread
<1>5. \A f \in pending' : f <= cursor'
  <2>1. \A f \in pending : f <= cursor /\ f \in Nat
    BY PendingNumbers DEF StrandedInv
  <2>2. Last(Delivered) \in Nat /\ cursor < Last(Delivered)
    BY <1>2, <1>4
  <2>. QED
    BY <1>1, <1>2, <1>3, <2>1, <2>2
<1>6. \A f \in InHand \cup trades : f <= cursor
  <2>1. \A f \in InHand : f <= last_told \/ f <= cursor
    BY Zenon DEF InHand, GatewayOrder
  <2>2. \A f \in trades : f <= last_told /\ f \in Nat
    BY <1>3 DEF TableInv, PipeTypes, PipelineTypeOK
  <2>3. last_told <= cursor
    BY DEF GatewayOrder
  <2>. QED
    BY <1>3, <2>1, <2>2, <2>3, PendingNumbers
<1>7. ToSet(Delivered) \cap (InHand \cup trades) = {}
  BY <1>3, <1>4, <1>6
<1>8. \A f \in stranded : f \notin ToSet(Delivered)
  <2>1. \A f \in stranded : f <= cursor /\ f \in Nat
    BY PendingNumbers DEF StrandedInv
  <2>. QED
    BY <1>3, <1>4, <2>1
<1>9. CASE ReadBatch
  <2>1. reading' = Delivered /\ stranded' = stranded /\ lost' = lost /\ faults' = faults
    BY <1>9 DEF ReadBatch, missing
  <2>2. InHand' \subseteq InHand \cup ToSet(Delivered)
    BY <1>1, <2>1, Zenon DEF InHand
  <2>. QED
    BY <1>1, <1>5, <1>8, <2>1, <2>2, Zenon DEF StrandedInv
<1>10. CASE ReadFails
  <2>1. reading' = reading /\ stranded' = stranded \cup ToSet(Delivered) /\ faults' = faults + 1
    BY <1>10 DEF ReadFails, consumerVars, Faulty
  <2>2. InHand' = InHand
    BY <1>1, <2>1, Zenon DEF InHand
  <2>3. faults' # 0
    BY <2>1, PendingNumbers
  <2>. QED
    BY <1>1, <1>5, <1>7, <2>1, <2>2, <2>3, Zenon DEF StrandedInv
<1>. QED
  BY <1>9, <1>10

(* The worker: it stores and acknowledges what it has, and gives up what   *)
(* it could not store.                                                     *)
LEMMA WorkerStrands ==
  ASSUME PipeTypes, RecordedInv, GatewayOrder, TableInv, StrandedInv,
         Persist \/ Acknowledge \/ AcknowledgeFails \/ PersistFails
  PROVE  StrandedInv'
<1>1. /\ cursor' = cursor /\ reading' = reading /\ told' = told /\ Waiting' = Waiting
  BY DEF Persist, Acknowledge, AcknowledgeFails, PersistFails, redisVars, Waiting
<1>2. stranded \cap ToSet(persisting) = {}
  BY Zenon DEF StrandedInv, InHand
<1>3. CASE Persist
  <2>1. /\ trades' = trades \cup ToSet(persisting) /\ persisting' = persisting
        /\ stranded' = stranded /\ pending' = pending /\ lost' = lost /\ faults' = faults
    BY <1>3 DEF Persist, Commit, redisVars, missing
  <2>2. InHand' = InHand
    BY <1>1, <2>1, Zenon DEF InHand
  <2>. QED
    BY <1>1, <1>2, <2>1, <2>2, Zenon DEF StrandedInv
<1>4. ASSUME persisting' = << >>
      PROVE  ToSet(persisting') = {} /\ InHand' = ToSet(Waiting) \cup ToSet(told) \cup ToSet(reading)
  <2>1. ToSet(persisting') = {}
    BY <1>4, SetOfNone
  <2>. QED
    BY <1>1, <2>1, Zenon DEF InHand
<1>5. CASE Acknowledge
  <2>1. /\ pending' = pending \ ToSet(persisting) /\ persisting' = << >> /\ trades' = trades
        /\ stranded' = stranded /\ lost' = lost /\ faults' = faults
    BY <1>5 DEF Acknowledge, tableVars, missing
  <2>2. InHand' \subseteq InHand
    BY <1>4, <2>1, Zenon DEF InHand
  <2>. QED
    BY <1>1, <1>2, <2>1, <2>2, Zenon DEF StrandedInv
<1>6. CASE AcknowledgeFails
  <2>1. /\ pending' = pending /\ persisting' = << >> /\ trades' = trades
        /\ stranded' = stranded /\ faults' = faults + 1
    BY <1>6 DEF AcknowledgeFails, redisVars, tableVars, missing, Faulty
  <2>2. InHand' \subseteq InHand
    BY <1>4, <2>1, Zenon DEF InHand
  <2>. QED
    BY <1>1, <2>1, <2>2, StrandedKept, PendingNumbers
<1>7. CASE PersistFails
  <2>1. /\ pending' = pending /\ persisting' = << >> /\ trades' = trades /\ ~stored
        /\ stranded' = stranded \cup (ToSet(persisting) \cap pending) /\ faults' = faults + 1
    BY <1>7 DEF PersistFails, GivesUp, redisVars, tableVars, Faulty
  <2>2. ToSet(persisting) \cap trades = {}
    BY <2>1 DEF TableInv
  <2>3. ToSet(persisting) \cap (ToSet(Waiting) \cup ToSet(told) \cup ToSet(reading)) = {}
    <3>1. /\ Before(ToSet(persisting), ToSet(Waiting)) /\ Before(ToSet(persisting), ToSet(told))
          /\ Before(ToSet(persisting), ToSet(reading))
      BY Zenon DEF GatewayOrder, InLine
    <3>2. \A f \in ToSet(persisting) : ~(f < f)
      BY PendingNumbers DEF InHand
    <3>. QED
      BY <3>1, <3>2, Zenon DEF Before
  <2>4. InHand' = ToSet(Waiting) \cup ToSet(told) \cup ToSet(reading)
    BY <1>4, <2>1
  <2>5. InHand' \subseteq InHand
    BY <2>4, Zenon DEF InHand
  <2>6. faults' # 0
    BY <2>1, PendingNumbers
  <2>. QED
    BY <1>1, <2>1, <2>2, <2>3, <2>4, <2>5, <2>6, Zenon DEF StrandedInv
<1>. QED
  BY <1>3, <1>5, <1>6, <1>7

(* The gateway stops, and holds nothing after it.                          *)
LEMMA StopStrands ==
  ASSUME PipeTypes, StrandedInv, GatewayStops
  PROVE  StrandedInv'
<1>1. /\ \E fills : stranded' = stranded \cup ((fills \ trades) \cap pending)
      /\ pending' = pending /\ trades' = trades /\ cursor' = cursor /\ faults' = faults + 1
      /\ reading' = << >> /\ told' = << >> /\ persist_ch' = << >> /\ persisting' = << >>
  BY DEF GatewayStops, GivesUp, redisVars, tableVars, Faulty
<1>2. InHand' = {}
  BY <1>1, FlattenNone, SetOfNone DEF InHand, Waiting
<1>3. faults' # 0
  BY <1>1, PendingNumbers
<1>. QED
  BY <1>1, <1>2, <1>3, Zenon DEF StrandedInv

LEMMA StrandedStep ==
  ASSUME FlowInv, FlowInv', StrandedInv, [Next]_vars
  PROVE  StrandedInv'
<1>1. /\ PipeTypes /\ RecordedInv /\ EngineOrder /\ GatewayOrder /\ TableInv /\ PipeTypes'
      /\ OrderTypes /\ CallTypes
  BY DEF FlowInv, PipeInv
<1>2. CASE UNCHANGED pipeline
  BY <1>1, <1>2, StrandedUnmoved DEF pipeline, redisVars, tableVars, missing
<1>3. CASE UNCHANGED vars
  BY <1>2, <1>3 DEF vars
<1>4. ASSUME NEW o \in Orders, Engine(o, Quantity)
      PROVE  StrandedInv'
  BY <1>1, <1>4, EngineMatches, EngineStrandsNone
<1>5. ASSUME NEW h \in Handlers, NEW o \in Orders, Submit(h, o) \/ LoadOrder(h, o)
      PROVE  StrandedInv'
  BY <1>2, <1>4, <1>5 DEF Submit, LoadOrder
<1>6. ASSUME NEW h \in Handlers, CreateOrder(h) \/ PutLive(h) \/ CancelInEngine(h) \/ StoreCancel(h)
                                 \/ DeleteLive(h) \/ StoreModify(h)
      PROVE  StrandedInv'
  BY <1>2, <1>6 DEF CreateOrder, PutLive, CancelInEngine, StoreCancel, DeleteLive, StoreModify
<1>7. ASSUME NEW h \in Handlers, ModifyInEngine(h)
      PROVE  StrandedInv'
  <2>1. handler[h].order \in Orders
    BY <1>1, <1>7 DEF ModifyInEngine, CallTypes, OrderTypes
  <2>. QED
    BY <1>2, <1>4, <1>7, <2>1 DEF ModifyInEngine
<1>8. ASSUME NEW h \in Handlers, StoreFails(h)
      PROVE  StrandedInv'
  BY <1>1, <1>8, StrandedUnmoved DEF StoreFails, Faulty, redisVars, tableVars, missing
<1>9. CASE PublishAndAnswer \/ EngineRestarts \/ StartAndHydrate
  BY <1>1, <1>9, EngineStrandsNone DEF PublishAndAnswer, EngineRestarts, StartAndHydrate
<1>10. ASSUME UNCHANGED <<redisVars, tableVars, missing, faults>>, InHand' = InHand
       PROVE  StrandedInv'
  BY <1>1, <1>10, StrandedKept, PendingNumbers DEF redisVars, tableVars, missing
<1>11. CASE TellFill
  <2>1. InHand' = InHand
    BY <1>11, TellInOrder DEF TellFill, FlowInv, PipeInv
  <2>. QED
    BY <1>10, <1>11, <2>1 DEF TellFill, Tell
<1>12. CASE PersistBatch \/ Stop
  BY <1>1, <1>12, WorkerStrands, StopStrands DEF PersistBatch, Stop
<1>13. CASE Flow
  <2>1. CASE TakeBatch \/ Send \/ SendFails
    BY <1>1, <2>1, EngineStrandsNone
  <2>2. CASE RedisRestarts \/ EnsureGroup
    BY <1>1, <2>2, RedisStrandsNone
  <2>3. CASE ReadBatch \/ ReadFails
    BY <1>1, <2>3, ReadStrands
  <2>4. CASE HandOff \/ TakeForPersist
    <3>1. InHand' = InHand
      BY <2>4, HandOverInOrder DEF FlowInv, PipeInv
    <3>. QED
      BY <1>10, <2>4, <3>1 DEF HandOff, TakeForPersist
  <2>5. CASE Acknowledge \/ AcknowledgeFails \/ PersistFails
    BY <1>1, <2>5, WorkerStrands
  <2>. QED
    BY <1>13, <2>1, <2>2, <2>3, <2>4, <2>5 DEF Flow
<1>. QED
  BY <1>3, <1>5, <1>6, <1>7, <1>8, <1>9, <1>11, <1>12, <1>13 DEF Next

(* Every fill is in the table, on its way there in order, or has one of    *)
(* four fates: a fault of the engine or of Redis took it, the length of    *)
(* the stream cut it off, it came before the group, or a fault of the      *)
(* gateway left it pending and unrecorded.  Without a fault none is lost   *)
(* or left, so no queue between the engine and the table drops a fill but  *)
(* the stream, by its length (Publisher, MAX_LEN, Run, persistWorker).     *)
THEOREM FillsStayAccounted == Spec => []FillsAccounted
<1>1. FlowInv /\ StrandedInv => FillsAccounted
  <2>. SUFFICES ASSUME FlowInv, StrandedInv
                PROVE  FillsAccounted
    OBVIOUS
  <2>. DEFINE way == persisting \o FlattenSeq(persist_ch) \o told \o reading \o Ahead
                       \o sending \o FlattenSeq(channel) \o unsent
  <2>1. /\ Ordered(way)
        /\ ToSet(way) = ToSet(persisting) \cup ToSet(Waiting) \cup ToSet(told) \cup ToSet(reading)
                          \cup Unread(stream) \cup ToSet(sending) \cup ToSet(Queued) \cup ToSet(unsent)
    BY WayInOrder DEF FlowInv, PipeInv, Queued, Waiting
  <2>2. 1..Len(made) = ToSet(persisting) \cup ToSet(Waiting) \cup ToSet(told) \cup ToSet(reading)
                   \cup Unread(stream) \cup ToSet(sending) \cup ToSet(Queued) \cup ToSet(unsent)
                   \cup trades \cup Gone
    BY DEF FlowInv, PipeInv, AccountInv
  <2>3. 1..Len(made) = ToSet(way) \cup trades \cup Gone
    BY <2>1, <2>2, Zenon
  <2>4. \A m, n \in 1..Len(way) : m < n => way[m] < way[n]
    BY <2>1 DEF Ordered
  <2>5. 1..Len(made) = ToSet(way) \cup trades \cup lost \cup trimmed \cup passed \cup stranded
    <3>. HIDE DEF way
    <3>. QED
      BY <2>3, Zenon DEF Gone
  <2>6. (stranded \subseteq pending \ trades) /\ (faults = 0 => lost = {} /\ stranded = {})
    BY DEF StrandedInv
  <2>. QED
    BY <2>4, <2>5, <2>6, Zenon DEF FillsAccounted
<1>2. GatewayInit => StrandedInv
  BY DEF GatewayInit, FillsInit, StrandedInv
<1>3. FlowInv /\ FlowInv' /\ StrandedInv /\ [Next]_vars => StrandedInv'
  BY StrandedStep
<1>4. Spec => []StrandedInv
  BY <1>2, <1>3, FlowInvariant, PTL DEF Spec
<1>. QED
  BY <1>1, <1>4, FlowInvariant, PTL

-----------------------------------------------------------------------------
(* What the length of the stream cuts off                                  *)

(* Numbers in order grow by one at least from each to the next.            *)
LEMMA OrderedGrows ==
  ASSUME NEW s \in Seq(Int), Ordered(s), NEW i \in 1..Len(s)
  PROVE  s[i] + (Len(s) - i) <= s[Len(s)]
<1>. DEFINE Good == {k \in Nat : i + k <= Len(s) => s[i] + k <= s[i + k]}
<1>1. \A n \in 1..Len(s) : s[n] \in Int
  OBVIOUS
<1>2. 0 \in Good
  BY <1>1
<1>3. ASSUME NEW k \in Nat, k \in Good
      PROVE  k + 1 \in Good
  <2>. SUFFICES ASSUME i + (k + 1) <= Len(s)
                PROVE  s[i] + (k + 1) <= s[i + (k + 1)]
    OBVIOUS
  <2>1. i + k \in 1..Len(s) /\ i + (k + 1) \in 1..Len(s) /\ i + k < i + (k + 1)
    OBVIOUS
  <2>2. s[i + k] < s[i + (k + 1)]
    BY <2>1 DEF Ordered
  <2>3. s[i] + k <= s[i + k]
    BY <1>3, <2>1
  <2>. QED
    BY <1>1, <2>1, <2>2, <2>3
<1>4. Len(s) - i \in Nat
  OBVIOUS
<1>5. Len(s) - i \in Good
  <2>. HIDE DEF Good
  <2>. QED
    BY <1>2, <1>3, <1>4, NaturalsClosed
<1>6. i + (Len(s) - i) = Len(s)
  OBVIOUS
<1>. QED
  BY <1>5, <1>6

(* What is cut off a stream lies StreamRoom behind the last in it.         *)
LEMMA TrimmedIsFar ==
  ASSUME NEW s \in Seq(Int), Ordered(s), NEW t \in Trimmed(s), NEW f \in ToSet(s) \ ToSet(t),
         NEW top \in Int, \A g \in ToSet(s) : g <= top
  PROVE  f + StreamRoom <= top
<1>. DEFINE len == Len(s)
<1>1. len \in Nat /\ StreamRoom \in Nat /\ StreamRoom > 0 /\ len - StreamRoom + 1 \in Int
  BY FillsAssumption
<1>2. PICK n \in 1..(Max({1, len - StreamRoom + 1})) : t = SubSeq(s, n, len)
  BY DEF Trimmed
<1>3. n \in Nat /\ 1 <= n /\ (n <= 1 \/ n <= len - StreamRoom + 1)
  BY <1>1, <1>2, MaxOfTwo
<1>4. PICK i \in 1..len : f = s[i]
  BY SetOfSeq
<1>5. i < n
  <2>. SUFFICES ASSUME n <= i
                PROVE  FALSE
    BY <1>3
  <2>1. t \in Seq(Int) /\ i - n + 1 \in 1..Len(t) /\ t[i - n + 1] = s[i]
    BY <1>2, <1>3
  <2>2. s[i] \in ToSet(t)
    <3>. DEFINE k == i - n + 1
    <3>1. k \in 1..Len(t) /\ t[k] = s[i] /\ ToSet(t) = {t[m] : m \in 1..Len(t)}
      BY <2>1, SetOfSeq
    <3>. HIDE DEF k
    <3>. QED
      BY <3>1
  <2>. QED
    BY <1>4, <2>2
<1>6. i <= len - StreamRoom /\ len > 0
  BY <1>1, <1>3, <1>5
<1>7. s[i] + (len - i) <= s[len]
  BY <1>6, OrderedGrows
<1>8. s[len] \in ToSet(s) /\ s[len] \in Int /\ s[i] \in Int
  <2>1. len \in 1..Len(s) /\ ToSet(s) = {s[m] : m \in 1..Len(s)}
    BY <1>1, <1>6, SetOfSeq
  <2>. QED
    BY <2>1
<1>9. s[len] <= top
  BY <1>8
<1>. HIDE DEF len
<1>. QED
  BY <1>1, <1>4, <1>6, <1>7, <1>8, <1>9

LEMMA FarBehindStep ==
  ASSUME FlowInv, TrimmedAreFarBehind, [Next]_vars
  PROVE  TrimmedAreFarBehind'
<1>1. /\ PipeTypes /\ EngineOrder /\ OrderTypes /\ CallTypes
      /\ \A f \in trimmed : f \in Nat
      /\ StreamRoom \in Nat /\ Len(made) \in Nat
  BY FillsAssumption, PipeSequences DEF FlowInv, PipeInv, PipeTypes, PipelineTypeOK
<1>2. ASSUME UNCHANGED <<made, trimmed>>
      PROVE  TrimmedAreFarBehind'
  BY <1>2 DEF TrimmedAreFarBehind
<1>3. ASSUME NEW fills \in Seq(Fill), Match(fills)
      PROVE  TrimmedAreFarBehind'
  <2>1. trimmed' = trimmed /\ made \in Seq(Fill) /\ made' = made \o fills
    BY <1>1, <1>3 DEF Match, missing, PipeTypes
  <2>2. Len(made') \in Nat /\ Len(made) <= Len(made')
    BY <2>1
  <2>. QED
    BY <1>1, <2>1, <2>2 DEF TrimmedAreFarBehind
<1>4. ASSUME NEW taken \in Seq(Int), Ordered(taken), ToSet(taken) \subseteq ToSet(stream) \cup ToSet(sending),
             stream' \in Trimmed(taken), trimmed' = trimmed \cup (Unread(taken) \ ToSet(stream')), made' = made
      PROVE  TrimmedAreFarBehind'
  <2>1. \A f \in ToSet(taken) : f <= Len(made)
    BY <1>1, <1>4, Zenon DEF EngineOrder
  <2>2. \A f \in ToSet(taken) \ ToSet(stream') : f + StreamRoom <= Len(made)
    BY <1>1, <1>4, <2>1, TrimmedIsFar
  <2>3. Unread(taken) \subseteq ToSet(taken)
    BY DEF Unread
  <2>. QED
    BY <1>4, <2>2, <2>3, Zenon DEF TrimmedAreFarBehind
<1>5. stream \in Seq(Int) /\ sending \in Seq(Int)
  BY <1>1, PipeSequences, FillsAreNumbers
<1>6. Ordered(stream) /\ Ordered(sending) /\ Before(ToSet(stream), ToSet(sending))
  BY <1>1, Zenon DEF EngineOrder, InLine
<1>7. CASE Send
  <2>. DEFINE taken == stream \o sending
  <2>1. taken \in Seq(Int) /\ Ordered(taken) /\ ToSet(taken) = ToSet(stream) \cup ToSet(sending)
    BY <1>5, <1>6, ConcatOrdered
  <2>2. stream' \in Trimmed(taken) /\ trimmed' = trimmed \cup (Unread(taken) \ ToSet(stream')) /\ made' = made
    BY <1>7 DEF Send
  <2>. HIDE DEF taken
  <2>. QED
    BY <1>4, <2>1, <2>2
<1>8. CASE SendFails
  <2>1. PICK n \in 0..Len(sending) :
          LET some == stream \o SubSeq(sending, 1, n)
          IN  stream' \in Trimmed(some) /\ trimmed' = trimmed \cup (Unread(some) \ ToSet(stream'))
    BY <1>8 DEF SendFails
  <2>. DEFINE part == SubSeq(sending, 1, n)
              taken == stream \o part
  <2>2. made' = made /\ stream' \in Trimmed(taken) /\ trimmed' = trimmed \cup (Unread(taken) \ ToSet(stream'))
    BY <1>8, <2>1 DEF SendFails
  <2>3. part \in Seq(Int) /\ Ordered(part) /\ ToSet(part) \subseteq ToSet(sending)
    <3>1. 1 \in Nat \ {0} /\ n \in 0..Len(sending)
      OBVIOUS
    <3>. QED
      BY <1>5, <1>6, <3>1, PartOrdered
  <2>. HIDE DEF part
  <2>4. Before(ToSet(stream), ToSet(part))
    BY <1>6, <2>3, Zenon DEF Before
  <2>5. taken \in Seq(Int) /\ Ordered(taken) /\ ToSet(taken) = ToSet(stream) \cup ToSet(part)
    BY <1>5, <1>6, <2>3, <2>4, ConcatOrdered
  <2>. HIDE DEF taken
  <2>6. ToSet(taken) \subseteq ToSet(stream) \cup ToSet(sending)
    BY <2>3, <2>5, Zenon
  <2>. QED
    BY <1>4, <2>2, <2>5, <2>6
<1>9. CASE UNCHANGED pipeline \/ UNCHANGED vars
  BY <1>2, <1>9 DEF pipeline, vars, engineVars, missing
<1>10. ASSUME NEW o \in Orders, Engine(o, Quantity)
       PROVE  TrimmedAreFarBehind'
  BY <1>1, <1>3, <1>10, EngineMatches
<1>11. ASSUME NEW h \in Handlers, NEW o \in Orders, Submit(h, o) \/ LoadOrder(h, o)
       PROVE  TrimmedAreFarBehind'
  BY <1>9, <1>10, <1>11 DEF Submit, LoadOrder
<1>12. ASSUME NEW h \in Handlers, CreateOrder(h) \/ PutLive(h) \/ CancelInEngine(h) \/ StoreCancel(h)
                                  \/ DeleteLive(h) \/ StoreModify(h) \/ StoreFails(h)
       PROVE  TrimmedAreFarBehind'
  BY <1>2, <1>9, <1>12 DEF CreateOrder, PutLive, CancelInEngine, StoreCancel, DeleteLive, StoreModify, StoreFails,
                           engineVars, missing
<1>13. ASSUME NEW h \in Handlers, ModifyInEngine(h)
       PROVE  TrimmedAreFarBehind'
  <2>1. handler[h].order \in Orders
    BY <1>1, <1>13 DEF ModifyInEngine, CallTypes, OrderTypes
  <2>. QED
    BY <1>9, <1>10, <1>13, <2>1 DEF ModifyInEngine
<1>14. CASE PublishAndAnswer \/ EngineRestarts \/ TellFill
  BY <1>2, <1>14 DEF PublishAndAnswer, Publish, EngineRestarts, EngineCrashes, TellFill, Tell, engineVars, missing
<1>15. CASE PersistBatch \/ Stop \/ StartAndHydrate
  BY <1>2, <1>15 DEF PersistBatch, Persist, Stop, GatewayStops, StartAndHydrate, GatewayStarts, engineVars, missing
<1>16. CASE Flow
  <2>1. CASE TakeBatch \/ EnsureGroup \/ ReadBatch \/ HandOff \/ TakeForPersist \/ Acknowledge
    BY <1>2, <2>1 DEF TakeBatch, EnsureGroup, ReadBatch, HandOff, TakeForPersist, Acknowledge, engineVars, missing
  <2>2. CASE RedisRestarts \/ ReadFails \/ PersistFails \/ AcknowledgeFails
    BY <1>2, <2>2 DEF RedisRestarts, ReadFails, PersistFails, AcknowledgeFails, engineVars, missing
  <2>. QED
    BY <1>7, <1>8, <1>16, <2>1, <2>2 DEF Flow
<1>. QED
  BY <1>9, <1>11, <1>12, <1>13, <1>14, <1>15, <1>16 DEF Next

(* The stream is cut off before the gateway only when that is at least as  *)
(* far behind the engine as the stream is long, however the sizes of the   *)
(* batches, crashes and restarts fall (MAX_LEN, the publisher's XADD).     *)
THEOREM OnlyFarBehindMiss == Spec => []TrimmedAreFarBehind
<1>1. GatewayInit => TrimmedAreFarBehind
  BY DEF GatewayInit, FillsInit, TrimmedAreFarBehind
<1>. QED
  BY <1>1, FarBehindStep, FlowInvariant, PTL DEF Spec

(* A fill is acknowledged only when it is in the table, whatever crashes,  *)
(* fails or is late (persistWorker acknowledges what PersistFillBatch has  *)
(* committed, and nothing else).                                           *)
THEOREM AckedStayRecorded == Spec => []AckedAreRecorded
<1>1. RecordedInv => AckedAreRecorded
  BY DEF RecordedInv, AckedAreRecorded
<1>. QED
  BY <1>1, RecordedInit, RecordedStep, PTL DEF Spec

-----------------------------------------------------------------------------
(* How much of an order a set of fills is                                  *)

TakenFrom(o) == [f \in DOMAIN made |-> Takes(f, o)]
Sum(T, o) == SumFunctionOnSet(TakenFrom(o), T)

(* The fills clients were told of.                                         *)
Told == {f \in DOMAIN made : f <= last_told}

LEMMA FillsAreFinite ==
  ASSUME PipeTypes, NEW T \in SUBSET DOMAIN made
  PROVE  IsFiniteSet(T)
<1>1. DOMAIN made = 1..Len(made) /\ Len(made) \in Nat
  BY DEF PipeTypes
<1>2. IsFiniteSet(DOMAIN made)
  BY <1>1, FS_Interval
<1>. QED
  BY <1>2, FS_Subset

LEMMA TakenFromIsNat ==
  ASSUME PipeTypes, NEW o, NEW f \in DOMAIN made
  PROVE  TakenFrom(o)[f] = Takes(f, o) /\ TakenFrom(o)[f] \in Nat /\ TakenFrom(o)[f] \in Int
BY TakesOfMade DEF TakenFrom

LEMMA SumIsNat ==
  ASSUME PipeTypes, NEW o, NEW T \in SUBSET DOMAIN made
  PROVE  Sum(T, o) \in Nat
BY FillsAreFinite, TakenFromIsNat, SumOfNaturals DEF Sum

LEMMA SumOfFewer ==
  ASSUME PipeTypes, NEW o, NEW T \in SUBSET DOMAIN made, NEW S \in SUBSET T
  PROVE  Sum(S, o) <= Sum(T, o)
<1>1. IsFiniteSet(T) /\ \A f \in T : TakenFrom(o)[f] \in Nat
  BY FillsAreFinite, TakenFromIsNat
<1>. DEFINE g == TakenFrom(o)
<1>. HIDE DEF g
<1>2. SumFunctionOnSet(g, S) <= SumFunctionOnSet(g, T)
  BY <1>1, SumOfPart DEF g
<1>. QED
  BY <1>2 DEF Sum, g

(* What a batch takes off an order is what its fills are.                  *)
LEMMA DeltaIsSum ==
  ASSUME PipeTypes, EngineOrder, GatewayOrder, NEW o, NEW S \in SUBSET DOMAIN made, S \cap ToSet(persisting) = {}
  PROVE  /\ S \cup ToSet(persisting) \subseteq DOMAIN made
         /\ Sum(S, o) + Delta(persisting, o) <= Sum(S \cup ToSet(persisting), o)
<1>. DEFINE P == ToSet(persisting)
            D == DOMAIN persisting
            d == [n \in D |-> Takes(persisting[n], o)]
            g == TakenFrom(o)
<1>1. P \subseteq DOMAIN made
  BY HeldAreMade
<1>2. IsFiniteSet(S) /\ IsFiniteSet(P) /\ \A f \in S \cup P : g[f] \in Nat /\ g[f] \in Int
  BY <1>1, FillsAreFinite, TakenFromIsNat
<1>3. D = 1..Len(persisting) /\ Len(persisting) \in Nat /\ persisting \in Seq(Int)
  <2>1. persisting \in Seq(Int)
    BY PipeSequences, FillsAreNumbers
  <2>. QED
    BY <2>1
<1>4. IsFiniteSet(D)
  BY <1>3, FS_Interval
<1>5. persisting \in [D -> P]
  <2>1. \A n \in D : persisting[n] \in P
    BY HeldAreMade
  <2>2. persisting = [n \in D |-> persisting[n]]
    BY <1>3
  <2>. HIDE DEF P, D
  <2>. QED
    BY <2>1, <2>2
<1>6. ASSUME NEW m \in D, NEW n \in D, persisting[m] = persisting[n]
      PROVE  m = n
  <2>1. \A i, j \in 1..Len(persisting) : i < j => persisting[i] < persisting[j]
    BY DEF GatewayOrder, InLine, Ordered
  <2>2. persisting[m] \in Int
    BY <1>3
  <2>. QED
    BY <1>3, <1>6, <2>1, <2>2
<1>7. \A n \in D : d[n] \in Nat /\ d[n] = g[persisting[n]] /\ d[n] <= g[persisting[n]]
  <2>. SUFFICES ASSUME NEW n \in D
                PROVE  d[n] \in Nat /\ d[n] = g[persisting[n]] /\ d[n] <= g[persisting[n]]
    OBVIOUS
  <2>1. persisting[n] \in DOMAIN made
    BY HeldAreMade
  <2>2. d[n] = Takes(persisting[n], o)
    OBVIOUS
  <2>3. g[persisting[n]] = Takes(persisting[n], o) /\ g[persisting[n]] \in Nat
    BY <2>1, TakenFromIsNat
  <2>. HIDE DEF d, g
  <2>. QED
    BY <2>2, <2>3
<1>. HIDE DEF d, g, P, D
<1>8. SumFunctionOnSet(d, D) <= SumFunctionOnSet(g, P)
  BY <1>2, <1>4, <1>5, <1>6, <1>7, SumAtMost
<1>9. SumFunctionOnSet(g, S \cup P) = SumFunctionOnSet(g, S) + SumFunctionOnSet(g, P)
  BY <1>2, SumDisjoint DEF P
<1>10. SumFunctionOnSet(d, D) \in Nat /\ SumFunctionOnSet(g, P) \in Nat /\ SumFunctionOnSet(g, S) \in Nat
  BY <1>2, <1>4, <1>7, SumOfNaturals
<1>11. Delta(persisting, o) = SumFunctionOnSet(d, D)
  BY DEF Delta, d, D
<1>12. Sum(S, o) = SumFunctionOnSet(g, S) /\ Sum(S \cup P, o) = SumFunctionOnSet(g, S \cup P)
  BY DEF Sum, g
<1>13. Sum(S, o) + Delta(persisting, o) <= Sum(S \cup P, o)
  <2>. DEFINE a == SumFunctionOnSet(g, S)
              b == SumFunctionOnSet(g, P)
              c == SumFunctionOnSet(d, D)
  <2>1. a \in Nat /\ b \in Nat /\ c \in Nat /\ c <= b
    BY <1>8, <1>10
  <2>. HIDE DEF a, b, c
  <2>2. a + c <= a + b
    BY <2>1
  <2>. QED
    BY <1>9, <1>11, <1>12, <2>2 DEF a, b, c
<1>. QED
  BY <1>1, <1>13 DEF P

(* One more fill than those of a set.                                      *)
LEMMA SumOfOneMore ==
  ASSUME PipeTypes, NEW o, NEW S \in SUBSET DOMAIN made, NEW f \in DOMAIN made \ S
  PROVE  Sum(S \cup {f}, o) = Takes(f, o) + Sum(S, o)
<1>. DEFINE g == TakenFrom(o)
<1>1. IsFiniteSet(S) /\ (\A x \in S \cup {f} : g[x] \in Int) /\ g[f] = Takes(f, o)
  BY FillsAreFinite, TakenFromIsNat
<1>. HIDE DEF g
<1>2. SumFunctionOnSet(g, S \cup {f}) = g[f] + SumFunctionOnSet(g, S)
  BY <1>1, SumInserted
<1>. QED
  BY <1>1, <1>2 DEF Sum, g

(* A call leaves what was made before: it only adds to it.                 *)
LEMMA SumAfterCall ==
  ASSUME PipeTypes, NEW fills \in Seq(Fill), made' = made \o fills, NEW o
  PROVE  /\ DOMAIN made \subseteq DOMAIN made'
         /\ \A T \in SUBSET DOMAIN made : Sum(T, o)' = Sum(T, o)
<1>1. /\ DOMAIN made \subseteq DOMAIN made'
      /\ \A f \in DOMAIN made : made'[f] = made[f]
  <2>. DEFINE F == Fill
  <2>1. made \in Seq(F) /\ fills \in Seq(F) /\ made' = made \o fills
    BY DEF PipeTypes
  <2>. HIDE DEF F
  <2>. QED
    BY <2>1
<1>2. \A f \in DOMAIN made : TakenFrom(o)'[f] = TakenFrom(o)[f]
  BY <1>1 DEF TakenFrom, Takes, Involves
<1>3. ASSUME NEW T \in SUBSET DOMAIN made
      PROVE  Sum(T, o)' = Sum(T, o)
  <2>. DEFINE f == TakenFrom(o)
              g == TakenFrom(o)'
  <2>1. IsFiniteSet(T) /\ \A x \in T : f[x] = g[x]
    BY <1>2, FillsAreFinite
  <2>. HIDE DEF f, g
  <2>2. SumFunctionOnSet(f, T) = SumFunctionOnSet(g, T)
    BY <2>1, SumIsOfTheSame
  <2>. QED
    BY <2>2 DEF Sum, f, g
<1>. QED
  BY <1>1, <1>3

LEMMA SumOfCall ==
  ASSUME PipeTypes, NEW call \in Fill, made' = made \o <<call>>, NEW o
  PROVE  Sum(DOMAIN made, o)' = Sum(DOMAIN made, o)
                                  + (IF call.bid = o \/ call.ask = o THEN call.quantity ELSE 0)
<1>. DEFINE D == DOMAIN made
            L == Len(made)
            f == TakenFrom(o)
            g == TakenFrom(o)'
            q == IF call.bid = o \/ call.ask = o THEN call.quantity ELSE 0
<1>1. /\ D = 1..L /\ L \in Nat /\ DOMAIN made' = 1..(L + 1)
      /\ made'[L + 1] = call /\ \A x \in D : made'[x] = made[x]
  <2>. DEFINE F == Fill
  <2>1. made \in Seq(F) /\ call \in F
    BY DEF PipeTypes
  <2>. HIDE DEF F
  <2>. QED
    BY <2>1
<1>2. q \in Nat
  BY OrdersAssumption DEF Fill
<1>3. /\ L + 1 \notin D /\ DOMAIN made' = D \cup {L + 1}
      /\ \A x \in D : g[x] = f[x]
      /\ g[L + 1] = q
  <2>1. L + 1 \notin D /\ DOMAIN made' = D \cup {L + 1}
    BY <1>1
  <2>2. \A x \in D : g[x] = f[x]
    BY <1>1, <2>1 DEF TakenFrom, Takes, Involves
  <2>3. g[L + 1] = q
    BY <1>1, <2>1 DEF TakenFrom, Takes, Involves
  <2>. QED
    BY <2>1, <2>2, <2>3
<1>4. IsFiniteSet(D) /\ \A x \in D : f[x] \in Int
  BY FillsAreFinite, TakenFromIsNat
<1>5. Sum(DOMAIN made, o) = SumFunctionOnSet(f, D) /\ Sum(DOMAIN made, o)' = SumFunctionOnSet(g, DOMAIN made')
  BY DEF Sum
<1>6. SumFunctionOnSet(f, D) \in Nat
  BY SumIsNat DEF Sum
<1>. HIDE DEF D, L, f, g, q
<1>7. SumFunctionOnSet(g, D \cup {L + 1}) = g[L + 1] + SumFunctionOnSet(g, D)
  <2>1. \A x \in D \cup {L + 1} : g[x] \in Int
    BY <1>2, <1>3, <1>4
  <2>. QED
    BY <1>3, <1>4, <2>1, SumInserted
<1>8. SumFunctionOnSet(g, D) = SumFunctionOnSet(f, D)
  BY <1>3, <1>4, SumIsOfTheSame
<1>9. Sum(DOMAIN made, o)' = Sum(DOMAIN made, o) + q
  <2>. DEFINE a == SumFunctionOnSet(f, D)
              b == SumFunctionOnSet(g, D \cup {L + 1})
  <2>1. a \in Nat /\ b = q + a
    BY <1>3, <1>6, <1>7, <1>8
  <2>2. Sum(DOMAIN made, o) = a /\ Sum(DOMAIN made, o)' = b
    <3>1. Sum(DOMAIN made, o)' = SumFunctionOnSet(g, D \cup {L + 1})
      BY <1>3, <1>5
    <3>. QED
      BY <1>5, <3>1
  <2>. HIDE DEF a, b
  <2>. QED
    BY <1>2, <2>1, <2>2
<1>. QED
  BY <1>9 DEF q

-----------------------------------------------------------------------------
(* What rows and live orders show                                          *)

(* The engine filled of an order what its fills say, and no more than      *)
(* there was of it.                                                        *)
BookInv ==
  \A o \in Orders :
    /\ filled[o] = Sum(DOMAIN made, o)
    /\ o \notin amended => filled[o] + left[o] <= Quantity

(* A row shows no more filled than the table of trades has, and it is      *)
(* Filled or Cancelled for good.                                           *)
RowInv ==
  \A o \in Orders : rows[o] # None =>
    /\ rows[o].status = "Filled" => rows[o].remaining <= 0
    /\ o \notin amended => Quantity - rows[o].remaining <= Sum(trades, o)
    /\ o \notin amended /\ rows[o].status = "Cancelled" => left[o] = 0 /\ filled[o] < Quantity

(* A live order shows no more than clients were told of.                   *)
LiveInv ==
  \A o \in Orders : registry[o] # None =>
    /\ registry[o].status \in OpenStatuses
    /\ o \notin amended => Quantity - registry[o].remaining <= Sum(Told, o)

(* A handler that submits an order is the only one that has it; one that   *)
(* cancels, or modifies, has had its answer from the engine.               *)
HandlerOK(h) ==
  /\ handler[h].pc \in {"submitting", "submitted"} =>
       /\ rows[handler[h].order] = None /\ registry[handler[h].order] = None
       /\ \A g \in Handlers \ {h} : handler[g].order # handler[h].order
  /\ handler[h].pc \in {"cancelled", "to delete"} /\ handler[h].order \notin amended => left[handler[h].order] = 0
  /\ handler[h].pc = "cancelled" /\ handler[h].order \notin amended => filled[handler[h].order] < Quantity
  /\ handler[h].pc \in {"modifying", "modified"} => handler[h].order \in amended

HandlerInv == \A h \in Handlers : HandlerOK(h)

Submits(o) == \E h \in Handlers : handler[h].order = o /\ handler[h].pc \in {"submitting", "submitted"}
Puts(o) == \E h \in Handlers : handler[h].order = o /\ handler[h].pc = "to put"

(* While nothing fails, an order in the book is on its way to its row and  *)
(* to the registry, or there.                                              *)
TrackInv ==
  faults = 0 =>
    /\ up
    /\ \A o \in Orders \ amended :
         left[o] > 0 => Submits(o) \/ (rows[o] # None /\ (registry[o] # None \/ Puts(o)))

(* The sums that occur in them.                                            *)
LEMMA SumsInUse ==
  ASSUME FlowInv, NEW o
  PROVE  /\ trades \subseteq Told /\ Told \subseteq DOMAIN made
         /\ Sum(trades, o) \in Nat /\ Sum(Told, o) \in Nat /\ Sum(DOMAIN made, o) \in Nat
         /\ Sum(trades, o) <= Sum(Told, o) /\ Sum(Told, o) <= Sum(DOMAIN made, o)
<1>1. PipeTypes /\ TableInv /\ AccountInv
  BY DEF FlowInv, PipeInv
<1>2. trades \subseteq DOMAIN made
  <2>1. DOMAIN made = 1..Len(made)
    BY <1>1 DEF PipeTypes
  <2>2. trades \subseteq 1..Len(made)
    BY <1>1, Zenon DEF AccountInv
  <2>. QED
    BY <2>1, <2>2
<1>3. trades \subseteq Told /\ Told \subseteq DOMAIN made
  BY <1>1, <1>2 DEF Told, TableInv
<1>4. /\ trades \in SUBSET DOMAIN made /\ Told \in SUBSET DOMAIN made /\ DOMAIN made \in SUBSET DOMAIN made
      /\ trades \in SUBSET Told
  BY <1>2, <1>3
<1>. QED
  BY <1>1, <1>3, <1>4, SumIsNat, SumOfFewer

(* As long as the engine makes no fills, sums are what they were.          *)
LEMMA MadeUnmoved ==
  ASSUME made' = made
  PROVE  \A o : /\ Sum(DOMAIN made, o)' = Sum(DOMAIN made, o)
                /\ Sum(trades, o)' = Sum(trades', o)
                /\ Sum(Told, o)' = Sum(Told', o)
<1>1. \A o : TakenFrom(o)' = TakenFrom(o)
  BY DEF TakenFrom, Takes, Involves
<1>. QED
  BY <1>1 DEF Sum

(* What all of the steps but the engine's calls, Tell and Persist leave.   *)
still == <<made, trades, last_told>>

LEMMA HandlersStill ==
  ASSUME NEW h \in Handlers,
         \/ \E o \in Orders : LoadOrder(h, o)
         \/ CreateOrder(h) \/ PutLive(h) \/ CancelInEngine(h) \/ StoreCancel(h) \/ DeleteLive(h) \/ StoreModify(h)
  PROVE  UNCHANGED still /\ UNCHANGED <<up, faults>>
BY DEF LoadOrder, CreateOrder, PutLive, CancelInEngine, StoreCancel, DeleteLive, StoreModify,
       pipeline, engineVars, tableVars, still

LEMMA FaultsStill ==
  ASSUME PipeTypes, (\E h \in Handlers : StoreFails(h)) \/ EngineRestarts \/ Stop
  PROVE  UNCHANGED still /\ faults' # 0
<1>1. faults \in Nat
  BY FillsAssumption DEF PipeTypes, PipelineTypeOK
<1>2. CASE \E h \in Handlers : StoreFails(h)
  BY <1>1, <1>2 DEF StoreFails, Faulty, engineVars, tableVars, still
<1>3. CASE EngineRestarts
  BY <1>1, <1>3 DEF EngineRestarts, EngineCrashes, Faulty, tableVars, still
<1>4. CASE Stop
  BY <1>1, <1>4 DEF Stop, GatewayStops, Faulty, engineVars, tableVars, still
<1>. QED
  BY <1>2, <1>3, <1>4

LEMMA FlowStill ==
  ASSUME PipeTypes, Flow
  PROVE  UNCHANGED still /\ up' = up /\ (faults' = 0 => faults = 0) /\ UNCHANGED orderVars
<1>1. faults \in Nat
  BY FillsAssumption DEF PipeTypes, PipelineTypeOK
<1>2. CASE TakeBatch \/ Send \/ EnsureGroup \/ ReadBatch
  BY <1>2 DEF Flow, TakeBatch, Send, EnsureGroup, ReadBatch, engineVars, tableVars, still
<1>3. CASE HandOff \/ TakeForPersist \/ Acknowledge
  BY <1>3 DEF Flow, HandOff, TakeForPersist, Acknowledge, engineVars, tableVars, still
<1>4. CASE SendFails \/ RedisRestarts \/ ReadFails
  BY <1>1, <1>4 DEF Flow, SendFails, RedisRestarts, ReadFails, Faulty, engineVars, tableVars, still
<1>5. CASE PersistFails \/ AcknowledgeFails
  BY <1>1, <1>5 DEF Flow, PersistFails, AcknowledgeFails, Faulty, engineVars, tableVars, still
<1>. QED
  BY <1>2, <1>3, <1>4, <1>5 DEF Flow

(* What is compared stays, or moves the right way.                         *)
LEMMA BookStill ==
  ASSUME BookInv, OrderTypes, OrderTypes', UNCHANGED <<made, filled, amended>>,
         \A o \in Orders : left'[o] <= left[o]
  PROVE  BookInv'
<1>. SUFFICES ASSUME NEW o \in Orders
              PROVE  /\ filled'[o] = Sum(DOMAIN made, o)'
                     /\ o \notin amended' => filled'[o] + left'[o] <= Quantity
  BY DEF BookInv
<1>1. filled'[o] = filled[o] /\ Sum(DOMAIN made, o)' = Sum(DOMAIN made, o)
  BY MadeUnmoved
<1>2. filled[o] = Sum(DOMAIN made, o) /\ (o \notin amended => filled[o] + left[o] <= Quantity)
  BY DEF BookInv
<1>3. filled[o] \in Nat /\ left[o] \in Int /\ left'[o] \in Int /\ Quantity \in Int /\ left'[o] <= left[o]
  BY OrdersAssumption DEF OrderTypes
<1>. DEFINE a == filled[o]
            b == left[o]
            c == left'[o]
<1>4. a + b <= Quantity => a + c <= Quantity
  <2>1. a \in Int /\ b \in Int /\ c \in Int /\ c <= b /\ Quantity \in Int
    BY <1>3
  <2>. HIDE DEF a, b, c
  <2>. QED
    BY <2>1
<1>. QED
  BY <1>1, <1>2, <1>4

LEMMA RowStill ==
  ASSUME RowInv, UNCHANGED <<made, trades, rows, filled, amended>>, \A o \in Orders : left[o] = 0 => left'[o] = 0
  PROVE  RowInv'
<1>. SUFFICES ASSUME NEW o \in Orders, rows'[o] # None
              PROVE  /\ rows'[o].status = "Filled" => rows'[o].remaining <= 0
                     /\ o \notin amended' => Quantity - rows'[o].remaining <= Sum(trades, o)'
                     /\ o \notin amended' /\ rows'[o].status = "Cancelled" => left'[o] = 0 /\ filled'[o] < Quantity
  BY DEF RowInv
<1>1. Sum(trades, o)' = Sum(trades, o)
  BY MadeUnmoved
<1>. QED
  BY <1>1 DEF RowInv

LEMMA LiveStill ==
  ASSUME LiveInv, UNCHANGED <<made, last_told, registry, amended>>
  PROVE  LiveInv'
<1>. SUFFICES ASSUME NEW o \in Orders, registry'[o] # None
              PROVE  /\ registry'[o].status \in OpenStatuses
                     /\ o \notin amended' => Quantity - registry'[o].remaining <= Sum(Told, o)'
  BY DEF LiveInv
<1>1. Sum(Told, o)' = Sum(Told, o)
  <2>1. Told' = Told
    BY DEF Told
  <2>. QED
    BY <2>1, MadeUnmoved
<1>. QED
  BY <1>1 DEF LiveInv

(* The engine's call, order by order.                                      *)
LEMMA CallFrame ==
  ASSUME FlowInv, NEW o \in Orders, Engine(o, Quantity)
  PROVE  /\ UNCHANGED <<trades, last_told, up, faults>>
         /\ \A p : Sum(trades, p)' = Sum(trades, p) /\ Sum(Told, p)' = Sum(Told, p)
         /\ \A p \in Orders : filled[p] = Sum(DOMAIN made, p) => filled'[p] = Sum(DOMAIN made, p)'
         /\ \A p \in Orders \ {o} : left'[p] + filled'[p] = left[p] + filled[p] /\ left'[p] <= left[p]
         /\ left'[o] + filled'[o] <= Quantity + filled[o]
<1>1. PipeTypes /\ EngineOrder /\ GatewayOrder /\ OrderTypes
  BY DEF FlowInv, PipeInv
<1>2. UNCHANGED <<trades, last_told, up, faults>>
  BY DEF Engine, Match, tableVars
<1>3. PICK fills \in Seq(Fill) : Match(fills)
  BY <1>1, EngineMatches
<1>4. made' = made \o fills
  BY <1>3 DEF Match
<1>5. DOMAIN made \subseteq DOMAIN made' /\ \A p : \A T \in SUBSET DOMAIN made : Sum(T, p)' = Sum(T, p)
  BY <1>1, <1>4, SumAfterCall
<1>6. Told' = Told
  <2>. DEFINE L == Len(made)
              F == Fill
  <2>1. made \in Seq(F) /\ fills \in Seq(F)
    BY <1>1 DEF PipeTypes
  <2>2. last_told \in Nat /\ last_told <= L
    <3>1. last_told <= cursor /\ cursor <= L /\ last_told \in Nat /\ cursor \in Nat
      BY <1>1, PipeSequences DEF EngineOrder, GatewayOrder
    <3>. HIDE DEF L
    <3>2. L \in Nat
      BY <2>1 DEF L
    <3>. QED
      BY <3>1, <3>2
  <2>. HIDE DEF F
  <2>3. L \in Nat /\ Len(fills) \in Nat /\ DOMAIN made = 1..L /\ DOMAIN made' = 1..(L + Len(fills))
    BY <1>4, <2>1
  <2>4. \A f \in DOMAIN made' : f <= last_told => f \in DOMAIN made
    BY <2>2, <2>3
  <2>. QED
    BY <1>2, <1>5, <2>4 DEF Told
<1>7. ASSUME NEW p
      PROVE  Sum(trades, p)' = Sum(trades, p) /\ Sum(Told, p)' = Sum(Told, p)
  <2>1. trades \in SUBSET DOMAIN made /\ Told \in SUBSET DOMAIN made
    BY SumsInUse
  <2>2. \A T \in SUBSET DOMAIN made : SumFunctionOnSet(TakenFrom(p)', T) = Sum(T, p)
    BY <1>5 DEF Sum
  <2>3. Sum(trades, p)' = SumFunctionOnSet(TakenFrom(p)', trades) /\ Sum(Told, p)' = SumFunctionOnSet(TakenFrom(p)', Told)
    BY <1>2, <1>6 DEF Sum
  <2>. QED
    BY <2>1, <2>2, <2>3
<1>8. CASE /\ Match(<<>>) /\ filled' = filled /\ left'[o] <= Quantity
           /\ \A p \in Orders \ {o} : left'[p] = left[p]
  <2>1. made' = made
    <3>. DEFINE F == Fill
    <3>1. made \in Seq(F) /\ made' = made \o << >>
      BY <1>1, <1>8 DEF Match, PipeTypes
    <3>. HIDE DEF F
    <3>. QED
      BY <3>1
  <2>2. \A p \in Orders : filled'[p] = filled[p] /\ Sum(DOMAIN made, p)' = Sum(DOMAIN made, p)
    BY <1>8, <2>1, MadeUnmoved
  <2>3. \A p \in Orders : left[p] \in Int /\ left'[p] \in Int /\ filled[p] \in Int
    BY <1>1, EngineEffect DEF OrderTypes
  <2>4. \A p \in Orders \ {o} : left'[p] + filled'[p] = left[p] + filled[p] /\ left'[p] <= left[p]
    BY <1>8, <2>2, <2>3
  <2>5. left'[o] + filled'[o] <= Quantity + filled[o]
    BY <1>8, <2>2, <2>3, OrdersAssumption
  <2>. QED
    BY <1>2, <1>7, <2>2, <2>4, <2>5
<1>9. CASE \E other \in Orders \ {o}, traded \in 1..Quantity :
             /\ traded <= left[other]
             /\ Match(<<[bid |-> o, ask |-> other, quantity |-> traded]>>)
             /\ left'[o] <= Quantity - traded /\ left'[other] = left[other] - traded
             /\ filled'[o] = filled[o] + traded /\ filled'[other] = filled[other] + traded
             /\ \A p \in Orders \ {o, other} : left'[p] = left[p] /\ filled'[p] = filled[p]
  <2>1. PICK other \in Orders \ {o}, traded \in 1..Quantity :
             /\ traded <= left[other]
             /\ Match(<<[bid |-> o, ask |-> other, quantity |-> traded]>>)
             /\ left'[o] <= Quantity - traded /\ left'[other] = left[other] - traded
             /\ filled'[o] = filled[o] + traded /\ filled'[other] = filled[other] + traded
             /\ \A p \in Orders \ {o, other} : left'[p] = left[p] /\ filled'[p] = filled[p]
    BY <1>9
  <2>. DEFINE call == [bid |-> o, ask |-> other, quantity |-> traded]
  <2>2. call \in Fill /\ made' = made \o <<call>>
    BY <2>1 DEF Fill, Match
  <2>3. call.bid = o /\ call.ask = other /\ call.quantity = traded /\ traded \in Nat
    BY OrdersAssumption
  <2>. HIDE DEF call
  <2>4. ASSUME NEW p \in Orders
        PROVE  Sum(DOMAIN made, p)' = Sum(DOMAIN made, p) + (IF o = p \/ other = p THEN traded ELSE 0)
    BY <1>1, <2>2, <2>3, SumOfCall
  <2>5. \A p \in Orders : left[p] \in Int /\ left'[p] \in Int /\ filled[p] \in Int /\ filled'[p] \in Int
    BY <1>1, EngineEffect DEF OrderTypes
  <2>6. ASSUME NEW p \in Orders, filled[p] = Sum(DOMAIN made, p)
        PROVE  filled'[p] = Sum(DOMAIN made, p)'
    <3>1. CASE p = o
      BY <2>1, <2>4, <2>6, <3>1
    <3>2. CASE p = other
      BY <2>1, <2>4, <2>6, <3>2
    <3>3. CASE p \notin {o, other}
      BY <2>1, <2>4, <2>5, <2>6, <3>3
    <3>. QED
      BY <3>1, <3>2, <3>3
  <2>7. ASSUME NEW p \in Orders \ {o}
        PROVE  left'[p] + filled'[p] = left[p] + filled[p] /\ left'[p] <= left[p]
    <3>1. CASE p = other
      BY <2>1, <2>3, <2>5, <3>1
    <3>2. CASE p # other
      BY <2>1, <2>5, <3>2
    <3>. QED
      BY <3>1, <3>2
  <2>8. left'[o] + filled'[o] <= Quantity + filled[o]
    BY <2>1, <2>3, <2>5, OrdersAssumption
  <2>. QED
    BY <1>2, <1>7, <2>6, <2>7, <2>8
<1>. QED
  BY <1>1, <1>8, <1>9, EngineEffect

(* A call, of an order that is new or counts as modified from now on.      *)
LEMMA CallShown ==
  ASSUME FlowInv, BookInv, RowInv, LiveInv, NEW o \in Orders, Engine(o, Quantity), UNCHANGED <<rows, registry>>,
         amended \subseteq amended', o \in amended' \/ o \notin sent
  PROVE  BookInv' /\ RowInv' /\ LiveInv'
<1>1. OrderTypes /\ Unsent
  BY DEF FlowInv
<1>2. \A p \in Orders : left[p] \in Int /\ left'[p] \in Int /\ filled[p] \in Int /\ filled'[p] \in Int
  BY <1>1, EngineEffect DEF OrderTypes
<1>3. BookInv'
  <2>. SUFFICES ASSUME NEW p \in Orders
                PROVE  /\ filled'[p] = Sum(DOMAIN made, p)'
                       /\ p \notin amended' => filled'[p] + left'[p] <= Quantity
    BY DEF BookInv
  <2>1. filled'[p] = Sum(DOMAIN made, p)'
    BY CallFrame DEF BookInv
  <2>2. CASE p = o
    <3>1. p \notin amended' => filled[p] = 0
      BY <1>1, <2>2 DEF Unsent
    <3>2. left'[p] + filled'[p] <= Quantity + filled[p]
      BY <2>2, CallFrame
    <3>3. p \notin amended' => filled'[p] + left'[p] <= Quantity
      BY <1>2, <3>1, <3>2, OrdersAssumption
    <3>. QED
      BY <2>1, <3>3
  <2>3. CASE p # o
    <3>1. left'[p] + filled'[p] = left[p] + filled[p]
      BY <2>3, CallFrame
    <3>2. p \notin amended' => filled[p] + left[p] <= Quantity
      BY DEF BookInv
    <3>3. p \notin amended' => filled'[p] + left'[p] <= Quantity
      BY <1>2, <3>1, <3>2, OrdersAssumption
    <3>. QED
      BY <2>1, <3>3
  <2>. QED
    BY <2>2, <2>3
<1>4. RowInv'
  <2>. SUFFICES ASSUME NEW p \in Orders, rows'[p] # None
                PROVE  /\ rows'[p].status = "Filled" => rows'[p].remaining <= 0
                       /\ p \notin amended' => Quantity - rows'[p].remaining <= Sum(trades, p)'
                       /\ p \notin amended' /\ rows'[p].status = "Cancelled" => left'[p] = 0 /\ filled'[p] < Quantity
    BY DEF RowInv
  <2>1. /\ rows[p].status = "Filled" => rows[p].remaining <= 0
        /\ p \notin amended' => Quantity - rows[p].remaining <= Sum(trades, p)
        /\ p \notin amended' /\ rows[p].status = "Cancelled" => left[p] = 0 /\ filled[p] < Quantity
    BY DEF RowInv
  <2>2. p \notin amended' => p # o
    BY <1>1 DEF Unsent
  <2>3. Sum(trades, p)' = Sum(trades, p)
    BY CallFrame
  <2>4. p \notin amended' /\ left[p] = 0 => left'[p] = 0 /\ filled'[p] = filled[p]
    BY <1>1, <2>2, EngineLeavesClosed
  <2>. QED
    BY <2>1, <2>3, <2>4
<1>5. LiveInv'
  <2>. SUFFICES ASSUME NEW p \in Orders, registry'[p] # None
                PROVE  /\ registry'[p].status \in OpenStatuses
                       /\ p \notin amended' => Quantity - registry'[p].remaining <= Sum(Told, p)'
    BY DEF LiveInv
  <2>1. Sum(Told, p)' = Sum(Told, p)
    BY CallFrame
  <2>. QED
    BY <2>1 DEF LiveInv
<1>. QED
  BY <1>3, <1>4, <1>5

(* The witnesses of Submits and Puts are where they were.                  *)
LEMMA WitnessesStay ==
  ASSUME NEW h \in Handlers, \A g \in Handlers \ {h} : handler'[g] = handler[g], NEW o,
         handler[h].order = o => handler[h].pc \notin {"submitting", "submitted", "to put"}
  PROVE  (Submits(o) => Submits(o)') /\ (Puts(o) => Puts(o)')
BY DEF Submits, Puts

LEMMA SubmitShown ==
  ASSUME FlowInv, BookInv, RowInv, LiveInv, HandlerInv, TrackInv, NEW h \in Handlers, NEW o \in Orders, Submit(h, o)
  PROVE  BookInv' /\ RowInv' /\ LiveInv' /\ HandlerInv' /\ TrackInv'
<1>1. /\ o \notin sent /\ Engine(o, Quantity) /\ handler[h] = Idle
      /\ amended' = amended /\ rows' = rows /\ registry' = registry
  BY DEF Submit
<1>2. OrderTypes /\ CallTypes /\ Unsent
  BY DEF FlowInv
<1>3. BookInv' /\ RowInv' /\ LiveInv'
  BY <1>1, CallShown
<1>4. /\ handler'[h].order = o /\ handler'[h].pc \in {"submitted", "submitting"}
      /\ \A g \in Handlers \ {h} : handler'[g] = handler[g]
  BY <1>2, SubmitTypes
<1>5. \A g \in Handlers : handler[g].order # o
  BY <1>1, <1>2, OrdersAssumption DEF CallTypes
<1>6. ASSUME NEW g \in Handlers
      PROVE  HandlerOK(g)'
  <2>1. CASE g = h
    BY <1>1, <1>2, <1>4, <1>5, <2>1 DEF Unsent, HandlerOK
  <2>2. CASE g # h
    <3>1. handler'[g] = handler[g] /\ handler[g].order # o
      BY <1>4, <1>5, <2>2
    <3>2. handler[g].pc \in {"submitting", "submitted"} =>
                  /\ rows[handler[g].order] = None /\ registry[handler[g].order] = None
                  /\ \A k \in Handlers \ {g} : handler'[k].order # handler[g].order
      BY <1>4, <3>1 DEF HandlerInv, HandlerOK
    <3>3. handler[g].pc \in {"cancelled", "to delete"} => handler[g].order \in Orders \ {o}
      BY <1>2, <3>1 DEF CallTypes, OrderTypes
    <3>4. handler[g].pc \in {"cancelled", "to delete"} /\ handler[g].order \notin amended =>
            left[handler[g].order] = 0
      BY DEF HandlerInv, HandlerOK
    <3>5. handler[g].pc \in {"cancelled", "to delete"} /\ handler[g].order \notin amended =>
            left'[handler[g].order] = 0 /\ filled'[handler[g].order] = filled[handler[g].order]
      BY <1>1, <1>2, <3>3, <3>4, EngineLeavesClosed
    <3>. QED
      BY <1>1, <3>1, <3>2, <3>5 DEF HandlerInv, HandlerOK
  <2>. QED
    BY <2>1, <2>2
<1>7. HandlerInv'
  BY <1>6 DEF HandlerInv
<1>8. TrackInv'
  <2>1. up' = up /\ faults' = faults
    BY <1>1, CallFrame
  <2>2. ASSUME NEW p \in Orders \ amended, left'[p] > 0, faults = 0
        PROVE  Submits(p)' \/ (rows[p] # None /\ (registry[p] # None \/ Puts(p)'))
    <3>1. CASE p = o
      BY <1>4, <3>1 DEF Submits
    <3>2. CASE p # o
      <4>1. left[p] > 0
        <5>1. left'[p] <= left[p]
          BY <1>1, <3>2, CallFrame
        <5>2. left'[p] \in Int /\ left[p] \in Int
          BY <1>1, <1>2, EngineEffect DEF OrderTypes
        <5>. QED
          BY <2>2, <5>1, <5>2
      <4>2. handler[h].pc = "idle"
        BY <1>1 DEF Idle
      <4>3. (Submits(p) => Submits(p)') /\ (Puts(p) => Puts(p)')
        BY <1>4, <4>2, WitnessesStay
      <4>. QED
        BY <2>2, <4>1, <4>3 DEF TrackInv
    <3>. QED
      BY <3>1, <3>2
  <2>. QED
    BY <1>1, <2>1, <2>2 DEF TrackInv
<1>. QED
  BY <1>3, <1>7, <1>8

LEMMA ModifyShown ==
  ASSUME FlowInv, BookInv, RowInv, LiveInv, HandlerInv, TrackInv, NEW h \in Handlers, ModifyInEngine(h)
  PROVE  BookInv' /\ RowInv' /\ LiveInv' /\ HandlerInv' /\ TrackInv'
<1>. DEFINE o == handler[h].order
<1>1. handler[h].pc = "to modify" /\ rows' = rows /\ registry' = registry
  BY DEF ModifyInEngine
<1>2. OrderTypes /\ CallTypes /\ Unsent /\ OrderTypes'
  BY ModifyTypes DEF FlowInv
<1>3. /\ o \in Orders
      /\ \A g \in Handlers \ {h} : handler'[g] = handler[g]
      /\ \/ handler'[h].pc = "idle" /\ handler'[h].order = None
         \/ handler'[h].pc \in {"modified", "modifying"} /\ handler'[h].order = handler[h].order
  BY <1>2, ModifyTypes DEF OrderTypes
<1>4. \/ Returns(h) /\ UNCHANGED <<pipeline, left, filled, amended>>
      \/ left[o] > 0 /\ amended = {} /\ Engine(o, Quantity) /\ amended' = {o} /\ handler'[h].pc \in {"modified", "modifying"}
  <2>1. CASE Returns(h) /\ UNCHANGED <<pipeline, left, filled, amended>>
    BY <2>1
  <2>2. CASE left[o] > 0 /\ amended = {} /\ Engine(o, Quantity) /\ Calls(h, o, "modified", "modifying") /\ amended' = {o}
    <3>. DEFINE pc == IF unsent' = <<>> THEN "modified" ELSE "modifying"
    <3>1. handler' = [handler EXCEPT ![h] = At(pc, o)] /\ pc \in {"modified", "modifying"}
      BY <2>2 DEF Calls
    <3>. HIDE DEF pc
    <3>2. handler'[h] = At(pc, o)
      BY <1>2, <3>1 DEF CallTypes
    <3>. QED
      BY <2>2, <3>1, <3>2 DEF At
  <2>. QED
    BY <2>1, <2>2 DEF ModifyInEngine
<1>5. BookInv' /\ RowInv' /\ LiveInv'
  <2>1. CASE UNCHANGED <<pipeline, left, filled, amended>>
    <3>1. UNCHANGED <<made, trades, last_told>>
      BY <2>1 DEF pipeline, engineVars, tableVars
    <3>2. \A p \in Orders : left'[p] <= left[p]
      BY <1>2, <2>1 DEF OrderTypes
    <3>. QED
      BY <1>1, <1>2, <2>1, <3>1, <3>2, BookStill, RowStill, LiveStill
  <2>2. CASE amended = {} /\ Engine(o, Quantity) /\ amended' = {o}
    BY <1>1, <1>3, <2>2, CallShown
  <2>. QED
    BY <1>4, <2>1, <2>2
<1>6. /\ amended \subseteq amended'
      /\ \A p \in Orders \ amended' : left[p] = 0 => left'[p] = 0 /\ filled'[p] = filled[p]
      /\ \A p \in Orders \ amended' : left'[p] > 0 => left[p] > 0
      /\ up' = up /\ faults' = faults
  <2>1. CASE UNCHANGED <<pipeline, left, filled, amended>>
    BY <2>1 DEF pipeline
  <2>2. CASE amended = {} /\ Engine(o, Quantity) /\ amended' = {o}
    <3>1. \A p \in Orders \ amended' : left[p] = 0 => left'[p] = 0 /\ filled'[p] = filled[p]
      BY <1>2, <1>3, <2>2, EngineLeavesClosed
    <3>2. \A p \in Orders \ amended' : left'[p] <= left[p] /\ left[p] \in Int /\ left'[p] \in Int
      BY <1>2, <1>3, <2>2, CallFrame DEF OrderTypes
    <3>3. up' = up /\ faults' = faults
      BY <1>3, <2>2, CallFrame
    <3>. QED
      BY <2>2, <3>1, <3>2, <3>3
  <2>. QED
    BY <1>4, <2>1, <2>2
<1>7. ASSUME NEW g \in Handlers
      PROVE  HandlerOK(g)'
  <2>1. CASE g = h
    BY <1>3, <1>4, <2>1, CallReturns, <1>2 DEF Returns, Idle, ModifyInEngine, HandlerOK
  <2>2. CASE g # h
    <3>1. handler'[g] = handler[g]
      BY <1>3, <2>2
    <3>2. handler[g].pc \in {"submitting", "submitted"} =>
                  /\ rows[handler[g].order] = None /\ registry[handler[g].order] = None
                  /\ \A k \in Handlers \ {g} : handler'[k].order # handler[g].order
      <4>. SUFFICES ASSUME handler[g].pc \in {"submitting", "submitted"}
                    PROVE  /\ rows[handler[g].order] = None /\ registry[handler[g].order] = None
                           /\ \A k \in Handlers \ {g} : handler'[k].order # handler[g].order
        OBVIOUS
      <4>1. handler[g].order # None
        BY <1>2 DEF CallTypes
      <4>. QED
        BY <1>3, <4>1 DEF HandlerInv, HandlerOK
    <3>3. handler[g].pc \in {"cancelled", "to delete"} => handler[g].order \in Orders
      BY <1>2 DEF CallTypes, OrderTypes
    <3>4. handler[g].pc \in {"cancelled", "to delete"} /\ handler[g].order \notin amended' =>
            left'[handler[g].order] = 0 /\ filled'[handler[g].order] = filled[handler[g].order]
      BY <1>6, <3>3 DEF HandlerInv, HandlerOK
    <3>. QED
      BY <1>1, <1>6, <3>1, <3>2, <3>4 DEF HandlerInv, HandlerOK
  <2>. QED
    BY <2>1, <2>2
<1>8. HandlerInv'
  BY <1>7 DEF HandlerInv
<1>9. TrackInv'
  <2>1. \A p : (Submits(p) => Submits(p)') /\ (Puts(p) => Puts(p)')
    BY <1>1, <1>3, WitnessesStay
  <2>2. ASSUME NEW p \in Orders \ amended', left'[p] > 0, faults = 0
        PROVE  Submits(p)' \/ (rows[p] # None /\ (registry[p] # None \/ Puts(p)'))
    BY <1>6, <2>1, <2>2 DEF TrackInv
  <2>. QED
    BY <1>1, <1>6, <2>2 DEF TrackInv
<1>. QED
  BY <1>5, <1>8, <1>9

(* What a handler relies on holds as long as it stands where it is: only   *)
(* the order a of another one is touched, by that one.                     *)
LEMMA HandlerKept ==
  ASSUME HandlerInv, OrderTypes, CallTypes, NEW g \in Handlers, handler'[g] = handler[g], NEW a,
         handler[g].pc \in {"submitting", "submitted"} => handler[g].order # a,
         \A k \in Handlers \ {g} :
           \/ handler'[k].order \in {handler[k].order, None}
           \/ handler'[k].order \in Orders /\ rows[handler'[k].order] # None,
         \A p \in Orders \ {a} : (rows[p] = None => rows'[p] = None) /\ (registry[p] = None => registry'[p] = None),
         \A p \in Orders \ amended' : left[p] = 0 => left'[p] = 0 /\ filled'[p] = filled[p],
         amended \subseteq amended'
  PROVE  HandlerOK(g)'
<1>. DEFINE o == handler[g].order
            pc == handler[g].pc
<1>1. HandlerOK(g) /\ (pc # "idle" => o \in Orders /\ o # None)
  BY OrdersAssumption DEF HandlerInv, CallTypes, OrderTypes
<1>2. pc \in {"submitting", "submitted"} =>
        /\ rows'[o] = None /\ registry'[o] = None
        /\ \A k \in Handlers \ {g} : handler'[k].order # o
  <2>. SUFFICES ASSUME pc \in {"submitting", "submitted"}
                PROVE  /\ rows'[o] = None /\ registry'[o] = None
                       /\ \A k \in Handlers \ {g} : handler'[k].order # o
    OBVIOUS
  <2>1. o \in Orders \ {a} /\ o # None
    BY <1>1
  <2>2. /\ rows[o] = None /\ registry[o] = None
        /\ \A k \in Handlers \ {g} : handler[k].order # o
    BY <1>1 DEF HandlerOK
  <2>3. ASSUME NEW k \in Handlers \ {g}
        PROVE  handler'[k].order # o
    BY <2>1, <2>2
  <2>. QED
    BY <2>1, <2>2, <2>3
<1>3. pc \in {"cancelled", "to delete"} /\ o \notin amended' => left'[o] = 0 /\ filled'[o] = filled[o]
  BY <1>1 DEF HandlerOK
<1>4. pc = "cancelled" /\ o \notin amended' => filled'[o] < Quantity
  BY <1>1, <1>3 DEF HandlerOK
<1>5. pc \in {"modifying", "modified"} => o \in amended'
  BY <1>1 DEF HandlerOK
<1>. QED
  BY <1>2, <1>3, <1>4, <1>5 DEF HandlerOK

LEMMA LoadShown ==
  ASSUME FlowInv, BookInv, RowInv, LiveInv, HandlerInv, TrackInv, NEW h \in Handlers, NEW o \in Orders, LoadOrder(h, o)
  PROVE  BookInv' /\ RowInv' /\ LiveInv' /\ HandlerInv' /\ TrackInv'
<1>1. OrderTypes /\ CallTypes /\ Unsent /\ OrderTypes'
  BY LoadTypes DEF FlowInv
<1>2. /\ handler[h] = Idle /\ rows[o] # None
      /\ UNCHANGED <<left, filled, sent, amended, rows, registry>>
      /\ UNCHANGED <<made, trades, last_told>> /\ UNCHANGED <<up, faults>>
  BY HandlersStill DEF LoadOrder, IsOpen, still
<1>3. /\ handler'[h].order = o /\ handler'[h].pc \in {"to cancel", "to modify"}
      /\ \A g \in Handlers \ {h} : handler'[g] = handler[g]
  BY <1>1, LoadTypes
<1>4. \A p \in Orders : left'[p] <= left[p]
  BY <1>1, <1>2 DEF OrderTypes
<1>5. BookInv' /\ RowInv' /\ LiveInv'
  BY <1>1, <1>2, <1>4, BookStill, RowStill, LiveStill
<1>6. ASSUME NEW g \in Handlers
      PROVE  HandlerOK(g)'
  <2>1. CASE g = h
    BY <1>3, <2>1 DEF HandlerOK
  <2>2. CASE g # h
    <3>1. \A k \in Handlers \ {g} :
           \/ handler'[k].order \in {handler[k].order, None}
           \/ handler'[k].order \in Orders /\ rows[handler'[k].order] # None
      BY <1>2, <1>3
    <3>2. handler'[g] = handler[g] /\ (handler[g].pc \in {"submitting", "submitted"} => handler[g].order # None)
      BY <1>1, <1>3, <2>2 DEF CallTypes
    <3>. QED
      BY <1>1, <1>2, <3>1, <3>2, HandlerKept
  <2>. QED
    BY <2>1, <2>2
<1>7. HandlerInv'
  BY <1>6 DEF HandlerInv
<1>8. TrackInv'
  <2>1. handler[h].pc = "idle"
    BY <1>2 DEF Idle
  <2>2. \A p : (Submits(p) => Submits(p)') /\ (Puts(p) => Puts(p)')
    BY <1>3, <2>1, WitnessesStay
  <2>. QED
    BY <1>2, <2>2 DEF TrackInv
<1>. QED
  BY <1>5, <1>7, <1>8

LEMMA StoreShown ==
  ASSUME FlowInv, BookInv, RowInv, LiveInv, HandlerInv, TrackInv, NEW h \in Handlers, CreateOrder(h) \/ StoreModify(h)
  PROVE  BookInv' /\ RowInv' /\ LiveInv' /\ HandlerInv' /\ TrackInv'
<1>. DEFINE o == handler[h].order
<1>1. OrderTypes /\ CallTypes /\ Unsent /\ OrderTypes'
  BY StoreTypes DEF FlowInv
<1>2. /\ UNCHANGED <<left, filled, sent, amended, registry>>
      /\ UNCHANGED <<made, trades, last_told>> /\ UNCHANGED <<up, faults>>
      /\ handler[h].pc \in {"submitted", "modified"}
  BY HandlersStill DEF CreateOrder, StoreModify, still
<1>3. /\ handler'[h].order = o /\ handler'[h].pc = "to put"
      /\ \A g \in Handlers \ {h} : handler'[g] = handler[g]
      /\ rows'[o] = Fresh /\ o \in Orders
      /\ \A p \in Orders \ {o} : rows'[p] = rows[p]
  BY <1>1, StoreTypes DEF OrderTypes
<1>4. Fresh \in State /\ Fresh # None /\ Fresh.remaining = Quantity /\ Fresh.status = "Empty"
  BY FreshIsState
<1>5. BookInv' /\ LiveInv'
  <2>1. \A p \in Orders : left'[p] <= left[p]
    BY <1>1, <1>2 DEF OrderTypes
  <2>. QED
    BY <1>1, <1>2, <2>1, BookStill, LiveStill
<1>6. RowInv'
  <2>. SUFFICES ASSUME NEW p \in Orders, rows'[p] # None
                PROVE  /\ rows'[p].status = "Filled" => rows'[p].remaining <= 0
                       /\ p \notin amended' => Quantity - rows'[p].remaining <= Sum(trades, p)'
                       /\ p \notin amended' /\ rows'[p].status = "Cancelled" => left'[p] = 0 /\ filled'[p] < Quantity
    BY DEF RowInv
  <2>1. Sum(trades, p)' = Sum(trades, p) /\ Sum(trades, p) \in Nat
    BY <1>2, MadeUnmoved, SumsInUse
  <2>2. CASE p = o
    <3>1. Quantity - Quantity <= Sum(trades, p)
      BY <2>1, OrdersAssumption
    <3>. QED
      BY <1>3, <1>4, <2>1, <2>2, <3>1
  <2>3. CASE p # o
    BY <1>2, <1>3, <2>1, <2>3 DEF RowInv
  <2>. QED
    BY <2>2, <2>3
<1>7. ASSUME NEW g \in Handlers
      PROVE  HandlerOK(g)'
  <2>1. CASE g = h
    BY <1>3, <2>1 DEF HandlerOK
  <2>2. CASE g # h
    <3>1. handler'[g] = handler[g] /\ (handler[g].pc \in {"submitting", "submitted"} => handler[g].order # o)
      BY <1>3, <2>2 DEF HandlerInv, HandlerOK
    <3>2. \A k \in Handlers \ {g} : handler'[k].order \in {handler[k].order, None}
      BY <1>3
    <3>. HIDE DEF o
    <3>. QED
      BY <1>1, <1>2, <1>3, <3>1, <3>2, HandlerKept
  <2>. QED
    BY <2>1, <2>2
<1>8. HandlerInv'
  BY <1>7 DEF HandlerInv
<1>9. TrackInv'
  <2>. SUFFICES ASSUME faults' = 0, NEW p \in Orders \ amended', left'[p] > 0
                PROVE  Submits(p)' \/ (rows'[p] # None /\ (registry'[p] # None \/ Puts(p)'))
    BY <1>2 DEF TrackInv
  <2>1. CASE p = o
    BY <1>3, <1>4, <2>1 DEF Puts
  <2>2. CASE p # o
    <3>1. (Submits(p) => Submits(p)') /\ (Puts(p) => Puts(p)')
      BY <1>3, <2>2, WitnessesStay
    <3>. QED
      BY <1>2, <1>3, <2>2, <3>1 DEF TrackInv
  <2>. QED
    BY <2>1, <2>2
<1>. QED
  BY <1>5, <1>6, <1>8, <1>9

LEMMA LiveShown ==
  ASSUME FlowInv, BookInv, RowInv, LiveInv, HandlerInv, TrackInv, NEW h \in Handlers, PutLive(h) \/ DeleteLive(h)
  PROVE  BookInv' /\ RowInv' /\ LiveInv' /\ HandlerInv' /\ TrackInv'
<1>. DEFINE o == handler[h].order
<1>1. OrderTypes /\ CallTypes /\ Unsent /\ OrderTypes'
  BY LiveTypes DEF FlowInv
<1>2. /\ UNCHANGED <<left, filled, sent, amended, rows>>
      /\ UNCHANGED <<made, trades, last_told>> /\ UNCHANGED <<up, faults>>
  BY HandlersStill DEF PutLive, DeleteLive, still
<1>3. /\ handler'[h].order = None /\ handler'[h].pc = "idle" /\ o \in Orders
      /\ \A g \in Handlers \ {h} : handler'[g] = handler[g]
      /\ \/ handler[h].pc = "to put" /\ registry'[o] = Fresh
         \/ handler[h].pc = "to delete" /\ registry'[o] = None
      /\ \A p \in Orders \ {o} : registry'[p] = registry[p]
  BY <1>1, LiveTypes DEF OrderTypes
<1>4. Fresh \in State /\ Fresh # None /\ Fresh.remaining = Quantity /\ Fresh.status = "Empty"
  BY FreshIsState
<1>5. BookInv' /\ RowInv'
  <2>1. \A p \in Orders : left'[p] <= left[p]
    BY <1>1, <1>2 DEF OrderTypes
  <2>. QED
    BY <1>1, <1>2, <2>1, BookStill, RowStill
<1>6. LiveInv'
  <2>. SUFFICES ASSUME NEW p \in Orders, registry'[p] # None
                PROVE  /\ registry'[p].status \in OpenStatuses
                       /\ p \notin amended' => Quantity - registry'[p].remaining <= Sum(Told, p)'
    BY DEF LiveInv
  <2>1. Sum(Told, p)' = Sum(Told, p) /\ Sum(Told, p) \in Nat
    <3>1. Told' = Told
      BY <1>2 DEF Told
    <3>. QED
      BY <1>2, <3>1, MadeUnmoved, SumsInUse
  <2>2. CASE p = o
    <3>1. Quantity - Quantity <= Sum(Told, p)
      BY <2>1, OrdersAssumption
    <3>. QED
      BY <1>3, <1>4, <2>1, <2>2, <3>1 DEF OpenStatuses
  <2>3. CASE p # o
    BY <1>2, <1>3, <2>1, <2>3 DEF LiveInv
  <2>. QED
    BY <2>2, <2>3
<1>7. ASSUME NEW g \in Handlers
      PROVE  HandlerOK(g)'
  <2>1. CASE g = h
    BY <1>3, <2>1 DEF HandlerOK
  <2>2. CASE g # h
    <3>1. handler'[g] = handler[g] /\ (handler[g].pc \in {"submitting", "submitted"} => handler[g].order # o)
      BY <1>3, <2>2 DEF HandlerInv, HandlerOK
    <3>2. \A k \in Handlers \ {g} : handler'[k].order \in {handler[k].order, None}
      BY <1>3
    <3>. HIDE DEF o
    <3>. QED
      BY <1>1, <1>2, <1>3, <3>1, <3>2, HandlerKept
  <2>. QED
    BY <2>1, <2>2
<1>8. HandlerInv'
  BY <1>7 DEF HandlerInv
<1>9. TrackInv'
  <2>. SUFFICES ASSUME faults' = 0, NEW p \in Orders \ amended', left'[p] > 0
                PROVE  Submits(p)' \/ (rows'[p] # None /\ (registry'[p] # None \/ Puts(p)'))
    BY <1>2 DEF TrackInv
  <2>1. Submits(p) \/ (rows[p] # None /\ (registry[p] # None \/ Puts(p)))
    BY <1>2 DEF TrackInv
  <2>2. CASE p = o
    <3>1. handler[h].pc = "to put"
      <4>1. left[o] # 0 /\ o \notin amended
        BY <1>2, <2>2
      <4>2. HandlerOK(h)
        BY DEF HandlerInv
      <4>3. handler[h].pc # "to delete"
        BY <4>1, <4>2 DEF HandlerOK
      <4>. QED
        BY <1>3, <4>3
    <3>2. ~Submits(p)
      BY <2>2, <3>1 DEF HandlerInv, HandlerOK, Submits
    <3>. QED
      BY <1>2, <1>3, <1>4, <2>1, <2>2, <3>1, <3>2
  <2>3. CASE p # o
    <3>1. (Submits(p) => Submits(p)') /\ (Puts(p) => Puts(p)')
      BY <1>3, <2>3, WitnessesStay
    <3>. QED
      BY <1>2, <1>3, <2>1, <2>3, <3>1
  <2>. QED
    BY <2>2, <2>3
<1>. QED
  BY <1>5, <1>6, <1>8, <1>9

LEMMA CancelShown ==
  ASSUME FlowInv, BookInv, RowInv, LiveInv, HandlerInv, TrackInv, NEW h \in Handlers, CancelInEngine(h)
  PROVE  BookInv' /\ RowInv' /\ LiveInv' /\ HandlerInv' /\ TrackInv'
<1>. DEFINE o == handler[h].order
<1>1. OrderTypes /\ CallTypes /\ Unsent /\ OrderTypes'
  BY CancelTypes DEF FlowInv
<1>2. /\ UNCHANGED <<filled, sent, amended, rows, registry>>
      /\ UNCHANGED <<made, trades, last_told>> /\ UNCHANGED <<up, faults>>
      /\ handler[h].pc = "to cancel"
  BY HandlersStill DEF CancelInEngine, still
<1>3. /\ o \in Orders
      /\ \A g \in Handlers \ {h} : handler'[g] = handler[g]
      /\ \/ left[o] > 0 /\ handler'[h].order = o /\ handler'[h].pc = "cancelled"
         \/ handler'[h].order = None /\ handler'[h].pc = "idle"
      /\ left'[o] = 0
      /\ \A p \in Orders \ {o} : left'[p] = left[p]
  BY <1>1, CancelTypes DEF OrderTypes
<1>4. \A p \in Orders : left'[p] <= left[p] /\ (left[p] = 0 => left'[p] = 0) /\ (left'[p] > 0 => left[p] > 0 /\ p # o)
  <2>. SUFFICES ASSUME NEW p \in Orders
                PROVE  left'[p] <= left[p] /\ (left[p] = 0 => left'[p] = 0) /\ (left'[p] > 0 => left[p] > 0 /\ p # o)
    OBVIOUS
  <2>1. left[p] \in Nat
    BY <1>1, OrdersAssumption DEF OrderTypes
  <2>2. CASE p = o
    BY <1>3, <2>1, <2>2
  <2>3. CASE p # o
    BY <1>3, <2>1, <2>3
  <2>. QED
    BY <2>2, <2>3
<1>5. BookInv' /\ RowInv' /\ LiveInv'
  BY <1>1, <1>2, <1>4, BookStill, RowStill, LiveStill
<1>6. ASSUME NEW g \in Handlers
      PROVE  HandlerOK(g)'
  <2>1. CASE g = h
    <3>1. CASE handler'[h].pc = "idle"
      BY <2>1, <3>1 DEF HandlerOK
    <3>2. CASE left[o] > 0 /\ handler'[h].order = o /\ handler'[h].pc = "cancelled"
      <4>1. o \notin amended => filled[o] < Quantity
        <5>1. o \notin amended => filled[o] + left[o] <= Quantity
          BY <1>3 DEF BookInv
        <5>2. filled[o] \in Int /\ left[o] \in Int /\ Quantity \in Int
          BY <1>1, <1>3, OrdersAssumption DEF OrderTypes
        <5>. QED
          BY <3>2, <5>1, <5>2
      <4>. QED
        BY <1>2, <1>3, <2>1, <3>2, <4>1 DEF HandlerOK
    <3>. QED
      BY <1>3, <3>1, <3>2
  <2>2. CASE g # h
    <3>1. handler'[g] = handler[g] /\ (handler[g].pc \in {"submitting", "submitted"} => handler[g].order # o)
      BY <1>3, <2>2 DEF HandlerInv, HandlerOK
    <3>2. \A k \in Handlers \ {g} : handler'[k].order \in {handler[k].order, None}
      BY <1>3
    <3>. HIDE DEF o
    <3>. QED
      BY <1>1, <1>2, <1>4, <3>1, <3>2, HandlerKept
  <2>. QED
    BY <2>1, <2>2
<1>7. HandlerInv'
  BY <1>6 DEF HandlerInv
<1>8. TrackInv'
  <2>1. \A p : (Submits(p) => Submits(p)') /\ (Puts(p) => Puts(p)')
    BY <1>2, <1>3, WitnessesStay
  <2>. QED
    BY <1>2, <1>4, <2>1 DEF TrackInv
<1>. QED
  BY <1>5, <1>7, <1>8

LEMMA StoreCancelShown ==
  ASSUME FlowInv, BookInv, RowInv, LiveInv, HandlerInv, TrackInv, NEW h \in Handlers, StoreCancel(h)
  PROVE  BookInv' /\ RowInv' /\ LiveInv' /\ HandlerInv' /\ TrackInv'
<1>. DEFINE o == handler[h].order
<1>1. OrderTypes /\ CallTypes /\ Unsent /\ OrderTypes'
  BY StoreCancelTypes DEF FlowInv
<1>2. /\ UNCHANGED <<left, filled, sent, amended, registry>>
      /\ UNCHANGED <<made, trades, last_told>> /\ UNCHANGED <<up, faults>>
      /\ handler[h].pc = "cancelled"
  BY HandlersStill DEF StoreCancel, still
<1>3. /\ handler'[h].order = o /\ handler'[h].pc = "to delete" /\ o \in Orders
      /\ \A g \in Handlers \ {h} : handler'[g] = handler[g]
      /\ \/ rows'[o] = rows[o]
         \/ /\ rows[o] # None /\ rows'[o] # None
            /\ rows'[o].status = "Cancelled" /\ rows'[o].remaining = rows[o].remaining
      /\ \A p \in Orders \ {o} : rows'[p] = rows[p]
  BY <1>1, StoreCancelTypes DEF OrderTypes
<1>4. o \notin amended => left[o] = 0 /\ filled[o] < Quantity
  BY <1>2 DEF HandlerInv, HandlerOK
<1>5. BookInv' /\ LiveInv'
  <2>1. \A p \in Orders : left'[p] <= left[p]
    BY <1>1, <1>2 DEF OrderTypes
  <2>. QED
    BY <1>1, <1>2, <2>1, BookStill, LiveStill
<1>6. RowInv'
  <2>. SUFFICES ASSUME NEW p \in Orders, rows'[p] # None
                PROVE  /\ rows'[p].status = "Filled" => rows'[p].remaining <= 0
                       /\ p \notin amended' => Quantity - rows'[p].remaining <= Sum(trades, p)'
                       /\ p \notin amended' /\ rows'[p].status = "Cancelled" => left'[p] = 0 /\ filled'[p] < Quantity
    BY DEF RowInv
  <2>1. Sum(trades, p)' = Sum(trades, p)
    BY <1>2, MadeUnmoved
  <2>2. CASE rows'[p] = rows[p]
    BY <1>2, <2>1, <2>2 DEF RowInv
  <2>3. CASE rows'[p] # rows[p]
    <3>1. p = o
      BY <1>3, <2>3
    <3>. QED
      BY <1>2, <1>3, <1>4, <2>1, <2>3, <3>1 DEF RowInv
  <2>. QED
    BY <2>2, <2>3
<1>7. ASSUME NEW g \in Handlers
      PROVE  HandlerOK(g)'
  <2>1. CASE g = h
    BY <1>2, <1>3, <1>4, <2>1 DEF HandlerOK
  <2>2. CASE g # h
    <3>1. handler'[g] = handler[g] /\ (handler[g].pc \in {"submitting", "submitted"} => handler[g].order # o)
      BY <1>3, <2>2 DEF HandlerInv, HandlerOK
    <3>2. \A k \in Handlers \ {g} : handler'[k].order \in {handler[k].order, None}
      BY <1>3
    <3>3. \A p \in Orders \ {o} : (rows[p] = None => rows'[p] = None) /\ (registry[p] = None => registry'[p] = None)
      BY <1>2, <1>3
    <3>4. \A p \in Orders \ amended' : left[p] = 0 => left'[p] = 0 /\ filled'[p] = filled[p]
      BY <1>2
    <3>. HIDE DEF o
    <3>. QED
      BY <1>1, <1>2, <3>1, <3>2, <3>3, <3>4, HandlerKept
  <2>. QED
    BY <2>1, <2>2
<1>8. HandlerInv'
  BY <1>7 DEF HandlerInv
<1>9. TrackInv'
  <2>1. \A p : (Submits(p) => Submits(p)') /\ (Puts(p) => Puts(p)')
    BY <1>2, <1>3, WitnessesStay
  <2>2. \A p \in Orders : rows[p] # None => rows'[p] # None
    BY <1>3
  <2>. QED
    BY <1>2, <2>1, <2>2 DEF TrackInv
<1>. QED
  BY <1>5, <1>6, <1>8, <1>9

(* A fault stops handlers, at most; what the orders are like it leaves.    *)
LEMMA FaultShown ==
  ASSUME FlowInv, BookInv, RowInv, LiveInv, HandlerInv, TrackInv,
         (\E h \in Handlers : StoreFails(h)) \/ EngineRestarts
  PROVE  BookInv' /\ RowInv' /\ LiveInv' /\ HandlerInv' /\ TrackInv'
<1>1. OrderTypes /\ CallTypes /\ Unsent /\ OrderTypes' /\ PipeTypes
  BY FailTypes, RestartTypes DEF FlowInv, PipeInv
<1>2. /\ UNCHANGED <<left, filled, sent, amended, rows, registry>>
      /\ UNCHANGED <<made, trades, last_told>> /\ faults' # 0
  BY <1>1, FaultsStill DEF StoreFails, EngineRestarts, still
<1>3. \A k \in Handlers : handler'[k] = handler[k] \/ (handler'[k].pc = "idle" /\ handler'[k].order = None)
  <2>1. CASE \E h \in Handlers : StoreFails(h)
    BY <1>1, <2>1, FailTypes
  <2>2. CASE EngineRestarts
    BY <1>1, <2>2, RestartTypes
  <2>. QED
    BY <2>1, <2>2
<1>4. BookInv' /\ RowInv' /\ LiveInv'
  <2>1. \A p \in Orders : left'[p] <= left[p]
    BY <1>1, <1>2 DEF OrderTypes
  <2>. QED
    BY <1>1, <1>2, <2>1, BookStill, RowStill, LiveStill
<1>5. ASSUME NEW g \in Handlers
      PROVE  HandlerOK(g)'
  <2>1. CASE handler'[g].pc = "idle"
    BY <2>1 DEF HandlerOK
  <2>2. CASE handler'[g] = handler[g]
    <3>1. \A k \in Handlers \ {g} : handler'[k].order \in {handler[k].order, None}
      BY <1>3
    <3>2. handler[g].pc \in {"submitting", "submitted"} => handler[g].order # None
      BY <1>1 DEF CallTypes
    <3>. QED
      BY <1>1, <1>2, <2>2, <3>1, <3>2, HandlerKept
  <2>. QED
    BY <1>3, <2>1, <2>2
<1>6. HandlerInv'
  BY <1>5 DEF HandlerInv
<1>7. TrackInv'
  BY <1>2 DEF TrackInv
<1>. QED
  BY <1>4, <1>6, <1>7

LEMMA AnswerShown ==
  ASSUME FlowInv, BookInv, RowInv, LiveInv, HandlerInv, TrackInv, PublishAndAnswer
  PROVE  BookInv' /\ RowInv' /\ LiveInv' /\ HandlerInv' /\ TrackInv'
<1>1. OrderTypes /\ CallTypes /\ Unsent /\ OrderTypes'
  BY AnswerTypes DEF FlowInv
<1>2. /\ UNCHANGED <<left, filled, sent, amended, rows, registry>>
      /\ UNCHANGED <<made, trades, last_told, up, faults>>
  BY DEF PublishAndAnswer, Publish, tableVars
<1>3. \A k \in Handlers :
        /\ handler'[k].order = handler[k].order
        /\ handler'[k].pc = CASE handler[k].pc = "submitting" -> "submitted"
                              [] handler[k].pc = "modifying" -> "modified"
                              [] OTHER -> handler[k].pc
  BY <1>1, AnswerTypes
<1>4. BookInv' /\ RowInv' /\ LiveInv'
  <2>1. \A p \in Orders : left'[p] <= left[p]
    BY <1>1, <1>2 DEF OrderTypes
  <2>. QED
    BY <1>1, <1>2, <2>1, BookStill, RowStill, LiveStill
<1>5. \A k \in Handlers :
        /\ handler'[k].pc \in {"submitting", "submitted"} <=> handler[k].pc \in {"submitting", "submitted"}
        /\ handler'[k].pc \in {"modifying", "modified"} <=> handler[k].pc \in {"modifying", "modified"}
        /\ handler'[k].pc \in {"cancelled", "to delete", "to put"} => handler'[k].pc = handler[k].pc
        /\ handler[k].pc = "to put" => handler'[k].pc = "to put"
  <2>. SUFFICES ASSUME NEW k \in Handlers
                PROVE  /\ handler'[k].pc \in {"submitting", "submitted"} <=> handler[k].pc \in {"submitting", "submitted"}
                       /\ handler'[k].pc \in {"modifying", "modified"} <=> handler[k].pc \in {"modifying", "modified"}
                       /\ handler'[k].pc \in {"cancelled", "to delete", "to put"} => handler'[k].pc = handler[k].pc
                       /\ handler[k].pc = "to put" => handler'[k].pc = "to put"
    OBVIOUS
  <2>1. CASE handler[k].pc = "submitting"
    BY <1>3, <2>1
  <2>2. CASE handler[k].pc = "modifying"
    BY <1>3, <2>2
  <2>3. CASE handler[k].pc \notin {"submitting", "modifying"}
    BY <1>3, <2>3
  <2>. QED
    BY <2>1, <2>2, <2>3
<1>6. ASSUME NEW g \in Handlers
      PROVE  HandlerOK(g)'
  <2>1. HandlerOK(g)
    BY DEF HandlerInv
  <2>. QED
    BY <1>2, <1>3, <1>5, <2>1 DEF HandlerOK
<1>7. HandlerInv'
  BY <1>6 DEF HandlerInv
<1>8. TrackInv'
  <2>1. \A p : (Submits(p) => Submits(p)') /\ (Puts(p) => Puts(p)')
    BY <1>3, <1>5 DEF Submits, Puts
  <2>. QED
    BY <1>2, <2>1 DEF TrackInv
<1>. QED
  BY <1>4, <1>7, <1>8

(* Clients are told: what a live order shows moves with it.                *)
LEMMA TellShown ==
  ASSUME FlowInv, BookInv, RowInv, LiveInv, HandlerInv, TrackInv, TellFill
  PROVE  BookInv' /\ RowInv' /\ LiveInv' /\ HandlerInv' /\ TrackInv'
<1>. DEFINE f == Head(reading)
<1>1. /\ PipeTypes /\ EngineOrder /\ GatewayOrder /\ TableInv /\ AccountInv
      /\ OrderTypes /\ CallTypes /\ Unsent
  BY DEF FlowInv, PipeInv
<1>2. /\ UNCHANGED <<left, filled, sent, amended, rows, handler>>
      /\ UNCHANGED <<made, trades, up, faults>> /\ last_told' = f /\ last_told' > last_told
  BY <1>1, TellInOrder DEF TellFill, Tell, engineVars, tableVars
<1>3. /\ OrderTypes' /\ f \in DOMAIN made
      /\ \A p \in Orders :
           /\ registry'[p] # None =>
                /\ registry[p] # None
                /\ registry'[p].remaining = registry[p].remaining - Takes(f, p)
                /\ registry[p].status \in OpenStatuses => registry'[p].status \in OpenStatuses
           /\ registry[p] # None /\ registry[p].status \in OpenStatuses /\ registry'[p] = None =>
                registry[p].remaining <= Takes(f, p)
  BY <1>1, TellTypes
<1>. HIDE DEF f
<1>4. BookInv' /\ RowInv'
  <2>1. \A p \in Orders : left'[p] <= left[p]
    BY <1>1, <1>2 DEF OrderTypes
  <2>. QED
    BY <1>1, <1>2, <1>3, <2>1, BookStill, RowStill

(* With the fill, at least as much of an order is told as before and it.   *)
<1>5. ASSUME NEW p \in Orders
      PROVE  /\ Sum(Told, p) + Takes(f, p) <= Sum(Told, p)'
             /\ Sum(Told, p)' <= Sum(DOMAIN made, p)
             /\ Sum(Told, p)' \in Nat /\ Sum(Told, p) \in Nat /\ Takes(f, p) \in Nat /\ Sum(DOMAIN made, p) \in Nat
  <2>1. Sum(Told, p)' = Sum(Told', p)
    BY <1>2, MadeUnmoved
  <2>2. \A x \in DOMAIN made : x \in Nat
    <3>1. DOMAIN made = 1..Len(made) /\ Len(made) \in Nat
      BY <1>1 DEF PipeTypes
    <3>. QED
      BY <3>1
  <2>3. last_told \in Nat
    BY <1>1, PipeSequences
  <2>4. Told \in SUBSET DOMAIN made /\ f \in DOMAIN made \ Told
    BY <1>2, <1>3, <2>2, <2>3 DEF Told
  <2>5. Told' \in SUBSET DOMAIN made /\ Told \cup {f} \in SUBSET Told'
    BY <1>2, <1>3, <2>2, <2>3 DEF Told
  <2>6. Sum(Told \cup {f}, p) = Takes(f, p) + Sum(Told, p)
    BY <1>1, <2>4, SumOfOneMore
  <2>. DEFINE T == Told'
  <2>7. T \in SUBSET DOMAIN made /\ Told \cup {f} \in SUBSET T /\ DOMAIN made \in SUBSET DOMAIN made
    BY <2>5
  <2>. HIDE DEF T
  <2>8. Sum(Told \cup {f}, p) <= Sum(T, p) /\ Sum(T, p) <= Sum(DOMAIN made, p)
        /\ Sum(T, p) \in Nat /\ Sum(DOMAIN made, p) \in Nat
    BY <1>1, <2>7, SumOfFewer, SumIsNat
  <2>9. Takes(f, p) \in Nat /\ Sum(Told, p) \in Nat
    BY <1>1, <1>3, <2>4, TakesOfMade, SumIsNat
  <2>10. Sum(Told, p)' = Sum(T, p)
    BY <2>1 DEF T
  <2>. QED
    BY <2>6, <2>8, <2>9, <2>10
<1>6. LiveInv'
  <2>. SUFFICES ASSUME NEW p \in Orders, registry'[p] # None
                PROVE  /\ registry'[p].status \in OpenStatuses
                       /\ p \notin amended' => Quantity - registry'[p].remaining <= Sum(Told, p)'
    BY DEF LiveInv
  <2>1. /\ registry[p] # None /\ registry'[p].remaining = registry[p].remaining - Takes(f, p)
        /\ registry[p].status \in OpenStatuses => registry'[p].status \in OpenStatuses
    BY <1>3
  <2>2. registry[p].remaining \in Int
    BY <1>1, <2>1 DEF OrderTypes, State
  <2>3. p \notin amended => Quantity - registry[p].remaining <= Sum(Told, p)
    BY <2>1 DEF LiveInv
  <2>. DEFINE rem == registry[p].remaining
              was == Sum(Told, p)
              is == Sum(Told, p)'
              q == Takes(f, p)
  <2>4. rem \in Int /\ was \in Nat /\ is \in Nat /\ q \in Nat /\ was + q <= is /\ Quantity \in Nat
    BY <1>5, <2>2, OrdersAssumption
  <2>5. registry'[p].remaining = rem - q
    BY <2>1
  <2>. HIDE DEF rem, was, is, q
  <2>6. Quantity - rem <= was => Quantity - (rem - q) <= is
    BY <2>4
  <2>. QED
    BY <1>2, <2>1, <2>3, <2>5, <2>6 DEF rem, was, is, LiveInv
<1>7. ASSUME NEW g \in Handlers
      PROVE  HandlerOK(g)'
  <2>1. \A k \in Handlers \ {g} : handler'[k].order \in {handler[k].order, None}
    BY <1>2
  <2>2. \A p \in Orders \ {None} : (rows[p] = None => rows'[p] = None) /\ (registry[p] = None => registry'[p] = None)
    BY <1>2, <1>3
  <2>3. handler'[g] = handler[g] /\ (handler[g].pc \in {"submitting", "submitted"} => handler[g].order # None)
    BY <1>1, <1>2 DEF CallTypes
  <2>. QED
    BY <1>1, <1>2, <2>1, <2>2, <2>3, HandlerKept
<1>8. HandlerInv'
  BY <1>7 DEF HandlerInv
<1>9. TrackInv'
  <2>. SUFFICES ASSUME faults' = 0, NEW p \in Orders \ amended', left'[p] > 0
                PROVE  Submits(p)' \/ (rows'[p] # None /\ (registry'[p] # None \/ Puts(p)'))
    BY <1>2 DEF TrackInv
  <2>1. Submits(p) \/ (rows[p] # None /\ (registry[p] # None \/ Puts(p)))
    BY <1>2 DEF TrackInv
  <2>2. (Submits(p) => Submits(p)') /\ (Puts(p) => Puts(p)')
    BY <1>2 DEF Submits, Puts
  <2>3. ASSUME registry[p] # None, registry'[p] = None
        PROVE  FALSE
    <3>. DEFINE rem == registry[p].remaining
                was == Sum(Told, p)
                is == Sum(Told, p)'
                all == Sum(DOMAIN made, p)
                q == Takes(f, p)
                l == left[p]
    <3>1. rem <= q
      BY <1>3, <2>3 DEF LiveInv
    <3>2. Quantity - rem <= was
      BY <1>2, <2>3 DEF LiveInv
    <3>3. was + q <= is /\ is <= all /\ was \in Nat /\ q \in Nat /\ is \in Nat /\ all \in Nat
      BY <1>5
    <3>4. rem \in Int /\ l \in Nat /\ l > 0 /\ Quantity \in Nat
      BY <1>1, <1>2, <2>3, OrdersAssumption DEF OrderTypes, State
    <3>5. all + l <= Quantity
      <4>1. filled[p] = all /\ filled[p] + l <= Quantity
        BY <1>2 DEF BookInv
      <4>. QED
        BY <4>1, Zenon
    <3>. HIDE DEF rem, was, is, all, q, l
    <3>. QED
      BY <3>1, <3>2, <3>3, <3>4, <3>5
  <2>. QED
    BY <1>2, <2>1, <2>2, <2>3
<1>. QED
  BY <1>4, <1>6, <1>8, <1>9

(* The batch is in the table: the rows move with it.                       *)
LEMMA PersistShown ==
  ASSUME FlowInv, BookInv, RowInv, LiveInv, HandlerInv, TrackInv, PersistBatch
  PROVE  BookInv' /\ RowInv' /\ LiveInv' /\ HandlerInv' /\ TrackInv'
<1>1. /\ PipeTypes /\ EngineOrder /\ GatewayOrder /\ TableInv /\ AccountInv
      /\ OrderTypes /\ CallTypes /\ Unsent
  BY DEF FlowInv, PipeInv
<1>2. /\ UNCHANGED <<left, filled, sent, amended, registry, handler>>
      /\ UNCHANGED <<made, last_told, up, faults>> /\ trades' = trades \cup ToSet(persisting) /\ ~stored
  BY DEF PersistBatch, Persist, Commit, engineVars
<1>3. /\ OrderTypes'
      /\ \A p \in Orders :
           /\ rows[p] = None <=> rows'[p] = None
           /\ rows[p] # None =>
                /\ rows'[p].remaining = rows[p].remaining - Delta(persisting, p)
                /\ Delta(persisting, p) = 0 => rows'[p] = rows[p]
                /\ Delta(persisting, p) # 0 =>
                     rows'[p].status = IF rows[p].remaining - Delta(persisting, p) <= 0 THEN "Filled"
                                       ELSE IF rows[p].status = "Empty" THEN "PartiallyFilled"
                                       ELSE rows[p].status
  BY <1>1, PersistTypes
<1>4. BookInv' /\ LiveInv'
  <2>1. \A p \in Orders : left'[p] <= left[p]
    BY <1>1, <1>2 DEF OrderTypes
  <2>. QED
    BY <1>1, <1>2, <1>3, <2>1, BookStill, LiveStill
<1>5. RowInv'
  <2>. SUFFICES ASSUME NEW p \in Orders, rows'[p] # None
                PROVE  /\ rows'[p].status = "Filled" => rows'[p].remaining <= 0
                       /\ p \notin amended' => Quantity - rows'[p].remaining <= Sum(trades, p)'
                       /\ p \notin amended' /\ rows'[p].status = "Cancelled" => left'[p] = 0 /\ filled'[p] < Quantity
    BY DEF RowInv
  <2>. DEFINE rem == rows[p].remaining
              d == Delta(persisting, p)
              was == Sum(trades, p)
              is == Sum(trades, p)'
  <2>1. rows[p] # None /\ rows'[p].remaining = rem - d
    BY <1>3
  <2>2. rem \in Int /\ d \in Nat /\ Quantity \in Nat
    BY <1>1, <2>1, DeltaIsNat, OrdersAssumption DEF OrderTypes, State
  <2>3. was + d <= is /\ was \in Nat /\ is \in Nat
    <3>1. trades \in SUBSET DOMAIN made /\ was \in Nat
      BY SumsInUse
    <3>2. trades \cap ToSet(persisting) = {}
      BY <1>1, <1>2 DEF TableInv
    <3>. DEFINE T == trades \cup ToSet(persisting)
    <3>3. T \in SUBSET DOMAIN made /\ Sum(trades, p) + Delta(persisting, p) <= Sum(T, p)
      BY <1>1, <3>1, <3>2, DeltaIsSum
    <3>4. is = Sum(T, p)
      BY <1>2, MadeUnmoved
    <3>. HIDE DEF T
    <3>5. Sum(T, p) \in Nat
      BY <1>1, <3>3, SumIsNat
    <3>. QED
      BY <3>1, <3>3, <3>4, <3>5
  <2>4. /\ rows[p].status = "Filled" => rem <= 0
        /\ p \notin amended => Quantity - rem <= was
        /\ p \notin amended /\ rows[p].status = "Cancelled" => left[p] = 0 /\ filled[p] < Quantity
    BY <2>1 DEF RowInv
  <2>5. /\ d = 0 => rows'[p].status = rows[p].status
        /\ d # 0 => rows'[p].status = IF rem - d <= 0 THEN "Filled"
                                       ELSE IF rows[p].status = "Empty" THEN "PartiallyFilled"
                                       ELSE rows[p].status
    BY <1>3, <2>1
  <2>. HIDE DEF rem, d, was, is
  <2>6. Quantity - rem <= was => Quantity - (rem - d) <= is
    BY <2>2, <2>3
  <2>7. rows'[p].status = "Filled" => rem - d <= 0
    <3>1. rem <= 0 => rem - d <= 0
      BY <2>2
    <3>. QED
      BY <2>4, <2>5, <3>1
  <2>8. rows'[p].status = "Cancelled" => rows[p].status = "Cancelled"
    BY <2>5
  <2>. QED
    BY <1>2, <2>1, <2>4, <2>6, <2>7, <2>8 DEF is
<1>6. ASSUME NEW g \in Handlers
      PROVE  HandlerOK(g)'
  <2>1. \A k \in Handlers \ {g} : handler'[k].order \in {handler[k].order, None}
    BY <1>2
  <2>2. \A p \in Orders \ {None} : (rows[p] = None => rows'[p] = None) /\ (registry[p] = None => registry'[p] = None)
    BY <1>2, <1>3
  <2>3. handler'[g] = handler[g] /\ (handler[g].pc \in {"submitting", "submitted"} => handler[g].order # None)
    BY <1>1, <1>2 DEF CallTypes
  <2>. QED
    BY <1>1, <1>2, <2>1, <2>2, <2>3, HandlerKept
<1>7. HandlerInv'
  BY <1>6 DEF HandlerInv
<1>8. TrackInv'
  <2>1. \A p : (Submits(p) => Submits(p)') /\ (Puts(p) => Puts(p)')
    BY <1>2 DEF Submits, Puts
  <2>2. \A p \in Orders : rows[p] # None => rows'[p] # None
    BY <1>3
  <2>. QED
    BY <1>2, <2>1, <2>2 DEF TrackInv
<1>. QED
  BY <1>4, <1>5, <1>7, <1>8

(* The gateway stops, and starts with the rows that are open: the table    *)
(* has no fill clients were not told of.                                   *)
LEMMA StopShown ==
  ASSUME FlowInv, BookInv, RowInv, LiveInv, HandlerInv, TrackInv, Stop \/ StartAndHydrate
  PROVE  BookInv' /\ RowInv' /\ LiveInv' /\ HandlerInv' /\ TrackInv'
<1>1. OrderTypes /\ CallTypes /\ Unsent /\ OrderTypes' /\ PipeTypes
  BY StopTypes DEF FlowInv, PipeInv
<1>2. /\ UNCHANGED <<left, filled, sent, amended, rows>> /\ UNCHANGED <<made, trades, last_told>>
      /\ faults' = 0 => ~up /\ faults = 0
  <2>1. CASE Stop
    BY <1>1, <2>1, FaultsStill DEF Stop, still
  <2>2. CASE StartAndHydrate
    BY <2>2 DEF StartAndHydrate, GatewayStarts, engineVars, tableVars
  <2>. QED
    BY <2>1, <2>2
<1>3. /\ (\A h \in Handlers : handler'[h].pc = "idle" /\ handler'[h].order = None) \/ handler' = handler
      /\ \A p \in Orders : registry'[p] = None \/ (registry'[p] = rows[p] /\ IsOpen(rows[p]))
  BY <1>1, StopTypes
<1>4. BookInv' /\ RowInv'
  <2>1. \A p \in Orders : left'[p] <= left[p]
    BY <1>1, <1>2 DEF OrderTypes
  <2>. QED
    BY <1>1, <1>2, <2>1, BookStill, RowStill
<1>5. LiveInv'
  <2>. SUFFICES ASSUME NEW p \in Orders, registry'[p] # None
                PROVE  /\ registry'[p].status \in OpenStatuses
                       /\ p \notin amended' => Quantity - registry'[p].remaining <= Sum(Told, p)'
    BY DEF LiveInv
  <2>1. registry'[p] = rows[p] /\ rows[p] # None /\ rows[p].status \in OpenStatuses
    BY <1>3 DEF IsOpen
  <2>. DEFINE rem == rows[p].remaining
              t == Sum(trades, p)
              is == Sum(Told, p)'
  <2>2. p \notin amended => Quantity - rem <= t
    BY <2>1 DEF RowInv
  <2>3. t \in Nat /\ is \in Nat /\ t <= is
    <3>1. Told' = Told
      BY <1>2 DEF Told
    <3>2. is = Sum(Told, p)
      BY <1>2, <3>1, MadeUnmoved
    <3>. QED
      BY <3>2, SumsInUse
  <2>4. rem \in Int /\ Quantity \in Nat
    BY <1>1, <2>1, OrdersAssumption DEF OrderTypes, State
  <2>. HIDE DEF rem, t, is
  <2>5. p \notin amended => Quantity - rem <= is
    BY <2>2, <2>3, <2>4
  <2>. QED
    BY <1>2, <2>1, <2>5 DEF rem, is
<1>6. ASSUME NEW g \in Handlers
      PROVE  HandlerOK(g)'
  <2>1. CASE \A h \in Handlers : handler'[h].pc = "idle"
    BY <2>1 DEF HandlerOK
  <2>2. CASE handler' = handler
    <3>1. \A k \in Handlers \ {g} : handler'[k].order \in {handler[k].order, None}
      BY <2>2
    <3>2. handler[g].pc \in {"submitting", "submitted"} =>
            rows[handler[g].order] = None /\ handler[g].order \in Orders /\ \A k \in Handlers \ {g} : handler[k].order # handler[g].order
      BY <1>1, OrdersAssumption DEF HandlerInv, HandlerOK, CallTypes, OrderTypes
    <3>3. handler[g].pc \in {"submitting", "submitted"} => registry'[handler[g].order] = None
      BY <1>3, <3>2 DEF IsOpen
    <3>4. HandlerOK(g)
      BY DEF HandlerInv
    <3>. QED
      BY <1>2, <2>2, <3>2, <3>3, <3>4 DEF HandlerOK
  <2>. QED
    BY <1>3, <2>1, <2>2
<1>7. HandlerInv'
  BY <1>6 DEF HandlerInv
<1>8. TrackInv'
  BY <1>2 DEF TrackInv
<1>. QED
  BY <1>4, <1>5, <1>7, <1>8

(* What the pipeline does without touching an order.                       *)
LEMMA FlowShown ==
  ASSUME FlowInv, BookInv, RowInv, LiveInv, HandlerInv, TrackInv, Flow \/ UNCHANGED vars
  PROVE  BookInv' /\ RowInv' /\ LiveInv' /\ HandlerInv' /\ TrackInv'
<1>1. OrderTypes /\ PipeTypes
  BY DEF FlowInv, PipeInv
<1>2. /\ UNCHANGED <<left, filled, sent, amended, rows, registry, handler>>
      /\ UNCHANGED <<made, trades, last_told>> /\ up' = up /\ (faults' = 0 => faults = 0)
  <2>1. CASE Flow
    BY <1>1, <2>1, FlowStill DEF still, orderVars
  <2>2. CASE UNCHANGED vars
    BY <2>2 DEF vars, pipeline, engineVars, tableVars, orderVars
  <2>. QED
    BY <2>1, <2>2
<1>3. OrderTypes'
  BY <1>1, <1>2 DEF OrderTypes
<1>4. BookInv' /\ RowInv' /\ LiveInv'
  <2>1. \A p \in Orders : left'[p] <= left[p]
    BY <1>1, <1>2 DEF OrderTypes
  <2>. QED
    BY <1>1, <1>2, <1>3, <2>1, BookStill, RowStill, LiveStill
<1>5. HandlerInv'
  BY <1>2 DEF HandlerInv, HandlerOK
<1>6. TrackInv'
  BY <1>2 DEF TrackInv, Submits, Puts
<1>. QED
  BY <1>4, <1>5, <1>6

LEMMA ShownInit == GatewayInit => BookInv /\ RowInv /\ LiveInv /\ HandlerInv /\ TrackInv
<1>. SUFFICES ASSUME GatewayInit
              PROVE  BookInv /\ RowInv /\ LiveInv /\ HandlerInv /\ TrackInv
  OBVIOUS
<1>1. /\ made = << >> /\ up = TRUE
      /\ left = [o \in Orders |-> 0] /\ filled = [o \in Orders |-> 0]
      /\ rows = [o \in Orders |-> None] /\ registry = [o \in Orders |-> None]
      /\ handler = [h \in Handlers |-> Idle]
  BY DEF GatewayInit, FillsInit
<1>2. BookInv
  <2>1. DOMAIN made = {}
    BY <1>1
  <2>2. \A o \in Orders : Sum(DOMAIN made, o) = 0
    BY <2>1, SumOverNone DEF Sum
  <2>. QED
    BY <1>1, <2>2, OrdersAssumption DEF BookInv
<1>3. RowInv /\ LiveInv
  BY <1>1 DEF RowInv, LiveInv
<1>4. HandlerInv
  BY <1>1 DEF HandlerInv, HandlerOK, Idle
<1>5. TrackInv
  BY <1>1 DEF TrackInv
<1>. QED
  BY <1>2, <1>3, <1>4, <1>5

LEMMA ShownStep ==
  ASSUME FlowInv, BookInv, RowInv, LiveInv, HandlerInv, TrackInv, [Next]_vars
  PROVE  BookInv' /\ RowInv' /\ LiveInv' /\ HandlerInv' /\ TrackInv'
<1>1. ASSUME NEW h \in Handlers, NEW o \in Orders, Submit(h, o) \/ LoadOrder(h, o)
      PROVE  BookInv' /\ RowInv' /\ LiveInv' /\ HandlerInv' /\ TrackInv'
  BY <1>1, SubmitShown, LoadShown
<1>2. ASSUME NEW h \in Handlers, CreateOrder(h) \/ StoreModify(h) \/ PutLive(h) \/ DeleteLive(h)
      PROVE  BookInv' /\ RowInv' /\ LiveInv' /\ HandlerInv' /\ TrackInv'
  BY <1>2, StoreShown, LiveShown
<1>3. ASSUME NEW h \in Handlers, CancelInEngine(h) \/ StoreCancel(h) \/ ModifyInEngine(h) \/ StoreFails(h)
      PROVE  BookInv' /\ RowInv' /\ LiveInv' /\ HandlerInv' /\ TrackInv'
  BY <1>3, CancelShown, StoreCancelShown, ModifyShown, FaultShown
<1>4. CASE PublishAndAnswer \/ TellFill \/ PersistBatch \/ EngineRestarts
  BY <1>4, AnswerShown, TellShown, PersistShown, FaultShown
<1>5. CASE Stop \/ StartAndHydrate \/ Flow \/ UNCHANGED vars
  BY <1>5, StopShown, FlowShown
<1>. QED
  BY <1>1, <1>2, <1>3, <1>4, <1>5 DEF Next

-----------------------------------------------------------------------------
(* Rows, live orders and the engine                                        *)

GatewayInv == FlowInv /\ BookInv /\ RowInv /\ LiveInv /\ HandlerInv /\ TrackInv

(* Rows, live orders and handlers are those of orders the engine has, or   *)
(* had (handleSubmitOrder, handleCancelOrder, handleModifyOrder, OnFill,   *)
(* updateOrdersBatch and HydrateLiveOrders together).                      *)
THEOREM GatewayInvariant == Spec => []GatewayInv
<1>1. GatewayInit => FlowInv
  BY PipeInit, TypesInit DEF FlowInv
<1>2. GatewayInit => GatewayInv
  BY <1>1, ShownInit DEF GatewayInv
<1>3. GatewayInv /\ [Next]_vars => GatewayInv'
  <2>1. FlowInv /\ [Next]_vars => FlowInv'
    BY PipeStep, TypesStep DEF FlowInv, PipeInv
  <2>. QED
    BY <2>1, ShownStep DEF GatewayInv
<1>. QED
  BY <1>2, <1>3, PTL DEF Spec

(* A row that shows all of its order filled is right.                      *)
FilledIsFull ==
  \A o \in Orders \ amended : rows[o] # None /\ rows[o].status = "Filled" => filled[o] >= Quantity

LEMMA ShownIsFilled ==
  ASSUME GatewayInv, NEW o \in Orders \ amended, NEW view \in {rows[o], registry[o]} \ {None}
  PROVE  /\ Quantity - view.remaining <= filled[o]
         /\ view.remaining \in Int /\ filled[o] \in Nat
<1>. DEFINE t == Sum(trades, o)
            s == Sum(Told, o)
            a == Sum(DOMAIN made, o)
            rem == view.remaining
<1>1. /\ FlowInv /\ OrderTypes
      /\ rows[o] # None => Quantity - rows[o].remaining <= t
      /\ registry[o] # None => Quantity - registry[o].remaining <= s
      /\ filled[o] = a
  BY DEF GatewayInv, FlowInv, RowInv, LiveInv, BookInv
<1>2. t \in Nat /\ s \in Nat /\ a \in Nat /\ t <= s /\ s <= a
  BY <1>1, SumsInUse
<1>3. rem \in Int /\ Quantity \in Nat
  BY <1>1, OrdersAssumption DEF OrderTypes, State
<1>4. Quantity - rem <= t \/ Quantity - rem <= s
  BY <1>1
<1>. HIDE DEF t, s, a, rem
<1>5. Quantity - rem <= a
  BY <1>2, <1>3, <1>4
<1>. QED
  BY <1>1, <1>2, <1>3, <1>5 DEF rem

LEMMA FilledRowsAreFull == GatewayInv => FilledIsFull
<1>. SUFFICES ASSUME GatewayInv, NEW o \in Orders \ amended, rows[o] # None, rows[o].status = "Filled"
              PROVE  filled[o] >= Quantity
  BY DEF FilledIsFull
<1>1. rows[o].remaining <= 0
  BY DEF GatewayInv, RowInv
<1>2. rows[o] \in {rows[o], registry[o]} \ {None}
  OBVIOUS
<1>3. Quantity - rows[o].remaining <= filled[o] /\ rows[o].remaining \in Int /\ filled[o] \in Nat
  BY <1>2, ShownIsFilled
<1>. QED
  BY <1>1, <1>3, OrdersAssumption

(* A client is never shown more of his order as filled than the engine     *)
(* filled, by the table or by the registry, whatever crashed or was late   *)
(* (OnFill, PersistFillBatch and HydrateLiveOrders, one after the other).  *)
THEOREM NoneShownMoreThanFilled == Spec => []NeverMoreThanFilled
<1>1. GatewayInv => NeverMoreThanFilled
  BY ShownIsFilled DEF NeverMoreThanFilled
<1>. QED
  BY <1>1, GatewayInvariant, PTL

(* What is in the book can be cancelled through the gateway, and while     *)
(* nothing failed it has its row and its live state once no handler is at  *)
(* it (handleSubmitOrder: engine, then store, then registry).              *)
THEOREM BookOrdersAreTracked == Spec => []LiveOrdersAreTracked
<1>1. GatewayInv => LiveOrdersAreTracked
  <2>. SUFFICES ASSUME GatewayInv, NEW o \in Orders \ amended, left[o] > 0
                PROVE  /\ rows[o] # None => IsOpen(rows[o])
                       /\ faults = 0 /\ (\A h \in Handlers : handler[h].order # o)
                            => rows[o] # None /\ registry[o] # None
    BY DEF LiveOrdersAreTracked
  <2>1. OrderTypes /\ RowInv /\ BookInv /\ TrackInv
    BY DEF GatewayInv, FlowInv
  <2>2. ASSUME rows[o] # None
        PROVE  IsOpen(rows[o])
    <3>1. rows[o].status \in Statuses
      BY <2>1, <2>2 DEF OrderTypes, State
    <3>2. rows[o].status # "Cancelled"
      BY <2>1, <2>2 DEF RowInv
    <3>3. rows[o].status # "Filled"
      <4>1. rows[o].status = "Filled" => filled[o] >= Quantity
        BY <2>2, FilledRowsAreFull DEF FilledIsFull
      <4>2. filled[o] + left[o] <= Quantity
        BY <2>1 DEF BookInv
      <4>3. filled[o] \in Nat /\ left[o] \in Int /\ Quantity \in Nat
        BY <2>1, OrdersAssumption DEF OrderTypes
      <4>. QED
        BY <4>1, <4>2, <4>3
    <3>. QED
      BY <2>2, <3>1, <3>2, <3>3 DEF IsOpen, Statuses, OpenStatuses
  <2>3. ASSUME faults = 0, \A h \in Handlers : handler[h].order # o
        PROVE  rows[o] # None /\ registry[o] # None
    BY <2>1, <2>3 DEF TrackInv, Submits, Puts
  <2>. QED
    BY <2>2, <2>3
<1>. QED
  BY <1>1, GatewayInvariant, PTL

(* A row that is Filled or Cancelled stays what it is, though fills of the *)
(* order may arrive later (the CASE of updateOrdersBatch, and the guard of *)
(* CancelOrder in the store).                                              *)
THEOREM ClosedRowsAreFinal == Spec => ClosedRowsStayClosed
<1>. DEFINE Kept(o) == rows[o] # None /\ ~IsOpen(rows[o]) => rows'[o].status = rows[o].status
<1>1. ASSUME GatewayInv, FilledIsFull', [Next]_vars, NEW o \in Orders \ amended'
      PROVE  Kept(o)
  <2>1. /\ PipeTypes /\ EngineOrder /\ GatewayOrder /\ OrderTypes /\ CallTypes /\ Unsent
        /\ RowInv /\ HandlerInv
    BY <1>1 DEF GatewayInv, FlowInv, PipeInv
  <2>2. CASE rows' = rows
    BY <2>2
  <2>3. ASSUME NEW h \in Handlers, CreateOrder(h)
        PROVE  Kept(o)
    <3>1. handler[h].pc = "submitted"
      BY <2>3 DEF CreateOrder
    <3>2. rows[handler[h].order] = None /\ \A p \in Orders \ {handler[h].order} : rows'[p] = rows[p]
      BY <2>1, <2>3, <3>1, StoreTypes DEF HandlerInv, HandlerOK
    <3>. QED
      BY <3>2
  <2>4. ASSUME NEW h \in Handlers, StoreModify(h)
        PROVE  Kept(o)
    <3>1. handler[h].pc = "modified" /\ amended' = amended
      BY <2>4 DEF StoreModify
    <3>2. handler[h].order \in amended /\ \A p \in Orders \ {handler[h].order} : rows'[p] = rows[p]
      BY <2>1, <2>4, <3>1, StoreTypes DEF HandlerInv, HandlerOK
    <3>. QED
      BY <3>1, <3>2
  <2>5. ASSUME NEW h \in Handlers, StoreCancel(h)
        PROVE  Kept(o)
    BY <2>1, <2>5, StoreCancelTypes
  <2>6. CASE PersistBatch
    <3>1. filled' = filled /\ amended' = amended
      BY <2>6 DEF PersistBatch
    <3>. SUFFICES ASSUME rows[o] # None, ~IsOpen(rows[o])
                  PROVE  rows'[o].status = rows[o].status
      OBVIOUS
    <3>. DEFINE d == Delta(persisting, o)
                rem == rows[o].remaining
    <3>2. d \in Nat /\ rem \in Int
      BY <2>1, DeltaIsNat DEF OrderTypes, State
    <3>3. /\ rows'[o] # None
          /\ d = 0 => rows'[o] = rows[o]
          /\ d # 0 => rows'[o].status = IF rem - d <= 0 THEN "Filled"
                                        ELSE IF rows[o].status = "Empty" THEN "PartiallyFilled"
                                        ELSE rows[o].status
      BY <2>1, <2>6, PersistTypes
    <3>4. rows[o].status \in {"Filled", "Cancelled"}
      BY <2>1 DEF OrderTypes, State, Statuses, IsOpen, OpenStatuses
    <3>5. /\ rows[o].status = "Filled" => rem <= 0
          /\ rows[o].status = "Cancelled" => filled[o] < Quantity
      BY <2>1, <3>1 DEF RowInv
    <3>6. rows'[o].status = "Filled" => filled[o] >= Quantity
      BY <1>1, <3>1, <3>3 DEF FilledIsFull
    <3>7. ~(filled[o] >= Quantity /\ filled[o] < Quantity)
      BY <2>1, OrdersAssumption DEF OrderTypes
    <3>. HIDE DEF d, rem
    <3>8. rem <= 0 => rem - d <= 0
      BY <3>2
    <3>. QED
      BY <3>3, <3>4, <3>5, <3>6, <3>7, <3>8
  <2>7. ASSUME NEW h \in Handlers, NEW p \in Orders, Submit(h, p) \/ LoadOrder(h, p)
        PROVE  rows' = rows
    BY <2>7 DEF Submit, LoadOrder
  <2>8. ASSUME NEW h \in Handlers,
               PutLive(h) \/ CancelInEngine(h) \/ DeleteLive(h) \/ ModifyInEngine(h) \/ StoreFails(h)
        PROVE  rows' = rows
    BY <2>8 DEF PutLive, CancelInEngine, DeleteLive, ModifyInEngine, StoreFails
  <2>9. CASE PublishAndAnswer \/ TellFill \/ Flow \/ EngineRestarts \/ Stop \/ StartAndHydrate \/ UNCHANGED vars
    BY <2>2, <2>9 DEF PublishAndAnswer, TellFill, Flow, EngineRestarts, Stop, StartAndHydrate, vars, orderVars
  <2>. HIDE DEF Kept
  <2>. QED
    BY <1>1, <2>2, <2>3, <2>4, <2>5, <2>6, <2>7, <2>8, <2>9 DEF Next
<1>2. GatewayInv /\ FilledIsFull' /\ [Next]_vars =>
        [\A o \in Orders \ amended' :
           rows[o] # None /\ ~IsOpen(rows[o]) => rows'[o].status = rows[o].status]_vars
  BY <1>1
<1>3. GatewayInv => FilledIsFull
  BY FilledRowsAreFull
<1>. QED
  BY <1>2, <1>3, GatewayInvariant, PTL DEF Spec, ClosedRowsStayClosed
=============================================================================
