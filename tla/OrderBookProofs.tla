--------------------------- MODULE OrderBookProofs ---------------------------
(***************************************************************************)
(* Type correctness of the order book for all values of its constants, and *)
(* what the operators on sides, queues and maps return.  Without is the    *)
(* one with a recursion in it: what it returns is the orders it is to keep,*)
(* each of them once and in their old order, which is what cancelling one  *)
(* order or all the orders of a user relies on.                            *)
(***************************************************************************)
EXTENDS OrderBook, DataLemmas

-----------------------------------------------------------------------------
(* Queues                                                                  *)

(* The recursion behind Without, as a relation: kept[n] is what is kept of *)
(* the first n orders of the queue.                                        *)
IsKept(kept, queue, gone) ==
  /\ kept[0] = << >>
  /\ \A n \in 1..Len(queue) :
       kept[n] = IF queue[n] \in gone THEN kept[n - 1]
                 ELSE Append(kept[n - 1], queue[n])
  /\ Without(queue, gone) = kept[Len(queue)]

(* It is well-defined.                                                     *)
LEMMA WithoutSteps ==
  ASSUME NEW S, NEW queue \in Seq(S), NEW gone
  PROVE  \E kept \in [0..Len(queue) -> Seq(S)] : IsKept(kept, queue, gone)
<1>. DEFINE After(kept, n) == IF n = 0 THEN << >>
                              ELSE IF queue[n] \in gone THEN kept[n - 1]
                              ELSE Append(kept[n - 1], queue[n])
            Steps(kept, n) == \A m \in 0..n : kept[m] = After(kept, m)
            Good == {n \in Nat : n <= Len(queue) => \E kept \in [0..n -> Seq(S)] : Steps(kept, n)}
<1>1. 0 \in Good
  <2>. DEFINE start == [m \in 0..0 |-> << >>]
  <2>1. start \in [0..0 -> Seq(S)]
    OBVIOUS
  <2>2. Steps(start, 0)
    OBVIOUS
  <2>. QED
    BY <2>1, <2>2
<1>2. ASSUME NEW n \in Nat, n \in Good
      PROVE  n + 1 \in Good
  <2>1. SUFFICES ASSUME n + 1 <= Len(queue)
                 PROVE  \E kept \in [0..(n + 1) -> Seq(S)] : Steps(kept, n + 1)
    <3>. HIDE DEF Steps
    <3>. QED
      OBVIOUS
  <2>2. PICK kept \in [0..n -> Seq(S)] : Steps(kept, n)
    <3>. HIDE DEF Steps
    <3>. QED
      BY <1>2, <2>1
  <2>. DEFINE more == [m \in 0..(n + 1) |-> IF m = n + 1 THEN After(kept, m) ELSE kept[m]]
  <2>3. queue[n + 1] \in S
    BY <2>1
  <2>4. more \in [0..(n + 1) -> Seq(S)]
    BY <2>3, AppendProperties
  <2>5. ASSUME NEW m \in 0..(n + 1)
        PROVE  more[m] = After(more, m)
    <3>1. CASE m = 0
      BY <2>2, <3>1
    <3>2. CASE m = n + 1
      <4>1. more[m] = After(kept, m)
        BY <3>2
      <4>2. more[m - 1] = kept[m - 1]
        BY <3>2
      <4>. QED
        BY <3>2, <4>1, <4>2
    <3>3. CASE m # 0 /\ m # n + 1
      <4>1. m \in 0..n /\ more[m] = kept[m] /\ more[m - 1] = kept[m - 1]
        BY <3>3
      <4>2. kept[m] = After(kept, m)
        BY <2>2, <4>1
      <4>. QED
        BY <3>3, <4>1, <4>2
    <3>. QED
      BY <3>1, <3>2, <3>3
  <2>6. Steps(more, n + 1)
    BY <2>5
  <2>. QED
    BY <2>4, <2>6
<1>. HIDE DEF Good
<1>3. Nat \subseteq Good
  BY <1>1, <1>2, NaturalsClosed
<1>4. Len(queue) \in Nat
  BY LenProperties
<1>5. PICK some \in [0..Len(queue) -> Seq(S)] : Steps(some, Len(queue))
  <2>. HIDE DEF Steps
  <2>. QED
    BY <1>3, <1>4 DEF Good
<1>. DEFINE Whole(f) == f = [m \in 0..Len(queue) |-> After(f, m)]
            kept == CHOOSE f : Whole(f)
<1>6. Whole(some)
  BY <1>5
<1>7. Whole(kept)
  BY <1>6
<1>. HIDE DEF kept
<1>8. kept[0] = << >>
  BY <1>4, <1>7
<1>9. ASSUME NEW n \in 1..Len(queue)
      PROVE  kept[n] = IF queue[n] \in gone THEN kept[n - 1]
                       ELSE Append(kept[n - 1], queue[n])
  <2>1. n \in 0..Len(queue) /\ n # 0
    BY <1>4
  <2>2. kept[n] = After(kept, n)
    BY <1>7, <2>1
  <2>. QED
    BY <2>1, <2>2
<1>10. Without(queue, gone) = kept[Len(queue)]
  BY DEF Without, kept
<1>. HIDE DEF After, Steps, Whole
<1>11. ASSUME NEW n \in Nat, n < Len(queue), kept[n] \in Seq(S)
       PROVE  kept[n + 1] \in Seq(S)
  <2>1. n + 1 \in 1..Len(queue) /\ (n + 1) - 1 = n
    BY <1>4, <1>11
  <2>2. kept[n + 1] = IF queue[n + 1] \in gone THEN kept[n]
                      ELSE Append(kept[n], queue[n + 1])
    BY <1>9, <2>1
  <2>3. queue[n + 1] \in S
    BY <2>1, ElementOfSeq
  <2>. QED
    BY <1>11, <2>2, <2>3, AppendProperties
<1>12. \A n \in 0..Len(queue) : kept[n] \in Seq(S)
  <2>. DEFINE Fine == {n \in Nat : n <= Len(queue) => kept[n] \in Seq(S)}
  <2>1. 0 \in Fine
    BY <1>8, EmptySeq
  <2>2. \A n \in Nat : n \in Fine => n + 1 \in Fine
    BY <1>4, <1>11
  <2>. HIDE DEF Fine
  <2>3. Nat \subseteq Fine
    BY <2>1, <2>2, NaturalsClosed
  <2>. QED
    BY <1>4, <2>3 DEF Fine
<1>13. kept \in [0..Len(queue) -> Seq(S)]
  BY <1>7, <1>12 DEF Whole
<1>. QED
  BY <1>8, <1>9, <1>10, <1>13 DEF IsKept

(* What Without keeps of a queue: the orders that are not gone, all of     *)
(* them, in their old order.  `pos' says where each kept one stood.        *)
LEMMA WithoutKeeps ==
  ASSUME NEW S, NEW queue \in Seq(S), NEW gone
  PROVE  /\ Without(queue, gone) \in Seq(S)
         /\ \E pos \in [1..Len(Without(queue, gone)) -> 1..Len(queue)] :
              /\ \A i \in 1..Len(Without(queue, gone)) :
                   /\ Without(queue, gone)[i] = queue[pos[i]]
                   /\ queue[pos[i]] \notin gone
              /\ \A i, j \in 1..Len(Without(queue, gone)) : i < j => pos[i] < pos[j]
              /\ \A m \in 1..Len(queue) : queue[m] \notin gone =>
                   \E i \in 1..Len(Without(queue, gone)) : pos[i] = m
<1>1. PICK kept \in [0..Len(queue) -> Seq(S)] : IsKept(kept, queue, gone)
  BY WithoutSteps
<1>. DEFINE Keeps(part, n, pos) ==
              /\ \A i \in 1..Len(part) : part[i] = queue[pos[i]] /\ queue[pos[i]] \notin gone
              /\ \A i, j \in 1..Len(part) : i < j => pos[i] < pos[j]
              /\ \A m \in 1..n : queue[m] \notin gone => \E i \in 1..Len(part) : pos[i] = m
<1>2. Len(queue) \in Nat
  BY LenProperties
<1>3. \E pos \in [1..Len(kept[0]) -> 1..0] : Keeps(kept[0], 0, pos)
  <2>1. Len(kept[0]) = 0
    BY <1>1 DEF IsKept
  <2>2. [i \in 1..0 |-> 1] \in [1..Len(kept[0]) -> 1..0]
    BY <2>1
  <2>. QED
    BY <2>1, <2>2
<1>4. ASSUME NEW n \in Nat, n < Len(queue),
             NEW pos \in [1..Len(kept[n]) -> 1..n], Keeps(kept[n], n, pos)
      PROVE  \E after \in [1..Len(kept[n + 1]) -> 1..(n + 1)] :
               Keeps(kept[n + 1], n + 1, after)
  <2>1. /\ kept[n] \in Seq(S)
        /\ Len(kept[n]) \in Nat
        /\ n + 1 \in 1..Len(queue)
        /\ (n + 1) - 1 = n
    BY <1>2, <1>4, LenProperties
  <2>2. kept[n + 1] = IF queue[n + 1] \in gone THEN kept[n]
                      ELSE Append(kept[n], queue[n + 1])
    BY <1>1, <2>1 DEF IsKept
  <2>3. CASE queue[n + 1] \in gone
    <3>1. kept[n + 1] = kept[n]
      BY <2>2, <2>3
    <3>2. pos \in [1..Len(kept[n + 1]) -> 1..(n + 1)]
      BY <2>1, <3>1
    <3>3. Keeps(kept[n + 1], n + 1, pos)
      BY <1>4, <2>1, <2>3, <3>1
    <3>. QED
      BY <3>2, <3>3
  <2>4. CASE queue[n + 1] \notin gone
    <3>. DEFINE last  == Len(kept[n]) + 1
                after == [i \in 1..last |-> IF i = last THEN n + 1 ELSE pos[i]]
    <3>1. queue[n + 1] \in S
      BY <2>1, ElementOfSeq
    <3>2. /\ Len(kept[n + 1]) = last
          /\ \A i \in 1..Len(kept[n]) : kept[n + 1][i] = kept[n][i]
          /\ kept[n + 1][last] = queue[n + 1]
      BY <2>1, <2>2, <2>4, <3>1, AppendProperties
    <3>3. after \in [1..Len(kept[n + 1]) -> 1..(n + 1)]
      BY <2>1, <3>2
    <3>4. ASSUME NEW i \in 1..last
          PROVE  kept[n + 1][i] = queue[after[i]] /\ queue[after[i]] \notin gone
      BY <1>4, <2>1, <2>4, <3>2
    <3>5. ASSUME NEW i \in 1..last, NEW j \in 1..last, i < j
          PROVE  after[i] < after[j]
      <4>1. i \in 1..Len(kept[n]) /\ after[i] = pos[i] /\ pos[i] \in 1..n
        <5>1. i \in 1..Len(kept[n]) /\ i # last
          BY <2>1, <3>5
        <5>. QED
          BY <5>1
      <4>2. CASE j = last
        BY <4>1, <4>2
      <4>3. CASE j # last
        <5>1. j \in 1..Len(kept[n]) /\ after[j] = pos[j]
          BY <2>1, <4>3
        <5>. QED
          BY <1>4, <3>5, <4>1, <5>1
      <4>. QED
        BY <4>2, <4>3
    <3>6. ASSUME NEW m \in 1..(n + 1), queue[m] \notin gone
          PROVE  \E i \in 1..last : after[i] = m
      <4>1. CASE m = n + 1
        <5>1. last \in 1..last /\ after[last] = m
          BY <2>1, <4>1
        <5>. QED
          BY <5>1
      <4>2. CASE m \in 1..n
        <5>1. PICK i \in 1..Len(kept[n]) : pos[i] = m
          BY <1>4, <3>6, <4>2
        <5>2. i \in 1..last /\ after[i] = m
          BY <2>1, <5>1
        <5>. QED
          BY <5>2
      <4>3. m = n + 1 \/ m \in 1..n
        OBVIOUS
      <4>. QED
        BY <4>1, <4>2, <4>3
    <3>7. Keeps(kept[n + 1], n + 1, after)
      BY <3>2, <3>4, <3>5, <3>6
    <3>. QED
      BY <3>3, <3>7
  <2>. QED
    BY <2>3, <2>4
<1>. DEFINE Good == {n \in Nat : n <= Len(queue) =>
                       \E pos \in [1..Len(kept[n]) -> 1..n] : Keeps(kept[n], n, pos)}
<1>. HIDE DEF Keeps
<1>5. 0 \in Good
  BY <1>3
<1>6. ASSUME NEW n \in Nat, n \in Good
      PROVE  n + 1 \in Good
  <2>1. SUFFICES ASSUME n + 1 <= Len(queue)
                 PROVE  \E pos \in [1..Len(kept[n + 1]) -> 1..(n + 1)] :
                          Keeps(kept[n + 1], n + 1, pos)
    OBVIOUS
  <2>2. n <= Len(queue) /\ n < Len(queue)
    BY <1>2, <2>1
  <2>3. PICK pos \in [1..Len(kept[n]) -> 1..n] : Keeps(kept[n], n, pos)
    BY <1>6, <2>2
  <2>. QED
    BY <1>4, <2>2, <2>3
<1>. HIDE DEF Good
<1>7. Nat \subseteq Good
  BY <1>5, <1>6, NaturalsClosed
<1>8. PICK pos \in [1..Len(kept[Len(queue)]) -> 1..Len(queue)] :
        Keeps(kept[Len(queue)], Len(queue), pos)
  BY <1>2, <1>7 DEF Good
<1>9. /\ Without(queue, gone) \in Seq(S)
      /\ pos \in [1..Len(Without(queue, gone)) -> 1..Len(queue)]
      /\ Keeps(Without(queue, gone), Len(queue), pos)
  BY <1>1, <1>2, <1>8 DEF IsKept
<1>. QED
  BY <1>9 DEF Keeps

-----------------------------------------------------------------------------
(* Sides                                                                   *)

(* What the operators on levels return is again a side of a book.          *)
LEMMA SideOps ==
  ASSUME NEW f, IsSide(f)
  PROVE  /\ \A p \in Prices, queue \in Seq(Order) : IsSide(SetLevel(f, p, queue))
         /\ \A p \in Prices : /\ IsSide(DropLevel(f, p))
                              /\ IsSide(Prune(f, p))
                              /\ QueueAt(f, p) \in Seq(Order)
<1>1. ASSUME NEW p \in Prices, NEW queue \in Seq(Order)
      PROVE  IsSide(SetLevel(f, p, queue))
  BY DEF IsSide, SetLevel
<1>2. ASSUME NEW p \in Prices
      PROVE  IsSide(DropLevel(f, p))
  BY DEF IsSide, DropLevel
<1>3. ASSUME NEW p \in Prices
      PROVE  IsSide(Prune(f, p))
  BY <1>2 DEF Prune
<1>4. ASSUME NEW p \in Prices
      PROVE  QueueAt(f, p) \in Seq(Order)
  BY EmptySeq DEF IsSide, QueueAt
<1>. QED
  BY <1>1, <1>2, <1>3, <1>4

(* Placing an order at the end of a queue leaves a side of a book.         *)
LEMMA InsertedIsSide ==
  ASSUME NEW f, IsSide(f), NEW o \in Order
  PROVE  IsSide(Inserted(f, o))
<1>1. o.price \in Prices
  BY DEF Order
<1>2. Append(QueueAt(f, o.price), o) \in Seq(Order)
  BY <1>1, SideOps, AppendProperties
<1>. QED
  BY <1>1, <1>2, SideOps DEF Inserted

(* So does cancelling one, with the level it leaves empty.                 *)
LEMMA RemovedIsSide ==
  ASSUME NEW f, IsSide(f), NEW p \in Prices, NEW id
  PROVE  IsSide(Removed(f, p, id))
<1>. DEFINE gone == {QueueAt(f, p)[i] : i \in {j \in DOMAIN QueueAt(f, p) : QueueAt(f, p)[j].id = id}}
            kept == Without(QueueAt(f, p), gone)
<1>1. kept \in Seq(Order)
  <2>. HIDE DEF gone
  <2>. QED
    BY SideOps, WithoutKeeps
<1>2. Removed(f, p, id) = IF kept = << >> THEN DropLevel(f, p) ELSE SetLevel(f, p, kept)
  BY DEF Removed
<1>. HIDE DEF kept
<1>. QED
  BY <1>1, <1>2, SideOps

(* So does putting the parked levels back.                                 *)
LEMMA OverlaidIsSide ==
  ASSUME NEW f, IsSide(f), NEW g, IsSide(g)
  PROVE  IsSide(Overlaid(f, g))
BY DEF IsSide, Overlaid

(* So does taking a user's orders out.                                     *)
LEMMA WithoutUserIsSide ==
  ASSUME NEW f, IsSide(f), NEW user
  PROVE  IsSide(WithoutUser(f, user))
<1>. DEFINE Gone(p) == {o \in Range(f[p]) : o.user = user}
            Kept(p) == Without(f[p], Gone(p))
<1>1. ASSUME NEW p \in DOMAIN f
      PROVE  Kept(p) \in Seq(Order)
  <2>1. f[p] \in Seq(Order)
    BY DEF IsSide
  <2>. HIDE DEF Gone
  <2>. QED
    BY <2>1, WithoutKeeps
<1>2. WithoutUser(f, user) = [p \in {q \in DOMAIN f : Kept(q) # << >>} |-> Kept(p)]
  BY DEF WithoutUser
<1>. HIDE DEF Kept
<1>. QED
  BY <1>1, <1>2 DEF IsSide

(* The front of a queue is an order, and rotating the queue or filling its *)
(* front leaves a queue of orders.                                         *)
LEMMA QueueOps ==
  ASSUME NEW queue \in Seq(Order), queue # << >>
  PROVE  /\ Head(queue) \in Order
         /\ Rotate(queue) \in Seq(Order)
         /\ \A qty \in Nat : qty <= Head(queue).rem => FillFront(queue, qty) \in Seq(Order)
<1>1. Head(queue) \in Order /\ Tail(queue) \in Seq(Order) /\ Head(queue) = queue[1] /\ 1 \in 1..Len(queue)
  BY HeadTailProperties, EmptySeq
<1>2. Rotate(queue) \in Seq(Order)
  BY <1>1, AppendProperties DEF Rotate
<1>3. ASSUME NEW qty \in Nat, qty <= Head(queue).rem
      PROVE  FillFront(queue, qty) \in Seq(Order)
  <2>1. [queue[1] EXCEPT !.rem = @ - qty] \in Order
    BY <1>1, <1>3 DEF Order
  <2>2. [queue EXCEPT ![1].rem = @ - qty] \in Seq(Order)
    BY <1>1, <2>1, ExceptSeq
  <2>. QED
    BY <1>1, <2>2 DEF FillFront
<1>. QED
  BY <1>1, <1>2, <1>3

-----------------------------------------------------------------------------
(* Type correctness                                                        *)

(* The conjuncts of TypeOK as memberships, which steps are easier to check *)
(* against.                                                                *)
BookSide == UNION {[D -> Seq(Order)] : D \in SUBSET Prices}
OrdersMap == UNION {[D -> Order] : D \in SUBSET OrderIds}
Books == [Pairs -> [Sides -> BookSide]]

(* BookSide is the set of the sides IsSide describes.                      *)
LEMMA BookSideIsSide == \A f : f \in BookSide <=> IsSide(f)
BY DEF BookSide, IsSide

(* OrdersMap is the set of the maps IsOrdersMap describes.                 *)
LEMMA OrdersMapIsOrdersMap == \A f : f \in OrdersMap <=> IsOrdersMap(f)
BY DEF OrdersMap, IsOrdersMap

(* Forgetting ids and remembering an order leave a lookup map.             *)
LEMMA OrdersMapOps ==
  ASSUME NEW map \in OrdersMap
  PROVE  /\ \A ids : Forget(map, ids) \in OrdersMap
         /\ \A o \in Order : Remember(map, o) \in OrdersMap
<1>1. DOMAIN map \subseteq OrderIds /\ map \in [DOMAIN map -> Order]
  BY OrdersMapIsOrdersMap DEF IsOrdersMap
<1>2. ASSUME NEW ids
      PROVE  IsOrdersMap(Forget(map, ids))
  BY <1>1 DEF IsOrdersMap, Forget
<1>3. ASSUME NEW o \in Order
      PROVE  IsOrdersMap(Remember(map, o))
  <2>1. o.id \in OrderIds
    BY DEF Order
  <2>. QED
    BY <1>1, <2>1 DEF IsOrdersMap, Remember
<1>. QED
  BY <1>2, <1>3, OrdersMapIsOrdersMap

Phases == {"idle", "walk", "level", "matched", "rejected", "panicked"}

CallOK ==
  IF phase = "idle" THEN book = Nil /\ taker = Nil ELSE book \in Pairs /\ taker \in Order

CursorOK ==
  IF phase = "level"
  THEN /\ cursor \in Cursor
       /\ cursor.opp \in DOMAIN OppLevels
       /\ Rests(taker) => cursor.same \in DOMAIN SameLevels
  ELSE cursor = Nil

Typed ==
  /\ levels \in Books
  /\ orders_map \in [Pairs -> OrdersMap]
  /\ phase \in Phases
  /\ CallOK
  /\ CursorOK
  /\ parked \in BookSide
  /\ trades \in Seq(Trade)

(* Typed says what TypeOK says.                                            *)
LEMMA TypedIsTypeOK == Typed <=> TypeOK
<1>1. levels \in Books <=> /\ levels = [pair \in Pairs |-> [side \in Sides |-> levels[pair][side]]]
                          /\ \A pair \in Pairs, side \in Sides : IsSide(levels[pair][side])
  BY BookSideIsSide DEF Books
<1>2. orders_map \in [Pairs -> OrdersMap]
        <=> /\ orders_map = [pair \in Pairs |-> orders_map[pair]]
            /\ \A pair \in Pairs : IsOrdersMap(orders_map[pair])
  BY OrdersMapIsOrdersMap
<1>. QED
  BY <1>1, <1>2, BookSideIsSide DEF Typed, TypeOK, Phases, CallOK, CursorOK

(* The empty books are well-typed.                                         *)
LEMMA InitTyped == Init => Typed
<1>. SUFFICES ASSUME Init PROVE Typed
  OBVIOUS
<1>1. NoLevels \in BookSide
  BY DEF NoLevels, BookSide
<1>2. [id \in {} |-> Nil] \in OrdersMap
  BY DEF OrdersMap
<1>. QED
  BY <1>1, <1>2, EmptySeq DEF Typed, Init, Books, Phases, CallOK, CursorOK

(* Changing one side, or both, of one book.                                *)
LEMMA BooksUpdate ==
  ASSUME NEW lv \in Books, NEW pair \in Pairs
  PROVE  /\ \A both \in [Sides -> BookSide] : [lv EXCEPT ![pair] = both] \in Books
         /\ \A side \in Sides, f \in BookSide : [lv EXCEPT ![pair][side] = f] \in Books
BY DEF Books

(* The book made of two sides has them where the incoming order's side     *)
(* says.                                                                   *)
LEMMA BookOfType ==
  ASSUME NEW same \in BookSide, NEW opp \in BookSide, taker \in Order
  PROVE  /\ BookOf(same, opp) \in [Sides -> BookSide]
         /\ BookOf(same, opp)[taker.side] = same
         /\ BookOf(same, opp)[Opposite(taker.side)] = opp
BY DEF BookOf, Order, Sides, Opposite

(* What the walk works on while there is a call.                           *)
LEMMA WalkTypes ==
  ASSUME Typed, phase # "idle"
  PROVE  /\ book \in Pairs /\ taker \in Order
         /\ taker.side \in Sides /\ Opposite(taker.side) \in Sides
         /\ Opposite(taker.side) # taker.side
         /\ SameLevels \in BookSide /\ OppLevels \in BookSide
         /\ IsSide(SameLevels) /\ IsSide(OppLevels)
<1>1. book \in Pairs /\ taker \in Order /\ levels \in Books
  BY DEF Typed, CallOK
<1>2. /\ taker.side \in Sides /\ Opposite(taker.side) \in Sides
      /\ Opposite(taker.side) # taker.side
  BY <1>1 DEF Order, Sides, Opposite
<1>. QED
  BY <1>1, <1>2, BookSideIsSide DEF Books, SameLevels, OppLevels

(* What the inner loop works on.                                           *)
LEMMA LevelTypes ==
  ASSUME Typed, phase = "level"
  PROVE  /\ cursor \in Cursor
         /\ cursor.same \in Prices /\ cursor.opp \in Prices
         /\ cursor.opp \in DOMAIN OppLevels
         /\ Rests(taker) => cursor.same \in DOMAIN SameLevels
         /\ SameQueue \in Seq(Order) /\ OppQueue \in Seq(Order)
<1>1. /\ cursor \in Cursor
      /\ cursor.same \in Prices /\ cursor.opp \in Prices
      /\ cursor.opp \in DOMAIN OppLevels
      /\ Rests(taker) => cursor.same \in DOMAIN SameLevels
  BY DEF Typed, CursorOK, Cursor
<1>2. OppQueue \in Seq(Order)
  BY <1>1, WalkTypes DEF OppQueue, IsSide
<1>3. SameQueue \in Seq(Order)
  BY <1>1, WalkTypes, EmptySeq DEF SameQueue, IsSide
<1>. QED
  BY <1>1, <1>2, <1>3

(* A step of the walk replaces both sides of the book it walks.            *)
LEMMA WalkStep ==
  ASSUME Typed, phase # "idle", NEW same \in BookSide, NEW opp \in BookSide,
         levels' = [levels EXCEPT ![book] = BookOf(same, opp)],
         book' = book, taker'.side = taker.side
  PROVE  /\ levels' \in Books
         /\ SameLevels' = same
         /\ OppLevels' = opp
<1>1. /\ BookOf(same, opp) \in [Sides -> BookSide]
      /\ BookOf(same, opp)[taker.side] = same
      /\ BookOf(same, opp)[Opposite(taker.side)] = opp
  BY WalkTypes, BookOfType
<1>2. levels \in Books
  BY DEF Typed
<1>. QED
  BY <1>1, <1>2, WalkTypes, BooksUpdate DEF Books, SameLevels, OppLevels

(* Replacing the queue of a level that is being matched.                   *)
LEMMA QueueStep ==
  ASSUME Typed, phase = "level", NEW queue \in Seq(Order)
  PROVE  /\ SetLevel(OppLevels, cursor.opp, queue) \in BookSide
         /\ DOMAIN SetLevel(OppLevels, cursor.opp, queue) = DOMAIN OppLevels
         /\ SetLevel(SameLevels, cursor.same, queue) \in BookSide
         /\ cursor.same \in DOMAIN SetLevel(SameLevels, cursor.same, queue)
<1>1. /\ SetLevel(OppLevels, cursor.opp, queue) \in BookSide
      /\ SetLevel(SameLevels, cursor.same, queue) \in BookSide
  BY WalkTypes, LevelTypes, SideOps, BookSideIsSide
<1>2. /\ DOMAIN SetLevel(OppLevels, cursor.opp, queue) = DOMAIN OppLevels
      /\ cursor.same \in DOMAIN SetLevel(SameLevels, cursor.same, queue)
  BY LevelTypes DEF SetLevel
<1>. QED
  BY <1>1, <1>2

(* Every step keeps the types.                                             *)
LEMMA NextTyped == Typed /\ [Next]_vars => Typed'
<1>. SUFFICES ASSUME Typed, [Next]_vars PROVE Typed'
  OBVIOUS
<1>1. /\ levels \in Books /\ orders_map \in [Pairs -> OrdersMap] /\ phase \in Phases
      /\ CallOK /\ CursorOK /\ parked \in BookSide /\ trades \in Seq(Trade)
  BY DEF Typed
<1>2. ASSUME NEW pair \in Pairs, NEW o \in NewOrder, AddOrder(pair, o)
      PROVE  Typed'
  <2>1. o \in Order /\ o.id \in OrderIds /\ o.side \in Sides
    BY QuantitiesAssumption DEF NewOrder, Order
  <2>2. Inserted(levels[pair][o.side], o) \in BookSide
    BY <1>1, <2>1, BookSideIsSide, InsertedIsSide DEF Books
  <2>3. Remember(orders_map[pair], o) \in OrdersMap
    BY <1>1, <2>1, OrdersMapOps
  <2>4. levels' \in Books
    BY <1>1, <1>2, <2>1, <2>2, BooksUpdate DEF AddOrder, bookVars
  <2>5. orders_map' \in [Pairs -> OrdersMap]
    BY <1>1, <1>2, <2>3 DEF AddOrder, bookVars
  <2>. QED
    BY <1>1, <1>2, <2>1, <2>4, <2>5 DEF Typed, AddOrder, CallOK, CursorOK, Phases
<1>3. CASE EnterLevel
  <2>1. PICK same \in Prices, opp \in Prices :
          /\ NextLevels(same, opp)
          /\ cursor' = [same |-> same, opp |-> opp,
                        same_len |-> IF Rests(taker) THEN Len(SameLevels[same]) ELSE 1,
                        opp_len |-> Len(OppLevels[opp]),
                        skipped |-> 0, rotated |-> 0]
    BY <1>3 DEF EnterLevel
  <2>2. phase = "walk" /\ phase' = "level" /\ UNCHANGED <<levels, orders_map, book, taker, parked, trades>>
    BY <1>3 DEF EnterLevel
  <2>3. opp \in DOMAIN OppLevels /\ (Rests(taker) => same \in DOMAIN SameLevels)
    BY <2>1 DEF NextLevels, IsBest
  <2>4. Len(OppLevels[opp]) \in Nat /\ (Rests(taker) => Len(SameLevels[same]) \in Nat)
    BY <2>2, <2>3, WalkTypes, LenProperties DEF IsSide
  <2>5. cursor' \in Cursor /\ cursor'.opp = opp /\ cursor'.same = same
    BY <2>1, <2>4 DEF Cursor
  <2>6. CursorOK'
    BY <2>2, <2>3, <2>5 DEF CursorOK, OppLevels, SameLevels, Rests
  <2>. QED
    BY <1>1, <2>2, <2>6 DEF Typed, CallOK, Phases
<1>4. CASE SkipResting
  <2>1. phase = "level" /\ OppQueue # << >>
    BY <1>4 DEF SkipResting, SelfTrade, InLevel
  <2>. DEFINE opp == SetLevel(OppLevels, cursor.opp, Rotate(OppQueue))
  <2>2. opp \in BookSide /\ DOMAIN opp = DOMAIN OppLevels
    BY <2>1, LevelTypes, QueueOps, QueueStep
  <2>3. levels' \in Books /\ OppLevels' = opp /\ SameLevels' = SameLevels
    BY <1>4, <2>1, <2>2, WalkTypes, WalkStep DEF SkipResting
  <2>4. cursor' \in Cursor /\ cursor'.opp = cursor.opp /\ cursor'.same = cursor.same
    BY <1>4, <2>1, LevelTypes DEF SkipResting, Cursor
  <2>5. CursorOK'
    BY <1>4, <2>1, <2>2, <2>3, <2>4, LevelTypes DEF SkipResting, CursorOK, Rests
  <2>. QED
    BY <1>1, <1>4, <2>3, <2>5 DEF SkipResting, Typed, CallOK
<1>5. CASE PassTurn
  <2>1. phase = "level" /\ SameQueue # << >> /\ OppQueue # << >>
    BY <1>5 DEF PassTurn, SelfTrade, InLevel
  <2>. DEFINE same == SetLevel(SameLevels, cursor.same, Rotate(SameQueue))
              opp  == SetLevel(OppLevels, cursor.opp, Rotate(OppQueue))
  <2>2. /\ same \in BookSide /\ cursor.same \in DOMAIN same
        /\ opp \in BookSide /\ DOMAIN opp = DOMAIN OppLevels
    BY <2>1, LevelTypes, QueueOps, QueueStep
  <2>3. levels' \in Books /\ OppLevels' = opp /\ SameLevels' = same
    BY <1>5, <2>1, <2>2, WalkTypes, WalkStep DEF PassTurn
  <2>4. cursor' \in Cursor /\ cursor'.opp = cursor.opp /\ cursor'.same = cursor.same
    <3>1. cursor' = [cursor EXCEPT !.skipped = 0, !.rotated = @ + 1]
      BY <1>5 DEF PassTurn
    <3>2. cursor.rotated + 1 \in Nat /\ cursor \in Cursor
      BY <2>1, LevelTypes DEF Cursor
    <3>3. cursor' = [same |-> cursor.same, opp |-> cursor.opp, same_len |-> cursor.same_len,
                     opp_len |-> cursor.opp_len, skipped |-> 0, rotated |-> cursor.rotated + 1]
      BY <3>1, <3>2 DEF Cursor
    <3>. QED
      BY <3>2, <3>3 DEF Cursor
  <2>5. CursorOK'
    BY <1>5, <2>1, <2>2, <2>3, <2>4, LevelTypes DEF PassTurn, CursorOK, Rests
  <2>. QED
    BY <1>1, <1>5, <2>3, <2>5 DEF PassTurn, Typed, CallOK
<1>6. CASE ParkLevel
  <2>1. phase = "level" /\ OppQueue # << >>
    BY <1>6 DEF ParkLevel, SelfTrade, InLevel
  <2>2. /\ DropLevel(OppLevels, cursor.opp) \in BookSide
        /\ SetLevel(parked, cursor.opp, Rotate(OppQueue)) \in BookSide
    BY <1>1, <2>1, WalkTypes, LevelTypes, QueueOps, SideOps, BookSideIsSide
  <2>3. levels' \in Books
    BY <1>6, <2>1, <2>2, WalkTypes, WalkStep DEF ParkLevel
  <2>4. phase' = "walk" /\ cursor' = Nil /\ UNCHANGED <<orders_map, book, taker, trades>>
    BY <1>6 DEF ParkLevel
  <2>5. parked' \in BookSide
    BY <1>6, <2>2 DEF ParkLevel
  <2>. QED
    BY <1>1, <2>1, <2>3, <2>4, <2>5 DEF Typed, CallOK, CursorOK, Phases
<1>7. CASE Fill
  <2>. DEFINE incoming == Head(SameQueue)
              resting  == Head(OppQueue)
              qty      == Lesser(incoming.rem, resting.rem)
              same     == IF Rests(taker)
                          THEN SetLevel(SameLevels, cursor.same, FillFront(SameQueue, qty))
                          ELSE SameLevels
              opp      == SetLevel(OppLevels, cursor.opp, FillFront(OppQueue, qty))
  <2>1. phase = "level" /\ SameQueue # << >> /\ OppQueue # << >>
    BY <1>7 DEF Fill, InLevel
  <2>2. incoming \in Order /\ resting \in Order
    BY <2>1, LevelTypes, QueueOps
  <2>3. qty \in Nat /\ qty <= incoming.rem /\ qty <= resting.rem
    BY <2>2 DEF Lesser, Order
  <2>4. FillFront(SameQueue, qty) \in Seq(Order) /\ FillFront(OppQueue, qty) \in Seq(Order)
    BY <2>1, <2>3, LevelTypes, QueueOps
  <2>5. /\ same \in BookSide /\ (Rests(taker) => cursor.same \in DOMAIN same)
        /\ opp \in BookSide /\ DOMAIN opp = DOMAIN OppLevels
    BY <2>1, <2>4, WalkTypes, QueueStep
  <2>6. taker' \in Order /\ taker'.side = taker.side /\ taker'.type = taker.type
    <3>1. CASE Rests(taker)
      BY <1>7, <2>1, <3>1, WalkTypes DEF Fill
    <3>2. CASE ~Rests(taker)
      <4>1. taker' = [taker EXCEPT !.rem = @ - qty]
        BY <1>7, <3>2 DEF Fill
      <4>2. incoming = taker
        BY <2>1, <3>2 DEF SameQueue
      <4>. QED
        BY <2>1, <2>3, <4>1, <4>2, WalkTypes DEF Order
    <3>. QED
      BY <3>1, <3>2
  <2>7. levels' \in Books /\ OppLevels' = opp /\ SameLevels' = same
    <3>1. levels' = [levels EXCEPT ![book] = BookOf(same, opp)] /\ book' = book
      BY <1>7 DEF Fill
    <3>. HIDE DEF same, opp
    <3>. QED
      BY <2>1, <2>5, <2>6, <3>1, WalkStep
  <2>8. orders_map' \in [Pairs -> OrdersMap]
    <3>1. PICK ids : orders_map' = [orders_map EXCEPT ![book] = Forget(@, ids)]
      BY <1>7 DEF Fill
    <3>. QED
      BY <1>1, <2>1, <3>1, WalkTypes, OrdersMapOps
  <2>9. trades' \in Seq(Trade)
    <3>. DEFINE bid == IF taker.side = "Buy" THEN incoming ELSE resting
                ask == IF taker.side = "Buy" THEN resting ELSE incoming
                t   == [bid |-> bid.id, ask |-> ask.id, buyer |-> bid.user, seller |-> ask.user,
                        price |-> cursor.opp, qty |-> qty]
    <3>1. bid \in Order /\ ask \in Order
      BY <2>2
    <3>2. t \in Trade
      BY <2>1, <2>3, <3>1, LevelTypes DEF Trade, Order
    <3>3. trades' = Append(trades, t)
      BY <1>7 DEF Fill
    <3>. QED
      BY <1>1, <3>2, <3>3, AppendProperties
  <2>10. CursorOK'
    BY <1>7, <2>1, <2>5, <2>6, <2>7, LevelTypes DEF Fill, CursorOK, Rests
  <2>11. UNCHANGED <<phase, book, parked>>
    BY <1>7 DEF Fill
  <2>. QED
    BY <1>1, <2>1, <2>6, <2>7, <2>8, <2>9, <2>10, <2>11 DEF Typed, CallOK
<1>8. CASE LeaveLevel
  <2>. DEFINE same == IF Rests(taker) THEN Prune(SameLevels, cursor.same) ELSE SameLevels
              opp  == Prune(OppLevels, cursor.opp)
  <2>1. phase = "level"
    BY <1>8 DEF LeaveLevel
  <2>2. same \in BookSide /\ opp \in BookSide
    BY <2>1, WalkTypes, LevelTypes, SideOps, BookSideIsSide
  <2>3. levels' \in Books
    BY <1>8, <2>1, <2>2, WalkStep DEF LeaveLevel
  <2>. QED
    BY <1>1, <1>8, <2>3 DEF LeaveLevel, Typed, CallOK, CursorOK, Phases
<1>9. CASE Finish
  <2>1. phase = "walk"
    BY <1>9 DEF Finish
  <2>2. Overlaid(OppLevels, parked) \in BookSide /\ NoLevels \in BookSide
    <3>1. NoLevels \in BookSide
      BY DEF BookSide, NoLevels
    <3>. QED
      BY <1>1, <2>1, <3>1, WalkTypes, OverlaidIsSide, BookSideIsSide
  <2>3. levels' \in Books
    BY <1>9, <2>1, <2>2, WalkTypes, WalkStep DEF Finish
  <2>. QED
    BY <1>1, <1>9, <2>2, <2>3 DEF Finish, Typed, CallOK, CursorOK, Phases
<1>10. CASE Return
  BY <1>1, <1>10, EmptySeq DEF Return, Typed, CallOK, CursorOK, Phases
<1>11. ASSUME NEW pair \in Pairs, NEW id \in OrderIds, CancelOrder(pair, id)
       PROVE  Typed'
  <2>. DEFINE o == orders_map[pair][id]
  <2>1. o \in Order /\ o.side \in Sides /\ o.price \in Prices
    BY <1>1, <1>11 DEF CancelOrder, OrdersMap, Order
  <2>2. Removed(levels[pair][o.side], o.price, id) \in BookSide
    BY <1>1, <2>1, BookSideIsSide, RemovedIsSide DEF Books
  <2>3. Forget(orders_map[pair], {id}) \in OrdersMap
    BY <1>1, OrdersMapOps
  <2>4. levels' \in Books
    BY <1>1, <1>11, <2>1, <2>2, BooksUpdate DEF CancelOrder
  <2>5. orders_map' \in [Pairs -> OrdersMap]
    BY <1>1, <1>11, <2>3 DEF CancelOrder
  <2>. QED
    BY <1>1, <1>11, <2>4, <2>5 DEF Typed, CancelOrder, callVars, CallOK, CursorOK, Phases
<1>12. ASSUME NEW pair \in Pairs, NEW user \in Users, CancelOrdersForUser(pair, user)
       PROVE  Typed'
  <2>1. [side \in Sides |-> WithoutUser(levels[pair][side], user)] \in [Sides -> BookSide]
    BY <1>1, BookSideIsSide, WithoutUserIsSide DEF Books
  <2>2. \A gone : Forget(orders_map[pair], gone) \in OrdersMap
    BY <1>1, OrdersMapOps
  <2>3. levels' \in Books
    BY <1>1, <1>12, <2>1, BooksUpdate DEF CancelOrdersForUser
  <2>4. orders_map' \in [Pairs -> OrdersMap]
    BY <1>1, <1>12, <2>2 DEF CancelOrdersForUser
  <2>. QED
    BY <1>1, <1>12, <2>3, <2>4 DEF Typed, CancelOrdersForUser, callVars, CallOK, CursorOK, Phases
<1>13. CASE UNCHANGED vars
  BY <1>1, <1>13 DEF Typed, vars, CallOK, CursorOK, OppLevels, SameLevels
<1>. QED
  BY <1>2, <1>3, <1>4, <1>5, <1>6, <1>7, <1>8, <1>9, <1>10, <1>11, <1>12, <1>13
     DEF Next, Match

(* The type invariant: whatever the constants are, a call is described     *)
(* exactly while there is one, queues hold orders and a cursor points at   *)
(* levels that exist.                                                      *)
THEOREM TypeCorrect == Spec => []TypeOK
<1>1. Typed => TypeOK
  BY TypedIsTypeOK
<1>. QED
  BY InitTyped, NextTyped, <1>1, PTL DEF Spec
=============================================================================
