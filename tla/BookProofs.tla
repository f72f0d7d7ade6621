------------------------------ MODULE BookProofs ------------------------------
(***************************************************************************)
(* The lookup map and the two sides of a book agree at every step of every *)
(* operation, for all values of the constants.  The argument goes through  *)
(* the queues as they are with the parked levels on top (Depth): a step    *)
(* thins them out (ThinsBy), taking the same orders from queues and map    *)
(* (ThinningConsistent) or none and at most rotating some                  *)
(* (RequeueConsistent), or it adds one order to both (AddOrderQueues), or  *)
(* fills the front of two (FillQueues).                                    *)
(***************************************************************************)
EXTENDS OrderBookProofs

(* The queues of a book by side and price, empty where there is no level.  *)
Depth == [Sides -> [Prices -> Seq(Order)]]

(* Two of them are equal when all their queues are.                        *)
LEMMA SameDepths ==
  ASSUME NEW q \in Depth, NEW r \in Depth,
         \A side \in Sides, p \in Prices : q[side][p] = r[side][p]
  PROVE  q = r
<1>1. ASSUME NEW side \in Sides
      PROVE  q[side] = r[side]
  <2>1. q[side] \in [Prices -> Seq(Order)] /\ r[side] \in [Prices -> Seq(Order)]
    BY DEF Depth
  <2>. QED
    BY <2>1
<1>. QED
  BY <1>1 DEF Depth

(* BookAgrees for one book: its flat map and its queues.                   *)
Standing(map, q) ==
  \A id \in DOMAIN map : \E i \in DOMAIN q[map[id].side][map[id].price] :
     q[map[id].side][map[id].price][i].id = id

Known(map, side, p, o) ==
  /\ o.id \in DOMAIN map
  /\ o.side = side /\ o.price = p /\ Rests(o)
  /\ o.rem \in 1..map[o.id].rem
  /\ map[o.id] = [o EXCEPT !.rem = map[o.id].rem]

AllKnown(map, q) ==
  \A side \in Sides, p \in Prices : \A i \in DOMAIN q[side][p] :
    Known(map, side, p, q[side][p][i])

Distinct(queue) ==
  \A i, j \in DOMAIN queue : queue[i].id = queue[j].id => i = j

AllDistinct(q) == \A side \in Sides, p \in Prices : Distinct(q[side][p])

Agree(map, q) == Standing(map, q) /\ AllKnown(map, q) /\ AllDistinct(q)

(* `new' is `old' without the orders in `ids', in any order.               *)
Thins(new, old, ids) ==
  \E pos \in [1..Len(new) -> 1..Len(old)] :
    /\ \A i \in 1..Len(new) : new[i] = old[pos[i]] /\ old[pos[i]].id \notin ids
    /\ \A i, j \in 1..Len(new) : pos[i] = pos[j] => i = j
    /\ \A m \in 1..Len(old) : old[m].id \notin ids => \E i \in 1..Len(new) : pos[i] = m

(* Taking orders out of the queues and out of the map, and changing the    *)
(* order they stand in, leaves a book that agrees.                         *)
LEMMA ThinningAgrees ==
  ASSUME NEW map \in OrdersMap, NEW q \in Depth, NEW r \in Depth, NEW ids,
         Agree(map, q),
         \A side \in Sides, p \in Prices : Thins(r[side][p], q[side][p], ids)
  PROVE  Agree(Forget(map, ids), r)
<1>. DEFINE less == Forget(map, ids)
<1>1. /\ DOMAIN less = DOMAIN map \ ids
      /\ \A id \in DOMAIN less : less[id] = map[id]
  BY DEF Forget
<1>2. \A id \in DOMAIN map : map[id] \in Order /\ map[id].side \in Sides /\ map[id].price \in Prices
  BY OrdersMapIsOrdersMap DEF IsOrdersMap, Order
<1>3. \A side \in Sides, p \in Prices :
        /\ r[side][p] \in Seq(Order) /\ DOMAIN r[side][p] = 1..Len(r[side][p])
        /\ q[side][p] \in Seq(Order) /\ DOMAIN q[side][p] = 1..Len(q[side][p])
  BY LenProperties DEF Depth
<1>. HIDE DEF less
<1>4. Standing(less, r)
  <2>. SUFFICES ASSUME NEW id \in DOMAIN less
                PROVE  \E i \in DOMAIN r[less[id].side][less[id].price] :
                          r[less[id].side][less[id].price][i].id = id
    BY DEF Standing
  <2>. DEFINE side == map[id].side
              p    == map[id].price
  <2>1. side \in Sides /\ p \in Prices /\ id \in DOMAIN map /\ id \notin ids /\ less[id] = map[id]
    BY <1>1, <1>2
  <2>2. PICK m \in DOMAIN q[side][p] : q[side][p][m].id = id
    BY <2>1 DEF Agree, Standing
  <2>. HIDE DEF side, p
  <2>3. PICK pos \in [1..Len(r[side][p]) -> 1..Len(q[side][p])] :
          /\ \A i \in 1..Len(r[side][p]) : r[side][p][i] = q[side][p][pos[i]]
          /\ \A k \in 1..Len(q[side][p]) : q[side][p][k].id \notin ids =>
               \E i \in 1..Len(r[side][p]) : pos[i] = k
    BY <2>1 DEF Thins
  <2>4. PICK i \in 1..Len(r[side][p]) : pos[i] = m
    BY <1>3, <2>1, <2>2, <2>3
  <2>5. i \in DOMAIN r[side][p] /\ r[side][p][i].id = id
    BY <1>3, <2>1, <2>2, <2>3, <2>4
  <2>. QED
    BY <2>1, <2>5 DEF side, p
<1>5. ASSUME NEW side \in Sides, NEW p \in Prices
      PROVE  /\ \A i \in DOMAIN r[side][p] : Known(less, side, p, r[side][p][i])
             /\ Distinct(r[side][p])
  <2>1. PICK pos \in [1..Len(r[side][p]) -> 1..Len(q[side][p])] :
          /\ \A i \in 1..Len(r[side][p]) : /\ r[side][p][i] = q[side][p][pos[i]]
                                           /\ q[side][p][pos[i]].id \notin ids
          /\ \A i, j \in 1..Len(r[side][p]) : pos[i] = pos[j] => i = j
    BY DEF Thins
  <2>2. ASSUME NEW i \in DOMAIN r[side][p]
        PROVE  Known(less, side, p, r[side][p][i])
    <3>1. pos[i] \in DOMAIN q[side][p] /\ r[side][p][i] = q[side][p][pos[i]]
      BY <1>3, <2>1
    <3>2. Known(map, side, p, r[side][p][i]) /\ r[side][p][i].id \notin ids
      BY <1>3, <2>1, <3>1 DEF Agree, AllKnown
    <3>. QED
      BY <1>1, <3>2 DEF Known
  <2>3. ASSUME NEW i \in DOMAIN r[side][p], NEW j \in DOMAIN r[side][p],
               r[side][p][i].id = r[side][p][j].id
        PROVE  i = j
    <3>1. /\ pos[i] \in DOMAIN q[side][p] /\ r[side][p][i] = q[side][p][pos[i]]
          /\ pos[j] \in DOMAIN q[side][p] /\ r[side][p][j] = q[side][p][pos[j]]
      BY <1>3, <2>1
    <3>2. pos[i] = pos[j]
      BY <2>3, <3>1 DEF Agree, AllDistinct, Distinct
    <3>. QED
      BY <1>3, <2>1, <3>2
  <2>. QED
    BY <2>2, <2>3 DEF Distinct
<1>. QED
  BY <1>4, <1>5 DEF Agree, AllKnown, AllDistinct, less

(* A new resting order joins the end of a queue and the map.               *)
LEMMA EnqueueAgrees ==
  ASSUME NEW map \in OrdersMap, NEW q \in Depth, NEW o \in Order,
         Agree(map, q), o.id \notin DOMAIN map, Rests(o), o.rem # 0
  PROVE  Agree(Remember(map, o), [q EXCEPT ![o.side][o.price] = Append(@, o)])
<1>. DEFINE more == Remember(map, o)
            r    == [q EXCEPT ![o.side][o.price] = Append(@, o)]
<1>1. /\ DOMAIN more = DOMAIN map \cup {o.id}
      /\ more[o.id] = o
      /\ \A id \in DOMAIN map : more[id] = map[id]
  BY DEF Remember
<1>2. o.side \in Sides /\ o.price \in Prices /\ o.rem \in Nat
  BY DEF Order
<1>3. \A id \in DOMAIN map : map[id] \in Order /\ map[id].side \in Sides /\ map[id].price \in Prices
  BY OrdersMapIsOrdersMap DEF IsOrdersMap, Order
<1>4. \A side \in Sides, p \in Prices :
        q[side][p] \in Seq(Order) /\ DOMAIN q[side][p] = 1..Len(q[side][p])
  BY LenProperties DEF Depth
<1>5. \A side \in Sides, p \in Prices :
        r[side][p] = IF side = o.side /\ p = o.price THEN Append(q[side][p], o) ELSE q[side][p]
  BY <1>2 DEF Depth
<1>. DEFINE last == Len(q[o.side][o.price]) + 1
<1>6. /\ DOMAIN r[o.side][o.price] = 1..last
      /\ \A i \in DOMAIN q[o.side][o.price] : r[o.side][o.price][i] = q[o.side][o.price][i]
      /\ r[o.side][o.price][last] = o
      /\ last \in 1..last /\ DOMAIN q[o.side][o.price] = 1..last \ {last}
  <2>1. r[o.side][o.price] = Append(q[o.side][o.price], o) /\ q[o.side][o.price] \in Seq(Order)
    BY <1>2, <1>4, <1>5
  <2>2. Len(q[o.side][o.price]) \in Nat
    BY <2>1, LenProperties
  <2>. HIDE DEF r
  <2>. QED
    BY <1>2, <1>4, <2>1, <2>2, AppendProperties, LenProperties
<1>. HIDE DEF more, r, last
<1>7. Standing(more, r)
  <2>. SUFFICES ASSUME NEW id \in DOMAIN more
                PROVE  \E i \in DOMAIN r[more[id].side][more[id].price] :
                          r[more[id].side][more[id].price][i].id = id
    BY DEF Standing
  <2>1. CASE id = o.id
    BY <1>1, <1>6, <2>1
  <2>2. CASE id \in DOMAIN map
    <3>1. PICK i \in DOMAIN q[map[id].side][map[id].price] : q[map[id].side][map[id].price][i].id = id
      BY <2>2 DEF Agree, Standing
    <3>2. /\ i \in DOMAIN r[map[id].side][map[id].price]
          /\ r[map[id].side][map[id].price][i].id = id
      BY <1>3, <1>5, <1>6, <2>2, <3>1
    <3>. QED
      BY <1>1, <2>2, <3>2
  <2>. QED
    BY <1>1, <2>1, <2>2
<1>8. \A side \in Sides, p \in Prices : \A i \in DOMAIN q[side][p] :
        Known(map, side, p, q[side][p][i]) /\ q[side][p][i].id # o.id
  BY DEF Agree, AllKnown, Known
<1>9. Known(more, o.side, o.price, o)
  <2>1. o = [o EXCEPT !.rem = o.rem]
    BY DEF Order
  <2>2. o.rem \in 1..o.rem
    BY <1>2
  <2>. QED
    BY <1>1, <2>1, <2>2 DEF Known
<1>10. ASSUME NEW side \in Sides, NEW p \in Prices, NEW i \in DOMAIN q[side][p]
       PROVE  Known(more, side, p, q[side][p][i])
  <2>1. Known(map, side, p, q[side][p][i])
    BY <1>8
  <2>2. q[side][p][i].id \in DOMAIN map
    BY <2>1 DEF Known
  <2>3. q[side][p][i].id \in DOMAIN more /\ more[q[side][p][i].id] = map[q[side][p][i].id]
    BY <1>1, <2>2
  <2>. QED
    BY <2>1, <2>3 DEF Known
<1>11. AllKnown(more, r)
  BY <1>5, <1>6, <1>9, <1>10 DEF AllKnown
<1>12. \A side \in Sides, p \in Prices : Distinct(q[side][p])
  BY DEF Agree, AllDistinct
<1>13. Distinct(r[o.side][o.price])
  BY <1>2, <1>6, <1>8, <1>12 DEF Distinct
<1>14. AllDistinct(r)
  BY <1>5, <1>12, <1>13 DEF AllDistinct
<1>. QED
  BY <1>7, <1>11, <1>14 DEF Agree, more, r

(* An order that is partly filled stays where it is.                       *)
LEMMA ReducingAgrees ==
  ASSUME NEW map \in OrdersMap, NEW q \in Depth, NEW side \in Sides, NEW p \in Prices,
         NEW rem, Agree(map, q), q[side][p] # << >>, rem \in 1..q[side][p][1].rem
  PROVE  Agree(map, [q EXCEPT ![side][p] = [q[side][p] EXCEPT ![1].rem = rem]])
<1>. DEFINE queue == q[side][p]
            after == [queue EXCEPT ![1].rem = rem]
            r     == [q EXCEPT ![side][p] = after]
<1>1. queue \in Seq(Order) /\ 1 \in DOMAIN queue /\ DOMAIN queue = 1..Len(queue)
  BY EmptySeq, LenProperties DEF Depth
<1>2. queue[1] \in Order
  BY <1>1, ElementOfSeq
<1>3. /\ DOMAIN after = DOMAIN queue
      /\ after[1] = [queue[1] EXCEPT !.rem = rem]
      /\ \A i \in DOMAIN queue : i # 1 => after[i] = queue[i]
  BY <1>1
<1>. HIDE DEF after
<1>4. \A i \in DOMAIN queue : after[i].id = queue[i].id
  BY <1>2, <1>3 DEF Order
<1>5. \A s \in Sides, t \in Prices :
        r[s][t] = IF s = side /\ t = p THEN after ELSE q[s][t]
  BY DEF Depth
<1>. HIDE DEF r
<1>6. \A id \in DOMAIN map : map[id] \in Order /\ map[id].side \in Sides /\ map[id].price \in Prices
  BY OrdersMapIsOrdersMap DEF IsOrdersMap, Order
<1>7. Standing(map, r)
  <2>. SUFFICES ASSUME NEW id \in DOMAIN map
                PROVE  \E i \in DOMAIN r[map[id].side][map[id].price] :
                          r[map[id].side][map[id].price][i].id = id
    BY DEF Standing
  <2>1. PICK i \in DOMAIN q[map[id].side][map[id].price] : q[map[id].side][map[id].price][i].id = id
    BY DEF Agree, Standing
  <2>. QED
    BY <1>3, <1>4, <1>5, <1>6, <2>1
<1>8. Known(map, side, p, after[1])
  <2>1. Known(map, side, p, queue[1])
    BY <1>1 DEF Agree, AllKnown
  <2>2. map[queue[1].id] \in Order /\ map[queue[1].id].rem \in Nat
    BY <1>6, <2>1 DEF Known, Order
  <2>3. after[1].rem = rem /\ rem \in 1..map[queue[1].id].rem
    BY <1>2, <1>3, <2>1, <2>2 DEF Known, Order
  <2>4. \A x : [after[1] EXCEPT !.rem = x] = [queue[1] EXCEPT !.rem = x]
    BY <1>2, <1>3 DEF Order
  <2>5. /\ after[1].id = queue[1].id /\ after[1].side = queue[1].side
        /\ after[1].price = queue[1].price /\ after[1].type = queue[1].type
    BY <1>2, <1>3 DEF Order
  <2>. QED
    BY <2>1, <2>3, <2>4, <2>5 DEF Known, Rests
<1>9. AllKnown(map, r)
  BY <1>3, <1>5, <1>8 DEF Agree, AllKnown
<1>10. Distinct(after)
  BY <1>3, <1>4 DEF Agree, AllDistinct, Distinct
<1>11. AllDistinct(r)
  BY <1>5, <1>10 DEF Agree, AllDistinct
<1>. QED
  BY <1>7, <1>9, <1>11 DEF Agree, r, after

-----------------------------------------------------------------------------
(* The changes of a queue that thin it                                     *)

(* A queue that holds none of the orders in question is thinned by staying *)
(* as it is.                                                               *)
LEMMA SameThins ==
  ASSUME NEW queue \in Seq(Order), NEW ids,
         \A i \in DOMAIN queue : queue[i].id \notin ids
  PROVE  Thins(queue, queue, ids)
<1>. DEFINE pos == [i \in 1..Len(queue) |-> i]
<1>1. pos \in [1..Len(queue) -> 1..Len(queue)] /\ DOMAIN queue = 1..Len(queue)
  BY LenProperties
<1>. QED
  BY <1>1 DEF Thins

(* An order that passes its turn goes to the back of its queue.            *)
LEMMA RotateThins ==
  ASSUME NEW queue \in Seq(Order), queue # << >>
  PROVE  Thins(Rotate(queue), queue, {})
<1>. DEFINE len == Len(queue)
            pos == [i \in 1..len |-> IF i = len THEN 1 ELSE i + 1]
            after == Rotate(queue)
<1>1. /\ len \in Nat /\ len # 0
      /\ Tail(queue) \in Seq(Order) /\ Len(Tail(queue)) = len - 1
      /\ \A i \in 1..(len - 1) : Tail(queue)[i] = queue[i + 1]
      /\ Head(queue) = queue[1] /\ queue[1] \in Order
  BY EmptySeq, LenProperties, HeadTailProperties
<1>2. /\ Len(after) = len
      /\ \A i \in 1..(len - 1) : after[i] = queue[i + 1]
      /\ after[len] = queue[1]
  BY <1>1, AppendProperties DEF Rotate
<1>. HIDE DEF after, len
<1>3. pos \in [1..Len(after) -> 1..len]
  BY <1>1, <1>2
<1>4. \A i \in 1..Len(after) : after[i] = queue[pos[i]]
  BY <1>1, <1>2
<1>5. \A i, j \in 1..Len(after) : pos[i] = pos[j] => i = j
  BY <1>1, <1>2
<1>6. ASSUME NEW m \in 1..len
      PROVE  \E i \in 1..Len(after) : pos[i] = m
  <2>1. CASE m = 1
    BY <1>1, <1>2, <2>1
  <2>2. CASE m # 1
    <3>1. m - 1 \in 1..Len(after) /\ pos[m - 1] = m
      BY <1>1, <1>2, <2>2
    <3>. QED
      BY <3>1
  <2>. QED
    BY <2>1, <2>2
<1>. HIDE DEF pos
<1>. QED
  BY <1>3, <1>4, <1>5, <1>6 DEF Thins, after, len

(* A filled order leaves the front of its queue.                           *)
LEMMA TailThins ==
  ASSUME NEW queue \in Seq(Order), queue # << >>, Distinct(queue)
  PROVE  Thins(Tail(queue), queue, {Head(queue).id})
<1>. DEFINE len == Len(queue)
            pos == [i \in 1..(len - 1) |-> i + 1]
<1>1. /\ len \in Nat /\ len # 0 /\ DOMAIN queue = 1..len
      /\ Len(Tail(queue)) = len - 1
      /\ \A i \in 1..(len - 1) : Tail(queue)[i] = queue[i + 1]
      /\ Head(queue) = queue[1]
  BY EmptySeq, LenProperties, HeadTailProperties
<1>2. pos \in [1..Len(Tail(queue)) -> 1..len]
  BY <1>1
<1>3. \A m \in 1..len : m # 1 => queue[m].id # queue[1].id
  BY <1>1 DEF Distinct
<1>4. \A i \in 1..(len - 1) : /\ Tail(queue)[i] = queue[pos[i]]
                              /\ queue[pos[i]].id # queue[1].id
  BY <1>1, <1>3
<1>5. ASSUME NEW m \in 1..len, m # 1
      PROVE  \E i \in 1..(len - 1) : pos[i] = m
  <2>1. m - 1 \in 1..(len - 1) /\ pos[m - 1] = m
    BY <1>1, <1>5
  <2>. QED
    BY <2>1
<1>6. \A i, j \in 1..(len - 1) : pos[i] = pos[j] => i = j
  BY <1>1
<1>. HIDE DEF pos
<1>7. /\ \A i \in 1..Len(Tail(queue)) : /\ Tail(queue)[i] = queue[pos[i]]
                                       /\ queue[pos[i]].id \notin {Head(queue).id}
      /\ \A i, j \in 1..Len(Tail(queue)) : pos[i] = pos[j] => i = j
      /\ \A m \in 1..len : queue[m].id \notin {Head(queue).id} =>
           \E i \in 1..Len(Tail(queue)) : pos[i] = m
  BY <1>1, <1>4, <1>5, <1>6
<1>. QED
  BY <1>2, <1>7 DEF Thins

(* Cancelled orders leave the middle of a queue.                           *)
LEMMA WithoutThins ==
  ASSUME NEW queue \in Seq(Order), NEW gone, NEW ids,
         \A i \in DOMAIN queue : queue[i] \in gone <=> queue[i].id \in ids
  PROVE  Thins(Without(queue, gone), queue, ids)
<1>. DEFINE after == Without(queue, gone)
<1>1. after \in Seq(Order) /\ Len(after) \in Nat /\ DOMAIN queue = 1..Len(queue)
  BY WithoutKeeps, LenProperties
<1>2. PICK pos \in [1..Len(after) -> 1..Len(queue)] :
        /\ \A i \in 1..Len(after) : after[i] = queue[pos[i]] /\ queue[pos[i]] \notin gone
        /\ \A i, j \in 1..Len(after) : i < j => pos[i] < pos[j]
        /\ \A m \in 1..Len(queue) : queue[m] \notin gone => \E i \in 1..Len(after) : pos[i] = m
  BY WithoutKeeps
<1>. HIDE DEF after
<1>3. ASSUME NEW i \in 1..Len(after), NEW j \in 1..Len(after), pos[i] = pos[j]
      PROVE  i = j
  BY <1>1, <1>2, <1>3
<1>4. \A i \in 1..Len(after) : queue[pos[i]].id \notin ids
  BY <1>1, <1>2
<1>5. \A m \in 1..Len(queue) : queue[m].id \notin ids => queue[m] \notin gone
  BY <1>1
<1>6. /\ \A i \in 1..Len(after) : after[i] = queue[pos[i]] /\ queue[pos[i]].id \notin ids
      /\ \A i, j \in 1..Len(after) : pos[i] = pos[j] => i = j
      /\ \A m \in 1..Len(queue) : queue[m].id \notin ids => \E i \in 1..Len(after) : pos[i] = m
  BY <1>2, <1>3, <1>4, <1>5
<1>7. Thins(after, queue, ids)
  BY <1>2, <1>6, Zenon DEF Thins
<1>. QED
  BY <1>7 DEF after

(* An id stands in one queue only.                                         *)
LEMMA OneQueue ==
  ASSUME NEW map, NEW q \in Depth, Agree(map, q),
         NEW side \in Sides, NEW p \in Prices, NEW i \in DOMAIN q[side][p],
         NEW s \in Sides, NEW t \in Prices, NEW j \in DOMAIN q[s][t],
         q[side][p][i].id = q[s][t][j].id
  PROVE  s = side /\ t = p
<1>1. Known(map, side, p, q[side][p][i]) /\ Known(map, s, t, q[s][t][j])
  BY DEF Agree, AllKnown
<1>2. q[side][p][i] \in Order /\ q[s][t][j] \in Order
  BY ElementOfSeq, LenProperties DEF Depth
<1>3. /\ map[q[side][p][i].id].side = q[side][p][i].side
      /\ map[q[side][p][i].id].price = q[side][p][i].price
      /\ map[q[s][t][j].id].side = q[s][t][j].side
      /\ map[q[s][t][j].id].price = q[s][t][j].price
  BY <1>1, <1>2 DEF Known, Order
<1>. QED
  BY <1>1, <1>3 DEF Known

(* A fill at the front of a queue: the order leaves the queue and the map, *)
(* or stays with what is left of it.                                       *)
LEMMA FillFrontAgrees ==
  ASSUME NEW map \in OrdersMap, NEW q \in Depth, Agree(map, q),
         NEW side \in Sides, NEW p \in Prices, q[side][p] # << >>,
         NEW qty \in Nat, qty <= Head(q[side][p]).rem
  PROVE  Agree(IF Head(q[side][p]).rem = qty THEN Forget(map, {Head(q[side][p]).id}) ELSE map,
               [q EXCEPT ![side][p] = FillFront(q[side][p], qty)])
<1>. DEFINE queue == q[side][p]
            r == [q EXCEPT ![side][p] = FillFront(queue, qty)]
<1>1. /\ queue \in Seq(Order) /\ DOMAIN queue = 1..Len(queue) /\ 1 \in DOMAIN queue
      /\ Head(queue) = queue[1] /\ queue[1] \in Order /\ Tail(queue) \in Seq(Order)
  BY EmptySeq, LenProperties, HeadTailProperties, ElementOfSeq DEF Depth
<1>2. FillFront(queue, qty) \in Seq(Order)
  BY <1>1, QueueOps
<1>3. r \in Depth
  BY <1>2 DEF Depth
<1>4. CASE Head(queue).rem = qty
  <2>1. r[side][p] = Tail(queue) /\ \A s \in Sides, t \in Prices : s # side \/ t # p => r[s][t] = q[s][t]
    BY <1>4 DEF FillFront, Depth
  <2>2. Thins(r[side][p], q[side][p], {Head(queue).id})
    BY <1>1, <2>1, TailThins DEF Agree, AllDistinct
  <2>3. ASSUME NEW s \in Sides, NEW t \in Prices, s # side \/ t # p
        PROVE  Thins(r[s][t], q[s][t], {Head(queue).id})
    <3>1. \A j \in DOMAIN q[s][t] : q[s][t][j].id \notin {Head(queue).id}
      BY <1>1, <2>3, OneQueue
    <3>2. q[s][t] \in Seq(Order) /\ r[s][t] = q[s][t]
      BY <2>1, <2>3 DEF Depth
    <3>. QED
      BY <3>1, <3>2, SameThins
  <2>4. \A s \in Sides, t \in Prices : Thins(r[s][t], q[s][t], {Head(queue).id})
    BY <2>2, <2>3
  <2>. HIDE DEF r
  <2>5. Agree(Forget(map, {Head(queue).id}), r)
    BY <1>3, <2>4, ThinningAgrees
  <2>. QED
    BY <1>4, <2>5 DEF r
<1>5. CASE Head(queue).rem # qty
  <2>1. Known(map, side, p, queue[1])
    BY <1>1 DEF Agree, AllKnown
  <2>2. queue[1].rem \in Nat /\ queue[1].rem - qty \in 1..queue[1].rem
    BY <1>1, <1>5 DEF Order
  <2>3. FillFront(queue, qty) = [queue EXCEPT ![1].rem = queue[1].rem - qty]
    BY <1>5 DEF FillFront
  <2>4. Agree(map, [q EXCEPT ![side][p] = [queue EXCEPT ![1].rem = queue[1].rem - qty]])
    BY <2>2, ReducingAgrees
  <2>. QED
    BY <1>5, <2>3, <2>4
<1>. QED
  BY <1>4, <1>5

-----------------------------------------------------------------------------
(* The queues of the state                                                 *)

Depths(pair) == [side \in Sides |-> [p \in Prices |-> Queue(pair, side, p)]]

(* In a well-typed state the queues of a book are queues of orders.        *)
LEMMA DepthsType ==
  ASSUME Typed, NEW pair \in Pairs
  PROVE  /\ Depths(pair) \in Depth
         /\ \A side \in Sides, p \in Prices : Depths(pair)[side][p] = Queue(pair, side, p)
<1>1. levels \in Books /\ parked \in BookSide
  BY DEF Typed
<1>2. ASSUME NEW side \in Sides
      PROVE  IsSide(AllLevels(pair, side))
  BY <1>1, OverlaidIsSide, BookSideIsSide DEF AllLevels, Books
<1>3. \A side \in Sides, p \in Prices : Queue(pair, side, p) \in Seq(Order)
  BY <1>2, SideOps DEF Queue
<1>. QED
  BY <1>3 DEF Depths, Depth

DepthsTyped ==
  \A pair \in Pairs :
    /\ Depths(pair) \in Depth
    /\ \A side \in Sides, p \in Prices : Depths(pair)[side][p] = Queue(pair, side, p)

(* ... and so they are in the next state.                                  *)
LEMMA DepthsTypedNext == Typed' => DepthsTyped'
<1>1. Typed => DepthsTyped
  BY DepthsType DEF DepthsTyped
<1>. QED
  BY <1>1, PTL

(* Every book agrees with its flat map.                                    *)
Consistent == \A pair \in Pairs : Agree(orders_map[pair], Depths(pair))

(* Consistent, which speaks of one book at a time, is BookAgrees.          *)
LEMMA ConsistentIsBookAgrees == Typed => (Consistent <=> BookAgrees)
<1>. SUFFICES ASSUME Typed PROVE Consistent <=> BookAgrees
  OBVIOUS
<1>1. ASSUME NEW pair \in Pairs, NEW id \in DOMAIN orders_map[pair]
      PROVE  orders_map[pair][id].side \in Sides /\ orders_map[pair][id].price \in Prices
  BY OrdersMapIsOrdersMap DEF Typed, IsOrdersMap, Order
<1>2. (\A pair \in Pairs : Standing(orders_map[pair], Depths(pair))) <=> Located
  BY <1>1, DepthsType DEF Standing, Located
<1>3. (\A pair \in Pairs : AllKnown(orders_map[pair], Depths(pair))) <=> Listed
  BY DepthsType DEF AllKnown, Known, Listed
<1>4. (\A pair \in Pairs : AllDistinct(Depths(pair))) <=> Single
  BY DepthsType DEF AllDistinct, Distinct, Single
<1>. QED
  BY <1>2, <1>3, <1>4 DEF Consistent, Agree, BookAgrees

(* While nothing is parked the queues are those of the book.               *)
LEMMA UnparkedQueue ==
  parked = NoLevels =>
    \A pair, side, p : Typed /\ pair \in Pairs /\ side \in Sides =>
      Queue(pair, side, p) = QueueAt(levels[pair][side], p)
BY DEF Queue, AllLevels, QueueAt, Overlaid, NoLevels

(* During a call they are those of the book and, on the opposite side, the *)
(* parked ones.                                                            *)
LEMMA WalkQueue ==
  ASSUME Typed, phase # "idle"
  PROVE  \A side \in Sides, p \in Prices :
           Queue(book, side, p) = IF side = taker.side THEN QueueAt(SameLevels, p)
                                  ELSE QueueAt(Overlaid(OppLevels, parked), p)
BY WalkTypes DEF Queue, AllLevels, SameLevels, OppLevels, Sides, Opposite

(* What a step of the walk makes of the queues.                            *)
LEMMA WalkStepQueue ==
  ASSUME Typed, phase # "idle", NEW same \in BookSide, NEW opp \in BookSide,
         levels' = [levels EXCEPT ![book] = BookOf(same, opp)],
         book' = book, taker'.side = taker.side
  PROVE  /\ \A side \in Sides, p \in Prices :
              Queue(book, side, p)' = IF side = taker.side THEN QueueAt(same, p)
                                      ELSE QueueAt(Overlaid(opp, parked'), p)
         /\ \A pair \in Pairs : pair # book =>
              \A side \in Sides, p \in Prices : Queue(pair, side, p)' = Queue(pair, side, p)
<1>1. /\ BookOf(same, opp)[taker.side] = same
      /\ BookOf(same, opp)[Opposite(taker.side)] = opp
  BY WalkTypes, BookOfType
<1>2. levels'[book] = BookOf(same, opp) /\ \A pair \in Pairs : pair # book => levels'[pair] = levels[pair]
  BY WalkTypes DEF Typed, Books
<1>. QED
  BY <1>1, <1>2, WalkTypes DEF Queue, AllLevels, Sides, Opposite

(* The queues of a side one level of which is replaced, or dropped when it *)
(* is empty.                                                               *)
LEMMA QueueOfSet ==
  ASSUME NEW f, NEW c, NEW queue, NEW p
  PROVE  QueueAt(SetLevel(f, c, queue), p) = IF p = c THEN queue ELSE QueueAt(f, p)
BY DEF QueueAt, SetLevel

(* Pruning an empty level changes no queue: an absent level and an empty   *)
(* one hold the same orders.                                               *)
LEMMA QueueOfPruned ==
  ASSUME NEW f, NEW c, NEW p
  PROVE  QueueAt(Prune(f, c), p) = QueueAt(f, p)
BY DEF QueueAt, Prune, DropLevel

(* The same with the parked levels on top of the side.                     *)
LEMMA QueueOverSet ==
  ASSUME NEW f, NEW g, NEW c, c \notin DOMAIN g, NEW queue, NEW p
  PROVE  QueueAt(Overlaid(SetLevel(f, c, queue), g), p)
           = IF p = c THEN queue ELSE QueueAt(Overlaid(f, g), p)
BY DEF QueueAt, SetLevel, Overlaid

(* ... on top of which the parked levels lie.                              *)
LEMMA QueueOverPruned ==
  ASSUME NEW f, NEW g, NEW c, NEW p
  PROVE  QueueAt(Overlaid(Prune(f, c), g), p) = QueueAt(Overlaid(f, g), p)
BY DEF QueueAt, Prune, DropLevel, Overlaid

(* Parking a level, and putting the parked levels back.                    *)
LEMMA QueueOverParked ==
  ASSUME NEW f, NEW g, NEW c, c \notin DOMAIN g, NEW queue, NEW p
  PROVE  QueueAt(Overlaid(DropLevel(f, c), SetLevel(g, c, queue)), p)
           = IF p = c THEN queue ELSE QueueAt(Overlaid(f, g), p)
BY DEF QueueAt, SetLevel, DropLevel, Overlaid

(* Once the parked levels are back the queues are what they were with the  *)
(* levels on top.                                                          *)
LEMMA QueueOverRestored ==
  ASSUME NEW f, NEW g, NEW p
  PROVE  QueueAt(Overlaid(Overlaid(f, g), NoLevels), p) = QueueAt(Overlaid(f, g), p)
BY DEF QueueAt, Overlaid, NoLevels

-----------------------------------------------------------------------------
(* The inductive invariant                                                 *)

(* What holds of the call in progress: levels are parked only during the   *)
(* walk and away from those of the book, and an order that never rests is  *)
(* alone on its side and unknown to the flat map.                          *)
WalkOK ==
  /\ phase \notin {"walk", "level"} => parked = NoLevels
  /\ ParkedApart
  /\ phase \in {"walk", "level"} /\ ~Rests(taker) => taker.id \notin DOMAIN orders_map[book]
  /\ phase = "level" /\ ~Rests(taker) => cursor.same_len = 1

BookInv == Typed /\ WalkOK /\ Consistent

(* The empty books satisfy the inductive invariant.                        *)
LEMMA InitBookInv == Init => BookInv
<1>. SUFFICES ASSUME Init PROVE BookInv
  OBVIOUS
<1>1. Typed
  BY InitTyped
<1>2. WalkOK
  BY DEF Init, WalkOK, ParkedApart
<1>3. ASSUME NEW pair \in Pairs
      PROVE  Agree(orders_map[pair], Depths(pair))
  <2>1. \A side \in Sides, p \in Prices : Depths(pair)[side][p] = << >>
    <3>1. ASSUME NEW side \in Sides, NEW p \in Prices
          PROVE  Queue(pair, side, p) = << >>
      <4>1. Queue(pair, side, p) = QueueAt(levels[pair][side], p)
        BY <1>1, UnparkedQueue DEF Init
      <4>2. levels[pair][side] = NoLevels
        BY DEF Init
      <4>. QED
        BY <4>1, <4>2 DEF QueueAt, NoLevels
    <3>. QED
      BY <1>1, <3>1, DepthsType
  <2>2. DOMAIN orders_map[pair] = {}
    BY DEF Init
  <2>3. DOMAIN << >> = {}
    BY EmptySeq, LenProperties
  <2>. QED
    BY <2>1, <2>2, <2>3 DEF Agree, Standing, AllKnown, AllDistinct, Distinct
<1>. QED
  BY <1>1, <1>2, <1>3 DEF BookInv, Consistent

(* What a step that only thins the queues out takes from every book.       *)
ThinsBy(ids) ==
  \A pair \in Pairs, side \in Sides, p \in Prices :
    Thins(Queue(pair, side, p)', Queue(pair, side, p), ids[pair])

NoIds == [pair \in Pairs |-> {}]

(* Forgetting no id changes no map.                                        *)
LEMMA ForgetNone ==
  ASSUME NEW map \in OrdersMap
  PROVE  Forget(map, {}) = map
BY OrdersMapIsOrdersMap DEF IsOrdersMap, Forget

(* A step that takes the same orders from the queues as from the map, or   *)
(* none from both, and changes the order the others stand in.              *)
LEMMA ThinningConsistent ==
  ASSUME BookInv, Typed', NEW ids, ThinsBy(ids),
         \A pair \in Pairs : orders_map'[pair] = Forget(orders_map[pair], ids[pair])
  PROVE  Consistent'
<1>1. ASSUME NEW pair \in Pairs
      PROVE  Agree(orders_map'[pair], Depths(pair)')
  <2>1. /\ Depths(pair) \in Depth /\ Agree(orders_map[pair], Depths(pair))
        /\ orders_map[pair] \in OrdersMap
        /\ \A side \in Sides, p \in Prices : Depths(pair)[side][p] = Queue(pair, side, p)
    BY DepthsType DEF BookInv, Consistent, Typed
  <2>2. /\ Depths(pair)' \in Depth
        /\ \A side \in Sides, p \in Prices : Depths(pair)'[side][p] = Queue(pair, side, p)'
    BY DepthsTypedNext DEF DepthsTyped
  <2>3. \A side \in Sides, p \in Prices :
          Thins(Depths(pair)'[side][p], Depths(pair)[side][p], ids[pair])
    BY <2>1, <2>2 DEF ThinsBy
  <2>4. Agree(Forget(orders_map[pair], ids[pair]), Depths(pair)')
    BY <2>1, <2>2, <2>3, ThinningAgrees
  <2>. QED
    BY <2>4
<1>. QED
  BY <1>1 DEF Consistent

(* A step that takes no order from anywhere.                               *)
LEMMA RequeueConsistent ==
  ASSUME BookInv, Typed', orders_map' = orders_map, ThinsBy(NoIds)
  PROVE  Consistent'
<1>1. \A pair \in Pairs : orders_map'[pair] = Forget(orders_map[pair], NoIds[pair])
  BY ForgetNone DEF BookInv, Typed, NoIds
<1>. QED
  BY <1>1, ThinningConsistent

(* A step that works on one book and takes nothing from its queues.        *)
LEMMA BookThins ==
  ASSUME Typed, phase # "idle", book' = book,
         \A pair \in Pairs : pair # book =>
           \A side \in Sides, p \in Prices : Queue(pair, side, p)' = Queue(pair, side, p),
         \A side \in Sides, p \in Prices :
           Thins(Queue(book, side, p)', Queue(book, side, p), {})
  PROVE  ThinsBy(NoIds)
<1>1. ASSUME NEW pair \in Pairs, NEW side \in Sides, NEW p \in Prices
      PROVE  Thins(Queue(pair, side, p)', Queue(pair, side, p), {})
  <2>1. Queue(pair, side, p) \in Seq(Order)
    BY DepthsType DEF Depth
  <2>2. Thins(Queue(pair, side, p), Queue(pair, side, p), {})
    BY <2>1, SameThins
  <2>3. CASE pair = book
    BY <2>3 DEF Queue, AllLevels
  <2>4. CASE pair # book
    <3>1. Queue(pair, side, p)' = Queue(pair, side, p)
      BY <2>4
    <3>. QED
      BY <2>2, <3>1
  <2>. QED
    BY <2>3, <2>4
<1>. QED
  BY <1>1 DEF ThinsBy, NoIds

(* A step that leaves all queues as they are.                              *)
LEMMA StayThins ==
  ASSUME Typed,
         \A pair \in Pairs, side \in Sides, p \in Prices :
           Queue(pair, side, p)' = Queue(pair, side, p)
  PROVE  ThinsBy(NoIds)
<1>1. ASSUME NEW pair \in Pairs, NEW side \in Sides, NEW p \in Prices
      PROVE  Thins(Queue(pair, side, p)', Queue(pair, side, p), {})
  <2>1. Queue(pair, side, p) \in Seq(Order)
    BY DepthsType DEF Depth
  <2>2. Thins(Queue(pair, side, p), Queue(pair, side, p), {})
    BY <2>1, SameThins
  <2>. QED
    BY <2>2
<1>. QED
  BY <1>1 DEF ThinsBy, NoIds

(* The front of a queue that is being matched.                             *)
LEMMA LevelQueues ==
  ASSUME BookInv, phase = "level"
  PROVE  /\ cursor.opp \notin DOMAIN parked
         /\ OppQueue = Queue(book, Opposite(taker.side), cursor.opp)
         /\ Rests(taker) => SameQueue = Queue(book, taker.side, cursor.same)
<1>1. Typed /\ cursor.opp \in Prices /\ cursor.same \in Prices
      /\ cursor.opp \in DOMAIN OppLevels /\ (Rests(taker) => cursor.same \in DOMAIN SameLevels)
  BY LevelTypes DEF BookInv
<1>2. cursor.opp \notin DOMAIN parked
  BY <1>1 DEF BookInv, WalkOK, ParkedApart
<1>3. OppQueue = QueueAt(OppLevels, cursor.opp) /\ (Rests(taker) => SameQueue = QueueAt(SameLevels, cursor.same))
  BY <1>1 DEF OppQueue, SameQueue, QueueAt
<1>4. QueueAt(Overlaid(OppLevels, parked), cursor.opp) = QueueAt(OppLevels, cursor.opp)
  BY <1>2 DEF QueueAt, Overlaid
<1>. QED
  <2>1. /\ Queue(book, taker.side, cursor.same) = QueueAt(SameLevels, cursor.same)
        /\ Queue(book, Opposite(taker.side), cursor.opp) = QueueAt(Overlaid(OppLevels, parked), cursor.opp)
    BY <1>1, WalkQueue, WalkTypes
  <2>. QED
    BY <1>1, <1>2, <1>3, <1>4, <2>1

(* The queues once the level that is being matched is replaced or parked.  *)
LEMMA LevelReplaced ==
  ASSUME cursor.opp \notin DOMAIN parked, NEW queue
  PROVE  \A p \in Prices :
           /\ QueueAt(SetLevel(SameLevels, cursor.same, queue), p)
                = IF p = cursor.same THEN queue ELSE QueueAt(SameLevels, p)
           /\ QueueAt(Overlaid(SetLevel(OppLevels, cursor.opp, queue), parked), p)
                = IF p = cursor.opp THEN queue ELSE QueueAt(Overlaid(OppLevels, parked), p)
           /\ QueueAt(Overlaid(DropLevel(OppLevels, cursor.opp),
                               SetLevel(parked, cursor.opp, queue)), p)
                = IF p = cursor.opp THEN queue ELSE QueueAt(Overlaid(OppLevels, parked), p)
<1>. DEFINE same == cursor.same
            opp  == cursor.opp
<1>1. opp \notin DOMAIN parked
  OBVIOUS
<1>. HIDE DEF same, opp
<1>2. \A p \in Prices : QueueAt(SetLevel(SameLevels, same, queue), p)
                         = IF p = same THEN queue ELSE QueueAt(SameLevels, p)
  BY QueueOfSet
<1>3. \A p \in Prices : QueueAt(Overlaid(SetLevel(OppLevels, opp, queue), parked), p)
                         = IF p = opp THEN queue ELSE QueueAt(Overlaid(OppLevels, parked), p)
  BY <1>1, QueueOverSet
<1>4. \A p \in Prices :
        QueueAt(Overlaid(DropLevel(OppLevels, opp), SetLevel(parked, opp, queue)), p)
          = IF p = opp THEN queue ELSE QueueAt(Overlaid(OppLevels, parked), p)
  BY <1>1, QueueOverParked
<1>. QED
  BY <1>2, <1>3, <1>4 DEF same, opp

(* Rotating the opposite queue takes nothing from it.                      *)
LEMMA SkipRestingThins ==
  ASSUME BookInv, SkipResting
  PROVE  ThinsBy(NoIds)
<1>. DEFINE opp == SetLevel(OppLevels, cursor.opp, Rotate(OppQueue))
<1>1. /\ Typed /\ phase = "level" /\ OppQueue # << >> /\ OppQueue \in Seq(Order)
      /\ cursor.opp \in Prices /\ cursor.opp \notin DOMAIN parked
      /\ OppQueue = Queue(book, Opposite(taker.side), cursor.opp)
  BY LevelTypes, LevelQueues DEF BookInv, SkipResting, SelfTrade, InLevel
<1>2. /\ levels' = [levels EXCEPT ![book] = BookOf(SameLevels, opp)]
      /\ UNCHANGED <<book, taker, parked, orders_map>>
  BY DEF SkipResting
<1>3. opp \in BookSide /\ SameLevels \in BookSide
  BY <1>1, QueueOps, QueueStep, WalkTypes
<1>4. \A p \in Prices :
        QueueAt(Overlaid(opp, parked), p)
          = IF p = cursor.opp THEN Rotate(OppQueue) ELSE QueueAt(Overlaid(OppLevels, parked), p)
  BY <1>1, LevelReplaced
<1>. HIDE DEF opp
<1>5. /\ \A side \in Sides, p \in Prices :
           Queue(book, side, p)' = IF side = taker.side THEN QueueAt(SameLevels, p)
                                   ELSE QueueAt(Overlaid(opp, parked), p)
      /\ \A pair \in Pairs : pair # book =>
           \A side \in Sides, p \in Prices : Queue(pair, side, p)' = Queue(pair, side, p)
  BY <1>1, <1>2, <1>3, WalkStepQueue
<1>6. ASSUME NEW side \in Sides, NEW p \in Prices
      PROVE  Thins(Queue(book, side, p)', Queue(book, side, p), {})
  <2>1. Queue(book, side, p) \in Seq(Order)
    BY <1>1, DepthsType, WalkTypes DEF Depth
  <2>2. CASE side # taker.side /\ p = cursor.opp
    <3>1. side = Opposite(taker.side)
      BY <1>1, <2>2, WalkTypes DEF Sides
    <3>2. Queue(book, side, p)' = Rotate(OppQueue) /\ Queue(book, side, p) = OppQueue
      BY <1>1, <1>4, <1>5, <2>2, <3>1
    <3>. QED
      BY <1>1, <3>2, RotateThins
  <2>3. CASE ~(side # taker.side /\ p = cursor.opp)
    <3>1. Queue(book, side, p)' = Queue(book, side, p)
      BY <1>1, <1>4, <1>5, <2>3, WalkQueue
    <3>. QED
      BY <2>1, <3>1, SameThins
  <2>. QED
    BY <2>2, <2>3
<1>. QED
  BY <1>1, <1>2, <1>5, <1>6, BookThins

(* Neither does rotating both queues.                                      *)
LEMMA PassTurnThins ==
  ASSUME BookInv, PassTurn
  PROVE  ThinsBy(NoIds)
<1>. DEFINE same == SetLevel(SameLevels, cursor.same, Rotate(SameQueue))
            opp  == SetLevel(OppLevels, cursor.opp, Rotate(OppQueue))
<1>1. /\ Typed /\ phase = "level" /\ OppQueue # << >> /\ OppQueue \in Seq(Order)
      /\ SameQueue # << >> /\ SameQueue \in Seq(Order)
      /\ cursor.opp \in Prices /\ cursor.opp \notin DOMAIN parked /\ cursor.same \in Prices
  BY LevelTypes, LevelQueues DEF BookInv, PassTurn, SelfTrade, InLevel
<1>2. Rests(taker)
  <2>1. cursor.rotated \in Nat /\ cursor.rotated + 1 < cursor.same_len
    BY <1>1, LevelTypes DEF PassTurn, TurnsLeft, Cursor
  <2>. QED
    BY <1>1, <2>1 DEF BookInv, WalkOK
<1>3. /\ OppQueue = Queue(book, Opposite(taker.side), cursor.opp)
      /\ SameQueue = Queue(book, taker.side, cursor.same)
  BY <1>1, <1>2, LevelQueues
<1>4. /\ levels' = [levels EXCEPT ![book] = BookOf(same, opp)]
      /\ UNCHANGED <<book, taker, parked, orders_map>>
  BY DEF PassTurn
<1>5. opp \in BookSide /\ same \in BookSide
  BY <1>1, QueueOps, QueueStep, WalkTypes
<1>6. \A p \in Prices :
        /\ QueueAt(Overlaid(opp, parked), p)
              = IF p = cursor.opp THEN Rotate(OppQueue) ELSE QueueAt(Overlaid(OppLevels, parked), p)
        /\ QueueAt(same, p)
              = IF p = cursor.same THEN Rotate(SameQueue) ELSE QueueAt(SameLevels, p)
  BY <1>1, LevelReplaced
<1>. HIDE DEF same, opp
<1>7. /\ \A side \in Sides, p \in Prices :
           Queue(book, side, p)' = IF side = taker.side THEN QueueAt(same, p)
                                   ELSE QueueAt(Overlaid(opp, parked), p)
      /\ \A pair \in Pairs : pair # book =>
           \A side \in Sides, p \in Prices : Queue(pair, side, p)' = Queue(pair, side, p)
  BY <1>1, <1>4, <1>5, WalkStepQueue
<1>8. ASSUME NEW side \in Sides, NEW p \in Prices
      PROVE  Thins(Queue(book, side, p)', Queue(book, side, p), {})
  <2>1. Queue(book, side, p) \in Seq(Order)
    BY <1>1, DepthsType, WalkTypes DEF Depth
  <2>2. side = taker.side \/ side = Opposite(taker.side)
    BY <1>1, WalkTypes DEF Sides
  <2>3. CASE side # taker.side /\ p = cursor.opp
    <3>1. Queue(book, side, p)' = Rotate(OppQueue) /\ Queue(book, side, p) = OppQueue
      BY <1>3, <1>6, <1>7, <2>2, <2>3
    <3>. QED
      BY <1>1, <3>1, RotateThins
  <2>4. CASE side = taker.side /\ p = cursor.same
    <3>1. Queue(book, side, p)' = Rotate(SameQueue) /\ Queue(book, side, p) = SameQueue
      BY <1>3, <1>6, <1>7, <2>4
    <3>. QED
      BY <1>1, <3>1, RotateThins
  <2>5. CASE /\ ~(side # taker.side /\ p = cursor.opp)
             /\ ~(side = taker.side /\ p = cursor.same)
    <3>1. Queue(book, side, p)' = Queue(book, side, p)
      BY <1>1, <1>6, <1>7, <2>5, WalkQueue
    <3>. QED
      BY <2>1, <3>1, SameThins
  <2>. QED
    BY <2>3, <2>4, <2>5
<1>. QED
  BY <1>1, <1>4, <1>7, <1>8, BookThins

(* ... nor setting the opposite level aside.                               *)
LEMMA ParkLevelThins ==
  ASSUME BookInv, ParkLevel
  PROVE  ThinsBy(NoIds)
<1>. DEFINE opp  == DropLevel(OppLevels, cursor.opp)
            more == SetLevel(parked, cursor.opp, Rotate(OppQueue))
<1>1. /\ Typed /\ phase = "level" /\ OppQueue # << >> /\ OppQueue \in Seq(Order)
      /\ cursor.opp \in Prices /\ cursor.opp \notin DOMAIN parked
      /\ OppQueue = Queue(book, Opposite(taker.side), cursor.opp)
  BY LevelTypes, LevelQueues DEF BookInv, ParkLevel, SelfTrade, InLevel
<1>2. /\ levels' = [levels EXCEPT ![book] = BookOf(SameLevels, opp)]
      /\ parked' = more
      /\ UNCHANGED <<book, taker, orders_map>>
  BY DEF ParkLevel
<1>3. opp \in BookSide /\ SameLevels \in BookSide
  BY <1>1, SideOps, WalkTypes, BookSideIsSide
<1>4. \A p \in Prices :
        QueueAt(Overlaid(opp, more), p)
          = IF p = cursor.opp THEN Rotate(OppQueue) ELSE QueueAt(Overlaid(OppLevels, parked), p)
  BY <1>1, LevelReplaced
<1>. HIDE DEF opp, more
<1>5. /\ \A side \in Sides, p \in Prices :
           Queue(book, side, p)' = IF side = taker.side THEN QueueAt(SameLevels, p)
                                   ELSE QueueAt(Overlaid(opp, more), p)
      /\ \A pair \in Pairs : pair # book =>
           \A side \in Sides, p \in Prices : Queue(pair, side, p)' = Queue(pair, side, p)
  BY <1>1, <1>2, <1>3, WalkStepQueue
<1>6. ASSUME NEW side \in Sides, NEW p \in Prices
      PROVE  Thins(Queue(book, side, p)', Queue(book, side, p), {})
  <2>1. Queue(book, side, p) \in Seq(Order)
    BY <1>1, DepthsType, WalkTypes DEF Depth
  <2>2. CASE side # taker.side /\ p = cursor.opp
    <3>1. side = Opposite(taker.side)
      BY <1>1, <2>2, WalkTypes DEF Sides
    <3>2. Queue(book, side, p)' = Rotate(OppQueue) /\ Queue(book, side, p) = OppQueue
      BY <1>1, <1>4, <1>5, <2>2, <3>1
    <3>. QED
      BY <1>1, <3>2, RotateThins
  <2>3. CASE ~(side # taker.side /\ p = cursor.opp)
    <3>1. Queue(book, side, p)' = Queue(book, side, p)
      BY <1>1, <1>4, <1>5, <2>3, WalkQueue
    <3>. QED
      BY <2>1, <3>1, SameThins
  <2>. QED
    BY <2>2, <2>3
<1>. QED
  BY <1>1, <1>2, <1>5, <1>6, BookThins

(* Starting on a level changes no book.                                    *)
LEMMA EnterLevelThins ==
  ASSUME BookInv, EnterLevel
  PROVE  ThinsBy(NoIds)
<1>1. UNCHANGED <<levels, orders_map, book, taker, parked>>
  BY DEF EnterLevel
<1>2. \A pair \in Pairs, side \in Sides, p \in Prices :
        Queue(pair, side, p)' = Queue(pair, side, p)
  BY <1>1 DEF Queue, AllLevels
<1>. QED
  BY <1>2, StayThins DEF BookInv

(* Leaving a level drops empty queues only.                                *)
LEMMA LeaveLevelThins ==
  ASSUME BookInv, LeaveLevel
  PROVE  ThinsBy(NoIds)
<1>. DEFINE s    == cursor.same
            c    == cursor.opp
            same == IF Rests(taker) THEN Prune(SameLevels, s) ELSE SameLevels
            opp  == Prune(OppLevels, c)
<1>1. Typed /\ phase = "level" /\ s \in Prices /\ c \in Prices
  BY LevelTypes DEF BookInv, LeaveLevel
<1>2. /\ levels' = [levels EXCEPT ![book] = BookOf(same, opp)]
      /\ UNCHANGED <<book, taker, parked, orders_map>>
  BY DEF LeaveLevel
<1>3. same \in BookSide /\ opp \in BookSide
  BY <1>1, WalkTypes, SideOps, BookSideIsSide
<1>. HIDE DEF s, c
<1>4. \A p \in Prices : /\ QueueAt(same, p) = QueueAt(SameLevels, p)
                        /\ QueueAt(Overlaid(opp, parked), p) = QueueAt(Overlaid(OppLevels, parked), p)
  BY QueueOfPruned, QueueOverPruned
<1>. HIDE DEF same, opp
<1>5. /\ \A side \in Sides, p \in Prices :
           Queue(book, side, p)' = IF side = taker.side THEN QueueAt(same, p)
                                   ELSE QueueAt(Overlaid(opp, parked), p)
      /\ \A pair \in Pairs : pair # book =>
           \A side \in Sides, p \in Prices : Queue(pair, side, p)' = Queue(pair, side, p)
  BY <1>1, <1>2, <1>3, WalkStepQueue
<1>6. \A side \in Sides, p \in Prices : Queue(book, side, p)' = Queue(book, side, p)
  BY <1>1, <1>4, <1>5, WalkQueue
<1>7. \A pair \in Pairs, side \in Sides, p \in Prices :
        Queue(pair, side, p)' = Queue(pair, side, p)
  BY <1>2, <1>5, <1>6 DEF Queue, AllLevels
<1>. QED
  BY <1>1, <1>7, StayThins

(* Putting the parked levels back loses no order.                          *)
LEMMA FinishThins ==
  ASSUME BookInv, Finish
  PROVE  ThinsBy(NoIds)
<1>. DEFINE opp == Overlaid(OppLevels, parked)
<1>1. Typed /\ phase = "walk" /\ parked \in BookSide
  BY DEF BookInv, Finish, Typed
<1>2. /\ levels' = [levels EXCEPT ![book] = BookOf(SameLevels, opp)]
      /\ parked' = NoLevels
      /\ UNCHANGED <<book, taker, orders_map>>
  BY DEF Finish
<1>3. SameLevels \in BookSide /\ opp \in BookSide
  BY <1>1, WalkTypes, OverlaidIsSide, BookSideIsSide
<1>4. \A p \in Prices : QueueAt(Overlaid(opp, NoLevels), p) = QueueAt(opp, p)
  BY QueueOverRestored
<1>5. /\ \A side \in Sides, p \in Prices :
           Queue(book, side, p)' = IF side = taker.side THEN QueueAt(SameLevels, p)
                                   ELSE QueueAt(Overlaid(opp, NoLevels), p)
      /\ \A pair \in Pairs : pair # book =>
           \A side \in Sides, p \in Prices : Queue(pair, side, p)' = Queue(pair, side, p)
  <2>. HIDE DEF opp
  <2>. QED
    BY <1>1, <1>2, <1>3, WalkStepQueue
<1>6. \A side \in Sides, p \in Prices : Queue(book, side, p)' = Queue(book, side, p)
  BY <1>1, <1>4, <1>5, WalkQueue
<1>7. \A pair \in Pairs, side \in Sides, p \in Prices :
        Queue(pair, side, p)' = Queue(pair, side, p)
  BY <1>2, <1>5, <1>6 DEF Queue, AllLevels
<1>. QED
  BY <1>1, <1>7, StayThins

(* With nothing parked the queues after a step are those of the book, too. *)
LEMMA UnparkedQueueNext ==
  parked' = NoLevels =>
    \A pair \in Pairs, side \in Sides, p \in Prices :
      Queue(pair, side, p)' = QueueAt(levels'[pair][side], p)
BY DEF Queue, AllLevels, QueueAt, Overlaid, NoLevels

(* The queues of the two sides of a book that nothing is parked of.        *)
DepthOf(sides) == [side \in Sides |-> [p \in Prices |-> QueueAt(sides[side], p)]]

(* They are queues of orders.                                              *)
LEMMA DepthOfType ==
  ASSUME NEW sides \in [Sides -> BookSide]
  PROVE  /\ DepthOf(sides) \in Depth
         /\ \A side \in Sides, p \in Prices : DepthOf(sides)[side][p] = QueueAt(sides[side], p)
<1>1. \A side \in Sides, p \in Prices : QueueAt(sides[side], p) \in Seq(Order)
  BY SideOps, BookSideIsSide
<1>. QED
  BY <1>1 DEF DepthOf, Depth

(* Between two calls the queues of a book are those of its two sides.      *)
LEMMA UnparkedDepths ==
  parked = NoLevels => \A pair \in Pairs : Depths(pair) = DepthOf(levels[pair])
BY DEF Depths, DepthOf, Queue, AllLevels, QueueAt, Overlaid, NoLevels

(* ... and so they are after a step that ends, or starts, between two.     *)
LEMMA UnparkedDepthsNext ==
  parked' = NoLevels => \A pair \in Pairs : Depths(pair)' = DepthOf(levels'[pair])
BY DEF Depths, DepthOf, Queue, AllLevels, QueueAt, Overlaid, NoLevels

(* A step between two calls that thins out the sides of the books.         *)
LEMMA SidesThin ==
  ASSUME BookInv, Typed', parked = NoLevels, parked' = NoLevels, NEW ids,
         \A pair \in Pairs : \A side \in Sides, p \in Prices :
           Thins(DepthOf(levels'[pair])[side][p], DepthOf(levels[pair])[side][p], ids[pair])
  PROVE  ThinsBy(ids)
<1>1. ASSUME NEW pair \in Pairs, NEW side \in Sides, NEW p \in Prices
      PROVE  Thins(Queue(pair, side, p)', Queue(pair, side, p), ids[pair])
  <2>1. /\ Queue(pair, side, p) = DepthOf(levels[pair])[side][p]
        /\ Queue(pair, side, p)' = DepthOf(levels'[pair])[side][p]
    BY UnparkedDepths, UnparkedDepthsNext, DepthsType, DepthsTypedNext DEF BookInv, DepthsTyped
  <2>. QED
    BY <2>1
<1>. QED
  BY <1>1 DEF ThinsBy

(* A book that nothing happens to is thinned out by no ids.                *)
LEMMA SameSidesThin ==
  ASSUME NEW sides \in [Sides -> BookSide]
  PROVE  \A side \in Sides, p \in Prices :
           Thins(DepthOf(sides)[side][p], DepthOf(sides)[side][p], {})
BY DepthOfType, SameThins DEF Depth

(* An order that joins a side joins the end of the queue at its price.     *)
LEMMA InsertedDepth ==
  ASSUME NEW sides \in [Sides -> BookSide], NEW o \in Order, o.rem # 0
  PROVE  /\ [sides EXCEPT ![o.side] = Inserted(@, o)] \in [Sides -> BookSide]
         /\ DepthOf([sides EXCEPT ![o.side] = Inserted(@, o)])
              = [DepthOf(sides) EXCEPT ![o.side][o.price] = Append(@, o)]
<1>. DEFINE after == [sides EXCEPT ![o.side] = Inserted(@, o)]
            more  == [DepthOf(sides) EXCEPT ![o.side][o.price] = Append(@, o)]
<1>1. o.side \in Sides /\ o.price \in Prices
  BY DEF Order
<1>2. after \in [Sides -> BookSide]
  BY <1>1, InsertedIsSide, BookSideIsSide
<1>3. /\ DepthOf(sides) \in Depth
      /\ \A side \in Sides, p \in Prices : DepthOf(sides)[side][p] = QueueAt(sides[side], p)
  BY DepthOfType
<1>4. more \in Depth /\ \A side \in Sides, p \in Prices : more[side][p] =
        IF side = o.side /\ p = o.price THEN Append(DepthOf(sides)[side][p], o)
        ELSE DepthOf(sides)[side][p]
  BY <1>1, <1>3, AppendProperties DEF Depth
<1>5. \A f : \A p \in Prices : QueueAt(Inserted(f, o), p) =
        IF p = o.price THEN Append(QueueAt(f, p), o) ELSE QueueAt(f, p)
  BY QueueOfSet DEF Inserted
<1>6. \A side \in Sides : after[side] =
        IF side = o.side THEN Inserted(sides[side], o) ELSE sides[side]
  BY <1>1
<1>. HIDE DEF after, more
<1>7. /\ DepthOf(after) \in Depth
      /\ \A side \in Sides, p \in Prices : DepthOf(after)[side][p] = QueueAt(after[side], p)
  BY <1>2, DepthOfType
<1>8. ASSUME NEW side \in Sides, NEW p \in Prices
      PROVE  DepthOf(after)[side][p] = more[side][p]
  <2>1. /\ DepthOf(after)[side][p] = QueueAt(after[side], p)
        /\ DepthOf(sides)[side][p] = QueueAt(sides[side], p)
    BY <1>3, <1>7
  <2>2. CASE side = o.side
    <3>1. QueueAt(after[side], p) = IF p = o.price THEN Append(QueueAt(sides[side], p), o)
                                    ELSE QueueAt(sides[side], p)
      BY <1>5, <1>6, <2>2
    <3>. QED
      BY <1>4, <2>1, <2>2, <3>1
  <2>3. CASE side # o.side
    BY <1>4, <1>6, <2>1, <2>3
  <2>. QED
    BY <2>2, <2>3
<1>9. DepthOf(after) = more
  BY <1>4, <1>7, <1>8, SameDepths
<1>. QED
  BY <1>2, <1>9 DEF after, more

(* Answering the caller changes no book.                                   *)
LEMMA ReturnThins ==
  ASSUME BookInv, Return
  PROVE  ThinsBy(NoIds)
<1>1. /\ UNCHANGED <<levels, orders_map, parked>>
      /\ parked = NoLevels
  BY DEF BookInv, WalkOK, Return
<1>2. \A pair \in Pairs, side \in Sides, p \in Prices :
        Queue(pair, side, p)' = Queue(pair, side, p)
  BY <1>1, UnparkedQueue, UnparkedQueueNext DEF BookInv
<1>. QED
  BY <1>2, StayThins DEF BookInv

(* A step between two calls that leaves the books alone.                   *)
LEMMA BooksStay ==
  ASSUME BookInv, UNCHANGED bookVars, parked = NoLevels, parked' = NoLevels
  PROVE  /\ ThinsBy(NoIds)
         /\ \A pair \in Pairs : Depths(pair)' = Depths(pair)
<1>1. \A pair \in Pairs, side \in Sides, p \in Prices :
        Queue(pair, side, p)' = Queue(pair, side, p)
  BY UnparkedQueue, UnparkedQueueNext DEF BookInv, bookVars
<1>. QED
  BY <1>1, StayThins DEF BookInv, Depths

(* What an order that rests does to the queues and the maps.               *)
LEMMA AddOrderQueues ==
  ASSUME BookInv, NEW pair \in Pairs, NEW o \in NewOrder, AddOrder(pair, o),
         ~Refused(pair, o), Rests(o)
  PROVE  /\ o.id \notin DOMAIN orders_map[pair]
         /\ orders_map'[pair] = Remember(orders_map[pair], o)
         /\ Depths(pair)' = [Depths(pair) EXCEPT ![o.side][o.price] = Append(@, o)]
         /\ \A b \in Pairs : b # pair =>
              Depths(b)' = Depths(b) /\ orders_map'[b] = orders_map[b]
<1>1. /\ Typed /\ phase = "idle" /\ parked = NoLevels /\ parked' = NoLevels
      /\ levels \in Books /\ orders_map \in [Pairs -> OrdersMap]
  BY DEF BookInv, WalkOK, AddOrder, Typed
<1>2. /\ orders_map' = [orders_map EXCEPT ![pair] = Remember(@, o)]
      /\ levels' = [levels EXCEPT ![pair][o.side] = Inserted(@, o)]
      /\ o.id \notin DOMAIN orders_map[pair]
  BY DEF AddOrder, Refused
<1>3. o \in Order /\ o.rem # 0
  BY QuantitiesAssumption DEF NewOrder, Order
<1>4. /\ levels[pair] \in [Sides -> BookSide]
      /\ levels'[pair] = [levels[pair] EXCEPT ![o.side] = Inserted(@, o)]
      /\ \A b \in Pairs : b # pair => levels'[b] = levels[b]
  BY <1>1, <1>2 DEF Books
<1>5. DepthOf(levels'[pair]) = [DepthOf(levels[pair]) EXCEPT ![o.side][o.price] = Append(@, o)]
  BY <1>3, <1>4, InsertedDepth
<1>6. /\ \A b \in Pairs : Depths(b) = DepthOf(levels[b])
      /\ \A b \in Pairs : Depths(b)' = DepthOf(levels'[b])
  BY <1>1, UnparkedDepths, UnparkedDepthsNext
<1>7. Depths(pair)' = [Depths(pair) EXCEPT ![o.side][o.price] = Append(@, o)]
  BY <1>5, <1>6
<1>8. ASSUME NEW b \in Pairs, b # pair
      PROVE  Depths(b)' = Depths(b) /\ orders_map'[b] = orders_map[b]
  <2>1. DepthOf(levels'[b]) = DepthOf(levels[b]) /\ orders_map'[b] = orders_map[b]
    BY <1>1, <1>2, <1>4, <1>8
  <2>. QED
    BY <1>6, <2>1
<1>9. orders_map'[pair] = Remember(orders_map[pair], o)
  BY <1>1, <1>2
<1>. QED
  BY <1>2, <1>7, <1>8, <1>9

(* A resting order joins its queue and the map together, and an order that *)
(* is refused or never rests joins neither.                                *)
LEMMA AddOrderConsistent ==
  ASSUME BookInv, Typed', NEW pair \in Pairs, NEW o \in NewOrder, AddOrder(pair, o)
  PROVE  Consistent'
<1>1. /\ Typed /\ phase = "idle" /\ parked = NoLevels /\ parked' = NoLevels
      /\ orders_map \in [Pairs -> OrdersMap]
  BY DEF BookInv, WalkOK, AddOrder, Typed
<1>3. CASE UNCHANGED bookVars
  <2>1. ThinsBy(NoIds) /\ orders_map' = orders_map
    BY <1>1, <1>3, BooksStay DEF bookVars
  <2>. QED
    BY <2>1, RequeueConsistent
<1>4. CASE ~Refused(pair, o) /\ Rests(o)
  <2>1. o \in Order /\ o.rem # 0 /\ o.side \in Sides /\ o.price \in Prices
    BY QuantitiesAssumption DEF NewOrder, Order
  <2>2. /\ orders_map[pair] \in OrdersMap /\ Depths(pair) \in Depth
        /\ Agree(orders_map[pair], Depths(pair))
    BY <1>1, DepthsType DEF BookInv, Consistent
  <2>3. /\ o.id \notin DOMAIN orders_map[pair]
        /\ orders_map'[pair] = Remember(orders_map[pair], o)
        /\ Depths(pair)' = [Depths(pair) EXCEPT ![o.side][o.price] = Append(@, o)]
        /\ \A b \in Pairs : b # pair =>
             Depths(b)' = Depths(b) /\ orders_map'[b] = orders_map[b]
    BY <1>4, AddOrderQueues
  <2>4. Agree(Remember(orders_map[pair], o),
              [Depths(pair) EXCEPT ![o.side][o.price] = Append(@, o)])
    BY <1>4, <2>1, <2>2, <2>3, EnqueueAgrees
  <2>. QED
    BY <2>3, <2>4 DEF BookInv, Consistent
<1>. QED
  BY <1>3, <1>4 DEF AddOrder

(* The orders of a queue with an id.                                       *)
WithId(queue, id) == {queue[i] : i \in {j \in DOMAIN queue : queue[j].id = id}}

(* Cancelling an order takes it out of the queue at its price.             *)
LEMMA QueueOfRemoved ==
  ASSUME NEW f, NEW at, NEW id, NEW p
  PROVE  QueueAt(Removed(f, at, id), p) =
           IF p = at
           THEN Without(QueueAt(f, at), WithId(QueueAt(f, at), id))
           ELSE QueueAt(f, p)
<1>. DEFINE queue == QueueAt(f, at)
            kept  == Without(queue, WithId(queue, id))
<1>1. Removed(f, at, id) = IF kept = << >> THEN DropLevel(f, at) ELSE SetLevel(f, at, kept)
  BY DEF Removed, WithId
<1>2. QueueAt(Removed(f, at, id), p) = IF p = at THEN kept ELSE QueueAt(f, p)
  <2>. HIDE DEF kept
  <2>. QED
    BY <1>1 DEF QueueAt, DropLevel, SetLevel
<1>. QED
  BY <1>2

(* A side of a book whose map knows the order loses that order alone.      *)
LEMMA RemovedThins ==
  ASSUME NEW map \in OrdersMap, NEW sides \in [Sides -> BookSide],
         Agree(map, DepthOf(sides)), NEW id \in DOMAIN map
  PROVE  /\ map[id] \in Order
         /\ [sides EXCEPT ![map[id].side] = Removed(@, map[id].price, id)] \in [Sides -> BookSide]
         /\ \A side \in Sides, p \in Prices :
              Thins(DepthOf([sides EXCEPT ![map[id].side] =
                                Removed(@, map[id].price, id)])[side][p],
                    DepthOf(sides)[side][p], {id})
<1>. DEFINE o     == map[id]
            after == [sides EXCEPT ![o.side] = Removed(@, o.price, id)]
<1>1. o \in Order /\ o.side \in Sides /\ o.price \in Prices
  BY OrdersMapIsOrdersMap DEF IsOrdersMap, Order
<1>2. after \in [Sides -> BookSide]
  BY <1>1, RemovedIsSide, BookSideIsSide
<1>3. \A side \in Sides :
        after[side] = IF side = o.side THEN Removed(sides[side], o.price, id) ELSE sides[side]
  BY <1>1
<1>4. \A f : \A at, p \in Prices : QueueAt(Removed(f, at, id), p) =
        IF p = at THEN Without(QueueAt(f, at), WithId(QueueAt(f, at), id)) ELSE QueueAt(f, p)
  BY QueueOfRemoved
<1>5. /\ DepthOf(sides) \in Depth
      /\ \A side \in Sides, p \in Prices : DepthOf(sides)[side][p] = QueueAt(sides[side], p)
  BY DepthOfType
<1>. HIDE DEF after
<1>6. \A side \in Sides, p \in Prices : DepthOf(after)[side][p] = QueueAt(after[side], p)
  BY <1>2, DepthOfType
<1>. HIDE DEF o
<1>7. \A side \in Sides, p \in Prices : DepthOf(after)[side][p] =
        IF side = o.side /\ p = o.price
        THEN Without(DepthOf(sides)[side][p], WithId(DepthOf(sides)[side][p], id))
        ELSE DepthOf(sides)[side][p]
  BY <1>1, <1>3, <1>4, <1>5, <1>6
<1>8. ASSUME NEW side \in Sides, NEW p \in Prices
      PROVE  Thins(DepthOf(after)[side][p], DepthOf(sides)[side][p], {id})
  <2>. DEFINE queue == DepthOf(sides)[side][p]
  <2>1. queue \in Seq(Order)
    BY <1>5 DEF Depth
  <2>2. CASE side = o.side /\ p = o.price
    <3>1. DepthOf(after)[side][p] = Without(queue, WithId(queue, id))
      BY <1>7, <2>2
    <3>2. \A i \in DOMAIN queue : queue[i] \in WithId(queue, id) <=> queue[i].id \in {id}
      BY DEF WithId
    <3>. HIDE DEF queue
    <3>3. Thins(Without(queue, WithId(queue, id)), queue, {id})
      BY <2>1, <3>2, WithoutThins
    <3>. QED
      BY <3>1, <3>3 DEF queue
  <2>3. CASE ~(side = o.side /\ p = o.price)
    <3>1. DepthOf(after)[side][p] = queue
      BY <1>7, <2>3
    <3>2. \A i \in DOMAIN queue : Known(map, side, p, queue[i])
      BY DEF Agree, AllKnown
    <3>3. \A i \in DOMAIN queue : queue[i] \in Order
      BY <2>1, ElementOfSeq, LenProperties
    <3>. HIDE DEF queue
    <3>4. ASSUME NEW i \in DOMAIN queue, queue[i].id = id
          PROVE  FALSE
      <4>1. /\ queue[i].side = side /\ queue[i].price = p
            /\ map[id] = [queue[i] EXCEPT !.rem = map[id].rem]
        BY <3>2, <3>4 DEF Known
      <4>2. o.side = side /\ o.price = p
        BY <3>3, <4>1 DEF Order, o
      <4>. QED
        BY <2>3, <4>2
    <3>5. Thins(queue, queue, {id})
      BY <2>1, <3>4, SameThins
    <3>. QED
      BY <3>1, <3>5 DEF queue
  <2>. QED
    BY <2>2, <2>3
<1>. QED
  BY <1>1, <1>2, <1>8 DEF o, after

(* A cancelled order leaves the queues ...                                 *)
LEMMA CancelOrderThins ==
  ASSUME BookInv, Typed', NEW pair \in Pairs, NEW id \in OrderIds, CancelOrder(pair, id)
  PROVE  ThinsBy([b \in Pairs |-> IF b = pair THEN {id} ELSE {}])
<1>. DEFINE ids == [b \in Pairs |-> IF b = pair THEN {id} ELSE {}]
<1>1. /\ Typed /\ parked = NoLevels /\ parked' = NoLevels /\ id \in DOMAIN orders_map[pair]
      /\ levels \in Books /\ orders_map \in [Pairs -> OrdersMap]
  BY DEF BookInv, WalkOK, CancelOrder, callVars, Typed
<1>2. Agree(orders_map[pair], DepthOf(levels[pair]))
  BY <1>1, UnparkedDepths DEF BookInv, Consistent
<1>3. /\ levels' = [levels EXCEPT ![pair][orders_map[pair][id].side] =
                      Removed(@, orders_map[pair][id].price, id)]
  BY DEF CancelOrder
<1>4. /\ levels'[pair] = [levels[pair] EXCEPT ![orders_map[pair][id].side] =
                           Removed(@, orders_map[pair][id].price, id)]
      /\ \A b \in Pairs : b # pair => levels'[b] = levels[b]
      /\ \A b \in Pairs : levels[b] \in [Sides -> BookSide]
  BY <1>1, <1>3 DEF Books
<1>5. ASSUME NEW b \in Pairs
      PROVE  \A side \in Sides, p \in Prices :
               Thins(DepthOf(levels'[b])[side][p], DepthOf(levels[b])[side][p], ids[b])
  <2>1. CASE b = pair
    <3>1. \A side \in Sides, p \in Prices :
            Thins(DepthOf(levels'[b])[side][p], DepthOf(levels[b])[side][p], {id})
      BY <1>1, <1>2, <1>4, <2>1, RemovedThins
    <3>. QED
      BY <2>1, <3>1
  <2>2. CASE b # pair
    <3>1. \A side \in Sides, p \in Prices :
            Thins(DepthOf(levels'[b])[side][p], DepthOf(levels[b])[side][p], {})
      BY <1>4, <2>2, SameSidesThin
    <3>. QED
      BY <2>2, <3>1
  <2>. QED
    BY <2>1, <2>2
<1>. HIDE DEF ids
<1>6. ThinsBy(ids)
  BY <1>1, <1>5, SidesThin
<1>. QED
  BY <1>6 DEF ids

(* ... and the map together.                                               *)
LEMMA CancelOrderConsistent ==
  ASSUME BookInv, Typed', NEW pair \in Pairs, NEW id \in OrderIds, CancelOrder(pair, id)
  PROVE  Consistent'
<1>. DEFINE ids == [b \in Pairs |-> IF b = pair THEN {id} ELSE {}]
<1>1. orders_map' = [orders_map EXCEPT ![pair] = Forget(@, {id})]
  BY DEF CancelOrder
<1>2. \A b \in Pairs : orders_map'[b] = Forget(orders_map[b], ids[b])
  BY <1>1, ForgetNone DEF BookInv, Typed
<1>3. ThinsBy(ids)
  BY CancelOrderThins
<1>. HIDE DEF ids
<1>. QED
  BY <1>2, <1>3, ThinningConsistent

(* Cancelling a user's orders takes them out of every queue of the book.   *)
LEMMA QueueWithoutUser ==
  ASSUME NEW f, IsSide(f), NEW user, NEW p \in Prices
  PROVE  QueueAt(WithoutUser(f, user), p)
           = Without(QueueAt(f, p), {o \in Range(QueueAt(f, p)) : o.user = user})
<1>. DEFINE Gone(queue) == {o \in Range(queue) : o.user = user}
            Kept(t)     == Without(f[t], Gone(f[t]))
<1>1. WithoutUser(f, user) = [t \in {q \in DOMAIN f : Kept(q) # << >>} |-> Kept(t)]
  BY DEF WithoutUser
<1>2. Without(<< >>, Gone(<< >>)) = << >>
  <2>1. Len(<< >>) = 0
    BY EmptySeq
  <2>2. << >> \in Seq(Order)
    BY EmptySeq
  <2>. HIDE DEF Gone
  <2>3. Without(<< >>, Gone(<< >>)) \in Seq(Order)
    BY <2>2, WithoutKeeps
  <2>4. PICK pos \in [1..Len(Without(<< >>, Gone(<< >>))) -> 1..0] : TRUE
    BY <2>1, <2>2, WithoutKeeps
  <2>5. Len(Without(<< >>, Gone(<< >>))) = 0
    <3>1. Len(Without(<< >>, Gone(<< >>))) \in Nat
      BY <2>3, LenProperties
    <3>2. ASSUME 1 \in 1..Len(Without(<< >>, Gone(<< >>)))
          PROVE  FALSE
      <4>1. pos[1] \in 1..0
        BY <3>2
      <4>. QED
        BY <4>1
    <3>. QED
      BY <3>1, <3>2
  <2>. QED
    BY <2>3, <2>5, EmptySeq
<1>. HIDE DEF Gone
<1>3. QueueAt(WithoutUser(f, user), p) = Without(QueueAt(f, p), Gone(QueueAt(f, p)))
  BY <1>1, <1>2 DEF QueueAt
<1>. QED
  BY <1>3 DEF Gone

(* The ids of a user's orders in a book.                                   *)
IdsOf(map, user) == {id \in DOMAIN map : map[id].user = user}

(* The two sides of a book without a user's orders lose those alone.       *)
LEMMA WithoutUserThins ==
  ASSUME NEW map \in OrdersMap, NEW sides \in [Sides -> BookSide],
         Agree(map, DepthOf(sides)), NEW user
  PROVE  \A side \in Sides, p \in Prices :
           Thins(DepthOf([s \in Sides |-> WithoutUser(sides[s], user)])[side][p],
                 DepthOf(sides)[side][p], IdsOf(map, user))
<1>. DEFINE Gone(queue) == {o \in Range(queue) : o.user = user}
            after == [s \in Sides |-> WithoutUser(sides[s], user)]
            ids   == IdsOf(map, user)
<1>1. /\ DepthOf(sides) \in Depth
      /\ \A side \in Sides, p \in Prices : DepthOf(sides)[side][p] = QueueAt(sides[side], p)
  BY DepthOfType
<1>2. \A side \in Sides : IsSide(sides[side])
  BY BookSideIsSide
<1>. HIDE DEF Gone
<1>3. ASSUME NEW side \in Sides, NEW p \in Prices
      PROVE  DepthOf(after)[side][p]
               = Without(DepthOf(sides)[side][p], Gone(DepthOf(sides)[side][p]))
  <2>1. DepthOf(after)[side][p] = QueueAt(WithoutUser(sides[side], user), p)
    BY DEF DepthOf
  <2>2. QueueAt(WithoutUser(sides[side], user), p)
          = Without(QueueAt(sides[side], p), Gone(QueueAt(sides[side], p)))
    BY <1>2, QueueWithoutUser DEF Gone
  <2>. QED
    BY <1>1, <2>1, <2>2
<1>. HIDE DEF after
<1>4. ASSUME NEW side \in Sides, NEW p \in Prices
      PROVE  Thins(DepthOf(after)[side][p], DepthOf(sides)[side][p], ids)
  <2>. DEFINE queue == DepthOf(sides)[side][p]
  <2>1. queue \in Seq(Order)
    BY <1>1 DEF Depth
  <2>2. \A i \in DOMAIN queue : Known(map, side, p, queue[i])
    BY DEF Agree, AllKnown
  <2>3. \A i \in DOMAIN queue : queue[i] \in Order
    BY <2>1, ElementOfSeq, LenProperties
  <2>4. \A i \in DOMAIN queue : queue[i] \in Gone(queue) <=> queue[i].user = user
    BY DEF Range, Gone
  <2>. HIDE DEF queue
  <2>5. \A i \in DOMAIN queue : queue[i] \in Gone(queue) <=> queue[i].id \in ids
    BY <2>2, <2>3, <2>4 DEF Known, Order, IdsOf
  <2>. HIDE DEF ids
  <2>6. Thins(Without(queue, Gone(queue)), queue, ids)
    BY <2>1, <2>5, WithoutThins
  <2>. QED
    BY <1>3, <2>6 DEF queue
<1>. QED
  BY <1>4 DEF after

(* A user's orders leave the queues ...                                    *)
LEMMA CancelOrdersForUserThins ==
  ASSUME BookInv, Typed', NEW pair \in Pairs, NEW user \in Users,
         CancelOrdersForUser(pair, user)
  PROVE  ThinsBy([b \in Pairs |-> IF b = pair THEN IdsOf(orders_map[pair], user) ELSE {}])
<1>. DEFINE ids == [b \in Pairs |-> IF b = pair THEN IdsOf(orders_map[pair], user) ELSE {}]
<1>1. /\ Typed /\ parked = NoLevels /\ parked' = NoLevels
      /\ levels \in Books /\ orders_map \in [Pairs -> OrdersMap]
  BY DEF BookInv, WalkOK, CancelOrdersForUser, callVars, Typed
<1>2. Agree(orders_map[pair], DepthOf(levels[pair]))
  BY <1>1, UnparkedDepths DEF BookInv, Consistent
<1>3. levels' = [levels EXCEPT ![pair] =
                   [side \in Sides |-> WithoutUser(levels[pair][side], user)]]
  BY DEF CancelOrdersForUser
<1>4. /\ levels'[pair] = [s \in Sides |-> WithoutUser(levels[pair][s], user)]
      /\ \A b \in Pairs : b # pair => levels'[b] = levels[b]
      /\ \A b \in Pairs : levels[b] \in [Sides -> BookSide]
  BY <1>1, <1>3 DEF Books
<1>5. ASSUME NEW b \in Pairs
      PROVE  \A side \in Sides, p \in Prices :
               Thins(DepthOf(levels'[b])[side][p], DepthOf(levels[b])[side][p], ids[b])
  <2>1. CASE b = pair
    <3>1. \A side \in Sides, p \in Prices :
            Thins(DepthOf(levels'[b])[side][p], DepthOf(levels[b])[side][p],
                  IdsOf(orders_map[pair], user))
      BY <1>1, <1>2, <1>4, <2>1, WithoutUserThins
    <3>. QED
      BY <2>1, <3>1
  <2>2. CASE b # pair
    <3>1. \A side \in Sides, p \in Prices :
            Thins(DepthOf(levels'[b])[side][p], DepthOf(levels[b])[side][p], {})
      BY <1>4, <2>2, SameSidesThin
    <3>. QED
      BY <2>2, <3>1
  <2>. QED
    BY <2>1, <2>2
<1>. HIDE DEF ids
<1>6. ThinsBy(ids)
  BY <1>1, <1>5, SidesThin
<1>. QED
  BY <1>6 DEF ids

(* ... and the map together.                                               *)
LEMMA CancelOrdersForUserConsistent ==
  ASSUME BookInv, Typed', NEW pair \in Pairs, NEW user \in Users,
         CancelOrdersForUser(pair, user)
  PROVE  Consistent'
<1>. DEFINE ids == [b \in Pairs |-> IF b = pair THEN IdsOf(orders_map[pair], user) ELSE {}]
<1>1. orders_map' = [orders_map EXCEPT ![pair] = Forget(@, IdsOf(orders_map[pair], user))]
  BY DEF CancelOrdersForUser, IdsOf
<1>2. \A b \in Pairs : orders_map'[b] = Forget(orders_map[b], ids[b])
  BY <1>1, ForgetNone DEF BookInv, Typed
<1>3. ThinsBy(ids)
  BY CancelOrdersForUserThins
<1>. HIDE DEF ids
<1>. QED
  BY <1>2, <1>3, ThinningConsistent

(* What a fill does to the queues: it takes from the front of the opposite *)
(* one and, when the incoming order rests, from the front of its own.      *)
LEMMA FillQueues ==
  ASSUME BookInv, Fill,
         NEW qty, qty = Lesser(Head(SameQueue).rem, Head(OppQueue).rem)
  PROVE  /\ qty \in Nat /\ qty <= Head(SameQueue).rem /\ qty <= Head(OppQueue).rem
         /\ FillFront(SameQueue, qty) \in Seq(Order) /\ FillFront(OppQueue, qty) \in Seq(Order)
         /\ OppQueue = Queue(book, Opposite(taker.side), cursor.opp)
         /\ Rests(taker) => SameQueue = Queue(book, taker.side, cursor.same)
         /\ \A t \in Sides, p \in Prices :
              Queue(book, t, p)' =
                IF t = taker.side
                THEN IF Rests(taker) /\ p = cursor.same THEN FillFront(SameQueue, qty)
                     ELSE Queue(book, t, p)
                ELSE IF p = cursor.opp THEN FillFront(OppQueue, qty) ELSE Queue(book, t, p)
         /\ \A pair \in Pairs : pair # book =>
              \A t \in Sides, p \in Prices : Queue(pair, t, p)' = Queue(pair, t, p)
<1>. DEFINE side  == taker.side
            other == Opposite(taker.side)
            s     == cursor.same
            c     == cursor.opp
            same  == IF Rests(taker) THEN SetLevel(SameLevels, s, FillFront(SameQueue, qty))
                     ELSE SameLevels
            opp   == SetLevel(OppLevels, c, FillFront(OppQueue, qty))
<1>1. /\ Typed /\ phase = "level" /\ SameQueue # << >> /\ OppQueue # << >>
      /\ SameQueue \in Seq(Order) /\ OppQueue \in Seq(Order)
      /\ s \in Prices /\ c \in Prices /\ c \notin DOMAIN parked
      /\ OppQueue = Queue(book, other, c)
      /\ Rests(taker) => SameQueue = Queue(book, side, s)
  BY LevelTypes, LevelQueues DEF BookInv, Fill, InLevel
<1>2. taker \in Order
  BY <1>1, WalkTypes
<1>3. Head(SameQueue) \in Order /\ Head(OppQueue) \in Order
  BY <1>1, QueueOps
<1>4. qty \in Nat /\ qty <= Head(SameQueue).rem /\ qty <= Head(OppQueue).rem
  BY <1>3 DEF Lesser, Order
<1>5. FillFront(SameQueue, qty) \in Seq(Order) /\ FillFront(OppQueue, qty) \in Seq(Order)
  BY <1>1, <1>4, QueueOps
<1>6. same \in BookSide /\ opp \in BookSide
  BY <1>1, <1>5, WalkTypes, QueueStep
<1>7. /\ levels' = [levels EXCEPT ![book] = BookOf(same, opp)]
      /\ UNCHANGED <<book, parked>>
      /\ taker' = IF Rests(taker) THEN taker ELSE [taker EXCEPT !.rem = @ - qty]
  BY DEF Fill
<1>8. taker'.side = side
  BY <1>2, <1>7 DEF Order
<1>9. /\ \A p \in Prices : QueueAt(Overlaid(opp, parked), p)
           = IF p = c THEN FillFront(OppQueue, qty) ELSE QueueAt(Overlaid(OppLevels, parked), p)
      /\ \A p \in Prices : QueueAt(same, p)
           = IF Rests(taker) /\ p = s THEN FillFront(SameQueue, qty) ELSE QueueAt(SameLevels, p)
  BY <1>1, LevelReplaced
<1>. HIDE DEF same, opp
<1>10. /\ \A t \in Sides, p \in Prices :
            Queue(book, t, p)' = IF t = side THEN QueueAt(same, p)
                                 ELSE QueueAt(Overlaid(opp, parked), p)
       /\ \A pair \in Pairs : pair # book =>
            \A t \in Sides, p \in Prices : Queue(pair, t, p)' = Queue(pair, t, p)
  BY <1>1, <1>6, <1>7, <1>8, WalkStepQueue
<1>11. \A t \in Sides, p \in Prices :
         Queue(book, t, p)' =
           IF t = side
           THEN IF Rests(taker) /\ p = s THEN FillFront(SameQueue, qty) ELSE Queue(book, t, p)
           ELSE IF p = c THEN FillFront(OppQueue, qty) ELSE Queue(book, t, p)
  <2>. HIDE DEF s, c
  <2>1. \A t \in Sides, p \in Prices :
          Queue(book, t, p) = IF t = side THEN QueueAt(SameLevels, p)
                              ELSE QueueAt(Overlaid(OppLevels, parked), p)
    BY <1>1, WalkQueue
  <2>. QED
    BY <1>9, <1>10, <2>1
<1>. QED
  BY <1>1, <1>4, <1>5, <1>10, <1>11

(* A fill takes the same quantity from the front of two queues of the book,*)
(* or from one of them and the incoming order, which no queue holds.       *)
LEMMA FillConsistent ==
  ASSUME BookInv, Typed', Fill
  PROVE  Consistent'
<1>. DEFINE side     == taker.side
            other    == Opposite(taker.side)
            s        == cursor.same
            c        == cursor.opp
            map      == orders_map[book]
            incoming == Head(SameQueue)
            resting  == Head(OppQueue)
            qty      == Lesser(incoming.rem, resting.rem)
            ids      == {o.id : o \in {x \in {incoming, resting} : x.rem = qty}}
<1>1. /\ Typed /\ phase = "level" /\ SameQueue # << >> /\ OppQueue # << >>
      /\ s \in Prices /\ c \in Prices
  BY LevelTypes DEF BookInv, Fill, InLevel
<1>2. /\ book \in Pairs /\ taker \in Order /\ side \in Sides /\ other \in Sides
      /\ side # other /\ Sides = {side, other}
  BY <1>1, WalkTypes DEF Sides, Opposite
<1>3. /\ UNCHANGED <<book, parked>>
      /\ orders_map' = [orders_map EXCEPT ![book] = Forget(@, ids)]
  BY DEF Fill
<1>4. /\ qty \in Nat /\ qty <= incoming.rem /\ qty <= resting.rem
      /\ FillFront(SameQueue, qty) \in Seq(Order) /\ FillFront(OppQueue, qty) \in Seq(Order)
      /\ OppQueue = Queue(book, other, c)
      /\ Rests(taker) => SameQueue = Queue(book, side, s)
      /\ \A t \in Sides, p \in Prices :
           Queue(book, t, p)' =
             IF t = side
             THEN IF Rests(taker) /\ p = s THEN FillFront(SameQueue, qty) ELSE Queue(book, t, p)
             ELSE IF p = c THEN FillFront(OppQueue, qty) ELSE Queue(book, t, p)
      /\ \A pair \in Pairs : pair # book =>
           \A t \in Sides, p \in Prices : Queue(pair, t, p)' = Queue(pair, t, p)
  BY FillQueues
<1>5. /\ map \in OrdersMap /\ Depths(book) \in Depth /\ Agree(map, Depths(book))
      /\ \A t \in Sides, p \in Prices : Depths(book)[t][p] = Queue(book, t, p)
  BY <1>1, <1>2, <1>4, DepthsType DEF BookInv, Consistent, Typed
<1>6. /\ Depths(book)' \in Depth
      /\ \A t \in Sides, p \in Prices : Depths(book)'[t][p] = Queue(book, t, p)'
  BY <1>2, <1>3, DepthsTypedNext DEF DepthsTyped
<1>. HIDE DEF qty, s, c, map, incoming, resting
<1>. DEFINE once == [Depths(book) EXCEPT ![other][c] = FillFront(OppQueue, qty)]
            left == IF resting.rem = qty THEN Forget(map, {resting.id}) ELSE map
<1>7. /\ once \in Depth /\ left \in OrdersMap /\ Agree(left, once)
      /\ \A t \in Sides, p \in Prices :
           once[t][p] = IF t = other /\ p = c THEN FillFront(OppQueue, qty) ELSE Depths(book)[t][p]
  <2>1. Depths(book)[other][c] = OppQueue
    BY <1>1, <1>2, <1>4, <1>5
  <2>2. Agree(left, once)
    <3>1. Agree(IF Head(Depths(book)[other][c]).rem = qty
                THEN Forget(map, {Head(Depths(book)[other][c]).id}) ELSE map,
                [Depths(book) EXCEPT ![other][c] = FillFront(Depths(book)[other][c], qty)])
      <4>1. qty <= Head(Depths(book)[other][c]).rem
        BY <1>4, <2>1 DEF resting
      <4>. QED
        BY <1>1, <1>2, <1>4, <1>5, <2>1, <4>1, FillFrontAgrees
    <3>. QED
      BY <2>1, <3>1 DEF resting
  <2>3. left \in OrdersMap
    BY <1>5, OrdersMapOps
  <2>4. once \in Depth
    BY <1>2, <1>4, <1>5 DEF Depth
  <2>5. \A t \in Sides, p \in Prices :
          once[t][p] = IF t = other /\ p = c THEN FillFront(OppQueue, qty) ELSE Depths(book)[t][p]
    BY <1>2, <1>5 DEF Depth
  <2>. QED
    BY <2>2, <2>3, <2>4, <2>5
<1>. HIDE DEF once
<1>8. Agree(Forget(map, ids), Depths(book)')
  <2>1. CASE Rests(taker)
    <3>. DEFINE twice == [once EXCEPT ![side][s] = FillFront(SameQueue, qty)]
    <3>1. once[side][s] = SameQueue
      BY <1>1, <1>2, <1>4, <1>5, <1>7, <2>1
    <3>2. Agree(IF incoming.rem = qty THEN Forget(left, {incoming.id}) ELSE left, twice)
      <4>1. Agree(IF Head(once[side][s]).rem = qty
                  THEN Forget(left, {Head(once[side][s]).id}) ELSE left,
                  [once EXCEPT ![side][s] = FillFront(once[side][s], qty)])
        <5>1. qty <= Head(once[side][s]).rem
          BY <1>4, <3>1 DEF incoming
        <5>. HIDE DEF left
        <5>. QED
          BY <1>1, <1>2, <1>4, <1>7, <3>1, <5>1, FillFrontAgrees
      <4>. QED
        BY <3>1, <4>1 DEF incoming
    <3>3. twice \in Depth
      BY <1>2, <1>4, <1>7 DEF Depth
    <3>4. \A t \in Sides, p \in Prices :
            twice[t][p] = IF t = side /\ p = s THEN FillFront(SameQueue, qty) ELSE once[t][p]
      BY <1>2, <1>7 DEF Depth
    <3>. HIDE DEF twice
    <3>5. Depths(book)' = twice
      <4>1. ASSUME NEW t \in Sides, NEW p \in Prices
            PROVE  Depths(book)'[t][p] = twice[t][p]
        <5>1. CASE t = side
          BY <1>2, <1>4, <1>5, <1>6, <1>7, <2>1, <3>4, <5>1
        <5>2. CASE t = other
          BY <1>2, <1>4, <1>5, <1>6, <1>7, <2>1, <3>4, <5>2
        <5>. QED
          BY <1>2, <5>1, <5>2
      <4>. QED
        BY <1>6, <3>3, <4>1, SameDepths
    <3>6. Forget(map, ids) = IF incoming.rem = qty THEN Forget(left, {incoming.id}) ELSE left
      <4>1. DOMAIN map \subseteq OrderIds /\ map \in [DOMAIN map -> Order]
        BY <1>5, OrdersMapIsOrdersMap DEF IsOrdersMap
      <4>2. ids = (IF incoming.rem = qty THEN {incoming.id} ELSE {})
                  \cup (IF resting.rem = qty THEN {resting.id} ELSE {})
        OBVIOUS
      <4>. HIDE DEF ids
      <4>. QED
        BY <4>1, <4>2 DEF Forget
    <3>. QED
      BY <3>2, <3>5, <3>6
  <2>2. CASE ~Rests(taker)
    <3>1. incoming = taker /\ taker.id \notin DOMAIN map
      <4>1. SameQueue = <<taker>>
        BY <1>1, <1>4, <2>2 DEF SameQueue
      <4>. QED
        BY <1>1, <1>4, <2>2, <4>1 DEF BookInv, WalkOK, incoming, map
    <3>2. Depths(book)' = once
      <4>1. ASSUME NEW t \in Sides, NEW p \in Prices
            PROVE  Depths(book)'[t][p] = once[t][p]
        <5>1. CASE t = side
          BY <1>2, <1>4, <1>5, <1>6, <1>7, <2>2, <5>1
        <5>2. CASE t = other
          BY <1>2, <1>4, <1>5, <1>6, <1>7, <2>2, <5>2
        <5>. QED
          BY <1>2, <5>1, <5>2
      <4>. QED
        BY <1>6, <1>7, <4>1, SameDepths
    <3>3. Forget(map, ids) = left
      <4>1. DOMAIN map \subseteq OrderIds /\ map \in [DOMAIN map -> Order]
        BY <1>5, OrdersMapIsOrdersMap DEF IsOrdersMap
      <4>2. ids = (IF incoming.rem = qty THEN {incoming.id} ELSE {})
                  \cup (IF resting.rem = qty THEN {resting.id} ELSE {})
        OBVIOUS
      <4>. HIDE DEF ids
      <4>. QED
        BY <3>1, <4>1, <4>2 DEF Forget
    <3>. QED
      BY <1>7, <3>2, <3>3
  <2>. QED
    BY <2>1, <2>2
<1>. HIDE DEF ids
<1>9. \A pair \in Pairs : pair # book =>
        Depths(pair)' = Depths(pair) /\ orders_map'[pair] = orders_map[pair]
  <2>1. \A pair \in Pairs : pair # book => orders_map'[pair] = orders_map[pair]
    BY <1>1, <1>3, <1>4 DEF Typed
  <2>. QED
    BY <1>4, <2>1 DEF Depths
<1>10. orders_map'[book] = Forget(map, ids)
  BY <1>1, <1>2, <1>3, <1>4 DEF Typed, map
<1>. QED
  BY <1>3, <1>8, <1>9, <1>10 DEF BookInv, Consistent

-----------------------------------------------------------------------------
(* The call in progress                                                    *)

(* A step of the walk that creates no level on the opposite side and parks *)
(* nothing.                                                                *)
LEMMA StepKeepsApart ==
  ASSUME BookInv, phase \in {"walk", "level"}, parked' = parked,
         DOMAIN OppLevels' \subseteq DOMAIN OppLevels
  PROVE  ParkedApart'
BY DEF BookInv, WalkOK, ParkedApart

(* A step of the walk that is not a fill changes no map, and no queue but  *)
(* in its order.                                                           *)
LEMMA MatchThins ==
  ASSUME BookInv, Match, ~Fill
  PROVE  ThinsBy(NoIds) /\ orders_map' = orders_map
<1>1. ThinsBy(NoIds)
  BY EnterLevelThins, SkipRestingThins, PassTurnThins, ParkLevelThins, LeaveLevelThins,
     FinishThins DEF Match
<1>2. orders_map' = orders_map
  BY DEF Match, EnterLevel, SkipResting, PassTurn, ParkLevel, LeaveLevel, Finish
<1>. QED
  BY <1>1, <1>2

(* What a step does to the call in progress keeps the walk as it must be.  *)
LEMMA MatchWalkOK ==
  ASSUME BookInv, Typed', Match
  PROVE  WalkOK'
<1>1. Typed /\ WalkOK
  BY DEF BookInv
<1>2. phase \in {"walk", "level"} /\ book' = book
  BY DEF Match, EnterLevel, SkipResting, PassTurn, ParkLevel, Fill, LeaveLevel, Finish,
         SelfTrade, InLevel
<1>3. /\ book \in Pairs /\ taker \in Order
      /\ SameLevels \in BookSide /\ OppLevels \in BookSide
  BY <1>1, <1>2, WalkTypes
<1>4. CASE EnterLevel
  <2>1. UNCHANGED <<levels, orders_map, taker, parked>> /\ phase = "walk" /\ phase' = "level"
    BY <1>4 DEF EnterLevel
  <2>2. ParkedApart'
    BY <1>2, <2>1, StepKeepsApart DEF OppLevels
  <2>3. ~Rests(taker) => cursor'.same_len = 1
    BY <1>4 DEF EnterLevel
  <2>. QED
    BY <1>1, <1>2, <2>1, <2>2, <2>3 DEF WalkOK, Rests
<1>5. CASE SkipResting
  <2>. DEFINE opp == SetLevel(OppLevels, cursor.opp, Rotate(OppQueue))
  <2>1. /\ UNCHANGED <<orders_map, phase, taker, parked>> /\ phase = "level" /\ OppQueue # << >>
        /\ levels' = [levels EXCEPT ![book] = BookOf(SameLevels, opp)]
        /\ cursor' = [cursor EXCEPT !.skipped = @ + 1]
    BY <1>5 DEF SkipResting, SelfTrade, InLevel
  <2>2. opp \in BookSide /\ DOMAIN opp = DOMAIN OppLevels
    BY <1>1, <2>1, LevelTypes, QueueOps, QueueStep
  <2>3. OppLevels' = opp
    BY <1>1, <1>2, <1>3, <2>1, <2>2, WalkStep
  <2>4. ParkedApart'
    BY <1>2, <2>1, <2>2, <2>3, StepKeepsApart
  <2>5. cursor'.same_len = cursor.same_len
    BY <1>1, <2>1, LevelTypes DEF Cursor
  <2>. QED
    BY <1>1, <1>2, <2>1, <2>4, <2>5 DEF WalkOK, Rests
<1>6. CASE PassTurn
  <2>. DEFINE same == SetLevel(SameLevels, cursor.same, Rotate(SameQueue))
              opp  == SetLevel(OppLevels, cursor.opp, Rotate(OppQueue))
  <2>1. /\ UNCHANGED <<orders_map, phase, taker, parked>> /\ phase = "level"
        /\ SameQueue # << >> /\ OppQueue # << >>
        /\ levels' = [levels EXCEPT ![book] = BookOf(same, opp)]
        /\ cursor' = [cursor EXCEPT !.skipped = 0, !.rotated = @ + 1]
    BY <1>6 DEF PassTurn, SelfTrade, InLevel
  <2>2. same \in BookSide /\ opp \in BookSide /\ DOMAIN opp = DOMAIN OppLevels
    BY <1>1, <2>1, LevelTypes, QueueOps, QueueStep
  <2>3. OppLevels' = opp
    BY <1>1, <1>2, <2>1, <2>2, WalkStep
  <2>4. ParkedApart'
    BY <1>2, <2>1, <2>2, <2>3, StepKeepsApart
  <2>5. cursor'.same_len = cursor.same_len
    BY <1>1, <2>1, LevelTypes DEF Cursor
  <2>. QED
    BY <1>1, <1>2, <2>1, <2>4, <2>5 DEF WalkOK, Rests
<1>7. CASE ParkLevel
  <2>. DEFINE opp == DropLevel(OppLevels, cursor.opp)
  <2>1. /\ UNCHANGED <<orders_map, taker>> /\ phase = "level" /\ phase' = "walk"
        /\ levels' = [levels EXCEPT ![book] = BookOf(SameLevels, opp)]
        /\ parked' = SetLevel(parked, cursor.opp, Rotate(OppQueue))
    BY <1>7 DEF ParkLevel, SelfTrade, InLevel
  <2>2. opp \in BookSide
    BY <1>1, <1>3, <2>1, LevelTypes, SideOps, BookSideIsSide
  <2>3. OppLevels' = opp
    BY <1>1, <1>2, <1>3, <2>1, <2>2, WalkStep
  <2>4. /\ DOMAIN OppLevels' = DOMAIN OppLevels \ {cursor.opp}
        /\ DOMAIN parked' = DOMAIN parked \cup {cursor.opp}
    BY <2>1, <2>3 DEF DropLevel, SetLevel
  <2>5. ParkedApart'
    BY <1>1, <1>2, <2>4 DEF WalkOK, ParkedApart
  <2>. QED
    BY <1>1, <1>2, <2>1, <2>5 DEF WalkOK, Rests
<1>8. CASE Fill
  <2>. DEFINE qty  == Lesser(Head(SameQueue).rem, Head(OppQueue).rem)
              same == IF Rests(taker)
                      THEN SetLevel(SameLevels, cursor.same, FillFront(SameQueue, qty))
                      ELSE SameLevels
              opp  == SetLevel(OppLevels, cursor.opp, FillFront(OppQueue, qty))
  <2>1. /\ UNCHANGED <<phase, cursor, parked>> /\ phase = "level"
        /\ SameQueue # << >> /\ OppQueue # << >>
        /\ levels' = [levels EXCEPT ![book] = BookOf(same, opp)]
        /\ taker' = IF Rests(taker) THEN taker ELSE [taker EXCEPT !.rem = @ - qty]
    BY <1>8 DEF Fill, InLevel
  <2>2. PICK gone : orders_map' = [orders_map EXCEPT ![book] = Forget(@, gone)]
    BY <1>8 DEF Fill
  <2>3. qty \in Nat /\ qty <= Head(SameQueue).rem /\ qty <= Head(OppQueue).rem
    <3>1. Head(SameQueue) \in Order /\ Head(OppQueue) \in Order
      BY <1>1, <2>1, LevelTypes, QueueOps
    <3>. QED
      BY <3>1 DEF Lesser, Order
  <2>4. FillFront(SameQueue, qty) \in Seq(Order) /\ FillFront(OppQueue, qty) \in Seq(Order)
    BY <1>1, <2>1, <2>3, LevelTypes, QueueOps
  <2>5. same \in BookSide /\ opp \in BookSide /\ DOMAIN opp = DOMAIN OppLevels
    BY <1>1, <1>3, <2>1, <2>4, QueueStep
  <2>6. taker'.side = taker.side /\ taker'.id = taker.id /\ taker'.type = taker.type
    BY <1>3, <2>1 DEF Order
  <2>. HIDE DEF same, opp
  <2>7. OppLevels' = opp
    BY <1>1, <1>2, <2>1, <2>5, <2>6, WalkStep
  <2>8. ParkedApart'
    BY <1>2, <2>1, <2>5, <2>7, StepKeepsApart
  <2>9. DOMAIN orders_map'[book] \subseteq DOMAIN orders_map[book]
    BY <1>1, <1>3, <2>2 DEF Typed, Forget
  <2>. QED
    BY <1>1, <1>2, <2>1, <2>6, <2>8, <2>9 DEF WalkOK, Rests
<1>9. CASE LeaveLevel
  <2>. DEFINE same == IF Rests(taker) THEN Prune(SameLevels, cursor.same) ELSE SameLevels
              opp  == Prune(OppLevels, cursor.opp)
  <2>1. /\ UNCHANGED <<orders_map, taker, parked>> /\ phase = "level" /\ phase' = "walk"
        /\ levels' = [levels EXCEPT ![book] = BookOf(same, opp)]
    BY <1>9 DEF LeaveLevel
  <2>2. same \in BookSide /\ opp \in BookSide
    BY <1>1, <1>3, <2>1, LevelTypes, SideOps, BookSideIsSide
  <2>3. DOMAIN opp \subseteq DOMAIN OppLevels
    BY DEF Prune, DropLevel
  <2>. HIDE DEF same, opp
  <2>4. OppLevels' = opp
    BY <1>1, <1>2, <2>1, <2>2, WalkStep
  <2>5. ParkedApart'
    BY <1>2, <2>1, <2>3, <2>4, StepKeepsApart
  <2>. QED
    BY <1>1, <1>2, <2>1, <2>5 DEF WalkOK, Rests
<1>10. CASE Finish
  BY <1>10 DEF Finish, WalkOK, ParkedApart
<1>. QED
  BY <1>4, <1>5, <1>6, <1>7, <1>8, <1>9, <1>10 DEF Match

(* The inductive invariant is preserved by every step.                     *)
LEMMA NextBookInv == BookInv /\ [Next]_vars => BookInv'
<1>. SUFFICES ASSUME BookInv, [Next]_vars PROVE BookInv'
  OBVIOUS
<1>1. Typed /\ WalkOK /\ Typed'
  BY NextTyped DEF BookInv
<1>2. ASSUME NEW pair \in Pairs, NEW o \in NewOrder, AddOrder(pair, o)
      PROVE  BookInv'
  <2>1. parked' = NoLevels /\ phase' \in {"walk", "rejected"} /\ book' = pair /\ taker' = o
    BY <1>1, <1>2 DEF AddOrder, WalkOK
  <2>2. ParkedApart'
    BY <2>1 DEF ParkedApart, NoLevels
  <2>3. phase' = "walk" /\ ~Rests(o) => o.id \notin DOMAIN orders_map'[pair]
    BY <1>2 DEF AddOrder, Refused, bookVars
  <2>4. WalkOK'
    BY <2>1, <2>2, <2>3 DEF WalkOK, Rests
  <2>. QED
    BY <1>1, <1>2, <2>4, AddOrderConsistent DEF BookInv
<1>3. CASE Match
  <2>1. WalkOK'
    BY <1>1, <1>3, MatchWalkOK
  <2>2. Consistent'
    BY <1>1, <1>3, MatchThins, RequeueConsistent, FillConsistent
  <2>. QED
    BY <1>1, <2>1, <2>2 DEF BookInv
<1>4. CASE Return
  <2>1. WalkOK'
    BY <1>1, <1>4 DEF Return, WalkOK, ParkedApart
  <2>2. Consistent'
    BY <1>1, <1>4, ReturnThins, RequeueConsistent DEF Return
  <2>. QED
    BY <1>1, <2>1, <2>2 DEF BookInv
<1>5. ASSUME NEW pair \in Pairs, NEW id \in OrderIds, CancelOrder(pair, id)
      PROVE  BookInv'
  <2>1. WalkOK'
    BY <1>1, <1>5 DEF CancelOrder, callVars, WalkOK, ParkedApart
  <2>. QED
    BY <1>1, <1>5, <2>1, CancelOrderConsistent DEF BookInv
<1>6. ASSUME NEW pair \in Pairs, NEW user \in Users, CancelOrdersForUser(pair, user)
      PROVE  BookInv'
  <2>1. WalkOK'
    BY <1>1, <1>6 DEF CancelOrdersForUser, callVars, WalkOK, ParkedApart
  <2>. QED
    BY <1>1, <1>6, <2>1, CancelOrdersForUserConsistent DEF BookInv
<1>7. CASE UNCHANGED vars
  <2>1. WalkOK'
    BY <1>1, <1>7 DEF vars, WalkOK, ParkedApart, OppLevels, Rests
  <2>2. \A pair \in Pairs, side \in Sides, p \in Prices : Queue(pair, side, p)' = Queue(pair, side, p)
    BY <1>7 DEF vars, Queue, AllLevels
  <2>3. Consistent'
    BY <1>1, <1>7, <2>2, StayThins, RequeueConsistent DEF vars
  <2>. QED
    BY <1>1, <2>1, <2>3 DEF BookInv
<1>. QED
  BY <1>2, <1>3, <1>4, <1>5, <1>6, <1>7 DEF Next

(* BookInv holds in every state of every behaviour of the book.            *)
THEOREM BookInvariant == Spec => []BookInv
BY InitBookInv, NextBookInv, PTL DEF Spec

(* The flat map and the queues of the two sides tell the same story at     *)
(* every step of every operation: orders_map, bids_map and asks_map, kept  *)
(* in step by hand by add_order, match_order, match_against_opposite,      *)
(* cancel_order and cancel_orders_for_user, never disagree.                *)
THEOREM BookAlwaysAgrees == Spec => []BookAgrees
<1>1. BookInv => BookAgrees
  BY ConsistentIsBookAgrees DEF BookInv
<1>. QED
  BY BookInvariant, <1>1, PTL

(* Putting the levels parked by self-trade prevention back into the book   *)
(* at the end of a call overwrites no level.                               *)
THEOREM ParkedStaysApart == Spec => []ParkedApart
<1>1. BookInv => ParkedApart
  BY DEF BookInv, WalkOK
<1>. QED
  BY BookInvariant, <1>1, PTL
=============================================================================
