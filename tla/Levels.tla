-------------------------------- MODULE Levels --------------------------------
(***************************************************************************)
(* The containers of the order book: a side of a book is a map from the    *)
(* prices that have a level (the keys of a BTreeMap) to queues of orders   *)
(* (VecDeque), and the flat lookup is a map from ids to orders (HashMap).  *)
(* An order is a record with at least the fields id, price and rem.        *)
(***************************************************************************)
EXTENDS Integers, Sequences

NoLevels == [p \in {} |-> << >>]

SetLevel(side_levels, p, queue) ==
  [q \in DOMAIN side_levels \cup {p} |-> IF q = p THEN queue ELSE side_levels[q]]

(* Mutant of DropLevel: the level stays.                                   *)
LevelKept(side_levels, p) == side_levels

DropLevel(side_levels, p) ==
  [q \in DOMAIN side_levels \ {p} |-> side_levels[q]]

(* Mutant of Prune: empty levels stay.                                     *)
NothingPruned(side_levels, p) == side_levels

(* The side without the level at p if nothing is queued there any more.    *)
Prune(side_levels, p) ==
  IF side_levels[p] = << >> THEN DropLevel(side_levels, p) ELSE side_levels

QueueAt(side_levels, p) ==
  IF p \in DOMAIN side_levels THEN side_levels[p] ELSE << >>

(* pop_front followed by push_back.                                        *)
Rotate(queue) == Append(Tail(queue), Head(queue))

(* Mutant of FillFront: a filled order stays, with nothing left to fill.   *)
FillWithoutPop(queue, qty) == [queue EXCEPT ![1].rem = @ - qty]

(* The queue after its front order is filled by `qty': popped if that      *)
(* leaves it nothing to fill.                                              *)
FillFront(queue, qty) ==
  IF Head(queue).rem = qty
  THEN Tail(queue)
  ELSE [queue EXCEPT ![1].rem = @ - qty]

(* retain: the queue without the orders in `gone'.                         *)
Without(queue, gone) ==
  LET kept[n \in 0..Len(queue)] ==
        IF n = 0 THEN << >>
        ELSE IF queue[n] \in gone THEN kept[n - 1]
        ELSE Append(kept[n - 1], queue[n])
  IN  kept[Len(queue)]

(* The side once `o' has joined the end of the queue at its price.         *)
Inserted(side_levels, o) ==
  SetLevel(side_levels, o.price, Append(QueueAt(side_levels, o.price), o))

(* The side once the order `id' has left the level at price p, and the     *)
(* level with it if it was the last one there.                             *)
Removed(side_levels, p, id) ==
  LET queue == QueueAt(side_levels, p)
      kept  == Without(queue, {queue[i] : i \in {j \in DOMAIN queue : queue[j].id = id}})
  IN  IF kept = << >> THEN DropLevel(side_levels, p) ELSE SetLevel(side_levels, p, kept)

Forget(map, ids) == [id \in DOMAIN map \ ids |-> map[id]]

Remember(map, o) ==
  [id \in DOMAIN map \cup {o.id} |-> IF id = o.id THEN o ELSE map[id]]

(* Inserting the levels of `more' over those of a side.                    *)
Overlaid(side_levels, more) ==
  [p \in DOMAIN side_levels \cup DOMAIN more |->
     IF p \in DOMAIN more THEN more[p] ELSE side_levels[p]]

(* Mutant of Lesser: max for min.                                          *)
Greater(m, n) == IF m <= n THEN n ELSE m

Lesser(m, n) == IF m <= n THEN m ELSE n
=============================================================================
