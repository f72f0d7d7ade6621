------------------------------ MODULE WalkProofs ------------------------------
(***************************************************************************)
(* What a call of add_order does to the book it walks, for all values of   *)
(* the constants: no level is left empty, a fill-or-kill order that passes *)
(* its pre-check is filled, a fill-and-kill order takes all it can, what a *)
(* resting order leaves crossed has been passed by its own user's orders,  *)
(* every step is one the abstract matching engine allows, and the call     *)
(* comes to an end.                                                        *)
(***************************************************************************)
EXTENDS BookProofs

-----------------------------------------------------------------------------
(* Empty levels                                                            *)

(* A side has finitely many levels, none of them empty, or none but the    *)
(* one that is being matched.                                              *)
Finite(f) == IsFiniteSet(DOMAIN f)
Full(f) == \A p \in DOMAIN f : f[p] # << >>
FullBut(f, c) == \A p \in DOMAIN f : p # c => f[p] # << >>

(* What the operators on sides do to the number of their levels.           *)
LEMMA FiniteOps ==
  ASSUME NEW f, Finite(f), NEW g, Finite(g), NEW c, NEW queue
  PROVE  /\ Finite(SetLevel(f, c, queue)) /\ Finite(DropLevel(f, c))
         /\ Finite(Prune(f, c)) /\ Finite(Overlaid(f, g))
<1>1. IsFiniteSet(DOMAIN f \cup {c}) /\ IsFiniteSet(DOMAIN f \ {c})
  BY FS_AddElement, FS_Subset DEF Finite
<1>2. IsFiniteSet(DOMAIN f \cup DOMAIN g)
  BY FS_Union DEF Finite
<1>. QED
  BY <1>1, <1>2 DEF Finite, SetLevel, DropLevel, Prune, Overlaid

(* What they do to empty levels.                                           *)
LEMMA FullOps ==
  ASSUME NEW f, NEW g, NEW c, NEW queue
  PROVE  /\ Full(f) => FullBut(f, c)
         /\ Full(f) /\ queue # << >> => Full(SetLevel(f, c, queue))
         /\ FullBut(f, c) => /\ FullBut(SetLevel(f, c, queue), c)
                             /\ Full(DropLevel(f, c))
                             /\ c \in DOMAIN f => Full(Prune(f, c))
         /\ Full(f) => Full(DropLevel(f, c))
         /\ Full(f) /\ Full(g) => Full(Overlaid(f, g))
BY DEF Full, FullBut, SetLevel, DropLevel, Prune, Overlaid

(* The empty side has no level, and none that is empty.                    *)
LEMMA NoLevelsShape == Finite(NoLevels) /\ Full(NoLevels)
BY FS_EmptySet DEF Finite, Full, NoLevels

(* Placing, cancelling and cancelling a user's orders keep both.           *)
LEMMA CallShapes ==
  ASSUME NEW f, IsSide(f), Finite(f), Full(f)
  PROVE  /\ \A o \in Order : Finite(Inserted(f, o)) /\ Full(Inserted(f, o))
         /\ \A p \in Prices : \A id : Finite(Removed(f, p, id)) /\ Full(Removed(f, p, id))
         /\ \A user : Finite(WithoutUser(f, user)) /\ Full(WithoutUser(f, user))
<1>1. ASSUME NEW o \in Order
      PROVE  Finite(Inserted(f, o)) /\ Full(Inserted(f, o))
  <2>1. QueueAt(f, o.price) \in Seq(Order)
    BY SideOps DEF Order
  <2>2. Append(QueueAt(f, o.price), o) # << >>
    BY <2>1, AppendProperties
  <2>. QED
    BY <2>2, FiniteOps, FullOps DEF Inserted
<1>2. ASSUME NEW p \in Prices, NEW id
      PROVE  Finite(Removed(f, p, id)) /\ Full(Removed(f, p, id))
  <2>. DEFINE kept == Without(QueueAt(f, p), WithId(QueueAt(f, p), id))
  <2>1. Removed(f, p, id) = IF kept = << >> THEN DropLevel(f, p) ELSE SetLevel(f, p, kept)
    BY DEF Removed, WithId
  <2>. HIDE DEF kept
  <2>. QED
    BY <2>1, FiniteOps, FullOps
<1>3. ASSUME NEW user
      PROVE  Finite(WithoutUser(f, user)) /\ Full(WithoutUser(f, user))
  <2>1. DOMAIN WithoutUser(f, user) \subseteq DOMAIN f
    BY DEF WithoutUser
  <2>2. Finite(WithoutUser(f, user))
    BY <2>1, FS_Subset DEF Finite
  <2>. QED
    BY <2>2 DEF WithoutUser, Full
<1>. QED
  BY <1>1, <1>2, <1>3

(* The levels of the books, and of those the walk has set aside.           *)
LevelsOK ==
  /\ \A pair \in Pairs, side \in Sides : Finite(levels[pair][side])
  /\ Finite(parked) /\ Full(parked)
  /\ \A pair \in Pairs, side \in Sides :
       pair # book \/ phase # "level" => Full(levels[pair][side])
  /\ phase = "level" =>
       /\ FullBut(OppLevels, cursor.opp)
       /\ IF Rests(taker) THEN FullBut(SameLevels, cursor.same) ELSE Full(SameLevels)

(* A step of the walk that leaves the two sides it works on in order.      *)
LEMMA WalkStepLevels ==
  ASSUME Typed, phase # "idle", LevelsOK, NEW same \in BookSide, NEW opp \in BookSide,
         levels' = [levels EXCEPT ![book] = BookOf(same, opp)],
         book' = book, taker'.side = taker.side, taker'.type = taker.type,
         Finite(same), Finite(opp), Finite(parked'), Full(parked'),
         IF phase' = "level"
         THEN /\ FullBut(opp, cursor'.opp)
              /\ IF Rests(taker) THEN FullBut(same, cursor'.same) ELSE Full(same)
         ELSE Full(same) /\ Full(opp)
  PROVE  LevelsOK'
<1>1. SameLevels' = same /\ OppLevels' = opp
  BY WalkStep
<1>2. /\ book \in Pairs /\ Sides = {taker.side, Opposite(taker.side)}
      /\ BookOf(same, opp)[taker.side] = same
      /\ BookOf(same, opp)[Opposite(taker.side)] = opp
  BY WalkTypes, BookOfType DEF Sides, Opposite
<1>3. levels \in Books
  BY DEF Typed
<1>4. \A pair \in Pairs, side \in Sides :
        levels'[pair][side] = IF pair # book THEN levels[pair][side]
                              ELSE IF side = taker.side THEN same ELSE opp
  BY <1>2, <1>3 DEF Books
<1>5. \A pair \in Pairs, side \in Sides : Finite(levels'[pair][side])
  BY <1>4 DEF LevelsOK
<1>6. \A pair \in Pairs, side \in Sides :
        pair # book \/ phase' # "level" => Full(levels'[pair][side])
  BY <1>4 DEF LevelsOK
<1>. QED
  BY <1>1, <1>5, <1>6 DEF LevelsOK, Rests

(* A step outside the walk that leaves no level empty.                     *)
LEMMA QuietLevels ==
  ASSUME phase' # "level", parked' = NoLevels,
         \A pair \in Pairs, side \in Sides :
           Finite(levels'[pair][side]) /\ Full(levels'[pair][side])
  PROVE  LevelsOK'
BY NoLevelsShape DEF LevelsOK

-----------------------------------------------------------------------------
(* What an order can reach                                                 *)

(* Every order of a queue is the user's.                                   *)
AllOf(queue, user) == \A i \in DOMAIN queue : queue[i].user = user

(* What of Available is about the side and not about the book.             *)
Reached(f, o) == {p \in DOMAIN f : Crosses(o.side, o.price, p)}
Offered(f, o) == [p \in DOMAIN f |-> OthersQuantity(f[p], o.user)]
AvailableIn(f, o) == SumFunctionOnSet(Offered(f, o), Reached(f, o))

Others(queue, user) == {i \in DOMAIN queue : queue[i].user # user}
Quantity(queue) == [i \in DOMAIN queue |-> queue[i].rem]

(* Others and Quantity are what OthersQuantity sums up.                    *)
LEMMA OthersFinite ==
  ASSUME NEW queue \in Seq(Order), NEW user
  PROVE  /\ DOMAIN queue = 1..Len(queue) /\ Len(queue) \in Nat
         /\ IsFiniteSet(Others(queue, user))
         /\ \A i \in DOMAIN queue : queue[i] \in Order /\ Quantity(queue)[i] \in Nat
         /\ OthersQuantity(queue, user) = SumFunctionOnSet(Quantity(queue), Others(queue, user))
         /\ OthersQuantity(queue, user) \in Nat
<1>1. DOMAIN queue = 1..Len(queue) /\ Len(queue) \in Nat
  BY LenProperties
<1>2. IsFiniteSet(1..Len(queue))
  BY <1>1, FS_Interval
<1>3. IsFiniteSet(Others(queue, user))
  BY <1>1, <1>2, FS_Subset DEF Others
<1>4. ASSUME NEW i \in DOMAIN queue
      PROVE  queue[i] \in Order /\ Quantity(queue)[i] \in Nat
  <2>1. queue[i] \in Order
    BY <1>1, ElementOfSeq
  <2>. QED
    BY <2>1 DEF Quantity, Order
<1>5. OthersQuantity(queue, user) = SumFunctionOnSet(Quantity(queue), Others(queue, user))
  BY DEF OthersQuantity, Quantity, Others
<1>6. \A i \in Others(queue, user) : i \in DOMAIN queue
  BY DEF Others
<1>. QED
  BY <1>1, <1>3, <1>4, <1>5, <1>6, SumOfNaturals

(* A queue of the user's own orders, or of none, offers the user nothing.  *)
LEMMA OwnQuantity ==
  ASSUME NEW queue, NEW user, AllOf(queue, user)
  PROVE  OthersQuantity(queue, user) = 0
<1>1. {i \in DOMAIN queue : queue[i].user # user} = {}
  BY DEF AllOf
<1>. QED
  BY <1>1, SumOverNone DEF OthersQuantity

(* Rotating a queue takes nothing away from it.                            *)
LEMMA ThinningQuantity ==
  ASSUME NEW new \in Seq(Order), NEW old \in Seq(Order), NEW user, Thins(new, old, {})
  PROVE  OthersQuantity(old, user) <= OthersQuantity(new, user)
<1>1. PICK pos \in [1..Len(new) -> 1..Len(old)] :
        /\ \A i \in 1..Len(new) : new[i] = old[pos[i]]
        /\ \A m \in 1..Len(old) : \E i \in 1..Len(new) : pos[i] = m
  BY DEF Thins
<1>. DEFINE back == [m \in Others(old, user) |-> CHOOSE i \in 1..Len(new) : pos[i] = m]
<1>2. /\ DOMAIN new = 1..Len(new) /\ DOMAIN old = 1..Len(old)
      /\ IsFiniteSet(Others(new, user)) /\ IsFiniteSet(Others(old, user))
      /\ Others(new, user) \subseteq DOMAIN new /\ Others(old, user) \subseteq DOMAIN old
      /\ \A i \in DOMAIN new : Quantity(new)[i] \in Nat
      /\ \A i \in DOMAIN old : Quantity(old)[i] \in Nat
  BY OthersFinite DEF Others
<1>3. \A m \in Others(old, user) : back[m] \in 1..Len(new) /\ pos[back[m]] = m
  BY <1>1, <1>2
<1>. HIDE DEF back
<1>4. ASSUME NEW m \in Others(old, user)
      PROVE  back[m] \in Others(new, user) /\ Quantity(old)[m] <= Quantity(new)[back[m]]
  <2>1. new[back[m]] = old[m] /\ back[m] \in DOMAIN new /\ m \in DOMAIN old
    BY <1>1, <1>2, <1>3
  <2>2. back[m] \in Others(new, user)
    BY <2>1 DEF Others
  <2>3. Quantity(old)[m] = Quantity(new)[back[m]] /\ Quantity(old)[m] \in Nat
    BY <1>2, <2>1 DEF Quantity
  <2>. QED
    BY <2>2, <2>3
<1>5. back \in [Others(old, user) -> Others(new, user)]
  BY <1>4 DEF back
<1>6. \A m, n \in Others(old, user) : back[m] = back[n] => m = n
  BY <1>3
<1>7. SumFunctionOnSet(Quantity(old), Others(old, user))
        <= SumFunctionOnSet(Quantity(new), Others(new, user))
  BY <1>2, <1>4, <1>5, <1>6, SumAtMost
<1>. QED
  BY <1>7, OthersFinite

(* A fill takes no more than its quantity from what a queue offers.        *)
LEMMA FilledQuantity ==
  ASSUME NEW queue \in Seq(Order), queue # << >>, NEW user, Head(queue).user # user,
         NEW qty \in Nat, qty <= Head(queue).rem
  PROVE  OthersQuantity(queue, user) <= OthersQuantity(FillFront(queue, qty), user) + qty
<1>. DEFINE after == FillFront(queue, qty)
            rest  == Others(queue, user) \ {1}
<1>1. /\ after \in Seq(Order) /\ Head(queue) = queue[1] /\ queue[1] \in Order
      /\ Len(queue) # 0 /\ 1 \in DOMAIN queue
      /\ Tail(queue) \in Seq(Order) /\ Len(Tail(queue)) = Len(queue) - 1
      /\ \A i \in 1..(Len(queue) - 1) : Tail(queue)[i] = queue[i + 1]
  BY QueueOps, EmptySeq, LenProperties, HeadTailProperties, OthersFinite
<1>2. /\ DOMAIN queue = 1..Len(queue) /\ Len(queue) \in Nat
      /\ IsFiniteSet(Others(queue, user)) /\ IsFiniteSet(rest)
      /\ \A i \in Others(queue, user) : Quantity(queue)[i] \in Nat
      /\ 1 \in Others(queue, user)
      /\ Quantity(queue)[1] = queue[1].rem /\ queue[1].rem \in Nat
      /\ OthersQuantity(queue, user) = SumFunctionOnSet(Quantity(queue), Others(queue, user))
      /\ rest \subseteq DOMAIN queue
  <2>1. Others(queue, user) \subseteq DOMAIN queue /\ 1 \in Others(queue, user)
    BY <1>1 DEF Others
  <2>2. Quantity(queue)[1] = queue[1].rem /\ queue[1].rem \in Nat
    BY <1>1 DEF Quantity, Order
  <2>3. IsFiniteSet(Others(queue, user)) /\ IsFiniteSet(rest)
    BY OthersFinite, FS_Subset
  <2>. QED
    BY <2>1, <2>2, <2>3, OthersFinite
<1>3. SumFunctionOnSet(Quantity(queue), Others(queue, user))
        = queue[1].rem + SumFunctionOnSet(Quantity(queue), rest)
  BY <1>2, SumWithout
<1>4. SumFunctionOnSet(Quantity(queue), rest) \in Nat
  BY <1>2, SumOfNaturals
<1>5. OthersQuantity(after, user) \in Nat
  BY <1>1, OthersFinite
<1>6. CASE queue[1].rem = qty
  <2>1. after = Tail(queue)
    BY <1>1, <1>6 DEF FillFront
  <2>. DEFINE pos == [i \in rest |-> i - 1]
  <2>2. /\ DOMAIN after = 1..(Len(queue) - 1)
        /\ IsFiniteSet(Others(after, user))
        /\ \A i \in Others(after, user) : Quantity(after)[i] \in Nat
        /\ OthersQuantity(after, user) = SumFunctionOnSet(Quantity(after), Others(after, user))
    BY <1>1, <2>1, OthersFinite, LenProperties DEF Others
  <2>3. ASSUME NEW i \in rest
        PROVE  /\ i - 1 \in Others(after, user)
               /\ Quantity(queue)[i] = Quantity(after)[i - 1]
    <3>1. i \in 2..Len(queue) /\ i \in DOMAIN queue /\ queue[i].user # user
      BY <1>2 DEF Others
    <3>2. i - 1 \in 1..(Len(queue) - 1) /\ (i - 1) + 1 = i
      BY <1>2, <3>1
    <3>3. after[i - 1] = queue[i] /\ i - 1 \in DOMAIN after
      BY <1>1, <2>1, <2>2, <3>2
    <3>. QED
      BY <3>1, <3>3 DEF Others, Quantity
  <2>4. \A i \in rest : pos[i] = i - 1 /\ i \in Nat
    BY <1>2
  <2>5. pos \in [rest -> Others(after, user)] /\ \A i, j \in rest : pos[i] = pos[j] => i = j
    BY <2>3, <2>4
  <2>6. \A i \in rest : Quantity(queue)[i] \in Nat /\ Quantity(queue)[i] <= Quantity(after)[pos[i]]
    BY <1>2, <2>3, <2>4 DEF Others
  <2>. HIDE DEF pos, rest, after
  <2>7. SumFunctionOnSet(Quantity(queue), rest) <= SumFunctionOnSet(Quantity(after), Others(after, user))
    BY <1>2, <2>2, <2>5, <2>6, SumAtMost
  <2>8. OthersQuantity(queue, user) = qty + SumFunctionOnSet(Quantity(queue), rest)
    BY <1>2, <1>3, <1>6
  <2>9. SumFunctionOnSet(Quantity(queue), rest) <= OthersQuantity(after, user)
    BY <2>2, <2>7
  <2>10. OthersQuantity(queue, user) <= OthersQuantity(after, user) + qty
    BY <1>4, <1>5, <2>8, <2>9
  <2>. QED
    BY <2>10 DEF after
<1>7. CASE queue[1].rem # qty
  <2>1. /\ DOMAIN after = DOMAIN queue
        /\ after[1] = [queue[1] EXCEPT !.rem = @ - qty]
        /\ \A i \in DOMAIN queue : i # 1 => after[i] = queue[i]
    BY <1>1, <1>7 DEF FillFront
  <2>2. after[1].user = queue[1].user /\ after[1].rem = queue[1].rem - qty
    BY <1>1, <2>1 DEF Order
  <2>3. Others(after, user) = Others(queue, user)
    BY <2>1, <2>2 DEF Others
  <2>4. /\ \A i \in Others(after, user) : Quantity(after)[i] \in Nat
        /\ OthersQuantity(after, user) = SumFunctionOnSet(Quantity(after), Others(after, user))
    BY <1>1, OthersFinite DEF Others
  <2>5. SumFunctionOnSet(Quantity(after), Others(after, user))
          = Quantity(after)[1] + SumFunctionOnSet(Quantity(after), rest)
    BY <1>2, <2>3, <2>4, SumWithout
  <2>6. \A i \in rest : Quantity(after)[i] = Quantity(queue)[i]
    BY <1>2, <2>1 DEF Quantity
  <2>7. SumFunctionOnSet(Quantity(after), rest) = SumFunctionOnSet(Quantity(queue), rest)
    BY <1>2, <2>6, SumIsOfTheSame
  <2>8. Quantity(after)[1] = queue[1].rem - qty
    BY <1>1, <2>1, <2>2 DEF Quantity
  <2>. HIDE DEF after, rest
  <2>9. OthersQuantity(after, user) = (queue[1].rem - qty) + SumFunctionOnSet(Quantity(queue), rest)
    BY <2>4, <2>5, <2>7, <2>8
  <2>10. OthersQuantity(queue, user) = queue[1].rem + SumFunctionOnSet(Quantity(queue), rest)
    BY <1>2, <1>3
  <2>11. OthersQuantity(queue, user) <= OthersQuantity(after, user) + qty
    BY <1>2, <1>4, <2>9, <2>10
  <2>. QED
    BY <2>11 DEF after
<1>. QED
  BY <1>6, <1>7

(* What an order can reach, level c apart.                                 *)
LEMMA AvailableApart ==
  ASSUME NEW f \in BookSide, Finite(f), NEW o \in Order, NEW c
  PROVE  /\ AvailableIn(f, o) = SumFunctionOnSet(Offered(f, o), Reached(f, o) \ {c})
                               + IF Crosses(o.side, o.price, c)
                                 THEN OthersQuantity(QueueAt(f, c), o.user) ELSE 0
         /\ SumFunctionOnSet(Offered(f, o), Reached(f, o) \ {c}) \in Nat
         /\ OthersQuantity(QueueAt(f, c), o.user) \in Nat
         /\ AvailableIn(f, o) \in Nat
<1>. DEFINE rest == Reached(f, o) \ {c}
<1>1. /\ IsFiniteSet(Reached(f, o)) /\ IsFiniteSet(rest)
      /\ Reached(f, o) \subseteq DOMAIN f
  <2>1. Reached(f, o) \subseteq DOMAIN f
    BY DEF Reached
  <2>. QED
    BY <2>1, FS_Subset DEF Finite
<1>2. ASSUME NEW p \in DOMAIN f
      PROVE  Offered(f, o)[p] = OthersQuantity(f[p], o.user) /\ Offered(f, o)[p] \in Nat
  <2>1. f[p] \in Seq(Order)
    BY BookSideIsSide DEF IsSide
  <2>. QED
    BY <2>1, OthersFinite DEF Offered
<1>3. \A p \in Reached(f, o) : Offered(f, o)[p] \in Nat
  BY <1>1, <1>2
<1>4. /\ SumFunctionOnSet(Offered(f, o), rest) \in Nat
      /\ AvailableIn(f, o) \in Nat
  BY <1>1, <1>3, SumOfNaturals DEF AvailableIn
<1>5. CASE c \in Reached(f, o)
  <2>1. AvailableIn(f, o) = Offered(f, o)[c] + SumFunctionOnSet(Offered(f, o), rest)
    BY <1>1, <1>3, <1>5, SumWithout DEF AvailableIn
  <2>2. /\ QueueAt(f, c) = f[c] /\ Crosses(o.side, o.price, c)
        /\ Offered(f, o)[c] = OthersQuantity(f[c], o.user) /\ Offered(f, o)[c] \in Nat
    BY <1>2, <1>5 DEF Reached, QueueAt
  <2>. HIDE DEF rest
  <2>3. AvailableIn(f, o) = SumFunctionOnSet(Offered(f, o), rest) + OthersQuantity(QueueAt(f, c), o.user)
    BY <1>4, <2>1, <2>2
  <2>. QED
    BY <1>4, <2>2, <2>3 DEF rest
<1>6. CASE c \notin Reached(f, o)
  <2>1. rest = Reached(f, o)
    BY <1>6
  <2>2. CASE c \in DOMAIN f
    <3>1. /\ ~Crosses(o.side, o.price, c)
          /\ QueueAt(f, c) = f[c] /\ OthersQuantity(f[c], o.user) \in Nat
      BY <1>2, <1>6, <2>2 DEF Reached, QueueAt
    <3>. HIDE DEF rest
    <3>2. AvailableIn(f, o) = SumFunctionOnSet(Offered(f, o), rest) + 0
      BY <1>4, <2>1 DEF AvailableIn
    <3>. QED
      BY <1>4, <3>1, <3>2 DEF rest
  <2>3. CASE c \notin DOMAIN f
    <3>1. AllOf(QueueAt(f, c), o.user)
      BY <2>3 DEF QueueAt, AllOf
    <3>2. OthersQuantity(QueueAt(f, c), o.user) = 0
      BY <3>1, OwnQuantity
    <3>. HIDE DEF rest
    <3>3. AvailableIn(f, o) = SumFunctionOnSet(Offered(f, o), rest) + 0
      BY <1>4, <2>1 DEF AvailableIn
    <3>. QED
      BY <1>4, <3>2, <3>3 DEF rest
  <2>. QED
    BY <2>2, <2>3
<1>. QED
  BY <1>5, <1>6

(* If one level changes, what an order can reach changes by no more than   *)
(* what that level offers.                                                 *)
LEMMA AvailableChanges ==
  ASSUME NEW f \in BookSide, Finite(f), NEW g \in BookSide, Finite(g),
         NEW o \in Order, NEW c, NEW k \in Nat,
         DOMAIN f \ {c} = DOMAIN g \ {c}, \A p \in DOMAIN f : p # c => g[p] = f[p],
         OthersQuantity(QueueAt(f, c), o.user) <= OthersQuantity(QueueAt(g, c), o.user) + k
  PROVE  AvailableIn(f, o) <= AvailableIn(g, o) + k
<1>. DEFINE rest == Reached(f, o) \ {c}
<1>1. Reached(g, o) \ {c} = rest /\ rest \subseteq DOMAIN f /\ c \notin rest
  BY DEF Reached
<1>2. \A p \in rest : Offered(f, o)[p] = Offered(g, o)[p]
  BY <1>1 DEF Offered
<1>3. IsFiniteSet(rest)
  BY <1>1, FS_Subset DEF Finite
<1>. HIDE DEF rest
<1>4. SumFunctionOnSet(Offered(f, o), rest) = SumFunctionOnSet(Offered(g, o), rest)
  BY <1>2, <1>3, SumIsOfTheSame
<1>. DEFINE sum == SumFunctionOnSet(Offered(f, o), rest)
            before == OthersQuantity(QueueAt(f, c), o.user)
            after == OthersQuantity(QueueAt(g, c), o.user)
<1>5. /\ AvailableIn(f, o) = sum + IF Crosses(o.side, o.price, c) THEN before ELSE 0
      /\ AvailableIn(g, o) = sum + IF Crosses(o.side, o.price, c) THEN after ELSE 0
      /\ sum \in Nat /\ before \in Nat /\ after \in Nat
  BY <1>1, <1>4, AvailableApart DEF rest
<1>6. before <= after + k
  OBVIOUS
<1>. HIDE DEF sum, before, after
<1>. QED
  BY <1>5, <1>6

(* An order that reaches no level can take nothing.                        *)
LEMMA NothingReached ==
  ASSUME NEW f, NEW o, Reached(f, o) = {}
  PROVE  AvailableIn(f, o) = 0
BY SumOverNone DEF AvailableIn

-----------------------------------------------------------------------------
(* The best level                                                          *)

(* Of finitely many prices one is the best for a side.                     *)
LEMMA BestPrice ==
  ASSUME NEW S \in SUBSET Nat, IsFiniteSet(S), S # {}, NEW side
  PROVE  \E p \in S : \A q \in S : Crosses(side, p, q)
<1>. DEFINE Good == {T \in SUBSET S :
                       T # {} => \E p \in T : \A q \in T : Crosses(side, p, q)}
<1>1. ASSUME NEW T \in SUBSET S, \A x \in T : T \ {x} \in Good
      PROVE  T \in Good
  <2>1. SUFFICES ASSUME NEW x \in T
                 PROVE  \E p \in T : \A q \in T : Crosses(side, p, q)
    OBVIOUS
  <2>2. CASE T = {x}
    <3>1. Crosses(side, x, x)
      BY DEF Crosses
    <3>. QED
      BY <2>2, <3>1
  <2>3. CASE T # {x}
    <3>1. PICK p \in T \ {x} : \A q \in T \ {x} : Crosses(side, p, q)
      BY <1>1, <2>3
    <3>2. p \in Nat /\ x \in Nat /\ T \subseteq Nat
      OBVIOUS
    <3>3. CASE Crosses(side, p, x)
      <4>1. \A q \in T : Crosses(side, p, q)
        BY <3>1, <3>3
      <4>. QED
        BY <4>1
    <3>4. CASE ~Crosses(side, p, x)
      <4>1. ASSUME NEW q \in T
            PROVE  Crosses(side, x, q)
        <5>1. q = x \/ Crosses(side, p, q)
          BY <3>1
        <5>. QED
          BY <3>2, <3>4, <5>1 DEF Crosses
      <4>. QED
        BY <4>1
    <3>. QED
      BY <3>3, <3>4
  <2>. QED
    BY <2>2, <2>3
<1>. HIDE DEF Good
<1>2. SUBSET S \subseteq Good
  BY <1>1, SubsetsClosed
<1>. QED
  BY <1>2 DEF Good

(* A side that has a level has a best one.                                 *)
LEMMA BestExists ==
  ASSUME NEW f \in BookSide, Finite(f), DOMAIN f # {}, NEW side \in Sides
  PROVE  \E p \in DOMAIN f : IsBest(side, f, p)
<1>1. DOMAIN f \in SUBSET Nat /\ IsFiniteSet(DOMAIN f)
  BY PricesAssumption DEF BookSide, Finite
<1>2. \E p \in DOMAIN f : \A q \in DOMAIN f : Crosses(side, p, q)
  BY <1>1, BestPrice
<1>. QED
  BY <1>2 DEF IsBest

(* When the walk of an order that never rests ends with something left of  *)
(* the order, no level is left that the order reaches.                     *)
LEMMA WalkEndsOutOfReach ==
  ASSUME Typed, phase = "walk", Finite(OppLevels), ~Rests(taker), taker.rem > 0,
         ~\E same, opp \in Prices : NextLevels(same, opp)
  PROVE  Reached(OppLevels, taker) = {}
<1>1. SUFFICES ASSUME NEW p \in Reached(OppLevels, taker)
               PROVE  FALSE
  OBVIOUS
<1>2. /\ OppLevels \in BookSide /\ Opposite(taker.side) \in Sides
      /\ taker.side \in Sides /\ taker.price \in Prices
      /\ DOMAIN OppLevels \subseteq Prices
  BY WalkTypes DEF Order, BookSide
<1>3. p \in DOMAIN OppLevels /\ Crosses(taker.side, taker.price, p)
  BY <1>1 DEF Reached
<1>4. PICK best \in DOMAIN OppLevels : IsBest(Opposite(taker.side), OppLevels, best)
  BY <1>2, <1>3, BestExists
<1>5. Crosses(Opposite(taker.side), best, p)
  BY <1>3, <1>4 DEF IsBest
<1>6. p \in Nat /\ best \in Nat /\ taker.price \in Nat
  BY <1>2, <1>3, PricesAssumption
<1>7. Crosses(taker.side, taker.price, best)
  BY <1>2, <1>3, <1>5, <1>6 DEF Crosses, Opposite, Sides
<1>. QED
  BY <1>2, <1>4, <1>7 DEF NextLevels

-----------------------------------------------------------------------------
(* The invariant of the walk                                               *)

(* The levels that are being matched cross.                                *)
CrossOK == phase = "level" => Crosses(taker.side, cursor.same, cursor.opp)

(* The walk of an order that never rests: it has parked only orders of its *)
(* own user, those it has skipped stand at the end of the queue, and what  *)
(* is left of a fill-or-kill order is still there to be had.               *)
LoneOK ==
  phase \in {"walk", "level"} /\ ~Rests(taker) =>
    /\ \A p \in DOMAIN parked : AllOf(parked[p], taker.user)
    /\ taker.type = "FOK" => taker.rem <= AvailableIn(OppLevels, taker)
    /\ phase = "level" =>
         /\ cursor.same = taker.price
         /\ Len(OppQueue) <= cursor.opp_len
         /\ \A i \in DOMAIN OppQueue :
              i > Len(OppQueue) - cursor.skipped => OppQueue[i].user = taker.user

WalkInv == LevelsOK /\ CrossOK /\ LoneOK /\ FakTakesAllItCan

(* Entering a level: the queues are not empty and cross.                   *)
LEMMA EnterLevelWalk ==
  ASSUME BookInv, WalkInv, EnterLevel
  PROVE  WalkInv'
<1>1. Typed /\ LevelsOK /\ LoneOK
  BY DEF BookInv, WalkInv
<1>2. PICK same \in Prices, opp \in Prices :
        /\ NextLevels(same, opp)
        /\ cursor' = [same |-> same, opp |-> opp,
                      same_len |-> IF Rests(taker) THEN Len(SameLevels[same]) ELSE 1,
                      opp_len |-> Len(OppLevels[opp]),
                      skipped |-> 0, rotated |-> 0]
  BY DEF EnterLevel
<1>3. /\ phase = "walk" /\ phase' = "level"
      /\ UNCHANGED <<levels, orders_map, book, taker, parked, trades>>
  BY DEF EnterLevel
<1>4. /\ cursor'.same = same /\ cursor'.opp = opp /\ cursor'.skipped = 0
      /\ cursor'.opp_len = Len(OppLevels[opp])
  BY <1>2
<1>5. book \in Pairs /\ taker.side \in Sides /\ Opposite(taker.side) \in Sides
  BY <1>1, <1>3, WalkTypes
<1>6. OppLevels' = OppLevels /\ SameLevels' = SameLevels /\ OppQueue' = OppLevels[opp]
  BY <1>3, <1>4 DEF OppLevels, SameLevels, OppQueue
<1>7. Full(SameLevels) /\ Full(OppLevels)
  BY <1>1, <1>3, <1>5 DEF LevelsOK, SameLevels, OppLevels
<1>8. LevelsOK'
  BY <1>1, <1>3, <1>6, <1>7 DEF LevelsOK, FullBut, Full
<1>9. CrossOK'
  BY <1>2, <1>3, <1>4 DEF CrossOK, NextLevels
<1>10. LoneOK'
  <2>1. SUFFICES ASSUME ~Rests(taker) PROVE LoneOK'
    BY <1>3 DEF LoneOK, Rests
  <2>2. same = taker.price /\ opp \in DOMAIN OppLevels
    BY <1>2, <2>1 DEF NextLevels, IsBest
  <2>3. OppLevels[opp] \in Seq(Order)
    BY <1>1, <1>3, <2>2, WalkTypes DEF IsSide
  <2>4. DOMAIN OppLevels[opp] = 1..Len(OppLevels[opp]) /\ Len(OppLevels[opp]) \in Nat
    BY <2>3, LenProperties
  <2>5. \A i \in DOMAIN OppLevels[opp] : ~(i > Len(OppLevels[opp]) - 0)
    BY <2>4
  <2>. QED
    BY <1>1, <1>3, <1>4, <1>6, <2>1, <2>2, <2>4, <2>5 DEF LoneOK, Rests
<1>11. FakTakesAllItCan'
  BY <1>3 DEF FakTakesAllItCan
<1>. QED
  BY <1>8, <1>9, <1>10, <1>11 DEF WalkInv

(* What is common to the steps inside a level.                             *)
LEMMA LevelFacts ==
  ASSUME BookInv, WalkInv, phase = "level"
  PROVE  /\ Typed /\ LevelsOK /\ CrossOK /\ LoneOK
         /\ cursor \in Cursor /\ cursor.opp \in DOMAIN OppLevels
         /\ cursor.skipped \in Nat /\ cursor.rotated \in Nat /\ cursor.opp_len \in Nat
         /\ book \in Pairs /\ taker \in Order
         /\ SameLevels \in BookSide /\ OppLevels \in BookSide
         /\ Finite(SameLevels) /\ Finite(OppLevels)
         /\ Finite(parked) /\ Full(parked)
         /\ FullBut(OppLevels, cursor.opp)
         /\ IF Rests(taker) THEN FullBut(SameLevels, cursor.same) ELSE Full(SameLevels)
         /\ OppQueue \in Seq(Order) /\ SameQueue \in Seq(Order)
         /\ QueueAt(OppLevels, cursor.opp) = OppQueue
         /\ cursor.opp \notin DOMAIN parked
<1>1. /\ Typed /\ LevelsOK /\ CrossOK /\ LoneOK
  BY DEF BookInv, WalkInv
<1>2. /\ cursor \in Cursor /\ cursor.opp \in DOMAIN OppLevels
      /\ OppQueue \in Seq(Order) /\ SameQueue \in Seq(Order)
      /\ cursor.opp \notin DOMAIN parked
  BY <1>1, LevelTypes, LevelQueues
<1>3. /\ book \in Pairs /\ taker \in Order
      /\ taker.side \in Sides /\ Opposite(taker.side) \in Sides
      /\ SameLevels \in BookSide /\ OppLevels \in BookSide
  BY <1>1, WalkTypes
<1>4. Finite(SameLevels) /\ Finite(OppLevels)
  BY <1>1, <1>3 DEF LevelsOK, SameLevels, OppLevels
<1>. QED
  BY <1>1, <1>2, <1>3, <1>4 DEF LevelsOK, Cursor, QueueAt, OppQueue

(* Rotating a queue leaves it a queue of orders, with as many of them.     *)
LEMMA RotateShape ==
  ASSUME NEW queue \in Seq(Order), queue # << >>
  PROVE  /\ Rotate(queue) \in Seq(Order) /\ Rotate(queue) # << >>
         /\ Len(Rotate(queue)) = Len(queue) /\ Len(queue) \in Nat \ {0}
         /\ DOMAIN queue = 1..Len(queue) /\ DOMAIN Rotate(queue) = 1..Len(queue)
         /\ \A i \in 1..(Len(queue) - 1) : Rotate(queue)[i] = queue[i + 1]
         /\ Rotate(queue)[Len(queue)] = Head(queue) /\ Head(queue) = queue[1]
<1>1. /\ Head(queue) \in Order /\ Head(queue) = queue[1] /\ Tail(queue) \in Seq(Order)
      /\ Len(Tail(queue)) = Len(queue) - 1
      /\ \A i \in 1..(Len(queue) - 1) : Tail(queue)[i] = queue[i + 1]
  BY EmptySeq, HeadTailProperties
<1>2. Len(queue) \in Nat \ {0} /\ DOMAIN queue = 1..Len(queue)
  BY EmptySeq, LenProperties
<1>3. /\ Rotate(queue) \in Seq(Order) /\ Len(Rotate(queue)) = Len(queue)
      /\ \A i \in 1..(Len(queue) - 1) : Rotate(queue)[i] = queue[i + 1]
      /\ Rotate(queue)[Len(queue)] = Head(queue)
  BY <1>1, <1>2, AppendProperties DEF Rotate
<1>4. DOMAIN Rotate(queue) = 1..Len(queue)
  BY <1>3, LenProperties
<1>5. Rotate(queue) # << >>
  BY <1>2, <1>3, EmptySeq
<1>. QED
  BY <1>1, <1>2, <1>3, <1>4, <1>5

(* In a self-trade of an order that never rests, the order at the front of *)
(* the level is its own user's.                                            *)
LEMMA LoneSelfTrade ==
  ASSUME SelfTrade, ~Rests(taker)
  PROVE  Head(OppQueue).user = taker.user
<1>1. SameQueue = <<taker>>
  BY DEF SelfTrade, InLevel, SameQueue
<1>. QED
  BY <1>1 DEF SelfTrade

(* Skipping an order of the level.                                         *)
LEMMA SkipRestingWalk ==
  ASSUME BookInv, WalkInv, SkipResting
  PROVE  WalkInv'
<1>. DEFINE after == Rotate(OppQueue)
            opp   == SetLevel(OppLevels, cursor.opp, after)
<1>1. /\ phase = "level" /\ OppQueue # << >>
      /\ levels' = [levels EXCEPT ![book] = BookOf(SameLevels, opp)]
      /\ cursor' = [cursor EXCEPT !.skipped = @ + 1]
      /\ UNCHANGED <<orders_map, phase, book, taker, parked, trades>>
  BY DEF SkipResting, SelfTrade, InLevel
<1>2. /\ Typed /\ LevelsOK /\ CrossOK /\ LoneOK
      /\ cursor \in Cursor /\ cursor.opp \in DOMAIN OppLevels /\ cursor.skipped \in Nat
      /\ book \in Pairs /\ taker \in Order
      /\ SameLevels \in BookSide /\ OppLevels \in BookSide
      /\ Finite(SameLevels) /\ Finite(OppLevels) /\ Finite(parked) /\ Full(parked)
      /\ FullBut(OppLevels, cursor.opp)
      /\ IF Rests(taker) THEN FullBut(SameLevels, cursor.same) ELSE Full(SameLevels)
      /\ OppQueue \in Seq(Order) /\ QueueAt(OppLevels, cursor.opp) = OppQueue
  BY <1>1, LevelFacts
<1>3. /\ after \in Seq(Order) /\ after # << >>
      /\ Len(after) = Len(OppQueue) /\ Len(OppQueue) \in Nat \ {0}
      /\ DOMAIN OppQueue = 1..Len(OppQueue) /\ DOMAIN after = 1..Len(OppQueue)
      /\ \A i \in 1..(Len(OppQueue) - 1) : after[i] = OppQueue[i + 1]
      /\ after[Len(OppQueue)] = Head(OppQueue)
  BY <1>1, <1>2, RotateShape
<1>4. /\ cursor'.opp = cursor.opp /\ cursor'.same = cursor.same
      /\ cursor'.opp_len = cursor.opp_len /\ cursor'.skipped = cursor.skipped + 1
  BY <1>1, <1>2 DEF Cursor
<1>. HIDE DEF after
<1>5. opp \in BookSide /\ Finite(opp) /\ FullBut(opp, cursor.opp) /\ QueueAt(opp, cursor.opp) = after
  <2>1. opp \in BookSide
    BY <1>1, <1>2, <1>3, QueueStep
  <2>2. Finite(opp)
    BY <1>2, FiniteOps
  <2>3. FullBut(opp, cursor.opp)
    BY <1>2, FullOps
  <2>4. QueueAt(opp, cursor.opp) = after
    BY QueueOfSet
  <2>. QED
    BY <2>1, <2>2, <2>3, <2>4
<1>6. OppLevels' = opp /\ SameLevels' = SameLevels
  BY <1>1, <1>2, <1>5, WalkStep
<1>7. OppQueue' = after
  BY <1>2, <1>4, <1>6 DEF OppQueue, SetLevel
<1>8. LevelsOK'
  BY <1>1, <1>2, <1>4, <1>5, WalkStepLevels
<1>9. CrossOK'
  BY <1>1, <1>2, <1>4 DEF CrossOK
<1>10. ASSUME ~Rests(taker)
       PROVE  LoneOK'
  <2>1. Head(OppQueue).user = taker.user
    BY <1>10, LoneSelfTrade DEF SkipResting
  <2>2. Thins(after, OppQueue, {})
    BY <1>1, <1>2, RotateThins DEF after
  <2>3. OthersQuantity(OppQueue, taker.user) <= OthersQuantity(after, taker.user)
    BY <1>2, <1>3, <2>2, ThinningQuantity
  <2>4. OthersQuantity(OppQueue, taker.user) \in Nat /\ OthersQuantity(after, taker.user) \in Nat
    BY <1>2, <1>3, OthersFinite
  <2>5. OthersQuantity(OppQueue, taker.user) <= OthersQuantity(after, taker.user) + 0
    BY <2>3, <2>4
  <2>6. DOMAIN OppLevels \ {cursor.opp} = DOMAIN opp \ {cursor.opp}
        /\ \A p \in DOMAIN OppLevels : p # cursor.opp => opp[p] = OppLevels[p]
    BY DEF SetLevel
  <2>. HIDE DEF opp
  <2>7. AvailableIn(OppLevels, taker) <= AvailableIn(opp, taker) + 0
    BY <1>2, <1>5, <2>5, <2>6, AvailableChanges
  <2>8. /\ AvailableIn(OppLevels, taker) \in Nat /\ AvailableIn(opp, taker) \in Nat
        /\ taker.rem \in Nat
    BY <1>2, <1>5, AvailableApart DEF Order
  <2>9. taker.type = "FOK" => taker.rem <= AvailableIn(opp, taker)
    BY <1>1, <1>2, <1>10, <2>7, <2>8 DEF LoneOK
  <2>10. ASSUME NEW i \in DOMAIN after, i > Len(after) - (cursor.skipped + 1)
         PROVE  after[i].user = taker.user
    <3>1. CASE i = Len(OppQueue)
      BY <1>3, <2>1, <3>1
    <3>2. CASE i # Len(OppQueue)
      <4>1. /\ after[i] = OppQueue[i + 1] /\ i + 1 \in DOMAIN OppQueue
            /\ i + 1 > Len(OppQueue) - cursor.skipped
        BY <1>2, <1>3, <2>10, <3>2
      <4>. QED
        BY <1>1, <1>2, <1>10, <4>1 DEF LoneOK
    <3>. QED
      BY <3>1, <3>2
  <2>11. cursor.same = taker.price /\ Len(after) <= cursor.opp_len
         /\ \A p \in DOMAIN parked : AllOf(parked[p], taker.user)
    BY <1>1, <1>2, <1>3, <1>10 DEF LoneOK
  <2>. QED
    BY <1>1, <1>4, <1>6, <1>7, <2>9, <2>10, <2>11 DEF LoneOK, opp
<1>11. LoneOK'
  BY <1>1, <1>10 DEF LoneOK, Rests
<1>. QED
  BY <1>1, <1>8, <1>9, <1>11 DEF WalkInv, FakTakesAllItCan

(* Passing the turn to the next order of the incoming side, which an order *)
(* that never rests does not have.                                         *)
LEMMA PassTurnWalk ==
  ASSUME BookInv, WalkInv, PassTurn
  PROVE  WalkInv'
<1>. DEFINE same == SetLevel(SameLevels, cursor.same, Rotate(SameQueue))
            opp  == SetLevel(OppLevels, cursor.opp, Rotate(OppQueue))
<1>1. /\ phase = "level" /\ OppQueue # << >> /\ SameQueue # << >> /\ TurnsLeft
      /\ levels' = [levels EXCEPT ![book] = BookOf(same, opp)]
      /\ cursor' = [cursor EXCEPT !.skipped = 0, !.rotated = @ + 1]
      /\ UNCHANGED <<orders_map, phase, book, taker, parked, trades>>
  BY DEF PassTurn, SelfTrade, InLevel
<1>2. /\ Typed /\ LevelsOK /\ CrossOK
      /\ cursor \in Cursor /\ cursor.rotated \in Nat
      /\ SameLevels \in BookSide /\ OppLevels \in BookSide
      /\ Finite(SameLevels) /\ Finite(OppLevels) /\ Finite(parked) /\ Full(parked)
      /\ FullBut(OppLevels, cursor.opp)
      /\ IF Rests(taker) THEN FullBut(SameLevels, cursor.same) ELSE Full(SameLevels)
      /\ OppQueue \in Seq(Order) /\ SameQueue \in Seq(Order)
  BY <1>1, LevelFacts
<1>3. Rests(taker)
  <2>1. ~Rests(taker) => cursor.same_len = 1
    BY <1>1 DEF BookInv, WalkOK
  <2>. QED
    BY <1>1, <1>2, <2>1 DEF TurnsLeft
<1>4. Rotate(SameQueue) \in Seq(Order) /\ Rotate(OppQueue) \in Seq(Order)
  BY <1>1, <1>2, RotateShape
<1>5. cursor'.opp = cursor.opp /\ cursor'.same = cursor.same
  BY <1>1, <1>2 DEF Cursor
<1>6. /\ same \in BookSide /\ Finite(same) /\ FullBut(same, cursor.same)
      /\ opp \in BookSide /\ Finite(opp) /\ FullBut(opp, cursor.opp)
  BY <1>1, <1>2, <1>3, <1>4, QueueStep, FiniteOps, FullOps
<1>. HIDE DEF same, opp
<1>7. LevelsOK'
  BY <1>1, <1>2, <1>3, <1>5, <1>6, WalkStepLevels
<1>8. CrossOK'
  BY <1>1, <1>2, <1>5 DEF CrossOK
<1>. QED
  BY <1>1, <1>3, <1>7, <1>8 DEF WalkInv, FakTakesAllItCan, LoneOK, Rests

(* Setting a level of the user's own orders aside.                         *)
LEMMA ParkLevelWalk ==
  ASSUME BookInv, WalkInv, ParkLevel
  PROVE  WalkInv'
<1>. DEFINE after == Rotate(OppQueue)
            opp   == DropLevel(OppLevels, cursor.opp)
<1>1. /\ phase = "level" /\ phase' = "walk" /\ OppQueue # << >> /\ AllSkipped
      /\ levels' = [levels EXCEPT ![book] = BookOf(SameLevels, opp)]
      /\ parked' = SetLevel(parked, cursor.opp, after)
      /\ UNCHANGED <<orders_map, book, taker, trades>>
  BY DEF ParkLevel, SelfTrade, InLevel
<1>2. /\ Typed /\ LevelsOK /\ LoneOK
      /\ cursor.opp \in DOMAIN OppLevels /\ cursor.skipped \in Nat /\ cursor.opp_len \in Nat
      /\ book \in Pairs /\ taker \in Order
      /\ SameLevels \in BookSide /\ OppLevels \in BookSide
      /\ Finite(SameLevels) /\ Finite(OppLevels) /\ Finite(parked) /\ Full(parked)
      /\ FullBut(OppLevels, cursor.opp)
      /\ OppQueue \in Seq(Order) /\ QueueAt(OppLevels, cursor.opp) = OppQueue
  BY <1>1, LevelFacts
<1>3. /\ after \in Seq(Order) /\ after # << >>
      /\ Len(after) = Len(OppQueue) /\ Len(OppQueue) \in Nat \ {0}
      /\ DOMAIN OppQueue = 1..Len(OppQueue) /\ DOMAIN after = 1..Len(OppQueue)
      /\ \A i \in 1..(Len(OppQueue) - 1) : after[i] = OppQueue[i + 1]
      /\ after[Len(OppQueue)] = Head(OppQueue) /\ Head(OppQueue) = OppQueue[1]
  BY <1>1, <1>2, RotateShape
<1>. HIDE DEF after
<1>4. opp \in BookSide /\ Finite(opp) /\ Full(opp)
  <2>1. opp \in BookSide
    BY <1>1, <1>2, LevelTypes, SideOps, BookSideIsSide
  <2>2. Finite(opp) /\ Full(opp)
    BY <1>2, FiniteOps, FullOps
  <2>. QED
    BY <2>1, <2>2
<1>5. Finite(parked') /\ Full(parked')
  BY <1>1, <1>2, <1>3, FiniteOps, FullOps
<1>6. OppLevels' = opp
  BY <1>1, <1>2, <1>4, WalkStep
<1>7. Full(SameLevels)
  <2>1. CASE ~Rests(taker)
    BY <1>1, <2>1, LevelFacts
  <2>2. CASE Rests(taker)
    <3>1. /\ FullBut(SameLevels, cursor.same) /\ SameQueue # << >>
          /\ SameQueue = SameLevels[cursor.same]
      BY <1>1, <2>2, LevelFacts DEF ParkLevel, SelfTrade, InLevel, SameQueue
    <3>. QED
      BY <3>1 DEF Full, FullBut
  <2>. QED
    BY <2>1, <2>2
<1>8. LevelsOK'
  BY <1>1, <1>2, <1>4, <1>5, <1>7, WalkStepLevels
<1>9. ASSUME ~Rests(taker)
      PROVE  LoneOK'
  <2>1. Head(OppQueue).user = taker.user
    BY <1>9, LoneSelfTrade DEF ParkLevel
  <2>2. ASSUME NEW i \in DOMAIN OppQueue
        PROVE  OppQueue[i].user = taker.user
    <3>1. CASE i = 1
      BY <1>3, <2>1, <3>1
    <3>2. CASE i # 1
      <4>1. Len(OppQueue) <= cursor.skipped + 1
        BY <1>1, <1>2, <1>3, <1>9 DEF LoneOK, AllSkipped
      <4>2. i > Len(OppQueue) - cursor.skipped
        BY <1>2, <1>3, <3>2, <4>1
      <4>. QED
        BY <1>1, <1>2, <1>9, <4>2 DEF LoneOK
    <3>. QED
      BY <3>1, <3>2
  <2>3. AllOf(OppQueue, taker.user)
    BY <2>2 DEF AllOf
  <2>4. ASSUME NEW i \in DOMAIN after
        PROVE  after[i].user = taker.user
    <3>1. CASE i = Len(OppQueue)
      BY <1>3, <2>1, <3>1
    <3>2. CASE i # Len(OppQueue)
      <4>1. i \in 1..Len(OppQueue) /\ Len(OppQueue) \in Nat
        BY <1>3
      <4>2. i \in 1..(Len(OppQueue) - 1) /\ i + 1 \in 1..Len(OppQueue)
        BY <3>2, <4>1
      <4>. QED
        BY <1>3, <2>2, <4>2
    <3>. QED
      BY <3>1, <3>2
  <2>5. \A p \in DOMAIN parked' : AllOf(parked'[p], taker.user)
    BY <1>1, <1>2, <1>9, <2>4 DEF LoneOK, SetLevel, AllOf
  <2>6. AllOf(QueueAt(opp, cursor.opp), taker.user)
    BY DEF AllOf, QueueAt, DropLevel
  <2>7. OthersQuantity(OppQueue, taker.user) <= OthersQuantity(QueueAt(opp, cursor.opp), taker.user) + 0
    BY <2>3, <2>6, OwnQuantity
  <2>8. DOMAIN OppLevels \ {cursor.opp} = DOMAIN opp \ {cursor.opp}
        /\ \A p \in DOMAIN OppLevels : p # cursor.opp => opp[p] = OppLevels[p]
    BY DEF DropLevel
  <2>. HIDE DEF opp
  <2>9. AvailableIn(OppLevels, taker) <= AvailableIn(opp, taker) + 0
    BY <1>2, <1>4, <2>7, <2>8, AvailableChanges
  <2>10. /\ AvailableIn(OppLevels, taker) \in Nat /\ AvailableIn(opp, taker) \in Nat
         /\ taker.rem \in Nat
    BY <1>2, <1>4, AvailableApart DEF Order
  <2>11. taker.type = "FOK" => taker.rem <= AvailableIn(opp, taker)
    BY <1>1, <1>2, <1>9, <2>9, <2>10 DEF LoneOK
  <2>. QED
    BY <1>1, <1>6, <2>5, <2>11 DEF LoneOK, opp
<1>10. LoneOK'
  BY <1>1, <1>9 DEF LoneOK, Rests
<1>. QED
  BY <1>1, <1>8, <1>10 DEF WalkInv, FakTakesAllItCan, CrossOK

(* Only the side, the price and the user of an order say what it reaches.  *)
LEMMA SameReach ==
  ASSUME NEW f, NEW o, NEW other,
         o.side = other.side, o.price = other.price, o.user = other.user
  PROVE  AvailableIn(f, o) = AvailableIn(f, other)
<1>1. Reached(f, o) = Reached(f, other) /\ Offered(f, o) = Offered(f, other)
  BY DEF Reached, Offered
<1>. QED
  BY <1>1 DEF AvailableIn

(* What a fill leaves of a queue.                                          *)
LEMMA FillFrontShape ==
  ASSUME NEW queue \in Seq(Order), queue # << >>, NEW qty \in Nat, qty <= Head(queue).rem
  PROVE  /\ FillFront(queue, qty) \in Seq(Order)
         /\ Len(queue) \in Nat \ {0} /\ DOMAIN queue = 1..Len(queue)
         /\ \/ /\ Head(queue).rem = qty
               /\ DOMAIN FillFront(queue, qty) = 1..(Len(queue) - 1)
               /\ Len(FillFront(queue, qty)) = Len(queue) - 1
               /\ \A i \in 1..(Len(queue) - 1) : FillFront(queue, qty)[i] = queue[i + 1]
            \/ /\ Head(queue).rem # qty
               /\ DOMAIN FillFront(queue, qty) = 1..Len(queue)
               /\ Len(FillFront(queue, qty)) = Len(queue)
               /\ FillFront(queue, qty)[1] = [queue[1] EXCEPT !.rem = @ - qty]
               /\ \A i \in 2..Len(queue) : FillFront(queue, qty)[i] = queue[i]
<1>1. /\ FillFront(queue, qty) \in Seq(Order) /\ Head(queue) = queue[1]
      /\ Len(queue) \in Nat \ {0} /\ DOMAIN queue = 1..Len(queue)
      /\ Tail(queue) \in Seq(Order) /\ Len(Tail(queue)) = Len(queue) - 1
      /\ \A i \in 1..(Len(queue) - 1) : Tail(queue)[i] = queue[i + 1]
  BY QueueOps, EmptySeq, LenProperties, HeadTailProperties
<1>2. CASE Head(queue).rem = qty
  BY <1>1, <1>2, LenProperties DEF FillFront
<1>3. CASE Head(queue).rem # qty
  <2>1. FillFront(queue, qty) = [queue EXCEPT ![1].rem = @ - qty]
    BY <1>3 DEF FillFront
  <2>2. /\ DOMAIN FillFront(queue, qty) = 1..Len(queue)
        /\ FillFront(queue, qty)[1] = [queue[1] EXCEPT !.rem = @ - qty]
        /\ \A i \in 2..Len(queue) : FillFront(queue, qty)[i] = queue[i]
    BY <1>1, <2>1
  <2>3. Len(FillFront(queue, qty)) = Len(queue)
    BY <1>1, <2>2, LenProperties
  <2>. QED
    BY <1>1, <1>3, <2>2, <2>3
<1>. QED
  BY <1>2, <1>3

(* What a fill takes, and from whom.                                       *)
LEMMA FillFacts ==
  ASSUME BookInv, Fill,
         NEW qty, qty = Lesser(Head(SameQueue).rem, Head(OppQueue).rem)
  PROVE  /\ phase = "level" /\ SameQueue # << >> /\ OppQueue # << >>
         /\ SameQueue \in Seq(Order) /\ OppQueue \in Seq(Order)
         /\ Head(SameQueue) \in Order /\ Head(OppQueue) \in Order
         /\ Head(SameQueue).user # Head(OppQueue).user
         /\ qty \in Nat /\ qty \in {Head(SameQueue).rem, Head(OppQueue).rem}
         /\ qty <= Head(SameQueue).rem /\ qty <= Head(OppQueue).rem
         /\ ~Rests(taker) => SameQueue = <<taker>> /\ Head(SameQueue) = taker
         /\ taker'.side = taker.side /\ taker'.type = taker.type /\ taker'.price = taker.price
         /\ taker'.user = taker.user /\ taker'.id = taker.id
         /\ IF Rests(taker) THEN taker' = taker ELSE taker'.rem = taker.rem - qty
<1>1. phase = "level" /\ SameQueue # << >> /\ OppQueue # << >>
  BY DEF Fill, InLevel
<1>2. /\ SameQueue \in Seq(Order) /\ OppQueue \in Seq(Order) /\ taker \in Order
  BY <1>1, LevelTypes, WalkTypes DEF BookInv
<1>3. Head(SameQueue) \in Order /\ Head(OppQueue) \in Order
  BY <1>1, <1>2, QueueOps
<1>4. /\ qty \in Nat /\ qty \in {Head(SameQueue).rem, Head(OppQueue).rem}
      /\ qty <= Head(SameQueue).rem /\ qty <= Head(OppQueue).rem
  BY <1>3 DEF Lesser, Order
<1>5. ~Rests(taker) => SameQueue = <<taker>> /\ Head(SameQueue) = taker
  BY <1>1 DEF SameQueue
<1>6. Head(SameQueue).user # Head(OppQueue).user
  BY <1>1 DEF Fill, SelfTrade, InLevel
<1>7. taker' = IF Rests(taker) THEN taker ELSE [taker EXCEPT !.rem = @ - qty]
  BY DEF Fill
<1>8. /\ taker'.side = taker.side /\ taker'.type = taker.type /\ taker'.price = taker.price
      /\ taker'.user = taker.user /\ taker'.id = taker.id
      /\ IF Rests(taker) THEN taker' = taker ELSE taker'.rem = taker.rem - qty
  BY <1>2, <1>7 DEF Order
<1>. QED
  BY <1>1, <1>2, <1>3, <1>4, <1>5, <1>6, <1>8

(* A fill takes as much off the incoming order as off what it can reach.   *)
LEMMA FillWalk ==
  ASSUME BookInv, WalkInv, Fill
  PROVE  WalkInv'
<1>. DEFINE qty   == Lesser(Head(SameQueue).rem, Head(OppQueue).rem)
            after == FillFront(OppQueue, qty)
            same  == IF Rests(taker)
                     THEN SetLevel(SameLevels, cursor.same, FillFront(SameQueue, qty))
                     ELSE SameLevels
            opp   == SetLevel(OppLevels, cursor.opp, after)
<1>1. /\ phase = "level" /\ SameQueue # << >> /\ OppQueue # << >>
      /\ levels' = [levels EXCEPT ![book] = BookOf(same, opp)]
      /\ UNCHANGED <<phase, book, cursor, parked>>
  BY DEF Fill, InLevel
<1>2. /\ Typed /\ LevelsOK /\ CrossOK /\ LoneOK
      /\ cursor.opp \in DOMAIN OppLevels /\ cursor.skipped \in Nat /\ cursor.opp_len \in Nat
      /\ book \in Pairs /\ taker \in Order
      /\ SameLevels \in BookSide /\ OppLevels \in BookSide
      /\ Finite(SameLevels) /\ Finite(OppLevels) /\ Finite(parked) /\ Full(parked)
      /\ FullBut(OppLevels, cursor.opp)
      /\ IF Rests(taker) THEN FullBut(SameLevels, cursor.same) ELSE Full(SameLevels)
      /\ OppQueue \in Seq(Order) /\ SameQueue \in Seq(Order)
      /\ QueueAt(OppLevels, cursor.opp) = OppQueue
  BY <1>1, LevelFacts
<1>3. /\ Head(SameQueue) \in Order /\ Head(OppQueue) \in Order
      /\ Head(SameQueue).user # Head(OppQueue).user
      /\ qty \in Nat /\ qty <= Head(SameQueue).rem /\ qty <= Head(OppQueue).rem
      /\ ~Rests(taker) => SameQueue = <<taker>> /\ Head(SameQueue) = taker
      /\ taker'.side = taker.side /\ taker'.type = taker.type /\ taker'.price = taker.price
      /\ taker'.user = taker.user
      /\ IF Rests(taker) THEN taker' = taker ELSE taker'.rem = taker.rem - qty
  BY FillFacts
<1>. HIDE DEF qty
<1>4. FillFront(SameQueue, qty) \in Seq(Order) /\ after \in Seq(Order)
  BY <1>1, <1>2, <1>3, QueueOps
<1>5. same \in BookSide /\ Finite(same)
  BY <1>1, <1>2, <1>4, QueueStep, FiniteOps
<1>6. opp \in BookSide /\ Finite(opp)
  BY <1>1, <1>2, <1>4, QueueStep, FiniteOps
<1>7. FullBut(opp, cursor.opp)
  BY <1>2, FullOps
<1>8. IF Rests(taker) THEN FullBut(same, cursor.same) ELSE Full(same)
  BY <1>2, FullOps
<1>9. QueueAt(opp, cursor.opp) = after
  BY QueueOfSet
<1>10. /\ \A p \in DOMAIN OppLevels : p # cursor.opp => opp[p] = OppLevels[p]
       /\ DOMAIN OppLevels \ {cursor.opp} = DOMAIN opp \ {cursor.opp}
       /\ cursor.opp \in DOMAIN opp /\ opp[cursor.opp] = after
  BY DEF SetLevel
<1>. HIDE DEF same, opp, after
<1>11. OppLevels' = opp
  BY <1>1, <1>2, <1>3, <1>5, <1>6, WalkStep
<1>12. OppQueue' = after
  BY <1>1, <1>10, <1>11 DEF OppQueue
<1>13. LevelsOK'
  BY <1>1, <1>2, <1>3, <1>5, <1>6, <1>7, <1>8, WalkStepLevels
<1>14. CrossOK'
  BY <1>1, <1>2, <1>3 DEF CrossOK
<1>15. ASSUME ~Rests(taker)
       PROVE  LoneOK'
  <2>1. Head(OppQueue).user # taker.user
    BY <1>3, <1>15
  <2>2. OthersQuantity(OppQueue, taker.user) <= OthersQuantity(after, taker.user) + qty
    BY <1>1, <1>2, <1>3, <2>1, FilledQuantity DEF after
  <2>3. AvailableIn(OppLevels, taker) <= AvailableIn(opp, taker) + qty
    BY <1>2, <1>3, <1>6, <1>9, <1>10, <2>2, AvailableChanges
  <2>4. /\ AvailableIn(OppLevels, taker) \in Nat /\ AvailableIn(opp, taker) \in Nat
        /\ taker.rem \in Nat
    BY <1>2, <1>6, AvailableApart DEF Order
  <2>5. AvailableIn(opp, taker') = AvailableIn(opp, taker)
    BY <1>3, SameReach
  <2>6. taker'.type = "FOK" => taker'.rem <= AvailableIn(opp, taker')
    <3>1. taker.type = "FOK" => taker.rem <= AvailableIn(OppLevels, taker)
      BY <1>1, <1>2, <1>15 DEF LoneOK
    <3>2. taker'.rem = taker.rem - qty
      BY <1>3, <1>15
    <3>. QED
      BY <1>3, <2>3, <2>4, <2>5, <3>1, <3>2
  <2>7. /\ cursor.same = taker.price /\ Len(OppQueue) <= cursor.opp_len
        /\ \A i \in DOMAIN OppQueue :
             i > Len(OppQueue) - cursor.skipped => OppQueue[i].user = taker.user
        /\ \A p \in DOMAIN parked : AllOf(parked[p], taker.user)
    BY <1>1, <1>2, <1>15 DEF LoneOK
  <2>8. /\ Len(OppQueue) \in Nat \ {0} /\ DOMAIN OppQueue = 1..Len(OppQueue)
        /\ \/ /\ DOMAIN after = 1..(Len(OppQueue) - 1)
              /\ Len(after) = Len(OppQueue) - 1
              /\ \A i \in 1..(Len(OppQueue) - 1) : after[i] = OppQueue[i + 1]
           \/ /\ DOMAIN after = 1..Len(OppQueue)
              /\ Len(after) = Len(OppQueue)
              /\ after[1] = [OppQueue[1] EXCEPT !.rem = @ - qty]
              /\ \A i \in 2..Len(OppQueue) : after[i] = OppQueue[i]
    BY <1>1, <1>2, <1>3, FillFrontShape DEF after
  <2>. DEFINE len == Len(OppQueue)
  <2>9. Len(after) <= cursor.opp_len
    <3>1. len \in Nat /\ Len(after) \in {len - 1, len} /\ len <= cursor.opp_len
      BY <2>7, <2>8
    <3>2. cursor.opp_len \in Nat
      BY <1>2
    <3>. HIDE DEF len
    <3>. QED
      BY <3>1, <3>2
  <2>10. ASSUME NEW i \in DOMAIN after, i > Len(after) - cursor.skipped
         PROVE  after[i].user = taker.user
    <3>1. CASE /\ DOMAIN after = 1..(Len(OppQueue) - 1)
               /\ Len(after) = Len(OppQueue) - 1
               /\ \A k \in 1..(Len(OppQueue) - 1) : after[k] = OppQueue[k + 1]
      <4>1. len \in Nat /\ i \in 1..(len - 1) /\ i > (len - 1) - cursor.skipped
        BY <2>8, <2>10, <3>1
      <4>2. cursor.skipped \in Nat
        BY <1>2
      <4>3. i + 1 \in 1..len /\ i + 1 > len - cursor.skipped
        <5>. HIDE DEF len
        <5>. QED
          BY <4>1, <4>2
      <4>4. i + 1 \in DOMAIN OppQueue /\ after[i] = OppQueue[i + 1]
        BY <2>8, <3>1, <4>1, <4>3
      <4>. QED
        BY <2>7, <4>3, <4>4
    <3>2. CASE /\ DOMAIN after = 1..Len(OppQueue)
               /\ Len(after) = Len(OppQueue)
               /\ after[1] = [OppQueue[1] EXCEPT !.rem = @ - qty]
               /\ \A k \in 2..Len(OppQueue) : after[k] = OppQueue[k]
      <4>1. i \in DOMAIN OppQueue /\ i > Len(OppQueue) - cursor.skipped
        BY <2>8, <2>10, <3>2
      <4>2. OppQueue[i] \in Order
        BY <1>2, <2>8, <4>1, ElementOfSeq
      <4>3. CASE i = 1
        <5>1. after[i] = [OppQueue[i] EXCEPT !.rem = @ - qty]
          BY <3>2, <4>3
        <5>2. after[i].user = OppQueue[i].user
          BY <4>2, <5>1 DEF Order
        <5>. QED
          BY <2>7, <4>1, <5>2
      <4>4. CASE i # 1
        <5>1. i \in 2..len
          <6>1. i \in 1..len /\ len \in Nat
            BY <2>8, <4>1
          <6>. HIDE DEF len
          <6>. QED
            BY <4>4, <6>1
        <5>. QED
          BY <2>7, <3>2, <4>1, <5>1
      <4>. QED
        BY <4>3, <4>4
    <3>. QED
      BY <2>8, <3>1, <3>2
  <2>. QED
    BY <1>1, <1>3, <1>11, <1>12, <2>6, <2>7, <2>9, <2>10 DEF LoneOK
<1>16. LoneOK'
  BY <1>3, <1>15 DEF LoneOK, Rests
<1>. QED
  BY <1>1, <1>13, <1>14, <1>16 DEF WalkInv, FakTakesAllItCan

(* Leaving a level drops the queues that are used up.                      *)
LEMMA LeaveLevelWalk ==
  ASSUME BookInv, WalkInv, LeaveLevel
  PROVE  WalkInv'
<1>. DEFINE same == IF Rests(taker) THEN Prune(SameLevels, cursor.same) ELSE SameLevels
            opp  == Prune(OppLevels, cursor.opp)
<1>1. /\ phase = "level" /\ phase' = "walk"
      /\ levels' = [levels EXCEPT ![book] = BookOf(same, opp)]
      /\ UNCHANGED <<orders_map, book, taker, parked, trades>>
  BY DEF LeaveLevel
<1>2. /\ Typed /\ LevelsOK /\ LoneOK
      /\ cursor.opp \in DOMAIN OppLevels
      /\ book \in Pairs /\ taker \in Order
      /\ SameLevels \in BookSide /\ OppLevels \in BookSide
      /\ Finite(SameLevels) /\ Finite(OppLevels) /\ Finite(parked) /\ Full(parked)
      /\ FullBut(OppLevels, cursor.opp)
      /\ IF Rests(taker) THEN FullBut(SameLevels, cursor.same) ELSE Full(SameLevels)
      /\ QueueAt(OppLevels, cursor.opp) = OppQueue
  BY <1>1, LevelFacts
<1>3. /\ cursor.opp \in Prices /\ cursor.same \in Prices
      /\ Rests(taker) => cursor.same \in DOMAIN SameLevels
  BY <1>1, <1>2, LevelTypes
<1>4. same \in BookSide /\ opp \in BookSide
  BY <1>2, <1>3, SideOps, BookSideIsSide
<1>5. Finite(same) /\ Finite(opp)
  BY <1>2, FiniteOps
<1>6. Full(opp)
  BY <1>2, FullOps
<1>7. Full(same)
  BY <1>2, <1>3, FullOps
<1>8. QueueAt(opp, cursor.opp) = QueueAt(OppLevels, cursor.opp)
  BY QueueOfPruned
<1>9. /\ DOMAIN OppLevels \ {cursor.opp} = DOMAIN opp \ {cursor.opp}
      /\ \A p \in DOMAIN OppLevels : p # cursor.opp => opp[p] = OppLevels[p]
  BY DEF Prune, DropLevel
<1>. HIDE DEF same, opp
<1>10. OppLevels' = opp
  BY <1>1, <1>2, <1>4, WalkStep
<1>11. LevelsOK'
  BY <1>1, <1>2, <1>4, <1>5, <1>6, <1>7, WalkStepLevels
<1>12. AvailableIn(OppLevels, taker) <= AvailableIn(opp, taker) + 0
  <2>1. OthersQuantity(QueueAt(opp, cursor.opp), taker.user) \in Nat
    BY <1>2, <1>4, <1>5, AvailableApart
  <2>2. OthersQuantity(QueueAt(OppLevels, cursor.opp), taker.user)
          <= OthersQuantity(QueueAt(opp, cursor.opp), taker.user) + 0
    BY <1>8, <2>1
  <2>. QED
    BY <1>2, <1>4, <1>5, <1>9, <2>2, AvailableChanges
<1>13. /\ AvailableIn(OppLevels, taker) \in Nat /\ AvailableIn(opp, taker) \in Nat
       /\ taker.rem \in Nat
  BY <1>2, <1>4, <1>5, AvailableApart DEF Order
<1>14. LoneOK'
  BY <1>1, <1>2, <1>10, <1>12, <1>13 DEF LoneOK, Rests
<1>. QED
  BY <1>1, <1>11, <1>14 DEF WalkInv, FakTakesAllItCan, CrossOK

(* What the end of the walk finds: of an order that never rests there is   *)
(* something left only if it is a fill-and-kill one and everything it      *)
(* reaches is its own user's.                                              *)
LEMMA FinishFacts ==
  ASSUME BookInv, WalkInv, Finish, ~Rests(taker), taker.rem > 0
  PROVE  /\ taker.type = "FAK"
         /\ \A p \in Prices : Crosses(taker.side, taker.price, p) =>
              AllOf(QueueAt(Overlaid(OppLevels, parked), p), taker.user)
<1>1. /\ phase = "walk" /\ ~\E same, opp \in Prices : NextLevels(same, opp)
      /\ Typed /\ LevelsOK /\ LoneOK
  BY DEF Finish, BookInv, WalkInv
<1>2. /\ taker \in Order /\ OppLevels \in BookSide /\ Finite(OppLevels)
      /\ book \in Pairs /\ Opposite(taker.side) \in Sides
  BY <1>1, WalkTypes DEF LevelsOK, OppLevels
<1>3. Reached(OppLevels, taker) = {}
  BY <1>1, <1>2, WalkEndsOutOfReach
<1>4. taker.type # "FOK"
  <2>1. AvailableIn(OppLevels, taker) = 0 /\ taker.rem \in Nat
    BY <1>2, <1>3, NothingReached DEF Order
  <2>. QED
    BY <1>1, <2>1 DEF LoneOK
<1>5. taker.type = "FAK"
  BY <1>2, <1>4, OrderTypesAssumption DEF Order, Rests
<1>6. ASSUME NEW p \in Prices, Crosses(taker.side, taker.price, p)
      PROVE  AllOf(QueueAt(Overlaid(OppLevels, parked), p), taker.user)
  <2>1. p \notin DOMAIN OppLevels
    BY <1>3, <1>6 DEF Reached
  <2>2. p \in DOMAIN parked => AllOf(parked[p], taker.user)
    BY <1>1 DEF LoneOK
  <2>. QED
    BY <2>1, <2>2 DEF QueueAt, Overlaid, AllOf
<1>. QED
  BY <1>5, <1>6

(* Ending the walk.                                                        *)
LEMMA FinishWalk ==
  ASSUME BookInv, WalkInv, Finish
  PROVE  WalkInv' /\ phase' = "matched"
<1>. DEFINE opp == Overlaid(OppLevels, parked)
<1>1. /\ phase = "walk"
      /\ levels' = [levels EXCEPT ![book] = BookOf(SameLevels, opp)]
      /\ parked' = NoLevels
      /\ phase' = IF taker.type = "FOK" /\ taker.rem > 0 THEN "panicked" ELSE "matched"
      /\ UNCHANGED <<orders_map, book, taker, cursor, trades>>
  BY DEF Finish
<1>2. /\ Typed /\ LevelsOK /\ taker \in Order /\ book \in Pairs
      /\ SameLevels \in BookSide /\ OppLevels \in BookSide /\ parked \in BookSide
      /\ taker.side \in Sides /\ Opposite(taker.side) \in Sides
  BY <1>1, WalkTypes DEF BookInv, WalkInv, Typed
<1>3. /\ Finite(SameLevels) /\ Finite(OppLevels) /\ Finite(parked)
      /\ Full(SameLevels) /\ Full(OppLevels) /\ Full(parked)
  BY <1>1, <1>2 DEF LevelsOK, SameLevels, OppLevels
<1>4. opp \in BookSide /\ Finite(opp) /\ Full(opp)
  <2>1. opp \in BookSide
    BY <1>2, OverlaidIsSide, BookSideIsSide
  <2>2. Finite(opp)
    BY <1>3, FiniteOps
  <2>3. Full(opp)
    BY <1>3, FullOps
  <2>. QED
    BY <2>1, <2>2, <2>3
<1>. HIDE DEF opp
<1>5. OppLevels' = opp
  BY <1>1, <1>2, <1>4, WalkStep
<1>6. phase' = "matched"
  <2>1. CASE Rests(taker)
    BY <1>1, <2>1 DEF Rests
  <2>2. CASE ~Rests(taker) /\ taker.rem > 0
    <3>1. taker.type = "FAK"
      BY <2>2, FinishFacts
    <3>. QED
      BY <1>1, <3>1
  <2>3. CASE ~(taker.rem > 0)
    BY <1>1, <2>3
  <2>. QED
    BY <2>1, <2>2, <2>3
<1>7. Finite(parked') /\ Full(parked')
  BY <1>1, NoLevelsShape
<1>8. LevelsOK'
  BY <1>1, <1>2, <1>3, <1>4, <1>6, <1>7, WalkStepLevels
<1>9. FakTakesAllItCan'
  <2>1. SUFFICES ASSUME ~Rests(taker), taker.rem > 0,
                        NEW p \in DOMAIN opp, Crosses(taker.side, taker.price, p),
                        NEW i \in DOMAIN opp[p]
                 PROVE  opp[p][i].user = taker.user
    BY <1>1, <1>5 DEF FakTakesAllItCan, Rests
  <2>2. p \in Prices
    BY <1>4 DEF BookSide
  <2>3. AllOf(QueueAt(opp, p), taker.user)
    BY <2>1, <2>2, FinishFacts DEF opp
  <2>. QED
    BY <2>3 DEF QueueAt, AllOf
<1>. QED
  BY <1>6, <1>8, <1>9 DEF WalkInv, CrossOK, LoneOK

(* Every step of the walk keeps the invariant, and none panics.            *)
LEMMA MatchWalk ==
  ASSUME BookInv, WalkInv, Match
  PROVE  WalkInv' /\ phase' \in {"walk", "level", "matched"}
<1>1. Finish => phase' = "matched"
  BY FinishWalk
<1>2. phase' \in {"walk", "level", "matched"}
  BY <1>1 DEF Match, EnterLevel, SkipResting, PassTurn, ParkLevel, Fill, LeaveLevel,
              SelfTrade, InLevel
<1>3. WalkInv'
  BY EnterLevelWalk, SkipRestingWalk, PassTurnWalk, ParkLevelWalk, FillWalk, LeaveLevelWalk,
     FinishWalk DEF Match
<1>. QED
  BY <1>2, <1>3

(* A new order: it joins a queue, which is not empty then, or has passed   *)
(* the pre-check.                                                          *)
LEMMA AddOrderWalk ==
  ASSUME BookInv, WalkInv, NEW pair \in Pairs, NEW o \in NewOrder, AddOrder(pair, o)
  PROVE  WalkInv'
<1>1. /\ Typed /\ LevelsOK /\ phase = "idle" /\ parked = NoLevels
      /\ book' = pair /\ taker' = o /\ UNCHANGED <<cursor, parked, trades>>
      /\ phase' \in {"walk", "rejected"}
  BY DEF BookInv, WalkOK, WalkInv, AddOrder
<1>2. /\ o \in Order /\ o.side \in Sides /\ Opposite(o.side) \in Sides /\ o.side # Opposite(o.side)
      /\ levels \in Books
  BY <1>1, QuantitiesAssumption DEF NewOrder, Order, Sides, Opposite, Typed
<1>3. \A b \in Pairs, side \in Sides :
        IsSide(levels[b][side]) /\ Finite(levels[b][side]) /\ Full(levels[b][side])
  BY <1>1, <1>2, BookSideIsSide DEF LevelsOK, Books
<1>4. Finite(Inserted(levels[pair][o.side], o)) /\ Full(Inserted(levels[pair][o.side], o))
  BY <1>2, <1>3, CallShapes
<1>5. \/ levels' = levels
      \/ levels' = [levels EXCEPT ![pair][o.side] = Inserted(@, o)]
  BY DEF AddOrder, bookVars
<1>6. \A b \in Pairs, side \in Sides : Finite(levels'[b][side]) /\ Full(levels'[b][side])
  <2>1. CASE levels' = levels
    BY <1>3, <2>1
  <2>2. CASE levels' = [levels EXCEPT ![pair][o.side] = Inserted(@, o)]
    <3>1. \A b \in Pairs, side \in Sides :
            levels'[b][side] = IF b = pair /\ side = o.side THEN Inserted(levels[b][side], o)
                               ELSE levels[b][side]
      BY <1>2, <2>2 DEF Books
    <3>. QED
      BY <1>3, <1>4, <3>1
  <2>. QED
    BY <1>5, <2>1, <2>2
<1>7. LevelsOK'
  BY <1>1, <1>6, QuietLevels
<1>8. phase' = "walk" /\ ~Rests(o) /\ o.type = "FOK" => o.rem <= AvailableIn(OppLevels', o)
  <2>1. SUFFICES ASSUME phase' = "walk", ~Rests(o), o.type = "FOK"
                 PROVE  o.rem <= AvailableIn(OppLevels', o)
    OBVIOUS
  <2>2. ~Refused(pair, o) /\ levels' = levels
    BY <2>1 DEF AddOrder, bookVars
  <2>3. OppLevels' = levels[pair][Opposite(o.side)]
    BY <1>1, <2>2 DEF OppLevels
  <2>4. ~(AvailableIn(OppLevels', o) < o.rem)
    BY <2>1, <2>2, <2>3 DEF Refused, Available, AvailableIn, Offered, Reached
  <2>5. AvailableIn(levels[pair][Opposite(o.side)], o) \in Nat /\ o.rem \in Nat
    BY <1>2, <1>3, AvailableApart DEF Order, Books
  <2>. QED
    BY <2>3, <2>4, <2>5
<1>9. LoneOK'
  BY <1>1, <1>8 DEF LoneOK, Rests, NoLevels
<1>. QED
  BY <1>1, <1>7, <1>9 DEF WalkInv, CrossOK, FakTakesAllItCan

(* Outside the walk the sides are those of the book, and none of their     *)
(* levels is empty.                                                        *)
LEMMA IdleShapes ==
  ASSUME BookInv, WalkInv, phase \notin {"walk", "level"}
  PROVE  /\ parked = NoLevels /\ levels \in Books
         /\ \A pair \in Pairs, side \in Sides :
              /\ IsSide(levels[pair][side])
              /\ Finite(levels[pair][side]) /\ Full(levels[pair][side])
BY BookSideIsSide DEF BookInv, WalkOK, Typed, Books, WalkInv, LevelsOK

(* A step outside the walk that leaves every side in order.                *)
LEMMA QuietWalk ==
  ASSUME phase' \notin {"walk", "level", "matched"}, parked' = NoLevels,
         \A pair \in Pairs, side \in Sides :
           Finite(levels'[pair][side]) /\ Full(levels'[pair][side])
  PROVE  WalkInv'
BY QuietLevels DEF WalkInv, CrossOK, LoneOK, FakTakesAllItCan

(* Answering the caller.                                                   *)
LEMMA ReturnWalk ==
  ASSUME BookInv, WalkInv, Return
  PROVE  WalkInv'
<1>1. phase \notin {"walk", "level"} /\ phase' = "idle" /\ levels' = levels /\ parked' = parked
  BY DEF Return
<1>. QED
  BY <1>1, IdleShapes, QuietWalk

(* Cancelling an order.                                                    *)
LEMMA CancelOrderWalk ==
  ASSUME BookInv, WalkInv, NEW pair \in Pairs, NEW id, CancelOrder(pair, id)
  PROVE  WalkInv'
<1>. DEFINE o == orders_map[pair][id]
            gone == Removed(levels[pair][o.side], o.price, id)
<1>1. /\ phase = "idle" /\ phase' = "idle" /\ parked' = parked
      /\ id \in DOMAIN orders_map[pair]
      /\ levels' = [levels EXCEPT ![pair][o.side] = gone]
  BY DEF CancelOrder, callVars
<1>2. o \in Order /\ o.side \in Sides /\ o.price \in Prices
  BY <1>1, OrdersMapIsOrdersMap DEF BookInv, Typed, IsOrdersMap, Order
<1>3. /\ parked = NoLevels /\ levels \in Books
      /\ \A b \in Pairs, side \in Sides :
           IsSide(levels[b][side]) /\ Finite(levels[b][side]) /\ Full(levels[b][side])
  BY <1>1, IdleShapes
<1>. HIDE DEF o
<1>4. Finite(gone) /\ Full(gone)
  BY <1>2, <1>3, CallShapes
<1>. HIDE DEF gone
<1>5. \A b \in Pairs, side \in Sides :
        levels'[b][side] = IF b = pair /\ side = o.side THEN gone ELSE levels[b][side]
  BY <1>1, <1>2, <1>3 DEF Books
<1>. QED
  BY <1>1, <1>3, <1>4, <1>5, QuietWalk

(* Cancelling a user's orders.                                             *)
LEMMA CancelOrdersForUserWalk ==
  ASSUME BookInv, WalkInv, NEW pair \in Pairs, NEW user, CancelOrdersForUser(pair, user)
  PROVE  WalkInv'
<1>1. /\ phase = "idle" /\ phase' = "idle" /\ parked' = parked
      /\ levels' = [levels EXCEPT ![pair] =
                      [side \in Sides |-> WithoutUser(levels[pair][side], user)]]
  BY DEF CancelOrdersForUser, callVars
<1>2. /\ parked = NoLevels /\ levels \in Books
      /\ \A b \in Pairs, side \in Sides :
           IsSide(levels[b][side]) /\ Finite(levels[b][side]) /\ Full(levels[b][side])
  BY <1>1, IdleShapes
<1>3. \A side \in Sides : /\ Finite(WithoutUser(levels[pair][side], user))
                          /\ Full(WithoutUser(levels[pair][side], user))
  BY <1>2, CallShapes
<1>4. \A b \in Pairs, side \in Sides :
        levels'[b][side] = IF b = pair THEN WithoutUser(levels[b][side], user) ELSE levels[b][side]
  BY <1>1, <1>2 DEF Books
<1>. QED
  BY <1>1, <1>2, <1>3, <1>4, QuietWalk

(* The empty books.                                                        *)
LEMMA InitWalk == Init => WalkInv
BY NoLevelsShape DEF Init, WalkInv, LevelsOK, CrossOK, LoneOK, FakTakesAllItCan

(* Every step keeps the invariant.                                         *)
LEMMA NextWalk == BookInv /\ WalkInv /\ [Next]_vars => WalkInv'
<1>. SUFFICES ASSUME BookInv, WalkInv, [Next]_vars
              PROVE  WalkInv'
  OBVIOUS
<1>1. CASE UNCHANGED vars
  BY <1>1 DEF vars, WalkInv, LevelsOK, CrossOK, LoneOK, FakTakesAllItCan,
              OppLevels, SameLevels, OppQueue, Rests
<1>. QED
  BY <1>1, AddOrderWalk, MatchWalk, ReturnWalk, CancelOrderWalk, CancelOrdersForUserWalk DEF Next

(* ... and none panics.                                                    *)
LEMMA NextNeverPanics == BookInv /\ WalkInv /\ FokAllOrNothing /\ [Next]_vars => FokAllOrNothing'
<1>. SUFFICES ASSUME BookInv, WalkInv, FokAllOrNothing, [Next]_vars
              PROVE  FokAllOrNothing'
  OBVIOUS
<1>1. CASE Match
  BY <1>1, MatchWalk DEF FokAllOrNothing
<1>. QED
  BY <1>1 DEF Next, AddOrder, Return, CancelOrder, CancelOrdersForUser, callVars, vars, FokAllOrNothing

(* WalkInv holds in every state of every behaviour of the book, and none   *)
(* of them panics.                                                         *)
THEOREM WalkInvariant == Spec => [](BookInv /\ WalkInv /\ FokAllOrNothing)
<1>1. Init => BookInv /\ WalkInv /\ FokAllOrNothing
  BY InitBookInv, InitWalk DEF Init, FokAllOrNothing
<1>2. BookInv /\ WalkInv /\ FokAllOrNothing /\ [Next]_vars
        => (BookInv /\ WalkInv /\ FokAllOrNothing)'
  BY NextBookInv, NextWalk, NextNeverPanics
<1>. QED
  BY <1>1, <1>2, PTL DEF Spec

(* Between two calls no level of any book is empty: whatever add_order,    *)
(* match_order, match_against_opposite, cancel_order and                   *)
(* cancel_orders_for_user leave behind, the best price of a side is the    *)
(* price of an order.                                                      *)
THEOREM NoLevelIsEmpty == Spec => []NoEmptyLevel
<1>1. WalkInv => NoEmptyLevel
  BY DEF WalkInv, LevelsOK, Full, NoEmptyLevel
<1>. QED
  BY WalkInvariant, <1>1, PTL

(* The safety net of a fill-or-kill order never fires: the quantity its    *)
(* pre-check counts, over all levels it crosses and all queues, is what    *)
(* the walk takes, however the user's own orders stand among the others.   *)
THEOREM FokFillsOrIsRefused == Spec => []FokAllOrNothing
BY WalkInvariant, PTL

(* A fill-and-kill order is dropped with something left only when          *)
(* everything its limit reaches is its own user's.                         *)
THEOREM FakStopsAtItsOwn == Spec => []FakTakesAllItCan
<1>1. WalkInv => FakTakesAllItCan
  BY DEF WalkInv
<1>. QED
  BY WalkInvariant, <1>1, PTL

-----------------------------------------------------------------------------
(* The book implements the abstract matching engine                        *)

(* The orders in the queues of a book.                                     *)
OrdersIn(q) == UNION {Range(q[side][p]) : side \in Sides, p \in Prices}

(* Being one of them is being in one of the queues.                        *)
LEMMA InSomeQueue ==
  \A q, o : o \in OrdersIn(q) <=> \E side \in Sides, p \in Prices : o \in Range(q[side][p])
BY DEF OrdersIn

(* They are the entries of the queues.                                     *)
LEMMA EntriesOf ==
  ASSUME NEW q \in Depth
  PROVE  /\ OrdersIn(q) \subseteq Order
         /\ \A side \in Sides, p \in Prices : \A i \in DOMAIN q[side][p] :
              q[side][p][i] \in OrdersIn(q)
         /\ \A o \in OrdersIn(q) : \E side \in Sides, p \in Prices :
              \E i \in DOMAIN q[side][p] : q[side][p][i] = o
<1>1. \A side \in Sides, p \in Prices : Range(q[side][p]) \subseteq Order
  BY ElementOfSeq, LenProperties DEF Range, Depth
<1>2. OrdersIn(q) \subseteq Order
  BY <1>1, InSomeQueue
<1>3. \A side \in Sides, p \in Prices : \A i \in DOMAIN q[side][p] :
        q[side][p][i] \in Range(q[side][p])
  BY DEF Range
<1>4. \A side \in Sides, p \in Prices : \A o \in Range(q[side][p]) :
        \E i \in DOMAIN q[side][p] : q[side][p][i] = o
  BY DEF Range
<1>. QED
  BY <1>2, <1>3, <1>4, InSomeQueue

(* Thinned queues hold the orders that have stayed.                        *)
LEMMA ThinningOrders ==
  ASSUME NEW q \in Depth, NEW r \in Depth, NEW ids,
         \A side \in Sides, p \in Prices : Thins(r[side][p], q[side][p], ids)
  PROVE  OrdersIn(r) = {o \in OrdersIn(q) : o.id \notin ids}
<1>1. ASSUME NEW side \in Sides, NEW p \in Prices
      PROVE  Range(r[side][p]) = {o \in Range(q[side][p]) : o.id \notin ids}
  <2>. DEFINE old == q[side][p]
              new == r[side][p]
  <2>1. DOMAIN old = 1..Len(old) /\ DOMAIN new = 1..Len(new)
    BY LenProperties DEF Depth
  <2>2. PICK pos \in [1..Len(new) -> 1..Len(old)] :
          /\ \A i \in 1..Len(new) : new[i] = old[pos[i]] /\ old[pos[i]].id \notin ids
          /\ \A m \in 1..Len(old) : old[m].id \notin ids => \E i \in 1..Len(new) : pos[i] = m
    BY DEF Thins
  <2>. HIDE DEF old, new
  <2>3. ASSUME NEW o \in Range(new)
        PROVE  o \in Range(old) /\ o.id \notin ids
    BY <2>1, <2>2 DEF Range
  <2>4. ASSUME NEW o \in Range(old), o.id \notin ids
        PROVE  o \in Range(new)
    <3>1. PICK m \in 1..Len(old) : old[m] = o
      BY <2>1 DEF Range
    <3>2. PICK i \in 1..Len(new) : pos[i] = m
      BY <2>2, <2>4, <3>1
    <3>3. new[i] = o
      BY <2>2, <3>1, <3>2
    <3>. QED
      BY <2>1, <3>3 DEF Range
  <2>. QED
    BY <2>3, <2>4 DEF old, new
<1>. QED
  BY <1>1 DEF OrdersIn

(* An order that joins a queue joins the orders of the book.               *)
LEMMA EnqueuedOrders ==
  ASSUME NEW q \in Depth, NEW o \in Order
  PROVE  OrdersIn([q EXCEPT ![o.side][o.price] = Append(@, o)]) = OrdersIn(q) \cup {o}
<1>. DEFINE r == [q EXCEPT ![o.side][o.price] = Append(@, o)]
            before == q[o.side][o.price]
<1>1. o.side \in Sides /\ o.price \in Prices /\ before \in Seq(Order)
  BY DEF Order, Depth
<1>2. \A side \in Sides, p \in Prices :
        r[side][p] = IF side = o.side /\ p = o.price THEN Append(before, o) ELSE q[side][p]
  BY <1>1 DEF Depth
<1>3. Range(Append(before, o)) = Range(before) \cup {o}
  <2>. HIDE DEF before
  <2>1. /\ DOMAIN before = 1..Len(before) /\ Len(before) \in Nat
        /\ DOMAIN Append(before, o) = 1..(Len(before) + 1)
        /\ \A i \in 1..Len(before) : Append(before, o)[i] = before[i]
        /\ Append(before, o)[Len(before) + 1] = o
    BY <1>1, AppendProperties, LenProperties
  <2>. DEFINE len == Len(before)
  <2>2. 1..(len + 1) = 1..len \cup {len + 1}
    BY <2>1
  <2>. HIDE DEF len
  <2>. QED
    BY <2>1, <2>2 DEF Range, len
<1>. HIDE DEF r
<1>4. \A side \in Sides, p \in Prices :
        Range(r[side][p]) = IF side = o.side /\ p = o.price THEN Range(q[side][p]) \cup {o}
                            ELSE Range(q[side][p])
  BY <1>2, <1>3
<1>5. ASSUME NEW x
      PROVE  x \in OrdersIn(r) <=> x \in OrdersIn(q) \cup {o}
  <2>1. (\E side \in Sides, p \in Prices : x \in Range(r[side][p]))
          <=> (\E side \in Sides, p \in Prices : x \in Range(q[side][p])) \/ x = o
    BY <1>1, <1>4
  <2>. QED
    BY <2>1, InSomeQueue
<1>6. OrdersIn(r) = OrdersIn(q) \cup {o}
  BY <1>5
<1>. QED
  BY <1>6 DEF r

(* Orders of a book that have the same id are the same order.              *)
LEMMA OneOrder ==
  ASSUME NEW map, NEW q \in Depth, Agree(map, q),
         NEW side \in Sides, NEW p \in Prices, NEW i \in DOMAIN q[side][p],
         NEW s \in Sides, NEW t \in Prices, NEW j \in DOMAIN q[s][t],
         q[side][p][i].id = q[s][t][j].id
  PROVE  s = side /\ t = p /\ j = i
<1>1. s = side /\ t = p
  BY OneQueue
<1>. QED
  BY <1>1 DEF Agree, AllDistinct, Distinct

(* What a fill by qty leaves of an order: at most one order.               *)
Left(o, qty) == Abstract!Rest({o}, qty)

(* A fill at the front of a queue leaves what the abstract engine calls    *)
(* the rest of the order there, and all others.                            *)
LEMMA FilledOrders ==
  ASSUME NEW map, NEW q \in Depth, Agree(map, q),
         NEW side \in Sides, NEW p \in Prices, q[side][p] # << >>,
         NEW qty \in Nat, qty <= Head(q[side][p]).rem, NEW r,
         \A s \in Sides, t \in Prices :
           r[s][t] = IF s = side /\ t = p THEN FillFront(q[side][p], qty) ELSE q[s][t]
  PROVE  OrdersIn(r)
           = (OrdersIn(q) \ {Head(q[side][p])}) \cup Left(Head(q[side][p]), qty)
<1>. DEFINE queue == q[side][p]
            front == Head(queue)
            rest  == Left(front, qty)
<1>1. /\ queue \in Seq(Order) /\ front \in Order /\ front = queue[1] /\ qty <= front.rem
      /\ DOMAIN queue = 1..Len(queue) /\ Len(queue) \in Nat \ {0} /\ 1 \in DOMAIN queue
  BY EmptySeq, LenProperties, HeadTailProperties DEF Depth
<1>2. \A s \in Sides, t \in Prices :
        r[s][t] = IF s = side /\ t = p THEN FillFront(queue, qty) ELSE q[s][t]
  OBVIOUS
<1>3. \A i \in DOMAIN queue : i # 1 => queue[i] # front
  BY <1>1 DEF Agree, AllDistinct, Distinct
<1>4. Range(FillFront(queue, qty)) = (Range(queue) \ {front}) \cup rest
  <2>. HIDE DEF queue
  <2>1. CASE front.rem = qty
    <3>1. rest = {}
      BY <1>1, <2>1 DEF Left, Abstract!Rest, Order
    <3>2. FillFront(queue, qty) = Tail(queue)
      BY <2>1 DEF FillFront
    <3>3. /\ Tail(queue) \in Seq(Order) /\ Len(Tail(queue)) = Len(queue) - 1
          /\ DOMAIN Tail(queue) = 1..(Len(queue) - 1)
          /\ \A i \in 1..(Len(queue) - 1) : Tail(queue)[i] = queue[i + 1]
      BY <1>1, HeadTailProperties, LenProperties, EmptySeq
    <3>. DEFINE len == Len(queue)
    <3>. HIDE DEF len, rest, front
    <3>4. ASSUME NEW o \in Range(Tail(queue))
          PROVE  o \in Range(queue) /\ o # front
      <4>1. PICK i \in 1..(len - 1) : Tail(queue)[i] = o
        BY <3>3 DEF Range, len
      <4>2. o = queue[i + 1] /\ i + 1 \in DOMAIN queue /\ i + 1 # 1
        BY <1>1, <3>3, <4>1 DEF len
      <4>. QED
        BY <1>3, <4>2 DEF Range
    <3>5. ASSUME NEW o \in Range(queue), o # front
          PROVE  o \in Range(Tail(queue))
      <4>1. PICK i \in 1..len : queue[i] = o
        BY <1>1 DEF Range, len
      <4>2. i # 1
        BY <1>1, <3>5, <4>1
      <4>3. i - 1 \in 1..(len - 1) /\ Tail(queue)[i - 1] = o
        BY <1>1, <3>3, <4>1, <4>2 DEF len
      <4>. QED
        BY <3>3, <4>3 DEF Range, len
    <3>. QED
      BY <3>1, <3>2, <3>4, <3>5
  <2>2. CASE front.rem # qty
    <3>. DEFINE less == [front EXCEPT !.rem = @ - qty]
    <3>1. rest = {less}
      BY <1>1, <2>2 DEF Left, Abstract!Rest, Order
    <3>2. FillFront(queue, qty) = [queue EXCEPT ![1] = less]
      BY <1>1, <2>2 DEF FillFront
    <3>. HIDE DEF less, rest, front
    <3>3. /\ DOMAIN [queue EXCEPT ![1] = less] = DOMAIN queue
          /\ \A i \in DOMAIN queue : [queue EXCEPT ![1] = less][i] = IF i = 1 THEN less ELSE queue[i]
      BY <1>1
    <3>4. Range([queue EXCEPT ![1] = less]) = (Range(queue) \ {front}) \cup {less}
      BY <1>1, <1>3, <3>3 DEF Range
    <3>. QED
      BY <3>1, <3>2, <3>4
  <2>. QED
    BY <2>1, <2>2
<1>5. \A s \in Sides, t \in Prices : ~(s = side /\ t = p) => front \notin Range(q[s][t])
  <2>1. SUFFICES ASSUME NEW s \in Sides, NEW t \in Prices, NEW j \in DOMAIN q[s][t],
                        q[s][t][j] = front
                 PROVE  s = side /\ t = p
    BY DEF Range
  <2>. QED
    BY <1>1, <2>1, OneQueue
<1>. HIDE DEF rest, front
<1>6. \A s \in Sides, t \in Prices : s = side /\ t = p =>
        Range(r[s][t]) = (Range(q[s][t]) \ {front}) \cup rest
  BY <1>2, <1>4
<1>7. \A s \in Sides, t \in Prices : ~(s = side /\ t = p) =>
        Range(r[s][t]) = Range(q[s][t]) \ {front}
  BY <1>2, <1>5
<1>8. ASSUME NEW x
      PROVE  x \in OrdersIn(r) <=> x \in (OrdersIn(q) \ {front}) \cup rest
  <2>1. \A s \in Sides, t \in Prices :
          x \in Range(r[s][t]) <=> (x \in Range(q[s][t]) /\ x # front)
                                     \/ (s = side /\ t = p /\ x \in rest)
    BY <1>6, <1>7
  <2>2. (\E s \in Sides, t \in Prices : x \in Range(r[s][t]))
          <=> ((\E s \in Sides, t \in Prices : x \in Range(q[s][t])) /\ x # front) \/ x \in rest
    BY <2>1
  <2>. QED
    BY <2>2, InSomeQueue
<1>9. OrdersIn(r) = (OrdersIn(q) \ {front}) \cup rest
  BY <1>8
<1>. QED
  BY <1>9 DEF rest, front

(* The incoming order that never rests, while it is being matched.         *)
Incoming(pair) ==
  {o \in {taker} : pair = book /\ phase \in {"walk", "level"} /\ ~Rests(o) /\ o.rem > 0}

(* The open orders are those of the queues and the incoming one.           *)
LEMMA OpenIs ==
  Typed => \A pair \in Pairs : OpenOrders(pair) = OrdersIn(Depths(pair)) \cup Incoming(pair)
<1>. SUFFICES ASSUME Typed, NEW pair \in Pairs
              PROVE  OpenOrders(pair) = OrdersIn(Depths(pair)) \cup Incoming(pair)
  OBVIOUS
<1>1. \A side \in Sides, p \in Prices : Depths(pair)[side][p] = Queue(pair, side, p)
  BY DepthsType
<1>2. ASSUME NEW o
      PROVE  o \in OpenOrders(pair) <=> o \in OrdersIn(Depths(pair)) \cup Incoming(pair)
  <2>1. o \in OpenOrders(pair) <=>
          (\E side \in Sides, p \in Prices : o \in Range(Queue(pair, side, p)))
            \/ o \in Incoming(pair)
    <3>. DEFINE all == UNION {Range(Queue(pair, side, p)) : side \in Sides, p \in Prices}
                lone == Incoming(pair)
    <3>1. OpenOrders(pair) = all \cup lone
      BY DEF OpenOrders, Incoming
    <3>2. o \in all <=> \E side \in Sides, p \in Prices : o \in Range(Queue(pair, side, p))
      OBVIOUS
    <3>. HIDE DEF all, lone
    <3>. QED
      BY <3>1, <3>2 DEF lone
  <2>2. o \in OrdersIn(Depths(pair)) <=>
          \E side \in Sides, p \in Prices : o \in Range(Queue(pair, side, p))
    BY <1>1, InSomeQueue
  <2>. QED
    BY <2>1, <2>2
<1>. QED
  BY <1>2

(* ... and so they are in the next state.                                  *)
LEMMA OpenIsNext ==
  Typed' => \A pair \in Pairs :
              OpenOrders(pair)' = OrdersIn(Depths(pair)') \cup Incoming(pair)'
<1>1. Typed' => (\A pair \in Pairs : OpenOrders(pair) = OrdersIn(Depths(pair)) \cup Incoming(pair))'
  BY OpenIs, PTL
<1>. QED
  BY <1>1 DEF OrdersIn

(* What the map knows of an order in a queue.                              *)
LEMMA QueuedOrder ==
  ASSUME BookInv, NEW pair \in Pairs, NEW o \in OrdersIn(Depths(pair))
  PROVE  /\ o \in Order /\ o.id \in DOMAIN orders_map[pair] /\ Rests(o) /\ o.rem > 0
         /\ orders_map[pair][o.id].user = o.user
         /\ o \in Range(Queue(pair, o.side, o.price))
<1>1. /\ Depths(pair) \in Depth /\ Agree(orders_map[pair], Depths(pair))
      /\ \A side \in Sides, p \in Prices : Depths(pair)[side][p] = Queue(pair, side, p)
  BY DepthsType DEF BookInv, Consistent
<1>2. PICK side \in Sides, p \in Prices :
        \E i \in DOMAIN Depths(pair)[side][p] : Depths(pair)[side][p][i] = o
  BY <1>1, EntriesOf
<1>3. o \in Order /\ Known(orders_map[pair], side, p, o)
  BY <1>1, <1>2, EntriesOf DEF Agree, AllKnown
<1>4. o.rem \in Nat /\ orders_map[pair][o.id].user = o.user
  BY <1>3 DEF Known, Order
<1>5. o.rem > 0
  BY <1>3, <1>4 DEF Known
<1>6. o \in Range(Queue(pair, o.side, o.price))
  BY <1>1, <1>2, <1>3 DEF Known, Range
<1>. QED
  BY <1>3, <1>4, <1>5, <1>6 DEF Known

(* A step that thins the queues out leaves the orders it does not take.    *)
LEMMA ThinnedOpen ==
  ASSUME Typed, Typed', NEW ids, ThinsBy(ids), NEW pair \in Pairs
  PROVE  OrdersIn(Depths(pair)') = {o \in OrdersIn(Depths(pair)) : o.id \notin ids[pair]}
<1>1. /\ Depths(pair) \in Depth
      /\ \A side \in Sides, p \in Prices : Depths(pair)[side][p] = Queue(pair, side, p)
  BY DepthsType
<1>2. /\ Depths(pair)' \in Depth
      /\ \A side \in Sides, p \in Prices : Depths(pair)'[side][p] = Queue(pair, side, p)'
  BY DepthsTypedNext DEF DepthsTyped
<1>3. \A side \in Sides, p \in Prices :
        Thins(Depths(pair)'[side][p], Depths(pair)[side][p], ids[pair])
  BY <1>1, <1>2 DEF ThinsBy
<1>. QED
  BY <1>1, <1>2, <1>3, ThinningOrders

(* The state of the abstract engine.                                       *)
Open == [pair \in Pairs |-> OpenOrders(pair)]

(* An order that comes in, a trade or a withdrawal is a step of the        *)
(* abstract engine, or changes nothing there.                              *)
LEMMA MoveIsStep ==
  ASSUME NEW pair \in Pairs,
         \/ \E o \in NewOrder : Abstract!Place(pair, o)
         \/ \E bid, ask \in Open[pair], price \in Prices : Abstract!Trade(pair, bid, ask, price)
         \/ \E orders \in SUBSET Open[pair] : Abstract!Withdraw(pair, orders)
  PROVE  [Abstract!Next]_Open
<1>1. PICK orders : Open' = [Open EXCEPT ![pair] = orders]
  BY DEF Abstract!Place, Abstract!Trade, Abstract!Withdraw, Open
<1>2. CASE Open'[pair] = Open[pair]
  <2>1. Open' = Open
    BY <1>1, <1>2 DEF Open
  <2>. QED
    BY <2>1
<1>3. CASE Open'[pair] # Open[pair]
  <2>1. ASSUME NEW o \in NewOrder, Abstract!Place(pair, o)
        PROVE  o \in Open'[pair] \cap NewOrder
    BY <2>1 DEF Abstract!Place, Open
  <2>2. \/ \E o \in Open'[pair] \cap NewOrder : Abstract!Place(pair, o)
        \/ \E bid, ask \in Open[pair], price \in Prices : Abstract!Trade(pair, bid, ask, price)
        \/ \E set \in SUBSET Open[pair] : Abstract!Withdraw(pair, set)
    BY <2>1
  <2>. QED
    BY <1>3, <2>2 DEF Abstract!Next, Open
<1>. QED
  BY <1>2, <1>3

(* A step that takes no order and leaves the incoming one as it is says    *)
(* nothing to the abstract engine.                                         *)
LEMMA OpenStays ==
  ASSUME Typed, Typed', ThinsBy(NoIds), \A pair \in Pairs : Incoming(pair)' = Incoming(pair)
  PROVE  Open' = Open
<1>1. ASSUME NEW pair \in Pairs
      PROVE  OpenOrders(pair)' = OpenOrders(pair)
  <2>1. OrdersIn(Depths(pair)') = {o \in OrdersIn(Depths(pair)) : o.id \notin NoIds[pair]}
    BY ThinnedOpen
  <2>2. OrdersIn(Depths(pair)') = OrdersIn(Depths(pair))
    BY <2>1 DEF NoIds
  <2>. QED
    BY <2>2, OpenIs, OpenIsNext
<1>. QED
  BY <1>1 DEF Open

(* Outside the walk the open orders are those of the queues, and a step    *)
(* that thins these out leaves the orders it does not take.                *)
LEMMA ThinningLeaves ==
  ASSUME BookInv, Typed', phase \notin {"walk", "level"}, phase' \notin {"walk", "level"},
         NEW ids, ThinsBy(ids), NEW b \in Pairs
  PROVE  /\ OpenOrders(b) = OrdersIn(Depths(b))
         /\ OpenOrders(b)' = {o \in OpenOrders(b) : o.id \notin ids[b]}
<1>1. Incoming(b) = {} /\ Incoming(b)' = {}
  BY DEF Incoming
<1>2. OrdersIn(Depths(b)') = {o \in OrdersIn(Depths(b)) : o.id \notin ids[b]}
  BY ThinnedOpen DEF BookInv
<1>. QED
  BY <1>1, <1>2, OpenIs, OpenIsNext DEF BookInv

(* Between two calls an order leaves by being withdrawn.                   *)
LEMMA OpenWithdraws ==
  ASSUME BookInv, Typed', phase = "idle", phase' = "idle",
         NEW pair \in Pairs, NEW ids,
         ThinsBy([b \in Pairs |-> IF b = pair THEN ids ELSE {}])
  PROVE  [Abstract!Next]_Open
<1>. DEFINE taken == [b \in Pairs |-> IF b = pair THEN ids ELSE {}]
            gone  == {o \in OpenOrders(pair) : o.id \in ids}
<1>1. ASSUME NEW b \in Pairs
      PROVE  /\ OpenOrders(b) = OrdersIn(Depths(b))
             /\ OpenOrders(b)' = {o \in OpenOrders(b) : o.id \notin taken[b]}
  <2>1. ThinsBy(taken)
    OBVIOUS
  <2>. HIDE DEF taken
  <2>. QED
    BY <2>1, ThinningLeaves
<1>2. Open' = [Open EXCEPT ![pair] = @ \ gone]
  BY <1>1 DEF Open
<1>3. \A o \in gone : o.type \in {"GTC", "GFD"}
  BY <1>1, QueuedOrder DEF Rests
<1>4. Abstract!Withdraw(pair, gone)
  BY <1>2, <1>3 DEF Abstract!Withdraw, Abstract!Droppable, Open
<1>5. gone \in SUBSET Open[pair]
  BY DEF Open
<1>. HIDE DEF gone
<1>. QED
  BY <1>4, <1>5, MoveIsStep

(* A new order is open from the moment it comes in, unless it is refused.  *)
LEMMA AddOrderPlaces ==
  ASSUME BookInv, Typed', NEW pair \in Pairs, NEW o \in NewOrder, AddOrder(pair, o)
  PROVE  \A b \in Pairs :
           OpenOrders(b)' = IF b = pair /\ ~Refused(pair, o) THEN OpenOrders(b) \cup {o}
                            ELSE OpenOrders(b)
<1>1. /\ Typed /\ phase = "idle" /\ parked = NoLevels /\ parked' = NoLevels
      /\ book' = pair /\ taker' = o /\ phase' \in {"walk", "rejected"}
  BY DEF BookInv, WalkOK, AddOrder
<1>2. o \in Order /\ o.rem > 0
  <2>1. o \in Order /\ o.rem \in Nat /\ o.rem # 0
    BY QuantitiesAssumption DEF NewOrder, Order
  <2>. QED
    BY <2>1
<1>3. \A b \in Pairs : Incoming(b) = {}
  BY <1>1 DEF Incoming
<1>4. CASE Refused(pair, o)
  <2>1. phase' = "rejected" /\ UNCHANGED bookVars
    BY <1>4 DEF AddOrder
  <2>2. ThinsBy(NoIds)
    BY <1>1, <2>1, BooksStay
  <2>3. \A b \in Pairs : Incoming(b)' = Incoming(b)
    BY <1>3, <2>1 DEF Incoming
  <2>4. Open' = Open
    BY <1>1, <2>2, <2>3, OpenStays
  <2>. QED
    BY <1>4, <2>4 DEF Open
<1>5. CASE ~Refused(pair, o)
  <2>1. phase' = "walk" /\ o.id \notin DOMAIN orders_map[pair]
    BY <1>5 DEF AddOrder, Refused
  <2>2. \A b \in Pairs : OpenOrders(b)' = IF b = pair THEN OpenOrders(b) \cup {o}
                                          ELSE OpenOrders(b)
    <3>1. CASE Rests(o)
      <4>1. /\ Depths(pair)' = [Depths(pair) EXCEPT ![o.side][o.price] = Append(@, o)]
            /\ \A b \in Pairs : b # pair => Depths(b)' = Depths(b)
        BY <1>5, <3>1, AddOrderQueues
      <4>2. Depths(pair) \in Depth
        BY <1>1, DepthsType
      <4>3. OrdersIn(Depths(pair)') = OrdersIn(Depths(pair)) \cup {o}
        BY <1>2, <4>1, <4>2, EnqueuedOrders
      <4>4. \A b \in Pairs : Incoming(b)' = {}
        BY <1>1, <3>1 DEF Incoming, Rests
      <4>5. \A b \in Pairs : b # pair => OrdersIn(Depths(b)') = OrdersIn(Depths(b))
        BY <4>1
      <4>. QED
        BY <1>1, <1>3, <4>3, <4>4, <4>5, OpenIs, OpenIsNext
    <3>2. CASE ~Rests(o)
      <4>1. UNCHANGED bookVars
        BY <1>5, <3>2 DEF AddOrder
      <4>2. \A b \in Pairs : Depths(b)' = Depths(b)
        BY <1>1, <4>1, BooksStay
      <4>3. \A b \in Pairs : OrdersIn(Depths(b)') = OrdersIn(Depths(b))
        BY <4>2
      <4>4. \A b \in Pairs : Incoming(b)' = IF b = pair THEN {o} ELSE {}
        BY <1>1, <1>2, <2>1, <3>2 DEF Incoming, Rests
      <4>. QED
        BY <1>1, <1>3, <4>3, <4>4, OpenIs, OpenIsNext
    <3>. QED
      BY <3>1, <3>2
  <2>. QED
    BY <1>5, <2>2
<1>. QED
  BY <1>4, <1>5

(* To the abstract engine it comes in, or nothing happens.                 *)
LEMMA AddOrderOpens ==
  ASSUME BookInv, Typed', NEW pair \in Pairs, NEW o \in NewOrder, AddOrder(pair, o)
  PROVE  [Abstract!Next]_Open
<1>1. \A b \in Pairs :
        OpenOrders(b)' = IF b = pair /\ ~Refused(pair, o) THEN OpenOrders(b) \cup {o}
                         ELSE OpenOrders(b)
  BY AddOrderPlaces
<1>2. CASE Refused(pair, o)
  BY <1>1, <1>2 DEF Open
<1>3. CASE ~Refused(pair, o)
  <2>1. Typed /\ phase = "idle" /\ o.id \notin DOMAIN orders_map[pair] /\ o \in Order /\ o.rem > 0
    <3>1. Typed /\ phase = "idle" /\ o.id \notin DOMAIN orders_map[pair]
      BY <1>3 DEF BookInv, AddOrder, Refused
    <3>2. o \in Order /\ o.rem \in Nat /\ o.rem # 0
      BY QuantitiesAssumption DEF NewOrder, Order
    <3>. QED
      BY <3>1, <3>2
  <2>2. Incoming(pair) = {}
    BY <2>1 DEF Incoming
  <2>3. Open' = [Open EXCEPT ![pair] = @ \cup {o}]
    BY <1>1, <1>3 DEF Open
  <2>4. \A other \in OpenOrders(pair) : other.id # o.id
    BY <2>1, <2>2, OpenIs, QueuedOrder
  <2>5. Abstract!Place(pair, o)
    BY <2>1, <2>3, <2>4 DEF Abstract!Place, Open
  <2>. QED
    BY <2>5, MoveIsStep
<1>. QED
  BY <1>2, <1>3

(* The orders of a book after a fill.                                      *)
LEMMA FillLeaves ==
  ASSUME BookInv, Typed', Fill,
         NEW qty, qty = Lesser(Head(SameQueue).rem, Head(OppQueue).rem)
  PROVE  /\ Head(SameQueue) \in OpenOrders(book) /\ Head(OppQueue) \in OpenOrders(book)
         /\ Head(SameQueue).side = taker.side /\ Head(OppQueue).side = Opposite(taker.side)
         /\ Head(OppQueue).price = cursor.opp
         /\ Head(SameQueue).price = IF Rests(taker) THEN cursor.same ELSE taker.price
         /\ OpenOrders(book)' = (OpenOrders(book) \ {Head(SameQueue), Head(OppQueue)})
                                  \cup Abstract!Rest({Head(SameQueue), Head(OppQueue)}, qty)
<1>. DEFINE side  == taker.side
            other == Opposite(taker.side)
            s     == cursor.same
            c     == cursor.opp
            in    == Head(SameQueue)
            out   == Head(OppQueue)
            map   == orders_map[book]
            q     == Depths(book)
            once  == [q EXCEPT ![other][c] = FillFront(q[other][c], qty)]
            left  == IF out.rem = qty THEN Forget(map, {out.id}) ELSE map
<1>1. /\ Typed /\ phase = "level" /\ SameQueue # << >> /\ OppQueue # << >>
      /\ in \in Order /\ out \in Order /\ qty \in Nat /\ qty <= in.rem /\ qty <= out.rem
      /\ ~Rests(taker) => SameQueue = <<taker>> /\ in = taker
      /\ s \in Prices /\ c \in Prices
  BY FillFacts, LevelTypes DEF BookInv
<1>2. /\ book \in Pairs /\ taker \in Order /\ side \in Sides /\ other \in Sides
      /\ side # other /\ Sides = {side, other}
  BY <1>1, WalkTypes DEF Sides, Opposite
<1>3. /\ UNCHANGED <<phase, book>>
      /\ IF Rests(taker) THEN taker' = taker ELSE taker'.rem = taker.rem - qty
      /\ taker' \in Order /\ taker'.type = taker.type
      /\ taker' = IF Rests(taker) THEN taker ELSE [taker EXCEPT !.rem = @ - qty]
  <2>1. UNCHANGED <<phase, book>>
        /\ taker' = IF Rests(taker) THEN taker ELSE [taker EXCEPT !.rem = @ - qty]
    BY DEF Fill
  <2>2. taker' \in Order
    BY <1>1, <1>2, <2>1 DEF Order
  <2>. QED
    BY <2>1, <2>2, FillFacts
<1>4. /\ FillFront(SameQueue, qty) \in Seq(Order) /\ FillFront(OppQueue, qty) \in Seq(Order)
      /\ OppQueue = Queue(book, other, c)
      /\ Rests(taker) => SameQueue = Queue(book, side, s)
      /\ \A t \in Sides, p \in Prices :
           Queue(book, t, p)' =
             IF t = side
             THEN IF Rests(taker) /\ p = s THEN FillFront(SameQueue, qty) ELSE Queue(book, t, p)
             ELSE IF p = c THEN FillFront(OppQueue, qty) ELSE Queue(book, t, p)
  BY FillQueues
<1>5. /\ q \in Depth /\ Agree(map, q) /\ map \in OrdersMap
      /\ \A t \in Sides, p \in Prices : q[t][p] = Queue(book, t, p)
  BY <1>1, <1>2, DepthsType DEF BookInv, Consistent, Typed
<1>6. /\ Depths(book)' \in Depth
      /\ \A t \in Sides, p \in Prices : Depths(book)'[t][p] = Queue(book, t, p)'
  BY <1>2, <1>3, DepthsTypedNext DEF DepthsTyped
<1>7. /\ q[other][c] = OppQueue
      /\ Rests(taker) => q[side][s] = SameQueue
      /\ 1 \in DOMAIN OppQueue /\ out = OppQueue[1]
      /\ 1 \in DOMAIN SameQueue /\ in = SameQueue[1]
  <2>1. SameQueue \in Seq(Order) /\ OppQueue \in Seq(Order)
    BY FillFacts
  <2>. QED
    BY <1>1, <1>2, <1>4, <1>5, <2>1, EmptySeq, LenProperties, HeadTailProperties
<1>. HIDE DEF q, map, in, out, s, c
<1>8. out \in OrdersIn(q) /\ out.side = other /\ out.price = c
  <2>1. out \in OrdersIn(q)
    BY <1>1, <1>2, <1>5, <1>7, EntriesOf
  <2>2. Known(map, other, c, out)
    BY <1>1, <1>2, <1>5, <1>7 DEF Agree, AllKnown
  <2>. QED
    BY <2>1, <2>2 DEF Known
<1>9. CASE Rests(taker)
  <2>1. in \in OrdersIn(q) /\ in.side = side /\ in.price = s
    <3>1. in \in OrdersIn(q)
      BY <1>1, <1>2, <1>5, <1>7, <1>9, EntriesOf
    <3>2. Known(map, side, s, in)
      BY <1>1, <1>2, <1>5, <1>7, <1>9 DEF Agree, AllKnown
    <3>. QED
      BY <3>1, <3>2 DEF Known
  <2>. DEFINE twice == [once EXCEPT ![side][s] = FillFront(once[side][s], qty)]
  <2>2. /\ once \in Depth
        /\ \A t \in Sides, p \in Prices :
             once[t][p] = IF t = other /\ p = c THEN FillFront(OppQueue, qty) ELSE q[t][p]
    BY <1>1, <1>2, <1>4, <1>5, <1>7 DEF Depth
  <2>3. Agree(left, once)
    BY <1>1, <1>2, <1>5, <1>7, FillFrontAgrees DEF out
  <2>. HIDE DEF once, left
  <2>4. OrdersIn(once) = (OrdersIn(q) \ {out}) \cup Left(out, qty)
    BY <1>1, <1>2, <1>5, <1>7, <2>2, FilledOrders DEF out
  <2>5. once[side][s] = SameQueue
    BY <1>1, <1>2, <1>7, <1>9, <2>2
  <2>6. /\ twice \in Depth
        /\ \A t \in Sides, p \in Prices :
             twice[t][p] = IF t = side /\ p = s THEN FillFront(SameQueue, qty) ELSE once[t][p]
    BY <1>1, <1>2, <1>4, <2>2, <2>5 DEF Depth
  <2>. HIDE DEF twice
  <2>7. OrdersIn(twice) = (OrdersIn(once) \ {in}) \cup Left(in, qty)
    BY <1>1, <1>2, <2>2, <2>3, <2>5, <2>6, FilledOrders DEF in
  <2>8. Depths(book)' = twice
    <3>1. ASSUME NEW t \in Sides, NEW p \in Prices
          PROVE  Depths(book)'[t][p] = twice[t][p]
      <4>1. CASE t = side
        BY <1>2, <1>4, <1>5, <1>6, <1>9, <2>2, <2>6, <4>1 DEF q, s, c
      <4>2. CASE t = other
        BY <1>2, <1>4, <1>5, <1>6, <1>9, <2>2, <2>6, <4>2 DEF q, s, c
      <4>. QED
        BY <1>2, <4>1, <4>2
    <3>. QED
      BY <1>6, <2>6, <3>1, SameDepths
  <2>9. in \notin Left(out, qty)
    BY <1>1, <1>2, <1>8, <2>1 DEF Left, Abstract!Rest, Order
  <2>10. OrdersIn(twice) = (OrdersIn(q) \ {in, out}) \cup Abstract!Rest({in, out}, qty)
    <3>1. Abstract!Rest({in, out}, qty) = Left(in, qty) \cup Left(out, qty)
      BY DEF Left, Abstract!Rest
    <3>. QED
      BY <2>4, <2>7, <2>9, <3>1
  <2>11. Incoming(book) = {} /\ Incoming(book)' = {}
    BY <1>3, <1>9 DEF Incoming, Rests
  <2>12. OpenOrders(book) = OrdersIn(q) /\ OpenOrders(book)' = OrdersIn(twice)
    <3>1. OpenOrders(book) = OrdersIn(q) \cup Incoming(book)
      BY <1>1, <1>2, OpenIs DEF q
    <3>2. OpenOrders(book)' = OrdersIn(Depths(book)') \cup Incoming(book)'
      BY <1>2, <1>3, OpenIsNext DEF OpenOrders
    <3>. QED
      BY <2>8, <2>11, <3>1, <3>2
  <2>. QED
    BY <1>8, <1>9, <2>1, <2>10, <2>12 DEF in, out, c, s
<1>10. CASE ~Rests(taker)
  <2>1. in = taker /\ taker.id \notin DOMAIN map /\ in.rem > 0
    <3>1. in = taker /\ taker.id \notin DOMAIN map
      BY <1>1, <1>10 DEF BookInv, WalkOK, map
    <3>2. in.rem # 0
      BY <1>1, <1>10, <3>1, EmptySeq DEF SameQueue
    <3>. QED
      BY <1>1, <3>1, <3>2 DEF Order
  <2>2. /\ once \in Depth
        /\ \A t \in Sides, p \in Prices :
             once[t][p] = IF t = other /\ p = c THEN FillFront(OppQueue, qty) ELSE q[t][p]
    BY <1>1, <1>2, <1>4, <1>5, <1>7 DEF Depth
  <2>. HIDE DEF once
  <2>3. OrdersIn(once) = (OrdersIn(q) \ {out}) \cup Left(out, qty)
    BY <1>1, <1>2, <1>5, <1>7, <2>2, FilledOrders DEF out
  <2>4. Depths(book)' = once
    <3>1. ASSUME NEW t \in Sides, NEW p \in Prices
          PROVE  Depths(book)'[t][p] = once[t][p]
      <4>1. CASE t = side
        BY <1>2, <1>4, <1>5, <1>6, <1>10, <2>2, <4>1 DEF q, s, c
      <4>2. CASE t = other
        BY <1>2, <1>4, <1>5, <1>6, <1>10, <2>2, <4>2 DEF q, s, c
      <4>. QED
        BY <1>2, <4>1, <4>2
    <3>. QED
      BY <1>6, <2>2, <3>1, SameDepths
  <2>5. in \notin OrdersIn(q) /\ in # out
    <3>1. in \notin OrdersIn(q)
      BY <1>2, <2>1, QueuedOrder DEF q, map
    <3>. QED
      BY <1>8, <3>1
  <2>6. Incoming(book) = {in}
    BY <1>1, <1>10, <2>1 DEF Incoming
  <2>7. Incoming(book)' = Left(in, qty)
    <3>1. Rests(taker') <=> Rests(taker)
      BY <1>3 DEF Rests
    <3>2. Incoming(book)' = {o \in {taker'} : o.rem > 0}
      BY <1>1, <1>3, <1>10, <3>1 DEF Incoming, Rests
    <3>3. taker' = [in EXCEPT !.rem = @ - qty] /\ taker'.rem = in.rem - qty
      BY <1>3, <1>10, <2>1
    <3>4. in.rem - qty > 0 <=> in.rem > qty
      BY <1>1 DEF Order
    <3>5. Left(in, qty) = {o \in {taker'} : o.rem > 0}
      <4>1. CASE in.rem > qty
        BY <3>3, <3>4, <4>1 DEF Left, Abstract!Rest
      <4>2. CASE ~(in.rem > qty)
        BY <3>3, <3>4, <4>2 DEF Left, Abstract!Rest
      <4>. QED
        BY <4>1, <4>2
    <3>. QED
      BY <3>2, <3>5
  <2>8. OpenOrders(book) = OrdersIn(q) \cup {in}
    BY <1>1, <1>2, <2>6, OpenIs DEF q
  <2>9. OpenOrders(book)' = OrdersIn(once) \cup Left(in, qty)
    <3>1. OpenOrders(book)' = OrdersIn(Depths(book)') \cup Incoming(book)'
      BY <1>2, <1>3, OpenIsNext DEF OpenOrders
    <3>. QED
      BY <2>4, <2>7, <3>1
  <2>10. OpenOrders(book)' = (OpenOrders(book) \ {in, out}) \cup Abstract!Rest({in, out}, qty)
    <3>1. Abstract!Rest({in, out}, qty) = Left(in, qty) \cup Left(out, qty)
      BY DEF Left, Abstract!Rest
    <3>. QED
      BY <1>8, <2>3, <2>5, <2>8, <2>9, <3>1
  <2>11. in.side = side /\ in.price = taker.price
    BY <2>1
  <2>. QED
    BY <1>8, <1>10, <2>8, <2>10, <2>11 DEF in, out, c, s
<1>. QED
  BY <1>9, <1>10

(* A fill is a trade that both parties accept, at the resting price, and   *)
(* touches their two orders only.                                          *)
LEMMA FillDeals ==
  ASSUME BookInv, WalkInv, Typed', Fill,
         NEW in, in = Head(SameQueue), NEW out, out = Head(OppQueue),
         NEW qty, qty = Lesser(in.rem, out.rem),
         NEW bid, bid = IF taker.side = "Buy" THEN in ELSE out,
         NEW ask, ask = IF taker.side = "Buy" THEN out ELSE in
  PROVE  /\ Abstract!Agree(bid, ask, cursor.opp)
         /\ {bid, ask} = {in, out} /\ in # out
         /\ in \in OpenOrders(book) /\ out \in OpenOrders(book)
         /\ in \in Order /\ out \in Order /\ qty \in Nat /\ cursor.opp \in Prices
         /\ qty \in {in.rem, out.rem} /\ qty <= in.rem /\ qty <= out.rem
         /\ \A b \in Pairs :
              OpenOrders(b)' = IF b = book
                               THEN (OpenOrders(b) \ {in, out}) \cup Abstract!Rest({in, out}, qty)
                               ELSE OpenOrders(b)
<1>. DEFINE c == cursor.opp
<1>1. /\ phase = "level" /\ in \in Order /\ out \in Order /\ in.user # out.user
      /\ qty \in Nat /\ qty \in {in.rem, out.rem} /\ qty <= in.rem /\ qty <= out.rem
  BY FillFacts
<1>2. /\ in \in OpenOrders(book) /\ out \in OpenOrders(book)
      /\ in.side = taker.side /\ out.side = Opposite(taker.side) /\ out.price = c
      /\ in.price = IF Rests(taker) THEN cursor.same ELSE taker.price
      /\ OpenOrders(book)' = (OpenOrders(book) \ {in, out}) \cup Abstract!Rest({in, out}, qty)
  BY FillLeaves
<1>3. /\ Typed /\ book \in Pairs /\ taker \in Order /\ taker.side \in Sides /\ c \in Prices
  BY <1>1, WalkTypes, LevelTypes DEF BookInv
<1>4. UNCHANGED <<phase, book>>
  BY DEF Fill
<1>5. \A b \in Pairs : b # book => OpenOrders(b)' = OpenOrders(b)
  <2>1. SUFFICES ASSUME NEW b \in Pairs, b # book
                 PROVE  OpenOrders(b)' = OpenOrders(b)
    OBVIOUS
  <2>2. \A t \in Sides, p \in Prices : Queue(b, t, p)' = Queue(b, t, p)
    BY <2>1, FillQueues
  <2>3. Depths(b)' = Depths(b)
    BY <2>2 DEF Depths
  <2>4. Incoming(b) = {} /\ Incoming(b)' = {}
    BY <1>4, <2>1 DEF Incoming
  <2>5. OrdersIn(Depths(b)') = OrdersIn(Depths(b))
    BY <2>3
  <2>. QED
    BY <1>3, <2>4, <2>5, OpenIs, OpenIsNext
<1>6. in.price = cursor.same
  BY <1>1, <1>2 DEF WalkInv, LoneOK
<1>7. Abstract!Agree(bid, ask, c)
  <2>1. Crosses(taker.side, cursor.same, c)
    BY <1>1 DEF WalkInv, CrossOK
  <2>2. c \in Nat /\ cursor.same \in Nat
    BY <1>1, <1>3, LevelTypes, PricesAssumption
  <2>3. CASE taker.side = "Buy"
    <3>1. cursor.same >= c /\ bid = in /\ ask = out
      BY <2>1, <2>3 DEF Crosses
    <3>2. bid.side = "Buy" /\ ask.side = "Sell"
      BY <1>2, <2>3, <3>1 DEF Opposite
    <3>. HIDE DEF c
    <3>. QED
      BY <1>1, <1>2, <1>6, <2>2, <3>1, <3>2 DEF Abstract!Agree
  <2>4. CASE taker.side = "Sell"
    <3>1. cursor.same <= c /\ bid = out /\ ask = in
      BY <2>1, <2>4 DEF Crosses
    <3>2. bid.side = "Buy" /\ ask.side = "Sell"
      BY <1>2, <2>4, <3>1 DEF Opposite
    <3>. HIDE DEF c
    <3>. QED
      BY <1>1, <1>2, <1>6, <2>2, <3>1, <3>2 DEF Abstract!Agree
  <2>. QED
    BY <1>3, <2>3, <2>4 DEF Sides
<1>. DEFINE left == Abstract!Rest({in, out}, qty)
<1>8. \A b \in Pairs : OpenOrders(b)' = IF b = book THEN (OpenOrders(b) \ {in, out}) \cup left
                                        ELSE OpenOrders(b)
  <2>. HIDE DEF left
  <2>1. OpenOrders(book)' = (OpenOrders(book) \ {in, out}) \cup left
    BY <1>2 DEF left
  <2>2. \A b \in Pairs : b = book => OpenOrders(b)' = OpenOrders(book)'
    BY <1>4 DEF OpenOrders, Queue, AllLevels
  <2>. QED
    BY <1>5, <2>1, <2>2
<1>. QED
  BY <1>1, <1>2, <1>3, <1>7, <1>8 DEF left

(* To the abstract engine it is a trade.                                   *)
LEMMA FillTrades ==
  ASSUME BookInv, WalkInv, Typed', Fill
  PROVE  [Abstract!Next]_Open
<1>. DEFINE in  == Head(SameQueue)
            out == Head(OppQueue)
            qty == Lesser(in.rem, out.rem)
            bid == IF taker.side = "Buy" THEN in ELSE out
            ask == IF taker.side = "Buy" THEN out ELSE in
            c   == cursor.opp
            left == Abstract!Rest({in, out}, qty)
<1>1. /\ Abstract!Agree(bid, ask, c) /\ {bid, ask} = {in, out}
      /\ in \in OpenOrders(book) /\ out \in OpenOrders(book)
      /\ in \in Order /\ out \in Order /\ qty \in Nat /\ c \in Prices
      /\ qty \in {in.rem, out.rem} /\ qty <= in.rem /\ qty <= out.rem
      /\ \A b \in Pairs : OpenOrders(b)' = IF b = book THEN (OpenOrders(b) \ {in, out}) \cup left
                                             ELSE OpenOrders(b)
  BY FillDeals
<1>2. book \in Pairs
  BY WalkTypes DEF BookInv, Fill, InLevel
<1>. HIDE DEF qty
<1>3. /\ qty \in {bid.rem, ask.rem} /\ qty <= bid.rem /\ qty <= ask.rem
      /\ bid \in OpenOrders(book) /\ ask \in OpenOrders(book)
  BY <1>1
<1>4. Abstract!Rest({bid, ask}, qty) = left
  BY <1>1
<1>. HIDE DEF left, in, out, bid, ask
<1>5. Open' = [Open EXCEPT ![book] = (@ \ {in, out}) \cup left]
  BY <1>1 DEF Open
<1>6. Open' = [Open EXCEPT ![book] = (@ \ {bid, ask}) \cup Abstract!Rest({bid, ask}, qty)]
  BY <1>1, <1>4, <1>5
<1>7. Abstract!Trade(book, bid, ask, c)
  BY <1>1, <1>3, <1>6 DEF Abstract!Trade, Open
<1>8. bid \in Open[book] /\ ask \in Open[book]
  BY <1>2, <1>3 DEF Open
<1>. HIDE DEF c
<1>. QED
  BY <1>1, <1>2, <1>7, <1>8, MoveIsStep

(* The end of the walk discards an incoming order that has not come to     *)
(* rest.                                                                   *)
LEMMA FinishDiscards ==
  ASSUME BookInv, Typed', Finish, NEW b \in Pairs
  PROVE  /\ OpenOrders(b) = OrdersIn(Depths(b)) \cup Incoming(b)
         /\ OpenOrders(b)' = OrdersIn(Depths(b))
         /\ OpenOrders(b)' = {o \in OpenOrders(b) : Rests(o)}
<1>1. Typed /\ ThinsBy(NoIds) /\ phase' \notin {"walk", "level"}
  BY FinishThins DEF Finish, BookInv
<1>2. Incoming(b)' = {}
  BY <1>1 DEF Incoming
<1>3. OrdersIn(Depths(b)') = OrdersIn(Depths(b))
  <2>1. OrdersIn(Depths(b)') = {o \in OrdersIn(Depths(b)) : o.id \notin NoIds[b]}
    BY <1>1, ThinnedOpen
  <2>. QED
    BY <2>1 DEF NoIds
<1>4. \A o \in OrdersIn(Depths(b)) : Rests(o)
  BY QueuedOrder
<1>5. \A o \in Incoming(b) : ~Rests(o)
  BY DEF Incoming
<1>6. OpenOrders(b) = OrdersIn(Depths(b)) \cup Incoming(b)
  BY <1>1, OpenIs
<1>7. OpenOrders(b)' = OrdersIn(Depths(b))
  BY <1>2, <1>3, OpenIsNext
<1>. QED
  BY <1>4, <1>5, <1>6, <1>7

(* The end of the walk: a fill-and-kill order that is not filled is        *)
(* withdrawn, with nobody left to trade with; nothing else changes.        *)
LEMMA FinishOpens ==
  ASSUME BookInv, WalkInv, Typed', Finish
  PROVE  [Abstract!Next]_Open
<1>1. phase = "walk" /\ UNCHANGED <<book, taker>> /\ Typed
  BY DEF Finish, BookInv
<1>2. book \in Pairs /\ taker \in Order /\ taker.side \in Sides
  BY <1>1, WalkTypes
<1>3. \A b \in Pairs : /\ OpenOrders(b) = OrdersIn(Depths(b)) \cup Incoming(b)
                       /\ OpenOrders(b)' = OrdersIn(Depths(b))
  BY FinishDiscards
<1>4. CASE Rests(taker) \/ ~(taker.rem > 0)
  <2>1. \A b \in Pairs : Incoming(b) = {}
    BY <1>4 DEF Incoming
  <2>2. Open' = Open
    BY <1>3, <2>1 DEF Open
  <2>. QED
    BY <2>2
<1>6. CASE ~Rests(taker) /\ taker.rem > 0
  <2>1. /\ taker.type = "FAK"
        /\ \A p \in Prices : Crosses(taker.side, taker.price, p) =>
             AllOf(QueueAt(Overlaid(OppLevels, parked), p), taker.user)
    BY <1>6, FinishFacts
  <2>2. \A b \in Pairs : Incoming(b) = IF b = book THEN {taker} ELSE {}
    BY <1>1, <1>6 DEF Incoming
  <2>3. OpenOrders(book) = OrdersIn(Depths(book)) \cup {taker}
    BY <1>2, <1>3, <2>2
  <2>4. taker \notin OrdersIn(Depths(book))
    <3>1. taker.id \notin DOMAIN orders_map[book]
      BY <1>1, <1>6 DEF BookInv, WalkOK
    <3>. QED
      BY <1>2, <3>1, QueuedOrder
  <2>5. \A b \in Pairs :
          OpenOrders(b)' = IF b = book THEN OpenOrders(b) \ {taker} ELSE OpenOrders(b)
    <3>1. ASSUME NEW b \in Pairs, b = book
          PROVE  OpenOrders(b)' = OpenOrders(b) \ {taker}
      BY <1>3, <2>3, <2>4, <3>1
    <3>2. ASSUME NEW b \in Pairs, b # book
          PROVE  OpenOrders(b)' = OpenOrders(b)
      BY <1>3, <2>2, <3>2
    <3>. QED
      BY <3>1, <3>2
  <2>6. Open' = [Open EXCEPT ![book] = @ \ {taker}]
    BY <2>5 DEF Open
  <2>7. ASSUME NEW o \in OpenOrders(book), NEW price \in Prices,
               Abstract!Agree(taker, o, price) \/ Abstract!Agree(o, taker, price)
        PROVE  FALSE
    <3>1. o # taker /\ o \in OrdersIn(Depths(book))
      BY <2>3, <2>7 DEF Abstract!Agree
    <3>2. o \in Order /\ o.price \in Prices /\ o \in Range(Queue(book, o.side, o.price))
      BY <1>2, <3>1, QueuedOrder DEF Order
    <3>3. o.side = Opposite(taker.side) /\ Crosses(taker.side, taker.price, o.price)
      <4>1. taker.price \in Nat /\ o.price \in Nat /\ price \in Nat
        BY <1>2, <3>2, PricesAssumption DEF Order
      <4>2. CASE Abstract!Agree(taker, o, price)
        BY <4>1, <4>2 DEF Abstract!Agree, Opposite, Crosses
      <4>3. CASE Abstract!Agree(o, taker, price)
        BY <4>1, <4>3 DEF Abstract!Agree, Opposite, Crosses
      <4>. QED
        BY <2>7, <4>2, <4>3
    <3>4. Queue(book, o.side, o.price) = QueueAt(Overlaid(OppLevels, parked), o.price)
      BY <1>1, <1>2, <3>2, <3>3, WalkQueue, WalkTypes
    <3>5. o.user = taker.user
      BY <2>1, <3>2, <3>3, <3>4 DEF AllOf, Range
    <3>. QED
      BY <2>7, <3>5 DEF Abstract!Agree
  <2>8. Abstract!Droppable(book, taker)
    BY <1>2, <2>1, <2>7 DEF Abstract!Droppable
  <2>9. Abstract!Withdraw(book, {taker})
    BY <2>6, <2>8 DEF Abstract!Withdraw, Open
  <2>10. {taker} \in SUBSET Open[book]
    BY <1>2, <2>3 DEF Open
  <2>. QED
    BY <1>2, <2>9, <2>10, MoveIsStep
<1>. QED
  BY <1>4, <1>6

(* The other steps of the walk touch no open order.                        *)
LEMMA MatchStays ==
  ASSUME BookInv, Typed', Match, ~Fill, ~Finish
  PROVE  Open' = Open
<1>1. ThinsBy(NoIds)
  BY MatchThins
<1>2. /\ UNCHANGED <<book, taker>>
      /\ phase \in {"walk", "level"} /\ phase' \in {"walk", "level"}
  BY DEF Match, EnterLevel, SkipResting, PassTurn, ParkLevel, LeaveLevel, SelfTrade, InLevel
<1>3. \A b \in Pairs : Incoming(b)' = Incoming(b)
  BY <1>2 DEF Incoming, Rests
<1>. QED
  BY <1>1, <1>3, OpenStays DEF BookInv

(* Nor does answering the caller.                                          *)
LEMMA ReturnStays ==
  ASSUME BookInv, Typed', Return
  PROVE  Open' = Open
<1>1. ThinsBy(NoIds)
  BY ReturnThins
<1>2. \A b \in Pairs : Incoming(b) = {} /\ Incoming(b)' = {}
  BY DEF Return, Incoming
<1>. QED
  BY <1>1, <1>2, OpenStays DEF BookInv

(* Every step of the book is one the abstract engine allows, or says       *)
(* nothing to it.                                                          *)
LEMMA StepOpens ==
  ASSUME BookInv, WalkInv, Typed', [Next]_vars
  PROVE  [Abstract!Next]_Open
<1>1. Typed
  BY DEF BookInv
<1>2. ASSUME NEW pair \in Pairs, NEW o \in NewOrder, AddOrder(pair, o)
      PROVE  [Abstract!Next]_Open
  BY <1>2, AddOrderOpens
<1>3. CASE Match /\ ~Fill /\ ~Finish
  BY <1>3, MatchStays
<1>4. CASE Return
  BY <1>4, ReturnStays
<1>5. ASSUME NEW pair \in Pairs, NEW id \in OrderIds, CancelOrder(pair, id)
      PROVE  [Abstract!Next]_Open
  <2>1. phase = "idle" /\ phase' = "idle"
    BY <1>5 DEF CancelOrder, callVars
  <2>. QED
    BY <1>5, <2>1, CancelOrderThins, OpenWithdraws
<1>6. ASSUME NEW pair \in Pairs, NEW user \in Users, CancelOrdersForUser(pair, user)
      PROVE  [Abstract!Next]_Open
  <2>1. phase = "idle" /\ phase' = "idle"
    BY <1>6 DEF CancelOrdersForUser, callVars
  <2>. QED
    BY <1>6, <2>1, CancelOrdersForUserThins, OpenWithdraws
<1>7. CASE UNCHANGED vars
  <2>1. Open' = Open
    BY <1>7 DEF vars, Open, OpenOrders, Queue, AllLevels
  <2>. QED
    BY <2>1
<1>. QED
  BY <1>2, <1>3, <1>4, <1>5, <1>6, <1>7, FillTrades, FinishOpens DEF Next

(* The empty books are an empty abstract engine.                           *)
LEMMA InitOpens == Init => Abstract!Init
<1>. SUFFICES ASSUME Init PROVE Abstract!Init
  OBVIOUS
<1>1. BookInv
  BY InitBookInv
<1>2. ASSUME NEW pair \in Pairs
      PROVE  OpenOrders(pair) = {}
  <2>1. DOMAIN orders_map[pair] = {}
    BY DEF Init
  <2>2. OrdersIn(Depths(pair)) = {}
    BY <1>1, <2>1, QueuedOrder
  <2>3. Incoming(pair) = {}
    BY DEF Init, Incoming
  <2>. QED
    BY <1>1, <2>2, <2>3, OpenIs DEF BookInv
<1>. QED
  BY <1>2 DEF Abstract!Init

(* The price-time priority book, with its levels, queues, parked levels    *)
(* and lookup map, implements the abstract matching engine of OpenOrders:  *)
(* seen through the set of open orders, all of add_order, the walk,        *)
(* cancel_order and cancel_orders_for_user is an order coming in under a   *)
(* fresh id, a trade that two different users accept, or a withdrawal that *)
(* the order's type allows.                                                *)
THEOREM BookImplementsOpenOrders == Spec => ImplementsOpenOrders
<1>1. BookInv /\ WalkInv /\ BookInv' /\ [Next]_vars => [Abstract!Next]_Open
  BY StepOpens DEF BookInv
<1>. QED
  BY InitOpens, WalkInvariant, <1>1, PTL DEF Spec, ImplementsOpenOrders, Abstract!Spec, Open

-----------------------------------------------------------------------------
(* What is left crossed                                                    *)

(* Some order of a side is the user's.                                     *)
Within(f, user) == \E p \in DOMAIN f : \E i \in DOMAIN f[p] : f[p][i].user = user

(* The user has traded on the incoming side during this call.              *)
Traded(user) ==
  \E t \in Range(trades) : user = IF taker.side = "Buy" THEN t.buyer ELSE t.seller

(* The user has had an order on the incoming side during this call.        *)
Beside(user) == Within(SameLevels, user) \/ Traded(user)

(* The walk of an order that rests: whoever has an order in a level that   *)
(* is set aside, an order that was skipped, or any order of a level at     *)
(* which a turn was passed, has had one on the incoming side as well.      *)
PassedOK ==
  phase \in {"walk", "level"} /\ Rests(taker) =>
    /\ \A p \in DOMAIN parked : \A i \in DOMAIN parked[p] : Beside(parked[p][i].user)
    /\ phase = "level" =>
         /\ Len(OppQueue) <= cursor.opp_len
         /\ \A i \in DOMAIN OppQueue :
              i > Len(OppQueue) - cursor.skipped \/ cursor.rotated > 0 => Beside(OppQueue[i].user)

CrossedInv == PassedOK /\ CrossedOnlyBySelf

(* A side keeps the user's orders if the queue that changes does.          *)
LEMMA WithinSet ==
  ASSUME NEW f, NEW p, NEW queue, NEW user, Within(f, user),
         p \in DOMAIN f /\ (\E i \in DOMAIN f[p] : f[p][i].user = user)
           => \E i \in DOMAIN queue : queue[i].user = user
  PROVE  Within(SetLevel(f, p, queue), user)
<1>1. PICK q \in DOMAIN f : \E i \in DOMAIN f[q] : f[q][i].user = user
  BY DEF Within
<1>2. CASE q = p
  BY <1>1, <1>2 DEF Within, SetLevel
<1>3. CASE q # p
  BY <1>1, <1>3 DEF Within, SetLevel
<1>. QED
  BY <1>2, <1>3

(* The users of a rotated queue are those of the queue.                    *)
LEMMA RotateUsers ==
  ASSUME NEW queue \in Seq(Order), queue # << >>, NEW i \in DOMAIN queue
  PROVE  \E j \in DOMAIN Rotate(queue) : Rotate(queue)[j].user = queue[i].user
<1>1. /\ Len(queue) \in Nat \ {0}
      /\ DOMAIN queue = 1..Len(queue) /\ DOMAIN Rotate(queue) = 1..Len(queue)
      /\ \A k \in 1..(Len(queue) - 1) : Rotate(queue)[k] = queue[k + 1]
      /\ Rotate(queue)[Len(queue)] = Head(queue) /\ Head(queue) = queue[1]
  BY RotateShape
<1>2. CASE i = 1
  BY <1>1, <1>2
<1>3. CASE i # 1
  <2>1. i - 1 \in 1..(Len(queue) - 1) /\ (i - 1) + 1 = i /\ i - 1 \in 1..Len(queue)
    BY <1>1, <1>3
  <2>2. Rotate(queue)[i - 1] = queue[i]
    BY <1>1, <2>1
  <2>. QED
    BY <1>1, <2>1, <2>2
<1>. QED
  BY <1>2, <1>3

(* ... and every entry of it is one of the queue.                          *)
LEMMA RotateEntries ==
  ASSUME NEW queue \in Seq(Order), queue # << >>, NEW j \in DOMAIN Rotate(queue)
  PROVE  \E i \in DOMAIN queue : Rotate(queue)[j] = queue[i]
<1>1. /\ Len(queue) \in Nat \ {0}
      /\ DOMAIN queue = 1..Len(queue) /\ DOMAIN Rotate(queue) = 1..Len(queue)
      /\ \A k \in 1..(Len(queue) - 1) : Rotate(queue)[k] = queue[k + 1]
      /\ Rotate(queue)[Len(queue)] = Head(queue) /\ Head(queue) = queue[1]
  BY RotateShape
<1>2. CASE j = Len(queue)
  BY <1>1, <1>2
<1>3. CASE j # Len(queue)
  <2>1. j \in 1..(Len(queue) - 1) /\ j + 1 \in 1..Len(queue)
    BY <1>1, <1>3
  <2>. QED
    BY <1>1, <2>1
<1>. QED
  BY <1>2, <1>3

(* A fill leaves each user in the queue, unless it is the one at its front.*)
LEMMA FillFrontUsers ==
  ASSUME NEW queue \in Seq(Order), queue # << >>, NEW qty \in Nat, qty <= Head(queue).rem,
         NEW i \in DOMAIN queue, queue[i].user # Head(queue).user
  PROVE  \E j \in DOMAIN FillFront(queue, qty) : FillFront(queue, qty)[j].user = queue[i].user
<1>1. /\ Len(queue) \in Nat \ {0} /\ DOMAIN queue = 1..Len(queue) /\ Head(queue) = queue[1]
      /\ \/ /\ DOMAIN FillFront(queue, qty) = 1..(Len(queue) - 1)
            /\ \A k \in 1..(Len(queue) - 1) : FillFront(queue, qty)[k] = queue[k + 1]
         \/ /\ DOMAIN FillFront(queue, qty) = 1..Len(queue)
            /\ \A k \in 2..Len(queue) : FillFront(queue, qty)[k] = queue[k]
  BY FillFrontShape, RotateShape
<1>2. i # 1
  BY <1>1
<1>3. /\ i - 1 \in 1..(Len(queue) - 1) /\ (i - 1) + 1 = i
      /\ i \in 2..Len(queue) /\ i \in 1..Len(queue)
  BY <1>1, <1>2
<1>4. CASE /\ DOMAIN FillFront(queue, qty) = 1..(Len(queue) - 1)
           /\ \A k \in 1..(Len(queue) - 1) : FillFront(queue, qty)[k] = queue[k + 1]
  <2>1. FillFront(queue, qty)[i - 1] = queue[i]
    BY <1>3, <1>4
  <2>. QED
    BY <1>3, <1>4, <2>1
<1>5. CASE /\ DOMAIN FillFront(queue, qty) = 1..Len(queue)
           /\ \A k \in 2..Len(queue) : FillFront(queue, qty)[k] = queue[k]
  BY <1>3, <1>5
<1>. QED
  BY <1>1, <1>4, <1>5

(* A user that has traded has done so for the rest of the call.            *)
LEMMA TradedStays ==
  ASSUME Typed, Match, taker' = taker, NEW user, Traded(user)
  PROVE  Traded(user)'
<1>1. PICK t \in Range(trades) : user = IF taker.side = "Buy" THEN t.buyer ELSE t.seller
  BY DEF Traded
<1>2. trades \in Seq(Trade)
  BY DEF Typed
<1>3. trades' = trades \/ \E new : trades' = Append(trades, new)
  BY DEF Match, EnterLevel, SkipResting, PassTurn, ParkLevel, Fill, LeaveLevel, Finish
<1>4. ASSUME NEW new, trades' = Append(trades, new)
      PROVE  t \in Range(trades')
  <2>1. PICK i \in DOMAIN trades : t = trades[i]
    BY <1>1 DEF Range
  <2>2. i \in 1..Len(trades) /\ Len(trades) \in Nat
    BY <1>2, <2>1, LenProperties
  <2>3. i \in DOMAIN trades' /\ trades'[i] = trades[i]
    BY <1>2, <1>4, <2>2
  <2>. QED
    BY <2>1, <2>3 DEF Range
<1>5. t \in Range(trades')
  BY <1>1, <1>3, <1>4
<1>. QED
  BY <1>1, <1>5 DEF Traded

(* The incoming order's own party to a fill has traded on that side.       *)
LEMMA FillTraded ==
  ASSUME Typed, Fill, taker' = taker, NEW user, user = Head(SameQueue).user
  PROVE  Traded(user)'
<1>. DEFINE incoming == Head(SameQueue)
            resting  == Head(OppQueue)
            qty == Lesser(incoming.rem, resting.rem)
            bid == IF taker.side = "Buy" THEN incoming ELSE resting
            ask == IF taker.side = "Buy" THEN resting ELSE incoming
            new == [bid |-> bid.id, ask |-> ask.id, buyer |-> bid.user, seller |-> ask.user,
                    price |-> cursor.opp, qty |-> qty]
<1>1. trades' = Append(trades, new) /\ trades \in Seq(Trade)
  BY DEF Fill, Typed
<1>2. user = IF taker.side = "Buy" THEN new.buyer ELSE new.seller
  OBVIOUS
<1>. HIDE DEF new
<1>3. /\ Len(trades) \in Nat /\ Len(trades) + 1 \in DOMAIN trades'
      /\ trades'[Len(trades) + 1] = new
  BY <1>1, LenProperties
<1>4. new \in Range(trades')
  BY <1>3 DEF Range
<1>. QED
  BY <1>2, <1>4 DEF Traded

(* The walk of an order that rests takes nobody off the incoming side who  *)
(* has not traded.                                                         *)
LEMMA BesideStays ==
  ASSUME BookInv, WalkInv, Match, Rests(taker), NEW user, Beside(user)
  PROVE  Beside(user)'
<1>1. taker' = taker /\ book' = book /\ Typed /\ phase # "idle"
  BY DEF BookInv, Match, EnterLevel, SkipResting, PassTurn, ParkLevel, Fill, LeaveLevel, Finish,
         SelfTrade, InLevel
<1>2. CASE Traded(user)
  BY <1>1, <1>2, TradedStays DEF Beside
<1>3. ASSUME Within(SameLevels, user), SameLevels' = SameLevels
      PROVE  Beside(user)'
  BY <1>3 DEF Beside, Within
<1>4. CASE Within(SameLevels, user) /\ (EnterLevel \/ SkipResting \/ ParkLevel \/ Finish)
  <2>1. /\ book \in Pairs /\ taker.side \in Sides /\ Sides = {taker.side, Opposite(taker.side)}
        /\ levels \in Books
    BY <1>1, WalkTypes DEF Typed, Sides, Opposite
  <2>2. \/ levels' = levels
        \/ \E opp : levels' = [levels EXCEPT ![book] = BookOf(SameLevels, opp)]
    BY <1>4 DEF EnterLevel, SkipResting, ParkLevel, Finish
  <2>3. SameLevels' = SameLevels
    BY <1>1, <2>1, <2>2 DEF Books, BookOf, SameLevels
  <2>. QED
    BY <1>3, <1>4, <2>3
<1>5. CASE Within(SameLevels, user) /\ (PassTurn \/ Fill)
  <2>. DEFINE qty == Lesser(Head(SameQueue).rem, Head(OppQueue).rem)
              after == IF PassTurn THEN Rotate(SameQueue) ELSE FillFront(SameQueue, qty)
  <2>1. /\ book \in Pairs /\ taker.side \in Sides /\ Sides = {taker.side, Opposite(taker.side)}
        /\ levels \in Books
    BY <1>1, WalkTypes DEF Typed, Sides, Opposite
  <2>2. /\ phase = "level" /\ SameQueue = SameLevels[cursor.same]
        /\ SameQueue # << >> /\ SameQueue \in Seq(Order)
    BY <1>5, LevelFacts DEF PassTurn, Fill, SelfTrade, InLevel, SameQueue
  <2>3. \E opp : levels' = [levels EXCEPT ![book] =
                               BookOf(SetLevel(SameLevels, cursor.same, after), opp)]
    BY <1>5, Zenon DEF PassTurn, Fill
  <2>4. SameLevels' = SetLevel(SameLevels, cursor.same, after)
    <3>. HIDE DEF after
    <3>. QED
      BY <1>1, <2>1, <2>3 DEF Books, BookOf, SameLevels
  <2>5. ASSUME ~(Fill /\ user = Head(SameQueue).user), NEW i \in DOMAIN SameQueue,
               SameQueue[i].user = user
        PROVE  \E j \in DOMAIN after : after[j].user = user
    <3>1. CASE PassTurn
      BY <2>2, <2>5, <3>1, RotateUsers
    <3>2. CASE ~PassTurn
      <4>1. Fill /\ SameQueue[i].user # Head(SameQueue).user
        BY <1>5, <2>5, <3>2
      <4>2. qty \in Nat /\ qty <= Head(SameQueue).rem
        BY <4>1, FillFacts
      <4>3. after = FillFront(SameQueue, qty)
        BY <3>2
      <4>. HIDE DEF qty, after
      <4>. QED
        BY <2>2, <2>5, <4>1, <4>2, <4>3, FillFrontUsers
    <3>. QED
      BY <3>1, <3>2
  <2>6. CASE Fill /\ user = Head(SameQueue).user
    BY <1>1, <2>6, FillTraded DEF Beside
  <2>7. CASE ~(Fill /\ user = Head(SameQueue).user)
    <3>. HIDE DEF after
    <3>1. (\E i \in DOMAIN SameQueue : SameQueue[i].user = user)
            => \E j \in DOMAIN after : after[j].user = user
      BY <2>5, <2>7
    <3>2. Within(SetLevel(SameLevels, cursor.same, after), user)
      BY <1>5, <2>2, <3>1, WithinSet
    <3>. QED
      BY <2>4, <3>2 DEF Beside, Within
  <2>. QED
    BY <2>6, <2>7
<1>6. CASE Within(SameLevels, user) /\ LeaveLevel
  <2>1. /\ book \in Pairs /\ taker.side \in Sides /\ Sides = {taker.side, Opposite(taker.side)}
        /\ levels \in Books
    BY <1>1, WalkTypes DEF Typed, Sides, Opposite
  <2>2. levels' = [levels EXCEPT ![book] =
                     BookOf(Prune(SameLevels, cursor.same), Prune(OppLevels, cursor.opp))]
    BY <1>6 DEF LeaveLevel
  <2>3. SameLevels' = Prune(SameLevels, cursor.same)
    BY <1>1, <2>1, <2>2 DEF Books, BookOf, SameLevels
  <2>4. Within(Prune(SameLevels, cursor.same), user)
    BY <1>6 DEF Within, Prune, DropLevel
  <2>. QED
    BY <2>3, <2>4 DEF Beside, Within
<1>. QED
  BY <1>2, <1>4, <1>5, <1>6 DEF Beside, Match

(* A step of the walk keeps PassedOK if whoever it parks or passes by is   *)
(* known to have had an order on the incoming side.                        *)
LEMMA PassedStep ==
  ASSUME BookInv, WalkInv, Match, Rests(taker),
         \A p \in DOMAIN parked' : \A i \in DOMAIN parked'[p] : Beside(parked'[p][i].user),
         phase' = "level" =>
           /\ Len(OppQueue') <= cursor'.opp_len
           /\ \A i \in DOMAIN OppQueue' :
                i > Len(OppQueue') - cursor'.skipped \/ cursor'.rotated > 0
                  => Beside(OppQueue'[i].user)
  PROVE  PassedOK'
<1>1. ASSUME NEW p \in DOMAIN parked', NEW i \in DOMAIN parked'[p], NEW user,
             user = parked'[p][i].user
      PROVE  Beside(user)'
  <2>1. Beside(user)
    BY <1>1
  <2>. QED
    BY <2>1, BesideStays
<1>2. ASSUME phase' = "level", NEW i \in DOMAIN OppQueue',
             i > Len(OppQueue') - cursor'.skipped \/ cursor'.rotated > 0,
             NEW user, user = OppQueue'[i].user
      PROVE  Beside(user)'
  <2>1. Beside(user)
    BY <1>2
  <2>. QED
    BY <2>1, BesideStays
<1>. QED
  BY <1>1, <1>2 DEF PassedOK, Beside, Within, Traded

(* In a self-trade of an order that rests, the order at the front of the   *)
(* level belongs to a user with an order on the incoming side.             *)
LEMMA SelfTradeBeside ==
  ASSUME BookInv, WalkInv, SelfTrade, Rests(taker)
  PROVE  Beside(Head(OppQueue).user)
<1>1. /\ SameQueue = SameLevels[cursor.same] /\ SameQueue # << >> /\ SameQueue \in Seq(Order)
      /\ Head(SameQueue).user = Head(OppQueue).user /\ phase = "level"
  BY LevelFacts DEF SelfTrade, InLevel, SameQueue
<1>2. cursor.same \in DOMAIN SameLevels
  BY <1>1, LevelTypes DEF BookInv
<1>3. 1 \in DOMAIN SameQueue /\ Head(SameQueue) = SameQueue[1]
  BY <1>1, RotateShape
<1>. QED
  BY <1>1, <1>2, <1>3 DEF Beside, Within

(* Entering a level: nothing is skipped there yet.                         *)
LEMMA EnterLevelPassed ==
  ASSUME BookInv, WalkInv, PassedOK, EnterLevel, Rests(taker)
  PROVE  PassedOK'
<1>1. PICK same \in Prices, opp \in Prices :
        /\ opp \in DOMAIN OppLevels
        /\ cursor' = [same |-> same, opp |-> opp,
                      same_len |-> IF Rests(taker) THEN Len(SameLevels[same]) ELSE 1,
                      opp_len |-> Len(OppLevels[opp]),
                      skipped |-> 0, rotated |-> 0]
  BY DEF EnterLevel, NextLevels, IsBest
<1>2. /\ phase = "walk" /\ Typed
      /\ UNCHANGED <<levels, orders_map, book, taker, parked, trades>>
  BY DEF EnterLevel, BookInv
<1>3. /\ OppQueue' = OppLevels[opp] /\ cursor'.opp_len = Len(OppLevels[opp])
      /\ cursor'.skipped = 0 /\ cursor'.rotated = 0
  BY <1>1, <1>2 DEF OppLevels, OppQueue
<1>4. /\ Len(OppLevels[opp]) \in Nat /\ DOMAIN OppLevels[opp] = 1..Len(OppLevels[opp])
  BY <1>1, <1>2, WalkTypes, LenProperties DEF IsSide
<1>5. \A i \in DOMAIN OppQueue' : ~(i > Len(OppQueue') - cursor'.skipped \/ cursor'.rotated > 0)
  BY <1>3, <1>4
<1>6. Len(OppQueue') <= cursor'.opp_len
  BY <1>3, <1>4
<1>7. \A p \in DOMAIN parked : \A i \in DOMAIN parked[p] : Beside(parked[p][i].user)
  BY <1>2 DEF PassedOK
<1>. QED
  BY <1>2, <1>5, <1>6, <1>7, PassedStep DEF Match

(* Skipping an order: it is at the end of the queue then.                  *)
LEMMA SkipRestingPassed ==
  ASSUME BookInv, WalkInv, PassedOK, SkipResting, Rests(taker)
  PROVE  PassedOK'
<1>. DEFINE after == Rotate(OppQueue)
            opp   == SetLevel(OppLevels, cursor.opp, after)
<1>1. /\ phase = "level" /\ OppQueue # << >>
      /\ levels' = [levels EXCEPT ![book] = BookOf(SameLevels, opp)]
      /\ cursor' = [cursor EXCEPT !.skipped = @ + 1]
      /\ UNCHANGED <<orders_map, phase, book, taker, parked, trades>>
  BY DEF SkipResting, SelfTrade, InLevel
<1>2. /\ Typed /\ cursor \in Cursor /\ cursor.opp \in DOMAIN OppLevels /\ cursor.skipped \in Nat
      /\ SameLevels \in BookSide /\ OppQueue \in Seq(Order)
  BY <1>1, LevelFacts
<1>3. /\ after \in Seq(Order) /\ Len(after) = Len(OppQueue) /\ Len(OppQueue) \in Nat \ {0}
      /\ DOMAIN OppQueue = 1..Len(OppQueue) /\ DOMAIN after = 1..Len(OppQueue)
      /\ \A i \in 1..(Len(OppQueue) - 1) : after[i] = OppQueue[i + 1]
      /\ after[Len(OppQueue)] = Head(OppQueue)
  BY <1>1, <1>2, RotateShape
<1>4. /\ cursor'.opp = cursor.opp /\ cursor'.opp_len = cursor.opp_len
      /\ cursor'.skipped = cursor.skipped + 1 /\ cursor'.rotated = cursor.rotated
  BY <1>1, <1>2 DEF Cursor
<1>. HIDE DEF after
<1>5. opp \in BookSide
  BY <1>1, <1>2, <1>3, QueueStep
<1>6. OppLevels' = opp
  BY <1>1, <1>2, <1>5, WalkStep
<1>7. OppQueue' = after
  BY <1>2, <1>4, <1>6 DEF OppQueue, SetLevel
<1>8. /\ Len(OppQueue) <= cursor.opp_len
      /\ \A p \in DOMAIN parked : \A i \in DOMAIN parked[p] : Beside(parked[p][i].user)
      /\ \A i \in DOMAIN OppQueue :
           i > Len(OppQueue) - cursor.skipped \/ cursor.rotated > 0 => Beside(OppQueue[i].user)
  BY <1>1 DEF PassedOK
<1>9. ASSUME NEW i \in DOMAIN after,
             i > Len(after) - (cursor.skipped + 1) \/ cursor.rotated > 0
      PROVE  Beside(after[i].user)
  <2>1. CASE i = Len(OppQueue)
    <3>1. Beside(Head(OppQueue).user)
      BY SelfTradeBeside DEF SkipResting
    <3>. QED
      BY <1>3, <2>1, <3>1
  <2>2. CASE i # Len(OppQueue)
    <3>1. /\ after[i] = OppQueue[i + 1] /\ i + 1 \in DOMAIN OppQueue
          /\ i + 1 > Len(OppQueue) - cursor.skipped \/ cursor.rotated > 0
      BY <1>2, <1>3, <1>9, <2>2
    <3>2. Beside(OppQueue[i + 1].user)
      BY <1>8, <3>1
    <3>. QED
      BY <3>1, <3>2
  <2>. QED
    BY <2>1, <2>2
<1>10. /\ Len(OppQueue') <= cursor'.opp_len
       /\ \A i \in DOMAIN OppQueue' :
            i > Len(OppQueue') - cursor'.skipped \/ cursor'.rotated > 0 => Beside(OppQueue'[i].user)
  BY <1>3, <1>4, <1>7, <1>8, <1>9
<1>. QED
  BY <1>1, <1>8, <1>10, PassedStep DEF Match

(* Once all orders of the level have been skipped, each of them belongs to *)
(* a user with an order on the incoming side.                              *)
LEMMA AllPassed ==
  ASSUME BookInv, WalkInv, PassedOK, SelfTrade, AllSkipped, Rests(taker),
         NEW j \in DOMAIN Rotate(OppQueue)
  PROVE  Beside(Rotate(OppQueue)[j].user)
<1>1. phase = "level" /\ OppQueue # << >>
  BY DEF SelfTrade, InLevel
<1>2. /\ cursor.skipped \in Nat /\ cursor.opp_len \in Nat /\ OppQueue \in Seq(Order)
  BY <1>1, LevelFacts
<1>3. /\ Len(OppQueue) \in Nat \ {0} /\ DOMAIN OppQueue = 1..Len(OppQueue)
      /\ Head(OppQueue) = OppQueue[1]
  BY <1>1, <1>2, RotateShape
<1>4. Len(OppQueue) <= cursor.skipped + 1
  BY <1>1, <1>2, <1>3 DEF PassedOK, AllSkipped
<1>5. PICK i \in DOMAIN OppQueue : Rotate(OppQueue)[j] = OppQueue[i]
  BY <1>1, <1>2, RotateEntries
<1>6. CASE i = 1
  <2>1. Beside(Head(OppQueue).user)
    BY SelfTradeBeside
  <2>. QED
    BY <1>3, <1>5, <1>6, <2>1
<1>7. CASE i # 1
  <2>1. i > Len(OppQueue) - cursor.skipped
    BY <1>2, <1>3, <1>4, <1>7
  <2>2. Beside(OppQueue[i].user)
    BY <1>1, <2>1 DEF PassedOK
  <2>. QED
    BY <1>5, <2>2
<1>. QED
  BY <1>6, <1>7

(* Passing the turn: all orders of the level have been skipped.            *)
LEMMA PassTurnPassed ==
  ASSUME BookInv, WalkInv, PassedOK, PassTurn, Rests(taker)
  PROVE  PassedOK'
<1>. DEFINE same == SetLevel(SameLevels, cursor.same, Rotate(SameQueue))
            opp  == SetLevel(OppLevels, cursor.opp, Rotate(OppQueue))
<1>1. /\ phase = "level" /\ OppQueue # << >> /\ SameQueue # << >>
      /\ levels' = [levels EXCEPT ![book] = BookOf(same, opp)]
      /\ cursor' = [cursor EXCEPT !.skipped = 0, !.rotated = @ + 1]
      /\ UNCHANGED <<orders_map, phase, book, taker, parked, trades>>
  BY DEF PassTurn, SelfTrade, InLevel
<1>2. /\ Typed /\ cursor \in Cursor /\ cursor.opp \in DOMAIN OppLevels
      /\ OppQueue \in Seq(Order) /\ SameQueue \in Seq(Order)
  BY <1>1, LevelFacts
<1>3. /\ Rotate(SameQueue) \in Seq(Order) /\ Rotate(OppQueue) \in Seq(Order)
      /\ Len(Rotate(OppQueue)) = Len(OppQueue)
  BY <1>1, <1>2, RotateShape
<1>4. cursor'.opp = cursor.opp /\ cursor'.opp_len = cursor.opp_len
  BY <1>1, <1>2 DEF Cursor
<1>5. same \in BookSide /\ opp \in BookSide
  BY <1>1, <1>2, <1>3, QueueStep
<1>6. opp[cursor.opp] = Rotate(OppQueue)
  BY DEF SetLevel
<1>. HIDE DEF same, opp
<1>7. OppQueue' = Rotate(OppQueue)
  <2>1. OppLevels' = opp
    BY <1>1, <1>2, <1>5, WalkStep
  <2>. QED
    BY <1>4, <1>6, <2>1 DEF OppQueue
<1>8. /\ Len(OppQueue) <= cursor.opp_len
      /\ \A p \in DOMAIN parked : \A i \in DOMAIN parked[p] : Beside(parked[p][i].user)
  BY <1>1 DEF PassedOK
<1>9. \A i \in DOMAIN OppQueue' : Beside(OppQueue'[i].user)
  BY <1>7, AllPassed DEF PassTurn
<1>. QED
  BY <1>1, <1>3, <1>4, <1>7, <1>8, <1>9, PassedStep DEF Match

(* Setting a level aside: all its orders have been skipped.                *)
LEMMA ParkLevelPassed ==
  ASSUME BookInv, WalkInv, PassedOK, ParkLevel, Rests(taker)
  PROVE  PassedOK'
<1>1. /\ phase = "level" /\ phase' = "walk"
      /\ parked' = SetLevel(parked, cursor.opp, Rotate(OppQueue))
  BY DEF ParkLevel, SelfTrade, InLevel
<1>2. \A p \in DOMAIN parked : \A i \in DOMAIN parked[p] : Beside(parked[p][i].user)
  BY <1>1 DEF PassedOK
<1>3. \A i \in DOMAIN Rotate(OppQueue) : Beside(Rotate(OppQueue)[i].user)
  BY AllPassed DEF ParkLevel
<1>4. \A p \in DOMAIN parked' : \A i \in DOMAIN parked'[p] : Beside(parked'[p][i].user)
  BY <1>1, <1>2, <1>3, Zenon DEF SetLevel
<1>. QED
  BY <1>1, <1>4, PassedStep DEF Match

(* A fill takes an order from the front of the level; those at its end     *)
(* stay there.                                                             *)
LEMMA FillPassed ==
  ASSUME BookInv, WalkInv, PassedOK, Fill, Rests(taker)
  PROVE  PassedOK'
<1>. DEFINE qty   == Lesser(Head(SameQueue).rem, Head(OppQueue).rem)
            after == FillFront(OppQueue, qty)
            same  == SetLevel(SameLevels, cursor.same, FillFront(SameQueue, qty))
            opp   == SetLevel(OppLevels, cursor.opp, after)
            len   == Len(OppQueue)
<1>1. /\ phase = "level" /\ SameQueue # << >> /\ OppQueue # << >>
      /\ levels' = [levels EXCEPT ![book] = BookOf(same, opp)]
      /\ UNCHANGED <<phase, book, cursor, parked>>
  BY DEF Fill, InLevel
<1>2. /\ Typed /\ cursor.skipped \in Nat /\ cursor.opp_len \in Nat
      /\ cursor.opp \in DOMAIN OppLevels
      /\ OppQueue \in Seq(Order) /\ SameQueue \in Seq(Order)
  BY <1>1, LevelFacts
<1>3. /\ qty \in Nat /\ qty <= Head(SameQueue).rem /\ qty <= Head(OppQueue).rem
      /\ taker' = taker
  BY FillFacts
<1>. HIDE DEF qty
<1>4. FillFront(SameQueue, qty) \in Seq(Order) /\ after \in Seq(Order)
  BY <1>1, <1>2, <1>3, QueueOps
<1>5. same \in BookSide /\ opp \in BookSide
  BY <1>1, <1>2, <1>4, QueueStep
<1>6. opp[cursor.opp] = after
  BY DEF SetLevel
<1>7. /\ len \in Nat \ {0} /\ DOMAIN OppQueue = 1..len
      /\ \/ /\ DOMAIN after = 1..(len - 1) /\ Len(after) = len - 1
            /\ \A i \in 1..(len - 1) : after[i] = OppQueue[i + 1]
         \/ /\ DOMAIN after = 1..len /\ Len(after) = len
            /\ after[1] = [OppQueue[1] EXCEPT !.rem = @ - qty]
            /\ \A i \in 2..len : after[i] = OppQueue[i]
  BY <1>1, <1>2, <1>3, FillFrontShape
<1>. HIDE DEF same, opp, after
<1>8. OppQueue' = after
  <2>1. OppLevels' = opp
    BY <1>1, <1>2, <1>3, <1>5, WalkStep
  <2>. QED
    BY <1>1, <1>6, <2>1 DEF OppQueue
<1>9. /\ len <= cursor.opp_len
      /\ \A p \in DOMAIN parked : \A i \in DOMAIN parked[p] : Beside(parked[p][i].user)
      /\ \A i \in DOMAIN OppQueue :
           i > len - cursor.skipped \/ cursor.rotated > 0 => Beside(OppQueue[i].user)
  BY <1>1 DEF PassedOK
<1>10. ASSUME NEW i \in DOMAIN after, i > Len(after) - cursor.skipped \/ cursor.rotated > 0
       PROVE  Beside(after[i].user)
  <2>1. CASE /\ DOMAIN after = 1..(len - 1) /\ Len(after) = len - 1
             /\ \A k \in 1..(len - 1) : after[k] = OppQueue[k + 1]
    <3>1. i \in 1..(len - 1) /\ (i > (len - 1) - cursor.skipped \/ cursor.rotated > 0)
      BY <1>10, <2>1
    <3>2. i + 1 \in 1..len /\ (i + 1 > len - cursor.skipped \/ cursor.rotated > 0)
      <4>. HIDE DEF len
      <4>. QED
        BY <1>2, <1>7, <3>1
    <3>3. after[i] = OppQueue[i + 1] /\ i + 1 \in DOMAIN OppQueue
      BY <1>7, <2>1, <3>1, <3>2
    <3>4. Beside(OppQueue[i + 1].user)
      BY <1>9, <3>2, <3>3
    <3>. QED
      BY <3>3, <3>4
  <2>2. CASE /\ DOMAIN after = 1..len /\ Len(after) = len
             /\ after[1] = [OppQueue[1] EXCEPT !.rem = @ - qty]
             /\ \A k \in 2..len : after[k] = OppQueue[k]
    <3>1. i \in DOMAIN OppQueue /\ (i > len - cursor.skipped \/ cursor.rotated > 0)
      BY <1>7, <1>10, <2>2
    <3>2. OppQueue[i] \in Order
      BY <1>2, <1>7, <3>1, ElementOfSeq
    <3>3. after[i].user = OppQueue[i].user
      <4>1. CASE i = 1
        <5>1. after[i] = [OppQueue[i] EXCEPT !.rem = @ - qty]
          BY <2>2, <4>1
        <5>. QED
          BY <3>2, <5>1 DEF Order
      <4>2. CASE i # 1
        <5>1. i \in 1..len /\ len \in Nat
          BY <1>7, <3>1
        <5>2. i \in 2..len
          <6>. HIDE DEF len
          <6>. QED
            BY <4>2, <5>1
        <5>. QED
          BY <2>2, <5>2
      <4>. QED
        BY <4>1, <4>2
    <3>4. Beside(OppQueue[i].user)
      BY <1>9, <3>1
    <3>. QED
      BY <3>3, <3>4
  <2>. QED
    BY <1>7, <2>1, <2>2
<1>11. Len(after) <= cursor.opp_len
  <2>1. Len(after) \in {len - 1, len}
    BY <1>7
  <2>. HIDE DEF len
  <2>. QED
    BY <1>2, <1>7, <1>9, <2>1
<1>. QED
  BY <1>1, <1>8, <1>9, <1>10, <1>11, PassedStep DEF Match

(* Leaving a level.                                                        *)
LEMMA LeaveLevelPassed ==
  ASSUME BookInv, WalkInv, PassedOK, LeaveLevel, Rests(taker)
  PROVE  PassedOK'
<1>1. phase = "level" /\ phase' = "walk" /\ parked' = parked
  BY DEF LeaveLevel
<1>2. \A p \in DOMAIN parked : \A i \in DOMAIN parked[p] : Beside(parked[p][i].user)
  BY <1>1 DEF PassedOK
<1>. QED
  BY <1>1, <1>2, PassedStep DEF Match

(* When the walk of an order that rests ends, no level that is left on the *)
(* other side crosses a level of its own.                                  *)
LEMMA WalkEndsUncrossed ==
  ASSUME Typed, LevelsOK, phase = "walk", Rests(taker),
         ~\E same, opp \in Prices : NextLevels(same, opp),
         NEW q \in DOMAIN SameLevels, NEW p \in DOMAIN OppLevels
  PROVE  ~Crosses(taker.side, q, p)
<1>1. /\ SameLevels \in BookSide /\ OppLevels \in BookSide /\ book \in Pairs
      /\ taker.side \in Sides /\ Opposite(taker.side) \in Sides
  BY WalkTypes
<1>2. /\ Finite(SameLevels) /\ Finite(OppLevels)
      /\ DOMAIN SameLevels \subseteq Prices /\ DOMAIN OppLevels \subseteq Prices
  BY <1>1 DEF LevelsOK, SameLevels, OppLevels, BookSide
<1>3. PICK s \in DOMAIN SameLevels : IsBest(taker.side, SameLevels, s)
  BY <1>1, <1>2, BestExists
<1>4. PICK b \in DOMAIN OppLevels : IsBest(Opposite(taker.side), OppLevels, b)
  BY <1>1, <1>2, BestExists
<1>5. ~Crosses(taker.side, s, b)
  BY <1>2, <1>3, <1>4 DEF NextLevels
<1>6. Crosses(taker.side, s, q) /\ Crosses(Opposite(taker.side), b, p)
  BY <1>3, <1>4 DEF IsBest
<1>7. s \in Nat /\ b \in Nat /\ q \in Nat /\ p \in Nat
  BY <1>2, PricesAssumption
<1>. QED
  BY <1>1, <1>5, <1>6, <1>7 DEF Crosses, Opposite, Sides

(* Every order of a side stands at its own price.                          *)
LEMMA OwnPrice ==
  ASSUME BookInv, phase = "walk", NEW side \in Sides, NEW p \in DOMAIN AllLevels(book, side),
         NEW i \in DOMAIN AllLevels(book, side)[p]
  PROVE  AllLevels(book, side)[p][i].price = p
<1>1. Typed /\ book \in Pairs
  BY WalkTypes DEF BookInv
<1>2. p \in Prices
  BY <1>1, WalkTypes DEF AllLevels, Overlaid, Typed, BookSide, Books
<1>3. Depths(book)[side][p] = AllLevels(book, side)[p]
  BY <1>1, <1>2, DepthsType DEF Queue, QueueAt
<1>4. AllKnown(orders_map[book], Depths(book))
  BY <1>1 DEF BookInv, Consistent, Agree
<1>5. Known(orders_map[book], side, p, AllLevels(book, side)[p][i])
  BY <1>2, <1>3, <1>4, Zenon DEF AllKnown
<1>. QED
  BY <1>5 DEF Known

(* Ending the walk: an order that is still crossed stood in a level that   *)
(* was set aside.                                                          *)
LEMMA FinishCrossed ==
  ASSUME BookInv, WalkInv, PassedOK, Finish, Rests(taker)
  PROVE  CrossedOnlyBySelf'
<1>. DEFINE opp == Overlaid(OppLevels, parked)
<1>1. /\ phase = "walk" /\ ~\E same, opp_p \in Prices : NextLevels(same, opp_p)
      /\ levels' = [levels EXCEPT ![book] = BookOf(SameLevels, opp)]
      /\ UNCHANGED <<orders_map, book, taker, cursor, trades>>
  BY DEF Finish
<1>2. /\ Typed /\ LevelsOK /\ book \in Pairs /\ taker.side \in Sides
      /\ SameLevels \in BookSide /\ OppLevels \in BookSide /\ parked \in BookSide
      /\ Opposite(taker.side) # taker.side /\ Opposite(taker.side) \in Sides
  BY <1>1, WalkTypes DEF BookInv, WalkInv, Typed
<1>3. opp \in BookSide
  BY <1>2, OverlaidIsSide, BookSideIsSide
<1>4. /\ AllLevels(book, taker.side) = SameLevels
      /\ AllLevels(book, Opposite(taker.side)) = opp
  BY <1>2 DEF AllLevels, SameLevels, OppLevels
<1>. HIDE DEF opp
<1>5. SameLevels' = SameLevels /\ OppLevels' = opp
  BY <1>1, <1>2, <1>3, WalkStep
<1>6. /\ levels'[book][taker.side] = SameLevels
      /\ levels'[book][Opposite(taker.side)] = opp
  BY <1>1, <1>5 DEF SameLevels, OppLevels
<1>7. SUFFICES ASSUME NEW q \in DOMAIN SameLevels, NEW j \in DOMAIN SameLevels[q],
                      NEW p \in DOMAIN opp, NEW i \in DOMAIN opp[p],
                      NEW user, user = opp[p][i].user,
                      Crosses(taker.side, SameLevels[q][j].price, opp[p][i].price)
               PROVE  OnBothSides(user)'
  <2>1. \A o \in Orders(book, taker.side)' :
          \E q \in DOMAIN SameLevels : \E j \in DOMAIN SameLevels[q] : o = SameLevels[q][j]
    BY <1>1, <1>6 DEF Orders, Range
  <2>2. \A o \in Orders(book, Opposite(taker.side))' :
          \E p \in DOMAIN opp : \E i \in DOMAIN opp[p] : o = opp[p][i]
    BY <1>1, <1>6 DEF Orders, Range
  <2>3. ASSUME NEW o \in Orders(book, taker.side)', NEW other \in Orders(book, Opposite(taker.side))',
               Crosses(taker.side, o.price, other.price)
        PROVE  OnBothSides(other.user)'
    <3>1. PICK q \in DOMAIN SameLevels : \E j \in DOMAIN SameLevels[q] : o = SameLevels[q][j]
      BY <2>1
    <3>2. PICK j \in DOMAIN SameLevels[q] : o = SameLevels[q][j]
      BY <3>1
    <3>3. PICK p \in DOMAIN opp : \E i \in DOMAIN opp[p] : other = opp[p][i]
      BY <2>2
    <3>4. PICK i \in DOMAIN opp[p] : other = opp[p][i]
      BY <3>3
    <3>. QED
      BY <1>7, <2>3, <3>2, <3>4
  <2>. QED
    BY <1>1, <2>3 DEF CrossedOnlyBySelf
<1>8. Crosses(taker.side, q, p)
  BY <1>1, <1>2, <1>4, <1>7, OwnPrice
<1>9. p \notin DOMAIN OppLevels
  BY <1>1, <1>2, <1>8, WalkEndsUncrossed
<1>10. p \in DOMAIN parked /\ opp[p] = parked[p]
  BY <1>9 DEF opp, Overlaid
<1>11. Beside(user)
  BY <1>1, <1>7, <1>10 DEF PassedOK
<1>12. Beside(user)'
  BY <1>11, BesideStays DEF Match
<1>13. \/ \E o \in Orders(book, taker.side)' : o.user = user
       \/ \E t \in Range(trades') : user = IF taker.side = "Buy" THEN t.buyer ELSE t.seller
  BY <1>1, <1>5, <1>6, <1>12 DEF Beside, Within, Traded, Orders, Range
<1>14. opp[p][i] \in Orders(book, Opposite(taker.side))'
  BY <1>1, <1>6, <1>7 DEF Orders, Range
<1>15. \E o \in Orders(book, Opposite(taker.side))' : o.user = user
  BY <1>7, <1>14
<1>16. CASE taker.side = "Buy"
  <2>1. /\ Orders(book, taker.side)' = Orders(book, "Buy")'
        /\ Orders(book, Opposite(taker.side))' = Orders(book, "Sell")'
    BY <1>1, <1>16 DEF Orders, Opposite
  <2>. QED
    BY <1>13, <1>15, <1>16, <2>1 DEF OnBothSides
<1>17. CASE taker.side = "Sell"
  <2>1. /\ Orders(book, taker.side)' = Orders(book, "Sell")'
        /\ Orders(book, Opposite(taker.side))' = Orders(book, "Buy")'
    BY <1>1, <1>17 DEF Orders, Opposite
  <2>. QED
    BY <1>13, <1>15, <1>17, <2>1 DEF OnBothSides
<1>. QED
  BY <1>2, <1>16, <1>17 DEF Sides

(* Every step of the walk keeps the invariant.                             *)
LEMMA MatchPassed ==
  ASSUME BookInv, WalkInv, CrossedInv, Match
  PROVE  CrossedInv'
<1>1. taker'.type = taker.type
  BY FillFacts DEF Match, EnterLevel, SkipResting, PassTurn, ParkLevel, Fill, LeaveLevel, Finish
<1>2. CASE ~Rests(taker)
  BY <1>1, <1>2 DEF CrossedInv, PassedOK, CrossedOnlyBySelf, Rests
<1>3. CASE Rests(taker) /\ ~Finish
  <2>1. PassedOK'
    BY <1>3, EnterLevelPassed, SkipRestingPassed, PassTurnPassed, ParkLevelPassed, FillPassed,
       LeaveLevelPassed DEF Match, CrossedInv
  <2>2. phase' # "matched"
    BY <1>3 DEF Match, EnterLevel, SkipResting, PassTurn, ParkLevel, Fill, LeaveLevel,
                SelfTrade, InLevel
  <2>. QED
    BY <2>1, <2>2 DEF CrossedInv, CrossedOnlyBySelf
<1>4. CASE Rests(taker) /\ Finish
  <2>1. CrossedOnlyBySelf'
    BY <1>4, FinishCrossed DEF CrossedInv
  <2>2. PassedOK'
    BY <1>4, FinishWalk DEF PassedOK
  <2>. QED
    BY <2>1, <2>2 DEF CrossedInv
<1>. QED
  BY <1>2, <1>3, <1>4

(* Every step keeps the invariant.                                         *)
LEMMA NextCrossed == BookInv /\ WalkInv /\ CrossedInv /\ [Next]_vars => CrossedInv'
<1>. SUFFICES ASSUME BookInv, WalkInv, CrossedInv, [Next]_vars
              PROVE  CrossedInv'
  OBVIOUS
<1>1. CASE UNCHANGED vars
  BY <1>1 DEF vars, CrossedInv, PassedOK, CrossedOnlyBySelf, Beside, Within, Traded,
              SameLevels, OppLevels, OppQueue, Rests, Orders, OnBothSides
<1>2. CASE Match
  BY <1>2, MatchPassed
<1>3. ASSUME NEW pair \in Pairs, NEW o \in NewOrder, AddOrder(pair, o)
      PROVE  CrossedInv'
  <2>1. phase' \in {"walk", "rejected"} /\ parked' = NoLevels
    BY <1>3 DEF AddOrder, BookInv, WalkOK
  <2>. QED
    BY <2>1 DEF CrossedInv, PassedOK, CrossedOnlyBySelf, NoLevels
<1>4. CASE Return
  BY <1>4 DEF Return, CrossedInv, PassedOK, CrossedOnlyBySelf
<1>5. ASSUME NEW pair \in Pairs, NEW id, NEW user,
             CancelOrder(pair, id) \/ CancelOrdersForUser(pair, user)
      PROVE  CrossedInv'
  BY <1>5 DEF CancelOrder, CancelOrdersForUser, callVars, CrossedInv, PassedOK, CrossedOnlyBySelf
<1>. QED
  BY <1>1, <1>2, <1>3, <1>4, <1>5 DEF Next

(* Matching a resting order leaves the book crossed only on account of     *)
(* self-trade prevention: when match_order returns, an order of the other  *)
(* side that still crosses the incoming side belongs to a user who had     *)
(* orders on both sides of the book during the call.                       *)
THEOREM LeftCrossedBySelfOnly == Spec => []CrossedOnlyBySelf
<1>1. Init => CrossedInv
  BY DEF Init, CrossedInv, PassedOK, CrossedOnlyBySelf
<1>2. BookInv /\ WalkInv /\ CrossedInv /\ [Next]_vars => CrossedInv'
  BY NextCrossed
<1>3. CrossedInv => CrossedOnlyBySelf
  BY DEF CrossedInv
<1>. QED
  BY <1>1, <1>2, <1>3, WalkInvariant, PTL DEF Spec

-----------------------------------------------------------------------------
(* A call comes to its end                                                 *)

(* The first number that falls decides.                                    *)
LEMMA NearerBy ==
  ASSUME NEW a1, NEW a2, NEW a3, NEW a4, NEW a5, NEW b1, NEW b2, NEW b3, NEW b4, NEW b5,
         \/ a1 \in 0..(b1 - 1)
         \/ a1 = b1 /\ a2 \in 0..(b2 - 1)
         \/ a1 = b1 /\ a2 = b2 /\ a3 \in 0..(b3 - 1)
         \/ a1 = b1 /\ a2 = b2 /\ a3 = b3 /\ a4 \in 0..(b4 - 1)
         \/ a1 = b1 /\ a2 = b2 /\ a3 = b3 /\ a4 = b4 /\ a5 \in 0..(b5 - 1)
  PROVE  Nearer(<<a1, a2, a3, a4, a5>>, <<b1, b2, b3, b4, b5>>)
<1>. DEFINE a == <<a1, a2, a3, a4, a5>>
            b == <<b1, b2, b3, b4, b5>>
<1>1. /\ a[1] = a1 /\ a[2] = a2 /\ a[3] = a3 /\ a[4] = a4 /\ a[5] = a5
      /\ b[1] = b1 /\ b[2] = b2 /\ b[3] = b3 /\ b[4] = b4 /\ b[5] = b5
  OBVIOUS
<1>. HIDE DEF a, b
<1>2. CASE a1 \in 0..(b1 - 1)
  <2>1. 1 \in 1..5 /\ a[1] \in 0..(b[1] - 1) /\ \A j \in 1..(1 - 1) : a[j] = b[j]
    BY <1>1, <1>2
  <2>. QED
    BY <2>1 DEF Nearer
<1>3. CASE a1 = b1 /\ a2 \in 0..(b2 - 1)
  <2>1. \A j \in 1..(2 - 1) : j = 1
    OBVIOUS
  <2>2. 2 \in 1..5 /\ a[2] \in 0..(b[2] - 1) /\ \A j \in 1..(2 - 1) : a[j] = b[j]
    BY <1>1, <1>3, <2>1
  <2>. QED
    BY <2>2 DEF Nearer
<1>4. CASE a1 = b1 /\ a2 = b2 /\ a3 \in 0..(b3 - 1)
  <2>1. \A j \in 1..(3 - 1) : j = 1 \/ j = 2
    OBVIOUS
  <2>2. 3 \in 1..5 /\ a[3] \in 0..(b[3] - 1) /\ \A j \in 1..(3 - 1) : a[j] = b[j]
    BY <1>1, <1>4, <2>1
  <2>. QED
    BY <2>2 DEF Nearer
<1>5. CASE a1 = b1 /\ a2 = b2 /\ a3 = b3 /\ a4 \in 0..(b4 - 1)
  <2>1. \A j \in 1..(4 - 1) : j = 1 \/ j = 2 \/ j = 3
    OBVIOUS
  <2>2. 4 \in 1..5 /\ a[4] \in 0..(b[4] - 1) /\ \A j \in 1..(4 - 1) : a[j] = b[j]
    BY <1>1, <1>5, <2>1
  <2>. QED
    BY <2>2 DEF Nearer
<1>6. CASE a1 = b1 /\ a2 = b2 /\ a3 = b3 /\ a4 = b4 /\ a5 \in 0..(b5 - 1)
  <2>1. \A j \in 1..(5 - 1) : j = 1 \/ j = 2 \/ j = 3 \/ j = 4
    OBVIOUS
  <2>2. 5 \in 1..5 /\ a[5] \in 0..(b[5] - 1) /\ \A j \in 1..(5 - 1) : a[j] = b[j]
    BY <1>1, <1>6, <2>1
  <2>. QED
    BY <2>2 DEF Nearer
<1>. QED
  BY <1>2, <1>3, <1>4, <1>5, <1>6 DEF a, b

(* What is before a call on the walk, by the number of levels of the two   *)
(* sides.                                                                  *)
Levels(same, opp) ==
  Cardinality(DOMAIN opp) + (IF Rests(taker) THEN Cardinality(DOMAIN same) ELSE 0)

LEMMA LevelsCounted ==
  ASSUME NEW same, Finite(same), NEW opp, Finite(opp)
  PROVE  Levels(same, opp) \in Nat
BY FS_CardinalityType DEF Levels, Finite

(* Entering a level.                                                       *)
LEMMA EnterLevelNearer ==
  ASSUME BookInv, WalkInv, EnterLevel
  PROVE  Nearer(ToGo', ToGo)
<1>1. /\ phase = "walk" /\ phase' = "level" /\ UNCHANGED <<levels, book, taker>>
      /\ \E same, opp \in Prices : NextLevels(same, opp)
  BY DEF EnterLevel
<1>2. OppLevels' = OppLevels /\ SameLevels' = SameLevels
  BY <1>1 DEF OppLevels, SameLevels
<1>3. Stage = 3 /\ Stage' = 2
  BY <1>1 DEF Stage
<1>4. LevelsAhead' = LevelsAhead
  BY <1>1, <1>2 DEF LevelsAhead, Rests
<1>5. ToGo = <<LevelsAhead, 3, 0, 0, 0>>
  BY <1>1, <1>3 DEF ToGo
<1>6. PICK x, y, z : ToGo' = <<LevelsAhead, 2, x, y, z>>
  BY <1>1, <1>3, <1>4 DEF ToGo
<1>7. Nearer(<<LevelsAhead, 2, x, y, z>>, <<LevelsAhead, 3, 0, 0, 0>>)
  BY NearerBy
<1>. QED
  BY <1>5, <1>6, <1>7

(* What is before a call inside a level.                                   *)
LEMMA LevelToGo ==
  ASSUME BookInv, WalkInv, phase = "level"
  PROVE  /\ ToGo = <<Levels(SameLevels, OppLevels), 2, Len(SameQueue) + Len(OppQueue),
                     cursor.same_len - cursor.rotated, cursor.opp_len - cursor.skipped>>
         /\ Levels(SameLevels, OppLevels) \in Nat
         /\ Len(SameQueue) \in Nat /\ Len(OppQueue) \in Nat
         /\ cursor.same_len \in Nat /\ cursor.opp_len \in Nat
         /\ cursor.rotated \in Nat /\ cursor.skipped \in Nat
<1>1. /\ cursor \in Cursor /\ Finite(SameLevels) /\ Finite(OppLevels)
      /\ OppQueue \in Seq(Order) /\ SameQueue \in Seq(Order)
  BY LevelFacts
<1>2. LevelsAhead = Levels(SameLevels, OppLevels) /\ Stage = 2
  BY DEF LevelsAhead, Levels, Stage
<1>3. Levels(SameLevels, OppLevels) \in Nat
  BY <1>1, LevelsCounted
<1>4. Len(SameQueue) \in Nat /\ Len(OppQueue) \in Nat
  BY <1>1, LenProperties
<1>. QED
  BY <1>1, <1>2, <1>3, <1>4 DEF ToGo, Cursor



(* The two sides and the two queues after a step that stays in the level.  *)
LEMMA InLevelStep ==
  ASSUME BookInv, WalkInv, phase = "level", phase' = "level",
         NEW same \in BookSide, NEW opp \in BookSide,
         levels' = [levels EXCEPT ![book] = BookOf(same, opp)],
         UNCHANGED <<book, cursor.same, cursor.opp, cursor.same_len, cursor.opp_len>>,
         taker'.side = taker.side, taker'.type = taker.type,
         DOMAIN opp = DOMAIN OppLevels, DOMAIN same = DOMAIN SameLevels
  PROVE  /\ ToGo' = <<Levels(SameLevels, OppLevels), 2, Len(SameQueue') + Len(OppQueue'),
                      cursor.same_len - cursor'.rotated, cursor.opp_len - cursor'.skipped>>
         /\ SameLevels' = same /\ OppLevels' = opp /\ OppQueue' = opp[cursor.opp]
         /\ Rests(taker)' = Rests(taker)
<1>1. SameLevels' = same /\ OppLevels' = opp
  BY WalkStep DEF BookInv
<1>2. OppQueue' = opp[cursor.opp]
  BY <1>1 DEF OppQueue
<1>3. Rests(taker)' = Rests(taker)
  BY DEF Rests
<1>4. LevelsAhead' = Levels(SameLevels, OppLevels)
  BY <1>1, <1>3 DEF LevelsAhead, Levels
<1>5. Stage' = 2
  BY DEF Stage
<1>. QED
  BY <1>1, <1>2, <1>3, <1>4, <1>5 DEF ToGo

(* Skipping an order uses up one of the skips.                             *)
LEMMA SkipRestingNearer ==
  ASSUME BookInv, WalkInv, SkipResting
  PROVE  Nearer(ToGo', ToGo)
<1>. DEFINE opp == SetLevel(OppLevels, cursor.opp, Rotate(OppQueue))
<1>1. /\ phase = "level" /\ phase' = "level" /\ OppQueue # << >>
      /\ levels' = [levels EXCEPT ![book] = BookOf(SameLevels, opp)]
      /\ cursor' = [cursor EXCEPT !.skipped = @ + 1]
      /\ UNCHANGED <<book, taker>> /\ ~AllSkipped
  BY DEF SkipResting, SelfTrade, InLevel
<1>2. /\ Typed /\ cursor \in Cursor /\ cursor.opp \in DOMAIN OppLevels
      /\ SameLevels \in BookSide /\ OppLevels \in BookSide /\ OppQueue \in Seq(Order)
  BY <1>1, LevelFacts
<1>3. Rotate(OppQueue) \in Seq(Order) /\ Len(Rotate(OppQueue)) = Len(OppQueue)
  BY <1>1, <1>2, RotateShape
<1>4. /\ opp \in BookSide /\ DOMAIN opp = DOMAIN OppLevels
      /\ opp[cursor.opp] = Rotate(OppQueue)
  <2>1. opp \in BookSide
    BY <1>1, <1>2, <1>3, QueueStep
  <2>. QED
    BY <1>2, <2>1 DEF SetLevel
<1>. HIDE DEF opp
<1>5. /\ cursor'.same = cursor.same /\ cursor'.opp = cursor.opp
      /\ cursor'.same_len = cursor.same_len /\ cursor'.opp_len = cursor.opp_len
      /\ cursor'.rotated = cursor.rotated /\ cursor'.skipped = cursor.skipped + 1
  BY <1>1, <1>2 DEF Cursor
<1>6. /\ ToGo' = <<Levels(SameLevels, OppLevels), 2, Len(SameQueue') + Len(OppQueue'),
                   cursor.same_len - cursor.rotated, cursor.opp_len - (cursor.skipped + 1)>>
      /\ SameLevels' = SameLevels /\ OppQueue' = Rotate(OppQueue)
  BY <1>1, <1>2, <1>4, <1>5, InLevelStep
<1>7. SameQueue' = SameQueue
  BY <1>1, <1>5, <1>6 DEF SameQueue, Rests
<1>8. ToGo' = <<Levels(SameLevels, OppLevels), 2, Len(SameQueue) + Len(OppQueue),
                cursor.same_len - cursor.rotated, cursor.opp_len - (cursor.skipped + 1)>>
  BY <1>3, <1>6, <1>7
<1>9. cursor.opp_len - (cursor.skipped + 1) \in 0..((cursor.opp_len - cursor.skipped) - 1)
  BY <1>1, <1>2 DEF Cursor, AllSkipped
<1>. QED
  BY <1>1, <1>8, <1>9, LevelToGo, NearerBy

(* Passing the turn uses up one of the turns.                              *)
LEMMA PassTurnNearer ==
  ASSUME BookInv, WalkInv, PassTurn
  PROVE  Nearer(ToGo', ToGo)
<1>. DEFINE same == SetLevel(SameLevels, cursor.same, Rotate(SameQueue))
            opp  == SetLevel(OppLevels, cursor.opp, Rotate(OppQueue))
<1>1. /\ phase = "level" /\ phase' = "level" /\ OppQueue # << >> /\ SameQueue # << >>
      /\ levels' = [levels EXCEPT ![book] = BookOf(same, opp)]
      /\ cursor' = [cursor EXCEPT !.skipped = 0, !.rotated = @ + 1]
      /\ UNCHANGED <<book, taker>> /\ TurnsLeft
  BY DEF PassTurn, SelfTrade, InLevel
<1>2. /\ Typed /\ cursor \in Cursor /\ cursor.opp \in DOMAIN OppLevels
      /\ SameLevels \in BookSide /\ OppLevels \in BookSide
      /\ OppQueue \in Seq(Order) /\ SameQueue \in Seq(Order)
  BY <1>1, LevelFacts
<1>3. Rests(taker) /\ cursor.same \in DOMAIN SameLevels /\ SameQueue = SameLevels[cursor.same]
  <2>1. Rests(taker)
    BY <1>1, <1>2 DEF TurnsLeft, BookInv, WalkOK, Cursor
  <2>. QED
    BY <1>1, <2>1 DEF BookInv, Typed, CursorOK, SameQueue
<1>4. /\ Rotate(OppQueue) \in Seq(Order) /\ Len(Rotate(OppQueue)) = Len(OppQueue)
      /\ Rotate(SameQueue) \in Seq(Order) /\ Len(Rotate(SameQueue)) = Len(SameQueue)
  BY <1>1, <1>2, RotateShape
<1>5. /\ opp \in BookSide /\ DOMAIN opp = DOMAIN OppLevels
      /\ opp[cursor.opp] = Rotate(OppQueue)
  <2>1. opp \in BookSide
    BY <1>1, <1>2, <1>4, QueueStep
  <2>. QED
    BY <1>2, <2>1 DEF SetLevel
<1>6. /\ same \in BookSide /\ DOMAIN same = DOMAIN SameLevels
      /\ same[cursor.same] = Rotate(SameQueue)
  <2>1. same \in BookSide
    BY <1>1, <1>2, <1>4, QueueStep
  <2>. QED
    BY <1>3, <2>1 DEF SetLevel
<1>. HIDE DEF same, opp
<1>7. /\ cursor'.same = cursor.same /\ cursor'.opp = cursor.opp
      /\ cursor'.same_len = cursor.same_len /\ cursor'.opp_len = cursor.opp_len
      /\ cursor'.rotated = cursor.rotated + 1
  BY <1>1, <1>2 DEF Cursor
<1>8. /\ ToGo' = <<Levels(SameLevels, OppLevels), 2, Len(SameQueue') + Len(OppQueue'),
                   cursor.same_len - (cursor.rotated + 1), cursor.opp_len - cursor'.skipped>>
      /\ SameLevels' = same /\ OppQueue' = Rotate(OppQueue)
  BY <1>1, <1>2, <1>5, <1>6, <1>7, InLevelStep
<1>9. SameQueue' = Rotate(SameQueue)
  BY <1>1, <1>3, <1>6, <1>7, <1>8 DEF SameQueue, Rests
<1>10. ToGo' = <<Levels(SameLevels, OppLevels), 2, Len(SameQueue) + Len(OppQueue),
                 cursor.same_len - (cursor.rotated + 1), cursor.opp_len - cursor'.skipped>>
  BY <1>4, <1>8, <1>9
<1>11. cursor.same_len - (cursor.rotated + 1) \in 0..((cursor.same_len - cursor.rotated) - 1)
  BY <1>1, <1>2 DEF Cursor, TurnsLeft
<1>. QED
  BY <1>1, <1>10, <1>11, LevelToGo, NearerBy

(* A queue whose front order is filled up is shorter by one.               *)
LEMMA FilledLength ==
  ASSUME NEW queue \in Seq(Order), queue # << >>, NEW qty \in Nat, qty <= Head(queue).rem
  PROVE  /\ FillFront(queue, qty) \in Seq(Order) /\ Len(queue) \in Nat \ {0}
         /\ Len(FillFront(queue, qty)) = Len(queue) - (IF Head(queue).rem = qty THEN 1 ELSE 0)
<1>. DEFINE after == FillFront(queue, qty)
<1>1. /\ after \in Seq(Order) /\ Len(queue) \in Nat \ {0}
      /\ Head(queue).rem = qty => Len(after) = Len(queue) - 1
      /\ Head(queue).rem # qty => Len(after) = Len(queue)
  BY FillFrontShape
<1>. HIDE DEF after
<1>2. Len(after) = Len(queue) - (IF Head(queue).rem = qty THEN 1 ELSE 0)
  BY <1>1
<1>. QED
  BY <1>1, <1>2 DEF after

(* A fill takes an order out of one of the two queues at least.            *)
LEMMA FillNearer ==
  ASSUME BookInv, WalkInv, Fill
  PROVE  Nearer(ToGo', ToGo)
<1>. DEFINE qty  == Lesser(Head(SameQueue).rem, Head(OppQueue).rem)
            left == FillFront(SameQueue, qty)
            rest == FillFront(OppQueue, qty)
            same == IF Rests(taker) THEN SetLevel(SameLevels, cursor.same, left)
                    ELSE SameLevels
            opp  == SetLevel(OppLevels, cursor.opp, rest)
<1>1. /\ phase = "level" /\ phase' = "level"
      /\ levels' = [levels EXCEPT ![book] = BookOf(same, opp)]
      /\ UNCHANGED <<book, cursor>>
  BY DEF Fill, InLevel
<1>2. /\ Typed /\ cursor \in Cursor /\ cursor.opp \in DOMAIN OppLevels /\ taker \in Order
      /\ SameLevels \in BookSide /\ OppLevels \in BookSide
  BY <1>1, LevelFacts
<1>3. /\ SameQueue # << >> /\ OppQueue # << >>
      /\ SameQueue \in Seq(Order) /\ OppQueue \in Seq(Order)
      /\ qty \in Nat /\ qty \in {Head(SameQueue).rem, Head(OppQueue).rem}
      /\ qty <= Head(SameQueue).rem /\ qty <= Head(OppQueue).rem
      /\ ~Rests(taker) => SameQueue = <<taker>> /\ Head(SameQueue) = taker
      /\ taker'.side = taker.side /\ taker'.type = taker.type
      /\ IF Rests(taker) THEN taker' = taker ELSE taker'.rem = taker.rem - qty
  BY FillFacts
<1>. HIDE DEF qty
<1>4. /\ left \in Seq(Order) /\ Len(SameQueue) \in Nat \ {0}
      /\ Len(left) = Len(SameQueue) - (IF Head(SameQueue).rem = qty THEN 1 ELSE 0)
  BY <1>3, FilledLength
<1>5. /\ rest \in Seq(Order) /\ Len(OppQueue) \in Nat \ {0}
      /\ Len(rest) = Len(OppQueue) - (IF Head(OppQueue).rem = qty THEN 1 ELSE 0)
  BY <1>3, FilledLength
<1>. HIDE DEF left, rest
<1>6. /\ opp \in BookSide /\ DOMAIN opp = DOMAIN OppLevels /\ opp[cursor.opp] = rest
  <2>1. opp \in BookSide
    BY <1>1, <1>2, <1>5, QueueStep
  <2>. QED
    BY <1>2, <2>1 DEF SetLevel
<1>7. /\ same \in BookSide /\ DOMAIN same = DOMAIN SameLevels
      /\ Rests(taker) => same[cursor.same] = left
  <2>1. same \in BookSide
    BY <1>1, <1>2, <1>4, QueueStep
  <2>2. Rests(taker) => cursor.same \in DOMAIN SameLevels
    BY <1>1, <1>2 DEF Typed, CursorOK
  <2>. QED
    BY <2>1, <2>2 DEF SetLevel
<1>. HIDE DEF same, opp
<1>8. /\ ToGo' = <<Levels(SameLevels, OppLevels), 2, Len(SameQueue') + Len(OppQueue'),
                   cursor.same_len - cursor'.rotated, cursor.opp_len - cursor'.skipped>>
      /\ SameLevels' = same /\ OppQueue' = rest /\ Rests(taker)' = Rests(taker)
  BY <1>1, <1>2, <1>3, <1>6, <1>7, InLevelStep
<1>9. Len(SameQueue') = Len(SameQueue) - (IF Head(SameQueue).rem = qty THEN 1 ELSE 0)
  <2>1. CASE Rests(taker)
    <3>1. SameQueue' = left
      BY <1>1, <1>7, <1>8, <2>1 DEF SameQueue
    <3>. QED
      BY <1>4, <3>1
  <2>2. CASE ~Rests(taker)
    <3>1. SameQueue' = IF taker'.rem = 0 THEN << >> ELSE <<taker'>>
      BY <1>8, <2>2 DEF SameQueue
    <3>2. taker'.rem = 0 <=> Head(SameQueue).rem = qty
      BY <1>2, <1>3, <2>2 DEF Order
    <3>3. Len(SameQueue) = 1
      BY <1>3, <2>2
    <3>. QED
      BY <3>1, <3>2, <3>3
  <2>. QED
    BY <2>1, <2>2
<1>10. Len(SameQueue') + Len(OppQueue') \in 0..((Len(SameQueue) + Len(OppQueue)) - 1)
  <2>. DEFINE m == Len(SameQueue)
              n == Len(OppQueue)
              x == Len(SameQueue')
              y == Len(OppQueue')
  <2>1. /\ m \in Nat \ {0} /\ n \in Nat \ {0} /\ x \in {m - 1, m} /\ y \in {n - 1, n}
        /\ x = m - 1 \/ y = n - 1
    BY <1>3, <1>4, <1>5, <1>8, <1>9
  <2>. HIDE DEF m, n, x, y
  <2>2. x + y \in 0..((m + n) - 1)
    BY <2>1
  <2>. QED
    BY <2>2 DEF m, n, x, y
<1>. QED
  BY <1>1, <1>8, <1>10, LevelToGo, NearerBy

(* A step from a level back to the head of the walk.                       *)
LEMMA WalkedOn ==
  ASSUME BookInv, WalkInv, phase = "level", phase' = "walk",
         NEW same \in BookSide, NEW opp \in BookSide,
         levels' = [levels EXCEPT ![book] = BookOf(same, opp)], UNCHANGED <<book, taker>>
  PROVE  /\ ToGo' = <<Levels(same, opp), Stage', 0, 0, 0>>
         /\ Stage' \in {1, 3}
         /\ taker.rem = 0 /\ ~Rests(taker) => Stage' = 1
<1>1. SameLevels' = same /\ OppLevels' = opp
  BY WalkStep DEF BookInv
<1>2. LevelsAhead' = Levels(same, opp)
  BY <1>1 DEF LevelsAhead, Levels, Rests
<1>3. /\ Stage' \in {1, 3}
      /\ taker.rem = 0 /\ ~Rests(taker) => Stage' = 1
  <2>1. Stage' = IF \E same_p, opp_p \in Prices : NextLevels(same_p, opp_p)' THEN 3 ELSE 1
    BY DEF Stage
  <2>2. ASSUME taker.rem = 0, ~Rests(taker), NEW same_p \in Prices, NEW opp_p \in Prices,
               NextLevels(same_p, opp_p)'
        PROVE  FALSE
    <3>1. taker'.rem = 0 /\ ~Rests(taker)'
      BY <2>2
    <3>2. ~(taker'.rem > 0)
      BY <3>1
    <3>. QED
      BY <2>2, <3>1, <3>2 DEF NextLevels
  <2>. QED
    BY <2>1, <2>2
<1>. QED
  BY <1>2, <1>3 DEF ToGo

(* Setting a level aside leaves one less to come to.                       *)
LEMMA ParkLevelNearer ==
  ASSUME BookInv, WalkInv, ParkLevel
  PROVE  Nearer(ToGo', ToGo)
<1>. DEFINE opp == DropLevel(OppLevels, cursor.opp)
<1>1. /\ phase = "level" /\ phase' = "walk"
      /\ levels' = [levels EXCEPT ![book] = BookOf(SameLevels, opp)]
      /\ UNCHANGED <<book, taker>>
  BY DEF ParkLevel, SelfTrade, InLevel
<1>2. /\ Typed /\ cursor.opp \in DOMAIN OppLevels
      /\ SameLevels \in BookSide /\ OppLevels \in BookSide
      /\ Finite(SameLevels) /\ Finite(OppLevels)
  BY <1>1, LevelFacts
<1>3. opp \in BookSide
  BY <1>1, <1>2, LevelTypes, SideOps, BookSideIsSide
<1>4. Cardinality(DOMAIN opp) = Cardinality(DOMAIN OppLevels) - 1 /\ Finite(opp)
  BY <1>2, FS_RemoveElement, FS_Subset DEF DropLevel, Finite
<1>. HIDE DEF opp
<1>5. ToGo' = <<Levels(SameLevels, opp), Stage', 0, 0, 0>>
  BY <1>1, <1>2, <1>3, WalkedOn
<1>6. Levels(SameLevels, opp) \in 0..(Levels(SameLevels, OppLevels) - 1)
  <2>1. Levels(SameLevels, opp) \in Nat /\ Levels(SameLevels, OppLevels) \in Nat
    BY <1>2, <1>4, LevelsCounted
  <2>2. /\ Cardinality(DOMAIN opp) \in Nat /\ Cardinality(DOMAIN OppLevels) \in Nat
        /\ Cardinality(DOMAIN SameLevels) \in Nat
    BY <1>2, <1>4, FS_CardinalityType DEF Finite
  <2>3. Levels(SameLevels, opp) = Levels(SameLevels, OppLevels) - 1
    BY <1>4, <2>2 DEF Levels
  <2>. QED
    BY <2>1, <2>3
<1>. QED
  BY <1>1, <1>5, <1>6, LevelToGo, NearerBy

(* Pruning a level.                                                        *)
LEMMA PruneCounts ==
  ASSUME NEW f, Finite(f), NEW c \in DOMAIN f
  PROVE  /\ Finite(Prune(f, c))
         /\ Cardinality(DOMAIN f) \in Nat /\ Cardinality(DOMAIN Prune(f, c)) \in Nat
         /\ Cardinality(DOMAIN Prune(f, c))
              = Cardinality(DOMAIN f) - (IF f[c] = << >> THEN 1 ELSE 0)
<1>1. /\ Cardinality(DOMAIN f) \in Nat
      /\ IsFiniteSet(DOMAIN f \ {c}) /\ Cardinality(DOMAIN f \ {c}) \in Nat
      /\ Cardinality(DOMAIN f \ {c}) = Cardinality(DOMAIN f) - 1
  BY FS_RemoveElement, FS_CardinalityType, FS_Subset DEF Finite
<1>. QED
  BY <1>1 DEF Prune, DropLevel, Finite

(* The inner loop ends for want of orders on one side: either a level goes *)
(* or the incoming order is filled and the walk is over.                   *)
LEMMA LeaveLevelNearer ==
  ASSUME BookInv, WalkInv, LeaveLevel
  PROVE  Nearer(ToGo', ToGo)
<1>. DEFINE same == IF Rests(taker) THEN Prune(SameLevels, cursor.same) ELSE SameLevels
            opp  == Prune(OppLevels, cursor.opp)
<1>1. /\ phase = "level" /\ phase' = "walk"
      /\ SameQueue = << >> \/ OppQueue = << >>
      /\ levels' = [levels EXCEPT ![book] = BookOf(same, opp)]
      /\ UNCHANGED <<book, taker>>
  BY DEF LeaveLevel, InLevel
<1>2. /\ Typed /\ cursor.opp \in DOMAIN OppLevels
      /\ SameLevels \in BookSide /\ OppLevels \in BookSide
      /\ Finite(SameLevels) /\ Finite(OppLevels)
  BY <1>1, LevelFacts
<1>3. /\ cursor.opp \in Prices /\ cursor.same \in Prices
      /\ Rests(taker) => cursor.same \in DOMAIN SameLevels
  BY <1>1, <1>2, LevelTypes
<1>4. same \in BookSide /\ opp \in BookSide
  BY <1>2, <1>3, SideOps, BookSideIsSide
<1>5. /\ Finite(opp) /\ Cardinality(DOMAIN OppLevels) \in Nat /\ Cardinality(DOMAIN opp) \in Nat
      /\ Cardinality(DOMAIN opp)
           = Cardinality(DOMAIN OppLevels) - (IF OppQueue = << >> THEN 1 ELSE 0)
  BY <1>2, PruneCounts DEF OppQueue
<1>6. Rests(taker) =>
        /\ Finite(same) /\ Cardinality(DOMAIN SameLevels) \in Nat
        /\ Cardinality(DOMAIN same) \in Nat
        /\ Cardinality(DOMAIN same)
             = Cardinality(DOMAIN SameLevels) - (IF SameQueue = << >> THEN 1 ELSE 0)
  BY <1>2, <1>3, PruneCounts DEF SameQueue
<1>7. ~Rests(taker) => same = SameLevels /\ (SameQueue = << >> => taker.rem = 0)
  <2>1. taker.rem # 0 => <<taker>> # << >>
    OBVIOUS
  <2>. QED
    BY <2>1 DEF SameQueue
<1>. HIDE DEF same, opp
<1>8. /\ ToGo' = <<Levels(same, opp), Stage', 0, 0, 0>>
      /\ taker.rem = 0 /\ ~Rests(taker) => Stage' = 1
  BY <1>1, <1>4, WalkedOn
<1>9. Levels(same, opp) \in Nat /\ Levels(SameLevels, OppLevels) \in Nat
  BY <1>2, <1>5, <1>6, <1>7, LevelsCounted
<1>10. CASE OppQueue = << >> \/ Rests(taker)
  <2>1. Levels(same, opp) <= Levels(SameLevels, OppLevels) - 1
    BY <1>1, <1>5, <1>6, <1>7, <1>10 DEF Levels
  <2>2. Levels(same, opp) \in 0..(Levels(SameLevels, OppLevels) - 1)
    BY <1>9, <2>1
  <2>. QED
    BY <1>1, <1>8, <2>2, LevelToGo, NearerBy
<1>11. CASE OppQueue # << >> /\ ~Rests(taker)
  <2>1. Levels(same, opp) = Levels(SameLevels, OppLevels)
    BY <1>5, <1>7, <1>11 DEF Levels
  <2>2. Stage' = 1
    BY <1>1, <1>7, <1>8, <1>11
  <2>3. 1 \in 0..(2 - 1)
    OBVIOUS
  <2>. QED
    BY <1>1, <1>8, <2>1, <2>2, <2>3, LevelToGo, NearerBy
<1>. QED
  BY <1>10, <1>11

(* The end of the walk leaves nothing before the call but its return.      *)
LEMMA FinishNearer ==
  ASSUME BookInv, WalkInv, Finish
  PROVE  Nearer(ToGo', ToGo)
<1>1. /\ phase = "walk" /\ ~\E same, opp \in Prices : NextLevels(same, opp)
      /\ phase' \in {"panicked", "matched"}
  BY DEF Finish
<1>2. Stage = 1 /\ Stage' = 0 /\ LevelsAhead' = 0
  BY <1>1 DEF Stage, LevelsAhead
<1>3. ToGo' = <<0, 0, 0, 0, 0>> /\ ToGo = <<Levels(SameLevels, OppLevels), 1, 0, 0, 0>>
  <2>1. LevelsAhead = Levels(SameLevels, OppLevels)
    BY <1>1 DEF LevelsAhead, Levels
  <2>. QED
    BY <1>1, <1>2, <2>1 DEF ToGo
<1>4. Levels(SameLevels, OppLevels) \in Nat
  <2>1. Finite(SameLevels) /\ Finite(OppLevels)
    BY <1>1, WalkTypes DEF BookInv, WalkInv, LevelsOK, SameLevels, OppLevels
  <2>. QED
    BY <2>1, LevelsCounted
<1>5. 0 \in 0..(1 - 1)
  OBVIOUS
<1>6. CASE Levels(SameLevels, OppLevels) = 0
  BY <1>3, <1>5, <1>6, NearerBy
<1>7. CASE Levels(SameLevels, OppLevels) # 0
  <2>1. 0 \in 0..(Levels(SameLevels, OppLevels) - 1)
    BY <1>4, <1>7
  <2>. QED
    BY <1>3, <2>1, NearerBy
<1>. QED
  BY <1>6, <1>7

(* Every step of a call that does not return brings it nearer to its end.  *)
LEMMA NextNearer ==
  BookInv /\ WalkInv /\ [Next]_vars
    => [phase # "idle" => phase' = "idle" \/ Nearer(ToGo', ToGo)]_vars
<1>. SUFFICES ASSUME BookInv, WalkInv, Next, phase # "idle"
              PROVE  phase' = "idle" \/ Nearer(ToGo', ToGo)
  OBVIOUS
<1>1. CASE Match
  BY <1>1, EnterLevelNearer, SkipRestingNearer, PassTurnNearer, ParkLevelNearer, FillNearer,
     LeaveLevelNearer, FinishNearer DEF Match
<1>2. CASE Return
  BY <1>2 DEF Return
<1>. QED
  BY <1>1, <1>2 DEF Next, AddOrder, CancelOrder, CancelOrdersForUser

(* No add_order call goes on for ever: whatever the counters of the inner  *)
(* loop of match_order and match_against_opposite are compared with, the   *)
(* levels left, the stage of the walk, the orders of the two levels, the   *)
(* turns and the skips left, read in that order, fall at every step until  *)
(* the call returns.                                                       *)
THEOREM EveryCallReturns == Spec => CallReturns
<1>1. BookInv /\ WalkInv /\ [Next]_vars
        => [phase # "idle" => phase' = "idle" \/ Nearer(ToGo', ToGo)]_vars
  BY NextNearer
<1>. QED
  BY <1>1, WalkInvariant, PTL DEF Spec, CallReturns
=============================================================================
