------------------------------ MODULE PushProofs ------------------------------
(***************************************************************************)
(* Proofs about GatewayPush, for any clients, fetchers, channel capacities *)
(* and intervals.                                                          *)
(***************************************************************************)
EXTENDS GatewayPush, FiniteSetTheorems, TLAPS

LEMMA LargerOfTwo ==
  ASSUME NEW a \in Int, NEW b \in Int
  PROVE  Max({a, b}) = IF a >= b THEN a ELSE b
BY DEF Max

LEMMA SmallerOfTwo ==
  ASSUME NEW a \in Int, NEW b \in Int
  PROVE  Min({a, b}) = IF a <= b THEN a ELSE b
BY DEF Min

-----------------------------------------------------------------------------
(* Types                                                                   *)

(* The steps of a broadcast leave the hub's types as they are.             *)
LEMMA CastSteps ==
  ASSUME HubTypeOK, NEW b \in Casters,
         (\E t \in Topics : BeginCast(b, t)) \/ Loop(b) \/ EndCast(b)
  PROVE  HubTypeOK'
<1>. USE DEF HubTypeOK, NoCast
<1>1. CASE \E t \in Topics : BeginCast(b, t)
  BY <1>1 DEF BeginCast
<1>2. ASSUME NEW c \in Clients, Visit(b, c)
      PROVE  HubTypeOK'
  <2>. DEFINE t == casts[b].topic
              full == IF c \notin closed /\ ~Fits(c) THEN {c} ELSE {}
  <2>1. t \in Topics /\ casts[b] \in [topic : Topics, todo : SUBSET Clients, full : SUBSET Clients]
    BY <1>2 DEF Visit, Casting
  <2>2. casts' = [casts EXCEPT ![b].todo = @ \ {c}, ![b].full = full]
    BY <1>2 DEF Visit
  <2>3. \/ Fits(c) /\ waiting' = [waiting EXCEPT ![c] = @ + 1] /\ given' = [given EXCEPT ![c][t] = @ + 1]
        \/ UNCHANGED <<waiting, given>>
    BY <1>2 DEF Visit
  <2>4. crashed' \in BOOLEAN /\ UNCHANGED <<subs, topics, joined, pc, writer, closed, sent, dropped>>
    BY <1>2 DEF Visit
  <2>. HIDE DEF t, full
  <2>5. waiting' \in [Clients -> 0..Room]
    <3>1. waiting \in [Clients -> 0..Room] /\ Room \in Nat
      BY HubAssumption
    <3>2. Fits(c) => waiting[c] + 1 \in 0..Room
      BY <3>1 DEF Fits
    <3>. QED
      BY <2>3, <3>1, <3>2
  <2>6. given' \in [Clients -> [Topics -> Nat]]
    <3>1. given \in [Clients -> [Topics -> Nat]]
      OBVIOUS
    <3>. HIDE DEF HubTypeOK
    <3>2. [given[c] EXCEPT ![t] = given[c][t] + 1] \in [Topics -> Nat]
      BY <2>1, <3>1
    <3>. QED
      BY <2>3, <3>1, <3>2
  <2>7. full \in SUBSET Clients
    BY DEF full
  <2>8. casts' \in [Casters -> [topic : Topics, todo : SUBSET Clients, full : SUBSET Clients] \cup {NoCast}]
    BY <2>1, <2>2, <2>7
  <2>. QED
    BY <2>4, <2>5, <2>6, <2>8
<1>3. CASE Drop(b)
  <2>1. casts' \in [Casters -> [topic : Topics, todo : SUBSET Clients, full : SUBSET Clients] \cup {NoCast}]
    <3>1. casts[b] \in [topic : Topics, todo : SUBSET Clients, full : SUBSET Clients]
      BY <1>3 DEF Drop
    <3>2. casts' = [casts EXCEPT ![b].full = {}]
      BY <1>3 DEF Drop
    <3>. QED
      BY <3>1, <3>2
  <2>2. subs' \in [Topics -> SUBSET Clients] /\ closed' \cup dropped' \subseteq Clients
    BY <1>3 DEF Drop
  <2>3. crashed' \in BOOLEAN /\ UNCHANGED <<topics, joined, pc, writer, waiting, sent, given>>
    BY <1>3 DEF Drop
  <2>. QED
    BY <2>1, <2>2, <2>3
<1>4. CASE EndCast(b)
  BY <1>4 DEF EndCast
<1>. QED
  BY <1>1, <1>2, <1>3, <1>4 DEF Loop

(* So do the steps of a client.                                            *)
LEMMA ServeSteps ==
  ASSUME HubTypeOK, NEW c \in Clients, Serve(c)
  PROVE  HubTypeOK'
<1>. USE DEF HubTypeOK
<1>1. ASSUME NEW list \in TopicLists, Connect(c, list)
      PROVE  HubTypeOK'
  <2>1. list \in Seq(Topics) /\ Len(list) \in Nat /\ joined[c] = 0
    BY <1>1, HubAssumption DEF Connect
  <2>2. topics' = [topics EXCEPT ![c] = list] /\ pc' = [pc EXCEPT ![c] = "subscribing"]
        /\ UNCHANGED <<subs, joined, writer, waiting, closed, casts, crashed, sent, given, dropped>>
    BY <1>1 DEF Connect
  <2>3. \A d \in Clients : joined'[d] <= Len(topics'[d]) /\ (pc'[d] = "new" => joined'[d] = 0)
    BY <2>1, <2>2
  <2>. QED
    BY <2>2, <2>3
<1>2. CASE Subscribe(c)
  <2>1. topics[c] \in Seq(Topics) /\ joined[c] + 1 \in 1..Len(topics[c])
    BY <1>2, HubAssumption DEF Subscribe
  <2>. DEFINE t == topics[c][joined[c] + 1]
  <2>2. t \in Topics
    BY <2>1
  <2>3. /\ subs' = [subs EXCEPT ![t] = @ \cup {c}]
        /\ given' = [given EXCEPT ![c][t] = sent[t]]
        /\ joined' = [joined EXCEPT ![c] = @ + 1]
        /\ UNCHANGED <<topics, pc, writer, waiting, closed, casts, crashed, sent, dropped>>
    BY <1>2 DEF Subscribe
  <2>. HIDE DEF t
  <2>4. given' \in [Clients -> [Topics -> Nat]]
    BY <2>2, <2>3
  <2>5. subs' \in [Topics -> SUBSET Clients]
    BY <2>2, <2>3
  <2>6. joined' \in [Clients -> Nat]
        /\ \A d \in Clients : joined'[d] <= Len(topics'[d]) /\ (pc'[d] = "new" => joined'[d] = 0)
    BY <1>2, <2>1, <2>3 DEF Subscribe
  <2>. QED
    BY <2>3, <2>4, <2>5, <2>6
<1>3. CASE StartLoops(c)
  BY <1>3 DEF StartLoops
<1>4. CASE ReadEnds(c)
  BY <1>4 DEF ReadEnds
<1>5. CASE UnsubscribeAll(c)
  BY <1>5 DEF UnsubscribeAll
<1>6. CASE ServeReturns(c)
  BY <1>6 DEF ServeReturns
<1>7. Max({0, waiting[c] - 1}) \in 0..Room
  <2>1. waiting[c] \in 0..Room /\ Room \in Nat
    BY HubAssumption
  <2>. DEFINE less == waiting[c] - 1
  <2>2. less \in Int /\ less <= Room
    BY <2>1
  <2>. HIDE DEF less
  <2>3. Max({0, less}) = IF 0 >= less THEN 0 ELSE less
    BY <2>2, LargerOfTwo
  <2>4. Max({0, less}) \in 0..Room
    BY <2>1, <2>2, <2>3
  <2>. QED
    BY <2>4 DEF less
<1>8. CASE Write(c) \/ WriteFails(c)
  BY <1>7, <1>8 DEF Write, WriteFails
<1>. QED
  BY <1>1, <1>2, <1>3, <1>4, <1>5, <1>6, <1>8 DEF Serve

(* Steps that leave the hub alone, or what the hub is not part of.         *)
LEMMA HubUnchanged ==
  ASSUME HubTypeOK, UNCHANGED hubVars
  PROVE  HubTypeOK'
BY DEF HubTypeOK, hubVars

LEMMA HubInitTypes == HubInit => HubTypeOK
<1>. SUFFICES ASSUME HubInit PROVE HubTypeOK
  OBVIOUS
<1>1. subs \in [Topics -> SUBSET Clients]
  BY DEF HubInit
<1>2. topics \in [Clients -> TopicLists \cup {<<>>}]
  BY DEF HubInit
<1>3. joined \in [Clients -> Nat] /\ \A c \in Clients : joined[c] <= Len(topics[c]) /\ (pc[c] = "new" => joined[c] = 0)
  BY DEF HubInit
<1>4. casts \in [Casters -> [topic : Topics, todo : SUBSET Clients, full : SUBSET Clients] \cup {NoCast}]
  BY DEF HubInit
<1>5. waiting \in [Clients -> 0..Room]
  BY HubAssumption DEF HubInit
<1>6. given \in [Clients -> [Topics -> Nat]] /\ sent \in [Topics -> Nat]
  BY DEF HubInit
<1>7. /\ pc \in [Clients -> {"new", "subscribing", "open", "leaving", "flushing", "returned", "panicked"}]
      /\ writer \in [Clients -> {"none", "running", "done"}]
      /\ crashed \in BOOLEAN /\ closed \cup dropped \subseteq Clients
  BY DEF HubInit
<1>. QED
  BY <1>1, <1>2, <1>3, <1>4, <1>5, <1>6, <1>7 DEF HubTypeOK

(* The types of the throttler, the fetches and the consumer.               *)
ThrottleTypeOK ==
  /\ {since, still} \subseteq 0..Interval /\ timer \in 0..None
  /\ {dirty, in_fill} \subseteq BOOLEAN
  /\ fetches \in [Fetchers -> {"idle", "reading", "read", "casting"}]
  /\ saying \in Seq(Topics) /\ fills \in 0..MaxFills
  /\ requested \in 0..MaxRequests /\ answered \in 0..requested

(* The time since lastFired is at most that since the last fetch; a timer  *)
(* that is set will find something to do, and no earlier than one interval *)
(* after lastFired.                                                        *)
ThrottleInv ==
  /\ since <= still
  /\ timer # None => dirty /\ since + timer >= Interval

LEMMA RequestStep ==
  ASSUME ThrottleTypeOK, ThrottleInv, Request, in_fill' \in BOOLEAN, UNCHANGED <<saying, fills>>
  PROVE  ThrottleTypeOK' /\ ThrottleInv'
<1>1. /\ since \in 0..Interval /\ still \in 0..Interval /\ since <= still
      /\ timer \in 0..None /\ None = Interval + 1 /\ Interval \in Nat \ {0}
      /\ timer # None => dirty /\ since + timer >= Interval
      /\ fetches \in [Fetchers -> {"idle", "reading", "read", "casting"}]
  BY PushAssumption DEF ThrottleTypeOK, ThrottleInv, None
<1>2. requested' \in 0..MaxRequests /\ answered' \in 0..requested'
  BY PushAssumption DEF ThrottleTypeOK, Request
<1>3. /\ since' \in 0..Interval /\ still' \in 0..Interval /\ since' <= still'
      /\ timer' \in 0..None /\ dirty' \in BOOLEAN
      /\ timer' # None => dirty' /\ since' + timer' >= Interval
      /\ fetches' \in [Fetchers -> {"idle", "reading", "read", "casting"}]
  <2>1. CASE timer = None /\ since = Interval
    <3>1. since' = 0 /\ still' = 0 /\ UNCHANGED <<timer, dirty>>
      BY <2>1 DEF Request, StartFetch
    <3>2. fetches' \in [Fetchers -> {"idle", "reading", "read", "casting"}]
      BY <1>1, <2>1 DEF Request, StartFetch
    <3>3. dirty \in BOOLEAN
      BY DEF ThrottleTypeOK
    <3>. QED
      BY <1>1, <2>1, <3>1, <3>2, <3>3
  <2>2. CASE ~(timer = None /\ since = Interval)
    <3>1. /\ dirty' = TRUE /\ timer' = IF timer = None THEN Interval - since ELSE timer
          /\ UNCHANGED <<since, still, fetches>>
      BY <2>2 DEF Request, Coalesce
    <3>. QED
      BY <1>1, <3>1
  <2>. QED
    BY <2>1, <2>2
<1>4. None' = None
  BY DEF None
<1>. QED
  BY <1>2, <1>3, <1>4 DEF ThrottleTypeOK, ThrottleInv

LEMMA TickStep ==
  ASSUME ThrottleTypeOK, ThrottleInv, Tick
  PROVE  ThrottleTypeOK' /\ ThrottleInv'
<1>. USE PushAssumption DEF ThrottleTypeOK, ThrottleInv, None
<1>1. /\ since \in 0..Interval /\ still \in 0..Interval /\ Interval \in Nat
      /\ Interval \in Int /\ since + 1 \in Int /\ still + 1 \in Int
  OBVIOUS
<1>2. /\ since' = IF Interval <= since + 1 THEN Interval ELSE since + 1
      /\ still' = IF Interval <= still + 1 THEN Interval ELSE still + 1
  BY <1>1, SmallerOfTwo DEF Tick
<1>3. /\ timer' = IF timer \in {0, None} THEN timer ELSE timer - 1
      /\ UNCHANGED <<dirty, fetches, requested, answered, saying, in_fill, fills>>
  BY DEF Tick, consumerVars
<1>. QED
  BY <1>1, <1>2, <1>3

LEMMA TimerStep ==
  ASSUME ThrottleTypeOK, ThrottleInv, TimerFires
  PROVE  ThrottleTypeOK' /\ ThrottleInv' /\ still = Interval
<1>1. /\ since \in 0..Interval /\ still \in 0..Interval /\ since <= still
      /\ None = Interval + 1 /\ Interval \in Nat \ {0}
      /\ timer = 0 /\ dirty /\ since + timer >= Interval
  BY PushAssumption DEF ThrottleTypeOK, ThrottleInv, None, TimerFires
<1>2. still = Interval
  BY <1>1
<1>3. since' = 0 /\ still' = 0 /\ timer' = None /\ dirty' = FALSE
  BY <1>1 DEF TimerFires, StartFetch
<1>4. /\ fetches' \in [Fetchers -> {"idle", "reading", "read", "casting"}]
      /\ UNCHANGED <<requested, answered, saying, in_fill, fills>>
  <2>1. /\ \E f \in Fetchers : fetches' = [fetches EXCEPT ![f] = "reading"]
        /\ UNCHANGED <<requested, answered, saying, in_fill, fills>>
    BY <1>1 DEF TimerFires, StartFetch, consumerVars
  <2>2. fetches \in [Fetchers -> {"idle", "reading", "read", "casting"}]
    BY DEF ThrottleTypeOK
  <2>. QED
    BY <2>1, <2>2
<1>5. None' = None
  BY DEF None
<1>6. {since', still'} \subseteq 0..Interval /\ timer' \in 0..None'
  BY <1>1, <1>3, <1>5
<1>7. ThrottleTypeOK'
  <2>1. {dirty', in_fill'} \subseteq BOOLEAN
    BY <1>3, <1>4 DEF ThrottleTypeOK
  <2>. QED
    BY <1>4, <1>6, <2>1 DEF ThrottleTypeOK
<1>8. ThrottleInv'
  BY <1>3, <1>5 DEF ThrottleInv
<1>. QED
  BY <1>2, <1>7, <1>8

-----------------------------------------------------------------------------
(* The steps of GatewayPush                                                *)

TypeInv == HubTypeOK /\ ThrottleTypeOK

LEMMA FetchStep ==
  ASSUME TypeInv, ThrottleInv, NEW f \in Fetchers, Fetch(f)
  PROVE  TypeInv' /\ ThrottleInv'
<1>1. f \in Casters /\ "pair" \in Topics
  BY PushAssumption
<1>2. CASE ReadBook(f)
  <2>1. HubTypeOK'
    BY <1>2, HubUnchanged DEF TypeInv, ReadBook
  <2>2. ThrottleTypeOK' /\ ThrottleInv'
    BY <1>2 DEF TypeInv, ReadBook, ThrottleTypeOK, ThrottleInv, None, consumerVars
  <2>. QED
    BY <2>1, <2>2 DEF TypeInv
<1>3. CASE CastDepth(f)
  <2>1. HubTypeOK'
    BY <1>1, <1>3, CastSteps DEF TypeInv, CastDepth
  <2>2. ThrottleTypeOK' /\ ThrottleInv'
    BY <1>3 DEF TypeInv, CastDepth, ThrottleTypeOK, ThrottleInv, None, consumerVars
  <2>. QED
    BY <2>1, <2>2 DEF TypeInv
<1>4. CASE CastDepthEnds(f)
  <2>1. HubTypeOK'
    BY <1>1, <1>4, CastSteps DEF TypeInv, CastDepthEnds
  <2>2. ThrottleTypeOK' /\ ThrottleInv'
    BY <1>4 DEF TypeInv, CastDepthEnds, ThrottleTypeOK, ThrottleInv, None, consumerVars
  <2>. QED
    BY <2>1, <2>2 DEF TypeInv
<1>. QED
  BY <1>2, <1>3, <1>4 DEF Fetch

LEMMA OnFillStep ==
  ASSUME TypeInv, ThrottleInv, OnFill
  PROVE  TypeInv' /\ ThrottleInv'
<1>1. Consumer \in Casters /\ Topics = {"user", "pair"} /\ MaxFills \in Nat
  BY PushAssumption
<1>2. CASE FillComes
  <2>1. HubTypeOK'
    BY <1>2, HubUnchanged DEF TypeInv, FillComes
  <2>2. saying' \in Seq(Topics)
    <3>1. \A a, b, c \in Topics : <<a, b>> \in Seq(Topics) /\ <<a, b, c>> \in Seq(Topics)
      OBVIOUS
    <3>2. "pair" \in Topics /\ "user" \in Topics
      BY <1>1
    <3>. QED
      BY <1>2, <3>1, <3>2 DEF FillComes
  <2>3. fills' \in 0..MaxFills /\ in_fill' = TRUE /\ UNCHANGED throttleVars
    BY <1>1, <1>2 DEF FillComes, TypeInv, ThrottleTypeOK
  <2>4. ThrottleTypeOK' /\ ThrottleInv'
    BY <2>2, <2>3 DEF TypeInv, ThrottleTypeOK, ThrottleInv, None, throttleVars
  <2>. QED
    BY <2>1, <2>4 DEF TypeInv
<1>3. CASE CastOne
  <2>1. saying \in Seq(Topics) /\ saying # <<>>
    BY <1>3 DEF CastOne, TypeInv, ThrottleTypeOK
  <2>2. Head(saying) \in Topics /\ Tail(saying) \in Seq(Topics)
    BY <2>1
  <2>3. HubTypeOK'
    BY <1>1, <1>3, <2>2, CastSteps DEF TypeInv, CastOne
  <2>4. ThrottleTypeOK' /\ ThrottleInv'
    BY <1>3, <2>2 DEF TypeInv, CastOne, ThrottleTypeOK, ThrottleInv, None, throttleVars
  <2>. QED
    BY <2>3, <2>4 DEF TypeInv
<1>4. CASE CastOneEnds
  <2>1. HubTypeOK'
    BY <1>1, <1>4, CastSteps DEF TypeInv, CastOneEnds
  <2>2. ThrottleTypeOK' /\ ThrottleInv'
    BY <1>4 DEF TypeInv, CastOneEnds, ThrottleTypeOK, ThrottleInv, None, throttleVars, consumerVars
  <2>. QED
    BY <2>1, <2>2 DEF TypeInv
<1>5. CASE FillEnds
  <2>1. HubTypeOK'
    BY <1>5, HubUnchanged DEF TypeInv, FillEnds
  <2>. QED
    BY <1>5, <2>1, RequestStep DEF TypeInv, FillEnds
<1>. QED
  BY <1>2, <1>3, <1>4, <1>5 DEF OnFill

LEMMA PushStep ==
  ASSUME TypeInv, ThrottleInv, Next
  PROVE  TypeInv' /\ ThrottleInv'
<1>1. ASSUME UNCHANGED <<throttleVars, consumerVars>>
      PROVE  ThrottleTypeOK' /\ ThrottleInv'
  BY <1>1 DEF TypeInv, ThrottleTypeOK, ThrottleInv, None, throttleVars, consumerVars
<1>2. ASSUME NEW c \in Clients, Alone(Serve(c))
      PROVE  TypeInv' /\ ThrottleInv'
  BY <1>1, <1>2, ServeSteps DEF Alone, TypeInv
<1>3. ASSUME NEW b \in Casters, Alone(Loop(b))
      PROVE  TypeInv' /\ ThrottleInv'
  BY <1>1, <1>3, CastSteps DEF Alone, TypeInv
<1>4. CASE HandlerRequests
  BY <1>4, HubUnchanged, RequestStep DEF HandlerRequests, TypeInv, consumerVars, ThrottleTypeOK
<1>5. CASE TimerFires
  BY <1>5, HubUnchanged, TimerStep DEF TimerFires, TypeInv
<1>6. CASE Tick
  BY <1>6, HubUnchanged, TickStep DEF Tick, TypeInv
<1>. QED
  BY <1>2, <1>3, <1>4, <1>5, <1>6, FetchStep, OnFillStep DEF Next

LEMMA PushInit == Init => TypeInv /\ ThrottleInv
<1>. SUFFICES ASSUME Init PROVE TypeInv /\ ThrottleInv
  OBVIOUS
<1>1. HubTypeOK
  BY HubInitTypes DEF Init
<1>2. /\ Interval \in Nat \ {0} /\ MaxRequests \in Nat /\ MaxFills \in Nat
      /\ None = Interval + 1
  BY PushAssumption DEF None
<1>3. fetches \in [Fetchers -> {"idle", "reading", "read", "casting"}]
  BY DEF Init
<1>4. ThrottleTypeOK
  <2>1. saying \in Seq(Topics)
    BY DEF Init
  <2>2. {since, still} \subseteq 0..Interval /\ timer \in 0..None
    BY <1>2 DEF Init
  <2>3. {dirty, in_fill} \subseteq BOOLEAN
    BY DEF Init
  <2>4. fills \in 0..MaxFills /\ requested \in 0..MaxRequests /\ answered \in 0..requested
    BY <1>2 DEF Init
  <2>. QED
    BY <1>3, <2>1, <2>2, <2>3, <2>4 DEF ThrottleTypeOK
<1>5. ThrottleInv
  BY <1>2 DEF Init, ThrottleInv
<1>. QED
  BY <1>1, <1>4, <1>5 DEF TypeInv

LEMMA PushInductive == TypeInv /\ ThrottleInv /\ [Next]_vars => (TypeInv /\ ThrottleInv)'
<1>. SUFFICES ASSUME TypeInv, ThrottleInv, [Next]_vars PROVE TypeInv' /\ ThrottleInv'
  OBVIOUS
<1>1. CASE UNCHANGED vars
  <2>1. HubTypeOK'
    BY <1>1, HubUnchanged DEF vars, TypeInv
  <2>. QED
    BY <1>1, <2>1 DEF vars, TypeInv, ThrottleTypeOK, ThrottleInv, None, throttleVars, consumerVars
<1>. QED
  BY <1>1, PushStep

(* Type correctness of the hub, the throttler and the consumer.            *)
THEOREM PushTypeCorrect == Spec => []PushTypeOK
<1>1. TypeInv => PushTypeOK
  BY DEF TypeInv, PushTypeOK, ThrottleTypeOK
<1>. QED
  BY <1>1, PushInductive, PushInit, PTL DEF Spec

(* Fetches of the book are started at least one interval apart, whatever   *)
(* the interval (depthThrottler): the timer is never set to run off before *)
(* an interval has passed since lastFired, and lastFired is never older    *)
(* than the last fetch.                                                    *)
THEOREM FetchesStayApart == Spec => FetchesApart
<1>1. ASSUME TypeInv, ThrottleInv, Next,
             \E f \in Fetchers : fetches[f] = "idle" /\ fetches'[f] = "reading"
      PROVE  still = Interval
  <2>1. CASE Request
    BY <1>1, <2>1, PushAssumption DEF Request, TypeInv, ThrottleTypeOK, ThrottleInv
  <2>2. CASE TimerFires
    BY <1>1, <2>2, TimerStep DEF TypeInv
  <2>3. CASE \E f \in Fetchers : Fetch(f)
    BY <1>1, <2>3 DEF Fetch, ReadBook, CastDepth, CastDepthEnds, TypeInv, ThrottleTypeOK
  <2>4. CASE UNCHANGED fetches
    BY <1>1, <2>4
  <2>. QED
    BY <1>1, <2>1, <2>2, <2>3, <2>4
    DEF Next, Alone, OnFill, FillComes, CastOne, CastOneEnds, FillEnds, HandlerRequests, Tick, throttleVars
<1>2. TypeInv /\ ThrottleInv /\ [Next]_vars
        => [(\E f \in Fetchers : fetches[f] = "idle" /\ fetches'[f] = "reading") => still = Interval]_vars
  BY <1>1
<1>. QED
  BY <1>2, PushInductive, PushInit, PTL DEF Spec, FetchesApart

-----------------------------------------------------------------------------
(* Closed channels                                                         *)

Gone == {"flushing", "returned", "panicked"}

(* A channel that is closed was closed by a broadcast that found its       *)
(* client slow, or by a client that had left every topic before.           *)
ClosedInv ==
  /\ \A c \in closed : c \in dropped \/ pc[c] \in Gone
  /\ \A c \in Clients : pc[c] \in Gone => \A t \in Topics : c \notin subs[t]
  /\ crashed => dropped # {}

(* A broadcast meets a closed channel only of a client it, or another one, *)
(* found slow: who left is in no topic.                                    *)
LEMMA ClosedCastSteps ==
  ASSUME HubTypeOK, ClosedInv, NEW b \in Casters,
         (\E t \in Topics : BeginCast(b, t)) \/ Loop(b) \/ EndCast(b)
  PROVE  ClosedInv'
<1>1. CASE (\E t \in Topics : BeginCast(b, t)) \/ EndCast(b)
  BY <1>1 DEF BeginCast, EndCast, ClosedInv
<1>2. ASSUME NEW c \in Clients, Visit(b, c)
      PROVE  ClosedInv'
  <2>1. casts[b].topic \in Topics
    BY <1>2 DEF Visit, Casting, HubTypeOK, NoCast
  <2>2. c \in subs[casts[b].topic] /\ crashed' = (c \in closed) /\ UNCHANGED <<subs, pc, closed, dropped>>
    BY <1>2 DEF Visit, Ahead
  <2>. QED
    BY <2>1, <2>2 DEF ClosedInv
<1>3. CASE Drop(b)
  <2>1. /\ casts[b].full # {} /\ casts[b].full \subseteq Clients /\ casts[b].topic \in Topics
        /\ closed' = closed \cup casts[b].full /\ dropped' = dropped \cup casts[b].full
        /\ subs' = [subs EXCEPT ![casts[b].topic] = @ \ casts[b].full] /\ UNCHANGED pc
    BY <1>3 DEF Drop, HubTypeOK, NoCast
  <2>2. \A t \in Topics : subs'[t] \subseteq subs[t]
    BY <2>1 DEF HubTypeOK
  <2>. QED
    BY <2>1, <2>2 DEF ClosedInv
<1>. QED
  BY <1>1, <1>2, <1>3 DEF Loop

LEMMA ClosedServeSteps ==
  ASSUME HubTypeOK, ClosedInv, NEW c \in Clients, Serve(c)
  PROVE  ClosedInv'
<1>. USE DEF Gone
<1>0. pc \in [Clients -> {"new", "subscribing", "open", "leaving", "flushing", "returned", "panicked"}]
      /\ subs \in [Topics -> SUBSET Clients] /\ closed \subseteq Clients
  BY DEF HubTypeOK
<1>1. ASSUME UNCHANGED <<subs, closed, crashed, dropped>>, \A d \in Clients : pc'[d] \in Gone <=> pc[d] \in Gone
      PROVE  ClosedInv'
  <2>. HIDE DEF Gone
  <2>. QED
    BY <1>0, <1>1 DEF ClosedInv
<1>2. ASSUME NEW list \in TopicLists, Connect(c, list)
      PROVE  ClosedInv'
  BY <1>0, <1>1, <1>2 DEF Connect
<1>3. CASE Subscribe(c)
  <2>. DEFINE t == topics[c][joined[c] + 1]
  <2>1. /\ pc[c] = "subscribing" /\ subs' = [subs EXCEPT ![t] = @ \cup {c}]
        /\ UNCHANGED <<pc, closed, crashed, dropped>>
    BY <1>3 DEF Subscribe
  <2>. HIDE DEF t
  <2>2. \A u \in Topics : subs'[u] \subseteq subs[u] \cup {c}
    BY <1>0, <2>1
  <2>3. pc[c] \notin Gone
    BY <2>1
  <2>. HIDE DEF Gone
  <2>. QED
    BY <1>0, <2>1, <2>2, <2>3 DEF ClosedInv
<1>4. CASE StartLoops(c)
  BY <1>0, <1>1, <1>4 DEF StartLoops
<1>5. CASE ReadEnds(c)
  BY <1>0, <1>1, <1>5 DEF ReadEnds
<1>6. CASE ServeReturns(c)
  BY <1>0, <1>1, <1>6 DEF ServeReturns
<1>7. CASE UnsubscribeAll(c)
  <2>1. /\ subs' = [t \in Topics |-> subs[t] \ {c}] /\ closed' = closed \cup {c}
        /\ \E at \in {"panicked", "flushing"} : pc' = [pc EXCEPT ![c] = at]
        /\ UNCHANGED <<crashed, dropped>>
    BY <1>7 DEF UnsubscribeAll
  <2>. QED
    BY <1>0, <2>1 DEF ClosedInv
<1>8. CASE Write(c) \/ WriteFails(c)
  BY <1>8 DEF Write, WriteFails, ClosedInv
<1>. QED
  BY <1>2, <1>3, <1>4, <1>5, <1>6, <1>7, <1>8 DEF Serve

LEMMA ClosedInductive == TypeInv /\ ClosedInv /\ [Next]_vars => ClosedInv'
<1>. SUFFICES ASSUME TypeInv, ClosedInv, [Next]_vars PROVE ClosedInv'
  OBVIOUS
<1>1. ASSUME UNCHANGED hubVars
      PROVE  ClosedInv'
  BY <1>1 DEF ClosedInv, hubVars
<1>2. CASE \E c \in Clients : Alone(Serve(c))
  BY <1>2, ClosedServeSteps DEF TypeInv, Alone
<1>3. CASE \E b \in Casters : Alone(Loop(b))
  BY <1>3, ClosedCastSteps DEF TypeInv, Alone
<1>4. ASSUME NEW f \in Fetchers, Fetch(f)
      PROVE  ClosedInv'
  <2>1. f \in Casters /\ "pair" \in Topics
    BY PushAssumption
  <2>2. UNCHANGED hubVars \/ BeginCast(f, "pair") \/ EndCast(f)
    BY <1>4 DEF Fetch, ReadBook, CastDepth, CastDepthEnds
  <2>. QED
    BY <1>1, <2>1, <2>2, ClosedCastSteps DEF TypeInv
<1>5. CASE OnFill
  <2>1. CASE CastOne
    <3>1. saying \in Seq(Topics) /\ saying # <<>>
      BY <2>1 DEF CastOne, TypeInv, ThrottleTypeOK
    <3>2. Head(saying) \in Topics /\ Consumer \in Casters
      BY <3>1, PushAssumption
    <3>. QED
      BY <2>1, <3>2, ClosedCastSteps DEF CastOne, TypeInv
  <2>2. CASE CastOneEnds
    BY <2>2, PushAssumption, ClosedCastSteps DEF CastOneEnds, TypeInv
  <2>. QED
    BY <1>1, <1>5, <2>1, <2>2 DEF OnFill, FillComes, FillEnds
<1>6. CASE HandlerRequests \/ TimerFires \/ Tick \/ UNCHANGED vars
  BY <1>1, <1>6 DEF HandlerRequests, TimerFires, Tick, vars
<1>. QED
  BY <1>2, <1>3, <1>4, <1>5, <1>6 DEF Next

LEMMA ClosedInit == Init => ClosedInv
BY DEF Init, HubInit, ClosedInv, Gone

(* The gateway goes down over a closed channel only when a broadcast has   *)
(* found a client slow, for any number of clients and broadcasts at once.  *)
THEOREM OnlySlowClientsCrash == Spec => []CrashNeedsSlowClient
<1>1. ClosedInv => CrashNeedsSlowClient
  BY DEF ClosedInv, CrashNeedsSlowClient
<1>. QED
  BY <1>1, PushInductive, PushInit, ClosedInductive, ClosedInit, PTL DEF Spec

(* Who has left is in no topic's map.                                      *)
THEOREM GoneForgotten == Spec => []TheGoneAreForgotten
<1>1. ClosedInv => TheGoneAreForgotten
  BY DEF ClosedInv, TheGoneAreForgotten, Gone
<1>. QED
  BY <1>1, PushInductive, PushInit, ClosedInductive, ClosedInit, PTL DEF Spec

-----------------------------------------------------------------------------
(* Gaps                                                                    *)

(* The broadcasts on a topic that have still to come to a client.          *)
Pending(t, c) == {b \in Casters : casts[b].topic = t /\ c \in casts[b].todo}

Slow(t, c) == \E b \in Casters : casts[b].topic = t /\ c \in casts[b].full

(* A client that no broadcast found slow was given all that was said since *)
(* it subscribed, but what is still to come to it.                         *)
GapInv ==
  /\ \A t \in Topics, c \in Clients : IsFiniteSet(Pending(t, c))
  /\ ~crashed =>
       \A t \in Topics : \A c \in subs[t] :
         Slow(t, c) \/ given[c][t] + Cardinality(Pending(t, c)) = sent[t]

LEMMA GapInit == Init => GapInv
<1>. SUFFICES ASSUME Init PROVE GapInv
  OBVIOUS
<1>1. subs = [t \in Topics |-> {}] /\ casts = [b \in Casters |-> NoCast]
  BY DEF Init, HubInit
<1>2. \A t \in Topics, c \in Clients : Pending(t, c) = {}
  BY <1>1 DEF Pending, NoCast
<1>. QED
  BY <1>1, <1>2, FS_EmptySet DEF GapInv

(* A broadcast begins: it has to come to all who are subscribed.           *)
LEMMA GapBegin ==
  ASSUME HubTypeOK, GapInv, NEW b \in Casters, NEW u \in Topics, BeginCast(b, u)
  PROVE  GapInv'
<1>1. /\ casts[b] = NoCast /\ casts' = [casts EXCEPT ![b] = [topic |-> u, todo |-> subs[u], full |-> {}]]
      /\ sent' = [sent EXCEPT ![u] = @ + 1]
      /\ UNCHANGED <<subs, crashed, given>>
  BY DEF BeginCast, Casting
<1>2. /\ DOMAIN casts = Casters /\ subs \in [Topics -> SUBSET Clients]
      /\ sent \in [Topics -> Nat] /\ given \in [Clients -> [Topics -> Nat]]
  BY DEF HubTypeOK
<1>3. /\ casts'[b].topic = u /\ casts'[b].todo = subs[u] /\ casts'[b].full = {}
      /\ casts[b].todo = {} /\ casts[b].full = {}
      /\ \A d \in Casters \ {b} : casts'[d] = casts[d]
  BY <1>1, <1>2 DEF NoCast
<1>4. ASSUME NEW t \in Topics, NEW c \in Clients
      PROVE  /\ IsFiniteSet(Pending(t, c)) /\ b \notin Pending(t, c)
             /\ Pending(t, c)' = IF t = u /\ c \in subs[u] THEN Pending(t, c) \cup {b} ELSE Pending(t, c)
             /\ Slow(t, c)' <=> Slow(t, c)
  <2>1. IsFiniteSet(Pending(t, c))
    BY DEF GapInv
  <2>2. b \notin Pending(t, c)
    BY <1>3 DEF Pending
  <2>3. Pending(t, c)' = IF t = u /\ c \in subs[u] THEN Pending(t, c) \cup {b} ELSE Pending(t, c)
    BY <1>3 DEF Pending
  <2>4. Slow(t, c)' <=> Slow(t, c)
    BY <1>3 DEF Slow
  <2>. QED
    BY <2>1, <2>2, <2>3, <2>4
<1>5. ASSUME NEW t \in Topics, NEW c \in Clients
      PROVE  /\ IsFiniteSet(Pending(t, c)') /\ Cardinality(Pending(t, c)) \in Nat
             /\ Cardinality(Pending(t, c)') = IF t = u /\ c \in subs[u] THEN Cardinality(Pending(t, c)) + 1
                                              ELSE Cardinality(Pending(t, c))
  BY <1>4, FS_AddElement, FS_CardinalityType
<1>6. ASSUME ~crashed, NEW t \in Topics, NEW c \in subs[t], ~Slow(t, c)
      PROVE  given[c][t] + Cardinality(Pending(t, c)') = sent'[t]
  <2>1. c \in Clients
    BY <1>2
  <2>2. given[c][t] + Cardinality(Pending(t, c)) = sent[t]
    BY <1>6 DEF GapInv
  <2>3. given[c][t] \in Nat /\ sent[t] \in Nat /\ Cardinality(Pending(t, c)) \in Nat
    BY <1>2, <1>5, <2>1
  <2>4. CASE t = u
    <3>1. Cardinality(Pending(t, c)') = Cardinality(Pending(t, c)) + 1 /\ sent'[t] = sent[t] + 1
      BY <1>1, <1>2, <1>5, <1>6, <2>1, <2>4
    <3>. QED
      BY <2>2, <2>3, <3>1
  <2>5. CASE t # u
    <3>1. Cardinality(Pending(t, c)') = Cardinality(Pending(t, c)) /\ sent'[t] = sent[t]
      BY <1>1, <1>2, <1>5, <2>1, <2>5
    <3>. QED
      BY <2>2, <3>1
  <2>. QED
    BY <2>4, <2>5
<1>7. \A t \in Topics : \A c \in subs[t] : c \in Clients
  BY <1>2
<1>8. ~crashed' =>
       \A t \in Topics : \A c \in subs'[t] :
         Slow(t, c)' \/ given'[c][t] + Cardinality(Pending(t, c)') = sent'[t]
  BY <1>1, <1>4, <1>6, <1>7
<1>. QED
  BY <1>5, <1>8 DEF GapInv

(* A broadcast comes to a client: it is given the message, or is slow, or  *)
(* the gateway goes down.                                                  *)
LEMMA GapVisit ==
  ASSUME HubTypeOK, GapInv, NEW b \in Casters, NEW e \in Clients, Visit(b, e), ~crashed
  PROVE  GapInv'
<1>. DEFINE u == casts[b].topic
            full == IF e \notin closed /\ ~Fits(e) THEN {e} ELSE {}
<1>1. /\ Casting(b) /\ e \in casts[b].todo /\ e \in subs[u] /\ casts[b].full = {}
      /\ casts' = [casts EXCEPT ![b].todo = @ \ {e}, ![b].full = full]
      /\ crashed' = (e \in closed)
      /\ \/ /\ e \notin closed /\ Fits(e)
            /\ given' = [given EXCEPT ![e][u] = @ + 1]
         \/ /\ ~(e \notin closed /\ Fits(e))
            /\ UNCHANGED given
      /\ UNCHANGED <<subs, sent>>
  BY DEF Visit, Ahead
<1>2. /\ casts \in [Casters -> [topic : Topics, todo : SUBSET Clients, full : SUBSET Clients] \cup {NoCast}]
      /\ subs \in [Topics -> SUBSET Clients]
      /\ sent \in [Topics -> Nat] /\ given \in [Clients -> [Topics -> Nat]]
  BY DEF HubTypeOK
<1>3. u \in Topics /\ casts[b] \in [topic : Topics, todo : SUBSET Clients, full : SUBSET Clients]
  BY <1>1, <1>2 DEF Casting
<1>. HIDE DEF full, u
<1>4. /\ casts'[b].topic = u /\ casts'[b].todo = casts[b].todo \ {e} /\ casts'[b].full = full
      /\ \A d \in Casters \ {b} : casts'[d] = casts[d]
  <2>1. casts[b].topic = u
    BY DEF u
  <2>. QED
    BY <1>1, <1>2, <1>3, <2>1
<1>5. ASSUME NEW t \in Topics, NEW c \in Clients
      PROVE  /\ IsFiniteSet(Pending(t, c)) /\ Cardinality(Pending(t, c)) \in Nat
             /\ Pending(t, c)' = IF t = u /\ c = e THEN Pending(t, c) \ {b} ELSE Pending(t, c)
             /\ Slow(t, c) => Slow(t, c)'
             /\ t = u /\ c = e => b \in Pending(t, c)
  <2>1. IsFiniteSet(Pending(t, c)) /\ Cardinality(Pending(t, c)) \in Nat
    BY FS_CardinalityType DEF GapInv
  <2>2. casts[b].topic = u
    BY DEF u
  <2>3. Pending(t, c)' = IF t = u /\ c = e THEN Pending(t, c) \ {b} ELSE Pending(t, c)
    BY <1>4, <2>2 DEF Pending
  <2>4. Slow(t, c) => Slow(t, c)'
    BY <1>1, <1>4 DEF Slow
  <2>5. t = u /\ c = e => b \in Pending(t, c)
    BY <1>1, <2>2 DEF Pending
  <2>. QED
    BY <2>1, <2>3, <2>4, <2>5
<1>6. ASSUME NEW t \in Topics, NEW c \in Clients
      PROVE  /\ IsFiniteSet(Pending(t, c)')
             /\ Cardinality(Pending(t, c)') = IF t = u /\ c = e THEN Cardinality(Pending(t, c)) - 1
                                              ELSE Cardinality(Pending(t, c))
  BY <1>5, FS_RemoveElement
<1>7. ASSUME ~crashed', NEW t \in Topics, NEW c \in subs[t], ~Slow(t, c)'
      PROVE  given'[c][t] + Cardinality(Pending(t, c)') = sent[t]
  <2>1. c \in Clients
    BY <1>2
  <2>2. given[c][t] + Cardinality(Pending(t, c)) = sent[t]
    BY <1>5, <1>7, <2>1 DEF GapInv
  <2>3. given[c][t] \in Nat /\ Cardinality(Pending(t, c)) \in Nat
    BY <1>2, <1>5, <2>1
  <2>4. CASE t = u /\ c = e
    <3>1. e \notin closed
      BY <1>1, <1>7
    <3>2. Fits(e)
      <4>1. ~Fits(e) => e \in casts'[b].full
        BY <1>4, <3>1 DEF full
      <4>. QED
        BY <1>4, <1>7, <2>4, <4>1 DEF Slow
    <3>3. given'[c][t] = given[c][t] + 1
      BY <1>1, <1>2, <2>1, <2>4, <3>1, <3>2
    <3>4. Cardinality(Pending(t, c)') = Cardinality(Pending(t, c)) - 1
      BY <1>6, <2>1, <2>4
    <3>. QED
      BY <2>2, <2>3, <3>3, <3>4
  <2>5. CASE ~(t = u /\ c = e)
    <3>1. given'[c][t] = given[c][t]
      BY <1>1, <1>2, <1>3, <2>1, <2>5
    <3>2. Cardinality(Pending(t, c)') = Cardinality(Pending(t, c))
      BY <1>6, <2>1, <2>5
    <3>. QED
      BY <2>2, <3>1, <3>2
  <2>. QED
    BY <2>4, <2>5
<1>8. ~crashed' =>
       \A t \in Topics : \A c \in subs'[t] :
         Slow(t, c)' \/ given'[c][t] + Cardinality(Pending(t, c)') = sent'[t]
  BY <1>1, <1>7
<1>. QED
  BY <1>6, <1>8 DEF GapInv

(* Whoever is found slow leaves the topic, and a broadcast ends when it    *)
(* has come to all who are subscribed.                                     *)
LEMMA GapDropEnd ==
  ASSUME HubTypeOK, GapInv, NEW b \in Casters, Drop(b) \/ EndCast(b), ~crashed
  PROVE  GapInv'
<1>. DEFINE u == casts[b].topic
<1>1. /\ casts \in [Casters -> [topic : Topics, todo : SUBSET Clients, full : SUBSET Clients] \cup {NoCast}]
      /\ subs \in [Topics -> SUBSET Clients] /\ UNCHANGED <<sent, given>>
  BY DEF HubTypeOK, Drop, EndCast
<1>2. /\ casts[b] \in [topic : Topics, todo : SUBSET Clients, full : SUBSET Clients]
      /\ u \in Topics
  BY <1>1 DEF Drop, EndCast, Casting, NoCast
<1>3. /\ \A d \in Casters \ {b} : casts'[d] = casts[d]
      /\ \A t \in Topics : subs'[t] \subseteq subs[t]
      /\ casts'[b].full = {}
      /\ \/ casts'[b].topic = u /\ casts'[b].todo = casts[b].todo
         \/ casts'[b].todo = {} /\ \A c \in subs[u] : c \notin casts[b].todo
      /\ \A c \in casts[b].full : c \notin subs'[u]
  <2>1. CASE Drop(b)
    <3>1. /\ casts' = [casts EXCEPT ![b].full = {}]
          /\ subs' = [subs EXCEPT ![u] = @ \ casts[b].full]
      BY <2>1 DEF Drop
    <3>. QED
      BY <1>1, <1>2, <3>1
  <2>2. CASE EndCast(b)
    <3>1. /\ casts' = [casts EXCEPT ![b] = NoCast] /\ casts[b].full = {} /\ subs' = subs
          /\ casts[b].todo \cap subs[u] = {}
      BY <2>2 DEF EndCast, Ahead
    <3>. QED
      BY <1>1, <1>2, <3>1 DEF NoCast
  <2>. QED
    BY <2>1, <2>2
<1>. HIDE DEF u
<1>4. casts[b].topic = u
  BY DEF u
<1>5. ASSUME NEW t \in Topics, NEW c \in Clients
      PROVE  /\ IsFiniteSet(Pending(t, c)')
             /\ c \in subs'[t] => Pending(t, c)' = Pending(t, c) /\ (Slow(t, c) => Slow(t, c)')
  <2>1. Pending(t, c)' \subseteq Pending(t, c) /\ IsFiniteSet(Pending(t, c))
    BY <1>3, <1>4 DEF Pending, GapInv
  <2>2. IsFiniteSet(Pending(t, c)')
    BY <2>1, FS_Subset
  <2>3. ASSUME c \in subs'[t]
        PROVE  Pending(t, c)' = Pending(t, c)
    <3>1. b \in Pending(t, c) => b \in Pending(t, c)'
      BY <1>3, <1>4, <2>3 DEF Pending
    <3>. QED
      BY <1>3, <2>1, <3>1 DEF Pending
  <2>4. ASSUME c \in subs'[t]
        PROVE  Slow(t, c) => Slow(t, c)'
    BY <1>3, <1>4, <2>4 DEF Slow
  <2>. QED
    BY <2>2, <2>3, <2>4
<1>6. ~crashed' =>
       \A t \in Topics : \A c \in subs'[t] :
         Slow(t, c)' \/ given'[c][t] + Cardinality(Pending(t, c)') = sent'[t]
  BY <1>1, <1>3, <1>5 DEF GapInv
<1>. QED
  BY <1>5, <1>6 DEF GapInv

(* A client subscribes while nobody broadcasts, and leaves.                *)
LEMMA GapServeSteps ==
  ASSUME HubTypeOK, GapInv, NEW e \in Clients, Serve(e), ~crashed
  PROVE  GapInv'
<1>1. UNCHANGED <<casts, crashed, sent>> /\ subs \in [Topics -> SUBSET Clients]
  BY DEF Serve, Connect, Subscribe, StartLoops, ReadEnds, UnsubscribeAll, ServeReturns, Write, WriteFails, HubTypeOK
<1>2. \A t \in Topics, c \in Clients : Pending(t, c)' = Pending(t, c) /\ (Slow(t, c)' <=> Slow(t, c))
  BY <1>1 DEF Pending, Slow
<1>3. CASE given' = given /\ \A t \in Topics : subs'[t] \subseteq subs[t]
  BY <1>1, <1>2, <1>3 DEF GapInv
<1>4. CASE Subscribe(e)
  <2>. DEFINE u == topics[e][joined[e] + 1]
  <2>1. u \in Topics
    <3>1. topics[e] \in Seq(Topics) /\ joined[e] + 1 \in 1..Len(topics[e])
      BY <1>4, HubAssumption DEF Subscribe, HubTypeOK
    <3>. QED
      BY <3>1
  <2>2. /\ subs' = [subs EXCEPT ![u] = @ \cup {e}] /\ given' = [given EXCEPT ![e][u] = sent[u]]
        /\ \A b \in Casters : casts[b] = NoCast
    BY <1>4 DEF Subscribe, CanLock, Casting
  <2>. HIDE DEF u
  <2>3. given \in [Clients -> [Topics -> Nat]] /\ sent \in [Topics -> Nat]
    BY DEF HubTypeOK
  <2>4. \A t \in Topics, c \in Clients : Pending(t, c) = {} /\ ~Slow(t, c)
    BY <2>2 DEF Pending, Slow, NoCast
  <2>5. ASSUME NEW t \in Topics, NEW c \in subs'[t]
        PROVE  given'[c][t] = sent[t]
    <3>1. CASE t = u /\ c = e
      BY <2>1, <2>2, <2>3, <3>1
    <3>2. CASE ~(t = u /\ c = e)
      <4>1. c \in subs[t] /\ c \in Clients
        BY <1>1, <2>1, <2>2, <2>5, <3>2
      <4>2. given'[c][t] = given[c][t]
        BY <2>1, <2>2, <2>3, <3>2, <4>1
      <4>3. given[c][t] + Cardinality(Pending(t, c)) = sent[t]
        BY <2>4, <4>1 DEF GapInv
      <4>4. Cardinality(Pending(t, c)) = 0
        BY <2>4, <4>1, FS_EmptySet
      <4>. QED
        BY <2>3, <4>1, <4>2, <4>3, <4>4
    <3>. QED
      BY <3>1, <3>2
  <2>6. ASSUME NEW t \in Topics, NEW c \in subs'[t]
        PROVE  given'[c][t] + Cardinality(Pending(t, c)') = sent'[t]
    <3>1. c \in Clients
      BY <1>1, <2>1, <2>2, <2>6
    <3>2. Cardinality(Pending(t, c)') = 0
      BY <1>2, <2>4, <3>1, FS_EmptySet
    <3>. QED
      BY <1>1, <2>3, <2>5, <2>6, <3>2
  <2>. QED
    BY <1>2, <2>6 DEF GapInv
<1>5. CASE UnsubscribeAll(e)
  BY <1>3, <1>5 DEF UnsubscribeAll
<1>6. CASE (\E list \in TopicLists : Connect(e, list)) \/ StartLoops(e) \/ ReadEnds(e) \/ ServeReturns(e)
             \/ Write(e) \/ WriteFails(e)
  BY <1>3, <1>6 DEF Connect, StartLoops, ReadEnds, ServeReturns, Write, WriteFails
<1>. QED
  BY <1>4, <1>5, <1>6 DEF Serve

LEMMA GapInductive == TypeInv /\ GapInv /\ [Next]_vars => GapInv'
<1>. SUFFICES ASSUME TypeInv, GapInv, [Next]_vars PROVE GapInv'
  OBVIOUS
<1>1. ASSUME UNCHANGED hubVars
      PROVE  GapInv'
  BY <1>1 DEF GapInv, Pending, Slow, hubVars
<1>2. HubTypeOK /\ Consumer \in Casters /\ Fetchers \subseteq Casters /\ "pair" \in Topics
  BY PushAssumption DEF TypeInv
<1>3. CASE ~crashed /\ \E c \in Clients : Alone(Serve(c))
  BY <1>2, <1>3, GapServeSteps DEF Alone
<1>4. ASSUME ~crashed, NEW b \in Casters, Alone(Loop(b))
      PROVE  GapInv'
  BY <1>2, <1>4, GapVisit, GapDropEnd DEF Alone, Loop
<1>5. ASSUME ~crashed, NEW f \in Fetchers, Fetch(f)
      PROVE  GapInv'
  <2>1. UNCHANGED hubVars \/ BeginCast(f, "pair") \/ EndCast(f)
    BY <1>5 DEF Fetch, ReadBook, CastDepth, CastDepthEnds
  <2>2. CASE BeginCast(f, "pair")
    BY <1>2, <2>2, GapBegin
  <2>3. CASE EndCast(f)
    BY <1>2, <1>5, <2>3, GapDropEnd
  <2>. QED
    BY <1>1, <2>1, <2>2, <2>3
<1>6. CASE ~crashed /\ OnFill
  <2>1. CASE CastOne
    <3>1. saying \in Seq(Topics) /\ saying # <<>>
      BY <2>1 DEF CastOne, TypeInv, ThrottleTypeOK
    <3>2. Head(saying) \in Topics
      BY <3>1
    <3>. QED
      BY <1>2, <2>1, <3>2, GapBegin DEF CastOne
  <2>2. CASE CastOneEnds
    BY <1>2, <1>6, <2>2, GapDropEnd DEF CastOneEnds
  <2>3. CASE FillComes \/ FillEnds
    BY <1>1, <2>3 DEF FillComes, FillEnds
  <2>. QED
    BY <1>6, <2>1, <2>2, <2>3 DEF OnFill
<1>7. CASE HandlerRequests \/ TimerFires \/ Tick \/ UNCHANGED vars
  BY <1>1, <1>7 DEF HandlerRequests, TimerFires, Tick, vars
<1>. QED
  BY <1>3, <1>4, <1>5, <1>6, <1>7 DEF Next

(* A client that is subscribed to a topic has been given every message of  *)
(* it since it subscribed, though any number of broadcasts may run at once *)
(* (Broadcast drops who cannot take a message).                            *)
THEOREM SubscribersMissNothing == Spec => []NoGaps
<1>1. TypeInv /\ GapInv => NoGaps
  <2>. SUFFICES ASSUME TypeInv, GapInv, ~crashed, NEW t \in Topics, NEW c \in Clients, c \in subs[t],
                       \A b \in Casters : casts[b].topic # t
                PROVE  given[c][t] = sent[t]
    BY DEF NoGaps
  <2>1. ~Slow(t, c) /\ Pending(t, c) = {}
    BY DEF Slow, Pending
  <2>2. given[c][t] + Cardinality(Pending(t, c)) = sent[t]
    BY <2>1 DEF GapInv
  <2>3. Cardinality(Pending(t, c)) = 0
    BY <2>1, FS_EmptySet
  <2>4. given[c][t] \in Nat
    BY DEF TypeInv, HubTypeOK
  <2>. QED
    BY <2>2, <2>3, <2>4
<1>. QED
  BY <1>1, PushInductive, PushInit, GapInductive, GapInit, PTL DEF Spec
=============================================================================
