------------------------------ MODULE GatewayPush ------------------------------
(***************************************************************************)
(* What the gateway pushes to its clients: OnFill's broadcasts on the      *)
(* consumer's goroutine (internal/server/ws.go), the depth throttler       *)
(* (internal/server/depth_throttle.go) and the broadcasts of the book it   *)
(* causes, each on a goroutine of its own, all through one Hub.  One pair, *)
(* and one user, whose clients all are (bounds).                           *)
(***************************************************************************)
EXTENDS Hub

CONSTANTS
  Consumer,   \* the goroutine of the fills consumer
  Fetchers,   \* bound: goroutines that fetch and broadcast the book at once
  Interval,   \* the throttling interval, in ticks
  MaxRequests,\* bound: requests for the depth
  MaxFills    \* bound: fills

ASSUME PushAssumption ==
  /\ Casters = {Consumer} \cup Fetchers /\ Consumer \notin Fetchers
  /\ Topics = {"user", "pair"}
  /\ Interval \in Nat \ {0} /\ {MaxRequests, MaxFills} \subseteq Nat

None == Interval + 1 \* no timer is set

VARIABLES
  since,     \* ticks since lastFired, up to Interval
  timer,     \* ticks until the timer runs off, or None
  dirty,
  fetches,   \* what each of Fetchers is at
  saying,    \* the topics OnFill has still to broadcast on
  in_fill,   \* the consumer is in OnFill
  fills,     \* fills consumed
  (* History *)
  requested, \* requests made
  answered,  \* requests made before the last fetch began to read the book
  still      \* ticks since the last fetch was started, up to Interval

throttleVars == <<since, timer, dirty, fetches, requested, answered, still>>
consumerVars == <<saying, in_fill, fills>>
vars == <<hubVars, throttleVars, consumerVars>>

Init ==
  /\ HubInit
  /\ since = Interval /\ timer = None /\ dirty = FALSE
  /\ fetches = [f \in Fetchers |-> "idle"]
  /\ saying = <<>> /\ in_fill = FALSE /\ fills = 0
  /\ requested = 0 /\ answered = 0 /\ still = Interval

PushTypeOK ==
  /\ HubTypeOK
  /\ {since, still} \subseteq 0..Interval /\ timer \in 0..None
  /\ {dirty, in_fill} \subseteq BOOLEAN
  /\ fetches \in [Fetchers -> {"idle", "reading", "read", "casting"}]
  /\ saying \in Seq(Topics) /\ fills \in 0..MaxFills
  /\ requested \in 0..MaxRequests /\ answered \in 0..requested

-----------------------------------------------------------------------------
(* depthThrottler                                                          *)

(* go t.fn(pair).                                                          *)
StartFetch ==
  /\ still' = 0
  /\ \E f \in Fetchers :
       /\ fetches[f] = "idle"
       /\ fetches' = [fetches EXCEPT ![f] = "reading"]

(* Mutant of Coalesce: what comes within the interval is not fetched for.  *)
Ignore == UNCHANGED <<dirty, timer>>

(* Mutant of Coalesce: the rest of the interval is a tick too short.       *)
CoalesceEarly ==
  /\ dirty' = TRUE
  /\ timer' = IF timer = None THEN Max({0, Interval - since - 1}) ELSE timer

(* The request is left to the timer, which is set if it is not.            *)
Coalesce ==
  /\ dirty' = TRUE
  /\ timer' = IF timer = None THEN Interval - since ELSE timer

Request ==
  /\ requested < MaxRequests /\ requested' = requested + 1
  /\ IF timer = None /\ since = Interval
     THEN since' = 0 /\ StartFetch /\ UNCHANGED <<timer, dirty>>
     ELSE Coalesce /\ UNCHANGED <<since, fetches, still>>
  /\ UNCHANGED answered

(* The function of AfterFunc.                                              *)
TimerFires ==
  /\ timer = 0
  /\ timer' = None /\ dirty' = FALSE /\ since' = 0
  /\ IF dirty THEN StartFetch ELSE UNCHANGED <<fetches, still>>
  /\ UNCHANGED <<requested, answered, hubVars, consumerVars>>

(* Time passes; a timer that is due may be late.                           *)
Tick ==
  /\ since' = Min({Interval, since + 1}) /\ still' = Min({Interval, still + 1})
  /\ timer' = IF timer \in {0, None} THEN timer ELSE timer - 1
  /\ UNCHANGED <<dirty, fetches, requested, answered, hubVars, consumerVars>>

(* A handler that has changed the book in the engine.                      *)
HandlerRequests ==
  /\ Request
  /\ UNCHANGED <<hubVars, consumerVars>>

-----------------------------------------------------------------------------
(* broadcastDepth                                                          *)

(* GetOrderBook answers, or does not within three seconds.                 *)
ReadBook(f) ==
  /\ fetches[f] = "reading"
  /\ \E outcome \in {"read", "idle"} : fetches' = [fetches EXCEPT ![f] = outcome]
  /\ answered' = requested
  /\ UNCHANGED <<since, timer, dirty, requested, still, hubVars, consumerVars>>

CastDepth(f) ==
  /\ fetches[f] = "read"
  /\ BeginCast(f, "pair")
  /\ fetches' = [fetches EXCEPT ![f] = "casting"]
  /\ UNCHANGED <<since, timer, dirty, requested, answered, still, consumerVars>>

CastDepthEnds(f) ==
  /\ fetches[f] = "casting"
  /\ EndCast(f)
  /\ fetches' = [fetches EXCEPT ![f] = "idle"]
  /\ UNCHANGED <<since, timer, dirty, requested, answered, still, consumerVars>>

-----------------------------------------------------------------------------
(* OnFill                                                                  *)

(* The trade and the ticker; then, of the two orders, those of the user's  *)
(* that are in the registry (two users trade, one of them may be ours).    *)
FillComes ==
  /\ ~in_fill /\ fills < MaxFills
  /\ in_fill' = TRUE /\ fills' = fills + 1
  /\ saying' \in {<<"pair", "pair">>, <<"pair", "pair", "user">>}
  /\ UNCHANGED <<hubVars, throttleVars>>

CastOne ==
  /\ in_fill /\ saying # <<>>
  /\ BeginCast(Consumer, Head(saying))
  /\ saying' = Tail(saying)
  /\ UNCHANGED <<in_fill, fills, throttleVars>>

CastOneEnds ==
  /\ EndCast(Consumer)
  /\ UNCHANGED <<consumerVars, throttleVars>>

FillEnds ==
  /\ in_fill /\ saying = <<>> /\ ~Casting(Consumer)
  /\ Request
  /\ in_fill' = FALSE
  /\ UNCHANGED <<saying, fills, hubVars>>

-----------------------------------------------------------------------------
(* A step of the hub that is nobody's but its own.                         *)
Alone(step) == step /\ UNCHANGED <<throttleVars, consumerVars>>

Serve(c) ==
  \/ \E list \in TopicLists : Connect(c, list)
  \/ Subscribe(c) \/ StartLoops(c) \/ ReadEnds(c) \/ UnsubscribeAll(c) \/ ServeReturns(c)
  \/ Write(c) \/ WriteFails(c)

Loop(b) == (\E c \in Clients : Visit(b, c)) \/ Drop(b)

Fetch(f) == ReadBook(f) \/ CastDepth(f) \/ CastDepthEnds(f)
OnFill == FillComes \/ CastOne \/ CastOneEnds \/ FillEnds

Next ==
  /\ ~crashed
  /\ \/ \E c \in Clients : Alone(Serve(c))
     \/ \E b \in Casters : Alone(Loop(b))
     \/ \E f \in Fetchers : Fetch(f)
     \/ OnFill \/ HandlerRequests \/ TimerFires \/ Tick

Running(step) == ~crashed /\ step

(* A message that waits is written, or runs into its deadline; on a        *)
(* connection that is closed, the next ping fails.                         *)
WriterMoves(c) ==
  \/ (waiting[c] > 0 \/ c \in closed) /\ (Write(c) \/ WriteFails(c))
  \/ pc[c] \in {"leaving", "flushing"} /\ WriteFails(c)

(* Goroutines run, time passes, timers run off, a call to the engine and a *)
(* write to a peer have deadlines.  That a peer leaves is sure only when   *)
(* nobody pings it any more: its pong does not come.  Go's RWMutex lets a  *)
(* waiting writer in before new readers.                                   *)
Fairness ==
  /\ WF_vars(Running(Tick)) /\ WF_vars(Running(TimerFires))
  /\ \A f \in Fetchers : WF_vars(Running(Fetch(f) \/ Alone(Loop(f))))
  /\ WF_vars(Running(Alone(Loop(Consumer)) \/ CastOne \/ CastOneEnds \/ FillEnds))
  /\ \A c \in Clients :
       /\ WF_vars(Running(Alone(WriterMoves(c))))
       /\ WF_vars(Running(Alone(StartLoops(c) \/ (writer[c] = "done" /\ ReadEnds(c)) \/ ServeReturns(c))))
       /\ SF_vars(Running(Alone(Subscribe(c) \/ UnsubscribeAll(c))))

Spec == Init /\ [][Next]_vars /\ Fairness

-----------------------------------------------------------------------------
(* Properties                                                              *)

(* Two fetches of the book are never started within one interval, whatever *)
(* the orders, the fills and late timers do: the engine's queue, which     *)
(* takes orders too, is spared them (depthThrottler).                      *)
FetchesApart ==
  [][(\E f \in Fetchers : fetches[f] = "idle" /\ fetches'[f] = "reading") => still = Interval]_vars

(* After every request the book is asked for once more, however requests,  *)
(* the timer and slow fetches interleave: no change stays unseen behind a  *)
(* burst ("capturing the latest state").                                   *)
RequestsAreAnswered == \A n \in 1..MaxRequests : requested >= n ~> crashed \/ answered >= n

(* A client whose write loop has ended, because its peer is slow or a      *)
(* broadcast dropped it, is let go of, and so is one that left: a channel  *)
(* nobody empties holds up neither the broadcasts nor Serve.               *)
DeadClientsLeave ==
  \A c \in Clients :
    writer[c] = "done" \/ pc[c] = "leaving" ~> crashed \/ pc[c] \in {"returned", "panicked"}
=============================================================================
