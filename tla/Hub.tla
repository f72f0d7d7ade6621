---------------------------------- MODULE Hub ----------------------------------
(***************************************************************************)
(* The WebSocket hub and its clients (internal/ws/hub.go, client.go):      *)
(* Serve with its read loop and write loop for each client, and Broadcast, *)
(* which runs on whatever goroutine has something to say, several at once. *)
(*                                                                         *)
(* A message is not told from another: a client's channel is how many wait *)
(* in it.  The operators are steps; GatewayPush says who broadcasts what.  *)
(***************************************************************************)
EXTENDS Integers, SequencesExt

CONSTANTS
  Clients,
  Casters,    \* the goroutines that broadcast
  Topics,
  TopicLists, \* what a client may subscribe to, in order (handleWS)
  Room        \* the capacity of a client's channel (32)

ASSUME HubAssumption ==
  Room \in Nat \ {0} /\ \A list \in TopicLists : list \in Seq(Topics) /\ Len(list) > 0

VARIABLES
  subs,    \* the clients of each topic
  topics,  \* each client's topics
  joined,  \* how many of them it has subscribed to
  pc,      \* where its Serve is
  writer,  \* and its write loop
  waiting, \* messages in its channel
  closed,  \* clients whose channel is closed
  casts,   \* the broadcast each goroutine is in
  crashed, \* a panic nobody recovers has ended the gateway
  (* History *)
  sent,    \* broadcasts begun on each topic
  given,   \* how far each client has come with each topic
  dropped  \* clients a broadcast found slow

hubVars == <<subs, topics, joined, pc, writer, waiting, closed, casts, crashed, sent, given, dropped>>

NoCast == [topic |-> "none", todo |-> {}, full |-> {}]

HubInit ==
  /\ subs = [t \in Topics |-> {}]
  /\ topics = [c \in Clients |-> <<>>] /\ joined = [c \in Clients |-> 0]
  /\ pc = [c \in Clients |-> "new"] /\ writer = [c \in Clients |-> "none"]
  /\ waiting = [c \in Clients |-> 0] /\ closed = {}
  /\ casts = [b \in Casters |-> NoCast]
  /\ crashed = FALSE
  /\ sent = [t \in Topics |-> 0] /\ given = [c \in Clients |-> [t \in Topics |-> 0]]
  /\ dropped = {}

HubTypeOK ==
  /\ subs \in [Topics -> SUBSET Clients]
  /\ topics \in [Clients -> TopicLists \cup {<<>>}]
  /\ joined \in [Clients -> Nat]
  /\ \A c \in Clients : joined[c] <= Len(topics[c]) /\ (pc[c] = "new" => joined[c] = 0)
  /\ pc \in [Clients -> {"new", "subscribing", "open", "leaving", "flushing", "returned", "panicked"}]
  /\ writer \in [Clients -> {"none", "running", "done"}]
  /\ waiting \in [Clients -> 0..Room]
  /\ casts \in [Casters -> [topic : Topics, todo : SUBSET Clients, full : SUBSET Clients] \cup {NoCast}]
  /\ crashed \in BOOLEAN /\ closed \cup dropped \subseteq Clients
  /\ sent \in [Topics -> Nat] /\ given \in [Clients -> [Topics -> Nat]]

-----------------------------------------------------------------------------
(* Broadcast: a reader of the lock, together with others                   *)

Casting(b) == casts[b] # NoCast
CanLock == \A b \in Casters : ~Casting(b)

BeginCast(b, t) ==
  /\ ~Casting(b)
  /\ casts' = [casts EXCEPT ![b] = [topic |-> t, todo |-> subs[t], full |-> {}]]
  /\ sent' = [sent EXCEPT ![t] = @ + 1]
  /\ UNCHANGED <<subs, topics, joined, pc, writer, waiting, closed, crashed, given, dropped>>

(* The clients the loop has still to come to; who was taken out of the map *)
(* meanwhile is not met.                                                   *)
Ahead(b) == casts[b].todo \cap subs[casts[b].topic]

(* Mutant of Fits: the channel grows.                                      *)
FitsAlways(c) == TRUE

Fits(c) == waiting[c] < Room

(* Mutant of Visit: the broadcast waits for room.                          *)
VisitOrWait(b, c) ==
  LET t == casts[b].topic
  IN  /\ Casting(b) /\ c \in Ahead(b) /\ casts[b].full = {}
      /\ c \in closed \/ Fits(c)
      /\ casts' = [casts EXCEPT ![b].todo = @ \ {c}]
      /\ crashed' = (c \in closed)
      /\ IF c \in closed THEN UNCHANGED <<waiting, given>>
         ELSE /\ waiting' = [waiting EXCEPT ![c] = @ + 1]
              /\ given' = [given EXCEPT ![c][t] = @ + 1]
      /\ UNCHANGED <<subs, topics, joined, pc, writer, closed, sent, dropped>>

(* The select: into the channel if there is room; a closed channel panics. *)
Visit(b, c) ==
  LET t == casts[b].topic
  IN  /\ Casting(b) /\ c \in Ahead(b) /\ casts[b].full = {}
      /\ casts' = [casts EXCEPT ![b].todo = @ \ {c},
                                ![b].full = IF c \notin closed /\ ~Fits(c) THEN {c} ELSE {}]
      /\ crashed' = (c \in closed)
      /\ IF c \notin closed /\ Fits(c)
         THEN /\ waiting' = [waiting EXCEPT ![c] = @ + 1]
              /\ given' = [given EXCEPT ![c][t] = @ + 1]
         ELSE UNCHANGED <<waiting, given>>
      /\ UNCHANGED <<subs, topics, joined, pc, writer, closed, sent, dropped>>

(* Mutant of Drop: the message is dropped, the client stays.               *)
DropTheMessage(b) ==
  /\ casts[b].full # {}
  /\ casts' = [casts EXCEPT ![b].full = {}]
  /\ dropped' = dropped \cup casts[b].full
  /\ UNCHANGED <<subs, topics, joined, pc, writer, waiting, closed, crashed, sent, given>>

(* The default branch: out of this topic, and its channel is closed; if it *)
(* is closed by now, this panics.  The map is written under the read lock: *)
(* the runtime may end the process when another broadcast is in it.        *)
Drop(b) ==
  LET t == casts[b].topic
  IN  /\ casts[b].full # {}
      /\ subs' = [subs EXCEPT ![t] = @ \ casts[b].full]
      /\ closed' = closed \cup casts[b].full
      /\ dropped' = dropped \cup casts[b].full
      /\ casts' = [casts EXCEPT ![b].full = {}]
      /\ \/ crashed' = (casts[b].full \cap closed # {})
         \/ (\E other \in Casters \ {b} : Casting(other)) /\ crashed' = TRUE
      /\ UNCHANGED <<topics, joined, pc, writer, waiting, sent, given>>

EndCast(b) ==
  /\ Casting(b) /\ Ahead(b) = {} /\ casts[b].full = {}
  /\ casts' = [casts EXCEPT ![b] = NoCast]
  /\ UNCHANGED <<subs, topics, joined, pc, writer, waiting, closed, crashed, sent, given, dropped>>

-----------------------------------------------------------------------------
(* Serve                                                                   *)

Connect(c, list) ==
  /\ pc[c] = "new"
  /\ topics' = [topics EXCEPT ![c] = list]
  /\ pc' = [pc EXCEPT ![c] = "subscribing"]
  /\ UNCHANGED <<subs, joined, writer, waiting, closed, casts, crashed, sent, given, dropped>>

Subscribe(c) ==
  LET t == topics[c][joined[c] + 1]
  IN  /\ pc[c] = "subscribing" /\ joined[c] < Len(topics[c]) /\ CanLock
      /\ subs' = [subs EXCEPT ![t] = @ \cup {c}]
      /\ given' = [given EXCEPT ![c][t] = sent[t]]
      /\ joined' = [joined EXCEPT ![c] = @ + 1]
      /\ UNCHANGED <<topics, pc, writer, waiting, closed, casts, crashed, sent, dropped>>

StartLoops(c) ==
  /\ pc[c] = "subscribing" /\ joined[c] = Len(topics[c])
  /\ pc' = [pc EXCEPT ![c] = "open"]
  /\ writer' = [writer EXCEPT ![c] = "running"]
  /\ UNCHANGED <<subs, topics, joined, waiting, closed, casts, crashed, sent, given, dropped>>

(* readLoop: the peer went away, or its pong did not come in time.         *)
ReadEnds(c) ==
  /\ pc[c] = "open"
  /\ pc' = [pc EXCEPT ![c] = "leaving"]
  /\ UNCHANGED <<subs, topics, joined, writer, waiting, closed, casts, crashed, sent, given, dropped>>

(* writeLoop: a message is written; behind the last one of a closed        *)
(* channel the loop ends.                                                  *)
Write(c) ==
  /\ writer[c] = "running"
  /\ waiting[c] > 0 \/ c \in closed
  /\ waiting' = [waiting EXCEPT ![c] = Max({0, @ - 1})]
  /\ writer' = [writer EXCEPT ![c] = IF waiting[c] > 0 THEN "running" ELSE "done"]
  /\ UNCHANGED <<subs, topics, joined, pc, closed, casts, crashed, sent, given, dropped>>

(* A message, or a ping, is not taken within the deadline.                 *)
WriteFails(c) ==
  /\ writer[c] = "running"
  /\ waiting' = [waiting EXCEPT ![c] = Max({0, @ - 1})]
  /\ writer' = [writer EXCEPT ![c] = "done"]
  /\ UNCHANGED <<subs, topics, joined, pc, closed, casts, crashed, sent, given, dropped>>

(* Mutant of UnsubscribeAll: only the client's first topic is looked at.   *)
UnsubscribeFirst(c) ==
  /\ pc[c] = "leaving" /\ CanLock
  /\ subs' = [subs EXCEPT ![topics[c][1]] = @ \ {c}]
  /\ closed' = closed \cup {c}
  /\ pc' = [pc EXCEPT ![c] = IF c \in closed THEN "panicked" ELSE "flushing"]
  /\ UNCHANGED <<topics, joined, writer, waiting, casts, crashed, sent, given, dropped>>

(* A broadcast may have closed the channel: closing it again panics, and   *)
(* middleware.Recoverer ends this client's handler alone.                  *)
UnsubscribeAll(c) ==
  /\ pc[c] = "leaving" /\ CanLock
  /\ subs' = [t \in Topics |-> subs[t] \ {c}]
  /\ closed' = closed \cup {c}
  /\ pc' = [pc EXCEPT ![c] = IF c \in closed THEN "panicked" ELSE "flushing"]
  /\ UNCHANGED <<topics, joined, writer, waiting, casts, crashed, sent, given, dropped>>

(* <-writeDone.                                                            *)
ServeReturns(c) ==
  /\ pc[c] = "flushing" /\ writer[c] = "done"
  /\ pc' = [pc EXCEPT ![c] = "returned"]
  /\ UNCHANGED <<subs, topics, joined, writer, waiting, closed, casts, crashed, sent, given, dropped>>

-----------------------------------------------------------------------------
(* Properties                                                              *)

(* A client that is subscribed to a topic has been given every message of  *)
(* it since it subscribed: one that cannot take a message is dropped, and  *)
(* does not go on with a gap it knows nothing of.                          *)
NoGaps ==
  \A t \in Topics, c \in Clients :
    ~crashed /\ c \in subs[t] /\ (\A b \in Casters : casts[b].topic # t) => given[c][t] = sent[t]

(* The gateway goes down over a closed channel only after a broadcast      *)
(* found a client slow; a client that leaves by itself never brings it     *)
(* down, at whatever point of a broadcast it leaves.                       *)
CrashNeedsSlowClient == crashed => dropped # {}

(* Who has left, by returning or by a panic, is in no topic's map, whatever *)
(* a broadcast took it out of before.                                      *)
TheGoneAreForgotten ==
  \A c \in Clients : pc[c] \in {"flushing", "returned", "panicked"} => \A t \in Topics : c \notin subs[t]
=============================================================================
