------------------------- MODULE ProxyWebSocketProofs -------------------------
(***************************************************************************)
(* One client's WebSocket, for any number of turns, connections and frames:  *)
(* no request is replayed; what a client hears is about the turn it is in;  *)
(* and one that is silent while it waits does not wait for nothing.          *)
(***************************************************************************)
EXTENDS ProxyWebSocket, TLAPS

\* The part of the type invariant the argument needs.
Typed ==
  /\ inbox \in Seq(Frame)
  /\ held \in Maybe(Request \cup {"ping"})
  /\ begun \in SUBSET Request
  /\ got \in [Request -> Nat]

\* A request is in one place: not yet sent by the client, once in its queue,
\* held by the task, or gone to the fence, where it arrived once at most.
Waits(r) == \E i \in 1..Len(inbox) : inbox[i] = r

OnePlace ==
  \A r \in Request :
    /\ r \notin begun => ~Waits(r) /\ held # r /\ got[r] = 0
    /\ \A i, j \in 1..Len(inbox) : inbox[i] = r /\ inbox[j] = r => i = j
    /\ Waits(r) => held # r /\ got[r] = 0
    /\ held = r => got[r] = 0
    /\ got[r] <= 1

Inv == Typed /\ OnePlace

LEMMA InitInv == Init => Inv
BY ParameterAssumption DEF Init, Inv, Typed, OnePlace, Waits, Maybe, Frame

\* Steps that move no request.
LEMMA RestKeeps == ASSUME Inv, UNCHANGED <<inbox, held, begun, got>> PROVE Inv'
BY DEF Inv, Typed, OnePlace, Waits

\* The client sends something other than a request it has sent before.
LEMMA AppendKeeps ==
  ASSUME Inv, NEW frame \in Frame, inbox' = Append(inbox, frame), UNCHANGED <<held, got>>,
         \/ frame \in {"ping", "close"} /\ begun' = begun
         \/ frame \in Request \ begun /\ begun' = begun \cup {frame}
  PROVE  Inv'
<1> USE ParameterAssumption DEF Inv, Typed, Frame
<1>1. Typed'
  OBVIOUS
<1>2. /\ Len(inbox') = Len(inbox) + 1 /\ Len(inbox) \in Nat
      /\ \A i \in 1..Len(inbox) : inbox'[i] = inbox[i]
      /\ inbox'[Len(inbox) + 1] = frame
  OBVIOUS
<1>3. \A r \in Request : Waits(r)' <=> Waits(r) \/ r = frame
  BY <1>2 DEF Waits
<1>4. ASSUME NEW r \in Request, NEW i \in 1..Len(inbox'), NEW j \in 1..Len(inbox'),
             inbox'[i] = r, inbox'[j] = r
      PROVE  i = j
  <2>1. CASE r = frame
    <3>1. ~Waits(r)
      BY <2>1 DEF OnePlace
    <3> QED BY <1>2, <1>4, <3>1 DEF Waits
  <2>2. CASE r # frame
    BY <1>2, <1>4, <2>2 DEF OnePlace
  <2> QED BY <2>1, <2>2
<1>5. OnePlace'
  BY <1>3, <1>4 DEF OnePlace
<1> QED BY <1>1, <1>5

\* The task takes the first frame of the client, and holds it or drops it.
LEMMA TakeKeeps ==
  ASSUME Inv, NEW frame \in Frame, Reading(frame), got' = got,
         held' = held \/ (held' = frame /\ frame # "close")
  PROVE  Inv'
<1> USE ParameterAssumption DEF Inv, Typed, Frame, Maybe
<1>1. inbox # <<>> /\ inbox' = Tail(inbox) /\ begun' = begun /\ inbox[1] = frame
  BY DEF Reading
<1>2. Typed'
  BY <1>1
<1>3. /\ Len(inbox) \in Nat \ {0} /\ Len(inbox') = Len(inbox) - 1
      /\ \A i \in 1..Len(inbox') : inbox'[i] = inbox[i + 1]
  BY <1>1
<1>4. ASSUME NEW r \in Request, Waits(r)' PROVE Waits(r) /\ r # frame
  <2>1. PICK i \in 1..Len(inbox') : inbox'[i] = r
    BY <1>4 DEF Waits
  <2>2. i + 1 \in 1..Len(inbox) /\ 1 \in 1..Len(inbox) /\ inbox[i + 1] = r /\ i + 1 # 1
    BY <1>3, <2>1
  <2> QED BY <1>1, <2>2 DEF Waits, OnePlace
<1>5. frame \in Request => Waits(frame)
  BY <1>1, <1>3 DEF Waits
<1>6. ASSUME NEW r \in Request, NEW i \in 1..Len(inbox'), NEW j \in 1..Len(inbox'),
             inbox'[i] = r, inbox'[j] = r
      PROVE  i = j
  <2>1. i + 1 \in 1..Len(inbox) /\ j + 1 \in 1..Len(inbox) /\ inbox[i + 1] = r /\ inbox[j + 1] = r
    BY <1>3, <1>6
  <2>2. i + 1 = j + 1
    BY <2>1 DEF OnePlace
  <2> QED BY <1>3, <2>2
<1>7. OnePlace'
  BY <1>1, <1>4, <1>5, <1>6 DEF OnePlace
<1> QED BY <1>2, <1>7

\* What the task held is gone, to the fence or not.
LEMMA GiveKeeps ==
  ASSUME Inv, UNCHANGED <<inbox, begun>>, held' = None,
         \/ got' = got
         \/ held \in Request /\ got' = [got EXCEPT ![held] = @ + 1]
  PROVE  Inv'
<1> USE ParameterAssumption DEF Inv, Typed, Maybe
<1>1. Typed'
  OBVIOUS
<1>2. \A r \in Request : Waits(r)' <=> Waits(r)
  BY DEF Waits
<1>3. \A r \in Request : got'[r] = got[r] \/ (r = held /\ got'[r] = got[r] + 1)
  OBVIOUS
<1>4. OnePlace'
  BY <1>2, <1>3 DEF OnePlace
<1> QED BY <1>1, <1>4

LEMMA NextInv == Inv /\ [Next]_vars => Inv'
<1> SUFFICES ASSUME Inv, [Next]_vars PROVE Inv'
  OBVIOUS
<1> USE DEF task, fence, client
<1>1. ASSUME NEW r \in Request, Begin(r) PROVE Inv'
  BY <1>1, AppendKeeps DEF Begin, Frame
<1>2. CASE Ping \/ Leave
  BY <1>2, AppendKeeps DEF Ping, Leave, Frame
<1>3. CASE Hear \/ Event \/ IdlePing \/ ForwardFails
  BY <1>3, RestKeeps DEF Hear, Event, Emit, IdlePing, ForwardFails
<1>4. ASSUME NEW r \in Request, Complete(r) PROVE Inv'
  BY <1>4, RestKeeps DEF Complete, Emit
<1>5. ASSUME NEW remains, Hangup(remains) PROVE Inv'
  BY <1>5, RestKeeps DEF Hangup
<1>6. CASE Connect
  <2>1. CASE Connected \/ ConnectFails \/ Reconnected
    BY <2>1, RestKeeps DEF Connected, ConnectFails, Reconnected
  <2>2. CASE ReconnectFails
    BY <2>2, GiveKeeps DEF ReconnectFails
  <2> QED BY <1>6, <2>1, <2>2 DEF Connect
<1>7. CASE ReadClient
  <2>1. CASE ReadClose
    BY <2>1, TakeKeeps DEF ReadClose, Frame
  <2>2. CASE ReadPing
    BY <2>2, TakeKeeps DEF ReadPing, Frame
  <2>3. ASSUME NEW r \in Request, ReadDiscarded(r) PROVE Inv'
    BY <2>3, TakeKeeps DEF ReadDiscarded, Frame
  <2>4. ASSUME NEW r \in Request, ReadRequest(r) PROVE Inv'
    BY <2>4, TakeKeeps, ParameterAssumption DEF ReadRequest, Frame
  <2> QED BY <1>7, <2>1, <2>2, <2>3, <2>4 DEF ReadClient
<1>8. CASE Sending
  <2>1. CASE Send
    BY <2>1, GiveKeeps DEF Send, Deliver
  <2>2. ASSUME NEW arrived \in BOOLEAN, SendFails(arrived) PROVE Inv'
    BY <2>2, GiveKeeps DEF SendFails
  <2> QED BY <1>8, <2>1, <2>2 DEF Sending
<1>9. CASE ReadFence
  BY <1>9, RestKeeps DEF ReadFence, ReadFrame, ReadFarewell
<1>10. CASE UNCHANGED vars
  BY <1>10, RestKeeps DEF vars
<1> QED BY <1>1, <1>2, <1>3, <1>4, <1>5, <1>6, <1>7, <1>8, <1>9, <1>10 DEF Next

\* The fence receives a request at most once, over all connections the task
\* opens, whether or not the error of a send tells that it arrived.
THEOREM NothingIsReplayed == Spec => []NeverReplayed
<1>1. Inv => NeverReplayed
  BY DEF Inv, OnePlace, NeverReplayed
<1> QED BY InitInv, NextInv, <1>1, PTL DEF Spec

-----------------------------------------------------------------------------
(* Whose answer it is.  A client that sends its first request during the    *)
(* first handshake is in one turn at a time, and so is the task.            *)

\* What the argument needs of the other variables.
Kinds ==
  /\ at \in {"handshake", "serve", "reconnect", "send", "over"}
  /\ discard \in BOOLEAN /\ linked \in BOOLEAN
  /\ inFlight \in Maybe(Request) /\ current \in Maybe(Request)
  /\ missed \in {"none", "open", "reported"}
  /\ work \in SUBSET Request
  /\ down \in Seq(FenceFrame)

\* There is at most one answer, and it is about the turn the client is in.
Answer == outbox = <<>> \/ (outbox = <<current>> /\ current # None)

\* What the task holds, and whether it is connected, by what it is doing.
Place ==
  /\ at \in {"handshake", "serve"} => held = None
  /\ at = "reconnect" => held \in Request
  /\ at \in {"handshake", "reconnect"} => ~linked
  /\ at = "send" => linked /\ held # None

\* The turn that is going on behind inFlight: none, if its end was missed.
Flying == IF missed = "open" THEN None ELSE inFlight
USE DEF Flying

\* The fence works on the turn in flight or has answered it, once.
FenceTurn ==
  /\ ~linked => work = {} /\ down = <<>> /\ inFlight = None
  /\ \A r \in work : r = Flying
  /\ \A i \in 1..Len(down) : down[i] \in Request => down[i] = Flying /\ Flying \notin work
  /\ \A i, j \in 1..Len(down) : down[i] \in Request /\ down[j] \in Request => i = j

\* The client's queue holds no request; after the first n frames, none but the
\* one of the turn, which is not answered.
NoRequest == \A i \in 1..Len(inbox) : inbox[i] \notin Request
OnlyCurrent(n) ==
  \A i \in 1..Len(inbox) : i > n /\ inbox[i] \in Request => inbox[i] = current /\ outbox = <<>>

\* The first request of the queue: the one the task will discard.
First(f) == inbox[f] \in Request /\ \A i \in 1..Len(inbox) : i < f => inbox[i] \notin Request

\* Where the request of the turn is, and that no other is anywhere but the one
\* a failed handshake has answered already.
HeldTurn == held \in Request =>
  held = current /\ outbox = <<>> /\ Flying = None /\ ~discard /\ NoRequest
FlightTurn == Flying # None =>
  Flying = current /\ outbox = <<>> /\ ~discard /\ NoRequest
QueueTurn ==
  /\ ~discard => OnlyCurrent(0)
  /\ discard => \E f \in 1..Len(inbox) : First(f) /\ OnlyCurrent(f)
FirstTurn == at = "handshake" =>
  /\ outbox = <<>> /\ ~discard
  /\ \/ begun = {} /\ current = None
     \/ current # None /\ Waits(current)

Turn == HeldTurn /\ FlightTurn /\ QueueTurn /\ FirstTurn
Serving == Place /\ FenceTurn /\ Turn
OneTurn == Early /\ Inv /\ Kinds /\ Answer /\ (at # "over" => Serving)

LEMMA InitOneTurn == Early /\ Init => OneTurn
<1> SUFFICES ASSUME Early, Init PROVE OneTurn
  OBVIOUS
<1> USE ParameterAssumption DEF Init, Maybe
<1>1. Kinds
  <2>1. at = "handshake" /\ discard = FALSE /\ linked = FALSE /\ inFlight = None /\ missed = "none"
        /\ current = None
    BY Zenon
  <2>2. work \in SUBSET Request /\ down \in Seq(FenceFrame)
    OBVIOUS
  <2> QED BY <2>1, <2>2 DEF Kinds
<1>4. Answer /\ Place
  BY Zenon DEF Answer, Place
<1>2. FenceTurn
  BY DEF FenceTurn
<1>3. Turn
  BY DEF Turn, HeldTurn, FlightTurn, QueueTurn, OnlyCurrent, FirstTurn
<1> QED BY InitInv, <1>1, <1>2, <1>3, <1>4 DEF OneTurn, Serving

\* A frame of the client joins its queue.
LEMMA AppendTurn ==
  ASSUME Inv, QueueTurn, NEW frame \in Frame \ Request, inbox' = Append(inbox, frame),
         UNCHANGED <<discard, current, outbox>>
  PROVE  QueueTurn' /\ (NoRequest => NoRequest') /\ \A r \in Request : Waits(r) => Waits(r)'
<1> USE DEF Inv, Typed
<1>1. /\ Len(inbox') = Len(inbox) + 1 /\ Len(inbox) \in Nat
      /\ \A i \in 1..Len(inbox) : inbox'[i] = inbox[i]
      /\ inbox'[Len(inbox) + 1] = frame
  OBVIOUS
<1>2. ASSUME NEW n \in Nat, OnlyCurrent(n) PROVE OnlyCurrent(n)'
  BY <1>1, <1>2 DEF OnlyCurrent
<1>3. ASSUME NEW f \in 1..Len(inbox), First(f) PROVE f \in 1..Len(inbox') /\ First(f)'
  BY <1>1, <1>3 DEF First
<1>4. QueueTurn'
  <2>1. CASE ~discard
    BY <1>2, <2>1 DEF QueueTurn
  <2>2. CASE discard
    <3>1. PICK f \in 1..Len(inbox) : First(f) /\ OnlyCurrent(f)
      BY <2>2 DEF QueueTurn
    <3>2. f \in 1..Len(inbox') /\ First(f)' /\ OnlyCurrent(f)'
      BY <1>1, <1>2, <1>3, <3>1
    <3> QED BY <2>2, <3>2 DEF QueueTurn
  <2> QED BY <2>1, <2>2
<1>5. NoRequest => NoRequest'
  BY <1>1 DEF NoRequest
<1>6. \A r \in Request : Waits(r) => Waits(r)'
  BY <1>1 DEF Waits
<1> QED BY <1>4, <1>5, <1>6

\* The task takes a frame of the queue that is no request.
LEMMA TailTurn ==
  ASSUME Inv, QueueTurn, inbox # <<>>, Head(inbox) \notin Request, inbox' = Tail(inbox),
         UNCHANGED <<discard, current, outbox>>
  PROVE  QueueTurn' /\ (NoRequest => NoRequest')
<1> USE DEF Inv, Typed
<1>1. /\ Len(inbox) \in Nat \ {0} /\ Len(inbox') = Len(inbox) - 1
      /\ \A i \in 1..Len(inbox') : i + 1 \in 1..Len(inbox) /\ inbox'[i] = inbox[i + 1]
      /\ inbox[1] \notin Request
  OBVIOUS
<1>2. NoRequest => NoRequest'
  BY <1>1 DEF NoRequest
<1>3. OnlyCurrent(0) => OnlyCurrent(0)'
  BY <1>1 DEF OnlyCurrent
<1>4. ASSUME NEW f \in 1..Len(inbox), First(f), OnlyCurrent(f)
      PROVE  f - 1 \in 1..Len(inbox') /\ First(f - 1)' /\ OnlyCurrent(f - 1)'
  <2>1. f # 1 /\ f - 1 \in 1..Len(inbox')
    BY <1>1, <1>4 DEF First
  <2>2. First(f - 1)'
    BY <1>1, <1>4, <2>1 DEF First
  <2>3. OnlyCurrent(f - 1)'
    BY <1>1, <1>4, <2>1 DEF OnlyCurrent
  <2> QED BY <2>1, <2>2, <2>3
<1>5. QueueTurn'
  BY <1>3, <1>4 DEF QueueTurn
<1> QED BY <1>2, <1>5

\* The task takes a request that it will not discard: it is the turn's, and
\* the queue holds no other.
LEMMA TailRequest ==
  ASSUME Inv, QueueTurn, ~discard, NEW r \in Request, Reading(r)
  PROVE  r = current /\ outbox = <<>> /\ ~NoRequest /\ NoRequest'
<1> USE DEF Inv, Typed
<1>1. /\ Len(inbox) \in Nat \ {0} /\ Len(inbox') = Len(inbox) - 1
      /\ \A i \in 1..Len(inbox') : i + 1 \in 1..Len(inbox) /\ i + 1 # 1 /\ inbox'[i] = inbox[i + 1]
      /\ inbox[1] = r
  BY DEF Reading
<1>2. r = current /\ outbox = <<>> /\ ~NoRequest
  BY <1>1 DEF QueueTurn, OnlyCurrent, NoRequest
<1>3. NoRequest'
  <2>1. SUFFICES ASSUME NEW i \in 1..Len(inbox'), inbox'[i] \in Request PROVE FALSE
    BY DEF NoRequest
  <2>2. i + 1 \in 1..Len(inbox) /\ i + 1 > 0 /\ i + 1 # 1 /\ inbox[i + 1] \in Request
    BY <1>1, <2>1
  <2>3. inbox[i + 1] = current
    BY <2>2 DEF QueueTurn, OnlyCurrent
  <2>4. 1 \in 1..Len(inbox) /\ inbox[1] = r /\ inbox[i + 1] = r
    BY <1>1, <1>2, <2>3
  <2> QED BY <2>2, <2>4 DEF OnePlace
<1> QED BY <1>2, <1>3

\* Begin: no turn is going on, so nothing of an earlier one is left.
LEMMA BeginTurn == ASSUME OneTurn, NEW r \in Request, Begin(r) PROVE OneTurn'
<1> USE ParameterAssumption DEF Begin, task, fence, Maybe
<1>1. Inv' /\ Serving
  BY AppendKeeps DEF OneTurn, Frame
<1>2. Kinds' /\ Answer'
  BY DEF OneTurn, Kinds, Answer
<1>3. Place' /\ FenceTurn'
  BY <1>1 DEF Serving, Place, FenceTurn
<1>4. /\ Len(inbox') = Len(inbox) + 1 /\ Len(inbox) \in Nat
      /\ \A i \in 1..Len(inbox) : inbox'[i] = inbox[i]
      /\ inbox'[Len(inbox) + 1] = r /\ Len(inbox) + 1 \in 1..Len(inbox')
  BY DEF OneTurn, Inv, Typed
<1>5. held \notin Request /\ Flying = None /\ outbox = <<>>
  BY <1>1 DEF OneTurn, Answer, Serving, Turn, HeldTurn, FlightTurn
<1>6. HeldTurn' /\ FlightTurn'
  BY <1>5 DEF HeldTurn, FlightTurn
<1>7. ASSUME NEW n \in Nat, OnlyCurrent(n) PROVE OnlyCurrent(n)'
  BY <1>4, <1>5, <1>7 DEF OnlyCurrent
<1>8. QueueTurn'
  <2>1. CASE ~discard
    BY <1>1, <1>7, <2>1 DEF Serving, Turn, QueueTurn
  <2>2. CASE discard
    <3>1. PICK f \in 1..Len(inbox) : First(f) /\ OnlyCurrent(f)
      BY <1>1, <2>2 DEF Serving, Turn, QueueTurn
    <3>2. f \in 1..Len(inbox') /\ First(f)' /\ OnlyCurrent(f)'
      BY <1>4, <1>7, <3>1 DEF First
    <3> QED BY <2>2, <3>2 DEF QueueTurn
  <2> QED BY <2>1, <2>2
<1>9. FirstTurn'
  BY <1>1, <1>4 DEF Serving, Turn, FirstTurn, Waits
<1> QED BY <1>1, <1>2, <1>3, <1>6, <1>8, <1>9 DEF OneTurn, Serving, Turn

\* Ping and Leave: the frame is no request.
LEMMA FrameTurn ==
  ASSUME OneTurn, at # "over", NEW frame \in {"ping", "close"}, inbox' = Append(inbox, frame),
         UNCHANGED <<task, fence, current, begun, outbox, got>>
  PROVE  OneTurn'
<1> USE ParameterAssumption DEF task, fence, Maybe
<1>1. Inv' /\ Serving /\ frame \in Frame \ Request
  BY AppendKeeps DEF OneTurn, Frame
<1>2. Kinds' /\ Answer' /\ Place' /\ FenceTurn'
  BY <1>1 DEF OneTurn, Kinds, Answer, Serving, Place, FenceTurn
<1>3. QueueTurn' /\ (NoRequest => NoRequest') /\ \A r \in Request : Waits(r) => Waits(r)'
  BY <1>1, AppendTurn DEF OneTurn, Serving, Turn
<1>4. HeldTurn' /\ FlightTurn'
  BY <1>1, <1>3 DEF Serving, Turn, HeldTurn, FlightTurn
<1>5. FirstTurn'
  BY <1>1, <1>3 DEF OneTurn, Kinds, Serving, Turn, FirstTurn
<1> QED BY <1>1, <1>2, <1>3, <1>4, <1>5 DEF OneTurn, Serving, Turn

\* Hear: the turn is over, and nothing of it is left.
LEMMA HearTurn == ASSUME OneTurn, Hear PROVE OneTurn'
<1> USE ParameterAssumption DEF Hear, task, fence, Maybe
<1>1. Inv'
  BY RestKeeps DEF OneTurn
<1>2. outbox = <<current>> /\ outbox' = <<>> /\ current' = None
  <2>1. outbox = <<current>> /\ outbox' = Tail(outbox) /\ current' = None
    BY DEF OneTurn, Answer
  <2>2. Tail(<<current>>) = <<>>
    OBVIOUS
  <2> QED BY <2>1, <2>2
<1>3. Kinds' /\ Answer'
  BY <1>2 DEF OneTurn, Kinds, Answer
<1>4. ASSUME Serving PROVE Serving'
  <2>1. Place' /\ FenceTurn'
    BY <1>4 DEF Serving, Place, FenceTurn
  <2>2. HeldTurn' /\ FlightTurn' /\ FirstTurn'
    BY <1>2, <1>4 DEF Serving, Turn, HeldTurn, FlightTurn, FirstTurn
  <2>3. \A n : OnlyCurrent(n) => OnlyCurrent(n)'
    BY <1>2 DEF OnlyCurrent
  <2>4. \A f \in 1..Len(inbox) : First(f) => First(f)'
    BY DEF First
  <2>5. QueueTurn'
    BY <1>4, <2>3, <2>4 DEF Serving, Turn, QueueTurn
  <2> QED BY <2>1, <2>2, <2>5 DEF Serving, Turn
<1> QED BY <1>1, <1>3, <1>4 DEF OneTurn

\* The fence: what it works on and has sent may change, the task does not.
LEMMA FenceKeepsTurn ==
  ASSUME OneTurn, UNCHANGED <<task, linked, client, outbox, got>>,
         work' \in SUBSET Request, down' \in Seq(FenceFrame),
         FenceTurn => FenceTurn'
  PROVE  OneTurn'
<1> USE ParameterAssumption DEF task, client, Maybe
<1>1. Inv'
  BY RestKeeps DEF OneTurn
<1>2. Kinds' /\ Answer'
  BY DEF OneTurn, Kinds, Answer
<1>3. ASSUME Serving PROVE Serving'
  <2>1. Place' /\ FenceTurn'
    BY <1>3 DEF Serving, Place
  <2>2. Turn'
    BY <1>3 DEF Serving, Turn, HeldTurn, FlightTurn, FirstTurn, QueueTurn, OnlyCurrent, First, NoRequest, Waits
  <2> QED BY <2>1, <2>2 DEF Serving
<1> QED BY <1>1, <1>2, <1>3 DEF OneTurn

\* A frame of the fence arrives at the task's end of the connection.
LEMMA EmitTurn ==
  ASSUME OneTurn, NEW frame \in FenceFrame, Emit(frame),
         \/ frame \notin Request /\ work' = work
         \/ frame \in work /\ work' = work \ {frame}
  PROVE  OneTurn'
<1> USE ParameterAssumption DEF Emit, task, client
<1>1. /\ down \in Seq(FenceFrame) /\ work \in SUBSET Request
      /\ down' \in Seq(FenceFrame) /\ work' \in SUBSET Request
  BY DEF OneTurn, Kinds
<1>2. /\ Len(down') = Len(down) + 1 /\ Len(down) \in Nat
      /\ \A i \in 1..Len(down) : down'[i] = down[i]
      /\ down'[Len(down) + 1] = frame
  BY <1>1
<1>3. ASSUME FenceTurn PROVE FenceTurn'
  <2>1. frame \in Request => frame = Flying /\ \A i \in 1..Len(down) : down[i] \notin Request
    BY <1>1, <1>3 DEF FenceTurn
  <2>2. \A r \in work' : r = Flying'
    BY <1>3 DEF FenceTurn
  <2>3. \A i \in 1..Len(down') : down'[i] \in Request => down'[i] = Flying' /\ Flying' \notin work'
    BY <1>2, <1>3, <2>1 DEF FenceTurn
  <2>4. \A i, j \in 1..Len(down') : down'[i] \in Request /\ down'[j] \in Request => i = j
    BY <1>2, <1>3, <2>1 DEF FenceTurn
  <2> QED BY <1>3, <2>2, <2>3, <2>4 DEF FenceTurn
<1> QED BY <1>1, <1>3, FenceKeepsTurn

\* The connection ends: what the fence has sent may be lost.
LEMMA HangupTurn ==
  ASSUME OneTurn, NEW remains, Hangup(remains)
  PROVE  OneTurn'
<1> USE ParameterAssumption DEF Hangup, task, client
<1>1. down \in Seq(FenceFrame) /\ "close" \in FenceFrame /\ "close" \notin Request
  BY DEF OneTurn, Kinds, FenceFrame
<1>2. /\ down' \in Seq(FenceFrame) /\ Len(down) \in Nat
      /\ \A i \in 1..Len(down') : down'[i] \in Request => i \in 1..Len(down) /\ down'[i] = down[i]
  <2>1. CASE down' = Append(down, "close")
    BY <1>1, <2>1
  <2>2. CASE down' = down
    BY <1>1, <2>2
  <2>3. CASE down' = <<>>
    BY <1>1, <2>3
  <2> QED BY <2>1, <2>2, <2>3
<1>3. FenceTurn => FenceTurn'
  BY <1>2 DEF FenceTurn
<1> QED BY <1>2, <1>3, FenceKeepsTurn

\* Steps that leave the client and its queue alone: the turn's facts speak of
\* what the task holds and has in flight.
LEMMA TaskTurn ==
  ASSUME OneTurn, UNCHANGED <<discard, client>>, Inv', Kinds', Answer',
         at # "over", at' = "serve" \/ (at' = "send" /\ held' = held),
         Place', FenceTurn', HeldTurn', FlightTurn',
         outbox' = outbox \/ NoRequest
  PROVE  OneTurn'
<1> USE DEF client
<1>1. Serving
  BY DEF OneTurn
<1>2. FirstTurn'
  BY DEF FirstTurn
<1>3. QueueTurn'
  <2>1. CASE outbox' = outbox
    BY <1>1, <2>1 DEF Serving, Turn, QueueTurn, OnlyCurrent, First
  <2>2. CASE NoRequest
    BY <1>1, <2>2 DEF Serving, Turn, QueueTurn, OnlyCurrent, First, NoRequest
  <2> QED BY <2>1, <2>2
<1> QED BY <1>1, <1>2, <1>3 DEF OneTurn, Serving, Turn

\* Telling the client about its turn answers it.
LEMMA Told ==
  ASSUME outbox = <<>>, current # None, current' = current, Tell(current)
  PROVE  Answer'
BY DEF Tell, Answer

\* The connection to the fence comes or goes: nothing of the turn is left on it.
LEMMA Fresh ==
  ASSUME work' = {}, down' = <<>>, ~linked' => inFlight' = None
  PROVE  FenceTurn' /\ work' \in SUBSET Request /\ down' \in Seq(FenceFrame)
BY DEF FenceTurn

LEMMA ConnectTurn == ASSUME OneTurn, Connect PROVE OneTurn'
<1> USE ParameterAssumption DEF task, client, fence, Link, Maybe
<1>0. at # "over" /\ Serving /\ Kinds /\ Answer /\ Inv
  BY DEF Connect, Connected, ConnectFails, Reconnected, ReconnectFails, OneTurn
<1>1. CASE Connected \/ Reconnected
  <2>1. Inv'
    BY <1>0, <1>1, RestKeeps DEF Connected, Reconnected
  <2>2. work' = {} /\ down' = <<>> /\ linked' = TRUE
    BY <1>1 DEF Connected, Reconnected
  <2>3. FenceTurn' /\ work' \in SUBSET Request /\ down' \in Seq(FenceFrame)
    BY <2>2, Fresh
  <2>4. /\ at' = "serve" \/ (at' = "send" /\ held' = held)
        /\ UNCHANGED <<held, discard, inFlight, missed, client, outbox>>
    BY <1>1 DEF Connected, Reconnected
  <2>5. Kinds' /\ Answer'
    BY <1>0, <2>2, <2>3, <2>4 DEF Kinds, Answer
  <2>6. Place'
    BY <1>0, <1>1, <2>2 DEF Connected, Reconnected, Serving, Place
  <2>7. HeldTurn' /\ FlightTurn'
    BY <1>0, <2>4 DEF Serving, Turn, HeldTurn, FlightTurn, NoRequest
  <2> QED BY <1>0, <2>1, <2>3, <2>4, <2>5, <2>6, <2>7, TaskTurn
<1>2. CASE ReconnectFails
  <2>1. Inv'
    BY <1>0, <1>2, GiveKeeps DEF ReconnectFails
  <2>2. /\ held \in Request /\ held = current /\ outbox = <<>> /\ inFlight = None /\ NoRequest
        /\ ~linked /\ current # None
    BY <1>0, <1>2 DEF ReconnectFails, Serving, Place, FenceTurn, Turn, HeldTurn
  <2>3. Answer'
    BY <1>2, <2>2, Told DEF ReconnectFails
  <2>4. Kinds'
    BY <1>0, <1>2 DEF ReconnectFails, Kinds
  <2>5. Place' /\ FenceTurn' /\ HeldTurn' /\ FlightTurn'
    BY <1>0, <1>2, <2>2 DEF ReconnectFails, Serving, Place, FenceTurn, HeldTurn, FlightTurn
  <2>6. at' = "serve" /\ UNCHANGED <<discard, client>>
    BY <1>2 DEF ReconnectFails
  <2> QED BY <1>0, <2>1, <2>2, <2>3, <2>4, <2>5, <2>6, TaskTurn
<1>3. CASE ConnectFails
  <2> USE <1>3 DEF ConnectFails
  <2>1. Inv'
    BY <1>0, RestKeeps
  <2>2. outbox = <<>> /\ ~discard /\ current # None /\ Waits(current) /\ current \in Request
    BY <1>0 DEF OneTurn, Serving, Turn, FirstTurn, Kinds
  <2>3. held = None /\ ~linked /\ inFlight = None
    BY <1>0 DEF Serving, Place, FenceTurn
  <2>4. Answer'
    BY <2>2, Told
  <2>5. Kinds'
    BY <1>0 DEF Kinds
  <2>6. Place' /\ FenceTurn' /\ HeldTurn' /\ FlightTurn' /\ FirstTurn'
    BY <1>0, <2>3 DEF Serving, Place, FenceTurn, HeldTurn, FlightTurn, FirstTurn
  <2>7. PICK f \in 1..Len(inbox) : inbox[f] = current
    BY <2>2 DEF Waits
  <2>8. \A i \in 1..Len(inbox) : inbox[i] \in Request => i = f
    BY <1>0, <2>2, <2>7 DEF Serving, Turn, QueueTurn, OnlyCurrent, Inv, OnePlace, Typed
  <2>9. First(f)' /\ OnlyCurrent(f)'
    BY <1>0, <2>2, <2>7, <2>8 DEF First, OnlyCurrent, Inv, Typed
  <2>10. QueueTurn'
    BY <2>7, <2>9 DEF QueueTurn
  <2> QED BY <2>1, <2>4, <2>5, <2>6, <2>10 DEF OneTurn, Serving, Turn
<1> QED BY <1>1, <1>2, <1>3 DEF Connect

LEMMA SendTurn == ASSUME OneTurn, Send PROVE OneTurn'
<1> USE ParameterAssumption DEF Send, client, Maybe
<1>1. at # "over" /\ Serving /\ Kinds /\ Answer /\ Inv /\ linked
  BY DEF OneTurn, Serving, Place
<1>2. Inv'
  BY <1>1, GiveKeeps DEF Deliver
<1>3. /\ work' = work \/ work' = work \cup ({held} \cap Request)
      /\ at' = "serve" /\ held' = None
      /\ UNCHANGED <<discard, linked, down, client, outbox>>
  BY DEF Deliver
<1>4. CASE held \in Request
  <2>1. /\ held = current /\ outbox = <<>> /\ Flying = None /\ ~discard /\ NoRequest
        /\ inFlight' = held /\ missed' \in {"none", "reported"}
    BY <1>1, <1>4 DEF Serving, Turn, HeldTurn, Kinds, Replaced
  <2>2. work = {} /\ \A i \in 1..Len(down) : down[i] \notin Request
    BY <1>1, <2>1 DEF Serving, FenceTurn, Kinds
  <2>3. FenceTurn'
    BY <1>1, <1>3, <2>1, <2>2 DEF FenceTurn
  <2>4. Kinds' /\ Answer'
    BY <1>1, <1>3, <1>4, <2>1 DEF Kinds, Answer
  <2>5. Place' /\ HeldTurn' /\ FlightTurn'
    BY <1>1, <1>3, <2>1 DEF Place, HeldTurn, FlightTurn, NoRequest
  <2> QED BY <1>1, <1>2, <1>3, <2>1, <2>3, <2>4, <2>5, TaskTurn
<1>5. CASE held \notin Request
  <2>1. inFlight' = inFlight /\ missed' = missed /\ work' = work
    BY <1>3, <1>5
  <2>2. Kinds' /\ Answer' /\ FenceTurn'
    BY <1>1, <1>3, <2>1 DEF Kinds, Answer, Serving, FenceTurn
  <2>3. Place' /\ HeldTurn' /\ FlightTurn'
    BY <1>1, <1>3, <2>1 DEF Serving, Turn, Place, HeldTurn, FlightTurn, NoRequest
  <2> QED BY <1>1, <1>2, <1>3, <2>2, <2>3, TaskTurn
<1> QED BY <1>4, <1>5

\* The task does without the connection: with an error about the turn, if one
\* was on it.
LEMMA UnlinkTurn ==
  ASSUME OneTurn, at \in {"serve", "send"}, at' = "serve", Inv', held' = None, inFlight' = None,
         missed' \in {"none", "open", "reported"},
         Unlink, UNCHANGED <<discard, client>>,
         \/ outbox' = outbox
         \/ \E r \in Request : Tell(r) /\ (r = held \/ r = Flying)
  PROVE  OneTurn'
<1> USE ParameterAssumption DEF Unlink, client, Maybe
<1>1. at # "over" /\ Serving /\ Kinds /\ Answer
  BY DEF OneTurn
<1>2. FenceTurn' /\ work' \in SUBSET Request /\ down' \in Seq(FenceFrame)
  BY Fresh
<1>3. Kinds'
  BY <1>1, <1>2 DEF Kinds
<1>4. Place' /\ HeldTurn' /\ FlightTurn'
  BY DEF Place, HeldTurn, FlightTurn
<1>5. CASE outbox' = outbox
  <2>1. Answer'
    BY <1>1, <1>5 DEF Answer
  <2> QED BY <1>1, <1>2, <1>3, <1>4, <1>5, <2>1, TaskTurn
<1>6. ASSUME NEW r \in Request, Tell(r), r = held \/ r = Flying PROVE OneTurn'
  <2>1. r = current /\ current # None /\ outbox = <<>> /\ NoRequest
    BY <1>1, <1>6 DEF Serving, Turn, HeldTurn, FlightTurn
  <2>2. Answer'
    BY <1>6, <2>1, Told
  <2> QED BY <1>1, <1>2, <1>3, <1>4, <2>1, <2>2, TaskTurn
<1> QED BY <1>5, <1>6

LEMMA SendFailsTurn == ASSUME OneTurn, NEW arrived \in BOOLEAN, SendFails(arrived) PROVE OneTurn'
<1>1. Inv'
  BY GiveKeeps DEF SendFails, OneTurn, client
<1>2. missed' \in {"none", "open", "reported"}
  BY DEF SendFails, Replaced, OneTurn, Kinds
<1> QED BY <1>1, <1>2, UnlinkTurn DEF SendFails, client

\* The connection ends, and not after an end that was missed.
LEMMA ReadFarewellTurn == ASSUME OneTurn, ReadFarewell, missed' # "reported" PROVE OneTurn'
<1>1. Inv' /\ Serving /\ Kinds
  BY RestKeeps DEF ReadFarewell, OneTurn, client
<1>2. held = None
  BY <1>1 DEF ReadFarewell, Serving, Place
<1>3. missed = "none" /\ missed' = "none" /\ (inFlight # None => inFlight \in Request)
  BY <1>1 DEF ReadFarewell, Kinds, Maybe
<1> QED BY <1>1, <1>2, <1>3, UnlinkTurn DEF ReadFarewell, client

LEMMA IdlePingTurn == ASSUME OneTurn, IdlePing PROVE OneTurn'
<1>1. Inv' /\ Serving
  BY RestKeeps DEF IdlePing, OneTurn, task, client
<1>2. held = None
  BY <1>1 DEF IdlePing, Serving, Place
<1>3. missed' \in {"none", "open", "reported"}
  BY DEF IdlePing, task, OneTurn, Kinds
<1> QED BY <1>1, <1>2, <1>3, UnlinkTurn DEF IdlePing, task, client

\* A frame of the fence: the end of a turn is the end of the one in flight,
\* whether or not the task takes it for one.
LEMMA ReadFrameTurn == ASSUME OneTurn, ReadFrame, missed' # "reported" PROVE OneTurn'
<1> USE ParameterAssumption DEF ReadFrame, Receiving, client, Maybe
<1>1. at # "over" /\ Serving /\ Kinds /\ Answer /\ Inv'
  BY RestKeeps DEF OneTurn
<1>2. /\ down \in Seq(FenceFrame) /\ Len(down) \in Nat \ {0} /\ Len(down') = Len(down) - 1
      /\ \A i \in 1..Len(down') : i + 1 \in 1..Len(down) /\ down'[i] = down[i + 1]
      /\ Head(down) = down[1] /\ 1 \in 1..Len(down) /\ down' \in Seq(FenceFrame)
  BY <1>1 DEF Kinds
<1>3. held = None /\ linked /\ at' = "serve" /\ UNCHANGED <<held, discard, linked, work, client>>
  BY <1>1 DEF Serving, Place
<1>4. CASE Head(down) \in Request
  <2>1. /\ Head(down) = Flying /\ Flying # None /\ Flying \notin work
        /\ Flying = current /\ outbox = <<>> /\ ~discard /\ NoRequest /\ Flying' = None
        /\ inFlight' \in Maybe(Request) /\ missed' \in {"none", "open", "reported"}
    BY <1>1, <1>2, <1>4 DEF Serving, FenceTurn, Turn, FlightTurn, Kinds
  <2>2. work = {} /\ \A i \in 1..Len(down') : down'[i] \notin Request
    <3>1. work = {}
      BY <1>1, <2>1 DEF Serving, FenceTurn
    <3>2. ASSUME NEW i \in 1..Len(down'), down'[i] \in Request PROVE FALSE
      <4>1. i + 1 \in 1..Len(down) /\ down[i + 1] \in Request /\ i + 1 # 1 /\ down[1] \in Request
        BY <1>2, <1>4, <3>2
      <4> QED BY <1>1, <1>2, <4>1 DEF Serving, FenceTurn
    <3> QED BY <3>1, <3>2
  <2>3. FenceTurn'
    BY <1>3, <2>2 DEF FenceTurn
  <2>4. Kinds'
    BY <1>1, <1>2, <1>3, <2>1 DEF Kinds
  <2>5. outbox' = <<>> \/ outbox' = <<current>>
    BY <1>4, <2>1 DEF Forward
  <2>6. Answer' /\ Place' /\ HeldTurn' /\ FlightTurn'
    BY <1>3, <2>1, <2>5 DEF Answer, Place, HeldTurn, FlightTurn
  <2> QED BY <1>1, <1>3, <2>1, <2>3, <2>4, <2>6, TaskTurn
<1>5. CASE Head(down) \notin Request
  <2>1. outbox' = outbox /\ inFlight' = inFlight /\ missed' = missed
    BY <1>5 DEF Forward
  <2>2. FenceTurn'
    <3>1. \A i \in 1..Len(down') : down'[i] \in Request => down'[i] = Flying /\ Flying \notin work
      BY <1>1, <1>2 DEF Serving, FenceTurn
    <3>2. ASSUME NEW i \in 1..Len(down'), NEW j \in 1..Len(down'), down'[i] \in Request, down'[j] \in Request
          PROVE  i = j
      <4>1. i + 1 = j + 1
        BY <1>1, <1>2, <3>2 DEF Serving, FenceTurn
      <4> QED BY <1>2, <4>1
    <3>3. \A r \in work : r = Flying
      BY <1>1 DEF Serving, FenceTurn
    <3> QED BY <1>3, <2>1, <3>1, <3>2, <3>3 DEF FenceTurn
  <2>3. Kinds' /\ Answer'
    BY <1>1, <1>2, <1>3, <2>1 DEF Kinds, Answer
  <2>4. Place' /\ HeldTurn' /\ FlightTurn'
    BY <1>1, <1>3, <2>1 DEF Serving, Turn, Place, HeldTurn, FlightTurn, NoRequest
  <2> QED BY <1>1, <1>3, <2>1, <2>2, <2>3, <2>4, TaskTurn
<1> QED BY <1>4, <1>5

\* The client is gone, or takes nothing any more.
LEMMA OverTurn == ASSUME OneTurn, ReadClose \/ ForwardFails PROVE OneTurn'
<1> USE ParameterAssumption DEF client
<1>1. Inv'
  BY TakeKeeps, RestKeeps DEF ReadClose, ForwardFails, OneTurn, Frame
<1>2. at' = "over" /\ Unlink /\ UNCHANGED <<discard, inFlight, missed, current, outbox>>
  BY DEF ReadClose, ForwardFails, Reading
<1>3. linked' \in BOOLEAN /\ work' \in SUBSET Request /\ down' \in Seq(FenceFrame)
  <2>1. linked' = FALSE
    BY <1>2 DEF Unlink
  <2>2. linked' \in BOOLEAN
    BY <2>1, Zenon
  <2> QED BY <1>2, <2>2 DEF Unlink
<1>4. Kinds'
  BY <1>2, <1>3 DEF OneTurn, Kinds
<1>5. Answer'
  BY <1>2 DEF OneTurn, Answer
<1> QED BY <1>1, <1>2, <1>4, <1>5 DEF OneTurn

LEMMA ReadPingTurn == ASSUME OneTurn, ReadPing PROVE OneTurn'
<1> USE ParameterAssumption DEF ReadPing, Reading, fence, Maybe
<1>1. Inv' /\ Serving /\ Inv /\ Kinds /\ Answer
  BY TakeKeeps DEF OneTurn, Frame
<1>2. held = None /\ (held' = None \/ held' = "ping") /\ held' \notin Request
  BY <1>1 DEF Serving, Place
<1>3. QueueTurn' /\ (NoRequest => NoRequest')
  BY <1>1, TailTurn DEF Serving, Turn
<1>4. Kinds' /\ Answer' /\ Place' /\ FenceTurn'
  BY <1>1, <1>2 DEF Kinds, Answer, Serving, Place, FenceTurn
<1>5. HeldTurn' /\ FlightTurn' /\ FirstTurn'
  BY <1>1, <1>2, <1>3 DEF Serving, Turn, HeldTurn, FlightTurn, FirstTurn
<1> QED BY <1>1, <1>3, <1>4, <1>5 DEF OneTurn, Serving, Turn

\* The discarded request is the first of the queue, and it is answered.
LEMMA ReadDiscardedTurn == ASSUME OneTurn, NEW r \in Request, ReadDiscarded(r) PROVE OneTurn'
<1> USE ParameterAssumption DEF ReadDiscarded, Reading, fence, Maybe
<1>1. Inv' /\ Serving /\ Inv /\ Kinds /\ Answer
  BY TakeKeeps DEF OneTurn, Frame
<1>2. held' = None /\ Flying = None
  BY <1>1 DEF Serving, Place, Turn, FlightTurn
<1>3. PICK f \in 1..Len(inbox) : First(f) /\ OnlyCurrent(f)
  BY <1>1 DEF Serving, Turn, QueueTurn
<1>4. /\ Len(inbox) \in Nat \ {0} /\ Len(inbox') = Len(inbox) - 1
      /\ \A i \in 1..Len(inbox') : i + 1 \in 1..Len(inbox) /\ inbox'[i] = inbox[i + 1]
      /\ inbox[1] = r /\ 1 \in 1..Len(inbox)
  BY <1>1 DEF Inv, Typed
<1>5. f = 1
  BY <1>3, <1>4 DEF First
<1>6. OnlyCurrent(0)'
  BY <1>3, <1>4, <1>5 DEF OnlyCurrent
<1>7. Kinds' /\ Answer' /\ Place' /\ FenceTurn'
  BY <1>1, <1>2 DEF Kinds, Answer, Serving, Place, FenceTurn
<1>8. Turn'
  BY <1>2, <1>6 DEF Turn, HeldTurn, FlightTurn, QueueTurn, FirstTurn
<1> QED BY <1>1, <1>7, <1>8 DEF OneTurn, Serving

LEMMA ReadRequestTurn == ASSUME OneTurn, NEW r \in Request, ReadRequest(r) PROVE OneTurn'
<1> USE ParameterAssumption DEF ReadRequest, Maybe
<1>1. Inv' /\ Serving /\ Inv /\ Kinds /\ Answer /\ UNCHANGED <<current, begun>>
  BY TakeKeeps DEF OneTurn, Frame, Reading
<1>2. r = current /\ outbox = <<>> /\ ~NoRequest /\ NoRequest'
  BY <1>1, TailRequest DEF Serving, Turn
<1>3. Flying = None /\ \A i \in 1..Len(down) : down[i] \notin Request
  BY <1>1, <1>2 DEF Serving, Turn, FlightTurn, FenceTurn
<1>4. outbox' = <<>> /\ held' = r /\ UNCHANGED <<discard, inFlight, missed>> /\ ~discard
  <2>1. CASE Forward(Head(down)) /\ down # <<>>
    <3>1. Head(down) \notin Request
      BY <1>1, <1>3, <2>1 DEF Kinds
    <3> QED BY <1>2, <2>1, <3>1 DEF Forward
  <2>2. CASE outbox' = outbox
    BY <1>2, <2>2
  <2> QED BY <2>1, <2>2
<1>5. at' \in {"reconnect", "send"} /\ (at' = "reconnect" => ~linked') /\ (at' = "send" => linked')
  BY DEF Unlink, fence
<1>6. FenceTurn' /\ linked' \in BOOLEAN /\ work' \in SUBSET Request /\ down' \in Seq(FenceFrame)
  <2>1. CASE Unlink
    <3>1. FenceTurn' /\ work' \in SUBSET Request /\ down' \in Seq(FenceFrame)
      BY <1>1, <1>3, <1>4, <2>1, Fresh DEF Unlink, Serving, FenceTurn, fence
    <3>2. linked' = FALSE
      BY <2>1 DEF Unlink
    <3>3. linked' \in BOOLEAN
      BY <3>2, Zenon
    <3> QED BY <3>1, <3>3
  <2>2. CASE UNCHANGED fence
    BY <1>1, <1>4, <2>2 DEF fence, Serving, FenceTurn, Kinds
  <2>3. CASE down # <<>> /\ down' = Tail(down) /\ UNCHANGED <<linked, peer, work>> /\ linked
    <3>1. \A i \in 1..Len(down') : down'[i] \notin Request
      BY <1>1, <1>3, <2>3 DEF Kinds
    <3>2. down' \in Seq(FenceFrame) /\ linked' \in BOOLEAN /\ work' \in SUBSET Request
      BY <1>1, <2>3 DEF Kinds
    <3>3. FenceTurn'
      BY <1>1, <1>4, <2>3, <3>1 DEF Serving, FenceTurn
    <3> QED BY <3>2, <3>3
  <2> QED BY <2>1, <2>2, <2>3
<1>7. Kinds' /\ Answer' /\ Place'
  BY <1>1, <1>4, <1>5, <1>6 DEF Kinds, Answer, Place
<1>8. Turn'
  BY <1>1, <1>2, <1>3, <1>4, <1>5
  DEF Turn, HeldTurn, FlightTurn, QueueTurn, FirstTurn, OnlyCurrent, NoRequest
<1> QED BY <1>1, <1>6, <1>7, <1>8 DEF OneTurn, Serving

LEMMA NextOneTurn == OneTurn /\ [Next]_vars /\ missed' # "reported" => OneTurn'
<1> SUFFICES ASSUME OneTurn, [Next]_vars, missed' # "reported" PROVE OneTurn'
  OBVIOUS
<1>1. ASSUME NEW r \in Request, Begin(r) PROVE OneTurn'
  BY <1>1, BeginTurn
<1>2. CASE Ping \/ Leave
  BY <1>2, FrameTurn DEF Ping, Leave
<1>3. CASE Hear
  BY <1>3, HearTurn
<1>4. CASE Event
  BY <1>4, EmitTurn, ParameterAssumption DEF Event, FenceFrame
<1>5. ASSUME NEW r \in Request, Complete(r) PROVE OneTurn'
  BY <1>5, EmitTurn DEF Complete, FenceFrame
<1>6. ASSUME NEW remains, Hangup(remains) PROVE OneTurn'
  BY <1>6, HangupTurn
<1>7. CASE Connect
  BY <1>7, ConnectTurn
<1>8. CASE ReadClient
  BY <1>8, OverTurn, ReadPingTurn, ReadDiscardedTurn, ReadRequestTurn DEF ReadClient
<1>9. CASE Sending
  BY <1>9, SendTurn, SendFailsTurn DEF Sending
<1>10. CASE ReadFence
  BY <1>10, ReadFrameTurn, ReadFarewellTurn DEF ReadFence
<1>11. CASE ForwardFails \/ IdlePing
  BY <1>11, OverTurn, IdlePingTurn
<1>12. CASE UNCHANGED vars
  <2>1. Inv'
    BY <1>12, RestKeeps DEF OneTurn, vars, task, client
  <2> QED BY <1>12, <2>1
      DEF vars, task, fence, client, OneTurn, Kinds, Answer, Serving, Place, FenceTurn, Turn,
          HeldTurn, FlightTurn, QueueTurn, FirstTurn, OnlyCurrent, NoRequest, First, Waits
<1> QED BY <1>1, <1>2, <1>3, <1>4, <1>5, <1>6, <1>7, <1>8, <1>9, <1>10, <1>11, <1>12 DEF Next

\* Once the loss of a turn that is over has been reported, that stays so.
LEMMA ReportedStays == missed = "reported" /\ [Next]_vars => missed' = "reported"
<1> SUFFICES ASSUME missed = "reported", [Next]_vars PROVE missed' = "reported"
  OBVIOUS
<1> USE DEF task
<1>1. CASE \/ \E r \in Request : Begin(r) \/ Complete(r)
           \/ Ping \/ Hear \/ Leave \/ Event \/ ForwardFails \/ IdlePing
           \/ \E remains : Hangup(remains)
  BY <1>1 DEF Begin, Complete, Ping, Hear, Leave, Event, Emit, ForwardFails, IdlePing, Hangup
<1>2. CASE Connect \/ ReadClient
  BY <1>2 DEF Connect, Connected, ConnectFails, Reconnected, ReconnectFails,
              ReadClient, ReadClose, ReadPing, ReadDiscarded, ReadRequest
<1>3. CASE Sending \/ ReadFence
  BY <1>3 DEF Sending, Send, SendFails, Replaced, ReadFence, ReadFrame, ReadFarewell
<1>4. CASE UNCHANGED vars
  BY <1>4 DEF vars
<1> QED BY <1>1, <1>2, <1>3, <1>4 DEF Next

\* What reaches a client that sends its first request during the handshake is
\* about the turn it is in: however connections end, fail to open or fail in
\* the middle of a turn, no turn is ended by what another one caused.  The one
\* way out is an end the task takes for no end, followed by the end of the
\* connection before the next request is sent.
THEOREM AnswersAreTheTurns == Early /\ Spec => []OwnAnswer
<1> DEFINE Sound == Early /\ (missed # "reported" => OneTurn)
<1>1. Sound => OwnAnswer
  BY DEF OneTurn, Answer, OwnAnswer
<1>2. Early /\ Init => Sound
  BY InitOneTurn
<1>3. Sound /\ [Next]_vars => Sound'
  BY NextOneTurn, ReportedStays
<1> QED BY <1>1, <1>2, <1>3, PTL DEF Spec

-----------------------------------------------------------------------------
(* Nobody waits in vain.  A client that sends nothing while it waits, not   *)
(* even a ping, is answered or has its request on the way.  The argument    *)
(* does without that of the previous part: an end the task missed, and the  *)
(* error it may report because of it, only answer somebody once more.       *)

\* A request that counts as in flight was sent, and on this connection.
Linkage == inFlight # None => linked /\ inFlight \in begun

\* Behind the request of the turn comes nothing but the client's farewell: a
\* ping whose send fails would end the turn silently, and another request
\* would take its place.
OnlyCloses == \A i \in 1..Len(inbox) : inbox[i] = "close"
LastFrame == current # None =>
  /\ \A i, j \in 1..Len(inbox) : inbox[i] = current /\ i < j => inbox[j] = "close"
  /\ held = current \/ inFlight = current => OnlyCloses
  /\ inFlight = current => held = None

\* The first handshake: the client has sent one request at most.
Opening == at = "handshake" =>
  /\ outbox = <<>> /\ begun \subseteq {current}
  /\ begun # {} => Waits(current)

\* There is a request to discard, and it is answered if it is the turn's.
DiscardAnswered == discard =>
  \E f \in 1..Len(inbox) : First(f) /\ (inbox[f] = current /\ ~Gone => outbox # <<>>)

Underway == current # None /\ ~Gone =>
  Waits(current) \/ current = held \/ (current = inFlight /\ linked) \/ outbox # <<>>

Letter == Maybe(Request \cup {"ping"})

Attended == Place /\ Linkage /\ LastFrame /\ Opening /\ DiscardAnswered /\ Underway
Base == Early /\ ~Pinging /\ Inv /\ Kinds /\ outbox \in Seq(Letter)
Quiet == Base /\ (at # "over" => Attended)

\* The variables the base speaks of, but for the client's and the letters.
LEMMA NextKinds == ASSUME Inv, Kinds, [Next]_vars PROVE Kinds'
<1> USE ParameterAssumption DEF task, fence, client, Kinds, Maybe
<1>1. ASSUME NEW r \in Request, Begin(r) \/ Complete(r) PROVE Kinds'
  BY <1>1 DEF Begin, Complete, Emit, FenceFrame
<1>2. CASE Ping \/ Leave \/ Hear
  BY <1>2 DEF Ping, Leave, Hear
<1>3. CASE Event
  BY <1>3 DEF Event, Emit, FenceFrame
<1>4. ASSUME NEW remains, Hangup(remains) PROVE Kinds'
  <2>1. down' \in Seq(FenceFrame) /\ work' = {}
    <3>1. CASE down' = Append(down, "close")
      BY <1>4, <3>1 DEF Hangup, FenceFrame
    <3>2. CASE down' = down
      BY <1>4, <3>2 DEF Hangup
    <3>3. CASE down' = <<>>
      BY <1>4, <3>3 DEF Hangup
    <3> QED BY <1>4, <3>1, <3>2, <3>3 DEF Hangup
  <2> QED BY <1>4, <2>1 DEF Hangup
<1>5. CASE Connect
  <2>1. linked' = linked \/ linked' = TRUE
    BY <1>5 DEF Connect, Connected, ConnectFails, Reconnected, ReconnectFails, Link
  <2>2. linked' \in BOOLEAN
    BY <2>1, Zenon DEF Kinds
  <2>3. CASE ConnectFails
    BY <2>2, <2>3 DEF ConnectFails
  <2>4. CASE Connected \/ Reconnected
    <3> HIDE DEF Kinds
    <3>1. /\ down' = <<>> /\ work' = {} /\ at' \in {"serve", "send"}
          /\ UNCHANGED <<discard, inFlight, missed, current>>
      BY <2>4 DEF Connected, Reconnected, Link
    <3> QED BY <2>2, <3>1 DEF Kinds
  <2>5. CASE ReconnectFails
    BY <2>2, <2>5 DEF ReconnectFails
  <2> QED BY <1>5, <2>3, <2>4, <2>5 DEF Connect
<1>6. CASE ReadClient
  <2>1. linked' = linked \/ linked' = FALSE
    BY <1>6 DEF ReadClient, ReadClose, ReadPing, ReadDiscarded, ReadRequest, Unlink
  <2>2. linked' \in BOOLEAN
    BY <2>1, Zenon DEF Kinds
  <2>3. CASE ReadClose
    BY <2>2, <2>3 DEF ReadClose, Reading, Unlink
  <2>4. CASE ReadPing
    BY <2>2, <2>4 DEF ReadPing, Reading
  <2>5. ASSUME NEW r \in Request, ReadDiscarded(r) PROVE Kinds'
    BY <2>2, <2>5 DEF ReadDiscarded, Reading
  <2>6. ASSUME NEW r \in Request, ReadRequest(r) PROVE Kinds'
    <3> HIDE DEF Kinds
    <3>1. /\ down' = <<>> \/ down' = down \/ (down # <<>> /\ down' = Tail(down))
          /\ work' = {} \/ work' = work
          /\ at' \in {"reconnect", "send"}
          /\ UNCHANGED <<discard, inFlight, missed, current>>
      BY <2>6 DEF ReadRequest, Unlink, Reading
    <3>2. down \in Seq(FenceFrame) /\ work \in SUBSET Request
      BY DEF Kinds
    <3>3. down' \in Seq(FenceFrame)
      <4>1. CASE down' = <<>>
        BY <4>1
      <4>2. CASE down' = down
        BY <3>2, <4>2
      <4>3. CASE down # <<>> /\ down' = Tail(down)
        BY <3>2, <4>3
      <4> QED BY <3>1, <4>1, <4>2, <4>3
    <3>4. work' \in SUBSET Request
      BY <3>1, <3>2
    <3> QED BY <2>2, <3>1, <3>3, <3>4 DEF Kinds
  <2> QED BY <1>6, <2>3, <2>4, <2>5, <2>6 DEF ReadClient
<1>7. CASE Sending
  <2>1. CASE Send
    <3>1. work' \in SUBSET Request
      BY <2>1 DEF Send, Deliver
    <3> QED BY <2>1, <3>1 DEF Send, Replaced, Inv, Typed
  <2>2. ASSUME NEW arrived \in BOOLEAN, SendFails(arrived) PROVE Kinds'
    <3>1. linked' = FALSE
      BY <2>2 DEF SendFails, Unlink
    <3>2. linked' \in BOOLEAN
      BY <3>1, Zenon
    <3> QED BY <2>2, <3>2 DEF SendFails, Replaced, Unlink
  <2> QED BY <1>7, <2>1, <2>2 DEF Sending
<1>8. CASE ReadFence \/ ForwardFails \/ IdlePing
  <2>1. linked' = linked \/ linked' = FALSE
    BY <1>8 DEF ReadFence, ReadFrame, ReadFarewell, ForwardFails, IdlePing, Unlink
  <2>2. linked' \in BOOLEAN
    BY <2>1, Zenon DEF Kinds
  <2>3. CASE ReadFrame
    BY <2>2, <2>3 DEF ReadFrame, Receiving
  <2>4. CASE ReadFarewell
    BY <2>2, <2>4 DEF ReadFarewell, Unlink
  <2>5. CASE ForwardFails \/ IdlePing
    <3> HIDE DEF Kinds
    <3>1. /\ down' = <<>> /\ work' = {} /\ at' \in {at, "over"}
          /\ UNCHANGED <<discard, inFlight, missed, current>>
      BY <2>5 DEF ForwardFails, IdlePing, Unlink
    <3> QED BY <2>2, <3>1 DEF Kinds
  <2> QED BY <1>8, <2>3, <2>4, <2>5 DEF ReadFence
<1>9. CASE UNCHANGED vars
  BY <1>9 DEF vars
<1> QED BY <1>1, <1>2, <1>3, <1>4, <1>5, <1>6, <1>7, <1>8, <1>9 DEF Next

\* What ends a turn is told or forwarded, unless nobody is there to hear it.
LEMMA EndsAnswer ==
  ASSUME Base, NEW r \in Letter, Tell(r) \/ Forward(r)
  PROVE  /\ outbox' \in Seq(Letter)
         /\ outbox # <<>> => outbox' # <<>>
         /\ Tell(r) \/ r \in Request => outbox' # <<>> \/ Gone
BY DEF Base, Tell, Forward

LEMMA NextBase == ASSUME Base, [Next]_vars PROVE Base'
<1> USE DEF Base
<1>1. Inv' /\ Kinds'
  BY NextInv, NextKinds
<1> SUFFICES outbox' \in Seq(Letter)
  BY <1>1
<1>2. current \in Letter /\ held \in Letter /\ inFlight \in Letter
  BY DEF Kinds, Inv, Typed, Letter, Maybe
<1>3. ASSUME NEW r \in Letter, Tell(r) \/ Forward(r) PROVE outbox' \in Seq(Letter)
  BY <1>3, EndsAnswer
<1>4. CASE outbox' = outbox
  BY <1>4
<1>5. ASSUME Forward(Head(down)), down # <<>> PROVE outbox' \in Seq(Letter)
  <2>1. CASE Head(down) \in Request
    BY <1>3, <1>5, <2>1 DEF Letter, Maybe
  <2>2. CASE Head(down) \notin Request
    BY <1>5, <2>2 DEF Forward
  <2> QED BY <2>1, <2>2
<1>6. CASE Hear
  BY <1>6 DEF Hear
<1>7. CASE Connect
  BY <1>2, <1>3, <1>4, <1>7 DEF Connect, Connected, ConnectFails, Reconnected, ReconnectFails
<1>8. CASE ReadClient
  BY <1>4, <1>5, <1>8 DEF ReadClient, ReadClose, ReadPing, ReadDiscarded, ReadRequest
<1>9. CASE Sending
  BY <1>2, <1>3, <1>4, <1>9 DEF Sending, Send, SendFails
<1>10. CASE ReadFence
  BY <1>2, <1>3, <1>4, <1>5, <1>10 DEF ReadFence, ReadFrame, Receiving, ReadFarewell
<1>11. CASE \/ \E r \in Request : Begin(r) \/ Complete(r)
            \/ Ping \/ Leave \/ Event \/ ForwardFails \/ IdlePing
            \/ \E remains : Hangup(remains)
  BY <1>4, <1>11 DEF Begin, Complete, Ping, Leave, Event, Emit, ForwardFails, IdlePing, Hangup
<1>12. CASE UNCHANGED vars
  BY <1>4, <1>12 DEF vars
<1> QED BY <1>1, <1>6, <1>7, <1>8, <1>9, <1>10, <1>11, <1>12 DEF Next

\* Steps that leave the client, its queue and its turn alone.
LEMMA RestQuiet ==
  ASSUME Base, Attended, UNCHANGED client, Place', Linkage',
         held' = held \/ held' = None,
         inFlight' = inFlight \/ inFlight' = None \/ (inFlight' = held /\ held \in Request),
         current # None /\ inFlight' = current => held' = None,
         discard' = discard,
         at' = "handshake" => at = "handshake" /\ outbox' = outbox,
         outbox # <<>> => outbox' # <<>>,
         ~Gone /\ current # None /\ held = current => held' = current \/ inFlight' = current \/ outbox' # <<>>,
         ~Gone /\ current # None /\ inFlight = current => inFlight' = current \/ outbox' # <<>>
  PROVE  Attended'
<1> USE ParameterAssumption DEF client, Attended, Maybe
<1>1. LastFrame'
  BY DEF LastFrame, OnlyCloses
<1>2. Opening' /\ DiscardAnswered'
  BY DEF Opening, DiscardAnswered, First, Gone, Waits
<1>3. Underway'
  <2>1. SUFFICES ASSUME current # None, ~Gone, outbox' = <<>>
                 PROVE  Waits(current) \/ current = held' \/ current = inFlight'
    BY DEF Underway, Gone, Waits, Linkage
  <2>2. Waits(current) \/ current = held \/ current = inFlight
    BY <2>1 DEF Underway
  <2> QED BY <2>1, <2>2
<1> QED BY <1>1, <1>2, <1>3

\* Begin: the request waits; what will be discarded is older.
LEMMA BeginQuiet == ASSUME Base, Attended, NEW r \in Request, Begin(r) PROVE Attended'
<1> USE ParameterAssumption DEF Begin, task, fence, Maybe, Base, Attended
<1>1. /\ Len(inbox') = Len(inbox) + 1 /\ Len(inbox) \in Nat
      /\ \A i \in 1..Len(inbox) : inbox'[i] = inbox[i]
      /\ inbox'[Len(inbox) + 1] = r /\ Len(inbox) + 1 \in 1..Len(inbox')
  BY DEF Inv, Typed
<1>2. ~Waits(r) /\ held # r /\ inFlight # r
  BY DEF Inv, OnePlace, Linkage
<1>3. Place' /\ Linkage'
  BY DEF Place, Linkage
<1>4. LastFrame'
  BY <1>1, <1>2 DEF LastFrame, Waits
<1>5. Underway'
  BY <1>1 DEF Underway, Waits
<1>6. Opening'
  BY <1>1 DEF Opening, Waits, Inv, Typed
<1>7. DiscardAnswered'
  <2>1. SUFFICES ASSUME discard PROVE DiscardAnswered'
    BY DEF DiscardAnswered
  <2>2. PICK f \in 1..Len(inbox) : First(f)
    BY <2>1 DEF DiscardAnswered
  <2>3. f \in 1..Len(inbox') /\ First(f)' /\ inbox'[f] # r
    BY <1>1, <1>2, <2>2 DEF First, Waits
  <2> QED BY <2>3 DEF DiscardAnswered
<1> QED BY <1>3, <1>4, <1>5, <1>6, <1>7

\* Ping, which comes between turns, and Leave, after which nobody waits.
LEMMA FrameQuiet == ASSUME Base, Attended, Ping \/ Leave PROVE Attended'
<1> USE ParameterAssumption DEF task, fence, Maybe, Base, Attended
<1>1. /\ Len(inbox') = Len(inbox) + 1 /\ Len(inbox) \in Nat
      /\ \A i \in 1..Len(inbox) : inbox'[i] = inbox[i]
      /\ Len(inbox) + 1 \in 1..Len(inbox')
      /\ inbox'[Len(inbox) + 1] = "close" \/ (current = None /\ inbox'[Len(inbox) + 1] = "ping")
      /\ UNCHANGED <<task, fence, current, begun, outbox>>
  <2>1. CASE Ping
    BY <2>1 DEF Ping, Inv, Typed
  <2>2. CASE Leave
    BY <2>2 DEF Leave, Inv, Typed
  <2> QED BY <2>1, <2>2
<1>2. Place' /\ Linkage'
  BY <1>1 DEF Place, Linkage
<1>3. LastFrame'
  <2>1. SUFFICES ASSUME current # None PROVE LastFrame'
    BY <1>1 DEF LastFrame
  <2>2. inbox'[Len(inbox) + 1] = "close"
    BY <1>1, <2>1
  <2>3. OnlyCloses => OnlyCloses'
    BY <1>1, <2>2 DEF OnlyCloses
  <2>4. ASSUME NEW i \in 1..Len(inbox'), NEW j \in 1..Len(inbox'), inbox'[i] = current, i < j
        PROVE  inbox'[j] = "close"
    <3>1. CASE j = Len(inbox) + 1
      BY <2>2, <3>1
    <3>2. CASE j # Len(inbox) + 1
      BY <1>1, <2>1, <2>4, <3>2 DEF LastFrame
    <3> QED BY <3>1, <3>2
  <2> QED BY <1>1, <2>1, <2>3, <2>4 DEF LastFrame
<1>4. \A r \in Request : Waits(r) => Waits(r)'
  BY <1>1 DEF Waits
<1>5. Gone => Gone'
  BY <1>1 DEF Gone
<1>6. DiscardAnswered'
  <2>1. SUFFICES ASSUME discard PROVE DiscardAnswered'
    BY <1>1 DEF DiscardAnswered
  <2>2. PICK f \in 1..Len(inbox) : First(f) /\ (inbox[f] = current /\ ~Gone => outbox # <<>>)
    BY <2>1 DEF DiscardAnswered
  <2>3. f \in 1..Len(inbox') /\ First(f)' /\ inbox'[f] = inbox[f]
    BY <1>1, <2>2 DEF First
  <2> QED BY <1>1, <1>5, <2>2, <2>3 DEF DiscardAnswered
<1>7. Opening'
  <2>1. current = None \/ current \in Request
    BY DEF Kinds
  <2>2. begun # {} /\ begun \subseteq {current} => current \in Request
    BY <2>1 DEF Inv, Typed
  <2> QED BY <1>1, <1>4, <2>2 DEF Opening
<1>8. Underway'
  BY <1>1, <1>4, <1>5 DEF Underway, Kinds
<1> QED BY <1>2, <1>3, <1>6, <1>7, <1>8

LEMMA HearQuiet == ASSUME Base, Attended, Hear PROVE Attended'
<1> USE ParameterAssumption DEF Hear, task, fence, Maybe, Attended
<1>1. current' = None /\ UNCHANGED <<task, fence, inbox, begun>> /\ at # "handshake"
  BY DEF Opening
<1>2. Place' /\ Linkage' /\ Opening'
  BY <1>1 DEF Place, Linkage, Opening
<1>3. LastFrame' /\ Underway'
  BY <1>1 DEF LastFrame, Underway
<1>4. DiscardAnswered'
  BY <1>1 DEF DiscardAnswered, First
<1> QED BY <1>2, <1>3, <1>4

LEMMA ConnectQuiet == ASSUME Base, Attended, Connect PROVE Attended'
<1> USE ParameterAssumption DEF Base, Attended, task, client, fence, Link, Maybe
<1>1. CASE Connected \/ Reconnected
  <2>1. Place' /\ Linkage'
    BY <1>1 DEF Connected, Reconnected, Place, Linkage
  <2>2. current # None /\ inFlight' = current => held' = None
    BY <1>1 DEF Connected, Reconnected, LastFrame
  <2> QED BY <1>1, <2>1, <2>2, RestQuiet DEF Connected, Reconnected
<1>2. CASE ReconnectFails
  <2>1. held \in Request /\ inFlight = None
    BY <1>2 DEF ReconnectFails, Place, Linkage
  <2>2. outbox' # <<>> \/ (Gone /\ outbox' = outbox)
    BY <1>2, <2>1, EndsAnswer DEF ReconnectFails, Letter, Tell
  <2>3. Place' /\ Linkage'
    BY <1>2, <2>1 DEF ReconnectFails, Place, Linkage
  <2> QED BY <1>2, <2>1, <2>2, <2>3, RestQuiet DEF ReconnectFails
<1>3. CASE ConnectFails
  <2>1. /\ current \in Request /\ begun = {current} /\ Waits(current)
        /\ held = None /\ inFlight = None
    BY <1>3 DEF ConnectFails, Opening, Place, Linkage, Kinds, Inv, Typed
  <2>2. outbox' # <<>> \/ Gone
    BY <1>3, <2>1, EndsAnswer DEF ConnectFails, Letter
  <2>3. UNCHANGED <<held, inFlight, linked, client>> /\ at' = "serve"
    BY <1>3 DEF ConnectFails
  <2>4. Place' /\ Linkage' /\ LastFrame' /\ Opening'
    BY <2>1, <2>3 DEF Place, Linkage, LastFrame, OnlyCloses, Opening
  <2>5. Underway'
    BY <2>2, <2>3 DEF Underway, Gone
  <2>6. PICK f \in 1..Len(inbox) : inbox[f] = current
    BY <2>1 DEF Waits
  <2>7. ASSUME NEW i \in 1..Len(inbox), inbox[i] \in Request PROVE i = f
    BY <2>1, <2>6, <2>7 DEF Inv, OnePlace, Waits
  <2>8. First(f)'
    <3>1. \A i \in 1..Len(inbox) : i < f => i # f
      BY DEF Inv, Typed
    <3> QED BY <2>1, <2>3, <2>6, <2>7, <3>1 DEF First
  <2>9. DiscardAnswered'
    BY <2>2, <2>3, <2>6, <2>8 DEF DiscardAnswered, Gone
  <2> QED BY <2>4, <2>5, <2>9
<1> QED BY <1>1, <1>2, <1>3 DEF Connect

\* A request that is sent is the turn's, or that of a turn which is over.
LEMMA SendQuiet == ASSUME Base, Attended, Send PROVE Attended'
<1> USE ParameterAssumption DEF Send, Maybe, Base, Attended, client
<1>1. linked /\ held # None /\ (current # None => inFlight # current)
  BY DEF Place, LastFrame
<1>2. held \in Request => held \in begun
  BY DEF Inv, OnePlace
<1>3. Place' /\ Linkage'
  BY <1>1, <1>2 DEF Place, Linkage
<1>4. current # None /\ held = current => inFlight' = current
  BY DEF Kinds
<1> QED BY <1>1, <1>3, <1>4, RestQuiet

\* A failed send: of a request, or of a ping while the turn's is not in flight.
LEMMA SendFailsQuiet == ASSUME Base, Attended, NEW arrived \in BOOLEAN, SendFails(arrived) PROVE Attended'
<1> USE ParameterAssumption DEF SendFails, Maybe, Base, Attended, client, Unlink
<1>1. held # None /\ (current # None => inFlight # current)
  BY DEF Place, LastFrame
<1>2. Place' /\ Linkage'
  BY DEF Place, Linkage
<1>3. CASE held \in Request
  <2>1. outbox' # <<>> \/ (Gone /\ outbox' = outbox)
    BY <1>3, EndsAnswer DEF Letter, Tell
  <2> QED BY <1>1, <1>2, <1>3, <2>1, RestQuiet
<1>4. CASE held \notin Request
  <2>1. current # None => held # current
    BY <1>4 DEF Kinds
  <2> QED BY <1>1, <1>2, <1>4, <2>1, RestQuiet
<1> QED BY <1>3, <1>4

LEMMA FenceQuiet == ASSUME Base, Attended, ReadFence \/ IdlePing PROVE Attended'
<1> USE ParameterAssumption DEF Unlink, Maybe, Base, Attended, client
<1>1. held = None /\ held' = None /\ at' = "serve" /\ discard' = discard /\ UNCHANGED client
  BY DEF ReadFence, ReadFrame, Receiving, ReadFarewell, IdlePing, Place, task
<1>2. CASE ReadFrame
  <2>1. Place' /\ Linkage'
    BY <1>1, <1>2 DEF ReadFrame, Receiving, Place, Linkage
  <2>2. CASE Head(down) \in Request
    <3>1. (outbox' # <<>> \/ Gone) /\ (outbox # <<>> => outbox' # <<>>)
      BY <1>2, <2>2, EndsAnswer DEF ReadFrame, Letter
    <3>2. inFlight' = inFlight \/ inFlight' = None
      BY <1>2 DEF ReadFrame
    <3> QED BY <1>1, <2>1, <3>1, <3>2, RestQuiet
  <2>3. CASE Head(down) \notin Request
    <3>1. inFlight' = inFlight /\ outbox' = outbox
      BY <1>2, <2>3 DEF ReadFrame, Forward
    <3> QED BY <1>1, <2>1, <3>1, RestQuiet
  <2> QED BY <2>2, <2>3
<1>3. CASE ReadFarewell
  <2>1. Place' /\ Linkage' /\ inFlight' = None
    BY <1>1, <1>3 DEF ReadFarewell, Place, Linkage
  <2>2. CASE inFlight = None
    BY <1>1, <1>3, <2>1, <2>2, RestQuiet DEF ReadFarewell
  <2>3. CASE inFlight # None
    <3>1. inFlight \in Letter
      BY DEF Kinds, Letter
    <3>2. (outbox' # <<>> \/ Gone) /\ (outbox # <<>> => outbox' # <<>>)
      BY <1>3, <2>3, <3>1, EndsAnswer DEF ReadFarewell
    <3> QED BY <1>1, <2>1, <3>2, RestQuiet
  <2> QED BY <2>2, <2>3
<1>4. CASE IdlePing
  <2>1. Place' /\ Linkage' /\ outbox' = outbox /\ inFlight' = inFlight
    BY <1>1, <1>4 DEF IdlePing, Place, Linkage, task
  <2> QED BY <1>1, <2>1, RestQuiet
<1> QED BY <1>2, <1>3, <1>4 DEF ReadFence

\* The fence's own steps, and the steps that change nothing.
LEMMA OtherQuiet ==
  ASSUME Base, Attended, UNCHANGED <<task, linked, client, outbox>>
  PROVE  Attended'
<1>1. Place' /\ Linkage'
  BY DEF Attended, Place, Linkage, task, client
<1>2. current # None /\ inFlight' = current => held' = None
  BY DEF Attended, LastFrame, task
<1> QED BY <1>1, <1>2, RestQuiet DEF task

\* What the queue is after its first frame is taken.
LEMMA Taken ==
  ASSUME Inv, NEW frame \in Frame, Reading(frame)
  PROVE  /\ Len(inbox) \in Nat \ {0} /\ Len(inbox') = Len(inbox) - 1
         /\ \A i \in 1..Len(inbox') : i + 1 \in 1..Len(inbox) /\ inbox'[i] = inbox[i + 1]
         /\ \A i \in 1..Len(inbox) : i # 1 => i - 1 \in 1..Len(inbox') /\ inbox'[i - 1] = inbox[i]
         /\ inbox[1] = frame /\ 1 \in 1..Len(inbox)
         /\ frame # "close" => (Gone => Gone')
         /\ \A r \in Request : r # frame /\ Waits(r) => Waits(r)'
<1>1. /\ Len(inbox) \in Nat \ {0} /\ Len(inbox') = Len(inbox) - 1
      /\ \A i \in 1..Len(inbox') : i + 1 \in 1..Len(inbox) /\ inbox'[i] = inbox[i + 1]
      /\ inbox[1] = frame /\ 1 \in 1..Len(inbox)
  BY DEF Inv, Typed, Reading
<1>2. ASSUME NEW i \in 1..Len(inbox), i # 1
      PROVE  i - 1 \in 1..Len(inbox') /\ inbox'[i - 1] = inbox[i]
  <2>1. i - 1 \in 1..Len(inbox') /\ (i - 1) + 1 = i
    BY <1>1, <1>2
  <2> QED BY <1>1, <2>1
<1>3. ASSUME frame # "close", Gone PROVE Gone'
  <2>1. PICK i \in 1..Len(inbox) : inbox[i] = "close"
    BY <1>3 DEF Gone
  <2> QED BY <1>1, <1>2, <1>3, <2>1 DEF Gone
<1>4. ASSUME NEW r \in Request, r # frame, Waits(r) PROVE Waits(r)'
  <2>1. PICK i \in 1..Len(inbox) : inbox[i] = r
    BY <1>4 DEF Waits
  <2> QED BY <1>1, <1>2, <1>4, <2>1 DEF Waits
<1> QED BY <1>1, <1>2, <1>3, <1>4

LEMMA ReadPingQuiet == ASSUME Base, Attended, ReadPing PROVE Attended'
<1> USE ParameterAssumption DEF ReadPing, Maybe, Base, Attended
<1>1. held = None /\ "ping" \in Frame /\ "ping" # "close" /\ Reading("ping") /\ at' # "handshake"
  BY DEF Place, Reading, Frame
<1>2. /\ Len(inbox) \in Nat \ {0} /\ Len(inbox') = Len(inbox) - 1
      /\ \A i \in 1..Len(inbox') : i + 1 \in 1..Len(inbox) /\ inbox'[i] = inbox[i + 1]
      /\ \A i \in 1..Len(inbox) : i # 1 => i - 1 \in 1..Len(inbox') /\ inbox'[i - 1] = inbox[i]
      /\ inbox[1] = "ping" /\ 1 \in 1..Len(inbox)
      /\ Gone => Gone'
      /\ \A r \in Request : r # "ping" /\ Waits(r) => Waits(r)'
  BY <1>1, Taken
<1>3. /\ UNCHANGED <<current, begun, inFlight, discard, outbox, linked>>
      /\ held' = None \/ (held' = "ping" /\ at' = "send" /\ linked)
  BY <1>1 DEF Reading, fence
<1>4. Place' /\ Linkage' /\ Opening'
  BY <1>1, <1>3 DEF Place, Linkage, Opening, Reading
<1>5. LastFrame'
  <2>1. SUFFICES ASSUME current # None PROVE LastFrame'
    BY <1>3 DEF LastFrame
  <2>2. inFlight # current /\ held' # current
    BY <1>2, <1>3, <2>1 DEF LastFrame, OnlyCloses, Kinds
  <2>3. ASSUME NEW i \in 1..Len(inbox'), NEW j \in 1..Len(inbox'), inbox'[i] = current, i < j
        PROVE  inbox'[j] = "close"
    <3>1. i + 1 \in 1..Len(inbox) /\ j + 1 \in 1..Len(inbox) /\ inbox[i + 1] = current /\ i + 1 < j + 1
      BY <1>2, <2>3
    <3> QED BY <1>2, <2>1, <3>1 DEF LastFrame
  <2> QED BY <1>3, <2>2, <2>3 DEF LastFrame
<1>6. DiscardAnswered'
  <2>1. SUFFICES ASSUME discard PROVE DiscardAnswered'
    BY <1>3 DEF DiscardAnswered
  <2>2. PICK f \in 1..Len(inbox) : First(f) /\ (inbox[f] = current /\ ~Gone => outbox # <<>>)
    BY <2>1 DEF DiscardAnswered
  <2>3. f # 1 /\ f - 1 \in 1..Len(inbox') /\ inbox'[f - 1] = inbox[f]
    BY <1>2, <2>2 DEF First
  <2>4. First(f - 1)'
    BY <1>2, <2>2, <2>3 DEF First
  <2> QED BY <1>2, <1>3, <2>2, <2>3, <2>4 DEF DiscardAnswered
<1>7. Underway'
  <2>1. SUFFICES ASSUME current # None, ~Gone, outbox = <<>>
                 PROVE  Waits(current)' \/ (current = inFlight /\ linked)
    BY <1>2, <1>3 DEF Underway
  <2>2. Waits(current) \/ (current = inFlight /\ linked)
    BY <1>1, <2>1 DEF Underway
  <2> QED BY <1>2, <1>3, <2>1, <2>2 DEF Kinds, Waits
<1> QED BY <1>4, <1>5, <1>6, <1>7

LEMMA ReadDiscardedQuiet == ASSUME Base, Attended, NEW r \in Request, ReadDiscarded(r) PROVE Attended'
<1> USE ParameterAssumption DEF ReadDiscarded, Maybe, Base, Attended
<1>1. held = None /\ r \in Frame /\ r # "close" /\ Reading(r) /\ at' # "handshake"
  BY DEF Place, Reading, Frame
<1>2. /\ Len(inbox) \in Nat \ {0} /\ Len(inbox') = Len(inbox) - 1
      /\ \A i \in 1..Len(inbox') : i + 1 \in 1..Len(inbox) /\ inbox'[i] = inbox[i + 1]
      /\ inbox[1] = r /\ 1 \in 1..Len(inbox)
      /\ Gone => Gone'
      /\ \A x \in Request : x # r /\ Waits(x) => Waits(x)'
  BY <1>1, Taken
<1>3. UNCHANGED <<current, begun, held, inFlight, outbox, linked>> /\ ~discard'
  BY <1>1 DEF Reading, fence
<1>4. Place' /\ Linkage' /\ Opening' /\ DiscardAnswered'
  BY <1>1, <1>3 DEF Place, Linkage, Opening, DiscardAnswered, Reading
<1>5. LastFrame'
  <2>1. SUFFICES ASSUME current # None PROVE LastFrame'
    BY <1>3 DEF LastFrame
  <2>2. inFlight # current /\ held # current
    BY <1>1, <1>2, <2>1 DEF LastFrame, OnlyCloses
  <2>3. ASSUME NEW i \in 1..Len(inbox'), NEW j \in 1..Len(inbox'), inbox'[i] = current, i < j
        PROVE  inbox'[j] = "close"
    <3>1. i + 1 \in 1..Len(inbox) /\ j + 1 \in 1..Len(inbox) /\ inbox[i + 1] = current /\ i + 1 < j + 1
      BY <1>2, <2>3
    <3> QED BY <1>2, <2>1, <3>1 DEF LastFrame
  <2> QED BY <1>3, <2>2, <2>3 DEF LastFrame
<1>6. Underway'
  <2>1. SUFFICES ASSUME current # None, ~Gone, outbox = <<>>
                 PROVE  Waits(current)' \/ (current = inFlight /\ linked)
    BY <1>2, <1>3 DEF Underway
  <2>2. Waits(current) \/ (current = inFlight /\ linked)
    BY <1>1, <2>1 DEF Underway
  <2>3. PICK f \in 1..Len(inbox) : First(f) /\ inbox[f] # current
    BY <2>1 DEF DiscardAnswered
  <2>4. f = 1
    BY <1>2, <2>3 DEF First
  <2> QED BY <1>2, <1>3, <2>1, <2>2, <2>3, <2>4 DEF Kinds, Waits
<1> QED BY <1>4, <1>5, <1>6

LEMMA ReadRequestQuiet == ASSUME Base, Attended, NEW r \in Request, ReadRequest(r) PROVE Attended'
<1> USE ParameterAssumption DEF ReadRequest, Maybe, Base, Attended
<1>1. held = None /\ r \in Frame /\ r # "close" /\ Reading(r)
  BY DEF Place, Reading, Frame
<1>2. /\ Len(inbox) \in Nat \ {0} /\ Len(inbox') = Len(inbox) - 1
      /\ \A i \in 1..Len(inbox') : i + 1 \in 1..Len(inbox) /\ inbox'[i] = inbox[i + 1]
      /\ inbox[1] = r /\ 1 \in 1..Len(inbox)
      /\ Gone => Gone'
      /\ \A x \in Request : x # r /\ Waits(x) => Waits(x)'
  BY <1>1, Taken
<1>3. /\ UNCHANGED <<current, begun, inFlight, discard>> /\ ~discard /\ held' = r
      /\ outbox # <<>> => outbox' # <<>>
  <2>1. CASE Forward(Head(down))
    BY <1>1, <2>1 DEF Reading, Forward
  <2>2. CASE outbox' = outbox
    BY <1>1, <2>2 DEF Reading
  <2> QED BY <2>1, <2>2
<1>4. Place' /\ Linkage' /\ at' # "handshake"
  BY <1>1, <1>3 DEF Place, Linkage, Unlink, fence, Reading
<1>5. LastFrame'
  <2>1. SUFFICES ASSUME current # None PROVE LastFrame'
    BY <1>3 DEF LastFrame
  <2>2. inFlight # current
    BY <1>1, <1>2, <2>1 DEF LastFrame, OnlyCloses
  <2>3. ASSUME NEW i \in 1..Len(inbox'), NEW j \in 1..Len(inbox'), inbox'[i] = current, i < j
        PROVE  inbox'[j] = "close"
    <3>1. i + 1 \in 1..Len(inbox) /\ j + 1 \in 1..Len(inbox) /\ inbox[i + 1] = current /\ i + 1 < j + 1
      BY <1>2, <2>3
    <3> QED BY <1>2, <2>1, <3>1 DEF LastFrame
  <2>4. r = current => OnlyCloses'
    <3>1. \A j \in 1..Len(inbox') : j + 1 \in 1..Len(inbox) /\ 1 < j + 1
      BY <1>2
    <3> QED BY <1>2, <2>1, <3>1 DEF LastFrame, OnlyCloses
  <2> QED BY <1>3, <2>2, <2>3, <2>4 DEF LastFrame
<1>6. Underway'
  <2>1. SUFFICES ASSUME current # None, ~Gone, outbox = <<>>, r # current PROVE Waits(current)'
    BY <1>2, <1>3 DEF Underway
  <2>2. inFlight # current
    BY <1>1, <1>2, <2>1 DEF LastFrame, OnlyCloses
  <2>3. Waits(current)
    BY <1>1, <2>1, <2>2 DEF Underway
  <2> QED BY <1>2, <1>3, <2>1, <2>3 DEF Kinds, Waits
<1> QED BY <1>3, <1>4, <1>5, <1>6 DEF Opening, DiscardAnswered

LEMMA NextQuiet == Quiet /\ [Next]_vars => Quiet'
<1> SUFFICES ASSUME Quiet, [Next]_vars, at' # "over" PROVE Attended'
  BY NextBase DEF Quiet
<1>0. Base /\ (at # "over" => Attended)
  BY DEF Quiet
<1>1. ASSUME NEW r \in Request, Begin(r) PROVE Attended'
  BY <1>0, <1>1, BeginQuiet DEF Begin, task
<1>2. CASE Ping \/ Leave
  BY <1>0, <1>2, FrameQuiet DEF Ping, Leave
<1>3. CASE Hear
  BY <1>0, <1>3, HearQuiet DEF Hear, task
<1>4. CASE Event \/ \E r \in Request : Complete(r)
  BY <1>0, <1>4, OtherQuiet DEF Event, Complete, Emit, task
<1>5. ASSUME NEW remains, Hangup(remains) PROVE Attended'
  BY <1>0, <1>5, OtherQuiet DEF Hangup, task
<1>6. CASE Connect
  <2>1. at # "over"
    BY <1>6 DEF Connect, Connected, ConnectFails, Reconnected, ReconnectFails
  <2> QED BY <1>0, <1>6, <2>1, ConnectQuiet
<1>7. CASE ReadClient
  <2>1. at # "over"
    BY <1>7 DEF ReadClient, ReadClose, ReadPing, ReadDiscarded, ReadRequest, Reading
  <2> QED BY <1>0, <1>7, <2>1, ReadPingQuiet, ReadDiscardedQuiet, ReadRequestQuiet DEF ReadClient, ReadClose
<1>8. CASE Sending
  <2>1. at # "over"
    BY <1>8 DEF Sending, Send, SendFails
  <2> QED BY <1>0, <1>8, <2>1, SendQuiet, SendFailsQuiet DEF Sending
<1>9. CASE ReadFence \/ IdlePing
  <2>1. at # "over"
    BY <1>9 DEF ReadFence, ReadFrame, Receiving, ReadFarewell, IdlePing
  <2> QED BY <1>0, <1>9, <2>1, FenceQuiet
<1>10. CASE ForwardFails
  BY <1>10 DEF ForwardFails
<1>11. CASE UNCHANGED vars
  BY <1>0, <1>11, OtherQuiet DEF vars, fence, task
<1> QED BY <1>1, <1>2, <1>3, <1>4, <1>5, <1>6, <1>7, <1>8, <1>9, <1>10, <1>11 DEF Next

\* A client that is silent while it waits never waits for nothing: its request
\* is in a queue the task reads, in its hands, in flight on a connection it
\* reads, or there is an answer or an error, whatever fails and in what order,
\* and whatever ends of turns the task misses.
THEOREM TheSilentAreAttended == Early /\ ~Pinging /\ Spec => []NobodyWaitsInVain
<1>1. Quiet => NobodyWaitsInVain
  <2>1. SUFFICES ASSUME Quiet, current # None, ~Gone, at # "over"
                 PROVE  current \in Requests \/ current = held \/ (current = inFlight /\ linked) \/ outbox # <<>>
    BY DEF NobodyWaitsInVain
  <2>2. current \in Request
    BY <2>1 DEF Quiet, Base, Kinds, Maybe
  <2> QED BY <2>1, <2>2 DEF Quiet, Attended, Underway, Waits, Requests
<1>2. Early /\ ~Pinging /\ Init => Quiet
  <2>1. SUFFICES ASSUME Early, ~Pinging, Init PROVE Base /\ Attended
    BY DEF Quiet
  <2>2. at = "handshake" /\ current = None /\ inFlight = None /\ discard = FALSE /\ linked = FALSE
    BY <2>1, Zenon DEF Init
  <2>3. Base
    BY <2>1, InitInv, InitOneTurn DEF Base, OneTurn, Init
  <2>4. Place /\ LastFrame /\ Linkage
    BY <2>1, <2>2 DEF Init, Place, LastFrame, Linkage
  <2>5. Opening /\ DiscardAnswered /\ Underway
    BY <2>1, <2>2 DEF Init, Opening, DiscardAnswered, Underway
  <2> QED BY <2>3, <2>4, <2>5 DEF Attended
<1>3. Quiet /\ [Next]_vars => Quiet'
  BY NextQuiet
<1> QED BY <1>1, <1>2, <1>3, PTL DEF Spec

=============================================================================
