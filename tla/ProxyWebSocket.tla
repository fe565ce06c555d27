---------------------------- MODULE ProxyWebSocket ----------------------------
(***************************************************************************)
(* One Responses WebSocket of src/proxy.rs: the client's socket, the task  *)
(* proxy_websocket spawns for it and the connection to the fence, which    *)
(* comes and goes while the client's socket stays.                         *)
(*                                                                         *)
(* The client works turn by turn: it sends a request and waits until an    *)
(* event or an error of the proxy ends the turn.  The task reads one frame *)
(* at a time, of the client or of the fence, and while it connects, or     *)
(* sends, it reads none.                                                   *)
(***************************************************************************)
EXTENDS Naturals, Sequences

CONSTANTS
  Request,    \* turns the client may take
  Early,      \* the first request is sent during the first handshake
  Pinging,    \* pings, and pongs to the fence's pings, also during a turn
  MaxQueue,   \* bound on the frames in a queue
  None

ASSUME ParameterAssumption ==
  /\ Early \in BOOLEAN /\ Pinging \in BOOLEAN
  /\ MaxQueue \in Nat \ {0}
  /\ None \notin Request \cup {"ping", "close", "event"}
  /\ Request \cap {"ping", "close", "event"} = {}

VARIABLES
  at,        \* what the task is doing
  held,      \* the client's frame it is about to send
  discard,   \* discard_initial_failed_request
  inFlight,  \* the request behind upstream_in_flight
  missed,    \* an end of a turn that the task took for no end: none, its turn
             \* is still in flight for it, or was when the connection ended
  linked,    \* upstream_sink and upstream_stream are there
  peer,      \* the fence still holds its end of the connection
  work,      \* requests the fence has to answer on it
  down,      \* frames of the fence that the task has not read
  inbox,     \* frames of the client that the task has not read
  outbox,    \* what ends turns and the client has not read
  current,   \* the turn the client is in
  begun,     \* the requests it has sent
  got        \* how often the fence has received each

task == <<at, held, discard, inFlight, missed>>
fence == <<linked, peer, work, down>>
client == <<inbox, current, begun>>
vars == <<task, fence, client, outbox, got>>

Maybe(S) == S \cup {None}
Frame == Request \cup {"ping", "close"}

\* A frame of the fence is the end of a turn, something else, or its farewell.
FenceFrame == Request \cup {"event", "close"}

TypeOK ==
  /\ at \in {"handshake", "serve", "reconnect", "send", "over"}
  /\ held \in Maybe(Request \cup {"ping"})
  /\ discard \in BOOLEAN /\ linked \in BOOLEAN /\ peer \in BOOLEAN
  /\ inFlight \in Maybe(Request)
  /\ missed \in {"none", "open", "reported"}
  /\ work \in SUBSET Request
  /\ down \in Seq(FenceFrame)
  /\ inbox \in Seq(Frame)
  /\ outbox \in Seq(Maybe(Request))
  /\ current \in Maybe(Request)
  /\ begun \in SUBSET Request
  /\ got \in [Request -> Nat]

\* The client's socket is accepted; the first handshake begins.
Init ==
  /\ at = "handshake"
  /\ held = None /\ discard = FALSE /\ inFlight = None /\ missed = "none"
  /\ linked = FALSE /\ peer = FALSE /\ work = {} /\ down = <<>>
  /\ inbox = <<>> /\ outbox = <<>>
  /\ current = None /\ begun = {}
  /\ got = [r \in Request |-> 0]

-----------------------------------------------------------------------------
(* The client.                                                             *)

Gone == \E i \in 1..Len(inbox) : inbox[i] = "close"

Begin(r) ==
  /\ current = None /\ r \notin begun /\ ~Gone /\ at # "over"
  /\ inbox' = Append(inbox, r)
  /\ current' = r
  /\ begun' = begun \cup {r}
  /\ UNCHANGED <<task, fence, outbox, got>>

Ping ==
  /\ current # None => Pinging
  /\ Len(inbox) < MaxQueue /\ ~Gone /\ at # "over"
  /\ inbox' = Append(inbox, "ping")
  /\ UNCHANGED <<task, fence, current, begun, outbox, got>>

\* An answer or an error ends the turn.
Hear ==
  /\ outbox # <<>> /\ ~Gone
  /\ outbox' = Tail(outbox)
  /\ current' = None
  /\ UNCHANGED <<task, fence, inbox, begun, got>>

Leave ==
  /\ ~Gone /\ at # "over"
  /\ inbox' = Append(inbox, "close")
  /\ UNCHANGED <<task, fence, current, begun, outbox, got>>

-----------------------------------------------------------------------------
(* The fence.                                                              *)

Emit(frame) ==
  /\ linked /\ peer /\ Len(down) < MaxQueue
  /\ down' = Append(down, frame)
  /\ UNCHANGED <<task, linked, peer, client, outbox, got>>

Event == Emit("event") /\ UNCHANGED work

\* The event that ends a turn for the client: response.completed,
\* response.failed, response.incomplete or an error.
Complete(r) == r \in work /\ Emit(r) /\ work' = work \ {r}

\* The connection ends, with a close frame, after what was sent, or before.
Hangup(left) ==
  /\ linked /\ peer
  /\ left \in {Append(down, "close"), down, <<>>}
  /\ peer' = FALSE
  /\ work' = {}
  /\ down' = left
  /\ UNCHANGED <<task, linked, client, outbox, got>>

-----------------------------------------------------------------------------
(* The task: the connection to the fence.                                  *)

\* Sink and stream are dropped; what the fence still sends is not read.
Unlink == linked' = FALSE /\ peer' = FALSE /\ work' = {} /\ down' = <<>>
Link == linked' = TRUE /\ peer' = TRUE /\ work' = {} /\ down' = <<>>

\* Mutant of Tell: nobody is told.
TellNobody(r) == UNCHANGED outbox

\* send_local_proxy_websocket_error; r is the request it is about.
Tell(r) == outbox' = IF Gone THEN outbox ELSE Append(outbox, r)

\* forward_upstream_ws_message; what does not end a turn is left out.
Forward(frame) ==
  outbox' = IF frame \in Request /\ ~Gone THEN Append(outbox, frame) ELSE outbox

Requests == {r \in Request : \E i \in 1..Len(inbox) : inbox[i] = r}

Connected ==
  /\ at = "handshake"
  /\ at' = "serve"
  /\ Link
  /\ UNCHANGED <<held, discard, inFlight, missed, client, outbox, got>>

\* The error is about the request that is waiting.
ConnectFails ==
  /\ at = "handshake"
  /\ Early => begun # {}
  /\ at' = "serve"
  /\ discard' = TRUE
  /\ Tell(current)
  /\ UNCHANGED <<held, inFlight, missed, fence, client, got>>

Reconnected ==
  /\ at = "reconnect"
  /\ at' = "send"
  /\ Link
  /\ UNCHANGED <<held, discard, inFlight, missed, client, outbox, got>>

ReconnectFails ==
  /\ at = "reconnect"
  /\ at' = "serve"
  /\ held' = None
  /\ Tell(held)
  /\ UNCHANGED <<discard, inFlight, missed, fence, client, got>>

-----------------------------------------------------------------------------
(* The task: a frame of the client.                                        *)

Reading(frame) ==
  /\ at = "serve" /\ inbox # <<>> /\ Head(inbox) = frame
  /\ inbox' = Tail(inbox)
  /\ UNCHANGED <<current, begun>>

ReadClose ==
  /\ Reading("close")
  /\ at' = "over"
  /\ Unlink
  /\ UNCHANGED <<held, discard, inFlight, missed, outbox, got>>

\* Mutant of ReadDiscarded: every request is dropped until a turn succeeds.
DiscardMore(r) ==
  /\ discard /\ Reading(r)
  /\ UNCHANGED <<task, fence, outbox, got>>

ReadDiscarded(r) ==
  /\ discard /\ Reading(r)
  /\ discard' = FALSE
  /\ UNCHANGED <<at, held, inFlight, missed, fence, outbox, got>>

ReadPing ==
  /\ Reading("ping")
  /\ IF linked THEN at' = "send" /\ held' = "ping" ELSE UNCHANGED <<at, held>>
  /\ UNCHANGED <<discard, inFlight, missed, fence, outbox, got>>

\* The frame the idle connection has ready is a farewell or its end.
Ended == IF down = <<>> THEN ~peer ELSE Head(down) = "close"

ReadRequest(r) ==
  /\ ~discard /\ Reading(r)
  /\ held' = r
  /\ \/ /\ ~linked
        /\ at' = "reconnect"
        /\ UNCHANGED <<fence, outbox>>
     \/ /\ linked
        /\ at' = "send"
        /\ UNCHANGED <<fence, outbox>>
     \/ /\ linked /\ inFlight = None /\ Ended
        /\ at' = "reconnect"
        /\ Unlink
        /\ UNCHANGED outbox
     \/ /\ linked /\ inFlight = None /\ down # <<>> /\ ~Ended
        /\ at' = "send"
        /\ Forward(Head(down))
        /\ down' = Tail(down)
        /\ UNCHANGED <<linked, peer, work>>
  /\ UNCHANGED <<discard, inFlight, missed, got>>

\* What the fence gets of a frame that is sent.
Deliver ==
  /\ got' = IF held \in Request THEN [got EXCEPT ![held] = @ + 1] ELSE got
  /\ work' = work \cup ({held} \cap Request)

\* Mutant of SendFails: a request that may not have arrived is sent again.
SendFailsRetry(arrived) ==
  /\ at = "send"
  /\ arrived => peer
  /\ got' = IF arrived /\ held \in Request THEN [got EXCEPT ![held] = @ + 1] ELSE got
  /\ at' = IF held = "ping" THEN "serve" ELSE "reconnect"
  /\ held' = IF held = "ping" THEN None ELSE held
  /\ Unlink
  /\ UNCHANGED <<discard, inFlight, missed, client, outbox>>

\* Another request, or none, is in flight.
Replaced == IF missed = "open" THEN "none" ELSE missed

\* A frame sent to a fence that is already gone is lost without a sign.
Send ==
  /\ at = "send"
  /\ IF peer THEN Deliver ELSE UNCHANGED <<got, work>>
  /\ at' = "serve"
  /\ held' = None
  /\ inFlight' = IF held \in Request THEN held ELSE inFlight
  /\ missed' = IF held \in Request THEN Replaced ELSE missed
  /\ UNCHANGED <<discard, linked, peer, down, client, outbox>>

\* The error does not tell whether the frame arrived.
SendFails(arrived) ==
  /\ at = "send"
  /\ arrived => peer
  /\ got' = IF arrived /\ held \in Request THEN [got EXCEPT ![held] = @ + 1] ELSE got
  /\ at' = "serve"
  /\ held' = None
  /\ inFlight' = None /\ missed' = Replaced
  /\ Unlink
  /\ IF held \in Request THEN Tell(held) ELSE UNCHANGED outbox
  /\ UNCHANGED <<discard, client>>

-----------------------------------------------------------------------------
(* The task: a frame of the fence.                                         *)

Receiving == at = "serve" /\ linked /\ down # <<>> /\ ~Ended

\* Mutant of ReadFrame: the task does not notice that the turn is over.
ReadFrameOnly ==
  /\ Receiving
  /\ down' = Tail(down)
  /\ Forward(Head(down))
  /\ UNCHANGED <<task, linked, peer, work, client, got>>

\* local_proxy_upstream_message_finishes knows response.completed and
\* response.failed; any other end is forwarded, and the turn stays in flight.
ReadFrame ==
  /\ Receiving
  /\ down' = Tail(down)
  /\ Forward(Head(down))
  /\ \/ /\ inFlight' = IF Head(down) \in Request THEN None ELSE inFlight
        /\ UNCHANGED missed
     \/ /\ Head(down) \in Request
        /\ missed' = IF missed = "none" THEN "open" ELSE missed
        /\ UNCHANGED inFlight
  /\ UNCHANGED <<at, held, discard, linked, peer, work, client, got>>

\* The client does not take what is forwarded.
ForwardFails ==
  /\ Receiving /\ Gone
  /\ at' = "over"
  /\ Unlink
  /\ UNCHANGED <<held, discard, inFlight, missed, client, outbox, got>>

\* The connection ends; the turn in flight fails, an idle one does not mind.
\* A turn that is over and still in flight fails once more.
ReadFarewell ==
  /\ at = "serve" /\ linked /\ Ended
  /\ Unlink
  /\ inFlight' = None
  /\ missed' = IF missed = "open" THEN "reported" ELSE missed
  /\ IF inFlight # None THEN Tell(inFlight) ELSE UNCHANGED outbox
  /\ UNCHANGED <<at, held, discard, client, got>>

\* The idle ping finds the connection broken.
IdlePing ==
  /\ at = "serve" /\ linked /\ inFlight = None /\ ~peer
  /\ Unlink
  /\ UNCHANGED <<task, client, outbox, got>>

-----------------------------------------------------------------------------
ReadClient ==
  \/ ReadClose \/ ReadPing
  \/ \E r \in Request : ReadDiscarded(r) \/ ReadRequest(r)

ReadFence == ReadFrame \/ ReadFarewell

Connect == Connected \/ ConnectFails \/ Reconnected \/ ReconnectFails

Sending == Send \/ \E arrived \in BOOLEAN : SendFails(arrived)

Next ==
  \/ \E r \in Request : Begin(r) \/ Complete(r)
  \/ Ping \/ Hear \/ Leave
  \/ Event \/ \E left \in {Append(down, "close"), down, <<>>} : Hangup(left)
  \/ Connect \/ ReadClient \/ Sending \/ ReadFence \/ ForwardFails \/ IdlePing

Spec == Init /\ [][Next]_vars

\* The task is scheduled and tokio::select! starves no branch; a handshake
\* ends (LOCAL_PROXY_WEBSOCKET_RETRY_TIMEOUT); the fence answers or hangs up;
\* the client reads.
Fairness ==
  /\ WF_vars(Connect) /\ WF_vars(Sending)
  /\ SF_vars(ReadClient) /\ SF_vars(ReadFence)
  /\ \A r \in Request : SF_vars(Complete(r))
  /\ WF_vars(Hear)

FairSpec == Spec /\ Fairness

-----------------------------------------------------------------------------
(* Properties.                                                             *)

\* "Do not resend this frame: the original peer might have received it": the
\* fence receives a request at most once, over all connections.
NeverReplayed == \A r \in Request : got[r] <= 1

\* An answer or an error that reaches the client is about the turn it is in,
\* and there is one for a turn: an idle close is no error, a failed turn does
\* not end the next one.  An end the task takes for no end does no harm either,
\* unless the connection ends before the next request is sent: the task then
\* reports the loss of a turn that is over, to no turn or to the next one.
OwnAnswer ==
  ~Gone /\ outbox # <<>> /\ missed # "reported" => outbox = <<current>>

\* The client never waits for nothing: its request is still to be read, about
\* to be sent, in flight on a connection the task reads, or answered.  That
\* holds whatever ends the task misses and whatever it reports because of them.
NobodyWaitsInVain ==
  current # None /\ ~Gone /\ at # "over" =>
    \/ current \in Requests
    \/ current = held
    \/ current = inFlight /\ linked
    \/ outbox # <<>>

\* Every turn ends, unless the client leaves: a failed one does not make the
\* later ones fail.
TurnEnds == \A r \in Request : current = r ~> current # r \/ Gone \/ at = "over"
=============================================================================
