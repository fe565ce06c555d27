--------------------------- MODULE DesktopReconnect ---------------------------
(***************************************************************************)
(* Cooperative reconnects of assets/codex_desktop.py: the reconnect        *)
(* command arms one request file for a set of running adapters; each       *)
(* adapter (class ReconnectSession) watches the protocol it relays and     *)
(* shuts its connection down by itself once nothing is under way.          *)
(*                                                                         *)
(* In an adapter the input thread relays the client's messages, the output *)
(* thread relays the app server's messages and polls the request file.     *)
(* Both take the session's gate for each message, the poll keeps it from   *)
(* its first look at the request until it has decided.                     *)
(***************************************************************************)
EXTENDS Naturals, Sequences, FiniteSets

CONSTANTS
  Adapter,     \* running desktop adapters
  Thread,      \* chats
  Turn,        \* turns of the app server
  Call,        \* identities of client requests in flight
  Op,          \* reconnect operations
  Release,     \* installed settings
  Vetoes,      \* adapters whose environment turns automatic reconnects off
  Remembered,  \* how many completed turns a session remembers (256 in the code)
  MaxQueue,    \* bound on the messages waiting in a pipe
  None

ASSUME VetoAssumption == Vetoes \subseteq Adapter
ASSUME BoundAssumption == Remembered \in Nat /\ MaxQueue \in Nat
ASSUME NoneAssumption == None \notin Adapter \cup Thread \cup Turn \cup Call \cup Op

VARIABLES
  phase,      \* running, stopped (the app server ended), gone
  session,    \* the books of each ReconnectSession
  input,      \* the message the input thread is working on
  polled,     \* the request a poll has read and not decided on
  toNative,   \* the pipe to the app server
  toClient,   \* the pipe from the app server
  running,    \* turns the app server is working on, with their thread
  owed,       \* requests it has read and not answered
  unseen,     \* those of its turns that were not started by turn/start and of whose
              \* start the session has not read, or had not when it began to drain
  request,    \* reconnect-request.json
  report,     \* reconnects/<op>.json: the status of each target
  command,    \* the reconnect command that holds .reconnect.lock
  settings,   \* settings.json
  expired     \* operations past their expires_at

files == <<request, report, command, settings, expired>>
pipes == <<toNative, toClient, running, owed, unseen>>
vars == <<phase, session, input, polled, pipes, files>>

Maybe(S) == S \cup {None}
Fresh == [ready |-> FALSE, draining |-> FALSE, pending |-> {}, approvals |-> {},
          active |-> {}, completed |-> {}, operation |-> None, terminal |-> {}]
NoCommand == [kind |-> "none", op |-> None, targets |-> {}, automatic |-> FALSE]

\* Client messages carry a call, except an answer to an approval and the
\* notification that the client is initialized.
Message(kind, call, thread, turn) ==
  [kind |-> kind, call |-> call, thread |-> thread, turn |-> turn]
NoMessage == Message("none", None, None, None)

Messages == [kind : {"none", "initialized", "turn", "shell", "request", "answer", "reply",
                     "error", "started", "completed", "ask", "idle"},
             call : Maybe(Call), thread : Maybe(Thread), turn : Maybe(Turn)]
Expected == [call : Call, thread : Maybe(Thread)]
Session == [ready : BOOLEAN, draining : BOOLEAN, pending : SUBSET Expected,
            approvals : SUBSET Turn, active : SUBSET Thread, completed : SUBSET Turn,
            operation : Maybe(Op), terminal : SUBSET Op]
Request == [op : Op, targets : SUBSET Adapter, cancelled : BOOLEAN,
            automatic : BOOLEAN, settings : Release]
Command == [kind : {"none", "arm", "cancel"}, op : Maybe(Op),
            targets : SUBSET Adapter, automatic : BOOLEAN]
Reasons == {"cancelled", "expired", "disabled", "installation_changed"}
Status  == {"none", "pending", "shutting_down", "closed"} \cup Reasons

TypeOK ==
  /\ phase \in [Adapter -> {"running", "stopped", "gone"}]
  /\ session \in [Adapter -> Session]
  /\ input \in [Adapter -> Messages]
  /\ polled \in [Adapter -> Maybe(Request)]
  /\ toNative \in [Adapter -> Seq(Messages)]
  /\ toClient \in [Adapter -> Seq(Messages)]
  /\ running \in [Adapter -> SUBSET (Thread \X Turn)]
  /\ unseen \in [Adapter -> SUBSET (Thread \X Turn)]
  /\ owed \in [Adapter -> SUBSET Messages]
  /\ request \in Maybe(Request)
  /\ report \in [Op -> [Adapter -> Status]]
  /\ command \in Command
  /\ settings \in Release
  /\ expired \in SUBSET Op

Init ==
  /\ phase = [a \in Adapter |-> "running"]
  /\ session = [a \in Adapter |-> Fresh]
  /\ input = [a \in Adapter |-> NoMessage]
  /\ polled = [a \in Adapter |-> None]
  /\ toNative = [a \in Adapter |-> <<>>]
  /\ toClient = [a \in Adapter |-> <<>>]
  /\ running = [a \in Adapter |-> {}]
  /\ unseen = [a \in Adapter |-> {}]
  /\ owed = [a \in Adapter |-> {}]
  /\ request = None
  /\ report = [o \in Op |-> [a \in Adapter |-> "none"]]
  /\ command = NoCommand
  /\ settings \in Release
  /\ expired = {}

Live == {a \in Adapter : phase[a] # "gone"}

\* No poll holds the gate of a running session.
Open(a) == phase[a] = "running" /\ polled[a] = None

-----------------------------------------------------------------------------
(* The reconnect command, and setup.                                       *)

\* An operation that still has a live target to wait for.
StillPending ==
  /\ request # None
  /\ ~request.cancelled /\ request.op \notin expired
  /\ \E a \in request.targets \cap Live :
       report[request.op][a] \in {"pending", "shutting_down"}

\* reconnect --apply takes both locks and saves the report of a new operation.
ArmReport(o, T, automatic) ==
  /\ command = NoCommand
  /\ T # {} /\ T \subseteq Live
  /\ ~StillPending
  /\ \A a \in Adapter : report[o][a] = "none"
  /\ report' = [report EXCEPT ![o] = [a \in Adapter |-> IF a \in T THEN "pending" ELSE "none"]]
  /\ command' = [kind |-> "arm", op |-> o, targets |-> T, automatic |-> automatic]
  /\ UNCHANGED <<phase, session, input, polled, pipes, request, settings, expired>>

\* One atomic replacement of the request file arms all the targets.
ArmRequest ==
  /\ command.kind = "arm"
  /\ request' = [op |-> command.op, targets |-> command.targets, cancelled |-> FALSE,
                 automatic |-> command.automatic, settings |-> settings]
  /\ command' = NoCommand
  /\ UNCHANGED <<phase, session, input, polled, pipes, report, settings, expired>>

\* reconnect --cancel marks the request,
CancelRequest ==
  /\ command = NoCommand /\ request # None
  /\ request' = [request EXCEPT !.cancelled = TRUE]
  /\ command' = [NoCommand EXCEPT !.kind = "cancel", !.op = request.op]
  /\ UNCHANGED <<phase, session, input, polled, pipes, report, settings, expired>>

\* Mutant of CancelReport: acknowledged targets are cancelled as well.
CancelAll ==
  /\ command.kind = "cancel"
  /\ report' = [report EXCEPT ![command.op] =
       [a \in Adapter |-> IF @[a] \in {"pending", "shutting_down"} THEN "cancelled" ELSE @[a]]]
  /\ command' = NoCommand
  /\ UNCHANGED <<phase, session, input, polled, pipes, request, settings, expired>>

\* then every target that has not acknowledged it.
CancelReport ==
  /\ command.kind = "cancel"
  /\ report' = [report EXCEPT ![command.op] =
       [a \in Adapter |-> IF @[a] = "pending" THEN "cancelled" ELSE @[a]]]
  /\ command' = NoCommand
  /\ UNCHANGED <<phase, session, input, polled, pipes, request, settings, expired>>

\* The command is killed or fails; the kernel releases its locks.
CommandDies ==
  /\ command # NoCommand
  /\ command' = NoCommand
  /\ UNCHANGED <<phase, session, input, polled, pipes, request, report, settings, expired>>

\* Another release is set up, under .install.lock.
Setup(r) ==
  /\ command.kind # "arm" /\ settings # r
  /\ settings' = r
  /\ UNCHANGED <<phase, session, input, polled, pipes, request, report, command, expired>>

Expire(o) ==
  /\ o \notin expired /\ request # None /\ request.op = o
  /\ expired' = expired \cup {o}
  /\ UNCHANGED <<phase, session, input, polled, pipes, request, report, command, settings>>

-----------------------------------------------------------------------------
(* The input thread.                                                       *)

\* What the client can send next: turn/start, thread/shellCommand and other
\* requests, answers to approvals it was asked for, and the notification that it
\* is initialized.
ClientMessages(a) ==
  LET fresh == {c \in Call : \A e \in session[a].pending : e.call # c}
  IN  {Message(kind, c, t, None) : kind \in {"turn", "shell"}, c \in fresh, t \in Thread}
      \cup {Message("request", c, None, None) : c \in fresh}
      \cup {Message("answer", None, None, u) : u \in session[a].approvals}
      \cup {Message("initialized", None, None, None)}

\* ReconnectSession.input: the message counts as being processed, unless the
\* session is draining; then the client gets an error.
Begin(a, m) ==
  /\ Open(a) /\ input[a] = NoMessage
  /\ ~session[a].draining
  /\ input' = [input EXCEPT ![a] = m]
  /\ UNCHANGED <<phase, session, polled, pipes, files>>

\* The preflight refused the message; the client gets an error.
Reject(a) ==
  /\ Open(a) /\ input[a] # NoMessage
  /\ input' = [input EXCEPT ![a] = NoMessage]
  /\ UNCHANGED <<phase, session, polled, pipes, files>>

\* What is entered for a request: the thread only for turn/start.
Entry(m) == [call |-> m.call, thread |-> IF m.kind = "turn" THEN m.thread ELSE None]

\* ReconnectSession.client, for a message m.
Seen(books, m) ==
  [books EXCEPT
    !.pending = IF m.kind \in {"turn", "shell", "request"} THEN @ \cup {Entry(m)} ELSE @,
    !.approvals = IF m.kind = "answer" THEN @ \ {m.turn} ELSE @,
    !.ready = @ \/ m.kind = "initialized"]

\* The message is entered in the books and written to the app server.
Forward(a) ==
  /\ Open(a) /\ input[a] # NoMessage
  /\ Len(toNative[a]) < MaxQueue
  /\ session' = [session EXCEPT ![a] = Seen(@, input[a])]
  /\ toNative' = [toNative EXCEPT ![a] = Append(@, input[a])]
  /\ input' = [input EXCEPT ![a] = NoMessage]
  /\ UNCHANGED <<phase, polled, toClient, running, owed, unseen, files>>

-----------------------------------------------------------------------------
(* The native app server, as the adapter and its tests use it.             *)

Writes(a, m) ==
  /\ Len(toClient[a]) < MaxQueue
  /\ toClient' = [toClient EXCEPT ![a] = Append(@, m)]

Turns(a) == {x[2] : x \in running[a]}
Busy(a) == {x[1] : x \in running[a]}

\* No turn has this identity, and nothing that adapter a will still read speaks of it.
Unused(a, u) ==
  /\ u \notin UNION {Turns(b) \cup session[b].completed : b \in Adapter}
  /\ \A x \in owed[a] : x.turn # u
  /\ \A i \in DOMAIN toClient[a] : toClient[a][i].turn # u

\* Requests are read in order and answered whenever their answer is ready; a
\* thread runs one turn at a time. The answer to turn/start names its turn, the one
\* to thread/shellCommand does not, and may be there before the turn is announced.
NativeRead(a) ==
  LET m == Head(toNative[a])
      Answers(answer) == owed' = [owed EXCEPT ![a] = @ \cup {answer}]
      Starts(u) == running' = [running EXCEPT ![a] = @ \cup {<<m.thread, u>>}]
  IN
  /\ phase[a] = "running" /\ toNative[a] # <<>>
  /\ toNative' = [toNative EXCEPT ![a] = Tail(@)]
  /\ \/ /\ m.kind = "turn" /\ m.thread \notin Busy(a)
        /\ \E u \in Turn :
             Unused(a, u) /\ Starts(u) /\ Answers(Message("reply", m.call, m.thread, u))
        /\ UNCHANGED unseen
     \/ /\ m.kind = "shell" /\ m.thread \notin Busy(a)
        /\ \E u \in Turn :
             /\ Unused(a, u) /\ Starts(u)
             /\ unseen' = [unseen EXCEPT ![a] = @ \cup {<<m.thread, u>>}]
        /\ Answers(Message("reply", m.call, None, None))
     \/ /\ m.kind \in {"turn", "shell", "request"}
        /\ Answers(Message(IF m.kind = "request" THEN "reply" ELSE "error", m.call, None, None))
        /\ UNCHANGED <<running, unseen>>
     \/ m.kind \in {"answer", "initialized"} /\ UNCHANGED <<running, owed, unseen>>
  /\ UNCHANGED <<phase, session, input, polled, toClient, files>>

NativeReply(a, m) ==
  /\ phase[a] = "running" /\ m \in owed[a]
  /\ Writes(a, m)
  /\ owed' = [owed EXCEPT ![a] = @ \ {m}]
  /\ UNCHANGED <<phase, session, input, polled, toNative, running, unseen, files>>

\* A running turn is announced, asks for an approval, or ends.
NativeTurn(a, t, u, kind) ==
  /\ phase[a] = "running" /\ <<t, u>> \in running[a]
  /\ kind \in {"started", "ask", "completed"}
  /\ kind = "ask" => u \notin session[a].approvals
  /\ Writes(a, Message(kind, None, t, u))
  /\ LET Ended(turns) == IF kind = "completed" THEN [turns EXCEPT ![a] = @ \ {<<t, u>>}]
                         ELSE turns
     IN  running' = Ended(running) /\ unseen' = Ended(unseen)
  /\ UNCHANGED <<phase, session, input, polled, toNative, owed, files>>

\* thread/status/changed to idle, or thread/closed.
NativeIdle(a, t) ==
  /\ phase[a] = "running" /\ t \notin Busy(a)
  /\ Writes(a, Message("idle", None, t, None))
  /\ UNCHANGED <<phase, session, input, polled, toNative, running, owed, unseen, files>>

-----------------------------------------------------------------------------
(* The output thread.                                                      *)

\* Mutant of Observed: the answer to turn/start is not taken for a start.
ObservedLate(books, m) ==
  [books EXCEPT
    !.pending = IF m.kind \in {"reply", "error"} THEN {e \in @ : e.call # m.call} ELSE @,
    !.approvals = IF m.kind = "ask" THEN @ \cup {m.turn} ELSE @,
    !.active = IF m.kind = "started" THEN @ \cup {m.thread}
               ELSE IF m.kind \in {"completed", "idle"} THEN @ \ {m.thread} ELSE @]

\* ReconnectSession.native, for a message m.
Observed(books, m) ==
  LET started == {e.thread : e \in {e \in books.pending : e.call = m.call}} \ {None}
      done == books.completed \cup {m.turn}
  IN
  [books EXCEPT
    !.pending = IF m.kind \in {"reply", "error"} THEN {e \in @ : e.call # m.call} ELSE @,
    !.approvals = IF m.kind = "ask" THEN @ \cup {m.turn} ELSE @,
    !.completed = IF m.kind # "completed" THEN @
                  ELSE IF Cardinality(done) > Remembered THEN {m.turn} ELSE done,
    !.active = CASE m.kind = "reply" /\ m.turn \notin books.completed -> @ \cup started
                 [] m.kind = "started" -> @ \cup {m.thread}
                 [] m.kind \in {"completed", "idle"} -> @ \ {m.thread}
                 [] OTHER -> @]

Receive(a) ==
  /\ Open(a) /\ toClient[a] # <<>>
  /\ session' = [session EXCEPT ![a] = Observed(@, Head(toClient[a]))]
  /\ toClient' = [toClient EXCEPT ![a] = Tail(@)]
  /\ unseen' = IF session[a].draining \/ Head(toClient[a]).kind # "started" THEN unseen
               ELSE [unseen EXCEPT ![a] = {x \in @ : x[2] # Head(toClient[a]).turn}]
  /\ UNCHANGED <<phase, input, polled, toNative, running, owed, files>>

-----------------------------------------------------------------------------
(* The poll.                                                               *)

\* ReconnectSession.mark
Mark(o, a, status) == report' = [report EXCEPT ![o][a] = status]

\* The request concerns this session and it has not settled it.
Concerned(a) ==
  /\ Open(a) /\ ~session[a].draining
  /\ request # None
  /\ request.op \notin session[a].terminal
  /\ a \in request.targets

\* Mutant of Reason: requests do not expire.
ReasonUntimed(a) ==
  CASE request.cancelled -> "cancelled"
    [] request.automatic /\ a \in Vetoes -> "disabled"
    [] settings # request.settings -> "installation_changed"
    [] OTHER -> "none"

\* Why the session lets a request go.
Reason(a) ==
  CASE request.cancelled -> "cancelled"
    [] request.op \in expired -> "expired"
    [] request.automatic /\ a \in Vetoes -> "disabled"
    [] settings # request.settings -> "installation_changed"
    [] OTHER -> "none"

Decline(a) ==
  /\ Concerned(a) /\ Reason(a) # "none"
  /\ Mark(request.op, a, Reason(a))
  /\ session' = [session EXCEPT ![a].operation = request.op,
                                ![a].terminal = @ \cup {request.op}]
  /\ UNCHANGED <<phase, input, polled, pipes, request, command, settings, expired>>

\* Mutant of Nothing: a message in its preflight is not work.
NothingForwarded(a) ==
  LET s == session[a] IN
  s.ready /\ s.pending = {} /\ s.approvals = {} /\ s.active = {}

\* Nothing is under way.
Nothing(a) ==
  LET s == session[a] IN
  /\ s.ready /\ input[a] = NoMessage
  /\ s.pending = {} /\ s.approvals = {} /\ s.active = {}

\* The first look at the request: not now,
Wait(a) ==
  /\ Concerned(a) /\ Reason(a) = "none" /\ ~Nothing(a)
  /\ session' = [session EXCEPT ![a].operation = request.op]
  /\ UNCHANGED <<phase, input, polled, pipes, files>>

\* or yes, if the locks allow it.
Consider(a) ==
  /\ Concerned(a) /\ Reason(a) = "none" /\ Nothing(a)
  /\ session' = [session EXCEPT ![a].operation = request.op]
  /\ polled' = [polled EXCEPT ![a] = request]
  /\ UNCHANGED <<phase, input, pipes, files>>

\* The request as it is under both locks.
Current(a) ==
  /\ request = polled[a]
  /\ request.op \notin expired
  /\ settings = request.settings

\* Mutant of Drain: the request is not read again under the locks.
DrainStale(a) ==
  /\ polled[a] # None /\ phase[a] = "running"
  /\ command = NoCommand
  /\ session' = [session EXCEPT ![a].draining = TRUE]
  /\ Mark(polled[a].op, a, "shutting_down")
  /\ polled' = [polled EXCEPT ![a] = None]
  /\ UNCHANGED <<phase, input, pipes, request, command, settings, expired>>

Drain(a) ==
  /\ polled[a] # None /\ phase[a] = "running"
  /\ command = NoCommand /\ Current(a)
  /\ session' = [session EXCEPT ![a].draining = TRUE]
  /\ Mark(polled[a].op, a, "shutting_down")
  /\ polled' = [polled EXCEPT ![a] = None]
  /\ UNCHANGED <<phase, input, pipes, request, command, settings, expired>>

\* The request changed, a lock is taken, or the receipt cannot be written or
\* not published: the session goes on as before.
Retreat(a) ==
  /\ polled[a] # None /\ phase[a] = "running"
  /\ polled' = [polled EXCEPT ![a] = None]
  /\ \/ UNCHANGED report
     \/ command = NoCommand /\ Current(a) /\ Mark(polled[a].op, a, "shutting_down")
  /\ UNCHANGED <<phase, session, input, pipes, request, command, settings, expired>>

-----------------------------------------------------------------------------
(* The end of a connection.                                                *)

\* The app server ends: stopped by a draining session, or for another reason.
Stop(a) ==
  /\ Open(a)
  /\ phase' = [phase EXCEPT ![a] = "stopped"]
  /\ running' = [running EXCEPT ![a] = {}]
  /\ unseen' = [unseen EXCEPT ![a] = {}]
  /\ owed' = [owed EXCEPT ![a] = {}]
  /\ toNative' = [toNative EXCEPT ![a] = <<>>]
  /\ toClient' = [toClient EXCEPT ![a] = <<>>]
  /\ input' = [input EXCEPT ![a] = NoMessage]
  /\ UNCHANGED <<session, polled, files>>

\* ReconnectSession.finish
Finish(a) ==
  /\ phase[a] = "stopped"
  /\ phase' = [phase EXCEPT ![a] = "gone"]
  /\ \/ session[a].draining /\ Mark(session[a].operation, a, "closed")
     \/ UNCHANGED report
  /\ UNCHANGED <<session, input, polled, pipes, request, command, settings, expired>>

\* The adapter is killed.
Die(a) ==
  /\ phase[a] = "running"
  /\ phase' = [phase EXCEPT ![a] = "gone"]
  /\ polled' = [polled EXCEPT ![a] = None]
  /\ input' = [input EXCEPT ![a] = NoMessage]
  /\ running' = [running EXCEPT ![a] = {}]
  /\ unseen' = [unseen EXCEPT ![a] = {}]
  /\ owed' = [owed EXCEPT ![a] = {}]
  /\ toNative' = [toNative EXCEPT ![a] = <<>>]
  /\ toClient' = [toClient EXCEPT ![a] = <<>>]
  /\ UNCHANGED <<session, files>>

-----------------------------------------------------------------------------
CommandStep ==
  \/ \E o \in Op, T \in SUBSET Adapter, automatic \in BOOLEAN : ArmReport(o, T, automatic)
  \/ ArmRequest \/ CancelRequest \/ CancelReport \/ CommandDies
  \/ \E r \in Release : Setup(r)
  \/ \E o \in Op : Expire(o)

NativeStep(a) ==
  \/ NativeRead(a) \/ \E m \in owed[a] : NativeReply(a, m)
  \/ \E t \in Thread : NativeIdle(a, t)
  \/ \E t \in Thread, u \in Turn, kind \in {"started", "ask", "completed"} :
       NativeTurn(a, t, u, kind)

AdapterStep(a) ==
  \/ \E m \in ClientMessages(a) : Begin(a, m)
  \/ Reject(a) \/ Forward(a) \/ Receive(a)
  \/ Decline(a) \/ Wait(a) \/ Consider(a) \/ Drain(a) \/ Retreat(a)
  \/ Stop(a) \/ Finish(a) \/ Die(a)

Next == CommandStep \/ \E a \in Adapter : NativeStep(a) \/ AdapterStep(a)

Spec == Init /\ [][Next]_vars

\* The output thread polls every 0.2 s, time passes, a draining connection is
\* killed after 5 s.  A poll meets the lock now and then, so its decision
\* needs strong fairness.
Fairness ==
  /\ \A a \in Adapter :
       /\ WF_vars(Decline(a)) /\ WF_vars(Consider(a))
       /\ SF_vars(Drain(a)) /\ WF_vars(Retreat(a))
       /\ WF_vars(session[a].draining /\ Stop(a)) /\ WF_vars(Finish(a))
  /\ \A o \in Op : WF_vars(Expire(o))

FairSpec == Spec /\ Fairness

-----------------------------------------------------------------------------
(* Properties.                                                             *)

\* "Active turns and approvals are allowed to finish instead of
\* force-restarting work" (README.md:54): while a session drains, the app
\* server runs no turn.
TurnsFinish ==
  \A a \in Adapter : phase[a] = "running" /\ session[a].draining => running[a] = {}

\* What is true of it: while a session drains, the app server owes no answer, no
\* request of the client is on its way, and none is let in; only an answer to an
\* approval that the turn no longer waited for may be. It runs no turn that turn/start
\* started, and no other one of whose start the session could have known when it
\* began to drain (poll_checked's idle test against input, client and native).
WorkIsFinished ==
  \A a \in Adapter : phase[a] = "running" /\ session[a].draining =>
    /\ running[a] \subseteq unseen[a] /\ owed[a] = {}
    /\ input[a] = NoMessage
    /\ \A i \in DOMAIN toNative[a] :
          toNative[a][i].kind \notin {"turn", "shell", "request"}

\* The report tells the truth whatever command, other operation, failed
\* receipt or crash comes between: a target reported as let go is not
\* shutting down for that operation, one reported closed has ended
\* (cancel's and mark's updates, the second look under .reconnect.lock).
ReportIsTrue ==
  \A o \in Op, a \in Adapter :
    LET drains == session[a].draining /\ session[a].operation = o IN
    /\ report[o][a] \in Reasons => ~drains
    /\ report[o][a] = "closed" => phase[a] = "gone" /\ drains

\* "Cancelling or activating another release cannot race the shutdown
\* boundary" (codex_desktop.py:1201): a target that was let go, by its own
\* adapter or by a cancel that has been reported to the user, never shuts
\* down for that operation afterwards.
LetGoIsFinal ==
  [][\A o \in Op, a \in Adapter :
       report[o][a] \in Reasons => report'[o][a] \in Reasons]_vars

\* Request o is armed and target a has not answered it.
Asked(o, a) == request # None /\ request.op = o /\ report[o][a] = "pending"

\* An armed request is not forgotten: every target answers it, ends, or is
\* given another one, though it may be busy for ever and locks may be taken
\* ("Busy requests expire rather than force-interrupting work").
RequestIsAnswered ==
  \A o \in Op, a \in Adapter :
    Asked(o, a) ~> (~Asked(o, a) \/ phase[a] # "running")
=============================================================================
