------------------------ MODULE DesktopReconnectProofs ------------------------
(***************************************************************************)
(* Results for any number of adapters, chats, turns, requests and          *)
(* operations, pipes of any length, and whatever command, adapter or app   *)
(* server dies at whatever step.                                           *)
(***************************************************************************)
EXTENDS DesktopReconnect, TLAPS

-----------------------------------------------------------------------------
(* The type invariant, with what is known of the messages under way, of    *)
(* the command's operation, and of the one a session is about to drain for. *)

IsRequest(m) == m.kind \in {"turn", "shell", "request"}
Formed ==
  {m \in Messages :
     /\ IsRequest(m) => m.call \in Call
     /\ m.kind \in {"turn", "shell"} => m.thread \in Thread
     /\ m.kind \in {"started", "ask", "completed"} => m.thread \in Thread /\ m.turn \in Turn}

TypedSession ==
  /\ phase \in [Adapter -> {"running", "stopped", "gone"}]
  /\ session \in [Adapter -> Session]
  /\ polled \in [Adapter -> Maybe(Request)]
  /\ \A a \in Adapter :
       session[a].draining \/ polled[a] # None => session[a].operation \in Op
TypedPipes ==
  /\ input \in [Adapter -> Formed]
  /\ toNative \in [Adapter -> Seq(Formed)]
  /\ toClient \in [Adapter -> Seq(Formed)]
  /\ running \in [Adapter -> SUBSET (Thread \X Turn)]
  /\ unseen \in [Adapter -> SUBSET (Thread \X Turn)]
  /\ owed \in [Adapter -> SUBSET Formed]
TypedFiles ==
  /\ request \in Maybe(Request)
  /\ report \in [Op -> [Adapter -> Status]]
  /\ command \in Command
  /\ command.kind # "none" => command.op \in Op
  /\ settings \in Release
  /\ expired \in SUBSET Op
Typed == TypedSession /\ TypedPipes /\ TypedFiles

-----------------------------------------------------------------------------
(* What a report may say (ReportIsTrue, LetGoIsFinal).                     *)

\* A session that drains told its report so before, and one that did not may
\* be looking at a request it has neither settled nor seen cancelled.
Draining(a) ==
  /\ session[a].draining =>
       report[session[a].operation][a] \in {"shutting_down", "closed"}
  /\ polled[a] # None =>
       /\ phase[a] = "running" /\ ~session[a].draining
       /\ session[a].operation = polled[a].op
       /\ ~polled[a].cancelled /\ polled[a].op \notin session[a].terminal

Closed(o, a) ==
  report[o][a] = "closed" =>
    phase[a] = "gone" /\ session[a].draining /\ session[a].operation = o

\* A target was let go by itself, or by a cancel: then the request of that
\* operation is a cancelled one for good.
LetGo(o, a) ==
  (/\ report[o][a] \in Reasons
   /\ o \notin session[a].terminal
   /\ request # None /\ request.op = o)
  => request.cancelled

\* What the command has under way.
Arming ==
  command.kind = "arm" =>
    /\ request # None => request.op # command.op
    /\ \E a \in Adapter : report[command.op][a] # "none"
    /\ \A a \in Adapter : report[command.op][a] \notin Reasons
Cancelling ==
  command.kind = "cancel" /\ request # None =>
    request.op = command.op /\ request.cancelled
Armed == request # None => \E a \in Adapter : report[request.op][a] # "none"

InvReports ==
  /\ \A a \in Adapter : Draining(a)
  /\ \A o \in Op, a \in Adapter : Closed(o, a) /\ LetGo(o, a)
  /\ Arming /\ Cancelling /\ Armed

-----------------------------------------------------------------------------
(* What is under way is in the books (WorkIsFinished).                     *)

IsAnswer(m) == m.kind \in {"reply", "error"}
Ends(m, t) == m.kind \in {"completed", "idle"} /\ m.thread = t

\* The answer m is one the books wait for.
Waits(s, m) ==
  \E e \in s.pending : e.call = m.call /\ (m.turn # None => e.thread = m.thread)

\* Every request that was forwarded waits for its answer.
Entered(s, ahead, now, back) ==
  /\ \A i \in DOMAIN ahead : IsRequest(ahead[i]) =>
       Entry(ahead[i]) \in s.pending
  /\ \A m \in now : IsAnswer(m) /\ Waits(s, m)
  /\ \A i \in DOMAIN back : IsAnswer(back[i]) => Waits(s, back[i])

\* A call is at one place: on its way, with the app server, or on its way back.
CallsOnce(ahead, now, back) ==
  /\ \A i, j \in DOMAIN ahead :
       IsRequest(ahead[i]) /\ IsRequest(ahead[j]) /\ ahead[i].call = ahead[j].call => i = j
  /\ \A m, n \in now : m.call = n.call => m = n
  /\ \A i, j \in DOMAIN back :
       IsAnswer(back[i]) /\ IsAnswer(back[j]) /\ back[i].call = back[j].call => i = j
  /\ \A i \in DOMAIN ahead, m \in now : IsRequest(ahead[i]) => ahead[i].call # m.call
  /\ \A i \in DOMAIN ahead, j \in DOMAIN back :
       IsRequest(ahead[i]) /\ IsAnswer(back[j]) => ahead[i].call # back[j].call
  /\ \A m \in now, j \in DOMAIN back : IsAnswer(back[j]) => m.call # back[j].call

\* The call the input thread holds is a new one.
New(s, m) == IsRequest(m) => \A e \in s.pending : e.call # m.call

\* A running turn is the only one of its thread, and not known as completed.
Turned(s, run, back) ==
  /\ \A x, y \in run : x[1] = y[1] \/ x[2] = y[2] => x = y
  /\ \A x \in run : x[2] \notin s.completed
  /\ \A x \in run, i \in DOMAIN back : back[i].kind = "completed" => back[i].turn # x[2]

\* An announcement on its way is of its thread, and nothing behind it ends it.
Announces(m, x) == m.kind = "started" /\ m.turn = x[2]
Announced(run, back) ==
  \A x \in run, i \in DOMAIN back : Announces(back[i], x) =>
    back[i].thread = x[1] /\ \A j \in DOMAIN back : j > i => ~Ends(back[j], x[1])

\* Unless its start is hidden from the session, its thread is known as active, or
\* will be by an answer to come, and nothing behind that answer ends it.
StartOf(m, x) == m.kind = "reply" /\ m.thread = x[1] /\ m.turn = x[2]
Known(s, now, back, x) ==
  \/ \E m \in now : StartOf(m, x)
  \/ \E i \in DOMAIN back : StartOf(back[i], x) /\ \A j \in DOMAIN back : j > i => ~Ends(back[j], x[1])
  \/ x[1] \in s.active /\ \A j \in DOMAIN back : ~Ends(back[j], x[1])

\* Nothing that the session could know is under way with the app server or on the
\* way to it.
Idle(m, ahead, run, hid, now) ==
  /\ run \subseteq hid /\ now = {} /\ m = NoMessage
  /\ \A i \in DOMAIN ahead : ~IsRequest(ahead[i])

Books(s, m, ahead, run, hid, now, back) ==
  /\ Entered(s, ahead, now, back)
  /\ CallsOnce(ahead, now, back)
  /\ New(s, m)
  /\ Turned(s, run, back) /\ Announced(run, back)
  /\ \A x \in run \ hid : Known(s, now, back, x)

InBooks(a) == Books(session[a], input[a], toNative[a], running[a], unseen[a], owed[a], toClient[a])
Rests(a) ==
  phase[a] = "running" /\ (session[a].draining \/ polled[a] # None)
    => Idle(input[a], toNative[a], running[a], unseen[a], owed[a])

InvWork == \A a \in Adapter : InBooks(a) /\ Rests(a)

-----------------------------------------------------------------------------
(* Types.                                                                  *)

LEMMA SeqWiden == ASSUME NEW S, NEW U, S \subseteq U, NEW s \in Seq(S) PROVE s \in Seq(U)
OBVIOUS

LEMMA Typing == Typed => TypeOK
<1> SUFFICES ASSUME Typed PROVE TypeOK
  OBVIOUS
<1>1. Formed \subseteq Messages
  BY DEF Formed
<1>2. toNative \in [Adapter -> Seq(Messages)] /\ toClient \in [Adapter -> Seq(Messages)]
  <2>1. ASSUME NEW a \in Adapter
        PROVE  toNative[a] \in Seq(Messages) /\ toClient[a] \in Seq(Messages)
    <3>1. toNative[a] \in Seq(Formed) /\ toClient[a] \in Seq(Formed)
      BY DEF Typed, TypedPipes
    <3> QED BY <1>1, <3>1, SeqWiden
  <2> QED BY <2>1 DEF Typed, TypedPipes
<1>3. input \in [Adapter -> Messages] /\ owed \in [Adapter -> SUBSET Messages]
  BY <1>1 DEF Typed, TypedPipes
<1> QED BY <1>2, <1>3 DEF Typed, TypedSession, TypedPipes, TypedFiles, TypeOK

LEMMA MessageType ==
  ASSUME NEW kind \in {"none", "initialized", "turn", "shell", "request", "answer", "reply",
                       "error", "started", "completed", "ask", "idle"},
         NEW c \in Maybe(Call), NEW t \in Maybe(Thread), NEW u \in Maybe(Turn),
         kind \in {"turn", "shell", "request"} => c \in Call,
         kind \in {"turn", "shell"} => t \in Thread,
         kind \in {"started", "ask", "completed"} => t \in Thread /\ u \in Turn
  PROVE  Message(kind, c, t, u) \in Formed
BY DEF Message, Messages, Formed, IsRequest

LEMMA SeenType ==
  ASSUME NEW s \in Session, NEW m \in Formed
  PROVE  /\ Seen(s, m) \in Session
         /\ Seen(s, m).draining = s.draining /\ Seen(s, m).operation = s.operation
         /\ Seen(s, m).terminal = s.terminal
<1>1. IsRequest(m) => Entry(m) \in Expected
  BY DEF Formed, Messages, Expected, Entry, Maybe
<1> QED BY <1>1 DEF Seen, Session, IsRequest

LEMMA ObservedType ==
  ASSUME NEW s \in Session, NEW m \in Formed
  PROVE  /\ Observed(s, m) \in Session
         /\ Observed(s, m).draining = s.draining /\ Observed(s, m).operation = s.operation
         /\ Observed(s, m).terminal = s.terminal
<1> DEFINE started == {e.thread : e \in {e \in s.pending : e.call = m.call}} \ {None}
<1>1. started \subseteq Thread
  BY DEF Session, Expected, Maybe
<1> HIDE DEF started
<1>2. Observed(s, m).pending \in SUBSET Expected
  BY DEF Observed, Session
<1>3. Observed(s, m).approvals \in SUBSET Turn
  BY DEF Observed, Session, Formed
<1>4. Observed(s, m).completed \in SUBSET Turn
  BY DEF Observed, Session, Formed
<1>5. Observed(s, m).active \in SUBSET Thread
  BY <1>1 DEF Observed, Session, started, Formed
<1>6. Observed(s, m) = [s EXCEPT !.pending = Observed(s, m).pending,
                                 !.approvals = Observed(s, m).approvals,
                                 !.completed = Observed(s, m).completed,
                                 !.active = Observed(s, m).active]
  BY DEF Observed, Session
<1> QED BY <1>2, <1>3, <1>4, <1>5, <1>6 DEF Session

LEMMA InitTyped == Init => Typed
<1> SUFFICES ASSUME Init PROVE Typed
  OBVIOUS
<1>1. Fresh \in Session
  BY DEF Fresh, Session, Maybe
<1>2. NoMessage \in Formed
  BY MessageType DEF NoMessage, Maybe
<1>3. TypedSession
  BY <1>1 DEF Init, TypedSession, Maybe, Fresh
<1>4. TypedPipes
  BY <1>2 DEF Init, TypedPipes
<1>5. TypedFiles
  BY DEF Init, TypedFiles, Maybe, Command, NoCommand, Status
<1> QED BY <1>3, <1>4, <1>5 DEF Typed

LEMMA ReasonType ==
  ASSUME NEW a \in Adapter, Reason(a) # "none" PROVE Reason(a) \in Reasons
BY DEF Reason, Reasons

LEMMA MarkType ==
  ASSUME TypedFiles, NEW o \in Op, NEW a \in Adapter, NEW status \in Status, Mark(o, a, status)
  PROVE  /\ report' \in [Op -> [Adapter -> Status]]
         /\ report'[o][a] = status
         /\ \A p \in Op, b \in Adapter : p # o \/ b # a => report'[p][b] = report[p][b]
BY DEF TypedFiles, Mark

\* The steps of the command.
LEMMA CommandTyped == Typed /\ CommandStep => Typed'
<1> SUFFICES ASSUME Typed, CommandStep PROVE Typed'
  OBVIOUS
<1> USE DEF Typed
<1>0. TypedFiles
  OBVIOUS
<1>1. ASSUME NEW o \in Op, NEW T \in SUBSET Adapter, NEW automatic \in BOOLEAN,
             ArmReport(o, T, automatic)
      PROVE  TypedFiles'
  <2>1. command' \in Command /\ command'.op \in Op
    BY <1>1 DEF ArmReport, Command, Maybe
  <2>2. report' \in [Op -> [Adapter -> Status]]
    BY <1>0, <1>1 DEF ArmReport, TypedFiles, Status
  <2> QED BY <1>0, <1>1, <2>1, <2>2 DEF ArmReport, TypedFiles
<1>a. NoCommand \in Command /\ NoCommand.kind = "none"
  BY DEF NoCommand, Command, Maybe
<1>2. ASSUME ArmRequest PROVE TypedFiles'
  <2>1. request' \in Request
    BY <1>0, <1>2 DEF ArmRequest, TypedFiles, Request, Command
  <2> QED BY <1>0, <1>a, <1>2, <2>1 DEF ArmRequest, TypedFiles, Maybe
<1>3. ASSUME CancelRequest PROVE TypedFiles'
  <2>1. request \in Request
    BY <1>0, <1>3 DEF CancelRequest, TypedFiles, Maybe
  <2>2. request' \in Request
    BY <1>3, <2>1 DEF CancelRequest, Request
  <2>3. request.op \in Op
    BY <2>1 DEF Request
  <2>4. command' \in Command /\ command'.op \in Op
    BY <1>3, <2>3 DEF CancelRequest, Command, NoCommand, Maybe
  <2> QED BY <1>0, <1>3, <2>2, <2>4 DEF CancelRequest, TypedFiles, Maybe
<1>4. ASSUME CancelReport PROVE TypedFiles'
  <2>1. report' \in [Op -> [Adapter -> Status]]
    BY <1>0, <1>4 DEF CancelReport, TypedFiles, Status, Reasons
  <2> QED BY <1>0, <1>a, <1>4, <2>1 DEF CancelReport, TypedFiles
<1>5. ASSUME CommandDies PROVE TypedFiles'
  BY <1>0, <1>a, <1>5 DEF CommandDies, TypedFiles
<1>6. ASSUME NEW r \in Release, Setup(r) PROVE TypedFiles'
  BY <1>6 DEF Setup, TypedFiles
<1>7. ASSUME NEW o \in Op, Expire(o) PROVE TypedFiles'
  BY <1>7 DEF Expire, TypedFiles
<1>8. TypedFiles'
  BY <1>1, <1>2, <1>3, <1>4, <1>5, <1>6, <1>7 DEF CommandStep
<1>9. TypedSession' /\ TypedPipes'
  BY DEF CommandStep, ArmReport, ArmRequest, CancelRequest, CancelReport, CommandDies, Setup, Expire,
     TypedSession, TypedPipes, pipes
<1> QED BY <1>8, <1>9

-----------------------------------------------------------------------------
(* What each step of an adapter or of the app server leaves alone.         *)

\* The steps of the app server, and those of the adapter that touch the pipes.
LEMMA PipeStepsTyped ==
  ASSUME Typed, NEW a \in Adapter,
         \/ NativeStep(a) \/ \E m \in ClientMessages(a) : Begin(a, m)
         \/ Reject(a) \/ Forward(a) \/ Receive(a)
  PROVE  Typed'
<1> USE DEF Typed
<1>0. TypedSession /\ TypedPipes /\ TypedFiles
  OBVIOUS
<1>1. ASSUME NEW m \in ClientMessages(a), Begin(a, m) PROVE Typed'
  <2>1. m \in Formed
    <3>1. session[a].approvals \subseteq Turn
      BY <1>0 DEF TypedSession, Session
    <3>2. /\ m.kind \in {"turn", "shell", "request", "answer", "initialized"}
          /\ m.kind \in {"turn", "shell"} => m.thread \in Thread
          /\ IsRequest(m) => m.call \in Call
          /\ m \in Messages
      <4>1. CASE m \in {Message(kind, c, t, None) : kind \in {"turn", "shell"}, c \in Call, t \in Thread}
        BY <4>1 DEF Message, Messages, Maybe, IsRequest
      <4>2. CASE m \in {Message("request", c, None, None) : c \in Call}
        BY <4>2 DEF Message, Messages, Maybe, IsRequest
      <4>3. CASE m \in {Message("answer", None, None, u) : u \in Turn}
        BY <4>3 DEF Message, Messages, Maybe, IsRequest
      <4>4. CASE m = Message("initialized", None, None, None)
        BY <4>4 DEF Message, Messages, Maybe, IsRequest
      <4> QED BY <3>1, <4>1, <4>2, <4>3, <4>4 DEF ClientMessages
    <3> QED BY <3>2 DEF Formed
  <2>2. TypedPipes'
    BY <1>0, <1>1, <2>1 DEF TypedPipes, Begin, pipes
  <2> QED BY <1>0, <1>1, <2>2 DEF TypedSession, TypedFiles, Begin, files
<1>2. NoMessage \in Formed
  BY MessageType DEF NoMessage, Maybe
<1>3. CASE Reject(a)
  <2>1. TypedPipes'
    BY <1>0, <1>2, <1>3 DEF TypedPipes, Reject, pipes
  <2> QED BY <1>0, <1>3, <2>1 DEF TypedSession, TypedFiles, Reject, files
<1>4. CASE Forward(a)
  <2>1. input[a] \in Formed /\ session[a] \in Session
    BY <1>0 DEF TypedPipes, TypedSession
  <2>2. toNative' \in [Adapter -> Seq(Formed)] /\ input' \in [Adapter -> Formed]
    BY <1>0, <1>2, <1>4, <2>1 DEF TypedPipes, Forward
  <2>3. /\ session' \in [Adapter -> Session]
        /\ \A b \in Adapter : session'[b].draining = session[b].draining
                              /\ session'[b].operation = session[b].operation
    BY <1>0, <1>4, <2>1, SeenType DEF TypedSession, Forward
  <2> QED BY <1>0, <1>4, <2>2, <2>3 DEF TypedSession, TypedPipes, TypedFiles, Forward, files
<1>5. CASE Receive(a)
  <2>1. Head(toClient[a]) \in Formed /\ session[a] \in Session
    BY <1>0, <1>5 DEF TypedPipes, TypedSession, Receive
  <2>2. toClient' \in [Adapter -> Seq(Formed)]
    BY <1>0, <1>5 DEF TypedPipes, Receive
  <2>3. /\ session' \in [Adapter -> Session]
        /\ \A b \in Adapter : session'[b].draining = session[b].draining
                              /\ session'[b].operation = session[b].operation
    BY <1>0, <1>5, <2>1, ObservedType DEF TypedSession, Receive
  <2> QED BY <1>0, <1>5, <2>2, <2>3 DEF TypedSession, TypedPipes, TypedFiles, Receive, files
<1>6. CASE NativeStep(a)
  <2>1. UNCHANGED <<phase, session, input, polled, files>>
    BY <1>6 DEF NativeStep, NativeRead, NativeReply, NativeTurn, NativeIdle
  <2>2. TypedPipes'
    <3>1. CASE NativeRead(a)
      <4>1. Head(toNative[a]) \in Formed /\ Tail(toNative[a]) \in Seq(Formed)
        BY <1>0, <3>1 DEF TypedPipes, NativeRead
      <4>2. PICK m \in Formed : m = Head(toNative[a])
        BY <4>1
      <4>3. /\ IsRequest(m) => m.call \in Maybe(Call)
            /\ m.kind \in {"turn", "shell"} => m.thread \in Thread
        BY DEF Formed, IsRequest, Maybe
      <4>4. ASSUME NEW u \in Turn, m.kind = "turn"
            PROVE  Message("reply", m.call, m.thread, u) \in Formed
        BY <4>3, <4>4, MessageType DEF Maybe, IsRequest
      <4>5. ASSUME NEW kind \in {"reply", "error"}, IsRequest(m)
            PROVE  Message(kind, m.call, None, None) \in Formed
        BY <4>3, <4>5, MessageType DEF Maybe
      <4>6. /\ \/ running' = running
               \/ m.kind \in {"turn", "shell"} /\ \E u \in Turn :
                    running' = [running EXCEPT ![a] = @ \cup {<<m.thread, u>>}]
            /\ \/ unseen' = unseen
               \/ m.kind \in {"turn", "shell"} /\ \E u \in Turn :
                    unseen' = [unseen EXCEPT ![a] = @ \cup {<<m.thread, u>>}]
            /\ owed' = owed \/ \E n \in Formed : owed' = [owed EXCEPT ![a] = @ \cup {n}]
        <5>1. CASE m.kind = "turn" /\ UNCHANGED unseen /\ \E u \in Turn :
                 /\ running' = [running EXCEPT ![a] = @ \cup {<<m.thread, u>>}]
                 /\ owed' = [owed EXCEPT ![a] = @ \cup {Message("reply", m.call, m.thread, u)}]
          BY <5>1, <4>4
        <5>2. CASE /\ m.kind = "shell"
                   /\ \E u \in Turn :
                        /\ running' = [running EXCEPT ![a] = @ \cup {<<m.thread, u>>}]
                        /\ unseen' = [unseen EXCEPT ![a] = @ \cup {<<m.thread, u>>}]
                   /\ owed' = [owed EXCEPT ![a] = @ \cup {Message("reply", m.call, None, None)}]
          BY <5>2, <4>5 DEF IsRequest
        <5>3. CASE /\ IsRequest(m)
                   /\ owed' = [owed EXCEPT ![a] = @ \cup
                        {Message(IF m.kind = "request" THEN "reply" ELSE "error", m.call, None, None)}]
                   /\ UNCHANGED <<running, unseen>>
          BY <5>3, <4>5
        <5>4. CASE UNCHANGED <<running, owed, unseen>>
          BY <5>4
        <5> QED BY <3>1, <4>2, <5>1, <5>2, <5>3, <5>4 DEF NativeRead, IsRequest
      <4>7. /\ owed' \in [Adapter -> SUBSET Formed]
            /\ running' \in [Adapter -> SUBSET (Thread \X Turn)]
            /\ unseen' \in [Adapter -> SUBSET (Thread \X Turn)]
        <5>1. /\ owed \in [Adapter -> SUBSET Formed]
              /\ running \in [Adapter -> SUBSET (Thread \X Turn)]
              /\ unseen \in [Adapter -> SUBSET (Thread \X Turn)]
          BY <1>0 DEF TypedPipes
        <5>2. owed' \in [Adapter -> SUBSET Formed]
          BY <4>6, <5>1
        <5>3. ASSUME NEW u \in Turn, m.kind \in {"turn", "shell"}
              PROVE  <<m.thread, u>> \in Thread \X Turn
          BY <4>3, <5>3
        <5>4. running' \in [Adapter -> SUBSET (Thread \X Turn)]
          BY <4>6, <5>1, <5>3
        <5>5. unseen' \in [Adapter -> SUBSET (Thread \X Turn)]
          BY <4>6, <5>1, <5>3
        <5> QED BY <5>2, <5>4, <5>5
      <4> QED BY <1>0, <2>1, <3>1, <4>1, <4>7 DEF TypedPipes, NativeRead
    <3>2. ASSUME NEW m \in owed[a], NativeReply(a, m) PROVE TypedPipes'
      BY <1>0, <3>2 DEF TypedPipes, NativeReply, Writes
    <3>3. ASSUME NEW t \in Thread, NEW u \in Turn, NEW kind \in {"started", "ask", "completed"},
                 NativeTurn(a, t, u, kind)
          PROVE  TypedPipes'
      <4>1. Message(kind, None, t, u) \in Formed
        BY <3>3, MessageType DEF Maybe
      <4> QED BY <1>0, <3>3, <4>1 DEF TypedPipes, NativeTurn, Writes
    <3>4. ASSUME NEW t \in Thread, NativeIdle(a, t) PROVE TypedPipes'
      <4>1. Message("idle", None, t, None) \in Formed
        BY MessageType DEF Maybe
      <4> QED BY <1>0, <3>4, <4>1 DEF TypedPipes, NativeIdle, Writes
    <3> QED BY <1>6, <3>1, <3>2, <3>3, <3>4 DEF NativeStep
  <2> QED BY <1>0, <2>1, <2>2 DEF TypedSession, TypedFiles, files
<1> QED BY <1>1, <1>3, <1>4, <1>5, <1>6

\* The steps of the poll and of the end of a connection.
LEMMA PollStepsTyped ==
  ASSUME Typed, NEW a \in Adapter,
         \/ Decline(a) \/ Wait(a) \/ Consider(a) \/ Drain(a) \/ Retreat(a)
         \/ Stop(a) \/ Finish(a) \/ Die(a)
  PROVE  Typed'
<1> USE DEF Typed
<1>0. TypedSession /\ TypedPipes /\ TypedFiles /\ session[a] \in Session
  BY DEF TypedSession
<1>1. Concerned(a) => request.op \in Op
  BY <1>0 DEF Concerned, TypedFiles, Maybe, Request
<1>2. polled[a] # None => polled[a] \in Request /\ polled[a].op \in Op
  BY <1>0 DEF TypedSession, Maybe, Request
<1>3. CASE Decline(a)
  <2>1. Concerned(a) /\ Reason(a) \in Status
    BY <1>3, ReasonType DEF Decline, Status
  <2>2. report' \in [Op -> [Adapter -> Status]]
    BY <1>0, <1>1, <1>3, <2>1, MarkType DEF Decline
  <2>3. [session[a] EXCEPT !.operation = request.op, !.terminal = @ \cup {request.op}] \in Session
    BY <1>0, <1>1, <2>1 DEF Session, Maybe
  <2>4. session' \in [Adapter -> Session]
    BY <1>0, <1>3, <2>3 DEF Decline, TypedSession
  <2>5. \A b \in Adapter : /\ session'[b].draining = session[b].draining
                           /\ session'[b].operation \in {session[b].operation, request.op}
    BY <1>0, <1>3 DEF Decline, TypedSession, Session
  <2> QED BY <1>0, <1>1, <1>3, <2>1, <2>2, <2>4, <2>5
          DEF TypedSession, TypedPipes, TypedFiles, Decline, pipes
<1>4. CASE Wait(a) \/ Consider(a)
  <2>1. Concerned(a) /\ session' = [session EXCEPT ![a].operation = request.op]
    BY <1>4 DEF Wait, Consider
  <2>2. [session[a] EXCEPT !.operation = request.op] \in Session
    BY <1>0, <1>1, <2>1 DEF Session, Maybe
  <2>3. session' \in [Adapter -> Session]
    BY <1>0, <2>1, <2>2 DEF TypedSession
  <2>4. /\ \A b \in Adapter : session'[b].draining = session[b].draining
        /\ \A b \in Adapter : b # a => session'[b].operation = session[b].operation
        /\ session'[a].operation = request.op
    BY <1>0, <2>1 DEF TypedSession, Session
  <2>5. /\ polled' \in [Adapter -> Maybe(Request)]
        /\ \A b \in Adapter : b # a => polled'[b] = polled[b]
    BY <1>0, <1>4, <2>1 DEF Wait, Consider, TypedSession, TypedFiles, Concerned
  <2>6. TypedSession'
    BY <1>0, <1>1, <1>4, <2>1, <2>3, <2>4, <2>5 DEF TypedSession, Wait, Consider
  <2> QED BY <1>0, <1>4, <2>6 DEF TypedPipes, TypedFiles, Wait, Consider, pipes, files
<1>5. CASE Drain(a)
  <2>1. report' \in [Op -> [Adapter -> Status]]
    BY <1>0, <1>2, <1>5, MarkType DEF Drain, Status
  <2>2. session' \in [Adapter -> Session] /\ polled' \in [Adapter -> Maybe(Request)]
    BY <1>0, <1>5 DEF Drain, TypedSession, Session, Maybe
  <2>3. \A b \in Adapter : /\ session'[b].operation = session[b].operation
                           /\ b # a => session'[b] = session[b] /\ polled'[b] = polled[b]
    BY <1>0, <1>5 DEF Drain, TypedSession, Session
  <2>4. TypedSession'
    BY <1>0, <1>5, <2>2, <2>3 DEF TypedSession, Drain
  <2> QED BY <1>0, <1>5, <2>1, <2>4 DEF TypedPipes, TypedFiles, Drain, pipes
<1>6. CASE Retreat(a)
  <2>1. report' \in [Op -> [Adapter -> Status]]
    BY <1>0, <1>2, <1>6, MarkType DEF Retreat, Status, TypedFiles
  <2> QED BY <1>0, <1>6, <2>1 DEF TypedSession, TypedPipes, TypedFiles, Retreat, pipes, Maybe
<1>7. NoMessage \in Formed
  BY MessageType DEF NoMessage, Maybe
<1>8. CASE Stop(a) \/ Die(a)
  <2>1. TypedPipes'
    <3>1. /\ running' = [running EXCEPT ![a] = {}] /\ owed' = [owed EXCEPT ![a] = {}]
          /\ unseen' = [unseen EXCEPT ![a] = {}]
          /\ toNative' = [toNative EXCEPT ![a] = <<>>] /\ toClient' = [toClient EXCEPT ![a] = <<>>]
          /\ input' = [input EXCEPT ![a] = NoMessage]
      BY <1>8 DEF Stop, Die
    <3> QED BY <1>0, <1>7, <3>1 DEF TypedPipes
  <2>2. TypedSession'
    BY <1>0, <1>8 DEF TypedSession, Stop, Die, Maybe
  <2> QED BY <1>0, <1>8, <2>1, <2>2 DEF TypedFiles, Stop, Die, files
<1>9. CASE Finish(a)
  <2>1. report' \in [Op -> [Adapter -> Status]]
    BY <1>0, <1>9, MarkType DEF Finish, TypedSession, Status, TypedFiles
  <2> QED BY <1>0, <1>9, <2>1 DEF TypedSession, TypedPipes, TypedFiles, Finish, pipes
<1> QED BY <1>3, <1>4, <1>5, <1>6, <1>8, <1>9

LEMMA NextTyped == Typed /\ [Next]_vars => Typed'
<1> SUFFICES ASSUME Typed, [Next]_vars PROVE Typed'
  OBVIOUS
<1>1. CASE UNCHANGED vars
  BY <1>1 DEF vars, pipes, files, Typed, TypedSession, TypedPipes, TypedFiles
<1>2. ASSUME NEW a \in Adapter, NativeStep(a) \/ AdapterStep(a) PROVE Typed'
  BY <1>2, PipeStepsTyped, PollStepsTyped DEF AdapterStep
<1> QED BY <1>1, <1>2, CommandTyped DEF Next

\* The books, the pipes and the files always have the form the code gives them.
THEOREM ReconnectTypes == Spec => []TypeOK
BY InitTyped, NextTyped, Typing, PTL DEF Spec


-----------------------------------------------------------------------------
(* The report.                                                             *)

LEMMA InitReports == Init => InvReports
BY DEF Init, InvReports, Draining, Closed, LetGo, Arming, Cancelling, Armed, Fresh, NoCommand, Reasons

\* No step of the command touches a session; only CancelReport lets targets go.
LEMMA CommandReports ==
  ASSUME Typed, InvReports, CommandStep PROVE InvReports'
<1>a. /\ \A a \in Adapter : Draining(a)
      /\ \A o \in Op, a \in Adapter : Closed(o, a) /\ LetGo(o, a)
      /\ Arming /\ Cancelling /\ Armed
  BY DEF InvReports
<1>0. /\ TypedFiles /\ TypedSession
      /\ request # None => request.op \in Op
      /\ \A a \in Adapter : polled[a] # None => polled[a].op \in Op
  BY DEF Typed, TypedFiles, TypedSession, Maybe, Request
<1>1. UNCHANGED <<phase, session, polled>>
  BY DEF CommandStep, ArmReport, ArmRequest, CancelRequest, CancelReport, CommandDies, Setup, Expire
<1>2. ASSUME NEW o \in Op, NEW T \in SUBSET Adapter, NEW automatic \in BOOLEAN,
             ArmReport(o, T, automatic)
      PROVE  InvReports'
  <2>1. /\ \A p \in Op, a \in Adapter : p # o => report'[p][a] = report[p][a]
        /\ \A a \in Adapter : report[o][a] = "none" /\ report'[o][a] \in {"none", "pending"}
        /\ \E a \in Adapter : report'[o][a] # "none"
    BY <1>0, <1>2 DEF ArmReport, TypedFiles
  <2>2. ASSUME NEW a \in Adapter PROVE Draining(a)'
    BY <1>a, <1>0, <1>1, <2>1 DEF Draining, TypedSession
  <2>3. ASSUME NEW p \in Op, NEW a \in Adapter PROVE Closed(p, a)' /\ LetGo(p, a)'
    BY <1>a, <1>1, <1>2, <2>1 DEF Closed, LetGo, ArmReport, Reasons
  <2>4. Arming' /\ Cancelling' /\ Armed'
    BY <1>a, <1>0, <1>2, <2>1 DEF Arming, Cancelling, Armed, ArmReport, Reasons
  <2> QED BY <2>2, <2>3, <2>4 DEF InvReports
<1>3. ASSUME ArmRequest PROVE InvReports'
  <2>1. UNCHANGED report /\ request'.op = command.op /\ command' = NoCommand /\ command.kind = "arm"
    BY <1>3 DEF ArmRequest
  <2>2. ASSUME NEW a \in Adapter PROVE Draining(a)'
    BY <1>a, <1>1, <2>1 DEF Draining
  <2>3. ASSUME NEW p \in Op, NEW a \in Adapter PROVE Closed(p, a)' /\ LetGo(p, a)'
    BY <1>a, <1>1, <2>1 DEF Closed, LetGo, Arming
  <2>4. Arming' /\ Cancelling' /\ Armed'
    BY <1>a, <2>1 DEF Arming, Cancelling, Armed, NoCommand
  <2> QED BY <2>2, <2>3, <2>4 DEF InvReports
<1>4. ASSUME CancelRequest PROVE InvReports'
  <2>1. /\ UNCHANGED report /\ request # None /\ command'.kind = "cancel"
        /\ request'.op = request.op /\ request'.cancelled /\ command'.op = request.op
    BY <1>0, <1>4 DEF CancelRequest, NoCommand, TypedFiles, Maybe, Request
  <2>2. ASSUME NEW a \in Adapter PROVE Draining(a)'
    BY <1>a, <1>1, <2>1 DEF Draining
  <2>3. ASSUME NEW p \in Op, NEW a \in Adapter PROVE Closed(p, a)' /\ LetGo(p, a)'
    BY <1>a, <1>1, <2>1 DEF Closed, LetGo
  <2>4. Arming' /\ Cancelling' /\ Armed'
    BY <1>a, <2>1 DEF Arming, Cancelling, Armed
  <2> QED BY <2>2, <2>3, <2>4 DEF InvReports
<1>5. ASSUME CancelReport PROVE InvReports'
  <2>1. /\ command.kind = "cancel" /\ command' = NoCommand /\ UNCHANGED request
        /\ \A p \in Op, a \in Adapter :
             \/ report'[p][a] = report[p][a]
             \/ p = command.op /\ report[p][a] = "pending" /\ report'[p][a] = "cancelled"
    BY <1>0, <1>5 DEF CancelReport, TypedFiles
  <2>2. ASSUME NEW a \in Adapter PROVE Draining(a)'
    BY <1>a, <1>0, <1>1, <2>1 DEF Draining, TypedSession
  <2>3. ASSUME NEW p \in Op, NEW a \in Adapter PROVE Closed(p, a)' /\ LetGo(p, a)'
    BY <1>a, <1>1, <2>1 DEF Closed, LetGo, Cancelling
  <2>4. Arming' /\ Cancelling' /\ Armed'
    BY <1>a, <1>0, <2>1 DEF Arming, Cancelling, Armed, NoCommand
  <2> QED BY <2>2, <2>3, <2>4 DEF InvReports
<1>6. ASSUME UNCHANGED <<report, request>>, command' = command \/ command' = NoCommand
      PROVE  InvReports'
  <2>2. ASSUME NEW a \in Adapter PROVE Draining(a)'
    BY <1>a, <1>1, <1>6 DEF Draining
  <2>3. ASSUME NEW p \in Op, NEW a \in Adapter PROVE Closed(p, a)' /\ LetGo(p, a)'
    BY <1>a, <1>1, <1>6 DEF Closed, LetGo
  <2>4. Arming' /\ Cancelling' /\ Armed'
    BY <1>a, <1>6 DEF Arming, Cancelling, Armed, NoCommand
  <2> QED BY <2>2, <2>3, <2>4 DEF InvReports
<1>7. ASSUME NEW r \in Release, Setup(r) PROVE InvReports'
  BY <1>6, <1>7 DEF Setup
<1>8. ASSUME NEW o \in Op, Expire(o) PROVE InvReports'
  BY <1>6, <1>8 DEF Expire
<1>9. ASSUME CommandDies PROVE InvReports'
  BY <1>6, <1>9 DEF CommandDies
<1> QED BY <1>2, <1>3, <1>4, <1>5, <1>7, <1>8, <1>9 DEF CommandStep

\* A step that leaves the files alone, and of the sessions what a report is about.
LEMMA QuietReports ==
  ASSUME InvReports, UNCHANGED <<report, request, command>>,
         \A a \in Adapter :
           /\ phase'[a] = phase[a] \/ (polled'[a] = None /\ phase[a] = "running")
           /\ polled'[a] = None \/ polled'[a] = polled[a]
           /\ session'[a].draining = session[a].draining
           /\ session'[a].operation = session[a].operation
           /\ session'[a].terminal = session[a].terminal
  PROVE  InvReports'
<1>a. /\ \A a \in Adapter : Draining(a)
      /\ \A o \in Op, a \in Adapter : Closed(o, a) /\ LetGo(o, a)
      /\ Arming /\ Cancelling /\ Armed
  BY DEF InvReports
<1>2. ASSUME NEW a \in Adapter PROVE Draining(a)'
  BY <1>a DEF Draining
<1>3. ASSUME NEW p \in Op, NEW a \in Adapter PROVE Closed(p, a)' /\ LetGo(p, a)'
  BY <1>a DEF Closed, LetGo
<1>4. Arming' /\ Cancelling' /\ Armed'
  BY <1>a DEF Arming, Cancelling, Armed
<1> QED BY <1>2, <1>3, <1>4 DEF InvReports

\* The messages, the end of the app server and the death of an adapter.
LEMMA PipeReports ==
  ASSUME Typed, InvReports, NEW a \in Adapter,
         \/ NativeStep(a) \/ \E m \in ClientMessages(a) : Begin(a, m)
         \/ Reject(a) \/ Forward(a) \/ Receive(a) \/ Stop(a) \/ Die(a)
  PROVE  InvReports'
<1> DEFINE quiet == \A b \in Adapter :
                    /\ phase'[b] = phase[b] \/ (polled'[b] = None /\ phase[b] = "running")
                    /\ polled'[b] = None \/ polled'[b] = polled[b]
                    /\ session'[b].draining = session[b].draining
                    /\ session'[b].operation = session[b].operation
                    /\ session'[b].terminal = session[b].terminal
<1>0. TypedSession
  BY DEF Typed
<1>1. CASE NativeStep(a) \/ (\E m \in ClientMessages(a) : Begin(a, m)) \/ Reject(a)
  <2>1. UNCHANGED <<report, request, command, phase, polled, session>>
    BY <1>1 DEF NativeStep, NativeRead, NativeReply, NativeTurn, NativeIdle, Begin, Reject, files
  <2>2. quiet
    BY <2>1
  <2> QED BY <2>1, <2>2, QuietReports
<1>2. CASE Forward(a) \/ Receive(a)
  <2>1. UNCHANGED <<report, request, command, phase, polled>>
    BY <1>2 DEF Forward, Receive, files
  <2>2. PICK new : /\ session' = [session EXCEPT ![a] = new]
                   /\ new.draining = session[a].draining
                   /\ new.operation = session[a].operation
                   /\ new.terminal = session[a].terminal
    <3>1. session[a] \in Session
      BY <1>0 DEF TypedSession
    <3>2. CASE Forward(a)
      <4>1. input[a] \in Formed
        BY DEF Typed, TypedPipes
      <4> WITNESS Seen(session[a], input[a])
      <4> QED BY <3>1, <3>2, <4>1, SeenType DEF Forward
    <3>3. CASE Receive(a)
      <4>1. Head(toClient[a]) \in Formed
        BY <3>3 DEF Typed, TypedPipes, Receive
      <4> WITNESS Observed(session[a], Head(toClient[a]))
      <4> QED BY <3>1, <3>3, <4>1, ObservedType DEF Receive
    <3> QED BY <1>2, <3>2, <3>3
  <2>3. quiet
    BY <1>0, <2>1, <2>2 DEF TypedSession
  <2> QED BY <2>1, <2>3, QuietReports
<1>3. CASE Stop(a) \/ Die(a)
  <2>1. /\ UNCHANGED <<report, request, command, session>>
        /\ \A b \in Adapter : b # a => phase'[b] = phase[b]
        /\ phase[a] = "running" /\ polled'[a] = None
        /\ \A b \in Adapter : polled'[b] = None \/ polled'[b] = polled[b]
    BY <1>0, <1>3 DEF Stop, Die, Open, TypedSession, files
  <2>2. quiet
    BY <2>1
  <2> QED BY <2>1, <2>2, QuietReports
<1> QED BY <1>1, <1>2, <1>3


\* What a poll or the end of a connection does for adapter a leaves the other
\* adapters and their lines of the reports alone.
LEMMA OthersReports ==
  ASSUME Typed, InvReports, NEW a \in Adapter, UNCHANGED <<request, command>>,
         \A b \in Adapter : b # a => /\ phase'[b] = phase[b]
                                     /\ session'[b] = session[b]
                                     /\ polled'[b] = polled[b],
         \A o \in Op, b \in Adapter : b # a => report'[o][b] = report[o][b],
         \A o \in Op : report[o][a] # "none" => report'[o][a] # "none",
         \A o \in Op : report'[o][a] \in Reasons /\ report[o][a] \notin Reasons =>
                         request # None /\ request.op = o,
         Draining(a)', \A o \in Op : Closed(o, a)' /\ LetGo(o, a)'
  PROVE  InvReports'
<1>a. /\ \A b \in Adapter : Draining(b)
      /\ \A o \in Op, b \in Adapter : Closed(o, b) /\ LetGo(o, b)
      /\ Arming /\ Cancelling /\ Armed
  BY DEF InvReports
<1>b. /\ command.kind # "none" => command.op \in Op
      /\ request # None => request.op \in Op
      /\ \A b \in Adapter : session[b].draining => session[b].operation \in Op
  BY DEF Typed, TypedFiles, TypedSession, Maybe, Request
<1>1. ASSUME NEW b \in Adapter PROVE Draining(b)'
  BY <1>a, <1>b DEF Draining
<1>2. ASSUME NEW o \in Op, NEW b \in Adapter PROVE Closed(o, b)' /\ LetGo(o, b)'
  BY <1>a DEF Closed, LetGo
<1>3. Arming'
  BY <1>a, <1>b DEF Arming
<1>4. Cancelling' /\ Armed'
  BY <1>a, <1>b DEF Cancelling, Armed
<1> QED BY <1>1, <1>2, <1>3, <1>4 DEF InvReports

\* What a request that is read again under the locks says.
LEMMA StillCurrent ==
  ASSUME Typed, InvReports, NEW a \in Adapter, polled[a] # None, Current(a)
  PROVE  /\ polled[a].op \in Op
         /\ report[polled[a].op][a] \notin Reasons
<1>1. polled[a] \in Request /\ polled[a].op \in Op
  BY DEF Typed, TypedSession, Maybe, Request
<1>2. Draining(a) /\ LetGo(polled[a].op, a)
  BY <1>1 DEF InvReports
<1> QED BY <1>1, <1>2 DEF Current, Draining, LetGo

LEMMA PollReports ==
  ASSUME Typed, InvReports, NEW a \in Adapter,
         Decline(a) \/ Wait(a) \/ Consider(a) \/ Drain(a) \/ Retreat(a) \/ Finish(a)
  PROVE  InvReports' /\ \A o \in Op, b \in Adapter :
                          report[o][b] \in Reasons => report'[o][b] \in Reasons
<1> DEFINE others == \A b \in Adapter : b # a => /\ phase'[b] = phase[b]
                                                 /\ session'[b] = session[b]
                                                 /\ polled'[b] = polled[b]
           apart == \A o \in Op, b \in Adapter : b # a => report'[o][b] = report[o][b]
           known == \A o \in Op : report[o][a] # "none" => report'[o][a] # "none"
           let == \A o \in Op : report'[o][a] \in Reasons /\ report[o][a] \notin Reasons =>
                                  request # None /\ request.op = o
           final == \A o \in Op : report[o][a] \in Reasons => report'[o][a] \in Reasons
           mine == Draining(a)' /\ \A o \in Op : Closed(o, a)' /\ LetGo(o, a)'
<1>1. TypedSession /\ TypedFiles /\ session[a] \in Session
  BY DEF Typed, TypedSession
<1>2. Draining(a) /\ \A o \in Op : Closed(o, a) /\ LetGo(o, a)
  BY DEF InvReports
<1>3. UNCHANGED <<request, command>> /\ others
  BY <1>1 DEF TypedSession, Decline, Wait, Consider, Drain, Retreat, Finish, files
<1>4. Concerned(a) => request \in Request /\ request.op \in Op
  BY <1>1 DEF Concerned, TypedFiles, Maybe, Request
<1>5. CASE Decline(a)
  <2>1. Concerned(a) /\ Reason(a) \in Reasons
    BY <1>5, ReasonType DEF Decline
  <2>2. /\ report'[request.op][a] = Reason(a)
        /\ \A p \in Op, b \in Adapter : p # request.op \/ b # a => report'[p][b] = report[p][b]
    BY <1>1, <1>4, <1>5, <2>1, MarkType DEF Decline, Status
  <2>3. /\ session'[a].draining = FALSE /\ polled'[a] = None /\ phase'[a] = "running"
        /\ session'[a].terminal = session[a].terminal \cup {request.op}
    BY <1>1, <1>5, <2>1 DEF Decline, Concerned, Open, TypedSession, Session
  <2>4. apart /\ known /\ let /\ final
    BY <2>1, <2>2 DEF Concerned, Reasons
  <2>5. Draining(a)'
    BY <2>3 DEF Draining
  <2>6. ASSUME NEW o \in Op PROVE Closed(o, a)' /\ LetGo(o, a)'
    BY <1>2, <1>3, <1>5, <2>1, <2>2, <2>3 DEF Closed, LetGo, Reasons, Concerned, Open
  <2> QED BY <1>3, <2>4, <2>5, <2>6, OthersReports
<1>6. CASE Wait(a) \/ Consider(a)
  <2>1. /\ Concerned(a) /\ Reason(a) = "none" /\ UNCHANGED <<report, phase>>
        /\ session' = [session EXCEPT ![a].operation = request.op]
        /\ polled'[a] = None \/ polled'[a] = request
    BY <1>1, <1>6 DEF Wait, Consider, files, TypedSession, Concerned, Open
  <2>2. /\ session'[a].draining = FALSE /\ phase'[a] = "running"
        /\ session'[a].operation = request.op
        /\ session'[a].terminal = session[a].terminal
    BY <1>1, <2>1 DEF Concerned, Open, TypedSession, Session
  <2>3. ~request.cancelled /\ request.op \notin session[a].terminal
    BY <2>1 DEF Reason, Concerned
  <2>4. Draining(a)'
    BY <2>1, <2>2, <2>3 DEF Draining
  <2>5. ASSUME NEW o \in Op PROVE Closed(o, a)' /\ LetGo(o, a)'
    BY <1>2, <1>3, <2>1, <2>2 DEF Closed, LetGo, Concerned, Open
  <2>6. apart /\ known /\ let /\ final
    BY <2>1
  <2> QED BY <1>3, <2>4, <2>5, <2>6, OthersReports
<1>7. CASE Drain(a)
  <2>1. /\ polled[a] # None /\ Current(a)
        /\ polled[a].op \in Op /\ report[polled[a].op][a] \notin Reasons
        /\ session[a].operation = polled[a].op /\ phase'[a] = "running"
    BY <1>2, <1>7, StillCurrent DEF Drain, Draining
  <2>2. /\ report'[polled[a].op][a] = "shutting_down"
        /\ \A p \in Op, b \in Adapter : p # polled[a].op \/ b # a => report'[p][b] = report[p][b]
    BY <1>1, <1>7, <2>1, MarkType DEF Drain, Status
  <2>3. /\ session'[a].draining /\ polled'[a] = None
        /\ session'[a].terminal = session[a].terminal
        /\ session'[a].operation = session[a].operation
    BY <1>1, <1>7 DEF Drain, TypedSession, Session
  <2>4. apart /\ known /\ let /\ final
    BY <2>1, <2>2 DEF Reasons
  <2>5. Draining(a)'
    BY <2>1, <2>2, <2>3 DEF Draining
  <2>6. ASSUME NEW o \in Op PROVE Closed(o, a)' /\ LetGo(o, a)'
    BY <1>2, <1>3, <1>7, <2>1, <2>2, <2>3 DEF Closed, LetGo, Reasons, Drain
  <2> QED BY <1>3, <2>4, <2>5, <2>6, OthersReports
<1>8. CASE Retreat(a)
  <2>1. polled[a].op \in Op /\ polled[a] # None
    BY <1>1, <1>8 DEF Retreat, TypedSession, Maybe, Request
  <2>2. /\ \A p \in Op, b \in Adapter : p # polled[a].op \/ b # a => report'[p][b] = report[p][b]
        /\ \/ UNCHANGED report
           \/ /\ report'[polled[a].op][a] = "shutting_down"
              /\ report[polled[a].op][a] \notin Reasons
    BY <1>1, <1>8, <2>1, MarkType, StillCurrent DEF Retreat, Status
  <2>3. UNCHANGED session /\ polled'[a] = None /\ ~session[a].draining /\ phase'[a] = "running"
    BY <1>1, <1>2, <1>8 DEF Retreat, Draining, TypedSession
  <2>4. apart /\ known /\ let /\ final
    BY <2>1, <2>2 DEF Reasons
  <2>5. Draining(a)'
    BY <2>3 DEF Draining
  <2>6. ASSUME NEW o \in Op PROVE Closed(o, a)' /\ LetGo(o, a)'
    BY <1>2, <1>3, <1>8, <2>1, <2>2, <2>3 DEF Closed, LetGo, Reasons, Retreat
  <2> QED BY <1>3, <2>4, <2>5, <2>6, OthersReports
<1>9. CASE Finish(a)
  <2>1. /\ UNCHANGED <<session, polled>> /\ phase'[a] = "gone" /\ polled[a] = None
        /\ session[a].draining => session[a].operation \in Op
    BY <1>1, <1>2, <1>9 DEF Finish, Draining, TypedSession
  <2>2. \/ UNCHANGED report
        \/ /\ session[a].draining
           /\ report'[session[a].operation][a] = "closed"
           /\ \A p \in Op, b \in Adapter :
                p # session[a].operation \/ b # a => report'[p][b] = report[p][b]
    BY <1>1, <1>9, <2>1, MarkType DEF Finish, Status
  <2>3. apart /\ known /\ let /\ final
    BY <1>2, <2>1, <2>2 DEF Reasons, Draining
  <2>4. Draining(a)'
    BY <1>2, <2>1, <2>2 DEF Draining
  <2>5. ASSUME NEW o \in Op PROVE Closed(o, a)' /\ LetGo(o, a)'
    BY <1>2, <1>3, <2>1, <2>2 DEF Closed, LetGo, Reasons
  <2> QED BY <1>3, <2>3, <2>4, <2>5, OthersReports
<1> QED BY <1>5, <1>6, <1>7, <1>8, <1>9

LEMMA NextReports == Typed /\ InvReports /\ [Next]_vars => InvReports'
<1> SUFFICES ASSUME Typed, InvReports, [Next]_vars PROVE InvReports'
  OBVIOUS
<1>1. CASE UNCHANGED vars
  <2>1. UNCHANGED <<report, request, command, phase, polled, session>>
    BY <1>1 DEF vars, files
  <2> QED BY <2>1, QuietReports
<1>2. ASSUME NEW a \in Adapter, NativeStep(a) \/ AdapterStep(a) PROVE InvReports'
  BY <1>2, PipeReports, PollReports DEF AdapterStep
<1> QED BY <1>1, <1>2, CommandReports DEF Next

\* A target reported as let go is not shutting down, one reported closed has
\* ended: whatever command, other operation, failed receipt or crash comes
\* between.
THEOREM ReportsAreTrue == Spec => []ReportIsTrue
<1>1. Typed /\ InvReports => ReportIsTrue
  BY DEF InvReports, Draining, Closed, ReportIsTrue, Reasons
<1> QED BY InitTyped, NextTyped, InitReports, NextReports, <1>1, PTL DEF Spec

\* A target that was let go never shuts down for that operation afterwards.
THEOREM LettingGoIsFinal == Spec => LetGoIsFinal
<1> DEFINE Kept == \A o \in Op, a \in Adapter : report[o][a] \in Reasons => report'[o][a] \in Reasons
<1>1. Typed /\ InvReports /\ [Next]_vars => [Kept]_vars
  <2> SUFFICES ASSUME Typed, InvReports, Next PROVE Kept
    OBVIOUS
  <2>1. CASE CommandStep
    <3>1. report \in [Op -> [Adapter -> Status]]
      BY DEF Typed, TypedFiles
    <3>2. ASSUME NEW o \in Op, NEW T \in SUBSET Adapter, NEW automatic \in BOOLEAN,
                 ArmReport(o, T, automatic)
          PROVE  Kept
      BY <3>1, <3>2 DEF ArmReport, Reasons
    <3>3. CancelReport => Kept
      BY <3>1 DEF CancelReport, Reasons
    <3>4. ASSUME UNCHANGED report PROVE Kept
      BY <3>4
    <3> QED BY <2>1, <3>2, <3>3, <3>4
            DEF CommandStep, ArmRequest, CancelRequest, CommandDies, Setup, Expire
  <2>2. ASSUME NEW a \in Adapter,
               Decline(a) \/ Wait(a) \/ Consider(a) \/ Drain(a) \/ Retreat(a) \/ Finish(a)
        PROVE  Kept
    BY <2>2, PollReports
  <2>3. ASSUME NEW a \in Adapter,
               \/ NativeStep(a) \/ \E m \in ClientMessages(a) : Begin(a, m)
               \/ Reject(a) \/ Forward(a) \/ Receive(a) \/ Stop(a) \/ Die(a)
        PROVE  Kept
    <3>1. UNCHANGED report
      BY <2>3 DEF NativeStep, NativeRead, NativeReply, NativeTurn, NativeIdle, Begin, Reject,
                  Forward, Receive, Stop, Die, files
    <3> QED BY <3>1
  <2> QED BY <2>1, <2>2, <2>3 DEF Next, AdapterStep
<1> QED BY InitTyped, NextTyped, InitReports, NextReports, <1>1, PTL DEF Spec, LetGoIsFinal


-----------------------------------------------------------------------------
(* The books, step by step.                                                *)

LEMMA BooksSame ==
  ASSUME NEW s, NEW r, NEW m, NEW ahead, NEW run, NEW hid, NEW now, NEW back,
         Books(s, m, ahead, run, hid, now, back),
         r.pending = s.pending, r.completed = s.completed, r.active = s.active
  PROVE  Books(r, m, ahead, run, hid, now, back)
<1>1. \A n : Waits(s, n) => Waits(r, n)
  BY DEF Waits
<1>2. Entered(r, ahead, now, back)
  BY <1>1 DEF Books, Entered
<1>3. New(r, m) /\ Turned(r, run, back)
  BY DEF Books, New, Turned
<1>4. \A x \in run \ hid : Known(r, now, back, x)
  BY DEF Books, Known
<1> QED BY <1>2, <1>3, <1>4 DEF Books

LEMMA BooksInput ==
  ASSUME NEW s, NEW m, NEW n, NEW ahead, NEW run, NEW hid, NEW now, NEW back,
         Books(s, m, ahead, run, hid, now, back), New(s, n)
  PROVE  Books(s, n, ahead, run, hid, now, back)
BY DEF Books

LEMMA NothingHeld == \A s : New(s, NoMessage)
BY DEF New, NoMessage, Message, IsRequest

LEMMA BooksNone ==
  ASSUME NEW s, NEW hid PROVE Books(s, NoMessage, <<>>, {}, hid, {}, <<>>)
BY NothingHeld DEF Books, Entered, CallsOnce, Turned, Announced, Known

\* ReconnectSession.client
LEMMA BooksForward ==
  ASSUME NEW s \in Session, NEW m \in Formed, NEW ahead \in Seq(Formed),
         NEW run \in SUBSET (Thread \X Turn), NEW hid, NEW now \in SUBSET Formed, NEW back \in Seq(Formed),
         Books(s, m, ahead, run, hid, now, back)
  PROVE  Books(Seen(s, m), NoMessage, Append(ahead, m), run, hid, now, back)
<1>1. PICK r : r = Seen(s, m)
  OBVIOUS
<1>2. /\ r.completed = s.completed /\ r.active = s.active
      /\ r.pending = IF IsRequest(m) THEN s.pending \cup {Entry(m)}
                     ELSE s.pending
  BY <1>1 DEF Seen, Session, IsRequest
<1>3. PICK far \in Seq(Formed) : far = Append(ahead, m)
  <2>1. Append(ahead, m) \in Seq(Formed)
    OBVIOUS
  <2> QED BY <2>1
<1>4. \A i \in DOMAIN far : \/ i \in DOMAIN ahead /\ far[i] = ahead[i]
                            \/ i = Len(ahead) + 1 /\ far[i] = m
  BY <1>3
<1>5. Entered(r, far, now, back)
  <2>1. \A n : Waits(s, n) => Waits(r, n)
    BY <1>2 DEF Waits
  <2>2. ASSUME NEW i \in DOMAIN far, IsRequest(far[i])
        PROVE  Entry(far[i]) \in r.pending
    BY <1>2, <1>4, <2>2 DEF Books, Entered
  <2> QED BY <2>1, <2>2 DEF Books, Entered
<1>6. CallsOnce(far, now, back)
  <2>1. ASSUME IsRequest(m)
        PROVE  /\ \A i \in DOMAIN ahead : IsRequest(ahead[i]) => ahead[i].call # m.call
               /\ \A n \in now : n.call # m.call
               /\ \A i \in DOMAIN back : IsAnswer(back[i]) => back[i].call # m.call
    <3>1. \A e \in s.pending : e.call # m.call
      BY <2>1 DEF Books, New
    <3>2. ASSUME NEW i \in DOMAIN ahead, IsRequest(ahead[i]) PROVE ahead[i].call # m.call
      <4>1. Entry(ahead[i]) \in s.pending /\ Entry(ahead[i]).call = ahead[i].call
        BY <3>2 DEF Books, Entered, Entry
      <4> QED BY <3>1, <4>1
    <3>3. \A n : Waits(s, n) => n.call # m.call
      BY <3>1 DEF Waits
    <3> QED BY <3>2, <3>3 DEF Books, Entered
  <2>2. ASSUME NEW i \in DOMAIN far, NEW j \in DOMAIN far, IsRequest(far[i]), IsRequest(far[j]),
               far[i].call = far[j].call
        PROVE  i = j
    BY <1>4, <2>1, <2>2 DEF Books, CallsOnce
  <2>3. ASSUME NEW i \in DOMAIN far, NEW n \in now, IsRequest(far[i]) PROVE far[i].call # n.call
    BY <1>4, <2>1, <2>3 DEF Books, CallsOnce
  <2>4. ASSUME NEW i \in DOMAIN far, NEW j \in DOMAIN back, IsRequest(far[i]), IsAnswer(back[j])
        PROVE  far[i].call # back[j].call
    BY <1>4, <2>1, <2>4 DEF Books, CallsOnce
  <2> QED BY <2>2, <2>3, <2>4 DEF Books, CallsOnce
<1>7. Turned(r, run, back)
  BY <1>2 DEF Books, Turned
<1>8. \A x \in run \ hid : Known(r, now, back, x)
  BY <1>2 DEF Books, Known
<1> QED BY <1>1, <1>3, <1>5, <1>6, <1>7, <1>8, NothingHeld DEF Books

\* ReconnectSession.native
LEMMA BooksReceive ==
  ASSUME NEW s \in Session, NEW m \in Formed, NEW ahead \in Seq(Formed),
         NEW run \in SUBSET (Thread \X Turn), NEW hid, NEW now \in SUBSET Formed, NEW back \in Seq(Formed),
         Books(s, m, ahead, run, hid, now, back), back # <<>>,
         NEW left, \A x \in hid \ left : Announces(Head(back), x)
  PROVE  Books(Observed(s, Head(back)), m, ahead, run, left, now, Tail(back))
<1>1. PICK h \in Formed : h = Head(back)
  OBVIOUS
<1>2. PICK rest \in Seq(Formed) : rest = Tail(back)
  <2>1. Tail(back) \in Seq(Formed)
    OBVIOUS
  <2> QED BY <2>1
<1>3. /\ 1 \in DOMAIN back /\ back[1] = h
      /\ \A i \in DOMAIN rest : i + 1 \in DOMAIN back /\ rest[i] = back[i + 1]
      /\ \A i \in DOMAIN back : i = 1 \/ (i - 1 \in DOMAIN rest /\ back[i] = rest[i - 1])
  BY <1>1, <1>2
<1>4. PICK r : r = Observed(s, h)
  OBVIOUS
<1>5. r.pending = IF IsAnswer(h) THEN {e \in s.pending : e.call # h.call} ELSE s.pending
  BY <1>4 DEF Observed, Session, IsAnswer
<1>6. /\ h.kind # "completed" => r.completed = s.completed
      /\ r.completed \subseteq s.completed \cup {h.turn}
  BY <1>4 DEF Observed, Session
<1>7. /\ h.kind \in {"completed", "idle"} => r.active = s.active \ {h.thread}
      /\ h.kind \notin {"completed", "idle"} => s.active \subseteq r.active
      /\ h.kind = "reply" /\ h.turn \notin s.completed =>
           \A e \in s.pending : e.call = h.call /\ e.thread # None => e.thread \in r.active
      /\ h.kind = "started" => h.thread \in r.active
  BY <1>4 DEF Observed, Session
<1>8. Entered(r, ahead, now, rest)
  <2>1. ASSUME NEW n, Waits(s, n), IsAnswer(h) => n.call # h.call PROVE Waits(r, n)
    BY <1>5, <2>1 DEF Waits
  <2>2. ASSUME NEW i \in DOMAIN ahead, IsRequest(ahead[i])
        PROVE  Entry(ahead[i]) \in r.pending
    <3>1. IsAnswer(h) => ahead[i].call # h.call
      BY <1>3, <2>2 DEF Books, CallsOnce
    <3> QED BY <1>5, <2>2, <3>1 DEF Books, Entered, Entry
  <2>3. ASSUME NEW n \in now PROVE IsAnswer(n) /\ Waits(r, n)
    <3>1. IsAnswer(h) => n.call # h.call
      BY <1>3 DEF Books, CallsOnce
    <3> QED BY <2>1, <3>1 DEF Books, Entered
  <2>4. ASSUME NEW i \in DOMAIN rest, IsAnswer(rest[i]) PROVE Waits(r, rest[i])
    <3>1. IsAnswer(h) => rest[i].call # h.call
      <4>1. i + 1 # 1 /\ i + 1 \in DOMAIN back /\ rest[i] = back[i + 1]
        BY <1>3
      <4> QED BY <1>3, <2>4, <4>1 DEF Books, CallsOnce
    <3>2. Waits(s, rest[i])
      BY <1>3, <2>4 DEF Books, Entered
    <3> QED BY <2>1, <3>1, <3>2
  <2> QED BY <2>2, <2>3, <2>4 DEF Entered
<1>9. CallsOnce(ahead, now, rest)
  <2>1. ASSUME NEW i \in DOMAIN rest, NEW j \in DOMAIN rest, IsAnswer(rest[i]), IsAnswer(rest[j]),
               rest[i].call = rest[j].call
        PROVE  i = j
    <3>1. i + 1 = j + 1
      BY <1>3, <2>1 DEF Books, CallsOnce
    <3> QED BY <3>1
  <2> QED BY <1>3, <2>1 DEF Books, CallsOnce
<1>10. New(r, m)
  BY <1>5 DEF Books, New
<1>11. Turned(r, run, rest)
  <2>1. ASSUME NEW x \in run PROVE x[2] \notin r.completed
    BY <1>3, <1>6 DEF Books, Turned
  <2> QED BY <1>3, <2>1 DEF Books, Turned
<1>13. Announced(run, rest)
  <2> SUFFICES ASSUME NEW x \in run, NEW i \in DOMAIN rest, Announces(rest[i], x)
               PROVE  rest[i].thread = x[1] /\ \A j \in DOMAIN rest : j > i => ~Ends(rest[j], x[1])
    BY DEF Announced
  <2>1. i + 1 \in DOMAIN back /\ rest[i] = back[i + 1]
    BY <1>3
  <2>2. \A j \in DOMAIN rest : j > i => j + 1 > i + 1 /\ j + 1 \in DOMAIN back /\ rest[j] = back[j + 1]
    BY <1>3
  <2> QED BY <2>1, <2>2 DEF Books, Announced
<1>14. ASSUME NEW x \in run, Announces(h, x) PROVE Known(r, now, rest, x)
  <2>1. h.thread = x[1] /\ \A j \in DOMAIN back : j > 1 => ~Ends(back[j], x[1])
    BY <1>3, <1>14 DEF Books, Announced
  <2>2. \A j \in DOMAIN rest : ~Ends(rest[j], x[1])
    <3>1. \A j \in DOMAIN rest : j + 1 > 1 /\ j + 1 \in DOMAIN back /\ rest[j] = back[j + 1]
      BY <1>3
    <3> QED BY <2>1, <3>1
  <2> QED BY <1>7, <1>14, <2>1, <2>2 DEF Known, Announces
<1>12. ASSUME NEW x \in run \ hid PROVE Known(r, now, rest, x)
  <2>1. Known(s, now, back, x)
    BY DEF Books
  <2>2. CASE \E n \in now : StartOf(n, x)
    BY <2>2 DEF Known
  <2>3. ASSUME NEW i \in DOMAIN back, StartOf(back[i], x),
               \A j \in DOMAIN back : j > i => ~Ends(back[j], x[1])
        PROVE  Known(r, now, rest, x)
    <3>1. CASE i = 1
      <4>1. h.kind = "reply" /\ h.thread = x[1] /\ h.turn = x[2] /\ IsAnswer(h)
        BY <1>3, <2>3, <3>1 DEF StartOf, IsAnswer
      <4>2. h.turn \notin s.completed
        BY <4>1 DEF Books, Turned
      <4>3. PICK e \in s.pending : e.call = h.call /\ e.thread = x[1]
        <5>1. x[2] # None
          BY NoneAssumption
        <5> QED BY <1>3, <4>1, <5>1 DEF Books, Entered, Waits
      <4>4. x[1] \in r.active
        <5>1. x[1] # None
          BY NoneAssumption
        <5> QED BY <1>7, <4>1, <4>2, <4>3, <5>1
      <4>5. \A j \in DOMAIN rest : ~Ends(rest[j], x[1])
        <5>1. ASSUME NEW j \in DOMAIN rest PROVE ~Ends(rest[j], x[1])
          <6>1. j + 1 > 1 /\ j + 1 \in DOMAIN back /\ rest[j] = back[j + 1]
            BY <1>3
          <6> QED BY <2>3, <3>1, <6>1
        <5> QED BY <5>1
      <4> QED BY <4>4, <4>5 DEF Known
    <3>2. CASE i # 1
      <4>1. i - 1 \in DOMAIN rest /\ StartOf(rest[i - 1], x)
        BY <1>3, <2>3, <3>2
      <4>2. ASSUME NEW j \in DOMAIN rest, j > i - 1 PROVE ~Ends(rest[j], x[1])
        <5>1. j + 1 > i /\ j + 1 \in DOMAIN back /\ rest[j] = back[j + 1]
          BY <1>3, <4>2
        <5> QED BY <2>3, <5>1
      <4> QED BY <4>1, <4>2 DEF Known
    <3> QED BY <3>1, <3>2
  <2>4. ASSUME x[1] \in s.active, \A j \in DOMAIN back : ~Ends(back[j], x[1])
        PROVE  Known(r, now, rest, x)
    <3>1. ~Ends(h, x[1])
      BY <1>3, <2>4
    <3>2. x[1] \in r.active
      BY <1>7, <2>4, <3>1 DEF Ends
    <3>3. \A j \in DOMAIN rest : ~Ends(rest[j], x[1])
      BY <1>3, <2>4
    <3> QED BY <3>2, <3>3 DEF Known
  <2> QED BY <2>1, <2>2, <2>3, <2>4 DEF Known
<1>15. \A x \in run \ left : Known(r, now, rest, x)
  BY <1>1, <1>12, <1>14
<1> QED BY <1>1, <1>2, <1>4, <1>8, <1>9, <1>10, <1>11, <1>13, <1>15 DEF Books


\* The app server reads a message.
LEMMA BooksRead ==
  ASSUME NEW s \in Session, NEW m \in Formed, NEW ahead \in Seq(Formed),
         NEW run \in SUBSET (Thread \X Turn), NEW hid, NEW now \in SUBSET Formed, NEW back \in Seq(Formed),
         Books(s, m, ahead, run, hid, now, back),
         ahead # <<>>
  PROVE  Books(s, m, Tail(ahead), run, hid, now, back)
<1>1. PICK h \in Formed : h = Head(ahead)
  OBVIOUS
<1>2. PICK rest \in Seq(Formed) : rest = Tail(ahead)
  <2>1. Tail(ahead) \in Seq(Formed)
    OBVIOUS
  <2> QED BY <2>1
<1>3. /\ 1 \in DOMAIN ahead /\ ahead[1] = h
      /\ \A i \in DOMAIN rest : i + 1 \in DOMAIN ahead /\ i + 1 # 1 /\ rest[i] = ahead[i + 1]
  BY <1>1, <1>2
<1>4. Entered(s, rest, now, back)
  BY <1>3 DEF Books, Entered
<1>5. CallsOnce(rest, now, back)
  <2>1. ASSUME NEW i \in DOMAIN rest, NEW j \in DOMAIN rest, IsRequest(rest[i]), IsRequest(rest[j]),
               rest[i].call = rest[j].call
        PROVE  i = j
    <3>1. i + 1 = j + 1
      BY <1>3, <2>1 DEF Books, CallsOnce
    <3> QED BY <3>1
  <2> QED BY <1>3, <2>1 DEF Books, CallsOnce
<1> QED BY <1>2, <1>4, <1>5 DEF Books

\* The request that is read is owed an answer n.
LEMMA BooksOwe ==
  ASSUME NEW s \in Session, NEW m \in Formed, NEW ahead \in Seq(Formed),
         NEW run \in SUBSET (Thread \X Turn), NEW hid, NEW now \in SUBSET Formed, NEW back \in Seq(Formed),
         Books(s, m, ahead, run, hid, now, back),
         ahead # <<>>, IsRequest(Head(ahead)),
         NEW n \in Formed, IsAnswer(n), n.call = Head(ahead).call,
         n.turn # None => n.thread = Entry(Head(ahead)).thread
  PROVE  Books(s, m, Tail(ahead), run, hid, now \cup {n}, back)
<1>1. PICK h \in Formed : h = Head(ahead)
  OBVIOUS
<1>2. PICK rest \in Seq(Formed) : rest = Tail(ahead)
  <2>1. Tail(ahead) \in Seq(Formed)
    OBVIOUS
  <2> QED BY <2>1
<1>3. /\ 1 \in DOMAIN ahead /\ ahead[1] = h
      /\ \A i \in DOMAIN rest : i + 1 \in DOMAIN ahead /\ i + 1 # 1 /\ rest[i] = ahead[i + 1]
  BY <1>1, <1>2
<1>4. Books(s, m, rest, run, hid, now, back)
  BY <1>2, BooksRead
<1>5. Entered(s, rest, now \cup {n}, back)
  <2>1. Waits(s, n)
    <3>1. Entry(h) \in s.pending
      BY <1>1, <1>3 DEF Books, Entered
    <3> QED BY <1>1, <3>1 DEF Waits, Entry
  <2> QED BY <1>4, <2>1 DEF Books, Entered
<1>6. CallsOnce(rest, now \cup {n}, back)
  <2>1. \A o \in now : o.call # n.call
    BY <1>1, <1>3 DEF Books, CallsOnce
  <2>2. \A i \in DOMAIN rest : IsRequest(rest[i]) => rest[i].call # n.call
    BY <1>1, <1>3 DEF Books, CallsOnce
  <2>3. \A j \in DOMAIN back : IsAnswer(back[j]) => n.call # back[j].call
    BY <1>1, <1>3 DEF Books, CallsOnce
  <2> QED BY <1>4, <2>1, <2>2, <2>3 DEF Books, CallsOnce
<1>7. \A x \in run \ hid : Known(s, now \cup {n}, back, x)
  BY <1>4 DEF Books, Known
<1> QED BY <1>2, <1>4, <1>5, <1>6, <1>7 DEF Books

\* A new turn runs on a thread that ran none.
LEMMA BooksRun ==
  ASSUME NEW s \in Session, NEW m \in Formed, NEW ahead \in Seq(Formed),
         NEW run \in SUBSET (Thread \X Turn), NEW hid, NEW now \in SUBSET Formed, NEW back \in Seq(Formed),
         Books(s, m, ahead, run, hid, now, back),
         NEW t \in Thread, NEW u \in Turn, NEW more, hid \subseteq more,
         <<t, u>> \in more \/ \E n \in now : StartOf(n, <<t, u>>),
         \A x \in run : x[1] # t /\ x[2] # u,
         u \notin s.completed, \A i \in DOMAIN back : back[i].turn # u
  PROVE  Books(s, m, ahead, run \cup {<<t, u>>}, more, now, back)
<1>1. Turned(s, run \cup {<<t, u>>}, back)
  BY DEF Books, Turned
<1>2. \A x \in (run \cup {<<t, u>>}) \ more : Known(s, now, back, x)
  BY DEF Books, Known
<1>3. Announced(run \cup {<<t, u>>}, back)
  <2>1. \A i \in DOMAIN back : ~Announces(back[i], <<t, u>>)
    BY DEF Announces
  <2>2. Announced(run, back)
    BY DEF Books
  <2> QED BY <2>1, <2>2 DEF Announced
<1> QED BY <1>1, <1>2, <1>3 DEF Books

\* An answer is written.
LEMMA BooksReply ==
  ASSUME NEW s \in Session, NEW m \in Formed, NEW ahead \in Seq(Formed),
         NEW run \in SUBSET (Thread \X Turn), NEW hid, NEW now \in SUBSET Formed, NEW back \in Seq(Formed),
         Books(s, m, ahead, run, hid, now, back),
         NEW n \in now
  PROVE  Books(s, m, ahead, run, hid, now \ {n}, Append(back, n))
<1>1. PICK far \in Seq(Formed) : far = Append(back, n)
  <2>1. Append(back, n) \in Seq(Formed)
    OBVIOUS
  <2> QED BY <2>1
<1>2. /\ \A i \in DOMAIN far : \/ i \in DOMAIN back /\ far[i] = back[i]
                               \/ i = Len(back) + 1 /\ far[i] = n
      /\ \A i \in DOMAIN back : i \in DOMAIN far /\ far[i] = back[i] /\ i < Len(back) + 1
      /\ Len(back) + 1 \in DOMAIN far /\ far[Len(back) + 1] = n
  BY <1>1
<1>3. IsAnswer(n) /\ Waits(s, n)
  BY DEF Books, Entered
<1>4. Entered(s, ahead, now \ {n}, far)
  BY <1>2, <1>3 DEF Books, Entered
<1>5. CallsOnce(ahead, now \ {n}, far)
  <2>1. ASSUME NEW i \in DOMAIN far, NEW j \in DOMAIN far, IsAnswer(far[i]), IsAnswer(far[j]),
               far[i].call = far[j].call
        PROVE  i = j
    BY <1>2, <2>1 DEF Books, CallsOnce
  <2>2. ASSUME NEW i \in DOMAIN ahead, NEW j \in DOMAIN far, IsRequest(ahead[i]), IsAnswer(far[j])
        PROVE  ahead[i].call # far[j].call
    BY <1>2, <2>2 DEF Books, CallsOnce
  <2>3. ASSUME NEW o \in now \ {n}, NEW j \in DOMAIN far, IsAnswer(far[j])
        PROVE  o.call # far[j].call
    BY <1>2, <2>3 DEF Books, CallsOnce
  <2> QED BY <2>1, <2>2, <2>3 DEF Books, CallsOnce
<1>6. Turned(s, run, far)
  BY <1>2, <1>3 DEF Books, Turned, IsAnswer
<1>8. Announced(run, far)
  <2>1. Announced(run, back)
    BY DEF Books
  <2>2. \A x : ~Announces(n, x) /\ \A t : ~Ends(n, t)
    BY <1>3 DEF Announces, Ends, IsAnswer
  <2>3. \A i \in DOMAIN far : (i \in DOMAIN back /\ far[i] = back[i]) \/ far[i] = n
    BY <1>2
  <2> QED BY <2>1, <2>2, <2>3 DEF Announced
<1>7. ASSUME NEW x \in run \ hid PROVE Known(s, now \ {n}, far, x)
  <2>1. Known(s, now, back, x)
    BY DEF Books
  <2>2. ~Ends(n, x[1])
    BY <1>3 DEF IsAnswer, Ends
  <2>3. ASSUME NEW o \in now, StartOf(o, x) PROVE Known(s, now \ {n}, far, x)
    <3>1. CASE o = n
      <4>1. \A j \in DOMAIN far : ~(j > Len(back) + 1)
        BY <1>1
      <4> QED BY <1>2, <2>3, <3>1, <4>1 DEF Known
    <3>2. CASE o # n
      BY <2>3, <3>2 DEF Known
    <3> QED BY <3>1, <3>2
  <2>4. ASSUME NEW i \in DOMAIN back, StartOf(back[i], x),
               \A j \in DOMAIN back : j > i => ~Ends(back[j], x[1])
        PROVE  Known(s, now \ {n}, far, x)
    <3>1. i \in DOMAIN far /\ StartOf(far[i], x)
      BY <1>2, <2>4
    <3>2. \A j \in DOMAIN far : j > i => ~Ends(far[j], x[1])
      BY <1>2, <2>2, <2>4
    <3> QED BY <3>1, <3>2 DEF Known
  <2>5. ASSUME x[1] \in s.active, \A j \in DOMAIN back : ~Ends(back[j], x[1])
        PROVE  Known(s, now \ {n}, far, x)
    BY <1>2, <2>2, <2>5 DEF Known
  <2> QED BY <2>1, <2>3, <2>4, <2>5 DEF Known
<1> QED BY <1>1, <1>4, <1>5, <1>6, <1>7, <1>8 DEF Books

\* The app server tells of something that ends no turn but those that go.
LEMMA BooksTold ==
  ASSUME NEW s \in Session, NEW m \in Formed, NEW ahead \in Seq(Formed),
         NEW run \in SUBSET (Thread \X Turn), NEW hid, NEW now \in SUBSET Formed, NEW back \in Seq(Formed),
         Books(s, m, ahead, run, hid, now, back),
         NEW n \in Formed, ~IsAnswer(n), NEW left \in SUBSET run,
         \A x \in left : ~Ends(n, x[1]) /\ (n.kind = "completed" => n.turn # x[2]),
         \A x \in left : Announces(n, x) => n.thread = x[1],
         NEW less, left \ less \subseteq run \ hid
  PROVE  Books(s, m, ahead, left, less, now, Append(back, n))
<1>1. PICK far \in Seq(Formed) : far = Append(back, n)
  <2>1. Append(back, n) \in Seq(Formed)
    OBVIOUS
  <2> QED BY <2>1
<1>2. /\ \A i \in DOMAIN far : \/ i \in DOMAIN back /\ far[i] = back[i]
                               \/ far[i] = n /\ \A j \in DOMAIN far : ~(j > i)
      /\ \A i \in DOMAIN back : i \in DOMAIN far /\ far[i] = back[i]
  BY <1>1
<1>3. Entered(s, ahead, now, far)
  BY <1>2 DEF Books, Entered
<1>4. CallsOnce(ahead, now, far)
  BY <1>2 DEF Books, CallsOnce
<1>5. Turned(s, left, far)
  BY <1>2 DEF Books, Turned
<1>7. Announced(left, far)
  BY <1>2 DEF Books, Announced
<1>6. ASSUME NEW x \in left \ less PROVE Known(s, now, far, x)
  <2>1. Known(s, now, back, x) /\ ~Ends(n, x[1])
    BY DEF Books
  <2>2. ASSUME NEW i \in DOMAIN back, StartOf(back[i], x),
               \A j \in DOMAIN back : j > i => ~Ends(back[j], x[1])
        PROVE  Known(s, now, far, x)
    <3>1. i \in DOMAIN far /\ StartOf(far[i], x)
      BY <1>2, <2>2
    <3>2. \A j \in DOMAIN far : j > i => ~Ends(far[j], x[1])
      BY <1>2, <2>1, <2>2
    <3> QED BY <3>1, <3>2 DEF Known
  <2>3. ASSUME x[1] \in s.active, \A j \in DOMAIN back : ~Ends(back[j], x[1])
        PROVE  Known(s, now, far, x)
    BY <1>2, <2>1, <2>3 DEF Known
  <2> QED BY <2>1, <2>2, <2>3 DEF Known
<1> QED BY <1>1, <1>3, <1>4, <1>5, <1>6, <1>7 DEF Books


\* With empty books nothing is under way but turns hidden from the session.
LEMMA EmptyBooks ==
  ASSUME NEW s, NEW m, NEW ahead, NEW run, NEW hid, NEW now, NEW back,
         Books(s, m, ahead, run, hid, now, back),
         s.pending = {}, s.active = {}
  PROVE  run \subseteq hid /\ now = {} /\ \A i \in DOMAIN ahead : ~IsRequest(ahead[i])
<1>1. \A n : ~Waits(s, n)
  BY DEF Waits
<1>2. now = {} /\ \A i \in DOMAIN ahead : ~IsRequest(ahead[i])
  BY <1>1 DEF Books, Entered
<1>3. ASSUME NEW x \in run \ hid PROVE FALSE
  <2>1. Known(s, now, back, x)
    BY DEF Books
  <2>2. PICK i \in DOMAIN back : StartOf(back[i], x)
    BY <1>2, <2>1 DEF Known
  <2>3. Waits(s, back[i])
    BY <2>2 DEF Books, Entered, StartOf, IsAnswer
  <2> QED BY <1>1, <2>3
<1> QED BY <1>2, <1>3

LEMMA InitWork == Init => InvWork
<1> SUFFICES ASSUME Init, NEW a \in Adapter PROVE InBooks(a) /\ Rests(a)
  BY DEF InvWork
<1>1. InBooks(a)
  BY BooksNone DEF Init, InBooks
<1>2. Rests(a)
  BY DEF Init, Rests, Fresh
<1> QED BY <1>1, <1>2

\* What a step of adapter a leaves alone of adapter b.
Same(b) ==
  /\ session'[b] = session[b] /\ input'[b] = input[b] /\ toNative'[b] = toNative[b]
  /\ running'[b] = running[b] /\ unseen'[b] = unseen[b]
  /\ owed'[b] = owed[b] /\ toClient'[b] = toClient[b]
  /\ phase'[b] = phase[b] /\ polled'[b] = polled[b]

LEMMA WorkElsewhere ==
  ASSUME InvWork, NEW a \in Adapter, \A b \in Adapter : b # a => Same(b), (InBooks(a) /\ Rests(a))'
  PROVE  InvWork'
<1> SUFFICES ASSUME NEW b \in Adapter, b # a PROVE (InBooks(b) /\ Rests(b))'
  BY DEF InvWork
<1> QED BY DEF InvWork, Same, InBooks, Rests

\* The types a step of adapter a starts from.
LEMMA TypesAt ==
  ASSUME Typed, NEW a \in Adapter
  PROVE  /\ session[a] \in Session /\ input[a] \in Formed /\ toNative[a] \in Seq(Formed)
         /\ running[a] \in SUBSET (Thread \X Turn) /\ owed[a] \in SUBSET Formed
         /\ toClient[a] \in Seq(Formed)
BY DEF Typed, TypedSession, TypedPipes

LEMMA ClientWork ==
  ASSUME Typed, InvWork, NEW a \in Adapter,
         (\E m \in ClientMessages(a) : Begin(a, m)) \/ Reject(a) \/ Forward(a)
  PROVE  InvWork'
<1>1. InBooks(a) /\ Rests(a)
  BY DEF InvWork
<1>2. \A b \in Adapter : b # a => Same(b)
  BY DEF Typed, TypedPipes, TypedSession, Same, Begin, Reject, Forward, pipes
<1>3. CASE \E m \in ClientMessages(a) : Begin(a, m)
  <2>1. PICK m \in ClientMessages(a) : Begin(a, m)
    BY <1>3
  <2>2. New(session[a], m)
    BY DEF ClientMessages, New, Message, IsRequest
  <2>3. input'[a] = m
    BY <2>1 DEF Begin, Typed, TypedPipes
  <2>4. InBooks(a)'
    BY <1>1, <2>1, <2>2, <2>3, BooksInput DEF InBooks, Begin, pipes
  <2>5. Rests(a)'
    BY <2>1 DEF Begin, Rests, Open
  <2> QED BY <1>2, <2>4, <2>5, WorkElsewhere
<1>4. CASE Reject(a)
  <2>1. input'[a] = NoMessage
    BY <1>4 DEF Reject, Typed, TypedPipes
  <2>2. InBooks(a)'
    BY <1>1, <1>4, <2>1, BooksInput, NothingHeld DEF InBooks, Reject, pipes
  <2>3. Rests(a)'
    BY <1>1, <1>4, <2>1 DEF Reject, Rests, Idle, pipes
  <2> QED BY <1>2, <2>2, <2>3, WorkElsewhere
<1>5. CASE Forward(a)
  <2>1. /\ session'[a] = Seen(session[a], input[a])
        /\ toNative'[a] = Append(toNative[a], input[a]) /\ input'[a] = NoMessage
        /\ running'[a] = running[a] /\ unseen'[a] = unseen[a]
        /\ owed'[a] = owed[a] /\ toClient'[a] = toClient[a]
    BY <1>5 DEF Forward, Typed, TypedSession, TypedPipes
  <2>2. InBooks(a)'
    <3>1. Books(Seen(session[a], input[a]), NoMessage, Append(toNative[a], input[a]),
                running[a], unseen[a], owed[a], toClient[a])
      BY <1>1, TypesAt, BooksForward DEF InBooks
    <3> QED BY <2>1, <3>1 DEF InBooks
  <2>3. session'[a].draining = session[a].draining
    BY <2>1, TypesAt, SeenType
  <2>4. Rests(a)'
    BY <1>1, <1>5, <2>3 DEF Forward, Open, Rests, Idle
  <2> QED BY <1>2, <2>2, <2>4, WorkElsewhere
<1> QED BY <1>3, <1>4, <1>5

LEMMA ReceiveWork ==
  ASSUME Typed, InvWork, NEW a \in Adapter, Receive(a) PROVE InvWork'
<1>1. InBooks(a) /\ Rests(a)
  BY DEF InvWork
<1>2. \A b \in Adapter : b # a => Same(b)
  BY DEF Typed, TypedPipes, TypedSession, Same, Receive
<1>3. /\ session'[a] = Observed(session[a], Head(toClient[a])) /\ toClient'[a] = Tail(toClient[a])
      /\ input'[a] = input[a] /\ toNative'[a] = toNative[a]
      /\ running'[a] = running[a] /\ owed'[a] = owed[a] /\ phase'[a] = phase[a] /\ polled'[a] = polled[a]
  BY DEF Receive, Typed, TypedSession, TypedPipes
<1>8. PICK h : h = Head(toClient[a])
  OBVIOUS
<1>9. /\ \A x \in unseen[a] \ unseen'[a] : Announces(h, x)
      /\ session[a].draining => unseen'[a] = unseen[a]
  BY <1>8 DEF Receive, Typed, TypedPipes, Announces
<1>4. Books(Observed(session[a], Head(toClient[a])), input[a], toNative[a],
            running[a], unseen'[a], owed[a], Tail(toClient[a]))
  BY <1>1, <1>8, <1>9, TypesAt, BooksReceive DEF InBooks, Receive
<1>5. InBooks(a)'
  BY <1>3, <1>4 DEF InBooks
<1>6. session'[a].draining = session[a].draining
  <2>1. Head(toClient[a]) \in Formed
    BY TypesAt DEF Receive
  <2> QED BY <1>3, <2>1, TypesAt, ObservedType
<1>7. Rests(a)'
  BY <1>1, <1>3, <1>6, <1>9 DEF Rests, Receive, Open
<1> QED BY <1>2, <1>5, <1>7, WorkElsewhere

\* The app server: what an idle one does starts no work.
LEMMA ReadWork ==
  ASSUME Typed, InvWork, NEW a \in Adapter, NativeRead(a) PROVE InvWork'
<1>1. InBooks(a) /\ Rests(a)
  BY DEF InvWork
<1>2. \A b \in Adapter : b # a /\ unseen'[b] = unseen[b] => Same(b)
  BY DEF Typed, TypedPipes, TypedSession, Same, NativeRead, files
<1>3. PICK h : h = Head(toNative[a])
  OBVIOUS
<1>4. h \in Formed /\ toNative[a] # <<>> /\ toNative[a][1] = h /\ 1 \in DOMAIN toNative[a]
  BY <1>3, TypesAt DEF NativeRead
<1>5. PICK rest : rest = Tail(toNative[a])
  OBVIOUS
<1>6. rest \in Seq(Formed) /\ \A i \in DOMAIN rest : \E j \in DOMAIN toNative[a] : rest[i] = toNative[a][j]
  <2>1. \A i \in DOMAIN rest : i + 1 \in DOMAIN toNative[a] /\ rest[i] = toNative[a][i + 1]
    BY <1>4, <1>5, TypesAt
  <2> QED BY <1>4, <1>5, <2>1, TypesAt
<1>7. /\ toNative'[a] = rest /\ session'[a] = session[a] /\ input'[a] = input[a]
      /\ toClient'[a] = toClient[a] /\ phase'[a] = phase[a] /\ polled'[a] = polled[a]
  BY <1>5 DEF NativeRead, Typed, TypedPipes, files
<1>8. ASSUME h.kind \in {"turn", "shell"}, h.thread \notin Busy(a),
             NEW u \in Turn, Unused(a, u),
             running' = [running EXCEPT ![a] = @ \cup {<<h.thread, u>>}],
             NEW n \in Formed, IsAnswer(n), n.call = h.call,
             n.turn # None => h.kind = "turn" /\ n.thread = h.thread,
             owed' = [owed EXCEPT ![a] = @ \cup {n}],
             unseen[a] \subseteq unseen'[a], \A b \in Adapter : b # a => unseen'[b] = unseen[b],
             StartOf(n, <<h.thread, u>>) \/ <<h.thread, u>> \in unseen'[a]
      PROVE  InvWork'
  <2>1. /\ \A b \in Adapter : u \notin Turns(b) \cup session[b].completed
        /\ \A i \in DOMAIN toClient[a] : toClient[a][i].turn # u
    BY <1>8 DEF Unused
  <2>3. IsRequest(h) /\ h.call \in Call /\ h.thread \in Thread
    BY <1>4, <1>8 DEF Formed, IsRequest
  <2>5. n.turn # None => n.thread = Entry(h).thread
    BY <1>8 DEF Entry
  <2>6. running'[a] = running[a] \cup {<<h.thread, u>>} /\ owed'[a] = owed[a] \cup {n}
    BY <1>8 DEF Typed, TypedPipes
  <2>7. PICK run, hid, now : run = running[a] /\ hid = unseen[a] /\ now = owed[a] \cup {n}
    OBVIOUS
  <2>8. Books(session[a], input[a], rest, run, hid, now, toClient[a])
    BY <1>1, <1>3, <1>4, <1>5, <1>8, <2>3, <2>5, <2>7, TypesAt, BooksOwe DEF InBooks
  <2>9. \A x \in run : x[1] # h.thread /\ x[2] # u
    BY <1>8, <2>1, <2>7 DEF Busy, Turns
  <2>10. now \in SUBSET Formed /\ n \in now /\ run \in SUBSET (Thread \X Turn)
    BY <2>7, TypesAt
  <2>11. Books(session[a], input[a], rest, run \cup {<<h.thread, u>>}, unseen'[a], now, toClient[a])
    BY <1>6, <1>8, <2>1, <2>3, <2>7, <2>8, <2>9, <2>10, TypesAt, BooksRun
  <2>12. InBooks(a)'
    BY <1>7, <2>6, <2>7, <2>11 DEF InBooks
  <2>13. Rests(a)'
    BY <1>1, <1>4, <1>7, <2>3 DEF Rests, Idle
  <2> QED BY <1>2, <1>8, <2>12, <2>13, WorkElsewhere DEF Same
<1>9. ASSUME IsRequest(h), NEW kind \in {"reply", "error"},
             owed' = [owed EXCEPT ![a] = @ \cup {Message(kind, h.call, None, None)}],
             UNCHANGED <<running, unseen>>
      PROVE  InvWork'
  <2>1. PICK n : n = Message(kind, h.call, None, None)
    OBVIOUS
  <2>2. IsRequest(h) /\ h.call \in Call
    BY <1>4, <1>9 DEF Formed, IsRequest
  <2>3. n \in Formed
    BY <2>1, <2>2, MessageType DEF Maybe
  <2>4. IsAnswer(n) /\ n.call = h.call /\ n.turn = None
    BY <2>1 DEF Message, IsAnswer
  <2>5. running'[a] = running[a] /\ unseen'[a] = unseen[a] /\ owed'[a] = owed[a] \cup {n}
    BY <1>9, <2>1 DEF Typed, TypedPipes
  <2>6. Books(session[a], input[a], rest, running[a], unseen[a], owed[a] \cup {n}, toClient[a])
    BY <1>1, <1>3, <1>4, <1>5, <2>2, <2>3, <2>4, TypesAt, BooksOwe DEF InBooks
  <2>7. InBooks(a)'
    BY <1>7, <2>5, <2>6 DEF InBooks
  <2>8. Rests(a)'
    BY <1>1, <1>4, <1>7, <2>2 DEF Rests, Idle
  <2> QED BY <1>2, <1>9, <2>7, <2>8, WorkElsewhere DEF Same
<1>10. ASSUME UNCHANGED <<running, owed, unseen>> PROVE InvWork'
  <2>1. Books(session[a], input[a], rest, running[a], unseen[a], owed[a], toClient[a])
    BY <1>1, <1>4, <1>5, TypesAt, BooksRead DEF InBooks
  <2>2. InBooks(a)'
    BY <1>7, <1>10, <2>1 DEF InBooks
  <2>3. Rests(a)'
    BY <1>1, <1>6, <1>7, <1>10 DEF Rests, Idle
  <2> QED BY <1>2, <1>10, <2>2, <2>3, WorkElsewhere DEF Same
<1>11. CASE h.kind = "turn" /\ h.thread \notin Busy(a) /\ UNCHANGED unseen /\ \E u \in Turn :
          /\ Unused(a, u)
          /\ running' = [running EXCEPT ![a] = @ \cup {<<h.thread, u>>}]
          /\ owed' = [owed EXCEPT ![a] = @ \cup {Message("reply", h.call, h.thread, u)}]
  <2>1. PICK u \in Turn :
          /\ Unused(a, u)
          /\ running' = [running EXCEPT ![a] = @ \cup {<<h.thread, u>>}]
          /\ owed' = [owed EXCEPT ![a] = @ \cup {Message("reply", h.call, h.thread, u)}]
    BY <1>11
  <2>2. PICK n : n = Message("reply", h.call, h.thread, u)
    OBVIOUS
  <2>3. h.call \in Call /\ h.thread \in Thread
    BY <1>4, <1>11 DEF Formed, IsRequest
  <2>4. n \in Formed
    BY <2>2, <2>3, MessageType DEF Maybe
  <2>5. IsAnswer(n) /\ n.call = h.call /\ n.thread = h.thread /\ StartOf(n, <<h.thread, u>>)
    BY <2>2 DEF Message, IsAnswer, StartOf
  <2> QED BY <1>8, <1>11, <2>1, <2>2, <2>4, <2>5
<1>12. CASE /\ h.kind = "shell" /\ h.thread \notin Busy(a)
            /\ owed' = [owed EXCEPT ![a] = @ \cup {Message("reply", h.call, None, None)}]
            /\ \E u \in Turn :
                 /\ Unused(a, u)
                 /\ running' = [running EXCEPT ![a] = @ \cup {<<h.thread, u>>}]
                 /\ unseen' = [unseen EXCEPT ![a] = @ \cup {<<h.thread, u>>}]
  <2>1. PICK u \in Turn :
          /\ Unused(a, u)
          /\ running' = [running EXCEPT ![a] = @ \cup {<<h.thread, u>>}]
          /\ unseen' = [unseen EXCEPT ![a] = @ \cup {<<h.thread, u>>}]
    BY <1>12
  <2>2. PICK n : n = Message("reply", h.call, None, None)
    OBVIOUS
  <2>3. h.call \in Call
    BY <1>4, <1>12 DEF Formed, IsRequest
  <2>4. n \in Formed
    BY <2>2, <2>3, MessageType DEF Maybe
  <2>5. IsAnswer(n) /\ n.call = h.call /\ n.turn = None
    BY <2>2 DEF Message, IsAnswer
  <2>6. /\ unseen'[a] = unseen[a] \cup {<<h.thread, u>>}
        /\ \A b \in Adapter : b # a => unseen'[b] = unseen[b]
    BY <2>1 DEF Typed, TypedPipes
  <2> QED BY <1>8, <1>12, <2>1, <2>2, <2>4, <2>5, <2>6
<1> QED BY <1>3, <1>9, <1>10, <1>11, <1>12 DEF NativeRead, IsRequest


LEMMA WriteWork ==
  ASSUME Typed, InvWork, NEW a \in Adapter,
         \/ \E m \in owed[a] : NativeReply(a, m)
         \/ \E t \in Thread : NativeIdle(a, t)
         \/ \E t \in Thread, u \in Turn, kind \in {"started", "ask", "completed"} :
              NativeTurn(a, t, u, kind)
  PROVE  InvWork'
<1>1. InBooks(a) /\ Rests(a)
  BY DEF InvWork
<1>2. ASSUME NEW m \in owed[a], NativeReply(a, m) PROVE InvWork'
  <2>1. \A b \in Adapter : b # a => Same(b)
    BY <1>2 DEF Typed, TypedPipes, TypedSession, Same, NativeReply, Writes, files
  <2>2. /\ toClient'[a] = Append(toClient[a], m) /\ owed'[a] = owed[a] \ {m}
        /\ session'[a] = session[a] /\ input'[a] = input[a] /\ toNative'[a] = toNative[a]
        /\ running'[a] = running[a] /\ unseen'[a] = unseen[a]
        /\ phase'[a] = phase[a] /\ polled'[a] = polled[a]
    BY <1>2 DEF Typed, TypedPipes, NativeReply, Writes, files
  <2>3. Books(session[a], input[a], toNative[a], running[a], unseen[a], owed[a] \ {m}, Append(toClient[a], m))
    BY <1>1, TypesAt, BooksReply DEF InBooks
  <2>4. InBooks(a)'
    BY <2>2, <2>3 DEF InBooks
  <2>5. Rests(a)'
    BY <1>1, <2>2 DEF Rests, Idle
  <2> QED BY <2>1, <2>4, <2>5, WorkElsewhere
<1>3. ASSUME NEW m \in Formed, ~IsAnswer(m), NEW left \in SUBSET running[a],
             \A x \in left : ~Ends(m, x[1]) /\ (m.kind = "completed" => m.turn # x[2]),
             \A x \in left : Announces(m, x) => m.thread = x[1],
             NEW less, left \ less \subseteq running[a] \ unseen[a],
             Writes(a, m), running' = [running EXCEPT ![a] = left],
             unseen' = [unseen EXCEPT ![a] = less],
             UNCHANGED <<phase, session, input, polled, toNative, owed>>
      PROVE  InvWork'
  <2>1. \A b \in Adapter : b # a => Same(b)
    BY <1>3 DEF Typed, TypedPipes, Same, Writes
  <2>2. toClient'[a] = Append(toClient[a], m) /\ running'[a] = left /\ unseen'[a] = less
    BY <1>3 DEF Typed, TypedPipes, Writes
  <2>3. Books(session[a], input[a], toNative[a], left, less, owed[a], Append(toClient[a], m))
    BY <1>1, <1>3, TypesAt, BooksTold DEF InBooks
  <2>4. InBooks(a)'
    BY <1>3, <2>2, <2>3 DEF InBooks
  <2>5. Rests(a)'
    BY <1>1, <1>3, <2>2 DEF Rests, Idle
  <2> QED BY <2>1, <2>4, <2>5, WorkElsewhere
<1>4. ASSUME NEW t \in Thread, NativeIdle(a, t) PROVE InvWork'
  <2>1. PICK m : m = Message("idle", None, t, None)
    OBVIOUS
  <2>2. m \in Formed
    BY <2>1, MessageType DEF Maybe
  <2>3. ~IsAnswer(m) /\ m.kind = "idle" /\ m.thread = t
    BY <2>1 DEF Message, IsAnswer
  <2>4. \A x \in running[a] : ~Ends(m, x[1]) /\ (m.kind = "completed" => m.turn # x[2])
    BY <1>4, <2>3 DEF NativeIdle, Busy, Ends
  <2>5. /\ Writes(a, m) /\ running' = [running EXCEPT ![a] = running[a]]
        /\ unseen' = [unseen EXCEPT ![a] = unseen[a]]
        /\ UNCHANGED <<phase, session, input, polled, toNative, owed>>
    BY <1>4, <2>1 DEF NativeIdle, Typed, TypedPipes
  <2> QED BY <1>3, <2>2, <2>3, <2>4, <2>5 DEF Announces
<1>5. ASSUME NEW t \in Thread, NEW u \in Turn, NEW kind \in {"started", "ask", "completed"},
             NativeTurn(a, t, u, kind)
      PROVE  InvWork'
  <2>1. PICK m : m = Message(kind, None, t, u)
    OBVIOUS
  <2>2. m \in Formed
    BY <2>1, MessageType DEF Maybe
  <2>3. ~IsAnswer(m) /\ m.kind = kind /\ m.thread = t /\ m.turn = u
    BY <2>1 DEF Message, IsAnswer
  <2>4. PICK left \in SUBSET running[a] :
          left = IF kind = "completed" THEN running[a] \ {<<t, u>>} ELSE running[a]
    OBVIOUS
  <2>8. PICK less :
          less = IF kind = "completed" THEN unseen[a] \ {<<t, u>>} ELSE unseen[a]
    OBVIOUS
  <2>5. <<t, u>> \in running[a]
    BY <1>5 DEF NativeTurn
  <2>6. \A x \in left : /\ ~Ends(m, x[1]) /\ (m.kind = "completed" => m.turn # x[2])
                        /\ Announces(m, x) => m.thread = x[1]
    <3>1. \A x, y \in running[a] : x[1] = y[1] \/ x[2] = y[2] => x = y
      BY <1>1 DEF InBooks, Books, Turned
    <3> QED BY <2>3, <2>4, <2>5, <3>1 DEF Ends, Announces
  <2>7. /\ Writes(a, m) /\ running' = [running EXCEPT ![a] = left]
        /\ unseen' = [unseen EXCEPT ![a] = less]
        /\ UNCHANGED <<phase, session, input, polled, toNative, owed>>
    BY <1>5, <2>1, <2>4, <2>8 DEF NativeTurn, Typed, TypedPipes
  <2>9. left \ less \subseteq running[a] \ unseen[a]
    BY <2>4, <2>8
  <2>10. m \in Formed /\ ~IsAnswer(m)
    BY <2>2, <2>3
  <2>11. /\ \A x \in left : ~Ends(m, x[1]) /\ (m.kind = "completed" => m.turn # x[2])
         /\ \A x \in left : Announces(m, x) => m.thread = x[1]
    BY <2>6
  <2> QED BY <1>3, <2>7, <2>9, <2>10, <2>11
<1> QED BY <1>2, <1>4, <1>5

\* A poll changes nothing that is under way, and goes on only when nothing is.
LEMMA PollWork ==
  ASSUME Typed, InvReports, InvWork, NEW a \in Adapter,
         Decline(a) \/ Wait(a) \/ Consider(a) \/ Drain(a) \/ Retreat(a) \/ Finish(a)
  PROVE  InvWork'
<1>1. InBooks(a) /\ Rests(a) /\ session[a] \in Session
  BY TypesAt DEF InvWork
<1>2. \A b \in Adapter : b # a => Same(b)
  BY DEF Typed, TypedSession, Same, Decline, Wait, Consider, Drain, Retreat, Finish, pipes, files
<1>3. UNCHANGED <<input, pipes>>
  BY DEF Decline, Wait, Consider, Drain, Retreat, Finish
<1>4. /\ session'[a].pending = session[a].pending
      /\ session'[a].completed = session[a].completed
      /\ session'[a].active = session[a].active
  BY <1>1 DEF Typed, TypedSession, Session, Decline, Wait, Consider, Drain, Retreat, Finish, files
<1>5. Books(session'[a], input[a], toNative[a], running[a], unseen[a], owed[a], toClient[a])
  BY <1>1, <1>4, BooksSame DEF InBooks
<1>6. InBooks(a)'
  BY <1>3, <1>5 DEF InBooks, pipes
<1>7. CASE Consider(a)
  <2>1. input[a] = NoMessage /\ session[a].pending = {} /\ session[a].active = {}
    BY <1>7 DEF Consider, Nothing
  <2>2. Idle(input[a], toNative[a], running[a], unseen[a], owed[a])
    BY <1>1, <2>1, EmptyBooks DEF InBooks, Idle
  <2>3. Rests(a)'
    BY <1>3, <2>2 DEF Rests, pipes
  <2> QED BY <1>2, <1>6, <2>3, WorkElsewhere
<1>8. CASE Drain(a)
  <2>1. Idle(input[a], toNative[a], running[a], unseen[a], owed[a])
    BY <1>1, <1>8 DEF Drain, Rests
  <2>2. Rests(a)'
    BY <1>3, <2>1 DEF Rests, pipes
  <2> QED BY <1>2, <1>6, <2>2, WorkElsewhere
<1>9. CASE Decline(a) \/ Wait(a) \/ Retreat(a) \/ Finish(a)
  <2>1. session'[a].draining = session[a].draining /\ (polled'[a] = None \/ polled'[a] = polled[a])
    BY <1>1, <1>9 DEF Typed, TypedSession, Session, Decline, Wait, Retreat, Finish, files
  <2>2. phase'[a] = "running" => phase[a] = "running"
    BY <1>9 DEF Typed, TypedSession, Decline, Wait, Retreat, Finish, files
  <2>3. Rests(a)'
    BY <1>1, <1>3, <2>1, <2>2 DEF Rests, pipes
  <2> QED BY <1>2, <1>6, <2>3, WorkElsewhere
<1> QED BY <1>7, <1>8, <1>9

\* The end of the app server takes everything with it.
LEMMA EndWork ==
  ASSUME Typed, InvWork, NEW a \in Adapter, Stop(a) \/ Die(a) PROVE InvWork'
<1>1. \A b \in Adapter : b # a => Same(b)
  BY DEF Typed, TypedSession, TypedPipes, Same, Stop, Die
<1>2. /\ input'[a] = NoMessage /\ toNative'[a] = <<>> /\ toClient'[a] = <<>>
      /\ running'[a] = {} /\ owed'[a] = {} /\ phase'[a] # "running"
  BY DEF Typed, TypedSession, TypedPipes, Stop, Die
<1>3. InBooks(a)'
  BY <1>2, BooksNone DEF InBooks
<1>4. Rests(a)'
  BY <1>2 DEF Rests
<1> QED BY <1>1, <1>3, <1>4, WorkElsewhere

LEMMA NextWork == Typed /\ InvReports /\ InvWork /\ [Next]_vars => InvWork'
<1> SUFFICES ASSUME Typed, InvReports, InvWork, [Next]_vars PROVE InvWork'
  OBVIOUS
<1>1. ASSUME UNCHANGED <<phase, session, input, polled, pipes>> PROVE InvWork'
  BY <1>1 DEF InvWork, InBooks, Rests, pipes
<1>2. CASE CommandStep
  <2>1. UNCHANGED <<phase, session, input, polled, pipes>>
    BY <1>2 DEF CommandStep, ArmReport, ArmRequest, CancelRequest, CancelReport, CommandDies, Setup, Expire
  <2> QED BY <1>1, <2>1
<1>3. CASE UNCHANGED vars
  BY <1>1, <1>3 DEF vars
<1>4. ASSUME NEW a \in Adapter, NativeStep(a) \/ AdapterStep(a) PROVE InvWork'
  <2>1. NativeStep(a) => InvWork'
    BY ReadWork, WriteWork DEF NativeStep
  <2>2. AdapterStep(a) => InvWork'
    BY ClientWork, ReceiveWork, PollWork, EndWork DEF AdapterStep
  <2> QED BY <1>4, <2>1, <2>2
<1> QED BY <1>2, <1>3, <1>4 DEF Next

\* While a session drains, the app server runs no turn and owes no answer, no
\* request of the client is on its way, and none is let in.
THEOREM FinishedWork == Spec => []WorkIsFinished
<1>1. InvWork => WorkIsFinished
  BY DEF InvWork, Rests, Idle, WorkIsFinished, IsRequest
<1> QED BY InitTyped, NextTyped, InitReports, NextReports, InitWork, NextWork, <1>1, PTL DEF Spec

=============================================================================
