--------------------------- MODULE DesktopLifecycle ---------------------------
(***************************************************************************)
(* class Lifecycle of assets/codex_desktop.py: the desktop adapter stands  *)
(* between Codex Desktop and one native app server, reserves the workspace *)
(* of a chat before it forwards work, links the thread Codex answers with, *)
(* and gives the workspace back after the last thread closed.              *)
(*                                                                         *)
(* Every adapter runs two threads: the input thread prepares one request   *)
(* at a time, the output thread handles one message of the app server at   *)
(* a time.  They share named, named_threads and pending under a gate that  *)
(* neither holds across a call of the registry.  The registry is taken as  *)
(* WorkspaceRegistry proves it: attach and release are atomic, a lease of  *)
(* a dead adapter is free.                                                 *)
(***************************************************************************)
EXTENDS Naturals, Sequences

CONSTANTS
  Adapter,    \* adapter processes, one per desktop connection
  Thread,     \* chats of the native history store
  Workspace,  \* named workspaces
  Cwd,        \* the workspace each chat works in, None for an ordinary project
  Starting,   \* where the client starts chats, None for an ordinary project
  Call,       \* identities of requests in flight
  Token,      \* lease tokens
  MaxQueue,   \* bound on the messages the app server has written ahead
  Failing,    \* bound: the adapters in which a step of the output thread may fail
  Lingering,  \* bound: whether the input thread is followed past a failure or the end
  None

ASSUME CwdAssumption == Cwd \in [Thread -> Workspace \cup {None}]
ASSUME StartingAssumption == Starting \subseteq Workspace \cup {None}
ASSUME BoundAssumption == MaxQueue \in Nat /\ Lingering \in BOOLEAN
ASSUME FailingAssumption == Failing \subseteq Adapter
ASSUME NoneAssumption == None \notin Adapter \cup Thread \cup Workspace \cup Call \cup Token

VARIABLES
  phase,         \* running, failing, closing, dropping or dead
  named,         \* leases the adapter knows, per workspace
  named_threads, \* workspace of each thread the adapter keeps leased
  threads,       \* threads registered by the adapter
  pending,       \* requests forwarded or about to be
  input,         \* what the input thread is doing
  output,        \* what the output thread has left to do for its message
  sent,          \* requests the app server has not answered
  loaded,        \* threads loaded in the app server
  replies,       \* messages the app server has written
  born,          \* threads that exist in the history store
  record,        \* thread records: whether saved, and their leases
  lease          \* registry leases

local == <<phase, named, named_threads, threads, pending, input, output>>
native == <<sent, loaded, replies, born>>
vars == <<local, native, record, lease>>

Maybe(S) == S \cup {None}
Free    == [token |-> None, owner |-> None]
Unknown == [token |-> None, owned |-> FALSE]
NoInput == [at |-> "none", call |-> None, method |-> "none", thread |-> None,
            workspace |-> None, value |-> Unknown]
Task(do, t, w, value) == [do |-> do, thread |-> t, workspace |-> w, value |-> value]

\* A connection closes when its app server has ended; one in which a step of the
\* output thread failed stays open until then, and is told apart.
Phases == {"running", "failing", "closing", "dropping", "dead"}
Open    == {"running", "failing"}
Reading == IF Lingering THEN Open ELSE {"running"}
Closing == {"closing", "dropping"}
Methods == {"start", "resume", "turn", "unsubscribe"}
Value   == [token : Maybe(Token), owned : BOOLEAN]
Pending == [call : Call, method : Methods, thread : Maybe(Thread),
            workspace : Maybe(Workspace)]
Input   == [at : {"none", "reserved", "noted", "undo", "release", "claimed", "pended"},
            call : Maybe(Call), method : Methods \cup {"none"},
            thread : Maybe(Thread), workspace : Maybe(Workspace), value : Value]
Tasks   == [do : {"reserve", "note", "attach", "forget", "unrecord", "bind",
                  "check", "release"},
            thread : Maybe(Thread), workspace : Maybe(Workspace), value : Value]
Message == [kind : {"reply", "error", "notLoaded", "started", "closed"}, call : Maybe(Call),
            thread : Maybe(Thread)]

TypeOK ==
  /\ phase \in [Adapter -> Phases]
  /\ named \in [Adapter -> [Workspace -> Value]]
  /\ named_threads \in [Adapter -> [Thread -> Maybe(Workspace)]]
  /\ threads \in [Adapter -> SUBSET Thread]
  /\ pending \in [Adapter -> SUBSET Pending]
  /\ input \in [Adapter -> Input]
  /\ output \in [Adapter -> Seq(Tasks)]
  /\ sent \in [Adapter -> SUBSET Pending]
  /\ loaded \in [Adapter -> SUBSET Thread]
  /\ replies \in [Adapter -> Seq(Message)]
  /\ born \in SUBSET Thread
  /\ record \in [Thread -> [saved : BOOLEAN, leases : SUBSET Adapter]]
  /\ lease \in [Workspace -> [token : Maybe(Token), owner : Maybe(Adapter)]]

\* Some chats were made by the plain native CLI and have no record yet.
Init ==
  /\ phase = [a \in Adapter |-> "running"]
  /\ named = [a \in Adapter |-> [w \in Workspace |-> Unknown]]
  /\ named_threads = [a \in Adapter |-> [t \in Thread |-> None]]
  /\ threads = [a \in Adapter |-> {}]
  /\ pending = [a \in Adapter |-> {}]
  /\ input = [a \in Adapter |-> NoInput]
  /\ output = [a \in Adapter |-> <<>>]
  /\ sent = [a \in Adapter |-> {}]
  /\ loaded = [a \in Adapter |-> {}]
  /\ replies = [a \in Adapter |-> <<>>]
  /\ born \in SUBSET Thread
  /\ record = [t \in Thread |-> [saved |-> FALSE, leases |-> {}]]
  /\ lease = [w \in Workspace |-> Free]

-----------------------------------------------------------------------------
Live == {a \in DOMAIN phase : phase[a] # "dead"}

\* `workspace _attach --pid <adapter>`: granted when the lease is free or its
\* owner is dead, shared with the adapter that owns it.
Busy(a, w) == lease[w].owner \in Live \ {a}
Owns(a, w) == lease[w].owner = a

FreshToken(k) ==
  /\ \A w \in Workspace : lease[w].token # k
  /\ \A a \in Adapter : /\ \A w \in Workspace : named[a][w].token # k
                        /\ input[a].value.token # k
                        /\ \A i \in DOMAIN output[a] : output[a][i].value.token # k

\* What an attach of a to w answers and what it leaves in the registry.
Attached(a, w, value) ==
  /\ ~Busy(a, w)
  /\ \/ /\ Owns(a, w)
        /\ value = [token |-> lease[w].token, owned |-> FALSE]
        /\ UNCHANGED lease
     \/ /\ ~Owns(a, w)
        /\ \E k \in Token :
             /\ FreshToken(k)
             /\ value = [token |-> k, owned |-> TRUE]
             /\ lease' = [lease EXCEPT ![w] = [token |-> k, owner |-> a]]

\* `workspace _release`: only the very lease it names.
Released(a, w, value) ==
  lease' = IF lease[w] = [token |-> value.token, owner |-> a]
           THEN [lease EXCEPT ![w] = Free] ELSE lease

\* self.named.setdefault
Noted(a, w, value) ==
  named' = IF named[a][w] = Unknown THEN [named EXCEPT ![a][w] = value] ELSE named

\* Another adapter's live lease on the thread's record.
Taken(a, t) == record[t].leases \cap (Live \ {a}) # {}

\* Nothing in the adapter's books uses the workspace.
Unused(a, w) ==
  /\ \A t \in Thread : named_threads[a][t] # w
  /\ \A e \in pending[a] : e.workspace # w

-----------------------------------------------------------------------------
(* The input thread: Lifecycle.request, then the write to the app server.  *)

\* The input thread waits for a request.
Listens(a) == input[a] = NoInput /\ phase[a] \in Reading

\* The request the input thread takes up has an identity of its own.
Takes(a, at, method, t, w, value) ==
  \E c \in Call :
    /\ \A e \in pending[a] \cup sent[a] : e.call # c
    /\ input' = [input EXCEPT ![a] =
         [at |-> at, call |-> c, method |-> method, thread |-> t,
          workspace |-> w, value |-> value]]

\* A request that works in a directory, up to the registry call of reserve;
\* the answer is not in the books yet.  Resumed work names a chat that no other
\* live adapter has on record and works where the chat is linked to.  A request
\* refused here, or because the workspace is busy, changes nothing.
Reserve(a, method, t, w) ==
  /\ Listens(a) /\ method \in {"start", "resume", "turn"}
  /\ method = "start" <=> t = None
  /\ method = "start" => w \in Starting
  /\ t # None => t \in born /\ w = Cwd[t] /\ ~Taken(a, t)
  /\ IF w = None
     THEN /\ Takes(a, IF method = "start" THEN "claimed" ELSE "noted", method, t, w, Unknown)
          /\ UNCHANGED lease
     ELSE \E value \in Value :
            Attached(a, w, value) /\ Takes(a, "reserved", method, t, w, value)
  /\ UNCHANGED <<phase, named, named_threads, threads, pending, output, native, record>>

Unsubscribe(a, t) ==
  /\ Listens(a) /\ t \in born
  /\ Takes(a, "claimed", "unsubscribe", t, None, Unknown)
  /\ UNCHANGED <<phase, named, named_threads, threads, pending, output, native,
                 record, lease>>

Note(a) ==
  /\ input[a].at = "reserved"
  /\ Noted(a, input[a].workspace, input[a].value)
  /\ input' = [input EXCEPT ![a].at =
       IF input[a].method = "start" THEN "claimed" ELSE "noted"]
  /\ UNCHANGED <<phase, named_threads, threads, pending, output, native, record, lease>>

\* Resumed work takes the thread's record, if it has one, under its lock.
Claim(a) ==
  LET t == input[a].thread IN
  /\ input[a].at = "noted"
  /\ IF record[t].saved /\ Taken(a, t)
     THEN /\ input' = [input EXCEPT ![a].at = "undo"]
          /\ UNCHANGED record
     ELSE /\ input' = [input EXCEPT ![a].at = "claimed"]
          /\ record' = IF record[t].saved
                       THEN [record EXCEPT ![t].leases = (@ \cap Live) \cup {a}]
                       ELSE record
  /\ UNCHANGED <<phase, named, named_threads, threads, pending, output, native, lease>>

\* release_unused after a failed claim, then its registry call.
Undo(a) ==
  LET w == input[a].workspace IN
  /\ input[a].at = "undo"
  /\ IF w # None /\ Unused(a, w) /\ named[a][w] # Unknown
     THEN /\ named' = [named EXCEPT ![a][w] = Unknown]
          /\ input' = [input EXCEPT ![a] =
               IF named[a][w].owned
               THEN [input[a] EXCEPT !.at = "release", !.value = named[a][w]]
               ELSE NoInput]
     ELSE /\ input' = [input EXCEPT ![a] = NoInput]
          /\ UNCHANGED named
  /\ UNCHANGED <<phase, named_threads, threads, pending, output, native, record, lease>>

UndoRelease(a) ==
  /\ input[a].at = "release"
  /\ Released(a, input[a].workspace, input[a].value)
  /\ input' = [input EXCEPT ![a] = NoInput]
  /\ UNCHANGED <<phase, named, named_threads, threads, pending, output, native, record>>

Expect(a) ==
  /\ input[a].at = "claimed"
  /\ pending' = [pending EXCEPT ![a] = @ \cup
       {[call |-> input[a].call, method |-> input[a].method,
         thread |-> input[a].thread, workspace |-> input[a].workspace]}]
  /\ input' = [input EXCEPT ![a].at = "pended"]
  /\ UNCHANGED <<phase, named, named_threads, threads, output, native, record, lease>>

\* The write waits for the output thread to finish its message; a closing app
\* server does not read it any more.
Forward(a) ==
  /\ input[a].at = "pended" /\ output[a] = <<>>
  /\ sent' = IF phase[a] \in Open
             THEN [sent EXCEPT ![a] = @ \cup
                    {[call |-> input[a].call, method |-> input[a].method,
                      thread |-> input[a].thread, workspace |-> input[a].workspace]}]
             ELSE sent
  /\ input' = [input EXCEPT ![a] = NoInput]
  /\ UNCHANGED <<phase, named, named_threads, threads, pending, output,
                 loaded, replies, born, record, lease>>

-----------------------------------------------------------------------------
(* The native app server, as the adapter and its tests use it.             *)

Says(a, m) ==
  /\ Len(replies[a]) < MaxQueue
  /\ replies' = [replies EXCEPT ![a] = Append(@, m)]

AnswerStart(a, e, t) ==
  /\ e \in sent[a] /\ e.method = "start"
  /\ t \notin born /\ Cwd[t] = e.workspace
  /\ sent' = [sent EXCEPT ![a] = @ \ {e}]
  /\ born' = born \cup {t}
  /\ loaded' = [loaded EXCEPT ![a] = @ \cup {t}]
  /\ Says(a, [kind |-> "reply", call |-> e.call, thread |-> t])
  /\ UNCHANGED <<local, record, lease>>

AnswerResume(a, e) ==
  /\ e \in sent[a] /\ e.method = "resume"
  /\ sent' = [sent EXCEPT ![a] = @ \ {e}]
  /\ loaded' = [loaded EXCEPT ![a] = @ \cup {e.thread}]
  /\ Says(a, [kind |-> "reply", call |-> e.call, thread |-> e.thread])
  /\ UNCHANGED <<local, born, record, lease>>

\* A turn starts only in a loaded thread; unsubscribing from one that is not
\* loaded says so.
AnswerThread(a, e) ==
  /\ e \in sent[a] /\ e.method \in {"turn", "unsubscribe"}
  /\ sent' = [sent EXCEPT ![a] = @ \ {e}]
  /\ Says(a, [kind |-> IF e.thread \in loaded[a] THEN "reply"
                       ELSE IF e.method = "turn" THEN "error" ELSE "notLoaded",
              call |-> e.call, thread |-> None])
  /\ UNCHANGED <<local, loaded, born, record, lease>>

AnswerError(a, e) ==
  /\ e \in sent[a]
  /\ sent' = [sent EXCEPT ![a] = @ \ {e}]
  /\ Says(a, [kind |-> "error", call |-> e.call, thread |-> None])
  /\ UNCHANGED <<local, loaded, born, record, lease>>

\* A thread announces another one it started in its directory.
StartedThread(a, t) ==
  /\ t \notin born /\ \E s \in loaded[a] : Cwd[s] = Cwd[t]
  /\ born' = born \cup {t}
  /\ loaded' = [loaded EXCEPT ![a] = @ \cup {t}]
  /\ Says(a, [kind |-> "started", call |-> None, thread |-> t])
  /\ UNCHANGED <<local, sent, record, lease>>

CloseThread(a, t) ==
  /\ t \in loaded[a]
  /\ loaded' = [loaded EXCEPT ![a] = @ \ {t}]
  /\ Says(a, [kind |-> "closed", call |-> None, thread |-> t])
  /\ UNCHANGED <<local, sent, born, record, lease>>

-----------------------------------------------------------------------------
(* The output thread: Lifecycle.response, one registry or file operation   *)
(* at a time.                                                              *)

\* What is left to do for the answer to a request of the books.
Settles(a, e, m) ==
  LET none == Unknown IN
  (IF \/ m.kind = "error" /\ e.thread # None /\ e.thread \notin threads[a]
      \/ m.kind = "notLoaded"
   THEN <<Task("forget", e.thread, None, none)>> ELSE <<>>)
  \o (IF m.kind = "reply" /\ e.method = "turn" /\ e.workspace # None
      THEN <<Task("bind", e.thread, e.workspace, none)>> ELSE <<>>)
  \o (IF e.workspace # None
      THEN <<Task("check", None, e.workspace, none)>> ELSE <<>>)

Response(a) ==
  LET m == Head(replies[a])
      answered == {e \in pending[a] : e.call = m.call}
  IN
  /\ phase[a] \in Open /\ output[a] = <<>> /\ replies[a] # <<>>
  /\ replies' = [replies EXCEPT ![a] = Tail(@)]
  /\ pending' = [pending EXCEPT ![a] = @ \ answered]
  /\ output' = [output EXCEPT ![a] =
       (IF m.kind \in {"reply", "started"} /\ m.thread # None
        THEN (IF Cwd[m.thread] = None THEN <<>>
              ELSE <<Task("reserve", m.thread, Cwd[m.thread], Unknown)>>)
             \o <<Task("attach", m.thread, Cwd[m.thread], Unknown)>> ELSE <<>>)
       \o (IF m.kind = "closed"
           THEN <<Task("forget", m.thread, None, Unknown)>> ELSE <<>>)
       \o (IF answered = {} THEN <<>>
           ELSE Settles(a, CHOOSE e \in answered : TRUE, m))]
  /\ UNCHANGED <<phase, named, named_threads, threads, input, sent, loaded, born,
                 record, lease>>

Doing(a, do) == output[a] # <<>> /\ Head(output[a]).do = do

\* The remaining tasks of a, with new ones in front.
Continue(a, tasks) == output' = [output EXCEPT ![a] = tasks \o Tail(@)]

LinkReserve(a) ==
  LET task == Head(output[a]) IN
  /\ Doing(a, "reserve")
  /\ \E value \in Value :
       /\ Attached(a, task.workspace, value)
       /\ Continue(a, <<Task("note", task.thread, task.workspace, value)>>)
  /\ UNCHANGED <<phase, named, named_threads, threads, pending, input, native, record>>

LinkNote(a) ==
  LET task == Head(output[a]) IN
  /\ Doing(a, "note")
  /\ Noted(a, task.workspace, task.value)
  /\ named_threads' = [named_threads EXCEPT ![a][task.thread] = task.workspace]
  /\ Continue(a, <<>>)
  /\ UNCHANGED <<phase, threads, pending, input, native, record, lease>>

\* attach: the thread's record is taken, or made, under its lock.
LinkAttach(a) ==
  LET t == Head(output[a]).thread IN
  /\ Doing(a, "attach")
  /\ ~Taken(a, t)
  /\ record' = [record EXCEPT ![t] =
       [saved |-> TRUE, leases |-> (@.leases \cap Live) \cup {a}]]
  /\ threads' = [threads EXCEPT ![a] = @ \cup {t}]
  /\ Continue(a, <<>>)
  /\ UNCHANGED <<phase, named, named_threads, pending, input, native, lease>>

\* A turn was accepted: its thread keeps the workspace.
Bind(a) ==
  LET task == Head(output[a]) IN
  /\ Doing(a, "bind")
  /\ named_threads' = [named_threads EXCEPT ![a][task.thread] = task.workspace]
  /\ threads' = [threads EXCEPT ![a] = @ \cup {task.thread}]
  /\ Continue(a, <<>>)
  /\ UNCHANGED <<phase, named, pending, input, native, record, lease>>

\* Mutant of Forget: the thread stays registered.
ForgetKeepsThread(a) ==
  LET t == Head(output[a]).thread
      w == named_threads[a][t]
  IN
  /\ Doing(a, "forget")
  /\ named_threads' = [named_threads EXCEPT ![a][t] = None]
  /\ Continue(a, <<Task("unrecord", t, None, Unknown)>>
                 \o (IF w = None THEN <<>> ELSE <<Task("check", None, w, Unknown)>>))
  /\ UNCHANGED <<phase, named, threads, pending, input, native, record, lease>>

\* closed_thread: the books first, the record next, the workspace last.
Forget(a) ==
  LET t == Head(output[a]).thread
      w == named_threads[a][t]
  IN
  /\ Doing(a, "forget")
  /\ named_threads' = [named_threads EXCEPT ![a][t] = None]
  /\ threads' = [threads EXCEPT ![a] = @ \ {t}]
  /\ Continue(a, <<Task("unrecord", t, None, Unknown)>>
                 \o (IF w = None THEN <<>> ELSE <<Task("check", None, w, Unknown)>>))
  /\ UNCHANGED <<phase, named, pending, input, native, record, lease>>

Unrecord(a) ==
  /\ Doing(a, "unrecord")
  /\ record' = [record EXCEPT ![Head(output[a]).thread].leases = (@ \cap Live) \ {a}]
  /\ Continue(a, <<>>)
  /\ UNCHANGED <<phase, named, named_threads, threads, pending, input, native, lease>>

\* Mutant of Check: the lease is released but stays in the books.
CheckKeepsEntry(a) ==
  LET w == Head(output[a]).workspace IN
  /\ Doing(a, "check")
  /\ Continue(a, IF Unused(a, w) /\ named[a][w].owned
                 THEN <<Task("release", None, w, named[a][w])>> ELSE <<>>)
  /\ UNCHANGED <<phase, named, named_threads, threads, pending, input, native,
                 record, lease>>

\* release_unused up to the registry call.
Check(a) ==
  LET w == Head(output[a]).workspace IN
  /\ Doing(a, "check")
  /\ named' = IF Unused(a, w) THEN [named EXCEPT ![a][w] = Unknown] ELSE named
  /\ Continue(a, IF Unused(a, w) /\ named[a][w].owned
                 THEN <<Task("release", None, w, named[a][w])>> ELSE <<>>)
  /\ UNCHANGED <<phase, named_threads, threads, pending, input, native, record, lease>>

Release(a) ==
  LET task == Head(output[a]) IN
  /\ Doing(a, "release")
  /\ Released(a, task.workspace, task.value)
  /\ Continue(a, <<>>)
  /\ UNCHANGED <<phase, named, named_threads, threads, pending, input, native, record>>

\* A step that calls the registry or opens the record fails: a busy workspace,
\* a lost answer, a taken record, a file that cannot be had.  The steps of the
\* message that were left are not done, the app server is told to end, and both
\* threads go on until it has, at most five seconds.
Fails(a) ==
  /\ phase[a] \in Open /\ a \in Failing
  /\ \E do \in {"reserve", "note", "attach", "unrecord", "release"} : Doing(a, do)
  /\ phase' = [phase EXCEPT ![a] = "failing"]
  /\ output' = [output EXCEPT ![a] = <<>>]
  /\ input' = IF Lingering THEN input ELSE [input EXCEPT ![a] = NoInput]
  /\ UNCHANGED <<named, named_threads, threads, pending, native, record, lease>>

-----------------------------------------------------------------------------
(* The end of a connection.                                                *)

\* The app server has closed its output, because its input was closed or it was
\* told to end, and what it wrote has been handled.  Lifecycle.close begins with
\* the requests.  The input thread may still run to the end of its request.
Stop(a) ==
  /\ phase[a] \in Open /\ output[a] = <<>> /\ replies[a] = <<>>
  /\ phase' = [phase EXCEPT ![a] = IF @ = "running" THEN "closing" ELSE "dropping"]
  /\ pending' = [pending EXCEPT ![a] = {}]
  /\ sent' = [sent EXCEPT ![a] = {}]
  /\ loaded' = [loaded EXCEPT ![a] = {}]
  /\ input' = IF Lingering THEN input ELSE [input EXCEPT ![a] = NoInput]
  /\ UNCHANGED <<named, named_threads, threads, output, replies, born, record, lease>>

\* Lifecycle.close goes on with every thread, then with every workspace.
Close(a) ==
  /\ phase[a] \in Closing /\ output[a] = <<>>
  /\ \/ \E t \in threads[a] :
          output' = [output EXCEPT ![a] = <<Task("forget", t, None, Unknown)>>]
     \/ /\ threads[a] = {}
        /\ \E w \in Workspace :
             /\ named[a][w] # Unknown
             /\ output' = [output EXCEPT ![a] = <<Task("check", None, w, Unknown)>>]
  /\ UNCHANGED <<phase, named, named_threads, threads, pending, input, native,
                 record, lease>>

\* The process exits or is killed.  Its files stay as they are; a process
\* that is gone counts for nothing in them.
Die(a) ==
  /\ phase[a] # "dead"
  /\ phase' = [phase EXCEPT ![a] = "dead"]
  /\ named' = [named EXCEPT ![a] = [w \in Workspace |-> Unknown]]
  /\ named_threads' = [named_threads EXCEPT ![a] = [t \in Thread |-> None]]
  /\ threads' = [threads EXCEPT ![a] = {}]
  /\ pending' = [pending EXCEPT ![a] = {}]
  /\ input' = [input EXCEPT ![a] = NoInput]
  /\ output' = [output EXCEPT ![a] = <<>>]
  /\ sent' = [sent EXCEPT ![a] = {}]
  /\ loaded' = [loaded EXCEPT ![a] = {}]
  /\ replies' = [replies EXCEPT ![a] = <<>>]
  /\ UNCHANGED <<born, record, lease>>

-----------------------------------------------------------------------------
InputStep(a) ==
  \/ \E method \in Methods, t \in Maybe(Thread), w \in Maybe(Workspace) :
       Reserve(a, method, t, w)
  \/ \E t \in Thread : Unsubscribe(a, t)
  \/ Note(a) \/ Claim(a) \/ Undo(a) \/ UndoRelease(a)
  \/ Expect(a) \/ Forward(a)

OutputStep(a) ==
  \/ Response(a) \/ LinkReserve(a) \/ LinkNote(a) \/ LinkAttach(a) \/ Bind(a)
  \/ Forget(a) \/ Unrecord(a) \/ Check(a) \/ Release(a)
  \/ Fails(a)

NativeStep(a) ==
  \/ \E e \in sent[a] :
       \/ \E t \in Thread : AnswerStart(a, e, t)
       \/ AnswerResume(a, e) \/ AnswerThread(a, e) \/ AnswerError(a, e)
  \/ \E t \in Thread : StartedThread(a, t) \/ CloseThread(a, t)

Next ==
  \E a \in Adapter :
    InputStep(a) \/ OutputStep(a) \/ NativeStep(a) \/ Stop(a) \/ Close(a) \/ Die(a)

Spec == Init /\ [][Next]_vars

-----------------------------------------------------------------------------
(* Properties.                                                             *)

\* Connections in which no step of the output thread has failed.
Sound == {a \in DOMAIN phase : phase[a] \in {"running", "closing"}}

\* A chat is registered with one sound connection at a time, whatever resumes,
\* announcements, failures of others and closings overlap (attach's and request's
\* check under the record's lock, closed_thread's order).  A connection in which
\* a step failed may have a chat in its books whose record it never took, but not
\* its record.
ThreadsAreExclusive ==
  \A a \in Sound : \A b \in Live \ {a} : \A t \in threads[a] \cap threads[b] :
    b \notin Sound /\ b \notin record[t].leases

\* A lease the adapter has on its books as its own is the lease the registry
\* has: neither thread of the adapter gives it back behind the other's back.
OwnedIsHeld ==
  \A a \in Live, w \in Workspace :
    named[a][w].owned => lease[w] = [token |-> named[a][w].token, owner |-> a]

\* "It reserves the workspace before forwarding work": what the app server is
\* working on is leased to the adapter (WORKSPACES.md:218).
ForwardedIsLeased ==
  \A a \in Adapter : \A e \in sent[a] : e.workspace # None => Owns(a, e.workspace)

\* Nothing is under way in a connection.
Quiet(a) ==
  /\ phase[a] = "running" /\ input[a] = NoInput /\ output[a] = <<>>
  /\ sent[a] = {} /\ replies[a] = <<>>

\* "The adapter releases the last thread's lease when Codex confirms
\* thread/closed or notLoaded": a quiet connection with no thread open in a
\* workspace does not keep it (WORKSPACES.md:224).
LastCloseReleases ==
  \A a \in Adapter, w \in Workspace :
    Quiet(a) /\ (\A t \in loaded[a] : Cwd[t] # w) => ~Owns(a, w)
=============================================================================
