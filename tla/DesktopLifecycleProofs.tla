------------------------ MODULE DesktopLifecycleProofs ------------------------
(***************************************************************************)
(* Two results for any number of adapters, chats, workspaces and messages,  *)
(* and whichever adapters fail, stop or die at whatever step: the two       *)
(* threads of an adapter never give a lease back behind each other's back   *)
(* (Inv), and no chat is registered with two live adapters in which no step *)
(* failed (InvThreads).                                                     *)
(***************************************************************************)
EXTENDS DesktopLifecycle, TLAPS

\* The part of the type invariant the argument needs.  What chat or workspace a
\* task names does not matter to it.
Dos == {"reserve", "note", "attach", "forget", "unrecord", "bind", "check", "release"}
TaskOf(X) == [do : Dos, thread : X, workspace : X, value : X]
Shape == \E X : output \in [Adapter -> Seq(TaskOf(X))]

\* Only the first task of the output thread has a lease in its hands, and one
\* it has yet to note is an answer of the registry.
Plain(task) == task.do \notin {"note", "release"}
Orderly(tasks) ==
  /\ \A i \in 2..Len(tasks) : Plain(tasks[i])
  /\ tasks # <<>> /\ Head(tasks).do = "note" => Head(tasks).value \in Value

Typed ==
  /\ phase \in [Adapter -> Phases]
  /\ named \in [Adapter -> [Workspace -> Value]]
  /\ input \in [Adapter -> Input]
  /\ lease \in [Workspace -> [token : Maybe(Token), owner : Maybe(Adapter)]]
  /\ Shape /\ \A a \in Adapter : Orderly(output[a])

\* Where an adapter has a lease of its own: in its books, in the hands of the
\* input thread, before the books or after them, or of the output thread.
InBooks(a, w) == named[a][w].owned
InHand(a, w) ==
  /\ input[a].workspace = w
  /\ input[a].at = "release" \/ (input[a].at = "reserved" /\ input[a].value.owned)
Top(a) == Head(output[a])
InTask(a, w) ==
  /\ output[a] # <<>> /\ Top(a).workspace = w
  /\ Top(a).do = "release" \/ (Top(a).do = "note" /\ Top(a).value.owned)

\* A lease is in one of the places at a time, and it is the registry's.
Held(a, w, value) == lease[w] = [token |-> value.token, owner |-> a]
KeepsAt(a, w) ==
  /\ InBooks(a, w) => Held(a, w, named[a][w])
  /\ InHand(a, w) => Held(a, w, input[a].value)
  /\ InTask(a, w) => Held(a, w, Top(a).value)
  /\ ~(InBooks(a, w) /\ InHand(a, w))
  /\ ~(InBooks(a, w) /\ InTask(a, w))
  /\ ~(InHand(a, w) /\ InTask(a, w))
Keeps(a) == \A w \in Workspace : KeepsAt(a, w)

Inv == Typed /\ \A a \in Live : Keeps(a)

-----------------------------------------------------------------------------
(* Tasks of the output thread.                                             *)

LEMMA SeqWiden == ASSUME NEW S, NEW U, S \subseteq U, NEW s \in Seq(S) PROVE s \in Seq(U)
OBVIOUS

LEMMA Joined ==
  ASSUME NEW S, NEW s \in Seq(S), NEW t \in Seq(S)
  PROVE  /\ Len(s \o t) = Len(s) + Len(t) /\ Len(s) \in Nat /\ Len(t) \in Nat
         /\ \A i \in 1..Len(s \o t) :
              (s \o t)[i] = IF i <= Len(s) THEN s[i] ELSE t[i - Len(s)]
OBVIOUS

LEMMA SomeHead ==
  ASSUME NEW S, NEW s \in Seq(S), Len(s) # 0 PROVE s # <<>> /\ Head(s) = s[1]
OBVIOUS

\* The tasks of one adapter are replaced.
LEMMA ShapeKeeps ==
  ASSUME Shape, NEW a \in Adapter, NEW X, NEW s \in Seq(TaskOf(X)),
         output' = [output EXCEPT ![a] = s]
  PROVE  Shape'
<1>1. PICK X1 : output \in [Adapter -> Seq(TaskOf(X1))]
  BY DEF Shape
<1> DEFINE U == TaskOf(X \cup X1)
<1>2. TaskOf(X) \subseteq U /\ TaskOf(X1) \subseteq U
  BY DEF TaskOf
<1>3. s \in Seq(U) /\ \A b \in Adapter : output[b] \in Seq(U)
  BY <1>1, <1>2, SeqWiden
<1>4. output' \in [Adapter -> Seq(U)]
  BY <1>1, <1>3
<1> QED BY <1>4 DEF Shape

\* New tasks in front of the remaining ones.
LEMMA Continued ==
  ASSUME Shape, NEW a \in Adapter, output[a] # <<>>, Orderly(output[a]),
         NEW X, NEW tasks \in Seq(TaskOf(X)), Orderly(tasks), Continue(a, tasks)
  PROVE  /\ Shape'
         /\ \A b \in Adapter : b # a => output'[b] = output[b]
         /\ Orderly(output'[a])
         /\ tasks = <<>> /\ output'[a] # <<>> => Plain(Head(output'[a]))
         /\ tasks # <<>> => output'[a] # <<>> /\ Head(output'[a]) = Head(tasks)
<1>1. PICK X1 : output \in [Adapter -> Seq(TaskOf(X1))]
  BY DEF Shape
<1> DEFINE U == TaskOf(X \cup X1)
           old == output[a]
           rest == Tail(old)
           new == tasks \o rest
<1>2. TaskOf(X) \subseteq U /\ TaskOf(X1) \subseteq U
  BY DEF TaskOf
<1>3. tasks \in Seq(U) /\ old \in Seq(U)
  BY <1>1, <1>2, SeqWiden
<1>4. /\ rest \in Seq(U) /\ Len(old) \in Nat \ {0} /\ Len(rest) = Len(old) - 1
      /\ \A i \in 1..Len(rest) : rest[i] = old[i + 1]
  BY <1>3
<1>5. \A i \in 1..Len(rest) : Plain(rest[i])
  BY <1>4 DEF Orderly
<1>6. output' = [output EXCEPT ![a] = new]
  BY DEF Continue
<1>7. new \in Seq(U) /\ output'[a] = new
  BY <1>1, <1>3, <1>4, <1>6
<1> HIDE DEF rest, old
<1>8. /\ Len(new) = Len(tasks) + Len(rest) /\ Len(tasks) \in Nat /\ Len(rest) \in Nat
      /\ \A i \in 1..Len(new) : new[i] = IF i <= Len(tasks) THEN tasks[i] ELSE rest[i - Len(tasks)]
  BY <1>3, <1>4, Joined
<1>9. \A i \in 2..Len(new) : Plain(new[i])
  BY <1>5, <1>8 DEF Orderly
<1>10. tasks = <<>> /\ new # <<>> => Plain(Head(new))
  <2>1. SUFFICES ASSUME tasks = <<>>, new # <<>> PROVE Plain(Head(new))
    OBVIOUS
  <2>2. new = rest
    BY <1>4, <2>1
  <2> QED BY <1>4, <1>5, <2>1, <2>2
<1>11. tasks # <<>> => new # <<>> /\ Head(new) = Head(tasks)
  BY <1>3, <1>7, <1>8
<1>14. Orderly(new)
  <2>1. new # <<>> /\ Head(new).do = "note" => Head(new).value \in Value
    BY <1>10, <1>11 DEF Orderly, Plain
  <2> QED BY <1>9, <2>1 DEF Orderly
<1>12. Shape'
  BY <1>6, <1>7, ShapeKeeps
<1>13. \A b \in Adapter : b # a => output'[b] = output[b]
  BY <1>1, <1>6
<1> QED BY <1>7, <1>10, <1>11, <1>12, <1>13, <1>14

-----------------------------------------------------------------------------
(* The registry and the books.                                             *)

\* A grant takes no lease of a live adapter, this one included.
LEMMA AttachFacts ==
  ASSUME Typed, NEW a \in Adapter, NEW w, NEW value \in Value, Attached(a, w, value)
  PROVE  /\ lease' \in [Workspace -> [token : Maybe(Token), owner : Maybe(Adapter)]]
         /\ \A v \in Workspace : v # w => lease'[v] = lease[v]
         /\ \A v \in Workspace : lease[v].owner \in Live \cup {a} => lease'[v] = lease[v]
         /\ w \in Workspace /\ value.owned =>
              lease'[w] = [token |-> value.token, owner |-> a] /\ lease[w].owner # a
<1> USE DEF Typed, Maybe
<1>1. CASE Owns(a, w) /\ value = [token |-> lease[w].token, owned |-> FALSE] /\ lease' = lease
  <2>1. value.owned = FALSE
    BY <1>1
  <2> QED BY <1>1, <2>1
<1>2. ASSUME ~Owns(a, w), NEW k \in Token, value = [token |-> k, owned |-> TRUE],
             lease' = [lease EXCEPT ![w] = [token |-> k, owner |-> a]]
      PROVE  /\ lease' \in [Workspace -> [token : Maybe(Token), owner : Maybe(Adapter)]]
             /\ \A v \in Workspace : v # w => lease'[v] = lease[v]
             /\ \A v \in Workspace : lease[v].owner \in Live \cup {a} => lease'[v] = lease[v]
             /\ w \in Workspace =>
                  lease'[w] = [token |-> value.token, owner |-> a] /\ lease[w].owner # a
  <2>1. lease[w].owner \notin Live \cup {a}
    BY <1>2 DEF Attached, Busy, Owns
  <2> QED BY <1>2, <2>1
<1> QED BY <1>1, <1>2 DEF Attached

\* A release frees the lease it names, and no other.
LEMMA ReleaseFacts ==
  ASSUME Typed, NEW a, NEW w, NEW value, Released(a, w, value)
  PROVE  /\ lease' \in [Workspace -> [token : Maybe(Token), owner : Maybe(Adapter)]]
         /\ \A v \in Workspace : v # w \/ lease[v].owner # a => lease'[v] = lease[v]
<1>1. lease' = lease \/ (lease' = [lease EXCEPT ![w] = Free] /\ lease[w] = [token |-> value.token, owner |-> a])
  BY DEF Released
<1>2. CASE lease' = lease
  BY <1>2 DEF Typed
<1>3. CASE lease' = [lease EXCEPT ![w] = Free] /\ lease[w] = [token |-> value.token, owner |-> a]
  <2>1. Free \in [token : Maybe(Token), owner : Maybe(Adapter)]
    BY DEF Free, Maybe
  <2>2. lease[w].owner = a
    BY <1>3
  <2> QED BY <1>3, <2>1, <2>2 DEF Typed
<1> QED BY <1>1, <1>2, <1>3

LEMMA NoteFacts ==
  ASSUME Typed, NEW a \in Adapter, NEW w, NEW value \in Value, Noted(a, w, value)
  PROVE  /\ named' \in [Adapter -> [Workspace -> Value]]
         /\ \A b \in Adapter : b # a => named'[b] = named[b]
         /\ \A v \in Workspace : v # w => named'[a][v] = named[a][v]
         /\ w \in Workspace => named'[a][w] \in {named[a][w], value}
BY DEF Typed, Noted

\* A step of one adapter is no matter for the others.
LEMMA OneStep ==
  ASSUME Inv, NEW a \in Adapter, Typed', a \in Live' => Keeps(a)',
         Live' \subseteq Live,
         \A b \in Adapter : b # a => named'[b] = named[b] /\ input'[b] = input[b] /\ output'[b] = output[b],
         \A v \in Workspace : lease[v].owner \in Live \ {a} => lease'[v] = lease[v]
  PROVE  Inv'
<1>1. ASSUME NEW b \in Live', b # a PROVE Keeps(b)'
  <2>1. b \in Live /\ b \in Adapter /\ Keeps(b)
    BY <1>1 DEF Live, Inv, Typed
  <2>2. named'[b] = named[b] /\ input'[b] = input[b] /\ output'[b] = output[b]
    BY <1>1, <2>1
  <2>3. ASSUME NEW w \in Workspace PROVE KeepsAt(b, w)'
    <3>1. \A value : Held(b, w, value) => Held(b, w, value)'
      BY <1>1, <2>1 DEF Held
    <3>2. (InBooks(b, w)' <=> InBooks(b, w)) /\ (InHand(b, w)' <=> InHand(b, w))
          /\ (InTask(b, w)' <=> InTask(b, w)) /\ Top(b)' = Top(b)
      BY <2>2 DEF InBooks, InHand, InTask, Top
    <3>3. KeepsAt(b, w)
      BY <2>1 DEF Keeps
    <3>4. InBooks(b, w)' => Held(b, w, named[b][w])' /\ named'[b][w] = named[b][w]
      BY <2>2, <3>1, <3>2, <3>3 DEF KeepsAt, Held
    <3>5. InHand(b, w)' => Held(b, w, input[b].value)'
      BY <2>2, <3>1, <3>2, <3>3 DEF KeepsAt, Held
    <3>6. InTask(b, w)' => Held(b, w, Top(b).value)'
      BY <2>2, <3>1, <3>2, <3>3 DEF KeepsAt, Held
    <3> QED BY <3>2, <3>3, <3>4, <3>5, <3>6 DEF KeepsAt
  <2> QED BY <2>1, <2>2, <2>3 DEF Keeps
<1> QED BY <1>1 DEF Inv

\* A step that leaves the registry alone and takes no lease in hand.
LEMMA Harmless ==
  ASSUME Inv, NEW a \in Adapter, Typed', Live' \subseteq Live, lease' = lease,
         \A b \in Adapter : b # a => named'[b] = named[b] /\ input'[b] = input[b] /\ output'[b] = output[b],
         \A v \in Workspace :
           /\ InBooks(a, v)' => InBooks(a, v) /\ named'[a][v] = named[a][v]
           /\ InHand(a, v)' => InHand(a, v) /\ input'[a].value = input[a].value
           /\ InTask(a, v)' => InTask(a, v) /\ Top(a)' = Top(a)
  PROVE  Inv'
<1>1. ASSUME a \in Live' PROVE Keeps(a)'
  <2>1. Keeps(a)
    BY <1>1 DEF Inv
  <2>2. ASSUME NEW v \in Workspace PROVE KeepsAt(a, v)'
    <3>1. KeepsAt(a, v)
      BY <2>1 DEF Keeps
    <3>2. InBooks(a, v)' => Held(a, v, named[a][v])'
      BY <3>1 DEF KeepsAt, Held
    <3>3. InHand(a, v)' => Held(a, v, input[a].value)'
      BY <3>1 DEF KeepsAt, Held
    <3>4. InTask(a, v)' => Held(a, v, Top(a).value)'
      BY <3>1 DEF KeepsAt, Held
    <3> QED BY <3>1, <3>2, <3>3, <3>4 DEF KeepsAt
  <2> QED BY <2>2 DEF Keeps
<1> QED BY <1>1, OneStep

-----------------------------------------------------------------------------
(* The input thread.                                                       *)

LEMMA NextReserve ==
  ASSUME Inv, NEW a \in Adapter, NEW method \in Methods, NEW t \in Maybe(Thread),
         NEW w \in Maybe(Workspace), Reserve(a, method, t, w)
  PROVE  Inv'
<1> USE DEF Reserve, Maybe
<1>1. a \in Live /\ Keeps(a) /\ Typed
  BY DEF Listens, Typed, Live, Inv, Reading, Open
<1>2. PICK at \in {"claimed", "noted", "reserved"}, value \in Value :
        /\ Takes(a, at, method, t, w, value)
        /\ \/ at # "reserved" /\ lease' = lease
           \/ w # None /\ Attached(a, w, value)
  <2>1. Unknown \in Value
    BY DEF Unknown, Value
  <2> QED BY <2>1
<1>3. PICK c \in Call : input' = [input EXCEPT ![a] =
        [at |-> at, call |-> c, method |-> method, thread |-> t, workspace |-> w, value |-> value]]
  BY <1>2 DEF Takes
<1>4. input' \in [Adapter -> Input]
  BY <1>1, <1>3 DEF Typed, Input
<1>5. /\ input'[a].at = at /\ input'[a].workspace = w /\ input'[a].value = value
      /\ \A b \in Adapter : b # a => input'[b] = input[b]
  BY <1>1, <1>3 DEF Typed
<1>6. /\ lease' \in [Workspace -> [token : Maybe(Token), owner : Maybe(Adapter)]]
      /\ \A v \in Workspace : lease[v].owner \in Live \cup {a} => lease'[v] = lease[v]
      /\ at = "reserved" /\ w \in Workspace /\ value.owned =>
           lease'[w] = [token |-> value.token, owner |-> a] /\ lease[w].owner # a
  BY <1>1, <1>2, AttachFacts DEF Typed
<1>7. Typed'
  BY <1>1, <1>4, <1>6 DEF Typed, Shape
<1>8. ASSUME NEW v \in Workspace PROVE KeepsAt(a, v)'
  <2>1. KeepsAt(a, v)
    BY <1>1 DEF Keeps
  <2>2. /\ InBooks(a, v)' <=> InBooks(a, v)
        /\ InTask(a, v)' <=> InTask(a, v)
        /\ Top(a)' = Top(a) /\ named'[a][v] = named[a][v]
    BY DEF InBooks, InTask, Top
  <2>3. \A x : Held(a, v, x) => Held(a, v, x)' /\ lease[v].owner = a
    BY <1>6 DEF Held
  <2>4. InHand(a, v)' => v = w /\ at = "reserved" /\ value.owned
    BY <1>5 DEF InHand
  <2>5. InHand(a, v)' => Held(a, v, input[a].value)' /\ lease[v].owner # a
    BY <1>5, <1>6, <2>4 DEF Held
  <2>6. InBooks(a, v)' => Held(a, v, named[a][v])' /\ lease[v].owner = a
    BY <2>1, <2>2, <2>3 DEF KeepsAt, Held
  <2>7. InTask(a, v)' => Held(a, v, Top(a).value)' /\ lease[v].owner = a
    BY <2>1, <2>2, <2>3 DEF KeepsAt, Held
  <2> QED BY <2>1, <2>2, <2>5, <2>6, <2>7 DEF KeepsAt
<1>9. Keeps(a)'
  BY <1>1, <1>8 DEF Keeps
<1> QED BY <1>5, <1>6, <1>7, <1>9, OneStep DEF Live

\* The input thread is where it was but for how far it is.
LEMMA Proceeds ==
  ASSUME Typed, NEW a \in Adapter, NEW at \in {"noted", "undo", "claimed", "pended"},
         input' = [input EXCEPT ![a].at = at]
  PROVE  /\ input' = [input EXCEPT ![a] = [input[a] EXCEPT !.at = at]]
         /\ [input[a] EXCEPT !.at = at] \in Input
         /\ [input[a] EXCEPT !.at = at].at = at
<1>1. input[a] \in Input
  BY DEF Typed
<1>2. [input[a] EXCEPT !.at = at] \in Input /\ [input[a] EXCEPT !.at = at].at = at
  BY <1>1 DEF Input
<1> QED BY <1>2

LEMMA NextUnsubscribe == ASSUME Inv, NEW a \in Adapter, NEW t \in Thread, Unsubscribe(a, t) PROVE Inv'
<1> USE DEF Unsubscribe, Maybe
<1>1. PICK c \in Call : input' = [input EXCEPT ![a] =
        [at |-> "claimed", call |-> c, method |-> "unsubscribe", thread |-> t, workspace |-> None,
         value |-> Unknown]]
  BY DEF Takes
<1>2. /\ input' \in [Adapter -> Input] /\ input'[a].at = "claimed"
      /\ \A b \in Adapter : b # a => input'[b] = input[b]
  BY <1>1 DEF Inv, Typed, Input, Methods, Unknown, Value
<1>3. Typed' /\ Live' = Live
  BY <1>2 DEF Inv, Typed, Shape, Live
<1>4. \A v : ~InHand(a, v)'
  BY <1>2 DEF InHand
<1> QED BY <1>2, <1>3, <1>4, Harmless DEF InBooks, InTask, Top

\* The answer of the registry goes into the books, if they have none yet.
LEMMA NextNote == ASSUME Inv, NEW a \in Adapter, Note(a) PROVE Inv'
<1> USE DEF Note, Maybe
<1> DEFINE w == input[a].workspace
           value == input[a].value
<1>1. Typed /\ Live' = Live /\ value \in Value
  BY DEF Inv, Typed, Input, Live
<1>2. /\ input' \in [Adapter -> Input] /\ input'[a].at \in {"claimed", "noted"}
      /\ \A b \in Adapter : b # a => input'[b] = input[b]
  <2>1. PICK at \in {"claimed", "noted"} : input' = [input EXCEPT ![a].at = at]
    OBVIOUS
  <2> DEFINE x == [input[a] EXCEPT !.at = at]
  <2>2. input' = [input EXCEPT ![a] = x] /\ x \in Input /\ x.at = at
    BY <1>1, <2>1, Proceeds
  <2> HIDE DEF x
  <2> QED BY <1>1, <2>2 DEF Typed
<1>3. /\ named' \in [Adapter -> [Workspace -> Value]]
      /\ \A b \in Adapter : b # a => named'[b] = named[b]
      /\ \A v \in Workspace : v # w => named'[a][v] = named[a][v]
      /\ w \in Workspace => named'[a][w] \in {named[a][w], value}
  BY <1>1, NoteFacts
<1>4. Typed'
  BY <1>1, <1>2, <1>3 DEF Typed, Shape
<1>5. ASSUME a \in Live, NEW v \in Workspace PROVE KeepsAt(a, v)'
  <2>1. KeepsAt(a, v)
    BY <1>5 DEF Inv, Keeps
  <2>2. ~InHand(a, v)' /\ (InTask(a, v)' <=> InTask(a, v)) /\ Top(a)' = Top(a)
    BY <1>2 DEF InHand, InTask, Top
  <2>3. \A y : Held(a, v, y)' <=> Held(a, v, y)
    BY DEF Held
  <2>4. CASE named'[a][v] = named[a][v]
    <3>1. InBooks(a, v)' <=> InBooks(a, v)
      BY <2>4 DEF InBooks
    <3>2. InBooks(a, v)' => Held(a, v, named[a][v])'
      BY <2>1, <2>4, <3>1 DEF KeepsAt, Held
    <3>3. InTask(a, v)' => Held(a, v, Top(a).value)'
      BY <2>1, <2>2 DEF KeepsAt, Held
    <3> QED BY <2>1, <2>2, <3>1, <3>2, <3>3 DEF KeepsAt
  <2>5. CASE v = w /\ named'[a][v] = value
    <3>1. InBooks(a, v)' => InHand(a, v)
      BY <2>5 DEF InBooks, InHand
    <3>2. InBooks(a, v)' => Held(a, v, named[a][v])' /\ ~InTask(a, v)
      BY <2>1, <2>5, <3>1 DEF KeepsAt, Held
    <3>3. InTask(a, v)' => Held(a, v, Top(a).value)'
      BY <2>1, <2>2 DEF KeepsAt, Held
    <3> QED BY <2>2, <3>2, <3>3 DEF KeepsAt
  <2> QED BY <1>3, <2>4, <2>5
<1>6. a \in Live => Keeps(a)'
  BY <1>5 DEF Inv, Keeps
<1> QED BY <1>1, <1>2, <1>3, <1>4, <1>6, OneStep

\* Claim, Expect, Forward and Undo's way out: the input thread goes on with no
\* lease in hand.
LEMMA HandsFree ==
  ASSUME Inv, NEW a \in Adapter, NEW x \in Input, x.at \notin {"reserved", "release"},
         input' = [input EXCEPT ![a] = x],
         UNCHANGED <<phase, output, lease>>,
         named' = named \/ \E w : named' = [named EXCEPT ![a][w] = Unknown]
  PROVE  Inv'
<1>1. /\ input' \in [Adapter -> Input] /\ input'[a].at \notin {"reserved", "release"}
      /\ \A b \in Adapter : b # a => input'[b] = input[b]
  BY DEF Inv, Typed
<1>2. Unknown \in Value /\ Unknown.owned = FALSE
  BY DEF Unknown, Value, Maybe
<1>3. /\ named' \in [Adapter -> [Workspace -> Value]]
      /\ \A b \in Adapter : b # a => named'[b] = named[b]
      /\ \A v \in Workspace : named'[a][v] = named[a][v] \/ named'[a][v] = Unknown
  <2>1. CASE named' = named
    BY <2>1 DEF Inv, Typed
  <2>2. ASSUME NEW w, named' = [named EXCEPT ![a][w] = Unknown]
        PROVE  /\ named' \in [Adapter -> [Workspace -> Value]]
               /\ \A b \in Adapter : b # a => named'[b] = named[b]
               /\ \A v \in Workspace : named'[a][v] = named[a][v] \/ named'[a][v] = Unknown
    <3>1. [named[a] EXCEPT ![w] = Unknown] \in [Workspace -> Value]
      BY <1>2 DEF Inv, Typed
    <3> QED BY <2>2, <3>1 DEF Inv, Typed
  <2> QED BY <2>1, <2>2
<1>4. Typed' /\ Live' = Live
  BY <1>1, <1>3 DEF Inv, Typed, Shape, Live
<1>5. \A v \in Workspace :
        /\ InBooks(a, v)' => InBooks(a, v) /\ named'[a][v] = named[a][v]
        /\ ~InHand(a, v)'
        /\ InTask(a, v)' => InTask(a, v) /\ Top(a)' = Top(a)
  BY <1>1, <1>2, <1>3 DEF InBooks, InHand, InTask, Top
<1> QED BY <1>1, <1>3, <1>4, <1>5, Harmless

LEMMA NextProceed == ASSUME Inv, NEW a \in Adapter, Claim(a) \/ Expect(a) PROVE Inv'
<1>1. PICK at \in {"undo", "claimed", "pended"} : input' = [input EXCEPT ![a].at = at]
  BY DEF Claim, Expect
<1>2. UNCHANGED <<phase, named, output, lease>>
  BY DEF Claim, Expect
<1> QED BY <1>1, <1>2, Proceeds, HandsFree DEF Inv

LEMMA NextForward == ASSUME Inv, NEW a \in Adapter, Forward(a) PROVE Inv'
<1>1. NoInput \in Input /\ NoInput.at \notin {"reserved", "release"}
  BY DEF NoInput, Input, Unknown, Value, Maybe
<1> QED BY <1>1, HandsFree DEF Forward

\* A refused claim takes the lease out of the books before it gives it back.
LEMMA NextUndo == ASSUME Inv, NEW a \in Adapter, Undo(a) PROVE Inv'
<1> DEFINE w == input[a].workspace
           x == [input[a] EXCEPT !.at = "release", !.value = named[a][w]]
<1> USE DEF Undo
<1>1. NoInput \in Input /\ NoInput.at \notin {"reserved", "release"}
  BY DEF NoInput, Input, Unknown, Value, Maybe
<1>2. CASE input' = [input EXCEPT ![a] = NoInput]
  BY <1>1, <1>2, HandsFree
<1>3. CASE /\ w # None /\ named' = [named EXCEPT ![a][w] = Unknown] /\ named[a][w].owned
           /\ input' = [input EXCEPT ![a] = x]
  <2>1. Typed /\ w \in Workspace /\ named[a][w] \in Value /\ input[a] \in Input
    BY <1>3 DEF Inv, Typed, Input, Maybe
  <2>2. x \in Input /\ x.at = "release" /\ x.value = named[a][w] /\ x.workspace = w
    BY <2>1 DEF Input
  <2> HIDE DEF x
  <2>3. /\ input' \in [Adapter -> Input] /\ input'[a] = x
        /\ \A b \in Adapter : b # a => input'[b] = input[b]
    BY <1>3, <2>1, <2>2 DEF Typed
  <2>4. Unknown \in Value /\ Unknown.owned = FALSE
    BY DEF Unknown, Value, Maybe
  <2>5. /\ named' \in [Adapter -> [Workspace -> Value]]
        /\ \A b \in Adapter : b # a => named'[b] = named[b]
        /\ \A v \in Workspace : v # w => named'[a][v] = named[a][v]
        /\ ~named'[a][w].owned
    <3>1. [named[a] EXCEPT ![w] = Unknown] \in [Workspace -> Value]
      BY <2>1, <2>4 DEF Typed
    <3> QED BY <1>3, <2>1, <2>4, <3>1 DEF Typed
  <2>6. Typed' /\ Live' = Live
    BY <2>1, <2>3, <2>5 DEF Typed, Shape, Live
  <2>7. ASSUME a \in Live, NEW v \in Workspace PROVE KeepsAt(a, v)'
    <3>1. KeepsAt(a, v)
      BY <2>7 DEF Inv, Keeps
    <3>2. (InTask(a, v)' <=> InTask(a, v)) /\ Top(a)' = Top(a)
      BY DEF InTask, Top
    <3>3. InTask(a, v)' => Held(a, v, Top(a).value)'
      BY <3>1, <3>2 DEF KeepsAt, Held
    <3>4. CASE v = w
      <4>1. InBooks(a, v) /\ ~InBooks(a, v)'
        BY <1>3, <2>5, <3>4 DEF InBooks
      <4>2. Held(a, v, input[a].value)' /\ ~InTask(a, v)'
        BY <2>2, <2>3, <3>1, <3>2, <3>4, <4>1 DEF KeepsAt, Held
      <4> QED BY <4>1, <4>2 DEF KeepsAt
    <3>5. CASE v # w
      <4>1. ~InHand(a, v)'
        BY <2>2, <2>3, <3>5 DEF InHand
      <4>2. (InBooks(a, v)' <=> InBooks(a, v)) /\ named'[a][v] = named[a][v]
        BY <2>5, <3>5 DEF InBooks
      <4>3. InBooks(a, v)' => Held(a, v, named[a][v])'
        BY <3>1, <4>2 DEF KeepsAt, Held
      <4> QED BY <3>1, <3>2, <3>3, <4>1, <4>2, <4>3 DEF KeepsAt
    <3> QED BY <3>4, <3>5
  <2>8. a \in Live => Keeps(a)'
    BY <2>7 DEF Inv, Keeps
  <2> QED BY <2>3, <2>5, <2>6, <2>8, OneStep
<1> QED BY <1>2, <1>3

LEMMA NextUndoRelease == ASSUME Inv, NEW a \in Adapter, UndoRelease(a) PROVE Inv'
<1> DEFINE w == input[a].workspace
<1> USE DEF UndoRelease
<1>1. NoInput \in Input /\ NoInput.at \notin {"reserved", "release"}
  BY DEF NoInput, Input, Unknown, Value, Maybe
<1>2. /\ input' \in [Adapter -> Input] /\ input'[a] = NoInput
      /\ \A b \in Adapter : b # a => input'[b] = input[b]
  BY <1>1 DEF Inv, Typed
<1>3. /\ lease' \in [Workspace -> [token : Maybe(Token), owner : Maybe(Adapter)]]
      /\ \A v \in Workspace : v # w \/ lease[v].owner # a => lease'[v] = lease[v]
  BY ReleaseFacts DEF Inv
<1>4. Typed' /\ Live' = Live
  BY <1>2, <1>3 DEF Inv, Typed, Shape, Live
<1>5. ASSUME a \in Live, NEW v \in Workspace PROVE KeepsAt(a, v)'
  <2>1. KeepsAt(a, v)
    BY <1>5 DEF Inv, Keeps
  <2>2. ~InHand(a, v)'
    BY <1>1, <1>2 DEF InHand
  <2>3. /\ InBooks(a, v)' <=> InBooks(a, v)
        /\ InTask(a, v)' <=> InTask(a, v)
        /\ Top(a)' = Top(a) /\ named' = named
    BY DEF InBooks, InTask, Top
  <2>4. CASE v = w
    <3>1. InHand(a, v)
      BY <2>4 DEF InHand
    <3> QED BY <2>1, <2>2, <2>3, <3>1 DEF KeepsAt
  <2>5. CASE v # w
    <3>1. lease'[v] = lease[v]
      BY <1>3, <2>5
    <3>2. InBooks(a, v)' => Held(a, v, named[a][v])'
      BY <2>1, <2>3, <3>1 DEF KeepsAt, Held
    <3>3. InTask(a, v)' => Held(a, v, Top(a).value)'
      BY <2>1, <2>3, <3>1 DEF KeepsAt, Held
    <3> QED BY <2>1, <2>2, <2>3, <3>2, <3>3 DEF KeepsAt
  <2> QED BY <2>4, <2>5
<1>6. a \in Live => Keeps(a)'
  BY <1>5 DEF Inv, Keeps
<1> QED BY <1>2, <1>3, <1>4, <1>6, OneStep

-----------------------------------------------------------------------------
(* The output thread.                                                      *)

\* What is yet to be noted is an answer of the registry.
LEMMA TopFacts ==
  ASSUME Inv, NEW a \in Adapter, output[a] # <<>>, Top(a).do = "note"
  PROVE  Top(a).value \in Value
BY DEF Inv, Typed, Orderly, Top

\* No task, or one, or two.
LEMMA TaskSeqs ==
  ASSUME NEW X
  PROVE  /\ <<>> \in Seq(TaskOf(X)) /\ Orderly(<<>>)
         /\ \A x \in TaskOf(X) :
              /\ <<x>> \in Seq(TaskOf(X)) /\ <<x>> # <<>> /\ Head(<<x>>) = x
              /\ (x.do = "note" => x.value \in Value) => Orderly(<<x>>)
         /\ \A x, y \in TaskOf(X) :
              /\ <<x>> \o <<y>> \in Seq(TaskOf(X)) /\ <<x>> \o <<y>> # <<>>
              /\ Head(<<x>> \o <<y>>) = x
              /\ Plain(x) /\ Plain(y) => Orderly(<<x>> \o <<y>>)
<1>1. <<>> \in Seq(TaskOf(X)) /\ Orderly(<<>>)
  BY DEF Orderly
<1>2. ASSUME NEW x \in TaskOf(X)
      PROVE  /\ <<x>> \in Seq(TaskOf(X)) /\ <<x>> # <<>> /\ Head(<<x>>) = x
             /\ (x.do = "note" => x.value \in Value) => Orderly(<<x>>)
  <2>1. <<x>> \in Seq(TaskOf(X)) /\ <<x>> # <<>> /\ Head(<<x>>) = x /\ Len(<<x>>) = 1
    OBVIOUS
  <2> QED BY <2>1 DEF Orderly, Plain
<1>3. ASSUME NEW x \in TaskOf(X), NEW y \in TaskOf(X)
      PROVE  /\ <<x>> \o <<y>> \in Seq(TaskOf(X)) /\ <<x>> \o <<y>> # <<>>
             /\ Head(<<x>> \o <<y>>) = x
             /\ Plain(x) /\ Plain(y) => Orderly(<<x>> \o <<y>>)
  <2> DEFINE s == <<x>> \o <<y>>
  <2>1. <<x>> \in Seq(TaskOf(X)) /\ <<y>> \in Seq(TaskOf(X)) /\ Len(<<x>>) = 1 /\ Len(<<y>>) = 1
        /\ <<x>>[1] = x /\ <<y>>[1] = y
    OBVIOUS
  <2>2. s \in Seq(TaskOf(X))
    BY <2>1
  <2>3. Len(s) = 2 /\ s[1] = x /\ s[2] = y
    BY <2>1, Joined
  <2> HIDE DEF s
  <2>4. s # <<>> /\ Head(s) = x
    <3>1. Len(s) # 0
      BY <2>3
    <3>2. s # <<>> /\ Head(s) = s[1]
      BY <2>2, <3>1, SomeHead
    <3> QED BY <2>3, <3>2
  <2>5. Plain(x) /\ Plain(y) => Orderly(s)
    BY <2>3, <2>4 DEF Orderly, Plain
  <2> QED BY <2>2, <2>4, <2>5 DEF s
<1> QED BY <1>1, <1>2, <1>3

LEMMA OneMore ==
  ASSUME Typed, NEW a \in Adapter, output[a] # <<>>,
         NEW X, NEW x \in TaskOf(X), x.do = "note" => x.value \in Value, Continue(a, <<x>>)
  PROVE  /\ Shape' /\ \A b \in Adapter : b # a => output'[b] = output[b]
         /\ Orderly(output'[a])
         /\ output'[a] # <<>> /\ Top(a)' = x
<1>1. <<x>> \in Seq(TaskOf(X)) /\ Orderly(<<x>>) /\ Head(<<x>>) = x /\ <<x>> # <<>>
  BY TaskSeqs
<1>2. Shape /\ Orderly(output[a])
  BY DEF Typed
<1>3. /\ Shape' /\ \A b \in Adapter : b # a => output'[b] = output[b]
      /\ Orderly(output'[a])
      /\ output'[a] # <<>> /\ Head(output'[a]) = x
  BY <1>1, <1>2, Continued
<1> QED BY <1>3 DEF Top

LEMMA NoMore ==
  ASSUME Typed, NEW a \in Adapter, output[a] # <<>>, Continue(a, <<>>)
  PROVE  /\ Shape' /\ \A b \in Adapter : b # a => output'[b] = output[b]
         /\ Orderly(output'[a])
         /\ \A w : ~InTask(a, w)'
<1>1. <<>> \in Seq(TaskOf({})) /\ Orderly(<<>>)
  BY TaskSeqs
<1>2. Shape /\ Orderly(output[a])
  BY DEF Typed
<1>3. /\ Shape' /\ \A b \in Adapter : b # a => output'[b] = output[b]
      /\ Orderly(output'[a])
      /\ output'[a] # <<>> => Plain(Head(output'[a]))
  BY <1>1, <1>2, Continued
<1> QED BY <1>3 DEF InTask, Top, Plain

\* Steps that go on with tasks without a lease.
LEMMA GoesOn ==
  ASSUME Inv, NEW a \in Adapter, output[a] # <<>>, UNCHANGED <<phase, named, input, lease>>,
         NEW X, NEW tasks \in Seq(TaskOf(X)), Orderly(tasks),
         tasks # <<>> => Plain(Head(tasks)), Continue(a, tasks)
  PROVE  Inv'
<1>1. Orderly(output[a]) /\ Shape
  BY DEF Inv, Typed
<1>2. /\ Shape'
      /\ \A b \in Adapter : b # a => output'[b] = output[b]
      /\ Orderly(output'[a])
      /\ output'[a] # <<>> => Plain(Head(output'[a]))
  BY <1>1, Continued
<1>3. Typed' /\ Live' = Live
  BY <1>2 DEF Inv, Typed, Live
<1>4. \A v \in Workspace :
        /\ InBooks(a, v)' => InBooks(a, v) /\ named'[a][v] = named[a][v]
        /\ InHand(a, v)' => InHand(a, v) /\ input'[a].value = input[a].value
        /\ ~InTask(a, v)'
  BY <1>2 DEF InBooks, InHand, InTask, Top, Plain
<1> QED BY <1>2, <1>3, <1>4, Harmless

LEMMA NextForget ==
  ASSUME Inv, NEW a \in Adapter, LinkAttach(a) \/ Bind(a) \/ Forget(a) \/ Unrecord(a)
  PROVE  Inv'
<1>1. output[a] # <<>> /\ UNCHANGED <<phase, named, input, lease>>
  BY DEF LinkAttach, Bind, Forget, Unrecord, Doing
<1>2. CASE Continue(a, <<>>)
  <2>1. <<>> \in Seq(TaskOf({})) /\ Orderly(<<>>)
    BY TaskSeqs
  <2> QED BY <1>1, <1>2, <2>1, GoesOn
<1>3. CASE Forget(a)
  <2> DEFINE t == Top(a).thread
             w == named_threads[a][t]
             x == Task("unrecord", t, None, Unknown)
             y == Task("check", None, w, Unknown)
             tasks == <<x>> \o (IF w = None THEN <<>> ELSE <<y>>)
  <2>1. Continue(a, tasks)
    BY <1>3 DEF Forget, Top
  <2>2. /\ x \in TaskOf({t, w, None, Unknown}) /\ y \in TaskOf({t, w, None, Unknown})
        /\ Plain(x) /\ Plain(y)
    <3> DEFINE X == {t, w, None, Unknown}
    <3>1. t \in X /\ w \in X /\ None \in X /\ Unknown \in X
      OBVIOUS
    <3>2. "unrecord" \in Dos /\ "check" \in Dos
      BY DEF Dos
    <3> HIDE DEF X
    <3>3. /\ x \in TaskOf(X) /\ y \in TaskOf(X) /\ x.do = "unrecord" /\ y.do = "check"
      BY <3>1, <3>2 DEF Task, TaskOf
    <3> QED BY <3>3 DEF Plain, X
  <2> HIDE DEF x, y
  <2>3. tasks = <<x>> \/ tasks = <<x>> \o <<y>>
    <3>1. <<x>> \o <<>> = <<x>>
      OBVIOUS
    <3> QED BY <3>1
  <2>4. tasks \in Seq(TaskOf({t, w, None, Unknown})) /\ Orderly(tasks) /\ Head(tasks) = x
    <3> HIDE DEF tasks
    <3>1. CASE tasks = <<x>>
      BY <2>2, <3>1, TaskSeqs DEF Plain
    <3>2. CASE tasks = <<x>> \o <<y>>
      BY <2>2, <3>2, TaskSeqs
    <3> QED BY <2>3, <3>1, <3>2
  <2> HIDE DEF tasks
  <2> QED BY <1>1, <2>1, <2>2, <2>4, GoesOn
<1> QED BY <1>2, <1>3 DEF LinkAttach, Bind, Unrecord

\* The registry's answer to the output thread.
LEMMA NextLinkReserve == ASSUME Inv, NEW a \in Adapter, LinkReserve(a) PROVE Inv'
<1> DEFINE w == Top(a).workspace
<1>1. output[a] # <<>> /\ UNCHANGED <<phase, named, input>> /\ Top(a).do = "reserve"
  BY DEF LinkReserve, Doing, Top
<1>2. PICK value \in Value :
        Attached(a, w, value) /\ Continue(a, <<Task("note", Top(a).thread, w, value)>>)
  BY DEF LinkReserve, Top
<1> DEFINE x == Task("note", Top(a).thread, w, value)
<1>3. /\ x \in TaskOf({Top(a).thread, w, value})
      /\ x.do = "note" /\ x.workspace = w /\ x.value = value
      /\ Continue(a, <<x>>)
  <2> DEFINE X == {Top(a).thread, w, value}
  <2>1. Top(a).thread \in X /\ w \in X /\ value \in X /\ "note" \in Dos
    BY DEF Dos
  <2> HIDE DEF X
  <2>2. x \in TaskOf(X) /\ x.do = "note" /\ x.workspace = w /\ x.value = value
    BY <2>1 DEF Task, TaskOf
  <2> QED BY <1>2, <2>2 DEF X
<1> HIDE DEF x
<1>5. /\ Shape'
      /\ \A b \in Adapter : b # a => output'[b] = output[b]
      /\ Orderly(output'[a]) /\ Top(a)' = x
  BY <1>1, <1>3, OneMore DEF Inv
<1>6. /\ lease' \in [Workspace -> [token : Maybe(Token), owner : Maybe(Adapter)]]
      /\ \A v \in Workspace : lease[v].owner \in Live \cup {a} => lease'[v] = lease[v]
      /\ w \in Workspace /\ value.owned =>
           lease'[w] = [token |-> value.token, owner |-> a] /\ lease[w].owner # a
  BY <1>2, AttachFacts DEF Inv
<1>7. Typed' /\ Live' = Live
  BY <1>1, <1>5, <1>6 DEF Inv, Typed, Live
<1>8. ASSUME a \in Live, NEW v \in Workspace PROVE KeepsAt(a, v)'
  <2>1. KeepsAt(a, v) /\ ~InTask(a, v)
    BY <1>1, <1>8 DEF Inv, Keeps, InTask
  <2>2. /\ InBooks(a, v)' <=> InBooks(a, v)
        /\ InHand(a, v)' <=> InHand(a, v)
        /\ named' = named /\ input' = input
    BY <1>1 DEF InBooks, InHand
  <2>3. \A y : Held(a, v, y) => Held(a, v, y)' /\ lease[v].owner = a
    BY <1>6 DEF Held
  <2>4. InTask(a, v)' => v = w /\ value.owned
    BY <1>3, <1>5 DEF InTask
  <2>5. InTask(a, v)' => Held(a, v, Top(a).value)' /\ lease[v].owner # a
    BY <1>3, <1>5, <1>6, <2>4 DEF Held
  <2>6. InBooks(a, v)' => Held(a, v, named[a][v])' /\ lease[v].owner = a
    BY <2>1, <2>2, <2>3 DEF KeepsAt, Held
  <2>7. InHand(a, v)' => Held(a, v, input[a].value)' /\ lease[v].owner = a
    BY <2>1, <2>2, <2>3 DEF KeepsAt, Held
  <2> QED BY <2>1, <2>2, <2>5, <2>6, <2>7 DEF KeepsAt
<1>9. a \in Live => Keeps(a)'
  BY <1>8 DEF Keeps
<1> QED BY <1>1, <1>5, <1>6, <1>7, <1>9, OneStep

LEMMA NextLinkNote == ASSUME Inv, NEW a \in Adapter, LinkNote(a) PROVE Inv'
<1> DEFINE w == Top(a).workspace
           value == Top(a).value
<1>1. /\ output[a] # <<>> /\ UNCHANGED <<phase, input, lease>> /\ Top(a).do = "note"
      /\ Noted(a, w, value) /\ Continue(a, <<>>)
  BY DEF LinkNote, Doing, Top
<1>2. Typed /\ Live' = Live /\ value \in Value
  BY <1>1, TopFacts DEF Inv, Live
<1>3. /\ Shape' /\ \A b \in Adapter : b # a => output'[b] = output[b]
      /\ Orderly(output'[a])
      /\ \A v : ~InTask(a, v)'
  BY <1>1, <1>2, NoMore
<1>4. /\ named' \in [Adapter -> [Workspace -> Value]]
      /\ \A b \in Adapter : b # a => named'[b] = named[b]
      /\ \A v \in Workspace : v # w => named'[a][v] = named[a][v]
      /\ w \in Workspace => named'[a][w] \in {named[a][w], value}
  BY <1>1, <1>2, NoteFacts
<1>5. Typed'
  BY <1>1, <1>2, <1>3, <1>4 DEF Typed
<1>6. ASSUME a \in Live, NEW v \in Workspace PROVE KeepsAt(a, v)'
  <2>1. KeepsAt(a, v)
    BY <1>6 DEF Inv, Keeps
  <2>2. ~InTask(a, v)' /\ (InHand(a, v)' <=> InHand(a, v)) /\ input' = input
    BY <1>1, <1>3 DEF InHand
  <2>3. InHand(a, v)' => Held(a, v, input[a].value)'
    BY <1>1, <2>1, <2>2 DEF KeepsAt, Held
  <2>4. CASE named'[a][v] = named[a][v]
    <3>1. InBooks(a, v)' <=> InBooks(a, v)
      BY <2>4 DEF InBooks
    <3>2. InBooks(a, v)' => Held(a, v, named[a][v])'
      BY <1>1, <2>1, <2>4, <3>1 DEF KeepsAt, Held
    <3> QED BY <2>1, <2>2, <2>3, <3>1, <3>2 DEF KeepsAt
  <2>5. CASE v = w /\ named'[a][v] = value
    <3>1. InBooks(a, v)' => InTask(a, v)
      BY <1>1, <2>5 DEF InBooks, InTask
    <3>2. InBooks(a, v)' => Held(a, v, named[a][v])' /\ ~InHand(a, v)
      BY <1>1, <2>1, <2>5, <3>1 DEF KeepsAt, Held
    <3> QED BY <2>2, <2>3, <3>2 DEF KeepsAt
  <2> QED BY <1>4, <2>4, <2>5
<1>7. a \in Live => Keeps(a)'
  BY <1>6 DEF Keeps
<1> QED BY <1>1, <1>2, <1>3, <1>4, <1>5, <1>7, OneStep

\* A workspace nobody uses leaves the books; a lease of its own goes to the hands.
LEMMA NextCheck == ASSUME Inv, NEW a \in Adapter, Check(a) PROVE Inv'
<1> DEFINE w == Top(a).workspace
           x == Task("release", None, w, named[a][w])
<1>1. /\ output[a] # <<>> /\ UNCHANGED <<phase, input, lease>> /\ Top(a).do = "check"
      /\ named' = named \/ named' = [named EXCEPT ![a][w] = Unknown]
      /\ \/ Continue(a, <<>>)
         \/ Continue(a, <<x>>) /\ named[a][w].owned /\ named' = [named EXCEPT ![a][w] = Unknown]
  BY DEF Check, Doing, Top
<1>2. Typed /\ Live' = Live
  BY <1>1 DEF Inv, Live
<1>3. Unknown \in Value /\ Unknown.owned = FALSE
  BY DEF Unknown, Value, Maybe
<1>4. /\ named' \in [Adapter -> [Workspace -> Value]]
      /\ \A b \in Adapter : b # a => named'[b] = named[b]
      /\ \A v \in Workspace : v # w => named'[a][v] = named[a][v]
      /\ \A v \in Workspace : named'[a][v] = named[a][v] \/ named'[a][v] = Unknown
      /\ w \in Workspace /\ named' = [named EXCEPT ![a][w] = Unknown] => ~named'[a][w].owned
  <2>1. CASE named' = [named EXCEPT ![a][w] = Unknown]
    <3>1. [named[a] EXCEPT ![w] = Unknown] \in [Workspace -> Value]
      BY <1>2, <1>3 DEF Typed
    <3> QED BY <1>2, <1>3, <2>1, <3>1 DEF Typed
  <2>2. CASE named' = named /\ named' # [named EXCEPT ![a][w] = Unknown]
    BY <1>2, <2>2 DEF Typed
  <2> QED BY <1>1, <2>1, <2>2
<1>5. CASE Continue(a, <<>>)
  <2>1. /\ Shape' /\ \A b \in Adapter : b # a => output'[b] = output[b]
        /\ Orderly(output'[a])
        /\ \A v : ~InTask(a, v)'
    BY <1>1, <1>2, <1>5, NoMore
  <2>2. Typed'
    BY <1>1, <1>2, <1>4, <2>1 DEF Typed
  <2>3. \A v \in Workspace :
          /\ InBooks(a, v)' => InBooks(a, v) /\ named'[a][v] = named[a][v]
          /\ InHand(a, v)' => InHand(a, v) /\ input'[a].value = input[a].value
    BY <1>1, <1>3, <1>4 DEF InBooks, InHand
  <2> QED BY <1>1, <1>2, <1>4, <2>1, <2>2, <2>3, Harmless
<1>6. CASE Continue(a, <<x>>) /\ named[a][w].owned /\ named' = [named EXCEPT ![a][w] = Unknown]
  <2>1. /\ x \in TaskOf({None, w, named[a][w]})
        /\ x.do = "release" /\ x.workspace = w /\ x.value = named[a][w]
    <3> DEFINE X == {None, w, named[a][w]}
    <3>1. None \in X /\ w \in X /\ named[a][w] \in X /\ "release" \in Dos
      BY DEF Dos
    <3> HIDE DEF X
    <3>2. x \in TaskOf(X) /\ x.do = "release" /\ x.workspace = w /\ x.value = named[a][w]
      BY <3>1 DEF Task, TaskOf
    <3> QED BY <3>2 DEF X
  <2>2. Continue(a, <<x>>)
    BY <1>6
  <2> HIDE DEF x
  <2>3. /\ Shape' /\ \A b \in Adapter : b # a => output'[b] = output[b]
        /\ Orderly(output'[a]) /\ Top(a)' = x
    <3>1. Typed /\ x \in TaskOf({None, w, named[a][w]}) /\ (x.do = "note" => x.value \in Value)
      BY <1>2, <2>1
    <3> QED BY <1>1, <2>2, <3>1, OneMore
  <2>4. Typed'
    BY <1>1, <1>2, <1>4, <2>3 DEF Typed
  <2>5. ASSUME a \in Live, NEW v \in Workspace PROVE KeepsAt(a, v)'
    <3>1. KeepsAt(a, v)
      BY <2>5 DEF Inv, Keeps
    <3>2. (InHand(a, v)' <=> InHand(a, v)) /\ input' = input
      BY <1>1 DEF InHand
    <3>3. InHand(a, v)' => Held(a, v, input[a].value)'
      BY <1>1, <3>1, <3>2 DEF KeepsAt, Held
    <3>4. CASE v = w
      <4>1. InBooks(a, v) /\ ~InBooks(a, v)'
        BY <1>4, <1>6, <3>4 DEF InBooks
      <4>2. Held(a, v, Top(a).value)' /\ ~InHand(a, v)
        BY <1>1, <2>1, <2>3, <3>1, <3>4, <4>1 DEF KeepsAt, Held
      <4> QED BY <3>2, <4>1, <4>2 DEF KeepsAt
    <3>5. CASE v # w
      <4>1. ~InTask(a, v)'
        BY <2>1, <2>3, <3>5 DEF InTask
      <4>2. (InBooks(a, v)' <=> InBooks(a, v)) /\ named'[a][v] = named[a][v]
        BY <1>4, <3>5 DEF InBooks
      <4>3. InBooks(a, v)' => Held(a, v, named[a][v])'
        BY <1>1, <3>1, <4>2 DEF KeepsAt, Held
      <4> QED BY <3>1, <3>2, <3>3, <4>1, <4>2, <4>3 DEF KeepsAt
    <3> QED BY <3>4, <3>5
  <2>6. a \in Live => Keeps(a)'
    BY <2>5 DEF Keeps
  <2> QED BY <1>1, <1>2, <1>4, <2>3, <2>4, <2>6, OneStep
<1> QED BY <1>1, <1>5, <1>6

LEMMA NextRelease == ASSUME Inv, NEW a \in Adapter, Release(a) PROVE Inv'
<1> DEFINE w == Top(a).workspace
<1>1. /\ output[a] # <<>> /\ UNCHANGED <<phase, named, input>> /\ Top(a).do = "release"
      /\ Released(a, w, Top(a).value) /\ Continue(a, <<>>)
  BY DEF Release, Doing, Top
<1>2. Typed /\ Live' = Live
  BY <1>1 DEF Inv, Live
<1>3. /\ Shape' /\ \A b \in Adapter : b # a => output'[b] = output[b]
      /\ Orderly(output'[a])
      /\ \A v : ~InTask(a, v)'
  BY <1>1, <1>2, NoMore
<1>4. /\ lease' \in [Workspace -> [token : Maybe(Token), owner : Maybe(Adapter)]]
      /\ \A v \in Workspace : v # w \/ lease[v].owner # a => lease'[v] = lease[v]
  BY <1>1, <1>2, ReleaseFacts
<1>5. Typed'
  BY <1>1, <1>2, <1>3, <1>4 DEF Typed
<1>6. ASSUME a \in Live, NEW v \in Workspace PROVE KeepsAt(a, v)'
  <2>1. KeepsAt(a, v)
    BY <1>6 DEF Inv, Keeps
  <2>2. /\ ~InTask(a, v)'
        /\ InBooks(a, v)' <=> InBooks(a, v)
        /\ InHand(a, v)' <=> InHand(a, v)
        /\ named' = named /\ input' = input
    BY <1>1, <1>3 DEF InBooks, InHand
  <2>3. CASE v = w
    <3>1. InTask(a, v)
      BY <1>1, <2>3 DEF InTask
    <3> QED BY <2>1, <2>2, <3>1 DEF KeepsAt
  <2>4. CASE v # w
    <3>1. lease'[v] = lease[v]
      BY <1>4, <2>4
    <3>2. InBooks(a, v)' => Held(a, v, named[a][v])'
      BY <2>1, <2>2, <3>1 DEF KeepsAt, Held
    <3>3. InHand(a, v)' => Held(a, v, input[a].value)'
      BY <2>1, <2>2, <3>1 DEF KeepsAt, Held
    <3> QED BY <2>1, <2>2, <3>2, <3>3 DEF KeepsAt
  <2> QED BY <2>3, <2>4
<1>7. a \in Live => Keeps(a)'
  BY <1>6 DEF Keeps
<1> QED BY <1>1, <1>2, <1>3, <1>4, <1>5, <1>7, OneStep

\* The adapter gets something to do: tasks without a lease.
LEMMA Starts ==
  ASSUME Inv, NEW a \in Adapter, UNCHANGED <<phase, named, input, lease>>,
         NEW X, NEW tasks \in Seq(TaskOf(X)), \A i \in 1..Len(tasks) : Plain(tasks[i]),
         output' = [output EXCEPT ![a] = tasks]
  PROVE  Inv'
<1>1. Orderly(tasks) /\ (tasks # <<>> => Plain(Head(tasks)))
  BY SomeHead DEF Orderly, Plain
<1>2. Shape'
  BY ShapeKeeps DEF Inv, Typed
<1>3. output'[a] = tasks /\ \A b \in Adapter : b # a => output'[b] = output[b]
  BY DEF Inv, Typed, Shape
<1>4. Typed' /\ Live' = Live
  BY <1>1, <1>2, <1>3 DEF Inv, Typed, Live
<1>5. \A v \in Workspace :
        /\ InBooks(a, v)' => InBooks(a, v) /\ named'[a][v] = named[a][v]
        /\ InHand(a, v)' => InHand(a, v) /\ input'[a].value = input[a].value
        /\ ~InTask(a, v)'
  BY <1>1, <1>3 DEF InBooks, InHand, InTask, Top, Plain
<1> QED BY <1>3, <1>4, <1>5, Harmless

LEMMA PlainTask ==
  ASSUME NEW X, NEW do \in Dos \ {"note", "release"}, NEW t \in X, NEW w \in X, NEW value \in X
  PROVE  /\ <<Task(do, t, w, value)>> \in Seq(TaskOf(X))
         /\ \A i \in 1..Len(<<Task(do, t, w, value)>>) : Plain(<<Task(do, t, w, value)>>[i])
<1> DEFINE x == Task(do, t, w, value)
<1>1. x \in TaskOf(X) /\ Plain(x)
  BY DEF Task, TaskOf, Plain
<1> HIDE DEF x
<1>2. <<x>> \in Seq(TaskOf(X)) /\ \A i \in 1..Len(<<x>>) : Plain(<<x>>[i])
  BY <1>1
<1> QED BY <1>2 DEF x

LEMMA NextClose == ASSUME Inv, NEW a \in Adapter, Close(a) PROVE Inv'
<1>1. "forget" \in Dos \ {"note", "release"} /\ "check" \in Dos \ {"note", "release"}
  BY DEF Dos
<1>2. ASSUME NEW t \in threads[a], output' = [output EXCEPT ![a] = <<Task("forget", t, None, Unknown)>>]
      PROVE  Inv'
  <2>1. t \in {t, None, Unknown} /\ None \in {t, None, Unknown} /\ Unknown \in {t, None, Unknown}
    OBVIOUS
  <2> QED BY <1>1, <1>2, <2>1, PlainTask, Starts DEF Close, Closing
<1>3. ASSUME NEW w \in Workspace, output' = [output EXCEPT ![a] = <<Task("check", None, w, Unknown)>>]
      PROVE  Inv'
  <2>1. w \in {w, None, Unknown} /\ None \in {w, None, Unknown} /\ Unknown \in {w, None, Unknown}
    OBVIOUS
  <2> QED BY <1>1, <1>3, <2>1, PlainTask, Starts DEF Close
<1> QED BY <1>2, <1>3 DEF Close

\* A message of the app server: none of the tasks it makes has a lease.
PlainOf(X) == {x \in TaskOf(X) : Plain(x)}

LEMMA SettlesPlain ==
  ASSUME NEW a, NEW e, NEW m, NEW X, e.thread \in X, e.workspace \in X, None \in X, Unknown \in X
  PROVE  Settles(a, e, m) \in Seq(PlainOf(X))
<1>1. /\ Task("forget", e.thread, None, Unknown) \in PlainOf(X)
      /\ Task("bind", e.thread, e.workspace, Unknown) \in PlainOf(X)
      /\ Task("check", None, e.workspace, Unknown) \in PlainOf(X)
  BY DEF Task, TaskOf, PlainOf, Plain, Dos
<1>2. \A s, t, u \in Seq(PlainOf(X)) : s \o t \o u \in Seq(PlainOf(X))
  OBVIOUS
<1>3. <<>> \in Seq(PlainOf(X)) /\ \A x \in PlainOf(X) : <<x>> \in Seq(PlainOf(X))
  OBVIOUS
<1> QED BY <1>1, <1>2, <1>3 DEF Settles

LEMMA NextResponse == ASSUME Inv, NEW a \in Adapter, Response(a) PROVE Inv'
<1> DEFINE m == Head(replies[a])
           answered == {e \in pending[a] : e.call = m.call}
           e == CHOOSE x \in answered : TRUE
           X == {m.thread, Cwd[m.thread], e.thread, e.workspace, None, Unknown}
           x == Task("reserve", m.thread, Cwd[m.thread], Unknown)
           y == Task("attach", m.thread, Cwd[m.thread], Unknown)
           z == Task("forget", m.thread, None, Unknown)
           tasks ==
             (IF m.kind \in {"reply", "started"} /\ m.thread # None
              THEN (IF Cwd[m.thread] = None THEN <<>> ELSE <<x>>) \o <<y>> ELSE <<>>)
             \o (IF m.kind = "closed" THEN <<z>> ELSE <<>>)
             \o (IF answered = {} THEN <<>> ELSE Settles(a, e, m))
<1>1. output' = [output EXCEPT ![a] = tasks] /\ UNCHANGED <<phase, named, input, lease>>
  BY DEF Response
<1>2. /\ m.thread \in X /\ Cwd[m.thread] \in X /\ e.thread \in X /\ e.workspace \in X
      /\ None \in X /\ Unknown \in X
  OBVIOUS
<1> HIDE DEF X
<1>3. x \in PlainOf(X) /\ y \in PlainOf(X) /\ z \in PlainOf(X)
  BY <1>2 DEF Task, TaskOf, PlainOf, Plain, Dos
<1>4. Settles(a, e, m) \in Seq(PlainOf(X))
  BY <1>2, SettlesPlain
<1> HIDE DEF x, y, z, e, answered, m
<1>5. /\ <<>> \in Seq(PlainOf(X)) /\ <<x>> \in Seq(PlainOf(X)) /\ <<z>> \in Seq(PlainOf(X))
      /\ <<y>> \in Seq(PlainOf(X))
  BY <1>3
<1>6. \A s, t \in Seq(PlainOf(X)) : s \o t \in Seq(PlainOf(X))
  OBVIOUS
<1>7. tasks \in Seq(PlainOf(X))
  BY <1>4, <1>5, <1>6
<1> HIDE DEF tasks
<1>8. \A i \in 1..Len(tasks) : Plain(tasks[i])
  BY <1>7 DEF PlainOf
<1>9. tasks \in Seq(TaskOf(X))
  BY <1>7, SeqWiden DEF PlainOf
<1> QED BY <1>1, <1>8, <1>9, Starts

-----------------------------------------------------------------------------
(* The connection, the app server, and the theorem.                        *)

\* A step failed, or the app server has ended: the output thread has nothing
\* left to do and the books are as they were.
LEMMA Ends ==
  ASSUME Inv, NEW a \in Adapter, Live' = Live, phase' \in [Adapter -> Phases],
         UNCHANGED <<named, lease>>, output' = [output EXCEPT ![a] = <<>>],
         input' = input \/ input' = [input EXCEPT ![a] = NoInput]
  PROVE  Inv'
<1>1. /\ input' \in [Adapter -> Input]
      /\ \A b \in Adapter : b # a => input'[b] = input[b]
      /\ input'[a] = input[a] \/ input'[a] = NoInput
  <2>1. NoInput \in Input
    BY DEF NoInput, Input, Unknown, Value, Maybe
  <2> QED BY <2>1 DEF Inv, Typed
<1>2. <<>> \in Seq(TaskOf({})) /\ Orderly(<<>>)
  BY TaskSeqs
<1>3. Shape'
  BY <1>2, ShapeKeeps DEF Inv, Typed
<1>4. output'[a] = <<>> /\ \A b \in Adapter : b # a => output'[b] = output[b]
  BY DEF Inv, Typed, Shape
<1>5. Typed'
  BY <1>1, <1>2, <1>3, <1>4 DEF Inv, Typed
<1>6. \A v \in Workspace :
        /\ InBooks(a, v)' => InBooks(a, v) /\ named'[a][v] = named[a][v]
        /\ InHand(a, v)' => InHand(a, v) /\ input'[a].value = input[a].value
        /\ ~InTask(a, v)'
  BY <1>1, <1>4 DEF InBooks, InHand, InTask, NoInput
<1> QED BY <1>1, <1>4, <1>5, <1>6, Harmless

LEMMA NextFails == ASSUME Inv, NEW a \in Adapter, Fails(a) PROVE Inv'
<1>1. Live' = Live /\ phase' \in [Adapter -> Phases]
  BY DEF Fails, Inv, Typed, Live, Phases, Open
<1> QED BY <1>1, Ends DEF Fails

LEMMA NextStop == ASSUME Inv, NEW a \in Adapter, Stop(a) PROVE Inv'
<1>1. Live' = Live /\ phase' \in [Adapter -> Phases]
  BY DEF Stop, Inv, Typed, Live, Phases, Open
<1>2. output' = [output EXCEPT ![a] = <<>>]
  BY DEF Stop, Inv, Typed, Shape
<1> QED BY <1>1, <1>2, Ends DEF Stop

LEMMA NextDie == ASSUME Inv, NEW a \in Adapter, Die(a) PROVE Inv'
<1>1. /\ Live' \subseteq Live /\ a \notin Live' /\ lease' = lease
      /\ phase' \in [Adapter -> Phases]
  BY DEF Die, Inv, Typed, Live, Phases
<1>2. /\ input' \in [Adapter -> Input] /\ \A b \in Adapter : b # a => input'[b] = input[b]
  <2>1. NoInput \in Input
    BY DEF NoInput, Input, Unknown, Value, Maybe
  <2> QED BY <2>1 DEF Die, Inv, Typed
<1>3. /\ named' \in [Adapter -> [Workspace -> Value]]
      /\ \A b \in Adapter : b # a => named'[b] = named[b]
  <2>1. [w \in Workspace |-> Unknown] \in [Workspace -> Value]
    BY DEF Unknown, Value, Maybe
  <2> QED BY <2>1 DEF Die, Inv, Typed
<1>4. <<>> \in Seq(TaskOf({})) /\ Orderly(<<>>)
  BY TaskSeqs
<1>5. Shape'
  BY <1>4, ShapeKeeps DEF Die, Inv, Typed
<1>6. output'[a] = <<>> /\ \A b \in Adapter : b # a => output'[b] = output[b]
  BY DEF Die, Inv, Typed, Shape
<1>7. Typed'
  BY <1>1, <1>2, <1>3, <1>4, <1>5, <1>6 DEF Inv, Typed
<1> QED BY <1>1, <1>2, <1>3, <1>6, <1>7, OneStep

LEMMA Elsewhere ==
  ASSUME Inv, UNCHANGED <<phase, named, input, output, lease>> PROVE Inv'
BY DEF Inv, Typed, Shape, Live, Keeps, KeepsAt, Held, InBooks, InHand, InTask, Top

LEMMA InitInv == Init => Inv
<1> SUFFICES ASSUME Init PROVE Inv
  OBVIOUS
<1> USE DEF Init
<1>1. /\ Unknown \in Value /\ NoInput \in Input /\ Unknown.owned = FALSE
      /\ Free \in [token : Maybe(Token), owner : Maybe(Adapter)]
  BY DEF Unknown, NoInput, Free, Input, Value, Maybe
<1>2. Shape
  <2>1. output \in [Adapter -> Seq(TaskOf({}))]
    OBVIOUS
  <2> QED BY <2>1 DEF Shape
<1>3. Typed
  <2>1. \A a \in Adapter : Orderly(output[a])
    BY TaskSeqs
  <2> QED BY <1>1, <1>2, <2>1 DEF Typed, Phases
<1>4. \A a \in Adapter, w \in Workspace : ~InBooks(a, w) /\ ~InHand(a, w) /\ ~InTask(a, w)
  BY <1>1 DEF InBooks, InHand, InTask, NoInput
<1> QED BY <1>3, <1>4 DEF Inv, Live, Keeps, KeepsAt

LEMMA NextInv == Inv /\ [Next]_vars => Inv'
<1> SUFFICES ASSUME Inv, [Next]_vars PROVE Inv'
  OBVIOUS
<1>1. CASE UNCHANGED vars
  BY <1>1, Elsewhere DEF vars, local
<1>2. ASSUME NEW a \in Adapter, InputStep(a) PROVE Inv'
  <2>1. ASSUME NEW method \in Methods, NEW t \in Maybe(Thread), NEW w \in Maybe(Workspace),
               Reserve(a, method, t, w)
        PROVE  Inv'
    BY <2>1, NextReserve
  <2> QED BY <1>2, <2>1, NextUnsubscribe, NextNote, NextProceed, NextUndo, NextUndoRelease, NextForward
      DEF InputStep
<1>3. ASSUME NEW a \in Adapter, OutputStep(a) PROVE Inv'
  BY <1>3, NextResponse, NextLinkReserve, NextLinkNote, NextForget, NextCheck, NextRelease,
     NextFails
  DEF OutputStep
<1>4. ASSUME NEW a \in Adapter, NativeStep(a) PROVE Inv'
  BY <1>4, Elsewhere
  DEF NativeStep, AnswerStart, AnswerResume, AnswerThread, AnswerError, StartedThread, CloseThread, local
<1> QED BY <1>1, <1>2, <1>3, <1>4, NextStop, NextClose, NextDie DEF Next

\* A lease that a live adapter has on its books as its own is the lease the
\* registry has: whatever its two threads, the app server and the other
\* adapters do in between.
THEOREM OwnLeaseIsHeld == Spec => []OwnedIsHeld
<1>1. Inv => OwnedIsHeld
  BY DEF Inv, Keeps, KeepsAt, InBooks, Held, OwnedIsHeld
<1> QED BY InitInv, NextInv, <1>1, PTL DEF Spec

-----------------------------------------------------------------------------
(* A chat is registered with one connection.                               *)

\* The request of the input thread, as it will stand in pending.
Asked(a) == [call |-> input[a].call, method |-> input[a].method,
             thread |-> input[a].thread, workspace |-> input[a].workspace]

\* Only a start names no chat.
Entry == {e \in Pending : e.method # "start" => e.thread # None}

Books ==
  /\ threads \in [Adapter -> SUBSET Thread]
  /\ loaded \in [Adapter -> SUBSET Thread]
  /\ pending \in [Adapter -> SUBSET Entry]
  /\ sent \in [Adapter -> SUBSET Entry]
  /\ replies \in [Adapter -> Seq(Message)]
  /\ record \in [Thread -> [saved : BOOLEAN, leases : SUBSET Adapter]]

\* No step of the output thread has failed.
Firm(a) == phase[a] \in {"running", "closing"}

\* A record is leased to one live adapter, and to every one that registers it
\* unless one of its steps failed.
Leased ==
  /\ \A t \in Thread : \A a, b \in Live \cap record[t].leases : a = b
  /\ \A a \in Live : Firm(a) => \A t \in threads[a] : a \in record[t].leases

\* Requests have identities of their own, from the input thread to the answer.
Requests(a) ==
  /\ input[a].at # "none" => Asked(a) \in Entry
  /\ sent[a] \subseteq pending[a]
  /\ \A e, f \in pending[a] : e.call = f.call => e = f
  /\ input[a].at \notin {"none", "pended"} =>
       \A e \in pending[a] : e.call # input[a].call
  /\ phase[a] \in Open /\ input[a].at = "pended" =>
       /\ Asked(a) \in pending[a] \ sent[a]
       /\ \A i \in 1..Len(replies[a]) : replies[a][i].call # input[a].call
  /\ phase[a] \notin Open => loaded[a] = {} /\ sent[a] = {} /\ replies[a] = <<>>

\* A message answers one request, which the books still have, or none.
Answers(a) ==
  \A i \in 1..Len(replies[a]) :
    LET m == replies[a][i] IN
    /\ m.call = None => m.kind \in {"started", "closed"}
    /\ m.call # None =>
         /\ m.kind \in {"reply", "error", "notLoaded"}
         /\ \E e \in pending[a] \ sent[a] :
              e.call = m.call /\ (m.thread # None => e.method \in {"start", "resume"})
         /\ \A j \in 1..Len(replies[a]) : replies[a][j].call = m.call => j = i

\* What the output thread has left to do agrees with what is registered.
Does(a, i, do, t) == output[a][i].do = do /\ output[a][i].thread = t
Ordered(a) ==
  \A i \in 1..Len(output[a]) :
    LET task == output[a][i] IN
    /\ task.do = "attach" => task.thread \in Thread
    /\ task.do = "bind" =>
         task.thread \in Thread /\ (Firm(a) => task.thread \in threads[a])
    /\ task.do = "unrecord" => i = 1 /\ task.thread \notin threads[a]
    /\ task.do = "forget" =>
         \A j \in 1..Len(output[a]) : output[a][j].do \notin {"attach", "bind"}

\* The message registers the chat, or has it forgotten.
Attaches(a, i, t) == replies[a][i].kind \in {"reply", "started"} /\ replies[a][i].thread = t
Closes(a, i, t) ==
  \/ replies[a][i].kind = "closed" /\ replies[a][i].thread = t
  \/ /\ replies[a][i].kind = "notLoaded"
     /\ \E e \in pending[a] : e.call = replies[a][i].call /\ e.thread = t

\* The chat is registered once the output thread is done with its message, or
\* once it has come to the n-th message of those it has not read yet, if no step
\* of it fails.
Standing(a, t) ==
  \/ \E i \in 1..Len(output[a]) : Does(a, i, "attach", t)
  \/ t \in threads[a] /\ \A i \in 1..Len(output[a]) : ~Does(a, i, "forget", t)
Ready(a, t, n) ==
  \/ ~Firm(a)
  \/ \E j \in 1..(n - 1) : Attaches(a, j, t) /\ \A k \in (j + 1)..(n - 1) : ~Closes(a, k, t)
  \/ Standing(a, t) /\ \A k \in 1..(n - 1) : ~Closes(a, k, t)

Prepared(a) ==
  /\ \A t \in loaded[a] : Ready(a, t, Len(replies[a]) + 1)
  /\ \A i \in 1..Len(replies[a]) : \A e \in pending[a] :
       replies[a][i].kind = "reply" /\ e.call = replies[a][i].call /\ e.method = "turn"
         => Ready(a, e.thread, i)

Talks(a) == Answers(a) /\ Ordered(a) /\ Prepared(a)
InvThreads == Books /\ Leased /\ \A a \in Adapter : Requests(a) /\ Talks(a)

-----------------------------------------------------------------------------
(* What a step leaves alone.                                               *)

\* The output thread's view depends on the books and on the messages.
LEMMA TalkStays ==
  ASSUME NEW a, Talks(a), phase'[a] = phase[a],
         threads'[a] = threads[a], pending'[a] = pending[a], output'[a] = output[a],
         sent'[a] = sent[a], loaded'[a] = loaded[a], replies'[a] = replies[a]
  PROVE  Talks(a)'
<1>1. Answers(a)'
  BY DEF Talks, Answers
<1>2. Ordered(a)'
  BY DEF Talks, Ordered, Firm
<1>3. \A i, t : /\ Attaches(a, i, t)' <=> Attaches(a, i, t)
                /\ Closes(a, i, t)' <=> Closes(a, i, t)
  BY DEF Attaches, Closes
<1>4. \A t : Standing(a, t)' <=> Standing(a, t)
  BY DEF Standing, Does
<1>5. ASSUME NEW t, NEW n, Ready(a, t, n) PROVE Ready(a, t, n)'
  BY <1>3, <1>4, <1>5 DEF Ready, Firm
<1>6. Prepared(a)'
  <2>1. ASSUME NEW t \in loaded'[a] PROVE Ready(a, t, Len(replies[a]) + 1)'
    BY <1>5, <2>1 DEF Talks, Prepared
  <2>2. ASSUME NEW i \in 1..Len(replies'[a]), NEW e \in pending'[a], replies'[a][i].kind = "reply",
               e.call = replies'[a][i].call, e.method = "turn"
        PROVE  Ready(a, e.thread, i)'
    BY <1>5, <2>2 DEF Talks, Prepared
  <2> QED BY <2>1, <2>2 DEF Prepared
<1> QED BY <1>1, <1>2, <1>6 DEF Talks

LEMMA RequestsStay ==
  ASSUME NEW a, Requests(a), phase'[a] = phase[a], input'[a] = input[a], pending'[a] = pending[a],
         sent'[a] = sent[a], loaded'[a] = loaded[a], replies'[a] = replies[a]
  PROVE  Requests(a)'
BY DEF Requests, Asked

\* A step of one adapter is no matter for the conversations of the others.
LEMMA OneTalk ==
  ASSUME InvThreads, NEW a \in Adapter, Requests(a)', Talks(a)', Books', Leased',
         \A b \in Adapter \ {a} :
           /\ phase'[b] = phase[b] /\ input'[b] = input[b] /\ threads'[b] = threads[b]
           /\ pending'[b] = pending[b] /\ output'[b] = output[b] /\ sent'[b] = sent[b]
           /\ loaded'[b] = loaded[b] /\ replies'[b] = replies[b]
  PROVE  InvThreads'
<1>1. ASSUME NEW b \in Adapter \ {a} PROVE Requests(b)' /\ Talks(b)'
  BY RequestsStay, TalkStays DEF InvThreads
<1> QED BY <1>1 DEF InvThreads

-----------------------------------------------------------------------------
(* Records.                                                                *)

\* Nothing is registered, or taken from a record.
LEMMA LeasedStays ==
  ASSUME Leased, Typed, Live' \subseteq Live, record' = record,
         \A b \in Live' : Firm(b)' => Firm(b) /\ threads'[b] \subseteq threads[b]
  PROVE  Leased'
BY DEF Leased

\* A chat's record goes to an adapter that no live one stands against.
LEMMA TakesRecord ==
  ASSUME Typed, Books, Books', Leased, Live' = Live, phase' = phase, NEW a \in Adapter, NEW t, ~Taken(a, t),
         NEW x \in [saved : BOOLEAN, leases : SUBSET Adapter],
         x.leases = (record[t].leases \cap Live) \cup {a},
         record' = [record EXCEPT ![t] = x],
         \A b \in Live : Firm(b) => \A s \in threads'[b] : s \in threads[b] \/ (b = a /\ s = t)
  PROVE  Leased'
<1>1. \A s \in Thread : record'[s] = IF s = t THEN x ELSE record[s]
  BY DEF Books
<1>2. ASSUME NEW s \in Thread, NEW b \in Live \cap record'[s].leases, NEW c \in Live \cap record'[s].leases
      PROVE  b = c
  <2>1. CASE s = t
    <3>1. record[t].leases \cap Live \subseteq {a}
      BY DEF Taken
    <3> QED BY <1>1, <1>2, <2>1, <3>1
  <2>2. CASE s # t
    BY <1>1, <1>2, <2>2 DEF Leased
  <2> QED BY <2>1, <2>2
<1>3. ASSUME NEW b \in Live, Firm(b), NEW s \in threads'[b] PROVE b \in record'[s].leases
  <2>1. s \in Thread
    <3>1. threads'[b] \subseteq Thread
      BY DEF Books, Live, Typed
    <3> QED BY <3>1
  <2>2. CASE s = t
    <3>1. b = a \/ b \in record[t].leases
      BY <1>3, <2>2 DEF Leased
    <3> QED BY <1>1, <2>1, <2>2, <3>1
  <2>3. CASE s # t
    BY <1>1, <1>3, <2>1, <2>3 DEF Leased
  <2> QED BY <2>2, <2>3
<1>4. \A b \in Live : Firm(b)' <=> Firm(b)
  BY DEF Firm
<1> QED BY <1>2, <1>3, <1>4 DEF Leased

\* A chat's record is let go by an adapter that does not register the chat.
LEMMA LetsRecordGo ==
  ASSUME Typed, Books, Leased, Live' = Live, phase' = phase, NEW a \in Adapter, NEW t, t \notin threads[a],
         NEW x \in [saved : BOOLEAN, leases : SUBSET Adapter],
         x.leases = (record[t].leases \cap Live) \ {a},
         record' = [record EXCEPT ![t] = x], threads' = threads
  PROVE  Leased'
<1>1. \A s \in Thread : record'[s] = IF s = t THEN x ELSE record[s]
  BY DEF Books
<1>2. ASSUME NEW s \in Thread, NEW b \in Live \cap record'[s].leases, NEW c \in Live \cap record'[s].leases
      PROVE  b = c
  BY <1>1, <1>2 DEF Leased
<1>3. ASSUME NEW b \in Live, Firm(b), NEW s \in threads[b] PROVE b \in record'[s].leases
  <2>1. s \in Thread /\ b \in record[s].leases
    <3>1. threads[b] \subseteq Thread
      BY DEF Books, Live, Typed
    <3> QED BY <1>3, <3>1 DEF Leased
  <2> QED BY <1>1, <1>3, <2>1
<1>4. \A b \in Live : Firm(b)' <=> Firm(b)
  BY DEF Firm
<1> QED BY <1>2, <1>3, <1>4 DEF Leased

-----------------------------------------------------------------------------
(* The input thread.                                                       *)

\* What is told of a request, and how far it is.
LEMMA Advances ==
  ASSUME Typed, NEW a \in Adapter, NEW at, input' = [input EXCEPT ![a].at = at]
  PROVE  /\ input'[a].at = at /\ Asked(a)' = Asked(a) /\ input'[a].call = input[a].call
         /\ \A b \in Adapter : b # a => input'[b] = input[b]
<1>1. input[a] \in Input
  BY DEF Typed
<1>2. /\ [input[a] EXCEPT !.at = at].at = at
      /\ [input[a] EXCEPT !.at = at].call = input[a].call
      /\ [input[a] EXCEPT !.at = at].method = input[a].method
      /\ [input[a] EXCEPT !.at = at].thread = input[a].thread
      /\ [input[a] EXCEPT !.at = at].workspace = input[a].workspace
  BY <1>1 DEF Input
<1>3. input' = [input EXCEPT ![a] = [input[a] EXCEPT !.at = at]]
  OBVIOUS
<1> HIDE DEF Input
<1>4. input'[a] = [input[a] EXCEPT !.at = at] /\ \A b \in Adapter : b # a => input'[b] = input[b]
  BY <1>3 DEF Typed
<1> QED BY <1>2, <1>4 DEF Asked

\* A step that only moves the input thread.
LEMMA InputMoves ==
  ASSUME InvThreads, Typed, NEW a \in Adapter, Leased', Books',
         UNCHANGED <<phase, threads, pending, output, sent, loaded, replies>>,
         \A b \in Adapter : b # a => input'[b] = input[b], Requests(a)'
  PROVE  InvThreads'
<1>1. Talks(a)'
  BY TalkStays DEF InvThreads
<1> QED BY <1>1, OneTalk

\* A request of its own begins.
LEMMA Begins ==
  ASSUME InvThreads, Typed, NEW a \in Adapter, NEW at \in {"reserved", "noted", "claimed"},
         NEW method \in Methods, NEW t \in Maybe(Thread), NEW w \in Maybe(Workspace), NEW value,
         method # "start" => t # None, Takes(a, at, method, t, w, value),
         UNCHANGED <<phase, threads, pending, output, sent, loaded, replies, record>>
  PROVE  InvThreads'
<1>1. PICK c \in Call :
        /\ \A e \in pending[a] \cup sent[a] : e.call # c
        /\ input' = [input EXCEPT ![a] =
             [at |-> at, call |-> c, method |-> method, thread |-> t, workspace |-> w, value |-> value]]
  BY DEF Takes
<1>2. /\ input'[a] = [at |-> at, call |-> c, method |-> method, thread |-> t, workspace |-> w, value |-> value]
      /\ \A b \in Adapter : b # a => input'[b] = input[b]
  BY <1>1 DEF Typed
<1>3. Asked(a)' = [call |-> c, method |-> method, thread |-> t, workspace |-> w]
  BY <1>2 DEF Asked
<1>4. Asked(a)' \in Entry
  BY <1>3 DEF Entry, Pending
<1>5. input'[a].call = c /\ input'[a].at = at
  BY <1>2
<1>6. Requests(a)'
  BY <1>1, <1>4, <1>5 DEF Requests, InvThreads
<1>7. Live' = Live
  BY DEF Live
<1>8. Leased' /\ Books'
  BY <1>7, LeasedStays DEF InvThreads, Books, Firm
<1> QED BY <1>2, <1>6, <1>8, InputMoves

LEMMA ThreadsReserve ==
  ASSUME InvThreads, Typed, NEW a \in Adapter, NEW method \in Methods, NEW t \in Maybe(Thread),
         NEW w \in Maybe(Workspace), Reserve(a, method, t, w)
  PROVE  InvThreads'
<1>1. UNCHANGED <<phase, threads, pending, output, sent, loaded, replies, record>>
      /\ (method # "start" => t # None)
  BY DEF Reserve, native
<1>2. PICK at \in {"reserved", "noted", "claimed"} : \E value : Takes(a, at, method, t, w, value)
  BY DEF Reserve
<1> QED BY <1>1, <1>2, Begins

LEMMA ThreadsUnsubscribe ==
  ASSUME InvThreads, Typed, NEW a \in Adapter, NEW t \in Thread, Unsubscribe(a, t)
  PROVE  InvThreads'
<1>1. UNCHANGED <<phase, threads, pending, output, sent, loaded, replies, record>>
  BY DEF Unsubscribe, native
<1>2. t \in Maybe(Thread) /\ None \in Maybe(Workspace) /\ t # None /\ "unsubscribe" \in Methods
      /\ Takes(a, "claimed", "unsubscribe", t, None, Unknown)
  BY NoneAssumption DEF Unsubscribe, Maybe, Methods
<1> QED BY <1>1, <1>2, Begins

\* A request that goes on, with what has been asked.
LEMMA Goes ==
  ASSUME InvThreads, Typed, NEW a \in Adapter, input[a].at \notin {"none", "pended"},
         NEW at \in {"noted", "claimed", "undo", "release"},
         input'[a].at = at /\ Asked(a)' = Asked(a) /\ input'[a].call = input[a].call,
         UNCHANGED <<phase, pending, sent, loaded, replies>>
  PROVE  Requests(a)'
BY DEF InvThreads, Requests

\* The input thread is done.
LEMMA Rests ==
  ASSUME InvThreads, Typed, NEW a \in Adapter, input' = [input EXCEPT ![a] = NoInput],
         UNCHANGED <<phase, pending, loaded, replies>>,
         sent'[a] \subseteq pending[a], phase[a] \notin Open => sent'[a] = {}
  PROVE  Requests(a)' /\ \A b \in Adapter : b # a => input'[b] = input[b]
<1>1. input'[a] = NoInput /\ \A b \in Adapter : b # a => input'[b] = input[b]
  BY DEF Typed
<1>2. input'[a].at = "none"
  BY <1>1 DEF NoInput
<1> QED BY <1>1, <1>2 DEF InvThreads, Requests

LEMMA ThreadsNote == ASSUME InvThreads, Typed, NEW a \in Adapter, Note(a) PROVE InvThreads'
<1>1. UNCHANGED <<phase, threads, pending, output, sent, loaded, replies, record>>
      /\ input[a].at = "reserved"
  BY DEF Note, native
<1>2. PICK at \in {"claimed", "noted"} : input' = [input EXCEPT ![a].at = at]
  BY DEF Note
<1>3. Requests(a)' /\ \A b \in Adapter : b # a => input'[b] = input[b]
  BY <1>1, <1>2, Advances, Goes
<1>4. Leased' /\ Books'
  BY <1>1, LeasedStays DEF InvThreads, Books, Live, Firm
<1> QED BY <1>1, <1>3, <1>4, InputMoves

LEMMA ThreadsUndo ==
  ASSUME InvThreads, Typed, NEW a \in Adapter, Undo(a) \/ UndoRelease(a) PROVE InvThreads'
<1>1. UNCHANGED <<phase, threads, pending, output, sent, loaded, replies, record>>
      /\ input[a].at \in {"undo", "release"}
  BY DEF Undo, UndoRelease, native
<1>2. Requests(a)' /\ \A b \in Adapter : b # a => input'[b] = input[b]
  <2>1. CASE input' = [input EXCEPT ![a] = NoInput]
    BY <1>1, <2>1, Rests DEF InvThreads, Requests
  <2>2. ASSUME NEW v, input' = [input EXCEPT ![a] = [input[a] EXCEPT !.at = "release", !.value = v]]
        PROVE  Requests(a)' /\ \A b \in Adapter : b # a => input'[b] = input[b]
    <3> DEFINE x == [input[a] EXCEPT !.at = "release", !.value = v]
    <3>1. /\ x.at = "release" /\ x.call = input[a].call /\ x.method = input[a].method
          /\ x.thread = input[a].thread /\ x.workspace = input[a].workspace
      BY DEF Typed, Input
    <3>2. input' = [input EXCEPT ![a] = x]
      BY <2>2
    <3> HIDE DEF x
    <3>3. input'[a] = x /\ \A b \in Adapter : b # a => input'[b] = input[b]
      BY <3>2 DEF Typed
    <3>4. Asked(a)' = Asked(a) /\ input'[a].at = "release" /\ input'[a].call = input[a].call
      BY <3>1, <3>3 DEF Asked
    <3> QED BY <1>1, <3>3, <3>4, Goes
  <2> QED BY <2>1, <2>2 DEF Undo, UndoRelease
<1>3. Leased' /\ Books'
  BY <1>1, LeasedStays DEF InvThreads, Books, Live, Firm
<1> QED BY <1>1, <1>2, <1>3, InputMoves

\* Resumed work takes the record of its chat.
LEMMA ThreadsClaim == ASSUME InvThreads, Typed, NEW a \in Adapter, Claim(a) PROVE InvThreads'
<1> DEFINE t == input[a].thread
           x == [record[t] EXCEPT !.leases = (@ \cap Live) \cup {a}]
<1>1. UNCHANGED <<phase, threads, pending, output, sent, loaded, replies>>
      /\ input[a].at = "noted"
  BY DEF Claim, native
<1>2. PICK at \in {"claimed", "undo"} : input' = [input EXCEPT ![a].at = at]
  BY DEF Claim
<1>3. Requests(a)' /\ \A b \in Adapter : b # a => input'[b] = input[b]
  BY <1>1, <1>2, Advances, Goes
<1>4. Live' = Live
  BY <1>1 DEF Live
<1>5. CASE record' = record
  BY <1>1, <1>3, <1>5, LeasedStays, InputMoves DEF InvThreads, Books, Live, Firm
<1>6. CASE record' = [record EXCEPT ![t] = x] /\ ~Taken(a, t) /\ t \in Thread
  <2>1. x \in [saved : BOOLEAN, leases : SUBSET Adapter] /\ x.leases = (record[t].leases \cap Live) \cup {a}
    BY <1>4, <1>6 DEF InvThreads, Books
  <2> HIDE DEF x
  <2>2. Books'
    BY <1>1, <1>6, <2>1 DEF InvThreads, Books
  <2>3. Leased'
    BY <1>1, <1>4, <1>6, <2>1, <2>2, TakesRecord DEF InvThreads
  <2> QED BY <1>1, <1>3, <2>2, <2>3, InputMoves
<1>7. t \notin Thread => [record EXCEPT ![t] = x] = record
  BY DEF InvThreads, Books
<1> QED BY <1>5, <1>6, <1>7 DEF Claim

\* What has been asked is expected.
LEMMA ThreadsExpect == ASSUME InvThreads, Typed, NEW a \in Adapter, Expect(a) PROVE InvThreads'
<1> DEFINE e == Asked(a)
<1>1. /\ UNCHANGED <<phase, threads, output, sent, loaded, replies, record>>
      /\ input[a].at = "claimed" /\ input' = [input EXCEPT ![a].at = "pended"]
      /\ pending' = [pending EXCEPT ![a] = pending[a] \cup {e}]
  BY DEF Expect, native, Asked
<1>2. e \in Entry /\ e.call = input[a].call /\ e.call \in Call /\ e.call # None
  <2>1. e \in Entry /\ e.call = input[a].call
    BY <1>1 DEF InvThreads, Requests, Asked
  <2>2. e.call \in Call
    BY <2>1 DEF Entry, Pending
  <2> QED BY <2>1, <2>2, NoneAssumption
<1>3. /\ pending'[a] = pending[a] \cup {e}
      /\ \A b \in Adapter : b # a => pending'[b] = pending[b]
      /\ pending' \in [Adapter -> SUBSET Entry]
  BY <1>1, <1>2 DEF InvThreads, Books
<1>4. input'[a].at = "pended" /\ Asked(a)' = e /\ input'[a].call = e.call
      /\ \A b \in Adapter : b # a => input'[b] = input[b]
  BY <1>1, <1>2, Advances
<1> HIDE DEF e
<1>5. \A f \in pending[a] \cup sent[a] : f.call # e.call
  BY <1>1, <1>2 DEF InvThreads, Requests
<1>6. \A i \in 1..Len(replies[a]) : replies[a][i].call # e.call
  BY <1>2, <1>5 DEF InvThreads, Talks, Answers
<1>7. Requests(a)'
  <2>1. e \in pending'[a] /\ e \notin sent'[a]
    BY <1>1, <1>3, <1>5
  <2>2. \A f, g \in pending'[a] : f.call = g.call => f = g
    BY <1>3, <1>5 DEF InvThreads, Requests
  <2>3. sent'[a] \subseteq pending'[a]
    BY <1>1, <1>3 DEF InvThreads, Requests
  <2> QED BY <1>1, <1>2, <1>4, <1>6, <2>1, <2>2, <2>3 DEF InvThreads, Requests
<1>8. Talks(a)'
  <2>1. Answers(a)'
    <3>1. pending[a] \ sent[a] \subseteq pending'[a] \ sent'[a]
      BY <1>1, <1>3
    <3> QED BY <1>1, <3>1 DEF InvThreads, Talks, Answers
  <2>2. Ordered(a)'
    BY <1>1 DEF InvThreads, Talks, Ordered, Firm
  <2>3. \A i, t : Attaches(a, i, t)' <=> Attaches(a, i, t)
    BY <1>1 DEF Attaches
  <2>4. \A i \in 1..Len(replies[a]) : \A t : Closes(a, i, t)' => Closes(a, i, t)
    BY <1>1, <1>3, <1>6 DEF Closes
  <2>5. \A t : Standing(a, t)' <=> Standing(a, t)
    BY <1>1 DEF Standing, Does
  <2>6. ASSUME NEW t, NEW n \in 1..(Len(replies[a]) + 1), Ready(a, t, n) PROVE Ready(a, t, n)'
    <3>1. Len(replies[a]) \in Nat
      BY DEF InvThreads, Books
    <3>2. \A k \in 1..(n - 1) : k \in 1..Len(replies[a])
      BY <3>1
    <3>3. \A j \in 1..(n - 1) : \A k \in (j + 1)..(n - 1) : k \in 1..(n - 1)
      OBVIOUS
    <3> QED BY <1>1, <2>3, <2>4, <2>5, <2>6, <3>2, <3>3 DEF Ready, Firm
  <2>7. Len(replies[a]) \in Nat /\ replies'[a] = replies[a] /\ loaded'[a] = loaded[a]
    BY <1>1 DEF InvThreads, Books
  <2>8. \A t \in loaded'[a] : Ready(a, t, Len(replies[a]) + 1)'
    <3>1. Len(replies[a]) + 1 \in 1..(Len(replies[a]) + 1)
      BY <2>7
    <3>2. \A t \in loaded[a] : Ready(a, t, Len(replies[a]) + 1)
      BY DEF InvThreads, Talks, Prepared
    <3>3. ASSUME NEW t \in loaded[a] PROVE Ready(a, t, Len(replies[a]) + 1)'
      BY <2>6, <2>7, <3>1, <3>2
    <3> QED BY <2>7, <3>3
  <2>9. ASSUME NEW i \in 1..Len(replies'[a]), NEW f \in pending'[a], replies'[a][i].kind = "reply",
               f.call = replies'[a][i].call, f.method = "turn"
        PROVE  Ready(a, f.thread, i)'
    <3>1. f \in pending[a] /\ i \in 1..Len(replies[a]) /\ i \in 1..(Len(replies[a]) + 1)
      BY <1>3, <1>6, <2>7, <2>9
    <3>2. Ready(a, f.thread, i)
      BY <2>7, <2>9, <3>1 DEF InvThreads, Talks, Prepared
    <3> QED BY <2>6, <3>1, <3>2
  <2> QED BY <2>1, <2>2, <2>8, <2>9 DEF Talks, Prepared
<1>9. Leased' /\ Books'
  BY <1>1, <1>3, LeasedStays DEF InvThreads, Books, Live, Firm
<1> QED BY <1>1, <1>3, <1>4, <1>7, <1>8, <1>9, OneTalk

\* The request goes out.
LEMMA ThreadsForward == ASSUME InvThreads, Typed, NEW a \in Adapter, Forward(a) PROVE InvThreads'
<1> DEFINE e == Asked(a)
<1>1. /\ UNCHANGED <<phase, threads, pending, output, loaded, replies, record>>
      /\ input[a].at = "pended" /\ input' = [input EXCEPT ![a] = NoInput]
      /\ sent' = IF phase[a] \in Open THEN [sent EXCEPT ![a] = sent[a] \cup {e}] ELSE sent
  BY DEF Forward, Asked
<1>2. e.call = input[a].call
  BY DEF Asked
<1>3. phase[a] \in Open =>
        /\ e \in pending[a] \ sent[a]
        /\ \A i \in 1..Len(replies[a]) : replies[a][i].call # e.call
  BY <1>1, <1>2 DEF InvThreads, Requests
<1> HIDE DEF e
<1>4. /\ sent'[a] = IF phase[a] \in Open THEN sent[a] \cup {e} ELSE sent[a]
      /\ \A b \in Adapter : b # a => sent'[b] = sent[b]
      /\ sent' \in [Adapter -> SUBSET Entry]
  <2>1. phase[a] \in Open => e \in Entry
    BY <1>3 DEF InvThreads, Books
  <2> QED BY <1>1, <2>1 DEF InvThreads, Books
<1>5. sent'[a] \subseteq pending[a] /\ (phase[a] \notin Open => sent'[a] = {})
  BY <1>3, <1>4 DEF InvThreads, Requests
<1>6. Requests(a)' /\ \A b \in Adapter : b # a => input'[b] = input[b]
  BY <1>1, <1>5, Rests
<1>7. Answers(a)'
  <2>1. \A i \in 1..Len(replies[a]) : \A f \in pending[a] \ sent[a] :
          f.call = replies[a][i].call => f \in pending'[a] \ sent'[a]
    BY <1>1, <1>3, <1>4
  <2> QED BY <1>1, <2>1 DEF InvThreads, Talks, Answers
<1>8. Ordered(a)'
  BY <1>1 DEF InvThreads, Talks, Ordered, Firm
<1>9. Prepared(a)'
  <2>1. \A i, t : /\ Attaches(a, i, t)' <=> Attaches(a, i, t)
                  /\ Closes(a, i, t)' <=> Closes(a, i, t)
    BY <1>1 DEF Attaches, Closes
  <2>2. \A t : Standing(a, t)' <=> Standing(a, t)
    BY <1>1 DEF Standing, Does
  <2>3. ASSUME NEW t, NEW n, Ready(a, t, n) PROVE Ready(a, t, n)'
    BY <1>1, <2>1, <2>2, <2>3 DEF Ready, Firm
  <2>4. \A t \in loaded'[a] : Ready(a, t, Len(replies[a]) + 1)'
    BY <1>1, <2>3 DEF InvThreads, Talks, Prepared
  <2>5. ASSUME NEW i \in 1..Len(replies'[a]), NEW f \in pending'[a], replies'[a][i].kind = "reply",
               f.call = replies'[a][i].call, f.method = "turn"
        PROVE  Ready(a, f.thread, i)'
    BY <1>1, <2>3, <2>5 DEF InvThreads, Talks, Prepared
  <2> QED BY <2>4, <2>5 DEF Prepared
<1>10. Leased' /\ Books'
  BY <1>1, <1>4, LeasedStays DEF InvThreads, Books, Live, Firm
<1> QED BY <1>1, <1>4, <1>6, <1>7, <1>8, <1>9, <1>10, OneTalk DEF Talks

-----------------------------------------------------------------------------
(* The native app server.                                                  *)

LEMMA Appended ==
  ASSUME NEW S, NEW s \in Seq(S), NEW m \in S
  PROVE  /\ Append(s, m) \in Seq(S) /\ Len(s) \in Nat /\ Len(Append(s, m)) = Len(s) + 1
         /\ \A i \in 1..Len(s) : Append(s, m)[i] = s[i]
         /\ Append(s, m)[Len(s) + 1] = m
OBVIOUS

\* A message at the end of the queue: every chat that is still loaded is
\* registered before its last message, or by it.
LEMMA Speaks ==
  ASSUME InvThreads, Typed, NEW a \in Adapter, NEW m \in Message,
         UNCHANGED <<phase, threads, pending, input, output, record>>, phase[a] \in Open,
         replies' = [replies EXCEPT ![a] = Append(replies[a], m)],
         sent' \in [Adapter -> SUBSET Entry], loaded' \in [Adapter -> SUBSET Thread],
         sent'[a] \subseteq sent[a],
         \A b \in Adapter : b # a => sent'[b] = sent[b] /\ loaded'[b] = loaded[b],
         \/ m.call = None /\ m.kind \in {"started", "closed"}
         \/ /\ m.kind \in {"reply", "error", "notLoaded"}
            /\ \E e \in sent[a] \ sent'[a] :
                 /\ e.call = m.call
                 /\ m.thread # None => e.method \in {"start", "resume"}
                 /\ m.kind = "reply" /\ e.method = "turn" => e.thread \in loaded[a]
                 /\ m.kind = "notLoaded" => e.thread \notin loaded'[a],
         \A t \in loaded'[a] :
           \/ m.kind \in {"reply", "started"} /\ m.thread = t
           \/ t \in loaded[a] /\ ~(m.kind = "closed" /\ m.thread = t)
  PROVE  InvThreads'
<1>1. /\ replies[a] \in Seq(Message) /\ replies'[a] = Append(replies[a], m)
      /\ replies' \in [Adapter -> Seq(Message)]
      /\ \A b \in Adapter : b # a => replies'[b] = replies[b]
  BY Appended DEF InvThreads, Books
<1>0. PICK N \in Nat : N = Len(replies[a])
  BY <1>1
<1>2. /\ N \in Nat /\ Len(replies'[a]) = N + 1
      /\ \A i \in 1..N : replies'[a][i] = replies[a][i]
      /\ replies'[a][N + 1] = m
  BY <1>0, <1>1, Appended
<1>3. sent[a] \subseteq pending[a] /\ \A e, f \in pending[a] : e.call = f.call => e = f
  BY DEF InvThreads, Requests
<1>4. \A e \in pending[a] : e.call \in Call /\ e.call # None
  <2>1. \A e \in pending[a] : e.call \in Call
    BY DEF InvThreads, Books, Entry, Pending
  <2> QED BY <2>1, NoneAssumption
<1>5. /\ \A i \in 1..N : replies[a][i].call = None => replies[a][i].kind \in {"started", "closed"}
      /\ \A i \in 1..N : replies[a][i].call # None =>
           /\ replies[a][i].kind \in {"reply", "error", "notLoaded"}
           /\ \E e \in pending[a] \ sent[a] : /\ e.call = replies[a][i].call
                                              /\ replies[a][i].thread # None => e.method \in {"start", "resume"}
           /\ \A j \in 1..N : replies[a][j].call = replies[a][i].call => j = i
  BY <1>0 DEF InvThreads, Talks, Answers
<1>6. \A e \in sent[a] : \A i \in 1..N : replies[a][i].call # e.call
  BY <1>3, <1>4, <1>5
<1>7. \A i \in 1..(N + 1) : i \in 1..N \/ i = N + 1
  BY <1>2
<1>8. N + 1 \notin 1..N
  BY <1>2
<1>9. Answers(a)'
  <2>1. ASSUME NEW i \in 1..N
        PROVE  /\ replies'[a][i].call = None => replies'[a][i].kind \in {"started", "closed"}
               /\ replies'[a][i].call # None =>
                    /\ replies'[a][i].kind \in {"reply", "error", "notLoaded"}
                    /\ \E e \in pending[a] \ sent'[a] :
                         /\ e.call = replies'[a][i].call
                         /\ replies'[a][i].thread # None => e.method \in {"start", "resume"}
                    /\ \A j \in 1..(N + 1) : replies'[a][j].call = replies'[a][i].call => j = i
    <3>1. replies'[a][i] = replies[a][i]
      BY <1>2
    <3>2. replies[a][i].call # None => m.call # replies[a][i].call
      BY <1>6
    <3> QED BY <1>2, <1>5, <1>7, <3>1, <3>2
  <2>2. /\ m.call = None => m.kind \in {"started", "closed"}
        /\ m.call # None =>
             /\ m.kind \in {"reply", "error", "notLoaded"}
             /\ \E e \in pending[a] \ sent'[a] :
                  e.call = m.call /\ (m.thread # None => e.method \in {"start", "resume"})
             /\ \A j \in 1..(N + 1) : replies'[a][j].call = m.call => j = N + 1
    BY <1>2, <1>3, <1>4, <1>6, <1>7
  <2>3. \A i \in 1..Len(replies'[a]) : i \in 1..N \/ (i = N + 1 /\ replies'[a][i] = m)
    BY <1>2, <1>7
  <2> QED BY <1>2, <2>1, <2>2, <2>3 DEF Answers
<1>10. Requests(a)'
  <2>1. input[a].at = "pended" =>
          /\ Asked(a) \in pending[a] \ sent'[a]
          /\ \A i \in 1..Len(replies'[a]) : replies'[a][i].call # input[a].call
    <3>1. SUFFICES ASSUME input[a].at = "pended"
                   PROVE  /\ Asked(a) \in pending[a] \ sent'[a]
                          /\ \A i \in 1..Len(replies'[a]) : replies'[a][i].call # input[a].call
      OBVIOUS
    <3>2. /\ Asked(a) \in pending[a] \ sent[a] /\ Asked(a).call = input[a].call
          /\ \A i \in 1..N : replies[a][i].call # input[a].call
      BY <1>0, <3>1 DEF InvThreads, Requests, Asked
    <3>3. m.call # input[a].call
      BY <1>3, <1>4, <3>2
    <3> QED BY <1>2, <1>7, <3>2, <3>3
  <2>2. Asked(a)' = Asked(a) /\ sent'[a] \subseteq pending'[a] /\ pending'[a] = pending[a]
    BY <1>3 DEF Asked
  <2> QED BY <2>1, <2>2 DEF InvThreads, Requests
<1>11. Ordered(a)'
  BY DEF InvThreads, Talks, Ordered, Firm
<1>12. \A i \in 1..N : \A t : /\ Attaches(a, i, t)' <=> Attaches(a, i, t)
                              /\ Closes(a, i, t)' <=> Closes(a, i, t)
  BY <1>2 DEF Attaches, Closes
<1>13. \A t : Standing(a, t)' <=> Standing(a, t)
  BY DEF Standing, Does
<1>14. ASSUME NEW t, NEW n \in 1..(N + 1), Ready(a, t, n) PROVE Ready(a, t, n)'
  <2>1. /\ \A k \in 1..(n - 1) : k \in 1..N
        /\ \A j \in 1..(n - 1) : \A k \in (j + 1)..(n - 1) : k \in 1..N
    BY <1>2
  <2> QED BY <1>12, <1>13, <1>14, <2>1 DEF Ready, Firm
<1>15. \A t \in loaded[a] : Ready(a, t, N + 1)
  BY <1>0 DEF InvThreads, Talks, Prepared
<1>16. \A i \in 1..N : \A e \in pending[a] :
         replies[a][i].kind = "reply" /\ e.call = replies[a][i].call /\ e.method = "turn"
           => Ready(a, e.thread, i)
  BY <1>0 DEF InvThreads, Talks, Prepared
<1>17. N + 1 \in 1..(N + 1) /\ \A i \in 1..N : i \in 1..(N + 1)
  BY <1>2
<1>18. ASSUME NEW t \in loaded'[a] PROVE Ready(a, t, Len(replies[a]) + 1)'
  <2>1. CASE m.kind \in {"reply", "started"} /\ m.thread = t
    <3>1. Attaches(a, N + 1, t)'
      BY <1>2, <2>1 DEF Attaches
    <3>2. N + 1 \in 1..(N + 2 - 1) /\ \A k \in (N + 1 + 1)..(N + 2 - 1) : FALSE
      BY <1>2
    <3>3. Ready(a, t, N + 2)'
      BY <3>1, <3>2 DEF Ready, Firm
    <3>4. Len(replies'[a]) + 1 = N + 2
      BY <1>2
    <3> QED BY <3>3, <3>4
  <2>2. CASE t \in loaded[a] /\ ~(m.kind = "closed" /\ m.thread = t)
    <3>1. Ready(a, t, N + 1)'
      BY <1>14, <1>15, <1>17, <2>2
    <3>2. ~Closes(a, N + 1, t)'
      BY <1>2, <1>3, <1>4, <2>2 DEF Closes
    <3>3. /\ \A k \in 1..(N + 2 - 1) : k \in 1..(N + 1 - 1) \/ k = N + 1
          /\ \A j : \A k \in (j + 1)..(N + 2 - 1) : k \in (j + 1)..(N + 1 - 1) \/ k = N + 1
          /\ \A j \in 1..(N + 1 - 1) : j \in 1..(N + 2 - 1)
      BY <1>2
    <3>4. Ready(a, t, N + 2)'
      BY <3>1, <3>2, <3>3 DEF Ready, Firm
    <3>5. Len(replies'[a]) + 1 = N + 2
      BY <1>2
    <3> QED BY <3>4, <3>5
  <2> QED BY <2>1, <2>2
<1>19. ASSUME NEW i \in 1..Len(replies'[a]), NEW e \in pending'[a], replies'[a][i].kind = "reply",
              e.call = replies'[a][i].call, e.method = "turn"
       PROVE  Ready(a, e.thread, i)'
  <2>1. CASE i \in 1..N
    <3>1. Ready(a, e.thread, i)
      BY <1>2, <1>16, <1>19, <2>1
    <3> QED BY <1>14, <1>17, <2>1, <3>1
  <2>2. CASE i = N + 1
    <3>1. e.thread \in loaded[a]
      BY <1>2, <1>3, <1>4, <1>19, <2>2
    <3> QED BY <1>14, <1>15, <1>17, <2>2, <3>1
  <2> QED BY <1>2, <1>7, <2>1, <2>2
<1>20. Prepared(a)'
  BY <1>18, <1>19 DEF Prepared
<1>21. Leased' /\ Books'
  BY <1>1, LeasedStays DEF InvThreads, Books, Live, Firm
<1> QED BY <1>1, <1>9, <1>10, <1>11, <1>20, <1>21, OneTalk DEF Talks

LEMMA RunsIfAsked ==
  ASSUME InvThreads, Typed, NEW a \in Adapter, sent[a] # {} \/ loaded[a] # {}
  PROVE  phase[a] \in Open
BY DEF InvThreads, Requests

LEMMA ThreadsAnswer ==
  ASSUME InvThreads, Typed, NEW a \in Adapter, NEW e \in sent[a],
         \/ \E t \in Thread : AnswerStart(a, e, t)
         \/ AnswerResume(a, e) \/ AnswerThread(a, e) \/ AnswerError(a, e)
  PROVE  InvThreads'
<1>1. e \in Entry /\ e.call \in Call /\ e.call # None
  <2>1. e \in Entry /\ e.call \in Call
    BY DEF InvThreads, Books, Entry, Pending
  <2> QED BY <2>1, NoneAssumption
<1>2. /\ UNCHANGED <<phase, threads, pending, input, output, record>>
      /\ sent' = [sent EXCEPT ![a] = sent[a] \ {e}]
  BY DEF AnswerStart, AnswerResume, AnswerThread, AnswerError, local
<1>3. /\ sent' \in [Adapter -> SUBSET Entry] /\ sent'[a] = sent[a] \ {e}
      /\ \A b \in Adapter : b # a => sent'[b] = sent[b]
  BY <1>2 DEF InvThreads, Books
<1>4. e \in sent[a] \ sent'[a] /\ sent'[a] \subseteq sent[a]
  BY <1>3
<1>5. phase[a] \in Open
  BY RunsIfAsked
<1>6. ASSUME NEW t \in Thread, e.method \in {"start", "resume"},
             loaded' = [loaded EXCEPT ![a] = loaded[a] \cup {t}],
             replies' = [replies EXCEPT ![a] = Append(replies[a], [kind |-> "reply", call |-> e.call, thread |-> t])]
      PROVE  InvThreads'
  <2> DEFINE m == [kind |-> "reply", call |-> e.call, thread |-> t]
  <2>1. m \in Message /\ m.kind = "reply" /\ m.call = e.call /\ m.thread = t
    BY <1>1 DEF Message, Maybe
  <2>2. replies' = [replies EXCEPT ![a] = Append(replies[a], m)]
    BY <1>6
  <2> HIDE DEF m
  <2>3. /\ loaded' \in [Adapter -> SUBSET Thread] /\ loaded'[a] = loaded[a] \cup {t}
        /\ \A b \in Adapter : b # a => loaded'[b] = loaded[b]
    BY <1>6 DEF InvThreads, Books
  <2>4. \A s \in loaded'[a] :
          \/ m.kind \in {"reply", "started"} /\ m.thread = s
          \/ s \in loaded[a] /\ ~(m.kind = "closed" /\ m.thread = s)
    BY <2>1, <2>3
  <2>5. /\ m.kind \in {"reply", "error", "notLoaded"}
        /\ \E f \in sent[a] \ sent'[a] :
             /\ f.call = m.call
             /\ m.thread # None => f.method \in {"start", "resume"}
             /\ m.kind = "reply" /\ f.method = "turn" => f.thread \in loaded[a]
             /\ m.kind = "notLoaded" => f.thread \notin loaded'[a]
    <3>1. /\ m.kind \in {"reply", "error", "notLoaded"}
          /\ e.call = m.call
          /\ m.thread # None => e.method \in {"start", "resume"}
          /\ m.kind = "reply" /\ e.method = "turn" => e.thread \in loaded[a]
          /\ m.kind = "notLoaded" => e.thread \notin loaded'[a]
      BY <1>6, <2>1, <2>3
    <3> QED BY <1>4, <3>1
  <2>6. \A b \in Adapter : b # a => sent'[b] = sent[b] /\ loaded'[b] = loaded[b]
    BY <1>3, <2>3
  <2>7. /\ sent' \in [Adapter -> SUBSET Entry] /\ loaded' \in [Adapter -> SUBSET Thread]
        /\ sent'[a] \subseteq sent[a] /\ m \in Message
    BY <1>3, <1>4, <2>1, <2>3
  <2> QED BY ONLY InvThreads, Typed, <1>2, <1>5, <2>2, <2>4, <2>5, <2>6, <2>7, Speaks
<1>7. ASSUME NEW kind \in {"reply", "error", "notLoaded"}, loaded' = loaded,
             kind = "reply" => e.thread \in loaded[a], kind = "notLoaded" => e.thread \notin loaded[a],
             replies' = [replies EXCEPT ![a] = Append(replies[a], [kind |-> kind, call |-> e.call, thread |-> None])]
      PROVE  InvThreads'
  <2> DEFINE m == [kind |-> kind, call |-> e.call, thread |-> None]
  <2>1. m \in Message /\ m.kind = kind /\ m.call = e.call /\ m.thread = None
    BY <1>1 DEF Message, Maybe
  <2>2. replies' = [replies EXCEPT ![a] = Append(replies[a], m)]
    BY <1>7
  <2> HIDE DEF m
  <2>3. /\ loaded' \in [Adapter -> SUBSET Thread] /\ loaded'[a] = loaded[a]
        /\ \A b \in Adapter : b # a => loaded'[b] = loaded[b]
    BY <1>7 DEF InvThreads, Books
  <2>4. \A s \in loaded'[a] : s \in loaded[a] /\ ~(m.kind = "closed" /\ m.thread = s)
    BY <2>1, <2>3
  <2>5. /\ m.kind \in {"reply", "error", "notLoaded"}
        /\ \E f \in sent[a] \ sent'[a] :
             /\ f.call = m.call
             /\ m.thread # None => f.method \in {"start", "resume"}
             /\ m.kind = "reply" /\ f.method = "turn" => f.thread \in loaded[a]
             /\ m.kind = "notLoaded" => f.thread \notin loaded'[a]
    <3>1. /\ m.kind \in {"reply", "error", "notLoaded"}
          /\ e.call = m.call
          /\ m.thread # None => e.method \in {"start", "resume"}
          /\ m.kind = "reply" /\ e.method = "turn" => e.thread \in loaded[a]
          /\ m.kind = "notLoaded" => e.thread \notin loaded'[a]
      BY <1>7, <2>1, <2>3
    <3> QED BY <1>4, <3>1
  <2> QED BY <1>2, <1>3, <1>4, <1>5, <2>1, <2>2, <2>3, <2>4, <2>5, Speaks
<1>8. CASE \E t \in Thread : AnswerStart(a, e, t)
  BY <1>6, <1>8 DEF AnswerStart, Says
<1>9. CASE AnswerResume(a, e)
  <2>1. e.method = "resume" /\ e.thread \in Thread
    <3>1. e.method = "resume"
      BY <1>9 DEF AnswerResume
    <3> QED BY <1>1, <3>1 DEF Entry, Pending, Maybe
  <2> QED BY <1>6, <1>9, <2>1 DEF AnswerResume, Says
<1>10. CASE AnswerThread(a, e) \/ AnswerError(a, e)
  BY <1>7, <1>10 DEF AnswerThread, AnswerError, Says
<1> QED BY <1>8, <1>9, <1>10

LEMMA ThreadsTold ==
  ASSUME InvThreads, Typed, NEW a \in Adapter, NEW t \in Thread, StartedThread(a, t) \/ CloseThread(a, t)
  PROVE  InvThreads'
<1>1. /\ UNCHANGED <<phase, threads, pending, input, output, record>> /\ sent' = sent
      /\ phase[a] \in Open
  <2>1. loaded[a] # {}
    BY DEF StartedThread, CloseThread
  <2> QED BY <2>1, RunsIfAsked DEF StartedThread, CloseThread, local
<1>2. PICK kind \in {"started", "closed"} :
        /\ replies' = [replies EXCEPT ![a] = Append(replies[a], [kind |-> kind, call |-> None, thread |-> t])]
        /\ loaded' = IF kind = "started" THEN [loaded EXCEPT ![a] = loaded[a] \cup {t}]
                     ELSE [loaded EXCEPT ![a] = loaded[a] \ {t}]
  BY DEF StartedThread, CloseThread, Says
<1> DEFINE m == [kind |-> kind, call |-> None, thread |-> t]
<1>3. m \in Message /\ m.kind = kind /\ m.call = None /\ m.thread = t
  BY DEF Message, Maybe
<1>4. replies' = [replies EXCEPT ![a] = Append(replies[a], m)]
  BY <1>2
<1> HIDE DEF m
<1>5. /\ loaded' \in [Adapter -> SUBSET Thread] /\ sent' \in [Adapter -> SUBSET Entry]
      /\ loaded'[a] = IF kind = "started" THEN loaded[a] \cup {t} ELSE loaded[a] \ {t}
      /\ \A b \in Adapter : b # a => loaded'[b] = loaded[b] /\ sent'[b] = sent[b]
      /\ sent'[a] \subseteq sent[a]
  BY <1>1, <1>2 DEF InvThreads, Books
<1>6. \A s \in loaded'[a] :
        \/ m.kind \in {"reply", "started"} /\ m.thread = s
        \/ s \in loaded[a] /\ ~(m.kind = "closed" /\ m.thread = s)
  BY <1>3, <1>5
<1> QED BY <1>1, <1>3, <1>4, <1>5, <1>6, Speaks

-----------------------------------------------------------------------------
(* The output thread.                                                      *)

\* What is left to do: the new tasks, and the old ones but the first.
LEMMA Remains ==
  ASSUME Shape, NEW a \in Adapter, output[a] # <<>>, NEW X, NEW tasks \in Seq(TaskOf(X)), Continue(a, tasks)
  PROVE  /\ \A i \in 1..Len(output'[a]) :
              \/ i \in 1..Len(tasks) /\ output'[a][i] = tasks[i]
              \/ \E j \in 2..Len(output[a]) : output'[a][i] = output[a][j]
         /\ \A j \in 2..Len(output[a]) : \E i \in 1..Len(output'[a]) : output'[a][i] = output[a][j]
         /\ 1 \in 1..Len(output[a]) /\ Top(a) = output[a][1]
         /\ \A j \in 1..Len(output[a]) : j = 1 \/ j \in 2..Len(output[a])
         /\ \A j \in 2..Len(output[a]) : j \in 1..Len(output[a]) /\ j # 1
         /\ \A b \in Adapter : b # a => output'[b] = output[b]
<1>1. PICK X1 : output \in [Adapter -> Seq(TaskOf(X1))]
  BY DEF Shape
<1> DEFINE U == TaskOf(X \cup X1)
           old == output[a]
           rest == Tail(old)
           new == tasks \o rest
<1>2. TaskOf(X) \subseteq U /\ TaskOf(X1) \subseteq U
  BY DEF TaskOf
<1>3. tasks \in Seq(U) /\ old \in Seq(U) /\ old # <<>>
  BY <1>1, <1>2, SeqWiden
<1>4. /\ rest \in Seq(U) /\ Len(old) \in Nat \ {0} /\ Len(rest) = Len(old) - 1
      /\ Head(old) = old[1] /\ \A i \in 1..Len(rest) : rest[i] = old[i + 1]
  BY <1>3
<1>5. output' = [output EXCEPT ![a] = new]
  BY DEF Continue
<1>6. output'[a] = new /\ \A b \in Adapter : b # a => output'[b] = output[b]
  BY <1>1, <1>5
<1> HIDE DEF rest
<1>7. /\ Len(new) = Len(tasks) + Len(rest) /\ Len(tasks) \in Nat /\ Len(rest) \in Nat
      /\ \A i \in 1..Len(new) : new[i] = IF i <= Len(tasks) THEN tasks[i] ELSE rest[i - Len(tasks)]
  BY <1>3, <1>4, Joined
<1> HIDE DEF new, old
<1>8. ASSUME NEW i \in 1..Len(new)
      PROVE  \/ i \in 1..Len(tasks) /\ new[i] = tasks[i]
             \/ \E j \in 2..Len(old) : new[i] = old[j]
  <2>1. CASE i <= Len(tasks)
    BY <1>7, <2>1
  <2>2. CASE ~(i <= Len(tasks))
    <3>1. i - Len(tasks) \in 1..Len(rest) /\ (i - Len(tasks)) + 1 \in 2..Len(old)
      BY <1>4, <1>7, <2>2
    <3>2. new[i] = rest[i - Len(tasks)] /\ rest[i - Len(tasks)] = old[(i - Len(tasks)) + 1]
      BY <1>4, <1>7, <2>2, <3>1
    <3> QED BY <3>1, <3>2
  <2> QED BY <2>1, <2>2
<1>9. ASSUME NEW j \in 2..Len(old) PROVE \E i \in 1..Len(new) : new[i] = old[j]
  <2> DEFINE i == Len(tasks) + (j - 1)
  <2>1. i \in 1..Len(new) /\ ~(i <= Len(tasks)) /\ i - Len(tasks) = j - 1 /\ j - 1 \in 1..Len(rest) /\ (j - 1) + 1 = j
    BY <1>4, <1>7
  <2>2. new[i] = rest[j - 1] /\ rest[j - 1] = old[(j - 1) + 1]
    BY <1>4, <1>7, <2>1
  <2> QED BY <2>1, <2>2
<1> USE DEF old
<1>10. 1 \in 1..Len(old) /\ (\A j \in 1..Len(old) : j = 1 \/ j \in 2..Len(old))
       /\ (\A j \in 2..Len(old) : j \in 1..Len(old) /\ j # 1)
  BY <1>4
<1> QED BY <1>4, <1>6, <1>8, <1>9, <1>10 DEF Top

\* A task is done: what stood still stands.
LEMMA Works ==
  ASSUME InvThreads, Typed, NEW a \in Adapter, output[a] # <<>>, NEW X, NEW tasks \in Seq(TaskOf(X)),
         Continue(a, tasks), UNCHANGED <<phase, input, pending, sent, loaded, replies>>,
         \A b \in Adapter : b # a => threads'[b] = threads[b], Books', Leased',
         \A k \in 1..Len(tasks) :
           /\ tasks[k].do \notin {"attach", "bind", "forget"}
           /\ tasks[k].do = "unrecord" => k = 1 /\ tasks[k].thread \notin threads'[a],
         \A t \in threads[a] : t \in threads'[a] \/ (Top(a).do = "forget" /\ Top(a).thread = t),
         Top(a).do = "attach" => Top(a).thread \in threads'[a]
  PROVE  InvThreads'
<1>1. Shape /\ Ordered(a)
  BY DEF Typed, InvThreads, Talks
<1>2. \A i \in 1..Len(output'[a]) :
        \/ i \in 1..Len(tasks) /\ output'[a][i] = tasks[i]
        \/ \E j \in 2..Len(output[a]) : output'[a][i] = output[a][j]
  BY <1>1, Remains
<1>3. /\ \A j \in 2..Len(output[a]) : \E i \in 1..Len(output'[a]) : output'[a][i] = output[a][j]
      /\ 1 \in 1..Len(output[a]) /\ Top(a) = output[a][1]
      /\ \A j \in 1..Len(output[a]) : j = 1 \/ j \in 2..Len(output[a])
      /\ \A j \in 2..Len(output[a]) : j \in 1..Len(output[a]) /\ j # 1
      /\ \A b \in Adapter : b # a => output'[b] = output[b]
  BY <1>1, Remains
<1>14. Firm(a)' <=> Firm(a)
  BY DEF Firm
<1>4. \A j \in 2..Len(output[a]) :
        /\ output[a][j].do = "attach" => output[a][j].thread \in Thread
        /\ output[a][j].do = "bind" => /\ output[a][j].thread \in Thread
                                       /\ Firm(a) => output[a][j].thread \in threads'[a]
        /\ output[a][j].do # "unrecord"
        /\ output[a][j].do = "forget" =>
             \A i \in 1..Len(output[a]) : output[a][i].do \notin {"attach", "bind"}
  BY <1>1, <1>3 DEF Ordered
\* A task that settles what is registered was there before.
<1>5. ASSUME NEW i \in 1..Len(output'[a]), output'[a][i].do \in {"attach", "bind", "forget"}
      PROVE  \E j \in 2..Len(output[a]) : output'[a][i] = output[a][j]
  BY <1>2, <1>5
<1>11. Ordered(a)'
  <2>1. ASSUME NEW i \in 1..Len(output'[a])
        PROVE  /\ output'[a][i].do = "attach" => output'[a][i].thread \in Thread
               /\ output'[a][i].do = "bind" => /\ output'[a][i].thread \in Thread
                                               /\ Firm(a) => output'[a][i].thread \in threads'[a]
    BY <1>4, <1>5
  <2>2. ASSUME NEW i \in 1..Len(output'[a]), output'[a][i].do = "unrecord"
        PROVE  i = 1 /\ output'[a][i].thread \notin threads'[a]
    <3>1. i \in 1..Len(tasks) /\ output'[a][i] = tasks[i]
      BY <1>2, <1>4, <2>2
    <3> QED BY <2>2, <3>1
  <2>3. ASSUME NEW i \in 1..Len(output'[a]), NEW k \in 1..Len(output'[a]), output'[a][i].do = "forget",
               output'[a][k].do \in {"attach", "bind"}
        PROVE  FALSE
    <3>1. PICK j \in 2..Len(output[a]) : output'[a][i] = output[a][j]
      BY <1>5, <2>3
    <3>2. PICK h \in 2..Len(output[a]) : output'[a][k] = output[a][h]
      BY <1>5, <2>3
    <3>3. output[a][h].do \notin {"attach", "bind"}
      BY <1>3, <1>4, <2>3, <3>1
    <3> QED BY <2>3, <3>2, <3>3
  <2> QED BY <1>14, <2>1, <2>2, <2>3 DEF Ordered
<1>12. ASSUME NEW t, NEW i \in 1..Len(output'[a]), Does(a, i, "forget", t)'
       PROVE  \E j \in 2..Len(output[a]) : Does(a, j, "forget", t)
  <2>1. output'[a][i].do = "forget" /\ output'[a][i].thread = t
    BY <1>12 DEF Does
  <2>2. PICK j \in 2..Len(output[a]) : output'[a][i] = output[a][j]
    BY <1>5, <2>1
  <2> QED BY <2>1, <2>2 DEF Does
<1>13. ASSUME NEW t, Standing(a, t) PROVE Standing(a, t)'
  <2>1. ASSUME NEW i \in 1..Len(output[a]), Does(a, i, "attach", t) PROVE Standing(a, t)'
    <3>1. CASE i = 1
      <4>1. t \in threads'[a] /\ output[a][1].do = "attach"
        BY <1>3, <2>1, <3>1 DEF Does
      <4>2. \A j \in 2..Len(output[a]) : output[a][j].do # "forget"
        BY <1>3, <1>4, <4>1
      <4>3. \A j \in 1..Len(output'[a]) : ~Does(a, j, "forget", t)'
        BY <1>12, <4>2 DEF Does
      <4> QED BY <4>1, <4>3 DEF Standing
    <3>2. CASE i \in 2..Len(output[a])
      <4>1. PICK k \in 1..Len(output'[a]) : output'[a][k] = output[a][i]
        BY <1>3, <3>2
      <4>2. Does(a, k, "attach", t)'
        BY <2>1, <4>1 DEF Does
      <4> QED BY <4>2 DEF Standing
    <3> QED BY <1>3, <2>1, <3>1, <3>2
  <2>2. ASSUME t \in threads[a], \A i \in 1..Len(output[a]) : ~Does(a, i, "forget", t)
        PROVE  Standing(a, t)'
    <3>1. t \in threads'[a]
      BY <1>3, <2>2 DEF Does
    <3>2. \A j \in 1..Len(output'[a]) : ~Does(a, j, "forget", t)'
      BY <1>3, <1>12, <2>2
    <3> QED BY <3>1, <3>2 DEF Standing
  <2> QED BY <1>13, <2>1, <2>2 DEF Standing
<1>6. \A i, t : /\ Attaches(a, i, t)' <=> Attaches(a, i, t)
                /\ Closes(a, i, t)' <=> Closes(a, i, t)
  BY DEF Attaches, Closes
<1>7. ASSUME NEW t, NEW n, Ready(a, t, n) PROVE Ready(a, t, n)'
  BY <1>13, <1>6, <1>7 DEF Ready, Firm
<1>8. Prepared(a)'
  <2>1. \A t \in loaded'[a] : Ready(a, t, Len(replies[a]) + 1)'
    BY <1>7 DEF InvThreads, Talks, Prepared
  <2>2. ASSUME NEW i \in 1..Len(replies'[a]), NEW f \in pending'[a], replies'[a][i].kind = "reply",
               f.call = replies'[a][i].call, f.method = "turn"
        PROVE  Ready(a, f.thread, i)'
    BY <1>7, <2>2 DEF InvThreads, Talks, Prepared
  <2> QED BY <2>1, <2>2 DEF Prepared
<1>9. Answers(a)'
  BY DEF InvThreads, Talks, Answers
<1>10. Requests(a)'
  BY RequestsStay DEF InvThreads
<1> QED BY <1>3, <1>11, <1>8, <1>9, <1>10, OneTalk DEF Talks

\* The task in hand.
LEMMA InTop ==
  ASSUME Shape, NEW a \in Adapter, output[a] # <<>>
  PROVE  1 \in 1..Len(output[a]) /\ output[a][1] = Top(a)
BY DEF Shape, Top

\* A step that leaves the chats and their records alone.
LEMMA Neutral ==
  ASSUME InvThreads, Typed, NEW a \in Adapter, output[a] # <<>>, Top(a).do # "attach",
         NEW X, NEW tasks \in Seq(TaskOf(X)), Continue(a, tasks),
         \A k \in 1..Len(tasks) : tasks[k].do \in {"note", "release"},
         UNCHANGED <<phase, threads, pending, input, sent, loaded, replies, record>>
  PROVE  InvThreads'
<1>1. Books' /\ Leased'
  BY LeasedStays DEF InvThreads, Books, Live, Firm
<1>2. \A k \in 1..Len(tasks) : tasks[k].do \notin {"attach", "bind", "forget", "unrecord"}
  OBVIOUS
<1> QED BY <1>1, <1>2, Works

\* One task, or none.
LEMMA FewTasks ==
  ASSUME NEW x
  PROVE  /\ <<>> \in Seq(TaskOf({})) /\ \A k \in 1..Len(<<>>) : FALSE
         /\ Len(<<x>>) = 1 /\ <<x>>[1] = x /\ \A k \in 1..Len(<<x>>) : k = 1
OBVIOUS

LEMMA ThreadsLinkReserve == ASSUME InvThreads, Typed, NEW a \in Adapter, LinkReserve(a) PROVE InvThreads'
<1>1. PICK value \in Value : Continue(a, <<Task("note", Top(a).thread, Top(a).workspace, value)>>)
  BY DEF LinkReserve, Top
<1> DEFINE x == Task("note", Top(a).thread, Top(a).workspace, value)
           X == {Top(a).thread, Top(a).workspace, value}
<1>2. x \in TaskOf(X) /\ x.do = "note"
  BY DEF Task, TaskOf, Dos
<1> HIDE DEF x
<1>3. <<x>> \in Seq(TaskOf(X)) /\ \A k \in 1..Len(<<x>>) : <<x>>[k].do = "note"
  BY <1>2, FewTasks, TaskSeqs
<1>4. /\ UNCHANGED <<phase, threads, pending, input, sent, loaded, replies, record>>
      /\ output[a] # <<>> /\ Top(a).do = "reserve" /\ Continue(a, <<x>>)
  BY <1>1 DEF LinkReserve, Doing, Top, native, x
<1> QED BY <1>3, <1>4, Neutral

LEMMA ThreadsDone ==
  ASSUME InvThreads, Typed, NEW a \in Adapter, LinkNote(a) \/ Release(a) PROVE InvThreads'
<1>1. /\ UNCHANGED <<phase, threads, pending, input, sent, loaded, replies, record>>
      /\ output[a] # <<>> /\ Top(a).do \in {"note", "release"} /\ Continue(a, <<>>)
  BY DEF LinkNote, Release, Doing, Top, native
<1> QED BY <1>1, FewTasks, Neutral

LEMMA ThreadsCheck == ASSUME InvThreads, Typed, NEW a \in Adapter, Check(a) PROVE InvThreads'
<1> DEFINE w == Top(a).workspace
           x == Task("release", None, w, named[a][w])
           X == {None, w, named[a][w]}
<1>1. x \in TaskOf(X) /\ x.do = "release"
  BY DEF Task, TaskOf, Dos
<1>2. /\ UNCHANGED <<phase, threads, pending, input, sent, loaded, replies, record>>
      /\ output[a] # <<>> /\ Top(a).do = "check" /\ (Continue(a, <<>>) \/ Continue(a, <<x>>))
  BY DEF Check, Doing, Top, native
<1> HIDE DEF x
<1>3. <<x>> \in Seq(TaskOf(X)) /\ \A k \in 1..Len(<<x>>) : <<x>>[k].do = "release"
  BY <1>1, FewTasks, TaskSeqs
<1>4. CASE Continue(a, <<>>)
  BY <1>2, <1>4, FewTasks, Neutral
<1>5. CASE Continue(a, <<x>>)
  BY <1>2, <1>3, <1>5, Neutral
<1> QED BY <1>2, <1>4, <1>5

\* A chat is registered, and its record taken.
LEMMA ThreadsLinkAttach == ASSUME InvThreads, Typed, NEW a \in Adapter, LinkAttach(a) PROVE InvThreads'
<1> DEFINE t == Top(a).thread
           x == [saved |-> TRUE, leases |-> (record[t].leases \cap Live) \cup {a}]
<1>1. /\ UNCHANGED <<phase, pending, input, sent, loaded, replies>>
      /\ output[a] # <<>> /\ Top(a).do = "attach" /\ Continue(a, <<>>)
      /\ ~Taken(a, t) /\ record' = [record EXCEPT ![t] = x]
      /\ threads' = [threads EXCEPT ![a] = threads[a] \cup {t}]
  BY DEF LinkAttach, Doing, Top, native
<1>2. t \in Thread
  BY <1>1, InTop DEF InvThreads, Talks, Ordered, Typed
<1>3. x \in [saved : BOOLEAN, leases : SUBSET Adapter] /\ x.leases = (record[t].leases \cap Live) \cup {a}
  BY <1>2 DEF InvThreads, Books
<1> HIDE DEF t, x
<1>4. threads'[a] = threads[a] \cup {t} /\ \A b \in Adapter : b # a => threads'[b] = threads[b]
  BY <1>1 DEF InvThreads, Books
<1>5. Books'
  BY <1>1, <1>2, <1>3 DEF InvThreads, Books
<1>6. Live' = Live /\ \A b \in Live : b \in Adapter
  BY <1>1 DEF Live, Typed
<1>7. \A b \in Live : \A s \in threads'[b] : s \in threads[b] \/ (b = a /\ s = t)
  BY <1>4, <1>6
<1>8. Leased'
  BY <1>1, <1>3, <1>5, <1>6, <1>7, TakesRecord DEF InvThreads
<1> QED BY <1>1, <1>4, <1>5, <1>8, FewTasks, Works DEF t

\* A turn was accepted: its chat is registered already.
LEMMA ThreadsBind == ASSUME InvThreads, Typed, NEW a \in Adapter, Bind(a) PROVE InvThreads'
<1>1. /\ UNCHANGED <<phase, pending, input, sent, loaded, replies, record>>
      /\ output[a] # <<>> /\ Top(a).do = "bind" /\ Continue(a, <<>>)
      /\ threads' = [threads EXCEPT ![a] = threads[a] \cup {Top(a).thread}]
  BY DEF Bind, Doing, Top, native
<1>2. Top(a).thread \in Thread /\ (Firm(a) => Top(a).thread \in threads[a])
  BY <1>1, InTop DEF InvThreads, Talks, Ordered, Typed
<1>3. threads'[a] = threads[a] \cup {Top(a).thread} /\ \A b \in Adapter : b # a => threads'[b] = threads[b]
  BY <1>1 DEF InvThreads, Books
<1>4. Books'
  BY <1>1, <1>2 DEF InvThreads, Books
<1>5. Live' = Live /\ Live \subseteq Adapter /\ \A b \in Live : Firm(b)' <=> Firm(b)
  BY <1>1 DEF Live, Typed, Firm
<1>6. \A b \in Live : Firm(b) => threads'[b] \subseteq threads[b]
  BY <1>2, <1>3, <1>5
<1>7. Leased'
  BY <1>1, <1>5, <1>6, LeasedStays DEF InvThreads
<1> QED BY <1>1, <1>3, <1>4, <1>7, FewTasks, Works

LEMMA ThreadsUnrecord == ASSUME InvThreads, Typed, NEW a \in Adapter, Unrecord(a) PROVE InvThreads'
<1> DEFINE t == Top(a).thread
           x == [record[t] EXCEPT !.leases = (record[t].leases \cap Live) \ {a}]
<1>1. /\ UNCHANGED <<phase, threads, pending, input, sent, loaded, replies>>
      /\ output[a] # <<>> /\ Top(a).do = "unrecord" /\ Continue(a, <<>>)
      /\ record' = [record EXCEPT ![t] = x]
  BY DEF Unrecord, Doing, Top, native
<1>2. t \notin threads[a]
  BY <1>1, InTop DEF InvThreads, Talks, Ordered, Typed
<1>3. Live' = Live
  BY <1>1 DEF Live
<1>4. Books' /\ Leased'
  <2>1. CASE t \in Thread
    <3>1. x \in [saved : BOOLEAN, leases : SUBSET Adapter] /\ x.leases = (record[t].leases \cap Live) \ {a}
      BY <2>1 DEF InvThreads, Books
    <3> HIDE DEF x
    <3> QED BY <1>1, <1>2, <1>3, <3>1, LetsRecordGo DEF InvThreads, Books
  <2>2. CASE t \notin Thread
    <3>1. record' = record
      BY <1>1, <2>2 DEF InvThreads, Books
    <3> QED BY <1>1, <1>3, <3>1, LeasedStays DEF InvThreads, Books, Firm
  <2> QED BY <2>1, <2>2
<1> QED BY <1>1, <1>4, FewTasks, Works

\* The chat leaves the books before its record is let go.
LEMMA ThreadsForget == ASSUME InvThreads, Typed, NEW a \in Adapter, Forget(a) PROVE InvThreads'
<1> DEFINE t == Top(a).thread
           w == named_threads[a][t]
           x == Task("unrecord", t, None, Unknown)
           y == Task("check", None, w, Unknown)
           tasks == <<x>> \o (IF w = None THEN <<>> ELSE <<y>>)
           X == {t, w, None, Unknown}
<1>1. /\ UNCHANGED <<phase, pending, input, sent, loaded, replies, record>>
      /\ output[a] # <<>> /\ Top(a).do = "forget" /\ Continue(a, tasks)
      /\ threads' = [threads EXCEPT ![a] = threads[a] \ {t}]
  BY DEF Forget, Doing, Top, native
<1>2. x \in TaskOf(X) /\ y \in TaskOf(X) /\ x.do = "unrecord" /\ x.thread = t /\ y.do = "check"
  BY DEF Task, TaskOf, Dos
<1> HIDE DEF x, y, X, w
<1>3. /\ tasks \in Seq(TaskOf(X)) /\ 1 \in 1..Len(tasks) /\ tasks[1] = x
      /\ \A k \in 1..Len(tasks) : k = 1 \/ tasks[k] = y
  <2>1. <<x>> \in Seq(TaskOf(X)) /\ <<y>> \in Seq(TaskOf(X)) /\ <<>> \in Seq(TaskOf(X))
        /\ Len(<<x>>) = 1 /\ Len(<<y>>) = 1 /\ Len(<<>>) = 0 /\ <<x>>[1] = x /\ <<y>>[1] = y
    BY <1>2
  <2>2. CASE w = None
    <3>1. tasks = <<x>>
      BY <2>1, <2>2
    <3> QED BY <2>1, <3>1
  <2>3. CASE w # None
    <3>1. tasks = <<x>> \o <<y>>
      BY <2>3
    <3>2. Len(tasks) = 2 /\ tasks[1] = x /\ tasks[2] = y /\ tasks \in Seq(TaskOf(X))
      BY <2>1, <3>1, Joined
    <3> QED BY <3>2
  <2> QED BY <2>2, <2>3
<1> HIDE DEF tasks
<1>4. threads'[a] = threads[a] \ {t} /\ \A b \in Adapter : b # a => threads'[b] = threads[b]
  BY <1>1 DEF InvThreads, Books
<1>5. Live' = Live /\ \A b \in Live : b \in Adapter
  BY <1>1 DEF Live, Typed
<1>6. Books' /\ Leased'
  <2>1. Books'
    BY <1>1 DEF InvThreads, Books
  <2>2. \A b \in Live' : Firm(b)' => Firm(b) /\ threads'[b] \subseteq threads[b]
    BY <1>1, <1>4, <1>5 DEF Firm
  <2> QED BY <1>1, <1>5, <2>1, <2>2, LeasedStays DEF InvThreads
<1>7. \A k \in 1..Len(tasks) :
        /\ tasks[k].do \notin {"attach", "bind", "forget"}
        /\ tasks[k].do = "unrecord" => k = 1 /\ tasks[k].thread \notin threads'[a]
  BY <1>2, <1>3, <1>4
<1>8. \A s \in threads[a] : s \in threads'[a] \/ Top(a).thread = s
  BY <1>4
<1> QED BY <1>1, <1>3, <1>4, <1>6, <1>7, <1>8, Works

-----------------------------------------------------------------------------
(* A message of the app server.                                            *)

Has(s, y) == \E k \in 1..Len(s) : s[k] = y

LEMMA Within ==
  ASSUME NEW S, NEW s \in Seq(S), NEW t \in Seq(S), NEW u, u = s \o t
  PROVE  u \in Seq(S) /\ \A y : Has(s, y) \/ Has(t, y) => Has(u, y)
<1>1. /\ Len(u) = Len(s) + Len(t) /\ Len(s) \in Nat /\ Len(t) \in Nat
      /\ \A i \in 1..Len(u) : u[i] = IF i <= Len(s) THEN s[i] ELSE t[i - Len(s)]
  BY Joined
<1>2. ASSUME NEW i \in 1..Len(s) PROVE \E k \in 1..Len(u) : u[k] = s[i]
  <2>1. i \in 1..Len(u) /\ i <= Len(s)
    BY <1>1
  <2> QED BY <1>1, <2>1
<1>3. ASSUME NEW i \in 1..Len(t) PROVE \E k \in 1..Len(u) : u[k] = t[i]
  <2>1. Len(s) + i \in 1..Len(u) /\ ~(Len(s) + i <= Len(s)) /\ (Len(s) + i) - Len(s) = i
    BY <1>1
  <2> QED BY <1>1, <2>1
<1>4. u \in Seq(S)
  OBVIOUS
<1>5. ASSUME NEW y, NEW i \in 1..Len(s), s[i] = y PROVE \E k \in 1..Len(u) : u[k] = y
  BY <1>2, <1>5
<1>6. ASSUME NEW y, NEW i \in 1..Len(t), t[i] = y PROVE \E k \in 1..Len(u) : u[k] = y
  BY <1>3, <1>6
<1> QED BY <1>4, <1>5, <1>6 DEF Has

LEMMA ThreeParts ==
  ASSUME NEW S, NEW y \in S, NEW p \in Seq(S), NEW q \in Seq(S), NEW r \in Seq(S),
         NEW tasks, tasks = ((p \o <<y>>) \o q) \o r
  PROVE  tasks \in Seq(S) /\ Has(tasks, y)
<1>1. PICK c : c = <<y>>
  OBVIOUS
<1>2. c \in Seq(S) /\ Has(c, y)
  <2>1. <<y>> \in Seq(S) /\ Len(<<y>>) = 1 /\ <<y>>[1] = y
    OBVIOUS
  <2>2. c \in Seq(S) /\ Len(c) = 1 /\ c[1] = y
    BY <1>1, <2>1
  <2> QED BY <2>2 DEF Has
<1>3. PICK one : one = p \o c
  OBVIOUS
<1>4. one \in Seq(S) /\ Has(one, y)
  BY <1>2, <1>3, Within
<1>5. PICK two : two = one \o q
  OBVIOUS
<1>6. two \in Seq(S) /\ Has(two, y)
  BY <1>4, <1>5, Within
<1>7. tasks = two \o r
  BY <1>1, <1>3, <1>5
<1> QED BY <1>6, <1>7, Within

\* What a message has the output thread do to the chats.
Registers(m, x) == m.kind \in {"reply", "started"} /\ m.thread # None /\ x.thread = m.thread
Refuses(a, m, e) == m.kind = "error" /\ e.thread # None /\ e.thread \notin threads[a]
Forgets(a, m, answered, x) ==
  \/ m.kind = "closed" /\ x.thread = m.thread
  \/ \E e \in answered : (Refuses(a, m, e) \/ m.kind = "notLoaded") /\ x.thread = e.thread
Binds(m, answered, x) ==
  m.kind = "reply" /\ \E e \in answered : e.method = "turn" /\ x.thread = e.thread
Right(a, m, answered, X) ==
  {x \in TaskOf(X) :
     /\ x.do # "unrecord"
     /\ x.do = "attach" => Registers(m, x)
     /\ x.do = "forget" => Forgets(a, m, answered, x)
     /\ x.do = "bind" => Binds(m, answered, x)}

LEMMA SettlesRight ==
  ASSUME NEW a, NEW m, NEW answered, NEW e \in answered, NEW X,
         e.thread \in X, e.workspace \in X, None \in X, Unknown \in X
  PROVE  Settles(a, e, m) \in Seq(Right(a, m, answered, X))
<1> DEFINE S == Right(a, m, answered, X)
           x == Task("forget", e.thread, None, Unknown)
           y == Task("bind", e.thread, e.workspace, Unknown)
           z == Task("check", None, e.workspace, Unknown)
<1>1. x \in TaskOf(X) /\ y \in TaskOf(X) /\ z \in TaskOf(X)
  BY DEF Task, TaskOf, Dos
<1>2. x.do = "forget" /\ x.thread = e.thread /\ y.do = "bind" /\ y.thread = e.thread /\ z.do = "check"
  BY DEF Task
<1> HIDE DEF x, y, z
<1>3. /\ Refuses(a, m, e) \/ m.kind = "notLoaded" => x \in S
      /\ m.kind = "reply" /\ e.method = "turn" => y \in S
      /\ z \in S
  BY <1>1, <1>2 DEF Right, Registers, Forgets, Binds
<1> HIDE DEF S
<1>4. \A s, t, u \in Seq(S) : s \o t \o u \in Seq(S)
  OBVIOUS
<1>5. <<>> \in Seq(S) /\ \A v \in S : <<v>> \in Seq(S)
  OBVIOUS
<1>6. (IF Refuses(a, m, e) \/ m.kind = "notLoaded" THEN <<x>> ELSE <<>>) \in Seq(S)
  BY <1>3, <1>5
<1>7. (IF m.kind = "reply" /\ e.method = "turn" /\ e.workspace # None THEN <<y>> ELSE <<>>) \in Seq(S)
  BY <1>3, <1>5
<1>8. (IF e.workspace # None THEN <<z>> ELSE <<>>) \in Seq(S)
  BY <1>3, <1>5
<1>9. (IF Refuses(a, m, e) \/ m.kind = "notLoaded" THEN <<x>> ELSE <<>>)
      \o (IF m.kind = "reply" /\ e.method = "turn" /\ e.workspace # None THEN <<y>> ELSE <<>>)
      \o (IF e.workspace # None THEN <<z>> ELSE <<>>) \in Seq(S)
  BY <1>4, <1>6, <1>7, <1>8
<1> QED BY <1>9 DEF Settles, Refuses, x, y, z, S

\* The tasks of a message.
Answered(a, m) == {e \in pending[a] : e.call = m.call}
Assigns(a, m, answered) ==
  \E tasks, X :
    /\ output' = [output EXCEPT ![a] = tasks]
    /\ tasks \in Seq(Right(a, m, answered, X))
    /\ m.kind \in {"reply", "started"} /\ m.thread # None =>
         \E i \in 1..Len(tasks) : tasks[i].do = "attach" /\ tasks[i].thread = m.thread

LEMMA Assigned ==
  ASSUME Typed, NEW a \in Adapter, Response(a), NEW m, m = Head(replies[a]),
         NEW answered, answered = Answered(a, m)
  PROVE  Assigns(a, m, answered)
<1> DEFINE e == CHOOSE x \in answered : TRUE
           X == {m.thread, Cwd[m.thread], e.thread, e.workspace, None, Unknown}
           x == Task("reserve", m.thread, Cwd[m.thread], Unknown)
           y == Task("attach", m.thread, Cwd[m.thread], Unknown)
           z == Task("forget", m.thread, None, Unknown)
           registers == m.kind \in {"reply", "started"} /\ m.thread # None
           before == IF Cwd[m.thread] = None THEN <<>> ELSE <<x>>
           first == IF registers THEN before \o <<y>> ELSE <<>>
           second == IF m.kind = "closed" THEN <<z>> ELSE <<>>
           third == IF answered = {} THEN <<>> ELSE Settles(a, e, m)
           tasks == first \o second \o third
<1>0. PICK S : S = Right(a, m, answered, X)
  OBVIOUS
<1>1. output' = [output EXCEPT ![a] = tasks]
  BY DEF Response, Answered
<1>2. x \in TaskOf(X) /\ y \in TaskOf(X) /\ z \in TaskOf(X)
  BY DEF Task, TaskOf, Dos
<1>3. x.do = "reserve" /\ y.do = "attach" /\ y.thread = m.thread /\ z.do = "forget" /\ z.thread = m.thread
  BY DEF Task
<1>4. e.thread \in X /\ e.workspace \in X /\ None \in X /\ Unknown \in X
  OBVIOUS
<1>5. answered # {} => e \in answered
  OBVIOUS
<1> HIDE DEF x, y, z, X, e
<1>6. x \in S /\ (registers => y \in S) /\ (m.kind = "closed" => z \in S)
  BY <1>0, <1>2, <1>3 DEF Right, Registers, Forgets, Binds
<1>8. <<>> \in Seq(S) /\ \A v \in S : <<v>> \in Seq(S) /\ Len(<<v>>) = 1 /\ <<v>>[1] = v
  OBVIOUS
<1>7. third \in Seq(S)
  <2>1. CASE answered = {}
    BY <1>8, <2>1
  <2>2. CASE answered # {}
    <3>1. Settles(a, e, m) \in Seq(Right(a, m, answered, X))
      BY <1>4, <1>5, <2>2, SettlesRight
    <3> QED BY <1>0, <2>2, <3>1
  <2> QED BY <2>1, <2>2
<1>9. second \in Seq(S) /\ before \in Seq(S)
  BY <1>6, <1>8
<1>10. PICK p, q, r \in Seq(S) : p = before /\ q = second /\ r = third
  BY <1>7, <1>9
<1> HIDE DEF before, second, third
<1>11. CASE registers
  <2>1. tasks = ((p \o <<y>>) \o q) \o r
    BY <1>10, <1>11
  <2> HIDE DEF tasks, registers
  <2>2. PICK v \in S : v = y
    BY <1>6, <1>11
  <2>5. PICK u : u = tasks
    OBVIOUS
  <2>6. u = ((p \o <<v>>) \o q) \o r
    BY <2>1, <2>2, <2>5
  <2>7. u \in Seq(S) /\ Has(u, v)
    BY <2>2, <2>6, ThreeParts
  <2>3. tasks \in Seq(S) /\ \E k \in 1..Len(tasks) : tasks[k] = v
    BY <2>5, <2>7 DEF Has
  <2>4. \E k \in 1..Len(tasks) : tasks[k].do = "attach" /\ tasks[k].thread = m.thread
    BY <1>3, <2>2, <2>3
  <2> QED BY <1>0, <1>1, <2>3, <2>4 DEF Assigns
<1>12. CASE ~registers
  <2>1. tasks = (<<>> \o q) \o r
    BY <1>10, <1>12
  <2> HIDE DEF tasks
  <2>2. tasks \in Seq(S)
    <3>1. <<>> \o q = q /\ q \o r \in Seq(S)
      OBVIOUS
    <3> QED BY <2>1, <3>1
  <2> QED BY <1>0, <1>1, <1>12, <2>2 DEF Assigns
<1> QED BY <1>11, <1>12

\* Once the first message is read: what the output thread was to be ready for is
\* one message nearer.
LEMMA ThreadsResponse == ASSUME InvThreads, Typed, NEW a \in Adapter, Response(a) PROVE InvThreads'
<1>1. PICK m, answered : m = Head(replies[a]) /\ answered = Answered(a, m)
  OBVIOUS
<1>2. PICK tasks, X :
        /\ output' = [output EXCEPT ![a] = tasks]
        /\ tasks \in Seq(Right(a, m, answered, X))
        /\ m.kind \in {"reply", "started"} /\ m.thread # None =>
             \E i \in 1..Len(tasks) : tasks[i].do = "attach" /\ tasks[i].thread = m.thread
  BY <1>1, Assigned DEF Assigns
<1>3. /\ UNCHANGED <<phase, threads, input, sent, loaded, record>>
      /\ phase[a] \in Open /\ output[a] = <<>> /\ replies[a] # <<>>
      /\ replies' = [replies EXCEPT ![a] = Tail(replies[a])]
      /\ pending' = [pending EXCEPT ![a] = pending[a] \ answered]
  BY <1>1 DEF Response, Answered
<1>4. PICK N \in Nat : N = Len(replies[a])
  BY DEF InvThreads, Books
<1>5. /\ N >= 1 /\ replies'[a] \in Seq(Message) /\ Len(replies'[a]) = N - 1
      /\ replies[a][1] = m /\ m \in Message
      /\ \A i \in 1..(N - 1) : replies'[a][i] = replies[a][i + 1]
      /\ \A b \in Adapter : b # a => replies'[b] = replies[b]
      /\ replies' \in [Adapter -> Seq(Message)]
  BY <1>1, <1>3, <1>4 DEF InvThreads, Books
<1>6. /\ pending'[a] = pending[a] \ answered
      /\ \A b \in Adapter : b # a => pending'[b] = pending[b]
      /\ pending' \in [Adapter -> SUBSET Entry]
  BY <1>3 DEF InvThreads, Books
<1>7. output'[a] = tasks /\ \A b \in Adapter : b # a => output'[b] = output[b]
  BY <1>2 DEF Typed, Shape
<1>8. \A i \in 1..Len(tasks) :
        /\ tasks[i].do # "unrecord"
        /\ tasks[i].do = "attach" => Registers(m, tasks[i])
        /\ tasks[i].do = "forget" => Forgets(a, m, answered, tasks[i])
        /\ tasks[i].do = "bind" => Binds(m, answered, tasks[i])
  BY <1>2 DEF Right
<1>9. \A f \in answered : f \in pending[a] /\ f.call = m.call
  BY <1>1 DEF Answered
<1>10. \A i \in 1..(N - 1) : i + 1 \in 1..N /\ i + 1 # 1
  BY <1>4
<1>11. 1 \in 1..N
  BY <1>4, <1>5
\* The message answers no request that the app server still has.
<1>12. answered \cap sent[a] = {}
  <2>1. SUFFICES ASSUME NEW f \in answered, f \in sent[a] PROVE FALSE
    OBVIOUS
  <2>2. f \in pending[a] /\ f.call = m.call
    BY <1>9
  <2>3. m.call # None
    <3>1. f.call \in Call
      BY <2>2 DEF InvThreads, Books, Entry, Pending
    <3> QED BY <2>2, <3>1, NoneAssumption
  <2>4. PICK g \in pending[a] \ sent[a] : g.call = m.call
    BY <1>4, <1>5, <1>11, <2>3 DEF InvThreads, Talks, Answers
  <2> QED BY <2>1, <2>2, <2>4 DEF InvThreads, Requests
<1>13. \A i \in 1..(N - 1) : replies[a][i + 1].call # None => replies[a][i + 1].call # m.call
  BY <1>4, <1>5, <1>10, <1>11 DEF InvThreads, Talks, Answers
<1>14. Requests(a)'
  <2>1. sent'[a] \subseteq pending'[a]
    BY <1>3, <1>6, <1>12 DEF InvThreads, Requests
  <2>2. input[a].at = "pended" =>
          /\ Asked(a) \in pending'[a] \ sent[a]
          /\ \A i \in 1..Len(replies'[a]) : replies'[a][i].call # input[a].call
    <3>1. SUFFICES ASSUME input[a].at = "pended"
                   PROVE  /\ Asked(a) \in pending'[a] \ sent[a]
                          /\ \A i \in 1..(N - 1) : replies'[a][i].call # input[a].call
      BY <1>5
    <3>2. /\ Asked(a) \in pending[a] \ sent[a] /\ Asked(a).call = input[a].call
          /\ \A i \in 1..N : replies[a][i].call # input[a].call
      BY <1>3, <1>4, <3>1 DEF InvThreads, Requests, Asked
    <3> QED BY <1>5, <1>6, <1>9, <1>10, <1>11, <3>2
  <2>3. Asked(a)' = Asked(a)
    BY <1>3 DEF Asked
  <2> QED BY <1>3, <1>6, <2>1, <2>2, <2>3 DEF InvThreads, Requests, Open
<1>15. Answers(a)'
  <2>1. SUFFICES ASSUME NEW i \in 1..(N - 1)
                 PROVE  LET n == replies'[a][i] IN
                        /\ n.call = None => n.kind \in {"started", "closed"}
                        /\ n.call # None =>
                             /\ n.kind \in {"reply", "error", "notLoaded"}
                             /\ \E f \in pending'[a] \ sent'[a] :
                                  f.call = n.call /\ (n.thread # None => f.method \in {"start", "resume"})
                             /\ \A j \in 1..(N - 1) : replies'[a][j].call = n.call => j = i
    BY <1>5 DEF Answers
  <2> DEFINE n == replies[a][i + 1]
  <2>2. i + 1 \in 1..N /\ replies'[a][i] = n
    BY <1>5, <1>10
  <2>3. n.call = None => n.kind \in {"started", "closed"}
    BY <1>4, <2>2 DEF InvThreads, Talks, Answers
  <2>4. ASSUME n.call # None
        PROVE  /\ n.kind \in {"reply", "error", "notLoaded"}
               /\ \E f \in pending[a] \ sent[a] :
                    f.call = n.call /\ (n.thread # None => f.method \in {"start", "resume"})
               /\ \A j \in 1..N : replies[a][j].call = n.call => j = i + 1
    BY <1>4, <2>2, <2>4 DEF InvThreads, Talks, Answers
  <2>5. n.call # None => n.call # m.call
    BY <1>13
  <2> HIDE DEF n
  <2>6. ASSUME n.call # None
        PROVE  \E f \in pending'[a] \ sent'[a] :
                 f.call = n.call /\ (n.thread # None => f.method \in {"start", "resume"})
    BY <1>3, <1>6, <1>9, <2>4, <2>5, <2>6
  <2>7. ASSUME n.call # None, NEW j \in 1..(N - 1), replies'[a][j].call = n.call PROVE j = i
    <3>1. j + 1 = i + 1
      BY <1>5, <1>10, <2>4, <2>7
    <3> QED BY <3>1
  <2> QED BY <2>2, <2>3, <2>4, <2>6, <2>7
<1>16. ASSUME NEW t \in Thread, Standing(a, t), ~Closes(a, 1, t) PROVE Standing(a, t)'
  <2>1. t \in threads[a]
    BY <1>3, <1>16 DEF Standing
  <2>2. ASSUME NEW i \in 1..Len(tasks), tasks[i].do = "forget", tasks[i].thread = t PROVE FALSE
    <3>1. Forgets(a, m, answered, tasks[i])
      BY <1>8, <2>2
    <3>2. CASE m.kind = "closed" /\ tasks[i].thread = m.thread
      BY <1>5, <1>16, <2>2, <3>2 DEF Closes
    <3>3. ASSUME NEW e \in answered, Refuses(a, m, e), tasks[i].thread = e.thread PROVE FALSE
      BY <2>1, <2>2, <3>3 DEF Refuses
    <3>4. ASSUME NEW e \in answered, m.kind = "notLoaded", tasks[i].thread = e.thread PROVE FALSE
      BY <1>5, <1>9, <1>16, <2>2, <3>4 DEF Closes
    <3> QED BY <3>1, <3>2, <3>3, <3>4 DEF Forgets
  <2>3. \A i \in 1..Len(output'[a]) : ~Does(a, i, "forget", t)'
    BY <1>7, <2>2 DEF Does
  <2> QED BY <1>3, <2>1, <2>3 DEF Standing
<1>17. ASSUME NEW t \in Thread, Attaches(a, 1, t) PROVE Standing(a, t)'
  <2>1. m.kind \in {"reply", "started"} /\ m.thread # None /\ m.thread = t
    BY <1>5, <1>17, NoneAssumption DEF Attaches
  <2>2. PICK i \in 1..Len(tasks) : tasks[i].do = "attach" /\ tasks[i].thread = t
    BY <1>2, <2>1
  <2> QED BY <1>7, <2>2 DEF Standing, Does
<1>18. \A t : \A k \in 1..(N - 1) :
         /\ Attaches(a, k, t)' <=> Attaches(a, k + 1, t)
         /\ Closes(a, k, t)' => Closes(a, k + 1, t)
  BY <1>5, <1>6 DEF Attaches, Closes
<1>19. ASSUME NEW t \in Thread, NEW n \in 1..N, Ready(a, t, n + 1) PROVE Ready(a, t, n)'
  <2>1. \A k \in 1..(n - 1) : k \in 1..(N - 1) /\ k + 1 \in 1..(n + 1 - 1) /\ k + 1 > 1
    BY <1>4
  <2>2. CASE Standing(a, t) /\ \A k \in 1..(n + 1 - 1) : ~Closes(a, k, t)
    <3>1. 1 \in 1..(n + 1 - 1)
      OBVIOUS
    <3>2. Standing(a, t)'
      BY <1>16, <2>2, <3>1
    <3>3. \A k \in 1..(n - 1) : ~Closes(a, k, t)'
      BY <1>18, <2>1, <2>2
    <3> QED BY <3>2, <3>3 DEF Ready, Firm
  <2>3. ASSUME NEW j \in 1..(n + 1 - 1), Attaches(a, j, t), \A k \in (j + 1)..(n + 1 - 1) : ~Closes(a, k, t)
        PROVE  Ready(a, t, n)'
    <3>1. CASE j = 1
      <4>1. Standing(a, t)'
        BY <1>17, <2>3, <3>1
      <4>2. \A k \in 1..(n - 1) : k + 1 \in (1 + 1)..(n + 1 - 1)
        OBVIOUS
      <4>3. \A k \in 1..(n - 1) : ~Closes(a, k, t)'
        BY <1>18, <2>1, <2>3, <3>1, <4>2
      <4> QED BY <4>1, <4>3 DEF Ready, Firm
    <3>2. CASE j # 1
      <4>1. j - 1 \in 1..(n - 1) /\ (j - 1) + 1 = j
        BY <3>2
      <4>2. Attaches(a, j - 1, t)'
        BY <1>18, <2>1, <2>3, <4>1
      <4>3. \A k \in ((j - 1) + 1)..(n - 1) : k \in 1..(n - 1) /\ k + 1 \in (j + 1)..(n + 1 - 1)
        BY <4>1
      <4>4. \A k \in ((j - 1) + 1)..(n - 1) : ~Closes(a, k, t)'
        BY <1>18, <2>1, <2>3, <4>3
      <4> QED BY <4>1, <4>2, <4>4 DEF Ready, Firm
    <3> QED BY <3>1, <3>2
  <2> QED BY <1>3, <1>19, <2>2, <2>3 DEF Ready, Firm
<1>20. Prepared(a)'
  <2>1. ASSUME NEW t \in loaded'[a] PROVE Ready(a, t, Len(replies[a]) + 1)'
    <3>1. t \in Thread /\ Ready(a, t, N + 1)
      BY <1>3, <1>4, <2>1 DEF InvThreads, Books, Talks, Prepared
    <3>2. N \in 1..N /\ Len(replies'[a]) + 1 = N
      BY <1>4, <1>5
    <3>3. Ready(a, t, N)'
      BY <1>19, <3>1, <3>2
    <3> QED BY <3>2, <3>3
  <2>2. ASSUME NEW i \in 1..Len(replies'[a]), NEW f \in pending'[a], replies'[a][i].kind = "reply",
               f.call = replies'[a][i].call, f.method = "turn"
        PROVE  Ready(a, f.thread, i)'
    <3>1. i \in 1..(N - 1) /\ i \in 1..N /\ i + 1 \in 1..N /\ replies'[a][i] = replies[a][i + 1] /\ f \in pending[a]
      BY <1>4, <1>5, <1>6, <1>10, <2>2
    <3>2. Ready(a, f.thread, i + 1)
      BY <1>4, <2>2, <3>1 DEF InvThreads, Talks, Prepared
    <3>3. f.thread \in Thread
      BY <2>2, <3>1 DEF InvThreads, Books, Entry, Pending, Maybe
    <3> QED BY <1>19, <3>1, <3>2, <3>3
  <2> QED BY <2>1, <2>2 DEF Prepared
<1>21. Ordered(a)'
  <2>1. \A i \in 1..Len(tasks) : tasks[i].do = "attach" => tasks[i].thread \in Thread
    BY <1>5, <1>8 DEF Registers, Message, Maybe
  <2>4. ASSUME NEW i \in 1..Len(tasks), tasks[i].do = "bind" PROVE tasks[i].thread \in Thread
    <3>1. PICK e \in answered : e.method = "turn" /\ tasks[i].thread = e.thread
      BY <1>8, <2>4 DEF Binds
    <3> QED BY <1>9, <3>1 DEF InvThreads, Books, Entry, Pending, Maybe
  <2>2. ASSUME NEW i \in 1..Len(tasks), tasks[i].do = "bind", Firm(a) PROVE tasks[i].thread \in threads[a]
    <3>1. PICK e \in answered : m.kind = "reply" /\ e.method = "turn" /\ tasks[i].thread = e.thread
      BY <1>8, <2>2 DEF Binds
    <3>2. Ready(a, e.thread, 1)
      BY <1>4, <1>5, <1>9, <1>11, <3>1 DEF InvThreads, Talks, Prepared
    <3>3. Standing(a, e.thread)
      BY <2>2, <3>2 DEF Ready
    <3> QED BY <1>3, <3>1, <3>3 DEF Standing
  <2>3. ASSUME NEW i \in 1..Len(tasks), NEW j \in 1..Len(tasks), tasks[i].do = "forget",
               tasks[j].do \in {"attach", "bind"}
        PROVE  FALSE
    <3>1. m.kind \in {"closed", "error", "notLoaded"}
      BY <1>8, <2>3 DEF Forgets, Refuses
    <3>2. m.kind \in {"reply", "started"}
      BY <1>8, <2>3 DEF Registers, Binds
    <3> QED BY <3>1, <3>2
  <2>5. Firm(a)' => Firm(a)
    BY <1>3 DEF Firm
  <2> QED BY <1>3, <1>7, <1>8, <2>1, <2>2, <2>3, <2>4, <2>5 DEF Ordered
<1>22. Leased' /\ Books'
  BY <1>3, <1>5, <1>6, LeasedStays DEF InvThreads, Books, Live, Firm
<1> QED BY <1>3, <1>5, <1>6, <1>7, <1>14, <1>15, <1>20, <1>21, <1>22, OneTalk DEF Talks

-----------------------------------------------------------------------------
(* The end of a connection, and the theorem.                               *)

\* A connection in which a step failed promises less of its books.
LEMMA ThreadsFails == ASSUME InvThreads, Typed, NEW a \in Adapter, Fails(a) PROVE InvThreads'
<1>1. /\ phase' = [phase EXCEPT ![a] = "failing"] /\ output' = [output EXCEPT ![a] = <<>>]
      /\ input' = input \/ input' = [input EXCEPT ![a] = NoInput]
      /\ UNCHANGED <<threads, pending, sent, loaded, replies, record>> /\ phase[a] \in Open
  BY DEF Fails, native
<1>2. /\ phase'[a] = "failing" /\ output'[a] = <<>> /\ input'[a] \in {input[a], NoInput}
      /\ \A b \in Adapter : b # a =>
           phase'[b] = phase[b] /\ output'[b] = output[b] /\ input'[b] = input[b]
  BY <1>1 DEF Typed, Shape
<1>3. Books'
  BY <1>1 DEF InvThreads, Books
<1>4. Live' = Live /\ Live \subseteq Adapter
  BY <1>1 DEF Live, Typed, Open
<1>5. ~Firm(a)' /\ \A b \in Adapter : Firm(b)' => Firm(b)
  BY <1>2 DEF Firm
<1>6. Leased'
  BY <1>1, <1>4, <1>5, LeasedStays DEF InvThreads
<1>7. Requests(a)'
  <2>1. input'[a].at # "none" => input'[a] = input[a] /\ Asked(a)' = Asked(a)
    BY <1>2 DEF NoInput, Asked
  <2> QED BY <1>1, <1>2, <2>1 DEF InvThreads, Requests, Open
<1>8. Answers(a)'
  BY <1>1 DEF InvThreads, Talks, Answers
<1>9. Ordered(a)' /\ Prepared(a)'
  BY <1>2, <1>5 DEF Ordered, Prepared, Ready
<1> QED BY <1>1, <1>2, <1>3, <1>6, <1>7, <1>8, <1>9, OneTalk DEF Talks

LEMMA ThreadsStop == ASSUME InvThreads, Typed, NEW a \in Adapter, Stop(a) PROVE InvThreads'
<1>1. /\ phase' = [phase EXCEPT ![a] = IF phase[a] = "running" THEN "closing" ELSE "dropping"]
      /\ pending' = [pending EXCEPT ![a] = {}] /\ sent' = [sent EXCEPT ![a] = {}]
      /\ loaded' = [loaded EXCEPT ![a] = {}] /\ output[a] = <<>> /\ replies[a] = <<>>
      /\ input' = input \/ input' = [input EXCEPT ![a] = NoInput]
      /\ UNCHANGED <<threads, output, replies, record>> /\ phase[a] \in Open
  BY DEF Stop
<1>2. /\ phase'[a] \in Closing /\ pending'[a] = {} /\ sent'[a] = {} /\ loaded'[a] = {}
      /\ phase'[a] = "closing" => phase[a] = "running"
      /\ input'[a] \in {input[a], NoInput}
      /\ \A b \in Adapter : b # a =>
           /\ phase'[b] = phase[b] /\ pending'[b] = pending[b] /\ sent'[b] = sent[b]
           /\ loaded'[b] = loaded[b] /\ input'[b] = input[b]
  BY <1>1 DEF InvThreads, Books, Typed, Closing
<1>3. Books'
  BY <1>1 DEF InvThreads, Books
<1>4. Live' = Live /\ Live \subseteq Adapter
  BY <1>1 DEF Live, Typed, Open
<1>5. \A b \in Adapter : Firm(b)' => Firm(b)
  BY <1>2 DEF Firm, Closing
<1>6. Leased'
  BY <1>1, <1>4, <1>5, LeasedStays DEF InvThreads
<1>7. Requests(a)'
  <2>1. input'[a].at # "none" => input'[a] = input[a] /\ Asked(a)' = Asked(a)
    BY <1>2 DEF NoInput, Asked
  <2> QED BY <1>1, <1>2, <2>1 DEF InvThreads, Requests, Open, Closing
<1>8. Talks(a)'
  BY <1>1, <1>2 DEF Talks, Answers, Ordered, Prepared
<1> QED BY <1>1, <1>2, <1>3, <1>6, <1>7, <1>8, OneTalk

LEMMA ThreadsDie == ASSUME InvThreads, Typed, NEW a \in Adapter, Die(a) PROVE InvThreads'
<1>1. /\ phase' = [phase EXCEPT ![a] = "dead"] /\ pending' = [pending EXCEPT ![a] = {}]
      /\ output' = [output EXCEPT ![a] = <<>>] /\ sent' = [sent EXCEPT ![a] = {}]
      /\ loaded' = [loaded EXCEPT ![a] = {}] /\ replies' = [replies EXCEPT ![a] = <<>>]
      /\ input' = [input EXCEPT ![a] = NoInput] /\ threads' = [threads EXCEPT ![a] = {}]
      /\ record' = record
  BY DEF Die
<1>2. /\ phase'[a] = "dead" /\ pending'[a] = {} /\ output'[a] = <<>> /\ sent'[a] = {}
      /\ loaded'[a] = {} /\ replies'[a] = <<>> /\ input'[a] = NoInput /\ threads'[a] = {}
      /\ \A b \in Adapter : b # a =>
           /\ phase'[b] = phase[b] /\ pending'[b] = pending[b] /\ output'[b] = output[b]
           /\ sent'[b] = sent[b] /\ loaded'[b] = loaded[b] /\ replies'[b] = replies[b]
           /\ input'[b] = input[b] /\ threads'[b] = threads[b]
  BY <1>1 DEF InvThreads, Books, Typed, Shape
<1>3. Books'
  <2>1. <<>> \in Seq(Message)
    OBVIOUS
  <2> QED BY <1>1, <2>1 DEF InvThreads, Books
<1>4. Live' \subseteq Live /\ \A b \in Live' : Firm(b)' => Firm(b) /\ threads'[b] \subseteq threads[b]
  BY <1>1, <1>2 DEF Live, Typed, Firm
<1>5. Leased'
  BY <1>1, <1>4, LeasedStays DEF InvThreads
<1>6. Requests(a)'
  BY <1>2 DEF Requests, NoInput
<1>7. Talks(a)'
  BY <1>2 DEF Talks, Answers, Ordered, Prepared
<1> QED BY <1>2, <1>3, <1>5, <1>6, <1>7, OneTalk

\* A closing adapter has no messages and no chats loaded: any task will do.
LEMMA ThreadsClose == ASSUME InvThreads, Typed, NEW a \in Adapter, Close(a) PROVE InvThreads'
<1>1. PICK x :
        /\ output' = [output EXCEPT ![a] = <<x>>] /\ x.do \in {"forget", "check"}
        /\ UNCHANGED <<phase, threads, pending, input, sent, loaded, replies, record>>
        /\ phase[a] \in Closing
  <2>1. \A do, t, w : Task(do, t, w, Unknown).do = do
    BY DEF Task
  <2> QED BY <2>1 DEF Close, native
<1>2. /\ output'[a] = <<x>> /\ Len(<<x>>) = 1 /\ <<x>>[1] = x
      /\ \A b \in Adapter : b # a => output'[b] = output[b]
  BY <1>1 DEF Typed, Shape
<1>3. loaded[a] = {} /\ replies[a] = <<>> /\ Len(<<>>) = 0
  BY <1>1 DEF InvThreads, Requests, Open, Closing
<1>4. Requests(a)'
  BY <1>1, RequestsStay DEF InvThreads
<1>5. Ordered(a)'
  BY <1>1, <1>2 DEF Ordered
<1>6. Answers(a)' /\ Prepared(a)'
  BY <1>1, <1>3 DEF Answers, Prepared
<1>7. Books' /\ Leased'
  BY <1>1, LeasedStays DEF InvThreads, Books, Live, Firm
<1> QED BY <1>1, <1>2, <1>4, <1>5, <1>6, <1>7, OneTalk DEF Talks

LEMMA ThreadsElsewhere ==
  ASSUME InvThreads, Typed, UNCHANGED <<phase, threads, pending, input, output, sent, loaded, replies, record>>
  PROVE  InvThreads'
<1>1. Books' /\ Leased'
  BY LeasedStays DEF InvThreads, Books, Live, Firm
<1>2. \A a \in Adapter : Requests(a)' /\ Talks(a)'
  BY RequestsStay, TalkStays DEF InvThreads
<1> QED BY <1>1, <1>2 DEF InvThreads

LEMMA InitThreads == Init => InvThreads
<1> SUFFICES ASSUME Init PROVE InvThreads
  OBVIOUS
<1> USE DEF Init
<1>1. Books /\ Leased
  <2>1. <<>> \in Seq(Message)
    OBVIOUS
  <2>2. Books
    BY <2>1 DEF Books
  <2>3. Leased
    BY DEF Leased, Live
  <2> QED BY <2>2, <2>3
<1>2. ASSUME NEW a \in Adapter PROVE Requests(a)
  <2>1. input[a].at = "none"
    BY DEF NoInput
  <2> QED BY <2>1 DEF Requests
<1>3. ASSUME NEW a \in Adapter PROVE Talks(a)
  BY DEF Talks, Answers, Ordered, Prepared
<1> QED BY <1>1, <1>2, <1>3 DEF InvThreads

LEMMA NextThreads == Inv /\ InvThreads /\ [Next]_vars => InvThreads'
<1> SUFFICES ASSUME Typed, InvThreads, [Next]_vars PROVE InvThreads'
  BY DEF Inv
<1>1. CASE UNCHANGED vars
  BY <1>1, ThreadsElsewhere DEF vars, local, native
<1>2. ASSUME NEW a \in Adapter, InputStep(a) PROVE InvThreads'
  <2>1. ASSUME NEW method \in Methods, NEW t \in Maybe(Thread), NEW w \in Maybe(Workspace),
               Reserve(a, method, t, w)
        PROVE  InvThreads'
    BY <2>1, ThreadsReserve
  <2>2. ASSUME NEW t \in Thread, Unsubscribe(a, t) PROVE InvThreads'
    BY <2>2, ThreadsUnsubscribe
  <2> QED BY <1>2, <2>1, <2>2, ThreadsNote, ThreadsClaim, ThreadsUndo, ThreadsExpect, ThreadsForward
      DEF InputStep
<1>3. ASSUME NEW a \in Adapter, OutputStep(a) PROVE InvThreads'
  BY <1>3, ThreadsResponse, ThreadsLinkReserve, ThreadsDone, ThreadsLinkAttach, ThreadsBind,
     ThreadsForget, ThreadsUnrecord, ThreadsCheck, ThreadsFails
  DEF OutputStep
<1>4. ASSUME NEW a \in Adapter, NativeStep(a) PROVE InvThreads'
  <2>1. ASSUME NEW e \in sent[a],
               \/ \E t \in Thread : AnswerStart(a, e, t)
               \/ AnswerResume(a, e) \/ AnswerThread(a, e) \/ AnswerError(a, e)
        PROVE  InvThreads'
    BY <2>1, ThreadsAnswer
  <2>2. ASSUME NEW t \in Thread, StartedThread(a, t) \/ CloseThread(a, t) PROVE InvThreads'
    BY <2>2, ThreadsTold
  <2> QED BY <1>4, <2>1, <2>2 DEF NativeStep
<1> QED BY <1>1, <1>2, <1>3, <1>4, ThreadsStop, ThreadsClose, ThreadsDie DEF Next

\* A chat is registered with one connection in which no step failed at a time,
\* and if one in which a step failed has it too, that one is not on its record:
\* whatever is resumed, announced, refused or closed meanwhile, and whichever
\* adapters fail, stop or die.
THEOREM ChatsAreExclusive == Spec => []ThreadsAreExclusive
<1>1. Inv /\ InvThreads => ThreadsAreExclusive
  <2>1. SUFFICES ASSUME Typed, InvThreads, NEW a \in Sound, NEW b \in Live \ {a},
                        NEW t \in threads[a] \cap threads[b],
                        b \in Sound \/ b \in record[t].leases
                 PROVE  FALSE
    BY DEF ThreadsAreExclusive, Inv
  <2>2. a \in Live /\ Firm(a) /\ (b \in Sound => Firm(b))
    BY <2>1 DEF Sound, Live, Firm
  <2>3. a \in record[t].leases /\ b \in record[t].leases
    BY <2>1, <2>2 DEF InvThreads, Leased
  <2>4. t \in Thread
    <3>1. a \in Adapter
      BY <2>1 DEF Sound, Typed
    <3> QED BY <2>1, <3>1 DEF InvThreads, Books
  <2> QED BY <2>1, <2>2, <2>3, <2>4 DEF InvThreads, Leased
<1> QED BY InitInv, NextInv, InitThreads, NextThreads, <1>1, PTL DEF Spec

=============================================================================
