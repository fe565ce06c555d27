--------------------------- MODULE ProfileSyncProofs ---------------------------
(***************************************************************************)
(* What holds of the profiles for any number of launches and sessions,      *)
(* whoever fails or is killed: the lock keeps launches apart as long as     *)
(* nobody is killed, it is never left to a launch that ended, linked        *)
(* sessions are safe at once, and copied ones are lost to overlaps and to   *)
(* copies that are cut short, only.                                         *)
(***************************************************************************)
EXTENDS ProfileSync, TLAPS

\* The lock names the launch that synchronises, and no launch is about to remove
\* a lock, as nobody is dead.
HolderInv ==
    Dead = {} =>
        \A p \in Proc :
            /\ pc[p] \in Holding => lock # NoLock /\ lock.by = p
            /\ pc[p] \notin {"remove", "recreate"}

\* A lock with a name names a launch that is copying or was killed.
NamedInv == lock # NoLock /\ lock.named => lock.by \in Dead \/ pc[lock.by] = "copy"

\* In the layout of Codex, whoever runs or has run works through a link, and has
\* nothing to copy out.
LinkInv ==
    layout = "made" /\ linkable /\ Session # {} =>
        \A p \in Proc :
            /\ pc[p] = "running" \/ way[p] = "out" => p \in linked
            /\ pc[p] = "copy" /\ way[p] = "in" /\ left[p] = {} => p \in linked
            /\ pc[p] = "copy" /\ way[p] = "out" => left[p] = {}

\* Work is where it should be: only work that was done is saved, copied or
\* in the profile; a launch without a link keeps its own work; a launch that has
\* done work is past its copy in; without a directory nothing is saved.
WorkInv ==
    /\ saved \subseteq done
    /\ \A s \in Session, q \in Proc : q \in durable[s] => <<q, s>> \in done
    /\ \A p, q \in Proc, s \in Session : q \in local[p][s] => <<q, s>> \in done
    /\ \A p \in Proc, s \in Session :
          <<p, s>> \in done =>
              /\ p \in linked \/ p \in local[p][s]
              /\ way[p] = "out" \/ pc[p] \in {"running", "dead"}
    /\ saved # {} => dir
    /\ \A p \in Proc : p \in linked /\ pc[p] = "copy" /\ way[p] = "out" => left[p] = {}
    /\ \A p \in Proc : pc[p] = "running" => way[p] = "in"
    /\ \A p \in Proc : pc[p] = "copy" /\ way[p] = "in" /\ left[p] # {} => dir
    /\ linked # {} /\ Session # {} => dir

\* Who writes a session of the profile has a copy of its own to write, and writes
\* one at a time; who failed or was killed in the middle does not go on.
OpenInv ==
    \A p \in Proc :
        /\ \A s, t \in open[p] : s = t
        /\ open[p] # {} => pc[p] \in {"copy", "ended", "dead"} /\ way[p] = "out" /\ p \notin linked
        /\ open[p] # {} => dir
        /\ \A s \in open[p] : local[p][s] # {}

\* As long as nobody was killed, what is cut off is being written or was by a launch
\* that failed, and copies were made of it only then.
TornInv ==
    Dead = {} =>
        \A s \in Session :
            /\ Torn \in durable[s] => \E p \in Proc : s \in open[p]
            /\ \A q \in Proc : Torn \in local[q][s] => \E p \in Proc : pc[p] = "ended" /\ s \in open[p]

\* Work was overwritten by a launch that could not know it.
Overtaken(w) ==
    \E q \in Proc \ {w[1]} :
        w \notin seen[q] /\ local[q][w[2]] # {} /\ way[q] = "out" /\ q \notin linked

\* The launch has brought this session in.
Brought(q, s) == way[q] = "out" \/ pc[q] = "running" \/ (pc[q] = "copy" /\ s \notin left[q])

\* What was saved when a launch copied in is in its copy, or was lost before, or the
\* copy is of a file that was cut off.
SeenInv ==
    /\ \A q \in Proc : seen[q] \subseteq saved
    /\ \A q \in Proc, w \in Proc \X Session :
          w \in seen[q] /\ Brought(q, w[2]) =>
              q \in linked \/ w[1] \in local[q][w[2]] \/ Torn \in local[q][w[2]] \/ Overtaken(w)

\* A step of the copy out of a session.
Copies(p, s) == Pass(p, s) \/ Truncate(p, s) \/ Fill(p, s)

-------------------------------------------------------------------------------
(* Typing *)

LEMMA WorkType ==
    ASSUME NEW s \in Session, NEW content \in SUBSET (Proc \cup {Torn})
    PROVE  Work(s, content) \in SUBSET (Proc \X Session)
BY DEF Work

LEMMA LockType ==
    ASSUME NEW p \in Proc, NEW named \in BOOLEAN
    PROVE  [by |-> p, named |-> named] \in [by : Proc, named : BOOLEAN]
OBVIOUS

LEMMA TypeInit == Init => TypeOK
<1> SUFFICES ASSUME Init PROVE TypeOK
  OBVIOUS
<1>1. layout \in Layout /\ linkable \in BOOLEAN /\ dir \in BOOLEAN /\ lock = NoLock
  BY DEF Init
<1>2. pc = [p \in Proc |-> "idle"] /\ way = [p \in Proc |-> "in"]
  BY DEF Init
<1>3. /\ durable \in [Session -> SUBSET (Proc \cup {Torn})]
      /\ left \in [Proc -> SUBSET Session] /\ open \in [Proc -> SUBSET Session]
  BY DEF Init
<1>4. local \in [Proc -> [Session -> SUBSET (Proc \cup {Torn})]]
  BY DEF Init
<1>5. linked = {} /\ created = {} /\ done = {} /\ saved = {}
  BY DEF Init
<1>6. seen \in [Proc -> SUBSET (Proc \X Session)]
  BY DEF Init
<1> QED BY <1>1, <1>2, <1>3, <1>4, <1>5, <1>6 DEF TypeOK

LEMMA TypeNext == TypeOK /\ [Next]_vars => TypeOK'
<1> SUFFICES ASSUME TypeOK, [Next]_vars PROVE TypeOK'
  OBVIOUS
<1> USE DEF TypeOK, Goto, Fail, lockVars, stateVars
<1> DEFINE At == {"idle", "create", "judge", "remove", "recreate", "name", "copy",
                  "running", "ended", "dead"}
<1>1. ASSUME NEW p \in Proc, Start(p) \/ End(p) \/ Die(p) PROVE TypeOK'
  BY <1>1 DEF Start, End, Die
<1>2. ASSUME NEW p \in Proc, Create(p) \/ Judge(p) \/ RemoveLock(p) \/ Recreate(p) PROVE TypeOK'
  <2>1. CASE Create(p)
    <3>1. lock' \in [by : Proc, named : BOOLEAN] \cup {NoLock}
      <4>1. lock' = lock \/ lock' = [by |-> p, named |-> FALSE]
        BY <2>1 DEF Create
      <4>2. [by |-> p, named |-> FALSE] \in [by : Proc, named : BOOLEAN]
        BY LockType
      <4> QED BY <4>1, <4>2
    <3>2. pc' \in [Proc -> At]
      BY <2>1 DEF Create
    <3>3. UNCHANGED <<layout, linkable, way, stateVars>>
      BY <2>1 DEF Create
    <3> QED BY <3>1, <3>2, <3>3
  <2>2. CASE Judge(p)
    BY <2>2 DEF Judge
  <2>3. CASE RemoveLock(p)
    BY <2>3 DEF RemoveLock
  <2>4. CASE Recreate(p)
    <3>1. lock' \in [by : Proc, named : BOOLEAN] \cup {NoLock}
      <4>1. lock' = lock \/ lock' = [by |-> p, named |-> FALSE]
        BY <2>4 DEF Recreate
      <4>2. [by |-> p, named |-> FALSE] \in [by : Proc, named : BOOLEAN]
        BY LockType
      <4> QED BY <4>1, <4>2
    <3>2. pc' \in [Proc -> At]
      BY <2>4 DEF Recreate
    <3>3. UNCHANGED <<layout, linkable, way, stateVars>>
      BY <2>4 DEF Recreate
    <3> QED BY <3>1, <3>2, <3>3
  <2> QED BY <1>2, <2>1, <2>2, <2>3, <2>4
<1>3. ASSUME NEW p \in Proc, Name(p) PROVE TypeOK'
  BY <1>3 DEF Name, MadeFirst
<1>4. ASSUME NEW p \in Proc, NameFails(p) \/ Link(p) PROVE TypeOK'
  BY <1>4 DEF NameFails, Link
<1>5. ASSUME NEW p \in Proc, Release(p) \/ CopyFails(p) PROVE TypeOK'
  BY <1>5 DEF Release, CopyFails, Unlock
<1>6. ASSUME NEW p \in Proc, NEW s \in Session, CopyIn(p, s) PROVE TypeOK'
  BY <1>6 DEF CopyIn
<1>7. ASSUME NEW p \in Proc, NEW s \in Session, Pass(p, s) \/ Truncate(p, s) \/ Fill(p, s) PROVE TypeOK'
  <2>1. Work(s, local[p][s]) \in SUBSET (Proc \X Session)
    BY WorkType
  <2>2. {Torn} \in SUBSET (Proc \cup {Torn}) /\ {s} \in SUBSET Session
    OBVIOUS
  <2>3. CASE Pass(p, s)
    BY <2>3 DEF Pass
  <2>4. CASE Truncate(p, s)
    BY <2>2, <2>4 DEF Truncate
  <2>5. CASE Fill(p, s)
    BY <2>1, <2>5 DEF Fill
  <2> QED BY <1>7, <2>3, <2>4, <2>5
<1>8. ASSUME NEW p \in Proc, NEW s \in Session, DoWork(p, s) PROVE TypeOK'
  <2>1. durable' \in [Session -> SUBSET (Proc \cup {Torn})]
    BY <1>8 DEF DoWork
  <2>2. local' \in [Proc -> [Session -> SUBSET (Proc \cup {Torn})]]
    <3>1. local' = local \/ local' = [local EXCEPT ![p][s] = @ \cup {p}]
      BY <1>8 DEF DoWork
    <3>2. local[p] \in [Session -> SUBSET (Proc \cup {Torn})]
      OBVIOUS
    <3>3. [local[p] EXCEPT ![s] = @ \cup {p}] \in [Session -> SUBSET (Proc \cup {Torn})]
      BY <3>2
    <3> QED BY <3>1, <3>3
  <2>3. done' \subseteq Proc \X Session /\ saved' \subseteq Proc \X Session /\ created' \subseteq Session
    BY <1>8 DEF DoWork
  <2>4. UNCHANGED <<layout, linkable, lockVars, dir, linked, left, open, seen>>
    BY <1>8 DEF DoWork
  <2> QED BY <2>1, <2>2, <2>3, <2>4
<1>9. CASE UNCHANGED vars
  BY <1>9 DEF vars
<1> QED BY <1>1, <1>2, <1>3, <1>4, <1>5, <1>6, <1>7, <1>8, <1>9 DEF Next, Copies

\* The state is what it is declared to be.
THEOREM TypeCorrect == Spec => []TypeOK
BY TypeInit, TypeNext, PTL DEF Spec

-------------------------------------------------------------------------------
(* The lock *)

LEMMA HolderInit == Init => HolderInv
BY DEF Init, HolderInv, Holding

\* A launch that was killed stays killed.
LEMMA DeadStay == TypeOK /\ [Next]_vars => Dead \subseteq Dead'
<1> SUFFICES ASSUME TypeOK, [Next]_vars, NEW q \in Proc, pc[q] = "dead" PROVE pc'[q] = "dead"
  BY DEF Dead
<1> USE DEF TypeOK, Goto, Fail, lockVars
<1>1. ASSUME NEW p \in Proc, Start(p) \/ End(p) \/ Die(p) PROVE pc'[q] = "dead"
  BY <1>1 DEF Start, End, Die
<1>2. ASSUME NEW p \in Proc, Create(p) \/ Judge(p) \/ RemoveLock(p) \/ Recreate(p) PROVE pc'[q] = "dead"
  BY <1>2 DEF Create, Judge, RemoveLock, Recreate
<1>3. ASSUME NEW p \in Proc, Name(p) \/ NameFails(p) \/ Link(p) \/ Release(p) \/ CopyFails(p)
      PROVE  pc'[q] = "dead"
  BY <1>3 DEF Name, NameFails, Link, Release, CopyFails
<1>4. ASSUME NEW p \in Proc, NEW s \in Session, CopyIn(p, s) \/ Copies(p, s) \/ DoWork(p, s)
      PROVE  pc'[q] = "dead"
  BY <1>4 DEF CopyIn, Copies, Pass, Truncate, Fill, DoWork
<1>5. CASE UNCHANGED vars
  BY <1>5 DEF vars
<1> QED BY <1>1, <1>2, <1>3, <1>4, <1>5 DEF Next, Copies

LEMMA HolderNext == TypeOK /\ HolderInv /\ [Next]_vars => HolderInv'
<1> SUFFICES ASSUME TypeOK, HolderInv, [Next]_vars, Dead' = {}, NEW q \in Proc
             PROVE  /\ pc'[q] \in Holding => lock' # NoLock /\ lock'.by = q
                    /\ pc'[q] \notin {"remove", "recreate"}
  BY DEF HolderInv
<1>0. Dead = {} /\ \A p \in Proc : /\ pc[p] \in Holding => lock # NoLock /\ lock.by = p
                                   /\ pc[p] \notin {"remove", "recreate"}
  BY DeadStay DEF HolderInv
<1> DEFINE Goal == /\ pc'[q] \in Holding => lock' # NoLock /\ lock'.by = q
                   /\ pc'[q] \notin {"remove", "recreate"}
<1> USE DEF TypeOK, Goto, Fail, lockVars, Holding
<1>1. ASSUME NEW p \in Proc, Start(p) \/ End(p) \/ Die(p) PROVE Goal
  BY <1>0, <1>1 DEF Start, End, Die
<1>2. ASSUME NEW p \in Proc, Create(p) PROVE Goal
  <2>1. CASE lock = NoLock
    <3>1. lock' = [by |-> p, named |-> FALSE] /\ pc' = [pc EXCEPT ![p] = "name"]
      BY <1>2, <2>1 DEF Create
    <3>2. lock' # NoLock /\ lock'.by = p
      BY <3>1, LockType, NoLockIsNone
    <3> QED BY <1>0, <2>1, <3>1, <3>2
  <2>2. CASE lock # NoLock
    BY <1>0, <1>2, <2>2 DEF Create
  <2> QED BY <2>1, <2>2
<1>3. ASSUME NEW p \in Proc, Judge(p) PROVE Goal
  BY <1>0, <1>3 DEF Judge, Stale
<1>4. ASSUME NEW p \in Proc, RemoveLock(p) \/ Recreate(p) PROVE Goal
  BY <1>0, <1>4 DEF RemoveLock, Recreate
<1>5. ASSUME NEW p \in Proc, Name(p) PROVE Goal
  <2>1. lock # NoLock /\ lock.by = p /\ pc[p] = "name" /\ pc' = [pc EXCEPT ![p] = "copy"]
    BY <1>0, <1>5 DEF Name
  <2>2. lock' = [by |-> p, named |-> TRUE]
    BY <1>5, <2>1 DEF Name
  <2>3. lock' # NoLock /\ lock'.by = p
    <3>1. [by |-> p, named |-> TRUE] \in [by : Proc, named : BOOLEAN]
      BY LockType
    <3>2. lock' # NoLock
      BY <2>2, <3>1, NoLockIsNone, Zenon
    <3> QED BY <2>2, <3>2
  <2> QED BY <1>0, <2>1, <2>3
<1>6. ASSUME NEW p \in Proc, NameFails(p) \/ Link(p) PROVE Goal
  BY <1>0, <1>6 DEF NameFails, Link
<1>7. ASSUME NEW p \in Proc, Release(p) \/ CopyFails(p) PROVE Goal
  BY <1>0, <1>7 DEF Release, CopyFails
<1>8. ASSUME NEW p \in Proc, NEW s \in Session, CopyIn(p, s) \/ Copies(p, s) \/ DoWork(p, s) PROVE Goal
  BY <1>0, <1>8 DEF CopyIn, Copies, Pass, Truncate, Fill, DoWork
<1>9. CASE UNCHANGED vars
  BY <1>0, <1>9 DEF vars
<1> QED BY <1>1, <1>2, <1>3, <1>4, <1>5, <1>6, <1>7, <1>8, <1>9 DEF Next, Copies

\* As long as nobody was killed, two launches never synchronise one profile at a
\* time, however many there are.
THEOREM LockExcludes == Spec => []ExclusiveAmongTheLiving
<1>1. HolderInv => ExclusiveAmongTheLiving
  BY DEF HolderInv, ExclusiveAmongTheLiving, SyncIsExclusive
<1> QED BY TypeCorrect, HolderInit, HolderNext, <1>1, PTL DEF Spec

LEMMA NamedInit == Init => NamedInv
BY DEF Init, NamedInv

LEMMA NamedNext == TypeOK /\ NamedInv /\ [Next]_vars => NamedInv'
<1> SUFFICES ASSUME TypeOK, NamedInv, [Next]_vars, lock' # NoLock, lock'.named
             PROVE  lock'.by \in Dead' \/ pc'[lock'.by] = "copy"
  BY DEF NamedInv
<1>0. TypeOK' /\ Dead \subseteq Dead'
  BY TypeNext, DeadStay
<1> DEFINE Goal == lock'.by \in Dead' \/ pc'[lock'.by] = "copy"
<1>a. ASSUME lock' = lock, NEW p \in Proc, NEW at, pc' = [pc EXCEPT ![p] = at],
             pc[p] # "copy" \/ at \in {"copy", "dead"}
      PROVE  Goal
  <2>1. lock # NoLock /\ lock.named /\ lock.by \in Proc
    BY <1>a DEF TypeOK
  <2>2. CASE lock.by \in Dead
    BY <1>0, <1>a, <2>2
  <2>3. CASE pc[lock.by] = "copy"
    BY <1>a, <2>1, <2>3 DEF TypeOK, Dead
  <2> QED BY <2>1, <2>2, <2>3 DEF NamedInv
<1>b. ASSUME lock' = lock, pc' = pc PROVE Goal
  BY <1>b DEF NamedInv, Dead
<1>c. ASSUME NEW p \in Proc, lock' = [by |-> p, named |-> FALSE] PROVE Goal
  BY <1>c
<1> USE DEF Goto, Fail, lockVars
<1>1. ASSUME NEW p \in Proc, Start(p) \/ End(p) \/ Die(p) PROVE Goal
  BY <1>a, <1>1 DEF Start, End, Die
<1>2. ASSUME NEW p \in Proc, Create(p) \/ Judge(p) \/ RemoveLock(p) \/ Recreate(p) PROVE Goal
  BY <1>a, <1>c, <1>2 DEF Create, Judge, RemoveLock, Recreate
<1>3. ASSUME NEW p \in Proc, Name(p) PROVE Goal
  <2>1. CASE lock # NoLock /\ lock.by = p
    <3>1. lock' = [by |-> p, named |-> TRUE] /\ pc' = [pc EXCEPT ![p] = "copy"]
      BY <1>3, <2>1 DEF Name
    <3> QED BY <3>1 DEF TypeOK
  <2>2. CASE ~ (lock # NoLock /\ lock.by = p)
    BY <1>a, <1>3, <2>2 DEF Name
  <2> QED BY <2>1, <2>2
<1>4. ASSUME NEW p \in Proc, NameFails(p) \/ Release(p) \/ CopyFails(p) PROVE Goal
  BY <1>a, <1>4 DEF NameFails, Release, CopyFails, Unlock
<1>5. ASSUME NEW p \in Proc, NEW s \in Session, CopyIn(p, s) \/ Copies(p, s) \/ DoWork(p, s)
      PROVE  Goal
  BY <1>b, <1>5 DEF Link, CopyIn, Copies, Pass, Truncate, Fill, DoWork
<1>6. ASSUME NEW p \in Proc, Link(p) PROVE Goal
  BY <1>b, <1>6 DEF Link
<1>7. CASE UNCHANGED vars
  BY <1>b, <1>7 DEF vars
<1> QED BY <1>1, <1>2, <1>3, <1>4, <1>5, <1>6, <1>7 DEF Next, Copies

\* A launch that has ended, in whatever way but a failure to write its name, never
\* leaves a lock that locks the next one out: the lock names a launch that was
\* killed, and is reclaimed.
THEOREM LockRecovers == Spec => []LockIsRecoverable
<1>1. TypeOK /\ NamedInv => LockIsRecoverable
  BY DEF TypeOK, NamedInv, LockIsRecoverable
<1> QED BY TypeCorrect, NamedInit, NamedNext, <1>1, PTL DEF Spec

-------------------------------------------------------------------------------
(* The sessions *)

LEMMA LinkInit == Init => LinkInv
BY DEF Init, LinkInv

LEMMA LinkNext == TypeOK /\ LinkInv /\ [Next]_vars => LinkInv'
<1> SUFFICES ASSUME TypeOK, LinkInv, [Next]_vars, layout' = "made", linkable', Session # {},
                    NEW q \in Proc
             PROVE  /\ pc'[q] = "running" \/ way'[q] = "out" => q \in linked'
                    /\ pc'[q] = "copy" /\ way'[q] = "in" /\ left'[q] = {} => q \in linked'
                    /\ pc'[q] = "copy" /\ way'[q] = "out" => left'[q] = {}
  BY DEF LinkInv
<1> DEFINE Goal == /\ pc'[q] = "running" \/ way'[q] = "out" => q \in linked'
                   /\ pc'[q] = "copy" /\ way'[q] = "in" /\ left'[q] = {} => q \in linked'
                   /\ pc'[q] = "copy" /\ way'[q] = "out" => left'[q] = {}
<1>0. layout = "made" /\ linkable
      => \A p \in Proc :
            /\ pc[p] = "running" \/ way[p] = "out" => p \in linked
            /\ pc[p] = "copy" /\ way[p] = "in" /\ left[p] = {} => p \in linked
            /\ pc[p] = "copy" /\ way[p] = "out" => left[p] = {}
  BY DEF LinkInv
<1> USE DEF TypeOK, Goto, Fail, lockVars, stateVars
<1>1. ASSUME NEW p \in Proc, Start(p) \/ End(p) \/ Die(p) PROVE Goal
  BY <1>0, <1>1 DEF Start, End, Die
<1>2. ASSUME NEW p \in Proc, Create(p) \/ Judge(p) \/ RemoveLock(p) \/ Recreate(p) PROVE Goal
  BY <1>0, <1>2 DEF Create, Judge, RemoveLock, Recreate
<1>3. ASSUME NEW p \in Proc, Name(p) PROVE Goal
  <2>1. layout = "made" /\ linkable /\ pc' = [pc EXCEPT ![p] = "copy"] /\ way' = way /\ linked' = linked
    BY <1>3 DEF Name
  <2>2. way[p] = "in" => dir'
    BY <1>3, <2>1 DEF Name, MadeFirst
  <2>3. left'[p] = IF way[p] = "out" /\ p \in linked THEN {} ELSE Session
    BY <1>3, <2>2 DEF Name
  <2>4. q # p => left'[q] = left[q]
    BY <1>3 DEF Name
  <2> QED BY <1>0, <2>1, <2>3, <2>4
<1>4. ASSUME NEW p \in Proc, Link(p) PROVE Goal
  BY <1>0, <1>4 DEF Link, Links
<1>5. ASSUME NEW p \in Proc, NameFails(p) \/ Release(p) \/ CopyFails(p) PROVE Goal
  BY <1>0, <1>5 DEF NameFails, Release, CopyFails
<1>6. ASSUME NEW p \in Proc, NEW s \in Session, CopyIn(p, s) \/ Copies(p, s) PROVE Goal
  <2>0. layout = "made" /\ linkable
    BY <1>6 DEF CopyIn, Copies, Pass, Truncate, Fill
  <2>1. ~ CopyIn(p, s)
    BY <2>0 DEF CopyIn, Links
  <2>2. ~ Pass(p, s) /\ ~ Truncate(p, s)
    BY <1>0, <2>0 DEF Pass, Truncate
  <2>3. CASE Fill(p, s)
    BY <1>0, <2>3 DEF Fill
  <2> QED BY <1>6, <2>1, <2>2, <2>3 DEF Copies
<1>7. ASSUME NEW p \in Proc, NEW s \in Session, DoWork(p, s) PROVE Goal
  BY <1>0, <1>7 DEF DoWork
<1>8. CASE UNCHANGED vars
  BY <1>0, <1>8 DEF vars
<1> QED BY <1>1, <1>2, <1>3, <1>4, <1>5, <1>6, <1>7, <1>8 DEF Next, Copies

LEMMA WorkInit == Init => WorkInv
BY DEF Init, WorkInv

\* Steps that touch the lock and the places of launches only.
LEMMA WorkQuiet ==
    ASSUME TypeOK, WorkInv, UNCHANGED stateVars, NEW p \in Proc, NEW at,
           pc' = [pc EXCEPT ![p] = at],
           \/ way' = way /\ (at = "running" => way[p] = "in")
                        /\ (pc[p] = "running" => at = "dead")
                        /\ (at = "copy" => pc[p] = "copy")
                        /\ pc[p] # "dead"
           \/ way' = [way EXCEPT ![p] = "out"] /\ at = "create"
    PROVE  WorkInv'
<1> USE DEF TypeOK, WorkInv, stateVars
<1>1. /\ saved' \subseteq done'
      /\ \A s \in Session, q \in Proc : q \in durable'[s] => <<q, s>> \in done'
      /\ \A r, q \in Proc, s \in Session : q \in local'[r][s] => <<q, s>> \in done'
      /\ saved' # {} => dir'
  OBVIOUS
<1>2. \A q \in Proc, s \in Session :
          <<q, s>> \in done' =>
              /\ q \in linked' \/ q \in local'[q][s]
              /\ way'[q] = "out" \/ pc'[q] \in {"running", "dead"}
  OBVIOUS
<1>3. \A q \in Proc : q \in linked' /\ pc'[q] = "copy" /\ way'[q] = "out" => left'[q] = {}
  OBVIOUS
<1>4. \A q \in Proc : pc'[q] = "running" => way'[q] = "in"
  OBVIOUS
<1>5. \A q \in Proc : pc'[q] = "copy" /\ way'[q] = "in" /\ left'[q] # {} => dir'
  OBVIOUS
<1>6. linked' # {} /\ Session # {} => dir'
  OBVIOUS
<1> QED BY <1>1, <1>2, <1>3, <1>4, <1>5, <1>6

LEMMA WorkNext == TypeOK /\ WorkInv /\ OpenInv /\ [Next]_vars => WorkInv'
<1> SUFFICES ASSUME TypeOK, WorkInv, OpenInv, [Next]_vars PROVE WorkInv'
  OBVIOUS
<1> USE DEF Goto, Fail
<1>1. ASSUME NEW p \in Proc, Start(p) \/ End(p) \/ Die(p) PROVE WorkInv'
  BY <1>1, WorkQuiet DEF Start, End, Die, TypeOK
<1>2. ASSUME NEW p \in Proc, Create(p) \/ Judge(p) \/ RemoveLock(p) \/ Recreate(p) PROVE WorkInv'
  BY <1>2, WorkQuiet DEF Create, Judge, RemoveLock, Recreate
<1>3. ASSUME NEW p \in Proc, NameFails(p) \/ Release(p) \/ CopyFails(p) PROVE WorkInv'
  BY <1>3, WorkQuiet DEF NameFails, Release, CopyFails, TypeOK
<1>4. ASSUME NEW p \in Proc, Name(p) PROVE WorkInv'
  <2>1. UNCHANGED <<way, durable, local, linked, created, done, saved>> /\ pc' = [pc EXCEPT ![p] = "copy"]
    BY <1>4 DEF Name
  <2>2. dir => dir'
    BY <1>4 DEF Name, MadeFirst
  <2>3. left' = [left EXCEPT ![p] = left'[p]]
    BY <1>4 DEF Name, TypeOK
  <2>4. way[p] = "out" /\ p \in linked => left'[p] = {}
    BY <1>4 DEF Name, TypeOK
  <2>5. pc[p] = "name"
    BY <1>4 DEF Name
  <2>6. way[p] = "in" /\ left'[p] # {} => dir'
    BY <1>4 DEF Name, TypeOK
  <2> QED BY <2>1, <2>2, <2>3, <2>4, <2>5, <2>6 DEF WorkInv, TypeOK
<1>5. ASSUME NEW p \in Proc, Link(p) PROVE WorkInv'
  BY <1>5 DEF Link, Links, WorkInv, TypeOK, lockVars
<1>6. ASSUME NEW p \in Proc, NEW s \in Session, CopyIn(p, s) PROVE WorkInv'
  <2>1. UNCHANGED <<pc, way, dir, durable, linked, done, saved>> /\ pc[p] = "copy" /\ way[p] = "in"
    BY <1>6 DEF CopyIn, lockVars
  <2>2. local' = [local EXCEPT ![p][s] = durable[s]] /\ left' = [left EXCEPT ![p] = @ \ {s}]
    BY <1>6 DEF CopyIn
  <2>3. \A r, q \in Proc, x \in Session : q \in local'[r][x] => <<q, x>> \in done
    BY <2>2 DEF WorkInv, TypeOK
  <2>4. \A q \in Proc, x \in Session : <<q, x>> \in done => q # p
    BY <2>1 DEF WorkInv
  <2>5. \A q \in Proc, x \in Session : <<q, x>> \in done => local'[q] = local[q]
    BY <2>2, <2>4 DEF TypeOK
  <2> QED BY <2>1, <2>2, <2>3, <2>5 DEF WorkInv, TypeOK
<1>7. ASSUME NEW p \in Proc, NEW s \in Session, Copies(p, s) PROVE WorkInv'
  <2>1. UNCHANGED <<pc, way, local, linked, done>>
    BY <1>7 DEF Copies, Pass, Truncate, Fill, lockVars
  <2>2. \A x \in Session : \/ durable'[x] = durable[x]
                           \/ durable'[x] = {Torn}
                           \/ x = s /\ durable'[x] = local[p][s]
    <3>1. CASE Pass(p, s)
      BY <3>1 DEF Pass
    <3>2. CASE Truncate(p, s)
      BY <3>2 DEF Truncate, TypeOK
    <3>3. CASE Fill(p, s)
      BY <3>3 DEF Fill, TypeOK
    <3> QED BY <1>7, <3>1, <3>2, <3>3 DEF Copies
  <2>3. \A x \in Session, q \in Proc : q \in durable'[x] => <<q, x>> \in done
    BY <2>2, TornIsNoWork DEF WorkInv
  <2>4. saved' = saved \/ saved' = saved \cup Work(s, local[p][s])
    BY <1>7 DEF Copies, Pass, Truncate, Fill
  <2>5. saved' \subseteq done
    BY <2>4 DEF Work, WorkInv, TypeOK
  <2>6. dir => dir'
    BY <1>7 DEF Copies, Pass, Truncate, Fill
  <2>7. saved' # {} => dir'
    <3>1. CASE Fill(p, s)
      BY <2>6, <3>1 DEF Fill, WorkInv, OpenInv
    <3> QED BY <1>7, <2>6, <3>1 DEF Copies, Pass, Truncate, WorkInv
  <2>8. left' = left \/ left' = [left EXCEPT ![p] = @ \ {s}]
    BY <1>7 DEF Copies, Pass, Truncate, Fill
  <2>9. \A q \in Proc : left[q] = {} => left'[q] = {}
    BY <2>8 DEF TypeOK
  <2> QED BY <2>1, <2>3, <2>5, <2>6, <2>7, <2>9 DEF WorkInv
<1>8. ASSUME NEW p \in Proc, NEW s \in Session, DoWork(p, s) PROVE WorkInv'
  <2>1. UNCHANGED <<pc, way, dir, linked, left>> /\ pc[p] = "running" /\ done' = done \cup {<<p, s>>}
    BY <1>8 DEF DoWork, lockVars
  <2>2. CASE p \in linked
    <3>1. durable' = [durable EXCEPT ![s] = @ \cup {p}] /\ saved' = saved \cup {<<p, s>>} /\ local' = local
      BY <1>8, <2>2 DEF DoWork
    <3> QED BY <2>1, <2>2, <3>1 DEF WorkInv, TypeOK
  <2>3. CASE p \notin linked
    <3>1. local' = [local EXCEPT ![p][s] = @ \cup {p}] /\ UNCHANGED <<durable, saved>>
      BY <1>8, <2>3 DEF DoWork
    <3>2. \A r, q \in Proc, x \in Session :
              q \in local'[r][x] <=> q \in local[r][x] \/ (q = p /\ r = p /\ x = s)
      BY <3>1 DEF TypeOK
    <3> QED BY <2>1, <2>3, <3>1, <3>2 DEF WorkInv, TypeOK
  <2> QED BY <2>2, <2>3
<1>9. CASE UNCHANGED vars
  BY <1>9 DEF vars, WorkInv
<1> QED BY <1>1, <1>2, <1>3, <1>4, <1>5, <1>6, <1>7, <1>8, <1>9 DEF Next, Copies

LEMMA OpenInit == Init => OpenInv
BY DEF Init, OpenInv

LEMMA OpenNext == TypeOK /\ WorkInv /\ OpenInv /\ [Next]_vars => OpenInv'
<1> SUFFICES ASSUME TypeOK, WorkInv, OpenInv, [Next]_vars, NEW q \in Proc
             PROVE  /\ \A s, t \in open'[q] : s = t
                    /\ open'[q] # {} =>
                          pc'[q] \in {"copy", "ended", "dead"} /\ way'[q] = "out" /\ q \notin linked'
                    /\ open'[q] # {} => dir'
                    /\ \A s \in open'[q] : local'[q][s] # {}
  BY DEF OpenInv
<1> DEFINE Goal == /\ \A s, t \in open'[q] : s = t
                   /\ open'[q] # {} =>
                         pc'[q] \in {"copy", "ended", "dead"} /\ way'[q] = "out" /\ q \notin linked'
                   /\ open'[q] # {} => dir'
                   /\ \A s \in open'[q] : local'[q][s] # {}
<1>0. /\ \A s, t \in open[q] : s = t
      /\ open[q] # {} => pc[q] \in {"copy", "ended", "dead"} /\ way[q] = "out" /\ q \notin linked
      /\ open[q] # {} => dir
      /\ \A s \in open[q] : local[q][s] # {}
  BY DEF OpenInv
<1> USE DEF TypeOK, Goto, Fail, lockVars, stateVars
<1>1. ASSUME NEW p \in Proc, Start(p) \/ End(p) \/ Die(p) PROVE Goal
  BY <1>0, <1>1 DEF Start, End, Die
<1>2. ASSUME NEW p \in Proc, Create(p) \/ Judge(p) \/ RemoveLock(p) \/ Recreate(p) PROVE Goal
  BY <1>0, <1>2 DEF Create, Judge, RemoveLock, Recreate
<1>3. ASSUME NEW p \in Proc, Name(p) PROVE Goal
  BY <1>0, <1>3 DEF Name, MadeFirst
<1>4. ASSUME NEW p \in Proc, NameFails(p) \/ Link(p) PROVE Goal
  BY <1>0, <1>4 DEF NameFails, Link, Links
<1>5. ASSUME NEW p \in Proc, Release(p) \/ CopyFails(p) PROVE Goal
  BY <1>0, <1>5 DEF Release, CopyFails
<1>6. ASSUME NEW p \in Proc, NEW s \in Session, CopyIn(p, s) \/ DoWork(p, s) PROVE Goal
  BY <1>0, <1>6 DEF CopyIn, DoWork
<1>7. ASSUME NEW p \in Proc, NEW s \in Session, Copies(p, s) PROVE Goal
  <2>1. CASE Pass(p, s)
    BY <1>0, <2>1 DEF Pass
  <2>2. CASE Truncate(p, s)
    <3>1. p \notin linked
      BY <2>2 DEF Truncate, WorkInv
    <3> QED BY <1>0, <2>2, <3>1 DEF Truncate
  <2>3. CASE Fill(p, s)
    BY <1>0, <2>3 DEF Fill
  <2> QED BY <1>7, <2>1, <2>2, <2>3 DEF Copies
<1>8. CASE UNCHANGED vars
  BY <1>0, <1>8 DEF vars
<1> QED BY <1>1, <1>2, <1>3, <1>4, <1>5, <1>6, <1>7, <1>8 DEF Next, Copies

\* Work through links is in the profile from the moment it is done.
LEMMA LiveNext ==
    TypeOK /\ LinkInv /\ OpenInv /\ LiveSessionsSurvive /\ [Next]_vars => LiveSessionsSurvive'
<1> SUFFICES ASSUME TypeOK, LinkInv, OpenInv, LiveSessionsSurvive, [Next]_vars,
                    layout' = "made", linkable', NEW w \in done'
             PROVE  w[1] \in durable'[w[2]]
  BY DEF LiveSessionsSurvive
<1>0. layout = "made" /\ linkable => (w \in done => w[1] \in durable[w[2]])
  BY DEF LiveSessionsSurvive
<1> USE DEF TypeOK, lockVars, stateVars
<1>1. ASSUME layout' = layout, linkable' = linkable, done' = done, durable' = durable
      PROVE  w[1] \in durable'[w[2]]
  BY <1>0, <1>1
<1>2. ASSUME NEW p \in Proc,
             Start(p) \/ End(p) \/ Die(p) \/ Create(p) \/ Judge(p) \/ RemoveLock(p) \/ Recreate(p)
      PROVE  w[1] \in durable'[w[2]]
  BY <1>1, <1>2 DEF Start, End, Die, Create, Judge, RemoveLock, Recreate
<1>3. ASSUME NEW p \in Proc, Name(p) \/ NameFails(p) \/ Link(p) \/ Release(p) \/ CopyFails(p)
      PROVE  w[1] \in durable'[w[2]]
  BY <1>1, <1>3 DEF Name, NameFails, Link, Release, CopyFails
<1>4. ASSUME NEW p \in Proc, NEW s \in Session, CopyIn(p, s) PROVE w[1] \in durable'[w[2]]
  BY <1>1, <1>4 DEF CopyIn
<1>5. ASSUME NEW p \in Proc, NEW s \in Session, Copies(p, s) PROVE w[1] \in durable'[w[2]]
  <2>1. layout = "made" /\ linkable /\ Session # {} /\ pc[p] = "copy"
    BY <1>5 DEF Copies, Pass, Truncate, Fill
  <2>2. ~ Pass(p, s) /\ ~ Truncate(p, s)
    BY <2>1 DEF LinkInv, Pass, Truncate
  <2>3. ~ Fill(p, s)
    BY <2>1 DEF LinkInv, OpenInv, Fill
  <2> QED BY <1>5, <2>2, <2>3 DEF Copies
<1>6. ASSUME NEW p \in Proc, NEW s \in Session, DoWork(p, s) PROVE w[1] \in durable'[w[2]]
  <2>1. layout = "made" /\ linkable /\ Session # {} /\ pc[p] = "running"
    BY <1>6 DEF DoWork
  <2>2. p \in linked
    BY <2>1 DEF LinkInv
  <2>3. durable' = [durable EXCEPT ![s] = @ \cup {p}] /\ done' = done \cup {<<p, s>>}
    BY <1>6, <2>2 DEF DoWork
  <2>4. CASE w = <<p, s>>
    BY <2>3, <2>4
  <2>5. CASE w \in done
    <3>1. w[2] \in Session /\ w[1] \in durable[w[2]]
      BY <1>0, <2>1, <2>5
    <3> QED BY <2>3, <3>1
  <2> QED BY <2>3, <2>4, <2>5
<1>7. CASE UNCHANGED vars
  BY <1>1, <1>7 DEF vars
<1> QED BY <1>2, <1>3, <1>4, <1>5, <1>6, <1>7 DEF Next, Copies

\* Where the sessions of a profile are linked (Codex, Open Interpreter), no work
\* is ever lost: not by a kill, not by a failed copy, not by two launches that
\* synchronise at once.
THEOREM LiveSessionsAreSafe == Spec => []LiveSessionsSurvive
<1>1. Init => LiveSessionsSurvive
  BY DEF Init, LiveSessionsSurvive
<1> QED BY TypeCorrect, WorkInit, WorkNext, LinkInit, LinkNext, OpenInit, OpenNext, LiveNext, <1>1, PTL DEF Spec

\* Once overtaken, always overtaken: who overtook is past its copy in.
LEMMA OvertakenStays ==
    ASSUME TypeOK, WorkInv, [Next]_vars, NEW w \in Proc \X Session, Overtaken(w)
    PROVE  Overtaken(w)'
<1> PICK q \in Proc \ {w[1]} :
        w \notin seen[q] /\ local[q][w[2]] # {} /\ way[q] = "out" /\ q \notin linked
  BY DEF Overtaken
<1> SUFFICES w \notin seen'[q] /\ local'[q][w[2]] # {} /\ way'[q] = "out" /\ q \notin linked'
  BY DEF Overtaken
<1> USE DEF TypeOK, lockVars, stateVars
<1> DEFINE Goal == w \notin seen'[q] /\ local'[q][w[2]] # {} /\ way'[q] = "out" /\ q \notin linked'
<1>1. ASSUME NEW p \in Proc,
             Start(p) \/ End(p) \/ Die(p) \/ Create(p) \/ Judge(p) \/ RemoveLock(p) \/ Recreate(p)
      PROVE  Goal
  BY <1>1 DEF Start, End, Die, Create, Judge, RemoveLock, Recreate
<1>2. ASSUME NEW p \in Proc, Name(p) PROVE Goal
  BY <1>2 DEF Name
<1>3. ASSUME NEW p \in Proc, Link(p) \/ NameFails(p) \/ Release(p) \/ CopyFails(p) PROVE Goal
  BY <1>3 DEF Link, Links, NameFails, Release, CopyFails
<1>4. ASSUME NEW p \in Proc, NEW s \in Session, CopyIn(p, s) PROVE Goal
  <2>1. p # q
    BY <1>4 DEF CopyIn
  <2> QED BY <1>4, <2>1 DEF CopyIn
<1>5. ASSUME NEW p \in Proc, NEW s \in Session, Copies(p, s) PROVE Goal
  BY <1>5 DEF Copies, Pass, Truncate, Fill
<1>6. ASSUME NEW p \in Proc, NEW s \in Session, DoWork(p, s) PROVE Goal
  <2>1. p # q
    BY <1>6 DEF DoWork, WorkInv
  <2>2. local'[q] = local[q]
    BY <1>6, <2>1 DEF DoWork
  <2> QED BY <1>6, <2>2 DEF DoWork
<1>7. CASE UNCHANGED vars
  BY <1>7 DEF vars
<1> QED BY <1>1, <1>2, <1>3, <1>4, <1>5, <1>6, <1>7 DEF Next, Copies

\* What is saved is in the profile, or in a file that was cut off, or was overtaken.
LostInv == \A w \in saved : w[1] \in durable[w[2]] \/ Torn \in durable[w[2]] \/ Overtaken(w)

LEMMA LostNext ==
    TypeOK /\ WorkInv /\ OpenInv /\ SeenInv /\ LostInv /\ [Next]_vars => LostInv'
<1> SUFFICES ASSUME TypeOK, WorkInv, OpenInv, SeenInv, LostInv, [Next]_vars, NEW w \in saved'
             PROVE  w[1] \in durable'[w[2]] \/ Torn \in durable'[w[2]] \/ Overtaken(w)'
  BY DEF LostInv
<1>0. w \in Proc \X Session
  BY TypeNext DEF TypeOK
<1> DEFINE Goal == w[1] \in durable'[w[2]] \/ Torn \in durable'[w[2]] \/ Overtaken(w)'
<1>a. CASE w \in saved /\ w[1] \notin durable[w[2]] /\ Torn \notin durable[w[2]]
  BY <1>0, <1>a, OvertakenStays DEF LostInv
<1>b. ASSUME saved' = saved, durable' = durable PROVE Goal
  BY <1>a, <1>b
<1>1. ASSUME NEW p \in Proc,
             Start(p) \/ End(p) \/ Die(p) \/ Create(p) \/ Judge(p) \/ RemoveLock(p) \/ Recreate(p)
      PROVE  Goal
  BY <1>b, <1>1 DEF Start, End, Die, Create, Judge, RemoveLock, Recreate, stateVars
<1>2. ASSUME NEW p \in Proc, Name(p) \/ Link(p) \/ NameFails(p) \/ Release(p) \/ CopyFails(p) PROVE Goal
  BY <1>b, <1>2 DEF Name, Link, NameFails, Release, CopyFails, stateVars
<1>3. ASSUME NEW p \in Proc, NEW s \in Session, CopyIn(p, s) \/ Pass(p, s) PROVE Goal
  BY <1>b, <1>3 DEF CopyIn, Pass
<1>4. ASSUME NEW p \in Proc, NEW s \in Session, Truncate(p, s) PROVE Goal
  <2>1. durable' = [durable EXCEPT ![s] = {Torn}] /\ saved' = saved
    BY <1>4 DEF Truncate
  <2>2. CASE w[2] = s
    BY <1>0, <2>1, <2>2 DEF TypeOK
  <2>3. CASE w[2] # s
    <3>1. durable'[w[2]] = durable[w[2]]
      BY <1>0, <2>1, <2>3 DEF TypeOK
    <3> QED BY <1>a, <2>1, <3>1
  <2> QED BY <2>2, <2>3
<1>7. ASSUME NEW p \in Proc, NEW s \in Session, Fill(p, s) PROVE Goal
  <2>1. UNCHANGED <<way, local, linked, seen>> /\ open[p] # {}
    BY <1>7 DEF Fill, lockVars
  <2>2. durable' = [durable EXCEPT ![s] = local[p][s]] /\ saved' = saved \cup Work(s, local[p][s])
    BY <1>7 DEF Fill
  <2>3. way[p] = "out" /\ p \notin linked
    BY <2>1 DEF OpenInv
  <2>4. CASE w[2] # s
    <3>1. w \in saved /\ durable'[w[2]] = durable[w[2]]
      BY <1>0, <2>2, <2>4 DEF TypeOK, Work
    <3> QED BY <1>a, <3>1
  <2>5. CASE w[2] = s /\ (w[1] \in local[p][s] \/ Torn \in local[p][s])
    BY <2>2, <2>5 DEF TypeOK
  <2>6. CASE w[2] = s /\ w[1] \notin local[p][s] /\ Torn \notin local[p][s]
    <3>1. w \in saved
      BY <2>2, <2>6 DEF Work
    <3>2. p # w[1]
      <4>1. <<w[1], w[2]>> \in done
        BY <1>0, <3>1 DEF WorkInv
      <4> QED BY <1>0, <2>3, <2>6, <4>1 DEF WorkInv
    <3>3. CASE w \in seen[p]
      <4>1. Overtaken(w)
        BY <1>0, <2>3, <2>6, <3>3 DEF SeenInv, Brought
      <4> QED BY <1>0, <4>1, OvertakenStays
    <3>4. CASE w \notin seen[p] /\ local[p][s] # {}
      <4>1. Overtaken(w)
        BY <2>3, <2>6, <3>2, <3>4 DEF Overtaken
      <4> QED BY <1>0, <4>1, OvertakenStays
    <3>5. local[p][s] # {}
      BY <1>7 DEF Fill, OpenInv
    <3> QED BY <3>3, <3>4, <3>5
  <2> QED BY <2>4, <2>5, <2>6
<1>5. ASSUME NEW p \in Proc, NEW s \in Session, DoWork(p, s) PROVE Goal
  <2>1. CASE p \in linked
    <3>1. durable' = [durable EXCEPT ![s] = @ \cup {p}] /\ saved' = saved \cup {<<p, s>>}
      BY <1>5, <2>1 DEF DoWork
    <3> QED BY <1>0, <1>a, <3>1 DEF TypeOK
  <2>2. CASE p \notin linked
    BY <1>b, <1>5, <2>2 DEF DoWork
  <2> QED BY <2>1, <2>2
<1>6. CASE UNCHANGED vars
  BY <1>b, <1>6 DEF vars
<1> QED BY <1>1, <1>2, <1>3, <1>4, <1>5, <1>6, <1>7 DEF Next, Copies

LEMMA SeenNext ==
    TypeOK /\ WorkInv /\ OpenInv /\ SeenInv /\ LostInv /\ [Next]_vars => SeenInv'
<1> SUFFICES ASSUME TypeOK, WorkInv, OpenInv, SeenInv, LostInv, [Next]_vars PROVE SeenInv'
  OBVIOUS
<1> DEFINE Known(q, w) == \/ q \in linked \/ w[1] \in local[q][w[2]]
                          \/ Torn \in local[q][w[2]] \/ Overtaken(w)
\* Steps after which no launch has brought in, or seen, more than before.
<1>a. ASSUME saved \subseteq saved',
             seen' = seen,
             \A q \in Proc : q \in linked => q \in linked',
             \A q \in Proc, s \in Session, r \in Proc \cup {Torn} :
                Brought(q, s)' /\ r \in local[q][s] => r \in local'[q][s],
             \A q \in Proc, s \in Session : Brought(q, s)' => Brought(q, s)
      PROVE  SeenInv'
  <2>1. \A q \in Proc : seen'[q] \subseteq saved'
    BY <1>a DEF SeenInv
  <2>2. ASSUME NEW q \in Proc, NEW w \in Proc \X Session, w \in seen'[q], Brought(q, w[2])'
        PROVE  \/ q \in linked' \/ w[1] \in local'[q][w[2]]
               \/ Torn \in local'[q][w[2]] \/ Overtaken(w)'
    <3>1. Known(q, w)
      BY <1>a, <2>2 DEF SeenInv
    <3> QED BY <1>a, <2>2, <3>1, OvertakenStays
  <2> QED BY <2>1, <2>2 DEF SeenInv
<1> USE DEF Goto, Fail, lockVars, stateVars
<1>1. ASSUME NEW p \in Proc, Start(p) \/ End(p) \/ Die(p) PROVE SeenInv'
  BY <1>1, <1>a DEF Start, End, Die, Brought, TypeOK
<1>2. ASSUME NEW p \in Proc, Create(p) \/ Judge(p) \/ RemoveLock(p) \/ Recreate(p) PROVE SeenInv'
  BY <1>2, <1>a DEF Create, Judge, RemoveLock, Recreate, Brought, TypeOK
<1>3. ASSUME NEW p \in Proc, NameFails(p) \/ Release(p) \/ CopyFails(p) PROVE SeenInv'
  BY <1>3, <1>a DEF NameFails, Release, CopyFails, Brought, TypeOK
<1>4. ASSUME NEW p \in Proc, Link(p) PROVE SeenInv'
  <2>1. \A q \in Proc : q \in linked => q \in linked'
    BY <1>4 DEF Link
  <2>2. p \in linked' /\ UNCHANGED <<seen, saved, local>>
    BY <1>4 DEF Link
  <2>3. \A q \in Proc \ {p}, s \in Session : Brought(q, s)' => Brought(q, s)
    BY <1>4 DEF Link, Brought, TypeOK
  <2>4. ASSUME NEW q \in Proc, NEW w \in Proc \X Session, w \in seen'[q], Brought(q, w[2])'
        PROVE  \/ q \in linked' \/ w[1] \in local'[q][w[2]]
               \/ Torn \in local'[q][w[2]] \/ Overtaken(w)'
    BY <2>1, <2>2, <2>3, <2>4, OvertakenStays DEF SeenInv
  <2> QED BY <2>2, <2>4 DEF SeenInv
<1>5. ASSUME NEW p \in Proc, Name(p) PROVE SeenInv'
  <2>1. UNCHANGED <<way, local, linked, saved>> /\ pc' = [pc EXCEPT ![p] = "copy"]
    BY <1>5 DEF Name
  <2>2. seen' = IF way[p] = "in" THEN [seen EXCEPT ![p] = saved] ELSE seen
    BY <1>5 DEF Name
  <2>3. left' = [left EXCEPT ![p] = left'[p]]
    BY <1>5 DEF Name, TypeOK
  <2>4. \A q \in Proc : seen'[q] \subseteq saved'
    BY <2>1, <2>2 DEF SeenInv, TypeOK
  <2>5. ASSUME NEW q \in Proc, NEW w \in Proc \X Session, w \in seen'[q], Brought(q, w[2])'
        PROVE  \/ q \in linked' \/ w[1] \in local'[q][w[2]]
               \/ Torn \in local'[q][w[2]] \/ Overtaken(w)'
    <3>1. CASE q = p /\ way[p] = "in"
      <4>1. w \in saved /\ w[2] \notin left'[p]
        BY <2>1, <2>2, <2>5, <3>1 DEF Brought, TypeOK
      <4>2. dir
        BY <4>1 DEF WorkInv
      <4>3. left'[p] = Session
        BY <1>5, <3>1, <4>2 DEF Name, MadeFirst, TypeOK
      <4> QED BY <4>1, <4>3
    <3>2. CASE ~ (q = p /\ way[p] = "in")
      <4>1. w \in seen[q] /\ Brought(q, w[2])
        BY <2>1, <2>2, <2>3, <2>5, <3>2 DEF Brought, TypeOK
      <4> QED BY <2>1, <4>1, OvertakenStays DEF SeenInv
    <3> QED BY <3>1, <3>2
  <2> QED BY <2>4, <2>5 DEF SeenInv
<1>6. ASSUME NEW p \in Proc, NEW s \in Session, CopyIn(p, s) PROVE SeenInv'
  <2>1. UNCHANGED <<pc, way, durable, linked, saved, seen>> /\ way[p] = "in" /\ pc[p] = "copy" /\ s \in left[p]
    BY <1>6 DEF CopyIn
  <2>2. local' = [local EXCEPT ![p][s] = durable[s]] /\ left' = [left EXCEPT ![p] = @ \ {s}]
    BY <1>6 DEF CopyIn
  <2>3. ASSUME NEW q \in Proc, NEW w \in Proc \X Session, w \in seen'[q], Brought(q, w[2])'
        PROVE  \/ q \in linked' \/ w[1] \in local'[q][w[2]]
               \/ Torn \in local'[q][w[2]] \/ Overtaken(w)'
    <3>1. CASE q = p /\ w[2] = s
      <4>1. w \in saved /\ local'[q][w[2]] = durable[w[2]]
        BY <2>1, <2>2, <2>3, <3>1 DEF SeenInv, TypeOK
      <4> QED BY <4>1, OvertakenStays DEF LostInv
    <3>2. CASE ~ (q = p /\ w[2] = s)
      <4>1. Brought(q, w[2])
        BY <2>1, <2>2, <2>3, <3>2 DEF Brought, TypeOK
      <4>2. local'[q][w[2]] = local[q][w[2]]
        BY <2>2, <3>2 DEF TypeOK
      <4> QED BY <2>1, <2>3, <4>1, <4>2, OvertakenStays DEF SeenInv
    <3> QED BY <3>1, <3>2
  <2> QED BY <2>1, <2>3 DEF SeenInv
<1>7. ASSUME NEW p \in Proc, NEW s \in Session, Copies(p, s) PROVE SeenInv'
  <2>1. UNCHANGED <<pc, way, local, linked, seen>> /\ saved \subseteq saved'
    BY <1>7 DEF Copies, Pass, Truncate, Fill, lockVars
  <2>2. way[p] = "out" /\ \A q \in Proc \ {p} : left'[q] = left[q]
    BY <1>7 DEF Copies, Pass, Truncate, Fill, TypeOK, OpenInv
  <2>3. \A q \in Proc, x \in Session : Brought(q, x)' => Brought(q, x)
    BY <2>1, <2>2 DEF Brought
  <2> QED BY <1>a, <2>1, <2>3
<1>8. ASSUME NEW p \in Proc, NEW s \in Session, DoWork(p, s) PROVE SeenInv'
  <2>1. UNCHANGED <<pc, way, linked, left, seen>> /\ saved \subseteq saved'
    BY <1>8 DEF DoWork
  <2>2. \A q \in Proc, r \in Proc \cup {Torn}, x \in Session : r \in local[q][x] => r \in local'[q][x]
    <3>1. local' = local \/ local' = [local EXCEPT ![p][s] = @ \cup {p}]
      BY <1>8 DEF DoWork
    <3>2. CASE local' = [local EXCEPT ![p][s] = @ \cup {p}]
      <4>1. \A q \in Proc, x \in Session :
                local'[q][x] = IF q = p /\ x = s THEN local[q][x] \cup {p} ELSE local[q][x]
        BY <3>2 DEF TypeOK
      <4> QED BY <4>1
    <3> QED BY <3>1, <3>2
  <2>3. \A q \in Proc, x \in Session : Brought(q, x)' => Brought(q, x)
    BY <2>1 DEF Brought
  <2> QED BY <1>a, <2>1, <2>2, <2>3
<1>9. CASE UNCHANGED vars
  BY <1>9, <1>a DEF vars, Brought
<1> QED BY <1>1, <1>2, <1>3, <1>4, <1>5, <1>6, <1>7, <1>8, <1>9 DEF Next, Copies

LEMMA TornInit == Init => TornInv
BY DEF Init, TornInv

LEMMA TornNext == TypeOK /\ HolderInv /\ OpenInv /\ TornInv /\ [Next]_vars => TornInv'
<1> SUFFICES ASSUME TypeOK, HolderInv, OpenInv, TornInv, [Next]_vars, Dead' = {}, NEW s \in Session
             PROVE  /\ Torn \in durable'[s] => \E p \in Proc : s \in open'[p]
                    /\ \A q \in Proc : Torn \in local'[q][s] =>
                          \E p \in Proc : pc'[p] = "ended" /\ s \in open'[p]
  BY DEF TornInv
<1> DEFINE Goal == /\ Torn \in durable'[s] => \E p \in Proc : s \in open'[p]
                   /\ \A q \in Proc : Torn \in local'[q][s] =>
                         \E p \in Proc : pc'[p] = "ended" /\ s \in open'[p]
<1>0. /\ Dead = {}
      /\ Torn \in durable[s] => \E p \in Proc : s \in open[p]
      /\ \A q \in Proc : Torn \in local[q][s] => \E p \in Proc : pc[p] = "ended" /\ s \in open[p]
  BY DeadStay DEF TornInv
<1>a. ASSUME open' = open, durable'[s] = durable[s] \/ Torn \notin durable'[s],
             \A q \in Proc : Torn \in local'[q][s] => Torn \in local[q][s],
             \A p \in Proc : pc[p] = "ended" => pc'[p] = "ended"
      PROVE  Goal
  BY <1>0, <1>a
<1> USE DEF TypeOK, Goto, Fail, lockVars, stateVars
<1>1. ASSUME NEW p \in Proc, Start(p) \/ End(p) \/ Die(p) PROVE Goal
  BY <1>a, <1>1 DEF Start, End, Die
<1>2. ASSUME NEW p \in Proc, Create(p) \/ Judge(p) \/ RemoveLock(p) \/ Recreate(p) PROVE Goal
  BY <1>a, <1>2 DEF Create, Judge, RemoveLock, Recreate
<1>3. ASSUME NEW p \in Proc, Name(p) \/ NameFails(p) \/ Link(p) \/ Release(p) \/ CopyFails(p) PROVE Goal
  BY <1>a, <1>3 DEF Name, NameFails, Link, Release, CopyFails
<1>4. ASSUME NEW p \in Proc, NEW x \in Session, CopyIn(p, x) PROVE Goal
  <2>1. UNCHANGED <<pc, durable, open>> /\ pc[p] = "copy" /\ way[p] = "in"
    BY <1>4 DEF CopyIn
  <2>2. local' = [local EXCEPT ![p][x] = durable[x]]
    BY <1>4 DEF CopyIn
  <2>3. ASSUME NEW q \in Proc, Torn \in local'[q][s], Torn \notin local[q][s]
        PROVE  \E r \in Proc : pc[r] = "ended" /\ s \in open[r]
    <3>1. q = p /\ x = s /\ Torn \in durable[s]
      BY <2>2, <2>3
    <3>2. PICK r \in Proc : s \in open[r]
      BY <1>0, <3>1
    <3>3. pc[r] \in {"copy", "ended"} /\ way[r] = "out"
      BY <1>0, <3>2 DEF OpenInv, Dead
    <3>4. pc[r] # "copy"
      BY <1>0, <2>1, <3>3 DEF HolderInv, Holding
    <3> QED BY <3>2, <3>3, <3>4
  <2> QED BY <1>0, <2>1, <2>3
<1>5. ASSUME NEW p \in Proc, NEW x \in Session, Pass(p, x) \/ DoWork(p, x) PROVE Goal
  <2>1. UNCHANGED <<pc, open>>
    BY <1>5 DEF Pass, DoWork
  <2>2. Torn \in durable'[s] => Torn \in durable[s]
    <3>1. durable' = durable \/ durable' = [durable EXCEPT ![x] = @ \cup {p}]
      BY <1>5 DEF Pass, DoWork
    <3>2. CASE durable' = [durable EXCEPT ![x] = @ \cup {p}]
      <4>1. durable'[s] = durable[s] \/ durable'[s] = durable[s] \cup {p}
        BY <3>2
      <4> QED BY <4>1, TornIsNoWork
    <3> QED BY <3>1, <3>2
  <2>3. ASSUME NEW q \in Proc PROVE Torn \in local'[q][s] => Torn \in local[q][s]
    <3>1. local' = local \/ local' = [local EXCEPT ![p][x] = @ \cup {p}]
      BY <1>5 DEF Pass, DoWork
    <3>2. CASE local' = [local EXCEPT ![p][x] = @ \cup {p}]
      <4>1. local'[q][s] = local[q][s] \/ local'[q][s] = local[q][s] \cup {p}
        BY <3>2
      <4> QED BY <4>1, TornIsNoWork
    <3> QED BY <3>1, <3>2
  <2> QED BY <1>0, <2>1, <2>2, <2>3
<1>6. ASSUME NEW p \in Proc, NEW x \in Session, Truncate(p, x) PROVE Goal
  <2>1. UNCHANGED <<pc, local>> /\ open[p] = {} /\ open' = [open EXCEPT ![p] = {x}]
    BY <1>6 DEF Truncate
  <2>2. \A r \in Proc : s \in open[r] => s \in open'[r]
    BY <2>1
  <2>3. durable'[s] = durable[s] \/ s \in open'[p]
    BY <1>6 DEF Truncate
  <2> QED BY <1>0, <2>1, <2>2, <2>3
<1>7. ASSUME NEW p \in Proc, NEW x \in Session, Fill(p, x) PROVE Goal
  <2>1. UNCHANGED <<pc, local>> /\ pc[p] = "copy" /\ open[p] = {x} /\ open' = [open EXCEPT ![p] = {}]
    BY <1>7 DEF Fill
  <2>2. durable' = [durable EXCEPT ![x] = local[p][x]]
    BY <1>7 DEF Fill
  <2>3. \A r \in Proc : r # p => open'[r] = open[r]
    BY <2>1
  <2>4. \A q \in Proc : Torn \in local[q][s] => \E r \in Proc : pc[r] = "ended" /\ s \in open'[r]
    BY <1>0, <2>1, <2>3
  <2>5. CASE x = s
    BY <2>1, <2>2, <2>4, <2>5
  <2>6. CASE x # s
    BY <1>0, <2>1, <2>2, <2>3, <2>4, <2>6
  <2> QED BY <2>5, <2>6
<1>8. CASE UNCHANGED vars
  BY <1>a, <1>8 DEF vars
<1> QED BY <1>1, <1>2, <1>3, <1>4, <1>5, <1>6, <1>7, <1>8 DEF Next

\* Where the sessions of a profile are copied, saved work is lost in two ways only:
\* a launch that copied the session in before the work was saved copied out
\* after it, or a copy out was cut short. That is so for any number of launches and
\* sessions, whoever fails, is killed, or gets past the lock.
THEOREM LossesHaveACause == Spec => []LossHasACause
<1>1. Init => SeenInv /\ LostInv
  BY DEF Init, SeenInv, LostInv
<1>2. TypeOK /\ LostInv /\ TornInv => LossHasACause
  BY DEF LostInv, TornInv, LossHasACause, Overtaken
<1> QED BY TypeCorrect, WorkInit, WorkNext, OpenInit, OpenNext, SeenNext, LostNext, <1>1, <1>2,
           HolderInit, HolderNext, TornInit, TornNext, PTL DEF Spec

===============================================================================
