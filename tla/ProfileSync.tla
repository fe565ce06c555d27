------------------------------ MODULE ProfileSync ------------------------------
(***************************************************************************)
(* The durable state of an agent profile, and the launches that share it.  *)
(* A launch copies the state into its run directory, or links to it, and   *)
(* copies it back when the agent has ended, each time under a lock file     *)
(* that names the process holding it. Processes can be killed anywhere. A   *)
(* lock that names a dead process is reclaimed.                             *)
(***************************************************************************)
EXTENDS FiniteSets

CONSTANTS
    Proc,       \* launches
    Session,    \* sessions the agents work on
    Mortal,     \* whether processes may be killed
    NoLock,     \* no lock
    Torn        \* that a file was cut off

ASSUME NoLockIsNone == NoLock \notin [by : Proc, named : BOOLEAN]
ASSUME TornIsNoWork == Torn \notin Proc

VARIABLES
    layout,     \* how the agent keeps its sessions
    linkable,   \* whether a run directory can hold a link to the profile's
    lock,       \* the lock file: [by, named]; NoLock if there is none
    pc,         \* where a launch is
    way,        \* whether it brings the state "in" or "out"
    dir,        \* whether the profile has a directory of sessions
    durable,    \* session -> the launches whose work is in the profile's copy,
                \* and Torn if it was cut off; {} if there is none
    local,      \* launch -> session -> the same of the copy of the run
    linked,     \* launches whose sessions are a link to the profile's
    left,       \* launch -> sessions it has yet to copy
    open,       \* launch -> the session of the profile it is writing, or was writing
                \* when it failed or was killed
    created,    \* sessions that have been started
    done,       \* work that was done: <<launch, session>>
    saved,      \* work that has reached the profile
    seen        \* launch -> what was saved when it copied in

vars == <<layout, linkable, lock, pc, way, dir, durable, local, linked, left, open, created, done, saved, seen>>
lockVars == <<lock, pc, way>>
stateVars == <<dir, durable, local, linked, left, open, created, done, saved, seen>>

\* Codex and Open Interpreter link to the sessions of the profile, whose
\* directory is made in advance; the other agents link to it once it is
\* there; what is not called sessions (Claude's projects, every history) is
\* copied.
Layout == {"made", "linked", "copied"}

Dead == {p \in Proc : pc[p] = "dead"}
Holding == {"name", "copy"}

Init ==
    /\ layout \in Layout /\ linkable \in BOOLEAN
    /\ lock = NoLock
    /\ pc = [p \in Proc |-> "idle"] /\ way = [p \in Proc |-> "in"]
    /\ dir = FALSE
    /\ durable = [s \in Session |-> {}]
    /\ local = [p \in Proc |-> [s \in Session |-> {}]]
    /\ linked = {} /\ left = [p \in Proc |-> {}] /\ open = [p \in Proc |-> {}]
    /\ created = {} /\ done = {} /\ saved = {}
    /\ seen = [p \in Proc |-> {}]

-------------------------------------------------------------------------------
(* acquire_agent_profile_lock *)

Goto(p, at) == pc' = [pc EXCEPT ![p] = at]

\* What an error does: a launch that cannot bring its state in ends, one that
\* cannot bring it out has ended.
Fail(p) == Goto(p, "ended")

\* `create_new`: the file is made, or it exists.
Create(p) ==
    /\ pc[p] = "create"
    /\ IF lock = NoLock THEN lock' = [by |-> p, named |-> FALSE] /\ Goto(p, "name")
                      ELSE lock' = lock /\ Goto(p, "judge")
    /\ UNCHANGED <<layout, linkable, way, stateVars>>

\* Mutant of Stale: a lock that does not name anybody is stale.
StaleUnnamed == lock # NoLock /\ (lock.named => lock.by \in Dead)

\* `stale_agent_profile_lock`: a lock that names a process that is gone. No
\* lock any more is a failure to read, a lock that names nobody is in use.
Stale == lock # NoLock /\ lock.named /\ lock.by \in Dead

Judge(p) ==
    /\ pc[p] = "judge"
    /\ IF Stale THEN Goto(p, "remove") ELSE Fail(p)
    /\ UNCHANGED <<layout, linkable, lock, way, stateVars>>

\* Whatever lock is there now goes; none at all is a failure.
RemoveLock(p) ==
    /\ pc[p] = "remove"
    /\ lock' = NoLock
    /\ IF lock = NoLock THEN Fail(p) ELSE Goto(p, "recreate")
    /\ UNCHANGED <<layout, linkable, way, stateVars>>

Recreate(p) ==
    /\ pc[p] = "recreate"
    /\ IF lock = NoLock THEN lock' = [by |-> p, named |-> FALSE] /\ Goto(p, "name")
                      ELSE lock' = lock /\ Fail(p)
    /\ UNCHANGED <<layout, linkable, way, stateVars>>

\* Mutant of MadeFirst: it is made by the first copy out.
MadeLater(p) == dir

\* `shares_live_session_state`: the directory is made before the copy in.
MadeFirst(p) == dir \/ (way[p] = "in" /\ layout = "made")

\* Whether the sessions of a copy in are linked: the profile has a directory of
\* them, the run has none yet, and the link can be made.
Links(p) == way[p] = "in" /\ layout # "copied" /\ linkable

\* The line with the pid, into the file this launch has made; another launch
\* may have removed it. Then the copy begins.
Name(p) ==
    /\ pc[p] = "name"
    /\ lock' = IF lock # NoLock /\ lock.by = p THEN [by |-> p, named |-> TRUE] ELSE lock
    /\ Goto(p, "copy")
    /\ dir' = MadeFirst(p)
    /\ left' = [left EXCEPT ![p] = IF (way[p] = "in" /\ ~ dir') \/ (way[p] = "out" /\ p \in linked)
                                   THEN {} ELSE Session]
    /\ seen' = IF way[p] = "in" THEN [seen EXCEPT ![p] = saved] ELSE seen
    /\ UNCHANGED <<layout, linkable, way, durable, local, linked, open, created, done, saved>>

\* `link_durable_session_dir`: the link takes the place of the copy.
Link(p) ==
    /\ pc[p] = "copy" /\ Links(p) /\ left[p] = Session
    /\ linked' = linked \cup {p}
    /\ left' = [left EXCEPT ![p] = {}]
    /\ UNCHANGED <<layout, linkable, lockVars, dir, durable, local, open, created, done, saved, seen>>

\* The write of that line fails; the file stays.
NameFails(p) ==
    /\ pc[p] = "name" /\ Fail(p)
    /\ UNCHANGED <<layout, linkable, lock, way, stateVars>>

Work(s, content) == {<<p, s>> : p \in content \ {Torn}}

\* `copy_profile_path`: one file replaces another, whatever is in either. A file
\* the source does not have leaves the target alone. A launch whose copy in is cut
\* short does not run, so only what is copied in completely matters.
CopyIn(p, s) ==
    /\ pc[p] = "copy" /\ way[p] = "in" /\ ~ Links(p) /\ s \in left[p]
    /\ local' = [local EXCEPT ![p][s] = durable[s]]
    /\ left' = [left EXCEPT ![p] = @ \ {s}]
    /\ UNCHANGED <<layout, linkable, lockVars, dir, durable, linked, open, created, done, saved, seen>>

\* Mutant of Pass: what the run does not have is removed from the profile.
PassMirrored(p, s) ==
    /\ pc[p] = "copy" /\ way[p] = "out" /\ s \in left[p] /\ open[p] = {}
    /\ local[p][s] = {}
    /\ durable' = [durable EXCEPT ![s] = {}]
    /\ left' = [left EXCEPT ![p] = @ \ {s}]
    /\ UNCHANGED <<layout, linkable, lockVars, dir, local, linked, open, created, done, saved, seen>>

\* The run does not have this session.
Pass(p, s) ==
    /\ pc[p] = "copy" /\ way[p] = "out" /\ s \in left[p] /\ open[p] = {}
    /\ local[p][s] = {}
    /\ left' = [left EXCEPT ![p] = @ \ {s}]
    /\ UNCHANGED <<layout, linkable, lockVars, dir, durable, local, linked, open, created, done, saved, seen>>

\* `fs::copy` truncates the file of the profile, or makes it,
Truncate(p, s) ==
    /\ pc[p] = "copy" /\ way[p] = "out" /\ s \in left[p] /\ open[p] = {}
    /\ local[p][s] # {}
    /\ durable' = [durable EXCEPT ![s] = {Torn}]
    /\ dir' = TRUE
    /\ left' = [left EXCEPT ![p] = @ \ {s}]
    /\ open' = [open EXCEPT ![p] = {s}]
    /\ UNCHANGED <<layout, linkable, lockVars, local, linked, created, done, saved, seen>>

\* and then fills it. In between the launch may fail or be killed.
Fill(p, s) ==
    /\ pc[p] = "copy" /\ open[p] = {s}
    /\ durable' = [durable EXCEPT ![s] = local[p][s]]
    /\ open' = [open EXCEPT ![p] = {}]
    /\ saved' = saved \cup Work(s, local[p][s])
    /\ UNCHANGED <<layout, linkable, lockVars, dir, local, linked, left, created, done, seen>>

\* Mutant of Unlock: only a completed copy releases the lock.
UnlockNever == lock' = lock

\* The end of the copy, or a file that cannot be copied; either way the lock file
\* is removed, whoever's it is now.
Unlock == lock' = NoLock

Release(p) ==
    /\ pc[p] = "copy" /\ left[p] = {} /\ open[p] = {}
    /\ Unlock
    /\ Goto(p, IF way[p] = "in" THEN "running" ELSE "ended")
    /\ UNCHANGED <<layout, linkable, way, stateVars>>

CopyFails(p) ==
    /\ pc[p] = "copy"
    /\ Unlock /\ Fail(p)
    /\ UNCHANGED <<layout, linkable, way, stateVars>>

-------------------------------------------------------------------------------
(* The launch around it *)

Start(p) ==
    /\ pc[p] = "idle" /\ Goto(p, "create")
    /\ UNCHANGED <<layout, linkable, lock, way, stateVars>>

\* The agent of a launch works on a session: a new one, or one that it can see.
Visible(p, s) == IF p \in linked THEN durable[s] ELSE local[p][s]

DoWork(p, s) ==
    /\ pc[p] = "running" /\ <<p, s>> \notin done
    /\ s \in created => Visible(p, s) # {}
    /\ created' = created \cup {s}
    /\ done' = done \cup {<<p, s>>}
    /\ IF p \in linked
       THEN /\ durable' = [durable EXCEPT ![s] = @ \cup {p}]
            /\ saved' = saved \cup {<<p, s>>} /\ local' = local
       ELSE /\ local' = [local EXCEPT ![p][s] = @ \cup {p}]
            /\ UNCHANGED <<durable, saved>>
    /\ UNCHANGED <<layout, linkable, lockVars, dir, linked, left, open, seen>>

End(p) ==
    /\ pc[p] = "running"
    /\ Goto(p, "create") /\ way' = [way EXCEPT ![p] = "out"]
    /\ UNCHANGED <<layout, linkable, lock, stateVars>>

Die(p) ==
    /\ Mortal /\ pc[p] \notin {"idle", "ended", "dead"}
    /\ Goto(p, "dead")
    /\ UNCHANGED <<layout, linkable, lock, way, stateVars>>

Next ==
    \E p \in Proc :
        \/ Start(p) \/ End(p) \/ Die(p)
        \/ Create(p) \/ Judge(p) \/ RemoveLock(p) \/ Recreate(p) \/ Name(p) \/ NameFails(p)
        \/ Link(p) \/ Release(p) \/ CopyFails(p)
        \/ \E s \in Session : CopyIn(p, s) \/ Pass(p, s) \/ Truncate(p, s) \/ Fill(p, s) \/ DoWork(p, s)

Spec == Init /\ [][Next]_vars

-------------------------------------------------------------------------------
(* Properties *)

TypeOK ==
    /\ layout \in Layout /\ linkable \in BOOLEAN
    /\ lock \in [by : Proc, named : BOOLEAN] \cup {NoLock}
    /\ pc \in [Proc -> {"idle", "create", "judge", "remove", "recreate", "name", "copy",
                        "running", "ended", "dead"}]
    /\ way \in [Proc -> {"in", "out"}]
    /\ dir \in BOOLEAN
    /\ durable \in [Session -> SUBSET (Proc \cup {Torn})]
    /\ local \in [Proc -> [Session -> SUBSET (Proc \cup {Torn})]]
    /\ linked \subseteq Proc
    /\ left \in [Proc -> SUBSET Session] /\ open \in [Proc -> SUBSET Session]
    /\ created \subseteq Session
    /\ done \subseteq Proc \X Session /\ saved \subseteq Proc \X Session
    /\ seen \in [Proc -> SUBSET (Proc \X Session)]

\* Two launches never synchronise one profile at a time ("agent profile .. is
\* already in use or locked", agent_launcher.rs:634; the test
\* agent_profile_lock_blocks_parallel_sync, agent_launcher.rs:3527).
SyncIsExclusive ==
    \A p, q \in Proc : pc[p] \in Holding /\ pc[q] \in Holding => p = q

\* As long as nobody was killed it is so.
ExclusiveAmongTheLiving == Dead = {} => SyncIsExclusive

\* Nobody is locked out for ever by an end that was orderly, failures included:
\* when no launch is synchronising, the lock is gone, or it names a dead process
\* and the next launch takes it over. The exception is a lock whose maker was
\* killed, or failed, before it had written its name: that one stays.
LockIsRecoverable ==
    (\A p \in Proc : pc[p] \in {"idle", "running", "ended", "dead"}) =>
        lock = NoLock \/ lock.by \in Dead \/ ~ lock.named

\* The sessions of Codex and Open Interpreter are safe at once: where links can
\* be made, all work that was ever done is in the profile, whoever was killed,
\* failed to synchronise, or synchronised at the same time.
LiveSessionsSurvive ==
    layout = "made" /\ linkable => \A w \in done : w[1] \in durable[w[2]]

\* Sessions that are copied are lost in two ways only. Saved work that is no longer
\* in the profile was overwritten by a launch that had copied in that very
\* session before the work was saved, and has begun to copy out; or the file is
\* cut off. And a file is cut off only while a launch writes it or because one
\* failed in the middle; once a launch was killed, also because one of those that
\* then got past the lock read it in the middle.
LossHasACause ==
    /\ \A w \in saved :
          \/ w[1] \in durable[w[2]] \/ Torn \in durable[w[2]]
          \/ \E q \in Proc \ {w[1]} :
                w \notin seen[q] /\ local[q][w[2]] # {} /\ way[q] = "out" /\ q \notin linked
    /\ \A s \in Session : Torn \in durable[s] => Dead # {} \/ \E p \in Proc : s \in open[p]
===============================================================================
