-------------------------- MODULE WorkspaceRegistry --------------------------
(***************************************************************************)
(* The named-workspace registry of crates/ai-fence-cli-core: one metadata  *)
(* file per workspace, one flock over all of them, a marker file inside    *)
(* each workspace directory, and a lease that ties a workspace to a live   *)
(* process tree.  Any number of processes call it; each may be killed      *)
(* between any two of its steps.                                           *)
(*                                                                         *)
(* Names are names scoped to one original project, the pair the code       *)
(* compares (name, project).  The physical identity of a workspace         *)
(* (Btrfs UUID and inode) is modelled by the Id of the record that saved   *)
(* it: a creation makes at most one volume and at most one record.  None   *)
(* as a volume is a directory no record identifies.                        *)
(***************************************************************************)
EXTENDS FiniteSets

CONSTANTS
  Proc,       \* process identities: a PID together with its start time
  Ancestors,  \* for each process, the processes it was spawned under
  Name,       \* workspace names of the project
  Id,         \* workspace identities (UUIDs)
  Token,      \* lease tokens (UUIDs)
  Thread,     \* native chat identities
  Tampering,  \* whether the user touches workspace directories by hand
  None        \* absence, outside every other set

ASSUME NoneAssumption ==
  None \notin Proc \cup Name \cup Id \cup Token \cup Thread

ASSUME TreeAssumption ==
  /\ Ancestors \in [Proc -> SUBSET Proc]
  /\ \A p \in Proc : p \notin Ancestors[p]
  /\ \A p \in Proc : \A q \in Ancestors[p] : Ancestors[q] \subseteq Ancestors[p]

ASSUME TamperingAssumption == Tampering \in BOOLEAN

VARIABLES
  status,  \* life of each process
  env,     \* the lease token in the environment of each process
  guard,   \* the WorkspaceLease guard each process holds
  op,      \* the registry operation each process is in the middle of
  lock,    \* the holder of <registry>/.lock
  rec,     \* the saved metadata records
  disk     \* the workspace directories

vars == <<status, env, guard, op, lock, rec, disk>>
registryVars == <<op, lock, rec, disk>>

\* Mutant of NoLease: a lease saved without its list of children.
ChildlessLease == [token |-> None, owner |-> None]

NoLease  == [token |-> None, owner |-> None, children |-> {}]
NoGuard  == [id |-> None, token |-> None, owned |-> FALSE]
NoRecord == [state |-> "free", name |-> None, pinned |-> FALSE,
             chats |-> {}, native |-> FALSE, lease |-> NoLease]
Absent   == [present |-> FALSE, vol |-> None, marker |-> None,
             dirty |-> FALSE, leased |-> FALSE]
Idle     == [kind |-> "idle", id |-> None, name |-> None, chat |-> None,
             discard |-> FALSE, detach |-> FALSE]

\* Operations that hold the lock across several steps.
Locked == {"created", "marked", "remove", "deleted"}

Maybe(S) == S \cup {None}

Lease     == [token : Maybe(Token), owner : Maybe(Proc), children : SUBSET Proc]
Guard     == [id : Maybe(Id), token : Maybe(Token), owned : BOOLEAN]
Record    == [state : {"free", "live", "deleted"}, name : Maybe(Name),
              pinned : BOOLEAN, chats : SUBSET Thread, native : BOOLEAN,
              lease : Lease]
Directory == [present : BOOLEAN, vol : Maybe(Id), marker : Maybe(Id),
              dirty : BOOLEAN, leased : BOOLEAN]
Operation == [kind : Locked \cup {"idle", "attach"}, id : Maybe(Id),
              name : Maybe(Name), chat : Maybe(Thread),
              discard : BOOLEAN, detach : BOOLEAN]

TypeOK ==
  /\ status \in [Proc -> {"unborn", "alive", "dead"}]
  /\ env \in [Proc -> Maybe(Token)]
  /\ guard \in [Proc -> Guard]
  /\ op \in [Proc -> Operation]
  /\ \A p \in Proc : op[p].kind # "idle" => op[p].id \in Id
  /\ lock \in Maybe(Proc)
  /\ rec \in [Id -> Record]
  /\ disk \in [Name -> Directory]

Init ==
  /\ status = [p \in Proc |-> "unborn"]
  /\ env = [p \in Proc |-> None]
  /\ guard = [p \in Proc |-> NoGuard]
  /\ op = [p \in Proc |-> Idle]
  /\ lock = None
  /\ rec = [i \in Id |-> NoRecord]
  /\ disk = [n \in Name |-> Absent]

-----------------------------------------------------------------------------
(* Processes and leases.                                                   *)

Alive == {p \in Proc : status[p] = "alive"}

\* leases::ancestor: the walk up /proc reaches p from q.  A process whose
\* parent died is reparented, so every process on the way must be alive.
Descends(p, q) ==
  \/ p = q
  \/ /\ p \in Ancestors[q] \cap Alive
     /\ {r \in Ancestors[q] : p \in Ancestors[r]} \subseteq Alive

\* The processes a lease stands for; it is active while one of them lives.
Users(lease) == (lease.children \cup {lease.owner}) \ {None}
\* Mutant of Active: only the owner counts, tracked children are forgotten.
OwnerAlive(lease) == lease.owner \in Alive
Active(lease) == Users(lease) \cap Alive # {}

\* The recorded identity is the one found at the recorded path.
Matches(i) == rec[i].state # "free" /\ disk[rec[i].name].vol = i

\* Registry::discover succeeds in directory n with record i: the marker names
\* the record, which is not deleted and identifies this very directory.
Discovers(n, i) ==
  /\ disk[n].present
  /\ disk[n].marker = i
  /\ rec[i].state = "live"
  /\ disk[n].vol = i

Ready(p) == status[p] = "alive" /\ op[p] = Idle
LiveNamed(n) == {i \in Id : rec[i].state = "live" /\ rec[i].name = n}
Linked(i) == rec[i].chats # {} \/ rec[i].native

\* A UUID that nothing remembers is as good as a new one.
FreshToken(t) ==
  /\ \A i \in Id : rec[i].lease.token # t
  /\ \A p \in Proc : guard[p].token # t /\ env[p] # t
FreshId(i) ==
  /\ rec[i].state = "free"
  /\ \A n \in Name : disk[n].vol # i /\ disk[n].marker # i
  /\ \A p \in Proc : op[p].id # i

-----------------------------------------------------------------------------
(* Process life.                                                           *)

\* The operating system starts a process; a launch under a guard gets its
\* token through configure_command, any other inherits its parent's.
Spawn(c) ==
  /\ status[c] = "unborn"
  /\ Ancestors[c] = {} \/ \E p \in Ancestors[c] \cap Alive :
       /\ Ancestors[c] = Ancestors[p] \cup {p}
  /\ status' = [status EXCEPT ![c] = "alive"]
  /\ env' = [env EXCEPT ![c] =
       IF Ancestors[c] = {} THEN None
       ELSE LET p == CHOOSE q \in Ancestors[c] :
                       Ancestors[c] = Ancestors[q] \cup {q}
            IN IF guard[p].token # None THEN guard[p].token ELSE env[p]]
  /\ UNCHANGED <<guard, registryVars>>

\* Mutant of Die: a lock file that outlives its creator instead of an flock.
DieHoldingLock(p) ==
  /\ status[p] = "alive"
  /\ status' = [status EXCEPT ![p] = "dead"]
  /\ env' = [env EXCEPT ![p] = None]
  /\ guard' = [guard EXCEPT ![p] = NoGuard]
  /\ op' = [op EXCEPT ![p] = Idle]
  /\ UNCHANGED <<lock, rec, disk>>

\* A process is killed or exits without running its destructors.  The kernel
\* drops its flock; the files keep whatever was already written.
Die(p) ==
  /\ status[p] = "alive"
  /\ status' = [status EXCEPT ![p] = "dead"]
  /\ env' = [env EXCEPT ![p] = None]
  /\ guard' = [guard EXCEPT ![p] = NoGuard]
  /\ op' = [op EXCEPT ![p] = Idle]
  /\ lock' = IF lock = p THEN None ELSE lock
  /\ UNCHANGED <<rec, disk>>

\* command::run replaces the process image: same PID and start identity, no
\* destructor, the token now in the environment.
Exec(p) ==
  /\ Ready(p)
  /\ guard[p] # NoGuard
  /\ env' = [env EXCEPT ![p] = guard[p].token]
  /\ guard' = [guard EXCEPT ![p] = NoGuard]
  /\ UNCHANGED <<status, registryVars>>

-----------------------------------------------------------------------------
(* Attaching to a workspace.                                               *)

\* The lookup of Registry::attach, before the lock.
AttachDiscover(p, n, i, c) ==
  /\ Ready(p)
  /\ guard[p] = NoGuard
  /\ Discovers(n, i)
  /\ op' = [op EXCEPT ![p] = [Idle EXCEPT !.kind = "attach", !.id = i, !.chat = c]]
  /\ UNCHANGED <<status, env, guard, lock, rec, disk>>

\* Mutant of ChatAllowed: tombstones no longer reserve their chats.
ChatAllowedIfRemoved(i, c) ==
  \A j \in Id : c \in rec[j].chats /\ rec[j].state = "live" => j = i

\* A thread may only be linked to the record it is already linked to.
ChatAllowed(i, c) ==
  \A j \in Id : c \in rec[j].chats => j = i /\ rec[j].state # "deleted"

\* The record re-read under the lock is still the discovered workspace.
StillThere(p) ==
  LET i == op[p].id IN
  /\ op[p].kind = "attach"
  /\ rec[i].state = "live" /\ Matches(i)
  /\ ChatAllowed(i, op[p].chat)

\* The same owner again, or a descendant of the living owner with its token.
MayShare(p, lease) ==
  \/ lease.owner = p
  \/ /\ env[p] # None /\ env[p] = lease.token
     /\ lease.owner \in Alive
     /\ Descends(lease.owner, p)

\* Mutant of AttachGrant: the lease is taken without asking who has it.
AttachSeize(p, t) ==
  LET i == op[p].id IN
  /\ lock = None
  /\ StillThere(p)
  /\ FreshToken(t)
  /\ rec' = [rec EXCEPT
       ![i].lease = [token |-> t, owner |-> p, children |-> {}],
       ![i].chats = @ \cup ({op[p].chat} \ {None})]
  /\ guard' = [guard EXCEPT ![p] = [id |-> i, token |-> t, owned |-> TRUE]]
  /\ op' = [op EXCEPT ![p] = Idle]
  /\ UNCHANGED <<status, env, lock, disk>>

AttachGrant(p, t) ==
  LET i == op[p].id IN
  /\ lock = None
  /\ StillThere(p)
  /\ ~Active(rec[i].lease)
  /\ FreshToken(t)
  /\ rec' = [rec EXCEPT
       ![i].lease = [token |-> t, owner |-> p, children |-> {}],
       ![i].chats = @ \cup ({op[p].chat} \ {None})]
  /\ guard' = [guard EXCEPT ![p] = [id |-> i, token |-> t, owned |-> TRUE]]
  /\ op' = [op EXCEPT ![p] = Idle]
  /\ UNCHANGED <<status, env, lock, disk>>

AttachShare(p) ==
  LET i == op[p].id IN
  /\ lock = None
  /\ StillThere(p)
  /\ Active(rec[i].lease)
  /\ MayShare(p, rec[i].lease)
  /\ rec' = [rec EXCEPT ![i].chats = @ \cup ({op[p].chat} \ {None})]
  /\ guard' = [guard EXCEPT ![p] =
       [id |-> i, token |-> rec[i].lease.token, owned |-> FALSE]]
  /\ op' = [op EXCEPT ![p] = Idle]
  /\ UNCHANGED <<status, env, lock, disk>>

\* Mutant of AttachRefuse: a busy workspace is waited for, not refused.
AttachWait(p) ==
  /\ lock = None
  /\ op[p].kind = "attach"
  /\ ~StillThere(p)
  /\ op' = [op EXCEPT ![p] = Idle]
  /\ UNCHANGED <<status, env, guard, lock, rec, disk>>

\* The error returns of attach: nothing is saved.
AttachRefuse(p) ==
  /\ lock = None
  /\ op[p].kind = "attach"
  /\ \/ ~StillThere(p)
     \/ Active(rec[op[p].id].lease) /\ ~MayShare(p, rec[op[p].id].lease)
  /\ op' = [op EXCEPT ![p] = Idle]
  /\ UNCHANGED <<status, env, guard, lock, rec, disk>>

-----------------------------------------------------------------------------
(* Operations of a guard.                                                  *)

\* Mutant of TrackChild: any process is recorded as a child.
TrackStranger(p, c) ==
  LET i == guard[p].id IN
  /\ Ready(p) /\ guard[p] # NoGuard
  /\ lock = None
  /\ status[c] # "unborn"
  /\ rec[i].lease.token = guard[p].token
  /\ rec' = [rec EXCEPT ![i].lease.children = @ \cup {c}]
  /\ UNCHANGED <<status, env, guard, op, lock, disk>>

\* WorkspaceLease::track_child.  The child may exit before it is recorded.
TrackChild(p, c) ==
  LET i == guard[p].id IN
  /\ Ready(p) /\ guard[p] # NoGuard
  /\ lock = None
  /\ status[c] # "unborn"
  /\ rec[i].lease.token = guard[p].token
  /\ Descends(rec[i].lease.owner, c) \/ c \notin Alive
  /\ rec' = [rec EXCEPT ![i].lease.children = @ \cup {c}]
  /\ UNCHANGED <<status, env, guard, op, lock, disk>>

\* WorkspaceLease::register_native_home looks neither at the lease nor at
\* the tombstone.
RegisterNativeHome(p) ==
  /\ Ready(p) /\ guard[p] # NoGuard
  /\ lock = None
  /\ rec' = [rec EXCEPT ![guard[p].id].native = TRUE]
  /\ UNCHANGED <<status, env, guard, op, lock, disk>>

\* Mutant of Drop: a borrower's guard releases the lease as well.
DropBorrowed(p) ==
  LET i == guard[p].id IN
  /\ Ready(p) /\ guard[p] # NoGuard
  /\ lock = None
  /\ guard' = [guard EXCEPT ![p] = NoGuard]
  /\ rec' = IF rec[i].lease.token = guard[p].token
            THEN [rec EXCEPT ![i].lease = NoLease] ELSE rec
  /\ UNCHANGED <<status, env, op, lock, disk>>

\* Drop of a guard: Registry::release for an owner, nothing for a borrower.
\* `workspace _release --pid p` is the same release, made by a child for p.
Drop(p) ==
  LET i == guard[p].id IN
  /\ Ready(p) /\ guard[p] # NoGuard
  /\ guard' = [guard EXCEPT ![p] = NoGuard]
  /\ \/ ~guard[p].owned /\ UNCHANGED rec
     \/ /\ guard[p].owned /\ lock = None
        /\ rec' = IF rec[i].lease.token = guard[p].token /\ rec[i].lease.owner = p
                  THEN [rec EXCEPT ![i].lease = NoLease] ELSE rec
  /\ UNCHANGED <<status, env, op, lock, disk>>

-----------------------------------------------------------------------------
(* Creating and recovering.                                                *)

\* Mutant of CreateSnapshot: only the directory is looked for, not the record.
CreateOverRecord(p, n, i, m, changed) ==
  /\ Ready(p)
  /\ lock = None
  /\ ~disk[n].present
  /\ FreshId(i)
  /\ m # None => rec[m].state # "free"
  /\ disk' = [disk EXCEPT ![n] = [present |-> TRUE, vol |-> i, marker |-> m,
                                  dirty |-> changed, leased |-> FALSE]]
  /\ lock' = p
  /\ op' = [op EXCEPT ![p] = [Idle EXCEPT !.kind = "created", !.id = i, !.name = n]]
  /\ UNCHANGED <<status, env, guard, rec>>

\* create_source_with up to the snapshot.  m is the marker the snapshot copies
\* along: none from a plain project, the source's when a workspace is forked
\* or a checkpoint of one is recovered, removed or not.
CreateSnapshot(p, n, i, m, changed) ==
  /\ Ready(p)
  /\ lock = None
  /\ LiveNamed(n) = {}
  /\ ~disk[n].present
  /\ FreshId(i)
  /\ m # None => rec[m].state # "free"
  /\ disk' = [disk EXCEPT ![n] = [present |-> TRUE, vol |-> i, marker |-> m,
                                  dirty |-> changed, leased |-> FALSE]]
  /\ lock' = p
  /\ op' = [op EXCEPT ![p] = [Idle EXCEPT !.kind = "created", !.id = i, !.name = n]]
  /\ UNCHANGED <<status, env, guard, rec>>

\* Mutant of CreateMark: the record is saved while the copied marker stands.
CreateUnmarked(p) ==
  LET n == op[p].name IN
  /\ op[p].kind = "created"
  /\ disk[n].present
  /\ disk' = [disk EXCEPT ![n].vol = op[p].id]
  /\ op' = [op EXCEPT ![p].kind = "marked"]
  /\ UNCHANGED <<status, env, guard, lock, rec>>

\* Whatever stands at the destination by now is identified, and the marker
\* written into it.
CreateMark(p) ==
  LET n == op[p].name IN
  /\ op[p].kind = "created"
  /\ disk[n].present
  /\ disk' = [disk EXCEPT ![n].vol = op[p].id, ![n].marker = op[p].id]
  /\ op' = [op EXCEPT ![p].kind = "marked"]
  /\ UNCHANGED <<status, env, guard, lock, rec>>

\* The record is saved last and the lock released.
CreateSave(p) ==
  /\ op[p].kind = "marked"
  /\ rec' = [rec EXCEPT ![op[p].id] =
       [NoRecord EXCEPT !.state = "live", !.name = op[p].name]]
  /\ op' = [op EXCEPT ![p] = Idle]
  /\ lock' = None
  /\ UNCHANGED <<status, env, guard, disk>>

-----------------------------------------------------------------------------
(* Pinning and removing.                                                   *)

Pin(p, n, keep) ==
  /\ Ready(p)
  /\ lock = None
  /\ \E i \in LiveNamed(n) :
       /\ LiveNamed(n) = {i}
       /\ rec' = [rec EXCEPT ![i].pinned = keep]
  /\ UNCHANGED <<status, env, guard, op, lock, disk>>

\* What protects a record from removal.  An inspection that fails counts as
\* changed.
Protected(i, discard, detach) ==
  \/ Active(rec[i].lease)
  \/ rec[i].pinned
  \/ (disk[rec[i].name].dirty \/ ~Matches(i)) /\ ~discard
  \/ Linked(i) /\ ~detach

\* Mutant of RemoveCheck: the checks are made without taking the lock.
RemoveCheckUnlocked(p, n, discard, detach) ==
  /\ Ready(p)
  /\ \E i \in LiveNamed(n) :
       /\ LiveNamed(n) = {i}
       /\ ~Protected(i, discard, detach)
       /\ Matches(i)
       /\ op' = [op EXCEPT ![p] = [Idle EXCEPT !.kind = "remove", !.id = i,
                                     !.discard = discard, !.detach = detach]]
  /\ UNCHANGED <<status, env, guard, lock, rec, disk>>

\* remove_with under the lock, up to backend.validate.
RemoveCheck(p, n, discard, detach) ==
  /\ Ready(p)
  /\ lock = None
  /\ \E i \in LiveNamed(n) :
       /\ LiveNamed(n) = {i}
       /\ ~Protected(i, discard, detach)
       /\ Matches(i)
       /\ op' = [op EXCEPT ![p] = [Idle EXCEPT !.kind = "remove", !.id = i,
                                     !.discard = discard, !.detach = detach]]
  /\ lock' = p
  /\ UNCHANGED <<status, env, guard, rec, disk>>

\* backend.delete works on the path, whatever is there by now.
RemoveDelete(p) ==
  LET n == rec[op[p].id].name IN
  /\ op[p].kind = "remove"
  /\ disk[n].present
  /\ disk' = [disk EXCEPT ![n] = Absent]
  /\ op' = [op EXCEPT ![p].kind = "deleted"]
  /\ UNCHANGED <<status, env, guard, lock, rec>>

\* Mutant of RemoveSave: the tombstone forgets its chats.
RemoveSaveDetached(p) ==
  /\ op[p].kind = "deleted"
  /\ rec' = [rec EXCEPT ![op[p].id].state = "deleted", ![op[p].id].lease = NoLease,
                        ![op[p].id].chats = {}]
  /\ op' = [op EXCEPT ![p] = Idle]
  /\ lock' = None
  /\ UNCHANGED <<status, env, guard, disk>>

\* The tombstone keeps identity and chat links.
RemoveSave(p) ==
  /\ op[p].kind = "deleted"
  /\ rec' = [rec EXCEPT ![op[p].id].state = "deleted", ![op[p].id].lease = NoLease]
  /\ op' = [op EXCEPT ![p] = Idle]
  /\ lock' = None
  /\ UNCHANGED <<status, env, guard, disk>>

\* Any locked operation may fail part-way: btrfs, git or the save returns an
\* error, the function returns and its lock is dropped.
Fail(p) ==
  /\ op[p].kind \in Locked
  /\ op' = [op EXCEPT ![p] = Idle]
  /\ lock' = None
  /\ UNCHANGED <<status, env, guard, rec, disk>>

-----------------------------------------------------------------------------
(* The workspace directories, changed behind the registry's back.          *)

\* A process edits files of workspace i; leased marks work done by a process
\* the lease accounts for.
Edit(p, i) ==
  LET n == rec[i].name IN
  /\ p \in Alive
  /\ rec[i].state = "live" /\ Matches(i)
  /\ disk' = [disk EXCEPT ![n].dirty = TRUE,
                          ![n].leased = @ \/ p \in Users(rec[i].lease)]
  /\ UNCHANGED <<status, env, guard, op, lock, rec>>

\* The user deletes a directory, loses its marker, or puts another in place.
Tamper(n) ==
  /\ Tampering /\ disk[n].present
  /\ \/ disk' = [disk EXCEPT ![n] = Absent]
     \/ disk' = [disk EXCEPT ![n].marker = None]
     \/ disk' = [disk EXCEPT ![n].vol = None, ![n].leased = FALSE]
  /\ UNCHANGED <<status, env, guard, op, lock, rec>>

-----------------------------------------------------------------------------
ProcessStep(p) ==
  \/ Spawn(p) \/ Die(p) \/ Exec(p)
  \/ \E n \in Name, i \in Id, c \in Maybe(Thread) : AttachDiscover(p, n, i, c)
  \/ \E t \in Token : AttachGrant(p, t)
  \/ AttachShare(p) \/ AttachRefuse(p)
  \/ \E c \in Proc : TrackChild(p, c)
  \/ RegisterNativeHome(p) \/ Drop(p)
  \/ \E n \in Name, i \in Id, m \in Maybe(Id), changed \in BOOLEAN :
       CreateSnapshot(p, n, i, m, changed)
  \/ CreateMark(p) \/ CreateSave(p)
  \/ \E n \in Name, keep \in BOOLEAN : Pin(p, n, keep)
  \/ \E n \in Name, discard, detach \in BOOLEAN : RemoveCheck(p, n, discard, detach)
  \/ RemoveDelete(p) \/ RemoveSave(p) \/ Fail(p)
  \/ \E i \in Id : Edit(p, i)

Next == (\E p \in Proc : ProcessStep(p)) \/ (\E n \in Name : Tamper(n))

Spec == Init /\ [][Next]_vars

\* A process that is in the registry keeps running until it leaves or dies,
\* and flock wakes its waiters in order.
Settle(p) == (\E t \in Token : AttachGrant(p, t)) \/ AttachShare(p) \/ AttachRefuse(p)
Finish(p) ==
  CreateMark(p) \/ CreateSave(p) \/ RemoveDelete(p) \/ RemoveSave(p) \/ Fail(p)

Fairness == \A p \in Proc : SF_vars(Settle(p)) /\ WF_vars(Finish(p))

FairSpec == Spec /\ Fairness

-----------------------------------------------------------------------------
(* Properties.                                                             *)

\* A name means one workspace: two creations of one name, interleaved with
\* removals and crashes, never leave two records that are not deleted
\* (create_source_with's search, lookup's "ambiguous" error).
UniqueLiveName ==
  \A i, j \in Id :
    rec[i].state = "live" /\ rec[j].state = "live" /\ rec[i].name = rec[j].name
      => i = j

\* A chat belongs to one workspace for ever, so that Registry::chat never
\* finds conflicting links, whatever attaches race and records are removed.
UniqueChatLink ==
  \A i, j \in Id : rec[i].chats \cap rec[j].chats # {} => i = j

\* A guard that owns its lease can rely on it: as long as its process lives
\* the saved record is not removed and still carries that very lease
\* (WorkspaceLease promises it to the launch, no other process may undo it).
OwnerHoldsLease ==
  \A p \in Proc : guard[p].owned =>
    /\ rec[guard[p].id].state = "live"
    /\ rec[guard[p].id].lease.token = guard[p].token
    /\ rec[guard[p].id].lease.owner = p

\* One lease serves one process tree: whoever holds a guard with the current
\* token, and whoever lives among the tracked children, is the owner or was
\* spawned under it ("nested wrappers in one owning process tree can borrow").
OneTreePerLease ==
  \A i \in Id : LET lease == rec[i].lease IN
    \A p \in Proc :
      \/ guard[p].id = i /\ guard[p].token = lease.token
      \/ p \in lease.children /\ p \in Alive
      => p = lease.owner \/ lease.owner \in Ancestors[p]

\* Creation is crash-safe: the volume a record identifies never carries the
\* marker of another workspace, though a fork starts out as a copy of one.
RegisteredIsMarked ==
  \A i \in Id : rec[i].state = "live" /\ Matches(i)
    => disk[rec[i].name].marker \in {i, None}

\* The inductive invariant behind them.

\* The flock is held exactly through the steps of a locked operation.
LockInv == \A p \in Proc : op[p].kind \in Locked <=> lock = p

\* Only live processes are in the middle of anything.
QuietInv ==
  \A p \in Proc : status[p] # "alive" => op[p] = Idle /\ guard[p] = NoGuard

\* Leases stand on records that are not removed and on processes that ran.
RecordInv ==
  \A i \in Id :
    /\ rec[i].state = "free" => rec[i].chats = {}
    /\ rec[i].state # "free" => rec[i].name \in Name
    /\ rec[i].state # "live" => rec[i].lease = NoLease
    /\ \/ rec[i].lease = NoLease
       \/ rec[i].lease.token \in Token /\ rec[i].lease.owner \in Proc
    /\ \A p \in Users(rec[i].lease) : status[p] # "unborn"

GuardInv ==
  \A p \in Proc :
    \/ guard[p] = NoGuard
    \/ /\ guard[p].id \in Id /\ guard[p].token \in Token
       /\ rec[guard[p].id].state # "free"

\* What an operation found under the lock still holds while it has the lock.
OperationSound(p) ==
  LET i == op[p].id IN
  /\ op[p].kind \in {"created", "marked"} =>
       /\ op[p].name \in Name
       /\ rec[i].state = "free"
       /\ LiveNamed(op[p].name) = {}
  /\ op[p].kind = "marked" /\ disk[op[p].name].vol = i =>
       disk[op[p].name].marker \in {i, None}
  /\ op[p].kind \in {"remove", "deleted"} =>
       /\ rec[i].state = "live"
       /\ ~Active(rec[i].lease)
  /\ op[p].kind = "remove" =>
       /\ ~rec[i].pinned
       /\ Linked(i) => op[p].detach
       /\ disk[rec[i].name].leased => op[p].discard

OperationInv == \A p \in Proc : OperationSound(p)

\* Work of an accounted process shows up as a change.
DirectoryInv == \A n \in Name : disk[n].leased => disk[n].dirty

IInv ==
  /\ TypeOK /\ LockInv /\ QuietInv /\ RecordInv /\ GuardInv /\ OperationInv
  /\ DirectoryInv /\ UniqueLiveName /\ UniqueChatLink /\ OwnerHoldsLease /\ OneTreePerLease
  /\ RegisteredIsMarked

LeaseOnlyReturned ==
  \A i \in Id : LET lease == rec[i].lease IN
    Active(lease) /\ rec'[i].lease.token # lease.token =>
      /\ lease.owner \in Alive
      /\ guard[lease.owner].owned /\ guard[lease.owner].token = lease.token
      /\ guard'[lease.owner] = NoGuard

\* While the owner or a tracked child lives, a lease changes only when its
\* owner drops the guard that owns it (attach's busy check, release's token
\* and owner check, remove_with's active check).
LeaseIsStable == [][LeaseOnlyReturned]_vars

RemovesWhatItChecked ==
  \A p \in Proc : LET i == op[p].id IN
    op[p].kind = "remove" /\ op'[p].kind = "deleted" =>
      /\ ~Active(rec[i].lease)
      /\ ~rec[i].pinned
      /\ Linked(i) => op[p].detach
      /\ disk[rec[i].name].leased => op[p].discard

\* When a removal finally deletes, everything it checked still holds: nobody
\* attached, pinned or linked in between, and no work of an accounted process
\* goes without --discard-changes (remove_with under one lock).
RemovalSparesWork == [][RemovesWhatItChecked]_vars

HistoryGrows ==
  \A i \in Id :
    /\ rec[i].state = "deleted" => rec'[i].state = "deleted"
    /\ rec[i].state # "free" => rec'[i].name = rec[i].name
    /\ rec[i].chats \subseteq rec'[i].chats

\* History only grows: a tombstone is never revived or renamed, and a chat
\* keeps pointing at the workspace it was started in (remove_with's
\* tombstone, create_source_with's fresh identity).
TombstonesStay == [][HistoryGrows]_vars

\* Whoever waits to attach gets an answer (or dies), however busy the lock.
AttachIsAnswered ==
  \A p \in Proc : op[p].kind = "attach" ~> op[p].kind # "attach"

\* The registry implements the lease contract.
Contract == INSTANCE LeaseContract WITH
  holder <- [i \in Id |-> rec[i].lease.owner],
  users <- [i \in Id |-> Users(rec[i].lease)],
  retired <- {i \in Id : rec[i].state = "deleted"}

\* Every behaviour of the registry is a behaviour of the lease contract.
ImplementsContract == Contract!Spec
=============================================================================
