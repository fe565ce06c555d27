------------------------------ MODULE Checkpoints ------------------------------
(***************************************************************************)
(* Checkpoints of a workspace: sets of read-only Btrfs snapshots, made one  *)
(* after the other and described by a manifest. Sets are created, pinned and *)
(* pruned under the lock of the store (so that one operation at a time is    *)
(* enough), launches make one before the agent starts, and a recovery clones *)
(* one without the lock. Any operation can fail or be killed between two     *)
(* steps, and the user replaces subvolumes meanwhile.                        *)
(***************************************************************************)
EXTENDS CheckpointSets

CONSTANTS
    Approved,   \* roots the user has approved, as sequences of names
    Forbidden,  \* the user's home, /home and /
    Cwd,        \* directories an agent may be launched in
    MaxPruned,  \* the --limit of a prune
    MaxSets, MaxDays, MaxUuid, MaxHands,    \* bounds
    MaxBroken,  \* bound: incomplete sets that lie around when one is made
    None

VARIABLES
    uuids,      \* numbers in use so far; path and number make the uuid
    hands       \* pins, recoveries and changes by hand so far

vars == <<storeVars, uuids, hands>>

\* What the proofs assume of the constants.
Parameters == Approved \subseteq Places /\ KeepLast \in Nat /\ MinAge \in Nat

Policies == {"off", "auto", "required"}

\* `told` is the set that the environment of the launch names.
NoLaunch == [cwd |-> None, policy |-> "off", told |-> 0]

Idle == [step |-> "idle", id |-> 0, src |-> None, recursive |-> FALSE,
         launch |-> NoLaunch, plan |-> {}, late |-> {}]

NoClone == [id |-> 0, of |-> 0]

-------------------------------------------------------------------------------
(* What is approved *)

\* `from_env_for`: the root in the environment, or the deepest approved root
\* above the directory.
Chosen(given, cwd) ==
    LET above == {r \in Approved : IsPrefix(r, cwd)}
    IN  IF given # None THEN given
        ELSE IF above = {} THEN None
        ELSE CHOOSE r \in above : \A q \in above : Len(q) <= Len(r)

\* `validated_config`: never a whole home.
Allowed(root) == root \in Approved \ Forbidden

\* `discovery::descendants`
Descendants(root) == {n \in Places : volume[n] # 0 /\ IsStrictPrefix(root, n)}

\* Mutant of Uncovered: nested subvolumes count as part of the root.
UncoveredNever(root, recursive, cwd) == FALSE

\* Whether the directory is in a subvolume that the set would leave out.
Uncovered(root, recursive, cwd) ==
    ~ recursive /\ \E n \in Descendants(root) : IsPrefix(n, cwd)

Sources(root, recursive) == {root} \cup (IF recursive THEN Descendants(root) ELSE {})

-------------------------------------------------------------------------------
(* Manifests *)

\* A member names the subvolume it is of; the snapshot may be of another one.
NoMember == [uuid |-> 0, known |-> FALSE, disk |-> "none", of |-> 0]

Manifest(root, recursive) ==
    [root |-> root, day |-> day, manifest |-> FALSE, complete |-> FALSE, pinned |-> FALSE,
     members |-> [p \in Places |->
        IF p \in Sources(root, recursive) THEN [NoMember EXCEPT !.uuid = volume[p]] ELSE NoMember]]

\* Mutant of Candidates: incomplete sets count among those kept.
CandidatesOfAll(root) ==
    {id \in Listed(root) :
        /\ sets[id].complete /\ ~ sets[id].pinned
        /\ Cardinality({q \in Listed(root) : q > id}) >= KeepLast
        /\ day - sets[id].day >= MinAge}

\* The sets a prune may delete.
Candidates(root) ==
    {id \in Listed(root) :
        /\ sets[id].complete /\ ~ sets[id].pinned
        /\ Cardinality(Newer(id)) >= KeepLast
        /\ day - sets[id].day >= MinAge}

\* Of more than the limit, the newest ones.
Planned(root) ==
    {id \in Candidates(root) : Cardinality({q \in Candidates(root) : q > id}) < MaxPruned}

\* Mutant of Deletable: it is enough that every member was recorded.
DeletableRecorded(s) == \A p \in Members(s) : s.members[p].known

\* Every member is the read-only snapshot that was recorded.
Deletable(s) == \A p \in Members(s) : s.members[p].known /\ s.members[p].disk = "read-only"

-------------------------------------------------------------------------------
(* Launches *)

\* Mutant of Told: what the launch was told itself is left in the environment.
ToldInherited(launch, id) == IF id = 0 THEN launch.told ELSE id

\* `configure_command`: an agent is told of the set of its own launch, or of none.
Told(launch, id) == id

\* `policy_error`: an operation ends with an error. What is on disk stays, and the
\* agent starts all the same unless its launch requires a checkpoint.
Failed ==
    /\ job' = Idle
    /\ informed' = IF job.launch.policy = "auto" THEN Told(job.launch, 0) ELSE informed

-------------------------------------------------------------------------------
Init ==
    /\ volume \in [Places -> 0..1] /\ \A r \in Approved : volume[r] = 1
    /\ uuids = 1 /\ day = 0
    /\ sets = <<>> /\ job = Idle
    /\ informed = 0 /\ clone = NoClone
    /\ completed = {} /\ hands = 0

\* `sets::create` up to the first manifest: lock, members with their uuids, directory.
Begin(root, recursive, launch) ==
    /\ job = Idle
    /\ Len(sets) < MaxSets /\ Cardinality({id \in Ids : ~ sets[id].complete}) <= MaxBroken
    /\ Allowed(root) /\ volume[root] # 0
    /\ sets' = Append(sets, Manifest(root, recursive))
    /\ job' = [Idle EXCEPT !.step = "describe", !.id = Len(sets) + 1,
                           !.recursive = recursive, !.launch = launch]
    /\ UNCHANGED <<volume, uuids, day, informed, clone, completed, hands>>

\* The create command.
Create(root, recursive) == Begin(root, recursive, NoLaunch)

\* A launch inherits the environment of a shell, or of an agent of any time.
Inherited == {0} \cup completed

\* `prepare_launch` with a checkpoint, ...
Launch(launch, given, recursive) ==
    LET root == Chosen(given, launch.cwd)
    IN  /\ launch.policy # "off" /\ root # None
        /\ IsPrefix(root, launch.cwd) /\ ~ Uncovered(root, recursive, launch.cwd)
        /\ Begin(root, recursive, launch)

\* ... and without: it is off, there is no approved root around, or something
\* fails before there is a set, and the policy does not require one.
LaunchWithout(launch) ==
    /\ job = Idle /\ launch.policy # "required"
    /\ informed' = Told(launch, 0)
    /\ UNCHANGED <<volume, uuids, day, sets, job, clone, completed, hands>>

\* The first manifest, which says that nothing is there yet.
Describe ==
    /\ job.step = "describe"
    /\ sets' = [sets EXCEPT ![job.id].manifest = TRUE]
    /\ job' = [job EXCEPT !.step = "take"]
    /\ UNCHANGED <<volume, uuids, day, informed, clone, completed, hands>>

Remaining == {p \in Members(sets[job.id]) : ~ sets[job.id].members[p].known}

\* The source of the next member is inspected, the outer ones first, ...
Inspect(p) ==
    /\ job.step = "take" /\ p \in Remaining
    /\ \A q \in Remaining : ~ IsStrictPrefix(q, p)
    /\ IF volume[p] = sets[job.id].members[p].uuid
       THEN job' = [job EXCEPT !.step = "snap", !.src = p] /\ UNCHANGED informed
       ELSE Failed
    /\ UNCHANGED <<volume, uuids, day, sets, clone, completed, hands>>

\* ... the snapshot taken of whatever is there now, ...
Snap ==
    /\ job.step = "snap"
    /\ IF volume[job.src] # 0
       THEN /\ sets' = [sets EXCEPT ![job.id].members[job.src] =
                           [@ EXCEPT !.disk = "read-only", !.of = volume[job.src]]]
            /\ job' = [job EXCEPT !.step = "record"]
            /\ UNCHANGED informed
       ELSE Failed /\ UNCHANGED sets
    /\ UNCHANGED <<volume, uuids, day, clone, completed, hands>>

\* ... and recorded in the manifest.
Record ==
    /\ job.step = "record"
    /\ sets' = [sets EXCEPT ![job.id].members[job.src].known = TRUE]
    /\ job' = [job EXCEPT !.step = "take", !.src = None]
    /\ UNCHANGED <<volume, uuids, day, informed, clone, completed, hands>>

\* Mutant of Unchanged: the paths of the members are compared.
UnchangedPaths(s) == job.recursive => Sources(s.root, TRUE) = Members(s)

\* The members are still the subvolumes of the root, and the same ones.
Unchanged(s) ==
    /\ job.recursive => Sources(s.root, TRUE) = Members(s)
    /\ \A p \in Members(s) : volume[p] = s.members[p].uuid

Check ==
    /\ job.step = "take" /\ Remaining = {}
    /\ IF Unchanged(sets[job.id])
       THEN /\ job' = [job EXCEPT !.step = "complete",
                                  !.late = IF job.recursive THEN {} ELSE @ \ Members(sets[job.id])]
            /\ UNCHANGED informed
       ELSE Failed
    /\ UNCHANGED <<volume, uuids, day, sets, clone, completed, hands>>

\* The last manifest. A launch starts its agent then, if it is not killed.
CompleteSet ==
    /\ job.step = "complete"
    /\ sets' = [sets EXCEPT ![job.id].complete = TRUE]
    /\ completed' = completed \cup {job.id}
    /\ job' = Idle
    /\ \/ job.launch.cwd # None /\ informed' = Told(job.launch, job.id)
       \/ UNCHANGED informed
    /\ UNCHANGED <<volume, uuids, day, clone, hands>>

\* `pin`, with and without --unpin.
Pin(id, pinned) ==
    /\ job = Idle /\ hands < MaxHands /\ hands' = hands + 1
    /\ sets[id].manifest
    /\ sets' = [sets EXCEPT ![id].pinned = pinned]
    /\ UNCHANGED <<volume, uuids, day, job, informed, clone, completed>>

\* `prune_with_backend` with --apply: every set that is planned is checked before
\* anything is deleted.
Prune(root) ==
    /\ job = Idle /\ Allowed(root)
    /\ Planned(root) # {} /\ \A id \in Planned(root) : Deletable(sets[id])
    /\ job' = [Idle EXCEPT !.step = "mark", !.plan = Planned(root)]
    /\ UNCHANGED <<volume, uuids, day, sets, informed, clone, completed, hands>>

\* The newest first. The manifest says so from the first deletion on.
Mark(id) ==
    /\ job.step = "mark"
    /\ id \in job.plan /\ \A q \in job.plan : q <= id
    /\ sets' = [sets EXCEPT ![id].complete = FALSE]
    /\ job' = [job EXCEPT !.step = "delete", !.id = id]
    /\ UNCHANGED <<volume, uuids, day, informed, clone, completed, hands>>

OnDisk(s) == {p \in Places : s.members[p].disk # "none"}

Delete(p) ==
    /\ job.step = "delete" /\ p \in OnDisk(sets[job.id])
    /\ sets' = [sets EXCEPT ![job.id].members[p].disk = "none"]
    /\ UNCHANGED <<volume, uuids, day, job, informed, clone, completed, hands>>

DeleteSet ==
    /\ job.step = "delete" /\ OnDisk(sets[job.id]) = {}
    /\ sets' = [sets EXCEPT ![job.id].manifest = FALSE]
    /\ job' = IF job.plan = {job.id} THEN Idle
              ELSE [job EXCEPT !.step = "mark", !.id = 0, !.plan = @ \ {job.id}]
    /\ UNCHANGED <<volume, uuids, day, informed, clone, completed, hands>>

\* A step fails, ...
Abort ==
    /\ job # Idle /\ Failed
    /\ UNCHANGED <<volume, uuids, day, sets, clone, completed, hands>>

\* ... or the process is killed. The lock is released.
Die ==
    /\ job # Idle /\ job' = Idle
    /\ UNCHANGED <<volume, uuids, day, sets, informed, clone, completed, hands>>

-------------------------------------------------------------------------------
(* Recovery *)

\* Mutant of Recoverable: incomplete sets are accepted.
RecoverableAny(s) ==
    /\ s.manifest /\ Members(s) = {s.root}
    /\ s.members[s.root].known /\ s.members[s.root].disk = "read-only"
    /\ volume[s.root] \in {0, s.members[s.root].uuid}

\* A set with the root alone, whose snapshot is the recorded one and whose project
\* is gone or still the same.
Recoverable(s) ==
    /\ s.manifest /\ s.complete /\ Members(s) = {s.root}
    /\ s.members[s.root].known /\ s.members[s.root].disk = "read-only"
    /\ volume[s.root] \in {0, s.members[s.root].uuid}

\* `recover` checks the set without the lock of the store, ...
RecoverCheck(id) ==
    /\ hands < MaxHands /\ hands' = hands + 1
    /\ clone.id = 0 \/ clone.of # 0
    /\ Allowed(sets[id].root) /\ Recoverable(sets[id])
    /\ clone' = [id |-> id, of |-> 0]
    /\ UNCHANGED <<volume, uuids, day, sets, job, informed, completed>>

\* ... and clones its snapshot later, if it is still there.
RecoverClone ==
    /\ clone.id # 0 /\ clone.of = 0
    /\ LET root == sets[clone.id].root
       IN  clone' = IF root \in OnDisk(sets[clone.id])
                    THEN [clone EXCEPT !.of = sets[clone.id].members[root].of]
                    ELSE NoClone
    /\ UNCHANGED <<volume, uuids, day, sets, job, informed, completed, hands>>

-------------------------------------------------------------------------------
(* The world around *)

\* Subvolumes around the directory of the launch under way.
Watched(p) == job.launch.cwd # None /\ IsPrefix(p, job.launch.cwd)

\* The user makes and removes subvolumes while a set is made, before each step
\* that looks at them or starts an agent; before other steps it makes no difference.
\* (That a subvolume is moved away and later put back is left out.)
Nest(p) ==
    /\ job.step \in {"take", "snap", "complete"}
    /\ volume[p] = 0 => uuids < MaxUuid
    /\ volume' = [volume EXCEPT ![p] = IF @ = 0 THEN uuids + 1 ELSE 0]
    /\ uuids' = IF volume[p] = 0 THEN uuids + 1 ELSE uuids
    /\ job' = [job EXCEPT !.late = @ \cup {q \in {p} : Watched(q)}]
    /\ UNCHANGED <<day, sets, informed, clone, completed, hands>>

\* The snapshot of a root is made writable by hand, which takes no lock: before a
\* prune looks at it, or after. While a set is made it makes no difference.
Thaw(id) ==
    /\ job.step \in {"idle", "mark", "delete"}
    /\ hands < MaxHands /\ hands' = hands + 1
    /\ sets[id].members[sets[id].root].disk = "read-only"
    /\ sets' = [sets EXCEPT ![id].members[sets[id].root].disk = "writable"]
    /\ job' = [job EXCEPT !.late = @ \cup (job.plan \cap {id})]
    /\ UNCHANGED <<volume, uuids, day, informed, clone, completed>>

\* Days pass between operations: they count when a set is begun and a prune planned.
Tick ==
    /\ job = Idle /\ day < MaxDays /\ day' = day + 1
    /\ UNCHANGED <<volume, uuids, sets, job, informed, clone, completed, hands>>

Next ==
    \/ \E root \in Approved, recursive \in BOOLEAN : Create(root, recursive)
    \/ job = Idle /\ \E launch \in [cwd : Cwd, policy : Policies, told : Inherited] :
          \/ \E given \in Approved \cup {None}, recursive \in BOOLEAN :
                Launch(launch, given, recursive)
          \/ LaunchWithout(launch)
    \/ Describe
    \/ \E p \in Places : Inspect(p)
    \/ Snap \/ Record \/ Check \/ CompleteSet
    \/ \E id \in Ids, pinned \in BOOLEAN : Pin(id, pinned)
    \/ \E root \in Approved : Prune(root)
    \/ \E id \in job.plan : Mark(id)
    \/ \E p \in Places : Delete(p)
    \/ DeleteSet \/ Abort \/ Die
    \/ \E id \in Ids : RecoverCheck(id) \/ Thaw(id)
    \/ RecoverClone
    \/ \E p \in Places \ Forbidden : Nest(p)
    \/ Tick

Spec == Init /\ [][Next]_vars

===============================================================================
