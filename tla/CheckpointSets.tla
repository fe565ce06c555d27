---------------------------- MODULE CheckpointSets ----------------------------
(***************************************************************************)
(* The store of checkpoints: sets of snapshots with their manifests, and    *)
(* what the operations of Checkpoints on it promise.                        *)
(***************************************************************************)
EXTENDS Integers, Sequences, FiniteSets, SequencesExt

CONSTANTS
    Places,     \* where subvolumes are or may come to be, as sequences of names
    KeepLast,   \* sets a prune keeps at least (3 in the code)
    MinAge      \* and their age in days (7 in the code)

VARIABLES
    volume,     \* path -> number of the subvolume there; 0 if there is none
    day,
    sets,       \* the sets of the store, in the order they were created
    job,        \* what the process does that has the lock of the store; `late` is
                \* what was changed by hand since it looked: subvolumes around the
                \* directory of its launch, or sets it is about to delete
    informed,   \* the set that the agent started last was told of; 0 if none
    clone,      \* what the recovery under way, or the last one, has cloned
    completed   \* sets that were completed once

storeVars == <<volume, day, sets, job, informed, clone, completed>>

Ids == DOMAIN sets

Members(s) == {p \in Places : s.members[p].uuid # 0}

\* `list`: sets of one root that have a manifest.
Listed(root) == {id \in Ids : sets[id].manifest /\ sets[id].root = root}

\* The complete sets of the same root that are newer.
Newer(id) == {q \in Listed(sets[id].root) : sets[q].complete /\ q > id}

-------------------------------------------------------------------------------
(* Properties *)

\* A set whose manifest says complete is whole, at every moment and whatever was
\* interrupted: every member is on disk and recorded, and is a snapshot of the
\* very subvolume the manifest names, although it may have been replaced between
\* the inspection and the snapshot. So a recovery, which does not take the lock,
\* never clones anything else, whatever a prune does to the set meanwhile.
CompleteIsWhole ==
    /\ \A id \in Ids : sets[id].complete =>
          /\ sets[id].manifest
          /\ \A p \in Members(sets[id]) :
                LET m == sets[id].members[p]
                IN  m.known /\ m.disk # "none" /\ m.of = m.uuid
    /\ clone.of # 0 => clone.of = sets[clone.id].members[sets[clone.id].root].uuid

\* However often sets are made, pinned and pruned, and wherever that is
\* interrupted, the newest KeepLast sets of a root that were ever completed are
\* still there.
NewestRemain ==
    \A id \in completed :
        \/ sets[id].complete
        \/ Cardinality({q \in completed : /\ sets[q].root = sets[id].root /\ q > id
                                          /\ sets[q].complete}) >= KeepLast

\* The set has every subvolume between its root and the directory, as it is now,
\* but for those that came or went after the process had looked.
Covers(s, cwd, late) ==
    /\ s.root \in Members(s) /\ IsPrefix(s.root, cwd)
    /\ \A p \in Places \ late :
          (volume[p] # 0 /\ (p = s.root \/ IsStrictPrefix(s.root, p)) /\ IsPrefix(p, cwd)) =>
              p \in Members(s) /\ s.members[p].of = volume[p]

\* An agent whose launch requires a checkpoint never starts without one, whatever
\* fails and whoever is killed; and the set an agent is told of was completed for
\* it and covers the directory it works in, although subvolumes come and go until
\* the set is complete and the launch may inherit the root and the set of another.
\* What changes around the directory after it was looked at is excepted: the
\* members are compared again just before the manifest says complete, but whether
\* a set of the root alone leaves out the directory is asked once, at the start.
Covered ==
    informed' # informed =>
        /\ job.launch.policy = "required" => informed' # 0
        /\ informed' # 0 => /\ informed' \in completed' \ completed
                         /\ Covers(sets'[informed'], job.launch.cwd, job.late)
LaunchIsCovered == [][Covered]_storeVars

\* A prune deletes what it has planned and nothing else: no snapshot goes that is
\* pinned, too young, or of a set among the newest of its root, nor one that was
\* writable when the prune looked. A set that is refused spares all others. One
\* that is made writable after that look is deleted all the same.
Spares ==
    \A id \in Ids : \A p \in Places :
          (sets[id].members[p].disk # "none" /\ sets'[id].members[p].disk = "none") =>
              /\ sets[id].members[p].disk = "writable" => id \in job.late
              /\ ~ sets[id].pinned /\ day - sets[id].day >= MinAge
              /\ Cardinality(Newer(id)) >= KeepLast
              /\ job.step = "delete" /\ job.id = id
PruneSpares == [][Spares]_storeVars
===============================================================================
