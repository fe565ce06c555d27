--------------------------- MODULE CheckpointsProofs ---------------------------
(***************************************************************************)
(* Proofs about Checkpoints, for any number of roots, sets and nested        *)
(* subvolumes, and any retention.                                            *)
(***************************************************************************)
EXTENDS Checkpoints, FiniteSetTheorems, TLAPS

(* Types *)

Member == [uuid : Nat, known : BOOLEAN, disk : {"none", "read-only", "writable"}, of : Nat]

Set == [root : Places, day : Nat, manifest : BOOLEAN, complete : BOOLEAN,
        pinned : BOOLEAN, members : [Places -> Member]]

Making == {"describe", "take", "snap", "record", "complete"}
Pruning == {"mark", "delete"}

Job == [step : {"idle"} \cup Making \cup Pruning, id : Nat, src : Places \cup {None},
        recursive : BOOLEAN, launch : [cwd : Cwd \cup {None}, policy : Policies, told : Nat],
        plan : SUBSET Nat, late : SUBSET (Places \cup Nat)]

TypeOK ==
    /\ volume \in [Places -> Nat] /\ uuids \in Nat /\ day \in Nat
    /\ sets \in Seq(Set) /\ job \in Job
    /\ informed \in Nat /\ clone \in [id : Nat, of : Nat]
    /\ completed \in SUBSET Nat /\ hands \in Nat

(* The inductive invariant *)

\* What the process with the lock may be at, and that it holds a set of its own.
JobIsSound ==
    /\ job.step = "idle" => job = Idle
    /\ job.step \in Making =>
          /\ job.id \in Ids \ completed /\ ~ sets[job.id].complete /\ job.plan = {}
          /\ job.step # "describe" => sets[job.id].manifest
          /\ job.step \in {"snap", "record"} => job.src \in Members(sets[job.id])
          /\ job.step = "record" => sets[job.id].members[job.src].disk # "none"
    /\ job.step \in Pruning => job.launch = NoLaunch
    /\ job.step = "delete" => job.id \in job.plan /\ ~ sets[job.id].complete

\* Numbers are not used again, and every member has one.
NumbersAreFresh ==
    /\ \A p \in Places : volume[p] <= uuids
    /\ \A id \in Ids : /\ sets[id].root \in Members(sets[id])
                       /\ \A p \in Places : LET m == sets[id].members[p] IN
                             m.uuid <= uuids /\ (m.disk # "none" => m.uuid # 0)

\* A snapshot of another subvolume than the one named: that one is gone for good.
SnapshotsAreTraced ==
    job.step \in Making => \A p \in Members(sets[job.id]) :
        LET m == sets[job.id].members[p]
        IN  /\ m.known => m.disk # "none"
            /\ m.disk # "none" => m.of = m.uuid \/ volume[p] # m.uuid
            /\ job.step = "complete" => m.known /\ m.of = m.uuid

\* Sets that were completed once, whatever happened to them since.
CompletedAreTraced ==
    /\ completed \subseteq Ids
    /\ \A id \in completed : \A p \in Members(sets[id]) :
          sets[id].members[p].of = sets[id].members[p].uuid
    /\ \A id \in Ids : sets[id].complete =>
          /\ id \in completed /\ sets[id].manifest
          /\ \A p \in Members(sets[id]) :
                sets[id].members[p].known /\ sets[id].members[p].disk # "none"
    /\ clone.id # 0 => clone.id \in completed
    /\ clone.of # 0 => clone.id # 0 /\ clone.of = sets[clone.id].members[sets[clone.id].root].uuid

\* Sets that are gone, and those that a prune will delete, have enough newer ones.
NewerRemain ==
    /\ \A id \in completed : sets[id].complete \/ Cardinality(Newer(id)) >= KeepLast
    /\ \A id \in job.plan :
          /\ id \in Ids /\ ~ sets[id].pinned /\ day - sets[id].day >= MinAge
          /\ Cardinality(Newer(id)) >= KeepLast
          /\ \A p \in Places : sets[id].members[p].disk = "writable" => id \in job.late

\* Subvolumes around the directory that a set of the root alone leaves out.
LeftOut(root, cwd, late) ==
    \E n \in Places \ late : volume[n] # 0 /\ IsStrictPrefix(root, n) /\ IsPrefix(n, cwd)

\* A launch is within the root of its set, outside every subvolume that is left
\* out until its members are compared, but for those that came later; and covered
\* by what the set has when it is about to be completed, with the same exception.
LaunchIsSound ==
    (job.step \in Making /\ job.launch.cwd # None) =>
        /\ IsPrefix(sets[job.id].root, job.launch.cwd)
        /\ job.step = "complete" \/ job.recursive
              \/ ~ LeftOut(sets[job.id].root, job.launch.cwd, job.late)
        /\ job.step = "complete" => Covers(sets[job.id], job.launch.cwd, job.late)

IInv == /\ TypeOK /\ JobIsSound /\ NumbersAreFresh /\ SnapshotsAreTraced
        /\ CompletedAreTraced /\ NewerRemain /\ LaunchIsSound

-------------------------------------------------------------------------------
(* Lemmas *)

\* What the types say of one set.
LEMMA OneSet ==
    ASSUME TypeOK, NEW id \in Ids
    PROVE  /\ Ids = 1 .. Len(sets) /\ sets[id] \in Set
           /\ sets[id].members \in [Places -> Member]
           /\ \A p \in Places : sets[id].members[p] \in Member
<1>1. Ids = 1 .. Len(sets) /\ sets[id] \in Set
  BY DEF TypeOK, Ids
<1>2. sets[id].members \in [Places -> Member]
  BY <1>1 DEF Set
<1> QED
  BY <1>1, <1>2

LEMMA OneJob ==
    ASSUME TypeOK
    PROVE  /\ job = [step |-> job.step, id |-> job.id, src |-> job.src, recursive |-> job.recursive,
                     launch |-> job.launch, plan |-> job.plan, late |-> job.late]
           /\ job.step \in {"idle"} \cup Making \cup Pruning
           /\ job.id \in Nat /\ job.plan \subseteq Nat /\ job.recursive \in BOOLEAN
           /\ job.src \in Places \cup {None}
           /\ job.launch \in [cwd : Cwd \cup {None}, policy : Policies, told : Nat]
BY DEF TypeOK, Job

LEMMA LateTyped == ASSUME TypeOK PROVE job.late \subseteq Places \cup Nat
BY DEF TypeOK, Job

\* A step that replaces one set.
LEMMA OneReplaced ==
    ASSUME TypeOK, NEW id \in Ids, NEW s \in Set, sets' = [sets EXCEPT ![id] = s]
    PROVE  /\ sets' \in Seq(Set) /\ Ids' = Ids
           /\ sets'[id] = s /\ \A q \in Ids \ {id} : sets'[q] = sets[q]
BY DEF TypeOK, Ids

\* What happens to a member.
LEMMA MemberChanged ==
    ASSUME NEW m \in Member, NEW of \in Nat
    PROVE  /\ [m EXCEPT !.disk = "none"] \in Member /\ [m EXCEPT !.disk = "writable"] \in Member
           /\ [m EXCEPT !.disk = "read-only", !.of = of] \in Member
           /\ [m EXCEPT !.known = TRUE] \in Member
BY DEF Member

\* A step that replaces one member of one set.
LEMMA MemberReplaced ==
    ASSUME TypeOK, NEW id \in Ids, NEW p \in Places, NEW m \in Member,
           sets' = [sets EXCEPT ![id].members[p] = m]
    PROVE  /\ sets' \in Seq(Set) /\ Ids' = Ids
           /\ \A q \in Ids :
                 /\ sets'[q].root = sets[q].root /\ sets'[q].day = sets[q].day
                 /\ sets'[q].manifest = sets[q].manifest /\ sets'[q].complete = sets[q].complete
                 /\ sets'[q].pinned = sets[q].pinned
                 /\ \A r \in Places : sets'[q].members[r] =
                        IF q = id /\ r = p THEN m ELSE sets[q].members[r]
<1> DEFINE s == sets[id]
           t == [s EXCEPT !.members = [s.members EXCEPT ![p] = m]]
<1>1. s \in Set /\ s.members \in [Places -> Member]
  BY OneSet
<1>2. [s.members EXCEPT ![p] = m] \in [Places -> Member]
  BY <1>1
<1>3. t \in Set
  BY <1>1, <1>2 DEF Set
<1>4. sets' = [sets EXCEPT ![id] = t]
  BY <1>1 DEF Set
<1>5. /\ sets' \in Seq(Set) /\ Ids' = Ids
      /\ sets'[id] = t /\ \A q \in Ids \ {id} : sets'[q] = sets[q]
  BY <1>3, <1>4, OneReplaced
<1>6. /\ t.root = s.root /\ t.day = s.day /\ t.manifest = s.manifest
      /\ t.complete = s.complete /\ t.pinned = s.pinned
      /\ \A r \in Places : t.members[r] = IF r = p THEN m ELSE s.members[r]
  BY <1>1 DEF Set
<1> HIDE DEF t
<1>7. ASSUME NEW q \in Ids
      PROVE  /\ sets'[q].root = sets[q].root /\ sets'[q].day = sets[q].day
             /\ sets'[q].manifest = sets[q].manifest /\ sets'[q].complete = sets[q].complete
             /\ sets'[q].pinned = sets[q].pinned
             /\ \A r \in Places : sets'[q].members[r] =
                    IF q = id /\ r = p THEN m ELSE sets[q].members[r]
  <2>1. CASE q = id
    <3>1. sets'[q] = t /\ s = sets[q]
      BY <1>5, <2>1
    <3> QED
      BY <1>6, <2>1, <3>1
  <2>2. CASE q # id
    <3>1. sets'[q] = sets[q]
      BY <1>5, <2>2
    <3> QED
      BY <2>2, <3>1
  <2> QED
    BY <2>1, <2>2
<1> QED
  BY <1>5, <1>7

\* Idle is a job.
LEMMA IdleJob == Idle \in Job /\ NoLaunch \in [cwd : Cwd \cup {None}, policy : Policies, told : Nat]
BY DEF Idle, Job, NoLaunch, Policies

\* The newer sets of a set are finitely many, and more of them count for more.
LEMMA FewerNewer ==
    ASSUME NEW n \in Nat, NEW S \in SUBSET (1 .. n), NEW T \in SUBSET S
    PROVE  /\ IsFiniteSet(S) /\ Cardinality(S) \in Nat /\ Cardinality(T) \in Nat
           /\ Cardinality(T) <= Cardinality(S)
<1>1. IsFiniteSet(1 .. n)
  BY FS_Interval
<1> QED
  BY <1>1, FS_Subset, FS_CardinalityType

-------------------------------------------------------------------------------
(* Types *)

LEMMA InitTyped == Init => TypeOK
BY IdleJob DEF Init, TypeOK, NoClone

LEMMA ManifestTyped ==
    ASSUME Parameters, TypeOK, NEW root \in Approved, NEW recursive \in BOOLEAN
    PROVE  Manifest(root, recursive) \in Set
BY DEF Parameters, TypeOK, Manifest, Set, Member, NoMember

LEMMA StepTyped == ASSUME Parameters PROVE IInv /\ [Next]_vars => TypeOK'
<1> SUFFICES ASSUME TypeOK, JobIsSound, CompletedAreTraced, NewerRemain, [Next]_vars
             PROVE  TypeOK'
  BY DEF IInv
<1> USE IdleJob, OneJob
<1>0. Failed => job' \in Job /\ informed' \in Nat
  BY DEF Failed, TypeOK, Told
<1>1. ASSUME NEW root \in Approved, NEW recursive \in BOOLEAN, 
             NEW launch \in [cwd : Cwd \cup {None}, policy : Policies, told : Nat],
             Begin(root, recursive, launch)
      PROVE  TypeOK'
  <2>1. sets' \in Seq(Set)
    BY <1>1, ManifestTyped DEF Begin, TypeOK
  <2>2. job' \in Job
    <3>1. job' = [step |-> "describe", id |-> Len(sets) + 1, src |-> None,
                  recursive |-> recursive, launch |-> launch, plan |-> {}, late |-> {}]
      BY <1>1 DEF Begin, Idle
    <3>2. Len(sets) \in Nat
      BY DEF TypeOK
    <3> QED
      BY <3>1, <3>2 DEF Job, Making
  <2> QED
    BY <1>1, <2>1, <2>2 DEF Begin, TypeOK
<1>2. ASSUME NEW root \in Approved, NEW recursive \in BOOLEAN, Create(root, recursive)
      PROVE  TypeOK'
  BY <1>1, <1>2 DEF Create
<1>3. ASSUME NEW launch \in [cwd : Cwd, policy : Policies, told : Inherited]
      PROVE  /\ \A given \in Approved \cup {None}, recursive \in BOOLEAN : Launch(launch, given, recursive) => TypeOK'
             /\ LaunchWithout(launch) => TypeOK'
  <2>1. launch \in [cwd : Cwd \cup {None}, policy : Policies, told : Nat]
    BY DEF Inherited, TypeOK
  <2>2. ASSUME NEW given \in Approved \cup {None}, NEW recursive \in BOOLEAN, Launch(launch, given, recursive)
        PROVE  TypeOK'
    <3>1. Begin(Chosen(given, launch.cwd), recursive, launch)
      BY <2>2 DEF Launch
    <3> QED
      BY <1>1, <2>1, <3>1 DEF Begin, Allowed
  <2>3. ASSUME LaunchWithout(launch) PROVE TypeOK'
    BY <2>3 DEF LaunchWithout, TypeOK, Told
  <2> QED
    BY <2>2, <2>3
<1>4. ASSUME Describe PROVE TypeOK'
  <2>1. job.id \in Ids
    BY <1>4 DEF Describe, JobIsSound, Making
  <2>2. [sets[job.id] EXCEPT !.manifest = TRUE] \in Set
    BY <2>1, OneSet DEF Set
  <2>3. sets' \in Seq(Set)
    BY <1>4, <2>1, <2>2, OneReplaced DEF Describe
  <2> QED
    BY <1>4, <2>3 DEF Describe, TypeOK, Job, Making
<1>5. ASSUME NEW p \in Places, Inspect(p) PROVE TypeOK'
  <2>1. job' \in Job /\ informed' \in Nat
    <3>1. CASE Failed
      BY <1>0, <3>1
    <3>2. CASE job' = [job EXCEPT !.step = "snap", !.src = p] /\ UNCHANGED informed
      BY <3>2 DEF TypeOK, Job, Making
    <3> QED
      BY <1>5, <3>1, <3>2 DEF Inspect
  <2> QED
    BY <1>5, <2>1 DEF Inspect, TypeOK
<1>6. ASSUME Snap PROVE TypeOK'
  <2>1. job.id \in Ids /\ job.src \in Places
    BY <1>6 DEF Snap, JobIsSound, Making, Members
  <2>2. CASE Failed /\ UNCHANGED sets
    BY <1>0, <1>6, <2>2 DEF Snap, TypeOK
  <2>3. CASE ~ (Failed /\ UNCHANGED sets)
    <3> DEFINE m == [sets[job.id].members[job.src] EXCEPT !.disk = "read-only", !.of = volume[job.src]]
    <3>1. m \in Member
      BY <2>1, OneSet, MemberChanged DEF TypeOK
    <3>2. sets' = [sets EXCEPT ![job.id].members[job.src] = m]
      BY <1>6, <2>3 DEF Snap
    <3>3. sets' \in Seq(Set)
      BY <2>1, <3>1, <3>2, MemberReplaced
    <3>4. job' \in Job
      <4>1. job' = [job EXCEPT !.step = "record"] /\ job \in Job
        BY <1>6, <2>3 DEF Snap, TypeOK
      <4> QED
        BY ONLY <4>1 DEF Job, Making
    <3> QED
      BY <1>6, <2>3, <3>3, <3>4 DEF Snap, TypeOK
  <2> QED
    BY <2>2, <2>3
<1>7. ASSUME Record PROVE TypeOK'
  <2>1. job.id \in Ids /\ job.src \in Places
    BY <1>7 DEF Record, JobIsSound, Making, Members
  <2>2. [sets[job.id].members[job.src] EXCEPT !.known = TRUE] \in Member
    BY <2>1, OneSet, MemberChanged
  <2>3. sets' \in Seq(Set)
    BY <1>7, <2>1, <2>2, MemberReplaced DEF Record
  <2>4. job' \in Job
    BY <1>7 DEF Record, TypeOK, Job, Making
  <2> QED
    BY <1>7, <2>3, <2>4 DEF Record, TypeOK
<1>8. ASSUME Check PROVE TypeOK'
  <2>1. job' \in Job /\ informed' \in Nat
    <3>1. CASE Failed
      BY <1>0, <3>1
    <3>2. CASE ~ Failed
      <4> DEFINE late == IF job.recursive THEN {} ELSE job.late \ Members(sets[job.id])
      <4>1. job' = [job EXCEPT !.step = "complete", !.late = late] /\ UNCHANGED informed
        BY <1>8, <3>2 DEF Check
      <4>2. late \subseteq Places \cup Nat
        BY LateTyped
      <4> HIDE DEF late
      <4> QED
        BY <4>1, <4>2 DEF TypeOK, Job, Making
    <3> QED
      BY <3>1, <3>2
  <2> QED
    BY <1>8, <2>1 DEF Check, TypeOK
<1>9. ASSUME CompleteSet PROVE TypeOK'
  <2>1. job.id \in Ids
    BY <1>9 DEF CompleteSet, JobIsSound, Making
  <2>2. [sets[job.id] EXCEPT !.complete = TRUE] \in Set
    BY <2>1, OneSet DEF Set
  <2>3. sets' \in Seq(Set)
    BY <1>9, <2>1, <2>2, OneReplaced DEF CompleteSet
  <2> QED
    BY <1>9, <2>3 DEF CompleteSet, TypeOK, Told
<1>10. ASSUME NEW id \in Ids, NEW pinned \in BOOLEAN, Pin(id, pinned) PROVE TypeOK'
  <2>1. [sets[id] EXCEPT !.pinned = pinned] \in Set
    BY OneSet DEF Set
  <2>2. sets' \in Seq(Set)
    BY <1>10, <2>1, OneReplaced DEF Pin
  <2> QED
    BY <1>10, <2>2 DEF Pin, TypeOK
<1>11. ASSUME NEW root \in Approved, Prune(root) PROVE TypeOK'
  <2>1. Planned(root) \subseteq Nat
    BY DEF Planned, Candidates, Listed, Ids, TypeOK
  <2>2. job' \in Job
    BY <1>11, <2>1 DEF Prune, Idle, Job, Pruning, NoLaunch, Policies
  <2> QED
    BY <1>11, <2>2 DEF Prune, TypeOK
<1>12. ASSUME NEW id \in job.plan, Mark(id) PROVE TypeOK'
  <2>0. id \in Ids
    BY DEF NewerRemain
  <2>1. [sets[id] EXCEPT !.complete = FALSE] \in Set
    BY <2>0, OneSet DEF Set
  <2>2. sets' \in Seq(Set)
    BY <1>12, <2>0, <2>1, OneReplaced DEF Mark
  <2>3. job' \in Job
    BY <1>12 DEF Mark, TypeOK, Job, Pruning
  <2> QED
    BY <1>12, <2>2, <2>3 DEF Mark, TypeOK
<1>13. ASSUME NEW p \in Places, Delete(p) PROVE TypeOK'
  <2>0. job.id \in Ids
    BY <1>13 DEF Delete, JobIsSound, NewerRemain
  <2>1. [sets[job.id].members[p] EXCEPT !.disk = "none"] \in Member
    BY <2>0, OneSet, MemberChanged
  <2>2. sets' \in Seq(Set)
    BY <1>13, <2>0, <2>1, MemberReplaced DEF Delete
  <2> QED
    BY <1>13, <2>2 DEF Delete, TypeOK
<1>14. ASSUME DeleteSet PROVE TypeOK'
  <2>0. job.id \in Ids
    BY <1>14 DEF DeleteSet, JobIsSound, NewerRemain
  <2>1. [sets[job.id] EXCEPT !.manifest = FALSE] \in Set
    BY <2>0, OneSet DEF Set
  <2>2. sets' \in Seq(Set)
    BY <1>14, <2>0, <2>1, OneReplaced DEF DeleteSet
  <2>3. job' \in Job
    BY <1>14 DEF DeleteSet, TypeOK, Job, Pruning
  <2> QED
    BY <1>14, <2>2, <2>3 DEF DeleteSet, TypeOK
<1>15. ASSUME Abort \/ Die PROVE TypeOK'
  BY <1>0, <1>15 DEF Abort, Die, TypeOK
<1>16. ASSUME NEW id \in Ids, RecoverCheck(id) PROVE TypeOK'
  BY <1>16 DEF RecoverCheck, TypeOK, Ids
<1>17. ASSUME RecoverClone PROVE TypeOK'
  <2>0. clone.id \in Ids
    BY <1>17 DEF RecoverClone, CompletedAreTraced
  <2>1. sets[clone.id].root \in Places
    BY <2>0, OneSet DEF Set
  <2>2. sets[clone.id].members[sets[clone.id].root].of \in Nat
    BY <2>0, <2>1, OneSet DEF Member
  <2>3. clone' \in [id : Nat, of : Nat]
    BY <1>17, <2>2 DEF RecoverClone, TypeOK, NoClone
  <2> QED
    BY <1>17, <2>3 DEF RecoverClone, TypeOK
<1>18. ASSUME NEW p \in Places, Nest(p) PROVE TypeOK'
  <2>1. job' \in Job
    <3> DEFINE late == job.late \cup {q \in {p} : Watched(q)}
    <3>1. job' = [job EXCEPT !.late = late] /\ late \subseteq Places \cup Nat
      BY <1>18, LateTyped DEF Nest
    <3> HIDE DEF late
    <3> QED
      BY <3>1 DEF TypeOK, Job
  <2> QED
    BY <1>18, <2>1 DEF Nest, TypeOK
<1>19. ASSUME NEW id \in Ids, Thaw(id) PROVE TypeOK'
  <2>1. sets[id].root \in Places
    BY OneSet DEF Set
  <2>2. [sets[id].members[sets[id].root] EXCEPT !.disk = "writable"] \in Member
    BY <2>1, OneSet, MemberChanged
  <2>3. sets' \in Seq(Set)
    BY <1>19, <2>1, <2>2, MemberReplaced DEF Thaw
  <2>4. job' \in Job
    <3> DEFINE late == job.late \cup (job.plan \cap {id})
    <3>1. job' = [job EXCEPT !.late = late] /\ late \subseteq Places \cup Nat
      BY <1>19, LateTyped DEF Thaw
    <3> HIDE DEF late
    <3> QED
      BY <3>1 DEF TypeOK, Job
  <2> QED
    BY <1>19, <2>3, <2>4 DEF Thaw, TypeOK
<1>20. ASSUME Tick PROVE TypeOK'
  BY <1>20 DEF Tick, TypeOK
<1>21. ASSUME UNCHANGED vars PROVE TypeOK'
  BY <1>21 DEF vars, storeVars, TypeOK
<1> QED
  BY <1>2, <1>3, <1>4, <1>5, <1>6, <1>7, <1>8, <1>9, <1>10, <1>11, <1>12, <1>13, <1>14, <1>15,
     <1>16, <1>17, <1>18, <1>19, <1>20, <1>21
  DEF Next

-------------------------------------------------------------------------------
(* The inductive invariant, step by step *)

LEMMA InitInvariant == Init => IInv
<1> SUFFICES ASSUME Init PROVE IInv
  OBVIOUS
<1>1. TypeOK
  BY InitTyped
<1>2. Ids = {} /\ job = Idle /\ clone = NoClone /\ completed = {}
  BY DEF Init, Ids
<1>3. JobIsSound /\ SnapshotsAreTraced /\ LaunchIsSound
  BY <1>2 DEF JobIsSound, SnapshotsAreTraced, LaunchIsSound, Idle, Making, Pruning
<1>4. NumbersAreFresh
  BY <1>2 DEF NumbersAreFresh, Init
<1>5. CompletedAreTraced /\ NewerRemain
  BY <1>2 DEF CompletedAreTraced, NewerRemain, Idle, NoClone
<1> QED
  BY <1>1, <1>3, <1>4, <1>5 DEF IInv

\* The lock is released, and nothing on disk changes.
LEMMA EndKeeps ==
    ASSUME IInv, TypeOK', job' = Idle, UNCHANGED <<volume, uuids, day, sets, clone, completed>>
    PROVE  IInv'
<1>1. JobIsSound' /\ SnapshotsAreTraced' /\ LaunchIsSound'
  BY DEF JobIsSound, SnapshotsAreTraced, LaunchIsSound, Idle, Making, Pruning
<1>2. NumbersAreFresh' /\ CompletedAreTraced'
  BY DEF IInv, NumbersAreFresh, CompletedAreTraced, Ids, Members
<1>3. NewerRemain'
  BY DEF IInv, NewerRemain, Newer, Listed, Ids, Idle
<1> QED
  BY <1>1, <1>2, <1>3 DEF IInv

\* A step that is not the business of the sets or of the process with the lock.
LEMMA AsideKeeps ==
    ASSUME Parameters, IInv, TypeOK', UNCHANGED <<volume, uuids, sets, job, completed>>, day <= day',
           clone' = clone \/ (clone'.id # 0 => clone'.id \in completed
                               /\ clone'.of \in {0, sets[clone'.id].members[sets[clone'.id].root].uuid}),
           clone'.of # 0 => clone'.id # 0
    PROVE  IInv'
<1>1. JobIsSound' /\ SnapshotsAreTraced' /\ NumbersAreFresh'
  BY DEF IInv, JobIsSound, SnapshotsAreTraced, NumbersAreFresh, Ids, Members
<1>2. LaunchIsSound'
  BY DEF IInv, LaunchIsSound, LeftOut, Covers, Members
<1>3. CompletedAreTraced'
  BY DEF IInv, CompletedAreTraced, Ids, Members
<1>4. NewerRemain'
  <2>1. ASSUME NEW id \in job.plan
        PROVE  day' - sets[id].day >= MinAge
    <3>1. id \in Ids /\ day - sets[id].day >= MinAge
      BY DEF IInv, NewerRemain
    <3>2. sets[id].day \in Nat /\ day \in Nat /\ day' \in Nat /\ MinAge \in Nat
      BY <3>1, OneSet DEF IInv, Set, TypeOK, Parameters
    <3> QED
      BY <3>1, <3>2
  <2> QED
    BY <2>1 DEF IInv, NewerRemain, Newer, Listed, Ids
<1> QED
  BY <1>1, <1>2, <1>3, <1>4 DEF IInv

LEMMA LaunchWithoutKeeps ==
    ASSUME Parameters, IInv, TypeOK', NEW launch, LaunchWithout(launch)
    PROVE  IInv'
<1>1. day <= day'
  BY DEF LaunchWithout, IInv, TypeOK
<1>2. clone.of # 0 => clone.id # 0
  BY DEF IInv, CompletedAreTraced
<1> QED
  BY <1>1, <1>2, AsideKeeps DEF LaunchWithout

LEMMA TickKeeps == ASSUME Parameters, IInv, TypeOK', Tick PROVE IInv'
<1>1. day <= day'
  BY DEF Tick, IInv, TypeOK
<1>2. clone.of # 0 => clone.id # 0
  BY DEF IInv, CompletedAreTraced
<1> QED
  BY <1>1, <1>2, AsideKeeps DEF Tick

LEMMA RecoveryKeeps ==
    ASSUME Parameters, IInv, TypeOK', (\E id \in Ids : RecoverCheck(id)) \/ RecoverClone
    PROVE  IInv'
<1>1. day <= day' /\ UNCHANGED <<volume, uuids, sets, job, completed>>
  BY DEF RecoverCheck, RecoverClone, IInv, TypeOK
<1>2. /\ clone'.id # 0 => clone'.id \in completed
                        /\ clone'.of \in {0, sets[clone'.id].members[sets[clone'.id].root].uuid}
      /\ clone'.of # 0 => clone'.id # 0
  <2>1. ASSUME NEW id \in Ids, RecoverCheck(id) PROVE <1>2
    <3>1. clone'.id = id /\ clone'.of = 0 /\ sets[id].complete
      BY <2>1 DEF RecoverCheck, Recoverable
    <3> QED
      BY <3>1 DEF IInv, CompletedAreTraced
  <2>2. ASSUME RecoverClone PROVE <1>2
    <3> DEFINE root == sets[clone.id].root
    <3>1. clone.id \in completed /\ clone.id \in Ids /\ clone.id # 0
      BY <2>2 DEF RecoverClone, IInv, CompletedAreTraced
    <3>2. root \in Members(sets[clone.id])
      BY <3>1 DEF IInv, NumbersAreFresh
    <3>3. sets[clone.id].members[root].of = sets[clone.id].members[root].uuid
      BY <3>1, <3>2 DEF IInv, CompletedAreTraced
    <3>4. clone' = [clone EXCEPT !.of = sets[clone.id].members[root].of] \/ clone' = NoClone
      BY <2>2 DEF RecoverClone
    <3>5. clone \in [id : Nat, of : Nat]
      BY DEF IInv, TypeOK
    <3> QED
      BY <3>1, <3>3, <3>4, <3>5 DEF NoClone
  <2> QED
    BY <2>1, <2>2
<1> QED
  BY <1>1, <1>2, AsideKeeps

LEMMA PruneKeeps ==
    ASSUME Parameters, IInv, TypeOK', NEW root \in Approved, Prune(root)
    PROVE  IInv'
<1>1. /\ UNCHANGED <<volume, uuids, day, sets, clone, completed>>
      /\ job.step = "idle" /\ job'.step = "mark" /\ job'.launch = NoLaunch /\ job'.plan = Planned(root)
  BY DEF Prune, Idle
<1>2. JobIsSound' /\ SnapshotsAreTraced' /\ LaunchIsSound'
  BY <1>1 DEF JobIsSound, SnapshotsAreTraced, LaunchIsSound, Making, Pruning
<1>3. NumbersAreFresh' /\ CompletedAreTraced'
  BY <1>1 DEF IInv, NumbersAreFresh, CompletedAreTraced, Ids, Members
<1>4. ASSUME NEW id \in Planned(root)
      PROVE  /\ id \in Ids /\ ~ sets[id].pinned /\ day - sets[id].day >= MinAge
             /\ Cardinality(Newer(id)) >= KeepLast
             /\ \A p \in Places : sets[id].members[p].disk # "writable"
  <2>1. id \in Candidates(root) /\ id \in Ids
    BY <1>4 DEF Planned, Candidates, Listed
  <2>2. Deletable(sets[id])
    BY <1>4 DEF Prune
  <2>3. \A p \in Places : sets[id].members[p].disk # "none" => p \in Members(sets[id])
    BY <2>1 DEF IInv, NumbersAreFresh, Members
  <2>4. \A p \in Places : sets[id].members[p].disk # "writable"
    BY <2>2, <2>3 DEF Deletable
  <2> QED
    BY <2>1, <2>4 DEF Candidates
<1>5. NewerRemain'
  BY <1>1, <1>4 DEF IInv, NewerRemain, Newer, Listed, Ids
<1> QED
  BY <1>2, <1>3, <1>5 DEF IInv

LEMMA InspectKeeps ==
    ASSUME IInv, TypeOK', NEW p \in Places, Inspect(p)
    PROVE  IInv'
<1>1. CASE Failed
  BY <1>1, EndKeeps DEF Inspect, Failed
<1>2. CASE ~ Failed
  <2>1. /\ UNCHANGED <<volume, uuids, day, sets, clone, completed>>
        /\ job.step = "take" /\ job' = [job EXCEPT !.step = "snap", !.src = p]
        /\ p \in Members(sets[job.id])
    BY <1>2 DEF Inspect, Remaining
  <2>2. /\ job'.step = "snap" /\ job'.src = p /\ job'.id = job.id /\ job'.plan = job.plan
        /\ job'.recursive = job.recursive /\ job'.launch = job.launch /\ job'.late = job.late
    BY <2>1, OneJob DEF IInv
  <2>3. JobIsSound'
    BY <2>1, <2>2 DEF IInv, JobIsSound, Making, Pruning, Ids, Members
  <2>4. SnapshotsAreTraced' /\ LaunchIsSound'
    BY <2>1, <2>2 DEF IInv, SnapshotsAreTraced, LaunchIsSound, Making, Members, LeftOut
  <2>5. NumbersAreFresh' /\ CompletedAreTraced'
    BY <2>1 DEF IInv, NumbersAreFresh, CompletedAreTraced, Ids, Members
  <2>6. NewerRemain'
    BY <2>1, <2>2 DEF IInv, NewerRemain, Newer, Listed, Ids
  <2> QED
    BY <2>3, <2>4, <2>5, <2>6 DEF IInv
<1> QED
  BY <1>1, <1>2

LEMMA CheckKeeps == ASSUME IInv, TypeOK', Check PROVE IInv'
<1>1. CASE Failed
  BY <1>1, EndKeeps DEF Check, Failed
<1>2. CASE ~ Failed
  <2> DEFINE s == sets[job.id]
             late == IF job.recursive THEN {} ELSE job.late \ Members(s)
  <2>1. /\ UNCHANGED <<volume, uuids, day, sets, clone, completed>>
        /\ job.step = "take" /\ job' = [job EXCEPT !.step = "complete", !.late = late]
        /\ Unchanged(s) /\ Remaining = {}
    BY <1>2 DEF Check
  <2>2. /\ job'.step = "complete" /\ job'.id = job.id /\ job'.plan = job.plan
        /\ job'.recursive = job.recursive /\ job'.launch = job.launch /\ job'.late = late
    BY <2>1, OneJob DEF IInv
  <2>3. job.id \in Ids /\ job.step \in Making
    BY <2>1 DEF IInv, JobIsSound, Making
  <2>4. \A p \in Members(s) : /\ s.members[p].known /\ s.members[p].of = s.members[p].uuid
                              /\ volume[p] = s.members[p].uuid
    BY <2>1, <2>3 DEF Remaining, Unchanged, IInv, SnapshotsAreTraced
  <2>5. JobIsSound'
    BY <2>1, <2>2 DEF IInv, JobIsSound, Making, Pruning, Ids, Members
  <2>6. SnapshotsAreTraced'
    BY <2>1, <2>2, <2>3, <2>4 DEF IInv, SnapshotsAreTraced, Making, Members
  <2>7. LaunchIsSound'
    <3>1. SUFFICES ASSUME job.launch.cwd # None
          PROVE  LaunchIsSound'
      BY <2>2 DEF LaunchIsSound
    <3>2. /\ IsPrefix(s.root, job.launch.cwd)
          /\ job.recursive \/ ~ LeftOut(s.root, job.launch.cwd, job.late)
          /\ s.root \in Members(s)
      BY <2>1, <2>3, <3>1 DEF IInv, LaunchIsSound, NumbersAreFresh
    <3>3. ASSUME NEW p \in Places \ late, volume[p] # 0, p = s.root \/ IsStrictPrefix(s.root, p),
                 IsPrefix(p, job.launch.cwd)
          PROVE  p \in Members(s)
      <4>1. CASE job.recursive
        BY <2>1, <3>3, <4>1 DEF Unchanged, Sources, Descendants
      <4>2. CASE ~ job.recursive
        BY <3>2, <3>3, <4>2 DEF LeftOut
      <4> QED
        BY <4>1, <4>2
    <3>4. Covers(s, job.launch.cwd, late)
      BY <2>4, <3>2, <3>3 DEF Covers
    <3>5. Covers(sets[job.id], job.launch.cwd, job.late)'
      BY <2>1, <2>2, <3>4 DEF Covers, Members
    <3>6. job'.launch = job.launch /\ job'.id = job.id /\ job'.step = "complete"
          /\ sets'[job'.id].root = s.root
      BY <2>1, <2>2
    <3> QED
      BY <3>2, <3>5, <3>6 DEF LaunchIsSound
  <2> HIDE DEF late
  <2>8. NumbersAreFresh' /\ CompletedAreTraced'
    BY <2>1 DEF IInv, NumbersAreFresh, CompletedAreTraced, Ids, Members
  <2>9. NewerRemain'
    <3>1. job'.plan = {}
      BY <2>2, <2>3 DEF IInv, JobIsSound
    <3> QED
      BY <2>1, <3>1 DEF IInv, NewerRemain, Newer, Listed, Ids
  <2> QED
    BY <2>5, <2>6, <2>7, <2>8, <2>9 DEF IInv
<1> QED
  BY <1>1, <1>2

LEMMA NestKeeps ==
    ASSUME IInv, TypeOK', NEW p \in Places, Nest(p)
    PROVE  IInv'
<1> DEFINE number == IF volume[p] = 0 THEN uuids + 1 ELSE 0
<1>1. /\ UNCHANGED <<day, sets, clone, completed>>
      /\ volume \in [Places -> Nat] /\ uuids \in Nat
      /\ volume' = [volume EXCEPT ![p] = number]
      /\ uuids' = IF volume[p] = 0 THEN uuids + 1 ELSE uuids
  BY DEF Nest, IInv, TypeOK
<1>0. /\ job'.step = job.step /\ job'.id = job.id /\ job'.src = job.src
      /\ job'.recursive = job.recursive /\ job'.launch = job.launch /\ job'.plan = job.plan
      /\ job'.late = job.late \cup {q \in {p} : Watched(q)} /\ job.step # "idle"
  BY OneJob DEF Nest, IInv
<1>2. /\ volume'[p] = number /\ \A q \in Places \ {p} : volume'[q] = volume[q]
      /\ uuids <= uuids' /\ number \in Nat /\ number <= uuids' /\ (number # 0 => number > uuids)
  BY <1>1
<1> HIDE DEF number
<1>3. JobIsSound' /\ CompletedAreTraced'
  BY <1>0, <1>1 DEF IInv, JobIsSound, CompletedAreTraced, Ids, Members
<1>4. NewerRemain'
  BY <1>0, <1>1 DEF IInv, NewerRemain, Newer, Listed, Ids
<1>5. NumbersAreFresh'
  <2>1. \A q \in Places : volume'[q] <= uuids'
    <3>1. SUFFICES ASSUME NEW q \in Places PROVE volume'[q] <= uuids'
      OBVIOUS
    <3>2. volume[q] \in Nat /\ volume[q] <= uuids /\ uuids' \in Nat
      BY <1>1 DEF IInv, NumbersAreFresh, TypeOK
    <3> QED
      BY <1>1, <1>2, <3>2
  <2>2. ASSUME NEW id \in Ids, NEW q \in Places
        PROVE  sets[id].members[q].uuid <= uuids'
    <3>1. sets[id].members[q].uuid <= uuids /\ sets[id].members[q].uuid \in Nat
      BY OneSet DEF IInv, NumbersAreFresh, Member
    <3>2. uuids' \in Nat
      BY DEF TypeOK
    <3> QED
      BY <1>1, <1>2, <3>1, <3>2
  <2> QED
    BY <1>1, <2>1, <2>2 DEF IInv, NumbersAreFresh, Ids, Members
<1>6. SnapshotsAreTraced'
  <2>1. SUFFICES ASSUME job.step \in Making, NEW q \in Members(sets[job.id])
        PROVE  (LET m == sets[job.id].members[q]
                IN  /\ m.known => m.disk # "none"
                    /\ m.disk # "none" => m.of = m.uuid \/ volume[q] # m.uuid
                    /\ job.step = "complete" => m.known /\ m.of = m.uuid)'
    BY <1>0, <1>1 DEF SnapshotsAreTraced, Members
  <2> DEFINE m == sets[job.id].members[q]
  <2>2. job.id \in Ids /\ q \in Places /\ m.uuid # 0
    BY <2>1 DEF IInv, JobIsSound, Members
  <2>3. m.uuid <= uuids /\ m.uuid \in Nat
    BY <2>2, OneSet DEF IInv, NumbersAreFresh, Member
  <2>4. volume'[q] = m.uuid => volume[q] = m.uuid
    BY <1>1, <1>2, <2>2, <2>3
  <2>5. /\ m.known => m.disk # "none"
        /\ m.disk # "none" => m.of = m.uuid \/ volume[q] # m.uuid
        /\ job.step = "complete" => m.known /\ m.of = m.uuid
    BY <2>1 DEF IInv, SnapshotsAreTraced
  <2> QED
    BY <1>0, <1>1, <2>4, <2>5
<1>7. LaunchIsSound'
  <2>1. SUFFICES ASSUME job.step \in Making, job.launch.cwd # None
        PROVE  LaunchIsSound'
    BY <1>0 DEF LaunchIsSound
  <2>2. /\ IsPrefix(sets[job.id].root, job.launch.cwd)
        /\ job.step = "complete" \/ job.recursive
              \/ ~ LeftOut(sets[job.id].root, job.launch.cwd, job.late)
        /\ job.step = "complete" => Covers(sets[job.id], job.launch.cwd, job.late)
    BY <2>1 DEF IInv, LaunchIsSound
  <2>3. ASSUME NEW q \in Places \ job'.late, IsPrefix(q, job.launch.cwd)
        PROVE  q \notin job.late /\ volume'[q] = volume[q]
    <3>1. q # p
      BY <1>0, <2>1, <2>3 DEF Watched
    <3> QED
      BY <1>0, <1>2, <2>3, <3>1
  <2>4. LeftOut(sets[job.id].root, job.launch.cwd, job.late)'
           => LeftOut(sets[job.id].root, job.launch.cwd, job.late)
    BY <1>0, <1>1, <2>3 DEF LeftOut
  <2>5. Covers(sets[job.id], job.launch.cwd, job.late)
           => Covers(sets[job.id], job.launch.cwd, job.late)'
    BY <1>0, <1>1, <2>3 DEF Covers, Members
  <2> QED
    BY <1>0, <1>1, <2>2, <2>4, <2>5 DEF LaunchIsSound
<1> QED
  BY <1>3, <1>4, <1>5, <1>6, <1>7 DEF IInv

\* As long as no complete set becomes incomplete, no set loses newer ones.
LEMMA NewerGrow ==
    ASSUME Parameters, IInv, TypeOK', Ids \subseteq Ids',
           \A q \in Ids : sets'[q].root = sets[q].root,
           \A q \in Ids : sets[q].complete => sets'[q].complete /\ sets'[q].manifest,
           NEW id \in Ids, Cardinality(Newer(id)) >= KeepLast
    PROVE  Cardinality(Newer(id)') >= KeepLast
<1>1. Newer(id) \subseteq Newer(id)'
  BY DEF Newer, Listed, Ids
<1>2. Newer(id)' \subseteq 1 .. Len(sets') /\ Len(sets') \in Nat
  <2>1. sets' \in Seq(Set)
    BY DEF TypeOK
  <2>2. Ids' = 1 .. Len(sets') /\ Len(sets') \in Nat
    BY <2>1 DEF Ids
  <2> QED
    BY <2>2 DEF Newer, Listed
<1>3. /\ Cardinality(Newer(id)) \in Nat /\ Cardinality(Newer(id)') \in Nat
      /\ Cardinality(Newer(id)) <= Cardinality(Newer(id)')
  BY <1>1, <1>2, FewerNewer
<1> QED
  BY <1>3 DEF Parameters

LEMMA BeginKeeps ==
    ASSUME Parameters, IInv, TypeOK', NEW root \in Approved, NEW recursive \in BOOLEAN,
           NEW launch \in [cwd : Cwd \cup {None}, policy : Policies, told : Nat],
           Begin(root, recursive, launch),
           launch.cwd # None => /\ IsPrefix(root, launch.cwd)
                                /\ ~ Uncovered(root, recursive, launch.cwd)
    PROVE  IInv'
<1> DEFINE new == Len(sets) + 1
           s == Manifest(root, recursive)
<1>1. /\ UNCHANGED <<volume, uuids, day, informed, clone, completed>>
      /\ sets' = Append(sets, s) /\ volume[root] # 0
      /\ job'.step = "describe" /\ job'.id = new /\ job'.recursive = recursive
      /\ job'.launch = launch /\ job'.plan = {}
  BY DEF Begin, Idle
<1>2. /\ Ids' = Ids \cup {new} /\ new \notin Ids /\ sets'[new] = s
      /\ \A q \in Ids : sets'[q] = sets[q]
  <2>1. sets \in Seq(Set) /\ s \in Set
    BY ManifestTyped DEF IInv, TypeOK
  <2> HIDE DEF s
  <2> QED
    BY <1>1, <2>1 DEF Ids
<1>3. /\ s.root = root /\ s.complete = FALSE /\ root \in Places
      /\ \A p \in Places : /\ s.members[p].uuid \in {0, volume[p]}
                           /\ s.members[p].disk = "none" /\ s.members[p].known = FALSE
      /\ s.members[root].uuid = volume[root]
  <2>1. \A p \in Places : s.members[p] = IF p \in Sources(root, recursive)
                                         THEN [NoMember EXCEPT !.uuid = volume[p]] ELSE NoMember
    BY DEF Manifest
  <2>2. root \in Sources(root, recursive) /\ root \in Places
    BY DEF Sources, Parameters
  <2>3. s.root = root /\ s.complete = FALSE
    BY DEF Manifest
  <2>4. \A u : /\ [NoMember EXCEPT !.uuid = u].uuid = u
                /\ [NoMember EXCEPT !.uuid = u].disk = "none"
                /\ [NoMember EXCEPT !.uuid = u].known = FALSE
    BY DEF NoMember
  <2>5. NoMember.uuid = 0 /\ NoMember.disk = "none" /\ NoMember.known = FALSE
    BY DEF NoMember
  <2> HIDE DEF s
  <2>6. ASSUME NEW p \in Places
        PROVE  /\ s.members[p].uuid \in {0, volume[p]}
               /\ s.members[p].disk = "none" /\ s.members[p].known = FALSE
    <3>1. CASE p \in Sources(root, recursive)
      BY <2>1, <2>4, <3>1
    <3>2. CASE p \notin Sources(root, recursive)
      BY <2>1, <2>5, <3>2
    <3> QED
      BY <3>1, <3>2
  <2>7. s.members[root].uuid = volume[root]
    BY <2>1, <2>2, <2>4
  <2> QED
    BY <2>2, <2>3, <2>6, <2>7
<1> HIDE DEF s, new
<1>4. completed \subseteq Ids
  BY DEF IInv, CompletedAreTraced
<1>5. JobIsSound'
  <2>1. job'.id \in Ids' \ completed' /\ sets'[job'.id].complete = FALSE
    BY <1>1, <1>2, <1>3, <1>4
  <2> QED
    BY <1>1, <2>1 DEF JobIsSound, Making, Pruning
<1>6. NumbersAreFresh'
  <2>1. uuids \in Nat /\ \A p \in Places : volume[p] <= uuids
    BY DEF IInv, TypeOK, NumbersAreFresh
  <2>2. /\ s.root \in Members(s)
        /\ \A p \in Places : s.members[p].uuid <= uuids /\ s.members[p].disk = "none"
    BY <1>1, <1>3, <2>1 DEF Members
  <2>3. ASSUME NEW q \in Ids'
        PROVE  /\ sets'[q].root \in Members(sets'[q])
               /\ \A p \in Places : LET m == sets'[q].members[p] IN
                     m.uuid <= uuids /\ (m.disk # "none" => m.uuid # 0)
    <3>1. CASE q = new
      BY <1>2, <2>2, <3>1
    <3>2. CASE q \in Ids
      BY <1>2, <3>2 DEF IInv, NumbersAreFresh
    <3> QED
      BY <1>2, <3>1, <3>2
  <2> QED
    BY <1>1, <2>1, <2>3 DEF NumbersAreFresh, Members
<1>7. SnapshotsAreTraced'
  <2>1. sets'[job'.id] = s
    BY <1>1, <1>2
  <2> QED
    BY <1>1, <1>3, <2>1 DEF SnapshotsAreTraced, Members
<1>8. CompletedAreTraced'
  <2>1. \A id \in completed : sets'[id] = sets[id]
    BY <1>2, <1>4
  <2>2. ASSUME NEW id \in Ids', sets'[id].complete
        PROVE  /\ id \in completed /\ sets'[id].manifest
               /\ \A p \in Members(sets'[id]) :
                     sets'[id].members[p].known /\ sets'[id].members[p].disk # "none"
    <3>1. id \in Ids /\ sets'[id] = sets[id]
      BY <1>2, <1>3, <2>2
    <3> QED
      BY <2>2, <3>1 DEF IInv, CompletedAreTraced
  <2>3. ASSUME NEW id \in completed, NEW p \in Members(sets'[id])
        PROVE  sets'[id].members[p].of = sets'[id].members[p].uuid
    BY <2>1, <2>3 DEF IInv, CompletedAreTraced
  <2>4. clone.of # 0 => clone.of = sets'[clone.id].members[sets'[clone.id].root].uuid
    BY <2>1 DEF IInv, CompletedAreTraced
  <2>5. completed \subseteq Ids' /\ (clone.id # 0 => clone.id \in completed)
        /\ (clone.of # 0 => clone.id # 0)
    BY <1>2, <1>4 DEF IInv, CompletedAreTraced
  <2> QED
    BY <1>1, <2>2, <2>3, <2>4, <2>5 DEF CompletedAreTraced, Members
<1>9. NewerRemain'
  <2>1. \A q \in Ids : sets[q].complete => sets'[q].complete /\ sets'[q].manifest
    BY <1>2 DEF IInv, CompletedAreTraced
  <2>2. \A q \in Ids : sets'[q].root = sets[q].root
    BY <1>2
  <2>3. ASSUME NEW id \in Ids, Cardinality(Newer(id)) >= KeepLast
        PROVE  Cardinality(Newer(id)') >= KeepLast
    BY <1>2, <2>1, <2>2, <2>3, NewerGrow
  <2> QED
    BY <1>1, <1>2, <1>4, <2>1, <2>3 DEF IInv, NewerRemain
<1>10. LaunchIsSound'
  <2>1. sets'[job'.id] = s
    BY <1>1, <1>2
  <2> QED
    BY <1>1, <1>3, <2>1 DEF LaunchIsSound, Uncovered, LeftOut, Descendants
<1> QED
  BY <1>5, <1>6, <1>7, <1>8, <1>9, <1>10 DEF IInv

\* A step that keeps the sources of every set, and what it says about completion.
SameSources ==
    /\ Ids' = Ids
    /\ \A q \in Ids : /\ sets'[q].root = sets[q].root /\ sets'[q].day = sets[q].day
                      /\ \A p \in Places : sets'[q].members[p].uuid = sets[q].members[p].uuid

\* What such a step leaves as it was.
LEMMA SourcesKeep ==
    ASSUME IInv, SameSources, UNCHANGED <<volume, uuids>>
    PROVE  /\ \A q \in Ids : Members(sets'[q]) = Members(sets[q])
           /\ (\A q \in Ids : \A p \in Places :
                  sets'[q].members[p].disk # "none" => sets'[q].members[p].uuid # 0)
              => NumbersAreFresh'
<1>1. \A q \in Ids : Members(sets'[q]) = Members(sets[q])
  BY DEF SameSources, Members
<1>2. ASSUME \A q \in Ids : \A p \in Places :
                sets'[q].members[p].disk # "none" => sets'[q].members[p].uuid # 0
      PROVE  NumbersAreFresh'
  <2>1. ASSUME NEW q \in Ids
        PROVE  /\ sets'[q].root \in Members(sets'[q])
               /\ \A p \in Places : sets'[q].members[p].uuid <= uuids
    BY <1>1 DEF SameSources, IInv, NumbersAreFresh
  <2>2. \A p \in Places : volume[p] <= uuids
    BY DEF IInv, NumbersAreFresh
  <2> QED
    BY <1>2, <2>1, <2>2 DEF SameSources, NumbersAreFresh, Members
<1> QED
  BY <1>1, <1>2
\* What holds of the completed sets still holds, if those change their flags only.
LEMMA CompletedKeep ==
    ASSUME IInv, SameSources, UNCHANGED <<volume, uuids, clone, completed>>,
           \A q \in completed : \A p \in Places : sets'[q].members[p].of = sets[q].members[p].of,
           \A q \in Ids : sets'[q].complete =>
              /\ sets[q].complete /\ sets'[q].manifest
              /\ \A p \in Places : sets[q].members[p].known /\ sets[q].members[p].disk # "none" =>
                    sets'[q].members[p].known /\ sets'[q].members[p].disk # "none"
    PROVE  CompletedAreTraced'
<1>0. completed \subseteq Ids /\ \A q \in Ids : Members(sets'[q]) = Members(sets[q])
  BY SourcesKeep DEF IInv, CompletedAreTraced
<1>1. ASSUME NEW q \in completed, NEW p \in Members(sets'[q])
      PROVE  sets'[q].members[p].of = sets'[q].members[p].uuid
  <2>1. q \in Ids /\ p \in Members(sets[q]) /\ p \in Places
    BY <1>0, <1>1 DEF Members
  <2> QED
    BY <2>1 DEF IInv, CompletedAreTraced, SameSources
<1>2. ASSUME NEW q \in Ids, sets'[q].complete
      PROVE  /\ q \in completed /\ sets'[q].manifest
             /\ \A p \in Members(sets'[q]) :
                   sets'[q].members[p].known /\ sets'[q].members[p].disk # "none"
  <2>1. Members(sets'[q]) = Members(sets[q]) /\ Members(sets[q]) \subseteq Places
    BY <1>0 DEF Members
  <2> QED
    BY <1>2, <2>1 DEF IInv, CompletedAreTraced
<1>3. /\ clone.id # 0 => clone.id \in completed
      /\ clone.of # 0 => /\ clone.id # 0
                         /\ clone.of = sets[clone.id].members[sets[clone.id].root].uuid
  BY DEF IInv, CompletedAreTraced
<1>4. clone.of # 0 => clone.of = sets'[clone.id].members[sets'[clone.id].root].uuid
  <2>1. ASSUME clone.of # 0 PROVE clone.id \in Ids /\ sets[clone.id].root \in Places
    <3>1. clone.id \in Ids
      BY <1>0, <1>3, <2>1
    <3> QED
      BY <3>1, OneSet DEF IInv, Set
  <2> QED
    BY <1>3, <2>1 DEF SameSources
<1> QED
  BY <1>0, <1>1, <1>2, <1>3, <1>4 DEF CompletedAreTraced, Members, SameSources

\* The newest sets remain, if no complete set becomes incomplete.
LEMMA NewerKeep ==
    ASSUME Parameters, IInv, TypeOK', SameSources, UNCHANGED <<day, completed>>,
           \A q \in Ids : sets[q].complete => sets'[q].complete /\ sets'[q].manifest,
           job'.plan \subseteq job.plan,
           \A q \in job'.plan : /\ ~ sets'[q].pinned
                                /\ \A p \in Places :
                                      sets'[q].members[p].disk = "writable" => q \in job'.late
    PROVE  NewerRemain'
<1>1. ASSUME NEW id \in Ids, Cardinality(Newer(id)) >= KeepLast
      PROVE  Cardinality(Newer(id)') >= KeepLast
  BY <1>1, NewerGrow DEF SameSources
<1>2. completed \subseteq Ids
  BY DEF IInv, CompletedAreTraced
<1>3. ASSUME NEW id \in job'.plan
      PROVE  id \in Ids /\ day - sets'[id].day >= MinAge /\ Cardinality(Newer(id)) >= KeepLast
  BY <1>3 DEF IInv, NewerRemain, SameSources
<1>4. \A id \in completed : sets'[id].complete \/ Cardinality(Newer(id)') >= KeepLast
  BY <1>1, <1>2 DEF IInv, NewerRemain
<1> QED
  BY <1>1, <1>3, <1>4 DEF NewerRemain, SameSources

\* A step that changes flags of one set.
LEMMA FlagsReplaced ==
    ASSUME TypeOK, NEW id \in Ids, NEW s \in Set, sets' = [sets EXCEPT ![id] = s],
           s.root = sets[id].root, s.day = sets[id].day, s.members = sets[id].members
    PROVE  /\ SameSources /\ sets'[id] = s /\ \A q \in Ids \ {id} : sets'[q] = sets[q]
           /\ \A q \in Ids : \A p \in Places : sets'[q].members[p] = sets[q].members[p]
<1>1. /\ Ids' = Ids /\ sets'[id] = s /\ \A q \in Ids \ {id} : sets'[q] = sets[q]
  BY OneReplaced
<1>2. ASSUME NEW q \in Ids
      PROVE  /\ sets'[q].root = sets[q].root /\ sets'[q].day = sets[q].day
             /\ sets'[q].members = sets[q].members
  <2>1. CASE q = id
    BY <1>1, <2>1
  <2>2. CASE q # id
    BY <1>1, <2>2
  <2> QED
    BY <2>1, <2>2
<1> QED
  BY <1>1, <1>2 DEF SameSources

LEMMA DescribeKeeps == ASSUME Parameters, IInv, TypeOK', Describe PROVE IInv'
<1> DEFINE s == [sets[job.id] EXCEPT !.manifest = TRUE]
<1>1. /\ UNCHANGED <<volume, uuids, day, clone, completed>>
      /\ job.step = "describe" /\ job' = [job EXCEPT !.step = "take"]
      /\ sets' = [sets EXCEPT ![job.id].manifest = TRUE]
  BY DEF Describe
<1>2. /\ job'.step = "take" /\ job'.id = job.id /\ job'.plan = job.plan
      /\ job'.recursive = job.recursive /\ job'.launch = job.launch /\ job'.late = job.late
  BY <1>1, OneJob DEF IInv
<1>3. job.step \in Making /\ job.id \in Ids \ completed /\ ~ sets[job.id].complete /\ job.plan = {}
  BY <1>1 DEF IInv, JobIsSound, Making
<1>4. /\ s \in Set /\ s.manifest = TRUE /\ s.root = sets[job.id].root /\ s.day = sets[job.id].day
      /\ s.members = sets[job.id].members /\ s.complete = sets[job.id].complete
      /\ sets' = [sets EXCEPT ![job.id] = s]
  <2>1. sets[job.id] \in Set
    BY <1>3, OneSet DEF IInv
  <2> QED
    BY <1>1, <2>1 DEF Set
<1> HIDE DEF s
<1>5. /\ SameSources /\ sets'[job.id] = s /\ \A q \in Ids \ {job.id} : sets'[q] = sets[q]
      /\ \A q \in Ids : \A p \in Places : sets'[q].members[p] = sets[q].members[p]
  BY <1>3, <1>4, FlagsReplaced DEF IInv
<1>6. \A q \in Ids : Members(sets'[q]) = Members(sets[q])
  BY <1>1, <1>5, SourcesKeep
<1>7. JobIsSound'
  BY <1>1, <1>2, <1>3, <1>4, <1>5 DEF JobIsSound, SameSources, Pruning
<1>8. NumbersAreFresh'
  BY <1>1, <1>5, SourcesKeep DEF IInv, NumbersAreFresh
<1>9. SnapshotsAreTraced'
  BY <1>1, <1>2, <1>3, <1>5, <1>6 DEF IInv, SnapshotsAreTraced, Members
<1>10. \A q \in Ids : /\ sets'[q].complete = sets[q].complete
                      /\ sets[q].manifest => sets'[q].manifest
  BY <1>4, <1>5
<1>11. \A q \in Ids : sets[q].complete => sets[q].manifest
  BY DEF IInv, CompletedAreTraced
<1>12. CompletedAreTraced'
  <2>1. completed \subseteq Ids
    BY DEF IInv, CompletedAreTraced
  <2> QED
    BY <1>1, <1>5, <1>10, <1>11, <2>1, CompletedKeep
<1>13. NewerRemain'
  BY <1>1, <1>2, <1>3, <1>5, <1>10, <1>11, NewerKeep
<1>14. LaunchIsSound'
  BY <1>1, <1>2, <1>3, <1>5 DEF IInv, LaunchIsSound, SameSources, LeftOut
<1> QED
  BY <1>7, <1>8, <1>9, <1>12, <1>13, <1>14 DEF IInv

\* A step that replaces a member of the set that is being made.
LEMMA MemberMade ==
    ASSUME Parameters, IInv, TypeOK', job.step \in Making, job.step # "describe",
           NEW p \in Members(sets[job.id]), NEW m \in Member,
           sets' = [sets EXCEPT ![job.id].members[p] = m],
           m.uuid = sets[job.id].members[p].uuid,
           UNCHANGED <<volume, uuids, day, clone, completed>>,
           job'.id = job.id, job'.plan = job.plan, job'.recursive = job.recursive,
           job'.launch = job.launch, job'.late = job.late,
           job.step # "complete", job'.step \in Making \ {"describe", "complete"}
    PROVE  /\ Ids' = Ids /\ job.id \in Ids \ completed /\ ~ sets'[job.id].complete /\ job.plan = {}
           /\ sets'[job.id].manifest
           /\ Members(sets'[job.id]) = Members(sets[job.id])
           /\ \A r \in Places : sets'[job.id].members[r] =
                  IF r = p THEN m ELSE sets[job.id].members[r]
           /\ NumbersAreFresh' /\ CompletedAreTraced' /\ NewerRemain' /\ LaunchIsSound'
<1>1. /\ job.id \in Ids \ completed /\ ~ sets[job.id].complete /\ job.plan = {}
      /\ sets[job.id].manifest
  BY DEF IInv, JobIsSound
<1>2. p \in Places /\ m.uuid # 0
  BY DEF Members
<1>3. /\ Ids' = Ids
      /\ \A q \in Ids :
            /\ sets'[q].root = sets[q].root /\ sets'[q].day = sets[q].day
            /\ sets'[q].manifest = sets[q].manifest /\ sets'[q].complete = sets[q].complete
            /\ sets'[q].pinned = sets[q].pinned
            /\ \A r \in Places : sets'[q].members[r] =
                   IF q = job.id /\ r = p THEN m ELSE sets[q].members[r]
  BY <1>1, <1>2, MemberReplaced DEF IInv
<1>4. SameSources
  BY <1>3 DEF SameSources
<1>5. Members(sets'[job.id]) = Members(sets[job.id])
  BY <1>1, <1>4, SourcesKeep
<1>6. NumbersAreFresh'
  <2>1. \A q \in Ids : \A r \in Places :
           sets'[q].members[r].disk # "none" => sets'[q].members[r].uuid # 0
    BY <1>2, <1>3 DEF IInv, NumbersAreFresh
  <2> QED
    BY <1>4, <2>1, SourcesKeep
<1>7. CompletedAreTraced'
  <2>1. completed \subseteq Ids /\ \A q \in Ids : sets[q].complete => sets[q].manifest
    BY DEF IInv, CompletedAreTraced
  <2>2. \A q \in completed : \A r \in Places : sets'[q].members[r].of = sets[q].members[r].of
    BY <1>1, <1>3, <2>1
  <2>3. \A q \in Ids : sets'[q].complete =>
              /\ sets[q].complete /\ sets'[q].manifest
              /\ \A r \in Places : sets[q].members[r].known /\ sets[q].members[r].disk # "none" =>
                    sets'[q].members[r].known /\ sets'[q].members[r].disk # "none"
    BY <1>1, <1>3, <2>1
  <2> QED
    BY <1>4, <2>2, <2>3, CompletedKeep
<1>8. NewerRemain'
  <2>1. \A q \in Ids : sets[q].complete => sets'[q].complete /\ sets'[q].manifest
    BY <1>3 DEF IInv, CompletedAreTraced
  <2> QED
    BY <1>1, <1>4, <2>1, NewerKeep
<1>9. LaunchIsSound'
  <2>1. job.id \in Ids /\ sets'[job.id].root = sets[job.id].root /\ job'.step # "complete"
    BY <1>1, <1>3
  <2> QED
    BY <2>1 DEF IInv, LaunchIsSound, LeftOut
<1> QED
  BY <1>1, <1>3, <1>5, <1>6, <1>7, <1>8, <1>9

LEMMA SnapKeeps == ASSUME Parameters, IInv, TypeOK', Snap PROVE IInv'
<1>1. CASE volume[job.src] = 0
  BY <1>1, EndKeeps DEF Snap, Failed
<1>2. CASE volume[job.src] # 0
  <2> DEFINE p == job.src
             m == [sets[job.id].members[p] EXCEPT !.disk = "read-only", !.of = volume[p]]
  <2>1. /\ UNCHANGED <<volume, uuids, day, clone, completed>>
        /\ job.step = "snap" /\ job' = [job EXCEPT !.step = "record"]
        /\ sets' = [sets EXCEPT ![job.id].members[p] = m]
    BY <1>2 DEF Snap
  <2>2. /\ job'.step = "record" /\ job'.src = p /\ job'.id = job.id /\ job'.plan = job.plan
        /\ job'.recursive = job.recursive /\ job'.launch = job.launch /\ job'.late = job.late
    BY <2>1, OneJob DEF IInv
  <2>3. job.step \in Making /\ job.id \in Ids /\ p \in Members(sets[job.id])
    BY <2>1 DEF IInv, JobIsSound, Making
  <2>4. /\ p \in Places /\ sets[job.id].members[p] \in Member /\ volume[p] \in Nat
    BY <2>3, OneSet DEF IInv, TypeOK, Members
  <2>5. /\ m \in Member /\ m.uuid = sets[job.id].members[p].uuid /\ m.disk = "read-only"
        /\ m.of = volume[p]
    BY <2>4 DEF Member
  <2> HIDE DEF m, p
  <2>6. /\ Ids' = Ids /\ job.id \in Ids \ completed /\ ~ sets'[job.id].complete /\ job.plan = {}
        /\ sets'[job.id].manifest
        /\ Members(sets'[job.id]) = Members(sets[job.id])
        /\ \A r \in Places : sets'[job.id].members[r] =
                  IF r = p THEN m ELSE sets[job.id].members[r]
        /\ NumbersAreFresh' /\ CompletedAreTraced' /\ NewerRemain' /\ LaunchIsSound'
    BY <2>1, <2>2, <2>3, <2>5, MemberMade DEF Making
  <2>7. JobIsSound'
    BY <2>1, <2>2, <2>3, <2>4, <2>5, <2>6 DEF JobIsSound, Pruning
  <2>8. SnapshotsAreTraced'
    <3>1. SUFFICES ASSUME NEW q \in Members(sets[job.id])
          PROVE  LET n == sets'[job.id].members[q]
                 IN  (n.disk # "none" /\ (n.of = n.uuid \/ volume[q] # n.uuid)) \/ n = sets[job.id].members[q]
      BY <2>1, <2>2, <2>3, <2>6 DEF IInv, SnapshotsAreTraced, Members
    <3>2. q \in Places
      BY DEF Members
    <3> QED
      BY <2>5, <2>6, <3>2
  <2> QED
    BY <2>6, <2>7, <2>8 DEF IInv
<1> QED
  BY <1>1, <1>2

LEMMA RecordKeeps == ASSUME Parameters, IInv, TypeOK', Record PROVE IInv'
<1> DEFINE p == job.src
           m == [sets[job.id].members[p] EXCEPT !.known = TRUE]
<1>1. /\ UNCHANGED <<volume, uuids, day, clone, completed>>
      /\ job.step = "record" /\ job' = [job EXCEPT !.step = "take", !.src = None]
      /\ sets' = [sets EXCEPT ![job.id].members[p] = m]
  BY DEF Record
<1>2. /\ job'.step = "take" /\ job'.id = job.id /\ job'.plan = job.plan
      /\ job'.recursive = job.recursive /\ job'.launch = job.launch /\ job'.late = job.late
  BY <1>1, OneJob DEF IInv
<1>3. /\ job.step \in Making /\ job.id \in Ids /\ p \in Members(sets[job.id])
      /\ sets[job.id].members[p].disk # "none"
  BY <1>1 DEF IInv, JobIsSound, Making
<1>4. p \in Places /\ sets[job.id].members[p] \in Member
  BY <1>3, OneSet DEF IInv, Members
<1>5. /\ m \in Member /\ m.uuid = sets[job.id].members[p].uuid
      /\ m.disk = sets[job.id].members[p].disk /\ m.of = sets[job.id].members[p].of
  BY <1>4 DEF Member
<1> HIDE DEF m, p
<1>6. /\ Ids' = Ids /\ job.id \in Ids \ completed /\ ~ sets'[job.id].complete /\ job.plan = {}
      /\ sets'[job.id].manifest
      /\ Members(sets'[job.id]) = Members(sets[job.id])
      /\ \A r \in Places : sets'[job.id].members[r] =
                IF r = p THEN m ELSE sets[job.id].members[r]
      /\ NumbersAreFresh' /\ CompletedAreTraced' /\ NewerRemain' /\ LaunchIsSound'
  BY <1>1, <1>2, <1>3, <1>5, MemberMade DEF Making
<1>7. JobIsSound'
  BY <1>1, <1>2, <1>6 DEF JobIsSound, Pruning
<1>8. SnapshotsAreTraced'
  <2>1. ASSUME NEW q \in Members(sets[job.id])
        PROVE  LET n == sets'[job.id].members[q]
               IN  /\ n.known => n.disk # "none"
                   /\ n.disk # "none" => n.of = n.uuid \/ volume[q] # n.uuid
    <3>1. q \in Places
      BY DEF Members
    <3>2. LET n == sets[job.id].members[q]
          IN  /\ n.known => n.disk # "none"
              /\ n.disk # "none" => n.of = n.uuid \/ volume[q] # n.uuid
      BY <1>3 DEF IInv, SnapshotsAreTraced
    <3> QED
      BY <1>3, <1>5, <1>6, <3>1, <3>2
  <2> QED
    BY <1>1, <1>2, <1>6, <2>1 DEF SnapshotsAreTraced, Members
<1> QED
  BY <1>6, <1>7, <1>8 DEF IInv

LEMMA CompleteSetKeeps == ASSUME Parameters, IInv, TypeOK', CompleteSet PROVE IInv'
<1> DEFINE s == [sets[job.id] EXCEPT !.complete = TRUE]
<1>1. /\ UNCHANGED <<volume, uuids, day, clone>> /\ completed' = completed \cup {job.id}
      /\ job.step = "complete" /\ job' = Idle
      /\ sets' = [sets EXCEPT ![job.id].complete = TRUE]
  BY DEF CompleteSet
<1>2. /\ job.step \in Making /\ job.id \in Ids \ completed /\ ~ sets[job.id].complete
      /\ sets[job.id].manifest /\ completed \subseteq Ids
  BY <1>1 DEF IInv, JobIsSound, CompletedAreTraced, Making
<1>3. /\ s \in Set /\ s.complete = TRUE /\ s.manifest = sets[job.id].manifest
      /\ s.root = sets[job.id].root /\ s.day = sets[job.id].day
      /\ s.members = sets[job.id].members /\ sets' = [sets EXCEPT ![job.id] = s]
  <2>1. sets[job.id] \in Set
    BY <1>2, OneSet DEF IInv
  <2> QED
    BY <1>1, <2>1 DEF Set
<1> HIDE DEF s
<1>4. /\ SameSources /\ sets'[job.id] = s /\ \A q \in Ids \ {job.id} : sets'[q] = sets[q]
      /\ \A q \in Ids : \A p \in Places : sets'[q].members[p] = sets[q].members[p]
  BY <1>2, <1>3, FlagsReplaced DEF IInv
<1>5. /\ Ids' = Ids
      /\ \A q \in Ids : Members(sets'[q]) = Members(sets[q]) /\ Members(sets[q]) \subseteq Places
  BY <1>1, <1>4, SourcesKeep DEF SameSources, Members
<1>6. JobIsSound' /\ SnapshotsAreTraced' /\ LaunchIsSound'
  BY <1>1 DEF JobIsSound, SnapshotsAreTraced, LaunchIsSound, Idle, Making, Pruning
<1>7. NumbersAreFresh'
  BY <1>1, <1>4, SourcesKeep DEF IInv, NumbersAreFresh
<1>8. \A p \in Members(sets[job.id]) :
         LET m == sets[job.id].members[p]
         IN  m.known /\ m.disk # "none" /\ m.of = m.uuid
  BY <1>1, <1>2 DEF IInv, SnapshotsAreTraced
<1>9. CompletedAreTraced'
  <2>1. ASSUME NEW q \in completed', NEW p \in Members(sets'[q])
        PROVE  sets'[q].members[p].of = sets'[q].members[p].uuid
    <3>0. q \in Ids
      BY <1>1, <1>2, <2>1
    <3>1. p \in Members(sets[q]) /\ p \in Places /\ sets'[q].members[p] = sets[q].members[p]
      BY <1>4, <1>5, <2>1, <3>0
    <3>2. q \in completed \/ q = job.id
      BY <1>1, <2>1
    <3>3. sets[q].members[p].of = sets[q].members[p].uuid
      BY <1>8, <3>1, <3>2 DEF IInv, CompletedAreTraced
    <3> QED
      BY <3>1, <3>3
  <2>2. ASSUME NEW q \in Ids, sets'[q].complete
        PROVE  /\ q \in completed' /\ sets'[q].manifest
               /\ \A p \in Members(sets'[q]) :
                     sets'[q].members[p].known /\ sets'[q].members[p].disk # "none"
    <3>1. CASE q = job.id
      <4>1. q \in completed' /\ sets'[q].manifest
        BY <1>1, <1>2, <1>3, <1>4, <3>1
      <4>2. ASSUME NEW p \in Members(sets'[q])
            PROVE  sets'[q].members[p].known /\ sets'[q].members[p].disk # "none"
        <5>1. p \in Members(sets[q]) /\ sets'[q].members[p] = sets[q].members[p]
          BY <1>4, <1>5, <4>2
        <5> QED
          BY <1>8, <3>1, <5>1
      <4> QED
        BY <4>1, <4>2
    <3>2. CASE q # job.id
      <4>1. sets'[q] = sets[q]
        BY <1>4, <3>2
      <4> QED
        BY <1>1, <2>2, <4>1 DEF IInv, CompletedAreTraced
    <3> QED
      BY <3>1, <3>2
  <2>3. /\ clone.id # 0 => clone.id \in completed
        /\ clone.of # 0 => /\ clone.id # 0
                           /\ clone.of = sets[clone.id].members[sets[clone.id].root].uuid
    BY DEF IInv, CompletedAreTraced
  <2>4. clone.of # 0 => sets'[clone.id] = sets[clone.id]
    BY <1>2, <1>4, <2>3
  <2> QED
    BY <1>1, <1>2, <1>5, <2>1, <2>2, <2>3, <2>4 DEF CompletedAreTraced, Members
<1>10. NewerRemain'
  <2>1. \A q \in Ids : sets[q].complete => sets'[q].complete /\ sets'[q].manifest
    BY <1>2, <1>3, <1>4 DEF IInv, CompletedAreTraced
  <2>2. ASSUME NEW id \in Ids, Cardinality(Newer(id)) >= KeepLast
        PROVE  Cardinality(Newer(id)') >= KeepLast
    BY <1>4, <2>1, <2>2, NewerGrow DEF SameSources
  <2>3. \A id \in completed' : sets'[id].complete \/ Cardinality(Newer(id)') >= KeepLast
    BY <1>1, <1>2, <1>3, <1>4, <2>1, <2>2 DEF IInv, NewerRemain
  <2>4. job'.plan = {}
    BY <1>1 DEF Idle
  <2> QED
    BY <2>3, <2>4 DEF NewerRemain
<1> QED
  BY <1>6, <1>7, <1>9, <1>10 DEF IInv

LEMMA PinKeeps ==
    ASSUME Parameters, IInv, TypeOK', NEW id \in Ids, NEW pinned \in BOOLEAN, Pin(id, pinned)
    PROVE  IInv'
<1> DEFINE s == [sets[id] EXCEPT !.pinned = pinned]
<1>1. /\ UNCHANGED <<volume, uuids, day, job, clone, completed>> /\ job = Idle
      /\ sets' = [sets EXCEPT ![id].pinned = pinned]
  BY DEF Pin
<1>2. /\ s \in Set /\ s.complete = sets[id].complete /\ s.manifest = sets[id].manifest
      /\ s.root = sets[id].root /\ s.day = sets[id].day
      /\ s.members = sets[id].members /\ sets' = [sets EXCEPT ![id] = s]
  <2>1. sets[id] \in Set
    BY OneSet DEF IInv
  <2> QED
    BY <1>1, <2>1 DEF Set
<1> HIDE DEF s
<1>3. /\ SameSources /\ sets'[id] = s /\ \A q \in Ids \ {id} : sets'[q] = sets[q]
      /\ \A q \in Ids : \A p \in Places : sets'[q].members[p] = sets[q].members[p]
  BY <1>2, FlagsReplaced DEF IInv
<1>4. \A q \in Ids : sets'[q].complete = sets[q].complete /\ sets'[q].manifest = sets[q].manifest
  BY <1>2, <1>3
<1>5. JobIsSound' /\ SnapshotsAreTraced' /\ LaunchIsSound'
  BY <1>1 DEF JobIsSound, SnapshotsAreTraced, LaunchIsSound, Idle, Making, Pruning
<1>6. NumbersAreFresh'
  BY <1>1, <1>3, SourcesKeep DEF IInv, NumbersAreFresh
<1>7. completed \subseteq Ids /\ \A q \in Ids : sets[q].complete => sets[q].manifest
  BY DEF IInv, CompletedAreTraced
<1>8. CompletedAreTraced'
  BY <1>1, <1>3, <1>4, <1>7, CompletedKeep
<1>9. NewerRemain'
  <2>1. job'.plan = {}
    BY <1>1 DEF Idle
  <2> QED
    BY <1>1, <1>3, <1>4, <1>7, <2>1, NewerKeep
<1> QED
  BY <1>5, <1>6, <1>8, <1>9 DEF IInv

LEMMA ThawKeeps == ASSUME Parameters, IInv, TypeOK', NEW id \in Ids, Thaw(id) PROVE IInv'
<1> DEFINE p == sets[id].root
           m == [sets[id].members[p] EXCEPT !.disk = "writable"]
<1>0. /\ job.step \in {"idle"} \cup Pruning
      /\ job' = [job EXCEPT !.late = @ \cup (job.plan \cap {id})]
      /\ job'.step = job.step /\ job'.id = job.id /\ job'.launch = job.launch
      /\ job'.plan = job.plan /\ job'.late = job.late \cup (job.plan \cap {id})
  BY OneJob DEF Thaw, IInv, Pruning
<1>1. /\ UNCHANGED <<volume, uuids, day, clone, completed>>
      /\ sets' = [sets EXCEPT ![id].members[p] = m] /\ sets[id].members[p].disk = "read-only"
  BY DEF Thaw
<1>2. p \in Places /\ sets[id].members[p] \in Member
  <2>1. p \in Places
    BY OneSet DEF IInv, Set
  <2> QED
    BY <2>1, OneSet DEF IInv
<1>3. /\ m \in Member /\ m.uuid = sets[id].members[p].uuid /\ m.disk = "writable"
      /\ m.of = sets[id].members[p].of /\ m.known = sets[id].members[p].known
  BY <1>2 DEF Member
<1> HIDE DEF m, p
<1>4. /\ Ids' = Ids
      /\ \A q \in Ids :
            /\ sets'[q].root = sets[q].root /\ sets'[q].day = sets[q].day
            /\ sets'[q].manifest = sets[q].manifest /\ sets'[q].complete = sets[q].complete
            /\ sets'[q].pinned = sets[q].pinned
            /\ \A r \in Places : sets'[q].members[r] =
                   IF q = id /\ r = p THEN m ELSE sets[q].members[r]
  BY <1>1, <1>2, <1>3, MemberReplaced DEF IInv
<1>5. /\ SameSources
      /\ \A q \in Ids : \A r \in Places :
            /\ sets'[q].members[r].of = sets[q].members[r].of
            /\ sets'[q].members[r].known = sets[q].members[r].known
            /\ (sets'[q].members[r].disk # "none") = (sets[q].members[r].disk # "none")
  BY <1>1, <1>3, <1>4 DEF SameSources
<1>6. JobIsSound' /\ SnapshotsAreTraced' /\ LaunchIsSound'
  <2>1. job.step = "idle" => job' = Idle
    <3>1. job.step = "idle" => job = Idle
      BY DEF IInv, JobIsSound
    <3>2. Idle.late = {} /\ Idle.plan = {}
      BY DEF Idle
    <3>3. [Idle EXCEPT !.late = Idle.late] = Idle
      BY DEF Idle
    <3>4. Idle.late \cup (Idle.plan \cap {id}) = Idle.late
      BY <3>2
    <3> QED
      BY <1>0, <3>1, <3>3, <3>4
  <2>2. job.step \in Pruning => job.launch = NoLaunch
    BY DEF IInv, JobIsSound
  <2>3. job.step = "delete" => job.id \in job.plan /\ job.id \in Ids /\ ~ sets'[job.id].complete
    BY <1>4 DEF IInv, JobIsSound, NewerRemain
  <2>4. JobIsSound'
    BY <1>0, <2>1, <2>2, <2>3 DEF JobIsSound, Making, Pruning
  <2> QED
    BY <1>0, <2>4 DEF SnapshotsAreTraced, LaunchIsSound, Making, Pruning
<1>7. NumbersAreFresh'
  <2>1. \A q \in Ids : \A r \in Places :
           sets'[q].members[r].disk # "none" => sets'[q].members[r].uuid # 0
    BY <1>5 DEF SameSources, IInv, NumbersAreFresh
  <2> QED
    BY <1>1, <1>5, <2>1, SourcesKeep
<1>8. completed \subseteq Ids /\ \A q \in Ids : sets[q].complete => sets[q].manifest
  BY DEF IInv, CompletedAreTraced
<1>9. CompletedAreTraced'
  BY <1>1, <1>4, <1>5, <1>8, CompletedKeep
<1>10. NewerRemain'
  <2>1. ASSUME NEW q \in job'.plan
        PROVE  /\ ~ sets'[q].pinned
               /\ \A r \in Places : sets'[q].members[r].disk = "writable" => q \in job'.late
    <3>1. /\ q \in Ids /\ ~ sets[q].pinned
          /\ \A r \in Places : sets[q].members[r].disk = "writable" => q \in job.late
      BY <1>0, <2>1 DEF IInv, NewerRemain
    <3>2. ~ sets'[q].pinned
      BY <1>4, <3>1
    <3>3. CASE q = id
      BY <1>0, <2>1, <3>2, <3>3
    <3>4. CASE q # id
      BY <1>0, <1>4, <3>1, <3>2, <3>4
    <3> QED
      BY <3>3, <3>4
  <2> QED
    BY <1>0, <1>1, <1>4, <1>5, <1>8, <2>1, NewerKeep
<1> QED
  BY <1>6, <1>7, <1>9, <1>10 DEF IInv

\* A set whose deletion begins is older than enough others, and was among the
\* newer ones of none that has not those as well.
LEMMA MarkKeeps ==
    ASSUME Parameters, IInv, TypeOK', NEW id \in job.plan, Mark(id)
    PROVE  IInv'
<1> DEFINE s == [sets[id] EXCEPT !.complete = FALSE]
<1>1. /\ UNCHANGED <<volume, uuids, day, clone, completed>>
      /\ job.step = "mark" /\ job' = [job EXCEPT !.step = "delete", !.id = id]
      /\ sets' = [sets EXCEPT ![id].complete = FALSE]
  BY DEF Mark
<1>2. /\ job'.step = "delete" /\ job'.id = id /\ job'.plan = job.plan /\ job'.launch = job.launch
      /\ job'.late = job.late
      /\ job.launch = NoLaunch
  BY <1>1, OneJob DEF IInv, JobIsSound, Pruning
<1>3. /\ id \in Ids /\ Cardinality(Newer(id)) >= KeepLast /\ completed \subseteq Ids
      /\ \A q \in Ids : sets[q].complete => sets[q].manifest
  BY DEF IInv, NewerRemain, CompletedAreTraced
<1>4. /\ s \in Set /\ s.complete = FALSE /\ s.manifest = sets[id].manifest
      /\ s.pinned = sets[id].pinned /\ s.root = sets[id].root /\ s.day = sets[id].day
      /\ s.members = sets[id].members /\ sets' = [sets EXCEPT ![id] = s]
  <2>1. sets[id] \in Set
    BY <1>3, OneSet DEF IInv
  <2> QED
    BY <1>1, <2>1 DEF Set
<1> HIDE DEF s
<1>5. /\ SameSources /\ sets'[id] = s /\ \A q \in Ids \ {id} : sets'[q] = sets[q]
      /\ \A q \in Ids : \A p \in Places : sets'[q].members[p] = sets[q].members[p]
  BY <1>3, <1>4, FlagsReplaced DEF IInv
<1>6. \A q \in Ids : /\ sets'[q].complete <=> (sets[q].complete /\ q # id)
                     /\ sets'[q].manifest = sets[q].manifest
                     /\ sets'[q].pinned = sets[q].pinned
  BY <1>4, <1>5
<1>7. JobIsSound'
  BY <1>1, <1>2, <1>3, <1>6 DEF JobIsSound, Making, Pruning
<1>8. SnapshotsAreTraced' /\ LaunchIsSound'
  BY <1>2 DEF SnapshotsAreTraced, LaunchIsSound, Making
<1>9. NumbersAreFresh'
  BY <1>1, <1>5, SourcesKeep DEF IInv, NumbersAreFresh
<1>10. CompletedAreTraced'
  BY <1>1, <1>3, <1>5, <1>6, CompletedKeep
<1>11. ASSUME NEW q \in Ids, Cardinality(Newer(q)) >= KeepLast
       PROVE  Cardinality(Newer(q)') >= KeepLast
  <2>1. Newer(q)' = Newer(q) \ {id}
    BY <1>5, <1>6 DEF Newer, Listed, SameSources
  <2>2. /\ Newer(q) \subseteq 1 .. Len(sets) /\ Newer(id) \subseteq 1 .. Len(sets)
        /\ Len(sets) \in Nat /\ q \in Nat /\ id \in Nat
    BY <1>3 DEF Newer, Listed, Ids, IInv, TypeOK
  <2>3. CASE id \notin Newer(q)
    BY <1>11, <2>1, <2>3
  <2>4. CASE id \in Newer(q)
    <3>1. Newer(id) \subseteq Newer(q)'
      BY <2>1, <2>2, <2>4 DEF Newer, Listed
    <3>2. Newer(q)' \in SUBSET (1 .. Len(sets))
      BY <2>1, <2>2
    <3> HIDE DEF Newer
    <3>3. /\ Cardinality(Newer(id)) \in Nat /\ Cardinality(Newer(q)') \in Nat
          /\ Cardinality(Newer(id)) <= Cardinality(Newer(q)')
      BY <2>2, <3>1, <3>2, FewerNewer
    <3> QED
      BY <1>3, <3>3 DEF Parameters
  <2> QED
    BY <2>3, <2>4
<1>12. NewerRemain'
  <2>1. \A q \in completed : sets'[q].complete \/ Cardinality(Newer(q)') >= KeepLast
    BY <1>3, <1>6, <1>11 DEF IInv, NewerRemain
  <2>2. ASSUME NEW q \in job.plan
        PROVE  /\ q \in Ids' /\ ~ sets'[q].pinned /\ day - sets'[q].day >= MinAge
               /\ Cardinality(Newer(q)') >= KeepLast
               /\ \A p \in Places : sets'[q].members[p].disk = "writable" => q \in job.late
    BY <1>5, <1>6, <1>11 DEF IInv, NewerRemain, SameSources
  <2> QED
    BY <1>1, <1>2, <2>1, <2>2 DEF NewerRemain
<1> QED
  BY <1>7, <1>8, <1>9, <1>10, <1>12 DEF IInv

LEMMA DeleteKeeps ==
    ASSUME Parameters, IInv, TypeOK', NEW p \in Places, Delete(p)
    PROVE  IInv'
<1> DEFINE m == [sets[job.id].members[p] EXCEPT !.disk = "none"]
<1>1. /\ UNCHANGED <<volume, uuids, day, job, clone, completed>> /\ job.step = "delete"
      /\ sets' = [sets EXCEPT ![job.id].members[p] = m]
  BY DEF Delete
<1>2. /\ job.id \in job.plan /\ job.id \in Ids /\ ~ sets[job.id].complete
      /\ completed \subseteq Ids /\ \A q \in Ids : sets[q].complete => sets[q].manifest
  BY <1>1 DEF IInv, JobIsSound, NewerRemain, CompletedAreTraced
<1>3. /\ m \in Member /\ m.uuid = sets[job.id].members[p].uuid /\ m.disk = "none"
      /\ m.of = sets[job.id].members[p].of
  <2>1. sets[job.id].members[p] \in Member
    BY <1>2, OneSet DEF IInv
  <2> QED
    BY <2>1 DEF Member
<1> HIDE DEF m
<1>4. /\ Ids' = Ids
      /\ \A q \in Ids :
            /\ sets'[q].root = sets[q].root /\ sets'[q].day = sets[q].day
            /\ sets'[q].manifest = sets[q].manifest /\ sets'[q].complete = sets[q].complete
            /\ sets'[q].pinned = sets[q].pinned
            /\ \A r \in Places : sets'[q].members[r] =
                   IF q = job.id /\ r = p THEN m ELSE sets[q].members[r]
  BY <1>1, <1>2, <1>3, MemberReplaced DEF IInv
<1>5. /\ SameSources
      /\ \A q \in Ids : \A r \in Places : sets'[q].members[r].of = sets[q].members[r].of
  BY <1>3, <1>4 DEF SameSources
<1>6. JobIsSound' /\ SnapshotsAreTraced' /\ LaunchIsSound'
  BY <1>1, <1>2, <1>4 DEF IInv, JobIsSound, SnapshotsAreTraced, LaunchIsSound, Making, Pruning
<1>7. NumbersAreFresh'
  <2>1. \A q \in Ids : \A r \in Places :
           sets'[q].members[r].disk # "none" => sets'[q].members[r].uuid # 0
    BY <1>3, <1>4 DEF IInv, NumbersAreFresh
  <2> QED
    BY <1>1, <1>5, <2>1, SourcesKeep
<1>8. CompletedAreTraced'
  BY <1>1, <1>2, <1>4, <1>5, CompletedKeep
<1>9. NewerRemain'
  <2>1. \A q \in job.plan : /\ ~ sets'[q].pinned
                            /\ \A r \in Places :
                                  sets'[q].members[r].disk = "writable" => q \in job.late
    BY <1>3, <1>4 DEF IInv, NewerRemain
  <2> QED
    BY <1>1, <1>2, <1>4, <1>5, <2>1, NewerKeep
<1> QED
  BY <1>6, <1>7, <1>8, <1>9 DEF IInv

LEMMA DeleteSetKeeps == ASSUME Parameters, IInv, TypeOK', DeleteSet PROVE IInv'
<1> DEFINE s == [sets[job.id] EXCEPT !.manifest = FALSE]
<1>1. /\ UNCHANGED <<volume, uuids, day, clone, completed>> /\ job.step = "delete"
      /\ job' = IF job.plan = {job.id} THEN Idle
                ELSE [job EXCEPT !.step = "mark", !.id = 0, !.plan = @ \ {job.id}]
      /\ sets' = [sets EXCEPT ![job.id].manifest = FALSE]
  BY DEF DeleteSet
<1>2. /\ job.id \in job.plan /\ job.id \in Ids /\ ~ sets[job.id].complete /\ job.launch = NoLaunch
      /\ completed \subseteq Ids /\ \A q \in Ids : sets[q].complete => sets[q].manifest
  BY <1>1 DEF IInv, JobIsSound, NewerRemain, CompletedAreTraced, Pruning
<1>3. job' = Idle \/ (job'.step = "mark" /\ job'.launch = job.launch)
  BY <1>1, OneJob DEF IInv
<1>4. job'.plan = {} \/ (job'.plan \subseteq job.plan /\ job'.late = job.late)
  BY <1>1, OneJob DEF IInv, Idle
<1>5. /\ s \in Set /\ s.complete = sets[job.id].complete /\ s.pinned = sets[job.id].pinned
      /\ s.root = sets[job.id].root /\ s.day = sets[job.id].day
      /\ s.members = sets[job.id].members /\ sets' = [sets EXCEPT ![job.id] = s]
  <2>1. sets[job.id] \in Set
    BY <1>2, OneSet DEF IInv
  <2> QED
    BY <1>1, <2>1 DEF Set
<1> HIDE DEF s
<1>6. /\ SameSources /\ sets'[job.id] = s /\ \A q \in Ids \ {job.id} : sets'[q] = sets[q]
      /\ \A q \in Ids : \A p \in Places : sets'[q].members[p] = sets[q].members[p]
  BY <1>2, <1>5, FlagsReplaced DEF IInv
<1>7. \A q \in Ids : /\ sets'[q].complete = sets[q].complete /\ sets'[q].pinned = sets[q].pinned
                     /\ sets[q].complete => sets'[q].manifest
  BY <1>2, <1>5, <1>6
<1>8. JobIsSound' /\ SnapshotsAreTraced' /\ LaunchIsSound'
  BY <1>2, <1>3 DEF JobIsSound, SnapshotsAreTraced, LaunchIsSound, Idle, Making, Pruning
<1>9. NumbersAreFresh'
  BY <1>1, <1>6, SourcesKeep DEF IInv, NumbersAreFresh
<1>10. CompletedAreTraced'
  BY <1>1, <1>2, <1>6, <1>7, CompletedKeep
<1>11. NewerRemain'
  <2>1. \A q \in job'.plan : /\ ~ sets'[q].pinned
                             /\ \A r \in Places :
                                   sets'[q].members[r].disk = "writable" => q \in job'.late
    BY <1>4, <1>6, <1>7 DEF IInv, NewerRemain
  <2> QED
    BY <1>1, <1>4, <1>6, <1>7, <2>1, NewerKeep
<1> QED
  BY <1>8, <1>9, <1>10, <1>11 DEF IInv

LEMMA StepInvariant == ASSUME Parameters, IInv, [Next]_vars PROVE IInv'
<1>0. TypeOK'
  BY StepTyped
<1>1. ASSUME NEW root \in Approved, NEW recursive \in BOOLEAN, Create(root, recursive)
      PROVE  IInv'
  <2>1. NoLaunch.cwd = None
    BY DEF NoLaunch
  <2> QED
    BY <1>0, <1>1, <2>1, IdleJob, BeginKeeps DEF Create
<1>2. ASSUME NEW launch \in [cwd : Cwd, policy : Policies, told : Inherited],
             NEW given \in Approved \cup {None}, NEW recursive \in BOOLEAN,
             Launch(launch, given, recursive)
      PROVE  IInv'
  <2> DEFINE root == Chosen(given, launch.cwd)
  <2>1. launch \in [cwd : Cwd \cup {None}, policy : Policies, told : Nat]
    <3>1. Inherited \subseteq Nat
      BY DEF Inherited, IInv, TypeOK
    <3> QED
      BY <3>1
  <2>2. /\ Begin(root, recursive, launch) /\ IsPrefix(root, launch.cwd)
        /\ ~ Uncovered(root, recursive, launch.cwd)
    BY <1>2 DEF Launch
  <2>3. root \in Approved
    BY <2>2 DEF Begin, Allowed
  <2> HIDE DEF root
  <2> QED
    BY <1>0, <2>1, <2>2, <2>3, BeginKeeps
<1>3. CASE UNCHANGED vars
  <2>1. clone.of # 0 => clone.id # 0
    BY DEF IInv, CompletedAreTraced
  <2>2. day <= day'
    BY <1>3 DEF vars, storeVars, IInv, TypeOK
  <2> QED
    BY <1>0, <1>3, <2>1, <2>2, AsideKeeps DEF vars, storeVars
<1>4. ASSUME Abort \/ Die PROVE IInv'
  BY <1>0, <1>4, EndKeeps DEF Abort, Die, Failed
<1> QED
  BY <1>0, <1>1, <1>2, <1>3, <1>4, LaunchWithoutKeeps, DescribeKeeps, InspectKeeps, SnapKeeps,
     RecordKeeps, CheckKeeps, CompleteSetKeeps, PinKeeps, PruneKeeps, MarkKeeps, DeleteKeeps,
     DeleteSetKeeps, RecoveryKeeps, ThawKeeps, NestKeeps, TickKeeps
  DEF Next

-------------------------------------------------------------------------------
(* Theorems *)

\* The store keeps its types, and what its process relies on, whatever fails.
THEOREM StoreInvariant == ASSUME Parameters PROVE Spec => []IInv
<1>1. Init => IInv
  BY InitInvariant
<1>2. IInv /\ [Next]_vars => IInv'
  BY StepInvariant
<1> QED
  BY <1>1, <1>2, PTL DEF Spec

\* However the making of a set, a prune and a recovery are interleaved, fail or are
\* killed, a set that says complete has a snapshot of every subvolume it names, and
\* a recovery clones nothing else.
THEOREM SetsAreWhole == ASSUME Parameters PROVE Spec => []CompleteIsWhole
<1>1. IInv => CompleteIsWhole
  <2> SUFFICES ASSUME IInv PROVE CompleteIsWhole
    OBVIOUS
  <2>1. \A id \in Ids : sets[id].complete =>
           /\ id \in completed /\ sets[id].manifest
           /\ \A p \in Members(sets[id]) :
                 sets[id].members[p].known /\ sets[id].members[p].disk # "none"
    BY DEF IInv, CompletedAreTraced
  <2>2. \A id \in completed : \A p \in Members(sets[id]) :
           sets[id].members[p].of = sets[id].members[p].uuid
    BY DEF IInv, CompletedAreTraced
  <2>3. clone.of # 0 => clone.of = sets[clone.id].members[sets[clone.id].root].uuid
    BY DEF IInv, CompletedAreTraced
  <2> QED
    BY <2>1, <2>2, <2>3 DEF CompleteIsWhole
<1> QED
  BY <1>1, StoreInvariant, PTL

\* However often and wherever prunes are interrupted, the newest sets of a root
\* that were ever completed remain, as many as are to be kept.
THEOREM PrunesKeepNewest == ASSUME Parameters PROVE Spec => []NewestRemain
<1>1. IInv => NewestRemain
  <2> SUFFICES ASSUME IInv, NEW id \in completed, ~ sets[id].complete
      PROVE  Cardinality({q \in completed : /\ sets[q].root = sets[id].root /\ q > id
                                            /\ sets[q].complete}) >= KeepLast
    BY DEF NewestRemain
  <2>1. completed \subseteq Ids /\ \A q \in Ids : sets[q].complete => q \in completed /\ sets[q].manifest
    BY DEF IInv, CompletedAreTraced
  <2>2. {q \in completed : /\ sets[q].root = sets[id].root /\ q > id /\ sets[q].complete} = Newer(id)
    BY <2>1 DEF Newer, Listed
  <2>3. Cardinality(Newer(id)) >= KeepLast
    BY DEF IInv, NewerRemain
  <2> QED
    BY <2>2, <2>3
<1> QED
  BY <1>1, StoreInvariant, PTL

\* Whatever a launch inherits and whatever happens to the subvolumes meanwhile, an
\* agent that requires a checkpoint has one, and the set its agent is told of was
\* completed for it and covers its directory, but for subvolumes that came or went
\* there after the process looked: at the members when it compared them, and at
\* those that a set of the root alone leaves out before it made the set.
THEOREM AgentsAreCovered == ASSUME Parameters PROVE Spec => LaunchIsCovered
<1>1. ASSUME IInv, [Next]_vars PROVE Covered
  <2>0. SUFFICES ASSUME informed' # informed PROVE Covered
    BY DEF Covered
  <2>1. CASE Failed
    BY <2>0, <2>1 DEF Failed, Told, Covered
  <2>2. CASE \E launch : LaunchWithout(launch)
    <3>1. job.launch = NoLaunch /\ informed' = 0
      BY <2>2 DEF LaunchWithout, Told, Idle
    <3> QED
      BY <3>1 DEF Covered, NoLaunch
  <2>3. CASE CompleteSet
    <3>1. /\ job.launch.cwd # None /\ informed' = job.id /\ job.step = "complete" /\ job.step \in Making
          /\ completed' = completed \cup {job.id}
          /\ sets' = [sets EXCEPT ![job.id].complete = TRUE] /\ UNCHANGED volume
      BY <2>0, <2>3 DEF CompleteSet, Told, Making
    <3>2. job.id \in Ids \ completed /\ Covers(sets[job.id], job.launch.cwd, job.late)
      BY <1>1, <3>1 DEF IInv, JobIsSound, LaunchIsSound
    <3>3. sets[job.id] \in Set /\ job.id # 0
      BY <1>1, <3>2, OneSet DEF IInv
    <3>4. sets'[job.id] = [sets[job.id] EXCEPT !.complete = TRUE]
      BY <1>1, <3>1, <3>2, <3>3 DEF IInv, TypeOK, Ids
    <3>5. sets'[job.id].root = sets[job.id].root /\ sets'[job.id].members = sets[job.id].members
      BY <3>3, <3>4 DEF Set
    <3>6. Covers(sets'[job.id], job.launch.cwd, job.late)
      BY <3>2, <3>5 DEF Covers, Members
    <3>7. job.id \in completed' \ completed
      BY <3>1, <3>2
    <3> QED
      BY <3>1, <3>3, <3>6, <3>7 DEF Covered
  <2> QED
    BY <1>1, <2>0, <2>1, <2>2, <2>3
    DEF Next, vars, storeVars, Create, Launch, Begin, Describe, Inspect, Snap, Record, Check, Pin, Prune, Mark,
        Delete, DeleteSet, Abort, Die, RecoverCheck, RecoverClone, Nest, Thaw, Tick
<1>2. ASSUME IInv, [Next]_vars PROVE [Covered]_storeVars
  BY <1>1, <1>2
<1> QED
  BY <1>2, StoreInvariant, PTL DEF Spec, LaunchIsCovered

\* A snapshot goes by the deletion of its set, and by nothing else.
LEMMA OnlyDeleted ==
    ASSUME IInv, [Next]_vars, NEW id \in Ids, NEW p \in Places,
           sets[id].members[p].disk # "none", sets'[id].members[p].disk = "none"
    PROVE  job.step = "delete" /\ job.id = id
<1>0. sets \in Seq(Set) /\ \A q \in Ids : sets[q] \in Set /\ sets[q].members \in [Places -> Member]
  BY OneSet DEF IInv, TypeOK
<1>1. sets' # sets
  OBVIOUS
<1>2. ASSUME NEW root, NEW recursive, NEW launch, Begin(root, recursive, launch) PROVE FALSE
  <2>1. sets' = Append(sets, Manifest(root, recursive)) /\ root \in Approved
    BY <1>2 DEF Begin, Allowed
  <2>2. sets'[id] = sets[id]
    BY <1>0, <2>1 DEF Ids
  <2> QED
    BY <2>2
<1>3. ASSUME NEW k \in Ids, NEW b \in BOOLEAN,
             \/ sets' = [sets EXCEPT ![k].manifest = b]
             \/ sets' = [sets EXCEPT ![k].complete = b]
             \/ sets' = [sets EXCEPT ![k].pinned = b]
      PROVE  FALSE
  <2>1. id # k => sets'[id] = sets[id]
    BY <1>0, <1>3 DEF Ids
  <2>2. id = k => sets'[id].members = sets[id].members
    BY <1>0, <1>3 DEF Ids, Set
  <2> QED
    BY <2>1, <2>2
<1>4. ASSUME NEW k \in Ids, NEW r \in Places, NEW m \in Member,
             sets' = [sets EXCEPT ![k].members[r] = m]
      PROVE  k = id /\ m.disk = "none"
  <2>1. sets'[id].members[p] = IF id = k /\ p = r THEN m ELSE sets[id].members[p]
    BY <1>4, MemberReplaced DEF IInv
  <2> QED
    BY <2>1
<1>5. CASE Describe
  <2>1. job.id \in Ids
    BY <1>5 DEF Describe, IInv, JobIsSound, Making
  <2> QED
    BY <1>3, <1>5, <2>1 DEF Describe
<1>6. CASE CompleteSet
  <2>1. job.id \in Ids
    BY <1>6 DEF CompleteSet, IInv, JobIsSound, Making
  <2> QED
    BY <1>3, <1>6, <2>1 DEF CompleteSet
<1>7. ASSUME NEW k \in job.plan, Mark(k) PROVE FALSE
  <2>1. k \in Ids
    BY DEF IInv, NewerRemain
  <2> QED
    BY <1>3, <1>7, <2>1 DEF Mark
<1>8. CASE DeleteSet
  <2>1. job.id \in Ids
    BY <1>8 DEF DeleteSet, IInv, JobIsSound, NewerRemain
  <2> QED
    BY <1>3, <1>8, <2>1 DEF DeleteSet
<1>9. ASSUME NEW k \in Ids, NEW pinned \in BOOLEAN, Pin(k, pinned) PROVE FALSE
  BY <1>3, <1>9 DEF Pin
<1>10. CASE Snap \/ Record
  <2>1. job.id \in Ids /\ job.src \in Members(sets[job.id])
    BY <1>10 DEF Snap, Record, IInv, JobIsSound, Making
  <2>2. /\ job.src \in Places /\ sets[job.id].members[job.src] \in Member
        /\ volume[job.src] \in Nat
    BY <2>1, OneSet DEF Members, IInv, TypeOK
  <2>3. CASE Snap
    <3> DEFINE m == [sets[job.id].members[job.src] EXCEPT !.disk = "read-only", !.of = volume[job.src]]
    <3>1. sets' = [sets EXCEPT ![job.id].members[job.src] = m]
      BY <1>1, <2>3 DEF Snap
    <3>2. m \in Member /\ m.disk = "read-only"
      BY <2>2 DEF Member
    <3> HIDE DEF m
    <3> QED
      BY <1>4, <2>1, <2>2, <3>1, <3>2
  <2>4. CASE Record
    <3> DEFINE m == [sets[job.id].members[job.src] EXCEPT !.known = TRUE]
    <3>1. sets' = [sets EXCEPT ![job.id].members[job.src] = m] /\ job.step = "record"
      BY <2>4 DEF Record
    <3>2. m \in Member /\ m.disk = sets[job.id].members[job.src].disk
      BY <2>2 DEF Member
    <3>3. m.disk # "none"
      BY <3>1, <3>2 DEF IInv, JobIsSound, Making
    <3> HIDE DEF m
    <3> QED
      BY <1>4, <2>1, <2>2, <3>1, <3>2, <3>3
  <2> QED
    BY <1>10, <2>3, <2>4
<1>11. ASSUME NEW r \in Places, Delete(r) PROVE job.step = "delete" /\ job.id = id
  <2> DEFINE m == [sets[job.id].members[r] EXCEPT !.disk = "none"]
  <2>1. /\ sets' = [sets EXCEPT ![job.id].members[r] = m]
        /\ job.step = "delete" /\ job.id \in Ids
    BY <1>11 DEF Delete, IInv, JobIsSound, NewerRemain
  <2>2. m \in Member
    BY <2>1, OneSet, MemberChanged DEF IInv
  <2> HIDE DEF m
  <2> QED
    BY <1>4, <2>1, <2>2
<1>12. ASSUME NEW k \in Ids, Thaw(k) PROVE FALSE
  <2> DEFINE r == sets[k].root
             m == [sets[k].members[r] EXCEPT !.disk = "writable"]
  <2>1. sets' = [sets EXCEPT ![k].members[r] = m]
    BY <1>12 DEF Thaw
  <2>2. r \in Places
    BY OneSet DEF IInv, Set
  <2>3. sets[k].members[r] \in Member
    BY <2>2, OneSet DEF IInv
  <2> HIDE DEF r
  <2>4. m \in Member /\ m.disk = "writable"
    BY <2>3 DEF Member
  <2> HIDE DEF m
  <2> QED
    BY <1>4, <2>1, <2>2, <2>4
<1> QED
  BY <1>1, <1>2, <1>5, <1>6, <1>7, <1>8, <1>9, <1>10, <1>11, <1>12
  DEF Next, vars, storeVars, Create, Launch, LaunchWithout, Inspect, Check, Prune, Abort, Die, Failed,
      RecoverCheck, RecoverClone, Nest, Tick

\* A snapshot goes only with a set that is unpinned, old enough and not among the
\* newest of its root, and only by the deletion of that very set; one that is
\* writable only if it was made so after the prune had looked.
THEOREM PrunesDeleteThePlanned == ASSUME Parameters PROVE Spec => PruneSpares
<1>1. ASSUME IInv, [Next]_vars, NEW id \in Ids, NEW p \in Places,
             sets[id].members[p].disk # "none", sets'[id].members[p].disk = "none"
      PROVE  /\ sets[id].members[p].disk = "writable" => id \in job.late
             /\ ~ sets[id].pinned /\ day - sets[id].day >= MinAge
             /\ Cardinality(Newer(id)) >= KeepLast
             /\ job.step = "delete" /\ job.id = id
  <2>1. job.step = "delete" /\ job.id = id
    BY <1>1, OnlyDeleted
  <2>2. id \in job.plan
    BY <1>1, <2>1 DEF IInv, JobIsSound
  <2> QED
    BY <1>1, <2>1, <2>2 DEF IInv, NewerRemain
<1>2. ASSUME IInv, [Next]_vars PROVE [Spares]_storeVars
  BY <1>1, <1>2 DEF Spares
<1> QED
  BY <1>2, StoreInvariant, PTL DEF Spec, PruneSpares
================================================================================
