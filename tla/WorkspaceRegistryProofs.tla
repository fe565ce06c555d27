---------------------- MODULE WorkspaceRegistryProofs ----------------------
(***************************************************************************)
(* Machine-checked proofs about WorkspaceRegistry, for any number of       *)
(* processes, names, identities, tokens and chats.                         *)
(***************************************************************************)
EXTENDS WorkspaceRegistry, TLAPS

\* The sentinels have the types of what they stand in for.
LEMMA Sentinels ==
  /\ Idle \in Operation /\ NoGuard \in Guard
  /\ NoRecord \in Record /\ NoLease \in Lease /\ Absent \in Directory
BY DEF Idle, Operation, NoGuard, Guard, NoRecord, Record, NoLease, Lease, Absent,
       Directory, Maybe, Locked

\* Saving a record keeps the registry well typed.
LEMMA SaveRecord ==
  ASSUME NEW f \in [Id -> Record], NEW i, NEW value, i \in Id => value \in Record
  PROVE  [f EXCEPT ![i] = value] \in [Id -> Record]
OBVIOUS

\* The records stay well typed.
LEMMA RecordsTyped == TypeOK /\ Next => rec' \in [Id -> Record]
<1> SUFFICES ASSUME TypeOK, Next PROVE rec' \in [Id -> Record]
  OBVIOUS
<1>0. rec \in [Id -> Record] /\ op \in [Proc -> Operation] /\ guard \in [Proc -> Guard]
  BY DEF TypeOK
<1>1. ASSUME NEW p \in Proc, NEW t \in Token, AttachGrant(p, t)
      PROVE  rec' \in [Id -> Record]
  <2> DEFINE i == op[p].id
             granted == [token |-> t, owner |-> p, children |-> {}]
             chats == rec[i].chats \cup ({op[p].chat} \ {None})
             value == [[rec[i] EXCEPT !.lease = granted] EXCEPT !.chats = chats]
  <2>1. rec' = [rec EXCEPT ![i] = value]
    BY <1>1 DEF AttachGrant
  <2>2. granted \in Lease
    BY DEF Lease, Maybe
  <2>3. i \in Id => chats \in SUBSET Thread
    BY <1>0 DEF Operation, Record, Maybe
  <2>4. i \in Id => value \in Record
    BY <1>0, <2>2, <2>3 DEF Record
  <2> HIDE DEF value, i
  <2>5. QED
    BY <1>0, <2>1, <2>4, SaveRecord
<1>2. ASSUME NEW p \in Proc, AttachShare(p) PROVE rec' \in [Id -> Record]
  <2> DEFINE i == op[p].id
             value == [rec[i] EXCEPT !.chats = @ \cup ({op[p].chat} \ {None})]
  <2>1. rec' = [rec EXCEPT ![i] = value]
    BY <1>2 DEF AttachShare
  <2>2. i \in Id => value \in Record
    BY <1>0 DEF Operation, Record, Maybe
  <2> HIDE DEF value, i
  <2>3. QED
    BY <1>0, <2>1, <2>2, SaveRecord
<1>3. ASSUME NEW p \in Proc, NEW c \in Proc, TrackChild(p, c)
      PROVE  rec' \in [Id -> Record]
  <2> DEFINE i == guard[p].id
             lease == [rec[i].lease EXCEPT !.children = @ \cup {c}]
             value == [rec[i] EXCEPT !.lease = lease]
  <2>1. rec' = [rec EXCEPT ![i] = value]
    BY <1>3 DEF TrackChild
  <2>2. i \in Id => lease \in Lease
    BY <1>0 DEF Record, Lease
  <2>3. i \in Id => value \in Record
    BY <1>0, <2>2 DEF Record
  <2> HIDE DEF value, i
  <2>4. QED
    BY <1>0, <2>1, <2>3, SaveRecord
<1>4. ASSUME NEW p \in Proc, RegisterNativeHome(p) PROVE rec' \in [Id -> Record]
  <2> DEFINE i == guard[p].id
             value == [rec[i] EXCEPT !.native = TRUE]
  <2>1. rec' = [rec EXCEPT ![i] = value]
    BY <1>4 DEF RegisterNativeHome
  <2>2. i \in Id => value \in Record
    BY <1>0 DEF Record
  <2> HIDE DEF value, i
  <2>3. QED
    BY <1>0, <2>1, <2>2, SaveRecord
<1>5. ASSUME NEW p \in Proc, Drop(p) PROVE rec' \in [Id -> Record]
  <2> DEFINE i == guard[p].id
             value == [rec[i] EXCEPT !.lease = NoLease]
  <2>1. rec' = rec \/ rec' = [rec EXCEPT ![i] = value]
    BY <1>5 DEF Drop
  <2>2. i \in Id => value \in Record
    BY <1>0, Sentinels DEF Record
  <2> HIDE DEF value, i
  <2>3. QED
    BY <1>0, <2>1, <2>2, SaveRecord
<1>6. ASSUME NEW p \in Proc, CreateSave(p) PROVE rec' \in [Id -> Record]
  <2>1. op[p].name \in Maybe(Name)
    BY <1>0 DEF Operation
  <2>2. [NoRecord EXCEPT !.state = "live", !.name = op[p].name] \in Record
    BY <2>1, Sentinels DEF Record, NoRecord
  <2>3. QED
    BY <1>0, <1>6, <2>2, SaveRecord DEF CreateSave
<1>7. ASSUME NEW p \in Proc, NEW n \in Name, NEW keep \in BOOLEAN, Pin(p, n, keep)
      PROVE  rec' \in [Id -> Record]
  <2>1. PICK i \in Id : rec' = [rec EXCEPT ![i] = [rec[i] EXCEPT !.pinned = keep]]
    BY <1>7 DEF Pin, LiveNamed
  <2>2. [rec[i] EXCEPT !.pinned = keep] \in Record
    BY <1>0 DEF Record
  <2>3. QED
    BY <1>0, <2>1, <2>2, SaveRecord
<1>8. ASSUME NEW p \in Proc, RemoveSave(p) PROVE rec' \in [Id -> Record]
  <2> DEFINE i == op[p].id
             value == [[rec[i] EXCEPT !.state = "deleted"] EXCEPT !.lease = NoLease]
  <2>1. rec' = [rec EXCEPT ![i] = value]
    BY <1>8 DEF RemoveSave
  <2>2. i \in Id => value \in Record
    BY <1>0, Sentinels DEF Record
  <2> HIDE DEF value, i
  <2>3. QED
    BY <1>0, <2>1, <2>2, SaveRecord
<1>9. rec' = rec => rec' \in [Id -> Record]
  BY <1>0
<1>10. ASSUME NEW p \in Proc, ProcessStep(p) PROVE rec' \in [Id -> Record]
  BY <1>1, <1>2, <1>3, <1>4, <1>5, <1>6, <1>7, <1>8, <1>9, <1>10
     DEF ProcessStep, Spawn, Die, Exec, AttachDiscover, AttachRefuse, CreateSnapshot,
         CreateMark, RemoveCheck, RemoveDelete, Fail, Edit, registryVars
<1>11. QED
  BY <1>9, <1>10 DEF Next, Tamper

\* The directories stay well typed.
LEMMA DirectoriesTyped == TypeOK /\ Next => disk' \in [Name -> Directory]
<1> SUFFICES ASSUME TypeOK, Next PROVE disk' \in [Name -> Directory]
  OBVIOUS
<1>0. disk \in [Name -> Directory] /\ op \in [Proc -> Operation]
  BY DEF TypeOK
<1>1. ASSUME NEW p \in Proc, NEW n \in Name, NEW i \in Id, NEW m \in Maybe(Id),
             NEW changed \in BOOLEAN, CreateSnapshot(p, n, i, m, changed)
      PROVE  disk' \in [Name -> Directory]
  <2>1. [present |-> TRUE, vol |-> i, marker |-> m, dirty |-> changed,
         leased |-> FALSE] \in Directory
    BY DEF Directory, Maybe
  <2>2. QED
    BY <1>0, <1>1, <2>1 DEF CreateSnapshot
<1>2. ASSUME NEW p \in Proc, CreateMark(p) PROVE disk' \in [Name -> Directory]
  <2>1. op[p].id \in Maybe(Id)
    BY <1>0 DEF Operation
  <2> DEFINE n == op[p].name
             value == [[disk[n] EXCEPT !.vol = op[p].id] EXCEPT !.marker = op[p].id]
  <2>2. disk' = [disk EXCEPT ![n] = value]
    BY <1>2 DEF CreateMark
  <2>3. n \in Name => value \in Directory
    BY <1>0, <2>1 DEF Directory
  <2> HIDE DEF value, n
  <2>4. QED
    BY <1>0, <2>2, <2>3
<1>3. ASSUME NEW p \in Proc, RemoveDelete(p) PROVE disk' \in [Name -> Directory]
  BY <1>0, <1>3, Sentinels DEF RemoveDelete
<1>4. ASSUME NEW p \in Proc, NEW i \in Id, Edit(p, i)
      PROVE  disk' \in [Name -> Directory]
  <2> DEFINE n == rec[i].name
             leased == disk[n].leased \/ p \in Users(rec[i].lease)
  <2>1. disk' = [disk EXCEPT ![n] =
                  [[disk[n] EXCEPT !.dirty = TRUE] EXCEPT !.leased = leased]]
    BY <1>4 DEF Edit
  <2>2. leased \in BOOLEAN
    BY <1>0 DEF Directory
  <2>3. n \in Name => [[disk[n] EXCEPT !.dirty = TRUE] EXCEPT !.leased = leased]
                        \in Directory
    BY <1>0, <2>2 DEF Directory
  <2>4. QED
    BY <1>0, <2>1, <2>3
<1>5. ASSUME NEW n \in Name, Tamper(n) PROVE disk' \in [Name -> Directory]
  <2>1. [disk[n] EXCEPT !.marker = None] \in Directory
    BY <1>0 DEF Directory, Maybe
  <2>2. [[disk[n] EXCEPT !.vol = None] EXCEPT !.leased = FALSE] \in Directory
    BY <1>0 DEF Directory, Maybe
  <2>3. \/ disk' = [disk EXCEPT ![n] = Absent]
        \/ disk' = [disk EXCEPT ![n] = [disk[n] EXCEPT !.marker = None]]
        \/ disk' = [disk EXCEPT ![n] =
                      [[disk[n] EXCEPT !.vol = None] EXCEPT !.leased = FALSE]]
    BY <1>5 DEF Tamper
  <2>4. QED
    BY <1>0, <2>1, <2>2, <2>3, Sentinels
<1>6. disk' = disk => disk' \in [Name -> Directory]
  BY <1>0
<1>7. ASSUME NEW p \in Proc, ProcessStep(p) PROVE disk' \in [Name -> Directory]
  BY <1>1, <1>2, <1>3, <1>4, <1>6, <1>7
     DEF ProcessStep, Spawn, Die, Exec, AttachDiscover, AttachGrant, AttachShare,
         AttachRefuse, TrackChild, RegisterNativeHome, Drop, CreateSave, Pin,
         RemoveCheck, RemoveSave, Fail, registryVars
<1>8. QED
  BY <1>5, <1>7 DEF Next

\* The operations in progress and the lock stay well typed.
LEMMA OperationsTyped ==
  TypeOK /\ Next => /\ op' \in [Proc -> Operation]
                    /\ \A p \in Proc : op'[p].kind # "idle" => op'[p].id \in Id
                    /\ lock' \in Maybe(Proc)
<1> DEFINE Goal == /\ op' \in [Proc -> Operation]
                   /\ \A p \in Proc : op'[p].kind # "idle" => op'[p].id \in Id
                   /\ lock' \in Maybe(Proc)
<1> SUFFICES ASSUME TypeOK, Next PROVE Goal
  OBVIOUS
<1>0. /\ op \in [Proc -> Operation] /\ lock \in Maybe(Proc) /\ None \in Maybe(Proc)
      /\ \A p \in Proc : op[p].kind # "idle" => op[p].id \in Id
      /\ Idle.kind = "idle"
  BY DEF TypeOK, Maybe, Idle
<1>1. ASSUME NEW p \in Proc, op' = [op EXCEPT ![p] = Idle], lock' \in {lock, None}
      PROVE  Goal
  BY <1>0, <1>1, Sentinels
<1>2. ASSUME NEW p \in Proc, NEW n \in Name, NEW i \in Id, NEW c \in Maybe(Thread),
             AttachDiscover(p, n, i, c)
      PROVE  Goal
  <2>1. [Idle EXCEPT !.kind = "attach", !.id = i, !.chat = c] \in Operation
    BY DEF Idle, Operation, Maybe
  <2>2. QED
    BY <1>0, <1>2, <2>1 DEF AttachDiscover
<1>3. ASSUME NEW p \in Proc, NEW n \in Name, NEW i \in Id, NEW m \in Maybe(Id),
             NEW changed \in BOOLEAN, CreateSnapshot(p, n, i, m, changed)
      PROVE  Goal
  <2>1. [Idle EXCEPT !.kind = "created", !.id = i, !.name = n] \in Operation
    BY DEF Idle, Operation, Maybe, Locked
  <2>2. QED
    BY <1>0, <1>3, <2>1 DEF CreateSnapshot, Maybe
<1>4. ASSUME NEW p \in Proc, NEW n \in Name, NEW discard \in BOOLEAN,
             NEW detach \in BOOLEAN, RemoveCheck(p, n, discard, detach)
      PROVE  Goal
  <2>1. PICK i \in Id : op' = [op EXCEPT ![p] = [Idle EXCEPT !.kind = "remove",
                            !.id = i, !.discard = discard, !.detach = detach]]
    BY <1>4 DEF RemoveCheck, LiveNamed
  <2> DEFINE value == [Idle EXCEPT !.kind = "remove", !.id = i, !.discard = discard,
                                   !.detach = detach]
  <2>2. value \in Operation /\ value.id \in Id
    BY DEF Idle, Operation, Maybe, Locked
  <2>3. op' = [op EXCEPT ![p] = value] /\ lock' = p
    BY <1>4, <2>1 DEF RemoveCheck
  <2> HIDE DEF value
  <2>4. QED
    BY <1>0, <2>2, <2>3 DEF Maybe
<1>5. ASSUME NEW p \in Proc, NEW k \in {"marked", "deleted"},
             op[p].kind # "idle", op' = [op EXCEPT ![p].kind = k], lock' = lock
      PROVE  Goal
  <2>1. op' = [op EXCEPT ![p] = [op[p] EXCEPT !.kind = k]]
    BY <1>5
  <2>2. /\ [op[p] EXCEPT !.kind = k] \in Operation
        /\ [op[p] EXCEPT !.kind = k].id \in Id
    BY <1>0, <1>5 DEF Operation, Locked
  <2>3. QED
    BY <1>0, <1>5, <2>1, <2>2
<1>6. op' = op /\ lock' = lock => Goal
  BY <1>0
<1> HIDE DEF Goal
<1>7. ASSUME NEW p \in Proc, ProcessStep(p) PROVE Goal
  BY <1>1, <1>2, <1>3, <1>4, <1>5, <1>6, <1>7
     DEF ProcessStep, Spawn, Die, Exec, AttachGrant, AttachShare, AttachRefuse,
         TrackChild, RegisterNativeHome, Drop, CreateMark, CreateSave, Pin,
         RemoveDelete, RemoveSave, Fail, Edit, registryVars
<1>8. QED
  BY <1>6, <1>7 DEF Next, Tamper

\* What belongs to the processes themselves stays well typed.
LEMMA ProcessesTyped ==
  TypeOK /\ Next => /\ status' \in [Proc -> {"unborn", "alive", "dead"}]
                    /\ env' \in [Proc -> Maybe(Token)]
                    /\ guard' \in [Proc -> Guard]
<1> DEFINE Goal == /\ status' \in [Proc -> {"unborn", "alive", "dead"}]
                   /\ env' \in [Proc -> Maybe(Token)]
                   /\ guard' \in [Proc -> Guard]
<1> SUFFICES ASSUME TypeOK, Next PROVE Goal
  OBVIOUS
<1>0. /\ status \in [Proc -> {"unborn", "alive", "dead"}]
      /\ env \in [Proc -> Maybe(Token)] /\ None \in Maybe(Token)
      /\ guard \in [Proc -> Guard] /\ op \in [Proc -> Operation] /\ rec \in [Id -> Record]
  BY DEF TypeOK, Maybe
<1>1. ASSUME NEW c \in Proc, Spawn(c) PROVE Goal
  <2> DEFINE parent == CHOOSE q \in Ancestors[c] : Ancestors[c] = Ancestors[q] \cup {q}
             token == IF Ancestors[c] = {} THEN None
                      ELSE IF guard[parent].token # None
                           THEN guard[parent].token ELSE env[parent]
  <2>1. env' = [env EXCEPT ![c] = token]
    BY <1>1 DEF Spawn
  <2>2. Ancestors[c] # {} => parent \in Proc
    <3>1. Ancestors[c] \subseteq Proc
      BY TreeAssumption
    <3>2. QED
      BY <1>1, <3>1 DEF Spawn, Alive
  <2>3. token \in Maybe(Token)
    BY <1>0, <2>2 DEF Guard
  <2>4. QED
    BY <1>0, <1>1, <2>1, <2>3 DEF Spawn
<1>2. ASSUME NEW p \in Proc, Die(p) PROVE Goal
  BY <1>0, <1>2, Sentinels DEF Die
<1>3. ASSUME NEW p \in Proc, Exec(p) PROVE Goal
  <2>1. guard[p].token \in Maybe(Token)
    BY <1>0 DEF Guard
  <2>2. QED
    BY <1>0, <1>3, <2>1, Sentinels DEF Exec
<1>4. ASSUME NEW p \in Proc, NEW t \in Token, AttachGrant(p, t) PROVE Goal
  <2>1. [id |-> op[p].id, token |-> t, owned |-> TRUE] \in Guard
    BY <1>0 DEF Operation, Guard, Maybe
  <2>2. QED
    BY <1>0, <1>4, <2>1 DEF AttachGrant
<1>5. ASSUME NEW p \in Proc, AttachShare(p) PROVE Goal
  <2>1. op[p].id \in Id
    BY <1>5 DEF AttachShare, StillThere, TypeOK
  <2>2. rec[op[p].id].lease.token \in Maybe(Token)
    BY <1>0, <2>1 DEF Record, Lease
  <2>3. [id |-> op[p].id, token |-> rec[op[p].id].lease.token, owned |-> FALSE] \in Guard
    BY <2>1, <2>2 DEF Guard, Maybe
  <2>4. QED
    BY <1>0, <1>5, <2>3 DEF AttachShare
<1>6. ASSUME NEW p \in Proc, Drop(p) PROVE Goal
  BY <1>0, <1>6, Sentinels DEF Drop
<1>7. status' = status /\ env' = env /\ guard' = guard => Goal
  BY <1>0
<1> HIDE DEF Goal
<1>8. ASSUME NEW p \in Proc, ProcessStep(p) PROVE Goal
  BY <1>1, <1>2, <1>3, <1>4, <1>5, <1>6, <1>7, <1>8
     DEF ProcessStep, AttachDiscover, AttachRefuse, TrackChild, RegisterNativeHome,
         CreateSnapshot, CreateMark, CreateSave, Pin, RemoveCheck, RemoveDelete,
         RemoveSave, Fail, Edit
<1>9. QED
  BY <1>7, <1>8 DEF Next, Tamper

\* Every variable keeps its type.
THEOREM TypeCorrect == Spec => []TypeOK
<1>1. Init => TypeOK
  BY Sentinels DEF Init, TypeOK, Maybe, Idle
<1>2. TypeOK /\ [Next]_vars => TypeOK'
  <2>1. TypeOK /\ Next => TypeOK'
    BY RecordsTyped, DirectoriesTyped, OperationsTyped, ProcessesTyped DEF TypeOK
  <2>2. TypeOK /\ UNCHANGED vars => TypeOK'
    BY DEF TypeOK, vars
  <2>3. QED
    BY <2>1, <2>2
<1>3. QED
  BY <1>1, <1>2, PTL DEF Spec

-----------------------------------------------------------------------------
(* Effects: what a step does to the records, field by field.               *)

\* A record keeps everything but its lease and its chats.
Kept(j) == /\ rec'[j].state = rec[j].state
           /\ rec'[j].name = rec[j].name
           /\ rec'[j].pinned = rec[j].pinned
           /\ rec'[j].native = rec[j].native

LEMMA GrantEffect ==
  ASSUME TypeOK, NEW p \in Proc, NEW t \in Token, AttachGrant(p, t)
  PROVE  /\ op[p].id \in Id
         /\ \A j \in Id : Kept(j)
         /\ \A j \in Id \ {op[p].id} : rec'[j] = rec[j]
         /\ rec'[op[p].id].lease = [token |-> t, owner |-> p, children |-> {}]
         /\ rec'[op[p].id].chats =
              rec[op[p].id].chats \cup ({op[p].chat} \ {None})
<1> DEFINE i == op[p].id
           granted == [token |-> t, owner |-> p, children |-> {}]
           chats == rec[i].chats \cup ({op[p].chat} \ {None})
           value == [[rec[i] EXCEPT !.lease = granted] EXCEPT !.chats = chats]
<1>1. rec' = [rec EXCEPT ![i] = value]
  BY DEF AttachGrant
<1>2. i \in Id /\ rec \in [Id -> Record]
  BY DEF AttachGrant, StillThere, TypeOK
<1>3. /\ value.lease = granted /\ value.chats = chats
      /\ value.state = rec[i].state /\ value.name = rec[i].name
      /\ value.pinned = rec[i].pinned /\ value.native = rec[i].native
  BY <1>2 DEF Record
<1> HIDE DEF value
<1>4. QED
  BY <1>1, <1>2, <1>3 DEF Kept

LEMMA ShareEffect ==
  ASSUME TypeOK, NEW p \in Proc, AttachShare(p)
  PROVE  /\ op[p].id \in Id
         /\ \A j \in Id : Kept(j) /\ rec'[j].lease = rec[j].lease
         /\ \A j \in Id \ {op[p].id} : rec'[j] = rec[j]
         /\ rec'[op[p].id].chats =
              rec[op[p].id].chats \cup ({op[p].chat} \ {None})
<1> DEFINE i == op[p].id
           chats == rec[i].chats \cup ({op[p].chat} \ {None})
           value == [rec[i] EXCEPT !.chats = chats]
<1>1. rec' = [rec EXCEPT ![i] = value]
  BY DEF AttachShare
<1>2. i \in Id /\ rec \in [Id -> Record]
  BY DEF AttachShare, StillThere, TypeOK
<1>3. /\ value.lease = rec[i].lease /\ value.chats = chats
      /\ value.state = rec[i].state /\ value.name = rec[i].name
      /\ value.pinned = rec[i].pinned /\ value.native = rec[i].native
  BY <1>2 DEF Record
<1> HIDE DEF value
<1>4. QED
  BY <1>1, <1>2, <1>3 DEF Kept

LEMMA TrackEffect ==
  ASSUME TypeOK, GuardInv, NEW p \in Proc, NEW c \in Proc, TrackChild(p, c)
  PROVE  LET i == guard[p].id IN
         /\ i \in Id
         /\ \A j \in Id : Kept(j) /\ rec'[j].chats = rec[j].chats
         /\ \A j \in Id \ {i} : rec'[j] = rec[j]
         /\ rec'[i].lease.token = rec[i].lease.token
         /\ rec'[i].lease.owner = rec[i].lease.owner
         /\ rec'[i].lease.children = rec[i].lease.children \cup {c}
<1> DEFINE i == guard[p].id
           lease == [rec[i].lease EXCEPT !.children = @ \cup {c}]
           value == [rec[i] EXCEPT !.lease = lease]
<1>1. rec' = [rec EXCEPT ![i] = value]
  BY DEF TrackChild
<1>2. i \in Id /\ rec \in [Id -> Record]
  BY DEF TrackChild, GuardInv, TypeOK
<1>3. rec[i].lease \in Lease
  BY <1>2 DEF Record
<1>4. /\ lease.token = rec[i].lease.token /\ lease.owner = rec[i].lease.owner
      /\ lease.children = rec[i].lease.children \cup {c}
  BY <1>3 DEF Lease
<1> HIDE DEF lease
<1>5. /\ value.lease = lease /\ value.chats = rec[i].chats
      /\ value.state = rec[i].state /\ value.name = rec[i].name
      /\ value.pinned = rec[i].pinned /\ value.native = rec[i].native
  BY <1>2 DEF Record
<1> HIDE DEF value
<1>6. QED
  BY <1>1, <1>2, <1>4, <1>5 DEF Kept

\* Pinning and native homes touch one flag; nothing else follows from them.
LEMMA FlagEffect ==
  ASSUME TypeOK, NEW p \in Proc,
         \/ RegisterNativeHome(p)
         \/ \E n \in Name, keep \in BOOLEAN : Pin(p, n, keep)
  PROVE  \A j \in Id : /\ rec'[j].state = rec[j].state
                       /\ rec'[j].name = rec[j].name
                       /\ rec'[j].chats = rec[j].chats
                       /\ rec'[j].lease = rec[j].lease
<1>0. rec \in [Id -> Record]
  BY DEF TypeOK
<1>1. CASE RegisterNativeHome(p)
  <2> DEFINE i == guard[p].id
             value == [rec[i] EXCEPT !.native = TRUE]
  <2>1. rec' = [rec EXCEPT ![i] = value]
    BY <1>1 DEF RegisterNativeHome
  <2>2. i \in Id => /\ value.lease = rec[i].lease /\ value.chats = rec[i].chats
                    /\ value.state = rec[i].state /\ value.name = rec[i].name
    BY <1>0 DEF Record
  <2> HIDE DEF value
  <2>3. QED
    BY <1>0, <2>1, <2>2
<1>2. ASSUME NEW n \in Name, NEW keep \in BOOLEAN, Pin(p, n, keep)
      PROVE  \A j \in Id : /\ rec'[j].state = rec[j].state
                           /\ rec'[j].name = rec[j].name
                           /\ rec'[j].chats = rec[j].chats
                           /\ rec'[j].lease = rec[j].lease
  <2>1. PICK i \in Id : rec' = [rec EXCEPT ![i] = [rec[i] EXCEPT !.pinned = keep]]
    BY <1>2 DEF Pin, LiveNamed
  <2> DEFINE value == [rec[i] EXCEPT !.pinned = keep]
  <2>2. /\ value.lease = rec[i].lease /\ value.chats = rec[i].chats
        /\ value.state = rec[i].state /\ value.name = rec[i].name
    BY <1>0 DEF Record
  <2>3. rec' = [rec EXCEPT ![i] = value]
    BY <2>1
  <2> HIDE DEF value
  <2>4. QED
    BY <1>0, <2>2, <2>3
<1>3. QED
  BY <1>1, <1>2

LEMMA DropEffect ==
  ASSUME TypeOK, GuardInv, NEW p \in Proc, Drop(p)
  PROVE  LET i == guard[p].id IN
         /\ i \in Id
         /\ \A j \in Id : Kept(j) /\ rec'[j].chats = rec[j].chats
         /\ \A j \in Id \ {i} : rec'[j] = rec[j]
         /\ \/ rec' = rec /\ ~(guard[p].owned /\ rec[i].lease.token = guard[p].token
                               /\ rec[i].lease.owner = p)
            \/ /\ guard[p].owned /\ rec[i].lease.owner = p
               /\ rec[i].lease.token = guard[p].token
               /\ rec'[i].lease = NoLease
<1> DEFINE i == guard[p].id
           value == [rec[i] EXCEPT !.lease = NoLease]
<1>1. \/ rec' = rec /\ ~(guard[p].owned /\ rec[i].lease.token = guard[p].token
                         /\ rec[i].lease.owner = p)
      \/ /\ guard[p].owned /\ rec[i].lease.owner = p
         /\ rec[i].lease.token = guard[p].token
         /\ rec' = [rec EXCEPT ![i] = value]
  BY DEF Drop
<1>2. i \in Id /\ rec \in [Id -> Record]
  BY DEF Drop, GuardInv, TypeOK
<1>3. /\ value.lease = NoLease /\ value.chats = rec[i].chats
      /\ value.state = rec[i].state /\ value.name = rec[i].name
      /\ value.pinned = rec[i].pinned /\ value.native = rec[i].native
  BY <1>2 DEF Record
<1> HIDE DEF value
<1>4. QED
  BY <1>1, <1>2, <1>3 DEF Kept

LEMMA CreateSaveEffect ==
  ASSUME TypeOK, NEW p \in Proc, CreateSave(p)
  PROVE  /\ op[p].id \in Id
         /\ \A j \in Id \ {op[p].id} : rec'[j] = rec[j]
         /\ rec'[op[p].id].state = "live" /\ rec'[op[p].id].name = op[p].name
         /\ rec'[op[p].id].chats = {} /\ rec'[op[p].id].lease = NoLease
BY DEF CreateSave, TypeOK, NoRecord

LEMMA RemoveSaveEffect ==
  ASSUME TypeOK, NEW p \in Proc, RemoveSave(p)
  PROVE  LET i == op[p].id IN
         /\ i \in Id
         /\ \A j \in Id \ {i} : rec'[j] = rec[j]
         /\ rec'[i].state = "deleted" /\ rec'[i].lease = NoLease
         /\ rec'[i].name = rec[i].name /\ rec'[i].chats = rec[i].chats
<1> DEFINE i == op[p].id
           value == [[rec[i] EXCEPT !.state = "deleted"] EXCEPT !.lease = NoLease]
<1>1. rec' = [rec EXCEPT ![i] = value]
  BY DEF RemoveSave
<1>2. i \in Id /\ rec \in [Id -> Record]
  BY DEF RemoveSave, TypeOK
<1>3. /\ value.lease = NoLease /\ value.chats = rec[i].chats
      /\ value.state = "deleted" /\ value.name = rec[i].name
  BY <1>2 DEF Record
<1> HIDE DEF value
<1>4. QED
  BY <1>1, <1>2, <1>3

-----------------------------------------------------------------------------
(* The inductive invariant, one group of conjuncts at a time.              *)

\* The flock follows the operations that hold it.
LEMMA LockStep == TypeOK /\ LockInv /\ Next => LockInv'
<1> SUFFICES ASSUME TypeOK, LockInv, Next PROVE LockInv'
  OBVIOUS
<1>0. /\ op \in [Proc -> Operation] /\ None \notin Proc
      /\ Idle.kind \notin Locked /\ "attach" \notin Locked
      /\ \A p \in Proc : op[p].kind \in Locked <=> lock = p
  BY NoneAssumption DEF TypeOK, LockInv, Idle, Locked
<1>1. ASSUME NEW p \in Proc, op[p].kind \notin Locked,
             op' = [op EXCEPT ![p] = Idle], lock' = lock
      PROVE  LockInv'
  BY <1>0, <1>1 DEF LockInv
<1>2. ASSUME NEW p \in Proc, op[p].kind \in Locked,
             op' = [op EXCEPT ![p] = Idle], lock' = None
      PROVE  LockInv'
  BY <1>0, <1>2 DEF LockInv
<1>3. ASSUME NEW p \in Proc, Die(p) PROVE LockInv'
  BY <1>0, <1>3 DEF LockInv, Die
<1>4. ASSUME NEW p \in Proc, NEW n \in Name, NEW i \in Id, NEW c \in Maybe(Thread),
             AttachDiscover(p, n, i, c)
      PROVE  LockInv'
  <2>1. op'[p].kind = "attach" /\ \A q \in Proc \ {p} : op'[q] = op[q]
    BY <1>0, <1>4 DEF AttachDiscover, Idle
  <2>2. op[p].kind \notin Locked /\ lock' = lock
    BY <1>0, <1>4 DEF AttachDiscover, Ready
  <2>3. QED
    BY <1>0, <2>1, <2>2 DEF LockInv
<1>5. ASSUME NEW p \in Proc, NEW n \in Name, NEW i \in Id, NEW m \in Maybe(Id),
             NEW changed \in BOOLEAN, CreateSnapshot(p, n, i, m, changed)
      PROVE  LockInv'
  <2>1. op'[p].kind \in Locked /\ \A q \in Proc \ {p} : op'[q] = op[q]
    BY <1>0, <1>5 DEF CreateSnapshot, Idle, Locked
  <2>2. lock = None /\ lock' = p
    BY <1>5 DEF CreateSnapshot
  <2>3. QED
    BY <1>0, <2>1, <2>2 DEF LockInv
<1>6. ASSUME NEW p \in Proc, NEW n \in Name, NEW discard \in BOOLEAN,
             NEW detach \in BOOLEAN, RemoveCheck(p, n, discard, detach)
      PROVE  LockInv'
  <2>1. op'[p].kind \in Locked /\ \A q \in Proc \ {p} : op'[q] = op[q]
    BY <1>0, <1>6 DEF RemoveCheck, Idle, Locked
  <2>2. lock = None /\ lock' = p
    BY <1>6 DEF RemoveCheck
  <2>3. QED
    BY <1>0, <2>1, <2>2 DEF LockInv
<1>7. ASSUME NEW p \in Proc, NEW k \in {"marked", "deleted"}, op[p].kind \in Locked,
             op' = [op EXCEPT ![p].kind = k], lock' = lock
      PROVE  LockInv'
  <2>1. op'[p].kind = k /\ \A q \in Proc \ {p} : op'[q] = op[q]
    BY <1>0, <1>7 DEF Operation
  <2>2. k \in Locked
    BY DEF Locked
  <2>3. QED
    BY <1>0, <1>7, <2>1, <2>2 DEF LockInv
<1>8. op' = op /\ lock' = lock => LockInv'
  BY <1>0 DEF LockInv
<1>9. ASSUME NEW p \in Proc, CreateMark(p) \/ RemoveDelete(p) PROVE LockInv'
  BY <1>7, <1>9 DEF CreateMark, RemoveDelete, Locked
<1>10. ASSUME NEW p \in Proc,
              AttachShare(p) \/ AttachRefuse(p) \/ \E t \in Token : AttachGrant(p, t)
       PROVE  LockInv'
  BY <1>0, <1>1, <1>10 DEF AttachShare, AttachRefuse, AttachGrant, StillThere
<1>11. ASSUME NEW p \in Proc, CreateSave(p) \/ RemoveSave(p) \/ Fail(p) PROVE LockInv'
  BY <1>2, <1>11 DEF CreateSave, RemoveSave, Fail, Locked
<1>12. ASSUME NEW p \in Proc, ProcessStep(p) PROVE LockInv'
  BY <1>3, <1>4, <1>5, <1>6, <1>8, <1>9, <1>10, <1>11, <1>12
     DEF ProcessStep, Spawn, Exec, TrackChild, RegisterNativeHome, Drop, Pin, Edit,
         registryVars
<1>13. QED
  BY <1>8, <1>12 DEF Next, Tamper

\* A process that is not alive is in the middle of nothing.
LEMMA QuietStep == TypeOK /\ QuietInv /\ Next => QuietInv'
<1> SUFFICES ASSUME TypeOK, QuietInv, Next PROVE QuietInv'
  OBVIOUS
<1>0. /\ op \in [Proc -> Operation] /\ guard \in [Proc -> Guard]
      /\ status \in [Proc -> {"unborn", "alive", "dead"}]
      /\ Idle.kind = "idle"
      /\ \A p \in Proc : status[p] # "alive" => op[p] = Idle /\ guard[p] = NoGuard
  BY DEF TypeOK, QuietInv, Idle
<1>1. ASSUME NEW p \in Proc, status[p] = "alive", status' = status,
             \A q \in Proc \ {p} : op'[q] = op[q] /\ guard'[q] = guard[q]
      PROVE  QuietInv'
  BY <1>0, <1>1 DEF QuietInv
<1>2. ASSUME NEW p \in Proc, Spawn(p) PROVE QuietInv'
  BY <1>0, <1>2 DEF QuietInv, Spawn, registryVars
<1>3. ASSUME NEW p \in Proc, Die(p) PROVE QuietInv'
  BY <1>0, <1>3 DEF QuietInv, Die
<1>4. ASSUME NEW p \in Proc, Exec(p) PROVE QuietInv'
  BY <1>0, <1>1, <1>4 DEF Exec, Ready, registryVars
<1>5. ASSUME NEW p \in Proc,
             \/ AttachShare(p) \/ AttachRefuse(p)
             \/ \E t \in Token : AttachGrant(p, t)
             \/ \E n \in Name, i \in Id, c \in Maybe(Thread) : AttachDiscover(p, n, i, c)
      PROVE  QuietInv'
  BY <1>0, <1>1, <1>5
     DEF AttachShare, AttachRefuse, AttachGrant, AttachDiscover, StillThere, Ready
<1>6. ASSUME NEW p \in Proc,
             \/ CreateMark(p) \/ CreateSave(p) \/ RemoveDelete(p) \/ RemoveSave(p)
             \/ Fail(p)
      PROVE  QuietInv'
  BY <1>0, <1>1, <1>6
     DEF CreateMark, CreateSave, RemoveDelete, RemoveSave, Fail, Locked
<1>7. ASSUME NEW p \in Proc,
             \/ \E n \in Name, i \in Id, m \in Maybe(Id), changed \in BOOLEAN :
                  CreateSnapshot(p, n, i, m, changed)
             \/ \E n \in Name, discard, detach \in BOOLEAN :
                  RemoveCheck(p, n, discard, detach)
      PROVE  QuietInv'
  BY <1>0, <1>1, <1>7 DEF CreateSnapshot, RemoveCheck, Ready
<1>8. ASSUME NEW p \in Proc, Drop(p) PROVE QuietInv'
  BY <1>0, <1>1, <1>8 DEF Drop, Ready
<1>9. op' = op /\ guard' = guard /\ status' = status => QuietInv'
  BY <1>0 DEF QuietInv
<1>10. ASSUME NEW p \in Proc, ProcessStep(p) PROVE QuietInv'
  BY <1>2, <1>3, <1>4, <1>5, <1>6, <1>7, <1>8, <1>9, <1>10
     DEF ProcessStep, TrackChild, RegisterNativeHome, Pin, Edit
<1>11. QED
  BY <1>9, <1>10 DEF Next, Tamper

\* The conjuncts about records, guards and leases.
LeaseInv ==
  /\ RecordInv /\ GuardInv /\ UniqueLiveName /\ UniqueChatLink /\ OwnerHoldsLease
  /\ OneTreePerLease

\* What a step leaves alone when no name, chat, lease or guard is handed out;
\* processes may start and stop, and guards may vanish.
Untouched ==
  /\ \A j \in Id : /\ rec'[j].state = rec[j].state /\ rec'[j].name = rec[j].name
                   /\ rec'[j].chats = rec[j].chats /\ rec'[j].lease = rec[j].lease
  /\ \A p \in Proc : guard'[p] \in {guard[p], NoGuard}
  /\ \A p \in Proc : status[p] # "unborn" => status'[p] \in {status[p], "dead"}

\* A lease in use is not the empty lease.
LEMMA ActiveIsLeased == \A lease : Active(lease) => lease # NoLease
BY DEF Active, Users, NoLease

\* The empty guard owns nothing and no workspace.
LEMMA EmptyGuard ==
  ~NoGuard.owned /\ NoGuard.id \notin Id /\ NoGuard.token \notin Token
BY NoneAssumption DEF NoGuard

LEMMA UntouchedStep == ASSUME TypeOK, LeaseInv, Untouched PROVE LeaseInv'
<1>0. /\ status \in [Proc -> {"unborn", "alive", "dead"}]
      /\ rec \in [Id -> Record] /\ guard \in [Proc -> Guard]
  BY DEF TypeOK
<1>1. RecordInv'
  <2>1. ASSUME NEW i \in Id, NEW p \in Users(rec[i].lease) PROVE status'[p] # "unborn"
    <3>1. p \in Proc
      BY <1>0 DEF Users, Record, Lease, Maybe
    <3>2. QED
      BY <2>1, <3>1 DEF Untouched, LeaseInv, RecordInv
  <2>2. QED
    BY <2>1 DEF Untouched, LeaseInv, RecordInv, Users
<1>2. GuardInv'
  BY DEF Untouched, LeaseInv, GuardInv
<1>3. UniqueLiveName' /\ UniqueChatLink'
  BY DEF Untouched, LeaseInv, UniqueLiveName, UniqueChatLink
<1>4. OwnerHoldsLease'
  <2> SUFFICES ASSUME NEW p \in Proc, guard'[p].owned
               PROVE  /\ rec'[guard'[p].id].state = "live"
                      /\ rec'[guard'[p].id].lease.token = guard'[p].token
                      /\ rec'[guard'[p].id].lease.owner = p
    BY DEF OwnerHoldsLease
  <2>1. guard'[p] = guard[p] /\ guard[p] # NoGuard
    BY EmptyGuard DEF Untouched
  <2>2. guard[p].id \in Id
    BY <2>1 DEF LeaseInv, GuardInv
  <2>3. QED
    BY <2>1, <2>2 DEF Untouched, LeaseInv, OwnerHoldsLease
<1>5. OneTreePerLease'
  <2> SUFFICES ASSUME NEW i \in Id, NEW p \in Proc,
                      \/ guard'[p].id = i /\ guard'[p].token = rec'[i].lease.token
                      \/ p \in rec'[i].lease.children /\ status'[p] = "alive"
               PROVE  p = rec'[i].lease.owner \/ rec'[i].lease.owner \in Ancestors[p]
    BY DEF OneTreePerLease, Alive
  <2>1. guard'[p].id = i => guard'[p] = guard[p]
    BY EmptyGuard DEF Untouched
  <2>2. p \in rec[i].lease.children => p \in Users(rec[i].lease)
    BY NoneAssumption DEF Users
  <2>3. p \in rec[i].lease.children /\ status'[p] = "alive" => p \in Alive
    BY <1>0, <2>2 DEF Untouched, LeaseInv, RecordInv, Alive
  <2>4. QED
    BY <2>1, <2>3 DEF Untouched, LeaseInv, OneTreePerLease
<1>6. QED
  BY <1>1, <1>2, <1>3, <1>4, <1>5 DEF LeaseInv

\* Granting a lease: nobody else had one, or its users are dead.
LEMMA GrantStep ==
  ASSUME TypeOK, QuietInv, LeaseInv, NEW p \in Proc, NEW t \in Token, AttachGrant(p, t)
  PROVE  LeaseInv'
<1> DEFINE i == op[p].id
           c == op[p].chat
<1>0. /\ rec \in [Id -> Record] /\ guard \in [Proc -> Guard] /\ p # None /\ t # None
      /\ t # NoLease.token
  BY NoneAssumption DEF TypeOK, NoLease
<1>1. /\ i \in Id /\ \A j \in Id : Kept(j)
      /\ \A j \in Id \ {i} : rec'[j] = rec[j]
      /\ rec'[i].lease = [token |-> t, owner |-> p, children |-> {}]
      /\ rec'[i].chats = rec[i].chats \cup ({c} \ {None})
  BY GrantEffect
<1>2. /\ status' = status /\ status[p] = "alive"
      /\ rec[i].state = "live" /\ ChatAllowed(i, c)
      /\ ~Active(rec[i].lease) /\ FreshToken(t)
  <2>1. op[p] # Idle
    BY DEF AttachGrant, StillThere, Idle
  <2>2. QED
    BY <2>1 DEF AttachGrant, StillThere, QuietInv
<1>3. /\ guard'[p] = [id |-> i, token |-> t, owned |-> TRUE]
      /\ \A q \in Proc \ {p} : guard'[q] = guard[q]
  BY <1>0 DEF AttachGrant
<1> HIDE DEF i, c
<1>4. RecordInv'
  <2> SUFFICES ASSUME NEW j \in Id
               PROVE  /\ rec'[j].state = "free" => rec'[j].chats = {}
                      /\ rec'[j].state # "free" => rec'[j].name \in Name
                      /\ rec'[j].state # "live" => rec'[j].lease = NoLease
                      /\ \/ rec'[j].lease = NoLease
                         \/ /\ rec'[j].lease.token \in Token
                            /\ rec'[j].lease.owner \in Proc
                      /\ \A q \in Users(rec'[j].lease) : status'[q] # "unborn"
    BY DEF RecordInv, Users
  <2>1. CASE j = i
    BY <1>1, <1>2, <2>1 DEF Kept, LeaseInv, RecordInv, Users
  <2>2. CASE j # i
    BY <1>1, <1>2, <2>2 DEF LeaseInv, RecordInv
  <2>3. QED
    BY <2>1, <2>2
<1>5. GuardInv'
  BY <1>1, <1>2, <1>3 DEF LeaseInv, GuardInv, Kept
<1>6. UniqueLiveName'
  BY <1>1 DEF LeaseInv, UniqueLiveName, Kept
<1>7. UniqueChatLink'
  BY <1>1, <1>2 DEF LeaseInv, UniqueChatLink, ChatAllowed
<1>8. OwnerHoldsLease'
  <2> SUFFICES ASSUME NEW q \in Proc, guard'[q].owned
               PROVE  /\ rec'[guard'[q].id].state = "live"
                      /\ rec'[guard'[q].id].lease.token = guard'[q].token
                      /\ rec'[guard'[q].id].lease.owner = q
    BY DEF OwnerHoldsLease
  <2>1. CASE q = p
    BY <1>1, <1>2, <1>3, <2>1 DEF Kept
  <2>2. CASE q # p
    <3>1. /\ guard'[q] = guard[q] /\ guard[q] # NoGuard /\ guard[q].id \in Id
          /\ rec[guard[q].id].state = "live"
          /\ rec[guard[q].id].lease.token = guard[q].token
          /\ rec[guard[q].id].lease.owner = q
      BY <1>3, <2>2, EmptyGuard DEF LeaseInv, GuardInv, OwnerHoldsLease
    <3>2. q \in Alive /\ q # None
      BY <3>1, NoneAssumption DEF QuietInv, Alive
    <3>3. guard[q].id # i
      BY <1>2, <3>1, <3>2 DEF Active, Users
    <3>4. QED
      BY <1>1, <3>1, <3>3
  <2>3. QED
    BY <2>1, <2>2
<1>9. OneTreePerLease'
  <2> SUFFICES ASSUME NEW j \in Id, NEW q \in Proc,
                      \/ guard'[q].id = j /\ guard'[q].token = rec'[j].lease.token
                      \/ q \in rec'[j].lease.children /\ status'[q] = "alive"
               PROVE  q = rec'[j].lease.owner \/ rec'[j].lease.owner \in Ancestors[q]
    BY DEF OneTreePerLease, Alive
  <2>1. CASE q = p /\ j = i
    BY <1>1, <2>1
  <2>2. CASE q # p /\ j = i
    BY <1>1, <1>2, <1>3, <2>2 DEF FreshToken
  <2>3. CASE j # i
    <3>1. guard'[q].id = j => guard'[q] = guard[q]
      BY <1>3, <2>3
    <3>2. QED
      BY <1>1, <1>2, <2>3, <3>1 DEF LeaseInv, OneTreePerLease, Alive
  <2>4. QED
    BY <2>1, <2>2, <2>3
<1>10. QED
  BY <1>4, <1>5, <1>6, <1>7, <1>8, <1>9 DEF LeaseInv

\* Borrowing a lease: only inside the tree of its owner.
LEMMA ShareStep ==
  ASSUME TypeOK, LeaseInv, NEW p \in Proc, AttachShare(p)
  PROVE  LeaseInv'
<1> DEFINE i == op[p].id
           c == op[p].chat
<1>0. rec \in [Id -> Record] /\ guard \in [Proc -> Guard]
  BY DEF TypeOK
<1>1. /\ i \in Id /\ \A j \in Id : Kept(j) /\ rec'[j].lease = rec[j].lease
      /\ \A j \in Id \ {i} : rec'[j] = rec[j]
      /\ rec'[i].chats = rec[i].chats \cup ({c} \ {None})
  BY ShareEffect
<1>2. /\ status' = status /\ rec[i].state = "live" /\ ChatAllowed(i, c)
      /\ rec[i].lease # NoLease /\ MayShare(p, rec[i].lease)
  BY ActiveIsLeased DEF AttachShare, StillThere
<1>3. /\ guard'[p] = [id |-> i, token |-> rec[i].lease.token, owned |-> FALSE]
      /\ \A q \in Proc \ {p} : guard'[q] = guard[q]
  BY <1>0 DEF AttachShare
<1> HIDE DEF i, c
<1>4. RecordInv'
  BY <1>1, <1>2 DEF LeaseInv, RecordInv, Kept, Users
<1>5. GuardInv'
  BY <1>1, <1>2, <1>3 DEF LeaseInv, RecordInv, GuardInv, Kept
<1>6. UniqueLiveName'
  BY <1>1 DEF LeaseInv, UniqueLiveName, Kept
<1>7. UniqueChatLink'
  BY <1>1, <1>2 DEF LeaseInv, UniqueChatLink, ChatAllowed
<1>8. OwnerHoldsLease'
  <2> SUFFICES ASSUME NEW q \in Proc, guard'[q].owned
               PROVE  /\ rec'[guard'[q].id].state = "live"
                      /\ rec'[guard'[q].id].lease.token = guard'[q].token
                      /\ rec'[guard'[q].id].lease.owner = q
    BY DEF OwnerHoldsLease
  <2>1. guard'[q] = guard[q]
    BY <1>3
  <2>2. guard[q].id \in Id
    BY <2>1, EmptyGuard DEF LeaseInv, GuardInv
  <2>3. QED
    BY <1>1, <2>1, <2>2 DEF LeaseInv, OwnerHoldsLease, Kept
<1>9. OneTreePerLease'
  <2> SUFFICES ASSUME NEW j \in Id, NEW q \in Proc,
                      \/ guard'[q].id = j /\ guard'[q].token = rec'[j].lease.token
                      \/ q \in rec'[j].lease.children /\ status'[q] = "alive"
               PROVE  q = rec'[j].lease.owner \/ rec'[j].lease.owner \in Ancestors[q]
    BY DEF OneTreePerLease, Alive
  <2>1. CASE q = p /\ j = i
    BY <1>1, <1>2, <2>1 DEF MayShare, Descends
  <2>2. CASE q # p \/ j # i
    <3>1. guard'[q].id = j => guard'[q] = guard[q]
      BY <1>3, <2>2
    <3>2. QED
      BY <1>1, <1>2, <3>1 DEF LeaseInv, OneTreePerLease, Alive
  <2>3. QED
    BY <2>1, <2>2
<1>10. QED
  BY <1>4, <1>5, <1>6, <1>7, <1>8, <1>9 DEF LeaseInv

\* Tracking a child: it lives under the owner, or is dead already.
LEMMA TrackStep ==
  ASSUME TypeOK, LeaseInv, NEW p \in Proc, NEW c \in Proc, TrackChild(p, c)
  PROVE  LeaseInv'
<1> DEFINE i == guard[p].id
<1>0. rec \in [Id -> Record] /\ GuardInv /\ None \notin Token
  BY NoneAssumption DEF TypeOK, LeaseInv
<1>1. /\ i \in Id /\ \A j \in Id : Kept(j) /\ rec'[j].chats = rec[j].chats
      /\ \A j \in Id \ {i} : rec'[j] = rec[j]
      /\ rec'[i].lease.token = rec[i].lease.token
      /\ rec'[i].lease.owner = rec[i].lease.owner
      /\ rec'[i].lease.children = rec[i].lease.children \cup {c}
  BY <1>0, TrackEffect
<1>2. /\ status' = status /\ guard' = guard /\ status[c] # "unborn"
      /\ rec[i].lease.token \in Token
      /\ Descends(rec[i].lease.owner, c) \/ c \notin Alive
  BY <1>0 DEF TrackChild, GuardInv
<1> HIDE DEF i
<1>3. rec[i].lease # NoLease
  BY <1>0, <1>2 DEF NoLease
<1>4. RecordInv'
  BY <1>1, <1>2, <1>3 DEF LeaseInv, RecordInv, Kept, Users
<1>5. GuardInv' /\ UniqueLiveName' /\ UniqueChatLink'
  BY <1>1, <1>2 DEF LeaseInv, GuardInv, UniqueLiveName, UniqueChatLink, Kept
<1>6. OwnerHoldsLease'
  <2> SUFFICES ASSUME NEW q \in Proc, guard[q].owned
               PROVE  /\ rec'[guard[q].id].state = "live"
                      /\ rec'[guard[q].id].lease.token = guard[q].token
                      /\ rec'[guard[q].id].lease.owner = q
    BY <1>2 DEF OwnerHoldsLease
  <2>1. guard[q].id \in Id
    BY <1>0, EmptyGuard DEF GuardInv
  <2>2. QED
    BY <1>1, <2>1 DEF LeaseInv, OwnerHoldsLease, Kept
<1>7. OneTreePerLease'
  <2>1. ASSUME NEW j \in Id, NEW q \in Proc,
               \/ guard[q].id = j /\ guard[q].token = rec'[j].lease.token
               \/ q \in rec'[j].lease.children /\ q \in Alive
        PROVE  q = rec'[j].lease.owner \/ rec'[j].lease.owner \in Ancestors[q]
    <3>1. CASE q = c /\ j = i
      BY <1>1, <1>2, <2>1, <3>1 DEF Descends, LeaseInv, OneTreePerLease
    <3>2. CASE q # c \/ j # i
      BY <1>1, <2>1, <3>2 DEF LeaseInv, OneTreePerLease
    <3>3. QED
      BY <3>1, <3>2
  <2>2. QED
    BY <1>2, <2>1 DEF OneTreePerLease, Alive
<1>8. QED
  BY <1>4, <1>5, <1>6, <1>7 DEF LeaseInv

\* Returning a lease: only the guard that owned it goes with it.
LEMMA DropStep ==
  ASSUME TypeOK, LeaseInv, NEW p \in Proc, Drop(p)
  PROVE  LeaseInv'
<1> DEFINE i == guard[p].id
<1>0. rec \in [Id -> Record] /\ guard \in [Proc -> Guard] /\ GuardInv
  BY DEF TypeOK, LeaseInv
<1>1. /\ i \in Id /\ \A j \in Id : Kept(j) /\ rec'[j].chats = rec[j].chats
      /\ \A j \in Id \ {i} : rec'[j] = rec[j]
      /\ \/ rec' = rec
         \/ guard[p].owned /\ rec[i].lease.owner = p /\ rec'[i].lease = NoLease
  BY <1>0, DropEffect
<1>2. /\ status' = status /\ guard'[p] = NoGuard
      /\ \A q \in Proc \ {p} : guard'[q] = guard[q]
  BY <1>0 DEF Drop
<1> HIDE DEF i
<1>3. CASE rec' = rec
  BY <1>2, <1>3, UntouchedStep DEF Untouched
<1>4. CASE rec[i].lease.owner = p /\ rec'[i].lease = NoLease
  <2>1. RecordInv'
    <3>1. \A j \in Id : rec'[j].lease \in {rec[j].lease, NoLease}
      BY <1>1, <1>4
    <3>2. Users(NoLease) = {}
      BY DEF Users, NoLease
    <3>3. QED
      BY <1>1, <1>2, <3>1, <3>2 DEF LeaseInv, RecordInv, Kept, Users
  <2>2. GuardInv'
    BY <1>1, <1>2 DEF LeaseInv, GuardInv, Kept
  <2>3. UniqueLiveName' /\ UniqueChatLink'
    BY <1>1 DEF LeaseInv, UniqueLiveName, UniqueChatLink, Kept
  <2>4. OwnerHoldsLease'
    <3> SUFFICES ASSUME NEW q \in Proc, guard'[q].owned
                 PROVE  /\ rec'[guard'[q].id].state = "live"
                        /\ rec'[guard'[q].id].lease.token = guard'[q].token
                        /\ rec'[guard'[q].id].lease.owner = q
      BY DEF OwnerHoldsLease
    <3>1. q # p /\ guard'[q] = guard[q]
      BY <1>2, EmptyGuard
    <3>2. guard[q].id \in Id /\ guard[q].id # i
      BY <1>4, <3>1, EmptyGuard DEF LeaseInv, GuardInv, OwnerHoldsLease
    <3>3. QED
      BY <1>1, <3>1, <3>2 DEF LeaseInv, OwnerHoldsLease
  <2>5. OneTreePerLease'
    <3> SUFFICES ASSUME NEW j \in Id, NEW q \in Proc,
                        \/ guard'[q].id = j /\ guard'[q].token = rec'[j].lease.token
                        \/ q \in rec'[j].lease.children /\ status'[q] = "alive"
                 PROVE  q = rec'[j].lease.owner \/ rec'[j].lease.owner \in Ancestors[q]
      BY DEF OneTreePerLease, Alive
    <3>1. guard'[q].id = j => guard'[q] = guard[q] /\ guard[q].token # None
      BY <1>2, EmptyGuard, NoneAssumption DEF LeaseInv, GuardInv
    <3>2. j # i
      BY <1>4, <3>1 DEF NoLease
    <3>3. QED
      BY <1>1, <1>2, <3>1, <3>2 DEF LeaseInv, OneTreePerLease, Alive
  <2>6. QED
    BY <2>1, <2>2, <2>3, <2>4, <2>5 DEF LeaseInv
<1>5. QED
  BY <1>1, <1>3, <1>4

\* Saving a new record: its name was free and nobody can hold it yet.
LEMMA CreateSaveStep ==
  ASSUME TypeOK, LeaseInv, OperationInv, NEW p \in Proc, CreateSave(p)
  PROVE  LeaseInv'
<1> DEFINE i == op[p].id
<1>0. rec \in [Id -> Record] /\ Users(NoLease) = {}
  BY DEF TypeOK, Users, NoLease
<1>1. /\ i \in Id /\ \A j \in Id \ {i} : rec'[j] = rec[j]
      /\ rec'[i].state = "live" /\ rec'[i].name = op[p].name
      /\ rec'[i].chats = {} /\ rec'[i].lease = NoLease
  BY CreateSaveEffect
<1>2. /\ op[p].name \in Name /\ LiveNamed(op[p].name) = {} /\ rec[i].state = "free"
      /\ status' = status /\ guard' = guard
  BY DEF CreateSave, OperationInv, OperationSound
<1> HIDE DEF i
<1>3. \A q \in Proc : guard[q].id # i
  BY <1>1, <1>2, EmptyGuard DEF LeaseInv, GuardInv
<1>4. RecordInv'
  <2>1. \A j \in Id \ {i} : Users(rec'[j].lease) = Users(rec[j].lease)
    BY <1>1
  <2>2. Users(rec'[i].lease) = {}
    BY <1>0, <1>1
  <2>3. \A j \in Id : \A q \in Users(rec'[j].lease) : status'[q] # "unborn"
    BY <1>2, <2>1, <2>2 DEF LeaseInv, RecordInv
  <2>4. QED
    BY <1>1, <1>2, <2>3 DEF LeaseInv, RecordInv, Users
<1>5. GuardInv' /\ OwnerHoldsLease'
  BY <1>1, <1>2, <1>3, EmptyGuard DEF LeaseInv, GuardInv, OwnerHoldsLease
<1>6. UniqueLiveName' /\ UniqueChatLink'
  BY <1>1, <1>2 DEF LeaseInv, UniqueLiveName, UniqueChatLink, LiveNamed
<1>7. OneTreePerLease'
  BY <1>1, <1>2, <1>3 DEF LeaseInv, OneTreePerLease, NoLease, Alive
<1>8. QED
  BY <1>4, <1>5, <1>6, <1>7 DEF LeaseInv

\* Saving a tombstone: no guard owns the lease that goes with it.
LEMMA RemoveSaveStep ==
  ASSUME TypeOK, QuietInv, LeaseInv, OperationInv, NEW p \in Proc, RemoveSave(p)
  PROVE  LeaseInv'
<1> DEFINE i == op[p].id
<1>0. rec \in [Id -> Record] /\ Users(NoLease) = {}
  BY DEF TypeOK, Users, NoLease
<1>1. /\ i \in Id /\ \A j \in Id \ {i} : rec'[j] = rec[j]
      /\ rec'[i].state = "deleted" /\ rec'[i].lease = NoLease
      /\ rec'[i].name = rec[i].name /\ rec'[i].chats = rec[i].chats
  BY RemoveSaveEffect
<1>2. /\ rec[i].state = "live" /\ ~Active(rec[i].lease)
      /\ status' = status /\ guard' = guard
  BY DEF RemoveSave, OperationInv, OperationSound
<1> HIDE DEF i
<1>3. RecordInv'
  <2>1. \A j \in Id \ {i} : Users(rec'[j].lease) = Users(rec[j].lease)
    BY <1>1
  <2>2. Users(rec'[i].lease) = {}
    BY <1>0, <1>1
  <2>3. \A j \in Id : \A q \in Users(rec'[j].lease) : status'[q] # "unborn"
    BY <1>2, <2>1, <2>2 DEF LeaseInv, RecordInv
  <2>4. QED
    BY <1>1, <1>2, <2>3 DEF LeaseInv, RecordInv, Users
<1>4. GuardInv'
  BY <1>1, <1>2 DEF LeaseInv, GuardInv
<1>5. UniqueLiveName' /\ UniqueChatLink'
  BY <1>1, <1>2 DEF LeaseInv, UniqueLiveName, UniqueChatLink
<1>6. OwnerHoldsLease'
  <2>1. ASSUME NEW q \in Proc, guard[q].owned PROVE guard[q].id \in Id \ {i}
    <3>1. guard[q] # NoGuard /\ guard[q].id \in Id /\ rec[guard[q].id].lease.owner = q
      BY <2>1, EmptyGuard DEF LeaseInv, GuardInv, OwnerHoldsLease
    <3>2. q \in Alive /\ q # None
      BY <3>1, NoneAssumption DEF QuietInv, Alive
    <3>3. QED
      BY <1>2, <3>1, <3>2 DEF Active, Users
  <2>2. QED
    BY <1>1, <1>2, <2>1 DEF LeaseInv, OwnerHoldsLease
<1>7. OneTreePerLease'
  <2>1. \A q \in Proc : guard[q].id = i => guard[q].token # NoLease.token
    BY <1>1, EmptyGuard, NoneAssumption DEF LeaseInv, GuardInv, NoLease
  <2>2. NoLease.children = {}
    BY DEF NoLease
  <2>3. QED
    BY <1>1, <1>2, <2>1, <2>2 DEF LeaseInv, OneTreePerLease, Alive
<1>8. QED
  BY <1>3, <1>4, <1>5, <1>6, <1>7 DEF LeaseInv

\* The conjuncts about records, guards and leases hold after every step.
LEMMA LeaseStep ==
  TypeOK /\ QuietInv /\ LeaseInv /\ OperationInv /\ Next => LeaseInv'
<1> SUFFICES ASSUME TypeOK, QuietInv, LeaseInv, OperationInv, Next PROVE LeaseInv'
  OBVIOUS
<1>0. guard \in [Proc -> Guard] /\ status \in [Proc -> {"unborn", "alive", "dead"}]
  BY DEF TypeOK
<1>1. rec' = rec /\ guard' = guard /\ status' = status => LeaseInv'
  BY UntouchedStep DEF Untouched
<1>2. ASSUME NEW p \in Proc, Spawn(p) \/ Die(p) \/ Exec(p) PROVE LeaseInv'
  BY <1>0, <1>2, UntouchedStep DEF Untouched, Spawn, Die, Exec, registryVars
<1>3. ASSUME NEW p \in Proc,
             \/ RegisterNativeHome(p)
             \/ \E n \in Name, keep \in BOOLEAN : Pin(p, n, keep)
      PROVE  LeaseInv'
  <2>1. status' = status /\ guard' = guard
    BY <1>3 DEF RegisterNativeHome, Pin
  <2>2. QED
    BY <1>3, <2>1, FlagEffect, UntouchedStep DEF Untouched
<1>4. ASSUME NEW p \in Proc, ProcessStep(p) PROVE LeaseInv'
  BY <1>1, <1>2, <1>3, <1>4, GrantStep, ShareStep, TrackStep, DropStep, CreateSaveStep,
     RemoveSaveStep
     DEF ProcessStep, AttachDiscover, AttachRefuse, CreateSnapshot, CreateMark,
         RemoveCheck, RemoveDelete, Fail, Edit
<1>5. QED
  BY <1>1, <1>4 DEF Next, Tamper

-----------------------------------------------------------------------------
(* Directories and operations in progress.                                 *)

\* What working in a directory or tampering with it can do to it.
LEMMA HandEffect ==
  ASSUME TypeOK, DirectoryInv,
         \/ \E p \in Proc, i \in Id : Edit(p, i)
         \/ \E n \in Name : Tamper(n)
  PROVE  \A n \in Name :
           /\ disk'[n].vol \in {disk[n].vol, None}
           /\ disk'[n].marker \in {disk[n].marker, None}
           /\ disk'[n].leased => disk'[n].dirty
           /\ disk'[n].leased => \/ disk[n].leased
                                 \/ \E p \in Proc, i \in Id :
                                      /\ Edit(p, i) /\ rec[i].name = n
                                      /\ p \in Users(rec[i].lease)
<1>0. disk \in [Name -> Directory]
  BY DEF TypeOK
<1> SUFFICES ASSUME NEW n \in Name
             PROVE  /\ disk'[n].vol \in {disk[n].vol, None}
                    /\ disk'[n].marker \in {disk[n].marker, None}
                    /\ disk'[n].leased => disk'[n].dirty
                    /\ disk'[n].leased => \/ disk[n].leased
                                          \/ \E p \in Proc, i \in Id :
                                               /\ Edit(p, i) /\ rec[i].name = n
                                               /\ p \in Users(rec[i].lease)
  OBVIOUS
<1>1. ASSUME NEW p \in Proc, NEW i \in Id, Edit(p, i)
      PROVE  /\ disk'[n].vol = disk[n].vol /\ disk'[n].marker = disk[n].marker
             /\ disk'[n].leased => disk'[n].dirty
             /\ disk'[n].leased => \/ disk[n].leased
                                   \/ rec[i].name = n /\ p \in Users(rec[i].lease)
  <2> DEFINE d == disk[rec[i].name]
             leased == d.leased \/ p \in Users(rec[i].lease)
             value == [[d EXCEPT !.dirty = TRUE] EXCEPT !.leased = leased]
  <2>1. disk' = [disk EXCEPT ![rec[i].name] = value]
    BY <1>1 DEF Edit
  <2>2. rec[i].name = n => /\ value.vol = disk[n].vol /\ value.marker = disk[n].marker
                           /\ value.dirty /\ value.leased = leased
    BY <1>0 DEF Directory
  <2> HIDE DEF value
  <2>3. QED
    BY <1>0, <2>1, <2>2 DEF DirectoryInv
<1>2. ASSUME NEW m \in Name, Tamper(m)
      PROVE  /\ disk'[n].vol \in {disk[n].vol, None}
             /\ disk'[n].marker \in {disk[n].marker, None}
             /\ disk'[n].leased => disk'[n].dirty /\ disk[n].leased
  <2> DEFINE value == [[disk[m] EXCEPT !.vol = None] EXCEPT !.leased = FALSE]
             bare == [disk[m] EXCEPT !.marker = None]
  <2>1. disk' \in {[disk EXCEPT ![m] = Absent], [disk EXCEPT ![m] = bare],
                   [disk EXCEPT ![m] = value]}
    BY <1>2 DEF Tamper
  <2>2. value.vol = None /\ value.marker = disk[m].marker /\ value.leased = FALSE
    BY <1>0 DEF Directory
  <2>3. /\ bare.vol = disk[m].vol /\ bare.marker = None
        /\ bare.leased = disk[m].leased /\ bare.dirty = disk[m].dirty
    BY <1>0 DEF Directory
  <2>4. Absent.vol = None /\ Absent.marker = None /\ ~Absent.leased
    BY DEF Absent
  <2> HIDE DEF value, bare
  <2>5. QED
    BY <1>0, <2>1, <2>2, <2>3, <2>4 DEF DirectoryInv
<1>3. QED
  BY <1>1, <1>2

\* Work of an accounted process shows up as a change.
LEMMA DirectoryStep == TypeOK /\ DirectoryInv /\ Next => DirectoryInv'
<1> SUFFICES ASSUME TypeOK, DirectoryInv, Next PROVE DirectoryInv'
  OBVIOUS
<1>0. disk \in [Name -> Directory] /\ ~Absent.leased
  BY DEF TypeOK, Absent
<1>1. disk' = disk => DirectoryInv'
  BY DEF DirectoryInv
<1>2. (\E p \in Proc, i \in Id : Edit(p, i)) \/ (\E n \in Name : Tamper(n))
      => DirectoryInv'
  BY HandEffect DEF DirectoryInv
<1>3. ASSUME NEW p \in Proc, NEW n \in Name, NEW i \in Id, NEW m \in Maybe(Id),
             NEW changed \in BOOLEAN, CreateSnapshot(p, n, i, m, changed)
      PROVE  DirectoryInv'
  BY <1>0, <1>3 DEF DirectoryInv, CreateSnapshot
<1>4. ASSUME NEW p \in Proc, CreateMark(p) PROVE DirectoryInv'
  <2> DEFINE n == op[p].name
             value == [[disk[n] EXCEPT !.vol = op[p].id] EXCEPT !.marker = op[p].id]
  <2>1. disk' = [disk EXCEPT ![n] = value]
    BY <1>4 DEF CreateMark
  <2>2. n \in Name => value.leased = disk[n].leased /\ value.dirty = disk[n].dirty
    BY <1>0 DEF Directory
  <2> HIDE DEF value, n
  <2>3. QED
    BY <1>0, <2>1, <2>2 DEF DirectoryInv
<1>5. ASSUME NEW p \in Proc, RemoveDelete(p) PROVE DirectoryInv'
  BY <1>0, <1>5 DEF DirectoryInv, RemoveDelete
<1>6. ASSUME NEW p \in Proc, ProcessStep(p) PROVE DirectoryInv'
  BY <1>1, <1>2, <1>3, <1>4, <1>5, <1>6
     DEF ProcessStep, Spawn, Die, Exec, AttachDiscover, AttachGrant, AttachShare,
         AttachRefuse, TrackChild, RegisterNativeHome, Drop, CreateSave, Pin,
         RemoveCheck, RemoveSave, Fail, registryVars
<1>7. QED
  BY <1>2, <1>6 DEF Next

\* While a process stands inside the lock, nobody saves a record, hands out a
\* lease or touches a directory except by hand.
LEMMA Bystander ==
  ASSUME TypeOK, LockInv, QuietInv, RecordInv, DirectoryInv, Next,
         NEW q \in Proc, op[q].kind \in Locked, op'[q] = op[q]
  PROVE  /\ rec' = rec
         /\ \A p \in Proc : status[p] # "unborn" => status'[p] \in {status[p], "dead"}
         /\ \/ disk' = disk
            \/ \E p \in Proc, i \in Id : Edit(p, i)
            \/ \E n \in Name : Tamper(n)
<1> DEFINE Hand == \/ disk' = disk
                   \/ \E p \in Proc, i \in Id : Edit(p, i)
                   \/ \E n \in Name : Tamper(n)
           Lives == \A p \in Proc : status[p] # "unborn" =>
                      status'[p] \in {status[p], "dead"}
<1>0. /\ op \in [Proc -> Operation] /\ status \in [Proc -> {"unborn", "alive", "dead"}]
      /\ lock = q /\ lock # None /\ Idle.kind \notin Locked /\ "attach" \notin Locked
      /\ \A p \in Proc : op[p].kind \in Locked => p = q
  BY NoneAssumption DEF TypeOK, LockInv, Idle, Locked
<1>1. ASSUME NEW p \in Proc, Spawn(p) \/ Exec(p) PROVE rec' = rec /\ Lives /\ Hand
  BY <1>0, <1>1 DEF Spawn, Exec, registryVars
<1>2. ASSUME NEW p \in Proc, Die(p) PROVE rec' = rec /\ Lives /\ Hand
  BY <1>0, <1>2 DEF Die
<1>3. ASSUME NEW p \in Proc, NEW n \in Name, NEW i \in Id, NEW c \in Maybe(Thread),
             AttachDiscover(p, n, i, c)
      PROVE  rec' = rec /\ Lives /\ Hand
  BY <1>3 DEF AttachDiscover
<1>4. ASSUME NEW p \in Proc, Drop(p) PROVE rec' = rec /\ Lives /\ Hand
  BY <1>0, <1>4 DEF Drop
<1>5. ASSUME NEW p \in Proc,
             CreateMark(p) \/ RemoveDelete(p) \/ CreateSave(p) \/ RemoveSave(p) \/ Fail(p)
      PROVE  FALSE
  <2>1. p = q
    BY <1>0, <1>5 DEF CreateMark, RemoveDelete, CreateSave, RemoveSave, Fail, Locked
  <2>2. CASE CreateSave(p) \/ RemoveSave(p) \/ Fail(p)
    BY <1>0, <2>1, <2>2 DEF CreateSave, RemoveSave, Fail
  <2>3. CASE CreateMark(p)
    <3>1. op'[q].kind = "marked" /\ op[q].kind = "created"
      BY <1>0, <2>1, <2>3 DEF CreateMark, Operation
    <3>2. QED
      BY <3>1
  <2>4. CASE RemoveDelete(p)
    <3>1. op'[q].kind = "deleted" /\ op[q].kind = "remove"
      BY <1>0, <2>1, <2>4 DEF RemoveDelete, Operation
    <3>2. QED
      BY <3>1
  <2>5. QED
    BY <1>5, <2>2, <2>3, <2>4
<1>6. ASSUME NEW p \in Proc,
             \/ \E t \in Token : AttachGrant(p, t)
             \/ AttachShare(p) \/ AttachRefuse(p)
             \/ \E c \in Proc : TrackChild(p, c)
             \/ RegisterNativeHome(p)
             \/ \E n \in Name, i \in Id, m \in Maybe(Id), changed \in BOOLEAN :
                  CreateSnapshot(p, n, i, m, changed)
             \/ \E n \in Name, keep \in BOOLEAN : Pin(p, n, keep)
             \/ \E n \in Name, discard, detach \in BOOLEAN :
                  RemoveCheck(p, n, discard, detach)
      PROVE  FALSE
  BY <1>0, <1>6 DEF AttachGrant, AttachShare, AttachRefuse, TrackChild,
     RegisterNativeHome, CreateSnapshot, Pin, RemoveCheck
<1>7. ASSUME NEW p \in Proc, NEW i \in Id, Edit(p, i) PROVE rec' = rec /\ Lives /\ Hand
  BY <1>7 DEF Edit
<1>8. ASSUME NEW n \in Name, Tamper(n) PROVE rec' = rec /\ Lives /\ Hand
  BY <1>8 DEF Tamper
<1> HIDE DEF Hand, Lives
<1>9. ASSUME NEW p \in Proc, ProcessStep(p) PROVE rec' = rec /\ Lives /\ Hand
  BY <1>1, <1>2, <1>3, <1>4, <1>5, <1>6, <1>7, <1>9 DEF ProcessStep
<1>10. rec' = rec /\ Lives /\ Hand
  BY <1>8, <1>9 DEF Next
<1>11. QED
  BY <1>10 DEF Lives, Hand

\* So what an operation found stays true until the operation moves on.
LEMMA StandingOperation ==
  ASSUME TypeOK, LockInv, QuietInv, LeaseInv, OperationInv, DirectoryInv, Next,
         NEW q \in Proc, op[q].kind \in Locked, op'[q] = op[q]
  PROVE  OperationSound(q)'
<1> DEFINE i == op[q].id
<1>0. /\ rec \in [Id -> Record] /\ i \in Id /\ i # None
      /\ op[q].kind # "idle"
  BY NoneAssumption DEF TypeOK, Locked
<1>1. /\ rec' = rec
      /\ \A p \in Proc : status[p] # "unborn" => status'[p] \in {status[p], "dead"}
      /\ \/ disk' = disk
         \/ \E p \in Proc, j \in Id : Edit(p, j)
         \/ \E n \in Name : Tamper(n)
  BY Bystander DEF LeaseInv
<1>2. OperationSound(q)
  BY DEF OperationInv
<1> HIDE DEF i
<1>3. op[q].kind \in {"created", "marked"} =>
        op[q].name \in Name /\ rec'[i].state = "free" /\ LiveNamed(op[q].name)' = {}
  BY <1>1, <1>2 DEF OperationSound, LiveNamed, i
<1>4. op[q].kind = "marked" /\ disk'[op[q].name].vol = i =>
        disk'[op[q].name].marker \in {i, None}
  BY <1>0, <1>1, <1>2, HandEffect DEF OperationSound, i
<1>5. ASSUME op[q].kind \in {"remove", "deleted"}
      PROVE  rec'[i].state = "live" /\ ~Active(rec[i].lease)'
  <2>1. Users(rec[i].lease) \subseteq Proc
    BY <1>0 DEF Users, Record, Lease, Maybe
  <2>2. \A p \in Users(rec[i].lease) : status[p] # "unborn"
    BY <1>0 DEF LeaseInv, RecordInv
  <2>3. \A p \in Users(rec[i].lease) : status[p] # "alive" /\ status'[p] # "alive"
    BY <1>1, <1>2, <1>5, <2>1, <2>2 DEF OperationSound, Active, Alive, i
  <2>4. QED
    BY <1>1, <1>2, <1>5, <2>3 DEF OperationSound, Active, Alive, Users, i
<1>6. ASSUME op[q].kind = "remove"
      PROVE  /\ ~rec'[i].pinned
             /\ Linked(i)' => op[q].detach
             /\ disk'[rec'[i].name].leased => op[q].discard
  <2>1. rec[i].state = "live" /\ rec[i].name \in Name /\ ~Active(rec[i].lease)
    BY <1>0, <1>2, <1>6 DEF OperationSound, LeaseInv, RecordInv, i
  <2>2. ASSUME NEW p \in Proc, NEW j \in Id, Edit(p, j), rec[j].name = rec[i].name
        PROVE  p \notin Users(rec[j].lease)
    <3>1. j = i
      BY <1>0, <2>1, <2>2 DEF Edit, LeaseInv, UniqueLiveName
    <3>2. QED
      BY <2>1, <2>2, <3>1 DEF Active, Edit
  <2>3. disk'[rec[i].name].leased => disk[rec[i].name].leased
    BY <1>1, <2>1, <2>2, HandEffect
  <2>4. QED
    BY <1>1, <1>2, <1>6, <2>3 DEF OperationSound, Linked, i
<1>7. QED
  BY <1>1, <1>3, <1>4, <1>5, <1>6 DEF OperationSound, i

\* An operation moves on only by its own steps.
LEMMA OperationStep ==
  ASSUME TypeOK, LockInv, QuietInv, LeaseInv, OperationInv, DirectoryInv, Next
  PROVE  OperationInv'
<1> SUFFICES ASSUME NEW q \in Proc PROVE OperationSound(q)'
  BY DEF OperationInv
<1>0. /\ op \in [Proc -> Operation] /\ rec \in [Id -> Record]
      /\ disk \in [Name -> Directory] /\ Idle.kind = "idle"
      /\ OperationSound(q)
  BY DEF TypeOK, Idle, OperationInv
<1>1. CASE op'[q].kind \notin Locked
  BY <1>1 DEF OperationSound, Locked
<1>2. CASE op'[q].kind \in Locked /\ op'[q] = op[q]
  BY <1>2, StandingOperation
<1>3. ASSUME NEW n \in Name, NEW i \in Id, NEW m \in Maybe(Id), NEW changed \in BOOLEAN,
             CreateSnapshot(q, n, i, m, changed)
      PROVE  OperationSound(q)'
  <2>1. op'[q].kind = "created" /\ op'[q].id = i /\ op'[q].name = n
    BY <1>0, <1>3 DEF CreateSnapshot, Idle
  <2>2. rec' = rec /\ rec[i].state = "free" /\ LiveNamed(n) = {}
    BY <1>3 DEF CreateSnapshot, FreshId
  <2>3. QED
    BY <2>1, <2>2 DEF OperationSound, LiveNamed
<1>4. ASSUME CreateMark(q) PROVE OperationSound(q)'
  <2> DEFINE n == op[q].name
             i == op[q].id
             value == [[disk[n] EXCEPT !.vol = i] EXCEPT !.marker = i]
  <2>1. op'[q].kind = "marked" /\ op'[q].id = i /\ op'[q].name = n
    BY <1>0, <1>4 DEF CreateMark, Operation
  <2>2. rec' = rec /\ n \in Name /\ rec[i].state = "free" /\ LiveNamed(n) = {}
    BY <1>0, <1>4 DEF CreateMark, OperationSound
  <2>3. disk' = [disk EXCEPT ![n] = value]
    BY <1>4 DEF CreateMark
  <2>4. value.marker = i
    BY <1>0, <2>2 DEF Directory
  <2> HIDE DEF value
  <2>5. disk'[n].marker = i
    BY <1>0, <2>2, <2>3, <2>4
  <2>6. QED
    BY <2>1, <2>2, <2>5 DEF OperationSound, LiveNamed
<1>5. ASSUME NEW n \in Name, NEW discard \in BOOLEAN, NEW detach \in BOOLEAN,
             RemoveCheck(q, n, discard, detach)
      PROVE  OperationSound(q)'
  <2>1. PICK i \in Id :
          /\ rec[i].state = "live" /\ rec[i].name = n
          /\ ~Protected(i, discard, detach) /\ Matches(i)
          /\ op' = [op EXCEPT ![q] = [Idle EXCEPT !.kind = "remove", !.id = i,
                                        !.discard = discard, !.detach = detach]]
    BY <1>5 DEF RemoveCheck, LiveNamed
  <2>2. /\ op'[q].kind = "remove" /\ op'[q].id = i
        /\ op'[q].discard = discard /\ op'[q].detach = detach
    BY <1>0, <2>1 DEF Idle
  <2>3. rec' = rec /\ disk' = disk /\ status' = status
    BY <1>5 DEF RemoveCheck
  <2>4. ~Active(rec[i].lease) /\ ~rec[i].pinned /\ (Linked(i) => detach)
        /\ (disk[n].leased => discard)
    BY <2>1 DEF Protected, DirectoryInv
  <2>5. ~Active(rec[i].lease)'
    BY <2>3, <2>4 DEF Active, Alive, Users
  <2>6. QED
    BY <2>1, <2>2, <2>3, <2>4, <2>5 DEF OperationSound, Linked
<1>6. ASSUME RemoveDelete(q) PROVE OperationSound(q)'
  <2>1. op'[q].kind = "deleted" /\ op'[q].id = op[q].id
    BY <1>0, <1>6 DEF RemoveDelete, Operation
  <2>2. rec' = rec /\ status' = status
    BY <1>6 DEF RemoveDelete
  <2>3. rec[op[q].id].state = "live" /\ ~Active(rec[op[q].id].lease)
    BY <1>0, <1>6 DEF RemoveDelete, OperationSound
  <2>4. ~Active(rec[op[q].id].lease)'
    BY <2>1, <2>2, <2>3 DEF Active, Alive, Users
  <2>5. QED
    BY <2>1, <2>2, <2>3, <2>4 DEF OperationSound
<1>7. ASSUME op'[q] # op[q], op'[q].kind \in Locked
      PROVE  \/ \E n \in Name, i \in Id, m \in Maybe(Id), changed \in BOOLEAN :
                  CreateSnapshot(q, n, i, m, changed)
             \/ CreateMark(q) \/ RemoveDelete(q)
             \/ \E n \in Name, discard, detach \in BOOLEAN :
                  RemoveCheck(q, n, discard, detach)
  <2>0. op' # op /\ Idle.kind \notin Locked /\ "attach" \notin Locked
    BY <1>7 DEF Idle, Locked
  <2>1. ASSUME NEW p \in Proc, op' = [op EXCEPT ![p] = Idle] PROVE FALSE
    BY <1>0, <1>7, <2>0, <2>1
  <2>2. ASSUME NEW p \in Proc, NEW n \in Name, NEW i \in Id, NEW c \in Maybe(Thread),
               AttachDiscover(p, n, i, c)
        PROVE  FALSE
    <3>1. op'[p].kind = "attach" /\ \A r \in Proc \ {p} : op'[r] = op[r]
      BY <1>0, <2>2 DEF AttachDiscover, Idle
    <3>2. QED
      BY <1>7, <2>0, <3>1
  <2>3. ASSUME NEW p \in Proc,
               \/ \E n \in Name, i \in Id, m \in Maybe(Id), changed \in BOOLEAN :
                    CreateSnapshot(p, n, i, m, changed)
               \/ CreateMark(p) \/ RemoveDelete(p)
               \/ \E n \in Name, discard, detach \in BOOLEAN :
                    RemoveCheck(p, n, discard, detach)
        PROVE  p = q
    <3>1. \A r \in Proc \ {p} : op'[r] = op[r]
      BY <1>0, <2>3 DEF CreateSnapshot, CreateMark, RemoveDelete, RemoveCheck
    <3>2. QED
      BY <1>7, <3>1
  <2>4. \A n \in Name : ~Tamper(n)
    BY <2>0 DEF Tamper
  <2>5. PICK p \in Proc : ProcessStep(p)
    BY <2>4 DEF Next
  <2>6. ~Spawn(p) /\ ~Exec(p) /\ (\A c \in Proc : ~TrackChild(p, c))
        /\ ~RegisterNativeHome(p) /\ ~Drop(p) /\ (\A i \in Id : ~Edit(p, i))
        /\ \A n \in Name, keep \in BOOLEAN : ~Pin(p, n, keep)
    BY <2>0 DEF Spawn, Exec, TrackChild, RegisterNativeHome, Drop, Edit, Pin, registryVars
  <2>7. ~Die(p) /\ (\A t \in Token : ~AttachGrant(p, t)) /\ ~AttachShare(p)
        /\ ~AttachRefuse(p) /\ ~CreateSave(p) /\ ~RemoveSave(p) /\ ~Fail(p)
    BY <2>1 DEF Die, AttachGrant, AttachShare, AttachRefuse, CreateSave, RemoveSave, Fail
  <2>8. QED
    BY <2>2, <2>3, <2>5, <2>6, <2>7 DEF ProcessStep
<1>8. QED
  BY <1>1, <1>2, <1>3, <1>4, <1>5, <1>6, <1>7

\* No step puts another workspace's marker into an identified volume.
LEMMA MarkerStep ==
  ASSUME TypeOK, LockInv, LeaseInv, OperationInv, DirectoryInv, RegisteredIsMarked, Next
  PROVE  RegisteredIsMarked'
<1>0. /\ rec \in [Id -> Record] /\ disk \in [Name -> Directory] /\ None \notin Id
      /\ \A j \in Id : rec[j].state = "live" => rec[j].name \in Name
  BY NoneAssumption DEF TypeOK, LeaseInv, RecordInv
<1>1. ASSUME \A j \in Id : rec'[j].state = "live" =>
               rec[j].state = "live" /\ rec'[j].name = rec[j].name,
             \A n \in Name : /\ disk'[n].vol \in {disk[n].vol, None}
                             /\ disk'[n].marker \in {disk[n].marker, None}
      PROVE  RegisteredIsMarked'
  BY <1>0, <1>1 DEF RegisteredIsMarked, Matches
<1>2. ASSUME NEW p \in Proc, NEW n \in Name, NEW i \in Id, NEW m \in Maybe(Id),
             NEW changed \in BOOLEAN, CreateSnapshot(p, n, i, m, changed)
      PROVE  RegisteredIsMarked'
  <2>1. rec' = rec /\ LiveNamed(n) = {} /\ \A k \in Name \ {n} : disk'[k] = disk[k]
    BY <1>2 DEF CreateSnapshot
  <2>2. QED
    BY <1>0, <2>1 DEF RegisteredIsMarked, Matches, LiveNamed
<1>3. ASSUME NEW p \in Proc, CreateMark(p) PROVE RegisteredIsMarked'
  <2>1. /\ rec' = rec /\ LiveNamed(op[p].name) = {}
        /\ \A k \in Name \ {op[p].name} : disk'[k] = disk[k]
    BY <1>0, <1>3 DEF CreateMark, OperationInv, OperationSound
  <2>2. QED
    BY <1>0, <2>1 DEF RegisteredIsMarked, Matches, LiveNamed
<1>4. ASSUME NEW p \in Proc, CreateSave(p) PROVE RegisteredIsMarked'
  <2>1. /\ op[p].id \in Id /\ \A j \in Id \ {op[p].id} : rec'[j] = rec[j]
        /\ rec'[op[p].id].name = op[p].name
    BY <1>4, CreateSaveEffect
  <2>2. /\ disk' = disk
        /\ disk[op[p].name].vol = op[p].id =>
             disk[op[p].name].marker \in {op[p].id, None}
    BY <1>4 DEF CreateSave, OperationInv, OperationSound
  <2>3. QED
    BY <2>1, <2>2 DEF RegisteredIsMarked, Matches
<1>5. ASSUME NEW p \in Proc, RemoveDelete(p) PROVE RegisteredIsMarked'
  <2>1. rec' = rec /\ \A n \in Name : disk'[n] \in {disk[n], Absent}
    BY <1>0, <1>5 DEF RemoveDelete
  <2>2. Absent.vol = None /\ Absent.marker = None
    BY DEF Absent
  <2>3. QED
    BY <1>1, <2>1, <2>2
<1>6. ASSUME NEW p \in Proc, RemoveSave(p) PROVE RegisteredIsMarked'
  <2>1. \A j \in Id : rec'[j].state = "live" =>
          rec[j].state = "live" /\ rec'[j].name = rec[j].name
    BY <1>6, RemoveSaveEffect
  <2>2. disk' = disk
    BY <1>6 DEF RemoveSave
  <2>3. QED
    BY <1>1, <2>1, <2>2
<1>7. ASSUME disk' = disk, \A j \in Id : Kept(j) PROVE RegisteredIsMarked'
  BY <1>1, <1>7 DEF Kept
<1>8. ASSUME NEW p \in Proc,
             \/ \E t \in Token : AttachGrant(p, t)
             \/ AttachShare(p) \/ Drop(p)
             \/ \E c \in Proc : TrackChild(p, c)
      PROVE  RegisteredIsMarked'
  <2>1. \A j \in Id : Kept(j)
    BY <1>8, GrantEffect, ShareEffect, TrackEffect, DropEffect DEF LeaseInv
  <2>2. disk' = disk
    BY <1>8 DEF AttachGrant, AttachShare, TrackChild, Drop
  <2>3. QED
    BY <1>7, <2>1, <2>2
<1>9. ASSUME NEW p \in Proc,
             \/ RegisterNativeHome(p)
             \/ \E n \in Name, keep \in BOOLEAN : Pin(p, n, keep)
      PROVE  RegisteredIsMarked'
  <2>1. disk' = disk
    BY <1>9 DEF RegisterNativeHome, Pin
  <2>2. QED
    BY <1>1, <1>9, <2>1, FlagEffect
<1>10. (\E p \in Proc, i \in Id : Edit(p, i)) \/ (\E n \in Name : Tamper(n))
       => RegisteredIsMarked'
  <2>1. (\E p \in Proc, i \in Id : Edit(p, i)) \/ (\E n \in Name : Tamper(n))
        => rec' = rec
    BY DEF Edit, Tamper
  <2>2. QED
    BY <1>1, <2>1, HandEffect
<1>11. disk' = disk /\ rec' = rec => RegisteredIsMarked'
  BY <1>1
<1>12. ASSUME NEW p \in Proc, ProcessStep(p) PROVE RegisteredIsMarked'
  BY <1>2, <1>3, <1>4, <1>5, <1>6, <1>8, <1>9, <1>10, <1>11, <1>12
     DEF ProcessStep, Spawn, Die, Exec, AttachDiscover, AttachRefuse, RemoveCheck,
         Fail, registryVars
<1>13. QED
  BY <1>10, <1>12 DEF Next

-----------------------------------------------------------------------------
(* The theorems.                                                           *)

\* The inductive invariant: what the lock protects, what the files say and
\* what the processes believe about each other's leases fit together.
THEOREM InvariantHolds == Spec => []IInv
<1>1. Init => IInv
  <2> SUFFICES ASSUME Init PROVE IInv
    OBVIOUS
  <2>1. TypeOK
    BY Sentinels DEF Init, TypeOK, Maybe, Idle
  <2>2. LockInv /\ QuietInv /\ OperationInv
    BY NoneAssumption DEF Init, LockInv, QuietInv, OperationInv, OperationSound, Idle,
       Locked
  <2>3. \A i \in Id : /\ rec[i].state = "free" /\ rec[i].chats = {}
                      /\ rec[i].lease = NoLease /\ Users(rec[i].lease) = {}
    BY DEF Init, NoRecord, NoLease, Users
  <2>4. RecordInv
    BY <2>3 DEF RecordInv
  <2>5. GuardInv /\ OwnerHoldsLease
    BY EmptyGuard DEF Init, GuardInv, OwnerHoldsLease
  <2>6. UniqueLiveName /\ UniqueChatLink /\ RegisteredIsMarked
    BY <2>3 DEF UniqueLiveName, UniqueChatLink, RegisteredIsMarked
  <2>7. OneTreePerLease
    <3>1. \A p \in Proc : guard[p].id \notin Id
      BY EmptyGuard DEF Init
    <3>2. QED
      BY <2>3, <3>1 DEF OneTreePerLease, NoLease
  <2>8. DirectoryInv
    BY DEF Init, DirectoryInv, Absent
  <2>9. QED
    BY <2>1, <2>2, <2>4, <2>5, <2>6, <2>7, <2>8 DEF IInv
<1>2. IInv /\ [Next]_vars => IInv'
  <2>1. ASSUME IInv, Next PROVE IInv'
    <3>1. LeaseInv
      BY <2>1 DEF IInv, LeaseInv
    <3>2. TypeOK'
      BY <2>1, RecordsTyped, DirectoriesTyped, OperationsTyped, ProcessesTyped
         DEF IInv, TypeOK
    <3>3. LockInv' /\ QuietInv' /\ DirectoryInv'
      BY <2>1, LockStep, QuietStep, DirectoryStep DEF IInv
    <3>4. LeaseInv'
      BY <2>1, <3>1, LeaseStep DEF IInv
    <3>5. OperationInv'
      BY <2>1, <3>1, OperationStep DEF IInv
    <3>6. RegisteredIsMarked'
      BY <2>1, <3>1, MarkerStep DEF IInv
    <3>7. QED
      BY <3>2, <3>3, <3>4, <3>5, <3>6 DEF IInv, LeaseInv
  <2>2. ASSUME IInv, UNCHANGED vars PROVE IInv'
    BY <2>2 DEF IInv, vars, TypeOK, LockInv, QuietInv, RecordInv, GuardInv,
       OperationInv, OperationSound, DirectoryInv, UniqueLiveName, UniqueChatLink,
       OwnerHoldsLease, OneTreePerLease, RegisteredIsMarked, LiveNamed, Active, Alive,
       Users, Linked, Matches
  <2>3. QED
    BY <2>1, <2>2
<1>3. QED
  BY <1>1, <1>2, PTL DEF Spec

\* A name never means two workspaces, however many processes create, remove
\* and crash.
THEOREM NamesAreUnique == Spec => []UniqueLiveName
<1>1. IInv => UniqueLiveName
  BY DEF IInv
<1>2. QED
  BY <1>1, InvariantHolds, PTL

\* A chat is linked to at most one workspace, removed ones included.
THEOREM ChatsAreUnique == Spec => []UniqueChatLink
<1>1. IInv => UniqueChatLink
  BY DEF IInv
<1>2. QED
  BY <1>1, InvariantHolds, PTL

\* A launch that owns a lease has it until it drops its guard or dies.
THEOREM OwnersKeepLeases == Spec => []OwnerHoldsLease
<1>1. IInv => OwnerHoldsLease
  BY DEF IInv
<1>2. QED
  BY <1>1, InvariantHolds, PTL

\* Guards with one token, and tracked children, belong to one process tree.
THEOREM LeasesServeOneTree == Spec => []OneTreePerLease
<1>1. IInv => OneTreePerLease
  BY DEF IInv
<1>2. QED
  BY <1>1, InvariantHolds, PTL

\* A volume a record identifies never carries another workspace's marker.
THEOREM MarkersAreTrue == Spec => []RegisteredIsMarked
<1>1. IInv => RegisteredIsMarked
  BY DEF IInv
<1>2. QED
  BY <1>1, InvariantHolds, PTL

\* Which steps touch which leases, states and chats.
LEMMA LeaseEffect ==
  ASSUME IInv, Next, NEW j \in Id
  PROVE  \/ rec'[j].lease = rec[j].lease
         \/ \E p \in Proc, t \in Token : AttachGrant(p, t) /\ op[p].id = j
         \/ \E p, c \in Proc : TrackChild(p, c) /\ guard[p].id = j
         \/ \E p \in Proc : /\ Drop(p) /\ guard[p].id = j /\ guard[p].owned
                            /\ rec[j].lease.owner = p
                            /\ rec[j].lease.token = guard[p].token
                            /\ rec'[j].lease = NoLease
         \/ \E p \in Proc : CreateSave(p) /\ op[p].id = j
         \/ \E p \in Proc : RemoveSave(p) /\ op[p].id = j
<1>0. TypeOK /\ GuardInv
  BY DEF IInv
<1>1. CASE rec' = rec
  BY <1>1
<1>2. ASSUME NEW p \in Proc, NEW t \in Token, AttachGrant(p, t), op[p].id # j
      PROVE  rec'[j].lease = rec[j].lease
  BY <1>0, <1>2, GrantEffect
<1>3. ASSUME NEW p \in Proc, AttachShare(p) PROVE rec'[j].lease = rec[j].lease
  BY <1>0, <1>3, ShareEffect
<1>4. ASSUME NEW p \in Proc, NEW c \in Proc, TrackChild(p, c), guard[p].id # j
      PROVE  rec'[j].lease = rec[j].lease
  BY <1>0, <1>4, TrackEffect
<1>5. ASSUME NEW p \in Proc,
             \/ RegisterNativeHome(p)
             \/ \E n \in Name, keep \in BOOLEAN : Pin(p, n, keep)
      PROVE  rec'[j].lease = rec[j].lease
  BY <1>0, <1>5, FlagEffect
<1>6. ASSUME NEW p \in Proc, Drop(p)
      PROVE  \/ rec'[j].lease = rec[j].lease
             \/ /\ guard[p].id = j /\ guard[p].owned /\ rec[j].lease.owner = p
                /\ rec[j].lease.token = guard[p].token /\ rec'[j].lease = NoLease
  BY <1>0, <1>6, DropEffect
<1>7. ASSUME NEW p \in Proc, CreateSave(p), op[p].id # j
      PROVE  rec'[j].lease = rec[j].lease
  BY <1>0, <1>7, CreateSaveEffect
<1>8. ASSUME NEW p \in Proc, RemoveSave(p), op[p].id # j
      PROVE  rec'[j].lease = rec[j].lease
  BY <1>0, <1>8, RemoveSaveEffect
<1>9. ASSUME NEW p \in Proc,
             \/ Spawn(p) \/ Die(p) \/ Exec(p) \/ AttachRefuse(p) \/ CreateMark(p)
             \/ \E n \in Name, i \in Id, c \in Maybe(Thread) : AttachDiscover(p, n, i, c)
             \/ \E n \in Name, i \in Id, m \in Maybe(Id), changed \in BOOLEAN :
                  CreateSnapshot(p, n, i, m, changed)
             \/ \E n \in Name, discard, detach \in BOOLEAN :
                  RemoveCheck(p, n, discard, detach)
             \/ RemoveDelete(p) \/ Fail(p) \/ \E i \in Id : Edit(p, i)
      PROVE  rec' = rec
  BY <1>9 DEF Spawn, Die, Exec, AttachRefuse, CreateMark, AttachDiscover,
     CreateSnapshot, RemoveCheck, RemoveDelete, Fail, Edit, registryVars
<1>10. CASE \E n \in Name : Tamper(n)
  BY <1>1, <1>10 DEF Tamper
<1>11. CASE \E p \in Proc : ProcessStep(p)
  <2> PICK p \in Proc : ProcessStep(p)
    BY <1>11
  <2>1. CASE rec' = rec
    BY <1>1, <2>1
  <2>2. CASE rec' # rec
    <3>1. \/ \E t \in Token : AttachGrant(p, t)
          \/ AttachShare(p) \/ Drop(p) \/ CreateSave(p) \/ RemoveSave(p)
          \/ \E c \in Proc : TrackChild(p, c)
          \/ RegisterNativeHome(p)
          \/ \E n \in Name, keep \in BOOLEAN : Pin(p, n, keep)
      BY <1>9, <2>2 DEF ProcessStep
    <3>2. QED
      BY <1>2, <1>3, <1>4, <1>5, <1>6, <1>7, <1>8, <3>1
  <2>3. QED
    BY <2>1, <2>2
<1>12. QED
  BY <1>10, <1>11 DEF Next

\* A lease in use changes hands only when its owner drops the guard that owns
\* it, whatever attaches, removals and crashes happen around it.
THEOREM LeasesAreStable == Spec => LeaseIsStable
<1>1. ASSUME IInv, Next PROVE LeaseOnlyReturned
  <2> SUFFICES ASSUME NEW j \in Id, Active(rec[j].lease),
                      rec'[j].lease.token # rec[j].lease.token
               PROVE  /\ rec[j].lease.owner \in Alive
                      /\ guard[rec[j].lease.owner].owned
                      /\ guard[rec[j].lease.owner].token = rec[j].lease.token
                      /\ guard'[rec[j].lease.owner] = NoGuard
    BY DEF LeaseOnlyReturned
  <2>0. TypeOK /\ GuardInv /\ OperationInv
    BY <1>1 DEF IInv
  <2>1. ASSUME NEW p \in Proc, NEW t \in Token, AttachGrant(p, t), op[p].id = j
        PROVE  FALSE
    BY <2>1 DEF AttachGrant
  <2>2. ASSUME NEW p \in Proc, NEW c \in Proc, TrackChild(p, c), guard[p].id = j
        PROVE  FALSE
    BY <2>0, <2>2, TrackEffect
  <2>3. ASSUME NEW p \in Proc, CreateSave(p), op[p].id = j PROVE FALSE
    <3>1. rec[j].lease = NoLease
      BY <1>1, <2>0, <2>3 DEF CreateSave, OperationInv, OperationSound, IInv, RecordInv
    <3>2. QED
      BY <3>1, ActiveIsLeased
  <2>4. ASSUME NEW p \in Proc, RemoveSave(p), op[p].id = j PROVE FALSE
    BY <2>0, <2>4 DEF RemoveSave, OperationInv, OperationSound
  <2>5. PICK p \in Proc : /\ Drop(p) /\ guard[p].owned /\ rec[j].lease.owner = p
                          /\ rec[j].lease.token = guard[p].token
    BY <1>1, <2>1, <2>2, <2>3, <2>4, LeaseEffect
  <2>6. p \in Alive /\ guard'[p] = NoGuard
    BY <2>0, <2>5 DEF Drop, Ready, Alive, TypeOK
  <2>7. QED
    BY <2>5, <2>6
<1>2. IInv /\ [Next]_vars => [LeaseOnlyReturned]_vars
  BY <1>1
<1>3. QED
  BY <1>2, InvariantHolds, PTL DEF Spec, LeaseIsStable

\* A removal deletes only what is still unleased, unpinned and, unless told
\* otherwise, unlinked and without work of accounted processes.
THEOREM RemovalsSpareWork == Spec => RemovalSparesWork
<1>1. ASSUME IInv PROVE RemovesWhatItChecked
  BY <1>1 DEF IInv, OperationInv, OperationSound, RemovesWhatItChecked
<1>2. IInv /\ [Next]_vars => [RemovesWhatItChecked]_vars
  BY <1>1
<1>3. QED
  BY <1>2, InvariantHolds, PTL DEF Spec, RemovalSparesWork

\* States, names and chats: what each kind of step leaves of them.
LEMMA HistoryStep == ASSUME IInv, Next PROVE HistoryGrows
<1> SUFFICES ASSUME NEW j \in Id
             PROVE  /\ rec[j].state = "deleted" => rec'[j].state = "deleted"
                    /\ rec[j].state # "free" => rec'[j].name = rec[j].name
                    /\ rec[j].chats \subseteq rec'[j].chats
  BY DEF HistoryGrows
<1> DEFINE Goal == /\ rec[j].state = "deleted" => rec'[j].state = "deleted"
                   /\ rec[j].state # "free" => rec'[j].name = rec[j].name
                   /\ rec[j].chats \subseteq rec'[j].chats
<1>0. TypeOK /\ GuardInv /\ OperationInv /\ RecordInv
  BY DEF IInv
<1>1. rec' = rec => Goal
  OBVIOUS
<1>2. ASSUME NEW p \in Proc, NEW t \in Token, AttachGrant(p, t) PROVE Goal
  BY <1>0, <1>2, GrantEffect DEF Kept
<1>3. ASSUME NEW p \in Proc, AttachShare(p) PROVE Goal
  BY <1>0, <1>3, ShareEffect DEF Kept
<1>4. ASSUME NEW p \in Proc, NEW c \in Proc, TrackChild(p, c) PROVE Goal
  BY <1>0, <1>4, TrackEffect DEF Kept
<1>5. ASSUME NEW p \in Proc, Drop(p) PROVE Goal
  BY <1>0, <1>5, DropEffect DEF Kept
<1>6. ASSUME NEW p \in Proc,
             \/ RegisterNativeHome(p)
             \/ \E n \in Name, keep \in BOOLEAN : Pin(p, n, keep)
      PROVE  Goal
  BY <1>0, <1>6, FlagEffect
<1>7. ASSUME NEW p \in Proc, CreateSave(p) PROVE Goal
  <2>1. rec[op[p].id].state = "free" /\ rec[op[p].id].chats = {}
    BY <1>0, <1>7 DEF CreateSave, OperationInv, OperationSound, RecordInv, TypeOK
  <2>2. QED
    BY <1>0, <1>7, <2>1, CreateSaveEffect
<1>8. ASSUME NEW p \in Proc, RemoveSave(p) PROVE Goal
  BY <1>0, <1>8, RemoveSaveEffect
<1> HIDE DEF Goal
<1>9. ASSUME NEW p \in Proc, ProcessStep(p) PROVE Goal
  BY <1>1, <1>2, <1>3, <1>4, <1>5, <1>6, <1>7, <1>8, <1>9
     DEF ProcessStep, Spawn, Die, Exec, AttachRefuse, CreateMark, AttachDiscover,
         CreateSnapshot, RemoveCheck, RemoveDelete, Fail, Edit, registryVars
<1>10. Goal
  BY <1>1, <1>9 DEF Next, Tamper
<1>11. QED
  BY <1>10 DEF Goal

\* Tombstones and chat links are for ever.
THEOREM HistoryOnlyGrows == Spec => TombstonesStay
<1>1. IInv /\ [Next]_vars => [HistoryGrows]_vars
  BY HistoryStep
<1>2. QED
  BY <1>1, InvariantHolds, PTL DEF Spec, TombstonesStay

-----------------------------------------------------------------------------
(* The registry implements the lease contract.                             *)

\* A step that keeps owners, users, tombstones and lives is a stutter of the
\* contract.
LEMMA ContractStutter ==
  ASSUME status' = status,
         \A j \in Id : /\ rec'[j].lease = rec[j].lease
                       /\ rec'[j].state = "deleted" <=> rec[j].state = "deleted"
  PROVE  UNCHANGED Contract!vars
BY DEF Contract!vars, Users

\* A step that changes the lease of one workspace.
LEMMA ContractChange ==
  ASSUME NEW i \in Id, \A j \in Id \ {i} : rec'[j] = rec[j]
  PROVE  /\ [j \in Id |-> rec'[j].lease.owner] =
              [[j \in Id |-> rec[j].lease.owner] EXCEPT ![i] = rec'[i].lease.owner]
         /\ [j \in Id |-> Users(rec'[j].lease)] =
              [[j \in Id |-> Users(rec[j].lease)] EXCEPT ![i] = Users(rec'[i].lease)]
OBVIOUS

\* Every step of the registry is a step of the contract or a stutter.
LEMMA ContractStep == ASSUME IInv, Next PROVE [Contract!Next]_(Contract!vars)
<1> DEFINE Goal == Contract!Next \/ UNCHANGED Contract!vars
<1>0. /\ TypeOK /\ GuardInv /\ OperationInv /\ RecordInv /\ QuietInv
      /\ Users(NoLease) = {} /\ NoLease.owner = None /\ None \notin Proc
      /\ Alive = Contract!Alive
  BY NoneAssumption DEF IInv, Users, NoLease, Alive, Contract!Alive
<1>1. ASSUME rec' = rec, status' = status PROVE Goal
  BY <1>1, ContractStutter
<1>2. ASSUME NEW p \in Proc, Spawn(p) PROVE Goal
  <2>1. Contract!Start(p)
    BY <1>2 DEF Spawn, registryVars, Contract!Start, Users
  <2>2. QED
    BY <2>1 DEF Contract!Next
<1>3. ASSUME NEW p \in Proc, Die(p) PROVE Goal
  <2>1. Contract!Stop(p)
    BY <1>3 DEF Die, Contract!Stop, Contract!Alive, Users
  <2>2. QED
    BY <2>1 DEF Contract!Next
<1>4. ASSUME NEW p \in Proc, NEW t \in Token, AttachGrant(p, t) PROVE Goal
  <2> DEFINE i == op[p].id
  <2>1. /\ i \in Id /\ \A j \in Id : rec'[j].state = rec[j].state
        /\ \A j \in Id \ {i} : rec'[j] = rec[j]
        /\ rec'[i].lease = [token |-> t, owner |-> p, children |-> {}]
    BY <1>0, <1>4, GrantEffect DEF Kept
  <2>2. rec'[i].lease.owner = p /\ Users(rec'[i].lease) = {p}
    BY <1>0, <2>1 DEF Users
  <2>3. /\ status' = status /\ status[p] = "alive" /\ rec[i].state = "live"
        /\ ~Active(rec[i].lease)
    BY <1>0, <1>4 DEF AttachGrant, StillThere, QuietInv, Idle
  <2> HIDE DEF i
  <2>4. p \in Contract!Alive /\ ~Contract!InUse(i)
    BY <2>1, <2>3 DEF Contract!InUse, Contract!Alive, Alive, Active
  <2>5. {j \in Id : rec'[j].state = "deleted"} = {j \in Id : rec[j].state = "deleted"}
    BY <2>1
  <2>6. Contract!Grant(i, p)
    BY <2>1, <2>2, <2>3, <2>4, <2>5, ContractChange DEF Contract!Grant
  <2>7. QED
    BY <2>1, <2>6 DEF Contract!Next
<1>5. ASSUME NEW p \in Proc, AttachShare(p) PROVE Goal
  <2>1. status' = status
    BY <1>5 DEF AttachShare
  <2>2. QED
    BY <1>0, <1>5, <2>1, ShareEffect, ContractStutter DEF Kept
<1>6. ASSUME NEW p \in Proc, NEW c \in Proc, TrackChild(p, c) PROVE Goal
  <2> DEFINE i == guard[p].id
  <2>1. /\ i \in Id /\ \A j \in Id : rec'[j].state = rec[j].state
        /\ \A j \in Id \ {i} : rec'[j] = rec[j]
        /\ rec'[i].lease.owner = rec[i].lease.owner
        /\ rec'[i].lease.children = rec[i].lease.children \cup {c}
    BY <1>0, <1>6, TrackEffect DEF Kept
  <2>2. Users(rec'[i].lease) = Users(rec[i].lease) \cup {c}
    BY <1>0, <2>1 DEF Users
  <2>3. /\ rec[i].lease.token \in Token /\ status' = status
        /\ Descends(rec[i].lease.owner, c) \/ c \notin Alive
    BY <1>0, <1>6 DEF TrackChild, GuardInv
  <2> HIDE DEF i
  <2>4. rec[i].lease.owner \in Proc
    BY <1>0, <2>1, <2>3, NoneAssumption DEF RecordInv, NoLease
  <2>5. rec[i].lease.owner \in Alive \/ c \notin Alive
    BY <2>3 DEF Descends
  <2>6. Contract!Join(i, c)
    BY <1>0, <2>1, <2>2, <2>3, <2>4, <2>5, ContractChange DEF Contract!Join
  <2>7. QED
    BY <2>1, <2>6 DEF Contract!Next
<1>7. ASSUME NEW p \in Proc, Drop(p) PROVE Goal
  <2> PICK i \in Id : i = guard[p].id
    BY <1>0, <1>7, DropEffect
  <2>1. /\ \A j \in Id : rec'[j].state = rec[j].state
        /\ \A j \in Id \ {i} : rec'[j] = rec[j]
        /\ rec' = rec \/ (rec[i].lease.owner = p /\ rec'[i].lease = NoLease)
    BY <1>0, <1>7, DropEffect DEF Kept
  <2>2. status' = status /\ p \in Alive
    BY <1>7 DEF Drop, Ready, Alive
  <2>3. CASE rec' = rec
    BY <1>1, <2>2, <2>3
  <2>4. CASE rec[i].lease.owner = p /\ rec'[i].lease = NoLease
    <3>1. Contract!Return(i)
      BY <1>0, <2>1, <2>2, <2>4, ContractChange DEF Contract!Return
    <3>2. QED
      BY <3>1 DEF Contract!Next
  <2>5. QED
    BY <2>1, <2>3, <2>4
<1>8. ASSUME NEW p \in Proc, CreateSave(p) PROVE Goal
  <2>1. rec[op[p].id].lease = NoLease /\ rec[op[p].id].state = "free"
    BY <1>0, <1>8 DEF CreateSave, OperationInv, OperationSound, RecordInv, TypeOK
  <2>2. status' = status
    BY <1>8 DEF CreateSave
  <2>3. QED
    BY <1>0, <1>8, <2>1, <2>2, CreateSaveEffect, ContractStutter
<1>9. ASSUME NEW p \in Proc, RemoveSave(p) PROVE Goal
  <2> PICK i \in Id : i = op[p].id
    BY <1>0, <1>9, RemoveSaveEffect
  <2>1. /\ \A j \in Id \ {i} : rec'[j] = rec[j]
        /\ rec'[i].state = "deleted" /\ rec'[i].lease = NoLease
    BY <1>0, <1>9, RemoveSaveEffect
  <2>2. ~Active(rec[i].lease) /\ status' = status
    BY <1>0, <1>9 DEF RemoveSave, OperationInv, OperationSound
  <2>3. {j \in Id : rec'[j].state = "deleted"} =
          {j \in Id : rec[j].state = "deleted"} \cup {i}
    BY <2>1
  <2>4. Contract!Retire(i)
    BY <1>0, <2>1, <2>2, <2>3, ContractChange
       DEF Contract!Retire, Contract!InUse, Active
  <2>5. QED
    BY <2>4 DEF Contract!Next
<1>10. ASSUME NEW p \in Proc,
              \/ RegisterNativeHome(p)
              \/ \E n \in Name, keep \in BOOLEAN : Pin(p, n, keep)
       PROVE  Goal
  <2>1. status' = status
    BY <1>10 DEF RegisterNativeHome, Pin
  <2>2. QED
    BY <1>0, <1>10, <2>1, FlagEffect, ContractStutter
<1> HIDE DEF Goal
<1>11. ASSUME NEW p \in Proc, ProcessStep(p) PROVE Goal
  BY <1>1, <1>2, <1>3, <1>4, <1>5, <1>6, <1>7, <1>8, <1>9, <1>10, <1>11
     DEF ProcessStep, Exec, AttachRefuse, CreateMark, AttachDiscover, CreateSnapshot,
         RemoveCheck, RemoveDelete, Fail, Edit, registryVars
<1>12. Goal
  BY <1>1, <1>11 DEF Next, Tamper
<1>13. QED
  BY <1>12 DEF Goal

\* Whatever the registry does, an observer who sees only process lives,
\* holders, users and removals sees the lease contract.
THEOREM RegistryImplementsContract == Spec => ImplementsContract
<1>1. Init => Contract!Init
  BY DEF Init, Contract!Init, NoRecord, NoLease, Users
<1>2. IInv /\ [Next]_vars => [Contract!Next]_(Contract!vars)
  <2>1. UNCHANGED vars => UNCHANGED Contract!vars
    BY ContractStutter DEF vars
  <2>2. QED
    BY <2>1, ContractStep
<1>3. QED
  BY <1>1, <1>2, InvariantHolds, PTL DEF Spec, ImplementsContract, Contract!Spec
=============================================================================
