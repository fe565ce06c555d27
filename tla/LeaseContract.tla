---------------------------- MODULE LeaseContract ----------------------------
(***************************************************************************)
(* What a workspace lease promises, without tokens, environments, files or *)
(* locks: a workspace is held on behalf of one process and used by the     *)
(* processes that joined it; it changes hands only after its holder gave   *)
(* it back or every user of it is dead, and a removed workspace is never   *)
(* held again.                                                             *)
(***************************************************************************)
CONSTANTS Proc, Id, None

VARIABLES
  status,   \* life of each process
  holder,   \* the process each workspace is held for
  users,    \* the processes that keep each workspace in use
  retired   \* the removed workspaces

vars == <<status, holder, users, retired>>

Alive == {p \in Proc : status[p] = "alive"}
InUse(i) == users[i] \cap Alive # {}

Init ==
  /\ status = [p \in Proc |-> "unborn"]
  /\ holder = [i \in Id |-> None]
  /\ users = [i \in Id |-> {}]
  /\ retired = {}

Start(p) ==
  /\ status[p] = "unborn"
  /\ status' = [status EXCEPT ![p] = "alive"]
  /\ UNCHANGED <<holder, users, retired>>

Stop(p) ==
  /\ p \in Alive
  /\ status' = [status EXCEPT ![p] = "dead"]
  /\ UNCHANGED <<holder, users, retired>>

Grant(i, p) ==
  /\ p \in Alive
  /\ i \notin retired /\ ~InUse(i)
  /\ holder' = [holder EXCEPT ![i] = p]
  /\ users' = [users EXCEPT ![i] = {p}]
  /\ UNCHANGED <<status, retired>>

\* A process joins while the holder lives; recording a dead one is harmless.
Join(i, c) ==
  /\ holder[i] # None
  /\ holder[i] \in Alive \/ c \notin Alive
  /\ users' = [users EXCEPT ![i] = @ \cup {c}]
  /\ UNCHANGED <<status, holder, retired>>

Return(i) ==
  /\ holder[i] \in Alive
  /\ holder' = [holder EXCEPT ![i] = None]
  /\ users' = [users EXCEPT ![i] = {}]
  /\ UNCHANGED <<status, retired>>

Retire(i) ==
  /\ ~InUse(i)
  /\ retired' = retired \cup {i}
  /\ holder' = [holder EXCEPT ![i] = None]
  /\ users' = [users EXCEPT ![i] = {}]
  /\ UNCHANGED status

Next ==
  \/ \E p \in Proc : Start(p) \/ Stop(p)
  \/ \E i \in Id : Return(i) \/ Retire(i)
  \/ \E i \in Id, p \in Proc : Grant(i, p) \/ Join(i, p)

Spec == Init /\ [][Next]_vars
=============================================================================
