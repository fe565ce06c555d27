------------------------------ MODULE MCLauncher ------------------------------
(* One run for the files a launcher keeps: the parts of Launcher, the state of   *)
(* profiles and checkpoints. The run is in one part and stays there: the variables *)
(* of Launcher's other parts are None, those of the modules that this one extends *)
(* as at the beginning.                                                            *)
EXTENDS Launcher, LauncherInputs, ProfileSync, CheckpointSets

VARIABLES uuids, hands                                      \* Checkpoints

\* Roots within roots, launches and a recovery; and more sets, made by hand.
Subvolumes == {<<"w">>, <<"w", "n">>, <<"home">>}
Store == INSTANCE Checkpoints WITH
    Approved <- Places, Forbidden <- {<<"home">>},
    Cwd <- {<<"w", "n", "d">>},
    MaxPruned <- 2, MaxSets <- 2, MaxDays <- 1, MaxUuid <- 2, MaxHands <- 1, MaxBroken <- 1
Prunes == INSTANCE Checkpoints WITH
    Approved <- {<<"w">>, <<"home">>}, Forbidden <- {<<"home">>}, Cwd <- {<<"home", "d">>},
    MaxPruned <- 2, MaxSets <- 3, MaxDays <- 1, MaxUuid <- 1, MaxHands <- 0, MaxBroken <- 1

ASSUME StoreAssumption == Store!Parameters /\ Prunes!Parameters

allVars == <<fileVars, storeVars, uuids, hands, vars>>

Parts == {"codex", "homes", "interpreter", "metadata", "setup", "blocks", "checkpoints", "prunes",
          "profiles"}

InitAll ==
    /\ part \in Parts
    /\ InitFiles
    /\ IF part = "checkpoints" THEN Store!Init
       ELSE IF part = "prunes" THEN Prunes!Init
       ELSE /\ volume = [p \in Places |-> 1] /\ day = 0 /\ sets = <<>> /\ job = Store!Idle
            /\ informed = 0 /\ clone = Store!NoClone /\ completed = {}
            /\ uuids = None /\ hands = None
    /\ Init /\ (part # "profiles" => layout = "made" /\ linkable)

NextAll ==
    \/ NextFiles /\ UNCHANGED <<storeVars, uuids, hands, vars>>
    \/ /\ \/ part = "checkpoints" /\ Store!Next
          \/ part = "prunes" /\ Prunes!Next
       /\ UNCHANGED <<fileVars, vars>>
    \/ part = "profiles" /\ Next
       /\ UNCHANGED <<fileVars, storeVars, uuids, hands>>

SpecAll == InitAll /\ [][NextAll]_allVars
===============================================================================
