--------------------------- MODULE MCDesktopLifecycle ---------------------------
(* Two small instances of DesktopLifecycle in one run: an adapter with two     *)
(* chats of one workspace (the constants of the module), and two adapters that *)
(* want the same chat.                                                          *)
EXTENDS DesktopLifecycle, TLC

CONSTANTS Rival, Wanted, Ask, Unsteady

\* Every chat works in the one workspace.
OneWorkspace == [t \in Thread |-> CHOOSE w \in Workspace : TRUE]

RivalsCwd == [t \in Wanted |-> CHOOSE w \in Workspace : TRUE]

Rivals == INSTANCE DesktopLifecycle WITH
    Adapter <- Rival, Thread <- Wanted, Call <- Ask, Lingering <- FALSE, Failing <- Unsteady,
    Cwd <- RivalsCwd

\* An instance is told by its adapters.
Shared == DOMAIN phase = Adapter

InitEither == Init \/ Rivals!Init
NextEither == IF Shared THEN Next ELSE Rivals!Next
SpecEither == InitEither /\ [][NextEither]_vars

Interchangeable ==
    Permutations(Token) \cup Permutations(Thread) \cup Permutations(Call)
    \cup Permutations(Rival)

=============================================================================
