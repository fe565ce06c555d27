------------------------ MODULE MCWorkspaceRegistry ------------------------
(* Small instances of WorkspaceRegistry for TLC. *)
EXTENDS WorkspaceRegistry, TLC

CONSTANTS launch, child, grandchild, stranger

\* A launch with its child and grandchild, and an independent launch.
TwoTrees ==
  (launch :> {}) @@ (child :> {launch}) @@ (grandchild :> {launch, child})
  @@ (stranger :> {})

\* Two independent processes.
TwoRoots == (launch :> {}) @@ (stranger :> {})

Interchangeable == Permutations(Token)
InterchangeableIds == Permutations(Token) \cup Permutations(Id)
=============================================================================
