-------------------------- MODULE MCDesktopReconnect --------------------------
(* Two small instances of DesktopReconnect for TLC, told apart by a variable *)
(* that the first state sets: in one the client works on a chat while a      *)
(* single operation asks for the reconnect, in the other operations, vetoes  *)
(* and releases follow each other while the client only sends requests.      *)
EXTENDS DesktopReconnect

CONSTANTS FirstOp, FirstRelease, FirstTurn

VARIABLE part

\* Turns that are both unused are interchangeable: the first one is taken.
InOrder ==
  \A a \in Adapter : Unused(a, FirstTurn) =>
    running'[a] \subseteq running[a] \cup (Thread \X {FirstTurn})

InPart ==
  IF part = "work"
  THEN /\ command'.op \in {None, FirstOp} /\ command'.kind # "cancel" /\ ~command'.automatic
       /\ settings' = FirstRelease
       /\ InOrder
  ELSE \A a \in Adapter : input'[a].thread = None

MCInit == Init /\ part \in {"work", "reports"} /\ (part = "work" => settings = FirstRelease)
MCNext == Next /\ part' = part /\ InPart
MCSpec == MCInit /\ [][MCNext]_<<vars, part>> /\ Fairness

\* Only the work.
WorkSpec == MCInit /\ part = "work" /\ [][MCNext]_<<vars, part>>
=============================================================================
