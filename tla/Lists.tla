--------------------------------- MODULE Lists ---------------------------------
(* What the modules of Launcher need of sequences, with the definitions of        *)
(* SequencesExt. An INSTANCE repeats every operator that its module extends, for   *)
(* TLAPS in every obligation: here these four and not all of the library.          *)
EXTENDS Integers, Sequences, Functions

\* `path` is `p` or leads to it: IsPrefix.
Above(path, p) == Len(path) <= Len(p) /\ SubSeq(path, 1, Len(path)) = SubSeq(p, 1, Len(path))

\* Min
Least(S) == CHOOSE n \in S : \A m \in S : n <= m

\* The first place where the test holds; 0 if there is none: SelectInSeq.
FirstWhere(list, Test(_)) ==
    LET found == {i \in 1 .. Len(list) : Test(list[i])}
    IN  IF found # {} THEN Least(found) ELSE 0

\* The list without its element i: RemoveAt.
Without(list, i) == SubSeq(list, 1, i - 1) \o SubSeq(list, i + 1, Len(list))
===============================================================================
