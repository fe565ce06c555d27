------------------------------ MODULE ConfigTree ------------------------------
(***************************************************************************)
(* The TOML and JSON documents the launchers merge, as finite functions    *)
(* from the path of a leaf (the keys from the root to it) to its value.    *)
(* Empty tables are not represented: nothing the launchers write or look   *)
(* up depends on one.                                                      *)
(***************************************************************************)
EXTENDS Lists

CONSTANT None   \* no value

Empty == [p \in {} |-> None]

\* One leaf.
Leaf(path, value) == [p \in {path} |-> value]

\* `over`, and what `tree` has at other paths.
Joined(over, tree) ==
    [p \in DOMAIN over \cup DOMAIN tree |-> IF p \in DOMAIN over THEN over[p] ELSE tree[p]]

\* The part of `tree` at the paths `keep`.
Kept(tree, keep) == [p \in keep |-> tree[p]]

\* Whether there is a value, or a table, at `path`: `contains_key`.
Has(tree, path) == \E p \in DOMAIN tree : Above(path, p)

\* The value at `path`, if there is one and it is no table: `get(..).as_str()`.
Get(tree, path) == IF path \in DOMAIN tree THEN tree[path] ELSE None

\* `remove(key)`: the value or the whole table at `path` goes.
Drop(tree, path) == Kept(tree, {p \in DOMAIN tree : ~ Above(path, p)})

\* Mutant of Overlay: the value already there wins.
OverlayKeepsOld(tree, over) == Joined(tree, over)

\* `merge_toml_value` and `merge_claude_json_value`, for every key of the
\* overlay: two tables are merged key by key; in any other case what the
\* overlay has replaces what is there, be it a value, a table, or a value
\* where the overlay has a table.
Overlay(tree, over) ==
    Joined(over, Kept(tree, {p \in DOMAIN tree :
                        \A q \in DOMAIN over : ~ Above(p, q) /\ ~ Above(q, p)}))

\* Mutant of OverlayProfile: servers are merged like any other table.
OverlayMergesServers(tree, over, servers) == Overlay(tree, over)

\* The overlay of a profile: as above, but a server under `servers` is
\* replaced as a whole, so that no setting of another server of that name
\* stays behind.
OverlayProfile(tree, over, servers) ==
    LET replaced == {q \in DOMAIN over : Len(q) > 1 /\ Head(q) = servers}
    IN  Overlay(Kept(tree, {p \in DOMAIN tree :
                    \A q \in replaced : ~ Above(SubSeq(q, 1, 2), p)}),
                over)

\* `insert`, below tables made by `ensure_table` (which turns a plain value on
\* the way into a table).
Put(tree, path, value) == Overlay(tree, Leaf(path, value))

\* `insert_string_if_missing`, `entry(..).or_insert(..)`.
PutIfMissing(tree, path, value) ==
    IF Has(tree, path) THEN tree ELSE Put(tree, path, value)

\* What is below `path` becomes exactly `leaves`: a server inserted whole, a file
\* written anew.
PutAt(tree, path, leaves) ==
    Overlay(Drop(tree, path),
            [p \in {path \o q : q \in DOMAIN leaves} |->
                leaves[SubSeq(p, Len(path) + 1, Len(p))]])
===============================================================================

