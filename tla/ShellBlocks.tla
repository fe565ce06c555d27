------------------------------ MODULE ShellBlocks ------------------------------
(***************************************************************************)
(* The files of the user that the launcher shares: shell profiles, which   *)
(* load the navigation helpers of a channel, and the instructions of Codex, *)
(* which get the guidance about checkpoints. The launcher owns a block      *)
(* between two markers in each. Installations of two channels, launches and *)
(* the user change the files at the same time. Profiles are truncated and   *)
(* filled, without a lock; the instructions are replaced at once under one. *)
(* A text is a sequence of lines [is, of, by].                              *)
(***************************************************************************)
EXTENDS Lists

CONSTANTS
    Channel,    \* channels that are installed
    Platform,   \* the user's machine: [windows, zsh, powershell]
    Encodings,  \* how the user's profiles may be encoded
    MaxEdits,   \* bound on edits of the user
    MaxRuns     \* bound on installations

VARIABLES
    platform,
    file,       \* file -> [enc, text]
    helpers,    \* helpers that were written: <<shell, channel>>
    pc, plan,   \* channel -> where its installation is, and the files it has left
    mine,       \* channel -> the file it has read and changed
    typed,      \* file -> the numbers of the lines the user has typed there
    raced,      \* files that were changed behind a reader, or left truncated
    edits, runs

vars == <<platform, file, helpers, pc, plan, mine, typed, raced, edits, runs>>

Instructions == "AGENTS.md"
File == {".bashrc", ".bash_profile", ".zshrc", "profile.ps1", "ps7/profile.ps1", Instructions}

ShellOf(f) == IF f \in {".bashrc", ".bash_profile"} THEN "bash"
              ELSE IF f = ".zshrc" THEN "zsh" ELSE "powershell"

\* `install_automatic`: the profiles of the shells, in the order they are done.
\* Git Bash has two; both versions of PowerShell share a helper.
Profiles(m) ==
    IF m.windows THEN <<".bashrc", ".bash_profile", "profile.ps1", "ps7/profile.ps1">>
    ELSE <<".bashrc">> \o (IF m.zsh THEN <<".zshrc">> ELSE <<>>)
                       \o (IF m.powershell THEN <<"profile.ps1">> ELSE <<>>)

-------------------------------------------------------------------------------
(* Texts *)

User(n) == [is |-> "user", of |-> "user", by |-> n]
Begin(c) == [is |-> "begin", of |-> c, by |-> 0]
Load(c) == [is |-> "load", of |-> c, by |-> 0]
End(c) == [is |-> "end", of |-> c, by |-> 0]
Block(c) == <<Begin(c), Load(c), End(c)>>

\* The lines of the user, which are numbered as they are typed, and whether they
\* are each there once in the order in which they were.
Typed(text) == {text[i].by : i \in {j \in DOMAIN text : text[j].is = "user"}}
InOrder(text) ==
    \A i, j \in DOMAIN text :
        i < j /\ text[i].is = "user" /\ text[j].is = "user" => text[i].by < text[j].by

Unreadable == [enc |-> "other", text |-> <<>>]

\* The first place of a line; 0 if it is not there.
At(text, line) == FirstWhere(text, LAMBDA l : l = line)

\* The first end marker of the channel after its begin marker; 0 if there is none.
Ending(c, text, start) ==
    LET after == At(SubSeq(text, start, Len(text)), End(c))
    IN  IF after = 0 THEN 0 ELSE start + after - 1

\* `initialize_profile`: the block is replaced, or appended.
WithBlock(c, text) ==
    LET start == At(text, Begin(c))
    IN  IF start = 0 THEN text \o Block(c)
        ELSE SubSeq(text, 1, start - 1) \o Block(c)
             \o SubSeq(text, Ending(c, text, start) + 1, Len(text))

\* Mutant of Incomplete: a block without its end is taken as it is.
IncompleteNever(c, text) == FALSE

Incomplete(c, text) ==
    LET start == At(text, Begin(c))
    IN  start # 0 /\ Ending(c, text, start) = 0

\* The instructions have one block for all channels, and are left alone unless
\* they have both markers in order or neither.
Guidance == "guidance"

Broken(f, c, text) ==
    IF f # Instructions THEN Incomplete(c, text)
    ELSE LET start == At(text, Begin(Guidance))
             end == At(text, End(Guidance))
         IN  start # end /\ ~ (0 < start /\ start < end)

\* An empty PowerShell profile gets a byte order mark; all else keeps its
\* encoding.
Encoded(f, old) ==
    IF old.text = <<>> /\ old.enc = "utf-8" /\ ShellOf(f) = "powershell" /\ f # Instructions
    THEN "utf-8 with mark" ELSE old.enc

-------------------------------------------------------------------------------
Init ==
    /\ platform \in Platform
    /\ \E enc \in Encodings :
          file = [f \in File |-> IF f = ".bashrc" THEN [enc |-> enc, text |-> <<User(0)>>]
                                                ELSE [enc |-> "utf-8", text |-> <<>>]]
    /\ typed = [f \in File |-> Typed(file[f].text)]
    /\ helpers = {}
    /\ pc = [c \in Channel |-> "idle"] /\ plan = [c \in Channel |-> <<>>]
    /\ mine = [c \in Channel |-> Unreadable]
    /\ raced = {} /\ edits = 0 /\ runs = 0

Goto(c, step) == pc' = [pc EXCEPT ![c] = step]
First(c) == Head(plan[c])
OthersIn(f, c) == {d \in Channel \ {c} : pc[d] \in {"changed", "truncated"} /\ First(d) = f}

\* install-self of a channel, or a launch of Codex.
Install(c) ==
    /\ pc[c] = "idle" /\ runs < MaxRuns
    /\ runs' = runs + 1
    /\ \E files \in {Profiles(platform), <<Instructions>>} : plan' = [plan EXCEPT ![c] = files]
    /\ Goto(c, "helper")
    /\ UNCHANGED <<platform, file, helpers, mine, typed, raced, edits>>

\* Mutant of WriteHelper: one helper for all the shells of a machine.
WriteHelperOnce(c) ==
    /\ pc[c] = "helper"
    /\ helpers' = IF plan[c] # Profiles(platform) THEN helpers
                  ELSE helpers \cup {<<ShellOf(First(c)), c>>}
    /\ Goto(c, "read")
    /\ UNCHANGED <<platform, file, plan, mine, typed, raced, edits, runs>>

\* `install`: the helper of the shell is written before the profile.
WriteHelper(c) ==
    /\ pc[c] = "helper"
    /\ helpers' = IF First(c) = Instructions THEN helpers
                  ELSE helpers \cup {<<ShellOf(First(c)), c>>}
    /\ Goto(c, "read")
    /\ UNCHANGED <<platform, file, plan, mine, typed, raced, edits, runs>>

\* The file is read and changed. One that cannot be decoded or whose block is
\* broken ends the installation. Only the instructions have a lock.
Read(c) ==
    /\ pc[c] = "read"
    /\ LET f == First(c)
           owner == IF f = Instructions THEN Guidance ELSE c
       IN  /\ f = Instructions => OthersIn(f, c) = {}
           /\ IF file[f].enc = "other" \/ Broken(f, owner, file[f].text)
              THEN Goto(c, "idle") /\ mine' = mine
              ELSE /\ Goto(c, "changed")
                   /\ mine' = [mine EXCEPT ![c] =
                        [enc |-> Encoded(f, file[f]),
                         text |-> WithBlock(owner, file[f].text)]]
           /\ raced' = IF OthersIn(f, c) = {} THEN raced ELSE raced \cup {f}
    /\ UNCHANGED <<platform, file, helpers, plan, typed, edits, runs>>

\* `fs::write` of a profile.
Truncate(c) ==
    /\ pc[c] = "changed" /\ First(c) # Instructions
    /\ file' = [file EXCEPT ![First(c)] = [enc |-> "utf-8", text |-> <<>>]]
    /\ Goto(c, "truncated")
    /\ UNCHANGED <<platform, helpers, plan, mine, typed, raced, edits, runs>>

\* The profile is filled; the instructions are renamed into place.
Fill(c) ==
    /\ pc[c] # "idle"
    /\ pc[c] = IF First(c) = Instructions THEN "changed" ELSE "truncated"
    /\ file' = [file EXCEPT ![First(c)] = mine[c]]
    /\ plan' = [plan EXCEPT ![c] = Tail(@)]
    /\ mine' = [mine EXCEPT ![c] = Unreadable]
    /\ Goto(c, IF Len(plan[c]) > 1 THEN "helper" ELSE "idle")
    /\ UNCHANGED <<platform, helpers, typed, raced, edits, runs>>

\* A write fails, or the process is killed.
Fail(c) ==
    /\ pc[c] # "idle"
    /\ Goto(c, "idle")
    /\ raced' = IF pc[c] = "truncated" THEN raced \cup {First(c)} ELSE raced
    /\ mine' = [mine EXCEPT ![c] = Unreadable] /\ plan' = [plan EXCEPT ![c] = <<>>]
    /\ UNCHANGED <<platform, file, helpers, typed, edits, runs>>

\* The user adds a line, or removes a marker.
Edit(f) ==
    /\ edits < MaxEdits /\ edits' = edits + 1
    /\ \/ /\ file' = [file EXCEPT ![f].text = Append(@, User(edits + 1))]
          /\ typed' = [typed EXCEPT ![f] = @ \cup {edits + 1}]
       \/ \E i \in DOMAIN file[f].text :
          /\ file[f].text[i].is \in {"begin", "end"}
          /\ file' = [file EXCEPT ![f].text = Without(@, i)]
          /\ typed' = typed
    /\ raced' = IF \E c \in Channel : pc[c] \in {"changed", "truncated"} /\ First(c) = f
                THEN raced \cup {f} ELSE raced
    /\ UNCHANGED <<platform, helpers, pc, plan, mine, runs>>

Next ==
    \/ \E c \in Channel : Install(c) \/ WriteHelper(c) \/ Read(c) \/ Truncate(c) \/ Fill(c) \/ Fail(c)
    \/ \E f \in Range(Profiles(platform)) \cup {Instructions} : Edit(f)

Spec == Init /\ [][Next]_vars

-------------------------------------------------------------------------------
(* Properties *)

Writing(f) == \E c \in Channel : pc[c] = "truncated" /\ First(c) = f

\* "Update only our delimited profile block; preserve all other bytes": whatever
\* is installed in whatever order, and even where a marker was removed by hand, a
\* file has the user's lines in their order. The exceptions are a profile two of
\* them changed at the same time, and one whose writer was killed or failed while
\* it was truncated. Codex's instructions survive that too.
UserTextSurvives ==
    \A f \in File : f \notin raced /\ ~ Writing(f) =>
        Typed(file[f].text) = typed[f] /\ InOrder(file[f].text)

\* A profile never loads what is not there: the helper of a channel is written
\* before the line that loads it, and an installation that ends halfway leaves
\* no line without its helper.
LoadersWork ==
    \A f \in File \ {Instructions} : \A i \in DOMAIN file[f].text :
        LET l == file[f].text[i]
        IN  l.is = "load" => <<ShellOf(f), l.of>> \in helpers
===============================================================================
