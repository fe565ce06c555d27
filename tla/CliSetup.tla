-------------------------------- MODULE CliSetup --------------------------------
(***************************************************************************)
(* The configuration of an installation channel and the state it keeps for *)
(* agents. Production and staged builds run side by side for one user, one  *)
(* from within a shell of the other, and every setup reads the file of its   *)
(* channel, merges its changes in and writes the file anew. There is no      *)
(* lock, and the file is not replaced but truncated and filled.              *)
(***************************************************************************)
EXTENDS ConfigTree

CONSTANTS
    Proc,       \* processes of the launcher
    Env,        \* what a process may start with:
                \*   [exe, channel, stage, home, staged, user]
    Asset,      \* suffixes of downloaded binaries, which name no channel
    Sanitized,  \* channel as written -> its name in paths; "prod" is production
    Variable,   \* channel name -> the part it has in the name of a variable
    Passwd,     \* the user's home in the passwd database
    Update,     \* what a setup may set: path -> value
    Profile     \* names of profiles

VARIABLES
    env,        \* process -> what it started with
    pc, mine,   \* process -> where its setup is, and the configuration it holds
    files,      \* channel -> cli.toml; truncated, it reads as the default
    update,     \* process -> what its setup sets
    states,     \* <<home, profile>> -> the processes that keep state there
    given,      \* channel -> path -> the latest value of a setup
    raced       \* channels where two setups overlapped, or one did not end

vars == <<env, pc, mine, files, update, states, given, raced>>

-------------------------------------------------------------------------------
(* Channels *)

\* `config_dir_name_for_channel`, without its prefix.
Name(channel) ==
    IF channel = None \/ Sanitized[channel] = "prod" THEN "prod" ELSE Sanitized[channel]

\* Mutant of Current: what the shell says comes first.
CurrentByShell(e) ==
    Name(IF e.channel # None THEN e.channel
         ELSE IF e.stage # None THEN e.stage
         ELSE IF e.exe \in Asset THEN None ELSE e.exe)

\* `current_channel`: the name of the executable decides over the shell.
Current(e) ==
    Name(IF e.exe \notin Asset \cup {None} THEN e.exe
         ELSE IF e.channel # None THEN e.channel
         ELSE e.stage)

\* `effective_user_home_dir`
UserHome(e) == IF e.user = None THEN Passwd ELSE e.user

\* `default_ai_fence_home`: a staged channel has a variable of its own.
Home(e) ==
    LET named == IF Current(e) = "prod" THEN e.home ELSE Get(e.staged, <<Variable[Current(e)]>>)
    IN  IF named # None THEN named ELSE <<UserHome(e), Current(e)>>

-------------------------------------------------------------------------------
(* merge_config *)

\* Mutant of Merged: what is known of a model is replaced as one.
MergedModels(current, new) ==
    LET whole == {p \in DOMAIN current : p[1] = "model" /\ Has(new, SubSeq(p, 1, 2))}
        all == Joined(new, current)
    IN  Kept(all, {p \in DOMAIN all : p \notin whole \ DOMAIN new /\ all[p] # "none"})

\* The pool "none" is no pool.
Named(tree) == Kept(tree, {p \in DOMAIN tree : tree[p] # "none"})

\* Field by field, the preferences of a model too; launch profiles by name.
Merged(current, new) == Named(Joined(new, current))

-------------------------------------------------------------------------------
Channels == {Current(e) : e \in Env}

Init ==
    /\ env \in [Proc -> Env]
    /\ pc = [p \in Proc |-> "idle"] /\ mine = [p \in Proc |-> Empty]
    /\ update = [p \in Proc |-> Empty]
    /\ files = [c \in Channels |-> Empty] /\ states = Empty
    /\ given = [c \in Channels |-> Empty] /\ raced = {}

Others(p) == {q \in Proc \ {p} : Current(env[q]) = Current(env[p]) /\ pc[q] \in {"loaded", "empty"}}

\* merge_and_save: the file is read and merged, ...
Load(p, new) ==
    /\ pc[p] = "idle"
    /\ pc' = [pc EXCEPT ![p] = "loaded"]
    /\ mine' = [mine EXCEPT ![p] = Merged(files[Current(env[p])], new)]
    /\ update' = [update EXCEPT ![p] = new]
    /\ raced' = IF Others(p) = {} THEN raced ELSE raced \cup {Current(env[p])}
    /\ UNCHANGED <<env, files, states, given>>

\* ... truncated, ...
Truncate(p) ==
    /\ pc[p] = "loaded"
    /\ pc' = [pc EXCEPT ![p] = "empty"]
    /\ files' = [files EXCEPT ![Current(env[p])] = Empty]
    /\ UNCHANGED <<env, mine, update, states, given, raced>>

\* ... and filled.
Fill(p) ==
    /\ pc[p] = "empty"
    /\ pc' = [pc EXCEPT ![p] = "set up"]
    /\ files' = [files EXCEPT ![Current(env[p])] = mine[p]]
    /\ given' = [given EXCEPT ![Current(env[p])] = Joined(update[p], @)]
    /\ UNCHANGED <<env, mine, update, states, raced>>

\* The process is killed, or cannot write.
Die(p) ==
    /\ pc[p] \in {"loaded", "empty"}
    /\ pc' = [pc EXCEPT ![p] = "dead"]
    /\ raced' = IF pc[p] = "empty" THEN raced \cup {Current(env[p])} ELSE raced
    /\ UNCHANGED <<env, mine, files, update, states, given>>

\* A launch with a profile keeps its state below the home of its channel:
\* `resolve_agent_profile`. A setup may have come before it.
Launch(p, name) ==
    /\ pc[p] \in {"idle", "set up"}
    /\ pc' = [pc EXCEPT ![p] = "launched"]
    /\ LET place == <<Home(env[p]), name>>
           there == IF place \in DOMAIN states THEN states[place] ELSE {}
       IN  states' = Joined(Leaf(place, {p} \cup there), states)
    /\ UNCHANGED <<env, mine, files, update, given, raced>>

Next ==
    \E p \in Proc :
        \/ \E new \in Update : Load(p, new)
        \/ Truncate(p) \/ Fill(p) \/ Die(p)
        \/ \E name \in Profile : Launch(p, name)

Spec == Init /\ [][Next]_vars

-------------------------------------------------------------------------------
(* Properties *)

\* The homes that a process was given by name.
HomesNamed(e) == {e.home} \cup {e.staged[v] : v \in DOMAIN e.staged}

\* Builds of two channels do not share the state of a profile, whatever the shell
\* of one passes on to the other: two processes keep it in one directory only if
\* they are of one channel or that directory was named for one of them. An
\* executable that is named for a channel is set up in the configuration of that
\* channel, and the home of another one that its shell names is not its home.
ChannelsApart ==
    /\ \A place \in DOMAIN states : \A p, q \in states[place] :
          \/ Current(env[p]) = Current(env[q])
          \/ place[1] \in HomesNamed(env[p]) \cup HomesNamed(env[q])
    /\ \A p \in Proc :
          (env[p].exe \notin Asset \cup {None} /\ pc[p] = "set up") =>
              /\ DOMAIN update[p] \subseteq DOMAIN given[Name(env[p].exe)]
              /\ Name(env[p].exe) # "prod" => Home(env[p]) = Home([env[p] EXCEPT !.home = None])

\* No setup loses what an earlier one has set, unless they overlapped or one was
\* killed while the file was empty: when no setup is under way, the file has the
\* latest value of every setting, those of each model included.
SettingsStay ==
    \A c \in Channels :
        (c \notin raced /\ \A p \in Proc : Current(env[p]) = c => pc[p] # "empty") =>
            files[c] = Named(given[c])
===============================================================================
