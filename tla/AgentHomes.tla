------------------------------ MODULE AgentHomes ------------------------------
(***************************************************************************)
(* The launch of an agent in a home of its own: which agent and command a  *)
(* call means, which directories it refuses, and the files it writes for    *)
(* Claude, Junie, pi, dsh, Kimi, OpenClaw and Copilot. The caller may give   *)
(* every launch a fresh directory or name one that an earlier launch has     *)
(* used. Codex and Open Interpreter, whose files come from templates, have   *)
(* modules of their own.                                                     *)
(***************************************************************************)
EXTENDS ConfigTree

CONSTANTS
    Call,       \* calls of the launcher: [kind, command]
    Path,       \* homes a call may name
    Personal,   \* agent -> the home it has without the launcher
    Ask,        \* agent -> what a launch may be asked to configure
    MaxRuns     \* bound on launches

VARIABLES
    agent,      \* the agent that is launched
    before,     \* the directories that exist at the beginning
    dirs,       \* the directories that exist
    homes,      \* place -> the files of a home, as one tree: <<file, key, ..>>
    last,       \* the latest launch: [place, command, ask, ok, fresh]; None before
    runs

vars == <<agent, before, dirs, homes, last, runs>>

-------------------------------------------------------------------------------
(* Which agent: resolve_launch. A word is [name, absolute].                 *)

Binaries ==
    [codex |-> {"codex"}, claude |-> {"claude", "claude-code"},
     interpreter |-> {"interpreter", "i"}, openclaw |-> {"openclaw"}, junie |-> {"junie"},
     pi |-> {"pi"}, dsh |-> {"dsh"}, kimi |-> {"kimi"}, copilot |-> {"copilot"}]

Agent == DOMAIN Binaries \cup {"generic"}

Detect(name) ==
    IF name = "copilot-cli" THEN "copilot"
    ELSE IF \E a \in DOMAIN Binaries : name \in Binaries[a]
    THEN CHOOSE a \in DOMAIN Binaries : name \in Binaries[a]
    ELSE "generic"

\* The agent of a call; None is the error of a call that names neither an
\* agent nor a command.
Resolved(call) ==
    LET detected == IF call.kind # "auto" THEN call.kind
                    ELSE IF call.command = <<>> THEN "generic" ELSE Detect(call.command[1].name)
    IN  IF detected = "generic" /\ call.command = <<>> THEN None ELSE detected

\* Mutant of Command: the binary of any agent is enough.
CommandOfAnyAgent(call) ==
    IF call.command = <<>> THEN <<[name |-> Resolved(call), absolute |-> FALSE]>>
    ELSE IF call.command[1].absolute \/ Detect(call.command[1].name) # "generic"
    THEN call.command
    ELSE <<[name |-> Resolved(call), absolute |-> FALSE]>> \o call.command

\* The command that runs: the agent's binary goes first unless it is there or
\* another executable is named by its full path.
Command(call) ==
    LET a == Resolved(call)
    IN  IF call.command = <<>> THEN <<[name |-> a, absolute |-> FALSE]>>
        ELSE IF \/ a = "generic" \/ call.command[1].absolute
                \/ call.command[1].name \in Binaries[a]
        THEN call.command
        ELSE <<[name |-> a, absolute |-> FALSE]>> \o call.command

-------------------------------------------------------------------------------
(* Which home. A path is a sequence of names; "link" is a symbolic link to   *)
(* the user's home.                                                           *)

Real(path) == IF Head(path) = "link" THEN <<"home">> \o Tail(path) ELSE path

\* `normalize_path_lexical`: links are resolved only in a path that exists.
Lexical(path, existing) == IF Real(path) \in existing THEN Real(path) ELSE path

\* The directories an agent uses on its own. OpenClaw also has its old name, and
\* named profiles beside it.
PersonalPlaces(a) ==
    {Real(Personal[a])} \cup (IF a = "openclaw" THEN {<<"home", ".clawdbot">>} ELSE {})

\* Mutant of Refused: paths are compared as they are written.
RefusedAsWritten(a, path, existing) == path = Personal[a]

\* `resolve_openclaw_home` refuses what is below a personal directory, through
\* whatever links, and named profiles; all the others refuse exactly the
\* personal directory, and links to it only if it exists.
Refused(a, path, existing) ==
    IF a = "openclaw"
    THEN \/ \E q \in PersonalPlaces(a) : Above(q, Real(path))
         \/ Real(path) = <<"home", ".openclaw-profile">>
    ELSE Lexical(path, existing) = Lexical(Personal[a], existing)

-------------------------------------------------------------------------------
(* What is written. Every writer returns the tree of the home and whether it  *)
(* came to its end.                                                            *)

Done(tree) == [tree |-> tree, ok |-> TRUE]
Failed(tree) == [tree |-> tree, ok |-> FALSE]

\* `write_agent_env_file`
WithEnv(tree, ask) ==
    PutAt(tree, <<"env">>,
          Joined(Leaf(<<"OPENAI_BASE_URL">>, "proxy/v1"),
                 Joined(Leaf(<<"ANTHROPIC_BASE_URL">>, "proxy"),
                        IF ask.key THEN Leaf(<<"OPENAI_API_KEY">>, "key") ELSE Empty)))

\* Mutant of Hosting: whatever provider comes first.
HostingFirst(ask) ==
    IF ask.default = None \/ ask.providers = <<>> THEN <<>> ELSE <<Head(ask.providers)>>

\* The first provider that serves the default model: <<>> or <<provider>>.
Hosting(ask) ==
    IF ask.default = None THEN <<>>
    ELSE LET first == FirstWhere(ask.providers, LAMBDA p : ask.default \in p.models)
         IN  IF first = 0 THEN <<>> ELSE <<ask.providers[first]>>

Pin(ask) ==
    IF Hosting(ask) = <<>> THEN Empty
    ELSE Joined(Leaf(<<"provider">>, Hosting(ask)[1].name), Leaf(<<"model">>, ask.default))

Nameless == "no name"

\* A provider without a name, or for Kimi a model without one, is an error.
Nameable(a, providers) ==
    \A p \in Range(providers) :
        p.name # Nameless /\ (a = "kimi" => Nameless \notin p.models)

\* The providers of a launch have different names.
Offered(providers) == UNION {{<<p.name, m>> : m \in p.models} : p \in Range(providers)}

Routes(providers) == [q \in Offered(providers) |-> "proxy"]

\* `write_pi_settings`: the pin goes into a file of its own, before the
\* providers are looked at.
Pi(tree, ask) ==
    LET pinned == IF Pin(ask) = Empty THEN WithEnv(tree, ask)
                  ELSE PutAt(WithEnv(tree, ask), <<"settings.json">>, Pin(ask))
    IN  IF Nameable("pi", ask.providers)
        THEN Done(PutAt(pinned, <<"models.json">>, Routes(ask.providers)))
        ELSE Failed(pinned)

\* Pin and providers in one file.
InOneFile(tree, ask) ==
    PutAt(WithEnv(tree, ask), <<"settings">>,
          [p \in {<<"pin">> \o q : q \in DOMAIN Pin(ask)}
                   \cup {<<"models">> \o q : q \in Offered(ask.providers)}
              |-> IF p[1] = "pin" THEN Pin(ask)[Tail(p)] ELSE "proxy"])

\* `write_dsh_settings`
Dsh(tree, ask) ==
    IF Nameable("dsh", ask.providers) THEN Done(InOneFile(tree, ask)) ELSE Failed(WithEnv(tree, ask))

\* `write_kimi_settings`, where a model is known as provider/model
\* (`kimi_model_key`).
Kimi(tree, ask) ==
    IF Nameable("kimi", ask.providers) THEN Done(InOneFile(tree, ask)) ELSE Failed(WithEnv(tree, ask))

\* `write_openclaw_config`: one provider, one model of it, no fallback, and
\* nothing at all if the provider does not serve the model.
OpenClaw(tree, ask) ==
    IF Hosting(ask) = <<>> THEN Failed(tree)
    ELSE Done(PutAt(tree, <<"settings">>,
                 Joined([p \in {<<"pin">> \o q : q \in DOMAIN Pin(ask)} |-> Pin(ask)[Tail(p)]],
                        Leaf(<<"models", Hosting(ask)[1].name, ask.default>>, "proxy"))))

\* `junie_model_stem`: the parts of an id, joined by dashes whatever was
\* between them.
Stem(id) == [i \in DOMAIN id |-> IF id[i] = "/" THEN "-" ELSE id[i]]

\* `write_junie_settings` and `write_junie_models`: a file for every model up to
\* one without an id, each in its turn: the last one of a stem stays.
Junie(tree, ask) ==
    LET upTo == FirstWhere(ask.ids, LAMBDA id : id = <<>>)
        ids == IF upTo = 0 THEN ask.ids ELSE SubSeq(ask.ids, 1, upTo - 1)
        stems == {Stem(id) : id \in Range(ids)}
        lastOf(stem) == ids[CHOOSE i \in DOMAIN ids :
                               /\ Stem(ids[i]) = stem
                               /\ \A j \in DOMAIN ids : Stem(ids[j]) = stem => j <= i]
        base == WithEnv(tree, ask)
    IN  [tree |-> Overlay(Kept(base, {p \in DOMAIN base :
                                          \A s \in stems : ~ Above(<<"models", s>>, p)}),
                          [p \in {<<"models", s, "id">> : s \in stems} |-> lastOf(p[2])]),
         ok |-> upTo = 0]

\* Mutant of Aliased: a selected model keeps its place.
AliasedInPlace(ask) ==
    IF ask.default = None \/ ask.default \in Range(ask.models) THEN ask.models
    ELSE <<ask.default>> \o ask.models

\* The model of a launch first, then the others it selected.
Aliased(ask) ==
    IF ask.default = None THEN ask.models
    ELSE LET at == FirstWhere(ask.models, LAMBDA m : m = ask.default)
         IN  <<ask.default>> \o (IF at = 0 THEN ask.models ELSE Without(ask.models, at))

\* `write_claude_settings_with_models`: the environment of the template, where it
\* is a table, with the proxy and the three aliases.
Settings(ask) ==
    LET models == Aliased(ask)
        at(i) == models[IF i > Len(models) THEN 1 ELSE i]
        proxied == PutIfMissing(Put(ask.template, <<"env", "ANTHROPIC_BASE_URL">>, "proxy"),
                                <<"env", "WINDOW">>, "reactive")
    IN  IF <<"env">> \in DOMAIN ask.template THEN ask.template
        ELSE IF models = <<>> THEN proxied
        ELSE Put(Put(Put(proxied, <<"env", "HAIKU">>, at(3)), <<"env", "SONNET">>, at(1)),
                 <<"env", "OPUS">>, at(2))

\* The server of a name; the last one, if there are several.
ServerOf(servers, n) ==
    servers[CHOOSE i \in DOMAIN servers :
                servers[i].name = n /\ \A j \in DOMAIN servers : servers[j].name = n => j <= i]

\* `merge_claude_mcp_servers`: servers of the launch, by name.
WithServers(tree, servers) ==
    LET at(n) == <<"mcpServers", n>>
        names == {s.name : s \in Range(servers)}
        leaves == UNION {{at(n) \o q : q \in DOMAIN ServerOf(servers, n).leaves} : n \in names}
    IN  Overlay(Kept(tree, {p \in DOMAIN tree : \A n \in names : ~ Above(at(n), p)}),
                [p \in leaves |-> ServerOf(servers, p[2]).leaves[SubSeq(p, 3, Len(p))]])

\* `merge_claude_user_config_overlay` refuses servers that are no table.
Mergeable(ask) ==
    /\ <<"mcpServers">> \notin DOMAIN ask.overlay
    /\ <<"mcpServers">> \in DOMAIN ask.user =>
          ~ Has(ask.overlay, <<"mcpServers">>) /\ ask.servers = <<>>

UserConfig(ask) == WithServers(OverlayProfile(ask.user, ask.overlay, "mcpServers"), ask.servers)

\* `write_rendered_claude_user_config`: an empty one is not written.
WithUserConfig(tree, ask) ==
    IF ~ Mergeable(ask) THEN Failed(tree)
    ELSE IF UserConfig(ask) = Empty THEN Done(tree)
    ELSE Done(PutAt(tree, <<".claude.json">>, UserConfig(ask)))

\* `write_claude_model_agents`: one sub-agent for every selected model.
WithAgents(tree, models) ==
    LET at == {<<"agents", m>> : m \in Range(models)}
    IN  Overlay(Kept(tree, {p \in DOMAIN tree : \A a \in at : ~ Above(a, p)}),
                [p \in {a \o <<"model">> : a \in at} |-> p[2]])

\* `write_claude_settings_with_models`, the sub-agents, the configuration of the user.
Claude(tree, ask) ==
    WithUserConfig(WithAgents(PutAt(tree, <<"settings.json">>, Settings(ask)), ask.models), ask)

Written(tree, ask) ==
    CASE agent = "pi" -> Pi(tree, ask)
      [] agent = "dsh" -> Dsh(tree, ask)
      [] agent = "kimi" -> Kimi(tree, ask)
      [] agent = "openclaw" -> OpenClaw(tree, ask)
      [] agent = "junie" -> Junie(tree, ask)
      [] agent = "claude" -> Claude(tree, ask)
      [] OTHER -> Done(tree)

-------------------------------------------------------------------------------
RealPaths == {Real(p) : p \in Path}

Init ==
    /\ agent \in DOMAIN Ask
    /\ before \in SUBSET PersonalPlaces(agent)
    /\ dirs = before
    /\ homes = [p \in RealPaths |-> Empty]
    /\ last = None /\ runs = 0

\* A launch in the home `path`. It ends at once if the home is refused;
\* otherwise the caller creates the directory and the files are written.
Launch(call, path, ask) ==
    /\ runs < MaxRuns /\ Resolved(call) = agent
    /\ ~ Refused(agent, path, dirs)
    /\ LET place == Real(path)
           written == Written(homes[place], ask)
       IN  /\ dirs' = dirs \cup {place}
           /\ homes' = [homes EXCEPT ![place] = written.tree]
           /\ last' = [place |-> place, command |-> Command(call), ask |-> ask,
                       ok |-> written.ok, fresh |-> homes[place] = Empty]
    /\ runs' = runs + 1
    /\ UNCHANGED <<agent, before>>

Next == \E call \in Call, path \in Path : \E ask \in Ask[agent] : Launch(call, path, ask)

Spec == Init /\ [][Next]_vars

-------------------------------------------------------------------------------
(* Properties *)

\* No launch writes into the home an agent has without the launcher, whatever
\* links lead there: OpenClaw's not even below it, the others' if it existed
\* when the launcher was first used (a link is not resolved in a path that does
\* not exist, and the directory is then created through the link).
PersonalHomesAreSpared ==
    \A p \in PersonalPlaces(agent), q \in RealPaths :
        homes[q] # Empty =>
            IF agent = "openclaw" THEN ~ Above(p, q)
            ELSE p \in before => p # q

\* What a home pins is something it serves: after a launch came to its end in a
\* fresh home, the default of pi, and after any launch that of dsh, Kimi and
\* OpenClaw, is a model that a provider of the same home offers by the proxy, so
\* that the agent cannot fall back to a provider of its own. Claude's first
\* alias is the model of the launch, and every alias is a model it selected
\* (unless the environment of the template is no table, which is left alone).
PinIsServed ==
    last # None =>
        LET tree == homes[last.place]
            pin(file) == <<Get(tree, file \o <<"provider">>), Get(tree, file \o <<"model">>)>>
        IN  /\ agent = "pi" /\ last.ok /\ last.fresh =>
                  \/ ~ Has(tree, <<"settings.json">>)
                  \/ Has(tree, <<"models.json">> \o pin(<<"settings.json">>))
            /\ agent \in {"dsh", "kimi", "openclaw"} =>
                  \/ ~ Has(tree, <<"settings", "pin">>)
                  \/ Has(tree, <<"settings", "models">> \o pin(<<"settings", "pin">>))
            /\ agent = "claude" /\ last.ok /\ Aliased(last.ask) # <<>>
                  /\ <<"env">> \notin DOMAIN last.ask.template =>
                     /\ last.ask.default # None =>
                           Get(tree, <<"settings.json", "env", "SONNET">>) = last.ask.default
                     /\ \A alias \in {"SONNET", "OPUS", "HAIKU"} :
                           Get(tree, <<"settings.json", "env", alias>>)
                               \in Range(last.ask.models) \cup {last.ask.default}

\* A server of Claude's is the one of the launch, else that of the profile, else that
\* of the template, and never a mixture of two that have one name. (A launch
\* without any leaves the file of an earlier one.)
ServersAreWhole ==
    last # None /\ agent = "claude" /\ last.ok /\ UserConfig(last.ask) # Empty =>
        LET Below(tree, path) == [p \in {q \in DOMAIN tree : Above(path, q)} |-> tree[p]]
            Is(path, tree) == Below(homes[last.place], <<".claude.json">> \o path)
                                = PutAt(Empty, <<".claude.json">>, Below(tree, path))
            of(n) == PutAt(Empty, <<"mcpServers", n>>, ServerOf(last.ask.servers, n).leaves)
            names == {s.name : s \in Range(last.ask.servers)}
            given == {<<"mcpServers", n>> : n \in names}
            named(tree) == {SubSeq(p, 1, 2) : p \in {q \in DOMAIN tree : Len(q) > 1 /\ q[1] = "mcpServers"}}
        IN  /\ \A n \in names : Is(<<"mcpServers", n>>, of(n))
            /\ \A path \in named(last.ask.overlay) \ given : Is(path, last.ask.overlay)
            /\ \A path \in named(last.ask.user) \ (given \cup named(last.ask.overlay)) :
                  Is(path, last.ask.user)

\* The launcher and the agent it starts mean the same: resolving the command
\* that runs once more gives the agent whose home was prepared, unless the
\* caller named another executable by its full path.
CommandIsItsAgent ==
    last # None =>
        \/ last.command[1].absolute
        \/ Resolved([kind |-> "auto", command |-> last.command]) = agent
===============================================================================

