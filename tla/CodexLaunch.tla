------------------------------ MODULE CodexLaunch ------------------------------
(***************************************************************************)
(* The configuration of Codex through a series of launches: the template   *)
(* of the user and the configuration of the profile go in, the agent and   *)
(* the user change the copy of the run, and what they chose goes back.     *)
(* The documents are trees of ConfigTree.                                  *)
(***************************************************************************)
EXTENDS ConfigTree

CONSTANTS
    Setting,    \* what a user may write into a template or a profile: <<path, value>>
    Server,     \* MCP servers: [name, leaves, headers]
    Ask,        \* the options a launch may be given: [profile, explicit (--model),
                \*   default (of the setup), auth, offered (models), yolo, servers]
    Routed,     \* models by the route of another provider: ids with a slash or a colon
    Project,    \* project directories
    Picks,      \* what a user may choose in a run, as trees
    MaxEdits,   \* bound on changes by hand
    MaxRuns     \* bound on launches

VARIABLES
    template,   \* the durable template of the user
    profile,    \* config.toml of the profile
    trust,      \* trusted-projects.toml of the profile: project -> level
    home,       \* the CODEX_HOME of the run: its config, catalogue and trust file
    run,        \* the options of the run; None between runs
    used,       \* whether the user has chosen anything in the run
    edits, runs

vars == <<template, profile, trust, home, run, used, edits, runs>>

Auth == {"EnvKey", "EnvBearer", "OpenAiAuth", "Command"}
Level == {"trusted", "untrusted"}
NoHome == [config |-> Empty, catalog |-> <<>>, trust |-> Empty]

Init ==
    /\ template = Empty /\ profile = Empty /\ trust = Empty
    /\ home = NoHome /\ run = None
    /\ used = FALSE /\ edits = 0 /\ runs = 0

-------------------------------------------------------------------------------
(* write_codex_config_with_model_selection, in the order of its effects *)

Provider == <<"model_providers", "ai_fence">>

\* What the user wrote, template under profile.
Written(ask, overlay) ==
    IF ask.profile THEN Drop(OverlayProfile(template, overlay, "mcp_servers"), <<"sqlite_home">>)
                   ELSE template

Basics(tree) ==
    PutIfMissing(
        Drop(PutIfMissing(tree, <<"cli_auth_credentials_store">>, "file"),
             <<"preferred_auth_method">>),
        <<"features", "responses_websockets">>, "false")

WithModel(tree, ask) ==
    IF ask.explicit # None THEN Put(tree, <<"model">>, ask.explicit)
    ELSE IF ask.default # None THEN PutIfMissing(tree, <<"model">>, ask.default)
    ELSE tree

\* The models of the generated catalogue; none if none is to be written. Codex
\* has no metadata for the route of another provider
\* (`should_write_codex_model_catalog`).
Catalog(tree, ask) ==
    LET effective == Get(tree, <<"model">>)
        listed == IF effective = None \/ effective \in Range(ask.offered)
                  THEN ask.offered ELSE <<effective>> \o ask.offered
    IN  IF \/ ask.auth = "OpenAiAuth"
           \/ Has(tree, <<"model_catalog_json">>)
           \/ ask.offered = <<>> /\ effective \notin Routed
        THEN <<>>
        ELSE listed

WithCatalog(tree, ask) ==
    IF ask.auth = "OpenAiAuth" THEN Drop(tree, <<"model_catalog_json">>)
    ELSE IF Catalog(tree, ask) # <<>> THEN Put(tree, <<"model_catalog_json">>, "generated")
    ELSE tree

\* Mutant of WithProvider: a base URL in the profile is kept.
WithProviderKept(tree) ==
    PutIfMissing(Put(Drop(tree, <<"openai_base_url">>), <<"model_provider">>, "ai_fence"),
                 Provider \o <<"base_url">>, "proxy")

\* `configure_codex_proxy_provider`.
WithProvider(tree) ==
    LET ours == Put(Drop(tree, <<"openai_base_url">>), <<"model_provider">>, "ai_fence")
        named == PutIfMissing(ours, Provider \o <<"name">>, "ours")
        pinned == Put(Put(named, Provider \o <<"base_url">>, "proxy"),
                      Provider \o <<"wire_api">>, "responses")
    IN  PutIfMissing(pinned, Provider \o <<"supports_websockets">>, "true")

Sources == [EnvKey     |-> Provider \o <<"env_key">>,
            EnvBearer  |-> Provider \o <<"env_key">>,
            OpenAiAuth |-> Provider \o <<"requires_openai_auth">>,
            Command    |-> Provider \o <<"auth">>]

Secrets == [EnvKey |-> "OPENAI_API_KEY", EnvBearer |-> "bearer",
            OpenAiAuth |-> "true", Command |-> "helper"]

\* Mutant of WithAuth: sources of the template stay.
WithAuthAdded(tree, ask) ==
    Put(tree, Sources[ask.auth] \o (IF ask.auth = "Command" THEN <<"command">> ELSE <<>>),
        Secrets[ask.auth])

\* The one source of credentials; the others are removed from the provider.
WithAuth(tree, ask) ==
    LET drop == {Sources[a] : a \in Auth}
        bare == Kept(tree, {p \in DOMAIN tree : \A s \in drop : ~ Above(s, p)})
    IN  Put(bare, Sources[ask.auth] \o (IF ask.auth = "Command" THEN <<"command">> ELSE <<>>),
            Secrets[ask.auth])

TrustPath(p) == <<"projects", p, "trust_level">>

\* Mutant of WithTrust: the template decides over what the user answered.
WithTrustKept(tree, levels, ask) ==
    Overlay([q \in {TrustPath(p) : p \in DOMAIN levels} |-> levels[q[2]]], tree)

\* `merge_codex_project_trust`; with `--yolo` the current project as well.
WithTrust(tree, levels, ask) ==
    LET merged == Overlay(tree, [q \in {TrustPath(p) : p \in DOMAIN levels} |-> levels[q[2]]])
    IN  IF ask.yolo THEN Put(merged, TrustPath("here"), "trusted") ELSE merged

\* `merge_codex_mcp_servers`: each is inserted whole under its name.
WithServers(tree, servers) ==
    LET at(s) == <<"mcp_servers", s.name>>
        leaves == UNION {{at(s) \o q : q \in DOMAIN s.leaves} : s \in servers}
        named(n) == CHOOSE s \in servers : s.name = n
    IN  Overlay(Kept(tree, {p \in DOMAIN tree : \A s \in servers : ~ Above(at(s), p)}),
                [p \in leaves |-> named(p[2]).leaves[SubSeq(p, 3, Len(p))]])

\* `to_codex_toml` refuses a server with HTTP headers of its own.
Renderable(servers) == \A s \in servers : ~ s.headers

Chosen(ask, overlay) == WithModel(Basics(Written(ask, overlay)), ask)

CodexConfig(ask, overlay, levels) ==
    LET chosen == Chosen(ask, overlay)
    IN  WithServers(
            WithTrust(WithAuth(WithProvider(WithCatalog(chosen, ask)), ask), levels, ask),
            ask.servers)

-------------------------------------------------------------------------------
(* Actions *)

\* The user edits the template or the profile by hand.
EditTemplate(s) ==
    /\ run = None /\ edits < MaxEdits
    /\ template' = Put(template, s[1], s[2])
    /\ edits' = edits + 1
    /\ UNCHANGED <<profile, trust, home, run, used, runs>>

EditProfile(s) ==
    /\ run = None /\ edits < MaxEdits
    /\ profile' = Put(profile, s[1], s[2])
    /\ edits' = edits + 1
    /\ UNCHANGED <<template, trust, home, run, used, runs>>

\* upsert_codex_profile_mcp_server; an error leaves the file alone.
UpsertServer(s) ==
    /\ run = None /\ edits < MaxEdits
    /\ Renderable({s})
    /\ profile' = PutAt(profile, <<"mcp_servers", s.name>>, s.leaves)
    /\ edits' = edits + 1
    /\ UNCHANGED <<template, trust, home, run, used, runs>>

\* sync_profile_state_to_runtime brings the trust file into a new home, and
\* the configuration is written beside it.
Launch(ask) ==
    /\ run = None /\ runs < MaxRuns
    /\ Renderable(ask.servers)
    /\ LET levels == IF ask.profile THEN trust ELSE Empty
       IN  home' = [config |-> CodexConfig(ask, profile, levels),
                    catalog |-> Catalog(Chosen(ask, profile), ask),
                    trust |-> levels]
    /\ run' = ask
    /\ used' = FALSE
    /\ runs' = runs + 1
    /\ UNCHANGED <<template, profile, trust, edits>>

\* In the agent the user picks a model or an effort, or answers the question
\* whether a project is to be trusted. Codex writes all three into its config.
Use(picks) ==
    /\ run # None /\ ~ used
    /\ home' = [home EXCEPT !.config = Overlay(@, picks)]
    /\ used' = TRUE
    /\ UNCHANGED <<template, profile, trust, run, edits, runs>>

\* Mutant of Selection: only the model is kept.
SelectionOfModel(config) ==
    [q \in {q \in {<<"model">>} : Get(config, q) # None} |-> config[q]]

\* `persist_codex_profile_selection`: model and effort, nothing else.
Selection(config) ==
    [q \in {q \in {<<"model">>, <<"model_reasoning_effort">>} : Get(config, q) # None} |->
        config[q]]

\* `persist_codex_project_trust`: the levels of all projects in the config. None
\* at all leaves the file as the copy of the run's state left it.
Trusted(config, copied) ==
    LET answered == {q \in DOMAIN config : /\ Len(q) = 3 /\ q[1] = "projects"
                                           /\ q[3] = "trust_level" /\ config[q] \in Level}
        levels == [p \in {q[2] : q \in answered} |-> config[TrustPath(p)]]
    IN  IF answered = {} THEN copied ELSE levels

\* sync_runtime_state_to_profile at the end of a run.
SavedProfile == Overlay(profile, Selection(home.config))
SavedTrust == Trusted(home.config, Joined(home.trust, trust))

Finish ==
    /\ run # None
    /\ profile' = IF run.profile THEN SavedProfile ELSE profile
    /\ trust' = IF run.profile THEN SavedTrust ELSE trust
    /\ home' = NoHome /\ run' = None /\ used' = FALSE
    /\ UNCHANGED <<template, edits, runs>>

Next ==
    \/ \E s \in Setting : EditTemplate(s) \/ EditProfile(s)
    \/ \E s \in Server : UpsertServer(s)
    \/ \E ask \in Ask : Launch(ask)
    \/ \E picks \in Picks : Use(picks)
    \/ Finish

Spec == Init /\ [][Next]_vars

-------------------------------------------------------------------------------
(* Properties *)

\* Whatever the template and the profile say, the agent of a run talks to the
\* proxy of this run over the Responses protocol, with exactly the source of
\* credentials the launch was given: `configure_codex_proxy_provider` and the
\* four arms of `provider_auth` undo every setting that would lead elsewhere.
\* A run on a subscription has no generated catalogue, and a generated one
\* lists the model the run was started with.
OwnLane ==
    run # None =>
        LET config == home.config
            found == {a \in Auth : Has(config, Sources[a])}
        IN  /\ Get(config, <<"model_provider">>) = "ai_fence"
            /\ Get(config, Provider \o <<"base_url">>) = "proxy"
            /\ Get(config, Provider \o <<"wire_api">>) = "responses"
            /\ ~ Has(config, <<"openai_base_url">>)
            /\ found = {a \in Auth : Sources[a] = Sources[run.auth]}
            /\ run.auth = "OpenAiAuth" => ~ Has(config, <<"model_catalog_json">>)
            /\ run.explicit # None /\ home.catalog # <<>>
                   => run.explicit \in Range(home.catalog)

\* What a launch that asks for nothing will find if the run ends now.
NextLaunch ==
    CodexConfig([profile |-> TRUE, explicit |-> None, default |-> "fallback",
                 auth |-> "EnvKey", offered |-> <<>>, yolo |-> FALSE, servers |-> {}],
                SavedProfile, SavedTrust)

\* Whenever a run of a profile ends, the next one starts with what the user chose
\* in it: the model, the effort, and the answer about every project. The
\* choices go through the copy back, the overlay over the template, and the merge
\* of the trust file, and each of them could lose one.
ChoicesSurvive ==
    run # None /\ run.profile =>
        LET next == NextLaunch
        IN  \A q \in DOMAIN home.config :
                \/ q \in {<<"model">>, <<"model_reasoning_effort">>}
                \/ \E p \in Project : q = TrustPath(p)
                => Get(next, q) = home.config[q]

\* A server of the profile is what the profile says and nothing else, even
\* where the template has a server of that name with other settings.
ServersAreWhole ==
    run # None /\ run.profile =>
        \A q \in DOMAIN profile :
            Len(q) > 2 /\ Head(q) = "mcp_servers" /\ ~ (\E s \in run.servers : s.name = q[2]) =>
                {p \in DOMAIN home.config : Above(SubSeq(q, 1, 2), p)}
                    = {p \in DOMAIN profile : Above(SubSeq(q, 1, 2), p)}
===============================================================================

