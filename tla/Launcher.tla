-------------------------------- MODULE Launcher --------------------------------
(* The files a launcher keeps, each in a part of its own: the configuration of   *)
(* Codex and of Open Interpreter, the homes of the other agents, the metadata of  *)
(* models, the setup, and the shared files of the user. A behaviour is in one part *)
(* and stays there; the variables of the others are None. Parts share some        *)
(* variables of one name.                                                          *)
EXTENDS ConfigTree

CONSTANTS
    Key,    \* the strings that documents are made of
    \* CodexLaunch
    Setting, Server, CodexAsk, Routed, Project, Picks, CodexEdits, CodexRuns,
    \* AgentHomes
    Call, Path, Personal, HomeAsk, HomeRuns,
    \* InterpreterLaunch
    Template, Profile, InterpreterAsk, RoleNames, InterpreterRuns,
    \* ModelMetadata
    ModelId, Words, Coding, Catalogs, Overrides,
    \* CliSetup
    Setups, Env, Asset, Sanitized, Variable, Passwd, Update, ProfileName,
    \* ShellBlocks
    Channel, Platform, Encodings, BlockEdits, BlockRuns

\* Those the launchers use themselves.
ASSUME KeyAssumption ==
    /\ None \notin Key
    /\ {"cli_auth_credentials_store", "preferred_auth_method", "features", "responses_websockets",
        "sqlite_home", "model", "model_reasoning_effort", "model_catalog_json",
        "openai_base_url", "model_provider", "model_providers", "ai_fence", "name", "base_url",
        "wire_api", "supports_websockets", "env_key", "requires_openai_auth", "auth", "command",
        "projects", "here", "trust_level", "trusted", "mcp_servers",
        "ai_fence_responses", "ai_fence_chat", "ai_fence_messages", "harness", "harness_guidance",
        "agents", "config_file", "generated",
        "env", "OPENAI_BASE_URL", "ANTHROPIC_BASE_URL", "OPENAI_API_KEY", "WINDOW", "HAIKU",
        "SONNET", "OPUS", "settings", "settings.json", "models.json", "pin", "models", "provider",
        "mcpServers", ".claude.json"} \subseteq Key

ASSUME CodexAssumption ==
    /\ \A s \in Setting : s[1] \in Seq(Key) /\ s[1] # <<>> /\ s[2] # None
    /\ \A s \in Server \cup UNION {a.servers : a \in CodexAsk} :
          s.name \in Key /\ \A q \in DOMAIN s.leaves : q \in Seq(Key) /\ s.leaves[q] # None
    /\ \A a \in CodexAsk :
          /\ a.auth \in {"EnvKey", "EnvBearer", "OpenAiAuth", "Command"} /\ a.profile \in BOOLEAN
          /\ a.explicit \in Key \cup {None} /\ a.default \in Key \cup {None}
          /\ a.offered \in Seq(Key)
    /\ Project \subseteq Key
    \* What a user may choose: a model, an effort, an answer about a project.
    /\ \A t \in Picks : \A q \in DOMAIN t :
          \/ q \in {<<"model">>, <<"model_reasoning_effort">>} /\ t[q] # None
          \/ /\ \E p \in Project : q = <<"projects", p, "trust_level">>
             /\ t[q] \in {"trusted", "untrusted"}

ASSUME InterpreterAssumption ==
    LET Wire == {"responses", "chat", "messages"}
    IN  /\ RoleNames \in Seq(Key)
        /\ \A i, j \in DOMAIN RoleNames : RoleNames[i] = RoleNames[j] => i = j
        \* The files of roles are the launcher's: a user names none of them.
        /\ \A t \in Template \cup Profile :
              /\ DOMAIN t \subseteq Seq(Key)
              /\ \A i \in DOMAIN RoleNames :
                    Get(t, <<"agents", RoleNames[i], "config_file">>) # RoleNames[i]
        /\ \A a \in InterpreterAsk :
              /\ a.wire \in Wire /\ a.auth \in {"EnvKey", "EnvBearer", "Command", "OpenAiAuth"}
              /\ a.model \in Key \cup {None} /\ a.subagent \in Key \cup {None}
              /\ a.selected \in Seq([model : Key, wire : Wire, harness : Key \cup {None}])
              /\ Len(a.selected) <= Len(RoleNames)

\* The agents that have a binary of their own are those that have a home.
ASSUME HomesAssumption ==
    /\ DOMAIN HomeAsk \subseteq {"codex", "claude", "interpreter", "openclaw", "junie", "pi", "dsh",
                               "kimi", "copilot"}
    /\ \A c \in Call : c.command \in Seq([name : Key, absolute : BOOLEAN])
    /\ \A a \in UNION {HomeAsk[k] : k \in DOMAIN HomeAsk} :
          /\ a.default \in Key \cup {None} /\ a.models \in Seq(Key)
          /\ a.providers \in Seq([name : Key, models : SUBSET Key])
          /\ \A t \in {a.template, a.user, a.overlay} : DOMAIN t \subseteq Seq(Key) \ {<<>>}
          /\ DOMAIN a.servers = 1 .. Len(a.servers) /\ Len(a.servers) \in Nat
          /\ \A i \in DOMAIN a.servers :
                a.servers[i].name \in Key /\ DOMAIN a.servers[i].leaves \subseteq Seq(Key)

\* A process starts with the name of its executable and what its shell passes on.
ASSUME EnvAssumption ==
    \A e \in Env : DOMAIN e = {"exe", "channel", "stage", "home", "staged", "user"}

VARIABLES
    part,
    template, profile, trust, home, run, used, edits, runs,     \* CodexLaunch
    agent, before, dirs, homes, last,                           \* AgentHomes
    config, roles, catalog, ask, ok,                            \* InterpreterLaunch
    model, wire, override,                                      \* ModelMetadata
    env, at, mine, files, update, states, given, raced,         \* CliSetup
    platform, file, helpers, plan, typed                        \* ShellBlocks

Cdx == INSTANCE CodexLaunch WITH Ask <- CodexAsk, MaxEdits <- CodexEdits, MaxRuns <- CodexRuns
Hms == INSTANCE AgentHomes WITH Ask <- HomeAsk, MaxRuns <- HomeRuns
Roles == INSTANCE InterpreterLaunch WITH Ask <- InterpreterAsk, MaxRuns <- InterpreterRuns
Meta == INSTANCE ModelMetadata
Setup == INSTANCE CliSetup WITH Proc <- Setups, Profile <- ProfileName, pc <- at
Blocks == INSTANCE ShellBlocks WITH MaxEdits <- BlockEdits, MaxRuns <- BlockRuns, pc <- at

codexVars == <<template, profile, trust, home, run, used>>
homeVars == <<before, dirs, homes, last>>
interpreterVars == <<config, roles, ask, ok>>
metadataVars == <<model, wire, override>>
setupVars == <<env, files, update, states, given>>
blockVars == <<platform, file, helpers, plan, typed>>
fileVars == <<part, codexVars, homeVars, interpreterVars, metadataVars, setupVars, blockVars,
              agent, edits, runs, catalog, at, mine, raced>>

InitFiles ==
    /\ IF part = "codex" THEN Cdx!Init
       ELSE /\ template = None /\ profile = None /\ trust = None /\ home = None
            /\ run = None /\ used = None
    /\ IF part = "homes" THEN Hms!Init
       ELSE /\ before = None /\ dirs = None /\ homes = None /\ last = None
    /\ IF part = "interpreter" THEN Roles!Init
       ELSE /\ config = None /\ roles = None /\ ask = None /\ ok = None
    /\ IF part = "metadata" THEN Meta!Init
       ELSE /\ model = None /\ wire = None /\ override = None
    /\ IF part = "setup" THEN Setup!Init
       ELSE /\ env = None /\ files = None /\ update = None /\ states = None /\ given = None
    /\ IF part = "blocks" THEN Blocks!Init
       ELSE /\ platform = None /\ file = None /\ helpers = None /\ plan = None
            /\ typed = None
    /\ part # "homes" => agent = None
    /\ part \notin {"codex", "blocks"} => edits = None
    /\ part \notin {"codex", "homes", "interpreter", "blocks"} => runs = None
    /\ part \notin {"interpreter", "metadata"} => catalog = None
    /\ part \notin {"setup", "blocks"} => at = None
    /\ part \notin {"setup", "blocks"} => mine = None
    /\ part \notin {"setup", "blocks"} => raced = None

NextFiles ==
    \/ part = "codex" /\ Cdx!Next
       /\ UNCHANGED <<part, homeVars, interpreterVars, metadataVars, setupVars, blockVars,
                       agent, catalog, at, mine, raced>>
    \/ part = "homes" /\ Hms!Next
       /\ UNCHANGED <<part, codexVars, interpreterVars, metadataVars, setupVars, blockVars,
                       edits, catalog, at, mine, raced>>
    \/ part = "interpreter" /\ Roles!Next
       /\ UNCHANGED <<part, codexVars, homeVars, metadataVars, setupVars, blockVars,
                       agent, edits, at, mine, raced>>
    \/ part = "metadata" /\ Meta!Next
       /\ UNCHANGED <<part, codexVars, homeVars, interpreterVars, setupVars, blockVars,
                       agent, edits, runs, at, mine, raced>>
    \/ part = "setup" /\ Setup!Next
       /\ UNCHANGED <<part, codexVars, homeVars, interpreterVars, metadataVars, blockVars,
                       agent, edits, runs, catalog>>
    \/ part = "blocks" /\ Blocks!Next
       /\ UNCHANGED <<part, codexVars, homeVars, interpreterVars, metadataVars, setupVars,
                       agent, catalog>>

SpecFiles == InitFiles /\ [][NextFiles]_fileVars
-------------------------------------------------------------------------------
(* The properties of the modules, each in its part *)

\* OwnLane of CodexLaunch, EverythingIsFenced of InterpreterLaunch, PinIsServed of
\* AgentHomes: whatever the user has written, an agent's requests go to the proxy
\* of the launch.
EveryRequestIsFenced ==
    /\ part = "codex" => Cdx!OwnLane
    /\ part = "interpreter" => Roles!EverythingIsFenced
    /\ part = "homes" => Hms!PinIsServed

\* ChoicesSurvive and ServersAreWhole of CodexLaunch, ServersAreWhole of AgentHomes,
\* SettingsStay of CliSetup, UserDecides of ModelMetadata: what the user has chosen or set is what counts
\* the next time.
ChoicesAreKept ==
    /\ part = "codex" => Cdx!ChoicesSurvive /\ Cdx!ServersAreWhole
    /\ part = "homes" => Hms!ServersAreWhole
    /\ part = "setup" => Setup!SettingsStay
    /\ part = "metadata" => Meta!UserDecides

\* RolesCanRun and AskedIsThere of InterpreterLaunch, GuidanceFits of
\* ModelMetadata, CommandIsItsAgent of AgentHomes: the agent, harness and models
\* that run are the ones that were meant, and they can run.
WhatRunsIsMeant ==
    /\ part = "interpreter" => Roles!RolesCanRun /\ Roles!AskedIsThere
    /\ part = "metadata" => Meta!GuidanceFits
    /\ part = "homes" => Hms!CommandIsItsAgent

\* PersonalHomesAreSpared of AgentHomes, ChannelsApart of CliSetup: the state of
\* one launcher is kept apart from the agent's own and from another channel's.
HomesAreApart ==
    /\ part = "homes" => Hms!PersonalHomesAreSpared
    /\ part = "setup" => Setup!ChannelsApart

\* UserTextSurvives and LoadersWork of ShellBlocks: the shared files keep what is
\* the user's, and load only what is there.
SharedFilesWork == part = "blocks" => Blocks!UserTextSurvives /\ Blocks!LoadersWork
===============================================================================
