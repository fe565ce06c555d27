---------------------------- MODULE LauncherInputs ----------------------------
(* The values of the constants of Launcher in its run: few, chosen so that every *)
(* branch is taken and templates contradict what a launch needs.                 *)
EXTENDS ConfigTree, TLC

Keys == STRING

-------------------------------------------------------------------------------
(* CodexLaunch *)

Codex == <<"model_providers", "ai_fence">>
Trust(level) == <<"projects", "p", "trust_level">> :> level

\* What the user writes by hand; most of it would lead Codex elsewhere.
HandCodex ==
    {<< <<"openai_base_url">>, "elsewhere" >>, << <<"model_provider">>, "other" >>,
     << <<"model_providers">>, "a string" >>, << Codex \o <<"base_url">>, "elsewhere" >>,
     << Codex \o <<"env_key">>, "KEY" >>, << Codex \o <<"requires_openai_auth">>, "true" >>,
     << Codex \o <<"auth", "command">>, "theirs" >>, << <<"model">>, "vendor/large" >>,
     << <<"model_catalog_json">>, "theirs" >>, << <<"sqlite_home">>, "elsewhere" >>,
     << <<"projects">>, "a string" >>, << <<"projects", "p", "trust_level">>, "untrusted" >>,
     << <<"mcp_servers", "s", "command">>, "run" >>}

Http == [name |-> "s", leaves |-> (<<"url">> :> "there"), headers |-> FALSE]
Servers == {Http, [Http EXCEPT !.headers = TRUE]}

CodexAsks ==
    LET plain(auth) == [profile |-> TRUE, explicit |-> None, default |-> None, auth |-> auth,
                        offered |-> <<>>, yolo |-> FALSE, servers |-> {}]
    IN  {plain(a) : a \in {"EnvBearer", "OpenAiAuth"}} \cup
        {[plain("EnvKey") EXCEPT !.explicit = "small", !.offered = <<"vendor/large">>],
         [plain("EnvKey") EXCEPT !.default = "small", !.yolo = TRUE, !.servers = {Http}],
         [plain("Command") EXCEPT !.profile = FALSE, !.explicit = "vendor/large"]}

RoutedModels == {"vendor/large"}
Projects == {"p", "here"}
Picked ==
    {<<"model">> :> "vendor/large", Trust("untrusted"),
     Trust("trusted") @@ <<"model">> :> "small" @@ <<"model_reasoning_effort">> :> "high"}

-------------------------------------------------------------------------------
(* AgentHomes *)

Word(n) == [name |-> n, absolute |-> FALSE]
Given(kind, command) == [kind |-> kind, command |-> command]

Calls ==
    {Given("auto", <<Word("pi"), Word("exec")>>), Given("pi", <<Word("exec")>>),
     Given("claude", <<Word("claude-code")>>), Given("claude", <<Word("codex")>>),
     Given("auto", <<Word("copilot-cli")>>), Given("auto", <<>>),
     Given("copilot", <<[name |-> "claude", absolute |-> TRUE]>>)}
    \cup {Given(k, <<>>) : k \in {"junie", "dsh", "kimi", "openclaw"}}

Homes == {<<"managed">>, <<"home", ".pi">>, <<"link", ".pi">>,
          <<"link", ".openclaw", "sub">>, <<"home", ".openclaw-profile">>}
Bare == [key |-> TRUE, default |-> None, providers |-> <<>>, ids |-> <<>>, models |-> <<>>,
         template |-> Empty, user |-> Empty, overlay |-> Empty, servers |-> <<>>]

\* Providers: two that share a model, one without a usable name, one with a
\* model without one.
One == [name |-> "one", models |-> {"a"}]
Two == [name |-> "two", models |-> {"b", "a"}]
Provided ==
    {[Bare EXCEPT !.default = "b", !.providers = <<One, Two>>],
     [Bare EXCEPT !.default = "a",
                  !.providers = <<One, [name |-> "no name", models |-> {"c"}]>>],
     [Bare EXCEPT !.default = "c", !.providers = <<Two>>],
     [Bare EXCEPT !.default = "a", !.key = FALSE,
                  !.providers = <<[name |-> "one", models |-> {"a", "no name"}]>>],
     [Bare EXCEPT !.providers = <<Two>>]}

\* Model ids; two of them have one stem, and one is empty.
Stemmed == {[Bare EXCEPT !.ids = i] :
                i \in {<<>>, <<<<"v", "/", "m">>, <<"v", "-", "m">>>>,
                       <<<<"v", "/", "m">>, <<>>, <<"w">>>>}}

ClaudeServer(name, field) == <<"mcpServers", name, field>> :> "there"
Mine == <<"env", "ANTHROPIC_BASE_URL">> :> "elsewhere" @@ <<"env", "OPUS">> :> "old"
Settled ==
    {[Bare EXCEPT !.default = "b", !.models = <<"a", "b", "c">>, !.template = Mine],
     [Bare EXCEPT !.default = "d", !.models = <<"a">>],
     [Bare EXCEPT !.models = <<"a", "b">>, !.user = ClaudeServer("s", "url") @@ ClaudeServer("t", "url")
                                                     @@ <<"theme">> :> "dark",
                  !.overlay = ClaudeServer("s", "command") @@ <<"theme">> :> "light"],
     [Bare EXCEPT !.user = ClaudeServer("s", "url"),
                  !.servers = <<[name |-> "s", leaves |-> (<<"command">> :> "run")]>>],
     [Bare EXCEPT !.user = <<"mcpServers">> :> "text", !.overlay = ClaudeServer("s", "url")],
     [Bare EXCEPT !.template = <<"env">> :> "text"]}

HomeAsks ==
    [a \in {"pi", "dsh", "kimi", "openclaw", "junie", "claude", "copilot"} |->
        IF a = "junie" THEN Stemmed ELSE IF a = "claude" THEN Settled
        ELSE IF a = "copilot" THEN {Bare} ELSE Provided]

\* The home each agent has without the launcher.
PersonalHomes ==
    [a \in DOMAIN HomeAsks \cup {"codex", "interpreter", "generic"} |->
        IF a = "openclaw" THEN <<"home", ".openclaw">>
        ELSE IF a = "kimi" THEN <<"link", ".pi">>
        ELSE <<"home", ".pi">>]

-------------------------------------------------------------------------------
(* InterpreterLaunch *)

Lane(api) == <<"model_providers", "ai_fence_" \o api>>

OwnServer(field) == <<"mcp_servers", "s", field>> :> "theirs"

TemplateInterpreter ==
    {Empty, <<"model_providers">> :> "text",
     Lane("chat") \o <<"requires_openai_auth">> :> "true"
        @@ Lane("messages") \o <<"base_url">> :> "elsewhere" @@ OwnServer("url"),
     <<"harness">> :> "zcode" @@ <<"model_catalog_json">> :> "theirs" @@ <<"agents">> :> "text"}

ProfileInterpreter ==
    {Empty, <<"model_provider">> :> "other",
     Lane("responses") \o <<"auth", "command">> :> "theirs"
        @@ Lane("responses") \o <<"env_key">> :> "KEY" @@ OwnServer("command"),
     <<"agents", "ai-fence-model-02", "config_file">> :> "theirs"}

Names == <<"ai-fence-default", "ai-fence-model-02", "ai-fence-model-03">>

Selected(m, w, h) == [model |-> m, wire |-> w, harness |-> h]

InterpreterAsks ==
    LET plain == [model |-> None, wire |-> "responses", harness |-> None, auth |-> "EnvKey",
                  selected |-> <<>>, subagent |-> None]
    IN  {plain, [plain EXCEPT !.auth = "OpenAiAuth"], [plain EXCEPT !.harness = "zcode"],
         [plain EXCEPT !.model = "m", !.wire = "messages", !.harness = "zcode",
                       !.auth = "Command",
                       !.selected = <<Selected("a", "chat", "kimi-code"),
                                      Selected("b", "messages", "zcode")>>],
         [plain EXCEPT !.model = "a", !.wire = "chat", !.harness = "native",
                       !.auth = "EnvBearer", !.subagent = "c",
                       !.selected = <<Selected("a", "chat", None), Selected("b", "responses", "native"),
                                      Selected("c", "messages", "claude-code")>>],
         [plain EXCEPT !.selected = <<Selected("b", "chat", "kimi-code"),
                                      Selected("a", "responses", "qwen-code")>>],
         [plain EXCEPT !.selected = <<Selected("a", "messages", None)>>, !.subagent = "d"]}

-------------------------------------------------------------------------------
(* ModelMetadata *)

Models == {<<"kimi", "anthropic", "k3">>, <<"kimi", "completions", "k3">>, <<"zai", "glm">>,
           <<"own", "anthropic", "m">>, <<"anthropic", "claude">>, <<"qwen">>, <<"deepseek">>,
           <<"gpt">>, <<"unknown">>}
Families == {"kimi", "zai", "glm", "anthropic", "claude", "qwen", "deepseek", "gpt", "openai"}
WordsOf == [p \in UNION {{id[i] : i \in DOMAIN id} : id \in Models} \cup Families |->
                IF p \in Families THEN {p} ELSE {}]
Table == <<"k3">> :> (<<"max_input_tokens">> :> "262144")
Prices ==
    LET entry == <<"provider">> :> "qwen" @@ <<"max_input_tokens">> :> "8192"
    IN  {Empty, <<"unknown">> :> entry @@ <<"moonshot", "k3">> :> entry}
Overridden ==
    {Empty, <<"provider">> :> "kimi", <<"provider">> :> "openai", <<"agent">> :> "interpreter",
     <<"interpreter", "guidance">> :> "false"}
    \cup {<<"agent">> :> "interpreter" @@ <<"interpreter", "harness">> :> h :
            h \in {"native", "claude-code", "zcode", "kimi-code", "qwen-code"}}

-------------------------------------------------------------------------------
(* CliSetup *)

\* A shell of each channel, with what a launcher of another may inherit from it.
Shells ==
    LET shell(exe, channel, home, staged) ==
            [exe |-> exe, channel |-> channel, stage |-> None, home |-> home,
             staged |-> staged, user |-> <<"me">>]
    IN  {shell(None, None, None, Empty), shell("dev", None, <<"prod home">>, Empty),
         shell("dev", "prod", None, <<"DEV">> :> <<"dev home">>),
         shell("linux", "dev", <<"prod home">>, Empty),
         [shell("prod", "qa", <<"prod home">>, <<"QA">> :> <<"qa home">>) EXCEPT !.stage = "qa"],
         [shell(None, None, <<"prod home">>, <<"QA">> :> <<"qa home">>)
            EXCEPT !.stage = "qa", !.user = None]}
ChannelNames == [c \in {"dev", "prod", "qa"} |-> c]
ChannelVariables == [dev |-> "DEV", qa |-> "QA"]
Assets == {"linux"}
PasswdHome == <<"passwd">>
Updates == {<<"auth_pool">> :> "none", <<"auth_pool">> :> "team",
            <<"model", "m", "agent">> :> "pi", <<"model", "m", "harness">> :> "zcode"}

-------------------------------------------------------------------------------
(* ShellBlocks *)

Machines == {[windows |-> TRUE, zsh |-> FALSE, powershell |-> TRUE],
             [windows |-> FALSE, zsh |-> TRUE, powershell |-> FALSE]}
===============================================================================
