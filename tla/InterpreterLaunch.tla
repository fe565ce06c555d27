--------------------------- MODULE InterpreterLaunch ---------------------------
(***************************************************************************)
(* The configuration of Open Interpreter through a series of launches into *)
(* one home: three providers on the proxy, one per protocol, a catalogue,  *)
(* and a role for every model that a sub-agent may run with. A launch can   *)
(* fail between its files; what it has written stays.                       *)
(***************************************************************************)
EXTENDS Harnesses

CONSTANTS
    Template,   \* configurations the user may have as a template, ...
    Profile,    \* ... and in a profile
    Ask,        \* launches: [model, wire, harness, auth, selected, subagent]
                \*   selected: sequence of [model, wire, harness]
    RoleNames,  \* the names of roles in their order; the first is the default
    MaxRuns     \* bound on launches

VARIABLES
    config,     \* config.toml of the home
    roles,      \* agents/<role>.toml: role -> [model, wire, harness]
    catalog,    \* model-catalog.json
    ask,        \* the latest launch; None before the first
    ok,         \* whether it came to its end
    runs

vars == <<config, roles, catalog, ask, ok, runs>>

\* `provider_id`
Provider == [responses |-> "ai_fence_responses", chat |-> "ai_fence_chat",
             messages |-> "ai_fence_messages"]

Under(api) == <<"model_providers", Provider[api]>>

\* The transport of the Messages protocol appends /v1 itself.
Base(api) == IF api = "messages" THEN "proxy" ELSE "proxy/v1"

Sources == [EnvKey |-> <<"env_key">>, EnvBearer |-> <<"env_key">>, Command |-> <<"auth", "command">>]

\* Mutant of WithAuth: what the user wrote stays beside it.
WithAuthAdded(tree, api, auth) == Put(tree, Under(api) \o Sources[auth], auth)

\* `apply_proxy_auth` on a provider: the one source of credentials.
WithAuth(tree, api, auth) ==
    Put(Drop(Drop(Drop(tree, Under(api) \o <<"env_key">>),
                  Under(api) \o <<"requires_openai_auth">>),
             Under(api) \o <<"auth">>),
        Under(api) \o Sources[auth], auth)

\* The provider of one protocol, ...
WithProvider(tree, api, auth) ==
    LET based == Put(tree, Under(api) \o <<"base_url">>, Base(api))
        wired == Put(based, Under(api) \o <<"wire_api">>, api)
    IN  WithAuth(Put(wired, Under(api) \o <<"supports_websockets">>, "false"), api, auth)

\* ... and of all three.
WithProviders(tree, auth) ==
    WithProvider(WithProvider(WithProvider(tree, "responses", auth), "chat", auth),
                 "messages", auth)

\* Native mode is the absence of a harness.
WithHarness(tree, harness) ==
    LET bare == Drop(Drop(tree, <<"harness">>), <<"harness_guidance">>)
    IN  IF harness \in {None, "native"} THEN bare ELSE Put(bare, <<"harness">>, harness)

Models(a) == [i \in DOMAIN a.selected |-> a.selected[i].model]

\* Mutant of Listed: only what was selected is listed.
ListedSelected(a) == Models(a)

\* The catalogue lists the model of the launch first if it was not selected.
Listed(a) ==
    IF a.model = None \/ a.model \in Range(Models(a)) THEN Models(a)
    ELSE <<a.model>> \o Models(a)

WithCatalog(tree, a) ==
    IF Listed(a) = <<>> THEN Drop(tree, <<"model_catalog_json">>)
    ELSE Put(tree, <<"model_catalog_json">>, "generated")

\* `write_interpreter_agent_roles`: the default of sub-agents goes first.
Ordered(a) ==
    LET at == FirstWhere(a.selected, LAMBDA s : s.model = a.subagent)
    IN  IF a.subagent = None \/ at = 0 THEN a.selected
        ELSE <<a.selected[at]>> \o Without(a.selected, at)

\* Mutant of Fit: roles are not looked at.
FitAll(a) == Len(a.selected)

\* The number of roles that are written: up to the first one whose harness
\* cannot speak its protocol, which is the error.
Fit(a) ==
    LET bad == FirstWhere(Ordered(a), LAMBDA s : ~ Compatible(s.harness, s.wire))
    IN  IF bad = 0 THEN Len(a.selected) ELSE bad - 1

WithRoles(tree, a) ==
    Overlay(tree, [p \in {<<"agents", RoleNames[i], "config_file">> : i \in DOMAIN a.selected}
                    |-> p[2]])

\* What the user wrote: the profile over the template.
Written(template, profile) == OverlayProfile(template, profile, "mcp_servers")

\* `write_open_interpreter_config`, from what the user wrote.
Config(tree, a) ==
    LET model == IF a.model = None THEN tree ELSE Put(tree, <<"model">>, a.model)
        pinned == Put(model, <<"model_provider">>, Provider[a.wire])
    IN  WithRoles(WithCatalog(WithProviders(WithHarness(pinned, a.harness), a.auth), a), a)

-------------------------------------------------------------------------------
Init ==
    /\ config = Empty /\ roles = Empty /\ catalog = <<>>
    /\ ask = None /\ ok = FALSE /\ runs = 0

\* A harness that cannot speak the protocol, and the login of a subscription,
\* are refused before anything is written.
Launch(a, template, profile) ==
    /\ runs < MaxRuns
    /\ Compatible(a.harness, a.wire) /\ a.auth # "OpenAiAuth"
    /\ catalog' = IF Listed(a) = <<>> THEN catalog ELSE Listed(a)
    /\ roles' = Joined([r \in {RoleNames[i] : i \in 1..Fit(a)} |->
                            Ordered(a)[CHOOSE i \in DOMAIN RoleNames : RoleNames[i] = r]],
                       roles)
    /\ config' = IF Fit(a) = Len(a.selected) THEN Config(Written(template, profile), a) ELSE config
    /\ ok' = (Fit(a) = Len(a.selected))
    /\ ask' = a /\ runs' = runs + 1

Next == \E a \in Ask, template \in Template, profile \in Profile : Launch(a, template, profile)

Spec == Init /\ [][Next]_vars

-------------------------------------------------------------------------------
(* Properties *)

\* What the agent runs with leads to the proxy, whatever the user wrote: the
\* provider the configuration names is one of the launcher's, it has the base
\* URL its protocol needs and one source of credentials, never the login of a
\* subscription; and the same holds for the provider of every role, even after
\* a later launch failed between its files.
EverythingIsFenced ==
    runs > 0 /\ config # Empty =>
        LET named == {api \in WireApi : \/ Get(config, <<"model_provider">>) = Provider[api]
                                        \/ \E r \in DOMAIN roles : roles[r].wire = api}
        IN  /\ \E api \in WireApi : Get(config, <<"model_provider">>) = Provider[api]
            /\ \A api \in named :
                  /\ Get(config, Under(api) \o <<"base_url">>) = Base(api)
                  /\ Get(config, Under(api) \o <<"wire_api">>) = api
                  /\ ~ Has(config, Under(api) \o <<"requires_openai_auth">>)
                  /\ Has(config, Under(api) \o <<"env_key">>) <=> ~ Has(config, Under(api) \o <<"auth">>)

\* A role the launcher has put into the configuration can be run: its file is
\* there, and the harness in it can speak the protocol of its provider. The
\* catalogue the configuration points to is there too.
RolesCanRun ==
    /\ \A i \in DOMAIN RoleNames :
          Get(config, <<"agents", RoleNames[i], "config_file">>) = RoleNames[i] =>
              /\ RoleNames[i] \in DOMAIN roles
              /\ Compatible(roles[RoleNames[i]].harness, roles[RoleNames[i]].wire)
    /\ Get(config, <<"model_catalog_json">>) = "generated" => catalog # <<>>

\* A launch that came to its end can run every model it was asked for: its model
\* is in the catalogue, and every selected one has a role, the default of the
\* sub-agents the first.
AskedIsThere ==
    ok =>
        /\ ask.model # None => ask.model \in Range(catalog)
        /\ Range(ask.selected) \subseteq {roles[r] : r \in DOMAIN roles}
        /\ ask.subagent \in Range(Models(ask)) => roles[RoleNames[1]].model = ask.subagent
===============================================================================

