----------------------------- MODULE ModelMetadata -----------------------------
(***************************************************************************)
(* What is known of a model, and the harness Open Interpreter is advised to *)
(* run it with. The built-in table, the price list and the overrides of the *)
(* user are merged field by field; the advice is made from the result and   *)
(* from the protocol of the route, while all of them change independently.  *)
(* A model id is the sequence of its parts between slashes; metadata is a   *)
(* tree of ConfigTree.                                                      *)
(***************************************************************************)
EXTENDS Harnesses

CONSTANTS
    ModelId,    \* models, each a sequence of parts
    Words,      \* part or provider -> the words of Family it contains
    Coding,     \* ids in the built-in table -> its metadata
    Catalogs,   \* the price lists a refresh may bring: id -> metadata
    Overrides   \* what the user may set for the model

VARIABLES model, wire, catalog, override

vars == <<model, wire, catalog, override>>

-------------------------------------------------------------------------------
(* Harnesses *)

\* `is_custom_anthropic_namespace`
CustomNamespace(id) ==
    Len(id) > 2 /\ id[2] = "anthropic" /\ Head(id) \notin {"anthropic", "kimi", "zai"}

Advice(agent, harness) ==
    Joined(Leaf(<<"agent">>, agent),
           Joined(Leaf(<<"interpreter", "harness">>, harness),
                  Leaf(<<"interpreter", "guidance">>, "true")))

Claude == Advice("claude", "claude-code")

\* `recommend_open_interpreter_harness`: the first family that the id or the
\* provider names decides. Glm, claude, qwq and gpt count in the id only.
Recommend(id, provider, api) ==
    LET inId == UNION {Words[part] : part \in Range(id)}
        named == inId \cup ((IF provider = None THEN {} ELSE Words[provider])
                              \ {"glm", "claude", "qwq", "gpt"})
        Is(words) == words \cap named # {}
    IN  CASE Is({"kimi"}) -> IF api = "chat" THEN Advice("interpreter", "kimi-code") ELSE Claude
          [] api = "messages" /\ ~ Is({"kimi"}) /\ (Is({"zai", "glm"}) \/ CustomNamespace(id))
                -> Advice("interpreter", "zcode")
          [] OTHER ->
             IF Is({"anthropic", "claude"}) THEN Claude
             ELSE IF Is({"qwen", "qwq"}) THEN Advice("interpreter", "qwen-code")
             ELSE IF Is({"deepseek"}) THEN Advice("interpreter", "claude-code-bare")
             ELSE IF Is({"openai", "gpt"}) THEN Advice("codex", "native")
             ELSE IF api = "messages" THEN Claude
             ELSE Empty

\* `resolve_agent_recommendation`: explicit guidance, unless its harness does
\* not fit the route or would not keep the model; then the heuristic, and if it
\* knows nothing, the explicit guidance without its harness.
Explicit(data) == Kept(data, {p \in DOMAIN data : Head(p) \in {"agent", "interpreter"}})

\* Mutant of Unfit: guidance that only says how is not looked at.
UnfitNamed(explicit, api) ==
    /\ Get(explicit, <<"interpreter", "harness">>) # None
    /\ ~ Compatible(Get(explicit, <<"interpreter", "harness">>), api)

Unfit(explicit, api) ==
    /\ Has(explicit, <<"interpreter">>)
    /\ ~ Compatible(Get(explicit, <<"interpreter", "harness">>), api)

Replaced(id, explicit, fallback) ==
    /\ Get(fallback, <<"interpreter", "harness">>) = "zcode"
    /\ Get(explicit, <<"interpreter", "harness">>) \in {"claude-code", "claude-code-bare"}
    /\ CustomNamespace(id)

ResolveAgent(id, data, api) ==
    LET explicit == Explicit(data)
        fallback == Recommend(id, Get(data, <<"provider">>), api)
    IN  IF explicit = Empty THEN fallback
        ELSE IF ~ Unfit(explicit, api) /\ ~ Replaced(id, explicit, fallback) THEN explicit
        ELSE IF fallback # Empty THEN fallback
        ELSE Drop(explicit, <<"interpreter">>)

-------------------------------------------------------------------------------
(* Metadata *)

\* Mutant of OverlayWith: what is known already stays.
OverlayMissing(self, other) == Joined(self, other)

\* `merge_missing_from` and `overlay`, the same for every struct and field.
MergeMissing(self, other) == Joined(self, other)
OverlayWith(self, other) == Joined(other, self)

\* The name behind the prefix of a Kimi route.
Unrouted(id) ==
    IF Len(id) > 2 /\ Head(id) = "kimi" /\ id[2] \in {"completions", "anthropic"}
    THEN SubSeq(id, 3, Len(id)) ELSE id

\* `litellm_lookup_keys`: the id, then the names it may have in the price list.
LookupKeys(id) ==
    CASE Len(id) > 1 /\ Head(id) = "zai-anthropic" -> <<id, <<"zai">> \o Tail(id), Tail(id)>>
      [] Len(id) > 1 /\ Head(id) = "zai" -> <<id, Tail(id)>>
      [] Unrouted(id) # id -> <<id, Unrouted(id), <<"moonshot">> \o Unrouted(id)>>
      [] OTHER -> <<id>>

\* `resolve_from_litellm_catalog_with_source`, `litellm_entry_to_metadata`
Listed(id, list) ==
    LET keys == LookupKeys(id)
        first == FirstWhere(keys, LAMBDA k : k \in DOMAIN list)
    IN  IF first = 0 THEN Empty ELSE Joined(list[keys[first]], Leaf(<<"source">>, "litellm"))

\* `resolve_builtin_metadata`
Builtin(id) ==
    IF Unrouted(id) \notin DOMAIN Coding THEN Empty
    ELSE Joined(Coding[Unrouted(id)],
                Joined(Leaf(<<"provider">>, "kimi"), Leaf(<<"source">>, "builtin")))

\* `merge_resolved_metadata`: the built-in value, under the price list, under
\* the user's.
Resolved ==
    OverlayWith(OverlayWith(MergeMissing(Empty, Builtin(model)), Listed(model, catalog)), override)

-------------------------------------------------------------------------------
Init ==
    /\ model \in ModelId /\ wire \in WireApi
    /\ catalog \in Catalogs /\ override = Empty

\* The three things that change without knowing of each other: the price list
\* is refreshed, the user overrides something, the route is migrated.
Refresh == catalog' \in Catalogs /\ UNCHANGED <<model, wire, override>>
SetOverride == override' \in Overrides /\ UNCHANGED <<model, wire, catalog>>
Migrate == wire' \in WireApi /\ UNCHANGED <<model, catalog, override>>

Next == Refresh \/ SetOverride \/ Migrate

Spec == Init /\ [][Next]_vars

-------------------------------------------------------------------------------
(* Properties *)

Answer == ResolveAgent(model, Resolved, wire)

\* Whatever is refreshed, overridden or migrated in whatever order, the harness
\* of `resolve_agent_recommendation` can speak the protocol of the route:
\* metadata that outlived a migration is not forwarded. The two guesses the
\* heuristic makes without looking at the protocol are excepted.
GuidanceFits ==
    LET harness == Get(Answer, <<"interpreter", "harness">>)
    IN  Has(Answer, <<"interpreter">>) =>
            \/ Compatible(harness, wire)
            \/ harness = "qwen-code" /\ wire # "chat"
            \/ harness = "native" /\ wire = "messages" /\ Get(Answer, <<"agent">>) = "codex"

\* What the user overrides is what counts, whatever the price list and the
\* built-in table say of the model or its provider: no refresh hides a value of
\* the user's, and guidance of the user that fits the route and keeps the model
\* is the answer.
UserDecides ==
    LET chosen == Get(override, <<"interpreter", "harness">>)
    IN  /\ \A p \in DOMAIN override : Resolved[p] = override[p]
        /\ (chosen # None /\ Compatible(chosen, wire) /\ ~ CustomNamespace(model)) =>
              /\ Get(Answer, <<"interpreter", "harness">>) = chosen
              /\ \A p \in DOMAIN Explicit(override) : Answer[p] = override[p]
===============================================================================

