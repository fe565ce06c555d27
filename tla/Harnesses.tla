------------------------------- MODULE Harnesses -------------------------------
(***************************************************************************)
(* The protocols of a route, and the harnesses of Open Interpreter that can *)
(* speak them. The advice of the metadata and the configuration of the      *)
(* launch both go by this table.                                            *)
(***************************************************************************)
EXTENDS ConfigTree

WireApi == {"responses", "chat", "messages"}

\* `is_open_interpreter_harness_compatible`; no harness means the native one.
Compatible(harness, api) ==
    CASE api = "responses" -> harness \in {None, "native", "claude-code", "claude-code-bare"}
      [] api = "chat"      -> harness # "zcode"
      [] api = "messages"  -> harness \in {"claude-code", "claude-code-bare", "zcode"}
===============================================================================
