----------------------------- MODULE MCPipeline -----------------------------
(* Instances of Pipeline and Freshness small enough for TLC. *)
EXTENDS Freshness, TLC

On == [mcp |-> TRUE, tool |-> TRUE, redis |-> TRUE, llm |-> TRUE,
       token |-> TRUE, notifier |-> TRUE, location |-> "new"]
Without(f) == [On EXCEPT ![f] = FALSE]

\* Redis; the file cache; one setting missing; the location changed.
ModeConfigs == {On, Without("redis"), Without("mcp"), Without("llm"),
                [Without("token") EXCEPT !.location = "later"]}

\* A tool the MCP client refuses, or not.
ToolConfigs == {On, Without("tool")}
RedisOnly   == {On}

JobSymmetry == Permutations(Jobs)
=============================================================================
