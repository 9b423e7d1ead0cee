----------------------------- MODULE MCMcpFetch -----------------------------
(* The instance of McpFetch for TLC: two fetches at once, two edits.  *)
EXTENDS McpFetch
=============================================================================
