----------------------------- MODULE MCStartup -----------------------------
(* The instance of Startup for TLC: every environment, three processes.      *)
EXTENDS Startup
=============================================================================
