------------------------------ MODULE MCRobot ------------------------------
(* The instance of Robot for TLC: every form of one request, delivered up to  *)
(* three times; requests meet only in a crash, which one is enough for.       *)
EXTENDS Robot
=============================================================================
