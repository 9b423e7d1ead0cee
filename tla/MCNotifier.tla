----------------------------- MODULE MCNotifier -----------------------------
(* The instance of Notifier for TLC: three jobs finish at about the same time; *)
(* a tenth of each lifetime covers two requests, as with WeCom's 7200 seconds. *)
EXTENDS Notifier
=============================================================================
