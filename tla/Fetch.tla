------------------------------- MODULE Fetch -------------------------------
(***************************************************************************)
(* What the pipeline relies on when it fetches a page: a fetch returns     *)
(* once, an error or the article as it was published at some moment of the *)
(* fetch, and with a tool the client does not support always an error.     *)
(* One article; fetches of different links have nothing in common.         *)
(***************************************************************************)
EXTENDS Naturals

CONSTANTS Fetches, MaxVersion, Failed, Nothing

VARIABLES
    supported, \* the configured tool is the one the client supports
    site,      \* version of the article now published
    since,     \* since[f]: the version when f began, or Nothing
    outcome    \* outcome[f]: Nothing, Failed, or the version fetched

vars == <<supported, site, since, outcome>>

Init ==
    /\ supported \in BOOLEAN
    /\ site = 0
    /\ since = [f \in Fetches |-> Nothing]
    /\ outcome = [f \in Fetches |-> Nothing]

Edit ==
    /\ site < MaxVersion
    /\ site' = site + 1
    /\ UNCHANGED <<supported, since, outcome>>

Begin(f) ==
    /\ since[f] = Nothing
    /\ since' = [since EXCEPT ![f] = site]
    /\ UNCHANGED <<supported, site, outcome>>

Running(f) == since[f] # Nothing /\ outcome[f] = Nothing

Return(f, o) ==
    /\ Running(f)
    /\ outcome' = [outcome EXCEPT ![f] = o]
    /\ UNCHANGED <<supported, site, since>>

Succeed(f) == Running(f) /\ supported /\ \E v \in since[f]..site : Return(f, v)

Next == \/ Edit
        \/ \E f \in Fetches : Begin(f) \/ Succeed(f) \/ Return(f, Failed)

Spec == Init /\ [][Next]_vars
=============================================================================
