------------------------------ MODULE Delivery ------------------------------
(***************************************************************************)
(* What the robot promises the sender of a link, whatever happens inside:  *)
(* an accepted link is finished or abandoned once, Readwise gets the       *)
(* article at that link at most once per acceptance, and only the sender   *)
(* of a link that was saved is told.                                       *)
(***************************************************************************)
CONSTANTS Jobs, URLs, Users, NoUser, NoURL

VARIABLES
    status,  \* status[j]: idle, accepted, finished or abandoned
    link,    \* link[j]: the accepted link
    sender,  \* sender[j]: who sent it, NoUser for POST /url
    stored,  \* stored[j]: the link whose article Readwise holds for j, or NoURL
    told     \* the acceptances whose sender got a card

vars == <<status, link, sender, stored, told>>

Init ==
    /\ status = [j \in Jobs |-> "idle"]
    /\ link = [j \in Jobs |-> NoURL]
    /\ sender = [j \in Jobs |-> NoUser]
    /\ stored = [j \in Jobs |-> NoURL]
    /\ told = {}

Accept(j, u, w) ==
    /\ status[j] = "idle"
    /\ status' = [status EXCEPT ![j] = "accepted"]
    /\ link' = [link EXCEPT ![j] = u]
    /\ sender' = [sender EXCEPT ![j] = w]
    /\ UNCHANGED <<stored, told>>

\* The article reaches Readwise, maybe after the robot gave up on it.
Store(j) ==
    /\ status[j] \in {"accepted", "abandoned"}
    /\ stored[j] = NoURL
    /\ stored' = [stored EXCEPT ![j] = link[j]]
    /\ UNCHANGED <<status, link, sender, told>>

Finish(j) ==
    /\ status[j] = "accepted"
    /\ stored[j] = link[j]
    /\ status' = [status EXCEPT ![j] = "finished"]
    /\ UNCHANGED <<link, sender, stored, told>>

\* An error abandons one acceptance, a crash all of them.
Abandon(S) ==
    /\ \A j \in S : status[j] = "accepted"
    /\ status' = [j \in Jobs |-> IF j \in S THEN "abandoned" ELSE status[j]]
    /\ UNCHANGED <<link, sender, stored, told>>

Tell(j) ==
    /\ status[j] = "finished"
    /\ sender[j] \in Users
    /\ j \notin told
    /\ told' = told \cup {j}
    /\ UNCHANGED <<status, link, sender, stored>>

Next ==
    \/ \E j \in Jobs : \/ \E u \in URLs, w \in Users \cup {NoUser} : Accept(j, u, w)
                       \/ Store(j) \/ Finish(j) \/ Tell(j)
    \/ \E S \in SUBSET Jobs : Abandon(S)

Spec == Init /\ [][Next]_vars
=============================================================================
