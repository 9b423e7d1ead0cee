----------------------------- MODULE PageEntry -----------------------------
(***************************************************************************)
(* What the file cache promises the jobs of one link, without any files:   *)
(* one entry, stored in one step, that is the page of the job that stored  *)
(* it last.  A job that looks it up gets that page, all of it, or misses   *)
(* when there is none.  Jobs that store at the same time clash: what they  *)
(* leave is torn, and a lookup of it may give anything.                    *)
(***************************************************************************)
CONSTANTS Jobs, Nil, Torn

VARIABLES
    entry, \* the job whose page is stored, Nil or Torn
    stage, \* stage[j]: idle, reading, missed, storing or over
    seen,  \* seen[j]: the job whose page j looks at or was given, Nil or Torn
    clash  \* the jobs that store while another one does, or did

vars == <<entry, stage, seen, clash>>

Init ==
    /\ entry = Nil
    /\ stage = [j \in Jobs |-> "idle"]
    /\ seen = [j \in Jobs |-> Nil]
    /\ clash = {}

Storing == {j \in Jobs : stage[j] = "storing"}

Goto(j, to) == stage' = [stage EXCEPT ![j] = to]
See(j, p)   == seen' = [seen EXCEPT ![j] = p]

\* A lookup is decided by the entry at its beginning.
Look(j) ==
    /\ stage[j] = "idle"
    /\ Goto(j, IF entry = Nil THEN "missed" ELSE "reading")
    /\ See(j, entry)
    /\ UNCHANGED <<entry, clash>>

Hit(j) ==
    /\ stage[j] = "reading"
    /\ Goto(j, "over")
    /\ \/ seen[j] # Torn /\ UNCHANGED seen
       \/ seen[j] = Torn /\ \E p \in Jobs \cup {Torn} : See(j, p)
    /\ UNCHANGED <<entry, clash>>

Miss(j) ==
    /\ stage[j] = "reading" /\ seen[j] = Torn
    /\ Goto(j, "missed")
    /\ See(j, Nil)
    /\ UNCHANGED <<entry, clash>>

BeginStore(j) ==
    /\ stage[j] = "missed"
    /\ Goto(j, "storing")
    /\ clash' = IF Storing = {} THEN clash ELSE Storing \cup {j}
    /\ UNCHANGED <<entry, seen>>

Store(j) ==
    /\ stage[j] = "storing"
    /\ Goto(j, "over")
    /\ IF j \in clash THEN entry' \in {entry, Torn} ELSE entry' = j
    /\ clash' = clash \ {j}
    /\ UNCHANGED seen

GiveUp(j) ==
    /\ stage[j] = "storing"
    /\ Goto(j, "over")
    /\ clash' = clash \ {j}
    /\ UNCHANGED <<entry, seen>>

\* The process dies; the entry survives.
Die ==
    /\ stage' = [j \in Jobs |-> IF stage[j] = "idle" THEN "idle" ELSE "over"]
    /\ seen' = [j \in Jobs |-> IF stage[j] = "reading" THEN Nil ELSE seen[j]]
    /\ clash' = {}
    /\ UNCHANGED entry

Next ==
    \/ \E j \in Jobs : \/ Look(j) \/ Hit(j) \/ Miss(j)
                       \/ BeginStore(j) \/ Store(j) \/ GiveUp(j)
    \/ Die

Spec == Init /\ [][Next]_vars
=============================================================================
