------------------------------- MODULE Robot -------------------------------
(***************************************************************************)
(* The whole robot as its users see it: Callback, whose handlers start the *)
(* jobs, composed with Delivery, which is what a job promises (Pipeline    *)
(* implements it).  A job is known by the delivery it was started for; a   *)
(* request stands for the link it carries and for the member who sent it.  *)
(*                                                                         *)
(* The two share three steps: a handler that accepts a link, a handler     *)
(* that does not, and the death of the process, which takes the handlers   *)
(* and the jobs.                                                           *)
(***************************************************************************)
EXTENDS Callback

CONSTANTS NoUser, NoURL

ASSUME NobodyAssumption == NoUser \notin Requests /\ NoURL \notin Requests

VARIABLES
    status, link, member, stored, told, \* Delivery's, by delivery
    alive  \* the deliveries whose goroutines are this process's

D == INSTANCE Delivery WITH Jobs <- Deliveries, URLs <- Requests,
                            Users <- Requests, sender <- member

jobs == <<status, link, member, stored, told, alive>>
allVars == <<vars, jobs>>

RobotInit == Init /\ D!Init /\ alive = {}

\* What a handler passes to ProcessURL: POST /url names no member.
From(d) == IF Is(d, {"url"}) THEN NoUser ELSE d[1]

Serve(d) ==
    /\ HandleMessage(d) \/ HandleURL(d)
    /\ \/ /\ d \in spawned'
          /\ D!Accept(d, d[1], From(d))
          /\ alive' = alive \cup {d}
       \/ d \notin spawned' /\ UNCHANGED jobs

\* The goroutine of d: the end of its job, and the card of a finished one.
\* EndOnSuccess: without deadlines, a job whose peer is silent does not end.
EndOnSuccess(d) == d \in alive /\ D!Finish(d) /\ UNCHANGED <<vars, alive>>

EndJob(d) ==
    /\ d \in alive
    /\ D!Finish(d) \/ D!Abandon({d})
    /\ UNCHANGED <<vars, alive>>

TellMember(d) == d \in alive /\ D!Tell(d) /\ UNCHANGED <<vars, alive>>

\* Readwise takes the article, whether or not the robot still runs.
StoreArticle(d) == D!Store(d) /\ UNCHANGED <<vars, alive>>

Die ==
    /\ Crash
    /\ D!Abandon({d \in alive : status[d] = "accepted"})
    /\ alive' = {}

\* The handler's answer; its job goes on.  ReplyWhenDone: ProcessURL is called
\* and not started, the answer follows when the job has ended.
ReplyWhenDone(d) == status[d] # "accepted" /\ Write(d) /\ UNCHANGED jobs
Reply(d) == Write(d) /\ UNCHANGED jobs

RobotNext ==
    \/ \E d \in Deliveries : \/ Serve(d) \/ Reply(d)
                             \/ EndJob(d) \/ TellMember(d) \/ StoreArticle(d)
                             \/ /\ HandleGet(d) \/ Panics(d) \/ Network(d)
                                /\ UNCHANGED jobs
    \/ \E r \in Requests : (Send(r) \/ GivesUpWaiting(r)) /\ UNCHANGED jobs
    \/ Start /\ UNCHANGED jobs
    \/ Die

RobotSpec == RobotInit /\ [][RobotNext]_allVars

\* Handlers run; nothing is assumed of jobs, senders or network.
FairRobotSpec ==
    /\ RobotSpec
    /\ \A d \in Deliveries :
          /\ WF_allVars(Serve(d))
          /\ WF_allVars(Reply(d))
          /\ WF_allVars((HandleGet(d) \/ Panics(d)) /\ UNCHANGED jobs)

\* What EveryJobEnds says of the pipeline.
JobsEnd == \A d \in Deliveries : WF_allVars(EndJob(d))

-----------------------------------------------------------------------------
\* Every variable has its type.
RobotTypeOK ==
    /\ TypeOK
    /\ status \in [Deliveries -> {"idle", "accepted", "finished", "abandoned"}]
    /\ link \in [Deliveries -> Requests \cup {NoURL}]
    /\ member \in [Deliveries -> Requests \cup {NoUser}]
    /\ stored \in [Deliveries -> Requests \cup {NoURL}]
    /\ told \subseteq Deliveries
    /\ alive \subseteq Deliveries

\* What was saved and who was told, in terms of what was sent: only links are
\* saved, as often as they were delivered at most, and only the member who sent
\* the link is told, of that link, after it was saved; nobody is told of POST /url.
SavesAccountedFor ==
    \A d \in Deliveries :
        /\ stored[d] # NoURL => /\ Is(d, {"link", "url"})
                                /\ stored[d] = d[1] /\ d[2] <= try[d[1]]
        /\ d \in told => Is(d, {"link"}) /\ member[d] = d[1] /\ stored[d] = d[1]

\* What ties the components together: jobs are those of the handlers.
JobsSound ==
    /\ alive \subseteq spawned
    /\ \A d \in Deliveries :
          /\ d \in spawned <=> status[d] # "idle"
          /\ d \in spawned => /\ Is(d, {"link", "url"}) /\ d[2] <= try[d[1]]
                              /\ link[d] = d[1] /\ member[d] = From(d)
          /\ stored[d] # NoURL => d \in spawned /\ stored[d] = link[d]
          /\ d \in told => status[d] = "finished" /\ member[d] \in Requests
          /\ status[d] = "finished" => stored[d] = link[d]

\* A sender that was told its link is accepted does not wait forever: some job
\* for the link is finished, or given up with an error or in a crash, if jobs end.
AckedEnds ==
    JobsEnd => \A r \in Requests :
        sender[r] = "acked" /\ form[r] \in {"link", "url"} ~>
            \E d \in Deliveries : d[1] = r /\ status[d] \in {"finished", "abandoned"}
=============================================================================
