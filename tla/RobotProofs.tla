---------------------------- MODULE RobotProofs ----------------------------
(***************************************************************************)
(* Proofs about Callback and about Robot, for any number of requests and   *)
(* of deliveries.                                                          *)
(*                                                                         *)
(* In Callback, AckedHasJob is not inductive: that a sender's answer was   *)
(* preceded by a job is known from what the network still carries, which   *)
(* AnswersSound describes.  The composition takes steps of both            *)
(* components, so what was proved of Callback holds of the robot; what     *)
(* ties deliveries to jobs (JobsSound) is proved of the joint steps.       *)
(***************************************************************************)
EXTENDS Robot, TLAPS

-----------------------------------------------------------------------------
(* The handlers alone. *)

Inv == TypeOK /\ AnswersSound /\ AckedHasJob

LEMMA InitInv == Init => Inv
  <1> SUFFICES ASSUME Init PROVE Inv
    OBVIOUS
  <1>1. TypeOK
    BY DeliveriesAssumption DEF Init, TypeOK
  <1>2. AnswersSound
    BY DEF Init, AnswersSound, At, Is, Deliveries
  <1>3. AckedHasJob
    BY DEF Init, AckedHasJob
  <1> QED BY <1>1, <1>2, <1>3 DEF Inv

\* Making one more delivery keeps what is known of the others.
LEMMA DeliverInv ==
  ASSUME Inv, NEW r \in Requests, try[r] < MaxDeliveries, Deliver(r),
         sender' \in [Requests -> {"waiting", "acked", "gaveUp", "new"}],
         \A q \in Requests : sender'[q] = "acked" => sender[q] = "acked",
         \A q \in Requests : sender'[q] = "new" => sender[q] = "new" /\ q # r,
         UNCHANGED <<form, up, reply, spawned>>
  PROVE  Inv'
  <1>1. try[r] + 1 \in 1..MaxDeliveries /\ <<r, try[r] + 1>> \in Deliveries
    BY DeliveriesAssumption DEF Inv, TypeOK, Deliveries
  <1>2. TypeOK'
    <2>1. try[r] + 1 \in 0..MaxDeliveries
      BY <1>1, DeliveriesAssumption
    <2> QED BY <2>1 DEF Inv, TypeOK, Deliver, Goto
  <1>3. \A q \in Requests : sender'[q] = "new" => try'[q] = 0
    BY DEF Inv, TypeOK, AnswersSound, Deliver
  <1>4. ASSUME NEW d \in Deliveries
        PROVE  /\ At(d, "answered")' => reply'[d] # NoReply
               /\ At(d, "none")' <=> d[2] > try'[d[1]]
               /\ stage'[d] \in {"none", "sent", "handling"} => d \notin spawned'
               /\ stage'[d] \in {"replying", "answered"} /\ Is(d, {"link", "url"})'
                    => d \in spawned'
    <2>1. d[1] \in Requests /\ d[2] \in 1..MaxDeliveries /\ d = <<d[1], d[2]>>
      BY DEF Deliveries
    <2>2. CASE d = <<r, try[r] + 1>>
      BY <1>1, <2>1, <2>2 DEF Inv, TypeOK, AnswersSound, Deliver, Goto, At, Is
    <2>3. CASE d # <<r, try[r] + 1>>
      <3>1. stage'[d] = stage[d]
        BY <2>3 DEF Inv, TypeOK, Deliver, Goto
      <3>2. d[2] > try'[d[1]] <=> d[2] > try[d[1]]
        BY <2>1, <2>3 DEF Inv, TypeOK, Deliver
      <3> QED BY <3>1, <3>2 DEF Inv, AnswersSound, At, Is
    <2> QED BY <2>2, <2>3
  <1>5. AnswersSound'
    BY <1>3, <1>4 DEF AnswersSound
  <1>6. AckedHasJob'
    BY DEF Inv, AckedHasJob
  <1> QED BY <1>2, <1>5, <1>6 DEF Inv

LEMMA SendInv == ASSUME Inv, NEW r \in Requests, Send(r) PROVE Inv'
  <1>1. try[r] < MaxDeliveries
    BY DeliveriesAssumption DEF Inv, TypeOK, AnswersSound, Send
  <1>2. /\ sender' \in [Requests -> {"waiting", "acked", "gaveUp", "new"}]
        /\ \A q \in Requests : sender'[q] = "acked" => sender[q] = "acked"
        /\ \A q \in Requests : sender'[q] = "new" => sender[q] = "new" /\ q # r
    BY DEF Inv, TypeOK, Send
  <1> QED BY <1>1, <1>2, DeliverInv DEF Send

LEMMA GivesUpInv == ASSUME Inv, NEW r \in Requests, GivesUpWaiting(r) PROVE Inv'
  <1>1. CASE try[r] < MaxDeliveries /\ Deliver(r) /\ UNCHANGED <<sender, reply>>
    <2>1. /\ sender' \in [Requests -> {"waiting", "acked", "gaveUp", "new"}]
          /\ \A q \in Requests : sender'[q] = "acked" => sender[q] = "acked"
          /\ \A q \in Requests : sender'[q] = "new" => sender[q] = "new" /\ q # r
      BY <1>1 DEF Inv, TypeOK, GivesUpWaiting
    <2> QED BY <1>1, <2>1, DeliverInv DEF GivesUpWaiting
  <1>2. CASE /\ sender' = [sender EXCEPT ![r] = "gaveUp"]
             /\ UNCHANGED <<try, stage, reply>>
    <2>1. TypeOK'
      BY <1>2 DEF Inv, TypeOK, GivesUpWaiting
    <2>2. AnswersSound'
      BY <1>2 DEF Inv, TypeOK, AnswersSound, GivesUpWaiting, At, Is
    <2>3. AckedHasJob'
      BY <1>2 DEF Inv, TypeOK, AckedHasJob, GivesUpWaiting
    <2> QED BY <2>1, <2>2, <2>3 DEF Inv
  <1> QED BY <1>1, <1>2 DEF GivesUpWaiting, TryAgain

LEMMA ArrivalInv == ASSUME Inv, NEW d \in Deliveries, AnswerArrives(d) PROVE Inv'
  <1>1. d[1] \in Requests
    BY DEF Deliveries
  <1>2. TypeOK'
    BY <1>1 DEF Inv, TypeOK, AnswerArrives, Goto
  <1>3. AnswersSound'
    BY <1>1 DEF Inv, TypeOK, AnswersSound, AnswerArrives, Goto, At, Is
  <1>4. ASSUME NEW r \in Requests, sender'[r] = "acked", form'[r] \in {"link", "url"}
        PROVE  \E e \in spawned' : e[1] = r
    <2>1. CASE sender[r] = "acked"
      BY <1>4, <2>1 DEF Inv, AckedHasJob, AnswerArrives
    <2>2. CASE sender[r] # "acked"
      <3>1. r = d[1]
        BY <1>1, <1>4, <2>2 DEF Inv, TypeOK, AnswerArrives
      <3> QED BY <1>4, <3>1 DEF Inv, AnswersSound, AnswerArrives, At, Is
    <2> QED BY <2>1, <2>2
  <1> QED BY <1>2, <1>3, <1>4 DEF Inv, AckedHasJob

\* The steps that reach no sender: the network's and the handlers'.
LEMMA HandlerInv ==
  ASSUME Inv, NEW d \in Deliveries, Handle(d) \/ Arrives(d) \/ Lost(d)
  PROVE  Inv'
  <1>1. d[1] \in Requests /\ form[d[1]] \in Forms
    BY DEF Deliveries, Inv, TypeOK
  <1>2. TypeOK' /\ AnswersSound' /\ spawned \subseteq spawned' /\ UNCHANGED senders
    <2> USE <1>1 DEF Inv, TypeOK, AnswersSound, At, Is, Goto, senders
    <2>1. CASE HandleMessage(d)
      BY <2>1 DEF HandleMessage, Messages
    <2>2. CASE HandleURL(d)
      BY <2>2 DEF HandleURL
    <2>3. CASE HandleGet(d)
      BY <2>3 DEF HandleGet, Gets
    <2>4. CASE Panics(d)
      BY <2>4 DEF Panics
    <2>5. CASE Write(d)
      <3> PICK a \in Answers[form[d[1]]] : reply' = [reply EXCEPT ![d] = a]
        BY <2>5 DEF Write
      <3>1. a \in Replies
        BY DEF Replies
      <3>2. a # NoReply
        BY <3>1, ReplyAssumption
      <3> QED BY <2>5, <3>1, <3>2 DEF Write
    <2>6. CASE Arrives(d)
      BY <2>6 DEF Arrives
    <2>7. CASE Lost(d)
      BY <2>7 DEF Lost
    <2> QED BY <2>1, <2>2, <2>3, <2>4, <2>5, <2>6, <2>7 DEF Handle
  <1>3. AckedHasJob'
    BY <1>2 DEF Inv, AckedHasJob, senders
  <1> QED BY <1>2, <1>3 DEF Inv

LEMMA ProcessInv == ASSUME Inv, Crash \/ Start PROVE Inv'
  <1>1. TypeOK'
    BY DEF Inv, TypeOK, Crash, Start, senders
  <1>2. AnswersSound'
    BY DEF Inv, TypeOK, AnswersSound, Crash, Start, senders, At, Is
  <1>3. AckedHasJob'
    BY DEF Inv, AckedHasJob, Crash, Start, senders
  <1> QED BY <1>1, <1>2, <1>3 DEF Inv

LEMMA InvStep == Inv /\ [Next]_vars => Inv'
  <1> SUFFICES ASSUME Inv, [Next]_vars PROVE Inv'
    OBVIOUS
  <1>1. CASE UNCHANGED vars
    BY <1>1 DEF Inv, TypeOK, AnswersSound, AckedHasJob, vars, senders, server, At, Is
  <1>2. CASE Next
    BY <1>2, SendInv, GivesUpInv, ArrivalInv, HandlerInv, ProcessInv DEF Next, Network
  <1> QED BY <1>1, <1>2

\* Inv holds in every reachable state.
THEOREM Invariance == Spec => []Inv
  <1> QED BY InitInv, InvStep, PTL DEF Spec

\* Every variable of the callback handlers and their senders keeps its type.
THEOREM TypeCorrect == Spec => []TypeOK
  <1>1. Inv => TypeOK
    BY DEF Inv
  <1> QED BY Invariance, <1>1, PTL

\* Whatever is lost, late, repeated or cut short by a crash: a sender that was
\* told its link is accepted has a job that was started for it.
THEOREM AckedAlwaysHasJob == Spec => []AckedHasJob
  <1>1. Inv => AckedHasJob
    BY DEF Inv
  <1> QED BY Invariance, <1>1, PTL

-----------------------------------------------------------------------------
(* The composition. *)

RobotInv == Inv /\ RobotTypeOK /\ JobsSound

\* The robot's steps are steps of Callback or leave it alone.
LEMMA StepsOfCallback == [RobotNext]_allVars => [Next]_vars
  <1> SUFFICES ASSUME [RobotNext]_allVars PROVE [Next]_vars
    OBVIOUS
  <1>1. ASSUME NEW d \in Deliveries,
               \/ Serve(d) \/ Reply(d)
               \/ (HandleGet(d) \/ Panics(d) \/ Network(d)) /\ UNCHANGED jobs
        PROVE  Next
    BY <1>1 DEF Serve, Reply, Next, Handle
  <1>2. ASSUME NEW d \in Deliveries, EndJob(d) \/ TellMember(d) \/ StoreArticle(d)
        PROVE  UNCHANGED vars
    BY <1>2 DEF EndJob, TellMember, StoreArticle
  <1>3. Start \/ Die => Next
    BY DEF Next, Die
  <1>4. UNCHANGED allVars => UNCHANGED vars
    BY DEF allVars
  <1> QED BY <1>1, <1>2, <1>3, <1>4 DEF RobotNext, Next

\* JobsSound speaks of Callback's form, try and spawned only; they go on as they
\* are but for a growing try.
LEMMA JobsKept ==
  ASSUME RobotInv, Inv', UNCHANGED <<jobs, form, spawned>>,
         \A r \in Requests : try[r] <= try'[r]
  PROVE  RobotTypeOK' /\ JobsSound'
  <1>1. RobotTypeOK'
    BY DEF RobotInv, Inv, RobotTypeOK, jobs
  <1>2. \A d \in Deliveries : d[1] \in Requests /\ d[2] \in Nat
    BY DeliveriesAssumption DEF Deliveries
  <1>3. \A d \in Deliveries : d[2] <= try[d[1]] => d[2] <= try'[d[1]]
    BY <1>2 DEF RobotInv, Inv, TypeOK
  <1>4. JobsSound'
    BY <1>3 DEF RobotInv, JobsSound, jobs, Is, From
  <1> QED BY <1>1, <1>4

LEMMA ServeInv ==
  ASSUME RobotInv, Inv', NEW d \in Deliveries, Serve(d) PROVE RobotTypeOK' /\ JobsSound'
  <1> USE DEF RobotInv
  <1>1. /\ d[1] \in Requests /\ d[2] \in Nat
        /\ form[d[1]] \in Forms
        /\ UNCHANGED senders
        /\ d \notin spawned /\ d[2] <= try[d[1]]
    BY DeliveriesAssumption DEF Serve, HandleMessage, HandleURL, Inv, TypeOK, AnswersSound,
       Deliveries, At
  <1>2. CASE d \notin spawned'
    <2>1. spawned' = spawned
      BY <1>1, <1>2 DEF Serve, HandleMessage, HandleURL
    <2>2. UNCHANGED jobs /\ UNCHANGED form /\ \A r \in Requests : try[r] <= try'[r]
      BY <1>1, <1>2 DEF Serve, senders, Inv, TypeOK
    <2> QED BY <2>1, <2>2, JobsKept
  <1>3. CASE d \in spawned'
    <2>1. spawned' = spawned \cup {d} /\ Is(d, {"link", "url"})
      BY <1>1, <1>3 DEF Serve, HandleMessage, HandleURL, Is
    <2>2. D!Accept(d, d[1], From(d)) /\ alive' = alive \cup {d}
      BY <1>3 DEF Serve, jobs
    <2>3. From(d) \in Requests \cup {NoUser}
      BY <1>1 DEF From
    <2>4. RobotTypeOK'
      BY <1>1, <2>2, <2>3 DEF RobotTypeOK, Inv, D!Accept
    <2>5. alive' \subseteq spawned'
      BY <2>1, <2>2 DEF JobsSound
    <2>6. stored[d] = NoURL /\ d \notin told
      BY <1>1, <2>2 DEF JobsSound, D!Accept
    <2>7. ASSUME NEW e \in Deliveries
          PROVE  /\ e \in spawned' <=> status'[e] # "idle"
                 /\ e \in spawned' => /\ Is(e, {"link", "url"})' /\ e[2] <= try'[e[1]]
                                      /\ link'[e] = e[1] /\ member'[e] = From(e)'
                 /\ stored'[e] # NoURL => e \in spawned' /\ stored'[e] = link'[e]
                 /\ e \in told' => status'[e] = "finished" /\ member'[e] \in Requests
                 /\ status'[e] = "finished" => stored'[e] = link'[e]
      <3>1. UNCHANGED <<form, try>> /\ From(e)' = From(e)
        BY <1>1 DEF senders, From, Is
      <3>2. CASE e = d
        BY <1>1, <2>1, <2>2, <2>6, <3>1, <3>2 DEF RobotTypeOK, Is, D!Accept
      <3>3. CASE e # d
        BY <2>1, <2>2, <3>1, <3>3 DEF RobotTypeOK, JobsSound, Is, D!Accept
      <3> QED BY <3>2, <3>3
    <2>8. JobsSound'
      BY <2>5, <2>7 DEF JobsSound
    <2> QED BY <2>4, <2>8
  <1> QED BY <1>2, <1>3

LEMMA GoroutineInv ==
  ASSUME RobotInv, Inv', NEW d \in Deliveries,
         EndJob(d) \/ TellMember(d) \/ StoreArticle(d)
  PROVE  RobotTypeOK' /\ JobsSound'
  <1> USE DEF RobotInv, EndJob, TellMember, StoreArticle, RobotTypeOK
  <1>0. d[1] \in Requests /\ TypeOK'
    BY DEF Deliveries, Inv
  <1>1. UNCHANGED <<form, try, spawned, alive, link, member>>
    BY DEF vars, senders, server, D!Finish, D!Abandon, D!Tell, D!Store
  <1>2. CASE EndJob(d)
    <2>1. RobotTypeOK' /\ UNCHANGED <<stored, told>>
      BY <1>0, <1>1, <1>2 DEF D!Finish, D!Abandon
    <2>2. \A e \in Deliveries : status'[e] = "idle" <=> status[e] = "idle"
      BY <1>2 DEF D!Finish, D!Abandon
    <2>3. \A e \in Deliveries :
             /\ status[e] = "finished" => status'[e] = "finished"
             /\ status'[e] = "finished" => stored[e] = link[e]
      BY <1>2 DEF JobsSound, D!Finish, D!Abandon
    <2> QED BY <1>1, <2>1, <2>2, <2>3 DEF JobsSound, Is, From
  <1>3. CASE TellMember(d)
    <2>1. RobotTypeOK'
      BY <1>0, <1>1, <1>3 DEF D!Tell
    <2>2. UNCHANGED <<status, stored>> /\ told' = told \cup {d}
      BY <1>3 DEF D!Tell
    <2>3. status[d] = "finished" /\ member[d] \in Requests
      BY <1>3 DEF D!Tell
    <2> QED BY <1>1, <2>1, <2>2, <2>3 DEF JobsSound, Is, From
  <1>4. CASE StoreArticle(d)
    <2>1. d \in spawned /\ stored[d] = NoURL /\ link[d] = d[1]
      BY <1>4 DEF JobsSound, D!Store
    <2>2. RobotTypeOK' /\ UNCHANGED <<status, told>>
      BY <1>0, <1>1, <1>4, <2>1 DEF D!Store
    <2>3. \A e \in Deliveries : stored'[e] = stored[e] \/ (e = d /\ stored'[e] = link[e])
      BY <1>4 DEF D!Store
    <2>4. status[d] # "finished"
      BY <1>4 DEF D!Store
    <2> QED BY <1>1, <2>1, <2>2, <2>3, <2>4 DEF JobsSound, Is, From
  <1> QED BY <1>2, <1>3, <1>4

LEMMA DieInv == ASSUME RobotInv, Inv', Die PROVE RobotTypeOK' /\ JobsSound'
  <1> USE DEF RobotInv, RobotTypeOK
  <1>1. UNCHANGED <<form, try, spawned, link, member, stored, told>> /\ alive' = {}
    BY DEF Die, Crash, senders, D!Abandon
  <1>2. RobotTypeOK'
    <2>1. TypeOK'
      BY DEF Inv
    <2> QED BY <1>1, <2>1 DEF Die, D!Abandon
  <1>3. \A e \in Deliveries : /\ status'[e] = "idle" <=> status[e] = "idle"
                              /\ status'[e] = "finished" <=> status[e] = "finished"
    BY DEF Die, D!Abandon
  <1>4. JobsSound'
    BY <1>1, <1>3 DEF JobsSound, Is, From
  <1> QED BY <1>2, <1>4

\* RobotInv holds in every reachable state of the composition.
THEOREM RobotInvariance == RobotSpec => []RobotInv
  <1>1. RobotInit => RobotInv
    <2> SUFFICES ASSUME RobotInit PROVE RobotInv
      OBVIOUS
    <2>1. Inv
      BY InitInv DEF RobotInit
    <2> QED BY <2>1 DEF Inv, RobotInit, Init, D!Init, RobotInv, RobotTypeOK, JobsSound
  <1>2. RobotInv /\ [RobotNext]_allVars => RobotInv'
    <2> SUFFICES ASSUME RobotInv, [RobotNext]_allVars PROVE RobotInv'
      OBVIOUS
    <2>1. Inv'
      BY StepsOfCallback, InvStep DEF RobotInv
    <2>2. ASSUME NEW d \in Deliveries, UNCHANGED jobs,
                 HandleGet(d) \/ Panics(d) \/ Write(d) \/ Network(d)
          PROVE  RobotTypeOK' /\ JobsSound'
      <3>1. UNCHANGED <<form, try, spawned>>
        BY <2>2 DEF HandleGet, Panics, Write, Network, Arrives, AnswerArrives, Lost, senders
      <3> QED BY <2>1, <2>2, <3>1, JobsKept DEF RobotInv, Inv, TypeOK
    <2>3. ASSUME NEW r \in Requests, UNCHANGED jobs, Send(r) \/ GivesUpWaiting(r)
          PROVE  RobotTypeOK' /\ JobsSound'
      <3>1. UNCHANGED <<form, spawned>>
        BY <2>3 DEF Send, GivesUpWaiting
      <3>2. \A q \in Requests : try[q] <= try'[q]
        BY <2>3 DEF Send, GivesUpWaiting, TryAgain, Deliver, RobotInv, Inv, TypeOK
      <3> QED BY <2>1, <2>3, <3>1, <3>2, JobsKept
    <2>4. CASE Start /\ UNCHANGED jobs
      BY <2>1, <2>4, JobsKept DEF Start, senders, RobotInv, Inv, TypeOK
    <2>5. CASE UNCHANGED allVars
      BY <2>1, <2>5, JobsKept DEF allVars, vars, senders, server, RobotInv, Inv, TypeOK
    <2> QED BY <2>1, <2>2, <2>3, <2>4, <2>5, ServeInv, GoroutineInv, DieInv
            DEF RobotNext, Reply, RobotInv
  <1> QED BY <1>1, <1>2, PTL DEF RobotSpec

\* Every variable of the composition keeps its type.
THEOREM RobotTypeCorrect == RobotSpec => []RobotTypeOK
  <1>1. RobotInv => RobotTypeOK
    BY DEF RobotInv
  <1> QED BY RobotInvariance, <1>1, PTL

\* The robot is a Callback: its handlers and senders do nothing else because jobs
\* run beside them; an accepted link has a job.
THEOREM RobotAckedHasJob == RobotSpec => []AckedHasJob
  <1>1. RobotInv => AckedHasJob
    BY DEF RobotInv, Inv
  <1> QED BY RobotInvariance, <1>1, PTL

\* Every saved article and every card is accounted for by a delivery of its link.
THEOREM SavesAlwaysAccountedFor == RobotSpec => []SavesAccountedFor
  <1>1. RobotInv => SavesAccountedFor
    <2> SUFFICES ASSUME RobotInv, NEW d \in Deliveries
                 PROVE  /\ stored[d] # NoURL => /\ Is(d, {"link", "url"})
                                                /\ stored[d] = d[1] /\ d[2] <= try[d[1]]
                        /\ d \in told => /\ Is(d, {"link"}) /\ member[d] = d[1]
                                         /\ stored[d] = d[1]
      BY DEF SavesAccountedFor
    <2>1. d \in told => d \in spawned
      BY DEF RobotInv, JobsSound
    <2>2. member[d] = NoUser => member[d] \notin Requests
      BY NobodyAssumption
    <2> QED BY <2>1, <2>2 DEF RobotInv, JobsSound, From, Is
  <1> QED BY RobotInvariance, <1>1, PTL
=============================================================================
