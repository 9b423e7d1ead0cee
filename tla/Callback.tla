------------------------------ MODULE Callback ------------------------------
(***************************************************************************)
(* internal/server/handlers.go: the requests the robot is sent, one        *)
(* goroutine of net/http for each, and their senders.  WeCom delivers a    *)
(* message again when it gets no good answer in time; a client of POST     *)
(* /url or of GET / does not.                                              *)
(*                                                                         *)
(*   sent -> handling -> replying -> answered -> over                      *)
(*                                                                         *)
(* A delivery is a request and the number of its attempt.  The network may *)
(* lose or delay requests and answers, so a late delivery can be handled   *)
(* together with its own repetition.  The job a handler starts is known by *)
(* the delivery it was started for; what becomes of it is not in this      *)
(* module (see Robot).                                                     *)
(***************************************************************************)
EXTENDS Naturals

CONSTANTS
    Requests,      \* what is sent to the robot
    MaxDeliveries, \* how often WeCom delivers one message at most
    NoReply        \* nothing written yet

ASSUME DeliveriesAssumption == MaxDeliveries \in Nat \ {0}

\* What a request turns out to be, and what it may be answered with.  A foreign
\* request has no or a wrong signature, or does not decrypt; garbled is no XML;
\* a badurl has another method, no token, no parsable body or no http(s) link; a
\* badverify is to verify the URL and fails as a foreign message does.  An
\* encrypted reply that cannot be built is replaced by the plain one.
Answers == [link    |-> {"OK", "success"}, text   |-> {"OK", "success"},
            other   |-> {"OK", "success"}, event  |-> {"success"},
            garbled |-> {"success"},       foreign |-> {"refused"},
            url     |-> {"queued"},        badurl |-> {"refused"},
            verify  |-> {"echo"},          badverify |-> {"refused"},
            health  |-> {"ok"}]

Forms == DOMAIN Answers
Replies == UNION {Answers[f] : f \in Forms}
Messages == {"link", "text", "other", "event", "garbled", "foreign"}
Gets == {"verify", "badverify", "health"}

ASSUME ReplyAssumption == NoReply \notin Replies

Deliveries == Requests \X (1..MaxDeliveries)

VARIABLES
    form,    \* form[r]: what request r is
    sender,  \* sender[r]: what the sender of r knows
    try,     \* try[r]: how often r was delivered
    up,      \* the process listens
    stage,   \* stage[d]: where delivery d is
    reply,   \* reply[d]: what its handler answered
    spawned  \* the deliveries whose handlers started a job

senders == <<form, sender, try>>
server == <<up, stage, reply, spawned>>
vars == <<senders, server>>

Init ==
    /\ form \in [Requests -> Forms]
    /\ sender = [r \in Requests |-> "new"]
    /\ try = [r \in Requests |-> 0]
    /\ up = TRUE
    /\ stage = [d \in Deliveries |-> "none"]
    /\ reply = [d \in Deliveries |-> NoReply]
    /\ spawned = {}

At(d, s) == stage[d] = s
Goto(d, s) == stage' = [stage EXCEPT ![d] = s]
Is(d, F) == form[d[1]] \in F

-----------------------------------------------------------------------------
\* The senders.
Deliver(r) ==
    /\ try' = [try EXCEPT ![r] = @ + 1]
    /\ Goto(<<r, try[r] + 1>>, "sent")

Send(r) ==
    /\ sender[r] = "new"
    /\ sender' = [sender EXCEPT ![r] = "waiting"]
    /\ Deliver(r)
    /\ UNCHANGED <<form, up, reply, spawned>>

\* No good answer: WeCom delivers the message again, up to its limit.
TryAgain(r) ==
    \/ /\ form[r] \in Messages /\ try[r] < MaxDeliveries
       /\ Deliver(r)
       /\ UNCHANGED <<sender, reply>>
    \/ /\ form[r] \notin Messages \/ try[r] = MaxDeliveries
       /\ sender' = [sender EXCEPT ![r] = "gaveUp"]
       /\ UNCHANGED <<try, stage, reply>>

\* The sender's time is up, or its connection was closed.
GivesUpWaiting(r) ==
    /\ sender[r] = "waiting"
    /\ TryAgain(r)
    /\ UNCHANGED <<form, up, spawned>>

\* An answer arrives, too late if the sender is waiting for another one.
AnswerArrives(d) ==
    /\ At(d, "answered")
    /\ Goto(d, "over")
    /\ sender' = IF sender[d[1]] = "waiting" /\ d[2] = try[d[1]]
                    /\ reply[d] # "refused"
                 THEN [sender EXCEPT ![d[1]] = "acked"] ELSE sender
    /\ UNCHANGED <<form, try, up, reply, spawned>>

\* The network loses a request or an answer; nobody listens.
Lost(d) ==
    /\ stage[d] \in {"sent", "answered"}
    /\ Goto(d, "over")
    /\ UNCHANGED <<senders, up, reply, spawned>>

-----------------------------------------------------------------------------
\* The server.
Arrives(d) ==
    /\ up /\ At(d, "sent")
    /\ Goto(d, "handling")
    /\ UNCHANGED <<senders, up, reply, spawned>>

\* handleMessage up to its answer: a text message that begins with a link
\* starts a job.  HandleUnlessBusy: only while no other handler is at work.
\* HandleAnyText: a link anywhere in the text, or none, will do.
HandleUnlessBusy(d) ==
    /\ At(d, "handling") /\ Is(d, Messages)
    /\ spawned' = IF Is(d, {"link"}) /\ \A e \in Deliveries \ {d} : ~At(e, "handling")
                  THEN spawned \cup {d} ELSE spawned
    /\ Goto(d, "replying")
    /\ UNCHANGED <<senders, up, reply>>

HandleAnyText(d) ==
    /\ At(d, "handling") /\ Is(d, Messages)
    /\ spawned' = IF Is(d, {"link", "text"}) THEN spawned \cup {d} ELSE spawned
    /\ Goto(d, "replying")
    /\ UNCHANGED <<senders, up, reply>>

HandleMessage(d) ==
    /\ At(d, "handling") /\ Is(d, Messages)
    /\ spawned' = IF Is(d, {"link"}) THEN spawned \cup {d} ELSE spawned
    /\ Goto(d, "replying")
    /\ UNCHANGED <<senders, up, reply>>

\* POST /url.
HandleURL(d) ==
    /\ At(d, "handling") /\ Is(d, {"url", "badurl"})
    /\ spawned' = IF Is(d, {"url"}) THEN spawned \cup {d} ELSE spawned
    /\ Goto(d, "replying")
    /\ UNCHANGED <<senders, up, reply>>

\* GET /: the URL verification of WeCom, and the health check.
HandleGet(d) ==
    /\ At(d, "handling") /\ Is(d, Gets)
    /\ Goto(d, "replying")
    /\ UNCHANGED <<senders, up, reply, spawned>>

\* DecryptMsg and VerifyURL may panic on what was encrypted with another key;
\* net/http recovers and closes the connection.
Panics(d) ==
    /\ At(d, "handling") /\ Is(d, {"foreign", "badverify"})
    /\ Goto(d, "over")
    /\ UNCHANGED <<senders, up, reply, spawned>>

\* WriteRefusing: what does not parse is refused, and delivered again.
WriteRefusing(d) ==
    /\ At(d, "replying")
    /\ \E a \in Answers[form[d[1]]] :
          reply' = [reply EXCEPT ![d] = IF Is(d, {"garbled"}) THEN "refused" ELSE a]
    /\ Goto(d, "answered")
    /\ UNCHANGED <<senders, up, spawned>>

Write(d) ==
    /\ At(d, "replying")
    /\ \E a \in Answers[form[d[1]]] : reply' = [reply EXCEPT ![d] = a]
    /\ Goto(d, "answered")
    /\ UNCHANGED <<senders, up, spawned>>

\* The process dies with its handlers.  Written answers are on their way.
Crash ==
    /\ up
    /\ up' = FALSE
    /\ stage' = [d \in Deliveries |-> IF stage[d] \in {"handling", "replying"}
                                      THEN "over" ELSE stage[d]]
    /\ UNCHANGED <<senders, reply, spawned>>

Start ==
    /\ ~up
    /\ up' = TRUE
    /\ UNCHANGED <<senders, stage, reply, spawned>>

-----------------------------------------------------------------------------
Handle(d) == HandleMessage(d) \/ HandleURL(d) \/ HandleGet(d) \/ Panics(d) \/ Write(d)
Network(d) == Arrives(d) \/ AnswerArrives(d) \/ Lost(d)

Next ==
    \/ \E r \in Requests : Send(r) \/ GivesUpWaiting(r)
    \/ \E d \in Deliveries : Handle(d) \/ Network(d)
    \/ Crash
    \/ Start

Spec == Init /\ [][Next]_vars

-----------------------------------------------------------------------------
\* Every variable has its type; a form of request gets its own answers only.
TypeOK ==
    /\ form \in [Requests -> Forms]
    /\ sender \in [Requests -> {"new", "waiting", "acked", "gaveUp"}]
    /\ try \in [Requests -> 0..MaxDeliveries]
    /\ up \in BOOLEAN
    /\ stage \in [Deliveries -> {"none", "sent", "handling", "replying",
                                 "answered", "over"}]
    /\ reply \in [Deliveries -> Replies \cup {NoReply}]
    /\ \A d \in Deliveries : reply[d] \in Answers[form[d[1]]] \cup {NoReply}
    /\ spawned \subseteq Deliveries

\* A sender that takes its link for delivered is right: some handler started a
\* job for it, though the process may have died before or after it answered, and
\* the answer may be that of an earlier process than the one now running.
AckedHasJob ==
    \A r \in Requests : sender[r] = "acked" /\ form[r] \in {"link", "url"} =>
        \E d \in spawned : d[1] = r

\* What makes AckedHasJob inductive: what was answered was handled.
AnswersSound ==
    /\ \A r \in Requests : sender[r] = "new" => try[r] = 0
    /\ \A d \in Deliveries :
        /\ At(d, "answered") => reply[d] # NoReply
        /\ At(d, "none") <=> d[2] > try[d[1]]
        /\ stage[d] \in {"none", "sent", "handling"} => d \notin spawned
        /\ stage[d] \in {"replying", "answered"} /\ Is(d, {"link", "url"}) => d \in spawned

\* "in the background, without blocking the callback": every handler answers, or
\* dies with its process, though no job has to end, no sender to listen and no
\* other handler to go on.
NeverBlocked ==
    \A d \in Deliveries : At(d, "handling") ~> stage[d] \in {"answered", "over"}
=============================================================================
