------------------------------ MODULE Notifier ------------------------------
(***************************************************************************)
(* internal/wecom/notifier.go: goroutines of finished jobs call            *)
(* SendTextCard, each with a context of its own (processor.go, 15s).  They *)
(* share one cached access token behind a mutex that is held while a new   *)
(* token is asked for; waiting for the mutex ignores the context.          *)
(*                                                                         *)
(*   idle -> lock -> [ask ->] send -> ended -> idle                        *)
(*                                                                         *)
(* A token is represented by the life it has left at WeCom.  Everything    *)
(* that time runs down is a countdown, so no clock has to be bounded.      *)
(* g names one goroutine after the other: when its call has ended, the     *)
(* next job that finishes takes the name, a tick later at the earliest.    *)
(***************************************************************************)
EXTENDS Naturals

CONSTANTS
    Senders,      \* the goroutines
    Lifetimes,    \* the expires_in values WeCom hands out, in ticks
    CtxTimeout,   \* the context of a SendTextCard, in ticks
    HTTPTimeout,  \* Timeout of the notifier's HTTP client, in ticks
    Nil,          \* nobody, no token, no answer
    Revoked       \* the life of what WeCom does not accept as a token

\* "cache for 90% of expires_in".  Uncautious: cache for all of it.
Uncautious(e) == e
CachedFor(e) == (e * 9) \div 10

ASSUME TimeAssumption == /\ CtxTimeout \in Nat \ {0}
                         /\ HTTPTimeout \in Nat \ {0}
                         /\ Lifetimes \subseteq Nat /\ Lifetimes # {}
ASSUME NullAssumption == /\ Nil # Revoked /\ {Nil, Revoked} \cap Nat = {}
                         /\ Nil \notin Senders

\* WeCom's 7200s leave a margin of 720s, for two requests of 10s.
ASSUME MarginAssumption ==
    \A e \in Lifetimes : e >= (e * 9) \div 10 + 2 * HTTPTimeout

VARIABLES
    holder,  \* who holds n.mu
    pc,      \* pc[g]: where g is in SendTextCard
    age,     \* age[g]: how much of g's context is over
    http,    \* http[g]: time left for g's HTTP request
    using,   \* using[g]: the token g sends its card with
    reply,   \* reply[g]: WeCom's answer to g's gettoken, on its way
    life,    \* accessToken
    fresh    \* time until tokenExpiry

vars == <<holder, pc, age, http, using, reply, life, fresh>>

Lives == Nat \cup {Revoked}
Replies == [life: Lives \cup {Nil}, expires: Lifetimes]

Init ==
    /\ holder = Nil
    /\ pc = [g \in Senders |-> "idle"]
    /\ age = [g \in Senders |-> 0]
    /\ http = [g \in Senders |-> 0]
    /\ using = [g \in Senders |-> Nil]
    /\ reply = [g \in Senders |-> Nil]
    /\ life = Nil
    /\ fresh = 0

-----------------------------------------------------------------------------
\* Whoever finds the mutex free takes it, however long others have waited: a
\* sync.Mutex prefers a goroutine that has just come to one it has to wake up,
\* until the latter has lost for a millisecond.  AnyTime: no mutex.
AnyTime == TRUE
Free == holder = Nil

Unlock == holder' = Nil

\* The deadline of a request is the earlier of the client's and the context's.
\* ClientBudget: the request is made without the context.  ContextBudget: the
\* client has no timeout of its own.
ClientBudget(g) == HTTPTimeout
ContextBudget(g) == CtxTimeout - age[g]
Budget(g) == IF HTTPTimeout < CtxTimeout - age[g] THEN HTTPTimeout
                                                 ELSE CtxTimeout - age[g]

\* A finished job's goroutine calls SendTextCard, which calls token.
Call(g) ==
    /\ pc[g] = "idle"
    /\ pc' = [pc EXCEPT ![g] = "lock"]
    /\ UNCHANGED <<holder, age, http, using, reply, life, fresh>>

\* g goes on to send its card with token t, which may be empty.
SendWith(g, t) ==
    /\ pc' = [pc EXCEPT ![g] = "send"]
    /\ using' = [using EXCEPT ![g] = IF t = Nil THEN Revoked ELSE t]
    /\ http' = [http EXCEPT ![g] = Budget(g)]
    /\ Unlock

\* The call returns, its goroutine ends.
Return(g) ==
    /\ pc' = [pc EXCEPT ![g] = "ended"]
    /\ age' = [age EXCEPT ![g] = 0]
    /\ http' = [http EXCEPT ![g] = 0]
    /\ using' = [using EXCEPT ![g] = Nil]
    /\ reply' = [reply EXCEPT ![g] = Nil]

CanReuse == life # Nil /\ fresh > 0

\* A use that puts the expiry off.
TakeCachedSliding(g) ==
    /\ pc[g] = "lock" /\ Free
    /\ CanReuse
    /\ SendWith(g, life)
    /\ fresh' = CHOOSE f \in {CachedFor(e) : e \in Lifetimes} : TRUE
    /\ UNCHANGED <<age, reply, life>>

TakeCached(g) ==
    /\ pc[g] = "lock" /\ Free
    /\ CanReuse
    /\ SendWith(g, life)
    /\ UNCHANGED <<age, reply, life, fresh>>

AskToken(g) ==
    /\ pc[g] = "lock" /\ Free
    /\ ~CanReuse
    /\ pc' = [pc EXCEPT ![g] = "ask"]
    /\ holder' = g
    /\ http' = [http EXCEPT ![g] = Budget(g)]
    /\ UNCHANGED <<age, using, reply, life, fresh>>

\* WeCom issues a token, whose life starts now and not when the answer arrives,
\* or answers errcode 0 with an empty one.
WeComIssues(g) ==
    /\ pc[g] = "ask" /\ reply[g] = Nil
    /\ http[g] > 0
    /\ \E e \in Lifetimes : \E l \in {e, Nil} :
          reply' = [reply EXCEPT ![g] = [life |-> l, expires |-> e]]
    /\ UNCHANGED <<holder, pc, age, http, using, life, fresh>>

\* What errcode 0 came with is cached and used, the empty token as well.
TokenArrives(g) ==
    /\ pc[g] = "ask" /\ reply[g] # Nil
    /\ http[g] > 0
    /\ life' = reply[g].life
    /\ fresh' = CachedFor(reply[g].expires)
    /\ SendWith(g, reply[g].life)
    /\ reply' = [reply EXCEPT ![g] = Nil]
    /\ UNCHANGED age

\* An errcode, a broken or unparsable answer, or the deadline.  The cached token
\* stays as it is.  AskFailsLocked: the mutex is not released on this path.
AskFailsLocked(g) ==
    /\ pc[g] = "ask"
    /\ Return(g)
    /\ UNCHANGED <<holder, life, fresh>>

AskFails(g) ==
    /\ pc[g] = "ask"
    /\ Return(g)
    /\ Unlock
    /\ UNCHANGED <<life, fresh>>

\* The card was accepted, refused, lost, or not answered in time: SendTextCard
\* returns, and the cached token is kept even when WeCom called it invalid.
SendReturns(g) ==
    /\ pc[g] = "send"
    /\ Return(g)
    /\ UNCHANGED <<holder, life, fresh>>

-----------------------------------------------------------------------------
\* WeCom withdraws every token issued so far (the secret was reset).
Revoke ==
    /\ life' = IF life = Nil THEN Nil ELSE Revoked
    /\ using' = [g \in Senders |-> IF using[g] = Nil THEN Nil ELSE Revoked]
    /\ reply' = [g \in Senders |-> IF reply[g] = Nil \/ reply[g].life = Nil THEN reply[g]
                                   ELSE [reply[g] EXCEPT !.life = Revoked]]
    /\ UNCHANGED <<holder, pc, age, http, fresh>>

Dec(n) == IF n \in {Nil, Revoked, 0} THEN n ELSE n - 1

\* Time passes, but not over an expired request, nor while somebody could take
\* the mutex.
Tick ==
    /\ \A g \in Senders : /\ pc[g] \in {"ask", "send"} => http[g] > 0
                          /\ pc[g] = "lock" => ~Free
    /\ pc' = [g \in Senders |-> IF pc[g] = "ended" THEN "idle" ELSE pc[g]]
    /\ age' = [g \in Senders |-> IF pc[g] \in {"idle", "ended"} THEN 0
                                 ELSE IF age[g] < CtxTimeout THEN age[g] + 1
                                 ELSE age[g]]
    /\ http' = [g \in Senders |-> IF pc[g] \in {"ask", "send"} THEN http[g] - 1
                                                               ELSE http[g]]
    /\ using' = [g \in Senders |-> Dec(using[g])]
    /\ reply' = [g \in Senders |-> IF reply[g] = Nil THEN Nil
                                   ELSE [reply[g] EXCEPT !.life = Dec(@)]]
    /\ life' = Dec(life)
    /\ fresh' = Dec(fresh)
    /\ UNCHANGED holder

\* A request that is not answered in time is given up by its client.
GivesUp(g) == http[g] = 0 /\ (AskFails(g) \/ SendReturns(g))

Next ==
    \/ \E g \in Senders : \/ Call(g) \/ TakeCached(g) \/ AskToken(g) \/ WeComIssues(g)
                          \/ TokenArrives(g) \/ AskFails(g) \/ SendReturns(g)
    \/ Revoke
    \/ Tick

Spec == Init /\ [][Next]_vars

\* Goroutines run and time passes; WeCom never has to answer.  A sync.Mutex that
\* is free again and again is not kept from a waiter for ever.
FairSpec == /\ Spec
            /\ \A g \in Senders : /\ SF_vars(TakeCached(g) \/ AskToken(g))
                                  /\ WF_vars(GivesUp(g))
            /\ WF_vars(Tick)

-----------------------------------------------------------------------------
\* Every variable has its type.
TypeOK ==
    /\ holder \in Senders \cup {Nil}
    /\ pc \in [Senders -> {"idle", "lock", "ask", "send", "ended"}]
    /\ age \in [Senders -> 0..CtxTimeout]
    /\ http \in [Senders -> 0..HTTPTimeout]
    /\ using \in [Senders -> Lives \cup {Nil}]
    /\ reply \in [Senders -> Replies \cup {Nil}]
    /\ life \in Lives \cup {Nil}
    /\ fresh \in Nat

\* One gettoken at a time, however many jobs finish at once, and only while the
\* cached token cannot be used.
SingleFlight ==
    \A g \in Senders : pc[g] = "ask" =>
        /\ fresh = 0 \/ life = Nil
        /\ \A h \in Senders : pc[h] = "ask" => h = g

\* "to avoid using a token right as it expires": a token does not run out while
\* a card sent with it is on its way, though its life began before it arrived
\* here and it may be taken at the last moment before tokenExpiry.
TokenOutlivesCard ==
    \A g \in Senders : pc[g] = "send" /\ using[g] # Revoked => using[g] > http[g]

\* One context covers both requests of a notification and what it waits behind
\* others for a mutex that knows no deadline: no request is still on its way when
\* the context is over, and a call that waited it away sends no card.
RequestsInTime ==
    \A g \in Senders : http[g] > 0 => age[g] + http[g] <= CtxTimeout

\* What makes the three inductive: who asks holds the mutex, and nobody else has
\* a request on its way than who asks or sends.
MutexSound == \A g \in Senders : /\ pc[g] = "ask" => holder = g
                                 /\ pc[g] \notin {"ask", "send"} => http[g] = 0

\* The margin of 10% covers an answer underway and, after that, a card underway.
TokensSound ==
    /\ fresh > 0 /\ life \in Nat => life >= fresh + HTTPTimeout
    /\ \A g \in Senders :
          /\ pc[g] = "send" => using[g] # Nil
          /\ pc[g] # "send" => using[g] = Nil
          /\ reply[g] # Nil => pc[g] = "ask"
          /\ reply[g] # Nil /\ reply[g].life \in Nat =>
                reply[g].life + HTTPTimeout >= reply[g].expires + http[g]

Inv == TypeOK /\ SingleFlight /\ TokenOutlivesCard /\ RequestsInTime /\ MutexSound /\ TokensSound

\* Every SendTextCard returns, though WeCom may answer none.
EveryCallReturns == \A g \in Senders : pc[g] = "lock" ~> pc[g] = "ended"

\* A withdrawn token is presented again and again, but only until tokenExpiry.
RevokedGivenUp == life = Revoked ~> life # Revoked \/ fresh = 0
=============================================================================
