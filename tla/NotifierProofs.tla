--------------------------- MODULE NotifierProofs ---------------------------
(***************************************************************************)
(* The safety invariants of Notifier, for any number of goroutines and any *)
(* timeouts and lifetimes that leave the margin.                           *)
(***************************************************************************)
EXTENDS Notifier, TLAPS

\* A request gets no more time than its client or its context have.
LEMMA BudgetFits ==
    ASSUME NEW g \in Senders, age[g] \in 0..CtxTimeout
    PROVE  Budget(g) \in 0..HTTPTimeout /\ age[g] + Budget(g) <= CtxTimeout
BY TimeAssumption DEF Budget

\* Nine tenths are a natural number, and the margin is what MarginAssumption
\* says of it.
LEMMA CachedForType ==
    ASSUME NEW e \in Lifetimes
    PROVE  /\ e \in Nat /\ CachedFor(e) \in Nat
           /\ e >= CachedFor(e) + 2 * HTTPTimeout
<1>1. e \in Nat
  BY TimeAssumption
<1>2. (e * 9) \div 10 \in Nat
  BY <1>1
<1> QED
  BY <1>1, <1>2, MarginAssumption DEF CachedFor

\* Such a margin is not empty-handed: even a token that took a whole request to
\* arrive outlives another request.
LEMMA MarginLeaves ==
    ASSUME NEW e \in Lifetimes
    PROVE  e > 2 * HTTPTimeout
<1>1. e \in Nat /\ HTTPTimeout \in Nat \ {0}
  BY TimeAssumption
<1>2. CASE e >= 2
  <2>1. (e * 9) \div 10 >= 1
    BY <1>1, <1>2
  <2> QED
    BY <1>1, <2>1, MarginAssumption DEF CachedFor
<1>3. CASE e < 2
  BY <1>1, <1>3, CachedForType
<1> QED
  BY <1>1, <1>2, <1>3

\* A countdown keeps its kind, and takes one off whatever can be counted down.
LEMMA DecStep ==
    ASSUME NEW n \in Lives \cup {Nil}
    PROVE  /\ Dec(n) \in Lives \cup {Nil}
           /\ n = Nil => Dec(n) = Nil
           /\ n # Nil => Dec(n) # Nil
           /\ n = Revoked => Dec(n) = Revoked
           /\ n # Revoked => Dec(n) # Revoked
           /\ n \in Nat => /\ Dec(n) \in Nat
                           /\ n > 0 => Dec(n) = n - 1
                           /\ n = 0 => Dec(n) = 0
<1>1. Nil \notin Nat /\ Revoked \notin Nat /\ Nil # Revoked
  BY NullAssumption
<1>2. CASE n \in {Nil, Revoked}
  BY <1>1, <1>2 DEF Dec, Lives
<1>3. CASE n \in Nat
  <2>1. n \notin {Nil, Revoked}
    BY <1>1, <1>3
  <2>2. CASE n = 0
    BY <1>1, <2>1, <2>2 DEF Dec, Lives
  <2>3. CASE n # 0
    <3>1. Dec(n) = n - 1 /\ n - 1 \in Nat
      BY <1>3, <2>1, <2>3 DEF Dec
    <3> QED
      BY <1>1, <1>3, <2>1, <2>3, <3>1 DEF Lives
  <2> QED
    BY <2>2, <2>3
<1> QED
  BY <1>2, <1>3 DEF Lives

-----------------------------------------------------------------------------
\* Nothing is cached, asked for or sent yet.
LEMMA InitInv == Init => Inv
<1> SUFFICES ASSUME Init PROVE Inv
  OBVIOUS
<1>1. TypeOK
  BY TimeAssumption DEF Init, TypeOK
<1>2. SingleFlight /\ TokenOutlivesCard /\ RequestsInTime
  BY TimeAssumption DEF Init, SingleFlight, TokenOutlivesCard, RequestsInTime
<1>3. MutexSound /\ TokensSound
  BY DEF Init, MutexSound, TokensSound
<1> QED
  BY <1>1, <1>2, <1>3 DEF Inv

\* A new call has neither the mutex nor a request.
LEMMA CallInv == ASSUME Inv, NEW g \in Senders, Call(g) PROVE Inv'
<1> USE DEF Inv, TypeOK, Call
<1>1. TypeOK'
  OBVIOUS
<1>2. SingleFlight' /\ TokenOutlivesCard' /\ RequestsInTime'
  BY DEF SingleFlight, TokenOutlivesCard, RequestsInTime
<1>3. MutexSound' /\ TokensSound'
  BY DEF MutexSound, TokensSound
<1> QED
  BY <1>1, <1>2, <1>3

\* While the mutex is free nobody asks for a token.
LEMMA NobodyAsks ==
    ASSUME MutexSound, Free
    PROVE  \A h \in Senders : pc[h] # "ask"
BY NullAssumption DEF MutexSound, Free

\* A cached token that is still fresh outlives any request made with it.
LEMMA TakeCachedInv == ASSUME Inv, NEW g \in Senders, TakeCached(g) PROVE Inv'
<1> USE DEF Inv, TypeOK, TakeCached, SendWith, Unlock
<1>1. Budget(g) \in 0..HTTPTimeout /\ age[g] + Budget(g) <= CtxTimeout
  BY BudgetFits
<1>2. life \in Lives /\ (life # Revoked => life \in Nat /\ life > Budget(g))
  BY <1>1, TimeAssumption DEF CanReuse, TokensSound, Lives
<1>3. \A h \in Senders : pc[h] # "ask"
  BY NobodyAsks
<1>4. life # Nil
  BY DEF CanReuse
<1>5. TypeOK'
  BY <1>1, <1>2, <1>4
<1>6. SingleFlight' /\ TokenOutlivesCard' /\ RequestsInTime'
  BY <1>1, <1>2, <1>3, <1>4 DEF SingleFlight, TokenOutlivesCard, RequestsInTime
<1>7. MutexSound'
  BY <1>3 DEF MutexSound
<1>8. TokensSound'
  BY <1>2, <1>3, <1>4, NullAssumption DEF TokensSound, Lives
<1> QED
  BY <1>5, <1>6, <1>7, <1>8

\* Who asks has taken the mutex, and only when nothing fresh is cached.
LEMMA AskTokenInv == ASSUME Inv, NEW g \in Senders, AskToken(g) PROVE Inv'
<1> USE DEF Inv, TypeOK, AskToken
<1>1. Budget(g) \in 0..HTTPTimeout /\ age[g] + Budget(g) <= CtxTimeout
  BY BudgetFits
<1>2. \A h \in Senders : pc[h] # "ask"
  BY NobodyAsks
<1>3. TypeOK'
  BY <1>1
<1>4. SingleFlight' /\ TokenOutlivesCard' /\ RequestsInTime'
  BY <1>1, <1>2 DEF SingleFlight, TokenOutlivesCard, RequestsInTime, CanReuse
<1>5. MutexSound'
  BY <1>2 DEF MutexSound
<1>6. TokensSound'
  <2>1. reply[g] = Nil
    BY DEF TokensSound
  <2> QED
    BY <2>1 DEF TokensSound
<1> QED
  BY <1>3, <1>4, <1>5, <1>6

\* A token issued now has all of its life, an empty one none.
LEMMA WeComIssuesInv == ASSUME Inv, NEW g \in Senders, WeComIssues(g) PROVE Inv'
<1> USE DEF Inv, TypeOK, WeComIssues
<1>1. PICK e \in Lifetimes : \E l \in {e, Nil} :
                                reply' = [reply EXCEPT ![g] = [life |-> l, expires |-> e]]
  OBVIOUS
<1> PICK l \in {e, Nil} : reply' = [reply EXCEPT ![g] = [life |-> l, expires |-> e]]
  BY <1>1
<1>2. e \in Nat /\ [life |-> l, expires |-> e] \in Replies
  BY CachedForType DEF Replies, Lives
<1>3. TypeOK'
  BY <1>1, <1>2
<1>4. SingleFlight' /\ TokenOutlivesCard' /\ RequestsInTime' /\ MutexSound'
  BY DEF SingleFlight, TokenOutlivesCard, RequestsInTime, MutexSound
<1>5. TokensSound'
  <2>1. reply'[g] # Nil => reply'[g].expires = e /\ (reply'[g].life \in Nat => reply'[g].life = e)
    <3>1. reply'[g] = [life |-> l, expires |-> e]
      OBVIOUS
    <3>2. l \in Nat => l = e
      BY NullAssumption
    <3> QED
      BY <3>1, <3>2
  <2>2. \A h \in Senders : h # g => reply'[h] = reply[h]
    OBVIOUS
  <2>3. e + HTTPTimeout >= e + http[g]
    BY <1>2, TimeAssumption
  <2> QED
    BY <2>1, <2>2, <2>3 DEF TokensSound
<1> QED
  BY <1>3, <1>4, <1>5

\* What a token lost while its answer was underway is within the margin.
LEMMA TokenArrivesInv == ASSUME Inv, NEW g \in Senders, TokenArrives(g) PROVE Inv'
<1> USE DEF Inv, TypeOK, TokenArrives, SendWith, Unlock
<1>1. Budget(g) \in 0..HTTPTimeout /\ age[g] + Budget(g) <= CtxTimeout
  BY BudgetFits
<1> DEFINE e == reply[g].expires
           l == reply[g].life
<1>2. e \in Lifetimes /\ l \in Lives \cup {Nil}
  BY DEF Replies
<1>3. CachedFor(e) \in Nat /\ e \in Nat /\ e >= CachedFor(e) + 2 * HTTPTimeout /\ e > 2 * HTTPTimeout
  BY <1>2, CachedForType, MarginLeaves
<1>4. l \in Nat => l + HTTPTimeout > e
  <2>1. HTTPTimeout \in Nat /\ http[g] \in Nat /\ http[g] > 0
    BY TimeAssumption
  <2>2. l \in Nat => l + HTTPTimeout >= e + http[g]
    BY DEF TokensSound
  <2> QED
    BY <1>3, <2>1, <2>2
<1>5. l \in Nat => l > HTTPTimeout /\ l >= CachedFor(e) + HTTPTimeout
  BY <1>3, <1>4, TimeAssumption
<1>6. \A h \in Senders : pc[h] = "ask" => h = g
  BY DEF MutexSound
<1>7. using'[g] \in Lives /\ (using'[g] # Revoked => using'[g] = l /\ l \in Nat)
  BY <1>2, NullAssumption DEF Lives
<1>8. TypeOK'
  BY <1>1, <1>2, <1>3, <1>7
<1>9. SingleFlight' /\ RequestsInTime'
  BY <1>1, <1>6 DEF SingleFlight, RequestsInTime
<1>10. TokenOutlivesCard'
  BY <1>1, <1>5, <1>7, TimeAssumption DEF TokenOutlivesCard
<1>11. MutexSound'
  BY <1>6 DEF MutexSound
<1>12. TokensSound'
  BY <1>2, <1>5, <1>6, <1>7, NullAssumption DEF TokensSound, Lives
<1> QED
  BY <1>8, <1>9, <1>10, <1>11, <1>12

\* A failed gettoken leaves the cached token alone and releases the mutex.
LEMMA AskFailsInv == ASSUME Inv, NEW g \in Senders, AskFails(g) PROVE Inv'
<1> USE DEF Inv, TypeOK, AskFails, Return, Unlock
<1>1. \A h \in Senders : pc[h] = "ask" => h = g
  BY DEF MutexSound
<1>2. TypeOK'
  BY TimeAssumption
<1>3. SingleFlight' /\ TokenOutlivesCard' /\ RequestsInTime'
  BY <1>1, TimeAssumption DEF SingleFlight, TokenOutlivesCard, RequestsInTime
<1>4. MutexSound' /\ TokensSound'
  BY <1>1 DEF MutexSound, TokensSound
<1> QED
  BY <1>2, <1>3, <1>4

\* A card that was answered, or not, holds no mutex.
LEMMA SendReturnsInv == ASSUME Inv, NEW g \in Senders, SendReturns(g) PROVE Inv'
<1> USE DEF Inv, TypeOK, SendReturns, Return
<1>1. TypeOK'
  BY TimeAssumption
<1>2. SingleFlight' /\ TokenOutlivesCard' /\ RequestsInTime'
  BY TimeAssumption DEF SingleFlight, TokenOutlivesCard, RequestsInTime
<1>3. MutexSound' /\ TokensSound'
  BY DEF MutexSound, TokensSound
<1> QED
  BY <1>1, <1>2, <1>3

\* A withdrawn token is not a short-lived one.
LEMMA RevokeInv == ASSUME Inv, Revoke PROVE Inv'
<1> USE DEF Inv, TypeOK, Revoke
<1>1. TypeOK'
  <2>1. \A g \in Senders : reply'[g] \in Replies \cup {Nil}
    BY DEF Replies, Lives
  <2> QED
    BY <2>1 DEF Lives
<1>2. SingleFlight' /\ TokenOutlivesCard' /\ RequestsInTime' /\ MutexSound'
  BY NullAssumption DEF SingleFlight, TokenOutlivesCard, RequestsInTime, MutexSound
<1>3. \A g \in Senders : reply'[g] # Nil => reply[g] # Nil /\ reply'[g].life \in {Revoked, Nil}
  BY DEF Replies
<1>4. TokensSound'
  BY <1>3, NullAssumption DEF TokensSound
<1> QED
  BY <1>1, <1>2, <1>4

\* A tick takes from a token what it takes from the requests made with it.
LEMMA TickInv == ASSUME Inv, Tick PROVE Inv'
<1> USE DEF Inv, TypeOK, Tick
<1>1. \A n \in Lives \cup {Nil} : /\ Dec(n) \in Lives \cup {Nil}
                                  /\ n = Nil => Dec(n) = Nil
                                  /\ n # Nil => Dec(n) # Nil
                                  /\ n = Revoked => Dec(n) = Revoked
                                  /\ n # Revoked => Dec(n) # Revoked
                                  /\ n \in Nat /\ n > 0 => Dec(n) = n - 1
  BY DecStep
<1>2. Dec(fresh) \in Nat /\ (Dec(fresh) > 0 => fresh > 0 /\ Dec(fresh) = fresh - 1)
  BY DecStep DEF Lives
<1>3. \A g \in Senders : reply[g] # Nil => /\ reply'[g] = [reply[g] EXCEPT !.life = Dec(@)]
                                           /\ reply[g] \in Replies
                                           /\ reply'[g] \in Replies
                                           /\ reply'[g].life = Dec(reply[g].life)
                                           /\ reply'[g].expires = reply[g].expires
  BY <1>1, NullAssumption DEF Replies, Lives
<1>4. TypeOK'
  <2>1. \A g \in Senders : reply'[g] \in Replies \cup {Nil}
    BY <1>3
  <2>2. \A g \in Senders : http'[g] \in 0..HTTPTimeout
    BY TimeAssumption
  <2>3. \A g \in Senders : age'[g] \in 0..CtxTimeout
    BY TimeAssumption
  <2> QED
    BY <1>1, <1>2, <2>1, <2>2, <2>3
<1>5. \A g \in Senders : /\ pc[g] \in {"ask", "send"} <=> pc'[g] \in {"ask", "send"}
                         /\ pc[g] = "ask" <=> pc'[g] = "ask"
                         /\ pc[g] = "lock" <=> pc'[g] = "lock"
  <2> SUFFICES ASSUME NEW g \in Senders
               PROVE  /\ pc[g] \in {"ask", "send"} <=> pc'[g] \in {"ask", "send"}
                      /\ pc[g] = "ask" <=> pc'[g] = "ask"
                      /\ pc[g] = "lock" <=> pc'[g] = "lock"
    OBVIOUS
  <2>1. pc'[g] = IF pc[g] = "ended" THEN "idle" ELSE pc[g]
    OBVIOUS
  <2> QED
    BY <2>1
<1>6. SingleFlight'
  BY <1>1, <1>5 DEF SingleFlight, Dec
<1>7. TokenOutlivesCard'
  <2> SUFFICES ASSUME NEW g \in Senders, pc'[g] = "send", using'[g] # Revoked
               PROVE  using'[g] > http'[g]
    BY DEF TokenOutlivesCard
  <2>1. using[g] \in Nat /\ using[g] > http[g] /\ http[g] \in Nat /\ http[g] > 0
    BY <1>1, TimeAssumption DEF TokenOutlivesCard, TokensSound, Lives
  <2>2. Dec(using[g]) = using[g] - 1
    BY <1>1, <2>1 DEF Lives
  <2>3. pc[g] = "send"
    OBVIOUS
  <2>4. using'[g] = using[g] - 1 /\ http'[g] = http[g] - 1
    BY <2>2, <2>3
  <2> QED
    BY <2>1, <2>4
<1>8. RequestsInTime'
  <2> SUFFICES ASSUME NEW g \in Senders, http'[g] > 0 PROVE age'[g] + http'[g] <= CtxTimeout
    BY DEF RequestsInTime
  <2>1. age[g] \in Nat /\ http[g] \in Nat /\ CtxTimeout \in Nat
    BY TimeAssumption
  <2>2. CASE pc[g] \in {"ask", "send"}
    <3>1. http'[g] = http[g] - 1 /\ http[g] > 0 /\ age[g] + http[g] <= CtxTimeout
      BY <2>2 DEF RequestsInTime
    <3>2. age'[g] = age[g] + 1
      BY <2>1, <2>2, <3>1
    <3> QED
      BY <2>1, <3>1, <3>2
  <2>3. CASE pc[g] \notin {"ask", "send"}
    BY <2>3 DEF MutexSound
  <2> QED
    BY <2>2, <2>3
<1>9. MutexSound'
  BY <1>5 DEF MutexSound
<1>10. TokensSound'
  <2>1. fresh' > 0 /\ life' \in Nat => life' >= fresh' + HTTPTimeout
    <3> SUFFICES ASSUME fresh' > 0, life' \in Nat
                 PROVE  life' >= fresh' + HTTPTimeout
      OBVIOUS
    <3>1. fresh > 0 /\ fresh' = fresh - 1 /\ fresh \in Nat
      BY <1>2
    <3>2. life \in Nat /\ life >= fresh + HTTPTimeout
      BY <1>1, <3>1, NullAssumption DEF TokensSound, Lives
    <3>3. life > 0 /\ Dec(life) = life - 1
      BY <1>1, <3>1, <3>2, TimeAssumption DEF Lives
    <3> QED
      BY <3>1, <3>2, <3>3, TimeAssumption
  <2>2. ASSUME NEW g \in Senders, reply'[g] # Nil, reply'[g].life \in Nat
        PROVE  reply'[g].life + HTTPTimeout >= reply'[g].expires + http'[g]
    <3>1. reply[g] # Nil /\ pc[g] = "ask" /\ http[g] > 0 /\ http'[g] = http[g] - 1
      BY <2>2 DEF TokensSound
    <3>2. /\ reply[g].life \in Nat /\ reply[g].expires \in Lifetimes
          /\ reply[g].life + HTTPTimeout >= reply[g].expires + http[g]
      BY <1>1, <1>3, <2>2, <3>1, NullAssumption DEF TokensSound, Replies, Lives
    <3>3. reply[g].expires \in Nat /\ reply[g].expires > 2 * HTTPTimeout
      BY <3>2, CachedForType, MarginLeaves
    <3>4. reply[g].life \in Nat \ {0}
      BY <3>1, <3>2, <3>3, TimeAssumption
    <3>5. reply'[g].life = reply[g].life - 1 /\ reply'[g].expires = reply[g].expires
      <4>1. Dec(reply[g].life) = reply[g].life - 1
        BY <1>1, <3>4 DEF Lives
      <4> QED
        BY <1>3, <3>1, <4>1
    <3> QED
      BY <3>1, <3>2, <3>3, <3>4, <3>5, TimeAssumption
  <2>3. \A g \in Senders : /\ pc'[g] = "send" => using'[g] # Nil
                           /\ pc'[g] # "send" => using'[g] = Nil
                           /\ reply'[g] # Nil => pc'[g] = "ask"
    BY <1>1 DEF TokensSound
  <2> QED
    BY <2>1, <2>2, <2>3 DEF TokensSound
<1> QED
  BY <1>4, <1>6, <1>7, <1>8, <1>9, <1>10

-----------------------------------------------------------------------------
\* Every step keeps Inv.
LEMMA NextInv == Inv /\ [Next]_vars => Inv'
<1> SUFFICES ASSUME Inv, [Next]_vars PROVE Inv'
  OBVIOUS
<1>1. CASE UNCHANGED vars
  BY <1>1 DEF vars, Inv, TypeOK, SingleFlight, TokenOutlivesCard, RequestsInTime, MutexSound,
              TokensSound
<1> QED
  BY <1>1, CallInv, TakeCachedInv, AskTokenInv, WeComIssuesInv, TokenArrivesInv,
     AskFailsInv, SendReturnsInv, RevokeInv, TickInv DEF Next

\* Inv holds in every reachable state.
LEMMA Invariance == Spec => []Inv
<1> QED
  BY InitInv, NextInv, PTL DEF Spec

\* Every variable of the notifier keeps its type.
THEOREM TypeCorrect == Spec => []TypeOK
<1>1. Inv => TypeOK
  BY DEF Inv
<1> QED
  BY Invariance, <1>1, PTL

\* There is never more than one gettoken on its way.
THEOREM AlwaysSingleFlight == Spec => []SingleFlight
<1>1. Inv => SingleFlight
  BY DEF Inv
<1> QED
  BY Invariance, <1>1, PTL

\* No card arrives with a token that ran out on the way, for any lifetimes whose
\* tenth covers two requests.
THEOREM TokensAlwaysOutliveCards == Spec => []TokenOutlivesCard
<1>1. Inv => TokenOutlivesCard
  BY DEF Inv
<1> QED
  BY Invariance, <1>1, PTL

\* No request is on its way when its context is over, however many wait for the
\* mutex and whoever gets it first.
THEOREM RequestsAlwaysInTime == Spec => []RequestsInTime
<1>1. Inv => RequestsInTime
  BY DEF Inv
<1> QED
  BY Invariance, <1>1, PTL
=============================================================================
