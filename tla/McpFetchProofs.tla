--------------------------- MODULE McpFetchProofs ---------------------------
(***************************************************************************)
(* Proofs about McpFetch, for any number of fetches and edits.             *)
(***************************************************************************)
EXTENDS McpFetch, TLAPS

Inv == TypeOK /\ WiresSound /\ SessionsSound

LEMMA InitInv == Init => Inv
  BY VersionAssumption, NullAssumption
  DEF Init, Inv, TypeOK, WiresSound, SessionsSound, At, Tools, Pcs, Wires

\* Who is not in a range of versions.
LEMMA NoVersion == Failed \notin 0..MaxVersion /\ Nothing \notin 0..MaxVersion
  BY NullAssumption

\* An answer that waits to be taken is a page of the fetch's time, or none.
LEMMA AnswerInTime ==
  ASSUME Inv, NEW f \in Fetches, At(f, "call"), wire[f] = "result"
  PROVE  /\ Supported /\ since[f] \in 0..site
         /\ PageOf(result[f]) \in (since[f]..site) \cup {Failed}
         /\ PageOf(result[f]) \in (0..MaxVersion) \cup {Failed}
  <1>1. since[f] \in 0..MaxVersion /\ since[f] <= site /\ site \in 0..MaxVersion
    BY DEF Inv, TypeOK, WiresSound, At
  <1>2. result[f] \in [kind: {"page", "error", "malformed"}, ver: since[f]..site]
    BY DEF Inv, WiresSound
  <1>3. Supported
    BY DEF Inv, WiresSound
  <1> QED BY <1>1, <1>2, <1>3, VersionAssumption DEF PageOf

LEMMA ClientInv == ASSUME Inv, NEW f \in Fetches, Begin(f) \/ Client(f) PROVE Inv'
  <1> USE NoVersion, NullAssumption DEF Inv, TypeOK, WiresSound, SessionsSound, At, Goto, Put, Ends,
                        network, Pcs, Wires, Supported
  <1>1. CASE Begin(f)
    BY <1>1, VersionAssumption DEF Begin
  <1>2. CASE StartTransport(f)
    BY <1>2 DEF StartTransport
  <1>3. CASE CheckTool(f)
    BY <1>3 DEF CheckTool
  <1>4. CASE SessionArrives(f)
    BY <1>4 DEF SessionArrives
  <1>5. CASE CallTool(f)
    BY <1>5 DEF CallTool, client
  <1>6. CASE TakeResult(f)
    <2>1. PageOf(result[f]) \in (0..MaxVersion) \cup {Failed}
      BY <1>6, AnswerInTime DEF TakeResult
    <2> QED BY <1>6, <2>1 DEF TakeResult
  <1>7. CASE Fails(f)
    BY <1>7 DEF Fails
  <1>8. CASE Close(f)
    BY <1>8 DEF Close, Hears
  <1> QED BY <1>1, <1>2, <1>3, <1>4, <1>5, <1>6, <1>7, <1>8 DEF Client

LEMMA ServerInv ==
  ASSUME Inv, NEW f \in Fetches, Server(f) PROVE Inv'
  <1> USE NoVersion DEF Inv, TypeOK, WiresSound, SessionsSound, At, Put, client, Pcs,
                        Wires, Supported
  <1>1. CASE OpenSession(f)
    BY <1>1 DEF OpenSession
  <1>2. CASE RunTool(f)
    <2> PICK r \in Results : r.ver = site /\ result' = [result EXCEPT ![f] = r]
      BY <1>2 DEF RunTool
    <2>1. since[f] \in 0..MaxVersion /\ since[f] <= site
      BY <1>2 DEF RunTool
    <2>2. r \in [kind: {"page", "error", "malformed"}, ver: since[f]..site]
      BY <2>1, VersionAssumption DEF Results
    <2> QED BY <1>2, <2>2 DEF RunTool
  <1>3. CASE AcceptNotification(f)
    BY <1>3 DEF AcceptNotification
  <1> QED BY <1>1, <1>2, <1>3 DEF Server

LEMMA EditInv == ASSUME Inv, Edit PROVE Inv'
  <1> USE NoVersion, VersionAssumption DEF Inv, Edit, network, client
  <1>1. TypeOK' /\ SessionsSound'
    BY DEF TypeOK, SessionsSound, At, Supported
  <1>2. ASSUME NEW f \in Fetches, wire[f] = "result"
        PROVE  result[f] \in [kind: {"page", "error", "malformed"}, ver: since[f]..site']
    BY <1>2 DEF TypeOK, WiresSound
  <1>3. WiresSound'
    BY <1>2 DEF TypeOK, WiresSound, At, Supported
  <1> QED BY <1>1, <1>3

LEMMA InvStep == Inv /\ [Next]_vars => Inv'
  <1> SUFFICES ASSUME Inv, [Next]_vars PROVE Inv'
    OBVIOUS
  <1>1. CASE UNCHANGED vars
    BY <1>1 DEF Inv, TypeOK, WiresSound, SessionsSound, vars, network, client, At, Supported
  <1>2. CASE Next
    BY <1>2, ClientInv, ServerInv, EditInv DEF Next
  <1> QED BY <1>1, <1>2

\* Inv holds in every reachable state.
THEOREM Invariance == Spec => []Inv
  BY InitInv, InvStep, PTL DEF Spec

\* Every variable keeps its type.
THEOREM TypeCorrect == Spec => []TypeOK
  <1>1. Inv => TypeOK
    BY DEF Inv
  <1> QED BY Invariance, <1>1, PTL

\* No call without the session it was made in, no session left without a word.
THEOREM SessionsAlwaysSound == Spec => []SessionsSound
  <1>1. Inv => SessionsSound
    BY DEF Inv
  <1> QED BY Invariance, <1>1, PTL

\* A session with the MCP server is one fetch: what is returned is the article as
\* it was at some moment of the fetch.  The step that maps to Fetch's Succeed is
\* the one that takes the answer.
THEOREM SessionIsFetch == Spec => IsFetch
  <1>1. Init => F!Init
    BY DEF Init, F!Init, Supported
  <1>2. Inv /\ [Next]_vars => [F!Next]_F!vars
    <2> SUFFICES ASSUME Inv, [Next]_vars PROVE [F!Next]_F!vars
      OBVIOUS
    <2> USE DEF F!vars, F!Next, Supported, network, client, Goto, Put, Ends
    <2>1. ASSUME NEW f \in Fetches, Begin(f) PROVE F!Next
      BY <2>1 DEF Begin, F!Begin, Inv, WiresSound, At
    <2>2. ASSUME NEW f \in Fetches, pc[f] \in {"start", "check", "initialize", "notify", "call"}
          PROVE  F!Running(f)
      BY <2>2 DEF F!Running, Inv, TypeOK, WiresSound, At
    <2>3. ASSUME NEW f \in Fetches, TakeResult(f) PROVE F!Next
      <3>1. /\ F!Running(f) /\ Supported
            /\ PageOf(result[f]) \in (since[f]..site) \cup {Failed}
        BY <2>2, <2>3, AnswerInTime DEF TakeResult, At
      <3>2. F!Return(f, PageOf(result[f]))
        BY <2>3, <3>1 DEF TakeResult, F!Return
      <3> QED BY <3>1, <3>2 DEF F!Succeed
    <2>4. ASSUME NEW f \in Fetches, StartTransport(f) \/ CheckTool(f) \/ Fails(f)
          PROVE  [F!Next]_F!vars
      BY <2>2, <2>4 DEF StartTransport, CheckTool, Fails, At, F!Return
    <2>5. ASSUME NEW f \in Fetches, SessionArrives(f) \/ CallTool(f) \/ Close(f) \/ Server(f)
          PROVE  UNCHANGED F!vars
      BY <2>5 DEF SessionArrives, CallTool, Close, Server, OpenSession,
                     AcceptNotification, RunTool
    <2>6. CASE Edit
      BY <2>6 DEF Edit, F!Edit
    <2>7. CASE UNCHANGED vars
      BY <2>7 DEF vars
    <2> QED BY <2>1, <2>3, <2>4, <2>5, <2>6, <2>7 DEF Next, Client
  <1> QED BY <1>1, <1>2, Invariance, PTL DEF Spec, F!Spec, IsFetch
=============================================================================
