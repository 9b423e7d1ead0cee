------------------------------ MODULE McpFetch ------------------------------
(***************************************************************************)
(* FetchURL of internal/mcpclient/client.go: every fetch has a client and  *)
(* a session of its own with the MCP server.                               *)
(*                                                                         *)
(*   idle -> start -> check -> initialize -> notify -> call -> close       *)
(*                                                       -> returned       *)
(*                                                                         *)
(* cli.Initialize is two requests: initialize, whose answer brings the     *)
(* session, and the notification that the client is initialized.           *)
(* wire[f] is the request of f that is underway or its answer.  A request  *)
(* the client gave up on is still handled by the server; its answer finds  *)
(* nobody.  How long a request may take is left open: Fails stands for the *)
(* end of the step's context, of the transport's timeout, and of the       *)
(* connection.                                                             *)
(***************************************************************************)
EXTENDS Naturals

CONSTANTS
    Fetches,     \* calls of FetchURL, each once
    MaxVersion,  \* bound: how often the article is edited
    Failed,      \* an error return
    Nothing      \* no version, no outcome

ASSUME VersionAssumption == MaxVersion \in Nat
ASSUME NullAssumption == Failed # Nothing /\ {Failed, Nothing} \cap Nat = {}

VARIABLES
    tool,     \* MCP_TOOL_NAME: the supported one, it in capitals, another one
    site,     \* version of the article now published
    pc,       \* pc[f]: where FetchURL is
    wire,     \* wire[f]: what is between client and server
    sessions, \* the fetches whose sessions the server keeps
    known,    \* the fetches whose clients were given their session
    closed,   \* the fetches that told the server to end it
    result,   \* result[f]: what the tool answered
    since,    \* since[f]: the version published when f began
    outcome   \* outcome[f]: what FetchURL is about to return

network == <<wire, sessions, result>>
client == <<known, closed, since, outcome>>
vars == <<tool, site, pc, network, client>>

\* strings.ToLower(c.ToolName) == "scrape_wechat_article"
Tools == {"scrape", "SCRAPE", "other"}
Supported == tool \in {"scrape", "SCRAPE"}

Pcs == {"idle", "start", "check", "initialize", "notify", "call", "close", "returned"}
Wires == {"none", "initialize", "session", "initialized", "accepted", "call", "result"}

\* What a tool may answer: the article, an error, or content without text, JSON
\* or html.
Results == [kind: {"page", "error", "malformed"}, ver: 0..MaxVersion]

Init ==
    /\ tool \in Tools
    /\ site = 0
    /\ pc = [f \in Fetches |-> "idle"]
    /\ wire = [f \in Fetches |-> "none"]
    /\ sessions = {}
    /\ known = {}
    /\ closed = {}
    /\ result = [f \in Fetches |-> Nothing]
    /\ since = [f \in Fetches |-> Nothing]
    /\ outcome = [f \in Fetches |-> Nothing]

At(f, l) == pc[f] = l
Goto(f, l) == pc' = [pc EXCEPT ![f] = l]
Put(f, w) == wire' = [wire EXCEPT ![f] = w]
Ends(f, o) == outcome' = [outcome EXCEPT ![f] = o]

-----------------------------------------------------------------------------
\* The client.
Begin(f) ==
    /\ At(f, "idle")
    /\ Goto(f, "start")
    /\ since' = [since EXCEPT ![f] = site]
    /\ UNCHANGED <<tool, site, network, known, closed, outcome>>

\* NewStreamableHTTP and Start; when one fails there is nothing to close.
StartTransport(f) ==
    /\ At(f, "start")
    /\ \/ Goto(f, "check") /\ UNCHANGED outcome
       \/ Goto(f, "returned") /\ Ends(f, Failed)
    /\ UNCHANGED <<tool, site, network, known, closed, since>>

\* Only a supported tool gets a session.  AnyTool: whatever the server offers.
AnyTool(f) ==
    /\ At(f, "check")
    /\ Goto(f, "initialize") /\ Put(f, "initialize")
    /\ UNCHANGED <<tool, site, sessions, result, client>>

CheckTool(f) ==
    /\ At(f, "check")
    /\ \/ /\ Supported
          /\ Goto(f, "initialize") /\ Put(f, "initialize")
          /\ UNCHANGED outcome
       \/ /\ ~Supported
          /\ Goto(f, "close") /\ Ends(f, Failed)
          /\ UNCHANGED wire
    /\ UNCHANGED <<tool, site, sessions, result, known, closed, since>>

\* Initialize: the session arrived, and the server is notified.
SessionArrives(f) ==
    /\ At(f, "initialize") /\ wire[f] = "session"
    /\ known' = known \cup {f}
    /\ Goto(f, "notify") /\ Put(f, "initialized")
    /\ UNCHANGED <<tool, site, sessions, result, closed, since, outcome>>

\* Initialize returned; CallTool sends its request.
CallTool(f) ==
    /\ At(f, "notify") /\ wire[f] = "accepted"
    /\ Goto(f, "call") /\ Put(f, "call")
    /\ UNCHANGED <<tool, site, sessions, result, client>>

\* extractPageFromWechatScraper: the html of the answer, or an error.  NilPage:
\* for a malformed answer neither, which ProcessURL would take for a page.
NilPage(r) == IF r.kind = "page" THEN r.ver
              ELSE IF r.kind = "error" THEN Failed ELSE Nothing

PageOf(r) == IF r.kind = "page" THEN r.ver ELSE Failed

\* A page is returned as it was answered.  TakeAny: the answer to any fetch.
TakeAny(f) ==
    /\ At(f, "call") /\ wire[f] = "result"
    /\ \E g \in Fetches : result[g] # Nothing /\ Ends(f, PageOf(result[g]))
    /\ Goto(f, "close") /\ Put(f, "none")
    /\ UNCHANGED <<tool, site, sessions, result, known, closed, since>>

TakeResult(f) ==
    /\ At(f, "call") /\ wire[f] = "result"
    /\ Ends(f, PageOf(result[f]))
    /\ Goto(f, "close") /\ Put(f, "none")
    /\ UNCHANGED <<tool, site, sessions, result, known, closed, since>>

\* Any of the three requests may fail, the last two with a session to close.
\* FailsInCall: Initialize without the step's context.
FailsInCall(f) ==
    /\ At(f, "call")
    /\ Ends(f, Failed)
    /\ Goto(f, "close")
    /\ UNCHANGED <<tool, site, network, known, closed, since>>

Fails(f) ==
    /\ pc[f] \in {"initialize", "notify", "call"}
    /\ Ends(f, Failed)
    /\ Goto(f, "close")
    /\ UNCHANGED <<tool, site, network, known, closed, since>>

\* The deferred Close ends the session if there is one, and the server hears of
\* it or not.  CloseIfPage: not deferred, but called before the page is returned.
Hears(f) == sessions' = sessions \ {f} \/ UNCHANGED sessions

CloseIfPage(f) ==
    /\ At(f, "close")
    /\ Goto(f, "returned")
    /\ \/ f \in known /\ outcome[f] # Failed /\ closed' = closed \cup {f} /\ Hears(f)
       \/ (f \notin known \/ outcome[f] = Failed) /\ UNCHANGED <<closed, sessions>>
    /\ UNCHANGED <<tool, site, wire, result, known, since, outcome>>

Close(f) ==
    /\ At(f, "close")
    /\ Goto(f, "returned")
    /\ \/ f \in known /\ closed' = closed \cup {f} /\ Hears(f)
       \/ f \notin known /\ UNCHANGED <<closed, sessions>>
    /\ UNCHANGED <<tool, site, wire, result, known, since, outcome>>

-----------------------------------------------------------------------------
\* The server, and the article's author.
OpenSession(f) ==
    /\ wire[f] = "initialize"
    /\ sessions' = sessions \cup {f}
    /\ Put(f, "session")
    /\ UNCHANGED <<tool, site, pc, result, client>>

AcceptNotification(f) ==
    /\ wire[f] = "initialized"
    /\ Put(f, "accepted")
    /\ UNCHANGED <<tool, site, pc, sessions, result, client>>

\* It knows its tools by their exact names, and calls by their sessions.
RunTool(f) ==
    /\ wire[f] = "call"
    /\ \E r \in Results :
          /\ r.ver = site
          /\ r.kind = "page" => tool = "scrape" /\ f \in sessions
          /\ result' = [result EXCEPT ![f] = r]
    /\ Put(f, "result")
    /\ UNCHANGED <<tool, site, pc, sessions, client>>

Edit ==
    /\ site < MaxVersion
    /\ site' = site + 1
    /\ UNCHANGED <<tool, pc, network, client>>

-----------------------------------------------------------------------------
Server(f) == OpenSession(f) \/ AcceptNotification(f) \/ RunTool(f)

Client(f) == \/ StartTransport(f) \/ CheckTool(f) \/ SessionArrives(f) \/ CallTool(f)
             \/ TakeResult(f) \/ Fails(f) \/ Close(f)

Next ==
    \/ \E f \in Fetches : Begin(f) \/ Client(f) \/ Server(f)
    \/ Edit

Spec == Init /\ [][Next]_vars

\* The client goes on, and its requests end with an answer or in time; the server
\* may never answer.
FairSpec == Spec /\ \A f \in Fetches : WF_vars(Client(f))

-----------------------------------------------------------------------------
\* Every variable has its type; what is returned is a page or an error.
TypeOK ==
    /\ tool \in Tools
    /\ site \in 0..MaxVersion
    /\ pc \in [Fetches -> Pcs]
    /\ wire \in [Fetches -> Wires]
    /\ sessions \subseteq Fetches
    /\ known \subseteq Fetches
    /\ closed \subseteq Fetches
    /\ result \in [Fetches -> Results \cup {Nothing}]
    /\ since \in [Fetches -> (0..MaxVersion) \cup {Nothing}]
    /\ outcome \in [Fetches -> (0..MaxVersion) \cup {Failed, Nothing}]
    /\ \A f \in Fetches : outcome[f] # Nothing <=> pc[f] \in {"close", "returned"}

\* A session is used from its beginning to its end: from the notification to the
\* tool's answer the server keeps it, and a fetch that returned, with a page or
\* because any of its requests failed, left none it knew of without telling it.
SessionsSound ==
    \A f \in Fetches :
        /\ pc[f] \in {"notify", "call"} => f \in sessions
        /\ At(f, "returned") /\ f \in known => f \in closed
        /\ f \in sessions => Supported

\* What makes SessionsSound and the refinement inductive.
WiresSound ==
    \A f \in Fetches :
        /\ At(f, "idle") <=> since[f] = Nothing
        /\ since[f] # Nothing => since[f] <= site
        /\ pc[f] \in {"idle", "start", "check"} => wire[f] = "none"
        /\ At(f, "initialize") => f \notin known
        /\ wire[f] # "none" => Supported
        /\ wire[f] = "session" /\ At(f, "initialize") => f \in sessions
        /\ At(f, "notify") => f \in known /\ wire[f] \in {"initialized", "accepted"}
        /\ At(f, "call") => f \in known /\ wire[f] \in {"call", "result"}
        /\ f \in known => pc[f] \in {"notify", "call", "close", "returned"} /\ Supported
        /\ wire[f] = "result" => result[f] \in [kind: {"page", "error", "malformed"},
                                                ver: since[f]..site]

\* Every fetch returns, though the server may answer nothing.
FetchReturns == \A f \in Fetches : At(f, "start") ~> At(f, "returned")

\* The session implements the one step that Pipeline takes for it.
F == INSTANCE Fetch WITH supported <- Supported
IsFetch == F!Spec
=============================================================================
