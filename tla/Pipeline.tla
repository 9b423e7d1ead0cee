------------------------------ MODULE Pipeline ------------------------------
(***************************************************************************)
(* The link-processing pipeline of internal/reader/processor.go: every     *)
(* accepted link becomes a job, one goroutine running ProcessURL, and the  *)
(* jobs share the page cache and the metadata ("body") cache.              *)
(*                                                                         *)
(*   queued -> readPage -> callMCP -> writePage      step fetch            *)
(*          -> readBody -> callLLM -> writeBody      step extract          *)
(*          -> save -> posted -> done                step save             *)
(*                                                                         *)
(* A job ends "done", "failed" (an error return) or "lost" (the process    *)
(* died).  Time is counted in ticks: age[j] is the time since the handler  *)
(* made j's pipeline context, left[j] what is left of the context of the   *)
(* step j is in, and every cache entry carries the life it has left, so no *)
(* clock has to be bounded.                                                *)
(***************************************************************************)
EXTENDS Naturals

CONSTANTS
    Jobs,             \* the goroutines that may be started, each at most once
    URLs,             \* the links, already trimmed
    Users,            \* WeCom members that send links
    NoUser,           \* the empty toUser of POST /url
    Locations,        \* Readwise locations a configuration may name
    Configs,          \* configurations a (re)start may find in the environment
    MaxVersion,       \* bound: how often an article is edited
    StepTimeout,      \* params.StepTimeout, in ticks
    PipelineTimeout,  \* params.PipelineTimeout, in ticks
    CacheTTL,         \* REDIS_TTL_SECONDS, in ticks
    Nil,              \* no page, no document, no cache entry
    NoURL,            \* a document without its url field
    NoHTML,           \* an empty html field
    Untrusted         \* whatever the LLM put in html or location

Config == [mcp: BOOLEAN, tool: BOOLEAN, redis: BOOLEAN, llm: BOOLEAN,
           token: BOOLEAN, notifier: BOOLEAN, location: Locations]

\* A fetched page.  Its HTML is named by the version of the article it shows;
\* full says that the metadata the MCP tool sent along has no empty field.
Pages == [url: URLs, ver: 0..MaxVersion, full: BOOLEAN]

\* A ReadwiseDocument.  from is the page its fields were extracted from, titled
\* says that the fields with a fallback (title, author, date) are filled.
Docs == [url: URLs \cup {NoURL}, from: Pages, titled: BOOLEAN,
         location: Locations \cup {Untrusted},
         html: Pages \cup {NoHTML, Untrusted}]

Entries(V) == [val: V, life: 1..CacheTTL]

\* bound: how far the time since an edit is counted, beyond what is remembered
Horizon == 3 * StepTimeout + 2 * CacheTTL - 1

\* An article: its version, and the time since the edit that made it.
Articles == [ver: 0..MaxVersion, quiet: 0..Horizon]

ASSUME TimeAssumption == /\ StepTimeout \in Nat \ {0}
                         /\ PipelineTimeout \in Nat \ {0}
                         /\ CacheTTL \in Nat \ {0}
                         /\ MaxVersion \in Nat
ASSUME ConfigAssumption == Configs \subseteq Config /\ Configs # {}
ASSUME NullAssumption == /\ NoUser \notin Users
                         /\ NoURL \notin URLs
                         /\ Untrusted \notin Locations
                         /\ NoHTML # Untrusted
                         /\ {NoHTML, Untrusted} \cap Pages = {}
                         /\ Nil \notin Pages \cup Docs
                         /\ Nil \notin Entries(Pages) \cup Entries(Docs)

VARIABLES
    cfg,        \* the configuration the running process read
    site,       \* site[u]: the article now published at u
    redisPage,  \* Redis, keys prefix:page:hash(url)
    redisBody,  \* Redis, keys prefix:body:hash(url)
    filePage,   \* READER_CACHE_DIR/hash(url).page.json
    pc, url, user,          \* the jobs: where they are, link and member
    page, doc, age, left,   \* the jobs' local variables and contexts
    post,       \* post[j]: the document j sent to Readwise
    answer,     \* answer[j]: what Readwise did with it
    notify      \* notify[j]: the goroutine that tells j's user

caches == <<redisPage, redisBody, filePage>>
link == <<url, user>>
locals == <<page, doc, age, left>>
save == <<post, answer>>
vars == <<cfg, site, caches, pc, link, locals, save, notify>>

FetchPcs   == {"readPage", "callMCP", "writePage"}
ExtractPcs == {"readBody", "callLLM", "writeBody"}
SavePcs    == {"save", "posted"}
StepPcs    == FetchPcs \cup ExtractPcs \cup SavePcs
Running    == {"queued"} \cup StepPcs
Ended      == {"done", "failed", "lost"}

Init ==
    /\ cfg \in Configs
    /\ site = [u \in URLs |-> [ver |-> 0, quiet |-> Horizon]]
    /\ redisPage = [u \in URLs |-> Nil]
    /\ redisBody = [u \in URLs |-> Nil]
    /\ filePage = [u \in URLs |-> Nil]
    /\ pc = [j \in Jobs |-> "idle"]
    /\ url = [j \in Jobs |-> NoURL]
    /\ user = [j \in Jobs |-> NoUser]
    /\ page = [j \in Jobs |-> Nil]
    /\ doc = [j \in Jobs |-> Nil]
    /\ age = [j \in Jobs |-> 0]
    /\ left = [j \in Jobs |-> 0]
    /\ post = [j \in Jobs |-> Nil]
    /\ answer = [j \in Jobs |-> "none"]
    /\ notify = [j \in Jobs |-> "none"]

-----------------------------------------------------------------------------
\* context.WithTimeout(ctx, params.StepTimeout): a step's context never
\* outlives the pipeline context it is derived from.  UncappedBudget: a context
\* derived from context.Background() instead.
UncappedBudget(a) == StepTimeout

StepBudget(a) == IF StepTimeout < PipelineTimeout - a THEN StepTimeout
                                                      ELSE PipelineTimeout - a

Goto(j, to) == pc' = [pc EXCEPT ![j] = to]
StartStep(j, to) == /\ Goto(j, to)
                    /\ left' = [left EXCEPT ![j] = StepBudget(age[j])]

\* The goroutines of the jobs in S are gone, with their variables.
Drop(S) ==
    /\ page' = [j \in Jobs |-> IF j \in S THEN Nil ELSE page[j]]
    /\ doc' = [j \in Jobs |-> IF j \in S THEN Nil ELSE doc[j]]
    /\ age' = [j \in Jobs |-> IF j \in S THEN 0 ELSE age[j]]
    /\ left' = [j \in Jobs |-> IF j \in S THEN 0 ELSE left[j]]

Fail(j) == Goto(j, "failed") /\ Drop({j})

\* A handler accepted link u from member w and starts the goroutine.
Spawn(j, u, w) ==
    /\ pc[j] = "idle"
    /\ Goto(j, "queued")
    /\ url' = [url EXCEPT ![j] = u]
    /\ user' = [user EXCEPT ![j] = w]
    /\ UNCHANGED <<cfg, site, caches, locals, save, notify>>

\* ProcessURL enters the fetch step; without MCP_HTTP_URL fetchPage returns
\* before it looks at the cache.
Begin(j) ==
    /\ pc[j] = "queued"
    /\ \/ cfg.mcp /\ StartStep(j, "readPage") /\ UNCHANGED <<page, doc, age>>
       \/ ~cfg.mcp /\ Fail(j)
    /\ UNCHANGED <<cfg, site, caches, link, save, notify>>

-----------------------------------------------------------------------------
\* tryReadPageCache.  With Redis on the files are never read.  Redis answers
\* only while the step's context lives; a file is read whatever the context.
CachedPage(j) ==
    IF cfg.redis
    THEN IF left[j] = 0 \/ redisPage[url[j]] = Nil THEN Nil
                                                   ELSE redisPage[url[j]].val
    ELSE filePage[url[j]]

\* Any error while reading (Redis down, file torn) counts as a miss.
ReadPage(j) ==
    /\ pc[j] = "readPage"
    /\ \/ /\ CachedPage(j) # Nil
          /\ page' = [page EXCEPT ![j] = CachedPage(j)]
          /\ StartStep(j, "readBody")
       \/ /\ Goto(j, "callMCP")
          /\ UNCHANGED <<page, left>>
    /\ UNCHANGED <<cfg, site, caches, link, doc, age, save, notify>>

\* The MCP server scraped the article as it is now and the answer arrived.
FetchPage(j) ==
    /\ pc[j] = "callMCP"
    /\ cfg.tool
    /\ left[j] > 0
    /\ \E full \in BOOLEAN :
          page' = [page EXCEPT ![j] =
                      [url |-> url[j], ver |-> site[url[j]].ver, full |-> full]]
    /\ Goto(j, "writePage")
    /\ UNCHANGED <<cfg, site, caches, link, doc, age, left, save, notify>>

\* writePageCache: best effort, into Redis or into the file, never both.
StorePage(j) ==
    \/ /\ cfg.redis /\ left[j] > 0
       /\ redisPage' = [redisPage EXCEPT ![url[j]] =
                            [val |-> page[j], life |-> CacheTTL]]
       /\ UNCHANGED <<redisBody, filePage>>
    \/ /\ ~cfg.redis
       /\ filePage' = [filePage EXCEPT ![url[j]] = page[j]]
       /\ UNCHANGED <<redisPage, redisBody>>
    \/ UNCHANGED caches

WritePage(j) ==
    /\ pc[j] = "writePage"
    /\ StorePage(j)
    /\ StartStep(j, "readBody")
    /\ UNCHANGED <<cfg, site, link, page, doc, age, save, notify>>

-----------------------------------------------------------------------------
\* tryReadMetaCache: Redis only, by the URL of the page.
CachedDoc(j) ==
    IF cfg.redis /\ left[j] > 0 /\ redisBody[page[j].url] # Nil
    THEN redisBody[page[j].url].val ELSE Nil

\* What ProcessURL does to every document, cached or not: it restores the HTML
\* and overrides the location, which the LLM is not trusted with.
\* WithHTML and WithLocation: only the one or the other.
WithHTML(d, p)     == [d EXCEPT !.html = p]
WithLocation(d, p) == [d EXCEPT !.location = cfg.location]

CompleteDoc(d, p) == [d EXCEPT !.html = p, !.location = cfg.location]

\* A hit goes straight to the save step; a miss needs the LLM to be configured.
ReadBody(j) ==
    /\ pc[j] = "readBody"
    /\ \/ /\ CachedDoc(j) # Nil
          /\ doc' = [doc EXCEPT ![j] = CompleteDoc(CachedDoc(j), page[j])]
          /\ StartStep(j, "save")
          /\ UNCHANGED <<page, age>>
       \/ cfg.llm /\ Goto(j, "callLLM") /\ UNCHANGED locals
       \/ ~cfg.llm /\ Fail(j)
    /\ UNCHANGED <<cfg, site, caches, link, save, notify>>

\* The LLM answered with JSON about page p.  Its url may be missing or wrong; a
\* field it left empty is filled from the page's metadata.  RawExtracted: the
\* answer before those fallbacks.
RawExtracted(p, u, titled) ==
    [url |-> u, from |-> p, titled |-> titled,
     location |-> Untrusted, html |-> Untrusted]

Extracted(p, u, titled) ==
    [url |-> u, from |-> p, titled |-> titled \/ p.full,
     location |-> Untrusted, html |-> Untrusted]

AskLLM(j) ==
    /\ pc[j] = "callLLM"
    /\ left[j] > 0
    /\ \E u \in URLs \cup {NoURL}, titled \in BOOLEAN :
          doc' = [doc EXCEPT ![j] = Extracted(page[j], u, titled)]
    /\ Goto(j, "writeBody")
    /\ UNCHANGED <<cfg, site, caches, link, page, age, left, save, notify>>

\* writeMetaCache, which clears the html of the document the job goes on with.
\* SharedDoc: without the clearing.
SharedDoc(d) == d
ForCache(d) == IF cfg.redis THEN [d EXCEPT !.html = NoHTML] ELSE d

WriteBody(j) ==
    /\ pc[j] = "writeBody"
    /\ \/ /\ cfg.redis /\ left[j] > 0
          /\ redisBody' = [redisBody EXCEPT ![page[j].url] =
                               [val |-> ForCache(doc[j]), life |-> CacheTTL]]
       \/ UNCHANGED redisBody
    /\ doc' = [doc EXCEPT ![j] = CompleteDoc(ForCache(doc[j]), page[j])]
    /\ StartStep(j, "save")
    /\ UNCHANGED <<cfg, site, redisPage, filePage, link, page, age, save, notify>>

-----------------------------------------------------------------------------
\* saveToReadwise sends the document, unless the token is missing; hc.Do sends
\* nothing under a context that has expired.
PostDoc(j) ==
    /\ pc[j] = "save"
    /\ \/ /\ cfg.token
          /\ left[j] > 0
          /\ Goto(j, "posted")
          /\ post' = [post EXCEPT ![j] = doc[j]]
          /\ answer' = [answer EXCEPT ![j] = "awaited"]
          /\ UNCHANGED locals
       \/ ~cfg.token /\ Fail(j) /\ UNCHANGED save
    /\ UNCHANGED <<cfg, site, caches, link, notify>>

\* Readwise handles a document it received, be the job still waiting or not.
Answer(j, a) ==
    /\ answer[j] = "awaited"
    /\ answer' = [answer EXCEPT ![j] = a]
    /\ UNCHANGED <<cfg, site, caches, pc, link, locals, post, notify>>

ReadwiseSaves(j)   == Answer(j, "saved") /\ post[j].url # NoURL
ReadwiseRefuses(j) == Answer(j, "refused")

\* Any answer is taken for a success.
Answered(j) == answer[j] \in {"saved", "refused"}

\* A 2xx status arrived: the job is done, and starts the notification when the
\* link came from a member and the notifier is configured.
Accepted(j) == answer[j] = "saved"
MustNotify(j) == user[j] # NoUser /\ cfg.notifier

SaveReturns(j) ==
    /\ pc[j] = "posted"
    /\ Accepted(j)
    /\ Goto(j, "done")
    /\ Drop({j})
    /\ notify' = [notify EXCEPT ![j] = IF MustNotify(j) THEN "pending" ELSE "none"]
    /\ UNCHANGED <<cfg, site, caches, link, save>>

-----------------------------------------------------------------------------
\* A remote call that returns an error (refused, reset, unparsable answer) ends
\* the job.  WaitingButLLM: an LLM client that is not given the context.
WaitingButLLM == {"callMCP", "save", "posted"}
Waiting == {"callMCP", "callLLM", "save", "posted"}

CallFails(j) ==
    /\ pc[j] \in Waiting \ {"save"}
    /\ Fail(j)
    /\ UNCHANGED <<cfg, site, caches, link, save, notify>>

\* The save is tried again instead.
TimeOutThenRetry(j) ==
    /\ pc[j] \in Waiting
    /\ left[j] = 0
    /\ \/ pc[j] = "posted" /\ StartStep(j, "save") /\ UNCHANGED <<page, doc, age>>
       \/ Fail(j)
    /\ UNCHANGED <<cfg, site, caches, link, save, notify>>

\* The step's context expired: the call it was given to returns its error.
TimeOut(j) ==
    /\ pc[j] \in Waiting
    /\ left[j] = 0
    /\ Fail(j)
    /\ UNCHANGED <<cfg, site, caches, link, save, notify>>

\* SendTextCard returned; its context is its own (15s), not the job's.
Notify(j) ==
    /\ notify[j] = "pending"
    /\ \E r \in {"sent", "failed"} : notify' = [notify EXCEPT ![j] = r]
    /\ UNCHANGED <<cfg, site, caches, pc, link, locals, save>>

-----------------------------------------------------------------------------
\* The process dies and starts again, maybe configured otherwise.  Goroutines
\* are gone; Redis, files and requests on their way to Readwise are not.
Restart ==
    /\ cfg' \in Configs
    /\ pc' = [j \in Jobs |-> IF pc[j] \in Running THEN "lost" ELSE pc[j]]
    /\ Drop(Jobs)
    /\ notify' = [j \in Jobs |-> IF notify[j] = "pending" THEN "failed"
                                                           ELSE notify[j]]
    /\ UNCHANGED <<site, caches, link, save>>

\* The article at u is edited.
SiteChanges(u) ==
    /\ site[u].ver < MaxVersion
    /\ site' = [site EXCEPT ![u] = [ver |-> site[u].ver + 1, quiet |-> 0]]
    /\ UNCHANGED <<cfg, caches, pc, link, locals, save, notify>>

\* Entries set without a TTL; an expiry that comes one tick too late.
NeverAged(c) == c
AgedLate(c) == [u \in URLs |-> IF c[u] = Nil \/ c[u].life = 0 THEN Nil
                               ELSE [val |-> c[u].val, life |-> c[u].life - 1]]

\* Redis drops an entry whose TTL has run out.
Aged(c) == [u \in URLs |-> IF c[u] = Nil \/ c[u].life = 1 THEN Nil
                           ELSE [val |-> c[u].val, life |-> c[u].life - 1]]

Quieter(a) == [a EXCEPT !.quiet = IF a.quiet < Horizon THEN a.quiet + 1 ELSE a.quiet]

\* Time passes, but not over a context that has expired: whoever holds it
\* returns first.
Tick ==
    /\ \A j \in Jobs : /\ pc[j] \in StepPcs => left[j] > 0
                       /\ pc[j] = "queued" => age[j] < PipelineTimeout
    /\ age' = [j \in Jobs |-> IF pc[j] \in Running THEN age[j] + 1 ELSE age[j]]
    /\ left' = [j \in Jobs |-> IF pc[j] \in StepPcs THEN left[j] - 1 ELSE left[j]]
    /\ redisPage' = Aged(redisPage)
    /\ redisBody' = Aged(redisBody)
    /\ site' = [u \in URLs |-> Quieter(site[u])]
    /\ UNCHANGED <<cfg, filePage, pc, link, page, doc, save, notify>>

-----------------------------------------------------------------------------
\* What the goroutine of a job does by itself, however its peers behave.
JobStep(j) == \/ Begin(j) \/ ReadPage(j) \/ WritePage(j) \/ ReadBody(j)
              \/ WriteBody(j) \/ PostDoc(j) \/ TimeOut(j)

PeerStep(j) == \/ FetchPage(j) \/ AskLLM(j) \/ SaveReturns(j) \/ CallFails(j)
               \/ ReadwiseSaves(j) \/ ReadwiseRefuses(j)

Next ==
    \/ \E j \in Jobs, u \in URLs, w \in Users \cup {NoUser} : Spawn(j, u, w)
    \/ \E j \in Jobs : JobStep(j) \/ PeerStep(j) \/ Notify(j)
    \/ \E u \in URLs : SiteChanges(u)
    \/ Restart
    \/ Tick

Spec == Init /\ [][Next]_vars

\* Goroutines that can run are run and time passes; no peer ever has to answer.
FairSpec ==
    /\ Spec
    /\ \A j \in Jobs : WF_vars(JobStep(j)) /\ WF_vars(Notify(j))
    /\ WF_vars(Tick)

-----------------------------------------------------------------------------
\* Every variable has its type.
TypeOK ==
    /\ cfg \in Configs
    /\ site \in [URLs -> Articles]
    /\ redisPage \in [URLs -> Entries(Pages) \cup {Nil}]
    /\ redisBody \in [URLs -> Entries(Docs) \cup {Nil}]
    /\ filePage \in [URLs -> Pages \cup {Nil}]
    /\ pc \in [Jobs -> {"idle"} \cup Running \cup Ended]
    /\ url \in [Jobs -> URLs \cup {NoURL}]
    /\ user \in [Jobs -> Users \cup {NoUser}]
    /\ page \in [Jobs -> Pages \cup {Nil}]
    /\ doc \in [Jobs -> Docs \cup {Nil}]
    /\ age \in [Jobs -> 0..PipelineTimeout]
    /\ left \in [Jobs -> 0..StepTimeout]
    /\ post \in [Jobs -> Docs \cup {Nil}]
    /\ answer \in [Jobs -> {"none", "awaited", "saved", "refused"}]
    /\ notify \in [Jobs -> {"none", "pending", "sent", "failed"}]

\* What the cache holds for a link is about that link: jobs for different links
\* never feed each other.  The cached document carries no HTML, and it has every
\* field the metadata of its page could fill, so that a later hit loses nothing.
CachesKeyed ==
    \A u \in URLs :
        /\ redisPage[u] # Nil => redisPage[u].val.url = u
        /\ filePage[u] # Nil => filePage[u].url = u
        /\ redisBody[u] # Nil => LET d == redisBody[u].val IN
                                 /\ d.from.url = u
                                 /\ d.html = NoHTML
                                 /\ d.from.full => d.titled

\* Whatever the cache held, and whatever configuration it was filled under, the
\* document about to be saved has the HTML this job fetched, fields extracted
\* from a page of this job's link, and the location this process is set to.
DocsReady ==
    \A j \in Jobs :
        pc[j] \in SavePcs => /\ doc[j].html = page[j]
                             /\ page[j].url = url[j]
                             /\ doc[j].from.url = url[j]
                             /\ doc[j].location = cfg.location

\* The three step timeouts together exceed the pipeline's: no job outlives the
\* pipeline's, and none waits in a step longer than what is left of it.
OnTime ==
    \A j \in Jobs : pc[j] \in Running => age[j] + left[j] <= PipelineTimeout

\* A card goes out only for an article Readwise reported saved, to the member
\* that sent the link; a link from POST /url has nobody to tell.
CardsOnlyForSaved ==
    \A j \in Jobs : notify[j] # "none" => /\ pc[j] = "done"
                                          /\ answer[j] = "saved"
                                          /\ user[j] \in Users

\* What Readwise gets for a job stays the article at the job's link, also when
\* the job gave up waiting or died meanwhile, and goes where a configuration
\* said, not where the LLM did.
PostedSound ==
    \A j \in Jobs : answer[j] # "none" => /\ post[j].html \in Pages
                                          /\ post[j].html.url = url[j]
                                          /\ post[j].from.url = url[j]
                                          /\ post[j].location \in Locations

\* What holds of the jobs' variables at each point of ProcessURL, and of their
\* requests to Readwise.  With the invariants above it is inductive.
WithPage == {"writePage"} \cup ExtractPcs \cup SavePcs
WithDoc  == {"writeBody"} \cup SavePcs

JobData ==
    \A j \in Jobs :
        /\ pc[j] # "idle" => url[j] \in URLs
        /\ pc[j] \in {"idle", "queued"} => left[j] = 0
        /\ pc[j] \in WithPage => page[j] \in Pages /\ page[j].url = url[j]
        /\ pc[j] \in WithDoc => /\ doc[j] \in Docs
                                /\ doc[j].from.url = url[j]
                                /\ doc[j].from.full => doc[j].titled

Requests ==
    \A j \in Jobs :
        /\ answer[j] # "none" => post[j] \in Docs
        /\ answer[j] # "none" <=> \/ pc[j] \in {"posted", "done"}
                                  \/ pc[j] \in {"failed", "lost"} /\ post[j] # Nil
        /\ answer[j] = "none" => post[j] = Nil
        /\ pc[j] = "done" => answer[j] = "saved"

Inv == /\ TypeOK /\ CachesKeyed /\ DocsReady /\ OnTime /\ CardsOnlyForSaved
       /\ PostedSound /\ JobData /\ Requests

\* ReadwiseDocument.URL, "Required: the URL of the article".
PostsArticleURL ==
    \A j \in Jobs : post[j] # Nil => post[j].url = url[j]

\* Every accepted link is dealt with: saved, failed or lost with the process,
\* though no peer ever has to answer.
EveryJobEnds == \A j \in Jobs : pc[j] = "queued" ~> pc[j] \in Ended

\* A document without its url, cached before Readwise could refuse it, makes
\* later jobs for the link fail, but only until the entry expires.
Poisoned(u) == redisBody[u] # Nil /\ redisBody[u].val.url = NoURL
PoisonExpires == \A u \in URLs : Poisoned(u) ~> ~Poisoned(u)

-----------------------------------------------------------------------------
\* What the sender of a link sees of the pipeline.
Status(j) == IF pc[j] = "idle" THEN "idle"
             ELSE IF pc[j] \in Running THEN "accepted"
             ELSE IF pc[j] = "done" THEN "finished" ELSE "abandoned"
StoredFor(j) == IF answer[j] = "saved" THEN post[j].html.url ELSE NoURL

Promise == INSTANCE Delivery WITH
    status <- [j \in Jobs |-> Status(j)],
    link <- url,
    sender <- user,
    stored <- [j \in Jobs |-> StoredFor(j)],
    told <- {j \in Jobs : notify[j] = "sent"}

\* The pipeline keeps the promise: a link is finished once and only with its own
\* article at Readwise, which gets it at most once per acceptance, and a card
\* follows only that.
KeepsPromise == Promise!Spec
=============================================================================
