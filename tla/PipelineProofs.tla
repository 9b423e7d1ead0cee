--------------------------- MODULE PipelineProofs ---------------------------
(***************************************************************************)
(* The safety invariants of Pipeline, for any set of jobs, links, members  *)
(* and configurations and any timeouts.  The inductive invariant is Inv.   *)
(***************************************************************************)
EXTENDS Pipeline, TLAPS

\* The time since an edit stays within its bound.
LEMMA ArticlesQuieter ==
    /\ Horizon \in Nat
    /\ \A a \in Articles : /\ Quieter(a) \in Articles
                           /\ Quieter(a).ver = a.ver
                           /\ Quieter(a).quiet \in {a.quiet, a.quiet + 1}
<1>1. Horizon \in Nat
  BY TimeAssumption DEF Horizon
<1> QED
  BY <1>1 DEF Articles, Quieter

\* A step's context fits into what is left of the pipeline's.
LEMMA BudgetFits ==
    ASSUME NEW a \in 0..PipelineTimeout
    PROVE  StepBudget(a) \in 0..StepTimeout /\ a + StepBudget(a) <= PipelineTimeout
BY TimeAssumption DEF StepBudget

\* A document completed for the save has the page's HTML and the configured
\* location, and nothing else of it changed.
LEMMA CompleteDocType ==
    ASSUME cfg \in Configs, NEW d \in Docs, NEW p \in Pages
    PROVE  LET c == CompleteDoc(d, p) IN
           /\ c \in Docs
           /\ c.html = p /\ c.location = cfg.location
           /\ c.from = d.from /\ c.titled = d.titled /\ c.url = d.url
<1>1. cfg.location \in Locations
  BY ConfigAssumption DEF Config
<1> QED
  BY <1>1 DEF CompleteDoc, Docs

\* A document on its way to the cache loses its HTML in Redis mode only.
LEMMA ForCacheType ==
    ASSUME NEW d \in Docs
    PROVE  LET c == ForCache(d) IN
           /\ c \in Docs
           /\ c.from = d.from /\ c.titled = d.titled /\ c.url = d.url
           /\ cfg.redis => c.html = NoHTML
BY DEF ForCache, Docs

\* What the LLM answered is a document, with the fallbacks filled.
LEMMA ExtractedType ==
    ASSUME NEW p \in Pages, NEW u \in URLs \cup {NoURL}, NEW t \in BOOLEAN
    PROVE  LET d == Extracted(p, u, t) IN
           d \in Docs /\ d.from = p /\ (p.full => d.titled)
<1>1. p.full \in BOOLEAN
  BY DEF Pages
<1>2. (t \/ p.full) \in BOOLEAN
  OBVIOUS
<1> QED
  BY <1>1, <1>2 DEF Extracted, Docs

\* A cache that ages keeps its type, and every entry left is an older one.
LEMMA AgedType ==
    ASSUME NEW V, Nil \notin Entries(V), NEW c \in [URLs -> Entries(V) \cup {Nil}]
    PROVE  /\ Aged(c) \in [URLs -> Entries(V) \cup {Nil}]
           /\ \A u \in URLs : Aged(c)[u] # Nil => /\ c[u] # Nil
                                                  /\ Aged(c)[u].val = c[u].val
<1>1. SUFFICES ASSUME NEW u \in URLs
               PROVE  /\ Aged(c)[u] \in Entries(V) \cup {Nil}
                      /\ Aged(c)[u] # Nil => c[u] # Nil /\ Aged(c)[u].val = c[u].val
  BY DEF Aged
<1>2. CASE c[u] = Nil \/ c[u].life = 1
  BY <1>2 DEF Aged
<1>3. CASE c[u] # Nil /\ c[u].life # 1
  <2>1. c[u] \in Entries(V)
    BY <1>3
  <2>2. c[u].val \in V /\ c[u].life \in 1..CacheTTL
    BY <2>1 DEF Entries
  <2>3. c[u].life - 1 \in 1..CacheTTL
    BY <2>2, <1>3, TimeAssumption
  <2>4. Aged(c)[u] = [val |-> c[u].val, life |-> c[u].life - 1]
    BY <1>3 DEF Aged
  <2>5. Aged(c)[u] \in Entries(V)
    BY <2>2, <2>3, <2>4 DEF Entries
  <2> QED
    BY <1>3, <2>4, <2>5
<1> QED
  BY <1>2, <1>3

-----------------------------------------------------------------------------
\* Init has no jobs and empty caches.
LEMMA InitInv == Init => Inv
<1> SUFFICES ASSUME Init PROVE Inv
  OBVIOUS
<1>1. TypeOK
  <2>1. [ver |-> 0, quiet |-> Horizon] \in Articles
    BY TimeAssumption, ArticlesQuieter DEF Articles
  <2> QED
    BY <2>1, TimeAssumption DEF Init, TypeOK
<1>2. CachesKeyed /\ DocsReady /\ OnTime /\ CardsOnlyForSaved
  BY DEF Init, CachesKeyed, DocsReady, OnTime, CardsOnlyForSaved, SavePcs,
         Running, StepPcs, FetchPcs, ExtractPcs
<1>3. PostedSound /\ JobData /\ Requests
  BY DEF Init, PostedSound, JobData, Requests, WithPage, WithDoc, ExtractPcs, SavePcs
<1> QED
  BY <1>1, <1>2, <1>3 DEF Inv

\* A new job has no page, no document and no request.
LEMMA SpawnInv ==
    ASSUME Inv, NEW j \in Jobs, NEW u \in URLs, NEW w \in Users \cup {NoUser},
           Spawn(j, u, w)
    PROVE  Inv'
<1> USE DEF Inv, TypeOK, Spawn, Goto, caches, locals, save,
            Running, StepPcs, FetchPcs, ExtractPcs, SavePcs, Ended
<1>1. TypeOK' /\ CachesKeyed'
  BY DEF CachesKeyed
<1>2. DocsReady' /\ OnTime' /\ CardsOnlyForSaved'
  BY DEF DocsReady, OnTime, CardsOnlyForSaved, JobData
<1>3. PostedSound' /\ JobData' /\ Requests'
  BY DEF PostedSound, JobData, Requests, WithPage, WithDoc
<1> QED
  BY <1>1, <1>2, <1>3

\* A job that ends leaves its request and its link behind, and nothing else.
LEMMA FailInv ==
    ASSUME Inv, NEW j \in Jobs, pc[j] \in Running, Fail(j),
           UNCHANGED <<cfg, site, caches, link, save, notify>>
    PROVE  Inv'
<1> USE DEF Inv, TypeOK, Fail, Drop, Goto, caches, link, save,
            Running, StepPcs, FetchPcs, ExtractPcs, SavePcs, Ended
<1>1. TypeOK' /\ CachesKeyed'
  BY TimeAssumption DEF CachesKeyed
<1>2. DocsReady' /\ OnTime' /\ CardsOnlyForSaved'
  BY DEF DocsReady, OnTime, CardsOnlyForSaved
<1>3. PostedSound' /\ JobData' /\ Requests'
  BY NullAssumption DEF PostedSound, JobData, Requests, WithPage, WithDoc
<1> QED
  BY <1>1, <1>2, <1>3

\* The fetch step gets its own context.
LEMMA BeginInv == ASSUME Inv, NEW j \in Jobs, Begin(j) PROVE Inv'
<1>1. CASE ~cfg.mcp /\ Fail(j)
  BY <1>1, FailInv DEF Begin, Running
<1>2. CASE cfg.mcp /\ StartStep(j, "readPage") /\ UNCHANGED <<page, doc, age>>
  <2> USE <1>2 DEF Inv, TypeOK, Begin, StartStep, Goto, caches, link, save,
                   Running, StepPcs, FetchPcs, ExtractPcs, SavePcs, Ended
  <2>1. /\ StepBudget(age[j]) \in 0..StepTimeout
        /\ age[j] + StepBudget(age[j]) <= PipelineTimeout
    BY BudgetFits
  <2>2. TypeOK' /\ CachesKeyed'
    BY <2>1 DEF CachesKeyed
  <2>3. DocsReady' /\ OnTime' /\ CardsOnlyForSaved'
    BY <2>1 DEF DocsReady, OnTime, CardsOnlyForSaved
  <2>4. PostedSound' /\ JobData' /\ Requests'
    BY DEF PostedSound, JobData, Requests, WithPage, WithDoc
  <2> QED
    BY <2>2, <2>3, <2>4
<1> QED
  BY <1>1, <1>2 DEF Begin

\* A cached page is one of the job's link.
LEMMA ReadPageInv == ASSUME Inv, NEW j \in Jobs, ReadPage(j) PROVE Inv'
<1> USE DEF Inv, TypeOK, ReadPage, Goto, caches, link, save,
            Running, StepPcs, FetchPcs, ExtractPcs, SavePcs, Ended
<1>0. url[j] \in URLs
  BY DEF JobData
<1>1. CASE Goto(j, "callMCP") /\ UNCHANGED <<page, left>>
  <2>1. TypeOK' /\ CachesKeyed'
    BY <1>1 DEF CachesKeyed
  <2>2. DocsReady' /\ OnTime' /\ CardsOnlyForSaved'
    BY <1>1 DEF DocsReady, OnTime, CardsOnlyForSaved
  <2>3. PostedSound' /\ JobData' /\ Requests'
    BY <1>1 DEF PostedSound, JobData, Requests, WithPage, WithDoc
  <2> QED
    BY <2>1, <2>2, <2>3
<1>2. CASE /\ CachedPage(j) # Nil
           /\ page' = [page EXCEPT ![j] = CachedPage(j)]
           /\ StartStep(j, "readBody")
  <2> USE <1>2 DEF StartStep
  <2>1. CachedPage(j) \in Pages /\ CachedPage(j).url = url[j]
    BY <1>0 DEF CachedPage, CachesKeyed, Entries
  <2>2. /\ StepBudget(age[j]) \in 0..StepTimeout
        /\ age[j] + StepBudget(age[j]) <= PipelineTimeout
    BY BudgetFits
  <2>3. TypeOK' /\ CachesKeyed'
    BY <2>1, <2>2 DEF CachesKeyed
  <2>4. DocsReady' /\ OnTime' /\ CardsOnlyForSaved'
    BY <2>2 DEF DocsReady, OnTime, CardsOnlyForSaved
  <2>5. PostedSound' /\ JobData' /\ Requests'
    BY <2>1 DEF PostedSound, JobData, Requests, WithPage, WithDoc
  <2> QED
    BY <2>3, <2>4, <2>5
<1> QED
  BY <1>1, <1>2

\* The MCP server's page is about the link it was asked for.
LEMMA FetchPageInv == ASSUME Inv, NEW j \in Jobs, FetchPage(j) PROVE Inv'
<1> USE DEF Inv, TypeOK, FetchPage, Goto, caches, link, save,
            Running, StepPcs, FetchPcs, ExtractPcs, SavePcs, Ended
<1>1. PICK full \in BOOLEAN :
         page' = [page EXCEPT ![j] =
                     [url |-> url[j], ver |-> site[url[j]].ver, full |-> full]]
  OBVIOUS
<1>2. /\ [url |-> url[j], ver |-> site[url[j]].ver, full |-> full] \in Pages
      /\ page'[j] \in Pages /\ page'[j].url = url[j]
  <2>1. url[j] \in URLs /\ site[url[j]].ver \in 0..MaxVersion
    BY DEF JobData, Articles
  <2> QED
    BY <1>1, <2>1 DEF Pages
<1>3. TypeOK' /\ CachesKeyed'
  BY <1>1, <1>2 DEF CachesKeyed
<1>4. DocsReady' /\ OnTime' /\ CardsOnlyForSaved'
  BY <1>1 DEF DocsReady, OnTime, CardsOnlyForSaved
<1>5. PostedSound' /\ JobData' /\ Requests'
  BY <1>1, <1>2 DEF PostedSound, JobData, Requests, WithPage, WithDoc
<1> QED
  BY <1>3, <1>4, <1>5

\* The page goes where its link is looked up.
LEMMA WritePageInv == ASSUME Inv, NEW j \in Jobs, WritePage(j) PROVE Inv'
<1> USE DEF Inv, TypeOK, WritePage, StartStep, Goto, link, save,
            Running, StepPcs, FetchPcs, ExtractPcs, SavePcs, Ended
<1>1. url[j] \in URLs /\ page[j] \in Pages /\ page[j].url = url[j]
  BY DEF JobData, WithPage
<1>2. /\ StepBudget(age[j]) \in 0..StepTimeout
      /\ age[j] + StepBudget(age[j]) <= PipelineTimeout
  BY BudgetFits
<1>3. /\ redisPage' \in [URLs -> Entries(Pages) \cup {Nil}]
      /\ filePage' \in [URLs -> Pages \cup {Nil}]
      /\ redisBody' = redisBody
      /\ \A u \in URLs : /\ redisPage'[u] # Nil => redisPage'[u].val.url = u
                         /\ filePage'[u] # Nil => filePage'[u].url = u
  <2> DEFINE entry == [val |-> page[j], life |-> CacheTTL]
  <2>1. entry \in Entries(Pages) /\ entry.val.url = url[j]
    BY <1>1, TimeAssumption DEF Entries
  <2>2. CASE /\ redisPage' = [redisPage EXCEPT ![url[j]] = entry]
             /\ UNCHANGED <<redisBody, filePage>>
    <3> HIDE DEF entry
    <3> QED
      BY <1>1, <2>1, <2>2 DEF CachesKeyed
  <2>3. CASE /\ filePage' = [filePage EXCEPT ![url[j]] = page[j]]
             /\ UNCHANGED <<redisPage, redisBody>>
    BY <1>1, <2>3 DEF CachesKeyed
  <2>4. CASE UNCHANGED caches
    BY <2>4 DEF CachesKeyed, caches
  <2> QED
    BY <2>2, <2>3, <2>4 DEF StorePage
<1>4. TypeOK'
  BY <1>2, <1>3
<1>5. CachesKeyed'
  BY <1>3 DEF CachesKeyed
<1>6. DocsReady' /\ OnTime' /\ CardsOnlyForSaved'
  BY <1>2 DEF DocsReady, OnTime, CardsOnlyForSaved
<1>7. PostedSound' /\ JobData' /\ Requests'
  BY DEF PostedSound, JobData, Requests, WithPage, WithDoc
<1> QED
  BY <1>4, <1>5, <1>6, <1>7

\* A cached document is completed with this job's HTML and this process's
\* location; only a Redis process reads one.
LEMMA ReadBodyInv == ASSUME Inv, NEW j \in Jobs, ReadBody(j) PROVE Inv'
<1> USE DEF Inv, TypeOK, ReadBody, Goto, caches, link, save,
            Running, StepPcs, FetchPcs, ExtractPcs, SavePcs, Ended
<1>1. CASE ~cfg.llm /\ Fail(j)
  BY <1>1, FailInv
<1>2. CASE cfg.llm /\ Goto(j, "callLLM") /\ UNCHANGED locals
  <2> USE <1>2 DEF locals
  <2>1. TypeOK' /\ CachesKeyed'
    BY DEF CachesKeyed
  <2>2. DocsReady' /\ OnTime' /\ CardsOnlyForSaved'
    BY DEF DocsReady, OnTime, CardsOnlyForSaved
  <2>3. PostedSound' /\ JobData' /\ Requests'
    BY DEF PostedSound, JobData, Requests, WithPage, WithDoc
  <2> QED
    BY <2>1, <2>2, <2>3
<1>3. CASE /\ CachedDoc(j) # Nil
           /\ doc' = [doc EXCEPT ![j] = CompleteDoc(CachedDoc(j), page[j])]
           /\ StartStep(j, "save")
           /\ UNCHANGED <<page, age>>
  <2> DEFINE new == CompleteDoc(CachedDoc(j), page[j])
  <2>1. url[j] \in URLs /\ page[j] \in Pages /\ page[j].url = url[j]
    BY DEF JobData, WithPage
  <2>2. /\ CachedDoc(j) \in Docs /\ CachedDoc(j).from.url = url[j]
        /\ CachedDoc(j).from.full => CachedDoc(j).titled
        /\ cfg.redis
    BY <1>3, <2>1 DEF CachedDoc, CachesKeyed, Entries
  <2>3. /\ new \in Docs /\ new.from.url = url[j] /\ (new.from.full => new.titled)
        /\ new.html = page[j] /\ new.location = cfg.location
    BY <2>1, <2>2, CompleteDocType
  <2>4. /\ StepBudget(age[j]) \in 0..StepTimeout
        /\ age[j] + StepBudget(age[j]) <= PipelineTimeout
    BY BudgetFits
  <2>5. doc' = [doc EXCEPT ![j] = new]
    BY <1>3
  <2> HIDE DEF new
  <2> USE <1>3, <2>5 DEF StartStep
  <2>6. TypeOK' /\ CachesKeyed'
    BY <2>3, <2>4 DEF CachesKeyed
  <2>7. DocsReady' /\ OnTime' /\ CardsOnlyForSaved'
    BY <2>1, <2>3, <2>4 DEF DocsReady, OnTime, CardsOnlyForSaved
  <2>8. PostedSound' /\ JobData' /\ Requests'
    BY <2>2, <2>3 DEF PostedSound, JobData, Requests, WithPage, WithDoc
  <2> QED
    BY <2>6, <2>7, <2>8
<1> QED
  BY <1>1, <1>2, <1>3

\* The LLM's document is extracted from the job's page.
LEMMA AskLLMInv == ASSUME Inv, NEW j \in Jobs, AskLLM(j) PROVE Inv'
<1> USE DEF Inv, TypeOK, AskLLM, Goto, caches, link, save,
            Running, StepPcs, FetchPcs, ExtractPcs, SavePcs, Ended
<1>1. url[j] \in URLs /\ page[j] \in Pages /\ page[j].url = url[j]
  BY DEF JobData, WithPage
<1>2. PICK u \in URLs \cup {NoURL}, t \in BOOLEAN :
         doc' = [doc EXCEPT ![j] = Extracted(page[j], u, t)]
  OBVIOUS
<1> DEFINE new == Extracted(page[j], u, t)
<1>3. new \in Docs /\ new.from = page[j] /\ (new.from.full => new.titled)
  BY <1>1, ExtractedType
<1>4. doc' = [doc EXCEPT ![j] = new]
  BY <1>2
<1> HIDE DEF new
<1>5. TypeOK' /\ CachesKeyed'
  BY <1>3, <1>4 DEF CachesKeyed
<1>6. DocsReady' /\ OnTime' /\ CardsOnlyForSaved'
  BY <1>4 DEF DocsReady, OnTime, CardsOnlyForSaved
<1>7. PostedSound' /\ JobData' /\ Requests'
  BY <1>1, <1>3, <1>4 DEF PostedSound, JobData, Requests, WithPage, WithDoc
<1> QED
  BY <1>5, <1>6, <1>7

\* What is cached has no HTML; what the job goes on with has its own back.
LEMMA WriteBodyInv == ASSUME Inv, NEW j \in Jobs, WriteBody(j) PROVE Inv'
<1> USE DEF Inv, TypeOK, WriteBody, StartStep, Goto, link, save,
            Running, StepPcs, FetchPcs, ExtractPcs, SavePcs, Ended
<1> DEFINE cached == ForCache(doc[j])
           new == CompleteDoc(cached, page[j])
<1>1. /\ url[j] \in URLs /\ page[j] \in Pages /\ page[j].url = url[j]
      /\ doc[j] \in Docs /\ doc[j].from.url = url[j]
      /\ doc[j].from.full => doc[j].titled
  BY DEF JobData, WithPage, WithDoc
<1>2. /\ cached \in Docs /\ cached.from = doc[j].from
      /\ cached.titled = doc[j].titled
      /\ cfg.redis => cached.html = NoHTML
  BY <1>1, ForCacheType
<1>3. /\ new \in Docs /\ new.from = doc[j].from /\ new.titled = doc[j].titled
      /\ new.html = page[j] /\ new.location = cfg.location
  BY <1>1, <1>2, CompleteDocType
<1>4. doc' = [doc EXCEPT ![j] = new]
  OBVIOUS
<1>5. \/ /\ cfg.redis
         /\ redisBody' = [redisBody EXCEPT ![url[j]] = [val |-> cached, life |-> CacheTTL]]
      \/ redisBody' = redisBody
  BY <1>1
<1>6. /\ StepBudget(age[j]) \in 0..StepTimeout
      /\ age[j] + StepBudget(age[j]) <= PipelineTimeout
  BY BudgetFits
<1> HIDE DEF cached, new
<1>7. /\ redisBody' \in [URLs -> Entries(Docs) \cup {Nil}]
      /\ CachesKeyed'
  <2>1. [val |-> cached, life |-> CacheTTL] \in Entries(Docs)
    BY <1>2, TimeAssumption DEF Entries
  <2> QED
    BY <1>1, <1>2, <1>5, <2>1 DEF CachesKeyed
<1>8. TypeOK'
  BY <1>3, <1>4, <1>6, <1>7
<1>9. DocsReady' /\ OnTime' /\ CardsOnlyForSaved'
  BY <1>1, <1>3, <1>4, <1>6 DEF DocsReady, OnTime, CardsOnlyForSaved
<1>10. PostedSound' /\ JobData' /\ Requests'
  BY <1>1, <1>3, <1>4 DEF PostedSound, JobData, Requests, WithPage, WithDoc
<1> QED
  BY <1>7, <1>8, <1>9, <1>10

\* The document sent is the completed one.
LEMMA PostDocInv == ASSUME Inv, NEW j \in Jobs, PostDoc(j) PROVE Inv'
<1> USE DEF Inv, TypeOK, PostDoc, Goto, caches, link, save,
            Running, StepPcs, FetchPcs, ExtractPcs, SavePcs, Ended
<1>1. CASE ~cfg.token /\ Fail(j) /\ UNCHANGED save
  BY <1>1, FailInv
<1>2. CASE /\ Goto(j, "posted")
           /\ post' = [post EXCEPT ![j] = doc[j]]
           /\ answer' = [answer EXCEPT ![j] = "awaited"]
           /\ UNCHANGED locals
  <2> USE <1>2 DEF locals
  <2>1. /\ page[j] \in Pages /\ page[j].url = url[j]
        /\ doc[j] \in Docs /\ doc[j].from.url = url[j] /\ doc[j].html = page[j]
        /\ doc[j].location = cfg.location /\ cfg.location \in Locations
    BY ConfigAssumption DEF JobData, DocsReady, WithPage, WithDoc, Config
  <2>2. TypeOK' /\ CachesKeyed'
    BY <2>1 DEF CachesKeyed
  <2>3. DocsReady' /\ OnTime' /\ CardsOnlyForSaved'
    BY DEF DocsReady, OnTime, CardsOnlyForSaved
  <2>4. PostedSound' /\ JobData'
    BY <2>1 DEF PostedSound, JobData, WithPage, WithDoc
  <2>5. Requests'
    BY <2>1 DEF Requests
  <2> QED
    BY <2>2, <2>3, <2>4, <2>5
<1> QED
  BY <1>1, <1>2

\* Readwise answers a request once, and nothing else depends on it.
LEMMA AnswerInv ==
    ASSUME Inv, NEW j \in Jobs, NEW a \in {"saved", "refused"}, Answer(j, a)
    PROVE  Inv'
<1> USE DEF Inv, TypeOK, Answer, caches, link, locals,
            Running, StepPcs, FetchPcs, ExtractPcs, SavePcs, Ended
<1>1. TypeOK' /\ CachesKeyed'
  BY DEF CachesKeyed
<1>2. DocsReady' /\ OnTime' /\ CardsOnlyForSaved'
  BY DEF DocsReady, OnTime, CardsOnlyForSaved
<1>3. PostedSound' /\ JobData' /\ Requests'
  BY DEF PostedSound, JobData, Requests, WithPage, WithDoc
<1> QED
  BY <1>1, <1>2, <1>3

\* Only a saved document is followed by a card.
LEMMA SaveReturnsInv == ASSUME Inv, NEW j \in Jobs, SaveReturns(j) PROVE Inv'
<1> USE DEF Inv, TypeOK, SaveReturns, Accepted, MustNotify, Drop, Goto,
            caches, link, save,
            Running, StepPcs, FetchPcs, ExtractPcs, SavePcs, Ended
<1>1. TypeOK' /\ CachesKeyed'
  BY TimeAssumption DEF CachesKeyed
<1>2. DocsReady' /\ OnTime' /\ CardsOnlyForSaved'
  BY DEF DocsReady, OnTime, CardsOnlyForSaved
<1>3. PostedSound' /\ JobData' /\ Requests'
  BY DEF PostedSound, JobData, Requests, WithPage, WithDoc
<1> QED
  BY <1>1, <1>2, <1>3

\* The notification changes nothing but itself.
LEMMA NotifyInv == ASSUME Inv, NEW j \in Jobs, Notify(j) PROVE Inv'
<1> USE DEF Inv, TypeOK, Notify, caches, link, locals, save
<1>1. TypeOK' /\ CachesKeyed' /\ DocsReady' /\ OnTime'
  BY DEF CachesKeyed, DocsReady, OnTime
<1>2. CardsOnlyForSaved' /\ PostedSound' /\ JobData' /\ Requests'
  BY DEF CardsOnlyForSaved, PostedSound, JobData, Requests
<1> QED
  BY <1>1, <1>2

\* A new process has no jobs, whatever it is configured for.
LEMMA RestartInv == ASSUME Inv, Restart PROVE Inv'
<1> USE DEF Inv, TypeOK, Restart, Drop, caches, link, save,
            Running, StepPcs, FetchPcs, ExtractPcs, SavePcs, Ended
<1>1. TypeOK' /\ CachesKeyed'
  BY TimeAssumption DEF CachesKeyed
<1>2. DocsReady' /\ OnTime' /\ CardsOnlyForSaved'
  BY DEF DocsReady, OnTime, CardsOnlyForSaved
<1>3. PostedSound' /\ JobData'
  BY DEF PostedSound, JobData, WithPage, WithDoc
<1>4. Requests'
  BY NullAssumption DEF Requests
<1> QED
  BY <1>1, <1>2, <1>3, <1>4

\* An edited article changes no job and no cache.
LEMMA SiteChangesInv == ASSUME Inv, NEW u \in URLs, SiteChanges(u) PROVE Inv'
<1> USE DEF Inv, TypeOK, SiteChanges, caches, link, locals, save
<1>1. TypeOK'
  <2>1. [ver |-> site[u].ver + 1, quiet |-> 0] \in Articles
    BY TimeAssumption, ArticlesQuieter DEF Articles
  <2> QED
    BY <2>1
<1>2. CachesKeyed' /\ DocsReady' /\ OnTime' /\ CardsOnlyForSaved'
  BY DEF CachesKeyed, DocsReady, OnTime, CardsOnlyForSaved
<1>3. PostedSound' /\ JobData' /\ Requests'
  BY DEF PostedSound, JobData, Requests
<1> QED
  BY <1>1, <1>2, <1>3

\* A tick moves the budget of a context into the age of its job.
LEMMA TickInv == ASSUME Inv, Tick PROVE Inv'
<1> USE DEF Inv, TypeOK, Tick, link, save,
            Running, StepPcs, FetchPcs, ExtractPcs, SavePcs, Ended
<1>1. /\ redisPage' \in [URLs -> Entries(Pages) \cup {Nil}]
      /\ redisBody' \in [URLs -> Entries(Docs) \cup {Nil}]
      /\ CachesKeyed'
  <2>1. Nil \notin Entries(Pages) /\ Nil \notin Entries(Docs)
    BY NullAssumption
  <2>2. /\ redisPage' \in [URLs -> Entries(Pages) \cup {Nil}]
        /\ \A u \in URLs : redisPage'[u] # Nil => /\ redisPage[u] # Nil
                                                  /\ redisPage'[u].val = redisPage[u].val
    BY <2>1, AgedType
  <2>3. /\ redisBody' \in [URLs -> Entries(Docs) \cup {Nil}]
        /\ \A u \in URLs : redisBody'[u] # Nil => /\ redisBody[u] # Nil
                                                  /\ redisBody'[u].val = redisBody[u].val
    BY <2>1, AgedType
  <2> QED
    BY <2>2, <2>3 DEF CachesKeyed
<1>2. /\ age' \in [Jobs -> 0..PipelineTimeout]
      /\ left' \in [Jobs -> 0..StepTimeout]
      /\ OnTime'
  <2> SUFFICES ASSUME NEW j \in Jobs
               PROVE  /\ age'[j] \in 0..PipelineTimeout
                      /\ left'[j] \in 0..StepTimeout
                      /\ pc[j] \in Running => age'[j] + left'[j] <= PipelineTimeout
    BY DEF OnTime
  <2>1. age[j] \in 0..PipelineTimeout /\ left[j] \in 0..StepTimeout
    OBVIOUS
  <2>2. CASE pc[j] \in StepPcs
    BY <2>1, <2>2, TimeAssumption DEF OnTime
  <2>3. CASE pc[j] = "queued"
    BY <2>1, <2>3, TimeAssumption DEF JobData
  <2>4. CASE pc[j] \notin Running
    BY <2>1, <2>4
  <2> QED
    BY <2>2, <2>3, <2>4
<1>3. TypeOK'
  BY <1>1, <1>2, ArticlesQuieter
<1>4. DocsReady' /\ CardsOnlyForSaved' /\ PostedSound' /\ Requests'
  BY DEF DocsReady, CardsOnlyForSaved, PostedSound, Requests
<1>5. JobData'
  BY DEF JobData, WithPage, WithDoc
<1> QED
  BY <1>1, <1>2, <1>3, <1>4, <1>5

-----------------------------------------------------------------------------
\* Every step of the pipeline, and every step of its peers, keeps Inv.
LEMMA NextInv == Inv /\ [Next]_vars => Inv'
<1> SUFFICES ASSUME Inv, [Next]_vars PROVE Inv'
  OBVIOUS
<1>1. ASSUME NEW j \in Jobs, JobStep(j) PROVE Inv'
  <2>1. ASSUME TimeOut(j) PROVE Inv'
    BY <2>1, FailInv DEF TimeOut, Waiting, Running, StepPcs, FetchPcs, ExtractPcs, SavePcs
  <2> QED
    BY <1>1, <2>1, BeginInv, ReadPageInv, WritePageInv, ReadBodyInv, WriteBodyInv,
       PostDocInv DEF JobStep
<1>2. ASSUME NEW j \in Jobs, PeerStep(j) PROVE Inv'
  <2>1. ASSUME CallFails(j) PROVE Inv'
    BY <2>1, FailInv DEF CallFails, Waiting, Running, StepPcs, FetchPcs, ExtractPcs, SavePcs
  <2>2. ASSUME ReadwiseSaves(j) \/ ReadwiseRefuses(j) PROVE Inv'
    BY <2>2, AnswerInv DEF ReadwiseSaves, ReadwiseRefuses
  <2> QED
    BY <1>2, <2>1, <2>2, FetchPageInv, AskLLMInv, SaveReturnsInv DEF PeerStep
<1>3. CASE UNCHANGED vars
  <2> USE <1>3 DEF vars, caches, link, locals, save
  <2>1. TypeOK' /\ CachesKeyed' /\ DocsReady' /\ OnTime'
    BY DEF Inv, TypeOK, CachesKeyed, DocsReady, OnTime
  <2>2. CardsOnlyForSaved' /\ PostedSound' /\ JobData' /\ Requests'
    BY DEF Inv, CardsOnlyForSaved, PostedSound, JobData, Requests
  <2> QED
    BY <2>1, <2>2 DEF Inv
<1> QED
  BY <1>1, <1>2, <1>3, SpawnInv, NotifyInv, SiteChangesInv, RestartInv, TickInv DEF Next

\* Inv holds throughout every behaviour.
THEOREM Invariance == Spec => []Inv
<1> QED
  BY InitInv, NextInv, PTL DEF Spec

\* Every variable of the pipeline always has its type.
THEOREM TypeCorrect == Spec => []TypeOK
<1>1. Inv => TypeOK
  BY DEF Inv
<1> QED
  BY Invariance, <1>1, PTL

\* Jobs for different links never feed each other, and the metadata cache holds
\* complete documents without their HTML.
THEOREM CachesAlwaysKeyed == Spec => []CachesKeyed
<1>1. Inv => CachesKeyed
  BY DEF Inv
<1> QED
  BY Invariance, <1>1, PTL

\* What is about to be saved is this job's page under this process's settings.
THEOREM DocsAlwaysReady == Spec => []DocsReady
<1>1. Inv => DocsReady
  BY DEF Inv
<1> QED
  BY Invariance, <1>1, PTL

\* No job outlives its pipeline context, however the step timeouts add up.
THEOREM AlwaysOnTime == Spec => []OnTime
<1>1. Inv => OnTime
  BY DEF Inv
<1> QED
  BY Invariance, <1>1, PTL

\* Cards follow saved articles only, and go to members only.
THEOREM CardsAlwaysForSaved == Spec => []CardsOnlyForSaved
<1>1. Inv => CardsOnlyForSaved
  BY DEF Inv
<1> QED
  BY Invariance, <1>1, PTL

\* What Readwise gets for a job stays the article at its link.
THEOREM PostedAlwaysSound == Spec => []PostedSound
<1>1. Inv => PostedSound
  BY DEF Inv
<1> QED
  BY Invariance, <1>1, PTL

-----------------------------------------------------------------------------
\* The pipeline implements Delivery.

\* A step that neither ends nor starts a job, and gets no answer that counts,
\* is none to the sender of a link.
LEMMA Unseen ==
    ASSUME UNCHANGED <<url, user, notify>>,
           \A k \in Jobs : Status(k)' = Status(k) /\ StoredFor(k)' = StoredFor(k)
    PROVE  UNCHANGED Promise!vars
BY DEF Promise!vars

\* Moving a job from one point of ProcessURL to another is such a step.
LEMMA MoveUnseen ==
    ASSUME TypeOK, NEW j \in Jobs, NEW to \in Running,
           pc[j] \in Running, Goto(j, to),
           UNCHANGED <<url, user, notify, post, answer>>
    PROVE  UNCHANGED Promise!vars
<1>1. \A k \in Jobs : Status(k)' = Status(k)
  BY DEF TypeOK, Status, Goto, Running, StepPcs, FetchPcs, ExtractPcs, SavePcs
<1>2. \A k \in Jobs : StoredFor(k)' = StoredFor(k)
  BY DEF StoredFor
<1> QED
  BY <1>1, <1>2, Unseen

\* A job that ends with an error abandons its link.
LEMMA FailAbandons ==
    ASSUME TypeOK, NEW j \in Jobs, pc[j] \in Running, Fail(j),
           UNCHANGED <<url, user, notify, post, answer>>
    PROVE  Promise!Abandon({j})
<1>1. /\ Status(j) = "accepted" /\ Status(j)' = "abandoned"
      /\ \A k \in Jobs : k # j => Status(k)' = Status(k)
  BY DEF TypeOK, Status, Fail, Goto, Running, StepPcs, FetchPcs, ExtractPcs, SavePcs
<1>2. \A k \in Jobs : StoredFor(k)' = StoredFor(k)
  BY DEF StoredFor
<1> QED
  BY <1>1, <1>2 DEF Promise!Abandon

\* Starting a goroutine is accepting a link.
LEMMA SpawnAccepts ==
    ASSUME TypeOK, NEW j \in Jobs, NEW u \in URLs, NEW w \in Users \cup {NoUser},
           Spawn(j, u, w)
    PROVE  Promise!Accept(j, u, w)
<1> USE DEF Spawn
<1>1. /\ Status(j) = "idle" /\ Status(j)' = "accepted"
      /\ \A k \in Jobs : k # j => Status(k)' = Status(k)
  BY DEF TypeOK, Status, Goto, Running, StepPcs, FetchPcs, ExtractPcs, SavePcs
<1>2. \A k \in Jobs : StoredFor(k)' = StoredFor(k)
  BY DEF StoredFor, save
<1> QED
  BY <1>1, <1>2 DEF Promise!Accept

\* Saving is seen by the sender; refusing is not.
LEMMA SavesStores ==
    ASSUME Inv, NEW j \in Jobs, ReadwiseSaves(j)
    PROVE  Promise!Store(j)
<1> USE DEF ReadwiseSaves, Answer
<1>1. /\ Status(j) \in {"accepted", "abandoned"}
      /\ \A k \in Jobs : Status(k)' = Status(k)
  BY DEF Inv, TypeOK, Requests, Status, Running, StepPcs, FetchPcs, ExtractPcs,
         SavePcs, Ended
<1>2. /\ StoredFor(j) = NoURL /\ StoredFor(j)' = url[j]
      /\ \A k \in Jobs : k # j => StoredFor(k)' = StoredFor(k)
  BY DEF Inv, TypeOK, PostedSound, StoredFor
<1> QED
  BY <1>1, <1>2 DEF Promise!Store, link

\* A refusal leaves nothing at Readwise.
LEMMA RefusesUnseen ==
    ASSUME TypeOK, NEW j \in Jobs, ReadwiseRefuses(j)
    PROVE  UNCHANGED Promise!vars
<1> USE DEF ReadwiseRefuses, Answer, link
<1>1. \A k \in Jobs : Status(k)' = Status(k) /\ StoredFor(k)' = StoredFor(k)
  BY DEF TypeOK, Status, StoredFor
<1> QED
  BY <1>1, Unseen

\* The answer that a document was saved finishes the link it was sent for.
LEMMA SaveReturnsFinishes ==
    ASSUME Inv, NEW j \in Jobs, SaveReturns(j)
    PROVE  Promise!Finish(j)
<1> USE DEF SaveReturns, link, save
<1>1. /\ Status(j) = "accepted" /\ Status(j)' = "finished"
      /\ \A k \in Jobs : k # j => Status(k)' = Status(k)
  BY DEF Inv, TypeOK, Status, Goto, Running, StepPcs, FetchPcs, ExtractPcs, SavePcs
<1>2. StoredFor(j) = url[j] /\ \A k \in Jobs : StoredFor(k)' = StoredFor(k)
  BY DEF Inv, PostedSound, StoredFor, Accepted
<1>3. \A k \in Jobs : notify'[k] = "sent" <=> notify[k] = "sent"
  BY DEF Inv, TypeOK, CardsOnlyForSaved
<1> QED
  BY <1>1, <1>2, <1>3 DEF Promise!Finish

\* A card tells the sender of a finished link, a failed one nobody.
LEMMA NotifyTells ==
    ASSUME Inv, NEW j \in Jobs, Notify(j)
    PROVE  Promise!Tell(j) \/ UNCHANGED Promise!vars
<1> USE DEF Notify, link, save
<1>1. \A k \in Jobs : Status(k)' = Status(k) /\ StoredFor(k)' = StoredFor(k)
  BY DEF Status, StoredFor
<1>2. Status(j) = "finished" /\ user[j] \in Users
  BY DEF Inv, CardsOnlyForSaved, Status, Running, StepPcs, FetchPcs, ExtractPcs, SavePcs
<1>3. CASE notify' = [notify EXCEPT ![j] = "sent"]
  BY <1>1, <1>2, <1>3 DEF Promise!Tell, Inv, TypeOK
<1>4. CASE notify' = [notify EXCEPT ![j] = "failed"]
  <2>1. \A k \in Jobs : notify'[k] = "sent" <=> notify[k] = "sent"
    BY <1>4 DEF Inv, TypeOK
  <2> QED
    BY <1>1, <2>1 DEF Promise!vars
<1> QED
  BY <1>3, <1>4

\* A crash abandons every link that was underway, and no other.
LEMMA RestartAbandons ==
    ASSUME Inv, Restart
    PROVE  Promise!Abandon({j \in Jobs : pc[j] \in Running})
<1> USE DEF Restart, link, save
<1>1. \A k \in Jobs : /\ pc[k] \in Running => Status(k) = "accepted" /\ Status(k)' = "abandoned"
                      /\ pc[k] \notin Running => Status(k)' = Status(k)
  BY DEF Inv, TypeOK, Status, Running, StepPcs, FetchPcs, ExtractPcs, SavePcs, Ended
<1>2. \A k \in Jobs : StoredFor(k)' = StoredFor(k)
  BY DEF StoredFor
<1>3. \A k \in Jobs : notify'[k] = "sent" <=> notify[k] = "sent"
  BY DEF Inv, TypeOK
<1> QED
  BY <1>1, <1>2, <1>3 DEF Promise!Abandon

\* Steps that move one job on, or change what no sender sees.
LEMMA QuietUnseen ==
    ASSUME Inv, NEW j \in Jobs,
           \/ Begin(j) \/ ReadPage(j) \/ FetchPage(j) \/ WritePage(j) \/ ReadBody(j)
           \/ AskLLM(j) \/ WriteBody(j) \/ PostDoc(j) \/ TimeOut(j) \/ CallFails(j)
    PROVE  Promise!Abandon({j}) \/ UNCHANGED Promise!vars
<1> USE DEF Inv, link, save
<1>0. pc[j] \in Running
  BY DEF Begin, ReadPage, FetchPage, WritePage, ReadBody, AskLLM, WriteBody, PostDoc,
         TimeOut, CallFails, Waiting, Running, StepPcs, FetchPcs, ExtractPcs, SavePcs
<1>1. CASE Fail(j) /\ UNCHANGED <<link, notify, save>>
  BY <1>0, <1>1, FailAbandons
<1>2. CASE (\E to \in Running : Goto(j, to)) /\ UNCHANGED <<link, notify, save>>
  BY <1>0, <1>2, MoveUnseen
<1>3. ASSUME cfg.token, PostDoc(j) PROVE UNCHANGED Promise!vars
  <2> USE <1>3 DEF PostDoc
  <2>1. Goto(j, "posted") /\ UNCHANGED <<url, user, notify>>
    OBVIOUS
  <2>2. \A k \in Jobs : Status(k)' = Status(k)
    BY <2>1 DEF TypeOK, Status, Goto, Running, StepPcs, FetchPcs, ExtractPcs, SavePcs
  <2>3. StoredFor(j) = NoURL
    BY DEF Requests, StoredFor
  <2>4. \A k \in Jobs : StoredFor(k)' = StoredFor(k)
    BY <2>3 DEF TypeOK, StoredFor
  <2> QED
    BY <2>1, <2>2, <2>4, Unseen
<1>4. ASSUME ~(cfg.token /\ PostDoc(j))
      PROVE  /\ Fail(j) \/ (\E to \in Running : Goto(j, to))
             /\ UNCHANGED <<link, notify, save>>
  BY <1>4 DEF Begin, ReadPage, FetchPage, WritePage, ReadBody, AskLLM, WriteBody, PostDoc,
         TimeOut, CallFails, StartStep, Running, StepPcs, FetchPcs, ExtractPcs, SavePcs
<1> QED
  BY <1>1, <1>2, <1>3, <1>4

\* Nothing was accepted yet.
LEMMA PromiseInit == Init => Promise!Init
<1> SUFFICES ASSUME Init PROVE Promise!Init
  OBVIOUS
<1>1. ASSUME NEW j \in Jobs PROVE Status(j) = "idle" /\ StoredFor(j) = NoURL
  <2>1. pc[j] = "idle" /\ answer[j] = "none"
    BY DEF Init
  <2> QED
    BY <2>1 DEF Status, StoredFor
<1> QED
  BY <1>1 DEF Init, Promise!Init

\* Every step of the pipeline is a step of the promise, or unseen.
LEMMA PromiseStep == Inv /\ [Next]_vars => [Promise!Next]_(Promise!vars)
<1> SUFFICES ASSUME Inv, [Next]_vars PROVE Promise!Next \/ UNCHANGED Promise!vars
  OBVIOUS
<1>1. ASSUME NEW j \in Jobs, JobStep(j) PROVE Promise!Next \/ UNCHANGED Promise!vars
  BY <1>1, QuietUnseen DEF JobStep, Promise!Next
<1>2. ASSUME NEW j \in Jobs, PeerStep(j) PROVE Promise!Next \/ UNCHANGED Promise!vars
  BY <1>2, QuietUnseen, SavesStores, RefusesUnseen, SaveReturnsFinishes
     DEF PeerStep, Promise!Next, Inv
<1>3. ASSUME NEW j \in Jobs, Notify(j) PROVE Promise!Next \/ UNCHANGED Promise!vars
  BY <1>3, NotifyTells DEF Promise!Next
<1>4. ASSUME NEW j \in Jobs, NEW u \in URLs, NEW w \in Users \cup {NoUser}, Spawn(j, u, w)
      PROVE  Promise!Next
  BY <1>4, SpawnAccepts DEF Promise!Next, Inv
<1>5. CASE Restart
  BY <1>5, RestartAbandons DEF Promise!Next
<1>6. CASE UNCHANGED vars \/ Tick \/ \E u \in URLs : SiteChanges(u)
  <2>1. UNCHANGED <<pc, url, user, post, answer, notify>>
    BY <1>6 DEF vars, Tick, SiteChanges, link, save
  <2>2. \A k \in Jobs : Status(k)' = Status(k) /\ StoredFor(k)' = StoredFor(k)
    BY <2>1 DEF Status, StoredFor
  <2> QED
    BY <2>1, <2>2, Unseen
<1> QED
  BY <1>1, <1>2, <1>3, <1>4, <1>5, <1>6 DEF Next

\* The pipeline keeps the promise to the senders: what Delivery allows is all
\* they ever see.
THEOREM PipelineKeepsPromise == Spec => KeepsPromise
<1>1. Spec => []Inv
  BY Invariance
<1> QED
  BY <1>1, PromiseInit, PromiseStep, PTL DEF Spec, KeepsPromise, Promise!Spec
=============================================================================
