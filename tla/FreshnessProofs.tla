-------------------------- MODULE FreshnessProofs --------------------------
(***************************************************************************)
(* How old a saved article may be, for any number of jobs and edits and    *)
(* any timeouts and lifetime of the cache.  The inductive invariant is     *)
(* FreshInv with the Inv of Pipeline.                                      *)
(***************************************************************************)
EXTENDS Freshness, PipelineProofs, Integers

\* The ages and bounds in play, and their order.
LEMMA Bounds ==
    /\ StepTimeout \in Nat \ {0} /\ CacheTTL \in Nat \ {0}
    /\ CachedAge \in Nat /\ CachedAge >= StepTimeout
    /\ CachedAge = StepTimeout + CacheTTL - 1
BY TimeAssumption DEF CachedAge

\* The article at the link of a page is somewhere in time.
LEMMA QuietOf ==
    ASSUME Inv, NEW p \in Pages
    PROVE  p.url \in URLs /\ site[p.url] \in Articles /\ site[p.url].quiet \in Nat
BY ArticlesQuieter DEF Pages, Inv, TypeOK, Articles

\* A page that misses no edit older than m misses none older than n, if n is
\* greater; so too when the article does not change.
LEMMA MissedLonger ==
    ASSUME Inv, NEW p \in Pages, NEW m \in Int, NEW n \in Int,
           m <= n, MissedWithin(p, m), site' = site
    PROVE  MissedWithin(p, n) /\ (MissedWithin(p, n))'
BY QuietOf DEF MissedWithin

\* An edit is missed by everything of that link, for no time yet.
LEMMA MissedAfterEdit ==
    ASSUME Inv, NEW u \in URLs, SiteChanges(u),
           NEW p \in Pages, NEW n \in Nat, MissedWithin(p, n)
    PROVE  (MissedWithin(p, n))'
<1>1. p.url \in URLs
  BY QuietOf
<1>2. CASE p.url = u
  BY <1>1, <1>2 DEF MissedWithin, SiteChanges, Inv, TypeOK
<1>3. CASE p.url # u
  BY <1>1, <1>3 DEF MissedWithin, SiteChanges, Inv, TypeOK
<1> QED
  BY <1>2, <1>3

\* A tick makes every missed edit older, by one at most.
LEMMA MissedAfterTick ==
    ASSUME Inv, Tick, NEW p \in Pages, NEW n \in Int, MissedWithin(p, n)
    PROVE  (MissedWithin(p, n + 1))'
<1>1. p.url \in URLs /\ site[p.url] \in Articles /\ site[p.url].quiet \in Nat
  BY QuietOf
<1>2. site'[p.url] = Quieter(site[p.url])
  BY <1>1 DEF Tick
<1>3. /\ site'[p.url].ver = site[p.url].ver
      /\ site'[p.url].quiet \in {site[p.url].quiet, site[p.url].quiet + 1}
  BY <1>1, <1>2, ArticlesQuieter
<1> QED
  BY <1>1, <1>3 DEF MissedWithin

\* What is in the caches and in the hands of a job are pages.
LEMMA Holdings ==
    ASSUME Inv
    PROVE  /\ \A u \in URLs : redisPage[u] # Nil =>
                 redisPage[u].val \in Pages /\ redisPage[u].life \in 1..CacheTTL
           /\ \A u \in URLs : redisBody[u] # Nil =>
                 /\ redisBody[u].val \in Docs /\ redisBody[u].val.from \in Pages
                 /\ redisBody[u].life \in 1..CacheTTL
           /\ \A j \in Jobs :
                 /\ left[j] \in 0..StepTimeout
                 /\ pc[j] \in WithPage => page[j] \in Pages /\ page[j].url = url[j]
                 /\ pc[j] \in WithDoc => doc[j] \in Docs /\ doc[j].from \in Pages
<1>1. \A d \in Docs : d.from \in Pages
  BY DEF Docs
<1> QED
  BY <1>1 DEF Inv, TypeOK, JobData, Entries

-----------------------------------------------------------------------------
\* Nothing is cached or held at the start.
LEMMA FreshInitInv == Init => FreshInv
BY DEF Init, FreshInv, CachesFresh, JobFresh, ExtractPcs, SavePcs

\* Steps that leave the caches and the article alone.
LEMMA SameCachesFresh ==
    ASSUME FreshInv, UNCHANGED <<site, redisPage, redisBody>>
    PROVE  CachesFresh'
BY DEF FreshInv, CachesFresh, MissedWithin

\* A job whose pc and variables a step leaves alone is as fresh as before.
LEMMA SameJobFresh ==
    ASSUME NEW j \in Jobs, JobFresh(j),
           UNCHANGED <<site, left[j], page[j], doc[j], pc[j]>>
    PROVE  JobFresh(j)'
BY DEF JobFresh, MissedWithin, Spent

\* A job that is in none of the steps that hold a page.
LEMMA IdleJobFresh ==
    ASSUME NEW j \in Jobs, pc'[j] \notin WithPage
    PROVE  JobFresh(j)'
BY DEF JobFresh, WithPage, ExtractPcs, SavePcs

\* A step of job j is one of nobody else.
LEMMA JobMoves ==
    ASSUME Inv, FreshInv, NEW j \in Jobs,
           UNCHANGED <<cfg, site>>,
           \A k \in Jobs \ {j} : UNCHANGED <<left[k], page[k], doc[k], pc[k]>>,
           CachesFresh', cfg.redis => JobFresh(j)'
    PROVE  FreshInv'
<1>1. ASSUME cfg.redis, NEW k \in Jobs PROVE JobFresh(k)'
  BY <1>1, SameJobFresh DEF FreshInv
<1> QED
  BY <1>1 DEF FreshInv

\* A job that ends, or that has not fetched its page yet.
LEMMA DropFresh ==
    ASSUME Inv, FreshInv, NEW j \in Jobs, Fail(j),
           UNCHANGED <<cfg, site, redisPage, redisBody>>
    PROVE  FreshInv'
<1> USE DEF Fail, Goto, Drop, Inv, TypeOK
<1>1. pc'[j] \notin WithPage
  BY DEF WithPage, ExtractPcs, SavePcs
<1>2. \A k \in Jobs \ {j} : UNCHANGED <<left[k], page[k], doc[k], pc[k]>>
  OBVIOUS
<1> QED
  BY <1>1, <1>2, IdleJobFresh, SameCachesFresh, JobMoves

-----------------------------------------------------------------------------
\* A step that has begun has a context of its own.
LEMMA StepBegins ==
    ASSUME Inv, NEW j \in Jobs, NEW to \in StepPcs, StartStep(j, to)
    PROVE  /\ pc'[j] = to
           /\ left'[j] \in 0..StepTimeout
           /\ \A k \in Jobs \ {j} : UNCHANGED <<left[k], pc[k]>>
<1>1. age[j] \in 0..PipelineTimeout
  BY DEF Inv, TypeOK
<1> QED
  BY <1>1, BudgetFits DEF StartStep, Goto, Inv, TypeOK

\* A new job holds no page, and neither does one that enters the fetch step.
LEMMA SpawnFresh ==
    ASSUME Inv, FreshInv, NEW j \in Jobs, NEW u \in URLs, NEW w \in Users \cup {NoUser},
           Spawn(j, u, w)
    PROVE  FreshInv'
<1> USE DEF Spawn, Goto, Inv, TypeOK, caches, locals
<1>1. pc'[j] \notin WithPage
  BY DEF WithPage, ExtractPcs, SavePcs
<1>2. \A k \in Jobs \ {j} : UNCHANGED <<left[k], page[k], doc[k], pc[k]>>
  OBVIOUS
<1> QED
  BY <1>1, <1>2, IdleJobFresh, SameCachesFresh, JobMoves

LEMMA BeginFresh ==
    ASSUME Inv, FreshInv, NEW j \in Jobs, Begin(j)
    PROVE  FreshInv'
<1>1. CASE cfg.mcp /\ StartStep(j, "readPage") /\ UNCHANGED <<page, doc, age>>
  <2>1. pc'[j] \notin WithPage
    BY <1>1, StepBegins DEF WithPage, StepPcs, FetchPcs, ExtractPcs, SavePcs
  <2>2. \A k \in Jobs \ {j} : UNCHANGED <<left[k], page[k], doc[k], pc[k]>>
    BY <1>1, StepBegins DEF StepPcs, FetchPcs
  <2> QED
    BY <2>1, <2>2, IdleJobFresh, SameCachesFresh, JobMoves DEF Begin, caches
<1>2. CASE Fail(j)
  BY <1>2, DropFresh DEF Begin, caches
<1> QED
  BY <1>1, <1>2 DEF Begin

\* The cached page was stored, at the latest, at the end of a fetch.
LEMMA ReadPageFresh ==
    ASSUME Inv, FreshInv, NEW j \in Jobs, ReadPage(j)
    PROVE  FreshInv'
<1>1. url[j] \in URLs
  BY DEF ReadPage, Inv, JobData
<1>2. CASE /\ CachedPage(j) # Nil
           /\ page' = [page EXCEPT ![j] = CachedPage(j)]
           /\ StartStep(j, "readBody")
  <2>1. /\ pc'[j] = "readBody" /\ left'[j] \in 0..StepTimeout
        /\ \A k \in Jobs \ {j} : UNCHANGED <<left[k], page[k], doc[k], pc[k]>>
    BY <1>2, StepBegins DEF ReadPage, Inv, TypeOK, StepPcs, ExtractPcs
  <2>2. ASSUME cfg.redis PROVE JobFresh(j)'
    <3> DEFINE e == redisPage[url[j]]
    <3>1. e # Nil /\ page'[j] = e.val
      BY <1>2, <2>2 DEF CachedPage, Inv, TypeOK
    <3>2. e.val \in Pages /\ e.life \in 1..CacheTTL
      BY <1>1, <3>1, Holdings
    <3>3. MissedWithin(e.val, CachedAge - e.life)
      BY <1>1, <3>1 DEF FreshInv, CachesFresh
    <3>4. /\ CachedAge - e.life \in Int /\ CachedAge + Spent(j)' \in Int
          /\ CachedAge - e.life <= CachedAge + Spent(j)'
      BY <2>1, <3>2, Bounds DEF Spent
    <3>5. MissedWithin(page[j], CachedAge + Spent(j))'
      BY <3>1, <3>2, <3>3, <3>4, MissedLonger DEF FreshInv, ReadPage, MissedWithin
    <3> QED
      BY <2>1, <3>5 DEF JobFresh, SavePcs
  <2>3. CachesFresh'
    BY SameCachesFresh DEF ReadPage, caches
  <2> QED
    BY <2>1, <2>2, <2>3, JobMoves DEF ReadPage
<1>3. CASE Goto(j, "callMCP") /\ UNCHANGED <<page, left>>
  <2>1. pc'[j] \notin WithPage
    BY <1>3 DEF Goto, WithPage, ExtractPcs, SavePcs, Inv, TypeOK
  <2>2. \A k \in Jobs \ {j} : UNCHANGED <<left[k], page[k], doc[k], pc[k]>>
    BY <1>3 DEF Goto, ReadPage, Inv, TypeOK
  <2> QED
    BY <2>1, <2>2, IdleJobFresh, SameCachesFresh, JobMoves DEF ReadPage, caches
<1> QED
  BY <1>2, <1>3 DEF ReadPage

\* A page just fetched misses nothing.
LEMMA FetchPageFresh ==
    ASSUME Inv, FreshInv, NEW j \in Jobs, FetchPage(j)
    PROVE  FreshInv'
<1> USE DEF FetchPage, Goto, Inv, TypeOK
<1>1. pc'[j] = "writePage"
  OBVIOUS
<1>2. \A k \in Jobs \ {j} : UNCHANGED <<left[k], page[k], doc[k], pc[k]>>
  OBVIOUS
<1>3. MissedWithin(page[j], Spent(j))'
  <2>1. page'[j].url = url[j] /\ page'[j].ver = site'[url[j]].ver
    OBVIOUS
  <2> QED
    BY <2>1 DEF MissedWithin
<1>4. JobFresh(j)'
  BY <1>1, <1>3 DEF JobFresh, ExtractPcs, SavePcs
<1> QED
  BY <1>2, <1>4, SameCachesFresh, JobMoves DEF caches

\* A page is stored, if at all, before the step that fetched it is over.
LEMMA WritePageFresh ==
    ASSUME Inv, FreshInv, NEW j \in Jobs, WritePage(j)
    PROVE  FreshInv'
<1>1. /\ pc'[j] = "readBody" /\ left'[j] \in 0..StepTimeout
      /\ \A k \in Jobs \ {j} : UNCHANGED <<left[k], page[k], doc[k], pc[k]>>
  BY StepBegins DEF WritePage, StepPcs, ExtractPcs
<1>2. page[j] \in Pages /\ left[j] \in 0..StepTimeout /\ url[j] \in URLs
  BY Holdings DEF WritePage, WithPage, Inv, JobData
<1>3. ASSUME cfg.redis PROVE MissedWithin(page[j], Spent(j))
  BY <1>3 DEF WritePage, FreshInv, JobFresh
<1>4. ASSUME cfg.redis PROVE JobFresh(j)'
  <2>1. /\ Spent(j) \in Int /\ CachedAge + Spent(j)' \in Int
        /\ Spent(j) <= CachedAge + Spent(j)'
    BY <1>1, <1>2, Bounds DEF Spent
  <2>2. (MissedWithin(page[j], CachedAge + Spent(j)))'
    BY <1>2, <1>3, <1>4, <2>1, MissedLonger DEF FreshInv, WritePage, MissedWithin
  <2> QED
    BY <1>1, <2>2 DEF JobFresh, SavePcs
<1>5. CachesFresh'
  <2>1. CASE UNCHANGED <<redisPage, redisBody>>
    BY <2>1, SameCachesFresh DEF WritePage
  <2>2. CASE /\ cfg.redis /\ left[j] > 0
             /\ redisPage' = [redisPage EXCEPT ![url[j]] =
                                  [val |-> page[j], life |-> CacheTTL]]
             /\ UNCHANGED redisBody
    <3>1. /\ Spent(j) \in Int /\ CachedAge - CacheTTL \in Int
          /\ Spent(j) <= CachedAge - CacheTTL
      BY <1>2, <2>2, Bounds DEF Spent
    <3>2. (MissedWithin(page[j], CachedAge - CacheTTL))'
      BY <1>2, <1>3, <2>2, <3>1, MissedLonger DEF FreshInv, WritePage, MissedWithin
    <3>3. ASSUME NEW u \in URLs, redisPage'[u] # Nil
          PROVE  (MissedWithin(redisPage[u].val, CachedAge - redisPage[u].life))'
      <4>1. CASE u = url[j]
        BY <2>2, <3>2, <4>1 DEF Inv, TypeOK, WritePage, MissedWithin
      <4>2. CASE u # url[j]
        BY <2>2, <3>3, <4>2 DEF Inv, TypeOK, WritePage, MissedWithin, FreshInv, CachesFresh
      <4> QED
        BY <4>1, <4>2
    <3> QED
      BY <2>2, <3>3 DEF CachesFresh, MissedWithin, WritePage, FreshInv
  <2> QED
    BY <2>1, <2>2 DEF WritePage, StorePage, caches
<1> QED
  BY <1>1, <1>4, <1>5, JobMoves DEF WritePage

\* Cached metadata was extracted, at the latest, at the end of a step from a page
\* that was cached itself.
LEMMA ReadBodyFresh ==
    ASSUME Inv, FreshInv, NEW j \in Jobs, ReadBody(j)
    PROVE  FreshInv'
<1>1. /\ page[j] \in Pages /\ page[j].url = url[j] /\ url[j] \in URLs
      /\ left[j] \in 0..StepTimeout
  BY Holdings DEF ReadBody, WithPage, ExtractPcs, Inv, JobData
<1>2. ASSUME cfg.redis PROVE MissedWithin(page[j], CachedAge + Spent(j))
  BY <1>2 DEF ReadBody, ExtractPcs, FreshInv, JobFresh
<1>3. CASE /\ CachedDoc(j) # Nil
           /\ doc' = [doc EXCEPT ![j] = CompleteDoc(CachedDoc(j), page[j])]
           /\ StartStep(j, "save")
           /\ UNCHANGED <<page, age>>
  <2> DEFINE e == redisBody[url[j]]
  <2>1. /\ pc'[j] = "save" /\ left'[j] \in 0..StepTimeout
        /\ \A k \in Jobs \ {j} : UNCHANGED <<left[k], page[k], doc[k], pc[k]>>
    BY <1>3, StepBegins DEF Inv, TypeOK, StepPcs, SavePcs
  <2>2. e # Nil /\ CachedDoc(j) = e.val
    BY <1>1, <1>3 DEF CachedDoc
  <2>3. e.val \in Docs /\ e.val.from \in Pages /\ e.life \in 1..CacheTTL
    BY <1>1, <2>2, Holdings
  <2>4. doc'[j].from = e.val.from
    BY <1>1, <1>3, <2>2, <2>3, CompleteDocType DEF Inv, TypeOK
  <2>5. ASSUME cfg.redis PROVE JobFresh(j)'
    <3>1. MissedWithin(e.val.from, 2 * CachedAge - e.life)
      BY <1>1, <2>2 DEF FreshInv, CachesFresh
    <3>2. /\ 2 * CachedAge - e.life \in Int /\ 2 * CachedAge + Spent(j)' \in Int
          /\ 2 * CachedAge - e.life <= 2 * CachedAge + Spent(j)'
      BY <2>1, <2>3, Bounds DEF Spent
    <3>3. (MissedWithin(doc[j].from, 2 * CachedAge + Spent(j)))'
      BY <2>3, <2>4, <3>1, <3>2, MissedLonger DEF FreshInv, ReadBody, MissedWithin
    <3>4. /\ CachedAge + Spent(j) \in Int /\ CachedAge + StepTimeout + Spent(j)' \in Int
          /\ CachedAge + Spent(j) <= CachedAge + StepTimeout + Spent(j)'
      BY <1>1, <2>1, Bounds DEF Spent
    <3>5. (MissedWithin(page[j], CachedAge + StepTimeout + Spent(j)))'
      BY <1>1, <1>2, <1>3, <2>5, <3>4, MissedLonger DEF FreshInv, ReadBody, MissedWithin
    <3> QED
      BY <2>1, <3>3, <3>5 DEF JobFresh, ExtractPcs
  <2> QED
    BY <2>1, <2>5, SameCachesFresh, JobMoves DEF ReadBody, caches
<1>4. CASE cfg.llm /\ Goto(j, "callLLM") /\ UNCHANGED locals
  <2>1. /\ pc'[j] = "callLLM"
        /\ \A k \in Jobs \ {j} : UNCHANGED <<left[k], page[k], doc[k], pc[k]>>
    BY <1>4 DEF Goto, locals, Inv, TypeOK
  <2>2. ASSUME cfg.redis PROVE JobFresh(j)'
    BY <1>2, <1>4, <2>1, <2>2 DEF JobFresh, MissedWithin, Spent, locals, ReadBody, SavePcs
  <2> QED
    BY <2>1, <2>2, SameCachesFresh, JobMoves DEF ReadBody, caches
<1>5. CASE Fail(j)
  BY <1>5, DropFresh DEF ReadBody, caches
<1> QED
  BY <1>3, <1>4, <1>5 DEF ReadBody

\* The LLM reads the page the job holds, within the same step.
LEMMA AskLLMFresh ==
    ASSUME Inv, FreshInv, NEW j \in Jobs, AskLLM(j)
    PROVE  FreshInv'
<1> USE DEF AskLLM, Goto, Inv, TypeOK
<1>1. /\ pc'[j] = "writeBody"
      /\ \A k \in Jobs \ {j} : UNCHANGED <<left[k], page[k], doc[k], pc[k]>>
  OBVIOUS
<1>2. doc'[j].from = page[j]
  BY DEF Extracted
<1>3. ASSUME cfg.redis PROVE JobFresh(j)'
  BY <1>1, <1>2, <1>3 DEF FreshInv, JobFresh, MissedWithin, Spent, ExtractPcs, SavePcs
<1> QED
  BY <1>1, <1>3, SameCachesFresh, JobMoves DEF caches

\* Metadata is stored, if at all, before the step that extracted it is over.
LEMMA WriteBodyFresh ==
    ASSUME Inv, FreshInv, NEW j \in Jobs, WriteBody(j)
    PROVE  FreshInv'
<1>1. /\ pc'[j] = "save" /\ left'[j] \in 0..StepTimeout
      /\ \A k \in Jobs \ {j} : UNCHANGED <<left[k], page[k], doc[k], pc[k]>>
  BY StepBegins DEF WriteBody, StepPcs, SavePcs, Inv, TypeOK
<1>2. /\ page[j] \in Pages /\ page[j].url = url[j] /\ url[j] \in URLs
      /\ left[j] \in 0..StepTimeout
      /\ doc[j] \in Docs
  BY Holdings DEF WriteBody, WithPage, WithDoc, ExtractPcs, Inv, JobData
<1>3. ASSUME cfg.redis
      PROVE  MissedWithin(page[j], CachedAge + Spent(j)) /\ doc[j].from = page[j]
  BY <1>3 DEF WriteBody, ExtractPcs, FreshInv, JobFresh
<1>4. ForCache(doc[j]) \in Docs /\ ForCache(doc[j]).from = doc[j].from
  BY <1>2, ForCacheType
<1>5. doc'[j].from = doc[j].from
  BY <1>2, <1>4, CompleteDocType DEF WriteBody, Inv, TypeOK
<1>6. ASSUME cfg.redis PROVE JobFresh(j)'
  <2>1. /\ CachedAge + Spent(j) \in Int
        /\ 2 * CachedAge + Spent(j)' \in Int
        /\ CachedAge + Spent(j) <= 2 * CachedAge + Spent(j)'
        /\ CachedAge + StepTimeout + Spent(j)' \in Int
        /\ CachedAge + Spent(j) <= CachedAge + StepTimeout + Spent(j)'
    BY <1>1, <1>2, Bounds DEF Spent
  <2>2. (MissedWithin(doc[j].from, 2 * CachedAge + Spent(j)))'
    BY <1>2, <1>3, <1>5, <1>6, <2>1, MissedLonger DEF FreshInv, WriteBody, MissedWithin
  <2>3. (MissedWithin(page[j], CachedAge + StepTimeout + Spent(j)))'
    BY <1>2, <1>3, <1>6, <2>1, MissedLonger DEF FreshInv, WriteBody, MissedWithin
  <2> QED
    BY <1>1, <2>2, <2>3 DEF JobFresh, ExtractPcs
<1>7. CachesFresh'
  <2>1. CASE UNCHANGED redisBody
    BY <2>1, SameCachesFresh DEF WriteBody
  <2>2. CASE /\ cfg.redis /\ left[j] > 0
             /\ redisBody' = [redisBody EXCEPT ![page[j].url] =
                                  [val |-> ForCache(doc[j]), life |-> CacheTTL]]
    <3>1. /\ CachedAge + Spent(j) \in Int /\ 2 * CachedAge - CacheTTL \in Int
          /\ CachedAge + Spent(j) <= 2 * CachedAge - CacheTTL
      BY <1>2, <2>2, Bounds DEF Spent
    <3>2. (MissedWithin(page[j], 2 * CachedAge - CacheTTL))'
      BY <1>2, <1>3, <2>2, <3>1, MissedLonger DEF FreshInv, WriteBody, MissedWithin
    <3>3. ASSUME NEW u \in URLs, redisBody'[u] # Nil
          PROVE  (MissedWithin(redisBody[u].val.from, 2 * CachedAge - redisBody[u].life))'
      <4>1. CASE u = url[j]
        <5>1. redisBody'[u].val.from = page[j] /\ redisBody'[u].life = CacheTTL
          BY <1>2, <1>3, <1>4, <2>2, <4>1 DEF Inv, TypeOK
        <5> QED
          BY <3>2, <5>1 DEF WriteBody, MissedWithin
      <4>2. CASE u # url[j]
        BY <1>2, <2>2, <3>3, <4>2
           DEF Inv, TypeOK, WriteBody, MissedWithin, FreshInv, CachesFresh
      <4> QED
        BY <4>1, <4>2
    <3> QED
      BY <2>2, <3>3 DEF CachesFresh, MissedWithin, WriteBody, FreshInv
  <2> QED
    BY <2>1, <2>2 DEF WriteBody
<1> QED
  BY <1>1, <1>6, <1>7, JobMoves DEF WriteBody

\* What is posted is what was about to be.
LEMMA PostDocFresh ==
    ASSUME Inv, FreshInv, NEW j \in Jobs, PostDoc(j)
    PROVE  FreshInv'
<1>1. CASE Goto(j, "posted") /\ UNCHANGED locals
  <2> USE <1>1 DEF PostDoc, Goto, Inv, TypeOK, locals
  <2>1. \A k \in Jobs \ {j} : UNCHANGED <<left[k], page[k], doc[k], pc[k]>>
    OBVIOUS
  <2>2. ASSUME cfg.redis PROVE JobFresh(j)'
    BY <2>2 DEF FreshInv, JobFresh, MissedWithin, Spent, ExtractPcs, SavePcs
  <2> QED
    BY <2>1, <2>2, SameCachesFresh, JobMoves DEF caches
<1>2. CASE Fail(j)
  BY <1>2, DropFresh DEF PostDoc, caches
<1> QED
  BY <1>1, <1>2 DEF PostDoc

\* A job that is done holds nothing.
LEMMA SaveReturnsFresh ==
    ASSUME Inv, FreshInv, NEW j \in Jobs, SaveReturns(j)
    PROVE  FreshInv'
<1> USE DEF SaveReturns, Goto, Drop, Inv, TypeOK
<1>1. pc'[j] \notin WithPage
  BY DEF WithPage, ExtractPcs, SavePcs
<1>2. \A k \in Jobs \ {j} : UNCHANGED <<left[k], page[k], doc[k], pc[k]>>
  OBVIOUS
<1> QED
  BY <1>1, <1>2, IdleJobFresh, SameCachesFresh, JobMoves DEF caches

\* Steps that touch no job's variables and no cache.
LEMMA QuietFresh ==
    ASSUME FreshInv, UNCHANGED <<cfg, site, redisPage, redisBody, pc, locals>>
    PROVE  FreshInv'
<1>1. \A j \in Jobs : UNCHANGED <<left[j], page[j], doc[j], pc[j]>>
  BY DEF locals
<1> QED
  BY <1>1, SameJobFresh, SameCachesFresh DEF FreshInv

\* A new process has no jobs; what is in Redis is as old as it was.
LEMMA RestartFresh ==
    ASSUME Inv, FreshInv, Restart
    PROVE  FreshInv'
<1>1. \A j \in Jobs : pc'[j] \notin WithPage
  BY DEF Restart, Inv, TypeOK, WithPage, Running, StepPcs, ExtractPcs, SavePcs,
         FetchPcs, Ended
<1> QED
  BY <1>1, IdleJobFresh, SameCachesFresh DEF Restart, FreshInv, caches

\* An edit is missed by whatever was fetched before, but has only just happened.
LEMMA SiteChangesFresh ==
    ASSUME Inv, FreshInv, NEW u \in URLs, SiteChanges(u)
    PROVE  FreshInv'
<1>2. \A p \in Pages, n \in Nat : MissedWithin(p, n) => (MissedWithin(p, n))'
  BY MissedAfterEdit
<1>3. CachesFresh'
  <2>1. ASSUME NEW v \in URLs, redisPage[v] # Nil
        PROVE  MissedWithin(redisPage[v].val, CachedAge - redisPage[v].life)'
    <3>1. redisPage[v].val \in Pages /\ redisPage[v].life \in 1..CacheTTL
      BY <2>1, Holdings
    <3>2. CachedAge - redisPage[v].life \in Nat
      BY <3>1, Bounds
    <3>3. MissedWithin(redisPage[v].val, CachedAge - redisPage[v].life)
      BY <2>1 DEF FreshInv, CachesFresh
    <3> QED
      BY <1>2, <3>1, <3>2, <3>3 DEF SiteChanges, caches, MissedWithin
  <2>2. ASSUME NEW v \in URLs, redisBody[v] # Nil
        PROVE  MissedWithin(redisBody[v].val.from, 2 * CachedAge - redisBody[v].life)'
    <3>1. redisBody[v].val.from \in Pages /\ redisBody[v].life \in 1..CacheTTL
      BY <2>2, Holdings
    <3>2. 2 * CachedAge - redisBody[v].life \in Nat
      BY <3>1, Bounds
    <3>3. MissedWithin(redisBody[v].val.from, 2 * CachedAge - redisBody[v].life)
      BY <2>2 DEF FreshInv, CachesFresh
    <3> QED
      BY <1>2, <3>1, <3>2, <3>3 DEF SiteChanges, caches, MissedWithin
  <2> QED
    BY <2>1, <2>2 DEF CachesFresh, SiteChanges, caches
<1>4. ASSUME cfg.redis, NEW j \in Jobs PROVE JobFresh(j)'
  <2> USE DEF SiteChanges, locals, Spent
  <2>1. JobFresh(j)
    BY <1>4 DEF FreshInv
  <2>2. ASSUME pc[j] \in WithPage, NEW n \in Nat, MissedWithin(page[j], n)
        PROVE  page'[j].ver # site'[page'[j].url].ver =>
                    site'[page'[j].url].quiet <= n
    BY <1>2, <2>2, Holdings DEF MissedWithin
  <2>3. ASSUME pc[j] \in WithDoc, NEW n \in Nat, MissedWithin(doc[j].from, n)
        PROVE  doc'[j].from.ver # site'[doc'[j].from.url].ver =>
                    site'[doc'[j].from.url].quiet <= n
    BY <1>2, <2>3, Holdings DEF MissedWithin
  <2>4. /\ Spent(j) \in Nat /\ CachedAge + Spent(j) \in Nat
        /\ 2 * CachedAge + Spent(j) \in Nat /\ CachedAge + StepTimeout + Spent(j) \in Nat
        /\ UNCHANGED <<pc[j], Spent(j)>>
    BY Bounds, Holdings
  <2>5. pc[j] = "writePage" => MissedWithin(page[j], Spent(j))'
    BY <2>1, <2>2, <2>4 DEF JobFresh, MissedWithin, WithPage
  <2>6. pc[j] \in ExtractPcs => MissedWithin(page[j], CachedAge + Spent(j))'
    BY <2>1, <2>2, <2>4 DEF JobFresh, MissedWithin, WithPage
  <2>7. pc[j] \in SavePcs => MissedWithin(doc[j].from, 2 * CachedAge + Spent(j))'
    BY <2>1, <2>3, <2>4 DEF JobFresh, MissedWithin, WithDoc
  <2>8. pc[j] \in SavePcs => MissedWithin(page[j], CachedAge + StepTimeout + Spent(j))'
    BY <2>1, <2>2, <2>4 DEF JobFresh, MissedWithin, WithPage
  <2> QED
    BY <2>1, <2>4, <2>5, <2>6, <2>7, <2>8 DEF JobFresh
<1> QED
  BY <1>3, <1>4 DEF FreshInv, SiteChanges

\* An entry that is left after a tick has a shorter life by one.
LEMMA AgedShorter ==
    ASSUME NEW c, NEW u \in URLs, Aged(c)[u] # Nil
    PROVE  c[u] # Nil /\ Aged(c)[u].val = c[u].val /\ Aged(c)[u].life = c[u].life - 1
<1>1. CASE c[u] = Nil \/ c[u].life = 1
  BY <1>1 DEF Aged
<1>2. CASE ~(c[u] = Nil \/ c[u].life = 1)
  <2>1. Aged(c)[u] = [val |-> c[u].val, life |-> c[u].life - 1]
    BY <1>2 DEF Aged
  <2> QED
    BY <1>2, <2>1
<1> QED
  BY <1>1, <1>2

\* A tick makes every missed edit older by one, and the life of what misses it, or
\* the budget of who holds it, shorter by one.
LEMMA TickFresh ==
    ASSUME Inv, FreshInv, Tick
    PROVE  FreshInv'
<1>2. \A p \in Pages, n \in Int : MissedWithin(p, n) => (MissedWithin(p, n + 1))'
  BY MissedAfterTick
<1>3. CachesFresh'
  <2>1. ASSUME NEW v \in URLs, redisPage'[v] # Nil
        PROVE  MissedWithin(redisPage[v].val, CachedAge - redisPage[v].life)'
    <3>1. /\ redisPage[v] # Nil /\ redisPage'[v].val = redisPage[v].val
          /\ redisPage'[v].life = redisPage[v].life - 1
      BY <2>1, AgedShorter DEF Tick
    <3>2. redisPage[v].val \in Pages /\ redisPage[v].life \in 1..CacheTTL
      BY <3>1, Holdings
    <3>3. /\ CachedAge - redisPage[v].life \in Int
          /\ CachedAge - redisPage'[v].life = CachedAge - redisPage[v].life + 1
      BY <3>1, <3>2, Bounds
    <3>4. MissedWithin(redisPage[v].val, CachedAge - redisPage[v].life)
      BY <3>1 DEF FreshInv, CachesFresh
    <3> QED
      BY <1>2, <3>1, <3>2, <3>3, <3>4 DEF MissedWithin
  <2>2. ASSUME NEW v \in URLs, redisBody'[v] # Nil
        PROVE  MissedWithin(redisBody[v].val.from, 2 * CachedAge - redisBody[v].life)'
    <3>1. /\ redisBody[v] # Nil /\ redisBody'[v].val = redisBody[v].val
          /\ redisBody'[v].life = redisBody[v].life - 1
      BY <2>2, AgedShorter DEF Tick
    <3>2. redisBody[v].val.from \in Pages /\ redisBody[v].life \in 1..CacheTTL
      BY <3>1, Holdings
    <3>3. /\ 2 * CachedAge - redisBody[v].life \in Int
          /\ 2 * CachedAge - redisBody'[v].life = 2 * CachedAge - redisBody[v].life + 1
      BY <3>1, <3>2, Bounds
    <3>4. MissedWithin(redisBody[v].val.from, 2 * CachedAge - redisBody[v].life)
      BY <3>1 DEF FreshInv, CachesFresh
    <3> QED
      BY <1>2, <3>1, <3>2, <3>3, <3>4 DEF MissedWithin
  <2> QED
    BY <2>1, <2>2 DEF CachesFresh
<1>4. ASSUME cfg.redis, NEW j \in Jobs PROVE JobFresh(j)'
  <2>1. JobFresh(j)
    BY <1>4 DEF FreshInv
  <2>2. UNCHANGED <<pc[j], page[j], doc[j]>>
    BY DEF Tick
  <2>3. CASE pc[j] \notin StepPcs
    BY <2>2, <2>3, IdleJobFresh DEF WithPage, StepPcs, FetchPcs, ExtractPcs
  <2>4. CASE pc[j] \in StepPcs
    <3>1. left'[j] = left[j] - 1
      BY <2>4 DEF Tick, Inv, TypeOK
    <3>2. /\ Spent(j) \in Int /\ Spent(j)' = Spent(j) + 1
          /\ CachedAge + Spent(j) \in Int
          /\ CachedAge + Spent(j)' = (CachedAge + Spent(j)) + 1
          /\ 2 * CachedAge + Spent(j) \in Int
          /\ 2 * CachedAge + Spent(j)' = (2 * CachedAge + Spent(j)) + 1
          /\ CachedAge + StepTimeout + Spent(j) \in Int
          /\ CachedAge + StepTimeout + Spent(j)' = (CachedAge + StepTimeout + Spent(j)) + 1
      BY <3>1, Bounds, Holdings DEF Spent
    <3>3. ASSUME pc[j] \in WithPage, NEW n \in Int, MissedWithin(page[j], n)
          PROVE  page'[j].ver # site'[page'[j].url].ver =>
                    site'[page'[j].url].quiet <= n + 1
      BY <1>2, <2>2, <3>3, Holdings DEF MissedWithin
    <3>4. ASSUME pc[j] \in WithDoc, NEW n \in Int, MissedWithin(doc[j].from, n)
          PROVE  doc'[j].from.ver # site'[doc'[j].from.url].ver =>
                    site'[doc'[j].from.url].quiet <= n + 1
      BY <1>2, <2>2, <3>4, Holdings DEF MissedWithin
    <3>5. pc[j] = "writePage" => MissedWithin(page[j], Spent(j))'
      BY <2>1, <3>2, <3>3 DEF JobFresh, MissedWithin, WithPage
    <3>6. pc[j] \in ExtractPcs => MissedWithin(page[j], CachedAge + Spent(j))'
      BY <2>1, <3>2, <3>3 DEF JobFresh, MissedWithin, WithPage
    <3>7. pc[j] \in SavePcs => MissedWithin(doc[j].from, 2 * CachedAge + Spent(j))'
      BY <2>1, <3>2, <3>4 DEF JobFresh, MissedWithin, WithDoc
    <3>8. pc[j] \in SavePcs => MissedWithin(page[j], CachedAge + StepTimeout + Spent(j))'
      BY <2>1, <3>2, <3>3 DEF JobFresh, MissedWithin, WithPage
    <3> QED
      BY <2>1, <2>2, <3>5, <3>6, <3>7, <3>8 DEF JobFresh
  <2> QED
    BY <2>3, <2>4
<1> QED
  BY <1>3, <1>4 DEF FreshInv, Tick

-----------------------------------------------------------------------------
\* Every step keeps what is remembered young.
LEMMA FreshNextInv == Inv /\ FreshInv /\ [Next]_vars => FreshInv'
<1> SUFFICES ASSUME Inv, FreshInv, [Next]_vars PROVE FreshInv'
  OBVIOUS
<1>1. ASSUME NEW j \in Jobs, JobStep(j) PROVE FreshInv'
  <2>1. ASSUME TimeOut(j) PROVE FreshInv'
    BY <2>1, DropFresh DEF TimeOut, caches
  <2> QED
    BY <1>1, <2>1, BeginFresh, ReadPageFresh, WritePageFresh, ReadBodyFresh,
       WriteBodyFresh, PostDocFresh DEF JobStep
<1>2. ASSUME NEW j \in Jobs, PeerStep(j) PROVE FreshInv'
  <2>1. ASSUME CallFails(j) PROVE FreshInv'
    BY <2>1, DropFresh DEF CallFails, caches
  <2>2. ASSUME ReadwiseSaves(j) \/ ReadwiseRefuses(j) PROVE FreshInv'
    BY <2>2, QuietFresh DEF ReadwiseSaves, ReadwiseRefuses, Answer, caches
  <2> QED
    BY <1>2, <2>1, <2>2, FetchPageFresh, AskLLMFresh, SaveReturnsFresh DEF PeerStep
<1>3. ASSUME NEW j \in Jobs, Notify(j) PROVE FreshInv'
  BY <1>3, QuietFresh DEF Notify, caches
<1>4. CASE UNCHANGED vars
  BY <1>4, QuietFresh DEF vars, caches
<1> QED
  BY <1>1, <1>2, <1>3, <1>4, SpawnFresh, RestartFresh, SiteChangesFresh, TickFresh DEF Next

\* However jobs share pages and summaries through Redis, an article is saved with
\* fields that miss no edit older than two lifetimes of the cache and three steps.
THEOREM AlwaysSavedFresh == Spec => []SavedFresh
<1>1. Spec => []FreshInv
  BY InitInv, NextInv, FreshInitInv, FreshNextInv, PTL DEF Spec
<1>2. Inv /\ FreshInv => SavedFresh
  <2> SUFFICES ASSUME Inv, FreshInv, NEW j \in Jobs, cfg.redis, pc[j] \in SavePcs
               PROVE  /\ MissedWithin(doc[j].from, 2 * CachedAge + StepTimeout)
                      /\ MissedWithin(page[j], CachedAge + 2 * StepTimeout)
    BY DEF SavedFresh
  <2>1. JobFresh(j)
    BY DEF FreshInv
  <2>2. page[j] \in Pages /\ doc[j].from \in Pages
    BY Holdings DEF WithPage, WithDoc
  <2>3. /\ site[page[j].url].quiet \in Nat
        /\ site[doc[j].from.url].quiet \in Nat
    BY <2>2, QuietOf
  <2>4. Spent(j) \in Int /\ Spent(j) <= StepTimeout
    BY Bounds, Holdings DEF Spent
  <2> QED
    BY <2>1, <2>3, <2>4, Bounds DEF JobFresh, MissedWithin
<1> QED
  BY <1>1, <1>2, Invariance, PTL
=============================================================================
