----------------------------- MODULE Freshness -----------------------------
(***************************************************************************)
(* How old an article may be that the pipeline saves.  A page is fetched,  *)
(* cached, read by another job, summarised, the summary cached and read by *)
(* a third, each within its own lifetime or timeout; the article may be    *)
(* edited at any time.                                                     *)
(***************************************************************************)
EXTENDS Pipeline

\* A page on its way through the Redis cache is at most so old, from the edit it
\* misses to its expiry.
CachedAge == StepTimeout + CacheTTL - 1

\* An edit that page p misses is at most n ticks old.
MissedWithin(p, n) == p.ver # site[p.url].ver => site[p.url].quiet <= n

\* With Redis, a document about to be saved misses no edit that is older than two
\* lifetimes of the cache and three steps, whoever fetched and summarised it, and
\* its html none that is older than one lifetime and three steps.
SavedFresh ==
    \A j \in Jobs : cfg.redis /\ pc[j] \in SavePcs =>
        /\ MissedWithin(doc[j].from, 2 * CachedAge + StepTimeout)
        /\ MissedWithin(page[j], CachedAge + 2 * StepTimeout)

\* What makes it inductive: how long an edit can have been missed by what is in
\* the caches and in the hands of the jobs.
CachesFresh ==
    \A u \in URLs :
        /\ redisPage[u] # Nil =>
               MissedWithin(redisPage[u].val, CachedAge - redisPage[u].life)
        /\ redisBody[u] # Nil =>
               MissedWithin(redisBody[u].val.from, 2 * CachedAge - redisBody[u].life)

\* How long ago job j's present step began, at most.
Spent(j) == StepTimeout - left[j]

JobFresh(j) ==
    /\ pc[j] = "writePage" => MissedWithin(page[j], Spent(j))
    /\ pc[j] \in ExtractPcs => MissedWithin(page[j], CachedAge + Spent(j))
    /\ pc[j] = "writeBody" => doc[j].from = page[j]
    /\ pc[j] \in SavePcs =>
           /\ MissedWithin(doc[j].from, 2 * CachedAge + Spent(j))
           /\ MissedWithin(page[j], CachedAge + StepTimeout + Spent(j))

FreshInv == CachesFresh /\ (cfg.redis => \A j \in Jobs : JobFresh(j))
=============================================================================
