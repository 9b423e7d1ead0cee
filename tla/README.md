# wecom-robot: models, checks and proofs

TLA+ modules for the WeCom robot that saves links to Readwise Reader, the TLC
instances that check them, and the theorems TLAPS proves about them. Paths are
relative to the repository; `processor.go` is `internal/reader/processor.go`.

## The system

| component | state it keeps | operations | talks to |
|---|---|---|---|
| HTTP handlers (`internal/server/handlers.go`) | none | `POST /` (WeCom callback), `GET /` (URL verification, health), `POST /url` | start one goroutine per accepted link, then answer |
| Processor (`processor.go`) | its local variables per job; caches outside | `ProcessURL`: fetch, extract, save, notify | MCP client, LLM, Readwise, caches, notifier |
| page cache | Redis `page:` entries with a TTL, or files `hash.page.json` without one | read, write (best effort) | shared by all jobs and all processes |
| metadata ("body") cache | Redis `body:` entries with a TTL, nothing without Redis | read, write (best effort) | shared by all jobs and all processes |
| MCP client (`internal/mcpclient`) | one session per fetch | `FetchURL` | MCP server |
| Notifier (`internal/wecom/notifier.go`) | mutex, access token, its expiry | `SendTextCard`, `token` | WeCom API, called from goroutines of finished jobs |
| message encryption (`internal/wecom/wxbizmsgcrypt.go`) | none | verify, decrypt, encrypt | handlers |
| configuration and start (`internal/config`, `cmd/wecom-robot`) | `Config`, read once | `FromEnv`, directory checks | everything |
| timeouts (`internal/params`) | constants | | Processor, MCP client |
| image scan (`processor.go:691-855`) | none | `firstMetaImageURL`, `firstImageURL` | Processor |
| trace files (`processor.go:467-487`) | files, never read | `makeTraceDir`, `traceWrite` | Processor |

What is hard: a job is a goroutine that nobody waits for and that dies with the
process; jobs for the same link run side by side and share two caches that are
filled and expire separately; three step timeouts of 5 minutes meet a pipeline
timeout of 10; a request may be carried out though its answer never arrives; a
restart may find another configuration but the same caches; notifications wait
for a mutex that is held during an HTTP request; all jobs of a link write the
same temporary file.

What makes each part correct:

- *pipeline*: what is saved for a link is the article at that link, complete,
  where the configuration says; in time; at most once per accepted link; the
  sender is told of saved articles only; every accepted link is dealt with.
- *caches*: entries never mix links; a later hit loses nothing; a bad entry
  does not stay forever; files are whole or absent.
- *notifier*: one token request at a time; a token does not run out under a
  card; no request outlives its call's context; every call returns.
- *handlers*: an acknowledged link has a job, which ends; the answer never waits
  for a job; what is saved or told goes back to a delivery.
- *MCP client*: a fetch is an error or the article as of some moment of the fetch;
  no session is left behind without a word; every fetch returns.
- *start*: a directory stays enabled only if this process found it writable, and is
  used under the name that was checked (it is not always: see Findings); the check
  leaves nothing behind.
- *encryption*: what one end seals the other opens, at every length; what is
  returned was signed, is for us and lies inside the text.
- *image*: the first acceptable one of the html, found without leaving the html.

`PROJECT.json` lists the hazards with their lines and the properties that guard
against them.

## The modules

| module | what it is |
|---|---|
| `Pipeline` | the jobs, both Redis caches, the file cache as one entry per link, the peers, restarts, time |
| `Freshness` | how old an article may be that `Pipeline` saves |
| `Delivery` | what the sender of a link is promised, without any of that; `Pipeline` implements it |
| `Callback` | the HTTP handlers, the senders with their repetitions, the network between them |
| `Robot` | `Callback` composed with `Delivery`: deliveries start jobs |
| `McpFetch` | `FetchURL`: the session of one fetch, request by request |
| `Fetch` | the one step `Pipeline` takes for it; `McpFetch` implements it |
| `Notifier` | `SendTextCard` and `token` |
| `FileCache` | the cache file of one link at the level of system calls |
| `PageEntry` | the one entry that file stands for; `FileCache` implements it |
| `Startup` | `FromEnv`, the checks of `main`, kills and restarts |
| `MsgCrypt` | `EncryptMsg`, `DecryptMsg`, `VerifyURL`: lengths, bounds, order of checks |
| `ImageScan` | the scan of the html for an image: offsets, order of attributes |
| `PipelineProofs`, `FreshnessProofs`, `RobotProofs`, `McpFetchProofs`, `NotifierProofs`, `FileCacheProofs`, `StartupProofs`, `PureProofs` | theorems and proofs |
| `MCPipeline`, `MCRobot`, `MCMcpFetch`, `MCNotifier`, `MCFileCache`, `MCStartup`, `MCPure` | instances for TLC |

How they fit together: `Callback` starts jobs that `Robot` describes by `Delivery`;
`Pipeline` implements `Delivery`; the one-step `callMCP` of `Pipeline` is `Fetch`,
which `McpFetch` implements; its page entry, read and written
in one step each, is the one of `PageEntry`, which `FileCache` implements as long as
writers do not overlap; its `notify` goroutine is one of the senders of
`Notifier`. The configurations of `Pipeline` are those `Startup` can produce.

### Pipeline

One job is one run of `ProcessURL`; `pc[j]` is the call it is in:

    queued -> readPage -> callMCP -> writePage      fetch   (fetchPage)
           -> readBody -> callLLM -> writeBody      extract (extractMetadata)
           -> save -> posted -> done                save    (saveToReadwise)

ending in `done`, `failed` (an error return) or `lost` (the process died). Each
arrow is an action, so that jobs interleave at every access to a cache and every
remote call. `page`, `doc` are the goroutine's variables, `age` and `left` its
two contexts; `post` and `answer` are the request at Readwise, which outlives the
job; `notify` is the goroutine that sends the card.

Data is kept to what the properties tell apart. A page is its link, the version of
the article it shows and whether its metadata is complete. A document is its url,
the page it was extracted from, whether the fields with a fallback are filled, its
location and its html. What the LLM puts into html and location is `Untrusted`,
and its url is any or none. Cache keys are `(kind, link)`: SHA-256 is taken to be
injective. Files are one atomic entry here; `FileCache` says when they are. An article at a site
is its version and the time since its last edit.

Every cache failure is a miss or a write that does not happen; every remote call
may fail, never return, or, at Readwise, succeed without its answer arriving.
`Restart` keeps Redis, files and requests underway, and picks any configuration.

### Freshness

A page is fetched, cached, read by a second job, summarised, the summary cached and
read by a third, while the article is edited: there is no version or date in the code
that would keep the two entries of a link together. `site[u].quiet` is the time since
the last edit of the article at `u`, which the program does not know and no step of it
looks at. `SavedFresh` says that what is saved misses no edit that is older than

    fields   2 lifetimes of the cache and 3 steps, less 2 ticks
    html     1 lifetime and 3 steps, less 1 tick

whatever jobs handed it on. With the code's 5-minute steps that is two TTLs and a
quarter of an hour. It holds for Redis only: files never expire, so a page cached
there is used for ever.

### Notifier

`holder` is the mutex. Whoever finds it free takes it, in any order: a `sync.Mutex`
lets a newcomer overtake a waiter that has to be woken first, and hands itself to the
first waiter only after that one has lost for a millisecond, so no order is assumed. It
is held over `gettoken` only; a call that finds the cached token usable takes and
releases it in one step. Waiting does not look at the context, so a call may take
longer than its 15 seconds. But every request gets the context, spent or not, and
`RequestsInTime` says that none outlives it: who waited the context away sends no card.
`age` therefore stops at the context's end.

A token is represented by the life it has left at WeCom, so that "used after it
expired" is a question about numbers that count down. `Revoke` withdraws all tokens.
An answer with errcode 0 and an empty token is cached and used like any other (`Nil`
in `reply` and `life`); since an empty `accessToken` is not reused, the next call asks
again. `AskFails` stands for every error of `gettoken`, `SendReturns` for every way the
send request ends.

### FileCache

Names point to inodes and jobs hold inodes, as in `os.WriteFile` (open, create or
truncate, write, close), `os.Rename` and `os.ReadFile`. A page is a sequence of
blocks; a write puts all of them at the beginning of the file and leaves what lies
behind, as Linux file systems do under the inode's lock; reads take one block at
a time. A write may fail or be cut short by a crash. `shared` records which files were
opened for writing while another job was between its open and its rename.

`PageEntry` has neither names nor files: one entry, which is the page of the job that
stored it last, and jobs that look it up, miss, store or give up. Jobs that store at
the same time clash, and what they leave is torn. `IsEntry` maps the file to it: the
entry is the page the file under the final name holds, a lookup is decided when the
file is opened, a store when it is renamed. A lookup of what is whole is a hit, with
all of that page; so a reader never misses because of a writer, and a failed write
or a crash leaves the entry as it was.

### Callback and Robot

A delivery is a request and the number of its attempt, and one goroutine of
`net/http`: `sent -> handling -> replying -> answered -> over`. What a request turns
out to be, after method, signature, decryption and parsing, is its form; `Answers`
lists what the code may write for each. WeCom repeats a message it got no answer to
(`TryAgain`), at any time and up to `MaxDeliveries`, while earlier attempts may
still be handled; a client of `POST /url` does not repeat. The URL verification may
succeed (`verify`) or fail (`badverify`: 403). `Panics` is a handler that net/http
recovers, of a message or a verification that was encrypted with another key. The start of the job and the answer are separate steps, so
that a crash may come between them.

In `Robot` a job is known by its delivery: the code does not remove repetitions, and
neither does the model. Handlers and jobs share the steps in which a handler accepts
and in which the process dies. `Reply` is the handler's answer, which looks at no job:
the fairness of `robot` makes no job end, so `NeverBlocked` fails if a handler calls
`ProcessURL` instead of starting it. Only `AckedEnds` has a premise, `JobsEnd`.

### McpFetch

`start -> check -> initialize -> notify -> call -> close -> returned` is `FetchURL`;
`cli.Initialize` is two of its three requests, `initialize`, whose answer brings the
session, and the notification that the client is initialized. Each may fail; after the
first the deferred `Close` has a session to end. `wire[f]` holds the request or answer
between client and server. A request that was
given up is still handled, its answer finds nobody, and a session whose answer was
lost stays with the server without the client's knowing of it (`known`). The tool's
name is compared after the transport was started, as in the code. `since[f]`
remembers the article's version when the fetch began. `Pipeline` takes the page in
one step; the refinement says which: the one in which the tool read the article.

### Startup

One step per system call of `ensureDirWritable`; `env` is drawn again at every
start, the disk stays. `errors` holds what `WriteString` and `Close` returned, which
the code looks at only after both. A setting is empty, blank, plain, or padded with
white space, because `main` takes it as it is and the Processor trims it first
(`Trimmed`). `EnabledPassed` is what `main` achieves: what it leaves enabled passed
under its name in `Config`. `CheckedBeforeUse` is what the checks are for, that what the
Processor writes to passed, and does not hold (see Findings).

### MsgCrypt

Texts are numbers: their length, length field, last byte, and where a receiver id
begins. What was not written by `EncryptMsg` may have any. `uint32` sums wrap
(`Sum32`, width `Word`), and bounds that are out of order panic, as Go's slices do.
Checks come in the order of the code, since the first that fails names the error.

### ImageScan

Html is a sequence of tags and texts, each with the byte where it ends in the html and
in the lower-cased copy (`U+023A` grows from two bytes to three, `U+212A` shrinks from
three to one, a byte that is no UTF-8 becomes three), and whether each of its
characters keeps its width; `IsPage` says how these go together. A tag found in the lower-cased copy is
the same tag in the html only if nothing before or in it changed its width;
otherwise any value or none may be read, or the slice ends behind the html.

## The runs

TLC with two workers; every passing run is exhaustive within its bounds.

| run | instance | shows |
|---|---|---|
| `caches` | 2 jobs, 1 link, one edit, steps of 1 tick in a pipeline of 2, TTL 1; 2.7M states | `TypeOK`, `OnTime`, `CardsOnlyForSaved`, `SavedFresh`, `KeepsPromise` (`Pipeline` implements `Delivery`) |
| `links` | 2 jobs, 2 links, Redis, files, one setting missing, another location, TTL 2; 4.8M states | `DocsReady`, `CachesKeyed`, `PostedSound` |
| `live` | 2 jobs, 1 link, TTL 2, a tool that is supported or not | `EveryJobEnds`, `PoisonExpires` |
| `robot` | 1 request of any form, 3 deliveries | `RobotTypeOK`, `AckedHasJob`, `SavesAccountedFor`, `NeverBlocked`, `AckedEnds` |
| `mcpfetch` | 2 fetches, 2 edits, any tool | `TypeOK`, `SessionsSound`, `FetchReturns`, `IsFetch` |
| `notifier` | 3 goroutines, lifetimes 40 and 50, context 3, client 2; 0.2M states | `TypeOK`, `SingleFlight`, `TokenOutlivesCard`, `RequestsInTime`, `EveryCallReturns`, `RevokedGivenUp` |
| `filecache` | 4 jobs, 5 inodes, pages of 1 or 2 blocks | `TypeOK`, `WholeUnlessShared`, `ReadersSeeWhole`, `IsEntry` (`FileCache` implements `PageEntry`) |
| `startup` | 3 starts, every environment | `TypeOK`, `EnabledPassed`, `LitterExplained` |
| `pure` | messages of 0 to 80 bytes, ids of 0, 12, 12 and 19; texts up to 96 bytes; pages of two tags | `RoundTrip`, `OpenedSound`, `FirstImage` |
| `url`, `filecache_torn`, `startup_unchecked` | 1 or 2 jobs; 1 start | findings, see below |

Bounds. Two jobs are enough for a cache: one fills an entry, the other uses it
while the first goes on; the proofs cover any number. (Only `SavedFresh` needs a third
for its worst case, in which one fetches, one summarises and one saves.) Steps of one tick in a
pipeline of two keep the code's proportion (5 and 10 minutes), in which the third
step may start with nothing left. `MaxVersion` bounds how often an article is
edited, once in `caches`; where it is 0 pages still differ in link and completeness. All times are
countdowns or ages bounded by the timeouts, so nothing else has to be cut off. The
notifier's lifetimes are short but keep the margin of `MarginAssumption`, which
WeCom's 7200s and the code's 10s fulfil. The file cache needs two writers, a reader
that holds a replaced file and a fourth job to reuse what they left; five inodes are
as many as four jobs and two names can hold. Requests do not influence each other in
`robot` but by the process dying, so one request with three deliveries has every
interleaving of a message with its own repetitions; the proofs cover any number.
Three starts let a process find what two earlier ones left. In `pure` a uint32 is one
byte, so that lengths around its end are reached; block sizes are the real ones, and
the messages cover two blocks and a half. Pages have one text and up to two tags:
a tag that is displaced, one that is passed over, and what comes behind.

Symmetry is used for jobs and inodes where no liveness is checked (`caches`, `links`,
`filecache`). Deadlock checking is off where everything comes to an end: the file
cache, the fetches, the start, the pure functions.

Fairness. Goroutines that can run do (`WF` on what a job, a handler, a fetch or a call
does by itself, the expiry of its contexts included), and time passes. In `Robot` no
job has to end; `AckedEnds` takes that they do as its premise (`JobsEnd`), which is what
`EveryJobEnds` shows of `Pipeline`, crashes aside. A goroutine of `Notifier` that waits
for a mutex that is free again and again gets it some time (`SF`): the starvation mode of
`sync.Mutex` sees to that. No peer is fair: MCP, LLM, Readwise, WeCom and the network may never answer. Time does
not pass over an expired context, which is what `context.WithTimeout` and
`http.Client.Timeout` give up to scheduling delays.

`live` has no more jobs than two: a hit does not extend an entry's life and a new
entry is written only after a miss. `PoisonExpires` says that a bad entry goes, not
that the link is well from then on: the next answer of the LLM may be as bad.

## What is proved

For every number of jobs, links, members, goroutines, requests, deliveries, fetches,
starts and inodes, and for all timeouts and lengths, under the named assumptions
(`TimeAssumption`: timeouts are positive; `PagesAssumption`: pieces of html end one
after the other, and where lower-casing keeps every character's width the copy runs
along with the html; `ConfigAssumption`; `NullAssumption`,
`ReplyAssumption`, `NobodyAssumption`: null values are no values;
`MarginAssumption`: a tenth of a token's lifetime covers two requests;
`BlocksAssumption`; `WordAssumption`: messages are shorter than 4 GB):

- `PipelineProofs`: `Invariance`, and from it `TypeCorrect`, `CachesAlwaysKeyed`,
  `DocsAlwaysReady`, `AlwaysOnTime`, `CardsAlwaysForSaved`, `PostedAlwaysSound`;
  and `PipelineKeepsPromise`, that `Pipeline` implements
  `Delivery`. The properties are not inductive: that a document about to be saved
  is right depends on what the job held at every point before, and that depends on
  the caches. `JobData` says what a job holds at each point of `ProcessURL`,
  `Requests` how a job's point and its request at Readwise belong together
  (a request outlives a failed job, but a `done` job's was saved). Their
  conjunction with the properties is `Inv`. There is one lemma per action.
  The refinement proof shows each action to be one of `Delivery`'s or unseen.
- `RobotProofs`: `AckedHasJob` for the handlers alone and in the
  composition, and `SavesAlwaysAccountedFor`. A good answer implies a
  job only by way of what the handler wrote: `AnswersSound` ties answers, stages
  and started jobs together.
- `McpFetchProofs`: `SessionsAlwaysSound`, `TypeCorrect`, and `SessionIsFetch`, that a
  session implements `Fetch`. `WiresSound` says what can be underway at each point,
  so that an answer is never that of another request, and that a version on the
  wire is one published since the fetch began.
- `NotifierProofs`: `TypeCorrect`, `AlwaysSingleFlight`, `TokensAlwaysOutliveCards`,
  `RequestsAlwaysInTime`. `MutexSound` says that who asks for a token holds the mutex
  and that only who asks or sends has a request on its way. No order of the waiters is
  needed for any of them, and none is assumed.
  `TokensSound` splits the margin: an answer loses at most one request's time
  underway, and what is left when `tokenExpiry` is reached is one request's.
- `FreshnessProofs`: `AlwaysSavedFresh`. `FreshInv` follows a page on its way: how long
  an edit can have been missed by a page just fetched, by an entry with so much life
  left, by a job with so much of its step left. A tick adds one to the first number and
  takes one from the second, an edit sets the first to nothing, and at each hand-over
  what is left of a step or of a life bounds what comes next. It rests on `Inv`.
- `FileCacheProofs`: `TypeCorrect`, `UnsharedFilesWhole`, `ReadersAlwaysSeeWhole`, and
  `FileIsEntry`, that the file implements `PageEntry`, step by step.
  `TmpOwned` is the argument: while the temporary file is not shared, the only job
  that writes is the one that opened it, so what it renames is its own page.
- `StartupProofs`: `TypeCorrect`, `EnabledAlwaysPassed`, `LitterAlwaysExplained`.
  `DoneChecked` follows `main` from one directory to the next; `OpenFileThere` keeps
  the count of files from going below zero.
- `PureProofs`: `RoundTripAlways`, `OpenedAlwaysSound`. `SealedText` collects what
  padding and lengths amount to in a text of `EncryptMsg`, `ParsedInside` why the
  comparison in uint32 suffices: a sum that wrapped is smaller than the head, and the
  slice panics instead of returning what it should not. `FirstImageAlways`, for html of
  any length: `Searched` says that no pass
  leaves an image behind it, and that the second starts only when the first found none.

Model-checked only: the liveness properties under fairness (`EveryJobEnds`,
`PoisonExpires`, `NeverBlocked`, `AckedEnds`, `FetchReturns`, `EveryCallReturns`,
`RevokedGivenUp`), since fairness and `ENABLED` are out of this prover's reach. Every
safety property of a passing run is also a theorem.

## Findings

- `url`: `ReadwiseDocument.URL` is "Required: the URL of the article"
  (`processor.go:34`); the url is whatever the LLM answered, or nothing
  (`processor.go:338`). Such a document is posted and cached.
- `startup_unchecked`: `main` checks directories at the start "to avoid silent
  failures" (`main.go:21`), and the cache directory is "only used when Redis is not
  configured" (`main.go:35`). With a `REDIS_ADDR` of white space `main.go:36` skips the
  check, and `processor.go:63` takes no Redis and uses the files. With white space around
  a directory's name `main.go:24,38` check one directory and `processor.go:469,1056` use
  another.
- `filecache_torn`: `writePageCache` "saves complete Page" (`processor.go:996`);
  two jobs for one link share the temporary file (`processor.go:1021`), and the
  shorter page may be published with the end of the longer one, with every write
  reported successful. The next job that finds it repairs it: it does not parse.

Divergences met while modelling that no run states on its own; the models follow the
code:

- README.md:64 promises "其余消息：直接返回明文 success" for all messages that are no
  text with a link; `handlers.go:210-224` encrypts `OK` for everything but events and
  what does not parse (`Answers` in `Callback`).
- README.md:46 names `scrape_wechat_article` as the default of `MCP_TOOL_NAME`;
  `config.go:84` sets `http`, which `client.go:74` refuses. In `live` and `mcpfetch`
  every fetch with such a tool fails (`Supported`).
- `processor.go:214` says that `extractMetadata` "skips LLM extraction if metadata is
  sufficient"; `processor.go:226` calls the LLM on every miss of the metadata cache,
  and so does `Pipeline` (`ReadBody`).
- `processor.go:74` says of `ProcessURL` "no panics"; the scan for an image slices
  the html at offsets of a lower-cased copy (`processor.go:711`, `841`) and panics
  where that is longer and a tag is last (`panic` in `ImageScan`). Nothing recovers a
  job's goroutine: the process ends.
- Since `FromEnv` fills in defaults, the branches of `main` for empty directories
  (`main.go:32`, `main.go:46`) are never taken, and tracing and caching cannot be turned
  off by leaving the names empty.
- `makeTraceDir` "returns a unique trace dir" (`processor.go:467`), named after the
  link and the second (`processor.go:473`).

## Not modelled, and why

- Contents: titles, dates, tags, prompts, card texts, the resolution of relative
  image urls. No property is about them; they are pure functions of one job's data.
- AES, SHA-1, base64, XML: taken to work. The random prefix of a reply: nothing
  depends on it.
- Trace files: written as well as it goes, never read; no state of the program
  depends on them.
- The number of goroutines: the code has no bound that could be violated.
- Build files.

## What is left

1. `Robot` with `Notifier` in place of the one-step card.
2. `Pipeline` with the file cache of `PageEntry` in place of its atomic entry, torn
   pages included.
