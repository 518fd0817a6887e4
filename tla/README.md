# A TLA+ model of lspider

lspider is a web crawler of one process and a dozen threads. A page's url travels through
them as one heap object, a `UrlContext`, that is handed from queue to queue by pointer; what
the crawler knows about links is one MyISAM table. This directory holds TLA+ modules of the
parts where order, concurrency and failure decide whether the program is right, TLC
configurations that check them on small instances, and proofs, checked by TLAPS, that hold for
every value of the constants.

Paths below are those of the repository; a bare file name is in `src/`.

## 1. The system

```
                 table link (MyISAM)
              SELECT, UPDATE |   ^  ^ UPDATE (failure)        UPDATE, INSERT
                             v   |  +-------------------+        ^
   MySqlSelector --addUrl--> LinkTable                   \        \
                             | timers (one per ip)        \        \
                             v                             \        \
   thrift request ----> [waitConnectQueue] --> HttpProcessor::run    \
                             ^   connect, event_add |        |        \
                             |  retry, redirect     v        |         \
                             +---------- HttpEventEngine ----+          \
                                                |                        \
                                     [Extractor queue]                    \
                                                v                          \
                                      ExtractorWorkerView (Qt main thread)  \
                                                v                            \
                                   [queue] MongoDumper --> [queue] MySqlDumper
```

Square brackets are `TSyncedQueue`s. Threads, in the order `main.cpp:75-82` starts them:
MongoDumper, HttpProcessor (whose constructor starts the thread of HttpEventEngine), the
thrift server, MySqlDumper, then after 100 ms MySqlSelector, LinkScheduler, and the extractor,
which keeps the main thread.

### Components

| component (files) | state | operations | what makes it right |
|---|---|---|---|
| synced queue (`synced_queue.h`, `mutex_lock.h`) | a list, its mutex, a counting semaphore | `push_back`, `push_front`, `pop_front`, `pop_back`, `size` | elements are neither lost, copied nor reordered; `pop_*` never meets an empty list (`assert(NULL != e)`); no wakeup is lost; a caller that waits for room keeps the length bounded |
| link table (`link_table.*`) | per ip an `IpContext` with the sites on it, per site a priority queue of urls; `_count` | `addUrl`, `getIpContext`, `select` | a url waits in one place; no context is left empty or used after it was freed; the count is exact; shallow urls first |
| link scheduler (`link_scheduler.*`) | the event base, a timer per `IpContext` | `run`, `addIpSchedule`, `on_ip_schedule` | every ip with waiting urls has exactly one timer or callback; an ip is contacted at most once an interval; everything drains |
| http processor, event engine (`http_processor.*`, `http_event_engine.*`) | `_concCount`, a socket and an event per context, the context's `status`, `retry`, `redirectDepth` | `run`, `connect`, `on_connected`, `on_send`, `on_recv`, `onTimeout`, `onBroken`, `onRecvOnePage`, `doWithRedirect`, `doWithCrawlDone` | a context has one owner; sockets have one; the number of connections is limited; retries and redirects end; every context ends |
| mysql selector (`mysql_selector.*`, `mysql_base.*`) | columns `crawlstate`, `crawlretry` | `recoverCrawlState`, `select` | a link is in the hands of one crawl at a time; no link is stuck in SELECTED; a restart frees what a crash left |
| mysql dumper (`mysql_dumper.*`) | a batch of updates, a batch of inserts | `run`, `dump`, `dumpHub`, `updateCrawlState`, `dumpOneLink`, flushes | what was crawled is recorded, once and for good; batches are written before the thread blocks; no row disappears |
| mongo dumper (`mongo_dumper.*`) | none but its queue | `run`, `dump` | a page is stored and passed on, or its context deleted |
| extractor (`extractor.*`) | its queue | `push`, `pop`, `run` | waits for room |
| extractor worker view (`extractor_worker_view.*`) | the page being loaded, a timer | `doWithOneUrl`, `onLoadFinish`, `timerEvent`, `getLinks` | one page at a time, each passed on once; the timer of a page ends with it; a link leads where the page says |
| http protocol (`http_protocol.*`) | parser position in a response | request header, first line, headers, cookies, body, chunks | the page is what was sent, decoded, by the fields of its own response; the request is the url's |
| url context (`url_context.*`) | fields of one url | `init`, `parseUrl`, destructor | deleted once; nothing of an attempt is left for the next |
| url tools (`url_tools.*`, `parse_url.cpp`) | tables of domains | parse, normalise, main domain, 64-bit sign | normalising twice changes nothing; spellings of one url get one sign; a redirect asks for what it names |
| threads (`lthread.*`) | running/finished flags, id, mutex, condition variable | `start`, `wait`, `finish`, `terminate` | runs do not overlap; who waits for an end gets it, and not before |
| lists and unused containers (`DoubleList.h`, `link.h`, `keyed_queue.h`, `locked_queue.h`, `locked_map.h`) | links between nodes, a count, an index by key | push, pop, remove, merge, replace, move | a list stays a ring of what it counts; an element is in one list |
| thrift server (`request_recv.*`, `crawl_listen_handler.*`) | none | `request` | a seed is one context |
| command port (`cmd_ctrler.*`, `controllable.*`) | none | read-only queries | - |
| configuration, logging, utilities, generated code, client | - | - | - |

### What is hard here

* A `UrlContext*` is shared by convention only: each queue hands it on, and `connect` still
  holds it when the event thread may already be running its callbacks; the web view keeps it
  after it was handed to the dumpers, which delete it.
* `TSyncedQueue` puts an element and announces it in two steps, and a consumer is let in and
  takes the mutex in two steps. `pushConnectQueue` and `Extractor::push` look at the size in
  one critical section and push in another. The list inside is intrusive: an element carries
  its own links, and whether it is free is read from them.
* The scheduler's callback frees an `IpContext` under the table's mutex and goes on to use its
  timer after it; meanwhile the selector may have made a new one, even at the same address.
* libevent reads the clock once a round, and a callback may block for long in the middle of it.
  Qt's timers repeat until they are killed.
* `_concCount` is raised in one function and lowered in three others.
* The table knows no transactions: a `SELECT` and an `UPDATE` with a different `WHERE`, four
  threads that write, batches in memory, and a process that can die between any two
  statements.
* `auto_lock_t(&d->mutex)` in `lthread.cpp` is a temporary: it locks and unlocks in one
  statement, and the flags are changed without the mutex.
* Urls are rewritten in place by pointer arithmetic over buffers of a fixed size, and the
  normalised form is what tells two links apart; a response comes in pieces that end anywhere.

`PROJECT.json` lists these as hazards, each at its line, with the properties that watch it or why none does.

## 2. The modules

| module | models | abstracts |
|---|---|---|
| `SharedDeque` | what a shared queue promises: atomic put and take, service while elements remain | |
| `SyncedQueue` | `TSyncedQueue` at the grain of its lock, semaphore and list operations; throttled and plain producers; both ends | elements are (producer, number) |
| `ElementLists` | what the lists promise: operations on sequences, an index by key | |
| `DoubleList` | `link.h`, `TDoubleList`, `TKeyedQueue`, assignment by assignment to the links | an element is a node with a key |
| `LThread` | `start`, `terminate`, both waits and the end of a run, one access to the flags at a time | what `run` does |
| `LinkScheduler` | `LinkTable`, `LinkScheduler`, the rounds of libevent's loop, the connect queue | urls, sites and ips are values; quota is 1; time in ticks |
| `HttpProcessor` | the run thread, the event thread, `_concCount`, both queues around them, the life of a context | what a peer sends, and when, is arbitrary |
| `HttpProtocol` | one crawl on the wire: the request and its buffer, response, header fields, chunks, codings, retry, redirect, the page-size test | a line without its end is one unit; in a body a byte is one |
| `ExtractorWorkerView` | the main thread with its timers, the extractor's queue in front and the two dumpers behind | a load takes an arbitrary number of ticks |
| `UrlTools`, `DomainTools` | parsing, normalisation, signs and main domains, on sequences of character codes | MurmurHash64A has no collisions |
| `PageLinks` | what becomes of a link: `getLinks`, its row, its crawl, the links of its page | a page holds one link at a time |
| `LinkStore` | the link table, `MySqlSelector`, `MySqlDumper`, statement by statement, crashes, failing statements | the way from selector to dumper is one step with three outcomes |
| `*Proofs` | theorems and proofs, one module for each of `SyncedQueue`, `DoubleList`, `LThread`, `LinkScheduler`, `HttpProcessor`, `HttpProtocol`, `LinkStore`; `ExtractorProofs` is about `ExtractorWorkerView` and `PageLinks` with its `UrlTools` and `DomainTools` | |
| `MC*` | instances for TLC | |

The components meet in queues, and a context is in one place at a time, so each module takes the
queue in front of it and what its user does with it. `SyncedQueue` justifies the atomic queues of
all others; `DoubleList` justifies its list. `HttpProtocol` and `HttpProcessor` are two views of
the same handlers: the data of one crawl, and the threads, sockets and counts of many.

Each definition that stands for code is listed in `PROJECT.json` under `map` with its lines.

### SyncedQueue

The list is not thread safe, so an operation works on the list it found when it began (`view`)
and writes the result back at its end; only because the mutex is held is that the current one
(`MutexOK`). `push_*` is `LockToPush`, `Insert` (which unlocks) and `SemPost`; `pop_*` is
`SemWait`, `LockToPop`, `Remove` and `Return`, whose guard is the `assert`. `BeginPush` is the
exit from the callers' waiting loop, a critical section of its own; producers outside
`Throttled` (retries of the event thread, the queues of the dumpers) do not wait.

`SharedDeque` is the abstract specification. The refinement maps `queue` to the list, `puts` to
the number each producer has inserted, and `hand` to what the last pop of a consumer returned:
`Insert` is `Put`, `Remove` is `Take`, `Return` is `Finish`, and all else stutters.

### DoubleList

`links.next` and `links.prev` are the two pointers of every node, heads included; each macro of
`link.h` is an operator that makes its assignments in the order of the source, since some read
what others have just written. The guard of an insertion is the test of the source that the
element is standalone, which is read from its links (`DLINK_IS_STANDALONE`), not from a set the
model keeps. `Contents` follows `next` as often as the list counts.

`ElementLists` is the abstract specification; the refinement maps each list to its `Contents` and
the index to itself.

### LThread

`auto_lock_t(&d->mutex)` in `start`, `finish` and `terminate` is a temporary: the step that stands
for it waits for the mutex and holds nothing afterwards, and each assignment to a flag that
follows is a step of its own. Only `wait` keeps the mutex (`WaitEnded`, `WaitSleep`). `missed` is a
history: waiters that looked before the flags changed and went to sleep after the broadcast.
Both waits on the condition variable stand outside a loop, and POSIX lets them return without a
broadcast: `SpuriousWakeup` is that step, for the owner in `start` as for a waiter, and `roused` a
history of whom it has woken.

### LinkScheduler

`addUrl` and `select` are one step each, being one critical section of `_mutex`. What `select`
decides is split into operators for the lines it decides on (`Selected`, `OnTop`,
`EmptiesSite`, `EmptiesIp`, `Pop`). The callback is three steps, because the thread waits in
the middle: `OnIpSchedule` (select), `PushConnectQueue` (wait, push), `Rearm` (`evtimer_add`).
An `IpContext` is an address of `Ctxs` and may be reused once freed; the events that
`evtimer_new` allocates are never freed by the code and cannot dangle, but their argument can.

The loop of libevent 2.0 (README.md:17 asks for 2.0.22 or later) is modelled from how it calls
back: it reads the clock, fires every timer that is due (`TimeoutProcess`), calls the callbacks one by one, and
only then reads the clock again. `event_add`, from the callback and from the selector's thread
alike, counts from that reading, `lag` ticks ago; between rounds `lag` is 0. A round may begin
whenever a timer is due: the timer that prints the state and other threads' `event_add` wake
the loop at any time.

`base` says whether `run()` has made `_base`; initially it may have or not, since `main`
starts the selector first.

### HttpProcessor

The run thread is `PopConnectQueue`, `WaitConcurrence` (the loop on `_concCount`), then
`connect`: `RefuseConnect`, `OpenSocket`, `FailConnect`, `RegisterEvent`. From the last on the
context belongs to the event thread, whose callbacks are `TryAgain`, `OnRecvOnePage`,
`OnBroken`, `DoWithSockTimeout`, one handler one action with everything it calls. Two places
are visible in between and are states: waiting for the extractor's queue (`PushExtractor`) and
the decrement of `_concCount` that follows when the context is already someone else's
(`CountDown`). The two decrements of a context that has used up its retries are one step.
`life` is a history of what happened to the object: `deleted` stands for `delete`, which must
happen once.

### HttpProtocol

`Wire` writes a response as RFC 7230 has it: status line, fields, an empty line, the text,
coded and cut into chunks if the fields say so. A coding is gzip, which the program decodes, or
"deflate", which stands for the two others that its request offers. What it writes is all that is
assumed of a peer, and that it may break off: `ProtocolAssumption` says which parts a response has,
`HexAssumption` that `Hex` writes sizes in hexadecimal, with zeros in front or without, and
`ChunksAssumption` that no chunk but the last is empty and that together they are the text. The
peer sends the response and may close anywhere (`Close`); `TrySend` and `Recv` take any number of
units up to `MaxRecv`. `analyse` runs when there is no more, and decodes from positions in the
received text as the source does, with `hex2dec` reading the text of the size line; `NextRound` is
a round of the loop of `analyseChunk`, and `Rounds` are all of them. `ctx` has every field of
`UrlContext` that `init` resets or forgets to reset. `ctx.undefined` is a history: `hex2dec` has
returned what it never assigned, or a line was printed behind the buffer of the request.

That buffer holds `MAX_HEAD_CMD_LEN` units, and `PrintLine` is `snprintf` with what is left of it:
it writes what fits and adds the length of the whole line to `requestLen`; `Memory` is what
`trySend` then sends, with `"behind"` for what is not the request's. A line printed when
`requestLen` has passed the end is written over other memory; there the model stops, with place
`"undefined"`. `CookieSize` gives the cookies of three `Set-Cookie` lines their lengths, and `cookie`
in a context is the length of the one it keeps, or 0. What recurs is a recursive function, which the proofs can use.

### ExtractorWorkerView

`place` says whether the main thread is in `pop` or in its event loop. `timers` holds what each
running timer has left; a Qt timer rearms itself when it fires, and `timerEvent` starts another
one. A tick of time passes only when nothing is due, as the event loop delivers what is ready
before it waits. A load that is replaced by a new one emits no `loadFinished`. `MongoPop`,
`MongoDump` and `MySqlDump` are the two threads behind; a page whose document fails to be stored
ends in the first.

### UrlTools, DomainTools, PageLinks

The operators carry the names of the functions and compute what those compute, with the buffers'
sizes as constants. `PageLinks` is a state machine only to enumerate links: `href` is written
piece by piece, and `twin` is the same link in another spelling; `Follow` goes to the page of the
link, as the crawler does. The loops of the source are functions of sequences (`Skip`, `Find`,
`Strip`, `Replace`) where they look at one character at a time, and recursive functions of the
rounds where they do not (`Resolve`, `Number`, `Split`), which TLC evaluates and the proofs use.
`Host` is what `parseUrl` leaves in the context of a page that was not redirected; after a redirect
it is the host redirected to, and the page is as one of that host.

`BufferAssumption` says that a site and a port fit the buffer of a url, as the sizes in
`url_tools.h` do; `LinkAssumption` that links are sequences of characters; `TableAssumption`, about
the tables of the source, that the second levels listed are those of country domains, and that no
top-level domain is a country: TLC evaluates it on the tables themselves.

### LinkStore

One SQL statement is one step (MyISAM locks the table for it). `result` is the result set of
the `SELECT`, a snapshot; `UpdateSelected` is the `UPDATE` after it, which sees the table as it
then is. `flight` is the bag of contexts between selector and dumper; each ends in
`CrawlFailed`, `Dropped` or `Crawled`. The dumper's loop is `Check`, `CheckInsert`, `Pop`,
`DumpHub`, `UpdateCrawlState`, `DumpOneLink`, `EndOfDump`. `Crash` keeps the table only.
`MaxFaults` bounds crashes and failed statements together; `lost`, `missed` and `replaced` are
histories: urls whose context ended without a word to the table, urls the `UPDATE` marked although
the `SELECT` did not return them, and rows `dumpHub` wrote over. `StoreAssumption` asks of the
table at the start that no row is selected and that no link which is not a hub has been retried
more often than `MaxCrawlRetry` allows, as in a database in which no statement has failed yet;
what later starts find is what `Crash` leaves.

## 3. What the runs check

| run | bounds | shows |
|---|---|---|
| `SyncedQueue` | two throttled producers, one at each end, two consumers, one at each end; limit 1; 3 pushes each | `PopNeverNull`; `ThrottleBound`: the limit is passed by at most one element per throttled producer; `ServesAsDeque`: the queue implements `SharedDeque`, liveness included |
| `DoubleList` | five elements of three keys, two plain lists and a keyed queue | `StandaloneIsFree`: an element says it is free exactly if it is in no list; `IndexIsOfTheQueue`: the index holds the elements of its list; `ServesAsLists`: every operation on the pointers implements the one on sequences |
| `LinkScheduler` | two ips, two sites, five urls of two depths, a table of 2 per site, a connect queue that is full with one | contexts are made and freed without a dangling timer (`NoDanglingContext`) or an empty queue (`NoEmptyContext`); `Politeness`: the rounds in which one ip is selected from are an interval apart; `InTimeScheduled`, `TableDrains` |
| `HttpProcessor` | three contexts, limit 1, two tries, one redirect | `OneOwner`, `SocketsOwned`; `ConcAccounting` says what `_concCount` is exactly, `ConcurrenceBound` what follows for the limit; `AttemptsBounded`; `EveryUrlEnds`: with fair threads, while leaked sockets stay within the limit, every context ends |
| `HttpProtocol` | fourteen responses, up to 3 units a recv, a request buffer of 8 and cookies of 1, 5 and 6 units, page limits 2 and 5, two tries, one redirect | `RequestIsOfTheUrl`: the request is that of the url if it fits its buffer; `FieldsOfTheResponse`: nothing of an earlier attempt is left; `PageIsText`, `ChunkedIsWhole`: the page is the text, plain or from gzip, and in another coding the coded text |
| `PageLinks` | one seed, links written in up to three pieces, buffers of 29, 20, 29 and 7 characters | `NormalizedIsNormal`, `SignsAreStable`, `SpellingsAgree`: two spellings of a link are one row; `PathIsResolved`: dots are resolved as segment by segment; `RelativeLinksStayHome`, `MainDomainIsRegistered` |
| `ExtractorWorkerView` | four pages, time limit 3, loads of up to 3 ticks, a queue that is full with one, four timers at a time | `OneInOrder`: a context is in one place, none is lost or overtaken, however often its page is loaded anew; `TimersExplained`: every timer event leaves one timer too many; `PromptPagesEnd` |
| `LThread` | an owner who starts twice, a terminate, two waits, one of them timed, spurious wakeups at any time | `RunsNeverOverlap`, `TrueMeansEnded`: but for a caller woken by nobody, the two runs do not overlap and true means that run was left; `WaitReturns`: the one way to sleep for ever is to miss the broadcast |
| `LinkStore` | two urls, a hub or a plain link in the table at first, batches of 2, one crash or one failing statement | `OneCrawlAtATime`, `RetryBounded`, `CrawledIsFinal`, `BatchesFlushed`; `SelectedAccounted`: a link in state SELECTED is on its way, in the batch, lost or missed; `RecoverableAll`: a restart frees it |

Runs in which what the repository says is violated by what its code does:

| run | violated | what happens |
|---|---|---|
| `HttpProcessorWedged` | `EveryContextEnds` | `connect` fails after the socket was counted; after `maxConcurrence + 1` of these `run` waits for ever |
| `LinkStoreRecorded` | `CrawlRecorded` | `dumpHub` resets the batch of updates that other pages have filled |
| `ExtractorTimeout` | `TimeoutIsThePages` | a timer that `timerEvent` has not killed fires for a page that has just begun to load |

Five more configurations beside the runs of `PROJECT.json` show, of a module that a run checks, where
the code falls short of a word of the repository. TLC finds each property violated:

| configuration | violated | what the repository says | what happens |
|---|---|---|---|
| `LThreadSpurious` | `UntimedWaitsToTheEnd` | `lthread.h:174`, "默认为一直等待到结束" (by default, wait until the end) | `pthread_cond_wait` (172), which stands in no loop, returns for no reason, and `wait` says true while `run` is still inside |
| `HttpProtocolRequest` | `RequestIsWithinLimit` | `url_context.h:21`, "最大http请求头长度" (greatest length of a request) | a redirect sets a long cookie; `snprintf` (`http_protocol.cpp:43`) returns the length of the whole line, `requestLen` counts more than the buffer holds, and `trySend` sends what lies behind it |
| `HttpProtocolCoding` | `OfferedIsDecoded` | `http_protocol.cpp:36`, "Accept-Encoding: gzip, deflate, sdch" | only gzip is decoded (178); a page in another coding is passed on as it came |
| `HttpProtocolPageSize` | `PageIsWithinLimit` | `http_processor.cpp:278`, "page size chunked to", and `maxPageSize` in the configuration | the limit is compared with one `recv` (277); a long page in small pieces is received whole |
| `PageLinksRedirect` | `RedirectAsksForThePath` | `http_processor.cpp:350`, "location有时候只有path部分" (sometimes location is only the path) | a slash is put in front of any location without a scheme (353): a redirect to `/p` asks for `//p` |

Each property of a passing run comes with a mutant, an operator named
`<definition>_<what is wrong>` that is a plausible bug of that code, under which TLC finds the
property violated in the same run. Each module also has a type invariant; those of the modules
with proofs are proved, not run.

What else the models show of the code:

* If the selector adds a url before `_base` exists (`main.cpp:80` starts it first), the timer is
  refused (`link_scheduler.cpp:71`) and that ip is never scheduled; `InTimeScheduled` says that
  this is the only way.
* A callback may wait for the connect queue; timers armed in its round are due too early by that
  wait, although README.md:11 promises an interval for every ip. `Politeness` says what remains:
  the rounds are an interval apart.
* The last retry is taken off `_concCount` twice (`http_processor.cpp:238` or 423, and 342), which
  is part of `ConcAccounting`.
* The `UPDATE` of `mysql_selector.cpp:132` marks links that its `SELECT` (118) did not return,
  deeper ones and ones inserted in between; they stay SELECTED until the next start (`missed`).
* The `UPDATE` of `mysql_dumper.cpp:155` names a row by a sign that need not be in the table; then
  it is the row of another link that is overwritten (`replaced`).
* `selectCountDivQuota` (`link_table.h:64`) is a float that stops growing at 2^24, long before the
  bound derived at `link_table.h:18`; sites that reached it are equal for good (`FloatLimit`).
* `LThread`: a waiter that looks before `finish` changes the flags and sleeps after its broadcast is
  never woken. After a spurious wakeup `start` goes on while the old run is inside, and `wait` returns
  true before the end: `RunsNeverOverlap` and `TrueMeansEnded` hold of callers that were woken by a
  broadcast only. Even with broadcasts only, a third `start` may overlap the second run: the first run,
  late on its way to its broadcast, wakes the owner who waits for the second (a third start is beyond
  the run's bounds). Starting an `LThread` that runs leaves the
  mutex locked, and if `pthread_create` fails `running` stays set; neither happens in `main`, and
  the second is not modelled.
* `ExtractorWorkerView`: a page that always takes longer than the time limit is loaded again and
  again for ever, and each time with one timer more.
* `HttpProtocol`: in a response without any header field the header is not found where it ends, so
  the properties ask for at least one. Every status but 301, 302 (for both of which "301" stands)
  and 404 gives a page in state DONE, also an empty one of 503; a page that breaks off is taken as it is unless it is chunked. The
  page-size test (`http_processor.cpp:277`) compares one `recv` of at most 1024 bytes with the
  limit of the whole page, so it never applies for the limits in use (`HttpProtocolPageSize`). A
  cookie that does not fit cuts the request, whose empty line may then be missing; a longer one has
  that line written behind the buffer (`HttpProtocolRequest`). `init` resets neither the
  status text nor the body nor the cookie.
* `PageLinks`: the url of a redirect is joined without the port of its page, is not normalised, and
  has no sign: the crawl stays on the row of the url it began with, where
  `http_processor.cpp:330-334` and `mysql_dumper.cpp:94` record how it ended. A link to the page
  redirected to is another row.
* `UrlTools`: a percent sign that begins no escape can be joined with what follows, so that
  `%%341` changes again when normalised twice; a spelling that does not fit its buffer is cut; a
  relative link loses the port of its page; a link that has no normal form is kept as it was
  written, and filed under its host with its capitals (`RelativeLinksStayHome` leaves such a page
  aside). The url properties leave these aside (`WellFormed`, `Fits`). `isnormalized_url` may look at
  the character before its string; only a test names it.

### Why the bounds are enough

* Queue: races need two threads at one end and one at the other; two of each give every pair.
  With limit 1 both producers can be past the test at once; with 3 pushes each the list
  becomes empty and full again.
* Lists: no operation touches more than two lists and three neighbouring nodes. Two elements of
  one key force a replacement; five elements leave two neighbours on both sides.
* Threads: two runs can overlap; one waiter may hold the mutex while the other, or the end of a run,
  waits for it.
* Scheduler: one ip with two sites, of which one has more urls than its table holds, and an ip
  whose context comes and goes; two addresses, so that a freed one is reused, by the other ip
  too. A connect queue that is full with one element makes the callback wait. `FloatLimit` 2 lets
  the quota saturate.
* Downloader: the limit is passed with two contexts, the third waits. Two tries and one redirect
  give every order of the two.
* Wire: the texts hold digits and line ends, so a position that is off by one finds something to
  read; sizes of one and of two digits; page limits below and above what a `recv` returns. Without a
  cookie a request has 4 units: with a buffer of 8, one cookie fits, one cuts the last line, and
  one overruns the buffer before that line is printed.
* Links: three pieces are a path of three segments or a detour of two; long spellings fill the
  buffers, which are as short as still holds the seed.
* View: a page in the view, one in each queue behind, and two to come. Four timers are three
  timer events, of which the last may fall on the third page.
* Store: one plain link and a hub that link to each other; batches of 2 are sometimes full and
  sometimes not. `MaxContexts`, `MaxCount` and `MaxFaults` bound the contexts alive, the retries
  of a row that the code does not bound (hubs) and the faults.

### Fairness

* `SyncedQueue`: weak fairness of each thread inside a call. The mutex could starve a thread
  only with infinitely many pushes, which a model does not have; a producer may stop.
* `LThread`: callers and ends of runs get on, and who waits for the mutex gets it in the end
  (strong fairness). A run need not end unless it was cancelled.
* `LinkScheduler`: time passes, `run()` gets to its loop, the scheduler thread keeps running, and
  the downloader takes urls (which `EveryUrlEnds` justifies under its own condition). No timer
  has fairness of its own. The selector has none.
* `HttpProcessor`: both threads and the extractor keep running. Each event has a timeout, so
  its callback is called sooner or later: strong fairness of the callbacks of one context,
  since the engine is busy now and then. A peer that sends a byte before each timeout keeps
  its connection for ever, so the liveness properties assume `PeersSettle`.
* `ExtractorWorkerView`: the main thread and both dumpers run, and time passes. Nobody has to push.
* `LinkStore`: weak fairness of the dumper only.
* `DoubleList`, `HttpProtocol` and `PageLinks` state none.

## 4. What is proved

The theorems hold for every value of the constants that satisfies the modules' assumptions:
any finite sets of threads, any urls, ips and sites, any limits. In each module an inductive
invariant is shown to hold initially and to be kept by each action, one lemma per action; the
properties follow from it.

* **SyncedQueue.** `IInv` is `TypeOK`, `MutexOK`, `SemAccounting` and `GotOK` (a consumer holds an
  element exactly between its pop and its return). `SemAccounting` is the heart: semaphore +
  consumers past `sem_wait` + producers before `sem_post` = length of the list; so a consumer
  that gets the mutex finds an element, which is `PopNeverNull`. It needs `MutexOK`, because
  `Insert` and `Remove` write back a list read earlier. `ThrottleBound` is shown on top: a
  throttled producer only comes in while the length is within the limit, and from then on its
  element is counted once, in flight or in the list. `QueueImplementsDeque`: each step is a
  step of `SharedDeque` or a stutter (the safety part).
* **DoubleList.** `IInv` says that there is a sequence for each list, without an element twice or in
  two lists, that the links represent: `next` leads from the head through it and back, `prev` the
  other way, the count is its length, the nodes outside point to themselves, and the index is
  that of the keyed queue. Each operator on links is shown to turn the links that represent one
  sequence into those that represent another; that the walk along the links is that sequence
  is shown by taking the least position where it would not be. `Implements` is the whole
  refinement of `ElementLists`.
* **LThread.** `IInv` adds to `TypeOK` where each caller can be (`PlacesOK`), that threads are made in
  order (`MadeInOrder`), what the flags mean while there is only one run (`FlagsOK`), that a waiter
  whom a broadcast has woken is awake only after a run has ended (`AwakeOK`) and what the owner has
  seen when it starts for the second time (`SecondStart`). `NoOverlap` (of the first two runs, if nobody's
  wakeup reached the owner) and `TrueAlwaysMeansEnded` (after one start, for waiters that were not
  woken by nobody) follow, and `MutexHeldBy`: no caller holds the mutex but a waiter that has
  neither slept nor returned, and the owner in a second or later start, who may keep it.
* **LinkScheduler.** `IInv` is `TypeOK`, `HandOK` (the thread's locals fit its place), `ContextsOK`,
  `UrlsInPlace`, `NoEmptyContext`, `CountExact`, `NoDanglingContext` and `PoliteOK`. The parts about
  the table need each other: `select` frees exactly the context whose last url it took only
  because no site is empty and every url is in place, and that a fired timer finds a context
  at all is `NoDanglingContext`. `PoliteOK` says that what a timer has left, the time since the
  last selection from its ip and what the round of that selection had lasted add up to an
  interval, and that no ip was selected from in a later round than the present one; `Politeness`
  follows when nothing is left. `AlwaysScheduled` states `InTimeScheduled`: if `base` holds
  initially, each ip in the table has exactly one of timer and callback. `OnePlaceAlways` rests on
  `UrlsInPlace`: what is selected leaves its only place.
* **HttpProcessor.** `IInv` is `TypeOK`, `OneOwner`, `SocketsOwned`, `ConcAccounting` and four parts that
  no run names: `Fresh` (a context on its way to connect has been reset), `RetryLeft` (one that is
  not ended by a timeout may still retry), `AttemptsMade` (how many sockets its retries and
  redirects explain) and `WaitedBelow` (what the run thread has seen of the counter: it only
  falls until that thread raises it). `OneOwner` makes the counting work: every step moves at
  most one context from one place to another, and a socket goes with its place.
  `ConcurrenceBound`, `AttemptsBounded`, `ConnectedInOrder` and `EndIsFinal` follow.
* **PageLinks** (in `ExtractorProofs`, as is the next). For all texts, of any length, and all sizes
  of the buffers. `LinkInv` (`LinksAreText`) says that page and link are texts of characters and that the
  page can be split; `SpelledInv` (`PagesAreSpelled`) that a page is the spelling of some url, since
  `request` and `getLinks` make no other. The rest is about the functions: what `Units` cuts a text
  into spells that text (`UnitsSpell`), `parse_url` and each of the three normalisers return texts
  of a form (`ParseIs`, `NormalizeSiteIs`, `NormalizePortIs`, `SinglePathType`), and a spelling splits into
  the parts it was made of (`SpellingSplits`), also when the buffer has cut it.
  `NormalizedIsNormalAlways` and `RelativeLinksStayHomeAlways` follow.
  `PathIsResolvedAlways` rests on the invariant of the loop in `normalize_path` (`Reads`): what has
  been read so far is whole segments and the beginning of one, what has been written renders the stack
  these leave and that beginning. `MainDomainIsRegisteredAlways` compares the order of the tables with the
  longest suffix (`SuffixIsLongest`). `SignsAreStableAlways` says that normalising twice is normalising
  once: the texts in which every percent sign begins an escape that is kept (`Stables`) are closed under
  all that is done to a path after its escapes are undone, so that the second pass undoes nothing
  (`StableSame`), and a resolved path has nothing to resolve (`NormalizePathSame`).
* **ExtractorWorkerView.** The places from the front of the pipeline to its end each hold
  increasing numbers of pages, all below those of the places behind them (`PlacesOK`);
  `OneInOrder` about their concatenation follows. `TimersExplained` is inductive with `ViewOK`.
* **LinkStore.** `IInv` is `TypeOK`, `FlowOK` (where the dumper can be with its batches and its page),
  `RecoverableAll` and `SelectedAccounted`. For each statement a lemma says row by row what it
  leaves of the table, and a step that selects no row only has to show that no url that is
  accounted for drops out. `FlushedBeforeBlocking` states `NothingLeftBehind`, `RestartAlwaysFrees`
  states `RestartFrees`. A second invariant, `Crawls` (`CrawlInvariance`), counts: it says of each
  link how many contexts it has in the result, in the bag, in the queue and in the dumper, and
  that row and contexts fit. A row can be selected, or fail, as often as its retries leave it
  (`Fits`), and what is crawled, or in the batch, has no context to come (`Ends`); every statement
  that has failed allows for one more. It needs `Recovering`, that after a start nothing of a
  link is out before the table has been recovered, and lemmas on the copies in a bag. From it
  follow `OneCrawl` (`OneCrawlAtATime`), `RetriesEnd` (`RetryBounded`) and `CrawledForGood`
  (`CrawledIsFinal`). They are about links that are no hubs and whose row `dumpHub` has not
  written over, as the properties are, and about failures as they are: each failed statement allows
  for one crawl and one retry more, and `CrawledForGood` is about the time before the first.
* **HttpProtocol.** For any responses of any length, cut, compressed, received and broken off
  anywhere. `IInv` says of each place of a crawl what is in its context: a crawl that connects
  begins afresh (`Connecting`), what has been sent is a beginning of the request, if that fits its
  buffer (`Sending`), what
  has been received is a beginning of the response and what is left is the rest (`Receiving`), and
  a page has the fields and the text of its response, or the coded text if it is not in gzip (`Ended`). All of the work is in the last:
  what the analysis makes of a beginning. A response is known by what is at each position of it
  (`IsWire`); of a beginning (`Received`), `find` and `substr` see what they would see in all of it,
  or that there is no more, so the end of the header is found where it is and no text can be
  taken for it. The loop over the chunks is followed round by round from one size line to the
  next (`InLoop`): the line is found, its digits are read, and either the data is there or the
  next search fails; so it ends with the last chunk, and then has joined all of them, or fails.
  What a recursive function is for every number of digits, chunks or rounds follows from the least
  number for which it would not be so (`LeastNumber`, `NoLeast`). The theorems are
  `RequestsAreOfTheUrl`, `FieldsAreOfTheResponse`, `PagesAreText` and `ChunkedPagesAreWhole`.

Only model-checked:

* All liveness, which is out of this prover's reach, as is `ENABLED`: the fairness part of
  `ServesAsDeque`, `TableDrains`, `EveryUrlEnds`, `PromptPagesEnd`, `WaitReturns` and
  `BatchesFlushed`.
* `SpellingsAgree`. Which two texts are spellings of one resource is given by the
  pairs of the instance, a sample of what the code should take for one; what `parse_url`, escapes,
  ports and dots do to a text is proved by the theorems above, for one text at a time.

## 5. Not modelled

* The rest of libevent, Qt, WebKit, mysql, mongo and thrift: only how lspider uses them.
* Statistics (`printState`, `_tryProcCount`, `_procFinishCount`, `on_print_state`) and logging.
* The main domain filter and the sleep between two rounds of the selector.
* `dumpHub` returns early if the main domain of the seed cannot be found, which a seed of the
  model always has.
* The words of a page: `getTitle`, `makeData`, `amendAnchor`, character sets and the stored
  document change nothing another part depends on.
* `_engine->base` being read before its thread has made it (`http_processor.cpp:107`), and the
  database connection shared by two threads (330): what happens then is undefined.
* A response in several content codings at once, and what a request that is longer than its buffer
  writes over.
* Chunks of 2^31 bytes and more, which `hex2dec` could not return as an `int`.
* The loading of domain files (`DomainDict`) and `parse_url.cpp`, which nothing in the spider calls;
  `locked_queue.h` and `locked_map.h`, which nothing uses.
* The thrift client, the command port, the configuration and generated code: no state that the
  crawl depends on.

## 6. Plan

Done, in this order: `SharedDeque` and `SyncedQueue`, on which everything else rests;
`LinkScheduler`; `HttpProcessor`; `LinkStore`; `DoubleList`; `HttpProtocol`; `UrlTools` and
`PageLinks`; `ExtractorWorkerView`; `LThread`; the proofs, those of `PageLinks` last.

Next:

1. `BreadthFirst`, that a shallow url of a site never waits for a deeper one that came later, as a
   property of `LinkScheduler`, checked and proved.
2. The whole pipeline, a context from selector to delete, owned by one thread at a time, composed
   from the deques that `SyncedQueue` implements.

## 7. Running

    tlc -config LinkScheduler.cfg MCLinkScheduler
    tlapm LinkSchedulerProofs.tla

A configuration `X.cfg` belongs to the module named for it in `PROJECT.json`. `CHECK_DEADLOCK
FALSE` is set where the system may stop: no more pushes, all contexts ended, or the bounds
reached. The longest runs are `LinkStore` and `PageLinks`, a few minutes each, as are the
proofs of `LinkStoreProofs` and `HttpProtocolProofs`; those of `ExtractorProofs` take about ten.
