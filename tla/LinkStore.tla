------------------------------ MODULE LinkStore ------------------------------
(***************************************************************************)
(* The table "link" and the threads that write it: MySqlSelector takes     *)
(* links out of it for a crawl, HttpProcessor gives back the crawls that   *)
(* failed, and MySqlDumper records the crawls that succeeded and the links *)
(* found on their pages, in batches.  The process may die and be started   *)
(* again at any time; only the table survives.                             *)
(*                                                                         *)
(* The table is MyISAM (create.sql): one statement is one step, and        *)
(* nothing joins two of them.  A url stands for its sign, which is its     *)
(* primary key.  What happens to a context between the selector and the    *)
(* dumper (scheduler, downloader, extractor, mongo) is one step here, and  *)
(* contexts overtake each other freely.                                    *)
(***************************************************************************)
EXTENDS Integers, Sequences, FiniteSets, Bags

CONSTANTS Urls,
          Seeds,          \* the urls that lspider_client submits
          Links,          \* Links[u]: the urls that the page of u links to
          InitLinks,      \* the table before the first start, one of these
          MaxCrawlRetry,  \* mysqlMaxCrawlRetry
          MaxLinkDepth,   \* mysqlSelectMaxLinkDepth
          UpdateBatch, InsertBatch, \* mysqlDumperUpdateBatch, mysqlDumperInsertBatch
          MaxContexts,    \* bound: contexts alive at once
          MaxCount,       \* bound: crawlretry of any row
          MaxFaults       \* bound: crashes and failing statements, together

States == {"NEW", "SELECTED", "CRAWLED"}
Row == [crawlstate : States, crawlretry : 0 .. MaxCount, linkdepth : Nat, hub : BOOLEAN]
Context == [url : Urls, linkdepth : Nat, hub : BOOLEAN]

ASSUME StoreAssumption ==
  /\ Seeds \subseteq Urls /\ "none" \notin Urls
  /\ Links \in [Urls -> SUBSET Urls]
  /\ \A table \in InitLinks :
       /\ DOMAIN table \subseteq Urls /\ table \in [DOMAIN table -> Row]
       /\ \A u \in DOMAIN table : /\ table[u].crawlstate # "SELECTED"
                                  /\ table[u].hub \/ table[u].crawlretry <= MaxCrawlRetry
  /\ MaxCrawlRetry \in Nat \ {0} /\ MaxLinkDepth \in Nat
  /\ UpdateBatch \in Nat \ {0} /\ InsertBatch \in Nat \ {0}
  /\ MaxContexts \in Nat /\ MaxCount \in Nat /\ MaxFaults \in Nat

VARIABLES
  link,          \* the table: a function from the urls it has to their rows
  \* MySqlSelector
  selPc, result, \* the rows of the query not yet handed to the scheduler
  \* contexts on their way through the crawler
  flight,        \* a bag of contexts
  waitDumpQueue, \* the queue of the dumper: contexts whose page was extracted
  \* MySqlDumper
  dumpPc, cur,   \* the context being dumped
  hrefs,         \* its links not yet dumped
  updateLinks, insertLinks, \* the batches: signs crawled, rows found
  \* history
  lost,          \* urls whose context ended without a word to the table
  missed,        \* urls set SELECTED without being in the query's result
  replaced,      \* urls whose row became that of a seed
  crashes, failures

selVars  == <<selPc, result>>
dumpVars == <<dumpPc, cur, hrefs, updateLinks, insertLinks>>
history  == <<lost, missed, replaced, crashes, failures>>
vars == <<link, selVars, flight, waitDumpQueue, dumpVars, history>>

NoContext == [url |-> "none"]

Init ==
  /\ link \in InitLinks
  /\ selPc = "recover" /\ result = {}
  /\ flight = EmptyBag /\ waitDumpQueue = << >>
  /\ dumpPc = "check" /\ cur = NoContext /\ hrefs = {}
  /\ updateLinks = << >> /\ insertLinks = << >>
  /\ lost = {} /\ missed = {} /\ replaced = {} /\ crashes = 0 /\ failures = 0

----------------------------------------------------------------------------
(* Statements.                                                             *)

Stored == DOMAIN link
SetOf(s) == {s[i] : i \in DOMAIN s}

\* UPDATE link SET ... WHERE where: set gives the new row.
Update(table, where(_), set(_)) ==
  [u \in DOMAIN table |-> IF where(u) THEN set(table[u]) ELSE table[u]]

WithState(row, state) == [row EXCEPT !.crawlstate = state]

\* SET crawlretry=crawlretry+1,crawlstate=NEW WHERE sign=u
Failed(table, u) ==
  Update(table, LAMBDA v : v = u,
         LAMBDA row : [row EXCEPT !.crawlretry = @ + 1, !.crawlstate = "NEW"])

\* A plausible bug: a link there was no room for stays as it was.
Mark_Not(table, u, state) == table

\* SET crawlstate=state WHERE sign=u
Mark(table, u, state) ==
  Update(table, LAMBDA v : v = u, LAMBDA row : WithState(row, state))

\* The statement takes effect.
Works(table) == link' = table /\ UNCHANGED failures

\* Or it fails, and the table stays as it is.
Fails == crashes + failures < MaxFaults /\ failures' = failures + 1 /\ UNCHANGED link

Exec(table) == Works(table) \/ Fails

\* The last statement about the context of u: if it fails nobody else will write
\* the row.
LastWord(table, u) ==
  \/ Works(table) /\ UNCHANGED lost
  \/ Fails /\ lost' = lost \cup {u}

Alive == BagCardinality(flight) + Len(waitDumpQueue) + (IF cur = NoContext THEN 0 ELSE 1)
MayFailOnce(u) == u \in Stored => link[u].crawlretry < MaxCount

----------------------------------------------------------------------------
(* MySqlSelector.                                                          *)

\* recoverCrawlState: what the last process had selected is new again.
Recover(table) ==
  Update(table, LAMBDA u : table[u].crawlstate = "SELECTED" /\ table[u].crawlretry < MaxCrawlRetry,
         LAMBDA row : WithState(row, "NEW"))

RecoverCrawlState ==
  /\ selPc = "recover"
  /\ Exec(Recover(link))
  /\ selPc' = "select"
  /\ UNCHANGED <<result, flight, waitDumpQueue, dumpVars, lost, missed, replaced, crashes>>

\* A plausible bug: a link that has used up its retries is selected as well.
Selectable_AnyRetry(row) ==
  (row.crawlstate = "NEW" /\ row.linkdepth <= MaxLinkDepth) \/ row.hub

\* The WHERE of the SELECT.
Selectable(row) ==
  \/ /\ row.crawlstate = "NEW"
     /\ row.crawlretry < MaxCrawlRetry
     /\ row.linkdepth <= MaxLinkDepth
  \/ row.hub

\* select, the query: its result is a snapshot.
Select ==
  /\ selPc = "select"
  /\ result' = {[url |-> u, linkdepth |-> link[u].linkdepth, hub |-> link[u].hub] :
                  u \in {v \in Stored : Selectable(link[v])}}
  /\ selPc' = "update"
  /\ UNCHANGED <<link, flight, waitDumpQueue, dumpVars, history>>

\* A plausible bug: the UPDATE does not look at crawlretry.
Marked_AnyRetry(row) == row.crawlstate = "NEW" \/ row.hub

\* The WHERE of the UPDATE that follows.  It is not that of the SELECT: it asks
\* nothing of the depth.
Marked(row) == (row.crawlstate = "NEW" \/ row.hub) /\ row.crawlretry < MaxCrawlRetry

\* A plausible bug: the selected links are not marked.
MarkSelected_Not(table) == table

MarkSelected(table) ==
  Update(table, LAMBDA u : Marked(table[u]), LAMBDA row : WithState(row, "SELECTED"))

\* select, the statement that marks what was selected.  It sees the table as it is
\* now, not as the query saw it.
UpdateSelected ==
  /\ selPc = "update"
  /\ \/ /\ Works(MarkSelected(link))
        /\ missed' = (missed \cup {u \in Stored : Marked(link[u])}) \ {r.url : r \in result}
        /\ lost' = lost \ {r.url : r \in result}
     \/ Fails /\ UNCHANGED <<missed, lost>>
  /\ selPc' = "add"
  /\ UNCHANGED <<result, flight, waitDumpQueue, dumpVars, replaced, crashes>>

\* select, the loop over the result, by increasing depth: the scheduler takes the
\* link, cannot parse it, or has no room for it.
AddUrl(r) ==
  /\ selPc = "add" /\ r \in result
  /\ \A o \in result : r.linkdepth <= o.linkdepth
  /\ result' = result \ {r}
  /\ \/ /\ Alive < MaxContexts
        /\ flight' = flight (+) SetToBag({r})
        /\ UNCHANGED <<link, lost, failures>>
     \/ MayFailOnce(r.url) /\ LastWord(Failed(link, r.url), r.url) /\ UNCHANGED flight
     \/ LastWord(Mark(link, r.url, "NEW"), r.url) /\ UNCHANGED flight
  /\ UNCHANGED <<selPc, waitDumpQueue, dumpVars, missed, replaced, crashes>>

EndOfResult ==
  /\ selPc = "add" /\ result = {}
  /\ selPc' = "select"
  /\ UNCHANGED <<link, result, flight, waitDumpQueue, dumpVars, history>>

----------------------------------------------------------------------------
(* The way of a context.                                                   *)

\* CrawlListenHandler::request: a seed goes to the downloader directly.
Request(u) ==
  /\ u \in Seeds /\ Alive < MaxContexts
  /\ flight' = flight (+) SetToBag({[url |-> u, linkdepth |-> 0, hub |-> TRUE]})
  /\ UNCHANGED <<link, selVars, waitDumpQueue, dumpVars, history>>

\* doWithCrawlDone of a crawl that failed.
CrawlFailed(c) ==
  /\ BagIn(c, flight) /\ MayFailOnce(c.url)
  /\ flight' = flight (-) SetToBag({c})
  /\ LastWord(Failed(link, c.url), c.url)
  /\ UNCHANGED <<selVars, waitDumpQueue, dumpVars, missed, replaced, crashes>>

\* HttpProcessor::run and MongoDumper::run delete a context whose connect or
\* whose dump failed, and do not touch the table.
Dropped(c) ==
  /\ BagIn(c, flight)
  /\ flight' = flight (-) SetToBag({c})
  /\ lost' = lost \cup {c.url}
  /\ UNCHANGED <<link, selVars, waitDumpQueue, dumpVars, missed, replaced, crashes, failures>>

\* The page is in mongo; its context goes to the dumper's queue.
Crawled(c) ==
  /\ BagIn(c, flight)
  /\ flight' = flight (-) SetToBag({c})
  /\ waitDumpQueue' = Append(waitDumpQueue, c)
  /\ UNCHANGED <<link, selVars, dumpVars, history>>

----------------------------------------------------------------------------
(* MySqlDumper.                                                            *)

\* UPDATE ... SET crawlstate=CRAWLED WHERE sign IN (...)
MarkCrawled(table, urls) ==
  Update(table, LAMBDA u : u \in urls, LAMBDA row : WithState(row, "CRAWLED"))

BatchFull(batch, limit) == Len(batch) >= limit

NewRow(depth) == [crawlstate |-> "NEW", crawlretry |-> 0, linkdepth |-> depth, hub |-> FALSE]

\* A plausible bug: INSERT without IGNORE's effect, the row is written again.
InsertIgnore_Replace(table, rows) ==
  [u \in DOMAIN table \cup {r[1] : r \in SetOf(rows)} |->
     IF \E i \in DOMAIN rows : rows[i][1] = u
     THEN LET i == CHOOSE i \in DOMAIN rows : rows[i][1] = u IN NewRow(rows[i][2])
     ELSE table[u]]

\* INSERT IGNORE: of the rows for one url the first counts, and none if there is
\* a row for it.
InsertIgnore(table, rows) ==
  [u \in DOMAIN table \cup {r[1] : r \in SetOf(rows)} |->
     IF u \in DOMAIN table THEN table[u]
     ELSE LET i == CHOOSE i \in DOMAIN rows :
                     rows[i][1] = u /\ \A j \in 1 .. i - 1 : rows[j][1] # u
          IN NewRow(rows[i][2])]

\* flushUpdate of a batch: it is forgotten whether or not the statement succeeds.
FlushUpdate(batch) ==
  /\ updateLinks' = << >>
  /\ \/ batch = << >> /\ UNCHANGED <<link, lost, failures>>
     \/ batch # << >> /\ Works(MarkCrawled(link, SetOf(batch))) /\ UNCHANGED lost
     \/ batch # << >> /\ Fails /\ lost' = lost \cup SetOf(batch)

\* flushInsert.
FlushInsert(batch) ==
  /\ insertLinks' = << >>
  /\ Exec(InsertIgnore(link, batch))

\* A plausible bug: the batches are flushed only when they are full.
Check_NoFlush ==
  /\ dumpPc = "check"
  /\ dumpPc' = "pop"
  /\ UNCHANGED <<link, selVars, flight, waitDumpQueue, cur, hrefs, updateLinks, insertLinks, history>>

\* run, the test before the pop: with nothing to do the update batch is flushed.
Check ==
  /\ dumpPc = "check"
  /\ \/ /\ waitDumpQueue # << >>
        /\ dumpPc' = "pop"
        /\ UNCHANGED <<link, updateLinks, lost, failures>>
     \/ /\ waitDumpQueue = << >>
        /\ FlushUpdate(updateLinks)
        /\ dumpPc' = "flushInsert"
  /\ UNCHANGED <<selVars, flight, waitDumpQueue, cur, hrefs, insertLinks, missed, replaced, crashes>>

\* And then the insert batch.
CheckInsert ==
  /\ dumpPc = "flushInsert"
  /\ FlushInsert(insertLinks)
  /\ dumpPc' = "pop"
  /\ UNCHANGED <<selVars, flight, waitDumpQueue, cur, hrefs, updateLinks, lost, missed, replaced, crashes>>

Pop ==
  /\ dumpPc = "pop" /\ waitDumpQueue # << >>
  /\ cur' = Head(waitDumpQueue)
  /\ hrefs' = Links[Head(waitDumpQueue).url]
  /\ waitDumpQueue' = Tail(waitDumpQueue)
  /\ dumpPc' = IF Head(waitDumpQueue).hub THEN "hub" ELSE "state"
  /\ UNCHANGED <<link, selVars, flight, updateLinks, insertLinks, history>>

\* UPDATE IGNORE link SET sign=u, ..., with no WHERE.  Where the table has u, the
\* primary key lets only its row be written; where it has not, the first row that
\* the scan meets becomes the row of u, and the key protects the others.
HubRow(row) == [row EXCEPT !.crawlstate = "NEW", !.linkdepth = 0, !.hub = TRUE]

SetHub(u) ==
  \/ /\ u \in Stored
     /\ Works(Update(link, LAMBDA v : v = u, HubRow)) /\ UNCHANGED replaced
  \/ /\ u \notin Stored
     /\ \E v \in Stored :
          /\ Works([w \in (Stored \ {v}) \cup {u} |-> IF w = u THEN HubRow(link[v]) ELSE link[w]])
          /\ replaced' = replaced \cup {v}
  \/ Stored = {} /\ Works(link) /\ UNCHANGED replaced
  \/ Fails /\ UNCHANGED replaced

\* dumpHub: after its statement it resets the batch of updates.
DumpHub ==
  /\ dumpPc = "hub"
  /\ SetHub(cur.url)
  /\ updateLinks' = << >>
  /\ lost' = lost \cup SetOf(updateLinks)
  /\ dumpPc' = "state"
  /\ UNCHANGED <<selVars, flight, waitDumpQueue, cur, hrefs, insertLinks, missed, crashes>>

\* updateCrawlState.
UpdateCrawlState ==
  /\ dumpPc = "state"
  /\ LET batch == Append(updateLinks, cur.url)
     IN \/ BatchFull(batch, UpdateBatch) /\ FlushUpdate(batch)
        \/ /\ ~BatchFull(batch, UpdateBatch) /\ updateLinks' = batch
           /\ UNCHANGED <<link, lost, failures>>
  /\ dumpPc' = "links"
  /\ UNCHANGED <<selVars, flight, waitDumpQueue, cur, hrefs, insertLinks, missed, replaced, crashes>>

\* dumpOneLink.
DumpOneLink(u) ==
  /\ dumpPc = "links" /\ u \in hrefs
  /\ hrefs' = hrefs \ {u}
  /\ LET batch == Append(insertLinks, <<u, cur.linkdepth + 1>>)
     IN \/ BatchFull(batch, InsertBatch) /\ FlushInsert(batch)
        \/ ~BatchFull(batch, InsertBatch) /\ insertLinks' = batch /\ UNCHANGED <<link, failures>>
  /\ UNCHANGED <<selVars, flight, waitDumpQueue, dumpPc, cur, updateLinks, lost, missed, replaced, crashes>>

\* The end of dump: run deletes the context.
EndOfDump ==
  /\ dumpPc = "links" /\ hrefs = {}
  /\ cur' = NoContext /\ dumpPc' = "check"
  /\ UNCHANGED <<link, selVars, flight, waitDumpQueue, hrefs, updateLinks, insertLinks, history>>

----------------------------------------------------------------------------
\* The process dies and is started again: only the table is left.
Crash ==
  /\ crashes + failures < MaxFaults
  /\ crashes' = crashes + 1
  /\ selPc' = "recover" /\ result' = {}
  /\ flight' = EmptyBag /\ waitDumpQueue' = << >>
  /\ dumpPc' = "check" /\ cur' = NoContext /\ hrefs' = {}
  /\ updateLinks' = << >> /\ insertLinks' = << >>
  /\ lost' = {u \in Stored : link[u].crawlstate = "SELECTED"} /\ missed' = {}
  /\ UNCHANGED <<link, replaced, failures>>

Selector == RecoverCrawlState \/ Select \/ UpdateSelected \/ EndOfResult \/ \E r \in result : AddUrl(r)
Pipeline == \/ \E u \in Urls : Request(u)
            \/ \E c \in BagToSet(flight) : CrawlFailed(c) \/ Dropped(c) \/ Crawled(c)
Dumper   == Check \/ CheckInsert \/ Pop \/ DumpHub \/ UpdateCrawlState \/ EndOfDump
              \/ \E u \in hrefs : DumpOneLink(u)

Next == Selector \/ Pipeline \/ Dumper \/ Crash

Safety == Init /\ [][Next]_vars
Spec   == Safety /\ WF_vars(Dumper)

----------------------------------------------------------------------------
(* Properties.                                                             *)

TypeOK ==
  /\ DOMAIN link \subseteq Urls /\ \A u \in DOMAIN link : link[u] \in Row
  /\ selPc \in {"recover", "select", "update", "add"}
  /\ result \subseteq Context /\ BagToSet(flight) \subseteq Context
  /\ waitDumpQueue \in Seq(Context)
  /\ dumpPc \in {"check", "flushInsert", "pop", "hub", "state", "links"}
  /\ cur \in Context \cup {NoContext}
  /\ (cur = NoContext) <=> (dumpPc \in {"check", "flushInsert", "pop"})
  /\ hrefs \subseteq Urls
  /\ Len(updateLinks) < UpdateBatch /\ Len(insertLinks) < InsertBatch
  /\ lost \subseteq Urls /\ missed \subseteq Urls /\ replaced \subseteq Urls
  /\ crashes \in 0 .. MaxFaults /\ failures \in 0 .. MaxFaults

\* How many contexts there are of u, on any way; one in the result counts too.
Copies(u) ==
  Cardinality({r \in result : r.url = u})
    + BagCardinality([c \in {d \in BagToSet(flight) : d.url = u} |-> flight[c]])
    + Cardinality({i \in DOMAIN waitDumpQueue : waitDumpQueue[i].url = u})
    + (IF cur.url = u THEN 1 ELSE 0)

\* The links of the table that are neither hubs nor seeds.
Plain == {u \in Stored \ Seeds : ~link[u].hub}

\* A link is crawled by one context at a time, although select's query and its
\* update are two statements and others write the table in between.  Each statement
\* that failed allows one crawl more; a link whose row dumpHub took is not counted.
OneCrawlAtATime == \A u \in Plain \ replaced : Copies(u) <= 1 + failures

\* A plain link whose row was not written over fails at most MaxCrawlRetry times, and
\* once more for each statement that failed.
RetryBounded == \A u \in Plain \ replaced : link[u].crawlretry <= MaxCrawlRetry + failures

\* As long as no statement has failed, a plain link that was crawled, and whose row was
\* not written over, is not crawled again.
CrawledIsFinal ==
  [][\A u \in Plain \ replaced' : failures = 0 /\ link[u].crawlstate = "CRAWLED" =>
       u \in DOMAIN link' /\ link'[u].crawlstate = "CRAWLED"]_vars

\* mysql_dumper.cpp:45: before the dumper blocks on an empty queue both batches
\* are in the table (mysql_dumper.h:47 still says that some may be left).
NothingLeftBehind ==
  dumpPc = "pop" /\ waitDumpQueue = << >> => updateLinks = << >> /\ insertLinks = << >>

\* The urls that a context carries towards the statement that changes their state.
UrlsOf(contexts) == {c.url : c \in contexts}
OnTheWay ==
  UrlsOf(result) \cup UrlsOf(BagToSet(flight)) \cup UrlsOf(SetOf(waitDumpQueue))
    \cup (IF dumpPc \in {"hub", "state"} THEN {cur.url} ELSE {})

\* A selected link is on its way, or waits in the batch, or its context was lost,
\* or it was marked without having been selected.
SelectedAccounted ==
  \A u \in Stored : link[u].crawlstate = "SELECTED" =>
     u \in OnTheWay \cup SetOf(updateLinks) \cup lost \cup missed

\* recoverCrawlState leaves no link selected with nobody crawling it, whatever the
\* last process did before it died.
RestartFrees ==
  [][selPc = "recover" /\ selPc' = "select" /\ failures' = failures =>
       \A u \in DOMAIN link' : link'[u].crawlstate # "SELECTED"]_vars

\* That is because it asks for crawlretry < MaxCrawlRetry, a test that no selected
\* row fails at any time, also when statements fail.
RecoverableAll ==
  \A u \in Stored : link[u].crawlstate = "SELECTED" => link[u].crawlretry < MaxCrawlRetry

\* Again and again the batch of crawls is written, and the batch of links with it
\* unless more pages wait (pages without links may keep them waiting until then).
BatchesFlushed ==
  []<>(updateLinks = << >> /\ (insertLinks = << >> \/ waitDumpQueue # << >>))

\* mysql_dumper.cpp:92: the crawl state of this url is updated.  The batch of
\* updates is emptied only into the table.
CrawlRecorded ==
  [][crashes' = crashes /\ updateLinks' = << >> =>
       \A u \in SetOf(updateLinks) \cap DOMAIN link' : link'[u].crawlstate = "CRAWLED"]_vars
==============================================================================
