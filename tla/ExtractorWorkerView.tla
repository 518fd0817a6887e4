------------------------ MODULE ExtractorWorkerView -------------------------
(***************************************************************************)
(* The way of a page behind the downloader: the queue of Extractor, the    *)
(* one QWebView that loads pages in the main thread and collects their     *)
(* titles and links, the thread of MongoDumper that stores them, and the   *)
(* queue of MySqlDumper, which deletes the contexts (LinkStore has the     *)
(* statements it executes before).                                         *)
(*                                                                         *)
(* The view works on callbacks of Qt's event loop: loadFinished, and the   *)
(* timer that limits a load.  A timer of Qt repeats until it is killed,    *)
(* and keeps its phase unless it is late by an interval.  No callback runs *)
(* while doWithOneUrl blocks the main thread in pop_front.                 *)
(*                                                                         *)
(* Time passes in ticks.  How long a load takes is WebKit's affair, and    *)
(* may differ each time; setHtml during a load replaces it, and what was   *)
(* replaced is never reported as finished.                                 *)
(***************************************************************************)
EXTENDS Integers, Sequences, FiniteSets

CONSTANTS
  MaxQueueSize,  \* extractorMaxQueueSize
  Timeout,       \* extractorTimeout, in ticks
  MaxCost,       \* bound: ticks that a load takes
  MaxPages,      \* bound: pages that the downloader pushes
  MaxTimers      \* bound: timers that run at a time

ASSUME ViewAssumption ==
  /\ MaxQueueSize \in Nat /\ Timeout \in Nat \ {0} /\ MaxCost \in Nat \ {0}
  /\ MaxPages \in Nat /\ MaxTimers \in Nat \ {0}

\* Contexts are numbered in the order they come.
Pages == 1..MaxPages

VARIABLES
  \* Extractor
  waitExtractQueue,
  \* ExtractorWorkerView, in the main thread
  place,       \* "pop": in pop_front; "view": in the event loop, a page in the view
  urlContext,  \* _urlContext, 0 before the first
  work,        \* the ticks its load has still to go
  timerID,     \* _timerID
  timers,      \* the ticks each timer has to go; what is late is below zero
  \* MongoDumper, MySqlDumper
  mongoQueue, mongoHand, mysqlQueue,
  \* history
  pushed,      \* pages pushed so far
  deleted,     \* contexts deleted
  age,         \* ticks since the load began, Timeout if more
  timeouts     \* timer events so far

vars == <<waitExtractQueue, place, urlContext, work, timerID, timers, mongoQueue, mongoHand,
          mysqlQueue, pushed, deleted, age, timeouts>>
view  == <<place, urlContext, work, timerID, timers, age, timeouts>>
store == <<mongoQueue, mongoHand, mysqlQueue, deleted>>

Init ==
  /\ waitExtractQueue = <<>>
  /\ place = "pop" /\ urlContext = 0 /\ work = 0 /\ timerID = 0 /\ timers = <<>>
  /\ mongoQueue = <<>> /\ mongoHand = <<>> /\ mysqlQueue = <<>>
  /\ pushed = 0 /\ deleted = {} /\ age = 0 /\ timeouts = 0

(***************************************************************************)
(* Extractor.                                                              *)
(***************************************************************************)
HasRoom == Len(waitExtractQueue) <= MaxQueueSize

\* Extractor::push, by the downloader's event thread.
Push ==
  /\ pushed < MaxPages /\ HasRoom
  /\ pushed' = pushed + 1
  /\ waitExtractQueue' = Append(waitExtractQueue, pushed')
  /\ UNCHANGED <<view, store>>

(***************************************************************************)
(* ExtractorWorkerView.                                                    *)
(***************************************************************************)
\* startTimer: Qt gives it a number that is free.
FreeTimer == CHOOSE t \in 1..MaxTimers : t \notin DOMAIN timers
StartTimer(running) ==
  /\ timerID' = FreeTimer
  /\ timers' = [t \in DOMAIN running \union {FreeTimer} |->
                  IF t \in DOMAIN running THEN running[t] ELSE Timeout]
KillTimer(t) == timers' = [u \in DOMAIN timers \ {t} |-> timers[u]]

SetHtml == work' \in 1..MaxCost /\ age' = 0

\* The next time a timer that fires is due.
Rearmed(late) == IF late + Timeout > 0 THEN late + Timeout ELSE Timeout

\* doWithOneUrl, where pop_front returns.
DoWithOneUrl ==
  /\ place = "pop" /\ waitExtractQueue # <<>>
  /\ Cardinality(DOMAIN timers) < MaxTimers
  /\ urlContext' = Head(waitExtractQueue)
  /\ waitExtractQueue' = Tail(waitExtractQueue)
  /\ StartTimer(timers)
  /\ SetHtml
  /\ place' = "view"
  /\ UNCHANGED <<store, pushed, timeouts>>

OnLoadFinish_KeepsTimer ==
  /\ place = "view" /\ work = 0
  /\ mongoQueue' = Append(mongoQueue, urlContext)
  /\ place' = "pop"
  /\ UNCHANGED <<waitExtractQueue, urlContext, work, timerID, timers, mongoHand, mysqlQueue, pushed,
                 deleted, age, timeouts>>

OnLoadFinish_NoNext ==
  /\ place = "view" /\ work = 0
  /\ mongoQueue' = Append(mongoQueue, urlContext)
  /\ KillTimer(timerID)
  /\ place' = IF waitExtractQueue = <<>> THEN "idle" ELSE "pop"
  /\ UNCHANGED <<waitExtractQueue, urlContext, work, timerID, mongoHand, mysqlQueue, pushed,
                 deleted, age, timeouts>>

\* onLoadFinish: title and links are collected, the context is handed over, and
\* the next one awaited.
OnLoadFinish ==
  /\ place = "view" /\ work = 0
  /\ mongoQueue' = Append(mongoQueue, urlContext)
  /\ KillTimer(timerID)
  /\ place' = "pop"
  /\ UNCHANGED <<waitExtractQueue, urlContext, work, timerID, mongoHand, mysqlQueue, pushed,
                 deleted, age, timeouts>>

Due(t) == t \in DOMAIN timers /\ timers[t] <= 0

TimerEvent_TakesNext(t) ==
  /\ place = "view" /\ Due(t)
  /\ Cardinality(DOMAIN timers) < MaxTimers
  /\ waitExtractQueue # <<>>
  /\ urlContext' = Head(waitExtractQueue)
  /\ waitExtractQueue' = Tail(waitExtractQueue)
  /\ StartTimer([timers EXCEPT ![t] = Rearmed(@)])
  /\ SetHtml
  /\ timeouts' = timeouts + 1
  /\ UNCHANGED <<place, store, pushed>>

\* timerEvent, for any timer: the page is loaded anew, with a timer of its own.
\* The others go on, whatever page they were started for.
TimerEvent(t) ==
  /\ place = "view" /\ Due(t)
  /\ Cardinality(DOMAIN timers) < MaxTimers
  /\ StartTimer([timers EXCEPT ![t] = Rearmed(@)])
  /\ SetHtml
  /\ timeouts' = timeouts + 1
  /\ UNCHANGED <<waitExtractQueue, place, urlContext, store, pushed>>

\* The event loop delivers what is ready before it waits.
Tick ==
  /\ place = "view" => work > 0 /\ \A t \in DOMAIN timers : ~Due(t)
  /\ timers' = [t \in DOMAIN timers |-> IF timers[t] = -Timeout THEN -Timeout ELSE timers[t] - 1]
  /\ IF place = "view"
     THEN work' = work - 1 /\ age' = IF age = Timeout THEN Timeout ELSE age + 1
     ELSE UNCHANGED <<work, age>>
  /\ UNCHANGED <<waitExtractQueue, place, urlContext, timerID, store, pushed, timeouts>>

(***************************************************************************)
(* MongoDumper, and the dumper behind it.                                  *)
(***************************************************************************)
MongoPop ==
  /\ mongoHand = <<>> /\ mongoQueue # <<>>
  /\ mongoHand' = <<Head(mongoQueue)>>
  /\ mongoQueue' = Tail(mongoQueue)
  /\ UNCHANGED <<waitExtractQueue, view, mysqlQueue, deleted, pushed>>

\* dump stores the page, or fails, also because the page is too large.
MongoDump ==
  /\ mongoHand # <<>>
  /\ mongoHand' = <<>>
  /\ \/ mysqlQueue' = mysqlQueue \o mongoHand /\ UNCHANGED deleted
     \/ deleted' = deleted \union {mongoHand[1]} /\ UNCHANGED mysqlQueue
  /\ UNCHANGED <<waitExtractQueue, view, mongoQueue, pushed>>

\* MySqlDumper::run pops a context, dumps it and deletes it.
MySqlDump ==
  /\ mysqlQueue # <<>>
  /\ mysqlQueue' = Tail(mysqlQueue)
  /\ deleted' = deleted \union {Head(mysqlQueue)}
  /\ UNCHANGED <<waitExtractQueue, view, mongoQueue, mongoHand, pushed>>

(***************************************************************************)
(* Behaviours.                                                             *)
(***************************************************************************)
MainThread == DoWithOneUrl \/ OnLoadFinish \/ \E t \in 1..MaxTimers : TimerEvent(t)

Next == Push \/ MainThread \/ Tick \/ MongoPop \/ MongoDump \/ MySqlDump

\* The threads run and time goes on.  Nobody has to push a page.
Spec ==
  /\ Init /\ [][Next]_vars
  /\ WF_vars(DoWithOneUrl) /\ WF_vars(OnLoadFinish) /\ WF_vars(Tick)
  /\ WF_vars(MongoPop \/ MongoDump) /\ WF_vars(MySqlDump)

(***************************************************************************)
(* Properties.                                                             *)
(***************************************************************************)
TypeOK ==
  /\ waitExtractQueue \in Seq(Pages) /\ Len(waitExtractQueue) <= MaxQueueSize + 1
  /\ place \in {"pop", "view"} /\ urlContext \in {0} \union Pages
  /\ work \in 0..MaxCost /\ age \in 0..Timeout
  /\ DOMAIN timers \subseteq 1..MaxTimers /\ timerID \in 0..MaxTimers
  /\ \A t \in DOMAIN timers : timers[t] \in -Timeout..Timeout
  /\ mongoQueue \in Seq(Pages) /\ mysqlQueue \in Seq(Pages)
  /\ mongoHand \in {<<>>} \union {<<p>> : p \in Pages}
  /\ pushed \in 0..MaxPages /\ deleted \subseteq Pages /\ timeouts \in 0..MaxTimers

Current == IF place = "view" THEN <<urlContext>> ELSE <<>>
Pipeline == mysqlQueue \o mongoHand \o mongoQueue \o Current \o waitExtractQueue

\* Each context pushed is at one place or deleted, whatever is loaded anew: the
\* view never holds a context that it has handed over, none is lost and none
\* overtakes another.
OneInOrder ==
  /\ \A i, j \in DOMAIN Pipeline : i < j => Pipeline[i] < Pipeline[j]
  /\ {Pipeline[i] : i \in DOMAIN Pipeline} = (1..pushed) \ deleted

\* The timers that run are that of the load in the view, if there is one, and
\* one more for each timer event there has ever been.
TimersExplained ==
  /\ place = "view" => timerID \in DOMAIN timers
  /\ Cardinality(DOMAIN timers) = timeouts + (IF place = "view" THEN 1 ELSE 0)

\* As long as every load takes less than the time limit each page is extracted and
\* its context deleted in the end.
PromptPagesEnd ==
  [](work < Timeout) => \A p \in Pages : pushed >= p ~> p \in deleted

\* extractor_worker_view.cpp:52, 159: the timer is the time limit of the page, and
\* a timer event says that its extraction took too long.
TimeoutIsThePages == [][timeouts' # timeouts => age = Timeout]_vars
=============================================================================
