---------------------------- MODULE HttpProcessor ----------------------------
(***************************************************************************)
(* The downloader (http_processor.cpp, http_event_engine.cpp).  Two        *)
(* threads share the url contexts and the counter _concCount: the run      *)
(* thread takes contexts from the connect queue, opens a socket and        *)
(* registers an event; the thread of the event engine runs the callbacks,  *)
(* which send, receive, retry, follow redirects, and hand a page on to the *)
(* extractor or end the context.  A context is owned by one of them at a   *)
(* time and passed through the two queues.                                 *)
(*                                                                         *)
(* What a peer sends and when a timeout strikes is arbitrary.  The status  *)
(* of an ended context is kept as it was before the destructor wrote       *)
(* DELETED.  The statistics _tryProcCount and _procFinishCount, and the    *)
(* UPDATE of the link row when a crawl fails, are not part of this module. *)
(***************************************************************************)
EXTENDS Integers, Sequences, FiniteSets

CONSTANTS Urls,             \* the url contexts that are ever made
          MaxConcurrence,   \* httpMaxConcurrence
          MaxRetry,         \* httpMaxRetry
          MaxRedirectDepth, \* httpMaxRedirectDepth
          MaxConnectQueue,  \* httpConnectQueueSize
          MaxExtractQueue,  \* extractorMaxQueueSize
          None

ASSUME HttpAssumption ==
  /\ IsFiniteSet(Urls) /\ None \notin Urls
  /\ MaxConcurrence \in Nat /\ MaxRetry \in Nat \ {0} /\ MaxRedirectDepth \in Nat
  /\ MaxConnectQueue \in Nat /\ MaxExtractQueue \in Nat

VARIABLES
  \* the fields of each UrlContext
  life,          \* not made yet, live, delivered to the extractor, or deleted
  status,        \* field status
  retry,         \* field retry
  redirectDepth, \* field redirectDepth
  sock,          \* whether the socket made for it is open
  event,         \* the callback registered for it
  attempts,      \* sockets opened for it so far (history)
  \* the run thread
  runPc, runUrl,
  \* the thread of the event engine
  engPc, engUrl,
  \* shared
  waitConnectQueue, waitExtractQueue, concCount

ctxVars == <<life, status, retry, redirectDepth, sock, event, attempts>>
runVars == <<runPc, runUrl>>
engVars == <<engPc, engUrl>>
vars == <<ctxVars, runVars, engVars, waitConnectQueue, waitExtractQueue, concCount>>

Init ==
  /\ life = [u \in Urls |-> "none"]
  /\ status = [u \in Urls |-> "CONNECTING"]
  /\ retry = [u \in Urls |-> 0]
  /\ redirectDepth = [u \in Urls |-> 0]
  /\ sock = [u \in Urls |-> "closed"]
  /\ event = [u \in Urls |-> "none"]
  /\ attempts = [u \in Urls |-> 0]
  /\ runPc = "pop" /\ runUrl = None
  /\ engPc = "loop" /\ engUrl = None
  /\ waitConnectQueue = << >> /\ waitExtractQueue = << >>
  /\ concCount = 0

\* The scheduler or the thrift handler pushes a new context once there is room.
PushConnectQueue(u) ==
  /\ life[u] = "none" /\ Len(waitConnectQueue) <= MaxConnectQueue
  /\ life' = [life EXCEPT ![u] = "live"]
  /\ waitConnectQueue' = Append(waitConnectQueue, u)
  /\ UNCHANGED <<status, retry, redirectDepth, sock, event, attempts,
                 runVars, engVars, waitExtractQueue, concCount>>

----------------------------------------------------------------------------
(* The run thread: run and connect.                                        *)

PopConnectQueue ==
  /\ runPc = "pop" /\ waitConnectQueue # << >>
  /\ runUrl' = Head(waitConnectQueue)
  /\ waitConnectQueue' = Tail(waitConnectQueue)
  /\ runPc' = "wait"
  /\ UNCHANGED <<ctxVars, engVars, waitExtractQueue, concCount>>

\* A plausible bug: the loop goes on one connection late.
BelowMaxConcurrence_TooFar == concCount <= MaxConcurrence + 1

\* The exit of the loop while (_concCount > httpMaxConcurrence) usleep(5000).
BelowMaxConcurrence == concCount <= MaxConcurrence

WaitConcurrence ==
  /\ runPc = "wait" /\ BelowMaxConcurrence
  /\ runPc' = "connect"
  /\ UNCHANGED <<ctxVars, runUrl, engVars, waitConnectQueue, waitExtractQueue, concCount>>

\* getServAddr or socket() fails: run deletes the context.
RefuseConnect ==
  /\ runPc = "connect"
  /\ life' = [life EXCEPT ![runUrl] = "deleted"]
  /\ runPc' = "pop" /\ runUrl' = None
  /\ UNCHANGED <<status, retry, redirectDepth, sock, event, attempts,
                 engVars, waitConnectQueue, waitExtractQueue, concCount>>

\* createNonblockingSocket counts the connection.
OpenSocket ==
  /\ runPc = "connect"
  /\ sock' = [sock EXCEPT ![runUrl] = "open"]
  /\ attempts' = [attempts EXCEPT ![runUrl] = @ + 1]
  /\ concCount' = concCount + 1
  /\ runPc' = "opened"
  /\ UNCHANGED <<life, status, retry, redirectDepth, event,
                 runUrl, engVars, waitConnectQueue, waitExtractQueue>>

\* buildHttpRequestHeader or ::connect fails at once: connect returns -1 and run
\* deletes the context; nobody closes the socket or takes it off the count.
FailConnect ==
  /\ runPc = "opened"
  /\ life' = [life EXCEPT ![runUrl] = "deleted"]
  /\ runPc' = "pop" /\ runUrl' = None
  /\ UNCHANGED <<status, retry, redirectDepth, sock, event, attempts,
                 engVars, waitConnectQueue, waitExtractQueue, concCount>>

\* event_new and event_add: from here on the context is the engine's.
RegisterEvent ==
  /\ runPc = "opened"
  /\ event' = [event EXCEPT ![runUrl] = "on_connected"]
  /\ runPc' = "pop" /\ runUrl' = None
  /\ UNCHANGED <<life, status, retry, redirectDepth, sock, attempts,
                 engVars, waitConnectQueue, waitExtractQueue, concCount>>

RunThread == PopConnectQueue \/ WaitConcurrence \/ RefuseConnect \/ OpenSocket
               \/ FailConnect \/ RegisterEvent

----------------------------------------------------------------------------
(* The callbacks: on_connected, on_send, on_recv and what they call.       *)

\* The engine is in its loop and calls the callback of u.
Callback(u) == engPc = "loop" /\ event[u] # "none"

\* A plausible bug: the callback frees the event and forgets the socket.
CloseAll_EventOnly(u) ==
  event' = [event EXCEPT ![u] = "none"] /\ sock' = sock

\* event_del, event_free, close.
CloseAll(u) ==
  /\ event' = [event EXCEPT ![u] = "none"]
  /\ sock' = [sock EXCEPT ![u] = "closed"]

\* urlContext->init(), then straight back to the connect queue: no waiting for
\* room here.
Requeue(u) ==
  /\ status' = [status EXCEPT ![u] = "CONNECTING"]
  /\ waitConnectQueue' = Append(waitConnectQueue, u)

\* doWithCrawlDone for a crawl that failed: the context is deleted.
CrawlFailed(u, why) ==
  /\ status' = [status EXCEPT ![u] = why]
  /\ life' = [life EXCEPT ![u] = "deleted"]

\* A plausible bug: <= lets one more retry through.
MayRetry_OneMore(n) == n <= MaxRetry

MayRetry(n) == n < MaxRetry

\* A plausible bug: a retried context is deleted as well.
OnTimeout_DeletesRetried(u) ==
  /\ retry' = [retry EXCEPT ![u] = @ + 1]
  /\ \/ /\ MayRetry(retry[u] + 1)
        /\ Requeue(u)
        /\ life' = [life EXCEPT ![u] = "deleted"]
        /\ concCount' = concCount - 1
     \/ /\ ~MayRetry(retry[u] + 1)
        /\ CrawlFailed(u, "TIMEOUT")
        /\ concCount' = concCount - 2
        /\ UNCHANGED waitConnectQueue

\* A plausible bug: a retry keeps the place it had among the connections.
OnTimeout_RetryUncounted(u) ==
  /\ retry' = [retry EXCEPT ![u] = @ + 1]
  /\ \/ /\ MayRetry(retry[u] + 1)
        /\ Requeue(u)
        /\ UNCHANGED <<life, concCount>>
     \/ /\ ~MayRetry(retry[u] + 1)
        /\ CrawlFailed(u, "TIMEOUT")
        /\ concCount' = concCount - 2
        /\ UNCHANGED waitConnectQueue

\* A plausible bug: once its retries are used up a context is dropped unended.
OnTimeout_GivesUpSilently(u) ==
  /\ retry' = [retry EXCEPT ![u] = @ + 1]
  /\ \/ /\ MayRetry(retry[u] + 1)
        /\ Requeue(u)
        /\ concCount' = concCount - 1
     \/ /\ ~MayRetry(retry[u] + 1)
        /\ status' = [status EXCEPT ![u] = "TIMEOUT"]
        /\ concCount' = concCount - 2
        /\ UNCHANGED waitConnectQueue
  /\ UNCHANGED life

\* doWithSockTimeout and onBroken take the connection off the count and call
\* onTimeout; when the retries are used up, doWithCrawlDone takes it off again.
OnTimeout(u) ==
  /\ retry' = [retry EXCEPT ![u] = @ + 1]
  /\ \/ /\ MayRetry(retry[u] + 1)
        /\ Requeue(u)
        /\ concCount' = concCount - 1
        /\ UNCHANGED life
     \/ /\ ~MayRetry(retry[u] + 1)
        /\ CrawlFailed(u, "TIMEOUT")
        /\ concCount' = concCount - 2
        /\ UNCHANGED waitConnectQueue

\* EV_TIMEOUT in any of the three callbacks.
DoWithSockTimeout(u) ==
  /\ Callback(u)
  /\ CloseAll(u)
  /\ OnTimeout(u)
  /\ UNCHANGED <<redirectDepth, attempts, runVars, engVars, waitExtractQueue>>

\* send or recv fails (E_ERR).
OnBroken(u) ==
  /\ Callback(u)
  /\ CloseAll(u)
  /\ OnTimeout(u)
  /\ UNCHANGED <<redirectDepth, attempts, runVars, engVars, waitExtractQueue>>

\* E_AGAIN: not all of the request is sent, or the page is not complete; the
\* callback that continues is registered, with a fresh timeout.
TryAgain(u) ==
  /\ Callback(u)
  /\ \/ /\ event[u] \in {"on_connected", "on_send"}
        /\ event' = [event EXCEPT ![u] = "on_send"]
     \/ event' = [event EXCEPT ![u] = "on_recv"]
  /\ status' = [status EXCEPT ![u] = "SENDING"]
  /\ UNCHANGED <<life, retry, redirectDepth, sock, attempts, runVars, engVars,
                 waitConnectQueue, waitExtractQueue, concCount>>

MayRedirect(u) == redirectDepth[u] < MaxRedirectDepth

\* onRecvOnePage: the peer closed the connection after the last byte.  200 and
\* unknown answers are done; a redirect goes back to the queue while its depth
\* allows; 404, a redirect too many or a malformed answer fail.
OnRecvOnePage(u) ==
  /\ Callback(u)
  /\ CloseAll(u)
  /\ \/ /\ status' = [status EXCEPT ![u] = "DONE"]
        /\ engPc' = "push" /\ engUrl' = u
        /\ UNCHANGED <<life, redirectDepth, waitConnectQueue, concCount>>
     \/ /\ MayRedirect(u)
        /\ redirectDepth' = [redirectDepth EXCEPT ![u] = @ + 1]
        /\ Requeue(u)
        /\ engPc' = "count"
        /\ UNCHANGED <<life, engUrl, concCount>>
     \/ /\ CrawlFailed(u, "PROTERR")
        /\ concCount' = concCount - 1
        /\ UNCHANGED <<redirectDepth, waitConnectQueue, engVars>>
  /\ UNCHANGED <<retry, attempts, runVars, waitExtractQueue>>

\* Extractor::push waits for room: meanwhile the engine runs no callback.
PushExtractor ==
  /\ engPc = "push" /\ Len(waitExtractQueue) <= MaxExtractQueue
  /\ waitExtractQueue' = Append(waitExtractQueue, engUrl)
  /\ engPc' = "count" /\ engUrl' = None
  /\ UNCHANGED <<ctxVars, runVars, waitConnectQueue, concCount>>

\* The last statement of doWithCrawlDone and of doWithRedirect: the context is
\* no longer the engine's when the connection is taken off the count.
CountDown ==
  /\ engPc = "count"
  /\ concCount' = concCount - 1
  /\ engPc' = "loop"
  /\ UNCHANGED <<ctxVars, runVars, engUrl, waitConnectQueue, waitExtractQueue>>

EventThread ==
  \/ \E u \in Urls : DoWithSockTimeout(u) \/ OnBroken(u) \/ TryAgain(u) \/ OnRecvOnePage(u)
  \/ PushExtractor
  \/ CountDown

\* The extractor takes a page.
Extract ==
  /\ waitExtractQueue # << >>
  /\ life' = [life EXCEPT ![Head(waitExtractQueue)] = "delivered"]
  /\ waitExtractQueue' = Tail(waitExtractQueue)
  /\ UNCHANGED <<status, retry, redirectDepth, sock, event, attempts,
                 runVars, engVars, waitConnectQueue, concCount>>

----------------------------------------------------------------------------
Next == (\E u \in Urls : PushConnectQueue(u)) \/ RunThread \/ EventThread \/ Extract

\* Both threads and the extractor keep running; every event has a timeout, so
\* each registered callback is called sooner or later.
Fairness ==
  /\ WF_vars(RunThread) /\ WF_vars(PushExtractor) /\ WF_vars(CountDown) /\ WF_vars(Extract)
  /\ \A u \in Urls : SF_vars(DoWithSockTimeout(u) \/ OnBroken(u) \/ TryAgain(u)
                               \/ OnRecvOnePage(u))

Safety == Init /\ [][Next]_vars
Spec   == Safety /\ Fairness

----------------------------------------------------------------------------
(* Properties.                                                             *)

TypeOK ==
  /\ life \in [Urls -> {"none", "live", "delivered", "deleted"}]
  /\ status \in [Urls -> {"CONNECTING", "SENDING", "DONE", "TIMEOUT", "PROTERR"}]
  /\ retry \in [Urls -> 0 .. MaxRetry]
  /\ redirectDepth \in [Urls -> 0 .. MaxRedirectDepth]
  /\ sock \in [Urls -> {"closed", "open"}]
  /\ event \in [Urls -> {"none", "on_connected", "on_send", "on_recv"}]
  /\ attempts \in [Urls -> Nat]
  /\ runPc \in {"pop", "wait", "connect", "opened"}
  /\ runUrl \in Urls \cup {None} /\ (runUrl = None <=> runPc = "pop")
  /\ engPc \in {"loop", "push", "count"}
  /\ engUrl \in Urls \cup {None} /\ (engUrl # None <=> engPc = "push")
  /\ waitConnectQueue \in Seq(Urls) /\ waitExtractQueue \in Seq(Urls)
  /\ concCount \in Int

In(q, u)   == \E i \in DOMAIN q : q[i] = u
NoDup(q)   == \A i, j \in DOMAIN q : q[i] = q[j] => i = j

\* The places from which a thread can reach the context.
Places == {"connect", "run", "event", "engine", "extract"}
Reaches(p, u) ==
  \/ p = "connect" /\ In(waitConnectQueue, u)
  \/ p = "run"     /\ runUrl = u
  \/ p = "event"   /\ event[u] # "none"
  \/ p = "engine"  /\ engUrl = u
  \/ p = "extract" /\ In(waitExtractQueue, u)

\* A live context is reached from exactly one place and an ended one from none:
\* no context is used by two threads, used after it was deleted, deleted twice
\* (the "double free" that ~UrlContext looks for) or lost.
OneOwner ==
  /\ \A u \in Urls : \A p, r \in Places : Reaches(p, u) /\ Reaches(r, u) => p = r
  /\ \A u \in Urls : (life[u] = "live") <=> \E p \in Places : Reaches(p, u)
  /\ NoDup(waitConnectQueue) /\ NoDup(waitExtractQueue)

\* A socket is open exactly while run is about to register it or an event is
\* registered for it, except for a context deleted by a failed connect.
SocketsOwned ==
  \A u \in Urls :
     (sock[u] = "open") <=> \/ event[u] # "none"
                            \/ runPc = "opened" /\ runUrl = u
                            \/ life[u] = "deleted" /\ status[u] = "CONNECTING" /\ sock[u] = "open"

Open     == {u \in Urls : sock[u] = "open"}
TimedOut == {u \in Urls : life[u] = "deleted" /\ status[u] = "TIMEOUT"}

\* What _concCount is at any moment: the open sockets, leaked ones included,
\* and the page the engine is handing on, less one for every context that has
\* used up its retries, which was taken off twice.
ConcAccounting ==
  concCount = Cardinality(Open) + (IF engPc = "loop" THEN 0 ELSE 1)
                - Cardinality(TimedOut)

\* So the limit is exceeded by one (the test is >) and by one more for every
\* such context.
ConcurrenceBound ==
  Cardinality(Open) <= MaxConcurrence + 1 + Cardinality(TimedOut)

\* http_processor.cpp:136-139: the status error is never logged.
ConnectedInOrder ==
  \A u \in Urls : event[u] = "on_connected" => status[u] = "CONNECTING"

\* Retries and redirects together are bounded: no context circulates forever.
AttemptsBounded ==
  \A u \in Urls : attempts[u] <= MaxRetry + MaxRedirectDepth

\* An ended context stays as it is.
EndIsFinal ==
  [][\A u \in Urls : life[u] \in {"delivered", "deleted"} =>
       life'[u] = life[u] /\ event'[u] = event[u] /\ sock'[u] = sock[u]]_vars

\* The sockets of contexts that connect gave up (connect returns without close).
Leaked == {u \in Open : life[u] = "deleted"}

\* No peer keeps a connection half done forever.
PeersSettle == <>[][~\E u \in Urls : TryAgain(u)]_vars

\* While no more sockets are leaked than the limit allows, every context that
\* enters is delivered or deleted, also when its page waits for the extractor
\* and also when the run thread waits for a connection to end.
EveryUrlEnds ==
  PeersSettle /\ [](Cardinality(Leaked) <= MaxConcurrence)
     => \A u \in Urls : (life[u] = "live") ~> (life[u] \in {"delivered", "deleted"})

\* url_context.h:42: a context lives from the request to the end of its crawl.
\* It does not once connect has leaked more than maxConcurrence counts: run then
\* waits for ever, and every context that comes later stays in the queue.
EveryContextEnds ==
  PeersSettle
     => \A u \in Urls : (life[u] = "live") ~> (life[u] \in {"delivered", "deleted"})
==============================================================================
