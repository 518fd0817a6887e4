------------------------- MODULE HttpProcessorProofs -------------------------
(***************************************************************************)
(* Theorems about HttpProcessor for any set of contexts and any limits.    *)
(* The invariants the runs check are not inductive one by one: who owns a  *)
(* context tells which sockets are open, and that in turn what _concCount  *)
(* counts.  The inductive invariant IInv adds to them                      *)
(*                                                                         *)
(*    Fresh          a context on its way to connect has been reset,       *)
(*    RetryLeft      one that is not ended by a timeout may still retry,   *)
(*    AttemptsMade   how many sockets its retries and redirects explain,   *)
(*    WaitedBelow    what the run thread has seen of the counter.          *)
(*                                                                         *)
(* OneOwner is preserved because every step moves at most one context from *)
(* one place to another (lemma Moved).                                     *)
(***************************************************************************)
EXTENDS HttpProcessor, TLAPS, FiniteSetTheorems, SequenceTheorems

\* A context that is new, queued, or held by run has been reset by init().
Fresh ==
  \A u \in Urls :
     life[u] = "none" \/ In(waitConnectQueue, u) \/ runUrl = u => status[u] = "CONNECTING"

\* Only a context that ended by a timeout has used up its retries.
RetryLeft ==
  \A u \in Urls : /\ status[u] # "TIMEOUT" => retry[u] < MaxRetry
                  /\ life[u] \in {"none", "live"} => status[u] # "TIMEOUT"

\* Each socket opened is the first one or follows a retry or a redirect.
AttemptsMade ==
  \A u \in Urls :
     /\ attempts[u] <= retry[u] + redirectDepth[u] + 1
     /\ status[u] = "TIMEOUT" \/ (status[u] = "CONNECTING" /\ sock[u] = "closed")
          => attempts[u] <= retry[u] + redirectDepth[u]

\* Once run has left its waiting loop the counter only falls until it counts.
WaitedBelow ==
  /\ concCount <= MaxConcurrence + 1
  /\ runPc = "connect" => concCount <= MaxConcurrence

IInv == TypeOK /\ OneOwner /\ Fresh /\ RetryLeft /\ SocketsOwned
          /\ ConcAccounting /\ AttemptsMade /\ WaitedBelow

----------------------------------------------------------------------------
(* Queues.                                                                 *)

\* A queue gains the appended context.
LEMMA AppendIn ==
  ASSUME NEW q \in Seq(Urls), NEW u \in Urls
  PROVE  /\ Append(q, u) \in Seq(Urls)
         /\ \A v : In(Append(q, u), v) <=> In(q, v) \/ v = u
         /\ NoDup(q) /\ ~In(q, u) => NoDup(Append(q, u))
<1> DEFINE r == Append(q, u)
<1>1. /\ r \in Seq(Urls) /\ Len(r) = Len(q) + 1
      /\ \A i \in 1 .. Len(q) : r[i] = q[i]
      /\ r[Len(q) + 1] = u
  BY AppendProperties
<1>2. /\ Len(q) \in Nat
      /\ DOMAIN q = 1 .. Len(q) /\ DOMAIN r = 1 .. Len(q) + 1
  BY <1>1, LenProperties
<1>3. DOMAIN r = DOMAIN q \cup {Len(q) + 1} /\ Len(q) + 1 \notin DOMAIN q
  BY <1>2
<1> HIDE DEF r
<1>4. \A v : In(r, v) <=> In(q, v) \/ v = u
  BY <1>1, <1>2, <1>3 DEF In
<1>5. NoDup(q) /\ ~In(q, u) => NoDup(r)
  BY <1>1, <1>2, <1>3 DEF In, NoDup
<1> QED
  BY <1>1, <1>4, <1>5 DEF r

\* A queue without duplicates loses exactly its head.
LEMMA TailIn ==
  ASSUME NEW q \in Seq(Urls), q # << >>, NoDup(q)
  PROVE  /\ Tail(q) \in Seq(Urls) /\ Head(q) \in Urls
         /\ In(q, Head(q))
         /\ \A v : In(Tail(q), v) <=> In(q, v) /\ v # Head(q)
         /\ NoDup(Tail(q))
<1> DEFINE t == Tail(q)
<1>1. /\ t \in Seq(Urls) /\ Len(t) = Len(q) - 1
      /\ \A i \in 1 .. Len(t) : t[i] = q[i + 1]
      /\ Head(q) = q[1] /\ Head(q) \in Urls
  BY HeadTailProperties
<1>2. /\ Len(q) \in Nat \ {0}
      /\ DOMAIN q = 1 .. Len(q) /\ DOMAIN t = 1 .. Len(q) - 1
  BY <1>1, LenProperties, EmptySeq
<1>3. \A i \in DOMAIN t : i + 1 \in DOMAIN q /\ i + 1 # 1 /\ i \in Int
  BY <1>2
<1>4. \A j \in DOMAIN q : j # 1 => j - 1 \in DOMAIN t /\ (j - 1) + 1 = j
  BY <1>2
<1>5. 1 \in DOMAIN q /\ \A i \in DOMAIN t : t[i] = q[i + 1]
  BY <1>1, <1>2
<1> HIDE DEF t
<1>6. \A v : In(t, v) => In(q, v) /\ v # Head(q)
  BY <1>1, <1>3, <1>5 DEF In, NoDup
<1>7. \A v : In(q, v) /\ v # Head(q) => In(t, v)
  <2> SUFFICES ASSUME NEW v, In(q, v), v # Head(q) PROVE In(t, v)
    OBVIOUS
  <2>1. PICK j \in DOMAIN q : q[j] = v
    BY DEF In
  <2>2. j # 1
    BY <2>1, <1>1
  <2>3. t[j - 1] = v
    BY <2>1, <2>2, <1>4, <1>5
  <2> QED
    BY <2>2, <2>3, <1>4 DEF In
<1>8. NoDup(t)
  <2> SUFFICES ASSUME NEW i \in DOMAIN t, NEW j \in DOMAIN t, t[i] = t[j] PROVE i = j
    BY DEF NoDup
  <2>1. i + 1 = j + 1
    BY <1>3, <1>5 DEF NoDup
  <2> QED
    BY <2>1, <1>3
<1> QED
  BY <1>1, <1>5, <1>6, <1>7, <1>8 DEF In, t

----------------------------------------------------------------------------
(* Ownership.                                                              *)

\* A step that takes one context to one place, or to none when it ends, and
\* leaves the others where they are keeps OneOwner.
LEMMA Moved ==
  ASSUME OneOwner, NEW u \in Urls, NEW d,
         \A v \in Urls \ {u} : /\ \A p \in Places : Reaches(p, v)' <=> Reaches(p, v)
                               /\ life'[v] = life[v],
         \A p \in Places : Reaches(p, u)' <=> p = d,
         (life'[u] = "live") <=> d \in Places,
         NoDup(waitConnectQueue)', NoDup(waitExtractQueue)'
  PROVE  OneOwner'
<1>1. \A v \in Urls : \A p, r \in Places : Reaches(p, v)' /\ Reaches(r, v)' => p = r
  <2> TAKE v \in Urls
  <2>1. CASE v = u
    BY <2>1, Zenon
  <2>2. CASE v # u
    BY <2>2, Zenon DEF OneOwner
  <2> QED
    BY <2>1, <2>2
<1>2. \A v \in Urls : (life'[v] = "live") <=> \E p \in Places : Reaches(p, v)'
  <2> TAKE v \in Urls
  <2>1. CASE v = u
    BY <2>1, Zenon
  <2>2. CASE v # u
    BY <2>2, Zenon DEF OneOwner
  <2> QED
    BY <2>1, <2>2
<1> QED
  BY <1>1, <1>2, Zenon DEF OneOwner

\* Who reaches a context, spelled out.
LEMMA OwnerFacts ==
  ASSUME OneOwner, NEW u \in Urls
  PROVE  /\ In(waitConnectQueue, u) =>
              life[u] = "live" /\ runUrl # u /\ event[u] = "none" /\ engUrl # u /\ ~In(waitExtractQueue, u)
         /\ runUrl = u =>
              life[u] = "live" /\ event[u] = "none" /\ engUrl # u /\ ~In(waitExtractQueue, u)
         /\ event[u] # "none" => life[u] = "live" /\ engUrl # u /\ ~In(waitExtractQueue, u)
         /\ engUrl = u => life[u] = "live" /\ ~In(waitExtractQueue, u)
         /\ In(waitExtractQueue, u) => life[u] = "live"
BY SMT DEF OneOwner, Places, Reaches

\* A new context starts its way in the connect queue.
LEMMA OwnerPushConnectQueue ==
  ASSUME TypeOK, OneOwner, NEW u \in Urls, PushConnectQueue(u)
  PROVE  OneOwner'
<1>1. waitConnectQueue \in Seq(Urls) /\ NoDup(waitConnectQueue) /\ NoDup(waitExtractQueue)
  BY DEF TypeOK, OneOwner
<1>2. ~In(waitConnectQueue, u)
  BY OwnerFacts DEF PushConnectQueue
<1>3. /\ NoDup(waitConnectQueue)'
      /\ \A v : In(waitConnectQueue, v)' <=> In(waitConnectQueue, v) \/ v = u
  BY <1>1, <1>2, AppendIn, Zenon DEF PushConnectQueue
<1>4. \A v : In(waitExtractQueue, v)' <=> In(waitExtractQueue, v)
  BY DEF PushConnectQueue, In
<1>5. \A v \in Urls \ {u} : /\ \A p \in Places : Reaches(p, v)' <=> Reaches(p, v)
                            /\ life'[v] = life[v]
  BY <1>3, <1>4, SMT DEF PushConnectQueue, TypeOK, Places, Reaches, runVars, engVars
<1>6. \A p \in Places : Reaches(p, u)' <=> p = "connect"
  BY <1>2, <1>3, <1>4, OwnerFacts, SMT DEF PushConnectQueue, Places, Reaches, runVars, engVars
<1>7. life'[u] = "live" /\ NoDup(waitExtractQueue)'
  BY <1>1 DEF PushConnectQueue, TypeOK
<1> QED
  BY <1>3, <1>5, <1>6, <1>7, Moved DEF Places

\* The run thread takes the head of the connect queue.
LEMMA OwnerPopConnectQueue ==
  ASSUME TypeOK, OneOwner, PopConnectQueue
  PROVE  OneOwner'
<1>1. /\ waitConnectQueue \in Seq(Urls) /\ waitConnectQueue # << >>
      /\ NoDup(waitConnectQueue) /\ NoDup(waitExtractQueue)
  BY DEF TypeOK, OneOwner, PopConnectQueue
<1>u. PICK u \in Urls : u = Head(waitConnectQueue)
  BY <1>1, TailIn, Zenon
<1>2. /\ In(waitConnectQueue, u) /\ NoDup(waitConnectQueue)'
      /\ \A v : In(waitConnectQueue, v)' <=> In(waitConnectQueue, v) /\ v # u
  BY <1>1, <1>u, TailIn, Zenon DEF PopConnectQueue
<1>3. \A v : In(waitExtractQueue, v)' <=> In(waitExtractQueue, v)
  BY DEF PopConnectQueue, In
<1>4. runUrl' = u /\ runUrl = None /\ None \notin Urls
  BY <1>u, HttpAssumption DEF PopConnectQueue, TypeOK
<1>5. /\ \A v \in Urls : (event[v])' = event[v] /\ life'[v] = life[v]
      /\ engUrl' = engUrl /\ waitExtractQueue' = waitExtractQueue
  BY DEF PopConnectQueue, ctxVars, engVars
<1>6. \A v \in Urls \ {u} : /\ \A p \in Places : Reaches(p, v)' <=> Reaches(p, v)
                            /\ life'[v] = life[v]
  BY <1>2, <1>3, <1>4, <1>5, SMT DEF Places, Reaches
<1>7. \A p \in Places : Reaches(p, u)' <=> p = "run"
  BY <1>2, <1>3, <1>4, <1>5, OwnerFacts, SMT DEF Places, Reaches
<1>8. life'[u] = "live" /\ NoDup(waitExtractQueue)'
  BY <1>1, <1>2, <1>5, OwnerFacts
<1> QED
  BY <1>2, <1>6, <1>7, <1>8, Moved DEF Places

\* Steps that move no context.
LEMMA OwnerStays ==
  ASSUME OneOwner,
         waitConnectQueue' = waitConnectQueue, waitExtractQueue' = waitExtractQueue,
         runUrl' = runUrl, engUrl' = engUrl,
         \A u \in Urls : /\ (event'[u] = "none") <=> (event[u] = "none")
                         /\ life'[u] = life[u]
  PROVE  OneOwner'
<1>1. \A q, u : In(q, u) <=> \E i \in DOMAIN q : q[i] = u
  BY DEF In
<1>2. \A u \in Urls : \A p \in Places : Reaches(p, u)' <=> Reaches(p, u)
  BY Zenon DEF Reaches, In
<1>3. NoDup(waitConnectQueue)' /\ NoDup(waitExtractQueue)'
  BY DEF OneOwner
<1> QED
  BY <1>2, <1>3, Zenon DEF OneOwner

\* A context whose connect failed is in no place any more.
LEMMA OwnerConnectFails ==
  ASSUME TypeOK, OneOwner, RefuseConnect \/ FailConnect
  PROVE  OneOwner'
<1>u. PICK u \in Urls : u = runUrl
  BY DEF RefuseConnect, FailConnect, RegisterEvent, TypeOK
<1>1. /\ runUrl = u /\ runUrl' = None /\ None \notin Urls
      /\ waitConnectQueue' = waitConnectQueue /\ waitExtractQueue' = waitExtractQueue
      /\ engUrl' = engUrl /\ event' = event
      /\ life' = [life EXCEPT ![u] = "deleted"] /\ life \in [Urls -> {"none", "live", "delivered", "deleted"}]
  BY <1>u, HttpAssumption DEF RefuseConnect, FailConnect, TypeOK, engVars
<1>2. /\ \A v : In(waitConnectQueue, v)' <=> In(waitConnectQueue, v)
      /\ \A v : In(waitExtractQueue, v)' <=> In(waitExtractQueue, v)
      /\ NoDup(waitConnectQueue)' /\ NoDup(waitExtractQueue)'
  BY <1>1 DEF In, OneOwner
<1>3. \A v \in Urls \ {u} : /\ \A p \in Places : Reaches(p, v)' <=> Reaches(p, v)
                            /\ life'[v] = life[v]
  BY <1>1, <1>2, SMT DEF Places, Reaches
<1>4. \A p \in Places : Reaches(p, u)' <=> p = "nowhere"
  BY <1>1, <1>2, OwnerFacts, SMT DEF Places, Reaches
<1>5. life'[u] # "live" /\ "nowhere" \notin Places
  BY <1>1 DEF Places
<1> QED
  BY <1>1, <1>2, <1>3, <1>4, <1>5, Moved

\* The registered event takes the context over from run.
LEMMA OwnerRegisterEvent ==
  ASSUME TypeOK, OneOwner, RegisterEvent
  PROVE  OneOwner'
<1>u. PICK u \in Urls : u = runUrl
  BY DEF RefuseConnect, FailConnect, RegisterEvent, TypeOK
<1>1. /\ runUrl = u /\ runUrl' = None /\ None \notin Urls
      /\ waitConnectQueue' = waitConnectQueue /\ waitExtractQueue' = waitExtractQueue
      /\ engUrl' = engUrl /\ life' = life
      /\ event'[u] = "on_connected" /\ \A v \in Urls \ {u} : event'[v] = event[v]
  BY <1>u, HttpAssumption DEF RegisterEvent, TypeOK, engVars
<1>2. /\ \A v : In(waitConnectQueue, v)' <=> In(waitConnectQueue, v)
      /\ \A v : In(waitExtractQueue, v)' <=> In(waitExtractQueue, v)
      /\ NoDup(waitConnectQueue)' /\ NoDup(waitExtractQueue)'
  BY <1>1 DEF In, OneOwner
<1>3. \A v \in Urls \ {u} : /\ \A p \in Places : Reaches(p, v)' <=> Reaches(p, v)
                            /\ life'[v] = life[v]
  BY <1>1, <1>2, SMT DEF Places, Reaches
<1>4. \A p \in Places : Reaches(p, u)' <=> p = "event"
  BY <1>1, <1>2, OwnerFacts, SMT DEF Places, Reaches
<1>5. life'[u] = "live" /\ "event" \in Places
  BY <1>1, OwnerFacts DEF Places
<1> QED
  BY <1>1, <1>2, <1>3, <1>4, <1>5, Moved

\* What holds of the context whose callback runs, and of the closed event.
LEMMA OwnerCallback ==
  ASSUME TypeOK, OneOwner, NEW u \in Urls, Callback(u), CloseAll(u)
  PROVE  /\ engUrl = None /\ event'[u] = "none" /\ sock'[u] = "closed"
         /\ life[u] = "live" /\ runUrl # u
         /\ ~In(waitConnectQueue, u) /\ ~In(waitExtractQueue, u)
         /\ \A v \in Urls \ {u} : event'[v] = event[v] /\ sock'[v] = sock[v]
<1>1. event[u] # "none" /\ engUrl = None
  BY HttpAssumption DEF Callback, TypeOK
<1> QED
  BY <1>1, OwnerFacts DEF CloseAll, TypeOK

\* The callback requeues its context, for a retry or a redirect.
LEMMA OwnerRequeue ==
  ASSUME TypeOK, OneOwner, NEW u \in Urls, Callback(u), CloseAll(u), Requeue(u),
         runUrl' = runUrl, engUrl' = engUrl, waitExtractQueue' = waitExtractQueue, life' = life
  PROVE  OneOwner'
<1>1. waitConnectQueue \in Seq(Urls) /\ NoDup(waitConnectQueue) /\ NoDup(waitExtractQueue)
  BY DEF TypeOK, OneOwner
<1>2. /\ NoDup(waitConnectQueue)'
      /\ \A v : In(waitConnectQueue, v)' <=> In(waitConnectQueue, v) \/ v = u
  BY <1>1, OwnerCallback, AppendIn, Zenon DEF Requeue
<1>3. \A v : In(waitExtractQueue, v)' <=> In(waitExtractQueue, v)
  BY DEF In
<1>4. \A v \in Urls \ {u} : /\ \A p \in Places : Reaches(p, v)' <=> Reaches(p, v)
                            /\ life'[v] = life[v]
  BY <1>2, <1>3, OwnerCallback, SMT DEF Places, Reaches
<1>5. \A p \in Places : Reaches(p, u)' <=> p = "connect"
  BY <1>2, <1>3, OwnerCallback, HttpAssumption, SMT DEF Places, Reaches
<1>6. life'[u] = "live" /\ NoDup(waitExtractQueue)' /\ "connect" \in Places
  BY <1>1, OwnerCallback DEF Places
<1> QED
  BY <1>2, <1>4, <1>5, <1>6, Moved

\* The callback deletes its context.
LEMMA OwnerCrawlFailed ==
  ASSUME TypeOK, OneOwner, NEW u \in Urls, NEW why, Callback(u), CloseAll(u), CrawlFailed(u, why),
         runUrl' = runUrl, engUrl' = engUrl,
         waitConnectQueue' = waitConnectQueue, waitExtractQueue' = waitExtractQueue
  PROVE  OneOwner'
<1>1. /\ \A v : In(waitConnectQueue, v)' <=> In(waitConnectQueue, v)
      /\ \A v : In(waitExtractQueue, v)' <=> In(waitExtractQueue, v)
      /\ NoDup(waitConnectQueue)' /\ NoDup(waitExtractQueue)'
  BY DEF In, OneOwner
<1>2. life'[u] = "deleted" /\ \A v \in Urls \ {u} : life'[v] = life[v]
  BY DEF CrawlFailed, TypeOK
<1>3. \A v \in Urls \ {u} : /\ \A p \in Places : Reaches(p, v)' <=> Reaches(p, v)
                            /\ life'[v] = life[v]
  BY <1>1, <1>2, OwnerCallback, SMT DEF Places, Reaches
<1>4. \A p \in Places : Reaches(p, u)' <=> p = "nowhere"
  BY <1>1, OwnerCallback, HttpAssumption, SMT DEF Places, Reaches
<1>5. life'[u] # "live" /\ "nowhere" \notin Places
  BY <1>2 DEF Places
<1> QED
  BY <1>1, <1>3, <1>4, <1>5, Moved

\* The callback keeps its context, which has a page for the extractor.
LEMMA OwnerHandOn ==
  ASSUME TypeOK, OneOwner, NEW u \in Urls, Callback(u), CloseAll(u),
         runUrl' = runUrl, engUrl' = u, life' = life,
         waitConnectQueue' = waitConnectQueue, waitExtractQueue' = waitExtractQueue
  PROVE  OneOwner'
<1>1. /\ \A v : In(waitConnectQueue, v)' <=> In(waitConnectQueue, v)
      /\ \A v : In(waitExtractQueue, v)' <=> In(waitExtractQueue, v)
      /\ NoDup(waitConnectQueue)' /\ NoDup(waitExtractQueue)'
  BY DEF In, OneOwner
<1>2. \A v \in Urls \ {u} : /\ \A p \in Places : Reaches(p, v)' <=> Reaches(p, v)
                            /\ life'[v] = life[v]
  BY <1>1, OwnerCallback, HttpAssumption, SMT DEF Places, Reaches
<1>3. \A p \in Places : Reaches(p, u)' <=> p = "engine"
  BY <1>1, OwnerCallback, SMT DEF Places, Reaches
<1>4. life'[u] = "live" /\ "engine" \in Places
  BY OwnerCallback DEF Places
<1> QED
  BY <1>1, <1>2, <1>3, <1>4, Moved

\* The engine hands the page on.
LEMMA OwnerPushExtractor ==
  ASSUME TypeOK, OneOwner, PushExtractor
  PROVE  OneOwner'
<1>u. PICK u \in Urls : u = engUrl
  BY DEF PushExtractor, TypeOK
<1>1. waitExtractQueue \in Seq(Urls) /\ NoDup(waitConnectQueue) /\ NoDup(waitExtractQueue)
  BY DEF TypeOK, OneOwner
<1>2. ~In(waitExtractQueue, u) /\ life[u] = "live"
  BY <1>u, OwnerFacts
<1>3. /\ NoDup(waitExtractQueue)'
      /\ \A v : In(waitExtractQueue, v)' <=> In(waitExtractQueue, v) \/ v = u
  BY <1>u, <1>1, <1>2, AppendIn, Zenon DEF PushExtractor
<1>4. /\ waitConnectQueue' = waitConnectQueue /\ runUrl' = runUrl /\ engUrl' = None
      /\ engUrl = u /\ event' = event /\ life' = life /\ None \notin Urls
      /\ \A v : In(waitConnectQueue, v)' <=> In(waitConnectQueue, v)
  BY <1>u, HttpAssumption DEF PushExtractor, ctxVars, runVars, In
<1>5. \A v \in Urls \ {u} : /\ \A p \in Places : Reaches(p, v)' <=> Reaches(p, v)
                            /\ life'[v] = life[v]
  BY <1>3, <1>4, SMT DEF Places, Reaches
<1>6. \A p \in Places : Reaches(p, u)' <=> p = "extract"
  BY <1>3, <1>4, OwnerFacts, SMT DEF Places, Reaches
<1>7. life'[u] = "live" /\ NoDup(waitConnectQueue)' /\ "extract" \in Places
  BY <1>1, <1>2, <1>4 DEF Places
<1> QED
  BY <1>3, <1>5, <1>6, <1>7, Moved

\* The extractor takes the head of its queue.
LEMMA OwnerExtract ==
  ASSUME TypeOK, OneOwner, Extract
  PROVE  OneOwner'
<1>1. /\ waitExtractQueue \in Seq(Urls) /\ waitExtractQueue # << >>
      /\ NoDup(waitConnectQueue) /\ NoDup(waitExtractQueue)
  BY DEF TypeOK, OneOwner, Extract
<1>u. PICK u \in Urls : u = Head(waitExtractQueue)
  BY <1>1, TailIn, Zenon
<1>2. /\ In(waitExtractQueue, u) /\ NoDup(waitExtractQueue)'
      /\ \A v : In(waitExtractQueue, v)' <=> In(waitExtractQueue, v) /\ v # u
  BY <1>1, <1>u, TailIn, Zenon DEF Extract
<1>3. /\ waitConnectQueue' = waitConnectQueue /\ runUrl' = runUrl /\ engUrl' = engUrl
      /\ event' = event /\ \A v : In(waitConnectQueue, v)' <=> In(waitConnectQueue, v)
  BY DEF Extract, runVars, engVars, In
<1>4. life'[u] = "delivered" /\ \A v \in Urls \ {u} : life'[v] = life[v]
  BY <1>u DEF Extract, TypeOK
<1>5. \A v \in Urls \ {u} : /\ \A p \in Places : Reaches(p, v)' <=> Reaches(p, v)
                            /\ life'[v] = life[v]
  BY <1>2, <1>3, <1>4, SMT DEF Places, Reaches
<1>6. \A p \in Places : Reaches(p, u)' <=> p = "nowhere"
  BY <1>2, <1>3, OwnerFacts, SMT DEF Places, Reaches
<1>7. life'[u] # "live" /\ NoDup(waitConnectQueue)' /\ "nowhere" \notin Places
  BY <1>1, <1>3, <1>4 DEF Places
<1> QED
  BY <1>2, <1>5, <1>6, <1>7, Moved

----------------------------------------------------------------------------
(* Counting.                                                               *)

\* The sets that ConcAccounting counts are finite.
LEMMA CountsFinite ==
  /\ IsFiniteSet(Open) /\ Cardinality(Open) \in Nat
  /\ IsFiniteSet(TimedOut) /\ Cardinality(TimedOut) \in Nat
BY HttpAssumption, FS_Subset, FS_CardinalityType DEF Open, TimedOut

\* A context that is nobody's, queued, or not yet opened has no open socket.
LEMMA UnopenedClosed ==
  ASSUME TypeOK, OneOwner, SocketsOwned, NEW u \in Urls,
         \/ life[u] = "none"
         \/ In(waitConnectQueue, u)
         \/ runUrl = u /\ runPc # "opened"
         \/ engUrl = u
  PROVE  sock[u] = "closed"
BY OwnerFacts, HttpAssumption DEF TypeOK, SocketsOwned

----------------------------------------------------------------------------
(* Every step preserves IInv.                                              *)

LEMMA InitIInv == Init => IInv
<1> SUFFICES ASSUME Init PROVE IInv
  OBVIOUS
<1> USE HttpAssumption
<1>1. TypeOK
  BY EmptySeq DEF Init, TypeOK
<1>2. DOMAIN waitConnectQueue = {} /\ DOMAIN waitExtractQueue = {}
  BY DEF Init
<1>3. OneOwner
  BY <1>2, SMT DEF Init, OneOwner, NoDup, In, Places, Reaches
<1>4. Open = {} /\ TimedOut = {}
  BY DEF Init, Open, TimedOut
<1>5. ConcAccounting
  BY <1>4, FS_EmptySet DEF Init, ConcAccounting
<1> QED
  BY <1>1, <1>3, <1>5
  DEF Init, IInv, Fresh, RetryLeft, SocketsOwned, AttemptsMade, WaitedBelow

LEMMA PushConnectQueueIInv ==
  ASSUME IInv, NEW u \in Urls, PushConnectQueue(u)
  PROVE  IInv'
<1> USE DEF IInv
<1>1. OneOwner'
  BY OwnerPushConnectQueue
<1>2. /\ waitConnectQueue' \in Seq(Urls)
      /\ \A v : In(waitConnectQueue, v)' <=> In(waitConnectQueue, v) \/ v = u
  BY AppendIn, Zenon DEF PushConnectQueue, TypeOK
<1>3. TypeOK'
  BY <1>2 DEF PushConnectQueue, TypeOK, runVars, engVars
<1>4. /\ life'[u] = "live" /\ life[u] = "none" /\ \A v \in Urls \ {u} : life'[v] = life[v]
      /\ UNCHANGED <<status, retry, redirectDepth, sock, event, attempts, runPc, runUrl, engPc, concCount>>
  BY DEF PushConnectQueue, TypeOK, runVars, engVars
<1>5. Fresh'
  BY <1>2, <1>4 DEF Fresh
<1>6. RetryLeft'
  BY <1>4 DEF RetryLeft
<1>7. SocketsOwned'
  BY <1>4, UnopenedClosed DEF SocketsOwned
<1>8. Open' = Open /\ TimedOut' = TimedOut
  BY <1>4 DEF Open, TimedOut
<1>9. ConcAccounting'
  BY <1>4, <1>8 DEF ConcAccounting
<1>10. AttemptsMade' /\ WaitedBelow'
  BY <1>4 DEF AttemptsMade, WaitedBelow
<1> QED
  BY <1>1, <1>3, <1>5, <1>6, <1>7, <1>9, <1>10

LEMMA PopConnectQueueIInv ==
  ASSUME IInv, PopConnectQueue
  PROVE  IInv'
<1> USE DEF IInv
<1>1. OneOwner'
  BY OwnerPopConnectQueue
<1>2. /\ waitConnectQueue' \in Seq(Urls)
      /\ runUrl' \in Urls /\ In(waitConnectQueue, runUrl')
      /\ \A v : In(waitConnectQueue, v)' => In(waitConnectQueue, v)
  BY TailIn, Zenon DEF PopConnectQueue, TypeOK, OneOwner
<1>3. /\ UNCHANGED <<life, status, retry, redirectDepth, sock, event, attempts, engPc, concCount>>
      /\ runPc = "pop" /\ runPc' = "wait"
  BY DEF PopConnectQueue, ctxVars, engVars
<1>4. TypeOK'
  BY <1>2, HttpAssumption DEF PopConnectQueue, TypeOK, ctxVars, engVars
<1>5. Fresh' /\ RetryLeft'
  BY <1>2, <1>3 DEF Fresh, RetryLeft
<1>6. SocketsOwned'
  BY <1>3 DEF SocketsOwned
<1>7. Open' = Open /\ TimedOut' = TimedOut
  BY <1>3 DEF Open, TimedOut
<1>8. ConcAccounting' /\ AttemptsMade' /\ WaitedBelow'
  BY <1>3, <1>7 DEF ConcAccounting, AttemptsMade, WaitedBelow
<1> QED
  BY <1>1, <1>4, <1>5, <1>6, <1>8

LEMMA WaitConcurrenceIInv ==
  ASSUME IInv, WaitConcurrence
  PROVE  IInv'
<1> USE DEF IInv
<1>1. /\ UNCHANGED <<life, status, retry, redirectDepth, sock, event, attempts, runUrl,
                     engPc, engUrl, waitConnectQueue, waitExtractQueue, concCount>>
      /\ runPc = "wait" /\ runPc' = "connect" /\ concCount <= MaxConcurrence
  BY DEF WaitConcurrence, BelowMaxConcurrence, ctxVars, engVars
<1>2. OneOwner'
  BY <1>1, OwnerStays
<1>3. TypeOK'
  BY <1>1 DEF TypeOK
<1>4. Fresh' /\ RetryLeft'
  BY <1>1 DEF Fresh, RetryLeft, In
<1>5. SocketsOwned'
  BY <1>1 DEF SocketsOwned
<1>6. Open' = Open /\ TimedOut' = TimedOut
  BY <1>1 DEF Open, TimedOut
<1>7. ConcAccounting' /\ AttemptsMade'
  BY <1>1, <1>6 DEF ConcAccounting, AttemptsMade
<1>8. WaitedBelow'
  BY <1>1 DEF WaitedBelow
<1> QED
  BY <1>2, <1>3, <1>4, <1>5, <1>7, <1>8

\* The context that fails may leave its socket open, and then on the count.
LEMMA ConnectFailsIInv ==
  ASSUME IInv, RefuseConnect \/ FailConnect
  PROVE  IInv'
<1> USE DEF IInv
<1>1. OneOwner'
  BY OwnerConnectFails
<1>2. PICK u \in Urls : u = runUrl
  BY DEF RefuseConnect, FailConnect, TypeOK
<1>3. /\ UNCHANGED <<status, retry, redirectDepth, sock, event, attempts,
                     engPc, engUrl, waitConnectQueue, waitExtractQueue, concCount>>
      /\ life'[u] = "deleted" /\ \A v \in Urls \ {u} : life'[v] = life[v]
      /\ life' \in [Urls -> {"none", "live", "delivered", "deleted"}]
      /\ runPc' = "pop" /\ runUrl' = None /\ None \notin Urls
  BY <1>2, HttpAssumption DEF RefuseConnect, FailConnect, TypeOK, engVars
<1>4. TypeOK'
  BY <1>3 DEF TypeOK
<1>5. status[u] = "CONNECTING" /\ life[u] = "live" /\ event[u] = "none"
  BY <1>2, OwnerFacts DEF Fresh
<1>6. Fresh' /\ RetryLeft'
  BY <1>3, <1>5 DEF Fresh, RetryLeft, In
<1>7. SocketsOwned'
  BY <1>2, <1>3, <1>5 DEF SocketsOwned
<1>8. Open' = Open /\ TimedOut' = TimedOut
  BY <1>3, <1>5 DEF Open, TimedOut
<1>9. ConcAccounting' /\ AttemptsMade' /\ WaitedBelow'
  BY <1>3, <1>8 DEF ConcAccounting, AttemptsMade, WaitedBelow
<1> QED
  BY <1>1, <1>4, <1>6, <1>7, <1>9

LEMMA OpenSocketIInv ==
  ASSUME IInv, OpenSocket
  PROVE  IInv'
<1> USE DEF IInv
<1>1. PICK u \in Urls : u = runUrl
  BY DEF OpenSocket, TypeOK
<1>2. /\ UNCHANGED <<life, status, retry, redirectDepth, event, runUrl,
                     engPc, engUrl, waitConnectQueue, waitExtractQueue>>
      /\ runPc = "connect" /\ runPc' = "opened" /\ concCount' = concCount + 1
      /\ sock'[u] = "open" /\ \A v \in Urls \ {u} : sock'[v] = sock[v]
      /\ sock' \in [Urls -> {"closed", "open"}]
      /\ attempts'[u] = attempts[u] + 1 /\ \A v \in Urls \ {u} : attempts'[v] = attempts[v]
      /\ attempts' \in [Urls -> Nat]
  BY <1>1 DEF OpenSocket, TypeOK, engVars
<1>3. sock[u] = "closed" /\ status[u] = "CONNECTING" /\ life[u] = "live"
  BY <1>1, <1>2, UnopenedClosed, OwnerFacts DEF Fresh
<1>4. OneOwner'
  BY <1>2, OwnerStays
<1>5. TypeOK'
  BY <1>2 DEF TypeOK
<1>6. Fresh' /\ RetryLeft'
  BY <1>2 DEF Fresh, RetryLeft, In
<1>7. SocketsOwned'
  BY <1>1, <1>2, HttpAssumption DEF SocketsOwned, TypeOK
<1>8. Open' = Open \cup {u} /\ u \notin Open /\ TimedOut' = TimedOut
  BY <1>2, <1>3 DEF Open, TimedOut
<1>9. Cardinality(Open') = Cardinality(Open) + 1
  BY <1>8, CountsFinite, FS_AddElement
<1>10. ConcAccounting'
  <2>1. concCount \in Int /\ engPc' = engPc
    BY <1>2 DEF TypeOK
  <2> QED
    BY <1>2, <1>8, <1>9, <2>1, CountsFinite DEF ConcAccounting
<1>11. AttemptsMade'
  <2>1. \A v \in Urls : attempts[v] \in Nat /\ retry[v] \in Int /\ redirectDepth[v] \in Int
    BY HttpAssumption DEF TypeOK
  <2>2. attempts'[u] <= retry[u] + redirectDepth[u] + 1
    BY <1>2, <1>3, <2>1 DEF AttemptsMade
  <2> QED
    BY <1>2, <1>3, <2>1, <2>2 DEF AttemptsMade
<1>12. WaitedBelow'
  BY <1>2, HttpAssumption DEF WaitedBelow, TypeOK
<1> QED
  BY <1>4, <1>5, <1>6, <1>7, <1>10, <1>11, <1>12

LEMMA RegisterEventIInv ==
  ASSUME IInv, RegisterEvent
  PROVE  IInv'
<1> USE DEF IInv
<1>1. PICK u \in Urls : u = runUrl
  BY DEF RegisterEvent, TypeOK
<1>2. /\ UNCHANGED <<life, status, retry, redirectDepth, sock, attempts,
                     engPc, engUrl, waitConnectQueue, waitExtractQueue, concCount>>
      /\ event'[u] = "on_connected" /\ \A v \in Urls \ {u} : event'[v] = event[v]
      /\ event' \in [Urls -> {"none", "on_connected", "on_send", "on_recv"}]
      /\ runPc = "opened" /\ runPc' = "pop" /\ runUrl' = None /\ None \notin Urls
  BY <1>1, HttpAssumption DEF RegisterEvent, TypeOK, engVars
<1>3. OneOwner'
  BY OwnerRegisterEvent
<1>4. TypeOK'
  BY <1>2 DEF TypeOK
<1>5. Fresh' /\ RetryLeft'
  BY <1>2 DEF Fresh, RetryLeft, In
<1>6. SocketsOwned'
  BY <1>1, <1>2 DEF SocketsOwned
<1>7. Open' = Open /\ TimedOut' = TimedOut
  BY <1>2 DEF Open, TimedOut
<1>8. ConcAccounting' /\ AttemptsMade' /\ WaitedBelow'
  BY <1>2, <1>7 DEF ConcAccounting, AttemptsMade, WaitedBelow
<1> QED
  BY <1>3, <1>4, <1>5, <1>6, <1>8

\* What CloseAll takes away from the open sockets.
LEMMA CloseAllCounts ==
  ASSUME IInv, NEW u \in Urls, Callback(u), CloseAll(u)
  PROVE  /\ Open' = Open \ {u} /\ Cardinality(Open') = Cardinality(Open) - 1
         /\ event' \in [Urls -> {"none", "on_connected", "on_send", "on_recv"}]
         /\ sock' \in [Urls -> {"closed", "open"}]
         /\ engPc = "loop" /\ life[u] = "live" /\ event[u] # "none" /\ runUrl # u
         /\ status[u] # "TIMEOUT" /\ retry[u] < MaxRetry
<1> USE DEF IInv
<1>1. engPc = "loop" /\ event[u] # "none" /\ sock[u] = "open"
  BY DEF Callback, SocketsOwned
<1>2. sock'[u] = "closed" /\ \A v \in Urls \ {u} : sock'[v] = sock[v]
  BY OwnerCallback
<1>3. Open' = Open \ {u} /\ u \in Open
  BY <1>1, <1>2 DEF Open
<1>4. Cardinality(Open') = Cardinality(Open) - 1
  BY <1>3, CountsFinite, FS_RemoveElement
<1>5. status[u] # "TIMEOUT" /\ retry[u] < MaxRetry
  BY OwnerCallback DEF RetryLeft
<1> QED
  BY <1>1, <1>3, <1>4, <1>5, OwnerCallback DEF CloseAll, TypeOK

\* A requeued context, for a retry or for a redirect: its fields, but for the
\* counters that change with it.
LEMMA RequeuePart ==
  ASSUME IInv, NEW u \in Urls, Callback(u), CloseAll(u), Requeue(u),
         UNCHANGED <<life, attempts, runPc, runUrl, engUrl, waitExtractQueue>>
  PROVE  /\ OneOwner' /\ Fresh' /\ SocketsOwned'
         /\ TimedOut' = TimedOut
         /\ waitConnectQueue' \in Seq(Urls)
         /\ status' \in [Urls -> {"CONNECTING", "SENDING", "DONE", "TIMEOUT", "PROTERR"}]
         /\ status'[u] = "CONNECTING" /\ \A v \in Urls \ {u} : status'[v] = status[v]
<1> USE DEF IInv
<1>1. OneOwner'
  BY OwnerRequeue
<1>2. /\ waitConnectQueue' \in Seq(Urls)
      /\ \A v : In(waitConnectQueue, v)' <=> In(waitConnectQueue, v) \/ v = u
  BY AppendIn, Zenon DEF Requeue, TypeOK
<1>3. /\ status'[u] = "CONNECTING" /\ \A v \in Urls \ {u} : status'[v] = status[v]
      /\ status' \in [Urls -> {"CONNECTING", "SENDING", "DONE", "TIMEOUT", "PROTERR"}]
  BY DEF Requeue, TypeOK
<1>4. Fresh'
  BY <1>2, <1>3 DEF Fresh
<1>5. SocketsOwned'
  BY <1>3, OwnerCallback DEF SocketsOwned
<1>6. TimedOut' = TimedOut
  BY <1>3, CloseAllCounts DEF TimedOut
<1> QED
  BY <1>1, <1>2, <1>3, <1>4, <1>5, <1>6

\* A context that ends in the callback.
LEMMA CrawlFailedPart ==
  ASSUME IInv, NEW u \in Urls, NEW why \in {"TIMEOUT", "PROTERR"},
         Callback(u), CloseAll(u), CrawlFailed(u, why),
         UNCHANGED <<attempts, runPc, runUrl, engUrl, waitConnectQueue, waitExtractQueue>>
  PROVE  /\ OneOwner' /\ Fresh' /\ SocketsOwned'
         /\ life' \in [Urls -> {"none", "live", "delivered", "deleted"}]
         /\ status' \in [Urls -> {"CONNECTING", "SENDING", "DONE", "TIMEOUT", "PROTERR"}]
         /\ life'[u] = "deleted" /\ \A v \in Urls \ {u} : life'[v] = life[v]
         /\ status'[u] = why /\ \A v \in Urls \ {u} : status'[v] = status[v]
         /\ why = "PROTERR" => TimedOut' = TimedOut
         /\ why = "TIMEOUT" => Cardinality(TimedOut') = Cardinality(TimedOut) + 1
<1> USE DEF IInv
<1>1. OneOwner'
  BY OwnerCrawlFailed
<1>2. /\ life' \in [Urls -> {"none", "live", "delivered", "deleted"}]
      /\ status' \in [Urls -> {"CONNECTING", "SENDING", "DONE", "TIMEOUT", "PROTERR"}]
      /\ life'[u] = "deleted" /\ \A v \in Urls \ {u} : life'[v] = life[v]
      /\ status'[u] = why /\ \A v \in Urls \ {u} : status'[v] = status[v]
  BY DEF CrawlFailed, TypeOK
<1>3. Fresh'
  BY <1>2, OwnerCallback DEF Fresh, In
<1>4. SocketsOwned'
  BY <1>2, OwnerCallback DEF SocketsOwned
<1>5. u \notin TimedOut
  BY CloseAllCounts DEF TimedOut
<1>6. why = "PROTERR" => TimedOut' = TimedOut
  BY <1>2, <1>5 DEF TimedOut
<1>7. why = "TIMEOUT" => TimedOut' = TimedOut \cup {u}
  BY <1>2 DEF TimedOut
<1>8. why = "TIMEOUT" => Cardinality(TimedOut') = Cardinality(TimedOut) + 1
  BY <1>5, <1>7, CountsFinite, FS_AddElement
<1> QED
  BY <1>1, <1>2, <1>3, <1>4, <1>6, <1>8

\* The timeout and the broken connection differ in nothing the model keeps.
LEMMA OnTimeoutIInv ==
  ASSUME IInv, NEW u \in Urls, Callback(u), CloseAll(u), OnTimeout(u),
         UNCHANGED <<redirectDepth, attempts, runVars, engVars, waitExtractQueue>>
  PROVE  IInv'
<1> USE DEF IInv
<1>1. /\ retry \in [Urls -> 0 .. MaxRetry] /\ retry[u] < MaxRetry /\ MaxRetry \in Nat \ {0}
      /\ redirectDepth \in [Urls -> 0 .. MaxRedirectDepth] /\ MaxRedirectDepth \in Nat
      /\ attempts \in [Urls -> Nat] /\ concCount \in Int
  BY CloseAllCounts, HttpAssumption DEF TypeOK
<1>2. /\ retry' \in [Urls -> 0 .. MaxRetry]
      /\ retry'[u] = retry[u] + 1 /\ \A v \in Urls \ {u} : retry'[v] = retry[v]
  BY <1>1 DEF OnTimeout
<1>3. /\ UNCHANGED <<redirectDepth, attempts, runPc, runUrl, engPc, engUrl, waitExtractQueue>>
      /\ engPc = "loop"
  BY CloseAllCounts DEF runVars, engVars
<1>4. sock'[u] = "closed" /\ \A v \in Urls \ {u} : sock'[v] = sock[v]
  BY OwnerCallback
<1>5. /\ attempts[u] <= retry'[u] + redirectDepth[u]
      /\ attempts[u] <= retry'[u] + redirectDepth[u] + 1
  BY <1>1, <1>2 DEF AttemptsMade
<1>6. CASE /\ MayRetry(retry[u] + 1) /\ Requeue(u)
           /\ concCount' = concCount - 1 /\ life' = life
  <2>1. /\ OneOwner' /\ Fresh' /\ SocketsOwned'
        /\ TimedOut' = TimedOut
        /\ waitConnectQueue' \in Seq(Urls)
        /\ status' \in [Urls -> {"CONNECTING", "SENDING", "DONE", "TIMEOUT", "PROTERR"}]
        /\ status'[u] = "CONNECTING" /\ \A v \in Urls \ {u} : status'[v] = status[v]
    BY <1>3, <1>6, RequeuePart
  <2>2. TypeOK'
    <3>1. life' \in [Urls -> {"none", "live", "delivered", "deleted"}] /\ concCount' \in Int
      BY <1>1, <1>6 DEF TypeOK
    <3> QED
      BY <1>1, <1>2, <1>3, <2>1, <3>1, CloseAllCounts, ZenonT(60) DEF TypeOK
  <2>3. RetryLeft'
    BY <1>1, <1>2, <1>6, <2>1 DEF RetryLeft, MayRetry
  <2>4. ConcAccounting'
    BY <1>1, <1>3, <1>6, <2>1, CloseAllCounts, CountsFinite DEF ConcAccounting
  <2>5. AttemptsMade'
    <3>1. \A v \in Urls \ {u} :
             UNCHANGED <<attempts[v], retry[v], redirectDepth[v], status[v], sock[v]>>
      BY <1>2, <1>3, <1>4, <2>1
    <3> QED
      BY <1>3, <1>5, <3>1 DEF AttemptsMade
  <2>6. WaitedBelow'
    BY <1>1, <1>3, <1>6, HttpAssumption DEF WaitedBelow
  <2> QED
    BY <2>1, <2>2, <2>3, <2>4, <2>5, <2>6
<1>7. CASE /\ ~MayRetry(retry[u] + 1) /\ CrawlFailed(u, "TIMEOUT")
           /\ concCount' = concCount - 2 /\ UNCHANGED waitConnectQueue
  <2>1. /\ OneOwner' /\ Fresh' /\ SocketsOwned'
        /\ life' \in [Urls -> {"none", "live", "delivered", "deleted"}]
        /\ status' \in [Urls -> {"CONNECTING", "SENDING", "DONE", "TIMEOUT", "PROTERR"}]
        /\ life'[u] = "deleted" /\ \A v \in Urls \ {u} : life'[v] = life[v]
        /\ status'[u] = "TIMEOUT" /\ \A v \in Urls \ {u} : status'[v] = status[v]
        /\ Cardinality(TimedOut') = Cardinality(TimedOut) + 1
    BY <1>3, <1>7, CrawlFailedPart
  <2>2. TypeOK'
    BY <1>1, <1>2, <1>3, <1>7, <2>1, CloseAllCounts, SMTT(60) DEF TypeOK
  <2>3. RetryLeft'
    BY <1>1, <1>2, <2>1 DEF RetryLeft
  <2>4. ConcAccounting'
    BY <1>1, <1>3, <1>7, <2>1, CloseAllCounts, CountsFinite DEF ConcAccounting
  <2>5. AttemptsMade'
    BY <1>1, <1>2, <1>3, <1>4, <1>5, <2>1 DEF AttemptsMade
  <2>6. WaitedBelow'
    BY <1>1, <1>3, <1>7, HttpAssumption DEF WaitedBelow
  <2> QED
    BY <2>1, <2>2, <2>3, <2>4, <2>5, <2>6
<1> QED
  BY <1>6, <1>7 DEF OnTimeout

LEMMA TryAgainIInv ==
  ASSUME IInv, NEW u \in Urls, TryAgain(u)
  PROVE  IInv'
<1> USE DEF IInv
<1>1. /\ UNCHANGED <<life, retry, redirectDepth, sock, attempts, runPc, runUrl, engPc, engUrl,
                     waitConnectQueue, waitExtractQueue, concCount>>
      /\ event[u] # "none" /\ event'[u] # "none" /\ \A v \in Urls \ {u} : event'[v] = event[v]
      /\ event' \in [Urls -> {"none", "on_connected", "on_send", "on_recv"}]
      /\ status'[u] = "SENDING" /\ \A v \in Urls \ {u} : status'[v] = status[v]
      /\ status' \in [Urls -> {"CONNECTING", "SENDING", "DONE", "TIMEOUT", "PROTERR"}]
  BY DEF TryAgain, Callback, TypeOK, runVars, engVars
<1>2. life[u] = "live" /\ runUrl # u /\ ~In(waitConnectQueue, u)
  BY <1>1, OwnerFacts
<1>3. OneOwner'
  BY <1>1, OwnerStays
<1>4. TypeOK'
  BY <1>1 DEF TypeOK
<1>5. Fresh' /\ RetryLeft'
  BY <1>1, <1>2 DEF Fresh, RetryLeft, In
<1>6. SocketsOwned'
  BY <1>1, <1>2 DEF SocketsOwned
<1>7. Open' = Open /\ TimedOut' = TimedOut
  BY <1>1, <1>2 DEF Open, TimedOut
<1>8. ConcAccounting' /\ AttemptsMade' /\ WaitedBelow'
  BY <1>1, <1>7 DEF ConcAccounting, AttemptsMade, WaitedBelow
<1> QED
  BY <1>3, <1>4, <1>5, <1>6, <1>8

LEMMA OnRecvOnePageIInv ==
  ASSUME IInv, NEW u \in Urls, OnRecvOnePage(u)
  PROVE  IInv'
<1> USE DEF IInv
<1>1. Callback(u) /\ CloseAll(u)
  BY DEF OnRecvOnePage
<1>2. /\ UNCHANGED <<retry, attempts, runPc, runUrl, waitExtractQueue>>
      /\ engPc = "loop" /\ engUrl = None
  BY <1>1, CloseAllCounts, OwnerCallback DEF OnRecvOnePage, runVars
<1>3. /\ retry \in [Urls -> 0 .. MaxRetry] /\ MaxRetry \in Nat \ {0}
      /\ redirectDepth \in [Urls -> 0 .. MaxRedirectDepth] /\ MaxRedirectDepth \in Nat
      /\ attempts \in [Urls -> Nat] /\ concCount \in Int
  BY HttpAssumption DEF TypeOK
<1>4. sock'[u] = "closed" /\ \A v \in Urls \ {u} : sock'[v] = sock[v]
  BY <1>1, OwnerCallback
<1>5. retry[u] < MaxRetry /\ attempts[u] <= retry[u] + redirectDepth[u] + 1
  BY <1>1, CloseAllCounts DEF AttemptsMade
<1>6. CASE /\ status' = [status EXCEPT ![u] = "DONE"]
           /\ engPc' = "push" /\ engUrl' = u
           /\ UNCHANGED <<life, redirectDepth, waitConnectQueue, concCount>>
  <2>1. OneOwner'
    BY <1>1, <1>2, <1>6, OwnerHandOn
  <2>2. /\ status'[u] = "DONE" /\ \A v \in Urls \ {u} : status'[v] = status[v]
        /\ status' \in [Urls -> {"CONNECTING", "SENDING", "DONE", "TIMEOUT", "PROTERR"}]
    BY <1>6 DEF TypeOK
  <2>3. TypeOK'
    BY <1>1, <1>2, <1>6, <2>2, CloseAllCounts, HttpAssumption DEF TypeOK
  <2>4. Fresh' /\ RetryLeft'
    BY <1>1, <1>2, <1>5, <1>6, <2>2, OwnerCallback DEF Fresh, RetryLeft, In
  <2>5. SocketsOwned'
    BY <1>1, <1>2, <1>6, <2>2, OwnerCallback DEF SocketsOwned
  <2>6. TimedOut' = TimedOut
    BY <1>1, <1>6, <2>2, CloseAllCounts DEF TimedOut
  <2>7. ConcAccounting'
    BY <1>1, <1>2, <1>3, <1>6, <2>6, CloseAllCounts, CountsFinite DEF ConcAccounting
  <2>8. AttemptsMade' /\ WaitedBelow'
    BY <1>2, <1>4, <1>5, <1>6, <2>2 DEF AttemptsMade, WaitedBelow
  <2> QED
    BY <2>1, <2>3, <2>4, <2>5, <2>7, <2>8
<1>7. CASE /\ MayRedirect(u) /\ Requeue(u)
           /\ redirectDepth' = [redirectDepth EXCEPT ![u] = @ + 1]
           /\ engPc' = "count" /\ UNCHANGED <<life, engUrl, concCount>>
  <2>1. /\ OneOwner' /\ Fresh' /\ SocketsOwned'
        /\ TimedOut' = TimedOut
        /\ waitConnectQueue' \in Seq(Urls)
        /\ status' \in [Urls -> {"CONNECTING", "SENDING", "DONE", "TIMEOUT", "PROTERR"}]
        /\ status'[u] = "CONNECTING" /\ \A v \in Urls \ {u} : status'[v] = status[v]
    BY <1>1, <1>2, <1>7, RequeuePart
  <2>2. /\ redirectDepth' \in [Urls -> 0 .. MaxRedirectDepth]
        /\ redirectDepth'[u] = redirectDepth[u] + 1
        /\ \A v \in Urls \ {u} : redirectDepth'[v] = redirectDepth[v]
    BY <1>3, <1>7 DEF MayRedirect
  <2>3. TypeOK'
    BY <1>1, <1>2, <1>7, <2>1, <2>2, CloseAllCounts, HttpAssumption DEF TypeOK
  <2>4. RetryLeft'
    BY <1>2, <1>5, <1>7, <2>1 DEF RetryLeft
  <2>5. ConcAccounting'
    BY <1>1, <1>2, <1>3, <1>7, <2>1, CloseAllCounts, CountsFinite DEF ConcAccounting
  <2>6. AttemptsMade'
    <3>1. \A v \in Urls \ {u} :
             UNCHANGED <<attempts[v], retry[v], redirectDepth[v], status[v], sock[v]>>
      BY <1>2, <1>4, <2>1, <2>2
    <3>2. /\ attempts[u] <= retry[u] + redirectDepth'[u]
          /\ attempts[u] <= retry[u] + redirectDepth'[u] + 1
      BY <1>3, <1>5, <2>2
    <3> QED
      BY <1>2, <3>1, <3>2 DEF AttemptsMade
  <2>7. WaitedBelow'
    BY <1>2, <1>7 DEF WaitedBelow
  <2> QED
    BY <2>1, <2>3, <2>4, <2>5, <2>6, <2>7
<1>8. CASE /\ CrawlFailed(u, "PROTERR")
           /\ concCount' = concCount - 1
           /\ UNCHANGED <<redirectDepth, waitConnectQueue, engVars>>
  <2>1. /\ OneOwner' /\ Fresh' /\ SocketsOwned'
        /\ life' \in [Urls -> {"none", "live", "delivered", "deleted"}]
        /\ status' \in [Urls -> {"CONNECTING", "SENDING", "DONE", "TIMEOUT", "PROTERR"}]
        /\ life'[u] = "deleted" /\ \A v \in Urls \ {u} : life'[v] = life[v]
        /\ status'[u] = "PROTERR" /\ \A v \in Urls \ {u} : status'[v] = status[v]
        /\ TimedOut' = TimedOut
    BY <1>1, <1>2, <1>8, CrawlFailedPart DEF engVars
  <2>2. engPc' = engPc /\ engUrl' = engUrl /\ concCount' \in Int
    BY <1>3, <1>8 DEF engVars
  <2>3. TypeOK'
    BY <1>1, <1>2, <1>8, <2>1, <2>2, CloseAllCounts DEF TypeOK
  <2>4. RetryLeft'
    BY <1>2, <1>5, <2>1 DEF RetryLeft
  <2>5. ConcAccounting'
    BY <1>1, <1>2, <1>3, <1>8, <2>1, <2>2, CloseAllCounts, CountsFinite DEF ConcAccounting
  <2>6. AttemptsMade'
    BY <1>2, <1>4, <1>5, <1>8, <2>1 DEF AttemptsMade
  <2>7. WaitedBelow'
    BY <1>2, <1>3, <1>8, HttpAssumption DEF WaitedBelow
  <2> QED
    BY <2>1, <2>3, <2>4, <2>5, <2>6, <2>7
<1> QED
  BY <1>6, <1>7, <1>8 DEF OnRecvOnePage

LEMMA PushExtractorIInv ==
  ASSUME IInv, PushExtractor
  PROVE  IInv'
<1> USE DEF IInv
<1>1. OneOwner'
  BY OwnerPushExtractor
<1>2. /\ UNCHANGED <<life, status, retry, redirectDepth, sock, event, attempts,
                     runPc, runUrl, waitConnectQueue, concCount>>
      /\ engPc = "push" /\ engPc' = "count" /\ engUrl' = None /\ engUrl \in Urls
      /\ waitExtractQueue' = Append(waitExtractQueue, engUrl)
  BY DEF PushExtractor, TypeOK, ctxVars, runVars
<1>3. waitExtractQueue' \in Seq(Urls)
  BY <1>2, AppendIn, Zenon DEF TypeOK
<1>4. TypeOK'
  BY <1>2, <1>3 DEF TypeOK
<1>5. Fresh' /\ RetryLeft'
  BY <1>2 DEF Fresh, RetryLeft, In
<1>6. SocketsOwned'
  BY <1>2 DEF SocketsOwned
<1>7. Open' = Open /\ TimedOut' = TimedOut
  BY <1>2 DEF Open, TimedOut
<1>8. ConcAccounting' /\ AttemptsMade' /\ WaitedBelow'
  BY <1>2, <1>7 DEF ConcAccounting, AttemptsMade, WaitedBelow
<1> QED
  BY <1>1, <1>4, <1>5, <1>6, <1>8

LEMMA CountDownIInv ==
  ASSUME IInv, CountDown
  PROVE  IInv'
<1> USE DEF IInv
<1>1. /\ UNCHANGED <<life, status, retry, redirectDepth, sock, event, attempts,
                     runPc, runUrl, engUrl, waitConnectQueue, waitExtractQueue>>
      /\ engPc = "count" /\ engPc' = "loop" /\ concCount' = concCount - 1 /\ concCount \in Int
  BY DEF CountDown, TypeOK, ctxVars, runVars
<1>2. OneOwner'
  BY <1>1, OwnerStays
<1>3. TypeOK'
  BY <1>1 DEF TypeOK
<1>4. Fresh' /\ RetryLeft'
  BY <1>1 DEF Fresh, RetryLeft, In
<1>5. SocketsOwned' /\ AttemptsMade'
  BY <1>1 DEF SocketsOwned, AttemptsMade
<1>6. Open' = Open /\ TimedOut' = TimedOut
  BY <1>1 DEF Open, TimedOut
<1>7. ConcAccounting'
  BY <1>1, <1>6, CountsFinite DEF ConcAccounting
<1>8. WaitedBelow'
  BY <1>1, HttpAssumption DEF WaitedBelow
<1> QED
  BY <1>2, <1>3, <1>4, <1>5, <1>7, <1>8

LEMMA ExtractIInv ==
  ASSUME IInv, Extract
  PROVE  IInv'
<1> USE DEF IInv
<1>1. OneOwner'
  BY OwnerExtract
<1>2. PICK u \in Urls : u = Head(waitExtractQueue)
  BY TailIn, Zenon DEF Extract, TypeOK, OneOwner
<1>3. /\ waitExtractQueue' \in Seq(Urls)
      /\ In(waitExtractQueue, u)
  BY <1>2, TailIn, Zenon DEF Extract, TypeOK, OneOwner
<1>4. /\ UNCHANGED <<status, retry, redirectDepth, sock, event, attempts,
                     runPc, runUrl, engPc, engUrl, waitConnectQueue, concCount>>
      /\ life'[u] = "delivered" /\ \A v \in Urls \ {u} : life'[v] = life[v]
      /\ life' \in [Urls -> {"none", "live", "delivered", "deleted"}]
  BY <1>2 DEF Extract, TypeOK, runVars, engVars
<1>5. life[u] = "live" /\ event[u] = "none" /\ runUrl # u
  BY <1>3, OwnerFacts
<1>6. TypeOK'
  BY <1>3, <1>4 DEF TypeOK
<1>7. Fresh' /\ RetryLeft'
  BY <1>4, <1>5 DEF Fresh, RetryLeft, In
<1>8. SocketsOwned' /\ AttemptsMade'
  BY <1>4, <1>5 DEF SocketsOwned, AttemptsMade
<1>9. Open' = Open /\ TimedOut' = TimedOut
  BY <1>4, <1>5 DEF Open, TimedOut
<1>10. ConcAccounting' /\ WaitedBelow'
  BY <1>4, <1>9 DEF ConcAccounting, WaitedBelow
<1> QED
  BY <1>1, <1>6, <1>7, <1>8, <1>10

LEMMA NextIInv == IInv /\ [Next]_vars => IInv'
<1> SUFFICES ASSUME IInv, [Next]_vars PROVE IInv'
  OBVIOUS
<1>1. CASE \E u \in Urls : PushConnectQueue(u)
  BY <1>1, PushConnectQueueIInv
<1>2. CASE RunThread
  BY <1>2, PopConnectQueueIInv, WaitConcurrenceIInv, ConnectFailsIInv, OpenSocketIInv,
     RegisterEventIInv DEF RunThread
<1>3. CASE \E u \in Urls : DoWithSockTimeout(u) \/ OnBroken(u)
  <2>1. PICK u \in Urls : DoWithSockTimeout(u) \/ OnBroken(u)
    BY <1>3
  <2>2. /\ Callback(u) /\ CloseAll(u) /\ OnTimeout(u)
        /\ UNCHANGED <<redirectDepth, attempts, runVars, engVars, waitExtractQueue>>
    BY <2>1 DEF DoWithSockTimeout, OnBroken
  <2> QED
    BY <2>2, OnTimeoutIInv
<1>4. CASE \E u \in Urls : TryAgain(u) \/ OnRecvOnePage(u)
  BY <1>4, TryAgainIInv, OnRecvOnePageIInv
<1>5. CASE PushExtractor \/ CountDown \/ Extract
  BY <1>5, PushExtractorIInv, CountDownIInv, ExtractIInv
<1>6. CASE UNCHANGED vars
  <2>1. UNCHANGED <<life, status, retry, redirectDepth, sock, event, attempts, runPc, runUrl,
                    engPc, engUrl, waitConnectQueue, waitExtractQueue, concCount>>
    BY <1>6 DEF vars, ctxVars, runVars, engVars
  <2>2. OneOwner'
    BY <2>1, OwnerStays DEF IInv
  <2>3. TypeOK' /\ Fresh' /\ RetryLeft' /\ SocketsOwned'
    BY <2>1 DEF IInv, TypeOK, Fresh, RetryLeft, SocketsOwned, In
  <2>4. ConcAccounting' /\ AttemptsMade' /\ WaitedBelow'
    BY <2>1 DEF IInv, ConcAccounting, AttemptsMade, WaitedBelow, Open, TimedOut
  <2> QED
    BY <2>2, <2>3, <2>4 DEF IInv
<1> QED
  BY <1>1, <1>2, <1>3, <1>4, <1>5, <1>6 DEF Next, EventThread

----------------------------------------------------------------------------
(* The theorems.                                                           *)

\* The inductive invariant holds.
THEOREM ProcessorInvariant == Safety => []IInv
BY InitIInv, NextIInv, PTL DEF Safety

\* Every variable keeps its type; retry and redirectDepth stay within the
\* limits that onTimeout and doWithRedirect test.
THEOREM TypeCorrect == Safety => []TypeOK
<1>1. IInv => TypeOK
  BY DEF IInv
<1> QED
  BY <1>1, ProcessorInvariant, PTL

\* No context is reached by two threads or queues, or after its end: the check
\* in ~UrlContext for a double free never strikes in this part.
THEOREM SingleOwner == Safety => []OneOwner
<1>1. IInv => OneOwner
  BY DEF IInv
<1> QED
  BY <1>1, ProcessorInvariant, PTL

\* Sockets are open exactly where someone will close them, but for those leaked
\* by a failed connect.
THEOREM SocketsHaveOwner == Safety => []SocketsOwned
<1>1. IInv => SocketsOwned
  BY DEF IInv
<1> QED
  BY <1>1, ProcessorInvariant, PTL

\* What _concCount is worth, exactly.
THEOREM ConcCountExplained == Safety => []ConcAccounting
<1>1. IInv => ConcAccounting
  BY DEF IInv
<1> QED
  BY <1>1, ProcessorInvariant, PTL

\* How far the limit on concurrent connections can be exceeded.
THEOREM ConcurrenceLimited == Safety => []ConcurrenceBound
<1>1. IInv => ConcurrenceBound
  BY CountsFinite, HttpAssumption
  DEF IInv, TypeOK, ConcAccounting, WaitedBelow, ConcurrenceBound
<1> QED
  BY <1>1, ProcessorInvariant, PTL

\* However many timeouts, breaks and redirects a context meets, it opens at
\* most this many sockets.
THEOREM NoEndlessCrawl == Safety => []AttemptsBounded
<1>1. IInv => AttemptsBounded
  <2> SUFFICES ASSUME IInv, NEW u \in Urls
               PROVE  attempts[u] <= MaxRetry + MaxRedirectDepth
    BY DEF AttemptsBounded
  <2>1. /\ retry[u] \in 0 .. MaxRetry /\ redirectDepth[u] \in 0 .. MaxRedirectDepth
        /\ attempts[u] \in Nat /\ MaxRetry \in Nat /\ MaxRedirectDepth \in Nat
    BY HttpAssumption DEF IInv, TypeOK
  <2>2. \/ attempts[u] <= retry[u] + redirectDepth[u]
        \/ attempts[u] <= retry[u] + redirectDepth[u] + 1 /\ retry[u] < MaxRetry
    BY DEF IInv, AttemptsMade, RetryLeft
  <2> QED
    BY <2>1, <2>2
<1> QED
  BY <1>1, ProcessorInvariant, PTL

\* http_processor.cpp:136-139 can never log "status error": whenever on_connected
\* is registered, the context is as init() left it.
THEOREM StatusInOrder == Safety => []ConnectedInOrder
<1>1. Init => ConnectedInOrder
  BY DEF Init, ConnectedInOrder
<1>2. IInv /\ ConnectedInOrder /\ [Next]_vars => ConnectedInOrder'
  <2> SUFFICES ASSUME IInv, ConnectedInOrder, [Next]_vars, NEW u \in Urls,
                      event'[u] = "on_connected"
               PROVE  status'[u] = "CONNECTING"
    BY DEF ConnectedInOrder
  <2> USE DEF IInv
  <2>1. CASE RegisterEvent
    <3>1. status' = status /\ runUrl \in Urls
      BY <2>1 DEF RegisterEvent, TypeOK
    <3>2. CASE u = runUrl
      BY <3>1, <3>2 DEF Fresh
    <3>3. CASE u # runUrl
      BY <2>1, <3>1, <3>3 DEF RegisterEvent, TypeOK, ConnectedInOrder
    <3> QED
      BY <3>2, <3>3
  <2>2. CASE \E v \in Urls : DoWithSockTimeout(v) \/ OnBroken(v) \/ OnRecvOnePage(v)
    <3>1. PICK v \in Urls : DoWithSockTimeout(v) \/ OnBroken(v) \/ OnRecvOnePage(v)
      BY <2>2
    <3>2. Callback(v) /\ CloseAll(v)
      BY <3>1 DEF DoWithSockTimeout, OnBroken, OnRecvOnePage
    <3>3. u # v /\ event[u] = event'[u]
      BY <3>2, OwnerCallback
    <3>4. status'[u] = status[u]
      BY <3>1, <3>3 DEF DoWithSockTimeout, OnBroken, OnRecvOnePage, OnTimeout, Requeue,
         CrawlFailed, TypeOK
    <3> QED
      BY <3>3, <3>4 DEF ConnectedInOrder
  <2>3. CASE \E v \in Urls : TryAgain(v)
    BY <2>3 DEF TryAgain, TypeOK, ConnectedInOrder
  <2>4. CASE \E v \in Urls : PushConnectQueue(v)
    BY <2>4 DEF PushConnectQueue, ConnectedInOrder
  <2>5. CASE PopConnectQueue \/ WaitConcurrence \/ RefuseConnect \/ OpenSocket \/ FailConnect
    BY <2>5 DEF PopConnectQueue, WaitConcurrence, RefuseConnect, OpenSocket, FailConnect,
       ConnectedInOrder, ctxVars
  <2>6. CASE PushExtractor \/ CountDown \/ Extract \/ UNCHANGED vars
    BY <2>6 DEF PushExtractor, CountDown, Extract, ConnectedInOrder, vars, ctxVars
  <2> QED
    BY <2>1, <2>2, <2>3, <2>4, <2>5, <2>6 DEF Next, RunThread, EventThread
<1> QED
  BY <1>1, <1>2, ProcessorInvariant, PTL DEF Safety

\* A context that was delivered or deleted is never touched again.
THEOREM EndsOnce == Safety => EndIsFinal
<1>1. IInv /\ [Next]_vars =>
        [\A u \in Urls : life[u] \in {"delivered", "deleted"} =>
           life'[u] = life[u] /\ event'[u] = event[u] /\ sock'[u] = sock[u]]_vars
  <2> SUFFICES ASSUME IInv, Next, NEW u \in Urls, life[u] \in {"delivered", "deleted"}
               PROVE  life'[u] = life[u] /\ event'[u] = event[u] /\ sock'[u] = sock[u]
    OBVIOUS
  <2> USE DEF IInv
  <2>1. /\ ~In(waitExtractQueue, u) /\ event[u] = "none" /\ runUrl # u
    BY OwnerFacts
  <2>2. CASE \E v \in Urls : PushConnectQueue(v)
    BY <2>2 DEF PushConnectQueue, TypeOK
  <2>3. CASE PopConnectQueue \/ WaitConcurrence \/ PushExtractor \/ CountDown
    BY <2>3 DEF PopConnectQueue, WaitConcurrence, PushExtractor, CountDown, ctxVars
  <2>4. CASE RefuseConnect \/ FailConnect \/ OpenSocket \/ RegisterEvent
    BY <2>1, <2>4 DEF RefuseConnect, FailConnect, OpenSocket, RegisterEvent, TypeOK
  <2>5. CASE \E v \in Urls : DoWithSockTimeout(v) \/ OnBroken(v) \/ OnRecvOnePage(v)
    <3>1. PICK v \in Urls : DoWithSockTimeout(v) \/ OnBroken(v) \/ OnRecvOnePage(v)
      BY <2>5
    <3>2. Callback(v) /\ CloseAll(v)
      BY <3>1 DEF DoWithSockTimeout, OnBroken, OnRecvOnePage
    <3>3. u # v /\ event'[u] = event[u] /\ sock'[u] = sock[u]
      BY <2>1, <3>2, OwnerCallback DEF Callback
    <3>4. life'[u] = life[u]
      BY <3>1, <3>3 DEF DoWithSockTimeout, OnBroken, OnRecvOnePage, OnTimeout,
         CrawlFailed, TypeOK
    <3> QED
      BY <3>3, <3>4
  <2>6. CASE \E v \in Urls : TryAgain(v)
    BY <2>1, <2>6 DEF TryAgain, Callback, TypeOK
  <2>7. CASE Extract
    <3>1. In(waitExtractQueue, Head(waitExtractQueue))
      BY <2>7, TailIn, Zenon DEF Extract, TypeOK, OneOwner
    <3> QED
      BY <2>1, <2>7, <3>1 DEF Extract, TypeOK
  <2> QED
    BY <2>2, <2>3, <2>4, <2>5, <2>6, <2>7 DEF Next, RunThread, EventThread
<1> QED
  BY <1>1, ProcessorInvariant, PTL DEF Safety, EndIsFinal
==============================================================================
