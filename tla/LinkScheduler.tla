---------------------------- MODULE LinkScheduler ----------------------------
(***************************************************************************)
(* The link table and the scheduler that empties it (link_table.{h,cpp},   *)
(* link_scheduler.cpp).  The MySqlSelector thread adds urls; each IP with  *)
(* waiting urls has an IpContext, allocated by the first url and freed by  *)
(* the selection of the last one, and each IpContext has a libevent timer. *)
(* The scheduler thread runs the timers: it selects one url of the IP,     *)
(* blocks until the connect queue has room, and re-arms the timer.         *)
(*                                                                         *)
(* addUrl and select are atomic: each is one critical section of _mutex,   *)
(* and what precedes it in addUrl (parsing, DNS) is local to the caller.   *)
(* An IpContext is an address: it may be handed out again once freed, and  *)
(* timers refer to it by address (evtimer_new's event itself is leaked).   *)
(*                                                                         *)
(* The loop of libevent works in rounds: it reads the clock once, takes    *)
(* the timers that are due, and calls their callbacks one by one.  Until   *)
(* the round ends event_add counts from that one reading (tv_cache), also  *)
(* in the selector's thread.                                               *)
(***************************************************************************)
EXTENDS Integers, Sequences, FiniteSets

CONSTANTS Urls,             \* url contexts
          Sites,            \* sites, ordered as the keys of the site map
          Ips,              \* ip addresses
          Ctxs,             \* addresses malloc can return for an IpContext
          SiteOf, IpOf,     \* the site and the resolved ip of each url
          DepthOf,          \* its linkDepth
          MaxUrlTableSize,  \* schedulerMaxUrlTableSize
          MaxConnectQueue,  \* httpConnectQueueSize
          Interval,         \* schedulerIpScheduleInterval, in ticks
          FloatLimit,       \* where a float + 1.0 stays what it is (2^24)
          None

ASSUME UrlAssumption ==
  /\ IsFiniteSet(Urls)
  /\ SiteOf \in [Urls -> Sites] /\ IpOf \in [Urls -> Ips] /\ DepthOf \in [Urls -> Nat]
  /\ Sites \subseteq Nat
  /\ None \notin Urls /\ None \notin Ctxs
ASSUME ConfAssumption ==
  /\ MaxUrlTableSize \in Nat \ {0} /\ MaxConnectQueue \in Nat
  /\ Interval \in Nat \ {0} /\ FloatLimit \in Nat

Off   == -1   \* a timer that is not armed
Fired == -2   \* one whose callback is still to be called in this round

VARIABLES
  \* LinkTable, under _mutex
  ipTable,   \* ipTable[ip]: the IpContext of ip, or None
  ctxIp,     \* ctxIp[c]: the field ip
  sites,     \* sites[c]: the sites that have a SiteContext in siteTable
  urlTable,  \* urlTable[c][s]: the urls in the priority queue of the site
  scale,     \* scale[c][s]: the field selectCountDivQuota (quota is 1)
  count,     \* _count
  \* LinkScheduler
  base,      \* _base exists
  timer,     \* timer[c]: ticks until the timer with argument c is due, Fired or Off
  lag,       \* ticks since the loop read the clock, up to Interval; 0 between rounds
  pc,        \* where the scheduler thread is
  cur,       \* the IpContext its callback got as its argument
  hand,      \* the url it has selected
  obsolete,  \* isIpContextObsolete
  \* outside
  queue,     \* waitConnectQueue
  idle,      \* idle[ip]: ticks since a url of ip was last selected, up to Interval
  late       \* late[ip]: how long its round had lasted then, up to Interval

tableVars == <<ipTable, ctxIp, sites, urlTable, scale, count>>
threadVars == <<pc, cur, hand, obsolete>>
timeVars == <<timer, lag, idle, late>>
vars == <<tableVars, base, threadVars, queue, timeVars>>

\* main starts the selector just before the scheduler, which may or may not have
\* made its event base when the first url comes.
Init ==
  /\ ipTable = [ip \in Ips |-> None]
  /\ ctxIp \in [Ctxs -> Ips]
  /\ sites = [c \in Ctxs |-> {}]
  /\ urlTable = [c \in Ctxs |-> [s \in Sites |-> {}]]
  /\ scale = [c \in Ctxs |-> [s \in Sites |-> 0]]
  /\ count = 0
  /\ base \in BOOLEAN
  /\ timer = [c \in Ctxs |-> Off]
  /\ pc = "dispatch" /\ cur = None /\ hand = None /\ obsolete = FALSE
  /\ queue = << >>
  /\ lag = 0
  /\ idle = [ip \in Ips |-> Interval]
  /\ late = [ip \in Ips |-> 0]

Allocated == {c \in Ctxs : \E ip \in Ips : ipTable[ip] = c}
Waiting   == {u \in Urls : \E c \in Ctxs : u \in urlTable[c][SiteOf[u]]}
Queued    == {u \in Urls : \E i \in DOMAIN queue : queue[i] = u}

----------------------------------------------------------------------------
(* LinkTable::addUrl, called by the selector with a new url context.       *)

\* A plausible bug: the first selection is due at once.
AddIpSchedule_AtOnce(c) == [timer EXCEPT ![c] = IF base THEN 0 ELSE Off]

\* addIpSchedule: the timer is armed for an interval from the time that the loop
\* goes by; event_add refuses a timer made before the event base, and nobody looks
\* at its result.
AddIpSchedule(c) == [timer EXCEPT ![c] = IF base THEN Interval - lag ELSE Off]

\* getIpContext: the context of ip, allocated and scheduled if there is none.
GetIpContext(ip, c) ==
  \/ /\ ipTable[ip] = c
     /\ UNCHANGED <<ipTable, ctxIp, timer>>
  \/ /\ ipTable[ip] = None /\ c \notin Allocated
     /\ ipTable' = [ipTable EXCEPT ![ip] = c]
     /\ ctxIp' = [ctxIp EXCEPT ![c] = ip]
     /\ timer' = AddIpSchedule(c)

\* urlTable.size() < schedulerMaxUrlTableSize, else RT_TABLE_FULL.
HasRoom(c, s) == Cardinality(urlTable[c][s]) < MaxUrlTableSize

\* The contexts of the ip and the site are made before the table is found full,
\* and stay; the caller keeps the url it could not add.
AddUrl(u) ==
  LET s == SiteOf[u]
  IN  /\ u \notin Waiting \cup Queued \cup {hand}
      /\ \E c \in Ctxs :
           /\ GetIpContext(IpOf[u], c)
           /\ sites' = [sites EXCEPT ![c] = @ \cup {s}]
           /\ \/ /\ HasRoom(c, s)
                 /\ urlTable' = [urlTable EXCEPT ![c][s] = @ \cup {u}]
                 /\ count' = count + 1
              \/ ~HasRoom(c, s) /\ UNCHANGED <<urlTable, count>>
      /\ UNCHANGED <<scale, base, threadVars, queue, lag, idle, late>>

----------------------------------------------------------------------------
(* LinkTable::select and the callback on_ip_schedule around it.            *)

\* IpContext::select: the least selectCountDivQuota, the first in map order
\* among equals.
Selected(c, s) ==
  /\ s \in sites[c]
  /\ \A t \in sites[c] : scale[c][s] < scale[c][t]
                           \/ (scale[c][s] = scale[c][t] /\ s <= t)

\* UrlContextComp puts the least linkDepth on top.
OnTop(c, s, u) ==
  /\ u \in urlTable[c][s]
  /\ \A v \in urlTable[c][s] : DepthOf[u] <= DepthOf[v]

\* selectCountDivQuota += 1.0 / quota, in a float.
Increment(x) == IF x < FloatLimit THEN x + 1 ELSE x

\* A plausible bug: a site is never taken to be empty.
EmptiesSite_Never(c, s, u) == FALSE

\* siteContext->urlTable.size() == 0 after the pop.
EmptiesSite(c, s, u) == urlTable[c][s] = {u}

\* ipContext->siteTable.size() == 0 after the site is erased.
EmptiesIp(c, s, u) == EmptiesSite(c, s, u) /\ sites[c] = {s}

\* The queue of the site after the pop.
Rest(c, s, u) == urlTable[c][s] \ {u}

\* atomic_add(&_count, -1).
CountAfterPop(c, s, u) == count - 1

\* The url leaves its queue; a site left without a url is erased and deleted,
\* an IP left without a site likewise, and the caller is told.
Pop(c, s, u) ==
  /\ urlTable' = [urlTable EXCEPT ![c][s] = Rest(c, s, u)]
  /\ sites' = [sites EXCEPT ![c] = IF EmptiesSite(c, s, u) THEN @ \ {s} ELSE @]
  /\ scale' = [scale EXCEPT ![c][s] = IF EmptiesSite(c, s, u) THEN 0 ELSE Increment(@)]
  /\ count' = CountAfterPop(c, s, u)
  /\ obsolete' = EmptiesIp(c, s, u)
  /\ ipTable' = [ipTable EXCEPT ![ctxIp[c]] = IF EmptiesIp(c, s, u) THEN None ELSE @]
  /\ UNCHANGED ctxIp

\* A round of the loop is under way.
InRound == pc # "dispatch" \/ \E c \in Ctxs : timer[c] = Fired

\* A round begins: every timer that is due fires.
TimeoutProcess ==
  /\ base /\ ~InRound
  /\ \E c \in Ctxs : timer[c] = 0
  /\ timer' = [c \in Ctxs |-> IF timer[c] = 0 THEN Fired ELSE timer[c]]
  /\ UNCHANGED <<tableVars, base, threadVars, queue, lag, idle, late>>

\* The loop forgets the time it read as soon as the round is over.
EndOfRound == lag' = IF InRound' THEN lag ELSE 0

\* The loop calls on_ip_schedule for c, which selects.
OnIpSchedule(c) ==
  /\ pc = "dispatch" /\ timer[c] = Fired
  /\ timer' = [timer EXCEPT ![c] = Off]
  /\ \E s \in Sites, u \in Urls :
       /\ Selected(c, s) /\ OnTop(c, s, u)
       /\ Pop(c, s, u)
       /\ hand' = u
  /\ cur' = c
  /\ pc' = "push"
  /\ idle' = [idle EXCEPT ![ctxIp[c]] = 0]
  /\ late' = [late EXCEPT ![ctxIp[c]] = lag]
  /\ UNCHANGED <<base, queue, lag>>

\* A plausible bug: the context is used again whether or not it was deleted.
PushConnectQueue_AlwaysRearm ==
  /\ pc = "push" /\ Len(queue) <= MaxConnectQueue
  /\ queue' = Append(queue, hand)
  /\ hand' = None
  /\ pc' = "rearm"
  /\ UNCHANGED <<tableVars, base, timer, cur, obsolete, idle, late>>
  /\ EndOfRound

\* pushConnectQueue waits for room, then pushes.
PushConnectQueue ==
  /\ pc = "push" /\ Len(queue) <= MaxConnectQueue
  /\ queue' = Append(queue, hand)
  /\ hand' = None
  /\ pc' = IF obsolete THEN "dispatch" ELSE "rearm"
  /\ UNCHANGED <<tableVars, base, timer, cur, obsolete, idle, late>>
  /\ EndOfRound

\* A plausible bug: the callback returns without re-arming its timer.
Rearm_Forgotten ==
  /\ pc = "rearm"
  /\ pc' = "dispatch"
  /\ UNCHANGED <<tableVars, base, timer, cur, hand, obsolete, queue, idle, late>>
  /\ EndOfRound

\* evtimer_add on the context that select left alive.
Rearm ==
  /\ pc = "rearm"
  /\ timer' = [timer EXCEPT ![cur] = Interval - lag]
  /\ pc' = "dispatch"
  /\ UNCHANGED <<tableVars, base, cur, hand, obsolete, queue, idle, late>>
  /\ EndOfRound

\* LinkScheduler::run creates the event base and enters its loop.
Run ==
  /\ ~base /\ base' = TRUE
  /\ UNCHANGED <<tableVars, threadVars, queue, timeVars>>

----------------------------------------------------------------------------
(* Outside: HttpProcessor takes a url to connect to it, time passes.       *)

TakeUrl ==
  /\ queue # << >> /\ queue' = Tail(queue)
  /\ UNCHANGED <<tableVars, base, threadVars, timeVars>>

Tick ==
  /\ timer' = [c \in Ctxs |-> IF timer[c] > 0 THEN timer[c] - 1 ELSE timer[c]]
  /\ lag' = IF InRound /\ lag < Interval THEN lag + 1 ELSE lag
  /\ idle' = [ip \in Ips |-> IF idle[ip] < Interval THEN idle[ip] + 1 ELSE Interval]
  /\ UNCHANGED <<tableVars, base, threadVars, queue, late>>

Dispatch ==
  TimeoutProcess \/ (\E c \in Ctxs : OnIpSchedule(c)) \/ PushConnectQueue \/ Rearm

Next == (\E u \in Urls : AddUrl(u)) \/ Dispatch \/ Run \/ TakeUrl \/ Tick

\* Time passes, the scheduler thread keeps running, and HttpProcessor keeps taking
\* urls.  The selector may stop adding.  No timer needs fairness of its own: a
\* round calls each one that has fired before the next begins.
Fairness ==
  WF_vars(Tick) /\ WF_vars(Run) /\ WF_vars(TakeUrl) /\ WF_vars(Dispatch)

Safety == Init /\ [][Next]_vars
Spec   == Safety /\ Fairness

----------------------------------------------------------------------------
(* Properties.                                                             *)

TypeOK ==
  /\ ipTable \in [Ips -> Ctxs \cup {None}]
  /\ ctxIp \in [Ctxs -> Ips]
  /\ sites \in [Ctxs -> SUBSET Sites]
  /\ urlTable \in [Ctxs -> [Sites -> SUBSET Urls]]
  /\ \A c \in Ctxs, s \in Sites : Cardinality(urlTable[c][s]) <= MaxUrlTableSize
  /\ scale \in [Ctxs -> [Sites -> 0 .. FloatLimit]]
  /\ count \in Int
  /\ base \in BOOLEAN
  /\ timer \in [Ctxs -> {Off, Fired} \cup (0 .. Interval)]
  /\ lag \in 0 .. Interval
  /\ pc \in {"dispatch", "push", "rearm"}
  /\ cur \in Ctxs \cup {None}
  /\ hand \in Urls \cup {None}
  /\ obsolete \in BOOLEAN
  /\ queue \in Seq(Urls)
  /\ idle \in [Ips -> 0 .. Interval] /\ late \in [Ips -> 0 .. Interval]

\* A context in the table knows its ip, so select erases the right entry, and
\* a context outside it holds nothing.
ContextsOK ==
  /\ \A ip \in Ips : ipTable[ip] # None => ctxIp[ipTable[ip]] = ip
  /\ \A c \in Ctxs \ Allocated : sites[c] = {}

\* Every url waits in the table of its own ip and site, in no other.
UrlsInPlace ==
  \A c \in Ctxs, s \in Sites : \A u \in urlTable[c][s] :
     s = SiteOf[u] /\ ipTable[IpOf[u]] = c /\ s \in sites[c]

\* Between two critical sections no site is without a url and no IP without
\* a site: select never calls top() on an empty queue and never dereferences
\* the NULL that IpContext::select returns for an empty table.
NoEmptyContext ==
  \A c \in Allocated : sites[c] # {} /\ \A s \in sites[c] : urlTable[c][s] # {}

\* _count, the figure printed every few seconds, is the number of urls that
\* wait in all the tables.
CountExact == count = Cardinality(Waiting)

\* The callback is using c: it has selected from it and will re-arm it.
Handling(c) == cur = c /\ (pc = "rearm" \/ (pc = "push" /\ ~obsolete))

\* No timer and no callback refers to a freed context, even though the
\* selector may have made a new one for the same ip, at the same address.
NoDanglingContext ==
  \A c \in Ctxs : timer[c] # Off \/ Handling(c) => c \in Allocated

\* Every IP with waiting urls is scheduled, by its timer or by the callback
\* that will re-arm it, and by one of them only.
Scheduled(c) == (timer[c] # Off) # Handling(c)
EveryIpScheduled == \A c \in Allocated : Scheduled(c)

\* So it is if run() made the event base before the first url came.
InTimeScheduled == base => []EveryIpScheduled

\* A url is in one place only: waiting, in the scheduler's hand or queued.
OnePlace ==
  /\ hand \notin Waiting \cup Queued
  /\ Waiting \cap Queued = {}
  /\ \A i, j \in DOMAIN queue : queue[i] = queue[j] => i = j

\* The rounds in which one ip is selected from begin at least an interval apart,
\* though its context is freed and made anew in between.
Politeness ==
  \A c \in Ctxs : timer[c] \in {0, Fired} => idle[ctxIp[c]] + late[ctxIp[c]] >= Interval

\* Once no more urls are added, every url that waits is handed over.
TableDrains ==
  base /\ <>[][Waiting' \subseteq Waiting]_vars
     => \A u \in Urls : (u \in Waiting) ~> (u \in Queued)
==============================================================================
