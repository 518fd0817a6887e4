------------------------- MODULE LinkSchedulerProofs -------------------------
(***************************************************************************)
(* Theorems about LinkScheduler for any urls, sites, ips and limits.  The  *)
(* inductive invariant is the conjunction of the invariants TLC checks,    *)
(* with three additions: HandOK (the thread's locals fit its pc), PoliteOK *)
(* (what a timer has left and the time since the round of the last         *)
(* selection of its ip add up to the interval, and no ip was selected from *)
(* in a later round than the present one) and, when run() was in time,     *)
(* EveryIpScheduled.                                                       *)
(***************************************************************************)
EXTENDS LinkScheduler, TLAPS, FiniteSetTheorems, SequenceTheorems

HandOK ==
  /\ pc = "push" => hand \in Urls /\ cur \in Ctxs
  /\ pc = "rearm" => cur \in Ctxs

\* Ticks until the callback of an armed timer may be called.
Left(t) == IF t = Fired THEN 0 ELSE t

PoliteOK ==
  /\ \A c \in Ctxs :
       timer[c] # Off => Left(timer[c]) + idle[ctxIp[c]] + late[ctxIp[c]] >= Interval
  /\ \A ip \in Ips : idle[ip] + late[ip] >= lag

TableInv == ContextsOK /\ UrlsInPlace /\ NoEmptyContext

IInv == TypeOK /\ HandOK /\ TableInv /\ CountExact /\ NoDanglingContext /\ PoliteOK

\* An allocated context is the one its own ip leads to, and no other ip does.
LEMMA AllocatedIp ==
  ASSUME TypeOK, ContextsOK, NEW c \in Allocated
  PROVE  /\ c \in Ctxs /\ ctxIp[c] \in Ips /\ ipTable[ctxIp[c]] = c
         /\ \A ip \in Ips : ipTable[ip] = c => ip = ctxIp[c]
BY UrlAssumption DEF TypeOK, ContextsOK, Allocated

\* A site that is not in the table of a context has no urls there.
LEMMA NoSiteNoUrls ==
  ASSUME TypeOK, UrlsInPlace, NEW c \in Ctxs, NEW s \in Sites, s \notin sites[c]
  PROVE  urlTable[c][s] = {}
BY DEF TypeOK, UrlsInPlace

\* The urls of one site are finitely many, and so are all that wait.
LEMMA TablesFinite ==
  ASSUME TypeOK
  PROVE  /\ \A c \in Ctxs, s \in Sites :
              /\ IsFiniteSet(urlTable[c][s])
              /\ Cardinality(urlTable[c][s]) \in Nat
         /\ IsFiniteSet(Waiting) /\ Cardinality(Waiting) \in Nat
<1>1. \A c \in Ctxs, s \in Sites : urlTable[c][s] \subseteq Urls
  BY DEF TypeOK
<1>2. Waiting \subseteq Urls
  BY DEF Waiting
<1> QED
  BY <1>1, <1>2, UrlAssumption, FS_Subset, FS_CardinalityType

LEMMA InitIInv == Init => IInv /\ (base => EveryIpScheduled)
<1> SUFFICES ASSUME Init PROVE IInv /\ (base => EveryIpScheduled)
  OBVIOUS
<1>1. Allocated = {} /\ Waiting = {}
  BY UrlAssumption DEF Init, Allocated, Waiting
<1>2. Cardinality({}) = 0 /\ << >> \in Seq(Urls)
  BY FS_EmptySet, EmptySeq
<1>3. TypeOK
  <2>1. /\ urlTable \in [Ctxs -> [Sites -> SUBSET Urls]]
        /\ \A c \in Ctxs, s \in Sites : Cardinality(urlTable[c][s]) <= MaxUrlTableSize
    BY <1>2, ConfAssumption DEF Init
  <2>2. /\ scale \in [Ctxs -> [Sites -> 0 .. FloatLimit]]
        /\ idle \in [Ips -> 0 .. Interval] /\ late \in [Ips -> 0 .. Interval]
        /\ lag \in 0 .. Interval
    BY ConfAssumption DEF Init
  <2>3. timer \in [Ctxs -> {Off, Fired} \cup (0 .. Interval)] /\ sites \in [Ctxs -> SUBSET Sites]
    BY DEF Init
  <2>4. base \in BOOLEAN /\ obsolete \in BOOLEAN
    BY ConfAssumption DEF Init
  <2>5. /\ ipTable \in [Ips -> Ctxs \cup {None}] /\ ctxIp \in [Ctxs -> Ips]
        /\ count \in Int /\ queue \in Seq(Urls)
        /\ pc \in {"dispatch", "push", "rearm"}
        /\ cur \in Ctxs \cup {None} /\ hand \in Urls \cup {None}
    BY <1>2 DEF Init
  <2> QED
    BY <2>1, <2>2, <2>3, <2>4, <2>5 DEF TypeOK
<1>4. HandOK
  BY DEF Init, HandOK
<1>5. TableInv
  BY <1>1 DEF Init, TableInv, ContextsOK, UrlsInPlace, NoEmptyContext
<1>6. CountExact
  BY <1>1, <1>2 DEF Init, CountExact
<1>7. NoDanglingContext /\ PoliteOK
  BY ConfAssumption DEF Init, NoDanglingContext, PoliteOK, Handling
<1> QED
  BY <1>1, <1>3, <1>4, <1>5, <1>6, <1>7 DEF IInv, EveryIpScheduled

----------------------------------------------------------------------------
(* addUrl.                                                                 *)

\* What addUrl does, for the context c it got: the ip leads to c, whose timer
\* is armed for a full interval if c is new; and the url is in the table of its
\* site unless that was full.
LEMMA AddUrlEffect ==
  ASSUME IInv, NEW u \in Urls, AddUrl(u)
  PROVE  \E c \in Ctxs :
           /\ ipTable' = [ipTable EXCEPT ![IpOf[u]] = c]
           /\ ctxIp' = [ctxIp EXCEPT ![c] = IpOf[u]]
           /\ \/ c \in Allocated /\ ipTable[IpOf[u]] = c /\ timer' = timer
              \/ /\ c \notin Allocated /\ ipTable[IpOf[u]] = None
                 /\ timer' = [timer EXCEPT ![c] = IF base THEN Interval - lag ELSE Off]
           /\ sites' = [sites EXCEPT ![c] = @ \cup {SiteOf[u]}]
           /\ \/ /\ HasRoom(c, SiteOf[u])
                 /\ urlTable' = [urlTable EXCEPT ![c][SiteOf[u]] = @ \cup {u}]
                 /\ count' = count + 1
              \/ /\ urlTable[c][SiteOf[u]] # {} /\ SiteOf[u] \in sites[c]
                 /\ urlTable' = urlTable /\ count' = count
<1>1. PICK c \in Ctxs :
        /\ GetIpContext(IpOf[u], c)
        /\ sites' = [sites EXCEPT ![c] = @ \cup {SiteOf[u]}]
        /\ \/ /\ HasRoom(c, SiteOf[u])
              /\ urlTable' = [urlTable EXCEPT ![c][SiteOf[u]] = @ \cup {u}]
              /\ count' = count + 1
           \/ ~HasRoom(c, SiteOf[u]) /\ UNCHANGED <<urlTable, count>>
  BY DEF AddUrl
<1>2. SiteOf[u] \in Sites /\ IpOf[u] \in Ips
  BY UrlAssumption
<1>3. ~HasRoom(c, SiteOf[u]) => urlTable[c][SiteOf[u]] # {} /\ SiteOf[u] \in sites[c]
  <2>1. urlTable[c][SiteOf[u]] = {} => HasRoom(c, SiteOf[u])
    BY ConfAssumption, FS_EmptySet DEF HasRoom
  <2> QED
    BY <2>1, <1>2, NoSiteNoUrls DEF IInv, TableInv
<1>4. CASE ipTable[IpOf[u]] = c /\ UNCHANGED <<ipTable, ctxIp, timer>>
  <2>1. c \in Allocated /\ ctxIp[c] = IpOf[u]
    BY <1>2, <1>4, UrlAssumption DEF Allocated, IInv, TableInv, ContextsOK
  <2>2. /\ ipTable' = [ipTable EXCEPT ![IpOf[u]] = c]
        /\ ctxIp' = [ctxIp EXCEPT ![c] = IpOf[u]]
    BY <2>1, <1>2, <1>4 DEF IInv, TypeOK
  <2> QED
    BY <1>1, <1>3, <1>4, <2>1, <2>2
<1>5. CASE /\ ipTable[IpOf[u]] = None /\ c \notin Allocated
           /\ ipTable' = [ipTable EXCEPT ![IpOf[u]] = c]
           /\ ctxIp' = [ctxIp EXCEPT ![c] = IpOf[u]]
           /\ timer' = AddIpSchedule(c)
  BY <1>1, <1>3, <1>5 DEF AddIpSchedule
<1> QED
  BY <1>1, <1>4, <1>5 DEF GetIpContext

LEMMA AddUrlIInv ==
  ASSUME IInv, NEW u \in Urls, AddUrl(u)
  PROVE  IInv' /\ (base /\ EveryIpScheduled => EveryIpScheduled')
<1> DEFINE ip == IpOf[u]
           s  == SiteOf[u]
<1>1. ip \in Ips /\ s \in Sites
  BY UrlAssumption
<1>2. PICK c \in Ctxs :
           /\ ipTable' = [ipTable EXCEPT ![ip] = c]
           /\ ctxIp' = [ctxIp EXCEPT ![c] = ip]
           /\ \/ c \in Allocated /\ ipTable[ip] = c /\ timer' = timer
              \/ /\ c \notin Allocated /\ ipTable[ip] = None
                 /\ timer' = [timer EXCEPT ![c] = IF base THEN Interval - lag ELSE Off]
           /\ sites' = [sites EXCEPT ![c] = @ \cup {s}]
           /\ \/ /\ HasRoom(c, s)
                 /\ urlTable' = [urlTable EXCEPT ![c][s] = @ \cup {u}]
                 /\ count' = count + 1
              \/ /\ urlTable[c][s] # {} /\ s \in sites[c]
                 /\ urlTable' = urlTable /\ count' = count
  BY AddUrlEffect
<1>3. /\ TypeOK /\ TableInv /\ CountExact /\ NoDanglingContext /\ PoliteOK /\ HandOK
      /\ u \notin Waiting
      /\ UNCHANGED <<scale, base, pc, cur, hand, obsolete, queue, lag, idle, late>>
  BY DEF IInv, AddUrl, threadVars
<1> HIDE DEF ip, s
<1>4. Allocated' = Allocated \cup {c}
  <2>1. \A x \in Ips : ipTable'[x] = IF x = ip THEN c ELSE ipTable[x]
    BY <1>1, <1>2, <1>3 DEF TypeOK
  <2>2. \A x \in Ctxs : x # c /\ x \in Allocated => \E y \in Ips : y # ip /\ ipTable[y] = x
    BY <1>2, UrlAssumption DEF Allocated
  <2> QED
    BY <2>1, <2>2, <1>1, <1>2 DEF Allocated
<1>5. /\ Cardinality(urlTable'[c][s]) <= MaxUrlTableSize
      /\ \A d \in Ctxs, t \in Sites : d # c \/ t # s => urlTable'[d][t] = urlTable[d][t]
      /\ urlTable' \in [Ctxs -> [Sites -> SUBSET Urls]]
      /\ urlTable'[c][s] \subseteq urlTable[c][s] \cup {u} /\ urlTable'[c][s] # {}
  <2>1. CASE HasRoom(c, s) /\ urlTable' = [urlTable EXCEPT ![c][s] = @ \cup {u}]
    <3>1. urlTable'[c][s] = urlTable[c][s] \cup {u}
      BY <2>1, <1>1, <1>3 DEF TypeOK
    <3>2. IsFiniteSet(urlTable[c][s]) /\ Cardinality(urlTable[c][s]) \in Nat
      BY <1>1, <1>3, TablesFinite
    <3>3. Cardinality(urlTable[c][s] \cup {u}) <= Cardinality(urlTable[c][s]) + 1
          /\ Cardinality(urlTable[c][s] \cup {u}) \in Nat
      <4>1. Cardinality(urlTable[c][s] \cup {u}) =
              IF u \in urlTable[c][s] THEN Cardinality(urlTable[c][s])
                                      ELSE Cardinality(urlTable[c][s]) + 1
        BY <3>2, FS_AddElement
      <4> QED
        BY <4>1, <3>2
    <3>4. Cardinality(urlTable'[c][s]) <= MaxUrlTableSize
      <4>1. Cardinality(urlTable[c][s]) < MaxUrlTableSize
        BY <2>1 DEF HasRoom
      <4>2. MaxUrlTableSize \in Nat
        BY ConfAssumption
      <4>3. Cardinality(urlTable[c][s] \cup {u}) <= MaxUrlTableSize
        BY <3>2, <3>3, <4>1, <4>2
      <4> QED
        BY <3>1, <4>3
    <3> QED
      BY <2>1, <3>1, <3>4, <1>1, <1>3, ZenonT(60) DEF TypeOK
  <2>2. CASE urlTable' = urlTable /\ urlTable[c][s] # {}
    BY <2>2, <1>1, <1>3 DEF TypeOK
  <2> QED
    BY <2>1, <2>2, <1>2
<1>6. TypeOK'
  <2>1. \A d \in Ctxs, t \in Sites : Cardinality(urlTable'[d][t]) <= MaxUrlTableSize
    BY <1>5, <1>3 DEF TypeOK
  <2>2. ipTable' \in [Ips -> Ctxs \cup {None}] /\ ctxIp' \in [Ctxs -> Ips]
    BY <1>1, <1>2, <1>3 DEF TypeOK
  <2>3. timer' \in [Ctxs -> {Off, Fired} \cup (0 .. Interval)] /\ count' \in Int
    <3>1. Interval - lag \in 0 .. Interval
      BY <1>3, ConfAssumption DEF TypeOK
    <3> QED
      <4>1. timer' = timer \/ timer' = [timer EXCEPT ![c] = IF base THEN Interval - lag ELSE Off]
        BY <1>2
      <4>2. timer' \in [Ctxs -> {Off, Fired} \cup (0 .. Interval)]
        BY <4>1, <1>3, <3>1 DEF TypeOK
      <4>3. count' = count \/ count' = count + 1
        BY <1>2
      <4> QED
        BY <4>2, <4>3, <1>3 DEF TypeOK
  <2>4. sites' \in [Ctxs -> SUBSET Sites]
    BY <1>1, <1>2, <1>3 DEF TypeOK
  <2> QED
    BY <2>1, <2>2, <2>3, <2>4, <1>3, <1>5 DEF TypeOK
<1>7. ContextsOK'
  <2>1. \A x \in Ips : ipTable'[x] = IF x = ip THEN c ELSE ipTable[x]
    BY <1>1, <1>2, <1>3 DEF TypeOK
  <2>2. \A d \in Ctxs : ctxIp'[d] = IF d = c THEN ip ELSE ctxIp[d]
    BY <1>1, <1>2, <1>3 DEF TypeOK
  <2>3. \A x \in Ips : ipTable[x] = c => x = ip
    BY <1>1, <1>2, <1>3, AllocatedIp DEF TableInv, Allocated
  <2>4. ASSUME NEW x \in Ips, ipTable'[x] # None PROVE ctxIp'[ipTable'[x]] = x
    <3>1. ipTable[x] \in Ctxs \/ x = ip
      BY <2>1, <2>4, <1>3 DEF TypeOK
    <3>2. x # ip => ipTable[x] # c /\ ipTable'[x] = ipTable[x]
      BY <2>1, <2>3
    <3> QED
      BY <2>1, <2>2, <2>4, <3>1, <3>2, <1>3 DEF TableInv, ContextsOK
  <2>5. ASSUME NEW d \in Ctxs \ Allocated' PROVE sites'[d] = {}
    <3>1. d # c /\ d \notin Allocated
      BY <2>5, <1>4
    <3> QED
      BY <3>1, <1>2, <1>3 DEF TypeOK, TableInv, ContextsOK
  <2> QED
    BY <2>4, <2>5 DEF ContextsOK
<1>8. UrlsInPlace'
  <2> SUFFICES ASSUME NEW d \in Ctxs, NEW t \in Sites, NEW v \in urlTable'[d][t]
               PROVE  t = SiteOf[v] /\ ipTable'[IpOf[v]] = d /\ t \in sites'[d]
    BY DEF UrlsInPlace
  <2>1. CASE d = c /\ t = s /\ v = u
    BY <2>1, <1>1, <1>2, <1>3 DEF TypeOK, ip, s
  <2>2. CASE v \in urlTable[d][t]
    <3>1. t = SiteOf[v] /\ ipTable[IpOf[v]] = d /\ t \in sites[d]
      BY <2>2, <1>3 DEF TableInv, UrlsInPlace
    <3>2. v \in Urls /\ IpOf[v] \in Ips
      BY <2>2, <1>3, UrlAssumption DEF TypeOK
    <3> QED
      BY <3>1, <3>2, <1>1, <1>2, <1>3, UrlAssumption DEF TypeOK
  <2> QED
    BY <2>1, <2>2, <1>5
<1>9. NoEmptyContext'
  <2>1. \A d \in Ctxs : d # c => sites'[d] = sites[d]
    BY <1>2, <1>3 DEF TypeOK
  <2>2. sites'[c] = sites[c] \cup {s}
    BY <1>2, <1>3 DEF TypeOK
  <2>3. c \notin Allocated => sites[c] = {}
    BY <1>3 DEF TableInv, ContextsOK
  <2>4. Allocated \subseteq Ctxs /\ \A d \in Ctxs : sites[d] \subseteq Sites
    BY <1>3 DEF Allocated, TypeOK
  <2>5. ASSUME NEW d \in Allocated'
        PROVE  sites'[d] # {} /\ \A t \in sites'[d] : urlTable'[d][t] # {}
    <3>1. CASE d # c
      <4>1. d \in Allocated /\ d \in Ctxs /\ sites'[d] = sites[d]
        BY <3>1, <2>1, <2>4, <2>5, <1>4
      <4>2. \A t \in sites[d] : urlTable'[d][t] = urlTable[d][t]
        BY <3>1, <4>1, <2>4, <1>5
      <4> QED
        BY <4>1, <4>2, <1>3 DEF TableInv, NoEmptyContext
    <3>2. CASE d = c
      <4>1. \A t \in sites[c] : t # s => urlTable'[c][t] = urlTable[c][t] /\ c \in Allocated
        BY <2>3, <2>4, <1>5
      <4>2. \A t \in sites[c] : t # s => urlTable'[c][t] # {}
        BY <4>1, <1>3 DEF TableInv, NoEmptyContext
      <4> QED
        BY <3>2, <4>2, <2>2, <1>5
    <3> QED
      BY <3>1, <3>2
  <2> QED
    BY <2>5 DEF NoEmptyContext
<1>10. CountExact'
  <2>1. CASE urlTable' = [urlTable EXCEPT ![c][s] = @ \cup {u}] /\ count' = count + 1
    <3>1. Waiting' = Waiting \cup {u}
      BY <2>1, <1>1, <1>3, UrlAssumption, SMTT(30) DEF TypeOK, Waiting, s
    <3>2. Cardinality(Waiting') = Cardinality(Waiting) + 1
      BY <3>1, <1>3, TablesFinite, FS_AddElement
    <3> QED
      BY <2>1, <3>2, <1>3 DEF CountExact
  <2>2. CASE urlTable' = urlTable /\ count' = count
    BY <2>2, <1>3 DEF CountExact, Waiting
  <2> QED
    BY <2>1, <2>2, <1>2
<1>11. NoDanglingContext'
  BY <1>2, <1>3, <1>4 DEF TypeOK, NoDanglingContext, Handling
<1>12. PoliteOK'
  <2>1. \A d \in Ctxs : d # c => timer'[d] = timer[d] /\ ctxIp'[d] = ctxIp[d]
    BY <1>2, <1>3 DEF TypeOK
  <2>2. CASE c \in Allocated /\ ipTable[ip] = c /\ timer' = timer
    <3>1. ctxIp' = ctxIp
      BY <2>2, <1>1, <1>2, <1>3, AllocatedIp DEF TypeOK, TableInv
    <3> QED
      BY <2>2, <3>1, <1>3 DEF PoliteOK
  <2>3. CASE timer' = [timer EXCEPT ![c] = IF base THEN Interval - lag ELSE Off]
    <3>1. timer'[c] = (IF base THEN Interval - lag ELSE Off) /\ ctxIp'[c] = ip
      BY <2>3, <1>1, <1>2, <1>3 DEF TypeOK
    <3>2. idle[ip] \in Nat /\ late[ip] \in Nat /\ lag \in 0 .. Interval /\ idle[ip] + late[ip] >= lag
      BY <1>1, <1>3 DEF TypeOK, PoliteOK
    <3>3. timer'[c] # Off => Left(timer'[c]) + idle'[ctxIp'[c]] + late'[ctxIp'[c]] >= Interval
      BY <3>1, <3>2, <1>3, ConfAssumption DEF Left, Off, Fired
    <3> QED
      BY <2>1, <3>3, <1>3 DEF PoliteOK
  <2> QED
    BY <2>2, <2>3, <1>2
<1>13. HandOK'
  BY <1>3 DEF HandOK
<1>14. base /\ EveryIpScheduled => EveryIpScheduled'
  <2> SUFFICES ASSUME base, EveryIpScheduled, NEW d \in Allocated'
               PROVE  Scheduled(d)'
    BY DEF EveryIpScheduled
  <2>1. Handling(d)' = Handling(d)
    BY <1>3 DEF Handling
  <2>2. CASE d \in Allocated /\ timer'[d] = timer[d]
    BY <2>1, <2>2 DEF EveryIpScheduled, Scheduled
  <2>3. CASE d = c /\ c \notin Allocated /\ timer' = [timer EXCEPT ![c] = IF base THEN Interval - lag ELSE Off]
    <3>1. timer'[d] = Interval - lag /\ Interval - lag # Off
      BY <2>3, <1>3, ConfAssumption DEF TypeOK, Off
    <3>2. ~Handling(d)
      BY <2>3, <1>3 DEF NoDanglingContext
    <3> QED
      BY <2>1, <3>1, <3>2 DEF Scheduled
  <2>4. CASE d # c
    <3>1. d \in Allocated /\ timer'[d] = timer[d]
      BY <2>4, <1>2, <1>3, <1>4, SMTT(30) DEF TypeOK, Allocated
    <3> QED
      BY <3>1, <2>2
  <2> QED
    BY <2>2, <2>3, <2>4, <1>2
<1> QED
  BY <1>3, <1>6, <1>7, <1>8, <1>9, <1>10, <1>11, <1>12, <1>13, <1>14 DEF IInv, TableInv

----------------------------------------------------------------------------
(* on_ip_schedule.                                                         *)

\* What the selection of u from site s of c does, spelled out pointwise.
LEMMA SelectEffect ==
  ASSUME IInv, NEW c \in Ctxs, OnIpSchedule(c)
  PROVE  /\ c \in Allocated
         /\ \E s \in Sites, u \in Urls :
              /\ s \in sites[c] /\ u \in urlTable[c][s]
              /\ \A v \in urlTable[c][s] : DepthOf[u] <= DepthOf[v]
              /\ Pop(c, s, u) /\ hand' = u
BY DEF OnIpSchedule, Selected, OnTop, IInv, NoDanglingContext, Off, Fired

LEMMA SelectTable ==
  ASSUME TypeOK, TableInv, CountExact, NEW c \in Allocated,
         NEW s \in sites[c], NEW u \in urlTable[c][s], Pop(c, s, u)
  PROVE  /\ TableInv' /\ CountExact'
         /\ Allocated' = IF obsolete' THEN Allocated \ {c} ELSE Allocated
         /\ Waiting' = Waiting \ {u} /\ u \in Waiting
         /\ ipTable' \in [Ips -> Ctxs \cup {None}]
         /\ sites' \in [Ctxs -> SUBSET Sites]
         /\ urlTable' \in [Ctxs -> [Sites -> SUBSET Urls]]
         /\ scale' \in [Ctxs -> [Sites -> 0 .. FloatLimit]]
         /\ count' \in Int /\ ctxIp' = ctxIp /\ obsolete' \in BOOLEAN
         /\ \A d \in Ctxs, t \in Sites : urlTable'[d][t] \subseteq urlTable[d][t]
<1>1. /\ c \in Ctxs /\ s \in Sites /\ u \in Urls
      /\ ctxIp[c] \in Ips /\ ipTable[ctxIp[c]] = c
      /\ \A ip \in Ips : ipTable[ip] = c => ip = ctxIp[c]
  <2>1. /\ c \in Ctxs /\ ctxIp[c] \in Ips /\ ipTable[ctxIp[c]] = c
        /\ \A ip \in Ips : ipTable[ip] = c => ip = ctxIp[c]
    BY AllocatedIp DEF TableInv
  <2> QED
    BY <2>1 DEF TypeOK
<1>2. s = SiteOf[u] /\ IpOf[u] = ctxIp[c]
  <2>1. s = SiteOf[u] /\ ipTable[IpOf[u]] = c
    BY <1>1 DEF TableInv, UrlsInPlace
  <2> QED
    BY <2>1, <1>1, UrlAssumption
<1> DEFINE last == urlTable[c][s] = {u}
           gone == urlTable[c][s] = {u} /\ sites[c] = {s}
<1>3. /\ urlTable' = [urlTable EXCEPT ![c][s] = urlTable[c][s] \ {u}]
      /\ sites' = [sites EXCEPT ![c] = IF last THEN sites[c] \ {s} ELSE sites[c]]
      /\ scale' = [scale EXCEPT ![c][s] = IF last THEN 0 ELSE Increment(scale[c][s])]
      /\ count' = count - 1 /\ obsolete' = gone /\ ctxIp' = ctxIp
      /\ ipTable' = [ipTable EXCEPT ![ctxIp[c]] = IF gone THEN None ELSE c]
  BY <1>1 DEF Pop, EmptiesSite, EmptiesIp, Rest, CountAfterPop, TypeOK
<1>4. /\ \A d \in Ctxs, t \in Sites : urlTable'[d][t] =
            IF d = c /\ t = s THEN urlTable[c][s] \ {u} ELSE urlTable[d][t]
      /\ \A d \in Ctxs : sites'[d] =
            IF d = c /\ last THEN sites[c] \ {s} ELSE sites[d]
      /\ \A ip \in Ips : ipTable'[ip] =
            IF ip = ctxIp[c] /\ gone THEN None ELSE ipTable[ip]
  <2>1. \A d \in Ctxs, t \in Sites : urlTable'[d][t] =
            IF d = c /\ t = s THEN urlTable[c][s] \ {u} ELSE urlTable[d][t]
    BY <1>1, <1>3 DEF TypeOK
  <2>2. \A d \in Ctxs : sites'[d] = IF d = c /\ last THEN sites[c] \ {s} ELSE sites[d]
    BY <1>1, <1>3 DEF TypeOK
  <2>3. \A ip \in Ips : ipTable'[ip] = IF ip = ctxIp[c] /\ gone THEN None ELSE ipTable[ip]
    BY <1>1, <1>3 DEF TypeOK
  <2> QED
    BY <2>1, <2>2, <2>3
<1>5. Waiting' = Waiting \ {u} /\ u \in Waiting
  <2>1. u \in Waiting
    BY <1>1, <1>2 DEF Waiting
  <2>2. ASSUME NEW v \in Waiting' PROVE v \in Waiting /\ v # u
    <3>1. PICK d \in Ctxs : v \in Urls /\ v \in urlTable'[d][SiteOf[v]] /\ SiteOf[v] \in Sites
      BY <2>2, UrlAssumption DEF Waiting
    <3>2. v \in urlTable[d][SiteOf[v]]
      BY <3>1, <1>4
    <3>3. v # u
      <4>1. CASE d = c
        BY <4>1, <3>1, <1>1, <1>2, <1>4
      <4>2. CASE d # c
        BY <4>2, <3>1, <3>2, <1>1, <1>2 DEF TableInv, UrlsInPlace
      <4> QED
        BY <4>1, <4>2
    <3> QED
      BY <3>1, <3>2, <3>3 DEF Waiting
  <2>3. ASSUME NEW v \in Waiting, v # u PROVE v \in Waiting'
    <3>1. PICK d \in Ctxs : v \in Urls /\ v \in urlTable[d][SiteOf[v]] /\ SiteOf[v] \in Sites
      BY <2>3, UrlAssumption DEF Waiting
    <3>2. v \in urlTable'[d][SiteOf[v]]
      BY <3>1, <2>3, <1>4
    <3> QED
      BY <3>1, <3>2 DEF Waiting
  <2> QED
    BY <2>1, <2>2, <2>3
<1>6. CountExact'
  <2>1. Cardinality(Waiting') = Cardinality(Waiting) - 1
    BY <1>5, TablesFinite, FS_RemoveElement
  <2> QED
    BY <2>1, <1>3 DEF CountExact
<1>7. Allocated' = IF obsolete' THEN Allocated \ {c} ELSE Allocated
  <2>1. CASE gone
    <3>1. \A d \in Ctxs : (\E ip \in Ips : ipTable'[ip] = d)
                            <=> d # c /\ \E ip \in Ips : ipTable[ip] = d
      BY <2>1, <1>1, <1>4, UrlAssumption
    <3> QED
      BY <2>1, <3>1, <1>3 DEF Allocated
  <2>2. CASE ~gone
    <3>1. \A ip \in Ips : ipTable'[ip] = ipTable[ip]
      BY <2>2, <1>4
    <3> QED
      BY <2>2, <3>1, <1>3 DEF Allocated
  <2> QED
    BY <2>1, <2>2
<1>8. ContextsOK'
  <2>1. ASSUME NEW ip \in Ips, ipTable'[ip] # None PROVE ctxIp'[ipTable'[ip]] = ip
    BY <2>1, <1>1, <1>3, <1>4 DEF TableInv, ContextsOK
  <2>2. ASSUME NEW d \in Ctxs \ Allocated' PROVE sites'[d] = {}
    BY <2>2, <1>3, <1>4, <1>7, ZenonT(60) DEF TableInv, ContextsOK
  <2> QED
    BY <2>1, <2>2 DEF ContextsOK
<1>9. UrlsInPlace'
  <2> SUFFICES ASSUME NEW d \in Ctxs, NEW t \in Sites, NEW v \in urlTable'[d][t]
               PROVE  t = SiteOf[v] /\ ipTable'[IpOf[v]] = d /\ t \in sites'[d]
    BY DEF UrlsInPlace
  <2>1. v \in urlTable[d][t] /\ (d = c /\ t = s => v # u)
    BY <1>4
  <2>2. t = SiteOf[v] /\ ipTable[IpOf[v]] = d /\ t \in sites[d]
    BY <2>1 DEF TableInv, UrlsInPlace
  <2>3. v \in Urls /\ IpOf[v] \in Ips
    BY <2>1, UrlAssumption DEF TypeOK
  <2>4. d = c /\ last => t # s
    BY <2>1
  <2>5. t \in sites'[d]
    BY <2>2, <2>4, <1>4
  <2>6. ipTable'[IpOf[v]] = d
    <3>1. d = c => ~gone
      BY <2>2, <2>4
    <3> QED
      BY <2>2, <2>3, <3>1, <1>1, <1>4
  <2> QED
    BY <2>2, <2>5, <2>6
<1>10. NoEmptyContext'
  <2> SUFFICES ASSUME NEW d \in Allocated'
               PROVE  sites'[d] # {} /\ \A t \in sites'[d] : urlTable'[d][t] # {}
    BY DEF NoEmptyContext
  <2>1. d \in Allocated /\ d \in Ctxs /\ (d = c => ~gone)
    BY <1>3, <1>7 DEF Allocated
  <2>2. sites[d] # {} /\ sites[d] \subseteq Sites /\ \A t \in sites[d] : urlTable[d][t] # {}
    BY <2>1 DEF TableInv, NoEmptyContext, TypeOK
  <2>3. CASE d # c
    BY <2>1, <2>2, <2>3, <1>4
  <2>4. CASE d = c /\ last
    BY <2>1, <2>2, <2>4, <1>1, <1>4
  <2>5. CASE d = c /\ ~last
    BY <2>1, <2>2, <2>5, <1>1, <1>4
  <2> QED
    BY <2>3, <2>4, <2>5
<1>11. /\ ipTable' \in [Ips -> Ctxs \cup {None}]
       /\ sites' \in [Ctxs -> SUBSET Sites]
       /\ urlTable' \in [Ctxs -> [Sites -> SUBSET Urls]]
  BY <1>1, <1>3 DEF TypeOK
<1>12. scale' \in [Ctxs -> [Sites -> 0 .. FloatLimit]]
  <2>1. scale[c][s] \in 0 .. FloatLimit
    BY <1>1 DEF TypeOK
  <2>2. Increment(scale[c][s]) \in 0 .. FloatLimit /\ 0 \in 0 .. FloatLimit
    BY <2>1, ConfAssumption DEF Increment
  <2> QED
    BY <2>2, <1>1, <1>3 DEF TypeOK
<1>13. count' \in Int /\ obsolete' \in BOOLEAN
  BY <1>3 DEF TypeOK
<1>14. \A d \in Ctxs, t \in Sites : urlTable'[d][t] \subseteq urlTable[d][t]
  BY <1>4
<1> QED
  BY <1>3, <1>5, <1>6, <1>7, <1>8, <1>9, <1>10, <1>11, <1>12, <1>13, <1>14 DEF TableInv

LEMMA OnIpScheduleIInv ==
  ASSUME IInv, NEW c \in Ctxs, OnIpSchedule(c)
  PROVE  IInv' /\ (base /\ EveryIpScheduled => EveryIpScheduled')
<1>1. PICK s \in Sites, u \in Urls :
        /\ c \in Allocated /\ s \in sites[c] /\ u \in urlTable[c][s]
        /\ Pop(c, s, u) /\ hand' = u
  BY SelectEffect
<1>2. /\ TypeOK /\ TableInv /\ CountExact /\ NoDanglingContext /\ PoliteOK
      /\ pc = "dispatch" /\ pc' = "push" /\ cur' = c /\ timer[c] = Fired
      /\ timer' = [timer EXCEPT ![c] = Off] /\ UNCHANGED <<base, queue, lag>>
      /\ idle' = [idle EXCEPT ![ctxIp[c]] = 0]
      /\ late' = [late EXCEPT ![ctxIp[c]] = lag]
  BY DEF IInv, OnIpSchedule
<1>3. /\ TableInv' /\ CountExact'
      /\ Allocated' = IF obsolete' THEN Allocated \ {c} ELSE Allocated
      /\ ipTable' \in [Ips -> Ctxs \cup {None}]
      /\ sites' \in [Ctxs -> SUBSET Sites]
      /\ urlTable' \in [Ctxs -> [Sites -> SUBSET Urls]]
      /\ scale' \in [Ctxs -> [Sites -> 0 .. FloatLimit]]
      /\ count' \in Int /\ ctxIp' = ctxIp /\ obsolete' \in BOOLEAN
      /\ \A d \in Ctxs, t \in Sites : urlTable'[d][t] \subseteq urlTable[d][t]
  BY <1>1, <1>2, SelectTable
<1>4. timer' \in [Ctxs -> {Off, Fired} \cup (0 .. Interval)]
      /\ \A d \in Ctxs : timer'[d] = IF d = c THEN Off ELSE timer[d]
  BY <1>2 DEF TypeOK
<1>5. TypeOK'
  <2>1. \A d \in Ctxs, t \in Sites : Cardinality(urlTable'[d][t]) <= MaxUrlTableSize
    <3> SUFFICES ASSUME NEW d \in Ctxs, NEW t \in Sites
                 PROVE  Cardinality(urlTable'[d][t]) <= MaxUrlTableSize
      OBVIOUS
    <3>1. IsFiniteSet(urlTable[d][t]) /\ urlTable'[d][t] \subseteq urlTable[d][t]
            /\ Cardinality(urlTable[d][t]) \in Nat
      BY <1>2, <1>3, TablesFinite
    <3>2. Cardinality(urlTable'[d][t]) <= Cardinality(urlTable[d][t])
            /\ Cardinality(urlTable'[d][t]) \in Nat
      BY <3>1, FS_Subset, FS_CardinalityType
    <3>3. Cardinality(urlTable[d][t]) <= MaxUrlTableSize
      BY <1>2 DEF TypeOK
    <3> QED
      BY <3>1, <3>2, <3>3, ConfAssumption
  <2>2. idle' \in [Ips -> 0 .. Interval] /\ late' \in [Ips -> 0 .. Interval]
    BY <1>2, ConfAssumption DEF TypeOK
  <2> QED
    BY <2>1, <2>2, <1>1, <1>2, <1>3, <1>4 DEF TypeOK
<1>6. HandOK'
  BY <1>1, <1>2 DEF HandOK
<1>7. NoDanglingContext'
  <2> SUFFICES ASSUME NEW d \in Ctxs, timer'[d] # Off \/ Handling(d)'
               PROVE  d \in Allocated'
    BY DEF NoDanglingContext
  <2>1. CASE timer'[d] # Off
    BY <2>1, <1>2, <1>3, <1>4 DEF NoDanglingContext
  <2>2. CASE Handling(d)'
    <3>1. d = c /\ ~obsolete'
      BY <2>2, <1>2 DEF Handling
    <3> QED
      BY <3>1, <1>1, <1>3
  <2> QED
    BY <2>1, <2>2
<1>8. PoliteOK'
  <2>1. ASSUME NEW d \in Ctxs, timer'[d] # Off
        PROVE  Left(timer'[d]) + idle'[ctxIp'[d]] + late'[ctxIp'[d]] >= Interval
    <3>1. d # c /\ timer[d] # Off /\ d \in Allocated
      BY <2>1, <1>2, <1>4 DEF NoDanglingContext
    <3>2. ctxIp[d] # ctxIp[c]
      BY <3>1, <1>1, <1>2, AllocatedIp DEF TableInv
    <3>3. /\ idle'[ctxIp[d]] = idle[ctxIp[d]] /\ late'[ctxIp[d]] = late[ctxIp[d]]
          /\ timer'[d] = timer[d] /\ ctxIp' = ctxIp
      BY <3>1, <3>2, <1>2, <1>3, <1>4 DEF TypeOK
    <3> QED
      BY <3>1, <3>3, <1>2 DEF PoliteOK
  <2>2. ASSUME NEW ip \in Ips PROVE idle'[ip] + late'[ip] >= lag'
    <3>1. CASE ip = ctxIp[c]
      BY <3>1, <1>2 DEF TypeOK
    <3>2. CASE ip # ctxIp[c]
      BY <3>2, <1>2 DEF TypeOK, PoliteOK
    <3> QED
      BY <3>1, <3>2
  <2> QED
    BY <2>1, <2>2 DEF PoliteOK
<1>9. base /\ EveryIpScheduled => EveryIpScheduled'
  <2> SUFFICES ASSUME EveryIpScheduled, NEW d \in Allocated'
               PROVE  Scheduled(d)'
    BY DEF EveryIpScheduled
  <2>1. d \in Allocated /\ d \in Ctxs /\ (d = c => ~obsolete')
    BY <1>3 DEF Allocated
  <2>2. CASE d = c
    BY <2>1, <2>2, <1>2, <1>4 DEF Scheduled, Handling
  <2>3. CASE d # c
    BY <2>1, <2>3, <1>2, <1>4 DEF EveryIpScheduled, Scheduled, Handling
  <2> QED
    BY <2>2, <2>3
<1> QED
  BY <1>3, <1>5, <1>6, <1>7, <1>8, <1>9 DEF IInv

----------------------------------------------------------------------------
(* The other steps leave the table alone.                                  *)

\* If nothing but the queue and the event base changes, every conjunct that does
\* not speak of them stays true.
LEMMA TableUnchanged ==
  ASSUME IInv, UNCHANGED <<tableVars, threadVars, timeVars>>,
         base' \in BOOLEAN, queue' \in Seq(Urls)
  PROVE  IInv' /\ (EveryIpScheduled => EveryIpScheduled')
<1>1. UNCHANGED <<ipTable, ctxIp, sites, urlTable, scale, count, timer, lag,
                  pc, cur, hand, obsolete, idle, late>>
  BY DEF tableVars, threadVars, timeVars
<1>2. TypeOK'
  BY <1>1 DEF IInv, TypeOK
<1>3. Allocated' = Allocated /\ Waiting' = Waiting
  BY <1>1 DEF Allocated, Waiting
<1>4. \A c \in Ctxs : Handling(c)' = Handling(c)
  BY <1>1 DEF Handling
<1>5. TableInv' /\ CountExact' /\ HandOK'
  BY <1>1, <1>3 DEF IInv, TableInv, ContextsOK, UrlsInPlace, NoEmptyContext, CountExact, HandOK
<1>6. NoDanglingContext' /\ PoliteOK'
  BY <1>1, <1>3, <1>4 DEF IInv, NoDanglingContext, PoliteOK
<1>7. EveryIpScheduled => EveryIpScheduled'
  BY <1>1, <1>3, <1>4 DEF EveryIpScheduled, Scheduled, Allocated
<1> QED
  BY <1>2, <1>5, <1>6, <1>7 DEF IInv

\* The beginning of a round: timers fire, and those that had not been armed
\* stay so.
LEMMA TimeoutProcessIInv ==
  ASSUME IInv, TimeoutProcess
  PROVE  IInv' /\ (base /\ EveryIpScheduled => EveryIpScheduled')
<1>1. UNCHANGED <<ipTable, ctxIp, sites, urlTable, scale, count, base, pc, cur, hand,
                  obsolete, queue, lag, idle, late>>
  BY DEF TimeoutProcess, tableVars, threadVars
<1>2. \A c \in Ctxs : timer'[c] = IF timer[c] = 0 THEN Fired ELSE timer[c]
  BY DEF TimeoutProcess
<1>3. /\ timer' \in [Ctxs -> {Off, Fired} \cup (0 .. Interval)]
      /\ \A c \in Ctxs : (timer'[c] # Off) <=> (timer[c] # Off)
      /\ \A c \in Ctxs : Left(timer'[c]) = Left(timer[c])
  BY DEF TimeoutProcess, IInv, TypeOK, Off, Fired, Left
<1>4. TypeOK'
  BY <1>1, <1>3 DEF IInv, TypeOK
<1>5. Allocated' = Allocated /\ Waiting' = Waiting
  BY <1>1 DEF Allocated, Waiting
<1>6. TableInv' /\ CountExact' /\ HandOK'
  BY <1>1, <1>5 DEF IInv, TableInv, ContextsOK, UrlsInPlace, NoEmptyContext, CountExact, HandOK
<1>7. NoDanglingContext' /\ PoliteOK'
  BY <1>1, <1>3, <1>5 DEF IInv, NoDanglingContext, PoliteOK, Handling
<1>8. EveryIpScheduled => EveryIpScheduled'
  BY <1>1, <1>3, <1>5 DEF EveryIpScheduled, Scheduled, Handling, Allocated
<1> QED
  BY <1>4, <1>6, <1>7, <1>8 DEF IInv

\* The end of a round takes the time it had read back to 0.
LEMMA EndOfRoundLag ==
  ASSUME IInv, EndOfRound
  PROVE  lag' \in 0 .. Interval /\ lag' <= lag
BY ConfAssumption DEF EndOfRound, IInv, TypeOK

LEMMA PushIInv ==
  ASSUME IInv, PushConnectQueue
  PROVE  IInv' /\ (base /\ EveryIpScheduled => EveryIpScheduled')
<1>1. /\ UNCHANGED <<ipTable, ctxIp, sites, urlTable, scale, count, base, timer, cur, obsolete,
                     idle, late>>
      /\ lag' \in 0 .. Interval /\ lag' <= lag
      /\ pc = "push" /\ pc' = IF obsolete THEN "dispatch" ELSE "rearm"
      /\ hand' = None /\ queue' = Append(queue, hand)
  BY EndOfRoundLag DEF PushConnectQueue, tableVars
<1>2. queue' \in Seq(Urls)
  BY <1>1, AppendProperties DEF IInv, HandOK, TypeOK
<1>3. TypeOK'
  BY <1>1, <1>2 DEF IInv, TypeOK
<1>4. Allocated' = Allocated /\ Waiting' = Waiting
  BY <1>1 DEF Allocated, Waiting
<1>5. TableInv' /\ CountExact'
  BY <1>1, <1>4 DEF IInv, TableInv, ContextsOK, UrlsInPlace, NoEmptyContext, CountExact
<1>6. \A c \in Ctxs : Handling(c)' = Handling(c)
  BY <1>1 DEF Handling
<1>7. NoDanglingContext' /\ HandOK'
  BY <1>1, <1>4, <1>6 DEF IInv, NoDanglingContext, HandOK
<1>9. PoliteOK'
  BY <1>1 DEF IInv, PoliteOK, TypeOK
<1>8. EveryIpScheduled => EveryIpScheduled'
  BY <1>1, <1>4, <1>6 DEF EveryIpScheduled, Scheduled, Allocated
<1> QED
  BY <1>3, <1>5, <1>7, <1>8, <1>9 DEF IInv

LEMMA RearmIInv ==
  ASSUME IInv, Rearm
  PROVE  IInv' /\ (base /\ EveryIpScheduled => EveryIpScheduled')
<1>1. /\ UNCHANGED <<ipTable, ctxIp, sites, urlTable, scale, count, base, cur, hand, obsolete,
                     queue, idle, late>>
      /\ lag' \in 0 .. Interval /\ lag' <= lag
      /\ pc = "rearm" /\ pc' = "dispatch" /\ cur \in Ctxs /\ cur \in Allocated
      /\ timer' = [timer EXCEPT ![cur] = Interval - lag]
  BY EndOfRoundLag DEF Rearm, tableVars, IInv, HandOK, NoDanglingContext, Handling
<1>2. /\ timer' \in [Ctxs -> {Off, Fired} \cup (0 .. Interval)]
      /\ \A c \in Ctxs : timer'[c] = IF c = cur THEN Interval - lag ELSE timer[c]
  BY <1>1, ConfAssumption DEF IInv, TypeOK
<1>3. TypeOK'
  BY <1>1, <1>2 DEF IInv, TypeOK
<1>4. Allocated' = Allocated /\ Waiting' = Waiting
  BY <1>1 DEF Allocated, Waiting
<1>5. TableInv' /\ CountExact'
  BY <1>1, <1>4 DEF IInv, TableInv, ContextsOK, UrlsInPlace, NoEmptyContext, CountExact
<1>6. NoDanglingContext' /\ HandOK'
  BY <1>1, <1>2, <1>4 DEF IInv, NoDanglingContext, HandOK, Handling
<1>7. PoliteOK'
  <2>1. \A ip \in Ips : idle[ip] \in Nat /\ late[ip] \in Nat /\ idle[ip] + late[ip] >= lag
    BY DEF IInv, TypeOK, PoliteOK
  <2>2. lag \in 0 .. Interval /\ ctxIp \in [Ctxs -> Ips]
    BY DEF IInv, TypeOK
  <2>3. ASSUME NEW c \in Ctxs, timer'[c] # Off
        PROVE  Left(timer'[c]) + idle[ctxIp[c]] + late[ctxIp[c]] >= Interval
    <3>1. CASE c = cur
      <4>1. Left(timer'[c]) = Interval - lag
        BY <3>1, <2>2, <1>2, ConfAssumption DEF Left, Fired
      <4> QED
        BY <4>1, <2>1, <2>2, ConfAssumption
    <3>2. CASE c # cur
      BY <3>2, <2>3, <1>2 DEF IInv, PoliteOK
    <3> QED
      BY <3>1, <3>2
  <2>4. \A ip \in Ips : idle[ip] + late[ip] >= lag'
    BY <2>1, <2>2, <1>1
  <2> QED
    BY <2>3, <2>4, <1>1 DEF PoliteOK
<1>8. EveryIpScheduled => EveryIpScheduled'
  <2> SUFFICES ASSUME EveryIpScheduled, NEW c \in Allocated
               PROVE  Scheduled(c)'
    BY <1>4 DEF EveryIpScheduled
  <2>1. c \in Ctxs /\ Interval - lag # Off
    BY ConfAssumption DEF Allocated, Off, IInv, TypeOK
  <2> QED
    BY <2>1, <1>1, <1>2 DEF EveryIpScheduled, Scheduled, Handling
<1> QED
  BY <1>3, <1>5, <1>6, <1>7, <1>8 DEF IInv

LEMMA RunIInv ==
  ASSUME IInv, Run
  PROVE  IInv'
BY TableUnchanged DEF Run, IInv, TypeOK

LEMMA TakeUrlIInv ==
  ASSUME IInv, TakeUrl
  PROVE  IInv' /\ (base /\ EveryIpScheduled => EveryIpScheduled')
<1>1. queue' \in Seq(Urls)
  BY HeadTailProperties DEF TakeUrl, IInv, TypeOK
<1> QED
  BY <1>1, TableUnchanged DEF TakeUrl, IInv, TypeOK

LEMMA TickIInv ==
  ASSUME IInv, Tick
  PROVE  IInv' /\ (base /\ EveryIpScheduled => EveryIpScheduled')
<1>1. UNCHANGED <<ipTable, ctxIp, sites, urlTable, scale, count, base, pc, cur, hand, obsolete, queue, late>>
  BY DEF Tick, tableVars, threadVars
<1>2. /\ lag' = lag \/ (lag < Interval /\ lag' = lag + 1)
      /\ \A c \in Ctxs : timer'[c] = IF timer[c] > 0 THEN timer[c] - 1 ELSE timer[c]
      /\ \A ip \in Ips : idle'[ip] = IF idle[ip] < Interval THEN idle[ip] + 1 ELSE Interval
  BY DEF Tick
<1>3. /\ timer' \in [Ctxs -> {Off, Fired} \cup (0 .. Interval)]
      /\ idle' \in [Ips -> 0 .. Interval]
      /\ lag' \in 0 .. Interval
      /\ \A c \in Ctxs : (timer'[c] # Off) <=> (timer[c] # Off)
  BY <1>2, ConfAssumption DEF Tick, IInv, TypeOK, Off, Fired
<1>4. TypeOK'
  BY <1>1, <1>3 DEF IInv, TypeOK
<1>5. Allocated' = Allocated /\ Waiting' = Waiting
  BY <1>1 DEF Allocated, Waiting
<1>6. TableInv' /\ CountExact' /\ HandOK'
  BY <1>1, <1>5 DEF IInv, TableInv, ContextsOK, UrlsInPlace, NoEmptyContext, CountExact, HandOK
<1>7. NoDanglingContext'
  BY <1>1, <1>3, <1>5 DEF IInv, NoDanglingContext, Handling
<1>8. PoliteOK'
  <2>1. ASSUME NEW ip \in Ips
        PROVE  /\ idle[ip] \in 0 .. Interval /\ late[ip] \in 0 .. Interval
               /\ lag \in 0 .. Interval /\ idle[ip] + late[ip] >= lag
               /\ idle'[ip] = IF idle[ip] < Interval THEN idle[ip] + 1 ELSE Interval
    BY <1>2 DEF IInv, TypeOK, PoliteOK
  <2>2. ASSUME NEW c \in Ctxs, timer'[c] # Off
        PROVE  Left(timer'[c]) + idle'[ctxIp[c]] + late[ctxIp[c]] >= Interval
    <3>1. PICK ip \in Ips : ip = ctxIp[c]
      BY DEF IInv, TypeOK
    <3>2. timer[c] \in {Off, Fired} \cup (0 .. Interval) /\ timer[c] # Off
      BY <2>2, <1>3 DEF IInv, TypeOK
    <3>3. Left(timer[c]) + idle[ip] + late[ip] >= Interval
      BY <3>1, <3>2 DEF IInv, PoliteOK
    <3>4. timer'[c] = IF timer[c] > 0 THEN timer[c] - 1 ELSE timer[c]
      BY <1>2
    <3>5. Left(timer'[c]) >= Left(timer[c]) - 1 /\ Left(timer'[c]) >= 0 /\ Left(timer'[c]) \in Int
            /\ Left(timer[c]) \in Int
      BY <3>2, <3>4, ConfAssumption DEF Left, Fired, Off
    <3> HIDE DEF Left
    <3> QED
      BY <2>1, <3>1, <3>3, <3>5, ConfAssumption
  <2>3. \A ip \in Ips : idle'[ip] + late[ip] >= lag'
    BY <2>1, <1>2, ConfAssumption
  <2> QED
    BY <2>2, <2>3, <1>1 DEF PoliteOK
<1>9. EveryIpScheduled => EveryIpScheduled'
  BY <1>1, <1>3, <1>5 DEF EveryIpScheduled, Scheduled, Handling, Allocated
<1> QED
  BY <1>4, <1>6, <1>7, <1>8, <1>9 DEF IInv

LEMMA StutterIInv ==
  ASSUME IInv, UNCHANGED vars
  PROVE  IInv' /\ (base /\ EveryIpScheduled => EveryIpScheduled')
BY TableUnchanged DEF vars, IInv, TypeOK

LEMMA NextIInv == IInv /\ [Next]_vars => IInv'
BY AddUrlIInv, TimeoutProcessIInv, OnIpScheduleIInv, PushIInv, RearmIInv, RunIInv, TakeUrlIInv, TickIInv,
   StutterIInv DEF Next, Dispatch

----------------------------------------------------------------------------
(* The theorems.                                                           *)

THEOREM SchedulerInvariant == Safety => []IInv
BY InitIInv, NextIInv, PTL DEF Safety

\* The fields of the table, the timers and the thread keep their types, and no
\* site holds more urls than schedulerMaxUrlTableSize.
THEOREM TypeCorrect == Safety => []TypeOK
BY SchedulerInvariant, PTL DEF IInv

\* link_table.cpp:53-81 with 28-51: no empty site or ip is ever left where
\* select could find it.
THEOREM NeverEmpty == Safety => []NoEmptyContext
BY SchedulerInvariant, PTL DEF IInv, TableInv

\* link_table.cpp:83-100: a context is found under its own ip, and holds nothing once
\* select has erased it.
THEOREM ContextsConsistent == Safety => []ContextsOK
BY SchedulerInvariant, PTL DEF IInv, TableInv

\* link_table.cpp:28-51: a url waits with its own site and ip only.
THEOREM UrlsWaitInPlace == Safety => []UrlsInPlace
BY SchedulerInvariant, PTL DEF IInv, TableInv

\* link_table.cpp:44 and 66: the counter is the number of waiting urls.
THEOREM CountIsExact == Safety => []CountExact
BY SchedulerInvariant, PTL DEF IInv

\* link_scheduler.cpp:75-94: no timer or callback uses a freed IpContext.
THEOREM NoUseAfterFree == Safety => []NoDanglingContext
BY SchedulerInvariant, PTL DEF IInv

\* link_scheduler.cpp:66-94: the rounds in which an ip is selected from begin an
\* interval apart, whatever becomes of its context in between.
THEOREM PoliteAlways == Safety => []Politeness
<1>1. IInv => Politeness
  <2> SUFFICES ASSUME IInv, NEW c \in Ctxs, timer[c] \in {0, Fired}
               PROVE  idle[ctxIp[c]] + late[ctxIp[c]] >= Interval
    BY DEF Politeness
  <2>1. idle[ctxIp[c]] \in 0 .. Interval /\ late[ctxIp[c]] \in 0 .. Interval
    BY DEF IInv, TypeOK
  <2>2. Left(timer[c]) = 0 /\ timer[c] # Off
    BY DEF Left, Fired, Off
  <2>3. Left(timer[c]) + idle[ctxIp[c]] + late[ctxIp[c]] >= Interval
    BY <2>2 DEF IInv, PoliteOK
  <2> QED
    BY <2>1, <2>2, <2>3, ConfAssumption
<1> QED
  BY <1>1, SchedulerInvariant, PTL

\* If run() has made the event base before the first url arrives, every ip
\* with waiting urls is scheduled, exactly once, at every moment.
THEOREM AlwaysScheduled == Safety => InTimeScheduled
<1> DEFINE J == IInv /\ base /\ EveryIpScheduled
<1>1. Init /\ base => J
  BY InitIInv
<1>2. J /\ [Next]_vars => J'
  <2>1. IInv /\ [Next]_vars => IInv'
    BY NextIInv
  <2>2. base /\ [Next]_vars => base'
    BY DEF Next, Dispatch, vars, AddUrl, TimeoutProcess, OnIpSchedule, PushConnectQueue, Rearm,
             Run, TakeUrl, Tick
  <2>3. J /\ [Next]_vars => EveryIpScheduled'
    BY AddUrlIInv, TimeoutProcessIInv, OnIpScheduleIInv, PushIInv, RearmIInv, TakeUrlIInv, TickIInv,
       StutterIInv DEF Next, Dispatch, Run
  <2> QED
    BY <2>1, <2>2, <2>3
<1>3. J => EveryIpScheduled
  OBVIOUS
<1> QED
  BY <1>1, <1>2, <1>3, PTL DEF Safety, InTimeScheduled

PlaceInv == IInv /\ OnePlace

LEMMA PlaceAddUrl ==
  ASSUME PlaceInv, NEW u \in Urls, AddUrl(u)
  PROVE  OnePlace'
<1>1. PICK c \in Ctxs :
        \/ urlTable' = [urlTable EXCEPT ![c][SiteOf[u]] = @ \cup {u}]
        \/ urlTable' = urlTable
  BY DEF AddUrl
<1>2. Waiting' \subseteq Waiting \cup {u}
  <2>1. urlTable \in [Ctxs -> [Sites -> SUBSET Urls]] /\ SiteOf \in [Urls -> Sites]
    BY UrlAssumption DEF PlaceInv, IInv, TypeOK
  <2>2. ASSUME NEW d \in Ctxs, NEW v \in Urls, v \in urlTable'[d][SiteOf[v]]
        PROVE  v \in urlTable[d][SiteOf[v]] \cup {u}
    BY <1>1, <2>1, <2>2
  <2> QED BY <2>2 DEF Waiting
<1>3. queue' = queue /\ hand' = hand /\ u \notin Waiting \cup Queued \cup {hand}
  BY DEF AddUrl, threadVars
<1> QED BY <1>2, <1>3 DEF PlaceInv, OnePlace, Queued

LEMMA PlaceOnIpSchedule ==
  ASSUME PlaceInv, NEW c \in Ctxs, OnIpSchedule(c)
  PROVE  OnePlace'
<1>1. PICK s \in Sites, u \in Urls :
        /\ u \in urlTable[c][s] /\ hand' = u /\ queue' = queue
        /\ urlTable' = [urlTable EXCEPT ![c][s] = @ \ {u}]
  BY DEF OnIpSchedule, OnTop, Pop, Rest
<1>2. urlTable \in [Ctxs -> [Sites -> SUBSET Urls]] /\ UrlsInPlace
  BY DEF PlaceInv, IInv, TypeOK, TableInv
<1>3. s = SiteOf[u] /\ ipTable[IpOf[u]] = c
  BY <1>1, <1>2 DEF UrlsInPlace
<1>4. u \in Waiting
  BY <1>1, <1>3 DEF Waiting
<1>5. ASSUME NEW d \in Ctxs PROVE u \notin urlTable'[d][SiteOf[u]]
  <2>1. CASE d = c
    BY <1>1, <1>2, <1>3, <2>1
  <2>2. CASE d # c
    <3>1. urlTable'[d] = urlTable[d] /\ SiteOf[u] \in Sites
      BY <1>1, <1>2, <2>2, UrlAssumption
    <3> QED BY <1>2, <1>3, <2>2, <3>1 DEF UrlsInPlace
  <2> QED BY <2>1, <2>2
<1>6. u \notin Waiting'
  BY <1>5 DEF Waiting
<1>7. Waiting' \subseteq Waiting
  BY <1>1, <1>2, UrlAssumption DEF Waiting
<1>8. Queued' = Queued
  BY <1>1 DEF Queued
<1> QED BY <1>1, <1>4, <1>6, <1>7, <1>8, UrlAssumption DEF PlaceInv, OnePlace

LEMMA PlacePush ==
  ASSUME PlaceInv, PushConnectQueue
  PROVE  OnePlace'
<1>1. /\ queue \in Seq(Urls) /\ hand \in Urls
      /\ queue' = Append(queue, hand) /\ hand' = None /\ urlTable' = urlTable
  BY DEF PushConnectQueue, tableVars, PlaceInv, IInv, TypeOK, HandOK
<1>2. Waiting' = Waiting /\ None \notin Urls
  BY <1>1, UrlAssumption DEF Waiting
<1>3. /\ Len(queue) \in Nat /\ DOMAIN queue = 1 .. Len(queue) /\ DOMAIN queue' = 1 .. Len(queue) + 1
      /\ \A i \in 1 .. Len(queue) : queue'[i] = queue[i] /\ queue[i] \in Urls
      /\ queue'[Len(queue) + 1] = hand
  BY <1>1
<1>4. ASSUME NEW i \in DOMAIN queue' PROVE \/ i \in DOMAIN queue /\ queue'[i] = queue[i] /\ queue[i] \in Queued
                                           \/ i = Len(queue) + 1 /\ queue'[i] = hand
  BY <1>3 DEF Queued
<1>5. Queued' \subseteq Queued \cup {hand}
  BY <1>4 DEF Queued
<1>6. hand \notin Waiting \cup Queued
  BY DEF PlaceInv, OnePlace
<1>7. \A i, j \in DOMAIN queue' : queue'[i] = queue'[j] => i = j
  BY <1>4, <1>6 DEF PlaceInv, OnePlace
<1>8. None \notin Queued' /\ None \notin Waiting'
  BY <1>2 DEF Queued, Waiting
<1> QED BY <1>1, <1>2, <1>5, <1>6, <1>7, <1>8 DEF PlaceInv, OnePlace

LEMMA PlaceTakeUrl ==
  ASSUME PlaceInv, TakeUrl
  PROVE  OnePlace'
<1>1. queue \in Seq(Urls) /\ queue # << >> /\ queue' = Tail(queue) /\ hand' = hand /\ urlTable' = urlTable
  BY DEF TakeUrl, tableVars, threadVars, PlaceInv, IInv, TypeOK
<1>2. Waiting' = Waiting
  BY <1>1 DEF Waiting
<1>3. /\ Len(queue) \in Nat /\ DOMAIN queue = 1 .. Len(queue) /\ DOMAIN queue' = 1 .. Len(queue) - 1
      /\ \A i \in 1 .. Len(queue) - 1 : i + 1 \in 1 .. Len(queue) /\ queue'[i] = queue[i + 1]
  BY <1>1
<1>4. Queued' \subseteq Queued
  BY <1>3 DEF Queued
<1>5. \A i, j \in DOMAIN queue' : queue'[i] = queue'[j] => i = j
  <2>1. \A i, j \in 1 .. Len(queue) : queue[i] = queue[j] => i = j
    BY <1>3 DEF PlaceInv, OnePlace
  <2> SUFFICES ASSUME NEW i \in 1 .. Len(queue) - 1, NEW j \in 1 .. Len(queue) - 1,
                      queue'[i] = queue'[j]
               PROVE  i = j
    BY <1>3
  <2>2. i + 1 = j + 1
    BY <1>3, <2>1
  <2> QED BY <1>3, <2>2
<1> QED BY <1>1, <1>2, <1>4, <1>5 DEF PlaceInv, OnePlace

\* link_table.cpp and link_scheduler.cpp: a url is waiting, selected or in the connect
\* queue, never at two of these places and never queued twice.
THEOREM OnePlaceAlways == Safety => []OnePlace
<1>1. Init => PlaceInv
  <2>1. Init => IInv
    BY InitIInv
  <2>2. Init => OnePlace
    BY UrlAssumption DEF Init, OnePlace, Waiting, Queued
  <2> QED BY <2>1, <2>2 DEF PlaceInv
<1>2. PlaceInv /\ [Next]_vars => PlaceInv'
  <2> SUFFICES ASSUME PlaceInv, [Next]_vars PROVE OnePlace'
    BY NextIInv DEF PlaceInv
  <2>1. ASSUME NEW u \in Urls, AddUrl(u) PROVE OnePlace'
    BY <2>1, PlaceAddUrl
  <2>2. ASSUME NEW c \in Ctxs, OnIpSchedule(c) PROVE OnePlace'
    BY <2>2, PlaceOnIpSchedule
  <2>3. CASE PushConnectQueue
    BY <2>3, PlacePush
  <2>4. CASE TakeUrl
    BY <2>4, PlaceTakeUrl
  <2>5. CASE TimeoutProcess \/ Rearm \/ Run \/ Tick \/ UNCHANGED vars
    <3>1. urlTable' = urlTable /\ queue' = queue /\ hand' = hand
      BY <2>5 DEF TimeoutProcess, Rearm, Run, Tick, vars, tableVars, threadVars
    <3> QED BY <3>1 DEF PlaceInv, OnePlace, Waiting, Queued
  <2> QED BY <2>1, <2>2, <2>3, <2>4, <2>5 DEF Next, Dispatch
<1>3. PlaceInv => OnePlace
  BY DEF PlaceInv
<1> QED BY <1>1, <1>2, <1>3, PTL DEF Safety
==============================================================================
