--------------------------- MODULE MCLinkScheduler ---------------------------
(* Instances of LinkScheduler for TLC.  Two ips; the first serves two sites, *)
(* one of them with a deep and a shallow url, so that a context outlives a   *)
(* selection, a site outlives one, and the other ip comes and goes.          *)
EXTENDS LinkScheduler

CONSTANTS ip1, ip2, home, page, leaf, other, moved, x1, x2

\* Site 1 has three urls on ip1, one more than its table holds, and a fourth
\* that resolved to ip2; site 2 shares ip1.
MCUrls  == {home, page, leaf, other, moved}
MCIps   == {ip1, ip2}
MCSites == {1, 2}
MCCtxs  == {x1, x2}
MCSiteOf   == [u \in Urls |-> IF u = other THEN 2 ELSE 1]
MCIpOf     == [u \in Urls |-> IF u = moved THEN ip2 ELSE ip1]
MCDepthOf  == [u \in Urls |-> IF u = home THEN 0 ELSE 1]
==============================================================================
