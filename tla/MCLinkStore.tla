----------------------------- MODULE MCLinkStore -----------------------------
(* Instances of LinkStore for TLC: a seed h whose page links to a and b, and   *)
(* a, whose page links back to b.                                              *)
EXTENDS LinkStore, TLC

CONSTANTS h, a, b

MCUrls  == {h, a, b}
MCSeeds == {h}
MCLinks == h :> {a, b} @@ a :> {b} @@ b :> {}

MCRow(depth, isHub) ==
  [crawlstate |-> "NEW", crawlretry |-> 0, linkdepth |-> depth, hub |-> isHub]

\* The seed is in the table, as a hub, or only another link is.
MCHub     == h :> MCRow(0, TRUE)
MCOneLink == a :> MCRow(0, FALSE)

\* A smaller world: a seed and one link that links back.
MCPair      == {h, a}
MCPairLinks == h :> {a} @@ a :> {h}

MCTables     == {MCHub, MCOneLink}
MCHubTable   == {MCHub}
==============================================================================
