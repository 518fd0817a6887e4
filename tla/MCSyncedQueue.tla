---------------------------- MODULE MCSyncedQueue ----------------------------
(* Instances of SyncedQueue for TLC: two producers that wait for room, one   *)
(* at each end, and two consumers, one at each end.                          *)
EXTENDS SyncedQueue

CONSTANTS sched, rpc, c1, c2

MCProducers == {sched, rpc}
MCFront     == {rpc}
MCConsumers == {c1, c2}
MCBack      == {c2}
==============================================================================
