----------------------------- MODULE MCLThread ------------------------------
(* Instances of LThread for TLC.                                             *)
EXTENDS LThread

CONSTANTS owner, stopper, w1, w2

MCWaiters      == {w1, w2}
MCTimedWaiters == {w2}
==============================================================================
