--------------------------- MODULE MCHttpProcessor ---------------------------
(* Instances of HttpProcessor for TLC.                                       *)
EXTENDS HttpProcessor

CONSTANTS u1, u2, u3

MCThree == {u1, u2, u3}
==============================================================================
