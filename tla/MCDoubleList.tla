---------------------------- MODULE MCDoubleList ----------------------------
(* Instances of DoubleList for TLC: elements some of which share a key.       *)
EXTENDS DoubleList
CONSTANTS e1, e2, e3, e4, e5, k1, k2, k3

MCKey == [e \in {e1, e2, e3, e4, e5} |-> CASE e \in {e1, e2} -> k1 [] e \in {e3, e4} -> k2 [] e = e5 -> k3]
=============================================================================
