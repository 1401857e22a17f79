---------------------------- MODULE MCExperiments ----------------------------
(* Small instances of Experiments for TLC. *)
EXTENDS Experiments, TLC

CONSTANTS e1, e2, k1, k2

\* Equal and unequal percentages, one variant without traffic, and a list that
\* does not add up.
MCSplits == {<< 50, 50 >>, << 1, 98, 1 >>, << 0, 100 >>, << 50, 49 >>}

\* Digests at both ends of the range of buckets and on the boundary of halves.
MCHash32 ==
    << k1, e1 >> :> 1999999999 @@
    << k2, e1 >> :> 98 @@
    << k1, e2 >> :> 149 @@
    << k2, e2 >> :> 50
==============================================================================
