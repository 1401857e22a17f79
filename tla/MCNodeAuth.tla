------------------------------ MODULE MCNodeAuth -----------------------------
(* A small instance of NodeAuth for TLC. *)
EXTENDS NodeAuth, TLC

\* Bound: beyond four entries in the audit logs nothing is explored.
Logged(n) == audit[n]["registered"] + audit[n]["certified"]
                 + audit[n]["decertified"] + audit[n]["recertified"]
                 + audit[n]["key_rotated"]

FewEntries == \A m, n \in Nodes : m # n => Logged(m) + Logged(n) <= 4

Symmetry == Permutations(Nodes)
==============================================================================
