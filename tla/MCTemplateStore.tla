--------------------------- MODULE MCTemplateStore ---------------------------
(* Small instances of TemplateStore for TLC. *)
EXTENDS TemplateStore, TLC

CONSTANTS a1, a2, x1, x2

MCHash == (x1 :> "h1") @@ (x2 :> "h2")
MCHashes == {"h1", "h2"}

\* Requests, and texts (renamed together with their digests), are
\* interchangeable; only the requests are used for symmetry.
AdminSymmetry == Permutations(Admins)
==============================================================================
