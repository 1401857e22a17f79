-------------------------- MODULE MCTemplateSeeding --------------------------
(* Small instances of TemplateSeeding for TLC. *)
EXTENDS TemplateSeeding, TLC

CONSTANTS a1, a2, r1, r2, r3, t1, t2, t3, x1, x2, x3, vs1

AllHashes == x1 :> "h1" @@ x2 :> "h2" @@ x3 :> "h3"
MCHash == [x \in Texts |-> AllHashes[x]]
MCHashes == {"h1", "h2", "h3"}

SeedOf(text, version) == [text |-> text, variables |-> vs1, version |-> version]

\* r1 runs the first release: t1 and t2, never revised, without a version.
\* r2 and r3 replace it.  In r2's release t1 has its first revision, under the
\* explicit version 2, and t2 is dropped and retired; r3's takes t1 back, the
\* way seed.ts describes a rollback: `version: 1' and the first text.
Releases ==
    r1 :> (t1 :> SeedOf(x1, Keep) @@ t2 :> SeedOf(x1, Keep)) @@
    r2 :> (t1 :> SeedOf(x2, 2)) @@
    r3 :> (t1 :> SeedOf(x1, 1))
PromotedByNewer == r1 :> {} @@ r2 :> {t2} @@ r3 :> {t2}
NewerReplaceFirst == r1 :> {} @@ r2 :> {r1} @@ r3 :> {r1}

\* One release on every replica.
ReleaseOnly == [r \in Replicas |-> t1 :> SeedOf(x1, Keep)]
PromotedNone == [r \in Replicas |-> {}]
ReplacesNone == [r \in Replicas |-> {}]

\* One administrator works on the first release, one on its successor r2.
MCHost == a1 :> r1 @@ a2 :> r2
HostOnly == a1 :> r1
==============================================================================
