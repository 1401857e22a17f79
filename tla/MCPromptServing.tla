--------------------------- MODULE MCPromptServing ---------------------------
(* Small instances of PromptServing for TLC. *)
EXTENDS PromptServing, FiniteSets, TLC

CONSTANTS t1, t2

MCHash == [x \in Texts |-> << "sha256", x >>]
MCHashes == {MCHash[x] : x \in Texts}

\* Texts are interchangeable, each with its digest.
TextSymmetry == Permutations(Texts)

Composed(name, fallback, auxiliary, auxFallback) ==
    [kind |-> "compose", name |-> name, fallback |-> fallback,
     auxiliary |-> auxiliary, auxFallback |-> auxFallback]
Raw(name) == [kind |-> "raw", name |-> name, fallback |-> None,
              auxiliary |-> None, auxFallback |-> None]

\* A document analysis falls back itself and a structural analysis in its
\* auxiliary; the one composition here does both.  Next to it, a raw template.
MCEndpoints == {Composed(t1, t2, t2, t1), Raw(t1)}

\* Bounds: beyond three history entries nothing is explored, nor edits of the
\* template that is asked for by no name, nor experiments on it.
Focus ==
    /\ Cardinality(history) <= 3
    /\ \A h \in history : h.template = t2 => h.version = 1
    /\ \A e \in Names :
          experiment[e] # None => experiment[e].template = t1

MCSplits == {<< 60, 40 >>}

\* The key falls into the first bucket of the second variant.
MCHash32 == [p \in ApiKeys \X Names |-> 60]
==============================================================================
