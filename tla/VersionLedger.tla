---------------------------- MODULE VersionLedger ----------------------------
(***************************************************************************)
(* What the template store promises to the clients of the prompt service,  *)
(* without saying how: every template has at most one current edition, a   *)
(* (version, hash) pair; every edition that was ever current is attested   *)
(* for good, so a client holding it can have it verified at any later      *)
(* time; and a retired template is never put back in service.  Nothing is  *)
(* promised about the order of versions: concurrent administrators can     *)
(* make it go down (see the README).                                       *)
(***************************************************************************)
EXTENDS Naturals

CONSTANTS
    Templates,   \* template names
    Hashes,      \* SHA-256 digests of template texts
    None         \* "this template has no edition yet"

VARIABLES
    current,     \* template -> its current edition, or None
    attested,    \* the <<template, edition>> pairs that can be verified
    retired      \* templates withdrawn from service

ledgerVars == << current, attested, retired >>

Edition == [version: Nat \ {0}, hash: Hashes]

\* Editions may have been published and templates retired before.
LedgerInit ==
    /\ current \in [Templates -> Edition \cup {None}]
    /\ attested \subseteq Templates \X Edition
    /\ \A t \in Templates : current[t] # None => << t, current[t] >> \in attested
    /\ retired \subseteq {t \in Templates : current[t] # None}

\* An edition becomes current in the very step that attests it.
Publish(t) ==
    /\ current'[t] \in Edition
    /\ current' = [current EXCEPT ![t] = current'[t]]
    /\ attested' = attested \cup {<<t, current'[t]>>}
    /\ UNCHANGED retired

Retire(t) ==
    /\ current[t] # None
    /\ retired' = retired \cup {t}
    /\ UNCHANGED << current, attested >>

LedgerNext == \E t \in Templates : Publish(t) \/ Retire(t)

LedgerSpec == LedgerInit /\ [][LedgerNext]_ledgerVars
==============================================================================
