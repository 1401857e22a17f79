--------------------------- MODULE NodeCredentials ---------------------------
(***************************************************************************)
(* What the authentication of nodes promises                               *)
(* (src/src/auth/api-key.guard.ts, docs/api-reference.md): a request is    *)
(* answered with the node whose credential it presents, or refused, and    *)
(* the answer is right at the moment the request comes in or at the moment *)
(* it is answered.  Nothing is said of tables, secrets or how a request is *)
(* checked.                                                                *)
(*                                                                         *)
(* A credential is the digest of a key.  It belongs to one node; once it   *)
(* was replaced it is dead and no node's credential ever again.            *)
(***************************************************************************)
CONSTANTS
    Nodes,
    Digests,
    Callers,     \* requests that can be in progress at the same time
    Nobody,      \* in place of a credential: the node may not authenticate
    Refused,     \* the answer that names no node
    Faultless    \* no request is refused for a failure of the service

VARIABLES
    current,     \* node -> the credential that authenticates it, or Nobody
    dead,        \* credentials that were replaced
    call         \* caller -> where its request is

credentialVars == << current, dead, call >>

Quiet == [at |-> "quiet"]

\* A request presents a digest for one of some nodes: the one it names, all
\* of them if it names none, and none if it is out of its time.
Sound(cur, gone) ==
    /\ cur \in [Nodes -> (Digests \ gone) \cup {Nobody}]
    /\ \A m, n \in Nodes : cur[m] = cur[n] /\ cur[m] # Nobody => m = n

Entitled(claims, digest) == {n \in claims : current[n] = digest}

Truth(claims, digest) ==
    IF Entitled(claims, digest) = {} THEN {Refused} ELSE Entitled(claims, digest)

Allowed == IF Faultless THEN {} ELSE {Refused}

Open(claims, digest, seen) ==
    [at |-> "open", claims |-> claims, digest |-> digest, seen |-> seen]

Answered(claims, digest, verdict) ==
    [at |-> "answered", claims |-> claims, digest |-> digest,
     verdict |-> verdict]

Init ==
    /\ dead \in SUBSET Digests
    /\ Sound(current, dead)
    /\ call = [c \in Callers |-> Quiet]

\* Nodes are registered, certified, decertified, rotated, deleted, or expire.
Change ==
    /\ UNCHANGED call
    /\ dead' \in SUBSET Digests
    /\ dead \subseteq dead'
    /\ Sound(current', dead')

Begin(c, claims, digest) ==
    /\ UNCHANGED << current, dead >>
    /\ call' = [call EXCEPT ![c] = Open(claims, digest, Truth(claims, digest))]

Settle(c) ==
    /\ call[c].at = "open"
    /\ \E verdict \in call[c].seen \cup Allowed
                        \cup Truth(call[c].claims, call[c].digest) :
           call' = [call EXCEPT ![c] =
                      Answered(call[c].claims, call[c].digest, verdict)]
    /\ UNCHANGED << current, dead >>

\* A request that is answered in the step in which it comes in.
LookUp(c, claims, digest) ==
    /\ UNCHANGED << current, dead >>
    /\ \E verdict \in Truth(claims, digest) \cup Allowed :
           call' = [call EXCEPT ![c] = Answered(claims, digest, verdict)]

CallStep(c) ==
    \/ /\ call[c].at # "open"
       /\ \E claims \in SUBSET Nodes, digest \in Digests :
              Begin(c, claims, digest) \/ LookUp(c, claims, digest)
    \/ Settle(c)

Next == Change \/ \E c \in Callers : CallStep(c)

CredentialSpec == Init /\ [][Next]_credentialVars
==============================================================================
