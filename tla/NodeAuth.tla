------------------------------ MODULE NodeAuth -------------------------------
(***************************************************************************)
(* The authentication of nodes (src/src/auth/api-key.guard.ts) beside the  *)
(* admin operations of the registry.                                       *)
(*                                                                         *)
(* A Bearer request is decided by one query on the nodes table.  An HMAC   *)
(* request takes two steps: the node's row is read and checked, and then   *)
(* its secret is fetched from the Vault, where a rotation or a deletion    *)
(* may have removed it meanwhile.  Keys of regions, which are loaded at    *)
(* boot and never meet the registry, are left out.                         *)
(***************************************************************************)
EXTENDS NodeRegistry

CONSTANTS
    Callers,        \* requests of nodes that can be in progress at a time
    Refused,        \* the answer 401
    Nobody,         \* in place of a digest: the node may not authenticate
    HmacTolerance   \* HMAC_TIMESTAMP_TOLERANCE_SECONDS

ASSUME AuthAssumption ==
    /\ HmacTolerance \in Nat
    /\ Refused \notin Nodes
    /\ Nobody \notin KeyHashes

VARIABLE auth       \* caller -> where its request is

authVars == << node, audit, vault, req, nextKey, now, retired, auth >>

(* A request names the nodes it may be: all of them for a Bearer token, the *)
(* one of its key id for an HMAC signature, none if its timestamp is off.   *)
Quiet == [at |-> "quiet"]
Fetching == [at: {"fetch"}, node: Nodes, key: Keys, secret: SecretIds]
Answers == [at: {"answered"}, claims: SUBSET Nodes, digest: KeyHashes,
            verdict: Nodes \cup {Refused}]

AuthTypeOK == auth \in [Callers -> Fetching \cup Answers \cup {Quiet}]

AuthInit == RegistryInit /\ auth = [c \in Callers |-> Quiet]

\* status is 'certified' and the certificate has not expired.
Certified(n) ==
    /\ Exists(n)
    /\ node[n].status = "certified"
    /\ node[n].certificationExpiresAt # None
    /\ node[n].certificationExpiresAt > now

Answer(c, claims, digest, verdict) ==
    auth' = [auth EXCEPT ![c] = [at |-> "answered", claims |-> claims,
                                 digest |-> digest, verdict |-> verdict]]

\* prisma.node.findFirst on digest, status and expiry.
Holders(k) == {n \in Nodes : Certified(n) /\ node[n].apiKeyHash = HashOf(k)}

\* canActivate with a Bearer token that is no region's key.
Bearer(c, k) ==
    /\ auth[c].at # "fetch"
    /\ \E verdict \in IF Holders(k) = {} THEN {Refused} ELSE Holders(k) :
           Answer(c, Nodes, HashOf(k), verdict)
    /\ UNCHANGED registryVars

\* A timestamp is accepted on both sides of the clock.
Timely(signed) == signed - HmacTolerance <= now /\ now <= signed + HmacTolerance

\* validateHmac up to its read of the row.  Missing headers and a timestamp
\* that is no number or out of tolerance are refused before it.
HmacUntimely(c, k, signed) ==
    /\ auth[c].at # "fetch"
    /\ ~Timely(signed)
    /\ Answer(c, {}, HashOf(k), Refused)
    /\ UNCHANGED registryVars

\* Mistake: the status is not looked at.
HmacReadAny(c, n, k, signed) ==
    /\ auth[c].at # "fetch"
    /\ Timely(signed)
    /\ IF Exists(n) /\ node[n].apiKeySecretId # None
       THEN auth' = [auth EXCEPT ![c] =
                       [at |-> "fetch", node |-> n, key |-> k,
                        secret |-> node[n].apiKeySecretId]]
       ELSE Answer(c, {n}, HashOf(k), Refused)
    /\ UNCHANGED registryVars

HmacRead(c, n, k, signed) ==
    /\ auth[c].at # "fetch"
    /\ Timely(signed)
    /\ IF Certified(n) /\ node[n].apiKeySecretId # None
       THEN auth' = [auth EXCEPT ![c] =
                       [at |-> "fetch", node |-> n, key |-> k,
                        secret |-> node[n].apiKeySecretId]]
       ELSE Answer(c, {n}, HashOf(k), Refused)
    /\ UNCHANGED registryVars

\* verifyHmacSignature: a signature over the canonical or the legacy form of
\* the path verifies if it was made with the key the secret holds.
Verifies(secret, k) == secret = SecretOf(k)

\* The call to the Vault may fail: "Failed to retrieve node key".
Failure == IF Reliable THEN {} ELSE {Refused}

\* validateHmac from vault.getSecret on; the row is not read again.
HmacFetch(c) ==
    /\ auth[c].at = "fetch"
    /\ \E verdict \in
           Failure \cup {IF /\ auth[c].secret \in vault
                           /\ Verifies(auth[c].secret, auth[c].key)
                        THEN auth[c].node ELSE Refused} :
           Answer(c, {auth[c].node}, HashOf(auth[c].key), verdict)
    /\ UNCHANGED registryVars

AuthStep(c) ==
    \/ \E k \in Keys : Bearer(c, k)
    \/ \E k \in Keys, signed \in 0 .. MaxTime : HmacUntimely(c, k, signed)
    \/ \E n \in Nodes, k \in Keys, signed \in 0 .. MaxTime :
           HmacRead(c, n, k, signed)
    \/ HmacFetch(c)

AuthNext ==
    \/ RegistryNext /\ UNCHANGED auth
    \/ \E c \in Callers : AuthStep(c)

AuthSpec == AuthInit /\ [][AuthNext]_authVars

------------------------------------------------------------------------------
(* Properties *)

\* A registration that has not returned yet.
BeingRegistered(n) ==
    \E a \in Admins : /\ req[a].op \in {"registerVault", "registerLink"}
                      /\ req[a].node = n

\* Without failures, a node may use both ways as soon as its registration has
\* returned and for as long as it exists: its row always refers to a secret
\* ("Node has no HMAC key configured" is never the answer), which is in the
\* Vault and holds the key whose digest a Bearer token is compared with.
BothWaysOpen ==
    Reliable =>
        \A n \in Nodes :
            Exists(n) /\ ~BeingRegistered(n) =>
                \E k \in Keys :
                    /\ node[n].apiKeyHash = HashOf(k)
                    /\ node[n].apiKeySecretId = SecretOf(k)
                    /\ SecretOf(k) \in vault

(* The credentials a client relies on, of these tables and requests.  What  *)
(* the secret was to verify is what was right when the row was read.        *)
Credential(n) == IF Certified(n) THEN node[n].apiKeyHash ELSE Nobody

CallOf(c) ==
    IF auth[c].at = "fetch"
    THEN [at |-> "open", claims |-> {auth[c].node},
          digest |-> HashOf(auth[c].key),
          seen |-> IF Verifies(auth[c].secret, auth[c].key)
                   THEN {auth[c].node} ELSE {Refused}]
    ELSE auth[c]

Credentials == INSTANCE NodeCredentials WITH
    Digests <- KeyHashes,
    Faultless <- Reliable,
    current <- [n \in Nodes |-> Credential(n)],
    dead <- retired,
    call <- [c \in Callers |-> CallOf(c)]

\* Both ways of authenticating answer what was right when the request came in
\* or is right when it is answered, though a request reads the row and the
\* Vault at different moments: a node with a valid key is refused only if a
\* rotation, a deletion, a decertification or the expiry overtook the request,
\* and a key that was replaced before it began is never accepted.
ImplementsCredentials == Credentials!CredentialSpec

------------------------------------------------------------------------------
(* What makes the properties inductive *)

\* Without failures, only a row whose registration has not returned is without
\* a secret; and such a row is pending, so that nobody signs for it.
Linked ==
    Reliable =>
        \A n \in Nodes :
            Exists(n) /\ ~BeingRegistered(n) => node[n].apiKeySecretId # None

PendingUntilLinked ==
    \A n \in Nodes : BeingRegistered(n) => node[n].status = "pending"

AuthInv == KeyInv /\ AuthTypeOK /\ Linked /\ PendingUntilLinked
==============================================================================
