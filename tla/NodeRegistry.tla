---------------------------- MODULE NodeRegistry -----------------------------
(***************************************************************************)
(* The node registry: the nodes table with its audit log, the Vault that   *)
(* keeps the plaintext keys, and the admin operations on both              *)
(* (src/src/admin/node-registry.service.ts, src/src/common/vault.service.ts).*)
(*                                                                         *)
(* The database and the Vault are changed by separate calls, so a request  *)
(* that needs both can stop between them; any number of admin requests     *)
(* overlap.  A database transaction's writes appear in one step, its       *)
(* commit, and what it read before may have changed by then.               *)
(*                                                                         *)
(* API keys are random and never repeat: they are numbered in the order in *)
(* which they are generated.  A key is put into the Vault at most once, so *)
(* the number also tells its digest and the id of its secret apart.        *)
(***************************************************************************)
EXTENDS Integers

CONSTANTS
    Nodes,        \* ids a registration can get
    Regions,
    Admins,       \* admin requests that can be in progress at the same time
    Durations,    \* validity periods a certification can ask for
    EarlyActions, \* may a node be acted upon before its registration returned?
    Reliable,     \* do database, Vault and process work without failures?
    Unborn,       \* the id is not in use yet
    Deleted,      \* the row was deleted; ids are never used again
    None,         \* a null column
    MaxKeys,      \* bound: keys generated in a behaviour
    MaxTime,      \* bound: the last instant
    MaxAudit      \* bound: entries of one status in a node's audit log

Keys == 1 .. MaxKeys

\* apiKeyHash and apiKeySecretId of a key.
HashOf(k) == << "sha256", k >>
SecretOf(k) == << "secret", k >>

KeyHashes == {HashOf(k) : k \in Keys}
SecretIds == {SecretOf(k) : k \in Keys}

Row == [status: {"pending", "certified", "decertified"},
        apiKeyHash: KeyHashes,
        apiKeySecretId: SecretIds \cup {None},
        certificationExpiresAt: Nat \cup {None},
        decertifiedAt: Nat \cup {None},
        region: Regions]

AuditAction == {"registered", "certified", "decertified", "recertified",
                "key_rotated"}

ASSUME RegistryAssumption ==
    /\ Durations \subseteq Nat \ {0}
    /\ EarlyActions \in BOOLEAN
    /\ Reliable \in BOOLEAN
    /\ MaxKeys \in Nat
    /\ MaxTime \in Nat
    /\ MaxAudit \in Nat
    /\ Unborn # Deleted
    /\ {Unborn, Deleted} \cap Row = {}
    /\ None \notin SecretIds
    /\ None \notin Nat

VARIABLES
    node,       \* the nodes table: id -> row, Unborn or Deleted
    audit,      \* the node_audit_logs table: id -> entries of each action
    vault,      \* ids of the secrets that are in the Vault
    req,        \* where each admin request is
    nextKey,    \* the next key to be generated
    now,        \* the clock
    retired     \* digests that a rotation or a deletion replaced (history)

registryVars == << node, audit, vault, req, nextKey, now, retired >>

------------------------------------------------------------------------------
(* The steps of a request that changes both stores *)

Idle == [op |-> "idle"]

\* registerNode after its transaction: the secret is still to be created,
\* then its id is still to be put into the row.
Registering == [op: {"registerVault", "registerLink"}, node: Nodes, key: Keys]

\* certifyNode after it read the row.
Certifying == [op: {"certify"}, node: Nodes]

\* rotateApiKey after its first read, after the Vault call, after the commit.
RotateStart == [op: {"rotateVault"}, node: Nodes, old: SecretIds \cup {None}]
RotateReady == [op: {"rotateCommit"}, node: Nodes,
                old: SecretIds \cup {None}, key: Keys]

\* rotateApiKey and deleteNode before the old secret is removed; deleteNode
\* before its commit.
Cleaning == [op: {"cleanup"}, node: Nodes, old: SecretIds]
Deleting == [op: {"delete"}, node: Nodes, old: SecretIds \cup {None}]

Requests == Registering \cup Certifying \cup RotateStart \cup RotateReady
              \cup Cleaning \cup Deleting \cup {Idle}

TypeOK ==
    /\ node \in [Nodes -> Row \cup {Unborn, Deleted}]
    /\ audit \in [Nodes -> [AuditAction -> Nat]]
    /\ vault \subseteq SecretIds
    /\ req \in [Admins -> Requests]
    /\ nextKey \in 1 .. (MaxKeys + 1)
    /\ now \in Nat
    /\ retired \subseteq KeyHashes

Exists(n) == node[n] \notin {Unborn, Deleted}

\* An administrator learns a node's id from the answer to its registration or
\* from the list of nodes, which shows the row as soon as it is committed.
Known(n) ==
    \/ EarlyActions
    \/ \A a \in Admins :
          req[a].op \in {"registerVault", "registerLink"} => req[a].node # n

\* The log has no order of its own: entries carry the time at which their
\* transactions created them, which need not be the order of the commits.
NoEntries == [action \in AuditAction |-> 0]

Record(n, action) == audit' = [audit EXCEPT ![n][action] = @ + 1]

Proceed(a, state) == req' = [req EXCEPT ![a] = state]

\* Mistakes: the old secret is removed though there is none, or never removed.
CleanUpAlways(a, n, old) ==
    Proceed(a, [op |-> "cleanup", node |-> n, old |-> old])
FinishOnly(a, n, old) == Proceed(a, Idle)

\* After a commit, the old secret is removed if there is one.
CleanUpOrFinish(a, n, old) ==
    Proceed(a, IF old = None THEN Idle
               ELSE [op |-> "cleanup", node |-> n, old |-> old])

------------------------------------------------------------------------------
RegistryInit ==
    /\ node = [n \in Nodes |-> Unborn]
    /\ audit = [n \in Nodes |-> NoEntries]
    /\ vault = {}
    /\ req = [a \in Admins |-> Idle]
    /\ nextKey = 1
    /\ now = 0
    /\ retired = {}

\* registerNode, its transaction.
RegisterNode(a, n, region) ==
    /\ req[a] = Idle
    /\ node[n] = Unborn
    /\ nextKey <= MaxKeys
    /\ nextKey' = nextKey + 1
    /\ node' = [node EXCEPT ![n] =
                  [status |-> "pending", apiKeyHash |-> HashOf(nextKey),
                   apiKeySecretId |-> None, certificationExpiresAt |-> None,
                   decertifiedAt |-> None, region |-> region]]
    /\ Record(n, "registered")
    /\ Proceed(a, [op |-> "registerVault", node |-> n, key |-> nextKey])
    /\ UNCHANGED << vault, now, retired >>

\* Mistake: the id of a secret that could not be created is used all the same.
RegisterVaultLost(a) ==
    /\ req[a].op = "registerVault"
    /\ req' = [req EXCEPT ![a].op = "registerLink"]
    /\ UNCHANGED << node, audit, vault, nextKey, now, retired >>

\* registerNode, vault.createSecret.
RegisterVault(a) ==
    /\ req[a].op = "registerVault"
    /\ vault' = vault \cup {SecretOf(req[a].key)}
    /\ req' = [req EXCEPT ![a].op = "registerLink"]
    /\ UNCHANGED << node, audit, nextKey, now, retired >>

\* registerNode, node.update: an error, such as a row that is gone by now, is
\* caught and logged, and the request succeeds all the same.
RegisterLink(a) ==
    /\ req[a].op = "registerLink"
    /\ LET n == req[a].node
       IN  node' = IF Exists(n)
                   THEN [node EXCEPT ![n].apiKeySecretId = SecretOf(req[a].key)]
                   ELSE node
    /\ Proceed(a, Idle)
    /\ UNCHANGED << audit, vault, nextKey, now, retired >>

\* updateNode: the name and the public key play no part in what follows.
UpdateNode(a, n, region) ==
    /\ req[a] = Idle
    /\ Exists(n) /\ Known(n)
    /\ node' = [node EXCEPT ![n].region = region]
    /\ UNCHANGED << audit, vault, req, nextKey, now, retired >>

\* Mistake: the status is not looked at.
CertifyReadAny(a, n) ==
    /\ req[a] = Idle
    /\ Exists(n) /\ Known(n)
    /\ Proceed(a, [op |-> "certify", node |-> n])
    /\ UNCHANGED << node, audit, vault, nextKey, now, retired >>

\* certifyNode, its read: a decertified node is refused.
CertifyRead(a, n) ==
    /\ req[a] = Idle
    /\ Exists(n) /\ Known(n)
    /\ node[n].status # "decertified"
    /\ Proceed(a, [op |-> "certify", node |-> n])
    /\ UNCHANGED << node, audit, vault, nextKey, now, retired >>

\* certifyNode, its commit; it writes neither decertifiedAt nor a condition on
\* the status.
CertifyCommit(a, days) ==
    /\ req[a].op = "certify"
    /\ LET n == req[a].node
       IN  /\ Exists(n)
           /\ audit[n]["certified"] < MaxAudit
           /\ node' = [node EXCEPT ![n] =
                         [@ EXCEPT !.status = "certified",
                                   !.certificationExpiresAt = now + days]]
           /\ Record(n, "certified")
    /\ Proceed(a, Idle)
    /\ UNCHANGED << vault, nextKey, now, retired >>

\* decertifyNode and recertifyNode read only whether the row exists, which the
\* update then needs again: read and commit are one step.
DecertifyNode(a, n) ==
    /\ req[a] = Idle
    /\ Exists(n) /\ Known(n)
    /\ audit[n]["decertified"] < MaxAudit
    /\ node' = [node EXCEPT ![n] =
                  [@ EXCEPT !.status = "decertified", !.decertifiedAt = now]]
    /\ Record(n, "decertified")
    /\ UNCHANGED << vault, req, nextKey, now, retired >>

RecertifyNode(a, n, days) ==
    /\ req[a] = Idle
    /\ Exists(n) /\ Known(n)
    /\ audit[n]["recertified"] < MaxAudit
    /\ node' = [node EXCEPT ![n] =
                  [@ EXCEPT !.status = "certified",
                            !.certificationExpiresAt = now + days,
                            !.decertifiedAt = None]]
    /\ Record(n, "recertified")
    /\ UNCHANGED << vault, req, nextKey, now, retired >>

\* rotateApiKey, its read, outside of any transaction: the secret to be
\* removed at the end is fixed here.
RotateRead(a, n) ==
    /\ req[a] = Idle
    /\ Exists(n) /\ Known(n)
    /\ Proceed(a, [op |-> "rotateVault", node |-> n,
                   old |-> node[n].apiKeySecretId])
    /\ UNCHANGED << node, audit, vault, nextKey, now, retired >>

\* rotateApiKey, vault.createSecret for the new key.
RotateVault(a) ==
    /\ req[a].op = "rotateVault"
    /\ nextKey <= MaxKeys
    /\ nextKey' = nextKey + 1
    /\ vault' = vault \cup {SecretOf(nextKey)}
    /\ Proceed(a, [op |-> "rotateCommit", node |-> req[a].node,
                   old |-> req[a].old, key |-> nextKey])
    /\ UNCHANGED << node, audit, now, retired >>

\* Mistake (issue #59): the digest of the new key without its secret.
RotateCommitHashOnly(a) ==
    /\ req[a].op = "rotateCommit"
    /\ LET n == req[a].node
       IN  /\ Exists(n)
           /\ node' = [node EXCEPT ![n].apiKeyHash = HashOf(req[a].key)]
           /\ Record(n, "key_rotated")
           /\ retired' = retired \cup {node[n].apiKeyHash}
           /\ Proceed(a, Idle)
    /\ UNCHANGED << vault, nextKey, now >>

\* rotateApiKey, its transaction: both columns and the log entry.
RotateCommit(a) ==
    /\ req[a].op = "rotateCommit"
    /\ LET n == req[a].node
           k == req[a].key
       IN  /\ Exists(n)
           /\ node' = [node EXCEPT ![n] =
                         [@ EXCEPT !.apiKeyHash = HashOf(k),
                                   !.apiKeySecretId = SecretOf(k)]]
           /\ Record(n, "key_rotated")
           /\ retired' = retired \cup {node[n].apiKeyHash}
           /\ CleanUpOrFinish(a, n, req[a].old)
    /\ UNCHANGED << vault, nextKey, now >>

\* deleteNode, its read and its commit; the log goes with the row.
DeleteRead(a, n) ==
    /\ req[a] = Idle
    /\ Exists(n) /\ Known(n)
    /\ Proceed(a, [op |-> "delete", node |-> n,
                   old |-> node[n].apiKeySecretId])
    /\ UNCHANGED << node, audit, vault, nextKey, now, retired >>

DeleteCommit(a) ==
    /\ req[a].op = "delete"
    /\ LET n == req[a].node
       IN  /\ Exists(n)
           /\ node' = [node EXCEPT ![n] = Deleted]
           /\ audit' = [audit EXCEPT ![n] = NoEntries]
           /\ retired' = retired \cup {node[n].apiKeyHash}
           /\ CleanUpOrFinish(a, n, req[a].old)
    /\ UNCHANGED << vault, nextKey, now >>

\* vault.deleteSecret at the end of a rotation or a deletion.
CleanUp(a) ==
    /\ req[a].op = "cleanup"
    /\ vault' = vault \ {req[a].old}
    /\ Proceed(a, Idle)
    /\ UNCHANGED << node, audit, nextKey, now, retired >>

\* A request finds its row gone at its commit and fails.
RowGone(a) ==
    /\ req[a].op \in {"certify", "rotateCommit", "delete"}
    /\ ~Exists(req[a].node)
    /\ Proceed(a, Idle)
    /\ UNCHANGED << node, audit, vault, nextKey, now, retired >>

\* A call to the database or the Vault fails, or the process stops, before the
\* request's next step.  rotateApiKey and certifyNode fail with it; the last
\* steps of registerNode, rotateApiKey and deleteNode are only logged.
Fail(a) ==
    /\ ~Reliable
    /\ req[a] # Idle
    /\ Proceed(a, Idle)
    /\ UNCHANGED << node, audit, vault, nextKey, now, retired >>

Tick ==
    /\ now < MaxTime
    /\ now' = now + 1
    /\ UNCHANGED << node, audit, vault, req, nextKey, retired >>

AdminStep(a) ==
    \/ \E n \in Nodes, region \in Regions : RegisterNode(a, n, region)
    \/ RegisterVault(a)
    \/ RegisterLink(a)
    \/ \E n \in Nodes, region \in Regions : UpdateNode(a, n, region)
    \/ \E n \in Nodes : CertifyRead(a, n)
    \/ \E days \in Durations : CertifyCommit(a, days)
    \/ \E n \in Nodes : DecertifyNode(a, n)
    \/ \E n \in Nodes, days \in Durations : RecertifyNode(a, n, days)
    \/ \E n \in Nodes : RotateRead(a, n)
    \/ RotateVault(a)
    \/ RotateCommit(a)
    \/ \E n \in Nodes : DeleteRead(a, n)
    \/ DeleteCommit(a)
    \/ CleanUp(a)
    \/ RowGone(a)
    \/ Fail(a)

RegistryNext == Tick \/ \E a \in Admins : AdminStep(a)

RegistrySpec == RegistryInit /\ [][RegistryNext]_registryVars

------------------------------------------------------------------------------
(* Properties *)

\* The secret a row refers to is in the Vault, whatever rotations, deletions
\* and registrations overlap and wherever they fail: the clean-up of one
\* request never removes the secret another one has just installed.
RowSecretLive ==
    \A n \in Nodes :
        Exists(n) /\ node[n].apiKeySecretId # None =>
            node[n].apiKeySecretId \in vault

\* Both columns belong to the same key, so that a node that may sign with its
\* key may also present it: the inconsistency of issue #59 (the comments of
\* rotateApiKey) cannot occur, as long as nobody acts on a node whose
\* registration has not returned.
KeysAgree ==
    \A n \in Nodes, k \in Keys :
        Exists(n) /\ node[n].apiKeySecretId = SecretOf(k) =>
            node[n].apiKeyHash = HashOf(k)

\* A key that was rotated out, or whose node was deleted, is never again
\* accepted by either path, for any node.
RetiredKeyDead ==
    \A n \in Nodes, k \in Keys :
        Exists(n) /\ HashOf(k) \in retired =>
            /\ node[n].apiKeyHash # HashOf(k)
            /\ node[n].apiKeySecretId # SecretOf(k)

\* "Use recertify instead": a decertified node is certified again by nothing
\* but a recertification, and it is marked as long as it is decertified.  It
\* holds when admin requests never overlap and fails when they do.
RecertifyOnly ==
    [][\A n \in Nodes :
          Exists(n) /\ node[n].status = "decertified" /\ Exists(n)' =>
              \/ node'[n].status = "decertified"
              \/ audit'[n]["recertified"] > audit[n]["recertified"]]_registryVars

DecertifiedMarked ==
    \A n \in Nodes :
        Exists(n) =>
            (node[n].status = "decertified" <=> node[n].decertifiedAt # None)

\* The secrets a request is going to install, or to remove.
InHand(a, s) ==
    \/ /\ req[a].op \in {"registerLink", "rotateCommit"}
       /\ s = SecretOf(req[a].key)
    \/ req[a].op = "cleanup" /\ s = req[a].old

\* Without failures and without overlapping requests no secret is left behind
\* in the Vault.
VaultTight ==
    \A s \in vault :
        \/ \E n \in Nodes : Exists(n) /\ node[n].apiKeySecretId = s
        \/ \E a \in Admins : InHand(a, s)

------------------------------------------------------------------------------
(* What makes the properties inductive *)

\* Requests that are going to put a key's secret into the Vault or into a row,
\* and requests that remember the secret they found.
Pending(a) == req[a].op \in {"registerVault", "registerLink", "rotateCommit"}
HasOld(a) == req[a].op \in {"rotateVault", "rotateCommit", "cleanup", "delete"}

\* A secret on its way into a row is no row's yet, no request means to remove
\* it, and one request only carries it.
PendingFresh ==
    \A a \in Admins :
        Pending(a) =>
            /\ req[a].key < nextKey
            /\ \A n \in Nodes :
                  Exists(n) => node[n].apiKeySecretId # SecretOf(req[a].key)
            /\ \A b \in Admins :
                  /\ HasOld(b) => req[b].old # SecretOf(req[a].key)
                  /\ Pending(b) /\ b # a => req[b].key # req[a].key
            /\ req[a].op # "registerVault" => SecretOf(req[a].key) \in vault

\* A secret a request means to remove can be in the row of the request's own
\* node only, and no longer once its clean-up is due.
OldOwned ==
    \A a \in Admins :
        HasOld(a) /\ req[a].old # None =>
            /\ \A k \in Keys : req[a].old = SecretOf(k) => k < nextKey
            /\ \A n \in Nodes :
                  Exists(n) /\ node[n].apiKeySecretId = req[a].old =>
                      n = req[a].node /\ req[a].op # "cleanup"

RowSecretsDistinct ==
    /\ \A n \in Nodes, k \in Keys :
          Exists(n) /\ node[n].apiKeySecretId = SecretOf(k) => k < nextKey
    /\ \A m, n \in Nodes :
          Exists(m) /\ Exists(n) /\ m # n /\ node[m].apiKeySecretId # None =>
              node[m].apiKeySecretId # node[n].apiKeySecretId

SecretInv ==
    /\ TypeOK
    /\ RowSecretLive
    /\ PendingFresh
    /\ OldOwned
    /\ RowSecretsDistinct

\* While a registration is in progress nobody else works on its node, whose
\* row still holds the key the registration generated and no secret.
RegistrationAlone ==
    \A a \in Admins :
        req[a].op \in {"registerVault", "registerLink"} =>
            /\ Exists(req[a].node)
            /\ node[req[a].node].apiKeyHash = HashOf(req[a].key)
            /\ node[req[a].node].apiKeySecretId = None
            /\ \A b \in Admins :
                  req[b] # Idle /\ b # a => req[b].node # req[a].node

\* A request is about a node that was registered, though it may be gone.
RequestsBorn == \A a \in Admins : req[a] # Idle => node[req[a].node] # Unborn

\* Digests in rows are of keys generated before, each in one row; the key of a
\* rotation is in no row yet and was never retired.
HashesFresh ==
    /\ \A k \in Keys : HashOf(k) \in retired => k < nextKey
    /\ \A n \in Nodes, k \in Keys :
          Exists(n) /\ node[n].apiKeyHash = HashOf(k) => k < nextKey
    /\ \A m, n \in Nodes :
          Exists(m) /\ Exists(n) /\ m # n => node[m].apiKeyHash # node[n].apiKeyHash
    /\ \A a \in Admins :
          req[a].op = "rotateCommit" =>
              /\ HashOf(req[a].key) \notin retired
              /\ \A n \in Nodes :
                    Exists(n) => node[n].apiKeyHash # HashOf(req[a].key)

KeyInv ==
    /\ SecretInv
    /\ KeysAgree
    /\ RetiredKeyDead
    /\ RequestsBorn
    /\ RegistrationAlone
    /\ HashesFresh

\* Without overlapping requests, what a request has read still holds when it
\* writes: the row is there, not decertified if it is to be certified, with
\* the secret that was read, and with none while it is being registered.
Found(a) ==
    LET row == node[req[a].node]
    IN  /\ req[a].op \notin {"idle", "cleanup"} => Exists(req[a].node)
        /\ req[a].op = "certify" => row.status # "decertified"
        /\ req[a].op \in {"rotateVault", "rotateCommit", "delete"} =>
              req[a].old = row.apiKeySecretId
        /\ req[a].op \in {"registerVault", "registerLink"} =>
              row.apiKeySecretId = None

SerialInv ==
    /\ \A a \in Admins : Found(a)
    /\ DecertifiedMarked
    /\ Reliable => VaultTight
==============================================================================
