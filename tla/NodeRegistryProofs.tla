-------------------------- MODULE NodeRegistryProofs --------------------------
(***************************************************************************)
(* NodeRegistry for every set of nodes, regions and admin requests and     *)
(* every bound: its inductive invariants and what follows from them.       *)
(***************************************************************************)
EXTENDS NodeRegistry, TLAPS

USE RegistryAssumption

\* Digests and secret ids tell the keys apart.
LEMMA KeysDistinct ==
    ASSUME NEW j \in Keys, NEW k \in Keys
    PROVE  /\ HashOf(j) = HashOf(k) => j = k
           /\ SecretOf(j) = SecretOf(k) => j = k
           /\ SecretOf(j) # None
           /\ HashOf(j) \in KeyHashes
           /\ SecretOf(j) \in SecretIds
  BY DEF HashOf, SecretOf, KeyHashes, SecretIds

\* The record of a request, read off the step it is at.
LEMMA ReqShape ==
    ASSUME TypeOK, NEW a \in Admins
    PROVE  /\ req[a] \in Requests
           /\ req[a].op \in {"registerVault", "registerLink"} =>
                 req[a] \in Registering
           /\ req[a].op = "certify" => req[a] \in Certifying
           /\ req[a].op = "rotateVault" => req[a] \in RotateStart
           /\ req[a].op = "rotateCommit" => req[a] \in RotateReady
           /\ req[a].op = "cleanup" => req[a] \in Cleaning
           /\ req[a].op = "delete" => req[a] \in Deleting
           /\ req[a].op = "idle" <=> req[a] = Idle
           /\ req[a].op \in {"idle", "registerVault", "registerLink", "certify",
                             "rotateVault", "rotateCommit", "cleanup", "delete"}
  <1>1. req[a] \in Requests
    BY DEF TypeOK
  <1> QED
    BY <1>1 DEF Requests, Registering, Certifying, RotateStart, RotateReady,
                Cleaning, Deleting, Idle

\* What the steps of a request carry.
LEMMA ReqFields ==
    ASSUME TypeOK, NEW a \in Admins
    PROVE  /\ req[a] # Idle => req[a].node \in Nodes
           /\ Pending(a) => req[a].key \in Keys
           /\ HasOld(a) => req[a].old \in SecretIds \cup {None}
           /\ req[a].op = "cleanup" => req[a].old \in SecretIds
  BY ReqShape DEF Pending, HasOld, Registering, Certifying, RotateStart,
                  RotateReady, Cleaning, Deleting

\* A node that exists is a row of the table.
LEMMA ExistsRow ==
    ASSUME TypeOK, NEW n \in Nodes
    PROVE  Exists(n) <=> node[n] \in Row
  BY DEF TypeOK, Exists

\* A log entry is counted.
LEMMA RecordType ==
    ASSUME TypeOK, NEW n \in Nodes, NEW action \in AuditAction,
           Record(n, action)
    PROVE  audit' \in [Nodes -> [AuditAction -> Nat]]
  <1>1. audit[n] \in [AuditAction -> Nat]
    BY DEF TypeOK
  <1>2. audit[n][action] + 1 \in Nat
    BY <1>1
  <1>3. [audit[n] EXCEPT ![action] = audit[n][action] + 1] \in [AuditAction -> Nat]
    BY <1>1, <1>2
  <1>4. audit' = [audit EXCEPT ![n] = [audit[n] EXCEPT ![action] = audit[n][action] + 1]]
    BY DEF Record
  <1> QED
    BY <1>3, <1>4 DEF TypeOK

\* Every row and request record the actions build has its type.
LEMMA RegistryTypes ==
    ASSUME TypeOK, RegistryNext
    PROVE  TypeOK'
  <1>1. ASSUME NEW a \in Admins, NEW n \in Nodes, NEW region \in Regions,
               RegisterNode(a, n, region)
        PROVE  TypeOK'
    <2>1. nextKey \in Keys
      BY <1>1 DEF RegisterNode, TypeOK, Keys
    <2>2. [status |-> "pending", apiKeyHash |-> HashOf(nextKey),
           apiKeySecretId |-> None, certificationExpiresAt |-> None,
           decertifiedAt |-> None, region |-> region] \in Row
      BY <2>1, KeysDistinct DEF Row
    <2>3. [op |-> "registerVault", node |-> n, key |-> nextKey] \in Requests
      BY <2>1 DEF Requests, Registering
    <2>4. "registered" \in AuditAction
      BY DEF AuditAction
    <2> QED
      BY <1>1, <2>1, <2>2, <2>3, <2>4, RecordType DEF RegisterNode, Proceed, TypeOK
  <1>2. ASSUME NEW a \in Admins, RegisterVault(a)
        PROVE  TypeOK'
    <2>1. req[a] \in Registering
      BY <1>2, ReqShape DEF RegisterVault
    <2>2. [req[a] EXCEPT !.op = "registerLink"] \in Requests
      BY <2>1 DEF Registering, Requests
    <2>3. SecretOf(req[a].key) \in SecretIds
      BY <2>1, KeysDistinct DEF Registering
    <2> QED
      BY <1>2, <2>2, <2>3 DEF RegisterVault, TypeOK
  <1>3. ASSUME NEW a \in Admins, RegisterLink(a)
        PROVE  TypeOK'
    <2>1. req[a] \in Registering
      BY <1>3, ReqShape DEF RegisterLink
    <2>2. SecretOf(req[a].key) \in SecretIds
      BY <2>1, KeysDistinct DEF Registering
    <2>3. Exists(req[a].node) =>
             [node[req[a].node] EXCEPT !.apiKeySecretId = SecretOf(req[a].key)]
                 \in Row
      BY <2>1, <2>2, ExistsRow DEF Registering, Row
    <2>4. Idle \in Requests
      BY DEF Requests
    <2> QED
      BY <1>3, <2>1, <2>3, <2>4 DEF RegisterLink, Proceed, TypeOK, Registering
  <1>4. ASSUME NEW a \in Admins, NEW n \in Nodes, NEW region \in Regions,
               UpdateNode(a, n, region)
        PROVE  TypeOK'
    <2>1. [node[n] EXCEPT !.region = region] \in Row
      BY <1>4, ExistsRow DEF UpdateNode, Row
    <2> QED
      BY <1>4, <2>1 DEF UpdateNode, TypeOK
  <1>5. ASSUME NEW a \in Admins, NEW n \in Nodes, CertifyRead(a, n)
        PROVE  TypeOK'
    <2>1. [op |-> "certify", node |-> n] \in Requests
      BY DEF Requests, Certifying
    <2> QED
      BY <1>5, <2>1 DEF CertifyRead, Proceed, TypeOK
  <1>6. ASSUME NEW a \in Admins, NEW days \in Durations, CertifyCommit(a, days)
        PROVE  TypeOK'
    <2>1. req[a].node \in Nodes
      BY <1>6, ReqShape DEF CertifyCommit, Certifying
    <2>2. [node[req[a].node] EXCEPT !.status = "certified",
                                    !.certificationExpiresAt = now + days] \in Row
      <3>1. node[req[a].node] \in Row
        BY <1>6, <2>1, ExistsRow DEF CertifyCommit
      <3>2. now + days \in Nat
        BY DEF TypeOK
      <3> QED
        BY <3>1, <3>2 DEF Row
    <2>3. Idle \in Requests /\ "certified" \in AuditAction
      BY DEF Requests, AuditAction
    <2> QED
      BY <1>6, <2>1, <2>2, <2>3, RecordType DEF CertifyCommit, Proceed, TypeOK
  <1>7. ASSUME NEW a \in Admins, NEW n \in Nodes, DecertifyNode(a, n)
        PROVE  TypeOK'
    <2>1. [node[n] EXCEPT !.status = "decertified", !.decertifiedAt = now] \in Row
      <3>1. node[n] \in Row /\ now \in Nat
        BY <1>7, ExistsRow DEF DecertifyNode, TypeOK
      <3> QED
        BY <3>1 DEF Row
    <2>2. "decertified" \in AuditAction
      BY DEF AuditAction
    <2> QED
      BY <1>7, <2>1, <2>2, RecordType DEF DecertifyNode, TypeOK
  <1>8. ASSUME NEW a \in Admins, NEW n \in Nodes, NEW days \in Durations,
               RecertifyNode(a, n, days)
        PROVE  TypeOK'
    <2>1. [node[n] EXCEPT !.status = "certified",
                          !.certificationExpiresAt = now + days,
                          !.decertifiedAt = None] \in Row
      <3>1. node[n] \in Row
        BY <1>8, ExistsRow DEF RecertifyNode
      <3>2. now + days \in Nat
        BY DEF TypeOK
      <3> QED
        BY <3>1, <3>2 DEF Row
    <2>2. "recertified" \in AuditAction
      BY DEF AuditAction
    <2> QED
      BY <1>8, <2>1, <2>2, RecordType DEF RecertifyNode, TypeOK
  <1>9. ASSUME NEW a \in Admins, NEW n \in Nodes, RotateRead(a, n)
        PROVE  TypeOK'
    <2>1. node[n].apiKeySecretId \in SecretIds \cup {None}
      BY <1>9, ExistsRow DEF RotateRead, Row
    <2>2. [op |-> "rotateVault", node |-> n, old |-> node[n].apiKeySecretId]
             \in Requests
      BY <2>1 DEF Requests, RotateStart
    <2> QED
      BY <1>9, <2>2 DEF RotateRead, Proceed, TypeOK
  <1>10. ASSUME NEW a \in Admins, RotateVault(a)
         PROVE  TypeOK'
    <2>1. req[a] \in RotateStart
      BY <1>10, ReqShape DEF RotateVault
    <2>2. nextKey \in Keys
      BY <1>10 DEF RotateVault, TypeOK, Keys
    <2>3. [op |-> "rotateCommit", node |-> req[a].node, old |-> req[a].old,
           key |-> nextKey] \in Requests
      BY <2>1, <2>2 DEF Requests, RotateStart, RotateReady
    <2>4. SecretOf(nextKey) \in SecretIds
      BY <2>2, KeysDistinct
    <2> QED
      BY <1>10, <2>2, <2>3, <2>4 DEF RotateVault, Proceed, TypeOK, Keys
  <1>11. ASSUME NEW a \in Admins, RotateCommit(a)
         PROVE  TypeOK'
    <2>1. req[a] \in RotateReady
      BY <1>11, ReqShape DEF RotateCommit
    <2>2. req[a].node \in Nodes /\ req[a].key \in Keys
      BY <2>1 DEF RotateReady
    <2>3. HashOf(req[a].key) \in KeyHashes /\ SecretOf(req[a].key) \in SecretIds
      BY <2>2, KeysDistinct
    <2>4. [node[req[a].node] EXCEPT !.apiKeyHash = HashOf(req[a].key),
                                    !.apiKeySecretId = SecretOf(req[a].key)] \in Row
      <3>1. node[req[a].node] \in Row
        BY <1>11, <2>2, ExistsRow DEF RotateCommit
      <3> QED
        BY <2>3, <3>1 DEF Row
    <2>5. (IF req[a].old = None THEN Idle
           ELSE [op |-> "cleanup", node |-> req[a].node, old |-> req[a].old])
              \in Requests
      BY <2>1 DEF Requests, RotateReady, Cleaning
    <2>6. "key_rotated" \in AuditAction
      BY DEF AuditAction
    <2>7. node[req[a].node].apiKeyHash \in KeyHashes
      BY <1>11, <2>2, ExistsRow DEF RotateCommit, Row
    <2> QED
      BY <1>11, <2>2, <2>4, <2>5, <2>6, <2>7, RecordType
         DEF RotateCommit, CleanUpOrFinish, Proceed, TypeOK
  <1>12. ASSUME NEW a \in Admins, NEW n \in Nodes, DeleteRead(a, n)
         PROVE  TypeOK'
    <2>1. node[n].apiKeySecretId \in SecretIds \cup {None}
      BY <1>12, ExistsRow DEF DeleteRead, Row
    <2>2. [op |-> "delete", node |-> n, old |-> node[n].apiKeySecretId]
             \in Requests
      BY <2>1 DEF Requests, Deleting
    <2> QED
      BY <1>12, <2>2 DEF DeleteRead, Proceed, TypeOK
  <1>13. ASSUME NEW a \in Admins, DeleteCommit(a)
         PROVE  TypeOK'
    <2>1. req[a] \in Deleting
      BY <1>13, ReqShape DEF DeleteCommit
    <2>2. req[a].node \in Nodes
      BY <2>1 DEF Deleting
    <2>3. (IF req[a].old = None THEN Idle
           ELSE [op |-> "cleanup", node |-> req[a].node, old |-> req[a].old])
              \in Requests
      BY <2>1 DEF Requests, Deleting, Cleaning
    <2>4. node[req[a].node].apiKeyHash \in KeyHashes
      BY <1>13, <2>2, ExistsRow DEF DeleteCommit, Row
    <2>5. NoEntries \in [AuditAction -> Nat]
      BY DEF NoEntries
    <2> QED
      BY <1>13, <2>2, <2>3, <2>4, <2>5
         DEF DeleteCommit, CleanUpOrFinish, Proceed, TypeOK
  <1>14. ASSUME NEW a \in Admins, CleanUp(a) \/ RowGone(a) \/ Fail(a)
         PROVE  TypeOK'
    <2>1. Idle \in Requests
      BY DEF Requests
    <2> QED
      BY <1>14, <2>1 DEF CleanUp, RowGone, Fail, Proceed, TypeOK
  <1>15. CASE Tick
    BY <1>15 DEF Tick, TypeOK
  <1> QED
    BY <1>1, <1>2, <1>3, <1>4, <1>5, <1>6, <1>7, <1>8, <1>9, <1>10, <1>11,
       <1>12, <1>13, <1>14, <1>15 DEF RegistryNext, AdminStep

------------------------------------------------------------------------------
(* Secrets *)

\* An empty registry with an empty Vault.
LEMMA SecretInit == RegistryInit => SecretInv
  <1> SUFFICES ASSUME RegistryInit
               PROVE  SecretInv
    OBVIOUS
  <1>1. Idle \in Requests /\ 1 \in 1 .. (MaxKeys + 1)
    BY DEF Requests
  <1>2. NoEntries \in [AuditAction -> Nat]
    BY DEF NoEntries
  <1>3. TypeOK
    BY <1>1, <1>2 DEF RegistryInit, TypeOK
  <1>4. \A a \in Admins : ~Pending(a) /\ ~HasOld(a)
    BY DEF RegistryInit, Pending, HasOld, Idle
  <1>5. \A n \in Nodes : ~Exists(n)
    BY DEF RegistryInit, Exists
  <1> QED
    BY <1>3, <1>4, <1>5
       DEF SecretInv, RowSecretLive, PendingFresh, OldOwned, RowSecretsDistinct

\* Steps that move no secret: the rows that exist keep theirs, and a request
\* goes on as it was, ends or is about to certify.
LEMMA QuietSecrets ==
    ASSUME SecretInv, TypeOK',
           \A n \in Nodes :
              Exists(n)' => /\ Exists(n)
                            /\ node'[n].apiKeySecretId = node[n].apiKeySecretId,
           \A a \in Admins :
              req'[a] = req[a] \/ req'[a].op \in {"idle", "certify"},
           vault' = vault,
           nextKey' = nextKey
    PROVE  SecretInv'
  <1>1. \A a \in Admins :
           /\ Pending(a)' => Pending(a) /\ req'[a] = req[a]
           /\ HasOld(a)' => HasOld(a) /\ req'[a] = req[a]
    BY DEF Pending, HasOld
  <1>2. RowSecretLive'
    BY DEF RowSecretLive, SecretInv
  <1>3. PendingFresh'
    BY <1>1 DEF PendingFresh, SecretInv
  <1>4. OldOwned'
    BY <1>1 DEF OldOwned, SecretInv
  <1>5. RowSecretsDistinct'
    BY DEF RowSecretsDistinct, SecretInv
  <1> QED
    BY <1>2, <1>3, <1>4, <1>5 DEF SecretInv

\* A request that starts and remembers the secret its node has now.
LEMMA ReadSecrets ==
    ASSUME SecretInv, TypeOK', NEW a \in Admins, NEW n \in Nodes, Exists(n),
           node' = node, vault' = vault, nextKey' = nextKey,
           \A b \in Admins : b # a => req'[b] = req[b],
           req'[a].op \in {"rotateVault", "delete"},
           req'[a].node = n,
           req'[a].old = node[n].apiKeySecretId
    PROVE  SecretInv'
  <1>1. ~Pending(a)' /\ HasOld(a)' /\ req'[a].op # "cleanup"
    BY DEF Pending, HasOld
  <1>2. \A b \in Admins :
           /\ Pending(b)' => Pending(b) /\ b # a
           /\ b # a => (HasOld(b)' <=> HasOld(b))
    BY <1>1 DEF Pending, HasOld
  <1>3. \A m \in Nodes : Exists(m)' <=> Exists(m)
    BY DEF Exists
  <1>4. RowSecretLive'
    BY <1>3 DEF RowSecretLive, SecretInv
  <1>5. PendingFresh'
    BY <1>1, <1>2, <1>3 DEF PendingFresh, SecretInv
  <1>6. OldOwned'
    BY <1>1, <1>2, <1>3 DEF OldOwned, SecretInv, RowSecretsDistinct
  <1>7. RowSecretsDistinct'
    BY <1>3 DEF RowSecretsDistinct, SecretInv
  <1> QED
    BY <1>4, <1>5, <1>6, <1>7 DEF SecretInv

\* A request that draws the next key.
LEMMA DrawSecrets ==
    ASSUME SecretInv, TypeOK', NEW a \in Admins, nextKey \in Keys,
           nextKey' = nextKey + 1,
           \A n \in Nodes :
              Exists(n)' => \/ node'[n].apiKeySecretId = None
                            \/ /\ Exists(n)
                               /\ node'[n].apiKeySecretId = node[n].apiKeySecretId,
           vault \subseteq vault',
           \A b \in Admins : b # a => req'[b] = req[b],
           Pending(a)', req'[a].key = nextKey,
           HasOld(a)' => HasOld(a) /\ req'[a].old = req[a].old
                                   /\ req'[a].node = req[a].node
                                   /\ req'[a].op # "cleanup",
           req'[a].op # "registerVault" => SecretOf(nextKey) \in vault'
    PROVE  SecretInv'
  <1>1. \A b \in Admins :
           b # a => (Pending(b)' <=> Pending(b)) /\ (HasOld(b)' <=> HasOld(b))
    BY DEF Pending, HasOld
  <1>2. \A b \in Admins : Pending(b) => req[b].key \in Keys /\ req[b].key < nextKey
    BY ReqFields DEF PendingFresh, SecretInv
  <1>3. \A b \in Admins : HasOld(b) => req[b].old # SecretOf(nextKey)
    <2> SUFFICES ASSUME NEW b \in Admins, HasOld(b), req[b].old = SecretOf(nextKey)
                 PROVE  FALSE
      OBVIOUS
    <2>1. req[b].old # None
      BY KeysDistinct
    <2>2. nextKey < nextKey
      BY <2>1 DEF OldOwned, SecretInv
    <2> QED
      BY <2>2 DEF Keys
  <1>4. \A n \in Nodes : Exists(n) => node[n].apiKeySecretId # SecretOf(nextKey)
    BY DEF RowSecretsDistinct, SecretInv, Keys
  <1>5. \A n \in Nodes : Exists(n)' => node'[n].apiKeySecretId # SecretOf(nextKey)
    BY <1>4, KeysDistinct
  <1>6. nextKey \in Int
    BY DEF Keys
  <1>7. RowSecretLive'
    BY DEF RowSecretLive, SecretInv
  <1>8. PendingFresh'
    <2> SUFFICES ASSUME NEW b \in Admins, Pending(b)'
                 PROVE  /\ req'[b].key < nextKey'
                        /\ \A n \in Nodes :
                              Exists(n)' =>
                                 node'[n].apiKeySecretId # SecretOf(req'[b].key)
                        /\ \A c \in Admins :
                              /\ HasOld(c)' => req'[c].old # SecretOf(req'[b].key)
                              /\ Pending(c)' /\ c # b => req'[c].key # req'[b].key
                        /\ req'[b].op # "registerVault" =>
                              SecretOf(req'[b].key) \in vault'
      BY DEF PendingFresh
    <2>1. CASE b = a
      <3>1. \A c \in Admins : HasOld(c)' => req'[c].old # SecretOf(nextKey)
        BY <1>1, <1>3
      <3>2. \A c \in Admins : Pending(c)' /\ c # a => req'[c].key # nextKey
        BY <1>1, <1>2, <1>6
      <3> QED
        BY <2>1, <3>1, <3>2, <1>5, <1>6
    <2>2. CASE b # a
      <3>1. Pending(b) /\ req'[b] = req[b]
        BY <2>2, <1>1
      <3>2. req[b].key \in Keys /\ req[b].key < nextKey
        BY <3>1, <1>2
      <3>3. req[b].key < nextKey'
        BY <3>2, <1>6 DEF Keys
      <3>4. \A n \in Nodes :
               Exists(n)' => node'[n].apiKeySecretId # SecretOf(req[b].key)
        BY <3>1, <3>2, KeysDistinct DEF PendingFresh, SecretInv
      <3>5. \A c \in Admins : HasOld(c)' => req'[c].old # SecretOf(req[b].key)
        BY <3>1, <1>1 DEF PendingFresh, SecretInv
      <3>6. \A c \in Admins : Pending(c)' /\ c # b => req'[c].key # req[b].key
        BY <3>1, <3>2, <1>1, <1>6 DEF PendingFresh, SecretInv, Keys
      <3>7. req[b].op # "registerVault" => SecretOf(req[b].key) \in vault'
        BY <3>1 DEF PendingFresh, SecretInv
      <3> QED
        BY <3>1, <3>3, <3>4, <3>5, <3>6, <3>7
    <2> QED
      BY <2>1, <2>2
  <1>9. OldOwned'
    <2> SUFFICES ASSUME NEW b \in Admins, HasOld(b)', req'[b].old # None
                 PROVE  /\ \A k \in Keys : req'[b].old = SecretOf(k) => k < nextKey'
                        /\ \A n \in Nodes :
                              Exists(n)' /\ node'[n].apiKeySecretId = req'[b].old =>
                                 n = req'[b].node /\ req'[b].op # "cleanup"
      BY DEF OldOwned
    <2>1. /\ HasOld(b) /\ req'[b].old = req[b].old /\ req'[b].node = req[b].node
          /\ req[b].op # "cleanup" => req'[b].op # "cleanup"
      BY <1>1
    <2>2. \A k \in Keys : req[b].old = SecretOf(k) => k < nextKey
      BY <2>1 DEF OldOwned, SecretInv
    <2>3. \A n \in Nodes :
             Exists(n) /\ node[n].apiKeySecretId = req[b].old =>
                n = req[b].node /\ req[b].op # "cleanup"
      BY <2>1 DEF OldOwned, SecretInv
    <2>4. \A k \in Keys : k < nextKey => k < nextKey'
      BY <1>6 DEF Keys
    <2> QED
      BY <2>1, <2>2, <2>3, <2>4
  <1>10. RowSecretsDistinct'
    <2>1. \A k \in Keys : k < nextKey => k < nextKey'
      BY <1>6 DEF Keys
    <2>2. \A k \in Keys : SecretOf(k) # None
      BY KeysDistinct
    <2> QED
      BY <2>1, <2>2 DEF RowSecretsDistinct, SecretInv
  <1> QED
    BY <1>7, <1>8, <1>9, <1>10 DEF SecretInv

\* A request that puts its key's secret into a row, as the registration and
\* the rotation do, and may then go on to remove the one it remembers.
LEMMA InstallSecrets ==
    ASSUME SecretInv, TypeOK', NEW a \in Admins, Pending(a),
           req[a].op # "registerVault",
           \A n \in Nodes :
              Exists(n)' =>
                 /\ Exists(n)
                 /\ n # req[a].node => node'[n] = node[n]
                 /\ n = req[a].node =>
                       node'[n].apiKeySecretId = SecretOf(req[a].key),
           vault' = vault, nextKey' = nextKey,
           \A b \in Admins : b # a => req'[b] = req[b],
           ~Pending(a)',
           HasOld(a)' => HasOld(a) /\ req'[a].old = req[a].old
    PROVE  SecretInv'
  <1> DEFINE k == req[a].key
  <1>1. \A b \in Admins :
           b # a => (Pending(b)' <=> Pending(b)) /\ (HasOld(b)' <=> HasOld(b))
    BY DEF Pending, HasOld
  <1>2. /\ k \in Keys /\ k < nextKey /\ SecretOf(k) \in vault
        /\ \A n \in Nodes : Exists(n) => node[n].apiKeySecretId # SecretOf(k)
        /\ \A b \in Admins : HasOld(b) => req[b].old # SecretOf(k)
        /\ \A b \in Admins : Pending(b) /\ b # a => req[b].key # k
    BY ReqFields DEF PendingFresh, SecretInv
  <1>3. \A b \in Admins : HasOld(b)' => HasOld(b) /\ req'[b].old = req[b].old
    BY <1>1
  <1>4. \A b \in Admins : Pending(b)' => Pending(b) /\ b # a /\ req'[b] = req[b]
    BY <1>1
  <1>5. \A n \in Nodes : Exists(n)' /\ n = req[a].node =>
                            node'[n].apiKeySecretId = SecretOf(k)
    OBVIOUS
  <1>6. \A b \in Admins : Pending(b) => req[b].key \in Keys
    BY ReqFields DEF SecretInv
  <1> HIDE DEF k
  <1>7. RowSecretLive'
    BY <1>2, <1>5 DEF RowSecretLive, SecretInv
  <1>8. PendingFresh'
    <2>1. \A b \in Admins : Pending(b)' => SecretOf(req[b].key) # SecretOf(k)
      BY <1>2, <1>4, <1>6, KeysDistinct
    <2> QED
      BY <2>1, <1>3, <1>4, <1>5 DEF PendingFresh, SecretInv
  <1>9. OldOwned'
    <2> SUFFICES ASSUME NEW b \in Admins, HasOld(b)', req'[b].old # None
                 PROVE  /\ \A j \in Keys : req'[b].old = SecretOf(j) => j < nextKey'
                        /\ \A n \in Nodes :
                              Exists(n)' /\ node'[n].apiKeySecretId = req'[b].old =>
                                 n = req'[b].node /\ req'[b].op # "cleanup"
      BY DEF OldOwned
    <2>1. HasOld(b) /\ req'[b].old = req[b].old
      BY <1>3
    <2>2. \A j \in Keys : req[b].old = SecretOf(j) => j < nextKey
      BY <2>1 DEF OldOwned, SecretInv
    <2>3. ASSUME NEW n \in Nodes, Exists(n)', node'[n].apiKeySecretId = req[b].old
          PROVE  n = req[b].node /\ req[b].op # "cleanup" /\ n # req[a].node
      <3>1. n # req[a].node
        BY <2>1, <2>3, <1>2, <1>5
      <3>2. Exists(n) /\ node[n].apiKeySecretId = req[b].old
        BY <2>3, <3>1
      <3> QED
        BY <2>1, <3>1, <3>2 DEF OldOwned, SecretInv
    <2>4. b # a => req'[b] = req[b]
      OBVIOUS
    <2> QED
      BY <2>1, <2>2, <2>3, <2>4
  <1>10. RowSecretsDistinct'
    <2>1. \A j \in Keys : SecretOf(k) = SecretOf(j) => j = k
      BY <1>2, KeysDistinct
    <2> QED
      BY <2>1, <1>2, <1>5 DEF RowSecretsDistinct, SecretInv
  <1> QED
    BY <1>7, <1>8, <1>9, <1>10 DEF SecretInv

\* The registration's secret is created.
LEMMA VaultSecrets ==
    ASSUME SecretInv, TypeOK', NEW a \in Admins, RegisterVault(a)
    PROVE  SecretInv'
  <1>1. req[a] \in Registering
    BY ReqShape DEF RegisterVault, SecretInv
  <1>2. /\ req'[a].op = "registerLink" /\ req'[a].node = req[a].node
        /\ req'[a].key = req[a].key
        /\ \A b \in Admins : b # a => req'[b] = req[b]
    BY <1>1 DEF RegisterVault, SecretInv, TypeOK, Registering
  <1>3. Pending(a) /\ ~HasOld(a)'
    BY <1>2 DEF Pending, HasOld, RegisterVault
  <1>4. /\ \A b \in Admins : Pending(b)' => Pending(b) /\ req'[b].key = req[b].key
        /\ \A b \in Admins : HasOld(b)' => HasOld(b) /\ req'[b] = req[b]
    BY <1>2, <1>3 DEF Pending, HasOld
  <1>5. /\ node' = node /\ nextKey' = nextKey
        /\ vault' = vault \cup {SecretOf(req[a].key)}
    BY DEF RegisterVault
  <1>6. \A n \in Nodes : Exists(n)' <=> Exists(n)
    BY <1>5 DEF Exists
  <1>7. RowSecretLive'
    BY <1>5, <1>6 DEF RowSecretLive, SecretInv
  <1>8. PendingFresh'
    <2>1. \A b \in Admins :
             Pending(b)' /\ req'[b].op # "registerVault" =>
                SecretOf(req'[b].key) \in vault'
      <3> SUFFICES ASSUME NEW b \in Admins, Pending(b)',
                          req'[b].op # "registerVault"
                   PROVE  SecretOf(req'[b].key) \in vault'
        OBVIOUS
      <3>1. CASE b = a
        BY <3>1, <1>2, <1>5
      <3>2. CASE b # a
        BY <3>2, <1>2, <1>4, <1>5 DEF PendingFresh, SecretInv
      <3> QED
        BY <3>1, <3>2
    <2> QED
      BY <2>1, <1>4, <1>5, <1>6 DEF PendingFresh, SecretInv
  <1>9. OldOwned'
    BY <1>4, <1>5, <1>6 DEF OldOwned, SecretInv
  <1>10. RowSecretsDistinct'
    BY <1>5, <1>6 DEF RowSecretsDistinct, SecretInv
  <1> QED
    BY <1>7, <1>8, <1>9, <1>10 DEF SecretInv

\* A row is deleted; the secret the request remembers is removed next.
LEMMA DropSecrets ==
    ASSUME SecretInv, TypeOK', NEW a \in Admins, DeleteCommit(a)
    PROVE  SecretInv'
  <1>1. req[a] \in Deleting
    BY ReqShape DEF DeleteCommit, SecretInv
  <1>2. /\ req[a].node \in Nodes /\ HasOld(a)
        /\ \A b \in Admins : b # a => req'[b] = req[b]
    BY <1>1 DEF Deleting, HasOld, DeleteCommit, CleanUpOrFinish, Proceed,
                SecretInv, TypeOK
  <1>3. /\ node' = [node EXCEPT ![req[a].node] = Deleted]
        /\ vault' = vault /\ nextKey' = nextKey
    BY DEF DeleteCommit
  <1>4. \A n \in Nodes :
           Exists(n)' => Exists(n) /\ n # req[a].node /\ node'[n] = node[n]
    BY <1>2, <1>3 DEF Exists, SecretInv, TypeOK
  <1>5. /\ req'[a].op \in {"idle", "cleanup"}
        /\ req'[a].op = "cleanup" =>
              req'[a].old = req[a].old /\ req'[a].node = req[a].node
    BY <1>1 DEF DeleteCommit, CleanUpOrFinish, Proceed, SecretInv, TypeOK, Idle
  <1>6. ~Pending(a)'
    BY <1>5 DEF Pending
  <1>7. /\ \A b \in Admins : Pending(b)' => Pending(b) /\ req'[b] = req[b]
        /\ \A b \in Admins :
              HasOld(b)' => HasOld(b) /\ req'[b].old = req[b].old
        /\ \A b \in Admins : b # a => (HasOld(b)' <=> HasOld(b))
    BY <1>2, <1>5, <1>6 DEF Pending, HasOld
  <1>8. RowSecretLive'
    BY <1>3, <1>4 DEF RowSecretLive, SecretInv
  <1>9. PendingFresh'
    BY <1>3, <1>4, <1>7 DEF PendingFresh, SecretInv
  <1>10. OldOwned'
    <2> SUFFICES ASSUME NEW b \in Admins, HasOld(b)', req'[b].old # None
                 PROVE  /\ \A j \in Keys : req'[b].old = SecretOf(j) => j < nextKey'
                        /\ \A n \in Nodes :
                              Exists(n)' /\ node'[n].apiKeySecretId = req'[b].old =>
                                 n = req'[b].node /\ req'[b].op # "cleanup"
      BY DEF OldOwned
    <2>1. HasOld(b) /\ req'[b].old = req[b].old
      BY <1>7
    <2>2. \A j \in Keys : req[b].old = SecretOf(j) => j < nextKey
      BY <2>1 DEF OldOwned, SecretInv
    <2>3. \A n \in Nodes :
             Exists(n)' /\ node'[n].apiKeySecretId = req[b].old =>
                n = req[b].node /\ req[b].op # "cleanup" /\ n # req[a].node
      BY <2>1, <1>4 DEF OldOwned, SecretInv
    <2> QED
      BY <2>1, <2>2, <2>3, <1>2, <1>3
  <1>11. RowSecretsDistinct'
    BY <1>3, <1>4 DEF RowSecretsDistinct, SecretInv
  <1> QED
    BY <1>8, <1>9, <1>10, <1>11 DEF SecretInv

\* The secret that is removed is in no row and on its way into none.
LEMMA CleanSecrets ==
    ASSUME SecretInv, TypeOK', NEW a \in Admins, CleanUp(a)
    PROVE  SecretInv'
  <1>1. /\ HasOld(a) /\ req[a].op = "cleanup" /\ req[a].old \in SecretIds
        /\ \A b \in Admins : b # a => req'[b] = req[b]
        /\ req'[a] = Idle
    BY ReqFields DEF CleanUp, HasOld, Proceed, SecretInv, TypeOK
  <1>2. \A b \in Admins :
           /\ Pending(b)' => Pending(b) /\ req'[b] = req[b]
           /\ HasOld(b)' => HasOld(b) /\ req'[b] = req[b]
    BY <1>1 DEF Pending, HasOld, Idle
  <1>3. node' = node /\ nextKey' = nextKey /\ vault' = vault \ {req[a].old}
    BY DEF CleanUp
  <1>4. \A n \in Nodes : Exists(n)' <=> Exists(n)
    BY <1>3 DEF Exists
  <1>5. \A n \in Nodes : Exists(n) => node[n].apiKeySecretId # req[a].old
    BY <1>1 DEF OldOwned, SecretInv
  <1>6. \A b \in Admins : Pending(b) => req[a].old # SecretOf(req[b].key)
    BY <1>1 DEF PendingFresh, SecretInv
  <1>7. RowSecretLive'
    BY <1>3, <1>4, <1>5 DEF RowSecretLive, SecretInv
  <1>8. PendingFresh'
    BY <1>2, <1>3, <1>4, <1>6 DEF PendingFresh, SecretInv
  <1>9. OldOwned'
    BY <1>2, <1>3, <1>4 DEF OldOwned, SecretInv
  <1>10. RowSecretsDistinct'
    BY <1>3, <1>4 DEF RowSecretsDistinct, SecretInv
  <1> QED
    BY <1>7, <1>8, <1>9, <1>10 DEF SecretInv

\* Each step of each admin request keeps rows, requests and Vault consistent.
LEMMA SecretStep ==
    ASSUME SecretInv, [RegistryNext]_registryVars
    PROVE  SecretInv'
  <1> USE DEF SecretInv
  <1>0. TypeOK'
    BY RegistryTypes DEF registryVars, TypeOK
  <1>1. ASSUME NEW a \in Admins, NEW n \in Nodes, NEW region \in Regions,
               RegisterNode(a, n, region)
        PROVE  SecretInv'
    <2>1. nextKey \in Keys /\ nextKey' = nextKey + 1 /\ vault' = vault
      BY <1>1 DEF RegisterNode, TypeOK, Keys
    <2>2. /\ req'[a] = [op |-> "registerVault", node |-> n, key |-> nextKey]
          /\ \A b \in Admins : b # a => req'[b] = req[b]
      BY <1>1 DEF RegisterNode, Proceed, TypeOK
    <2>3. Pending(a)' /\ ~HasOld(a)' /\ req'[a].key = nextKey
          /\ req'[a].op = "registerVault"
      BY <2>2 DEF Pending, HasOld
    <2>4. node'[n].apiKeySecretId = None
          /\ \A m \in Nodes : m # n => node'[m] = node[m]
      BY <1>1 DEF RegisterNode, TypeOK
    <2>5. \A m \in Nodes : m # n => (Exists(m)' <=> Exists(m))
      BY <2>4 DEF Exists
    <2> HIDE DEF SecretInv
    <2> QED
      BY <1>0, <2>1, <2>2, <2>3, <2>4, <2>5, DrawSecrets
  <1>2. ASSUME NEW a \in Admins, RegisterVault(a)
        PROVE  SecretInv'
    BY <1>0, <1>2, VaultSecrets
  <1>3. ASSUME NEW a \in Admins, RegisterLink(a)
        PROVE  SecretInv'
    <2>1. /\ Pending(a) /\ req[a].op # "registerVault" /\ req[a].node \in Nodes
          /\ req[a].key \in Keys
      BY <1>3, ReqShape DEF RegisterLink, Pending, Registering
    <2>2. /\ req'[a] = Idle
          /\ \A b \in Admins : b # a => req'[b] = req[b]
      BY <1>3 DEF RegisterLink, Proceed, TypeOK
    <2>3. ~Pending(a)' /\ ~HasOld(a)'
      BY <2>2 DEF Pending, HasOld, Idle
    <2>4. vault' = vault /\ nextKey' = nextKey
      BY <1>3 DEF RegisterLink
    <2>5. ASSUME NEW n \in Nodes, Exists(n)'
          PROVE  /\ Exists(n)
                 /\ n # req[a].node => node'[n] = node[n]
                 /\ n = req[a].node =>
                       node'[n].apiKeySecretId = SecretOf(req[a].key)
      <3>1. CASE Exists(req[a].node)
        <4>1. node' = [node EXCEPT ![req[a].node] =
                         [@ EXCEPT !.apiKeySecretId = SecretOf(req[a].key)]]
          BY <1>3, <3>1 DEF RegisterLink
        <4>2. n # req[a].node => node'[n] = node[n]
          BY <4>1 DEF TypeOK
        <4>3. node[req[a].node] \in Row
          BY <3>1, <2>1, ExistsRow
        <4>4. node'[req[a].node].apiKeySecretId = SecretOf(req[a].key)
          BY <4>1, <4>3, <2>1 DEF Row, TypeOK
        <4> QED
          BY <2>5, <3>1, <4>2, <4>4 DEF Exists
      <3>2. CASE ~Exists(req[a].node)
        BY <1>3, <2>5, <3>2 DEF RegisterLink, Exists
      <3> QED
        BY <3>1, <3>2
    <2> HIDE DEF SecretInv
    <2> QED
      BY <1>0, <2>1, <2>2, <2>3, <2>4, <2>5, InstallSecrets
  <1>4. ASSUME NEW a \in Admins, NEW n \in Nodes, NEW region \in Regions,
               UpdateNode(a, n, region)
        PROVE  SecretInv'
    <2>1. node[n] \in Row
      BY <1>4, ExistsRow DEF UpdateNode
    <2>2. /\ node'[n].apiKeySecretId = node[n].apiKeySecretId
          /\ \A m \in Nodes : m # n => node'[m] = node[m]
      BY <1>4, <2>1 DEF UpdateNode, TypeOK, Row
    <2>3. \A m \in Nodes : Exists(m)' => Exists(m)
      BY <1>4, <2>2 DEF UpdateNode, Exists
    <2> HIDE DEF SecretInv
    <2> QED
      BY <1>0, <1>4, <2>2, <2>3, QuietSecrets DEF UpdateNode
  <1>5. ASSUME NEW a \in Admins, NEW n \in Nodes, CertifyRead(a, n)
        PROVE  SecretInv'
    <2>1. \A b \in Admins : req'[b] = req[b] \/ req'[b].op = "certify"
      BY <1>5 DEF CertifyRead, Proceed, TypeOK
    <2>2. node' = node /\ vault' = vault /\ nextKey' = nextKey
      BY <1>5 DEF CertifyRead
    <2> HIDE DEF SecretInv
    <2> QED
      BY <1>0, <2>1, <2>2, QuietSecrets DEF Exists
  <1>6. ASSUME NEW a \in Admins, NEW days \in Durations, CertifyCommit(a, days)
        PROVE  SecretInv'
    <2>1. req[a].node \in Nodes /\ Exists(req[a].node)
      BY <1>6, ReqShape DEF CertifyCommit, Certifying
    <2>2. node[req[a].node] \in Row
      BY <2>1, ExistsRow
    <2>3. /\ node'[req[a].node].apiKeySecretId = node[req[a].node].apiKeySecretId
          /\ \A m \in Nodes : m # req[a].node => node'[m] = node[m]
      BY <1>6, <2>1, <2>2 DEF CertifyCommit, TypeOK, Row
    <2>4. \A m \in Nodes : Exists(m)' => Exists(m)
      BY <2>1, <2>3 DEF Exists
    <2>5. \A b \in Admins : req'[b] = req[b] \/ req'[b].op = "idle"
      BY <1>6 DEF CertifyCommit, Proceed, TypeOK, Idle
    <2>6. vault' = vault /\ nextKey' = nextKey
      BY <1>6 DEF CertifyCommit
    <2> HIDE DEF SecretInv
    <2> QED
      BY <1>0, <2>3, <2>4, <2>5, <2>6, QuietSecrets
  <1>7. ASSUME NEW a \in Admins, NEW n \in Nodes,
               DecertifyNode(a, n) \/ \E days \in Durations : RecertifyNode(a, n, days)
        PROVE  SecretInv'
    <2>1. Exists(n) /\ req' = req /\ vault' = vault /\ nextKey' = nextKey
      BY <1>7 DEF DecertifyNode, RecertifyNode
    <2>2. node[n] \in Row
      BY <2>1, ExistsRow
    <2>3. /\ node'[n].apiKeySecretId = node[n].apiKeySecretId
          /\ \A m \in Nodes : m # n => node'[m] = node[m]
      <3>1. CASE DecertifyNode(a, n)
        BY <3>1, <2>2 DEF DecertifyNode, TypeOK, Row
      <3>2. ASSUME NEW days \in Durations, RecertifyNode(a, n, days)
            PROVE  /\ node'[n].apiKeySecretId = node[n].apiKeySecretId
                   /\ \A m \in Nodes : m # n => node'[m] = node[m]
        BY <3>2, <2>2 DEF RecertifyNode, TypeOK, Row
      <3> QED
        BY <1>7, <3>1, <3>2
    <2>4. \A m \in Nodes : Exists(m)' => Exists(m)
      BY <2>1, <2>3 DEF Exists
    <2> HIDE DEF SecretInv
    <2> QED
      BY <1>0, <2>1, <2>3, <2>4, QuietSecrets
  <1>8. ASSUME NEW a \in Admins, NEW n \in Nodes,
               RotateRead(a, n) \/ DeleteRead(a, n)
        PROVE  SecretInv'
    <2>1. Exists(n) /\ node' = node /\ vault' = vault /\ nextKey' = nextKey
      BY <1>8 DEF RotateRead, DeleteRead
    <2>2. /\ req'[a].op \in {"rotateVault", "delete"}
          /\ req'[a].node = n
          /\ req'[a].old = node[n].apiKeySecretId
          /\ \A b \in Admins : b # a => req'[b] = req[b]
      BY <1>8 DEF RotateRead, DeleteRead, Proceed, TypeOK
    <2> HIDE DEF SecretInv
    <2> QED
      BY <1>0, <2>1, <2>2, ReadSecrets
  <1>9. ASSUME NEW a \in Admins, RotateVault(a)
        PROVE  SecretInv'
    <2>1. req[a] \in RotateStart
      BY <1>9, ReqShape DEF RotateVault
    <2>2. /\ nextKey \in Keys /\ nextKey' = nextKey + 1
          /\ vault' = vault \cup {SecretOf(nextKey)} /\ node' = node
      BY <1>9 DEF RotateVault, TypeOK, Keys
    <2>3. /\ req'[a] = [op |-> "rotateCommit", node |-> req[a].node,
                        old |-> req[a].old, key |-> nextKey]
          /\ \A b \in Admins : b # a => req'[b] = req[b]
      BY <1>9 DEF RotateVault, Proceed, TypeOK
    <2>4. HasOld(a) /\ Pending(a)' /\ req'[a].op # "cleanup"
      BY <1>9, <2>3 DEF RotateVault, HasOld, Pending
    <2>5. req'[a].key = nextKey /\ req'[a].old = req[a].old
          /\ req'[a].node = req[a].node
      BY <2>3
    <2>6. \A n \in Nodes : Exists(n)' => Exists(n)
      BY <2>2 DEF Exists
    <2> HIDE DEF SecretInv
    <2> QED
      BY <1>0, <2>2, <2>3, <2>4, <2>5, <2>6, DrawSecrets
  <1>10. ASSUME NEW a \in Admins, RotateCommit(a)
         PROVE  SecretInv'
    <2>1. /\ req[a] \in RotateReady /\ Pending(a) /\ HasOld(a)
          /\ req[a].op # "registerVault"
      BY <1>10, ReqShape DEF RotateCommit, Pending, HasOld
    <2>2. req[a].node \in Nodes /\ Exists(req[a].node)
      BY <1>10, <2>1 DEF RotateCommit, RotateReady
    <2>3. node[req[a].node] \in Row
      BY <2>2, ExistsRow
    <2>4. /\ node'[req[a].node].apiKeySecretId = SecretOf(req[a].key)
          /\ \A m \in Nodes : m # req[a].node => node'[m] = node[m]
      BY <1>10, <2>2, <2>3 DEF RotateCommit, TypeOK, Row
    <2>5. \A m \in Nodes : Exists(m)' => Exists(m)
      BY <2>2, <2>4 DEF Exists
    <2>6. /\ req'[a] = Idle \/ req'[a] = [op |-> "cleanup", node |-> req[a].node,
                                          old |-> req[a].old]
          /\ \A b \in Admins : b # a => req'[b] = req[b]
      BY <1>10 DEF RotateCommit, CleanUpOrFinish, Proceed, TypeOK
    <2>7. ~Pending(a)' /\ (HasOld(a)' => req'[a].old = req[a].old)
      BY <2>6 DEF Pending, HasOld, Idle
    <2>8. vault' = vault /\ nextKey' = nextKey
      BY <1>10 DEF RotateCommit
    <2> HIDE DEF SecretInv
    <2> QED
      BY <1>0, <2>1, <2>4, <2>5, <2>6, <2>7, <2>8, InstallSecrets
  <1>11. ASSUME NEW a \in Admins, DeleteCommit(a)
         PROVE  SecretInv'
    BY <1>0, <1>11, DropSecrets
  <1>12. ASSUME NEW a \in Admins, CleanUp(a)
         PROVE  SecretInv'
    BY <1>0, <1>12, CleanSecrets
  <1>13. ASSUME NEW a \in Admins, RowGone(a) \/ Fail(a)
         PROVE  SecretInv'
    <2>1. \A b \in Admins : req'[b] = req[b] \/ req'[b].op = "idle"
      BY <1>13 DEF RowGone, Fail, Proceed, TypeOK, Idle
    <2>2. node' = node /\ vault' = vault /\ nextKey' = nextKey
      BY <1>13 DEF RowGone, Fail
    <2> HIDE DEF SecretInv
    <2> QED
      BY <1>0, <2>1, <2>2, QuietSecrets DEF Exists
  <1>14. CASE Tick \/ UNCHANGED registryVars
    <2>1. node' = node /\ vault' = vault /\ nextKey' = nextKey /\ req' = req
      BY <1>14 DEF Tick, registryVars
    <2> HIDE DEF SecretInv
    <2> QED
      BY <1>0, <2>1, QuietSecrets DEF Exists
  <1> HIDE DEF SecretInv
  <1> QED
    BY <1>1, <1>2, <1>3, <1>4, <1>5, <1>6, <1>7, <1>8, <1>9, <1>10, <1>11,
       <1>12, <1>13, <1>14 DEF RegistryNext, AdminStep

\* The invariant of rows, requests and Vault, whatever overlaps or fails.
THEOREM RegistryInvariant == RegistrySpec => []SecretInv
  <1>1. SecretInv /\ [RegistryNext]_registryVars => SecretInv'
    BY SecretStep
  <1> QED
    BY SecretInit, <1>1, PTL DEF RegistrySpec

\* Every reachable state of the registry is well-typed.
THEOREM RegistryTypeCorrect == RegistrySpec => []TypeOK
  BY RegistryInvariant, PTL DEF SecretInv

\* A row's secret is in the Vault in every reachable state: no clean-up of a
\* rotation or a deletion removes a secret that is in use, even when requests
\* on the same node overlap or fail half-way.
THEOREM SecretsLive == RegistrySpec => []RowSecretLive
  BY RegistryInvariant, PTL DEF SecretInv

------------------------------------------------------------------------------
(* Keys: nobody acts on a node whose registration has not returned *)

\* An empty registry has no key to disagree about.
LEMMA KeyInit == RegistryInit => KeyInv
  <1> SUFFICES ASSUME RegistryInit
               PROVE  KeyInv
    OBVIOUS
  <1>1. SecretInv
    BY SecretInit
  <1>2. \A a \in Admins : req[a] = Idle /\ req[a].op = "idle"
    BY DEF RegistryInit, Idle
  <1>3. \A n \in Nodes : ~Exists(n)
    BY DEF RegistryInit, Exists
  <1>4. retired = {}
    BY DEF RegistryInit
  <1> QED
    BY <1>1, <1>2, <1>3, <1>4
       DEF KeyInv, KeysAgree, RetiredKeyDead, RequestsBorn, RegistrationAlone,
           HashesFresh

\* Steps that change no key column: requests go on as they were, end, or start
\* on a node that no registration is at work on.
LEMMA QuietKeys ==
    ASSUME KeyInv, SecretInv',
           \A n \in Nodes :
              /\ Exists(n)' <=> Exists(n)
              /\ Exists(n) => /\ node'[n].apiKeyHash = node[n].apiKeyHash
                              /\ node'[n].apiKeySecretId = node[n].apiKeySecretId
              /\ node[n] # Unborn => node'[n] # Unborn,
           \A a \in Admins :
              \/ req'[a] = req[a]
              \/ req'[a] = Idle
              \/ /\ req'[a].op \in {"certify", "rotateVault", "delete"}
                 /\ req'[a].node \in Nodes
                 /\ node[req'[a].node] # Unborn
                 /\ \A b \in Admins :
                       req[b].op \in {"registerVault", "registerLink"} =>
                          req[b].node # req'[a].node,
           retired' = retired, nextKey' = nextKey
    PROVE  KeyInv'
  <1>1. KeysAgree'
    BY DEF KeyInv, KeysAgree
  <1>2. RetiredKeyDead'
    BY DEF KeyInv, RetiredKeyDead
  <1>3. \A a \in Admins : req[a] # Idle => req[a].node \in Nodes
    BY ReqFields DEF KeyInv, SecretInv
  <1>4. RequestsBorn'
    BY <1>3 DEF KeyInv, RequestsBorn
  <1>5. \A a \in Admins :
           req'[a].op \in {"registerVault", "registerLink", "rotateCommit"} =>
              req'[a] = req[a] /\ req[a] # Idle
    BY DEF Idle
  <1>6. RegistrationAlone'
    BY <1>3, <1>5 DEF KeyInv, RegistrationAlone
  <1>7. HashesFresh'
    BY <1>5 DEF KeyInv, HashesFresh
  <1> QED
    BY <1>1, <1>2, <1>4, <1>6, <1>7 DEF KeyInv

\* A registration draws a key for a new row.
LEMMA RegisterKeys ==
    ASSUME KeyInv, SecretInv', NEW a \in Admins, NEW n \in Nodes,
           NEW region \in Regions, RegisterNode(a, n, region)
    PROVE  KeyInv'
  <1> USE DEF KeyInv
  <1>1. /\ nextKey \in Keys /\ nextKey \in Int /\ nextKey' = nextKey + 1
        /\ retired' = retired
    BY DEF RegisterNode, SecretInv, TypeOK, Keys
  <1>2. /\ req'[a] = [op |-> "registerVault", node |-> n, key |-> nextKey]
        /\ req[a] = Idle
        /\ \A b \in Admins : b # a => req'[b] = req[b]
    BY DEF RegisterNode, Proceed, SecretInv, TypeOK
  <1>3. /\ node[n] = Unborn /\ node'[n] \in Row
        /\ node'[n].apiKeyHash = HashOf(nextKey)
        /\ node'[n].apiKeySecretId = None
        /\ \A m \in Nodes : m # n => node'[m] = node[m]
    BY <1>1, KeysDistinct DEF RegisterNode, SecretInv, TypeOK, Row
  <1>4. /\ Exists(n)' /\ ~Exists(n)
        /\ \A m \in Nodes : m # n => (Exists(m)' <=> Exists(m))
        /\ \A m \in Nodes : node[m] # Unborn => node'[m] # Unborn
    BY <1>3 DEF Exists
  <1>5. \A k \in Keys : k < nextKey => k < nextKey' /\ k # nextKey
    BY <1>1 DEF Keys
  <1>6. \A b \in Admins :
           /\ req[b] # Idle => req[b].node \in Nodes /\ req[b].node # n
           /\ req[b].op = "rotateCommit" => req[b].key \in Keys /\ req[b].key < nextKey
           /\ req[b].op \in {"registerVault", "registerLink"} => req[b] # Idle
    BY <1>3, ReqFields DEF SecretInv, RequestsBorn, PendingFresh, Pending, Idle
  <1>7. \A k \in Keys : SecretOf(k) # None /\ (HashOf(k) = HashOf(nextKey) => k = nextKey)
    BY <1>1, KeysDistinct
  <1>8. HashOf(nextKey) \notin retired
    BY <1>1, <1>5 DEF HashesFresh
  <1>9. KeysAgree'
    BY <1>3, <1>4, <1>7 DEF KeysAgree
  <1>10. RetiredKeyDead'
    BY <1>1, <1>3, <1>4, <1>7, <1>8 DEF RetiredKeyDead
  <1>11. RequestsBorn'
    BY <1>2, <1>4, <1>6, <1>3 DEF RequestsBorn, Exists
  <1>12. RegistrationAlone'
    <2> SUFFICES ASSUME NEW b \in Admins,
                        req'[b].op \in {"registerVault", "registerLink"}
                 PROVE  /\ Exists(req[b].node)'
                        /\ node'[req'[b].node].apiKeyHash = HashOf(req'[b].key)
                        /\ node'[req'[b].node].apiKeySecretId = None
                        /\ \A c \in Admins :
                              req'[c] # Idle /\ c # b => req'[c].node # req'[b].node
      BY DEF RegistrationAlone
    <2>1. CASE b = a
      BY <2>1, <1>2, <1>3, <1>4, <1>6 DEF Exists
    <2>2. CASE b # a
      <3>1. req'[b] = req[b] /\ req[b].node \in Nodes /\ req[b].node # n
        BY <2>2, <1>2, <1>6
      <3>2. /\ Exists(req[b].node)
            /\ node[req[b].node].apiKeyHash = HashOf(req[b].key)
            /\ node[req[b].node].apiKeySecretId = None
            /\ \A c \in Admins : req[c] # Idle /\ c # b => req[c].node # req[b].node
        BY <3>1 DEF RegistrationAlone
      <3> QED
        BY <3>1, <3>2, <1>2, <1>3, <1>4 DEF Exists
    <2> QED
      BY <2>1, <2>2
  <1>13. HashesFresh'
    <2>1. \A k \in Keys : HashOf(k) \in retired' => k < nextKey'
      BY <1>1, <1>5 DEF HashesFresh
    <2>2. nextKey < nextKey'
      BY <1>1
    <2>3. \A m \in Nodes, k \in Keys :
             Exists(m)' /\ node'[m].apiKeyHash = HashOf(k) => k < nextKey'
      BY <2>2, <1>3, <1>4, <1>5, <1>7 DEF HashesFresh
    <2>4. \A m \in Nodes : Exists(m) => node[m].apiKeyHash # HashOf(nextKey)
      BY <1>1, <1>5 DEF HashesFresh
    <2>5. \A m, o \in Nodes :
             Exists(m)' /\ Exists(o)' /\ m # o =>
                node'[m].apiKeyHash # node'[o].apiKeyHash
      BY <2>4, <1>3, <1>4 DEF HashesFresh
    <2>6. ASSUME NEW b \in Admins, req'[b].op = "rotateCommit"
          PROVE  /\ HashOf(req'[b].key) \notin retired'
                 /\ \A m \in Nodes :
                       Exists(m)' => node'[m].apiKeyHash # HashOf(req'[b].key)
      <3>1. b # a /\ req'[b] = req[b] /\ req[b].key \in Keys /\ req[b].key < nextKey
        BY <2>6, <1>2, <1>6
      <3>2. HashOf(req[b].key) # HashOf(nextKey)
        BY <3>1, <1>5, <1>7
      <3> QED
        BY <2>6, <3>1, <3>2, <1>1, <1>3, <1>4 DEF HashesFresh
    <2> QED
      BY <2>1, <2>3, <2>5, <2>6 DEF HashesFresh
  <1> QED
    BY <1>9, <1>10, <1>11, <1>12, <1>13

\* A registration creates its secret: only the step it is at changes.
LEMMA VaultKeys ==
    ASSUME KeyInv, SecretInv', NEW a \in Admins, RegisterVault(a)
    PROVE  KeyInv'
  <1> USE DEF KeyInv
  <1>1. req[a] \in Registering
    BY ReqShape DEF RegisterVault, SecretInv
  <1>2. /\ req'[a].op = "registerLink" /\ req'[a].node = req[a].node
        /\ req'[a].key = req[a].key
        /\ \A b \in Admins : b # a => req'[b] = req[b]
    BY <1>1 DEF RegisterVault, SecretInv, TypeOK, Registering
  <1>3. req[a] # Idle /\ req[a].op = "registerVault"
    BY DEF RegisterVault, Idle
  <1>4. node' = node /\ nextKey' = nextKey /\ retired' = retired
    BY DEF RegisterVault
  <1>5. \A n \in Nodes : Exists(n)' <=> Exists(n)
    BY <1>4 DEF Exists
  <1>6. \A b \in Admins : req'[b] # Idle => req[b] # Idle /\ req'[b].node = req[b].node
    BY <1>2, <1>3
  <1>7. KeysAgree' /\ RetiredKeyDead'
    BY <1>4, <1>5 DEF KeysAgree, RetiredKeyDead
  <1>8. RequestsBorn'
    BY <1>4, <1>6 DEF RequestsBorn
  <1>9. \A b \in Admins :
           req'[b].op \in {"registerVault", "registerLink"} =>
              /\ req[b].op \in {"registerVault", "registerLink"}
              /\ req'[b].node = req[b].node /\ req'[b].key = req[b].key
    BY <1>2, <1>3
  <1>10. RegistrationAlone'
    BY <1>4, <1>6, <1>9 DEF RegistrationAlone, Exists
  <1>11. HashesFresh'
    BY <1>2, <1>4, <1>5 DEF HashesFresh
  <1> QED
    BY <1>7, <1>8, <1>10, <1>11

\* A registration puts its secret into the row that still has its key.
LEMMA LinkKeys ==
    ASSUME KeyInv, SecretInv', NEW a \in Admins, RegisterLink(a)
    PROVE  KeyInv'
  <1> USE DEF KeyInv
  <1> DEFINE n == req[a].node
             k == req[a].key
  <1>1. n \in Nodes /\ k \in Keys
    BY ReqShape DEF RegisterLink, Registering, SecretInv
  <1>2. /\ Exists(n) /\ node[n].apiKeyHash = HashOf(k)
        /\ \A b \in Admins : req[b] # Idle /\ b # a => req[b].node # n
    BY DEF RegisterLink, RegistrationAlone
  <1>3. node[n] \in Row
    BY <1>1, <1>2, ExistsRow DEF SecretInv
  <1>4. node' = [node EXCEPT ![n] = [@ EXCEPT !.apiKeySecretId = SecretOf(k)]]
    BY <1>2 DEF RegisterLink
  <1>5. /\ node'[n].apiKeySecretId = SecretOf(k)
        /\ node'[n].apiKeyHash = HashOf(k)
        /\ \A m \in Nodes : m # n => node'[m] = node[m]
    BY <1>1, <1>2, <1>3, <1>4 DEF SecretInv, TypeOK, Row
  <1>6. node'[n] \in Row
    BY <1>1, <1>3, <1>4, KeysDistinct DEF SecretInv, TypeOK, Row
  <1>7. \A m \in Nodes : Exists(m)' <=> Exists(m)
    BY <1>2, <1>5, <1>6 DEF Exists
  <1>8. /\ req'[a] = Idle
        /\ \A b \in Admins : b # a => req'[b] = req[b]
        /\ nextKey' = nextKey /\ retired' = retired
    BY DEF RegisterLink, Proceed, SecretInv, TypeOK
  <1>9. \A j \in Keys : SecretOf(k) = SecretOf(j) => j = k
    BY <1>1, KeysDistinct
  <1>10. \A b \in Admins : req[b] # Idle => req[b].node \in Nodes
    BY ReqFields DEF SecretInv
  <1> HIDE DEF n, k
  <1>11. KeysAgree'
    BY <1>5, <1>7, <1>9 DEF KeysAgree
  <1>12. RetiredKeyDead'
    BY <1>1, <1>2, <1>5, <1>7, <1>8, <1>9 DEF RetiredKeyDead
  <1>13. RequestsBorn'
    BY <1>5, <1>6, <1>8, <1>10 DEF RequestsBorn
  <1>14. RegistrationAlone'
    BY <1>2, <1>5, <1>7, <1>8, <1>10 DEF RegistrationAlone, Idle
  <1>15. HashesFresh'
    BY <1>2, <1>5, <1>7, <1>8 DEF HashesFresh, Idle
  <1> QED
    BY <1>11, <1>12, <1>13, <1>14, <1>15

\* A rotation draws its key.
LEMMA DrawKeys ==
    ASSUME KeyInv, SecretInv', NEW a \in Admins, RotateVault(a)
    PROVE  KeyInv'
  <1> USE DEF KeyInv
  <1>1. req[a] \in RotateStart /\ req[a] # Idle
    BY ReqShape DEF RotateVault, SecretInv, Idle
  <1>2. /\ nextKey \in Keys /\ nextKey \in Int /\ nextKey' = nextKey + 1
        /\ node' = node /\ retired' = retired
    BY DEF RotateVault, SecretInv, TypeOK, Keys
  <1>3. /\ req'[a] = [op |-> "rotateCommit", node |-> req[a].node,
                      old |-> req[a].old, key |-> nextKey]
        /\ \A b \in Admins : b # a => req'[b] = req[b]
    BY DEF RotateVault, Proceed, SecretInv, TypeOK
  <1>4. /\ req'[a].op = "rotateCommit" /\ req'[a].node = req[a].node
        /\ req'[a].key = nextKey
    BY <1>3
  <1>5. \A n \in Nodes : Exists(n)' <=> Exists(n)
    BY <1>2 DEF Exists
  <1>6. \A k \in Keys : k < nextKey => k < nextKey' /\ k # nextKey
    BY <1>2 DEF Keys
  <1>7. \A b \in Admins :
           req'[b] # Idle => req[b] # Idle /\ req'[b].node = req[b].node
    BY <1>1, <1>3, <1>4
  <1>8. \A b \in Admins :
           req'[b].op \in {"registerVault", "registerLink"} => req'[b] = req[b]
    BY <1>3, <1>4
  <1>9. KeysAgree' /\ RetiredKeyDead'
    BY <1>2, <1>5 DEF KeysAgree, RetiredKeyDead
  <1>10. RequestsBorn'
    BY <1>2, <1>7 DEF RequestsBorn
  <1>11. RegistrationAlone'
    BY <1>2, <1>7, <1>8 DEF RegistrationAlone, Exists
  <1>12. HashesFresh'
    <2>1. /\ HashOf(nextKey) \notin retired
          /\ \A n \in Nodes : Exists(n) => node[n].apiKeyHash # HashOf(nextKey)
      BY <1>2, <1>6 DEF HashesFresh
    <2>2. \A b \in Admins :
             req'[b].op = "rotateCommit" => b = a \/ req'[b] = req[b]
      BY <1>3
    <2> QED
      BY <2>1, <2>2, <1>2, <1>4, <1>5, <1>6 DEF HashesFresh
  <1> QED
    BY <1>9, <1>10, <1>11, <1>12

\* A rotation puts its key into the row and retires the one it replaces.
LEMMA RotateKeys ==
    ASSUME KeyInv, SecretInv', NEW a \in Admins, RotateCommit(a)
    PROVE  KeyInv'
  <1> USE DEF KeyInv
  <1> DEFINE n == req[a].node
             k == req[a].key
             h == node[n].apiKeyHash
  <1>1. /\ n \in Nodes /\ k \in Keys /\ Exists(n)
        /\ Pending(a) /\ req[a] # Idle /\ req[a].op = "rotateCommit"
    BY ReqShape DEF RotateCommit, RotateReady, SecretInv, Pending, Idle
  <1>2. node[n] \in Row
    BY <1>1, ExistsRow DEF SecretInv
  <1>3. /\ node'[n].apiKeyHash = HashOf(k)
        /\ node'[n].apiKeySecretId = SecretOf(k)
        /\ \A m \in Nodes : m # n => node'[m] = node[m]
    BY <1>1, <1>2 DEF RotateCommit, SecretInv, TypeOK, Row
  <1>4. node'[n] \in Row
    <2>1. node'[n] = [node[n] EXCEPT !.apiKeyHash = HashOf(k),
                                     !.apiKeySecretId = SecretOf(k)]
      BY <1>1 DEF RotateCommit, SecretInv, TypeOK
    <2>2. HashOf(k) \in KeyHashes /\ SecretOf(k) \in SecretIds
      BY <1>1, KeysDistinct
    <2> QED
      BY <1>2, <2>1, <2>2 DEF Row
  <1>5. \A m \in Nodes : Exists(m)' <=> Exists(m)
    BY <1>1, <1>3, <1>4 DEF Exists
  <1>6. retired' = retired \cup {h} /\ nextKey' = nextKey
    BY DEF RotateCommit
  <1>7. /\ req'[a] = Idle \/ (req'[a].op = "cleanup" /\ req'[a].node = n)
        /\ \A b \in Admins : b # a => req'[b] = req[b]
    BY DEF RotateCommit, CleanUpOrFinish, Proceed, SecretInv, TypeOK
  <1>8. /\ k < nextKey
        /\ \A b \in Admins :
              req[b].op = "rotateCommit" /\ b # a =>
                 req[b].key \in Keys /\ req[b].key # k
    BY <1>1, ReqFields DEF SecretInv, PendingFresh, Pending
  <1>9. /\ HashOf(k) \notin retired /\ HashOf(k) # h
        /\ \A m \in Nodes : Exists(m) => node[m].apiKeyHash # HashOf(k)
    BY <1>1 DEF HashesFresh
  <1>10. \A j \in Keys :
            /\ SecretOf(j) = SecretOf(k) => j = k
            /\ HashOf(j) = HashOf(k) => j = k
    BY <1>1, KeysDistinct
  <1>11. \A m \in Nodes : Exists(m) /\ m # n => node[m].apiKeyHash # h
    BY <1>1 DEF HashesFresh
  <1>12. \A b \in Admins : req[b] # Idle => req[b].node \in Nodes
    BY ReqFields DEF SecretInv
  <1>13. \A b \in Admins :
            /\ req'[b] # Idle => req[b] # Idle /\ req'[b].node = req[b].node
            /\ req'[b].op \in {"registerVault", "registerLink"} =>
                  b # a /\ req'[b] = req[b]
            /\ req'[b].op = "rotateCommit" => b # a /\ req'[b] = req[b]
    BY <1>1, <1>7 DEF Idle
  <1>14. \A j \in Keys : HashOf(j) = h => j < nextKey
    BY <1>1 DEF HashesFresh
  <1> HIDE DEF n, k, h
  <1>15. KeysAgree'
    BY <1>3, <1>5, <1>10 DEF KeysAgree
  <1>16. RetiredKeyDead'
    <2> SUFFICES ASSUME NEW m \in Nodes, NEW j \in Keys, Exists(m)',
                        HashOf(j) \in retired'
                 PROVE  /\ node'[m].apiKeyHash # HashOf(j)
                        /\ node'[m].apiKeySecretId # SecretOf(j)
      BY DEF RetiredKeyDead
    <2>1. CASE m = n
      BY <2>1, <1>3, <1>6, <1>9, <1>10
    <2>2. CASE m # n
      <3>1. node'[m] = node[m] /\ Exists(m)
        BY <2>2, <1>3, <1>5
      <3>2. CASE HashOf(j) \in retired
        BY <3>1, <3>2 DEF RetiredKeyDead
      <3>3. CASE HashOf(j) = h
        BY <2>2, <3>1, <3>3, <1>11 DEF KeysAgree
      <3> QED
        BY <3>2, <3>3, <1>6
    <2> QED
      BY <2>1, <2>2
  <1>17. RequestsBorn'
    BY <1>3, <1>4, <1>12, <1>13 DEF RequestsBorn
  <1>18. RegistrationAlone'
    <2>1. \A b \in Admins :
             req'[b].op \in {"registerVault", "registerLink"} => req[b].node # n
      BY <1>1, <1>13 DEF RegistrationAlone, n
    <2>2. \A b \in Admins :
             req'[b].op \in {"registerVault", "registerLink"} =>
                req[b].node \in Nodes
      BY <1>12, <1>13 DEF Idle
    <2> QED
      BY <2>1, <2>2, <1>3, <1>13 DEF RegistrationAlone, Exists
  <1>19. HashesFresh'
    <2>1. \A j \in Keys : HashOf(j) \in retired' => j < nextKey'
      BY <1>6, <1>14 DEF HashesFresh
    <2>2. \A m \in Nodes, j \in Keys :
             Exists(m)' /\ node'[m].apiKeyHash = HashOf(j) => j < nextKey'
      BY <1>3, <1>5, <1>6, <1>8, <1>10 DEF HashesFresh
    <2>3. \A m, o \in Nodes :
             Exists(m)' /\ Exists(o)' /\ m # o =>
                node'[m].apiKeyHash # node'[o].apiKeyHash
      BY <1>3, <1>5, <1>9 DEF HashesFresh
    <2>4. ASSUME NEW b \in Admins, req'[b].op = "rotateCommit"
          PROVE  /\ HashOf(req'[b].key) \notin retired'
                 /\ \A m \in Nodes :
                       Exists(m)' => node'[m].apiKeyHash # HashOf(req'[b].key)
      <3>1. b # a /\ req'[b] = req[b] /\ req[b].key \in Keys /\ req[b].key # k
        BY <2>4, <1>8, <1>13
      <3>2. /\ HashOf(req[b].key) \notin retired
            /\ \A m \in Nodes :
                  Exists(m) => node[m].apiKeyHash # HashOf(req[b].key)
        BY <2>4, <3>1 DEF HashesFresh
      <3>3. HashOf(req[b].key) # h
        BY <3>2, <1>1 DEF h, n
      <3> QED
        BY <3>1, <3>2, <3>3, <1>3, <1>5, <1>6, <1>10
    <2> QED
      BY <2>1, <2>2, <2>3, <2>4 DEF HashesFresh
  <1> QED
    BY <1>15, <1>16, <1>17, <1>18, <1>19

\* A deletion retires the key of the row it removes.
LEMMA DeleteKeys ==
    ASSUME KeyInv, SecretInv', NEW a \in Admins, DeleteCommit(a)
    PROVE  KeyInv'
  <1> USE DEF KeyInv
  <1> DEFINE n == req[a].node
             h == node[n].apiKeyHash
  <1>1. n \in Nodes /\ Exists(n) /\ req[a] # Idle /\ req[a].op = "delete"
    BY ReqShape DEF DeleteCommit, Deleting, SecretInv, Idle
  <1>2. /\ node'[n] = Deleted
        /\ \A m \in Nodes : m # n => node'[m] = node[m]
    BY <1>1 DEF DeleteCommit, SecretInv, TypeOK
  <1>3. \A m \in Nodes : Exists(m)' <=> Exists(m) /\ m # n
    BY <1>2 DEF Exists
  <1>4. retired' = retired \cup {h} /\ nextKey' = nextKey
    BY DEF DeleteCommit
  <1>5. /\ req'[a] = Idle \/ (req'[a].op = "cleanup" /\ req'[a].node = n)
        /\ \A b \in Admins : b # a => req'[b] = req[b]
    BY DEF DeleteCommit, CleanUpOrFinish, Proceed, SecretInv, TypeOK
  <1>6. \A m \in Nodes : Exists(m) /\ m # n => node[m].apiKeyHash # h
    BY <1>1 DEF HashesFresh
  <1>7. \A b \in Admins : req[b] # Idle => req[b].node \in Nodes
    BY ReqFields DEF SecretInv
  <1>8. \A b \in Admins :
           /\ req'[b] # Idle => req[b] # Idle /\ req'[b].node = req[b].node
           /\ req'[b].op \in {"registerVault", "registerLink"} =>
                 b # a /\ req'[b] = req[b] /\ req[b] # Idle
           /\ req'[b].op = "rotateCommit" => b # a /\ req'[b] = req[b]
    BY <1>1, <1>5 DEF Idle
  <1>9. \A j \in Keys : HashOf(j) = h => j < nextKey
    BY <1>1 DEF HashesFresh
  <1>10. \A b \in Admins : req[b].op = "rotateCommit" => HashOf(req[b].key) # h
    BY <1>1 DEF HashesFresh
  <1>11. \A b \in Admins :
            req'[b].op \in {"registerVault", "registerLink"} => req[b].node # n
    BY <1>1, <1>8 DEF RegistrationAlone
  <1> HIDE DEF n, h
  <1>12. KeysAgree'
    BY <1>2, <1>3 DEF KeysAgree
  <1>13. RetiredKeyDead'
    <2> SUFFICES ASSUME NEW m \in Nodes, NEW j \in Keys, Exists(m)',
                        HashOf(j) \in retired'
                 PROVE  /\ node'[m].apiKeyHash # HashOf(j)
                        /\ node'[m].apiKeySecretId # SecretOf(j)
      BY DEF RetiredKeyDead
    <2>1. m # n /\ Exists(m) /\ node'[m] = node[m]
      BY <1>2, <1>3
    <2>2. CASE HashOf(j) \in retired
      BY <2>1, <2>2 DEF RetiredKeyDead
    <2>3. CASE HashOf(j) = h
      BY <2>1, <2>3, <1>6 DEF KeysAgree
    <2> QED
      BY <2>2, <2>3, <1>4
  <1>14. RequestsBorn'
    BY <1>2, <1>7, <1>8 DEF RequestsBorn
  <1>15. RegistrationAlone'
    BY <1>2, <1>7, <1>8, <1>11 DEF RegistrationAlone, Exists
  <1>16. HashesFresh'
    BY <1>2, <1>3, <1>4, <1>8, <1>9, <1>10 DEF HashesFresh
  <1> QED
    BY <1>12, <1>13, <1>14, <1>15, <1>16

\* Each step keeps the two key columns in agreement and retired keys dead.
LEMMA KeyStep ==
    ASSUME ~EarlyActions, KeyInv, [RegistryNext]_registryVars
    PROVE  KeyInv'
  <1> USE DEF KeyInv
  <1>0. SecretInv'
    BY SecretStep
  <1> DEFINE SameNode(n) ==
                /\ Exists(n)' <=> Exists(n)
                /\ Exists(n) =>
                      /\ node'[n].apiKeyHash = node[n].apiKeyHash
                      /\ node'[n].apiKeySecretId = node[n].apiKeySecretId
                /\ node[n] # Unborn => node'[n] # Unborn
  <1>1. ASSUME NEW a \in Admins, NEW n \in Nodes, NEW region \in Regions,
               RegisterNode(a, n, region)
        PROVE  KeyInv'
    BY <1>0, <1>1, RegisterKeys
  <1>2. ASSUME NEW a \in Admins, RegisterVault(a)
        PROVE  KeyInv'
    BY <1>0, <1>2, VaultKeys
  <1>3. ASSUME NEW a \in Admins, RegisterLink(a)
        PROVE  KeyInv'
    BY <1>0, <1>3, LinkKeys
  <1>4. ASSUME NEW a \in Admins, NEW n \in Nodes, NEW region \in Regions,
               UpdateNode(a, n, region)
        PROVE  KeyInv'
    <2>1. node[n] \in Row /\ Exists(n)
      BY <1>4, ExistsRow DEF UpdateNode, SecretInv
    <2>2. /\ node'[n] \in Row
          /\ node'[n].apiKeyHash = node[n].apiKeyHash
          /\ node'[n].apiKeySecretId = node[n].apiKeySecretId
          /\ \A m \in Nodes : m # n => node'[m] = node[m]
      BY <1>4, <2>1 DEF UpdateNode, SecretInv, TypeOK, Row
    <2>3. \A m \in Nodes : SameNode(m)
      BY <2>1, <2>2 DEF Exists
    <2>4. req' = req /\ retired' = retired /\ nextKey' = nextKey
      BY <1>4 DEF UpdateNode
    <2> HIDE DEF KeyInv
    <2> QED
      BY <1>0, <2>3, <2>4, QuietKeys
  <1>5. ASSUME NEW a \in Admins, NEW n \in Nodes,
               CertifyRead(a, n) \/ RotateRead(a, n) \/ DeleteRead(a, n)
        PROVE  KeyInv'
    <2>1. /\ node' = node /\ retired' = retired /\ nextKey' = nextKey
          /\ Exists(n) /\ Known(n)
      BY <1>5 DEF CertifyRead, RotateRead, DeleteRead
    <2>2. \A m \in Nodes : SameNode(m)
      BY <2>1 DEF Exists
    <2>3. /\ req'[a].op \in {"certify", "rotateVault", "delete"}
          /\ req'[a].node = n
          /\ \A b \in Admins : b # a => req'[b] = req[b]
      BY <1>5 DEF CertifyRead, RotateRead, DeleteRead, Proceed, SecretInv, TypeOK
    <2>4. node[n] # Unborn
          /\ \A b \in Admins : req[b].op \in {"registerVault", "registerLink"} =>
                                  req[b].node # n
      BY <2>1 DEF Known, Exists
    <2> HIDE DEF KeyInv, SameNode
    <2>5. \A b \in Admins :
             \/ req'[b] = req[b]
             \/ req'[b] = Idle
             \/ /\ req'[b].op \in {"certify", "rotateVault", "delete"}
                /\ req'[b].node \in Nodes
                /\ node[req'[b].node] # Unborn
                /\ \A c \in Admins :
                      req[c].op \in {"registerVault", "registerLink"} =>
                         req[c].node # req'[b].node
      BY <2>3, <2>4
    <2> USE DEF SameNode
    <2> QED
      BY <1>0, <2>1, <2>2, <2>5, QuietKeys
  <1>6. ASSUME NEW a \in Admins, NEW days \in Durations, CertifyCommit(a, days)
        PROVE  KeyInv'
    <2>1. req[a].node \in Nodes /\ Exists(req[a].node)
      BY <1>6, ReqShape DEF CertifyCommit, Certifying, SecretInv
    <2>2. node[req[a].node] \in Row
      BY <2>1, ExistsRow DEF SecretInv
    <2>3. /\ node'[req[a].node].apiKeyHash = node[req[a].node].apiKeyHash
          /\ node'[req[a].node].apiKeySecretId = node[req[a].node].apiKeySecretId
          /\ \A m \in Nodes : m # req[a].node => node'[m] = node[m]
      BY <1>6, <2>1, <2>2 DEF CertifyCommit, SecretInv, TypeOK, Row
    <2>4. node'[req[a].node] \in Row
      <3>1. now + days \in Nat
        BY DEF SecretInv, TypeOK
      <3>2. node'[req[a].node] =
               [node[req[a].node] EXCEPT !.status = "certified",
                                         !.certificationExpiresAt = now + days]
        BY <1>6, <2>1 DEF CertifyCommit, SecretInv, TypeOK
      <3> QED
        BY <2>2, <3>1, <3>2 DEF Row
    <2>5. \A m \in Nodes : SameNode(m)
      BY <2>1, <2>3, <2>4 DEF Exists
    <2>6. \A b \in Admins : req'[b] = req[b] \/ req'[b] = Idle
      BY <1>6 DEF CertifyCommit, Proceed, SecretInv, TypeOK
    <2>7. retired' = retired /\ nextKey' = nextKey
      BY <1>6 DEF CertifyCommit
    <2> HIDE DEF KeyInv
    <2> QED
      BY <1>0, <2>5, <2>6, <2>7, QuietKeys
  <1>7. ASSUME NEW a \in Admins, NEW n \in Nodes,
               DecertifyNode(a, n) \/ \E days \in Durations : RecertifyNode(a, n, days)
        PROVE  KeyInv'
    <2>1. /\ Exists(n) /\ req' = req /\ retired' = retired
          /\ nextKey' = nextKey
      BY <1>7 DEF DecertifyNode, RecertifyNode
    <2>2. node[n] \in Row
      BY <2>1, ExistsRow DEF SecretInv
    <2>3. /\ node'[n].apiKeyHash = node[n].apiKeyHash
          /\ node'[n].apiKeySecretId = node[n].apiKeySecretId
          /\ \A m \in Nodes : m # n => node'[m] = node[m]
      <3>1. CASE DecertifyNode(a, n)
        BY <3>1, <2>2 DEF DecertifyNode, SecretInv, TypeOK, Row
      <3>2. ASSUME NEW days \in Durations, RecertifyNode(a, n, days)
            PROVE  /\ node'[n].apiKeyHash = node[n].apiKeyHash
                   /\ node'[n].apiKeySecretId = node[n].apiKeySecretId
                   /\ \A m \in Nodes : m # n => node'[m] = node[m]
        BY <3>2, <2>2 DEF RecertifyNode, SecretInv, TypeOK, Row
      <3> QED
        BY <1>7, <3>1, <3>2
    <2>4. node'[n] \in Row
      <3>1. now \in Nat /\ \A days \in Durations : now + days \in Nat
        BY DEF SecretInv, TypeOK
      <3>2. CASE DecertifyNode(a, n)
        <4>1. node'[n] = [node[n] EXCEPT !.status = "decertified",
                                         !.decertifiedAt = now]
          BY <3>2 DEF DecertifyNode, SecretInv, TypeOK
        <4> QED
          BY <2>2, <3>1, <4>1 DEF Row
      <3>3. ASSUME NEW days \in Durations, RecertifyNode(a, n, days)
            PROVE  node'[n] \in Row
        <4>1. node'[n] = [node[n] EXCEPT !.status = "certified",
                                         !.certificationExpiresAt = now + days,
                                         !.decertifiedAt = None]
          BY <3>3 DEF RecertifyNode, SecretInv, TypeOK
        <4>2. now + days \in Nat
          BY <3>1
        <4> QED
          BY <2>2, <4>1, <4>2 DEF Row
      <3> QED
        BY <1>7, <3>2, <3>3
    <2>5. \A m \in Nodes : SameNode(m)
      BY <2>1, <2>3, <2>4 DEF Exists
    <2> HIDE DEF KeyInv
    <2> QED
      BY <1>0, <2>1, <2>5, QuietKeys
  <1>8. ASSUME NEW a \in Admins, RotateVault(a)
        PROVE  KeyInv'
    BY <1>0, <1>8, DrawKeys
  <1>9. ASSUME NEW a \in Admins, RotateCommit(a)
        PROVE  KeyInv'
    BY <1>0, <1>9, RotateKeys
  <1>10. ASSUME NEW a \in Admins, DeleteCommit(a)
         PROVE  KeyInv'
    BY <1>0, <1>10, DeleteKeys
  <1>11. ASSUME NEW a \in Admins, CleanUp(a) \/ RowGone(a) \/ Fail(a)
         PROVE  KeyInv'
    <2>1. \A b \in Admins : req'[b] = req[b] \/ req'[b] = Idle
      BY <1>11 DEF CleanUp, RowGone, Fail, Proceed, SecretInv, TypeOK
    <2>2. node' = node /\ retired' = retired /\ nextKey' = nextKey
      BY <1>11 DEF CleanUp, RowGone, Fail
    <2>3. \A m \in Nodes : SameNode(m)
      BY <2>2 DEF Exists
    <2> HIDE DEF KeyInv
    <2> QED
      BY <1>0, <2>1, <2>2, <2>3, QuietKeys
  <1>12. CASE Tick \/ UNCHANGED registryVars
    <2>1. /\ node' = node /\ retired' = retired /\ nextKey' = nextKey
          /\ req' = req
      BY <1>12 DEF Tick, registryVars
    <2>2. \A m \in Nodes : SameNode(m)
      BY <2>1 DEF Exists
    <2> HIDE DEF KeyInv
    <2> QED
      BY <1>0, <2>1, <2>2, QuietKeys
  <1> HIDE DEF KeyInv
  <1> QED
    BY <1>1, <1>2, <1>3, <1>4, <1>5, <1>6, <1>7, <1>8, <1>9, <1>10, <1>11,
       <1>12 DEF RegistryNext, AdminStep

\* The invariant of the key columns, as long as nobody acts on a node whose
\* registration has not returned.
THEOREM KeyInvariant ==
    ASSUME ~EarlyActions
    PROVE  RegistrySpec => []KeyInv
  <1>1. KeyInv /\ [RegistryNext]_registryVars => KeyInv'
    BY KeyStep
  <1> QED
    BY KeyInit, <1>1, PTL DEF RegistrySpec

\* Under the same condition both key columns of a row always belong to one
\* key: what issue #59 broke (a digest and a secret of different keys) cannot
\* happen again, whatever rotations overlap or fail.
THEOREM KeysConsistent ==
    ASSUME ~EarlyActions
    PROVE  RegistrySpec => []KeysAgree
  BY KeyInvariant, PTL DEF KeyInv

\* Under the same condition a key that a rotation replaced, or whose node was
\* deleted, is in no key column of any row ever after.
THEOREM RetiredStaysDead ==
    ASSUME ~EarlyActions
    PROVE  RegistrySpec => []RetiredKeyDead
  BY KeyInvariant, PTL DEF KeyInv
==============================================================================
