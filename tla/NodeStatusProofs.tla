---------------------------- MODULE NodeStatusProofs ----------------------------
(***************************************************************************)
(* The status of nodes and their secrets, for every size, when admin       *)
(* requests do not overlap.                                                *)
(***************************************************************************)
EXTENDS NodeRegistryProofs

USE RegistryAssumption

------------------------------------------------------------------------------
(* Admin requests that do not overlap *)

Serial == \A a, b \in Admins : a = b

\* At the start there is neither a node, a request nor a secret.
LEMMA SerialInit == RegistryInit => SerialInv
  BY DEF RegistryInit, SerialInv, Found, DecertifiedMarked, VaultTight,
         Exists, Idle

\* What the step of a request leaves of the invariant, as the one request
\* there is: its own findings, the marks of rows, and the secrets.
LEMMA SerialParts ==
    ASSUME Serial, NEW a \in Admins,
           Found(a)',
           DecertifiedMarked',
           Reliable => VaultTight'
    PROVE  SerialInv'
  <1>1. \A b \in Admins : b = a
    BY DEF Serial
  <1>2. \A b \in Admins : Found(b)'
    BY <1>1
  <1> QED
    BY <1>2 DEF SerialInv

\* A step after which rows are marked as before.
LEMMA MarksKept ==
    ASSUME DecertifiedMarked,
           \A n \in Nodes :
              Exists(n)' => /\ Exists(n)
                            /\ node'[n].status = node[n].status
                            /\ node'[n].decertifiedAt = node[n].decertifiedAt
    PROVE  DecertifiedMarked'
  BY DEF DecertifiedMarked

\* Secrets stay accounted for when each keeps its row or is in the request's
\* hand after the step.
LEMMA SecretsKept ==
    ASSUME NEW a \in Admins,
           \A s \in vault' :
              \/ \E n \in Nodes : Exists(n)' /\ node'[n].apiKeySecretId = s
              \/ InHand(a, s)'
    PROVE  VaultTight'
  BY DEF VaultTight

\* A registration and its two later steps.
LEMMA SerialRegister ==
    ASSUME Serial, TypeOK, SerialInv, NEW a \in Admins, NEW n \in Nodes,
           NEW region \in Regions, RegisterNode(a, n, region)
    PROVE  SerialInv'
  <1>1. /\ node'[n] = [status |-> "pending", apiKeyHash |-> HashOf(nextKey),
                       apiKeySecretId |-> None, certificationExpiresAt |-> None,
                       decertifiedAt |-> None, region |-> region]
        /\ \A m \in Nodes : m # n => node'[m] = node[m]
        /\ node[n] = Unborn
        /\ req'[a] = [op |-> "registerVault", node |-> n, key |-> nextKey]
        /\ req[a] = Idle /\ vault' = vault
    BY DEF RegisterNode, Proceed, TypeOK
  <1>2. Exists(n)'
    <2>1. nextKey \in Keys
      BY DEF RegisterNode, TypeOK, Keys
    <2>2. node'[n] \in Row
      BY <1>1, <2>1, KeysDistinct DEF Row
    <2> QED
      BY <2>2 DEF Exists
  <1>3. \A m \in Nodes : m # n => (Exists(m)' <=> Exists(m))
    BY <1>1 DEF Exists
  <1>4. DecertifiedMarked'
    BY <1>1, <1>3 DEF DecertifiedMarked, SerialInv
  <1>5. ASSUME Reliable
        PROVE  VaultTight'
    <2>1. ASSUME NEW s \in vault
          PROVE  \E m \in Nodes : Exists(m)' /\ node'[m].apiKeySecretId = s
      <3>1. ~InHand(a, s)
        BY <1>1 DEF InHand, Idle
      <3>2. PICK m \in Nodes : Exists(m) /\ node[m].apiKeySecretId = s
        BY <1>5, <3>1 DEF SerialInv, VaultTight, Serial
      <3> QED
        BY <1>1, <1>3, <3>2 DEF Exists
    <2> QED
      BY <1>1, <2>1 DEF VaultTight
  <1>6. Found(a)'
    BY <1>1, <1>2 DEF Found
  <1> QED
    BY <1>4, <1>5, <1>6, SerialParts

\* The secret goes into the Vault, in the hand of the request.
LEMMA SerialVault ==
    ASSUME Serial, TypeOK, SerialInv, NEW a \in Admins, RegisterVault(a)
    PROVE  SerialInv'
  <1>1. /\ req'[a] = [req[a] EXCEPT !.op = "registerLink"]
        /\ req[a] \in Registering /\ req[a].op = "registerVault"
        /\ node' = node /\ vault' = vault \cup {SecretOf(req[a].key)}
    BY ReqShape DEF RegisterVault, TypeOK
  <1>2. /\ req'[a].op = "registerLink" /\ req'[a].node = req[a].node
        /\ req'[a].key = req[a].key
    BY <1>1 DEF Registering
  <1>3. Exists(req[a].node) /\ node[req[a].node].apiKeySecretId = None
    BY <1>1 DEF SerialInv, Found
  <1>4. \A m \in Nodes : Exists(m)' <=> Exists(m)
    BY <1>1 DEF Exists
  <1>5. DecertifiedMarked'
    BY <1>1, <1>4, MarksKept DEF SerialInv
  <1>6. ASSUME Reliable
        PROVE  VaultTight'
    <2>1. \A s \in vault : \E m \in Nodes : Exists(m) /\ node[m].apiKeySecretId = s
      BY <1>1, <1>6 DEF SerialInv, VaultTight, Serial, InHand
    <2>2. InHand(a, SecretOf(req[a].key))'
      BY <1>2 DEF InHand
    <2> QED
      BY <1>1, <1>4, <2>1, <2>2, SecretsKept
  <1>7. Found(a)'
    BY <1>1, <1>2, <1>3 DEF Found, Exists
  <1> QED
    BY <1>5, <1>6, <1>7, SerialParts

\* The row gets its secret, which leaves the request's hand.
LEMMA SerialLink ==
    ASSUME Serial, TypeOK, SerialInv, NEW a \in Admins, RegisterLink(a)
    PROVE  SerialInv'
  <1>1. req[a] \in Registering /\ req[a].op = "registerLink" /\ req'[a] = Idle
    BY ReqShape DEF RegisterLink, Proceed, TypeOK
  <1>2. /\ Exists(req[a].node) /\ node[req[a].node].apiKeySecretId = None
        /\ req[a].node \in Nodes /\ req[a].key \in Keys
    BY <1>1 DEF SerialInv, Found, Registering
  <1>3. /\ node[req[a].node] \in Row
        /\ node'[req[a].node] = [node[req[a].node] EXCEPT
                                    !.apiKeySecretId = SecretOf(req[a].key)]
        /\ \A m \in Nodes : m # req[a].node => node'[m] = node[m]
        /\ vault' = vault
    BY <1>2, ExistsRow DEF RegisterLink, TypeOK
  <1>4. /\ node'[req[a].node] \in Row
        /\ node'[req[a].node].apiKeySecretId = SecretOf(req[a].key)
        /\ node'[req[a].node].status = node[req[a].node].status
        /\ node'[req[a].node].decertifiedAt = node[req[a].node].decertifiedAt
    BY <1>2, <1>3, KeysDistinct DEF Row
  <1>5. \A m \in Nodes : Exists(m)' <=> Exists(m)
    BY <1>2, <1>3, <1>4 DEF Exists
  <1>6. DecertifiedMarked'
    BY <1>3, <1>4, <1>5, MarksKept DEF SerialInv
  <1>7. ASSUME Reliable
        PROVE  VaultTight'
    <2>1. ASSUME NEW s \in vault
          PROVE  \E m \in Nodes : Exists(m)' /\ node'[m].apiKeySecretId = s
      <3>1. CASE InHand(a, s)
        <4>1. s = SecretOf(req[a].key)
          BY <1>1, <3>1 DEF InHand
        <4> QED
          BY <1>2, <1>4, <1>5, <4>1
      <3>2. CASE ~InHand(a, s)
        <4>1. PICK m \in Nodes : Exists(m) /\ node[m].apiKeySecretId = s
          BY <1>7, <3>2 DEF SerialInv, VaultTight, Serial
        <4>2. s # None
          BY DEF TypeOK
        <4> QED
          BY <1>2, <1>3, <1>5, <4>1, <4>2
      <3> QED
        BY <3>1, <3>2
    <2> QED
      BY <1>3, <2>1, SecretsKept
  <1>8. Found(a)'
    BY <1>1 DEF Found, Idle
  <1> QED
    BY <1>6, <1>7, <1>8, SerialParts

\* A change of a row that keeps its secret and its mark; the request ends or
\* never began.
LEMMA SerialWrite ==
    ASSUME Serial, TypeOK, SerialInv, NEW a \in Admins, NEW n \in Nodes,
           Exists(n), Exists(n)',
           node'[n].apiKeySecretId = node[n].apiKeySecretId,
           node'[n].status = "decertified" <=> node'[n].decertifiedAt # None,
           \A m \in Nodes : m # n => node'[m] = node[m],
           vault' = vault,
           req'[a] = Idle,
           req[a].op \in {"idle", "certify"}
    PROVE  SerialInv'
  <1>1. \A m \in Nodes : Exists(m)' <=> Exists(m)
    BY DEF Exists
  <1>2. DecertifiedMarked'
    BY <1>1 DEF DecertifiedMarked, SerialInv
  <1>3. ASSUME Reliable
        PROVE  VaultTight'
    <2>1. \A s \in vault : ~InHand(a, s)
      BY DEF InHand
    <2>2. \A s \in vault : \E m \in Nodes : Exists(m) /\ node[m].apiKeySecretId = s
      BY <1>3, <2>1 DEF SerialInv, VaultTight, Serial
    <2> QED
      BY <1>1, <2>2, SecretsKept
  <1>4. Found(a)'
    BY DEF Found, Idle
  <1> QED
    BY <1>2, <1>3, <1>4, SerialParts

\* A request begins with a look at a row.
LEMMA SerialRead ==
    ASSUME Serial, TypeOK, SerialInv, NEW a \in Admins, NEW n \in Nodes,
           CertifyRead(a, n) \/ RotateRead(a, n) \/ DeleteRead(a, n)
    PROVE  SerialInv'
  <1>1. /\ req[a] = Idle /\ Exists(n) /\ node' = node /\ vault' = vault
        /\ \/ /\ req'[a] = [op |-> "certify", node |-> n]
              /\ node[n].status # "decertified"
           \/ req'[a] = [op |-> "rotateVault", node |-> n,
                         old |-> node[n].apiKeySecretId]
           \/ req'[a] = [op |-> "delete", node |-> n,
                         old |-> node[n].apiKeySecretId]
    BY DEF CertifyRead, RotateRead, DeleteRead, Proceed, TypeOK
  <1>2. \A m \in Nodes : Exists(m)' <=> Exists(m)
    BY <1>1 DEF Exists
  <1>3. DecertifiedMarked'
    BY <1>1, <1>2, MarksKept DEF SerialInv
  <1>4. ASSUME Reliable
        PROVE  VaultTight'
    <2>1. \A s \in vault : \E m \in Nodes : Exists(m) /\ node[m].apiKeySecretId = s
      BY <1>1, <1>4 DEF SerialInv, VaultTight, Serial, InHand, Idle
    <2> QED
      BY <1>1, <1>2, <2>1, SecretsKept
  <1>5. Found(a)'
    BY <1>1, <1>2 DEF Found
  <1> QED
    BY <1>3, <1>4, <1>5, SerialParts

\* The new key's secret goes into the Vault, in the hand of the request.
LEMMA SerialDraw ==
    ASSUME Serial, TypeOK, SerialInv, NEW a \in Admins, RotateVault(a)
    PROVE  SerialInv'
  <1>1. /\ req[a] \in RotateStart /\ req[a].op = "rotateVault"
        /\ req'[a] = [op |-> "rotateCommit", node |-> req[a].node,
                      old |-> req[a].old, key |-> nextKey]
        /\ node' = node /\ vault' = vault \cup {SecretOf(nextKey)}
    BY ReqShape DEF RotateVault, Proceed, TypeOK
  <1>2. Exists(req[a].node) /\ req[a].old = node[req[a].node].apiKeySecretId
    BY <1>1 DEF SerialInv, Found
  <1>3. \A m \in Nodes : Exists(m)' <=> Exists(m)
    BY <1>1 DEF Exists
  <1>4. DecertifiedMarked'
    BY <1>1, <1>3, MarksKept DEF SerialInv
  <1>5. ASSUME Reliable
        PROVE  VaultTight'
    <2>1. \A s \in vault : \E m \in Nodes : Exists(m) /\ node[m].apiKeySecretId = s
      BY <1>1, <1>5 DEF SerialInv, VaultTight, Serial, InHand
    <2>2. \A s \in {SecretOf(nextKey)} : InHand(a, s)'
      BY <1>1 DEF InHand
    <2>3. \A s \in vault' : s \in vault \/ s \in {SecretOf(nextKey)}
      BY <1>1
    <2> QED
      BY <1>1, <1>3, <2>1, <2>2, <2>3, SecretsKept
  <1>6. Found(a)'
    BY <1>1, <1>2 DEF Found, Exists
  <1> QED
    BY <1>4, <1>5, <1>6, SerialParts

\* The old secret passes from the row into the hand of the request.
LEMMA SerialRotate ==
    ASSUME Serial, TypeOK, SerialInv, NEW a \in Admins, RotateCommit(a)
    PROVE  SerialInv'
  <1> DEFINE n == req[a].node
  <1>1. /\ req[a] \in RotateReady /\ req[a].op = "rotateCommit"
        /\ n \in Nodes /\ node[n] \in Row /\ req[a].key \in Keys
    BY ReqShape, ExistsRow DEF RotateCommit, RotateReady
  <1>2. /\ node'[n] = [node[n] EXCEPT !.apiKeyHash = HashOf(req[a].key),
                                      !.apiKeySecretId = SecretOf(req[a].key)]
        /\ \A m \in Nodes : m # n => node'[m] = node[m]
        /\ vault' = vault
        /\ req'[a] = IF req[a].old = None THEN Idle
                     ELSE [op |-> "cleanup", node |-> n, old |-> req[a].old]
    BY <1>1 DEF RotateCommit, CleanUpOrFinish, Proceed, TypeOK
  <1>3. Exists(n) /\ req[a].old = node[n].apiKeySecretId
    BY <1>1 DEF SerialInv, Found
  <1>4. /\ node'[n] \in Row
        /\ node'[n].apiKeySecretId = SecretOf(req[a].key)
        /\ node'[n].status = node[n].status
        /\ node'[n].decertifiedAt = node[n].decertifiedAt
    <2>1. HashOf(req[a].key) \in KeyHashes /\ SecretOf(req[a].key) \in SecretIds
      BY <1>1, KeysDistinct
    <2> QED
      BY <1>1, <1>2, <2>1 DEF Row
  <1>5. \A m \in Nodes : Exists(m)' <=> Exists(m)
    BY <1>2, <1>3, <1>4 DEF Exists
  <1>6. DecertifiedMarked'
    BY <1>2, <1>4, <1>5, MarksKept DEF SerialInv
  <1>7. ASSUME Reliable
        PROVE  VaultTight'
    <2>1. ASSUME NEW s \in vault
          PROVE  \/ \E m \in Nodes : Exists(m)' /\ node'[m].apiKeySecretId = s
                 \/ InHand(a, s)'
      <3>1. CASE InHand(a, s)
        <4>1. s = SecretOf(req[a].key)
          BY <1>1, <3>1 DEF InHand
        <4> QED
          BY <1>1, <1>3, <1>4, <1>5, <4>1
      <3>2. CASE ~InHand(a, s)
        <4>1. PICK m \in Nodes : Exists(m) /\ node[m].apiKeySecretId = s
          BY <1>7, <3>2 DEF SerialInv, VaultTight, Serial
        <4>2. s # None
          BY DEF TypeOK
        <4>3. CASE m = n
          <5>1. req'[a] = [op |-> "cleanup", node |-> n, old |-> s]
            BY <1>2, <1>3, <4>1, <4>2, <4>3
          <5> QED
            BY <5>1 DEF InHand
        <4>4. CASE m # n
          BY <1>2, <1>5, <4>1, <4>4
        <4> QED
          BY <4>3, <4>4
      <3> QED
        BY <3>1, <3>2
    <2> QED
      BY <1>2, <2>1, SecretsKept
  <1>8. Found(a)'
    BY <1>2 DEF Found, Idle
  <1> QED
    BY <1>6, <1>7, <1>8, SerialParts

\* So it does when the row is deleted.
LEMMA SerialDelete ==
    ASSUME Serial, TypeOK, SerialInv, NEW a \in Admins, DeleteCommit(a)
    PROVE  SerialInv'
  <1> DEFINE n == req[a].node
  <1>1. req[a] \in Deleting /\ req[a].op = "delete" /\ n \in Nodes
    BY ReqShape DEF DeleteCommit, Deleting
  <1>2. /\ node'[n] = Deleted
        /\ \A m \in Nodes : m # n => node'[m] = node[m]
        /\ vault' = vault
        /\ req'[a] = IF req[a].old = None THEN Idle
                     ELSE [op |-> "cleanup", node |-> n, old |-> req[a].old]
    BY <1>1 DEF DeleteCommit, CleanUpOrFinish, Proceed, TypeOK
  <1>3. Exists(n) /\ req[a].old = node[n].apiKeySecretId
    BY <1>1 DEF SerialInv, Found
  <1>4. \A m \in Nodes : Exists(m)' <=> Exists(m) /\ m # n
    BY <1>2 DEF Exists
  <1>5. DecertifiedMarked'
    BY <1>2, <1>4, MarksKept DEF SerialInv
  <1>6. ASSUME Reliable
        PROVE  VaultTight'
    <2>1. ASSUME NEW s \in vault
          PROVE  \/ \E m \in Nodes : Exists(m)' /\ node'[m].apiKeySecretId = s
                 \/ InHand(a, s)'
      <3>1. ~InHand(a, s)
        BY <1>1 DEF InHand
      <3>2. PICK m \in Nodes : Exists(m) /\ node[m].apiKeySecretId = s
        BY <1>6, <3>1 DEF SerialInv, VaultTight, Serial
      <3>3. s # None
        BY DEF TypeOK
      <3>4. CASE m = n
        <4>1. req'[a] = [op |-> "cleanup", node |-> n, old |-> s]
          BY <1>2, <1>3, <3>2, <3>3, <3>4
        <4> QED
          BY <4>1 DEF InHand
      <3>5. CASE m # n
        BY <1>2, <1>4, <3>2, <3>5
      <3> QED
        BY <3>4, <3>5
    <2> QED
      BY <1>2, <2>1, SecretsKept
  <1>7. Found(a)'
    BY <1>2 DEF Found, Idle
  <1> QED
    BY <1>5, <1>6, <1>7, SerialParts

\* The end of a request: after its clean-up, or when it fails.
LEMMA SerialEnd ==
    ASSUME Serial, TypeOK, SerialInv, NEW a \in Admins,
           CleanUp(a) \/ RowGone(a) \/ Fail(a)
    PROVE  SerialInv'
  <1>1. node' = node /\ req'[a] = Idle
    BY DEF CleanUp, RowGone, Fail, Proceed, TypeOK
  <1>2. \A m \in Nodes : Exists(m)' <=> Exists(m)
    BY <1>1 DEF Exists
  <1>3. ~RowGone(a)
    <2>1. req[a].op \in {"certify", "rotateCommit", "delete"} => Exists(req[a].node)
      BY DEF SerialInv, Found
    <2> QED
      BY <2>1 DEF RowGone
  <1>4. DecertifiedMarked'
    BY <1>1, <1>2, MarksKept DEF SerialInv
  <1>5. ASSUME Reliable
        PROVE  VaultTight'
    <2>1. req[a].op = "cleanup" /\ vault' = vault \ {req[a].old}
      BY <1>3, <1>5 DEF CleanUp, Fail
    <2>2. \A s \in vault' : s \in vault /\ ~InHand(a, s)
      BY <2>1 DEF InHand
    <2>3. \A s \in vault' : \E m \in Nodes : Exists(m) /\ node[m].apiKeySecretId = s
      BY <1>5, <2>2 DEF SerialInv, VaultTight, Serial
    <2> QED
      BY <1>1, <1>2, <2>3, SecretsKept
  <1>6. Found(a)'
    BY <1>1 DEF Found, Idle
  <1> QED
    BY <1>4, <1>5, <1>6, SerialParts

\* Each step keeps the invariant of admin requests that do not overlap.
LEMMA SerialStep ==
    ASSUME Serial, TypeOK, SerialInv, [RegistryNext]_registryVars
    PROVE  SerialInv'
  <1>1. ASSUME NEW a \in Admins, NEW n \in Nodes, NEW region \in Regions,
               RegisterNode(a, n, region)
        PROVE  SerialInv'
    BY <1>1, SerialRegister
  <1>2. ASSUME NEW a \in Admins, NEW n \in Nodes, NEW region \in Regions,
               UpdateNode(a, n, region)
        PROVE  SerialInv'
    <2>1. node[n] \in Row /\ Exists(n) /\ req[a] = Idle
      BY <1>2, ExistsRow DEF UpdateNode
    <2>2. /\ node'[n] = [node[n] EXCEPT !.region = region]
          /\ \A m \in Nodes : m # n => node'[m] = node[m]
          /\ req'[a] = Idle /\ vault' = vault
      BY <1>2, <2>1 DEF UpdateNode, TypeOK
    <2>3. /\ node'[n] \in Row
          /\ node'[n].apiKeySecretId = node[n].apiKeySecretId
          /\ node'[n].status = node[n].status
          /\ node'[n].decertifiedAt = node[n].decertifiedAt
      BY <2>1, <2>2 DEF Row
    <2>4. Exists(n)'
      BY <2>3 DEF Exists
    <2>5. node'[n].status = "decertified" <=> node'[n].decertifiedAt # None
      BY <2>1, <2>3 DEF SerialInv, DecertifiedMarked
    <2>6. req[a].op = "idle"
      BY <2>1 DEF Idle
    <2> QED
      BY <2>1, <2>2, <2>3, <2>4, <2>5, <2>6, SerialWrite
  <1>3. ASSUME NEW a \in Admins, NEW days \in Durations, CertifyCommit(a, days)
        PROVE  SerialInv'
    <2>0. PICK n \in Nodes : n = req[a].node
      BY <1>3, ReqShape DEF CertifyCommit, Certifying
    <2>1. node[n] \in Row /\ Exists(n) /\ req[a].op = "certify"
      BY <1>3, <2>0, ExistsRow DEF CertifyCommit
    <2>2. /\ node'[n] = [node[n] EXCEPT !.status = "certified",
                                        !.certificationExpiresAt = now + days]
          /\ \A m \in Nodes : m # n => node'[m] = node[m]
          /\ req'[a] = Idle /\ vault' = vault
      BY <1>3, <2>0, <2>1 DEF CertifyCommit, Proceed, TypeOK
    <2>3. node[n].status # "decertified"
      BY <2>0, <2>1 DEF SerialInv, Found
    <2>4. node[n].decertifiedAt = None
      BY <2>1, <2>3 DEF SerialInv, DecertifiedMarked
    <2>5. now + days \in Nat
      BY DEF TypeOK
    <2>6. /\ node'[n] \in Row
          /\ node'[n].apiKeySecretId = node[n].apiKeySecretId
          /\ node'[n].status = "certified"
          /\ node'[n].decertifiedAt = None
      BY <2>1, <2>2, <2>4, <2>5 DEF Row
    <2>7. Exists(n)'
      BY <2>6 DEF Exists
    <2> QED
      BY <2>1, <2>2, <2>6, <2>7, SerialWrite
  <1>4. ASSUME NEW a \in Admins, NEW n \in Nodes, DecertifyNode(a, n)
        PROVE  SerialInv'
    <2>1. node[n] \in Row /\ Exists(n) /\ req[a] = Idle /\ now \in Nat
      BY <1>4, ExistsRow DEF DecertifyNode, TypeOK
    <2>2. /\ node'[n] = [node[n] EXCEPT !.status = "decertified",
                                        !.decertifiedAt = now]
          /\ \A m \in Nodes : m # n => node'[m] = node[m]
          /\ req'[a] = Idle /\ vault' = vault
      BY <1>4, <2>1 DEF DecertifyNode, TypeOK
    <2>3. /\ node'[n] \in Row
          /\ node'[n].apiKeySecretId = node[n].apiKeySecretId
          /\ node'[n].status = "decertified"
          /\ node'[n].decertifiedAt # None
      BY <2>1, <2>2 DEF Row
    <2>4. Exists(n)'
      BY <2>3 DEF Exists
    <2>5. req[a].op = "idle"
      BY <2>1 DEF Idle
    <2> QED
      BY <2>1, <2>2, <2>3, <2>4, <2>5, SerialWrite
  <1>5. ASSUME NEW a \in Admins, NEW n \in Nodes, NEW days \in Durations,
               RecertifyNode(a, n, days)
        PROVE  SerialInv'
    <2>1. /\ node[n] \in Row /\ Exists(n) /\ req[a] = Idle
          /\ now + days \in Nat
      BY <1>5, ExistsRow DEF RecertifyNode, TypeOK
    <2>2. /\ node'[n] = [node[n] EXCEPT !.status = "certified",
                                        !.certificationExpiresAt = now + days,
                                        !.decertifiedAt = None]
          /\ \A m \in Nodes : m # n => node'[m] = node[m]
          /\ req'[a] = Idle /\ vault' = vault
      BY <1>5, <2>1 DEF RecertifyNode, TypeOK
    <2>3. /\ node'[n] \in Row
          /\ node'[n].apiKeySecretId = node[n].apiKeySecretId
          /\ node'[n].status = "certified"
          /\ node'[n].decertifiedAt = None
      BY <2>1, <2>2 DEF Row
    <2>4. Exists(n)'
      BY <2>3 DEF Exists
    <2>5. req[a].op = "idle"
      BY <2>1 DEF Idle
    <2> QED
      BY <2>1, <2>2, <2>3, <2>4, <2>5, SerialWrite
  <1>6. ASSUME NEW a \in Admins, NEW n \in Nodes,
               CertifyRead(a, n) \/ RotateRead(a, n) \/ DeleteRead(a, n)
        PROVE  SerialInv'
    BY <1>6, SerialRead
  <1>7. ASSUME NEW a \in Admins, RegisterVault(a)
        PROVE  SerialInv'
    BY <1>7, SerialVault
  <1>8. ASSUME NEW a \in Admins, RegisterLink(a)
        PROVE  SerialInv'
    BY <1>8, SerialLink
  <1>9. ASSUME NEW a \in Admins, RotateVault(a)
        PROVE  SerialInv'
    BY <1>9, SerialDraw
  <1>10. ASSUME NEW a \in Admins, RotateCommit(a)
         PROVE  SerialInv'
    BY <1>10, SerialRotate
  <1>11. ASSUME NEW a \in Admins, DeleteCommit(a)
         PROVE  SerialInv'
    BY <1>11, SerialDelete
  <1>12. ASSUME NEW a \in Admins, CleanUp(a) \/ RowGone(a) \/ Fail(a)
         PROVE  SerialInv'
    BY <1>12, SerialEnd
  <1>13. CASE Tick \/ UNCHANGED registryVars
    <2>1. node' = node /\ req' = req /\ vault' = vault
      BY <1>13 DEF Tick, registryVars
    <2> QED
      BY <2>1 DEF SerialInv, Found, DecertifiedMarked, VaultTight, InHand, Exists
  <1> QED
    BY <1>1, <1>2, <1>3, <1>4, <1>5, <1>6, <1>7, <1>8, <1>9, <1>10, <1>11,
       <1>12, <1>13 DEF RegistryNext, AdminStep

\* When admin requests do not overlap, what one has read still holds when it
\* writes.
THEOREM SerialInvariant ==
    ASSUME Serial
    PROVE  RegistrySpec => []SerialInv
  <1>1. TypeOK /\ SerialInv /\ [RegistryNext]_registryVars => SerialInv'
    BY SerialStep
  <1> QED
    BY SerialInit, <1>1, RegistryTypeCorrect, PTL DEF RegistrySpec

\* When admin requests do not overlap, a row is marked with the moment of its
\* decertification for as long as it is decertified and no longer.
THEOREM SerialMarked ==
    ASSUME Serial
    PROVE  RegistrySpec => []DecertifiedMarked
  BY SerialInvariant, PTL DEF SerialInv

\* When moreover nothing fails, no secret is left behind in the Vault.
THEOREM SerialVaultTight ==
    ASSUME Serial, Reliable
    PROVE  RegistrySpec => []VaultTight
  <1>1. SerialInv => VaultTight
    BY DEF SerialInv
  <1> QED
    BY <1>1, SerialInvariant, PTL

\* What a step may do to the status of a decertified node.
StaysOut(n) ==
    Exists(n) /\ node[n].status = "decertified" /\ Exists(n)' =>
        \/ node'[n].status = "decertified"
        \/ audit'[n]["recertified"] > audit[n]["recertified"]

\* A step that does not touch a row, or not its status, leaves the node out.
LEMMA StatusKept ==
    ASSUME NEW n \in Nodes,
           Exists(n) /\ Exists(n)' => node'[n].status = node[n].status
    PROVE  StaysOut(n)
  BY DEF StaysOut

\* Of all steps only a recertification ends a decertification.
LEMMA RecertifyStep ==
    ASSUME Serial, TypeOK, SerialInv, RegistryNext, NEW n \in Nodes
    PROVE  StaysOut(n)
  <1>1. ASSUME NEW a \in Admins, NEW m \in Nodes, NEW region \in Regions,
               RegisterNode(a, m, region)
        PROVE  StaysOut(n)
    <2>1. ~Exists(m) /\ (m # n => node'[n] = node[n])
      BY <1>1 DEF RegisterNode, Exists, TypeOK
    <2> QED
      BY <2>1, StatusKept
  <1>2. ASSUME NEW a \in Admins, NEW m \in Nodes, NEW region \in Regions,
               UpdateNode(a, m, region)
        PROVE  StaysOut(n)
    <2>1. node[m] \in Row
      BY <1>2, ExistsRow DEF UpdateNode
    <2>2. node'[n].status = node[n].status
      BY <1>2, <2>1 DEF UpdateNode, TypeOK, Row
    <2> QED
      BY <2>2, StatusKept
  <1>3. ASSUME NEW a \in Admins, NEW days \in Durations, CertifyCommit(a, days)
        PROVE  StaysOut(n)
    <2>1. req[a].op = "certify" /\ node[req[a].node].status # "decertified"
      BY <1>3 DEF CertifyCommit, SerialInv, Found
    <2>2. n # req[a].node => node'[n] = node[n]
      BY <1>3 DEF CertifyCommit, TypeOK
    <2> QED
      BY <2>1, <2>2 DEF StaysOut
  <1>4. ASSUME NEW a \in Admins, NEW m \in Nodes, DecertifyNode(a, m)
        PROVE  StaysOut(n)
    <2>1. node[m] \in Row
      BY <1>4, ExistsRow DEF DecertifyNode
    <2>2. \/ node'[n].status = "decertified"
          \/ node'[n] = node[n]
      BY <1>4, <2>1 DEF DecertifyNode, TypeOK, Row
    <2> QED
      BY <2>2 DEF StaysOut
  <1>5. ASSUME NEW a \in Admins, NEW m \in Nodes, NEW days \in Durations,
               RecertifyNode(a, m, days)
        PROVE  StaysOut(n)
    <2>1. CASE m = n
      <3>1. audit[n] \in [AuditAction -> Nat] /\ "recertified" \in AuditAction
        BY DEF TypeOK, AuditAction
      <3>2. audit'[n]["recertified"] = audit[n]["recertified"] + 1
        BY <1>5, <2>1, <3>1 DEF RecertifyNode, Record, TypeOK
      <3>3. audit[n]["recertified"] \in Nat
        BY <3>1
      <3> QED
        BY <3>2, <3>3 DEF StaysOut
    <2>2. CASE m # n
      <3>1. node'[n] = node[n]
        BY <1>5, <2>2 DEF RecertifyNode, TypeOK
      <3> QED
        BY <3>1, StatusKept
    <2> QED
      BY <2>1, <2>2
  <1>6. ASSUME NEW a \in Admins, RegisterLink(a) \/ RotateCommit(a)
        PROVE  StaysOut(n)
    <2>1. req[a].node \in Nodes
      BY <1>6, ReqShape DEF RegisterLink, RotateCommit, Registering, RotateReady
    <2>2. CASE n = req[a].node /\ Exists(n)
      <3>1. node[n] \in Row
        BY <2>2, ExistsRow
      <3>2. CASE RegisterLink(a)
        <4>1. node'[n] = [node[n] EXCEPT !.apiKeySecretId = SecretOf(req[a].key)]
          BY <2>2, <3>2 DEF RegisterLink, TypeOK
        <4> QED
          BY <3>1, <4>1, StatusKept DEF Row
      <3>3. CASE RotateCommit(a)
        <4>1. node'[n] = [node[n] EXCEPT !.apiKeyHash = HashOf(req[a].key),
                                         !.apiKeySecretId = SecretOf(req[a].key)]
          BY <2>2, <3>3 DEF RotateCommit, TypeOK
        <4> QED
          BY <3>1, <4>1, StatusKept DEF Row
      <3> QED
        BY <1>6, <3>2, <3>3
    <2>3. CASE n # req[a].node
      <3>1. node'[n] = node[n]
        BY <1>6, <2>1, <2>3 DEF RegisterLink, RotateCommit, TypeOK
      <3> QED
        BY <3>1, StatusKept
    <2> QED
      BY <2>2, <2>3, StatusKept
  <1>7. ASSUME NEW a \in Admins, DeleteCommit(a)
        PROVE  StaysOut(n)
    <2>1. Exists(n)' => node'[n] = node[n]
      BY <1>7 DEF DeleteCommit, Exists, TypeOK
    <2> QED
      BY <2>1, StatusKept
  <1>8. ASSUME node' = node
        PROVE  StaysOut(n)
    BY <1>8, StatusKept
  <1>9. ASSUME NEW a \in Admins,
               \/ RegisterVault(a) \/ RotateVault(a)
               \/ CleanUp(a) \/ RowGone(a) \/ Fail(a)
               \/ \E m \in Nodes :
                     CertifyRead(a, m) \/ RotateRead(a, m) \/ DeleteRead(a, m)
        PROVE  node' = node
    BY <1>9 DEF RegisterVault, RotateVault, CleanUp, RowGone, Fail,
                CertifyRead, RotateRead, DeleteRead
  <1>10. Tick => node' = node
    BY DEF Tick
  <1> QED
    BY <1>1, <1>2, <1>3, <1>4, <1>5, <1>6, <1>7, <1>8, <1>9, <1>10
       DEF RegistryNext, AdminStep

\* When admin requests do not overlap, a decertified node is certified again
\* by nothing but a recertification, as certifyNode's refusal promises.
THEOREM SerialRecertify ==
    ASSUME Serial
    PROVE  RegistrySpec => RecertifyOnly
  <1>1. TypeOK /\ SerialInv /\ [RegistryNext]_registryVars =>
           [\A n \in Nodes : StaysOut(n)]_registryVars
    BY RecertifyStep
  <1> QED
    BY <1>1, SerialInvariant, RegistryTypeCorrect, PTL
       DEF RegistrySpec, RecertifyOnly, StaysOut
==============================================================================
