---------------------------- MODULE NodeAuthProofs ----------------------------
(***************************************************************************)
(* NodeAuth for every set of nodes, admin requests and callers and every   *)
(* bound: both ways of authenticating stay open, and the guard implements  *)
(* the credentials it promises, whatever admin requests overlap, as long   *)
(* as nobody acts on a node whose registration has not returned.           *)
(***************************************************************************)
EXTENDS NodeAuth, NodeStatusProofs

USE RegistryAssumption, AuthAssumption

Registers(a) == req[a].op \in {"registerVault", "registerLink"}

\* Requests of nodes change nothing that the registry knows of.
LEMMA AuthRegistry ==
    ASSUME [AuthNext]_authVars
    PROVE  [RegistryNext]_registryVars
  <1>1. ASSUME NEW c \in Callers, AuthStep(c)
        PROVE  UNCHANGED registryVars
    BY <1>1 DEF AuthStep, Bearer, HmacUntimely, HmacRead, HmacFetch
  <1> QED
    BY <1>1 DEF AuthNext, authVars, registryVars

\* A replaced key is never forgotten.
LEMMA RetiredGrows ==
    ASSUME [RegistryNext]_registryVars
    PROVE  retired \subseteq retired'
  <1>1. ASSUME NEW a \in Admins, AdminStep(a)
        PROVE  retired \subseteq retired'
    BY <1>1 DEF AdminStep, RegisterNode, RegisterVault, RegisterLink, UpdateNode,
                CertifyRead, CertifyCommit, DecertifyNode, RecertifyNode,
                RotateRead, RotateVault, RotateCommit, DeleteRead, DeleteCommit,
                CleanUp, RowGone, Fail
  <1> QED
    BY <1>1 DEF RegistryNext, Tick, registryVars

------------------------------------------------------------------------------
(* Rows and their secrets *)

\* Steps that start no registration, end none unless something failed, and
\* take no row's secret away.
LEMMA QuietLinks ==
    ASSUME Linked, PendingUntilLinked,
           \A a \in Admins :
              /\ Registers(a)' => Registers(a) /\ req'[a].node = req[a].node
              /\ Reliable /\ Registers(a) =>
                    Registers(a)' /\ req'[a].node = req[a].node,
           \A n \in Nodes :
              /\ Exists(n)' => Exists(n)
              /\ Exists(n)' /\ node[n].apiKeySecretId # None =>
                    node'[n].apiKeySecretId # None
              /\ BeingRegistered(n) => node'[n].status = node[n].status
    PROVE  Linked' /\ PendingUntilLinked'
  <1>1. ASSUME NEW n \in Nodes
        PROVE  /\ BeingRegistered(n)' => BeingRegistered(n)
               /\ Reliable /\ BeingRegistered(n) => BeingRegistered(n)'
    BY DEF BeingRegistered, Registers
  <1>2. Linked'
    BY <1>1 DEF Linked
  <1>3. PendingUntilLinked'
    BY <1>1 DEF PendingUntilLinked
  <1> QED
    BY <1>2, <1>3

\* A registration starts with a pending row.
LEMMA RegisterLinks ==
    ASSUME TypeOK, Linked, PendingUntilLinked, NEW a \in Admins,
           NEW n \in Nodes, NEW region \in Regions, RegisterNode(a, n, region)
    PROVE  Linked' /\ PendingUntilLinked'
  <1>1. /\ req'[a] = [op |-> "registerVault", node |-> n, key |-> nextKey]
        /\ \A b \in Admins : b # a => req'[b] = req[b]
        /\ req[a] = Idle
    BY DEF RegisterNode, Proceed, TypeOK
  <1>2. /\ node'[n].status = "pending"
        /\ \A m \in Nodes : m # n => node'[m] = node[m]
    BY DEF RegisterNode, TypeOK
  <1>3. BeingRegistered(n)'
    BY <1>1 DEF BeingRegistered
  <1>4. \A m \in Nodes : m # n => (BeingRegistered(m)' <=> BeingRegistered(m))
    BY <1>1 DEF BeingRegistered, Idle
  <1>5. Linked'
    BY <1>2, <1>3, <1>4 DEF Linked, Exists
  <1>6. PendingUntilLinked'
    BY <1>2, <1>4 DEF PendingUntilLinked
  <1> QED
    BY <1>5, <1>6

\* A registration ends with a secret in its row.
LEMMA LinkLinks ==
    ASSUME KeyInv, Linked, PendingUntilLinked, NEW a \in Admins, RegisterLink(a)
    PROVE  Linked' /\ PendingUntilLinked'
  <1> DEFINE n == req[a].node
             s == SecretOf(req[a].key)
  <1>1. /\ n \in Nodes /\ req[a].key \in Keys /\ Registers(a) /\ TypeOK
        /\ Exists(n)
    BY ReqShape DEF RegisterLink, Registering, KeyInv, SecretInv, Registers,
                    RegistrationAlone
  <1>2. node' = [node EXCEPT ![n].apiKeySecretId = s] /\ node[n] \in Row
    BY <1>1, ExistsRow DEF RegisterLink
  <1>3. /\ req'[a] = Idle
        /\ \A b \in Admins : b # a => req'[b] = req[b]
    BY <1>1 DEF RegisterLink, Proceed, TypeOK
  <1>4. s # None
    BY <1>1, KeysDistinct
  <1>5. /\ node'[n].apiKeySecretId = s /\ node'[n].status = node[n].status
        /\ \A m \in Nodes : m # n => node'[m] = node[m]
    BY <1>1, <1>2 DEF TypeOK, Row
  <1> HIDE DEF n, s
  <1>6. \A m \in Nodes : BeingRegistered(m)' => BeingRegistered(m)
    BY <1>3 DEF BeingRegistered, Idle
  <1>7. \A m \in Nodes : m # n /\ BeingRegistered(m) => BeingRegistered(m)'
    BY <1>3 DEF BeingRegistered, n
  <1>8. Linked'
    BY <1>1, <1>4, <1>5, <1>6, <1>7 DEF Linked, Exists
  <1>9. PendingUntilLinked'
    BY <1>5, <1>6 DEF PendingUntilLinked
  <1> QED
    BY <1>8, <1>9

\* A step of the registry keeps rows linked to their secrets.
LEMMA LinkStep ==
    ASSUME ~EarlyActions, KeyInv, Linked, PendingUntilLinked,
           [RegistryNext]_registryVars
    PROVE  Linked' /\ PendingUntilLinked'
  <1>0. TypeOK
    BY DEF KeyInv, SecretInv
  <1>1. ASSUME NEW a \in Admins, NEW n \in Nodes, NEW region \in Regions,
               RegisterNode(a, n, region)
        PROVE  Linked' /\ PendingUntilLinked'
    BY <1>0, <1>1, RegisterLinks
  <1>2. ASSUME NEW a \in Admins, RegisterLink(a)
        PROVE  Linked' /\ PendingUntilLinked'
    BY <1>2, LinkLinks
  \* Requests that leave the nodes alone.
  <1>3. ASSUME UNCHANGED node,
               \A a \in Admins :
                  /\ Registers(a)' => Registers(a) /\ req'[a].node = req[a].node
                  /\ Reliable /\ Registers(a) =>
                        Registers(a)' /\ req'[a].node = req[a].node
        PROVE  Linked' /\ PendingUntilLinked'
    BY <1>3, QuietLinks DEF Exists
  <1>4. ASSUME NEW a \in Admins, RegisterVault(a)
        PROVE  Linked' /\ PendingUntilLinked'
    <2>1. /\ req[a] \in Registering
          /\ req' = [req EXCEPT ![a] = [req[a] EXCEPT !.op = "registerLink"]]
      BY <1>0, <1>4, ReqShape DEF RegisterVault
    <2>2. /\ Registers(a) /\ Registers(a)' /\ req'[a].node = req[a].node
          /\ \A b \in Admins : b # a => req'[b] = req[b]
      BY <1>0, <2>1 DEF Registering, Registers, TypeOK
    <2> QED
      BY <1>3, <1>4, <2>2 DEF RegisterVault, Registers
  \* Requests that change one row on which no registration is at work.
  <1>5. ASSUME NEW a \in Admins, NEW n \in Nodes, Exists(n),
               \A b \in Admins : Registers(b) => req[b].node # n,
               ~Registers(a), ~Registers(a)',
               \A b \in Admins : b # a => req'[b] = req[b],
               \A m \in Nodes : m # n => node'[m] = node[m],
               Exists(n)' /\ node[n].apiKeySecretId # None =>
                   node'[n].apiKeySecretId # None
        PROVE  Linked' /\ PendingUntilLinked'
    <2>1. ~BeingRegistered(n)
      BY <1>5 DEF BeingRegistered, Registers
    <2>2. \A b \in Admins :
             /\ Registers(b)' => Registers(b) /\ req'[b].node = req[b].node
             /\ Registers(b) => Registers(b)' /\ req'[b].node = req[b].node
      BY <1>5 DEF Registers
    <2>3. \A m \in Nodes :
             /\ Exists(m)' => Exists(m)
             /\ Exists(m)' /\ node[m].apiKeySecretId # None =>
                   node'[m].apiKeySecretId # None
             /\ BeingRegistered(m) => node'[m].status = node[m].status
      BY <1>5, <2>1 DEF Exists
    <2> QED
      BY <2>2, <2>3, QuietLinks
  <1>6. ASSUME NEW a \in Admins, NEW n \in Nodes,
               \/ \E region \in Regions : UpdateNode(a, n, region)
               \/ DecertifyNode(a, n)
               \/ \E days \in Durations : RecertifyNode(a, n, days)
        PROVE  Linked' /\ PendingUntilLinked'
    <2>1. /\ req[a] = Idle /\ req' = req /\ Exists(n) /\ Known(n)
      BY <1>6 DEF UpdateNode, DecertifyNode, RecertifyNode
    <2>2. ~Registers(a) /\ ~Registers(a)'
      BY <2>1 DEF Registers, Idle
    <2>3. \A b \in Admins : Registers(b) => req[b].node # n
      BY <2>1 DEF Known, Registers
    <2>4. node[n] \in Row
      BY <1>0, <2>1, ExistsRow
    <2>5. /\ \A m \in Nodes : m # n => node'[m] = node[m]
          /\ node'[n].apiKeySecretId = node[n].apiKeySecretId
      <3>1. CASE \E region \in Regions : UpdateNode(a, n, region)
        BY <1>0, <2>4, <3>1 DEF UpdateNode, TypeOK, Row
      <3>2. CASE DecertifyNode(a, n)
        BY <1>0, <2>4, <3>2 DEF DecertifyNode, TypeOK, Row
      <3>3. CASE \E days \in Durations : RecertifyNode(a, n, days)
        BY <1>0, <2>4, <3>3 DEF RecertifyNode, TypeOK, Row
      <3> QED
        BY <1>6, <3>1, <3>2, <3>3
    <2> QED
      BY <1>5, <2>1, <2>2, <2>3, <2>5
  <1>7. ASSUME NEW a \in Admins,
               \/ \E days \in Durations : CertifyCommit(a, days)
               \/ RotateCommit(a)
               \/ DeleteCommit(a)
        PROVE  Linked' /\ PendingUntilLinked'
    <2>1. /\ req[a] # Idle /\ ~Registers(a) /\ Exists(req[a].node)
          /\ req[a].op \in {"certify", "rotateCommit", "delete"}
      <3>1. /\ req[a].op \in {"certify", "rotateCommit", "delete"}
            /\ Exists(req[a].node)
        BY <1>7 DEF CertifyCommit, RotateCommit, DeleteCommit
      <3> QED
        BY <3>1 DEF Registers, Idle
    <2>2. PICK n \in Nodes : n = req[a].node
      BY <1>0, <2>1, ReqFields
    <2>3. \A b \in Admins : Registers(b) => req[b].node # n
      BY <2>1, <2>2 DEF KeyInv, RegistrationAlone, Registers
    <2>4. /\ req'[a].op \in {"idle", "cleanup"}
          /\ \A b \in Admins : b # a => req'[b] = req[b]
      <3>1. CASE \E days \in Durations : CertifyCommit(a, days)
        BY <1>0, <3>1 DEF CertifyCommit, Proceed, Idle, TypeOK
      <3>2. CASE RotateCommit(a)
        BY <1>0, <3>2 DEF RotateCommit, CleanUpOrFinish, Proceed, Idle, TypeOK
      <3>3. CASE DeleteCommit(a)
        BY <1>0, <3>3 DEF DeleteCommit, CleanUpOrFinish, Proceed, Idle, TypeOK
      <3> QED
        BY <1>7, <3>1, <3>2, <3>3
    <2>5. ~Registers(a)'
      BY <2>4 DEF Registers
    <2>6. node[n] \in Row
      BY <1>0, <2>1, <2>2, ExistsRow
    <2>7. \A m \in Nodes : m # n => node'[m] = node[m]
      <3>1. CASE \E days \in Durations : CertifyCommit(a, days)
        BY <1>0, <2>2, <3>1 DEF CertifyCommit, TypeOK
      <3>2. CASE RotateCommit(a)
        BY <1>0, <2>2, <3>2 DEF RotateCommit, TypeOK
      <3>3. CASE DeleteCommit(a)
        BY <1>0, <2>2, <3>3 DEF DeleteCommit, TypeOK
      <3> QED
        BY <1>7, <3>1, <3>2, <3>3
    <2>8. Exists(n)' /\ node[n].apiKeySecretId # None =>
             node'[n].apiKeySecretId # None
      <3>1. CASE \E days \in Durations : CertifyCommit(a, days)
        BY <1>0, <2>2, <2>6, <3>1 DEF CertifyCommit, TypeOK, Row
      <3>2. CASE RotateCommit(a)
        <4>1. req[a].key \in Keys
          BY <1>0, <3>2, ReqFields DEF RotateCommit, Pending
        <4>2. node'[n].apiKeySecretId = SecretOf(req[a].key)
          BY <1>0, <2>2, <2>6, <3>2 DEF RotateCommit, TypeOK, Row
        <4> QED
          BY <4>1, <4>2, KeysDistinct
      <3>3. CASE DeleteCommit(a)
        <4>1. node' = [node EXCEPT ![n] = Deleted]
          BY <2>2, <3>3 DEF DeleteCommit
        <4> QED
          BY <1>0, <2>2, <4>1 DEF TypeOK, Exists
      <3> QED
        BY <1>7, <3>1, <3>2, <3>3
    <2> QED
      BY <1>5, <2>1, <2>2, <2>3, <2>4, <2>5, <2>7, <2>8
  <1>8. ASSUME NEW a \in Admins,
               \/ \E n \in Nodes : CertifyRead(a, n) \/ RotateRead(a, n)
                                    \/ DeleteRead(a, n)
               \/ RotateVault(a) \/ CleanUp(a) \/ RowGone(a) \/ Fail(a)
        PROVE  Linked' /\ PendingUntilLinked'
    <2>1. /\ node' = node
          /\ \A b \in Admins : b # a => req'[b] = req[b]
      BY <1>0, <1>8 DEF CertifyRead, RotateRead, DeleteRead, RotateVault, CleanUp,
                        RowGone, Fail, Proceed, TypeOK
    <2>2. req'[a].op \in {"idle", "certify", "rotateVault", "delete",
                           "rotateCommit"}
      BY <1>0, <1>8 DEF CertifyRead, RotateRead, DeleteRead, RotateVault, CleanUp,
                        RowGone, Fail, Proceed, TypeOK, Idle
    <2>3. ~Registers(a)'
      BY <2>2 DEF Registers
    <2>4. Reliable => ~Registers(a)
      <3>1. \/ req[a] = Idle
            \/ req[a].op \in {"certify", "rotateVault", "rotateCommit",
                              "delete", "cleanup"}
            \/ ~Reliable
        BY <1>8 DEF CertifyRead, RotateRead, DeleteRead, RotateVault, CleanUp,
                    RowGone, Fail
      <3> QED
        BY <3>1 DEF Registers, Idle
    <2> QED
      BY <1>3, <2>1, <2>3, <2>4 DEF Registers
  <1>9. CASE Tick \/ UNCHANGED registryVars
    BY <1>3, <1>9 DEF Tick, registryVars, Registers
  <1> QED
    BY <1>1, <1>2, <1>4, <1>6, <1>7, <1>8, <1>9 DEF RegistryNext, AdminStep

------------------------------------------------------------------------------
(* Requests of nodes *)

\* Every answer and every request that waits for the Vault is well-typed.
LEMMA AuthTypes ==
    ASSUME TypeOK, AuthTypeOK, [AuthNext]_authVars
    PROVE  AuthTypeOK'
  <1>1. ASSUME NEW c \in Callers, NEW claims \in SUBSET Nodes, NEW k \in Keys,
               NEW verdict \in Nodes \cup {Refused},
               Answer(c, claims, HashOf(k), verdict)
        PROVE  AuthTypeOK'
    <2>1. [at |-> "answered", claims |-> claims, digest |-> HashOf(k),
           verdict |-> verdict] \in Answers
      BY KeysDistinct DEF Answers
    <2> QED
      BY <1>1, <2>1 DEF Answer, AuthTypeOK
  <1>2. ASSUME NEW c \in Callers, AuthStep(c)
        PROVE  AuthTypeOK'
    <2>1. ASSUME NEW k \in Keys, Bearer(c, k)
          PROVE  AuthTypeOK'
      BY <1>1, <2>1 DEF Bearer, Holders
    <2>2. ASSUME NEW k \in Keys, NEW signed \in 0 .. MaxTime,
                 HmacUntimely(c, k, signed)
          PROVE  AuthTypeOK'
      BY <1>1, <2>2 DEF HmacUntimely
    <2>3. ASSUME NEW n \in Nodes, NEW k \in Keys, NEW signed \in 0 .. MaxTime,
                 HmacRead(c, n, k, signed)
          PROVE  AuthTypeOK'
      <3>1. CASE Certified(n) /\ node[n].apiKeySecretId # None
        <4>1. node[n].apiKeySecretId \in SecretIds
          BY <3>1, ExistsRow DEF Certified, Row
        <4>2. [at |-> "fetch", node |-> n, key |-> k,
               secret |-> node[n].apiKeySecretId] \in Fetching
          BY <4>1 DEF Fetching
        <4> QED
          BY <2>3, <3>1, <4>2 DEF HmacRead, AuthTypeOK
      <3>2. CASE ~(Certified(n) /\ node[n].apiKeySecretId # None)
        BY <1>1, <2>3, <3>2 DEF HmacRead
      <3> QED
        BY <3>1, <3>2
    <2>4. CASE HmacFetch(c)
      <3>1. auth[c] \in Fetching
        BY <2>4 DEF HmacFetch, AuthTypeOK, Answers, Quiet, Fetching
      <3>2. auth[c].node \in Nodes /\ auth[c].key \in Keys
        BY <3>1 DEF Fetching
      <3> QED
        BY <1>1, <2>4, <3>2 DEF HmacFetch, Failure
    <2> QED
      BY <1>2, <2>1, <2>2, <2>3, <2>4 DEF AuthStep
  <1> QED
    BY <1>2 DEF AuthNext, authVars, AuthTypeOK

\* The inductive invariant holds at the start.
LEMMA AuthInvInit == AuthInit => AuthInv
  <1> SUFFICES ASSUME AuthInit
               PROVE  AuthInv
    OBVIOUS
  <1>1. KeyInv
    BY KeyInit DEF AuthInit
  <1>2. AuthTypeOK
    BY DEF AuthInit, AuthTypeOK
  <1>3. Linked /\ PendingUntilLinked
    BY DEF AuthInit, RegistryInit, Linked, PendingUntilLinked, BeingRegistered,
           Exists, Idle
  <1> QED
    BY <1>1, <1>2, <1>3 DEF AuthInv

\* Every step keeps it.
LEMMA AuthInvStep ==
    ASSUME ~EarlyActions, AuthInv, [AuthNext]_authVars
    PROVE  AuthInv'
  <1>1. KeyInv' /\ Linked' /\ PendingUntilLinked'
    BY AuthRegistry, KeyStep, LinkStep DEF AuthInv
  <1>2. AuthTypeOK'
    BY AuthTypes DEF AuthInv, KeyInv, SecretInv
  <1> QED
    BY <1>1, <1>2 DEF AuthInv

\* The invariant of the registry and of the requests of nodes beside it.
THEOREM AuthInvariant ==
    ASSUME ~EarlyActions
    PROVE  AuthSpec => []AuthInv
  <1>1. AuthInv /\ [AuthNext]_authVars => AuthInv'
    BY AuthInvStep
  <1> QED
    BY AuthInvInit, <1>1, PTL DEF AuthSpec

\* Without failures, a node whose registration has returned may use both ways
\* for as long as it exists: "Node has no HMAC key configured" is never said.
THEOREM BothWaysStayOpen ==
    ASSUME ~EarlyActions
    PROVE  AuthSpec => []BothWaysOpen
  <1>1. ASSUME AuthInv
        PROVE  BothWaysOpen
    <2>1. SUFFICES ASSUME Reliable, NEW n \in Nodes, Exists(n),
                          ~BeingRegistered(n)
                   PROVE  \E k \in Keys :
                             /\ node[n].apiKeyHash = HashOf(k)
                             /\ node[n].apiKeySecretId = SecretOf(k)
                             /\ SecretOf(k) \in vault
      BY DEF BothWaysOpen
    <2>2. node[n].apiKeySecretId # None
      BY <1>1, <2>1 DEF AuthInv, Linked
    <2>3. node[n].apiKeySecretId \in SecretIds
      BY <1>1, <2>1, <2>2, ExistsRow DEF AuthInv, KeyInv, SecretInv, Row
    <2>4. PICK k \in Keys : node[n].apiKeySecretId = SecretOf(k)
      BY <2>3 DEF SecretIds
    <2>5. node[n].apiKeyHash = HashOf(k)
      BY <1>1, <2>1, <2>4 DEF AuthInv, KeyInv, KeysAgree
    <2>6. SecretOf(k) \in vault
      BY <1>1, <2>1, <2>2, <2>4 DEF AuthInv, KeyInv, SecretInv, RowSecretLive
    <2> QED
      BY <2>4, <2>5, <2>6
  <1> QED
    BY <1>1, AuthInvariant, PTL

------------------------------------------------------------------------------
(* The guard implements the credentials it promises *)

current == [n \in Nodes |-> Credential(n)]
calls == [c \in Callers |-> CallOf(c)]
Matching(claims, k) ==
    {n \in claims : Certified(n) /\ node[n].apiKeyHash = HashOf(k)}

\* The nodes that a digest entitles are those whose row holds it.
LEMMA EntitledMatch ==
    ASSUME NEW claims \in SUBSET Nodes, NEW k \in Keys
    PROVE  Credentials!Entitled(claims, HashOf(k)) = Matching(claims, k)
  <1>1. HashOf(k) # Nobody
    BY KeysDistinct
  <1> QED
    BY <1>1 DEF Credentials!Entitled, Matching, Credential

\* No replaced key is a credential, and no two nodes share one.
LEMMA SoundCredentials == KeyInv => Credentials!Sound(current, retired)
  <1> SUFFICES ASSUME KeyInv
               PROVE  Credentials!Sound(current, retired)
    OBVIOUS
  <1>1. ASSUME NEW n \in Nodes, Certified(n)
        PROVE  node[n].apiKeyHash \in KeyHashes \ retired
    <2>1. node[n].apiKeyHash \in KeyHashes /\ Exists(n)
      BY <1>1, ExistsRow DEF Certified, KeyInv, SecretInv, Row
    <2>2. PICK k \in Keys : node[n].apiKeyHash = HashOf(k)
      BY <2>1 DEF KeyHashes
    <2> QED
      BY <2>1, <2>2 DEF KeyInv, RetiredKeyDead
  <1>2. \A m, n \in Nodes :
           Certified(m) /\ Certified(n) /\ m # n =>
               node[m].apiKeyHash # node[n].apiKeyHash
    BY DEF KeyInv, HashesFresh, Certified
  <1>3. current \in [Nodes -> (KeyHashes \ retired) \cup {Nobody}]
    BY <1>1 DEF current, Credential
  <1>4. \A m, n \in Nodes :
           current[m] = current[n] /\ current[m] # Nobody => m = n
    BY <1>2 DEF current, Credential
  <1> QED
    BY <1>3, <1>4 DEF Credentials!Sound

\* An answer to a request is an answer to the call it is.
LEMMA AnswerCalls ==
    ASSUME AuthTypeOK, NEW c \in Callers, NEW claims, NEW k \in Keys,
           NEW verdict, Answer(c, claims, HashOf(k), verdict)
    PROVE  calls' = [calls EXCEPT ![c] =
                        Credentials!Answered(claims, HashOf(k), verdict)]
  <1>1. /\ auth'[c] = [at |-> "answered", claims |-> claims,
                       digest |-> HashOf(k), verdict |-> verdict]
        /\ \A d \in Callers : d # c => auth'[d] = auth[d]
    BY DEF Answer, AuthTypeOK
  <1>2. CallOf(c)' = Credentials!Answered(claims, HashOf(k), verdict)
    BY <1>1 DEF CallOf, Credentials!Answered
  <1>3. \A d \in Callers : d # c => CallOf(d)' = CallOf(d)
    BY <1>1 DEF CallOf
  <1> QED
    BY <1>2, <1>3 DEF calls

\* What an unchanged registry leaves unchanged.
LEMMA SameCredentials ==
    ASSUME UNCHANGED registryVars
    PROVE  current' = current /\ retired' = retired
  BY DEF registryVars, current, Credential, Certified, Exists

\* A caller that does not wait for the Vault has no call open.
LEMMA NotOpen ==
    ASSUME AuthTypeOK, NEW c \in Callers, auth[c].at # "fetch"
    PROVE  calls[c].at # "open"
  <1>1. auth[c] \in Answers \cup {Quiet}
    BY DEF AuthTypeOK, Fetching
  <1>2. auth[c].at # "open"
    BY <1>1 DEF Answers, Quiet
  <1> QED
    BY <1>2 DEF calls, CallOf

\* A request that is answered at once, with what is right or with a failure.
LEMMA AnswerLooksUp ==
    ASSUME AuthTypeOK, NEW c \in Callers, NEW claims \in SUBSET Nodes,
           NEW k \in Keys,
           NEW verdict \in Credentials!Truth(claims, HashOf(k))
                              \cup Credentials!Allowed,
           Answer(c, claims, HashOf(k), verdict), UNCHANGED registryVars,
           auth[c].at # "fetch"
    PROVE  Credentials!CallStep(c)
  <1>1. Credentials!LookUp(c, claims, HashOf(k))
    BY AnswerCalls, SameCredentials DEF Credentials!LookUp, calls, current
  <1>2. calls[c].at # "open"
    BY NotOpen
  <1>3. HashOf(k) \in KeyHashes
    BY KeysDistinct
  <1> QED
    BY <1>1, <1>2, <1>3 DEF Credentials!CallStep, calls

\* A Bearer request is answered by one look at the table.
LEMMA BearerCalls ==
    ASSUME AuthTypeOK, NEW c \in Callers, NEW k \in Keys, Bearer(c, k)
    PROVE  Credentials!CallStep(c)
  <1>1. PICK verdict \in IF Holders(k) = {} THEN {Refused} ELSE Holders(k) :
           Answer(c, Nodes, HashOf(k), verdict)
    BY DEF Bearer
  <1>2. Credentials!Entitled(Nodes, HashOf(k)) = Holders(k)
    BY EntitledMatch DEF Matching, Holders
  <1>3. verdict \in Credentials!Truth(Nodes, HashOf(k)) \cup Credentials!Allowed
    BY <1>1, <1>2 DEF Credentials!Truth
  <1> QED
    BY <1>1, <1>3, AnswerLooksUp DEF Bearer

\* A request out of its time names no node and is refused.
LEMMA UntimelyCalls ==
    ASSUME AuthTypeOK, NEW c \in Callers, NEW k \in Keys,
           NEW signed \in 0 .. MaxTime, HmacUntimely(c, k, signed)
    PROVE  Credentials!CallStep(c)
  <1>1. Refused \in Credentials!Truth({}, HashOf(k))
    BY DEF Credentials!Truth, Credentials!Entitled
  <1> QED
    BY <1>1, AnswerLooksUp DEF HmacUntimely

\* The row of a certified node: its secret, if it has one, is in the Vault and
\* holds the key of its digest; it has one if nothing fails.
LEMMA CertifiedRow ==
    ASSUME AuthInv, NEW n \in Nodes, Certified(n)
    PROVE  /\ Reliable => node[n].apiKeySecretId # None
           /\ node[n].apiKeySecretId # None =>
                 \E j \in Keys : /\ node[n].apiKeySecretId = SecretOf(j)
                                /\ node[n].apiKeyHash = HashOf(j)
                                /\ SecretOf(j) \in vault
  <1>1. Exists(n) /\ ~BeingRegistered(n)
    BY DEF Certified, AuthInv, PendingUntilLinked
  <1>2. Reliable => node[n].apiKeySecretId # None
    BY <1>1 DEF AuthInv, Linked
  <1>3. ASSUME node[n].apiKeySecretId # None
        PROVE  \E j \in Keys : /\ node[n].apiKeySecretId = SecretOf(j)
                               /\ node[n].apiKeyHash = HashOf(j)
                               /\ SecretOf(j) \in vault
    <2>1. node[n].apiKeySecretId \in SecretIds
      BY <1>1, <1>3, ExistsRow DEF AuthInv, KeyInv, SecretInv, Row
    <2>2. PICK j \in Keys : node[n].apiKeySecretId = SecretOf(j)
      BY <2>1 DEF SecretIds
    <2> QED
      BY <1>1, <1>3, <2>2 DEF AuthInv, KeyInv, SecretInv, KeysAgree, RowSecretLive
  <1> QED
    BY <1>2, <1>3

\* An HMAC request is open once its row was read: the secret it is going to
\* fetch verifies exactly the signatures that were right at that moment.
LEMMA HmacReadCalls ==
    ASSUME AuthInv, NEW c \in Callers, NEW n \in Nodes, NEW k \in Keys,
           NEW signed \in 0 .. MaxTime, HmacRead(c, n, k, signed)
    PROVE  Credentials!CallStep(c)
  <1>0. AuthTypeOK
    BY DEF AuthInv
  <1>1. CASE Certified(n) /\ node[n].apiKeySecretId # None
    <2>1. PICK j \in Keys : /\ node[n].apiKeySecretId = SecretOf(j)
                            /\ node[n].apiKeyHash = HashOf(j)
      BY <1>1, CertifiedRow
    <2> DEFINE seen == IF Verifies(SecretOf(j), k) THEN {n} ELSE {Refused}
    <2>2. seen = Credentials!Truth({n}, HashOf(k))
      <3>1. Verifies(SecretOf(j), k) <=> node[n].apiKeyHash = HashOf(k)
        BY <2>1, KeysDistinct DEF Verifies
      <3>2. Credentials!Entitled({n}, HashOf(k)) =
               IF node[n].apiKeyHash = HashOf(k) THEN {n} ELSE {}
        <4>1. Credentials!Entitled({n}, HashOf(k)) = Matching({n}, k)
          BY EntitledMatch
        <4>2. Matching({n}, k) = IF node[n].apiKeyHash = HashOf(k)
                                 THEN {n} ELSE {}
          BY <1>1 DEF Matching
        <4> QED
          BY <4>1, <4>2
      <3> QED
        BY <3>1, <3>2 DEF Credentials!Truth
    <2>3. /\ auth'[c] = [at |-> "fetch", node |-> n, key |-> k,
                         secret |-> SecretOf(j)]
          /\ \A d \in Callers : d # c => auth'[d] = auth[d]
      BY <1>0, <1>1, <2>1 DEF HmacRead, AuthTypeOK
    <2>4. CallOf(c)' = Credentials!Open({n}, HashOf(k), seen)
      BY <2>3 DEF CallOf, Credentials!Open
    <2>5. calls' = [calls EXCEPT ![c] =
                       Credentials!Open({n}, HashOf(k),
                                        Credentials!Truth({n}, HashOf(k)))]
      <3>1. \A d \in Callers : d # c => CallOf(d)' = CallOf(d)
        BY <2>3 DEF CallOf
      <3> QED
        BY <2>2, <2>4, <3>1 DEF calls
    <2>6. Credentials!Begin(c, {n}, HashOf(k))
      BY <2>5, SameCredentials DEF HmacRead, Credentials!Begin, calls, current
    <2>7. calls[c].at # "open"
      BY <1>0, NotOpen DEF HmacRead
    <2>8. HashOf(k) \in KeyHashes /\ {n} \in SUBSET Nodes
      BY KeysDistinct
    <2> QED
      BY <2>6, <2>7, <2>8 DEF Credentials!CallStep, calls
  <1>2. CASE ~(Certified(n) /\ node[n].apiKeySecretId # None)
    <2>1. Reliable => ~Certified(n)
      BY <1>2, CertifiedRow
    <2>2. ~Certified(n) => Credentials!Entitled({n}, HashOf(k)) = {}
      BY EntitledMatch DEF Matching
    <2>3. Refused \in Credentials!Truth({n}, HashOf(k)) \cup Credentials!Allowed
      BY <2>1, <2>2 DEF Credentials!Truth, Credentials!Allowed
    <2>4. Answer(c, {n}, HashOf(k), Refused) /\ UNCHANGED registryVars
          /\ auth[c].at # "fetch"
      BY <1>2 DEF HmacRead
    <2> QED
      BY <1>0, <2>3, <2>4, AnswerLooksUp
  <1> QED
    BY <1>1, <1>2

\* The secret that is fetched decides as the row did, or is gone because the
\* key was replaced meanwhile.
LEMMA HmacFetchCalls ==
    ASSUME AuthInv, NEW c \in Callers, HmacFetch(c)
    PROVE  Credentials!CallStep(c)
  <1>0. AuthTypeOK
    BY DEF AuthInv
  <1>1. auth[c] \in Fetching
    BY <1>0 DEF HmacFetch, AuthTypeOK, Answers, Quiet, Fetching
  <1>2. PICK n \in Nodes, k \in Keys, s \in SecretIds :
           auth[c] = [at |-> "fetch", node |-> n, key |-> k, secret |-> s]
    BY <1>1 DEF Fetching
  <1>3. PICK verdict \in Failure \cup {IF s \in vault /\ Verifies(s, k)
                                       THEN n ELSE Refused} :
           Answer(c, {n}, HashOf(k), verdict)
    BY <1>2 DEF HmacFetch
  <1> DEFINE seen == IF Verifies(s, k) THEN {n} ELSE {Refused}
  <1>4. CallOf(c) = Credentials!Open({n}, HashOf(k), seen)
    BY <1>2 DEF CallOf, Credentials!Open
  <1>5. verdict \in seen \cup Credentials!Allowed
                      \cup Credentials!Truth({n}, HashOf(k))
    <2>1. CASE verdict \in Failure
      BY <2>1 DEF Failure, Credentials!Allowed
    <2>2. CASE verdict \notin Failure /\ s \in vault /\ Verifies(s, k)
      BY <1>3, <2>2
    <2>3. CASE verdict \notin Failure /\ ~Verifies(s, k)
      BY <1>3, <2>3
    <2>4. CASE verdict \notin Failure /\ s \notin vault /\ Verifies(s, k)
      <3>1. verdict = Refused
        BY <1>3, <2>4
      <3>2. CASE ~Reliable
        BY <3>1, <3>2 DEF Credentials!Allowed
      <3>3. CASE Reliable
        <4>1. ~(Certified(n) /\ node[n].apiKeyHash = HashOf(k))
          <5>1. SUFFICES ASSUME Certified(n), node[n].apiKeyHash = HashOf(k)
                         PROVE  FALSE
            OBVIOUS
          <5>2. PICK j \in Keys : node[n].apiKeyHash = HashOf(j)
                                  /\ SecretOf(j) \in vault
            BY <3>3, <5>1, CertifiedRow
          <5> QED
            BY <2>4, <5>1, <5>2, KeysDistinct DEF Verifies
        <4>2. Credentials!Entitled({n}, HashOf(k)) = {}
          BY <4>1, EntitledMatch DEF Matching
        <4> QED
          BY <3>1, <4>2 DEF Credentials!Truth
      <3> QED
        BY <3>2, <3>3
    <2> QED
      BY <2>1, <2>2, <2>3, <2>4
  <1>6. calls' = [calls EXCEPT ![c] =
                     Credentials!Answered({n}, HashOf(k), verdict)]
    BY <1>0, <1>3, AnswerCalls
  <1>7. /\ calls[c].at = "open" /\ calls[c].claims = {n}
        /\ calls[c].digest = HashOf(k) /\ calls[c].seen = seen
    BY <1>4 DEF calls, Credentials!Open
  <1> HIDE DEF seen
  <1>8. Credentials!Settle(c)
    BY <1>5, <1>6, <1>7, SameCredentials
       DEF HmacFetch, Credentials!Settle, calls, current
  <1> QED
    BY <1>8 DEF Credentials!CallStep

\* A step of the registry is a change of credentials.
LEMMA RegistryChanges ==
    ASSUME AuthInv, AuthInv', [RegistryNext]_registryVars, UNCHANGED auth
    PROVE  Credentials!Change
  <1>1. Credentials!Sound(current, retired)'
    <2>1. KeyInv'
      BY DEF AuthInv
    <2> QED
      BY <2>1, SoundCredentials, PTL
  <1>2. calls' = calls
    BY DEF calls, CallOf
  <1>3. retired' \in SUBSET KeyHashes /\ retired \subseteq retired'
    BY RetiredGrows DEF AuthInv, KeyInv, SecretInv, TypeOK
  <1> QED
    BY <1>1, <1>2, <1>3 DEF Credentials!Change, Credentials!Sound, calls, current

\* Every step is one of the credentials, or changes nothing of theirs.
LEMMA CredentialStep ==
    ASSUME ~EarlyActions, AuthInv, [AuthNext]_authVars
    PROVE  [Credentials!Next]_(Credentials!credentialVars)
  <1>0. AuthTypeOK /\ AuthInv'
    BY AuthInvStep DEF AuthInv
  <1>1. CASE RegistryNext /\ UNCHANGED auth
    BY <1>0, <1>1, RegistryChanges DEF Credentials!Next
  <1>2. ASSUME NEW c \in Callers, AuthStep(c)
        PROVE  Credentials!Next
    <2>1. ASSUME NEW k \in Keys, Bearer(c, k)
          PROVE  Credentials!CallStep(c)
      BY <1>0, <2>1, BearerCalls
    <2>2. ASSUME NEW k \in Keys, NEW signed \in 0 .. MaxTime,
                 HmacUntimely(c, k, signed)
          PROVE  Credentials!CallStep(c)
      BY <1>0, <2>2, UntimelyCalls
    <2>3. ASSUME NEW n \in Nodes, NEW k \in Keys, NEW signed \in 0 .. MaxTime,
                 HmacRead(c, n, k, signed)
          PROVE  Credentials!CallStep(c)
      BY <2>3, HmacReadCalls
    <2>4. ASSUME HmacFetch(c)
          PROVE  Credentials!CallStep(c)
      BY <1>0, <2>4, HmacFetchCalls
    <2>5. \/ \E k \in Keys : Bearer(c, k)
          \/ \E k \in Keys, signed \in 0 .. MaxTime : HmacUntimely(c, k, signed)
          \/ \E n \in Nodes, k \in Keys, signed \in 0 .. MaxTime :
                HmacRead(c, n, k, signed)
          \/ HmacFetch(c)
      BY <1>2 DEF AuthStep
    <2>6. Credentials!CallStep(c)
      BY <2>1, <2>2, <2>3, <2>4, <2>5
    <2> QED
      BY <2>6 DEF Credentials!Next
  <1>3. CASE UNCHANGED authVars
    <2>1. node' = node /\ now' = now /\ retired' = retired /\ auth' = auth
      BY <1>3 DEF authVars
    <2>2. ASSUME NEW c \in Callers
          PROVE  CallOf(c)' = CallOf(c)
      BY <2>1 DEF CallOf
    <2>3. calls' = calls
      BY <2>2 DEF calls
    <2>4. current' = current
      BY <2>1 DEF current, Credential, Certified, Exists
    <2> QED
      BY <2>1, <2>3, <2>4 DEF Credentials!credentialVars, calls, current
  <1> QED
    BY <1>1, <1>2, <1>3 DEF AuthNext

\* At the start nobody may authenticate and nobody calls.
LEMMA CredentialInit == AuthInit => Credentials!Init
  <1> SUFFICES ASSUME AuthInit
               PROVE  Credentials!Init
    OBVIOUS
  <1>1. Credentials!Sound(current, retired)
    BY KeyInit, SoundCredentials DEF AuthInit
  <1>2. retired \in SUBSET KeyHashes
    BY DEF AuthInit, RegistryInit
  <1>3. calls = [c \in Callers |-> Quiet]
    BY DEF AuthInit, calls, CallOf, Quiet
  <1> QED
    BY <1>1, <1>2, <1>3
       DEF Credentials!Init, Credentials!Sound, Credentials!Quiet, Quiet, calls,
           current

\* The guard implements NodeCredentials: every answer was right when the
\* request came in or is right when it is given, whatever rotations, deletions
\* and decertifications overtake it, and no replaced key is accepted.
THEOREM AuthRefinement ==
    ASSUME ~EarlyActions
    PROVE  AuthSpec => ImplementsCredentials
  <1>1. AuthInv /\ [AuthNext]_authVars =>
           [Credentials!Next]_(Credentials!credentialVars)
    BY CredentialStep
  <1> QED
    BY CredentialInit, <1>1, AuthInvariant, PTL
       DEF AuthSpec, ImplementsCredentials, Credentials!CredentialSpec
------------------------------------------------------------------------------
(* The registry, as it is used here *)

\* Requests of nodes are steps of no admin request.
THEOREM AuthIsRegistry == AuthSpec => RegistrySpec
  <1>1. AuthInit => RegistryInit
    BY DEF AuthInit
  <1> QED
    BY <1>1, AuthRegistry, PTL DEF AuthSpec, RegistrySpec

\* So the Vault holds nothing that no row and no request knows of, a
\* decertification is marked and only a recertification ends it, whatever
\* nodes authenticate, as long as admin requests neither overlap nor fail.
THEOREM AuthSerialRegistry ==
    ASSUME Serial, Reliable
    PROVE  AuthSpec => []VaultTight /\ []DecertifiedMarked /\ RecertifyOnly
  BY AuthIsRegistry, SerialVaultTight, SerialMarked, SerialRecertify, PTL
==============================================================================
