------------------------- MODULE TemplateStoreProofs -------------------------
(***************************************************************************)
(* TemplateStore for every set of templates, texts and admin requests and  *)
(* every bound: its inductive invariant and what follows from it.          *)
(***************************************************************************)
EXTENDS TemplateStore, TLAPS

USE StoreAssumption

\* Tables as a seed leaves them, and no transaction.
LEMMA InitInv == StoreInit => StoreInv
  <1> SUFFICES ASSUME StoreInit
               PROVE  StoreInv
    OBVIOUS
  <1>1. \A h \in history : h \in HistoryEntry /\ h.hash = Hash[h.text]
    BY DEF StoreInit, Entry, HistoryEntry
  <1>2. TypeOK
    BY <1>1 DEF StoreInit, TypeOK
  <1>3. RowAttested
    <2> SUFFICES ASSUME NEW t \in Templates, Exists(t)
                 PROVE  \E h \in history :
                          /\ Attests(h, t, template[t].version, Hash[template[t].text])
                          /\ h.text = template[t].text
      BY DEF RowAttested
    <2> DEFINE h == Entry(t, template[t].version, template[t].text,
                          Hash[template[t].text])
    <2>1. h \in history
      BY DEF StoreInit, AfterSeed
    <2>2. /\ h.template = t /\ h.version = template[t].version
          /\ h.text = template[t].text /\ h.hash = Hash[template[t].text]
      BY DEF Entry
    <2> HIDE DEF h
    <2> QED
      BY <2>1, <2>2 DEF Attests
  <1>4. HistoryHashed
    BY <1>1 DEF HistoryHashed
  <1>5. TxGrounded
    BY DEF StoreInit, TxGrounded, Idle
  <1> QED
    BY <1>2, <1>3, <1>4, <1>5 DEF StoreInv

\* What a transaction's record looks like, read off its kind.
LEMMA TxShape ==
    ASSUME TypeOK, NEW a \in Admins
    PROVE  /\ tx[a] \in UpdateTx \cup RollbackTx \cup RestoreTx \cup DeleteTx
                            \cup {Idle}
           /\ tx[a].op = "update" => tx[a] \in UpdateTx
           /\ tx[a].op = "rollback" => tx[a] \in RollbackTx
           /\ tx[a].op = "restore" => tx[a] \in RestoreTx
           /\ tx[a].op = "delete" => tx[a] \in DeleteTx
           /\ tx[a].op # "idle" => tx[a] # Idle
  <1>1. tx[a] \in UpdateTx \cup RollbackTx \cup RestoreTx \cup DeleteTx \cup {Idle}
    BY DEF TypeOK
  <1> QED
    BY <1>1 DEF UpdateTx, RollbackTx, RestoreTx, DeleteTx, Idle

\* Every write of the store has one form: an entry with the row's new version
\* and text goes into the history with the row.
Writes(t, version, text, variables, isActive) ==
    /\ template' = [template EXCEPT ![t] =
          [version |-> version, text |-> text, variables |-> variables,
           isActive |-> isActive]]
    /\ history' = history \cup {Entry(t, version, text, Hash[text])}

\* What an entry at version n + 1 does to the holes of its template: none to
\* those up to n, and it leaves none at n + 1.
LEMMA HolesKept ==
    ASSUME NEW t, NEW n \in Nat, NEW e, e.template = t, e.version = n + 1,
           history' = history \cup {e}
    PROVE  /\ Holes(t, n + 1)' = Holes(t, n)
           /\ \A m \in Nat : Holes(t, m) = Holes(t, n) => Holes(t, m)' = Holes(t, n)
           /\ \A u, m : u # t => Holes(u, m)' = Holes(u, m)
  <1>1. ASSUME NEW v \in 1 .. (n + 1)
        PROVE  v \in Holes(t, n + 1)' <=> v \in Holes(t, n)
    BY <1>1 DEF Holes
  <1>2. Holes(t, n + 1)' = Holes(t, n)
    <2>1. Holes(t, n + 1)' \subseteq 1 .. (n + 1) /\ Holes(t, n) \subseteq 1 .. (n + 1)
      BY DEF Holes
    <2> QED
      BY <1>1, <2>1
  <1>3. ASSUME NEW m \in Nat, Holes(t, m) = Holes(t, n)
        PROVE  Holes(t, m)' = Holes(t, n)
    <2>1. n + 1 \notin Holes(t, m)
      BY <1>3 DEF Holes
    <2>2. ASSUME NEW v
          PROVE  v \in Holes(t, m)' <=> v \in Holes(t, m)
      BY <2>1 DEF Holes
    <2> QED
      BY <1>3, <2>2
  <1>4. ASSUME NEW u, NEW m, u # t
        PROVE  Holes(u, m)' = Holes(u, m)
    <2>1. ASSUME NEW v
          PROVE  v \in Holes(u, m)' <=> v \in Holes(u, m)
      BY <1>4 DEF Holes
    <2> QED
      BY <2>1
  <1> QED
    BY <1>2, <1>3, <1>4

\* An update or a rollback writes the version after the one it read, below
\* which are the holes that are below the row's version.
Rewrites(a) ==
    \E t \in Templates, n \in ReadVersions, text \in Texts,
       variables \in VarLists :
        /\ t = tx[a].template /\ n = tx[a].version
        /\ tx[a].op \in {"update", "restore"}
        /\ Exists(t)
        /\ Holes(t, n) = Holes(t, template[t].version)
        /\ Writes(t, n + 1, text, variables, template[t].isActive)
        /\ tx' = [tx EXCEPT ![a] = Idle]

\* The commit of updateTemplate is a write of that form.
LEMMA UpdateRewrites ==
    ASSUME TypeOK, TxGrounded, NEW a \in Admins, UpdateCommit(a)
    PROVE  Rewrites(a)
  <1> DEFINE t == tx[a].template
             text == Merge(tx[a].text, template[t].text)
             variables == Merge(tx[a].variables, template[t].variables)
  <1>1. tx[a] \in UpdateTx /\ tx[a] # Idle
    BY TxShape DEF UpdateCommit
  <1>2. t \in Templates /\ Exists(t) /\ template[t] \in Row
    BY <1>1 DEF UpdateTx, TxGrounded, TypeOK, Exists
  <1>3. /\ tx[a].version \in ReadVersions
        /\ Holes(t, tx[a].version) = Holes(t, template[t].version)
    BY <1>1 DEF UpdateTx, TxGrounded
  <1>4. text \in Texts /\ variables \in VarLists
    BY <1>1, <1>2 DEF Merge, UpdateTx, Row
  <1>5. Writes(t, tx[a].version + 1, text, variables, template[t].isActive)
    BY DEF UpdateCommit, Writes, Rewrite
  <1>6. tx' = [tx EXCEPT ![a] = Idle] /\ tx[a].op \in {"update", "restore"}
    BY DEF UpdateCommit
  <1>7. t = tx[a].template
    OBVIOUS
  <1> HIDE DEF t, text, variables
  <1> QED
    BY <1>2, <1>3, <1>4, <1>5, <1>6, <1>7 DEF Rewrites

\* So is the commit of rollbackTemplate: the entry it copies is hashed.
LEMMA RollbackRewrites ==
    ASSUME TypeOK, TxGrounded, HistoryHashed, NEW a \in Admins, RollbackCommit(a)
    PROVE  Rewrites(a)
  <1> DEFINE t == tx[a].template
             h == tx[a].entry
  <1>1. tx[a] \in RestoreTx /\ tx[a] # Idle
    BY TxShape DEF RollbackCommit
  <1>2. t \in Templates /\ Exists(t) /\ template[t] \in Row
    BY <1>1 DEF RestoreTx, TxGrounded, TypeOK, Exists
  <1>3. /\ tx[a].version \in ReadVersions
        /\ Holes(t, tx[a].version) = Holes(t, template[t].version)
    BY <1>1 DEF RestoreTx, TxGrounded
  <1>4. h.text \in Texts /\ h.hash = Hash[h.text] /\ template[t].variables \in VarLists
    BY <1>1, <1>2 DEF RestoreTx, HistoryEntry, HistoryHashed, TxGrounded, Row
  <1>5. Writes(t, tx[a].version + 1, h.text, template[t].variables, template[t].isActive)
    BY <1>4 DEF RollbackCommit, Writes, Rewrite
  <1>6. tx' = [tx EXCEPT ![a] = Idle] /\ tx[a].op \in {"update", "restore"}
    BY DEF RollbackCommit
  <1>7. t = tx[a].template
    OBVIOUS
  <1> HIDE DEF t, h
  <1> QED
    BY <1>2, <1>3, <1>4, <1>5, <1>6, <1>7 DEF Rewrites

\* Any write keeps the invariant.
LEMMA WritesInv ==
    ASSUME StoreInv, NEW t \in Templates, NEW n \in 0 .. MaxVersion,
           NEW text \in Texts, NEW variables \in VarLists, NEW isActive \in BOOLEAN,
           Exists(t) => Holes(t, n) = Holes(t, template[t].version),
           Writes(t, n + 1, text, variables, isActive),
           tx' \in [Admins -> UpdateTx \cup RollbackTx \cup RestoreTx \cup DeleteTx \cup {Idle}],
           \A b \in Admins : tx'[b] \in {tx[b], Idle}
    PROVE  StoreInv'
  <1> DEFINE row == [version |-> n + 1, text |-> text, variables |-> variables,
                     isActive |-> isActive]
             e == Entry(t, n + 1, text, Hash[text])
  <1>1. row \in Row /\ e \in HistoryEntry
    BY DEF Row, HistoryEntry, Entry, Versions
  <1>2. template' = [template EXCEPT ![t] = row] /\ history' = history \cup {e}
    BY DEF Writes
  <1>3. TypeOK'
    BY <1>1, <1>2 DEF TypeOK, StoreInv
  <1>4. template'[t] = row /\ \A u \in Templates : u # t => template'[u] = template[u]
    BY <1>2 DEF StoreInv, TypeOK
  <1>5. \A u \in Templates : Exists(u) => Exists(u)'
    BY <1>1, <1>4 DEF Exists
  <1>6. /\ e \in history'
         /\ e.template = t /\ e.version = n + 1
         /\ e.text = text /\ e.hash = Hash[text]
         /\ row.version = n + 1 /\ row.text = text
    BY <1>2 DEF Entry
  <1>7. RowAttested'
    <2> SUFFICES ASSUME NEW u \in Templates, Exists(u)'
                 PROVE  \E h \in history' :
                           /\ h.template = u
                           /\ h.version = template'[u].version
                           /\ h.hash = Hash[template'[u].text]
                           /\ h.text = template'[u].text
      BY DEF RowAttested, Attests
    <2>1. CASE u = t
      <3> HIDE DEF row, e
      <3> QED
        BY <2>1, <1>4, <1>6
    <2>2. CASE u # t
      <3> HIDE DEF row, e
      <3> QED
        BY <2>2, <1>2, <1>4 DEF RowAttested, StoreInv, Attests, Exists
    <2> QED
      BY <2>1, <2>2
  <1>10. HistoryHashed'
    BY <1>2 DEF HistoryHashed, StoreInv, Entry
  <1>11. TxGrounded'
    <2> SUFFICES ASSUME NEW b \in Admins, tx'[b] # Idle
                 PROVE  /\ Exists(tx[b].template)'
                        /\ tx'[b].op \in {"update", "rollback", "restore"} =>
                               Holes(tx[b].template, tx[b].version)' =
                                   Holes(tx[b].template,
                                         template[tx[b].template].version)'
                        /\ tx'[b].op = "restore" => tx'[b].entry \in history'
      BY DEF TxGrounded, Idle
    <2>1. tx'[b] = tx[b] /\ tx[b] # Idle
      OBVIOUS
    <2>2. PICK u : u = tx[b].template
      OBVIOUS
    <2>3. u \in Templates /\ Exists(u)
      BY <2>1, <2>2, TxShape
         DEF StoreInv, TxGrounded, UpdateTx, RollbackTx, RestoreTx, DeleteTx
    <2>4. Exists(u)'
      BY <1>5, <2>3
    <2>5. ASSUME tx[b].op \in {"update", "rollback", "restore"}
          PROVE  Holes(u, tx[b].version)' = Holes(u, template[u].version)'
      <3>1. PICK m : m = tx[b].version
        OBVIOUS
      <3>2. m \in Nat /\ Holes(u, m) = Holes(u, template[u].version)
        BY <2>2, <2>5, <3>1, TxShape
           DEF StoreInv, TxGrounded, UpdateTx, RollbackTx, RestoreTx, ReadVersions
      <3>3. CASE u = t
        <4>1. Holes(t, m) = Holes(t, n)
          BY <2>3, <3>2, <3>3
        <4>2. Holes(t, m)' = Holes(t, n) /\ Holes(t, n + 1)' = Holes(t, n)
          BY <1>2, <1>6, <3>2, <4>1, HolesKept
        <4>3. template'[u].version = n + 1
          BY <1>4, <1>6, <3>3
        <4> QED
          BY <2>1, <3>1, <3>3, <4>2, <4>3 DEF Holes
      <3>4. CASE u # t
        <4>1. PICK k : k = template[u].version
          OBVIOUS
        <4>2. Holes(u, m)' = Holes(u, m) /\ Holes(u, k)' = Holes(u, k)
          BY <1>2, <1>6, <3>4, HolesKept
        <4>3. template'[u].version = k
          BY <1>4, <2>3, <3>4, <4>1
        <4> QED
          BY <2>1, <3>1, <3>2, <4>1, <4>2, <4>3 DEF Holes
      <3> QED
        BY <3>3, <3>4
    <2>6. tx[b].op = "restore" => tx[b].entry \in history'
      BY <1>2 DEF StoreInv, TxGrounded
    <2> QED
      BY <2>1, <2>2, <2>4, <2>5, <2>6 DEF Exists, Holes
  <1> QED
    BY <1>3, <1>7, <1>10, <1>11 DEF StoreInv

\* A step that only reads: the store stays as it is and one request takes on
\* a record that describes what it read.
LEMMA ReadInv ==
    ASSUME StoreInv, UNCHANGED << template, history >>,
           NEW a \in Admins,
           NEW record \in UpdateTx \cup RollbackTx \cup RestoreTx \cup DeleteTx \cup {Idle},
           tx' = [tx EXCEPT ![a] = record],
           record # Idle => Exists(record.template),
           record.op \in {"update", "rollback", "restore"} =>
               Holes(record.template, record.version) =
                   Holes(record.template, template[record.template].version),
           record.op = "restore" => record.entry \in history
    PROVE  StoreInv'
  <1>1. TypeOK'
    BY DEF StoreInv, TypeOK
  <1>2. RowAttested' /\ HistoryHashed'
    BY DEF StoreInv, RowAttested, HistoryHashed, Attests, Exists
  <1>3. TxGrounded'
    BY DEF StoreInv, TypeOK, TxGrounded, Holes, Exists
  <1> QED
    BY <1>1, <1>2, <1>3 DEF StoreInv

\* A soft delete touches neither version nor text.
LEMMA DeleteKeeps ==
    ASSUME StoreInv, NEW a \in Admins, DeleteCommit(a)
    PROVE  /\ TypeOK'
           /\ history' = history
           /\ \A u \in Templates :
                /\ Exists(u) <=> Exists(u)'
                /\ Exists(u) => /\ template'[u].version = template[u].version
                               /\ template'[u].text = template[u].text
  <1> DEFINE t == tx[a].template
  <1>1. tx[a] \in DeleteTx /\ tx[a] # Idle
    BY TxShape DEF DeleteCommit, StoreInv
  <1>2. t \in Templates /\ Exists(t) /\ template[t] \in Row
    BY <1>1 DEF DeleteTx, StoreInv, TxGrounded, TypeOK, Exists
  <1>3. TypeOK'
    BY <1>2 DEF DeleteCommit, StoreInv, TypeOK, Row
  <1>4. \A u \in Templates :
           /\ Exists(u)' <=> Exists(u)
           /\ Exists(u) => /\ template'[u].version = template[u].version
                          /\ template'[u].text = template[u].text
    <2> SUFFICES ASSUME NEW u \in Templates
                 PROVE  /\ Exists(u)' <=> Exists(u)
                        /\ Exists(u) => /\ template'[u].version = template[u].version
                                       /\ template'[u].text = template[u].text
      OBVIOUS
    <2>1. CASE u = t
      <3>1. template'[t] = [template[t] EXCEPT !.isActive = FALSE]
        BY <1>2 DEF DeleteCommit, StoreInv, TypeOK
      <3>2. template'[t] \in Row
        BY <1>2, <3>1 DEF Row
      <3> QED
        BY <2>1, <1>2, <3>1, <3>2 DEF Exists, Row
    <2>2. CASE u # t
      BY <2>2 DEF DeleteCommit, StoreInv, TypeOK, Exists
    <2> QED
      BY <2>1, <2>2
  <1> QED
    BY <1>3, <1>4 DEF DeleteCommit

\* The commit of deleteTemplate keeps the invariant.
LEMMA DeleteInv ==
    ASSUME StoreInv, NEW a \in Admins, DeleteCommit(a)
    PROVE  StoreInv'
  <1>3. TypeOK'
    BY DeleteKeeps
  <1>4. \A u \in Templates :
           /\ Exists(u)' <=> Exists(u)
           /\ Exists(u) => /\ template'[u].version = template[u].version
                          /\ template'[u].text = template[u].text
    BY DeleteKeeps
  <1>5. history' = history /\ tx' = [tx EXCEPT ![a] = Idle]
    BY DEF DeleteCommit
  <1>6. RowAttested'
    BY <1>4, <1>5 DEF StoreInv, RowAttested, Attests
  <1>8. HistoryHashed'
    BY <1>5 DEF StoreInv, HistoryHashed
  <1>9. TxGrounded'
    <2>1. \A b \in Admins : tx'[b] \in {tx[b], Idle}
      BY <1>5 DEF StoreInv, TypeOK
    <2>2. \A b \in Admins : tx[b] # Idle => tx[b].template \in Templates
      BY TxShape DEF StoreInv, UpdateTx, RollbackTx, RestoreTx, DeleteTx
    <2> QED
      BY <1>4, <1>5, <2>1, <2>2 DEF StoreInv, TxGrounded, Holes, Idle
  <1> QED
    BY <1>3, <1>6, <1>8, <1>9 DEF StoreInv

\* An update or a rollback keeps the invariant, stale as its read may be.
LEMMA RewritesInv ==
    ASSUME StoreInv, NEW a \in Admins, Rewrites(a)
    PROVE  StoreInv'
  <1>1. PICK t \in Templates, n \in ReadVersions, text \in Texts,
             variables \in VarLists :
           /\ Exists(t)
           /\ Holes(t, n) = Holes(t, template[t].version)
           /\ Writes(t, n + 1, text, variables, template[t].isActive)
           /\ tx' = [tx EXCEPT ![a] = Idle]
    BY DEF Rewrites
  <1>2. template[t].isActive \in BOOLEAN
    BY <1>1 DEF StoreInv, TypeOK, Exists, Row
  <1>3. /\ tx' \in [Admins -> UpdateTx \cup RollbackTx \cup RestoreTx
                                   \cup DeleteTx \cup {Idle}]
        /\ \A b \in Admins : tx'[b] \in {tx[b], Idle}
    BY <1>1 DEF StoreInv, TypeOK
  <1> QED
    BY <1>1, <1>2, <1>3, WritesInv DEF ReadVersions

\* Each step of each admin request keeps the invariant.
LEMMA StepInv == StoreInv /\ [StoreNext]_storeVars => StoreInv'
  <1> SUFFICES ASSUME StoreInv, [StoreNext]_storeVars
               PROVE  StoreInv'
    OBVIOUS
  <1>1. CASE UNCHANGED storeVars
    BY <1>1 DEF storeVars, StoreInv, TypeOK, RowAttested,
                HistoryHashed, TxGrounded, Attests, Holes, Exists
  <1>2. ASSUME NEW a \in Admins, AdminStep(a)
        PROVE  StoreInv'
    <2>1. ASSUME NEW t \in Templates, NEW text \in Texts,
                 NEW variables \in VarLists, CreateTemplate(a, t, text, variables)
          PROVE  StoreInv'
      <3>1. Writes(t, 0 + 1, text, variables, TRUE) /\ tx' = tx
        BY <2>1 DEF CreateTemplate, Writes
      <3>2. tx' \in [Admins -> UpdateTx \cup RollbackTx \cup RestoreTx
                                   \cup DeleteTx \cup {Idle}]
        BY <3>1 DEF StoreInv, TypeOK
      <3>3. \A b \in Admins : tx'[b] \in {tx[b], Idle}
        BY <3>1
      <3>4. 0 \in 0 .. MaxVersion
        OBVIOUS
      <3>5. ~Exists(t)
        BY <2>1 DEF CreateTemplate
      <3> QED
        BY <3>1, <3>2, <3>3, <3>4, <3>5, WritesInv, Zenon
    <2>2. ASSUME NEW t \in Templates, NEW text \in Texts \cup {Keep},
                 NEW variables \in VarLists \cup {Keep},
                 UpdateRead(a, t, text, variables)
          PROVE  StoreInv'
      <3> DEFINE record == [op |-> "update", template |-> t,
                            version |-> template[t].version,
                            text |-> text, variables |-> variables]
      <3>1. template[t].version \in ReadVersions /\ Exists(t)
        BY <2>2 DEF UpdateRead, StoreInv, TypeOK, Row, Versions, ReadVersions, Exists
      <3>2. record \in UpdateTx /\ record.version = template[t].version
        BY <3>1 DEF UpdateTx
      <3>3. record.op = "update" /\ record.template = t
        OBVIOUS
      <3>4. tx' = [tx EXCEPT ![a] = record] /\ UNCHANGED << template, history >>
        BY <2>2 DEF UpdateRead
      <3> HIDE DEF record
      <3> QED
        BY <3>1, <3>2, <3>3, <3>4, ReadInv
    <2>3. ASSUME NEW t \in Templates, NEW target \in Versions,
                 RollbackRead(a, t, target)
          PROVE  StoreInv'
      <3> DEFINE record == [op |-> "rollback", template |-> t,
                            version |-> template[t].version, target |-> target]
      <3>1. template[t].version \in ReadVersions /\ Exists(t)
        BY <2>3 DEF RollbackRead, StoreInv, TypeOK, Row, Versions, ReadVersions, Exists
      <3>2. record \in RollbackTx /\ record.version = template[t].version
        BY <3>1 DEF RollbackTx
      <3>3. record.op = "rollback" /\ record.template = t
        OBVIOUS
      <3>4. tx' = [tx EXCEPT ![a] = record] /\ UNCHANGED << template, history >>
        BY <2>3 DEF RollbackRead
      <3> HIDE DEF record
      <3> QED
        BY <3>1, <3>2, <3>3, <3>4, ReadInv
    <2>4. ASSUME NEW t \in Templates, DeleteRead(a, t)
          PROVE  StoreInv'
      <3> DEFINE record == [op |-> "delete", template |-> t]
      <3>1. record \in DeleteTx /\ record.op = "delete" /\ record.template = t
        BY DEF DeleteTx
      <3>2. tx' = [tx EXCEPT ![a] = record] /\ UNCHANGED << template, history >>
        BY <2>4 DEF DeleteRead
      <3>3. Exists(t)
        BY <2>4 DEF DeleteRead
      <3> HIDE DEF record
      <3> QED
        BY <3>1, <3>2, <3>3, ReadInv
    <2>5. CASE UpdateCommit(a)
      BY <2>5, UpdateRewrites, RewritesInv DEF StoreInv
    <2>6. CASE RollbackFind(a)
      <3>1. PICK h \in history :
               tx' = [tx EXCEPT ![a] =
                        [op |-> "restore", template |-> tx[a].template,
                         version |-> tx[a].version, entry |-> h]]
        BY <2>6 DEF RollbackFind
      <3> DEFINE record == [op |-> "restore", template |-> tx[a].template,
                            version |-> tx[a].version, entry |-> h]
      <3>2. tx[a] \in RollbackTx /\ tx[a] # Idle
        BY <2>6, TxShape DEF RollbackFind, StoreInv
      <3>3. record \in RestoreTx
        BY <3>2 DEF RollbackTx, RestoreTx, StoreInv, TypeOK
      <3>4. /\ record.op = "restore" /\ record.entry \in history
            /\ Exists(record.template)
            /\ Holes(record.template, record.version) =
                   Holes(record.template, template[record.template].version)
        BY <3>2 DEF StoreInv, TxGrounded, RollbackTx
      <3>5. UNCHANGED << template, history >>
        BY <2>6 DEF RollbackFind
      <3>6. tx' = [tx EXCEPT ![a] = record]
        BY <3>1
      <3> HIDE DEF record
      <3> QED
        BY <3>3, <3>4, <3>5, <3>6, ReadInv
    <2>7. CASE RollbackCommit(a)
      BY <2>7, RollbackRewrites, RewritesInv DEF StoreInv
    <2>8. CASE DeleteCommit(a)
      BY <2>8, DeleteInv
    <2>9. CASE Abort(a)
      BY <2>9, ReadInv DEF Abort, Idle
    <2> QED
      BY <1>2, <2>1, <2>2, <2>3, <2>4, <2>5, <2>6, <2>7, <2>8, <2>9 DEF AdminStep
  <1> QED
    BY <1>1, <1>2 DEF StoreNext

------------------------------------------------------------------------------
\* The store's inductive invariant: whatever stale reads overlapping admin
\* requests write from, rows, history and transactions stay consistent.
THEOREM StoreInvariant == StoreSpec => []StoreInv
  BY InitInv, StepInv, PTL DEF StoreSpec

\* Rows, history and transactions keep their shape.
THEOREM TypeCorrect == StoreSpec => []TypeOK
  <1>1. StoreInv => TypeOK
    BY DEF StoreInv
  <1> QED
    BY <1>1, StoreInvariant, PTL

\* What the store serves can always be verified against its history.
THEOREM Attestation == StoreSpec => []RowAttested
  <1>1. StoreInv => RowAttested
    BY DEF StoreInv
  <1> QED
    BY <1>1, StoreInvariant, PTL

\* NoHoleMade as a relation between two states.
HolesStay ==
    \A t \in Templates :
        Exists(t) => Holes(t, template[t].version)' \subseteq
                         Holes(t, template[t].version)

\* A commit's version is the next after one below which the holes are the
\* row's, and it leaves none at that version.
LEMMA HolesStep == StoreInv /\ [StoreNext]_storeVars => [HolesStay]_storeVars
  <1> SUFFICES ASSUME StoreInv, NEW a \in Admins, AdminStep(a)
               PROVE  HolesStay
    BY DEF StoreNext
  <1>1. ASSUME NEW t \in Templates, NEW n \in 0 .. MaxVersion, NEW text \in Texts,
               NEW variables \in VarLists, NEW isActive \in BOOLEAN,
               Exists(t) => Holes(t, n) = Holes(t, template[t].version),
               Writes(t, n + 1, text, variables, isActive)
        PROVE  HolesStay
    <2> DEFINE row == [version |-> n + 1, text |-> text, variables |-> variables,
                       isActive |-> isActive]
               e == Entry(t, n + 1, text, Hash[text])
    <2>1. e.template = t /\ e.version = n + 1 /\ row.version = n + 1
      BY DEF Entry
    <2>2. history' = history \cup {e}
      BY <1>1 DEF Writes
    <2>3. template'[t] = row /\ \A u \in Templates : u # t => template'[u] = template[u]
      BY <1>1 DEF Writes, StoreInv, TypeOK
    <2> HIDE DEF row, e
    <2> SUFFICES ASSUME NEW u \in Templates, Exists(u)
                 PROVE  Holes(u, template[u].version)' = Holes(u, template[u].version)
      BY DEF HolesStay
    <2>4. CASE u = t
      <3>1. Holes(t, n + 1)' = Holes(t, n)
        BY <2>1, <2>2, HolesKept
      <3> QED
        BY <1>1, <2>1, <2>3, <2>4, <3>1 DEF Holes
    <2>5. CASE u # t
      <3>1. PICK k : k = template[u].version
        OBVIOUS
      <3>2. Holes(u, k)' = Holes(u, k)
        BY <2>1, <2>2, <2>5, HolesKept
      <3> QED
        BY <2>3, <2>5, <3>1, <3>2 DEF Holes
    <2> QED
      BY <2>4, <2>5
  <1>2. ASSUME Rewrites(a)
        PROVE  HolesStay
    <2>1. PICK t \in Templates, n \in ReadVersions, text \in Texts,
               variables \in VarLists :
             /\ Exists(t)
             /\ Holes(t, n) = Holes(t, template[t].version)
             /\ Writes(t, n + 1, text, variables, template[t].isActive)
      BY <1>2 DEF Rewrites
    <2>2. template[t].isActive \in BOOLEAN /\ n \in 0 .. MaxVersion
      BY <2>1 DEF StoreInv, TypeOK, Exists, Row, ReadVersions
    <2> QED
      BY <1>1, <2>1, <2>2
  <1>3. ASSUME history' = history,
               \A u \in Templates :
                   Exists(u) => template'[u].version = template[u].version
        PROVE  HolesStay
    BY <1>3 DEF HolesStay, Holes
  <1>4. ASSUME NEW t \in Templates, NEW text \in Texts,
               NEW variables \in VarLists, CreateTemplate(a, t, text, variables)
        PROVE  HolesStay
    <2>1. Writes(t, 0 + 1, text, variables, TRUE) /\ ~Exists(t)
      BY <1>4 DEF CreateTemplate, Writes
    <2>2. 0 \in 0 .. MaxVersion
      OBVIOUS
    <2> QED
      BY <1>1, <2>1, <2>2, Zenon
  <1>5. ASSUME UNCHANGED << template, history >>
        PROVE  HolesStay
    BY <1>3, <1>5
  <1>6. CASE UpdateCommit(a)
    BY <1>2, <1>6, UpdateRewrites DEF StoreInv
  <1>7. CASE RollbackCommit(a)
    BY <1>2, <1>7, RollbackRewrites DEF StoreInv
  <1>8. CASE DeleteCommit(a)
    BY <1>3, <1>8, DeleteKeeps
  <1>9. ASSUME \/ \E t \in Templates, text \in Texts \cup {Keep},
                     variables \in VarLists \cup {Keep} :
                        UpdateRead(a, t, text, variables)
               \/ \E t \in Templates, target \in Versions : RollbackRead(a, t, target)
               \/ \E t \in Templates : DeleteRead(a, t)
               \/ RollbackFind(a)
               \/ Abort(a)
        PROVE  HolesStay
    BY <1>5, <1>9 DEF UpdateRead, RollbackRead, DeleteRead, RollbackFind, Abort
  <1> QED
    BY <1>4, <1>6, <1>7, <1>8, <1>9 DEF AdminStep

\* From any history that seeds have left, with whatever holes, overlapping
\* admin requests make no further one: each version they write can be rolled
\* back to, also where two take the same version or lower it.
THEOREM Density == StoreSpec => NoHoleMade
  <1>1. StoreInv /\ [StoreNext]_storeVars => [HolesStay]_storeVars
    BY HolesStep
  <1>2. StoreSpec => [][HolesStay]_storeVars
    BY <1>1, StoreInvariant, PTL DEF StoreSpec
  <1> QED
    BY <1>2 DEF NoHoleMade, HolesStay

\* Every history entry carries the digest of its own text.
THEOREM Hashing == StoreSpec => []HistoryHashed
  <1>1. StoreInv => HistoryHashed
    BY DEF StoreInv
  <1> QED
    BY <1>1, StoreInvariant, PTL

------------------------------------------------------------------------------
(* Refinement of VersionLedger *)

\* A write is a publication: the edition becomes current and attested in the
\* same step, and nobody is retired or brought back by it.
LEMMA WritesPublish ==
    ASSUME StoreInv, NEW t \in Templates, NEW n \in 0 .. MaxVersion,
           NEW text \in Texts, NEW variables \in VarLists, NEW isActive \in BOOLEAN,
           Writes(t, n + 1, text, variables, isActive),
           Exists(t) => isActive = template[t].isActive,
           ~Exists(t) => isActive
    PROVE  Ledger!Publish(t)
  <1> DEFINE row == [version |-> n + 1, text |-> text, variables |-> variables,
                     isActive |-> isActive]
             e == Entry(t, n + 1, text, Hash[text])
             edition == [version |-> n + 1, hash |-> Hash[text]]
  <1>1. row \in Row /\ row.version = n + 1 /\ row.text = text /\ row.isActive = isActive
    BY DEF Row, Versions
  <1>2. template' = [template EXCEPT ![t] = row] /\ history' = history \cup {e}
    BY DEF Writes
  <1>3. << e.template, [version |-> e.version, hash |-> e.hash] >> = << t, edition >>
    BY DEF Entry
  <1>4. edition \in [version: Nat \ {0}, hash: Hashes]
    OBVIOUS
  <1> HIDE DEF row, e
  <1>5. template'[t] = row /\ \A u \in Templates : u # t => template'[u] = template[u]
    BY <1>2 DEF StoreInv, TypeOK
  <1>6. current'[t] = edition
    BY <1>1, <1>5 DEF current, Exists, Edition
  <1> HIDE DEF edition
  <1>7. current' = [current EXCEPT ![t] = edition]
    <2>1. \A u \in Templates : u # t => current'[u] = current[u]
      BY <1>5 DEF current, Exists, Edition
    <2> QED
      BY <1>6, <2>1 DEF current
  <1>8. attested' = attested \cup {<< t, edition >>}
    BY <1>2, <1>3 DEF attested
  <1>9. retired' = retired
    <2>1. \A u \in Templates : u \in retired' <=> u \in retired
      BY <1>1, <1>5 DEF retired, Exists
    <2> QED
      BY <2>1 DEF retired
  <1> QED
    BY <1>4, <1>6, <1>7, <1>8, <1>9
       DEF Ledger!Publish, Ledger!Edition, current, attested, retired

\* A soft delete retires its template, or finds it retired.
LEMMA DeleteRetires ==
    ASSUME StoreInv, NEW a \in Admins, DeleteCommit(a)
    PROVE  Ledger!Retire(tx[a].template)
  <1> DEFINE t == tx[a].template
  <1>1. tx[a] \in DeleteTx /\ tx[a] # Idle
    BY TxShape DEF DeleteCommit, StoreInv
  <1>2. t \in Templates /\ Exists(t) /\ template[t] \in Row
    BY <1>1 DEF DeleteTx, StoreInv, TxGrounded, TypeOK, Exists
  <1>3. template'[t] = [template[t] EXCEPT !.isActive = FALSE]
    BY <1>2 DEF DeleteCommit, StoreInv, TypeOK
  <1>4. /\ template'[t] \in Row /\ ~template'[t].isActive
        /\ template'[t].version = template[t].version
        /\ template'[t].text = template[t].text
    BY <1>2, <1>3 DEF Row
  <1>5. \A u \in Templates : u # t => template'[u] = template[u]
    BY DEF DeleteCommit, StoreInv, TypeOK
  <1> HIDE DEF t
  <1>6. current[t] # NoRow
    <2>1. Edition(t) \in [version: Nat, hash: Hashes]
      BY <1>2 DEF Edition, Row, Versions
    <2> QED
      BY <1>2, <2>1 DEF current
  <1>7. current' = current
    <2>1. \A u \in Templates : current'[u] = current[u]
      BY <1>2, <1>4, <1>5 DEF current, Exists, Edition
    <2> QED
      BY <2>1 DEF current
  <1>8. retired' = retired \cup {t}
    <2>1. \A u \in Templates : u \in retired' <=> u \in retired \cup {t}
      BY <1>2, <1>4, <1>5 DEF retired, Exists
    <2> QED
      BY <1>2, <2>1 DEF retired
  <1>9. attested' = attested
    BY DEF DeleteCommit, attested
  <1> QED
    BY <1>6, <1>7, <1>8, <1>9 DEF Ledger!Retire, t

\* Each step of the store is a step of the ledger, or leaves it as it is.
LEMMA LedgerStep ==
    ASSUME StoreInv, [StoreNext]_storeVars
    PROVE  [Ledger!LedgerNext]_(Ledger!ledgerVars)
  <1>1. ASSUME UNCHANGED << template, history >>
        PROVE  UNCHANGED Ledger!ledgerVars
    BY <1>1 DEF Ledger!ledgerVars, current, attested, retired, Exists, Edition
  <1>2. CASE UNCHANGED storeVars
    BY <1>1, <1>2 DEF storeVars
  <1>3. ASSUME NEW a \in Admins, Rewrites(a)
        PROVE  Ledger!LedgerNext
    <2>1. PICK t \in Templates, n \in ReadVersions, text \in Texts,
               variables \in VarLists :
             /\ Exists(t)
             /\ Writes(t, n + 1, text, variables, template[t].isActive)
      BY <1>3 DEF Rewrites
    <2>2. template[t].isActive \in BOOLEAN
      BY <2>1 DEF StoreInv, TypeOK, Exists, Row
    <2>3. Ledger!Publish(t)
      BY <2>1, <2>2, WritesPublish DEF ReadVersions
    <2> QED
      BY <2>3 DEF Ledger!LedgerNext
  <1>4. ASSUME NEW a \in Admins, AdminStep(a)
        PROVE  [Ledger!LedgerNext]_(Ledger!ledgerVars)
    <2>1. ASSUME NEW t \in Templates, NEW text \in Texts,
                 NEW variables \in VarLists, CreateTemplate(a, t, text, variables)
          PROVE  Ledger!LedgerNext
      <3>1. Writes(t, 0 + 1, text, variables, TRUE) /\ ~Exists(t)
        BY <2>1 DEF CreateTemplate, Writes
      <3>2. 0 \in 0 .. MaxVersion
        OBVIOUS
      <3>3. Ledger!Publish(t)
        BY <2>1, <3>1, <3>2, WritesPublish, Zenon
      <3> QED
        BY <3>3 DEF Ledger!LedgerNext
    <2>2. ASSUME \/ \E t \in Templates, text \in Texts \cup {Keep},
                       variables \in VarLists \cup {Keep} :
                          UpdateRead(a, t, text, variables)
                 \/ \E t \in Templates, target \in Versions : RollbackRead(a, t, target)
                 \/ \E t \in Templates : DeleteRead(a, t)
                 \/ RollbackFind(a)
                 \/ Abort(a)
          PROVE  UNCHANGED << template, history >>
      BY <2>2 DEF UpdateRead, RollbackRead, DeleteRead, RollbackFind, Abort
    <2>3. CASE UpdateCommit(a)
      BY <2>3, <1>3, UpdateRewrites DEF StoreInv
    <2>4. CASE RollbackCommit(a)
      BY <2>4, <1>3, RollbackRewrites DEF StoreInv
    <2>5. CASE DeleteCommit(a)
      <3>1. tx[a].template \in Templates
        BY <2>5, TxShape DEF DeleteCommit, StoreInv, DeleteTx
      <3> QED
        BY <2>5, <3>1, DeleteRetires DEF Ledger!LedgerNext
    <2> QED
      BY <1>1, <1>4, <2>1, <2>2, <2>3, <2>4, <2>5 DEF AdminStep
  <1> QED
    BY <1>2, <1>4 DEF StoreNext

\* A store that a seed has left starts a ledger.
LEMMA InitLedger == StoreInit => Ledger!LedgerInit
  <1> SUFFICES ASSUME StoreInit
               PROVE  Ledger!LedgerInit
    OBVIOUS
  <1>1. TypeOK /\ RowAttested
    BY InitInv DEF StoreInv
  <1>2. ASSUME NEW t \in Templates, Exists(t)
        PROVE  Edition(t) \in Ledger!Edition
    BY <1>1, <1>2 DEF TypeOK, Exists, Edition, Row, Versions, Ledger!Edition, StoreAssumption
  <1>3. current \in [Templates -> Ledger!Edition \cup {NoRow}]
    BY <1>2 DEF current
  <1>4. attested \subseteq Templates \X Ledger!Edition
    BY <1>1 DEF TypeOK, HistoryEntry, Versions, attested, Ledger!Edition
  <1>5. ASSUME NEW t \in Templates, current[t] # NoRow
        PROVE  << t, current[t] >> \in attested
    <2>1. Exists(t) /\ current[t] = Edition(t)
      BY <1>5 DEF current
    <2>2. PICK h \in history :
             Attests(h, t, template[t].version, Hash[template[t].text])
      BY <1>1, <2>1 DEF RowAttested
    <2>3. << h.template, [version |-> h.version, hash |-> h.hash] >> \in attested
      BY DEF attested
    <2> QED
      BY <2>1, <2>2, <2>3 DEF Attests, Edition
  <1>6. retired \subseteq {t \in Templates : current[t] # NoRow}
    <2> SUFFICES ASSUME NEW t \in Templates, Exists(t)
                 PROVE  current[t] # NoRow
      BY DEF retired
    <2>1. Edition(t) # NoRow
      BY <1>1 DEF TypeOK, Exists, Edition, Row, Versions, StoreAssumption
    <2> QED
      BY <2>1 DEF current
  <1> QED
    BY <1>3, <1>4, <1>5, <1>6 DEF Ledger!LedgerInit

\* The store implements VersionLedger: an edition is attested in the step that
\* makes it current, attestations are never withdrawn, and a retired template
\* stays retired.
THEOREM Refinement == StoreSpec => ImplementsLedger
  <1>1. StoreInit => Ledger!LedgerInit
    BY InitLedger
  <1>2. StoreInv /\ [StoreNext]_storeVars => [Ledger!LedgerNext]_(Ledger!ledgerVars)
    BY LedgerStep
  <1> QED
    BY <1>1, <1>2, StoreInvariant, PTL DEF StoreSpec, ImplementsLedger, Ledger!LedgerSpec

------------------------------------------------------------------------------
(* One admin request at a time *)

\* With one request at a time, what a transaction read is still so at its write.
LEMMA SerialStep ==
    ASSUME \A a, b \in Admins : a = b, SerialInv, [StoreNext]_storeVars
    PROVE  /\ SerialInv'
           /\ \A t \in Templates :
                Exists(t) =>
                    /\ template'[t].version >= template[t].version
                    /\ template'[t].text # template[t].text =>
                           template'[t].version > template[t].version
  <1> DEFINE Monotone ==
        \A t \in Templates :
            Exists(t) =>
                /\ template'[t].version >= template[t].version
                /\ template'[t].text # template[t].text =>
                       template'[t].version > template[t].version
             Current ==
        \A a \in Admins :
            tx[a].op \in {"update", "rollback", "restore"} =>
                tx[a].version = template[tx[a].template].version
             Below ==
        \A h \in history :
            Exists(h.template) /\ h.version <= template[h.template].version
  <1>1. StoreInv'
    BY StepInv DEF SerialInv
  <1>2. \A t \in Templates : Exists(t) => template[t].version \in Nat
    BY DEF SerialInv, StoreInv, TypeOK, Row, Versions, Exists
  \* A write at the version after the row's own, or of a new row.
  <1>3. ASSUME NEW t \in Templates, NEW n \in 0 .. MaxVersion, NEW text \in Texts,
               NEW variables \in VarLists, NEW isActive \in BOOLEAN,
               Exists(t) => n = template[t].version,
               ~Exists(t) => n = 0,
               Writes(t, n + 1, text, variables, isActive)
        PROVE  Monotone /\ Below' /\ OneTextPerVersion'
    <2> DEFINE row == [version |-> n + 1, text |-> text, variables |-> variables,
                       isActive |-> isActive]
               e == Entry(t, n + 1, text, Hash[text])
    <2>1. row.version = n + 1 /\ row.text = text
      OBVIOUS
    <2>2. e.template = t /\ e.version = n + 1 /\ e.text = text
      BY DEF Entry
    <2>3. history' = history \cup {e}
      BY <1>3 DEF Writes
    <2>4. template'[t] = row /\ \A u \in Templates : u # t => template'[u] = template[u]
      BY <1>3 DEF Writes, SerialInv, StoreInv, TypeOK
    <2>5. Exists(t)' /\ \A u \in Templates : Exists(u) => Exists(u)'
      <3>1. row # NoRow
        BY DEF Row, Versions
      <3> QED
        BY <3>1, <2>4 DEF Exists
    <2> HIDE DEF row, e
    <2>6. Monotone
      BY <1>2, <1>3, <2>1, <2>4
    <2>7. \A h \in history : /\ h.template \in Templates /\ h.version \in Nat
                             /\ h.template = t => h.version < n + 1
      BY <1>3 DEF SerialInv, StoreInv, TypeOK, HistoryEntry, Versions
    <2>8. Below'
      BY <1>2, <2>1, <2>2, <2>3, <2>4, <2>5, <2>7 DEF SerialInv
    <2>9. OneTextPerVersion'
      BY <2>2, <2>3, <2>7 DEF SerialInv, OneTextPerVersion
    <2> QED
      BY <2>6, <2>8, <2>9
  \* The others leave versions, texts and history alone.
  <1>4. ASSUME history' = history,
               \A u \in Templates :
                  /\ Exists(u) <=> Exists(u)'
                  /\ Exists(u) => /\ template'[u].version = template[u].version
                                 /\ template'[u].text = template[u].text
        PROVE  Monotone /\ Below' /\ OneTextPerVersion'
    <2>1. Monotone
      BY <1>2, <1>4
    <2>2. Below'
      BY <1>4 DEF SerialInv, StoreInv, TypeOK, HistoryEntry
    <2>3. OneTextPerVersion'
      BY <1>4 DEF SerialInv, OneTextPerVersion
    <2> QED
      BY <2>1, <2>2, <2>3
  <1>5. ASSUME UNCHANGED << template, history >>
        PROVE  Monotone /\ Below' /\ OneTextPerVersion'
    BY <1>4, <1>5 DEF Exists
  <1> HIDE DEF Monotone, Below
  <1>6. CASE UNCHANGED storeVars
    BY <1>1, <1>5, <1>6 DEF SerialInv, storeVars, Monotone, Below
  <1>7. ASSUME NEW a \in Admins, AdminStep(a)
        PROVE  Monotone /\ Below' /\ OneTextPerVersion' /\ Current'
    <2>1. ASSUME NEW t \in Templates, NEW text \in Texts,
                 NEW variables \in VarLists, CreateTemplate(a, t, text, variables)
          PROVE  Monotone /\ Below' /\ OneTextPerVersion' /\ Current'
      <3>1. Writes(t, 0 + 1, text, variables, TRUE) /\ ~Exists(t)
        BY <2>1 DEF CreateTemplate, Writes
      <3>2. 0 \in 0 .. MaxVersion
        OBVIOUS
      <3>3. Monotone /\ Below' /\ OneTextPerVersion'
        BY <1>3, <2>1, <3>1, <3>2, Zenon
      <3>4. tx' = tx /\ \A b \in Admins : tx[b] = Idle
        BY <2>1 DEF CreateTemplate
      <3> QED
        BY <3>3, <3>4 DEF Idle
    <2>2. ASSUME Rewrites(a)
          PROVE  Monotone /\ Below' /\ OneTextPerVersion' /\ Current'
      <3>1. PICK t \in Templates, n \in ReadVersions, text \in Texts,
                 variables \in VarLists :
               /\ t = tx[a].template /\ n = tx[a].version
               /\ tx[a].op \in {"update", "restore"}
               /\ Exists(t)
               /\ Writes(t, n + 1, text, variables, template[t].isActive)
               /\ tx' = [tx EXCEPT ![a] = Idle]
        BY <2>2 DEF Rewrites
      <3>2. n = template[t].version
        BY <3>1 DEF SerialInv
      <3>3. template[t].isActive \in BOOLEAN /\ n \in 0 .. MaxVersion
        BY <3>1 DEF SerialInv, StoreInv, TypeOK, Exists, Row, ReadVersions
      <3>4. Monotone /\ Below' /\ OneTextPerVersion'
        BY <1>3, <3>1, <3>2, <3>3
      <3>5. \A b \in Admins : tx'[b] = Idle
        BY <3>1 DEF SerialInv, StoreInv, TypeOK
      <3> QED
        BY <3>4, <3>5 DEF Idle
    <2>3. CASE UpdateCommit(a)
      BY <2>2, <2>3, UpdateRewrites DEF SerialInv, StoreInv
    <2>4. CASE RollbackCommit(a)
      BY <2>2, <2>4, RollbackRewrites DEF SerialInv, StoreInv
    <2>5. ASSUME NEW t \in Templates, NEW text \in Texts \cup {Keep},
                 NEW variables \in VarLists \cup {Keep},
                 UpdateRead(a, t, text, variables)
          PROVE  Current'
      BY <2>5 DEF UpdateRead, SerialInv, StoreInv, TypeOK
    <2>6. ASSUME NEW t \in Templates, NEW target \in Versions,
                 RollbackRead(a, t, target)
          PROVE  Current'
      BY <2>6 DEF RollbackRead, SerialInv, StoreInv, TypeOK
    <2>7. ASSUME RollbackFind(a)
          PROVE  Current'
      BY <2>7 DEF RollbackFind, SerialInv, StoreInv, TypeOK
    <2>8. ASSUME NEW t \in Templates, DeleteRead(a, t)
          PROVE  Current'
      BY <2>8 DEF DeleteRead, SerialInv, StoreInv, TypeOK
    <2>9. ASSUME Abort(a)
          PROVE  Current'
      BY <2>9 DEF Abort, SerialInv, StoreInv, TypeOK, Idle
    <2>10. CASE DeleteCommit(a)
      <3>1. \A b \in Admins : tx'[b] = Idle
        BY <2>10 DEF DeleteCommit, SerialInv, StoreInv, TypeOK
      <3>2. Current'
        BY <3>1 DEF Idle
      <3>3. /\ history' = history
            /\ \A u \in Templates :
                  /\ Exists(u) <=> Exists(u)'
                  /\ Exists(u) => /\ template'[u].version = template[u].version
                                 /\ template'[u].text = template[u].text
        BY <2>10, DeleteKeeps DEF SerialInv
      <3> QED
        BY <1>4, <3>2, <3>3
    <2>11. ASSUME \/ \E t \in Templates, text \in Texts \cup {Keep},
                        variables \in VarLists \cup {Keep} :
                           UpdateRead(a, t, text, variables)
                  \/ \E t \in Templates, target \in Versions : RollbackRead(a, t, target)
                  \/ \E t \in Templates : DeleteRead(a, t)
                  \/ RollbackFind(a)
                  \/ Abort(a)
           PROVE  Monotone /\ Below' /\ OneTextPerVersion'
      BY <1>5, <2>11 DEF UpdateRead, RollbackRead, DeleteRead, RollbackFind, Abort
    <2> QED
      BY <1>7, <2>1, <2>3, <2>4, <2>5, <2>6, <2>7, <2>8, <2>9, <2>10, <2>11
         DEF AdminStep
  <1> QED
    BY <1>1, <1>6, <1>7 DEF SerialInv, StoreNext, Monotone, Below

\* When admin requests do not overlap, versions behave as the documentation
\* says: they only grow, and each names one text.
THEOREM SerialVersions ==
    ASSUME \A a, b \in Admins : a = b
    PROVE  StoreSpec => VersionMonotone /\ []OneTextPerVersion
  <1>1. StoreInit => SerialInv
    BY InitInv DEF StoreInit, AfterSeed, SerialInv, OneTextPerVersion, Idle
  <1>2. SerialInv /\ [StoreNext]_storeVars =>
           /\ SerialInv'
           /\ [\A t \in Templates :
                  Exists(t) =>
                      /\ template'[t].version >= template[t].version
                      /\ template'[t].text # template[t].text =>
                             template'[t].version > template[t].version]_storeVars
    BY SerialStep
  <1>3. SerialInv => OneTextPerVersion
    BY DEF SerialInv
  <1> QED
    BY <1>1, <1>2, <1>3, PTL DEF StoreSpec, VersionMonotone

\* The second half on its own: no two entries of a template at one version
\* hold different texts, which lets a consumer name a text by its version.
THEOREM TextsNamed ==
    ASSUME \A a, b \in Admins : a = b
    PROVE  StoreSpec => []OneTextPerVersion
  BY SerialVersions
==============================================================================
