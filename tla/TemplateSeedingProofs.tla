------------------------ MODULE TemplateSeedingProofs ------------------------
(***************************************************************************)
(* TemplateSeeding for any number of replicas and crashes, and for every   *)
(* set of releases.  That the seed revives nothing needs no assumption on  *)
(* them; that what replicas leave behind is attested needs releases that   *)
(* agree (ReleasesAgree) and hand on their prompts (Succession), and that  *)
(* administrators leave seeded templates alone or withdraw them.           *)
(***************************************************************************)
EXTENDS TemplateSeeding, TemplateStoreProofs

USE StoreAssumption, SeedingAssumption

TxTypes == UpdateTx \cup RollbackTx \cup RestoreTx \cup DeleteTx \cup {Idle}

\* What an entry of a seed file holds.
LEMMA EntryShape ==
    ASSUME NEW r \in Replicas, NEW t, Seeds(r, t)
    PROVE  /\ t \in Templates /\ t \in Seeded
           /\ Release[r][t].text \in Texts
           /\ Release[r][t].variables \in VarLists
           /\ Release[r][t].version \in Versions \cup {Keep}
           /\ ReleaseVersion(r, t) \in Versions
  <1>1. Release[r] \in UNION {[S -> SeedEntry] : S \in SUBSET Templates}
    BY DEF SeedingAssumption
  <1>2. PICK S \in SUBSET Templates : Release[r] \in [S -> SeedEntry]
    BY <1>1
  <1>3. t \in S /\ Release[r][t] \in SeedEntry
    BY <1>2 DEF Seeds
  <1>4. 1 \in Versions
    BY DEF StoreAssumption, Versions
  <1>5. t \in Seeded
    BY DEF Seeds, Seeded
  <1> QED
    BY <1>3, <1>4, <1>5 DEF SeedEntry, ReleaseVersion, Merge

\* Where a container is determines the shape of its record.
LEMMA ScriptShape ==
    ASSUME SeedTypeOK, NEW r \in Replicas
    PROVE  /\ replica[r].at = "down" => replica[r] = Down
           /\ replica[r].at = "up" => replica[r] = Up
           /\ replica[r].at = "new" => replica[r] = New
           /\ replica[r].at = "gone" => replica[r] = Gone
           /\ replica[r].at = "upsert" =>
                  /\ replica[r].todo \in SUBSET Templates
                  /\ replica[r] = Seeding(replica[r].todo)
           /\ replica[r].at \in {"find", "record"} => replica[r] \in Script
           /\ replica[r].at \in {"new", "down", "up", "gone", "upsert", "find", "record"}
  <1>1. replica[r] \in {New, Down, Up, Gone}
                         \cup {Seeding(todo) : todo \in SUBSET Templates} \cup Script
    BY DEF SeedTypeOK
  <1>2. CASE replica[r] \in {New, Down, Up, Gone}
    BY <1>2 DEF New, Down, Up, Gone
  <1>3. CASE \E todo \in SUBSET Templates : replica[r] = Seeding(todo)
    BY <1>3 DEF Seeding
  <1>4. CASE replica[r] \in Script
    BY <1>4 DEF Script
  <1> QED
    BY <1>1, <1>2, <1>3, <1>4

------------------------------------------------------------------------------
(* The admin requests, beside a seed that leaves holes in the history *)

\* A step that writes no text: rows keep version and text, and none is revived.
Calm ==
    /\ history' = history
    /\ \A u \in Templates :
          /\ Exists(u)' <=> Exists(u)
          /\ Exists(u) => /\ template'[u].version = template[u].version
                          /\ template'[u].text = template[u].text
                          /\ template'[u].isActive => template[u].isActive

\* A step that writes a row and its entry together.
Revision ==
    \E t \in Templates, version \in Versions, text \in Texts,
       variables \in VarLists, isActive \in BOOLEAN :
        /\ Writes(t, version, text, variables, isActive)
        /\ Exists(t) => isActive = template[t].isActive

\* Requests that end or go on as they were stay grounded while rows and
\* entries are only added.
LEMMA TxStays ==
    ASSUME TypeOK, TxHeld, tx' \in [Admins -> TxTypes],
           \A b \in Admins : tx'[b] \in {tx[b], Idle},
           \A u \in Templates : Exists(u) => Exists(u)',
           history \subseteq history'
    PROVE  TxHeld'
  <1> SUFFICES ASSUME NEW b \in Admins
               PROVE  /\ tx'[b] # Idle => Exists(tx[b].template)'
                      /\ tx'[b].op = "restore" => tx'[b].entry \in history'
    BY DEF TxHeld
  <1>1. CASE tx'[b] = Idle
    BY <1>1 DEF Idle
  <1>2. CASE tx'[b] = tx[b] /\ tx[b] # Idle
    <2>1. tx[b].template \in Templates
      BY <1>2, TxShape DEF UpdateTx, RollbackTx, RestoreTx, DeleteTx
    <2>2. Exists(tx[b].template)
      BY <1>2 DEF TxHeld
    <2>3. template'[tx[b].template] # NoRow
      BY <2>1, <2>2 DEF Exists
    <2> QED
      BY <1>2, <2>3 DEF TxHeld, Exists
  <1> QED
    BY <1>1, <1>2

\* A revision keeps the base of the invariant.
LEMMA RevisionBase ==
    ASSUME TypeOK, HistoryHashed, TxHeld, Revision,
           tx' \in [Admins -> TxTypes],
           \A b \in Admins : tx'[b] \in {tx[b], Idle}
    PROVE  TypeOK' /\ HistoryHashed' /\ TxHeld'
  <1>1. PICK t \in Templates, version \in Versions, text \in Texts,
             variables \in VarLists, isActive \in BOOLEAN :
           Writes(t, version, text, variables, isActive)
    BY DEF Revision
  <1> DEFINE row == [version |-> version, text |-> text, variables |-> variables,
                     isActive |-> isActive]
             e == Entry(t, version, text, Hash[text])
  <1>2. template' = [template EXCEPT ![t] = row] /\ history' = history \cup {e}
    BY <1>1 DEF Writes
  <1>3. row \in Row /\ e \in HistoryEntry /\ e.hash = Hash[e.text]
    BY DEF Row, HistoryEntry, Entry, StoreAssumption
  <1> HIDE DEF row, e
  <1>4. TypeOK'
    BY <1>2, <1>3 DEF TypeOK, TxTypes
  <1>5. HistoryHashed'
    BY <1>2, <1>3 DEF HistoryHashed
  <1>6. \A u \in Templates : Exists(u) => Exists(u)'
    BY <1>2, <1>3 DEF Exists, TypeOK, StoreAssumption
  <1> QED
    BY <1>2, <1>4, <1>5, <1>6, TxStays

\* A commit of updateTemplate or rollbackTemplate is a revision.
LEMMA CommitRevises ==
    ASSUME TypeOK, HistoryHashed, TxHeld, NEW a \in Admins,
           UpdateCommit(a) \/ RollbackCommit(a)
    PROVE  Revision /\ tx' = [tx EXCEPT ![a] = Idle]
  <1>1. CASE UpdateCommit(a)
    <2> DEFINE t == tx[a].template
               text == Merge(tx[a].text, template[t].text)
               variables == Merge(tx[a].variables, template[t].variables)
    <2>1. tx[a] \in UpdateTx /\ tx[a] # Idle
      BY <1>1, TxShape DEF UpdateCommit
    <2>2. t \in Templates /\ Exists(t) /\ template[t] \in Row
      BY <2>1 DEF UpdateTx, TxHeld, TypeOK, Exists
    <2>3. tx[a].version + 1 \in Versions
      BY <2>1 DEF UpdateTx, ReadVersions, Versions, StoreAssumption
    <2>4. /\ text \in Texts /\ variables \in VarLists
          /\ template[t].isActive \in BOOLEAN
      BY <2>1, <2>2 DEF Merge, UpdateTx, Row
    <2>5. Writes(t, tx[a].version + 1, text, variables, template[t].isActive)
      BY <1>1 DEF UpdateCommit, Writes, Rewrite
    <2>6. tx' = [tx EXCEPT ![a] = Idle]
      BY <1>1 DEF UpdateCommit
    <2> HIDE DEF t, text, variables
    <2> QED
      BY <2>2, <2>3, <2>4, <2>5, <2>6 DEF Revision
  <1>2. CASE RollbackCommit(a)
    <2> DEFINE t == tx[a].template
               h == tx[a].entry
    <2>1. tx[a] \in RestoreTx /\ tx[a] # Idle
      BY <1>2, TxShape DEF RollbackCommit
    <2>2. t \in Templates /\ Exists(t) /\ template[t] \in Row
      BY <2>1 DEF RestoreTx, TxHeld, TypeOK, Exists
    <2>3. tx[a].version + 1 \in Versions
      BY <2>1 DEF RestoreTx, ReadVersions, Versions, StoreAssumption
    <2>4. /\ h.text \in Texts /\ h.hash = Hash[h.text]
          /\ template[t].variables \in VarLists
          /\ template[t].isActive \in BOOLEAN
      BY <2>1, <2>2 DEF RestoreTx, HistoryEntry, HistoryHashed, TxHeld, Row
    <2>5. Writes(t, tx[a].version + 1, h.text, template[t].variables,
                 template[t].isActive)
      BY <1>2, <2>4 DEF RollbackCommit, Writes, Rewrite
    <2>6. tx' = [tx EXCEPT ![a] = Idle]
      BY <1>2 DEF RollbackCommit
    <2> HIDE DEF t, h
    <2> QED
      BY <2>2, <2>3, <2>4, <2>5, <2>6 DEF Revision
  <1> QED
    BY <1>1, <1>2

\* A step that only reads leaves the base and the rows alone.
LEMMA ReadBase ==
    ASSUME TypeOK, HistoryHashed, TxHeld, NEW a \in Admins,
           UNCHANGED << template, history >>,
           NEW record \in TxTypes,
           tx' = [tx EXCEPT ![a] = record],
           record # Idle => Exists(record.template),
           record.op = "restore" => record.entry \in history
    PROVE  TypeOK' /\ HistoryHashed' /\ TxHeld' /\ Calm
  <1>1. TypeOK'
    BY DEF TypeOK, TxTypes
  <1>2. HistoryHashed'
    BY DEF HistoryHashed
  <1>3. TxHeld'
    BY DEF TypeOK, TxHeld, Exists
  <1>4. Calm
    BY DEF Calm, Exists
  <1> QED
    BY <1>1, <1>2, <1>3, <1>4

\* Every step of an admin request keeps the base, and is calm or a revision.
LEMMA AdminEffect ==
    ASSUME TypeOK, HistoryHashed, TxHeld, NEW a \in Admins, AdminStep(a)
    PROVE  TypeOK' /\ HistoryHashed' /\ TxHeld' /\ (Calm \/ Revision)
  <1>1. ASSUME NEW t \in Templates, NEW text \in Texts,
               NEW variables \in VarLists, CreateTemplate(a, t, text, variables)
        PROVE  TypeOK' /\ HistoryHashed' /\ TxHeld' /\ Revision
    <2>1. /\ Writes(t, 1, text, variables, TRUE)
          /\ ~Exists(t)
          /\ tx' = tx
      BY <1>1 DEF CreateTemplate, Writes
    <2>2. 1 \in Versions
      BY DEF Versions, StoreAssumption
    <2>3. Revision
      BY <2>1, <2>2 DEF Revision
    <2>4. tx' \in [Admins -> TxTypes] /\ \A b \in Admins : tx'[b] \in {tx[b], Idle}
      BY <2>1 DEF TypeOK, TxTypes
    <2> QED
      BY <2>3, <2>4, RevisionBase
  <1>2. ASSUME NEW t \in Templates, NEW text \in Texts \cup {Keep},
               NEW variables \in VarLists \cup {Keep},
               UpdateRead(a, t, text, variables)
        PROVE  TypeOK' /\ HistoryHashed' /\ TxHeld' /\ Calm
    <2> DEFINE record == [op |-> "update", template |-> t,
                          version |-> template[t].version,
                          text |-> text, variables |-> variables]
    <2>1. template[t].version \in ReadVersions /\ Exists(t)
      BY <1>2 DEF UpdateRead, TypeOK, Row, Versions, ReadVersions, Exists
    <2>2. record \in TxTypes
      BY <2>1 DEF UpdateTx, TxTypes
    <2>3. record.op = "update" /\ record.template = t
      OBVIOUS
    <2>4. tx' = [tx EXCEPT ![a] = record] /\ UNCHANGED << template, history >>
      BY <1>2 DEF UpdateRead
    <2> HIDE DEF record
    <2> QED
      BY <2>1, <2>2, <2>3, <2>4, ReadBase
  <1>3. ASSUME NEW t \in Templates, NEW target \in Versions,
               RollbackRead(a, t, target)
        PROVE  TypeOK' /\ HistoryHashed' /\ TxHeld' /\ Calm
    <2> DEFINE record == [op |-> "rollback", template |-> t,
                          version |-> template[t].version, target |-> target]
    <2>1. template[t].version \in ReadVersions /\ Exists(t)
      BY <1>3 DEF RollbackRead, TypeOK, Row, Versions, ReadVersions, Exists
    <2>2. record \in TxTypes
      BY <2>1 DEF RollbackTx, TxTypes
    <2>3. record.op = "rollback" /\ record.template = t
      OBVIOUS
    <2>4. tx' = [tx EXCEPT ![a] = record] /\ UNCHANGED << template, history >>
      BY <1>3 DEF RollbackRead
    <2> HIDE DEF record
    <2> QED
      BY <2>1, <2>2, <2>3, <2>4, ReadBase
  <1>4. ASSUME NEW t \in Templates, DeleteRead(a, t)
        PROVE  TypeOK' /\ HistoryHashed' /\ TxHeld' /\ Calm
    <2> DEFINE record == [op |-> "delete", template |-> t]
    <2>1. record \in TxTypes /\ record.op = "delete" /\ record.template = t
      BY DEF DeleteTx, TxTypes
    <2>2. /\ tx' = [tx EXCEPT ![a] = record] /\ UNCHANGED << template, history >>
          /\ Exists(t)
      BY <1>4 DEF DeleteRead
    <2> HIDE DEF record
    <2> QED
      BY <2>1, <2>2, ReadBase
  <1>5. ASSUME UpdateCommit(a) \/ RollbackCommit(a)
        PROVE  TypeOK' /\ HistoryHashed' /\ TxHeld' /\ Revision
    <2>1. Revision /\ tx' = [tx EXCEPT ![a] = Idle]
      BY <1>5, CommitRevises
    <2>2. tx' \in [Admins -> TxTypes] /\ \A b \in Admins : tx'[b] \in {tx[b], Idle}
      BY <2>1 DEF TypeOK, TxTypes
    <2> QED
      BY <2>1, <2>2, RevisionBase
  <1>6. ASSUME RollbackFind(a)
        PROVE  TypeOK' /\ HistoryHashed' /\ TxHeld' /\ Calm
    <2>1. tx[a] \in RollbackTx /\ tx[a] # Idle
      BY <1>6, TxShape DEF RollbackFind
    <2>2. PICK h \in history :
             tx' = [tx EXCEPT ![a] =
                       [op |-> "restore", template |-> tx[a].template,
                        version |-> tx[a].version, entry |-> h]]
      BY <1>6 DEF RollbackFind
    <2> DEFINE record == [op |-> "restore", template |-> tx[a].template,
                          version |-> tx[a].version, entry |-> h]
    <2>3. h \in HistoryEntry
      BY DEF TypeOK
    <2>4. record \in TxTypes
      BY <2>1, <2>3 DEF RollbackTx, RestoreTx, TxTypes
    <2>5. record.op = "restore" /\ record.template = tx[a].template /\ record.entry = h
      OBVIOUS
    <2>6. Exists(tx[a].template)
      BY <2>1 DEF TxHeld
    <2>7. tx' = [tx EXCEPT ![a] = record] /\ UNCHANGED << template, history >>
      BY <1>6, <2>2 DEF RollbackFind
    <2> HIDE DEF record
    <2> QED
      BY <2>4, <2>5, <2>6, <2>7, ReadBase
  <1>7. ASSUME DeleteCommit(a)
        PROVE  TypeOK' /\ HistoryHashed' /\ TxHeld' /\ Calm
    <2> DEFINE t == tx[a].template
    <2>1. tx[a] \in DeleteTx /\ tx[a] # Idle
      BY <1>7, TxShape DEF DeleteCommit
    <2>2. t \in Templates /\ Exists(t) /\ template[t] \in Row
      BY <2>1 DEF DeleteTx, TxHeld, TypeOK, Exists
    <2> HIDE DEF t
    <2>3. /\ template' = [template EXCEPT ![t] =
                 [template[t] EXCEPT !.isActive = FALSE]]
          /\ history' = history /\ tx' = [tx EXCEPT ![a] = Idle]
      BY <1>7 DEF DeleteCommit, t
    <2>4. [template[t] EXCEPT !.isActive = FALSE] \in Row
      BY <2>2 DEF Row
    <2>5. TypeOK'
      BY <2>2, <2>3, <2>4 DEF TypeOK
    <2>6. Calm
      <3> SUFFICES ASSUME NEW u \in Templates
                   PROVE  /\ Exists(u)' <=> Exists(u)
                          /\ Exists(u) =>
                                /\ template'[u].version = template[u].version
                                /\ template'[u].text = template[u].text
                                /\ template'[u].isActive => template[u].isActive
        BY <2>3 DEF Calm
      <3>1. CASE u = t
        <4>1. template'[t] = [template[t] EXCEPT !.isActive = FALSE]
          BY <2>2, <2>3 DEF TypeOK
        <4>2. Exists(u)'
          BY <3>1, <4>1, <2>4 DEF Exists, StoreAssumption
        <4> QED
          BY <3>1, <4>1, <4>2, <2>2 DEF Row
      <3>2. CASE u # t
        BY <3>2, <2>3 DEF TypeOK, Exists
      <3> QED
        BY <3>1, <3>2
    <2>7. HistoryHashed'
      BY <2>3 DEF HistoryHashed
    <2>8. tx' \in [Admins -> TxTypes] /\ \A b \in Admins : tx'[b] \in {tx[b], Idle}
      BY <2>3 DEF TypeOK, TxTypes
    <2> QED
      BY <2>3, <2>5, <2>6, <2>7, <2>8, TxStays DEF Calm
  <1>8. ASSUME Abort(a)
        PROVE  TypeOK' /\ HistoryHashed' /\ TxHeld' /\ Calm
    <2>1. tx' = [tx EXCEPT ![a] = Idle] /\ UNCHANGED << template, history >>
      BY <1>8 DEF Abort
    <2>2. Idle \in TxTypes /\ Idle.op # "restore"
      BY DEF TxTypes, Idle
    <2> QED
      BY <2>1, <2>2, ReadBase
  <1> QED
    BY <1>1, <1>2, <1>3, <1>4, <1>5, <1>6, <1>7, <1>8 DEF AdminStep

------------------------------------------------------------------------------
(* The steps of the script *)

\* A step of a script or a crash: either the rows and entries stay, or it is
\* the upsert, the record or the retirement of one script.
LEMMA CalmUnchanged ==
    ASSUME UNCHANGED << template, history >>
    PROVE  Calm
  BY DEF Calm, Exists

\* The rows written by an upsert: the entry's text at the entry's version, or
\* at the one the row has; a row that is there keeps isActive.
LEMMA UpsertEffect ==
    ASSUME SeedBase, NEW r \in Replicas, NEW t \in Templates, SeedUpsert(r, t)
    PROVE  \E row \in Row :
             /\ Seeds(r, t)
             /\ template' = [template EXCEPT ![t] = row]
             /\ replica' = [replica EXCEPT ![r] =
                   [at |-> "find", todo |-> replica[r].todo \ {t},
                    template |-> t, row |-> row]]
             /\ row.text = Release[r][t].text
             /\ row.version = IF Exists(t)
                              THEN Merge(Release[r][t].version, template[t].version)
                              ELSE ReleaseVersion(r, t)
             /\ Exists(t) => row.isActive = template[t].isActive
  <1> DEFINE e == Release[r][t]
             row == UpsertedRow(t, e)
  <1>1. Seeds(r, t)
    BY DEF SeedUpsert, SeedBase, ScriptHeld, Seeds
  <1>2. /\ e.text \in Texts /\ e.variables \in VarLists
        /\ e.version \in Versions \cup {Keep}
        /\ ReleaseVersion(r, t) \in Versions
    BY <1>1, EntryShape
  <1>3. ReleaseVersion(r, t) = Merge(e.version, 1)
    BY DEF ReleaseVersion
  <1> HIDE DEF e
  <1>4. CASE Exists(t)
    <2>1. template[t] \in Row
      BY <1>4 DEF SeedBase, SeedTypeOK, TypeOK, Exists
    <2>2. row = [template[t] EXCEPT !.text = e.text, !.variables = e.variables,
                                    !.version = Merge(e.version, template[t].version)]
      BY <1>4 DEF UpsertedRow
    <2>3. Merge(e.version, template[t].version) \in Versions
      BY <2>1, <1>2 DEF Merge, Row
    <2>4. /\ row \in Row /\ row.text = e.text
          /\ row.version = Merge(e.version, template[t].version)
          /\ row.isActive = template[t].isActive
      BY <2>1, <2>2, <2>3, <1>2 DEF Row
    <2> HIDE DEF row
    <2> QED
      BY <1>1, <1>4, <2>4 DEF SeedUpsert, row, e
  <1>5. CASE ~Exists(t)
    <2>1. row = [version |-> Merge(e.version, 1), text |-> e.text,
                 variables |-> e.variables, isActive |-> TRUE]
      BY <1>5 DEF UpsertedRow
    <2>2. row \in Row /\ row.text = e.text /\ row.version = ReleaseVersion(r, t)
      BY <2>1, <1>2, <1>3 DEF Row
    <2> HIDE DEF row
    <2> QED
      BY <1>1, <1>5, <2>2 DEF SeedUpsert, row, e
  <1> QED
    BY <1>4, <1>5

\* The base after a step that changes one container's record and leaves the
\* requests alone.
LEMMA ScriptBase ==
    ASSUME SeedBase, NEW r \in Replicas,
           NEW record \in {New, Down, Up, Gone}
                              \cup {Seeding(todo) : todo \in SUBSET Templates}
                              \cup Script,
           replica' = [replica EXCEPT ![r] = record],
           record.at \in {"upsert", "find", "record"} =>
               record.todo \subseteq DOMAIN Release[r],
           record.at \in {"find", "record"} =>
               Seeds(r, record.template) /\ Exists(record.template)',
           template' \in [Templates -> Row \cup {NoRow}],
           history' \subseteq HistoryEntry,
           history \subseteq history',
           \A h \in history' \ history : h.hash = Hash[h.text],
           \A u \in Templates : Exists(u) => Exists(u)',
           tx' \in [Admins -> TxTypes],
           \A b \in Admins : tx'[b] \in {tx[b], Idle}
    PROVE  SeedBase'
  <1>1. TypeOK'
    BY DEF TypeOK, TxTypes
  <1>2. SeedTypeOK'
    BY <1>1 DEF SeedBase, SeedTypeOK
  <1>3. HistoryHashed'
    BY DEF SeedBase, HistoryHashed
  <1>4. TxHeld'
    BY TxStays DEF SeedBase, SeedTypeOK
  <1>5. ScriptHeld'
    <2> SUFFICES ASSUME NEW s \in Replicas
                 PROVE  /\ replica'[s].at \in {"upsert", "find", "record"} =>
                              replica'[s].todo \subseteq DOMAIN Release[s]
                        /\ replica'[s].at \in {"find", "record"} =>
                              /\ Seeds(s, replica'[s].template)
                              /\ Exists(replica[s].template)'
      BY DEF ScriptHeld, Seeds
    <2>1. CASE s = r
      <3>1. replica'[s] = record
        BY <2>1 DEF SeedBase, SeedTypeOK
      <3> QED
        BY <2>1, <3>1 DEF Exists
    <2>2. CASE s # r
      <3>1. replica'[s] = replica[s]
        BY <2>2 DEF SeedBase, SeedTypeOK
      <3>2. ASSUME replica[s].at \in {"find", "record"}
            PROVE  replica[s].template \in Templates
        BY <3>2, ScriptShape DEF SeedBase, Script
      <3>3. ASSUME replica[s].at \in {"find", "record"}
            PROVE  template'[replica[s].template] # NoRow
        BY <3>2, <3>3 DEF SeedBase, ScriptHeld, Exists
      <3> QED
        BY <3>1, <3>3 DEF SeedBase, ScriptHeld, Exists
    <2> QED
      BY <2>1, <2>2
  <1> QED
    BY <1>2, <1>3, <1>4, <1>5 DEF SeedBase

\* Retirement changes isActive alone.
LEMMA RetireEffect ==
    ASSUME SeedBase, NEW r \in Replicas, SeedRetire(r)
    PROVE  Calm /\ template' \in [Templates -> Row \cup {NoRow}]
  <1> SUFFICES ASSUME NEW u \in Templates
               PROVE  /\ template'[u] \in Row \cup {NoRow}
                      /\ Exists(u)' <=> Exists(u)
                      /\ Exists(u) =>
                            /\ template'[u].version = template[u].version
                            /\ template'[u].text = template[u].text
                            /\ template'[u].isActive => template[u].isActive
    BY DEF SeedRetire, Calm
  <1>1. template[u] \in Row \cup {NoRow}
    BY DEF SeedBase, SeedTypeOK, TypeOK
  <1>2. CASE u \in Promoted[r] /\ Exists(u)
    <2>1. template[u] \in Row
      BY <1>1, <1>2 DEF Exists
    <2>2. template'[u] = [template[u] EXCEPT !.isActive = FALSE]
      BY <1>2 DEF SeedRetire
    <2>3. template'[u] \in Row
      BY <2>1, <2>2 DEF Row
    <2>4. Exists(u)'
      BY <2>3 DEF Exists, StoreAssumption
    <2> QED
      BY <1>2, <2>1, <2>2, <2>3, <2>4 DEF Row
  <1>3. CASE ~(u \in Promoted[r] /\ Exists(u))
    <2>1. template'[u] = template[u]
      BY <1>3 DEF SeedRetire
    <2> QED
      BY <1>1, <2>1 DEF Exists
  <1> QED
    BY <1>2, <1>3

\* Every step keeps the base.
LEMMA BaseStep == SeedBase /\ [SeedNext]_vars => SeedBase'
  <1> SUFFICES ASSUME SeedBase, [SeedNext]_vars
               PROVE  SeedBase'
    OBVIOUS
  <1> USE DEF SeedBase
  <1>1. CASE UNCHANGED vars
    BY <1>1 DEF vars, SeedTypeOK, TypeOK, HistoryHashed, TxHeld, ScriptHeld,
                Exists, Seeds
  <1>2. ASSUME NEW a \in Admins, ServedStep(a)
        PROVE  SeedBase'
    <2>1. TypeOK' /\ HistoryHashed' /\ TxHeld' /\ (Calm \/ Revision)
      BY <1>2, AdminEffect DEF ServedStep, SeedTypeOK
    <2>2. replica' = replica
      BY <1>2 DEF ServedStep, seedVars
    <2>3. \A u \in Templates : Exists(u) => Exists(u)'
      <3>1. CASE Calm
        BY <3>1 DEF Calm
      <3>2. CASE Revision
        BY <3>2 DEF Revision, Writes, Exists, SeedTypeOK, TypeOK, Row, StoreAssumption
      <3> QED
        BY <2>1, <3>1, <3>2
    <2>4. SeedTypeOK'
      BY <2>1, <2>2 DEF SeedTypeOK
    <2>5. ScriptHeld'
      <3> SUFFICES ASSUME NEW s \in Replicas
                   PROVE  /\ replica[s].at \in {"upsert", "find", "record"} =>
                                replica[s].todo \subseteq DOMAIN Release[s]
                          /\ replica[s].at \in {"find", "record"} =>
                                /\ Seeds(s, replica[s].template)
                                /\ template'[replica[s].template] # NoRow
        BY <2>2 DEF ScriptHeld, Seeds, Exists
      <3>1. ASSUME replica[s].at \in {"find", "record"}
            PROVE  replica[s].template \in Templates
        BY <3>1, ScriptShape DEF Script
      <3> QED
        BY <2>3, <3>1 DEF ScriptHeld, Exists
    <2> QED
      BY <2>1, <2>4, <2>5
  <1>3. ASSUME NEW r \in Replicas, Boot(r)
        PROVE  SeedBase'
    <2> DEFINE todo == DOMAIN Release[r]
    <2>1. todo \in SUBSET Templates
      BY EntryShape DEF Seeds
    <2>2. replica' = [replica EXCEPT ![r] = Seeding(todo)]
      BY <1>3 DEF Boot
    <2>3. Seeding(todo).at = "upsert" /\ Seeding(todo).todo = todo
      BY DEF Seeding
    <2>4. UNCHANGED << template, history, tx >>
      BY <1>3 DEF Boot
    <2> QED
      BY <2>1, <2>2, <2>3, <2>4, ScriptBase DEF SeedTypeOK, TypeOK, TxTypes, Exists
  <1>4. ASSUME NEW r \in Replicas, NEW t \in Templates, SeedUpsert(r, t)
        PROVE  SeedBase'
    <2>1. PICK row \in Row :
             /\ Seeds(r, t)
             /\ template' = [template EXCEPT ![t] = row]
             /\ replica' = [replica EXCEPT ![r] =
                   [at |-> "find", todo |-> replica[r].todo \ {t},
                    template |-> t, row |-> row]]
      BY <1>4, UpsertEffect
    <2> DEFINE record == [at |-> "find", todo |-> replica[r].todo \ {t},
                          template |-> t, row |-> row]
    <2>2. replica[r].todo \in SUBSET Templates /\ replica[r].todo \subseteq DOMAIN Release[r]
      BY <1>4, ScriptShape DEF SeedUpsert, ScriptHeld
    <2>3. record \in Script
      BY <2>2 DEF Script
    <2>4. /\ record.at = "find" /\ record.template = t
          /\ record.todo \subseteq DOMAIN Release[r]
      BY <2>2
    <2>5. Exists(t)' /\ \A u \in Templates : Exists(u) => Exists(u)'
      BY <2>1 DEF SeedTypeOK, TypeOK, Exists, StoreAssumption
    <2>6. template' \in [Templates -> Row \cup {NoRow}]
      BY <2>1 DEF SeedTypeOK, TypeOK
    <2>7. UNCHANGED << history, tx >>
      BY <1>4 DEF SeedUpsert
    <2>8. /\ history' \subseteq HistoryEntry /\ tx' \in [Admins -> TxTypes]
          /\ \A b \in Admins : tx'[b] \in {tx[b], Idle}
      BY <2>7 DEF SeedTypeOK, TypeOK, TxTypes
    <2>9. replica' = [replica EXCEPT ![r] = record]
      BY <2>1
    <2>10. Exists(record.template)'
      BY <2>4, <2>5
    <2> HIDE DEF record
    <2> QED
      BY <2>1, <2>3, <2>4, <2>5, <2>6, <2>7, <2>8, <2>9, <2>10, ScriptBase
  <1>5. ASSUME NEW r \in Replicas, SeedFind(r)
        PROVE  SeedBase'
    <2>1. /\ replica[r] \in Script
          /\ replica[r].todo \subseteq DOMAIN Release[r]
          /\ Seeds(r, replica[r].template) /\ Exists(replica[r].template)
      BY <1>5, ScriptShape DEF SeedFind, ScriptHeld
    <2>2. UNCHANGED << template, history, tx >>
      BY <1>5 DEF SeedFind
    <2>3. PICK record \in {Seeding(replica[r].todo), [replica[r] EXCEPT !.at = "record"]} :
             replica' = [replica EXCEPT ![r] = record]
      BY <1>5 DEF SeedFind
    <2>4. CASE record = Seeding(replica[r].todo)
      <3>1. replica[r].todo \in SUBSET Templates
        BY <2>1 DEF Script
      <3>2. record.at = "upsert" /\ record.todo = replica[r].todo
        BY <2>4 DEF Seeding
      <3> QED
        BY <2>1, <2>2, <2>3, <2>4, <3>1, <3>2, ScriptBase
           DEF SeedTypeOK, TypeOK, TxTypes, Exists
    <2>5. CASE record = [replica[r] EXCEPT !.at = "record"]
      <3>1. /\ record \in Script /\ record.at = "record"
            /\ record.todo = replica[r].todo /\ record.template = replica[r].template
        BY <2>1, <2>5 DEF Script
      <3>2. Exists(record.template)'
        BY <2>1, <2>2, <3>1 DEF Exists
      <3> QED
        BY <2>1, <2>2, <2>3, <3>1, <3>2, ScriptBase
           DEF SeedTypeOK, TypeOK, TxTypes, Exists
    <2> QED
      BY <2>4, <2>5
  <1>6. ASSUME NEW r \in Replicas, SeedRecord(r)
        PROVE  SeedBase'
    <2> DEFINE t == replica[r].template
               row == replica[r].row
               e == Entry(t, row.version, row.text, Hash[row.text])
               record == Seeding(replica[r].todo)
    <2>1. /\ replica[r] \in Script
          /\ replica[r].todo \subseteq DOMAIN Release[r]
      BY <1>6, ScriptShape DEF SeedRecord, ScriptHeld
    <2>2. /\ history' = history \cup {e}
          /\ replica' = [replica EXCEPT ![r] = record]
          /\ UNCHANGED << template, tx >>
      BY <1>6 DEF SeedRecord
    <2>3. e \in HistoryEntry /\ e.hash = Hash[e.text]
      BY <2>1 DEF Script, Row, HistoryEntry, Entry, StoreAssumption
    <2>4. /\ record \in {Seeding(todo) : todo \in SUBSET Templates}
          /\ record.at = "upsert" /\ record.todo = replica[r].todo
      BY <2>1 DEF Script, Seeding
    <2> HIDE DEF e, record, t, row
    <2> QED
      BY <2>1, <2>2, <2>3, <2>4, ScriptBase DEF SeedTypeOK, TypeOK, TxTypes, Exists
  <1>7. ASSUME NEW r \in Replicas, SeedRetire(r)
        PROVE  SeedBase'
    <2>1. Calm /\ template' \in [Templates -> Row \cup {NoRow}]
      BY <1>7, RetireEffect
    <2>2. /\ replica' = [replica EXCEPT ![r] = Up]
          /\ UNCHANGED << history, tx >>
      BY <1>7 DEF SeedRetire
    <2>3. Up.at = "up"
      BY DEF Up
    <2> QED
      BY <2>1, <2>2, <2>3, ScriptBase DEF Calm, SeedTypeOK, TypeOK, TxTypes
  <1>8. ASSUME NEW r \in Replicas, Crash(r)
        PROVE  SeedBase'
    <2>1. /\ replica' = [replica EXCEPT ![r] = Down]
          /\ UNCHANGED << template, history >>
          /\ tx' = Ended({r})
      BY <1>8 DEF Crash
    <2>2. Down.at = "down"
      BY DEF Down
    <2>3. /\ tx' \in [Admins -> TxTypes]
          /\ \A b \in Admins : tx'[b] \in {tx[b], Idle}
      BY <2>1 DEF SeedTypeOK, TypeOK, TxTypes, Ended
    <2> QED
      BY <2>1, <2>2, <2>3, ScriptBase DEF SeedTypeOK, TypeOK, Exists
  <1>9. ASSUME NEW r \in Replicas, Deploy(r)
        PROVE  SeedBase'
    <2>1. /\ UNCHANGED << template, history >>
          /\ tx' = Ended(Replaces[r])
          /\ \A s \in Replicas : replica'[s] \in {replica[s], Down, Gone}
          /\ replica' \in [Replicas -> {New, Down, Up, Gone}
                  \cup {Seeding(todo) : todo \in SUBSET Templates} \cup Script]
      BY <1>9 DEF Deploy, SeedTypeOK
    <2>2. /\ tx' \in [Admins -> TxTypes]
          /\ \A b \in Admins : tx'[b] \in {tx[b], Idle}
      BY <2>1 DEF SeedTypeOK, TypeOK, TxTypes, Ended
    <2>3. TypeOK'
      BY <2>1, <2>2 DEF SeedTypeOK, TypeOK, TxTypes
    <2>4. SeedTypeOK'
      BY <2>1, <2>3 DEF SeedTypeOK
    <2>5. TxHeld'
      BY <2>1, <2>2, TxStays DEF SeedTypeOK, Exists
    <2>6. ScriptHeld'
      <3> SUFFICES ASSUME NEW s \in Replicas,
                          replica'[s].at \in {"upsert", "find", "record"}
                   PROVE  replica'[s] = replica[s]
        BY <2>1 DEF ScriptHeld, Seeds, Exists
      <3> QED
        BY <2>1 DEF Down, Gone
    <2> QED
      BY <2>1, <2>4, <2>5, <2>6 DEF HistoryHashed
  <1> QED
    BY <1>1, <1>2, <1>3, <1>4, <1>5, <1>6, <1>7, <1>8, <1>9 DEF SeedNext, SeedStep

------------------------------------------------------------------------------
(* What holds for any releases *)

\* The tables are empty and nothing is deployed.
LEMMA BaseInit == SeedInit => SeedBase
  <1> SUFFICES ASSUME SeedInit
               PROVE  SeedBase
    OBVIOUS
  <1>1. TypeOK /\ HistoryHashed /\ TxHeld
    BY DEF SeedInit, TypeOK, HistoryHashed, TxHeld, Idle
  <1>2. \A r \in Replicas : replica[r] = New
    BY DEF SeedInit
  <1>3. SeedTypeOK
    BY <1>1 DEF SeedInit, SeedTypeOK
  <1>4. ScriptHeld
    BY <1>2 DEF ScriptHeld, New
  <1> QED
    BY <1>1, <1>3, <1>4 DEF SeedBase

\* The specification without its fairness.
LEMMA SeedSafety == SeedSpec => SeedInit /\ [][SeedNext]_vars
  BY PTL DEF SeedSpec

\* The base holds in every state.
THEOREM SeedingBase == SeedSpec => []SeedBase
  BY BaseInit, BaseStep, SeedSafety, PTL

\* Whatever the releases, the crashes and the edits, a digest stands in the
\* history with its own text, also where seed.ts wrote the entry.
THEOREM SeedingHashed == SeedSpec => []HistoryHashed
  <1>1. SeedBase => HistoryHashed
    BY DEF SeedBase
  <1> QED
    BY <1>1, SeedingBase, PTL

\* NoRevival as a relation between two states.
NoneRevived ==
    \A t \in Templates :
        Exists(t) /\ ~template[t].isActive => ~template'[t].isActive

\* No step of a script or of a request puts a withdrawn template back in
\* service: the upsert's columns do not include isActive.
LEMMA ReviveStep == SeedBase /\ [SeedNext]_vars => [NoneRevived]_vars
  <1> SUFFICES ASSUME SeedBase, SeedNext
               PROVE  NoneRevived
    OBVIOUS
  <1>0. ASSUME Calm PROVE NoneRevived
    BY <1>0 DEF Calm, NoneRevived
  <1>1. ASSUME NEW a \in Admins, ServedStep(a)
        PROVE  NoneRevived
    <2>1. Calm \/ Revision
      BY <1>1, AdminEffect DEF ServedStep, SeedBase, SeedTypeOK
    <2>2. ASSUME Revision
          PROVE  NoneRevived
      <3>1. PICK t \in Templates, version \in Versions, text \in Texts,
                 variables \in VarLists, isActive \in BOOLEAN :
               /\ template' = [template EXCEPT ![t] =
                     [version |-> version, text |-> text,
                      variables |-> variables, isActive |-> isActive]]
               /\ Exists(t) => isActive = template[t].isActive
        BY <2>2 DEF Revision, Writes
      <3> QED
        BY <3>1 DEF NoneRevived, SeedBase, SeedTypeOK, TypeOK
    <2> QED
      BY <1>0, <2>1, <2>2
  <1>2. ASSUME NEW r \in Replicas, NEW t \in Templates, SeedUpsert(r, t)
        PROVE  NoneRevived
    <2>1. PICK row \in Row :
             /\ template' = [template EXCEPT ![t] = row]
             /\ Exists(t) => row.isActive = template[t].isActive
      BY <1>2, UpsertEffect
    <2> QED
      BY <2>1 DEF NoneRevived, SeedBase, SeedTypeOK, TypeOK
  <1>3. ASSUME NEW r \in Replicas,
               Deploy(r) \/ Boot(r) \/ SeedFind(r) \/ SeedRecord(r) \/ Crash(r)
        PROVE  NoneRevived
    BY <1>3 DEF Deploy, Boot, SeedFind, SeedRecord, Crash, NoneRevived
  <1>4. ASSUME NEW r \in Replicas, SeedRetire(r)
        PROVE  NoneRevived
    BY <1>0, <1>4, RetireEffect
  <1> QED
    BY <1>1, <1>2, <1>3, <1>4 DEF SeedNext, SeedStep

\* The seed never brings back a template that an administrator withdrew,
\* whatever the releases and however the scripts overlap or crash.
THEOREM NeverRevived == SeedSpec => NoRevival
  <1>1. SeedBase /\ [SeedNext]_vars => [NoneRevived]_vars
    BY ReviveStep
  <1>2. SeedSpec => [][NoneRevived]_vars
    BY <1>1, SeedingBase, SeedSafety, PTL
  <1> QED
    BY <1>2 DEF NoRevival, NoneRevived

------------------------------------------------------------------------------
(* What holds for releases that agree *)

\* A container that is replaced stays away, so what a deployment has replaced
\* does not come back.
LEMMA DeployedStep ==
    ASSUME SeedBase, DeployedHeld, [SeedNext]_vars
    PROVE  /\ DeployedHeld'
           /\ \A s \in Replicas : Deployed(s) => Deployed(s)'
  <1>1. ASSUME NEW r \in Replicas, NEW record, record \notin {New, Gone},
               replica[r] \notin {New, Gone},
               replica' = [replica EXCEPT ![r] = record]
        PROVE  /\ DeployedHeld'
               /\ \A s \in Replicas : Deployed(s) => Deployed(s)'
    <2>1. \A s \in Replicas : replica'[s] = IF s = r THEN record ELSE replica[s]
      BY <1>1 DEF SeedBase, SeedTypeOK
    <2>2. \A s \in Replicas : Replaces[s] \subseteq Replicas
      BY DEF SeedingAssumption
    <2>3. \A s \in Replicas : Deployed(s) => Deployed(s)'
      BY <1>1, <2>1, <2>2 DEF Deployed
    <2> QED
      BY <1>1, <2>1, <2>3 DEF DeployedHeld
  <1>2. ASSUME replica' = replica
        PROVE  /\ DeployedHeld'
               /\ \A s \in Replicas : Deployed(s) => Deployed(s)'
    BY <1>2 DEF DeployedHeld, Deployed
  <1>3. ASSUME NEW r \in Replicas, Deploy(r)
        PROVE  /\ DeployedHeld'
               /\ \A s \in Replicas : Deployed(s) => Deployed(s)'
    <2>1. /\ replica[r] = New
          /\ \A s \in Replicas : replica'[s] =
                IF s = r THEN Down ELSE IF s \in Replaces[r] THEN Gone ELSE replica[s]
      BY <1>3 DEF Deploy
    <2>2. New # Gone
      BY DEF New, Gone
    <2>3. \A s \in Replicas : Replaces[s] \subseteq Replicas /\ s \notin Replaces[s]
      BY DEF SeedingAssumption
    <2>4. \A s \in Replicas : Deployed(s) => Deployed(s)'
      BY <2>1, <2>2, <2>3 DEF Deployed
    <2>5. Deployed(r)'
      BY <2>1, <2>3 DEF Deployed
    <2> QED
      BY <2>1, <2>4, <2>5 DEF DeployedHeld
  <1>a. \A state : state.at \notin {"new", "gone"} => state \notin {New, Gone}
    BY DEF New, Gone
  <1>4. ASSUME NEW r \in Replicas, Boot(r)
        PROVE  /\ replica[r] \notin {New, Gone}
               /\ \E record : /\ record \notin {New, Gone}
                             /\ replica' = [replica EXCEPT ![r] = record]
    <2>1. Seeding(DOMAIN Release[r]) \notin {New, Gone} /\ Down \notin {New, Gone}
      BY DEF Seeding, New, Gone, Down
    <2> QED
      BY <1>4, <2>1 DEF Boot
  <1>5. ASSUME NEW r \in Replicas, NEW t \in Templates, SeedUpsert(r, t)
        PROVE  /\ replica[r] \notin {New, Gone}
               /\ \E record : /\ record \notin {New, Gone}
                             /\ replica' = [replica EXCEPT ![r] = record]
    <2> DEFINE record == [at |-> "find", todo |-> replica[r].todo \ {t},
                  template |-> t, row |-> UpsertedRow(t, Release[r][t])]
    <2>1. record.at = "find" /\ replica[r].at = "upsert"
      BY <1>5 DEF SeedUpsert
    <2>2. replica' = [replica EXCEPT ![r] = record]
      BY <1>5 DEF SeedUpsert
    <2> HIDE DEF record
    <2>3. record \notin {New, Gone} /\ replica[r] \notin {New, Gone}
      BY <1>a, <2>1
    <2> QED
      BY <2>2, <2>3
  <1>6. ASSUME NEW r \in Replicas, SeedFind(r)
        PROVE  /\ replica[r] \notin {New, Gone}
               /\ \E record : /\ record \notin {New, Gone}
                             /\ replica' = [replica EXCEPT ![r] = record]
    <2>1. replica[r] \in Script
      BY <1>6, ScriptShape DEF SeedFind, SeedBase
    <2>2. PICK record \in {Seeding(replica[r].todo), [replica[r] EXCEPT !.at = "record"]} :
             replica' = [replica EXCEPT ![r] = record]
      BY <1>6 DEF SeedFind
    <2>3. record.at \in {"upsert", "record"} /\ replica[r].at = "find"
      BY <1>6, <2>1 DEF Seeding, Script, SeedFind
    <2>4. record \notin {New, Gone} /\ replica[r] \notin {New, Gone}
      BY <1>a, <2>3
    <2> QED
      BY <2>2, <2>4
  <1>7. ASSUME NEW r \in Replicas, SeedRecord(r)
        PROVE  /\ replica[r] \notin {New, Gone}
               /\ \E record : /\ record \notin {New, Gone}
                             /\ replica' = [replica EXCEPT ![r] = record]
    <2>1. Seeding(replica[r].todo).at = "upsert" /\ replica[r].at = "record"
      BY <1>7 DEF Seeding, SeedRecord
    <2>2. Seeding(replica[r].todo) \notin {New, Gone} /\ replica[r] \notin {New, Gone}
      BY <1>a, <2>1
    <2>3. replica' = [replica EXCEPT ![r] = Seeding(replica[r].todo)]
      BY <1>7 DEF SeedRecord
    <2> QED
      BY <2>2, <2>3
  <1>8. ASSUME NEW r \in Replicas, SeedRetire(r)
        PROVE  /\ replica[r] \notin {New, Gone}
               /\ \E record : /\ record \notin {New, Gone}
                             /\ replica' = [replica EXCEPT ![r] = record]
    <2>1. replica[r].at = "upsert" /\ Up.at = "up"
      BY <1>8 DEF SeedRetire, Seeding, Up
    <2>2. Up \notin {New, Gone} /\ replica[r] \notin {New, Gone}
      BY <1>a, <2>1
    <2>3. replica' = [replica EXCEPT ![r] = Up]
      BY <1>8 DEF SeedRetire
    <2> QED
      BY <2>2, <2>3
  <1>9. ASSUME NEW r \in Replicas, Crash(r)
        PROVE  /\ replica[r] \notin {New, Gone}
               /\ \E record : /\ record \notin {New, Gone}
                             /\ replica' = [replica EXCEPT ![r] = record]
    <2>1. Down \notin {New, Gone}
      BY DEF Down, New, Gone
    <2>2. replica[r] \notin {New, Gone} /\ replica' = [replica EXCEPT ![r] = Down]
      BY <1>9 DEF Crash
    <2> QED
      BY <2>1, <2>2
  <1>10. ASSUME UNCHANGED vars \/ \E a \in Admins : ServedStep(a)
         PROVE  replica' = replica
    BY <1>10 DEF vars, ServedStep, seedVars
  <1>11. ASSUME NEW r \in Replicas, SeedStep(r) \/ Crash(r)
         PROVE  /\ replica[r] \notin {New, Gone}
                /\ \E record : /\ record \notin {New, Gone}
                              /\ replica' = [replica EXCEPT ![r] = record]
    BY <1>4, <1>5, <1>6, <1>7, <1>8, <1>9, <1>11 DEF SeedStep
  <1>12. ASSUME NEW r \in Replicas, SeedStep(r) \/ Crash(r)
         PROVE  /\ DeployedHeld'
                /\ \A s \in Replicas : Deployed(s) => Deployed(s)'
    BY <1>1, <1>11, <1>12
  <1> QED
    BY <1>2, <1>3, <1>10, <1>12 DEF SeedNext

\* Row u keeps its version and its text, and is not revived.
SameText(u) ==
    /\ Exists(u)
    /\ template'[u].version = template[u].version
    /\ template'[u].text = template[u].text
    /\ template'[u].isActive => template[u].isActive

\* What a replica owes, it still owes after a step of another one.
LEMMA OwesStays ==
    ASSUME NEW s \in Replicas, NEW u \in Templates, SameText(u),
           replica'[s] = replica[s], Owes(s, u)
    PROVE  Owes(s, u)'
  BY DEF Owes, SameText

\* An attested row that keeps its text stays attested.
LEMMA AttestedStays ==
    ASSUME NEW u \in Templates, SameText(u), history \subseteq history', Attested(u)
    PROVE  Attested(u)'
  BY DEF Attested, Attests, SameText

\* The form of every step: a row keeps its text, or is attested at once and
\* no release's, or is a release's and its replica owes the entry; entries of
\* seeded templates come from releases; and what was owed and is no longer,
\* was paid, or its template retired.
LEMMA SeedKept ==
    ASSUME SeedInv, SeedBase', ScriptReleased', history \subseteq history',
           DeployedHeld', \A s \in Replicas : Deployed(s) => Deployed(s)',
           \A u \in Templates :
               Exists(u)' =>
                   \/ SameText(u)
                   \/ u \notin Seeded /\ Attested(u)'
                   \/ \E s \in Replicas :
                         /\ Owes(s, u)' /\ Deployed(s)'
                         /\ FromRelease(s, u, template'[u].version, template'[u].text),
           \A h \in history' \ history :
               h.template \in Seeded =>
                   \E r \in Replicas :
                       FromRelease(r, h.template, h.version, h.text),
           \A u \in Templates, s \in Replicas :
               SameText(u) /\ Owes(s, u) =>
                   \/ Attested(u)' \/ ~template'[u].isActive
                   \/ \E q \in Replicas : Owes(q, u)'
    PROVE  SeedInv'
  <1>1. RowsReleased'
    <2> SUFFICES ASSUME NEW t \in Seeded, Exists(t)'
                 PROVE  \E r \in Replicas :
                           /\ FromRelease(r, t, template'[t].version, template'[t].text)
                           /\ Deployed(r)'
      BY DEF RowsReleased, FromRelease, ReleaseVersion, Seeds, Seeded
    <2>1. t \in Templates
      BY EntryShape DEF Seeded, Seeds
    <2>2. ASSUME SameText(t)
          PROVE  \E r \in Replicas :
                     /\ FromRelease(r, t, template'[t].version, template'[t].text)
                     /\ Deployed(r)'
      BY <2>2 DEF SameText, SeedInv, RowsReleased
    <2> QED
      BY <2>1, <2>2
  <1>2. EntriesReleased'
    BY DEF SeedInv, EntriesReleased, FromRelease, ReleaseVersion, Seeds, Seeded
  <1>3. AttestedOrOwed'
    <2> SUFFICES ASSUME NEW t \in Templates, Exists(t)', template'[t].isActive
                 PROVE  Attested(t)' \/ \E r \in Replicas : Owes(r, t)'
      BY DEF AttestedOrOwed, ServedUnattested
    <2>1. ASSUME SameText(t)
          PROVE  Attested(t)' \/ \E r \in Replicas : Owes(r, t)'
      <3>1. Attested(t) \/ \E r \in Replicas : Owes(r, t)
        BY <2>1 DEF SameText, SeedInv, AttestedOrOwed, ServedUnattested
      <3> QED
        BY <2>1, <3>1, AttestedStays
    <2> QED
      BY <2>1
  <1> QED
    BY <1>1, <1>2, <1>3 DEF SeedInv

\* An entry at a release's version holds that release's text, once releases
\* agree: what a script's search finds attests what the script upserted.
LEMMA FoundAttests ==
    ASSUME ReleasesAgree, SeedInv, NEW r \in Replicas, NEW t \in Templates,
           NEW text, NEW version, NEW h \in history,
           FromRelease(r, t, version, text),
           h.template = t, h.version = version
    PROVE  Attests(h, t, version, Hash[text])
  <1>1. t \in Seeded
    BY EntryShape DEF FromRelease
  <1>2. PICK s \in Replicas : FromRelease(s, t, h.version, h.text)
    BY <1>1 DEF SeedInv, EntriesReleased
  <1>3. /\ Seeds(r, t) /\ Seeds(s, t)
        /\ ReleaseVersion(r, t) = version /\ ReleaseVersion(s, t) = version
        /\ Release[r][t].text = text /\ Release[s][t].text = h.text
    BY <1>2 DEF FromRelease
  <1>4. h.text = text
    BY <1>3 DEF ReleasesAgree
  <1> QED
    BY <1>4 DEF SeedInv, SeedBase, HistoryHashed, Attests

\* A request's step, where administrators at most withdraw what is seeded: the
\* rows of seeded templates keep their texts, and what a request writes of
\* another template it attests.
LEMMA ServedReleased ==
    ASSUME ~EditsSeeded, SeedInv, SeedBase', NEW a \in Admins, ServedStep(a)
    PROVE  SeedInv'
  <1>1. /\ Calm \/ Revision
        /\ replica' = replica
        /\ \A t \in Seeded : WithdrawnAtMost(t)
    BY AdminEffect DEF ServedStep, SeedInv, SeedBase, SeedTypeOK, seedVars
  <1>0. /\ DeployedHeld'
        /\ \A s \in Replicas : Deployed(s) => Deployed(s)'
    BY <1>1 DEF SeedInv, DeployedHeld, Deployed
  <1>2. ScriptReleased'
    BY <1>1 DEF SeedInv, ScriptReleased, FromRelease, ReleaseVersion, Seeds
  <1>3. \A u \in Templates, s \in Replicas :
           SameText(u) /\ Owes(s, u) => Owes(s, u)'
    BY <1>1, OwesStays
  <1>4. CASE Calm
    <2>1. history' = history /\ \A u \in Templates : Exists(u)' => SameText(u)
      BY <1>4 DEF Calm, SameText
    <2> QED
      BY <1>0, <1>2, <1>3, <2>1, SeedKept
  <1>5. CASE Revision
    <2>1. PICK t \in Templates, version \in Versions, text \in Texts,
               variables \in VarLists, isActive \in BOOLEAN :
             /\ Writes(t, version, text, variables, isActive)
             /\ Exists(t) => isActive = template[t].isActive
      BY <1>5 DEF Revision
    <2> DEFINE row == [version |-> version, text |-> text, variables |-> variables,
                       isActive |-> isActive]
               e == Entry(t, version, text, Hash[text])
    <2>2. /\ template'[t] = row
          /\ \A u \in Templates : u # t => template'[u] = template[u]
          /\ history' = history \cup {e}
      BY <2>1 DEF Writes, SeedInv, SeedBase, SeedTypeOK, TypeOK
    <2>3. /\ row \in Row /\ row.version = version /\ row.text = text
          /\ row.isActive = isActive
          /\ e.template = t /\ e.version = version
          /\ e.text = text /\ e.hash = Hash[text]
      BY DEF Row, Entry
    <2> HIDE DEF row, e
    <2>4. Attested(t)'
      BY <2>2, <2>3 DEF Attested, Attests
    <2>5. ASSUME t \in Seeded
          PROVE  SameText(t)
      <3>1. \/ row = template[t]
            \/ Exists(t) /\ row = [template[t] EXCEPT !.isActive = FALSE]
        BY <1>1, <2>2, <2>5 DEF WithdrawnAtMost
      <3>2. template[t] \in Row /\ Exists(t)
        BY <2>3, <3>1 DEF SeedInv, SeedBase, SeedTypeOK, TypeOK, Exists, StoreAssumption
      <3>3. row.version = template[t].version /\ row.text = template[t].text
        BY <3>1, <3>2 DEF Row
      <3> QED
        BY <2>1, <2>2, <2>3, <3>2, <3>3 DEF SameText
    <2>6. \A u \in Templates :
             Exists(u)' => SameText(u) \/ (u \notin Seeded /\ Attested(u)')
      BY <2>2, <2>4, <2>5 DEF SameText, Exists
    <2>7. ASSUME e.template \in Seeded
          PROVE  \E r \in Replicas : FromRelease(r, e.template, e.version, e.text)
      <3>1. SameText(t)
        BY <2>3, <2>5, <2>7
      <3>2. template[t].version = version /\ template[t].text = text /\ Exists(t)
        BY <2>2, <2>3, <3>1 DEF SameText
      <3> QED
        BY <2>3, <2>7, <3>2 DEF SeedInv, RowsReleased
    <2> QED
      BY <1>0, <1>2, <1>3, <2>2, <2>6, <2>7, SeedKept
  <1> QED
    BY <1>1, <1>4, <1>5

\* A step of one container that leaves every row its text: what it owed and
\* no longer owes is attested.
LEMMA ContainerReleased ==
    ASSUME SeedInv, SeedBase', NEW r \in Replicas, NEW record,
           replica' = [replica EXCEPT ![r] = record],
           DeployedHeld', \A s \in Replicas : Deployed(s) => Deployed(s)',
           record.at \in {"find", "record"} =>
               FromRelease(r, record.template, record.row.version, record.row.text),
           history \subseteq history',
           \A h \in history' \ history :
               \E s \in Replicas : FromRelease(s, h.template, h.version, h.text),
           \A u \in Templates : Exists(u)' => SameText(u),
           \A u \in Templates :
               SameText(u) /\ Owes(r, u) =>
                   Attested(u)' \/ ~template'[u].isActive \/ Owes(r, u)'
    PROVE  SeedInv'
  <1>1. \A s \in Replicas : replica'[s] = IF s = r THEN record ELSE replica[s]
    BY DEF SeedInv, SeedBase, SeedTypeOK
  <1>2. ScriptReleased'
    <2> SUFFICES ASSUME NEW s \in Replicas, replica'[s].at \in {"find", "record"}
                 PROVE  FromRelease(s, replica'[s].template,
                                    replica'[s].row.version, replica'[s].row.text)
      BY DEF ScriptReleased, FromRelease, ReleaseVersion, Seeds
    <2> QED
      BY <1>1 DEF SeedInv, ScriptReleased
  <1>3. ASSUME NEW u \in Templates, NEW s \in Replicas, SameText(u), Owes(s, u)
        PROVE  \/ Attested(u)' \/ ~template'[u].isActive
               \/ \E q \in Replicas : Owes(q, u)'
    <2>1. CASE s = r
      BY <1>3, <2>1
    <2>2. CASE s # r
      BY <1>1, <1>3, <2>2, OwesStays
    <2> QED
      BY <2>1, <2>2
  <1> QED
    BY <1>2, <1>3, SeedKept

\* The upsert puts the script's own text at its own version, in a new row and
\* in one that another release wrote, and the script then owes the entry.
LEMMA UpsertReleased ==
    ASSUME ReleasesAgree, SeedInv, SeedBase',
           DeployedHeld', \A s \in Replicas : Deployed(s) => Deployed(s)',
           NEW r \in Replicas, NEW t \in Templates, SeedUpsert(r, t)
    PROVE  SeedInv'
  <1>1. PICK row \in Row :
           /\ Seeds(r, t)
           /\ template' = [template EXCEPT ![t] = row]
           /\ replica' = [replica EXCEPT ![r] =
                 [at |-> "find", todo |-> replica[r].todo \ {t},
                  template |-> t, row |-> row]]
           /\ row.text = Release[r][t].text
           /\ row.version = IF Exists(t)
                            THEN Merge(Release[r][t].version, template[t].version)
                            ELSE ReleaseVersion(r, t)
           /\ Exists(t) => row.isActive = template[t].isActive
    BY UpsertEffect DEF SeedInv
  <1>0. replica[r] \notin {New, Gone} /\ Deployed(r)
    BY DEF SeedUpsert, New, Gone, SeedInv, DeployedHeld
  <1>2. row.version = ReleaseVersion(r, t)
    <2>1. CASE Exists(t) /\ Release[r][t].version = Keep
      <3>1. t \in Seeded
        BY <1>1, EntryShape
      <3>2. PICK s \in Replicas :
               /\ FromRelease(s, t, template[t].version, template[t].text)
               /\ Deployed(s)
        BY <2>1, <3>1 DEF SeedInv, RowsReleased
      <3>0. r \notin Replaces[s]
        BY <1>0, <3>2 DEF Deployed
      <3>3. template[t].version = 1
        BY <1>1, <2>1, <3>0, <3>2 DEF ReleasesAgree, FromRelease
      <3> QED
        BY <1>1, <2>1, <3>3 DEF Merge, ReleaseVersion
    <2>2. CASE Exists(t) /\ Release[r][t].version # Keep
      BY <1>1, <2>2 DEF Merge, ReleaseVersion
    <2>3. CASE ~Exists(t)
      BY <1>1, <2>3
    <2> QED
      BY <2>1, <2>2, <2>3
  <1>3. FromRelease(r, t, row.version, row.text)
    BY <1>1, <1>2 DEF FromRelease
  <1> DEFINE record == [at |-> "find", todo |-> replica[r].todo \ {t},
                        template |-> t, row |-> row]
  <1>4. /\ record.at = "find" /\ record.template = t /\ record.row = row
        /\ record.todo = replica[r].todo \ {t}
    OBVIOUS
  <1>5. \A s \in Replicas : replica'[s] = IF s = r THEN record ELSE replica[s]
    BY <1>1 DEF SeedInv, SeedBase, SeedTypeOK
  <1> HIDE DEF record
  <1>6. /\ template'[t] = row
        /\ \A u \in Templates : u # t => template'[u] = template[u]
    BY <1>1 DEF SeedInv, SeedBase, SeedTypeOK, TypeOK
  <1>7. history' = history /\ replica[r].at = "upsert"
    BY DEF SeedUpsert
  <1>8. ScriptReleased'
    <2> SUFFICES ASSUME NEW s \in Replicas, replica'[s].at \in {"find", "record"}
                 PROVE  FromRelease(s, replica'[s].template,
                                    replica'[s].row.version, replica'[s].row.text)
      BY DEF ScriptReleased, FromRelease, ReleaseVersion, Seeds
    <2> QED
      BY <1>3, <1>4, <1>5 DEF SeedInv, ScriptReleased
  <1>9. Owes(r, t)'
    BY <1>1, <1>4, <1>5, <1>6 DEF Owes, Seeds
  <1>10. ASSUME NEW u \in Templates, Exists(u)'
         PROVE  \/ SameText(u)
                \/ \E s \in Replicas :
                      /\ Owes(s, u)' /\ Deployed(s)'
                      /\ FromRelease(s, u, template'[u].version, template'[u].text)
    <2>1. CASE u = t
      BY <2>1, <1>0, <1>3, <1>6, <1>9
    <2>2. CASE u # t
      BY <2>2, <1>6, <1>10 DEF SameText, Exists
    <2> QED
      BY <2>1, <2>2
  <1>11. ASSUME NEW u \in Templates, NEW s \in Replicas, SameText(u), Owes(s, u)
         PROVE  \E q \in Replicas : Owes(q, u)'
    <2>1. CASE u = t
      BY <2>1, <1>9
    <2>2. CASE u # t /\ s = r
      BY <2>2, <1>4, <1>5, <1>7, <1>11 DEF Owes, Seeds
    <2>3. CASE s # r
      BY <2>3, <1>5, <1>11, OwesStays
    <2> QED
      BY <2>1, <2>2, <2>3
  <1> QED
    BY <1>7, <1>8, <1>10, <1>11, SeedKept

\* The search for an entry: one that is found attests the row, if it is still
\* the script's.
LEMMA FindReleased ==
    ASSUME ReleasesAgree, SeedInv, SeedBase',
           DeployedHeld', \A s \in Replicas : Deployed(s) => Deployed(s)',
           NEW r \in Replicas, SeedFind(r)
    PROVE  SeedInv'
  <1> DEFINE t == replica[r].template
             row == replica[r].row
             found == \E h \in history : h.template = t /\ h.version = row.version
             record == IF found THEN Seeding(replica[r].todo)
                       ELSE [replica[r] EXCEPT !.at = "record"]
  <1>1. /\ replica[r].at = "find" /\ replica[r] \in Script
        /\ FromRelease(r, t, row.version, row.text) /\ t \in Templates
    BY ScriptShape DEF SeedFind, SeedInv, SeedBase, ScriptReleased, Script
  <1>2. /\ replica' = [replica EXCEPT ![r] = record]
        /\ UNCHANGED << template, history >>
    BY DEF SeedFind
  <1>3. CASE found
    <2>1. record = Seeding(replica[r].todo)
      BY <1>3
    <2>2. record.at = "upsert" /\ record.todo = replica[r].todo
      BY <2>1 DEF Seeding
    <2> HIDE DEF record
    <2>3. replica'[r] = record
      BY <1>2 DEF SeedInv, SeedBase, SeedTypeOK
    <2>4. ASSUME NEW u \in Templates, SameText(u), Owes(r, u)
          PROVE  Attested(u)' \/ Owes(r, u)'
      <3>1. CASE u \in replica[r].todo
        BY <2>2, <2>3, <2>4, <3>1 DEF Owes, Seeds
      <3>2. CASE u \notin replica[r].todo
        <4>1. \/ u \in Promoted[r]
              \/ u = t /\ row.version = template[u].version /\ row.text = template[u].text
          BY <1>1, <2>4, <3>2 DEF Owes
        <4>0. CASE u \in Promoted[r]
          BY <2>2, <2>3, <4>0 DEF Owes
        <4>2. PICK h \in history : h.template = t /\ h.version = row.version
          BY <1>3
        <4>3. Attests(h, t, row.version, Hash[row.text])
          BY <1>1, <4>2, FoundAttests
        <4>4. CASE u \notin Promoted[r]
          <5>1. Attested(u)
            BY <4>1, <4>3, <4>4 DEF Attested
          <5> QED
            BY <1>2, <2>4, <5>1, AttestedStays
        <4> QED
          BY <4>0, <4>4
      <3> QED
        BY <3>1, <3>2
    <2> QED
      BY <1>2, <2>2, <2>4, ContainerReleased DEF SameText, Exists
  <1>4. CASE ~found
    <2>1. record = [replica[r] EXCEPT !.at = "record"]
      BY <1>4
    <2>2. /\ record.at = "record" /\ record.todo = replica[r].todo
          /\ record.template = t /\ record.row = row
      BY <1>1, <2>1 DEF Script
    <2> HIDE DEF record
    <2>3. replica'[r] = record
      BY <1>2 DEF SeedInv, SeedBase, SeedTypeOK
    <2>4. ASSUME NEW u \in Templates, SameText(u), Owes(r, u)
          PROVE  Owes(r, u)'
      BY <1>1, <1>2, <2>2, <2>3, <2>4 DEF Owes, Seeds
    <2> QED
      BY <1>1, <1>2, <2>2, <2>4, ContainerReleased DEF SameText, Exists
  <1> QED
    BY <1>3, <1>4

\* The entry is written: it attests the row, if it is still the script's.
LEMMA RecordReleased ==
    ASSUME SeedInv, SeedBase',
           DeployedHeld', \A s \in Replicas : Deployed(s) => Deployed(s)',
           NEW r \in Replicas, SeedRecord(r)
    PROVE  SeedInv'
  <1> DEFINE t == replica[r].template
             row == replica[r].row
             e == Entry(t, row.version, row.text, Hash[row.text])
             record == Seeding(replica[r].todo)
  <1>1. /\ replica[r].at = "record" /\ replica[r] \in Script
        /\ FromRelease(r, t, row.version, row.text) /\ t \in Templates
    BY ScriptShape DEF SeedRecord, SeedInv, SeedBase, ScriptReleased, Script
  <1>2. /\ replica' = [replica EXCEPT ![r] = record]
        /\ history' = history \cup {e}
        /\ template' = template
    BY DEF SeedRecord
  <1>3. record.at = "upsert" /\ record.todo = replica[r].todo
    BY DEF Seeding
  <1>4. /\ e.template = t /\ e.version = row.version /\ e.text = row.text
        /\ e.hash = Hash[row.text]
    BY DEF Entry
  <1> HIDE DEF record, e
  <1>5. replica'[r] = record
    BY <1>2 DEF SeedInv, SeedBase, SeedTypeOK
  <1>6. ASSUME NEW u \in Templates, SameText(u), Owes(r, u)
        PROVE  Attested(u)' \/ Owes(r, u)'
    <2>1. CASE u \in replica[r].todo
      BY <1>3, <1>5, <1>6, <2>1 DEF Owes, Seeds
    <2>2. CASE u \notin replica[r].todo
      <3>1. CASE u \in Promoted[r]
        BY <1>3, <1>5, <3>1 DEF Owes
      <3>2. CASE u \notin Promoted[r]
        <4>1. u = t /\ row.version = template[u].version /\ row.text = template[u].text
          BY <1>1, <1>6, <2>2, <3>2 DEF Owes
        <4> QED
          BY <1>2, <1>4, <4>1 DEF Attested, Attests
      <3> QED
        BY <3>1, <3>2
    <2> QED
      BY <2>1, <2>2
  <1>7. \A h \in history' \ history :
           \E s \in Replicas : FromRelease(s, h.template, h.version, h.text)
    BY <1>1, <1>2, <1>4
  <1> QED
    BY <1>2, <1>3, <1>6, <1>7, ContainerReleased DEF SameText, Exists

\* Every step keeps the invariant.
LEMMA ReleasedStep ==
    ASSUME ReleasesAgree, Succession, ~EditsSeeded
    PROVE  SeedInv /\ [SeedNext]_vars => SeedInv'
  <1> SUFFICES ASSUME SeedInv, [SeedNext]_vars
               PROVE  SeedInv'
    OBVIOUS
  <1>0. /\ SeedBase'
        /\ DeployedHeld'
        /\ \A s \in Replicas : Deployed(s) => Deployed(s)'
    BY BaseStep, DeployedStep DEF SeedInv
  <1>1. CASE UNCHANGED vars
    BY <1>0, <1>1 DEF vars, SeedInv, RowsReleased, EntriesReleased, ScriptReleased,
                      AttestedOrOwed, ServedUnattested, Attested, Attests, Owes,
                      Exists, FromRelease, ReleaseVersion, Seeds, Seeded, Deployed
  <1>2. ASSUME NEW a \in Admins, ServedStep(a)
        PROVE  SeedInv'
    BY <1>0, <1>2, ServedReleased
  <1>3. ASSUME NEW r \in Replicas, Boot(r)
        PROVE  SeedInv'
    <2> DEFINE record == Seeding(DOMAIN Release[r])
    <2>1. record.at = "upsert" /\ record.todo = DOMAIN Release[r]
      BY DEF Seeding
    <2>2. /\ replica' = [replica EXCEPT ![r] = record]
          /\ UNCHANGED << template, history >>
      BY <1>3 DEF Boot
    <2> HIDE DEF record
    <2>3. replica'[r] = record
      BY <2>2 DEF SeedInv, SeedBase, SeedTypeOK
    <2>4. \A u \in Templates : Owes(r, u) => Owes(r, u)'
      BY <2>1, <2>3 DEF Owes, Seeds
    <2> QED
      BY <1>0, <2>1, <2>2, <2>4, ContainerReleased DEF SameText, Exists
  <1>4. ASSUME NEW r \in Replicas, NEW t \in Templates, SeedUpsert(r, t)
        PROVE  SeedInv'
    BY <1>0, <1>4, UpsertReleased
  <1>5. ASSUME NEW r \in Replicas, SeedFind(r)
        PROVE  SeedInv'
    BY <1>0, <1>5, FindReleased
  <1>6. ASSUME NEW r \in Replicas, SeedRecord(r)
        PROVE  SeedInv'
    BY <1>0, <1>6, RecordReleased
  <1>7. ASSUME NEW r \in Replicas, SeedRetire(r)
        PROVE  SeedInv'
    <2>1. Calm
      BY <1>7, RetireEffect DEF SeedInv
    <2>2. history' = history /\ \A u \in Templates : Exists(u)' => SameText(u)
      BY <2>1 DEF Calm, SameText
    <2>3. replica[r] = Seeding({}) /\ replica' = [replica EXCEPT ![r] = Up]
      BY <1>7 DEF SeedRetire
    <2>4. replica[r].at = "upsert" /\ replica[r].todo = {} /\ Up.at = "up"
      BY <2>3 DEF Seeding, Up
    <2>5. ASSUME NEW u \in Templates, SameText(u), Owes(r, u)
          PROVE  ~template'[u].isActive
      <3>1. u \in Promoted[r] /\ Exists(u)
        BY <2>4, <2>5 DEF Owes, SameText
      <3>2. template[u] \in Row
        BY <3>1 DEF SeedInv, SeedBase, SeedTypeOK, TypeOK, Exists
      <3>3. template'[u] = [template[u] EXCEPT !.isActive = FALSE]
        BY <1>7, <3>1 DEF SeedRetire
      <3> QED
        BY <3>2, <3>3 DEF Row
    <2> QED
      BY <1>0, <2>2, <2>3, <2>4, <2>5, ContainerReleased
  <1>8. ASSUME NEW r \in Replicas, Crash(r)
        PROVE  SeedInv'
    <2>1. /\ replica' = [replica EXCEPT ![r] = Down]
          /\ UNCHANGED << template, history >>
      BY <1>8 DEF Crash
    <2>2. Down.at = "down" /\ replica'[r] = Down
      BY <2>1 DEF Down, SeedInv, SeedBase, SeedTypeOK
    <2>3. \A u \in Templates : Owes(r, u) => Owes(r, u)'
      BY <2>2 DEF Owes, Seeds
    <2> QED
      BY <1>0, <2>1, <2>2, <2>3, ContainerReleased DEF SameText, Exists
  <1>9. ASSUME NEW r \in Replicas, Deploy(r)
        PROVE  SeedInv'
    <2>1. /\ UNCHANGED << template, history >>
          /\ \A s \in Replicas : replica'[s] =
                IF s = r THEN Down ELSE IF s \in Replaces[r] THEN Gone ELSE replica[s]
          /\ replica[r].at = "new"
      BY <1>9 DEF Deploy, New
    <2>2. Down.at = "down" /\ Gone.at = "gone"
      BY DEF Down, Gone
    <2>3. ScriptReleased'
      BY <2>1, <2>2 DEF SeedInv, ScriptReleased, FromRelease, ReleaseVersion, Seeds
    <2>4. \A u \in Templates : Exists(u)' => SameText(u)
      BY <2>1 DEF SameText, Exists
    <2>5. ASSUME NEW u \in Templates, NEW s \in Replicas, SameText(u), Owes(s, u)
          PROVE  \E q \in Replicas : Owes(q, u)'
      <3>1. u \in Promoted[s] \/ Seeds(s, u)
        BY <2>5 DEF Owes
      <3>2. s # r
        BY <2>1, <2>5 DEF Owes
      <3>3. CASE s \in Replaces[r]
        <4>1. u \in Promoted[r] \/ Seeds(r, u)
          BY <3>1, <3>3 DEF Succession, Seeds
        <4>2. replica'[r].at = "down"
          BY <2>1, <2>2
        <4>3. Owes(r, u)'
          BY <4>1, <4>2 DEF Owes, Seeds
        <4> QED
          BY <4>3
      <3>4. CASE s \notin Replaces[r]
        BY <2>1, <2>5, <3>2, <3>4, OwesStays
      <3> QED
        BY <3>3, <3>4
    <2> QED
      BY <1>0, <2>1, <2>3, <2>4, <2>5, SeedKept
  <1> QED
    BY <1>1, <1>2, <1>3, <1>4, <1>5, <1>6, <1>7, <1>8, <1>9 DEF SeedNext, SeedStep

\* No row, no entry and no script at the start.
LEMMA ReleasedInit == SeedInit => SeedInv
  <1> SUFFICES ASSUME SeedInit
               PROVE  SeedInv
    OBVIOUS
  <1>1. SeedBase
    BY BaseInit
  <1>2. \A r \in Replicas : replica[r] = New
    BY DEF SeedInit
  <1>3. ScriptReleased /\ DeployedHeld
    BY <1>2 DEF ScriptReleased, DeployedHeld, New
  <1>4. RowsReleased
    BY EntryShape DEF SeedInit, RowsReleased, Exists, Seeded, Seeds
  <1>5. EntriesReleased /\ AttestedOrOwed
    BY DEF SeedInit, EntriesReleased, AttestedOrOwed, ServedUnattested, Exists
  <1> QED
    BY <1>1, <1>3, <1>4, <1>5 DEF SeedInv

\* Where each release's text has a version of its own, a release that revises a
\* prompt for the first time replaces those before it, releases seed or retire
\* what those they replace have seeded, and administrators leave the seeded
\* templates alone or withdraw them: whenever no replica seeds or has to seed,
\* the digest of every row in service stands in the history at the row's
\* version, whatever crashes, deployments and replicas of other releases came
\* between upsert, search and entry.
THEOREM SeedingSettles ==
    ASSUME ReleasesAgree, Succession, ~EditsSeeded
    PROVE  SeedSpec => []SettledAttested
  <1>1. SeedInv /\ [SeedNext]_vars => SeedInv'
    BY ReleasedStep
  <1>2. SeedInv => SettledAttested
    <2> SUFFICES ASSUME SeedInv, Settled
                 PROVE  \A t \in Templates : ~ServedUnattested(t)
      BY DEF SettledAttested
    <2>1. ASSUME NEW r \in Replicas, NEW t \in Templates
          PROVE  ~Owes(r, t)
      <3>1. replica[r].at \in {"new", "up", "gone"}
        BY DEF Settled, New, Up, Gone
      <3> QED
        BY <3>1 DEF Owes
    <2> QED
      BY <2>1 DEF SeedInv, AttestedOrOwed
  <1> QED
    BY <1>1, <1>2, ReleasedInit, SeedSafety, PTL
==============================================================================
