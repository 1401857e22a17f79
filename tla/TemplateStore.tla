---------------------------- MODULE TemplateStore ----------------------------
(***************************************************************************)
(* The prompt_templates and prompt_version_history tables and the admin    *)
(* operations that write them (src/src/admin/admin.service.ts).            *)
(*                                                                         *)
(* The service runs on PostgreSQL at its default isolation level, READ     *)
(* COMMITTED, and any number of admin requests are in progress at once.    *)
(* An operation is therefore two or more steps: each SELECT sees what is   *)
(* committed at that moment, and the row's UPDATE together with the        *)
(* history INSERT become visible in one step, the COMMIT, because the      *)
(* UPDATE holds the row's lock until then.  What a transaction read before *)
(* it took the lock may be stale when it writes.                           *)
(*                                                                         *)
(* Rows are keyed by template name: names are unique, never changed by an  *)
(* update and never removed, so a name and the row's id are the same key.  *)
(***************************************************************************)
EXTENDS Naturals

CONSTANTS
    Templates,    \* names of prompt templates
    Texts,        \* template texts
    Hashes,       \* SHA-256 digests
    Hash,         \* the digest of each text
    VarLists,     \* values of a template's variables column
    Admins,       \* admin requests that can be in progress at the same time
    Keep,         \* "this field is absent from the request body"
    NoRow,        \* no row with this name
    MaxVersion    \* bound: no transaction starts from a row at this version

\* SHA-256 is taken to have no collisions; nothing that is proved needs it.
ASSUME HashAssumption ==
    \A x, y \in Texts : Hash[x] = Hash[y] => x = y

VARIABLES
    template,     \* the prompt_templates table: name -> row, or NoRow
    history,      \* the prompt_version_history table
    tx            \* what each admin request has read so far

storeVars == << template, history, tx >>

------------------------------------------------------------------------------
(* The shape of the data *)

Versions == 1 .. (MaxVersion + 1)
ReadVersions == 1 .. MaxVersion      \* versions a transaction may start from

Row == [version: Versions, text: Texts, variables: VarLists,
        isActive: BOOLEAN]

ASSUME StoreAssumption ==
    /\ Hash \in [Texts -> Hashes]
    /\ MaxVersion \in Nat
    /\ Keep \notin Texts \cup VarLists
    /\ NoRow \notin Row \cup [version: Nat, hash: Hashes]

HistoryEntry == [template: Templates, version: Versions, text: Texts,
                 hash: Hashes]

\* An update that has read the row's version.
UpdateTx == [op: {"update"}, template: Templates, version: ReadVersions,
             text: Texts \cup {Keep}, variables: VarLists \cup {Keep}]

\* A rollback that has read the row's version, then one that has also found
\* the history entry to restore.
RollbackTx == [op: {"rollback"}, template: Templates, version: ReadVersions,
               target: Versions]
RestoreTx == [op: {"restore"}, template: Templates, version: ReadVersions,
              entry: HistoryEntry]

\* A soft delete that has found the row.
DeleteTx == [op: {"delete"}, template: Templates]

Idle == [op |-> "idle"]

TypeOK ==
    /\ template \in [Templates -> Row \cup {NoRow}]
    /\ history \subseteq HistoryEntry
    /\ tx \in [Admins -> UpdateTx \cup RollbackTx \cup RestoreTx
                             \cup DeleteTx \cup {Idle}]

Exists(t) == template[t] # NoRow

\* The digest verifyPrompt looks for is the one kept in the history table.
Attests(h, t, version, hash) ==
    /\ h.template = t
    /\ h.version = version
    /\ h.hash = hash

Entry(t, version, text, hash) ==
    [template |-> t, version |-> version, text |-> text, hash |-> hash]

\* verifyPrompt: some history entry has this digest at this version.
VerifyPrompt(hash, version) ==
    \E h \in history : h.hash = hash /\ h.version = version

------------------------------------------------------------------------------
(* The container seeds the tables before the service starts.  A row then has *)
(* the version its release names, any version, and the seed has written one  *)
(* entry for it.  Entries of earlier releases are at lower versions, one     *)
(* each, with holes at the versions no release used.                         *)
AfterSeed ==
    /\ \A t \in Templates :
          Exists(t) => Entry(t, template[t].version, template[t].text,
                             Hash[template[t].text]) \in history
    /\ \A h \in history :
          Exists(h.template) /\ h.version <= template[h.template].version
    /\ \A h, k \in history :
          h.template = k.template /\ h.version = k.version => h = k

StoreInit ==
    /\ template \in [Templates -> Row \cup {NoRow}]
    /\ history \in SUBSET {Entry(t, version, text, Hash[text]) :
              t \in Templates, version \in Versions, text \in Texts}
    /\ AfterSeed
    /\ tx = [a \in Admins |-> Idle]

\* createTemplate: the row at version 1 and its first history entry, in one
\* transaction.  A name that is taken violates the unique index and the
\* transaction is rolled back, which changes nothing.
CreateTemplate(a, t, text, variables) ==
    /\ tx[a] = Idle
    /\ ~Exists(t)
    /\ template' = [template EXCEPT ![t] =
                       [version |-> 1, text |-> text,
                        variables |-> variables, isActive |-> TRUE]]
    /\ history' = history \cup {Entry(t, 1, text, Hash[text])}
    /\ UNCHANGED tx

\* updateTemplate, its read: the new version is fixed from here on.
UpdateRead(a, t, text, variables) ==
    /\ tx[a] = Idle
    /\ Exists(t)
    /\ template[t].version <= MaxVersion
    /\ tx' = [tx EXCEPT ![a] =
                 [op |-> "update", template |-> t,
                  version |-> template[t].version,
                  text |-> text, variables |-> variables]]
    /\ UNCHANGED << template, history >>

\* Mistakes the properties must find: two columns swapped, and a write that
\* puts a withdrawn template back in service.
RewriteSwapped(row, version, text, variables) ==
    [version |-> version, text |-> variables, variables |-> text,
     isActive |-> row.isActive]
RewriteRevives(row, version, text, variables) ==
    [version |-> version, text |-> text, variables |-> variables,
     isActive |-> TRUE]

\* The columns a write sets, over a row; isActive is never among them.
Rewrite(row, version, text, variables) ==
    [version |-> version, text |-> text, variables |-> variables,
     isActive |-> row.isActive]

\* A field that the request carries replaces the column; one it does not
\* carry leaves what the column holds when the row is written.
Merge(requested, stored) == IF requested = Keep THEN stored ELSE requested

\* Mistake: an update that leaves the text alone is not recorded.
UpdateCommitUnrecorded(a) ==
    /\ tx[a].op = "update"
    /\ LET t == tx[a].template
           version == tx[a].version + 1
           text == Merge(tx[a].text, template[t].text)
           variables == Merge(tx[a].variables, template[t].variables)
       IN  /\ template' =
                 [template EXCEPT ![t] = Rewrite(@, version, text, variables)]
           /\ history' = IF tx[a].text = Keep THEN history
                         ELSE history \cup {Entry(t, version, text, Hash[text])}
    /\ tx' = [tx EXCEPT ![a] = Idle]

\* updateTemplate, its commit: the columns of the request over the row as it
\* is now, the version computed from the row as it was read, and the text
\* of the resulting row in the history.
UpdateCommit(a) ==
    /\ tx[a].op = "update"
    /\ LET t == tx[a].template
           version == tx[a].version + 1
           text == Merge(tx[a].text, template[t].text)
           variables == Merge(tx[a].variables, template[t].variables)
       IN  /\ template' =
                 [template EXCEPT ![t] = Rewrite(@, version, text, variables)]
           /\ history' = history \cup {Entry(t, version, text, Hash[text])}
    /\ tx' = [tx EXCEPT ![a] = Idle]

\* rollbackTemplate, its first read: the template's row.
RollbackRead(a, t, target) ==
    /\ tx[a] = Idle
    /\ Exists(t)
    /\ template[t].version <= MaxVersion
    /\ tx' = [tx EXCEPT ![a] =
                 [op |-> "rollback", template |-> t,
                  version |-> template[t].version, target |-> target]]
    /\ UNCHANGED << template, history >>

\* rollbackTemplate, its second read: some history entry at the target
\* version; there can be several, and the query asks for no order.
RollbackFind(a) ==
    /\ tx[a].op = "rollback"
    /\ \E h \in history :
          /\ h.template = tx[a].template
          /\ h.version = tx[a].target
          /\ tx' = [tx EXCEPT ![a] =
                       [op |-> "restore", template |-> tx[a].template,
                        version |-> tx[a].version, entry |-> h]]
    /\ UNCHANGED << template, history >>

\* Mistakes: a rollback that keeps the version, and one that records the digest
\* of the text it replaces.
RollbackCommitInPlace(a) ==
    /\ tx[a].op = "restore"
    /\ LET t == tx[a].template
           version == tx[a].version
           h == tx[a].entry
       IN  /\ template' =
                 [template EXCEPT ![t] = Rewrite(@, version, h.text, @.variables)]
           /\ history' = history \cup {Entry(t, version, h.text, h.hash)}
    /\ tx' = [tx EXCEPT ![a] = Idle]
RollbackCommitStaleHash(a) ==
    /\ tx[a].op = "restore"
    /\ LET t == tx[a].template
           version == tx[a].version + 1
           h == tx[a].entry
       IN  /\ template' =
                 [template EXCEPT ![t] = Rewrite(@, version, h.text, @.variables)]
           /\ history' =
                 history \cup {Entry(t, version, h.text, Hash[template[t].text])}
    /\ tx' = [tx EXCEPT ![a] = Idle]

\* rollbackTemplate, its commit: the entry's text under a new version, and
\* the entry's text and digest copied to a new history entry.
RollbackCommit(a) ==
    /\ tx[a].op = "restore"
    /\ LET t == tx[a].template
           version == tx[a].version + 1
           h == tx[a].entry
       IN  /\ template' =
                 [template EXCEPT ![t] = Rewrite(@, version, h.text, @.variables)]
           /\ history' = history \cup {Entry(t, version, h.text, h.hash)}
    /\ tx' = [tx EXCEPT ![a] = Idle]

\* deleteTemplate: two statements and no transaction.
DeleteRead(a, t) ==
    /\ tx[a] = Idle
    /\ Exists(t)
    /\ tx' = [tx EXCEPT ![a] = [op |-> "delete", template |-> t]]
    /\ UNCHANGED << template, history >>

DeleteCommit(a) ==
    /\ tx[a].op = "delete"
    /\ template' = [template EXCEPT ![tx[a].template].isActive = FALSE]
    /\ tx' = [tx EXCEPT ![a] = Idle]
    /\ UNCHANGED history

\* A request ends without its write: the target version of a rollback does
\* not exist, a statement fails, the transaction times out, or the process
\* stops.  The database discards the open transaction.
Abort(a) ==
    /\ tx[a] # Idle
    /\ tx' = [tx EXCEPT ![a] = Idle]
    /\ UNCHANGED << template, history >>

AdminStep(a) ==
    \/ \E t \in Templates, text \in Texts, variables \in VarLists :
             CreateTemplate(a, t, text, variables)
    \/ \E t \in Templates, text \in Texts \cup {Keep},
          variables \in VarLists \cup {Keep} :
             UpdateRead(a, t, text, variables)
    \/ \E t \in Templates, target \in Versions : RollbackRead(a, t, target)
    \/ \E t \in Templates : DeleteRead(a, t)
    \/ UpdateCommit(a)
    \/ RollbackFind(a)
    \/ RollbackCommit(a)
    \/ DeleteCommit(a)
    \/ Abort(a)

StoreNext == \E a \in Admins : AdminStep(a)

StoreSpec == StoreInit /\ [][StoreNext]_storeVars

------------------------------------------------------------------------------
(* Properties *)

\* The row a client is served from can be verified: the digest of its text
\* stands in the history at the row's own version, whatever stale reads the
\* transactions that wrote the two were based on.
RowAttested ==
    \A t \in Templates :
        Exists(t) =>
            \E h \in history :
                /\ Attests(h, t, template[t].version, Hash[template[t].text])
                /\ h.text = template[t].text

\* The versions of a template, up to a given one, that no rollback can find.
Holes(t, version) ==
    {v \in 1 .. version :
        \A h \in history : ~(h.template = t /\ h.version = v)}

\* The admin operations make no hole in the history, even where overlapping
\* requests take a version twice or lower it: below a row's version, a rollback
\* misses only what the releases that were seeded had skipped, and no version
\* that an administrator's write has given the row.
NoHoleMade ==
    [][\A t \in Templates :
          Exists(t) => Holes(t, template[t].version)' \subseteq
                           Holes(t, template[t].version)]_storeVars

\* A digest is never separated from its text: a rollback copies digest and
\* text of one entry instead of computing the digest again.
HistoryHashed == \A h \in history : h.hash = Hash[h.text]

\* What makes the others inductive: a transaction works on a row that exists,
\* what a rollback is about to copy came out of the history, and below the
\* version a transaction read there are the holes that are below the row's
\* version now, whichever of the two is higher.
TxGrounded ==
    \A a \in Admins :
        /\ tx[a] # Idle => Exists(tx[a].template)
        /\ tx[a].op \in {"update", "rollback", "restore"} =>
               Holes(tx[a].template, tx[a].version) =
                   Holes(tx[a].template, template[tx[a].template].version)
        /\ tx[a].op = "restore" => tx[a].entry \in history

StoreInv ==
    /\ TypeOK
    /\ RowAttested
    /\ HistoryHashed
    /\ TxGrounded

\* A version number names one text of a template.  It holds when admin
\* requests never overlap and fails when they do.
OneTextPerVersion ==
    \A h, k \in history :
        h.template = k.template /\ h.version = k.version => h.text = k.text

\* With one admin request at a time, what a transaction read is still so when
\* it writes, and no entry of the history is ahead of its row.
SerialInv ==
    /\ StoreInv
    /\ \A a \in Admins :
          tx[a].op \in {"update", "rollback", "restore"} =>
              tx[a].version = template[tx[a].template].version
    /\ \A h \in history :
          Exists(h.template) /\ h.version <= template[h.template].version
    /\ OneTextPerVersion

\* "Monotonically increasing version number" (docs/architecture.md): no step
\* lowers a row's version, and a step that changes its text raises it.  It
\* holds when admin requests never overlap and fails when they do.
VersionMonotone ==
    [][\A t \in Templates :
          Exists(t) =>
              /\ template'[t].version >= template[t].version
              /\ template'[t].text # template[t].text =>
                     template'[t].version > template[t].version]_storeVars

\* The store keeps the promises of VersionLedger: editions are attested when
\* they become current and for ever after, and a retired template stays so.
Edition(t) == [version |-> template[t].version,
               hash |-> Hash[template[t].text]]

current == [t \in Templates |-> IF Exists(t) THEN Edition(t) ELSE NoRow]
attested == {<< h.template, [version |-> h.version, hash |-> h.hash] >> :
                 h \in history}
retired == {t \in Templates : Exists(t) /\ ~template[t].isActive}

Ledger == INSTANCE VersionLedger WITH None <- NoRow

ImplementsLedger == Ledger!LedgerSpec
==============================================================================
