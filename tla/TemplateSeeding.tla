--------------------------- MODULE TemplateSeeding ---------------------------
(***************************************************************************)
(* The seed script (src/prisma/seed.ts) running beside the admin           *)
(* operations of TemplateStore.  The container's command is                *)
(*   prisma migrate deploy && node seed.js && node main                    *)
(* so every start of a replica seeds before it serves, a failed seed stops *)
(* the container, and the orchestrator starts it again.  The deployment of *)
(* a replica may replace others, which never start again, and may let      *)
(* others run beside it, each with the prompts of its own seed file.       *)
(* main() uses no transaction: the upsert of a row, the search for a       *)
(* history entry and its insertion are three steps.                        *)
(***************************************************************************)
EXTENDS TemplateStore

CONSTANTS
    Replicas,        \* containers running the service
    Release,         \* replica -> the entries of its seed file, by name
    Promoted,        \* replica -> the names its script retires at the end
    Replaces,        \* replica -> the replicas that its deployment replaces
    Host,            \* admin request -> the replica that serves it
    EditsSeeded,     \* are seeded templates edited through the admin API too?
    MaxCrashes       \* bound: crashes in a behaviour

\* What a seed file says: a text, its variables, and either an explicit
\* version or none (Keep).
SeedEntry == [text: Texts, variables: VarLists,
              version: Versions \cup {Keep}]

ASSUME SeedingAssumption ==
    /\ Release \in [Replicas -> UNION {[S -> SeedEntry] : S \in SUBSET Templates}]
    /\ Promoted \in [Replicas -> SUBSET Templates]
    /\ Replaces \in [Replicas -> SUBSET Replicas]
    /\ \A r \in Replicas : r \notin Replaces[r]
    /\ Host \in [Admins -> Replicas]
    /\ EditsSeeded \in BOOLEAN
    /\ MaxCrashes \in Nat

VARIABLES
    replica,     \* replica -> where its container is in its command
    crashes      \* crashes so far

seedVars == << replica, crashes >>
vars == << template, history, tx, replica, crashes >>

(* The states of a container.  While it seeds, `todo' is the set of entries *)
(* still to be upserted, in any order: each concerns a row of its own.      *)
(* `row' is what the last upsert returned.                                  *)
New == [at |-> "new"]         \* not deployed yet
Down == [at |-> "down"]       \* to be started
Up == [at |-> "up"]           \* serving
Gone == [at |-> "gone"]       \* replaced, or never to be deployed
Seeding(todo) == [at |-> "upsert", todo |-> todo]

\* A database that no release has seeded yet.
SeedInit ==
    /\ template = [t \in Templates |-> NoRow]
    /\ history = {}
    /\ tx = [a \in Admins |-> Idle]
    /\ replica = [r \in Replicas |-> New]
    /\ crashes = 0

\* The requests of containers that stop end with them.
Ended(stopped) == [a \in Admins |-> IF Host[a] \in stopped THEN Idle ELSE tx[a]]

\* The service's container is created anew from another image: the old one is
\* stopped first, wherever it is in its command, and does not come back.
Deploy(r) ==
    /\ replica[r] = New
    /\ replica' = [s \in Replicas |->
          IF s = r THEN Down ELSE IF s \in Replaces[r] THEN Gone ELSE replica[s]]
    /\ tx' = Ended(Replaces[r])
    /\ UNCHANGED << template, history, crashes >>

Boot(r) ==
    /\ replica[r] = Down
    /\ replica' = [replica EXCEPT ![r] = Seeding(DOMAIN Release[r])]
    /\ UNCHANGED << template, history, tx, crashes >>

\* Mistake: the upsert sets isActive as well.
UpsertedRowActive(t, e) ==
    [version |-> IF Exists(t) THEN Merge(e.version, template[t].version)
                 ELSE Merge(e.version, 1),
     text |-> e.text, variables |-> e.variables, isActive |-> TRUE]

\* prisma.promptTemplate.upsert.  isActive is not among the fields a seed
\* entry has: an update leaves it as it is, a new row gets the default.
UpsertedRow(t, e) ==
    IF Exists(t)
    THEN [template[t] EXCEPT !.text = e.text, !.variables = e.variables,
                             !.version = Merge(e.version, template[t].version)]
    ELSE [version |-> Merge(e.version, 1), text |-> e.text,
          variables |-> e.variables, isActive |-> TRUE]

SeedUpsert(r, t) ==
    /\ replica[r].at = "upsert"
    /\ t \in replica[r].todo
    /\ LET row == UpsertedRow(t, Release[r][t])
       IN  /\ template' = [template EXCEPT ![t] = row]
           /\ replica' = [replica EXCEPT ![r] =
                 [at |-> "find", todo |-> replica[r].todo \ {t},
                  template |-> t, row |-> row]]
    /\ UNCHANGED << history, tx, crashes >>

\* Mistake: any entry of the template is taken as the one to be recorded.
SeedFindAnyVersion(r) ==
    /\ replica[r].at = "find"
    /\ replica' = [replica EXCEPT ![r] =
          IF \E h \in history : h.template = replica[r].template
          THEN Seeding(replica[r].todo)
          ELSE [replica[r] EXCEPT !.at = "record"]]
    /\ UNCHANGED << template, history, tx, crashes >>

\* An entry at the row's version is taken as this version's entry, whatever
\* text it holds.
SeedFind(r) ==
    /\ replica[r].at = "find"
    /\ replica' = [replica EXCEPT ![r] =
          IF \E h \in history : /\ h.template = replica[r].template
                                /\ h.version = replica[r].row.version
          THEN Seeding(replica[r].todo)
          ELSE [replica[r] EXCEPT !.at = "record"]]
    /\ UNCHANGED << template, history, tx, crashes >>

\* Mistake: the digest is taken from the row as it is now, the text from what
\* the upsert returned.
SeedRecordTorn(r) ==
    /\ replica[r].at = "record"
    /\ LET t == replica[r].template
           row == replica[r].row
       IN  history' = history \cup
               {Entry(t, row.version, row.text, Hash[template[t].text])}
    /\ replica' = [replica EXCEPT ![r] = Seeding(replica[r].todo)]
    /\ UNCHANGED << template, tx, crashes >>

SeedRecord(r) ==
    /\ replica[r].at = "record"
    /\ LET row == replica[r].row
       IN  history' = history \cup
               {Entry(replica[r].template, row.version, row.text,
                      Hash[row.text])}
    /\ replica' = [replica EXCEPT ![r] = Seeding(replica[r].todo)]
    /\ UNCHANGED << template, tx, crashes >>

\* retirePromotedQuotedVariant, and the end of the script.
SeedRetire(r) ==
    /\ replica[r] = Seeding({})
    /\ template' = [t \in Templates |->
          IF t \in Promoted[r] /\ Exists(t)
          THEN [template[t] EXCEPT !.isActive = FALSE]
          ELSE template[t]]
    /\ replica' = [replica EXCEPT ![r] = Up]
    /\ UNCHANGED << history, tx, crashes >>

\* A statement of the script fails or the container stops, at any moment; the
\* admin requests it was serving end with it.
Crash(r) ==
    /\ crashes < MaxCrashes
    /\ replica[r] \notin {New, Down, Gone}
    /\ replica' = [replica EXCEPT ![r] = Down]
    /\ crashes' = crashes + 1
    /\ tx' = Ended({r})
    /\ UNCHANGED << template, history >>

SeedStep(r) ==
    \/ Boot(r)
    \/ \E t \in Templates : SeedUpsert(r, t)
    \/ SeedFind(r)
    \/ SeedRecord(r)
    \/ SeedRetire(r)

\* Admin requests are served by replicas that are up.  Where seeded templates
\* are not edited, an administrator may still withdraw them.
Seeded == UNION {DOMAIN Release[r] : r \in Replicas}

WithdrawnAtMost(t) ==
    \/ template'[t] = template[t]
    \/ Exists(t) /\ template'[t] = [template[t] EXCEPT !.isActive = FALSE]

ServedStep(a) ==
    /\ replica[Host[a]] = Up
    /\ AdminStep(a)
    /\ EditsSeeded \/ \A t \in Seeded : WithdrawnAtMost(t)
    /\ UNCHANGED seedVars

SeedNext ==
    \/ \E a \in Admins : ServedStep(a)
    \/ \E r \in Replicas : Deploy(r) \/ SeedStep(r) \/ Crash(r)

\* A started container runs its command, and one that has stopped by itself is
\* started again (restart: unless-stopped).  Nobody has to deploy anything.
SeedSpec ==
    /\ SeedInit
    /\ [][SeedNext]_vars
    /\ \A r \in Replicas : WF_vars(SeedStep(r))

------------------------------------------------------------------------------
(* Properties *)

\* The digest of the row's text stands in the history at the row's version.
Attested(t) ==
    \E h \in history :
        Attests(h, t, template[t].version, Hash[template[t].text])

\* Clients are given a text that verifyPrompt would not confirm.
ServedUnattested(t) == Exists(t) /\ template[t].isActive /\ ~Attested(t)

\* No container seeds or has to seed again.
Settled == \A r \in Replicas : replica[r] \in {New, Up, Gone}

\* "Every template change is recorded in the prompt_version_history table"
\* (SECURITY.md), of the templates in service, at the moments when no replica
\* is seeding or has to seed again: also after a prompt's first revision, from
\* no version in the seed file to an explicit one.
SettledAttested == Settled => \A t \in Templates : ~ServedUnattested(t)

\* A template that is served with a text nobody can verify becomes verifiable
\* or is retired, whatever crashes and deployments interrupt its seeding, and
\* though the container that upserted it may never run again.
SeedConverges ==
    \A t \in Templates : ServedUnattested(t) ~> ~ServedUnattested(t)

\* The seed never brings back a template an administrator withdrew.
NoRevival ==
    [][\A t \in Templates :
          Exists(t) /\ ~template[t].isActive => ~template'[t].isActive]_vars

------------------------------------------------------------------------------
(* Why SettledAttested holds *)

Seeds(r, t) == t \in DOMAIN Release[r]

\* The version at which a release's text is recorded.
ReleaseVersion(r, t) == Merge(Release[r][t].version, 1)

\* What seed.ts asks of a revision: a new text comes under a version of its
\* own.  A prompt that was never revised names no version, so a release that
\* names a later one must replace those that name none: when such a release
\* seeds again over the revised row, an older build put back included, its
\* text stays under the newer version and no entry is written for it.
ReleasesAgree ==
    \A r, s \in Replicas, t \in Templates :
        Seeds(r, t) /\ Seeds(s, t) =>
            /\ ReleaseVersion(r, t) = ReleaseVersion(s, t) =>
                   Release[r][t].text = Release[s][t].text
            /\ Release[r][t].version = Keep =>
                   r \in Replaces[s] \/ ReleaseVersion(s, t) = 1

\* "Dropping an entry from prompts[] does not remove its row": a release that
\* replaces another seeds its prompts or retires them.
Succession ==
    \A s \in Replicas : \A r \in Replaces[s] :
        DOMAIN Release[r] \cup Promoted[r] \subseteq
            DOMAIN Release[s] \cup Promoted[s]

FromRelease(r, t, version, text) ==
    /\ Seeds(r, t)
    /\ version = ReleaseVersion(r, t)
    /\ text = Release[r][t].text

Script == [at: {"find", "record"}, todo: SUBSET Templates,
           template: Templates, row: Row]

SeedTypeOK ==
    /\ TypeOK
    /\ replica \in [Replicas -> {New, Down, Up, Gone} \cup
                         {Seeding(todo) : todo \in SUBSET Templates} \cup Script]

\* Requests work on rows that exist and restore entries of the history.
TxHeld ==
    \A a \in Admins :
        /\ tx[a] # Idle => Exists(tx[a].template)
        /\ tx[a].op = "restore" => tx[a].entry \in history

\* A script works through its own release, one row at a time.
ScriptHeld ==
    \A r \in Replicas :
        /\ replica[r].at \in {"upsert", "find", "record"} =>
               replica[r].todo \subseteq DOMAIN Release[r]
        /\ replica[r].at \in {"find", "record"} =>
               /\ Seeds(r, replica[r].template)
               /\ Exists(replica[r].template)

SeedBase == SeedTypeOK /\ HistoryHashed /\ TxHeld /\ ScriptHeld

\* What r's deployment replaces does not run any more.
Deployed(r) == \A s \in Replaces[r] : replica[s] = Gone

DeployedHeld ==
    \A r \in Replicas : replica[r] \notin {New, Gone} => Deployed(r)

\* The rows, the history and the scripts hold texts of releases at those
\* releases' versions, of the templates that are seeded.
RowsReleased ==
    \A t \in Seeded :
        Exists(t) =>
            \E r \in Replicas :
                /\ FromRelease(r, t, template[t].version, template[t].text)
                /\ Deployed(r)

EntriesReleased ==
    \A h \in history :
        h.template \in Seeded =>
            \E r \in Replicas : FromRelease(r, h.template, h.version, h.text)

ScriptReleased ==
    \A r \in Replicas :
        replica[r].at \in {"find", "record"} =>
            FromRelease(r, replica[r].template,
                        replica[r].row.version, replica[r].row.text)

\* Replica r will still see to it that t is attested or retired: it has yet to
\* boot, to upsert t, to look for the entry of what it upserted, or to retire t.
Owes(r, t) ==
    \/ /\ t \in Promoted[r]
       /\ replica[r].at \in {"down", "upsert", "find", "record"}
    \/ /\ Seeds(r, t)
       /\ \/ replica[r].at = "down"
          \/ /\ replica[r].at \in {"upsert", "find", "record"}
             /\ t \in replica[r].todo
          \/ /\ replica[r].at \in {"find", "record"}
             /\ replica[r].template = t
             /\ replica[r].row.version = template[t].version
             /\ replica[r].row.text = template[t].text

AttestedOrOwed ==
    \A t \in Templates :
        ServedUnattested(t) => \E r \in Replicas : Owes(r, t)

SeedInv ==
    /\ SeedBase
    /\ DeployedHeld
    /\ RowsReleased
    /\ EntriesReleased
    /\ ScriptReleased
    /\ AttestedOrOwed
==============================================================================
