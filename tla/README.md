# Verification models of the prompt service

The prompt service (OpusPopuli/prompt-service) hands out prompt templates to
federated nodes. Administrators edit the templates, register the nodes and run
A/B experiments; nodes fetch prompts and verify them later by digest and version.
It is a NestJS application in TypeScript on PostgreSQL (through Prisma) with the
Supabase Vault for keys. This directory has TLA+ modules of its stateful parts,
the configurations with which TLC checks small instances of them, and proofs that
TLAPS checks for every size.

    tlc -config TemplateStore.cfg MCTemplateStore.tla     # one run
    tlapm TemplateStoreProofs.tla                         # one proof module

File names below are relative to the repository; `admin.service.ts` and so on are
under `src/`.

## The system

### Components

| component | state | operations | models |
|---|---|---|---|
| Template store: `admin/admin.service.ts`, `prisma/schema.prisma` | `prompt_templates`, `prompt_version_history` | create, update, rollback, (soft) delete | `TemplateStore`, `VersionLedger` |
| Seed script: `prisma/seed.ts`, run by the container before the service (`Dockerfile:41`) | the same tables | upsert every template, find and record its history entry, retire a template that was promoted | `TemplateSeeding` |
| Prompt serving: `prompts/prompts.service.ts` | reads the same tables and experiments; appends to `prompt_request_logs` | compose, raw template, digest, verify | `PromptServing`, `TemplateStore` (verify) |
| Experiments: `admin/admin.service.ts` | `experiments`, `experiment_variants` | create, activate, stop | `Experiments` |
| Experiment resolution: `experiments/experiments.service.ts` | none | bucket of a key, variant of a bucket | `Experiments`, `PromptServing` |
| Node registry: `admin/node-registry.service.ts` | `nodes`, `node_audit_logs`, secrets in the Vault | register, update, certify, decertify, recertify, rotate key, delete | `NodeRegistry` |
| Vault: `common/vault.service.ts` | secrets | create, delete, fetch | as used in `NodeRegistry`, `NodeAuth` |
| Node authentication: `auth/api-key.guard.ts` | none but keys of regions, read at boot | Bearer: digest in the row; HMAC: row, then secret from the Vault | `NodeAuth`, `NodeCredentials` |
| Seeded prompt texts: `prisma/seed.ts` | none | data: placeholders, variables, notice of each template | `SeededPrompts` |
| Request bodies and descriptors: `prompts/dto/*`, `prompts/prompts.service.ts` | none | accept a body, build the variables of a template | `PromptRequests` |
| Interpolation and the drift check at start: `prompts/prompts.service.ts` | none | fill placeholders, compare them with the variables column | `PromptCatalog` |
| Admin authentication, key loading: `auth/admin-key.guard.ts`, `prisma/seed.ts`, `auth/api-key.guard.ts` | keys in memory, from the environment and the Vault | load at boot | not modelled |
| Rate limits, certificate gauges, HTTP metrics, health | counters | | not modelled |
| Error bodies, logs, correlation ids | none | | not modelled |

### How they interact

Everything meets in the database. The service runs as several replicas, each an
event loop that interleaves requests at every `await`; nothing in the code takes
a lock beyond what PostgreSQL takes for a statement, and the transactions run at
the default level, READ COMMITTED. So a value that was read may be out of date
when it is used, within a transaction as well as outside.

- Administrators change templates while nodes fetch them and while the seed
  script of a starting replica writes the same rows.
- A request for a prompt makes three to seven queries, each of which sees what is
  committed at that moment: the template by name, its active experiment with its
  variants, the row, a fallback, an auxiliary template with its own fallback, and
  the variables of a raw template. It then appends to the request log.
- A registration or rotation changes two stores, the database and the Vault, by
  separate calls, in this order: registration commits the row, creates the secret
  and links it; rotation creates the secret, commits the row, removes the old
  secret.
- The guard reads a node's row and its secret in two steps, beside rotations,
  deletions and decertifications.
- A prompt is put together from three files: the seed's texts, the descriptor of the
  endpoint and its request body. Nothing but the warnings of the drift check ties them.

### What is hard, and what makes it correct

- *Concurrency.* Read-modify-write without a lock: version numbers (template
  store), status checks (registry, experiments), the late link of a registration.
  Correct means: what is served can be verified, whatever was stale.
- *Stale answers.* Between the guard's read of the row and its fetch of the secret the
  key can be replaced, the node decertified or deleted, the certificate expire. The
  answer must be right at one end of the request at least.
- *Partial failure.* Rotation across two stores: a node has at all times one
  usable key, and no key that was replaced is accepted.
- *Crash and restart.* The seed can stop between upsert and history entry, with
  replicas of two releases at it: it must converge once replicas are up.
- *Long sequences.* Rollbacks copy text and digest of entries that may come from
  rollbacks; withdrawn templates are upserted again at every start.
- *Boundaries.* Buckets and running totals of percentages.
- *Parts that must fit.* A placeholder without a variable, an optional field that is
  joined or quoted without a check, a value that quotes a placeholder, untrusted text
  above the notice that declares it untrusted: each needs the right body for the right
  template to show.

`PROJECT.json` lists each hazard at its line with the properties that cover it.

## The modules

Every operation is split where the code awaits: one action per query or
transaction, and a record per request for what it has read so far. What the code
does in one transaction appears in one action, its commit, since the first UPDATE
holds the row's lock until then. Operators whose comment begins with "Mistake"
are not part of the models: they are plausible bugs, kept to test the properties.

**TemplateStore.** `template` is the table by name (names are unique, never change
and are never removed, so name and id are one key), `history` the set of history
entries, `tx` what each admin request has read. The service never meets empty tables:
`StoreInit` is any state that the seed can leave (`AfterSeed`), rows at whatever
version their release names (2, 6, 7 in `seed.ts`) with one entry for it, entries of
earlier releases at lower versions, and holes at the versions no release used.
`CreateTemplate`, `UpdateRead` /
`UpdateCommit`, `RollbackRead` / `RollbackFind` / `RollbackCommit`, `DeleteRead` /
`DeleteCommit` are `createTemplate`, `updateTemplate`, `rollbackTemplate` and
`deleteTemplate`; `Abort` is every way a transaction can end without a commit.
Texts are model values with a digest each. A field absent from the request
(`Keep`) leaves the column as it is at the write, and the history entry takes the
text the UPDATE returned. Category, description and notes are left out.

**VersionLedger** is what the store promises its clients, without columns or
transactions: an edition (version and digest) becomes current in the step that
attests it; attestations are for ever; withdrawals are for ever. It may begin with
editions published and templates withdrawn. `TemplateStore`
implements it (`ImplementsLedger`).

**TemplateSeeding** adds replicas that run the seed, over tables that are empty at first:
`Boot`, then per seed entry `SeedUpsert`, `SeedFind`, `SeedRecord`, then `SeedRetire`,
with `Crash` anywhere. Each replica has its release: which templates it seeds, with or
without an explicit version, and which it retires. `Deploy` is `docker compose up -d` with
another image: the containers that it replaces (`Replaces`; one, by `container_name` in
`docker-compose-prod.yml`) are stopped wherever they are and never run again (`Gone`), and
others may run beside it. Replicas that are `Up` serve the admin requests. What is assumed
of releases (`ReleasesAgree`, `Succession`) and the inductive `SeedInv` are at the end.

**Experiments** has the life cycle and the assignment. `activateExperiment` is two
queries and an update (`ActivateRead`, `ActivateCheck`, `ActivateCommit`).
`BucketToVariant` is the code's loop over running totals; `Orders` are the orders
in which the database may return variants of equal percentage.

**PromptServing** extends `TemplateStore`, instantiates `Experiments`, and adds the
requests for prompts. `Ask` begins one; `Lookup` and `FindExperiment` are the two
queries of `resolveExperiment`; `FindCanonical` and `FindFallback` those of
`getActiveTemplate`; `FindAuxiliary` and `FindAuxFallback` the same for the
auxiliary template; `ReadVariables` is the extra query of `getPromptTemplate`;
`LogRequest` answers; `Drop` is a query that fails. `serves` is which history entry
each variant serves; the code accepts any entry, of another template too, and
serves it under the name that was asked for. `start` in a request's record is a
history variable: how things stood when it came in.

**NodeRegistry** has `node`, `audit`, `vault`, and `req` for requests between two
calls. `RegisterNode` / `RegisterVault` / `RegisterLink`, `RotateRead` /
`RotateVault` / `RotateCommit` / `CleanUp`, `CertifyRead` / `CertifyCommit`,
`DeleteRead` / `DeleteCommit` follow the awaits; `DecertifyNode`, `RecertifyNode` and
`UpdateNode` are one step because their write does not depend on what they read.
`Fail` ends a request at any of its steps, `RowGone` is a write whose row was deleted
meanwhile. Keys are numbers in the order of generation, which is enough since they
are 256 random bits and only compared. `retired` is a history variable. `audit` counts a
node's log entries by action: the table gives them no order but `createdAt`, the moment at
which the transaction that wrote them began, so the model gives them none.

**NodeCredentials** is what authentication promises: each node has at most one
credential, a replaced one is dead for ever, and a request is answered with what was
true when it came in (`Begin` notes it) or is true when it is answered (`Settle`). It
knows no rows, secrets or signatures.

**NodeAuth** extends `NodeRegistry` by the requests of nodes. A Bearer request is one
query on digest, status and expiry (`Bearer`). An HMAC request is refused for its
timestamp (`HmacUntimely`), or reads and checks the row (`HmacRead`), and then fetches
the secret that row named and compares (`HmacFetch`); the row is not read again. A
signature stands for the key that made it. `ImplementsCredentials` maps a node's
credential to its digest if it is certified and not expired, and a request between its
two steps to one that noted what its row's secret was to verify.

**SeededPrompts** has every template of the seed: its placeholders in order, the
declared variables, where its notice stands. **PromptRequests** has every endpoint: what
its body accepts, field by field, as sorts of values (absent, empty, blanks, given, given
and quoting a placeholder; a wrong type is refused; of a list of objects also one with a
null or with a list among its entries, which `ValidateNested` passes over), and the
variables that its descriptor builds, as tokens, with `Failed` where the code throws and
`Undefined` where it writes a missing value. **PromptCatalog** puts them together:
`runVariableDriftCheck` at start, then `Receive`, `Validate` and `composePrompt`, which
ends in an answer or, where the variables cannot be built (`buildFails`), in a 500, with
`interpolate` as one pass over the tokens of the template. Templates are unedited here;
edits, withdrawals and experiments are the matter of `PromptServing`.

**MC...** modules hold the instances for TLC, **...Proofs** modules the theorems
(`NodeStatusProofs` those of `NodeRegistry` about admin requests that do not overlap).

## Assumptions

- PostgreSQL at READ COMMITTED: a SELECT sees what is committed, an UPDATE applies
  to the row as it is then. Repeatable reads would turn some stale writes into
  errors and remove behaviours; none would be added.
- Names of templates are strings that only agree if what completes them agrees
  (`CatalogAssumption`).
- SHA-256 does not collide (`HashAssumption`; no proof uses it).
- Random keys and ids do not repeat.
- Nobody works on the database by other means than the service and its seed.
- Some properties need more, and the configuration or the theorem says so:
  - `Serial` (at most one admin request at a time) for `VersionMonotone`,
    `OneTextPerVersion`, `OneActive`, `Lifecycle`, `RecertifyOnly`,
    `DecertifiedMarked`, `VaultTight`, `DefaultAfterStop`, and the two `SerialInv`;
  - no early actions (`EarlyActions = FALSE`: nobody acts on a node before its
    registration has returned) for `KeysAgree`, `RetiredKeyDead` and what rests
    on them, `ImplementsCredentials` and `BothWaysOpen`;
  - no failures (`Reliable = TRUE`) for `VaultTight`, since clean-up is best effort, and
    for `BothWaysOpen`, since a registration can end before it links its secret; with
    failures, `NodeCredentials` allows a refusal at any time;
  - for `SettledAttested` and `SeedConverges`, that administrators edit no seeded template
    (`EditsSeeded = FALSE`; they may withdraw any); that releases agree (`ReleasesAgree`):
    they give one text to a version, and a release that names no version for a prompt,
    because it was never revised (`seed.ts:50-53`), is replaced by those that name a later
    one, as a deployment by compose does; and that a release seeds or retires what the
    releases it replaces seeded or retired (`Succession`). The store's own properties
    (`RowAttested` and the rest) are about admin operations from a state that the seed has
    left whole.

  The runs that expect a violation show that overlaps, early actions and edits of seeded
  templates do break these properties.

Fairness is assumed in one place: weak fairness of each replica's seed steps
(including its next boot) in `TemplateSeeding`. A replica has nothing else to do until
the seed has ended (`Dockerfile:41`: migrate, then seed, then the service), and
`restart: unless-stopped` in both compose files starts a container again that ended.
Nobody is assumed to deploy anything.
Crashes are bounded (`MaxCrashes`), which says that they do not go on for ever.
No administrator and no client is assumed to do anything.

## What is checked

| run | instance | what it shows |
|---|---|---|
| `TemplateStore` | 1 template, 2 texts, 2 overlapping requests, 3 increments, every state a seed can leave | rows are attested (`RowAttested`), requests make no hole in the history (`NoHoleMade`) and digests stay with texts (`HistoryHashed`), the inductive `StoreInv`, and the refinement of `VersionLedger`, under any overlap |
| `TemplateConcurrentVersions` | 1 template, 2 requests | **violation** of `VersionMonotone` |
| `TemplateSeeding` | 3 templates, 3 replicas of three releases, 2 crashes, 2 administrators | once no replica seeds or has to, every template in service can be verified (`SettledAttested`), and one that cannot will be or is retired (`SeedConverges`, liveness); no withdrawn template returns (`NoRevival`); `HistoryHashed` |
| `TemplateSeedingEdited` | 1 template, 1 replica, 1 administrator | **violation** of `SettledAttested` |
| `Experiments` | 2 experiments on 2 templates, 2 keys, 1 request | one active experiment and what an activation has found still holds (`SerialInv`), `Lifecycle`, exact shares (`SharesExact`), stickiness up to ties (`StickyUpToTies`) |
| `ExperimentsRace` | 2 experiments on 1 template, 2 requests | **violation** of `OneActive` |
| `NodeRegistry` | 2 nodes, 2 requests, failures anywhere | `RowSecretLive`, `KeysAgree`, `RetiredKeyDead`, the inductive `KeyInv` |
| `NodeAuth` | 2 nodes, 1 admin request, 1 request of a node, no failures | the refinement of `NodeCredentials`; both ways of authenticating stay open (`BothWaysOpen`); `VaultTight`, `DecertifiedMarked`, `RecertifyOnly`; the inductive `AuthInv` and `SerialInv` |
| `NodeCertifyRace` | 1 node, 2 requests | **violation** of `RecertifyOnly` |
| `NodeEarlyRotation` | 1 node, 2 requests | **violation** of `KeysAgree` |
| `PromptServing` | 2 templates, 1 experiment, 1 request for a prompt, 1 admin request | `AnswersVerify`, `WithdrawnNotServed`, `FallbackJustified`, `DefaultAfterStop`, `VersionMonotone`, `OneTextPerVersion`, the inductive `ServingInv` |
| `PromptCatalog` | all endpoints, 6 types of data, 13 of documents and one unknown, bodies with up to two odd fields | the drift check is silent (`DriftSilent`); no accepted body fails, writes "undefined" or leaves a placeholder open, but for nulls and lists among stages and hearings (`WellFormed`); nothing it says is lost (`NothingLost`); quoted placeholders move nothing (`QuotesInert`); what is untrusted stands below the notice, but for the impact lines of two prompts (`BelowNotice`) |

Why the bounds are enough. Two requests are the least that overlap, and every
condition in the code is about one row and what one other request did to it; a third
request on the same row is covered by the proofs. `MaxVersion` caps where a
transaction may start; three increments let one transaction start, two others commit
and the first write below them. `MaxKeys` covers a registration with two rotations or
two nodes of which one is rotated, `MaxTime` a certificate that expires, `MaxAudit` one
certification, one decertification and one recertification of each node, so that a node
goes through every status and back; keys and the clock are used up at
some point, which is why those runs say `CHECK_DEADLOCK FALSE`. The seeding runs do
because all replicas end up. In `NodeAuth` the two logs have at most four entries
(`FewEntries`), and the tolerance is 0, so that a timestamp can be off on both sides; one
request of a node is enough, since requests of nodes change nothing that others read.
In `TemplateSeeding` the first release seeds two prompts that name no version. Its
successor has the first revision of one, under version 2, and retires the other; a third
release takes the revision back, by version and text as `seed.ts:3386` says, and either or
both replace the first. Rollbacks by a release, first revisions and overlapping seeds are
thus all in it. The administrators edit a template that no release seeds and may withdraw
any: an edit of a seeded one breaks `SettledAttested`, which is the next run.
The percentages of `Experiments` have ties, a variant of 0 percent, three variants and
a list that is refused; the digests fall on both ends and on boundaries, and
`SharesExact` goes through all 100 buckets. `PromptServing` (`Focus`) bounds the history
at three entries, two editions of the template that is asked for and one of its fallback,
with experiments on the former only; its key falls into the first bucket of the second
variant. `PromptCatalog` starts from a full and from the sparsest body and lets any two
fields take any sort, a third would have to matter only together with two others, and no
descriptor combines more than two fields in one variable (any number is proved); every
placeholder of the template is quoted in turn. Symmetry is used for admin requests, nodes and texts where no
configuration tells them apart, and in no run with a liveness property.

### What the violations show

- `TemplateConcurrentVersions`: an update that read early and commits late writes a
  version that another update has used as well (the trace), or one below the current one;
  `docs/architecture.md:76` says "Monotonically increasing version number". Rows stay
  verifiable nonetheless (proved).
- `TemplateSeedingEdited`: a restart puts the seed's text back under the version an
  administrator's edit reached; the search for a history entry finds the edit's, and
  the text that is served cannot be verified.
- `NodeCertifyRace`: a certification that read the status before a decertification
  committed undoes it, though the message says to recertify instead.
- `NodeEarlyRotation`: the row is listed before its registration has linked the
  secret; a rotation in between is half undone, and the two key columns then belong to
  two keys, as in the bug that the comment in `rotateApiKey` says is fixed.
- `ExperimentsRace`: two activations that check at the same time both succeed;
  `docs/architecture.md:279` says one per template.

Divergences that are visible in the code and have no run of their own:

- Deleting a node cascades to its audit log (`schema.prisma:134`), which
  `SECURITY.md:58` calls immutable; `DeleteCommit` models it.
- A stop that falls into an activation is undone by it: `Lifecycle` and
  `DefaultAfterStop` hold for one admin request at a time.
- `lifecycleStages: [null]` and `upcomingHearings: [null]` pass the pipe
  (`bill-status-summary.dto.ts:117-121`, `committee-relevance-explanation.dto.ts:161-165`:
  `ValidateNested` looks at objects only) and end in a `TypeError`, status 500
  (`prompts.service.ts:1078`, `:493`); a list in place of an entry writes "undefined".
- `fiscalImpactSummary` and `stakeholderImpact` come from the analysis of a bill like
  `plainEnglishSummary`, and the descriptor of `bill-analysis` fences the former as
  untrusted (`prompts.service.ts:228-236`); the two prompts on relevance put both above
  their notice (`:252-259`, `:398-405`). `BelowNotice` names them in `Exposed`.
- The drift check looks for placeholders of letters and underscores
  (`prompts.service.ts:1084`), interpolation fills those with digits too; no seeded
  template has one.
- The audit log is shown by `createdAt` (`node-registry.service.ts:125`), the start of the
  transaction that wrote the entry (`schema.prisma:132`): where changes of status overlap,
  the entry shown last need not be the one that explains the status.
- Not every version can be rolled back to: a template that was seeded at version 2, 6 or 7
  has entries only for the versions that releases named (`seed.ts:3556-3576`).
- Between the upsert of the seed and its history entry, at every start with a new text, the
  row that is served cannot be verified (`SettledAttested` is about the other moments).
- A bill or proposition without topics leaves the label of its list bare
  (`prompts.service.ts:249`, `:395`), and the summary of a fiscal impact is dropped
  silently if its level is not given (`:254`, `:400`).
- A document analysis of type `base-instructions` finds the text of the general rules,
  which has no place for a document: the answer does not hold it. `NothingLost` names
  this exception and the ones above.
- A template without a notice has nothing that `BelowNotice` could speak of. Several
  document analyses have none (the representatives' and committees', and
  `proposition-analysis`), while the change note at `seed.ts:1083` calls the minutes "the
  one document-analysis prompt over scraped text without it".
- `vault.service.ts:20-21` says that the probe at start "prevents silently falling back
  to env-var keys when Vault is unreachable"; the guards' own loading
  (`api-key.guard.ts:49-64`, `admin-key.guard.ts:31-45`) runs before it and swallows its
  failure, so a failure that has passed by the time of the probe falls back nonetheless.
- `docs/architecture.md:268` says that a node always gets the same variant; variants
  of equal percentage have no order, so `StickyUpToTies` is what holds.
- `getPromptTemplate` reads text and variables separately (`prompts.service.ts:832-836`):
  they can be of two editions, and on a variant the list is empty if the template was
  withdrawn in between.
- `getPromptHash` gives the row's digest, a variant's holder always sees another one.
- A rollback restores the text and not the variables.
- The request log names the endpoint and version, and not the template that a fallback
  or a variant of another template stood in for.
- A release from before a prompt's first revision keeps the version it finds
  (`seed.ts:3549`): if it seeds after the newer one, the old text goes out under the new
  version, whose entry is found and holds the new text, and nothing repairs that until a
  newer release seeds again. A replica that was not replaced and restarts does so, and so
  does an older build put back with `TAG=...`, which `README.md:238` gives as the way to
  roll back. `seed.ts:3386` has the way that works: a new release with the explicit version
  and the text. `ReleasesAgree` rules the former out, and no more than that.
- A prompt that a release drops without retiring stays in service as it is, unverifiable
  for good if the last seeding of it was interrupted (`Succession`).

## What is proved

The proofs are for any number of templates, texts, requests, nodes, experiments and
clients and for any bound. TLC has checked the inductive invariants first.

**TemplateStoreProofs.** `StoreInv` is inductive (`StoreInvariant`), from every state that
a seed can leave. The properties
alone are not: a rollback copies an entry it found earlier and an update writes one
above a version it read earlier. `TxGrounded` adds that a transaction's row exists, that
an entry about to be restored is in the history, and that up to the version it read the
history has the holes that it has up to the row's version now, whichever of the two is
higher. All commits have one form,
`Writes`: the lemma `WritesInv` is proved once and creation, update and rollback are shown
to be of that form. `TypeCorrect`, `Attestation` and `Hashing` follow, and `Density` from
the same invariant: what requests write can all be rolled back to. `Refinement` maps each
commit to `Publish`, each withdrawal to `Retire` or a stutter. `SerialVersions` proves
`VersionMonotone` if any two admin requests are the same one, and `TextsNamed` that a
version then names one text, of what admin operations write: the seed can change a text
under a kept version.

**TemplateSeedingProofs.** `SeedingHashed` and `NeverRevived` hold for any releases,
crashes, deployments and edits: a seed's entry takes text and digest of the row it has just
upserted, and no step of a script sets a row active but that which creates it.
`SeedingSettles` is `SettledAttested` from `ReleasesAgree`, `Succession` and
`~EditsSeeded`. By itself it is not inductive:
between upsert and entry a row is unattested, a crash or a deployment leaves it so, and
another replica may overwrite it. `SeedInv` says who will put it right: every template in
service is attested, or a replica owes it an entry or its retirement (`AttestedOrOwed`)
because it is down, still has it to do, or stands between upsert and entry with the row as
it upserted it. What a replaced container owed, its successor takes over, because it has
yet to run (`Succession`). An entry that is found in place of one that is inserted attests
as well: rows, history and scripts hold texts of releases at those releases' versions
(`RowsReleased`, `EntriesReleased`, `ScriptReleased`), of rows moreover a release whose
deployment has happened (`DeployedHeld`), so that a release without a version finds only
rows at the first version, or a release of the same version and text.

**PromptServingProofs.** `ServingInvariant`: on top of `StoreInv`, variants serve entries
of the history (`VariantsRecorded`), and what a request has settled on stands there
(`SettledRecorded`); entries are never removed, so an answer can be verified at any
later time (`AnswersVerified`). `RequestsSound` carries, through the stages of a
request, that withdrawn templates stay so and that a fallback was tried only after the
name was found withdrawn; `WithdrawnGone` and `FallbackNeeded` follow. `VariantFound`
proves that `BucketToVariant` always gives a variant of the experiment, by the least
index of those that the bucket is below, or the last. `DefaultServed` is
`DefaultAfterStop` for one admin request at a time: its invariant `StopsInv` says that an
activation under way is of a draft, so what is stopped stays so, and that a request has
settled only on an experiment that was active after it came in. The lemmas take the admin steps
from `TemplateStoreProofs` (`StoreGrows`). Since the parts touch no rows of each other's,
every behaviour of the whole is one of each part: `ServingIsStore` maps to `TemplateStore`
and `ServingIsExperiments` to `Experiments`. So what is proved of the parts holds of the
service with the seed at rest, with no second proof: the ledger (`ServingLedger`), one
text per version (`ServingVersions`), one active experiment per template (`ServingOneActive`).

**NodeRegistryProofs.** `RegistryInvariant` is about secrets, whatever overlaps or fails
and early actions included: a secret on its way into a row is nobody's yet
(`PendingFresh`), a secret that a request means to remove is in no row but its own
node's, and not when clean-up is due (`OldOwned`), no two rows share one
(`RowSecretsDistinct`). `SecretsLive` follows. `KeyInvariant` adds, without early
actions, that nobody else works on a node that is being registered
(`RegistrationAlone`), that requests are about nodes that were registered
(`RequestsBorn`) and that digests are fresh (`HashesFresh`); `KeysConsistent` and
`RetiredStaysDead` follow. `NodeEarlyRotation` shows that the assumption is needed.

**NodeStatusProofs.** With one admin request at a time, what a request has read still
holds when it writes (`SerialInvariant`); hence `SerialMarked`, `SerialRecertify` and,
without failures, `SerialVaultTight`: every secret is some row's or on its way in or out.

**NodeAuthProofs.** `AuthRefinement`. Steps of the registry are changes of credentials:
`RetiredKeyDead`, `HashesFresh` and that distinct nodes have distinct digests make the
new credentials sound, and `retired` only grows. `HmacRead` is `Begin`: the row is a
certified one, hence it is not being registered (`PendingUntilLinked`), has a secret
without failures (`Linked`), and by `KeysAgree` that secret verifies exactly the key whose
digest the row has, so that what the fetch will decide is what is true now. `HmacFetch`
answers this if the secret is still there. If it is gone, the refusal is right at the
time of the answer: the row of a node that still has this key would refer to a secret
that is not in the Vault, against `RowSecretLive`. `BothWaysStayOpen` needs that there are
no failures. Requests of nodes are no steps of the registry (`AuthIsRegistry`), so that
`AuthSerialRegistry` has its status and Vault properties here as well.

**ExperimentsProofs.** Whatever overlaps: `VariantsExist`, a node is given one of its
experiment's variants, and `NodesStick`, two answers to one node are of the same
percentage. The database may return two orders of one list of variants; both are sorted,
and sorted orders of one list agree in the percentage at every position, by counting the
places (the pigeonhole principle), so that the running totals agree too. With one
admin request at a time, what an activation's two queries found still holds when it
writes (`SerialInvariant`), hence `SerialOneActive` and `SerialLifecycle`. `SharesAreExact`
gives every variant as many of the 100 buckets as it has percents, in every order the
database may return. A running total is the number of pairs of a variant and one of its
points, and such a set has its size in any order; where totals go up to 100, the buckets
between two of them are those of one variant. What needs induction over a list is shown
by the least position at which it would fail.

**PromptCatalogProofs.** The five properties of `PromptCatalog` for any types of data and
documents, and bodies with any number of odd fields, where TLC has two. The seed and the
bodies are this release's. A prompt is a concatenation of as many sequences as its
template has placeholders and notices; `JoinsLaid` says what stands where in one, by
offsets, and the `Filled` lemmas what a prompt has of its variables: nothing but what
they have, each of them whole, and in the order of the template. A lemma per endpoint
(`RagServes`, `BillAnalysisServes`, ...) compares descriptor, body and template: the
variables built are those the template declares, none can fail for a body that the pipe
lets pass and that has no null among the entries of a list, or be missing but for a list
among them (`Proper`), each value is in one of them, and where there is a notice, no
variable above it has an untrusted value but those of `Exposed` (`Guarded`).
`ComposedAnswers` joins them; `NullFails` says that a null always fails. The inductive
`CatalogInv` says that an accepted request has passed the pipe and an answer is what was
composed of it, an error what could not be. `CatalogAssumption` states what provers do not know of
strings: a name that begins with `document-analysis-` or `structural-schema-` is a seeded
template's of that family or no template's.

Model-checked only: `SeedConverges`, since liveness under fairness is out of the prover's
reach. The five violations are shown by TLC. No module declares a RECURSIVE operator, so
none is closed to proofs.

## Not modelled

- Admin authentication and the loading of keys: a set of keys is filled at boot, from
  the environment and the Vault, and then only looked up. No later step reads or writes
  what it came from, so nothing can interleave with it. Keys are added by the seed and
  never overwritten (`seed.ts:3453`): one that is replaced in the environment is accepted
  besides the old one, and one that is removed from the Vault until every replica has
  been started again. Entries of the environment without a region are all called
  `unknown`; the Vault keeps the first of them.
- Rate limits: the code chooses a bucket, a library counts.
- Request log, metrics, gauges, health and the registry's dashboard: written or
  displayed, and read by no other part.
- The wording of prompts, of error bodies and of log lines.
- Validation of the administrators' requests, which a library does from decorators; the
  inputs that the modules enumerate keep the bounds it enforces (two variants or more,
  percentages from 0 to 100, versions from 1).
- TLS, migrations, the compose files beyond the order of start and restart.

## Plan

Done, in this order: `VersionLedger` and `TemplateStore`, the heart of the service, with
proofs and refinement; `TemplateSeeding`, which writes the same tables, with proofs;
`NodeRegistry` with proofs of keys and of statuses; `Experiments` with proofs;
`PromptServing`, which composes store and experiments, with proofs; `NodeCredentials` and
`NodeAuth` over the registry, with the refinement proved; `SeededPrompts`,
`PromptRequests` and `PromptCatalog`, with proofs.

Left, in the order of what it would add:

1. `NodeAuth` with two admin requests and with failures in TLC. The proofs cover both;
   the run would take longer than the others together.
2. The seed beside requests for prompts: `PromptServing` begins after it, so that its
   answers are about the moments between deployments.
3. A change to the code under which `OneActive`, `RecertifyOnly`, `KeysAgree` and
   `VersionMonotone` hold for overlapping requests as well (conditional updates, a unique
   index), as a module beside the present ones, before it is made.

When a template, a descriptor or a request body changes, its line in `SeededPrompts` or
`PromptRequests` changes with it, and the run `PromptCatalog` is the test; of the proofs,
the lemma of that endpoint changes.
