------------------------- MODULE PromptServingProofs -------------------------
(***************************************************************************)
(* PromptServing for every number of admin requests, of requests for       *)
(* prompts, of templates and of experiments: an answer can be verified, and *)
(* a withdrawn template is not served.                                     *)
(***************************************************************************)
EXTENDS PromptServing, TemplateStoreProofs, FiniteSetTheorems,
        WellFoundedInduction

USE StoreAssumption, ServingAssumption

\* Any set of indices that is not empty has a least one.
LEMMA LeastIndex ==
    ASSUME NEW S \in SUBSET Nat, S # {}
    PROVE  \E i \in S : \A j \in S : i <= j
  <1> DEFINE R == OpToRel(<, Nat)
  <1>1. PICK i \in S : \A j \in S : << j, i >> \notin R
    <2>1. IsWellFoundedOn(R, Nat)
      BY NatLessThanWellFounded
    <2> HIDE DEF R
    <2> QED
      BY <2>1, WFMin
  <1>2. \A j \in S : ~(j < i)
    BY <1>1 DEF OpToRel
  <1> QED
    BY <1>2

\* The first n numbers are n.
LEMMA IntervalSize ==
    ASSUME NEW n \in Nat
    PROVE  Cardinality(1 .. n) = n
  BY FS_Interval

\* bucketToVariant always gives one of the variants, whatever the bucket is and
\* in whichever order equal percentages come.
LEMMA VariantFound ==
    ASSUME NEW split \in Splits, NEW order \in E!Orders(split), NEW bucket
    PROVE  E!BucketToVariant(split, order, bucket) \in DOMAIN split
  <1> DEFINE weights == E!Weights(split, order)
             reached == {i \in DOMAIN weights : bucket < E!RunningTotals(weights)[i]}
  <1>1. split \in Seq(0 .. 100) /\ Len(split) >= 2
    OBVIOUS
  <1>2. DOMAIN split = 1 .. Len(split) /\ Len(split) \in Nat
    BY <1>1
  <1>3. E!Cardinality(DOMAIN split) = Len(split)
    <2>1. Cardinality(DOMAIN split) = Len(split)
      BY <1>2, IntervalSize
    <2>2. E!Cardinality(DOMAIN split) = Cardinality(DOMAIN split)
      BY DEF E!Cardinality, Cardinality
    <2> QED
      BY <2>1, <2>2
  <1>4. order \in [1 .. Len(split) -> DOMAIN split]
    BY <1>3 DEF E!Orders, E!SetToSeqs
  <1>5. DOMAIN weights = 1 .. Len(split) /\ Len(weights) = Len(split)
    BY <1>2, <1>4 DEF E!Weights
  <1>6. reached \subseteq 1 .. Len(split) /\ reached \in SUBSET Nat
    BY <1>2, <1>5
  <1> HIDE DEF reached
  <1>7. E!Position(weights, bucket) \in 1 .. Len(split)
    <2>1. CASE reached = {}
      BY <2>1, <1>1, <1>2, <1>5 DEF E!Position, reached
    <2>2. CASE reached # {}
      <3>1. (CHOOSE i \in reached : \A j \in reached : i <= j) \in reached
        BY <1>6, <2>2, LeastIndex
      <3> QED
        BY <2>2, <3>1, <1>6 DEF E!Position, reached
    <2> QED
      BY <2>1, <2>2
  <1> QED
    BY <1>4, <1>7 DEF E!BucketToVariant

\* What an admin request does to the store: entries and withdrawals are for
\* ever, and no template disappears.
LEMMA StoreGrows ==
    ASSUME StoreInv, NEW a \in Admins, AdminStep(a)
    PROVE  /\ StoreInv'
           /\ history \subseteq history'
           /\ retired \subseteq retired'
           /\ \A t \in Templates : Exists(t) => Exists(t)'
  <1>1. StoreNext
    BY DEF StoreNext
  <1>2. StoreInv'
    BY <1>1, StepInv
  <1>3. history \subseteq history'
    BY DEF AdminStep, CreateTemplate, UpdateRead, RollbackRead, DeleteRead,
           UpdateCommit, RollbackFind, RollbackCommit, DeleteCommit, Abort
  <1>4. [Ledger!LedgerNext]_(Ledger!ledgerVars)
    BY <1>1, LedgerStep
  <1>5. retired \subseteq retired'
    BY <1>4 DEF Ledger!LedgerNext, Ledger!Publish, Ledger!Retire, Ledger!ledgerVars
  <1>6. \A t \in Templates : /\ Exists(t) <=> current[t] # NoRow
                             /\ Exists(t)' <=> current'[t] # NoRow
    BY <1>2 DEF StoreInv, TypeOK, current, Edition, Exists, Row, Versions
  <1>7. \A t \in Templates : current[t] # NoRow => current'[t] # NoRow
    <2>1. NoRow \notin Ledger!Edition
      <3>1. Ledger!Edition \subseteq [version: Nat, hash: Hashes]
        BY DEF Ledger!Edition
      <3> QED
        BY <3>1
    <2>2. DOMAIN current = Templates
      BY DEF current
    <2> HIDE DEF current
    <2> QED
      BY <1>4, <2>1, <2>2 DEF Ledger!LedgerNext, Ledger!Publish, Ledger!Retire,
                              Ledger!ledgerVars
  <1> QED
    BY <1>2, <1>3, <1>5, <1>6, <1>7

\* What the invariant says of one request for a prompt.
RequestOK(r) ==
    /\ r \in Asking \cup {NotAsking}
    /\ r # NotAsking =>
        LET name == r.endpoint.name
            start == r.start
        IN  /\ r.resolved # None =>
                   VerifyPrompt(Hash[r.resolved.text], r.resolved.version)
            /\ start.withdrawn \subseteq retired
            /\ start.active => Exists(name)
            /\ r.at = "experiment" => name \notin start.withdrawn
            /\ r.at = "fallback" =>
                   /\ r.endpoint.fallback # None
                   /\ start.active => name \in retired
            /\ r.auxiliary \notin start.withdrawn
            /\ r.at \in {"auxiliary", "auxFallback", "variables", "log",
                         "answered"} => r.resolved # None
            /\ r.resolved # None =>
                   /\ r.resolved.template \notin start.withdrawn
                   /\ start.active /\ r.resolved.template # name =>
                          name \in retired

AllRequestsOK ==
    /\ DOMAIN fetch = Clients
    /\ fetch = [c \in Clients |-> fetch[c]]
    /\ \A c \in Clients : RequestOK(fetch[c])

\* The three parts of the invariant that are about requests, one by one.
LEMMA RequestParts ==
    AllRequestsOK <=> FetchOK /\ SettledRecorded /\ RequestsSound
  BY DEF AllRequestsOK, RequestOK, FetchOK, SettledRecorded, RequestsSound, Settled

\* A request stays in order while entries, withdrawals and rows only grow.
LEMMA RequestKeeps ==
    ASSUME NEW r, RequestOK(r), history \subseteq history', retired \subseteq retired',
           \A t \in Templates : Exists(t) => Exists(t)'
    PROVE  RequestOK(r)'
  <1>1. r # NotAsking => r.endpoint.name \in Templates
    BY DEF RequestOK, Asking, Endpoint
  <1>2. \A hash, version : VerifyPrompt(hash, version) => VerifyPrompt(hash, version)'
    BY DEF VerifyPrompt
  <1> HIDE DEF retired, Exists, VerifyPrompt
  <1> QED
    BY <1>1, <1>2 DEF RequestOK

\* Admin requests about templates.
LEMMA StoreKeeps ==
    ASSUME ServingInv, NEW a \in Admins, StoreStep(a)
    PROVE  ServingInv'
  <1>1. /\ AdminStep(a)
        /\ UNCHANGED << experiment, call, serves, fetch >>
        /\ StoreInv
    BY DEF StoreStep, ServingInv
  <1>2. /\ StoreInv'
        /\ history \subseteq history'
        /\ retired \subseteq retired'
        /\ \A t \in Templates : Exists(t) => Exists(t)'
    BY <1>1, StoreGrows
  <1>3. E!TablesOK' /\ CallsGrounded' /\ serves' \in [Names -> Seq(HistoryEntry)]
    BY <1>1 DEF ServingInv, E!TablesOK, CallsGrounded
  <1>4. VariantsRecorded'
    BY <1>1, <1>2 DEF ServingInv, VariantsRecorded
  <1>5. AllRequestsOK'
    <2>1. AllRequestsOK
      BY RequestParts DEF ServingInv
    <2>2. \A c \in Clients : RequestOK(fetch[c])'
      <3> SUFFICES ASSUME NEW c \in Clients PROVE RequestOK(fetch[c])'
        OBVIOUS
      <3>1. RequestOK(fetch[c]) /\ fetch'[c] = fetch[c]
        BY <2>1, <1>1 DEF AllRequestsOK
      <3> QED
        BY <3>1, <1>2, RequestKeeps DEF RequestOK
    <2> QED
      BY <2>1, <2>2, <1>1 DEF AllRequestsOK
  <1>6. (FetchOK /\ SettledRecorded /\ RequestsSound)'
    BY <1>5, RequestParts, PTL
  <1> QED
    BY <1>2, <1>3, <1>4, <1>6 DEF ServingInv

\* What the invariant says of experiments and the entries that they serve.
ExperimentsOK ==
    /\ E!TablesOK
    /\ CallsGrounded
    /\ serves \in [Names -> Seq(HistoryEntry)]
    /\ VariantsRecorded

\* A new experiment serves entries of the history.
LEMMA CreateOK ==
    ASSUME ExperimentsOK, history \subseteq HistoryEntry, NEW a \in Admins,
           NEW e \in Names, NEW t \in Templates, NEW split \in Splits,
           CreateExperiment(a, e, t, split)
    PROVE  ExperimentsOK'
  <1> DEFINE row == [template |-> t, status |-> "draft", split |-> split]
  <1>1. row \in E!Row /\ row.split = split
    BY DEF CreateExperiment, E!CreateExperiment, E!Row
  <1>2. experiment' = [experiment EXCEPT ![e] = row] /\ call' = call /\ ~E!Exists(e)
    BY DEF CreateExperiment, E!CreateExperiment
  <1>3. history' = history
    BY DEF CreateExperiment
  <1>4. PICK entries \in [DOMAIN split -> history] :
            serves' = [serves EXCEPT ![e] = entries]
    BY DEF CreateExperiment, Servable
  <1> HIDE DEF row
  <1>5. entries \in Seq(HistoryEntry)
    <2>1. split \in Seq(0 .. 100)
      OBVIOUS
    <2>2. DOMAIN split = 1 .. Len(split) /\ Len(split) \in Nat
      BY <2>1
    <2> QED
      BY <2>2, <1>4
  <1>6. row # None
    BY <1>1
  <1>7. /\ experiment'[e] = row /\ serves'[e] = entries
        /\ \A d \in Names : d # e => experiment'[d] = experiment[d] /\ serves'[d] = serves[d]
    BY <1>2, <1>4 DEF ExperimentsOK, E!TablesOK
  <1>8. E!TablesOK' /\ CallsGrounded'
    BY <1>1, <1>2, <1>6, <1>7 DEF ExperimentsOK, E!TablesOK, CallsGrounded,
                                  E!Activating, E!Idle, Idle
  <1>9. serves' \in [Names -> Seq(HistoryEntry)]
    BY <1>4, <1>5 DEF ExperimentsOK
  <1>10. VariantsRecorded'
    <2> SUFFICES ASSUME NEW d \in Names, experiment'[d] # None
                 PROVE  /\ DOMAIN serves'[d] = DOMAIN experiment'[d].split
                        /\ \A i \in DOMAIN serves'[d] : serves'[d][i] \in history'
      BY DEF VariantsRecorded
    <2>1. CASE d = e
      BY <2>1, <1>1, <1>3, <1>4, <1>7
    <2>2. CASE d # e
      BY <2>2, <1>3, <1>7 DEF ExperimentsOK, VariantsRecorded
    <2> QED
      BY <2>1, <2>2
  <1> QED
    BY <1>8, <1>9, <1>10 DEF ExperimentsOK

\* A change of status leaves variants and what they serve alone.
LEMMA StatusOK ==
    ASSUME ExperimentsOK, NEW e \in Names, NEW status \in {"active", "stopped"},
           experiment[e] # None, UNCHANGED << serves, history >>,
           experiment' = [experiment EXCEPT ![e].status = status],
           call' \in [Admins -> E!Activating \cup {E!Idle}],
           \A a \in Admins : call'[a] # Idle => call'[a] = call[a]
    PROVE  ExperimentsOK'
  <1>1. experiment[e] \in E!Row
    BY DEF ExperimentsOK, E!TablesOK
  <1>2. /\ experiment'[e] = [experiment[e] EXCEPT !.status = status]
        /\ \A d \in Names : d # e => experiment'[d] = experiment[d]
    BY DEF ExperimentsOK, E!TablesOK
  <1>3. experiment'[e] \in E!Row /\ experiment'[e].split = experiment[e].split
    BY <1>1, <1>2 DEF E!Row
  <1>4. experiment'[e] # None
    BY <1>3
  <1>5. E!TablesOK'
    BY <1>2, <1>3 DEF ExperimentsOK, E!TablesOK
  <1>6. CallsGrounded'
    BY <1>2, <1>4 DEF ExperimentsOK, E!TablesOK, CallsGrounded, E!Activating, E!Idle, Idle
  <1>7. VariantsRecorded'
    <2> SUFFICES ASSUME NEW d \in Names, experiment'[d] # None
                 PROVE  /\ DOMAIN serves'[d] = DOMAIN experiment'[d].split
                        /\ \A i \in DOMAIN serves'[d] : serves'[d][i] \in history'
      BY DEF VariantsRecorded
    <2>1. experiment[d] # None /\ experiment'[d].split = experiment[d].split
      BY <1>2, <1>3
    <2> QED
      BY <2>1 DEF ExperimentsOK, VariantsRecorded
  <1> QED
    BY <1>5, <1>6, <1>7 DEF ExperimentsOK

\* A query changes only how far an activation has come.
LEMMA QueryOK ==
    ASSUME ExperimentsOK, UNCHANGED << experiment, serves, history >>,
           call' \in [Admins -> E!Activating \cup {E!Idle}],
           \A a \in Admins : call'[a] # Idle =>
               experiment[call'[a].experiment] # None
    PROVE  ExperimentsOK'
  BY DEF ExperimentsOK, E!TablesOK, CallsGrounded, VariantsRecorded

\* Admin requests about experiments.
LEMMA ExperimentKeeps ==
    ASSUME ServingInv, NEW a \in Admins, ExperimentStep(a)
    PROVE  ServingInv'
  <1>1. UNCHANGED << template, history, tx, fetch >>
    BY DEF ExperimentStep, CreateExperiment
  <1>2. ExperimentsOK /\ history \subseteq HistoryEntry
    BY DEF ServingInv, StoreInv, TypeOK, ExperimentsOK
  <1>3. /\ call \in [Admins -> E!Activating \cup {E!Idle}]
        /\ call[a] # Idle => /\ call[a] \in E!Activating
                             /\ call[a].experiment \in Names
                             /\ experiment[call[a].experiment] # None
    BY <1>2 DEF ExperimentsOK, E!TablesOK, CallsGrounded, E!Activating, E!Idle, Idle
  <1>4. \A b \in Admins : call[b] # Idle => experiment[call[b].experiment] # None
    BY <1>2 DEF ExperimentsOK, CallsGrounded
  <1>5. ExperimentsOK'
    <2>1. ASSUME NEW e \in Names, NEW t \in Templates, NEW split \in Splits,
                 CreateExperiment(a, e, t, split)
          PROVE  ExperimentsOK'
      BY <2>1, <1>2, CreateOK
    <2>2. ASSUME NEW e \in Names, E!ActivateRead(a, e), UNCHANGED serves
          PROVE  ExperimentsOK'
      <3> DEFINE step == [op |-> "check", experiment |-> e]
      <3>1. step \in E!Activating /\ step.experiment = e
        BY DEF E!Activating
      <3>2. call' = [call EXCEPT ![a] = step] /\ UNCHANGED experiment
            /\ experiment[e] # None
        BY <2>2 DEF E!ActivateRead, E!Exists
      <3> HIDE DEF step
      <3> QED
        BY <3>1, <3>2, <2>2, <1>1, <1>2, <1>3, <1>4, QueryOK
    <2>3. ASSUME NEW e \in Names, E!StopExperiment(a, e), UNCHANGED serves
          PROVE  ExperimentsOK'
      <3>1. /\ experiment' = [experiment EXCEPT ![e].status = "stopped"]
            /\ call' = call /\ experiment[e] # None
        BY <2>3 DEF E!StopExperiment, E!Exists
      <3> QED
        BY <3>1, <2>3, <1>1, <1>2, <1>3, StatusOK
    <2>4. ASSUME E!ActivateCheck(a), UNCHANGED serves
          PROVE  ExperimentsOK'
      <3> DEFINE step == [op |-> "commit", experiment |-> call[a].experiment]
      <3>1. call[a] # Idle
        BY <2>4 DEF E!ActivateCheck, Idle
      <3>2. step \in E!Activating /\ step.experiment = call[a].experiment
        BY <3>1, <1>3 DEF E!Activating
      <3>3. /\ \/ call' = [call EXCEPT ![a] = step]
               \/ call' = [call EXCEPT ![a] = E!Idle]
            /\ UNCHANGED experiment
        BY <2>4 DEF E!ActivateCheck
      <3>4. E!Idle = Idle
        BY DEF E!Idle, Idle
      <3> HIDE DEF step
      <3> QED
        BY <3>1, <3>2, <3>3, <3>4, <2>4, <1>1, <1>2, <1>3, <1>4, QueryOK
    <2>5. ASSUME E!ActivateCommit(a), UNCHANGED serves
          PROVE  ExperimentsOK'
      <3> DEFINE e == call[a].experiment
      <3>1. call[a] # Idle
        BY <2>5 DEF E!ActivateCommit, Idle
      <3>2. /\ experiment' = [experiment EXCEPT ![e].status = "active"]
            /\ call' = [call EXCEPT ![a] = Idle]
        BY <2>5 DEF E!ActivateCommit, E!Idle, Idle
      <3>3. e \in Names /\ experiment[e] # None
        BY <3>1, <1>3
      <3>4. Idle = E!Idle
        BY DEF E!Idle, Idle
      <3> HIDE DEF e
      <3>5. /\ call' \in [Admins -> E!Activating \cup {E!Idle}]
            /\ \A b \in Admins : call'[b] # Idle => call'[b] = call[b]
        BY <3>2, <3>4, <1>3
      <3> QED
        BY <3>2, <3>3, <3>5, <2>5, <1>1, <1>2, StatusOK
    <2>6. ASSUME E!Abort(a), UNCHANGED serves
          PROVE  ExperimentsOK'
      <3>1. call' = [call EXCEPT ![a] = Idle] /\ UNCHANGED experiment
        BY <2>6 DEF E!Abort, E!Idle, Idle
      <3>2. Idle = E!Idle
        BY DEF E!Idle, Idle
      <3> QED
        BY <3>1, <3>2, <2>6, <1>1, <1>2, <1>3, <1>4, QueryOK
    <2> QED
      BY <2>1, <2>2, <2>3, <2>4, <2>5, <2>6 DEF ExperimentStep
  <1>6. StoreInv' /\ (FetchOK /\ SettledRecorded /\ RequestsSound)'
    <2>1. StoreInv /\ UNCHANGED storeVars
      BY <1>1 DEF ServingInv, storeVars
    <2>2. StoreInv'
      BY <2>1, StepInv
    <2>3. FetchOK /\ SettledRecorded /\ RequestsSound
      BY DEF ServingInv
    <2> QED
      BY <2>2, <2>3, <1>1 DEF FetchOK, SettledRecorded, RequestsSound, Settled,
                              VerifyPrompt, Exists, retired
  <1> QED
    BY <1>5, <1>6 DEF ServingInv, ExperimentsOK

\* A step of a request that leaves it in order keeps the invariant.
LEMMA ClientOK ==
    ASSUME ServingInv, NEW c \in Clients, UnchangedStore, NEW step,
           RequestOK(step), Proceed(c, step)
    PROVE  ServingInv'
  <1>1. AllRequestsOK
    BY RequestParts DEF ServingInv
  <1>2. UNCHANGED << template, history, retired >>
    BY DEF UnchangedStore, retired, Exists
  <1>3. \A r : RequestOK(r) => RequestOK(r)'
    BY <1>2 DEF UnchangedStore, RequestOK, VerifyPrompt, Exists
  <1>4. \A d \in Clients : fetch'[d] = IF d = c THEN step ELSE fetch[d]
    BY <1>1 DEF AllRequestsOK, Proceed
  <1>5. \A d \in Clients : RequestOK(fetch'[d])
    BY <1>1, <1>4 DEF AllRequestsOK
  <1>6. DOMAIN fetch' = Clients /\ fetch' = [d \in Clients |-> fetch'[d]]
    BY <1>1 DEF AllRequestsOK, Proceed
  <1>7. AllRequestsOK'
    <2>1. \A d \in Clients : RequestOK(fetch[d])'
      BY <1>2, <1>5 DEF RequestOK, VerifyPrompt, Exists, UnchangedStore
    <2> QED
      BY <2>1, <1>6 DEF AllRequestsOK
  <1>8. (FetchOK /\ SettledRecorded /\ RequestsSound)'
    BY <1>7, RequestParts, PTL
  <1>9. StoreInv'
    BY StepInv DEF ServingInv, UnchangedStore, storeVars
  <1>10. (E!TablesOK /\ CallsGrounded /\ VariantsRecorded)'
         /\ serves' \in [Names -> Seq(HistoryEntry)]
    BY DEF ServingInv, UnchangedStore, E!TablesOK, CallsGrounded, VariantsRecorded
  <1> QED
    BY <1>8, <1>9, <1>10 DEF ServingInv

\* A request that settles on a text that the history attests, under a name that
\* was not withdrawn, and on another name than was asked for only if need be.
LEMMA SettleOK ==
    ASSUME ServingInv, NEW c \in Clients, UnchangedStore,
           fetch[c] # NotAsking,
           NEW resolved \in Resolved,
           VerifyPrompt(Hash[resolved.text], resolved.version),
           resolved.template \notin fetch[c].start.withdrawn,
           fetch[c].start.active /\ resolved.template # fetch[c].endpoint.name
               => fetch[c].endpoint.name \in retired,
           Settle(c, resolved)
    PROVE  ServingInv'
  <1>1. RequestOK(fetch[c]) /\ fetch[c] \in Asking
    BY RequestParts DEF ServingInv, AllRequestsOK, RequestOK
  <1>2. PICK at \in {"variables", "auxiliary", "log"} :
            Proceed(c, [fetch[c] EXCEPT !.resolved = resolved, !.at = at])
    BY DEF Settle
  <1> DEFINE step == [fetch[c] EXCEPT !.resolved = resolved, !.at = at]
  <1>3. step \in Asking
    BY <1>1 DEF Asking, Stages
  <1>4. /\ step.resolved = resolved /\ step.at = at
        /\ step.endpoint = fetch[c].endpoint /\ step.start = fetch[c].start
        /\ step.auxiliary = fetch[c].auxiliary
    BY <1>1 DEF Asking
  <1>5. resolved # None
    OBVIOUS
  <1> HIDE DEF step
  <1>6. RequestOK(step)
    BY <1>1, <1>3, <1>4, <1>5 DEF RequestOK
  <1> QED
    BY <1>2, <1>6, ClientOK DEF step

\* The row of an active template.
LEMMA CanonicalOK ==
    ASSUME ServingInv, NEW t \in Templates, Active(t)
    PROVE  /\ Canonical(t) \in Resolved
           /\ Canonical(t).template = t
           /\ VerifyPrompt(Hash[Canonical(t).text], Canonical(t).version)
           /\ t \notin retired
  <1>1. template[t] \in Row /\ Exists(t)
    BY DEF ServingInv, StoreInv, TypeOK, Active, Exists
  <1>2. /\ Canonical(t).text = template[t].text
        /\ Canonical(t).version = template[t].version
        /\ Canonical(t).template = t
    BY DEF Canonical
  <1>3. Canonical(t) \in Resolved
    BY <1>1 DEF Canonical, Resolved, Row
  <1>4. VerifyPrompt(Hash[Canonical(t).text], Canonical(t).version)
    BY <1>1, <1>2 DEF ServingInv, StoreInv, RowAttested, VerifyPrompt, Attests
  <1> QED
    BY <1>2, <1>3, <1>4 DEF Active, retired

\* A template that is not active has been withdrawn, if it was ever there.
LEMMA InactiveRetired ==
    ASSUME ServingInv, NEW t \in Templates, ~Active(t), Exists(t)
    PROVE  t \in retired
  BY DEF Active, retired

\* Each step of a request for a prompt keeps the invariant.
LEMMA ClientKeeps ==
    ASSUME ServingInv, NEW c \in Clients, ClientStep(c)
    PROVE  ServingInv'
  <1>1. RequestOK(fetch[c])
    BY RequestParts DEF ServingInv, AllRequestsOK
  <1>2. RequestOK(NotAsking)
    BY DEF RequestOK
  <1>3. fetch[c] # NotAsking =>
            /\ fetch[c] \in Asking
            /\ fetch[c].endpoint \in Endpoint
            /\ fetch[c].endpoint.name \in Templates
    BY <1>1 DEF RequestOK, Asking, Endpoint
  <1>4. fetch[c].at \notin {"idle"} => fetch[c] # NotAsking
    BY DEF NotAsking
  <1>5. retired \subseteq Templates
    BY DEF retired
  <1>6. ASSUME NEW endpoint \in Endpoints, NEW key \in ApiKeys,
               Ask(c, endpoint, key)
        PROVE  ServingInv'
    <2> DEFINE start == SnapshotFor(endpoint)
               step == [at |-> "lookup", endpoint |-> endpoint, key |-> key,
                        start |-> start, resolved |-> None,
                        auxiliary |-> None, variables |-> Keep]
    <2>1. /\ start.withdrawn \subseteq retired
          /\ start.active => Exists(endpoint.name)
          /\ start \in Snapshot
      <3>1. start.withdrawn = Mentioned(endpoint) \cap retired
        BY DEF SnapshotFor
      <3>2. start.active <=> Exists(endpoint.name) /\ endpoint.name \notin retired
        BY DEF SnapshotFor
      <3>3. start \in Snapshot
        BY <1>5 DEF SnapshotFor, Snapshot, Exists
      <3> QED
        BY <3>1, <3>2, <3>3
    <2> HIDE DEF start
    <2>2. step \in Asking
      BY <2>1 DEF Asking, Stages
    <2>3. None \notin start.withdrawn
      BY <2>1, <1>5
    <2>4. RequestOK(step)
      BY <2>1, <2>2, <2>3 DEF RequestOK
    <2>5. Proceed(c, step) /\ UnchangedStore
      BY <1>6 DEF Ask, start
    <2> QED
      BY <2>4, <2>5, ClientOK
  <1>7. ASSUME NEW at \in {"experiment", "canonical", "fallback", "auxFallback",
                           "answered"},
               fetch[c] # NotAsking, UnchangedStore,
               Proceed(c, [fetch[c] EXCEPT !.at = at]),
               at = "experiment" => fetch[c].endpoint.name \notin retired,
               at = "fallback" => /\ fetch[c].endpoint.fallback # None
                                  /\ ~Active(fetch[c].endpoint.name),
               at \in {"auxFallback", "answered"} => fetch[c].resolved # None
        PROVE  ServingInv'
    <2> DEFINE step == [fetch[c] EXCEPT !.at = at]
    <2>1. step \in Asking
      BY <1>3, <1>7 DEF Asking, Stages
    <2>2. /\ step.at = at /\ step.resolved = fetch[c].resolved
          /\ step.endpoint = fetch[c].endpoint /\ step.start = fetch[c].start
          /\ step.auxiliary = fetch[c].auxiliary
      BY <1>3, <1>7 DEF Asking
    <2>3. at = "fallback" /\ fetch[c].start.active
              => fetch[c].endpoint.name \in retired
      BY <1>1, <1>3, <1>7, InactiveRetired DEF RequestOK
    <2> HIDE DEF step
    <2>4. RequestOK(step)
      BY <1>1, <1>7, <2>1, <2>2, <2>3 DEF RequestOK
    <2> QED
      BY <1>7, <2>4, ClientOK DEF step
  <1>8. ASSUME Lookup(c)
        PROVE  ServingInv'
    <2>1. Active(fetch[c].endpoint.name) => fetch[c].endpoint.name \notin retired
      BY DEF Active, retired
    <2> QED
      BY <1>4, <1>7, <1>8, <2>1 DEF Lookup
  <1>9. ASSUME NEW t \in Templates, Active(t), UnchangedStore,
               fetch[c] # NotAsking,
               t # fetch[c].endpoint.name /\ fetch[c].start.active
                   => fetch[c].endpoint.name \in retired,
               Settle(c, Canonical(t))
        PROVE  ServingInv'
    <2>1. /\ Canonical(t) \in Resolved
          /\ Canonical(t).template = t
          /\ VerifyPrompt(Hash[Canonical(t).text], Canonical(t).version)
          /\ t \notin fetch[c].start.withdrawn
      BY <1>1, <1>9, CanonicalOK DEF RequestOK
    <2> QED
      BY <1>9, <2>1, SettleOK
  <1>10. ASSUME FindExperiment(c)
         PROVE  ServingInv'
    <2> DEFINE t == fetch[c].endpoint.name
    <2>1. fetch[c] # NotAsking /\ t \notin fetch[c].start.withdrawn /\ UnchangedStore
      BY <1>1, <1>4, <1>10 DEF FindExperiment, RequestOK
    <2>2. CASE Proceed(c, [fetch[c] EXCEPT !.at = "canonical"])
      BY <1>7, <2>1, <2>2
    <2>3. ASSUME NEW e \in Running(t),
                 NEW order \in E!Orders(experiment[e].split), NEW bucket,
                 Settle(c, Variant(t, e, E!BucketToVariant(experiment[e].split,
                                                           order, bucket)))
          PROVE  ServingInv'
      <3> DEFINE i == E!BucketToVariant(experiment[e].split, order, bucket)
      <3>1. e \in Names /\ experiment[e] \in E!Row /\ experiment[e] # None
        BY DEF Running, E!ActiveOn, E!Exists, ServingInv, E!TablesOK
      <3>2. experiment[e].split \in Splits
        BY <3>1 DEF E!Row
      <3>3. i \in DOMAIN experiment[e].split
        BY <3>2, VariantFound
      <3> HIDE DEF i
      <3>4. serves[e][i] \in history
        BY <3>1, <3>3 DEF ServingInv, VariantsRecorded
      <3>5. /\ serves[e][i] \in HistoryEntry
            /\ serves[e][i].hash = Hash[serves[e][i].text]
        BY <3>4 DEF ServingInv, StoreInv, TypeOK, HistoryHashed
      <3>6. /\ Variant(t, e, i).template = t
            /\ Variant(t, e, i).version = serves[e][i].version
            /\ Variant(t, e, i).text = serves[e][i].text
        BY DEF Variant
      <3>7. Variant(t, e, i) \in Resolved
        BY <1>3, <2>1, <3>1, <3>5 DEF Variant, Resolved, HistoryEntry
      <3>8. VerifyPrompt(Hash[Variant(t, e, i).text], Variant(t, e, i).version)
        BY <3>4, <3>5, <3>6 DEF VerifyPrompt
      <3>9. Settle(c, Variant(t, e, i))
        BY <2>3 DEF i
      <3> QED
        BY <2>1, <3>6, <3>7, <3>8, <3>9, SettleOK
    <2> QED
      BY <1>10, <2>2, <2>3 DEF FindExperiment
  <1>11. ASSUME FindCanonical(c)
         PROVE  ServingInv'
    <2>1. fetch[c] # NotAsking /\ UnchangedStore
      BY <1>4, <1>11 DEF FindCanonical
    <2>2. \/ /\ Active(fetch[c].endpoint.name)
             /\ Settle(c, Canonical(fetch[c].endpoint.name))
          \/ /\ ~Active(fetch[c].endpoint.name)
             /\ fetch[c].endpoint.fallback # None
             /\ Proceed(c, [fetch[c] EXCEPT !.at = "fallback"])
          \/ Proceed(c, NotAsking)
      BY <1>11 DEF FindCanonical, NotFound
    <2> QED
      BY <1>2, <1>3, <1>7, <1>9, <2>1, <2>2, ClientOK
  <1>12. ASSUME FindFallback(c)
         PROVE  ServingInv'
    <2> DEFINE t == fetch[c].endpoint.fallback
    <2>1. fetch[c] # NotAsking /\ UnchangedStore
      BY <1>4, <1>12 DEF FindFallback
    <2>2. t \in Templates
      BY <1>1, <1>3, <1>12, <2>1 DEF FindFallback, RequestOK, Endpoint
    <2>3. fetch[c].start.active => fetch[c].endpoint.name \in retired
      BY <1>1, <1>12, <2>1 DEF FindFallback, RequestOK
    <2>4. \/ Active(t) /\ Settle(c, Canonical(t))
          \/ Proceed(c, NotAsking)
      BY <1>12 DEF FindFallback, NotFound
    <2> QED
      BY <1>2, <1>9, <2>1, <2>2, <2>3, <2>4, ClientOK
  <1>13. ASSUME NEW t \in Templates \cup {None}, Active(t), UnchangedStore,
                fetch[c] # NotAsking, fetch[c].resolved # None,
                Proceed(c, [fetch[c] EXCEPT !.auxiliary = t, !.at = "log"])
         PROVE  ServingInv'
    <2> DEFINE step == [fetch[c] EXCEPT !.auxiliary = t, !.at = "log"]
    <2>1. step \in Asking
      BY <1>3, <1>13 DEF Asking, Stages
    <2>2. /\ step.at = "log" /\ step.resolved = fetch[c].resolved
          /\ step.endpoint = fetch[c].endpoint /\ step.start = fetch[c].start
          /\ step.auxiliary = t
      BY <1>3, <1>13 DEF Asking
    <2>3. t \notin fetch[c].start.withdrawn
      <3>1. t \notin retired
        BY <1>13 DEF Active, retired
      <3> QED
        BY <3>1, <1>1, <1>13 DEF RequestOK
    <2> HIDE DEF step
    <2>4. RequestOK(step)
      BY <1>1, <1>13, <2>1, <2>2, <2>3 DEF RequestOK
    <2> QED
      BY <1>13, <2>4, ClientOK DEF step
  <1>14. fetch[c].at \in {"auxiliary", "auxFallback", "variables", "log"}
             => fetch[c] # NotAsking /\ fetch[c].resolved # None
    BY <1>1, <1>4 DEF RequestOK
  <1>15. ASSUME FindAuxiliary(c) \/ FindAuxFallback(c)
         PROVE  ServingInv'
    <2>1. UnchangedStore /\ fetch[c] # NotAsking /\ fetch[c].resolved # None
      BY <1>14, <1>15 DEF FindAuxiliary, FindAuxFallback
    <2>2. \/ Proceed(c, NotAsking)
          \/ Proceed(c, [fetch[c] EXCEPT !.at = "auxFallback"])
          \/ \E t \in {fetch[c].endpoint.auxiliary, fetch[c].endpoint.auxFallback} :
                /\ Active(t)
                /\ Proceed(c, [fetch[c] EXCEPT !.auxiliary = t, !.at = "log"])
      BY <1>15 DEF FindAuxiliary, FindAuxFallback, NotFound
    <2>3. {fetch[c].endpoint.auxiliary, fetch[c].endpoint.auxFallback}
              \subseteq Templates \cup {None}
      BY <1>3, <2>1 DEF Endpoint
    <2> QED
      BY <1>2, <1>7, <1>13, <2>1, <2>2, <2>3, ClientOK
  <1>16. ASSUME ReadVariables(c)
         PROVE  ServingInv'
    <2>1. UnchangedStore /\ fetch[c] # NotAsking /\ fetch[c].resolved # None
      BY <1>14, <1>16 DEF ReadVariables
    <2>2. PICK variables \in VarLists \cup {Keep} :
              Proceed(c, [fetch[c] EXCEPT !.variables = variables, !.at = "log"])
      <3>1. fetch[c].resolved \in Resolved
        BY <1>3, <2>1 DEF Asking
      <3>2. fetch[c].resolved.variables \in VarLists \cup {Keep}
        BY <3>1 DEF Resolved
      <3>3. Active(fetch[c].endpoint.name) =>
                template[fetch[c].endpoint.name].variables \in VarLists
        BY <1>3, <2>1 DEF ServingInv, StoreInv, TypeOK, Active, Exists, Row
      <3> QED
        BY <1>16, <3>2, <3>3 DEF ReadVariables
    <2> DEFINE step == [fetch[c] EXCEPT !.variables = variables, !.at = "log"]
    <2>3. step \in Asking
      BY <1>3, <2>1 DEF Asking, Stages
    <2>4. /\ step.at = "log" /\ step.resolved = fetch[c].resolved
          /\ step.endpoint = fetch[c].endpoint /\ step.start = fetch[c].start
          /\ step.auxiliary = fetch[c].auxiliary
      BY <1>3, <2>1 DEF Asking
    <2> HIDE DEF step
    <2>5. RequestOK(step)
      BY <1>1, <2>1, <2>3, <2>4 DEF RequestOK
    <2> QED
      BY <2>1, <2>2, <2>5, ClientOK DEF step
  <1>17. ASSUME LogRequest(c)
         PROVE  ServingInv'
    BY <1>7, <1>14, <1>17 DEF LogRequest
  <1>18. ASSUME Drop(c)
         PROVE  ServingInv'
    BY <1>2, <1>18, ClientOK DEF Drop
  <1> QED
    BY <1>6, <1>8, <1>10, <1>11, <1>12, <1>15, <1>16, <1>17, <1>18 DEF ClientStep

\* A store that a seed has left, no experiment, and nobody asks.
LEMMA ServingStart == ServingInit => ServingInv
  <1> SUFFICES ASSUME ServingInit PROVE ServingInv
    OBVIOUS
  <1>1. StoreInv
    BY InitInv DEF ServingInit
  <1>2. E!TablesOK /\ CallsGrounded /\ VariantsRecorded
    BY DEF ServingInit, E!ExperimentsInit, E!TablesOK, CallsGrounded,
           VariantsRecorded, E!Idle, Idle
  <1>3. serves \in [Names -> Seq(HistoryEntry)]
    BY DEF ServingInit
  <1>4. FetchOK /\ SettledRecorded /\ RequestsSound
    BY DEF ServingInit, FetchOK, SettledRecorded, RequestsSound, Settled
  <1> QED
    BY <1>1, <1>2, <1>3, <1>4 DEF ServingInv

\* Every step of the system keeps the invariant.
LEMMA ServingStep == ServingInv /\ [ServingNext]_servingVars => ServingInv'
  <1> SUFFICES ASSUME ServingInv, [ServingNext]_servingVars
               PROVE  ServingInv'
    OBVIOUS
  <1>1. CASE UNCHANGED servingVars
    <2>1. StoreInv'
      BY <1>1, StepInv DEF ServingInv, servingVars, storeVars
    <2>2. (E!TablesOK /\ CallsGrounded /\ VariantsRecorded)'
          /\ serves' \in [Names -> Seq(HistoryEntry)]
      BY <1>1 DEF ServingInv, servingVars, E!TablesOK, CallsGrounded, VariantsRecorded
    <2>3. (FetchOK /\ SettledRecorded /\ RequestsSound)'
      BY <1>1 DEF ServingInv, servingVars, FetchOK, SettledRecorded, RequestsSound,
                  Settled, VerifyPrompt, Exists, retired
    <2> QED
      BY <2>1, <2>2, <2>3 DEF ServingInv
  <1> QED
    BY <1>1, StoreKeeps, ExperimentKeeps, ClientKeeps DEF ServingNext

\* The invariant of requests for prompts beside the store and the experiments.
THEOREM ServingInvariant == ServingSpec => []ServingInv
  BY ServingStart, ServingStep, PTL DEF ServingSpec

\* Whatever is edited while a request is answered or after, the answer can be
\* verified.
THEOREM AnswersVerified == ServingSpec => []AnswersVerify
  <1>1. ServingInv => AnswersVerify
    BY DEF ServingInv, AnswersVerify, SettledRecorded, RequestsSound, Settled,
           Answered, NotAsking
  <1> QED
    BY <1>1, ServingInvariant, PTL

\* No answer is given in the name of a template that was withdrawn before the
\* request came in, and none has it as its auxiliary.
THEOREM WithdrawnGone == ServingSpec => []WithdrawnNotServed
  <1>1. ServingInv => WithdrawnNotServed
    BY DEF ServingInv, WithdrawnNotServed, RequestsSound, Settled, Answered, NotAsking
  <1> QED
    BY <1>1, ServingInvariant, PTL

\* Another template than the one asked for is given only if that one is gone.
THEOREM FallbackNeeded == ServingSpec => []FallbackJustified
  <1>1. ServingInv => FallbackJustified
    BY DEF ServingInv, FallbackJustified, RequestsSound, Settled, Answered, NotAsking
  <1> QED
    BY <1>1, ServingInvariant, PTL

------------------------------------------------------------------------------
(* Admin requests that do not overlap *)

Serial == \A a, b \in Admins : a = b

\* What StopsInv says of activations, and of one request for a prompt.
DraftCalls ==
    \A a \in Admins :
        call[a] # Idle => experiment[call[a].experiment].status = "draft"

StopsOK(r) ==
    r # NotAsking =>
        /\ \A e \in r.start.stopped :
              experiment[e] # None /\ experiment[e].status = "stopped"
        /\ r.resolved # None => r.resolved.experiment \notin r.start.stopped

AllStopsOK == \A c \in Clients : StopsOK(fetch[c])

\* The parts of StopsInv, one by one.
LEMMA StopsParts == StopsInv <=> DraftCalls /\ AllStopsOK
  BY DEF StopsInv, DraftCalls, AllStopsOK, StopsOK, Settled

\* An admin request about experiments that leaves stopped ones stopped.
LEMMA StopsKept ==
    ASSUME StopsInv, DraftCalls', fetch' = fetch,
           FetchOK,
           \A e \in Names :
              experiment[e] # None /\ experiment[e].status = "stopped" =>
                 experiment'[e] # None /\ experiment'[e].status = "stopped"
    PROVE  StopsInv'
  <1>1. ASSUME NEW c \in Clients
        PROVE  StopsOK(fetch[c])'
    <2>1. StopsOK(fetch[c]) /\ fetch'[c] = fetch[c]
      BY StopsParts DEF AllStopsOK
    <2>2. fetch[c] # NotAsking => fetch[c].start.stopped \subseteq Names
      BY DEF FetchOK, Asking, Snapshot
    <2> QED
      BY <2>1, <2>2 DEF StopsOK
  <1>2. (DraftCalls /\ AllStopsOK)'
    BY <1>1 DEF AllStopsOK
  <1> QED
    BY <1>2, StopsParts, PTL

\* Admin requests about experiments.
LEMMA ExperimentStops ==
    ASSUME Serial, ServingInv, StopsInv, NEW a \in Admins, ExperimentStep(a)
    PROVE  StopsInv'
  <1>1. /\ DraftCalls /\ FetchOK /\ fetch' = fetch
        /\ E!Idle = Idle
        /\ experiment \in [Names -> E!Row \cup {None}]
        /\ call \in [Admins -> E!Activating \cup {Idle}]
        /\ \A b \in Admins : b = a
    BY StopsParts
       DEF Serial, ServingInv, ExperimentStep, CreateExperiment, E!Idle, Idle,
           E!TablesOK
  <1>2. call[a] # Idle => /\ call[a].experiment \in Names
                          /\ experiment[call[a].experiment] # None
                          /\ experiment[call[a].experiment].status = "draft"
    BY <1>1 DEF ServingInv, CallsGrounded, DraftCalls, E!Activating
  <1>3. ASSUME NEW e \in Names, NEW t \in Templates, NEW split \in Splits,
               CreateExperiment(a, e, t, split)
        PROVE  StopsInv'
    <2>1. experiment[e] = None /\ call'[a] = Idle
      BY <1>1, <1>3 DEF CreateExperiment, E!CreateExperiment, E!Exists
    <2>2. \A d \in Names : d # e => experiment'[d] = experiment[d]
      BY <1>1, <1>3 DEF CreateExperiment, E!CreateExperiment
    <2>3. DraftCalls'
      BY <1>1, <2>1 DEF DraftCalls
    <2> QED
      BY <1>1, <2>1, <2>2, <2>3, StopsKept
  <1>4. ASSUME experiment' = experiment,
               call'[a] # Idle =>
                  experiment[call'[a].experiment].status = "draft"
        PROVE  StopsInv'
    <2>1. DraftCalls'
      BY <1>1, <1>4 DEF DraftCalls
    <2> QED
      BY <1>1, <1>4, <2>1, StopsKept
  <1>5. ASSUME NEW e \in Names, E!ActivateRead(a, e)
        PROVE  StopsInv'
    <2>1. /\ call'[a] = [op |-> "check", experiment |-> e]
          /\ experiment[e].status = "draft" /\ experiment' = experiment
      BY <1>1, <1>5 DEF E!ActivateRead
    <2> QED
      BY <2>1, <1>4
  <1>6. ASSUME E!ActivateCheck(a)
        PROVE  StopsInv'
    <2>1. /\ call[a] # Idle /\ experiment' = experiment
          /\ \/ call'[a] = Idle
             \/ call'[a] = [op |-> "commit", experiment |-> call[a].experiment]
      BY <1>1, <1>6 DEF E!ActivateCheck, Idle
    <2> QED
      BY <1>2, <1>4, <2>1
  <1>7. ASSUME E!ActivateCommit(a)
        PROVE  StopsInv'
    <2>1. /\ call[a] # Idle /\ call'[a] = Idle
          /\ experiment' = [experiment EXCEPT ![call[a].experiment].status =
                                                  "active"]
      BY <1>1, <1>7 DEF E!ActivateCommit, Idle
    <2>2. \A e \in Names :
             experiment[e].status = "stopped" => experiment'[e] = experiment[e]
      BY <1>1, <1>2, <2>1
    <2>3. DraftCalls'
      BY <1>1, <2>1 DEF DraftCalls
    <2> QED
      BY <1>1, <2>2, <2>3, StopsKept
  <1>8. ASSUME NEW e \in Names, E!StopExperiment(a, e)
        PROVE  StopsInv'
    <2>1. /\ call'[a] = Idle /\ experiment[e] \in E!Row
          /\ experiment' = [experiment EXCEPT ![e].status = "stopped"]
      BY <1>1, <1>8 DEF E!StopExperiment, E!Exists
    <2>2. experiment'[e] = [experiment[e] EXCEPT !.status = "stopped"]
          /\ \A d \in Names : d # e => experiment'[d] = experiment[d]
      BY <1>1, <2>1
    <2>3. experiment'[e] \in E!Row /\ experiment'[e].status = "stopped"
      BY <2>1, <2>2 DEF E!Row
    <2>4. experiment'[e] # None
      BY <2>3
    <2>5. DraftCalls'
      BY <1>1, <2>1 DEF DraftCalls
    <2> QED
      BY <1>1, <2>2, <2>3, <2>4, <2>5, StopsKept
  <1>9. ASSUME E!Abort(a)
        PROVE  StopsInv'
    BY <1>1, <1>4, <1>9 DEF E!Abort
  <1> QED
    BY <1>3, <1>5, <1>6, <1>7, <1>8, <1>9 DEF ExperimentStep

\* A step of a request for a prompt.
LEMMA ClientStops ==
    ASSUME ServingInv, StopsInv, NEW c \in Clients, UnchangedStore,
           NEW step, Proceed(c, step), StopsOK(step)
    PROVE  StopsInv'
  <1>1. DraftCalls /\ FetchOK /\ \A d \in Clients : StopsOK(fetch[d])
    BY StopsParts DEF ServingInv, AllStopsOK
  <1>2. \A d \in Clients : fetch'[d] = IF d = c THEN step ELSE fetch[d]
    BY <1>1 DEF FetchOK, Proceed
  <1>3. experiment' = experiment /\ call' = call
    BY DEF UnchangedStore
  <1>4. \A d \in Clients : StopsOK(fetch'[d])
    BY <1>1, <1>2
  <1>5. \A d \in Clients : StopsOK(fetch[d])'
    BY <1>3, <1>4 DEF StopsOK
  <1>6. DraftCalls'
    BY <1>1, <1>3 DEF DraftCalls
  <1>7. (DraftCalls /\ AllStopsOK)'
    BY <1>5, <1>6 DEF AllStopsOK
  <1> QED
    BY <1>7, StopsParts, PTL

\* A request that goes on without settling anew.
LEMMA OnStops ==
    ASSUME ServingInv, StopsInv, NEW c \in Clients, UnchangedStore,
           fetch[c] # NotAsking, NEW step, Proceed(c, step),
           step.start = fetch[c].start,
           step.resolved = fetch[c].resolved
    PROVE  StopsInv'
  <1>1. StopsOK(step)
    BY StopsParts DEF AllStopsOK, StopsOK
  <1> QED
    BY <1>1, ClientStops

\* A request that settles on a text: from a row, or from an experiment that
\* was active just now.
LEMMA SettleStops ==
    ASSUME ServingInv, StopsInv, NEW c \in Clients, UnchangedStore,
           fetch[c] # NotAsking, NEW resolved, Settle(c, resolved),
           resolved.experiment \notin fetch[c].start.stopped
    PROVE  StopsInv'
  <1>1. fetch[c] \in Asking
    BY DEF ServingInv, FetchOK
  <1> DEFINE at == IF fetch[c].endpoint.kind = "raw" THEN "variables"
                   ELSE IF fetch[c].endpoint.auxiliary # None THEN "auxiliary"
                   ELSE "log"
  <1>2. Proceed(c, [fetch[c] EXCEPT !.resolved = resolved, !.at = at])
    BY DEF Settle
  <1> HIDE DEF at
  <1> DEFINE step == [fetch[c] EXCEPT !.resolved = resolved, !.at = at]
  <1>3. step.start = fetch[c].start /\ step.resolved = resolved
    BY <1>1 DEF Asking
  <1>4. StopsOK(step)
    BY <1>3, StopsParts DEF AllStopsOK, StopsOK
  <1> HIDE DEF step
  <1>5. Proceed(c, step)
    BY <1>2 DEF step
  <1> QED
    BY <1>4, <1>5, ClientStops

\* Requests for prompts.
LEMMA RequestStops ==
    ASSUME ServingInv, StopsInv, NEW c \in Clients, ClientStep(c)
    PROVE  StopsInv'
  <1>1. /\ fetch[c] # NotAsking => /\ fetch[c] \in Asking
                                   /\ fetch[c].start.stopped \subseteq Names
        /\ fetch[c].at # "idle" => fetch[c] # NotAsking
    BY DEF ServingInv, FetchOK, Asking, Snapshot, NotAsking
  <1>2. ASSUME fetch[c] # NotAsking, UnchangedStore, NEW at,
               Proceed(c, [fetch[c] EXCEPT !.at = at])
        PROVE  StopsInv'
    <2> DEFINE step == [fetch[c] EXCEPT !.at = at]
    <2>1. step.start = fetch[c].start /\ step.resolved = fetch[c].resolved
      BY <1>1, <1>2 DEF Asking
    <2> HIDE DEF step
    <2>2. Proceed(c, step)
      BY <1>2 DEF step
    <2> QED
      BY <1>2, <2>1, <2>2, OnStops
  <1>3. ASSUME UnchangedStore, NotFound(c)
        PROVE  StopsInv'
    <2>1. StopsOK(NotAsking)
      BY DEF StopsOK
    <2> QED
      BY <1>3, <2>1, ClientStops DEF NotFound
  <1>4. ASSUME UnchangedStore, fetch[c] # NotAsking, NEW t, Settle(c, Canonical(t))
        PROVE  StopsInv'
    <2>1. Canonical(t).experiment = None
      BY DEF Canonical
    <2>2. Canonical(t).experiment \notin fetch[c].start.stopped
      BY <1>1, <1>4, <2>1
    <2> QED
      BY <1>4, <2>2, SettleStops
  <1>5. ASSUME NEW endpoint \in Endpoints, NEW key \in ApiKeys,
               Ask(c, endpoint, key)
        PROVE  StopsInv'
    <2> DEFINE step == [at |-> "lookup", endpoint |-> endpoint, key |-> key,
                        start |-> SnapshotFor(endpoint), resolved |-> None,
                        auxiliary |-> None, variables |-> Keep]
    <2>1. StopsOK(step)
      BY DEF StopsOK, SnapshotFor
    <2>2. Proceed(c, step) /\ UnchangedStore
      BY <1>5 DEF Ask
    <2> HIDE DEF step
    <2> QED
      BY <2>1, <2>2, ClientStops
  <1>6. ASSUME Lookup(c) \/ LogRequest(c)
        PROVE  StopsInv'
    BY <1>1, <1>2, <1>6 DEF Lookup, LogRequest
  <1>7. ASSUME FindExperiment(c)
        PROVE  StopsInv'
    <2>1. fetch[c] # NotAsking /\ UnchangedStore
      BY <1>1, <1>7 DEF FindExperiment
    <2>2. CASE Proceed(c, [fetch[c] EXCEPT !.at = "canonical"])
      BY <1>2, <2>1, <2>2
    <2>3. ASSUME NEW t, NEW e \in Running(t), NEW i, Settle(c, Variant(t, e, i))
          PROVE  StopsInv'
      <3>1. experiment[e].status # "stopped"
        BY <2>3 DEF Running, E!ActiveOn
      <3>2. e \notin fetch[c].start.stopped
        BY <2>1, <3>1, StopsParts DEF AllStopsOK, StopsOK
      <3>3. Variant(t, e, i).experiment = e
        BY DEF Variant
      <3> QED
        BY <2>1, <2>3, <3>2, <3>3, SettleStops
    <2> QED
      BY <1>7, <2>2, <2>3 DEF FindExperiment
  <1>8. ASSUME FindCanonical(c) \/ FindFallback(c)
        PROVE  StopsInv'
    BY <1>1, <1>2, <1>3, <1>4, <1>8 DEF FindCanonical, FindFallback
  <1>9. ASSUME FindAuxiliary(c) \/ FindAuxFallback(c)
        PROVE  StopsInv'
    <2>1. fetch[c] # NotAsking /\ UnchangedStore
      BY <1>1, <1>9 DEF FindAuxiliary, FindAuxFallback
    <2>2. ASSUME NEW t, Proceed(c, [fetch[c] EXCEPT !.auxiliary = t, !.at = "log"])
          PROVE  StopsInv'
      <3> DEFINE step == [fetch[c] EXCEPT !.auxiliary = t, !.at = "log"]
      <3>1. step.start = fetch[c].start /\ step.resolved = fetch[c].resolved
        BY <1>1, <2>1 DEF Asking
      <3> HIDE DEF step
      <3>2. Proceed(c, step)
        BY <2>2 DEF step
      <3> QED
        BY <2>1, <3>1, <3>2, OnStops
    <2> QED
      BY <1>2, <1>3, <1>9, <2>1, <2>2 DEF FindAuxiliary, FindAuxFallback
  <1>10. ASSUME ReadVariables(c)
         PROVE  StopsInv'
    <2>1. fetch[c] # NotAsking /\ UnchangedStore
      BY <1>1, <1>10 DEF ReadVariables
    <2>2. PICK variables :
             Proceed(c, [fetch[c] EXCEPT !.variables = variables, !.at = "log"])
      BY <1>10 DEF ReadVariables
    <2> DEFINE step == [fetch[c] EXCEPT !.variables = variables, !.at = "log"]
    <2>3. step.start = fetch[c].start /\ step.resolved = fetch[c].resolved
      BY <1>1, <2>1 DEF Asking
    <2> HIDE DEF step
    <2>4. Proceed(c, step)
      BY <2>2 DEF step
    <2> QED
      BY <2>1, <2>3, <2>4, OnStops
  <1>11. ASSUME Drop(c)
         PROVE  StopsInv'
    BY <1>3, <1>11 DEF Drop, NotFound
  <1> QED
    BY <1>5, <1>6, <1>7, <1>8, <1>9, <1>10, <1>11 DEF ClientStep

\* Every step, when admin requests do not overlap.
LEMMA StopsStep ==
    ASSUME Serial, ServingInv, StopsInv, [ServingNext]_servingVars
    PROVE  StopsInv'
  <1>1. ASSUME UNCHANGED << experiment, call, fetch >>
        PROVE  StopsInv'
    BY <1>1 DEF StopsInv, Settled
  <1>2. ASSUME NEW a \in Admins, StoreStep(a)
        PROVE  UNCHANGED << experiment, call, fetch >>
    BY <1>2 DEF StoreStep
  <1>3. UNCHANGED servingVars => UNCHANGED << experiment, call, fetch >>
    BY DEF servingVars
  <1> QED
    BY <1>1, <1>2, <1>3, ExperimentStops, RequestStops DEF ServingNext

\* When admin requests do not overlap, an experiment that was stopped when a
\* request came in has no part in its answer, whichever of the request's
\* queries saw it.
THEOREM DefaultServed ==
    ASSUME Serial
    PROVE  ServingSpec => []DefaultAfterStop
  <1>1. ServingInit => StopsInv
    BY DEF ServingInit, E!ExperimentsInit, E!Idle, Idle, StopsInv
  <1>2. ServingInv /\ StopsInv /\ [ServingNext]_servingVars => StopsInv'
    BY StopsStep
  <1>3. ServingInv /\ StopsInv => DefaultAfterStop
    BY DEF ServingInv, StopsInv, DefaultAfterStop, RequestsSound, Settled, Answered,
           NotAsking
  <1> QED
    BY <1>1, <1>2, <1>3, ServingInvariant, PTL DEF ServingSpec
------------------------------------------------------------------------------
(* The store and the experiments, as they are used here *)

\* Requests for prompts and about experiments leave the store as it is.
THEOREM ServingIsStore == ServingSpec => StoreSpec
  <1>1. ServingInit => StoreInit
    BY DEF ServingInit
  <1>2. [ServingNext]_servingVars => [StoreNext]_storeVars
    <2>1. ASSUME NEW a \in Admins, StoreStep(a)
          PROVE  StoreNext
      BY <2>1 DEF StoreStep, StoreNext
    <2>2. ASSUME NEW a \in Admins, ExperimentStep(a)
          PROVE  UNCHANGED storeVars
      BY <2>2 DEF ExperimentStep, CreateExperiment, storeVars
    <2>3. ASSUME NEW c \in Clients, ClientStep(c)
          PROVE  UNCHANGED storeVars
      BY <2>3 DEF ClientStep, Ask, Lookup, FindExperiment, FindCanonical,
                  FindFallback, FindAuxiliary, FindAuxFallback, ReadVariables,
                  LogRequest, Drop, UnchangedStore, storeVars
    <2>4. UNCHANGED servingVars => UNCHANGED storeVars
      BY DEF servingVars, storeVars
    <2> QED
      BY <2>1, <2>2, <2>3, <2>4 DEF ServingNext
  <1> QED
    BY <1>1, <1>2, PTL DEF ServingSpec, StoreSpec

\* So what the store promises is kept here as well: every answer is taken from
\* a ledger of attested editions.
THEOREM ServingLedger == ServingSpec => ImplementsLedger
  BY ServingIsStore, Refinement, PTL

\* With one admin request at a time, be it about templates or experiments,
\* versions only grow and each names one text.
THEOREM ServingVersions ==
    ASSUME Serial
    PROVE  ServingSpec => VersionMonotone /\ []OneTextPerVersion
  <1>1. StoreSpec => VersionMonotone /\ []OneTextPerVersion
    BY SerialVersions DEF Serial
  <1> QED
    BY <1>1, ServingIsStore, PTL

\* What is proved of the experiments on their own.
Alone == INSTANCE ExperimentsProofs WITH served <- {}

LEMMA SameTotals == \A split : E!Total(split) = Alone!Total(split)
  BY DEF E!Total, Alone!Total, E!RunningTotals, Alone!RunningTotals

LEMMA SameRows == E!Row = Alone!Row
  BY SameTotals DEF E!Row, Alone!Row

\* The constants of the one are fit for the other.
LEMMA SameAssumption == Alone!ExperimentsAssumption
  BY SameRows DEF Alone!ExperimentsAssumption

\* What an administrator does to experiments here can be done there.
LEMMA ExperimentsMove ==
    ASSUME NEW a \in Admins, ExperimentStep(a)
    PROVE  Alone!ExperimentsNext
  <1>1. SUFFICES Alone!AdminStep(a)
    BY DEF Alone!ExperimentsNext
  <1>2. CASE \E e \in Names, t \in Templates, split \in Splits :
                CreateExperiment(a, e, t, split)
    <2>1. PICK e \in Names, t \in Templates, split \in Splits :
             E!CreateExperiment(a, e, t, split)
      BY <1>2 DEF CreateExperiment
    <2>2. E!Total(split) = Alone!Total(split)
      BY SameTotals
    <2>3. Alone!CreateExperiment(a, e, t, split)
      BY <2>1, <2>2 DEF E!CreateExperiment, Alone!CreateExperiment, E!Exists,
                        Alone!Exists, E!Idle, Alone!Idle
    <2> QED
      BY <2>3 DEF Alone!AdminStep
  <1>3. CASE \E e \in Names : E!ActivateRead(a, e)
    BY <1>3 DEF E!ActivateRead, Alone!ActivateRead, E!Exists, Alone!Exists,
                E!Idle, Alone!Idle, Alone!AdminStep
  <1>4. CASE \E e \in Names : E!StopExperiment(a, e)
    BY <1>4 DEF E!StopExperiment, Alone!StopExperiment, E!Exists, Alone!Exists,
                E!Idle, Alone!Idle, Alone!AdminStep
  <1>5. CASE E!ActivateCheck(a)
    BY <1>5 DEF E!ActivateCheck, Alone!ActivateCheck, E!ActiveOn,
                Alone!ActiveOn, E!Exists, Alone!Exists, E!Idle, Alone!Idle,
                Alone!AdminStep
  <1>6. CASE E!ActivateCommit(a)
    BY <1>6 DEF E!ActivateCommit, Alone!ActivateCommit, E!Idle, Alone!Idle,
                Alone!AdminStep
  <1>7. CASE E!Abort(a)
    BY <1>7 DEF E!Abort, Alone!Abort, E!Idle, Alone!Idle, Alone!AdminStep
  <1> QED
    BY <1>2, <1>3, <1>4, <1>5, <1>6, <1>7 DEF ExperimentStep

\* Requests about templates and for prompts leave the experiments as they are.
THEOREM ServingIsExperiments == ServingSpec => Alone!ExperimentsSpec
  <1>1. ServingInit => Alone!ExperimentsInit
    BY DEF ServingInit, E!ExperimentsInit, Alone!ExperimentsInit, E!Idle,
           Alone!Idle
  <1>2. [ServingNext]_servingVars =>
           [Alone!ExperimentsNext]_(Alone!experimentVars)
    <2>1. ASSUME NEW a \in Admins, StoreStep(a)
          PROVE  UNCHANGED Alone!experimentVars
      BY <2>1 DEF StoreStep, Alone!experimentVars
    <2>2. ASSUME NEW c \in Clients, ClientStep(c)
          PROVE  UNCHANGED Alone!experimentVars
      BY <2>2 DEF ClientStep, Ask, Lookup, FindExperiment, FindCanonical,
                  FindFallback, FindAuxiliary, FindAuxFallback, ReadVariables,
                  LogRequest, Drop, UnchangedStore, Alone!experimentVars
    <2>3. UNCHANGED servingVars => UNCHANGED Alone!experimentVars
      BY DEF servingVars, Alone!experimentVars
    <2> QED
      BY <2>1, <2>2, <2>3, ExperimentsMove DEF ServingNext
  <1> QED
    BY <1>1, <1>2, PTL DEF ServingSpec, Alone!ExperimentsSpec

\* With one admin request at a time, be it about templates or experiments, at
\* most one experiment of a template is active, so that a request finds the
\* same one whatever order the database returns them in, and an experiment
\* that has been stopped stays so.
THEOREM ServingOneActive ==
    ASSUME Serial
    PROVE  ServingSpec => []Alone!OneActive /\ Alone!Lifecycle
  <1>1. Alone!Serial
    BY DEF Alone!Serial, Serial
  <1>2. Alone!ExperimentsSpec => []Alone!OneActive /\ Alone!Lifecycle
    BY <1>1, SameAssumption, Alone!SerialOneActive, Alone!SerialLifecycle
  <1> QED
    BY <1>2, ServingIsExperiments, PTL
==============================================================================
