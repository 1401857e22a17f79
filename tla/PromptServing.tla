---------------------------- MODULE PromptServing ----------------------------
(***************************************************************************)
(* Requests for prompts (composePrompt and getPromptTemplate of            *)
(* src/src/prompts/prompts.service.ts) beside the template store and the   *)
(* experiments.                                                            *)
(*                                                                         *)
(* A request makes between three and seven queries, each of which sees     *)
(* what is committed at that moment, while admin requests go on.  What is  *)
(* interpolated into a text plays no part here; the answer is the text, its *)
(* digest and version, the experiment it was chosen by and, for a raw      *)
(* template, the list of its variables.                                    *)
(*                                                                         *)
(* An admin request is about templates or about experiments: the same set  *)
(* Admins carries both, and a request does one thing at a time.            *)
(***************************************************************************)
EXTENDS TemplateStore, Sequences

CONSTANTS
    Clients,      \* requests for prompts in progress at the same time
    Endpoints,    \* what can be asked for
    Names,        \* names of experiments
    ApiKeys,      \* keys that requests authenticate with
    Hash32,       \* first 32 bits of SHA-256 over key and experiment id
    Splits,       \* the lists of percentages that administrators ask for
    None          \* nothing there

VARIABLES
    experiment,   \* the experiments table
    call,         \* where each request about experiments is
    serves,       \* experiment -> the history entry of each of its variants
    fetch         \* where each request for a prompt is

servingVars == << template, history, tx, experiment, call, serves, fetch >>

\* The life cycle of experiments and the assignment to variants.
E == INSTANCE Experiments WITH served <- {}

\* What a descriptor says: the template by name, the template to fall back to,
\* and the auxiliary template with its own fallback.  A raw template is asked
\* for by its name alone.
Endpoint == [kind: {"compose", "raw"}, name: Templates,
             fallback: Templates \cup {None},
             auxiliary: Templates \cup {None},
             auxFallback: Templates \cup {None}]

\* The text a request has settled on, where it came from, and what the row
\* said about its variables (Keep: the source does not tell).
Resolved == [template: Templates, version: Versions, text: Texts,
             variables: VarLists \cup {Keep}, experiment: Names \cup {None}]

ASSUME ServingAssumption ==
    /\ Endpoints \subseteq Endpoint
    /\ \A endpoint \in Endpoints :
          endpoint.kind = "raw" => /\ endpoint.fallback = None
                                   /\ endpoint.auxiliary = None
    /\ None \notin Templates \cup Names \cup Resolved \cup E!Row
    /\ Splits \subseteq Seq(0 .. 100)
    /\ \A split \in Splits : Len(split) >= 2
    /\ Hash32 \in [ApiKeys \X Names -> Nat]

\* The queries of a request, in order; "log" writes the audit log.
Stages == {"lookup", "experiment", "canonical", "fallback", "auxiliary",
           "auxFallback", "variables", "log", "answered"}

\* How things stood when the request came in (history): was its template
\* active, which of the templates it may be given were withdrawn, which of its
\* template's experiments were stopped?
Snapshot == [active: BOOLEAN, withdrawn: SUBSET Templates,
             stopped: SUBSET Names]

Asking == [at: Stages, endpoint: Endpoints, key: ApiKeys, start: Snapshot,
           resolved: Resolved \cup {None}, auxiliary: Templates \cup {None},
           variables: VarLists \cup {Keep}]

NotAsking == [at |-> "idle"]

\* Mistake: the filter on isActive is forgotten.
ActiveAny(t) == Exists(t)

Active(t) == Exists(t) /\ template[t].isActive

\* Mistake: the query does not ask for the status.
RunningAny(t) ==
    {e \in Names : experiment[e] # None /\ experiment[e].template = t}

Running(t) == E!ActiveOn(t)

------------------------------------------------------------------------------
ServingInit ==
    /\ StoreInit
    /\ E!ExperimentsInit
    /\ serves = [e \in Names |-> << >>]
    /\ fetch = [c \in Clients |-> NotAsking]

(* Admin requests *)

StoreStep(a) ==
    /\ call[a] = Idle
    /\ AdminStep(a)
    /\ UNCHANGED << experiment, call, serves, fetch >>

\* Mistake: an entry need not exist, any text at any version will do.
ServableAny ==
    {Entry(t, version, text, Hash[text]) :
        t \in Templates, version \in Versions, text \in Texts}

\* What a variant can serve: any history entry.  That it is an entry of the
\* experiment's own template is not checked.
Servable == history

\* createExperiment, with the entries its variants serve.  Templates and
\* history entries are never removed, so the queries that look for them are
\* made in one step with the insertion.
CreateExperiment(a, e, t, split) ==
    /\ tx[a] = Idle
    /\ Exists(t)
    /\ E!CreateExperiment(a, e, t, split)
    /\ \E entries \in [DOMAIN split -> Servable] :
          serves' = [serves EXCEPT ![e] = entries]
    /\ UNCHANGED << template, history, tx, fetch >>

ExperimentStep(a) ==
    \/ \E e \in Names, t \in Templates, split \in Splits :
          CreateExperiment(a, e, t, split)
    \/ /\ tx[a] = Idle
       /\ \/ \E e \in Names : E!ActivateRead(a, e) \/ E!StopExperiment(a, e)
          \/ E!ActivateCheck(a)
          \/ E!ActivateCommit(a)
          \/ E!Abort(a)
       /\ UNCHANGED << template, history, tx, serves, fetch >>

(* Requests for prompts *)

Proceed(c, step) == fetch' = [fetch EXCEPT ![c] = step]
UnchangedStore == UNCHANGED << template, history, tx, experiment, call, serves >>

Mentioned(endpoint) == {endpoint.name, endpoint.fallback, endpoint.auxiliary,
                        endpoint.auxFallback} \ {None}

SnapshotFor(endpoint) ==
    [active |-> Exists(endpoint.name) /\ endpoint.name \notin retired,
     withdrawn |-> Mentioned(endpoint) \cap retired,
     stopped |-> {e \in Names : /\ experiment[e] # None
                               /\ experiment[e].template = endpoint.name
                               /\ experiment[e].status = "stopped"}]

\* A request comes in; the answer to the one before it is on its way.
Ask(c, endpoint, key) ==
    /\ fetch[c].at \in {"idle", "answered"}
    /\ Proceed(c, [at |-> "lookup", endpoint |-> endpoint, key |-> key,
                   start |-> SnapshotFor(endpoint), resolved |-> None,
                   auxiliary |-> None, variables |-> Keep])
    /\ UnchangedStore

\* resolveExperiment, its first query: no experiment without an active row.
Lookup(c) ==
    /\ fetch[c].at = "lookup"
    /\ Proceed(c, [fetch[c] EXCEPT !.at =
                      IF Active(fetch[c].endpoint.name) THEN "experiment"
                      ELSE "canonical"])
    /\ UnchangedStore

\* With the text settled: the auxiliary template, the variables, or the log.
Settle(c, resolved) ==
    LET endpoint == fetch[c].endpoint
    IN  Proceed(c, [fetch[c] EXCEPT
                       !.resolved = resolved,
                       !.at = IF endpoint.kind = "raw" THEN "variables"
                              ELSE IF endpoint.auxiliary # None THEN "auxiliary"
                              ELSE "log"])

\* Mistake: the version of the template's row instead of the variant's.
VariantOfRow(t, e, i) ==
    [template |-> t, version |-> template[t].version,
     text |-> serves[e][i].text, variables |-> Keep, experiment |-> e]

\* A variant goes by the name that was asked for; the history has no variables.
Variant(t, e, i) ==
    [template |-> t, version |-> serves[e][i].version,
     text |-> serves[e][i].text, variables |-> Keep, experiment |-> e]

Canonical(t) ==
    [template |-> t, version |-> template[t].version,
     text |-> template[t].text, variables |-> template[t].variables,
     experiment |-> None]

\* resolveExperiment, its second query, with the variant that the bucket of
\* the key falls into.
FindExperiment(c) ==
    /\ fetch[c].at = "experiment"
    /\ LET t == fetch[c].endpoint.name
           running == Running(t)
       IN  \/ /\ running = {}
              /\ Proceed(c, [fetch[c] EXCEPT !.at = "canonical"])
           \/ \E e \in running :
                 LET split == experiment[e].split
                     bucket == E!ComputeBucket(fetch[c].key, e)
                 IN  \E order \in E!Orders(split) :
                        Settle(c, Variant(t, e, E!BucketToVariant(split, order,
                                                                  bucket)))
    /\ UnchangedStore

\* A template that is not there, and nothing to fall back to: 404.
NotFound(c) == Proceed(c, NotAsking)

\* Mistake: the fallback is preferred.
FindCanonicalLast(c) ==
    /\ fetch[c].at = "canonical"
    /\ LET endpoint == fetch[c].endpoint
       IN  IF endpoint.fallback # None
           THEN Proceed(c, [fetch[c] EXCEPT !.at = "fallback"])
           ELSE IF Active(endpoint.name)
           THEN Settle(c, Canonical(endpoint.name))
           ELSE NotFound(c)
    /\ UnchangedStore

\* getActiveTemplate, its first query.
FindCanonical(c) ==
    /\ fetch[c].at = "canonical"
    /\ LET endpoint == fetch[c].endpoint
       IN  IF Active(endpoint.name)
           THEN Settle(c, Canonical(endpoint.name))
           ELSE IF endpoint.fallback # None
           THEN Proceed(c, [fetch[c] EXCEPT !.at = "fallback"])
           ELSE NotFound(c)
    /\ UnchangedStore

\* getActiveTemplate, its second query.
FindFallback(c) ==
    /\ fetch[c].at = "fallback"
    /\ LET t == fetch[c].endpoint.fallback
       IN  IF Active(t) THEN Settle(c, Canonical(t)) ELSE NotFound(c)
    /\ UnchangedStore

\* composePrompt, getActiveTemplate for the auxiliary template.
FindAuxiliary(c) ==
    /\ fetch[c].at = "auxiliary"
    /\ LET endpoint == fetch[c].endpoint
       IN  IF Active(endpoint.auxiliary)
           THEN Proceed(c, [fetch[c] EXCEPT !.auxiliary = endpoint.auxiliary,
                                            !.at = "log"])
           ELSE IF endpoint.auxFallback # None
           THEN Proceed(c, [fetch[c] EXCEPT !.at = "auxFallback"])
           ELSE NotFound(c)
    /\ UnchangedStore

FindAuxFallback(c) ==
    /\ fetch[c].at = "auxFallback"
    /\ LET t == fetch[c].endpoint.auxFallback
       IN  IF Active(t)
           THEN Proceed(c, [fetch[c] EXCEPT !.auxiliary = t, !.at = "log"])
           ELSE NotFound(c)
    /\ UnchangedStore

\* getPromptTemplate, its own query: the row's variables, or those that came
\* with the text if the row is not active any more.
ReadVariables(c) ==
    /\ fetch[c].at = "variables"
    /\ LET t == fetch[c].endpoint.name
           variables == IF Active(t) THEN template[t].variables
                        ELSE fetch[c].resolved.variables
       IN  Proceed(c, [fetch[c] EXCEPT !.variables = variables, !.at = "log"])
    /\ UnchangedStore

\* logRequest: an entry in the request log or, if that fails, one more on a
\* counter; the request is answered either way.  Nothing reads the two, and
\* they repeat what the answer says, so they are no state of their own.
LogRequest(c) ==
    /\ fetch[c].at = "log"
    /\ Proceed(c, [fetch[c] EXCEPT !.at = "answered"])
    /\ UnchangedStore

\* A query fails or the process stops: no answer.
Drop(c) ==
    /\ fetch[c].at \notin {"idle", "answered"}
    /\ Proceed(c, NotAsking)
    /\ UnchangedStore

ClientStep(c) ==
    \/ \E endpoint \in Endpoints, key \in ApiKeys : Ask(c, endpoint, key)
    \/ Lookup(c)
    \/ FindExperiment(c)
    \/ FindCanonical(c)
    \/ FindFallback(c)
    \/ FindAuxiliary(c)
    \/ FindAuxFallback(c)
    \/ ReadVariables(c)
    \/ LogRequest(c)
    \/ Drop(c)

ServingNext ==
    \/ \E a \in Admins : StoreStep(a) \/ ExperimentStep(a)
    \/ \E c \in Clients : ClientStep(c)

ServingSpec == ServingInit /\ [][ServingNext]_servingVars

------------------------------------------------------------------------------
(* Properties *)

Settled(c) == fetch[c] # NotAsking /\ fetch[c].resolved # None
Answered(c) == fetch[c].at = "answered"

\* "Nodes can verify they received an authentic prompt" (SECURITY.md): the
\* digest and version of an answer are verified at whatever later time the
\* client asks, by a variant as by a row, whatever was edited meanwhile.
AnswersVerify ==
    \A c \in Clients :
        Answered(c) =>
            VerifyPrompt(Hash[fetch[c].resolved.text], fetch[c].resolved.version)

\* A request that came in after a template was withdrawn is not answered in its
\* name, and does not get it as its auxiliary.
WithdrawnNotServed ==
    \A c \in Clients :
        Answered(c) =>
            /\ fetch[c].resolved.template \notin fetch[c].start.withdrawn
            /\ fetch[c].auxiliary \notin fetch[c].start.withdrawn

\* A request that came in while its template was active is given another one
\* only if the template was withdrawn before the answer.
FallbackJustified ==
    \A c \in Clients :
        Answered(c) =>
            LET name == fetch[c].endpoint.name
            IN  fetch[c].start.active /\ fetch[c].resolved.template # name =>
                    name \in retired

\* "Once stopped, the template reverts to serving its default version"
\* (docs/api-reference.md): an experiment that was stopped when the request
\* came in has no part in the answer.  It holds when admin requests do not
\* overlap; an activation that is under way can undo a stop.
DefaultAfterStop ==
    \A c \in Clients :
        Answered(c) => fetch[c].resolved.experiment \notin fetch[c].start.stopped

\* What makes AnswersVerify inductive: every variant serves an entry of the
\* history, and what a request has settled on stands there at its version.
VariantsRecorded ==
    \A e \in Names : experiment[e] # None =>
        /\ DOMAIN serves[e] = DOMAIN experiment[e].split
        /\ \A i \in DOMAIN serves[e] : serves[e][i] \in history

SettledRecorded ==
    \A c \in Clients :
        Settled(c) =>
            VerifyPrompt(Hash[fetch[c].resolved.text], fetch[c].resolved.version)

FetchOK == fetch \in [Clients -> Asking \cup {NotAsking}]

\* An activation under way is about an experiment that exists.
CallsGrounded ==
    \A a \in Admins : call[a] # Idle => experiment[call[a].experiment] # None

\* What makes WithdrawnNotServed and FallbackJustified inductive: what was
\* withdrawn stays so, and the same is said at each stage of a request.
RequestsSound ==
    \A c \in Clients : fetch[c] # NotAsking =>
        LET name == fetch[c].endpoint.name
            start == fetch[c].start
        IN  /\ start.withdrawn \subseteq retired
            /\ start.active => Exists(name)
            /\ fetch[c].at = "experiment" => name \notin start.withdrawn
            /\ fetch[c].at = "fallback" =>
                   /\ fetch[c].endpoint.fallback # None
                   /\ start.active => name \in retired
            /\ fetch[c].auxiliary \notin start.withdrawn
            /\ fetch[c].at \in {"auxiliary", "auxFallback", "variables", "log",
                               "answered"} => Settled(c)
            /\ Settled(c) =>
                   /\ fetch[c].resolved.template \notin start.withdrawn
                   /\ start.active /\ fetch[c].resolved.template # name =>
                          name \in retired

ServingInv ==
    /\ StoreInv
    /\ E!TablesOK
    /\ CallsGrounded
    /\ serves \in [Names -> Seq(HistoryEntry)]
    /\ FetchOK
    /\ VariantsRecorded
    /\ SettledRecorded
    /\ RequestsSound

\* What makes DefaultAfterStop inductive where admin requests do not overlap:
\* an activation under way is of a draft, so that what was stopped stays so.
StopsInv ==
    /\ \A a \in Admins :
          call[a] # Idle => experiment[call[a].experiment].status = "draft"
    /\ \A c \in Clients : fetch[c] # NotAsking =>
          /\ \A e \in fetch[c].start.stopped :
                experiment[e] # None /\ experiment[e].status = "stopped"
          /\ Settled(c) =>
                fetch[c].resolved.experiment \notin fetch[c].start.stopped
==============================================================================
