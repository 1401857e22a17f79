----------------------------- MODULE Experiments -----------------------------
(***************************************************************************)
(* A/B experiments: their life cycle (the experiment methods of            *)
(* src/src/admin/admin.service.ts) and the assignment of a node to a       *)
(* variant (src/src/experiments/experiments.service.ts).                   *)
(*                                                                         *)
(* Neither method uses a transaction.  activateExperiment is two queries   *)
(* and an unconditional update, and any number of admin requests overlap.  *)
(* Templates and history entries are never removed and an experiment and   *)
(* its variants never change or go away, so the checks that they exist are *)
(* made where they are used.  A variant is its trafficPct and its position *)
(* in the experiment; the history entry it serves plays no part here.      *)
(***************************************************************************)
EXTENDS Integers, Sequences, FiniteSets, SequencesExt

CONSTANTS
    Templates,    \* active templates
    Names,        \* names, and so identities, of experiments
    Admins,       \* admin requests that can be in progress at the same time
    ApiKeys,      \* keys that nodes fetch prompts with
    Hash32,       \* first 32 bits of SHA-256 over key and experiment id
    Splits,       \* the lists of percentages that administrators ask for
    None          \* no experiment has this name

VARIABLES
    experiment,   \* the experiments table: name -> row, or None
    call,         \* where each admin request is
    served        \* who was given which variant of which experiment (history)

experimentVars == << experiment, call, served >>

\* The running totals of a list of numbers, from 0 to the sum of all.
RunningTotals(weights) ==
    LET cumulative[i \in 0 .. Len(weights)] ==
            IF i = 0 THEN 0 ELSE cumulative[i - 1] + weights[i]
    IN  cumulative

Total(split) == RunningTotals(split)[Len(split)]

Row == [template: Templates, status: {"draft", "active", "stopped"},
        split: {split \in Splits : Total(split) = 100}]

ASSUME ExperimentsAssumption ==
    /\ Splits \subseteq Seq(0 .. 100)
    /\ \A split \in Splits : Len(split) >= 2
    /\ Hash32 \in [ApiKeys \X Names -> Nat]
    /\ None \notin Row

Idle == [op |-> "idle"]
Activating == [op: {"check", "commit"}, experiment: Names]

TablesOK ==
    /\ experiment \in [Names -> Row \cup {None}]
    /\ call \in [Admins -> Activating \cup {Idle}]

Exists(e) == experiment[e] # None

ActiveOn(t) ==
    {e \in Names : Exists(e) /\ experiment[e].template = t
                             /\ experiment[e].status = "active"}

------------------------------------------------------------------------------
(* Buckets *)

ComputeBucket(key, e) == Hash32[key, e] % 100

\* Mistake: the query asks for no order.
OrdersUnsorted(split) == SetToSeqs(DOMAIN split)

\* The variants as the query may return them: by falling percentage, and in no
\* particular order where percentages are equal.
Orders(split) ==
    {order \in SetToSeqs(DOMAIN split) :
        \A i \in 1 .. (Len(order) - 1) : split[order[i]] >= split[order[i + 1]]}

\* Mistake: a running total that the bucket only equals is taken.
BucketToVariantInclusive(split, order, bucket) ==
    LET totals == RunningTotals([i \in DOMAIN order |-> split[order[i]]])
        reached == {i \in DOMAIN order : bucket <= totals[i]}
    IN  IF reached = {}
        THEN Last(order)
        ELSE order[CHOOSE i \in reached : \A j \in reached : i <= j]

\* bucketToVariant: the position at which the running total of the percentages
\* first exceeds the bucket, or else the last, and the variant there.
Weights(split, order) == [i \in DOMAIN order |-> split[order[i]]]

Position(weights, bucket) ==
    LET totals == RunningTotals(weights)
        reached == {i \in DOMAIN weights : bucket < totals[i]}
    IN  IF reached = {}
        THEN Len(weights)
        ELSE CHOOSE i \in reached : \A j \in reached : i <= j

BucketToVariant(split, order, bucket) ==
    order[Position(Weights(split, order), bucket)]

------------------------------------------------------------------------------
ExperimentsInit ==
    /\ experiment = [e \in Names |-> None]
    /\ call = [a \in Admins |-> Idle]
    /\ served = {}

\* Mistake: percentages are not added up.
CreateExperimentUnchecked(a, e, t, split) ==
    /\ call[a] = Idle
    /\ ~Exists(e)
    /\ experiment' = [experiment EXCEPT ![e] =
          [template |-> t, status |-> "draft", split |-> split]]
    /\ UNCHANGED << call, served >>

\* createExperiment: percentages that do not add up and names that are taken
\* are refused.
CreateExperiment(a, e, t, split) ==
    /\ call[a] = Idle
    /\ Total(split) = 100
    /\ ~Exists(e)
    /\ experiment' = [experiment EXCEPT ![e] =
          [template |-> t, status |-> "draft", split |-> split]]
    /\ UNCHANGED << call, served >>

\* Mistake: an experiment of any status is activated.
ActivateReadAny(a, e) ==
    /\ call[a] = Idle
    /\ Exists(e)
    /\ call' = [call EXCEPT ![a] = [op |-> "check", experiment |-> e]]
    /\ UNCHANGED << experiment, served >>

\* activateExperiment, its first query: only a draft is activated.
ActivateRead(a, e) ==
    /\ call[a] = Idle
    /\ Exists(e)
    /\ experiment[e].status = "draft"
    /\ call' = [call EXCEPT ![a] = [op |-> "check", experiment |-> e]]
    /\ UNCHANGED << experiment, served >>

\* Mistake: other experiments of the template are not looked for.
ActivateCheckNone(a) ==
    /\ call[a].op = "check"
    /\ call' = [call EXCEPT ![a].op = "commit"]
    /\ UNCHANGED << experiment, served >>

\* activateExperiment, its second query: is another one active?
ActivateCheck(a) ==
    /\ call[a].op = "check"
    /\ LET e == call[a].experiment
       IN  call' = [call EXCEPT ![a] =
              IF ActiveOn(experiment[e].template) \ {e} = {}
              THEN [op |-> "commit", experiment |-> e]
              ELSE Idle]
    /\ UNCHANGED << experiment, served >>

\* activateExperiment, its update, whatever the row's status is by now.
ActivateCommit(a) ==
    /\ call[a].op = "commit"
    /\ experiment' = [experiment EXCEPT ![call[a].experiment].status = "active"]
    /\ call' = [call EXCEPT ![a] = Idle]
    /\ UNCHANGED served

\* stopExperiment reads only whether the experiment exists; a draft is stopped
\* too, and a stopped experiment once more.
StopExperiment(a, e) ==
    /\ call[a] = Idle
    /\ Exists(e)
    /\ experiment' = [experiment EXCEPT ![e].status = "stopped"]
    /\ UNCHANGED << call, served >>

\* A statement fails or the process stops.
Abort(a) ==
    /\ call[a] # Idle
    /\ call' = [call EXCEPT ![a] = Idle]
    /\ UNCHANGED << experiment, served >>

\* resolveExperiment for an active template: some active experiment of the
\* template, the query asks for no order.
ResolveExperiment(key, t) ==
    /\ \E e \in ActiveOn(t) : \E order \in Orders(experiment[e].split) :
          served' = served \cup
             {<< key, e, BucketToVariant(experiment[e].split, order,
                                         ComputeBucket(key, e)) >>}
    /\ UNCHANGED << experiment, call >>

AdminStep(a) ==
    \/ \E e \in Names, t \in Templates, split \in Splits :
          CreateExperiment(a, e, t, split)
    \/ \E e \in Names : ActivateRead(a, e)
    \/ ActivateCheck(a)
    \/ ActivateCommit(a)
    \/ \E e \in Names : StopExperiment(a, e)
    \/ Abort(a)

ExperimentsNext ==
    \/ \E a \in Admins : AdminStep(a)
    \/ \E key \in ApiKeys, t \in Templates : ResolveExperiment(key, t)

ExperimentsSpec == ExperimentsInit /\ [][ExperimentsNext]_experimentVars

------------------------------------------------------------------------------
(* Properties *)

TypeOK ==
    /\ TablesOK
    /\ \A s \in served :
          /\ s[1] \in ApiKeys
          /\ s[2] \in Names /\ Exists(s[2])
          /\ s[3] \in DOMAIN experiment[s[2]].split

\* "Only one experiment may be active per template at a time"
\* (docs/architecture.md).  It holds when admin requests never overlap and
\* fails when two experiments are activated at once.
OneActive == \A t \in Templates : \A d, e \in ActiveOn(t) : d = e

\* An experiment never goes back: once stopped it serves no one again, and
\* once active it is no draft.  It holds when admin requests never overlap and
\* fails when a stop falls between the queries and the update of an activation.
Lifecycle ==
    [][\A e \in Names :
          Exists(e) =>
              /\ experiment[e].status = "active" =>
                     experiment'[e].status \in {"active", "stopped"}
              /\ experiment[e].status = "stopped" =>
                     experiment'[e].status = "stopped"]_experimentVars

\* Every variant gets exactly the share of the buckets that it was given: the
\* running totals neither skip nor share a bucket, in whichever order the
\* database returns equal percentages.
SharesExact ==
    \A e \in Names : Exists(e) =>
        LET split == experiment[e].split
        IN  \A order \in Orders(split), i \in DOMAIN split :
               Cardinality({b \in 0 .. 99 :
                               BucketToVariant(split, order, b) = i}) = split[i]

\* A node that is served twice from one experiment is given the same variant
\* or, where percentages are equal, one with the same percentage.
StickyUpToTies ==
    \A r, s \in served :
        r[1] = s[1] /\ r[2] = s[2] =>
            experiment[r[2]].split[r[3]] = experiment[s[2]].split[s[3]]

------------------------------------------------------------------------------
(* One admin request at a time: what an activation found is still so when it *)
(* writes.                                                                   *)
SerialInv ==
    /\ TablesOK
    /\ OneActive
    /\ \A a \in Admins :
          call[a] # Idle =>
              /\ Exists(call[a].experiment)
              /\ experiment[call[a].experiment].status = "draft"
              /\ call[a].op = "commit" =>
                     ActiveOn(experiment[call[a].experiment].template)
                         \subseteq {call[a].experiment}
==============================================================================
