--------------------------- MODULE ExperimentsProofs ---------------------------
(***************************************************************************)
(* Experiments for every set of templates, experiments and nodes: types    *)
(* and assignments whatever overlaps, the life cycle when admin requests   *)
(* do not overlap.                                                         *)
(***************************************************************************)
EXTENDS Experiments, FiniteSetTheorems, SequenceTheorems, WellFoundedInduction,
        TLAPS

USE ExperimentsAssumption

\* Admin requests do not overlap.
Serial == \A a, b \in Admins : a = b

\* An experiment that exists is a row of the table, on a template.
LEMMA ExistsRow ==
    ASSUME TablesOK, NEW e \in Names
    PROVE  /\ Exists(e) <=> experiment[e] \in Row
           /\ experiment[e] \in Row => experiment[e].template \in Templates
  BY DEF TablesOK, Exists, Row

\* An activation in progress is about an experiment.
LEMMA CallShape ==
    ASSUME TablesOK, NEW a \in Admins, call[a] # Idle
    PROVE  call[a] \in Activating /\ call[a].experiment \in Names
  BY DEF TablesOK, Activating

\* Nothing is active at the start.
LEMMA SerialInit == ExperimentsInit => SerialInv
  BY DEF ExperimentsInit, SerialInv, TablesOK, OneActive, ActiveOn, Exists

\* A step that activates nothing and leaves every request idle.
LEMMA QuietStep ==
    ASSUME SerialInv, TablesOK',
           \A t \in Templates : ActiveOn(t)' \subseteq ActiveOn(t),
           \A a \in Admins : call'[a] = Idle
    PROVE  SerialInv'
  BY DEF SerialInv, OneActive

\* Each query and each update of the experiment methods keeps the invariant.
LEMMA SerialStep ==
    ASSUME Serial, SerialInv, [ExperimentsNext]_experimentVars
    PROVE  SerialInv'
  <1> USE DEF SerialInv
  <1>1. ASSUME NEW a \in Admins, NEW e \in Names, NEW t \in Templates,
               NEW split \in Splits, CreateExperiment(a, e, t, split)
        PROVE  SerialInv'
    <2>1. [template |-> t, status |-> "draft", split |-> split] \in Row
      BY <1>1 DEF CreateExperiment, Row
    <2>2. TablesOK'
      BY <1>1, <2>1 DEF CreateExperiment, TablesOK
    <2>3. /\ experiment'[e].status = "draft"
          /\ \A d \in Names : d # e => experiment'[d] = experiment[d]
      BY <1>1 DEF CreateExperiment, TablesOK
    <2>4. \A u \in Templates : ActiveOn(u)' \subseteq ActiveOn(u)
      BY <2>3 DEF ActiveOn, Exists
    <2>5. \A b \in Admins : call'[b] = Idle
      BY <1>1 DEF CreateExperiment, Serial
    <2> HIDE DEF SerialInv
    <2> QED
      BY <2>2, <2>4, <2>5, QuietStep
  <1>2. ASSUME NEW a \in Admins, NEW e \in Names, ActivateRead(a, e)
        PROVE  SerialInv'
    <2>1. TablesOK'
      BY <1>2 DEF ActivateRead, TablesOK, Activating
    <2>2. experiment' = experiment
      BY <1>2 DEF ActivateRead
    <2>3. \A b \in Admins : /\ call'[b].experiment = e
                            /\ call'[b].op = "check"
      BY <1>2 DEF ActivateRead, Serial, TablesOK
    <2>4. Exists(e) /\ experiment[e].status = "draft"
      BY <1>2 DEF ActivateRead
    <2> QED
      BY <2>1, <2>2, <2>3, <2>4 DEF OneActive, ActiveOn, Exists
  <1>3. ASSUME NEW a \in Admins, ActivateCheck(a)
        PROVE  SerialInv'
    <2> DEFINE e == call[a].experiment
               clear == ActiveOn(experiment[e].template) \ {e} = {}
    <2>1. call[a] # Idle /\ e \in Names
      BY <1>3, CallShape DEF ActivateCheck, Idle
    <2>2. experiment' = experiment
      BY <1>3 DEF ActivateCheck
    <2>3. call'[a] = IF clear THEN [op |-> "commit", experiment |-> e] ELSE Idle
      BY <1>3 DEF ActivateCheck, TablesOK
    <2>4. TablesOK'
      BY <1>3, <2>1, <2>2, <2>3 DEF ActivateCheck, TablesOK, Activating
    <2>5. Exists(e) /\ experiment[e].status = "draft"
      BY <2>1
    <2>6. \A b \in Admins : b = a
      BY DEF Serial
    <2>7. clear => ActiveOn(experiment[e].template) \subseteq {e}
      OBVIOUS
    <2>8. \A b \in Admins :
             call'[b] # Idle =>
                /\ clear /\ call'[b].experiment = e
      BY <2>3, <2>6
    <2> HIDE DEF e, clear
    <2> QED
      BY <2>2, <2>4, <2>5, <2>7, <2>8 DEF OneActive, ActiveOn, Exists
  <1>4. ASSUME NEW a \in Admins, ActivateCommit(a)
        PROVE  SerialInv'
    <2> DEFINE e == call[a].experiment
    <2>1. call[a] # Idle /\ call[a].op = "commit" /\ e \in Names
      BY <1>4, CallShape DEF ActivateCommit, Idle
    <2>2. Exists(e) /\ ActiveOn(experiment[e].template) \subseteq {e}
      BY <2>1
    <2>3. experiment[e] \in Row
      BY <2>1, <2>2, ExistsRow
    <2>4. experiment' = [experiment EXCEPT ![e] = [@ EXCEPT !.status = "active"]]
      BY <1>4 DEF ActivateCommit
    <2>5. [experiment[e] EXCEPT !.status = "active"] \in Row
      BY <2>3 DEF Row
    <2>6. TablesOK'
      BY <1>4, <2>4, <2>5 DEF ActivateCommit, TablesOK
    <2>7. /\ experiment'[e].template = experiment[e].template
          /\ \A d \in Names : d # e => experiment'[d] = experiment[d]
      BY <2>1, <2>3, <2>4 DEF TablesOK, Row
    <2>8. \A b \in Admins : call'[b] = Idle
      BY <1>4 DEF ActivateCommit, Serial, TablesOK
    <2> HIDE DEF e
    <2>9. \A t \in Templates :
             ActiveOn(t)' \subseteq
                IF t = experiment[e].template THEN {e} ELSE ActiveOn(t)
      BY <2>2, <2>7 DEF ActiveOn, Exists
    <2> QED
      BY <2>6, <2>8, <2>9 DEF OneActive
  <1>5. ASSUME NEW a \in Admins, NEW e \in Names, StopExperiment(a, e)
        PROVE  SerialInv'
    <2>1. Exists(e) /\ experiment[e] \in Row
      BY <1>5, ExistsRow DEF StopExperiment
    <2>2. experiment' = [experiment EXCEPT ![e] = [@ EXCEPT !.status = "stopped"]]
      BY <1>5 DEF StopExperiment
    <2>3. [experiment[e] EXCEPT !.status = "stopped"] \in Row
      BY <2>1 DEF Row
    <2>4. TablesOK'
      BY <1>5, <2>2, <2>3 DEF StopExperiment, TablesOK
    <2>5. /\ experiment'[e].status = "stopped"
          /\ \A d \in Names : d # e => experiment'[d] = experiment[d]
      BY <2>1, <2>2 DEF TablesOK, Row
    <2>6. \A u \in Templates : ActiveOn(u)' \subseteq ActiveOn(u)
      BY <2>5 DEF ActiveOn, Exists
    <2>7. \A b \in Admins : call'[b] = Idle
      BY <1>5 DEF StopExperiment, Serial
    <2> HIDE DEF SerialInv
    <2> QED
      BY <2>4, <2>6, <2>7, QuietStep
  <1>6. ASSUME NEW a \in Admins, Abort(a)
        PROVE  SerialInv'
    <2>1. TablesOK' /\ experiment' = experiment
      BY <1>6 DEF Abort, TablesOK
    <2>2. \A b \in Admins : call'[b] = Idle
      BY <1>6 DEF Abort, Serial, TablesOK
    <2>3. \A u \in Templates : ActiveOn(u)' = ActiveOn(u)
      BY <2>1 DEF ActiveOn, Exists
    <2> HIDE DEF SerialInv
    <2> QED
      BY <2>1, <2>2, <2>3, QuietStep
  <1>7. ASSUME UNCHANGED << experiment, call >>
        PROVE  SerialInv'
    BY <1>7 DEF TablesOK, OneActive, ActiveOn, Exists
  <1> HIDE DEF SerialInv
  <1> QED
    BY <1>1, <1>2, <1>3, <1>4, <1>5, <1>6, <1>7
       DEF ExperimentsNext, AdminStep, ResolveExperiment, experimentVars

\* What the activation's queries found still holds when it writes.
THEOREM SerialInvariant ==
    ASSUME Serial
    PROVE  ExperimentsSpec => []SerialInv
  <1>1. SerialInv /\ [ExperimentsNext]_experimentVars => SerialInv'
    BY SerialStep
  <1> QED
    BY SerialInit, <1>1, PTL DEF ExperimentsSpec

\* As long as admin requests do not overlap, at most one experiment of a
\* template is active, which is what lets resolveExperiment take any.
THEOREM SerialOneActive ==
    ASSUME Serial
    PROVE  ExperimentsSpec => []OneActive
  BY SerialInvariant, PTL DEF SerialInv

\* No single step takes an experiment back, given what the activation found.
LEMMA LifecycleStep ==
    ASSUME SerialInv, [ExperimentsNext]_experimentVars, NEW e \in Names, Exists(e)
    PROVE  /\ experiment[e].status = "active" =>
                 experiment'[e].status \in {"active", "stopped"}
           /\ experiment[e].status = "stopped" =>
                 experiment'[e].status = "stopped"
  <1>1. ASSUME NEW a \in Admins, NEW d \in Names, NEW t \in Templates,
               NEW split \in Splits, CreateExperiment(a, d, t, split)
        PROVE  experiment'[e] = experiment[e]
    BY <1>1 DEF CreateExperiment, SerialInv, TablesOK
  <1>2. ASSUME NEW a \in Admins, ActivateCommit(a)
        PROVE  experiment[e].status = "draft" \/ experiment'[e] = experiment[e]
    <2>1. call[a] # Idle
      BY <1>2 DEF ActivateCommit, Idle
    <2>2. experiment[call[a].experiment].status = "draft"
      BY <2>1 DEF SerialInv
    <2> QED
      BY <1>2, <2>2 DEF ActivateCommit, SerialInv, TablesOK
  <1>3. ASSUME NEW a \in Admins, NEW d \in Names, StopExperiment(a, d)
        PROVE  experiment'[e].status = "stopped" \/ experiment'[e] = experiment[e]
    <2>1. experiment[e] \in Row
      BY ExistsRow DEF SerialInv
    <2> QED
      BY <1>3, <2>1 DEF StopExperiment, SerialInv, TablesOK, Row
  <1>4. ASSUME experiment' = experiment
        PROVE  experiment'[e] = experiment[e]
    BY <1>4
  <1> QED
    BY <1>1, <1>2, <1>3, <1>4
       DEF ExperimentsNext, AdminStep, ActivateRead, ActivateCheck, Abort,
           ResolveExperiment, experimentVars

\* As long as admin requests do not overlap, a stopped experiment stays
\* stopped and an active one never turns into a draft.
THEOREM SerialLifecycle ==
    ASSUME Serial
    PROVE  ExperimentsSpec => Lifecycle
  <1>1. SerialInv /\ [ExperimentsNext]_experimentVars =>
           [\A e \in Names :
              Exists(e) =>
                 /\ experiment[e].status = "active" =>
                        experiment'[e].status \in {"active", "stopped"}
                 /\ experiment[e].status = "stopped" =>
                        experiment'[e].status = "stopped"]_experimentVars
    BY LifecycleStep
  <1> QED
    BY SerialInvariant, <1>1, PTL DEF ExperimentsSpec, Lifecycle

------------------------------------------------------------------------------
(* Whatever overlaps *)

\* A set of numbers that is not empty has a least element.
LEMMA LeastElement ==
    ASSUME NEW S \in SUBSET Nat, S # {}
    PROVE  \E i \in S : \A j \in S : i <= j
  <1> DEFINE R == OpToRel(<, Nat)
  <1>1. PICK i \in S : \A j \in S : << j, i >> \notin R
    <2>1. IsWellFoundedOn(R, Nat)
      BY NatLessThanWellFounded
    <2> HIDE DEF R
    <2> QED
      BY <2>1, WFMin
  <1>2. \A j \in S : ~(j < i)
    BY <1>1 DEF OpToRel
  <1> QED
    BY <1>2

\* Some position is found, whatever the bucket.
LEMMA PositionFound ==
    ASSUME NEW n \in Nat, n >= 1, NEW weights \in [1 .. n -> Nat], NEW bucket
    PROVE  Position(weights, bucket) \in 1 .. n
  <1> DEFINE reached == {i \in DOMAIN weights : bucket < RunningTotals(weights)[i]}
  <1>1. weights \in Seq(Nat) /\ Len(weights) = n /\ DOMAIN weights = 1 .. n
    OBVIOUS
  <1>2. reached \subseteq 1 .. n /\ reached \in SUBSET Nat
    BY <1>1
  <1> HIDE DEF reached
  <1>3. CASE reached = {}
    BY <1>1, <1>3 DEF Position, reached
  <1>4. CASE reached # {}
    <2>1. (CHOOSE i \in reached : \A j \in reached : i <= j) \in reached
      BY <1>2, <1>4, LeastElement
    <2> QED
      BY <1>2, <1>4, <2>1 DEF Position, reached
  <1> QED
    BY <1>3, <1>4

\* The first n numbers are n.
LEMMA IntervalSize ==
    ASSUME NEW n \in Nat
    PROVE  Cardinality(1 .. n) = n /\ IsFiniteSet(1 .. n)
  BY FS_Interval

\* An order of n variants with percentages f that fall: each once.
SortedBy(n, f, order) ==
    /\ order \in [1 .. n -> 1 .. n]
    /\ \A i, j \in 1 .. n : order[i] = order[j] => i = j
    /\ \A k \in 1 .. n : \E i \in 1 .. n : order[i] = k
    /\ \A i \in 1 .. (n - 1) : f[order[i]] >= f[order[i + 1]]

\* What the query returns: every variant once, by falling percentage.
LEMMA OrderShape ==
    ASSUME NEW split \in Splits, NEW order \in Orders(split)
    PROVE  /\ Len(split) \in Nat /\ Len(split) >= 2
           /\ DOMAIN split = 1 .. Len(split)
           /\ split \in [1 .. Len(split) -> Nat]
           /\ SortedBy(Len(split), split, order)
           /\ Weights(split, order) \in [1 .. Len(split) -> Nat]
  <1>1. split \in Seq(0 .. 100) /\ Len(split) >= 2
    BY DEF ExperimentsAssumption
  <1>2. PICK n \in Nat : n = Len(split)
    BY <1>1
  <1>3. DOMAIN split = 1 .. n /\ split \in [1 .. n -> Nat] /\ n >= 2
    <2>1. 0 .. 100 \subseteq Nat
      OBVIOUS
    <2>2. DOMAIN split = 1 .. n /\ split \in [1 .. n -> 0 .. 100]
      BY <1>1, <1>2, LenProperties
    <2> QED
      BY <1>1, <1>2, <2>1, <2>2
  <1>4. Cardinality(1 .. n) = n /\ IsFiniteSet(1 .. n)
    BY IntervalSize
  <1>5. /\ order \in [1 .. n -> 1 .. n]
        /\ \A i, j \in 1 .. n : i # j => order[i] # order[j]
    BY <1>3, <1>4 DEF Orders, SetToSeqs
  <1>6. Len(order) = n
    BY <1>2, <1>5
  <1>7. \A i \in 1 .. (n - 1) : split[order[i]] >= split[order[i + 1]]
    BY <1>6 DEF Orders
  <1>8. order \in Injection(1 .. n, 1 .. n)
    BY <1>5 DEF Injection, IsInjective
  <1>9. order \in Surjection(1 .. n, 1 .. n)
    BY <1>4, <1>8, FS_Injection
  <1>10. \A k \in 1 .. n : \E i \in 1 .. n : order[i] = k
    BY <1>9 DEF Surjection
  <1>11. SortedBy(n, split, order)
    BY <1>5, <1>7, <1>10 DEF SortedBy
  <1>12. Weights(split, order) \in [1 .. n -> Nat]
    BY <1>3, <1>5 DEF Weights
  <1> QED
    BY <1>2, <1>3, <1>11, <1>12

\* bucketToVariant gives one of the experiment's variants, whatever the bucket
\* and in whichever order equal percentages come.
LEMMA VariantAssigned ==
    ASSUME NEW split \in Splits, NEW order \in Orders(split), NEW bucket
    PROVE  BucketToVariant(split, order, bucket) \in DOMAIN split
  <1>1. PICK n \in Nat : n = Len(split)
    BY OrderShape
  <1>2. /\ n >= 2 /\ n >= 1 /\ DOMAIN split = 1 .. n
        /\ Weights(split, order) \in [1 .. n -> Nat]
        /\ SortedBy(n, split, order)
    BY <1>1, OrderShape
  <1>3. Position(Weights(split, order), bucket) \in 1 .. n
    BY <1>1, <1>2, PositionFound
  <1> QED
    BY <1>2, <1>3 DEF BucketToVariant, SortedBy

\* Falling from each position to the next, percentages fall from any position
\* to any later one: else there would be a first at which they do not.
LEMMA Falling ==
    ASSUME NEW n \in Nat, NEW w \in [1 .. n -> Nat],
           \A k \in 1 .. (n - 1) : w[k] >= w[k + 1],
           NEW i \in 1 .. n, NEW j \in 1 .. n, i <= j
    PROVE  w[i] >= w[j]
  <1> DEFINE rising == {k \in 1 .. n : i <= k /\ w[k] > w[i]}
  <1>1. SUFFICES ASSUME rising # {} PROVE FALSE
    <2>1. j \notin rising
      BY <1>1
    <2> QED
      BY <2>1
  <1>2. rising \in SUBSET Nat
    OBVIOUS
  <1>3. PICK k \in rising : \A m \in rising : k <= m
    <2> HIDE DEF rising
    <2> QED
      BY <1>1, <1>2, LeastElement
  <1>4. k \in 1 .. n /\ i <= k /\ w[k] > w[i]
    BY <1>3
  <1>5. k # i
    BY <1>4
  <1>6. k - 1 \in 1 .. n /\ k - 1 \in 1 .. (n - 1) /\ i <= k - 1
    BY <1>4, <1>5
  <1>7. k - 1 \notin rising
    BY <1>3, <1>4, <1>6
  <1>8. w[k - 1] <= w[i]
    BY <1>6, <1>7
  <1>9. w[k - 1] >= w[(k - 1) + 1] /\ (k - 1) + 1 = k
    BY <1>4, <1>6
  <1> QED
    BY <1>4, <1>6, <1>8, <1>9

\* Two orders have the same percentage at each position: were the first one's
\* greater at i, its first i variants would all stand before i in the second.
LEMMA NotGreater ==
    ASSUME NEW n \in Nat, NEW f \in [1 .. n -> Nat],
           NEW o, NEW p, SortedBy(n, f, o), SortedBy(n, f, p), NEW i \in 1 .. n
    PROVE  f[o[i]] <= f[p[i]]
  <1> DEFINE v == [k \in 1 .. n |-> f[o[k]]]
             w == [k \in 1 .. n |-> f[p[k]]]
             place == [j \in 1 .. i |-> CHOOSE m \in 1 .. n : p[m] = o[j]]
  <1>1. /\ o \in [1 .. n -> 1 .. n] /\ p \in [1 .. n -> 1 .. n]
        /\ \A j, k \in 1 .. n : o[j] = o[k] => j = k
        /\ \A k \in 1 .. n : \E m \in 1 .. n : p[m] = k
    BY DEF SortedBy
  <1>2. v \in [1 .. n -> Nat] /\ w \in [1 .. n -> Nat]
    BY <1>1
  <1>3. \A k \in 1 .. n : v[k] = f[o[k]] /\ w[k] = f[p[k]]
    OBVIOUS
  <1>4. \A k \in 1 .. (n - 1) : v[k] >= v[k + 1] /\ w[k] >= w[k + 1]
    <2> HIDE DEF v, w
    <2> SUFFICES ASSUME NEW k \in 1 .. (n - 1)
                 PROVE  v[k] >= v[k + 1] /\ w[k] >= w[k + 1]
      OBVIOUS
    <2>1. k \in 1 .. n /\ k + 1 \in 1 .. n
      OBVIOUS
    <2> QED
      BY <1>3, <2>1 DEF SortedBy
  <1> HIDE DEF v, w
  <1>5. SUFFICES ASSUME v[i] > w[i] PROVE FALSE
    BY <1>2, <1>3
  <1>6. ASSUME NEW j \in 1 .. i
        PROVE  place[j] \in 1 .. (i - 1) /\ p[place[j]] = o[j]
    <2>1. j \in 1 .. n /\ j <= i
      OBVIOUS
    <2>2. o[j] \in 1 .. n
      BY <1>1, <2>1
    <2>3. place[j] \in 1 .. n /\ p[place[j]] = o[j]
      BY <1>1, <2>2
    <2> HIDE DEF place
    <2>4. PICK m \in 1 .. n : m = place[j]
      BY <2>3
    <2>5. v[j] >= v[i]
      BY <1>2, <1>4, <2>1, Falling
    <2>6. v[j] = w[m]
      BY <1>3, <2>1, <2>3, <2>4
    <2>7. ASSUME i <= m
          PROVE  w[i] >= w[m]
      BY <1>2, <1>4, <2>7, Falling
    <2>8. v[j] \in Nat /\ v[i] \in Nat /\ w[i] \in Nat
      BY <1>2, <2>1
    <2>9. m < i
      BY <1>5, <2>5, <2>6, <2>7, <2>8
    <2> QED
      BY <2>3, <2>4, <2>9
  <1>7. place \in [1 .. i -> 1 .. (i - 1)]
    BY <1>6
  <1> HIDE DEF place
  <1>8. /\ IsFiniteSet(1 .. i) /\ Cardinality(1 .. i) = i
        /\ IsFiniteSet(1 .. (i - 1)) /\ Cardinality(1 .. (i - 1)) = i - 1
    BY IntervalSize
  <1>9. Cardinality(1 .. (i - 1)) < Cardinality(1 .. i)
    BY <1>8
  <1>10. PICK j \in 1 .. i, k \in 1 .. i : j # k /\ place[j] = place[k]
    BY <1>7, <1>8, <1>9, FS_PigeonHole, Zenon
  <1>11. o[j] = o[k] /\ j \in 1 .. n /\ k \in 1 .. n
    BY <1>6, <1>10
  <1> QED
    BY <1>1, <1>10, <1>11

\* So the percentage that a bucket gets does not depend on the order of ties.
LEMMA SamePercentage ==
    ASSUME NEW split \in Splits, NEW o \in Orders(split), NEW p \in Orders(split),
           NEW bucket
    PROVE  split[BucketToVariant(split, o, bucket)] =
               split[BucketToVariant(split, p, bucket)]
  <1>0. PICK n \in Nat : n = Len(split)
    BY OrderShape
  <1>1. /\ n >= 2 /\ split \in [1 .. n -> Nat]
        /\ SortedBy(n, split, o) /\ SortedBy(n, split, p)
        /\ Weights(split, o) \in [1 .. n -> Nat]
    BY <1>0, OrderShape
  <1>2. o \in [1 .. n -> 1 .. n] /\ p \in [1 .. n -> 1 .. n]
    BY <1>1 DEF SortedBy
  <1>3. ASSUME NEW j \in 1 .. n
        PROVE  split[o[j]] = split[p[j]]
    <2>1. split[o[j]] <= split[p[j]] /\ split[p[j]] <= split[o[j]]
      BY <1>1, NotGreater
    <2>2. split[o[j]] \in Nat /\ split[p[j]] \in Nat
      BY <1>1, <1>2
    <2> QED
      BY <2>1, <2>2
  <1>4. Weights(split, o) = Weights(split, p)
    BY <1>2, <1>3 DEF Weights
  <1>5. Position(Weights(split, o), bucket) \in 1 .. n
    BY <1>1, PositionFound
  <1> QED
    BY <1>3, <1>4, <1>5 DEF BucketToVariant

\* An activation is of an experiment that exists: none is ever removed.
CallsExist == \A a \in Admins : call[a] # Idle => Exists(call[a].experiment)

\* What a node was given is what its bucket gets in some order the query may
\* return.
Assigned ==
    \A s \in served :
        \E order \in Orders(experiment[s[2]].split) :
            s[3] = BucketToVariant(experiment[s[2]].split, order,
                                   ComputeBucket(s[1], s[2]))

TypeInv == TypeOK /\ CallsExist /\ Assigned

\* The table after a step in which rows stay or one changes its status, and
\* those that were given a variant stay or one more is given one.
LEMMA RowsKept ==
    ASSUME TypeInv,
           experiment' \in [Names -> Row \cup {None}],
           call' \in [Admins -> Activating \cup {Idle}],
           \A e \in Names :
               Exists(e) => /\ experiment'[e] \in Row
                            /\ experiment'[e].split = experiment[e].split,
           \A a \in Admins :
               call'[a] # Idle => Exists(call'[a].experiment),
           served' = served
    PROVE  TypeInv'
  <1>1. \A e \in Names : Exists(e) => experiment'[e] # None
    BY DEF ExperimentsAssumption
  <1>2. TablesOK'
    BY DEF TablesOK
  <1>3. TypeOK'
    BY <1>1, <1>2 DEF TypeInv, TypeOK, Exists
  <1>4. CallsExist'
    <2> SUFFICES ASSUME NEW a \in Admins, call'[a] # Idle
                 PROVE  experiment'[call'[a].experiment] # None
      BY DEF CallsExist, Exists
    <2>1. call'[a].experiment \in Names
      BY DEF Activating
    <2> QED
      BY <1>1, <2>1
  <1>5. Assigned'
    <2> SUFFICES ASSUME NEW s \in served
                 PROVE  \E order \in Orders(experiment'[s[2]].split) :
                           s[3] = BucketToVariant(experiment'[s[2]].split, order,
                                                  ComputeBucket(s[1], s[2]))
      BY DEF Assigned, BucketToVariant, Weights, Position, Orders, ComputeBucket
    <2>1. experiment'[s[2]].split = experiment[s[2]].split
      BY DEF TypeInv, TypeOK
    <2> QED
      BY <2>1 DEF TypeInv, Assigned
  <1> QED
    BY <1>3, <1>4, <1>5 DEF TypeInv

\* Every query, update and resolution keeps the types, in any overlap.
LEMMA TypeStep == TypeInv /\ [ExperimentsNext]_experimentVars => TypeInv'
  <1> SUFFICES ASSUME TypeInv, [ExperimentsNext]_experimentVars
               PROVE  TypeInv'
    OBVIOUS
  <1>0. /\ experiment \in [Names -> Row \cup {None}]
        /\ call \in [Admins -> Activating \cup {Idle}]
        /\ \A e \in Names : Exists(e) => experiment[e] \in Row
        /\ \A a \in Admins : call[a] # Idle => Exists(call[a].experiment)
    BY DEF TypeInv, TypeOK, TablesOK, CallsExist, Exists
  <1>1. ASSUME NEW a \in Admins, NEW e \in Names, NEW t \in Templates,
               NEW split \in Splits, CreateExperiment(a, e, t, split)
        PROVE  TypeInv'
    <2> DEFINE row == [template |-> t, status |-> "draft", split |-> split]
    <2>1. row \in Row
      BY <1>1 DEF CreateExperiment, Row
    <2>2. /\ experiment' = [experiment EXCEPT ![e] = row]
          /\ ~Exists(e) /\ call' = call /\ served' = served
      BY <1>1 DEF CreateExperiment
    <2> HIDE DEF row
    <2> QED
      BY <1>0, <2>1, <2>2, RowsKept DEF Exists
  <1>2. ASSUME NEW a \in Admins, NEW e \in Names, ActivateRead(a, e)
        PROVE  TypeInv'
    <2>1. [op |-> "check", experiment |-> e] \in Activating
      BY DEF Activating
    <2>2. /\ Exists(e) /\ experiment' = experiment /\ served' = served
          /\ call' = [call EXCEPT ![a] = [op |-> "check", experiment |-> e]]
      BY <1>2 DEF ActivateRead
    <2>3. \A b \in Admins : call'[b] # Idle => Exists(call'[b].experiment)
      BY <1>0, <2>2
    <2> QED
      BY <1>0, <2>1, <2>2, <2>3, RowsKept
  <1>3. ASSUME NEW a \in Admins, ActivateCheck(a)
        PROVE  TypeInv'
    <2>1. call[a] # Idle /\ call[a].experiment \in Names
      BY <1>0, <1>3 DEF ActivateCheck, Idle, Activating
    <2>2. PICK next \in {[op |-> "commit", experiment |-> call[a].experiment], Idle} :
             call' = [call EXCEPT ![a] = next]
      BY <1>3 DEF ActivateCheck
    <2>3. next \in Activating \cup {Idle}
      BY <2>1, <2>2 DEF Activating
    <2>4. next # Idle => next.experiment = call[a].experiment
      BY <2>2
    <2>5. \A b \in Admins : call'[b] # Idle => Exists(call'[b].experiment)
      BY <1>0, <2>1, <2>2, <2>4
    <2>6. experiment' = experiment /\ served' = served
      BY <1>3 DEF ActivateCheck
    <2> QED
      BY <1>0, <2>2, <2>3, <2>5, <2>6, RowsKept
  <1>4. ASSUME NEW a \in Admins, NEW e \in Names, NEW status \in {"active", "stopped"},
               Exists(e), experiment' = [experiment EXCEPT ![e].status = status],
               call' \in {call, [call EXCEPT ![a] = Idle]}, served' = served
        PROVE  TypeInv'
    <2> DEFINE row == [experiment[e] EXCEPT !.status = status]
    <2>0. experiment[e] \in Row
      BY <1>0, <1>4
    <2>1. row \in Row /\ row.split = experiment[e].split
      BY <2>0 DEF Row
    <2>2. experiment' = [experiment EXCEPT ![e] = row]
      BY <1>4
    <2> HIDE DEF row
    <2>3. /\ call' \in [Admins -> Activating \cup {Idle}]
          /\ \A b \in Admins : call'[b] # Idle => Exists(call'[b].experiment)
      BY <1>0, <1>4
    <2> QED
      BY <1>0, <1>4, <2>1, <2>2, <2>3, RowsKept
  <1>5. ASSUME NEW a \in Admins, ActivateCommit(a)
        PROVE  TypeInv'
    <2> DEFINE e == call[a].experiment
    <2>1. call[a] # Idle /\ e \in Names /\ Exists(e)
      BY <1>0, <1>5 DEF ActivateCommit, Idle, Activating
    <2>2. /\ experiment' = [experiment EXCEPT ![e].status = "active"]
          /\ call' = [call EXCEPT ![a] = Idle] /\ served' = served
      BY <1>5 DEF ActivateCommit
    <2> QED
      BY <1>4, <2>1, <2>2
  <1>6. ASSUME NEW a \in Admins, NEW e \in Names, StopExperiment(a, e)
        PROVE  TypeInv'
    BY <1>4, <1>6 DEF StopExperiment
  <1>7. ASSUME NEW a \in Admins, Abort(a)
        PROVE  TypeInv'
    BY <1>0, <1>7, RowsKept DEF Abort
  <1>8. ASSUME NEW key \in ApiKeys, NEW t \in Templates, ResolveExperiment(key, t)
        PROVE  TypeInv'
    <2>0. PICK e \in ActiveOn(t) : \E order \in Orders(experiment[e].split) :
             served' = served \cup
                {<< key, e, BucketToVariant(experiment[e].split, order,
                                            ComputeBucket(key, e)) >>}
      BY <1>8 DEF ResolveExperiment
    <2>1. PICK order \in Orders(experiment[e].split) :
             served' = served \cup
                {<< key, e, BucketToVariant(experiment[e].split, order,
                                            ComputeBucket(key, e)) >>}
      BY <2>0
    <2>2. e \in Names /\ Exists(e) /\ experiment[e].split \in Splits
      BY <1>0 DEF ActiveOn, Row
    <2>3. BucketToVariant(experiment[e].split, order, ComputeBucket(key, e))
             \in DOMAIN experiment[e].split
      BY <2>2, VariantAssigned
    <2>4. UNCHANGED << experiment, call >>
      BY <1>8 DEF ResolveExperiment
    <2>5. TypeOK' /\ CallsExist'
      BY <2>1, <2>2, <2>3, <2>4 DEF TypeInv, TypeOK, TablesOK, CallsExist, Exists
    <2>6. Assigned'
      BY <2>1, <2>4 DEF TypeInv, Assigned
    <2> QED
      BY <2>5, <2>6 DEF TypeInv
  <1>9. CASE UNCHANGED experimentVars
    BY <1>9 DEF experimentVars, TypeInv, TypeOK, TablesOK, CallsExist, Assigned,
                Exists
  <1> QED
    BY <1>1, <1>2, <1>3, <1>5, <1>6, <1>7, <1>8, <1>9 DEF ExperimentsNext, AdminStep

\* Whatever overlaps, experiments are rows of the table, and whoever was given
\* a variant was given one that the experiment has: the running totals always
\* lead to some variant, and neither experiments nor variants are removed.
THEOREM VariantsExist == ExperimentsSpec => []TypeOK
  <1>1. ExperimentsInit => TypeInv
    BY DEF ExperimentsInit, TypeInv, TypeOK, TablesOK, CallsExist, Assigned
  <1>2. TypeInv => TypeOK
    BY DEF TypeInv
  <1> QED
    BY <1>1, <1>2, TypeStep, PTL DEF ExperimentsSpec

\* docs/architecture.md has a node always see the same variant.  What holds,
\* whatever is edited, activated and stopped in between: the variant has the
\* same percentage every time, because equal percentages are the only freedom
\* the query's order leaves.
THEOREM NodesStick == ExperimentsSpec => []StickyUpToTies
  <1>1. ASSUME TypeInv, NEW r \in served, NEW s \in served,
               r[1] = s[1], r[2] = s[2]
        PROVE  experiment[r[2]].split[r[3]] = experiment[s[2]].split[s[3]]
    <2>1. r[2] \in Names /\ Exists(r[2])
      BY <1>1 DEF TypeInv, TypeOK
    <2>2. experiment[r[2]].split \in Splits
      BY <1>1, <2>1 DEF TypeInv, TypeOK, TablesOK, Exists, Row
    <2>3. PICK o \in Orders(experiment[r[2]].split) :
             r[3] = BucketToVariant(experiment[r[2]].split, o,
                                    ComputeBucket(r[1], r[2]))
      BY <1>1 DEF TypeInv, Assigned
    <2>4. PICK p \in Orders(experiment[r[2]].split) :
             s[3] = BucketToVariant(experiment[r[2]].split, p,
                                    ComputeBucket(r[1], r[2]))
      BY <1>1 DEF TypeInv, Assigned
    <2> QED
      BY <1>1, <2>2, <2>3, <2>4, SamePercentage
  <1>2. TypeInv => StickyUpToTies
    BY <1>1 DEF StickyUpToTies
  <1>3. ExperimentsInit => TypeInv
    BY DEF ExperimentsInit, TypeInv, TypeOK, TablesOK, CallsExist, Assigned
  <1> QED
    BY <1>2, <1>3, TypeStep, PTL DEF ExperimentsSpec
------------------------------------------------------------------------------
(* Shares *)

\* A set of positions that holds 0 and with each position the next holds all.
LEMMA AllPositions ==
    ASSUME NEW n \in Nat, NEW S \in SUBSET (0 .. n), 0 \in S,
           \A i \in 0 .. (n - 1) : i \in S => i + 1 \in S
    PROVE  S = 0 .. n
  <1> DEFINE missing == (0 .. n) \ S
  <1>1. SUFFICES ASSUME missing # {} PROVE FALSE
    OBVIOUS
  <1>2. missing \in SUBSET Nat
    OBVIOUS
  <1>3. PICK k \in missing : \A m \in missing : k <= m
    <2> HIDE DEF missing
    <2> QED
      BY <1>1, <1>2, LeastElement
  <1>4. k \in 0 .. n /\ k \notin S /\ k # 0
    BY <1>3
  <1>5. k - 1 \in 0 .. (n - 1) /\ k - 1 \in 0 .. n /\ (k - 1) + 1 = k
    BY <1>4
  <1>6. k - 1 \notin missing
    BY <1>3, <1>5
  <1> QED
    BY <1>4, <1>5, <1>6

\* f are the running totals of the n numbers w.
Accumulates(n, w, f) ==
    /\ n \in Nat
    /\ w \in [1 .. n -> Nat]
    /\ f \in [0 .. n -> Nat]
    /\ f[0] = 0
    /\ \A i \in 1 .. n : f[i] = f[i - 1] + w[i]

\* Running totals of the first k numbers are extended to those of one more.
LEMMA TotalsExtend ==
    ASSUME NEW n \in Nat, NEW w \in [1 .. n -> Nat], NEW k \in 0 .. (n - 1),
           NEW f \in [0 .. k -> Nat], f[0] = 0,
           \A i \in 1 .. k : f[i] = f[i - 1] + w[i]
    PROVE  \E g \in [0 .. (k + 1) -> Nat] :
              g[0] = 0 /\ \A i \in 1 .. (k + 1) : g[i] = g[i - 1] + w[i]
  <1>1. k + 1 \in 1 .. n /\ w[k + 1] \in Nat /\ k \in 0 .. k /\ f[k] \in Nat
    OBVIOUS
  <1> DEFINE g == [i \in 0 .. (k + 1) |-> IF i = k + 1 THEN f[k] + w[k + 1]
                                          ELSE f[i]]
  <1>2. g \in [0 .. (k + 1) -> Nat]
    BY <1>1
  <1>3. g[0] = 0
    BY <1>1
  <1>4. \A i \in 1 .. (k + 1) : g[i] = g[i - 1] + w[i]
    BY <1>1
  <1> HIDE DEF g
  <1> QED
    BY <1>2, <1>3, <1>4

\* So they exist for all.
LEMMA TotalsExist ==
    ASSUME NEW n \in Nat, NEW w \in [1 .. n -> Nat]
    PROVE  \E f : Accumulates(n, w, f)
  <1> DEFINE S == {k \in 0 .. n :
                     \E f \in [0 .. k -> Nat] :
                        f[0] = 0 /\ \A i \in 1 .. k : f[i] = f[i - 1] + w[i]}
  <1>1. 0 \in S
    <2> DEFINE f == [i \in 0 .. 0 |-> 0]
    <2>1. f \in [0 .. 0 -> Nat] /\ f[0] = 0
      OBVIOUS
    <2> HIDE DEF f
    <2> QED
      BY <2>1
  <1>2. ASSUME NEW k \in 0 .. (n - 1), k \in S
        PROVE  k + 1 \in S
    <2>1. PICK f \in [0 .. k -> Nat] :
             f[0] = 0 /\ \A i \in 1 .. k : f[i] = f[i - 1] + w[i]
      BY <1>2
    <2>2. k + 1 \in 0 .. n
      BY <1>2
    <2>3. \E g \in [0 .. (k + 1) -> Nat] :
             g[0] = 0 /\ \A i \in 1 .. (k + 1) : g[i] = g[i - 1] + w[i]
      <3>1. k \in 0 .. (n - 1)
        BY <1>2
      <3> QED
        BY <2>1, <3>1, TotalsExtend
    <2> QED
      BY <2>2, <2>3
  <1>3. S \in SUBSET (0 .. n)
    OBVIOUS
  <1> HIDE DEF S
  <1>4. n \in S
    BY <1>1, <1>2, <1>3, AllPositions
  <1> QED
    BY <1>4 DEF S, Accumulates

\* RunningTotals is such a function.
LEMMA TotalsAccumulate ==
    ASSUME NEW n \in Nat, NEW w \in [1 .. n -> Nat]
    PROVE  Accumulates(n, w, RunningTotals(w))
  <1>1. Len(w) = n
    OBVIOUS
  <1> DEFINE Step(f) == [i \in 0 .. n |-> IF i = 0 THEN 0 ELSE f[i - 1] + w[i]]
  <1>2. RunningTotals(w) = CHOOSE f : f = Step(f)
    BY <1>1 DEF RunningTotals
  <1>3. PICK f : Accumulates(n, w, f)
    BY TotalsExist
  <1>4. f = Step(f)
    BY <1>3 DEF Accumulates
  <1>5. PICK g : g = RunningTotals(w) /\ g = Step(g)
    <2> HIDE DEF Step
    <2> QED
      BY <1>2, <1>4
  <1>6. \A i \in 0 .. n : g[i] = IF i = 0 THEN 0 ELSE g[i - 1] + w[i]
    BY <1>5
  <1> DEFINE S == {k \in 0 .. n : g[k] \in Nat}
  <1>7. 0 \in S
    BY <1>6
  <1>8. ASSUME NEW k \in 0 .. (n - 1), k \in S
        PROVE  k + 1 \in S
    <2>1. k + 1 \in 0 .. n /\ k + 1 # 0 /\ (k + 1) - 1 = k /\ k + 1 \in 1 .. n
      BY <1>8
    <2>2. g[k + 1] = g[k] + w[k + 1]
      BY <1>6, <2>1
    <2> QED
      BY <1>8, <2>1, <2>2
  <1>9. S \in SUBSET (0 .. n)
    OBVIOUS
  <1> HIDE DEF S
  <1>10. S = 0 .. n
    BY <1>7, <1>8, <1>9, AllPositions
  <1>11. g \in [0 .. n -> Nat]
    BY <1>5, <1>10 DEF S
  <1>12. \A i \in 1 .. n : g[i] = g[i - 1] + w[i]
    BY <1>6
  <1> QED
    BY <1>5, <1>6, <1>11, <1>12 DEF Accumulates

\* They never fall.
LEMMA TotalsRise ==
    ASSUME NEW n, NEW w, NEW f, Accumulates(n, w, f),
           NEW i \in 0 .. n, NEW j \in 0 .. n, i <= j
    PROVE  f[i] <= f[j]
  <1> DEFINE S == {k \in 0 .. n : i <= k => f[i] <= f[k]}
  <1>0. n \in Nat
    BY DEF Accumulates
  <1>1. 0 \in S
    BY DEF Accumulates
  <1>2. ASSUME NEW k \in 0 .. (n - 1), k \in S
        PROVE  k + 1 \in S
    <2>1. /\ k + 1 \in 1 .. n /\ k + 1 \in 0 .. n /\ (k + 1) - 1 = k
          /\ k \in 0 .. n
      BY <1>0, <1>2
    <2>2. /\ f[k + 1] = f[k] + w[k + 1] /\ w[k + 1] \in Nat
          /\ f[k] \in Nat /\ f[i] \in Nat /\ f[k + 1] \in Nat
      BY <2>1 DEF Accumulates
    <2>3. CASE i <= k
      BY <1>2, <2>1, <2>2, <2>3
    <2>4. CASE ~(i <= k)
      BY <1>0, <1>2, <2>1, <2>2, <2>4
    <2> QED
      BY <2>3, <2>4
  <1>3. S \in SUBSET (0 .. n)
    OBVIOUS
  <1> HIDE DEF S
  <1>4. S = 0 .. n
    BY <1>0, <1>1, <1>2, <1>3, AllPositions
  <1> QED
    BY <1>4 DEF S

\* The numbers of a list, each as so many points.
Points(n, w) == {d \in (1 .. n) \X Nat : d[2] < w[d[1]]}

\* The first m numbers are m.
LEMMA InitialSize ==
    ASSUME NEW m \in Nat
    PROVE  IsFiniteSet(0 .. (m - 1)) /\ Cardinality(0 .. (m - 1)) = m
  BY FS_Interval

\* f maps S onto T, one to one.
Matches(f, S, T) ==
    /\ f \in [S -> T]
    /\ \A x, y \in S : f[x] = f[y] => x = y
    /\ \A z \in T : \E x \in S : f[x] = z

\* Sets that match are of one size.
LEMMA SameSize ==
    ASSUME NEW S, NEW T, NEW f, Matches(f, S, T), IsFiniteSet(S)
    PROVE  IsFiniteSet(T) /\ Cardinality(T) = Cardinality(S)
  <1>1. f \in Bijection(S, T)
    BY DEF Matches, Bijection, Injection, Surjection, IsInjective
  <1>2. ExistsBijection(S, T)
    BY <1>1 DEF ExistsBijection
  <1> QED
    BY <1>2, FS_Bijection

\* The points of one number.
LEMMA ColumnSize ==
    ASSUME NEW n \in Nat, NEW w \in [1 .. n -> Nat], NEW k \in 1 .. n,
           NEW column, column = {d \in Points(n, w) : d[1] = k}
    PROVE  IsFiniteSet(column) /\ Cardinality(column) = w[k]
  <1> DEFINE rows == 0 .. (w[k] - 1)
             f == [r \in rows |-> << k, r >>]
  <1>1. w[k] \in Nat
    OBVIOUS
  <1>2. IsFiniteSet(rows) /\ Cardinality(rows) = w[k]
    BY <1>1, InitialSize
  <1>3. \A r \in rows : f[r] \in column
    BY <1>1 DEF Points
  <1>4. \A d \in column : d[2] \in rows /\ f[d[2]] = d
    BY <1>1 DEF Points
  <1>5. \A r, s \in rows : f[r] = f[s] => r = s
    OBVIOUS
  <1>6. f \in [rows -> column]
    BY <1>3
  <1> HIDE DEF rows, f
  <1>7. \A d \in column : \E r \in rows : f[r] = d
    BY <1>4
  <1>8. Matches(f, rows, column)
    BY <1>5, <1>6, <1>7 DEF Matches
  <1>9. IsFiniteSet(column) /\ Cardinality(column) = Cardinality(rows)
    BY <1>2, <1>8, SameSize
  <1> QED
    BY <1>2, <1>9

\* Disjoint finite sets add up.
LEMMA Disjoint ==
    ASSUME NEW A, NEW B, IsFiniteSet(A), IsFiniteSet(B), A \cap B = {}
    PROVE  /\ IsFiniteSet(A \cup B)
           /\ Cardinality(A \cup B) = Cardinality(A) + Cardinality(B)
  <1>1. Cardinality(A) \in Nat /\ Cardinality(B) \in Nat
    BY FS_CardinalityType
  <1>2. Cardinality(A \cap B) = 0
    BY FS_EmptySet
  <1>3. /\ IsFiniteSet(A \cup B)
        /\ Cardinality(A \cup B) =
              Cardinality(A) + Cardinality(B) - Cardinality(A \cap B)
    BY FS_Union
  <1> QED
    BY <1>1, <1>2, <1>3

\* The last running total counts the points.
LEMMA TotalCounts ==
    ASSUME NEW n, NEW w, NEW f, Accumulates(n, w, f)
    PROVE  IsFiniteSet(Points(n, w)) /\ Cardinality(Points(n, w)) = f[n]
  <1> DEFINE upTo(k) == {d \in Points(n, w) : d[1] <= k}
             S == {k \in 0 .. n : /\ IsFiniteSet(upTo(k))
                                  /\ Cardinality(upTo(k)) = f[k]}
  <1>0. n \in Nat /\ w \in [1 .. n -> Nat]
    BY DEF Accumulates
  <1>1. 0 \in S
    <2>1. upTo(0) = {}
      BY <1>0 DEF Points
    <2>2. IsFiniteSet({}) /\ Cardinality({}) = 0
      BY FS_EmptySet
    <2>3. 0 \in 0 .. n /\ f[0] = 0
      BY DEF Accumulates
    <2> HIDE DEF upTo
    <2> QED
      BY <2>1, <2>2, <2>3
  <1>2. ASSUME NEW k \in 0 .. (n - 1), k \in S
        PROVE  k + 1 \in S
    <2> DEFINE A == upTo(k)
               B == {d \in Points(n, w) : d[1] = k + 1}
    <2>1. k + 1 \in 1 .. n /\ k + 1 \in 0 .. n /\ (k + 1) - 1 = k /\ k \in 0 .. n
      BY <1>0, <1>2
    <2>2. upTo(k + 1) = A \cup B
      BY <1>0, <2>1 DEF Points
    <2>3. A \cap B = {}
      BY <1>0, <2>1 DEF Points
    <2>4. IsFiniteSet(B) /\ Cardinality(B) = w[k + 1]
      <3>1. PICK m \in 1 .. n : m = k + 1
        BY <2>1
      <3>2. /\ IsFiniteSet({d \in Points(n, w) : d[1] = m})
            /\ Cardinality({d \in Points(n, w) : d[1] = m}) = w[m]
        BY <1>0, ColumnSize
      <3> QED
        BY <3>1, <3>2
    <2>5. IsFiniteSet(A) /\ Cardinality(A) = f[k]
      BY <1>2
    <2>6. f[k + 1] = f[k] + w[k + 1]
      BY <2>1 DEF Accumulates
    <2>7. IsFiniteSet(A \cup B) /\ Cardinality(A \cup B) = Cardinality(A) + Cardinality(B)
      <3> HIDE DEF A, B
      <3> QED
        BY <2>3, <2>4, <2>5, Disjoint
    <2> HIDE DEF A, B, upTo
    <2>8. IsFiniteSet(upTo(k + 1)) /\ Cardinality(upTo(k + 1)) = f[k + 1]
      BY <2>2, <2>4, <2>5, <2>6, <2>7
    <2> QED
      BY <2>1, <2>8
  <1>3. S \in SUBSET (0 .. n)
    OBVIOUS
  <1>4. upTo(n) = Points(n, w)
    BY <1>0 DEF Points
  <1> HIDE DEF S
  <1>5. n \in S
    BY <1>0, <1>1, <1>2, <1>3, AllPositions
  <1> QED
    BY <1>4, <1>5 DEF S

\* v are the n numbers w in another order.
Reordered(n, w, order, v) ==
    /\ n \in Nat
    /\ w \in [1 .. n -> Nat]
    /\ v \in [1 .. n -> Nat]
    /\ Matches(order, 1 .. n, 1 .. n)
    /\ \A i \in 1 .. n : v[i] = w[order[i]]

\* The same numbers in another order have as many points.
LEMMA PointsMove ==
    ASSUME NEW n, NEW w, NEW order, NEW v, Reordered(n, w, order, v),
           IsFiniteSet(Points(n, v))
    PROVE  Cardinality(Points(n, w)) = Cardinality(Points(n, v))
  <1> DEFINE P == Points(n, v)
             Q == Points(n, w)
             h == [d \in P |-> << order[d[1]], d[2] >>]
  <1>1. /\ n \in Nat /\ w \in [1 .. n -> Nat] /\ v \in [1 .. n -> Nat]
        /\ order \in [1 .. n -> 1 .. n]
        /\ \A i, j \in 1 .. n : order[i] = order[j] => i = j
        /\ \A k \in 1 .. n : \E i \in 1 .. n : order[i] = k
        /\ \A i \in 1 .. n : v[i] = w[order[i]]
    BY DEF Reordered, Matches
  <1>2. \A d \in P : /\ d[1] \in 1 .. n /\ d[2] \in Nat
                     /\ d = << d[1], d[2] >> /\ d[2] < w[order[d[1]]]
    BY <1>1 DEF Points
  <1>3. \A d \in P : h[d] \in Q
    BY <1>1, <1>2 DEF Points
  <1>4. ASSUME NEW d \in P, NEW e \in P, h[d] = h[e]
        PROVE  d = e
    <2>1. << order[d[1]], d[2] >> = << order[e[1]], e[2] >>
      BY <1>4
    <2>2. order[d[1]] = order[e[1]] /\ d[2] = e[2]
      BY <2>1
    <2>3. d[1] = e[1]
      BY <1>1, <1>2, <2>2
    <2>4. d = << d[1], d[2] >> /\ e = << e[1], e[2] >>
      BY <1>2
    <2> QED
      BY <2>2, <2>3, <2>4
  <1>5. ASSUME NEW e \in Q
        PROVE  \E d \in P : h[d] = e
    <2>1. /\ e[1] \in 1 .. n /\ e[2] \in Nat
          /\ e = << e[1], e[2] >> /\ e[2] < w[e[1]]
      BY DEF Points
    <2>2. PICK i \in 1 .. n : order[i] = e[1]
      BY <1>1, <2>1
    <2>3. << i, e[2] >> \in P
      BY <1>1, <2>1, <2>2 DEF Points
    <2>4. h[<< i, e[2] >>] = e
      BY <2>1, <2>2, <2>3
    <2> QED
      BY <2>3, <2>4
  <1>6. h \in [P -> Q]
    BY <1>3
  <1>7. IsFiniteSet(P)
    OBVIOUS
  <1> HIDE DEF P, Q, h
  <1>8. Matches(h, P, Q)
    BY <1>4, <1>5, <1>6 DEF Matches
  <1>9. Cardinality(Q) = Cardinality(P)
    BY <1>7, <1>8, SameSize
  <1> QED
    BY <1>9 DEF P, Q

\* The position that a bucket gets is the one whose running total first exceeds
\* it.
LEMMA PositionOf ==
    ASSUME NEW n, NEW w, Accumulates(n, w, RunningTotals(w)), n >= 1,
           NEW k \in 1 .. n, NEW b \in Nat, b < RunningTotals(w)[n]
    PROVE  Position(w, b) = k <=>
               RunningTotals(w)[k - 1] <= b /\ b < RunningTotals(w)[k]
  <1>0. PICK f : f = RunningTotals(w)
    OBVIOUS
  <1> DEFINE reached == {i \in 1 .. n : b < f[i]}
             p == CHOOSE i \in reached : \A j \in reached : i <= j
  <1>1. /\ n \in Nat /\ w \in [1 .. n -> Nat]
        /\ f \in [0 .. n -> Nat] /\ f[0] = 0 /\ Accumulates(n, w, f)
    BY <1>0 DEF Accumulates
  <1>2. DOMAIN w = 1 .. n
    BY <1>1
  <1>3. reached # {} /\ reached \in SUBSET Nat
    <2>1. n \in 1 .. n /\ b < f[n]
      BY <1>0, <1>1
    <2>2. n \in reached
      BY <2>1
    <2>3. reached \in SUBSET Nat
      OBVIOUS
    <2> HIDE DEF reached
    <2> QED
      BY <2>2, <2>3
  <1>4. Position(w, b) = p
    BY <1>0, <1>2, <1>3 DEF Position
  <1>5. p \in reached /\ \A j \in reached : p <= j
    <2> HIDE DEF reached
    <2> QED
      BY <1>3, LeastElement
  <1>6. PICK m \in 1 .. n : m = p /\ b < f[m] /\ \A j \in 1 .. n : b < f[j] => m <= j
    BY <1>5
  <1> HIDE DEF p, reached
  <1>7. /\ \A i \in 0 .. n : f[i] \in Nat
        /\ k \in 0 .. n /\ k - 1 \in 0 .. n /\ m \in 0 .. n
    BY <1>1
  <1>8. ASSUME m = k
        PROVE  f[k - 1] <= b /\ b < f[k]
    <2>1. CASE k = 1
      BY <1>1, <1>6, <1>8, <2>1
    <2>2. CASE k # 1
      <3>1. k - 1 \in 1 .. n /\ ~(m <= k - 1)
        BY <1>1, <1>8, <2>2
      <3>2. ~(b < f[k - 1])
        BY <1>6, <3>1
      <3> QED
        BY <1>6, <1>7, <1>8, <3>2
    <2> QED
      BY <2>1, <2>2
  <1>9. ASSUME f[k - 1] <= b, b < f[k]
        PROVE  m = k
    <2>1. m <= k
      BY <1>6, <1>9
    <2>2. ASSUME m <= k - 1
          PROVE  f[m] <= f[k - 1]
      BY <1>1, <1>7, <2>2, TotalsRise
    <2>3. ~(m <= k - 1)
      BY <1>6, <1>7, <1>9, <2>2
    <2> QED
      BY <1>1, <2>1, <2>3
  <1> QED
    BY <1>0, <1>4, <1>6, <1>8, <1>9

\* A list of percentages that add up to 100, in an order that the query may
\* return: its running totals end at 100 in that order as well.
LEMMA OrderedTotals ==
    ASSUME NEW split \in Splits, Total(split) = 100,
           NEW order \in Orders(split), NEW n, n = Len(split),
           NEW v, v = Weights(split, order)
    PROVE  Accumulates(n, v, RunningTotals(v)) /\ RunningTotals(v)[n] = 100
  <1>1. /\ n \in Nat /\ split \in [1 .. n -> Nat]
        /\ SortedBy(n, split, order) /\ v \in [1 .. n -> Nat]
    BY OrderShape
  <1>2. /\ order \in [1 .. n -> 1 .. n]
        /\ \A j, k \in 1 .. n : order[j] = order[k] => j = k
        /\ \A k \in 1 .. n : \E j \in 1 .. n : order[j] = k
    BY <1>1 DEF SortedBy
  <1>3. \A j \in 1 .. n : v[j] = split[order[j]]
    BY <1>2 DEF Weights
  <1>4. /\ Accumulates(n, split, RunningTotals(split))
        /\ Accumulates(n, v, RunningTotals(v))
    BY <1>1, TotalsAccumulate
  <1>5. /\ Cardinality(Points(n, split)) = RunningTotals(split)[n]
        /\ Cardinality(Points(n, v)) = RunningTotals(v)[n]
        /\ IsFiniteSet(Points(n, v))
    BY <1>4, TotalCounts
  <1>6. Reordered(n, split, order, v)
    BY <1>1, <1>2, <1>3 DEF Reordered, Matches
  <1>7. Cardinality(Points(n, split)) = Cardinality(Points(n, v))
    BY <1>5, <1>6, PointsMove
  <1> QED
    BY <1>4, <1>5, <1>7 DEF Total

\* Each variant gets as many buckets as it has percents.
LEMMA ShareExact ==
    ASSUME NEW split \in Splits, Total(split) = 100,
           NEW order \in Orders(split), NEW i \in DOMAIN split
    PROVE  Cardinality({b \in 0 .. 99 :
                           BucketToVariant(split, order, b) = i}) = split[i]
  <1>1. PICK n, v : n = Len(split) /\ v = Weights(split, order)
    OBVIOUS
  <1>2. /\ n \in Nat /\ n >= 1 /\ DOMAIN split = 1 .. n
        /\ split \in [1 .. n -> Nat] /\ SortedBy(n, split, order)
        /\ v \in [1 .. n -> Nat]
    BY <1>1, OrderShape
  <1>3. PICK g : g = RunningTotals(v)
    OBVIOUS
  <1>4. Accumulates(n, v, g) /\ g[n] = 100
    BY <1>1, <1>3, OrderedTotals
  <1>5. PICK k \in 1 .. n : order[k] = i
    BY <1>2 DEF SortedBy
  <1>6. v[k] = split[i]
    BY <1>1, <1>2, <1>5 DEF SortedBy, Weights
  <1>7. /\ g[k] = g[k - 1] + v[k]
        /\ g[k - 1] \in Nat /\ g[k] \in Nat
        /\ k \in 0 .. n /\ n \in 0 .. n
    <2>1. k \in 0 .. n /\ n \in 0 .. n /\ k - 1 \in 0 .. n
      BY <1>2
    <2>2. g \in [0 .. n -> Nat] /\ g[k] = g[k - 1] + v[k]
      BY <1>4 DEF Accumulates
    <2>3. g[k - 1] \in Nat /\ g[k] \in Nat
      BY <2>1, <2>2
    <2> QED
      BY <2>1, <2>2, <2>3
  <1>8. g[k] <= 100
    <2>1. k <= n
      BY <1>2
    <2> QED
      BY <1>4, <1>7, <2>1, TotalsRise
  <1>9. ASSUME NEW b \in 0 .. 99
        PROVE  BucketToVariant(split, order, b) = i <=> g[k - 1] <= b /\ b < g[k]
    <2>1. Position(v, b) \in 1 .. n
      BY <1>2, PositionFound
    <2>2. b \in Nat /\ b < g[n]
      BY <1>4
    <2>3. Position(v, b) = k <=> g[k - 1] <= b /\ b < g[k]
      <3>1. Accumulates(n, v, RunningTotals(v)) /\ b < RunningTotals(v)[n]
        BY <1>3, <1>4, <2>2
      <3>2. Position(v, b) = k <=>
               RunningTotals(v)[k - 1] <= b /\ b < RunningTotals(v)[k]
        <4>1. n >= 1 /\ k \in 1 .. n /\ b \in Nat
          BY <1>2, <2>2
        <4> QED
          BY ONLY <3>1, <4>1, PositionOf
      <3> QED
        BY <1>3, <3>2
    <2>4. BucketToVariant(split, order, b) = order[Position(v, b)]
      BY <1>1 DEF BucketToVariant
    <2>5. order[Position(v, b)] = i <=> Position(v, b) = k
      BY <1>2, <1>5, <2>1 DEF SortedBy
    <2> QED
      BY <2>3, <2>4, <2>5
  <1>10. {b \in 0 .. 99 : BucketToVariant(split, order, b) = i} =
             {b \in 0 .. 99 : g[k - 1] <= b /\ b < g[k]}
    <2>1. \A b \in 0 .. 99 : BucketToVariant(split, order, b) = i <=>
                                 g[k - 1] <= b /\ b < g[k]
      BY <1>9
    <2> QED
      BY ONLY <2>1, Zenon
  <1>11. {b \in 0 .. 99 : g[k - 1] <= b /\ b < g[k]} = g[k - 1] .. (g[k] - 1)
    <2>1. PICK x, y : x = g[k - 1] /\ y = g[k]
      OBVIOUS
    <2>2. x \in Nat /\ y \in Nat /\ y <= 100
      BY <1>7, <1>8, <2>1
    <2>3. {b \in 0 .. 99 : x <= b /\ b < y} = x .. (y - 1)
      <3>1. \A b \in 0 .. 99 : x <= b /\ b < y => b \in x .. (y - 1)
        BY <2>2
      <3>2. \A b \in x .. (y - 1) : b \in 0 .. 99 /\ x <= b /\ b < y
        BY <2>2
      <3> QED
        BY ONLY <3>1, <3>2, Zenon
    <2> QED
      BY <2>1, <2>3
  <1>12. Cardinality(g[k - 1] .. (g[k] - 1)) = v[k]
    <2>1. v[k] \in Nat
      BY <1>2
    <2>2. Cardinality(g[k - 1] .. (g[k] - 1)) =
              IF g[k - 1] > g[k] - 1 THEN 0 ELSE (g[k] - 1) - g[k - 1] + 1
      <3>1. PICK x, y : x = g[k - 1] /\ y = g[k] - 1
        OBVIOUS
      <3>2. x \in Int /\ y \in Int
        BY <1>7, <3>1
      <3>3. Cardinality(x .. y) = IF x > y THEN 0 ELSE y - x + 1
        BY <3>2, FS_Interval
      <3> QED
        BY <3>1, <3>3
    <2> QED
      BY <1>7, <2>1, <2>2
  <1> QED
    BY <1>6, <1>10, <1>11, <1>12

\* Every variant of every experiment gets exactly the share of the buckets that
\* it was given, whatever overlaps and in whichever order the database returns
\* equal percentages.
THEOREM SharesAreExact == ExperimentsSpec => []SharesExact
  <1>1. TypeInv => SharesExact
    <2>1. ASSUME TypeInv, NEW e \in Names, Exists(e)
          PROVE  experiment[e].split \in Splits /\ Total(experiment[e].split) = 100
      BY <2>1 DEF TypeInv, TypeOK, TablesOK, Exists, Row
    <2> QED
      BY <2>1, ShareExact DEF SharesExact
  <1>2. ExperimentsInit => TypeInv
    BY DEF ExperimentsInit, TypeInv, TypeOK, TablesOK, CallsExist, Assigned
  <1> QED
    BY <1>1, <1>2, TypeStep, PTL DEF ExperimentsSpec
==============================================================================
