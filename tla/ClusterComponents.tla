-------------------------- MODULE ClusterComponents --------------------------
(***************************************************************************)
(* The legacy ComponentTransformer of the cluster controller               *)
(* (controllers/apps/transformer_component.go).  On a spec pass it decides *)
(* which components to create, update and delete by comparing the         *)
(* component names of the Cluster's spec with the keys of                  *)
(* Cluster.status.components; on a status pass it asks every component of  *)
(* the spec for its status, collapsing delayed-requeue errors into the     *)
(* first one.  The keys of status.components are written by the status    *)
(* passes and by the component controller's status transformer, and       *)
(* nothing ever removes one.                                               *)
(***************************************************************************)
EXTENDS Naturals, Sequences, Functions

CONSTANTS
    CompOrder,   \* the component names, in the order of spec.componentSpecs
    DefComps,    \* the componentDefs of the ClusterDefinition
    MaxGen,      \* bound on the Cluster's generation (user edits)
    MaxFaults,   \* bound on failing passes
    MaxEnvSteps  \* bound on environment events

COMP == Range(CompOrder)

ASSUME ConstantsAssumption ==
    /\ \A i, j \in 1..Len(CompOrder) : CompOrder[i] = CompOrder[j] => i = j
    /\ DefComps \subseteq COMP
    /\ MaxGen \in Nat \ {0}
    /\ MaxFaults \in Nat
    /\ MaxEnvSteps \in Nat

VARIABLES
    specNil,   \* spec.componentSpecs is unset (nil), not an empty list
    spec,      \* the names of spec.componentSpecs
    gen,       \* metadata.generation of the Cluster
    obsGen,    \* status.observedGeneration of the Cluster
    objs,      \* the components whose objects exist
    keys,      \* the keys of Cluster.status.components
    delayed,   \* the components whose Status returns a delayed-requeue error
    pending,   \* a reconcile of the Cluster is queued
    faults,
    envSteps

vars == <<specNil, spec, gen, obsGen, objs, keys, delayed, pending, faults, envSteps>>

\* cluster.IsStatusUpdating: the current generation has been observed
IsStatusUpdating == gen = obsGen

\* compProto: the spec's names, or the ClusterDefinition's when spec is nil
CompProto == IF specNil THEN DefComps ELSE spec

\* the loop over cluster.Spec.ComponentSpecs, in their order
SpecList == SelectSeq(CompOrder, LAMBDA c : ~specNil /\ c \in spec)

\* the components that loop visits
SpecSet == IF specNil THEN {} ELSE spec

-----------------------------------------------------------------------------

Init ==
    /\ specNil \in BOOLEAN
    /\ spec \in IF specNil THEN {{}} ELSE SUBSET COMP
    /\ gen = 1 /\ obsGen = 0
    /\ objs = {} /\ keys = {}
    /\ delayed \in SUBSET COMP
    /\ pending = TRUE
    /\ faults = 0 /\ envSteps = 0

\* Mutant: observedGeneration recorded one past the generation acted on.
SpecPassObsGenOffByOne ==
    /\ pending /\ ~IsStatusUpdating
    /\ LET createSet == CompProto \ keys
           deleteSet == keys \ CompProto
       IN  objs' = (objs \cup createSet) \ deleteSet
    /\ obsGen' = gen + 1
    /\ UNCHANGED <<specNil, spec, gen, keys, delayed, pending, faults, envSteps>>

\* transform4SpecUpdate: create what has no status entry, delete the status
\* entries that left the spec, update the rest.  The cluster plan that
\* records observedGeneration writes the Cluster's status, whose event
\* queues the next pass.
SpecPass ==
    /\ pending /\ ~IsStatusUpdating
    /\ LET createSet == CompProto \ keys
           deleteSet == keys \ CompProto
       IN  objs' = (objs \cup createSet) \ deleteSet
    /\ obsGen' = gen
    /\ UNCHANGED <<specNil, spec, gen, keys, delayed, pending, faults, envSteps>>

\* Mutant: a delayed-requeue error returned at once, like any other error:
\* the components after it in the spec get no status.
StatusPassStopAtDelayed ==
    /\ pending /\ IsStatusUpdating
    /\ LET L == SpecList
           stop == {i \in 1..Len(L) : L[i] \in delayed}
           n == IF stop = {} THEN Len(L)
                ELSE (CHOOSE i \in stop : \A j \in stop : i <= j) - 1
       IN  keys' = keys \cup {L[i] : i \in 1..n}
    /\ pending' = (Range(SpecList) \cap delayed # {})
    /\ UNCHANGED <<specNil, spec, gen, obsGen, objs, delayed, faults, envSteps>>

\* transform4StatusUpdate: every component of the spec records its status
\* in Cluster.status.components; a delayed-requeue error is remembered (the
\* first one) and the loop goes on; Transform merges every sub-DAG and the
\* pass requeues after the delay.
StatusPass ==
    /\ pending /\ IsStatusUpdating
    /\ keys' = keys \cup SpecSet
    /\ pending' = (SpecSet \cap delayed # {})
    /\ UNCHANGED <<specNil, spec, gen, obsGen, objs, delayed, faults, envSteps>>

\* NewComponent, Create, Delete, Update or Status fails with an error that
\* is not a delayed requeue: Transform returns before merging any sub-DAG.
PassError ==
    /\ pending /\ faults < MaxFaults
    /\ faults' = faults + 1
    /\ UNCHANGED <<specNil, spec, gen, obsGen, objs, keys, delayed, pending, envSteps>>

-----------------------------------------------------------------------------
(* Environment.                                                            *)

EnvStep == envSteps < MaxEnvSteps /\ envSteps' = envSteps + 1

\* the user edits spec.componentSpecs: a new generation
UserEditSpec ==
    /\ gen < MaxGen
    /\ \E n \in BOOLEAN, s \in SUBSET COMP :
          /\ n => s = {}
          /\ <<n, s>> # <<specNil, spec>>
          /\ specNil' = n /\ spec' = s
    /\ gen' = gen + 1 /\ pending' = TRUE
    /\ UNCHANGED <<obsGen, objs, keys, delayed, faults, envSteps>>

\* the component controller's status transformer records a live component
\* in Cluster.status.components (setClusterStatusPhase, getClusterComponentStatus)
ComponentStatusWrite(c) ==
    /\ c \in objs \ keys
    /\ keys' = keys \cup {c}
    /\ pending' = TRUE
    /\ EnvStep
    /\ UNCHANGED <<specNil, spec, gen, obsGen, objs, delayed, faults>>

\* what a component waits on (a data clone, a backup) starts or ends
DelayChange(c) ==
    /\ delayed' = (delayed \ {c}) \cup ({c} \ delayed)
    /\ EnvStep
    /\ UNCHANGED <<specNil, spec, gen, obsGen, objs, keys, pending, faults>>

Next ==
    \/ SpecPass \/ StatusPass \/ PassError
    \/ UserEditSpec
    \/ \E c \in COMP : ComponentStatusWrite(c) \/ DelayChange(c)

\* The work queue takes every queued or delay-requeued request.
Fairness == WF_vars(SpecPass) /\ WF_vars(StatusPass)

Spec == Init /\ [][Next]_vars /\ Fairness

-----------------------------------------------------------------------------
(* Properties.                                                             *)

TypeOK ==
    /\ specNil \in BOOLEAN /\ spec \subseteq COMP
    /\ gen \in 1..MaxGen /\ obsGen \in 0..MaxGen
    /\ objs \subseteq COMP /\ keys \subseteq COMP /\ delayed \subseteq COMP
    /\ pending \in BOOLEAN
    /\ faults \in 0..MaxFaults /\ envSteps \in 0..MaxEnvSteps

\* Once the spec stops changing, every component the spec lists gets its
\* entry in Cluster.status.components, even while another component keeps
\* returning a delayed-requeue error from its status pass.
SpecComponentsEventuallyRecorded ==
    <>[](spec \subseteq keys)

\* When no pass is queued and the current spec has been acted on, the
\* objects of every component left in the cluster belong to a component of
\* the spec: a component removed from the spec is deleted.
NoOrphanComponents ==
    (~pending /\ IsStatusUpdating) => objs \subseteq CompProto

=============================================================================
