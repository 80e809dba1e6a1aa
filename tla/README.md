# Formal models of the KubeBlocks component controller

This directory holds TLA+ models of the KubeBlocks component controller
(`src/controllers/apps`), TLC configurations that check them on small
instances, and TLAPS proofs of their invariants.  `PROJECT.json` lists every
component, run, mutant, mapped definition, finding, hazard and theorem;
this file explains them.

## The system

A `Component` object is reconciled by `componentPlanBuilder`
(`component_plan_builder.go`):

* **Init** reads the Component and keeps a pristine copy (`ComponentOrig`).
* **Build** runs a chain of transformers over a fresh DAG.  The transformers
  are meta/assure-meta (finalizer, labels), ownership, workload, PDB, cluster
  service, account and status.  Each one adds CREATE, UPDATE, DELETE or
  STATUS vertices for the objects it wants written.  Build reads from the
  informer cache and writes nothing.
* **Execute** walks the DAG in reverse topological order and calls
  `componentWalkFunc` for each vertex.  The first error aborts the walk.
  controller-runtime requeues a reconcile that returned an error.  Each write
  that lands is a watch event that queues another reconcile.

The **status transformer** (`transformer_component_status.go`) is the last
transformer in the chain.  It works as follows:

* It lists the workloads (RSMs) the component owns.  More than one is an
  error; none leaves `runningRSM` nil.
* If `Component.metadata.generation` has moved past
  `status.observedGeneration`, it records only the new observedGeneration.
* Otherwise it evaluates these signals:
  * deleting;
  * zero replicas;
  * pods exist;
  * RSM running;
  * configuration synced;
  * failed pod, with the pod-failure and role-probe timeouts;
  * scale-out failed;
  * volume expansion running;
  * available.
* The signals pick one of eight phases in a priority switch.  The phase and
  the `podsReady` flag are mirrored into
  `Cluster.status.components[name]`.
* It stages two STATUS vertices: one for the Component, one for the Cluster.

The Cluster object is written by the cluster controller as well.  Both
controllers rely on resource-version conflicts to avoid lost updates.

## Inventory

| Component | Sources | Module | Status |
|---|---|---|---|
| Status transformer | `controllers/apps/transformer_component_status.go`, `apis/apps/v1alpha1/component_types.go` | `ComponentStatus` | partly |
| Plan builder / executor | `controllers/apps/component_plan_builder.go` | `ComponentPlan` (CREATE, UPDATE, DELETE walk), `ComponentStatus` (STATUS vertices) | modelled |
| Account transformer | `transformer_component_account.go` | `ComponentPlan` | modelled |
| Meta, assure-meta, ownership, PDB, cluster-service transformers | `transformer_component_*.go`, `transformer_cluster_service.go` | `ComponentPlan`, `CompDefController` | partly |
| Legacy component transformer | `transformer_component.go` | `ClusterComponents` | modelled |
| Legacy component builder | `internal/controller/lifecycle/transformer_component_builder.go` | none | object construction only |
| Configuration pipeline | `internal/controller/plan/pipeline.go`, `pkg/controller/plan/prepare.go` | `ConfigPipeline` | partly |
| ComponentDefinition controller | `componentdefinition_controller.go` | `CompDefController`, `CmpdLifecycle` (abstract) | modelled |
| 0.7 upgrade handler (CLI) | `pkg/cli/util/breakingchange/upgradehandlerto0.7.go` | `UpgradeTo07` | modelled |
| Workload builder | `controllers/apps/components/workload_builder.go` | none | object construction only |
| ComponentDefinition convertor, lorry utils, component builder | `pkg/controller/component/*`, `pkg/controller/builder/*` | none | pure conversion |
| WeSQL role probe | `cmd/probe/internal/component/mysql/wesql_manager.go` | none | SQL I/O; enters the model as a pod's role label |
| RSM constants | `internal/controller/rsm/types.go` | none | declarations only |
| Generated clients, listers, mocks, deep-copy, log bridge | various | none | generated code |

Every module is checked through an `MC` module that gives its constants
model values (`MCComponentStatus`, `MCComponentPlan`, `MCUpgradeTo07`,
`MCClusterComponents`, `MCCompDefController`, `MCConfigPipeline`).  The
proofs are in `ComponentStatusProofs`, `ComponentPlanProofs`,
`UpgradeTo07Proofs`, `ClusterComponentsProofs` and
`CompDefControllerProofs`.  Every safety invariant of a passing run has a
theorem that proves it for all values of the constants.

## `ComponentStatus`: the status transformer inside the reconcile loop

### State

| Variable | Code |
|---|---|
| `comp` | The stored Component: generation, replicas, deletion mark, resourceVersion, `status.phase`, `status.message` (the set of pods with a message), `status.observedGeneration`. |
| `cluster` | The stored Cluster's `status.components[name]`: phase, message, `podsReady` (`"nil"` before the first write), plus resourceVersion. |
| `rsm` | What `ListRSMOwnedByComponent` returns: a count (0, 1, or more than one), deletion mark, `spec.replicas`, whether it is ready, and whether its pods are on the latest revision. |
| `pods` | Per pod: exists; failure (`none`, `failing`, `timedOut`, the result of `isPodFailedAndTimedOut`); readiness (`no`, `fresh`, or `aged` past the role-probe timeout); role label. |
| `world` | Configuration synced, volume expansion running, data-clone backup failed. |
| `pending` | A reconcile request is queued. |
| `plan` | The plan Build staged: the two status objects and the resourceVersions they were read at. |
| `panicked` | A pass crashed. |
| `envSteps`, `faults` | Bounds on environment events and on transient failures. |

### Actions

* **`Build`** is `Transform`.  It has one disjunct per branch:
  * the fast return for a deleting component;
  * the more-than-one-workload error;
  * the observedGeneration branch;
  * the status branch with a nil workload, which panics in
    `updateClusterMembersStatus`;
  * the status branch with one workload.
* The status branch is built from these helpers:
  * `ComputedPhase` is the switch of `reconcileComponentPhase`, over the
    signal operators (`IsDeleting`, `IsZeroReplica`, `HasFailedPod`,
    `IsComponentAvailable`, and the rest).
  * `SetComponentStatusPhase` changes the phase and merges messages only when
    the phase changes.
  * `SyncComponentStatusToCluster` is built from `ClusterPhaseOf`,
    `SetClusterStatusPhase` and `UpdatePodsReady`.
* **`BuildReadError`** is any failing read or patch of a pass: the listing,
  the configuration get, or the pod annotation or label patches.
* **`Execute`** is the walk over the two STATUS vertices, in either order.
  * A write whose resourceVersion moved since Build conflicts and aborts the
    rest of the walk.
  * A transient error also aborts the rest.
  * `WriteComp` and `WriteCluster` bump the resourceVersion only when
    something changed, as the API server does.
  * `Requeue`: an error requeues the request.  A changed Component comes
    back through the watch.
* **Environment** actions:
  * pod create, delete, fail, ready and role change;
  * `PodAge`: time passes for one pod;
  * workload change;
  * configuration, volume-expansion or backup change;
  * the user edits the spec or deletes the Component;
  * the cluster controller writes the Cluster.
* Every environment event queues a pass, except two:
  * time passing (`PodAge`);
  * a Cluster write.  The component controller's watches do not map that
    write to this component.

### Fairness

`WF_vars(Build) /\ WF_vars(Execute)`: a queued request is eventually taken
by a worker, and a built plan is executed in the same reconcile.  The
controller-runtime work queue justifies both.  The environment has no
fairness.  Its events are bounded by `MaxEnvSteps`, so every behaviour ends
in stuttering once the environment stops.

### Runs (`MCComponentStatus`)

Every run uses:

* one pod;
* `MaxReplicas = 1`;
* `MaxGen = 2`, so one spec edit;
* `MaxFaults = 1`, so one transient error.

`MaxEnvSteps` is 3.  These bounds are enough for every branch of the
switch, both write orders, both kinds of conflict and a spec edit to
interleave with a staged plan.  The passing run checks the safety
invariants and `Converges` together and explores 625,996 distinct states.
`CHECK_DEADLOCK FALSE` is set because the system really stops: once the
environment is spent and the worker is idle, no step is enabled.

| Run | Expect | What it shows |
|---|---|---|
| `status_safety` | pass | `TypeOK`; `StatusFreshWhenIdle`: when the worker is idle on a live component with one workload, the recorded phase is what a pass would compute, for every phase that does not wait on a timeout; `ClusterMirrorsComponent`: when idle, the Cluster's entry shows the component's phase, despite partial writes and conflicts with the cluster controller; `Converges`: once the workload is stable, the loop stops requeueing itself. |
| `nil_workload_panic` | violation | `NoNilWorkloadPanic` fails: a status pass with no workload in the cache reaches `r.runningRSM.Status` (line 693) with a nil workload. |
| `timeout_not_requeued` | violation | `FailureEventuallyRecorded` fails: `hasFailedPod` drops the requeue delay of a not-yet-timed-out failure (line 508), so the failure is never recorded once it times out. |

Each property of a passing run has a mutant in `PROJECT.json`, and TLC finds
the property violated by that mutant:

* an observedGeneration written one past the generation;
* the Component's own writes filtered out of the watch;
* walk errors swallowed;
* every pass requeued.

### Proofs (`ComponentStatusProofs`)

The three theorems hold for every value of the constants, under
`ConstantsAssumption`:

* `MaxGen >= 1`;
* the other bounds are naturals;
* `RoleAware` is Boolean.

**`TypeCorrect`** proves `Spec => []TypeOK`.

* TypeOK is inductive as it stands.
* The proof has one lemma per action.
* Single-field updates of the Component and Cluster records
  (`CompExceptPhase`, `ClusterBumpRV`, and the others) are chained to show
  that a status write (`WriteCompType`, `WriteClusterType`) stays in type.
  The SMT backend cannot type a nested record EXCEPT in one step.

**`MirrorCorrect`** proves `Spec => []ClusterMirrorsComponent`.

* `ClusterMirrorsComponent` is not inductive.  An idle state can be reached
  by executing a staged plan, so the invariant must say what that plan is
  going to write.
* The strengthening is `MirrorInv == TypeOK /\ ClusterMirrorsComponent /\
  StagedPlanOK`.  `StagedPlanOK` applies to a plan that is staged with no
  request queued and that keeps the component's observedGeneration, which
  is the status branch.  For such a plan:
  * the component's generation is observed;
  * the cluster phase the plan writes is `ClusterPhaseOf` of the component
    phase it writes.
* TLC checks `MirrorInv` as an invariant first.

The argument for each action:

* **Build**, status branch: the phase of `SyncComponentStatusToCluster` is
  `ClusterPhaseOf` of its argument (`SyncPhase`).  The observedGeneration
  branch stages a plan whose Component write must change the object.
* **Execute**: an idle result needs no failure (`failAt = 3`) and an
  unchanged Component.  A no-op Component write means the stored status
  equals the plan's (`WriteCompNoop`, since a real write bumps the
  resourceVersion), and the Cluster write leaves exactly the plan's phase
  (`WriteClusterPhase`).
* **Environment**: every event queues a pass, except two.  Time passing
  touches neither object, and a Cluster write changes only the
  resourceVersion.

**`StatusFreshCorrect`** proves `Spec => []StatusFreshWhenIdle`.

* `StatusFreshWhenIdle` is not inductive, for the same reason: a status
  pass stages the phase it computed, and the world may move before the plan
  runs.
* `TimeFreeOf` is the time-free phase the switch picks (Deleting,
  Stopping, Stopped, Running) or "none".  `Fresh(x)` says a phase agrees
  with it.  Every phase the switch computes is fresh (`ComputedFresh`), and
  a fresh phase is what the invariant asks (`FreshAgrees`).
* The strengthening `FreshInv` says that the stored phase of an idle worker
  is fresh, and so is the phase of a plan staged by a status pass with no
  request queued since (`StagedStatusPlan`).  TLC checks `FreshInv` on the
  `status_safety` instance first (625,996 states).
* The argument is the same as for the mirror:
  * Build copies the computed phase into the plan (`SetPhase`);
  * an idle result of Execute needs a no-op Component write, so the stored
    phase is the plan's;
  * every event that moves an input of `TimeFreeOf` queues a pass.
    `PodAge` queues nothing, but it keeps every pod's existence, and
    `TimeFreeOf` reads nothing else of the pods.

### Abstractions

* Time is reduced to the discrete `PodAge` step, which crosses a timeout.
* The workload's own reconciliation is an environment action, including the
  creation of the workload by the workload transformer of an earlier plan.
* Messages are sets of pods, not texts.
* Events, members status and `podsReadyTime` are left out.

## `ComponentPlan`: the owned objects of a component and the walk

Source: `controllers/apps/transformer_component_{account,pdb,ownership}.go`
and `componentWalkFunc` in `controllers/apps/component_plan_builder.go`.

### State and actions

* `store` is the API server's copy of each owned object. That is one secret
  per system account and the PDB.
* `cache` is the informer's copy, and Build reads it.
* `plan` holds the vertices of the current walk that have not been applied.
* `minAvailable` and `refSecret` are the inputs: the component spec and the
  referenced secrets.
* `compDeleting` records that the Component is being deleted.

The actions:

* `Build` runs the transformer chain from the cache. The chain is
  `AccountTransform`, then `PdbTransform`, then `OwnershipTransform`.
  Each generated account gets a fresh password through `\E gen`.
* `BuildError` is a chain that fails. Either a referenced secret is unusable
  or a cache read errors.
* `WalkVertex` applies a remaining vertex with the API answer of `WalkFunc`:
  * CREATE treats AlreadyExists as success;
  * UPDATE conflicts when the store moved since the vertex's base;
  * DELETE strips `DBComponentFinalizerName` and then deletes.

  A failure aborts the rest of the walk and requeues.  The owned objects
  do not depend on one another, so `WalkReverseTopoOrder` may apply them in
  any order.  The plan is therefore a set, and any vertex may come next.
* `CacheSync(o)` is the informer catching up. Its watch event queues a pass.
* The environment actions are `UserSetMinAvailable`, `UserSetRefSecret` and
  `UserDeleteComp`. `UserSetRefSecret` creates, fixes, rotates, empties or
  deletes a referenced secret at any moment. It queues nothing: no watch
  under `src/` covers referenced secrets, and `getPasswordFromSecret` reads
  them only when something else queues a pass. The fourth environment
  action is `Restart`, which loses the walk and relists the cache.

### Fairness

Fairness is weak on `Build`, on `WalkVertex` and on `CacheSync(o)` for each
object `o` separately. This is justified because a worker takes every queued
request, a started walk runs on, and the informer delivers the events of
every object. Fairness on `CacheSync` as a whole is not enough. The
over-approximated random password of a generated account can keep its
secret changing forever, and each change is a new event. Under that
fairness the endless stream of one object's events could then starve
another object's event. Nothing is fair for the environment.

### Runs (`MCComponentPlan`)

The instance has one referenced account, one generated account and the PDB.
It uses two passwords and two minAvailable values. `MaxEnvSteps = 3` and
`MaxFaults = 1` allow a restart or an error between two vertices together
with two user changes.

* `plan_safety` (pass, 826,314 states) checks three properties.
  * `OwnedObjectsWhenIdle`: when the controller is idle on a live component,
    every account secret exists and the PDB carries minAvailable. Unless a
    referenced secret changed since the last pass's Build
    (`lastPass = "clean"`), each referenced account's secret also carries the
    referenced password.
  * `AccountsEventuallyReady`: once the referenced secrets are usable and
    the component stays live, every account secret eventually exists for
    good. From then on the referenced passwords are right whenever the last
    pass ran on the secrets as they are.
  * `TypeOK`.

  Neither property claims the referenced password right after a change of a
  referenced secret. Nothing queues a pass for such a change, so the account
  secret keeps the old password until some other event queues one. Whether
  the controller's watches, which are set up outside `src/`, would queue a
  pass is not something this code shows. A controller-runtime resync would
  queue one eventually.
* `pdb_delete_stuck` (violation) checks `NoPdbWhenNotWanted`. The ownership
  transformer adds `DBComponentDefinitionFinalizerName`, but the DELETE
  branch strips only `DBComponentFinalizerName`. A PDB whose minAvailable is
  cleared therefore stays deleting forever.

Each pass property has a mutant:

* the PDB branches swapped;
* `handleUpdate` not copying the spec;
* the empty-password check dropped.

### Proofs (`ComponentPlanProofs`)

`TypeCorrect` proves `Spec => []TypeOK`, and `OwnedObjectsCorrect` proves
`Spec => []OwnedObjectsWhenIdle`, for every value of the constants.  The
only assumption is `ConstantsAssumption`: the account list has no
duplicates, the referenced accounts are accounts, the PDB is not one, and
the bounds are naturals.

`OwnedObjectsWhenIdle` is not inductive.  It says nothing while a walk is
under way or while a watch event is still to come.  A change of a
referenced secret is not followed by a pass either.  So the obligations of
a quiet controller are stated for the passwords `sec` that the last Build
read (`Good(o, s, sec)`, `Staged(v, sec)`, `Covered(o, sec)`).  They are
tied to the current secrets only while `Synced`, that is, while no
referenced secret has changed since that Build.  The strengthening `IInv`
has four parts, and TLC checks it on the `plan_safety` instance first:

* `TypeOK`;
* `ObjectsOK`: each object in the store and in the cache has its shape
  (`ObjOK`);
* `PlanOK`: every vertex sends an existing object of the right kind, and
  no two vertices are for the same object;
* `QuietOK`: while no pass is queued and the component is live, there is
  a map `sec` of usable passwords (`QuietFor(sec)`) such that:
  * `sec` is the current `refSecret` if `Synced`;
  * every vertex is `Staged`, meaning that once applied it leaves its
    object as the spec asks (`Good`) or different from the cache;
  * every object is `Covered`: it has a vertex, or it is `Good`, or the
    store differs from the cache.

At an idle state the plan is empty and the cache equals the store, so
`Covered` leaves only `Good` for `sec`.  That gives every account secret
and the PDB.  After a clean pass `Synced` holds, so `sec` is the current
`refSecret`, which gives the referenced passwords.

The argument for each action:

* **Build** (`ChainOK`): the account transformer stages at most one
  vertex per account (`CreateOrUpdateOK`), and the PDB transformer at most
  one (`PdbTransformOK`).  An object gets no vertex only when its cached
  copy is already `Good`.  Ownership adds `DBComponentDefinitionFinalizerName`
  and keeps everything else (`OwnershipOK`).
* **WalkVertex**: a successful call leaves the object `Good` or different
  from the cache (`WalkGood`).  The vertex is what covered it, and the other
  vertices stay.  A failure queues a pass.
* **Build** takes the current secrets as the witness `sec`.  Build runs
  only when they are usable, and it makes `Synced` true.
* **UserSetRefSecret** queues nothing and falsifies `Synced`.  The
  witness `sec` of the step before still works, because `Staged` and `Good`
  read `sec` and never `refSecret`.
* Every other step queues a pass, so `QuietOK` holds trivially.  While no
  pass is queued, nothing changes the cache or `minAvailable`, which are
  all that `Staged` and `Good` read besides `sec` (`FrozenInputs`).

## `UpgradeTo07`: the 0.7 breaking-change handler

Source: `pkg/cli/util/breakingchange/upgradehandlerto0.7.go`.

### State and actions

A run snapshots the policies and backups (`Snapshot`). It then converts one
object at a time (`Transform`), using a separate action per API call:

* `PolicySchedule` and `PolicyPatch` convert a policy;
* `BackupSpec` and `BackupStatus` convert a backup.

Any call may fail (`Fail`, `CallFails`), and that ends the run. `Rerun` is
the user running the command again.

### Fairness

There is none, and deadlock is not checked. A failed run ends the command,
and whether the user runs it again is the user's choice.

### Runs

Runs use one policy and two backups, with every old shape as an initial
value, two runs and one failure.

* `upgrade_policies` (pass) checks `PoliciesMigrated`: whichever earlier run
  failed, a finished run leaves every policy converted and scheduled.
* `upgrade_backup_skipped` (violation) checks `BackupsMigrated`.
  * A failure between the spec patch and the status update leaves
    `backupMethod` set.
  * The rerun then skips the backup, so its status keeps the old shape.

### Proofs (`UpgradeTo07Proofs`)

`TypeCorrect` and `PoliciesMigratedCorrect` prove `Spec => []TypeOK` and
`Spec => []PoliciesMigrated` for every value of the constants.  The
assumption is that the policies and the backups are disjoint sets of
names, none of them `NoObj`.  The strengthening `IInv` records the
following:

* where the current object is, and which call comes next (`step`);
* that a policy that has `backupMethods` already has its schedule
  (`Scheduled`).  This is why a rerun may skip such a policy after
  `createBackupSchedule`;
* that during a run, every policy is still to do, current, or converted
  (`Migrated`);
* that the snapshot still describes the policies not yet reached.

A run that finishes has nothing left to do, so every policy is converted.

## `ClusterComponents`: the legacy component transformer

Source: `controllers/apps/transformer_component.go`.

### State and actions

* `SpecPass` creates the spec's components that have no status key. It
  deletes the status keys that left the spec, and records
  observedGeneration.
* `StatusPass` asks every spec component for its status, remembering the
  first delayed-requeue error and going on.
* `PassError` is any other error, which merges nothing.
* `ComponentStatusWrite` is the component controller adding a key.
* `DelayChange` toggles whether a component's status is delayed.

### Fairness

Fairness is weak on `SpecPass` and `StatusPass`. The work queue takes every
queued and every delay-requeued request.

### Runs

The instance has two components, one of which comes from the
ClusterDefinition, with `MaxGen = 3`.

* `cluster_components` (pass) checks `SpecComponentsEventuallyRecorded`:
  every spec component is recorded although another keeps returning delayed
  requeues. Its mutant stops the loop at the first delayed error. The run
  also checks `TypeOK`, which an observedGeneration recorded one past the
  generation breaks.
* `orphan_component` (violation) checks `NoOrphanComponents`. The delete
  set is the status keys minus the spec. A component removed from the spec
  before any status key names it keeps its objects for good. The code's own
  TODO at that line doubts the computation.

`StatusPass` loops over `SpecSet`, the components of
`spec.componentSpecs` (none when the list is nil).

### Proofs (`ClusterComponentsProofs`)

`TypeCorrect` proves `Spec => []TypeOK` for every value of the constants,
with `MaxGen >= 1`.  TypeOK is inductive as it stands, so each action has
one case.

## `CompDefController` and `CmpdLifecycle`

Source: `controllers/apps/componentdefinition_controller.go`, and the meta
transformers that label Components.

### State and actions

* `cmpd` is the stored definition. It holds existence, deletion mark,
  finalizer, generation, observedGeneration, phase and resourceVersion.
* `read` is the copy the running reconcile read.
* `busy` and `pending` describe the work queue.
* `comps` says whether each Component exists and carries the label.

The actions:

* `Reconcile` is the Get.
* `Act` is the rest of one reconcile:
  * for a deleting definition, the deletion handler, then the finalizer is
    removed;
  * for a definition without the finalizer, it is registered;
  * for a definition recorded but not yet Available at its generation, the
    status merge patch.
* `WriteFails` is a failing write.
* `UserUpdate` and `UserDelete` are user edits to the definition.
* `UserCreateComp`, `ComponentMeta` and `UserDeleteComp` act on the
  Components.

A spec edit can land between `Reconcile` and `Act`. The status patch then
writes the generation that was read.

### Fairness

Fairness is weak on `Reconcile` and `Act`. The queue takes every request,
and a started reconcile finishes.

### The abstract lifecycle

`CmpdLifecycle` states what the controller promises about a definition:

* it is live, then deleting, then gone;
* `gen` only grows through edits;
* observedGeneration only moves forward and never passes `gen`;
* a protected (finalized) definition is deleted only through the deletion
  handler;
* a deleting one is eventually released (WF on `Release`).

The refinement mapping, `Lifecycle` in `CompDefController`, works as
follows:

* `life` is gone, deleting or live;
* `gen` and `obsGen` are 0 when the definition is gone;
* `protected` is the finalizer on an existing definition.

### Runs

The instance has two Components, `MaxGen = 3`, one failing write and four
environment steps.

* `compdef_status` (pass, 2,640 states) checks three properties.
  * `CmpdStatusFreshWhenIdle`: when idle, a live definition has the
    finalizer and is Available at its current generation.
  * `ImplementsLifecycle`: the spec `Lifecycle!Spec`.
  * `TypeOK`.

  It has three mutants:
  * the Available shortcut taken on the phase alone;
  * the whole copy read written back, which breaks `ImplementsLifecycle`;
  * observedGeneration patched one past the generation read, which breaks
    `TypeOK`.
* `compdef_delete_referenced` (violation) checks
  `ReleaseOnlyWhenUnreferenced`.
  * The deletion handler looks for Clusters that carry the definition
    label.
  * No code labels a Cluster with it; only Components get it.
  * So a definition used by live Components is released.

### Proofs (`CompDefControllerProofs`)

All of the following are proved by tlapm for every value of the constants,
under `ConstantsAssumption`:

* `TypeCorrect`: `Spec => []TypeOK`;
* `StatusFreshCorrect`: `Spec => []CmpdStatusFreshWhenIdle`;
* `LifecycleRefinement`: `Spec => Lifecycle!SafetySpec`, the safety part of
  the abstract specification.

The inductive invariant `IInv` strengthens the property with these facts:

* a deleting definition exists and is finalized;
* a gone one equals `Gone`;
* observedGeneration is at most the generation;
* while a reconcile is busy, `ReadConsistent` holds. This is the key fact.

`ReadConsistent` says that the copy read:

* is an existing definition;
* is no newer than the store's generation;
* is no older than the stored observedGeneration;
* is deleting only if the store is.

Above all, while no request is pending, the copy read equals the store.

The strengthening is needed for two reasons.

* A request that is not pending means that nothing changed since the Get.
  So the patch that `Act` writes makes the stored status fresh.
* An edit during a reconcile always sets `pending`, so the idle state that
  follows is re-reconciled.

`IInv` was first checked as an invariant with TLC.

The record updates are proved through one lemma per field: the
`EXCEPT` of a single field stays in `CmpdState`. A multi-field `EXCEPT` is
rewritten as a chain of single-field ones.

For the refinement, each step of `Next` maps to a step of the lifecycle or
to a stutter (`NextRefines`):

| Concrete step | Lifecycle step |
|---|---|
| Status patch | `Record` |
| Registration | `Record` |
| Deletion handler | `Release` |
| `UserUpdate` | `Edit` |
| `UserDelete` | `Delete` |
| All others | stutter on the mapped variables |

The `WF_avars(Release)` part of `ImplementsLifecycle` is liveness. It is
checked by TLC in `compdef_status` only.

## `ConfigPipeline`: the configuration pipelines

Source: `internal/controller/plan/pipeline.go`.

### The create pipeline

The create pipeline is the stage chain of `RenderConfigNScriptFiles`:

* prepare;
* script;
* `configuration`;
* template;
* volumes;
* sidecar;
* meta;
* `status`.

Each stage is wrapped so that it is skipped after an error (`CreateSkip`).
The two stages that matter are these.

* `ConfigurationStage` does a Get.
  * Found: `updateConfiguration` with its arguments swapped, then a patch.
  * NotFound: the stage returns the error.
  * Any other error: it creates the object.
* `StatusStage` dereferences `p.configuration`, which is never assigned.

### The update pipeline

The update pipeline of one item runs these stages: ConfigMap, `Prepare`,
re-render, apply, version and sync.

* `Prepare` computes `reconcile = !isFinish` and returns before building the
  render wrapper exactly when the item still needs work.
* The stages after it use the wrapper in that case. `built` and
  `unbuiltUse` record this.

### Environment and abstractions

* The environment changes the templates (`TemplatesChange`) and reconfigures
  an item (`Reconfigure`).
* Rendering is abstracted to success or failure.
* A Configuration is its set of item names.

The constructors in `pipeline.go` are not called from any code under `src/`.
So the order in which a caller chains the stages, and `Wrap` itself, are
modelled from the spec (`spec_modelled` in PROJECT.json): `CreateChain`,
`UpdateChain`, `CNext`, `UNext` and the skip actions.

### Runs

Runs use two templates, one failing call and two environment events.

* `config_never_created` (violation) checks `ConfigurationEventuallyExists`.
  The NotFound and other-error cases of the Configuration stage are
  inverted, so a missing Configuration is never created.

The module has no passing run. The three other properties of the module
are listed under "Further disagreements".

## Further disagreements

TLC finds each of the following properties violated with the cfg named.
They are kept beside the modules and are not among the runs of
`PROJECT.json`, which list one violation per component's most serious
disagreement. The hazards they belong to name them in their notes.

| Property | Cfg | What goes wrong |
|---|---|---|
| `FailedOnlyWhenUnavailable` (`ComponentStatus`) | `MCComponentStatus_available.cfg` | `isComponentAvailable` skips every pod that has a role label (`transformer_component_status.go:348-353`). So a component with an available leader and a scale-out failure is recorded Failed, never Abnormal. |
| `NoStaleMessageWhenIdle` (`ComponentStatus`) | `MCComponentStatus_message.cfg` | `setComponentStatusPhase` merges messages and never prunes them (`:545`). A pod recorded under Failed is still named after it is deleted and the component has moved on to Updating. |
| `ReplayIsNoop` (`ComponentPlan`) | `MCComponentPlan_replay.cfg` | The spec requires that a pass over an unchanged world stages no effective change. Every pass rotates the password of each generated account (`transformer_component_account.go:75`). |
| `ItemsFollowTemplates` (`ConfigPipeline`) | `MCConfigPipeline_items.cfg` | `updateConfiguration` is called with its arguments swapped (`pipeline.go:117`), so the stored item names are kept. |
| `NoStatusPanic` (`ConfigPipeline`) | `MCConfigPipeline_panic.cfg` | `p.configuration` is never assigned and is dereferenced (`pipeline.go:136`). |
| `RendererBuiltBeforeUse` (`ConfigPipeline`) | `MCConfigPipeline_render.cfg` | `Prepare` returns before building the render wrapper exactly when the later stages use it (`pipeline.go:247`). |

## What stays with TLC

These are out of the prover's reach:

* every liveness property: `Converges`, `AccountsEventuallyReady`,
  `SpecComponentsEventuallyRecorded`, the fairness part of
  `ImplementsLifecycle`, and the violated eventualities;
* everything that needs `ENABLED`;
* induction over data, such as what `SelectSeq` computes for every input
  (`SpecList` of `ClusterComponents`).

Every safety invariant of a passing run is proved as well as checked.

## Not modelled

* The wesql and builder packages, the workload and legacy component
  builders, and the convertors. They are pure object construction with no
  state of their own.
* Generated code (deepcopy, clientsets).
* The CLI commands other than the 0.7 upgrade handler. They are I/O around
  single API calls.
* `PROJECT.json` lists every component with its status and reason.

## Open work

* The events that the status transformer emits
  (`transformer_component_status.go:570`) are left out. They are visible
  only as events, and no property reads them.
* Two action properties are checked:
  * `ReleaseOnlyWhenUnreferenced` (`compdef_delete_referenced`, violated);
  * the step relation of `CmpdLifecycle` inside `ImplementsLifecycle`.

  The safety part of the second is proved by `LifecycleRefinement`.
  `ReplayIsNoop` is an action property of `ComponentPlan`, and it is
  violated.  No passing run has an action property of its own.  The
  refinement of `CmpdLifecycle` by `CompDefController` is the one
  refinement the project has.
* After a change of a referenced secret, the account secret is claimed
  right only once a later pass has run.  Nothing under `src/` queues that
  pass.
