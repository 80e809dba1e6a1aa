-------------------------- MODULE ComponentStatus --------------------------
(***************************************************************************)
(* The component status state machine of the component controller         *)
(* (controllers/apps/transformer_component_status.go) together with the    *)
(* part of the plan executor that writes its result                        *)
(* (controllers/apps/component_plan_builder.go).                           *)
(*                                                                         *)
(* One component is reconciled by one worker: a pass is queued by a watch  *)
(* event (pending), Build runs the status transformer against the live     *)
(* store and stages two STATUS vertices (the component and the owning      *)
(* cluster), Execute walks them with optimistic concurrency.  Between the  *)
(* two steps the world moves: pods fail, recover and time out, the         *)
(* workload (RSM) rolls, the user edits the spec, the cluster controller    *)
(* writes the cluster.                                                     *)
(***************************************************************************)
EXTENDS Naturals, FiniteSets

CONSTANTS
    POD,            \* pods that may belong to the component (model values)
    RoleAware,      \* workload type is Consensus or Replication
    MaxReplicas,    \* largest replica count the user may ask for
    MaxGen,         \* largest spec generation the user may reach
    MaxEnvSteps,    \* bound on environment events (pods, RSM, user, cluster)
    MaxFaults       \* bound on transient store errors of the controller

ASSUME ConstantsAssumption ==
    /\ RoleAware \in BOOLEAN
    /\ MaxReplicas \in Nat
    /\ MaxGen \in Nat \ {0}
    /\ MaxEnvSteps \in Nat
    /\ MaxFaults \in Nat

VARIABLES
    comp,       \* the Component object in the store: spec part and status
    cluster,    \* the owning Cluster's status.components entry for it
    rsm,        \* the running ReplicatedStateMachine(s) of the component
    pods,       \* the component's pods
    world,      \* config sync, volume expansion, scale-out backup signals
    pending,    \* a reconcile request for the component is queued
    plan,       \* the plan built by the last Build, not yet executed
    panicked,   \* a pass has panicked (observability)
    envSteps,   \* environment events so far
    faults      \* transient errors so far

vars == <<comp, cluster, rsm, pods, world, pending, plan, panicked,
          envSteps, faults>>

-----------------------------------------------------------------------------
(* Phases: ClusterComponentPhase.  "" is the zero value of a new status.   *)

Phases == {"Creating", "Running", "Updating", "Abnormal", "Failed",
           "Stopping", "Stopped", "Deleting"}
PhaseOrEmpty == Phases \cup {""}

(* Pod abstraction: fail is the result of isPodFailedAndTimedOut (failed  *)
(* and not yet past its timeout, or past it); ready says whether the pod  *)
(* is available and whether its readiness is older than the role probe    *)
(* timeout; role is the kubeblocks.io/role label.                         *)
PodState == [exists : BOOLEAN,
             fail   : {"none", "failing", "timedOut"},
             ready  : {"no", "fresh", "aged"},
             role   : {"none", "leader", "follower"}]
NoPod == [exists |-> FALSE, fail |-> "none", ready |-> "no", role |-> "none"]

CompStatus    == [phase : PhaseOrEmpty, msg : SUBSET POD, obsGen : 0..MaxGen]
ClusterStatus == [phase : PhaseOrEmpty, msg : SUBSET POD,
                  podsReady : {"nil", "true", "false"}]

NoPlan == [staged |-> FALSE]
Plans == {NoPlan} \cup
         [staged : {TRUE}, comp : CompStatus, compRV : Nat,
          cluster : ClusterStatus, clusterRV : Nat]

CompType ==
    [gen : 1..MaxGen, replicas : 0..MaxReplicas, deleting : BOOLEAN, rv : Nat,
     phase : PhaseOrEmpty, msg : SUBSET POD, obsGen : 0..MaxGen]

ClusterType ==
    [phase : PhaseOrEmpty, msg : SUBSET POD,
     podsReady : {"nil", "true", "false"}, rv : Nat]

RSMType ==
    [count : 0..2, deleting : BOOLEAN, replicas : 0..MaxReplicas,
     ready : BOOLEAN, latest : BOOLEAN]

WorldType ==
    [configSynced : BOOLEAN, volExpanding : BOOLEAN, backupFailed : BOOLEAN]

TypeOK ==
    /\ comp \in CompType
    /\ cluster \in ClusterType
    /\ rsm \in RSMType
    /\ pods \in [POD -> PodState]
    /\ world \in WorldType
    /\ pending \in BOOLEAN
    /\ plan \in Plans
    /\ panicked \in BOOLEAN
    /\ envSteps \in 0..MaxEnvSteps
    /\ faults \in 0..MaxFaults

-----------------------------------------------------------------------------
(* The signals reconcileComponentPhase evaluates, over the live store.     *)

Pods == {p \in POD : pods[p].exists}

HasRoleLabel(p) == pods[p].role # "none"

\* isDeleting: the running RSM carries a deletion timestamp
IsDeleting == rsm.deleting

\* isZeroReplica: RSM replicas and the synthesized replicas are both zero
IsZeroReplica == rsm.replicas = 0 /\ comp.replicas = 0

HasComponentPod == Pods # {}

\* isRSMRunning: pods on the latest revision and the RSM ready
IsRSMRunning == rsm.latest /\ rsm.ready

IsAllConfigSynced == world.configSynced

\* hasFailedAndTimedOutPod: the pods whose failure outlived its timeout
TimedOutPods == {p \in Pods : pods[p].fail = "timedOut"}

\* role probe timeout: a ready pod without a role label past the timeout
ProbeTimeoutPods == {p \in Pods : ~HasRoleLabel(p) /\ pods[p].ready = "aged"}

\* hasFailedPod and the messages it returns
HasFailedPod ==
    rsm.latest /\ (TimedOutPods # {} \/ (RoleAware /\ ProbeTimeoutPods # {}))
FailedPodMessages ==
    IF ~rsm.latest THEN {}
    ELSE IF TimedOutPods # {} THEN TimedOutPods
    ELSE IF RoleAware THEN ProbeTimeoutPods
    ELSE {}

\* isScaleOutFailed: scaling out and the data clone backup/restore failed
IsScaleOutFailed == comp.replicas > rsm.replicas /\ world.backupFailed

\* hasVolumeExpansionRunning: (running, failed); failed is never detected
HasRunningVolumeExpansion == world.volExpanding
HasFailedVolumeExpansion == FALSE

HasFailure == HasFailedPod \/ IsScaleOutFailed \/ HasFailedVolumeExpansion

\* isComponentAvailable, as written: a pod that has a role label is skipped
\* before the leader label is looked at
IsAvailable(p) == pods[p].ready # "no"
HasLeaderRoleLabel(p) == HasRoleLabel(p) /\ pods[p].role = "leader"
IsComponentAvailable ==
    rsm.latest /\
    \E p \in Pods : /\ IsAvailable(p)
                    /\ RoleAware
                    /\ ~HasRoleLabel(p)
                    /\ HasLeaderRoleLabel(p)

IsInCreatingPhase == comp.phase \in {"", "Creating"}

\* the switch of reconcileComponentPhase: <<phase, messages, podsReady>>
ComputedPhase ==
    IF IsDeleting THEN <<"Deleting", {}, FALSE>>
    ELSE IF IsZeroReplica /\ HasComponentPod THEN <<"Stopping", {}, TRUE>>
    ELSE IF IsZeroReplica THEN <<"Stopped", {}, TRUE>>
    ELSE IF IsRSMRunning /\ IsAllConfigSynced /\ ~HasRunningVolumeExpansion
         THEN <<"Running", {}, TRUE>>
    ELSE IF ~HasFailure /\ IsInCreatingPhase THEN <<"Creating", {}, FALSE>>
    ELSE IF ~HasFailure THEN <<"Updating", {}, FALSE>>
    ELSE IF ~IsComponentAvailable THEN <<"Failed", FailedPodMessages, FALSE>>
    ELSE <<"Abnormal", {}, FALSE>>

-----------------------------------------------------------------------------
(* The status updates, on the in-memory copies.                            *)

\* setComponentStatusPhase: phase and merged messages only on a change
SetComponentStatusPhase(st, phase, m) ==
    IF st.phase = phase THEN st
    ELSE [st EXCEPT !.phase = phase, !.msg = @ \cup m]

\* syncComponentStatusToCluster maps unknown phases to Abnormal
ClusterPhaseOf(phase) == IF phase \in Phases THEN phase ELSE "Abnormal"

\* setClusterStatusPhase: phase and merged messages only on a change
SetClusterStatusPhase(cst, phase, m) ==
    IF cst.phase = phase THEN cst
    ELSE [cst EXCEPT !.phase = phase, !.msg = @ \cup m]

\* updatePodsReady: the ready flag (and its time) only when it changes
UpdatePodsReady(cst, ready) ==
    LET flag == IF ready THEN "true" ELSE "false"
    IN  IF cst.podsReady = flag THEN cst ELSE [cst EXCEPT !.podsReady = flag]

SyncComponentStatusToCluster(cst, phase, m, ready) ==
    UpdatePodsReady(SetClusterStatusPhase(cst, ClusterPhaseOf(phase), m), ready)

CompStatusOf(c) == [phase |-> c.phase, msg |-> c.msg, obsGen |-> c.obsGen]
ClusterStatusOf(c) == [phase |-> c.phase, msg |-> c.msg,
                       podsReady |-> c.podsReady]

\* IsObjectUpdating / IsObjectStatusUpdating of the graph model package
IsObjectUpdating == comp.gen # comp.obsGen
IsObjectStatusUpdating == ~comp.deleting /\ ~IsObjectUpdating

-----------------------------------------------------------------------------
Init ==
    /\ \E r \in 0..MaxReplicas :
         comp = [gen |-> 1, replicas |-> r, deleting |-> FALSE, rv |-> 1,
                 phase |-> "", msg |-> {}, obsGen |-> 0]
    /\ cluster = [phase |-> "", msg |-> {}, podsReady |-> "nil", rv |-> 1]
    /\ rsm = [count |-> 0, deleting |-> FALSE, replicas |-> 0,
              ready |-> FALSE, latest |-> TRUE]
    /\ pods = [p \in POD |-> NoPod]
    /\ world \in [configSynced : BOOLEAN, volExpanding : {FALSE},
                  backupFailed : {FALSE}]
    /\ pending = TRUE
    /\ plan = NoPlan
    /\ panicked = FALSE
    /\ envSteps = 0
    /\ faults = 0

-----------------------------------------------------------------------------
(* The controller.                                                         *)

\* A store read of the pass fails (list pods, get configuration, patch of
\* pod labels ...): Transform returns the error and the request is requeued.
BuildReadError ==
    /\ pending /\ plan = NoPlan
    /\ faults < MaxFaults
    /\ faults' = faults + 1
    /\ UNCHANGED <<comp, cluster, rsm, pods, world, pending, plan, panicked,
                   envSteps>>

\* ComponentStatusTransformer.Transform, run by componentPlanBuilder.Build.
Build ==
    /\ pending /\ plan = NoPlan
    /\ \/ /\ comp.deleting                       \* fast return
          /\ pending' = FALSE
          /\ UNCHANGED <<plan, panicked>>
       \/ /\ ~comp.deleting /\ rsm.count > 1     \* more than one workload
          /\ UNCHANGED <<pending, plan, panicked>>
       \/ /\ ~comp.deleting /\ rsm.count <= 1 /\ IsObjectUpdating
          /\ pending' = FALSE
          /\ plan' = [staged |-> TRUE,
                      comp |-> [CompStatusOf(comp) EXCEPT !.obsGen = comp.gen],
                      compRV |-> comp.rv,
                      cluster |-> ClusterStatusOf(cluster),
                      clusterRV |-> cluster.rv]
          /\ UNCHANGED panicked
       \/ /\ IsObjectStatusUpdating /\ rsm.count = 0
          \* reconcileComponentPhase returns early, then
          \* updateClusterMembersStatus reads runningRSM.Status: nil pointer
          /\ panicked' = TRUE
          /\ UNCHANGED <<pending, plan>>
       \/ /\ IsObjectStatusUpdating /\ rsm.count = 1
          /\ LET c == ComputedPhase
                 newComp == SetComponentStatusPhase(CompStatusOf(comp),
                                                    c[1], c[2])
             IN  plan' = [staged |-> TRUE,
                          comp |-> newComp,
                          compRV |-> comp.rv,
                          cluster |-> SyncComponentStatusToCluster(
                                         ClusterStatusOf(cluster),
                                         newComp.phase, newComp.msg, c[3]),
                          clusterRV |-> cluster.rv]
          /\ pending' = FALSE
          /\ UNCHANGED panicked
    /\ UNCHANGED <<comp, cluster, rsm, pods, world, envSteps, faults>>

\* componentPlan.Execute: the walk issues Status().Update for the two
\* STATUS vertices in some order; a conflict (resource version moved since
\* Build) or a transient error aborts the rest of the walk and requeues.
\* Mutant: observedGeneration written one past the generation.
WriteCompOffByOne(c, st) ==
    IF CompStatusOf(c) = st THEN c
    ELSE [c EXCEPT !.phase = st.phase, !.msg = st.msg, !.obsGen = st.obsGen + 1,
                   !.rv = @ + 1]

WriteComp(c, st) ==
    IF CompStatusOf(c) = st THEN c
    ELSE [c EXCEPT !.phase = st.phase, !.msg = st.msg, !.obsGen = st.obsGen,
                   !.rv = @ + 1]
WriteCluster(c, st) ==
    IF ClusterStatusOf(c) = st THEN c
    ELSE [c EXCEPT !.phase = st.phase, !.msg = st.msg,
                   !.podsReady = st.podsReady, !.rv = @ + 1]

\* Mutants of Requeue: the walk error is dropped; the Component's own status
\* writes are filtered out of the watch; every pass asks to be requeued.
RequeueSwallowError(failed, compChanged) == compChanged
RequeueNoWatchEvent(failed, compChanged) == failed
RequeueAlways(failed, compChanged) == TRUE

\* The Reconcile returns the walk's error (controller-runtime requeues it),
\* and a changed Component comes back through the watch as a new request.
Requeue(failed, compChanged) == failed \/ compChanged

Execute ==
    /\ plan # NoPlan
    /\ \E order \in {<<"comp", "cluster">>, <<"cluster", "comp">>},
          failAt \in 1..3 :
         LET RVok(o) == IF o = "comp" THEN comp.rv = plan.compRV
                        ELSE cluster.rv = plan.clusterRV
             done(o) == \E i \in 1..2 : i < failAt /\ order[i] = o
             transient == failAt <= 2 /\ RVok(order[failAt])
         IN  /\ \A i \in 1..2 : i < failAt => RVok(order[i])
             /\ transient => faults < MaxFaults
             /\ faults' = IF transient THEN faults + 1 ELSE faults
             /\ comp' = IF done("comp") THEN WriteComp(comp, plan.comp)
                        ELSE comp
             /\ cluster' = IF done("cluster")
                           THEN WriteCluster(cluster, plan.cluster)
                           ELSE cluster
             /\ pending' = (pending \/ Requeue(failAt <= 2, comp' # comp))
    /\ plan' = NoPlan
    /\ UNCHANGED <<rsm, pods, world, panicked, envSteps>>

-----------------------------------------------------------------------------
(* The environment.  Every event on the component's objects is a watch     *)
(* event that queues a pass; time passing is not.                          *)

EnvStep(objs) ==
    /\ envSteps < MaxEnvSteps
    /\ envSteps' = envSteps + 1
    /\ UNCHANGED <<plan, panicked, faults>>
    /\ UNCHANGED objs

PodCreate(p) ==
    /\ ~pods[p].exists
    /\ pods' = [pods EXCEPT ![p] = [NoPod EXCEPT !.exists = TRUE]]
    /\ pending' = TRUE
    /\ EnvStep(<<comp, cluster, rsm, world>>)

PodDelete(p) ==
    /\ pods[p].exists
    /\ pods' = [pods EXCEPT ![p] = NoPod]
    /\ pending' = TRUE
    /\ EnvStep(<<comp, cluster, rsm, world>>)

\* unschedulable, or a container waiting/terminated with a message
PodFail(p) ==
    /\ pods[p].exists /\ pods[p].fail = "none"
    /\ pods' = [pods EXCEPT ![p].fail = "failing", ![p].ready = "no"]
    /\ pending' = TRUE
    /\ EnvStep(<<comp, cluster, rsm, world>>)

PodReady(p) ==
    /\ pods[p].exists /\ pods[p].ready = "no"
    /\ pods' = [pods EXCEPT ![p].fail = "none", ![p].ready = "fresh"]
    /\ pending' = TRUE
    /\ EnvStep(<<comp, cluster, rsm, world>>)

PodSetRole(p) ==
    /\ pods[p].exists
    /\ \E r \in {"none", "leader", "follower"} \ {pods[p].role} :
         pods' = [pods EXCEPT ![p].role = r]
    /\ pending' = TRUE
    /\ EnvStep(<<comp, cluster, rsm, world>>)

\* time passes for one pod: a failure outlives podScheduledFailedTimeout or
\* podContainerFailedTimeout, a readiness outlives the role probe timeout
PodAge(p) ==
    /\ \/ /\ pods[p].fail = "failing"
          /\ pods' = [pods EXCEPT ![p].fail = "timedOut"]
       \/ /\ pods[p].ready = "fresh"
          /\ pods' = [pods EXCEPT ![p].ready = "aged"]
    /\ UNCHANGED <<comp, cluster, rsm, world, pending, plan, panicked,
                   envSteps, faults>>

\* the RSM is created, deleted, duplicated, or its status or spec moves
RSMChange ==
    /\ \E r \in [count : 0..2, deleting : BOOLEAN, replicas : 0..MaxReplicas,
                 ready : BOOLEAN, latest : BOOLEAN] \ {rsm} :
         rsm' = r
    /\ pending' = TRUE
    /\ EnvStep(<<comp, cluster, pods, world>>)

WorldChange ==
    /\ \E w \in [configSynced : BOOLEAN, volExpanding : BOOLEAN,
                 backupFailed : BOOLEAN] \ {world} :
         world' = w
    /\ pending' = TRUE
    /\ EnvStep(<<comp, cluster, rsm, pods>>)

\* the user edits the spec (replicas): a new generation
UserUpdateSpec ==
    /\ ~comp.deleting /\ comp.gen < MaxGen
    /\ \E r \in 0..MaxReplicas :
         comp' = [comp EXCEPT !.gen = @ + 1, !.replicas = r, !.rv = @ + 1]
    /\ pending' = TRUE
    /\ EnvStep(<<cluster, rsm, pods, world>>)

UserDeleteComp ==
    /\ ~comp.deleting
    /\ comp' = [comp EXCEPT !.deleting = TRUE, !.rv = @ + 1]
    /\ pending' = TRUE
    /\ EnvStep(<<cluster, rsm, pods, world>>)

\* the cluster controller writes the Cluster (no event for this controller)
ClusterWrite ==
    /\ cluster' = [cluster EXCEPT !.rv = @ + 1]
    /\ EnvStep(<<comp, rsm, pods, world, pending>>)

Environment ==
    \/ \E p \in POD : PodCreate(p) \/ PodDelete(p) \/ PodFail(p)
                      \/ PodReady(p) \/ PodSetRole(p) \/ PodAge(p)
    \/ RSMChange \/ WorldChange \/ UserUpdateSpec \/ UserDeleteComp
    \/ ClusterWrite

Next == Build \/ BuildReadError \/ Execute \/ Environment

\* A queued request is eventually processed by the worker and its plan run.
Fairness == WF_vars(Build) /\ WF_vars(Execute)

Spec == Init /\ [][Next]_vars /\ Fairness

-----------------------------------------------------------------------------
(* Properties.                                                             *)

\* No pass is queued and no plan is waiting: the worker is idle.
Quiescent == ~pending /\ plan = NoPlan

\* The phases whose inputs do not depend on time passing.
TimeFreePhases == {"Deleting", "Stopping", "Stopped", "Running"}

(* When the worker is idle on a live component, the stored phase is what a *)
(* pass would compute from the world now, for every phase that does not    *)
(* wait on a timeout: a pod event, an RSM roll, a spec change, a conflict  *)
(* or a stale Build never leaves Running, Stopped, Stopping or Deleting    *)
(* recorded (or missing) without a pass queued to fix it.                  *)
StatusFreshWhenIdle ==
    (Quiescent /\ IsObjectStatusUpdating /\ rsm.count = 1) =>
        LET c == ComputedPhase[1] IN
        /\ c \in TimeFreePhases => comp.phase = c
        /\ c \notin TimeFreePhases => comp.phase \notin TimeFreePhases

(* When the worker is idle on a live component, the cluster's entry for it *)
(* (a mirror written by the same pass, in a separate write that may fail   *)
(* on its own) shows the component's phase.                                *)
ClusterMirrorsComponent ==
    (Quiescent /\ IsObjectStatusUpdating) =>
        cluster.phase = ClusterPhaseOf(comp.phase)

(* Once the workload exists for good, the worker eventually goes idle: a   *)
(* pass does not keep queueing itself, conflicts and errors die out.       *)
Converges == <>[](rsm.count = 1) => <>[]Quiescent

(* A pass on a component whose workload is not (yet) in the informer cache *)
(* is handled without a crash: Transform logs "rsm not found" and          *)
(* reconcileComponentPhase returns early, so the pass must not dereference *)
(* the missing workload afterwards (updateClusterMembersStatus).           *)
NoNilWorkloadPanic == ~panicked

(* spec.md 4.5: the component is available when a pod on the latest        *)
(* revision is ready and, for role-aware workloads, carries the leader      *)
(* role label.                                                              *)
SpecAvailable ==
    rsm.latest /\
    \E p \in Pods : IsAvailable(p) /\ (RoleAware => pods[p].role = "leader")

(* spec.md 4.5 rules 7 and 8: with failure signals present, an available   *)
(* component is Abnormal, not Failed.  When the worker is idle on a live   *)
(* component recorded Failed, no leader pod is available.                  *)
FailedOnlyWhenUnavailable ==
    (Quiescent /\ IsObjectStatusUpdating /\ rsm.count = 1
               /\ comp.phase = "Failed") => ~SpecAvailable

(* spec.md 4.5: a failure observed before its timeout elapses must be      *)
(* re-evaluated after the remaining timeout.  If, from some point on, a    *)
(* pass would compute Failed (a pod failure has outlived its timeout), the *)
(* recorded phase eventually becomes Failed.                               *)
FailureEventuallyRecorded ==
    <>[](IsObjectStatusUpdating /\ rsm.count = 1
         /\ ComputedPhase[1] = "Failed")
        => <>(comp.phase = "Failed")


(* spec.md 3 and 5: the phase and the message map, keyed by pod, are the  *)
(* only error surface a user sees.  setComponentStatusPhase merges the     *)
(* messages of a new phase into the old ones and never drops one: when the *)
(* worker is idle on a live component, every pod its status has a message  *)
(* for still exists and still has a failure that outlived its timeout or  *)
(* a role probe that timed out.                                            *)
NoStaleMessageWhenIdle ==
    (Quiescent /\ IsObjectStatusUpdating) =>
        comp.msg \subseteq TimedOutPods \cup ProbeTimeoutPods

=============================================================================
