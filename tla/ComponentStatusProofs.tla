----------------------- MODULE ComponentStatusProofs -----------------------
(***************************************************************************)
(* Proofs about the component status state machine (ComponentStatus).      *)
(***************************************************************************)
EXTENDS ComponentStatus, TLAPS

-----------------------------------------------------------------------------
(* The status helpers keep the status records well typed.                  *)

LEMMA ComputedPhaseType ==
    ASSUME TypeOK
    PROVE  /\ ComputedPhase[1] \in Phases
           /\ ComputedPhase[2] \in SUBSET POD
           /\ ComputedPhase[3] \in BOOLEAN
<1>1. FailedPodMessages \in SUBSET POD
    BY DEF FailedPodMessages, TimedOutPods, ProbeTimeoutPods, Pods
<1>2. QED
    BY <1>1 DEF ComputedPhase, Phases

LEMMA SetComponentStatusPhaseType ==
    ASSUME NEW st \in CompStatus, NEW ph \in PhaseOrEmpty, NEW m \in SUBSET POD
    PROVE  SetComponentStatusPhase(st, ph, m) \in CompStatus
BY DEF SetComponentStatusPhase, CompStatus

LEMMA SyncType ==
    ASSUME NEW cst \in ClusterStatus, NEW ph \in PhaseOrEmpty,
           NEW m \in SUBSET POD, NEW ready \in BOOLEAN
    PROVE  SyncComponentStatusToCluster(cst, ph, m, ready) \in ClusterStatus
<1>1. ClusterPhaseOf(ph) \in PhaseOrEmpty
    BY DEF ClusterPhaseOf, PhaseOrEmpty, Phases
<1>2. SetClusterStatusPhase(cst, ClusterPhaseOf(ph), m) \in ClusterStatus
    BY <1>1 DEF SetClusterStatusPhase, ClusterStatus
<1>3. ASSUME NEW c \in ClusterStatus PROVE UpdatePodsReady(c, ready) \in ClusterStatus
    BY DEF UpdatePodsReady, ClusterStatus
<1>4. QED
    BY <1>2, <1>3 DEF SyncComponentStatusToCluster

-----------------------------------------------------------------------------
(* Type correctness.                                                       *)

(* One field of a Component or Cluster object overwritten in its domain.   *)

LEMMA CompExceptPhase ==
    ASSUME NEW c \in CompType, NEW x \in PhaseOrEmpty
    PROVE  [c EXCEPT !.phase = x] \in CompType
BY DEF CompType

LEMMA CompExceptMsg ==
    ASSUME NEW c \in CompType, NEW x \in SUBSET POD
    PROVE  [c EXCEPT !.msg = x] \in CompType
BY DEF CompType

LEMMA CompExceptObsGen ==
    ASSUME NEW c \in CompType, NEW x \in 0..MaxGen
    PROVE  [c EXCEPT !.obsGen = x] \in CompType
BY DEF CompType

LEMMA CompBumpRV ==
    ASSUME NEW c \in CompType
    PROVE  [c EXCEPT !.rv = c.rv + 1] \in CompType
BY DEF CompType

LEMMA ClusterExceptPhase ==
    ASSUME NEW c \in ClusterType, NEW x \in PhaseOrEmpty
    PROVE  [c EXCEPT !.phase = x] \in ClusterType
BY DEF ClusterType

LEMMA ClusterExceptMsg ==
    ASSUME NEW c \in ClusterType, NEW x \in SUBSET POD
    PROVE  [c EXCEPT !.msg = x] \in ClusterType
BY DEF ClusterType

LEMMA ClusterExceptPodsReady ==
    ASSUME NEW c \in ClusterType, NEW x \in {"nil", "true", "false"}
    PROVE  [c EXCEPT !.podsReady = x] \in ClusterType
BY DEF ClusterType

LEMMA ClusterBumpRV ==
    ASSUME NEW c \in ClusterType
    PROVE  [c EXCEPT !.rv = c.rv + 1] \in ClusterType
BY DEF ClusterType

(* A status write of the plan keeps the stored object well typed.          *)

LEMMA WriteCompType ==
    ASSUME NEW c \in CompType, NEW st \in CompStatus
    PROVE  WriteComp(c, st) \in CompType
<1> DEFINE c1 == [c EXCEPT !.phase = st.phase]
           c2 == [c1 EXCEPT !.msg = st.msg]
           c3 == [c2 EXCEPT !.obsGen = st.obsGen]
<1>1. st.phase \in PhaseOrEmpty /\ st.msg \in SUBSET POD
      /\ st.obsGen \in 0..MaxGen
    BY DEF CompStatus
<1>2. c1 \in CompType
    BY <1>1, CompExceptPhase
<1>3. c2 \in CompType
    BY <1>1, <1>2, CompExceptMsg
<1>4. c3 \in CompType
    BY <1>1, <1>3, CompExceptObsGen
<1>5. [c3 EXCEPT !.rv = c3.rv + 1] \in CompType
    BY <1>4, CompBumpRV
<1>6. QED
    BY <1>5 DEF WriteComp

LEMMA WriteClusterType ==
    ASSUME NEW c \in ClusterType, NEW st \in ClusterStatus
    PROVE  WriteCluster(c, st) \in ClusterType
<1> DEFINE c1 == [c EXCEPT !.phase = st.phase]
           c2 == [c1 EXCEPT !.msg = st.msg]
           c3 == [c2 EXCEPT !.podsReady = st.podsReady]
<1>1. st.phase \in PhaseOrEmpty /\ st.msg \in SUBSET POD
      /\ st.podsReady \in {"nil", "true", "false"}
    BY DEF ClusterStatus
<1>2. c1 \in ClusterType
    BY <1>1, ClusterExceptPhase
<1>3. c2 \in ClusterType
    BY <1>1, <1>2, ClusterExceptMsg
<1>4. c3 \in ClusterType
    BY <1>1, <1>3, ClusterExceptPodsReady
<1>5. [c3 EXCEPT !.rv = c3.rv + 1] \in ClusterType
    BY <1>4, ClusterBumpRV
<1>6. QED
    BY <1>5 DEF WriteCluster

-----------------------------------------------------------------------------
(* Type correctness, one lemma per action of Next.                         *)

LEMMA InitTypeOK == Init => TypeOK
<1> SUFFICES ASSUME Init PROVE TypeOK
    OBVIOUS
<1>1. comp \in CompType
    <2>1. PICK r \in 0..MaxReplicas :
              comp = [gen |-> 1, replicas |-> r, deleting |-> FALSE, rv |-> 1,
                      phase |-> "", msg |-> {}, obsGen |-> 0]
        BY DEF Init
    <2>2. 1 \in 1..MaxGen /\ 0 \in 0..MaxGen
        BY ConstantsAssumption
    <2>3. "" \in PhaseOrEmpty
        BY DEF PhaseOrEmpty
    <2>4. QED
        BY <2>1, <2>2, <2>3 DEF CompType
<1>2. cluster \in ClusterType
    BY DEF Init, ClusterType, PhaseOrEmpty
<1>3. rsm \in RSMType
    <2>1. 0 \in 0..MaxReplicas /\ 0 \in 0..2
        BY ConstantsAssumption
    <2>2. QED
        BY <2>1 DEF Init, RSMType
<1>4. pods \in [POD -> PodState]
    BY DEF Init, PodState, NoPod
<1>5. world \in WorldType
    BY DEF Init, WorldType
<1>6. plan \in Plans
    BY DEF Init, Plans
<1>7. envSteps \in 0..MaxEnvSteps /\ faults \in 0..MaxFaults
    <2>1. 0 \in 0..MaxEnvSteps /\ 0 \in 0..MaxFaults
        BY ConstantsAssumption
    <2>2. QED
        BY <2>1 DEF Init
<1>8. QED
    BY <1>1, <1>2, <1>3, <1>4, <1>5, <1>6, <1>7 DEF Init, TypeOK

LEMMA BuildTypeOK == TypeOK /\ Build => TypeOK'
<1> SUFFICES ASSUME TypeOK, Build PROVE TypeOK'
    OBVIOUS
<1>1. CompStatusOf(comp) \in CompStatus
    BY DEF TypeOK, CompType, CompStatusOf, CompStatus
<1>2. ClusterStatusOf(cluster) \in ClusterStatus
    BY DEF TypeOK, ClusterType, ClusterStatusOf, ClusterStatus
<1>3. comp.gen \in 0..MaxGen /\ comp.rv \in Nat /\ cluster.rv \in Nat
    BY ConstantsAssumption DEF TypeOK, CompType, ClusterType
<1>4. [CompStatusOf(comp) EXCEPT !.obsGen = comp.gen] \in CompStatus
    BY <1>1, <1>3 DEF CompStatus
<1>5. SetComponentStatusPhase(CompStatusOf(comp), ComputedPhase[1],
                              ComputedPhase[2]) \in CompStatus
    BY <1>1, ComputedPhaseType, SetComponentStatusPhaseType DEF PhaseOrEmpty
<1>6. LET nc == SetComponentStatusPhase(CompStatusOf(comp), ComputedPhase[1],
                                        ComputedPhase[2])
      IN  SyncComponentStatusToCluster(ClusterStatusOf(cluster),
                                       nc.phase, nc.msg, ComputedPhase[3])
            \in ClusterStatus
    BY <1>2, <1>5, ComputedPhaseType, SyncType DEF CompStatus
<1>7. plan' \in Plans
    <2>1. [staged |-> TRUE,
           comp |-> [CompStatusOf(comp) EXCEPT !.obsGen = comp.gen],
           compRV |-> comp.rv,
           cluster |-> ClusterStatusOf(cluster),
           clusterRV |-> cluster.rv] \in Plans
        BY <1>2, <1>3, <1>4 DEF Plans
    <2>2. LET nc == SetComponentStatusPhase(CompStatusOf(comp),
                                            ComputedPhase[1], ComputedPhase[2])
          IN  [staged |-> TRUE,
               comp |-> nc,
               compRV |-> comp.rv,
               cluster |-> SyncComponentStatusToCluster(
                              ClusterStatusOf(cluster),
                              nc.phase, nc.msg, ComputedPhase[3]),
               clusterRV |-> cluster.rv] \in Plans
        BY <1>3, <1>5, <1>6 DEF Plans
    <2>3. QED
        BY <2>1, <2>2 DEF Build, TypeOK
<1>8. pending' \in BOOLEAN /\ panicked' \in BOOLEAN
    BY DEF Build, TypeOK
<1>9. QED
    BY <1>7, <1>8 DEF Build, TypeOK

LEMMA BuildReadErrorTypeOK == TypeOK /\ BuildReadError => TypeOK'
<1> SUFFICES ASSUME TypeOK, BuildReadError PROVE TypeOK'
    OBVIOUS
<1>1. faults' \in 0..MaxFaults
    BY ConstantsAssumption DEF TypeOK, BuildReadError
<1>2. QED
    BY <1>1 DEF TypeOK, BuildReadError

LEMMA ExecuteTypeOK == TypeOK /\ Execute => TypeOK'
<1> SUFFICES ASSUME TypeOK, Execute PROVE TypeOK'
    OBVIOUS
<1>1. plan \in [staged : {TRUE}, comp : CompStatus, compRV : Nat,
                cluster : ClusterStatus, clusterRV : Nat]
    BY DEF Execute, TypeOK, Plans, NoPlan
<1>2. comp' \in CompType
    <2>1. WriteComp(comp, plan.comp) \in CompType
        BY <1>1, WriteCompType DEF TypeOK
    <2>2. QED
        BY <2>1 DEF Execute, TypeOK
<1>3. cluster' \in ClusterType
    <2>1. WriteCluster(cluster, plan.cluster) \in ClusterType
        BY <1>1, WriteClusterType DEF TypeOK
    <2>2. QED
        BY <2>1 DEF Execute, TypeOK
<1>4. faults' \in 0..MaxFaults
    BY ConstantsAssumption DEF TypeOK, Execute
<1>5. plan' \in Plans /\ pending' \in BOOLEAN
    BY DEF Execute, Plans, Requeue, TypeOK
<1>6. QED
    BY <1>2, <1>3, <1>4, <1>5 DEF Execute, TypeOK

LEMMA EnvStepTypeOK ==
    ASSUME TypeOK, NEW objs, EnvStep(objs)
    PROVE  envSteps' \in 0..MaxEnvSteps
BY ConstantsAssumption DEF TypeOK, EnvStep

LEMMA EnvironmentTypeOK == TypeOK /\ Environment => TypeOK'
<1> SUFFICES ASSUME TypeOK, Environment PROVE TypeOK'
    OBVIOUS
<1>1. ASSUME NEW p \in POD, PodCreate(p) \/ PodDelete(p) \/ PodFail(p)
                            \/ PodReady(p) \/ PodSetRole(p)
      PROVE  TypeOK'
    <2>1. pods[p] \in PodState
        BY DEF TypeOK
    <2>2. pods' \in [POD -> PodState]
        <3>1. CASE PodCreate(p)
            <4>1. [NoPod EXCEPT !.exists = TRUE] \in PodState
                BY DEF NoPod, PodState
            <4>2. QED
                BY <3>1, <4>1 DEF TypeOK, PodCreate
        <3>2. CASE PodDelete(p)
            <4>1. NoPod \in PodState
                BY DEF NoPod, PodState
            <4>2. QED
                BY <3>2, <4>1 DEF TypeOK, PodDelete
        <3>3. CASE PodFail(p)
            <4>1. [pods[p] EXCEPT !.fail = "failing", !.ready = "no"] \in PodState
                BY <2>1 DEF PodState
            <4>2. QED
                BY <3>3, <4>1 DEF TypeOK, PodFail
        <3>4. CASE PodReady(p)
            <4>1. [pods[p] EXCEPT !.fail = "none", !.ready = "fresh"] \in PodState
                BY <2>1 DEF PodState
            <4>2. QED
                BY <3>4, <4>1 DEF TypeOK, PodReady
        <3>5. CASE PodSetRole(p)
            <4>1. PICK r \in {"none", "leader", "follower"} :
                      pods' = [pods EXCEPT ![p].role = r]
                BY <3>5 DEF PodSetRole
            <4>2. [pods[p] EXCEPT !.role = r] \in PodState
                BY <2>1 DEF PodState
            <4>3. QED
                BY <4>1, <4>2 DEF TypeOK
        <3>6. QED
            BY <1>1, <3>1, <3>2, <3>3, <3>4, <3>5
    <2>3. envSteps' \in 0..MaxEnvSteps
        BY <1>1, EnvStepTypeOK DEF PodCreate, PodDelete, PodFail, PodReady,
                                   PodSetRole
    <2>4. QED
        BY <1>1, <2>2, <2>3 DEF TypeOK, PodCreate, PodDelete, PodFail,
                                PodReady, PodSetRole, EnvStep
<1>2. ASSUME NEW p \in POD, PodAge(p) PROVE TypeOK'
    <2>1. pods' \in [POD -> PodState]
        BY <1>2 DEF TypeOK, PodAge, PodState
    <2>2. QED
        BY <1>2, <2>1 DEF TypeOK, PodAge
<1>3. CASE RSMChange
    <2>1. rsm' \in RSMType
        BY <1>3 DEF RSMChange, RSMType
    <2>2. QED
        BY <1>3, <2>1, EnvStepTypeOK DEF TypeOK, RSMChange, EnvStep
<1>4. CASE WorldChange
    <2>1. world' \in WorldType
        BY <1>4 DEF WorldChange, WorldType
    <2>2. QED
        BY <1>4, <2>1, EnvStepTypeOK DEF TypeOK, WorldChange, EnvStep
<1>5. CASE UserUpdateSpec
    <2>1. comp' \in CompType
        <3>1. PICK r \in 0..MaxReplicas :
                  comp' = [comp EXCEPT !.gen = @ + 1, !.replicas = r,
                                       !.rv = @ + 1]
            BY <1>5 DEF UserUpdateSpec
        <3>2. comp.gen + 1 \in 1..MaxGen
            <4>1. comp.gen \in 1..MaxGen
                BY DEF TypeOK, CompType
            <4>2. comp.gen < MaxGen
                BY <1>5 DEF UserUpdateSpec
            <4>3. QED
                BY <4>1, <4>2, ConstantsAssumption
        <3> DEFINE c1 == [comp EXCEPT !.gen = comp.gen + 1]
                   c2 == [c1 EXCEPT !.replicas = r]
        <3>3. c1 \in CompType
            BY <3>2 DEF TypeOK, CompType
        <3>4. c2 \in CompType
            BY <3>3 DEF CompType
        <3>5. QED
            BY <3>1, <3>4, CompBumpRV
    <2>2. QED
        BY <1>5, <2>1, EnvStepTypeOK DEF TypeOK, UserUpdateSpec, EnvStep
<1>6. CASE UserDeleteComp
    <2>1. comp' \in CompType
        <3> DEFINE c1 == [comp EXCEPT !.deleting = TRUE]
        <3>1. c1 \in CompType
            BY DEF TypeOK, CompType
        <3>2. QED
            BY <1>6, <3>1, CompBumpRV DEF UserDeleteComp
    <2>2. QED
        BY <1>6, <2>1, EnvStepTypeOK DEF TypeOK, UserDeleteComp, EnvStep
<1>7. CASE ClusterWrite
    <2>1. cluster' \in ClusterType
        BY <1>7 DEF TypeOK, ClusterWrite, ClusterType
    <2>2. QED
        BY <1>7, <2>1, EnvStepTypeOK DEF TypeOK, ClusterWrite, EnvStep
<1>8. QED
    BY <1>1, <1>2, <1>3, <1>4, <1>5, <1>6, <1>7 DEF Environment

(* Every state the controller and its environment can reach is well typed: *)
(* the phases, message maps, generations and ready flags written by the    *)
(* status transformer and the plan executor stay in their domains.         *)
THEOREM TypeCorrect == Spec => []TypeOK
<1>1. Init => TypeOK
    BY InitTypeOK
<1>2. TypeOK /\ [Next]_vars => TypeOK'
    BY BuildTypeOK, BuildReadErrorTypeOK, ExecuteTypeOK, EnvironmentTypeOK
    DEF Next, vars, TypeOK
<1>3. QED
    BY <1>1, <1>2, PTL DEF Spec


-----------------------------------------------------------------------------
(* The cluster mirror.  ClusterMirrorsComponent is not inductive: an idle  *)
(* worker may be reached by executing a staged plan, so the plan must      *)
(* carry the mirror it is going to write.  A plan staged by the status     *)
(* branch (it keeps observedGeneration) writes a cluster phase that is the *)
(* image of the component phase it writes; a plan staged by the            *)
(* observedGeneration branch changes the Component and so requeues.       *)

StagedPlanOK ==
    (plan # NoPlan /\ ~pending /\ plan.comp.obsGen = comp.obsGen) =>
        /\ comp.obsGen = comp.gen
        /\ plan.cluster.phase = ClusterPhaseOf(plan.comp.phase)

MirrorInv == TypeOK /\ ClusterMirrorsComponent /\ StagedPlanOK

LEMMA SyncPhase ==
    ASSUME NEW cst \in ClusterStatus, NEW ph \in PhaseOrEmpty,
           NEW m \in SUBSET POD, NEW ready \in BOOLEAN
    PROVE  SyncComponentStatusToCluster(cst, ph, m, ready).phase
             = ClusterPhaseOf(ph)
<1> DEFINE cph == ClusterPhaseOf(ph)
           c1 == SetClusterStatusPhase(cst, cph, m)
<1>1. cph \in PhaseOrEmpty
    BY DEF ClusterPhaseOf, PhaseOrEmpty, Phases
<1>2. c1 \in ClusterStatus /\ c1.phase = cph
    <2>1. CASE cst.phase = cph
        BY <2>1 DEF SetClusterStatusPhase
    <2>2. CASE cst.phase # cph
        <3>1. c1 = [cst EXCEPT !.phase = cph, !.msg = cst.msg \cup m]
            BY <2>2 DEF SetClusterStatusPhase
        <3>2. QED
            BY <1>1, <3>1, Zenon DEF ClusterStatus
    <2>3. QED
        BY <2>1, <2>2
<1>3. ASSUME NEW c \in ClusterStatus
      PROVE  UpdatePodsReady(c, ready).phase = c.phase
    BY DEF UpdatePodsReady, ClusterStatus
<1>4. QED
    BY <1>2, <1>3 DEF SyncComponentStatusToCluster

(* A status write that leaves the Component as it was found the stored     *)
(* status already equal to the plan's.                                     *)
LEMMA WriteCompNoop ==
    ASSUME NEW c \in CompType, NEW st, WriteComp(c, st) = c
    PROVE  CompStatusOf(c) = st
<1> SUFFICES ASSUME CompStatusOf(c) # st PROVE FALSE
    OBVIOUS
<1>1. WriteComp(c, st).rv = c.rv + 1
    BY DEF WriteComp, CompType
<1>2. c.rv \in Nat
    BY DEF CompType
<1>3. QED
    BY <1>1, <1>2

LEMMA WriteClusterPhase ==
    ASSUME NEW c \in ClusterType, NEW st \in ClusterStatus
    PROVE  WriteCluster(c, st).phase = st.phase
BY DEF WriteCluster, ClusterStatusOf, ClusterType, ClusterStatus

LEMMA InitMirror == Init => MirrorInv
<1> SUFFICES ASSUME Init PROVE MirrorInv
    OBVIOUS
<1>1. TypeOK
    BY InitTypeOK
<1>2. ClusterMirrorsComponent
    BY DEF Init, ClusterMirrorsComponent, Quiescent
<1>3. StagedPlanOK
    BY DEF Init, StagedPlanOK
<1>4. QED
    BY <1>1, <1>2, <1>3 DEF MirrorInv

LEMMA BuildMirror == MirrorInv /\ Build => MirrorInv'
<1> SUFFICES ASSUME MirrorInv, Build PROVE MirrorInv'
    OBVIOUS
<1>1. TypeOK'
    BY BuildTypeOK DEF MirrorInv
<1>2. UNCHANGED <<comp, cluster>>
    BY DEF Build
<1>3. CASE pending' = TRUE
    BY <1>1, <1>3 DEF MirrorInv, ClusterMirrorsComponent, Quiescent,
                      StagedPlanOK
<1>4. CASE pending' = FALSE
    <2>1. plan = NoPlan
        BY DEF Build
    <2>2. CASE comp.deleting
        <3>1. plan' = NoPlan
            BY <1>4, <2>1, <2>2 DEF Build, IsObjectStatusUpdating
        <3>2. ~IsObjectStatusUpdating'
            BY <1>2, <2>2 DEF IsObjectStatusUpdating
        <3>3. QED
            BY <1>1, <3>1, <3>2 DEF MirrorInv, ClusterMirrorsComponent,
                                    StagedPlanOK
    <2>3. CASE ~comp.deleting /\ IsObjectUpdating
        <3>1. plan' = [staged |-> TRUE,
                       comp |-> [CompStatusOf(comp) EXCEPT !.obsGen = comp.gen],
                       compRV |-> comp.rv,
                       cluster |-> ClusterStatusOf(cluster),
                       clusterRV |-> cluster.rv]
            BY <1>4, <2>3 DEF Build, IsObjectStatusUpdating
        <3>2. plan'.comp.obsGen # comp'.obsGen
            BY <1>2, <2>3, <3>1 DEF IsObjectUpdating, CompStatusOf
        <3>3. plan' # NoPlan
            BY <3>1 DEF NoPlan
        <3>4. QED
            BY <1>1, <3>2, <3>3 DEF MirrorInv, ClusterMirrorsComponent,
                                    Quiescent, StagedPlanOK
    <2>4. CASE ~comp.deleting /\ ~IsObjectUpdating
        <3> DEFINE nc == SetComponentStatusPhase(CompStatusOf(comp),
                                                 ComputedPhase[1],
                                                 ComputedPhase[2])
                   ncl == SyncComponentStatusToCluster(ClusterStatusOf(cluster),
                                                       nc.phase, nc.msg,
                                                       ComputedPhase[3])
        <3>1. plan' = [staged |-> TRUE, comp |-> nc, compRV |-> comp.rv,
                       cluster |-> ncl, clusterRV |-> cluster.rv]
            BY <1>4, <2>4 DEF Build, IsObjectStatusUpdating
        <3>2. comp.obsGen = comp.gen
            BY <2>4 DEF IsObjectUpdating
        <3>3. ncl.phase = ClusterPhaseOf(nc.phase)
            <4>1. ClusterStatusOf(cluster) \in ClusterStatus
                BY DEF MirrorInv, TypeOK, ClusterType, ClusterStatusOf,
                       ClusterStatus
            <4>2. CompStatusOf(comp) \in CompStatus
                BY DEF MirrorInv, TypeOK, CompType, CompStatusOf, CompStatus
            <4>3. /\ ComputedPhase[1] \in PhaseOrEmpty
                  /\ ComputedPhase[2] \in SUBSET POD
                  /\ ComputedPhase[3] \in BOOLEAN
                BY ComputedPhaseType DEF MirrorInv, PhaseOrEmpty
            <4>4. nc \in CompStatus
                BY <4>2, <4>3, SetComponentStatusPhaseType
            <4>5. nc.phase \in PhaseOrEmpty /\ nc.msg \in SUBSET POD
                BY <4>4 DEF CompStatus
            <4>6. QED
                BY <4>1, <4>3, <4>5, SyncPhase
        <3>4. plan' # NoPlan
            BY <3>1 DEF NoPlan
        <3>5. QED
            BY <1>1, <1>2, <3>1, <3>2, <3>3, <3>4
            DEF MirrorInv, ClusterMirrorsComponent, Quiescent, StagedPlanOK
    <2>5. QED
        BY <2>2, <2>3, <2>4
<1>5. QED
    BY <1>1, <1>3, <1>4 DEF TypeOK

LEMMA ExecuteMirror == MirrorInv /\ Execute => MirrorInv'
<1> SUFFICES ASSUME MirrorInv, Execute PROVE MirrorInv'
    OBVIOUS
<1>1. TypeOK'
    BY ExecuteTypeOK DEF MirrorInv
<1>2. plan' = NoPlan
    BY DEF Execute
<1>3. PICK order \in {<<"comp", "cluster">>, <<"cluster", "comp">>},
           failAt \in 1..3 :
        /\ comp' = IF \E i \in 1..2 : i < failAt /\ order[i] = "comp"
                   THEN WriteComp(comp, plan.comp) ELSE comp
        /\ cluster' = IF \E i \in 1..2 : i < failAt /\ order[i] = "cluster"
                      THEN WriteCluster(cluster, plan.cluster) ELSE cluster
        /\ pending' = (pending \/ Requeue(failAt <= 2, comp' # comp))
    BY DEF Execute
<1>4. CASE pending' = TRUE
    BY <1>1, <1>2, <1>4 DEF MirrorInv, ClusterMirrorsComponent, Quiescent,
                            StagedPlanOK
<1>5. CASE pending' = FALSE
    <2>1. ~pending /\ failAt = 3 /\ comp' = comp
        <3>1. ~pending /\ ~(failAt <= 2) /\ comp' = comp
            BY <1>3, <1>5, Zenon DEF Requeue
        <3>2. QED
            BY <1>3, <3>1
    <2>2. /\ comp' = WriteComp(comp, plan.comp)
          /\ cluster' = WriteCluster(cluster, plan.cluster)
        BY <1>3, <2>1
    <2>3. plan \in [staged : {TRUE}, comp : CompStatus, compRV : Nat,
                    cluster : ClusterStatus, clusterRV : Nat]
        BY DEF Execute, MirrorInv, TypeOK, Plans, NoPlan
    <2>4. CompStatusOf(comp) = plan.comp
        BY <2>1, <2>2, WriteCompNoop DEF MirrorInv, TypeOK
    <2>5. /\ comp.obsGen = comp.gen
          /\ plan.cluster.phase = ClusterPhaseOf(plan.comp.phase)
        <3>1. plan # NoPlan
            BY DEF Execute
        <3>2. plan.comp.obsGen = comp.obsGen
            BY <2>4 DEF CompStatusOf
        <3>3. QED
            BY <2>1, <3>1, <3>2 DEF MirrorInv, StagedPlanOK
    <2>6. cluster'.phase = plan.cluster.phase
        BY <2>2, <2>3, WriteClusterPhase DEF MirrorInv, TypeOK
    <2>7. comp'.phase = plan.comp.phase
        BY <2>1, <2>4 DEF CompStatusOf
    <2>8. ClusterMirrorsComponent'
        BY <2>5, <2>6, <2>7 DEF ClusterMirrorsComponent
    <2>9. QED
        BY <1>1, <1>2, <2>8 DEF MirrorInv, StagedPlanOK
<1>6. QED
    BY <1>3, <1>4, <1>5 DEF Requeue

LEMMA BuildReadErrorMirror == MirrorInv /\ BuildReadError => MirrorInv'
<1> SUFFICES ASSUME MirrorInv, BuildReadError PROVE MirrorInv'
    OBVIOUS
<1>1. TypeOK'
    BY BuildReadErrorTypeOK DEF MirrorInv
<1>2. QED
    BY <1>1 DEF BuildReadError, MirrorInv, ClusterMirrorsComponent, Quiescent,
                StagedPlanOK, IsObjectStatusUpdating, IsObjectUpdating

LEMMA EnvironmentMirror == MirrorInv /\ Environment => MirrorInv'
<1> SUFFICES ASSUME MirrorInv, Environment PROVE MirrorInv'
    OBVIOUS
<1>1. TypeOK'
    BY EnvironmentTypeOK DEF MirrorInv
<1>2. CASE pending' = TRUE
    BY <1>1, <1>2 DEF MirrorInv, ClusterMirrorsComponent, Quiescent,
                      StagedPlanOK
<1>3. ASSUME NEW p \in POD, PodAge(p) PROVE MirrorInv'
    BY <1>1, <1>3 DEF PodAge, MirrorInv, ClusterMirrorsComponent, Quiescent,
                      StagedPlanOK, IsObjectStatusUpdating, IsObjectUpdating
<1>4. CASE ClusterWrite
    <2>1. cluster'.phase = cluster.phase
        BY <1>4 DEF ClusterWrite, MirrorInv, TypeOK, ClusterType
    <2>2. QED
        BY <1>1, <1>4, <2>1 DEF ClusterWrite, EnvStep, MirrorInv,
           ClusterMirrorsComponent, Quiescent, StagedPlanOK,
           IsObjectStatusUpdating, IsObjectUpdating
<1>5. ASSUME NEW p \in POD, PodCreate(p) \/ PodDelete(p) \/ PodFail(p)
                            \/ PodReady(p) \/ PodSetRole(p)
      PROVE  pending' = TRUE
    BY <1>5 DEF PodCreate, PodDelete, PodFail, PodReady, PodSetRole
<1>6. (RSMChange \/ WorldChange \/ UserUpdateSpec \/ UserDeleteComp)
        => pending' = TRUE
    BY DEF RSMChange, WorldChange, UserUpdateSpec, UserDeleteComp
<1>7. QED
    BY <1>2, <1>3, <1>4, <1>5, <1>6 DEF Environment

(* The invariant MirrorInv is inductive.                                   *)
LEMMA MirrorInductive == MirrorInv /\ [Next]_vars => MirrorInv'
<1> SUFFICES ASSUME MirrorInv, [Next]_vars PROVE MirrorInv'
    OBVIOUS
<1>1. CASE Build
    BY <1>1, BuildMirror
<1>2. CASE BuildReadError
    BY <1>2, BuildReadErrorMirror
<1>3. CASE Execute
    BY <1>3, ExecuteMirror
<1>4. CASE Environment
    BY <1>4, EnvironmentMirror
<1>5. CASE UNCHANGED vars
    BY <1>5 DEF vars, MirrorInv, TypeOK, ClusterMirrorsComponent, Quiescent,
                StagedPlanOK, IsObjectStatusUpdating, IsObjectUpdating
<1>6. QED
    BY <1>1, <1>2, <1>3, <1>4, <1>5 DEF Next

(* Whenever the worker is idle on a live component, the Cluster's entry    *)
(* for it shows the component's phase (ClusterPhaseOf): the two separate   *)
(* Status().Update calls of componentWalkFunc, a conflict with the cluster *)
(* controller's writes, or a transient error between them never leave the *)
(* mirror stale without a pass queued to repair it.                        *)
THEOREM MirrorCorrect == Spec => []ClusterMirrorsComponent
<1>1. Init => MirrorInv
    BY InitMirror
<1>2. MirrorInv /\ [Next]_vars => MirrorInv'
    BY MirrorInductive
<1>3. MirrorInv => ClusterMirrorsComponent
    BY DEF MirrorInv
<1>4. QED
    BY <1>1, <1>2, <1>3, PTL DEF Spec

-----------------------------------------------------------------------------
(* The fresh status.  StatusFreshWhenIdle is not inductive either: the     *)
(* plan a status pass stages carries the phase it computed, and what makes *)
(* that phase still right when the plan runs is that every event that     *)
(* could change a time-free phase queues a pass.  Time passing (PodAge)    *)
(* queues nothing, but it only moves a pod between the failing or ready    *)
(* stages that decide among the phases that wait on a timeout.            *)

\* The phase reconcileComponentPhase computes when it is one that does not
\* wait on a timeout, "none" otherwise.
TimeFreeOf ==
    IF IsDeleting THEN "Deleting"
    ELSE IF IsZeroReplica /\ HasComponentPod THEN "Stopping"
    ELSE IF IsZeroReplica THEN "Stopped"
    ELSE IF IsRSMRunning /\ IsAllConfigSynced /\ ~HasRunningVolumeExpansion
         THEN "Running"
    ELSE "none"

\* a recorded phase that agrees with the world on the time-free phases
Fresh(x) ==
    /\ TimeFreeOf # "none" => x = TimeFreeOf
    /\ TimeFreeOf = "none" => x \notin TimeFreePhases

\* a live component the status branch of the transformer works on
StatusPass == IsObjectStatusUpdating /\ rsm.count = 1

\* the plan a status pass staged and nothing has queued a pass since
StagedStatusPlan ==
    plan # NoPlan /\ ~pending /\ plan.comp.obsGen = comp.obsGen

FreshInv ==
    /\ TypeOK
    /\ Quiescent /\ StatusPass => Fresh(comp.phase)
    /\ StagedStatusPlan /\ StatusPass => Fresh(plan.comp.phase)

\* reconcileComponentPhase computes a fresh phase.
LEMMA ComputedFresh ==
    ASSUME TypeOK PROVE Fresh(ComputedPhase[1])
BY DEF Fresh, TimeFreeOf, ComputedPhase, TimeFreePhases

\* A fresh phase is what StatusFreshWhenIdle asks of the recorded phase.
LEMMA FreshAgrees ==
    ASSUME TypeOK, NEW x, Fresh(x)
    PROVE  /\ ComputedPhase[1] \in TimeFreePhases => x = ComputedPhase[1]
           /\ ComputedPhase[1] \notin TimeFreePhases => x \notin TimeFreePhases
<1>1. Fresh(ComputedPhase[1])
    BY ComputedFresh
<1>2. QED
    BY <1>1 DEF Fresh, TimeFreePhases

\* setComponentStatusPhase always leaves the phase it is given.
LEMMA SetPhase ==
    ASSUME NEW st \in CompStatus, NEW ph, NEW m
    PROVE  SetComponentStatusPhase(st, ph, m).phase = ph
<1>1. CASE st.phase = ph
    BY <1>1 DEF SetComponentStatusPhase
<1>2. CASE st.phase # ph
    BY <1>2, Zenon DEF SetComponentStatusPhase, CompStatus
<1>3. QED
    BY <1>1, <1>2

LEMMA InitFresh == Init => FreshInv
BY InitTypeOK DEF Init, FreshInv, Quiescent, StagedStatusPlan

LEMMA BuildFresh == FreshInv /\ Build => FreshInv'
<1> SUFFICES ASSUME FreshInv, Build PROVE FreshInv'
    OBVIOUS
<1>1. TypeOK'
    BY BuildTypeOK DEF FreshInv
<1>2. UNCHANGED <<comp, rsm, pods, world>> /\ plan = NoPlan
    BY DEF Build
<1>3. CASE pending' = TRUE
    BY <1>1, <1>3 DEF FreshInv, Quiescent, StagedStatusPlan
<1>4. CASE pending' = FALSE
    <2>1. CASE comp.deleting
        <3>1. ~StatusPass'
            BY <1>2, <2>1 DEF StatusPass, IsObjectStatusUpdating
        <3>2. QED
            BY <1>1, <3>1 DEF FreshInv
    <2>2. CASE ~comp.deleting /\ IsObjectUpdating
        <3>1. plan' = [staged |-> TRUE,
                       comp |-> [CompStatusOf(comp) EXCEPT !.obsGen = comp.gen],
                       compRV |-> comp.rv,
                       cluster |-> ClusterStatusOf(cluster),
                       clusterRV |-> cluster.rv]
            BY <1>4, <2>2 DEF Build, IsObjectStatusUpdating
        <3>2. plan'.comp.obsGen # comp'.obsGen
            BY <1>2, <2>2, <3>1 DEF IsObjectUpdating, CompStatusOf
        <3>3. plan' # NoPlan
            BY <3>1 DEF NoPlan
        <3>4. QED
            BY <1>1, <3>2, <3>3 DEF FreshInv, Quiescent, StagedStatusPlan
    <2>3. CASE ~comp.deleting /\ ~IsObjectUpdating
        <3> DEFINE nc == SetComponentStatusPhase(CompStatusOf(comp),
                                                 ComputedPhase[1],
                                                 ComputedPhase[2])
                   ncl == SyncComponentStatusToCluster(ClusterStatusOf(cluster),
                                                       nc.phase, nc.msg,
                                                       ComputedPhase[3])
        <3>1. plan' = [staged |-> TRUE, comp |-> nc, compRV |-> comp.rv,
                       cluster |-> ncl, clusterRV |-> cluster.rv]
            BY <1>4, <2>3 DEF Build, IsObjectStatusUpdating
        <3>2. nc.phase = ComputedPhase[1]
            <4>1. CompStatusOf(comp) \in CompStatus
                BY DEF FreshInv, TypeOK, CompType, CompStatusOf, CompStatus
            <4>2. QED
                BY <4>1, SetPhase
        <3>3. Fresh(ComputedPhase[1])
            BY ComputedFresh DEF FreshInv
        <3>4. TimeFreeOf' = TimeFreeOf
            BY <1>2 DEF TimeFreeOf, IsDeleting, IsZeroReplica, HasComponentPod,
                        Pods, IsRSMRunning, IsAllConfigSynced,
                        HasRunningVolumeExpansion
        <3>5. plan' # NoPlan
            BY <3>1 DEF NoPlan
        <3>6. QED
            BY <1>1, <3>1, <3>2, <3>3, <3>4, <3>5 DEF FreshInv, Quiescent, Fresh
    <2>4. QED
        BY <2>1, <2>2, <2>3
<1>5. QED
    BY <1>1, <1>3, <1>4 DEF TypeOK

LEMMA ExecuteFresh == FreshInv /\ Execute => FreshInv'
<1> SUFFICES ASSUME FreshInv, Execute PROVE FreshInv'
    OBVIOUS
<1>1. TypeOK'
    BY ExecuteTypeOK DEF FreshInv
<1>2. plan' = NoPlan /\ UNCHANGED <<rsm, pods, world>>
    BY DEF Execute
<1>3. PICK order \in {<<"comp", "cluster">>, <<"cluster", "comp">>},
           failAt \in 1..3 :
        /\ comp' = IF \E i \in 1..2 : i < failAt /\ order[i] = "comp"
                   THEN WriteComp(comp, plan.comp) ELSE comp
        /\ pending' = (pending \/ Requeue(failAt <= 2, comp' # comp))
    BY DEF Execute
<1>4. CASE pending' = TRUE
    BY <1>1, <1>2, <1>4 DEF FreshInv, Quiescent, StagedStatusPlan
<1>5. CASE pending' = FALSE
    <2>1. ~pending /\ failAt = 3 /\ comp' = comp
        <3>1. ~pending /\ ~(failAt <= 2) /\ comp' = comp
            BY <1>3, <1>5, Zenon DEF Requeue
        <3>2. QED
            BY <1>3, <3>1
    <2>2. comp' = WriteComp(comp, plan.comp)
        BY <1>3, <2>1
    <2>3. CompStatusOf(comp) = plan.comp
        BY <2>1, <2>2, WriteCompNoop DEF FreshInv, TypeOK
    <2>4. StagedStatusPlan
        BY <2>1, <2>3 DEF Execute, StagedStatusPlan, CompStatusOf
    <2>5. TimeFreeOf' = TimeFreeOf
        BY <1>2, <2>1 DEF TimeFreeOf, IsDeleting, IsZeroReplica, HasComponentPod,
                          Pods, IsRSMRunning, IsAllConfigSynced,
                          HasRunningVolumeExpansion
    <2>6. StatusPass' => StatusPass
        BY <1>2, <2>1 DEF StatusPass, IsObjectStatusUpdating, IsObjectUpdating
    <2>7. StatusPass' => Fresh(comp.phase)
        BY <2>3, <2>4, <2>6 DEF FreshInv, CompStatusOf
    <2>8. QED
        BY <1>1, <1>2, <2>1, <2>5, <2>7 DEF FreshInv, StagedStatusPlan, Fresh
<1>6. QED
    BY <1>1, <1>4, <1>5 DEF TypeOK

LEMMA BuildReadErrorFresh == FreshInv /\ BuildReadError => FreshInv'
<1> SUFFICES ASSUME FreshInv, BuildReadError PROVE FreshInv'
    OBVIOUS
<1>1. TypeOK'
    BY BuildReadErrorTypeOK DEF FreshInv
<1>2. QED
    BY <1>1 DEF BuildReadError, FreshInv, Quiescent, StagedStatusPlan

\* Time passing for a pod queues nothing, and leaves the time-free phase
\* where it was.
LEMMA PodAgeFresh ==
    ASSUME NEW p \in POD, FreshInv, PodAge(p) PROVE FreshInv'
<1>1. TypeOK'
    BY EnvironmentTypeOK DEF FreshInv, Environment
<1>2. \A q \in POD : pods'[q].exists = pods[q].exists
    <2>1. pods \in [POD -> PodState]
        BY DEF FreshInv, TypeOK
    <2>2. CASE pods' = [pods EXCEPT ![p].fail = "timedOut"]
        BY <2>1, <2>2 DEF PodState
    <2>3. CASE pods' = [pods EXCEPT ![p].ready = "aged"]
        BY <2>1, <2>3 DEF PodState
    <2>4. QED
        BY <2>2, <2>3 DEF PodAge
<1>3. Pods' = Pods
    BY <1>2 DEF Pods
<1>4. TimeFreeOf' = TimeFreeOf
    BY <1>3 DEF PodAge, TimeFreeOf, IsDeleting, IsZeroReplica, HasComponentPod,
                IsRSMRunning, IsAllConfigSynced, HasRunningVolumeExpansion
<1>5. QED
    BY <1>1, <1>4 DEF PodAge, FreshInv, Fresh, Quiescent, StagedStatusPlan,
                      StatusPass, IsObjectStatusUpdating, IsObjectUpdating

LEMMA EnvironmentFresh == FreshInv /\ Environment => FreshInv'
<1> SUFFICES ASSUME FreshInv, Environment PROVE FreshInv'
    OBVIOUS
<1>1. TypeOK'
    BY EnvironmentTypeOK DEF FreshInv
<1>2. CASE pending' = TRUE
    BY <1>1, <1>2 DEF FreshInv, Quiescent, StagedStatusPlan
<1>3. ASSUME NEW p \in POD, PodAge(p) PROVE FreshInv'
    BY <1>3, PodAgeFresh
<1>4. CASE ClusterWrite
    BY <1>1, <1>4 DEF ClusterWrite, EnvStep, FreshInv, Fresh, TimeFreeOf,
       IsDeleting, IsZeroReplica, HasComponentPod, Pods, IsRSMRunning,
       IsAllConfigSynced, HasRunningVolumeExpansion, Quiescent,
       StagedStatusPlan, StatusPass, IsObjectStatusUpdating, IsObjectUpdating
<1>5. ASSUME NEW p \in POD, PodCreate(p) \/ PodDelete(p) \/ PodFail(p)
                            \/ PodReady(p) \/ PodSetRole(p)
      PROVE  pending' = TRUE
    BY <1>5 DEF PodCreate, PodDelete, PodFail, PodReady, PodSetRole
<1>6. (RSMChange \/ WorldChange \/ UserUpdateSpec \/ UserDeleteComp)
        => pending' = TRUE
    BY DEF RSMChange, WorldChange, UserUpdateSpec, UserDeleteComp
<1>7. QED
    BY <1>2, <1>3, <1>4, <1>5, <1>6 DEF Environment

(* The invariant FreshInv is inductive.                                    *)
LEMMA FreshInductive == FreshInv /\ [Next]_vars => FreshInv'
<1> SUFFICES ASSUME FreshInv, [Next]_vars PROVE FreshInv'
    OBVIOUS
<1>1. CASE Build
    BY <1>1, BuildFresh
<1>2. CASE BuildReadError
    BY <1>2, BuildReadErrorFresh
<1>3. CASE Execute
    BY <1>3, ExecuteFresh
<1>4. CASE Environment
    BY <1>4, EnvironmentFresh
<1>5. CASE UNCHANGED vars
    BY <1>5 DEF vars, FreshInv, TypeOK, Fresh, TimeFreeOf, IsDeleting,
                IsZeroReplica, HasComponentPod, Pods, IsRSMRunning,
                IsAllConfigSynced, HasRunningVolumeExpansion, Quiescent,
                StagedStatusPlan, StatusPass, IsObjectStatusUpdating,
                IsObjectUpdating
<1>6. QED
    BY <1>1, <1>2, <1>3, <1>4, <1>5 DEF Next

(* Whenever the worker is idle on a live component with one workload, the  *)
(* recorded phase is Running, Stopped, Stopping or Deleting exactly when a *)
(* pass would compute that phase from the world now: a pod event, an RSM   *)
(* change, a spec edit, a conflict or a Build from a world that moved      *)
(* before its plan ran never leaves a time-free phase stale with no pass  *)
(* queued to fix it.                                                       *)
THEOREM StatusFreshCorrect == Spec => []StatusFreshWhenIdle
<1>1. FreshInv => StatusFreshWhenIdle
    <2> SUFFICES ASSUME FreshInv, Quiescent, IsObjectStatusUpdating,
                        rsm.count = 1
                 PROVE  LET c == ComputedPhase[1] IN
                        /\ c \in TimeFreePhases => comp.phase = c
                        /\ c \notin TimeFreePhases => comp.phase \notin TimeFreePhases
        BY DEF StatusFreshWhenIdle
    <2>1. Fresh(comp.phase)
        BY DEF FreshInv, StatusPass
    <2>2. QED
        BY <2>1, FreshAgrees DEF FreshInv
<1>2. QED
    BY <1>1, InitFresh, FreshInductive, PTL DEF Spec

=============================================================================
