---------------------- MODULE CompDefControllerProofs ----------------------
(***************************************************************************)
(* Proofs about the ComponentDefinition controller (CompDefController).    *)
(***************************************************************************)
EXTENDS CompDefController, TLAPS

-----------------------------------------------------------------------------
(* The inductive invariant.  A reconcile in flight read a state of the    *)
(* definition: it still exists if the definition does, its generation is  *)
(* no newer and its observedGeneration no older than the stored ones, and *)
(* the stored definition is exactly the copy read unless an event has      *)
(* queued another reconcile since.                                         *)

ReadConsistent ==
    /\ read \in CmpdState
    /\ read.exists
    /\ read.deleting => read.fin
    /\ cmpd.exists => read.gen <= cmpd.gen /\ cmpd.obsGen <= read.gen
    /\ read.deleting => cmpd.deleting \/ ~cmpd.exists
    /\ ~pending => cmpd = read

IInv ==
    /\ TypeOK
    /\ cmpd.deleting => cmpd.exists /\ cmpd.fin
    /\ ~cmpd.exists => cmpd = Gone
    /\ cmpd.exists => cmpd.obsGen <= cmpd.gen
    /\ busy => ReadConsistent
    /\ CmpdStatusFreshWhenIdle

-----------------------------------------------------------------------------
(* The writes of the controller keep the definition well typed.  The       *)
(* provers handle one field of a record at a time, so every write is taken *)
(* apart into single-field updates.                                        *)

USE ConstantsAssumption

LEMMA GoneType == Gone \in CmpdState
<1>1. 1 \in 1..MaxGen /\ 0 \in 0..MaxGen
    OBVIOUS
<1>2. "" \in Phases
    BY DEF Phases
<1>3. QED
    BY <1>1, <1>2 DEF Gone, CmpdState

LEMMA SetExists ==
    ASSUME NEW d \in CmpdState, NEW x \in BOOLEAN
    PROVE  [d EXCEPT !.exists = x] \in CmpdState
BY DEF CmpdState

LEMMA SetDeleting ==
    ASSUME NEW d \in CmpdState, NEW x \in BOOLEAN
    PROVE  [d EXCEPT !.deleting = x] \in CmpdState
BY DEF CmpdState

LEMMA SetFin ==
    ASSUME NEW d \in CmpdState, NEW x \in BOOLEAN
    PROVE  [d EXCEPT !.fin = x] \in CmpdState
BY DEF CmpdState

LEMMA SetGen ==
    ASSUME NEW d \in CmpdState, NEW x \in 1..MaxGen
    PROVE  [d EXCEPT !.gen = x] \in CmpdState
BY DEF CmpdState

LEMMA SetObsGen ==
    ASSUME NEW d \in CmpdState, NEW x \in 0..MaxGen
    PROVE  [d EXCEPT !.obsGen = x] \in CmpdState
BY DEF CmpdState

LEMMA SetPhase ==
    ASSUME NEW d \in CmpdState, NEW x \in Phases
    PROVE  [d EXCEPT !.phase = x] \in CmpdState
BY DEF CmpdState

LEMMA SetRV ==
    ASSUME NEW d \in CmpdState, NEW x \in Nat
    PROVE  [d EXCEPT !.rv = x] \in CmpdState
BY DEF CmpdState

(* The initial definition.                                                 *)
LEMMA InitCmpd ==
    LET r == [Gone EXCEPT !.exists = TRUE, !.rv = 1]
    IN  /\ r \in CmpdState
        /\ r.exists /\ ~r.deleting /\ ~r.fin /\ r.gen = 1 /\ r.obsGen = 0
<1> DEFINE r1 == [Gone EXCEPT !.exists = TRUE]
<1>1. r1 \in CmpdState
    BY GoneType, SetExists
<1>2. [r1 EXCEPT !.rv = 1] \in CmpdState
    BY <1>1, SetRV
<1>3. [Gone EXCEPT !.exists = TRUE, !.rv = 1] = [r1 EXCEPT !.rv = 1]
    OBVIOUS
<1>4. QED
    BY <1>2, <1>3 DEF Gone

(* HandleCRDeletion registering the finalizer.                             *)
LEMMA Register ==
    ASSUME NEW d \in CmpdState
    PROVE  LET r == [d EXCEPT !.fin = TRUE, !.rv = @ + 1]
           IN  /\ r \in CmpdState
               /\ r.exists = d.exists /\ r.deleting = d.deleting /\ r.fin
               /\ r.gen = d.gen /\ r.obsGen = d.obsGen /\ r.phase = d.phase
<1> DEFINE r1 == [d EXCEPT !.fin = TRUE]
<1>1. r1 \in CmpdState
    BY SetFin
<1>2. [r1 EXCEPT !.rv = r1.rv + 1] \in CmpdState
    <2>1. r1.rv + 1 \in Nat
        BY <1>1 DEF CmpdState
    <2>2. QED
        BY <1>1, <2>1, SetRV
<1>3. [d EXCEPT !.fin = TRUE, !.rv = @ + 1] = [r1 EXCEPT !.rv = r1.rv + 1]
    OBVIOUS
<1>4. QED
    BY <1>2, <1>3 DEF CmpdState

(* The status patch recording Available at a generation.                  *)
LEMMA MarkAvailable ==
    ASSUME NEW d \in CmpdState, NEW x \in 0..MaxGen
    PROVE  LET r == [d EXCEPT !.phase = "Available", !.obsGen = x, !.rv = @ + 1]
           IN  /\ r \in CmpdState
               /\ r.exists = d.exists /\ r.deleting = d.deleting /\ r.fin = d.fin
               /\ r.gen = d.gen /\ r.obsGen = x /\ r.phase = "Available"
<1> DEFINE r1 == [d EXCEPT !.phase = "Available"]
           r2 == [r1 EXCEPT !.obsGen = x]
<1>1. r1 \in CmpdState
    BY SetPhase DEF Phases
<1>2. r2 \in CmpdState
    BY <1>1, SetObsGen
<1>3. [r2 EXCEPT !.rv = r2.rv + 1] \in CmpdState
    <2>1. r2.rv + 1 \in Nat
        BY <1>2 DEF CmpdState
    <2>2. QED
        BY <1>2, <2>1, SetRV
<1>4. [d EXCEPT !.phase = "Available", !.obsGen = x, !.rv = @ + 1]
        = [r2 EXCEPT !.rv = r2.rv + 1]
    OBVIOUS
<1>5. QED
    BY <1>3, <1>4 DEF CmpdState

LEMMA StatusPatchType ==
    ASSUME cmpd \in CmpdState, read \in CmpdState, read.gen <= cmpd.gen
    PROVE  LET r == StatusPatch("Available")
           IN  /\ r \in CmpdState
               /\ r.exists = cmpd.exists /\ r.deleting = cmpd.deleting
               /\ r.fin = cmpd.fin /\ r.gen = cmpd.gen /\ r.obsGen = read.gen
<1>1. read.gen \in 0..MaxGen
    BY DEF CmpdState
<1>2. QED
    BY <1>1, MarkAvailable DEF StatusPatch

(* A spec edit: a new generation.                                          *)
LEMMA Edit ==
    ASSUME NEW d \in CmpdState, d.gen < MaxGen
    PROVE  LET r == [d EXCEPT !.gen = @ + 1, !.rv = @ + 1]
           IN  /\ r \in CmpdState
               /\ r.exists = d.exists /\ r.deleting = d.deleting /\ r.fin = d.fin
               /\ r.gen = d.gen + 1 /\ r.obsGen = d.obsGen
<1> DEFINE r1 == [d EXCEPT !.gen = d.gen + 1]
<1>1. r1 \in CmpdState
    BY SetGen DEF CmpdState
<1>2. [r1 EXCEPT !.rv = r1.rv + 1] \in CmpdState
    <2>1. r1.rv + 1 \in Nat
        BY <1>1 DEF CmpdState
    <2>2. QED
        BY <1>1, <2>1, SetRV
<1>3. [d EXCEPT !.gen = @ + 1, !.rv = @ + 1] = [r1 EXCEPT !.rv = r1.rv + 1]
    OBVIOUS
<1>4. QED
    BY <1>2, <1>3 DEF CmpdState

(* A delete of a definition carrying the finalizer: the deletion mark.     *)
LEMMA MarkDeleting ==
    ASSUME NEW d \in CmpdState
    PROVE  LET r == [d EXCEPT !.deleting = TRUE, !.rv = @ + 1]
           IN  /\ r \in CmpdState
               /\ r.exists = d.exists /\ r.deleting /\ r.fin = d.fin
               /\ r.gen = d.gen /\ r.obsGen = d.obsGen
<1> DEFINE r1 == [d EXCEPT !.deleting = TRUE]
<1>1. r1 \in CmpdState
    BY SetDeleting
<1>2. [r1 EXCEPT !.rv = r1.rv + 1] \in CmpdState
    <2>1. r1.rv + 1 \in Nat
        BY <1>1 DEF CmpdState
    <2>2. QED
        BY <1>1, <2>1, SetRV
<1>3. [d EXCEPT !.deleting = TRUE, !.rv = @ + 1] = [r1 EXCEPT !.rv = r1.rv + 1]
    OBVIOUS
<1>4. QED
    BY <1>2, <1>3 DEF CmpdState

-----------------------------------------------------------------------------
(* The invariant holds initially and is kept by every step.                *)

LEMMA InitIInv == Init => IInv
<1> SUFFICES ASSUME Init PROVE IInv
    OBVIOUS
<1>1. TypeOK
    <2>1. 0 \in 0..MaxFaults /\ 0 \in 0..MaxEnvSteps
        OBVIOUS
    <2>2. QED
        BY <2>1, InitCmpd, GoneType DEF Init, TypeOK, NoRead
<1>2. QED
    BY <1>1, InitCmpd DEF Init, IInv, CmpdStatusFreshWhenIdle

(* Steps that leave the definition, the worker and the queue alone.        *)
LEMMA EnvIInv ==
    ASSUME IInv, NEW c \in COMP,
           UserCreateComp(c) \/ ComponentMeta(c) \/ UserDeleteComp(c)
    PROVE  IInv'
BY DEF UserCreateComp, ComponentMeta, UserDeleteComp, EnvStep, IInv, TypeOK,
       ReadConsistent, CmpdStatusFreshWhenIdle

LEMMA WriteFailsIInv ==
    ASSUME IInv, busy, WriteFails
    PROVE  IInv'
<1>1. TypeOK'
    <2>1. read' \in CmpdState
        BY GoneType DEF WriteFails, NoRead
    <2>2. faults' \in 0..MaxFaults
        BY DEF WriteFails, IInv, TypeOK
    <2>3. QED
        BY <2>1, <2>2 DEF WriteFails, IInv, TypeOK
<1>2. CmpdStatusFreshWhenIdle'
    BY DEF WriteFails, CmpdStatusFreshWhenIdle
<1>3. QED
    BY <1>1, <1>2 DEF WriteFails, IInv

LEMMA ReconcileIInv ==
    ASSUME IInv, Reconcile
    PROVE  IInv'
<1>1. TypeOK'
    BY DEF Reconcile, IInv, TypeOK
<1>2. CASE cmpd.exists
    <2>1. read' = cmpd /\ pending' = FALSE /\ cmpd' = cmpd
        BY <1>2 DEF Reconcile
    <2>2. cmpd.gen \in Nat /\ cmpd.obsGen \in Nat
        BY DEF IInv, TypeOK, CmpdState
    <2>3. ReadConsistent'
        BY <1>2, <2>1, <2>2 DEF IInv, TypeOK, ReadConsistent
    <2>4. busy'
        BY <1>2 DEF Reconcile
    <2>5. QED
        BY <1>1, <2>1, <2>3, <2>4 DEF IInv, CmpdStatusFreshWhenIdle
<1>3. CASE ~cmpd.exists
    BY <1>1, <1>3 DEF Reconcile, IInv, CmpdStatusFreshWhenIdle
<1>4. QED
    BY <1>2, <1>3

LEMMA UserUpdateIInv ==
    ASSUME IInv, UserUpdate
    PROVE  IInv'
<1> DEFINE r == [cmpd EXCEPT !.gen = @ + 1, !.rv = @ + 1]
<1>1. cmpd \in CmpdState /\ cmpd.gen < MaxGen /\ cmpd' = r
    BY DEF UserUpdate, IInv, TypeOK
<1>2. /\ r \in CmpdState
      /\ r.exists = cmpd.exists /\ r.deleting = cmpd.deleting /\ r.fin = cmpd.fin
      /\ r.gen = cmpd.gen + 1 /\ r.obsGen = cmpd.obsGen
    BY <1>1, Edit
<1>3. TypeOK'
    BY <1>1, <1>2 DEF UserUpdate, IInv, TypeOK
<1>4. busy' => ReadConsistent'
    BY <1>1, <1>2 DEF UserUpdate, IInv, TypeOK, ReadConsistent, CmpdState
<1>5. QED
    BY <1>1, <1>2, <1>3, <1>4 DEF UserUpdate, IInv, TypeOK, CmpdStatusFreshWhenIdle, CmpdState

LEMMA UserDeleteIInv ==
    ASSUME IInv, UserDelete
    PROVE  IInv'
<1> DEFINE r == [cmpd EXCEPT !.deleting = TRUE, !.rv = @ + 1]
<1>1. cmpd \in CmpdState /\ cmpd.exists /\ ~cmpd.deleting
    BY DEF UserDelete, IInv, TypeOK
<1>2. envSteps' \in 0..MaxEnvSteps
    BY DEF UserDelete, EnvStep, IInv, TypeOK
<1>3. CASE cmpd.fin
    <2>1. cmpd' = r
        BY <1>3 DEF UserDelete
    <2>2. /\ r \in CmpdState
          /\ r.exists /\ r.deleting /\ r.fin
          /\ r.gen = cmpd.gen /\ r.obsGen = cmpd.obsGen
        BY <1>1, <1>3, MarkDeleting
    <2>3. TypeOK'
        BY <1>2, <2>1, <2>2 DEF UserDelete, IInv, TypeOK
    <2>4. busy' => ReadConsistent'
        BY <2>1, <2>2 DEF UserDelete, IInv, TypeOK, ReadConsistent
    <2>5. QED
        BY <2>1, <2>2, <2>3, <2>4 DEF UserDelete, IInv, CmpdStatusFreshWhenIdle
<1>4. CASE ~cmpd.fin
    <2>1. cmpd' = Gone
        BY <1>4 DEF UserDelete
    <2>2. TypeOK'
        BY <1>2, <2>1, GoneType DEF UserDelete, IInv, TypeOK
    <2>3. ~cmpd'.exists /\ ~cmpd'.deleting
        BY <2>1 DEF Gone
    <2>4. busy' => ReadConsistent'
        BY <2>3 DEF UserDelete, IInv, TypeOK, ReadConsistent
    <2>5. QED
        BY <2>1, <2>2, <2>3, <2>4 DEF UserDelete, IInv, CmpdStatusFreshWhenIdle
<1>5. QED
    BY <1>3, <1>4

(* What the invariant asks of the stored definition alone.                 *)
CmpdOK(x) ==
    /\ x \in CmpdState
    /\ x.deleting => x.exists /\ x.fin
    /\ ~x.exists => x = Gone
    /\ x.exists => x.obsGen <= x.gen

(* After a reconcile's writes the worker is idle: what is left to show is  *)
(* about the stored definition and the queue.                              *)
LEMMA ActEnd ==
    ASSUME IInv, Act, CmpdOK(cmpd'), pending' \in BOOLEAN,
           CmpdStatusFreshWhenIdle'
    PROVE  IInv'
<1>1. read' \in CmpdState
    BY GoneType DEF Act, NoRead
<1>2. QED
    BY <1>1 DEF Act, IInv, TypeOK, CmpdOK

LEMMA ActIInv ==
    ASSUME IInv, Act
    PROVE  IInv'
<1>1. /\ busy /\ ReadConsistent /\ busy' = FALSE
      /\ cmpd \in CmpdState /\ read \in CmpdState
      /\ CmpdOK(cmpd)
    BY DEF Act, IInv, TypeOK, ReadConsistent, CmpdOK
<1>2. CASE read.deleting
    <2>1. read.fin
        BY <1>1, <1>2 DEF ReadConsistent
    <2>2. /\ cmpd' = IF ~Conflict THEN Gone ELSE cmpd
          /\ pending' <=> Conflict
          /\ pending' \in BOOLEAN
        <3>1. /\ cmpd' = IF read.fin /\ LabelledClusters = {} /\ ~Conflict
                         THEN Gone ELSE cmpd
              /\ pending' = (read.fin /\ (LabelledClusters # {} \/ Conflict))
            BY <1>2 DEF Act
        <3>2. QED
            BY <2>1, <3>1, Zenon DEF LabelledClusters
    <2>3. CASE Conflict
        <3>a. CmpdOK(cmpd') /\ pending'
            BY <1>1, <2>2, <2>3
        <3>b. QED
            BY <3>a, ActEnd DEF CmpdStatusFreshWhenIdle
    <2>4. CASE ~Conflict
        <3>a. cmpd' = Gone /\ pending' \in BOOLEAN
            BY <2>2, <2>4, Zenon
        <3>b. CmpdOK(cmpd') /\ ~cmpd'.exists
            BY <3>a, GoneType DEF CmpdOK, Gone
        <3>c. QED
            BY <3>a, <3>b, ActEnd DEF CmpdStatusFreshWhenIdle
    <2>5. QED
        BY <2>3, <2>4
<1>3. CASE ~read.deleting /\ ~read.fin
    <2>1. pending'
        BY <1>3 DEF Act
    <2>2. CASE Conflict \/ ~cmpd.exists
        <3>a. cmpd' = cmpd
            BY <1>3, <2>2 DEF Act
        <3>b. QED
            BY <1>1, <2>1, <3>a, ActEnd DEF CmpdStatusFreshWhenIdle
    <2>3. CASE ~Conflict /\ cmpd.exists
        <3> DEFINE reg == [cmpd EXCEPT !.fin = TRUE, !.rv = @ + 1]
                   avl == [reg EXCEPT !.phase = "Available", !.obsGen = read.gen,
                                      !.rv = @ + 1]
        <3>1. cmpd' = IF AvailableAtGen(read) THEN reg ELSE avl
            BY <1>3, <2>3 DEF Act
        <3>2. /\ reg \in CmpdState
              /\ reg.exists = cmpd.exists /\ reg.deleting = cmpd.deleting /\ reg.fin
              /\ reg.gen = cmpd.gen /\ reg.obsGen = cmpd.obsGen
            BY <1>1, Register
        <3>3. read.gen \in 0..MaxGen /\ read.gen <= cmpd.gen
            BY <1>1, <2>3 DEF ReadConsistent, CmpdState
        <3>4. /\ avl \in CmpdState
              /\ avl.exists = reg.exists /\ avl.deleting = reg.deleting /\ avl.fin
              /\ avl.gen = reg.gen /\ avl.obsGen = read.gen
            <4>1. /\ avl \in CmpdState
                  /\ avl.exists = reg.exists /\ avl.deleting = reg.deleting
                  /\ avl.fin = reg.fin
                  /\ avl.gen = reg.gen /\ avl.obsGen = read.gen
                BY <3>2, <3>3, MarkAvailable
            <4>2. QED
                BY <3>2, <4>1
        <3>5. CmpdOK(reg) /\ CmpdOK(avl)
            BY <1>1, <2>3, <3>2, <3>3, <3>4 DEF CmpdOK
        <3>6. CmpdOK(cmpd')
            BY <3>1, <3>5
        <3>7. QED
            BY <2>1, <3>6, ActEnd DEF CmpdStatusFreshWhenIdle
    <2>4. QED
        BY <2>2, <2>3
<1>4. CASE ~read.deleting /\ read.fin
    <2>1. CASE AvailableAtGen(read)
        <3>a. cmpd' = cmpd /\ pending' = pending
            BY <1>4, <2>1 DEF Act
        <3>b. ~pending => /\ cmpd.fin /\ cmpd.phase = "Available"
                          /\ cmpd.obsGen = cmpd.gen
            BY <1>1, <1>4, <2>1 DEF ReadConsistent, AvailableAtGen
        <3>c. pending \in BOOLEAN
            BY DEF IInv, TypeOK
        <3>d. CmpdStatusFreshWhenIdle'
            BY <1>1, <3>a, <3>b DEF CmpdStatusFreshWhenIdle
        <3>e. QED
            BY <1>1, <3>a, <3>c, <3>d, ActEnd
    <2>2. CASE ~AvailableAtGen(read)
        <3>a. pending' /\ cmpd' = IF cmpd.exists THEN StatusPatch("Available") ELSE cmpd
            BY <1>4, <2>2 DEF Act
        <3>b. CASE cmpd.exists
            <4>1. read.gen <= cmpd.gen
                BY <1>1, <3>b DEF ReadConsistent
            <4>2. LET r == StatusPatch("Available")
                  IN  /\ r \in CmpdState
                      /\ r.exists = cmpd.exists /\ r.deleting = cmpd.deleting
                      /\ r.fin = cmpd.fin /\ r.gen = cmpd.gen /\ r.obsGen = read.gen
                BY <1>1, <4>1, StatusPatchType
            <4>3. CmpdOK(cmpd')
                BY <1>1, <3>a, <3>b, <4>1, <4>2 DEF CmpdOK
            <4>4. QED
                BY <3>a, <4>3, ActEnd DEF CmpdStatusFreshWhenIdle
        <3>c. CASE ~cmpd.exists
            BY <1>1, <3>a, <3>c, ActEnd DEF CmpdStatusFreshWhenIdle
        <3>d. QED
            BY <3>b, <3>c
    <2>3. QED
        BY <2>1, <2>2
<1>5. QED
    BY <1>2, <1>3, <1>4

LEMMA NextIInv == IInv /\ [Next]_vars => IInv'
<1> SUFFICES ASSUME IInv, [Next]_vars PROVE IInv'
    OBVIOUS
<1>1. CASE Reconcile
    BY <1>1, ReconcileIInv
<1>2. CASE Act
    BY <1>2, ActIInv
<1>3. CASE busy /\ WriteFails
    BY <1>3, WriteFailsIInv
<1>4. CASE UserUpdate
    BY <1>4, UserUpdateIInv
<1>5. CASE UserDelete
    BY <1>5, UserDeleteIInv
<1>6. ASSUME NEW c \in COMP, UserCreateComp(c) \/ ComponentMeta(c) \/ UserDeleteComp(c)
      PROVE  IInv'
    BY <1>6, EnvIInv
<1>7. CASE UNCHANGED vars
    BY <1>7 DEF vars, IInv, TypeOK, ReadConsistent, CmpdStatusFreshWhenIdle
<1>8. QED
    BY <1>1, <1>2, <1>3, <1>4, <1>5, <1>6, <1>7 DEF Next

-----------------------------------------------------------------------------
(* Every reachable state is well typed.                                    *)
THEOREM TypeCorrect == Spec => []TypeOK
<1>1. IInv => TypeOK
    BY DEF IInv
<1>2. QED
    BY <1>1, InitIInv, NextIInv, PTL DEF Spec

(* When no reconcile of the definition is queued or running, a live        *)
(* definition carries the finalizer and is Available at its current        *)
(* generation: a spec edit that lands between a reconcile's Get and its    *)
(* status patch always queues the reconcile that repairs the patch.        *)
THEOREM StatusFreshCorrect == Spec => []CmpdStatusFreshWhenIdle
<1>1. IInv => CmpdStatusFreshWhenIdle
    BY DEF IInv
<1>2. QED
    BY <1>1, InitIInv, NextIInv, PTL DEF Spec

-----------------------------------------------------------------------------
(* Refinement of the lifecycle.                                            *)

(* A step that leaves the stored definition alone is a lifecycle stutter.  *)
LEMMA CmpdUnchangedStutter ==
    ASSUME cmpd' = cmpd
    PROVE  UNCHANGED Lifecycle!avars
BY DEF Lifecycle!avars, LifeOf

(* A write that keeps a live or deleting definition's lifecycle state and  *)
(* generation, moves observedGeneration within obsGen..gen and at most     *)
(* adds the finalizer is a lifecycle Record step.                          *)
LEMMA RecordStep ==
    ASSUME cmpd \in CmpdState, cmpd' \in CmpdState, cmpd.exists,
           cmpd'.exists, cmpd'.deleting = cmpd.deleting, cmpd'.gen = cmpd.gen,
           cmpd.obsGen <= cmpd'.obsGen, cmpd'.obsGen <= cmpd.gen,
           cmpd'.fin \in {cmpd.fin, TRUE}
    PROVE  Lifecycle!Record
<1>1. cmpd'.obsGen \in cmpd.obsGen..cmpd.gen
    BY DEF CmpdState
<1>2. QED
    BY <1>1 DEF Lifecycle!Record, LifeOf

LEMMA NextRefines ==
    ASSUME IInv, [Next]_vars
    PROVE  [Lifecycle!Next]_Lifecycle!avars
<1>1. CASE Act
    <2>1. busy /\ ReadConsistent /\ cmpd \in CmpdState /\ read \in CmpdState
        BY <1>1 DEF Act, IInv, TypeOK, ReadConsistent
    <2>2. CASE read.deleting
        <3>1. read.fin
            BY <2>1, <2>2 DEF ReadConsistent
        <3>2. cmpd' = IF read.fin /\ LabelledClusters = {} /\ ~Conflict
                      THEN Gone ELSE cmpd
            BY <1>1, <2>2 DEF Act
        <3>3. CASE ~Conflict /\ cmpd.exists
            <4>1. cmpd' = Gone /\ cmpd.deleting
                BY <2>1, <2>2, <3>1, <3>2, <3>3 DEF ReadConsistent, LabelledClusters
            <4>2. ~cmpd'.exists /\ ~cmpd'.fin
                BY <4>1 DEF Gone
            <4>3. LifeOf(cmpd) = "deleting" /\ LifeOf(cmpd') = "gone"
                BY <3>3, <4>1, <4>2 DEF LifeOf
            <4>4. Lifecycle!Release
                BY <4>2, <4>3, Zenon DEF Lifecycle!Release, Lifecycle!Vanish
            <4>5. QED
                BY <4>4 DEF Lifecycle!Next
        <3>4. CASE ~Conflict /\ ~cmpd.exists
            <4>1. cmpd = Gone
                BY <3>4 DEF IInv
            <4>2. cmpd' = cmpd
                BY <3>1, <3>2, <3>4, <4>1 DEF LabelledClusters
            <4>3. QED
                BY <4>2, CmpdUnchangedStutter
        <3>5. CASE Conflict
            BY <3>2, <3>5, CmpdUnchangedStutter
        <3>6. QED
            BY <3>3, <3>4, <3>5
    <2>3. CASE ~read.deleting /\ ~read.fin
        <3>1. CASE Conflict \/ ~cmpd.exists
            <4>1. cmpd' = cmpd
                BY <1>1, <2>3, <3>1 DEF Act
            <4>2. QED
                BY <4>1, CmpdUnchangedStutter
        <3>2. CASE ~Conflict /\ cmpd.exists
            <4> DEFINE reg == [cmpd EXCEPT !.fin = TRUE, !.rv = @ + 1]
                       avl == [reg EXCEPT !.phase = "Available", !.obsGen = read.gen,
                                          !.rv = @ + 1]
            <4>1. cmpd' = IF AvailableAtGen(read) THEN reg ELSE avl
                BY <1>1, <2>3, <3>2 DEF Act
            <4>2. /\ reg \in CmpdState
                  /\ reg.exists = cmpd.exists /\ reg.deleting = cmpd.deleting /\ reg.fin
                  /\ reg.gen = cmpd.gen /\ reg.obsGen = cmpd.obsGen
                BY <2>1, Register
            <4>3. /\ read.gen \in 0..MaxGen
                  /\ cmpd.obsGen <= read.gen /\ read.gen <= cmpd.gen
                BY <2>1, <3>2 DEF ReadConsistent, CmpdState
            <4>4. /\ avl \in CmpdState
                  /\ avl.exists = reg.exists /\ avl.deleting = reg.deleting /\ avl.fin
                  /\ avl.gen = reg.gen /\ avl.obsGen = read.gen
                <5>1. /\ avl \in CmpdState
                      /\ avl.exists = reg.exists /\ avl.deleting = reg.deleting
                      /\ avl.fin = reg.fin
                      /\ avl.gen = reg.gen /\ avl.obsGen = read.gen
                    BY <4>2, <4>3, MarkAvailable
                <5>2. QED
                    BY <4>2, <5>1
            <4>5. cmpd.obsGen <= cmpd.gen
                BY <3>2 DEF IInv
            <4>6. Lifecycle!Record
                <5>1. CASE AvailableAtGen(read)
                    <6>1. cmpd' = reg
                        BY <4>1, <5>1
                    <6>2. /\ cmpd' \in CmpdState /\ cmpd'.exists /\ cmpd'.fin
                          /\ cmpd'.deleting = cmpd.deleting /\ cmpd'.gen = cmpd.gen
                          /\ cmpd'.obsGen = cmpd.obsGen
                        BY <3>2, <4>2, <6>1
                    <6>3. cmpd.obsGen \in Nat
                        BY <2>1 DEF CmpdState
                    <6>4. QED
                        BY <2>1, <3>2, <4>5, <6>2, <6>3, RecordStep
                <5>2. CASE ~AvailableAtGen(read)
                    BY <2>1, <3>2, <4>1, <4>2, <4>3, <4>4, <5>2, RecordStep
                <5>3. QED
                    BY <5>1, <5>2
            <4>7. QED
                BY <4>6 DEF Lifecycle!Next
        <3>3. QED
            BY <3>1, <3>2
    <2>4. CASE ~read.deleting /\ read.fin
        <3>1. CASE AvailableAtGen(read) \/ ~cmpd.exists
            <4>1. cmpd' = cmpd
                BY <1>1, <2>4, <3>1 DEF Act
            <4>2. QED
                BY <4>1, CmpdUnchangedStutter
        <3>2. CASE ~AvailableAtGen(read) /\ cmpd.exists
            <4>1. cmpd' = StatusPatch("Available")
                BY <1>1, <2>4, <3>2 DEF Act
            <4>2. cmpd.obsGen <= read.gen /\ read.gen <= cmpd.gen
                BY <2>1, <3>2 DEF ReadConsistent
            <4>3. LET r == StatusPatch("Available")
                  IN  /\ r \in CmpdState
                      /\ r.exists = cmpd.exists /\ r.deleting = cmpd.deleting
                      /\ r.fin = cmpd.fin /\ r.gen = cmpd.gen /\ r.obsGen = read.gen
                BY <2>1, <4>2, StatusPatchType
            <4>4. Lifecycle!Record
                BY <2>1, <3>2, <4>1, <4>2, <4>3, RecordStep
            <4>5. QED
                BY <4>4 DEF Lifecycle!Next
        <3>3. QED
            BY <3>1, <3>2
    <2>5. QED
        BY <2>2, <2>3, <2>4
<1>2. CASE UserUpdate
    <2> DEFINE r == [cmpd EXCEPT !.gen = @ + 1, !.rv = @ + 1]
    <2>1. cmpd \in CmpdState /\ cmpd.gen < MaxGen /\ cmpd' = r
          /\ cmpd.exists /\ ~cmpd.deleting
        BY <1>2 DEF UserUpdate, IInv, TypeOK
    <2>2. /\ r.exists = cmpd.exists /\ r.deleting = cmpd.deleting /\ r.fin = cmpd.fin
          /\ r.gen = cmpd.gen + 1 /\ r.obsGen = cmpd.obsGen
        BY <2>1, Edit
    <2>3. Lifecycle!Edit
        BY <2>1, <2>2 DEF Lifecycle!Edit, LifeOf
    <2>4. QED
        BY <2>3 DEF Lifecycle!Next
<1>3. CASE UserDelete
    <2>1. cmpd \in CmpdState /\ cmpd.exists /\ ~cmpd.deleting
        BY <1>3 DEF UserDelete, IInv, TypeOK
    <2>2. CASE cmpd.fin
        <3> DEFINE r == [cmpd EXCEPT !.deleting = TRUE, !.rv = @ + 1]
        <3>1. cmpd' = r
            BY <1>3, <2>2 DEF UserDelete
        <3>2. /\ r.exists /\ r.deleting /\ r.fin
              /\ r.gen = cmpd.gen /\ r.obsGen = cmpd.obsGen
            BY <2>1, <2>2, MarkDeleting
        <3>3. Lifecycle!Delete
            BY <2>1, <2>2, <3>1, <3>2 DEF Lifecycle!Delete, LifeOf
        <3>4. QED
            BY <3>3 DEF Lifecycle!Next
    <2>3. CASE ~cmpd.fin
        <3>1. cmpd' = Gone
            BY <1>3, <2>3 DEF UserDelete
        <3>2. Lifecycle!Delete
            BY <2>1, <2>3, <3>1 DEF Lifecycle!Delete, Lifecycle!Vanish, LifeOf, Gone
        <3>3. QED
            BY <3>2 DEF Lifecycle!Next
    <2>4. QED
        BY <2>2, <2>3
<1>4. CASE Reconcile \/ (busy /\ WriteFails) \/ UNCHANGED vars
    <2>1. cmpd' = cmpd
        BY <1>4 DEF Reconcile, WriteFails, vars
    <2>2. QED
        BY <2>1, CmpdUnchangedStutter
<1>5. ASSUME NEW c \in COMP, UserCreateComp(c) \/ ComponentMeta(c) \/ UserDeleteComp(c)
      PROVE  [Lifecycle!Next]_Lifecycle!avars
    <2>1. cmpd' = cmpd
        BY <1>5 DEF UserCreateComp, ComponentMeta, UserDeleteComp
    <2>2. QED
        BY <2>1, CmpdUnchangedStutter
<1>6. QED
    BY <1>1, <1>2, <1>3, <1>4, <1>5 DEF Next

(* The controller implements the safety part of the lifecycle it promises  *)
(* (CmpdLifecycle): one-way lifecycle, observedGeneration monotone and      *)
(* never past the generation, protected deletion through the deleting      *)
(* state, whatever spec edits and deletions land between a reconcile's Get *)
(* and its writes.                                                         *)
THEOREM LifecycleRefinement == Spec => Lifecycle!SafetySpec
<1>1. Init => Lifecycle!Init
    <2> SUFFICES ASSUME Init PROVE Lifecycle!Init
        OBVIOUS
    <2>1. LET r == [Gone EXCEPT !.exists = TRUE, !.rv = 1]
          IN  r.exists /\ ~r.deleting /\ ~r.fin /\ r.gen = 1 /\ r.obsGen = 0
        BY InitCmpd
    <2>2. QED
        BY <2>1 DEF Init, Lifecycle!Init, LifeOf
<1>2. IInv /\ [Next]_vars => [Lifecycle!Next]_Lifecycle!avars
    BY NextRefines
<1>3. QED
    BY <1>1, <1>2, InitIInv, NextIInv, PTL DEF Spec, Lifecycle!SafetySpec

============================================================================
