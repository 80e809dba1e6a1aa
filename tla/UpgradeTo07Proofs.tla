------------------------- MODULE UpgradeTo07Proofs -------------------------
(***************************************************************************)
(* Proofs about the 0.7 upgrade handler (UpgradeTo07): the types, and that *)
(* a run that finishes leaves every BackupPolicy converted, whatever       *)
(* earlier runs failed and wherever they stopped.                         *)
(***************************************************************************)
EXTENDS UpgradeTo07, TLAPS

USE ConstantsAssumption

\* A policy converted as far as the 0.7 shape needs: backupMethods when it
\* has a datafile or snapshot sub-policy, its BackupSchedule when it has a
\* schedule and is not the mysql hscale policy.
Migrated(p) ==
    /\ policy[p].kinds \cap {"datafile", "snapshot"} # {} => policy[p].methods
    /\ policy[p].hasSchedule /\ ~policy[p].hscale => p \in schedule

\* The schedule half of Migrated for one policy.
Scheduled(p) == policy[p].hasSchedule /\ ~policy[p].hscale => p \in schedule

(* The inductive invariant.  PoliciesMigrated alone is not inductive: a    *)
(* run that finishes must have converted every policy it took from its     *)
(* snapshot, and the snapshot it worked from must still describe the       *)
(* policies it had not reached.  The conjuncts say where the current      *)
(* object is, that a policy with backupMethods already has its schedule   *)
(* (a rerun skips such a policy after createBackupSchedule), and that in  *)
(* a run every policy is still to do, current, or converted.              *)
IInv ==
    /\ TypeOK
    /\ step \in {NoObj, "schedule", "patch", "spec", "status"}
    /\ \A p \in POLICY : policy[p].methods => Scheduled(p)
    /\ pc # "transform" => cur = NoObj
    /\ pc = "done" => todo = {}
    /\ cur = NoObj => step = NoObj
    /\ cur \in POLICY => step \in {"schedule", "patch"} /\ snap[cur] = policy[cur]
    /\ cur \in POLICY /\ step = "patch" => Scheduled(cur)
    /\ cur \in BACKUP => step \in {"spec", "status"}
    /\ cur \notin todo
    /\ pc \in {"transform", "done"} =>
          \A p \in POLICY : p \in todo \/ p = cur \/ Migrated(p)
    /\ pc = "transform" => \A p \in todo \cap POLICY : snap[p] = policy[p]

-----------------------------------------------------------------------------

\* Setting backupMethods of one policy keeps the policy map in type.
LEMMA SetMethods ==
    ASSUME NEW f \in [POLICY -> PolicyState], NEW p \in POLICY, NEW b \in BOOLEAN
    PROVE  [f EXCEPT ![p].methods = b] \in [POLICY -> PolicyState]
BY DEF PolicyState

\* Setting a field of one backup keeps the backup map in type.
LEMMA SetBackup ==
    ASSUME NEW f \in [BACKUP -> BackupState], NEW b \in BACKUP, NEW x \in BOOLEAN
    PROVE  /\ [f EXCEPT ![b].method = x] \in [BACKUP -> BackupState]
           /\ [f EXCEPT ![b].newStatus = x] \in [BACKUP -> BackupState]
BY DEF BackupState

LEMMA InitIInv == Init => IInv
BY DEF Init, IInv, TypeOK, PolicyState, BackupState

\* Fail, whether it ends the snapshot or a call of the transform.
LEMMA FailIInv == IInv /\ Fail => IInv'
BY DEF IInv, TypeOK, Fail, Migrated, Scheduled

LEMMA SnapshotIInv == IInv /\ Snapshot => IInv'
<1> SUFFICES ASSUME IInv, Snapshot PROVE IInv'
    OBVIOUS
<1>1. CASE /\ snap' = [o \in POLICY \cup BACKUP |->
                          IF o \in POLICY THEN policy[o] ELSE backup[o]]
           /\ todo' = POLICY \cup BACKUP
           /\ pc' = "transform"
           /\ UNCHANGED <<policy, schedule, backup, cur, step, runs, faults>>
    <2>1. pc = "start" /\ cur = NoObj /\ step = NoObj
        BY DEF Snapshot, IInv
    <2>2. cur \notin POLICY \cup BACKUP
        BY <2>1
    <2>3. TypeOK'
        BY <1>1, <2>1 DEF IInv, TypeOK
    <2>4. \A p \in todo' \cap POLICY : snap'[p] = policy'[p]
        BY <1>1
    <2>5. QED
        BY <1>1, <2>1, <2>2, <2>3, <2>4 DEF IInv, Scheduled
<1>2. CASE Fail
    BY <1>2, FailIInv
<1>3. QED
    BY <1>1, <1>2 DEF Snapshot

LEMMA TransformIInv == IInv /\ Transform => IInv'
<1> SUFFICES ASSUME IInv, Transform PROVE IInv'
    OBVIOUS
<1>1. CASE todo = {} /\ pc' = "done" /\ UNCHANGED <<todo, cur, step>>
    BY <1>1 DEF IInv, TypeOK, Transform, Migrated, Scheduled
<1>2. ASSUME NEW o \in todo, todo' = todo \ {o}, cur' = o,
             step' = IF o \in POLICY THEN "schedule" ELSE "spec",
             UNCHANGED pc
      PROVE IInv'
    BY <1>2 DEF IInv, TypeOK, Transform, Migrated, Scheduled
<1>3. QED
    BY <1>1, <1>2 DEF Transform

LEMMA PolicyScheduleIInv == IInv /\ PolicySchedule => IInv'
<1> SUFFICES ASSUME IInv, PolicySchedule PROVE IInv'
    OBVIOUS
<1>1. cur \in POLICY /\ snap[cur] = policy[cur] /\ pc = "transform"
    BY DEF PolicySchedule, IInv
<1>2. policy' = policy
    BY DEF PolicySchedule
<1>3. policy[cur].hasSchedule /\ ~policy[cur].hscale => cur \in schedule'
    BY <1>1 DEF PolicySchedule
<1>4. schedule \subseteq schedule'
    BY DEF PolicySchedule
<1>5. CASE snap[cur].methods
    \* Done: a policy that already had backupMethods is converted.
    <2>1. \A p \in POLICY : p = cur => Migrated(p)'
        BY <1>1, <1>2, <1>3, <1>5 DEF Migrated
    <2>2. QED
        BY <1>1, <1>2, <1>4, <2>1, <1>5 DEF IInv, TypeOK, PolicySchedule, Done,
                                           Migrated, Scheduled
<1>6. CASE ~snap[cur].methods
    BY <1>1, <1>2, <1>3, <1>4, <1>6 DEF IInv, TypeOK, PolicySchedule, Migrated,
                                       Scheduled
<1>7. QED
    BY <1>5, <1>6

LEMMA PolicyPatchIInv == IInv /\ PolicyPatch => IInv'
<1> SUFFICES ASSUME IInv, PolicyPatch PROVE IInv'
    OBVIOUS
<1>1. cur \in POLICY /\ step = "patch" /\ pc = "transform" /\ Scheduled(cur)
    BY DEF PolicyPatch, IInv
<1>2. policy' \in [POLICY -> PolicyState]
    BY <1>1, SetMethods DEF PolicyPatch, IInv, TypeOK, PolicyState
<1>3. \A p \in POLICY \ {cur} : policy'[p] = policy[p]
    BY <1>1 DEF PolicyPatch
<1>4. /\ policy'[cur].methods = (snap[cur].kinds \cap {"datafile", "snapshot"} # {})
      /\ policy'[cur].kinds = policy[cur].kinds
      /\ policy'[cur].hasSchedule = policy[cur].hasSchedule
      /\ policy'[cur].hscale = policy[cur].hscale
    BY <1>1 DEF PolicyPatch, IInv, TypeOK
<1>5. schedule' = schedule
    BY DEF PolicyPatch
<1>6. \A p \in POLICY : p = cur => Migrated(p)' /\ Scheduled(p)'
    BY <1>1, <1>4, <1>5 DEF IInv, Migrated, Scheduled
<1>7. QED
    BY <1>1, <1>2, <1>3, <1>5, <1>6 DEF IInv, TypeOK, PolicyPatch, Done, Migrated, Scheduled

LEMMA BackupSpecIInv == IInv /\ BackupSpec => IInv'
<1> SUFFICES ASSUME IInv, BackupSpec PROVE IInv'
    OBVIOUS
<1>1. cur \in BACKUP /\ pc = "transform" /\ cur \notin POLICY
    BY DEF BackupSpec, IInv
<1>2. backup' \in [BACKUP -> BackupState]
    <2>1. CASE snap[cur].method
        BY <2>1 DEF BackupSpec, IInv, TypeOK
    <2>2. CASE ~snap[cur].method
        <3>1. (snap[cur].type # "") \in BOOLEAN
            OBVIOUS
        <3>2. backup' = [backup EXCEPT ![cur].method = (snap[cur].type # "")]
            BY <2>2 DEF BackupSpec
        <3>3. [backup EXCEPT ![cur].method = (snap[cur].type # "")]
                 \in [BACKUP -> BackupState]
            BY <1>1, <3>1, SetBackup DEF IInv, TypeOK
        <3>4. QED
            BY <3>2, <3>3
    <2>3. QED
        BY <2>1, <2>2
<1>3. QED
    BY <1>1, <1>2 DEF IInv, TypeOK, BackupSpec, Done, Migrated, Scheduled

LEMMA BackupStatusIInv == IInv /\ BackupStatus => IInv'
<1> SUFFICES ASSUME IInv, BackupStatus PROVE IInv'
    OBVIOUS
<1>1. cur \in BACKUP /\ pc = "transform" /\ cur \notin POLICY
    BY DEF BackupStatus, IInv
<1>2. backup' \in [BACKUP -> BackupState]
    BY <1>1, SetBackup DEF BackupStatus, IInv, TypeOK
<1>3. QED
    BY <1>1, <1>2 DEF IInv, TypeOK, BackupStatus, Done, Migrated, Scheduled

LEMMA RerunIInv == IInv /\ Rerun => IInv'
BY DEF IInv, TypeOK, Rerun, Migrated, Scheduled

LEMMA NextIInv == IInv /\ [Next]_vars => IInv'
<1> SUFFICES ASSUME IInv, [Next]_vars PROVE IInv'
    OBVIOUS
<1>1. CASE Snapshot BY <1>1, SnapshotIInv
<1>2. CASE Transform BY <1>2, TransformIInv
<1>3. CASE CallFails BY <1>3, FailIInv DEF CallFails
<1>4. CASE PolicySchedule BY <1>4, PolicyScheduleIInv
<1>5. CASE PolicyPatch BY <1>5, PolicyPatchIInv
<1>6. CASE BackupSpec BY <1>6, BackupSpecIInv
<1>7. CASE BackupStatus BY <1>7, BackupStatusIInv
<1>8. CASE Rerun BY <1>8, RerunIInv
<1>9. CASE UNCHANGED vars
    BY <1>9 DEF IInv, TypeOK, vars, Migrated, Scheduled
<1>10. QED
    BY <1>1, <1>2, <1>3, <1>4, <1>5, <1>6, <1>7, <1>8, <1>9 DEF Next

-----------------------------------------------------------------------------

\* The handler's calls keep every policy, backup and schedule in shape,
\* whichever call fails.
THEOREM TypeCorrect == Spec => []TypeOK
<1>1. IInv => TypeOK
    BY DEF IInv
<1>2. QED
    BY <1>1, InitIInv, NextIInv, PTL DEF Spec

\* Once a run of the upgrade finishes, every policy with a datafile or
\* snapshot sub-policy has backupMethods and every scheduled policy other
\* than the mysql hscale one has its BackupSchedule, whatever earlier runs
\* failed between createBackupSchedule and the policy patch.
THEOREM PoliciesMigratedCorrect == Spec => []PoliciesMigrated
<1>1. IInv => PoliciesMigrated
    BY DEF IInv, PoliciesMigrated, Migrated
<1>2. QED
    BY <1>1, InitIInv, NextIInv, PTL DEF Spec

=============================================================================
