---------------------------- MODULE UpgradeTo07 ----------------------------
(***************************************************************************)
(* The 0.5/0.6 -> 0.7 breaking-change handler of the CLI                   *)
(* (pkg/cli/util/breakingchange/upgradehandlerto0.7.go): it snapshots the  *)
(* BackupPolicies and Backups, then converts them one at a time with       *)
(* separate API calls (create a BackupSchedule, patch a policy, patch a    *)
(* backup's spec, get it again, update its status).  Any failing call      *)
(* ends the run; the user runs the upgrade again, which snapshots afresh   *)
(* and relies on the converted fields to skip what is already done.        *)
(***************************************************************************)
EXTENDS Naturals, FiniteSets

CONSTANTS
    POLICY,     \* the BackupPolicies of the old version (model values)
    BACKUP,     \* the Backups of the old version (model values)
    MaxRuns,    \* bound on the runs of the upgrade command
    MaxFaults   \* bound on failing API calls

\* the object being transformed when there is none
NoObj == "none"

ASSUME ConstantsAssumption ==
    /\ POLICY \cap BACKUP = {}
    /\ NoObj \notin POLICY \cup BACKUP
    /\ MaxRuns \in Nat \ {0}
    /\ MaxFaults \in Nat

(* The old policy's sub-policies (spec.datafile, spec.snapshot,            *)
(* spec.logfile), whether it has spec.schedule and whether it is the mysql  *)
(* hscale policy; methods is spec.backupMethods being present.             *)
BackupKinds == {"datafile", "snapshot", "logfile"}
PolicyState == [kinds : SUBSET BackupKinds, hasSchedule : BOOLEAN,
                hscale : BOOLEAN, methods : BOOLEAN]
(* The old backup's spec.backupType ("" when unset); method is            *)
(* spec.backupMethod being non-empty, newStatus a status in the 0.7 shape. *)
BackupTypes == BackupKinds \cup {""}
BackupState == [type : BackupTypes, method : BOOLEAN, newStatus : BOOLEAN]

VARIABLES
    policy,     \* the stored BackupPolicies
    schedule,   \* the BackupSchedules created so far
    backup,     \* the stored Backups
    snap,       \* the snapshot of the current run
    todo,       \* objects of the snapshot not yet transformed in this run
    cur,        \* the object being transformed, or NoObj
    step,       \* the next call for cur
    pc,         \* "start", "transform", "done" or "failed"
    runs,
    faults

vars == <<policy, schedule, backup, snap, todo, cur, step, pc, runs, faults>>

-----------------------------------------------------------------------------

Init ==
    /\ policy \in [POLICY -> {r \in PolicyState : ~r.methods}]
    /\ schedule = {}
    /\ backup \in [BACKUP -> {r \in BackupState : ~r.method /\ ~r.newStatus}]
    /\ snap = [o \in POLICY \cup BACKUP |-> NoObj]
    /\ todo = {} /\ cur = NoObj /\ step = NoObj
    /\ pc = "start"
    /\ runs = 1
    /\ faults = 0

\* A failing API call: the handler returns the error and the run ends.
Fail ==
    /\ faults < MaxFaults /\ faults' = faults + 1
    /\ pc' = "failed" /\ cur' = NoObj /\ step' = NoObj /\ todo' = {}
    /\ UNCHANGED <<policy, schedule, backup, snap, runs>>

\* snapshot: list the BackupPolicies, then the Backups.
Snapshot ==
    /\ pc = "start"
    /\ \/ /\ snap' = [o \in POLICY \cup BACKUP |->
                        IF o \in POLICY THEN policy[o] ELSE backup[o]]
          /\ todo' = POLICY \cup BACKUP
          /\ pc' = "transform"
          /\ UNCHANGED <<policy, schedule, backup, cur, step, runs, faults>>
       \/ Fail

\* transform: the next object of the snapshot (the map is ranged in no
\* fixed order); the run is done when none is left.
Transform ==
    /\ pc = "transform" /\ cur = NoObj
    /\ \/ /\ todo = {} /\ pc' = "done"
          /\ UNCHANGED <<todo, cur, step>>
       \/ \E o \in todo :
             /\ todo' = todo \ {o} /\ cur' = o
             /\ step' = IF o \in POLICY THEN "schedule" ELSE "spec"
             /\ UNCHANGED pc
    /\ UNCHANGED <<policy, schedule, backup, snap, runs, faults>>

\* The next call for the current object fails.
CallFails == pc = "transform" /\ cur # NoObj /\ Fail

Done == cur' = NoObj /\ step' = NoObj

-----------------------------------------------------------------------------
(* transformBackupPolicy.                                                  *)

\* Mutant: the hscale test negated, so only the hscale policy is scheduled.
PolicyScheduleHScaleInverted ==
    /\ pc = "transform" /\ cur \in POLICY /\ step = "schedule"
    /\ LET p == snap[cur]
       IN  schedule' = IF p.hscale /\ p.hasSchedule
                       THEN schedule \cup {cur} ELSE schedule
    /\ IF snap[cur].methods THEN Done ELSE step' = "patch" /\ cur' = cur
    /\ UNCHANGED <<policy, backup, snap, todo, pc, runs, faults>>

\* createBackupSchedule, skipped for the mysql hscale policy: a policy with
\* spec.schedule gets a BackupSchedule, AlreadyExists counting as success.
PolicySchedule ==
    /\ pc = "transform" /\ cur \in POLICY /\ step = "schedule"
    /\ LET p == snap[cur]
       IN  schedule' = IF ~p.hscale /\ p.hasSchedule
                       THEN schedule \cup {cur} ELSE schedule
    /\ IF snap[cur].methods THEN Done ELSE step' = "patch" /\ cur' = cur
    /\ UNCHANGED <<policy, backup, snap, todo, pc, runs, faults>>

\* buildWithBackupType for datafile and snapshot, then the merge patch: the
\* policy gets backupMethods, or null (no field) when neither sub-policy
\* exists.
PolicyPatch ==
    /\ pc = "transform" /\ cur \in POLICY /\ step = "patch"
    /\ policy' = [policy EXCEPT ![cur].methods =
                     snap[cur].kinds \cap {"datafile", "snapshot"} # {}]
    /\ Done
    /\ UNCHANGED <<schedule, backup, snap, todo, pc, runs, faults>>

-----------------------------------------------------------------------------
(* transformBackup.                                                        *)

\* A backup whose snapshot has spec.backupMethod is skipped; otherwise its
\* spec is patched with the method of its backupType (none for an unset
\* type) and the deletion policy.
BackupSpec ==
    /\ pc = "transform" /\ cur \in BACKUP /\ step = "spec"
    /\ IF snap[cur].method
       THEN Done /\ UNCHANGED backup
       ELSE /\ backup' = [backup EXCEPT ![cur].method = (snap[cur].type # "")]
            /\ step' = "status" /\ cur' = cur
    /\ UNCHANGED <<policy, schedule, snap, todo, pc, runs, faults>>

\* Get the backup again and update its status to the 0.7 shape.
BackupStatus ==
    /\ pc = "transform" /\ cur \in BACKUP /\ step = "status"
    /\ backup' = [backup EXCEPT ![cur].newStatus = TRUE]
    /\ Done
    /\ UNCHANGED <<policy, schedule, snap, todo, pc, runs, faults>>

\* The user runs the upgrade again after a failed run.
Rerun ==
    /\ pc = "failed" /\ runs < MaxRuns
    /\ runs' = runs + 1 /\ pc' = "start"
    /\ UNCHANGED <<policy, schedule, backup, snap, todo, cur, step, faults>>

Next ==
    \/ Snapshot \/ Transform \/ CallFails
    \/ PolicySchedule \/ PolicyPatch \/ BackupSpec \/ BackupStatus
    \/ Rerun

Spec == Init /\ [][Next]_vars

-----------------------------------------------------------------------------
(* Properties.                                                             *)

TypeOK ==
    /\ policy \in [POLICY -> PolicyState]
    /\ schedule \subseteq POLICY
    /\ backup \in [BACKUP -> BackupState]
    /\ todo \subseteq POLICY \cup BACKUP
    /\ cur \in POLICY \cup BACKUP \cup {NoObj}
    /\ pc \in {"start", "transform", "done", "failed"}
    /\ runs \in 1..MaxRuns /\ faults \in 0..MaxFaults

\* Once a run of the upgrade finishes, whatever earlier runs failed and
\* wherever they stopped, every policy with a datafile or snapshot
\* sub-policy has backupMethods, and every scheduled policy other than the
\* mysql hscale one has its BackupSchedule.
PoliciesMigrated ==
    pc = "done" =>
        \A p \in POLICY :
            /\ policy[p].kinds \cap {"datafile", "snapshot"} # {} =>
                  policy[p].methods
            /\ policy[p].hasSchedule /\ ~policy[p].hscale => p \in schedule

\* The handler's skip test ("if exist backupMethod, nothing to do") takes a
\* backup with spec.backupMethod as converted: once a run finishes, every
\* backup's status has the 0.7 shape.
BackupsMigrated ==
    pc = "done" => \A b \in BACKUP : backup[b].newStatus

====
