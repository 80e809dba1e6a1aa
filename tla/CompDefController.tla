-------------------------- MODULE CompDefController --------------------------
(***************************************************************************)
(* The ComponentDefinition controller                                      *)
(* (controllers/apps/componentdefinition_controller.go) and the Components *)
(* that refer to one definition.  A reconcile reads the definition, then   *)
(* acts on what it read: HandleCRDeletion registers the finalizer, or, for *)
(* a deleting definition, runs the deletion handler (a reference check     *)
(* over labelled Clusters) and removes the finalizer; a live definition    *)
(* not yet Available at its generation gets its status merge-patched.      *)
(* The meta transformers of the component controller label each Component *)
(* with the name of its definition.                                        *)
(***************************************************************************)
EXTENDS Naturals

CONSTANTS
    COMP,         \* Components that may refer to the definition
    MaxGen,       \* bound on the definition's generation (spec edits)
    MaxFaults,    \* bound on failing API calls
    MaxEnvSteps   \* bound on environment events

ASSUME ConstantsAssumption ==
    /\ MaxGen \in Nat \ {0}
    /\ MaxFaults \in Nat
    /\ MaxEnvSteps \in Nat

Phases == {"", "Available", "Unavailable"}

\* the stored definition; rv stands for the resourceVersion
CmpdState == [exists : BOOLEAN, deleting : BOOLEAN, fin : BOOLEAN,
              gen : 1..MaxGen, obsGen : 0..MaxGen, phase : Phases, rv : Nat]
Gone == [exists |-> FALSE, deleting |-> FALSE, fin |-> FALSE,
         gen |-> 1, obsGen |-> 0, phase |-> "", rv |-> 0]
\* the copy held by an idle worker: none, shaped as an absent definition
NoRead == Gone

VARIABLES
    cmpd,      \* the stored ComponentDefinition
    comps,     \* per Component: "none", "unlabelled" or "labelled"
    read,      \* the definition the running reconcile read, or NoRead
    busy,      \* a reconcile is between its Get and its writes
    pending,   \* a request for the definition is queued
    faults,
    envSteps

vars == <<cmpd, comps, read, busy, pending, faults, envSteps>>

\* the Clusters carrying ComponentDefinitionLabelKey: no code under src
\* labels a Cluster with it
LabelledClusters == {}

-----------------------------------------------------------------------------

Init ==
    /\ cmpd = [Gone EXCEPT !.exists = TRUE, !.rv = 1]
    /\ comps = [c \in COMP |-> "none"]
    /\ read = NoRead /\ busy = FALSE
    /\ pending = TRUE
    /\ faults = 0 /\ envSteps = 0

\* An Update carries the resourceVersion read; a merge patch does not.
Conflict == cmpd.rv # read.rv

\* A write fails: the reconcile returns the error and is requeued.
WriteFails ==
    /\ faults < MaxFaults /\ faults' = faults + 1
    /\ busy' = FALSE /\ read' = NoRead /\ pending' = TRUE
    /\ UNCHANGED <<cmpd, comps, envSteps>>

\* Reconcile: Get the definition.  NotFound ends the request (the error is
\* checked and dropped); otherwise reconcile goes on with the copy read.
Reconcile ==
    /\ pending /\ ~busy
    /\ pending' = FALSE
    /\ IF cmpd.exists
       THEN read' = cmpd /\ busy' = TRUE
       ELSE UNCHANGED <<read, busy>>
    /\ UNCHANGED <<cmpd, comps, faults, envSteps>>

\* Mutant: the whole copy read is written back with the new status, as a
\* full update that skips the resourceVersion check would do.
StatusPatchFromRead(phase) ==
    [read EXCEPT !.phase = phase, !.obsGen = read.gen, !.rv = cmpd.rv + 1]

\* Mutant: observedGeneration patched one past the generation read.
StatusPatchObsGenOffByOne(phase) ==
    [cmpd EXCEPT !.phase = phase, !.obsGen = read.gen + 1, !.rv = @ + 1]

\* the status patch of available / unavailable: phase and observedGeneration
\* of the copy read, merged into whatever is stored
StatusPatch(phase) ==
    [cmpd EXCEPT !.phase = phase, !.obsGen = read.gen, !.rv = @ + 1]

\* Mutant: the shortcut taken on the phase alone, whatever the generation.
AvailableAtGenPhaseOnly(d) == d.phase = "Available"

\* the shortcut of reconcile: Available at the observed generation
AvailableAtGen(d) == d.obsGen = d.gen /\ d.phase = "Available"

\* reconcile: HandleCRDeletion, then the Available shortcut, validate (which
\* accepts every definition) and the status patch.
Act ==
    /\ busy
    /\ \/ /\ read.deleting
          /\ LET release == read.fin /\ LabelledClusters = {} /\ ~Conflict
             IN  cmpd' = IF release THEN Gone ELSE cmpd
          /\ pending' = (read.fin /\ (LabelledClusters # {} \/ Conflict))
       \/ /\ ~read.deleting /\ ~read.fin
          /\ IF Conflict \/ ~cmpd.exists
             THEN UNCHANGED cmpd /\ pending' = TRUE
             ELSE LET reg == [cmpd EXCEPT !.fin = TRUE, !.rv = @ + 1]
                  IN  /\ cmpd' = IF AvailableAtGen(read) THEN reg
                                 ELSE [reg EXCEPT !.phase = "Available",
                                          !.obsGen = read.gen, !.rv = @ + 1]
                      /\ pending' = TRUE
       \/ /\ ~read.deleting /\ read.fin
          /\ IF AvailableAtGen(read)
             THEN UNCHANGED <<cmpd, pending>>
             ELSE /\ cmpd' = IF cmpd.exists THEN StatusPatch("Available")
                             ELSE cmpd
                  /\ pending' = TRUE
    /\ busy' = FALSE /\ read' = NoRead
    /\ UNCHANGED <<comps, faults, envSteps>>

-----------------------------------------------------------------------------
(* Environment.                                                            *)

EnvStep == envSteps < MaxEnvSteps /\ envSteps' = envSteps + 1

\* the user edits the definition's spec: a new generation
UserUpdate ==
    /\ cmpd.exists /\ ~cmpd.deleting /\ cmpd.gen < MaxGen
    /\ cmpd' = [cmpd EXCEPT !.gen = @ + 1, !.rv = @ + 1]
    /\ pending' = TRUE
    /\ UNCHANGED <<comps, read, busy, faults, envSteps>>

\* the user deletes the definition; without a finalizer it is gone at once
UserDelete ==
    /\ cmpd.exists /\ ~cmpd.deleting
    /\ cmpd' = IF cmpd.fin THEN [cmpd EXCEPT !.deleting = TRUE, !.rv = @ + 1]
               ELSE Gone
    /\ pending' = TRUE
    /\ EnvStep
    /\ UNCHANGED <<comps, read, busy, faults>>

\* a user creates a Component whose spec.compDef names the definition
UserCreateComp(c) ==
    /\ cmpd.exists /\ ~cmpd.deleting /\ comps[c] = "none"
    /\ comps' = [comps EXCEPT ![c] = "unlabelled"]
    /\ EnvStep
    /\ UNCHANGED <<cmpd, read, busy, pending, faults>>

\* the component controller's meta and assure-meta transformers set
\* ComponentDefinitionLabelKey on the Component
ComponentMeta(c) ==
    /\ comps[c] = "unlabelled"
    /\ comps' = [comps EXCEPT ![c] = "labelled"]
    /\ UNCHANGED <<cmpd, read, busy, pending, faults, envSteps>>

UserDeleteComp(c) ==
    /\ comps[c] # "none"
    /\ comps' = [comps EXCEPT ![c] = "none"]
    /\ EnvStep
    /\ UNCHANGED <<cmpd, read, busy, pending, faults>>

Next ==
    \/ Reconcile \/ Act \/ (busy /\ WriteFails)
    \/ UserUpdate \/ UserDelete
    \/ \E c \in COMP : UserCreateComp(c) \/ ComponentMeta(c) \/ UserDeleteComp(c)

\* The work queue takes every queued request; a started reconcile finishes.
Fairness == WF_vars(Reconcile) /\ WF_vars(Act)

Spec == Init /\ [][Next]_vars /\ Fairness

-----------------------------------------------------------------------------
(* Properties.                                                             *)

TypeOK ==
    /\ cmpd \in CmpdState
    /\ comps \in [COMP -> {"none", "unlabelled", "labelled"}]
    /\ read \in CmpdState
    /\ busy \in BOOLEAN /\ pending \in BOOLEAN
    /\ faults \in 0..MaxFaults /\ envSteps \in 0..MaxEnvSteps

\* When no reconcile is queued or running, a live definition carries the
\* finalizer and is recorded Available at its current generation, although
\* spec edits land between a reconcile's Get and its status patch and the
\* patch writes the generation that was read.
CmpdStatusFreshWhenIdle ==
    (~pending /\ ~busy /\ cmpd.exists /\ ~cmpd.deleting) =>
        /\ cmpd.fin
        /\ cmpd.phase = "Available"
        /\ cmpd.obsGen = cmpd.gen

\* The deletion handler is there so that a definition "cannot be deleted
\* because of existing referencing" objects: the step that removes the
\* finalizer of a deleting definition, and so lets it go, is never taken
\* while a Component labelled with the definition exists.
ReleaseOnlyWhenUnreferenced ==
    [][(cmpd.deleting /\ ~cmpd'.exists) =>
           \A c \in COMP : comps[c] # "labelled"]_vars


-----------------------------------------------------------------------------
(* Refinement of the lifecycle the controller promises (CmpdLifecycle).    *)

LifeOf(d) == IF ~d.exists THEN "gone" ELSE IF d.deleting THEN "deleting" ELSE "live"

Lifecycle == INSTANCE CmpdLifecycle
    WITH life <- LifeOf(cmpd),
         gen <- IF cmpd.exists THEN cmpd.gen ELSE 0,
         obsGen <- IF cmpd.exists THEN cmpd.obsGen ELSE 0,
         protected <- cmpd.exists /\ cmpd.fin

\* The controller's reconciles, with a spec edit possibly landing between a
\* reconcile's Get and its status patch, implement the lifecycle: the
\* observedGeneration they write never goes back and never passes the
\* generation, a definition carrying the finalizer is deleted only through
\* the deletion handler, and a deleting definition is eventually released.
ImplementsLifecycle == Lifecycle!Spec

=============================================================================
