--------------------------- MODULE ConfigPipeline ---------------------------
(***************************************************************************)
(* The configuration pipelines of internal/controller/plan/pipeline.go.    *)
(* A create pipeline runs once per component pass: a chain of stages, each *)
(* wrapped so that it is skipped once a stage has failed; its              *)
(* Configuration stage creates or updates the component's Configuration   *)
(* object from the component's config templates, and its status stage     *)
(* records an item status for every item.  An update pipeline reconciles  *)
(* one Configuration item: it reads the item's ConfigMap, decides in       *)
(* Prepare whether the item still needs work, and then re-renders and      *)
(* applies it through the render wrapper that Prepare builds.              *)
(***************************************************************************)
EXTENDS Naturals, Sequences

CONSTANTS
    TPL,          \* config template names
    MaxFaults,    \* bound on failing API calls and renders
    MaxEnvSteps   \* bound on environment events

\* TPL is a non-empty finite set; MaxFaults and MaxEnvSteps are naturals.

\* The stages in the order RenderConfigNScriptFiles chains them.
CreateChain == <<"prepare", "script", "configuration", "template",
                 "volumes", "sidecar", "meta", "status">>
UpdateChain == <<"configmap", "prepare", "rerender", "apply", "version",
                 "sync", "syncStatus">>

\* pipeline.configuration: declared, read by UpdateConfigurationStatus and
\* never assigned, so always nil
Configuration == "nil"

VARIABLES
    templates,  \* names of the component's ConfigTemplates
    cfg,        \* the stored Configuration: exists, item names
    pending,    \* a component pass (and so a create pipeline) is due
    cpc,        \* create pipeline: index of the next stage, 0 when idle
    cerr,       \* create pipeline: a stage has failed (Wrap skips the rest)
    panicked,   \* a pass crashed
    upc,        \* update pipeline: index of the next stage, 0 when idle
    uitem,      \* update pipeline: the item it reconciles
    reconcile,  \* updatePipeline.reconcile
    built,      \* updatePipeline.renderWrapper was built by Prepare
    uerr,       \* update pipeline: a stage has failed
    applied,    \* per template: the ConfigMap's applied version is the item
    unbuiltUse, \* a stage called the render wrapper Prepare did not build
    faults,
    envSteps

vars == <<templates, cfg, pending, cpc, cerr, panicked, upc, uitem, reconcile,
          built, uerr, applied, unbuiltUse, faults, envSteps>>

NoItem == "none"

Stage(i) == CreateChain[i]
UStage(i) == UpdateChain[i]

-----------------------------------------------------------------------------
(* Helpers of pipeline.go.                                                 *)

\* updateConfiguration(expected, existing): keep the existing items that
\* are still expected, append the expected ones that are new
UpdateConfiguration(expected, existing) ==
    LET addSets == expected \ existing
        delSets == existing \ expected
    IN  (existing \ delSets) \cup addSets

\* createConfiguration: one item per config template of the component
CreateConfiguration == [exists |-> TRUE, items |-> templates]

\* isFinish: the ConfigMap's applied-version annotation equals the item
IsFinish(t) == applied[t]

\* isDone
IsDone == ~reconcile

-----------------------------------------------------------------------------

Init ==
    /\ templates \in SUBSET TPL
    /\ cfg = [exists |-> FALSE, items |-> {}]
    /\ pending = TRUE
    /\ cpc = 0 /\ cerr = FALSE /\ panicked = FALSE
    /\ upc = 0 /\ uitem = NoItem /\ reconcile = FALSE /\ built = FALSE
    /\ uerr = FALSE
    /\ applied = [t \in TPL |-> TRUE]
    /\ unbuiltUse = FALSE
    /\ faults = 0 /\ envSteps = 0

\* A component pass starts a create pipeline.
StartCreate ==
    /\ pending /\ cpc = 0 /\ ~panicked
    /\ pending' = FALSE /\ cpc' = 1 /\ cerr' = FALSE
    /\ UNCHANGED <<templates, cfg, panicked, upc, uitem, reconcile, built,
                   uerr, applied, unbuiltUse, faults, envSteps>>

\* The next create stage; after the last one the pass ends, and an error
\* requeues it.
CNext(err) ==
    /\ cerr' = err
    /\ IF cpc = Len(CreateChain)
       THEN cpc' = 0 /\ pending' = (pending \/ err)
       ELSE cpc' = cpc + 1 /\ UNCHANGED pending

Fault == faults < MaxFaults /\ faults' = faults + 1

UNCHANGEDCreate == UNCHANGED <<templates, panicked, upc, uitem, reconcile,
                               built, uerr, applied, unbuiltUse, envSteps>>

\* A stage skipped by Wrap after an earlier failure.
CreateSkip ==
    /\ cpc > 0 /\ cerr
    /\ CNext(TRUE)
    /\ UNCHANGED <<cfg, faults>> /\ UNCHANGEDCreate

\* Prepare, RenderScriptTemplate, CreateConfigTemplate, UpdatePodVolumes,
\* BuildConfigManagerSidecar, UpdateConfigMeta: renders and object writes
\* that succeed or fail.
RenderStage ==
    /\ cpc > 0 /\ ~cerr
    /\ Stage(cpc) \notin {"configuration", "status"}
    /\ \/ CNext(FALSE) /\ UNCHANGED faults
       \/ Fault /\ CNext(TRUE)
    /\ UNCHANGED cfg /\ UNCHANGEDCreate

\* Configuration: Get the Configuration; found: updateConfiguration with
\* the stored object as "expected" and the built one as "existing", then a
\* merge patch; any other Get error: Create; NotFound: the error itself.
ConfigurationStage ==
    /\ cpc > 0 /\ ~cerr /\ Stage(cpc) = "configuration"
    /\ \/ /\ cfg.exists
          /\ cfg' = [cfg EXCEPT !.items =
                   UpdateConfiguration(cfg.items, CreateConfiguration.items)]
          /\ CNext(FALSE) /\ UNCHANGED faults
       \/ /\ ~cfg.exists
          /\ CNext(TRUE) /\ UNCHANGED <<cfg, faults>>
       \/ /\ Fault
          /\ IF cfg.exists
             THEN CNext(TRUE) /\ UNCHANGED cfg
             ELSE CNext(FALSE) /\ cfg' = CreateConfiguration
    /\ UNCHANGEDCreate

\* UpdateConfigurationStatus: returns early only when p.configuration is
\* set; otherwise it ranges over p.configuration.Spec, a nil dereference.
StatusStage ==
    /\ cpc > 0 /\ ~cerr /\ Stage(cpc) = "status"
    /\ IF Configuration # "nil"
       THEN CNext(FALSE) /\ UNCHANGED panicked
       ELSE panicked' = TRUE /\ cpc' = 0 /\ UNCHANGED <<cerr, pending>>
    /\ UNCHANGED <<templates, cfg, upc, uitem, reconcile, built, uerr,
                   applied, unbuiltUse, faults, envSteps>>

-----------------------------------------------------------------------------
(* The update pipeline of one item.                                        *)

UNCHANGEDUpdate == UNCHANGED <<templates, cfg, pending, cpc, cerr, panicked,
                               applied, envSteps>>

UNext(err) ==
    /\ uerr' = err
    /\ upc' = IF upc = Len(UpdateChain) THEN 0 ELSE upc + 1

\* NewReconcilePipeline for an item of the Configuration.
StartUpdate ==
    /\ upc = 0 /\ cfg.exists
    /\ \E t \in cfg.items : uitem' = t
    /\ upc' = 1 /\ reconcile' = TRUE /\ built' = FALSE /\ uerr' = FALSE
    /\ UNCHANGED <<unbuiltUse, faults>> /\ UNCHANGEDUpdate

UpdateSkip ==
    /\ upc > 0 /\ uerr
    /\ UNext(TRUE)
    /\ UNCHANGED <<uitem, reconcile, built, unbuiltUse, faults>>
    /\ UNCHANGEDUpdate

\* ConfigMap: foundConfigSpec, then Get the item's ConfigMap.
ConfigMapStage ==
    /\ upc > 0 /\ ~uerr /\ UStage(upc) = "configmap"
    /\ \/ uitem \in templates /\ UNext(FALSE) /\ UNCHANGED faults
       \/ uitem \notin templates /\ UNext(TRUE) /\ UNCHANGED faults
       \/ Fault /\ UNext(TRUE)
    /\ UNCHANGED <<uitem, reconcile, built, unbuiltUse>> /\ UNCHANGEDUpdate

\* Prepare: reconcile = !isFinish; return at once when !isDone(), build
\* the template builder and render wrapper otherwise.
PrepareStage ==
    /\ upc > 0 /\ ~uerr /\ UStage(upc) = "prepare"
    /\ reconcile' = ~IsFinish(uitem)
    /\ built' = ~reconcile'
    /\ UNext(FALSE)
    /\ UNCHANGED <<uitem, unbuiltUse, faults>> /\ UNCHANGEDUpdate

\* RerenderTemplate (when the item needs a re-render), ApplyParameters and
\* UpdateConfigVersion: nothing when done, a call on the render wrapper
\* otherwise.
RenderWrapperStage ==
    /\ upc > 0 /\ ~uerr
    /\ UStage(upc) \in {"rerender", "apply", "version"}
    /\ \E needRerender \in BOOLEAN :
         LET uses == ~IsDone /\ (UStage(upc) = "rerender" => needRerender)
         IN  unbuiltUse' = (unbuiltUse \/ (uses /\ ~built))
    /\ UNext(FALSE)
    /\ UNCHANGED <<uitem, reconcile, built, faults>> /\ UNCHANGEDUpdate

\* Sync and SyncStatus: TODO stubs that return nil.
SyncStage ==
    /\ upc > 0 /\ ~uerr /\ UStage(upc) \in {"sync", "syncStatus"}
    /\ UNext(FALSE)
    /\ UNCHANGED <<uitem, reconcile, built, unbuiltUse, faults>>
    /\ UNCHANGEDUpdate

-----------------------------------------------------------------------------
(* Environment.                                                            *)

\* the component's config templates change: a new pass is due
TemplatesChange ==
    /\ envSteps < MaxEnvSteps /\ envSteps' = envSteps + 1
    /\ \E s \in SUBSET TPL \ {templates} : templates' = s
    /\ pending' = TRUE
    /\ UNCHANGED <<cfg, cpc, cerr, panicked, upc, uitem, reconcile, built,
                   uerr, applied, unbuiltUse, faults>>

\* a user reconfigures an item: its ConfigMap no longer carries it applied
Reconfigure(t) ==
    /\ envSteps < MaxEnvSteps /\ envSteps' = envSteps + 1
    /\ applied[t] /\ applied' = [applied EXCEPT ![t] = FALSE]
    /\ UNCHANGED <<templates, cfg, pending, cpc, cerr, panicked, upc, uitem,
                   reconcile, built, uerr, unbuiltUse, faults>>

Next ==
    \/ StartCreate \/ CreateSkip \/ RenderStage \/ ConfigurationStage
    \/ StatusStage
    \/ StartUpdate \/ UpdateSkip \/ ConfigMapStage \/ PrepareStage
    \/ RenderWrapperStage \/ SyncStage
    \/ TemplatesChange \/ \E t \in TPL : Reconfigure(t)

\* A due pass runs and a running pipeline goes on to its next stage.
Fairness ==
    /\ WF_vars(StartCreate) /\ WF_vars(CreateSkip) /\ WF_vars(RenderStage)
    /\ WF_vars(ConfigurationStage) /\ WF_vars(StatusStage)

Spec == Init /\ [][Next]_vars /\ Fairness

-----------------------------------------------------------------------------
(* Properties.                                                             *)

\* A component whose passes keep running ends up with its Configuration
\* object: the Configuration stage creates it when it is missing.
ConfigurationEventuallyExists == <>cfg.exists

\* The Configuration stage leaves the stored Configuration with one item
\* per config template of the component: new templates added, removed ones
\* dropped.
ItemsFollowTemplates ==
    [][(cpc > 0 /\ ~cerr /\ Stage(cpc) = "configuration" /\ ~cerr')
         => cfg'.items = templates]_vars

\* A create pipeline whose stages all succeed records the item statuses
\* without crashing the pass.
NoStatusPanic == ~panicked

\* The update pipeline never calls the render wrapper unless Prepare has
\* built it.
RendererBuiltBeforeUse == ~unbuiltUse

=============================================================================
