--------------------------- MODULE ComponentPlan ---------------------------
(***************************************************************************)
(* The owned objects of one component: the transformers that stage their  *)
(* CREATE, UPDATE and DELETE vertices (account, PDB and ownership,         *)
(* controllers/apps/transformer_component_{account,pdb,ownership}.go) and  *)
(* the walk that applies them (componentWalkFunc in                        *)
(* controllers/apps/component_plan_builder.go).                            *)
(*                                                                         *)
(* Build reads the informer cache, which lags the store; the walk writes   *)
(* the store one vertex at a time, and the informer later delivers each    *)
(* write as a watch event that queues a pass.  A walk aborts at the first  *)
(* failing vertex and the controller may restart between two vertices.     *)
(***************************************************************************)
EXTENDS Naturals, Sequences, FiniteSets

CONSTANTS
    AccountSeq,     \* synthesizeComp.SystemAccounts, in order
    RefAccounts,    \* the accounts whose password comes from a SecretRef
    PASSWORD,       \* passwords generatePassword may return (model values)
    MINAVAIL,       \* values of synthesizeComp.MinAvailable (model values)
    Pdb,            \* the PodDisruptionBudget object of the component
    CompFinalizer,  \* constant.DBComponentFinalizerName
    DefFinalizer,   \* constant.DBComponentDefinitionFinalizerName
    MaxEnvSteps,    \* bound on user and restart events
    MaxFaults       \* bound on transient API errors and restarts

ACCOUNT == {AccountSeq[i] : i \in 1..Len(AccountSeq)}
OBJ == ACCOUNT \cup {Pdb}
FIN == {CompFinalizer, DefFinalizer}

ASSUME ConstantsAssumption ==
    /\ \A i, j \in 1..Len(AccountSeq) : AccountSeq[i] = AccountSeq[j] => i = j
    /\ RefAccounts \subseteq ACCOUNT
    /\ Pdb \notin ACCOUNT
    /\ MaxEnvSteps \in Nat
    /\ MaxFaults \in Nat

(* Values the objects' payload can take: a secret's password, the empty   *)
(* password of a referenced secret without a password field, or a PDB's   *)
(* minAvailable.  NoData is the payload of an absent object.              *)
NoPassword == "noPasswordField"
Missing == "secretMissing"
EmptyPassword == "emptyPassword"
NoMin == "nil"
NoData == "noData"
DATA == PASSWORD \cup MINAVAIL \cup {EmptyPassword}

VARIABLES
    store,          \* the API server's copy of each owned object
    cache,          \* the informer cache's copy, which Build reads
    minAvailable,   \* synthesizeComp.MinAvailable from the component spec
    refSecret,      \* password field of each referenced secret
    compDeleting,   \* ComponentOrig carries a deletionTimestamp
    pending,        \* a reconcile request for the component is queued
    plan,           \* the set of vertices of the current walk not yet applied
    lastPass,       \* history: "clean" once a pass ran to its end with no
                    \* input changed since its Build, "walking", "dirty"
    envSteps,
    faults

vars == <<store, cache, minAvailable, refSecret, compDeleting, pending,
          plan, lastPass, envSteps, faults>>

(* An object as the store holds it.  An absent object is Absent.          *)
ObjState == [exists : BOOLEAN, deleting : BOOLEAN, fins : SUBSET FIN,
             data : DATA \cup {NoData}]
Absent == [exists |-> FALSE, deleting |-> FALSE, fins |-> {}, data |-> NoData]
NewObject(d) == [exists |-> TRUE, deleting |-> FALSE, fins |-> {}, data |-> d]

(* A change vertex: the object, the action, the cached copy it was built  *)
(* from (the resourceVersion its write is checked against) and the object *)
(* the write sends.                                                       *)
Vertex == [obj : OBJ, action : {"CREATE", "UPDATE", "DELETE"},
           base : ObjState, val : ObjState]

-----------------------------------------------------------------------------
(* The account transformer.                                                *)

\* Mutant: the check for an empty password field left out.
GetPasswordFromSecretNoCheck(a) ==
    CASE refSecret[a] = Missing -> Missing
      [] refSecret[a] = NoPassword -> EmptyPassword
      [] OTHER -> refSecret[a]

\* getPasswordFromSecret: the referenced secret must exist and carry a
\* non-empty password field.
GetPasswordFromSecret(a) ==
    IF refSecret[a] \in {Missing, NoPassword} THEN Missing ELSE refSecret[a]

\* generatePassword returns a fresh random password on every call.
GeneratedPasswords == [ACCOUNT \ RefAccounts -> PASSWORD]

\* buildSystemAccount: the password of the account's secret (Missing when
\* the referenced secret is unusable, which fails the pass).
BuildSystemAccount(a, gen) ==
    IF a \in RefAccounts THEN GetPasswordFromSecret(a) ELSE gen[a]

\* createOrUpdate: CREATE when the cache has no such secret, otherwise an
\* UPDATE of a copy with the new data, staged only when it differs.
CreateOrUpdate(a, pw) ==
    IF ~cache[a].exists
    THEN {[obj |-> a, action |-> "CREATE", base |-> cache[a],
           val |-> NewObject(pw)]}
    ELSE IF cache[a].data # pw
         THEN {[obj |-> a, action |-> "UPDATE", base |-> cache[a],
                val |-> [cache[a] EXCEPT !.data = pw]]}
         ELSE {}

\* componentAccountTransformer.Transform, once no account fails.
AccountTransform(gen) ==
    UNION {CreateOrUpdate(a, BuildSystemAccount(a, gen)) : a \in ACCOUNT}

AccountError == \E a \in RefAccounts : GetPasswordFromSecret(a) = Missing

-----------------------------------------------------------------------------
(* The PDB transformer.                                                    *)

\* PDBObject: the first PDB the cached list returns, if any.
PDBObject == cache[Pdb]

\* Mutant: the built spec is not copied into the existing PDB.
HandleUpdateKeepSpec(obj) == obj

\* handleUpdate: a copy of the existing PDB with the built spec.
HandleUpdate(obj) == [obj EXCEPT !.data = minAvailable]

\* GraphClient.Update stages nothing when old and new are deep-equal.
GraphUpdate(old, new) ==
    IF old = new THEN {}
    ELSE {[obj |-> Pdb, action |-> "UPDATE", base |-> old, val |-> new]}

\* Mutant: the two branches for a missing PDB swapped (a nil PDB created).
PdbTransformNilCreate ==
    LET obj == PDBObject
        wanted == minAvailable # NoMin
    IN  CASE ~obj.exists /\ wanted -> {}
          [] ~obj.exists /\ ~wanted ->
                {[obj |-> Pdb, action |-> "CREATE", base |-> obj,
                  val |-> NewObject(minAvailable)]}
          [] obj.exists /\ ~wanted ->
                {[obj |-> Pdb, action |-> "DELETE", base |-> obj, val |-> obj]}
          [] OTHER -> GraphUpdate(obj, HandleUpdate(obj))

\* ComponentPDBTransformer.Transform: the PDB exists iff MinAvailable is set.
PdbTransform ==
    LET obj == PDBObject
        wanted == minAvailable # NoMin
    IN  CASE ~obj.exists /\ ~wanted -> {}
          [] ~obj.exists /\ wanted ->
                {[obj |-> Pdb, action |-> "CREATE", base |-> obj,
                  val |-> NewObject(minAvailable)]}
          [] obj.exists /\ ~wanted ->
                {[obj |-> Pdb, action |-> "DELETE", base |-> obj, val |-> obj]}
          [] OTHER -> GraphUpdate(obj, HandleUpdate(obj))

-----------------------------------------------------------------------------
(* The ownership transformer and the chain.                                *)

\* SetOwnership adds the owner reference and DefFinalizer to every object
\* the DAG holds that is not the Component.
SetOwnership(v) ==
    [v EXCEPT !.val = [v.val EXCEPT !.fins = v.val.fins \cup {DefFinalizer}]]
OwnershipTransform(p) == {SetOwnership(v) : v \in p}

\* The chain: account, PDB, ownership.  Transformers return at once on a
\* deleting component.
Chain(gen) ==
    IF compDeleting THEN {}
    ELSE OwnershipTransform(AccountTransform(gen) \cup PdbTransform)

-----------------------------------------------------------------------------
(* The API server's answer to each call of componentWalkFunc.              *)

\* Create: AlreadyExists leaves the stored object as it is.
ApiCreate(s, val) == IF s.exists THEN s ELSE val

\* Update: writes the sent object; once a deleting object has no
\* finalizer left, the store removes it.
ApiWrite(s, val) ==
    IF s.deleting /\ val.fins = {} THEN Absent
    ELSE [s EXCEPT !.fins = val.fins, !.data = val.data]

\* Delete: marks an object with finalizers, removes one without.
ApiDelete(s) ==
    IF ~s.exists THEN s
    ELSE IF s.fins = {} THEN Absent ELSE [s EXCEPT !.deleting = TRUE]

\* An Update conflicts when the stored object moved since the cached copy
\* the vertex was built from.
Conflict(s, v) == s.exists /\ s # v.base

\* componentWalkFunc on one vertex: the outcome [ok, s] of its calls, with
\* AlreadyExists and NotFound taken as success.
WalkFunc(v, s) ==
    CASE v.action = "CREATE" -> [ok |-> TRUE, s |-> ApiCreate(s, v.val)]
      [] v.action = "UPDATE" ->
            IF ~s.exists THEN [ok |-> TRUE, s |-> s]
            ELSE IF Conflict(s, v) THEN [ok |-> FALSE, s |-> s]
            ELSE [ok |-> TRUE, s |-> ApiWrite(s, v.val)]
      [] v.action = "DELETE" ->
            LET stripped == [v.val EXCEPT !.fins = @ \ {CompFinalizer}]
                s1 == IF CompFinalizer \in v.val.fins /\ s.exists
                      THEN ApiWrite(s, stripped) ELSE s
                ok1 == ~(CompFinalizer \in v.val.fins /\ Conflict(s, v))
            IN  IF ~ok1 THEN [ok |-> FALSE, s |-> s]
                ELSE IF v.val.deleting THEN [ok |-> TRUE, s |-> s1]
                ELSE [ok |-> TRUE, s |-> ApiDelete(s1)]

-----------------------------------------------------------------------------
(* The controller.                                                         *)

Init ==
    /\ store = [o \in OBJ |-> Absent]
    /\ cache = store
    /\ minAvailable \in MINAVAIL \cup {NoMin}
    /\ refSecret \in [RefAccounts -> PASSWORD \cup {Missing, NoPassword}]
    /\ compDeleting = FALSE
    /\ pending = TRUE
    /\ plan = {}
    /\ lastPass = "dirty"
    /\ envSteps = 0
    /\ faults = 0

\* A pass whose chain fails: an unusable referenced secret, or a transient
\* error of a cache read.  The error requeues the request.
BuildError ==
    /\ pending /\ plan = {} /\ ~compDeleting
    /\ \/ AccountError /\ UNCHANGED faults
       \/ faults < MaxFaults /\ faults' = faults + 1
    /\ UNCHANGED <<store, cache, minAvailable, refSecret, compDeleting,
                   pending, plan, lastPass, envSteps>>

\* componentPlanBuilder.Build: the chain stages the vertices of the walk.
Build ==
    /\ pending /\ plan = {}
    /\ compDeleting \/ ~AccountError
    /\ \E gen \in GeneratedPasswords :
          plan' = Chain(gen)
    /\ pending' = FALSE
    /\ lastPass' = IF plan' = {} THEN "clean" ELSE "walking"
    /\ UNCHANGED <<store, cache, minAvailable, refSecret, compDeleting,
                   envSteps, faults>>

\* The walk (WalkReverseTopoOrder) applies a vertex; the owned objects do
\* not depend on one another, so any of the remaining ones may come next.
\* An error aborts the rest of the walk and the Reconcile's error requeues
\* the request.
WalkVertex ==
    /\ \E v \in plan :
       LET r == WalkFunc(v, store[v.obj])
       IN  \/ /\ r.ok
              /\ store' = [store EXCEPT ![v.obj] = r.s]
              /\ plan' = plan \ {v}
              /\ lastPass' = IF plan' = {} /\ lastPass = "walking"
                              THEN "clean" ELSE lastPass
              /\ UNCHANGED <<pending, faults>>
           \/ /\ ~r.ok \/ faults < MaxFaults
              /\ faults' = IF r.ok THEN faults + 1 ELSE faults
              /\ plan' = {}
              /\ pending' = TRUE
              /\ lastPass' = "dirty"
              /\ UNCHANGED store
    /\ UNCHANGED <<cache, minAvailable, refSecret, compDeleting, envSteps>>

\* The informer catches up with one object and its watch event queues a
\* pass of the owning component.
CacheSync(o) ==
    /\ cache[o] # store[o]
    /\ cache' = [cache EXCEPT ![o] = store[o]]
    /\ pending' = TRUE
    /\ UNCHANGED <<store, minAvailable, refSecret, compDeleting, plan,
                   lastPass, envSteps, faults>>

-----------------------------------------------------------------------------
(* The environment.                                                        *)

EnvStep == envSteps < MaxEnvSteps /\ envSteps' = envSteps + 1

\* The user changes MinAvailable; the component's watch queues a pass.
UserSetMinAvailable(m) ==
    /\ EnvStep /\ m # minAvailable
    /\ minAvailable' = m
    /\ pending' = TRUE /\ lastPass' = "dirty"
    /\ UNCHANGED <<store, cache, refSecret, compDeleting, plan, faults>>

\* The user creates, fixes, rotates, empties or deletes a referenced secret.
\* Nothing the component watches changes, so no pass is queued.
UserSetRefSecret(a, p) ==
    /\ EnvStep /\ p # refSecret[a]
    /\ refSecret' = [refSecret EXCEPT ![a] = p]
    /\ lastPass' = "dirty"
    /\ UNCHANGED <<store, cache, minAvailable, compDeleting, pending, plan,
                   faults>>

\* The user deletes the component.
UserDeleteComp ==
    /\ EnvStep /\ ~compDeleting
    /\ compDeleting' = TRUE
    /\ pending' = TRUE /\ lastPass' = "dirty"
    /\ UNCHANGED <<store, cache, minAvailable, refSecret, plan, faults>>

\* The controller restarts, possibly between two vertices of a walk: the
\* walk is lost, the informer lists afresh and every object is queued.
Restart ==
    /\ EnvStep /\ faults < MaxFaults
    /\ faults' = faults + 1
    /\ plan' = {} /\ cache' = store
    /\ pending' = TRUE /\ lastPass' = "dirty"
    /\ UNCHANGED <<store, minAvailable, refSecret, compDeleting>>

Environment ==
    \/ \E m \in MINAVAIL \cup {NoMin} : UserSetMinAvailable(m)
    \/ \E a \in RefAccounts, p \in PASSWORD \cup {Missing, NoPassword} :
          UserSetRefSecret(a, p)
    \/ UserDeleteComp
    \/ Restart

Next ==
    \/ BuildError \/ Build \/ WalkVertex
    \/ \E o \in OBJ : CacheSync(o)
    \/ Environment

\* A queued request is taken by a worker, a built plan is walked and the
\* informer delivers the events of every object, whatever the others do.
Fairness ==
    /\ WF_vars(Build) /\ WF_vars(WalkVertex)
    /\ \A o \in OBJ : WF_vars(CacheSync(o))

Spec == Init /\ [][Next]_vars /\ Fairness

-----------------------------------------------------------------------------
(* Properties.                                                             *)

\* The objects keep their shape: a deleted object leaves nothing behind, a
\* secret holds a password and a PDB a minAvailable.
TypeOK ==
    /\ store \in [OBJ -> ObjState] /\ cache \in [OBJ -> ObjState]
    /\ \A o \in OBJ : ~store[o].exists => store[o] = Absent
    /\ \A a \in ACCOUNT :
          store[a].exists => store[a].data \in PASSWORD \cup {EmptyPassword}
    /\ store[Pdb].exists => store[Pdb].data \in MINAVAIL
    /\ minAvailable \in MINAVAIL \cup {NoMin}
    /\ refSecret \in [RefAccounts -> PASSWORD \cup {Missing, NoPassword}]
    /\ compDeleting \in BOOLEAN /\ pending \in BOOLEAN
    /\ plan \subseteq Vertex
    /\ lastPass \in {"dirty", "walking", "clean"}
    /\ envSteps \in 0..MaxEnvSteps /\ faults \in 0..MaxFaults

\* The controller is idle: nothing queued, no walk, the cache caught up.
Idle == ~pending /\ plan = {} /\ cache = store

AccountsExist == \A a \in ACCOUNT : store[a].exists

\* A referenced account's secret carries the referenced secret's password.
RefPasswordsSynced == \A a \in RefAccounts : store[a].data = refSecret[a]

\* When the controller is idle on a live component, every account secret
\* exists and the PDB exists with the spec's minAvailable when one is set;
\* and if no referenced secret changed since the last pass's Build, the
\* referenced accounts carry the referenced passwords.  Walks cut short by
\* errors, conflicts and restarts, and Builds from a stale cache whose
\* CREATE meets AlreadyExists, are all repaired by later passes.  A change
\* of a referenced secret queues no pass (getPasswordFromSecret reads it
\* only when something else does), so after one the passwords are claimed
\* only once a later pass has run.
OwnedObjectsWhenIdle ==
    Idle /\ ~compDeleting =>
        /\ AccountsExist
        /\ lastPass = "clean" => RefPasswordsSynced
        /\ minAvailable # NoMin =>
              store[Pdb].exists /\ store[Pdb].data = minAvailable

\* Once the referenced secrets are usable and the component stays live,
\* eventually every account secret exists for good, and from then on the
\* referenced passwords are synced whenever the last pass ran on the
\* secrets as they are, although walks fail, conflict and are cut by
\* restarts.
AccountsEventuallyReady ==
    <>[](~compDeleting /\ ~AccountError) =>
        <>[](AccountsExist /\ (lastPass = "clean" => RefPasswordsSynced))

\* Applying a vertex would change the stored object.
Effectful(v) == WalkFunc(v, store[v.obj]).s # store[v.obj]

\* Spec section 8: replaying the transformer chain against a store that the
\* last pass brought up to date, with nothing changed since, stages a DAG
\* with no effect.
ReplayIsNoop ==
    [][lastPass = "clean" /\ Build =>
         \A v \in plan' : ~Effectful(v)]_vars

\* Spec section 4.4: a DELETE vertex strips the finalizer marker before it
\* deletes, so a PDB the transformer deletes is gone once the controller is
\* idle on a component without MinAvailable.
NoPdbWhenNotWanted ==
    Idle /\ ~compDeleting /\ minAvailable = NoMin => ~store[Pdb].exists

====
