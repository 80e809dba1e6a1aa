------------------------ MODULE ComponentPlanProofs ------------------------
(***************************************************************************)
(* Proofs about the owned objects of a component (ComponentPlan): the     *)
(* types, and that a controller idle on a live component has every account *)
(* secret and the PDB the spec asks for.                                   *)
(***************************************************************************)
EXTENDS ComponentPlan, TLAPS

USE ConstantsAssumption

\* the payloads an existing object of kind o may carry
DataOf(o) == IF o = Pdb THEN MINAVAIL ELSE PASSWORD \cup {EmptyPassword}

\* an object as the store, the cache or a vertex may hold it
ObjOK(o, s) ==
    /\ s \in ObjState
    /\ ~s.exists => s = Absent
    /\ s.exists => s.data \in DataOf(o)

\* a vertex the chain stages: it sends an existing object of the right kind
VertexOK(v) ==
    /\ v \in Vertex
    /\ ObjOK(v.obj, v.val) /\ v.val.exists

\* what the spec asks of one owned object on a live component, when the
\* referenced secrets hold the passwords sec
Good(o, s, sec) ==
    IF o = Pdb THEN minAvailable # NoMin => s.exists /\ s.data = minAvailable
    ELSE s.exists /\ (o \in RefAccounts => s.data = sec[o])

\* a staged vertex that, once applied, leaves its object as the spec asks
\* or different from the cache
Staged(v, sec) ==
    /\ v.action = "CREATE" => ~cache[v.obj].exists /\ Good(v.obj, v.val, sec)
    /\ v.action = "UPDATE" =>
          /\ cache[v.obj].exists /\ DefFinalizer \in v.val.fins
          /\ Good(v.obj, v.val, sec)
    /\ v.action = "DELETE" => v.obj = Pdb /\ minAvailable = NoMin

\* the same, for the referenced secrets as they are now
Want(o, s) == Good(o, s, refSecret)
StagedNow(v) == Staged(v, refSecret)

\* no referenced secret changed since the last Build
Synced == lastPass # "dirty"

(* The inductive invariant.  OwnedObjectsWhenIdle is not inductive: it     *)
(* says nothing while a walk is under way or a watch event is still to    *)
(* come.  What makes it hold is that pending is cleared only by Build, and *)
(* until something queues a pass again the cache, minAvailable and the     *)
(* deletion mark stay as Build read them, and each object either has its  *)
(* staged vertex, or is as the spec asks, or differs from the cache (and  *)
(* so has a watch event to come).  The referenced secrets are the         *)
(* exception: a change of one queues nothing, so the invariant speaks of  *)
(* the usable passwords sec the last Build read, which are the current    *)
(* ones as long as no referenced secret changed since (Synced).           *)
ObjectsOK == \A o \in OBJ : ObjOK(o, store[o]) /\ ObjOK(o, cache[o])

PlanOK ==
    /\ \A v \in plan : VertexOK(v)
    /\ \A v, w \in plan : v.obj = w.obj => v = w

\* an object a later walk step or a later watch event takes care of
Covered(o, sec) ==
    \/ \E v \in plan : v.obj = o
    \/ Good(o, store[o], sec)
    \/ store[o] # cache[o]

\* what a quiet controller owes, for the passwords sec
QuietFor(sec) ==
    /\ Synced => sec = refSecret
    /\ \A v \in plan : Staged(v, sec)
    /\ \A o \in OBJ : Covered(o, sec)

QuietOK ==
    ~pending /\ ~compDeleting =>
        \E sec \in [RefAccounts -> PASSWORD] : QuietFor(sec)

IInv == TypeOK /\ ObjectsOK /\ PlanOK /\ QuietOK

-----------------------------------------------------------------------------
(* Lemmas about the objects and the API calls.                             *)

LEMMA AbsentOK ==
    ASSUME NEW o PROVE ObjOK(o, Absent)
BY DEF ObjOK, Absent, ObjState

LEMMA NewObjectOK ==
    ASSUME NEW o, NEW d \in DataOf(o)
    PROVE  /\ ObjOK(o, NewObject(d))
           /\ NewObject(d).exists /\ NewObject(d).data = d
BY DEF ObjOK, NewObject, ObjState, DataOf, DATA

\* Setting one field of an object keeps it an object.
LEMMA SetData ==
    ASSUME NEW s \in ObjState, NEW d \in DATA \cup {NoData}
    PROVE  [s EXCEPT !.data = d] \in ObjState
BY DEF ObjState

LEMMA SetFins ==
    ASSUME NEW s \in ObjState, NEW f \in SUBSET FIN
    PROVE  [s EXCEPT !.fins = f] \in ObjState
BY DEF ObjState

LEMMA SetDeleting ==
    ASSUME NEW s \in ObjState
    PROVE  [s EXCEPT !.deleting = TRUE] \in ObjState
BY DEF ObjState

\* The ownership transformer adds DefFinalizer and changes nothing else
\* that matters.
LEMMA OwnershipOK ==
    ASSUME NEW v \in Vertex, v.val.exists, ObjOK(v.obj, v.val)
    PROVE  LET w == SetOwnership(v)
           IN  /\ w \in Vertex
               /\ w.obj = v.obj /\ w.action = v.action
               /\ w.val.exists /\ w.val.data = v.val.data
               /\ DefFinalizer \in w.val.fins
               /\ ObjOK(w.obj, w.val)
<1> DEFINE nv == [v.val EXCEPT !.fins = v.val.fins \cup {DefFinalizer}]
<1>1. SetOwnership(v) = [v EXCEPT !.val = nv]
    BY DEF SetOwnership
<1>2. nv \in ObjState
    <2>1. v.val \in ObjState /\ v.val.fins \cup {DefFinalizer} \in SUBSET FIN
        BY DEF Vertex, ObjState, FIN
    <2>2. QED
        BY <2>1, SetFins
<1>3. /\ nv.exists = v.val.exists /\ nv.data = v.val.data
      /\ DefFinalizer \in nv.fins
    BY DEF Vertex, ObjState
<1>4. [v EXCEPT !.val = nv] \in Vertex
    BY <1>2 DEF Vertex
<1>5. ObjOK(v.obj, nv)
    BY <1>2, <1>3 DEF ObjOK
<1>6. QED
    BY <1>1, <1>3, <1>4, <1>5 DEF Vertex

\* An Update of an existing object either removes a deleting object that
\* loses its last finalizer, or writes the sent finalizers and payload.
LEMMA ApiWriteOK ==
    ASSUME NEW o, NEW s, NEW val, ObjOK(o, s), s.exists, ObjOK(o, val), val.exists
    PROVE  /\ ObjOK(o, ApiWrite(s, val))
           /\ val.fins # {} =>
                 ApiWrite(s, val).exists /\ ApiWrite(s, val).data = val.data
<1> DEFINE r1 == [s EXCEPT !.fins = val.fins]
           r2 == [r1 EXCEPT !.data = val.data]
<1>1. r1 \in ObjState /\ r1.exists /\ r1.fins = val.fins
    BY SetFins DEF ObjOK, ObjState
<1>2. r2 \in ObjState /\ r2.exists /\ r2.data = val.data
    BY <1>1, SetData DEF ObjOK, ObjState, DataOf, DATA
<1>3. [s EXCEPT !.fins = val.fins, !.data = val.data] = r2
    OBVIOUS
<1>4. ObjOK(o, r2)
    BY <1>2 DEF ObjOK
<1>5. QED
    BY <1>2, <1>3, <1>4, AbsentOK DEF ApiWrite

LEMMA ApiDeleteOK ==
    ASSUME NEW o, NEW s, ObjOK(o, s)
    PROVE  ObjOK(o, ApiDelete(s))
<1>1. CASE s.exists /\ s.fins # {}
    <2>1. [s EXCEPT !.deleting = TRUE] \in ObjState
        BY SetDeleting DEF ObjOK
    <2>2. [s EXCEPT !.deleting = TRUE].exists
          /\ [s EXCEPT !.deleting = TRUE].data = s.data
        BY <1>1 DEF ObjOK, ObjState
    <2>3. QED
        BY <1>1, <2>1, <2>2 DEF ApiDelete, ObjOK
<1>2. QED
    BY <1>1, AbsentOK DEF ApiDelete

\* componentWalkFunc on a vertex the chain staged keeps its object in shape.
LEMMA WalkOK ==
    ASSUME NEW v, VertexOK(v), NEW s, ObjOK(v.obj, s)
    PROVE  /\ ObjOK(v.obj, WalkFunc(v, s).s)
           /\ WalkFunc(v, s).ok \in BOOLEAN
<1> DEFINE o == v.obj
<1>1. v \in Vertex /\ ObjOK(o, v.val) /\ v.val.exists
    BY DEF VertexOK
<1>2. CASE v.action = "CREATE"
    BY <1>1, <1>2 DEF WalkFunc, ApiCreate, ObjOK
<1>3. CASE v.action = "UPDATE"
    BY <1>1, <1>3, ApiWriteOK DEF WalkFunc, ObjOK
<1>4. CASE v.action = "DELETE"
    <2> DEFINE stripped == [v.val EXCEPT !.fins = @ \ {CompFinalizer}]
               s1 == IF CompFinalizer \in v.val.fins /\ s.exists
                     THEN ApiWrite(s, stripped) ELSE s
    <2>1. stripped \in ObjState /\ stripped.exists /\ stripped.data = v.val.data
        BY <1>1, SetFins DEF ObjOK, ObjState
    <2>2. ObjOK(o, stripped)
        BY <1>1, <2>1 DEF ObjOK
    <2>3. ObjOK(o, s1)
        BY <2>1, <2>2, ApiWriteOK
    <2>4. ObjOK(o, ApiDelete(s1))
        BY <2>3, ApiDeleteOK
    <2>5. WalkFunc(v, s) \in
             {[ok |-> FALSE, s |-> s], [ok |-> TRUE, s |-> s1],
              [ok |-> TRUE, s |-> ApiDelete(s1)]}
        BY <1>4 DEF WalkFunc
    <2>6. QED
        <3>1. CASE WalkFunc(v, s) = [ok |-> FALSE, s |-> s]
            BY <3>1
        <3>2. CASE WalkFunc(v, s) = [ok |-> TRUE, s |-> s1]
            BY <2>3, <3>2
        <3>3. CASE WalkFunc(v, s) = [ok |-> TRUE, s |-> ApiDelete(s1)]
            BY <2>4, <3>3
        <3>4. QED
            BY <2>5, <3>1, <3>2, <3>3
<1>5. v.action \in {"CREATE", "UPDATE", "DELETE"}
    BY <1>1 DEF Vertex
<1>6. QED
    BY <1>2, <1>3, <1>4, <1>5

\* A successful walk of a staged vertex leaves its object as the spec asks,
\* or different from the cached copy the vertex was built from.
LEMMA WalkGood ==
    ASSUME NEW v, NEW sec, VertexOK(v), Staged(v, sec), NEW s, ObjOK(v.obj, s),
           WalkFunc(v, s).ok
    PROVE  Good(v.obj, WalkFunc(v, s).s, sec) \/ WalkFunc(v, s).s # cache[v.obj]
<1> DEFINE o == v.obj
<1>1. v \in Vertex /\ ObjOK(o, v.val) /\ v.val.exists
    BY DEF VertexOK
<1>2. CASE v.action = "CREATE"
    <2>1. ~cache[o].exists /\ Good(o, v.val, sec)
        BY <1>2 DEF Staged
    <2>2. CASE s.exists
        BY <1>2, <2>1, <2>2 DEF WalkFunc, ApiCreate
    <2>3. CASE ~s.exists
        BY <1>2, <2>1, <2>3 DEF WalkFunc, ApiCreate
    <2>4. QED
        BY <2>2, <2>3
<1>3. CASE v.action = "UPDATE"
    <2>1. cache[o].exists /\ DefFinalizer \in v.val.fins /\ Good(o, v.val, sec)
        BY <1>3 DEF Staged
    <2>2. CASE ~s.exists
        BY <1>3, <2>1, <2>2 DEF WalkFunc
    <2>3. CASE s.exists
        <3>1. WalkFunc(v, s).s = ApiWrite(s, v.val)
            BY <1>3, <2>3 DEF WalkFunc
        <3>2. ApiWrite(s, v.val).exists /\ ApiWrite(s, v.val).data = v.val.data
            <4>1. v.val.fins # {}
                BY <2>1
            <4>2. ObjOK(v.obj, s) /\ s.exists /\ ObjOK(v.obj, v.val) /\ v.val.exists
                BY <1>1, <2>3
            <4>3. ApiWrite(s, v.val) = [s EXCEPT !.fins = v.val.fins, !.data = v.val.data]
                BY <4>1 DEF ApiWrite
            <4>4. s \in ObjState
                BY <4>2 DEF ObjOK
            <4>5. QED
                BY <4>2, <4>3, <4>4, Zenon DEF ObjState
        <3>3. QED
            BY <2>1, <3>1, <3>2 DEF Good
    <2>4. QED
        BY <2>2, <2>3
<1>4. CASE v.action = "DELETE"
    BY <1>4 DEF Staged, Good
<1>5. QED
    BY <1>1, <1>2, <1>3, <1>4 DEF Vertex

-----------------------------------------------------------------------------
(* What Build stages.                                                      *)

\* a vertex as a transformer stages it, before the ownership transformer
PreOK(u) ==
    /\ u \in Vertex /\ u.val.exists /\ ObjOK(u.obj, u.val)
    /\ u.action = "CREATE" => ~cache[u.obj].exists /\ Want(u.obj, u.val)
    /\ u.action = "UPDATE" => cache[u.obj].exists /\ Want(u.obj, u.val)
    /\ u.action = "DELETE" => u.obj = Pdb /\ minAvailable = NoMin

\* The facts about the state that Build relies on.
BuildReady ==
    /\ TypeOK
    /\ \A o \in OBJ : ObjOK(o, cache[o])
    /\ ~AccountError

\* buildSystemAccount: a password, the referenced one for a SecretRef.
LEMMA SystemAccountOK ==
    ASSUME BuildReady, NEW gen \in GeneratedPasswords, NEW a \in ACCOUNT
    PROVE  /\ BuildSystemAccount(a, gen) \in PASSWORD
           /\ a \in RefAccounts => BuildSystemAccount(a, gen) = refSecret[a]
BY DEF BuildReady, TypeOK, AccountError, BuildSystemAccount,
       GetPasswordFromSecret, GeneratedPasswords

\* A transformer that stages a single vertex.
LEMMA StagesOne ==
    ASSUME NEW S, NEW x, S = {x}, PreOK(x), NEW o, x.obj = o
    PROVE  /\ \A u \in S : PreOK(u) /\ u.obj = o
           /\ \A u, u2 \in S : u = u2
           /\ S # {}
OBVIOUS

\* createOrUpdate stages at most one vertex, for its account; it stages
\* none only when the cached secret already carries the password.
LEMMA CreateOrUpdateOK ==
    ASSUME BuildReady, NEW a \in ACCOUNT, NEW pw \in PASSWORD,
           a \in RefAccounts => pw = refSecret[a]
    PROVE  /\ \A u \in CreateOrUpdate(a, pw) : PreOK(u) /\ u.obj = a
           /\ \A u, u2 \in CreateOrUpdate(a, pw) : u = u2
           /\ CreateOrUpdate(a, pw) = {} => Want(a, cache[a])
<1>1. a # Pdb /\ pw \in DataOf(a) /\ a \in OBJ
    BY DEF DataOf, OBJ
<1>2. ObjOK(a, cache[a]) /\ cache[a] \in ObjState
    BY <1>1 DEF BuildReady, ObjOK
<1>3. CASE ~cache[a].exists
    <2> DEFINE u0 == [obj |-> a, action |-> "CREATE", base |-> cache[a],
                      val |-> NewObject(pw)]
    <2>1. ObjOK(a, NewObject(pw)) /\ NewObject(pw).exists
          /\ NewObject(pw).data = pw
        BY <1>1, NewObjectOK
    <2>2. CreateOrUpdate(a, pw) = {u0}
        BY <1>3 DEF CreateOrUpdate
    <2>3. u0 \in Vertex
        BY <1>1, <1>2, <2>1 DEF Vertex, ObjOK
    <2>4. Want(a, NewObject(pw))
        BY <1>1, <2>1 DEF Want, Good
    <2>5. PreOK(u0)
        BY <1>3, <2>1, <2>3, <2>4 DEF PreOK
    <2>6. QED
        BY <2>2, <2>5, StagesOne
<1>4. CASE cache[a].exists /\ cache[a].data # pw
    <2> DEFINE nv == [cache[a] EXCEPT !.data = pw]
               u0 == [obj |-> a, action |-> "UPDATE", base |-> cache[a],
                      val |-> nv]
    <2>1. nv \in ObjState /\ nv.exists /\ nv.data = pw
        BY <1>2, <1>4, SetData DEF ObjState, DATA
    <2>2. ObjOK(a, nv)
        BY <1>1, <2>1 DEF ObjOK
    <2>3. CreateOrUpdate(a, pw) = {u0}
        BY <1>4 DEF CreateOrUpdate
    <2>4. u0 \in Vertex
        BY <1>1, <1>2, <2>1 DEF Vertex
    <2>5. Want(a, nv)
        BY <1>1, <2>1 DEF Want, Good
    <2>6. PreOK(u0)
        BY <1>4, <2>1, <2>2, <2>4, <2>5 DEF PreOK
    <2>7. QED
        BY <2>3, <2>6, StagesOne
<1>5. CASE cache[a].exists /\ cache[a].data = pw
    <2>1. CreateOrUpdate(a, pw) = {}
        BY <1>5 DEF CreateOrUpdate
    <2>2. Want(a, cache[a])
        BY <1>1, <1>5 DEF Want, Good
    <2>3. QED
        BY <2>1, <2>2
<1>6. QED
    BY <1>3, <1>4, <1>5

\* The PDB transformer stages at most one vertex, for the PDB; it stages
\* none only when the cached PDB is as the spec asks.
LEMMA PdbTransformOK ==
    ASSUME BuildReady
    PROVE  /\ \A u \in PdbTransform : PreOK(u) /\ u.obj = Pdb
           /\ \A u, u2 \in PdbTransform : u = u2
           /\ PdbTransform = {} => Want(Pdb, cache[Pdb])
<1> DEFINE obj == cache[Pdb]
<1>1. ObjOK(Pdb, obj) /\ Pdb \in OBJ /\ obj \in ObjState
    BY DEF BuildReady, OBJ, ObjOK
<1>2. minAvailable \in MINAVAIL \cup {NoMin}
    BY DEF BuildReady, TypeOK
<1>3. CASE ~obj.exists /\ minAvailable = NoMin
    <2>1. PdbTransform = {}
        BY <1>3 DEF PdbTransform, PDBObject
    <2>2. Want(Pdb, obj)
        BY <1>3 DEF Want, Good
    <2>3. QED
        BY <2>1, <2>2
<1>4. CASE ~obj.exists /\ minAvailable # NoMin
    <2> DEFINE u0 == [obj |-> Pdb, action |-> "CREATE", base |-> obj,
                      val |-> NewObject(minAvailable)]
    <2>1. minAvailable \in DataOf(Pdb)
        BY <1>2, <1>4 DEF DataOf
    <2>2. ObjOK(Pdb, NewObject(minAvailable)) /\ NewObject(minAvailable).exists
          /\ NewObject(minAvailable).data = minAvailable
        BY <2>1, NewObjectOK
    <2>3. PdbTransform = {u0}
        BY <1>4 DEF PdbTransform, PDBObject
    <2>4. u0 \in Vertex
        BY <1>1, <2>2 DEF Vertex, ObjOK
    <2>5. Want(Pdb, NewObject(minAvailable))
        BY <2>2 DEF Want, Good
    <2>6. PreOK(u0)
        BY <1>4, <2>2, <2>4, <2>5 DEF PreOK
    <2>7. QED
        BY <2>3, <2>6, StagesOne
<1>5. CASE obj.exists /\ minAvailable = NoMin
    <2> DEFINE u0 == [obj |-> Pdb, action |-> "DELETE", base |-> obj, val |-> obj]
    <2>1. PdbTransform = {u0}
        BY <1>5 DEF PdbTransform, PDBObject
    <2>2. u0 \in Vertex
        BY <1>1 DEF Vertex
    <2>3. PreOK(u0)
        BY <1>1, <1>5, <2>2 DEF PreOK
    <2>4. QED
        BY <2>1, <2>3, StagesOne
<1>6. CASE obj.exists /\ minAvailable # NoMin
    <2> DEFINE nv == HandleUpdate(obj)
               u0 == [obj |-> Pdb, action |-> "UPDATE", base |-> obj, val |-> nv]
    <2>1. nv \in ObjState /\ nv.exists /\ nv.data = minAvailable
        BY <1>1, <1>2, <1>6, SetData DEF HandleUpdate, ObjState, DATA
    <2>2. ObjOK(Pdb, nv)
        BY <1>2, <1>6, <2>1 DEF ObjOK, DataOf
    <2>3. PdbTransform = GraphUpdate(obj, nv)
        BY <1>6 DEF PdbTransform, PDBObject
    <2>4. Want(Pdb, nv)
        BY <2>1 DEF Want, Good
    <2>5. CASE obj = nv
        <3>1. PdbTransform = {}
            BY <2>3, <2>5 DEF GraphUpdate
        <3>2. QED
            BY <2>4, <2>5, <3>1
    <2>6. CASE obj # nv
        <3>1. PdbTransform = {u0}
            BY <2>3, <2>6 DEF GraphUpdate
        <3>2. u0 \in Vertex
            BY <1>1, <2>1 DEF Vertex
        <3>3. PreOK(u0)
            BY <1>6, <2>1, <2>2, <2>4, <3>2 DEF PreOK
        <3>4. QED
            BY <3>1, <3>3, StagesOne
    <2>7. QED
        BY <2>5, <2>6
<1>7. QED
    BY <1>3, <1>4, <1>5, <1>6

\* The vertices the account transformer stages, each with its account.
LEMMA AccountTransformOK ==
    ASSUME BuildReady, NEW gen \in GeneratedPasswords
    PROVE  /\ \A u \in AccountTransform(gen) : PreOK(u) /\ u.obj \in ACCOUNT
           /\ \A u, u2 \in AccountTransform(gen) : u.obj = u2.obj => u = u2
           /\ \A a \in ACCOUNT :
                 (\E u \in AccountTransform(gen) : u.obj = a) \/ Want(a, cache[a])
<1> DEFINE C(a) == CreateOrUpdate(a, BuildSystemAccount(a, gen))
<1>1. ASSUME NEW a \in ACCOUNT
      PROVE  /\ \A u \in C(a) : PreOK(u) /\ u.obj = a
             /\ \A u, u2 \in C(a) : u = u2
             /\ C(a) = {} => Want(a, cache[a])
    <2>1. /\ BuildSystemAccount(a, gen) \in PASSWORD
          /\ a \in RefAccounts => BuildSystemAccount(a, gen) = refSecret[a]
        BY SystemAccountOK
    <2>2. QED
        BY <2>1, CreateOrUpdateOK
<1>2. ASSUME NEW u \in AccountTransform(gen)
      PROVE  \E a \in ACCOUNT : u \in C(a)
    BY DEF AccountTransform
<1>3. \A u \in AccountTransform(gen) : PreOK(u) /\ u.obj \in ACCOUNT
    BY <1>1, <1>2
<1>4. ASSUME NEW u \in AccountTransform(gen), NEW u2 \in AccountTransform(gen),
             u.obj = u2.obj
      PROVE  u = u2
    <2>1. PICK a \in ACCOUNT : u \in C(a)
        BY <1>2
    <2>2. PICK a2 \in ACCOUNT : u2 \in C(a2)
        BY <1>2
    <2>3. a = a2
        BY <1>1, <1>4, <2>1, <2>2
    <2>4. QED
        BY <1>1, <2>1, <2>2, <2>3
<1>5. ASSUME NEW a \in ACCOUNT
      PROVE  (\E u \in AccountTransform(gen) : u.obj = a) \/ Want(a, cache[a])
    <2>1. CASE C(a) = {}
        BY <1>1, <2>1
    <2>2. CASE C(a) # {}
        <3>1. PICK u \in C(a) : TRUE
            BY <2>2
        <3>2. u \in AccountTransform(gen) /\ u.obj = a
            BY <1>1, <3>1 DEF AccountTransform
        <3>3. QED
            BY <3>2
    <2>3. QED
        BY <2>1, <2>2
<1>6. QED
    BY <1>3, <1>4, <1>5

\* What Build stages on a live component whose referenced secrets are
\* usable: one vertex per object at most, each sent with DefFinalizer and
\* as the spec asks, and no vertex only for an object the cache shows as
\* the spec asks.
LEMMA ChainOK ==
    ASSUME BuildReady, ~compDeleting, NEW gen \in GeneratedPasswords
    PROVE  /\ \A v \in Chain(gen) : VertexOK(v) /\ StagedNow(v)
           /\ \A v, w \in Chain(gen) : v.obj = w.obj => v = w
           /\ \A o \in OBJ : (\E v \in Chain(gen) : v.obj = o) \/ Want(o, cache[o])
<1> DEFINE Pre == AccountTransform(gen) \cup PdbTransform
<1>1. Chain(gen) = {SetOwnership(u) : u \in Pre}
    BY DEF Chain, OwnershipTransform
<1>2. \A u \in Pre : PreOK(u)
    BY AccountTransformOK, PdbTransformOK
<1>3. \A u, u2 \in Pre : u.obj = u2.obj => u = u2
    <2>1. \A u \in AccountTransform(gen), u2 \in PdbTransform : u.obj # u2.obj
        BY AccountTransformOK, PdbTransformOK DEF OBJ
    <2>2. QED
        BY <2>1, AccountTransformOK, PdbTransformOK
<1>4. ASSUME NEW u \in Pre
      PROVE  LET w == SetOwnership(u)
             IN  /\ VertexOK(w) /\ StagedNow(w) /\ w.obj = u.obj
    <2> DEFINE w == SetOwnership(u)
    <2>1. PreOK(u)
        BY <1>2
    <2>2. /\ w \in Vertex
          /\ w.obj = u.obj /\ w.action = u.action
          /\ w.val.exists /\ w.val.data = u.val.data
          /\ DefFinalizer \in w.val.fins
          /\ ObjOK(w.obj, w.val)
        BY <2>1, OwnershipOK DEF PreOK
    <2>5. Want(u.obj, u.val) => Want(w.obj, w.val)
        BY <2>2 DEF Want, Good
    <2>6. VertexOK(w)
        BY <2>2 DEF VertexOK
    <2>7. StagedNow(w)
        BY <2>1, <2>2, <2>5 DEF PreOK, StagedNow, Staged, Want
    <2>8. QED
        BY <2>2, <2>6, <2>7
<1>5. QED
    <2>1. \A v \in Chain(gen) : VertexOK(v) /\ StagedNow(v)
        BY <1>1, <1>4
    <2>2. \A v, w \in Chain(gen) : v.obj = w.obj => v = w
        BY <1>1, <1>3, <1>4
    <2>3. ASSUME NEW o \in OBJ
          PROVE  (\E v \in Chain(gen) : v.obj = o) \/ Want(o, cache[o])
        <3>1. (\E u \in Pre : u.obj = o) \/ Want(o, cache[o])
            BY AccountTransformOK, PdbTransformOK DEF OBJ
        <3>2. QED
            BY <1>1, <1>4, <3>1
    <2>4. QED
        BY <2>1, <2>2, <2>3

-----------------------------------------------------------------------------
(* The inductive invariant, action by action.                              *)

\* Objects in shape give the store conjuncts of TypeOK.
LEMMA StoreTyped ==
    ASSUME NEW f \in [OBJ -> ObjState], \A o \in OBJ : ObjOK(o, f[o])
    PROVE  /\ \A o \in OBJ : ~f[o].exists => f[o] = Absent
           /\ \A a \in ACCOUNT :
                 f[a].exists => f[a].data \in PASSWORD \cup {EmptyPassword}
           /\ f[Pdb].exists => f[Pdb].data \in MINAVAIL
<1>1. \A a \in ACCOUNT : a # Pdb /\ a \in OBJ
    BY DEF OBJ
<1>2. Pdb \in OBJ
    BY DEF OBJ
<1>3. QED
    BY <1>1, <1>2 DEF ObjOK, DataOf

\* The conjuncts of TypeOK about the variables other than the store.
TypeRest ==
    /\ cache \in [OBJ -> ObjState]
    /\ minAvailable \in MINAVAIL \cup {NoMin}
    /\ refSecret \in [RefAccounts -> PASSWORD \cup {Missing, NoPassword}]
    /\ compDeleting \in BOOLEAN /\ pending \in BOOLEAN
    /\ plan \subseteq Vertex
    /\ lastPass \in {"dirty", "walking", "clean"}
    /\ envSteps \in 0..MaxEnvSteps /\ faults \in 0..MaxFaults

LEMMA InitIInv == Init => IInv
<1> SUFFICES ASSUME Init PROVE IInv
    OBVIOUS
<1>1. store \in [OBJ -> ObjState] /\ \A o \in OBJ : ObjOK(o, store[o])
    BY AbsentOK DEF Init, ObjOK, ObjState, Absent
<1>2. cache = store /\ plan = {} /\ pending
    BY DEF Init
<1>3. TypeRest
    <2>1. envSteps \in 0..MaxEnvSteps /\ faults \in 0..MaxFaults
        BY DEF Init
    <2>2. QED
        BY <1>1, <1>2, <2>1 DEF Init, TypeRest
<1>4. TypeOK
    BY <1>1, <1>3, StoreTyped DEF TypeRest, TypeOK
<1>5. ObjectsOK
    BY <1>1, <1>2 DEF ObjectsOK
<1>6. PlanOK /\ QuietOK
    BY <1>2 DEF PlanOK, QuietOK
<1>7. QED
    BY <1>4, <1>5, <1>6 DEF IInv

\* A step that leaves a pass queued, changes neither the store nor the
\* cache and only drops vertices keeps the invariant.
LEMMA QueuedIInv ==
    ASSUME IInv, pending' = TRUE, TypeRest',
           UNCHANGED <<store, cache>>, plan' \subseteq plan
    PROVE  IInv'
<1>1. ObjectsOK'
    BY DEF IInv, ObjectsOK
<1>2. TypeOK'
    BY <1>1, StoreTyped DEF TypeRest, IInv, TypeOK, ObjectsOK
<1>3. QED
    BY <1>1, <1>2 DEF IInv, PlanOK, QuietOK

LEMMA BuildErrorIInv == IInv /\ BuildError => IInv'
<1> SUFFICES ASSUME IInv, BuildError PROVE IInv'
    OBVIOUS
<1>1. faults' \in 0..MaxFaults
    BY DEF BuildError, IInv, TypeOK
<1>2. TypeRest'
    BY <1>1 DEF BuildError, IInv, TypeOK, TypeRest
<1>3. QED
    BY <1>2, QueuedIInv DEF BuildError

LEMMA CacheSyncIInv ==
    ASSUME NEW o \in OBJ, IInv, CacheSync(o) PROVE IInv'
<1>1. \A x \in OBJ : cache'[x] = IF x = o THEN store[o] ELSE cache[x]
    BY DEF CacheSync, IInv, TypeOK
<1>2. ObjectsOK'
    BY <1>1 DEF CacheSync, IInv, ObjectsOK
<1>3. TypeRest'
    BY <1>1 DEF CacheSync, IInv, TypeOK, TypeRest
<1>4. TypeOK'
    BY <1>2, <1>3, StoreTyped DEF TypeRest, CacheSync, IInv, TypeOK, ObjectsOK
<1>5. QED
    BY <1>2, <1>4 DEF CacheSync, IInv, PlanOK, QuietOK

LEMMA UserSetMinAvailableIInv ==
    ASSUME NEW m \in MINAVAIL \cup {NoMin}, IInv, UserSetMinAvailable(m)
    PROVE  IInv'
<1>1. TypeRest'
    BY DEF UserSetMinAvailable, EnvStep, IInv, TypeOK, TypeRest
<1>2. QED
    BY <1>1, QueuedIInv DEF UserSetMinAvailable

LEMMA UserDeleteCompIInv == IInv /\ UserDeleteComp => IInv'
<1> SUFFICES ASSUME IInv, UserDeleteComp PROVE IInv'
    OBVIOUS
<1>1. TypeRest'
    BY DEF UserDeleteComp, EnvStep, IInv, TypeOK, TypeRest
<1>2. QED
    BY <1>1, QueuedIInv DEF UserDeleteComp

\* What a staged vertex and the spec ask depend only on the cache and the
\* component's minAvailable, for given passwords.
LEMMA FrozenInputs ==
    ASSUME UNCHANGED <<cache, minAvailable>>
    PROVE  /\ \A o, x, sec : Good(o, x, sec)' = Good(o, x, sec)
           /\ \A v, sec : Staged(v, sec)' = Staged(v, sec)
BY DEF Good, Staged

\* Nothing the component watches changes with a referenced secret, so
\* nothing is queued; the passwords the last Build read keep the quiet
\* controller's obligations, which no longer claim the current ones.
LEMMA UserSetRefSecretIInv ==
    ASSUME NEW a \in RefAccounts, NEW p \in PASSWORD \cup {Missing, NoPassword},
           IInv, UserSetRefSecret(a, p)
    PROVE  IInv'
<1>1. refSecret' \in [RefAccounts -> PASSWORD \cup {Missing, NoPassword}]
    BY DEF UserSetRefSecret, IInv, TypeOK
<1>2. TypeRest'
    BY <1>1 DEF UserSetRefSecret, EnvStep, IInv, TypeOK, TypeRest
<1>3. ObjectsOK' /\ PlanOK'
    BY DEF UserSetRefSecret, IInv, ObjectsOK, PlanOK, VertexOK, ObjOK, DataOf
<1>4. TypeOK'
    BY <1>2, <1>3, StoreTyped DEF TypeRest, UserSetRefSecret, IInv, TypeOK, ObjectsOK
<1>5. ~Synced'
    BY DEF UserSetRefSecret, Synced
<1>6. ASSUME NEW sec, QuietFor(sec) PROVE QuietFor(sec)'
    <2>1. /\ \A o, x, s2 : Good(o, x, s2)' = Good(o, x, s2)
          /\ \A v, s2 : Staged(v, s2)' = Staged(v, s2)
        BY FrozenInputs DEF UserSetRefSecret
    <2>2. \A o \in OBJ : Covered(o, sec)'
        BY <1>6, <2>1 DEF QuietFor, Covered, UserSetRefSecret
    <2>3. \A v \in plan' : Staged(v, sec)'
        BY <1>6, <2>1 DEF QuietFor, UserSetRefSecret
    <2>4. QED
        BY <1>5, <2>2, <2>3 DEF QuietFor
<1>7. QuietOK'
    BY <1>6 DEF UserSetRefSecret, IInv, QuietOK
<1>8. QED
    BY <1>3, <1>4, <1>7 DEF IInv

LEMMA RestartIInv == IInv /\ Restart => IInv'
<1> SUFFICES ASSUME IInv, Restart PROVE IInv'
    OBVIOUS
<1>1. cache' = store /\ UNCHANGED store /\ plan' = {} /\ pending'
    BY DEF Restart
<1>2. ObjectsOK'
    BY <1>1 DEF IInv, ObjectsOK
<1>3. TypeRest'
    BY <1>1 DEF Restart, EnvStep, IInv, TypeOK, TypeRest
<1>4. TypeOK'
    BY <1>1, <1>2, <1>3, StoreTyped DEF TypeRest, IInv, TypeOK, ObjectsOK
<1>5. QED
    BY <1>1, <1>2, <1>4 DEF IInv, PlanOK, QuietOK

LEMMA BuildIInv == IInv /\ Build => IInv'
<1> SUFFICES ASSUME IInv, Build PROVE IInv'
    OBVIOUS
<1>1. PICK gen \in GeneratedPasswords : plan' = Chain(gen)
    BY DEF Build
<1>2. /\ UNCHANGED <<store, cache, minAvailable, refSecret, compDeleting>>
      /\ pending' = FALSE
    BY DEF Build
<1>3. ObjectsOK'
    BY <1>2 DEF IInv, ObjectsOK
<1>4. lastPass' \in {"dirty", "walking", "clean"}
    BY DEF Build
<1>5. CASE compDeleting
    <2>1. plan' = {}
        BY <1>1, <1>5 DEF Chain
    <2>2. TypeRest'
        BY <1>2, <1>4, <2>1 DEF Build, IInv, TypeOK, TypeRest
    <2>3. TypeOK'
        BY <1>2, <1>3, <2>2, StoreTyped DEF TypeRest, IInv, TypeOK, ObjectsOK
    <2>4. QED
        BY <1>2, <1>3, <1>5, <2>1, <2>3 DEF IInv, PlanOK, QuietOK
<1>6. CASE ~compDeleting
    <2>1. ~AccountError
        BY <1>6 DEF Build
    <2>2. BuildReady
        BY <2>1 DEF IInv, ObjectsOK, BuildReady
    <2>3. /\ \A v \in plan' : VertexOK(v) /\ StagedNow(v)
          /\ \A v, w \in plan' : v.obj = w.obj => v = w
          /\ \A o \in OBJ : (\E v \in plan' : v.obj = o) \/ Want(o, cache[o])
        BY <1>1, <1>6, <2>2, ChainOK
    <2>4. PlanOK'
        BY <2>3 DEF PlanOK
    <2>5. TypeRest'
        BY <1>2, <1>4, <2>3 DEF Build, IInv, TypeOK, TypeRest, VertexOK
    <2>6. TypeOK'
        BY <1>2, <1>3, <2>5, StoreTyped DEF TypeRest, IInv, TypeOK, ObjectsOK
    <2>7. /\ \A o, x, sec : Good(o, x, sec)' = Good(o, x, sec)
          /\ \A v, sec : Staged(v, sec)' = Staged(v, sec)
        BY <1>2, FrozenInputs
    <2>8. ASSUME NEW o \in OBJ PROVE Covered(o, refSecret)'
        <3>1. CASE \E v \in plan' : v.obj = o
            BY <3>1 DEF Covered
        <3>2. CASE Want(o, cache[o]) /\ store[o] = cache[o]
            BY <1>2, <2>7, <3>2 DEF Covered, Want
        <3>3. CASE store[o] # cache[o]
            BY <1>2, <3>3 DEF Covered
        <3>4. QED
            BY <2>3, <3>1, <3>2, <3>3
    <2>9. refSecret \in [RefAccounts -> PASSWORD]
        BY <2>1 DEF AccountError, GetPasswordFromSecret, IInv, TypeOK
    <2>10. QuietFor(refSecret)'
        <3>1. \A v \in plan' : Staged(v, refSecret)'
            BY <1>2, <2>3, <2>7 DEF StagedNow
        <3>2. QED
            BY <1>2, <2>8, <3>1 DEF QuietFor
    <2>11. QuietOK'
        BY <1>2, <2>9, <2>10 DEF QuietOK
    <2>12. QED
        BY <1>3, <2>4, <2>6, <2>11 DEF IInv
<1>7. QED
    BY <1>5, <1>6

LEMMA WalkVertexIInv == IInv /\ WalkVertex => IInv'
<1> SUFFICES ASSUME IInv, WalkVertex PROVE IInv'
    OBVIOUS
<1> DEFINE R(x) == WalkFunc(x, store[x.obj])
<1>1. PICK v \in plan :
        \/ /\ R(v).ok
           /\ store' = [store EXCEPT ![v.obj] = R(v).s]
           /\ plan' = plan \ {v}
           /\ lastPass' = IF plan' = {} /\ lastPass = "walking"
                           THEN "clean" ELSE lastPass
           /\ UNCHANGED <<pending, faults>>
        \/ /\ ~R(v).ok \/ faults < MaxFaults
           /\ faults' = IF R(v).ok THEN faults + 1 ELSE faults
           /\ plan' = {}
           /\ pending' = TRUE
           /\ lastPass' = "dirty"
           /\ UNCHANGED store
    BY DEF WalkVertex
<1>2. UNCHANGED <<cache, minAvailable, refSecret, compDeleting, envSteps>>
    BY DEF WalkVertex
<1>3. VertexOK(v) /\ v.obj \in OBJ /\ ObjOK(v.obj, store[v.obj])
    BY DEF IInv, PlanOK, ObjectsOK, VertexOK, Vertex
<1>4. ObjOK(v.obj, R(v).s) /\ R(v).ok \in BOOLEAN
    BY <1>3, WalkOK
<1>5. CASE /\ R(v).ok
           /\ store' = [store EXCEPT ![v.obj] = R(v).s]
           /\ plan' = plan \ {v}
           /\ lastPass' = IF plan' = {} /\ lastPass = "walking"
                           THEN "clean" ELSE lastPass
           /\ UNCHANGED <<pending, faults>>
    <2>1. \A x \in OBJ : store'[x] = IF x = v.obj THEN R(v).s ELSE store[x]
        BY <1>3, <1>5 DEF IInv, TypeOK
    <2>2. ObjectsOK'
        BY <1>2, <1>4, <2>1 DEF IInv, ObjectsOK
    <2>3. store' \in [OBJ -> ObjState]
        BY <1>3, <1>4, <1>5 DEF IInv, TypeOK, ObjOK
    <2>4. TypeRest'
        BY <1>2, <1>5 DEF IInv, TypeOK, TypeRest
    <2>5. TypeOK'
        BY <2>2, <2>3, <2>4, StoreTyped DEF TypeRest, TypeOK, ObjectsOK
    <2>6. PlanOK'
        BY <1>5 DEF IInv, PlanOK
    <2>7. QuietOK'
        <3> SUFFICES ASSUME ~pending', ~compDeleting'
                     PROVE  \E sec \in [RefAccounts -> PASSWORD] : QuietFor(sec)'
            BY DEF QuietOK
        <3>1. PICK sec \in [RefAccounts -> PASSWORD] : QuietFor(sec)
            BY <1>2, <1>5 DEF IInv, QuietOK
        <3>2. /\ \A o, x, s2 : Good(o, x, s2)' = Good(o, x, s2)
              /\ \A w, s2 : Staged(w, s2)' = Staged(w, s2)
            BY <1>2, FrozenInputs
        <3>3. Synced' => sec = refSecret'
            <4>1. Synced' = Synced
                BY <1>5 DEF Synced
            <4>2. QED
                BY <1>2, <3>1, <4>1 DEF QuietFor
        <3>4. \A w \in plan' : Staged(w, sec)'
            BY <1>5, <3>1, <3>2 DEF QuietFor
        <3>5. ASSUME NEW o \in OBJ PROVE Covered(o, sec)'
            <4>1. CASE o = v.obj
                <5>1. Staged(v, sec)
                    BY <3>1 DEF QuietFor
                <5>2. Good(o, R(v).s, sec) \/ R(v).s # cache[o]
                    BY <1>3, <1>5, <4>1, <5>1, WalkGood
                <5>3. store'[o] = R(v).s
                    BY <2>1, <4>1
                <5>4. QED
                    BY <1>2, <3>2, <5>2, <5>3 DEF Covered
            <4>2. CASE o # v.obj
                <5>1. store'[o] = store[o]
                    BY <2>1, <4>2
                <5>2. CASE \E w \in plan : w.obj = o
                    <6>1. PICK w \in plan : w.obj = o
                        BY <5>2
                    <6>2. w # v
                        BY <4>2, <6>1
                    <6>3. QED
                        BY <1>5, <6>1, <6>2 DEF Covered
                <5>3. CASE Good(o, store[o], sec) \/ store[o] # cache[o]
                    BY <1>2, <3>2, <5>1, <5>3 DEF Covered
                <5>4. QED
                    BY <3>1, <5>2, <5>3 DEF QuietFor, Covered
            <4>3. QED
                BY <4>1, <4>2
        <3>6. QuietFor(sec)'
            BY <3>3, <3>4, <3>5 DEF QuietFor
        <3>7. QED
            BY <3>1, <3>6
    <2>8. QED
        BY <2>2, <2>5, <2>6, <2>7 DEF IInv
<1>6. CASE /\ ~R(v).ok \/ faults < MaxFaults
           /\ faults' = IF R(v).ok THEN faults + 1 ELSE faults
           /\ plan' = {}
           /\ pending' = TRUE
           /\ lastPass' = "dirty"
           /\ UNCHANGED store
    <2>1. faults' \in 0..MaxFaults
        BY <1>4, <1>6 DEF IInv, TypeOK
    <2>2. TypeRest'
        BY <1>2, <1>6, <2>1 DEF IInv, TypeOK, TypeRest
    <2>3. QED
        BY <1>2, <1>6, <2>2, QueuedIInv
<1>7. QED
    BY <1>1, <1>5, <1>6

LEMMA NextIInv == IInv /\ [Next]_vars => IInv'
<1> SUFFICES ASSUME IInv, [Next]_vars PROVE IInv'
    OBVIOUS
<1>1. CASE BuildError
    BY <1>1, BuildErrorIInv
<1>2. CASE Build
    BY <1>2, BuildIInv
<1>3. CASE WalkVertex
    BY <1>3, WalkVertexIInv
<1>4. CASE \E o \in OBJ : CacheSync(o)
    BY <1>4, CacheSyncIInv
<1>5. CASE \E m \in MINAVAIL \cup {NoMin} : UserSetMinAvailable(m)
    BY <1>5, UserSetMinAvailableIInv
<1>6. CASE \E a \in RefAccounts, p \in PASSWORD \cup {Missing, NoPassword} :
               UserSetRefSecret(a, p)
    BY <1>6, UserSetRefSecretIInv
<1>7. CASE UserDeleteComp
    BY <1>7, UserDeleteCompIInv
<1>8. CASE Restart
    BY <1>8, RestartIInv
<1>9. CASE UNCHANGED vars
    BY <1>9 DEF vars, IInv, TypeOK, ObjectsOK, PlanOK, QuietOK, QuietFor,
                Synced, Covered, Staged, Good
<1>10. QED
    BY <1>1, <1>2, <1>3, <1>4, <1>5, <1>6, <1>7, <1>8, <1>9
    DEF Next, Environment

-----------------------------------------------------------------------------

\* Whatever walks fail, conflict or are cut by a restart, the owned objects
\* keep their shape: a removed object leaves nothing behind, a secret holds
\* a password and the PDB a minAvailable, and the plan holds only vertices.
THEOREM TypeCorrect == Spec => []TypeOK
<1>1. IInv => TypeOK
    BY DEF IInv
<1>2. QED
    BY <1>1, InitIInv, NextIInv, PTL DEF Spec

\* When the controller is idle on a live component (nothing queued, no walk
\* under way, the informer caught up), every account secret exists and the
\* PDB exists with the spec's minAvailable when one is set, and, unless a
\* referenced secret changed since the last Build (a change no watch
\* reports), a referenced account's secret carries the referenced password:
\* walks cut short by conflicts, errors and restarts, and Builds from a
\* stale cache whose CREATE meets AlreadyExists, are all repaired by later
\* passes.
THEOREM OwnedObjectsCorrect == Spec => []OwnedObjectsWhenIdle
<1>1. IInv => OwnedObjectsWhenIdle
    <2> SUFFICES ASSUME IInv, Idle, ~compDeleting
                 PROVE  /\ AccountsExist
                        /\ lastPass = "clean" => RefPasswordsSynced
                        /\ minAvailable # NoMin =>
                              store[Pdb].exists /\ store[Pdb].data = minAvailable
        BY DEF OwnedObjectsWhenIdle
    <2>1. ~pending /\ plan = {} /\ cache = store
        BY DEF Idle
    <2>2. PICK sec \in [RefAccounts -> PASSWORD] : QuietFor(sec)
        BY <2>1 DEF IInv, QuietOK
    <2>3. \A o \in OBJ : Good(o, store[o], sec)
        BY <2>1, <2>2 DEF QuietFor, Covered
    <2>4. \A a \in ACCOUNT : a \in OBJ /\ a # Pdb
        BY DEF OBJ
    <2>5. AccountsExist
        BY <2>3, <2>4 DEF AccountsExist, Good
    <2>6. ASSUME lastPass = "clean" PROVE RefPasswordsSynced
        <3>1. sec = refSecret
            BY <2>2, <2>6 DEF QuietFor, Synced
        <3>2. RefAccounts \subseteq ACCOUNT
            OBVIOUS
        <3>3. QED
            BY <2>3, <2>4, <3>1, <3>2 DEF RefPasswordsSynced, Good
    <2>7. QED
        BY <2>3, <2>5, <2>6 DEF Good, OBJ
<1>2. QED
    BY <1>1, InitIInv, NextIInv, PTL DEF Spec

=============================================================================
