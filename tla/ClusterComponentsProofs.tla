---------------------- MODULE ClusterComponentsProofs ----------------------
(***************************************************************************)
(* Proofs about the legacy ComponentTransformer (ClusterComponents).       *)
(***************************************************************************)
EXTENDS ClusterComponents, TLAPS

USE ConstantsAssumption

LEMMA InitTypeOK == Init => TypeOK
BY DEF Init, TypeOK

LEMMA NextTypeOK == TypeOK /\ [Next]_vars => TypeOK'
<1> SUFFICES ASSUME TypeOK, [Next]_vars PROVE TypeOK'
    OBVIOUS
<1>1. CASE SpecPass
    <2>1. CompProto \subseteq COMP
        BY DEF TypeOK, CompProto
    <2>2. QED
        BY <1>1, <2>1 DEF SpecPass, TypeOK, IsStatusUpdating
<1>2. CASE StatusPass
    <2>1. SpecSet \subseteq COMP
        BY DEF TypeOK, SpecSet
    <2>2. QED
        BY <1>2, <2>1 DEF StatusPass, TypeOK
<1>3. CASE PassError
    BY <1>3 DEF PassError, TypeOK
<1>4. CASE UserEditSpec
    <2>1. PICK n \in BOOLEAN, s \in SUBSET COMP : specNil' = n /\ spec' = s
        BY <1>4 DEF UserEditSpec
    <2>2. gen' \in 1..MaxGen
        BY <1>4 DEF UserEditSpec, TypeOK
    <2>3. QED
        BY <1>4, <2>1, <2>2 DEF UserEditSpec, TypeOK
<1>5. ASSUME NEW c \in COMP, ComponentStatusWrite(c) \/ DelayChange(c)
      PROVE TypeOK'
    <2>1. envSteps' \in 0..MaxEnvSteps
        BY <1>5 DEF ComponentStatusWrite, DelayChange, EnvStep, TypeOK
    <2>2. CASE ComponentStatusWrite(c)
        BY <2>1, <2>2 DEF ComponentStatusWrite, TypeOK
    <2>3. CASE DelayChange(c)
        BY <2>1, <2>3 DEF DelayChange, TypeOK
    <2>4. QED
        BY <1>5, <2>2, <2>3
<1>6. CASE UNCHANGED vars
    BY <1>6 DEF vars, TypeOK
<1>7. QED
    BY <1>1, <1>2, <1>3, <1>4, <1>5, <1>6 DEF Next

\* Whichever passes fail, whatever the user writes into spec.componentSpecs
\* and whatever the component controller records, the Cluster's generation
\* and observedGeneration stay within the bound and every component set
\* (objects, status keys, delayed) stays among the spec's names.
THEOREM TypeCorrect == Spec => []TypeOK
BY InitTypeOK, NextTypeOK, PTL DEF Spec

=============================================================================
