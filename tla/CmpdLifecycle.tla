--------------------------- MODULE CmpdLifecycle ---------------------------
(***************************************************************************)
(* What the ComponentDefinition controller promises about one definition, *)
(* whatever the interleaving of its reconciles with user edits: the        *)
(* definition is live, then deleting, then gone, and never comes back; its *)
(* observedGeneration only moves forward and never passes its generation;  *)
(* once the controller has protected it with its finalizer, deleting it    *)
(* goes through the deleting state; and a deleting definition is           *)
(* eventually released.                                                    *)
(***************************************************************************)
EXTENDS Naturals

CONSTANT MaxGen

VARIABLES
    life,       \* "live", "deleting" or "gone"
    gen,        \* metadata.generation (0 once gone)
    obsGen,     \* status.observedGeneration (0 once gone)
    protected   \* the definition carries the controller's finalizer

avars == <<life, gen, obsGen, protected>>

Init == life = "live" /\ gen = 1 /\ obsGen = 0 /\ protected = FALSE

Vanish == life' = "gone" /\ gen' = 0 /\ obsGen' = 0 /\ protected' = FALSE

\* a spec edit of a live definition
Edit ==
    /\ life = "live" /\ gen < MaxGen /\ gen' = gen + 1
    /\ UNCHANGED <<life, obsGen, protected>>

\* the controller records a generation it has seen, and may protect it
Record ==
    /\ life # "gone"
    /\ obsGen' \in obsGen..gen
    /\ protected' \in {protected, TRUE}
    /\ UNCHANGED <<life, gen>>

\* a user deletes the definition: an unprotected one is gone at once
Delete ==
    /\ life = "live"
    /\ IF protected THEN life' = "deleting" /\ UNCHANGED <<gen, obsGen, protected>>
       ELSE Vanish

\* the controller lets a deleting definition go
Release == life = "deleting" /\ Vanish

Next == Edit \/ Record \/ Delete \/ Release

SafetySpec == Init /\ [][Next]_avars

Spec == SafetySpec /\ WF_avars(Release)

============================================================================
