----------------------------- MODULE LayoutStore ----------------------------
(***************************************************************************)
(* What the layout backups promise: numbered copies of the layout in       *)
(* force, each as large as its difference from the factory layout, that    *)
(* share a fixed space.                                                    *)
(***************************************************************************)
EXTENDS Naturals, FiniteSets

CONSTANTS
    Numbers,   \* backup slots
    Capacity,  \* remapped keys that all backups together may hold
    Factory,   \* the factory layout
    HidValues  \* what keys are remapped to

VARIABLES
    layout,    \* the layout in force
    backups    \* backup slot -> layout; the factory layout when there is none

storeVars == <<layout, backups>>

\* The space a layout needs.
Size(l) == Cardinality({k \in DOMAIN Factory : l[k] # Factory[k]})

\* The space the backups in the other slots take.
SpaceOfOthers(n) ==
    Cardinality({mk \in (Numbers \ {n}) \X DOMAIN Factory :
                    backups[mk[1]][mk[2]] # Factory[mk[2]]})

Remap(k, h) == layout' = [layout EXCEPT ![k] = h] /\ UNCHANGED backups

ResetLayout == layout' = Factory /\ UNCHANGED backups

ResetAll == layout' = Factory /\ backups' = [n \in Numbers |-> Factory]

\* A layout that does not fit is not saved, and the old backup is gone.
Save(n) ==
    /\ backups' = [backups EXCEPT ![n] =
                      IF SpaceOfOthers(n) + Size(layout) <= Capacity
                      THEN layout ELSE Factory]
    /\ UNCHANGED layout

Delete(n) == backups' = [backups EXCEPT ![n] = Factory] /\ UNCHANGED layout

Load(n) ==
    /\ backups[n] # Factory
    /\ layout' = backups[n]
    /\ UNCHANGED backups

StoreNext ==
    \/ \E k \in DOMAIN Factory, h \in HidValues : Remap(k, h)
    \/ ResetLayout \/ ResetAll
    \/ \E n \in Numbers : Save(n) \/ Delete(n) \/ Load(n)

StoreSpec ==
    /\ layout = Factory /\ backups = [n \in Numbers |-> Factory]
    /\ [][StoreNext]_storeVars
=============================================================================
