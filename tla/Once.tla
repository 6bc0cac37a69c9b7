-------------------------------- MODULE Once --------------------------------
(***************************************************************************)
(* What a write-once cell promises: the cell takes one value, and every    *)
(* caller that is handed a reference sees exactly that value for as long   *)
(* as it keeps the reference.  The owner may empty the cell again, but     *)
(* only while nobody holds a reference.                                    *)
(***************************************************************************)
CONSTANTS Threads,   \* the callers, and the values: a caller stores its own
          Uninit     \* the content of an empty cell

VARIABLES cell,      \* the value, or Uninit
          view       \* per caller, the value behind the reference it holds

vars == <<cell, view>>

Init == /\ cell = Uninit
        /\ view = [t \in Threads |-> Uninit]

\* The cell is decided, once.
Decide == /\ cell = Uninit
          /\ cell' \in Threads
          /\ UNCHANGED view

\* A caller is given a reference to the decided value.
Observe(t) == /\ cell # Uninit
              /\ view' = [view EXCEPT ![t] = cell]
              /\ UNCHANGED cell

\* The caller that decides the cell is given its reference in the same step.
DecideAndObserve(t) == /\ cell = Uninit
                       /\ cell' = t
                       /\ view' = [view EXCEPT ![t] = t]

Release(t) == /\ view' = [view EXCEPT ![t] = Uninit]
              /\ UNCHANGED cell

Empty == /\ \A t \in Threads : view[t] = Uninit
         /\ cell' = Uninit
         /\ UNCHANGED view

Next == \/ Decide
        \/ Empty
        \/ \E t \in Threads : Observe(t) \/ DecideAndObserve(t) \/ Release(t)

Spec == Init /\ [][Next]_vars
=============================================================================
