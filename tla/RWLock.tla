------------------------------- MODULE RWLock -------------------------------
(***************************************************************************)
(* What a reader-writer lock promises: a writer excludes everyone else.    *)
(***************************************************************************)
CONSTANT Threads
VARIABLES readers, writers   \* the threads that hold the lock, by mode

vars == <<readers, writers>>

Init == readers = {} /\ writers = {}

Read(t) == /\ writers = {}
           /\ readers' = readers \cup {t}
           /\ UNCHANGED writers

Write(t) == /\ readers = {} /\ writers = {}
            /\ writers' = {t}
            /\ UNCHANGED readers

Unread(t) == /\ t \in readers
             /\ readers' = readers \ {t}
             /\ UNCHANGED writers

Unwrite(t) == /\ writers = {t}
              /\ writers' = {}
              /\ UNCHANGED readers

\* A writer becomes a reader and lets no other writer in between.
Downgrade(t) == /\ writers = {t}
                /\ writers' = {}
                /\ readers' = {t}

Next == \E t \in Threads :
           Read(t) \/ Write(t) \/ Unread(t) \/ Unwrite(t) \/ Downgrade(t)

Spec == Init /\ [][Next]_vars
=============================================================================
