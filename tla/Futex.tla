------------------------------- MODULE Futex --------------------------------
(***************************************************************************)
(* wl-helpers/src/sync.rs: Futex, the lock behind Mutex and RwLock.        *)
(*                                                                         *)
(* One 32-bit word: the number of shared holders, or the top bit ExclBit   *)
(* for an exclusive one.  ExclBit (0x80000000) and SpinLimit (256) are     *)
(* parameters.  Every atomic access is a step; compare_exchange_weak may   *)
(* fail for no reason.  A futex wait ends when the kernel finds the word   *)
(* changed, or by a signal: the code never wakes a waiter.                 *)
(***************************************************************************)
EXTENDS Naturals, FiniteSets

CONSTANTS Threads,
          ExclBit,     \* 0x80000000
          SpinLimit,   \* rounds of the wait loop that do not sleep: 256
          Modes        \* how the threads lock: subset of LockModes

LockModes == {"exclusive", "shared", "try_exclusive", "try_shared"}

ASSUME FutexAssumption == /\ IsFiniteSet(Threads)
                          /\ ExclBit \in Nat \ {0}
                          /\ SpinLimit \in Nat
                          /\ Modes \subseteq LockModes

VARIABLES word,   \* the AtomicU32
          pc,     \* per thread, where it is
          load,   \* per thread, the word it last saw (e, load)
          step    \* per thread, rounds of the wait loop so far

vars == <<word, pc, load, step>>

Word == 0 .. (2 * ExclBit - 1)
Places == {"idle", "lock_exclusive", "lock_shared", "try_shared",
           "wait_exclusive", "wait_shared", "asleep_exclusive", "asleep_shared",
           "exclusive", "shared"}

Init == /\ word = 0
        /\ pc = [t \in Threads |-> "idle"]
        /\ load = [t \in Threads |-> 0]
        /\ step = [t \in Threads |-> 0]

Goto(t, place) == pc' = [pc EXCEPT ![t] = place]
Saw(t, w) == load' = [load EXCEPT ![t] = w]

\* Faulty: the test lets the exclusive bit alone pass.
TopBitClearOrAlone(w) == w <= ExclBit

\* word & 0x80000000 == 0
TopBitClear(w) == w < ExclBit

Dec(w) == IF w = 0 THEN 2 * ExclBit - 1 ELSE w - 1
-----------------------------------------------------------------------------
\* lock_exclusive and lock_shared start with a fresh step (and load = 0).
Enter(t, mode) == /\ pc[t] = "idle"
                  /\ mode \in Modes \cap {"exclusive", "shared"}
                  /\ Goto(t, IF mode = "exclusive" THEN "lock_exclusive"
                                                   ELSE "lock_shared")
                  /\ Saw(t, 0)
                  /\ step' = [step EXCEPT ![t] = 0]
                  /\ UNCHANGED word

\* One round of `match step`: spin or yield, or go to the kernel to wait.
Backoff(t, spin, wait) ==
    /\ Goto(t, IF step[t] < SpinLimit THEN spin ELSE wait)
    /\ step' = [step EXCEPT ![t] = IF @ < SpinLimit THEN @ + 1 ELSE @]

LockExclusive(t) ==
    /\ pc[t] = "lock_exclusive"
    /\ \/ /\ word = 0
          /\ word' = ExclBit
          /\ Goto(t, "exclusive")
          /\ UNCHANGED <<load, step>>
       \/ /\ Saw(t, word)
          /\ IF word = 0 THEN UNCHANGED <<pc, step>>    \* failed for no reason
                         ELSE Backoff(t, "lock_exclusive", "wait_exclusive")
          /\ UNCHANGED word

\* The loop of lock_shared.  `load` is refreshed by a failed exchange only.
LockShared(t) ==
    /\ pc[t] = "lock_shared"
    /\ \/ /\ TopBitClear(load[t]) /\ word = load[t]
          /\ word' = load[t] + 1
          /\ Goto(t, "shared")
          /\ UNCHANGED <<load, step>>
       \/ /\ TopBitClear(load[t])
          /\ Saw(t, word)
          /\ UNCHANGED <<word, pc, step>>
       \/ /\ ~TopBitClear(load[t])
          /\ Backoff(t, "lock_shared", "wait_shared")
          /\ UNCHANGED <<word, load>>

TryLockExclusive(t) == /\ pc[t] = "idle"
                       /\ "try_exclusive" \in Modes
                       /\ word = 0
                       /\ word' = ExclBit
                       /\ Goto(t, "exclusive")
                       /\ UNCHANGED <<load, step>>

TryLockShared(t) ==
    \/ /\ pc[t] = "idle"
       /\ "try_shared" \in Modes
       /\ Saw(t, word)
       /\ Goto(t, "try_shared")
       /\ UNCHANGED <<word, step>>
    \/ /\ pc[t] = "try_shared"
       /\ UNCHANGED step
       /\ \/ /\ TopBitClear(load[t]) /\ word = load[t]
             /\ word' = load[t] + 1
             /\ Goto(t, "shared")
             /\ UNCHANGED load
          \/ /\ TopBitClear(load[t])
             /\ Saw(t, word)
             /\ UNCHANGED <<word, pc>>
          \/ /\ ~TopBitClear(load[t])
             /\ Goto(t, "idle")
             /\ UNCHANGED <<word, load>>

\* futex(FUTEX_WAIT): the kernel compares the word with the value passed.
FutexWait(t) ==
    /\ \/ /\ pc[t] = "wait_exclusive"
          /\ Goto(t, IF word = load[t] THEN "asleep_exclusive" ELSE "lock_exclusive")
       \/ /\ pc[t] = "wait_shared"
          /\ Goto(t, IF word = load[t] THEN "asleep_shared" ELSE "lock_shared")
    /\ UNCHANGED <<word, load, step>>

\* A signal interrupts the wait; its result is ignored.
Interrupt(t) ==
    /\ \/ pc[t] = "asleep_exclusive" /\ Goto(t, "lock_exclusive")
       \/ pc[t] = "asleep_shared" /\ Goto(t, "lock_shared")
    /\ UNCHANGED <<word, load, step>>

UnlockExclusive(t) == /\ pc[t] = "exclusive"
                      /\ word' = 0
                      /\ Goto(t, "idle")
                      /\ UNCHANGED <<load, step>>

\* Faulty: a store of 0, as in unlock_exclusive.
UnlockSharedStores(t) == /\ pc[t] = "shared"
                         /\ word' = 0
                         /\ Goto(t, "idle")
                         /\ UNCHANGED <<load, step>>

UnlockShared(t) == /\ pc[t] = "shared"
                   /\ word' = Dec(word)
                   /\ Goto(t, "idle")
                   /\ UNCHANGED <<load, step>>

\* Faulty: the word is released, not handed to the reader.
DowngradeReleases(t) == /\ pc[t] = "exclusive"
                        /\ word' = 0
                        /\ Goto(t, "shared")
                        /\ UNCHANGED <<load, step>>

Downgrade(t) == /\ pc[t] = "exclusive"
                /\ word' = 1
                /\ Goto(t, "shared")
                /\ UNCHANGED <<load, step>>
-----------------------------------------------------------------------------
Acquire(t) == LockExclusive(t) \/ LockShared(t) \/ TryLockShared(t) \/ FutexWait(t)
Unlock(t) == UnlockExclusive(t) \/ UnlockShared(t)

Next == \/ \E t \in Threads, mode \in Modes : Enter(t, mode)
        \/ \E t \in Threads : \/ Acquire(t) \/ TryLockExclusive(t) \/ Interrupt(t)
                              \/ Unlock(t) \/ Downgrade(t)

Spec == Init /\ [][Next]_vars

\* On x86-64 the weak exchange fails only on a changed word, so a thread that
\* keeps running makes the exchange succeed when the word is what it expects.
Exchange(t) == Acquire(t) /\ (word # load[t] \/ word' # word \/ pc' # pc)

\* Threads that are not asleep keep running and holders let go.
FairSpec == Spec /\ \A t \in Threads : WF_vars(Exchange(t)) /\ WF_vars(Unlock(t))
-----------------------------------------------------------------------------
TypeOK == /\ word \in Word
          /\ pc \in [Threads -> Places]
          /\ load \in [Threads -> Word]
          /\ step \in [Threads -> 0 .. SpinLimit]

Readers == {t \in Threads : pc[t] = "shared"}
Writers == {t \in Threads : pc[t] = "exclusive"}

\* The word says who holds the lock: the exclusive bit alone for a writer,
\* the number of holders otherwise, up to and including ExclBit readers
\* (sync.rs:87: is_locked_exclusive cannot tell those two apart).
WordCountsHolders == /\ TypeOK
                     /\ \A t \in Writers : Writers = {t} /\ Readers = {}
                     /\ Writers # {} => word = ExclBit
                     /\ Writers = {} => word = Cardinality(Readers)

\* A writer excludes every other holder (GuardSend, unlock_exclusive's plain
\* store of 0 would otherwise drop somebody else's lock).
MutualExclusion == \A t, u \in Threads :
    pc[t] = "exclusive" /\ pc[u] \in {"exclusive", "shared"} => t = u

\* Readers that were turned away because the count had reached the exclusive
\* bit get in once the count has dropped, here all the way to zero and for
\* good, as the comment in lock_shared says (sync.rs:51).
BlockedOnlyWhileSaturated ==
    <>[](word = 0) =>
        \A t \in Threads : pc[t] = "lock_shared" ~> pc[t] = "shared"

\* The futex word implements the reader-writer lock.
Lock == INSTANCE RWLock WITH readers <- Readers, writers <- Writers
ImplementsRWLock == Lock!Spec
=============================================================================
