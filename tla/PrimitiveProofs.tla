-------------------------- MODULE PrimitiveProofs ---------------------------
(***************************************************************************)
(* The two primitives of wl-impl that everything else is built on.         *)
(*                                                                         *)
(* The futex lock (module Futex): mutual exclusion for every finite set of *)
(* threads, every position of the exclusive bit and every spin limit.      *)
(*                                                                         *)
(* The checked copy (module CheckedAccess, as Access): what it leaves      *)
(* behind, for every length.  The moves of __memcpy_explicit add up to     *)
(* Copied(n), which is all n bytes except for the lengths that Shortfall   *)
(* names.                                                                  *)
(***************************************************************************)
EXTENDS Futex, Memcpy, FiniteSetTheorems, TLAPS

CONSTANTS Addrs, Mapped, Lens, Signals
VARIABLES place, back, sig, call, done, at, RETBUF, result, fate

Access == INSTANCE CheckedAccess WITH pc <- place
-----------------------------------------------------------------------------
(* The futex lock *)

LEMMA TypeStep == TypeOK /\ [Next]_vars => TypeOK'
<1> SUFFICES ASSUME TypeOK, [Next]_vars PROVE TypeOK'
  OBVIOUS
<1> USE FutexAssumption DEF TypeOK, Word, Places, Goto, Saw, TopBitClear
<1>1. ASSUME NEW t \in Threads, NEW mode \in Modes, Enter(t, mode) PROVE TypeOK'
  BY <1>1 DEF Enter
<1>2. ASSUME NEW t \in Threads, Acquire(t) PROVE TypeOK'
  <2>1. CASE LockExclusive(t) BY <2>1 DEF LockExclusive, Backoff
  <2>2. CASE LockShared(t)    BY <2>2 DEF LockShared, Backoff
  <2>3. CASE TryLockShared(t) BY <2>3 DEF TryLockShared
  <2>4. CASE FutexWait(t)     BY <2>4 DEF FutexWait
  <2>5. QED BY <1>2, <2>1, <2>2, <2>3, <2>4 DEF Acquire
<1>3. ASSUME NEW t \in Threads, TryLockExclusive(t) PROVE TypeOK'
  BY <1>3 DEF TryLockExclusive
<1>4. ASSUME NEW t \in Threads, Interrupt(t) PROVE TypeOK'
  BY <1>4 DEF Interrupt
<1>5. ASSUME NEW t \in Threads, Unlock(t) PROVE TypeOK'
  BY <1>5 DEF Unlock, UnlockExclusive, UnlockShared, Dec
<1>6. ASSUME NEW t \in Threads, Downgrade(t) PROVE TypeOK'
  BY <1>6 DEF Downgrade
<1>7. CASE UNCHANGED vars BY <1>7 DEF vars
<1>8. QED BY <1>1, <1>2, <1>3, <1>4, <1>5, <1>6, <1>7 DEF Next

\* How the number of readers changes when one thread joins or leaves.
LEMMA ReadersCount ==
  /\ Cardinality(Readers) \in Nat
  /\ Readers = {} <=> Cardinality(Readers) = 0
  /\ \A t \in Threads \ Readers :
        Cardinality(Readers \cup {t}) = Cardinality(Readers) + 1
  /\ \A t \in Readers : Cardinality(Readers \ {t}) = Cardinality(Readers) - 1
<1>1. IsFiniteSet(Readers)
  BY FutexAssumption, FS_Subset DEF Readers
<1>2. Cardinality(Readers) \in Nat
  BY <1>1, FS_CardinalityType
<1>3. QED BY <1>1, <1>2, FS_AddElement, FS_RemoveElement, FS_EmptySet

\* The five ways a step can change who holds the lock, and the word with it.
Admit(t) == /\ word = 0 /\ word' = ExclBit
            /\ Readers' = Readers /\ Writers' = Writers \cup {t}
Join(t) == /\ word < ExclBit /\ word' = word + 1
           /\ t \notin Readers
           /\ Readers' = Readers \cup {t} /\ Writers' = Writers
Leave(t) == /\ t \in Readers /\ word' = Dec(word)
            /\ Readers' = Readers \ {t} /\ Writers' = Writers
Resign(t) == /\ t \in Writers /\ word' = 0
             /\ Readers' = Readers /\ Writers' = Writers \ {t}
Demote(t) == /\ t \in Writers /\ word' = 1
             /\ Readers' = Readers \cup {t} /\ Writers' = Writers \ {t}
Same == word' = word /\ Readers' = Readers /\ Writers' = Writers

\* Every step of the lock is one of them.
LEMMA StepEffect ==
  ASSUME TypeOK, [Next]_vars
  PROVE  \/ Same
         \/ \E t \in Threads : Admit(t) \/ Join(t) \/ Leave(t) \/ Resign(t) \/ Demote(t)
<1> USE DEF TypeOK, Readers, Writers, Goto, Saw, TopBitClear
<1>1. ASSUME NEW t \in Threads, NEW mode \in Modes, Enter(t, mode) PROVE Same
  BY <1>1 DEF Enter, Same
<1>2. ASSUME NEW t \in Threads, LockExclusive(t) PROVE Same \/ Admit(t)
  BY <1>2 DEF LockExclusive, Backoff, Same, Admit
<1>3. ASSUME NEW t \in Threads, LockShared(t) PROVE Same \/ Join(t)
  BY <1>3 DEF LockShared, Backoff, Same, Join
<1>4. ASSUME NEW t \in Threads, TryLockShared(t) PROVE Same \/ Join(t)
  BY <1>4 DEF TryLockShared, Same, Join
<1>5. ASSUME NEW t \in Threads, TryLockExclusive(t) PROVE Admit(t)
  BY <1>5 DEF TryLockExclusive, Admit
<1>6. ASSUME NEW t \in Threads, FutexWait(t) \/ Interrupt(t) PROVE Same
  BY <1>6 DEF FutexWait, Interrupt, Same
<1>7. ASSUME NEW t \in Threads, UnlockExclusive(t) PROVE Resign(t)
  BY <1>7 DEF UnlockExclusive, Resign
<1>8. ASSUME NEW t \in Threads, UnlockShared(t) PROVE Leave(t)
  BY <1>8 DEF UnlockShared, Leave
<1>9. ASSUME NEW t \in Threads, Downgrade(t) PROVE Demote(t)
  BY <1>9 DEF Downgrade, Demote
<1>10. CASE UNCHANGED vars BY <1>10 DEF vars, Same
<1>11. QED BY <1>1, <1>2, <1>3, <1>4, <1>5, <1>6, <1>7, <1>8, <1>9, <1>10
           DEF Next, Acquire, Unlock

LEMMA NextCounts == WordCountsHolders /\ [Next]_vars => WordCountsHolders'
<1> SUFFICES ASSUME WordCountsHolders, [Next]_vars PROVE WordCountsHolders'
  OBVIOUS
<1>1. TypeOK'
  BY TypeStep DEF WordCountsHolders
<1> USE FutexAssumption, ReadersCount DEF WordCountsHolders
<1>2. CASE Same
  BY <1>1, <1>2 DEF Same
<1>3. ASSUME NEW t \in Threads, Admit(t) PROVE WordCountsHolders'
  BY <1>1, <1>3 DEF Admit
<1>4. ASSUME NEW t \in Threads, Join(t) PROVE WordCountsHolders'
  <2>1. Writers = {}
    BY <1>4 DEF Join
  <2>2. QED BY <1>1, <1>4, <2>1 DEF Join
<1>5. ASSUME NEW t \in Threads, Leave(t) PROVE WordCountsHolders'
  <2>1. Writers = {} /\ word # 0
    BY <1>5 DEF Leave
  <2>2. QED BY <1>1, <1>5, <2>1 DEF Leave, Dec
<1>6. ASSUME NEW t \in Threads, Resign(t) PROVE WordCountsHolders'
  BY <1>1, <1>6 DEF Resign
<1>7. ASSUME NEW t \in Threads, Demote(t) PROVE WordCountsHolders'
  <2>1. Readers = {} /\ Writers' = {}
    BY <1>7 DEF Demote
  <2>2. Cardinality(Readers') = 1
    <3>1. t \in Threads \ Readers
      BY <2>1
    <3>2. QED BY <1>7, <2>1, <3>1 DEF Demote
  <2>3. QED BY <1>1, <1>7, <2>1, <2>2 DEF Demote
<1>8. QED BY <1>2, <1>3, <1>4, <1>5, <1>6, <1>7, StepEffect

\* In every reachable state the word says exactly who holds the lock.
THEOREM WordInvariant == Spec => []WordCountsHolders
<1>1. Init => WordCountsHolders
  <2> SUFFICES ASSUME Init PROVE WordCountsHolders
    OBVIOUS
  <2>1. TypeOK
    BY FutexAssumption DEF Init, TypeOK, Word, Places
  <2>2. Readers = {} /\ Writers = {}
    BY DEF Init, Readers, Writers
  <2>3. QED BY <2>1, <2>2, ReadersCount DEF Init, WordCountsHolders
<1>2. QED BY <1>1, NextCounts, PTL DEF Spec

\* A writer is alone: whatever unlock_exclusive stores drops no other lock.
THEOREM Exclusion == Spec => []MutualExclusion
<1>1. WordCountsHolders => MutualExclusion
  BY DEF WordCountsHolders, MutualExclusion, Readers, Writers
<1>2. QED BY <1>1, WordInvariant, PTL

\* The futex word implements the reader-writer lock of module RWLock.
THEOREM Refinement == Spec => ImplementsRWLock
<1>1. Init => Lock!Init
  BY DEF Init, Lock!Init, Readers, Writers
<1>2. WordCountsHolders /\ [Next]_vars => [Lock!Next]_(Lock!vars)
  <2> SUFFICES ASSUME WordCountsHolders, [Next]_vars
               PROVE  Lock!Next \/ UNCHANGED Lock!vars
    OBVIOUS
  <2> USE FutexAssumption, ReadersCount DEF WordCountsHolders
  <2>1. ASSUME NEW t \in Threads, Admit(t) PROVE Lock!Write(t)
    BY <2>1 DEF Admit, Lock!Write
  <2>2. ASSUME NEW t \in Threads, Join(t) PROVE Lock!Read(t)
    BY <2>2 DEF Join, Lock!Read
  <2>3. ASSUME NEW t \in Threads, Leave(t) PROVE Lock!Unread(t)
    BY <2>3 DEF Leave, Lock!Unread
  <2>4. ASSUME NEW t \in Threads, Resign(t) PROVE Lock!Unwrite(t)
    BY <2>4 DEF Resign, Lock!Unwrite
  <2>5. ASSUME NEW t \in Threads, Demote(t) PROVE Lock!Downgrade(t)
    BY <2>5 DEF Demote, Lock!Downgrade
  <2>6. Same => UNCHANGED Lock!vars
    BY DEF Same, Lock!vars
  <2>7. QED BY <2>1, <2>2, <2>3, <2>4, <2>5, <2>6, StepEffect DEF Lock!Next
<1>3. QED BY <1>1, <1>2, WordInvariant, PTL DEF Spec, ImplementsRWLock, Lock!Spec
-----------------------------------------------------------------------------
(* The checked copy *)

\* What is left to move when the copy reaches a comparison.  A shortfall shows
\* from the 8 byte move on as a rest that the remaining moves cannot cover.
RestAt(l, n, d) ==
    CASE l = "first" -> d = 0
      [] l = "16" -> d % 16 = 0 /\ n > 16
      [] l = "8" -> d % 16 = 0 /\ (IF n = 16 THEN d = 0 ELSE n - d < 16)
      [] l = "4" -> IF Shortfall(n) = 1 THEN n - d = 8 ELSE n - d < 8
      [] l = "2" -> IF Shortfall(n) = 1 THEN n - d = 4 ELSE n - d < 4
      [] l = "1" -> IF Shortfall(n) = 1 THEN n - d = 2 ELSE n - d < 2
      [] l = "ret" -> d = Copied(n)

\* The inductive invariant: the rest fits the place the copy has reached, and a
\* result of Ok is there only once it has reached its end.
CopyInv == /\ call.n \in Nat /\ done \in Nat /\ done <= call.n
           /\ at \in Access!Labels
           /\ RestAt(at, call.n, done)
           /\ result = "Ok" => at = "ret"

\* A move that is not jumped over fits into the rest, and leaves a rest that fits
\* the comparison behind it.
LEMMA MoveRest ==
    ASSUME NEW l \in Access!Labels \ {"ret"}, call.n \in Nat, done \in Nat, done <= call.n,
           RestAt(l, call.n, done), Access!Moves(l)
    PROVE  /\ done + Access!Width(l) \in Nat
           /\ done + Access!Width(l) <= call.n
           /\ RestAt(Access!After(l), call.n, done + Access!Width(l))
<1>0. CASE l = "first"
  <2>1. Access!Width(l) = 16 /\ Access!After(l) = "16"
    BY <1>0 DEF Access!Width, Access!After
  <2>2. done = 0 /\ call.n > 16
    BY <1>0, <2>1 DEF RestAt, Access!Moves, Access!rdx
  <2> QED BY <2>1, <2>2 DEF RestAt
<1>1. CASE l = "16"
  <2>1. Access!Width(l) = 16 /\ Access!After(l) = "16"
    BY <1>1 DEF Access!Width, Access!After
  <2>2. done % 16 = 0 /\ call.n > 16 /\ call.n - done >= 16
    BY <1>1, <2>1 DEF RestAt, Access!Moves, Access!rdx
  <2> QED BY <2>1, <2>2 DEF RestAt
<1>2. CASE l = "8"
  BY <1>2 DEF RestAt, Access!Moves, Access!Width, Access!After, Access!rdx, Shortfall, Copied
<1>3. CASE l = "4"
  BY <1>3 DEF RestAt, Access!Moves, Access!Width, Access!After, Access!rdx, Shortfall, Copied
<1>4. CASE l = "2"
  BY <1>4 DEF RestAt, Access!Moves, Access!Width, Access!After, Access!rdx, Shortfall, Copied
<1>5. CASE l = "1"
  BY <1>5 DEF RestAt, Access!Moves, Access!Width, Access!After, Access!rdx, Shortfall, Copied
<1> QED BY <1>0, <1>1, <1>2, <1>3, <1>4, <1>5 DEF Access!Labels

\* A move that is jumped over leaves a rest that fits the comparison behind it.
LEMMA JumpRest ==
    ASSUME NEW l \in Access!Labels \ {"ret"}, call.n \in Nat, done \in Nat, done <= call.n,
           RestAt(l, call.n, done), ~Access!Moves(l)
    PROVE  RestAt(Access!After(l), call.n, done)
<1>0. CASE l = "first"
  <2>1. Access!Width(l) = 16 /\ Access!After(l) = "8"
    BY <1>0 DEF Access!Width, Access!After
  <2>2. done = 0 /\ call.n <= 16
    BY <1>0, <2>1 DEF RestAt, Access!Moves, Access!rdx
  <2> QED BY <2>1, <2>2 DEF RestAt
<1>1. CASE l = "16"
  <2>1. Access!Width(l) = 16 /\ Access!After(l) = "8"
    BY <1>1 DEF Access!Width, Access!After
  <2>2. done % 16 = 0 /\ call.n > 16 /\ call.n - done < 16
    BY <1>1, <2>1 DEF RestAt, Access!Moves, Access!rdx
  <2> QED BY <2>1, <2>2 DEF RestAt
<1>2. CASE l = "8"
  BY <1>2 DEF RestAt, Access!Moves, Access!Width, Access!After, Access!rdx, Shortfall, Copied
<1>3. CASE l = "4"
  BY <1>3 DEF RestAt, Access!Moves, Access!Width, Access!After, Access!rdx, Shortfall, Copied
<1>4. CASE l = "2"
  BY <1>4 DEF RestAt, Access!Moves, Access!Width, Access!After, Access!rdx, Shortfall, Copied
<1>5. CASE l = "1"
  BY <1>5 DEF RestAt, Access!Moves, Access!Width, Access!After, Access!rdx, Shortfall, Copied
<1> QED BY <1>0, <1>1, <1>2, <1>3, <1>4, <1>5 DEF Access!Labels

\* Every step of a checked copy, and every signal in between, keeps CopyInv.
LEMMA CopyStep ==
    ASSUME Lens \subseteq Nat, CopyInv, [Access!Next]_(Access!vars)
    PROVE  CopyInv'
<1> USE DEF CopyInv
<1>1. ASSUME NEW c \in Access!Copies, Access!Copy(c) PROVE CopyInv'
  BY <1>1 DEF Access!Copy, Access!Copies, RestAt, Access!Labels
<1>2. CASE Access!Move
  <2>1. Access!At("copying") /\ at \in Access!Labels \ {"ret"} /\ Access!Moves(at)
    BY <1>2 DEF Access!Move
  <2>2. call' = call /\ result' = result /\ done' = done + Access!Width(at) /\ at' = Access!After(at)
    BY <1>2 DEF Access!Move
  <2>3. done' \in Nat /\ done' <= call.n /\ RestAt(at', call.n, done')
    BY <2>1, <2>2, MoveRest
  <2>4. Access!After(at) \in Access!Labels /\ result # "Ok"
    BY <2>1 DEF Access!After, Access!Labels
  <2> QED BY <2>2, <2>3, <2>4
<1>3. CASE Access!Jump
  <2>1. at \in Access!Labels \ {"ret"} /\ ~Access!Moves(at)
    BY <1>3 DEF Access!Jump
  <2>2. call' = call /\ result' = result /\ done' = done /\ at' = Access!After(at)
    BY <1>3 DEF Access!Jump
  <2>3. RestAt(at', call.n, done')
    BY <2>1, <2>2, JumpRest
  <2>4. Access!After(at) \in Access!Labels /\ result # "Ok"
    BY <2>1 DEF Access!After, Access!Labels
  <2> QED BY <2>2, <2>3, <2>4
<1>4. CASE Access!CopyEnds
  BY <1>4 DEF Access!CopyEnds
<1>5. CASE Access!Fault \/ \E s \in Signals : Access!Arrive(s)
  BY <1>5 DEF Access!Fault, Access!Arrive, Access!Deliver
<1>6. CASE Access!Longjmp
  BY <1>6 DEF Access!Longjmp
<1>7. CASE Access!SehImpl
  BY <1>7 DEF Access!SehImpl
<1>8. CASE UNCHANGED Access!vars
  BY <1>8 DEF Access!vars
<1> QED BY <1>1, <1>2, <1>3, <1>4, <1>5, <1>6, <1>7, <1>8 DEF Access!Next

\* What is copied and what the registers say is left make up the whole copy.
LEMMA CopyInvariance ==
    ASSUME Lens \subseteq Nat
    PROVE  Access!Spec => []CopyInv
<1>1. Access!Init => CopyInv
  BY DEF Access!Init, CopyInv, RestAt, Access!Labels, Copied, Shortfall
<1>2. CopyInv /\ [Access!Next]_(Access!vars) => CopyInv'
  BY CopyStep
<1> QED BY <1>1, <1>2, PTL DEF Access!Spec

\* A copy that copy_nonoverlapping_checked reports as Ok has copied exactly
\* Copied(n) of its n bytes, whatever its length, its addresses and the signals
\* that arrive while it runs.
THEOREM CopiedExactly ==
    ASSUME Lens \subseteq Nat
    PROVE  Access!Spec => [](result = "Ok" => done = Copied(call.n))
<1>1. CopyInv => (result = "Ok" => done = Copied(call.n))
  BY DEF CopyInv, RestAt
<1> QED BY <1>1, CopyInvariance, PTL

\* Shortfall names all the lengths that the jumps over the 16 and the 8 byte move
\* get wrong: a program that avoids them gets every byte copied.
THEOREM CopiesAllOtherLengths ==
    ASSUME Lens \subseteq Nat, \A n \in Lens : Shortfall(n) = 0
    PROVE  Access!Spec => []Access!CopiesAll
<1> DEFINE FromLens == call.n \in Lens \cup {0}
<1>1. Access!Init => FromLens
  BY DEF Access!Init
<1>2. FromLens /\ [Access!Next]_(Access!vars) => FromLens'
  BY DEF Access!Next, Access!vars, Access!Copy, Access!Copies, Access!Move, Access!Jump,
         Access!CopyEnds, Access!Fault, Access!Arrive, Access!Deliver, Access!Longjmp, Access!SehImpl
<1>3. CopyInv /\ FromLens => Access!CopiesAll
  BY DEF CopyInv, RestAt, Access!CopiesAll, Copied, Shortfall
<1> HIDE DEF FromLens
<1> QED BY <1>1, <1>2, <1>3, CopyInvariance, PTL DEF Access!Spec
=============================================================================
