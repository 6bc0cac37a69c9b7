--------------------------- MODULE OnceLockProofs ---------------------------
(***************************************************************************)
(* The OnceLock theorems, for any set of threads, as long as no function   *)
(* the threads call through &self has an initializer that can break.       *)
(***************************************************************************)
EXTENDS OnceLock, TLAPS

\* No &self call breaks; the word is only ever reset by its owner.
NoBreak == Calls \cap Fallible = {}

\* The variables keep their types, whatever the functions called.
LEMMA TypeStep == TypeOK /\ [Next]_vars => TypeOK'
<1> SUFFICES ASSUME TypeOK, [Next]_vars PROVE TypeOK'
  OBVIOUS
<1> USE DEF TypeOK, Bits, Steps, Fates, At, Goto, Panic, ReturnRef
<1>1. ASSUME NEW t \in Threads, Step(t) \/ Release(t) PROVE TypeOK'
  <2>1. CASE IsInit(t)
    <3>1. pc' \in [Threads -> Steps]  BY <2>1 DEF IsInit
    <3>2. got' \in [Threads -> Threads \cup {Uninit}]  BY <2>1 DEF IsInit
    <3>3. QED BY <2>1, <3>1, <3>2 DEF IsInit
  <2>2. CASE CheckPoison(t)  BY <2>2 DEF CheckPoison
  <2>3. CASE FetchOr(t)      BY <2>3 DEF FetchOr
  <2>4. CASE Recheck(t)
    <3>1. CASE "POISONED" \in lock
      BY <2>4, <3>1 DEF Recheck
    <3>2. CASE "POISONED" \notin lock
      <4>1. pc' \in [Threads -> Steps]  BY <2>4, <3>2 DEF Recheck
      <4>2. got' \in [Threads -> Threads \cup {Uninit}]
        <5>1. got' = got \/ \E v \in {val, Uninit} : got' = [got EXCEPT ![t] = v]
          BY <2>4, <3>2 DEF Recheck
        <5>2. QED BY <5>1
      <4>3. QED BY <2>4, <3>2, <4>1, <4>2 DEF Recheck
    <3>3. QED BY <3>1, <3>2
  <2>5. CASE InitContinue(t) 
    <3>1. init_fn' \in InitFns  BY <2>5 DEF InitContinue, TakeFn, InitFns
    <3>2. QED BY <2>5, <3>1 DEF InitContinue
  <2>6. CASE InitBreak(t)    BY <2>6 DEF InitBreak
  <2>7. CASE InitPanic(t)    BY <2>7 DEF InitPanic
  <2>8. CASE WriteVal(t)     BY <2>8 DEF WriteVal
  <2>9. CASE Publish(t)      BY <2>9 DEF Publish
  <2>10. CASE Reset(t)       BY <2>10 DEF Reset
  <2>11. CASE DropBomb(t)    BY <2>11 DEF DropBomb
  <2>12. CASE Release(t)     BY <2>12 DEF Release
  <2>13. QED BY <1>1, <2>1, <2>2, <2>3, <2>4, <2>5, <2>6, <2>7, <2>8, <2>9,
                <2>10, <2>11, <2>12 DEF Step
<1>2. ASSUME NEW t \in Threads, NEW f \in Calls, Call(t, f) PROVE TypeOK'
  BY <1>2 DEF Call
<1>3. ASSUME NEW t \in Threads, NEW f \in MutCalls, TryGetOrInitMut(f, t)
      PROVE  TypeOK'
  <2>1. CASE InitMut(f, t) /\ UNCHANGED <<pc, fn, m, got, fate>>
    <3>1. lock' \in SUBSET Bits /\ val' \in Threads \cup {Uninit}
      BY <2>1 DEF InitMut
    <3>2. init_fn' \in InitFns
      BY <2>1 DEF InitMut, TakeFn, InitFns
    <3>3. QED BY <2>1, <3>1, <3>2
  <2>2. CASE \E why \in Fates : Panic(why)
    BY <2>2
  <2>3. QED BY <1>3, <2>1, <2>2 DEF TryGetOrInitMut
<1>4. CASE Take         BY <1>4 DEF Take, Exclusive
<1>5. CASE ForceUnlock  BY <1>5 DEF ForceUnlock, Exclusive
<1>6. CASE UNCHANGED vars BY <1>6 DEF vars
<1>7. QED BY <1>1, <1>2, <1>3, <1>4, <1>5, <1>6 DEF Next

\* Steps of one thread inside try_get_or_init keep the invariant.
LEMMA StepNoBreakInv ==
  ASSUME NoBreak, NoBreakInv, TypeOK', NEW t \in Threads, Step(t)
  PROVE  NoBreakInv'
<1> USE CallsAssumption DEF NoBreakInv, BeingInitialized, Owns, Initializing, At, Goto
<1> USE DEF TypeOK
<1>1. CASE IsInit(t)      BY <1>1 DEF IsInit, ReturnRef
<1>2. CASE CheckPoison(t) BY <1>2 DEF CheckPoison, Panic
<1>3. CASE FetchOr(t)     BY <1>3 DEF FetchOr
<1>4. CASE Recheck(t)     BY <1>4 DEF Recheck, Panic, ReturnRef
<1>5. CASE InitContinue(t) BY <1>5 DEF InitContinue
<1>6. CASE InitBreak(t)   BY <1>6 DEF InitBreak, NoBreak
<1>7. CASE InitPanic(t)   BY <1>7 DEF InitPanic, Panic
<1>8. CASE WriteVal(t)    BY <1>8 DEF WriteVal
<1>9. CASE Publish(t)     BY <1>9 DEF Publish, ReturnRef
<1>10. CASE Reset(t)      BY <1>10 DEF Reset
<1>11. CASE DropBomb(t)   BY <1>11 DEF DropBomb
<1>12. QED BY <1>1, <1>2, <1>3, <1>4, <1>5, <1>6, <1>7, <1>8, <1>9, <1>10, <1>11
           DEF Step

LEMMA InitNoBreakInv == Init => NoBreakInv
<1> SUFFICES ASSUME Init PROVE NoBreakInv
  OBVIOUS
<1>1. TypeOK
  BY DEF Init, TypeOK, Bits, Steps, Fates, InitFns
<1>2. QED
  BY <1>1 DEF Init, NoBreakInv, BeingInitialized, Owns, Initializing

\* The owner's steps keep the invariant: no thread owns the word meanwhile.
LEMMA ExclusiveNoBreakInv ==
  ASSUME NoBreakInv, TypeOK', NEW t \in Threads, NEW f \in MutCalls,
         Take \/ ForceUnlock \/ TryGetOrInitMut(f, t)
  PROVE  NoBreakInv'
<1> USE CallsAssumption DEF NoBreakInv, TypeOK, BeingInitialized, Owns, Initializing
<1>1. CASE Take         BY <1>1 DEF Take, Exclusive
<1>2. CASE ForceUnlock  BY <1>2 DEF ForceUnlock, Exclusive
<1>3. CASE TryGetOrInitMut(f, t)
  <2>1. CASE InitMut(f, t) /\ UNCHANGED <<pc, fn, m, got, fate>>
    BY <1>3, <2>1 DEF InitMut, TryGetOrInitMut, Exclusive, Unlocked
  <2>2. CASE UNCHANGED <<lock, val, pc, m, got>>
    BY <2>2
  <2>3. QED BY <1>3, <2>1, <2>2 DEF TryGetOrInitMut, Panic
<1>4. QED BY <1>1, <1>2, <1>3

LEMMA NextNoBreakInv ==
  ASSUME NoBreak PROVE NoBreakInv /\ [Next]_vars => NoBreakInv'
<1> SUFFICES ASSUME NoBreakInv, [Next]_vars PROVE NoBreakInv'
  OBVIOUS
<1>1. TypeOK'
  BY TypeStep DEF NoBreakInv
<1> USE DEF NoBreakInv, BeingInitialized, Owns, Initializing
<1>2. ASSUME NEW t \in Threads, Step(t) PROVE NoBreakInv'
  BY <1>1, <1>2, StepNoBreakInv
<1>3. ASSUME NEW t \in Threads, Release(t) PROVE NoBreakInv'
  BY <1>1, <1>3 DEF Release, TypeOK, At, Goto
<1>4. ASSUME NEW t \in Threads, NEW f \in Calls, Call(t, f) PROVE NoBreakInv'
  BY <1>1, <1>4 DEF Call, TypeOK, At, Goto
<1>5. ASSUME NEW t \in Threads, NEW f \in MutCalls, TryGetOrInitMut(f, t)
      PROVE  NoBreakInv'
  BY <1>1, <1>5, ExclusiveNoBreakInv
<1>6. CASE Take
  BY <1>1, <1>6, CallsAssumption DEF Take, Exclusive, TypeOK
<1>7. CASE ForceUnlock
  BY <1>1, <1>7, CallsAssumption DEF ForceUnlock, Exclusive, TypeOK
<1>8. CASE UNCHANGED vars
  BY <1>1, <1>8 DEF vars, TypeOK
<1>9. QED BY <1>2, <1>3, <1>4, <1>5, <1>6, <1>7, <1>8 DEF Next

\* The inductive invariant holds in every reachable state.
THEOREM Invariance == ASSUME NoBreak PROVE Spec => []NoBreakInv
<1>1. NoBreakInv /\ [Next]_vars => NoBreakInv'
  BY NextNoBreakInv
<1>2. QED BY <1>1, InitNoBreakInv, PTL DEF Spec

\* No two threads run an initializer at once, and none runs on a set cell.
THEOREM SingleInitializer == ASSUME NoBreak PROVE Spec => []OneInitializer
<1>1. NoBreakInv => OneInitializer
  BY CallsAssumption
  DEF NoBreakInv, TypeOK, OneInitializer, BeingInitialized, Owns, Initializing
<1>2. QED BY <1>1, Invariance, PTL

\* A reference that try_get_or_init returned never sees its value change.
THEOREM StableReferences == ASSUME NoBreak PROVE Spec => []RefsStable
<1>1. NoBreakInv => RefsStable
  BY DEF NoBreakInv, RefsStable
<1>2. QED BY <1>1, Invariance, PTL

\* The reentrancy panic of try_get_or_init_mut is unreachable.
THEOREM NoReentrancy == ASSUME NoBreak PROVE Spec => []NeverReentrant
<1>1. Init => NeverReentrant
  BY DEF Init, NeverReentrant
<1>2. NoBreakInv /\ NeverReentrant /\ [Next]_vars => NeverReentrant'
  <2> SUFFICES ASSUME NoBreakInv, NeverReentrant, [Next]_vars PROVE NeverReentrant'
    OBVIOUS
  <2> USE DEF NeverReentrant, At, Running, Goto, Panic
  <2>1. ASSUME NEW t \in Threads, Step(t) \/ Release(t) PROVE NeverReentrant'
    BY <2>1 DEF Step, IsInit, CheckPoison, FetchOr, Recheck, InitContinue,
       InitBreak, InitPanic, WriteVal, Publish, Reset, DropBomb, Release
  <2>2. ASSUME NEW t \in Threads, NEW f \in MutCalls, TryGetOrInitMut(f, t)
        PROVE  NeverReentrant'
    <3>1. \A u \in Threads : ~Owns(u)
      BY <2>2 DEF TryGetOrInitMut, Exclusive, Owns, Initializing
    <3>2. ~("LOCK" \in lock /\ "INIT" \notin lock)
      BY <3>1 DEF NoBreakInv, BeingInitialized
    <3>3. QED BY <2>2, <3>2 DEF TryGetOrInitMut
  <2>3. QED BY <2>1, <2>2 DEF Next, Call, Take, ForceUnlock, vars
<1>3. QED BY <1>1, <1>2, Invariance, PTL DEF Spec

\* The lock implements the write-once cell of module Once.
THEOREM Refinement == ASSUME NoBreak PROVE Spec => ImplementsOnce
<1>1. Init => OnceCell!Init
  BY DEF Init, OnceCell!Init
<1>2. NoBreakInv /\ [Next]_vars => [OnceCell!Next]_(OnceCell!vars)
  <2> SUFFICES ASSUME NoBreakInv, [Next]_vars
               PROVE  OnceCell!Next \/ UNCHANGED OnceCell!vars
    BY DEF OnceCell!vars
  <2> USE CallsAssumption DEF NoBreakInv, TypeOK, At, Goto, Panic,
      OnceCell!vars, OnceCell!Next
  <2>1. ASSUME NEW t \in Threads, IsInit(t) \/ Recheck(t)
        PROVE  OnceCell!Observe(t) \/ UNCHANGED OnceCell!vars
    BY <2>1 DEF IsInit, Recheck, ReturnRef, OnceCell!Observe
  <2>2. ASSUME NEW t \in Threads, Publish(t)
        PROVE  OnceCell!Decide \/ OnceCell!DecideAndObserve(t)
    BY <2>2 DEF Publish, ReturnRef, OnceCell!Decide, OnceCell!DecideAndObserve,
       BeingInitialized, Owns, Initializing
  <2>3. ASSUME NEW t \in Threads, Release(t)
        PROVE  OnceCell!Release(t)
    BY <2>3 DEF Release, OnceCell!Release
  <2>4. ASSUME NEW t \in Threads, FetchOr(t) \/ WriteVal(t)
        PROVE  UNCHANGED OnceCell!vars
    BY <2>4 DEF FetchOr, WriteVal, BeingInitialized, Owns, Initializing
  <2>5. ASSUME NEW t \in Threads,
               \/ CheckPoison(t) \/ InitContinue(t) \/ InitPanic(t)
               \/ InitBreak(t) \/ Reset(t) \/ DropBomb(t)
        PROVE  UNCHANGED OnceCell!vars
    BY <2>5 DEF CheckPoison, InitContinue, InitPanic, InitBreak, Reset, DropBomb
  <2>6. ASSUME NEW t \in Threads, NEW f \in Calls, Call(t, f)
        PROVE  UNCHANGED OnceCell!vars
    BY <2>6 DEF Call
  <2>7. ASSUME NEW t \in Threads, NEW f \in MutCalls, TryGetOrInitMut(f, t)
        PROVE  OnceCell!Decide \/ UNCHANGED OnceCell!vars
    BY <2>7 DEF TryGetOrInitMut, InitMut, Unlocked, OnceCell!Decide
  <2>8. CASE Take
    BY <2>8 DEF Take, Exclusive, OnceCell!Empty
  <2>9. CASE ForceUnlock
    BY <2>9 DEF ForceUnlock, Exclusive
  <2>10. CASE UNCHANGED vars
    BY <2>10 DEF vars
  <2>11. QED
    BY <2>1, <2>2, <2>3, <2>4, <2>5, <2>6, <2>7, <2>8, <2>9, <2>10 DEF Next, Step
<1>3. QED BY <1>1, <1>2, Invariance, PTL DEF Spec, ImplementsOnce, OnceCell!Spec
=============================================================================
