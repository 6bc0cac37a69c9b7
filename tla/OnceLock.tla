------------------------------ MODULE OnceLock ------------------------------
(***************************************************************************)
(* wl-helpers/src/lib.rs: OnceLock and LazyLock.                           *)
(*                                                                         *)
(* One lock, shared by Threads.  The lock word is the set of its bits, so  *)
(* that fetch_or(LOCK) is a union and store(INIT) the singleton {"INIT"}.  *)
(* Every atomic access of try_get_or_init is a step of its own.  The       *)
(* functions that take &mut self are single steps taken while no thread is *)
(* inside a call and no reference is out, which is what the borrow checker *)
(* enforces.  The program is built with panic = "abort": a panic ends the  *)
(* process and runs no destructor.                                         *)
(***************************************************************************)
CONSTANTS Threads,
          Uninit,      \* MaybeUninit::uninit()
          Calls,       \* the &self functions the threads call
          MutCalls,    \* the &mut self functions the owner calls
          MayPanic     \* whether an initializer may panic

SharedFns == {"get_or_init", "get_or_try_init", "set", "get", "force"}
MutFns == {"get_or_init_mut", "get_or_try_init_mut", "get_mut", "force_mut",
           "take", "force_unlock"}

\* Functions whose initializer can return the Break residual.
Fallible == {"get_or_try_init", "get", "get_or_try_init_mut", "get_mut"}

ASSUME CallsAssumption == /\ Uninit \notin Threads
                          /\ Calls \subseteq SharedFns
                          /\ MutCalls \subseteq MutFns
                          /\ MayPanic \in BOOLEAN

VARIABLES lock,     \* OnceLock::lock, as the set of bits that are set
          val,      \* OnceLock::val: Uninit, or the thread whose value it is
          init_fn,  \* LazyLock::init_fn; "none" for a lock that is a plain OnceLock
          pc,       \* per thread, where in try_get_or_init it is
          fn,       \* per thread, the function it is calling
          m,        \* per thread, the local m of try_get_or_init
          got,      \* per thread, the value behind the reference it holds
          fate      \* "running", or why the process died

vars == <<lock, val, init_fn, pc, fn, m, got, fate>>

Bits == {"LOCK", "INIT", "POISONED"}
Fates == {"running", "initializer panicked", "poisoned", "reentrant"}
InitFns == {"none", "Some", "taken"}
Steps == {"idle", "is_init", "check_poison", "fetch_or", "recheck", "f",
          "write", "publish", "reset", "drop_bomb", "holding"}

Init == /\ lock = {}
        /\ val = Uninit
        /\ init_fn \in {"none", "Some"}
        /\ pc = [t \in Threads |-> "idle"]
        /\ fn \in [Threads -> Calls]
        /\ m = [t \in Threads |-> {}]
        /\ got = [t \in Threads |-> Uninit]
        /\ fate = "running"

Running == fate = "running"

\* What can be called: a LazyLock keeps its OnceLock to itself.
Offers(f) == IF init_fn = "none" THEN f \notin {"force", "force_mut"}
                                 ELSE f \in {"force", "force_mut", "get", "get_mut"}
TakeFn(f) == init_fn' = IF f \in {"force", "force_mut"} THEN "taken" ELSE init_fn

At(t, step) == Running /\ pc[t] = step
Goto(t, step) == pc' = [pc EXCEPT ![t] = step]

\* panic = "abort": the process is gone.
Panic(why) == /\ fate' = why
              /\ UNCHANGED <<lock, val, init_fn, pc, fn, m, got>>
-----------------------------------------------------------------------------
(* The &self functions: all of them are try_get_or_init. *)

Call(t, f) == /\ At(t, "idle")
              /\ Offers(f)
              /\ Goto(t, "is_init")
              /\ fn' = [fn EXCEPT ![t] = f]
              /\ UNCHANGED <<lock, val, init_fn, m, got, fate>>

\* set() keeps no reference; the other functions return one to val.
ReturnRef(t, v) ==
    /\ got' = [got EXCEPT ![t] = IF fn[t] = "set" THEN Uninit ELSE v]
    /\ Goto(t, IF fn[t] = "set" THEN "idle" ELSE "holding")

\* Faulty: any bit counts as initialized.
IsInitAnyBit(t) == /\ At(t, "is_init")
                   /\ IF lock # {}
                      THEN ReturnRef(t, val)
                      ELSE Goto(t, "check_poison") /\ UNCHANGED got
                   /\ UNCHANGED <<lock, val, init_fn, fn, m, fate>>

IsInit(t) == /\ At(t, "is_init")
             /\ IF "INIT" \in lock
                THEN ReturnRef(t, val)
                ELSE Goto(t, "check_poison") /\ UNCHANGED got
             /\ UNCHANGED <<lock, val, init_fn, fn, m, fate>>

CheckPoison(t) == /\ At(t, "check_poison")
                  /\ IF "POISONED" \in lock
                     THEN Panic("poisoned")
                     ELSE /\ Goto(t, "fetch_or")
                          /\ UNCHANGED <<lock, val, init_fn, fn, m, got, fate>>

\* Faulty: the fetch_or is not repeated while the word is locked.
FetchOrOnce(t) == /\ At(t, "fetch_or")
                  /\ m' = [m EXCEPT ![t] = lock]
                  /\ lock' = lock \cup {"LOCK"}
                  /\ Goto(t, "recheck")
                  /\ UNCHANGED <<val, init_fn, fn, got, fate>>

FetchOr(t) == /\ At(t, "fetch_or")
              /\ m' = [m EXCEPT ![t] = lock]
              /\ lock' = lock \cup {"LOCK"}
              /\ Goto(t, IF "LOCK" \in lock THEN "fetch_or" ELSE "recheck")
              /\ UNCHANGED <<val, init_fn, fn, got, fate>>

\* Faulty: a waiter does not test INIT again once it has the lock.
RecheckNoInit(t) == /\ At(t, "recheck")
                    /\ IF "POISONED" \in lock
                       THEN Panic("poisoned")
                       ELSE /\ Goto(t, "f")
                            /\ UNCHANGED <<lock, val, init_fn, fn, m, got, fate>>

\* The second check_poison_atomic, and the test of INIT in the word that
\* fetch_or returned: a waiter returns here and leaves LOCK set.
Recheck(t) == /\ At(t, "recheck")
              /\ IF "POISONED" \in lock
                 THEN Panic("poisoned")
                 ELSE /\ IF "INIT" \in m[t]
                         THEN ReturnRef(t, val)
                         ELSE Goto(t, "f") /\ UNCHANGED got
                      /\ UNCHANGED <<lock, val, init_fn, fn, m, fate>>

\* The initializer returns a value.  That of force() first takes init_fn.
InitContinue(t) == /\ At(t, "f")
                   /\ fn[t] # "get"
                   /\ fn[t] = "force" => init_fn = "Some"
                   /\ TakeFn(fn[t])
                   /\ Goto(t, "write")
                   /\ UNCHANGED <<lock, val, fn, m, got, fate>>

\* Faulty: a break leaves the word locked.
InitBreakKeepsLock(t) == /\ At(t, "f")
                         /\ fn[t] \in Fallible
                         /\ Goto(t, "idle")
                         /\ UNCHANGED <<lock, val, init_fn, fn, m, got, fate>>

\* The initializer returns Err or None.
InitBreak(t) == /\ At(t, "f")
                /\ fn[t] \in Fallible
                /\ Goto(t, "reset")
                /\ UNCHANGED <<lock, val, init_fn, fn, m, got, fate>>

\* The initializer panics; that of force() does if init_fn was taken before.
InitPanic(t) == /\ At(t, "f")
                /\ fn[t] \notin {"set", "get"}
                /\ MayPanic \/ (fn[t] = "force" /\ init_fn # "Some")
                /\ Panic("initializer panicked")

WriteVal(t) == /\ At(t, "write")
               /\ val' = t
               /\ Goto(t, "publish")
               /\ UNCHANGED <<lock, init_fn, fn, m, got, fate>>

Publish(t) == /\ At(t, "publish")
              /\ lock' = {"INIT"}
              /\ ReturnRef(t, val)
              /\ UNCHANGED <<val, init_fn, fn, m, fate>>

\* Break: the word is cleared ...
Reset(t) == /\ At(t, "reset")
            /\ lock' = {}
            /\ Goto(t, "drop_bomb")
            /\ UNCHANGED <<val, init_fn, fn, m, got, fate>>

\* ... and the PoisonOnDrop guard, not forgotten on this path, goes off.
DropBomb(t) == /\ At(t, "drop_bomb")
               /\ lock' = {"POISONED"}
               /\ Goto(t, "idle")
               /\ UNCHANGED <<val, init_fn, fn, m, got, fate>>

\* The caller is done with the reference.
Release(t) == /\ At(t, "holding")
              /\ got' = [got EXCEPT ![t] = Uninit]
              /\ Goto(t, "idle")
              /\ UNCHANGED <<lock, val, init_fn, fn, m, fate>>
-----------------------------------------------------------------------------
(* The &mut self functions. *)

Exclusive(f) == /\ Running
                /\ f \in MutCalls
                /\ Offers(f)
                /\ \A t \in Threads : pc[t] = "idle"

\* Faulty: only INIT is cleared, so the LOCK bit a waiter left stays.
TakeClearsInit == /\ Exclusive("take")
                  /\ IF "INIT" \in lock THEN lock' = lock \ {"INIT"} /\ val' = Uninit
                                        ELSE UNCHANGED <<lock, val>>
                  /\ UNCHANGED <<init_fn, pc, fn, m, got, fate>>

\* Faulty: the value is read out but its place is not reset.
TakeKeepsVal == /\ Exclusive("take")
                /\ lock' = IF "INIT" \in lock THEN {} ELSE lock
                /\ UNCHANGED <<val, init_fn, pc, fn, m, got, fate>>

Take == /\ Exclusive("take")
        /\ IF "INIT" \in lock THEN lock' = {} /\ val' = Uninit
                              ELSE UNCHANGED <<lock, val>>
        /\ UNCHANGED <<init_fn, pc, fn, m, got, fate>>

ForceUnlock == /\ Exclusive("force_unlock")
               /\ lock' = lock \ {"LOCK"}
               /\ UNCHANGED <<val, init_fn, pc, fn, m, got, fate>>

Unlocked == lock = {}

\* try_get_or_init_mut(f) for t, past the poison check.
InitMut(f, t) ==
    \/ /\ "INIT" \in lock
       /\ UNCHANGED <<lock, val, init_fn>>
    \/ /\ Unlocked
       /\ f # "get_mut"
       /\ f = "force_mut" => init_fn = "Some"
       /\ lock' = {"INIT"}
       /\ val' = t
       /\ TakeFn(f)
    \/ /\ Unlocked
       /\ f \in Fallible
       /\ UNCHANGED <<lock, val, init_fn>>

TryGetOrInitMut(f, t) ==
    /\ Exclusive(f)
    /\ f \notin {"take", "force_unlock"}
    /\ \/ /\ "POISONED" \notin lock
          /\ InitMut(f, t)
          /\ UNCHANGED <<pc, fn, m, got, fate>>
       \/ /\ "POISONED" \in lock
          /\ Panic("poisoned")
       \/ /\ "LOCK" \in lock /\ {"INIT", "POISONED"} \cap lock = {}
          /\ Panic("reentrant")
       \/ /\ Unlocked
          /\ f # "get_mut"
          /\ MayPanic \/ (f = "force_mut" /\ init_fn # "Some")
          /\ Panic("initializer panicked")
-----------------------------------------------------------------------------
Step(t) == \/ IsInit(t) \/ CheckPoison(t) \/ FetchOr(t) \/ Recheck(t)
           \/ InitContinue(t) \/ InitBreak(t) \/ InitPanic(t)
           \/ WriteVal(t) \/ Publish(t) \/ Reset(t) \/ DropBomb(t)

Next == \/ \E t \in Threads : Step(t) \/ Release(t)
        \/ \E t \in Threads, f \in Calls : Call(t, f)
        \/ \E t \in Threads, f \in MutCalls : TryGetOrInitMut(f, t)
        \/ Take \/ ForceUnlock

Spec == Init /\ [][Next]_vars

\* Threads inside a call keep running; initializers return.
FairSpec == Spec /\ \A t \in Threads : WF_vars(Step(t))
-----------------------------------------------------------------------------
TypeOK == /\ lock \in SUBSET Bits
          /\ val \in Threads \cup {Uninit}
          /\ init_fn \in InitFns
          /\ pc \in [Threads -> Steps]
          /\ fn \in [Threads -> Calls]
          /\ m \in [Threads -> SUBSET Bits]
          /\ got \in [Threads -> Threads \cup {Uninit}]
          /\ fate \in Fates

Initializing(t) == pc[t] \in {"f", "write", "publish"}

\* At most one thread at a time is past the lock and running an initializer
\* or storing its result, and it runs on an empty cell (lib.rs:145-165).
OneInitializer == \A t \in Threads :
    Initializing(t) => /\ \A u \in Threads : Initializing(u) => u = t
                       /\ pc[t] # "publish" => val = Uninit

\* Past the spin loop with the word's LOCK bit its own.
Owns(t) == Initializing(t) \/ (pc[t] = "recheck" /\ "INIT" \notin m[t])

BeingInitialized == "LOCK" \in lock /\ "INIT" \notin lock

\* While no initializer breaks: a locked, uninitialized word has exactly one
\* owner, val is set exactly from the owner's write on, and whoever holds a
\* reference or is about to be given one does so on an initialized word.
\* This is the inductive invariant behind the three properties below.
NoBreakInv ==
    /\ TypeOK
    /\ "POISONED" \notin lock
    /\ BeingInitialized <=> \E t \in Threads : Owns(t)
    /\ \A t, u \in Threads : Owns(t) /\ Owns(u) => t = u
    /\ "INIT" \in lock => val # Uninit
    /\ val # Uninit => "INIT" \in lock \/ \E t \in Threads : pc[t] = "publish"
    /\ \A t \in Threads :
          /\ pc[t] \notin {"reset", "drop_bomb"}
          /\ pc[t] = "publish" => val = t
          /\ pc[t] = "recheck" /\ "INIT" \in m[t] => "INIT" \in lock
          /\ pc[t] = "holding" => got[t] = val /\ "INIT" \in lock
          /\ pc[t] # "holding" => got[t] = Uninit

\* The value behind a reference handed out by try_get_or_init stays what it
\* was when the reference was returned (lib.rs:140, 154, 166).
RefsStable == \A t \in Threads :
    pc[t] = "holding" => got[t] # Uninit /\ got[t] = val

\* Between calls the word is never locked and uninitialized, so the panic
\* "Detected Reentrant Initialization" of try_get_or_init_mut (lib.rs:189)
\* is unreachable.
NeverReentrant == fate # "reentrant"

\* A word is poisoned only once an initializer has panicked, which is what
\* the panic message of check_poison_atomic says (lib.rs:79).
PoisonedOnlyByPanic == "POISONED" \in lock => fate = "initializer panicked"

\* Every call returns, or the process has died of a panic, or a waiter that
\* found the value after fetch_or has left LOCK set beside INIT (lib.rs:154),
\* the one word on which the callers still in the spin loop stay there.
CallsReturn == \A t \in Threads :
    pc[t] = "is_init" ~> \/ pc[t] \in {"idle", "holding"}
                         \/ ~Running
                         \/ lock = {"INIT", "LOCK"}

\* The lock implements the write-once cell: the cell's value is val from the
\* moment INIT is set.
OnceCell == INSTANCE Once WITH
    cell <- IF "INIT" \in lock THEN val ELSE Uninit,
    view <- got
ImplementsOnce == OnceCell!Spec
=============================================================================
