--------------------------- MODULE RegistryProofs ---------------------------
(***************************************************************************)
(* The numbers of the subsystems, the order of start-up and who holds      *)
(* LOAD_LOCK, for any threads, any subsystems and any order of loading.    *)
(***************************************************************************)
EXTENDS LoaderProofs

\* Each step keeps the numbers in order.
LEMMA NumberStep ==
    ASSUME LTypeInv, PlaceInv, JobInv, NumberInv, [Next]_vars PROVE NumberInv'
<1>1. CASE Nothing
  BY <1>1 DEF Nothing, NumberInv, Registering, Loads, Owns
<1>2. ASSUME NEW t \in Threads, Others(t), UNCHANGED <<syscalls, next_dyn>>,
             asked \subseteq asked', pc'[t] \notin {"store", "info"},
             then'[t] \in {"init", "enter"} =>
               job'[t] \notin asked \/ (Loads(t) /\ pc[t] # "info" /\ job'[t] = job[t])
      PROVE  NumberInv'
  <2>1. \A n, m : Owns(n, m)' = Owns(n, m)
    BY <1>2 DEF Owns
  <2>2. ASSUME NEW u \in Threads, Registering(u)'
        PROVE  /\ Owns(number'[u], job'[u])
               /\ \A v \in Threads : Registering(v)' /\ number'[v] = number'[u] => v = u
               /\ pc'[u] = "store" => number'[u] \notin Numbers \/ syscalls[number'[u]] = Unregistered
               /\ pc'[u] = "info" => number'[u] \in Numbers /\ syscalls[number'[u]] = job'[u]
    BY <1>2, <2>2 DEF NumberInv, Registering, Others
  <2>3. ASSUME NEW n \in Numbers, syscalls[n] # Unregistered
        PROVE  /\ Owns(n, syscalls[n]) /\ syscalls[n] \in asked'
               /\ \A u \in Threads : Loads(u)' /\ job'[u] = syscalls[n] => pc'[u] = "info"
    BY <1>2, <2>3 DEF NumberInv, Loads, Others
  <2> QED BY <1>2, <2>1, <2>2, <2>3 DEF NumberInv, Numbers
<1>3. ASSUME NEW t \in Threads, Advances(t) \/ Announce(t) \/ \E m \in Modules : Begins(t, m)
      PROVE  NumberInv'
  <2>1. CASE Advances(t)
    BY <1>2, <2>1 DEF Advances, Loads
  <2>2. ASSUME NEW m \in Modules, Begins(t, m) PROVE NumberInv'
    BY <1>2, <2>2 DEF Begins
  <2>3. CASE Announce(t)
    <3>1. Others(t) /\ UNCHANGED <<syscalls, next_dyn, asked>> /\ pc'[t] = "idle" /\ then'[t] = "idle"
      BY <2>3 DEF Announce, StoreInfo, Return, Others, LTypeInv, Goto
    <3> QED BY <1>2, <3>1
  <2> QED BY <1>3, <2>1, <2>2, <2>3
<1> USE DEF LTypeInv, At, Goto
<1>4. ASSUME NEW t \in Threads, NumberSubsystem(t) PROVE NumberInv'
  <2> DEFINE m == job[t]
             n == IF Number[m] = Dynamic THEN next_dyn ELSE Number[m]
  <2>1. /\ pc[t] = "init" /\ pc'[t] = "store"
        /\ \A u \in Threads \ {t} : pc'[u] = pc[u] /\ number'[u] = number[u]
        /\ UNCHANGED <<then, job, syscalls, asked>>
        /\ number'[t] = n /\ n \in Nat
        /\ next_dyn' = IF Number[m] = Dynamic THEN next_dyn + 1 ELSE next_dyn
    BY <1>4, LoaderAssumption DEF NumberSubsystem, TakeNumber, rvars
  <2>2. m \in Modules /\ Loads(t) /\ then[t] = "init"
    BY <2>1 DEF PlaceInv, Loads
  <2>3. ASSUME NEW k \in Nat, NEW o \in Modules, Owns(k, o) PROVE Owns(k, o)'
    BY <2>1, <2>3 DEF Owns
  <2>4. Owns(number[t], job[t])'
    <3>1. job'[t] = m
      BY <2>1
    <3> QED BY <2>1, <3>1, RegistryAssumption DEF Owns
  <2>5. ASSUME NEW k \in Modules, k # m, Owns(n, k) PROVE FALSE
    BY <2>1, <2>2, <2>5, NumbersAssumption, LoaderAssumption, RegistryAssumption DEF Owns
  <2> HIDE DEF n, m
  <2>6. ASSUME NEW u \in Threads \ {t}, Registering(u) PROVE number[u] # n
    BY <2>2, <2>5, <2>6 DEF NumberInv, Registering, JobInv, Loads, PlaceInv, m
  <2>7. n \notin Numbers \/ syscalls[n] = Unregistered
    <3>1. ASSUME n \in Numbers, syscalls[n] # Unregistered PROVE FALSE
      <4>1. Owns(n, syscalls[n]) /\ syscalls[n] # m /\ syscalls[n] \in Modules
        BY <2>1, <2>2, <3>1 DEF NumberInv, m
      <4> QED BY <2>5, <4>1
    <3> QED BY <3>1
  <2>8. ASSUME NEW u \in Threads, Registering(u)'
        PROVE  /\ Owns(number[u], job[u])'
               /\ \A v \in Threads : Registering(v)' /\ number'[v] = number'[u] => v = u
               /\ pc'[u] = "store" => number'[u] \notin Numbers \/ syscalls[number'[u]] = Unregistered
               /\ pc'[u] = "info" => number'[u] \in Numbers /\ syscalls[number'[u]] = job'[u]
    <3>1. CASE u = t
      BY <2>1, <2>4, <2>6, <2>7, <2>8, <3>1 DEF Registering, n, m
    <3>2. CASE u # t
      <4>1. Registering(u) /\ number'[u] = number[u] /\ job'[u] = job[u] /\ number[u] # n
        BY <2>1, <2>6, <2>8, <3>2 DEF Registering
      <4>2. Owns(number[u], job[u])'
        BY <2>3, <4>1 DEF NumberInv, Owns
      <4> QED BY <2>1, <4>1, <4>2 DEF Registering, NumberInv
    <3> QED BY <3>1, <3>2
  <2>9. ASSUME NEW k \in Numbers, syscalls[k] # Unregistered
        PROVE  /\ Owns(k, syscalls[k])' /\ syscalls[k] \in asked
               /\ \A u \in Threads : Loads(u)' /\ job'[u] = syscalls[k] => pc'[u] = "info"
    <3>1. Owns(k, syscalls[k]) /\ k \in Nat /\ syscalls[k] \in Modules
      BY <2>9 DEF NumberInv, Numbers
    <3>2. Owns(k, syscalls[k])'
      BY <2>1, <2>3, <3>1 DEF Owns
    <3> QED BY <2>1, <2>9, <3>2 DEF NumberInv, Loads
  <2> QED BY <2>1, <2>8, <2>9 DEF NumberInv, Numbers
<1>5. ASSUME NEW t \in Threads, Register(t), fate' = "running" PROVE NumberInv'
  <2>1. /\ pc[t] = "store" /\ pc'[t] = "info" /\ number[t] \in Numbers
        /\ \A u \in Threads \ {t} : pc'[u] = pc[u]
        /\ UNCHANGED <<then, job, number, asked, next_dyn>>
        /\ syscalls' = [syscalls EXCEPT ![number[t]] = job[t]]
    BY <1>5 DEF Register, Crash, StoreSyscalls, OutOfNumbers
  <2>2. \A k, o : Owns(k, o)' = Owns(k, o)
    BY <2>1 DEF Owns
  <2>3. Loads(t) /\ job[t] \in asked /\ \A u \in Threads : Loads(u) /\ job[u] = job[t] => u = t
    BY <2>1 DEF PlaceInv, JobInv, Loads
  <2>4. ASSUME NEW u \in Threads, Registering(u)'
        PROVE  /\ Owns(number[u], job[u])
               /\ \A v \in Threads : Registering(v)' /\ number[v] = number[u] => v = u
               /\ pc'[u] = "store" => number[u] \notin Numbers \/ syscalls'[number[u]] = Unregistered
               /\ pc'[u] = "info" => number[u] \in Numbers /\ syscalls'[number[u]] = job[u]
    BY <2>1, <2>4 DEF Registering, NumberInv
  <2>5. ASSUME NEW k \in Numbers, syscalls'[k] # Unregistered
        PROVE  /\ Owns(k, syscalls'[k]) /\ syscalls'[k] \in asked
               /\ \A u \in Threads : Loads(u)' /\ job[u] = syscalls'[k] => pc'[u] = "info"
    <3>1. CASE k = number[t]
      BY <2>1, <2>3, <3>1 DEF NumberInv, Registering, Loads
    <3>2. CASE k # number[t]
      BY <2>1, <2>3, <2>5, <3>2 DEF NumberInv, Loads
    <3> QED BY <3>1, <3>2
  <2> QED BY <2>1, <2>2, <2>4, <2>5 DEF NumberInv, Numbers
<1>6. CASE Enter
  <2>1. /\ Others(Main) /\ UNCHANGED <<syscalls, next_dyn, asked>>
        /\ pc'[Main] = "idle" /\ then'[Main] = "idle"
    BY <1>6, LoaderAssumption DEF Enter, Return, Others, rvars
  <2> HIDE DEF LTypeInv
  <2> QED BY <1>2, <2>1, LoaderAssumption
<1> QED BY <1>1, <1>3, <1>4, <1>5, <1>6, Kinds

\* Each step keeps what is listed callable.
LEMMA ListedStep ==
    ASSUME LTypeInv, PlaceInv, JobInv, NumberInv, ListedIsCallable, [Next]_vars
    PROVE  ListedIsCallable'
<1>1. ASSUME UNCHANGED <<syscalls, registry>>, loaded \subseteq loaded' PROVE ListedIsCallable'
  BY <1>1 DEF ListedIsCallable, Listed, Dispatch
<1>2. ASSUME NEW t \in Threads, Register(t), fate' = "running" PROVE ListedIsCallable'
  <2>1. /\ pc[t] = "store" /\ number[t] \in Numbers /\ UNCHANGED <<registry, loaded>>
        /\ syscalls' = [syscalls EXCEPT ![number[t]] = job[t]]
    BY <1>2 DEF Register, Crash, StoreSyscalls, OutOfNumbers, At
  <2>2. number[t] \notin Listed
    BY <2>1, NumbersAssumption DEF NumberInv, Registering, ListedIsCallable, Listed,
         Dispatch
  <2> QED BY <2>1, <2>2 DEF ListedIsCallable, Listed, Dispatch, LTypeInv
<1>3. ASSUME NEW t \in Threads, Announce(t) PROVE ListedIsCallable'
  <2>1. /\ pc[t] = "info" /\ UNCHANGED <<syscalls, loaded>>
        /\ registry' = [registry EXCEPT ![number[t]] = job[t]]
    BY <1>3 DEF Announce, StoreInfo, At
  <2>2. number[t] \in Numbers /\ syscalls[number[t]] = job[t] /\ job[t] \in loaded
    BY <2>1 DEF NumberInv, Registering, PlaceInv, JobInv, Loads, Loading
  <2> QED BY <2>1, <2>2 DEF ListedIsCallable, Listed, Dispatch, LTypeInv
<1>4. ASSUME NEW t \in Threads, NumberSubsystem(t) PROVE ListedIsCallable'
  BY <1>1, <1>4 DEF NumberSubsystem, TakeNumber, rvars
<1>5. CASE Enter
  BY <1>1, <1>5 DEF Enter, rvars
<1> QED BY <1>1, <1>2, <1>3, <1>4, <1>5, Kinds DEF Nothing, Advances, Begins

\* Each step keeps the order of start-up.
LEMMA BootStep ==
    ASSUME LTypeInv, PlaceInv, NumberInv, ListedIsCallable, BootInv, [Next]_vars
    PROVE  BootInv'
<1> USE LoaderAssumption
<1>a. Len(Default) \in Nat /\ boot \in Nat
  BY NumbersAssumption DEF LTypeInv
<1>c. \A i \in 1 .. Len(Default) : Default[i] # Exec
  BY NumbersAssumption
<1>1. CASE Nothing
  BY <1>1 DEF Nothing, BootInv, Booted, Listed
<1>2. ASSUME NEW t \in Threads, Advances(t) PROVE BootInv'
  BY <1>2 DEF Advances, Others, BootInv, Booted, Listed
<1>3. ASSUME NEW t \in Threads, NEW m \in Modules, Begins(t, m) PROVE BootInv'
  <2>1. CASE Booted /\ m # Exec
    BY <1>3, <2>1, <1>a DEF Begins, Others, BootInv, Booted, Listed, PlaceInv
  <2>2. CASE t = Main /\ boot < Len(Default) /\ m = Default[boot + 1]
    <3>1. m # Exec
      BY <1>a, <1>c, <2>2
    <3>2. ~Booted /\ ~Booted' /\ UNCHANGED Listed
      BY <1>3, <1>a, <2>2 DEF Begins, Booted, Listed
    <3> QED BY <1>3, <2>2, <3>1, <3>2 DEF Begins, Others, BootInv
  <2>3. CASE t = Main /\ boot = Len(Default) /\ m = Exec
    <3>1. ~Booted /\ ~Booted' /\ UNCHANGED Listed
      BY <1>3, <1>a, <2>3 DEF Begins, Booted, Listed
    <3>2. /\ boot' = boot /\ then'[Main] = "enter" /\ registry' = registry
          /\ \A u \in Threads \ {Main} : pc'[u] = pc[u] /\ then'[u] = then[u]
      BY <1>3, <2>3 DEF Begins, Others
    <3>3. boot' = Len(Default) /\ boot' >= Len(Default)
      BY <1>a, <2>3, <3>2
    <3> QED BY <3>1, <3>2, <3>3 DEF BootInv
  <2> QED BY <1>3, <2>1, <2>2, <2>3 DEF Begins
<1>4. ASSUME NEW t \in Threads, (Register(t) /\ fate' = "running") \/ NumberSubsystem(t)
      PROVE  BootInv'
  <2>1. /\ Others(t) /\ pc[t] # "off" /\ UNCHANGED <<then, job, registry, boot, asked>>
    BY <1>4 DEF Register, Crash, StoreSyscalls, NumberSubsystem, TakeNumber, rvars,
         At, Goto, LTypeInv, Others
  <2> QED BY <2>1 DEF Others, BootInv, Booted, Listed
<1>5. ASSUME NEW t \in Threads, Announce(t) PROVE BootInv'
  <2>1. /\ Others(t) /\ pc[t] = "info" /\ then[t] = "init" /\ then'[t] = "idle" /\ UNCHANGED asked
        /\ registry' = [registry EXCEPT ![number[t]] = job[t]]
        /\ boot' = (IF Booted THEN boot ELSE boot + 1)
    BY <1>5 DEF Announce, StoreInfo, Return, Others, At, Goto, LTypeInv, PlaceInv
  <2>2. number[t] \in Numbers /\ syscalls[number[t]] = job[t] /\ job[t] \in Modules
    BY <2>1 DEF NumberInv, Registering, LTypeInv
  <2>3. number[t] \in Listed' /\ registry'[number[t]] = job[t]
    BY <2>1, <2>2, NumbersAssumption DEF Listed, LTypeInv
  <2>4. ASSUME NEW n \in Listed PROVE n \in Listed' /\ registry'[n] = registry[n]
    <3>1. n = number[t] => registry[n] = job[t]
      BY <2>2 DEF ListedIsCallable, Dispatch
    <3> QED BY <2>1, <2>2, <3>1 DEF Listed, LTypeInv
  <2>5. ASSUME NEW i \in 1 .. Len(Default), i <= boot
        PROVE  \E n \in Listed' : registry'[n] = Default[i]
    <3>1. PICK n \in Listed : registry[n] = Default[i]
      BY <2>5 DEF BootInv
    <3> QED BY <2>4, <3>1
  <2>6. CASE Booted
    BY <2>1, <2>5, <2>6 DEF BootInv, Booted, Others
  <2>7. CASE ~Booted
    <3>1. t = Main /\ boot < Len(Default) /\ job[t] = Default[boot + 1] /\ boot' = boot + 1
      BY <2>1, <2>7 DEF BootInv
    <3>2. ASSUME NEW i \in 1 .. Len(Default), i <= boot'
          PROVE  \E n \in Listed' : registry'[n] = Default[i]
      <4>1. i <= boot \/ i = boot + 1
        BY <1>a, <3>1, <3>2
      <4>2. CASE i = boot + 1
        BY <2>3, <3>1, <4>2
      <4> QED BY <2>5, <4>1, <4>2
    <3>3. ~Booted'
      BY <1>a, <3>1 DEF Booted
    <3> QED BY <1>a, <2>1, <2>7, <3>1, <3>2, <3>3 DEF BootInv, Others
  <2> QED BY <2>6, <2>7
<1>6. CASE Enter
  <2>1. /\ Others(Main) /\ pc[Main] = "enter" /\ then[Main] = "enter" /\ then'[Main] = "idle"
        /\ UNCHANGED <<asked, registry>> /\ boot' = boot + 1
    BY <1>6 DEF Enter, Return, Others, At, Goto, LTypeInv, PlaceInv, rvars
  <2>2. boot = Len(Default) /\ Booted'
    BY <2>1 DEF BootInv, Booted
  <2> QED BY <1>a, <2>1, <2>2 DEF BootInv, Others, Listed
<1> QED BY <1>1, <1>2, <1>3, <1>4, <1>5, <1>6, Kinds
-----------------------------------------------------------------------------
\* The six parts together hold of every behaviour.
THEOREM LoaderInvariance == Spec => []LoaderInv
<1>1. Init => LoaderInv
  <2> SUFFICES ASSUME Init PROVE LoaderInv
    OBVIOUS
  <2> USE LoaderAssumption, TlsAssumption, RegistryAssumption DEF Init, TInit, RInit
  <2>1. LTypeInv
    BY NumbersAssumption DEF LTypeInv, PlacesOf, Loading
  <2>2. PlaceInv /\ JobInv
    BY DEF PlaceInv, JobInv, Loads, Loading
  <2>3. NumberInv /\ ListedIsCallable
    BY DEF NumberInv, Registering, ListedIsCallable, Listed
  <2>4. BootInv
    BY NumbersAssumption DEF BootInv
  <2> QED BY <2>1, <2>2, <2>3, <2>4 DEF LoaderInv
<1>2. LoaderInv /\ [Next]_vars => LoaderInv'
  BY LTypeStep, JobStep, NumberStep, ListedStep, BootStep DEF LoaderInv
<1> QED BY <1>1, <1>2, PTL DEF Spec

\* A subsystem that all_subsystems lists is loaded and can be called, whichever
\* threads load and register subsystems at the same time.
THEOREM ListedCallable == Spec => []ListedIsCallable
<1>1. LoaderInv => ListedIsCallable
  BY DEF LoaderInv
<1> QED BY <1>1, LoaderInvariance, PTL

\* However many default subsystems there are, all are ready before the binary is
\* looked at.
THEOREM DefaultsReady == Spec => []DefaultsFirst
<1>1. LoaderInv => DefaultsFirst
  <2> SUFFICES ASSUME LoaderInv, Exec \in asked, NEW i \in 1 .. Len(Default)
               PROVE  \E n \in Listed : registry[n] = Default[i] /\ Dispatch(n) = Default[i]
    BY DEF DefaultsFirst
  <2>1. i <= boot
    BY NumbersAssumption DEF LoaderInv, LTypeInv, BootInv
  <2>2. PICK n \in Listed : registry[n] = Default[i]
    BY <2>1 DEF LoaderInv, BootInv
  <2> QED BY <2>2 DEF LoaderInv, ListedIsCallable
<1> QED BY <1>1, LoaderInvariance, PTL

\* A subsystem keeps its number, although dynamic numbers are taken from an atomic
\* counter outside any lock.
THEOREM NumbersStay == Spec => NumbersKept
<1>1. LoaderInv /\ [Next]_vars => [\A n \in Numbers :
          syscalls[n] # Unregistered => syscalls'[n] = syscalls[n]]_vars
  <2> SUFFICES ASSUME LoaderInv, Next, NEW n \in Numbers, syscalls[n] # Unregistered
               PROVE  syscalls'[n] = syscalls[n]
    BY DEF vars
  <2>1. ASSUME NEW t \in Threads, Register(t) PROVE syscalls'[n] = syscalls[n]
    <3>1. syscalls' = syscalls \/ (syscalls' = [syscalls EXCEPT ![number[t]] = job[t]]
                                   /\ number[t] \in Numbers /\ pc[t] = "store")
      BY <2>1 DEF Register, Crash, StoreSyscalls, OutOfNumbers, At, rvars
    <3> QED BY <3>1 DEF LoaderInv, NumberInv, Registering, LTypeInv
  <2>2. ASSUME NEW t \in Threads, NumberSubsystem(t) \/ Announce(t)
        PROVE  syscalls' = syscalls
    BY <2>2 DEF NumberSubsystem, TakeNumber, Announce, StoreInfo, rvars
  <2> QED
    BY <2>1, <2>2 DEF Next, LoadSubsystem, TlsGetAddr, LockWrite, Map, AllocTls, LoadTls,
       UnlockWrite, LockRead, Update, StartThread, Access, LoadBinary, Enter, Crash, rvars
<1> QED BY <1>1, LoaderInvariance, PTL DEF Spec, NumbersKept
-----------------------------------------------------------------------------
\* A thread that loads a module is the only one, and no block is brought up to date
\* meanwhile.
LEMMA Alone ==
    ASSUME LTypeInv, PlaceInv, JobInv, BootInv, LockInv, NEW t \in Threads, Works(t),
           NEW u \in Threads
    PROVE  pc[u] # "updating" /\ (Works(u) => u = t)
<1>a. Len(Default) \in Nat
  BY NumbersAssumption
<1>1. ASSUME NEW v \in Threads, Works(v), job[v] = Exec
      PROVE  \A w \in Threads \ {v} : pc[w] = "off"
  <2>1. then[v] = "enter"
    BY <1>1 DEF Works, PlaceInv, JobInv, Loading, Loads
  <2> QED BY <1>a, <2>1 DEF BootInv, Booted
<1>2. CASE job[t] = Exec
  BY <1>1, <1>2 DEF Works
<1>3. CASE job[t] # Exec
  BY <1>1, <1>3 DEF Works, LockInv
<1> QED BY <1>2, <1>3

\* Each step keeps the lock with those who hold it.
LEMMA LockStep ==
    ASSUME LTypeInv, PlaceInv, JobInv, BootInv, TTypeInv, LockInv, [Next]_vars PROVE LockInv'
<1> USE DEF At, Goto, Works, LTypeInv
<1>1. ASSUME NEW t \in Threads, Others(t), UNCHANGED lock,
             pc'[t] \in {"alloc_tls", "load_tls"} => Size[job'[t]] > 0,
             Works(t)' => job'[t] = Exec \/ (Works(t) /\ job'[t] = job[t]), pc'[t] # "updating"
      PROVE  LockInv'
  BY <1>1 DEF LockInv, Others
<1>2. ASSUME NEW t \in Threads, NEW m \in Modules, LoadSubsystem(t, m) \/ TlsGetAddr(t, m)
      PROVE  LockInv'
  BY <1>1, <1>2, Zenon DEF LoadSubsystem, TlsGetAddr, Begin, Others
<1>3. CASE LoadBinary
  BY <1>1, <1>3, LoaderAssumption DEF LoadBinary, Begin, Others
<1>4. ASSUME NEW t \in Threads, LockWrite(t) PROVE LockInv'
  BY <1>4 DEF LockWrite, LockInv, TTypeInv
<1>5. ASSUME NEW t \in Threads, Map(t) \/ AllocTls(t) \/ LoadTls(t) PROVE LockInv'
  <2>1. \/ UNCHANGED <<pc, job, lock>>
        \/ /\ UNCHANGED <<job, lock>> /\ Works(t)
           /\ \E p \in {"alloc_tls", "load_tls", "unlock"} :
                 pc' = [pc EXCEPT ![t] = p] /\ (p # "unlock" => Size[job[t]] > 0)
    BY <1>5 DEF Map, AllocTls, LoadTls, Crash, LockInv
  <2> QED BY <2>1 DEF LockInv
<1>6. ASSUME NEW t \in Threads, UnlockWrite(t) PROVE LockInv'
  <2>1. \A u \in Threads : pc[u] # "updating" /\ (Works(u) => u = t)
    BY <1>6, Alone DEF UnlockWrite
  <2> QED BY <1>6, <2>1 DEF UnlockWrite, LockInv
<1>7. ASSUME NEW t \in Threads, LockRead(t) PROVE LockInv'
  BY <1>7 DEF LockRead, LockInv, TTypeInv
<1>8. ASSUME NEW t \in Threads, Update(t) PROVE LockInv'
  <2>1. \/ UNCHANGED <<pc, job, lock>>
        \/ /\ pc' = [pc EXCEPT ![t] = then[t]] /\ UNCHANGED job /\ pc[t] = "updating"
           /\ lock' = [lock EXCEPT !.readers = @ \ {t}]
    BY <1>8 DEF Update, Crash
  <2>2. CASE UNCHANGED <<pc, job, lock>>
    BY <2>2 DEF LockInv
  <2>3. CASE pc' # pc
    <3>1. \A u \in Threads : ~(Works(u) /\ job[u] # Exec)
      BY <2>1, <2>3 DEF LockInv
    <3>2. /\ \A u \in Threads \ {t} : pc'[u] = pc[u]
          /\ pc'[t] \in {"idle", "init", "enter", "address"} /\ UNCHANGED job
          /\ lock'.writers = lock.writers /\ lock'.readers = lock.readers \ {t}
      BY <2>1, <2>3 DEF TTypeInv
    <3> QED BY <3>1, <3>2 DEF LockInv
  <2> QED BY <2>1, <2>2, <2>3
<1>9. ASSUME NEW t \in Threads, StartThread(t) PROVE LockInv'
  BY <1>1, <1>9 DEF StartThread, Others
<1>10. ASSUME NEW t \in Threads, Access(t) \/ Announce(t) PROVE LockInv'
  BY <1>1, <1>10 DEF Access, Announce, Return, Others
<1>11. ASSUME NEW t \in Threads, NumberSubsystem(t) PROVE LockInv'
  BY <1>1, <1>11 DEF NumberSubsystem, Others
<1>12. ASSUME NEW t \in Threads, Register(t) PROVE LockInv'
  <2>1. UNCHANGED <<pc, job, lock>> \/ (pc' = [pc EXCEPT ![t] = "info"] /\ UNCHANGED <<job, lock>>)
    BY <1>12 DEF Register, Crash
  <2> QED BY <2>1 DEF LockInv
<1>13. CASE Enter
  BY <1>1, <1>13, LoaderAssumption DEF Enter, Return, Others
<1>14. CASE UNCHANGED vars
  BY <1>14 DEF vars, lvars, LockInv
<1> HIDE DEF LTypeInv
<1> QED
  BY <1>2, <1>3, <1>4, <1>5, <1>6, <1>7, <1>8, <1>9, <1>10, <1>11, <1>12, <1>13, <1>14 DEF Next
-----------------------------------------------------------------------------
\* What update_tls makes accessible covers what it copies.
LEMMA OpensMissing ==
    ASSUME TTypeInv, NEW t \in Threads, NEW o \in Int, Has(Master, o)
    PROVE  Has(t, o) \/ o \in Opened(t)
<1> DEFINE me == tcb[t]
           mc == tcb[Master]
           low == RoundDown(me.load_size, Page)
           high == RoundUp(mc.dyn_size, Page)
<1>1. /\ me.load_size \in Nat /\ mc.load_size \in Nat /\ me.dyn_size \in Nat /\ mc.dyn_size \in Nat
      /\ Page \in Nat \ {0}
  BY Sizes DEF TTypeInv, Tcbs, Blocks
<1>2. -mc.dyn_size <= o /\ o < mc.load_size
  BY DEF Has
<1>3. Opened(t) = (IF me.load_size < mc.load_size THEN Pages(low, mc.load_size - low) ELSE {})
            \cup (IF me.dyn_size < mc.dyn_size THEN Pages(-high, high - me.dyn_size) ELSE {})
  BY DEF Opened
<1>4. low \in Int /\ low <= me.load_size /\ high \in Int /\ mc.dyn_size <= high
  <2> HIDE DEF me, mc
  <2>1. low \in Int /\ low <= me.load_size
    BY <1>1, Rounding
  <2>2. high \in Int /\ mc.dyn_size <= high
    BY <1>1, Rounding
  <2> QED BY <2>1, <2>2
<1>5. low + (mc.load_size - low) = mc.load_size /\ -high + (high - me.dyn_size) = -me.dyn_size
  BY <1>1, <1>4
<1> HIDE DEF low, high, me, mc
<1>6. CASE me.load_size <= o
  <2>1. RoundDown(low, Page) \in Int /\ RoundDown(low, Page) <= low
    BY <1>1, <1>4, Rounding
  <2>2. RoundUp(mc.load_size, Page) \in Int /\ mc.load_size <= RoundUp(mc.load_size, Page)
    BY <1>1, Rounding
  <2>3. RoundDown(low, Page) <= o /\ o < RoundUp(mc.load_size, Page) /\ me.load_size < mc.load_size
    BY <1>1, <1>2, <1>4, <1>6, <2>1, <2>2
  <2>4. o \in Pages(low, mc.load_size - low)
    BY <1>5, <2>1, <2>2, <2>3 DEF Pages
  <2> QED BY <1>3, <2>3, <2>4
<1>7. CASE o < -me.dyn_size
  <2>1. -high \in Int /\ -me.dyn_size \in Int
    BY <1>1, <1>4
  <2>2. /\ RoundDown(-high, Page) <= -high /\ -me.dyn_size <= RoundUp(-me.dyn_size, Page)
        /\ RoundDown(-high, Page) \in Int /\ RoundUp(-me.dyn_size, Page) \in Int
    BY <1>1, <2>1, Rounding
  <2>3. RoundDown(-high, Page) <= o /\ o < RoundUp(-me.dyn_size, Page) /\ me.dyn_size < mc.dyn_size
    BY <1>1, <1>2, <1>4, <1>7, <2>2
  <2>4. o \in Pages(-high, high - me.dyn_size)
    BY <1>5, <2>2, <2>3 DEF Pages
  <2> QED BY <1>3, <2>3, <2>4
<1> QED BY <1>1, <1>6, <1>7 DEF Has, me
=============================================================================
