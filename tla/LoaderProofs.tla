---------------------------- MODULE LoaderProofs ----------------------------
(***************************************************************************)
(* The invariants of the loader, for any threads and any modules, and the  *)
(* steps of three of their parts: the types, the loads kept apart, and the *)
(* layout of the thread-local storage.  RegistryProofs has the numbers,    *)
(* start-up and the lock, TlsProofs the blocks and the data.               *)
(***************************************************************************)
EXTENDS Loader, TLAPS

Loading == {"load", "map", "alloc_tls", "load_tls", "unlock"}
PlacesOf == Loading \cup {"off", "idle", "update", "updating", "address", "init", "store",
                          "info", "enter"}

LTypeInv == /\ pc \in [Threads -> PlacesOf]
            /\ then \in [Threads -> {"idle", "init", "enter", "address"}]
            /\ job \in [Threads -> Modules]
            /\ number \in [Threads -> Nat]
            /\ syscalls \in [Numbers -> Modules \cup {Unregistered}]
            /\ registry \in [Numbers -> Modules \cup {Unregistered}]
            /\ next_dyn \in Nat /\ next_dyn >= FirstDyn
            /\ boot \in 0 .. (Len(Default) + 1)
            /\ asked \subseteq Modules /\ loaded \subseteq asked

\* What a thread's place says of its other locals.
Loads(t) == then[t] \in {"init", "enter"}
PlaceInv == \A t \in Threads :
    /\ pc[t] \in Loading => Loads(t)
    /\ pc[t] \in {"init", "store", "info"} => then[t] = "init"
    /\ pc[t] = "enter" => then[t] = "enter"
    /\ pc[t] = "address" => then[t] = "address"
    /\ pc[t] \in {"off", "idle"} => then[t] = "idle"

\* A module is loaded once, by one thread.
JobInv == \A t \in Threads :
    /\ Loads(t) => /\ job[t] \in asked
                   /\ \A u \in Threads : Loads(u) /\ job[u] = job[t] => u = t
                   /\ then[t] = "enter" <=> job[t] = Exec
                   /\ job[t] \in loaded <=> pc[t] \notin Loading
    /\ then[t] = "address" => job[t] \in loaded /\ Size[job[t]] > 0

\* Who has a number: the subsystem it belongs to, and before it is stored the
\* thread that registers that subsystem.
Owns(n, m) == IF Number[m] = Dynamic THEN n >= FirstDyn /\ n < next_dyn ELSE n = Number[m]
Registering(t) == pc[t] \in {"store", "info"}
NumberInv ==
    /\ \A t \in Threads : Registering(t) =>
          /\ Owns(number[t], job[t])
          /\ \A u \in Threads : Registering(u) /\ number[u] = number[t] => u = t
          /\ pc[t] = "store" => number[t] \notin Numbers \/ syscalls[number[t]] = Unregistered
          /\ pc[t] = "info" => number[t] \in Numbers /\ syscalls[number[t]] = job[t]
    /\ \A n \in Numbers : syscalls[n] # Unregistered =>
          /\ Owns(n, syscalls[n])
          /\ syscalls[n] \in asked
          /\ \A t \in Threads : Loads(t) /\ job[t] = syscalls[n] => pc[t] = "info"

\* Start-up is main's alone, and boot counts the subsystems that are ready.
BootInv ==
    /\ ~Booted => \A t \in Threads \ {Main} : pc[t] = "off"
    /\ ~Booted /\ then[Main] = "init" => boot < Len(Default) /\ job[Main] = Default[boot + 1]
    /\ then[Main] = "enter" => boot = Len(Default)
    /\ \A t \in Threads \ {Main} : then[t] # "enter"
    /\ Exec \in asked => boot >= Len(Default)
    /\ \A i \in 1 .. Len(Default) : i <= boot => \E n \in Listed : registry[n] = Default[i]

LoaderInv == LTypeInv /\ PlaceInv /\ JobInv /\ NumberInv /\ ListedIsCallable /\ BootInv
-----------------------------------------------------------------------------
\* Changing a function at one place keeps its type.
LEMMA ExceptType ==
    ASSUME NEW S, NEW T, NEW f \in [S -> T], NEW x, NEW y \in T
    PROVE  [f EXCEPT ![x] = y] \in [S -> T]
BY Zenon

\* Each step keeps the types.
LEMMA LTypeStep ==
    ASSUME LTypeInv, PlaceInv, JobInv, BootInv, [Next]_vars PROVE LTypeInv'
<1>a. Len(Default) \in Nat /\ Exec \in Modules /\ Main \in Threads
  BY NumbersAssumption, LoaderAssumption, TlsAssumption
<1> USE <1>a DEF LTypeInv, PlacesOf, Loading, At, Goto, tvars, rvars
<1>1. ASSUME NEW t \in Threads, NEW m \in Modules, LoadSubsystem(t, m) PROVE LTypeInv'
  BY <1>1 DEF LoadSubsystem, Begin
<1>2. ASSUME NEW t \in Threads, NEW m \in Modules, TlsGetAddr(t, m) PROVE LTypeInv'
  BY <1>2 DEF TlsGetAddr
<1>3. ASSUME NEW t \in Threads, LockWrite(t) PROVE LTypeInv'
  BY <1>3 DEF LockWrite
<1>4. ASSUME NEW t \in Threads, Map(t) PROVE LTypeInv'
  <2>1. \E p \in PlacesOf : pc' = [pc EXCEPT ![t] = p]
    BY <1>4 DEF Map, Crash
  <2>2. UNCHANGED <<then, job, number, syscalls, registry, next_dyn, boot, asked, loaded>>
    BY <1>4 DEF Map, Crash
  <2> QED BY <2>1, <2>2
<1>5. ASSUME NEW t \in Threads, AllocTls(t) PROVE LTypeInv'
  BY <1>5 DEF AllocTls, Crash
<1>6. ASSUME NEW t \in Threads, LoadTls(t) PROVE LTypeInv'
  BY <1>6 DEF LoadTls
<1>7. ASSUME NEW t \in Threads, UnlockWrite(t) PROVE LTypeInv'
  <2>1. job[t] \in asked
    BY <1>7 DEF UnlockWrite, PlaceInv, JobInv
  <2> QED BY <1>7, <2>1 DEF UnlockWrite
<1>8. ASSUME NEW t \in Threads, LockRead(t) PROVE LTypeInv'
  BY <1>8 DEF LockRead
<1>9. ASSUME NEW t \in Threads, Update(t) PROVE LTypeInv'
  BY <1>9 DEF Update, Crash
<1>10. ASSUME NEW t \in Threads, StartThread(t) PROVE LTypeInv'
  BY <1>10 DEF StartThread
<1>11. ASSUME NEW t \in Threads, Access(t) PROVE LTypeInv'
  BY <1>11 DEF Access, Return
<1>12. ASSUME NEW t \in Threads, NumberSubsystem(t) PROVE LTypeInv'
  <2>1. Number[job[t]] \in Nat
    BY LoaderAssumption
  <2>2. CASE Number[job[t]] = Dynamic
    <3>1. /\ next_dyn' = next_dyn + 1 /\ number' = [number EXCEPT ![t] = next_dyn]
          /\ pc' = [pc EXCEPT ![t] = "store"]
          /\ UNCHANGED <<then, job, syscalls, registry, boot, asked, loaded>>
      BY <1>12, <2>2 DEF NumberSubsystem, TakeNumber
    <3>2. next_dyn' \in Nat /\ next_dyn' >= FirstDyn
      BY <3>1, RegistryAssumption
    <3> QED BY <3>1, <3>2
  <2>3. CASE Number[job[t]] # Dynamic
    <3>1. /\ number' = [number EXCEPT ![t] = Number[job[t]]] /\ pc' = [pc EXCEPT ![t] = "store"]
          /\ UNCHANGED <<then, job, syscalls, registry, next_dyn, boot, asked, loaded>>
      BY <1>12, <2>3 DEF NumberSubsystem
    <3> QED BY <2>1, <3>1
  <2> QED BY <2>2, <2>3
<1>13. ASSUME NEW t \in Threads, Register(t) PROVE LTypeInv'
  <2>1. \E p \in PlacesOf : pc' = [pc EXCEPT ![t] = p]
    BY <1>13 DEF Register, Crash
  <2>2. syscalls' \in [Numbers -> Modules \cup {Unregistered}]
    <3>1. syscalls' = syscalls \/ syscalls' = [syscalls EXCEPT ![number[t]] = job[t]]
      BY <1>13 DEF Register, Crash, StoreSyscalls
    <3>2. syscalls \in [Numbers -> Modules \cup {Unregistered}] /\ job[t] \in Modules
      OBVIOUS
    <3> HIDE DEF LTypeInv
    <3> QED BY <3>1, <3>2, ExceptType, Zenon
  <2>3. UNCHANGED <<then, job, number, registry, next_dyn, boot, asked, loaded>>
    BY <1>13 DEF Register, Crash, StoreSyscalls
  <2> QED BY <2>1, <2>2, <2>3
<1>14. ASSUME NEW t \in Threads, Announce(t) PROVE LTypeInv'
  <2>1. boot' \in 0 .. (Len(Default) + 1)
    BY <1>14 DEF Announce, Booted
  <2>2. registry' \in [Numbers -> Modules \cup {Unregistered}]
    <3>1. registry' = [registry EXCEPT ![number[t]] = job[t]]
      BY <1>14 DEF Announce, StoreInfo
    <3>2. registry \in [Numbers -> Modules \cup {Unregistered}] /\ job[t] \in Modules
      OBVIOUS
    <3> HIDE DEF LTypeInv
    <3> QED BY <3>1, <3>2, ExceptType, Zenon
  <2> QED BY <1>14, <2>1, <2>2 DEF Announce, StoreInfo, Return
<1>15. CASE LoadBinary
  BY <1>15 DEF LoadBinary, Begin
<1>16. CASE Enter
  <2>1. boot = Len(Default) /\ boot' = boot + 1
    BY <1>16 DEF Enter, PlaceInv, BootInv
  <2> QED BY <1>16, <2>1 DEF Enter, Return
<1>17. CASE UNCHANGED vars
  BY <1>17 DEF vars, lvars
<1> HIDE DEF LTypeInv
<1> QED
  BY <1>1, <1>2, <1>3, <1>4, <1>5, <1>6, <1>7, <1>8, <1>9, <1>10, <1>11, <1>12, <1>13,
     <1>14, <1>15, <1>16, <1>17 DEF Next

\* Each step keeps what a thread's place says, and the loads apart.
LEMMA JobStep == ASSUME LTypeInv, PlaceInv, JobInv, [Next]_vars PROVE PlaceInv' /\ JobInv'
<1> USE LoaderAssumption
    DEF LTypeInv, PlacesOf, PlaceInv, JobInv, Loading, Loads, At, Goto
<1>1. ASSUME NEW t \in Threads, NEW m \in Modules, LoadSubsystem(t, m)
      PROVE  PlaceInv' /\ JobInv'
  BY <1>1 DEF LoadSubsystem, Begin
<1>2. ASSUME NEW t \in Threads, NEW m \in Modules, TlsGetAddr(t, m)
      PROVE  PlaceInv' /\ JobInv'
  BY <1>2 DEF TlsGetAddr
<1>3. ASSUME NEW t \in Threads, LockWrite(t) PROVE PlaceInv' /\ JobInv'
  BY <1>3 DEF LockWrite
<1>4. ASSUME NEW t \in Threads, Map(t) PROVE PlaceInv' /\ JobInv'
  BY <1>4 DEF Map, Crash
<1>5. ASSUME NEW t \in Threads, AllocTls(t) PROVE PlaceInv' /\ JobInv'
  BY <1>5 DEF AllocTls, Crash
<1>6. ASSUME NEW t \in Threads, LoadTls(t) PROVE PlaceInv' /\ JobInv'
  BY <1>6 DEF LoadTls
<1>7. ASSUME NEW t \in Threads, UnlockWrite(t) PROVE PlaceInv' /\ JobInv'
  BY <1>7 DEF UnlockWrite
<1>8. ASSUME NEW t \in Threads, LockRead(t) PROVE PlaceInv' /\ JobInv'
  BY <1>8 DEF LockRead
<1>9. ASSUME NEW t \in Threads, Update(t) PROVE PlaceInv' /\ JobInv'
  <2>1. /\ pc[t] = "updating" /\ UNCHANGED <<then, job, asked, loaded>>
        /\ pc' = pc \/ pc' = [pc EXCEPT ![t] = then[t]]
    BY <1>9 DEF Update, Crash
  <2>2. CASE pc' = pc
    BY <2>1, <2>2
  <2>3. CASE pc' = [pc EXCEPT ![t] = then[t]]
    <3>1. /\ pc'[t] = then[t] /\ then[t] \in {"idle", "init", "enter", "address"}
          /\ \A u \in Threads \ {t} : pc'[u] = pc[u]
      BY <2>3
    <3> QED BY <2>1, <3>1
  <2> QED BY <2>1, <2>2, <2>3
<1>10. ASSUME NEW t \in Threads, StartThread(t) PROVE PlaceInv' /\ JobInv'
  BY <1>10 DEF StartThread
<1>11. ASSUME NEW t \in Threads, Access(t) PROVE PlaceInv' /\ JobInv'
  BY <1>11 DEF Access, Return
<1>12. ASSUME NEW t \in Threads, NumberSubsystem(t) PROVE PlaceInv' /\ JobInv'
  BY <1>12 DEF NumberSubsystem, TakeNumber
<1>13. ASSUME NEW t \in Threads, Register(t) PROVE PlaceInv' /\ JobInv'
  BY <1>13 DEF Register, Crash, StoreSyscalls, OutOfNumbers
<1>14. ASSUME NEW t \in Threads, Announce(t) PROVE PlaceInv' /\ JobInv'
  BY <1>14 DEF Announce, StoreInfo, Return
<1>15. CASE LoadBinary
  BY <1>15 DEF LoadBinary, Begin
<1>16. CASE Enter
  BY <1>16 DEF Enter, Return
<1>17. CASE UNCHANGED vars
  BY <1>17 DEF vars, lvars, tvars, rvars
<1> HIDE DEF LTypeInv, PlaceInv, JobInv
<1> QED
  BY <1>1, <1>2, <1>3, <1>4, <1>5, <1>6, <1>7, <1>8, <1>9, <1>10, <1>11, <1>12, <1>13,
     <1>14, <1>15, <1>16, <1>17 DEF Next
-----------------------------------------------------------------------------
\* A step changes the locals of one thread.
Others(t) == \A u \in Threads \ {t} : /\ pc'[u] = pc[u] /\ then'[u] = then[u]
                                      /\ job'[u] = job[u] /\ number'[u] = number[u]

\* The kinds of steps that the numbers and start-up tell apart.
Nothing == UNCHANGED <<pc, then, job, number, syscalls, registry, next_dyn, boot, asked, loaded>>
Begins(t, m) ==
    /\ Others(t) /\ UNCHANGED <<syscalls, registry, next_dyn, boot, loaded>>
    /\ pc[t] = "idle" /\ pc'[t] \in {"load", "map"} /\ job'[t] = m
    /\ m \notin asked /\ asked' = asked \cup {m}
    /\ then'[t] = IF m = Exec THEN "enter" ELSE "init"
    /\ \/ t = Main /\ boot < Len(Default) /\ m = Default[boot + 1]
       \/ Booted /\ m # Exec
       \/ t = Main /\ boot = Len(Default) /\ m = Exec
Advances(t) ==
    /\ Others(t) /\ UNCHANGED <<syscalls, registry, next_dyn, boot, asked>>
    /\ loaded \subseteq loaded'
    /\ pc[t] # "off" \/ Booted
    /\ pc[t] # "info" /\ pc'[t] \notin {"store", "info"}
    /\ then'[t] \in {"init", "enter"} => then'[t] = then[t] /\ job'[t] = job[t]

\* Every step is of one of the kinds, or one of register_subsys, or Enter.
LEMMA Kinds ==
    ASSUME LTypeInv, PlaceInv, [Next]_vars
    PROVE  \/ Nothing
           \/ \E t \in Threads : Advances(t) \/ \E m \in Modules : Begins(t, m)
           \/ \E t \in Threads : NumberSubsystem(t) \/ Announce(t)
                                 \/ (Register(t) /\ fate' = "running")
           \/ Enter
<1> USE DEF LTypeInv, PlacesOf, Loading, At, Goto, tvars, rvars, Others
<1>1. ASSUME NEW t \in Threads, NEW m \in Modules, LoadSubsystem(t, m) PROVE Begins(t, m)
  BY <1>1 DEF LoadSubsystem, Begin, Begins
<1>2. ASSUME LoadBinary PROVE Begins(Main, Exec)
  BY <1>2, LoaderAssumption DEF LoadBinary, Begin, Begins
<1>3. ASSUME NEW t \in Threads, NEW m \in Modules, TlsGetAddr(t, m) PROVE Advances(t)
  BY <1>3 DEF TlsGetAddr, Advances
<1>4. ASSUME NEW t \in Threads, LockWrite(t) PROVE Advances(t)
  BY <1>4 DEF LockWrite, Advances
<1>5. ASSUME NEW t \in Threads, Map(t) PROVE Advances(t) \/ Nothing
  BY <1>5 DEF Map, Crash, Advances, Nothing
<1>6. ASSUME NEW t \in Threads, AllocTls(t) PROVE Advances(t) \/ Nothing
  BY <1>6 DEF AllocTls, Crash, Advances, Nothing
<1>7. ASSUME NEW t \in Threads, LoadTls(t) PROVE Advances(t)
  BY <1>7 DEF LoadTls, Advances
<1>8. ASSUME NEW t \in Threads, UnlockWrite(t) PROVE Advances(t)
  BY <1>8 DEF UnlockWrite, Advances
<1>9. ASSUME NEW t \in Threads, LockRead(t) PROVE Advances(t)
  BY <1>9 DEF LockRead, Advances
<1>10. ASSUME NEW t \in Threads, Update(t) PROVE Advances(t) \/ Nothing
  <2>1. /\ pc[t] = "updating"
        /\ UNCHANGED <<then, job, number, syscalls, registry, next_dyn, boot, asked, loaded>>
        /\ pc' = pc \/ pc' = [pc EXCEPT ![t] = then[t]]
    BY <1>10 DEF Update, Crash
  <2> QED BY <2>1 DEF Advances, Nothing
<1>11. ASSUME NEW t \in Threads, StartThread(t) PROVE Advances(t)
  BY <1>11 DEF StartThread, Advances, PlaceInv
<1>12. ASSUME NEW t \in Threads, Access(t) PROVE Advances(t)
  BY <1>12 DEF Access, Return, Advances
<1>13. ASSUME NEW t \in Threads, Register(t), fate' # "running" PROVE Nothing
  BY <1>13 DEF Register, Crash, Nothing
<1>14. CASE UNCHANGED vars
  BY <1>14 DEF vars, lvars, Nothing
<1> HIDE DEF LTypeInv
<1> QED
  BY <1>1, <1>2, <1>3, <1>4, <1>5, <1>6, <1>7, <1>8, <1>9, <1>10, <1>11, <1>12, <1>13,
     <1>14, LoaderAssumption, TlsAssumption DEF Next
-----------------------------------------------------------------------------
(* Thread-local storage.                                                   *)

\* alloc_tls does not ask whether the executable's segment fits; here it does.
ExecFits == RoundUp(Size[Exec], Align[Exec]) <= Half

Tcbs == [load_size : Nat, dyn_size : Nat, version : Nat]
TTypeInv == /\ tcb \in [Blocks -> Tcbs]
            /\ tls_off \in Nat
            /\ offset \in [Modules -> Int]
            /\ data \in [Blocks -> [Offsets -> Modules \cup {"zero", "own"}]]
            /\ rw \in [Blocks -> SUBSET Int]
            /\ lock \in [readers : SUBSET Threads, writers : SUBSET Threads]

\* A module has its storage from alloc_tls on; until it is loaded its thread
\* holds it.
Holds(t) == pc[t] \in {"load_tls", "unlock"} /\ Size[job[t]] > 0
Placed(m) == Size[m] > 0 /\ (m \in loaded \/ \E t \in Threads : Holds(t) /\ job[t] = m)

\* Where a module's storage is, and what of it a block has.
In(m, o) == offset[m] <= o /\ o < offset[m] + Size[m]
Has(b, o) == -tcb[b].dyn_size <= o /\ o < tcb[b].load_size

\* The storage is laid out without gaps of its own accord: the control block, then
\* the libraries in the order of loading, and the executable alone below.
LayoutInv ==
    /\ tls_off = tcb[Master].load_size /\ TcbSize <= tls_off /\ tls_off <= Half
    /\ tcb[Master].dyn_size = IF Placed(Exec) THEN RoundUp(Size[Exec], Align[Exec]) ELSE 0
    /\ Placed(Exec) => offset[Exec] = -RoundUp(Size[Exec], Align[Exec])
    /\ \A m \in Modules \ {Exec} : Placed(m) =>
          /\ TcbSize <= offset[m] /\ offset[m] + Size[m] <= tls_off
          /\ offset[m] % Align[m] = 0
          /\ \A k \in Modules \ {Exec, m} : Placed(k) =>
                offset[m] + Size[m] <= offset[k] \/ offset[k] + Size[k] <= offset[m]

\* The lock is held where the code says so; main loads the binary without it.
Works(t) == pc[t] \in {"map", "alloc_tls", "load_tls", "unlock"}
LockInv == \A t \in Threads :
    /\ pc[t] \in {"alloc_tls", "load_tls"} => Size[job[t]] > 0
    /\ Works(t) /\ job[t] # Exec => lock.writers = {t} /\ lock.readers = {}
    /\ pc[t] = "updating" => lock.writers = {} /\ t \in lock.readers

\* A block lags behind the master, is the same at the same version, and can be
\* accessed as far as its control block says.
BlockInv ==
    /\ tcb[Master].version = 0 => tcb[Master] = NewTcb
    /\ \A t \in Threads :
          /\ tcb[t].version <= tcb[Master].version
          /\ tcb[t].version = tcb[Master].version => tcb[t] = tcb[Master]
          /\ TcbSize <= tcb[t].load_size /\ tcb[t].load_size <= tcb[Master].load_size
          /\ tcb[t].dyn_size <= tcb[Master].dyn_size
          /\ \A o \in Int : Has(t, o) => o \in rw[t]

\* The master holds the template of every loaded module, and a thread's block the
\* template or the thread's data; no thread has storage that is still being loaded.
Template(m) == \A o \in Int : In(m, o) =>
    data[Master][o] = m /\ \A t \in Threads : Has(t, o) => data[t][o] \in {m, "own"}
Pending(t) == \A o \in Int : In(job[t], o) =>
    (pc[t] = "unlock" => data[Master][o] = job[t]) /\ \A u \in Threads : ~Has(u, o)
DataInv ==
    /\ \A m \in loaded : Size[m] > 0 => Template(m)
    /\ \A t \in Threads : Holds(t) => Pending(t)
    /\ \A t \in Threads : pc[t] = "address" => \A o \in Int : In(job[t], o) => Has(t, o)
    /\ \A t \in Threads, o \in Offsets : data[t][o] = "own" => pc[t] # "off" /\ Has(t, o)

TlsInv == TTypeInv /\ LayoutInv /\ LockInv /\ BlockInv /\ DataInv
-----------------------------------------------------------------------------
LEMMA Sizes == /\ Exec \in Modules /\ Main \in Threads /\ Master \notin Threads
               /\ Size \in [Modules -> Nat] /\ Align \in [Modules -> Nat \ {0}]
               /\ Page \in Nat \ {0} /\ TcbSize \in Nat \ {0} /\ Half \in Nat /\ TcbSize <= Half
BY TlsAssumption, LoaderAssumption

\* Rounding goes to the next multiple.
LEMMA Rounding ==
    ASSUME NEW v \in Int, NEW a \in Nat \ {0}
    PROVE  /\ RoundUp(v, a) \in Int /\ v <= RoundUp(v, a)
           /\ RoundDown(v, a) \in Int /\ RoundDown(v, a) <= v
BY DEF RoundUp, RoundDown

\* It leaves multiples alone, negative ones included.
LEMMA Multiples ==
    ASSUME NEW v \in Int, NEW a \in Nat \ {0}
    PROVE  /\ RoundUp(v, a) % a = 0 /\ (-RoundUp(v, a)) % a = 0
           /\ RoundUp(-RoundUp(v, a), a) = -RoundUp(v, a)
<1>1. PICK q \in Int : RoundUp(v, a) = q * a
  BY DEF RoundUp
<1>2. (q * a) % a = 0 /\ -(q * a) = (-q) * a /\ ((-q) * a) % a = 0
  OBVIOUS
<1>3. ((-q) * a + a - 1) \div a = -q
  OBVIOUS
<1>4. RoundUp((-q) * a, a) = (-q) * a
  BY <1>3 DEF RoundUp
<1> QED BY <1>1, <1>2, <1>4

LEMMA Beyond ==
    ASSUME NEW x \in Nat, NEW y \in Int, NEW n \in Nat PROVE x + n + (y - x) = y + n
OBVIOUS

LEMMA ExecSize == /\ RoundUp(Size[Exec], Align[Exec]) \in Nat
                  /\ Size[Exec] <= RoundUp(Size[Exec], Align[Exec])
                  /\ (-RoundUp(Size[Exec], Align[Exec])) % Align[Exec] = 0
<1>1. Size[Exec] \in Int /\ Align[Exec] \in Nat \ {0}
  BY Sizes
<1>2. /\ RoundUp(Size[Exec], Align[Exec]) \in Int /\ Size[Exec] <= RoundUp(Size[Exec], Align[Exec])
      /\ (-RoundUp(Size[Exec], Align[Exec])) % Align[Exec] = 0
  BY <1>1, Rounding, Multiples, Zenon
<1> QED BY <1>2, Sizes

\* A step that leaves the blocks alone, and the storage with who has it.
Still == UNCHANGED <<tvars, loaded, pc, job>>
Quiet(t) == /\ Others(t) /\ UNCHANGED <<tvars, loaded>>
            /\ ~Holds(t) /\ ~Holds(t)' /\ pc'[t] # "off"
            /\ pc'[t] = "address" =>
                  pc[t] = "idle" /\ UpToDate(t) /\ job'[t] \in loaded /\ Size[job'[t]] > 0

\* Every step is one of these, or one of the six that change the blocks.
LEMMA TlsKinds ==
    ASSUME LTypeInv, PlaceInv, [Next]_vars
    PROVE  \/ Still
           \/ \E t \in Threads :
                 \/ Quiet(t) \/ (AllocTls(t) /\ fate' = "running") \/ LoadTls(t)
                 \/ UnlockWrite(t) \/ (Update(t) /\ fate' = "running") \/ StartThread(t)
                 \/ Access(t)
<1> USE DEF LTypeInv, PlacesOf, Loading, At, Goto, Others, Quiet, Holds
<1>1. ASSUME NEW t \in Threads, NEW m \in Modules, LoadSubsystem(t, m) PROVE Quiet(t)
  BY <1>1 DEF LoadSubsystem, Begin
<1>2. ASSUME LoadBinary PROVE Quiet(Main)
  BY <1>2, LoaderAssumption DEF LoadBinary, Begin
<1>3. ASSUME NEW t \in Threads, NEW m \in Modules, TlsGetAddr(t, m) PROVE Quiet(t)
  BY <1>3 DEF TlsGetAddr
<1>4. ASSUME NEW t \in Threads, LockWrite(t) PROVE Quiet(t)
  BY <1>4 DEF LockWrite
<1>5. ASSUME NEW t \in Threads, Map(t) PROVE Quiet(t) \/ Still
  BY <1>5 DEF Map, Crash, Still
<1>6. ASSUME NEW t \in Threads, AllocTls(t) \/ Update(t) PROVE Still \/ fate' = "running"
  BY <1>6 DEF AllocTls, Update, Crash, Still
<1>7. ASSUME NEW t \in Threads, LockRead(t) PROVE Quiet(t)
  BY <1>7 DEF LockRead
<1>8. ASSUME NEW t \in Threads, NumberSubsystem(t) PROVE Quiet(t)
  BY <1>8 DEF NumberSubsystem
<1>9. ASSUME NEW t \in Threads, Register(t) PROVE Quiet(t) \/ Still
  BY <1>9 DEF Register, Crash, Still
<1>10. ASSUME NEW t \in Threads, Announce(t) PROVE Quiet(t)
  BY <1>10 DEF Announce, Return
<1>11. ASSUME Enter PROVE Quiet(Main)
  BY <1>11, LoaderAssumption DEF Enter, Return
<1>12. CASE UNCHANGED vars
  BY <1>12 DEF vars, lvars, Still
<1> HIDE DEF LTypeInv, Quiet
<1> QED
  BY <1>1, <1>2, <1>3, <1>4, <1>5, <1>6, <1>7, <1>8, <1>9, <1>10, <1>11, <1>12, Sizes DEF Next
-----------------------------------------------------------------------------
\* Only alloc_tls changes the layout.
Laid == /\ tcb'[Master] = tcb[Master] /\ UNCHANGED <<tls_off, offset>>
        /\ \A m \in Modules : Placed(m)' <=> Placed(m)

LEMMA LayoutKept ==
    ASSUME LTypeInv, TTypeInv, [Next]_vars,
           ~\E t \in Threads : AllocTls(t) /\ fate' = "running", PlaceInv
    PROVE  Laid
<1> USE Sizes DEF LTypeInv, TTypeInv, Blocks, At, Goto
<1>1. CASE Still
  BY <1>1 DEF Still, tvars, Laid, Placed, Holds
<1>2. ASSUME NEW t \in Threads, Quiet(t) PROVE Laid
  BY <1>2, Zenon DEF Quiet, tvars, Others, Laid, Placed, Holds
<1>3. ASSUME NEW t \in Threads, LoadTls(t) PROVE Laid
  BY <1>3 DEF LoadTls, load_tls, Laid, Placed, Holds
<1>4. ASSUME NEW t \in Threads, UnlockWrite(t) PROVE Laid
  <2>1. /\ pc[t] = "unlock" /\ pc' = [pc EXCEPT ![t] = "update"] /\ UNCHANGED <<tvars, job>>
        /\ loaded' = loaded \cup {job[t]}
    BY <1>4 DEF UnlockWrite
  <2> QED BY <2>1 DEF tvars, Laid, Placed, Holds
<1>5. ASSUME NEW t \in Threads, Update(t), fate' = "running" PROVE Laid
  <2>1. /\ pc[t] = "updating" /\ pc' = [pc EXCEPT ![t] = then[t]]
        /\ UNCHANGED <<job, loaded, tls_off, offset>> /\ tcb'[Master] = tcb[Master]
    BY <1>5 DEF Update, Crash, update_tls
  <2>2. then[t] \notin {"load_tls", "unlock"}
    OBVIOUS
  <2> QED BY <2>1, <2>2 DEF Laid, Placed, Holds
<1>6. ASSUME NEW t \in Threads, StartThread(t) PROVE Laid
  BY <1>6 DEF StartThread, set_tp, Laid, Placed, Holds
<1>7. ASSUME NEW t \in Threads, Access(t) PROVE Laid
  BY <1>7 DEF Access, Return, Laid, Placed, Holds
<1> HIDE DEF LTypeInv, TTypeInv
<1> QED BY <1>1, <1>2, <1>3, <1>4, <1>5, <1>6, <1>7, TlsKinds

\* What alloc_tls does, with the rounding done.
Extends(m) ==
    /\ \A k \in Modules \ {m} : offset'[k] = offset[k]
    /\ tcb'[Master].version = tcb[Master].version + 1 /\ offset'[m] \in Int
    /\ m # Exec => /\ tls_off <= offset'[m] /\ offset'[m] % Align[m] = 0
                   /\ tls_off' = offset'[m] + Size[m] /\ tls_off' <= Half
                   /\ tcb'[Master].load_size = tls_off'
                   /\ tcb'[Master].dyn_size = tcb[Master].dyn_size
    /\ m = Exec => /\ offset'[m] = -RoundUp(Size[m], Align[m]) /\ tls_off' = tls_off
                   /\ tcb'[Master].load_size = tcb[Master].load_size
                   /\ tcb'[Master].dyn_size = RoundUp(Size[m], Align[m])
Allocates(t, m) ==
    /\ pc[t] = "alloc_tls" /\ pc' = [pc EXCEPT ![t] = "load_tls"]
    /\ m \in Modules /\ m = job[t] /\ ~Placed(m) /\ Size[m] > 0
    /\ UNCHANGED <<job, loaded, data>>
    /\ \A k \in Modules : Placed(k)' <=> (Placed(k) \/ k = m)
    /\ \A u \in Threads : tcb'[u] = tcb[u] /\ rw'[u] = rw[u]
    /\ Extends(m)

LEMMA AllocEffect ==
    ASSUME LTypeInv, PlaceInv, JobInv, TTypeInv, LayoutInv, LockInv, NEW t \in Threads,
           AllocTls(t), fate' = "running"
    PROVE  Allocates(t, job[t])
<1> DEFINE m == job[t]
<1>1. /\ pc[t] = "alloc_tls" /\ pc' = [pc EXCEPT ![t] = "load_tls"]
      /\ alloc_tls(m) /\ UNCHANGED <<job, loaded>> /\ m \in Modules
  BY DEF AllocTls, Crash, At, Goto, LTypeInv
<1>2. /\ Size[m] > 0 /\ Size[m] \in Nat /\ Align[m] \in Nat \ {0} /\ tls_off \in Nat
      /\ Size[m] \in Int /\ tls_off \in Int
  BY <1>1, Sizes DEF LockInv, TTypeInv
<1>3. ~Placed(m)
  BY <1>1 DEF Placed, Holds, PlaceInv, JobInv, Loading, Loads
<1>4. \A k \in Modules : Placed(k)' <=> (Placed(k) \/ k = m)
  BY <1>1, <1>2 DEF Placed, Holds, LTypeInv
<1> HIDE DEF m
<1>5. /\ UNCHANGED data /\ \A k \in Modules \ {m} : offset'[k] = offset[k]
      /\ \A u \in Threads : tcb'[u] = tcb[u] /\ rw'[u] = rw[u]
      /\ offset'[m] = RoundUp(Val(m), Align[m]) /\ tcb'[Master] = Grow(m)
      /\ tls_off' = IF m = Exec THEN tls_off ELSE Next_off(m)
      /\ ~NoRoom(m)
  BY <1>1, Sizes DEF alloc_tls, TTypeInv, Blocks
<1>6. tcb[Master] \in Tcbs
  BY DEF TTypeInv, Blocks
<1>7. CASE m # Exec
  <2>1. Val(m) = tls_off /\ offset'[m] = RoundUp(tls_off, Align[m])
    BY <1>5, <1>7, Zenon DEF Val
  <2>2. /\ RoundUp(tls_off, Align[m]) \in Int /\ tls_off <= RoundUp(tls_off, Align[m])
        /\ RoundUp(tls_off, Align[m]) % Align[m] = 0
    BY <1>2, Rounding, Multiples, Zenon
  <2>3. tls_off <= offset'[m] /\ offset'[m] % Align[m] = 0 /\ offset'[m] \in Int
    BY <2>1, <2>2
  <2>4. tls_off' = offset'[m] + Size[m] /\ tls_off' <= Half
    <3>1. tls_off' = offset'[m] + Size[m] /\ ~(tls_off' > Half)
      BY <1>5, <1>7, <2>1, Zenon DEF Next_off, NoRoom
    <3> QED BY <1>2, <2>3, <3>1, Sizes
  <2>5. /\ tcb'[Master].load_size = tcb[Master].load_size + Size[m] + (offset'[m] - tls_off)
        /\ tcb'[Master].dyn_size = tcb[Master].dyn_size
        /\ tcb'[Master].version = tcb[Master].version + 1
    BY <1>5, <1>6, <1>7, <2>1, <2>3 DEF Grow, Tcbs
  <2>6. tcb'[Master].load_size = tls_off'
    <3>1. tls_off = tcb[Master].load_size
      BY Zenon DEF LayoutInv
    <3> QED BY <1>2, <2>3, <2>4, <2>5, <3>1, Beyond, Zenon
  <2> QED BY <1>1, <1>2, <1>3, <1>4, <1>5, <1>7, <2>3, <2>4, <2>5, <2>6 DEF Allocates, Extends, m
<1>8. CASE m = Exec
  <2>1. Val(m) = -RoundUp(Size[m], Align[m])
    BY <1>8 DEF Val
  <2>2. RoundUp(Size[m], Align[m]) \in Int /\ offset'[m] = -RoundUp(Size[m], Align[m])
    BY <1>2, <1>5, <2>1, Rounding, Multiples, Zenon
  <2>3. /\ tcb'[Master].load_size = tcb[Master].load_size
        /\ tcb'[Master].dyn_size = RoundUp(Size[m], Align[m])
        /\ tcb'[Master].version = tcb[Master].version + 1
    <3>1. -Val(m) = RoundUp(Size[m], Align[m])
      BY <2>1, <2>2
    <3> QED BY <1>5, <1>6, <1>8, <3>1 DEF Grow, Tcbs
  <2>4. offset'[m] \in Int
    BY <2>2
  <2> QED BY <1>1, <1>2, <1>3, <1>4, <1>5, <1>8, <2>2, <2>3, <2>4 DEF Allocates, Extends, m
<1> QED BY <1>7, <1>8 DEF m
-----------------------------------------------------------------------------
\* Each step keeps the layout.
LEMMA LayoutStep ==
    ASSUME LTypeInv, PlaceInv, JobInv, TTypeInv, LayoutInv, LockInv, [Next]_vars
    PROVE  LayoutInv'
<1>1. ASSUME Laid PROVE LayoutInv'
  BY <1>1, Sizes DEF Laid, LayoutInv
<1>2. ASSUME NEW t \in Threads, NEW m \in Modules, Allocates(t, m) PROVE LayoutInv'
  <2>1. CASE m = Exec
    <3>1. /\ offset'[Exec] = -RoundUp(Size[Exec], Align[Exec]) /\ UNCHANGED tls_off
          /\ tcb'[Master].load_size = tcb[Master].load_size
          /\ tcb'[Master].dyn_size = RoundUp(Size[Exec], Align[Exec]) /\ Placed(Exec)'
          /\ \A k \in Modules \ {Exec} : offset'[k] = offset[k] /\ (Placed(k)' <=> Placed(k))
      BY <1>2, <2>1 DEF Allocates, Extends
    <3> QED BY <3>1 DEF LayoutInv
  <2>2. CASE m # Exec
    <3>1. /\ tls_off' = offset'[m] + Size[m] /\ tls_off <= offset'[m] /\ offset'[m] % Align[m] = 0
          /\ tls_off' <= Half /\ tls_off' = tcb'[Master].load_size
          /\ tcb'[Master].dyn_size = tcb[Master].dyn_size
          /\ \A k \in Modules \ {m} : offset'[k] = offset[k] /\ (Placed(k)' <=> Placed(k))
          /\ offset'[m] \in Int
      BY <1>2, <2>2 DEF Allocates, Extends
    <3>a. /\ tls_off \in Nat /\ Size \in [Modules -> Nat] /\ offset \in [Modules -> Int]
          /\ TcbSize \in Nat /\ TcbSize <= tls_off /\ Exec \in Modules
      BY Sizes DEF TTypeInv, LayoutInv
    <3>2. TcbSize <= tls_off' /\ TcbSize <= offset'[m] /\ tls_off <= tls_off'
      BY <3>1, <3>a
    <3>3. ASSUME NEW k \in Modules \ {Exec, m}, Placed(k) PROVE offset[k] + Size[k] <= offset'[m]
      <4>1. offset[k] + Size[k] <= tls_off
        BY <3>3 DEF LayoutInv
      <4> QED BY <3>1, <3>a, <4>1
    <3>4. ASSUME NEW k \in Modules \ {Exec}, Placed(k)'
          PROVE  /\ TcbSize <= offset'[k] /\ offset'[k] + Size[k] <= tls_off'
                 /\ offset'[k] % Align[k] = 0
      <4>1. CASE k = m
        BY <3>1, <3>2, <3>a, <4>1
      <4>2. CASE k # m
        <5>1. /\ TcbSize <= offset[k] /\ offset[k] + Size[k] <= tls_off /\ offset[k] % Align[k] = 0
              /\ offset'[k] = offset[k]
          BY <3>1, <3>4, <4>2 DEF LayoutInv
        <5> QED BY <3>1, <3>2, <3>a, <5>1
      <4> QED BY <4>1, <4>2
    <3>5. ASSUME NEW k \in Modules \ {Exec}, Placed(k)', NEW l \in Modules \ {Exec, k}, Placed(l)'
          PROVE  offset'[k] + Size[k] <= offset'[l] \/ offset'[l] + Size[l] <= offset'[k]
      BY <3>1, <3>3, <3>5 DEF LayoutInv
    <3> QED BY <2>2, <3>1, <3>2, <3>4, <3>5, <3>a DEF LayoutInv
  <2> QED BY <2>1, <2>2
<1>3. ASSUME NEW t \in Threads, AllocTls(t), fate' = "running" PROVE LayoutInv'
  BY <1>2, <1>3, AllocEffect DEF Allocates
<1> QED BY <1>1, <1>3, LayoutKept

\* Each step keeps the types.
LEMMA TTypeStep ==
    ASSUME LTypeInv, PlaceInv, JobInv, TTypeInv, LayoutInv, LockInv, [Next]_vars
    PROVE  TTypeInv'
<1>a. ASSUME NEW a, NEW n PROVE Pages(a, n) \subseteq Int
  BY DEF Pages
<1>1. ASSUME NEW t \in Threads, AllocTls(t), fate' = "running" PROVE TTypeInv'
  <2> DEFINE m == job[t]
  <2>1. Allocates(t, m) /\ alloc_tls(m) /\ UNCHANGED lock
    BY <1>1, AllocEffect DEF AllocTls, Crash
  <2> HIDE DEF m
  <2>a. tls_off \in Nat /\ Size[m] \in Nat /\ Extends(m)
    BY <2>1, Sizes DEF Allocates, TTypeInv
  <2>2. tls_off' \in Nat
    BY <2>a, Sizes DEF Extends
  <2>3. Grow(m) \in Tcbs
    <3>1. tcb[Master] \in Tcbs /\ tcb'[Master] = Grow(m)
      BY <2>1 DEF alloc_tls, TTypeInv, Blocks
    <3>2. tcb'[Master].load_size \in Nat /\ tcb'[Master].version \in Nat
      BY <2>a, <2>2, <3>1, Sizes DEF Extends, Tcbs
    <3>3. tcb'[Master].dyn_size \in Nat
      BY <2>a, <3>1, ExecSize DEF Extends, Tcbs
    <3> QED BY <3>1, <3>2, <3>3 DEF Grow, Tcbs
  <2>4. tcb' \in [Blocks -> Tcbs]
    BY <2>1, <2>3 DEF alloc_tls, TTypeInv
  <2>5. rw' \in [Blocks -> SUBSET Int]
    BY <2>1, <1>a DEF alloc_tls, TTypeInv
  <2>6. offset' \in [Modules -> Int]
    BY <2>1, <2>a, Zenon DEF alloc_tls, Extends, TTypeInv
  <2> QED BY <2>1, <2>2, <2>4, <2>5, <2>6 DEF TTypeInv, alloc_tls
<1>2. ASSUME NEW t \in Threads, LoadTls(t) PROVE TTypeInv'
  BY <1>2 DEF LoadTls, load_tls, TTypeInv, LTypeInv, Blocks
<1>3. ASSUME NEW t \in Threads, Update(t), fate' = "running" PROVE TTypeInv'
  <2>1. update_tls(t) /\ lock' = [lock EXCEPT !.readers = @ \ {t}]
    BY <1>3 DEF Update, Crash
  <2>2. rw' \in [Blocks -> SUBSET Int]
    <3>1. Opened(t) \subseteq Int
      BY <1>a DEF Opened
    <3> QED BY <2>1, <3>1 DEF update_tls, TTypeInv
  <2>3. data' \in [Blocks -> [Offsets -> Modules \cup {"zero", "own"}]]
    BY <2>1 DEF update_tls, TTypeInv, Blocks
  <2> QED BY <2>1, <2>2, <2>3 DEF update_tls, TTypeInv, Blocks
<1>4. ASSUME NEW t \in Threads, StartThread(t) PROVE TTypeInv'
  <2>1. NewTcb \in Tcbs
    BY Sizes DEF NewTcb, Tcbs
  <2> QED BY <1>4, <1>a, <2>1, Zenon DEF StartThread, set_tp, TTypeInv
<1>5. ASSUME NEW t \in Threads, Access(t) PROVE TTypeInv'
  BY <1>5 DEF Access, TTypeInv, Blocks
<1>6. ASSUME NEW t \in Threads, LockWrite(t) \/ UnlockWrite(t) \/ LockRead(t) PROVE TTypeInv'
  BY <1>6 DEF LockWrite, UnlockWrite, LockRead, TTypeInv, tvars
<1>7. ASSUME UNCHANGED <<tvars, lock>> PROVE TTypeInv'
  BY <1>7 DEF tvars, TTypeInv
<1>8. ASSUME NEW t \in Threads, AllocTls(t) \/ Update(t), fate' # "running"
      PROVE  UNCHANGED <<tvars, lock>>
  BY <1>8 DEF AllocTls, Update, Crash, At
<1>9. ASSUME NEW t \in Threads, NEW m \in Modules, LoadSubsystem(t, m) \/ TlsGetAddr(t, m)
      PROVE  UNCHANGED <<tvars, lock>>
  BY <1>9 DEF LoadSubsystem, TlsGetAddr
<1>10. ASSUME NEW t \in Threads, Map(t) \/ NumberSubsystem(t) \/ Register(t) \/ Announce(t)
       PROVE  UNCHANGED <<tvars, lock>>
  BY <1>10 DEF Map, NumberSubsystem, Register, Announce, Crash
<1>11. ASSUME LoadBinary \/ Enter PROVE UNCHANGED <<tvars, lock>>
  BY <1>11 DEF LoadBinary, Enter
<1>12. ASSUME UNCHANGED vars PROVE UNCHANGED <<tvars, lock>>
  BY <1>12 DEF vars, lvars
<1> QED BY <1>1, <1>2, <1>3, <1>4, <1>5, <1>6, <1>7, <1>8, <1>9, <1>10, <1>11, <1>12 DEF Next
=============================================================================
