------------------------------- MODULE Loader -------------------------------
(***************************************************************************)
(* wl-ld-lilium: start-up (entry.rs), loading a subsystem (ldso.rs), the   *)
(* thread-local storage of its module (loader.rs, iface.rs) and its        *)
(* registration (syscall_handler.rs), composed.                            *)
(*                                                                         *)
(* LOAD_LOCK is the reader-writer lock that module Futex is shown to       *)
(* implement.  The resolver (ld_so_impl) is external: it calls alloc_tls   *)
(* and load_tls for a module with a TLS segment, and resolve_error, which  *)
(* ends the process, when something fails.                                 *)
(***************************************************************************)
EXTENDS Tls, Registry, Sequences

CONSTANTS Main,      \* the thread that runs __rust_entry
          Default,   \* the subsystems start-up loads, in order
          Number     \* [Modules -> Nat]: a subsystem's number, or Dynamic
Dynamic == 4096

ASSUME LoaderAssumption == Main \in Threads /\ Number \in [Modules -> Nat]

\* The subsystems with a number of their own (the six wl-usi crates: 0 to 5) have it
\* alone, and below the dynamic ones; the binary is no subsystem.
ASSUME NumbersAssumption ==
    /\ \A m \in Modules : Number[m] # Dynamic =>
          Number[m] < FirstDyn /\ \A k \in Modules : Number[k] = Number[m] => k = m
    /\ Unregistered \notin Modules
    /\ Default \in Seq(Modules \ {Exec})

VARIABLES lock,      \* LOAD_LOCK: its readers and its writer
          pc,        \* per thread, where it is
          then,      \* per thread, where it goes after update_tls
          job,       \* per thread, the module it loads or wants the storage of
          number,    \* per thread, local subsys of register_subsys
          boot,      \* how many of Default, and then Exec, main has dealt with
          asked,     \* the modules a load was ever begun for
          loaded,    \* the modules whose load is complete
          fate       \* "running" or "crashed"

lvars == <<lock, pc, then, job, number, boot, asked, loaded, fate>>
vars == <<tvars, rvars, lvars>>

\* __rust_entry has set the blocks up; set_tp(tp) is done.
Init == /\ TInit /\ RInit
        /\ lock = [readers |-> {}, writers |-> {}]
        /\ pc = [t \in Threads |-> IF t = Main THEN "idle" ELSE "off"]
        /\ then = [t \in Threads |-> "idle"]
        /\ job = [t \in Threads |-> Exec]
        /\ number = [t \in Threads |-> 0]
        /\ boot = 0
        /\ asked = {}
        /\ loaded = {}
        /\ fate = "running"

At(t, place) == fate = "running" /\ pc[t] = place
Goto(t, place) == pc' = [pc EXCEPT ![t] = place]
Return(t) == /\ Goto(t, "idle")
             /\ then' = [then EXCEPT ![t] = "idle"]
             /\ job' = [job EXCEPT ![t] = Exec]
             /\ number' = [number EXCEPT ![t] = 0]
Booted == boot = Len(Default) + 1

Crash == /\ fate' = "crashed"
         /\ UNCHANGED <<tvars, rvars, lock, pc, then, job, number, boot, asked, loaded>>
-----------------------------------------------------------------------------
(* load_subsystem. *)

Begin(t, m) == /\ At(t, "idle")
               /\ m \notin asked
               /\ asked' = asked \cup {m}
               /\ job' = [job EXCEPT ![t] = m]
               /\ then' = [then EXCEPT ![t] = IF m = Exec THEN "enter" ELSE "init"]

\* The default subsystems, one after the other; then, from any thread,
\* __rtld_wl_load_subsystem_by_name.
LoadSubsystem(t, m) ==
    /\ Begin(t, m)
    /\ \/ t = Main /\ boot < Len(Default) /\ m = Default[boot + 1]
       \/ Booted /\ m # Exec
    /\ Goto(t, "load")
    /\ UNCHANGED <<tvars, rvars, lock, number, boot, loaded, fate>>

\* Faulty: not all of the default subsystems are there yet.
LoadBinary_early == /\ boot = Len(Default) - 1
                    /\ Begin(Main, Exec)
                    /\ Goto(Main, "map")
                    /\ UNCHANGED <<tvars, rvars, lock, number, boot, loaded, fate>>

\* The binary is loaded by main alone, without LOAD_LOCK.
LoadBinary == /\ boot = Len(Default)
              /\ Begin(Main, Exec)
              /\ Goto(Main, "map")
              /\ UNCHANGED <<tvars, rvars, lock, number, boot, loaded, fate>>

LockWrite(t) == /\ At(t, "load")
                /\ lock.readers = {} /\ lock.writers = {}
                /\ lock' = [lock EXCEPT !.writers = {t}]
                /\ Goto(t, "map")
                /\ UNCHANGED <<tvars, rvars, then, job, number, boot, asked, loaded, fate>>

\* find, map_phdrs: the module is in memory, or resolve_error.
Map(t) == /\ At(t, "map")
          /\ \/ Crash
             \/ /\ Goto(t, IF Size[job[t]] > 0 THEN "alloc_tls" ELSE "unlock")
                /\ UNCHANGED <<tvars, rvars, lock, then, job, number, boot, asked, loaded, fate>>

AllocTls(t) == /\ At(t, "alloc_tls")
               /\ \/ Crash      \* there is no room, or mprotect fails
                  \/ /\ alloc_tls(job[t])
                     /\ Goto(t, "load_tls")
                     /\ UNCHANGED <<rvars, lock, then, job, number, boot, asked, loaded, fate>>

LoadTls(t) == /\ At(t, "load_tls")
              /\ load_tls(job[t])
              /\ Goto(t, "unlock")
              /\ UNCHANGED <<rvars, lock, then, job, number, boot, asked, loaded, fate>>

\* drop(_guard); then update_tls().
UnlockWrite(t) == /\ At(t, "unlock")
                  /\ lock' = [lock EXCEPT !.writers = @ \ {t}]
                  /\ loaded' = loaded \cup {job[t]}
                  /\ Goto(t, "update")
                  /\ UNCHANGED <<tvars, rvars, then, job, number, boot, asked, fate>>
-----------------------------------------------------------------------------
(* update_tls, called after a load, by a new thread, and by __tls_get_addr. *)

LockRead(t) == /\ At(t, "update")
               /\ lock.writers = {}
               /\ lock' = [lock EXCEPT !.readers = @ \cup {t}]
               /\ Goto(t, "updating")
               /\ UNCHANGED <<tvars, rvars, then, job, number, boot, asked, loaded, fate>>

\* A failing mprotect is the end of the process.
Update(t) == /\ At(t, "updating")
             /\ \/ Opened(t) # {} /\ Crash
                \/ /\ update_tls(t)
                   /\ lock' = [lock EXCEPT !.readers = @ \ {t}]
                   /\ Goto(t, then[t])
                   /\ UNCHANGED <<rvars, then, job, number, boot, asked, loaded, fate>>

\* A further thread: set_tp writes its control block and calls update_tls.
StartThread(t) == /\ Booted /\ At(t, "off")
                  /\ set_tp(t)
                  /\ Goto(t, "update")
                  /\ UNCHANGED <<rvars, lock, then, job, number, boot, asked, loaded, fate>>

\* Faulty: a thread that has ever been brought up to date is taken to be so.
UpToDate_once(t) == tcb[t].version > 0

UpToDate(t) == tcb[t].version = tcb[Master].version

\* __tls_get_addr, called by code of the module, compares the versions without
\* the lock.
TlsGetAddr(t, m) ==
    /\ At(t, "idle") /\ Booted
    /\ m \in loaded /\ Size[m] > 0
    /\ job' = [job EXCEPT ![t] = m]
    /\ then' = [then EXCEPT ![t] = "address"]
    /\ Goto(t, IF UpToDate(t) THEN "address" ELSE "update")
    /\ UNCHANGED <<tvars, rvars, lock, number, boot, asked, loaded, fate>>

\* The caller stores its own data at the address.
Access(t) == /\ At(t, "address")
             /\ data' = [data EXCEPT ![t] =
                           [o \in Offsets |-> IF o \in Extent(job[t]) THEN "own" ELSE @[o]]]
             /\ Return(t)
             /\ UNCHANGED <<tcb, tls_off, offset, rw, rvars, lock, boot, asked, loaded, fate>>
-----------------------------------------------------------------------------
(* init_subsystem: register_subsys; and the end of start-up. *)

NumberSubsystem(t) ==
    /\ At(t, "init")
    /\ IF Number[job[t]] = Dynamic
       THEN TakeNumber /\ number' = [number EXCEPT ![t] = next_dyn]
       ELSE UNCHANGED rvars /\ number' = [number EXCEPT ![t] = Number[job[t]]]
    /\ Goto(t, "store")
    /\ UNCHANGED <<tvars, lock, then, job, boot, asked, loaded, fate>>

Register(t) ==
    /\ At(t, "store")
    /\ \/ OutOfNumbers(number[t]) /\ Crash
       \/ /\ ~OutOfNumbers(number[t])
          /\ StoreSyscalls(number[t], job[t])
          /\ Goto(t, "info")
          /\ UNCHANGED <<tvars, lock, then, job, number, boot, asked, loaded, fate>>

\* init_subsystem returns: start-up goes on.
Announce(t) == /\ At(t, "info")
               /\ StoreInfo(number[t], job[t])
               /\ Return(t)
               /\ boot' = IF Booted THEN boot ELSE boot + 1
               /\ UNCHANGED <<tvars, lock, asked, loaded, fate>>

\* __setup_auxv enters the binary.
Enter == /\ At(Main, "enter")
         /\ Return(Main)
         /\ boot' = boot + 1
         /\ UNCHANGED <<tvars, rvars, lock, asked, loaded, fate>>
-----------------------------------------------------------------------------
Next == \/ \E t \in Threads :
              \/ \E m \in Modules : LoadSubsystem(t, m) \/ TlsGetAddr(t, m)
              \/ LockWrite(t) \/ Map(t) \/ AllocTls(t) \/ LoadTls(t) \/ UnlockWrite(t)
              \/ LockRead(t) \/ Update(t) \/ StartThread(t) \/ Access(t)
              \/ NumberSubsystem(t) \/ Register(t) \/ Announce(t)
        \/ LoadBinary \/ Enter

Spec == Init /\ [][Next]_vars
-----------------------------------------------------------------------------
(* Properties. *)

\* The storage of two modules never overlaps, leaves the control block alone and
\* lies in the part of the template update_tls copies, whatever the sizes, the
\* alignments and the order of loading.
ModulesApart ==
    LET Has == {m \in loaded : Size[m] > 0}
    IN  \A m \in Has :
           /\ Extent(m) \subseteq (-tcb[Master].dyn_size) .. (tcb[Master].load_size - 1)
           /\ Extent(m) \subseteq Offsets \ (0 .. (TcbSize - 1))
           /\ offset[m] % Align[m] = 0
           /\ \A k \in Has \ {m} : Extent(m) \cap Extent(k) = {}

\* A thread never touches thread-local storage that is not there: what
\* __tls_get_addr returns is accessible, and holds the module's template or what
\* the thread itself has stored, although the versions are compared unlocked.
AddressReady ==
    \A t \in Threads : At(t, "address") =>
        /\ Extent(job[t]) \subseteq rw[t]
        /\ \A o \in Extent(job[t]) : data[t][o] \in {job[t], "own"}

\* update_tls brings storage in without losing what the thread stored before.
OwnDataKept == [][\A t \in Threads, o \in Offsets :
                    data[t][o] = "own" => data'[t][o] = "own"]_vars

\* While no module is being loaded, equal versions mean equal blocks: every
\* change of the master's sizes changes its version.
VersionTellsAll ==
    lock.writers = {} /\ Booted =>
        \A t \in Threads : tcb[t].version = tcb[Master].version => tcb[t] = tcb[Master]

\* The subsystems whose libraries find() assumes present ("default subsystem,
\* preloaded before any lilium code is loaded") can be called before the binary
\* is looked at.
DefaultsFirst == Exec \in asked =>
    \A i \in 1 .. Len(Default) :
        \E n \in Listed : registry[n] = Default[i] /\ Dispatch(n) = Default[i]

\* A subsystem that all_subsystems lists can be called under its number, and its
\* code is in memory.
ListedIsCallable == \A n \in Listed : Dispatch(n) = registry[n] /\ registry[n] \in loaded

\* A number, once given, is never given to another subsystem, although dynamic
\* numbers are taken without a lock.
NumbersKept == [][\A n \in Numbers :
                    syscalls[n] # Unregistered => syscalls'[n] = syscalls[n]]_vars
=============================================================================
