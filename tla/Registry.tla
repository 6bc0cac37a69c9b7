------------------------------ MODULE Registry ------------------------------
(***************************************************************************)
(* wl-impl/src/syscall_handler.rs: the table of subsystems and the system  *)
(* call dispatch.                                                          *)
(***************************************************************************)
EXTENDS Naturals

CONSTANTS NSubsys,     \* 64
          FirstDyn,    \* 8, the first number for a subsystem without its own
          Unregistered \* a null pointer in either array

ASSUME RegistryAssumption == NSubsys \in Nat /\ FirstDyn \in Nat /\ FirstDyn <= NSubsys

Numbers == 0 .. (NSubsys - 1)

VARIABLES syscalls,    \* SYSCALL_SUBSYS_ARRAY, as the module whose array it is
          registry,    \* SUBSYS_REGISTRY
          next_dyn     \* NEXT_DYN_SUBSYS

rvars == <<syscalls, registry, next_dyn>>

RInit == /\ syscalls = [n \in Numbers |-> Unregistered]
         /\ registry = [n \in Numbers |-> Unregistered]
         /\ next_dyn = FirstDyn

\* Faulty: the number is read and not moved on.
TakeNumber_load == UNCHANGED <<syscalls, registry, next_dyn>>

\* register_subsys(!0, ..): the number, or a panic: by the test (val > 64) or,
\* for 64 itself, by the index that follows.
TakeNumber == /\ next_dyn' = next_dyn + 1
              /\ UNCHANGED <<syscalls, registry>>
OutOfNumbers(n) == n \notin Numbers

\* Faulty: the entry is announced before it can be called.
StoreSyscalls_info(n, m) == /\ registry' = [registry EXCEPT ![n] = m]
                            /\ UNCHANGED <<syscalls, next_dyn>>

StoreSyscalls(n, m) == /\ syscalls' = [syscalls EXCEPT ![n] = m]
                       /\ UNCHANGED <<registry, next_dyn>>
StoreInfo(n, m) == /\ registry' = [registry EXCEPT ![n] = m]
                   /\ UNCHANGED <<syscalls, next_dyn>>

\* all_subsystems
Listed == {n \in Numbers : registry[n] # Unregistered}

\* __handle_syscall: the module the call is dispatched to.
Dispatch(n) == IF n \in Numbers THEN syscalls[n] ELSE Unregistered
=============================================================================
