-------------------------------- MODULE Tls ---------------------------------
(***************************************************************************)
(* wl-ld-lilium/src/loader.rs: the thread-local storage blocks.            *)
(*                                                                         *)
(* A block is addressed by the offset from the thread pointer: the thread  *)
(* control block and the modules' storage upwards from 0, the executable's *)
(* downwards.  The master block (TLS_MC) holds the template every thread's *)
(* block is copied from.  One unit stands for some number of bytes; a page *)
(* is Page units, and half a block Half units (TLS_BLOCK_SIZE >> 1).       *)
(***************************************************************************)
EXTENDS Integers, FiniteSets

CONSTANTS Threads,    \* the threads set_tp is called for
          Modules,    \* the native libraries with their TLS segments ...
          Exec,       \* ... and the executable, which is one of Modules
          Size,       \* [Modules -> Nat]: p_memsz of PT_TLS
          Align,      \* [Modules -> Nat]: its p_align
          Page, Half, TcbSize

Master == "TLS_MC"
Blocks == Threads \cup {Master}
Offsets == (-Half) .. (Half - 1)

ASSUME TlsAssumption ==
    /\ Master \notin Threads
    /\ Exec \in Modules
    /\ Size \in [Modules -> Nat] /\ Align \in [Modules -> Nat \ {0}]
    /\ Page \in Nat \ {0} /\ TcbSize \in Nat \ {0} /\ Half \in Nat
    /\ TcbSize <= Half /\ Half % Page = 0

VARIABLES tcb,       \* per block: load_size, dyn_size, version of its Tcb
          tls_off,   \* LOADER.tls_off
          offset,    \* per module, what alloc_tls returned for it
          data,      \* per block and offset, whose data is there
          rw         \* per block, the offsets that are readable and writable

tvars == <<tcb, tls_off, offset, data, rw>>

RoundUp(v, a) == ((v + a - 1) \div a) * a
RoundDown(v, a) == (v \div a) * a

\* mprotect makes whole pages accessible.
Pages(from, len) == RoundDown(from, Page) .. (RoundUp(from + len, Page) - 1)

NewTcb == [load_size |-> TcbSize, dyn_size |-> 0, version |-> 0]

\* setup_tls_mc: of each block only the page of the Tcb is accessible.
TInit == /\ tcb = [b \in Blocks |-> NewTcb]
         /\ tls_off = TcbSize
         /\ offset = [m \in Modules |-> 0]
         /\ data = [b \in Blocks |-> [o \in Offsets |-> "zero"]]
         /\ rw = [b \in Blocks |-> Pages(0, TcbSize)]
-----------------------------------------------------------------------------
(* alloc_tls. *)

\* Faulty: the module is given its size but not the padding in front of it.
Next_off_unaligned(m) == tls_off + Size[m]

Next_off(m) == RoundUp(tls_off, Align[m]) + Size[m]
NoRoom(m) == m # Exec /\ Next_off(m) > Half

\* The offset before alignment: the old tls_off, or below the thread pointer.
Val(m) == IF m = Exec THEN -RoundUp(Size[m], Align[m]) ELSE tls_off

\* Faulty: a library's storage does not change the version.
Grow_unversioned(m) ==
    IF m = Exec THEN [tcb[Master] EXCEPT !.dyn_size = -Val(m), !.version = @ + 1]
    ELSE [tcb[Master] EXCEPT !.load_size = RoundUp(Val(m), Align[m]) + Size[m]]

Grow(m) == IF m = Exec
           THEN [tcb[Master] EXCEPT !.dyn_size = -Val(m), !.version = @ + 1]
           ELSE [tcb[Master] EXCEPT
                   !.load_size = @ + Size[m] + (RoundUp(Val(m), Align[m]) - Val(m)),
                   !.version = @ + 1]

alloc_tls(m) ==
    LET aligned == RoundUp(Val(m), Align[m])
        pg == RoundDown(Val(m), Page)
    IN  /\ ~NoRoom(m)
        /\ tls_off' = IF m = Exec THEN tls_off ELSE Next_off(m)
        /\ offset' = [offset EXCEPT ![m] = aligned]
        /\ rw' = [rw EXCEPT ![Master] = @ \cup Pages(pg, Size[m] + (aligned - pg))]
        /\ tcb' = [tcb EXCEPT ![Master] = Grow(m)]
        /\ UNCHANGED data

\* Where the storage of a module lies, in every block.
Extent(m) == offset[m] .. (offset[m] + Size[m] - 1)

load_tls(m) == /\ data' = [data EXCEPT ![Master] =
                             [o \in Offsets |-> IF o \in Extent(m) THEN m ELSE @[o]]]
               /\ UNCHANGED <<tcb, tls_off, offset, rw>>
-----------------------------------------------------------------------------
(* update_tls, under LOAD_LOCK. *)

\* Faulty: the whole template is copied again, over what the thread stored.
Missing_all(t) == (TcbSize .. (tcb[Master].load_size - 1))
             \cup ((-tcb[Master].dyn_size) .. (-tcb[t].dyn_size - 1))

\* What t's block lacks of the template, above and below the thread pointer.
Missing(t) == (tcb[t].load_size .. (tcb[Master].load_size - 1))
         \cup ((-tcb[Master].dyn_size) .. (-tcb[t].dyn_size - 1))

\* The two mprotect calls, each made only if there is something to copy.
Opened(t) ==
    LET me == tcb[t]
        mc == tcb[Master]
        low == RoundDown(me.load_size, Page)
        high == RoundUp(mc.dyn_size, Page)
    IN  (IF me.load_size < mc.load_size THEN Pages(low, mc.load_size - low) ELSE {})
        \cup
        (IF me.dyn_size < mc.dyn_size THEN Pages(-high, high - me.dyn_size) ELSE {})

update_tls(t) ==
    /\ rw' = [rw EXCEPT ![t] = @ \cup Opened(t)]
    /\ data' = [data EXCEPT ![t] =
                  [o \in Offsets |-> IF o \in Missing(t) THEN data[Master][o] ELSE @[o]]]
    /\ tcb' = [tcb EXCEPT ![t] = tcb[Master]]
    /\ UNCHANGED <<tls_off, offset>>

\* set_tp on a fresh block.
set_tp(t) == /\ tcb' = [tcb EXCEPT ![t] = NewTcb]
             /\ data' = [data EXCEPT ![t] = [o \in Offsets |-> "zero"]]
             /\ rw' = [rw EXCEPT ![t] = Pages(0, TcbSize)]
             /\ UNCHANGED <<tls_off, offset>>
=============================================================================
