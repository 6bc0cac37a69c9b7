------------------------------ MODULE Handles -------------------------------
(***************************************************************************)
(* wl-impl/src/handle_base.rs: the per-thread handle table, with the calls *)
(* of wl-usi-io that create and use I/O handles.                           *)
(*                                                                         *)
(* A handle pointer is the index of its slot.  "IO" and its subtype        *)
(* "IO_FILE" both pass the type check of IORead and IOWrite, whose mask    *)
(* drops the subtype.  The kernel's descriptor table is external: it maps  *)
(* each descriptor to the object it is open on.                            *)
(***************************************************************************)
EXTENDS Integers, FiniteSets

CONSTANTS NHANDLES,   \* 512
          MaxFd,      \* the descriptors of the process are 0 .. MaxFd
          Files,      \* what openat can open
          Procs       \* the child processes, which a pidfd is open on

Std == {"stdin", "stdout", "stderr"}
Sockets == {"read end", "write end"}
Objects == Std \cup Sockets \cup Files \cup Procs \cup {"closed"}
HandleTypes == {"0", "IO", "IO_FILE", "PROC"}

ASSUME HandlesAssumption ==
    /\ NHANDLES \in Nat \ {0}
    /\ MaxFd \in Nat /\ MaxFd >= 2
    /\ (Files \cup Procs) \cap (Std \cup Sockets \cup {"closed"}) = {}

Slots == 0 .. (NHANDLES - 1)
Fds == 0 .. MaxFd

VARIABLES table,       \* HANDLE_ARRAY: per slot, the handle in it
          start_hint,  \* START_HINT
          live,        \* LIVE_HANDLES
          fds,         \* kernel: per descriptor, the object it is open on
          held         \* the handle pointers the program has and has not joined

hvars == <<table, start_hint, live, fds, held>>

\* obj is history: what the handle was made to stand for.
NewHandle(ty, fd, obj) == [ty |-> ty, fd |-> fd, obj |-> obj]

\* bytemuck::zeroed(): type 0 is what marks a slot as free.
Zeroed == NewHandle("0", 0, "closed")
InUse(s) == table[s].ty # "0"
-----------------------------------------------------------------------------
(* The kernel: a new descriptor is the lowest one that is closed. *)

LowestFree(d) == fds[d] = "closed" /\ \A e \in Fds : e < d => fds[e] # "closed"
FdsFull == \A d \in Fds : fds[d] # "closed"
-----------------------------------------------------------------------------
(* The table. *)

\* The scan of insert_handle meets slot s first: it is free, and the slots
\* from START_HINT on, wrapping around, up to s are not.
FirstFree(s) == /\ ~InUse(s)
                /\ \A k \in Slots :
                      (k - start_hint) % NHANDLES < (s - start_hint) % NHANDLES
                         => InUse(k)
Full == \A s \in Slots : InUse(s)

insert_handle(s, handle) == /\ FirstFree(s)
                            /\ start_hint' = s
                            /\ live' = live + 1
                            /\ table' = [table EXCEPT ![s] = handle]

\* Handle::close(false); the caller's frame drops the descriptors in also.
CloseFds(set) == fds' = [d \in Fds |-> IF d \in set THEN "closed" ELSE fds[d]]

\* Faulty: LIVE_HANDLES is not updated.
close_handle_uncounted(s, also) == /\ CloseFds({table[s].fd} \cup also)
                                   /\ table' = [table EXCEPT ![s] = Zeroed]
                                   /\ UNCHANGED live

\* Faulty: the descriptor is closed and the slot stays as it was.
close_handle_keeps(s, also) == /\ live' = live - 1
                               /\ CloseFds({table[s].fd} \cup also)
                               /\ UNCHANGED table

close_handle(s, also) == /\ live' = live - 1
                         /\ CloseFds({table[s].fd} \cup also)
                         /\ table' = [table EXCEPT ![s] = Zeroed]

\* try_deref and check_type.
Deref(s, types) == table[s].ty \in types
-----------------------------------------------------------------------------
\* get_init_handles: the three standard streams, before the program starts.
GetInitHandles ==
    /\ held = {}
    /\ NHANDLES >= 3
    /\ table' = [s \in Slots |->
                   CASE s = 0 -> NewHandle("IO", 0, "stdin")
                     [] s = 1 -> NewHandle("IO", 1, "stdout")
                     [] s = 2 -> NewHandle("IO", 2, "stderr")
                     [] OTHER -> Zeroed]
    /\ start_hint' = 2
    /\ live' = 3
    /\ held' = {0, 1, 2}
    /\ UNCHANGED fds

\* OpenFile succeeds: base is null (-1) or a file handle, openat opens file on
\* d, and slot s takes it.
OpenFile(base, file, d, s) ==
    /\ base = -1 \/ (base \in held /\ Deref(base, {"IO_FILE"}))
    /\ LowestFree(d)
    /\ insert_handle(s, NewHandle("IO_FILE", d, file))
    /\ fds' = [fds EXCEPT ![d] = file]
    /\ held' = held \cup {s}

\* OpenFile on a full table: the file is open, and the error returns its
\* descriptor to nobody.
OpenFileNoSlot(base, file, d) ==
    /\ base = -1 \/ (base \in held /\ Deref(base, {"IO_FILE"}))
    /\ LowestFree(d)
    /\ Full
    /\ fds' = [fds EXCEPT ![d] = file]
    /\ UNCHANGED <<table, start_hint, live, held>>

Open == \E base \in held \cup {-1}, file \in Files, d \in Fds :
            \/ \E s \in Slots : OpenFile(base, file, d, s)
            \/ OpenFileNoSlot(base, file, d)

HInit == /\ table = [s \in Slots |-> Zeroed]
         /\ start_hint = 0
         /\ live = 0
         /\ fds = [d \in Fds |-> CASE d = 0 -> "stdin" [] d = 1 -> "stdout"
                                   [] d = 2 -> "stderr" [] OTHER -> "closed"]
         /\ held = {}

HNext == GetInitHandles \/ (held # {} /\ Open)
-----------------------------------------------------------------------------
HTypeOK == /\ table \in [Slots -> [ty : HandleTypes, fd : Fds \cup {-1}, obj : Objects]]
           /\ start_hint \in Slots
           /\ live \in 0 .. NHANDLES
           /\ fds \in [Fds -> Objects]
           /\ held \subseteq Slots

Used == {s \in Slots : InUse(s)}

\* LIVE_HANDLES is the number of slots in use (handle_base.rs:57, 71).
LiveCounts == live = Cardinality(Used)

\* A handle in use that has a descriptor reaches the object it was made for,
\* and shares the descriptor with no other handle: nothing closed it behind
\* the handle's back (IORead, IOWrite, JoinProcess use it unchecked).
HandlesReachTheirObject == \A s \in Used :
    table[s].fd >= 0 =>
        /\ fds[table[s].fd] = table[s].obj
        /\ \A r \in Used : table[r].fd = table[s].fd => r = s
=============================================================================
