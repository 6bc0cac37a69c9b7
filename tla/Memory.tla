------------------------------- MODULE Memory -------------------------------
(***************************************************************************)
(* The two allocators on top of mmap, in one address space:                *)
(* MmapAllocator (wl-helpers/src/lib.rs), one system call per operation,   *)
(* and ShmemAlloc (wl-impl/src/global.rs), which also keeps a map from the *)
(* address of a block to the file behind it.                               *)
(*                                                                         *)
(* An address is a page number; a size is in units, Page of them to a      *)
(* page.  A call that fails with no effect is a stuttering step.  A block  *)
(* of size 0 has no memory: growing one is allocating, shrinking to one is *)
(* deallocating.                                                           *)
(***************************************************************************)
EXTENDS Naturals

CONSTANTS Threads, Addrs, Sizes, Page, Fds, None

ASSUME MemoryAssumption == /\ Addrs \subseteq Nat /\ Sizes \subseteq Nat \ {0}
                           /\ Page \in Nat \ {0} /\ None \notin Fds

VARIABLES used,    \* the pages that are mapped
          live,    \* the blocks the program holds
          shm_fd,  \* ShmemAlloc::shm_fd: by address, a file descriptor
          files,   \* the length of the file behind a descriptor, 0 if closed
          pc,      \* per thread, where in a ShmemAlloc operation it is
          arg,     \* ... the block it works on
          fd,      \* ... the descriptor it holds
          to,      \* ... the new address or the new size
          raced,   \* history: a block was placed where a key is still to change
          fate     \* "running" or "panicked"

vars == <<used, live, shm_fd, files, pc, arg, fd, to, raced, fate>>
local == <<pc, arg, fd, to>>

Block(a, s, kind) == [at |-> a, size |-> s, by |-> kind]
Rounded(s) == (s + Page - 1) \div Page
Region(a, s) == a .. (a + Rounded(s) - 1)
Free(a, s) == Region(a, s) \subseteq Addrs \ used
NoBlock == Block(0, 0, None)

Init == /\ used = {} /\ live = {}
        /\ shm_fd = [a \in Addrs |-> None]
        /\ files = [f \in Fds |-> 0]
        /\ pc = [t \in Threads |-> "idle"]
        /\ arg = [t \in Threads |-> NoBlock]
        /\ fd = [t \in Threads |-> None]
        /\ to = [t \in Threads |-> 0]
        /\ raced = FALSE
        /\ fate = "running"
-----------------------------------------------------------------------------
(* The kernel. *)

\* mmap at an address of its choice.
Mmap(a, s) == Free(a, s) /\ used' = used \cup Region(a, s)

\* mremap(MREMAP_MAYMOVE) of a block: in place, or anywhere else.
Mremap(b, s, a) ==
    LET others == used \ Region(b.at, b.size)
    IN  /\ Region(a, s) \subseteq Addrs \ others
        /\ a = b.at \/ Free(a, s)
        /\ used' = others \cup Region(a, s)

\* Faulty: less than the whole block.
Munmap_floor(b) == used' = used \ (b.at .. (b.at + (b.size \div Page) - 1))

Munmap(b) == used' = used \ Region(b.at, b.size)
-----------------------------------------------------------------------------
(* MmapAllocator. *)

MmapAllocate(s, a) == /\ Mmap(a, s)
                      /\ live' = live \cup {Block(a, s, "mmap")}
                      /\ UNCHANGED <<shm_fd, files, local, raced, fate>>

MmapDeallocate(b) == /\ Munmap(b)
                     /\ live' = live \ {b}
                     /\ UNCHANGED <<shm_fd, files, local, raced, fate>>

\* grow_zeroed and shrink: nothing to do while the number of pages is the same.
MmapResize(b, s, a) ==
    /\ IF Rounded(s) = Rounded(b.size) THEN a = b.at /\ UNCHANGED used
                                       ELSE Mremap(b, s, a)
    /\ live' = (live \ {b}) \cup {Block(a, s, "mmap")}
    /\ UNCHANGED <<shm_fd, files, local, raced, fate>>
-----------------------------------------------------------------------------
(* ShmemAlloc. *)

At(t, place) == fate = "running" /\ pc[t] = place
Goto(t, place) == pc' = [pc EXCEPT ![t] = place]
Return(t) == /\ Goto(t, "idle")
             /\ arg' = [arg EXCEPT ![t] = NoBlock]
             /\ fd' = [fd EXCEPT ![t] = None]
             /\ to' = [to EXCEPT ![t] = 0]

\* Between the system call and the change of the key, somebody else may get the
\* address.
KeyPending(a) == \E u \in Threads : pc[u] \in {"remove", "rekey"} /\ arg[u].at = a

\* allocate_zeroed: memfd_create and ftruncate.
ShmAllocate(t, s) ==
    /\ At(t, "idle")
    /\ \E f \in Fds :
          /\ files[f] = 0
          /\ files' = [files EXCEPT ![f] = s]
          /\ fd' = [fd EXCEPT ![t] = f]
    /\ arg' = [arg EXCEPT ![t] = Block(0, s, "shmem")]
    /\ Goto(t, "mmap")
    /\ UNCHANGED <<used, live, shm_fd, to, raced, fate>>

\* Faulty: the descriptor is not closed when there is no memory.
MmapFails_open(t) == /\ At(t, "mmap")
                     /\ Return(t)
                     /\ UNCHANGED <<used, live, shm_fd, files, raced, fate>>

MmapFails(t) == /\ At(t, "mmap")
                /\ files' = [files EXCEPT ![fd[t]] = 0]
                /\ Return(t)
                /\ UNCHANGED <<used, live, shm_fd, raced, fate>>

ShmMmap(t, a) == /\ At(t, "mmap")
                 /\ Mmap(a, arg[t].size)
                 /\ arg' = [arg EXCEPT ![t].at = a]
                 /\ raced' = (raced \/ KeyPending(a))
                 /\ Goto(t, "insert")
                 /\ UNCHANGED <<live, shm_fd, files, fd, to, fate>>

\* HashMap::insert drops, and so closes, the descriptor it replaces.
Insert(t) == LET a == arg[t].at
             IN  /\ At(t, "insert")
                 /\ shm_fd' = [shm_fd EXCEPT ![a] = fd[t]]
                 /\ files' = [f \in Fds |-> IF f = shm_fd[a] THEN 0 ELSE files[f]]
                 /\ live' = live \cup {arg[t]}
                 /\ Return(t)
                 /\ UNCHANGED <<used, raced, fate>>

Take(t, b) == /\ At(t, "idle")
              /\ arg' = [arg EXCEPT ![t] = b]
              /\ live' = live \ {b}

ShmDeallocate(t, b) == /\ Take(t, b)
                       /\ Munmap(b)
                       /\ Goto(t, "remove")
                       /\ UNCHANGED <<shm_fd, files, fd, to, raced, fate>>

Remove(t) == LET a == arg[t].at
             IN  /\ At(t, "remove")
                 /\ shm_fd' = [shm_fd EXCEPT ![a] = None]
                 /\ files' = [f \in Fds |-> IF f = shm_fd[a] THEN 0 ELSE files[f]]
                 /\ Return(t)
                 /\ UNCHANGED <<used, live, raced, fate>>

Panic == /\ fate' = "panicked"
         /\ UNCHANGED <<used, live, shm_fd, files, local, raced>>

\* grow_zeroed: fd_for_alloc, under the read lock; without a file it is todo!().
ShmGrow(t, b, s) ==
    /\ s > b.size
    /\ \/ At(t, "idle") /\ shm_fd[b.at] = None /\ Panic
       \/ /\ shm_fd[b.at] # None
          /\ Take(t, b)
          /\ fd' = [fd EXCEPT ![t] = shm_fd[b.at]]
          /\ to' = [to EXCEPT ![t] = s]
          /\ Goto(t, "ftruncate")
          /\ UNCHANGED <<used, shm_fd, files, raced, fate>>

GiveBack(t) == live' = live \cup {arg[t]} /\ Return(t)

\* ftruncate fails only on a descriptor that has been closed meanwhile.
Ftruncate(t) ==
    /\ At(t, "ftruncate")
    /\ IF files[fd[t]] = 0
       THEN GiveBack(t) /\ UNCHANGED files
       ELSE /\ files' = [files EXCEPT ![fd[t]] = to[t]]
            /\ Goto(t, "mremap")
            /\ UNCHANGED <<live, arg, fd, to>>
    /\ UNCHANGED <<used, shm_fd, raced, fate>>

MremapFails(t) == /\ At(t, "mremap")
                  /\ GiveBack(t)
                  /\ UNCHANGED <<used, shm_fd, files, raced, fate>>

\* to becomes the new address; the new size is the length of the file.
ShmMremap(t, a) == /\ At(t, "mremap")
                   /\ Mremap(arg[t], to[t], a)
                   /\ arg' = [arg EXCEPT ![t].size = to[t]]
                   /\ to' = [to EXCEPT ![t] = a]
                   /\ raced' = (raced \/ KeyPending(a))
                   /\ Goto(t, "rekey")
                   /\ UNCHANGED <<live, shm_fd, files, fd, fate>>

\* Faulty: the file stays filed under the old address.
Rekey_old(t) == /\ At(t, "rekey")
                /\ live' = live \cup {[arg[t] EXCEPT !.at = to[t]]}
                /\ Return(t)
                /\ UNCHANGED <<used, shm_fd, files, raced, fate>>

\* remove(&addr).unwrap() and insert(new_addr, fd), under one write lock.
Rekey(t) ==
    LET a == arg[t].at
        removed == [shm_fd EXCEPT ![a] = None]
        lost == removed[to[t]]
    IN  /\ At(t, "rekey")
        /\ \/ shm_fd[a] = None /\ Panic
           \/ /\ shm_fd[a] # None
              /\ shm_fd' = [removed EXCEPT ![to[t]] = shm_fd[a]]
              /\ files' = [f \in Fds |-> IF f = lost THEN 0 ELSE files[f]]
              /\ live' = live \cup {[arg[t] EXCEPT !.at = to[t]]}
              /\ Return(t)
              /\ UNCHANGED <<used, raced, fate>>

\* shrink: mremap in place; the file keeps its length.
ShmShrink(t, b, s) ==
    /\ At(t, "idle")
    /\ s < b.size
    /\ Mremap(b, s, b.at)
    /\ live' = (live \ {b}) \cup {Block(b.at, s, "shmem")}
    /\ UNCHANGED <<shm_fd, files, local, raced, fate>>
-----------------------------------------------------------------------------
Of(kind) == {b \in live : b.by = kind}

MmapNext == fate = "running" /\
    \/ \E s \in Sizes, a \in Addrs : MmapAllocate(s, a)
    \/ \E b \in Of("mmap") : \/ MmapDeallocate(b)
                             \/ \E s \in Sizes, a \in Addrs : MmapResize(b, s, a)

ShmNext(t) ==
    \/ \E s \in Sizes : ShmAllocate(t, s)
    \/ \E a \in Addrs : ShmMmap(t, a) \/ ShmMremap(t, a)
    \/ MmapFails(t) \/ Insert(t) \/ Remove(t) \/ Ftruncate(t) \/ MremapFails(t) \/ Rekey(t)
    \/ \E b \in Of("shmem") :
          ShmDeallocate(t, b) \/ \E s \in Sizes : ShmGrow(t, b, s) \/ ShmShrink(t, b, s)

Next == MmapNext \/ \E t \in Threads : ShmNext(t)
Spec == Init /\ [][Next]_vars
-----------------------------------------------------------------------------
(* Properties. *)

InFlight(places) == {t \in Threads : pc[t] \in places}

\* The pages of a block, and those of the block a thread in the middle of an
\* operation works on.
Extent(b) == Region(b.at, b.size)
Owned(t) == CASE pc[t] \in {"insert", "ftruncate", "mremap"} -> Extent(arg[t])
              [] pc[t] = "rekey" -> Region(to[t], arg[t].size)
              [] OTHER -> {}

\* Every page in use belongs to exactly one block, the program's or one in the
\* middle of an operation, and every block has all its pages: rounding, in-place
\* and moving mremap and the two allocators' different paths neither leak memory
\* nor take it away from a block in use.
PagesAccounted ==
    /\ \A b \in live : /\ Extent(b) \subseteq used
                       /\ \A c \in live \ {b} : Extent(b) \cap Extent(c) = {}
                       /\ \A t \in Threads : Extent(b) \cap Owned(t) = {}
    /\ \A t \in Threads : /\ Owned(t) \subseteq used
                          /\ \A u \in Threads \ {t} : Owned(t) \cap Owned(u) = {}
    /\ \A p \in used : \/ \E b \in live : p \in Extent(b)
                       \/ \E t \in Threads : p \in Owned(t)

\* Unless an address was reused before its old key was changed, fd_for_alloc
\* finds for every block of ShmemAlloc a file of its own, long enough to back it,
\* and neither todo!() nor the unwrap() in grow_zeroed is reached by a program
\* that passes only blocks it holds.  (With such a reuse the blocks' files are
\* mixed up or closed.)
LiveHasFile == ~raced =>
    /\ fate = "running"
    /\ \A b \in Of("shmem") :
         /\ shm_fd[b.at] # None
         /\ files[shm_fd[b.at]] >= b.size
         /\ \A c \in Of("shmem") \ {b} : shm_fd[c.at] # shm_fd[b.at]

\* No descriptor leaks, not even through a failed mmap or a race: an open one is
\* in the map or in the hands of an operation that will put it there.
NoFdLeak == \A f \in Fds : files[f] # 0 =>
    \/ \E a \in Addrs : shm_fd[a] = f
    \/ \E t \in InFlight({"mmap", "insert"}) : fd[t] = f
=============================================================================
