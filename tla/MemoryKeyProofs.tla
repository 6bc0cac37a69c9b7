-------------------------- MODULE MemoryKeyProofs ---------------------------
(***************************************************************************)
(* The map of ShmemAlloc: without a race for an address, every shared      *)
(* block keeps its file.                                                   *)
(***************************************************************************)
EXTENDS MemoryProofs

\* Who owns a key of the map, as long as no address was reused before its old key
\* was changed: a block of the program, or a thread that works on one.
Keyed == InFlight({"ftruncate", "mremap", "remove", "rekey"})
Pending == InFlight({"remove", "rekey"})
HasFile(b) == shm_fd[b.at] # None /\ files[shm_fd[b.at]] >= b.size
LiveKeys == \A b \in Of("shmem") : HasFile(b) /\ \A t \in Keyed : arg[t].at # b.at
ThreadKeys == \A t \in Keyed :
    /\ HasFile(arg[t])
    /\ pc[t] \in {"ftruncate", "mremap"} => fd[t] = shm_fd[arg[t].at]
    /\ \A u \in Keyed : arg[u].at = arg[t].at => u = t
FileSizes == /\ \A t \in InFlight({"mremap"}) : files[fd[t]] = to[t]
             /\ \A t \in Opening : files[fd[t]] = arg[t].size
PendingApart == \A t \in Pending :
    /\ \A u \in InFlight({"insert"}) : arg[u].at # arg[t].at
    /\ \A u \in InFlight({"rekey"}) \ {t} : to[u] # arg[t].at
KeyInv == fate = "running" /\ LiveKeys /\ ThreadKeys /\ FileSizes /\ PendingApart
KeysKept == ~raced => KeyInv

-----------------------------------------------------------------------------
\* The address of the block a thread works on.
Working == InFlight({"insert", "ftruncate", "mremap", "rekey"})
Place(t) == IF pc[t] = "rekey" THEN to[t] ELSE arg[t].at

\* Two blocks have different addresses, as no block is empty.
PlacesApart == /\ \A b, c \in live : b.at = c.at => b = c
               /\ \A b \in live, t \in Working : Place(t) # b.at
               /\ \A t, u \in Working : Place(t) = Place(u) => t = u

\* A block of at least one unit begins on a page of its own.
LEMMA StartsExtent == ASSUME NEW a \in Nat, NEW s \in Sizes PROVE a \in Region(a, s)
<1>1. s \in Nat /\ s >= 1 /\ Page \in Nat /\ Page >= 1
  BY MemoryAssumption
<1>2. Rounded(s) \in Nat /\ Rounded(s) >= 1
  BY <1>1 DEF Rounded
<1> QED BY <1>2 DEF Region

\* That follows from the blocks' being apart.
LEMMA Distinct == ASSUME TypeInv, PagesAccounted PROVE PlacesApart
<1> USE MemoryAssumption DEF TypeInv
<1>1. \A b \in live : b.at \in Extent(b)
  BY StartsExtent DEF Extent
<1>2. \A t \in Working : t \in Threads /\ Place(t) \in Owned(t)
  <2> SUFFICES ASSUME NEW t \in Working PROVE t \in Threads /\ Place(t) \in Owned(t)
    OBVIOUS
  <2>1. t \in Threads /\ arg[t].size \in Sizes /\ arg[t].at \in Addrs
    BY DEF Working, InFlight, LocalsOK
  <2>2. CASE pc[t] = "rekey"
    <3>1. to[t] \in Addrs
      BY <2>1, <2>2 DEF LocalsOK
    <3> QED BY <2>1, <2>2, <3>1, StartsExtent DEF Place, Owned
  <2>3. CASE pc[t] # "rekey"
    BY <2>1, <2>3, StartsExtent DEF Place, Owned, Working, InFlight, Extent
  <2> QED BY <2>2, <2>3
<1> QED BY <1>1, <1>2 DEF PlacesApart, PagesAccounted

\* raced is a history variable: it stays.
LEMMA RacedStays == ASSUME [Next]_vars, raced PROVE raced'
<1>1. CASE MmapNext
  BY <1>1 DEF MmapNext, MmapAllocate, MmapDeallocate, MmapResize
<1>2. ASSUME NEW t \in Threads, ShmNext(t) PROVE raced'
  BY <1>2 DEF ShmNext, ShmAllocate, ShmMmap, ShmMremap, MmapFails, Insert, Remove, Ftruncate,
              MremapFails, Rekey, ShmDeallocate, ShmGrow, ShmShrink, Panic
<1> QED BY <1>1, <1>2 DEF Next, vars

\* Each step keeps the keys as long as it is no race.
LEMMA KeyStep ==
    ASSUME TypeInv, FdInv, PlacesApart, KeysKept, [Next]_vars
    PROVE  KeysKept'
<1> SUFFICES ASSUME ~raced' PROVE KeyInv'
  BY DEF KeysKept
<1>a. /\ fate = "running" /\ ~raced
      /\ LiveKeys /\ ThreadKeys /\ FileSizes /\ PendingApart
  BY RacedStays DEF KeysKept, KeyInv
<1>b. /\ \A b \in live : b.at \in Addrs /\ b.size \in Nat
      /\ \A a \in Addrs : shm_fd[a] \in Fds \cup {None}
      /\ \A f \in Fds : files[f] \in Nat
  BY MemoryAssumption DEF TypeInv
<1>c. \A t \in Threads : LocalsOK(t)
  BY DEF TypeInv
<1>d. None \notin Fds /\ \A s \in Sizes : s \in Nat /\ s # 0
  BY MemoryAssumption
<1> USE <1>a DEF Opening, Keyed, Pending, InFlight
<1>e. /\ \A b \in Of("shmem") : b.at \in Addrs /\ shm_fd[b.at] \in Fds
      /\ \A t \in Keyed : arg[t].at \in Addrs /\ shm_fd[arg[t].at] \in Fds
  BY <1>b, <1>c DEF LiveKeys, ThreadKeys, HasFile, Of, LocalsOK
<1>f. \A t \in Opening : fd[t] \in Fds
  BY <1>c DEF LocalsOK
<1> DEFINE Same(c) == shm_fd'[c] = shm_fd[c] /\ files'[shm_fd[c]] = files[shm_fd[c]]
           Others(t) == \A u \in Threads \ {t} :
                 pc'[u] = pc[u] /\ arg'[u] = arg[u] /\ fd'[u] = fd[u] /\ to'[u] = to[u]
           Undisturbed(t) == /\ \A b \in Of("shmem") : Same(b.at)
                             /\ \A u \in Keyed \ {t} : Same(arg[u].at)
                             /\ \A u \in Opening \ {t} : files'[fd[u]] = files[fd[u]]
<1>4. ASSUME NEW t \in Threads, NEW s \in Sizes, ShmAllocate(t, s) PROVE KeyInv'
  <2>1. PICK f \in Fds : /\ files[f] = 0 /\ files' = [files EXCEPT ![f] = s]
                         /\ fd' = [fd EXCEPT ![t] = f]
    BY <1>4 DEF ShmAllocate
  <2>2. /\ Others(t) /\ pc[t] = "idle" /\ pc'[t] = "mmap" /\ fd'[t] = f /\ arg'[t].size = s
        /\ files'[f] = s /\ \A g \in Fds \ {f} : files'[g] = files[g]
        /\ UNCHANGED <<live, shm_fd, fate>>
    BY <1>4, <2>1 DEF ShmAllocate, TypeInv, At, Goto, Block
  <2>3. Undisturbed(t)
    BY <1>d, <1>e, <1>f, <2>1, <2>2 DEF FdInv
  <2>4. LiveKeys'
    BY <2>2, <2>3 DEF LiveKeys, HasFile, Of
  <2>5. ThreadKeys'
    BY <2>2, <2>3 DEF ThreadKeys, HasFile
  <2>6. FileSizes'
    BY <2>2, <2>3 DEF FileSizes, ThreadKeys
  <2>7. PendingApart'
    BY <2>2 DEF PendingApart
  <2> QED BY <2>2, <2>4, <2>5, <2>6, <2>7 DEF KeyInv
<1>5. ASSUME NEW t \in Threads, NEW a \in Addrs, ShmMmap(t, a) PROVE KeyInv'
  <2>1. /\ Others(t) /\ pc[t] = "mmap" /\ pc'[t] = "insert" /\ fd'[t] = fd[t]
        /\ arg'[t].at = a /\ arg'[t].size = arg[t].size
        /\ UNCHANGED <<live, shm_fd, files, fate>>
    BY <1>5 DEF ShmMmap, TypeInv, At, Goto
  <2>2. \A u \in Pending : arg[u].at # a
    BY <1>5 DEF ShmMmap, KeyPending
  <2>4. LiveKeys'
    BY <2>1 DEF LiveKeys, HasFile, Of
  <2>5. ThreadKeys'
    BY <2>1 DEF ThreadKeys, HasFile
  <2>6. FileSizes'
    BY <2>1 DEF FileSizes
  <2>7. PendingApart'
    BY <2>1, <2>2 DEF PendingApart
  <2> QED BY <2>1, <2>4, <2>5, <2>6, <2>7 DEF KeyInv
<1>6. ASSUME NEW t \in Threads, MmapFails(t) PROVE KeyInv'
  <2>1. /\ Others(t) /\ pc[t] = "mmap" /\ pc'[t] = "idle"
        /\ \A g \in Fds \ {fd[t]} : files'[g] = files[g]
        /\ UNCHANGED <<live, shm_fd, fate>>
    BY <1>6 DEF MmapFails, Return, TypeInv, At, Goto
  <2>2. Undisturbed(t)
    BY <1>e, <1>f, <2>1 DEF FdInv
  <2>4. LiveKeys'
    BY <2>1, <2>2 DEF LiveKeys, HasFile, Of
  <2>5. ThreadKeys'
    BY <2>1, <2>2 DEF ThreadKeys, HasFile
  <2>6. FileSizes'
    BY <2>1, <2>2 DEF FileSizes, ThreadKeys
  <2>7. PendingApart'
    BY <2>1 DEF PendingApart
  <2> QED BY <2>1, <2>4, <2>5, <2>6, <2>7 DEF KeyInv
<1>7. ASSUME NEW t \in Threads, Insert(t) PROVE KeyInv'
  <2> DEFINE a == arg[t].at
  <2>1. a \in Addrs /\ fd[t] \in Fds /\ pc[t] = "insert"
    BY <1>7, <1>c DEF Insert, At, LocalsOK
  <2>2. /\ Others(t) /\ pc'[t] = "idle" /\ live' = live \cup {arg[t]}
        /\ shm_fd'[a] = fd[t] /\ \A c \in Addrs \ {a} : shm_fd'[c] = shm_fd[c]
        /\ \A f \in Fds : files'[f] = IF f = shm_fd[a] THEN 0 ELSE files[f]
        /\ UNCHANGED fate
    BY <1>7, <2>1 DEF Insert, Return, TypeInv, Goto
  <2>3. /\ \A b \in Of("shmem") : b.at # a
        /\ \A u \in Keyed : arg[u].at # a
    BY <2>1 DEF PendingApart, PlacesApart, Working, Place, Of
  <2> HIDE DEF a
  <2>4. Undisturbed(t)
    BY <1>d, <1>e, <1>f, <2>1, <2>2, <2>3 DEF FdInv
  <2>5. files'[fd[t]] = arg[t].size /\ fd[t] # None /\ arg[t].size \in Nat
    BY <1>c, <1>d, <2>1, <2>2 DEF FdInv, FileSizes, LocalsOK
  <2>6. LiveKeys'
    <3>1. \A b \in Of("shmem") : HasFile(b)'
      BY <2>4 DEF LiveKeys, HasFile
    <3>2. shm_fd'[arg[t].at] # None /\ files'[shm_fd'[arg[t].at]] >= arg[t].size
      BY <2>2, <2>5 DEF a
    <3>3. \A u \in Threads : pc'[u] \in {"ftruncate", "mremap", "remove", "rekey"} =>
              arg'[u].at # arg[t].at /\ \A b \in Of("shmem") : arg'[u].at # b.at
      BY <2>2, <2>3 DEF a, LiveKeys
    <3> QED BY <2>2, <3>1, <3>2, <3>3 DEF LiveKeys, Of, HasFile
  <2>7. ThreadKeys'
    BY <2>1, <2>2, <2>4 DEF ThreadKeys, HasFile
  <2>8. FileSizes'
    BY <2>1, <2>2, <2>4 DEF FileSizes, ThreadKeys
  <2>9. PendingApart'
    BY <2>2 DEF PendingApart
  <2> QED BY <2>2, <2>6, <2>7, <2>8, <2>9 DEF KeyInv
<1>8. ASSUME NEW t \in Threads, Remove(t) PROVE KeyInv'
  <2> DEFINE a == arg[t].at
  <2>1. a \in Addrs /\ pc[t] = "remove"
    BY <1>8, <1>c DEF Remove, At, LocalsOK
  <2>2. /\ Others(t) /\ pc'[t] = "idle" /\ live' = live
        /\ \A c \in Addrs \ {a} : shm_fd'[c] = shm_fd[c]
        /\ \A f \in Fds : files'[f] = IF f = shm_fd[a] THEN 0 ELSE files[f]
        /\ UNCHANGED fate
    BY <1>8, <2>1 DEF Remove, Return, TypeInv, Goto
  <2>3. /\ \A b \in Of("shmem") : b.at # a
        /\ \A u \in Keyed \ {t} : arg[u].at # a
    BY <2>1 DEF LiveKeys, ThreadKeys
  <2> HIDE DEF a
  <2>4. Undisturbed(t)
    BY <1>d, <1>e, <1>f, <2>1, <2>2, <2>3 DEF FdInv
  <2>5. LiveKeys'
    BY <2>2, <2>4 DEF LiveKeys, HasFile, Of
  <2>6. ThreadKeys'
    BY <2>2, <2>4 DEF ThreadKeys, HasFile
  <2>7. FileSizes'
    BY <2>1, <2>2, <2>4 DEF FileSizes, ThreadKeys
  <2>8. PendingApart'
    BY <2>2 DEF PendingApart
  <2> QED BY <2>2, <2>5, <2>6, <2>7, <2>8 DEF KeyInv
<1>9. ASSUME NEW t \in Threads, Ftruncate(t) PROVE KeyInv'
  <2> DEFINE a == arg[t].at
  <2>1. /\ pc[t] = "ftruncate" /\ a \in Addrs /\ fd[t] = shm_fd[a] /\ shm_fd[a] \in Fds
        /\ files[fd[t]] # 0 /\ to[t] \in Nat /\ arg[t].size \in Nat /\ to[t] > arg[t].size
    BY <1>9, <1>c, <1>d, <1>e DEF Ftruncate, At, ThreadKeys, LocalsOK, FdInv
  <2>2. /\ Others(t) /\ pc'[t] = "mremap" /\ files'[fd[t]] = to[t]
        /\ \A g \in Fds \ {fd[t]} : files'[g] = files[g]
        /\ UNCHANGED <<live, arg, fd, to, shm_fd, fate>>
    BY <1>9, <2>1 DEF Ftruncate, TypeInv, Goto
  <2>3. /\ \A b \in Of("shmem") : b.at # a
        /\ \A u \in Keyed \ {t} : arg[u].at # a
    BY <2>1 DEF LiveKeys, ThreadKeys
  <2> HIDE DEF a
  <2>4. Undisturbed(t)
    BY <1>d, <1>e, <1>f, <2>1, <2>2, <2>3 DEF FdInv
  <2>5. LiveKeys'
    BY <2>1, <2>2, <2>4 DEF LiveKeys, HasFile, Of
  <2>6. ThreadKeys'
    BY <2>1, <2>2, <2>4 DEF ThreadKeys, HasFile, a
  <2>7. FileSizes'
    BY <2>1, <2>2, <2>4 DEF FileSizes, ThreadKeys
  <2>8. PendingApart'
    BY <2>1, <2>2 DEF PendingApart
  <2> QED BY <2>2, <2>5, <2>6, <2>7, <2>8 DEF KeyInv
<1>10. ASSUME NEW t \in Threads, MremapFails(t) PROVE KeyInv'
  <2>1. /\ Others(t) /\ pc[t] = "mremap" /\ pc'[t] = "idle" /\ live' = live \cup {arg[t]}
        /\ UNCHANGED <<files, shm_fd, fate>>
    BY <1>10 DEF MremapFails, GiveBack, Return, TypeInv, At, Goto
  <2>4. LiveKeys'
    BY <2>1 DEF LiveKeys, ThreadKeys, HasFile, Of
  <2>5. ThreadKeys'
    BY <2>1 DEF ThreadKeys, HasFile
  <2>6. FileSizes'
    BY <2>1 DEF FileSizes
  <2>7. PendingApart'
    BY <2>1 DEF PendingApart
  <2> QED BY <2>1, <2>4, <2>5, <2>6, <2>7 DEF KeyInv
<1>11. ASSUME NEW t \in Threads, NEW a \in Addrs, ShmMremap(t, a) PROVE KeyInv'
  <2>1. /\ Others(t) /\ pc[t] = "mremap" /\ pc'[t] = "rekey" /\ to'[t] = a
        /\ arg'[t].at = arg[t].at /\ arg'[t].size = to[t]
        /\ UNCHANGED <<live, files, shm_fd, fate>>
    BY <1>11 DEF ShmMremap, TypeInv, At, Goto
  <2>2. \A u \in Pending : arg[u].at # a
    BY <1>11 DEF ShmMremap, KeyPending
  <2>3. /\ files[shm_fd[arg[t].at]] = to[t] /\ to[t] \in Nat
        /\ \A u \in Threads \ {t} : pc[u] = "insert" => arg[u].at # arg[t].at
        /\ \A u \in Threads \ {t} : pc[u] = "rekey" => to[u] # arg[t].at
    BY <1>c, <1>d, <2>1 DEF FileSizes, ThreadKeys, LocalsOK, PlacesApart, Working, Place
  <2>4. LiveKeys'
    <3>1. \A u \in Keyed' : u \in Keyed /\ arg'[u].at = arg[u].at
      BY <2>1
    <3> HIDE DEF Keyed
    <3> QED BY <2>1, <3>1 DEF LiveKeys, HasFile, Of
  <2>5. ThreadKeys'
    BY <2>1, <2>3 DEF ThreadKeys, HasFile
  <2>6. FileSizes'
    BY <2>1 DEF FileSizes
  <2>7. PendingApart'
    BY <2>1, <2>2, <2>3 DEF PendingApart
  <2> QED BY <2>1, <2>4, <2>5, <2>6, <2>7 DEF KeyInv
<1>12. ASSUME NEW t \in Threads, Rekey(t) PROVE KeyInv'
  <2> DEFINE a == arg[t].at
             n == to[t]
             new == [arg[t] EXCEPT !.at = n]
  <2>1. pc[t] = "rekey" /\ a \in Addrs /\ n \in Addrs /\ shm_fd[a] # None /\ shm_fd[a] \in Fds
    BY <1>12, <1>c, <1>e DEF Rekey, At, ThreadKeys, HasFile, LocalsOK
  <2>0. Others(t) /\ pc'[t] = "idle"
    BY <1>12, <2>1 DEF Rekey, Return, TypeInv, Goto
  <2>2. /\ live' = live \cup {new}
        /\ shm_fd'[n] = shm_fd[a]
        /\ \A c \in Addrs \ {a, n} : shm_fd'[c] = shm_fd[c]
        /\ \A f \in Fds : files'[f] = IF n # a /\ f = shm_fd[n] THEN 0 ELSE files[f]
        /\ UNCHANGED fate
    BY <1>12, <1>d, <2>1 DEF Rekey, TypeInv
  <2>3. new.at = n /\ new.size = arg[t].size
    BY DEF TypeInv
  <2>4. /\ \A u \in Keyed \ {t} : arg[u].at # a /\ arg[u].at # n
        /\ \A b \in Of("shmem") : b.at # a /\ b.at # n
    BY <2>1 DEF PendingApart, ThreadKeys, LiveKeys, PlacesApart, Working, Place, Of
  <2> HIDE DEF a, n, new
  <2>5. Undisturbed(t)
    <3>1. \A c \in Addrs \ {a, n} : shm_fd[c] \in Fds => Same(c)
      BY <1>d, <2>1, <2>2 DEF FdInv
    <3>2. \A u \in Opening : files'[fd[u]] = files[fd[u]]
      BY <1>f, <2>1, <2>2 DEF FdInv
    <3> QED BY <1>e, <2>4, <3>1, <3>2
  <2>6. LiveKeys'
    <3>1. \A b \in Of("shmem") : HasFile(b)'
      BY <2>5 DEF LiveKeys, HasFile
    <3>2. files'[shm_fd[a]] = files[shm_fd[a]] /\ files[shm_fd[a]] >= arg[t].size
      BY <2>1, <2>2 DEF FdInv, ThreadKeys, HasFile, a
    <3>3. shm_fd'[new.at] # None /\ files'[shm_fd'[new.at]] >= new.size
      BY <2>1, <2>2, <2>3, <3>2
    <3>4. \A u \in Threads : pc'[u] \in {"ftruncate", "mremap", "remove", "rekey"} =>
              arg'[u].at # new.at /\ \A b \in Of("shmem") : arg'[u].at # b.at
      BY <2>0, <2>3, <2>4 DEF LiveKeys
    <3>5. \A b \in Of("shmem")' : b \in Of("shmem") \/ b = new
      BY <2>2 DEF Of
    <3> QED BY <3>1, <3>3, <3>4, <3>5 DEF LiveKeys, HasFile
  <2>7. ThreadKeys'
    BY <2>0, <2>1, <2>5 DEF ThreadKeys, HasFile
  <2>8. FileSizes'
    <3>1. \A u \in InFlight({"mremap"})' :
              /\ u \in InFlight({"mremap"}) /\ fd'[u] = fd[u] /\ to'[u] = to[u]
              /\ files'[fd[u]] = files[fd[u]]
      BY <2>0, <2>1, <2>5 DEF ThreadKeys
    <3>2. \A u \in Opening' :
              /\ u \in Opening /\ fd'[u] = fd[u] /\ arg'[u] = arg[u]
              /\ files'[fd[u]] = files[fd[u]]
      BY <2>0, <2>1, <2>5
    <3> QED BY <3>1, <3>2 DEF FileSizes
  <2>9. PendingApart'
    BY <2>0, <2>1 DEF PendingApart
  <2> QED BY <2>2, <2>6, <2>7, <2>8, <2>9 DEF KeyInv
<1>13. ASSUME NEW t \in Threads, NEW b \in Of("shmem"), ShmDeallocate(t, b) PROVE KeyInv'
  <2>1. /\ Others(t) /\ pc[t] = "idle" /\ pc'[t] = "remove" /\ arg'[t] = b
        /\ live' = live \ {b} /\ b \in live
        /\ UNCHANGED <<files, shm_fd, fate>>
    BY <1>13 DEF ShmDeallocate, Take, TypeInv, At, Goto, Of
  <2>2. /\ \A c \in live \ {b} : c.at # b.at
        /\ \A u \in Threads : pc[u] = "insert" => arg[u].at # b.at
        /\ \A u \in Threads : pc[u] = "rekey" => to[u] # b.at
    BY <2>1 DEF PlacesApart, Working, Place
  <2>4. LiveKeys'
    <3>1. \A c \in Of("shmem")' : c \in Of("shmem") /\ c.at # b.at
      BY <2>1, <2>2 DEF Of
    <3>2. \A u \in Keyed' \ {t} : u \in Keyed /\ arg'[u] = arg[u]
      BY <2>1
    <3> HIDE DEF Keyed
    <3> QED BY <2>1, <3>1, <3>2 DEF LiveKeys, HasFile
  <2>5. ThreadKeys'
    BY <2>1 DEF ThreadKeys, LiveKeys, HasFile
  <2>6. FileSizes'
    BY <2>1 DEF FileSizes
  <2>7. PendingApart'
    BY <2>1, <2>2 DEF PendingApart
  <2> QED BY <2>1, <2>4, <2>5, <2>6, <2>7 DEF KeyInv
<1>14. ASSUME NEW t \in Threads, NEW b \in Of("shmem"), NEW s \in Sizes, ShmGrow(t, b, s)
       PROVE  KeyInv'
  <2>1. b \in live /\ shm_fd[b.at] # None /\ \A c \in live \ {b} : c.at # b.at
    BY DEF LiveKeys, HasFile, Of, PlacesApart
  <2>2. /\ Others(t) /\ pc[t] = "idle" /\ pc'[t] = "ftruncate" /\ arg'[t] = b
        /\ fd'[t] = shm_fd[b.at] /\ live' = live \ {b}
        /\ UNCHANGED <<files, shm_fd, fate>>
    BY <1>14, <2>1 DEF ShmGrow, Take, TypeInv, At, Goto
  <2>4. LiveKeys'
    <3>1. \A c \in Of("shmem")' : c \in Of("shmem") /\ c.at # b.at
      BY <2>1, <2>2 DEF Of
    <3>2. \A u \in Keyed' \ {t} : u \in Keyed /\ arg'[u] = arg[u]
      BY <2>2
    <3> HIDE DEF Keyed
    <3> QED BY <2>2, <3>1, <3>2 DEF LiveKeys, HasFile
  <2>5. ThreadKeys'
    BY <2>2 DEF ThreadKeys, LiveKeys, HasFile
  <2>6. FileSizes'
    BY <2>2 DEF FileSizes
  <2>7. PendingApart'
    BY <2>2 DEF PendingApart
  <2> QED BY <2>2, <2>4, <2>5, <2>6, <2>7 DEF KeyInv
<1>15. ASSUME NEW t \in Threads, NEW b \in Of("shmem"), NEW s \in Sizes, ShmShrink(t, b, s)
       PROVE  KeyInv'
  <2> DEFINE new == Block(b.at, s, "shmem")
  <2>1. /\ new.at = b.at /\ new.size = s /\ live' = (live \ {b}) \cup {new}
        /\ s < b.size /\ UNCHANGED <<pc, arg, fd, to, files, shm_fd, fate>>
    BY <1>15 DEF ShmShrink, Block, local
  <2> HIDE DEF new
  <2>2. files[shm_fd[b.at]] >= s
    BY <1>b, <1>d, <1>e, <2>1 DEF LiveKeys, HasFile, Of
  <2>4. LiveKeys'
    BY <2>1, <2>2 DEF LiveKeys, HasFile, Of
  <2>5. ThreadKeys' /\ FileSizes' /\ PendingApart'
    BY <2>1 DEF ThreadKeys, HasFile, FileSizes, PendingApart
  <2> QED BY <2>1, <2>4, <2>5 DEF KeyInv
<1>16. ASSUME Of("shmem")' = Of("shmem"), UNCHANGED <<shm_fd, files, pc, arg, fd, to, fate>>
       PROVE  KeyInv'
  <2>1. LiveKeys'
    BY <1>16 DEF LiveKeys, HasFile
  <2>2. ThreadKeys'
    BY <1>16 DEF ThreadKeys, HasFile
  <2>3. FileSizes' /\ PendingApart'
    BY <1>16 DEF FileSizes, PendingApart
  <2> QED BY <1>16, <2>1, <2>2, <2>3 DEF KeyInv
<1>17. CASE MmapNext \/ UNCHANGED vars
  <2>1. Of("shmem")' = Of("shmem") /\ UNCHANGED <<shm_fd, files, pc, arg, fd, to, fate>>
    BY <1>17 DEF MmapNext, MmapAllocate, MmapDeallocate, MmapResize, Of, Block, local, vars
  <2> QED BY <1>16, <2>1
<1> QED
  BY <1>4, <1>5, <1>6, <1>7, <1>8, <1>9, <1>10, <1>11, <1>12, <1>13, <1>14, <1>15, <1>17
  DEF Next, ShmNext

-----------------------------------------------------------------------------
\* The keys, on top of the ownership of pages and descriptors: no two blocks have
\* the same address, which is PagesAccounted, and no descriptor is in the map
\* twice, which is FdInv.
KeyedInv == OwnInv /\ KeysKept

\* It holds of every behaviour.
THEOREM Keys == Spec => []KeyedInv
<1>1. Init => KeysKept
  BY DEF Init, KeysKept, KeyInv, LiveKeys, ThreadKeys, FileSizes, PendingApart, Of, Keyed,
         Pending, Opening, InFlight
<1>2. OwnInv /\ KeysKept /\ [Next]_vars => KeysKept'
  BY KeyStep, Distinct DEF OwnInv
<1>3. OwnInv /\ KeysKept => KeyedInv
  BY DEF KeyedInv
<1> QED BY <1>1, <1>2, <1>3, Ownership, PTL DEF Spec

\* Without such a race every shared block has a file of its own that is long
\* enough, and ShmemAlloc does not panic.
THEOREM FilesFound == Spec => []LiveHasFile
<1>1. KeyedInv => LiveHasFile
  <2> SUFFICES ASSUME KeyedInv, ~raced PROVE LiveHasFile
    BY DEF LiveHasFile
  <2>1. KeyInv /\ PlacesApart
    BY Distinct DEF KeyedInv, OwnInv, KeysKept
  <2>2. \A b \in live : b.at \in Addrs
    BY DEF KeyedInv, OwnInv, TypeInv
  <2>3. \A b, c \in Of("shmem") : shm_fd[b.at] = shm_fd[c.at] => b = c
    BY <2>1, <2>2 DEF KeyedInv, OwnInv, FdInv, KeyInv, LiveKeys, HasFile, PlacesApart, Of
  <2> QED BY <2>1, <2>3 DEF KeyInv, LiveKeys, HasFile, LiveHasFile
<1> QED BY <1>1, Keys, PTL
=============================================================================
