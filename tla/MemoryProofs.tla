---------------------------- MODULE MemoryProofs ----------------------------
(***************************************************************************)
(* The two allocators, for every number of threads, addresses, sizes and   *)
(* descriptors: no page is leaked or shared, and no descriptor is leaked.  *)
(***************************************************************************)
EXTENDS Memory, TLAPS

Kinds == {"mmap", "shmem"}
PlacesOf == {"idle", "mmap", "insert", "remove", "ftruncate", "mremap", "rekey"}

\* A thread's locals, as far as its place says that they are set.
LocalsOK(t) ==
    /\ pc[t] # "idle" => arg[t].size \in Sizes /\ arg[t].by = "shmem"
    /\ pc[t] \notin {"idle", "mmap"} => arg[t].at \in Addrs
    /\ pc[t] \in {"mmap", "insert", "ftruncate", "mremap"} => fd[t] \in Fds
    /\ pc[t] \in {"ftruncate", "mremap"} => to[t] \in Sizes /\ to[t] > arg[t].size
    /\ pc[t] = "rekey" => to[t] \in Addrs

TypeInv == /\ live \subseteq [at : Addrs, size : Sizes, by : Kinds]
           /\ shm_fd \in [Addrs -> Fds \cup {None}]
           /\ files \in [Fds -> Nat]
           /\ pc \in [Threads -> PlacesOf]
           /\ arg \in [Threads -> [at : Nat, size : Nat, by : Kinds \cup {None}]]
           /\ fd \in [Threads -> Fds \cup {None}]
           /\ to \in [Threads -> Nat]
           /\ \A t \in Threads : LocalsOK(t)

\* Who owns a descriptor: an open one is in the map or with a thread that will
\* put it there, and only once.  This holds in spite of races.
Opening == InFlight({"mmap", "insert"})
FdInv ==
    /\ NoFdLeak
    /\ \A a \in Addrs : shm_fd[a] # None => files[shm_fd[a]] # 0
    /\ \A a, c \in Addrs : shm_fd[a] # None /\ shm_fd[a] = shm_fd[c] => a = c
    /\ \A t \in Opening : /\ files[fd[t]] # 0
                          /\ \A a \in Addrs : shm_fd[a] # fd[t]
                          /\ \A u \in Opening : fd[u] = fd[t] => u = t

\* Each step keeps the types.
LEMMA TypeStep == ASSUME TypeInv, [Next]_vars PROVE TypeInv'
<1> USE MemoryAssumption DEF TypeInv, LocalsOK, Kinds, PlacesOf, local, At, Goto, NoBlock, Block
<1>1. ASSUME NEW s \in Sizes, NEW a \in Addrs, MmapAllocate(s, a) PROVE TypeInv'
  BY <1>1 DEF MmapAllocate
<1>2. ASSUME NEW b \in Of("mmap"), MmapDeallocate(b) PROVE TypeInv'
  BY <1>2 DEF MmapDeallocate
<1>3. ASSUME NEW b \in Of("mmap"), NEW s \in Sizes, NEW a \in Addrs, MmapResize(b, s, a)
      PROVE  TypeInv'
  BY <1>3 DEF MmapResize
<1>4. ASSUME NEW t \in Threads, NEW s \in Sizes, ShmAllocate(t, s) PROVE TypeInv'
  BY <1>4 DEF ShmAllocate
<1>5. ASSUME NEW t \in Threads, NEW a \in Addrs, ShmMmap(t, a) PROVE TypeInv'
  BY <1>5 DEF ShmMmap
<1>6. ASSUME NEW t \in Threads, MmapFails(t) PROVE TypeInv'
  BY <1>6 DEF MmapFails, Return
<1>7. ASSUME NEW t \in Threads, Insert(t) PROVE TypeInv'
  BY <1>7 DEF Insert, Return
<1>8. ASSUME NEW t \in Threads, Remove(t) PROVE TypeInv'
  BY <1>8 DEF Remove, Return
<1>9. ASSUME NEW t \in Threads, Ftruncate(t) PROVE TypeInv'
  <2>1. CASE files[fd[t]] = 0
    <3>1. live' \subseteq [at : Addrs, size : Sizes, by : Kinds]
      BY <1>9, <2>1 DEF Ftruncate, GiveBack
    <3>2. \A u \in Threads : LocalsOK(u)'
      BY <1>9, <2>1 DEF Ftruncate, GiveBack, Return
    <3>3. /\ pc' \in [Threads -> PlacesOf] /\ to' \in [Threads -> Nat]
          /\ fd' \in [Threads -> Fds \cup {None}]
          /\ arg' \in [Threads -> [at : Nat, size : Nat, by : Kinds \cup {None}]]
      <4>1. Return(t)
        BY <1>9, <2>1 DEF Ftruncate, GiveBack
      <4> QED BY <4>1 DEF Return
    <3> QED BY <1>9, <2>1, <3>1, <3>2, <3>3 DEF Ftruncate
  <2>2. CASE files[fd[t]] # 0
    BY <1>9, <2>2 DEF Ftruncate
  <2> QED BY <2>1, <2>2
<1>10. ASSUME NEW t \in Threads, MremapFails(t) PROVE TypeInv'
  BY <1>10 DEF MremapFails, GiveBack, Return
<1>11. ASSUME NEW t \in Threads, NEW a \in Addrs, ShmMremap(t, a) PROVE TypeInv'
  BY <1>11 DEF ShmMremap
<1>12. ASSUME NEW t \in Threads, Rekey(t) PROVE TypeInv'
  <2>1. CASE shm_fd[arg[t].at] = None
    BY <1>12, <2>1 DEF Rekey, Panic
  <2>2. CASE shm_fd[arg[t].at] # None
    <3>1. shm_fd' \in [Addrs -> Fds \cup {None}] /\ files' \in [Fds -> Nat]
      BY <1>12, <2>2 DEF Rekey
    <3>2. live' \subseteq [at : Addrs, size : Sizes, by : Kinds]
      BY SMTT(30), <1>12, <2>2 DEF Rekey
    <3>3. \A u \in Threads : LocalsOK(u)'
      BY <1>12, <2>2 DEF Rekey, Return
    <3>4. /\ pc' \in [Threads -> PlacesOf] /\ to' \in [Threads -> Nat]
          /\ fd' \in [Threads -> Fds \cup {None}]
          /\ arg' \in [Threads -> [at : Nat, size : Nat, by : Kinds \cup {None}]]
      <4>1. Return(t)
        BY <1>12, <2>2 DEF Rekey
      <4> QED BY <4>1 DEF Return
    <3> QED BY <3>1, <3>2, <3>3, <3>4
  <2> QED BY <2>1, <2>2
<1>13. ASSUME NEW t \in Threads, NEW b \in Of("shmem"), ShmDeallocate(t, b) PROVE TypeInv'
  BY <1>13 DEF ShmDeallocate, Take, Of
<1>14. ASSUME NEW t \in Threads, NEW b \in Of("shmem"), NEW s \in Sizes, ShmGrow(t, b, s)
       PROVE  TypeInv'
  <2>1. CASE shm_fd[b.at] = None
    BY <1>14, <2>1 DEF ShmGrow, Panic
  <2>2. CASE shm_fd[b.at] # None
    <3>a. /\ pc' = [pc EXCEPT ![t] = "ftruncate"] /\ arg' = [arg EXCEPT ![t] = b]
          /\ fd' = [fd EXCEPT ![t] = shm_fd[b.at]] /\ to' = [to EXCEPT ![t] = s]
          /\ b.at \in Addrs /\ b.size \in Sizes /\ b.by = "shmem" /\ s > b.size
      BY <1>14, <2>2 DEF ShmGrow, Take, Of
    <3>1. \A u \in Threads : LocalsOK(u)'
      <4>1. LocalsOK(t)'
        BY <3>a, <2>2
      <4>2. ASSUME NEW u \in Threads \ {t} PROVE LocalsOK(u)'
        BY <3>a, <4>2
      <4> QED BY <4>1, <4>2
    <3>2. /\ pc' \in [Threads -> PlacesOf] /\ to' \in [Threads -> Nat]
          /\ fd' \in [Threads -> Fds \cup {None}]
          /\ arg' \in [Threads -> [at : Nat, size : Nat, by : Kinds \cup {None}]]
      <4>1. Take(t, b) /\ fd' = [fd EXCEPT ![t] = shm_fd[b.at]]
            /\ to' = [to EXCEPT ![t] = s] /\ Goto(t, "ftruncate")
        BY <1>14, <2>2 DEF ShmGrow
      <4> QED BY <4>1 DEF Take, Of
    <3> QED BY <1>14, <2>2, <3>1, <3>2 DEF ShmGrow, Take
  <2> QED BY <2>1, <2>2
<1>15. ASSUME NEW t \in Threads, NEW b \in Of("shmem"), NEW s \in Sizes, ShmShrink(t, b, s)
       PROVE  TypeInv'
  BY <1>15 DEF ShmShrink, Of
<1>16. CASE UNCHANGED vars
  BY <1>16 DEF vars
<1> QED
  BY <1>1, <1>2, <1>3, <1>4, <1>5, <1>6, <1>7, <1>8, <1>9, <1>10, <1>11, <1>12, <1>13,
     <1>14, <1>15, <1>16 DEF Next, MmapNext, ShmNext
-----------------------------------------------------------------------------
\* A step keeps PagesAccounted when it changes nothing, maps a fresh block, unmaps
\* or replaces one, or passes one between the program and a thread.
LEMMA NothingMapped ==
    ASSUME PagesAccounted, live' = live, used' = used,
           \A u \in Threads : Owned(u)' = Owned(u)
    PROVE  PagesAccounted'
BY DEF PagesAccounted, Extent

LEMMA BlockMapped ==
    ASSUME PagesAccounted, NEW n, live' = live \cup {n},
           used' = used \cup Extent(n), Extent(n) \cap used = {},
           \A u \in Threads : Owned(u)' = Owned(u)
    PROVE  PagesAccounted'
BY DEF PagesAccounted, Extent

LEMMA BlockUnmapped ==
    ASSUME PagesAccounted, NEW b \in live, live' = live \ {b}, used' = used \ Extent(b),
           \A u \in Threads : Owned(u)' = Owned(u)
    PROVE  PagesAccounted'
BY DEF PagesAccounted, Extent

LEMMA BlockReplaced ==
    ASSUME PagesAccounted, NEW b \in live, NEW n, live' = (live \ {b}) \cup {n},
           used' = (used \ Extent(b)) \cup Extent(n),
           Extent(n) \cap (used \ Extent(b)) = {},
           \A u \in Threads : Owned(u)' = Owned(u)
    PROVE  PagesAccounted'
BY DEF PagesAccounted, Extent

LEMMA BlockTaken ==
    ASSUME PagesAccounted, NEW b \in live, NEW t \in Threads, live' = live \ {b},
           used' = used, Owned(t) = {}, Owned(t)' = Extent(b),
           \A u \in Threads \ {t} : Owned(u)' = Owned(u)
    PROVE  PagesAccounted'
BY DEF PagesAccounted, Extent

LEMMA BlockGiven ==
    ASSUME PagesAccounted, NEW n, NEW t \in Threads, live' = live \cup {n},
           used' = used, Owned(t) = Extent(n), Owned(t)' = {},
           \A u \in Threads \ {t} : Owned(u)' = Owned(u)
    PROVE  PagesAccounted'
BY DEF PagesAccounted, Extent

LEMMA BlockMoved ==
    ASSUME PagesAccounted, NEW R, NEW t \in Threads, live' = live,
           used' = (used \ Owned(t)) \cup R, R \cap (used \ Owned(t)) = {},
           Owned(t)' = R, \A u \in Threads \ {t} : Owned(u)' = Owned(u)
    PROVE  PagesAccounted'
BY DEF PagesAccounted, Extent

\* Each step of the allocators is one of these.
LEMMA PagesStep == ASSUME TypeInv, PagesAccounted, [Next]_vars PROVE PagesAccounted'
<1> USE DEF TypeInv, LocalsOK, PlacesOf, Owned, local, At, Goto
<1>1. ASSUME NEW s \in Sizes, NEW a \in Addrs, MmapAllocate(s, a) PROVE PagesAccounted'
  BY <1>1, BlockMapped DEF MmapAllocate, Mmap, Free, Extent, Block
<1>2. ASSUME NEW b \in Of("mmap"), MmapDeallocate(b) PROVE PagesAccounted'
  BY <1>2, BlockUnmapped DEF MmapDeallocate, Munmap, Extent, Of
<1>3. ASSUME NEW b \in Of("mmap"), NEW s \in Sizes, NEW a \in Addrs, MmapResize(b, s, a)
      PROVE  PagesAccounted'
  <2> DEFINE n == Block(a, s, "mmap")
  <2>1. b \in live /\ live' = (live \ {b}) \cup {n} /\ \A u \in Threads : Owned(u)' = Owned(u)
    BY <1>3 DEF MmapResize, Of
  <2>2. Extent(b) \subseteq used
    BY <2>1 DEF PagesAccounted
  <2>3. /\ used' = (used \ Extent(b)) \cup Extent(n)
        /\ Extent(n) \cap (used \ Extent(b)) = {}
    <3>1. CASE Rounded(s) = Rounded(b.size)
      <4>1. Extent(n) = Extent(b) /\ used' = used
        BY <1>3, <3>1 DEF MmapResize, Extent, Region, Block
      <4> QED BY <4>1, <2>2
    <3>2. CASE Rounded(s) # Rounded(b.size)
      BY <1>3, <3>2 DEF MmapResize, Mremap, Extent, Block
    <3> QED BY <3>1, <3>2
  <2> QED BY <2>1, <2>3, BlockReplaced
<1>4. ASSUME NEW t \in Threads, NEW s \in Sizes, ShmAllocate(t, s) PROVE PagesAccounted'
  BY <1>4, NothingMapped DEF ShmAllocate
<1>5. ASSUME NEW t \in Threads, NEW a \in Addrs, ShmMmap(t, a) PROVE PagesAccounted'
  <2> DEFINE R == Region(a, arg[t].size)
  <2>1. Owned(t) = {} /\ live' = live /\ used' = used \cup R /\ R \cap used = {}
    BY <1>5 DEF ShmMmap, Mmap, Free
  <2>2. Owned(t)' = R /\ \A u \in Threads \ {t} : Owned(u)' = Owned(u)
    BY <1>5 DEF ShmMmap, Extent
  <2> HIDE DEF Owned, R
  <2> QED BY <2>1, <2>2, BlockMoved
<1>6. ASSUME NEW t \in Threads, MmapFails(t) PROVE PagesAccounted'
  BY <1>6, NothingMapped DEF MmapFails, Return
<1>7. ASSUME NEW t \in Threads, Insert(t) PROVE PagesAccounted'
  BY <1>7, BlockGiven DEF Insert, Return
<1>8. ASSUME NEW t \in Threads, Remove(t) PROVE PagesAccounted'
  BY <1>8, NothingMapped DEF Remove, Return
<1>9. ASSUME NEW t \in Threads, Ftruncate(t) PROVE PagesAccounted'
  <2>1. CASE files[fd[t]] = 0
    <3>1. At(t, "ftruncate") /\ used' = used /\ live' = live \cup {arg[t]} /\ Return(t)
      BY <1>9, <2>1 DEF Ftruncate, GiveBack
    <3> QED BY <3>1, BlockGiven DEF Return
  <2>2. CASE files[fd[t]] # 0
    <3>1. At(t, "ftruncate") /\ Goto(t, "mremap") /\ UNCHANGED <<live, arg, fd, to, used>>
      BY <1>9, <2>2 DEF Ftruncate
    <3> QED BY <3>1, NothingMapped
  <2> QED BY <2>1, <2>2
<1>10. ASSUME NEW t \in Threads, MremapFails(t) PROVE PagesAccounted'
  BY <1>10, BlockGiven DEF MremapFails, GiveBack, Return
<1>11. ASSUME NEW t \in Threads, NEW a \in Addrs, ShmMremap(t, a) PROVE PagesAccounted'
  <2> DEFINE R == Region(a, to[t])
  <2>1. Owned(t) = Extent(arg[t]) /\ live' = live
    BY <1>11 DEF ShmMremap
  <2>2. used' = (used \ Extent(arg[t])) \cup R /\ R \cap (used \ Extent(arg[t])) = {}
    BY <1>11 DEF ShmMremap, Mremap, Extent
  <2>3. Owned(t)' = R /\ \A u \in Threads \ {t} : Owned(u)' = Owned(u)
    BY <1>11 DEF ShmMremap, Extent
  <2> HIDE DEF Owned, R
  <2> QED BY <2>1, <2>2, <2>3, BlockMoved
<1>12. ASSUME NEW t \in Threads, Rekey(t) PROVE PagesAccounted'
  <2>1. CASE shm_fd[arg[t].at] = None
    BY <1>12, <2>1, NothingMapped DEF Rekey, Panic
  <2>2. CASE shm_fd[arg[t].at] # None
    <3> DEFINE n == [arg[t] EXCEPT !.at = to[t]]
    <3>1. At(t, "rekey") /\ used' = used /\ live' = live \cup {n} /\ Return(t)
      BY <1>12, <2>2 DEF Rekey
    <3>2. Owned(t) = Extent(n)
      BY <3>1 DEF Extent
    <3>3. Owned(t)' = {} /\ \A u \in Threads \ {t} : Owned(u)' = Owned(u)
      BY <3>1 DEF Return
    <3> QED BY <3>1, <3>2, <3>3, BlockGiven
  <2> QED BY <2>1, <2>2
<1>13. ASSUME NEW t \in Threads, NEW b \in Of("shmem"), ShmDeallocate(t, b) PROVE PagesAccounted'
  BY <1>13, BlockUnmapped DEF ShmDeallocate, Take, Munmap, Extent, Of
<1>14. ASSUME NEW t \in Threads, NEW b \in Of("shmem"), NEW s \in Sizes, ShmGrow(t, b, s)
       PROVE  PagesAccounted'
  <2>1. CASE shm_fd[b.at] = None
    BY <1>14, <2>1, NothingMapped DEF ShmGrow, Panic
  <2>2. CASE shm_fd[b.at] # None
    <3>1. b \in live /\ Take(t, b) /\ Goto(t, "ftruncate") /\ used' = used
          /\ to' = [to EXCEPT ![t] = s]
      BY <1>14, <2>2 DEF ShmGrow, Of
    <3> QED BY <3>1, BlockTaken DEF Take
  <2> QED BY <2>1, <2>2
<1>15. ASSUME NEW t \in Threads, NEW b \in Of("shmem"), NEW s \in Sizes, ShmShrink(t, b, s)
       PROVE  PagesAccounted'
  BY <1>15, BlockReplaced DEF ShmShrink, Mremap, Extent, Block, Of
<1>16. CASE UNCHANGED vars
  BY <1>16, NothingMapped DEF vars
<1> QED
  BY <1>1, <1>2, <1>3, <1>4, <1>5, <1>6, <1>7, <1>8, <1>9, <1>10, <1>11, <1>12, <1>13,
     <1>14, <1>15, <1>16 DEF Next, MmapNext, ShmNext

-----------------------------------------------------------------------------
\* Each step keeps the ownership of descriptors.
LEMMA FdStep == ASSUME TypeInv, FdInv, [Next]_vars PROVE FdInv'
<1> USE MemoryAssumption DEF FdInv, TypeInv, LocalsOK, PlacesOf, NoFdLeak, Opening,
    InFlight, local, At, Goto
<1>1. ASSUME NEW s \in Sizes, NEW a \in Addrs, MmapAllocate(s, a) PROVE FdInv'
  BY <1>1 DEF MmapAllocate
<1>2. ASSUME NEW b \in Of("mmap"), MmapDeallocate(b) PROVE FdInv'
  BY <1>2 DEF MmapDeallocate
<1>3. ASSUME NEW b \in Of("mmap"), NEW s \in Sizes, NEW a \in Addrs, MmapResize(b, s, a)
      PROVE  FdInv'
  BY <1>3 DEF MmapResize
<1>4. ASSUME NEW t \in Threads, NEW s \in Sizes, ShmAllocate(t, s) PROVE FdInv'
  BY <1>4 DEF ShmAllocate
<1>5. ASSUME NEW t \in Threads, NEW a \in Addrs, ShmMmap(t, a) PROVE FdInv'
  BY <1>5 DEF ShmMmap
<1>6. ASSUME NEW t \in Threads, MmapFails(t) PROVE FdInv'
  BY <1>6 DEF MmapFails, Return
<1>7. ASSUME NEW t \in Threads, Insert(t) PROVE FdInv'
  <2> DEFINE a == arg[t].at
  <2>1. /\ pc[t] = "insert" /\ pc' = [pc EXCEPT ![t] = "idle"] /\ fd' = [fd EXCEPT ![t] = None]
        /\ shm_fd' = [shm_fd EXCEPT ![a] = fd[t]]
        /\ files' = [f \in Fds |-> IF f = shm_fd[a] THEN 0 ELSE files[f]]
    BY <1>7 DEF Insert, Return
  <2>2. a \in Addrs /\ fd[t] \in Fds /\ shm_fd[a] # fd[t]
    BY <2>1
  <2>3. NoFdLeak'
    BY <2>1, <2>2
  <2>4. \A c \in Addrs : shm_fd'[c] # None => files'[shm_fd'[c]] # 0
    BY <2>1, <2>2
  <2>5. \A c, d \in Addrs : shm_fd'[c] # None /\ shm_fd'[c] = shm_fd'[d] => c = d
    BY <2>1, <2>2
  <2>6. \A u \in Threads : pc'[u] \in {"mmap", "insert"} =>
            u # t /\ pc'[u] = pc[u] /\ fd'[u] = fd[u]
    BY <2>1
  <2>7. \A u \in Threads : pc'[u] \in {"mmap", "insert"} =>
          /\ files'[fd'[u]] # 0
          /\ \A c \in Addrs : shm_fd'[c] # fd'[u]
          /\ \A v \in Threads : pc'[v] \in {"mmap", "insert"} => (fd'[u] = fd'[v] => u = v)
    BY <2>1, <2>2, <2>6
  <2> QED BY <2>3, <2>4, <2>5, <2>7
<1>8. ASSUME NEW t \in Threads, Remove(t) PROVE FdInv'
  <2> DEFINE a == arg[t].at
  <2>1. /\ pc[t] = "remove" /\ pc' = [pc EXCEPT ![t] = "idle"] /\ fd' = [fd EXCEPT ![t] = None]
        /\ shm_fd' = [shm_fd EXCEPT ![a] = None]
        /\ files' = [f \in Fds |-> IF f = shm_fd[a] THEN 0 ELSE files[f]]
        /\ a \in Addrs
    BY <1>8 DEF Remove, Return
  <2>2. \A u \in Threads : pc'[u] \in {"mmap", "insert"} <=> pc[u] \in {"mmap", "insert"}
    BY <2>1
  <2>3. NoFdLeak'
    BY <2>1, <2>2
  <2>4. \A c \in Addrs : shm_fd'[c] # None => files'[shm_fd'[c]] # 0
    BY <2>1
  <2>5. \A c, d \in Addrs : shm_fd'[c] # None /\ shm_fd'[c] = shm_fd'[d] => c = d
    BY <2>1
  <2>6. \A u \in Threads : pc'[u] \in {"mmap", "insert"} =>
            u # t /\ pc'[u] = pc[u] /\ fd'[u] = fd[u]
    BY <2>1
  <2>7. \A u \in Threads : pc'[u] \in {"mmap", "insert"} =>
          /\ files'[fd'[u]] # 0
          /\ \A c \in Addrs : shm_fd'[c] # fd'[u]
          /\ \A v \in Threads : pc'[v] \in {"mmap", "insert"} => (fd'[u] = fd'[v] => u = v)
    BY <2>1, <2>6
  <2> QED BY <2>3, <2>4, <2>5, <2>7
<1>9. ASSUME NEW t \in Threads, Ftruncate(t) PROVE FdInv'
  <2>1. CASE files[fd[t]] = 0
    <3>1. /\ pc[t] = "ftruncate" /\ pc' = [pc EXCEPT ![t] = "idle"]
          /\ fd' = [fd EXCEPT ![t] = None] /\ UNCHANGED <<shm_fd, files>>
      BY <1>9, <2>1 DEF Ftruncate, GiveBack, Return
    <3> QED BY ZenonT(30), <3>1
  <2>2. CASE files[fd[t]] # 0
    <3>1. /\ pc[t] = "ftruncate" /\ pc' = [pc EXCEPT ![t] = "mremap"]
          /\ files' = [files EXCEPT ![fd[t]] = to[t]] /\ UNCHANGED <<shm_fd, fd>>
      BY <1>9, <2>2 DEF Ftruncate
    <3>2. to[t] # 0 /\ fd[t] \in Fds
      BY <3>1
    <3> QED BY <3>1, <3>2, <2>2
  <2> QED BY <2>1, <2>2
<1>10. ASSUME NEW t \in Threads, MremapFails(t) PROVE FdInv'
  BY <1>10 DEF MremapFails, GiveBack, Return
<1>11. ASSUME NEW t \in Threads, NEW a \in Addrs, ShmMremap(t, a) PROVE FdInv'
  BY <1>11 DEF ShmMremap
<1>12. ASSUME NEW t \in Threads, Rekey(t) PROVE FdInv'
  <2> DEFINE a == arg[t].at
             n == to[t]
  <2>1. CASE shm_fd[a] = None
    BY <1>12, <2>1 DEF Rekey, Panic
  <2>2. CASE shm_fd[a] # None
    <3>1. /\ pc[t] = "rekey" /\ pc' = [pc EXCEPT ![t] = "idle"] /\ fd' = [fd EXCEPT ![t] = None]
          /\ shm_fd' = [[shm_fd EXCEPT ![a] = None] EXCEPT ![n] = shm_fd[a]]
          /\ files' = [f \in Fds |->
                         IF f = [shm_fd EXCEPT ![a] = None][n] THEN 0 ELSE files[f]]
          /\ a \in Addrs /\ n \in Addrs
      BY <1>12, <2>2 DEF Rekey, Return
    <3>2. /\ \A c \in Addrs : shm_fd'[c] = IF c = n THEN shm_fd[a]
                                           ELSE IF c = a THEN None ELSE shm_fd[c]
          /\ \A f \in Fds : files'[f] = IF n # a /\ f = shm_fd[n] THEN 0 ELSE files[f]
      BY <3>1, <2>2
    <3> HIDE DEF a, n
    <3>3. NoFdLeak'
      <4> SUFFICES ASSUME NEW f \in Fds, files'[f] # 0
                   PROVE  \/ \E c \in Addrs : shm_fd'[c] = f
                          \/ \E u \in Threads : pc'[u] \in {"mmap", "insert"} /\ fd'[u] = f
        OBVIOUS
      <4>1. files[f] # 0 /\ ~(n # a /\ f = shm_fd[n])
        BY <3>2
      <4>2. CASE \E c \in Addrs : shm_fd[c] = f
        <5> PICK c \in Addrs : shm_fd[c] = f
          BY <4>2
        <5>1. CASE c = a
          BY <5>1, <3>1, <3>2
        <5>2. CASE c # a
          BY <5>2, <4>1, <3>2, <3>1
        <5> QED BY <5>1, <5>2
      <4>3. CASE \E u \in Threads : pc[u] \in {"mmap", "insert"} /\ fd[u] = f
        BY <4>3, <3>1
      <4> QED BY <4>1, <4>2, <4>3
    <3>4. \A c \in Addrs : shm_fd'[c] # None => files'[shm_fd'[c]] # 0
      BY <3>1, <3>2
    <3>5. \A c, d \in Addrs : shm_fd'[c] # None /\ shm_fd'[c] = shm_fd'[d] => c = d
      BY <3>1, <3>2
    <3>6. \A u \in Threads : pc'[u] \in {"mmap", "insert"} =>
            u # t /\ pc'[u] = pc[u] /\ fd'[u] = fd[u]
      BY <3>1
    <3>7. \A u \in Threads : pc'[u] \in {"mmap", "insert"} =>
          /\ files'[fd'[u]] # 0
          /\ \A c \in Addrs : shm_fd'[c] # fd'[u]
          /\ \A v \in Threads : pc'[v] \in {"mmap", "insert"} => (fd'[u] = fd'[v] => u = v)
      BY <3>1, <3>2, <3>6
    <3> QED BY <3>3, <3>4, <3>5, <3>7
  <2> QED BY <2>1, <2>2
<1>13. ASSUME NEW t \in Threads, NEW b \in Of("shmem"), ShmDeallocate(t, b) PROVE FdInv'
  BY <1>13 DEF ShmDeallocate, Take
<1>14. ASSUME NEW t \in Threads, NEW b \in Of("shmem"), NEW s \in Sizes, ShmGrow(t, b, s)
       PROVE  FdInv'
  BY SMTT(30), <1>14 DEF ShmGrow, Take, Panic
<1>15. ASSUME NEW t \in Threads, NEW b \in Of("shmem"), NEW s \in Sizes, ShmShrink(t, b, s)
       PROVE  FdInv'
  BY <1>15 DEF ShmShrink
<1>16. CASE UNCHANGED vars
  BY <1>16 DEF vars
<1> QED
  BY <1>1, <1>2, <1>3, <1>4, <1>5, <1>6, <1>7, <1>8, <1>9, <1>10, <1>11, <1>12, <1>13,
     <1>14, <1>15, <1>16 DEF Next, MmapNext, ShmNext

-----------------------------------------------------------------------------
\* The three parts are inductive together.
OwnInv == TypeInv /\ PagesAccounted /\ FdInv

\* They hold of every behaviour.
THEOREM Ownership == Spec => []OwnInv
<1>1. Init => OwnInv
  <2> SUFFICES ASSUME Init PROVE OwnInv
    OBVIOUS
  <2>1. TypeInv
    BY DEF Init, TypeInv, LocalsOK, Kinds, PlacesOf, NoBlock, Block
  <2>2. PagesAccounted
    BY DEF Init, PagesAccounted, Owned
  <2>3. FdInv
    BY DEF Init, FdInv, NoFdLeak, Opening, InFlight
  <2> QED BY <2>1, <2>2, <2>3 DEF OwnInv
<1>2. OwnInv /\ [Next]_vars => OwnInv'
  BY TypeStep, PagesStep, FdStep DEF OwnInv
<1> QED BY <1>1, <1>2, PTL DEF Spec

\* For any threads, addresses and sizes: no page is leaked or in two blocks.
THEOREM PagesOnce == Spec => []PagesAccounted
<1>1. OwnInv => PagesAccounted
  BY DEF OwnInv
<1> QED BY <1>1, Ownership, PTL

\* ShmemAlloc leaks no descriptor, even where two threads race for an address.
THEOREM NoLeaks == Spec => []NoFdLeak
<1>1. OwnInv => NoFdLeak
  BY DEF OwnInv, FdInv
<1> QED BY <1>1, Ownership, PTL
=============================================================================
