------------------------------ MODULE TlsProofs -----------------------------
(***************************************************************************)
(* Thread-local storage, for any threads and any modules with segments of  *)
(* any size and alignment, loaded in any order: what the blocks hold, and  *)
(* the theorems.  The layout is in LoaderProofs, the lock in               *)
(* RegistryProofs.                                                         *)
(***************************************************************************)
EXTENDS RegistryProofs

\* Each step keeps the blocks behind the master.
LEMMA BlockStep ==
    ASSUME LTypeInv, PlaceInv, JobInv, TTypeInv, LayoutInv, LockInv, BlockInv, [Next]_vars
    PROVE  BlockInv'
<1> USE Sizes
<1>a. \A b \in Blocks : /\ tcb[b] \in Tcbs /\ tcb[b].load_size \in Nat /\ tcb[b].dyn_size \in Nat
                        /\ tcb[b].version \in Nat
  BY DEF TTypeInv, Tcbs
<1>1. ASSUME UNCHANGED <<tcb, rw>> PROVE BlockInv'
  BY <1>1 DEF BlockInv, Has
<1>2. ASSUME NEW t \in Threads, NEW m \in Modules, Allocates(t, m) PROVE BlockInv'
  <2>1. /\ tcb[Master].load_size <= tcb'[Master].load_size
        /\ tcb[Master].dyn_size <= tcb'[Master].dyn_size
    BY <1>2, <1>a, ExecSize DEF Allocates, Extends, LayoutInv, TTypeInv, Blocks
  <2>2. /\ \A u \in Threads : tcb'[u] = tcb[u] /\ rw'[u] = rw[u]
        /\ tcb'[Master].version = tcb[Master].version + 1
    BY <1>2 DEF Allocates, Extends
  <2>3. tcb'[Master].load_size \in Int /\ tcb'[Master].dyn_size \in Int
    BY <1>2, <1>a, ExecSize DEF Allocates, Extends, TTypeInv, Blocks
  <2> QED BY <1>a, <2>1, <2>2, <2>3 DEF BlockInv, Has, Blocks
<1>3. ASSUME NEW t \in Threads, Update(t), fate' = "running" PROVE BlockInv'
  <2>1. /\ tcb' = [tcb EXCEPT ![t] = tcb[Master]] /\ rw' = [rw EXCEPT ![t] = @ \cup Opened(t)]
    BY <1>3 DEF Update, Crash, update_tls
  <2>2. /\ tcb'[t] = tcb[Master] /\ tcb'[Master] = tcb[Master] /\ rw'[t] = rw[t] \cup Opened(t)
        /\ \A u \in Threads \ {t} : tcb'[u] = tcb[u] /\ rw'[u] = rw[u]
    BY <2>1 DEF TTypeInv, Blocks
  <2>3. ASSUME NEW o \in Int, Has(t, o)' PROVE o \in rw'[t]
    BY <2>2, <2>3, OpensMissing DEF Has, BlockInv
  <2>4. TcbSize <= tcb[Master].load_size
    BY DEF LayoutInv
  <2> QED BY <1>a, <2>2, <2>3, <2>4 DEF BlockInv, Has, Blocks
<1>4. ASSUME NEW t \in Threads, StartThread(t) PROVE BlockInv'
  <2>1. /\ tcb'[t] = NewTcb /\ tcb'[Master] = tcb[Master] /\ rw'[t] = Pages(0, TcbSize)
        /\ \A u \in Threads \ {t} : tcb'[u] = tcb[u] /\ rw'[u] = rw[u]
    BY <1>4 DEF StartThread, set_tp, TTypeInv, Blocks
  <2>2. ASSUME NEW o \in Int, 0 <= o, o < TcbSize PROVE o \in Pages(0, TcbSize)
    <3>1. RoundDown(0, Page) \in Int /\ RoundDown(0, Page) <= 0
      BY Rounding
    <3>2. RoundUp(TcbSize, Page) \in Int /\ TcbSize <= RoundUp(TcbSize, Page) /\ 0 + TcbSize = TcbSize
      BY Rounding
    <3> QED BY <2>2, <3>1, <3>2 DEF Pages
  <2>3. /\ tcb'[t].load_size = TcbSize /\ tcb'[t].dyn_size = 0 /\ tcb'[t].version = 0
        /\ TcbSize <= tcb[Master].load_size
    BY <2>1 DEF NewTcb, LayoutInv
  <2> QED BY <1>a, <2>1, <2>2, <2>3 DEF BlockInv, Has, Blocks
<1>5. ASSUME NEW t \in Threads, LoadTls(t) \/ UnlockWrite(t) \/ Access(t) PROVE UNCHANGED <<tcb, rw>>
  BY <1>5 DEF LoadTls, load_tls, UnlockWrite, Access, tvars
<1>6. ASSUME NEW t \in Threads, AllocTls(t), fate' = "running" PROVE BlockInv'
  BY <1>2, <1>6, AllocEffect DEF Allocates
<1> QED BY <1>1, <1>3, <1>4, <1>5, <1>6, TlsKinds DEF Still, Quiet, tvars
-----------------------------------------------------------------------------
\* A module's storage is part of the template, clear of the control block, and
\* apart from every other's.
LEMMA InMaster ==
    ASSUME ExecFits, TTypeInv, LayoutInv, NEW m \in Modules, Placed(m), NEW o \in Int, In(m, o)
    PROVE  Has(Master, o) /\ o \in Offsets /\ ~(0 <= o /\ o < TcbSize)
<1>1. /\ tcb[Master].load_size \in Nat /\ tcb[Master].dyn_size \in Nat /\ Size[m] \in Nat
      /\ offset[m] \in Int /\ TcbSize \in Nat /\ Half \in Nat
  BY Sizes DEF TTypeInv, Tcbs, Blocks
<1>2. CASE m = Exec
  BY <1>1, <1>2, ExecSize DEF LayoutInv, In, Has, Offsets, ExecFits
<1>3. CASE m # Exec
  BY <1>1, <1>3 DEF LayoutInv, In, Has, Offsets
<1> QED BY <1>2, <1>3

LEMMA Apart ==
    ASSUME TTypeInv, LayoutInv, NEW m \in Modules, Placed(m), NEW k \in Modules \ {m}, Placed(k),
           NEW o \in Int, In(m, o)
    PROVE  ~In(k, o)
<1>1. ASSUME NEW l \in Modules \ {Exec}, Placed(l), In(l, o) PROVE 0 <= o
  BY <1>1, Sizes DEF LayoutInv, In, TTypeInv
<1>2. ASSUME Placed(Exec), In(Exec, o) PROVE o < 0
  BY <1>2, Sizes, ExecSize DEF LayoutInv, In
<1>3. CASE m # Exec /\ k # Exec
  BY <1>3, Sizes DEF LayoutInv, In, TTypeInv
<1> QED BY <1>1, <1>2, <1>3

LEMMA Places == Offsets \subseteq Int
BY Sizes DEF Offsets

LEMMA Extents ==
    ASSUME TTypeInv, NEW m \in Modules, NEW o PROVE o \in Extent(m) <=> o \in Int /\ In(m, o)
BY Sizes DEF Extent, In, TTypeInv

\* update_tls copies exactly what the thread's block lacks.
LEMMA Copies ==
    ASSUME TTypeInv, NEW t \in Threads, NEW o \in Int
    PROVE  o \in Missing(t) <=> Has(Master, o) /\ ~Has(t, o)
BY Sizes DEF TTypeInv, Tcbs, Blocks, Missing, Has

\* Each step keeps the data.
LEMMA DataStep ==
    ASSUME ExecFits, LTypeInv, PlaceInv, JobInv, BootInv, TlsInv, [Next]_vars
    PROVE  DataInv'
<1>a. TTypeInv /\ LayoutInv /\ LockInv /\ BlockInv /\ DataInv
  BY DEF TlsInv
<1>b. /\ \A m \in loaded : m \in Modules /\ (Size[m] > 0 => Placed(m))
      /\ \A t \in Threads : Holds(t) => Placed(job[t]) /\ job[t] \in Modules /\ job[t] \notin loaded
      /\ \A t \in Threads : pc[t] = "address" => job[t] \in loaded /\ Size[job[t]] > 0
  BY DEF Placed, Holds, LTypeInv, PlaceInv, JobInv, Loading, Loads
<1>c. \A m \in loaded : Size[m] > 0 => Template(m)
  BY <1>a DEF DataInv
<1>d. \A t \in Threads : Holds(t) => Pending(t)
  BY <1>a DEF DataInv
<1>e. \A t \in Threads : pc[t] = "address" => \A o \in Int : In(job[t], o) => Has(t, o)
  BY <1>a DEF DataInv
<1>f. \A t \in Threads, o \in Offsets : data[t][o] = "own" => pc[t] # "off" /\ Has(t, o)
  BY <1>a DEF DataInv
<1>1. CASE Still
  BY <1>a, <1>1 DEF Still, tvars, DataInv, Template, Pending, Holds, In, Has
<1>2. ASSUME NEW t \in Threads, Quiet(t) PROVE DataInv'
  <2>1. /\ UNCHANGED <<tcb, offset, data, loaded>> /\ ~Holds(t)' /\ pc'[t] # "off"
        /\ \A u \in Threads \ {t} : pc'[u] = pc[u] /\ job'[u] = job[u]
        /\ pc'[t] = "address" => UpToDate(t) /\ job'[t] \in loaded /\ Size[job'[t]] > 0
    BY <1>2 DEF Quiet, tvars, Others
  <2>2. \A b, o : Has(b, o)' <=> Has(b, o)
    BY <2>1 DEF Has
  <2>3. \A m, o : In(m, o)' <=> In(m, o)
    BY <2>1 DEF In
  <2>4. ASSUME pc'[t] = "address", NEW o \in Int, In(job'[t], o) PROVE Has(t, o)
    <3>1. tcb[t] = tcb[Master]
      BY <1>a, <2>1, <2>4 DEF UpToDate, BlockInv
    <3>2. Has(Master, o)
      BY <1>a, <1>b, <2>1, <2>4, InMaster
    <3> QED BY <3>1, <3>2 DEF Has
  <2>5. \A m \in loaded' : Size[m] > 0 => Template(m)'
    BY <1>c, <2>1, <2>2, <2>3 DEF Template
  <2>6. \A u \in Threads : Holds(u)' => Pending(u)'
    BY <1>d, <2>1, <2>2, <2>3 DEF Pending, Holds
  <2> QED BY <1>e, <1>f, <2>1, <2>2, <2>3, <2>4, <2>5, <2>6 DEF DataInv
<1>3. ASSUME NEW t \in Threads, NEW m \in Modules, Allocates(t, m) PROVE DataInv'
  <2>1. /\ UNCHANGED <<job, loaded, data>> /\ job[t] = m /\ ~Placed(m) /\ pc[t] = "alloc_tls"
        /\ pc' = [pc EXCEPT ![t] = "load_tls"] /\ offset'[m] \in Int
        /\ \A k \in Modules \ {m} : offset'[k] = offset[k]
        /\ \A u \in Threads : tcb'[u] = tcb[u]
        /\ Extends(m)
    BY <1>3 DEF Allocates, Extends
  <2>2. \A u \in Threads, o \in Int : Has(u, o)' <=> Has(u, o)
    BY <2>1 DEF Has
  <2>3. \A k \in Modules \ {m}, o \in Int : In(k, o)' <=> In(k, o)
    BY <2>1 DEF In
  <2>4. /\ pc'[t] = "load_tls" /\ \A u \in Threads \ {t} : pc'[u] = pc[u]
    BY <2>1 DEF LTypeInv
  <2>5. ASSUME NEW o \in Int, In(m, o)', NEW u \in Threads PROVE ~Has(u, o)
    <3>1. /\ tcb[u].load_size \in Nat /\ tcb[u].dyn_size \in Nat /\ tcb[Master].load_size \in Nat
          /\ tcb[u].load_size <= tcb[Master].load_size /\ tcb[u].dyn_size <= tcb[Master].dyn_size
          /\ Size[m] \in Nat
      BY <1>a, Sizes DEF TTypeInv, Tcbs, Blocks, BlockInv
    <3>2. CASE m # Exec
      BY <1>a, <2>1, <2>5, <3>1, <3>2 DEF Extends, LayoutInv, In, Has
    <3>3. CASE m = Exec
      BY <1>a, <2>1, <2>5, <3>1, <3>3, ExecSize DEF Extends, LayoutInv, In, Has
    <3> QED BY <3>2, <3>3
  <2>6. \A k \in loaded' : Size[k] > 0 => Template(k)'
    BY <1>b, <1>c, <2>1, <2>2, <2>3 DEF Template
  <2>7. ASSUME NEW u \in Threads, Holds(u)' PROVE Pending(u)'
    <3>1. CASE u = t
      BY <2>1, <2>2, <2>4, <2>5, <3>1 DEF Pending
    <3>2. CASE u # t
      <4>1. Holds(u) /\ pc'[u] = pc[u] /\ job'[u] = job[u] /\ job[u] \in Modules \ {m}
        BY <1>b, <2>1, <2>4, <2>7, <3>2 DEF Holds
      <4> QED BY <1>d, <2>1, <2>2, <2>3, <4>1 DEF Pending
    <3> QED BY <3>1, <3>2
  <2>8. ASSUME NEW u \in Threads, pc'[u] = "address", NEW o \in Int, In(job[u], o)' PROVE Has(u, o)
    <3>1. pc[u] = "address" /\ job[u] \in Modules \ {m}
      BY <1>b, <2>1, <2>4, <2>8
    <3> QED BY <1>e, <2>1, <2>3, <2>8, <3>1
  <2> QED BY <1>f, <2>1, <2>2, <2>4, <2>6, <2>7, <2>8 DEF DataInv, Offsets
<1>4. ASSUME NEW t \in Threads, LoadTls(t) PROVE DataInv'
  <2> DEFINE m == job[t]
  <2>1. /\ UNCHANGED <<tcb, offset, job, loaded>> /\ pc[t] = "load_tls"
        /\ pc' = [pc EXCEPT ![t] = "unlock"]
        /\ \A u \in Threads : data'[u] = data[u]
        /\ data'[Master] = [o \in Offsets |-> IF o \in Extent(m) THEN m ELSE data[Master][o]]
    BY <1>4, <1>a, Sizes DEF LoadTls, load_tls, At, Goto, TTypeInv, Blocks
  <2>2. Holds(t) /\ Placed(m) /\ m \in Modules /\ m \notin loaded
    BY <1>a, <1>b, <2>1 DEF Holds, LockInv
  <2>3. \A u \in Threads : Holds(u) => u = t
    BY <1>a, <2>1, Alone DEF Holds, Works
  <2>4. \A o \in Int : In(m, o) <=> o \in Extent(m)
    BY <1>a, <2>2, Extents
  <2> HIDE DEF m
  <2>5. ASSUME NEW k \in loaded, Size[k] > 0 PROVE Template(k)'
    <3>1. Template(k) /\ Placed(k) /\ k \in Modules \ {m}
      BY <1>b, <1>c, <2>2, <2>5
    <3>2. ASSUME NEW o \in Int, In(k, o) PROVE data'[Master][o] = data[Master][o]
      BY <1>a, <2>1, <2>2, <2>4, <3>1, <3>2, InMaster, Apart
    <3> QED BY <2>1, <3>1, <3>2 DEF Template, In, Has
  <2>6. ASSUME NEW u \in Threads, Holds(u)' PROVE Pending(u)'
    <3>1. u = t
      BY <2>1, <2>3, <2>6 DEF Holds, LTypeInv
    <3>2. ASSUME NEW o \in Int, In(m, o) PROVE data'[Master][o] = m
      BY <1>a, <2>1, <2>2, <2>4, <3>2, InMaster
    <3>3. Pending(t)
      BY <1>d, <2>2
    <3> QED BY <2>1, <3>1, <3>2, <3>3 DEF Pending, In, Has, m
  <2>7. \A u \in Threads : pc'[u] # "off" <=> pc[u] # "off"
    BY <2>1 DEF LTypeInv
  <2>8. \A u \in Threads : pc'[u] = "address" => pc[u] = "address"
    BY <2>1 DEF LTypeInv
  <2> QED BY <1>e, <1>f, <2>1, <2>5, <2>6, <2>7, <2>8 DEF DataInv, In, Has
<1>5. ASSUME NEW t \in Threads, UnlockWrite(t) PROVE DataInv'
  <2>1. /\ UNCHANGED <<tcb, offset, data, job>> /\ pc[t] = "unlock" /\ loaded' = loaded \cup {job[t]}
        /\ pc'[t] = "update" /\ \A u \in Threads \ {t} : pc'[u] = pc[u]
    BY <1>5 DEF UnlockWrite, At, Goto, tvars, LTypeInv
  <2>2. (\A b, o : Has(b, o)' <=> Has(b, o)) /\ (\A m, o : In(m, o)' <=> In(m, o))
    BY <2>1 DEF Has, In
  <2>3. ASSUME Size[job[t]] > 0 PROVE Template(job[t])
    BY <1>d, <2>1, <2>3 DEF Holds, Pending, Template
  <2>4. \A m \in loaded' : Size[m] > 0 => Template(m)'
    BY <1>c, <2>1, <2>2, <2>3 DEF Template
  <2>5. \A u \in Threads : Holds(u)' => Pending(u)'
    BY <1>d, <2>1, <2>2 DEF Holds, Pending
  <2> QED BY <1>e, <1>f, <2>1, <2>2, <2>4, <2>5 DEF DataInv
<1>6. ASSUME NEW t \in Threads, Update(t), fate' = "running" PROVE DataInv'
  <2>1. update_tls(t) /\ UNCHANGED <<job, loaded>> /\ pc[t] = "updating" /\ pc' = [pc EXCEPT ![t] = then[t]]
    BY <1>6 DEF Update, Crash, At, Goto
  <2>2. /\ UNCHANGED offset /\ tcb'[t] = tcb[Master] /\ data'[Master] = data[Master]
        /\ \A u \in Threads \ {t} : tcb'[u] = tcb[u] /\ data'[u] = data[u]
        /\ \A o \in Offsets :
              data'[t][o] = IF o \in Missing(t) THEN data[Master][o] ELSE data[t][o]
    BY <1>a, <2>1 DEF update_tls, TTypeInv, Blocks
  <2>3. /\ pc'[t] = then[t] /\ then[t] \in {"idle", "init", "enter", "address"}
        /\ \A u \in Threads \ {t} : pc'[u] = pc[u]
    BY <2>1 DEF LTypeInv
  <2>4. \A u \in Threads : ~Holds(u)'
    <3>1. \A u \in Threads : ~Holds(u)
      BY <1>a, <2>1, Alone DEF Holds, Works
    <3> QED BY <2>1, <2>3, <3>1 DEF Holds
  <2>5. /\ \A m, o : In(m, o)' <=> In(m, o)
        /\ \A u \in Threads \ {t}, o \in Int : Has(u, o)' <=> Has(u, o)
        /\ \A o \in Int : (Has(t, o)' <=> Has(Master, o)) /\ (Has(t, o) => Has(Master, o))
    <3>1. \A o \in Int : Has(t, o) => Has(Master, o)
      BY <1>a DEF Has, BlockInv, TTypeInv, Tcbs, Blocks
    <3> QED BY <2>2, <3>1 DEF In, Has
  <2>6. ASSUME NEW m \in loaded, Size[m] > 0 PROVE Template(m)'
    <3>1. Template(m) /\ Placed(m) /\ m \in Modules
      BY <1>b, <1>c, <2>6
    <3>2. ASSUME NEW o \in Int, In(m, o) PROVE data'[t][o] \in {m, "own"}
      <4>1. o \in Offsets /\ Has(Master, o)
        BY <1>a, <3>1, <3>2, InMaster
      <4>2. o \in Missing(t) \/ Has(t, o)
        BY <1>a, <4>1, Copies
      <4> QED BY <2>2, <3>1, <3>2, <4>1, <4>2 DEF Template
    <3> QED BY <2>2, <2>5, <3>1, <3>2 DEF Template
  <2>7. ASSUME NEW u \in Threads, pc'[u] = "address", NEW o \in Int, In(job[u], o) PROVE Has(u, o)'
    <3>1. CASE u = t
      <4>1. job[t] \in loaded /\ Size[job[t]] > 0
        BY <2>3, <2>7, <3>1 DEF JobInv
      <4> QED BY <1>a, <1>b, <2>5, <2>7, <3>1, <4>1, InMaster
    <3>2. CASE u # t
      BY <1>e, <2>1, <2>3, <2>5, <2>7, <3>2
    <3> QED BY <3>1, <3>2
  <2>8. ASSUME NEW u \in Threads, NEW o \in Offsets, data'[u][o] = "own"
        PROVE  pc'[u] # "off" /\ Has(u, o)'
    <3>1. o \in Int
      BY Places
    <3>2. CASE u = t
      <4>1. Has(Master, o)
        <5>1. CASE o \in Missing(t)
          BY <1>a, <3>1, <5>1, Copies
        <5>2. CASE o \notin Missing(t)
          BY <1>f, <2>2, <2>5, <2>8, <3>1, <3>2, <5>2
        <5> QED BY <5>1, <5>2
      <4> QED BY <2>3, <2>5, <3>1, <3>2, <4>1
    <3>3. CASE u # t
      BY <1>f, <2>2, <2>3, <2>5, <2>8, <3>1, <3>3
    <3> QED BY <3>2, <3>3
  <2> QED BY <2>1, <2>4, <2>5, <2>6, <2>7, <2>8 DEF DataInv
<1>7. ASSUME NEW t \in Threads, StartThread(t) PROVE DataInv'
  <2>1. /\ UNCHANGED <<offset, job, loaded>> /\ tcb'[t] = NewTcb /\ data'[Master] = data[Master]
        /\ \A u \in Threads \ {t} : tcb'[u] = tcb[u] /\ data'[u] = data[u] /\ pc'[u] = pc[u]
        /\ data'[t] = [o \in Offsets |-> "zero"] /\ pc'[t] = "update"
    BY <1>7, <1>a, Sizes, Zenon DEF StartThread, set_tp, Goto, TTypeInv, LTypeInv, Blocks
  <2>2. /\ \A m, o : In(m, o)' <=> In(m, o)
        /\ \A u \in Threads \ {t}, o \in Int : Has(u, o)' <=> Has(u, o)
        /\ \A o \in Int : Has(t, o)' => 0 <= o /\ o < TcbSize
    <3>1. tcb'[t].load_size = TcbSize /\ tcb'[t].dyn_size = 0
      BY <2>1 DEF NewTcb
    <3> QED BY <2>1, <3>1 DEF In, Has
  <2>3. ASSUME NEW m \in Modules, Placed(m), NEW o \in Int, In(m, o) PROVE ~Has(t, o)'
    BY <1>a, <2>2, <2>3, InMaster
  <2>4. ASSUME NEW m \in loaded, Size[m] > 0 PROVE Template(m)'
    <3>1. Template(m) /\ \A o \in Int : In(m, o) => ~Has(t, o)'
      BY <1>b, <1>c, <2>3, <2>4
    <3> QED BY <2>1, <2>2, <3>1 DEF Template
  <2>5. ASSUME NEW u \in Threads, Holds(u)' PROVE Pending(u)'
    <3>1. Holds(u) /\ u # t /\ Pending(u) /\ Placed(job[u]) /\ job[u] \in Modules
      BY <1>b, <1>d, <2>1, <2>5 DEF Holds
    <3> QED BY <2>1, <2>2, <2>3, <3>1 DEF Pending
  <2>6. \A u \in Threads, o \in Offsets : data'[u][o] = "own" => pc'[u] # "off" /\ Has(u, o)'
    <3>1. \A o \in Offsets : o \in Int /\ data'[t][o] = "zero"
      BY <2>1, Places, Zenon
    <3> QED BY <1>f, <2>1, <2>2, <3>1
  <2>7. \A u \in Threads : pc'[u] = "address" => \A o \in Int : In(job[u], o)' => Has(u, o)'
    BY <1>e, <2>1, <2>2
  <2> QED BY <2>1, <2>4, <2>5, <2>6, <2>7 DEF DataInv
<1>8. ASSUME NEW t \in Threads, Access(t) PROVE DataInv'
  <2>1. /\ UNCHANGED <<tcb, offset, loaded>> /\ pc[t] = "address" /\ pc'[t] = "idle"
        /\ data'[Master] = data[Master]
        /\ \A u \in Threads \ {t} : data'[u] = data[u] /\ pc'[u] = pc[u] /\ job'[u] = job[u]
        /\ \A o \in Offsets : data'[t][o] = IF o \in Extent(job[t]) THEN "own" ELSE data[t][o]
    BY <1>8, <1>a, Sizes, Zenon DEF Access, Return, At, Goto, TTypeInv, LTypeInv, Blocks
  <2>2. (\A b, o : Has(b, o)' <=> Has(b, o)) /\ (\A m, o : In(m, o)' <=> In(m, o))
    BY <2>1 DEF Has, In
  <2>3. ASSUME NEW m \in loaded, Size[m] > 0 PROVE Template(m)'
    <3>1. Template(m) /\ \A o \in Int : In(m, o) => o \in Offsets
      BY <1>a, <1>b, <1>c, <2>3, InMaster
    <3> QED BY <2>1, <2>2, <3>1 DEF Template
  <2>4. \A u \in Threads : Holds(u)' => Pending(u)'
    BY <1>d, <2>1, <2>2 DEF Holds, Pending
  <2>5. ASSUME NEW o \in Offsets, o \in Extent(job[t]) PROVE Has(t, o)
    <3>1. o \in Int /\ In(job[t], o)
      BY <1>a, <1>b, <2>1, <2>5, Extents
    <3> QED BY <1>e, <2>1, <3>1
  <2>6. \A u \in Threads, o \in Offsets : data'[u][o] = "own" => pc'[u] # "off" /\ Has(u, o)'
    BY <1>f, <2>1, <2>2, <2>5
  <2>7. \A u \in Threads : pc'[u] = "address" => \A o \in Int : In(job'[u], o) => Has(u, o)
    BY <1>e, <2>1
  <2> QED BY <2>1, <2>2, <2>3, <2>4, <2>6, <2>7 DEF DataInv
<1>9. ASSUME NEW t \in Threads, AllocTls(t), fate' = "running" PROVE DataInv'
  BY <1>a, <1>3, <1>9, AllocEffect DEF Allocates
<1> QED BY <1>1, <1>2, <1>4, <1>5, <1>6, <1>7, <1>8, <1>9, TlsKinds
-----------------------------------------------------------------------------
\* The five parts together hold of every behaviour.
THEOREM TlsInvariance == ASSUME ExecFits PROVE Spec => [](LoaderInv /\ TlsInv)
<1>1. Init => TlsInv
  <2> SUFFICES ASSUME Init PROVE TlsInv
    OBVIOUS
  <2> USE Sizes DEF Init, TInit
  <2>1. TTypeInv
    <3>1. NewTcb \in Tcbs /\ Pages(0, TcbSize) \subseteq Int
      BY DEF Tcbs, NewTcb, Pages
    <3> QED BY <3>1 DEF TTypeInv
  <2>2. (\A m \in Modules : ~Placed(m)) /\ LockInv
    BY DEF Placed, Holds, LockInv, Works
  <2>3. LayoutInv
    BY <2>2 DEF LayoutInv, NewTcb, Blocks
  <2>4. \A t \in Threads, o \in Int : Has(t, o) => o \in rw[t]
    <3>1. RoundDown(0, Page) \in Int /\ RoundDown(0, Page) <= 0
      BY Rounding
    <3>2. RoundUp(TcbSize, Page) \in Int /\ TcbSize <= RoundUp(TcbSize, Page) /\ 0 + TcbSize = TcbSize
      BY Rounding
    <3> QED BY <3>1, <3>2 DEF Has, Pages, NewTcb, Blocks
  <2>5. BlockInv
    BY <2>4 DEF BlockInv, NewTcb, Blocks
  <2>6. DataInv
    BY <2>2 DEF DataInv, Holds, Blocks
  <2> QED BY <2>1, <2>2, <2>3, <2>5, <2>6 DEF TlsInv
<1>2. LoaderInv /\ TlsInv /\ [Next]_vars => TlsInv'
  BY TTypeStep, LayoutStep, LockStep, BlockStep, DataStep DEF LoaderInv, TlsInv
<1> QED BY <1>1, <1>2, LoaderInvariance, PTL DEF Spec

\* However large and however aligned the TLS segments are and in whatever order the
\* modules are loaded, alloc_tls keeps their storage apart and inside the block.
THEOREM StorageApart == ASSUME ExecFits PROVE Spec => []ModulesApart
<1>1. LoaderInv /\ TlsInv => ModulesApart
  <2> SUFFICES ASSUME LTypeInv, TTypeInv, LayoutInv, NEW m \in loaded, Size[m] > 0
               PROVE  /\ Extent(m) \subseteq (-tcb[Master].dyn_size) .. (tcb[Master].load_size - 1)
                      /\ Extent(m) \subseteq Offsets \ (0 .. (TcbSize - 1))
                      /\ offset[m] % Align[m] = 0
                      /\ \A k \in loaded \ {m} : Size[k] > 0 => Extent(m) \cap Extent(k) = {}
    BY DEF ModulesApart, LoaderInv, TlsInv
  <2>1. \A k \in loaded : k \in Modules /\ (Size[k] > 0 => Placed(k))
    BY DEF LTypeInv, Placed
  <2>2. \A k \in Modules : \A o : o \in Extent(k) <=> o \in Int /\ In(k, o)
    BY Extents
  <2>3. ASSUME NEW o \in Extent(m)
        PROVE  /\ o \in (-tcb[Master].dyn_size) .. (tcb[Master].load_size - 1)
               /\ o \in Offsets \ (0 .. (TcbSize - 1))
    <3>1. Has(Master, o) /\ o \in Offsets /\ ~(0 <= o /\ o < TcbSize) /\ o \in Int
      BY <2>1, <2>2, <2>3, InMaster
    <3> QED BY <3>1, Sizes DEF Has, TTypeInv, Tcbs, Blocks
  <2>4. offset[m] % Align[m] = 0
    BY <2>1, ExecSize DEF LayoutInv
  <2>5. ASSUME NEW k \in loaded \ {m}, Size[k] > 0, NEW o \in Extent(m) PROVE o \notin Extent(k)
    BY <2>1, <2>2, <2>5, Apart
  <2> QED BY <2>3, <2>4, <2>5
<1> QED BY <1>1, TlsInvariance, PTL

\* What __tls_get_addr returns is there, although the versions are compared without
\* LOAD_LOCK, for any number of threads.
THEOREM AddressesReady == ASSUME ExecFits PROVE Spec => []AddressReady
<1>1. LoaderInv /\ TlsInv => AddressReady
  <2> SUFFICES ASSUME LoaderInv, TlsInv, NEW t \in Threads, pc[t] = "address",
                      NEW o \in Extent(job[t])
               PROVE  o \in rw[t] /\ data[t][o] \in {job[t], "own"}
    BY DEF AddressReady, At
  <2>1. job[t] \in loaded /\ Size[job[t]] > 0 /\ job[t] \in Modules
    BY DEF LoaderInv, LTypeInv, PlaceInv, JobInv
  <2>2. o \in Int /\ In(job[t], o)
    BY <2>1, Extents DEF TlsInv
  <2>3. Has(t, o)
    BY <2>2 DEF TlsInv, DataInv
  <2> QED BY <2>1, <2>2, <2>3 DEF TlsInv, DataInv, Template, BlockInv
<1> QED BY <1>1, TlsInvariance, PTL

\* Equal versions mean equal blocks.
THEOREM VersionsTell == ASSUME ExecFits PROVE Spec => []VersionTellsAll
<1>1. TlsInv => VersionTellsAll
  BY DEF TlsInv, BlockInv, VersionTellsAll
<1> QED BY <1>1, TlsInvariance, PTL

\* update_tls never overwrites what a thread has stored in its block.
THEOREM OwnDataStays == ASSUME ExecFits PROVE Spec => OwnDataKept
<1>1. LoaderInv /\ TlsInv /\ [Next]_vars => [\A t \in Threads, o \in Offsets :
          data[t][o] = "own" => data'[t][o] = "own"]_vars
  <2> SUFFICES ASSUME LoaderInv, TlsInv, [Next]_vars, NEW t \in Threads, NEW o \in Offsets,
                      data[t][o] = "own"
               PROVE  data'[t][o] = "own"
    OBVIOUS
  <2>1. LTypeInv /\ PlaceInv /\ TTypeInv /\ o \in Int /\ pc[t] # "off" /\ Has(t, o)
    BY DEF LoaderInv, TlsInv, DataInv, Offsets
  <2>2. ASSUME NEW u \in Threads, LoadTls(u) PROVE data'[t] = data[t]
    BY <2>1, <2>2, Sizes DEF LoadTls, load_tls, TTypeInv, Blocks
  <2>3. ASSUME NEW u \in Threads, Update(u), fate' = "running" PROVE data'[t][o] = "own"
    <3>1. data' = [data EXCEPT ![u] =
                     [x \in Offsets |-> IF x \in Missing(u) THEN data[Master][x] ELSE @[x]]]
      BY <2>3 DEF Update, Crash, update_tls
    <3>2. o \notin Missing(t)
      BY <2>1, Copies
    <3> QED BY <2>1, <3>1, <3>2 DEF TTypeInv, Blocks
  <2>4. ASSUME NEW u \in Threads, StartThread(u) PROVE data'[t] = data[t]
    BY <2>1, <2>4 DEF StartThread, set_tp, At, TTypeInv, Blocks
  <2>5. ASSUME NEW u \in Threads, Access(u) PROVE data'[t][o] = "own"
    BY <2>1, <2>5 DEF Access, TTypeInv, Blocks
  <2>6. ASSUME NEW u \in Threads, AllocTls(u), fate' = "running" PROVE data' = data
    BY <2>6 DEF AllocTls, alloc_tls, Crash, tvars
  <2> QED BY <2>1, <2>2, <2>3, <2>4, <2>5, <2>6, TlsKinds DEF Still, Quiet, UnlockWrite, tvars
<1> QED BY <1>1, TlsInvariance, PTL DEF Spec, OwnDataKept
=============================================================================
