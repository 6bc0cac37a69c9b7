---------------------------- MODULE ProcessProofs ---------------------------
(***************************************************************************)
(* The handle table, the children and the results of CreateProcess, for    *)
(* any number of slots, descriptors, files and children.                   *)
(*                                                                         *)
(* HandleInv is about the two tables and PlaceInv about the handle a call  *)
(* is working on; ChildInv adds that a child has one handle at most, and   *)
(* ExactInv follows the packets of the child that is being created.        *)
(***************************************************************************)
EXTENDS Process, FiniteSetTheorems, SequenceTheorems, TLAPS

HandleRecords == [ty : HandleTypes, fd : Fds \cup {-1}, obj : Objects]

\* What can be in a slot: only a process handle may be without a descriptor.
Proper(h) == \/ h = Zeroed
             \/ h.ty = "PROC" /\ h.obj \in Procs
             \/ h.ty \in {"IO", "IO_FILE"} /\ h.fd # -1 /\ h.obj \in Std \cup Files

HandleInv == /\ HTypeOK
             /\ \A s \in Slots : Proper(table[s])
             /\ LiveCounts
             /\ HandlesReachTheirObject
             /\ held \subseteq Used
             /\ held = {} => HInit
             /\ held # {} => 2 \in Slots /\ \A s \in 0 .. 2 : s \in held /\ table[s].ty = "IO"

\* The places of CreateProcess with a handle and no pidfd, with both, and in the
\* waitid behind a failed recvmsg, where the handle is closed again.
Waiting == {"fork", "recvmsg", "in recvmsg"}
Reading == {"read", "in read"}
Giving == {"waitid", "in waitid"}
Joining == {"join", "in join"}
Creating == Waiting \cup Reading

PlaceInv == /\ pc \in Places /\ cur \in Procs /\ slot \in Slots
            /\ held = {} => pc = "idle"
            /\ pc \in Creating => /\ slot \notin held
                                  /\ table[slot].ty = "PROC" /\ table[slot].obj = cur
            /\ pc \in Waiting => table[slot].fd = -1 /\ WriteFd # {}
            /\ pc \in Reading => table[slot].fd # -1
            /\ pc \in Joining => slot \in held /\ table[slot].ty = "PROC"
            /\ \A s \in held : table[s].fd # -1

\* A child has one handle at most, which it keeps until it is reaped.
ChildInv == /\ proc \in [Procs -> ProcStates]
            /\ result \in [Procs -> {"none", "ok", "err"}]
            /\ pc \in Creating \cup Giving => result[cur] = "none" /\ proc[cur] # "reaped"
            /\ \A s \in Slots : table[s].ty = "PROC" =>
                 /\ result[table[s].obj] # "none" \/ (pc \in Creating /\ s = slot)
                 /\ table[s].fd # -1 => proc[table[s].obj] # "reaped"
                 /\ \A r \in Slots : table[r].ty = "PROC" /\ table[r].obj = table[s].obj => r = s

\* What a child has sent, not counting the pidfd once it is received.
Sent(p, rights) ==
    \/ proc[p] = "forked" /\ queue[p] = <<>> /\ rights # <<>>
    \/ proc[p] = "sent" /\ queue[p] = rights
    \/ proc[p] \in {"running", "zombie"} /\ p \in execd /\ queue[p] = rights
    \/ /\ proc[p] \in {"failing", "zombie"} /\ p \notin execd
       /\ queue[p] = <<"errno">> \/ (queue[p] = <<"rights", "errno">> /\ rights # <<>>)

\* The children whose execve has failed, or whose fork has: they cannot succeed
\* any more.
Failed(p) == proc[p] \in {"none", "failing", "zombie", "reaped"} /\ p \notin execd

PacketTypes == {"rights", "errno"}

ExactInv == /\ proc \in [Procs -> ProcStates] /\ queue \in [Procs -> Seq(PacketTypes)]
            /\ \A p \in Procs : /\ proc[p] = "none" => queue[p] = <<>>
                                /\ proc[p] \in {"none", "forked", "sent", "failing"} => p \notin execd
            /\ pc = "fork" => proc[cur] = "none"
            /\ cur \notin disturbed =>
                 /\ pc \in {"recvmsg", "in recvmsg"} => Sent(cur, <<"rights">>)
                 /\ pc \in Reading => Sent(cur, <<>>)
                 /\ pc \in Giving => Failed(cur) /\ proc[cur] # "none"
            /\ \A p \in Procs \ disturbed : /\ result[p] = "ok" => p \in execd
                                            /\ result[p] = "err" => Failed(p)
-----------------------------------------------------------------------------
(* The handle table: what its operations keep. *)

\* A slot that is taken or freed changes the number of slots in use by one, and
\* there are never more than the table has.
LEMMA Counting ==
    ASSUME NEW U \in SUBSET Slots
    PROVE  /\ Cardinality(U) \in 0 .. NHANDLES
           /\ \A s \in Slots \ U : Cardinality(U \cup {s}) = Cardinality(U) + 1
           /\ \A s \in U : Cardinality(U \ {s}) = Cardinality(U) - 1
<1>1. IsFiniteSet(Slots) /\ Cardinality(Slots) = NHANDLES
  BY FS_Interval, HandlesAssumption DEF Slots
<1>2. IsFiniteSet(U) /\ Cardinality(U) <= NHANDLES /\ Cardinality(U) \in Nat
  BY <1>1, FS_Subset, FS_CardinalityType
<1>3. \A s \in Slots \ U : Cardinality(U \cup {s}) = Cardinality(U) + 1
  BY <1>2, FS_AddElement
<1>4. \A s \in U : Cardinality(U \ {s}) = Cardinality(U) - 1
  BY <1>2, FS_RemoveElement
<1> QED BY <1>2, <1>3, <1>4, HandlesAssumption

\* The objects that handles stand for are no sockets, and they are open.
LEMMA Reached ==
    ASSUME HandleInv, NEW s \in Slots, InUse(s), table[s].fd # -1
    PROVE  /\ table[s].fd \in Fds
           /\ fds[table[s].fd] = table[s].obj
           /\ fds[table[s].fd] \notin Sockets \cup {"closed"}
<1>1. table[s] \in HandleRecords /\ Proper(table[s])
  BY DEF HandleInv, HTypeOK, HandleRecords
<1>2. table[s].fd \in Fds /\ table[s].fd >= 0
  BY <1>1, HandlesAssumption DEF HandleRecords, Fds
<1>3. fds[table[s].fd] = table[s].obj
  BY <1>2 DEF HandleInv, HandlesReachTheirObject, Used
<1>4. table[s].obj \in Std \cup Files \cup Procs
  BY <1>1 DEF Proper, InUse, Zeroed, NewHandle
<1> QED BY <1>2, <1>3, <1>4, HandlesAssumption DEF Std, Sockets

\* A step that writes one slot, or none, keeps HandleInv if it leaves the objects
\* of the other handles alone and gives none of their descriptors away.
LEMMA OneSlot ==
    ASSUME HandleInv, held # {}, NEW z \in Slots, NEW h \in HandleRecords, Proper(h),
           table' = [table EXCEPT ![z] = h], start_hint' \in Slots, fds' \in [Fds -> Objects],
           live' = Cardinality(Used'),
           held' \subseteq Used', held \subseteq held' \cup {z},
           table[z].ty = "IO" => h.ty = "IO" /\ z \in held',
           \A r \in Slots \ {z} : InUse(r) /\ table[r].fd # -1
              => fds'[table[r].fd] = fds[table[r].fd] /\ (h.ty # "0" => table[r].fd # h.fd),
           h.ty # "0" /\ h.fd # -1 => fds'[h.fd] = h.obj
    PROVE  HandleInv'
<1>1. table \in [Slots -> HandleRecords] /\ held \subseteq Slots
  BY DEF HandleInv, HTypeOK, HandleRecords
<1>2. /\ table' \in [Slots -> HandleRecords] /\ table'[z] = h
      /\ \A r \in Slots \ {z} : table'[r] = table[r]
  BY <1>1
<1>3. live' \in 0 .. NHANDLES
  BY Counting DEF Used
<1>4. HandlesReachTheirObject'
  <2>1. \A r \in Slots \ {z} : InUse(r) /\ table[r].fd # -1
           => fds'[table[r].fd] = table[r].obj /\ (h.ty # "0" => table[r].fd # h.fd)
    BY Reached
  <2>2. \A r, q \in Used : table[r].fd # -1 /\ table[q].fd = table[r].fd => q = r
    BY <1>1, HandlesAssumption DEF HandleInv, HandlesReachTheirObject, HandleRecords, Fds, Used
  <2>3. \A r \in Slots : InUse(r)' <=> IF r = z THEN h.ty # "0" ELSE InUse(r)
    BY <1>2 DEF InUse
  <2> SUFFICES ASSUME NEW r \in Slots, InUse(r)', table'[r].fd # -1
               PROVE  /\ fds'[table'[r].fd] = table'[r].obj
                      /\ \A q \in Slots : InUse(q)' /\ table'[q].fd = table'[r].fd => q = r
    BY DEF HandlesReachTheirObject, Used
  <2>4. CASE r = z
    BY <2>1, <2>3, <2>4, <1>2
  <2>5. CASE r # z
    BY <2>1, <2>2, <2>3, <2>5, <1>2 DEF Used
  <2> QED BY <2>4, <2>5
<1>5. \A r \in Slots : Proper(table'[r])
  BY <1>2 DEF HandleInv
<1>6. 2 \in Slots /\ \A r \in 0 .. 2 : r \in held' /\ table'[r].ty = "IO"
  <2>1. 2 \in Slots /\ \A r \in 0 .. 2 : r \in held /\ table[r].ty = "IO"
    BY DEF HandleInv
  <2> QED BY <2>1, <1>1, <1>2
<1>7. HTypeOK' /\ held' # {}
  BY <1>2, <1>3, <1>6 DEF HTypeOK, HandleRecords, Used
<1> QED BY <1>4, <1>5, <1>6, <1>7 DEF HandleInv, LiveCounts, Proper

\* insert_handle, for a handle whose descriptor, if it has one, is new.
LEMMA TableInsert ==
    ASSUME NEW s \in Slots, HandleInv, held # {}, held' \in {held, held \cup {s}},
           NEW h \in HandleRecords, Proper(h), h.ty # "0",
           insert_handle(s, h), fds' \in [Fds -> Objects],
           \A d \in Fds : fds[d] # "closed" => fds'[d] = fds[d],
           h.fd # -1 => fds[h.fd] = "closed" /\ fds'[h.fd] = h.obj
    PROVE  HandleInv' /\ s \notin Used /\ table' = [table EXCEPT ![s] = h]
<1>1. ~InUse(s) /\ live' = live + 1 /\ start_hint' = s /\ table' = [table EXCEPT ![s] = h]
  BY DEF insert_handle, FirstFree
<1>2. table \in [Slots -> HandleRecords]
  BY DEF HandleInv, HTypeOK, HandleRecords
<1>3. Used' = Used \cup {s} /\ s \notin Used /\ Used \subseteq Slots
  BY <1>1, <1>2 DEF Used, InUse
<1>4. live' = Cardinality(Used')
  BY <1>1, <1>3, Counting DEF HandleInv, LiveCounts
<1>5. held' \subseteq Used' /\ held \subseteq held'
  BY <1>3 DEF HandleInv
<1>6. \A r \in Slots \ {s} : InUse(r) /\ table[r].fd # -1
         => fds'[table[r].fd] = fds[table[r].fd] /\ table[r].fd # h.fd
  BY Reached
<1> QED BY <1>1, <1>3, <1>4, <1>5, <1>6, OneSlot DEF InUse

\* Handle::close of a process handle, in CreateProcess with the socket pair.
LEMMA TableClose ==
    ASSUME NEW s \in Slots, HandleInv, held # {}, held' = held \ {s}, table[s].ty = "PROC",
           NEW also \in {{}, SocketFds}, close_handle(s, also), start_hint' = start_hint
    PROVE  HandleInv' /\ table' = [table EXCEPT ![s] = Zeroed]
<1>1. /\ live' = live - 1 /\ table' = [table EXCEPT ![s] = Zeroed]
      /\ fds' = [d \in Fds |-> IF d \in {table[s].fd} \cup also THEN "closed" ELSE fds[d]]
  BY DEF close_handle, CloseFds
<1>2. /\ table \in [Slots -> HandleRecords] /\ fds \in [Fds -> Objects]
      /\ start_hint' \in Slots
  BY DEF HandleInv, HTypeOK, HandleRecords
<1>3. Zeroed \in HandleRecords /\ Proper(Zeroed) /\ Zeroed.ty = "0"
  BY HandlesAssumption DEF Zeroed, NewHandle, HandleRecords, HandleTypes, Objects, Fds, Proper
<1>4. Used' = Used \ {s} /\ s \in Used /\ Used \subseteq Slots
  BY <1>1, <1>2, <1>3 DEF Used, InUse
<1>5. live' = Cardinality(Used')
  BY <1>1, <1>4, Counting DEF HandleInv, LiveCounts
<1>6. held' \subseteq Used' /\ held \subseteq held' \cup {s}
  BY <1>4 DEF HandleInv
<1>7. \A r \in Slots \ {s} : InUse(r) /\ table[r].fd # -1
         => fds'[table[r].fd] = fds[table[r].fd]
  <2> SUFFICES ASSUME NEW r \in Slots \ {s}, InUse(r), table[r].fd # -1
               PROVE  fds'[table[r].fd] = fds[table[r].fd]
    OBVIOUS
  <2>1. table[r].fd \in Fds /\ fds[table[r].fd] \notin Sockets
    BY Reached
  <2>2. table[r].fd >= 0 /\ table[r].fd # table[s].fd
    BY <1>4, <2>1, HandlesAssumption DEF HandleInv, HandlesReachTheirObject, Used, Fds
  <2> QED BY <1>1, <2>1, <2>2 DEF SocketFds
<1>8. fds' \in [Fds -> Objects]
  BY <1>1, <1>2 DEF Objects
<1> QED BY <1>1, <1>2, <1>3, <1>5, <1>6, <1>7, <1>8, OneSlot

\* Descriptors that no handle has may be opened and closed, and a handle may be
\* given to the program.
LEMMA FdsOnly ==
    ASSUME HandleInv, held # {}, UNCHANGED <<table, live, start_hint>>,
           held \subseteq held', held' \subseteq Used, fds' \in [Fds -> Objects],
           \A d \in Fds : fds[d] \notin Sockets \cup {"closed"} => fds'[d] = fds[d]
    PROVE  HandleInv'
<1>1. table \in [Slots -> HandleRecords] /\ start_hint' \in Slots /\ 0 \in Slots
  BY HandlesAssumption DEF HandleInv, HTypeOK, HandleRecords, Slots
<1>2. table' = [table EXCEPT ![0] = table[0]] /\ table[0] \in HandleRecords
  BY <1>1
<1>3. Used' = Used /\ live' = Cardinality(Used')
  BY DEF Used, InUse, HandleInv, LiveCounts
<1>4. table[0].ty = "IO" /\ 0 \in held' /\ Proper(table[0])
  BY <1>1 DEF HandleInv
<1>5. \A r \in Slots : InUse(r) /\ table[r].fd # -1
         => /\ fds'[table[r].fd] = fds[table[r].fd] /\ fds'[table[r].fd] = table[r].obj
  BY Reached
<1>6. \A r \in Slots \ {0} : InUse(r) /\ table[r].fd # -1 => table[r].fd # table[0].fd
  BY <1>1, <1>4, HandlesAssumption DEF HandleInv, HandlesReachTheirObject, HandleRecords, Fds, Used, InUse
<1>7. table[0].fd # -1 => fds'[table[0].fd] = table[0].obj
  BY <1>1, <1>4, <1>5 DEF InUse
<1>8. \A r \in Slots \ {0} : InUse(r) /\ table[r].fd # -1
         => /\ fds'[table[r].fd] = fds[table[r].fd]
            /\ table[0].ty # "0" => table[r].fd # table[0].fd
  BY <1>5, <1>6
<1>9. held' \subseteq Used' /\ held \subseteq held' \cup {0}
  BY <1>3
<1> QED BY <1>1, <1>2, <1>3, <1>4, <1>7, <1>8, <1>9, OneSlot

\* get_init_handles fills the first three slots of the empty table.
LEMMA TableStart ==
    ASSUME HandleInv, GetInitHandles
    PROVE  HandleInv'
<1>1. /\ 0 \in Slots /\ 1 \in Slots /\ 2 \in Slots /\ 0 .. 2 = {0, 1, 2}
      /\ 0 \in Fds /\ 1 \in Fds /\ 2 \in Fds
  BY HandlesAssumption DEF GetInitHandles, Slots, Fds
<1>2. /\ fds'[0] = "stdin" /\ fds'[1] = "stdout" /\ fds'[2] = "stderr"
      /\ fds' \in [Fds -> Objects]
  BY <1>1 DEF HandleInv, HInit, GetInitHandles, Objects, Std
<1>3. /\ table'[0] = NewHandle("IO", 0, "stdin")
      /\ table'[1] = NewHandle("IO", 1, "stdout")
      /\ table'[2] = NewHandle("IO", 2, "stderr")
      /\ \A s \in Slots \ {0, 1, 2} : table'[s] = Zeroed
      /\ DOMAIN table' = Slots /\ table' = [s \in Slots |-> table'[s]]
  BY <1>1 DEF GetInitHandles
<1>4. \A s \in Slots : table'[s] \in HandleRecords /\ Proper(table'[s])
  BY <1>1, <1>3 DEF NewHandle, Zeroed, HandleRecords, HandleTypes, Objects, Std, Proper
<1>5. Used' = 0 .. 2
  BY <1>1, <1>3 DEF Used, InUse, NewHandle, Zeroed
<1>6. live' = 3 /\ held' = 0 .. 2 /\ start_hint' = 2
  BY <1>1 DEF GetInitHandles
<1>7. LiveCounts'
  <2>1. Cardinality({0}) = 1
    BY FS_Singleton
  <2>2. Cardinality({0} \cup {1}) = 2
    BY <1>1, <2>1, Counting
  <2>3. Cardinality({0, 1} \cup {2}) = 3
    <3>1. {0} \cup {1} = {0, 1}
      OBVIOUS
    <3> QED BY <1>1, <2>2, <3>1, Counting
  <2>4. {0, 1} \cup {2} = Used'
    BY <1>1, <1>5
  <2> QED BY <1>6, <2>3, <2>4 DEF LiveCounts
<1>8. HandlesReachTheirObject'
  BY <1>1, <1>2, <1>3, <1>5 DEF HandlesReachTheirObject, NewHandle
<1>9. live' \in 0 .. NHANDLES
  BY <1>6, HandlesAssumption DEF GetInitHandles
<1>10. HTypeOK'
  BY <1>1, <1>2, <1>3, <1>4, <1>6, <1>9 DEF HTypeOK, HandleRecords
<1>11. \A s \in 0 .. 2 : table'[s].ty = "IO"
  BY <1>1, <1>3 DEF NewHandle
<1> QED BY <1>1, <1>4, <1>5, <1>6, <1>7, <1>8, <1>10, <1>11 DEF HandleInv, Proper

\* The pidfd that arrives on a free descriptor becomes the new handle's.
LEMMA TakesPidfd ==
    ASSUME HandleInv, PlaceInv, pc \in Waiting, NEW d \in Fds, LowestFree(d), TakeRights(d),
           UNCHANGED <<start_hint, held>>
    PROVE  /\ HandleInv'
           /\ table' = [table EXCEPT ![slot] = NewHandle("PROC", d, cur)]
<1>1. /\ slot \in Slots /\ cur \in Procs /\ held # {} /\ slot \notin held
      /\ table[slot].ty = "PROC" /\ table[slot].obj = cur
  BY DEF PlaceInv, Waiting, Creating
<1>2. table \in [Slots -> HandleRecords] /\ fds \in [Fds -> Objects]
  BY DEF HandleInv, HTypeOK, HandleRecords
<1>3. table' = [table EXCEPT ![slot] = NewHandle("PROC", d, cur)]
  <2>1. [table[slot] EXCEPT !.fd = d] = NewHandle("PROC", d, cur)
    BY <1>1, <1>2 DEF HandleRecords, NewHandle
  <2>2. table' = [table EXCEPT ![slot] = [table[slot] EXCEPT !.fd = d]]
    BY DEF TakeRights
  <2> QED BY <2>1, <2>2
<1>4. PICK e \in Fds : /\ fds[e] = "write end"
                       /\ fds' = [fds EXCEPT ![d] = cur, ![e] = "closed"]
  BY DEF PlaceInv, WriteFd, TakeRights
<1>5. fds[d] = "closed" /\ d # e /\ d # -1
  <2>1. d # -1
    BY HandlesAssumption DEF Fds
  <2> QED BY <1>4, <2>1 DEF LowestFree
<1>6. /\ fds' \in [Fds -> Objects] /\ fds'[d] = cur
      /\ \A c \in Fds : fds[c] \notin Sockets \cup {"closed"} => fds'[c] = fds[c]
  BY <1>1, <1>2, <1>4, <1>5 DEF Objects, Sockets
<1>7. LET h == NewHandle("PROC", d, cur)
      IN  h \in HandleRecords /\ Proper(h) /\ h.ty = "PROC" /\ h.fd = d /\ h.obj = cur
  BY <1>1 DEF NewHandle, HandleRecords, HandleTypes, Objects, Proper
<1>8. Used' = Used /\ live' = Cardinality(Used')
  <2>1. Used' = Used
    BY <1>1, <1>2, <1>3, <1>7 DEF Used, InUse
  <2> QED BY <2>1 DEF HandleInv, LiveCounts, TakeRights
<1>9. held' \subseteq Used' /\ start_hint' \in Slots
  BY <1>8 DEF HandleInv, HTypeOK
<1>10. \A r \in Slots \ {slot} : InUse(r) /\ table[r].fd # -1
          => fds'[table[r].fd] = fds[table[r].fd] /\ table[r].fd # d
  BY <1>5, <1>6, Reached
<1>11. PICK h \in HandleRecords : /\ h = NewHandle("PROC", d, cur) /\ Proper(h)
                                  /\ h.ty = "PROC" /\ h.fd = d /\ h.obj = cur
  BY <1>7
<1>12. table' = [table EXCEPT ![slot] = h] /\ held \subseteq held' \cup {slot}
  BY <1>3, <1>11
<1>13. HandleInv'
  BY <1>1, <1>6, <1>8, <1>9, <1>10, <1>11, <1>12, OneSlot
<1> QED BY <1>3, <1>13
-----------------------------------------------------------------------------
\* Every step keeps the two tables consistent.
LEMMA HandleStep ==
    ASSUME HandleInv, PlaceInv, [Next]_vars
    PROVE  HandleInv'
<1>0. /\ table \in [Slots -> HandleRecords] /\ fds \in [Fds -> Objects]
      /\ held \subseteq Used /\ slot \in Slots /\ cur \in Procs
      /\ -1 \notin Fds /\ 0 \in Slots
  BY HandlesAssumption DEF HandleInv, HTypeOK, HandleRecords, PlaceInv, Fds, Slots
<1>1. ASSUME NEW p \in Procs, NEW s \in Slots, NEW rd \in Fds, NEW wr \in Fds, Begin(p, s, rd, wr)
      PROVE  HandleInv'
  <2>1. LET h == NewHandle("PROC", -1, p)
        IN  h \in HandleRecords /\ Proper(h) /\ h.ty = "PROC" /\ h.fd = -1
    BY DEF NewHandle, HandleRecords, HandleTypes, Objects, Proper
  <2>2. /\ fds' \in [Fds -> Objects]
        /\ \A d \in Fds : fds[d] # "closed" => fds'[d] = fds[d]
    BY <1>0, <1>1 DEF Begin, LowestFree, Objects, Sockets
  <2>3. held # {} /\ held' = held /\ insert_handle(s, NewHandle("PROC", -1, p))
    BY <1>1 DEF Begin
  <2> HIDE DEF NewHandle
  <2> QED BY <2>1, <2>2, <2>3, TableInsert
<1>2. CASE ForkFails \/ WaitPid \/ ReadNothing
  <2>1. /\ CloseFds(SocketFds) /\ UNCHANGED <<table, start_hint, live>>
        /\ held' \in {held, held \cup {slot}} /\ pc # "idle"
        /\ held' # held => pc \in Reading
    BY <1>2 DEF ForkFails, WaitPid, ReadNothing, Reading
  <2>2. /\ fds' \in [Fds -> Objects]
        /\ \A d \in Fds : fds[d] \notin Sockets \cup {"closed"} => fds'[d] = fds[d]
    BY <1>0, <2>1 DEF CloseFds, SocketFds, Objects
  <2>3. held # {} /\ held' \subseteq Used
    BY <1>0, <2>1 DEF PlaceInv, Creating, Used, InUse
  <2> QED BY <2>1, <2>2, <2>3, FdsOnly
<1>3. CASE Receive
  <2>1. pc \in Waiting /\ UNCHANGED <<start_hint, held>>
    BY <1>3 DEF Receive, Waiting
  <2>2. CASE close_handle(slot, {})
    <3>1. table[slot].ty = "PROC" /\ held # {} /\ held' = held \ {slot}
      BY <2>1 DEF PlaceInv, Creating, Waiting
    <3> QED BY <1>0, <2>1, <2>2, <3>1, TableClose
  <2>3. CASE \E d \in Fds : LowestFree(d) /\ TakeRights(d)
    BY <2>1, <2>3, TakesPidfd
  <2> QED BY <1>3, <2>2, <2>3 DEF Receive
<1>4. CASE ReceiveInterrupted
  <2>1. table[slot].ty = "PROC" /\ held # {} /\ held' = held \ {slot}
    BY <1>4 DEF ReceiveInterrupted, PlaceInv, Creating, Waiting
  <2> QED BY <1>0, <1>4, <2>1, TableClose DEF ReceiveInterrupted
<1>5. CASE ReadErrno
  <2>1. table[slot].ty = "PROC" /\ held # {} /\ held' = held \ {slot}
    BY <1>5 DEF ReadErrno, PlaceInv, Creating, Reading
  <2> QED BY <1>0, <1>5, <2>1, TableClose DEF ReadErrno
<1>6. CASE JoinReaps
  <2>1. table[slot].ty = "PROC" /\ held # {} /\ held' = held \ {slot}
    BY <1>6 DEF JoinReaps, PlaceInv, Joining
  <2> QED BY <1>0, <1>6, <2>1, TableClose DEF JoinReaps
<1>7. CASE HNext
  <2>1. CASE GetInitHandles
    BY <2>1, TableStart
  <2>2. ASSUME held # {}, NEW base, NEW file \in Files, NEW d \in Fds, NEW s \in Slots,
               OpenFile(base, file, d, s)
        PROVE  HandleInv'
    <3>1. LET h == NewHandle("IO_FILE", d, file)
          IN  /\ h \in HandleRecords /\ Proper(h) /\ h.ty = "IO_FILE"
              /\ h.fd = d /\ h.obj = file
      BY <1>0 DEF NewHandle, HandleRecords, HandleTypes, Objects, Proper
    <3>2. /\ fds' \in [Fds -> Objects] /\ fds[d] = "closed" /\ fds'[d] = file
          /\ \A c \in Fds : fds[c] # "closed" => fds'[c] = fds[c]
      BY <1>0, <2>2 DEF OpenFile, LowestFree, Objects
    <3>3. held' = held \cup {s} /\ insert_handle(s, NewHandle("IO_FILE", d, file))
      BY <2>2 DEF OpenFile
    <3> HIDE DEF NewHandle
    <3> QED BY <2>2, <3>1, <3>2, <3>3, TableInsert
  <2>3. ASSUME held # {}, NEW base, NEW file \in Files, NEW d \in Fds,
               OpenFileNoSlot(base, file, d)
        PROVE  HandleInv'
    <3>1. /\ fds' \in [Fds -> Objects] /\ UNCHANGED <<table, live, start_hint, held>>
          /\ \A c \in Fds : fds[c] \notin Sockets \cup {"closed"} => fds'[c] = fds[c]
      BY <1>0, <2>3 DEF OpenFileNoSlot, LowestFree, Objects
    <3> QED BY <1>0, <2>3, <3>1, FdsOnly
  <2> QED BY <1>7, <2>1, <2>2, <2>3 DEF HNext, Open
<1>8. CASE UNCHANGED hvars
  BY <1>8 DEF HandleInv, HTypeOK, LiveCounts, HandlesReachTheirObject, Used, InUse, HInit, Proper,
              hvars
<1>9. \/ \E p \in Procs, s \in Slots, rd, wr \in Fds : Begin(p, s, rd, wr)
      \/ ForkFails \/ WaitPid \/ ReadNothing \/ Receive \/ ReceiveInterrupted \/ ReadErrno
      \/ JoinReaps \/ HNext \/ UNCHANGED hvars
  BY DEF Next, Parent, Program, vars, Fork, JoinFails, Block, Join, SocketpairFails,
         HandleSigchld, Child, ChildSends, ChildExecs, ChildFails, ChildDies
<1> QED BY <1>1, <1>2, <1>3, <1>4, <1>5, <1>6, <1>7, <1>8, <1>9

\* Every step leaves the call in progress with the handle it works on.
LEMMA PlaceStep ==
    ASSUME HandleInv, PlaceInv, [Next]_vars
    PROVE  PlaceInv'
<1>0. /\ table \in [Slots -> HandleRecords] /\ fds \in [Fds -> Objects]
      /\ held \subseteq Slots /\ \A s \in held : InUse(s)
  BY DEF HandleInv, HTypeOK, HandleRecords, Used
<1>1. ASSUME NEW p \in Procs, NEW s \in Slots, NEW rd \in Fds, NEW wr \in Fds, Begin(p, s, rd, wr)
      PROVE  PlaceInv'
  <2>1. /\ s \notin held /\ table' = [table EXCEPT ![s] = NewHandle("PROC", -1, p)]
        /\ pc' = "fork" /\ cur' = p /\ slot' = s /\ held' = held /\ held # {}
    BY <1>0, <1>1 DEF Begin, insert_handle, FirstFree
  <2>2. fds'[wr] = "write end"
    BY <1>0, <1>1 DEF Begin
  <2> QED BY <1>0, <2>1, <2>2
      DEF PlaceInv, WriteFd, NewHandle, Places, Creating, Waiting, Reading, Joining
<1>2. CASE Receive
  <2>1. pc \in Waiting /\ UNCHANGED <<held, cur, slot>> /\ slot \notin held /\ slot \in Slots
    BY <1>2 DEF Receive, PlaceInv, Creating, Waiting
  <2>2. CASE close_handle(slot, {}) /\ pc' = "waitid"
    BY <1>0, <2>1, <2>2
    DEF PlaceInv, close_handle, Places, Creating, Waiting, Reading, Joining
  <2>3. ASSUME NEW d \in Fds, LowestFree(d), TakeRights(d) PROVE PlaceInv'
    <3>1. table' = [table EXCEPT ![slot] = NewHandle("PROC", d, cur)]
      BY <1>2, <2>1, <2>3, TakesPidfd DEF Receive
    <3>2. pc' = "read" /\ d # -1
      BY <2>3, HandlesAssumption DEF TakeRights, Fds
    <3> QED BY <1>0, <2>1, <3>1, <3>2
        DEF PlaceInv, NewHandle, Places, Creating, Waiting, Reading, Joining
  <2> QED BY <1>2, <2>2, <2>3 DEF Receive
<1>3. CASE ReceiveInterrupted \/ ReadErrno
  <2>1. /\ pc \in Creating /\ UNCHANGED <<held, cur, slot>> /\ pc' \in {"waitid", "idle"}
        /\ table' = [table EXCEPT ![slot] = Zeroed]
    BY <1>3 DEF ReceiveInterrupted, ReadErrno, close_handle, Return, Creating, Waiting, Reading
  <2> QED BY <1>0, <2>1 DEF PlaceInv, Places, Creating, Waiting, Reading, Joining
<1>4. CASE ForkFails \/ WaitPid
  <2>1. UNCHANGED <<table, held, cur, slot>> /\ pc' = "idle"
    BY <1>4 DEF ForkFails, WaitPid, Return
  <2> QED BY <2>1 DEF PlaceInv, Places, Creating, Waiting, Reading, Joining
<1>5. CASE ReadNothing
  <2>1. /\ UNCHANGED <<table, cur, slot>> /\ held' = held \cup {slot} /\ pc' = "idle"
        /\ pc \in Reading
    BY <1>5 DEF ReadNothing, Return, Reading
  <2> QED BY <2>1 DEF PlaceInv, Places, Creating, Waiting, Reading, Joining
<1>6. CASE JoinReaps
  <2>1. /\ UNCHANGED <<cur, slot>> /\ held' = held \ {slot} /\ pc' = "idle"
        /\ table' = [table EXCEPT ![slot] = Zeroed]
    BY <1>6 DEF JoinReaps, close_handle
  <2> QED BY <1>0, <2>1 DEF PlaceInv, Places, Creating, Waiting, Reading, Joining
<1>7. ASSUME NEW s \in held, Join(s) PROVE PlaceInv'
  BY <1>0, <1>7 DEF Join, Deref, hvars, PlaceInv, Places, Creating, Waiting, Reading, Joining
<1>8. CASE pc = "idle" /\ HNext /\ UNCHANGED pvars
  <2>1. UNCHANGED <<pc, cur, slot>> /\ pc = "idle" /\ held' # {}
    BY <1>8 DEF pvars, HNext, Open, GetInitHandles, OpenFile, OpenFileNoSlot
  <2>2. \A r \in held' : table'[r].fd # -1
    <3>1. CASE GetInitHandles
      BY <3>1, HandlesAssumption DEF GetInitHandles, NewHandle, Slots
    <3>2. ASSUME NEW base, NEW file \in Files, NEW d \in Fds, NEW s \in Slots,
                 OpenFile(base, file, d, s), NEW r \in held'
          PROVE  table'[r].fd # -1
      <4>1. d # -1
        BY HandlesAssumption DEF Fds
      <4> QED BY <1>0, <3>2, <4>1 DEF OpenFile, insert_handle, NewHandle, PlaceInv
    <3>3. ASSUME NEW base, NEW file, NEW d, OpenFileNoSlot(base, file, d)
          PROVE  UNCHANGED <<table, held>>
      BY <3>3 DEF OpenFileNoSlot
    <3> QED BY <1>8, <3>1, <3>2, <3>3 DEF HNext, Open, PlaceInv
  <2> QED BY <2>1, <2>2 DEF PlaceInv, Places, Creating, Waiting, Reading, Joining
<1>9. CASE Fork \/ JoinFails \/ Block \/ SocketpairFails
  <2>1. /\ UNCHANGED <<hvars, cur, slot>> /\ held # {}
        /\ \/ pc' \in {"idle", "panicked", "in waitid"}
           \/ pc \in Waiting /\ pc' \in Waiting
           \/ pc \in Reading /\ pc' \in Reading
           \/ pc \in Joining /\ pc' \in Joining
    BY <1>9 DEF Fork, JoinFails, Block, SocketpairFails, Waiting, Reading, Joining, PlaceInv
  <2> QED BY <2>1 DEF hvars, PlaceInv, WriteFd, Places, Blocked, Creating, Waiting, Reading, Joining
<1>10. CASE UNCHANGED <<hvars, pc, cur, slot>>
  BY <1>10 DEF hvars, PlaceInv, WriteFd
<1>11. HandleSigchld \/ (\E p \in Procs : Child(p) \/ ChildDies(p)) \/ UNCHANGED vars
          => UNCHANGED <<hvars, pc, cur, slot>>
  BY DEF HandleSigchld, Child, ChildSends, ChildExecs, ChildFails, ChildDies, vars, pvars
<1> QED BY <1>1, <1>2, <1>3, <1>4, <1>5, <1>6, <1>7, <1>8, <1>9, <1>10, <1>11
    DEF Next, Parent, Program

\* Every step keeps to one handle per child, and reaps no child that has one.
LEMMA ChildStep ==
    ASSUME HandleInv, PlaceInv, ChildInv, [Next]_vars
    PROVE  ChildInv'
<1>0. /\ table \in [Slots -> HandleRecords] /\ slot \in Slots /\ cur \in Procs
      /\ proc \in [Procs -> ProcStates] /\ result \in [Procs -> {"none", "ok", "err"}]
  BY DEF HandleInv, HTypeOK, HandleRecords, PlaceInv, ChildInv
<1>a. /\ Zeroed.ty = "0" /\ \A d, o : NewHandle("PROC", d, o).ty = "PROC"
      /\ \A d, o : NewHandle("PROC", d, o).fd = d /\ NewHandle("PROC", d, o).obj = o
  BY DEF Zeroed, NewHandle
<1>b. \A s \in Slots : table[s].ty = "PROC" => table[s].obj \in Procs
  BY DEF HandleInv, Proper, Zeroed, NewHandle
<1>1. ASSUME NEW p \in Procs, NEW s \in Slots, NEW rd \in Fds, NEW wr \in Fds, Begin(p, s, rd, wr)
      PROVE  ChildInv'
  <2>1. /\ table' = [table EXCEPT ![s] = NewHandle("PROC", -1, p)]
        /\ pc = "idle" /\ pc' = "fork" /\ cur' = p /\ slot' = s /\ UNCHANGED <<proc, result>>
        /\ result[p] = "none" /\ proc[p] = "none"
    BY <1>1 DEF Begin, insert_handle
  <2> QED BY <1>0, <1>a, <2>1 DEF ChildInv, Creating, Waiting, Reading, Giving
<1>2. CASE Receive \/ ReceiveInterrupted \/ ReadErrno
  <2>1. UNCHANGED <<cur, slot, proc>> /\ pc \in Creating
    BY <1>2 DEF Receive, ReceiveInterrupted, ReadErrno, Creating, Waiting, Reading
  <2>2. CASE /\ table' = [table EXCEPT ![slot] = Zeroed]
             /\ \/ pc' = "waitid" /\ result' = result
                \/ pc' = "idle" /\ result' = [result EXCEPT ![cur] = "err"]
    <3>1. \A s \in Slots : table'[s].ty = "PROC" => s # slot /\ table'[s] = table[s]
      BY <1>0, <1>a, <2>2
    <3>2. /\ result' \in [Procs -> {"none", "ok", "err"}]
          /\ \A p \in Procs : result[p] # "none" => result'[p] # "none"
      BY <1>0, <2>2
    <3>3. pc' \notin Creating /\ (pc' \in Giving => result'[cur] = "none" /\ proc[cur] # "reaped")
      BY <2>1, <2>2 DEF ChildInv, Creating, Waiting, Reading, Giving
    <3> QED BY <1>0, <1>b, <2>1, <3>1, <3>2, <3>3 DEF ChildInv
  <2>3. ASSUME pc \in Waiting, NEW d \in Fds, LowestFree(d), TakeRights(d), result' = result,
               UNCHANGED <<start_hint, held>>
        PROVE  ChildInv'
    <3>1. table' = [table EXCEPT ![slot] = NewHandle("PROC", d, cur)] /\ pc' = "read"
      BY <2>3, TakesPidfd DEF TakeRights
    <3>2. table[slot].ty = "PROC" /\ table[slot].obj = cur
      BY <2>1 DEF PlaceInv
    <3>3. /\ table'[slot].ty = "PROC" /\ table'[slot].obj = cur
          /\ \A s \in Slots \ {slot} : table'[s] = table[s]
      BY <1>0, <1>a, <3>1
    <3>4. pc' \in Creating /\ result[cur] = "none" /\ proc[cur] # "reaped"
      BY <2>1, <3>1 DEF ChildInv, Creating, Reading
    <3>5. UNCHANGED <<cur, slot, proc, result>>
      BY <2>1, <2>3
    <3> QED BY <1>0, <3>2, <3>3, <3>4, <3>5 DEF ChildInv
  <2> QED BY <1>2, <2>2, <2>3
      DEF Receive, ReceiveInterrupted, ReadErrno, close_handle, Return, Waiting
<1>3. CASE ForkFails \/ ReadNothing
  <2>1. /\ UNCHANGED <<table, cur, slot, proc>> /\ pc' = "idle" /\ pc \in Creating
        /\ \E r \in {"ok", "err"} : result' = [result EXCEPT ![cur] = r]
    BY <1>3 DEF ForkFails, ReadNothing, Return, Creating, Waiting, Reading
  <2>2. table[slot].obj = cur
    BY <2>1 DEF PlaceInv
  <2> QED BY <1>0, <1>b, <2>1, <2>2 DEF ChildInv, Creating, Waiting, Reading, Giving
<1>4. CASE WaitPid
  <2>1. /\ UNCHANGED <<table, cur, slot>> /\ pc' = "idle" /\ pc \in Giving
        /\ result' = [result EXCEPT ![cur] = "err"]
        /\ proc' = proc \/ proc' = [proc EXCEPT ![cur] = "reaped"]
    BY <1>4 DEF WaitPid, Return, Giving
  <2>2. \A s \in Slots : table[s].ty = "PROC" => table[s].obj # cur
    BY <2>1 DEF ChildInv, Creating, Waiting, Reading, Giving
  <2>3. proc' \in [Procs -> ProcStates]
    BY <1>0, <2>1 DEF ProcStates
  <2> QED BY <1>0, <1>b, <2>1, <2>2, <2>3 DEF ChildInv, Creating, Waiting, Reading, Giving
<1>5. CASE JoinReaps
  <2>1. /\ slot \in held /\ table[slot].ty = "PROC" /\ table[slot].fd # -1 /\ pc \in Joining
    BY <1>5 DEF JoinReaps, PlaceInv, Joining
  <2>2. Joined = table[slot].obj
    BY <1>0, <2>1, Reached DEF Joined, InUse
  <2>3. /\ table' = [table EXCEPT ![slot] = Zeroed] /\ pc' = "idle" /\ UNCHANGED <<slot, result>>
        /\ proc' = [proc EXCEPT ![table[slot].obj] = "reaped"]
    BY <1>5, <2>2 DEF JoinReaps, close_handle
  <2>4. proc' \in [Procs -> ProcStates]
    BY <1>0, <2>3 DEF ProcStates
  <2>5. \A s \in Slots : table'[s].ty = "PROC" => s # slot /\ table'[s] = table[s]
    BY <1>0, <1>a, <2>3
  <2>6. \A s \in Slots \ {slot} : table[s].ty = "PROC"
           => table[s].obj # table[slot].obj /\ proc'[table[s].obj] = proc[table[s].obj]
    BY <1>0, <1>b, <2>1, <2>3 DEF ChildInv
  <2>7. pc \notin Creating /\ pc' \notin Creating \cup Giving
    BY <2>1, <2>3 DEF Creating, Waiting, Reading, Giving, Joining
  <2> QED BY <2>3, <2>4, <2>5, <2>6, <2>7 DEF ChildInv
<1>6. CASE pc = "idle" /\ HNext /\ UNCHANGED pvars
  <2>1. \A s \in Slots : table'[s].ty = "PROC" => table'[s] = table[s]
    <3>1. CASE GetInitHandles
      BY <3>1 DEF GetInitHandles, NewHandle, Zeroed
    <3>2. ASSUME NEW base, NEW file, NEW d, NEW s \in Slots, OpenFile(base, file, d, s)
          PROVE  \A r \in Slots : table'[r].ty = "PROC" => table'[r] = table[r]
      BY <1>0, <3>2 DEF OpenFile, insert_handle, NewHandle
    <3> QED BY <1>6, <3>1, <3>2 DEF HNext, Open, OpenFileNoSlot
  <2>2. UNCHANGED <<pc, cur, slot, proc, result>>
    BY <1>6 DEF pvars
  <2> QED BY <2>1, <2>2 DEF ChildInv
<1>7. CASE Fork \/ HandleSigchld \/ \E p \in Procs : Child(p) \/ ChildDies(p)
  <2>1. PICK c \in Procs, t \in ProcStates \ {"reaped"} :
             /\ proc' = proc \/ proc' = [proc EXCEPT ![c] = t]
             /\ proc[c] # "reaped" \/ proc' = proc
    BY <1>0, <1>7 DEF Fork, HandleSigchld, Child, ChildSends, ChildExecs, ChildFails, ChildDies,
                      ProcStates, ChildInv, Creating, Waiting, Giving
  <2>2. UNCHANGED <<table, cur, slot, result>> /\ (pc' = pc \/ {pc, pc'} \subseteq Creating)
    <3>1. CASE Fork
      BY <3>1 DEF Fork, hvars, Creating, Waiting
    <3>2. CASE HandleSigchld \/ \E p \in Procs : Child(p) \/ ChildDies(p)
      BY <3>2 DEF HandleSigchld, Child, ChildSends, ChildExecs, ChildFails, ChildDies, hvars
    <3> QED BY <1>7, <3>1, <3>2
  <2>3. proc' \in [Procs -> ProcStates] /\ \A q \in Procs : proc[q] # "reaped" => proc'[q] # "reaped"
    BY <1>0, <2>1
  <2> QED BY <1>0, <1>b, <2>2, <2>3 DEF ChildInv, Creating, Waiting, Reading, Giving
<1>8. CASE (\E s \in held : Join(s)) \/ JoinFails \/ Block \/ SocketpairFails \/ UNCHANGED vars
  <2>1. /\ UNCHANGED <<table, cur, proc, result>>
        /\ \/ pc' = pc /\ slot' = slot
           \/ pc \notin Creating \cup Giving /\ pc' \notin Creating \cup Giving
           \/ pc \in Creating /\ pc' \in Creating /\ slot' = slot
           \/ pc \in Giving /\ pc' \in Giving
    BY <1>8 DEF Join, JoinFails, Block, SocketpairFails, vars, pvars, hvars, Creating, Waiting,
                Reading, Giving
  <2> QED BY <2>1 DEF ChildInv, Creating, Waiting, Reading, Giving
<1> QED BY <1>1, <1>2, <1>3, <1>4, <1>5, <1>6, <1>7, <1>8 DEF Next, Parent, Program
-----------------------------------------------------------------------------
\* The packets that can be under way, as recvmsg and read take them out.
LEMMA Packets ==
    /\ Append(<<>>, "rights") = <<"rights">> /\ Append(<<>>, "errno") = <<"errno">>
    /\ Append(<<"rights">>, "errno") = <<"rights", "errno">>
    /\ Head(<<"rights">>) = "rights" /\ Head(<<"errno">>) = "errno"
    /\ Head(<<"rights", "errno">>) = "rights"
    /\ Tail(<<"rights">>) = <<>> /\ Tail(<<"rights", "errno">>) = <<"errno">>
    /\ <<"rights">> # <<>> /\ <<"errno">> # <<>>
<1> DEFINE both == Append(<<"rights">>, "errno")
<1>1. <<"rights">> \in Seq(PacketTypes) /\ <<"rights", "errno">> \in Seq(PacketTypes)
  BY DEF PacketTypes
<1>2. both \in Seq(PacketTypes)
  BY <1>1 DEF PacketTypes
<1>3. Len(both) = 2 /\ Len(<<"rights", "errno">>) = 2
  OBVIOUS
<1>4. both[1] = "rights" /\ both[2] = "errno"
  OBVIOUS
<1>5. \A i \in 1 .. 2 : both[i] = <<"rights", "errno">>[i]
  BY <1>4
<1>6. both = <<"rights", "errno">>
  BY <1>1, <1>2, <1>3, <1>5, SeqEqual
<1>7. Append(<<>>, "rights") = <<"rights">> /\ Append(<<>>, "errno") = <<"errno">>
  OBVIOUS
<1>8. /\ Head(<<"rights">>) = "rights" /\ Head(<<"errno">>) = "errno"
      /\ Head(<<"rights", "errno">>) = "rights"
  OBVIOUS
<1>9. Tail(<<"rights">>) = <<>> /\ Tail(<<"rights", "errno">>) = <<"errno">>
  OBVIOUS
<1>10. <<"rights">> # <<>> /\ <<"errno">> # <<>>
  OBVIOUS
<1> QED BY <1>6, <1>7, <1>8, <1>9, <1>10

\* Taking out a packet and adding one leave a sequence of packets.
LEMMA PacketSeqs ==
    ASSUME NEW q \in Seq(PacketTypes)
    PROVE  /\ q # <<>> => Tail(q) \in Seq(PacketTypes)
           /\ \A x \in PacketTypes : Append(q, x) \in Seq(PacketTypes)
OBVIOUS

\* Every step keeps the packets in line with what became of the child.
LEMMA ExactStep ==
    ASSUME PlaceInv, ChildInv, ExactInv, [Next]_vars
    PROVE  ExactInv'
<1>0. /\ cur \in Procs /\ proc \in [Procs -> ProcStates]
      /\ queue \in [Procs -> Seq(PacketTypes)]
      /\ result \in [Procs -> {"none", "ok", "err"}]
  BY DEF PlaceInv, ChildInv, ExactInv
<1>1. ASSUME NEW p \in Procs, NEW s \in Slots, NEW rd \in Fds, NEW wr \in Fds, Begin(p, s, rd, wr)
      PROVE  ExactInv'
  BY <1>1 DEF Begin, ExactInv, Failed, Reading, Giving
<1>2. CASE Fork
  <2>1. /\ proc' = [proc EXCEPT ![cur] = "forked"] /\ pc' = "recvmsg" /\ pc = "fork"
        /\ UNCHANGED <<cur, queue, execd, result, disturbed>>
    BY <1>2 DEF Fork
  <2>2. proc[cur] = "none" /\ queue[cur] = <<>> /\ cur \notin execd /\ result[cur] = "none"
    BY <1>0, <2>1 DEF ExactInv, ChildInv, Creating, Waiting
  <2>3. Sent(cur, <<"rights">>)'
    BY <1>0, <2>1, <2>2, Packets DEF Sent
  <2> QED BY <1>0, <2>1, <2>2, <2>3 DEF ExactInv, Failed, Reading, Giving, ProcStates
<1>3. CASE ForkFails
  <2>1. /\ pc = "fork" /\ pc' = "idle" /\ result' = [result EXCEPT ![cur] = "err"]
        /\ UNCHANGED <<cur, proc, queue, execd, disturbed>>
    BY <1>3 DEF ForkFails, Return
  <2> QED BY <1>0, <2>1 DEF ExactInv, Failed, Reading, Giving
<1>4. CASE Receive
  <2>1. /\ pc \in {"recvmsg", "in recvmsg"} /\ queue[cur] # <<>>
        /\ queue' = [queue EXCEPT ![cur] = Tail(@)]
        /\ UNCHANGED <<cur, proc, execd, result>>
        /\ disturbed \subseteq disturbed' /\ disturbed' \subseteq disturbed \cup {cur}
    BY <1>4 DEF Receive
  <2>2. \/ Head(queue[cur]) = "rights" /\ pc' = "read"
        \/ Head(queue[cur]) = "errno" /\ pc' = "waitid"
        \/ cur \in disturbed' /\ pc' = "waitid"
    BY <1>4 DEF Receive, TakeRights
  <2>3. /\ queue' \in [Procs -> Seq(PacketTypes)]
        /\ \A p \in Procs : proc[p] = "none" => queue'[p] = <<>>
    BY <1>0, <2>1, PacketSeqs DEF ExactInv
  <2>4. cur \notin disturbed' => Sent(cur, <<"rights">>)
    BY <2>1 DEF ExactInv
  <2>5. ASSUME cur \notin disturbed', pc' = "read" PROVE Sent(cur, <<>>)'
    BY <1>0, <2>1, <2>2, <2>4, <2>5, Packets DEF Sent
  <2>6. ASSUME cur \notin disturbed', pc' = "waitid" PROVE Failed(cur) /\ proc[cur] # "none"
    BY <1>0, <2>1, <2>2, <2>4, <2>6, Packets DEF Sent, Failed
  <2> QED BY <2>1, <2>2, <2>3, <2>5, <2>6 DEF ExactInv, Failed, Reading, Giving
<1>5. CASE ReceiveInterrupted
  BY <1>5 DEF ReceiveInterrupted, ExactInv, Failed, Reading, Giving
<1>6. CASE WaitPid
  <2>1. /\ pc \in Giving /\ pc' = "idle" /\ result' = [result EXCEPT ![cur] = "err"]
        /\ UNCHANGED <<cur, queue, execd, disturbed>>
        /\ proc' = proc \/ (proc[cur] = "zombie" /\ proc' = [proc EXCEPT ![cur] = "reaped"])
    BY <1>6 DEF WaitPid, Return, Giving
  <2> QED BY <1>0, <2>1 DEF ExactInv, Failed, Reading, Giving, ProcStates
<1>7. CASE ReadErrno
  <2>1. /\ pc \in Reading /\ pc' = "idle" /\ result' = [result EXCEPT ![cur] = "err"]
        /\ queue[cur] # <<>> /\ queue' = [queue EXCEPT ![cur] = Tail(@)]
        /\ UNCHANGED <<cur, proc, execd, disturbed>>
    BY <1>7 DEF ReadErrno, Return, Reading
  <2>2. cur \notin disturbed => Failed(cur)
    BY <2>1, Packets DEF ExactInv, Sent, Failed
  <2>3. /\ queue' \in [Procs -> Seq(PacketTypes)]
        /\ \A p \in Procs : proc[p] = "none" => queue'[p] = <<>>
    BY <1>0, <2>1, PacketSeqs DEF ExactInv
  <2> QED BY <1>0, <2>1, <2>2, <2>3 DEF ExactInv, Failed, Reading, Giving
<1>8. CASE ReadNothing
  <2>1. /\ pc \in Reading /\ pc' = "idle" /\ result' = [result EXCEPT ![cur] = "ok"]
        /\ UNCHANGED <<cur, proc, queue, execd>>
        /\ disturbed \subseteq disturbed'
        /\ cur \in disturbed' \/ EndOfFile
    BY <1>8 DEF ReadNothing, Return, Reading
  <2>2. cur \notin disturbed' => cur \in execd
    BY <2>1, Packets DEF EndOfFile, ExactInv, Sent
  <2> QED BY <1>0, <2>1, <2>2 DEF ExactInv, Failed, Reading, Giving
<1>9. CASE JoinReaps
  <2>1. /\ proc[Joined] = "zombie" /\ proc' = [proc EXCEPT ![Joined] = "reaped"] /\ pc' = "idle"
        /\ UNCHANGED <<cur, queue, execd, result, disturbed>>
    BY <1>9 DEF JoinReaps
  <2>2. PICK c : c = Joined
    OBVIOUS
  <2> QED BY <1>0, <2>1, <2>2 DEF ExactInv, Failed, Reading, Giving, ProcStates
<1>10. ASSUME NEW p \in Procs, Child(p) \/ ChildDies(p) PROVE ExactInv'
  <2>1. /\ UNCHANGED <<pc, cur, result>> /\ disturbed \subseteq disturbed'
        /\ disturbed' \subseteq disturbed \cup {p}
        /\ \/ /\ proc[p] = "forked" /\ proc' = [proc EXCEPT ![p] = "sent"]
              /\ queue' = [queue EXCEPT ![p] = Append(@, "rights")] /\ execd' = execd
           \/ /\ proc[p] = "sent" /\ proc' = [proc EXCEPT ![p] = "running"]
              /\ queue' = queue /\ execd' = execd \cup {p}
           \/ /\ proc[p] \in {"forked", "sent"} /\ proc' = [proc EXCEPT ![p] = "failing"]
              /\ queue' = [queue EXCEPT ![p] = Append(@, "errno")] /\ execd' = execd
           \/ /\ proc[p] \in {"failing", "running"} \/ p \in disturbed'
              /\ proc[p] \in {"failing", "running", "forked", "sent"}
              /\ proc' = [proc EXCEPT ![p] = "zombie"]
              /\ queue' = queue /\ execd' = execd
    BY <1>10 DEF Child, ChildSends, ChildExecs, ChildFails, ChildDies
  <2>2. proc' \in [Procs -> ProcStates] /\ queue' \in [Procs -> Seq(PacketTypes)]
    <3>1. \A x \in {"rights", "errno"} : Append(queue[p], x) \in Seq(PacketTypes)
      BY <1>0, PacketSeqs DEF PacketTypes
    <3> QED BY <1>0, <2>1, <3>1 DEF ProcStates
  <2>3. \A q \in Procs \ {p} : /\ proc'[q] = proc[q] /\ queue'[q] = queue[q]
                               /\ q \in execd' <=> q \in execd
    BY <1>0, <2>1
  <2>4. /\ proc'[p] # "none" /\ proc[p] # "none"
        /\ proc'[p] \in {"none", "forked", "sent", "failing"} => p \notin execd'
    BY <1>0, <2>1 DEF ExactInv
  <2>a. \/ /\ proc[p] = "forked" /\ proc'[p] = "sent"
           /\ queue'[p] = Append(queue[p], "rights")
        \/ proc[p] = "sent" /\ proc'[p] = "running" /\ queue'[p] = queue[p] /\ p \in execd'
        \/ /\ proc[p] \in {"forked", "sent"} /\ proc'[p] = "failing"
           /\ queue'[p] = Append(queue[p], "errno") /\ p \notin execd'
        \/ /\ proc[p] \in {"failing", "running"} \/ p \in disturbed'
           /\ proc'[p] = "zombie" /\ queue'[p] = queue[p] /\ (p \in execd' <=> p \in execd)
    BY <1>0, <2>1 DEF ExactInv
  <2>5. ASSUME p \notin disturbed', Sent(p, <<"rights">>) PROVE Sent(p, <<"rights">>)'
    BY <2>a, <2>5, Packets DEF Sent
  <2>6. ASSUME p \notin disturbed', Sent(p, <<>>) PROVE Sent(p, <<>>)'
    BY <2>a, <2>6, Packets DEF Sent
  <2>7. ASSUME p \notin disturbed', Failed(p) PROVE Failed(p)'
    BY <1>0, <2>1, <2>7 DEF Failed
  <2>8. \A q \in Procs \ {p} : /\ Sent(q, <<"rights">>) => Sent(q, <<"rights">>)'
                               /\ Sent(q, <<>>) => Sent(q, <<>>)'
                               /\ Failed(q) => Failed(q)'
    BY <2>3 DEF Sent, Failed
  <2> QED BY <1>0, <2>1, <2>2, <2>3, <2>4, <2>5, <2>6, <2>7, <2>8 DEF ExactInv
<1>11. CASE \/ (\E s \in held : Join(s)) \/ JoinFails \/ Block \/ SocketpairFails
            \/ HandleSigchld \/ (HNext /\ UNCHANGED pvars) \/ UNCHANGED vars
  <2>1. /\ UNCHANGED <<cur, proc, queue, execd, result, disturbed>>
        /\ \/ pc' = pc
           \/ pc' \in {"join", "in join", "panicked", "idle"}
           \/ pc = "recvmsg" /\ pc' = "in recvmsg"
           \/ pc = "read" /\ pc' = "in read"
           \/ pc = "waitid" /\ pc' = "in waitid"
    BY <1>11 DEF Join, JoinFails, Block, SocketpairFails, HandleSigchld, vars, pvars
  <2> QED BY <2>1 DEF ExactInv, Sent, Failed, Reading, Giving
<1> QED BY <1>1, <1>2, <1>3, <1>4, <1>5, <1>6, <1>7, <1>8, <1>9, <1>10, <1>11
    DEF Next, Parent, Program
-----------------------------------------------------------------------------
\* The four parts together hold of every behaviour.
THEOREM ProcessInvariance == Spec => [](HandleInv /\ PlaceInv /\ ChildInv /\ ExactInv)
<1>1. Init => HandleInv /\ PlaceInv /\ ChildInv /\ ExactInv
  <2> SUFFICES ASSUME Init PROVE HandleInv /\ PlaceInv /\ ChildInv /\ ExactInv
    OBVIOUS
  <2>1. /\ 0 \in Slots /\ table = [s \in Slots |-> Zeroed] /\ held = {} /\ live = 0
        /\ pc = "idle"
    BY HandlesAssumption DEF Init, HInit, Slots
  <2>2. Used = {} /\ \A s \in Slots : table[s].ty = "0"
    BY <2>1 DEF Used, InUse, Zeroed, NewHandle
  <2>3. LiveCounts /\ HandlesReachTheirObject
    BY <2>1, <2>2, FS_EmptySet DEF LiveCounts, HandlesReachTheirObject
  <2>4. Zeroed \in HandleRecords
    BY HandlesAssumption DEF Zeroed, NewHandle, HandleRecords, HandleTypes, Objects, Fds
  <2>5. fds \in [Fds -> Objects]
    BY DEF Init, HInit, Objects, Std
  <2>6. HTypeOK
    BY <2>1, <2>4, <2>5, HandlesAssumption DEF HTypeOK, HandleRecords, Init, HInit
  <2>7. HandleInv
    BY <2>1, <2>3, <2>6 DEF HandleInv, Init, Proper
  <2>8. PlaceInv
    BY <2>1 DEF PlaceInv, Init, Places, Creating, Waiting, Reading, Joining
  <2>9. ChildInv
    BY <2>1, <2>2 DEF ChildInv, Init, ProcStates, Creating, Waiting, Reading, Giving
  <2>10. ExactInv
    BY <2>1 DEF ExactInv, Init, ProcStates, Reading, Giving, Failed
  <2> QED BY <2>7, <2>8, <2>9, <2>10
<1>2. (HandleInv /\ PlaceInv /\ ChildInv /\ ExactInv) /\ [Next]_vars
         => (HandleInv /\ PlaceInv /\ ChildInv /\ ExactInv)'
  BY HandleStep, PlaceStep, ChildStep, ExactStep
<1> QED BY <1>1, <1>2, PTL DEF Spec

\* LIVE_HANDLES is exact after any sequence of calls, failed ones included.
THEOREM LiveExact == Spec => []LiveCounts
<1>1. HandleInv => LiveCounts
  BY DEF HandleInv
<1> QED BY <1>1, ProcessInvariance, PTL

\* No handle ever reaches another handle's object, however slots and descriptor
\* numbers are reused.
THEOREM ObjectsKept == Spec => []HandlesReachTheirObject
<1>1. HandleInv => HandlesReachTheirObject
  BY DEF HandleInv
<1> QED BY <1>1, ProcessInvariance, PTL

\* The unwrap() of JoinProcess never panics.
THEOREM JoinReady == Spec => []JoinFindsPidfd
<1>1. HandleInv /\ PlaceInv => JoinFindsPidfd
  <2> SUFFICES ASSUME HandleInv, PlaceInv, NEW s \in held PROVE table[s].fd >= 0
    BY DEF JoinFindsPidfd
  <2>1. table[s] \in HandleRecords /\ table[s].fd # -1
    BY DEF HandleInv, HTypeOK, HandleRecords, PlaceInv
  <2> QED BY <2>1, HandlesAssumption DEF HandleRecords, Fds
<1> QED BY <1>1, ProcessInvariance, PTL

\* JoinProcess never waits for a child that has been reaped.
THEOREM ChildrenKept == Spec => []HandleKeepsChild
<1>1. HandleInv /\ ChildInv => HandleKeepsChild
  <2> SUFFICES ASSUME HandleInv, ChildInv, NEW s \in Used, table[s].ty = "PROC", table[s].fd >= 0
               PROVE  proc[fds[table[s].fd]] # "reaped"
    BY DEF HandleKeepsChild
  <2>1. s \in Slots /\ InUse(s) /\ table[s].fd # -1
    BY DEF Used
  <2>2. fds[table[s].fd] = table[s].obj
    BY <2>1, Reached
  <2> QED BY <2>1, <2>2 DEF ChildInv
<1> QED BY <1>1, ProcessInvariance, PTL

\* CreateProcess tells the truth about the execve of every child whose creation
\* was not disturbed, whatever the children do and in whatever order.
THEOREM ResultsExact == Spec => []ResultIsExact
<1>1. ExactInv => ResultIsExact
  BY DEF ExactInv, ResultIsExact, Failed
<1> QED BY <1>1, ProcessInvariance, PTL
=============================================================================
