------------------------------ MODULE Process -------------------------------
(***************************************************************************)
(* wl-usi-process/src/proc.rs: CreateProcess and JoinProcess, composed     *)
(* with the handle table, the children and SIGCHLD.                        *)
(*                                                                         *)
(* The parent is one thread.  Its handler for SIGCHLD (catch_signals.rs)   *)
(* does nothing, but it is installed without SA_RESTART (x86_64.c), so the *)
(* signal ends a blocking call with EINTR, and is lost if it comes before  *)
(* the call blocks.  A child runs from fork to execve on the copied code.  *)
(***************************************************************************)
EXTENDS Handles, Sequences

CONSTANT MayKill       \* whether a child may be killed from outside

ASSUME MayKillAssumption == MayKill \in BOOLEAN

VARIABLES pc,        \* where the parent is
          cur,       \* the child CreateProcess is creating
          slot,      \* local ptr / hdl of CreateProcess and JoinProcess
          proc,      \* per child, its state
          queue,     \* per child, the packets in its socket pair
          execd,     \* the children whose execve succeeded
          sigchld,   \* SIGCHLD is pending for the parent
          result,    \* per child, what CreateProcess returned for it
          disturbed  \* history: the children whose creation met a signal, a
                     \* kill before execve, or a full descriptor table

pvars == <<pc, cur, slot, proc, queue, execd, sigchld, result, disturbed>>
vars == <<hvars, pvars>>

ProcStates == {"none", "forked", "sent", "failing", "running", "zombie", "reaped"}
Blocked == {"in recvmsg", "in read", "in waitid", "in join"}
Places == Blocked \cup {"idle", "fork", "recvmsg", "read", "waitid", "join", "panicked"}

Init == /\ HInit
        /\ pc = "idle"
        /\ cur \in Procs
        /\ slot = 0
        /\ proc = [p \in Procs |-> "none"]
        /\ queue = [p \in Procs |-> <<>>]
        /\ execd = {}
        /\ sigchld = FALSE
        /\ result = [p \in Procs |-> "none"]
        /\ disturbed = {}

\* The descriptors of the current socket pair.
SocketFds == {d \in Fds : fds[d] \in Sockets}
WriteFd == {d \in Fds : fds[d] = "write end"}

Return(r) == /\ pc' = "idle"
             /\ result' = [result EXCEPT ![cur] = r]
-----------------------------------------------------------------------------
(* CreateProcess, the parent. *)

\* Past the checks of path and options: socketpair, insert_handle.
Begin(p, s, rd, wr) ==
    /\ pc = "idle" /\ held # {}
    /\ proc[p] = "none" /\ result[p] = "none"
    /\ LowestFree(rd)
    /\ wr > rd /\ fds[wr] = "closed" /\ \A e \in (rd + 1) .. (wr - 1) : fds[e] # "closed"
    /\ insert_handle(s, NewHandle("PROC", -1, p))
    /\ fds' = [fds EXCEPT ![rd] = "read end", ![wr] = "write end"]
    /\ pc' = "fork" /\ cur' = p /\ slot' = s
    /\ UNCHANGED <<held, proc, queue, execd, sigchld, result, disturbed>>

\* socketpair().unwrap() without two descriptors left.
SocketpairFails == /\ pc = "idle" /\ held # {}
                   /\ Cardinality({d \in Fds : fds[d] = "closed"}) < 2
                   /\ pc' = "panicked"
                   /\ UNCHANGED <<hvars, cur, slot, proc, queue, execd, sigchld, result, disturbed>>

Fork == /\ pc = "fork"
        /\ proc' = [proc EXCEPT ![cur] = "forked"]
        /\ pc' = "recvmsg"
        /\ UNCHANGED <<hvars, cur, slot, queue, execd, sigchld, result, disturbed>>

\* The handle inserted before the fork stays in the table.
ForkFails == /\ pc = "fork"
             /\ CloseFds(SocketFds)
             /\ Return("err")
             /\ UNCHANGED <<table, start_hint, live, held, cur, slot, proc, queue, execd, sigchld,
                            disturbed>>

\* Faulty: hdl.fd is not assigned.
TakeRightsUnset(d) ==
    /\ fds' = [fds EXCEPT ![d] = cur, ![CHOOSE e \in WriteFd : TRUE] = "closed"]
    /\ pc' = "read"
    /\ UNCHANGED <<table, live>>

\* Faulty: the parent keeps its copy of the write end.
TakeRightsKeepsWrite(d) ==
    /\ fds' = [fds EXCEPT ![d] = cur]
    /\ table' = [table EXCEPT ![slot].fd = d]
    /\ pc' = "read"
    /\ UNCHANGED live

\* The pidfd arrives on d and becomes the handle's; write is dropped.
TakeRights(d) ==
    /\ fds' = [fds EXCEPT ![d] = cur, ![CHOOSE e \in WriteFd : TRUE] = "closed"]
    /\ table' = [table EXCEPT ![slot].fd = d]
    /\ pc' = "read"
    /\ UNCHANGED live

\* recvmsg returns a packet.  The descriptor in it, if any, needs a free slot
\* in the descriptor table; without one the packet arrives bare.
Receive ==
    /\ pc \in {"recvmsg", "in recvmsg"}
    /\ queue[cur] # <<>>
    /\ queue' = [queue EXCEPT ![cur] = Tail(@)]
    /\ \/ \E d \in Fds :
             Head(queue[cur]) = "rights" /\ LowestFree(d) /\ TakeRights(d)
       \/ /\ Head(queue[cur]) = "errno" \/ FdsFull
          /\ close_handle(slot, {})
          /\ pc' = "waitid"
    /\ disturbed' = disturbed \cup {p \in {cur} : FdsFull}
    /\ UNCHANGED <<start_hint, held, cur, slot, proc, execd, sigchld, result>>

\* recvmsg fails with EINTR.
ReceiveInterrupted == /\ pc = "in recvmsg" /\ sigchld /\ queue[cur] = <<>>
                      /\ sigchld' = FALSE
                      /\ close_handle(slot, {})
                      /\ pc' = "waitid"
                      /\ disturbed' = disturbed \cup {cur}
                      /\ UNCHANGED <<start_hint, held, cur, slot, proc, queue, execd, result>>

\* waitid(WaitId::Pid) on the way out of a failed recvmsg; EINTR is ignored.
WaitPid ==
    /\ \/ /\ pc \in {"waitid", "in waitid"} /\ proc[cur] = "zombie"
          /\ proc' = [proc EXCEPT ![cur] = "reaped"]
          /\ UNCHANGED sigchld
       \/ /\ pc = "in waitid" /\ sigchld /\ proc[cur] # "zombie"
          /\ sigchld' = FALSE
          /\ UNCHANGED proc
    /\ CloseFds(SocketFds)
    /\ Return("err")
    /\ UNCHANGED <<table, start_hint, live, held, cur, slot, queue, execd, disturbed>>

\* read returns an errno: execve failed.  The pidfd is closed with the handle,
\* so the waitid on it that follows fails and the child is not reaped.
ReadErrno == /\ pc \in {"read", "in read"} /\ queue[cur] # <<>>
             /\ queue' = [queue EXCEPT ![cur] = Tail(@)]
             /\ close_handle(slot, SocketFds)
             /\ Return("err")
             /\ UNCHANGED <<start_hint, held, cur, slot, proc, execd, sigchld, disturbed>>

\* Faulty: an empty socket counts as end of file.
EndOfFileIfEmpty == queue[cur] = <<>>

\* Nobody has the write end: not the child before execve, nor the parent.
EndOfFile == /\ queue[cur] = <<>>
             /\ proc[cur] \notin {"forked", "sent", "failing"}
             /\ WriteFd = {}

\* read returns end of file, or EINTR: both count as success.
ReadNothing == /\ \/ /\ pc \in {"read", "in read"} /\ EndOfFile
                     /\ UNCHANGED <<sigchld, disturbed>>
                  \/ /\ pc = "in read" /\ sigchld /\ sigchld' = FALSE
                     /\ disturbed' = disturbed \cup {cur}
               /\ queue[cur] = <<>>
               /\ CloseFds(SocketFds)
               /\ held' = held \cup {slot}
               /\ Return("ok")
               /\ UNCHANGED <<table, start_hint, live, cur, slot, proc, queue, execd>>
-----------------------------------------------------------------------------
(* JoinProcess. *)

Joined == fds[table[slot].fd]   \* the child the pidfd is open on

Join(s) == /\ pc = "idle"
           /\ s \in held /\ Deref(s, {"PROC"})
           /\ slot' = s
           /\ pc' = IF table[s].fd >= 0 THEN "join" ELSE "panicked"
           /\ UNCHANGED <<hvars, cur, proc, queue, execd, sigchld, result, disturbed>>

\* Faulty: the handle is not closed.
JoinKeepsHandle == /\ pc \in {"join", "in join"} /\ proc[Joined] = "zombie"
                   /\ proc' = [proc EXCEPT ![Joined] = "reaped"]
                   /\ pc' = "idle"
                   /\ UNCHANGED <<hvars, cur, slot, queue, execd, sigchld, result, disturbed>>

JoinReaps == /\ pc \in {"join", "in join"} /\ proc[Joined] = "zombie"
             /\ proc' = [proc EXCEPT ![Joined] = "reaped"]
             /\ close_handle(slot, {})
             /\ held' = held \ {slot}
             /\ pc' = "idle"
             /\ UNCHANGED <<start_hint, cur, slot, queue, execd, sigchld, result, disturbed>>

\* waitid fails with EINTR.  The handle stays.
JoinFails == /\ pc = "in join" /\ sigchld /\ proc[Joined] # "zombie"
             /\ sigchld' = FALSE
             /\ pc' = "idle"
             /\ UNCHANGED <<hvars, cur, slot, proc, queue, execd, result, disturbed>>
-----------------------------------------------------------------------------
\* A call that finds nothing to return blocks in the kernel.
Block ==
    /\ \/ pc = "recvmsg" /\ queue[cur] = <<>> /\ pc' = "in recvmsg"
       \/ pc = "read" /\ queue[cur] = <<>> /\ ~EndOfFile /\ pc' = "in read"
       \/ pc = "waitid" /\ proc[cur] # "zombie" /\ pc' = "in waitid"
       \/ pc = "join" /\ proc[Joined] # "zombie" /\ pc' = "in join"
    /\ UNCHANGED <<hvars, cur, slot, proc, queue, execd, sigchld, result, disturbed>>

\* __sa_handler_seh_impl(SIGCHLD) outside a blocking call.
HandleSigchld == /\ sigchld /\ pc \notin Blocked
                 /\ sigchld' = FALSE
                 /\ UNCHANGED <<hvars, pc, cur, slot, proc, queue, execd, result, disturbed>>
-----------------------------------------------------------------------------
(* The child.  It holds both ends of the socket pair until execve or its   *)
(* death, so its packets are queued whether or not the parent still reads. *)

\* pidfd_open and sendmsg succeed.
ChildSends(p) == /\ proc[p] = "forked"
                 /\ proc' = [proc EXCEPT ![p] = "sent"]
                 /\ queue' = [queue EXCEPT ![p] = Append(@, "rights")]
                 /\ UNCHANGED <<hvars, pc, cur, slot, execd, sigchld, result, disturbed>>

ChildExecs(p) == /\ proc[p] = "sent"
                 /\ proc' = [proc EXCEPT ![p] = "running"]
                 /\ execd' = execd \cup {p}
                 /\ UNCHANGED <<hvars, pc, cur, slot, queue, sigchld, result, disturbed>>

\* pidfd_open, sendmsg or execve fails: the child writes the errno.
ChildFails(p) == /\ proc[p] \in {"forked", "sent"}
                 /\ proc' = [proc EXCEPT ![p] = "failing"]
                 /\ queue' = [queue EXCEPT ![p] = Append(@, "errno")]
                 /\ UNCHANGED <<hvars, pc, cur, slot, execd, sigchld, result, disturbed>>

\* exit_unrecoverably, the end of the program, or a signal from outside.
ChildDies(p) == /\ \/ /\ proc[p] \in {"failing", "running"}
                      /\ UNCHANGED disturbed
                   \/ /\ MayKill /\ proc[p] \in {"forked", "sent"}
                      /\ disturbed' = disturbed \cup {p}
                /\ proc' = [proc EXCEPT ![p] = "zombie"]
                /\ sigchld' = TRUE
                /\ UNCHANGED <<hvars, pc, cur, slot, queue, execd, result>>

Child(p) == ChildSends(p) \/ ChildExecs(p) \/ ChildFails(p)
-----------------------------------------------------------------------------
Parent == \/ Fork \/ ForkFails \/ Receive \/ ReceiveInterrupted \/ WaitPid
          \/ ReadErrno \/ ReadNothing \/ JoinReaps \/ JoinFails \/ Block

Program == \/ \E p \in Procs, s \in Slots, rd, wr \in Fds : Begin(p, s, rd, wr)
           \/ \E s \in held : Join(s)
           \/ SocketpairFails
           \/ /\ pc = "idle" /\ HNext /\ UNCHANGED pvars

Next == Parent \/ Program \/ HandleSigchld \/ \E p \in Procs : Child(p) \/ ChildDies(p)

Spec == Init /\ [][Next]_vars

\* The parent keeps running, a child gets to execve or fails, and one that
\* fails dies.  How long the program a child runs takes is its own affair.
FairSpec == /\ Spec
            /\ WF_vars(Parent)
            /\ \A p \in Procs : /\ WF_vars(Child(p))
                                /\ WF_vars(proc[p] = "failing" /\ ChildDies(p))
-----------------------------------------------------------------------------
TypeOK == /\ HTypeOK
          /\ pc \in Places
          /\ cur \in Procs
          /\ slot \in Slots
          /\ proc \in [Procs -> ProcStates]
          /\ queue \in [Procs -> Seq({"rights", "errno"})]
          /\ execd \subseteq Procs
          /\ sigchld \in BOOLEAN
          /\ result \in [Procs -> {"none", "ok", "err"}]
          /\ disturbed \subseteq Procs

\* Every process handle the program can join has a descriptor, so the
\* unwrap() in JoinProcess (proc.rs:181) holds.
JoinFindsPidfd == \A s \in held : Deref(s, {"PROC"}) => table[s].fd >= 0

\* While a process handle has its descriptor, its child has not been reaped:
\* JoinProcess finds a child to wait for.
HandleKeepsChild == \A s \in Used :
    table[s].ty = "PROC" /\ table[s].fd >= 0 => proc[fds[table[s].fd]] # "reaped"

\* CreateProcess reports exactly what became of the execve, success if it
\* succeeded and an error if it failed (proc.rs:152-162), unless its calls
\* were interrupted by a signal, the child was killed before execve, or the
\* descriptor table was full.
ResultIsExact == \A p \in Procs \ disturbed : /\ result[p] = "ok" => p \in execd
                                              /\ result[p] = "err" => p \notin execd

\* Under the same proviso CreateProcess returns.
CreateReturns == \A p \in Procs :
    (pc = "fork" /\ cur = p) ~> (result[p] # "none" \/ p \in disturbed)
=============================================================================
