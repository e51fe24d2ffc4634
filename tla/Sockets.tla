------------------------------ MODULE Sockets -------------------------------
(***************************************************************************)
(* Descriptor tables (proc.rs) and local stream sockets (file.rs,          *)
(* syscall.rs): socket, bind, connect, accept, socketpair, poll, close,    *)
(* dup, dup2, fcntl, and what fork, exec and exit do to descriptors.       *)
(*                                                                         *)
(* A description, listener or end of a connection lives as long as an Arc  *)
(* to it: in a table, in a call that is under way, or in another such      *)
(* object.  Reads and writes are those that need not wait, with one byte;  *)
(* the others are in Pipe.  AF_INET sockets are left out.                  *)
(***************************************************************************)
EXTENDS Integers, Sequences

CONSTANTS
  Procs, NOFILE, SOCK_BACKLOG_CAP, PIPE_CAP,
  Names, Inums,             \* paths of socket nodes and inode numbers for them
  Files, Listeners, Conns,  \* names for what is allocated
  Plans                     \* bounds, one of which Init chooses: the processes
                            \* there are, the calls each makes in turn, whether
                            \* each has a hart of its own, who may be killed

Fds == 0..(NOFILE - 1)
FdEntry(f) == [file |-> f, cloexec |-> FALSE, nonblock |-> FALSE]
Empty == FdEntry(0)

None == <<0, "none">>
Listener(l) == <<l, "listener">>
Ends == Conns \X {"client", "server"}
Peer(e) == <<e[1], IF e[2] = "client" THEN "server" ELSE "client">>

Fresh == [s |-> "fresh", of |-> None]
Listening(l) == [s |-> "listening", of |-> Listener(l)]
Connected(e) == [s |-> "connected", of |-> e]

\* A call: its arguments, then the references it holds; late: the sockets that
\* were fresh when poll registered.
Request(call, fd) ==
  [call |-> call, fd |-> fd, fd2 |-> 0, flag |-> FALSE, name |-> CHOOSE n \in Names : TRUE,
   set |-> {}, events |-> {}, files |-> {}, l |-> 0, e |-> None, inum |-> 0,
   late |-> {}]

NoCall == Request("none", 0)

Calls == {"dup", "dup2", "fcntl_dup", "fcntl_setfd", "fcntl_setfl", "close", "exec", "fork",
          "exit", "socket", "socketpair", "listen", "bind", "connect", "accept", "unlink",
          "send", "recv", "poll"}

\* What a process may ask for.
Requests ==
  [call : Calls, fd : Int, fd2 : Int, flag : BOOLEAN, name : Names, set : SUBSET Fds,
   events : SUBSET {"in", "out"}, files : {{}}, l : {0}, e : {None}, inum : {0}, late : {{}}]

ASSUME SocketsAssumption ==
  /\ {NOFILE, SOCK_BACKLOG_CAP, PIPE_CAP} \subseteq Nat \ {0}
  /\ Inums \cup Files \cup Listeners \cup Conns \subseteq Nat \ {0}
  /\ Names # {}
  /\ \A b \in Plans : b.smp \in BOOLEAN /\ b.calls \in [Procs -> Seq(SUBSET Requests)]

VARIABLES
  fds,        \* Proc.files
  sock,       \* the state of the socket that a description is
  backlog,    \* Listener.backlog
  registry,   \* SOCK_REGISTRY
  names,      \* the inode number of a path, 0 if it does not exist
  buf,        \* bytes in the pipe that an end reads
  waiting,    \* the waker lists: pairs of a process and an object
  ready,      \* processes whose task is queued
  killed,
  pc, arg, ret,
  step, plan

objects == <<sock, backlog, registry, names, buf>>
wakers == <<waiting, ready>>
vars == <<fds, objects, wakers, killed, pc, arg, ret, step, plan>>

Init ==
  /\ plan \in Plans
  /\ fds = [p \in Procs |-> [d \in Fds |-> Empty]]
  /\ sock = [f \in Files |-> Fresh]
  /\ backlog = [l \in Listeners |-> <<>>]
  /\ registry = <<>>
  /\ names = [n \in Names |-> 0]
  /\ buf = [e \in Ends |-> 0]
  /\ waiting = {} /\ ready = {}
  /\ killed = [p \in Procs |-> FALSE]
  /\ pc = [p \in Procs |-> IF p \in plan.born THEN "user" ELSE "unborn"]
  /\ arg = [p \in Procs |-> NoCall]
  /\ ret = [p \in Procs |-> "ok"]
  /\ step = [p \in Procs |-> 1]

-----------------------------------------------------------------------------
(* References.                                                             *)

Elems(q) == {q[i] : i \in DOMAIN q}
Lowest(S) == CHOOSE x \in S : \A y \in S : x <= y

HeldFiles ==
  ({fds[p][d].file : p \in Procs, d \in Fds} \ {0}) \cup UNION {arg[p].files : p \in Procs}

Held(s) == {sock[f].of : f \in {g \in HeldFiles : sock[g].s = s}}

HeldListeners == ({arg[p].l : p \in Procs} \ {0}) \cup {x[1] : x \in Held("listening")}

HeldEnds ==
  ({arg[p].e : p \in Procs} \ {None}) \cup Held("connected")
    \cup UNION {Elems(backlog[l]) : l \in HeldListeners}

HeldObjects == HeldEnds \cup {Listener(l) : l \in HeldListeners}

\* Bounds: an action that allocates has a name for what it allocates.
FreeFiles == Files \ HeldFiles
FreeConns == Conns \ {e[1] : e \in HeldEnds}
FreeInums == Inums \ ({names[n] : n \in Names} \cup {arg[p].inum : p \in Procs})
NewListeners == Listeners \ (HeldListeners \cup {r.l : r \in Elems(registry)})

\* The last conjunct of every action: who parks, which lists are woken and whose
\* queued id is spent.  Drop for SockEnd wakes the peer's list; lists go with
\* their objects.
Notify(parks, woke, spent) ==
  LET all == woke \cup {Peer(e) : e \in HeldEnds \ HeldEnds'}
      lists == HeldObjects' \ all
  IN
  /\ ready' = (ready \ spent) \cup {w[1] : w \in {x \in waiting : x[2] \in all}}
  /\ waiting' = {w \in waiting \cup parks : w[2] \in lists}

Quiet == Notify({}, {}, {})

-----------------------------------------------------------------------------
(* Calls and returns.                                                      *)

\* Positions at which a task can find itself outside a poll, or at an await
\* inside the file system.
Between == {"user", "parked", "unborn", "dead", "bind_create", "connect_resolve",
            "connect_lookup"}

Runs(p) == plan.smp \/ \A q \in Procs \ {p} : pc[q] \in Between
At(p, l) == pc[p] = l /\ Runs(p)
Goto(p, l) == pc' = [pc EXCEPT ![p] = l]

Call(p) ==
  /\ At(p, "user") /\ ~killed[p] /\ step[p] <= Len(plan.calls[p])
  /\ \E r \in plan.calls[p][step[p]] :
       /\ arg' = [arg EXCEPT ![p] = r]
       /\ Goto(p, r.call)
  /\ ret' = [ret EXCEPT ![p] = "none"]
  /\ step' = [step EXCEPT ![p] = @ + 1]
  /\ UNCHANGED <<fds, objects, wakers, killed>>

Return(p, r) ==
  /\ Goto(p, "user")
  /\ arg' = [arg EXCEPT ![p] = NoCall]
  /\ ret' = [ret EXCEPT ![p] = r]

\* The call goes on at l and holds what it has in a.
Hold(p, l, a) ==
  /\ Goto(p, l)
  /\ arg' = [arg EXCEPT ![p] = a]
  /\ UNCHANGED ret

File(p) == IF arg[p].fd \in Fds THEN fds[p][arg[p].fd].file ELSE 0
IsSocket(p, s) == File(p) # 0 /\ sock[File(p)].s = s

Kill(p) ==
  /\ p \in plan.victims /\ ~killed[p] /\ pc[p] \notin {"unborn", "dead"}
  /\ killed' = [killed EXCEPT ![p] = TRUE]
  /\ ready' = ready \cup {p}
  /\ UNCHANGED <<fds, objects, waiting, pc, arg, ret, step>>

\* exit, called or because the process was killed: all descriptors go.
Exit(p) ==
  /\ At(p, "exit") \/ (At(p, "user") /\ killed[p])
  /\ fds' = [fds EXCEPT ![p] = [d \in Fds |-> Empty]]
  /\ Goto(p, "dead")
  /\ arg' = [arg EXCEPT ![p] = NoCall]
  /\ UNCHANGED <<objects, killed, ret, step>>
  /\ Quiet

\* The executor polls a parked task again, or one in user mode for nothing.
Repoll(p) ==
  /\ p \in ready /\ Runs(p) /\ pc[p] \in {"parked", "user"}
  /\ Goto(p, IF pc[p] = "user" THEN "user"
             ELSE IF arg[p].call = "accept" THEN "accept_register" ELSE "poll_sweep")
  /\ UNCHANGED <<fds, objects, killed, arg, ret, step>>
  /\ Notify({}, {}, {p})

-----------------------------------------------------------------------------
(* Descriptors.                                                            *)

\* alloc_fd_entry_from: the lowest free descriptor, or -1.
alloc(table, start) ==
  LET S == {d \in Fds : d >= start /\ table[d].file = 0}
  IN  IF S = {} THEN -1 ELSE Lowest(S)

\* The table gets entry e; without room the call fails.
Install(p, e, start) ==
  LET d == alloc(fds[p], start) IN
  /\ fds' = IF d = -1 THEN fds ELSE [fds EXCEPT ![p][d] = e]
  /\ Return(p, IF d = -1 THEN "fail" ELSE "ok")

NewFile == Lowest(FreeFiles)

Dup(p) ==
  /\ At(p, "dup")
  /\ IF File(p) = 0 THEN Return(p, "fail") /\ UNCHANGED fds
     ELSE Install(p, [fds[p][arg[p].fd] EXCEPT !.cloexec = FALSE], 0)
  /\ UNCHANGED <<objects, killed, step>>
  /\ Quiet

Dup2(p) ==
  LET old == arg[p].fd
      new == arg[p].fd2
  IN
  /\ At(p, "dup2")
  /\ IF File(p) = 0 \/ (old # new /\ new \notin Fds)
     THEN Return(p, "fail") /\ UNCHANGED fds
     ELSE /\ fds' = IF old = new THEN fds
                    ELSE [fds EXCEPT ![p][new] = [fds[p][old] EXCEPT !.cloexec = FALSE]]
          /\ Return(p, "ok")
  /\ UNCHANGED <<objects, killed, step>>
  /\ Quiet

\* F_DUPFD and F_DUPFD_CLOEXEC
FcntlDup(p) ==
  /\ At(p, "fcntl_dup")
  /\ IF File(p) = 0 THEN Return(p, "fail") /\ UNCHANGED fds
     ELSE Install(p, [fds[p][arg[p].fd] EXCEPT !.cloexec = arg[p].flag], arg[p].fd2)
  /\ UNCHANGED <<objects, killed, step>>
  /\ Quiet

\* F_SETFD and F_SETFL
FcntlSet(p) ==
  LET d == arg[p].fd IN
  /\ \/ /\ At(p, "fcntl_setfd")
        /\ fds' = IF File(p) = 0 THEN fds ELSE [fds EXCEPT ![p][d].cloexec = arg[p].flag]
     \/ /\ At(p, "fcntl_setfl")
        /\ fds' = IF File(p) = 0 THEN fds ELSE [fds EXCEPT ![p][d].nonblock = arg[p].flag]
  /\ Return(p, IF File(p) = 0 THEN "fail" ELSE "ok")
  /\ UNCHANGED <<objects, killed, step>>
  /\ Quiet

Close(p) ==
  /\ At(p, "close")
  /\ fds' = IF File(p) = 0 THEN fds ELSE [fds EXCEPT ![p][arg[p].fd] = Empty]
  /\ Return(p, IF File(p) = 0 THEN "fail" ELSE "ok")
  /\ UNCHANGED <<objects, killed, step>>
  /\ Quiet

\* close_on_exec
Exec(p) ==
  /\ At(p, "exec")
  /\ fds' = [fds EXCEPT ![p] = [d \in Fds |-> IF @[d].cloexec THEN Empty ELSE @[d]]]
  /\ Return(p, "ok")
  /\ UNCHANGED <<objects, killed, step>>
  /\ Quiet

\* fork_from: the child shares every description.
Fork(p) ==
  /\ At(p, "fork")
  /\ \E q \in Procs :
       /\ pc[q] = "unborn"
       /\ fds' = [fds EXCEPT ![q] = fds[p]]
       /\ pc' = [pc EXCEPT ![p] = "user", ![q] = "user"]
  /\ arg' = [arg EXCEPT ![p] = NoCall]
  /\ ret' = [ret EXCEPT ![p] = "ok"]
  /\ UNCHANGED <<objects, killed, step>>
  /\ Quiet

-----------------------------------------------------------------------------
(* Sockets.                                                                *)

Socket(p) ==
  /\ At(p, "socket") /\ FreeFiles # {}
  /\ sock' = [sock EXCEPT ![NewFile] = Fresh]
  /\ Install(p, FdEntry(NewFile), 0)
  /\ UNCHANGED <<backlog, registry, names, buf, killed, step>>
  /\ Quiet

\* Variant: the first descriptor stays open.
UndoneNot(table, d) == table

Undone(table, d) == [table EXCEPT ![d] = Empty]

\* Two descriptors, or none; flag: the caller's pointer is bad.
Socketpair(p) ==
  LET c == CHOOSE x \in FreeConns : TRUE
      f == NewFile
      g == CHOOSE x \in FreeFiles \ {f} : TRUE
      d == alloc(fds[p], 0)
      one == [fds[p] EXCEPT ![d] = FdEntry(f)]
      d2 == alloc(one, 0)
      two == [one EXCEPT ![d2] = FdEntry(g)]
  IN
  /\ At(p, "socketpair") /\ FreeConns # {} /\ FreeFiles \ {f} # {}
  /\ sock' = [sock EXCEPT ![f] = Connected(<<c, "client">>), ![g] = Connected(<<c, "server">>)]
  /\ buf' = [buf EXCEPT ![<<c, "client">>] = 0, ![<<c, "server">>] = 0]
  /\ IF d = -1 THEN Return(p, "fail") /\ UNCHANGED fds
     ELSE IF d2 = -1
     THEN Return(p, "fail") /\ fds' = [fds EXCEPT ![p] = Undone(one, d)]
     ELSE /\ fds' = [fds EXCEPT ![p] = IF arg[p].flag THEN Undone(Undone(two, d), d2) ELSE two]
          /\ Return(p, IF arg[p].flag THEN "fail" ELSE "ok")
  /\ UNCHANGED <<backlog, registry, names, killed, step>>
  /\ Quiet

\* listen only looks: bind has armed the queue.
Listen(p) ==
  /\ At(p, "listen")
  /\ Return(p, IF IsSocket(p, "listening") THEN "ok" ELSE "fail")
  /\ UNCHANGED <<fds, objects, killed, step>>
  /\ Quiet

Bind(p) ==
  /\ At(p, "bind")
  /\ IF IsSocket(p, "fresh") THEN Hold(p, "bind_create", [arg[p] EXCEPT !.files = {File(p)}])
     ELSE Return(p, "fail")
  /\ UNCHANGED <<fds, objects, killed, step>>
  /\ Quiet

\* create_at_path; ialloc takes the lowest free number.
BindCreate(p) ==
  LET n == arg[p].name
      i == Lowest(FreeInums)
  IN
  /\ At(p, "bind_create")
  /\ IF names[n] # 0 \/ FreeInums = {}
     THEN Return(p, "fail") /\ UNCHANGED names
     ELSE /\ names' = [names EXCEPT ![n] = i]
          /\ Hold(p, "bind_register", [arg[p] EXCEPT !.inum = i])
  /\ UNCHANGED <<fds, sock, backlog, registry, buf, killed, step>>
  /\ Quiet

\* sock_register
BindRegister(p) ==
  LET l == CHOOSE x \in NewListeners : TRUE IN
  /\ At(p, "bind_register") /\ NewListeners # {}
  /\ registry' = Append(registry, [inum |-> arg[p].inum, l |-> l])
  /\ backlog' = [backlog EXCEPT ![l] = <<>>]
  /\ Hold(p, "bind_set", [arg[p] EXCEPT !.l = l])
  /\ UNCHANGED <<fds, sock, names, buf, killed, step>>
  /\ Quiet

\* Variant: the state is not looked at again.
StillFreshAssumed(p) == TRUE

\* The descriptor may be shared, and the socket have been bound or connected.
StillFresh(p) == \A f \in arg[p].files : sock[f].s = "fresh"

BindSet(p) ==
  /\ At(p, "bind_set")
  /\ IF StillFresh(p)
     THEN /\ sock' = [f \in Files |-> IF f \in arg[p].files THEN Listening(arg[p].l) ELSE sock[f]]
          /\ Return(p, "ok")
     ELSE Return(p, "fail") /\ UNCHANGED sock
  /\ UNCHANGED <<fds, backlog, registry, names, buf, killed, step>>
  /\ Quiet

Connect(p) ==
  /\ At(p, "connect")
  /\ IF IsSocket(p, "fresh")
     THEN Hold(p, "connect_resolve", [arg[p] EXCEPT !.files = {File(p)}])
     ELSE Return(p, "fail")
  /\ UNCHANGED <<fds, objects, killed, step>>
  /\ Quiet

ConnectResolve(p) ==
  LET i == names[arg[p].name] IN
  /\ At(p, "connect_resolve")
  /\ IF i = 0 THEN Return(p, "fail")
     ELSE Hold(p, "connect_lookup", [arg[p] EXCEPT !.inum = i])
  /\ UNCHANGED <<fds, objects, killed, step>>
  /\ Quiet

\* sock_lookup purges dead entries and finds the first for the number.
ConnectLookup(p) ==
  LET found == {i \in DOMAIN registry : /\ registry[i].l \in HeldListeners
                                        /\ registry[i].inum = arg[p].inum}
  IN
  /\ At(p, "connect_lookup")
  /\ registry' = SelectSeq(registry, LAMBDA r : r.l \in HeldListeners)
  /\ \/ found = {} /\ Return(p, "fail")
     \/ \E i \in found :
          /\ \A j \in found : i <= j
          /\ Hold(p, "connect_push", [arg[p] EXCEPT !.l = registry[i].l])
  /\ UNCHANGED <<fds, sock, backlog, names, buf, killed, step>>
  /\ Quiet

\* The server's end goes to the backlog, the call keeps the client's.
ConnectPush(p) ==
  LET c == CHOOSE x \in FreeConns : TRUE
      l == arg[p].l
  IN
  /\ At(p, "connect_push")
  /\ IF Len(backlog[l]) >= SOCK_BACKLOG_CAP
     THEN Return(p, "fail") /\ UNCHANGED <<backlog, buf>>
     ELSE /\ FreeConns # {}
          /\ backlog' = [backlog EXCEPT ![l] = Append(@, <<c, "server">>)]
          /\ buf' = [buf EXCEPT ![<<c, "client">>] = 0, ![<<c, "server">>] = 0]
          /\ Hold(p, "connect_wake", [arg[p] EXCEPT !.e = <<c, "client">>])
  /\ UNCHANGED <<fds, sock, registry, names, killed, step>>
  /\ Quiet

\* Variant: nobody is woken.
WokenNone(l) == {}

\* accept_waker.wake_all
Woken(l) == {Listener(l)}

ConnectWake(p) ==
  /\ At(p, "connect_wake")
  /\ Hold(p, "connect_set", arg[p])
  /\ UNCHANGED <<fds, objects, killed, step>>
  /\ Notify({}, Woken(arg[p].l), {})

ConnectSet(p) ==
  /\ At(p, "connect_set")
  /\ IF StillFresh(p)
     THEN /\ sock' = [f \in Files |-> IF f \in arg[p].files THEN Connected(arg[p].e) ELSE sock[f]]
          /\ Return(p, "ok")
     ELSE Return(p, "fail") /\ UNCHANGED sock
  /\ UNCHANGED <<fds, backlog, registry, names, buf, killed, step>>
  /\ Quiet

Accept(p) ==
  /\ At(p, "accept")
  /\ IF IsSocket(p, "listening")
     THEN Hold(p, "accept_register",
               [arg[p] EXCEPT !.files = {File(p)}, !.l = sock[File(p)].of[1]])
     ELSE Return(p, "fail")
  /\ UNCHANGED <<fds, objects, killed, step>>
  /\ Quiet

\* AcceptWait: a killed process leaves, others register ...
AcceptRegister(p) ==
  /\ At(p, "accept_register")
  /\ IF killed[p] THEN Return(p, "fail") ELSE Hold(p, "accept_pop", arg[p])
  /\ UNCHANGED <<fds, objects, killed, step>>
  /\ Notify(IF killed[p] THEN {} ELSE {<<p, Listener(arg[p].l)>>}, {}, {})

\* ... and look.  Without a descriptor for it the connection is dropped.
AcceptPop(p) ==
  LET l == arg[p].l IN
  /\ At(p, "accept_pop")
  /\ IF backlog[l] = <<>>
     THEN Hold(p, "parked", arg[p]) /\ UNCHANGED <<fds, sock, backlog>>
     ELSE /\ FreeFiles # {}
          /\ backlog' = [backlog EXCEPT ![l] = Tail(@)]
          /\ sock' = [sock EXCEPT ![NewFile] = Connected(Head(backlog[l]))]
          /\ Install(p, FdEntry(NewFile), 0)
  /\ UNCHANGED <<registry, names, buf, killed, step>>
  /\ Quiet

\* unlink of a socket's node, as the file system does it.
Unlink(p) ==
  /\ At(p, "unlink")
  /\ names' = [names EXCEPT ![arg[p].name] = 0]
  /\ Return(p, IF names[arg[p].name] = 0 THEN "fail" ELSE "ok")
  /\ UNCHANGED <<fds, sock, backlog, registry, buf, killed, step>>
  /\ Quiet

-----------------------------------------------------------------------------
(* Reads, writes and poll.                                                 *)

Nonblock(p) == fds[p][arg[p].fd].nonblock

Send(p) ==
  LET connected == IsSocket(p, "connected")
      to == Peer(sock[File(p)].of)
      sent == connected /\ ~killed[p] /\ to \in HeldEnds /\ buf[to] < PIPE_CAP
  IN
  /\ At(p, "send")
  /\ connected => sent \/ killed[p] \/ to \notin HeldEnds \/ Nonblock(p)
  /\ buf' = IF sent THEN [buf EXCEPT ![to] = @ + 1] ELSE buf
  /\ Return(p, IF sent THEN "ok" ELSE "fail")
  /\ UNCHANGED <<fds, sock, backlog, registry, names, killed, step>>
  /\ Notify({}, IF sent THEN {to} ELSE {}, {})

\* A killed process that may wait gets 0, as at end of file.
Recv(p) ==
  LET connected == IsSocket(p, "connected")
      e == sock[File(p)].of
      left == connected /\ killed[p] /\ ~Nonblock(p)
      got == connected /\ ~left /\ buf[e] > 0
      eof == connected /\ Peer(e) \notin HeldEnds
  IN
  /\ At(p, "recv")
  /\ connected => got \/ eof \/ left \/ Nonblock(p)
  /\ buf' = IF got THEN [buf EXCEPT ![e] = @ - 1] ELSE buf
  /\ Return(p, IF got \/ eof \/ left THEN "ok" ELSE "fail")
  /\ UNCHANGED <<fds, sock, backlog, registry, names, killed, step>>
  /\ Notify({}, IF got THEN {Peer(e)} ELSE {}, {})

\* sys_poll resolves the descriptors once ...
Poll(p) ==
  /\ At(p, "poll")
  /\ Hold(p, "poll_sweep", [arg[p] EXCEPT !.files = {fds[p][d].file : d \in arg[p].set} \ {0}])
  /\ UNCHANGED <<fds, objects, killed, step>>
  /\ Quiet

\* file_revents: is there something to report?
Revents(f, events) ==
  LET e == sock[f].of IN
  CASE sock[f].s = "fresh" -> FALSE
    [] sock[f].s = "listening" -> "in" \in events /\ backlog[e[1]] # <<>>
    [] sock[f].s = "connected" -> \/ "in" \in events /\ buf[e] > 0
                                  \/ "out" \in events /\ buf[Peer(e)] < PIPE_CAP
                                  \/ Peer(e) \notin HeldEnds

Reports(p) ==
  \E d \in arg[p].set : fds[p][d].file = 0 \/ Revents(fds[p][d].file, arg[p].events)

\* ... looks at them; flag: a timeout of 0 ...
PollSweep(p) ==
  /\ At(p, "poll_sweep")
  /\ IF Reports(p) \/ arg[p].flag THEN Return(p, "ok")
     ELSE IF killed[p] THEN Return(p, "fail")
     ELSE Hold(p, "poll_register", arg[p])
  /\ UNCHANGED <<fds, objects, killed, step>>
  /\ Quiet

\* Variant: a listener's list is not joined.
ListsConnected(S) == {sock[f].of : f \in {g \in S : sock[g].s = "connected"}}

Lists(S) == {sock[f].of : f \in {g \in S : sock[g].s # "fresh"}}

\* ... and waits on their lists: a fresh socket has none.
PollRegister(p) ==
  /\ At(p, "poll_register")
  /\ Hold(p, IF killed[p] THEN "poll_sweep" ELSE "parked",
          [arg[p] EXCEPT !.late = {f \in arg[p].files : sock[f].s = "fresh"}])
  /\ UNCHANGED <<fds, objects, killed, step>>
  /\ Notify(IF killed[p] THEN {} ELSE {<<p, x>> : x \in Lists(arg[p].files)}, {}, {})

-----------------------------------------------------------------------------
Descriptor(p) == Dup(p) \/ Dup2(p) \/ FcntlDup(p) \/ FcntlSet(p) \/ Close(p) \/ Exec(p) \/ Fork(p)
Naming(p) == Socket(p) \/ Socketpair(p) \/ Listen(p) \/ Bind(p) \/ BindCreate(p)
             \/ BindRegister(p) \/ BindSet(p) \/ Unlink(p)
Connecting(p) == Connect(p) \/ ConnectResolve(p) \/ ConnectLookup(p) \/ ConnectPush(p)
                 \/ ConnectWake(p) \/ ConnectSet(p)
Accepting(p) == Accept(p) \/ AcceptRegister(p) \/ AcceptPop(p)
Using(p) == Send(p) \/ Recv(p) \/ Poll(p) \/ PollSweep(p) \/ PollRegister(p)

Next ==
  /\ \E p \in Procs : Call(p) \/ Kill(p) \/ Exit(p) \/ Repoll(p) \/ Descriptor(p) \/ Naming(p)
                      \/ Connecting(p) \/ Accepting(p) \/ Using(p)
  /\ UNCHANGED plan

Spec == Init /\ [][Next]_vars

-----------------------------------------------------------------------------
(* Properties.                                                             *)

\* Nobody stays parked in accept while a connection is in the backlog, though
\* several processes accept from one listener, connections come from any hart
\* and accepters are killed.
AccepterNotStuck ==
  \A p \in Procs :
    pc[p] = "parked" /\ arg[p].call = "accept" /\ p \notin ready =>
      /\ ~killed[p]
      /\ \/ backlog[arg[p].l] = <<>>
         \/ \E q \in Procs : pc[q] = "connect_wake" /\ arg[q].l = arg[p].l

\* On one hart nobody stays parked in poll while one of its sockets has something
\* to report, unless the socket was fresh when poll registered and another
\* process that shares it has connected or bound it since.
PollerNotStuck ==
  \A p \in Procs :
    ~plan.smp /\ pc[p] = "parked" /\ arg[p].call = "poll" /\ p \notin ready =>
      /\ ~killed[p]
      /\ \A f \in arg[p].files \ arg[p].late :
           Revents(f, arg[p].events) =>
             \E q \in Procs : pc[q] = "connect_wake" /\ Listener(arg[q].l) = sock[f].of

\* A socket that is bound or connected stays what it is while anyone has it open:
\* of the binds and connects that processes sharing it have under way, each of
\* which found it fresh before it awaited the file system, only one takes effect.
StateSettled ==
  [][\A f \in HeldFiles \cap HeldFiles' : sock[f] # Fresh => sock'[f] = sock[f]]_vars

\* A call that fails leaves the descriptors of its process as they were, though
\* it may have filled the last free one.
FailsCleanly ==
  [][\A p \in Procs : ret[p] = "none" /\ ret'[p] = "fail" => fds'[p] = fds[p]]_vars
=============================================================================
