---------------------------- MODULE SocketsProofs ----------------------------
(***************************************************************************)
(* Proofs about descriptors and local sockets, for any number of           *)
(* processes, descriptors, listeners and connections and any calls they    *)
(* make.                                                                   *)
(***************************************************************************)
EXTENDS Sockets, NaturalsInduction, WellFoundedInduction, TLAPS

\* Most steps are first-order; the others name the backend they need.
USE ZenonT(40)

-----------------------------------------------------------------------------
(* The inductive invariant.                                                *)

\* A descriptor that is not in use has no flags set.
Entries == {Empty} \cup [file : Files, cloexec : BOOLEAN, nonblock : BOOLEAN]
States == {Fresh} \cup {Listening(l) : l \in Listeners} \cup {Connected(e) : e \in Ends}
Args ==
  [call : Calls \cup {"none"}, fd : Int, fd2 : Int, flag : BOOLEAN, name : Names,
   set : SUBSET Fds, events : SUBSET {"in", "out"}, files : SUBSET Files,
   l : Listeners \cup {0}, e : Ends \cup {None}, inum : Inums \cup {0}, late : SUBSET Files]
Pcs == Calls \cup Between
  \cup {"bind_register", "bind_set", "connect_push", "connect_wake", "connect_set",
        "accept_register", "accept_pop", "poll_sweep", "poll_register"}

Typed ==
  /\ plan \in Plans
  /\ fds \in [Procs -> [Fds -> Entries]]
  /\ sock \in [Files -> States]
  /\ backlog \in [Listeners -> Seq(Ends)]
  /\ names \in [Names -> Inums \cup {0}]
  /\ buf \in [Ends -> 0..PIPE_CAP]
  /\ killed \in [Procs -> BOOLEAN]
  /\ pc \in [Procs -> Pcs]
  /\ arg \in [Procs -> Args]
  /\ ret \in [Procs -> {"none", "ok", "fail"}]
  /\ step \in [Procs -> Nat \ {0}]

Parked(p, call) == pc[p] = "parked" /\ arg[p].call = call
Waits(p, x) == <<p, x>> \in waiting

\* A connection to the listener is in its backlog and the wake-up not yet sent.
Pushed(l) == \E q \in Procs : pc[q] = "connect_wake" /\ arg[q].l = l

\* What a call holds at each place in it.
Holds(p) ==
  /\ pc[p] \in {"user", "unborn", "dead"} => arg[p] = NoCall
  /\ pc[p] \in {"accept", "accept_register", "accept_pop"} => arg[p].call = "accept"
  /\ pc[p] \in {"poll", "poll_sweep", "poll_register"} => arg[p].call = "poll"
  /\ pc[p] = "parked" => arg[p].call \in {"accept", "poll"}
  /\ pc[p] \in {"accept_register", "accept_pop", "bind_set", "connect_push", "connect_wake"}
       \/ Parked(p, "accept") => arg[p].l \in Listeners
  /\ pc[p] \in {"connect_wake", "connect_set"} => arg[p].e \in Ends

\* An accepter is on its listener's list or has been woken, and while it is parked
\* the backlog is empty or a wake-up is coming.
Accepts(p) ==
  /\ pc[p] = "accept_pop" \/ Parked(p, "accept") =>
       p \in ready \/ (~killed[p] /\ Waits(p, Listener(arg[p].l)))
  /\ Parked(p, "accept") /\ p \notin ready =>
       backlog[arg[p].l] = <<>> \/ Pushed(arg[p].l)

\* A poller holds what its descriptors name; on one hart it found nothing to report
\* and is on the list of every socket that was bound or connected then.
Polls(p) ==
  /\ pc[p] \in {"poll_sweep", "poll_register"} \/ Parked(p, "poll") =>
       arg[p].files = {fds[p][d].file : d \in arg[p].set} \ {0}
  /\ ~plan.smp /\ pc[p] = "poll_register" =>
       \A f \in arg[p].files : ~Revents(f, arg[p].events)
  /\ ~plan.smp /\ Parked(p, "poll") /\ p \notin ready =>
       /\ ~killed[p]
       /\ \A f \in arg[p].files \ arg[p].late :
            /\ sock[f] # Fresh /\ Waits(p, sock[f].of)
            /\ Revents(f, arg[p].events) =>
                 sock[f].s = "listening" /\ Pushed(sock[f].of[1])

Sane(p) == Holds(p) /\ Accepts(p) /\ Polls(p)
SockInv == Typed /\ \A p \in Procs : Sane(p)

-----------------------------------------------------------------------------
(* Records, pairs and the lowest of a set.                                 *)

LEMMA LowestIn ==
  ASSUME NEW S \in SUBSET Nat, S # {}
  PROVE  Lowest(S) \in S
<1>1. PICK i \in S : \A j \in S : <<j, i>> \notin OpToRel(<, Nat)
  BY NatLessThanWellFounded, WFMin
<1>2. \A j \in S : <<j, i>> \in Nat \X Nat /\ <<j, i>>[1] = j /\ <<j, i>>[2] = i
  OBVIOUS
<1>3. \A j \in S : ~(j < i)  BY <1>1, <1>2 DEF OpToRel
<1>4. S \subseteq Nat  OBVIOUS
<1>5. \A j \in S : i <= j  BY ONLY SMT, <1>3, <1>4, i \in S
<1> QED  BY <1>5 DEF Lowest

LEMMA PeerIs ==
  ASSUME NEW e \in Ends
  PROVE  /\ Peer(e) \in Ends /\ Peer(Peer(e)) = e /\ e[1] \in Conns
         /\ Peer(e)[1] = e[1] /\ Peer(e) # e
  BY SMT DEF Ends, Peer

LEMMA ListenerIs ==
  ASSUME NEW l, NEW e
  PROVE  Listener(l)[1] = l /\ Listener(l) # Peer(e) /\ Listener(l) \notin Ends
  BY SMT DEF Listener, Peer, Ends

LEMMA StateIs ==
  ASSUME NEW x \in States
  PROVE  /\ x.s \in {"fresh", "listening", "connected"}
         /\ x.s = "fresh" <=> x = Fresh
         /\ x.s = "listening" => x.of[1] \in Listeners /\ x.of = Listener(x.of[1])
         /\ x.s = "connected" => x.of \in Ends
<1>1. /\ Fresh.s = "fresh"
      /\ \A l : Listening(l).s = "listening" /\ Listening(l).of = Listener(l)
      /\ \A e : Connected(e).s = "connected" /\ Connected(e).of = e
  BY DEF Fresh, Listening, Connected
<1>2. \A l : Listener(l)[1] = l  BY ListenerIs
<1> QED  BY SMT, <1>1, <1>2 DEF States

LEMMA EntryIs ==
  ASSUME NEW x \in Entries
  PROVE  /\ x.file \in Files \cup {0} /\ (x.file = 0 => x = Empty)
         /\ x.file # 0 => \A b \in BOOLEAN : /\ [x EXCEPT !.cloexec = b] \in Entries
                                             /\ [x EXCEPT !.nonblock = b] \in Entries
                                             /\ [x EXCEPT !.cloexec = b].file = x.file
                                             /\ [x EXCEPT !.nonblock = b].file = x.file
<1>1. 0 \notin Files  BY SMT, SocketsAssumption
<1>2. Empty.file = 0  BY DEF Empty, FdEntry
<1>3. CASE x = Empty  BY <1>2, <1>3
<1>4. CASE x \in [file : Files, cloexec : BOOLEAN, nonblock : BOOLEAN]
  <2>1. x.file \in Files /\ x.file # 0  BY <1>1, <1>4
  <2>2. ASSUME NEW b \in BOOLEAN
        PROVE  /\ [x EXCEPT !.cloexec = b] \in [file : Files, cloexec : BOOLEAN, nonblock : BOOLEAN]
               /\ [x EXCEPT !.nonblock = b] \in [file : Files, cloexec : BOOLEAN, nonblock : BOOLEAN]
               /\ [x EXCEPT !.cloexec = b].file = x.file
               /\ [x EXCEPT !.nonblock = b].file = x.file
    BY ONLY SMT, <1>4, b \in BOOLEAN
  <2> QED  BY <2>1, <2>2 DEF Entries
<1> QED  BY <1>3, <1>4 DEF Entries

LEMMA NewEntryIs ==
  ASSUME NEW f \in Files
  PROVE  FdEntry(f) \in Entries /\ FdEntry(f).file = f
  BY SMT DEF FdEntry, Entries

\* A call comes to hold something more.
LEMMA ArgFiles ==
  ASSUME NEW a \in Args, NEW F \in SUBSET Files, NEW b, b = [a EXCEPT !.files = F]
  PROVE  b \in Args /\ b.files = F /\ b.call = a.call /\ b.l = a.l /\ b.e = a.e /\ b.set = a.set
  BY SMT DEF Args

LEMMA ArgInum ==
  ASSUME NEW a \in Args, NEW i \in Inums \cup {0}, NEW b, b = [a EXCEPT !.inum = i]
  PROVE  b \in Args /\ b.files = a.files /\ b.l = a.l /\ b.e = a.e
  BY SMT DEF Args

LEMMA ArgListener ==
  ASSUME NEW a \in Args, NEW l \in Listeners, NEW b, b = [a EXCEPT !.l = l]
  PROVE  b \in Args /\ b.files = a.files /\ b.l = l /\ b.e = a.e /\ b.call = a.call
  BY SMT DEF Args

LEMMA ArgEnd ==
  ASSUME NEW a \in Args, NEW e \in Ends, NEW b, b = [a EXCEPT !.e = e]
  PROVE  b \in Args /\ b.files = a.files /\ b.l = a.l /\ b.e = e
  BY SMT DEF Args

LEMMA ArgLate ==
  ASSUME NEW a \in Args, NEW F \in SUBSET Files, NEW b, b = [a EXCEPT !.late = F]
  PROVE  /\ b \in Args /\ b.files = a.files /\ b.l = a.l /\ b.e = a.e /\ b.call = a.call
         /\ b.set = a.set /\ b.events = a.events /\ b.late = F
  BY SMT DEF Args

LEMMA RequestIs ==
  /\ NoCall \in Args /\ NoCall.files = {} /\ NoCall.l = 0 /\ NoCall.e = None
  /\ \A r \in Requests : r \in Args /\ r.files = {} /\ r.l = 0 /\ r.e = None /\ r.call \in Calls
<1>1. (CHOOSE n \in Names : TRUE) \in Names  BY SocketsAssumption
<1>2. NoCall \in Args /\ NoCall.files = {} /\ NoCall.l = 0 /\ NoCall.e = None
  BY SMT, <1>1 DEF NoCall, Request, Args
<1>3. ASSUME NEW r \in Requests
      PROVE  r \in Args /\ r.files = {} /\ r.l = 0 /\ r.e = None /\ r.call \in Calls
  BY SMT DEF Requests, Args
<1> QED  BY <1>2, <1>3

-----------------------------------------------------------------------------
(* What a step of one process leaves to the others.                        *)

Keeps(p) ==
  \A q \in Procs \ {p} :
    /\ arg'[q] = arg[q] /\ killed'[q] = killed[q] /\ ret'[q] = ret[q]
    /\ \/ pc'[q] = pc[q] /\ fds'[q] = fds[q]
       \/ pc[q] = "unborn" /\ pc'[q] = "user"

Settles == \A f \in HeldFiles \cap HeldFiles' : sock[f] # Fresh => sock'[f] = sock[f]
Cleanly(p) == ret[p] = "none" /\ ret'[p] = "fail" => fds'[p] = fds[p]

\* Who waits on a list goes on waiting or is woken, as everyone on the lists woke
\* and on those of dropped ends' peers is.
Wakes(Q, woke) ==
  \A q \in Q :
    /\ q \in ready => q \in ready'
    /\ \A x \in HeldObjects' : Waits(q, x) =>
         \/ q \in ready'
         \/ Waits(q, x)' /\ x \notin woke /\ \A e \in HeldEnds \ HeldEnds' : Peer(e) # x

\* The lists that are woken cover what comes to be reported.
Covers(p, woke) ==
  /\ \A l \in Listeners : backlog'[l] # <<>> =>
       backlog[l] # <<>> \/ (pc'[p] = "connect_wake" /\ arg'[p].l = l)
  /\ pc[p] = "connect_wake" => Listener(arg[p].l) \in woke
  /\ \A e \in Ends \cap HeldEnds :
       /\ buf'[e] > 0 => buf[e] > 0 \/ e \in woke
       /\ buf'[Peer(e)] < PIPE_CAP => buf[Peer(e)] < PIPE_CAP \/ e \in woke

LEMMA Notified ==
  ASSUME NEW parks, NEW woke, NEW spent, Notify(parks, woke, spent), NEW Q, Q \cap spent = {}
  PROVE  Wakes(Q, woke)
<1> DEFINE all == woke \cup {Peer(e) : e \in HeldEnds \ HeldEnds'}
<1>1. /\ ready' = (ready \ spent) \cup {w[1] : w \in {x \in waiting : x[2] \in all}}
      /\ waiting' = {w \in waiting \cup parks : w[2] \in HeldObjects' \ all}
  BY DEF Notify
<1>2. ASSUME NEW q \in Q, q \in ready PROVE q \in ready'  BY <1>1, <1>2
<1>3. ASSUME NEW q \in Q, NEW x \in HeldObjects', Waits(q, x), q \notin ready'
      PROVE  Waits(q, x)' /\ x \notin woke /\ \A e \in HeldEnds \ HeldEnds' : Peer(e) # x
  <2> DEFINE w == <<q, x>>
  <2>1. w \in waiting /\ w[1] = q /\ w[2] = x  BY <1>3 DEF Waits
  <2> HIDE DEF w
  <2>2. x \notin all
    <3>1. ASSUME x \in all PROVE FALSE
      <4>1. w \in {y \in waiting : y[2] \in all}  BY <2>1, <3>1
      <4>2. q \in {y[1] : y \in {z \in waiting : z[2] \in all}}  BY <2>1, <4>1
      <4> QED  BY <1>1, <1>3, <4>2
    <3> QED  BY <3>1
  <2>3. w \in waiting'  BY <1>1, <2>1, <2>2
  <2>4. Waits(q, x)'  BY <2>3 DEF Waits, w
  <2> QED  BY <2>2, <2>4
<1> QED  BY <1>2, <1>3 DEF Wakes

LEMMA OthersInv ==
  ASSUME SockInv, NEW p \in Procs, NEW woke, plan' = plan, Runs(p), Keeps(p), Settles,
         Wakes(Procs \ {p}, woke), Covers(p, woke), NEW q \in Procs \ {p}
  PROVE  Sane(q)'
<1> USE DEF SockInv
<1>1. Sane(q) /\ arg[q] \in Args  BY DEF Typed
<1>2. CASE pc[q] = "unborn" /\ pc'[q] = "user"
  <2>1. arg'[q] = NoCall  BY <1>1, <1>2 DEF Keeps, Sane, Holds
  <2> QED  BY <1>2, <2>1 DEF Sane, Holds, Accepts, Polls, Parked
<1>3. CASE pc'[q] = pc[q] /\ fds'[q] = fds[q]
  <2>0. PICK a : a = arg[q]  OBVIOUS
  <2>1. arg[q] = a /\ arg'[q] = a /\ killed'[q] = killed[q]  BY <2>0 DEF Keeps
  <2>2. Holds(q)'  BY <1>1, <1>3, <2>1 DEF Sane, Holds, Parked
  <2>3. q \in ready => q \in ready'  BY DEF Wakes
  \* A list that q is on is not woken.
  <2>4. ASSUME NEW x \in HeldObjects', Waits(q, x), q \notin ready'
        PROVE  Waits(q, x)' /\ x \notin woke /\ \A e \in HeldEnds \ HeldEnds' : Peer(e) # x
    BY <2>4 DEF Wakes
  <2>5. ASSUME NEW l \in Listeners, Listener(l) \notin woke,
               backlog[l] = <<>> \/ Pushed(l)
        PROVE  backlog'[l] = <<>> \/ Pushed(l)'
    <3>1. CASE Pushed(l)
      <4>1. PICK r \in Procs : pc[r] = "connect_wake" /\ arg[r].l = l  BY <3>1 DEF Pushed
      <4>2. r # p  BY <2>5, <4>1 DEF Covers
      <4>3. pc'[r] = "connect_wake" /\ arg'[r].l = l  BY <4>1, <4>2 DEF Keeps
      <4> QED  BY <4>3 DEF Pushed
    <3>2. CASE backlog[l] = <<>>  BY <3>2 DEF Covers, Pushed
    <3> QED  BY <2>5, <3>1, <3>2
  <2>6. Accepts(q)'
    <3>1. ASSUME pc[q] = "accept_pop" \/ Parked(q, "accept")
          PROVE  a.l \in Listeners /\ Listener(a.l) \in HeldObjects'
      <4>1. a.l \in Listeners  BY <1>1, <2>1, <3>1 DEF Sane, Holds
      <4>2. a.l # 0  BY SMT, <4>1, SocketsAssumption
      <4>3. a.l \in {arg'[k].l : k \in Procs} \ {0}  BY <2>1, <4>2
      <4> QED  BY <2>1, <4>1, <4>3 DEF HeldObjects, HeldListeners
    <3>2. ASSUME pc[q] = "accept_pop" \/ Parked(q, "accept"), q \notin ready'
          PROVE  /\ ~killed[q] /\ Waits(q, Listener(a.l))'
                 /\ Listener(a.l) \notin woke
      <4>1. ~killed[q] /\ Waits(q, Listener(a.l))  BY <1>1, <2>1, <2>3, <3>2 DEF Sane, Accepts
      <4> QED  BY SMT, <2>4, <3>1, <3>2, <4>1
    <3>3. ASSUME Parked(q, "accept"), q \notin ready'
          PROVE  backlog'[a.l] = <<>> \/ Pushed(a.l)'
      <4>1. backlog[a.l] = <<>> \/ Pushed(a.l)  BY <1>1, <2>1, <2>3, <3>3 DEF Sane, Accepts
      <4> QED  BY SMT, <2>5, <3>1, <3>2, <3>3, <4>1
    <3> QED  BY <1>3, <2>1, <3>2, <3>3 DEF Accepts, Parked
  <2>7. Polls(q)'
    <3>1. ~plan.smp => pc[q] # "poll_register"  BY DEF Runs, Between
    <3>2. ASSUME ~plan.smp, Parked(q, "poll"), q \notin ready',
                 NEW f \in a.files \ a.late
          PROVE  /\ sock'[f] # Fresh /\ Waits(q, sock[f].of)'
                 /\ Revents(f, a.events)' =>
                      sock'[f].s = "listening" /\ Pushed(sock[f].of[1])'
      <4>1. /\ f \in Files /\ sock[f] \in States /\ sock[f] # Fresh /\ Waits(q, sock[f].of)
            /\ Revents(f, a.events) => sock[f].s = "listening" /\ Pushed(sock[f].of[1])
        <5>1. f \in Files  BY SMT, <1>1, <2>1 DEF Args
        <5> QED  BY <1>1, <2>1, <2>3, <3>2, <5>1 DEF Typed, Sane, Polls
      <4>2. f \in HeldFiles /\ f \in HeldFiles'  BY SMT, <2>1 DEF HeldFiles
      <4>3. sock'[f] = sock[f]  BY <4>1, <4>2 DEF Settles
      <4>4. /\ sock[f].s \in {"listening", "connected"}
            /\ sock[f].s = "listening" =>
                 sock[f].of[1] \in Listeners /\ sock[f].of = Listener(sock[f].of[1])
            /\ sock[f].s = "connected" => sock[f].of \in Ends
        BY <4>1, StateIs
      <4>5. CASE sock[f].s = "listening"
        <5>1. PICK l \in Listeners : l = sock[f].of[1] /\ sock[f].of = Listener(l)
          BY <4>4, <4>5
        <5>2. Listener(l) \in HeldObjects'
          <6>1. sock'[f].of \in Held("listening")'  BY <4>2, <4>3, <4>5 DEF Held
          <6>2. l \in HeldListeners'  BY <4>3, <5>1, <6>1 DEF HeldListeners
          <6> QED  BY <6>2 DEF HeldObjects
        <5>3. Waits(q, Listener(l))' /\ Listener(l) \notin woke  BY <2>4, <3>2, <4>1, <5>1, <5>2
        <5>4. ASSUME Revents(f, a.events)' PROVE Pushed(l)'
          <6>1. "in" \in a.events /\ backlog'[l] # <<>>
            BY SMT, <4>3, <4>5, <5>1, <5>4 DEF Revents
          <6>2. backlog[l] # <<>> => Pushed(l)
            <7>1. backlog[l] # <<>> => Revents(f, a.events)
              BY <4>5, <5>1, <6>1 DEF Revents
            <7> QED  BY <4>1, <5>1, <7>1
          <6> QED  BY <2>5, <5>3, <6>1, <6>2
        <5> QED  BY SMT, <4>1, <4>3, <4>5, <5>1, <5>3, <5>4
      <4>6. CASE sock[f].s = "connected"
        <5>1. PICK e \in Ends : e = sock[f].of  BY <4>4, <4>6
        <5>2. e \in HeldEnds /\ e \in HeldEnds' /\ e \in HeldObjects'
          <6>1. e \in Held("connected")  BY <4>2, <4>6, <5>1 DEF Held
          <6>2. e \in Held("connected")'  BY <4>2, <4>3, <4>6, <5>1 DEF Held
          <6> QED  BY <6>1, <6>2 DEF HeldEnds, HeldObjects
        <5>3. /\ Waits(q, e)' /\ e \notin woke
              /\ \A x \in HeldEnds \ HeldEnds' : Peer(x) # e
          BY <2>4, <3>2, <4>1, <5>1, <5>2
        <5>4. ~Revents(f, a.events)  BY <4>1, <4>6
        <5>5. /\ "in" \in a.events => ~(buf[e] > 0)
              /\ "out" \in a.events => ~(buf[Peer(e)] < PIPE_CAP)
              /\ Peer(e) \in HeldEnds
          BY <4>6, <5>1, <5>4 DEF Revents
        <5>6. /\ "in" \in a.events => ~(buf'[e] > 0)
              /\ "out" \in a.events => ~(buf'[Peer(e)] < PIPE_CAP)
              /\ Peer(e) \in HeldEnds'
          <6>1. Peer(Peer(e)) = e  BY PeerIs
          <6>2. Peer(e) \in HeldEnds'  BY <5>3, <5>5, <6>1
          <6> QED  BY <5>2, <5>3, <5>5, <6>2 DEF Covers
        <5>7. ~Revents(f, a.events)'
          BY SMT, <4>3, <4>6, <5>1, <5>6 DEF Revents
        <5> QED  BY SMT, <4>1, <4>3, <5>1, <5>3, <5>7
      <4> QED  BY <4>4, <4>5, <4>6
    <3>3. ASSUME ~plan.smp, Parked(q, "poll"), q \notin ready' PROVE ~killed[q]
      BY <1>1, <2>1, <2>3, <3>3 DEF Sane, Polls
    <3>4. pc[q] \in {"poll_sweep", "poll_register"} \/ Parked(q, "poll") =>
            a.files = {fds[q][d].file : d \in a.set} \ {0}
      BY <1>1, <2>1 DEF Sane, Polls
    <3> QED  BY SMT, <1>3, <2>1, <3>1, <3>2, <3>3, <3>4 DEF Polls, Parked
  <2> QED  BY <2>2, <2>6, <2>7 DEF Sane
<1> QED  BY <1>2, <1>3 DEF Keeps

-----------------------------------------------------------------------------
(* What all the steps have in common.                                      *)

LEMMA HeldIs ==
  ASSUME Typed
  PROVE  HeldFiles \subseteq Files /\ HeldListeners \subseteq Listeners /\ HeldEnds \subseteq Ends
<1>1. ASSUME NEW q \in Procs
      PROVE  /\ \A d \in Fds : fds[q][d].file \in Files \cup {0}
             /\ arg[q].files \subseteq Files /\ arg[q].l \in Listeners \cup {0}
             /\ arg[q].e \in Ends \cup {None}
  <2>1. arg[q] \in Args  BY DEF Typed
  <2>2. \A d \in Fds : fds[q][d] \in Entries  BY DEF Typed
  <2>3. \A d \in Fds : fds[q][d].file \in Files \cup {0}  BY <2>2, EntryIs
  <2>4. /\ arg[q].files \subseteq Files /\ arg[q].l \in Listeners \cup {0}
        /\ arg[q].e \in Ends \cup {None}
    BY SMT, <2>1 DEF Args
  <2> QED  BY <2>3, <2>4
<1>2. HeldFiles \subseteq Files  BY SMT, <1>1 DEF HeldFiles
<1>3. \A f \in HeldFiles : sock[f] \in States  BY <1>2 DEF Typed
<1>4. \A x \in Held("listening") : x[1] \in Listeners  BY <1>3, StateIs DEF Held
<1>5. \A x \in Held("connected") : x \in Ends  BY <1>3, StateIs DEF Held
<1>6. HeldListeners \subseteq Listeners  BY <1>1, <1>4 DEF HeldListeners
<1>7. \A l \in Listeners : Elems(backlog[l]) \subseteq Ends
  <2>1. ASSUME NEW l \in Listeners, NEW i \in DOMAIN backlog[l] PROVE backlog[l][i] \in Ends
    <3>1. backlog[l] \in Seq(Ends)  BY DEF Typed
    <3> QED  BY SMT, <3>1
  <2> QED  BY <2>1 DEF Elems
<1>8. HeldEnds \subseteq Ends  BY <1>1, <1>5, <1>6, <1>7 DEF HeldEnds
<1> QED  BY <1>2, <1>6, <1>8

LEMMA HeldSame ==
  ASSUME fds' = fds, sock' = sock, backlog' = backlog,
         \A q \in Procs : /\ arg'[q].files = arg[q].files /\ arg'[q].l = arg[q].l
                          /\ arg'[q].e = arg[q].e
  PROVE  HeldFiles' = HeldFiles /\ HeldEnds' = HeldEnds /\ HeldObjects' = HeldObjects
<1>1. /\ {arg'[q].files : q \in Procs} = {arg[q].files : q \in Procs}
      /\ {arg'[q].l : q \in Procs} = {arg[q].l : q \in Procs}
      /\ {arg'[q].e : q \in Procs} = {arg[q].e : q \in Procs}
  BY SMT
<1>2. HeldFiles' = HeldFiles  BY SMT, <1>1 DEF HeldFiles
<1>3. \A s : Held(s)' = Held(s)  BY SMT, <1>2 DEF Held
<1>4. HeldListeners' = HeldListeners  BY SMT, <1>1, <1>3 DEF HeldListeners
<1>5. HeldEnds' = HeldEnds  BY SMT, <1>1, <1>3, <1>4 DEF HeldEnds, Elems
<1> QED  BY SMT, <1>2, <1>4, <1>5 DEF HeldObjects

\* A step that keeps the invariant, and how.
Good(p, woke) ==
  /\ Runs(p) /\ Keeps(p) /\ Settles /\ Cleanly(p)
  /\ Wakes(Procs \ {p}, woke) /\ Covers(p, woke)
  /\ Typed' /\ Sane(p)'

LEMMA GoodStep ==
  ASSUME SockInv, NEW p \in Procs, NEW woke, plan' = plan, Good(p, woke)
  PROVE  /\ SockInv' /\ Settles
         /\ \A q \in Procs : ret[q] = "none" /\ ret'[q] = "fail" => fds'[q] = fds[q]
<1>1. \A q \in Procs \ {p} : Sane(q)'  BY OthersInv DEF Good
<1>2. SockInv'  BY <1>1 DEF SockInv, Good
<1>3. Settles  BY DEF Good
<1>4. \A q \in Procs : ret[q] = "none" /\ ret'[q] = "fail" => fds'[q] = fds[q]
  <2>1. \A q \in Procs \ {p} : ret'[q] = ret[q]  BY DEF Good, Keeps
  <2>2. "none" # "fail"  OBVIOUS
  <2>3. Cleanly(p)  BY DEF Good
  <2> QED  BY <2>1, <2>2, <2>3 DEF Cleanly
<1> QED  BY <1>2, <1>3, <1>4

\* p goes to c with a in hand, the table T and the result r.
Moves(p, c, a, r, T) ==
  /\ pc' = [pc EXCEPT ![p] = c] /\ arg' = [arg EXCEPT ![p] = a]
  /\ ret' = [ret EXCEPT ![p] = r] /\ fds' = [fds EXCEPT ![p] = T]
  /\ killed' = killed /\ step' = step /\ plan' = plan

Shared == sock' \in [Files -> States] /\ backlog' \in [Listeners -> Seq(Ends)]
          /\ names' \in [Names -> Inums \cup {0}] /\ buf' \in [Ends -> 0..PIPE_CAP]

LEMMA MoveGood ==
  ASSUME SockInv, NEW p \in Procs, Runs(p), NEW c \in Pcs, NEW a \in Args,
         NEW r \in {"none", "ok", "fail"}, NEW T \in [Fds -> Entries], Moves(p, c, a, r, T),
         ret[p] = "none" /\ r = "fail" => T = fds[p],
         NEW parks, NEW woke, NEW spent, spent \subseteq {p}, Notify(parks, woke, spent),
         Shared, Settles, Covers(p, woke), Sane(p)'
  PROVE  Good(p, woke)
<1> USE DEF SockInv
<1>1. /\ pc' \in [Procs -> Pcs] /\ arg' \in [Procs -> Args]
      /\ ret' \in [Procs -> {"none", "ok", "fail"}]
      /\ fds' \in [Procs -> [Fds -> Entries]]
  BY DEF Moves, Typed
<1>2. Typed'  BY <1>1 DEF Moves, Typed, Shared
<1>3. ASSUME NEW q \in Procs \ {p}
      PROVE  /\ pc'[q] = pc[q] /\ arg'[q] = arg[q] /\ ret'[q] = ret[q] /\ fds'[q] = fds[q]
             /\ killed'[q] = killed[q]
  BY SMT DEF Moves, Typed
<1>4. Keeps(p)  BY <1>3 DEF Keeps
<1>5. ret'[p] = r /\ fds'[p] = T  BY DEF Moves, Typed
<1>6. Cleanly(p)  BY <1>5 DEF Cleanly
<1>7. Wakes(Procs \ {p}, woke)  BY Notified
<1> QED  BY <1>2, <1>4, <1>6, <1>7 DEF Good

LEMMA MovedTo ==
  ASSUME Typed, NEW p \in Procs, NEW c, NEW a, NEW r, NEW T, Moves(p, c, a, r, T)
  PROVE  /\ pc'[p] = c /\ arg'[p] = a /\ ret'[p] = r /\ fds'[p] = T
         /\ killed'[p] = killed[p] /\ plan' = plan
  BY DEF Moves, Typed

\* What a step that leaves the sockets alone need not show.
LEMMA Untouched ==
  ASSUME SockInv, NEW p \in Procs, sock' = sock, backlog' = backlog, buf' = buf,
         names' \in [Names -> Inums \cup {0}], NEW woke,
         pc[p] = "connect_wake" => Listener(arg[p].l) \in woke
  PROVE  Shared /\ Settles /\ Covers(p, woke)
<1>1. Shared  BY DEF Shared, SockInv, Typed
<1>2. Settles  BY DEF Settles
<1>3. Covers(p, woke)  BY DEF Covers
<1> QED  BY <1>1, <1>2, <1>3

LEMMA ReturnedSane ==
  ASSUME NEW p \in Procs, pc'[p] \in {"user", "dead"}, arg'[p] = NoCall
  PROVE  Sane(p)'
<1>1. pc'[p] \notin {"parked", "accept", "accept_register", "accept_pop", "poll", "poll_sweep",
                     "poll_register", "bind_set", "connect_push", "connect_wake", "connect_set"}
  OBVIOUS
<1> QED  BY <1>1 DEF Sane, Holds, Accepts, Polls, Parked

\* A call that holds at most a file, or also a number, has nothing else to show.
LEMMA HeldSane ==
  ASSUME NEW p \in Procs,
         pc'[p] \in {"bind_create", "bind_register", "connect_resolve", "connect_lookup"}
  PROVE  Sane(p)'
<1>1. pc'[p] \notin {"user", "unborn", "dead", "parked", "accept", "accept_register",
                     "accept_pop", "poll", "poll_sweep", "poll_register", "bind_set",
                     "connect_push", "connect_wake", "connect_set"}
  OBVIOUS
<1> QED  BY <1>1 DEF Sane, Holds, Accepts, Polls, Parked

LEMMA ReturnGood ==
  ASSUME SockInv, NEW p \in Procs, Runs(p), NEW r \in {"ok", "fail"}, Return(p, r),
         NEW T \in [Fds -> Entries], fds' = [fds EXCEPT ![p] = T], r = "fail" => T = fds[p],
         UNCHANGED <<killed, step, plan>>, NEW woke, Notify({}, woke, {}),
         Shared, Settles, Covers(p, woke)
  PROVE  Good(p, woke)
<1>1. Moves(p, "user", NoCall, r, T)  BY DEF Moves, Return, Goto
<1>2. "user" \in Pcs /\ NoCall \in Args /\ r \in {"none", "ok", "fail"}  BY RequestIs DEF Pcs, Between
<1>3. pc'[p] = "user" /\ arg'[p] = NoCall  BY <1>1, MovedTo DEF SockInv
<1>4. Sane(p)'  BY <1>3, ReturnedSane
<1>5. {} \subseteq {p}  OBVIOUS
<1> QED  BY <1>1, <1>2, <1>4, <1>5, MoveGood

\* A call that returns and has at most replaced the descriptors.
LEMMA TableGood ==
  ASSUME SockInv, NEW p \in Procs, Runs(p), pc[p] # "connect_wake",
         NEW r \in {"ok", "fail"}, Return(p, r),
         NEW T \in [Fds -> Entries], fds' = [fds EXCEPT ![p] = T], r = "fail" => T = fds[p],
         UNCHANGED <<objects, killed, step, plan>>, Quiet
  PROVE  Good(p, {})
<1>1. sock' = sock /\ backlog' = backlog /\ buf' = buf /\ names' \in [Names -> Inums \cup {0}]
  BY DEF objects, SockInv, Typed
<1>2. Shared /\ Settles /\ Covers(p, {})  BY <1>1, Untouched
<1>3. Notify({}, {}, {})  BY DEF Quiet
<1> QED  BY <1>2, <1>3, ReturnGood

\* A call that goes on.
LEMMA HoldGood ==
  ASSUME SockInv, NEW p \in Procs, Runs(p), NEW c \in Pcs, NEW a \in Args, Hold(p, c, a),
         UNCHANGED <<fds, killed, step, plan>>, NEW parks, NEW woke, NEW spent,
         spent \subseteq {p}, Notify(parks, woke, spent),
         Shared, Settles, Covers(p, woke), Sane(p)'
  PROVE  Good(p, woke)
<1>1. PICK r, T : r = ret[p] /\ T = fds[p]  OBVIOUS
<1>2. r \in {"none", "ok", "fail"} /\ T \in [Fds -> Entries]  BY <1>1 DEF SockInv, Typed
<1>3. ret' = [ret EXCEPT ![p] = r] /\ fds' = [fds EXCEPT ![p] = T]
  BY SMT, <1>1 DEF Hold, SockInv, Typed
<1>4. Moves(p, c, a, r, T)  BY <1>3 DEF Moves, Hold, Goto
<1> QED  BY <1>1, <1>2, <1>4, MoveGood

LEMMA HoldTo ==
  ASSUME Typed, NEW p \in Procs, NEW c, NEW a, Hold(p, c, a)
  PROVE  /\ pc'[p] = c /\ arg'[p] = a
         /\ \A q \in Procs \ {p} : arg'[q] = arg[q]
  BY SMT DEF Hold, Goto, Typed

-----------------------------------------------------------------------------
(* Descriptors.                                                            *)

LEMMA FileIs ==
  ASSUME Typed, NEW p \in Procs
  PROVE  /\ File(p) \in Files \cup {0} /\ arg[p] \in Args /\ fds[p] \in [Fds -> Entries]
         /\ fds = [fds EXCEPT ![p] = fds[p]]
         /\ File(p) # 0 => /\ arg[p].fd \in Fds /\ fds[p][arg[p].fd] \in Entries
                           /\ fds[p][arg[p].fd].file = File(p)
<1>1. arg[p] \in Args /\ fds[p] \in [Fds -> Entries]  BY DEF Typed
<1>2. fds = [fds EXCEPT ![p] = fds[p]]  BY SMT DEF Typed
<1>3. File(p) # 0 => /\ arg[p].fd \in Fds /\ fds[p][arg[p].fd] \in Entries
                     /\ fds[p][arg[p].fd].file = File(p)
  BY <1>1 DEF File
<1>4. File(p) \in Files \cup {0}  BY <1>1, EntryIs DEF File
<1> QED  BY <1>1, <1>2, <1>3, <1>4

LEMMA AllocIs ==
  ASSUME NEW t, NEW k, alloc(t, k) # -1
  PROVE  alloc(t, k) \in Fds /\ t[alloc(t, k)].file = 0
<1> DEFINE S == {d \in Fds : d >= k /\ t[d].file = 0}
<1>1. S \in SUBSET Nat
  <2>1. Fds \subseteq Nat  BY SMT, SocketsAssumption DEF Fds
  <2> QED  BY <2>1
<1>2. S # {} /\ alloc(t, k) = Lowest(S)  BY DEF alloc
<1>3. Lowest(S) \in S  BY <1>1, <1>2, LowestIn
<1> QED  BY <1>2, <1>3

\* A call returns with a new table, and the old one if it fails.
Returns(p) ==
  \E T \in [Fds -> Entries], r \in {"ok", "fail"} :
    /\ Return(p, r) /\ fds' = [fds EXCEPT ![p] = T]
    /\ r = "fail" => T = fds[p]

LEMMA InstallIs ==
  ASSUME Typed, NEW p \in Procs, NEW e \in Entries, NEW k, Install(p, e, k)
  PROVE  Returns(p)
<1>1. CASE alloc(fds[p], k) = -1
  <2>1. Return(p, "fail") /\ fds' = fds  BY <1>1 DEF Install
  <2> QED  BY <2>1, FileIs DEF Returns
<1>2. CASE alloc(fds[p], k) # -1
  <2>1. PICK d \in Fds : d = alloc(fds[p], k)  BY <1>2, AllocIs
  <2>2. Return(p, "ok") /\ fds' = [fds EXCEPT ![p][d] = e]  BY <1>2, <2>1 DEF Install
  <2>3. PICK T : T = [fds[p] EXCEPT ![d] = e]  OBVIOUS
  <2>4. T \in [Fds -> Entries]  BY <2>3, FileIs
  <2>5. fds' = [fds EXCEPT ![p] = T]  BY <2>2, <2>3
  <2>6. "ok" # "fail"  OBVIOUS
  <2> QED  BY <2>2, <2>4, <2>5, <2>6 DEF Returns
<1> QED  BY <1>1, <1>2

LEMMA DescriptorGood ==
  ASSUME SockInv, NEW p \in Procs, Dup(p) \/ Dup2(p) \/ FcntlDup(p) \/ FcntlSet(p) \/ Close(p)
                                   \/ Exec(p), plan' = plan
  PROVE  Good(p, {})
<1> USE DEF SockInv
<1>1. /\ Runs(p) /\ pc[p] # "connect_wake"
      /\ UNCHANGED <<objects, killed, step, plan>> /\ Quiet
  BY DEF Dup, Dup2, FcntlDup, FcntlSet, Close, Exec, At
<1>2. /\ arg[p] \in Args /\ fds[p] \in [Fds -> Entries] /\ fds = [fds EXCEPT ![p] = fds[p]]
      /\ File(p) # 0 => arg[p].fd \in Fds /\ fds[p][arg[p].fd] \in Entries
                        /\ fds[p][arg[p].fd].file # 0
  BY FileIs
<1>3. arg[p].flag \in BOOLEAN /\ FALSE \in BOOLEAN  BY <1>2 DEF Args
<1>4. SUFFICES Returns(p)
  BY <1>1, TableGood DEF Returns
<1>5. CASE fds' = fds /\ (Return(p, "ok") \/ Return(p, "fail"))  BY <1>2, <1>5 DEF Returns
<1>6. ASSUME NEW d \in Fds, NEW e \in Entries, fds' = [fds EXCEPT ![p][d] = e], Return(p, "ok")
      PROVE  Returns(p)
  <2>1. PICK T : T = [fds[p] EXCEPT ![d] = e]  OBVIOUS
  <2>2. T \in [Fds -> Entries]  BY <1>2, <2>1
  <2>3. fds' = [fds EXCEPT ![p] = T]  BY <1>6, <2>1
  <2>4. "ok" # "fail"  OBVIOUS
  <2> QED  BY <1>6, <2>2, <2>3, <2>4 DEF Returns
<1>7. ASSUME Dup(p) PROVE Returns(p)
  <2>1. CASE File(p) = 0  BY <1>5, <1>7, <2>1 DEF Dup
  <2>2. CASE File(p) # 0
    <3>1. PICK e : e = [fds[p][arg[p].fd] EXCEPT !.cloexec = FALSE]  OBVIOUS
    <3>2. e \in Entries  BY <1>2, <1>3, <2>2, <3>1, EntryIs
    <3>3. Install(p, e, 0)  BY <1>7, <2>2, <3>1 DEF Dup
    <3> QED  BY <3>2, <3>3, InstallIs
  <2> QED  BY <2>1, <2>2
<1>8. ASSUME FcntlDup(p) PROVE Returns(p)
  <2>1. CASE File(p) = 0  BY <1>5, <1>8, <2>1 DEF FcntlDup
  <2>2. CASE File(p) # 0
    <3>1. PICK e : e = [fds[p][arg[p].fd] EXCEPT !.cloexec = arg[p].flag]  OBVIOUS
    <3>2. e \in Entries  BY <1>2, <1>3, <2>2, <3>1, EntryIs
    <3>3. Install(p, e, arg[p].fd2)  BY <1>8, <2>2, <3>1 DEF FcntlDup
    <3> QED  BY <3>2, <3>3, InstallIs
  <2> QED  BY <2>1, <2>2
<1>9. ASSUME Dup2(p) PROVE Returns(p)
  <2>1. CASE File(p) = 0 \/ (arg[p].fd # arg[p].fd2 /\ arg[p].fd2 \notin Fds)
    BY <1>5, <1>9, <2>1 DEF Dup2
  <2>2. CASE File(p) # 0 /\ arg[p].fd = arg[p].fd2  BY <1>5, <1>9, <2>2 DEF Dup2
  <2>3. CASE File(p) # 0 /\ arg[p].fd # arg[p].fd2 /\ arg[p].fd2 \in Fds
    <3>1. PICK e : e = [fds[p][arg[p].fd] EXCEPT !.cloexec = FALSE]  OBVIOUS
    <3>2. e \in Entries  BY <1>2, <1>3, <2>3, <3>1, EntryIs
    <3>3. fds' = [fds EXCEPT ![p][arg[p].fd2] = e] /\ Return(p, "ok")
      BY <1>9, <2>3, <3>1 DEF Dup2
    <3> QED  BY <1>6, <2>3, <3>2, <3>3
  <2> QED  BY <2>1, <2>2, <2>3
<1>10. ASSUME FcntlSet(p) PROVE Returns(p)
  <2>1. CASE File(p) = 0  BY <1>5, <1>10, <2>1 DEF FcntlSet
  <2>2. CASE File(p) # 0
    <3>1. PICK d, b, x : d = arg[p].fd /\ b = arg[p].flag /\ x = fds[p][d]  OBVIOUS
    <3>2. /\ \/ fds' = [fds EXCEPT ![p][d].cloexec = b]
             \/ fds' = [fds EXCEPT ![p][d].nonblock = b]
          /\ Return(p, "ok") /\ d \in Fds /\ x \in Entries /\ x.file # 0 /\ b \in BOOLEAN
      BY <1>2, <1>3, <1>10, <2>2, <3>1 DEF FcntlSet
    <3>3. PICK e : /\ e \in {[x EXCEPT !.cloexec = b], [x EXCEPT !.nonblock = b]}
                   /\ fds' = [fds EXCEPT ![p][d] = e]
      BY <3>1, <3>2
    <3>4. e \in Entries  BY <3>2, <3>3, EntryIs
    <3> QED  BY <1>6, <3>2, <3>3, <3>4
  <2> QED  BY <2>1, <2>2
<1>11. Empty \in Entries  BY DEF Entries
<1>12. ASSUME Close(p) PROVE Returns(p)
  <2>1. CASE File(p) = 0  BY <1>5, <1>12, <2>1 DEF Close
  <2>2. CASE File(p) # 0  BY <1>2, <1>6, <1>11, <1>12, <2>2 DEF Close
  <2> QED  BY <2>1, <2>2
<1>13. ASSUME Exec(p) PROVE Returns(p)
  <2>1. PICK T : T = [d \in Fds |-> IF fds[p][d].cloexec THEN Empty ELSE fds[p][d]]  OBVIOUS
  <2>2. T \in [Fds -> Entries]  BY <1>2, <1>11, <2>1
  <2>3. fds' = [fds EXCEPT ![p] = T] /\ Return(p, "ok")  BY <1>13, <2>1 DEF Exec
  <2>4. "ok" # "fail"  OBVIOUS
  <2> QED  BY <2>2, <2>3, <2>4 DEF Returns
<1> QED  BY <1>7, <1>8, <1>9, <1>10, <1>12, <1>13

\* fork changes the child too, which held nothing.
LEMMA ForkGood ==
  ASSUME SockInv, NEW p \in Procs, Fork(p), plan' = plan
  PROVE  Good(p, {})
<1> USE DEF SockInv
<1>1. /\ pc[p] = "fork" /\ Runs(p) /\ Quiet /\ UNCHANGED <<objects, killed, step>>
      /\ arg' = [arg EXCEPT ![p] = NoCall] /\ ret' = [ret EXCEPT ![p] = "ok"]
  BY DEF Fork, At
<1>2. PICK q \in Procs : /\ pc[q] = "unborn" /\ fds' = [fds EXCEPT ![q] = fds[p]]
                         /\ pc' = [pc EXCEPT ![p] = "user", ![q] = "user"]
  BY DEF Fork
<1>3. q # p  BY <1>1, <1>2
<1>4. ASSUME NEW x \in Procs \ {p}
      PROVE  /\ arg'[x] = arg[x] /\ ret'[x] = ret[x]
             /\ x # q => pc'[x] = pc[x] /\ fds'[x] = fds[x]
             /\ x = q => pc'[x] = "user"
  BY SMT, <1>1, <1>2 DEF Typed
<1>5. Keeps(p)  BY <1>1, <1>2, <1>4 DEF Keeps
<1>6. pc'[p] = "user" /\ arg'[p] = NoCall /\ ret'[p] = "ok"  BY SMT, <1>1, <1>2, <1>3 DEF Typed
<1>7. Sane(p)'  BY <1>6, ReturnedSane
<1>8. Cleanly(p)  BY <1>6 DEF Cleanly
<1>9. sock' = sock /\ backlog' = backlog /\ buf' = buf /\ names' \in [Names -> Inums \cup {0}]
  BY <1>1 DEF objects, Typed
<1>10. Shared /\ Settles /\ Covers(p, {})  BY <1>1, <1>9, Untouched
<1>11. Typed'
  <2>1. "user" \in Pcs /\ NoCall \in Args  BY RequestIs DEF Pcs, Between
  <2>2. arg' \in [Procs -> Args] /\ ret' \in [Procs -> {"none", "ok", "fail"}]
    BY <1>1, <2>1 DEF Typed
  <2>3. fds' \in [Procs -> [Fds -> Entries]]  BY <1>2 DEF Typed
  <2>4. PICK c : c = [pc EXCEPT ![p] = "user"]  OBVIOUS
  <2>5. c \in [Procs -> Pcs]  BY <2>1, <2>4 DEF Typed
  <2>6. pc' = [c EXCEPT ![q] = "user"]  BY <1>2, <2>4
  <2>7. pc' \in [Procs -> Pcs]  BY <2>1, <2>5, <2>6
  <2> QED  BY <1>1, <1>10, <2>2, <2>3, <2>7 DEF Typed, Shared
<1>12. Wakes(Procs \ {p}, {})  BY SMT, <1>1, Notified DEF Quiet
<1> QED  BY <1>1, <1>5, <1>7, <1>8, <1>10, <1>11, <1>12 DEF Good

LEMMA ExitGood ==
  ASSUME SockInv, NEW p \in Procs, Exit(p), plan' = plan
  PROVE  Good(p, {})
<1> USE DEF SockInv
<1>1. /\ Runs(p) /\ pc[p] # "connect_wake" /\ Notify({}, {}, {})
      /\ fds' = [fds EXCEPT ![p] = [d \in Fds |-> Empty]] /\ pc' = [pc EXCEPT ![p] = "dead"]
      /\ arg' = [arg EXCEPT ![p] = NoCall] /\ UNCHANGED <<objects, killed, ret, step>>
  BY DEF Exit, At, Goto, Quiet
<1>2. PICK T, r : T = [d \in Fds |-> Empty] /\ r = ret[p]  OBVIOUS
<1>3. T \in [Fds -> Entries] /\ r \in {"none", "ok", "fail"}  BY <1>2 DEF Entries, Typed
<1>4. ret' = [ret EXCEPT ![p] = r]  BY SMT, <1>1, <1>2 DEF Typed
<1>5. Moves(p, "dead", NoCall, r, T)  BY <1>1, <1>2, <1>4 DEF Moves
<1>6. "dead" \in Pcs /\ NoCall \in Args  BY RequestIs DEF Pcs, Between
<1>7. pc'[p] = "dead" /\ arg'[p] = NoCall  BY <1>5, MovedTo
<1>8. Sane(p)'  BY <1>7, ReturnedSane
<1>9. sock' = sock /\ backlog' = backlog /\ buf' = buf /\ names' \in [Names -> Inums \cup {0}]
  BY <1>1 DEF objects, Typed
<1>10. Shared /\ Settles /\ Covers(p, {})  BY <1>1, <1>9, Untouched
<1>11. ret[p] = "none" => r # "fail"  BY <1>2
<1> QED  BY <1>1, <1>3, <1>5, <1>6, <1>8, <1>10, <1>11, MoveGood

-----------------------------------------------------------------------------
(* Sockets.                                                                *)

LEMMA ReturnsGood ==
  ASSUME SockInv, NEW p \in Procs, Runs(p), Returns(p), UNCHANGED <<killed, step, plan>>,
         NEW woke, Notify({}, woke, {}), Shared, Settles, Covers(p, woke)
  PROVE  Good(p, woke)
<1>1. PICK T \in [Fds -> Entries], r \in {"ok", "fail"} :
        /\ Return(p, r) /\ fds' = [fds EXCEPT ![p] = T]
        /\ r = "fail" => T = fds[p]
  BY DEF Returns
<1> QED  BY <1>1, ReturnGood

LEMMA ReturnsSame ==
  ASSUME Typed, NEW p \in Procs, NEW r \in {"ok", "fail"}, Return(p, r), fds' = fds
  PROVE  Returns(p)
  BY FileIs DEF Returns

\* What is newly allocated nobody has.
LEMMA FreshFile ==
  ASSUME SockInv, FreeFiles # {}
  PROVE  NewFile \in Files /\ NewFile \notin HeldFiles
<1>1. FreeFiles \in SUBSET Nat
  <2>1. Files \subseteq Nat  BY SMT, SocketsAssumption
  <2> QED  BY <2>1 DEF FreeFiles
<1>2. NewFile \in FreeFiles  BY <1>1, LowestIn DEF NewFile
<1> QED  BY <1>2 DEF FreeFiles

LEMMA FreshConn ==
  ASSUME SockInv, NEW c \in FreeConns, NEW client, NEW server, client = <<c, "client">>,
         server = <<c, "server">>, buf' = [buf EXCEPT ![client] = 0, ![server] = 0]
  PROVE  /\ client \in Ends /\ server \in Ends /\ buf' \in [Ends -> 0..PIPE_CAP]
         /\ \A e \in Ends \cap HeldEnds : buf'[e] = buf[e] /\ buf'[Peer(e)] = buf[Peer(e)]
<1>1. c \in Conns /\ \A e \in HeldEnds : e[1] # c  BY DEF FreeConns
<1>2. /\ client \in Ends /\ server \in Ends
      /\ \A e \in Ends : e[1] # c => e \notin {client, server}
  BY SMT, <1>1 DEF Ends
<1>3. 0 \in 0..PIPE_CAP  BY SMT, SocketsAssumption
<1>4. buf \in [Ends -> 0..PIPE_CAP]  BY DEF SockInv, Typed
<1>5. /\ buf' \in [Ends -> 0..PIPE_CAP]
      /\ \A e \in Ends : e \notin {client, server} => buf'[e] = buf[e]
  <2>1. PICK b : b = [buf EXCEPT ![client] = 0]  OBVIOUS
  <2>2. b \in [Ends -> 0..PIPE_CAP] /\ \A e \in Ends : e # client => b[e] = buf[e]
    BY <1>3, <1>4, <2>1
  <2>3. buf' = [b EXCEPT ![server] = 0]  BY <2>1
  <2>4. buf' \in [Ends -> 0..PIPE_CAP] /\ \A e \in Ends : e # server => buf'[e] = b[e]
    BY <1>3, <2>2, <2>3
  <2> QED  BY <2>2, <2>4
<1>6. \A e \in Ends : Peer(e) \in Ends /\ Peer(e)[1] = e[1]  BY PeerIs
<1> QED  BY SMT, <1>1, <1>2, <1>5, <1>6

LEMMA SocketGood ==
  ASSUME SockInv, NEW p \in Procs, Socket(p), plan' = plan
  PROVE  Good(p, {})
<1> USE DEF SockInv
<1>1. /\ Runs(p) /\ pc[p] # "connect_wake" /\ FreeFiles # {}
      /\ sock' = [sock EXCEPT ![NewFile] = Fresh] /\ Install(p, FdEntry(NewFile), 0)
      /\ UNCHANGED <<backlog, names, buf, killed, step, plan>> /\ Notify({}, {}, {})
  BY DEF Socket, At, Quiet
<1>2. NewFile \in Files /\ NewFile \notin HeldFiles  BY <1>1, FreshFile
<1>3. Returns(p)  BY <1>1, <1>2, NewEntryIs, InstallIs
<1>4. sock' \in [Files -> States] /\ \A f \in Files \ {NewFile} : sock'[f] = sock[f]
  BY <1>1, <1>2 DEF Typed, States
<1>5. Shared  BY <1>1, <1>4 DEF Shared, Typed
<1>6. Settles  BY <1>2, <1>4, HeldIs DEF Settles
<1>7. Covers(p, {})  BY <1>1 DEF Covers
<1> QED  BY <1>1, <1>3, <1>5, <1>6, <1>7, ReturnsGood

\* Descriptors that are taken back are as if they had not been given.
LEMMA Refilled ==
  ASSUME NEW t \in [Fds -> Entries], NEW d \in Fds, t[d].file = 0, NEW e, NEW u,
         u = [t EXCEPT ![d] = e], NEW w, w = [u EXCEPT ![d] = Empty]
  PROVE  w = t
<1>1. t[d] = Empty  BY EntryIs
<1>2. t = [x \in Fds |-> t[x]]  OBVIOUS
<1>3. u = [x \in Fds |-> IF x = d THEN e ELSE t[x]]  BY SMT, <1>2
<1>4. [u EXCEPT ![d] = Empty] = [x \in Fds |-> IF x = d THEN Empty ELSE t[x]]
  BY ONLY SMT, <1>3, d \in Fds
<1>5. [x \in Fds |-> IF x = d THEN Empty ELSE t[x]] = [x \in Fds |-> t[x]]
  BY ONLY SMT, <1>1
<1> QED  BY <1>2, <1>4, <1>5

LEMMA PairReturns ==
  ASSUME SockInv, NEW p \in Procs, NEW f \in Files, NEW g \in Files,
         NEW d, NEW one, NEW d2, NEW two,
         d = alloc(fds[p], 0), one = [fds[p] EXCEPT ![d] = FdEntry(f)],
         d2 = alloc(one, 0), two = [one EXCEPT ![d2] = FdEntry(g)],
         IF d = -1 THEN Return(p, "fail") /\ UNCHANGED fds
         ELSE IF d2 = -1
         THEN Return(p, "fail") /\ fds' = [fds EXCEPT ![p] = Undone(one, d)]
         ELSE /\ fds' = [fds EXCEPT ![p] =
                           IF arg[p].flag THEN Undone(Undone(two, d), d2) ELSE two]
              /\ Return(p, IF arg[p].flag THEN "fail" ELSE "ok")
  PROVE  Returns(p)
<1> USE DEF SockInv
<1>0. PICK t : t = fds[p]  OBVIOUS
<1>1. t \in [Fds -> Entries] /\ one = [t EXCEPT ![d] = FdEntry(f)] /\ d = alloc(t, 0)
  BY <1>0, FileIs
<1>2. CASE d = -1  BY <1>2, ReturnsSame
<1>3. ASSUME d # -1
      PROVE  /\ d \in Fds /\ t[d].file = 0 /\ Undone(one, d) = t
             /\ one \in [Fds -> Entries] /\ one[d].file # 0
  <2>1. d \in Fds /\ t[d].file = 0  BY SMT, <1>1, <1>3, AllocIs
  <2>2. Undone(one, d) = t
    <3>1. one = [t EXCEPT ![d] = FdEntry(f)]  BY <1>1
    <3>2. PICK w : w = [one EXCEPT ![d] = Empty]  OBVIOUS
    <3>3. w = t  BY ONLY <1>1, <2>1, <3>1, <3>2, Refilled
    <3> QED  BY <3>2, <3>3 DEF Undone
  <2>3. FdEntry(f) \in Entries /\ FdEntry(f).file # 0
    <3>1. f # 0  BY SMT, SocketsAssumption
    <3> QED  BY <3>1, NewEntryIs
  <2>4. one \in [Fds -> Entries] /\ one[d] = FdEntry(f)  BY <1>1, <2>1, <2>3
  <2> QED  BY <2>1, <2>2, <2>3, <2>4
<1>4. CASE d # -1 /\ d2 = -1  BY <1>0, <1>3, <1>4, FileIs, ReturnsSame
<1>5. CASE d # -1 /\ d2 # -1
  <2>1. d2 \in Fds /\ one[d2].file = 0 /\ d2 # d  BY <1>3, <1>5, AllocIs
  <2>2. FdEntry(g) \in Entries  BY NewEntryIs
  <2>3. two \in [Fds -> Entries]  BY <1>3, <1>5, <2>1, <2>2
  <2>4. Undone(Undone(two, d), d2) = t
    <3>0. PICK w : w = [two EXCEPT ![d2] = Empty]  OBVIOUS
    <3>1. w = one
      <4>1. two = [one EXCEPT ![d2] = FdEntry(g)]  OBVIOUS
      <4>2. one \in [Fds -> Entries]  BY <1>3, <1>5
      <4> QED  BY ONLY <2>1, <3>0, <4>1, <4>2, Refilled
    <3>2. [[two EXCEPT ![d] = Empty] EXCEPT ![d2] = Empty]
            = [[two EXCEPT ![d2] = Empty] EXCEPT ![d] = Empty]
      BY SMT, <2>1, <2>3
    <3> QED  BY SMT, <1>3, <1>5, <3>0, <3>1, <3>2 DEF Undone
  <2>5. CASE arg[p].flag
    <3>1. Return(p, "fail") /\ fds' = [fds EXCEPT ![p] = t]  BY <1>5, <2>4, <2>5
    <3> QED  BY <1>0, <1>1, <3>1 DEF Returns
  <2>6. CASE ~arg[p].flag
    <3>1. Return(p, "ok") /\ fds' = [fds EXCEPT ![p] = two]  BY <1>5, <2>6
    <3>2. "ok" # "fail"  OBVIOUS
    <3> QED  BY <2>3, <3>1, <3>2 DEF Returns
  <2> QED  BY <2>5, <2>6
<1> QED  BY <1>2, <1>4, <1>5

LEMMA SocketpairGood ==
  ASSUME SockInv, NEW p \in Procs, Socketpair(p), plan' = plan
  PROVE  Good(p, {})
<1> USE DEF SockInv
<1>1. PICK c, f, g : /\ c = (CHOOSE x \in FreeConns : TRUE) /\ f = NewFile
                     /\ g = (CHOOSE x \in FreeFiles \ {f} : TRUE)
  OBVIOUS
<1>2. PICK client, server : client = <<c, "client">> /\ server = <<c, "server">>  OBVIOUS
<1>3. /\ Runs(p) /\ pc[p] # "connect_wake" /\ FreeConns # {} /\ FreeFiles \ {f} # {}
      /\ sock' = [sock EXCEPT ![f] = Connected(client), ![g] = Connected(server)]
      /\ buf' = [buf EXCEPT ![client] = 0, ![server] = 0]
      /\ UNCHANGED <<backlog, names, killed, step, plan>> /\ Notify({}, {}, {})
  BY <1>1, <1>2 DEF Socketpair, At, Quiet
<1>4. c \in FreeConns /\ g \in FreeFiles \ {f} /\ FreeFiles # {}  BY <1>1, <1>3
<1>5. f \in Files /\ f \notin HeldFiles /\ g \in Files /\ g \notin HeldFiles
  BY <1>1, <1>4, FreshFile DEF FreeFiles
<1>6. Returns(p)
  <2>1. PICK d, one, d2, two :
          /\ d = alloc(fds[p], 0) /\ one = [fds[p] EXCEPT ![d] = FdEntry(f)]
          /\ d2 = alloc(one, 0) /\ two = [one EXCEPT ![d2] = FdEntry(g)]
    OBVIOUS
  <2>2. IF d = -1 THEN Return(p, "fail") /\ UNCHANGED fds
        ELSE IF d2 = -1
        THEN Return(p, "fail") /\ fds' = [fds EXCEPT ![p] = Undone(one, d)]
        ELSE /\ fds' = [fds EXCEPT ![p] =
                          IF arg[p].flag THEN Undone(Undone(two, d), d2) ELSE two]
             /\ Return(p, IF arg[p].flag THEN "fail" ELSE "ok")
    BY <1>1, <2>1 DEF Socketpair
  <2> QED  BY SMT, <1>5, <2>1, <2>2, PairReturns
<1>7. /\ client \in Ends /\ server \in Ends /\ buf' \in [Ends -> 0..PIPE_CAP]
      /\ \A e \in Ends \cap HeldEnds : buf'[e] = buf[e] /\ buf'[Peer(e)] = buf[Peer(e)]
  BY <1>2, <1>3, <1>4, FreshConn
<1>8. sock' \in [Files -> States] /\ \A x \in Files \ {f, g} : sock'[x] = sock[x]
  <2>1. Connected(client) \in States /\ Connected(server) \in States  BY <1>7 DEF States
  <2>2. PICK s : s = [sock EXCEPT ![f] = Connected(client)]  OBVIOUS
  <2>3. s \in [Files -> States] /\ \A x \in Files \ {f} : s[x] = sock[x]
    BY <1>5, <2>1, <2>2 DEF Typed
  <2>4. sock' = [s EXCEPT ![g] = Connected(server)]  BY <1>3, <2>2
  <2> QED  BY <1>5, <2>1, <2>3, <2>4
<1>9. Shared  BY <1>3, <1>7, <1>8 DEF Shared, Typed
<1>10. Settles  BY <1>5, <1>8, HeldIs DEF Settles
<1>11. Covers(p, {})  BY <1>3, <1>7 DEF Covers
<1> QED  BY <1>3, <1>6, <1>9, <1>10, <1>11, ReturnsGood

\* Calls that return and change no descriptor and no socket.
LEMMA ReturnOnly ==
  ASSUME SockInv, NEW p \in Procs, Runs(p), pc[p] # "connect_wake",
         NEW r \in {"ok", "fail"}, Return(p, r),
         UNCHANGED <<fds, sock, backlog, buf, killed, step, plan>>,
         names' \in [Names -> Inums \cup {0}], Quiet
  PROVE  Good(p, {})
<1> USE DEF SockInv
<1>1. Returns(p)  BY ReturnsSame
<1>2. Shared /\ Settles /\ Covers(p, {})  BY Untouched
<1>3. Notify({}, {}, {})  BY DEF Quiet
<1> QED  BY <1>1, <1>2, <1>3, ReturnsGood

\* Calls that go on and have only looked so far.
LEMMA HoldOnly ==
  ASSUME SockInv, NEW p \in Procs, Runs(p), pc[p] # "connect_wake",
         NEW c \in Pcs, NEW a \in Args, Hold(p, c, a), Sane(p)',
         UNCHANGED <<fds, sock, backlog, buf, killed, step, plan>>,
         names' \in [Names -> Inums \cup {0}], Quiet
  PROVE  Good(p, {})
<1>1. Shared /\ Settles /\ Covers(p, {})  BY Untouched
<1>2. Notify({}, {}, {}) /\ {} \subseteq {p}  BY DEF Quiet
<1> QED  BY <1>1, <1>2, HoldGood

LEMMA NamingSane ==
  ASSUME NEW p \in Procs, pc'[p] \in {"bind_set", "connect_push", "connect_wake", "connect_set"},
         pc'[p] # "connect_set" => arg'[p].l \in Listeners,
         pc'[p] \in {"connect_wake", "connect_set"} => arg'[p].e \in Ends
  PROVE  Sane(p)'
<1>1. pc'[p] \notin {"user", "unborn", "dead", "parked", "accept", "accept_register",
                     "accept_pop", "poll", "poll_sweep", "poll_register"}
  OBVIOUS
<1> QED  BY <1>1 DEF Sane, Holds, Accepts, Polls, Parked

LEMMA SocketIs ==
  ASSUME Typed, NEW p \in Procs, NEW s, IsSocket(p, s)
  PROVE  File(p) \in Files /\ sock[File(p)] \in States /\ sock[File(p)].s = s
<1>1. File(p) \in Files  BY FileIs DEF IsSocket
<1> QED  BY <1>1 DEF IsSocket, Typed

LEMMA ListenGood ==
  ASSUME SockInv, NEW p \in Procs, Listen(p), plan' = plan
  PROVE  Good(p, {})
<1>1. /\ Runs(p) /\ pc[p] # "connect_wake" /\ Quiet
      /\ UNCHANGED <<fds, sock, backlog, buf, names, killed, step, plan>>
      /\ Return(p, "ok") \/ Return(p, "fail")
  BY DEF Listen, At, objects
<1>2. names' \in [Names -> Inums \cup {0}]  BY <1>1 DEF SockInv, Typed
<1> QED  BY <1>1, <1>2, ReturnOnly

LEMMA UnlinkGood ==
  ASSUME SockInv, NEW p \in Procs, Unlink(p), plan' = plan
  PROVE  Good(p, {})
<1>1. /\ Runs(p) /\ pc[p] # "connect_wake" /\ Quiet
      /\ names' = [names EXCEPT ![arg[p].name] = 0]
      /\ UNCHANGED <<fds, sock, backlog, buf, killed, step, plan>>
      /\ Return(p, "ok") \/ Return(p, "fail")
  BY DEF Unlink, At
<1>2. names' \in [Names -> Inums \cup {0}]  BY <1>1 DEF SockInv, Typed
<1> QED  BY <1>1, <1>2, ReturnOnly

\* bind and connect up to the file system.
LEMMA LooksUpGood ==
  ASSUME SockInv, NEW p \in Procs, Bind(p) \/ Connect(p) \/ ConnectResolve(p), plan' = plan
  PROVE  Good(p, {})
<1> USE DEF SockInv
<1>0. PICK a : a = arg[p]  OBVIOUS
<1>1. /\ Runs(p) /\ pc[p] # "connect_wake" /\ Quiet
      /\ UNCHANGED <<fds, sock, backlog, buf, names, killed, step, plan>>
      /\ \/ Return(p, "fail")
         \/ /\ IsSocket(p, "fresh")
            /\ \/ Hold(p, "bind_create", [a EXCEPT !.files = {File(p)}])
               \/ Hold(p, "connect_resolve", [a EXCEPT !.files = {File(p)}])
         \/ Hold(p, "connect_lookup", [a EXCEPT !.inum = names[a.name]])
  BY <1>0 DEF Bind, Connect, ConnectResolve, At, objects
<1>2. a \in Args /\ names' \in [Names -> Inums \cup {0}]  BY <1>0, <1>1 DEF Typed
<1>3. CASE Return(p, "fail")  BY <1>1, <1>2, <1>3, ReturnOnly
<1>4. ASSUME NEW c \in {"bind_create", "connect_resolve", "connect_lookup"}, NEW b \in Args,
             Hold(p, c, b)
      PROVE  Good(p, {})
  <2>1. c \in Pcs  BY DEF Pcs, Between
  <2>2. pc'[p] = c  BY <1>4, HoldTo
  <2>3. Sane(p)'  BY <2>2, HeldSane
  <2> QED  BY <1>1, <1>2, <1>4, <2>1, <2>3, HoldOnly
<1>5. CASE /\ IsSocket(p, "fresh")
           /\ \/ Hold(p, "bind_create", [a EXCEPT !.files = {File(p)}])
              \/ Hold(p, "connect_resolve", [a EXCEPT !.files = {File(p)}])
  <2>1. PICK b : b = [a EXCEPT !.files = {File(p)}]  OBVIOUS
  <2>2. File(p) \in Files  BY <1>5, SocketIs
  <2>3. b \in Args  BY <1>2, <2>1, <2>2, ArgFiles
  <2> QED  BY <1>4, <1>5, <2>1, <2>3
<1>6. CASE Hold(p, "connect_lookup", [a EXCEPT !.inum = names[a.name]])
  <2>1. PICK b, i : i = names[a.name] /\ b = [a EXCEPT !.inum = i]  OBVIOUS
  <2>2. a.name \in Names  BY <1>2 DEF Args
  <2>3. i \in Inums \cup {0}  BY <2>1, <2>2 DEF Typed
  <2>4. b \in Args  BY <1>2, <2>1, <2>3, ArgInum
  <2> QED  BY <1>4, <1>6, <2>1, <2>4
<1> QED  BY <1>1, <1>3, <1>5, <1>6

LEMMA BindCreateGood ==
  ASSUME SockInv, NEW p \in Procs, BindCreate(p), plan' = plan
  PROVE  Good(p, {})
<1> USE DEF SockInv
<1>0. PICK a, i : a = arg[p] /\ i = Lowest(FreeInums)  OBVIOUS
<1>1. /\ Runs(p) /\ pc[p] # "connect_wake" /\ Quiet
      /\ UNCHANGED <<fds, sock, backlog, buf, killed, step, plan>>
      /\ \/ Return(p, "fail") /\ UNCHANGED names
         \/ /\ FreeInums # {} /\ names' = [names EXCEPT ![a.name] = i]
            /\ Hold(p, "bind_register", [a EXCEPT !.inum = i])
  BY <1>0 DEF BindCreate, At
<1>2. a \in Args  BY <1>0 DEF Typed
<1>3. CASE Return(p, "fail") /\ UNCHANGED names
  <2>1. names' \in [Names -> Inums \cup {0}]  BY <1>3 DEF Typed
  <2> QED  BY <1>1, <1>3, <2>1, ReturnOnly
<1>4. CASE /\ FreeInums # {} /\ names' = [names EXCEPT ![a.name] = i]
           /\ Hold(p, "bind_register", [a EXCEPT !.inum = i])
  <2>1. i \in Inums
    <3>1. Inums \subseteq Nat  BY SMT, SocketsAssumption
    <3>2. FreeInums \in SUBSET Nat  BY <3>1 DEF FreeInums
    <3>3. i \in FreeInums  BY <1>0, <1>4, <3>2, LowestIn
    <3> QED  BY <3>3 DEF FreeInums
  <2>2. names' \in [Names -> Inums \cup {0}]  BY <1>4, <2>1 DEF Typed
  <2>3. PICK b : b = [a EXCEPT !.inum = i]  OBVIOUS
  <2>4. b \in Args  BY <1>2, <2>1, <2>3, ArgInum
  <2>5. Hold(p, "bind_register", b)  BY <1>4, <2>3
  <2>6. pc'[p] = "bind_register" /\ "bind_register" \in Pcs  BY <2>5, HoldTo DEF Pcs
  <2>7. Sane(p)'  BY <2>6, HeldSane
  <2> QED  BY <1>1, <2>2, <2>4, <2>5, <2>6, <2>7, HoldOnly
<1> QED  BY <1>1, <1>3, <1>4

LEMMA BindRegisterGood ==
  ASSUME SockInv, NEW p \in Procs, BindRegister(p), plan' = plan
  PROVE  Good(p, {})
<1> USE DEF SockInv
<1>0. PICK a, l : a = arg[p] /\ l = (CHOOSE x \in NewListeners : TRUE)  OBVIOUS
<1>1. /\ Runs(p) /\ pc[p] = "bind_register" /\ Notify({}, {}, {}) /\ NewListeners # {}
      /\ backlog' = [backlog EXCEPT ![l] = <<>>] /\ Hold(p, "bind_set", [a EXCEPT !.l = l])
      /\ UNCHANGED <<fds, sock, names, buf, killed, step, plan>>
  BY <1>0 DEF BindRegister, At, Quiet
<1>2. a \in Args /\ l \in Listeners  BY <1>0, <1>1 DEF Typed, NewListeners
<1>3. PICK b : b = [a EXCEPT !.l = l]  OBVIOUS
<1>4. b \in Args /\ b.l = l  BY <1>2, <1>3, ArgListener
<1>5. Hold(p, "bind_set", b)  BY <1>1, <1>3
<1>6. pc'[p] = "bind_set" /\ arg'[p] = b /\ "bind_set" \in Pcs  BY <1>5, HoldTo DEF Pcs
<1>7. Sane(p)'  BY <1>2, <1>4, <1>6, NamingSane
<1>8. /\ backlog' \in [Listeners -> Seq(Ends)]
      /\ \A x \in Listeners : backlog'[x] # <<>> => backlog[x] # <<>>
  <2>1. <<>> \in Seq(Ends)  BY SMT
  <2>2. backlog'[l] = <<>> /\ \A x \in Listeners \ {l} : backlog'[x] = backlog[x]
    BY <1>1, <1>2 DEF Typed
  <2>3. backlog' \in [Listeners -> Seq(Ends)]  BY <1>1, <2>1 DEF Typed
  <2> QED  BY <2>2, <2>3
<1>9. Shared  BY <1>1, <1>8 DEF Shared, Typed
<1>10. Settles  BY <1>1 DEF Settles
<1>11. Covers(p, {})  BY <1>1, <1>8 DEF Covers
<1>12. {} \subseteq {p}  OBVIOUS
<1> QED  BY <1>1, <1>4, <1>5, <1>6, <1>7, <1>9, <1>10, <1>11, <1>12, HoldGood

\* The step that makes a fresh socket what it stays.
LEMMA SetGood ==
  ASSUME SockInv, NEW p \in Procs, BindSet(p) \/ ConnectSet(p), plan' = plan
  PROVE  Good(p, {})
<1> USE DEF SockInv
<1>1. /\ Runs(p) /\ pc[p] \in {"bind_set", "connect_set"} /\ Notify({}, {}, {})
      /\ UNCHANGED <<fds, backlog, names, buf, killed, step, plan>>
      /\ Return(p, "ok") \/ Return(p, "fail")
  BY DEF BindSet, ConnectSet, At, Quiet
<1>2. PICK y : /\ y \in States
               /\ \/ sock' = sock
                  \/ /\ StillFresh(p)
                     /\ sock' = [f \in Files |-> IF f \in arg[p].files THEN y ELSE sock[f]]
  <2>1. CASE BindSet(p)
    <3>1. arg[p].l \in Listeners  BY <2>1 DEF BindSet, At, Sane, Holds
    <3>2. Listening(arg[p].l) \in States  BY <3>1 DEF States
    <3> QED  BY <2>1, <3>2 DEF BindSet
  <2>2. CASE ConnectSet(p)
    <3>1. arg[p].e \in Ends  BY <2>2 DEF ConnectSet, At, Sane, Holds
    <3>2. Connected(arg[p].e) \in States  BY <3>1 DEF States
    <3> QED  BY <2>2, <3>2 DEF ConnectSet
  <2> QED  BY <2>1, <2>2
<1>3. sock' \in [Files -> States]  BY <1>2 DEF Typed
<1>4. ASSUME NEW f \in HeldFiles, sock[f] # Fresh PROVE sock'[f] = sock[f]
  <2>1. f \in Files /\ sock[f] \in States  BY HeldIs DEF Typed
  <2>2. sock[f].s # "fresh"  BY <1>4, <2>1, StateIs
  <2>3. StillFresh(p) => f \notin arg[p].files  BY <2>2 DEF StillFresh
  <2> QED  BY <1>2, <2>1, <2>3
<1>5. Shared  BY <1>1, <1>3 DEF Shared, Typed
<1>6. Settles  BY <1>4 DEF Settles
<1>7. Covers(p, {})  BY <1>1 DEF Covers
<1>8. Returns(p)  BY <1>1, ReturnsSame
<1> QED  BY <1>1, <1>5, <1>6, <1>7, <1>8, ReturnsGood

LEMMA ConnectLookupGood ==
  ASSUME SockInv, NEW p \in Procs, ConnectLookup(p), plan' = plan
  PROVE  Good(p, {})
<1> USE DEF SockInv
<1>0. PICK a : a = arg[p]  OBVIOUS
<1>1. /\ Runs(p) /\ pc[p] # "connect_wake" /\ Quiet
      /\ UNCHANGED <<fds, sock, backlog, names, buf, killed, step, plan>>
      /\ \/ Return(p, "fail")
         \/ \E l \in HeldListeners : Hold(p, "connect_push", [a EXCEPT !.l = l])
  BY <1>0 DEF ConnectLookup, At
<1>2. a \in Args /\ names' \in [Names -> Inums \cup {0}]  BY <1>0, <1>1 DEF Typed
<1>3. CASE Return(p, "fail")  BY <1>1, <1>2, <1>3, ReturnOnly
<1>4. ASSUME NEW l \in HeldListeners, Hold(p, "connect_push", [a EXCEPT !.l = l])
      PROVE  Good(p, {})
  <2>1. l \in Listeners  BY HeldIs
  <2>2. PICK b : b = [a EXCEPT !.l = l]  OBVIOUS
  <2>3. b \in Args /\ b.l = l  BY <1>2, <2>1, <2>2, ArgListener
  <2>4. Hold(p, "connect_push", b)  BY <1>4, <2>2
  <2>5. pc'[p] = "connect_push" /\ arg'[p] = b /\ "connect_push" \in Pcs
    BY <2>4, HoldTo DEF Pcs
  <2>6. Sane(p)'  BY <2>1, <2>3, <2>5, NamingSane
  <2> QED  BY <1>1, <1>2, <2>3, <2>4, <2>5, <2>6, HoldOnly
<1> QED  BY <1>1, <1>3, <1>4

LEMMA ConnectPushGood ==
  ASSUME SockInv, NEW p \in Procs, ConnectPush(p), plan' = plan
  PROVE  Good(p, {})
<1> USE DEF SockInv
<1>0. PICK a, c, client, server, l :
        /\ a = arg[p] /\ c = (CHOOSE x \in FreeConns : TRUE) /\ l = a.l
        /\ client = <<c, "client">> /\ server = <<c, "server">>
  OBVIOUS
<1>1. /\ Runs(p) /\ pc[p] = "connect_push" /\ Quiet /\ Notify({}, {}, {})
      /\ UNCHANGED <<fds, sock, names, killed, step, plan>>
      /\ \/ Return(p, "fail") /\ UNCHANGED <<backlog, buf>>
         \/ /\ FreeConns # {} /\ backlog' = [backlog EXCEPT ![l] = Append(@, server)]
            /\ buf' = [buf EXCEPT ![client] = 0, ![server] = 0]
            /\ Hold(p, "connect_wake", [a EXCEPT !.e = client])
  BY <1>0 DEF ConnectPush, At, Quiet
<1>2. a \in Args /\ l \in Listeners /\ names' \in [Names -> Inums \cup {0}]
  BY <1>0, <1>1 DEF Typed, Sane, Holds
<1>3. CASE Return(p, "fail") /\ UNCHANGED <<backlog, buf>>  BY <1>1, <1>2, <1>3, ReturnOnly
<1>4. CASE /\ FreeConns # {} /\ backlog' = [backlog EXCEPT ![l] = Append(@, server)]
           /\ buf' = [buf EXCEPT ![client] = 0, ![server] = 0]
           /\ Hold(p, "connect_wake", [a EXCEPT !.e = client])
  <2>1. /\ client \in Ends /\ server \in Ends /\ buf' \in [Ends -> 0..PIPE_CAP]
        /\ \A e \in Ends \cap HeldEnds : buf'[e] = buf[e] /\ buf'[Peer(e)] = buf[Peer(e)]
    <3>1. c \in FreeConns  BY <1>0, <1>4
    <3> QED  BY <1>0, <1>4, <3>1, FreshConn
  <2>2. PICK b : b = [a EXCEPT !.e = client]  OBVIOUS
  <2>3. b \in Args /\ b.e = client /\ b.l = l
    <3>1. a \in Args /\ client \in Ends  BY <1>2, <2>1
    <3>2. b \in Args /\ b.e = client /\ b.l = a.l  BY ONLY <2>2, <3>1, ArgEnd
    <3> QED  BY <1>0, <3>2
  <2>4. Hold(p, "connect_wake", b)  BY <1>4, <2>2
  <2>5. pc'[p] = "connect_wake" /\ arg'[p] = b /\ "connect_wake" \in Pcs
    BY <2>4, HoldTo DEF Pcs
  <2>6. Sane(p)'  BY <1>2, <2>1, <2>3, <2>5, NamingSane
  <2>7. backlog' \in [Listeners -> Seq(Ends)] /\ \A x \in Listeners \ {l} : backlog'[x] = backlog[x]
    <3>1. backlog[l] \in Seq(Ends)  BY <1>2 DEF Typed
    <3>2. Append(backlog[l], server) \in Seq(Ends)  BY SMT, <2>1, <3>1
    <3>3. backlog' = [backlog EXCEPT ![l] = Append(backlog[l], server)]  BY <1>4
    <3> QED  BY <1>2, <3>2, <3>3 DEF Typed
  <2>8. Shared  BY <1>1, <2>1, <2>7 DEF Shared, Typed
  <2>9. Settles  BY <1>1 DEF Settles
  <2>10. Covers(p, {})
    <3>1. \A x \in Listeners : backlog'[x] # <<>> =>
            backlog[x] # <<>> \/ (pc'[p] = "connect_wake" /\ arg'[p].l = x)
      BY <2>3, <2>5, <2>7
    <3> QED  BY <1>1, <2>1, <3>1 DEF Covers
  <2>11. {} \subseteq {p}  OBVIOUS
  <2> QED  BY <1>1, <2>3, <2>4, <2>5, <2>6, <2>8, <2>9, <2>10, <2>11, HoldGood
<1> QED  BY <1>1, <1>3, <1>4

\* The wake-up goes to the listener that the connection was pushed to.
LEMMA ConnectWakeGood ==
  ASSUME SockInv, NEW p \in Procs, ConnectWake(p), plan' = plan
  PROVE  Good(p, Woken(arg[p].l))
<1> USE DEF SockInv
<1>0. PICK a, woke : a = arg[p] /\ woke = Woken(arg[p].l)  OBVIOUS
<1>1. /\ Runs(p) /\ pc[p] = "connect_wake" /\ Notify({}, woke, {}) /\ Hold(p, "connect_set", a)
      /\ UNCHANGED <<fds, sock, backlog, buf, names, killed, step, plan>>
  BY <1>0 DEF ConnectWake, At, objects
<1>2. a \in Args /\ a.e \in Ends /\ names' \in [Names -> Inums \cup {0}]
  BY <1>0, <1>1 DEF Typed, Sane, Holds
<1>3. pc'[p] = "connect_set" /\ arg'[p] = a /\ "connect_set" \in Pcs  BY <1>1, HoldTo DEF Pcs
<1>4. Sane(p)'  BY <1>2, <1>3, NamingSane
<1>5. Listener(arg[p].l) \in woke  BY <1>0 DEF Woken
<1>6. Shared /\ Settles /\ Covers(p, woke)  BY <1>1, <1>2, <1>5, Untouched
<1>7. {} \subseteq {p}  OBVIOUS
<1>8. Good(p, woke)  BY <1>1, <1>2, <1>3, <1>4, <1>6, <1>7, HoldGood
<1> QED  BY <1>0, <1>8

-----------------------------------------------------------------------------
(* accept.                                                                 *)

LEMMA AcceptSane ==
  ASSUME NEW p \in Procs, pc'[p] \in {"accept_register", "accept_pop"} \/ Parked(p, "accept")',
         arg'[p].call = "accept", arg'[p].l \in Listeners, Accepts(p)'
  PROVE  Sane(p)'
<1>1. /\ pc'[p] \in {"accept_register", "accept_pop", "parked"}
      /\ pc'[p] \notin {"user", "unborn", "dead", "accept", "poll", "poll_sweep",
                        "poll_register", "bind_set", "connect_push", "connect_wake",
                        "connect_set"}
  BY DEF Parked
<1>2. "accept" # "poll"  OBVIOUS
<1>3. Holds(p)'  BY <1>1 DEF Holds
<1>4. Polls(p)'  BY <1>1, <1>2 DEF Polls, Parked
<1> QED  BY <1>3, <1>4 DEF Sane

LEMMA AcceptGood ==
  ASSUME SockInv, NEW p \in Procs, Accept(p), plan' = plan
  PROVE  Good(p, {})
<1> USE DEF SockInv
<1>0. PICK a, f : a = arg[p] /\ f = File(p)  OBVIOUS
<1>1. /\ Runs(p) /\ pc[p] = "accept" /\ Quiet
      /\ UNCHANGED <<fds, sock, backlog, buf, names, killed, step, plan>>
      /\ \/ Return(p, "fail")
         \/ /\ IsSocket(p, "listening")
            /\ Hold(p, "accept_register", [a EXCEPT !.files = {f}, !.l = sock[f].of[1]])
  BY <1>0 DEF Accept, At, objects
<1>2. a \in Args /\ a.call = "accept" /\ names' \in [Names -> Inums \cup {0}]
  BY <1>0, <1>1 DEF Typed, Sane, Holds
<1>3. CASE Return(p, "fail")  BY <1>1, <1>2, <1>3, ReturnOnly
<1>4. CASE /\ IsSocket(p, "listening")
           /\ Hold(p, "accept_register", [a EXCEPT !.files = {f}, !.l = sock[f].of[1]])
  <2>1. f \in Files /\ sock[f] \in States /\ sock[f].s = "listening"  BY <1>0, <1>4, SocketIs
  <2>2. PICK l \in Listeners : l = sock[f].of[1]  BY <2>1, StateIs
  <2>3. PICK F, b, c : F = {f} /\ c = [a EXCEPT !.files = F] /\ b = [c EXCEPT !.l = l]  OBVIOUS
  <2>4. b \in Args /\ b.l = l /\ b.call = a.call
    <3>1. F \in SUBSET Files  BY <2>1, <2>3
    <3>2. c = [a EXCEPT !.files = F] /\ a \in Args  BY <1>2, <2>3
    <3>3. c \in Args /\ c.call = a.call  BY ONLY <3>1, <3>2, ArgFiles
    <3>4. b = [c EXCEPT !.l = l] /\ c \in Args  BY <2>3, <3>3
    <3>5. b \in Args /\ b.l = l /\ b.call = c.call  BY ONLY <3>4, ArgListener
    <3> QED  BY <3>3, <3>5
  <2>5. Hold(p, "accept_register", b)  BY <1>4, <2>2, <2>3
  <2>6. pc'[p] = "accept_register" /\ arg'[p] = b /\ "accept_register" \in Pcs
    BY <2>5, HoldTo DEF Pcs
  <2>7. Accepts(p)'  BY <2>6 DEF Accepts, Parked
  <2>8. Sane(p)'  BY <1>2, <2>2, <2>4, <2>6, <2>7, AcceptSane
  <2> QED  BY <1>1, <1>2, <2>4, <2>5, <2>6, <2>8, HoldOnly
<1> QED  BY <1>1, <1>3, <1>4

\* An accepter is on the list before it looks at the backlog.
LEMMA AcceptRegisterGood ==
  ASSUME SockInv, NEW p \in Procs, AcceptRegister(p), plan' = plan
  PROVE  Good(p, {})
<1> USE DEF SockInv
<1>0. PICK a : a = arg[p]  OBVIOUS
<1>1. /\ Runs(p) /\ pc[p] = "accept_register"
      /\ UNCHANGED <<fds, sock, backlog, buf, names, killed, step, plan>>
      /\ \/ killed[p] /\ Return(p, "fail") /\ Quiet
         \/ /\ ~killed[p] /\ Hold(p, "accept_pop", a)
            /\ Notify({<<p, Listener(a.l)>>}, {}, {})
  BY <1>0 DEF AcceptRegister, At, objects, Quiet
<1>2. /\ a \in Args /\ a.call = "accept" /\ a.l \in Listeners
      /\ names' \in [Names -> Inums \cup {0}]
  BY <1>0, <1>1 DEF Typed, Sane, Holds
<1>3. CASE Return(p, "fail") /\ Quiet  BY <1>1, <1>2, <1>3, ReturnOnly
<1>4. CASE ~killed[p] /\ Hold(p, "accept_pop", a) /\ Notify({<<p, Listener(a.l)>>}, {}, {})
  <2>1. pc'[p] = "accept_pop" /\ arg'[p] = a /\ "accept_pop" \in Pcs  BY <1>4, HoldTo DEF Pcs
  <2>2. Waits(p, Listener(a.l))'
    <3>1. PICK x, w : x = Listener(a.l) /\ w = <<p, x>>  OBVIOUS
    <3>2. w[2] = x  BY SMT, <3>1
    <3>3. x \in HeldObjects'
      <4>1. a.l # 0  BY SMT, <1>2, SocketsAssumption
      <4>2. a.l \in {arg'[k].l : k \in Procs} \ {0}  BY <2>1, <4>1
      <4> QED  BY <3>1, <4>2 DEF HeldObjects, HeldListeners
    <3>4. x \notin {Peer(e) : e \in HeldEnds \ HeldEnds'}  BY <3>1, ListenerIs
    <3>5. w \in waiting'
      <4>1. Notify({w}, {}, {})  BY <1>4, <3>1
      <4> QED  BY <3>2, <3>3, <3>4, <4>1 DEF Notify
    <3> QED  BY <3>1, <3>5 DEF Waits
  <2>3. ~killed'[p]  BY <1>1, <1>4
  <2>4. Accepts(p)'  BY <2>1, <2>2, <2>3 DEF Accepts, Parked
  <2>5. Sane(p)'  BY <1>2, <2>1, <2>4, AcceptSane
  <2>6. Shared /\ Settles /\ Covers(p, {})  BY <1>1, <1>2, Untouched
  <2>7. {} \subseteq {p}  OBVIOUS
  <2> QED  BY SMT, <1>1, <1>2, <1>4, <2>1, <2>5, <2>6, <2>7, HoldGood
<1> QED  BY <1>1, <1>3, <1>4

LEMMA AcceptPopGood ==
  ASSUME SockInv, NEW p \in Procs, AcceptPop(p), plan' = plan
  PROVE  Good(p, {})
<1> USE DEF SockInv
<1>0. PICK a, l : a = arg[p] /\ l = a.l  OBVIOUS
<1>1. /\ Runs(p) /\ pc[p] = "accept_pop" /\ Quiet /\ Notify({}, {}, {})
      /\ UNCHANGED <<buf, names, killed, step, plan>>
  BY DEF AcceptPop, At, Quiet
<1>2. /\ a \in Args /\ a.call = "accept" /\ l \in Listeners
      /\ names' \in [Names -> Inums \cup {0}]
  BY <1>0, <1>1 DEF Typed, Sane, Holds
\* Nothing there: the list is still joined, or someone has woken the process.
<1>3. CASE backlog[l] = <<>>
  <2>1. Hold(p, "parked", a) /\ UNCHANGED <<fds, sock, backlog>>  BY <1>0, <1>3 DEF AcceptPop
  <2>2. pc'[p] = "parked" /\ arg'[p] = a /\ "parked" \in Pcs
    BY <2>1, HoldTo DEF Pcs, Between
  <2>3. p \in ready' \/ (~killed'[p] /\ Waits(p, Listener(l))')
    <3>1. p \in ready \/ (~killed[p] /\ Waits(p, Listener(l)))  BY <1>0, <1>1 DEF Sane, Accepts
    <3>2. Wakes({p}, {})  BY <1>1, Notified
    <3>3. Listener(l) \in HeldObjects'
      <4>1. l # 0  BY SMT, <1>2, SocketsAssumption
      <4>2. l \in {arg'[k].l : k \in Procs} \ {0}  BY <1>0, <2>2, <4>1
      <4> QED  BY <4>2 DEF HeldObjects, HeldListeners
    <3> QED  BY <1>1, <3>1, <3>2, <3>3 DEF Wakes
  <2>4. Accepts(p)'  BY <1>0, <1>3, <2>1, <2>2, <2>3 DEF Accepts, Parked
  <2>5. Sane(p)'  BY <1>0, <1>2, <2>2, <2>4, AcceptSane DEF Parked
  <2> QED  BY <1>1, <1>2, <2>1, <2>2, <2>5, HoldOnly
<1>4. CASE backlog[l] # <<>>
  <2>1. /\ FreeFiles # {} /\ backlog' = [backlog EXCEPT ![l] = Tail(@)]
        /\ sock' = [sock EXCEPT ![NewFile] = Connected(Head(backlog[l]))]
        /\ Install(p, FdEntry(NewFile), 0)
    BY <1>0, <1>4 DEF AcceptPop
  <2>2. NewFile \in Files /\ NewFile \notin HeldFiles  BY <2>1, FreshFile
  <2>3. Returns(p)  BY <2>1, <2>2, NewEntryIs, InstallIs
  <2>4. Head(backlog[l]) \in Ends /\ Tail(backlog[l]) \in Seq(Ends)
    <3>1. backlog[l] \in Seq(Ends)  BY <1>2 DEF Typed
    <3> QED  BY SMT, <1>4, <3>1
  <2>5. backlog' \in [Listeners -> Seq(Ends)] /\ \A x \in Listeners \ {l} : backlog'[x] = backlog[x]
    <3>1. backlog' = [backlog EXCEPT ![l] = Tail(backlog[l])]  BY <2>1
    <3> QED  BY <2>4, <3>1 DEF Typed
  <2>6. sock' \in [Files -> States] /\ \A f \in Files \ {NewFile} : sock'[f] = sock[f]
    <3>1. Connected(Head(backlog[l])) \in States  BY <2>4 DEF States
    <3> QED  BY <2>1, <2>2, <3>1 DEF Typed
  <2>7. Shared  BY <1>1, <2>5, <2>6 DEF Shared, Typed
  <2>8. Settles  BY <2>2, <2>6, HeldIs DEF Settles
  <2>9. Covers(p, {})
    <3>1. \A x \in Listeners : backlog'[x] # <<>> => backlog[x] # <<>>  BY <1>4, <2>5
    <3> QED  BY <1>1, <3>1 DEF Covers
  <2> QED  BY <1>1, <2>3, <2>7, <2>8, <2>9, ReturnsGood
<1> QED  BY <1>3, <1>4

-----------------------------------------------------------------------------
(* Reads, writes and poll.                                                 *)

LEMMA SendGood ==
  ASSUME SockInv, NEW p \in Procs, Send(p), plan' = plan
  PROVE  \E woke : Good(p, woke)
<1> USE DEF SockInv
<1>0. PICK f, to : f = File(p) /\ to = Peer(sock[f].of)  OBVIOUS
<1>1. /\ Runs(p) /\ pc[p] = "send"
      /\ UNCHANGED <<fds, sock, backlog, names, killed, step, plan>>
  BY DEF Send, At
<1>2. \/ Return(p, "fail") /\ buf' = buf /\ Notify({}, {}, {})
      \/ /\ IsSocket(p, "connected") /\ buf[to] < PIPE_CAP /\ Return(p, "ok")
         /\ buf' = [buf EXCEPT ![to] = @ + 1] /\ Notify({}, {to}, {})
  BY <1>0 DEF Send
<1>3. names' \in [Names -> Inums \cup {0}]  BY <1>1 DEF Typed
<1>4. CASE Return(p, "fail") /\ buf' = buf /\ Notify({}, {}, {})
  BY <1>1, <1>3, <1>4, ReturnOnly DEF Quiet
<1>5. CASE /\ IsSocket(p, "connected") /\ buf[to] < PIPE_CAP /\ Return(p, "ok")
           /\ buf' = [buf EXCEPT ![to] = @ + 1] /\ Notify({}, {to}, {})
  <2>1. to \in Ends
    <3>1. sock[f] \in States /\ sock[f].s = "connected"  BY <1>0, <1>5, SocketIs
    <3>2. sock[f].of \in Ends  BY <3>1, StateIs
    <3> QED  BY <1>0, <3>2, PeerIs
  <2>2. PICK n : n = buf[to] + 1  OBVIOUS
  <2>3. n \in 0..PIPE_CAP
    <3>1. buf[to] \in 0..PIPE_CAP  BY <2>1 DEF Typed
    <3> QED  BY SMT, <1>5, <2>2, <3>1, SocketsAssumption
  <2>4. buf' = [buf EXCEPT ![to] = n]  BY <1>5, <2>2
  <2>5. buf' \in [Ends -> 0..PIPE_CAP] /\ \A e \in Ends \ {to} : buf'[e] = buf[e]
    BY <2>3, <2>4 DEF Typed
  <2>6. Shared  BY <1>1, <2>5 DEF Shared, Typed
  <2>7. Settles  BY <1>1 DEF Settles
  <2>8. Covers(p, {to})
    <3>1. ASSUME NEW e \in Ends
          PROVE  /\ buf'[e] > 0 => buf[e] > 0 \/ e \in {to}
                 /\ buf'[Peer(e)] < PIPE_CAP => buf[Peer(e)] < PIPE_CAP \/ e \in {to}
      <4>1. Peer(e) \in Ends  BY PeerIs
      <4> QED  BY <1>5, <2>5, <4>1
    <3> QED  BY <1>1, <3>1 DEF Covers
  <2>9. Returns(p)  BY <1>1, <1>5, ReturnsSame
  <2>10. Good(p, {to})  BY <1>1, <1>5, <2>6, <2>7, <2>8, <2>9, ReturnsGood
  <2> QED  BY <2>10
<1> QED  BY <1>2, <1>4, <1>5

LEMMA RecvGood ==
  ASSUME SockInv, NEW p \in Procs, Recv(p), plan' = plan
  PROVE  \E woke : Good(p, woke)
<1> USE DEF SockInv
<1>0. PICK f, e : f = File(p) /\ e = sock[f].of  OBVIOUS
<1>1. /\ Runs(p) /\ pc[p] = "recv"
      /\ UNCHANGED <<fds, sock, backlog, names, killed, step, plan>>
      /\ Return(p, "ok") \/ Return(p, "fail")
  BY DEF Recv, At
<1>2. \/ buf' = buf /\ Notify({}, {}, {})
      \/ /\ IsSocket(p, "connected") /\ buf[e] > 0
         /\ buf' = [buf EXCEPT ![e] = @ - 1] /\ Notify({}, {Peer(e)}, {})
  BY <1>0 DEF Recv
<1>3. names' \in [Names -> Inums \cup {0}] /\ Returns(p)  BY <1>1, ReturnsSame DEF Typed
<1>4. CASE buf' = buf /\ Notify({}, {}, {})
  BY <1>1, <1>3, <1>4, ReturnOnly DEF Quiet
<1>5. CASE /\ IsSocket(p, "connected") /\ buf[e] > 0
           /\ buf' = [buf EXCEPT ![e] = @ - 1] /\ Notify({}, {Peer(e)}, {})
  <2>1. e \in Ends
    <3>1. sock[f] \in States /\ sock[f].s = "connected"  BY <1>0, <1>5, SocketIs
    <3> QED  BY <1>0, <3>1, StateIs
  <2>2. PICK n : n = buf[e] - 1  OBVIOUS
  <2>3. n \in 0..PIPE_CAP
    <3>1. buf[e] \in 0..PIPE_CAP  BY <2>1 DEF Typed
    <3> QED  BY SMT, <1>5, <2>2, <3>1, SocketsAssumption
  <2>4. buf' = [buf EXCEPT ![e] = n]  BY <1>5, <2>2
  <2>5. buf' \in [Ends -> 0..PIPE_CAP] /\ \A x \in Ends \ {e} : buf'[x] = buf[x]
    BY <2>3, <2>4 DEF Typed
  <2>6. Shared  BY <1>1, <2>5 DEF Shared, Typed
  <2>7. Settles  BY <1>1 DEF Settles
  <2>8. Covers(p, {Peer(e)})
    <3>1. ASSUME NEW x \in Ends
          PROVE  /\ buf'[x] > 0 => buf[x] > 0 \/ x \in {Peer(e)}
                 /\ buf'[Peer(x)] < PIPE_CAP => buf[Peer(x)] < PIPE_CAP \/ x \in {Peer(e)}
      <4>1. Peer(x) \in Ends /\ Peer(Peer(x)) = x  BY PeerIs
      <4> QED  BY <1>5, <2>5, <4>1
    <3> QED  BY <1>1, <3>1 DEF Covers
  <2>9. Good(p, {Peer(e)})  BY <1>1, <1>3, <1>5, <2>6, <2>7, <2>8, ReturnsGood
  <2> QED  BY <2>9
<1> QED  BY <1>2, <1>4, <1>5

LEMMA PollSane ==
  ASSUME NEW p \in Procs, pc'[p] \in {"poll_sweep", "poll_register"} \/ Parked(p, "poll")',
         arg'[p].call = "poll", Polls(p)'
  PROVE  Sane(p)'
<1>1. /\ pc'[p] \in {"poll_sweep", "poll_register", "parked"}
      /\ pc'[p] \notin {"user", "unborn", "dead", "accept", "accept_register", "accept_pop",
                        "bind_set", "connect_push", "connect_wake", "connect_set"}
  BY DEF Parked
<1>2. "accept" # "poll"  OBVIOUS
<1>3. Holds(p)'  BY <1>1, <1>2 DEF Holds, Parked
<1>4. Accepts(p)'  BY <1>1, <1>2 DEF Accepts, Parked
<1> QED  BY <1>3, <1>4 DEF Sane

LEMMA ReventsSame ==
  ASSUME sock' = sock, backlog' = backlog, buf' = buf, HeldEnds' = HeldEnds, NEW f, NEW events
  PROVE  Revents(f, events)' <=> Revents(f, events)
  BY SMT DEF Revents

LEMMA PollGood ==
  ASSUME SockInv, NEW p \in Procs, Poll(p), plan' = plan
  PROVE  Good(p, {})
<1> USE DEF SockInv
<1>0. PICK a, F, b : /\ a = arg[p] /\ F = {fds[p][d].file : d \in a.set} \ {0}
                     /\ b = [a EXCEPT !.files = F]
  OBVIOUS
<1>1. /\ Runs(p) /\ pc[p] = "poll" /\ Quiet /\ Hold(p, "poll_sweep", b)
      /\ UNCHANGED <<fds, sock, backlog, buf, names, killed, step, plan>>
  BY <1>0 DEF Poll, At, objects
<1>2. a \in Args /\ a.call = "poll" /\ names' \in [Names -> Inums \cup {0}]
  BY <1>0, <1>1 DEF Typed, Sane, Holds
<1>3. F \in SUBSET Files
  <2>1. a.set \subseteq Fds  BY <1>2 DEF Args
  <2>2. \A d \in a.set : fds[p][d].file \in Files \cup {0}  BY <2>1, FileIs, EntryIs
  <2> QED  BY <1>0, <2>2
<1>4. b \in Args /\ b.files = F /\ b.call = a.call /\ b.set = a.set
  <2>1. b = [a EXCEPT !.files = F] /\ a \in Args  BY <1>0, <1>2
  <2> QED  BY ONLY <1>3, <2>1, ArgFiles
<1>5. pc'[p] = "poll_sweep" /\ arg'[p] = b /\ "poll_sweep" \in Pcs  BY <1>1, HoldTo DEF Pcs
<1>6. Polls(p)'
  <2>1. b.files = {fds'[p][d].file : d \in b.set} \ {0}  BY <1>0, <1>1, <1>4
  <2> QED  BY <1>5, <2>1 DEF Polls, Parked
<1>7. Sane(p)'  BY <1>2, <1>4, <1>5, <1>6, PollSane
<1> QED  BY <1>1, <1>2, <1>4, <1>5, <1>7, HoldOnly

\* What the sweep found is still so when the list is joined, on one hart.
LEMMA PollSweepGood ==
  ASSUME SockInv, NEW p \in Procs, PollSweep(p), plan' = plan
  PROVE  Good(p, {})
<1> USE DEF SockInv
<1>0. PICK a, ev : a = arg[p] /\ ev = a.events  OBVIOUS
<1>1. /\ Runs(p) /\ pc[p] = "poll_sweep" /\ Quiet
      /\ UNCHANGED <<fds, sock, backlog, buf, names, killed, step, plan>>
      /\ \/ Return(p, "ok") \/ Return(p, "fail")
         \/ ~Reports(p) /\ Hold(p, "poll_register", a)
  BY <1>0 DEF PollSweep, At, objects
<1>2. /\ a \in Args /\ a.call = "poll" /\ names' \in [Names -> Inums \cup {0}]
      /\ a.files = {fds[p][d].file : d \in a.set} \ {0}
  BY <1>0, <1>1 DEF Typed, Sane, Holds, Polls
<1>3. CASE Return(p, "ok") \/ Return(p, "fail")  BY <1>1, <1>2, <1>3, ReturnOnly
<1>4. CASE ~Reports(p) /\ Hold(p, "poll_register", a)
  <2>1. pc'[p] = "poll_register" /\ arg'[p] = a /\ "poll_register" \in Pcs
    BY <1>4, HoldTo DEF Pcs
  <2>2. HeldEnds' = HeldEnds
    <3>1. \A q \in Procs : arg'[q] = arg[q]  BY <1>0, <1>4, <2>1, HoldTo
    <3> QED  BY <1>1, <3>1, HeldSame
  <2>3. ASSUME NEW f \in a.files PROVE ~Revents(f, ev)'
    <3>1. PICK d \in a.set : f = fds[p][d].file  BY <1>2
    <3>2. ~Revents(f, ev)  BY <1>0, <1>4, <3>1 DEF Reports
    <3> QED  BY <1>1, <2>2, <3>2, ReventsSame
  <2>4. a.files = {fds'[p][d].file : d \in a.set} \ {0}  BY <1>1, <1>2
  <2>5. Polls(p)'  BY <1>0, <2>1, <2>3, <2>4 DEF Polls, Parked
  <2>6. Sane(p)'  BY <1>2, <2>1, <2>5, PollSane
  <2> QED  BY <1>1, <1>2, <1>4, <2>1, <2>6, HoldOnly
<1> QED  BY <1>1, <1>3, <1>4

LEMMA PollRegisterGood ==
  ASSUME SockInv, NEW p \in Procs, PollRegister(p), plan' = plan
  PROVE  Good(p, {})
<1> USE DEF SockInv
<1>0. PICK a, late, b, ev, parks :
        /\ a = arg[p] /\ late = {f \in a.files : sock[f].s = "fresh"}
        /\ b = [a EXCEPT !.late = late] /\ ev = a.events
        /\ parks = IF killed[p] THEN {} ELSE {<<p, x>> : x \in Lists(a.files)}
  OBVIOUS
<1>1. /\ Runs(p) /\ pc[p] = "poll_register" /\ Notify(parks, {}, {})
      /\ UNCHANGED <<fds, sock, backlog, buf, names, killed, step, plan>>
      /\ Hold(p, IF killed[p] THEN "poll_sweep" ELSE "parked", b)
  BY <1>0 DEF PollRegister, At, objects
<1>2. /\ a \in Args /\ a.call = "poll" /\ names' \in [Names -> Inums \cup {0}]
      /\ a.files = {fds[p][d].file : d \in a.set} \ {0} /\ a.files \subseteq Files
      /\ ~plan.smp => \A f \in a.files : ~Revents(f, ev)
  <2>1. a \in Args /\ a.call = "poll" /\ names' \in [Names -> Inums \cup {0}]
    BY <1>0, <1>1 DEF Typed, Sane, Holds
  <2>2. /\ a.files = {fds[p][d].file : d \in a.set} \ {0}
        /\ ~plan.smp => \A f \in a.files : ~Revents(f, ev)
    BY <1>0, <1>1 DEF Sane, Polls
  <2>3. a.files \subseteq Files  BY <2>1 DEF Args
  <2> QED  BY <2>1, <2>2, <2>3
<1>3. /\ b \in Args /\ b.files = a.files /\ b.l = a.l /\ b.e = a.e /\ b.call = a.call
      /\ b.set = a.set /\ b.events = ev /\ b.late = late
  <2>1. late \in SUBSET Files  BY <1>0, <1>2
  <2>2. b = [a EXCEPT !.late = late] /\ a \in Args /\ ev = a.events  BY <1>0, <1>2
  <2> QED  BY ONLY <2>1, <2>2, ArgLate
<1>4. PICK c : c = IF killed[p] THEN "poll_sweep" ELSE "parked"  OBVIOUS
<1>5. Hold(p, c, b) /\ c \in {"poll_sweep", "parked"} /\ c \in Pcs
  BY <1>1, <1>4 DEF Pcs, Between
<1>6. pc'[p] = c /\ arg'[p] = b /\ \A q \in Procs \ {p} : arg'[q] = arg[q]  BY <1>5, HoldTo
<1>7. HeldFiles' = HeldFiles /\ HeldEnds' = HeldEnds /\ HeldObjects' = HeldObjects
  <2>1. ASSUME NEW q \in Procs
        PROVE  arg'[q].files = arg[q].files /\ arg'[q].l = arg[q].l /\ arg'[q].e = arg[q].e
    BY <1>0, <1>3, <1>6
  <2> QED  BY <1>1, <2>1, HeldSame
<1>8. ASSUME ~killed[p], NEW f \in a.files \ late
      PROVE  sock[f] # Fresh /\ Waits(p, sock[f].of)'
  <2>1. f \in Files /\ sock[f] \in States /\ sock[f].s # "fresh"  BY <1>0, <1>2, <1>8 DEF Typed
  <2>2. sock[f] # Fresh  BY <2>1, StateIs
  <2>3. PICK x, w : x = sock[f].of /\ w = <<p, x>>  OBVIOUS
  <2>4. w \in parks
    <3>1. x \in Lists(a.files)  BY <2>1, <2>3 DEF Lists
    <3> QED  BY <1>0, <1>8, <2>3, <3>1
  <2>5. x \in HeldObjects'
    <3>1. f \in HeldFiles  BY SMT, <1>0 DEF HeldFiles
    <3>2. CASE sock[f].s = "listening"
      <4>1. x \in Held("listening")  BY <2>3, <3>1, <3>2 DEF Held
      <4>2. x = Listener(x[1])  BY <2>1, <2>3, <3>2, StateIs
      <4>3. x[1] \in HeldListeners  BY <4>1 DEF HeldListeners
      <4> QED  BY <1>7, <4>2, <4>3 DEF HeldObjects
    <3>3. CASE sock[f].s = "connected"
      <4>1. x \in Held("connected")  BY <2>3, <3>1, <3>3 DEF Held
      <4> QED  BY <1>7, <4>1 DEF HeldObjects, HeldEnds
    <3> QED  BY <2>1, <3>2, <3>3, StateIs
  <2>6. w[2] = x  BY SMT, <2>3
  <2>7. w \in waiting'
    <3>1. waiting' = {y \in waiting \cup parks :
                        y[2] \in HeldObjects' \ ({} \cup {Peer(e) : e \in HeldEnds \ HeldEnds'})}
      BY <1>1 DEF Notify
    <3> QED  BY <1>7, <2>4, <2>5, <2>6, <3>1
  <2>8. Waits(p, x)'  BY <2>3, <2>7 DEF Waits
  <2> QED  BY <1>1, <2>2, <2>3, <2>8 DEF Waits
<1>9. Polls(p)'
  <2>1. b.files = {fds'[p][d].file : d \in b.set} \ {0}  BY <1>1, <1>2, <1>3
  <2>2. CASE killed[p]  BY <1>4, <1>6, <2>1, <2>2 DEF Polls, Parked
  <2>3. CASE ~killed[p]
    <3>1. \A f \in a.files : ~plan.smp => ~Revents(f, ev)'  BY <1>1, <1>2, <1>7, ReventsSame
    <3>2. \A f \in b.files \ b.late : sock'[f] # Fresh /\ Waits(p, sock[f].of)'
      BY <1>1, <1>3, <1>8, <2>3
    <3>3. pc'[p] = "parked" /\ ~killed'[p]  BY <1>1, <1>4, <1>6, <2>3
    <3> QED  BY <1>3, <1>6, <2>1, <3>1, <3>2, <3>3 DEF Polls, Parked
  <2> QED  BY <2>2, <2>3
<1>10. Sane(p)'  BY <1>2, <1>3, <1>5, <1>6, <1>9, PollSane DEF Parked
<1>11. Shared /\ Settles /\ Covers(p, {})  BY <1>1, <1>2, Untouched
<1>12. {} \subseteq {p}  OBVIOUS
<1> QED  BY <1>1, <1>3, <1>5, <1>10, <1>11, <1>12, HoldGood

-----------------------------------------------------------------------------
(* Calls, kills and polls of the executor.                                 *)

LEMMA RepollGood ==
  ASSUME SockInv, NEW p \in Procs, Repoll(p), plan' = plan
  PROVE  Good(p, {})
<1> USE DEF SockInv
<1>0. PICK a, c : /\ a = arg[p]
                  /\ c = IF pc[p] = "user" THEN "user"
                         ELSE IF a.call = "accept" THEN "accept_register" ELSE "poll_sweep"
  OBVIOUS
<1>1. /\ Runs(p) /\ pc[p] \in {"parked", "user"} /\ pc' = [pc EXCEPT ![p] = c]
      /\ UNCHANGED <<fds, sock, backlog, buf, names, killed, arg, ret, step, plan>>
      /\ Notify({}, {}, {p})
  BY <1>0 DEF Repoll, Goto, objects
<1>2. a \in Args /\ Sane(p) /\ names' \in [Names -> Inums \cup {0}]  BY <1>0, <1>1 DEF Typed
<1>3. pc'[p] = c /\ arg'[p] = a  BY <1>0, <1>1 DEF Typed
<1>4. Hold(p, c, a) /\ c \in Pcs
  <2>1. arg' = [arg EXCEPT ![p] = a]  BY SMT, <1>0, <1>1 DEF Typed
  <2> QED  BY <1>0, <1>1, <2>1 DEF Hold, Goto, Pcs, Between
<1>5. Sane(p)'
  <2>1. CASE pc[p] = "user"
    <3>1. a = NoCall /\ c = "user"  BY <1>0, <1>2, <2>1 DEF Sane, Holds
    <3> QED  BY <1>3, <3>1, ReturnedSane
  <2>2. CASE pc[p] = "parked" /\ a.call = "accept"
    <3>1. c = "accept_register"  BY <1>0, <2>2
    <3>2. a.l \in Listeners  BY <1>0, <1>2, <2>2 DEF Sane, Holds, Parked
    <3>3. Accepts(p)'  BY <1>3, <3>1 DEF Accepts, Parked
    <3> QED  BY <1>3, <2>2, <3>1, <3>2, <3>3, AcceptSane
  <2>3. CASE pc[p] = "parked" /\ a.call = "poll"
    <3>1. c = "poll_sweep"  BY <1>0, <2>3
    <3>2. a.files = {fds'[p][d].file : d \in a.set} \ {0}
      BY <1>0, <1>1, <1>2, <2>3 DEF Sane, Polls, Parked
    <3>3. Polls(p)'  BY <1>3, <3>1, <3>2 DEF Polls, Parked
    <3> QED  BY <1>3, <2>3, <3>1, <3>3, PollSane
  <2> QED  BY <1>0, <1>1, <1>2, <2>1, <2>2, <2>3 DEF Sane, Holds
<1>6. Shared /\ Settles /\ Covers(p, {})  BY <1>1, <1>2, Untouched
<1>7. {p} \subseteq {p}  OBVIOUS
<1> QED  BY <1>1, <1>2, <1>4, <1>5, <1>6, <1>7, HoldGood

LEMMA CallGood ==
  ASSUME SockInv, NEW p \in Procs, Call(p), plan' = plan
  PROVE  Good(p, {})
<1> USE DEF SockInv
<1>1. /\ Runs(p) /\ pc[p] = "user" /\ step[p] <= Len(plan.calls[p])
      /\ ret' = [ret EXCEPT ![p] = "none"] /\ step' = [step EXCEPT ![p] = @ + 1]
      /\ UNCHANGED <<fds, sock, backlog, buf, names, waiting, ready, killed, plan>>
  BY DEF Call, At, objects, wakers
<1>2. PICK r \in plan.calls[p][step[p]] :
        arg' = [arg EXCEPT ![p] = r] /\ pc' = [pc EXCEPT ![p] = r.call]
  BY DEF Call, Goto
<1>3. r \in Requests
  <2>1. plan.calls \in [Procs -> Seq(SUBSET Requests)]  BY SocketsAssumption DEF Typed
  <2>2. plan.calls[p] \in Seq(SUBSET Requests)  BY <2>1
  <2>3. step[p] \in Nat \ {0}  BY DEF Typed
  <2>4. plan.calls[p][step[p]] \in SUBSET Requests
    <3>1. PICK s, n : s = plan.calls[p] /\ n = step[p]  OBVIOUS
    <3>2. s \in Seq(SUBSET Requests) /\ n \in Nat \ {0} /\ n <= Len(s)  BY <1>1, <2>2, <2>3, <3>1
    <3>3. s[n] \in SUBSET Requests  BY ONLY SMT, <3>2
    <3> QED  BY <3>1, <3>3
  <2> QED  BY <1>2, <2>4
<1>4. r \in Args /\ r.files = {} /\ r.l = 0 /\ r.e = None /\ r.call \in Calls
  BY <1>3, RequestIs
<1>5. r.call \in Pcs  BY <1>4 DEF Pcs
<1>6. Typed'
  <2>1. pc' \in [Procs -> Pcs] /\ arg' \in [Procs -> Args]  BY <1>2, <1>4, <1>5 DEF Typed
  <2>2. ret' \in [Procs -> {"none", "ok", "fail"}]  BY <1>1 DEF Typed
  <2>3. step' \in [Procs -> Nat \ {0}]  BY SMT, <1>1 DEF Typed
  <2> QED  BY <1>1, <2>1, <2>2, <2>3 DEF Typed
<1>7. ASSUME NEW q \in Procs \ {p}
      PROVE  pc'[q] = pc[q] /\ arg'[q] = arg[q] /\ ret'[q] = ret[q]
  BY SMT, <1>1, <1>2 DEF Typed
<1>8. Keeps(p)  BY <1>1, <1>7 DEF Keeps
<1>9. pc'[p] = r.call /\ arg'[p] = r /\ ret'[p] = "none"  BY <1>1, <1>2 DEF Typed
<1>10. Cleanly(p)  BY <1>9 DEF Cleanly
<1>11. Settles /\ Covers(p, {})
  <2>1. names' \in [Names -> Inums \cup {0}]  BY <1>1 DEF Typed
  <2> QED  BY <1>1, <2>1, Untouched
<1>12. HeldEnds' = HeldEnds /\ HeldObjects' = HeldObjects
  <2>1. arg[p] = NoCall  BY <1>1 DEF Sane, Holds
  <2>2. ASSUME NEW q \in Procs
        PROVE  arg'[q].files = arg[q].files /\ arg'[q].l = arg[q].l /\ arg'[q].e = arg[q].e
    BY <1>4, <1>7, <1>9, <2>1, RequestIs
  <2> QED  BY <1>1, <2>2, HeldSame
<1>13. Wakes(Procs \ {p}, {})  BY <1>1, <1>12 DEF Wakes, Waits
<1>14. Sane(p)'
  <2>1. r.call \notin {"user", "unborn", "dead", "parked", "accept_register", "accept_pop",
                       "poll_sweep", "poll_register", "bind_set", "connect_push",
                       "connect_wake", "connect_set"}
    BY <1>4 DEF Calls
  <2> QED  BY <1>9, <2>1 DEF Sane, Holds, Accepts, Polls, Parked
<1> QED  BY <1>1, <1>6, <1>8, <1>10, <1>11, <1>13, <1>14 DEF Good

\* A kill only wakes its victim.
LEMMA KillInv ==
  ASSUME SockInv, NEW p \in Procs, Kill(p), plan' = plan
  PROVE  SockInv'
<1> USE DEF SockInv
<1>1. /\ killed' = [killed EXCEPT ![p] = TRUE] /\ ready' = ready \cup {p}
      /\ UNCHANGED <<fds, sock, backlog, buf, names, waiting, pc, arg, ret, step, plan>>
  BY DEF Kill, objects
<1>2. Typed'  BY <1>1 DEF Typed
<1>3. HeldEnds' = HeldEnds  BY <1>1, HeldSame
<1>4. ASSUME NEW q \in Procs PROVE Sane(q)'
  <2>1. q \notin ready' => q \notin ready /\ killed'[q] = killed[q]  BY <1>1 DEF Typed
  <2>2. Holds(q)'  BY <1>1 DEF Sane, Holds, Parked
  <2>3. Accepts(q)'  BY <1>1, <2>1 DEF Sane, Accepts, Parked, Waits, Pushed
  <2>4. PICK a, ev : a = arg[q] /\ ev = a.events  OBVIOUS
  <2>5. \A f : Revents(f, ev)' <=> Revents(f, ev)  BY <1>1, <1>3, ReventsSame
  <2>6. Polls(q)'  BY SMT, <1>1, <2>1, <2>4, <2>5 DEF Sane, Polls, Parked, Waits, Pushed
  <2> QED  BY <2>2, <2>3, <2>6 DEF Sane
<1> QED  BY <1>2, <1>4

-----------------------------------------------------------------------------
(* The theorems.                                                           *)

Fails == \A q \in Procs : ret[q] = "none" /\ ret'[q] = "fail" => fds'[q] = fds[q]

LEMMA InitInv == Init => SockInv
<1> SUFFICES ASSUME Init PROVE SockInv  OBVIOUS
<1>1. /\ fds = [p \in Procs |-> [d \in Fds |-> Empty]] /\ arg = [p \in Procs |-> NoCall]
      /\ pc = [p \in Procs |-> IF p \in plan.born THEN "user" ELSE "unborn"]
  BY DEF Init
<1>2. Typed
  <2>1. fds \in [Procs -> [Fds -> Entries]]  BY <1>1 DEF Entries
  <2>2. sock \in [Files -> States]  BY DEF Init, States
  <2>3. backlog \in [Listeners -> Seq(Ends)]  BY SMT DEF Init
  <2>4. buf \in [Ends -> 0..PIPE_CAP]  BY SMT, SocketsAssumption DEF Init
  <2>5. pc \in [Procs -> Pcs]  BY <1>1 DEF Pcs, Between
  <2>6. arg \in [Procs -> Args]  BY <1>1, RequestIs
  <2>7. step \in [Procs -> Nat \ {0}]  BY SMT DEF Init
  <2> QED  BY <2>1, <2>2, <2>3, <2>4, <2>5, <2>6, <2>7 DEF Init, Typed
<1>3. ASSUME NEW p \in Procs PROVE Sane(p)
  <2>1. pc[p] \in {"user", "unborn"} /\ arg[p] = NoCall  BY <1>1
  <2>2. pc[p] \notin {"parked", "accept", "accept_register", "accept_pop", "poll", "poll_sweep",
                      "poll_register", "bind_set", "connect_push", "connect_wake", "connect_set"}
    BY <2>1
  <2> QED  BY <2>1, <2>2 DEF Sane, Holds, Accepts, Polls, Parked
<1> QED  BY <1>2, <1>3 DEF SockInv

LEMMA NextInv == SockInv /\ [Next]_vars => SockInv' /\ Settles /\ Fails
<1> SUFFICES ASSUME SockInv, [Next]_vars PROVE SockInv' /\ Settles /\ Fails  OBVIOUS
<1>1. CASE Next
  <2>1. plan' = plan  BY <1>1 DEF Next
  <2>2. PICK p \in Procs : \/ Call(p) \/ Kill(p) \/ Exit(p) \/ Repoll(p) \/ Descriptor(p)
                           \/ Naming(p) \/ Connecting(p) \/ Accepting(p) \/ Using(p)
    BY <1>1 DEF Next
  <2>3. CASE Kill(p)
    <3>1. SockInv'  BY <2>1, <2>3, KillInv
    <3>2. sock' = sock /\ ret' = ret /\ "none" # "fail"  BY <2>3 DEF Kill, objects
    <3> QED  BY <3>1, <3>2 DEF Settles, Fails
  <2>4. ASSUME \E woke : Good(p, woke) PROVE SockInv' /\ Settles /\ Fails
    BY <2>1, <2>4, GoodStep DEF Fails
  <2>5. CASE Call(p)  BY <2>1, <2>4, <2>5, CallGood
  <2>6. CASE Exit(p)  BY <2>1, <2>4, <2>6, ExitGood
  <2>7. CASE Repoll(p)  BY <2>1, <2>4, <2>7, RepollGood
  <2>8. CASE Descriptor(p)
    <3>1. CASE Fork(p)  BY <2>1, <2>4, <3>1, ForkGood
    <3>2. CASE ~Fork(p)  BY <2>1, <2>4, <2>8, <3>2, DescriptorGood DEF Descriptor
    <3> QED  BY <3>1, <3>2
  <2>9. CASE Naming(p)
    <3>1. CASE Socket(p)  BY <2>1, <2>4, <3>1, SocketGood
    <3>2. CASE Socketpair(p)  BY <2>1, <2>4, <3>2, SocketpairGood
    <3>3. CASE Listen(p)  BY <2>1, <2>4, <3>3, ListenGood
    <3>4. CASE Bind(p)  BY <2>1, <2>4, <3>4, LooksUpGood
    <3>5. CASE BindCreate(p)  BY <2>1, <2>4, <3>5, BindCreateGood
    <3>6. CASE BindRegister(p)  BY <2>1, <2>4, <3>6, BindRegisterGood
    <3>7. CASE BindSet(p)  BY <2>1, <2>4, <3>7, SetGood
    <3>8. CASE Unlink(p)  BY <2>1, <2>4, <3>8, UnlinkGood
    <3> QED  BY <2>9, <3>1, <3>2, <3>3, <3>4, <3>5, <3>6, <3>7, <3>8 DEF Naming
  <2>10. CASE Connecting(p)
    <3>1. CASE Connect(p) \/ ConnectResolve(p)  BY <2>1, <2>4, <3>1, LooksUpGood
    <3>2. CASE ConnectLookup(p)  BY <2>1, <2>4, <3>2, ConnectLookupGood
    <3>3. CASE ConnectPush(p)  BY <2>1, <2>4, <3>3, ConnectPushGood
    <3>4. CASE ConnectWake(p)  BY <2>1, <2>4, <3>4, ConnectWakeGood
    <3>5. CASE ConnectSet(p)  BY <2>1, <2>4, <3>5, SetGood
    <3> QED  BY <2>10, <3>1, <3>2, <3>3, <3>4, <3>5 DEF Connecting
  <2>11. CASE Accepting(p)
    <3>1. CASE Accept(p)  BY <2>1, <2>4, <3>1, AcceptGood
    <3>2. CASE AcceptRegister(p)  BY <2>1, <2>4, <3>2, AcceptRegisterGood
    <3>3. CASE AcceptPop(p)  BY <2>1, <2>4, <3>3, AcceptPopGood
    <3> QED  BY <2>11, <3>1, <3>2, <3>3 DEF Accepting
  <2>12. CASE Using(p)
    <3>1. CASE Send(p)  BY <2>1, <2>4, <3>1, SendGood
    <3>2. CASE Recv(p)  BY <2>1, <2>4, <3>2, RecvGood
    <3>3. CASE Poll(p)  BY <2>1, <2>4, <3>3, PollGood
    <3>4. CASE PollSweep(p)  BY <2>1, <2>4, <3>4, PollSweepGood
    <3>5. CASE PollRegister(p)  BY <2>1, <2>4, <3>5, PollRegisterGood
    <3> QED  BY <2>12, <3>1, <3>2, <3>3, <3>4, <3>5 DEF Using
  <2> QED  BY <2>2, <2>3, <2>5, <2>6, <2>7, <2>8, <2>9, <2>10, <2>11, <2>12
<1>2. CASE UNCHANGED vars
  <2>1. /\ UNCHANGED <<fds, sock, backlog, names, buf, waiting, ready, killed, pc, arg, ret, step, plan>>
    BY <1>2 DEF vars, objects, wakers
  <2>2. HeldEnds' = HeldEnds  BY <2>1, HeldSame
  <2>3. ASSUME NEW q \in Procs PROVE Sane(q)'
    <3>1. PICK a, ev : a = arg[q] /\ ev = a.events  OBVIOUS
    <3>2. \A f : Revents(f, ev)' <=> Revents(f, ev)  BY <2>1, <2>2, ReventsSame
    <3>3. Sane(q)  BY DEF SockInv
    <3>4. Holds(q)'  BY <2>1, <3>3 DEF Sane, Holds, Parked
    <3>5. Accepts(q)'  BY <2>1, <3>3 DEF Sane, Accepts, Parked, Waits, Pushed
    <3>6. Polls(q)'  BY SMT, <2>1, <3>1, <3>2, <3>3 DEF Sane, Polls, Parked, Waits, Pushed
    <3> QED  BY <3>4, <3>5, <3>6 DEF Sane
  <2>4. SockInv'  BY <2>1, <2>3 DEF SockInv, Typed
  <2>5. "none" # "fail"  OBVIOUS
  <2> QED  BY <2>1, <2>4, <2>5 DEF Settles, Fails
<1> QED  BY <1>1, <1>2 DEF Next

\* The state of every process, descriptor and socket stays what the calls assume of
\* it: what a call holds at each of its awaits, which waker lists it has joined and
\* what it knows of the backlogs and buffers behind them.
THEOREM SocketsInvariant == Spec => []SockInv
  BY InitInv, NextInv, PTL DEF Spec

\* No accept sleeps through a connection: register before looking and wake after
\* pushing are enough, whoever else accepts, connects, closes or is killed.
THEOREM AcceptersAreWoken == Spec => []AccepterNotStuck
<1>1. SockInv => AccepterNotStuck
  BY DEF SockInv, Sane, Accepts, Parked, Pushed, AccepterNotStuck
<1> QED  BY <1>1, SocketsInvariant, PTL

\* On one hart no poll sleeps while one of its sockets that was bound or connected
\* when it registered has something to report: sys_poll sweeps and registers without
\* an await in between, and every operation that changes what file_revents reports
\* wakes the list of the end or listener.
THEOREM PollersAreWoken == Spec => []PollerNotStuck
<1>1. SockInv => PollerNotStuck
  <2>1. SUFFICES ASSUME SockInv, NEW p \in Procs, ~plan.smp, pc[p] = "parked",
                        arg[p].call = "poll", p \notin ready
                 PROVE  /\ ~killed[p]
                        /\ \A f \in arg[p].files \ arg[p].late :
                             Revents(f, arg[p].events) =>
                               \E q \in Procs : /\ pc[q] = "connect_wake"
                                                /\ Listener(arg[q].l) = sock[f].of
    BY DEF PollerNotStuck
  <2>2. Polls(p) /\ Parked(p, "poll") /\ arg[p] \in Args  BY <2>1 DEF SockInv, Sane, Parked, Typed
  <2>3. ~killed[p]  BY <2>1, <2>2 DEF Polls
  <2>4. ASSUME NEW f \in arg[p].files \ arg[p].late, Revents(f, arg[p].events)
        PROVE  \E q \in Procs : pc[q] = "connect_wake" /\ Listener(arg[q].l) = sock[f].of
    <3>1. sock[f].s = "listening" /\ Pushed(sock[f].of[1])  BY <2>1, <2>2, <2>4 DEF Polls
    <3>2. f \in Files  BY SMT, <2>2 DEF Args
    <3>3. sock[f].of = Listener(sock[f].of[1])  BY <2>1, <3>1, <3>2, StateIs DEF SockInv, Typed
    <3> QED  BY <3>1, <3>3 DEF Pushed
  <2> QED  BY <2>3, <2>4
<1> QED  BY <1>1, SocketsInvariant, PTL

\* A socket that is bound or connected stays what it is: bind and connect look again,
\* under the lock, when they come back from the file system, and a new description
\* takes nothing that anyone holds.
THEOREM SocketsSettle == Spec => StateSettled
<1>1. SockInv /\ [Next]_vars => Settles  BY NextInv
<1>2. Settles <=> \A f \in HeldFiles \cap HeldFiles' : sock[f] # Fresh => sock'[f] = sock[f]
  BY DEF Settles
<1> QED  BY <1>1, <1>2, SocketsInvariant, PTL DEF Spec, StateSettled

\* A call that fails leaves its descriptors as they were: socketpair takes both back.
THEOREM FailuresAreClean == Spec => FailsCleanly
<1>1. SockInv /\ [Next]_vars => Fails  BY NextInv
<1>2. Fails <=> \A p \in Procs : ret[p] = "none" /\ ret'[p] = "fail" => fds'[p] = fds[p]
  BY DEF Fails
<1> QED  BY <1>1, <1>2, SocketsInvariant, PTL DEF Spec, FailsCleanly
=============================================================================
