----------------------------- MODULE MCSockets ------------------------------
EXTENDS Sockets, TLC

CONSTANTS p1, p2, p3, n1

R(call) == Request(call, 0)
On(call, fd) == Request(call, fd)
Dup2To(fd, new) == [Request("dup2", fd) EXCEPT !.fd2 = new]
DupFrom(fd, start, c) == [Request("fcntl_dup", fd) EXCEPT !.fd2 = start, !.flag = c]
Flag(call, fd, b) == [Request(call, fd) EXCEPT !.flag = b]
PollOn(S, ev, now) == [Request("poll", 0) EXCEPT !.set = S, !.events = ev, !.flag = now]

\* Two processes accept from one listener; clients come and go; one is killed.
Servers ==
  [born |-> {p1, p3}, smp |-> TRUE, victims |-> {p2},
   calls |-> (p1 :> <<{R("socket")}, {R("bind")}, {R("fork")}, {R("accept"), R("close")},
                      {R("accept"), R("exit")}>>)
          @@ (p2 :> <<{R("accept")}, {R("close"), R("accept")}>>)
          @@ (p3 :> <<{R("socket")}, {R("connect")}, {R("close"), R("socket")},
                      {On("connect", 1), R("socket")}>>)]

\* A fresh socket that two processes share is bound by one and bound or connected
\* by the other; names are removed and made again.
Sharers ==
  [born |-> {p1, p3}, smp |-> TRUE, victims |-> {},
   calls |-> (p1 :> <<{R("socket")}, {R("fork")}, {R("bind")},
                      {R("listen"), R("accept"), R("close")}>>)
          @@ (p2 :> <<{R("connect"), R("bind")}, {R("exit")}>>)
          @@ (p3 :> <<{R("socket")}, {R("unlink"), R("bind")}, {R("bind"), R("connect")}>>)]

\* poll of listeners, of connections and of fresh sockets, on one hart.
Pollers ==
  [born |-> {p1, p3}, smp |-> FALSE, victims |-> {p1},
   calls |-> (p1 :> <<{R("socket")}, {R("bind"), R("fork")},
                      {R("fork"), PollOn({0}, {"in"}, FALSE)},
                      {PollOn({0, 1}, {"in"}, FALSE), PollOn({0}, {"in"}, TRUE)}, {R("accept")},
                      {PollOn({0, 1}, {"in"}, FALSE), PollOn({1}, {"in", "out"}, FALSE)}>>)
          @@ (p2 :> <<{R("accept"), R("exit")}, {R("connect"), On("send", 1)}>>)
          @@ (p3 :> <<{R("socket")}, {R("connect")}, {R("send"), R("recv")},
                      {R("close"), R("exit")}>>)]

\* A connected pair whose ends are shared, read, written and closed, on one hart.
Streams ==
  [born |-> {p1}, smp |-> FALSE, victims |-> {},
   calls |-> (p1 :> <<{R("socketpair")}, {R("fork")},
                      {PollOn({0}, {"in"}, FALSE), PollOn({0}, {"out"}, FALSE),
                       Flag("fcntl_setfl", 0, TRUE)},
                      {R("send"), R("recv"), PollOn({0}, {"out"}, FALSE)},
                      {R("send"), R("recv"), PollOn({0}, {"in"}, FALSE)}>>)
          @@ (p2 :> <<{On("close", 0)}, {On("send", 1), On("recv", 1)},
                      {On("recv", 1), On("close", 1)}>>)
          @@ (p3 :> <<>>)]

\* All calls on descriptors, with a table that fills up.
Tables ==
  LET any == {R("socketpair"), Flag("socketpair", 0, TRUE), On("dup", 0), On("dup", 2),
              Dup2To(0, 1), Dup2To(1, 1), Dup2To(0, NOFILE), DupFrom(0, 1, TRUE),
              DupFrom(1, 2, FALSE), Flag("fcntl_setfd", 0, TRUE), Flag("fcntl_setfl", 1, TRUE),
              On("close", 1), R("exec"), R("socket")}
  IN
  [born |-> {p1}, smp |-> FALSE, victims |-> {},
   calls |-> (p1 :> <<any, any, any, any>>) @@ (p2 :> <<>>) @@ (p3 :> <<>>)]

PlansEach == {Servers, Sharers, Pollers, Streams, Tables}
=============================================================================
