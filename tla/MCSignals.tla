----------------------------- MODULE MCSignals ------------------------------
EXTENDS Signals, TLC

CONSTANTS p1, p2, h1

Ignore(s) == [Request("sigaction", p1, s, 0) EXCEPT !.act = Action(SIG_IGN, {}, FALSE)]
Mask(S) == [Request("sigprocmask", p1, SIGKILL, 0) EXCEPT !.set = S]
Nonblock(r) == [r EXCEPT !.nonblock = TRUE]

\* The first process has handlers and waits; the second signals it and reads the
\* console.
InheritedEach ==
  (p1 :> [s \in Sigs |-> IF s = SIGALRM THEN Action(USER, {}, TRUE)
                         ELSE IF s = SIGUSR1 THEN Action(USER, {SIGALRM}, TRUE)
                         ELSE default_action])
  @@ (p2 :> [s \in Sigs |-> default_action])

Kill(s) == Request("kill", p1, s, 0)
Of(call, n) == Request(call, p1, SIGKILL, n)

\* Signals and alarms; sleeping; the console; the keyboard.
PlansEach ==
  {[calls |-> (p1 :> {Ignore(SIGUSR1), Mask({SIGUSR1}), Of("alarm", 0), Of("alarm", 1),
                      Of("pause", 0), Of("exec", 0), Of("sigreturn", 0)})
              @@ (p2 :> {Kill(SIGUSR1), Kill(SIGKILL)}),
    max |-> (p1 :> 3) @@ (p2 :> 1), time |-> 2, typed |-> {}, keys |-> 0],
   [calls |-> (p1 :> {Of("alarm", 1), Of("pause", 0), Of("sleep", 1)})
              @@ (p2 :> {Kill(SIGUSR1), Kill(SIGKILL), Of("sleep", 2)}),
    max |-> (p1 :> 2) @@ (p2 :> 2), time |-> 3, typed |-> {}, keys |-> 0],
   [calls |-> (p1 :> {Of("console_read", 2)})
              @@ (p2 :> {Kill(SIGUSR1), Kill(SIGKILL), Of("console_read", 1),
                         Nonblock(Of("console_read", 2))}),
    max |-> (p1 :> 2) @@ (p2 :> 2), time |-> 0, typed |-> {"c", NL, EOF, "bs", "^U"}, keys |-> 4],
   [calls |-> (p1 :> {Of("input_read", 2)})
              @@ (p2 :> {Kill(SIGKILL), Kill(SIGCHLD), Of("input_read", 1), Nonblock(Of("input_read", 1))}),
    max |-> (p1 :> 2) @@ (p2 :> 2), time |-> 0, typed |-> {KEY}, keys |-> 3]}
=============================================================================
