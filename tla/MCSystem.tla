------------------------------ MODULE MCSystem ------------------------------
(***************************************************************************)
(* What the library builds on, each driven by itself: calls with a         *)
(* deadline (part "deadlines"), dynamic strings ("strings"), files read    *)
(* into them ("files"), the environment ("env"), programs that are run     *)
(* ("exec"), options ("options"), descriptors ("fds"), memory ("alloc"),     *)
(* the addresses of sockets ("sockets") and times ("times").               *)
(***************************************************************************)
EXTENDS Deadlines, ReadClose, Env, Getopt, Descriptors, Alloc, Sockets

VARIABLE part

MCInherited == {
  <<>>,
  <<String("PATH", "1"), String("A", "2")>>,
  <<String("A", "1"), String("B", "2"), String("A", "2")>>,
  <<String("B", "1"), String("A", NoValue), String("PATH", "2")>>}
MCDirsOf == [v \in {"1", "2"} |-> IF v = "1" THEN <<"bin">> ELSE <<"bin", "", "local">>]
MCDefault == <<"/bin", "/usr/bin">>

Chars == {"-", "a", "o", "x"}
Words == {<<>>} \cup {<<c>> : c \in Chars} \cup {<<c, d>> : c, d \in Chars} \cup {<<"-", c, d>> : c, d \in Chars}
MCCommandLines == {<<>>} \cup {<<v>> : v \in Words} \cup {<<v, w>> : v, w \in Words}
                  \cup {<<<<"-", "a">>, v, w>> : v, w \in Words}

textVars == <<strallocVars, readVars>>
memoryVars == <<allocVars, socketVars, held>>

Init ==
  /\ part \in {"deadlines", "strings", "files", "env", "exec", "options", "fds", "alloc", "sockets", "times"}
  /\ DeadlinesInit /\ (part # "deadlines" => nonblock)
  /\ StrallocInit /\ ReadInit
  /\ EnvStart /\ (part \notin {"env", "exec"} => environ = <<>>) /\ PathStart
  /\ GetoptInit /\ (part # "options" => argv = <<>>)
  /\ AllocInit /\ SocketsInit /\ TimesInit
  /\ FdInit /\ (part # "fds" => \A n \in Fds : table[n] = Closed)

Next ==
  /\ UNCHANGED part
  /\ \/ part = "deadlines" /\ DeadlinesNext /\ UNCHANGED <<textVars, programs, getoptVars, fdVars, memoryVars>>
     \/ part = "strings" /\ StrallocNext /\ UNCHANGED <<deadlineVars, readVars, programs, getoptVars, fdVars, memoryVars>>
     \/ part = "files" /\ ReadNext /\ UNCHANGED <<deadlineVars, programs, getoptVars, fdVars, memoryVars>>
     \/ part = "env" /\ EnvNext /\ UNCHANGED <<deadlineVars, textVars, pathVars, getoptVars, fdVars, memoryVars>>
     \/ part = "exec" /\ PathExecNext /\ UNCHANGED <<deadlineVars, textVars, getoptVars, fdVars, memoryVars>>
     \/ part = "options" /\ Subgetopt /\ UNCHANGED <<deadlineVars, textVars, programs, fdVars, memoryVars>>
     \/ part = "fds" /\ FdNext /\ UNCHANGED <<deadlineVars, textVars, programs, getoptVars, memoryVars>>
     \/ part = "alloc" /\ AllocNext /\ UNCHANGED <<deadlineVars, textVars, programs, getoptVars, fdVars, socketVars, held>>
     \/ part = "sockets" /\ SocketsNext /\ UNCHANGED <<deadlineVars, textVars, programs, getoptVars, fdVars, allocVars, held>>
     \/ part = "times" /\ TimesNext /\ UNCHANGED <<deadlineVars, textVars, programs, getoptVars, fdVars, allocVars, socketVars>>

vars == <<part, deadlineVars, textVars, programs, getoptVars, fdVars, memoryVars>>

others == <<part, textVars, programs, getoptVars, fdVars, memoryVars>>

Spec ==
  /\ Init /\ [][Next]_vars
  /\ WF_vars(part = "deadlines" /\ Step /\ UNCHANGED others) /\ WF_vars(part = "deadlines" /\ Tick /\ UNCHANGED others)

-----------------------------------------------------------------------------
\* Every call returns when its descriptor answers or its deadline passes, whatever polls
\* fail, as long as the descriptor does not block.  On one that blocks the deadline ends
\* with the poll: a connect, a read of what another process has taken, and a write of more
\* than there is room for wait in the kernel for the other side, as long as it takes, and
\* return when it acts (timeout.c:35, 60, timeoutconn.c:22, 52, 82).
CallReturns ==
  /\ step # "idle" /\ nonblock ~> step = "idle"
  /\ step # "idle" ~> step = "idle" \/ InKernel
=============================================================================
