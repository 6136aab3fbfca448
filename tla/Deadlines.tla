----------------------------- MODULE Deadlines -----------------------------
(***************************************************************************)
(* Reading, writing and connecting with a deadline: timeoutread and        *)
(* timeoutwrite (timeout.c), timeoutconn, timeoutconn4 and timeoutconn6    *)
(* (timeoutconn.c), over iopause (iopause.c) and the times of Taia.        *)
(*                                                                         *)
(* The clock of the kernel counts ticks and may tick between any two       *)
(* steps; the descriptor becomes usable, or stops being so, at any time.   *)
(***************************************************************************)
EXTENDS Taia

CONSTANTS
  TicksPerSec,  \* microseconds of a second (10^6)
  PerTick,      \* nano of a tick (1000)
  PerMs,        \* nano of a millisecond (10^6)
  Slack,        \* milliseconds iopause waits longer (20)
  CapMs,        \* milliseconds it waits at most (10^6), without the slack
  Epoch,        \* of tai_unix
  Timeouts,     \* seconds a caller allows
  StartMax,     \* no call begins later
  MaxClock,     \* the end of the time that is looked at
  MaxFails,     \* polls that fail
  WaitsMax      \* polls that are counted

ASSUME DeadlinesAssumption ==
  /\ {TicksPerSec, PerTick, PerMs, Slack, CapMs} \subseteq Nat \ {0}
  /\ Base = TicksPerSec * PerTick
  /\ PerMs % PerTick = 0   \* a millisecond is a number of ticks
  /\ {Epoch, StartMax, MaxClock, MaxFails, WaitsMax} \subseteq Nat
  /\ Timeouts \subseteq Nat
  /\ \A s \in Timeouts : StartMax + s * TicksPerSec < MaxClock
  /\ Epoch + MaxClock \div TicksPerSec < ULong

VARIABLES
  clock, fd, nonblock,            \* the kernel's: time, descriptor, O_NONBLOCK
  step, op, deadline, now, until, \* where the call is, its times, and the end of its poll
  rc,                             \* how the last call ended
  seconds, waits, fails, late     \* history: the timeout, polls that ended without an
                                  \* event, polls that failed, a look behind the deadline

callVars == <<step, op, deadline, now, until, rc, seconds, waits, fails, late>>
deadlineVars == <<clock, fd, nonblock, callVars>>

\* taia_now, tai_unix
TaiaNow(c) ==
  [sec |-> (Epoch + c \div TicksPerSec) % ULong,
   nano |-> PerTick * (c % TicksPerSec) + PerTick \div 2, atto |-> 0]

\* iopause: how long to poll
Millisecs(d, stamp) ==
  LET left == TaiaApprox(TaiaSub([t |-> stamp, d |-> d], "t", "d", "t").t)
      cap == CapMs * PerMs * Base
  IN  IF TaiaLess(d, stamp) THEN 0 ELSE ((IF left > cap THEN cap ELSE left) \div (PerMs * Base)) + Slack

Ticks(ms) == (ms * PerMs) \div PerTick

Usable == fd # "quiet"

DeadlinesInit ==
  /\ clock = 0 /\ fd = "quiet" /\ nonblock \in BOOLEAN
  /\ step = "idle" /\ op = "none" /\ deadline = TaiaNow(0) /\ now = TaiaNow(0) /\ until = 0
  /\ rc = "none" /\ seconds = 0 /\ waits = 0 /\ fails = 0 /\ late = FALSE

-----------------------------------------------------------------------------
\* the beginning of a wait: the deadline is fixed once
SetDeadline(s) ==
  /\ seconds' = s
  /\ deadline' = TaiaAdd([now |-> TaiaNow(clock), d |-> TaiaUint(s)], "d", "now", "d").d
  /\ now' = TaiaNow(clock)
  /\ waits' = 0 /\ fails' = 0 /\ late' = FALSE
  /\ step' = "stamp"

\* timeoutread, timeoutwrite
CallIo(o, s) ==
  /\ step = "idle" /\ clock <= StartMax /\ op # "conn"
  /\ op' = o /\ SetDeadline(s) /\ rc' = "none"
  /\ UNCHANGED <<clock, fd, nonblock, until>>

\* timeoutconn: an attempt may end at once; one that goes on is waited for in the loop, or
\* in the kernel when the descriptor blocks
CallConn(s) ==
  /\ step = "idle" /\ clock <= StartMax /\ op = "none" /\ op' = "conn"
  /\ \/ nonblock /\ fd' = "quiet" /\ SetDeadline(s) /\ rc' = "none"
     \/ /\ ~nonblock /\ fd' = "quiet" /\ step' = "connecting" /\ rc' = "none"
        /\ UNCHANGED <<deadline, now, seconds, waits, fails, late>>
     \/ /\ fd' = "established" /\ step' = "off" /\ rc' = "none"
        /\ UNCHANGED <<deadline, now, seconds, waits, fails, late>>
     \/ /\ fd' = "refused" /\ step' = "idle" /\ rc' = "failed"
        /\ UNCHANGED <<deadline, now, seconds, waits, fails, late>>
  /\ UNCHANGED <<clock, nonblock, until>>

\* faulty variant of Stamp: a deadline that has passed is not followed by a look
StampChecks ==
  /\ step = "stamp" /\ now' = TaiaNow(clock)
  /\ IF TaiaLess(deadline, now') THEN step' = "idle" /\ rc' = "timeout" ELSE step' = "poll" /\ UNCHANGED rc
  /\ UNCHANGED <<clock, fd, nonblock, op, deadline, until, seconds, waits, fails, late>>

\* faulty variant of Stamp: the deadline is counted from the stamp
StampAnew ==
  /\ step = "stamp" /\ step' = "poll" /\ now' = TaiaNow(clock)
  /\ deadline' = TaiaAdd([now |-> TaiaNow(clock), d |-> TaiaUint(seconds)], "d", "now", "d").d
  /\ UNCHANGED <<clock, fd, nonblock, op, until, rc, seconds, waits, fails, late>>

\* the head of the loop
Stamp ==
  /\ step = "stamp" /\ step' = "poll" /\ now' = TaiaNow(clock)
  /\ UNCHANGED <<clock, fd, nonblock, op, deadline, until, rc, seconds, waits, fails, late>>

\* iopause calls poll some time after the stamp was taken
Poll ==
  /\ step = "poll" /\ step' = "wait" /\ until' = clock + Ticks(Millisecs(deadline, now))
  /\ UNCHANGED <<clock, fd, nonblock, op, deadline, now, rc, seconds, waits, fails, late>>

\* r > 0 and revents: whatever the event is
PollReady ==
  /\ step = "wait" /\ Usable
  /\ step' = IF op = "conn" THEN "connected" ELSE "io"
  /\ UNCHANGED <<clock, fd, nonblock, op, deadline, now, until, rc, seconds, waits, fails, late>>

\* r = 0; polls that last longer than the time that is looked at end with it
PollQuiet ==
  /\ step = "wait" /\ ~Usable /\ (clock >= until \/ clock = MaxClock)
  /\ step' = "check" /\ waits' = (IF waits < WaitsMax THEN waits + 1 ELSE waits) /\ late' = TaiaLess(deadline, TaiaNow(clock))
  /\ UNCHANGED <<clock, fd, nonblock, op, deadline, now, until, rc, seconds, fails>>

\* r < 0: a signal, or no memory
PollFails ==
  /\ step = "wait" /\ fails < MaxFails
  /\ step' = "check" /\ fails' = fails + 1
  /\ UNCHANGED <<clock, fd, nonblock, op, deadline, now, until, rc, seconds, waits, late>>

\* the end of the loop compares the stamp from before the poll
Check ==
  /\ step = "check"
  /\ IF TaiaLess(deadline, now) THEN step' = "idle" /\ rc' = "timeout" ELSE step' = "stamp" /\ UNCHANGED rc
  /\ UNCHANGED <<clock, fd, nonblock, op, deadline, now, until, seconds, waits, fails, late>>

Returns(r) == step' = "idle" /\ rc' = r /\ UNCHANGED <<op, deadline, now, until, seconds, waits, fails, late>>

\* a write that blocks and finds less room than it has bytes: it fills the room and waits
\* for more, until all its bytes are taken
FillsRoom == op = "write" /\ ~nonblock /\ fd' = "quiet" /\ UNCHANGED callVars

\* read, write: poll has promised one byte, or room for one; another process may have
\* taken it since.  A descriptor that blocks waits in the kernel, whatever the time.
Io ==
  /\ step = "io" /\ UNCHANGED <<clock, nonblock>>
  /\ \/ Usable /\ FillsRoom
     \/ Usable /\ UNCHANGED fd /\ \E r \in {"done", "failed"} : Returns(r)
     \/ ~Usable /\ nonblock /\ UNCHANGED fd /\ Returns("failed")

\* the end of a connect that has waited in the kernel
ConnectEnds ==
  /\ step = "connecting" /\ Usable
  /\ IF fd = "established"
     THEN step' = "off" /\ UNCHANGED <<op, deadline, now, until, rc, seconds, waits, fails, late>>
     ELSE Returns("failed")
  /\ UNCHANGED <<clock, fd, nonblock>>

\* the call waits in the kernel, where it does not look at its deadline
InKernel == step \in {"io", "connecting"} /\ ~nonblock /\ ~Usable

\* a signal ends such a wait; a write says how much it has got rid of
Interrupted ==
  /\ InKernel
  /\ \/ Returns("failed")
     \/ op = "write" /\ Returns("done")
  /\ UNCHANGED <<clock, fd, nonblock>>

\* socket_connected
Connected ==
  /\ step = "connected"
  /\ IF fd = "established"
     THEN step' = "off" /\ UNCHANGED <<op, deadline, now, until, rc, seconds, waits, fails, late>>
     ELSE Returns("failed")
  /\ UNCHANGED <<clock, fd, nonblock>>

\* ndelay_off
Off ==
  /\ step = "off"
  /\ \/ Returns("done") /\ nonblock' = FALSE
     \/ Returns("failed") /\ UNCHANGED nonblock
  /\ UNCHANGED <<clock, fd>>

Step == Stamp \/ Poll \/ PollReady \/ PollQuiet \/ PollFails \/ Check \/ Io \/ ConnectEnds \/ Connected \/ Off

-----------------------------------------------------------------------------
Tick == clock < MaxClock /\ clock' = clock + 1 /\ UNCHANGED <<fd, nonblock, callVars>>

\* the other side sends or reads, and what is ready may be taken by another process;
\* an attempt to connect ends, a connection may be reset
PeerActs ==
  /\ fd' \in CASE op = "conn" /\ fd = "quiet" -> {"established", "refused"}
               [] op = "conn" /\ fd = "established" -> {"reset"}
               [] op \in {"read", "write"} -> {"quiet", "ready"} \ {fd}
               [] OTHER -> {}
  /\ step # "idle" /\ UNCHANGED <<clock, nonblock, callVars>>

\* between two calls the caller takes another descriptor
Another ==
  /\ step = "idle" /\ clock <= StartMax /\ op # "none"
  /\ fd' = "quiet" /\ nonblock' \in BOOLEAN /\ op' = "none"
  /\ UNCHANGED <<clock, step, deadline, now, until, rc, seconds, waits, fails, late>>

Call == \E s \in Timeouts : CallConn(s) \/ \E o \in {"read", "write"} : CallIo(o, s)

DeadlinesNext == Step \/ Tick \/ PeerActs \/ Another \/ Call \/ Interrupted

DeadlinesSpec == DeadlinesInit /\ [][DeadlinesNext]_deadlineVars

-----------------------------------------------------------------------------
\* A call that reports a timeout is not early, and has looked at the descriptor once
\* more when the deadline had passed: what came in time is not lost because the
\* process was slow.  Only a poll that failed can take the place of that look
\* (timeout.c:29-34, timeoutconn.c:29-36).
TimeoutIsLate ==
  rc = "timeout" => /\ TaiaLess(deadline, TaiaNow(clock))
                    /\ late \/ fails > 0

\* A call does not spin on a descriptor that is quiet: one poll for each time iopause waits
\* at most, one that ends behind the deadline, one that does not wait (iopause.c:19-27).
\* Only polls that end without an event are counted: a poll that fails at once is repeated
\* until the deadline as often as it fails, and nothing limits that (timeout.c:29-33).
FewPolls == waits <= ((seconds * TicksPerSec) \div Ticks(CapMs)) + 2

\* A descriptor handed back as connected was connected when it was looked at, and
\* blocks (timeoutconn.c:15-103, socket_connect.c:56-68).
ConnectedMeansEstablished == op = "conn" /\ rc = "done" => fd \in {"established", "reset"} /\ ~nonblock

\* What a call with a deadline returns is true: a timeout is late, a connection is there,
\* and no more quiet polls lie in between than the timeout has room for (timeout.c:13-61,
\* timeoutconn.c:15-103).
TimelyAndTrue == TimeoutIsLate /\ FewPolls /\ ConnectedMeansEstablished
=============================================================================
