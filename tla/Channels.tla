------------------------------ MODULE Channels ------------------------------
(***************************************************************************)
(* Channels, select, sleep and timers of the Voila runtime                 *)
(* (runtime/src/task.c).  One monitor, g_mu and g_cv, guards every channel *)
(* and every cancellation flag: a blocked call waits on it, every change   *)
(* broadcasts if anyone waits (wake_all), and a waiter re-checks after the *)
(* broadcast or after 20 ms, whichever comes first (monitor_wait).         *)
(*                                                                         *)
(* An action is what a thread does from taking g_mu to waiting or          *)
(* releasing it.  A thread's program is arbitrary: when idle it makes any  *)
(* call.  Workers are the tasks of one group; the group is cancelled at    *)
(* any moment, by a failure or a timeout (Tasks.tla).                      *)
(***************************************************************************)
EXTENDS Integers, Sequences, FiniteSets

CONSTANTS
  Threads,   \* all threads
  Workers,   \* the threads in the group that may be cancelled
  Chans,     \* the channels
  Cap,       \* the capacity each was made with; 0 is a rendezvous channel
  Timers,    \* the channels time.after makes
  Selects,   \* the select statements of the program
  MaxMade,   \* bound: the values each thread makes to send
  None       \* nil

ASSUME ThreadAssumption == IsFiniteSet(Threads) /\ Workers \subseteq Threads
ASSUME ChanAssumption   == /\ Cap \in [Chans -> Nat]
                           /\ Timers \subseteq Chans /\ \A c \in Timers : Cap[c] = 1
                           /\ Threads \cap Timers = {}
ASSUME SelectAssumption ==
  /\ Selects \subseteq [cases : Seq([dir : {"recv", "send"}, chan : Chans]),
                        default : BOOLEAN]
  /\ Selects \cap Chans = {}
ASSUME BoundAssumption  == MaxMade \in [Threads -> Nat]
ASSUME NoneAssumption   ==
  /\ None \notin (Threads \cup Timers) \X Nat
  /\ None \notin Chans /\ None \notin Selects
  /\ None \notin [how : {"sent", "received"}, chan : Chans,
                  value : (Threads \cup Timers) \X Nat]

Sources == Threads \cup Timers

Values == Sources \X (Nat \ {0})

VARIABLES
  \* VlChan
  slot,       \* c->buf
  head,       \* c->head; -1 marks a rendezvous channel
  count,      \* c->count
  closed,     \* c->closed
  \* the threads and their calls
  call,       \* the call a thread is in
  arg,        \* its channel or select statement
  held,       \* the value it is sending and still owns
  made,       \* how many values it has made
  ret,        \* what its last send or receive did
  due,        \* has the deadline of its sleep passed?
  cancelled,  \* group_cancelled of the workers
  timer,      \* after_main: not made, sleeping, done
  \* the monitor
  waiting,    \* where a thread is in monitor_wait
  waiters     \* g_waiters

chanVars    == <<slot, head, count, closed>>
callVars    == <<call, arg, held, made, ret, due>>
monitorVars == <<waiting, waiters>>
vars        == <<chanVars, callVars, cancelled, timer, monitorVars>>

Slots(c) == IF Cap[c] > 0 THEN Cap[c] ELSE 1

Calls == {"idle", "send", "handoff", "try", "recv", "close", "select", "sleep"}

Returns == [how : {"sent", "received"}, chan : Chans, value : Values]

TypeOK ==
  /\ \A c \in Chans : slot[c] \in [0 .. Slots(c) - 1 -> Values \cup {None}]
  /\ head \in [Chans -> Int]
  /\ \A c \in Chans : IF Cap[c] = 0 THEN head[c] = -1 ELSE head[c] \in 0 .. Slots(c) - 1
  /\ count \in [Chans -> Int] /\ \A c \in Chans : count[c] \in 0 .. Slots(c)
  /\ closed \in [Chans -> BOOLEAN]
  /\ call \in [Threads -> Calls]
  /\ arg \in [Threads -> Chans \cup Selects \cup {None}]
  /\ held \in [Sources -> Values \cup {None}]
  /\ made \in [Sources -> Nat]
  /\ ret \in [Threads -> Returns \cup {None}]
  /\ due \in [Threads -> BOOLEAN]
  /\ cancelled \in BOOLEAN
  /\ timer \in [Timers -> {"unset", "armed", "done"}]
  /\ waiting \in [Threads -> {"no", "asleep", "awake"}]
  /\ waiters \in Int

(* vl_chan_new for every channel but the timers', which time.after makes. *)
Init ==
  /\ slot = [c \in Chans |-> [i \in 0 .. Slots(c) - 1 |-> None]]
  /\ head = [c \in Chans |-> IF Cap[c] = 0 THEN -1 ELSE 0]
  /\ count = [c \in Chans |-> 0]
  /\ closed = [c \in Chans |-> FALSE]
  /\ call = [th \in Threads |-> "idle"]
  /\ arg = [th \in Threads |-> None]
  /\ held = [s \in Sources |-> None]
  /\ made = [s \in Sources |-> 0]
  /\ ret = [th \in Threads |-> None]
  /\ due = [th \in Threads |-> FALSE]
  /\ cancelled = FALSE
  /\ timer = [c \in Timers |-> "unset"]
  /\ waiting = [th \in Threads |-> "no"]
  /\ waiters = 0

-----------------------------------------------------------------------------
(* The ring.  *)

Rendezvous(c) == head[c] = -1
RingHead(c)   == IF Rendezvous(c) THEN 0 ELSE head[c]

\* Mutant of NextFree: the head is forgotten.
NextFreeFromZero(c) == count[c] % Slots(c)

NextFree(c) == (RingHead(c) + count[c]) % Slots(c)

\* Mutant of HasRoom.
HasRoomForOneMore(c) == count[c] <= Slots(c)

HasRoom(c)  == count[c] < Slots(c)

Front(c) == slot[c][RingHead(c) % Slots(c)]

NextHead(c) == IF Rendezvous(c) THEN -1 ELSE (head[c] + 1) % Slots(c)

PutValue(c, v) ==
  /\ slot' = [slot EXCEPT ![c][NextFree(c)] = v]
  /\ count' = [count EXCEPT ![c] = @ + 1]
  /\ UNCHANGED <<head, closed>>

(* chan_take *)
TakeValue(c) ==
  /\ head' = [head EXCEPT ![c] = NextHead(c)]
  /\ count' = [count EXCEPT ![c] = @ - 1]
  /\ UNCHANGED <<slot, closed>>

-----------------------------------------------------------------------------
(* The monitor.  *)

\* Mutant of OtherWaiters: monitor_wait does not count itself out again.
WaitersWithMe(th) == waiters

(* g_waiters as the thread that holds g_mu finds it, itself not counted. *)
OtherWaiters(th) == IF waiting[th] = "awake" THEN waiters - 1 ELSE waiters

\* Mutant of Woken: a lone waiter is passed over.
WokenIfSeveral(n) ==
  [u \in Threads |-> IF n > 1 /\ waiting[u] = "asleep" THEN "awake" ELSE waiting[u]]

(* wake_all, when n threads are counted as waiting. *)
Woken(n) ==
  [u \in Threads |-> IF n > 0 /\ waiting[u] = "asleep" THEN "awake" ELSE waiting[u]]

(* Release g_mu, having changed nothing others wait for. *)
Unlock(th) ==
  /\ waiting' = [waiting EXCEPT ![th] = "no"]
  /\ waiters' = OtherWaiters(th)

(* wake_all, then release g_mu. *)
WakeAndUnlock(th) ==
  /\ waiting' = [Woken(OtherWaiters(th)) EXCEPT ![th] = "no"]
  /\ waiters' = OtherWaiters(th)

(* monitor_wait *)
MonitorWait(th) ==
  /\ waiting' = [waiting EXCEPT ![th] = "asleep"]
  /\ waiters' = OtherWaiters(th) + 1

WakeAndWait(th) ==
  /\ waiting' = [Woken(OtherWaiters(th)) EXCEPT ![th] = "asleep"]
  /\ waiters' = OtherWaiters(th) + 1

(* 20 ms have passed. *)
WaitTimesOut(th) ==
  /\ waiting[th] = "asleep"
  /\ waiting' = [waiting EXCEPT ![th] = "awake"]
  /\ UNCHANGED <<chanVars, callVars, cancelled, timer, waiters>>

In(th, c) == call[th] = c /\ waiting[th] # "asleep"

\* Mutant of GroupCancelled: looked at before the first wait only.
CancelledAtEntry(th) == cancelled /\ th \in Workers /\ waiting[th] = "no"

GroupCancelled(th) == cancelled /\ th \in Workers

Done(th) == call' = [call EXCEPT ![th] = "idle"]

Report(th, how, c, v) ==
  ret' = [ret EXCEPT ![th] = [how |-> how, chan |-> c, value |-> v]]

Release(th) == held' = [held EXCEPT ![th] = None]

-----------------------------------------------------------------------------
(* The program makes a call.  *)

Made(c) == c \in Timers => timer[c] # "unset"

MakeValue(th) ==
  /\ made[th] < MaxMade[th]
  /\ made' = [made EXCEPT ![th] = @ + 1]
  /\ held' = [held EXCEPT ![th] = <<th, made[th] + 1>>]

Start(th, what, a) ==
  /\ call[th] = "idle"
  /\ call' = [call EXCEPT ![th] = what]
  /\ arg' = [arg EXCEPT ![th] = a]
  /\ ret' = [ret EXCEPT ![th] = None]
  /\ due' = [due EXCEPT ![th] = FALSE]
  /\ UNCHANGED <<chanVars, cancelled, timer, monitorVars>>

CallSend(th, c) ==
  /\ Made(c)
  /\ \E what \in {"send", "try"} : Start(th, what, c)
  /\ MakeValue(th)

CallRecv(th, c) ==
  /\ Made(c)
  /\ Start(th, "recv", c)
  /\ UNCHANGED <<held, made>>

CallClose(th, c) ==
  /\ Made(c)
  /\ Start(th, "close", c)
  /\ UNCHANGED <<held, made>>

Offers(s) == \E i \in DOMAIN s.cases : s.cases[i].dir = "send"

CallSelect(th, s) ==
  /\ \A i \in DOMAIN s.cases : Made(s.cases[i].chan)
  /\ Start(th, "select", s)
  /\ IF Offers(s) THEN MakeValue(th) ELSE UNCHANGED <<held, made>>

CallSleep(th) ==
  /\ Start(th, "sleep", None)
  /\ UNCHANGED <<held, made>>

(* vl_time_after: the channel, and a thread that will send the instant. *)
CallAfter(th, c) ==
  /\ call[th] = "idle"
  /\ timer[c] = "unset"
  /\ timer' = [timer EXCEPT ![c] = "armed"]
  /\ made' = [made EXCEPT ![c] = 1]
  /\ held' = [held EXCEPT ![c] = <<c, 1>>]
  /\ UNCHANGED <<chanVars, call, arg, ret, due, cancelled, monitorVars>>

-----------------------------------------------------------------------------
(* vl_chan_send *)

SendRefused(th) ==
  /\ In(th, "send")
  /\ closed[arg[th]] \/ GroupCancelled(th)
  /\ Done(th) /\ Release(th) /\ Unlock(th)
  /\ UNCHANGED <<chanVars, arg, made, ret, due, cancelled, timer>>

SendWaits(th) ==
  /\ In(th, "send")
  /\ ~closed[arg[th]] /\ ~GroupCancelled(th) /\ ~HasRoom(arg[th])
  /\ MonitorWait(th)
  /\ UNCHANGED <<chanVars, callVars, cancelled, timer>>

SendPuts(th) ==
  LET c == arg[th] IN
  /\ In(th, "send")
  /\ ~closed[c] /\ ~GroupCancelled(th) /\ HasRoom(c)
  /\ PutValue(c, held[th])
  /\ Release(th)
  /\ IF Rendezvous(c)
     THEN /\ call' = [call EXCEPT ![th] = "handoff"]
          /\ WakeAndWait(th)
          /\ UNCHANGED ret
     ELSE /\ Done(th)
          /\ Report(th, "sent", c, held[th])
          /\ WakeAndUnlock(th)
  /\ UNCHANGED <<arg, made, due, cancelled, timer>>

\* Mutants of HandoffOver: no wait; a wait that close does not end.
HandoffAtOnce(th) == TRUE
HandoffTaken(th)  == count[arg[th]] = 0 \/ GroupCancelled(th)

(* The rendezvous sender waits until the slot is empty. *)
HandoffOver(th) == count[arg[th]] = 0 \/ closed[arg[th]] \/ GroupCancelled(th)

HandoffReturns(th) ==
  /\ In(th, "handoff")
  /\ HandoffOver(th)
  /\ Done(th)
  /\ Report(th, "sent", arg[th], <<th, made[th]>>)
  /\ Unlock(th)
  /\ UNCHANGED <<chanVars, arg, held, made, due, cancelled, timer>>

HandoffWaits(th) ==
  /\ In(th, "handoff")
  /\ ~HandoffOver(th)
  /\ MonitorWait(th)
  /\ UNCHANGED <<chanVars, callVars, cancelled, timer>>

(* vl_chan_try_send: never waits, and never on a rendezvous channel. *)
TrySend(th) ==
  LET c == arg[th] IN
  /\ In(th, "try")
  /\ Done(th) /\ Release(th)
  /\ IF closed[c] \/ Rendezvous(c) \/ ~HasRoom(c)
     THEN /\ Unlock(th)
          /\ UNCHANGED <<chanVars, ret>>
     ELSE /\ PutValue(c, held[th])
          /\ Report(th, "sent", c, held[th])
          /\ WakeAndUnlock(th)
  /\ UNCHANGED <<arg, made, due, cancelled, timer>>

-----------------------------------------------------------------------------
(* vl_chan_recv_ok: a value that is there is taken before anything else is  *)
(* looked at; a closed and drained channel gives nil, ok false.             *)

RecvTakes(th) ==
  LET c == arg[th] IN
  /\ In(th, "recv")
  /\ count[c] > 0
  /\ TakeValue(c)
  /\ Report(th, "received", c, Front(c))
  /\ Done(th) /\ WakeAndUnlock(th)
  /\ UNCHANGED <<arg, held, made, due, cancelled, timer>>

RecvEnds(th) ==
  /\ In(th, "recv")
  /\ count[arg[th]] = 0
  /\ closed[arg[th]] \/ GroupCancelled(th)
  /\ Done(th) /\ Unlock(th)
  /\ UNCHANGED <<chanVars, arg, held, made, ret, due, cancelled, timer>>

RecvWaits(th) ==
  /\ In(th, "recv")
  /\ count[arg[th]] = 0 /\ ~closed[arg[th]] /\ ~GroupCancelled(th)
  /\ MonitorWait(th)
  /\ UNCHANGED <<chanVars, callVars, cancelled, timer>>

(* vl_chan_close; a second close throws. *)
Close(th) ==
  LET c == arg[th] IN
  /\ In(th, "close")
  /\ Done(th)
  /\ IF closed[c] THEN Unlock(th) /\ UNCHANGED closed
     ELSE /\ closed' = [closed EXCEPT ![c] = TRUE]
          /\ WakeAndUnlock(th)
  /\ UNCHANGED <<slot, head, count, arg, held, made, ret, due, cancelled, timer>>

-----------------------------------------------------------------------------
(* vl_select: the first ready case in textual order; else the default; else *)
(* a cancellation throws; else wait.                                        *)

CaseReady(x) ==
  IF x.dir = "recv" THEN count[x.chan] > 0 \/ closed[x.chan]
  ELSE ~closed[x.chan] /\ HasRoom(x.chan)

ReadyCases(th) == {i \in DOMAIN arg[th].cases : CaseReady(arg[th].cases[i])}

SelectCase(th) ==
  /\ In(th, "select")
  /\ \E i \in ReadyCases(th) :
       LET x == arg[th].cases[i] IN
       /\ \A j \in ReadyCases(th) : i <= j
       /\ \/ /\ x.dir = "recv" /\ count[x.chan] > 0
             /\ TakeValue(x.chan)
             /\ Report(th, "received", x.chan, Front(x.chan))
             /\ WakeAndUnlock(th)
          \/ /\ x.dir = "recv" /\ count[x.chan] = 0
             /\ Unlock(th)
             /\ UNCHANGED <<chanVars, ret>>
          \/ /\ x.dir = "send"
             /\ PutValue(x.chan, held[th])
             /\ Report(th, "sent", x.chan, held[th])
             /\ WakeAndUnlock(th)
  /\ Done(th) /\ Release(th)
  /\ UNCHANGED <<arg, made, due, cancelled, timer>>

SelectNone(th) ==
  /\ In(th, "select")
  /\ ReadyCases(th) = {}
  /\ arg[th].default \/ GroupCancelled(th)
  /\ Done(th) /\ Release(th) /\ Unlock(th)
  /\ UNCHANGED <<chanVars, arg, made, ret, due, cancelled, timer>>

SelectWaits(th) ==
  /\ In(th, "select")
  /\ ReadyCases(th) = {}
  /\ ~arg[th].default /\ ~GroupCancelled(th)
  /\ MonitorWait(th)
  /\ UNCHANGED <<chanVars, callVars, cancelled, timer>>

-----------------------------------------------------------------------------
(* vl_sleep_ns *)

SleepEnds(th) ==
  /\ In(th, "sleep")
  /\ due[th] \/ GroupCancelled(th)
  /\ Done(th) /\ Unlock(th)
  /\ UNCHANGED <<chanVars, arg, held, made, ret, due, cancelled, timer>>

SleepWaits(th) ==
  /\ In(th, "sleep")
  /\ ~due[th] /\ ~GroupCancelled(th)
  /\ MonitorWait(th)
  /\ UNCHANGED <<chanVars, callVars, cancelled, timer>>

(* The clock passes the deadline of a sleep; nobody is woken for it. *)
DeadlinePasses(th) ==
  /\ call[th] = "sleep" /\ ~due[th]
  /\ due' = [due EXCEPT ![th] = TRUE]
  /\ UNCHANGED <<chanVars, call, arg, held, made, ret, cancelled, timer, monitorVars>>

(* after_main: the timer's own thread, which takes g_mu and never waits. *)
TimerFires(c) ==
  /\ timer[c] = "armed"
  /\ timer' = [timer EXCEPT ![c] = "done"]
  /\ Release(c)
  /\ IF ~closed[c] /\ HasRoom(c)
     THEN /\ PutValue(c, held[c])
          /\ waiting' = Woken(waiters)
     ELSE UNCHANGED <<chanVars, waiting>>
  /\ UNCHANGED <<call, arg, made, ret, due, cancelled, waiters>>

(* group_fail, or the timeout in vl_group_end: the workers' group, or one   *)
(* around it, is cancelled.                                                 *)
CancelGroup ==
  /\ ~cancelled
  /\ cancelled' = TRUE
  /\ waiting' = Woken(waiters)
  /\ UNCHANGED <<chanVars, callVars, timer, waiters>>

-----------------------------------------------------------------------------
(* What a thread that has g_mu does next in the call it is in. *)
Step(th) ==
  \/ SendRefused(th) \/ SendWaits(th) \/ SendPuts(th)
  \/ HandoffReturns(th) \/ HandoffWaits(th)
  \/ TrySend(th)
  \/ RecvTakes(th) \/ RecvEnds(th) \/ RecvWaits(th)
  \/ Close(th)
  \/ SelectCase(th) \/ SelectNone(th) \/ SelectWaits(th)
  \/ SleepEnds(th) \/ SleepWaits(th)

Program(th) ==
  \/ \E c \in Chans : CallSend(th, c) \/ CallRecv(th, c) \/ CallClose(th, c)
  \/ \E s \in Selects : CallSelect(th, s)
  \/ CallSleep(th)
  \/ \E c \in Timers : CallAfter(th, c)

Clock(th) == WaitTimesOut(th) \/ DeadlinePasses(th)

Next ==
  \/ \E th \in Threads : Step(th) \/ Program(th) \/ Clock(th)
  \/ \E c \in Timers : TimerFires(c)
  \/ CancelGroup

Spec == Init /\ [][Next]_vars

(* Threads run, time passes, and g_mu is given to whoever asks for it.      *)
(* Whether a program makes another call is its own affair.                  *)
FairSpec ==
  /\ Spec
  /\ \A th \in Threads : WF_vars(Step(th)) /\ WF_vars(WaitTimesOut(th))
                         /\ WF_vars(DeadlinePasses(th))

-----------------------------------------------------------------------------
(* Properties.  *)

(* The condition the call waits for holds, a sleep's deadline apart. *)
Ready(th) ==
  \/ call[th] = "send" /\ (closed[arg[th]] \/ GroupCancelled(th) \/ HasRoom(arg[th]))
  \/ call[th] = "handoff" /\ HandoffOver(th)
  \/ call[th] = "recv" /\ (count[arg[th]] > 0 \/ closed[arg[th]] \/ GroupCancelled(th))
  \/ call[th] = "select" /\ (ReadyCases(th) # {} \/ GroupCancelled(th))
  \/ call[th] = "sleep" /\ GroupCancelled(th)

(* No change is missed: a thread asleep on the monitor is waiting for       *)
(* something that is still not so.  The 20 ms poll of monitor_wait is for   *)
(* clocks alone, though wake_all skips the broadcast when g_waiters is 0.   *)
NoMissedWake == \A th \in Threads : waiting[th] = "asleep" => ~Ready(th)

(* g_waiters counts the threads inside monitor_wait. *)
WaitersExact == waiters = Cardinality({th \in Threads : waiting[th] # "no"})

Contents(c) == [i \in 1 .. count[c] |-> slot[c][(RingHead(c) + i - 1) % Slots(c)]]

(* The values in each channel, and what each thread's last receive gave it. *)
Queue == [c \in Chans |-> Contents(c)]

Got == [th \in Threads |->
          IF ret[th] # None /\ ret[th].how = "received"
          THEN [chan |-> ret[th].chan, value |-> ret[th].value]
          ELSE None]

Fifo ==
  INSTANCE FifoChannels
    WITH Readers <- Threads,
         Room <- [c \in Chans |-> Slots(c)],
         queue <- Queue,
         shut <- closed,
         got <- Got

(* Each value sent is received once, in order, and nothing enters a closed  *)
(* or full channel, whatever send, try_send, select and timers do at once.  *)
ImplementsFifo == Fifo!Spec

InChannel(c, v) == \E i \in 1 .. count[c] : Contents(c)[i] = v

(* An unbuffered send statement is over only when its value has been taken, *)
(* unless the channel was closed or the sender cancelled while it waited.   *)
(* (A send case of a select leaves the value in the slot and goes on.)      *)
SendStatementSynchronous ==
  \A th \in Threads :
    LET r == ret[th] IN
    r # None /\ r.how = "sent" /\ arg[th] \in Chans /\ Cap[r.chan] = 0 =>
      ~InChannel(r.chan, r.value) \/ closed[r.chan] \/ GroupCancelled(th)

(* "block until a receiver takes the value": and no longer. *)
HandoffEnds ==
  \A th \in Threads :
    call[th] = "handoff" /\ ~InChannel(arg[th], <<th, made[th]>>) ~> call[th] # "handoff"

On(th, c) == call[th] \in {"send", "handoff", "recv"} /\ arg[th] = c

(* Closing a channel lets go of everyone blocked on it, receivers once the  *)
(* values left in it are taken.                                             *)
CloseReleases ==
  \A th \in Threads, c \in Chans :
    (closed[c] /\ On(th, c)) ~> ~On(th, c)

(* "Blocking channel operations and time.sleep observe it": no worker stays *)
(* in a call once its group is cancelled.                                   *)
CancelReleases ==
  \A th \in Workers : (cancelled /\ call[th] # "idle") ~> call[th] = "idle"
=============================================================================
