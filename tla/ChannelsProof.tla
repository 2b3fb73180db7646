--------------------------- MODULE ChannelsProof ---------------------------
(***************************************************************************)
(* The monitor of Channels.tla, proved for any number of threads, channels *)
(* and select statements: g_waiters is exact, so wake_all may skip its     *)
(* broadcast, and no sleeping thread misses a change it waits for.         *)
(*                                                                         *)
(* The inductive invariant is Monitor: the two properties, the ranges the  *)
(* monitor's decisions rest on, and that only a thread inside a blocking   *)
(* call is ever counted as waiting.                                        *)
(***************************************************************************)
EXTENDS Channels, FiniteSetTheorems, TLAPS

Ranges ==
  /\ count \in [Chans -> Nat]
  /\ closed \in [Chans -> BOOLEAN]
  /\ cancelled \in BOOLEAN
  /\ call \in [Threads -> Calls]
  /\ arg \in [Threads -> Chans \cup Selects \cup {None}]
  /\ waiting \in [Threads -> {"no", "asleep", "awake"}]
  /\ waiters \in Int

(* The argument of a call is of the call's kind. *)
Arguments ==
  \A th \in Threads :
    /\ call[th] \in {"send", "handoff", "try", "recv", "close"} => arg[th] \in Chans
    /\ call[th] = "select" => arg[th] \in Selects

IdleNotWaiting == \A th \in Threads : call[th] = "idle" => waiting[th] = "no"

Monitor == Ranges /\ Arguments /\ IdleNotWaiting /\ WaitersExact /\ NoMissedWake

Inside == {u \in Threads : waiting[u] # "no"}

InsideBut(th) == {u \in Threads : waiting[u] # "no" /\ u # th}

-----------------------------------------------------------------------------
(* Counted from inside the monitor, the others are all who wait but me. *)
LEMMA OthersCounted ==
  ASSUME Ranges, WaitersExact, NEW th \in Threads, waiting[th] # "asleep"
  PROVE  /\ OtherWaiters(th) = Cardinality(InsideBut(th))
         /\ IsFiniteSet(InsideBut(th))
         /\ OtherWaiters(th) \in Nat
<1>1. IsFiniteSet(Inside)
  BY FS_Subset, ThreadAssumption DEF Inside
<1>2. waiters = Cardinality(Inside)
  BY DEF WaitersExact, Inside
<1>3. InsideBut(th) = Inside \ {th}
  BY DEF InsideBut, Inside
<1>4. IsFiniteSet(InsideBut(th)) /\ Cardinality(InsideBut(th)) \in Nat
  BY <1>1, <1>3, FS_Subset, FS_CardinalityType
<1>5. CASE waiting[th] = "awake"
  <2>1. th \in Inside
    BY <1>5 DEF Inside
  <2>2. Cardinality(InsideBut(th)) = Cardinality(Inside) - 1
    BY <1>1, <1>3, <2>1, FS_RemoveElement
  <2> QED BY <1>2, <1>4, <1>5, <2>2 DEF OtherWaiters
<1>6. CASE waiting[th] = "no"
  <2>1. InsideBut(th) = Inside
    BY <1>6 DEF InsideBut, Inside
  <2> QED BY <1>2, <1>4, <1>6, <2>1 DEF OtherWaiters
<1> QED BY <1>5, <1>6 DEF Ranges

(* If a thread other than th is asleep, th's wake_all does broadcast. *)
LEMMA SleeperCounted ==
  ASSUME Ranges, WaitersExact, NEW th \in Threads, waiting[th] # "asleep",
         NEW u \in Threads, u # th, waiting[u] = "asleep"
  PROVE  OtherWaiters(th) > 0
<1>1. u \in InsideBut(th)
  BY DEF InsideBut
<1>2. Cardinality(InsideBut(th)) # 0
  BY <1>1, OthersCounted, FS_EmptySet
<1> QED BY <1>2, OthersCounted

(* Leaving the monitor: the count stays exact; with wake_all nobody else is *)
(* left asleep.                                                             *)
LEMMA Leave ==
  ASSUME Ranges, WaitersExact, NEW th \in Threads, waiting[th] # "asleep",
         Unlock(th) \/ WakeAndUnlock(th)
  PROVE  /\ waiting' \in [Threads -> {"no", "asleep", "awake"}]
         /\ waiters' \in Int
         /\ WaitersExact'
         /\ waiting'[th] = "no"
         /\ \A u \in Threads \ {th} : waiting'[u] = "no" <=> waiting[u] = "no"
         /\ Unlock(th) => \A u \in Threads \ {th} : waiting'[u] = waiting[u]
         /\ WakeAndUnlock(th) => \A u \in Threads : waiting'[u] # "asleep"
<1>1. waiting' \in [Threads -> {"no", "asleep", "awake"}] /\ waiting'[th] = "no"
  BY DEF Unlock, WakeAndUnlock, Woken, Ranges
<1>2. \A u \in Threads \ {th} : waiting'[u] = "no" <=> waiting[u] = "no"
  BY DEF Unlock, WakeAndUnlock, Woken, Ranges
<1>3. waiters' = OtherWaiters(th)
  BY DEF Unlock, WakeAndUnlock
<1>4. {u \in Threads : waiting'[u] # "no"} = InsideBut(th)
  BY <1>1, <1>2 DEF InsideBut
<1>5. WaitersExact' /\ waiters' \in Int
  BY <1>3, <1>4, OthersCounted DEF WaitersExact
<1>6. Unlock(th) => \A u \in Threads \ {th} : waiting'[u] = waiting[u]
  BY DEF Unlock, Ranges
<1>7. ASSUME WakeAndUnlock(th), NEW u \in Threads
      PROVE  waiting'[u] # "asleep"
  <2>1. CASE u = th
    BY <2>1, <1>1
  <2>2. CASE u # th
    BY <2>2, <1>7, SleeperCounted DEF WakeAndUnlock, Woken, Ranges
  <2> QED BY <2>1, <2>2
<1> QED BY <1>1, <1>2, <1>5, <1>6, <1>7

(* Waiting in the monitor, likewise. *)
LEMMA Wait ==
  ASSUME Ranges, WaitersExact, NEW th \in Threads, waiting[th] # "asleep",
         MonitorWait(th) \/ WakeAndWait(th)
  PROVE  /\ waiting' \in [Threads -> {"no", "asleep", "awake"}]
         /\ waiters' \in Int
         /\ WaitersExact'
         /\ \A u \in Threads \ {th} : waiting'[u] = "no" <=> waiting[u] = "no"
         /\ MonitorWait(th) => \A u \in Threads \ {th} : waiting'[u] = waiting[u]
         /\ WakeAndWait(th) => \A u \in Threads \ {th} : waiting'[u] # "asleep"
<1>1. waiting' \in [Threads -> {"no", "asleep", "awake"}] /\ waiting'[th] = "asleep"
  BY DEF MonitorWait, WakeAndWait, Woken, Ranges
<1>2. \A u \in Threads \ {th} : waiting'[u] = "no" <=> waiting[u] = "no"
  BY DEF MonitorWait, WakeAndWait, Woken, Ranges
<1>3. waiters' = OtherWaiters(th) + 1
  BY DEF MonitorWait, WakeAndWait
<1>4. {u \in Threads : waiting'[u] # "no"} = InsideBut(th) \cup {th}
  BY <1>1, <1>2 DEF InsideBut
<1>5. th \notin InsideBut(th)
  BY DEF InsideBut
<1>6. Cardinality(InsideBut(th) \cup {th}) = Cardinality(InsideBut(th)) + 1
  BY <1>5, OthersCounted, FS_AddElement
<1>7. WaitersExact' /\ waiters' \in Int
  BY <1>3, <1>4, <1>6, OthersCounted DEF WaitersExact
<1>8. MonitorWait(th) => \A u \in Threads \ {th} : waiting'[u] = waiting[u]
  BY DEF MonitorWait, Ranges
<1>9. ASSUME WakeAndWait(th), NEW u \in Threads \ {th}
      PROVE  waiting'[u] # "asleep"
  BY <1>9, SleeperCounted DEF WakeAndWait, Woken, Ranges
<1> QED BY <1>1, <1>2, <1>7, <1>8, <1>9

-----------------------------------------------------------------------------
(* What a thread waits for is read off its call and the shared state. *)
LEMMA ReadyKept ==
  ASSUME NEW u \in Threads, count' = count, closed' = closed, cancelled' = cancelled,
         call'[u] = call[u], arg'[u] = arg[u]
  PROVE  Ready(u)' = Ready(u)
  BY DEF Ready, HasRoom, HandoffOver, GroupCancelled, ReadyCases, CaseReady

(* Only the call of one thread ended. *)
LEMMA OneDone ==
  ASSUME Monitor, NEW th \in Threads, Done(th), arg' = arg
  PROVE  /\ call' \in [Threads -> Calls]
         /\ Arguments'
         /\ \A u \in Threads \ {th} : call'[u] = call[u]
  BY DEF Monitor, Ranges, Calls, Arguments, Done

(* A call ends and changes nothing anyone waits for. *)
LEMMA QuietEnd ==
  ASSUME Monitor, NEW th \in Threads, waiting[th] # "asleep", Done(th), Unlock(th),
         arg' = arg, count' = count, closed' = closed, cancelled' = cancelled
  PROVE  Monitor'
<1> USE DEF Monitor
<1>1. Ranges' /\ Arguments' /\ WaitersExact'
  BY OneDone, Leave DEF Ranges
<1>2. IdleNotWaiting'
  BY OneDone, Leave DEF IdleNotWaiting
<1>3. ASSUME NEW u \in Threads, waiting'[u] = "asleep" PROVE ~Ready(u)'
  <2>1. u # th /\ waiting[u] = "asleep"
    BY <1>3, Leave
  <2> QED BY <2>1, OneDone, ReadyKept DEF NoMissedWake
<1> QED BY <1>1, <1>2, <1>3 DEF NoMissedWake

(* A call ends with a broadcast, whatever it changed in the channels. *)
LEMMA WakingEnd ==
  ASSUME Monitor, NEW th \in Threads, waiting[th] # "asleep", Done(th),
         WakeAndUnlock(th), arg' = arg, cancelled' = cancelled,
         count' \in [Chans -> Nat], closed' \in [Chans -> BOOLEAN]
  PROVE  Monitor'
<1> USE DEF Monitor
<1>1. Ranges' /\ Arguments' /\ WaitersExact'
  BY OneDone, Leave DEF Ranges
<1>2. IdleNotWaiting'
  BY OneDone, Leave DEF IdleNotWaiting
<1>3. NoMissedWake'
  BY Leave DEF NoMissedWake
<1> QED BY <1>1, <1>2, <1>3

(* A call waits for what is not so. *)
LEMMA Waits ==
  ASSUME Monitor, NEW th \in Threads, waiting[th] # "asleep", call[th] # "idle",
         ~Ready(th), MonitorWait(th), UNCHANGED <<chanVars, callVars, cancelled>>
  PROVE  Monitor'
<1> USE DEF Monitor, chanVars, callVars
<1>1. Ranges' /\ Arguments' /\ WaitersExact'
  BY Wait DEF Ranges, Arguments
<1>2. IdleNotWaiting'
  BY Wait DEF IdleNotWaiting
<1>3. ASSUME NEW u \in Threads, waiting'[u] = "asleep" PROVE ~Ready(u)'
  <2>1. u = th \/ waiting[u] = "asleep"
    BY <1>3, Wait
  <2>2. ~Ready(u)
    BY <2>1 DEF NoMissedWake
  <2> QED BY <2>2, ReadyKept
<1> QED BY <1>1, <1>2, <1>3 DEF NoMissedWake

-----------------------------------------------------------------------------
(* Taking and putting keep the counts natural numbers. *)
LEMMA CountsKept ==
  ASSUME Ranges, NEW c \in Chans
  PROVE  /\ TakeValue(c) /\ count[c] > 0 => count' \in [Chans -> Nat] /\ closed' = closed
         /\ \A v : PutValue(c, v) => /\ count' \in [Chans -> Nat] /\ closed' = closed
                                    /\ count'[c] # 0
  BY DEF Ranges, TakeValue, PutValue

(* The sends. *)
LEMMA SendSteps ==
  ASSUME Monitor, NEW th \in Threads,
         \/ SendRefused(th) \/ SendWaits(th) \/ SendPuts(th)
         \/ HandoffReturns(th) \/ HandoffWaits(th) \/ TrySend(th)
  PROVE  Monitor'
<1>1. CASE SendRefused(th)
  BY <1>1, QuietEnd DEF SendRefused, In, chanVars
<1>2. CASE SendWaits(th)
  BY <1>2, Waits DEF SendWaits, In, Ready
<1>3. CASE SendPuts(th)
  <2> DEFINE c == arg[th]
  <2>1. /\ In(th, "send") /\ c \in Chans /\ PutValue(c, held[th])
        /\ ~closed[c] /\ ~GroupCancelled(th)
        /\ arg' = arg /\ cancelled' = cancelled
    BY <1>3 DEF SendPuts, In, Monitor, Arguments
  <2>2. count' \in [Chans -> Nat] /\ closed' = closed /\ count'[c] # 0
    BY <2>1, CountsKept DEF Monitor
  <2>3. CASE ~Rendezvous(c)
    BY <1>3, <2>1, <2>2, <2>3, WakingEnd DEF SendPuts, In, Monitor, Ranges
  <2>4. CASE Rendezvous(c)
    <3>1. WakeAndWait(th) /\ call' = [call EXCEPT ![th] = "handoff"]
      BY <1>3, <2>4 DEF SendPuts
    <3>2. Ranges' /\ Arguments' /\ WaitersExact'
      BY <2>1, <2>2, <3>1, Wait DEF Monitor, Ranges, Arguments, Calls, In
    <3>3. IdleNotWaiting'
      BY <2>1, <3>1, Wait DEF Monitor, Ranges, IdleNotWaiting, In
    <3>4. ~Ready(th)'
      BY <2>1, <2>2, <3>1 DEF Monitor, Ranges, Ready, HandoffOver, GroupCancelled
    <3>5. NoMissedWake'
      BY <2>1, <3>1, <3>4, Wait DEF Monitor, NoMissedWake, In
    <3> QED BY <3>2, <3>3, <3>5 DEF Monitor
  <2> QED BY <2>3, <2>4
<1>4. CASE HandoffReturns(th)
  BY <1>4, QuietEnd DEF HandoffReturns, In, chanVars
<1>5. CASE HandoffWaits(th)
  BY <1>5, Waits DEF HandoffWaits, In, Ready
<1>6. CASE TrySend(th)
  <2> DEFINE c == arg[th]
  <2>1. /\ In(th, "try") /\ c \in Chans /\ Done(th)
        /\ arg' = arg /\ cancelled' = cancelled
    BY <1>6 DEF TrySend, In, Monitor, Arguments
  <2>2. CASE Unlock(th) /\ UNCHANGED chanVars
    BY <2>1, <2>2, QuietEnd DEF In, chanVars
  <2>3. CASE PutValue(c, held[th]) /\ WakeAndUnlock(th)
    BY <2>1, <2>3, CountsKept, WakingEnd DEF In, Monitor, Ranges
  <2> QED BY <1>6, <2>2, <2>3 DEF TrySend
<1> QED BY <1>1, <1>2, <1>3, <1>4, <1>5, <1>6

(* Receives and close. *)
LEMMA RecvSteps ==
  ASSUME Monitor, NEW th \in Threads,
         RecvTakes(th) \/ RecvEnds(th) \/ RecvWaits(th) \/ Close(th)
  PROVE  Monitor'
<1>1. CASE RecvTakes(th)
  BY <1>1, CountsKept, WakingEnd DEF RecvTakes, In, Monitor, Ranges, Arguments
<1>2. CASE RecvEnds(th)
  BY <1>2, QuietEnd DEF RecvEnds, In, chanVars
<1>3. CASE RecvWaits(th)
  BY <1>3, Waits DEF RecvWaits, In, Ready, Monitor, Ranges, Arguments
<1>4. CASE Close(th)
  <2>1. CASE closed[arg[th]]
    BY <1>4, <2>1, QuietEnd DEF Close, In
  <2>2. CASE ~closed[arg[th]]
    <3>1. closed' \in [Chans -> BOOLEAN] /\ count' = count
      BY <1>4, <2>2 DEF Close, Monitor, Ranges
    <3> QED BY <1>4, <2>2, <3>1, WakingEnd DEF Close, In, Monitor, Ranges
  <2> QED BY <2>1, <2>2
<1> QED BY <1>1, <1>2, <1>3, <1>4

(* An element of a sequence over S is in S. *)
LEMMA InSequence ==
  ASSUME NEW S, NEW seq \in Seq(S), NEW i \in DOMAIN seq
  PROVE  seq[i] \in S
  OBVIOUS

(* Select. *)
LEMMA SelectSteps ==
  ASSUME Monitor, NEW th \in Threads,
         SelectCase(th) \/ SelectNone(th) \/ SelectWaits(th)
  PROVE  Monitor'
<1>1. CASE SelectCase(th)
  <2>1. PICK i \in ReadyCases(th) :
          LET x == arg[th].cases[i] IN
          \/ x.dir = "recv" /\ count[x.chan] > 0 /\ TakeValue(x.chan) /\ WakeAndUnlock(th)
          \/ Unlock(th) /\ UNCHANGED chanVars
          \/ PutValue(x.chan, held[th]) /\ WakeAndUnlock(th)
    BY <1>1 DEF SelectCase
  <2> DEFINE x == arg[th].cases[i]
  <2>2. /\ In(th, "select") /\ Done(th) /\ arg' = arg /\ cancelled' = cancelled
    BY <1>1 DEF SelectCase
  <2>3. x.chan \in Chans
    <3>1. arg[th] \in Selects
      BY <2>2 DEF In, Monitor, Arguments
    <3>2. arg[th].cases \in Seq([dir : {"recv", "send"}, chan : Chans])
      BY <3>1, SelectAssumption
    <3>3. i \in DOMAIN arg[th].cases
      BY <2>1 DEF ReadyCases
    <3>4. x \in [dir : {"recv", "send"}, chan : Chans]
      BY <3>2, <3>3, InSequence
    <3> QED BY <3>4
  <2>4. CASE count[x.chan] > 0 /\ TakeValue(x.chan) /\ WakeAndUnlock(th)
    BY <2>2, <2>3, <2>4, CountsKept, WakingEnd DEF In, Monitor, Ranges
  <2>5. CASE Unlock(th) /\ UNCHANGED chanVars
    BY <2>2, <2>5, QuietEnd DEF In, chanVars
  <2>6. CASE PutValue(x.chan, held[th]) /\ WakeAndUnlock(th)
    BY <2>2, <2>3, <2>6, CountsKept, WakingEnd DEF In, Monitor, Ranges
  <2> QED BY <2>1, <2>4, <2>5, <2>6
<1>2. CASE SelectNone(th)
  BY <1>2, QuietEnd DEF SelectNone, In, chanVars
<1>3. CASE SelectWaits(th)
  BY <1>3, Waits DEF SelectWaits, In, Ready
<1> QED BY <1>1, <1>2, <1>3

(* Sleep, and the clock. *)
LEMMA SleepSteps ==
  ASSUME Monitor, NEW th \in Threads, SleepEnds(th) \/ SleepWaits(th) \/ Clock(th)
  PROVE  Monitor'
<1>1. CASE SleepEnds(th)
  BY <1>1, QuietEnd DEF SleepEnds, In, chanVars
<1>2. CASE SleepWaits(th)
  BY <1>2, Waits DEF SleepWaits, In, Ready
<1>3. CASE WaitTimesOut(th)
  <2>1. Ranges' /\ Arguments' /\ IdleNotWaiting'
    BY <1>3 DEF WaitTimesOut, chanVars, callVars, Monitor, Ranges, Arguments, IdleNotWaiting
  <2>2. {u \in Threads : waiting'[u] # "no"} = {u \in Threads : waiting[u] # "no"}
    BY <1>3 DEF WaitTimesOut, Monitor, Ranges
  <2>3. WaitersExact'
    BY <1>3, <2>2 DEF WaitTimesOut, Monitor, WaitersExact
  <2>4. ASSUME NEW u \in Threads, waiting'[u] = "asleep" PROVE ~Ready(u)'
    <3>1. waiting[u] = "asleep"
      BY <1>3, <2>4 DEF WaitTimesOut, Monitor, Ranges
    <3> QED BY <1>3, <3>1, ReadyKept DEF WaitTimesOut, chanVars, callVars, Monitor, NoMissedWake
  <2> QED BY <2>1, <2>3, <2>4 DEF Monitor, NoMissedWake
<1>4. CASE DeadlinePasses(th)
  <2>1. Ranges' /\ Arguments' /\ IdleNotWaiting' /\ WaitersExact'
    BY <1>4 DEF DeadlinePasses, chanVars, monitorVars, Monitor, Ranges, Arguments,
                IdleNotWaiting, WaitersExact
  <2>2. NoMissedWake'
    BY <1>4, ReadyKept DEF DeadlinePasses, chanVars, monitorVars, Monitor, NoMissedWake
  <2> QED BY <2>1, <2>2 DEF Monitor
<1> QED BY <1>1, <1>2, <1>3, <1>4 DEF Clock

(* The program makes a call. *)
LEMMA ProgramSteps ==
  ASSUME Monitor, NEW th \in Threads, Program(th)
  PROVE  Monitor'
<1>1. ASSUME NEW what \in Calls, NEW a \in Chans \cup Selects \cup {None}, Start(th, what, a),
             /\ what \in {"send", "handoff", "try", "recv", "close"} => a \in Chans
             /\ what = "select" => a \in Selects
      PROVE  Monitor'
  <2>1. waiting[th] = "no"
    BY <1>1 DEF Start, Monitor, IdleNotWaiting
  <2>2. Ranges' /\ Arguments' /\ WaitersExact'
    BY <1>1 DEF Start, chanVars, monitorVars, Monitor, Ranges, Arguments, WaitersExact
  <2>3. IdleNotWaiting'
    BY <1>1, <2>1 DEF Start, monitorVars, Monitor, Ranges, IdleNotWaiting
  <2>4. ASSUME NEW u \in Threads, waiting'[u] = "asleep" PROVE ~Ready(u)'
    <3>1. u # th /\ waiting[u] = "asleep"
      BY <1>1, <2>1, <2>4 DEF Start, monitorVars
    <3> QED BY <1>1, <3>1, ReadyKept
            DEF Start, chanVars, Monitor, Ranges, NoMissedWake
  <2> QED BY <2>2, <2>3, <2>4 DEF Monitor, NoMissedWake
<1>2. ASSUME NEW c \in Chans, CallSend(th, c) \/ CallRecv(th, c) \/ CallClose(th, c)
      PROVE  Monitor'
  BY <1>1, <1>2 DEF CallSend, CallRecv, CallClose, Calls
<1>3. ASSUME NEW s \in Selects, CallSelect(th, s)
      PROVE  Monitor'
  BY <1>1, <1>3 DEF CallSelect, Calls
<1>4. CASE CallSleep(th)
  BY <1>1, <1>4 DEF CallSleep, Calls
<1>5. ASSUME NEW c \in Timers, CallAfter(th, c)
      PROVE  Monitor'
  <2>1. Ranges' /\ Arguments' /\ IdleNotWaiting' /\ WaitersExact'
    BY <1>5 DEF CallAfter, chanVars, monitorVars, Monitor, Ranges, Arguments,
                IdleNotWaiting, WaitersExact
  <2>2. NoMissedWake'
    BY <1>5, ReadyKept DEF CallAfter, chanVars, monitorVars, Monitor, NoMissedWake
  <2> QED BY <2>1, <2>2 DEF Monitor
<1> QED BY <1>2, <1>3, <1>4, <1>5 DEF Program

(* A broadcast by someone who is never inside the monitor. *)
LEMMA Broadcast ==
  ASSUME Monitor, waiting' = Woken(waiters), UNCHANGED <<call, arg, waiters>>,
         count' \in [Chans -> Nat], closed' \in [Chans -> BOOLEAN], cancelled' \in BOOLEAN
  PROVE  Monitor'
<1>1. \A u \in Threads : waiting'[u] = "no" <=> waiting[u] = "no"
  BY DEF Woken, Monitor, Ranges
<1>2. Ranges' /\ Arguments' /\ IdleNotWaiting'
  BY <1>1 DEF Woken, Monitor, Ranges, Arguments, IdleNotWaiting
<1>3. {u \in Threads : waiting'[u] # "no"} = {u \in Threads : waiting[u] # "no"}
  BY <1>1
<1>4. WaitersExact'
  BY <1>3 DEF Monitor, WaitersExact
<1>5. ASSUME NEW u \in Threads PROVE waiting'[u] # "asleep"
  <2>1. SUFFICES ASSUME waiting[u] = "asleep" PROVE waiters > 0
    BY DEF Woken, Monitor, Ranges
  <2>2. u \in Inside
    BY <2>1 DEF Inside
  <2>3. IsFiniteSet(Inside) /\ Cardinality(Inside) # 0
    BY <2>2, FS_Subset, FS_EmptySet, ThreadAssumption DEF Inside
  <2> QED BY <2>3, FS_CardinalityType DEF Monitor, WaitersExact, Inside
<1> QED BY <1>2, <1>4, <1>5 DEF Monitor, NoMissedWake

(* Timers and cancellation, which come from outside the threads' calls. *)
LEMMA OutsideSteps ==
  ASSUME Monitor, CancelGroup \/ \E c \in Timers : TimerFires(c)
  PROVE  Monitor'
<1>1. CASE CancelGroup
  BY <1>1, Broadcast DEF CancelGroup, chanVars, callVars, Monitor, Ranges
<1>2. ASSUME NEW c \in Timers, TimerFires(c)
      PROVE  Monitor'
  <2>1. c \in Chans
    BY ChanAssumption
  <2>2. CASE PutValue(c, held[c]) /\ waiting' = Woken(waiters)
    BY <1>2, <2>1, <2>2, CountsKept, Broadcast DEF TimerFires, Monitor, Ranges
  <2>3. CASE UNCHANGED <<chanVars, waiting>>
    <3>1. Ranges' /\ Arguments' /\ IdleNotWaiting' /\ WaitersExact'
      BY <1>2, <2>3 DEF TimerFires, chanVars, Monitor, Ranges, Arguments,
                        IdleNotWaiting, WaitersExact
    <3>2. NoMissedWake'
      BY <1>2, <2>3, ReadyKept DEF TimerFires, chanVars, Monitor, NoMissedWake
    <3> QED BY <3>1, <3>2 DEF Monitor
  <2> QED BY <1>2, <2>2, <2>3 DEF TimerFires
<1> QED BY <1>1, <1>2

(* The monitor starts empty. *)
LEMMA InitMonitor == Init => Monitor
<1> SUFFICES ASSUME Init PROVE Monitor
  OBVIOUS
<1>1. /\ call = [th \in Threads |-> "idle"] /\ arg = [th \in Threads |-> None]
      /\ waiting = [th \in Threads |-> "no"] /\ waiters = 0
      /\ count = [c \in Chans |-> 0] /\ closed = [c \in Chans |-> FALSE]
      /\ cancelled = FALSE
  BY DEF Init
<1>2. Ranges
  <2>1. count \in [Chans -> Nat] /\ closed \in [Chans -> BOOLEAN] /\ cancelled \in BOOLEAN
    BY <1>1
  <2>2. call \in [Threads -> Calls]
    BY <1>1 DEF Calls
  <2>3. /\ arg \in [Threads -> Chans \cup Selects \cup {None}]
        /\ waiting \in [Threads -> {"no", "asleep", "awake"}]
        /\ waiters \in Int
    BY <1>1
  <2> QED BY <2>1, <2>2, <2>3 DEF Ranges
<1>3. Arguments /\ IdleNotWaiting /\ NoMissedWake
  BY <1>1 DEF Arguments, IdleNotWaiting, NoMissedWake
<1>4. {u \in Threads : waiting[u] # "no"} = {}
  BY <1>1
<1>5. WaitersExact
  BY <1>1, <1>4, FS_EmptySet DEF WaitersExact
<1> QED BY <1>2, <1>3, <1>5 DEF Monitor

(* A step that changes nothing keeps the invariant. *)
LEMMA StutterKeeps == Monitor /\ UNCHANGED vars => Monitor'
<1> SUFFICES ASSUME Monitor, UNCHANGED vars PROVE Monitor'
  OBVIOUS
<1>1. Ranges' /\ Arguments' /\ IdleNotWaiting' /\ WaitersExact'
  BY DEF vars, chanVars, callVars, monitorVars, Monitor, Ranges, Arguments,
         IdleNotWaiting, WaitersExact
<1>2. NoMissedWake'
  BY ReadyKept DEF vars, chanVars, callVars, monitorVars, Monitor, NoMissedWake
<1> QED BY <1>1, <1>2 DEF Monitor

(* Every step keeps the invariant. *)
LEMMA NextMonitor == Monitor /\ [Next]_vars => Monitor'
<1> SUFFICES ASSUME Monitor, [Next]_vars PROVE Monitor'
  OBVIOUS
<1>1. ASSUME NEW th \in Threads, Step(th) PROVE Monitor'
  BY <1>1, SendSteps, RecvSteps, SelectSteps, SleepSteps DEF Step
<1>2. ASSUME NEW th \in Threads, Program(th) PROVE Monitor'
  BY <1>2, ProgramSteps
<1>3. ASSUME NEW th \in Threads, Clock(th) PROVE Monitor'
  BY <1>3, SleepSteps
<1> QED BY <1>1, <1>2, <1>3, OutsideSteps, StutterKeeps DEF Next

-----------------------------------------------------------------------------
(* g_waiters is exactly the number of threads inside monitor_wait, so the   *)
(* broadcasts wake_all leaves out had nobody to wake.                       *)
THEOREM WaitersCounted == Spec => []WaitersExact
<1>1. Monitor => WaitersExact
  BY DEF Monitor
<1> QED BY <1>1, InitMonitor, NextMonitor, PTL DEF Spec

(* A thread asleep on the monitor waits for something still not so: no      *)
(* send, receive, close, select, timer or cancellation is missed, however   *)
(* many threads wait and whatever they wait for.                            *)
THEOREM NoWakeMissed == Spec => []NoMissedWake
<1>1. Monitor => NoMissedWake
  BY DEF Monitor
<1> QED BY <1>1, InitMonitor, NextMonitor, PTL DEF Spec
=============================================================================
