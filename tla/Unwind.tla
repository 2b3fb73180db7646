------------------------------- MODULE Unwind -------------------------------
(***************************************************************************)
(* Exceptions, faults, defers and recovery points of one thread            *)
(* (runtime/src/err.c, value.c).  The runtime keeps three stacks beside    *)
(* the C stack: handlers, frames with their pending defers, and cleanups   *)
(* of natives.  All point into the C stack.  A throw unwinds frames and    *)
(* cleanups down to the innermost handler, running defers on the way, and  *)
(* cuts the C stack back to it; a defer runs on top of the throw that runs *)
(* it and may itself call, throw, catch and be unwound.                    *)
(*                                                                         *)
(* The program is arbitrary: code on top of the C stack takes any step a   *)
(* Voila function can take next.  It leaves try blocks by their end, by a  *)
(* throw or by a jump, which pops their handlers one by one as the end     *)
(* does (a failing try expression inside a try block does not: the program *)
(* is then undefined, and left out).                                       *)
(***************************************************************************)
EXTENDS Integers, Sequences, FiniteSets, SequencesExt

CONSTANTS
  MaxEntered,  \* bound: calls made and try blocks entered, defers' calls aside
  MaxThrows,   \* bound: exceptions and faults raised
  MaxDefers,   \* bound: defer statements executed
  None         \* no exception

ASSUME BoundAssumption == {MaxEntered, MaxThrows, MaxDefers} \subseteq Nat

(* An exception, or a fault: an abort raised under a recovery point. *)
Excs == [n : 1 .. MaxThrows, fault : BOOLEAN]

ASSUME NoneAssumption == None \notin Excs

VARIABLES
  cstack,    \* the C stack, as far as unwinding looks at it
  handlers,  \* c->handlers, innermost last
  frames,    \* c->frames, each with its number of pending defers
  cleanups,  \* c->cleanups
  pending,   \* c->pending
  recover,   \* c->recover
  ended,     \* how the thread ended, if it has
  entered,   \* how many calls have been made and try blocks entered
  raised,    \* how many exceptions and faults have been raised
  deferred,  \* how many defer statements have been executed
  ran,       \* history: how many defers have been run
  handled    \* history: something thrown by a defer of an unwinding was caught in it

vars == <<cstack, handlers, frames, cleanups, pending, recover, ended, entered, raised,
          deferred, ran, handled>>

(* Entries of the C stack: a function, and one that is returning; a try     *)
(* block without and with a finally; a catch clause before a finally; a     *)
(* finally, with what it throws on; a recovery point; a native with a       *)
(* cleanup registered; the call of a defer; a throw being delivered.        *)
Kinds == {"fn", "exit", "try", "tryf", "clause", "finally", "contain", "native", "defer",
          "throw"}

\* at: the entry of the C stack a handler, a frame or a cleanup points into.
TypeOK ==
  /\ cstack \in Seq([kind : Kinds, exc : Excs \cup {None}])
  /\ handlers \in Seq([at : Nat, frames : Nat, cleanups : Nat])
  /\ frames \in Seq([at : Nat, defers : Nat])
  /\ cleanups \in Seq(Nat)
  /\ pending \in Excs \cup {None}
  /\ recover \in Nat
  /\ ended \in {"no", "returned", "uncaught", "fatal"}
  /\ {entered, raised, deferred, ran} \subseteq Nat
  /\ handled \in BOOLEAN

Entry(kind)   == [kind |-> kind, exc |-> None]
Throwing(exc) == [kind |-> "throw", exc |-> exc]
Finally(exc)  == [kind |-> "finally", exc |-> exc]

Top   == Last(cstack)
Below == Front(cstack)

(* vl_frame_push by the function at entry i *)
NewFrame(i) == [at |-> i, defers |-> 0]

\* The thread's first function runs.
Init ==
  /\ cstack = <<Entry("fn")>>
  /\ handlers = <<>>
  /\ frames = <<NewFrame(1)>>
  /\ cleanups = <<>>
  /\ pending = None
  /\ recover = 0
  /\ ended = "no"
  /\ entered = 0 /\ raised = 0 /\ deferred = 0 /\ ran = 0
  /\ handled = FALSE

-----------------------------------------------------------------------------
(* The stacks.  *)

\* A handler installed by the next entry of the C stack.
(* vl_eh_prepare *)
Prepared == Append(handlers, [at |-> Len(cstack) + 1, frames |-> Len(frames),
                              cleanups |-> Len(cleanups)])

\* Frame and C stack after entries es were put on top, and a call made from there.
CallFrom(es) ==
  /\ entered < MaxEntered
  /\ entered' = entered + 1
  /\ cstack' = cstack \o es \o <<Entry("fn")>>

PushFrame(fs, es) == Append(fs, NewFrame(Len(cstack) + Len(es) + 1))

(* vl_throw and vl_throw_owned, up to throw_to: exc goes to the innermost of *)
(* the handlers hs, thrown by the topmost entry of the C stack cs. Without a *)
(* handler it is what print_uncaught, or the task's group, gets.             *)
Raise(exc, hs, cs) ==
  IF hs = <<>>
  THEN ended' = "uncaught" /\ pending' = exc /\ cstack' = cs
  ELSE pending' = exc /\ cstack' = Append(cs, Throwing(exc)) /\ UNCHANGED ended

-----------------------------------------------------------------------------
(* What a program does.  *)

Code == ended = "no" /\ Top.kind \in {"fn", "try", "tryf", "clause", "finally"}

Call ==
  /\ Code
  /\ CallFrom(<<>>)
  /\ frames' = PushFrame(frames, <<>>)
  /\ UNCHANGED <<handlers, cleanups, pending, recover, ended, raised, deferred, ran,
                 handled>>

(* A native (map, filter, sort...) that registers a cleanup and calls back *)
CallBack ==
  /\ Code
  /\ CallFrom(<<Entry("native")>>)
  /\ frames' = PushFrame(frames, <<1>>)
  /\ cleanups' = Append(cleanups, Len(cstack) + 1)
  /\ UNCHANGED <<handlers, pending, recover, ended, raised, deferred, ran,
                 handled>>

(* vl_call_contained *)
CallContained ==
  /\ Code
  /\ CallFrom(<<Entry("contain")>>)
  /\ recover' = recover + 1
  /\ handlers' = Prepared
  /\ frames' = PushFrame(frames, <<1>>)
  /\ UNCHANGED <<cleanups, pending, ended, raised, deferred, ran, handled>>

(* vl_defer *)
Defer ==
  /\ Code /\ deferred < MaxDefers
  /\ frames' = [frames EXCEPT ![Len(frames)].defers = @ + 1]
  /\ deferred' = deferred + 1
  /\ UNCHANGED <<cstack, handlers, cleanups, pending, recover, ended, entered, raised,
                 ran, handled>>

(* EHPUSH *)
EnterTry(kind) ==
  /\ Code /\ entered < MaxEntered
  /\ entered' = entered + 1
  /\ cstack' = Append(cstack, Entry(kind))
  /\ handlers' = Prepared
  /\ UNCHANGED <<frames, cleanups, pending, recover, ended, raised, deferred, ran,
                 handled>>

(* EHPOP; the finally follows *)
LeaveTry ==
  /\ ended = "no" /\ Top.kind \in {"try", "tryf"}
  /\ handlers' = Front(handlers)
  /\ cstack' = IF Top.kind = "try" THEN Below ELSE Append(Below, Finally(None))
  /\ UNCHANGED <<frames, cleanups, pending, recover, ended, entered, raised,
                 deferred, ran, handled>>

(* The end of a catch clause: the finally follows *)
LeaveClause ==
  /\ ended = "no" /\ Top.kind = "clause"
  /\ cstack' = Append(Below, Finally(None))
  /\ UNCHANGED <<handlers, frames, cleanups, pending, recover, ended, entered, raised,
                 deferred, ran, handled>>

(* The end of a finally: what came to it is thrown on *)
LeaveFinally ==
  /\ ended = "no" /\ Top.kind = "finally"
  /\ IF Top.exc = None
     THEN cstack' = Below /\ UNCHANGED <<pending, ended>>
     ELSE Raise(Top.exc, handlers, Below)
  /\ UNCHANGED <<handlers, frames, cleanups, recover, entered, raised, deferred, ran,
                 handled>>

MayRaise == Code /\ raised < MaxThrows

Throw ==
  /\ MayRaise
  /\ raised' = raised + 1
  /\ Raise([n |-> raised + 1, fault |-> FALSE], handlers, cstack)
  /\ UNCHANGED <<handlers, frames, cleanups, recover, entered, deferred, ran, handled>>

(* vl_fault: fatal outside a recovery point *)
Fault ==
  /\ MayRaise
  /\ raised' = raised + 1
  /\ IF recover > 0 /\ handlers # <<>>
     THEN Raise([n |-> raised + 1, fault |-> TRUE], handlers, cstack)
     ELSE ended' = "fatal" /\ UNCHANGED <<pending, cstack>>
  /\ UNCHANGED <<handlers, frames, cleanups, recover, entered, deferred, ran, handled>>

-----------------------------------------------------------------------------
(* Returning.  *)

(* run_defers: the newest pending defer of the top frame is taken off it,   *)
(* registered as a cleanup and called.                                      *)
RunDefer ==
  /\ Last(frames).defers > 0
  /\ cstack' = cstack \o <<Entry("defer"), Entry("fn")>>
  /\ frames' = Append([frames EXCEPT ![Len(frames)].defers = @ - 1], NewFrame(Len(cstack) + 2))
  /\ cleanups' = Append(cleanups, Len(cstack) + 1)
  /\ ran' = ran + 1
  /\ UNCHANGED <<handlers, pending, recover, ended, entered, raised, deferred,
                 handled>>

StartReturn ==
  /\ ended = "no" /\ Top.kind = "fn"
  /\ cstack' = Append(Below, Entry("exit"))
  /\ UNCHANGED <<handlers, frames, cleanups, pending, recover, ended, entered, raised,
                 deferred, ran, handled>>

ReturnRunsDefer == ended = "no" /\ Top.kind = "exit" /\ RunDefer

(* vl_frame_pop_run_defers, its defers run; vl_frame_release *)
Return ==
  /\ ended = "no" /\ Top.kind = "exit" /\ Last(frames).defers = 0
  /\ frames' = Front(frames)
  /\ cstack' = Below
  /\ ended' = IF Below = <<>> THEN "returned" ELSE "no"
  /\ UNCHANGED <<handlers, cleanups, pending, recover, entered, raised, deferred, ran,
                 handled>>

(* vl_cleanup_to, in a native or run_defers, after the call *)
CallBackReturned ==
  /\ ended = "no" /\ Top.kind \in {"native", "defer"}
  /\ cstack' = Below
  /\ cleanups' = Front(cleanups)
  /\ UNCHANGED <<handlers, frames, pending, recover, ended, entered, raised,
                 deferred, ran, handled>>

(* vl_call_contained, after the call *)
ContainedReturned ==
  /\ ended = "no" /\ Top.kind = "contain"
  /\ cstack' = Below
  /\ handlers' = Front(handlers)
  /\ recover' = recover - 1
  /\ UNCHANGED <<frames, cleanups, pending, ended, entered, raised, deferred, ran, handled>>

-----------------------------------------------------------------------------
(* throw_to.  The handler it delivers to, still installed, is the innermost: *)
(* what a defer installs on top it also takes off.                           *)

Unwinding == ended = "no" /\ Top.kind = "throw"
Target    == Last(handlers)

FramesAbove == Len(frames) > Target.frames

\* Mutant of FrameLeft: a frame is popped before its last defer runs.
FrameLeftEarly == Last(frames).defers <= 1

FrameLeft == Last(frames).defers = 0

(* vl_unwind_to *)
UnwindRunsDefer == Unwinding /\ FramesAbove /\ ~FrameLeft /\ RunDefer

(* vl_unwind_to, the top frame's defers run: popped, cleared, released *)
UnwindPops ==
  /\ Unwinding /\ FramesAbove /\ FrameLeft
  /\ frames' = Front(frames)
  /\ UNCHANGED <<cstack, handlers, cleanups, pending, recover, ended, entered, raised,
                 deferred, ran, handled>>

\* Mutant of CleanupsLeft: the cleanups are left where they are.
AllCleanups == cleanups

(* cleanup_unwind: what is registered above the handler's mark is undone *)
CleanupsLeft == SubSeq(cleanups, 1, Target.cleanups)

\* The C stack up to and without the entry the handler is in: longjmp.
StackLeft == SubSeq(cstack, 1, Target.at - 1)

\* A throw under which another one is unwinding was delivered.
HandledInside == handled \/ \E i \in 1 .. Len(StackLeft) : StackLeft[i].kind = "throw"

Deliver(kind) ==
  /\ Unwinding /\ ~FramesAbove /\ cstack[Target.at].kind = kind
  /\ cleanups' = CleanupsLeft
  /\ handlers' = Front(handlers)
  /\ handled' = HandledInside
  /\ UNCHANGED <<frames, entered, raised, deferred, ran>>

(* vl_eh_current: a clause may match an exception; a fault, and what no *)
(* clause matches, is thrown on.                                        *)
DeliverToTry ==
  /\ Deliver("try")
  /\ \/ ~pending.fault /\ cstack' = StackLeft /\ UNCHANGED <<pending, ended>>
     \/ Raise(pending, Front(handlers), StackLeft)
  /\ UNCHANGED recover

(* vl_eh_pending: the finally is run in any case, unless the clause throws *)
DeliverToTryFinally ==
  /\ Deliver("tryf")
  /\ \/ ~pending.fault /\ cstack' = Append(StackLeft, Entry("clause"))
     \/ cstack' = Append(StackLeft, Finally(pending))
  /\ UNCHANGED <<pending, recover, ended>>

\* Mutant of PointLeft: only a call that returns takes its recovery point away.
PointStays == recover

\* Mutant of PointLeft: both the throw and the return take it away.
PointLeftTwice == recover - 2

PointLeft == recover - 1

(* vl_call_contained: a fault becomes an error value, an exception goes on *)
DeliverToRecoveryPoint ==
  /\ Deliver("contain")
  /\ recover' = PointLeft
  /\ IF pending.fault
     THEN cstack' = StackLeft /\ UNCHANGED <<pending, ended>>
     ELSE Raise(pending, Front(handlers), StackLeft)

-----------------------------------------------------------------------------
Unwinds ==
  \/ UnwindRunsDefer \/ UnwindPops
  \/ DeliverToTry \/ DeliverToTryFinally \/ DeliverToRecoveryPoint

Next ==
  \/ Call \/ CallBack \/ CallContained \/ Defer
  \/ \E kind \in {"try", "tryf"} : EnterTry(kind)
  \/ LeaveTry \/ LeaveClause \/ LeaveFinally \/ Throw \/ Fault
  \/ StartReturn \/ ReturnRunsDefer \/ Return \/ CallBackReturned \/ ContainedReturned
  \/ Unwinds

Spec == Init /\ [][Next]_vars

-----------------------------------------------------------------------------
Increasing(s) == \A i, j \in 1 .. Len(s) : i < j => s[i] < s[j]
Ats(s)        == [i \in 1 .. Len(s) |-> s[i].at]

\* Every handler, frame and cleanup points into a part of the C stack that
\* exists, to an entry that installed it and in the order of the stack: nothing
\* outlives the C frame it lives in, whatever threw, returned or was abandoned.
NothingDangles ==
  /\ Increasing(Ats(handlers)) /\ Increasing(Ats(frames)) /\ Increasing(cleanups)
  /\ \A i \in 1 .. Len(handlers) :
       /\ handlers[i].at <= Len(cstack)
       /\ cstack[handlers[i].at].kind \in {"try", "tryf", "contain"}
       /\ handlers[i].frames <= Len(frames) /\ handlers[i].cleanups <= Len(cleanups)
  /\ \A i \in 1 .. Len(frames) :
       frames[i].at <= Len(cstack) /\ cstack[frames[i].at].kind \in {"fn", "exit"}
  /\ \A i \in 1 .. Len(cleanups) :
       cleanups[i] <= Len(cstack) /\ cstack[cleanups[i]].kind \in {"native", "defer"}

CountOf(kinds) == Cardinality({i \in 1 .. Len(cstack) : cstack[i].kind \in kinds})

\* When nothing is being thrown, the three stacks have exactly what the C stack
\* has: no frame, handler or cleanup was forgotten by an unwinding, and none
\* was taken off twice.
StacksAgree ==
  (ended = "no" /\ CountOf({"throw"}) = 0) =>
    /\ Len(frames) = CountOf({"fn", "exit"})
    /\ Len(handlers) = CountOf({"try", "tryf", "contain"})
    /\ Len(cleanups) = CountOf({"native", "defer"})

\* The defers pending on each frame.
PendingDefers == UNION {{i} \X (1 .. frames[i].defers) : i \in 1 .. Len(frames)}

\* Every defer statement executed is still pending on a frame or has been run,
\* once, also when defers throw while the frame is being unwound.
DefersRunOnce == ended = "no" => deferred = ran + Cardinality(PendingDefers)

\* recover counts the recovery points on the C stack, however they are left.
RecoverExact == recover = CountOf({"contain"})

\* What print_uncaught calls impossible: a fault reaches no end of the thread,
\* it is contained. (But see LatestThrowIsDelivered.)
FaultIsContained == ended = "uncaught" /\ pending.fault => handled

\* What throw_to says: what is delivered to a handler is the exception in
\* flight or a later one a defer has thrown to the same handler.
LatestThrowIsDelivered == Unwinding /\ ~FramesAbove => pending = Top.exc
=============================================================================
