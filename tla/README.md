# Voilà: specifications of the runtime

TLA+ models of the parts of Voilà (a compiler written in Voilà, a runtime
written in C) whose correctness depends on what several threads do at once, the
TLC runs that check them, and TLAPS proofs about them. Paths below are those of
the repository.

## The system

| part | state it keeps | operations | how it meets the others |
|---|---|---|---|
| groups and tasks (`runtime/src/task.c`, `voila_int.h`) | `VlGroup` (live, cancelled, failure, suppressed, parent, deadline), `VlTask` (done, exc, result, group), `c->group` in each thread's context | `vl_group_begin`, `vl_group_end`, `vl_spawn_*`, `task_main`, `vl_await`, `group_fail`, `vl_check_cancelled` | the compiler emits the calls; a failure is thrown by `err.c`; cancellation is observed by channels |
| channels, select, sleep, timers (`task.c`) | `VlChan` ring, the monitor `g_mu`, `g_cv`, `g_waiters` | send, try_send, receive, iterate, close, select, sleep, `time.after` | every blocking call checks the group's cancellation; std/chan and std/sync are built on them |
| exceptions (`err.c`) | per thread: handler stack, frames with their defers, cleanup stack, the pending exception, recovery points | try/pop, throw, rethrow, defer, `vl_call_contained` | `longjmp`s past whatever code lies between |
| reference counts and frames (`value.c`) | counts, the count word of a captured frame, the deferred judgements, weak control blocks | retain, release, calls of closures, cycle judgement, weak upgrade | judged again when a task ends or a group is joined |
| SQLite connections (`ext/sqlite.c`, `std/sqlite/sqlite.voi`) | per connection the gate (`tx`, `owner`), SQLite's own transaction; per thread the list of transactions it holds | begin, commit, rollback, close, statements; a thread's exit | a task that dies in a transaction has it rolled back; reads `c->joining` of `task.c` |
| std/sync (`std/sync/sync.voi`, `sync.c`) | mutexes, atomics, `Once`, `WaitGroup` (count, shut, gate) | lock, with, add, wait, do | throws and cancellations unwind through them |
| std/chan (`std/chan/chan.voi`) | queues of a `tee`, the tasks of each stage | map, filter, merge, fan_out, tee, throttle … | tasks over channels |
| compiler (`voilac/`) | syntax trees, types, IR | load, lex, parse, check, lower, optimise, generate C | sequential; decides where `vl_group_end` and handler pops are called |
| module loader (`voilac/load/mod.voi`) | requirements | version selection | sequential |
| natives (`io.c`, `json.c`, `regex.c`, `dec.c`, `ext/*` …) | buffers, handles | conversions, system calls | mostly sequential and pure |

What is hard: tasks are OS threads, so any two of their steps interleave; one
monitor with polled waits carries all wake-ups; a failure, a timeout and a
normal end can race for one group; control leaves blocks by return, break,
throw and failing `try` expressions; groups are freed by one thread and walked
by others; a defer runs in the middle of an unwinding and may throw, catch and
be unwound itself; a frame and the closures over it hold each other and are freed
by whoever finds out, with one word of atomics; a database connection has one
transaction and many tasks. `PROJECT.json` lists each hazard at its line.

What makes each part correct: a group joins exactly its tasks and reports each
failure once; a context never names a freed group; a cancelled group ends; a
channel delivers each value once and in order, and a blocked call returns when
what it waits for comes about, or when it is closed or cancelled; an exception
runs each defer once and finds a handler that is still there; a frame is freed
when, and only when, nothing outside it can reach it; a transaction holds the
gate of its connection as long as it is open, and ends with its task; `Once` runs its function
to completion once; a `WaitGroup` releases its waiters and nobody early; a
pipeline loses nothing and ends.

## Modules

| module | what it is |
|---|---|
| `StructuredGroups` | what the documentation promises of a group block |
| `Tasks` | groups, tasks, failures, cancellation, timeouts, await |
| `TasksProof` | counts and contexts: theorems about `Tasks` |
| `GroupsProof` | failures, blocks, and groups keep their promise: theorems about `Tasks` |
| `MCTasks` | symmetry and bounds for the runs of `Tasks` |
| `FifoChannels` | what a channel promises |
| `Channels` | channels, select, sleep, timers and the monitor |
| `ChannelsProof` | theorems about the monitor in `Channels` |
| `FifoProof` | a ring implements what a channel promises: theorems about `Channels` |
| `MCChannels` | capacities, select statements and bounds for the runs of `Channels` |
| `Reclaim` | what the runtime promises of a captured frame |
| `FrameCycle` | the count word of a captured frame and the judgement that frees it |
| `FrameCycleProof` | theorems about `FrameCycle` |
| `MCFrameCycle` | the threads and closures of its run |
| `SqlGate` | the transaction gate of a shared database connection |
| `SqlGateProof` | theorems about `SqlGate` |
| `MCSqlGate` | the tasks and groups of its runs |
| `Unwind` | handlers, frames, defers, cleanups and recovery points of one thread |
| `UnwindProof` | the three stacks always match the C stack, defers run once: theorems about `Unwind` |
| `FaultProof` | faults are contained: a theorem about `Unwind` |
| `MCUnwind` | its runs |

Operators marked "Mutant" in a module are the faulty variants of the operator
that follows; nothing uses them but the check that each property can fail.

### Tasks

A *thread* is the main thread or a task's. Its `pc` says what it is doing:
running its program, blocked in a channel operation or sleep, in `vl_await`, in
the join loop of `vl_group_end` ("joining", or "exiting" when `vl_finish`
called it), or in the two steps of `task_main` after the body ("failing": about
to call `group_fail`; "finishing": about to set `done` and leave the group).
The program is arbitrary: a running thread may take any step a Voilà program
can take. `blocks` is the part of the program's text that matters, the try and
group blocks the thread is inside; a try block stands for its `VlHandler`.

Everything done in one critical section of `g_mu` is one action:
`vl_group_begin` is `GroupBegin`; the call of `vl_group_end` at the end of a
block, or on return, break or continue (`unwind_finallies` in the lowerer), is
`GroupEnd`, its loop `JoinTimeout` and `JoinDone`; `task_new` is `Spawn`;
`task_main` is `Start`, `Return` or a `Throw` with no handler left, `GroupFail`,
`Finish`; `vl_await` is `Await`, `AwaitDone`; every cancellation check is
`CancelPoint`. `JoinDone` covers what follows the loop as well, since no other
thread touches a group whose `live` is 0 (`FreedGroupHasNoTask` proves that).

`vl_throw` gives control to the innermost handler. Group blocks between it and
the thrower are left without `vl_group_end`; a failing `try` expression returns
from its function and does the same (`TryReturns`). `Escapes` says which of the
two a program does. A `try` expression that leaves a *try* block leaves the
block's handler installed and pointing into a dead stack frame; the next throw
is undefined. Such programs are not in the model. A flag read from a freed
group is arbitrary (`GroupCancelled`).

Not modelled: results of tasks, `failure_is_value`, exceptions' contents beyond
type and origin ("Boom" is any type but `Cancelled` and `Timeout`), and
`vl_abort` when a thread spawns with no group.

### Channels

A thread that is idle makes any call. An action is what a thread does between
taking `g_mu` and waiting on `g_cv` or releasing `g_mu`: for example
`vl_chan_send` is `SendRefused`, `SendWaits`, `SendPuts` and, on an unbuffered
channel, `HandoffWaits`, `HandoffReturns`. `waiting` says where a thread is in
`monitor_wait` ("asleep" on the condition variable; "awake" after a broadcast
or 20 ms and wanting `g_mu` back, still counted in `waiters`). The ring is
modelled with its indices; `Contents` reads it off as a sequence. Each value
sent is new, so that one lost, doubled or out of order shows. Threads in
`Workers` are in one group, cancelled at any moment (`CancelGroup`); how a group
comes to be cancelled is the subject of `Tasks`.

### FrameCycle

One frame, whose function runs on `Owner`. `word` is `f->frc` with its four
fields. A step is one atomic operation on it, or one access to another shared
location (`f->done`, `f->pending`, a register, a closure's count, the deferred
list); so `self_cycle_only` is `Judge`, `Arm`, a `Scan` per register, `Verdict`
and then `Reap` or `Again`, with `Ask` and `Recheck` when another thread judges
and `Defer` when a call is inside. Its retry loops after a failed
compare-and-swap are the same step taken again. `vl_release` of a closure is
`StartRelease` (it reads `done` and takes its hold), `Drop`, then a judgement or
`Unhold`, then `Drain`: the worklist `g_dead` on which a dying closure waits to
give its reference to the frame back. `Reap` is one step although the code
clears register by register: the flag is up, nobody else may look, and the
references it drops go one by one only in a word no verdict can stand on.

The program is arbitrary. A thread that holds a closure may call it, hand it to
another thread, drop it; code inside a call may load a closure from a register or
store one. Reading and storing a register are each one step, as they are under
the frame's lock. Of what `frame_free` does only the freeing matters: at count 0
no register holds a closure over this frame any more.

Two leaks are in the code and in the model. A closure held by two registers has
two holders, and `owned_refs` counts closures with one only (`HeldTwice`; the
source says as much of shared containers). And `vl_release` reads `done` before
it drops the closure: if the function returns in between, the release judges
nothing, and the function's own judgement still saw two holders (`missed`;
`frame_release_judged` avoids this very race, and says so in a comment).

### SqlGate

A call is three steps, since `gate_enter` and `gate_leave` release the gate's
lock: `Enter` (or `TakeGate` for begin), one of `Statement`, `EndTransaction`,
`Close`, `Begin`, and `Leave`. Each piece of work is one step, for SQLite runs
under the connection's own lock. SQLite's transaction (`open`) is its own: a
statement that fails badly (a conflict resolved by `ROLLBACK`, a full disk, an I/O
error, no memory) may roll it back, whoever runs it, so `Statement` may end it.
`gate_leave` reads autocommit after each call of the owner, and of nobody else: a
transaction that a stray call ends leaves the gate taken until the owner's next
call or its thread's exit, `Settle` being disabled by then. `Close` ends the
transaction at once only if no statement of the connection is alive; otherwise
`sqlite3_close_v2` keeps it, and `FinalizeLast` (`sq_finalize`, `st_free`) ends it.
`Live` is a transaction on a connection not closed. `strays` counts calls of others
that ran inside the owner's transaction, the one that ended it included, until the
gate opens or the owner ends the transaction itself. A thread commits only what it began (`InTransaction`)
and `Settle` is `settle`: `transaction` and every task's end roll back what is
left. `Join` and `Joined` are the two ends of `c->joining`; what else a join does
is in `Tasks`. A wait at the gate ends by `Enter`, `TakeGate` or `Refuse`, the
deadlock error. A program that begins or ends a transaction in SQL of its own
(`exec("BEGIN")`) is not seen by the gate and is left out of the model, and so is
the moment between the test for a closed connection and the use of a statement
(`live_st`): SQLite keeps the connection that long.

### Unwind

`cstack` is the C stack as unwinding sees it, one entry for a function, try
block, catch clause, `finally`, recovery point, native with a cleanup, call of a
defer, or delivery of a throw. The three stacks of the context (`handlers`,
`frames` with their pending defers, `cleanups`) point into it. A throw pushes an
entry on top of the code that threw, runs defers on top of that
(`UnwindRunsDefer`), pops frames (`UnwindPops`), and is delivered
(`DeliverToTry`, `DeliverToTryFinally`, `DeliverToRecoveryPoint`), which cuts the
C stack: `longjmp`. The handler of a throw stays the innermost one while its
defers run, so it is read off the stack (`Target`). A fault is an exception no
clause matches. A native's C code is reduced to its cleanup.

A `catch` clause of a try with a `finally` runs with the handler gone, so what it
throws skips that `finally`: the lowerer protects the body only, and the program
does the same when it is run, although the manual says a `finally` always runs.

## Runs

| run | instance | checks |
|---|---|---|
| `tasks_any` | 2 tasks, 2 groups and the root, one bounded step for each task and none for main; every program class but awaits of other groups' tasks | `LiveExact`, `JoinedTasksDone`, `ContextOpen`, `EveryFailureReported`; `ContextIsInnermostBlock`, `ChainOpen` |
| `tasks_structured` | 2 tasks, 1 group and the root; group bodies left by their end or a jump only, own tasks awaited | implements `StructuredGroups`; `CancelledGroupEnds` |
| `tasks_body_throws` | as above, with throws out of group bodies | *violates* `NoTaskOutlivesItsBlock` |
| `tasks_await` | as `tasks_structured`, any task awaited | *violates* `CancelledGroupEnds` |
| `channels_fifo` | 2 threads, one cancellable; capacity 2 and unbuffered; a select that receives from one and sends on the other | implements `FifoChannels`; `NoMissedWake`, `WaitersExact`, `SendStatementSynchronous` |
| `channels_release` | 2 threads; unbuffered and a timer's channel; a waiting and a polling select | `CloseReleases`, `CancelReleases` |
| `channels_handoff` | 2 threads, one unbuffered channel | *violates* `HandoffEnds` |
| `framecycle` | 2 threads, 2 closures, 2 registers, each thread in one call at a time, 3 holds at once | implements `Reclaim`; `WordExact`, `NoReadDuringCall`, `NothingLeftOfFreed`, `OnlyGarbageReaped`, `NoLeak` |
| `sqlgate` | main and 2 tasks, the second in a group nested in the first's, 2 calls each besides ending transactions | `GateExact`, `ListExact`, `NothingOutlivesItsThread`, `OnlyCallsInFlightStray`; `GateOpens` |
| `sqlgate_strays` | as above | *violates* `NoneRunsInside` |
| `unwind` | 4 calls and try blocks, 3 throws and faults, 2 defers, each with any program inside | `NothingDangles`, `StacksAgree`, `DefersRunOnce`, `RecoverExact`, `FaultIsContained` |
| `unwind_pending` | as above | *violates* `LatestThrowIsDelivered` |

The five violations are behaviour of the program, each reproduced by running a
small program:

* An exception thrown in a group body reaches the handler outside while the
  group's tasks run on, and the thread's context stays in the group it left.
* A task that awaits a task outside its own group is not cancelled.
* A sender on an unbuffered channel waits for the slot to be empty, not for its
  own value to be taken. A task that receives and then answers on the same
  channel fills the slot first, and both senders wait for ever.
* A database call that passed the gate just before another task's begin runs
  inside that task's transaction and is rolled back with it. That is the most
  that can happen: `OnlyCallsInFlightStray` bounds it to one call of each thread.
  If that call makes SQLite roll the transaction back, the gate stays taken
  although no transaction is open. `settle` sees none and does nothing, so
  `transaction` may return an error with every other task still waiting, until its
  task happens to use the connection again; and if its body goes on instead, the
  next statement runs, and stays, outside any transaction. Three tasks running a
  conflicting `INSERT OR ROLLBACK` beside transactions that give up show it within
  a few rounds. `GateExact` says that this is the only way in which an owner
  outside its calls holds the gate of an open connection for nothing.
* A defer run by an unwinding that throws and catches an exception of its own
  replaces `c->pending`, and the outer handler is given the exception that was
  caught already. A fault can so become an exception and the reverse, which is
  why `FaultIsContained` has the condition `~handled`.

`select` with a send case on an unbuffered channel does not wait for a receiver
at all: it leaves the value in the one slot. `SendStatementSynchronous` is
therefore about send statements only.

**Bounds.** `MaxOps` bounds, per thread, the try blocks, blocking calls and
awaits; each task is spawned and each group opened at most once. In `tasks_any`
main has none, so its exceptions end the process, but it may leave a group by
a failing `try`, and a task may open both groups, catch and go on. Two tasks are
needed for a first and a suppressed failure, for a failure racing a timeout and
for a task awaiting another; two groups besides the root for nesting and for a
context that must return to the middle of a line of groups. `MaxMade` bounds the
values a thread sends: with capacity 2, three values make the ring wrap while it
holds a value. Two threads let a wake-up be missed and a count drift; that no
more threads change this is proved rather than checked. `tasks_any` and the
violations leave deadlock unchecked where threads may block for ever or have
used their bounds up.

In `framecycle`, two closures make a cycle of more than one reference and let a
closure hold the other; two registers let one be read before and one after a
store; two threads let a judgement race a call, a release, a return and another
judgement. `MaxHolds` of 3 lets one judgement be deferred while two threads judge.
Each named leak, a garbage verdict that a call or release voids, a hand-over by
`pending` and a frame freed by each of its last holders happen within them. In
`sqlgate` two tasks in nested groups are what `deadlocked` walks; two calls let a
task die with a transaction it began. In `unwind` a defer that catches what it
throws inside another throw's unwinding, on its way to a second handler or a
recovery point, takes three entries, and four leave room for a call or block
around it; the proofs about it hold for any bounds. These runs end in states where all bounds are used up, so deadlock is
not checked; a program that is over stands still.

**Fairness.** In `Tasks`, each thread's runtime steps are weakly fair: threads
are OS threads, and a waiter polls every 20 ms, so a condition that stays true
is seen. That includes reaching the end of a block or a task's body: the claim
is about programs that end by themselves or meet a cancellation check. A wait
that nothing ends (`Unblock`) is not fair. In `Channels`, each thread in a call
gets `g_mu` again and again and its timed wait ends; whether the program makes
another call is not fair. In `SqlGate`, a thread's steps inside a call and at the
gate are fair (a wait looks again every 50 ms), and so is that a thread with
nothing else to do rolls back, joins its groups and ends; a task that sits in a
transaction for ever would hold the gate for ever. `FrameCycle` and `Unwind` make
no liveness claim. In the first, two judges can ask each other to look again for
ever if they run in exact lock-step, which weak fairness permits; `NoLeak` speaks
of the states in which nobody judges any more. The second is sequential and its
programs need not end. No strong fairness is assumed anywhere.

## Proofs

`TasksProof` proves, for any sets of tasks and groups and every program class,
`TypeOK`, `LiveExact`, `JoinedTasksDone` and that no living thread's `c->group`
is freed. `LiveExact` is inductive by itself; `JoinedTasksDone` is not: a freed
group stays without tasks only if nobody can spawn into it, that is, if no
living thread's context names it. That in turn is kept by `vl_group_end` only
because it frees the top of the thread's own line of open groups. `IInv` adds
`Context` (the context's group is open and the thread's own: pushed by it or the
one it was spawned in), `Nesting` (so is the parent of every open group of a
living thread) and `Linear` (two open groups of one thread never share a
parent, and none hangs from the context's group), so that no other group of
the thread is left hanging from the freed one. Groups left by a throw stay in
the line, which is why the theorems hold for such programs too.

`GroupsProof` goes on from `IInv`, for any tasks and groups.

* `EveryFailureReported`, in every program class. `Listed` says that what a
  group has recorded, first failure and suppressed ones together, is an
  enumeration of the tasks that failed in it: there is an `order`, without
  repetition, whose entries raised what the list has, in that order. `group_fail`
  appends one task to both. Cardinality follows by a bijection at the end only.
  That the list never starts with the group's own Timeout, which
  `vl_group_end` would make ambiguous, is `TimeoutEnded`: this exception comes to
  be when the group is freed, and then it has no task left that could raise it.
* `ContextOpen`, `ContextIsInnermostBlock` and `ChainOpen`, in every program
  class. `Placed` says that some assignment of depths to groups exists under
  which every group is one deeper than its parent (`Tree`), a living thread has
  at most one open group at each depth and its context's is the deepest
  (`Level`), and the group blocks on a thread's stack are open groups of its own,
  each deeper than the one before (`Stack`). A group left by a throw keeps its
  depth, so this survives such programs; a joined group is deeper than all blocks
  the thread is left in, so freeing it closes none of them. The depths
  are quantified, with one more than the context's for the group that
  `vl_group_begin` opens, and the walk along `g->parent` is the least set closed
  under parents: neither is a recursive function, which could not be reasoned about.
* The refinement of `StructuredGroups` and `NoTaskOutlivesItsBlock`, for programs
  in which no exception leaves a group body (`Escapes = {}`), the class the
  promise is made for. `Sheltered` (a handler stands between any two group
  blocks, and above each while the thread waits or joins) makes every throw
  stay inside the innermost group; with `Placed`, the group that
  `vl_group_end` ends is then the one of the block that ends, so no thread leaves a
  group open (`NoneLeft`) and a block is left exactly when its group is freed.
  The `order` of `Listed` is the witness for the listing that the promise asks
  for. `tasks_body_throws` shows that the hypothesis is needed.

`ChannelsProof` proves `WaitersExact` and `NoMissedWake` for any threads,
channels and selects. The two hold each other up: a sleeping thread implies
`g_waiters > 0` even after the thread inside has counted itself out
(`SleeperCounted`), hence `wake_all` does broadcast, hence whoever is still
asleep waits for something unchanged. `Monitor` adds that an idle thread is
never counted. So the 20 ms poll is needed for deadlines only.

`FifoProof` proves, from the same monitor, that `Channels` implements
`FifoChannels`: the initial states agree and each action is a send, a receive, a
close, the wake of a call or a stutter of the queues. It also proves `TypeOK` and
`SendStatementSynchronous`. `FifoInv` adds to `Monitor` the ring (`Ring`: head
and count in range, and the slots they name hold values, so that taking from the
head and adding past the end are `Tail` and `Append` of `Contents`; the two
lemmas on `%` say where an index wraps) and `Owners`: a thread holds a value just
as long as a call of it has one to send, and a call in progress has reported
nothing, which is why no value is sent or received twice.

`SqlGateProof` proves every safety property of `SqlGate` for any tasks, groups and
number of calls. None is inductive alone: that a gate held without a transaction
is inside its owner's begin, or at the end of the owner's call that ended it,
needs to know that nobody else is inside a begin, commit or rollback
(`CallsOfOwner`), and that a thread of which a call strayed is counted as long as
the gate is held (`HeldFor`, `StraysAreOut`); that a thread's list is complete
rests on `CallsOfOwner` in begin. The bound of one stray call per thread follows
from `StraysAreOut`: who strayed has the call behind it, is not the owner and
cannot pass the gate again before it opens, which holds even when its own call
ended the transaction. The model's bound `MaxOps` is any natural there.

`UnwindProof` proves `TypeOK`, `NothingDangles`, `StacksAgree`, `RecoverExact` and
`DefersRunOnce` for any number of calls, throws and defers. The inductive `Shape` lists, for each
of the three stacks, where it points (`Track`), that each entry of the C stack
that installed something is listed (`Cover`), and that the marks saved in a
handler cut frames and cleanups exactly where the handler lies (`Split`). Frames
are the exception: while a throw is unwinding, those between it and its handler
are popped although their C code is still there (`CoverOrUnwound`, with no
handler in between); delivering the throw cuts them off, and in a defer that
throws and catches inside the unwinding they stay missing. Every step pushes an
entry or cuts all four stacks at one place; with a lemma for each kind of push and
one for the cut (`CutTo`), an action is a few lines. The counts in `StacksAgree`
follow by a bijection between the indices of a list and the places it covers.
For `DefersRunOnce` the pending defers are the set of pairs of a frame and a
number up to its defers: `vl_defer` adds one pair and `run_defers` removes one
before the call, while a frame that is popped has none (`PendTop`, `PendPopped`).

`FaultProof` proves `FaultIsContained`. While no defer has caught its own throw
within an unwinding (`~handled`), the pending exception is the innermost throw's,
and below each fault that is being thrown, or kept by a `finally`, there is a
recovery point; a fault passes every try clause, so it meets that point.
`LatestThrowIsDelivered` is violated for the same reason that the condition is
needed.

`FrameCycleProof` proves every property of `FrameCycle`, and that it implements
`Reclaim`, for any threads, closures, registers and bounds. The counts are not
sums but cardinalities, so that no induction is needed: the calls of all threads
are the set of pairs of a thread and a number up to its calls (`Units`), and a
step adds or removes one pair. `IInv` has four parts.

* `Counted`: a closure's count is the number of its holders (registers, threads,
  threads about to drop it); with `WordExact` it is inductive, together with
  which thread has which local variables in use, and `FlagKeepsOut`: while the
  flag is up every call over the frame waits in `frame_enter`.
* `Scanned`: what a judge has found its own is still its own. No register is
  written while it reads (`FlagKeepsOut`), and a closure that one register alone
  holds can be given, loaded or dropped by nobody.
* `Reaping`: past a verdict of garbage, registers alone hold the closures.
  That the word is the one the flag was set on means that as many references are
  left as were counted: each is a distinct live closure's, `Scanned` says that as
  many live closures are the registers' own, so there are no others, and the
  function and all calls are over.
* `Owed`: if registers alone hold the closures and no closure was `missed`,
  there is an entry on the deferred list, or a thread that judges, is
  going to, or will look at `pending` before it stops. A step that can make
  registers the only holders (a drop to one, the function's last reference, the
  last closure of a worklist) leaves its thread such a judge. The end of a call
  does not, and need not: who finds a call inside puts the judgement on the list.
  A judge may give way only to a judge that will see `pending`, or whose count
  so far is complete.

The assumptions are those in the modules' `ASSUME`s: finitely many threads,
distinct constants (the value for nothing is no value, no exception and no
result; a select is not a channel), capacities and bounds that are naturals,
well-formed selects.

`ContextIsInnermostBlock` and `ChainOpen` are stated for states in which no
thread has left a group block without ending the group (`LeftOpen`): after such
a throw or failing `try` the parent may end first, and a task left behind walks
through a freed group.

Model-checked only: liveness under fairness (`CancelledGroupEnds`,
`CloseReleases`, `CancelReleases`, `GateOpens`), which is beyond the prover.
Every safety property of a passing run, and each of the three refinements, is
also proved.

## Plan

Done: `Tasks`, `Channels`, `FrameCycle`, `SqlGate`, `Unwind` with their runs, and
the proofs above. Next, in this order:

1. Proofs: the safety half of the liveness claims, that a cancelled thread in a
   wait, a join or a channel call always has its next step enabled by the state
   alone (a formula without `ENABLED`).
2. `FrameCycle` with weak upgrade against the last release, and a frame under the
   frame with the shallow judgement.
3. `Sync`: `Once` and `WaitGroup` over a mutex, atomics and a channel's close.
   `WaitGroup.add` looks at `shut` before it adds, so an add that starts before
   the last `done` and ends after it is not refused, although the comment at
   `std/sync/sync.voi:334` says that it is; it is then not waited for.
4. `Pipeline`: `tee_stage` over `FifoChannels`.
5. Pure algorithms: version selection (`load/mod.voi`) and the acyclicity check
   (`chk/acyclic.voi`) against reference definitions.

## Not modelled

std/sync and std/chan are not modelled: their hazards are listed, and what they
rest on (channels, cancellation, throws through them) is. Of `value.c`, weak
handles, the walk into containers, nested frames, address locks and the ordinary
counts are left out; of `sqlite.c`, statements and values. Programs in which a
failing `try` expression leaves a try block are undefined (the handler stays
installed in a dead C frame) and are left out of `Tasks` and `Unwind`.

Lexing, parsing, type inference, code generation, text, regex, JSON, decimal and
compression natives are data conversions compared with golden files; I/O,
processes and networks are system calls; BearSSL, miniz and SQLite are vendored.
`bootstrap/voilac.c`, three quarters of the repository's C, is the compiler
compiled by itself; the compiler's own source, the `.voi` files, is what a model
would be written from, and the parts of it that decide how blocks are left are in
`Tasks` and `Unwind`.
