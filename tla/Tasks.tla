------------------------------- MODULE Tasks -------------------------------
(***************************************************************************)
(* Structured concurrency in the runtime of Voila (runtime/src/task.c):    *)
(* groups, the tasks spawned in them, failure, cancellation, timeouts, and *)
(* the unwinding of exceptions through group blocks.                       *)
(*                                                                         *)
(* A thread is the program's main thread or the operating-system thread of *)
(* a task.  Its program is arbitrary: while its pc is "run" it may take    *)
(* any step a Voila program can take next.  Everything the runtime does    *)
(* under its global monitor g_mu is one action; a waiter of that monitor   *)
(* re-checks its condition at least every 20 ms, so waiting is an action   *)
(* whose guard is the condition waited for.                                *)
(***************************************************************************)
EXTENDS Integers, Sequences, FiniteSets

CONSTANTS
  Main,      \* the main thread
  Tasks,     \* the tasks a program may spawn, each at most once
  Groups,    \* the groups a program may open, each at most once
  Root,      \* the implicit group vl_init opens around main
  None,      \* NULL, nil: no group, no task, no exception
  MaxOps,    \* bound: try blocks, cancellable waits and awaits of each thread
  Escapes,   \* program class: how control may leave a group body other than
             \* by its end or a jump: by a "throw", by a failing "try" expression
  OwnAwait   \* program class: a thread awaits only tasks of its own groups

ASSUME ThreadAssumption == Main \notin Tasks /\ IsFiniteSet(Tasks)
ASSUME GroupAssumption  == Root \in Groups /\ IsFiniteSet(Groups) /\ "try" \notin Groups
ASSUME NoneAssumption   == None \notin Groups /\ None \notin Tasks /\ None # Main
ASSUME BoundAssumption  == MaxOps \in [{Main} \cup Tasks -> Nat]
ASSUME ClassAssumption  == Escapes \subseteq {"throw", "try"} /\ OwnAwait \in BOOLEAN

Threads == {Main} \cup Tasks

(* An exception is its type and what raised it.  Boom stands for every type *)
(* a program declares; only Cancelled and Timeout mean anything to a group. *)
Excs == ({"Boom", "Cancelled"} \X Threads) \cup ({"Timeout"} \X Groups)

\* Nil is no exception, and no result of a task.
ASSUME ExcAssumption == None \notin Excs \cup ({"ok"} \X Tasks)

Try == "try"

VARIABLES
  \* per thread: VlCtx, and the program text around its next step
  pc,          \* what the thread is doing
  ctxGroup,    \* c->group: the group spawn and cancellation checks use
  blocks,      \* the try and group blocks the thread is lexically inside
  awaits,      \* the task an await waits for
  ops,         \* how many bounded steps the thread has taken
  \* per task: VlTask
  taskGroup,   \* t->group
  exc,         \* t->exc: what await rethrows
  raised,      \* what the task handed to group_fail
  \* per group: VlGroup
  gstate,      \* not yet allocated, allocated, freed
  owner,       \* the thread whose context the group was pushed on
  parent,      \* g->parent
  live,        \* g->live
  cancelled,   \* g->cancelled
  failure,     \* g->failure
  suppressed,  \* g->suppressed
  deadline,    \* g->deadline_ns against the clock
  timedOut,    \* timed_out, the local of the vl_group_end joining the group
  outcome      \* what the end of the block delivered

threadVars == <<pc, ctxGroup, blocks, awaits, ops>>
taskVars   == <<taskGroup, exc, raised>>
groupVars  == <<gstate, owner, parent, live, cancelled, failure, suppressed,
                deadline, timedOut, outcome>>
vars       == <<threadVars, taskVars, groupVars>>

PCs == {"unborn", "created", "run", "blocked", "await", "joining",
        "failing", "finishing", "done", "exiting", "exited", "crashed"}

Outcomes == [exc : Excs \cup {None}, suppressed : Seq(Excs)]

TypeOK ==
  /\ pc \in [Threads -> PCs]
  /\ ctxGroup \in [Threads -> Groups \cup {None}]
  /\ blocks \in [Threads -> Seq(Groups \cup {Try})]
  /\ awaits \in [Threads -> Tasks \cup {None}]
  /\ ops \in [Threads -> Nat] /\ \A th \in Threads : ops[th] <= MaxOps[th]
  /\ taskGroup \in [Tasks -> Groups \cup {None}]
  /\ exc \in [Tasks -> Excs \cup {None}]
  /\ raised \in [Tasks -> Excs \cup {None}]
  /\ gstate \in [Groups -> {"unused", "open", "freed"}]
  /\ owner \in [Groups -> Threads \cup {None}]
  /\ parent \in [Groups -> Groups \cup {None}]
  /\ live \in [Groups -> Nat]
  /\ cancelled \in [Groups -> BOOLEAN]
  /\ failure \in [Groups -> Excs \cup {None}]
  /\ suppressed \in [Groups -> Seq(Excs)]
  /\ deadline \in [Groups -> {"none", "armed", "passed"}]
  /\ timedOut \in [Groups -> BOOLEAN]
  /\ outcome \in [Groups -> Outcomes \cup {None}]

(* vl_init has opened the root group; main is about to run. *)
Init ==
  /\ pc = [th \in Threads |-> IF th = Main THEN "run" ELSE "unborn"]
  /\ ctxGroup = [th \in Threads |-> IF th = Main THEN Root ELSE None]
  /\ blocks = [th \in Threads |-> <<>>]
  /\ awaits = [th \in Threads |-> None]
  /\ ops = [th \in Threads |-> 0]
  /\ taskGroup = [t \in Tasks |-> None]
  /\ exc = [t \in Tasks |-> None]
  /\ raised = [t \in Tasks |-> None]
  /\ gstate = [g \in Groups |-> IF g = Root THEN "open" ELSE "unused"]
  /\ owner = [g \in Groups |-> IF g = Root THEN Main ELSE None]
  /\ parent = [g \in Groups |-> None]
  /\ live = [g \in Groups |-> 0]
  /\ cancelled = [g \in Groups |-> FALSE]
  /\ failure = [g \in Groups |-> None]
  /\ suppressed = [g \in Groups |-> <<>>]
  /\ deadline = [g \in Groups |-> "none"]
  /\ timedOut = [g \in Groups |-> FALSE]
  /\ outcome = [g \in Groups |-> None]

-----------------------------------------------------------------------------
(* The groups a walk along g->parent visits: those in every set of groups   *)
(* that has g and, with a group, its parent.                                *)
Chain(g) ==
  LET Closed(S) == g \in S \cup {None} /\ \A a \in S : parent[a] \in S \cup {None}
  IN  {a \in Groups : \A S \in SUBSET Groups : Closed(S) => a \in S}

(* Mutant: the check looks at the group alone. *)
CancelledHere(g) == cancelled[g]

(* The flag of a group that has been freed reads as anything: the guard     *)
(* lets the check succeed, and no step requires that it fails.              *)
GroupCancelled(g) == \E a \in Chain(g) : cancelled[a] \/ gstate[a] = "freed"

(* A task that has been counted into its group and has not left it. *)
Pending(t) == pc[t] \notin {"unborn", "done"}

Members(g) == {t \in Tasks : taskGroup[t] = g}

Handlers(th) == {i \in DOMAIN blocks[th] : blocks[th][i] = Try}

(* In a program whose exceptions leave no group body, every step that may   *)
(* throw stands where a handler is nearer than any group block.             *)
Covered(th) ==
  "throw" \notin Escapes =>
             \A i \in DOMAIN blocks[th] :
               blocks[th][i] # Try => \E j \in Handlers(th) : j > i

(* vl_throw: control goes to the innermost handler.  The group blocks it    *)
(* leaves are not ended and c->group keeps its value.  A task's outermost   *)
(* handler is in task_main; main has none and the process exits.            *)
Throw(th, e) ==
  \/ \E i \in Handlers(th) :
       /\ \A j \in Handlers(th) : j <= i
       /\ pc' = [pc EXCEPT ![th] = "run"]
       /\ blocks' = [blocks EXCEPT ![th] = SubSeq(@, 1, i - 1)]
       /\ UNCHANGED <<exc, raised>>
  \/ /\ Handlers(th) = {}
     /\ blocks' = [blocks EXCEPT ![th] = <<>>]
     /\ \/ /\ th = Main
           /\ pc' = [pc EXCEPT ![th] = "crashed"]
           /\ UNCHANGED <<exc, raised>>
        \/ /\ th \in Tasks
           /\ pc' = [pc EXCEPT ![th] = "failing"]
           /\ exc' = [exc EXCEPT ![th] = e]
           /\ raised' = [raised EXCEPT ![th] = e]

-----------------------------------------------------------------------------
(* The threads die with the process: when main returns from vl_finish, or   *)
(* an exception leaves main.                                                *)
ProcessUp == pc[Main] \notin {"exited", "crashed"}

At(th, label) == ProcessUp /\ pc[th] = label

(* Steps of the program.  *)

Budget(th) == /\ ops[th] < MaxOps[th]
              /\ ops' = [ops EXCEPT ![th] = @ + 1]

EnterTry(th) ==
  /\ At(th, "run")
  /\ Budget(th)
  /\ blocks' = [blocks EXCEPT ![th] = Append(@, Try)]
  /\ UNCHANGED <<pc, ctxGroup, awaits, taskVars, groupVars>>

InnermostBlock(th) == blocks[th][Len(blocks[th])]

Inside(th) == Len(blocks[th]) > 0

LeaveTry(th) ==
  /\ At(th, "run")
  /\ Inside(th) /\ InnermostBlock(th) = Try
  /\ blocks' = [blocks EXCEPT ![th] = SubSeq(@, 1, Len(@) - 1)]
  /\ UNCHANGED <<pc, ctxGroup, awaits, ops, taskVars, groupVars>>

(* `try expr` with a failing expr, or a `try group` that has failed, returns *)
(* from the function at once: the group blocks left are not ended and       *)
(* c->group keeps its value.  (The handlers of try blocks left this way stay *)
(* installed; programs that do that are left out.)                          *)
TryReturns(th) ==
  /\ At(th, "run")
  /\ "try" \in Escapes
  /\ Inside(th) /\ InnermostBlock(th) # Try
  /\ blocks' = [blocks EXCEPT ![th] = SubSeq(@, 1, Len(@) - 1)]
  /\ UNCHANGED <<pc, ctxGroup, awaits, ops, taskVars, groupVars>>

UserThrow(th) ==
  /\ At(th, "run")
  /\ Covered(th)
  /\ Throw(th, <<"Boom", th>>)
  /\ UNCHANGED <<ctxGroup, awaits, ops, taskGroup, groupVars>>

(* A channel operation, a select or a sleep that has to wait ... *)
Block(th) ==
  /\ At(th, "run")
  /\ Covered(th)
  /\ Budget(th)
  /\ pc' = [pc EXCEPT ![th] = "blocked"]
  /\ UNCHANGED <<ctxGroup, blocks, awaits, taskVars, groupVars>>

(* ... ends because what it waits for came about, if ever, ... *)
Unblock(th) ==
  /\ At(th, "blocked")
  /\ pc' = [pc EXCEPT ![th] = "run"]
  /\ UNCHANGED <<ctxGroup, blocks, awaits, ops, taskVars, groupVars>>

(* ... or because the group, or one around it, is cancelled.  A running     *)
(* thread meets the same check at loop back-edges.                          *)
CancelPoint(th) ==
  /\ \/ At(th, "blocked")
     \/ At(th, "run") /\ Covered(th)
  /\ GroupCancelled(ctxGroup[th])
  /\ Throw(th, <<"Cancelled", th>>)
  /\ UNCHANGED <<ctxGroup, awaits, ops, taskGroup, groupVars>>

-----------------------------------------------------------------------------
(* Groups.  *)

(* vl_group_begin; timed says whether the block has a timeout. *)
GroupBegin(th, g, timed) ==
  /\ At(th, "run")
  /\ Covered(th)
  /\ gstate[g] = "unused"
  /\ gstate' = [gstate EXCEPT ![g] = "open"]
  /\ owner' = [owner EXCEPT ![g] = th]
  /\ parent' = [parent EXCEPT ![g] = ctxGroup[th]]
  /\ deadline' = [deadline EXCEPT ![g] = IF timed THEN "armed" ELSE "none"]
  /\ ctxGroup' = [ctxGroup EXCEPT ![th] = g]
  /\ blocks' = [blocks EXCEPT ![th] = Append(@, g)]
  /\ UNCHANGED <<pc, awaits, ops, taskVars, live, cancelled, failure,
                 suppressed, timedOut, outcome>>

(* Control reaches the end of a group block, or leaves it by return, break  *)
(* or continue: vl_group_end is called, and ends whatever group the context *)
(* holds.  vl_finish does the same when main has returned.                  *)
GroupEnd(th) ==
  /\ At(th, "run")
  /\ \/ /\ Inside(th) /\ InnermostBlock(th) # Try
        /\ blocks' = [blocks EXCEPT ![th] = SubSeq(@, 1, Len(@) - 1)]
        /\ pc' = [pc EXCEPT ![th] = "joining"]
     \/ /\ th = Main /\ ~Inside(th)
        /\ pc' = [pc EXCEPT ![th] = "exiting"]
        /\ UNCHANGED blocks
  /\ UNCHANGED <<ctxGroup, awaits, ops, taskVars, groupVars>>

Joining(th) ==
  /\ At(th, "joining") \/ At(th, "exiting")
  /\ ctxGroup[th] # None

DeadlinePasses(g) ==
  /\ ProcessUp
  /\ gstate[g] = "open" /\ deadline[g] = "armed"
  /\ deadline' = [deadline EXCEPT ![g] = "passed"]
  /\ UNCHANGED <<threadVars, taskVars, gstate, owner, parent, live, cancelled,
                 failure, suppressed, timedOut, outcome>>

(* The joining thread sees the deadline passed with tasks still live. *)
JoinTimeout(th) ==
  LET g == ctxGroup[th] IN
  /\ Joining(th)
  /\ live[g] > 0
  /\ deadline[g] = "passed" /\ ~cancelled[g]
  /\ timedOut' = [timedOut EXCEPT ![g] = TRUE]
  /\ cancelled' = [cancelled EXCEPT ![g] = TRUE]
  /\ UNCHANGED <<threadVars, taskVars, gstate, owner, parent, live, failure,
                 suppressed, deadline, outcome>>

(* Mutant: a timeout takes the place of everything it cancelled. *)
TimeoutAlone(g) ==
  IF timedOut[g] THEN [exc |-> <<"Timeout", g>>, suppressed |-> <<>>]
  ELSE [exc |-> failure[g], suppressed |-> suppressed[g]]

(* What the block delivers: an expired deadline outranks the Cancelled      *)
(* failures it caused, and the other failures are attached as suppressed.   *)
Delivered(g) ==
  IF timedOut[g] /\ (failure[g] = None \/ failure[g][1] = "Cancelled")
  THEN [exc |-> <<"Timeout", g>>,
        suppressed |-> (IF failure[g] = None THEN <<>> ELSE <<failure[g]>>)
                         \o suppressed[g]]
  ELSE [exc |-> failure[g], suppressed |-> suppressed[g]]

(* Mutant: the end of a cancelled block does not wait. *)
JoinedOrCancelled(g) == live[g] = 0 \/ cancelled[g]

Joined(g) == live[g] = 0

(* Mutants: the context stays in the group that ended, or returns to root. *)
SameGroup(g) == g
BackToRoot(g) == Root

EnclosingGroup(g) == parent[g]

(* The join loop ends: the context goes back to the group around, the group *)
(* is freed, and the block delivers its failure.  try group (asValue) does  *)
(* not throw it: its function returns it as an error value (TryReturns).    *)
JoinDone(th, asValue) ==
  LET g == ctxGroup[th]
      d == Delivered(g)
  IN
  /\ Joining(th)
  /\ Joined(g)
  /\ ctxGroup' = [ctxGroup EXCEPT ![th] = EnclosingGroup(g)]
  /\ gstate' = [gstate EXCEPT ![g] = "freed"]
  /\ outcome' = [outcome EXCEPT ![g] = d]
  /\ IF d.exc # None /\ ~(asValue /\ pc[th] = "joining")
     THEN Throw(th, d.exc)
     ELSE /\ pc' = [pc EXCEPT ![th] = IF @ = "joining" THEN "run" ELSE "exited"]
          /\ UNCHANGED <<blocks, exc, raised>>
  /\ UNCHANGED <<awaits, ops, taskGroup, owner, parent, live, cancelled,
                 failure, suppressed, deadline, timedOut>>

-----------------------------------------------------------------------------
(* Tasks.  *)

(* Mutant: the task is not counted. *)
NotCounted(g) == live

CountedIn(g) == [live EXCEPT ![g] = @ + 1]

(* task_new: the task is counted into the spawner's group before its thread *)
(* exists.                                                                  *)
Spawn(th, t) ==
  LET g == ctxGroup[th] IN
  /\ At(th, "run")
  /\ pc[t] = "unborn"
  /\ g # None
  /\ taskGroup' = [taskGroup EXCEPT ![t] = g]
  /\ live' = CountedIn(g)
  /\ pc' = [pc EXCEPT ![t] = "created"]
  /\ UNCHANGED <<ctxGroup, blocks, awaits, ops, exc, raised, gstate, owner,
                 parent, cancelled, failure, suppressed, deadline, timedOut,
                 outcome>>

(* task_main starts. *)
Start(t) ==
  /\ At(t, "created")
  /\ ctxGroup' = [ctxGroup EXCEPT ![t] = taskGroup[t]]
  /\ pc' = [pc EXCEPT ![t] = "run"]
  /\ UNCHANGED <<blocks, awaits, ops, taskVars, groupVars>>

(* The body returns: normally, or with an error value, which fails the      *)
(* group but is no exception to whoever awaits the task.                    *)
Return(t, isError) ==
  /\ t \in Tasks
  /\ At(t, "run") /\ ~Inside(t)
  /\ pc' = [pc EXCEPT ![t] = IF isError THEN "failing" ELSE "finishing"]
  /\ raised' = IF isError THEN [raised EXCEPT ![t] = <<"Boom", t>>] ELSE raised
  /\ UNCHANGED <<ctxGroup, blocks, awaits, ops, taskGroup, exc, groupVars>>

(* Mutant: the latest failure takes the place of the first. *)
KeepLatest(g, e) ==
  /\ failure' = [failure EXCEPT ![g] = e]
  /\ cancelled' = [cancelled EXCEPT ![g] = TRUE]
  /\ UNCHANGED suppressed

(* The first failure is kept and cancels the group, later ones are          *)
(* suppressed.                                                              *)
RecordFailure(g, e) ==
  IF failure[g] = None
  THEN /\ failure' = [failure EXCEPT ![g] = e]
       /\ cancelled' = [cancelled EXCEPT ![g] = TRUE]
       /\ UNCHANGED suppressed
  ELSE /\ suppressed' = [suppressed EXCEPT ![g] = Append(@, e)]
       /\ UNCHANGED <<failure, cancelled>>

(* group_fail, called by task_main when the body threw or returned an error. *)
GroupFail(t) ==
  /\ At(t, "failing")
  /\ RecordFailure(taskGroup[t], raised[t])
  /\ pc' = [pc EXCEPT ![t] = "finishing"]
  /\ UNCHANGED <<ctxGroup, blocks, awaits, ops, taskVars, gstate, owner, parent,
                 live, deadline, timedOut, outcome>>

(* The end of task_main: done, and out of the group. *)
Finish(t) ==
  /\ At(t, "finishing")
  /\ pc' = [pc EXCEPT ![t] = "done"]
  /\ live' = [live EXCEPT ![taskGroup[t]] = @ - 1]
  /\ UNCHANGED <<ctxGroup, blocks, awaits, ops, taskVars, gstate, owner, parent,
                 cancelled, failure, suppressed, deadline, timedOut, outcome>>

(* vl_await: waits for the task alone; it is no cancellation point. *)
Await(th, t) ==
  /\ At(th, "run")
  /\ Covered(th)
  /\ Budget(th)
  /\ pc[t] # "unborn"
  /\ OwnAwait => owner[taskGroup[t]] = th
  /\ pc' = [pc EXCEPT ![th] = "await"]
  /\ awaits' = [awaits EXCEPT ![th] = t]
  /\ UNCHANGED <<ctxGroup, blocks, taskVars, groupVars>>

AwaitDone(th) ==
  LET t == awaits[th] IN
  /\ At(th, "await")
  /\ pc[t] = "done"
  /\ awaits' = [awaits EXCEPT ![th] = None]
  /\ IF exc[t] # None
     THEN Throw(th, exc[t])
     ELSE /\ pc' = [pc EXCEPT ![th] = "run"]
          /\ UNCHANGED <<blocks, exc, raised>>
  /\ UNCHANGED <<ctxGroup, ops, taskGroup, groupVars>>

-----------------------------------------------------------------------------
(* Steps the runtime owes a thread, and the steps that take a thread whose  *)
(* program has nothing more to do out of its blocks.                        *)
Runtime(th) ==
  \/ CancelPoint(th)
  \/ JoinTimeout(th)
  \/ \E asValue \in BOOLEAN : JoinDone(th, asValue)
  \/ AwaitDone(th)
  \/ LeaveTry(th)
  \/ GroupEnd(th)
  \/ th \in Tasks /\ \/ Start(th)
                     \/ \E isError \in BOOLEAN : Return(th, isError)
                     \/ GroupFail(th)
                     \/ Finish(th)

Program(th) ==
  \/ EnterTry(th)
  \/ TryReturns(th)
  \/ UserThrow(th)
  \/ Block(th)
  \/ Unblock(th)
  \/ \E g \in Groups, timed \in BOOLEAN : GroupBegin(th, g, timed)
  \/ \E t \in Tasks : Spawn(th, t) \/ Await(th, t)

Clock == \E g \in Groups : DeadlinePasses(g)

(* The process is gone, and its threads with it. *)
Gone == ~ProcessUp /\ UNCHANGED vars

Next ==
  \/ \E th \in Threads : Runtime(th) \/ Program(th)
  \/ Clock
  \/ Gone

Spec == Init /\ [][Next]_vars

(* Every thread the operating system runs makes progress, time passes, and  *)
(* a thread's program is finite: MaxOps bounds it.  A wait that nothing     *)
(* ends (Unblock) may last for ever.                                        *)
FairSpec ==
  /\ Spec
  /\ \A th \in Threads : WF_vars(Runtime(th))
  /\ WF_vars(Clock)

-----------------------------------------------------------------------------
(* Properties.  *)

(* g->live is exactly the number of tasks that are in the group and have    *)
(* not left it, whether or not their threads have started (task_new and the *)
(* end of task_main): one too few and a join ends early, one too many and   *)
(* it never ends.                                                           *)
LiveExact ==
  \A g \in Groups : live[g] = Cardinality({t \in Members(g) : Pending(t)})

(* A group is freed by vl_group_end only when no thread will touch it again *)
(* as its own group: every task spawned in it has done its last decrement.  *)
JoinedTasksDone ==
  \A g \in Groups : gstate[g] = "freed" => \A t \in Members(g) : ~Pending(t)

(* Spawning and the cancellation checks use the context's group: it is      *)
(* never one that vl_group_end has freed, as long as the thread lives.      *)
ContextOpen ==
  \A th \in Threads :
    pc[th] \notin {"unborn", "created", "done", "exited", "crashed"} =>
      ctxGroup[th] \in Groups /\ gstate[ctxGroup[th]] = "open"

(* "The first is delivered and the rest are attached": what an ended group  *)
(* delivers accounts for every task that failed in it, one entry for each   *)
(* and none besides, but for the Timeout put before Cancelled failures.     *)
EveryFailureReported ==
  \A g \in Groups :
    gstate[g] = "freed" =>
      LET d == outcome[g]
          list == (IF d.exc = None THEN <<>> ELSE <<d.exc>>) \o d.suppressed
          extra == IF list # <<>> /\ list[1] = <<"Timeout", g>> THEN 1 ELSE 0
          failed == {t \in Members(g) : raised[t] # None}
      IN  /\ Len(list) = Cardinality(failed) + extra
          /\ {list[i] : i \in 1 + extra .. Len(list)} = {raised[t] : t \in failed}

InBlock(g) ==
  \/ \E i \in DOMAIN blocks[owner[g]] : blocks[owner[g]][i] = g
  \/ pc[owner[g]] = "joining" /\ ctxGroup[owner[g]] = g

(* The thread has begun g and left its block without ending the group.      *)
LeftOpen(th, g) ==
  g # Root /\ owner[g] = th /\ gstate[g] = "open" /\ ~InBlock(g)

(* group_cancelled walks g->parent to the root, through the groups of other *)
(* threads: no group on the walk of a living thread has been freed, as long *)
(* as no thread has left a block without ending its group.  (Such a group's *)
(* parent may end while the tasks left in it walk on.)                      *)
ChainOpen ==
  (\A th \in Threads, g \in Groups : ~LeftOpen(th, g)) =>
    \A th \in Threads :
      pc[th] \in {"run", "blocked", "joining", "await"} =>
        \A a \in Chain(ctxGroup[th]) : gstate[a] = "open"

InnermostGroup(th) ==
  LET inside == {i \in DOMAIN blocks[th] : blocks[th][i] # Try}
  IN  IF inside # {} THEN blocks[th][CHOOSE i \in inside : \A j \in inside : j <= i]
      ELSE IF th = Main THEN Root ELSE taskGroup[th]

(* A task is spawned into, and cancelled with, the group block it stands    *)
(* in: c->group is the innermost one, also after a handler caught what a    *)
(* group inside it delivered, in a thread that has ended what it began.     *)
ContextIsInnermostBlock ==
  \A th \in Threads :
    pc[th] \in {"run", "blocked", "await"} /\ (\A g \in Groups : ~LeftOpen(th, g)) =>
      ctxGroup[th] = InnermostGroup(th)

BlockState(g) ==
  IF gstate[g] = "unused" THEN "ahead"
  ELSE IF g = Root THEN IF gstate[g] = "open" THEN "entered" ELSE "left"
  ELSE IF InBlock(g) THEN "entered" ELSE "left"

(* "A group block does not exit until all of its tasks have finished." *)
NoTaskOutlivesItsBlock ==
  [][\A g \in Groups :
       ProcessUp' /\ BlockState(g) = "entered" /\ BlockState(g)' = "left" =>
         \A t \in Members(g) : ~Pending(t)']_vars

TaskResult(t) ==
  IF pc[t] # "done" THEN None
  ELSE IF raised[t] = None THEN <<"ok", t>> ELSE raised[t]

Structured ==
  INSTANCE StructuredGroups
    WITH block <- [g \in Groups |-> BlockState(g)],
         timed <- [g \in Groups |-> deadline[g] # "none"],
         home <- taskGroup,
         result <- [t \in Tasks |-> TaskResult(t)],
         report <- outcome

(* Groups keep the promise of StructuredGroups. *)
ImplementsStructuredGroups == Structured!Spec

(* "A group can always reap a blocked task": once the end of a block that   *)
(* has failed, or that has a timeout, is waiting for its tasks, it ends.    *)
CancelledGroupEnds ==
  \A g \in Groups :
    (/\ \E th \in Threads : Joining(th) /\ ctxGroup[th] = g
     /\ cancelled[g] \/ deadline[g] # "none")
      ~> (gstate[g] = "freed" \/ ~ProcessUp)
=============================================================================
