------------------------------ MODULE SqlGate ------------------------------
(***************************************************************************)
(* The transaction gate of a database connection shared by tasks           *)
(* (runtime/src/ext/sqlite.c, std/sqlite/sqlite.voi).  SQLite has one      *)
(* transaction per connection, so the task that begins one takes the gate  *)
(* and every other task's next call waits for it to end.  A waiter looks   *)
(* again when a call ends or after 50 ms; it gives up, with an error, when *)
(* the owner is joining a group the waiter runs in, which would never end. *)
(*                                                                         *)
(* One connection.  Threads are main and tasks; each is spawned by the     *)
(* thread that opened its group, which joins the group in the end, with or *)
(* without a transaction of its own.  A call is three steps: through the   *)
(* gate, the work in SQLite (which runs calls one at a time), and out.     *)
(* Programs commit and roll back only what they began, with begin.  SQLite *)
(* itself rolls a transaction back when a statement in it fails badly, and *)
(* keeps that of a closed connection until its last statement is gone.     *)
(***************************************************************************)
EXTENDS Naturals, FiniteSets

CONSTANTS
  Main,
  Tasks,
  Groups,
  Opener,   \* the thread that opens a group
  In,       \* the group a task is spawned in
  Around,   \* that group and those around it (g->parent), for every thread
  None,     \* no thread, no group, no call
  MaxOps    \* bound: the calls a thread makes besides ending its transaction

Threads == {Main} \cup Tasks

ASSUME ThreadAssumption == Main \notin Tasks /\ IsFiniteSet(Tasks) /\ None \notin Threads
ASSUME GroupAssumption  ==
  /\ IsFiniteSet(Groups) /\ None \notin Groups
  /\ Opener \in [Groups -> Threads]
  /\ In \in [Tasks -> Groups]
  /\ Around \in [Threads -> SUBSET Groups]
  /\ Around[Main] = {}
  /\ \A t \in Tasks : Around[t] = {In[t]} \cup Around[Opener[In[t]]]
ASSUME BoundAssumption  == MaxOps \in Nat

VARIABLES
  \* SqDb
  tx,       \* d->tx: the gate is taken
  owner,    \* d->owner: by this thread (or was last)
  closed,   \* d->closed
  open,     \* SQLite has a transaction open: not autocommit
  \* per thread
  pc,       \* where it is
  arg,      \* the call it makes
  owned,    \* the connection is on its list of held transactions
  joining,  \* c->joining: the group it is waiting to end
  joined,   \* the groups that have been joined
  ops,      \* how many bounded steps it has taken
  strays    \* history: calls of others than the owner run inside its transaction

gateVars   == <<tx, owner>>
dbVars     == <<closed, open>>
threadVars == <<pc, arg, owned>>
groupVars  == <<joining, joined>>
vars       == <<gateVars, dbVars, threadVars, groupVars, ops, strays>>

Calls  == {"statement", "commit", "rollback", "close", "begin"}
Places == {"unborn", "idle", "gate", "call", "leave", "join", "exit", "gone"}

TypeOK ==
  /\ {tx, closed, open} \subseteq BOOLEAN
  /\ owner \in Threads \cup {None} /\ (tx => owner # None)
  /\ pc \in [Threads -> Places]
  /\ arg \in [Threads -> Calls \cup {None}]
  /\ owned \in [Threads -> BOOLEAN]
  /\ joining \in [Threads -> Groups \cup {None}]
  /\ joined \subseteq Groups
  /\ ops \in [Threads -> 0 .. MaxOps]
  /\ strays \in [Threads -> Nat]

(* sqlite.open by main *)
Init ==
  /\ tx = FALSE /\ owner = None
  /\ closed = FALSE /\ open = FALSE
  /\ pc = [th \in Threads |-> IF th = Main THEN "idle" ELSE "unborn"]
  /\ arg = [th \in Threads |-> None]
  /\ owned = [th \in Threads |-> FALSE]
  /\ joining = [th \in Threads |-> None]
  /\ joined = {}
  /\ ops = [th \in Threads |-> 0]
  /\ strays = [th \in Threads |-> 0]

-----------------------------------------------------------------------------
(* The gate.  *)

(* mine *)
Mine(th) == tx /\ owner = th

\* Mutant of GroupsOf: nested groups are forgotten.
OwnGroupOnly(th) == IF th = Main THEN {} ELSE {In[th]}

\* The groups a thread runs in, walking up g->parent.
GroupsOf(th) == Around[th]

(* deadlocked *)
Deadlocked(th) == tx /\ ~Mine(th) /\ joining[owner] \in GroupsOf(th)

\* Mutant of MayPass: only begin looks at the gate.
OnlyBeginWaits(th) == ~tx \/ Mine(th) \/ arg[th] # "begin"

MayPass(th) == ~tx \/ Mine(th)

\* A transaction on a connection that can still be used.
Live == open /\ ~closed

\* Mutant of Over: the gate opens after every call of the owner.
OverAfterEachCall == TRUE

\* Mutant of Over: autocommit is not looked at.
OverWhenClosed == closed

\* The transaction is over: autocommit is on again, or the connection closed.
Over == ~Live

-----------------------------------------------------------------------------
(* A call: into gate_enter or sq_begin. *)

\* Bound.
MayCall(th) == pc[th] = "idle" /\ ops[th] < MaxOps

Arrive(th, call) ==
  /\ pc' = [pc EXCEPT ![th] = "gate"]
  /\ arg' = [arg EXCEPT ![th] = call]
  /\ UNCHANGED <<gateVars, dbVars, owned, groupVars, strays>>

(* sq_in_tx *)
InTransaction(th) == Mine(th) /\ Live

CallDb(th, call) ==
  /\ MayCall(th) /\ (call = "commit" => InTransaction(th))
  /\ ops' = [ops EXCEPT ![th] = @ + 1]
  /\ Arrive(th, call)

(* settle: what is still open is rolled back *)
Settle(th) ==
  /\ pc[th] = "idle" /\ InTransaction(th)
  /\ Arrive(th, "rollback")
  /\ UNCHANGED ops

(* gate_enter, when gate_wait ends *)
Enter(th) ==
  /\ pc[th] = "gate" /\ arg[th] # "begin" /\ MayPass(th)
  /\ pc' = [pc EXCEPT ![th] = "call"]
  /\ UNCHANGED <<gateVars, dbVars, arg, owned, groupVars, ops, strays>>

\* Mutant of Taken: the owner is not noted.
TakenByNobody(th) == tx' = TRUE /\ UNCHANGED owner

Taken(th) == tx' = TRUE /\ owner' = th

(* sq_begin takes the gate, before it calls SQLite *)
TakeGate(th) ==
  /\ pc[th] = "gate" /\ arg[th] = "begin" /\ ~tx
  /\ Taken(th)
  /\ pc' = [pc EXCEPT ![th] = "call"]
  /\ UNCHANGED <<dbVars, arg, owned, groupVars, ops, strays>>

\* An error: a wait that would never end; a transaction inside another.
Refuse(th) ==
  /\ pc[th] = "gate" /\ (Deadlocked(th) \/ (arg[th] = "begin" /\ Mine(th)))
  /\ pc' = [pc EXCEPT ![th] = "idle"]
  /\ arg' = [arg EXCEPT ![th] = None]
  /\ UNCHANGED <<gateVars, dbVars, owned, groupVars, ops, strays>>

-----------------------------------------------------------------------------
(* The work.  SQLite's connection mutex makes each call one step. *)

Work(th, call) == pc[th] = "call" /\ arg[th] = call /\ pc' = [pc EXCEPT ![th] = "leave"]

\* Strays are counted until their transaction is ended by its owner, or closed.
Stray(th) == strays' = [strays EXCEPT ![th] = @ + 1]

NoStrays == [th \in Threads |-> 0]

(* exec, prepare, bind, step and the other calls that begin and end nothing, *)
(* but for SQLite: a conflict resolved by ROLLBACK, a full disk, an I/O      *)
(* error or no memory make it roll the transaction back.                     *)
Statement(th) ==
  /\ Work(th, "statement")
  /\ \/ /\ UNCHANGED open
        /\ IF Live /\ ~Mine(th) THEN Stray(th) ELSE UNCHANGED strays
     \/ /\ Live /\ open' = FALSE
        /\ IF Mine(th) THEN strays' = NoStrays ELSE Stray(th)
  /\ UNCHANGED <<gateVars, closed, arg, owned, groupVars, ops>>

(* COMMIT or ROLLBACK; a commit may fail and leave the transaction open *)
EndTransaction(th) ==
  /\ Work(th, "commit") \/ Work(th, "rollback")
  /\ \/ ~closed /\ open' = FALSE /\ strays' = NoStrays
     \/ (closed \/ arg[th] = "commit") /\ UNCHANGED <<open, strays>>
  /\ UNCHANGED <<gateVars, closed, arg, owned, groupVars, ops>>

(* sq_close: what is open is rolled back, at once if no statement is alive *)
Close(th) ==
  /\ Work(th, "close")
  /\ closed' = TRUE
  /\ open' = FALSE \/ UNCHANGED open
  /\ strays' = NoStrays
  /\ UNCHANGED <<gateVars, arg, owned, groupVars, ops>>

(* sq_finalize or st_free of the last statement of a closed connection *)
FinalizeLast ==
  /\ closed /\ open
  /\ open' = FALSE
  /\ UNCHANGED <<gateVars, closed, threadVars, groupVars, ops, strays>>

\* Mutant of Listed: a transaction is not put on the thread's list.
NeverListed(th) == owned

Listed(th) == [owned EXCEPT ![th] = TRUE]

(* BEGIN IMMEDIATE may fail; owned_add all the same *)
Begin(th) ==
  /\ Work(th, "begin")
  /\ \/ ~closed /\ open' = TRUE
     \/ UNCHANGED open
  /\ owned' = Listed(th)
  /\ UNCHANGED <<gateVars, closed, arg, groupVars, ops, strays>>

(* gate_leave, owned_drop *)
Leave(th) ==
  /\ pc[th] = "leave"
  /\ IF Mine(th) /\ Over
     THEN tx' = FALSE /\ owned' = [owned EXCEPT ![th] = FALSE] /\ strays' = NoStrays
     ELSE UNCHANGED <<tx, owned, strays>>
  /\ pc' = [pc EXCEPT ![th] = "idle"]
  /\ arg' = [arg EXCEPT ![th] = None]
  /\ UNCHANGED <<owner, dbVars, groupVars, ops>>

-----------------------------------------------------------------------------
(* Groups and threads (Tasks.tla), as far as the gate looks at them. *)

Spawn(t) ==
  /\ pc[t] = "unborn" /\ pc[Opener[In[t]]] = "idle" /\ In[t] \notin joined
  /\ pc' = [pc EXCEPT ![t] = "idle"]
  /\ UNCHANGED <<gateVars, dbVars, arg, owned, groupVars, ops, strays>>

(* vl_group_end *)
Join(g) ==
  /\ pc[Opener[g]] = "idle" /\ g \notin joined
  /\ pc' = [pc EXCEPT ![Opener[g]] = "join"]
  /\ joining' = [joining EXCEPT ![Opener[g]] = g]
  /\ joined' = joined \cup {g}
  /\ UNCHANGED <<gateVars, dbVars, arg, owned, ops, strays>>

\* A task is counted out of its group before its thread exits.
Joined(th) ==
  /\ pc[th] = "join"
  /\ \A t \in Tasks : In[t] = joining[th] => pc[t] \in {"unborn", "exit", "gone"}
  /\ pc' = [pc EXCEPT ![th] = "idle"]
  /\ joining' = [joining EXCEPT ![th] = None]
  /\ UNCHANGED <<gateVars, dbVars, arg, owned, joined, ops, strays>>

(* A task ends, by returning, a throw or a fault, its own groups joined *)
End(t) ==
  /\ pc[t] = "idle" /\ \A g \in Groups : Opener[g] = t => g \in joined
  /\ pc' = [pc EXCEPT ![t] = "exit"]
  /\ UNCHANGED <<gateVars, dbVars, arg, owned, groupVars, ops, strays>>

\* Mutant of OpenAfterExit: the gate opens, and nothing is rolled back.
StillOpenAfterExit == open

\* A closed connection is not touched.
OpenAfterExit == open /\ closed

(* owned_exit *)
ThreadExits(t) ==
  /\ pc[t] = "exit"
  /\ IF owned[t] /\ Mine(t)
     THEN /\ open' = OpenAfterExit
          /\ strays' = NoStrays
          /\ tx' = FALSE
     ELSE UNCHANGED <<open, strays, tx>>
  /\ owned' = [owned EXCEPT ![t] = FALSE]
  /\ pc' = [pc EXCEPT ![t] = "gone"]
  /\ UNCHANGED <<owner, closed, arg, groupVars, ops>>

-----------------------------------------------------------------------------
Runtime(th) ==
  \/ Enter(th) \/ TakeGate(th) \/ Refuse(th)
  \/ Statement(th) \/ EndTransaction(th) \/ Close(th) \/ Begin(th) \/ Leave(th)
  \/ Joined(th)
  \/ th \in Tasks /\ ThreadExits(th)

\* A thread that has nothing else to do rolls back, joins its groups and ends.
WindsUp(th) ==
  \/ Settle(th)
  \/ \E g \in Groups : Opener[g] = th /\ Join(g)
  \/ th \in Tasks /\ End(th)

Next ==
  \/ \E th \in Threads, call \in {"statement", "commit", "close", "begin"} : CallDb(th, call)
  \/ \E th \in Threads : Runtime(th) \/ WindsUp(th)
  \/ \E t \in Tasks : Spawn(t)
  \/ FinalizeLast

Spec == Init /\ [][Next]_vars

FairSpec ==
  /\ Spec
  /\ \A th \in Threads : WF_vars(Runtime(th)) /\ WF_vars(WindsUp(th))

-----------------------------------------------------------------------------
\* A live transaction in SQLite has an owner at the gate.  And the gate of an
\* open connection is held without a transaction only inside the owner's call
\* that begins one or ended it, or after a stray call ended it: gate_leave looks
\* when the owner's calls leave, and at no other's.
GateExact ==
  /\ Live => tx
  /\ tx /\ ~open /\ ~closed /\ strays = NoStrays =>
       \/ arg[owner] = "begin" /\ pc[owner] \in {"call", "leave"}
       \/ arg[owner] \in {"statement", "commit", "rollback"} /\ pc[owner] = "leave"

\* The list a thread's exit goes through has what the thread holds, from begin on.
ListExact ==
  \A th \in Threads : owned[th] <=> Mine(th) /\ ~(arg[th] = "begin" /\ pc[th] = "call")

\* A thread that is gone holds nothing, and what it left open was rolled back,
\* unless the connection was closed: then its last statement has to go first.
NothingOutlivesItsThread ==
  \A th \in Threads : pc[th] = "gone" => ~Mine(th) /\ ~owned[th] /\ (Live => pc[owner] # "gone")

\* Inside one transaction another thread runs at most the call it had in flight
\* when the transaction began: its next one meets the gate.
OnlyCallsInFlightStray == \A th \in Threads : strays[th] <= 1

\* No thread waits at the gate for ever: the transaction ends, or the wait is refused.
GateOpens == \A th \in Threads : pc[th] = "gate" ~> pc[th] # "gate"

\* What the manual and the tests say: while a transaction is open no other
\* task's call runs inside it.
NoneRunsInside == strays = NoStrays
=============================================================================
