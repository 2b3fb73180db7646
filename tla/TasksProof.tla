----------------------------- MODULE TasksProof -----------------------------
(***************************************************************************)
(* Proofs about Tasks, for any set of tasks and groups and for programs of *)
(* every class: type correctness, that g->live counts exactly the tasks in *)
(* the group, and that a group vl_group_end has freed has no task left.    *)
(*                                                                         *)
(* The last needs to know that a thread's c->group is never a freed group: *)
(* the groups a living thread has pushed and not ended form a line under   *)
(* g->parent whose top is c->group (Nesting, Linear), so ending the top    *)
(* frees a group no other thread stands in and no open group hangs from.   *)
(***************************************************************************)
EXTENDS Tasks, FiniteSetTheorems, TLAPS

(* The thread can take a step that touches its context's group. *)
Active(th) == pc[th] \notin {"unborn", "created", "done", "exited", "crashed"}

Locals ==
  /\ \A t \in Tasks : pc[t] = "failing" => raised[t] \in Excs
  /\ \A th \in Threads : pc[th] = "await" => awaits[th] \in Tasks
  /\ pc[Main] \notin {"unborn", "created", "failing", "finishing", "done"}

Homes ==
  /\ \A t \in Tasks :
       IF pc[t] = "unborn"
       THEN taskGroup[t] = None
       ELSE taskGroup[t] \in Groups /\ gstate[taskGroup[t]] # "unused"
  /\ \A g \in Groups :
       gstate[g] # "unused" =>
         owner[g] \in Threads /\ pc[owner[g]] \notin {"unborn", "created"}

(* g is a group the thread pushed, or the one it was spawned in. *)
Its(th, g) == owner[g] = th \/ (th \in Tasks /\ g = taskGroup[th])

Context ==
  \A th \in Threads :
    Active(th) =>
      /\ th \in Tasks => ctxGroup[th] # None
      /\ ctxGroup[th] # None =>
           gstate[ctxGroup[th]] = "open" /\ Its(th, ctxGroup[th])

Nesting ==
  \A g \in Groups :
    gstate[g] = "open" /\ Active(owner[g]) =>
      /\ owner[g] \in Tasks => parent[g] # None
      /\ parent[g] # None => gstate[parent[g]] = "open" /\ Its(owner[g], parent[g])

Linear ==
  /\ \A g, h \in Groups :
       /\ gstate[g] = "open" /\ gstate[h] = "open"
       /\ owner[g] = owner[h] /\ Active(owner[g])
       /\ parent[g] = parent[h]
       => g = h
  /\ \A g \in Groups :
       gstate[g] = "open" /\ Active(owner[g]) => parent[g] # ctxGroup[owner[g]]

Structure == Homes /\ LiveExact /\ JoinedTasksDone /\ Context /\ Nesting /\ Linear

IInv == TypeOK /\ Locals /\ Structure

-----------------------------------------------------------------------------
(* A pending task is counted, so its group's live is positive. *)
LEMMA PendingCounted ==
  ASSUME TypeOK, LiveExact,
         NEW t \in Tasks, Pending(t), taskGroup[t] \in Groups
  PROVE  live[taskGroup[t]] > 0
<1> DEFINE S == {u \in Members(taskGroup[t]) : Pending(u)}
<1>1. IsFiniteSet(S)
  BY ThreadAssumption, FS_Subset DEF Members
<1>2. t \in S
  BY DEF Members
<1>3. Cardinality(S) \in Nat /\ Cardinality(S) # 0
  BY <1>1, <1>2, FS_CardinalityType, FS_EmptySet
<1> QED
  BY <1>3 DEF LiveExact

(* A step that moves no task into or out of a group, and no thread's        *)
(* context, leaves the structure as it is.                                  *)
Quiet ==
  /\ UNCHANGED <<gstate, owner, parent, live, taskGroup, ctxGroup>>
  /\ \A th \in Threads :
       /\ (pc'[th] = "unborn") <=> (pc[th] = "unborn")
       /\ (pc'[th] = "created") <=> (pc[th] = "created")
       /\ (pc'[th] = "done") <=> (pc[th] = "done")
       /\ Active(th)' => Active(th)

(* Quiet steps keep the structure. *)
LEMMA QuietStructure ==
  ASSUME Structure, Quiet
  PROVE  Structure'
<1> USE DEF Structure, Quiet
<1>1. \A t \in Tasks : Pending(t)' <=> Pending(t)
  BY DEF Pending, Threads
<1>2. Homes'
  BY DEF Homes, Threads
<1>3. LiveExact'
  <2>1. ASSUME NEW g \in Groups
        PROVE  {t \in Members(g) : Pending(t)}' = {t \in Members(g) : Pending(t)}
    BY <1>1 DEF Members
  <2> QED
    BY <2>1 DEF LiveExact
<1>4. JoinedTasksDone'
  BY <1>1 DEF JoinedTasksDone, Members
<1>5. \A g \in Groups : gstate[g] = "open" => owner[g] \in Threads
  BY DEF Homes
<1>6. Context' /\ Nesting' /\ Linear'
  BY <1>5 DEF Context, Nesting, Linear, Its
<1> QED
  BY <1>2, <1>3, <1>4, <1>6

(* vl_throw moves the thread to a handler, or makes its task fail. *)
LEMMA ThrowStep ==
  ASSUME TypeOK, Locals,
         NEW th \in Threads, NEW e \in Excs, Throw(th, e),
         pc[th] \in {"run", "blocked", "await", "joining", "exiting"}
  PROVE  /\ pc' \in [Threads -> PCs]
         /\ blocks' \in [Threads -> Seq(Groups \cup {Try})]
         /\ exc' \in [Tasks -> Excs \cup {None}]
         /\ raised' \in [Tasks -> Excs \cup {None}]
         /\ \A u \in Threads : u # th => pc'[u] = pc[u]
         /\ pc'[th] \in {"run", "crashed", "failing"}
         /\ pc'[th] = "failing" => th \in Tasks /\ raised'[th] \in Excs
         /\ \A t \in Tasks : pc[t] = "failing" => raised'[t] = raised[t]
         /\ pc'[th] = "crashed" => th = Main
<1>1. /\ pc \in [Threads -> PCs]
      /\ blocks \in [Threads -> Seq(Groups \cup {Try})]
      /\ exc \in [Tasks -> Excs \cup {None}]
      /\ raised \in [Tasks -> Excs \cup {None}]
  BY DEF TypeOK
<1>2. CASE \E i \in Handlers(th) :
             /\ pc' = [pc EXCEPT ![th] = "run"]
             /\ blocks' = [blocks EXCEPT ![th] = SubSeq(@, 1, i - 1)]
             /\ UNCHANGED <<exc, raised>>
  <2>1. PICK i \in Handlers(th) :
             /\ pc' = [pc EXCEPT ![th] = "run"]
             /\ blocks' = [blocks EXCEPT ![th] = SubSeq(@, 1, i - 1)]
             /\ UNCHANGED <<exc, raised>>
    BY <1>2
  <2>2. blocks[th] \in Seq(Groups \cup {Try}) /\ i \in 1 .. Len(blocks[th])
    BY <1>1, <2>1 DEF Handlers
  <2>3. SubSeq(blocks[th], 1, i - 1) \in Seq(Groups \cup {Try})
    BY <2>2
  <2> QED
    BY <1>1, <2>1, <2>3 DEF PCs
<1>3. CASE /\ blocks' = [blocks EXCEPT ![th] = <<>>]
           /\ th = Main
           /\ pc' = [pc EXCEPT ![th] = "crashed"]
           /\ UNCHANGED <<exc, raised>>
  BY <1>1, <1>3 DEF PCs
<1>4. CASE /\ blocks' = [blocks EXCEPT ![th] = <<>>]
           /\ th \in Tasks
           /\ pc' = [pc EXCEPT ![th] = "failing"]
           /\ exc' = [exc EXCEPT ![th] = e]
           /\ raised' = [raised EXCEPT ![th] = e]
  BY <1>1, <1>4 DEF PCs
<1> QED
  BY <1>2, <1>3, <1>4 DEF Throw

-----------------------------------------------------------------------------
(* What the initial state satisfies. *)
LEMMA InitIInv == Init => IInv
<1> SUFFICES ASSUME Init PROVE IInv
  OBVIOUS
<1> USE ThreadAssumption, GroupAssumption, NoneAssumption DEF Init
<1>1. TypeOK
  BY BoundAssumption DEF TypeOK, Threads, PCs
<1>2. Locals
  BY DEF Locals, Threads
<1>3. Homes
  BY DEF Homes, Threads
<1>4. LiveExact
  <2>1. ASSUME NEW g \in Groups
        PROVE  {t \in Members(g) : Pending(t)} = {}
    BY DEF Members, Pending, Threads
  <2> QED
    BY <2>1, FS_EmptySet DEF LiveExact
<1>5. JoinedTasksDone
  BY DEF JoinedTasksDone
<1>6. Context
  BY DEF Context, Its, Active, Threads
<1>7. Nesting
  BY DEF Nesting, Its, Active, Threads
<1>8. Linear
  BY DEF Linear, Active, Threads
<1> QED
  BY <1>1, <1>2, <1>3, <1>4, <1>5, <1>6, <1>7, <1>8 DEF IInv, Structure
-----------------------------------------------------------------------------
(* Steps that leave the structure alone. *)

(* Entering and leaving blocks without ending a group touches no group. *)
LEMMA BlockStep ==
  ASSUME IInv, NEW th \in Threads, EnterTry(th) \/ LeaveTry(th) \/ TryReturns(th)
                             \/ Block(th) \/ Unblock(th)
  PROVE  TypeOK' /\ Locals' /\ Quiet
<1> USE DEF taskVars, groupVars, At
<1>1. TypeOK /\ Locals
  BY DEF IInv
<1>2. CASE EnterTry(th)
  <2>1. TypeOK'
    BY <1>1, <1>2, BoundAssumption DEF EnterTry, Budget, TypeOK, Threads
  <2>2. Locals' /\ Quiet
    BY <1>1, <1>2 DEF EnterTry, Budget, Locals, Quiet, Active
  <2> QED
    BY <2>1, <2>2
<1>3. CASE LeaveTry(th) \/ TryReturns(th)
  <2>1. blocks[th] \in Seq(Groups \cup {Try}) /\ Len(blocks[th]) > 0
    BY <1>1, <1>3 DEF LeaveTry, TryReturns, Inside, TypeOK
  <2>2. SubSeq(blocks[th], 1, Len(blocks[th]) - 1) \in Seq(Groups \cup {Try})
    BY <2>1
  <2>3. TypeOK'
    BY <1>1, <1>3, <2>2 DEF LeaveTry, TryReturns, TypeOK
  <2>4. Locals' /\ Quiet
    BY <1>1, <1>3 DEF LeaveTry, TryReturns, Locals, Quiet, Active
  <2> QED
    BY <2>3, <2>4
<1>4. CASE Block(th)
  <2>1. TypeOK'
    BY <1>1, <1>4, BoundAssumption DEF Block, Budget, TypeOK, PCs, Threads
  <2>2. Locals' /\ Quiet
    BY <1>1, <1>4 DEF Block, Budget, Locals, Quiet, Active, TypeOK, Threads
  <2> QED
    BY <2>1, <2>2
<1>5. CASE Unblock(th)
  <2>1. TypeOK'
    BY <1>1, <1>5 DEF Unblock, TypeOK, PCs
  <2>2. Locals' /\ Quiet
    BY <1>1, <1>5 DEF Unblock, Locals, Quiet, Active, TypeOK, Threads
  <2> QED
    BY <2>1, <2>2
<1> QED
  BY <1>2, <1>3, <1>4, <1>5

(* A throw by the program or at a cancellation point. *)
LEMMA ThrowingStep ==
  ASSUME IInv, NEW th \in Threads, UserThrow(th) \/ CancelPoint(th) \/ AwaitDone(th)
  PROVE  TypeOK' /\ Locals' /\ Quiet
<1> USE DEF taskVars, groupVars, At
<1>1. TypeOK /\ Locals
  BY DEF IInv
<1>2. CASE \E e \in Excs :
             /\ Throw(th, e)
             /\ pc[th] \in {"run", "blocked", "await"}
             /\ awaits' = awaits \/ awaits' = [awaits EXCEPT ![th] = None]
             /\ UNCHANGED <<ctxGroup, ops, taskGroup, groupVars>>
  <2>1. PICK e \in Excs :
             /\ Throw(th, e)
             /\ pc[th] \in {"run", "blocked", "await"}
             /\ awaits' = awaits \/ awaits' = [awaits EXCEPT ![th] = None]
             /\ UNCHANGED <<ctxGroup, ops, taskGroup, groupVars>>
    BY <1>2
  <2>2. /\ pc' \in [Threads -> PCs]
        /\ blocks' \in [Threads -> Seq(Groups \cup {Try})]
        /\ exc' \in [Tasks -> Excs \cup {None}]
        /\ raised' \in [Tasks -> Excs \cup {None}]
        /\ \A u \in Threads : u # th => pc'[u] = pc[u]
        /\ pc'[th] \in {"run", "crashed", "failing"}
        /\ pc'[th] = "failing" => th \in Tasks /\ raised'[th] \in Excs
        /\ \A t \in Tasks : pc[t] = "failing" => raised'[t] = raised[t]
        /\ pc'[th] = "crashed" => th = Main
    BY <1>1, <2>1, ThrowStep
  <2>3. TypeOK'
    BY <1>1, <2>1, <2>2 DEF TypeOK
  <2>4. Locals'
    BY <1>1, <2>1, <2>2, ThreadAssumption DEF Locals, TypeOK, Threads
  <2>5. Quiet
    BY <1>1, <2>1, <2>2 DEF Quiet, Active
  <2> QED
    BY <2>3, <2>4, <2>5
<1>3. CASE UserThrow(th)
  <2>1. <<"Boom", th>> \in Excs
    BY DEF Excs
  <2> QED
    BY <1>2, <1>3, <2>1 DEF UserThrow
<1>4. CASE CancelPoint(th)
  <2>1. <<"Cancelled", th>> \in Excs
    BY DEF Excs
  <2> QED
    BY <1>2, <1>4, <2>1 DEF CancelPoint
<1>5. CASE AwaitDone(th) /\ exc[awaits[th]] # None
  <2>1. exc[awaits[th]] \in Excs
    BY <1>1, <1>5 DEF AwaitDone, Locals, TypeOK
  <2> QED
    BY <1>2, <1>5, <2>1 DEF AwaitDone
<1>6. CASE AwaitDone(th) /\ exc[awaits[th]] = None
  <2>1. TypeOK'
    BY <1>1, <1>6 DEF AwaitDone, TypeOK, PCs
  <2>2. Locals' /\ Quiet
    BY <1>1, <1>6 DEF AwaitDone, Locals, Quiet, Active, TypeOK, Threads
  <2> QED
    BY <2>1, <2>2
<1> QED
  BY <1>3, <1>4, <1>5, <1>6

(* Steps that only move a thread: waits, awaits, the start of a join. *)
LEMMA WaitStep ==
  ASSUME IInv, NEW th \in Threads,
         GroupEnd(th) \/ JoinTimeout(th) \/ Clock \/ (\E t \in Tasks : Await(th, t))
  PROVE  TypeOK' /\ Locals' /\ Quiet
<1> USE DEF taskVars, groupVars, threadVars, At
<1>1. TypeOK /\ Locals
  BY DEF IInv
<1>2. CASE GroupEnd(th)
  <2>1. pc' \in [Threads -> PCs] /\ pc'[th] \in {"joining", "exiting"}
        /\ \A u \in Threads : u # th => pc'[u] = pc[u]
    BY <1>1, <1>2 DEF GroupEnd, TypeOK, PCs
  <2>2. blocks' \in [Threads -> Seq(Groups \cup {Try})]
    <3>1. CASE Inside(th) /\ blocks' = [blocks EXCEPT ![th] = SubSeq(@, 1, Len(@) - 1)]
      <4>1. blocks[th] \in Seq(Groups \cup {Try}) /\ Len(blocks[th]) > 0
        BY <1>1, <3>1 DEF Inside, TypeOK
      <4>2. SubSeq(blocks[th], 1, Len(blocks[th]) - 1) \in Seq(Groups \cup {Try})
        BY <4>1
      <4> QED
        BY <1>1, <3>1, <4>2 DEF TypeOK
    <3> QED
      BY <1>1, <1>2, <3>1 DEF GroupEnd, TypeOK
  <2>3. TypeOK'
    BY <1>1, <1>2, <2>1, <2>2 DEF GroupEnd, TypeOK
  <2>4. Locals' /\ Quiet
    BY <1>1, <1>2, <2>1 DEF GroupEnd, Locals, Quiet, Active, Threads
  <2> QED
    BY <2>3, <2>4
<1>3. CASE JoinTimeout(th)
  <2>1. TypeOK'
    BY <1>1, <1>3 DEF JoinTimeout, TypeOK
  <2>2. Locals' /\ Quiet
    BY <1>1, <1>3 DEF JoinTimeout, Locals, Quiet, Active
  <2> QED
    BY <2>1, <2>2
<1>4. CASE Clock
  <2>1. TypeOK'
    BY <1>1, <1>4 DEF Clock, DeadlinePasses, TypeOK
  <2>2. Locals' /\ Quiet
    BY <1>1, <1>4 DEF Clock, DeadlinePasses, Locals, Quiet, Active
  <2> QED
    BY <2>1, <2>2
<1>5. ASSUME NEW t \in Tasks, Await(th, t)
      PROVE  TypeOK' /\ Locals' /\ Quiet
  <2>1. TypeOK'
    BY <1>1, <1>5, BoundAssumption DEF Await, Budget, TypeOK, PCs, Threads
  <2>2. Locals' /\ Quiet
    BY <1>1, <1>5 DEF Await, Budget, Locals, Quiet, Active, TypeOK, Threads
  <2> QED
    BY <2>1, <2>2
<1> QED
  BY <1>2, <1>3, <1>4, <1>5

(* A task's body returns, and its failure is recorded in its group. *)
LEMMA TaskEndStep ==
  ASSUME IInv, NEW t \in Tasks,
         GroupFail(t) \/ (\E isError \in BOOLEAN : Return(t, isError))
  PROVE  TypeOK' /\ Locals' /\ Quiet
<1> USE DEF taskVars, groupVars, At
<1>1. TypeOK /\ Locals /\ Homes /\ t \in Threads
  BY DEF IInv, Structure, Threads
<1>2. CASE GroupFail(t)
  <2>1. taskGroup[t] \in Groups /\ raised[t] \in Excs
    BY <1>1, <1>2 DEF GroupFail, Homes, Locals
  <2>2. /\ failure' \in [Groups -> Excs \cup {None}]
        /\ cancelled' \in [Groups -> BOOLEAN]
        /\ suppressed' \in [Groups -> Seq(Excs)]
    <3>1. Append(suppressed[taskGroup[t]], raised[t]) \in Seq(Excs)
      BY <1>1, <2>1 DEF TypeOK
    <3> QED
      BY <1>1, <1>2, <2>1, <3>1 DEF GroupFail, RecordFailure, TypeOK
  <2>3. TypeOK'
    BY <1>1, <1>2, <2>2 DEF GroupFail, TypeOK, PCs
  <2>4. Locals' /\ Quiet
    BY <1>1, <1>2 DEF GroupFail, Locals, Quiet, Active, TypeOK, Threads
  <2> QED
    BY <2>3, <2>4
<1>3. ASSUME NEW isError \in BOOLEAN, Return(t, isError)
      PROVE  TypeOK' /\ Locals' /\ Quiet
  <2>1. <<"Boom", t>> \in Excs
    BY DEF Excs, Threads
  <2>2. /\ pc' \in [Threads -> PCs] /\ pc[t] = "run"
        /\ pc'[t] \in {"failing", "finishing"}
        /\ \A u \in Threads : u # t => pc'[u] = pc[u]
        /\ raised' \in [Tasks -> Excs \cup {None}]
        /\ pc'[t] = "failing" => raised'[t] \in Excs
        /\ \A u \in Tasks : u # t => raised'[u] = raised[u]
    BY <1>1, <1>3, <2>1 DEF Return, TypeOK, PCs
  <2>3. TypeOK'
    BY <1>1, <1>3, <2>2 DEF Return, TypeOK
  <2>4. Locals' /\ Quiet
    BY <1>1, <1>3, <2>2, ThreadAssumption DEF Return, Locals, Quiet, Active, Threads
  <2> QED
    BY <2>3, <2>4
<1> QED
  BY <1>2, <1>3

-----------------------------------------------------------------------------
(* Steps that change the structure. *)

(* The new group is the top of the line of the thread that pushed it. *)
LEMMA GroupBeginStep ==
  ASSUME IInv, NEW th \in Threads, NEW g \in Groups, NEW timed \in BOOLEAN,
         GroupBegin(th, g, timed)
  PROVE  IInv'
<1> USE DEF taskVars, groupVars, At
<1>1. TypeOK /\ Locals /\ Homes /\ LiveExact /\ JoinedTasksDone /\ Context
      /\ Nesting /\ Linear
  BY DEF IInv, Structure
<1>2. TypeOK'
  <2>1. Append(blocks[th], g) \in Seq(Groups \cup {Try})
    BY <1>1 DEF TypeOK
  <2> QED
    BY <1>1, <2>1 DEF GroupBegin, TypeOK
<1>3. Locals' /\ Homes'
  BY <1>1 DEF GroupBegin, Locals, Homes, TypeOK
<1>4. LiveExact' /\ JoinedTasksDone'
  BY <1>1 DEF GroupBegin, LiveExact, JoinedTasksDone, Members, Pending, TypeOK
<1>5. /\ pc' = pc /\ Active(th)
      /\ \A u \in Threads : Active(u)' <=> Active(u)
      /\ \A h \in Groups \ {g} : gstate'[h] = gstate[h] /\ owner'[h] = owner[h]
                                /\ parent'[h] = parent[h]
      /\ gstate'[g] = "open" /\ owner'[g] = th /\ parent'[g] = ctxGroup[th]
      /\ ctxGroup'[th] = g
      /\ \A u \in Threads \ {th} : ctxGroup'[u] = ctxGroup[u]
      /\ taskGroup' = taskGroup /\ gstate[g] = "unused" /\ g # None
      /\ ctxGroup[th] \in Groups \cup {None}
  BY <1>1, NoneAssumption DEF GroupBegin, Active, TypeOK
<1>6. \A h \in Groups : gstate[h] = "open" => owner[h] \in Threads
  BY <1>1 DEF Homes
<1>7. Context'
  BY <1>1, <1>5 DEF Context, Its, TypeOK
<1>8. Nesting'
  <2> SUFFICES ASSUME NEW h \in Groups, gstate'[h] = "open", Active(owner[h])'
               PROVE  (/\ owner[h] \in Tasks => parent[h] # None
                       /\ parent[h] # None =>
                            gstate[parent[h]] = "open" /\ Its(owner[h], parent[h]))'
    BY DEF Nesting
  <2>1. CASE h = g
    BY <1>1, <1>5, <2>1 DEF Context, Its
  <2>2. CASE h # g
    <3>1. gstate[h] = "open" /\ Active(owner[h]) /\ owner'[h] = owner[h] /\ parent'[h] = parent[h]
      BY <1>5, <1>6, <2>2 DEF Active
    <3>2. parent[h] # None => parent[h] # g
      BY <1>1, <1>5, <3>1 DEF Nesting
    <3> QED
      BY <1>1, <1>5, <3>1, <3>2 DEF Nesting, Its, Active, TypeOK
  <2> QED
    BY <2>1, <2>2
<1>9. Linear'
  <2>1. ASSUME NEW h \in Groups \ {g}, gstate'[h] = "open", Active(owner[h])'
        PROVE  gstate[h] = "open" /\ Active(owner[h]) /\ owner[h] \in Threads
    BY <1>5, <1>6, <2>1 DEF Active
  <2>2. ctxGroup[th] # g
    BY <1>1, <1>5 DEF Context
  <2>3. \A h, k \in Groups :
          /\ gstate'[h] = "open" /\ gstate'[k] = "open"
          /\ owner'[h] = owner'[k] /\ Active(owner[h])'
          /\ parent'[h] = parent'[k]
          => h = k
    <3> SUFFICES ASSUME NEW h \in Groups, NEW k \in Groups \ {g}, h # k,
                        gstate'[h] = "open", gstate'[k] = "open",
                        owner'[h] = owner'[k], Active(owner[h])', Active(owner[k])',
                        parent'[h] = parent'[k]
                 PROVE  FALSE
      BY DEF Active
    <3>1. CASE h = g
      BY <1>1, <1>5, <2>1, <3>1 DEF Linear
    <3>2. CASE h # g
      BY <1>1, <1>5, <2>1, <3>2 DEF Linear
    <3> QED
      BY <3>1, <3>2
  <2>4. ASSUME NEW h \in Groups, gstate'[h] = "open", Active(owner[h])'
        PROVE  parent'[h] # ctxGroup'[owner'[h]]
    <3>1. CASE h = g
      BY <1>5, <2>2, <3>1
    <3>2. CASE h # g /\ owner[h] = th
      BY <1>1, <1>5, <2>1, <2>4, <3>2 DEF Nesting
    <3>3. CASE h # g /\ owner[h] # th
      BY <1>1, <1>5, <2>1, <2>4, <3>3 DEF Linear
    <3> QED
      BY <3>1, <3>2, <3>3
  <2> QED
    BY <2>3, <2>4 DEF Linear
<1> QED
  BY <1>2, <1>3, <1>4, <1>7, <1>8, <1>9 DEF IInv, Structure

(* The group is spawned into while a thread stands in it, so it is open. *)
LEMMA SpawnStep ==
  ASSUME IInv, NEW th \in Threads, NEW t \in Tasks, Spawn(th, t)
  PROVE  IInv'
<1> DEFINE g == ctxGroup[th]
<1>1. TypeOK /\ Locals /\ Homes /\ LiveExact /\ JoinedTasksDone /\ Context
      /\ Nesting /\ Linear
  BY DEF IInv, Structure
<1>2. /\ g \in Groups /\ gstate[g] = "open"
      /\ pc[th] = "run" /\ pc[t] = "unborn" /\ t \in Threads /\ th # t
      /\ pc' = [pc EXCEPT ![t] = "created"]
      /\ taskGroup' = [taskGroup EXCEPT ![t] = g]
      /\ live' = [live EXCEPT ![g] = @ + 1]
      /\ UNCHANGED <<ctxGroup, gstate, owner, parent>>
  BY <1>1 DEF Spawn, CountedIn, At, Context, Active, TypeOK, Threads
<1>3. TypeOK'
  BY <1>1, <1>2 DEF Spawn, TypeOK, PCs
<1>4. Locals'
  BY <1>1, <1>2, ThreadAssumption DEF Spawn, Locals, TypeOK
<1>5. /\ \A u \in Threads : Active(u)' <=> Active(u)
      /\ \A u \in Tasks : Active(u) => taskGroup'[u] = taskGroup[u]
  BY <1>1, <1>2 DEF Active, TypeOK
<1>6. \A h \in Groups : gstate[h] = "open" => owner[h] \in Threads
  BY <1>1 DEF Homes
<1>7. Homes'
  BY <1>1, <1>2 DEF Homes, TypeOK
<1>8. LiveExact'
  <2> SUFFICES ASSUME NEW h \in Groups
               PROVE  live'[h] = Cardinality({u \in Members(h) : Pending(u)}')
    BY DEF LiveExact
  <2> DEFINE S == {u \in Members(h) : Pending(u)}
  <2>1. IsFiniteSet(S) /\ live[h] = Cardinality(S) /\ t \notin S
    BY <1>1, <1>2, ThreadAssumption, FS_Subset DEF LiveExact, Members, Pending
  <2>2. CASE h = g
    <3>1. S' = S \cup {t}
      BY <1>1, <1>2, <2>2 DEF Members, Pending, TypeOK, Threads
    <3>2. Cardinality(S \cup {t}) = Cardinality(S) + 1
      BY <2>1, FS_AddElement
    <3>3. live'[h] = live[h] + 1
      BY <1>1, <1>2, <2>2 DEF TypeOK
    <3> QED
      BY <2>1, <3>1, <3>2, <3>3
  <2>3. CASE h # g
    <3>1. S' = S
      BY <1>1, <1>2, <2>3 DEF Members, Pending, TypeOK, Threads, Homes
    <3> QED
      BY <1>1, <1>2, <2>1, <2>3, <3>1 DEF TypeOK
  <2> QED
    BY <2>2, <2>3
<1>9. JoinedTasksDone'
  BY <1>1, <1>2 DEF JoinedTasksDone, Members, Pending, TypeOK, Threads
<1>10. Context'
  BY <1>1, <1>2, <1>5 DEF Context, Its
<1>11. Nesting'
  BY <1>1, <1>2, <1>5, <1>6 DEF Nesting, Its, Active
<1>12. Linear'
  BY <1>1, <1>2, <1>5, <1>6 DEF Linear, Active
<1> QED
  BY <1>3, <1>4, <1>7, <1>8, <1>9, <1>10, <1>11, <1>12 DEF IInv, Structure

(* The task's group is open when its thread starts: the task is pending. *)
LEMMA StartStep ==
  ASSUME IInv, NEW t \in Tasks, Start(t)
  PROVE  IInv'
<1>1. TypeOK /\ Locals /\ Homes /\ LiveExact /\ JoinedTasksDone /\ Context
      /\ Nesting /\ Linear
  BY DEF IInv, Structure
<1>2. /\ t \in Threads /\ pc[t] = "created"
      /\ pc' = [pc EXCEPT ![t] = "run"]
      /\ ctxGroup' = [ctxGroup EXCEPT ![t] = taskGroup[t]]
      /\ UNCHANGED <<blocks, awaits, ops, taskVars, groupVars>>
  BY DEF Start, At, Threads
<1>3. taskGroup[t] \in Groups /\ taskGroup[t] # None /\ gstate[taskGroup[t]] = "open"
  BY <1>1, <1>2, NoneAssumption DEF Homes, JoinedTasksDone, Members, Pending, TypeOK
<1>4. TypeOK' /\ Locals' /\ Homes'
  BY <1>1, <1>2, <1>3 DEF TypeOK, PCs, Locals, Homes, taskVars, groupVars
<1>5. \A h \in Groups : gstate[h] = "open" => owner[h] \in Threads /\ owner[h] # t
  BY <1>1, <1>2 DEF Homes
<1>6. \A u \in Tasks : Pending(u)' <=> Pending(u)
  BY <1>1, <1>2 DEF Pending, TypeOK, Threads
<1>7. LiveExact'
  <2>1. ASSUME NEW g \in Groups
        PROVE  {u \in Members(g) : Pending(u)}' = {u \in Members(g) : Pending(u)}
    BY <1>2, <1>6 DEF Members, taskVars
  <2> QED
    BY <1>1, <1>2, <2>1 DEF LiveExact, groupVars
<1>8. JoinedTasksDone'
  BY <1>1, <1>2, <1>6 DEF JoinedTasksDone, Members, taskVars, groupVars
<1>9. Context'
  BY <1>1, <1>2, <1>3 DEF Context, Its, Active, TypeOK, taskVars, groupVars
<1>10. Nesting'
  BY <1>1, <1>2, <1>5 DEF Nesting, Its, Active, TypeOK, taskVars, groupVars
<1>11. Linear'
  BY <1>1, <1>2, <1>5 DEF Linear, Active, TypeOK, groupVars
<1> QED
  BY <1>4, <1>7, <1>8, <1>9, <1>10, <1>11 DEF IInv, Structure

(* The task is uncounted in the step that makes it done. *)
LEMMA FinishStep ==
  ASSUME IInv, NEW t \in Tasks, Finish(t)
  PROVE  IInv'
<1> DEFINE g == taskGroup[t]
<1>1. TypeOK /\ Locals /\ Homes /\ LiveExact /\ JoinedTasksDone /\ Context
      /\ Nesting /\ Linear
  BY DEF IInv, Structure
<1>2. /\ t \in Threads /\ pc[t] = "finishing"
      /\ pc' = [pc EXCEPT ![t] = "done"]
      /\ live' = [live EXCEPT ![g] = @ - 1]
      /\ UNCHANGED <<ctxGroup, taskGroup, gstate, owner, parent>>
      /\ g \in Groups
  BY <1>1 DEF Finish, At, Threads, taskVars, Homes
<1>3. live[g] > 0
  BY <1>1, <1>2, PendingCounted DEF Pending
<1>4. TypeOK'
  BY <1>1, <1>2, <1>3 DEF Finish, TypeOK, PCs, taskVars
<1>5. Locals'
  BY <1>1, <1>2, ThreadAssumption DEF Finish, Locals, TypeOK, taskVars
<1>6. /\ \A u \in Threads : Active(u)' => Active(u)
      /\ \A u \in Tasks \ {t} : Pending(u)' <=> Pending(u)
      /\ ~Pending(t)' /\ Pending(t)
  BY <1>1, <1>2 DEF Active, Pending, TypeOK, Threads
<1>7. \A h \in Groups : gstate[h] = "open" => owner[h] \in Threads
  BY <1>1 DEF Homes
<1>8. Homes'
  BY <1>1, <1>2 DEF Homes, TypeOK
<1>9. LiveExact'
  <2> SUFFICES ASSUME NEW h \in Groups
               PROVE  live'[h] = Cardinality({u \in Members(h) : Pending(u)}')
    BY DEF LiveExact
  <2> DEFINE S == {u \in Members(h) : Pending(u)}
  <2>1. IsFiniteSet(S) /\ live[h] = Cardinality(S)
    BY <1>1, ThreadAssumption, FS_Subset DEF LiveExact, Members
  <2>2. CASE h = g
    <3>1. t \in S /\ S' = S \ {t}
      BY <1>2, <1>6, <2>2 DEF Members
    <3>2. Cardinality(S \ {t}) = Cardinality(S) - 1
      BY <2>1, <3>1, FS_RemoveElement
    <3>3. live'[h] = live[h] - 1
      BY <1>1, <1>2, <2>2 DEF TypeOK
    <3> QED
      BY <2>1, <3>1, <3>2, <3>3
  <2>3. CASE h # g
    <3>1. S' = S
      BY <1>2, <1>6, <2>3 DEF Members
    <3> QED
      BY <1>1, <1>2, <2>1, <2>3, <3>1 DEF TypeOK
  <2> QED
    BY <2>2, <2>3
<1>10. JoinedTasksDone'
  BY <1>1, <1>2, <1>6 DEF JoinedTasksDone, Members
<1>11. Context' /\ Nesting' /\ Linear'
  BY <1>1, <1>2, <1>6, <1>7 DEF Context, Nesting, Linear, Its, Active
<1> QED
  BY <1>4, <1>5, <1>8, <1>9, <1>10, <1>11 DEF IInv, Structure

(* What a block delivers has the type of an outcome. *)
LEMMA DeliveredType ==
  ASSUME TypeOK, NEW g \in Groups
  PROVE  Delivered(g) \in Outcomes
<1>1. failure[g] \in Excs \cup {None} /\ suppressed[g] \in Seq(Excs)
  BY DEF TypeOK
<1>2. <<"Timeout", g>> \in Excs
  BY DEF Excs
<1>3. (IF failure[g] = None THEN <<>> ELSE <<failure[g]>>) \o suppressed[g] \in Seq(Excs)
  BY <1>1
<1> QED
  BY <1>1, <1>2, <1>3 DEF Delivered, Outcomes

(* The group that is freed has no live task, so the joining thread pushed   *)
(* it (a group it was spawned in counts it), no other thread stands in it,  *)
(* and no open group of a living thread hangs from it.                      *)
LEMMA JoinDoneStep ==
  ASSUME IInv, NEW th \in Threads, NEW asValue \in BOOLEAN, JoinDone(th, asValue)
  PROVE  IInv'
<1> DEFINE g == ctxGroup[th]
           p == parent[g]
<1>1. TypeOK /\ Locals /\ Homes /\ LiveExact /\ JoinedTasksDone /\ Context
      /\ Nesting /\ Linear
  BY DEF IInv, Structure
<1>2. /\ pc[th] \in {"joining", "exiting"} /\ Active(th)
      /\ g \in Groups /\ gstate[g] = "open" /\ Its(th, g)
      /\ live[g] = 0
      /\ ctxGroup' = [ctxGroup EXCEPT ![th] = p]
      /\ gstate' = [gstate EXCEPT ![g] = "freed"]
      /\ outcome' = [outcome EXCEPT ![g] = Delivered(g)]
      /\ UNCHANGED <<awaits, ops, taskGroup, owner, parent, live, cancelled,
                     failure, suppressed, deadline, timedOut>>
      /\ p \in Groups \cup {None}
  BY <1>1 DEF JoinDone, Joining, Joined, EnclosingGroup, At, Context, Active, TypeOK
<1>3. /\ pc' \in [Threads -> PCs]
      /\ blocks' \in [Threads -> Seq(Groups \cup {Try})]
      /\ exc' \in [Tasks -> Excs \cup {None}]
      /\ raised' \in [Tasks -> Excs \cup {None}]
      /\ \A u \in Threads : u # th => pc'[u] = pc[u]
      /\ pc'[th] \in {"run", "crashed", "failing", "exited"}
      /\ pc'[th] = "failing" => th \in Tasks /\ raised'[th] \in Excs
      /\ \A t \in Tasks : pc[t] = "failing" => raised'[t] = raised[t]
  <2>1. Delivered(g) \in Outcomes
    BY <1>1, <1>2, DeliveredType
  <2>2. CASE Throw(th, Delivered(g).exc) /\ Delivered(g).exc # None
    <3>1. Delivered(g).exc \in Excs
      BY <2>1, <2>2 DEF Outcomes
    <3> QED
      BY <1>1, <1>2, <2>2, <3>1, ThrowStep
  <2>3. CASE /\ pc' = [pc EXCEPT ![th] = IF @ = "joining" THEN "run" ELSE "exited"]
             /\ UNCHANGED <<blocks, exc, raised>>
    BY <1>1, <1>2, <2>3 DEF TypeOK, PCs
  <2> QED
    BY <2>2, <2>3 DEF JoinDone
<1>4. TypeOK'
  <2>1. Delivered(g) \in Outcomes
    BY <1>1, <1>2, DeliveredType
  <2> QED
    BY <1>1, <1>2, <1>3, <2>1 DEF TypeOK
<1>5. Locals'
  BY <1>1, <1>2, <1>3, ThreadAssumption DEF Locals, TypeOK, Threads
<1>6. \A u \in Threads : Active(u)' => Active(u)
  BY <1>2, <1>3 DEF Active
<1>7. \A t \in Tasks : (Pending(t)' <=> Pending(t)) /\ t \in Threads
  BY <1>2, <1>3 DEF Pending, Threads
<1>8. Homes'
  BY <1>1, <1>2, <1>3 DEF Homes, TypeOK, Threads
<1>9. LiveExact'
  <2>1. ASSUME NEW h \in Groups
        PROVE  {u \in Members(h) : Pending(u)}' = {u \in Members(h) : Pending(u)}
    BY <1>2, <1>7 DEF Members
  <2> QED
    BY <1>1, <1>2, <2>1 DEF LiveExact
<1>10. \A t \in Tasks : taskGroup[t] = g => ~Pending(t)
  BY <1>1, <1>2, PendingCounted
<1>11. JoinedTasksDone'
  BY <1>1, <1>2, <1>7, <1>10 DEF JoinedTasksDone, Members, TypeOK
<1>12. \A u \in Threads : Active(u) /\ Its(u, g) => owner[g] = u
  BY <1>10 DEF Its, Active, Pending
<1>13. owner[g] = th
  BY <1>2, <1>12
<1>14. p # g /\ (p # None => gstate[p] = "open" /\ Its(th, p))
       /\ (th \in Tasks => p # None)
  BY <1>1, <1>2, <1>13 DEF Nesting, Linear
<1>15. \A h \in Groups : gstate'[h] = "open" =>
         h # g /\ gstate[h] = "open" /\ owner[h] \in Threads
  BY <1>1, <1>2 DEF Homes, TypeOK
<1>16. Context'
  <2> SUFFICES ASSUME NEW u \in Threads, Active(u)'
               PROVE  (/\ u \in Tasks => ctxGroup[u] # None
                       /\ ctxGroup[u] # None =>
                            gstate[ctxGroup[u]] = "open" /\ Its(u, ctxGroup[u]))'
    BY DEF Context
  <2>1. CASE u = th
    BY <1>1, <1>2, <1>14, <2>1 DEF Its, TypeOK
  <2>2. CASE u # th
    <3>1. Active(u) /\ ctxGroup'[u] = ctxGroup[u]
      BY <1>1, <1>2, <1>6, <2>2 DEF TypeOK
    <3>2. ctxGroup[u] # g
      BY <1>1, <1>2, <1>12, <1>13, <2>2, <3>1, NoneAssumption DEF Context
    <3> QED
      BY <1>1, <1>2, <3>1, <3>2 DEF Context, Its, TypeOK
  <2> QED
    BY <2>1, <2>2
<1>17. Nesting'
  <2> SUFFICES ASSUME NEW h \in Groups, gstate'[h] = "open", Active(owner[h])'
               PROVE  (/\ owner[h] \in Tasks => parent[h] # None
                       /\ parent[h] # None =>
                            gstate[parent[h]] = "open" /\ Its(owner[h], parent[h]))'
    BY DEF Nesting
  <2>1. /\ h # g /\ gstate[h] = "open" /\ owner[h] \in Threads /\ Active(owner[h])
        /\ owner'[h] = owner[h] /\ parent'[h] = parent[h]
    BY <1>2, <1>6, <1>15 DEF Active
  <2>2. parent[h] # g
    <3> SUFFICES ASSUME parent[h] = g PROVE FALSE
      OBVIOUS
    <3>1. g # None /\ Its(owner[h], g)
      BY <1>1, <1>2, <2>1, NoneAssumption DEF Nesting
    <3>2. owner[h] = th
      BY <1>12, <1>13, <2>1, <3>1
    <3> QED
      BY <1>1, <2>1, <3>2 DEF Linear
  <2> QED
    BY <1>1, <1>2, <2>1, <2>2 DEF Nesting, Its, TypeOK
<1>18. Linear'
  <2>1. \A h \in Groups :
          gstate'[h] = "open" /\ Active(owner[h])' =>
            /\ h # g /\ gstate[h] = "open" /\ owner[h] \in Threads /\ Active(owner[h])
            /\ owner'[h] = owner[h] /\ parent'[h] = parent[h]
    BY <1>2, <1>6, <1>15 DEF Active
  <2>2. \A h \in Groups :
          gstate'[h] = "open" /\ Active(owner[h])' => parent'[h] # ctxGroup'[owner'[h]]
    BY <1>1, <1>2, <1>13, <2>1 DEF Linear, TypeOK
  <2>3. \A h, k \in Groups :
          /\ gstate'[h] = "open" /\ gstate'[k] = "open"
          /\ owner'[h] = owner'[k] /\ Active(owner[h])'
          /\ parent'[h] = parent'[k]
          => h = k
    BY <1>1, <1>2, <1>15, <2>1 DEF Linear
  <2> QED
    BY <2>2, <2>3 DEF Linear
<1> QED
  BY <1>4, <1>5, <1>8, <1>9, <1>11, <1>16, <1>17, <1>18 DEF IInv, Structure
-----------------------------------------------------------------------------
(* A step that changes nothing keeps the invariant. *)
LEMMA StutterStep ==
  ASSUME IInv, UNCHANGED vars
  PROVE  IInv'
<1> USE DEF vars, threadVars, taskVars, groupVars
<1>1. TypeOK' /\ Locals'
  BY DEF IInv, TypeOK, Locals
<1>2. Quiet
  BY DEF Quiet, Active
<1> QED
  BY <1>1, <1>2, QuietStructure DEF IInv

(* Every step keeps the invariant. *)
LEMMA NextIInv == IInv /\ [Next]_vars => IInv'
<1> SUFFICES ASSUME IInv, [Next]_vars PROVE IInv'
  OBVIOUS
<1>1. ASSUME NEW th \in Threads, Runtime(th)
      PROVE  IInv'
  <2>1. CASE CancelPoint(th) \/ AwaitDone(th)
    BY <2>1, ThrowingStep, QuietStructure DEF IInv
  <2>2. CASE JoinTimeout(th) \/ GroupEnd(th)
    BY <2>2, WaitStep, QuietStructure DEF IInv
  <2>3. CASE \E asValue \in BOOLEAN : JoinDone(th, asValue)
    BY <2>3, JoinDoneStep
  <2>4. CASE LeaveTry(th)
    BY <2>4, BlockStep, QuietStructure DEF IInv
  <2>5. CASE th \in Tasks /\ Start(th)
    BY <2>5, StartStep
  <2>6. CASE th \in Tasks /\ (GroupFail(th) \/ \E isError \in BOOLEAN : Return(th, isError))
    BY <2>6, TaskEndStep, QuietStructure DEF IInv
  <2>7. CASE th \in Tasks /\ Finish(th)
    BY <2>7, FinishStep
  <2> QED
    BY <1>1, <2>1, <2>2, <2>3, <2>4, <2>5, <2>6, <2>7 DEF Runtime
<1>2. ASSUME NEW th \in Threads, Program(th)
      PROVE  IInv'
  <2>1. CASE EnterTry(th) \/ TryReturns(th) \/ Block(th) \/ Unblock(th)
    BY <2>1, BlockStep, QuietStructure DEF IInv
  <2>2. CASE UserThrow(th)
    BY <2>2, ThrowingStep, QuietStructure DEF IInv
  <2>3. CASE \E g \in Groups, timed \in BOOLEAN : GroupBegin(th, g, timed)
    BY <2>3, GroupBeginStep
  <2>4. CASE \E t \in Tasks : Spawn(th, t)
    BY <2>4, SpawnStep
  <2>5. CASE \E t \in Tasks : Await(th, t)
    BY <2>5, WaitStep, QuietStructure DEF IInv
  <2> QED
    BY <1>2, <2>1, <2>2, <2>3, <2>4, <2>5 DEF Program
<1>3. CASE Clock
  <2>1. Main \in Threads
    BY DEF Threads
  <2> QED
    BY <1>3, <2>1, WaitStep, QuietStructure DEF IInv
<1>4. CASE Gone \/ UNCHANGED vars
  BY <1>4, StutterStep DEF Gone
<1> QED
  BY <1>1, <1>2, <1>3, <1>4 DEF Next

(* The invariant holds in every reachable state. *)
LEMMA Invariance == Spec => []IInv
<1> QED
  BY InitIInv, NextIInv, PTL DEF Spec

(* Every variable keeps its type: in particular g->live never goes below    *)
(* zero, and only exceptions reach group_fail (task.c, every function).     *)
THEOREM TypeCorrect == Spec => []TypeOK
<1>1. IInv => TypeOK
  BY DEF IInv
<1> QED
  BY <1>1, Invariance, PTL

(* g->live (task_new, the end of task_main) is the number of tasks in the   *)
(* group, for any number of tasks and groups and whatever the program does. *)
THEOREM LiveCountsTasks == Spec => []LiveExact
<1>1. IInv => LiveExact
  BY DEF IInv, Structure
<1> QED
  BY <1>1, Invariance, PTL

(* vl_group_end frees a group only when every task spawned in it is done,   *)
(* though threads also leave group blocks without ending them.              *)
THEOREM FreedGroupHasNoTask == Spec => []JoinedTasksDone
<1>1. IInv => JoinedTasksDone
  BY DEF IInv, Structure
<1> QED
  BY <1>1, Invariance, PTL

(* The group a living thread spawns into and is cancelled with is allocated *)
(* (or main's context holds none): c->group never dangles.                  *)
THEOREM ContextNotFreed ==
  Spec => [](\A th \in Threads :
               Active(th) /\ ctxGroup[th] # None => gstate[ctxGroup[th]] = "open")
<1>1. IInv => \A th \in Threads :
                Active(th) /\ ctxGroup[th] # None => gstate[ctxGroup[th]] = "open"
  BY DEF IInv, Structure, Context
<1> QED
  BY <1>1, Invariance, PTL
=============================================================================
