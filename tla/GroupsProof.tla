----------------------------- MODULE GroupsProof -----------------------------
(***************************************************************************)
(* More about Tasks, for any tasks and groups: what the end of a block     *)
(* delivers accounts for every failure, where a thread's context stands    *)
(* among its blocks, and, for programs in which no exception leaves a      *)
(* group body, that groups keep the promise of StructuredGroups.           *)
(***************************************************************************)
EXTENDS TasksProof

-----------------------------------------------------------------------------
(* Failures.  *)

(* The failures a group has recorded, in order. *)
Reported(g) == (IF failure[g] = None THEN <<>> ELSE <<failure[g]>>) \o suppressed[g]

(* The tasks of a group whose failure it has recorded. *)
FailedIn(g) == {t \in Members(g) : raised[t] # None /\ pc[t] # "failing"}

(* order enumerates the failed tasks in the order the group recorded them. *)
Orders(g, order) ==
  /\ \A i, j \in DOMAIN order : order[i] = order[j] => i = j
  /\ \A t \in FailedIn(g) : \E i \in DOMAIN order : order[i] = t
  /\ \A i \in DOMAIN order : Reported(g)[i] = raised[order[i]]

Listed ==
  \A g \in Groups : \E order \in [1 .. Len(Reported(g)) -> FailedIn(g)] : Orders(g, order)

FirstKept == \A g \in Groups : failure[g] = None => suppressed[g] = <<>>

Unraised == \A t \in Tasks : raised[t] # None => pc[t] \in {"failing", "finishing", "done"}

(* A group's Timeout comes to be when the group is freed. *)
TimeoutEnded ==
  \A g \in Groups :
    (\/ \E t \in Tasks : exc[t] = <<"Timeout", g>> \/ raised[t] = <<"Timeout", g>>
     \/ \E h \in Groups : failure[h] = <<"Timeout", g>>)
    => gstate[g] = "freed"

(* So no task of the group raises it. *)
OwnTimeout == \A t \in Tasks : raised[t] # None => raised[t] # <<"Timeout", taskGroup[t]>>

Frozen == \A g \in Groups : gstate[g] = "freed" => outcome[g] = Delivered(g)

Reports == Listed /\ FirstKept /\ Unraised /\ TimeoutEnded /\ OwnTimeout /\ Frozen

(* The list is typed, and empty exactly if nothing failed. *)
LEMMA ReportedType ==
  ASSUME TypeOK, NEW g \in Groups
  PROVE  Reported(g) \in Seq(Excs)
<1>1. failure[g] \in Excs \cup {None} /\ suppressed[g] \in Seq(Excs)
  BY DEF TypeOK
<1> QED BY <1>1 DEF Reported

(* A step that records no failure, raises none, and joins no group.  *)
LEMMA SameReports ==
  ASSUME TypeOK, Reports, UNCHANGED <<exc, raised, failure, suppressed, outcome>>,
         \A g \in Groups : (gstate'[g] = "freed") <=> (gstate[g] = "freed"),
         \A g \in Groups : gstate[g] = "freed" => timedOut'[g] = timedOut[g],
         \A t \in Tasks : (pc'[t] = "failing") <=> (pc[t] = "failing"),
         \A t \in Tasks : raised[t] # None =>
           taskGroup'[t] = taskGroup[t] /\ pc'[t] \in {"failing", "finishing", "done"}
  PROVE  Reports'
<1>1. \A g \in Groups : Reported(g)' = Reported(g) /\ FailedIn(g)' = FailedIn(g)
  BY DEF Reported, FailedIn, Members
<1>2. Listed'
  <2>1. SUFFICES ASSUME NEW g \in Groups
                 PROVE  (\E order \in [1 .. Len(Reported(g)) -> FailedIn(g)] : Orders(g, order))'
    BY DEF Listed
  <2>2. PICK order \in [1 .. Len(Reported(g)) -> FailedIn(g)] : Orders(g, order)
    BY DEF Reports, Listed
  <2>3. Orders(g, order)'
    BY <1>1, <2>2 DEF Orders, FailedIn
  <2> QED BY <1>1, <2>3
<1>3. Frozen'
  BY DEF Reports, Frozen, Delivered
<1>4. FirstKept' /\ Unraised' /\ TimeoutEnded' /\ OwnTimeout'
  BY DEF Reports, FirstKept, Unraised, TimeoutEnded, OwnTimeout
<1> QED BY <1>2, <1>3, <1>4 DEF Reports

(* A task raises an exception, or a thread catches one or ends with it.     *)
LEMMA RaisedReports ==
  ASSUME TypeOK, Reports, Locals, JoinedTasksDone', TypeOK',
         NEW th \in Threads, Active(th), pc[th] # "failing", pc[th] # "finishing",
         NEW e \in Excs,
         \A g \in Groups : e = <<"Timeout", g>> => gstate'[g] = "freed",
         UNCHANGED <<failure, suppressed, taskGroup, timedOut>>,
         \A u \in Threads : u # th => pc'[u] = pc[u],
         \A t \in Tasks : t # th => raised'[t] = raised[t] /\ exc'[t] = exc[t],
         \/ raised' = raised /\ pc'[th] # "failing"
         \/ pc'[th] = "failing" /\ th \in Tasks /\ raised'[th] = e,
         \A t \in Tasks : exc'[t] \in {exc[t], e},
         \A g \in Groups : gstate[g] = "freed" => gstate'[g] = "freed" /\ outcome'[g] = outcome[g],
         \A g \in Groups : gstate[g] # "freed" /\ gstate'[g] = "freed" => outcome'[g] = Delivered(g)
  PROVE  Reports'
<1>1. th \in Tasks => raised[th] = None
  BY DEF Reports, Unraised, Active
<1>2. \A t \in Tasks : t # th => pc'[t] = pc[t] /\ raised'[t] = raised[t]
  BY DEF Threads
<1>3. \A g \in Groups : Reported(g)' = Reported(g) /\ FailedIn(g)' = FailedIn(g)
  BY <1>1, <1>2 DEF Reported, FailedIn, Members
<1>4. \A g \in Groups : \A t \in FailedIn(g) : raised'[t] = raised[t]
  BY <1>1, <1>2 DEF FailedIn, Members
<1>5. Listed'
  <2>1. SUFFICES ASSUME NEW g \in Groups
                 PROVE  (\E order \in [1 .. Len(Reported(g)) -> FailedIn(g)] : Orders(g, order))'
    BY DEF Listed
  <2>2. PICK order \in [1 .. Len(Reported(g)) -> FailedIn(g)] : Orders(g, order)
    BY DEF Reports, Listed
  <2>3. Orders(g, order)'
    BY <1>3, <1>4, <2>2 DEF Orders
  <2> QED BY <1>3, <2>3
<1>6. FirstKept' /\ Unraised'
  BY <1>1, <1>2 DEF Reports, FirstKept, Unraised
<1>7. \A t \in Tasks : raised'[t] \in {raised[t], e}
  BY <1>2
<1>8. TimeoutEnded'
  BY <1>7 DEF Reports, TimeoutEnded
<1>9. OwnTimeout'
  <2>1. SUFFICES ASSUME NEW t \in Tasks, raised'[t] # None PROVE raised'[t] # <<"Timeout", taskGroup[t]>>
    BY DEF OwnTimeout
  <2>2. CASE raised'[t] = raised[t]
    BY <2>1, <2>2 DEF Reports, OwnTimeout
  <2>3. CASE raised'[t] # raised[t]
    <3>1. t = th /\ pc'[t] = "failing" /\ raised'[t] = e
      BY <1>2, <2>3
    <3>2. taskGroup[t] \in Groups => gstate'[taskGroup[t]] # "freed"
      BY <3>1 DEF JoinedTasksDone, Members, Pending
    <3>3. taskGroup[t] \notin Groups => e # <<"Timeout", taskGroup[t]>>
      BY DEF Excs
    <3> QED BY <3>1, <3>2, <3>3
  <2> QED BY <2>2, <2>3
<1>10. Frozen'
  BY DEF Reports, Frozen, Delivered
<1> QED BY <1>5, <1>6, <1>8, <1>9, <1>10 DEF Reports

(* group_fail: the failure goes to the end of the list. *)
LEMMA RecordStep ==
  ASSUME TypeOK, Locals, Homes, JoinedTasksDone, Reports, NEW t \in Tasks, GroupFail(t)
  PROVE  Reports'
<1>0. PICK g \in Groups : g = taskGroup[t]
  BY DEF GroupFail, At, Homes
<1>1. /\ pc[t] = "failing" /\ pc' = [pc EXCEPT ![t] = "finishing"] /\ t \in Threads
      /\ g \in Groups /\ raised[t] \in Excs /\ raised[t] # None
      /\ RecordFailure(g, raised[t])
      /\ UNCHANGED <<exc, raised, taskGroup, gstate, timedOut, outcome>>
  BY <1>0, ExcAssumption DEF GroupFail, At, Threads, Locals, Homes, taskVars
<1>2. gstate[g] # "freed"
  BY <1>0, <1>1 DEF JoinedTasksDone, Members, Pending
<1>3. /\ \A h \in Groups : h # g => failure'[h] = failure[h] /\ suppressed'[h] = suppressed[h]
      /\ Reported(g)' = Append(Reported(g), raised[t])
      /\ failure'[g] # None
      /\ \A h \in Groups : failure'[h] \in {failure[h], raised[t]}
  <2>1. failure[g] \in Excs \cup {None} /\ suppressed[g] \in Seq(Excs)
    BY <1>1 DEF TypeOK
  <2>2. CASE failure[g] = None
    <3>1. /\ failure' = [failure EXCEPT ![g] = raised[t]] /\ suppressed' = suppressed
          /\ suppressed[g] = <<>>
      BY <1>1, <2>2 DEF RecordFailure, Reports, FirstKept
    <3>2. failure'[g] = raised[t] /\ suppressed'[g] = <<>>
      BY <1>1, <3>1 DEF TypeOK
    <3> QED BY <1>1, <2>2, <3>1, <3>2 DEF Reported, TypeOK
  <2>3. CASE failure[g] # None
    <3>1. failure' = failure /\ suppressed' = [suppressed EXCEPT ![g] = Append(@, raised[t])]
      BY <1>1, <2>3 DEF RecordFailure
    <3>2. suppressed'[g] = Append(suppressed[g], raised[t])
      BY <1>1, <3>1 DEF TypeOK
    <3>3. <<failure[g]>> \o Append(suppressed[g], raised[t])
            = Append(<<failure[g]>> \o suppressed[g], raised[t])
      BY <1>1, <2>1, <2>3
    <3> QED BY <1>1, <2>3, <3>1, <3>2, <3>3 DEF Reported, TypeOK
  <2> QED BY <2>2, <2>3
<1>4. /\ FailedIn(g)' = FailedIn(g) \cup {t} /\ t \notin FailedIn(g)
      /\ \A h \in Groups : h # g => FailedIn(h)' = FailedIn(h) /\ Reported(h)' = Reported(h)
  <2>1. \A u \in Tasks : pc'[u] = IF u = t THEN "finishing" ELSE pc[u]
    BY <1>1 DEF TypeOK, Threads
  <2>2. \A h \in Groups : FailedIn(h)' = IF h = g THEN FailedIn(h) \cup {t} ELSE FailedIn(h)
    BY <1>0, <1>1, <2>1 DEF FailedIn, Members
  <2>3. t \notin FailedIn(g)
    BY <1>1 DEF FailedIn
  <2>4. \A h \in Groups : h # g => Reported(h)' = Reported(h)
    BY <1>3 DEF Reported
  <2> QED BY <2>2, <2>3, <2>4
<1>5. Listed'
  <2>1. SUFFICES ASSUME NEW h \in Groups
                 PROVE  (\E order \in [1 .. Len(Reported(h)) -> FailedIn(h)] : Orders(h, order))'
    BY DEF Listed
  <2>2. PICK order \in [1 .. Len(Reported(h)) -> FailedIn(h)] : Orders(h, order)
    BY DEF Reports, Listed
  <2>3. CASE h # g
    <3>1. Orders(h, order)'
      BY <1>1, <1>4, <2>2, <2>3 DEF Orders
    <3> QED BY <1>4, <2>3, <3>1
  <2>4. CASE h = g
    <3>1. PICK n \in Nat : n = Len(Reported(g)) /\ Reported(g) \in Seq(Excs)
      BY <1>1, ReportedType
    <3>2. /\ Len(Reported(g)') = n + 1 /\ Reported(g)'[n + 1] = raised[t]
          /\ \A i \in 1 .. n : Reported(g)'[i] = Reported(g)[i]
      BY <1>1, <1>3, <3>1
    <3> DEFINE with == [i \in 1 .. n + 1 |-> IF i = n + 1 THEN t ELSE order[i]]
    <3>3. with \in [1 .. n + 1 -> FailedIn(g) \cup {t}]
      BY <2>2, <2>4, <3>1
    <3>4. \A i, j \in DOMAIN with : with[i] = with[j] => i = j
      BY <1>4, <2>2, <2>4, <3>1 DEF Orders
    <3>5. \A u \in FailedIn(g) \cup {t} : \E i \in DOMAIN with : with[i] = u
      BY <2>2, <2>4, <3>1 DEF Orders
    <3>6. \A i \in DOMAIN with : Reported(g)'[i] = raised'[with[i]]
      BY <1>1, <2>2, <2>4, <3>1, <3>2 DEF Orders
    <3> HIDE DEF with
    <3>7. PICK longer \in [1 .. n + 1 -> FailedIn(g) \cup {t}] :
            /\ \A i, j \in DOMAIN longer : longer[i] = longer[j] => i = j
            /\ \A u \in FailedIn(g) \cup {t} : \E i \in DOMAIN longer : longer[i] = u
            /\ \A i \in DOMAIN longer : Reported(g)'[i] = raised'[longer[i]]
      BY <3>3, <3>4, <3>5, <3>6
    <3>8. Orders(g, longer)'
      BY <1>4, <3>7 DEF Orders
    <3> QED BY <1>4, <2>4, <3>2, <3>7, <3>8
  <2> QED BY <2>3, <2>4
<1>6. FirstKept' /\ Unraised' /\ OwnTimeout'
  BY <1>1, <1>3 DEF Reports, FirstKept, Unraised, OwnTimeout, Threads, TypeOK
<1>7. TimeoutEnded'
  BY <1>1, <1>3 DEF Reports, TimeoutEnded
<1>8. Frozen'
  BY <1>1, <1>2, <1>3 DEF Reports, Frozen, Delivered
<1> QED BY <1>5, <1>6, <1>7, <1>8 DEF Reports

(* What a throw does to failures. *)
LEMMA ThrowRaises ==
  ASSUME TypeOK, NEW th \in Threads, NEW e \in Excs, Throw(th, e)
  PROVE  /\ \A u \in Threads : u # th => pc'[u] = pc[u]
         /\ \A t \in Tasks : t # th => raised'[t] = raised[t] /\ exc'[t] = exc[t]
         /\ \/ raised' = raised /\ pc'[th] # "failing"
            \/ pc'[th] = "failing" /\ th \in Tasks /\ raised'[th] = e
         /\ \A t \in Tasks : exc'[t] \in {exc[t], e}
<1>1. pc \in [Threads -> PCs] /\ exc \in [Tasks -> Excs \cup {None}]
      /\ raised \in [Tasks -> Excs \cup {None}]
  BY DEF TypeOK
<1>2. CASE pc' = [pc EXCEPT ![th] = "run"] /\ UNCHANGED <<exc, raised>>
  BY <1>1, <1>2
<1>3. CASE pc' = [pc EXCEPT ![th] = "crashed"] /\ UNCHANGED <<exc, raised>>
  BY <1>1, <1>3
<1>4. CASE /\ th \in Tasks /\ pc' = [pc EXCEPT ![th] = "failing"]
           /\ exc' = [exc EXCEPT ![th] = e] /\ raised' = [raised EXCEPT ![th] = e]
  BY <1>1, <1>4
<1> QED BY <1>2, <1>3, <1>4 DEF Throw

(* A throw by the program, at a cancellation point or out of an await. *)
LEMMA ThrowReports ==
  ASSUME IInv, IInv', Reports, NEW th \in Threads,
         UserThrow(th) \/ CancelPoint(th) \/ (AwaitDone(th) /\ exc[awaits[th]] # None)
  PROVE  Reports'
<1>1. TypeOK /\ Locals /\ TypeOK' /\ JoinedTasksDone'
  BY DEF IInv, Structure
<1>2. PICK e \in Excs :
        /\ Throw(th, e) /\ pc[th] \in {"run", "blocked", "await"}
        /\ \A g \in Groups : e = <<"Timeout", g>> => gstate[g] = "freed"
        /\ UNCHANGED <<taskGroup, groupVars>>
  <2>1. CASE UserThrow(th)
    <3>1. <<"Boom", th>> \in Excs
      BY DEF Excs
    <3> QED BY <2>1, <3>1 DEF UserThrow, At
  <2>2. CASE CancelPoint(th)
    <3>1. <<"Cancelled", th>> \in Excs
      BY DEF Excs
    <3> QED BY <2>2, <3>1 DEF CancelPoint, At
  <2>3. CASE AwaitDone(th) /\ exc[awaits[th]] # None
    <3>1. awaits[th] \in Tasks /\ exc[awaits[th]] \in Excs
      BY <1>1, <2>3 DEF AwaitDone, At, Locals, TypeOK
    <3> QED BY <2>3, <3>1 DEF AwaitDone, At, Reports, TimeoutEnded
  <2> QED BY <2>1, <2>2, <2>3
<1>3. /\ \A u \in Threads : u # th => pc'[u] = pc[u]
      /\ \A t \in Tasks : t # th => raised'[t] = raised[t] /\ exc'[t] = exc[t]
      /\ \/ raised' = raised /\ pc'[th] # "failing"
         \/ pc'[th] = "failing" /\ th \in Tasks /\ raised'[th] = e
      /\ \A t \in Tasks : exc'[t] \in {exc[t], e}
  BY <1>1, <1>2, ThrowRaises
<1> QED BY <1>1, <1>2, <1>3, RaisedReports DEF groupVars, Active

(* The group is freed with what it delivers. *)
LEMMA JoinReports ==
  ASSUME IInv, IInv', Reports, NEW th \in Threads, NEW asValue \in BOOLEAN,
         JoinDone(th, asValue)
  PROVE  Reports'
<1>1. TypeOK /\ Locals /\ TypeOK' /\ JoinedTasksDone' /\ Context
  BY DEF IInv, Structure
<1>2. PICK g \in Groups : g = ctxGroup[th]
  BY <1>1 DEF JoinDone, Joining, TypeOK
<1>3. /\ pc[th] \in {"joining", "exiting"} /\ Active(th) /\ gstate[g] = "open"
      /\ gstate' = [gstate EXCEPT ![g] = "freed"]
      /\ outcome' = [outcome EXCEPT ![g] = Delivered(g)]
      /\ UNCHANGED <<failure, suppressed, taskGroup, timedOut>>
  BY <1>1, <1>2, NoneAssumption DEF JoinDone, Joining, At, Context, Active
<1>4. /\ \A h \in Groups : gstate[h] = "freed" => gstate'[h] = "freed" /\ outcome'[h] = outcome[h]
      /\ \A h \in Groups : gstate[h] # "freed" /\ gstate'[h] = "freed" => outcome'[h] = Delivered(h)
      /\ gstate'[g] = "freed"
  BY <1>1, <1>3 DEF TypeOK
<1>5. CASE Delivered(g).exc # None /\ Throw(th, Delivered(g).exc)
  <2>1. PICK e \in Excs : e = Delivered(g).exc
    BY <1>1, <1>5, DeliveredType DEF Outcomes
  <2>2. \A h \in Groups : e = <<"Timeout", h>> => gstate'[h] = "freed"
    <3>1. SUFFICES ASSUME NEW h \in Groups, e = <<"Timeout", h>> PROVE gstate'[h] = "freed"
      OBVIOUS
    <3>2. e = <<"Timeout", g>> \/ e = failure[g]
      BY <2>1 DEF Delivered
    <3>3. CASE e = <<"Timeout", g>>
      BY <1>4, <3>1, <3>3
    <3>4. CASE e = failure[g]
      BY <1>4, <3>1, <3>4 DEF Reports, TimeoutEnded
    <3> QED BY <3>2, <3>3, <3>4
  <2>3. /\ \A u \in Threads : u # th => pc'[u] = pc[u]
        /\ \A t \in Tasks : t # th => raised'[t] = raised[t] /\ exc'[t] = exc[t]
        /\ \/ raised' = raised /\ pc'[th] # "failing"
           \/ pc'[th] = "failing" /\ th \in Tasks /\ raised'[th] = e
        /\ \A t \in Tasks : exc'[t] \in {exc[t], e}
    BY <1>1, <1>5, <2>1, ThrowRaises
  <2> QED BY <1>1, <1>3, <1>4, <2>2, <2>3, RaisedReports
<1>6. CASE /\ pc' = [pc EXCEPT ![th] = IF @ = "joining" THEN "run" ELSE "exited"]
           /\ UNCHANGED <<blocks, exc, raised>>
  <2>1. PICK e \in Excs : \A h \in Groups : e # <<"Timeout", h>>
    <3>1. <<"Boom", th>> \in Excs
      BY DEF Excs
    <3> QED BY <3>1
  <2>2. /\ \A u \in Threads : u # th => pc'[u] = pc[u]
        /\ pc'[th] # "failing"
    BY <1>1, <1>3, <1>6 DEF TypeOK
  <2> QED BY <1>1, <1>3, <1>4, <1>6, <2>1, <2>2, RaisedReports
<1> QED BY <1>2, <1>5, <1>6 DEF JoinDone

(* A task's body returns an error value. *)
LEMMA ReturnReports ==
  ASSUME IInv, IInv', Reports, NEW t \in Tasks, NEW isError \in BOOLEAN, Return(t, isError)
  PROVE  Reports'
<1>1. TypeOK /\ Locals /\ TypeOK' /\ JoinedTasksDone' /\ t \in Threads
  BY DEF IInv, Structure, Threads
<1>2. /\ pc[t] = "run" /\ Active(t)
      /\ pc' = [pc EXCEPT ![t] = IF isError THEN "failing" ELSE "finishing"]
      /\ raised' = IF isError THEN [raised EXCEPT ![t] = <<"Boom", t>>] ELSE raised
      /\ UNCHANGED <<taskGroup, exc, groupVars>>
  BY DEF Return, At, Active
<1>3. PICK e \in Excs : e = <<"Boom", t>>
  BY <1>1 DEF Excs
<1>4. /\ \A u \in Threads : u # t => pc'[u] = pc[u]
      /\ \A u \in Tasks : u # t => raised'[u] = raised[u]
      /\ \/ raised' = raised /\ pc'[t] # "failing"
         \/ pc'[t] = "failing" /\ raised'[t] = e
  BY <1>1, <1>2, <1>3 DEF TypeOK
<1> QED BY <1>1, <1>2, <1>3, <1>4, RaisedReports DEF groupVars

(* Every other step. *)
LEMMA NextReports ==
  ASSUME IInv, IInv', Reports, [Next]_vars
  PROVE  Reports'
<1>1. TypeOK /\ Locals /\ Homes /\ JoinedTasksDone /\ Context
  BY DEF IInv, Structure
<1> USE DEF At, taskVars, groupVars
<1>2. ASSUME NEW th \in Threads,
             EnterTry(th) \/ LeaveTry(th) \/ TryReturns(th) \/ Block(th) \/ Unblock(th)
             \/ GroupEnd(th) \/ (\E t \in Tasks : Await(th, t))
      PROVE  Reports'
  <2>1. /\ UNCHANGED <<exc, raised, failure, suppressed, outcome, taskGroup, gstate, timedOut>>
        /\ \A u \in Threads : u # th => pc'[u] = pc[u]
        /\ pc[th] \in {"run", "blocked"} /\ pc'[th] \in {"run", "blocked", "joining", "exiting", "await"}
    BY <1>1, <1>2 DEF EnterTry, LeaveTry, TryReturns, Block, Unblock, GroupEnd, Await, TypeOK
  <2>2. \A t \in Tasks : (pc'[t] = "failing" <=> pc[t] = "failing")
                         /\ (raised[t] # None => pc'[t] = pc[t])
    BY <2>1 DEF Threads, Reports, Unraised
  <2> QED BY <1>1, <2>1, <2>2, SameReports DEF Reports, Unraised
<1>3. ASSUME NEW th \in Threads, AwaitDone(th), exc[awaits[th]] = None
      PROVE  Reports'
  <2>1. /\ UNCHANGED <<exc, raised, failure, suppressed, outcome, taskGroup, gstate, timedOut>>
        /\ \A u \in Threads : u # th => pc'[u] = pc[u]
        /\ pc[th] = "await" /\ pc'[th] = "run"
    BY <1>1, <1>3 DEF AwaitDone, TypeOK
  <2>2. \A t \in Tasks : (pc'[t] = "failing" <=> pc[t] = "failing")
                         /\ (raised[t] # None => pc'[t] = pc[t])
    BY <2>1 DEF Threads, Reports, Unraised
  <2> QED BY <1>1, <2>1, <2>2, SameReports DEF Reports, Unraised
<1>4. ASSUME NEW th \in Threads, JoinTimeout(th) PROVE Reports'
  <2>1. PICK g \in Groups : g = ctxGroup[th]
    BY <1>1, <1>4 DEF JoinTimeout, Joining, TypeOK
  <2>2. /\ UNCHANGED <<pc, exc, raised, failure, suppressed, outcome, taskGroup, gstate>>
        /\ gstate[g] = "open" /\ timedOut' = [timedOut EXCEPT ![g] = TRUE]
    BY <1>1, <1>4, <2>1, NoneAssumption DEF JoinTimeout, Joining, Context, Active, threadVars
  <2>3. \A h \in Groups : gstate[h] = "freed" => timedOut'[h] = timedOut[h]
    BY <1>1, <2>2 DEF TypeOK
  <2> QED BY <1>1, <2>2, <2>3, SameReports DEF Reports, Unraised
<1>5. ASSUME NEW th \in Threads, NEW g \in Groups, NEW timed \in BOOLEAN, GroupBegin(th, g, timed)
      PROVE  Reports'
  <2>1. /\ UNCHANGED <<pc, exc, raised, failure, suppressed, outcome, taskGroup, timedOut>>
        /\ \A h \in Groups : (gstate'[h] = "freed") <=> (gstate[h] = "freed")
    BY <1>1, <1>5 DEF GroupBegin, TypeOK
  <2> QED BY <1>1, <2>1, SameReports DEF Reports, Unraised
<1>6. ASSUME NEW th \in Threads, NEW t \in Tasks, Spawn(th, t) PROVE Reports'
  <2>1. /\ UNCHANGED <<exc, raised, failure, suppressed, outcome, gstate, timedOut>>
        /\ pc[t] = "unborn" /\ t \in Threads
        /\ \A u \in Threads : pc'[u] = IF u = t THEN "created" ELSE pc[u]
        /\ \A u \in Tasks : u # t => taskGroup'[u] = taskGroup[u]
    BY <1>1, <1>6 DEF Spawn, TypeOK, Threads
  <2>2. \A u \in Tasks : (pc'[u] = "failing" <=> pc[u] = "failing")
                         /\ (raised[u] # None => pc'[u] = pc[u] /\ u # t)
    BY <2>1 DEF Threads, Reports, Unraised
  <2> QED BY <1>1, <2>1, <2>2, SameReports DEF Reports, Unraised
<1>7. ASSUME NEW t \in Tasks, Start(t) \/ Finish(t) PROVE Reports'
  <2>1. /\ UNCHANGED <<exc, raised, failure, suppressed, outcome, taskGroup, gstate, timedOut>>
        /\ t \in Threads
        /\ \A u \in Threads : u # t => pc'[u] = pc[u]
        /\ \/ pc[t] = "created" /\ pc'[t] = "run"
           \/ pc[t] = "finishing" /\ pc'[t] = "done"
    BY <1>1, <1>7 DEF Start, Finish, TypeOK, Threads
  <2>2. \A u \in Tasks : (pc'[u] = "failing" <=> pc[u] = "failing")
                         /\ (raised[u] # None => pc'[u] \in {"failing", "finishing", "done"})
    BY <2>1 DEF Threads, Reports, Unraised
  <2> QED BY <1>1, <2>1, <2>2, SameReports
<1>8. CASE Clock \/ Gone \/ UNCHANGED vars
  <2>1. UNCHANGED <<pc, exc, raised, failure, suppressed, outcome, taskGroup, gstate, timedOut>>
    BY <1>8 DEF Clock, DeadlinePasses, Gone, vars, threadVars
  <2> QED BY <1>1, <2>1, SameReports DEF Reports, Unraised
<1>9. ASSUME NEW t \in Tasks, GroupFail(t) PROVE Reports'
  BY <1>1, <1>9, RecordStep
<1>10. ASSUME NEW th \in Threads, Runtime(th) PROVE Reports'
  BY <1>2, <1>3, <1>4, <1>7, <1>9, <1>10, ThrowReports, JoinReports, ReturnReports DEF Runtime
<1>11. ASSUME NEW th \in Threads, Program(th) PROVE Reports'
  BY <1>2, <1>5, <1>6, <1>11, ThrowReports DEF Program
<1> QED BY <1>8, <1>10, <1>11 DEF Next

LEMMA InitReports == Init => Reports
<1>1. SUFFICES ASSUME Init PROVE Reports
  OBVIOUS
<1>2. /\ \A g \in Groups : failure[g] = None /\ suppressed[g] = <<>>
      /\ \A t \in Tasks : exc[t] = None /\ raised[t] = None
      /\ \A g \in Groups : gstate[g] # "freed"
  BY <1>1 DEF Init
<1>3. \A g \in Groups : Reported(g) = <<>> /\ FailedIn(g) = {}
  BY <1>2 DEF Reported, FailedIn, Members
<1>4. Listed
  <2>1. SUFFICES ASSUME NEW g \in Groups
                 PROVE  \E order \in [1 .. Len(Reported(g)) -> FailedIn(g)] : Orders(g, order)
    BY DEF Listed
  <2> DEFINE none == [i \in 1 .. 0 |-> i]
  <2>2. none \in [1 .. Len(Reported(g)) -> FailedIn(g)] /\ Orders(g, none)
    BY <1>3 DEF Orders
  <2> QED BY <2>2
<1>5. \A g \in Groups : None # <<"Timeout", g>>
  BY ExcAssumption DEF Excs
<1> QED BY <1>2, <1>4, <1>5
        DEF Reports, FirstKept, Unraised, TimeoutEnded, OwnTimeout, Frozen

LEMMA ReportsInvariant == Spec => []Reports
<1>1. IInv /\ IInv' /\ Reports /\ [Next]_vars => Reports'
  BY NextReports
<1> QED BY <1>1, InitReports, Invariance, PTL DEF Spec

LEMMA Interval ==
  ASSUME NEW n \in Nat PROVE IsFiniteSet(1 .. n) /\ Cardinality(1 .. n) = n
<1>1. 1 \in Int /\ n \in Int
  OBVIOUS
<1> QED BY <1>1, FS_Interval

LEMMA HeadAdded ==
  ASSUME NEW S, NEW R \in Seq(S), NEW e
  PROVE  LET list == <<e>> \o R
         IN  /\ list # <<>> /\ list[1] = e /\ Len(list) = Len(R) + 1
             /\ {list[i] : i \in 1 + 1 .. Len(list)} = {R[i] : i \in 1 .. Len(R)}
<1> DEFINE list == <<e>> \o R
<1>1. /\ list # <<>> /\ list[1] = e /\ Len(list) = Len(R) + 1
      /\ \A i \in 1 .. Len(R) : list[i + 1] = R[i]
  OBVIOUS
<1> HIDE DEF list
<1>2. \A i \in 1 + 1 .. Len(list) : i - 1 \in 1 .. Len(R) /\ list[i] = R[i - 1]
  BY <1>1
<1>3. \A i \in 1 .. Len(R) : i + 1 \in 1 + 1 .. Len(list) /\ list[i + 1] = R[i]
  BY <1>1
<1>4. {list[i] : i \in 1 + 1 .. Len(list)} = {R[i] : i \in 1 .. Len(R)}
  <2>1. ASSUME NEW i \in 1 + 1 .. Len(list) PROVE list[i] \in {R[j] : j \in 1 .. Len(R)}
    BY <1>2
  <2>2. ASSUME NEW i \in 1 .. Len(R) PROVE R[i] \in {list[j] : j \in 1 + 1 .. Len(list)}
    BY <1>3
  <2> QED BY <2>1, <2>2
<1> QED BY <1>1, <1>4

(* What the recorded failures of a group without pending tasks are. *)
LEMMA AllReported ==
  ASSUME TypeOK, Locals, Reports, NEW g \in Groups, \A t \in Members(g) : ~Pending(t)
  PROVE  LET failed == {t \in Members(g) : raised[t] # None}
         IN  /\ FailedIn(g) = failed
             /\ Len(Reported(g)) = Cardinality(failed)
             /\ {Reported(g)[i] : i \in 1 .. Len(Reported(g))} = {raised[t] : t \in failed}
             /\ failure[g] # <<"Timeout", g>>
<1> DEFINE failed == {t \in Members(g) : raised[t] # None}
           n == Len(Reported(g))
<1>1. FailedIn(g) = failed
  BY DEF FailedIn, Pending
<1>2. PICK order \in [1 .. n -> FailedIn(g)] : Orders(g, order)
  BY DEF Reports, Listed
<1>3. n \in Nat
  BY ReportedType
<1>4. Cardinality(failed) = n
  <2>1. ExistsBijection(1 .. n, failed)
    <3>1. order \in Bijection(1 .. n, failed)
      BY <1>1, <1>2 DEF Orders, Bijection, Injection, Surjection, IsInjective
    <3> QED BY <3>1 DEF ExistsBijection
  <2>2. IsFiniteSet(1 .. n) /\ Cardinality(1 .. n) = n
    <3> HIDE DEF n
    <3> QED BY <1>3, Interval
  <2> QED BY <2>1, <2>2, FS_Bijection
<1>5. {Reported(g)[i] : i \in 1 .. n} = {raised[t] : t \in failed}
  BY <1>1, <1>2 DEF Orders
<1>6. failure[g] # <<"Timeout", g>>
  <2>1. SUFFICES ASSUME failure[g] = <<"Timeout", g>> PROVE FALSE
    OBVIOUS
  <2>2. failure[g] # None
    BY <2>1, ExcAssumption DEF Excs
  <2>3. n > 0 /\ Reported(g)[1] = failure[g]
    BY <2>2 DEF Reported, TypeOK
  <2>4. PICK t \in failed : raised[t] = failure[g]
    <3>1. 1 \in 1 .. n
      BY <1>3, <2>3
    <3>2. failure[g] \in {Reported(g)[i] : i \in 1 .. n}
      BY <2>3, <3>1
    <3> QED BY <1>5, <3>2
  <2> QED BY <2>1, <2>4 DEF Reports, OwnTimeout, Members
<1> QED BY <1>1, <1>4, <1>5, <1>6

(* A block delivers every failure of its tasks, the first recorded first,   *)
(* each once, and nothing else but a timeout (task.c: group_fail,           *)
(* vl_group_end), however many tasks fail at once and whatever they rethrow.*)
THEOREM NoFailureLost == Spec => []EveryFailureReported
<1>1. IInv /\ Reports => EveryFailureReported
  <2>1. SUFFICES ASSUME IInv, Reports, NEW g \in Groups, gstate[g] = "freed"
        PROVE  LET d == outcome[g]
                   list == (IF d.exc = None THEN <<>> ELSE <<d.exc>>) \o d.suppressed
                   extra == IF list # <<>> /\ list[1] = <<"Timeout", g>> THEN 1 ELSE 0
                   failed == {t \in Members(g) : raised[t] # None}
               IN  /\ Len(list) = Cardinality(failed) + extra
                   /\ {list[i] : i \in 1 + extra .. Len(list)} = {raised[t] : t \in failed}
    BY DEF EveryFailureReported
  <2> DEFINE d == outcome[g]
             list == (IF d.exc = None THEN <<>> ELSE <<d.exc>>) \o d.suppressed
             extra == IF list # <<>> /\ list[1] = <<"Timeout", g>> THEN 1 ELSE 0
             failed == {t \in Members(g) : raised[t] # None}
             R == Reported(g)
  <2>2. TypeOK /\ Locals /\ \A t \in Members(g) : ~Pending(t)
    BY <2>1 DEF IInv, Structure, JoinedTasksDone
  <2>3. /\ Len(R) = Cardinality(failed)
        /\ {R[i] : i \in 1 .. Len(R)} = {raised[t] : t \in failed}
        /\ failure[g] # <<"Timeout", g>>
    BY <2>1, <2>2, AllReported
  <2>4. R \in Seq(Excs) /\ failure[g] \in Excs \cup {None} /\ suppressed[g] \in Seq(Excs)
    BY <2>1, <2>2, ReportedType DEF TypeOK
  <2>5. d = Delivered(g)
    BY <2>1 DEF Reports, Frozen
  <2>6. <<"Timeout", g>> # None
    BY ExcAssumption DEF Excs
  <2>7. \/ d.exc = failure[g] /\ d.suppressed = suppressed[g]
        \/ d.exc = <<"Timeout", g>> /\ d.suppressed = R
    <3>1. \/ Delivered(g) = [exc |-> failure[g], suppressed |-> suppressed[g]]
          \/ Delivered(g) = [exc |-> <<"Timeout", g>>, suppressed |-> R]
      BY DEF Delivered, Reported
    <3> HIDE DEF R
    <3> QED BY <2>5, <3>1
  <2>8. Len(list) = Len(R) + extra /\ {list[i] : i \in 1 + extra .. Len(list)} = {R[i] : i \in 1 .. Len(R)}
    <3>1. CASE d.exc = <<"Timeout", g>> /\ d.suppressed = R
      <4>1. list = <<<<"Timeout", g>>>> \o R
        BY <2>6, <3>1
      <4>2. extra = 1
        BY <2>4, <4>1, HeadAdded
      <4> HIDE DEF list, extra, R
      <4> QED BY <2>4, <4>1, <4>2, HeadAdded
    <3>2. CASE d.exc = failure[g] /\ d.suppressed = suppressed[g]
      <4>1. list = R
        BY <3>2 DEF Reported
      <4>2. R # <<>> => R[1] = failure[g]
        <5>1. CASE failure[g] = None
          BY <2>1, <5>1 DEF Reported, Reports, FirstKept
        <5>2. CASE failure[g] # None
          BY <2>4, <5>2 DEF Reported
        <5> QED BY <5>1, <5>2
      <4>3. extra = 0
        BY <2>3, <4>1, <4>2
      <4> HIDE DEF list, extra, R
      <4> QED BY <2>4, <4>1, <4>3
    <3> QED BY <2>7, <3>1, <3>2
  <2>9. Len(list) = Cardinality(failed) + extra
        /\ {list[i] : i \in 1 + extra .. Len(list)} = {raised[t] : t \in failed}
    <3> HIDE DEF list, extra, R, failed
    <3> QED BY <2>3, <2>8
  <2> QED BY <2>9
<1> QED BY <1>1, Invariance, ReportsInvariant, PTL

-----------------------------------------------------------------------------
(* Blocks and contexts.  *)

(* The group a thread starts in, and the open groups it has begun. *)
Base(th) == IF th = Main THEN Root ELSE taskGroup[th]
Own(th)  == {g \in Groups \ {Root} : gstate[g] = "open" /\ owner[g] = th}

(* Every group but the root hangs from another; d is how deep it does. *)
Tree(d) ==
  /\ gstate[Root] # "unused" /\ owner[Root] = Main /\ parent[Root] = None
  /\ \A g \in Groups \ {Root} :
       gstate[g] # "unused" =>
         /\ parent[g] \in Groups /\ gstate[parent[g]] # "unused"
         /\ d[g] = d[parent[g]] + 1

(* A thread has one open group at each depth below its base down to its    *)
(* context's.                                                              *)
Level(d, th) ==
  /\ Base(th) \in Groups /\ ctxGroup[th] \in Own(th) \cup {Base(th)}
  /\ \A g \in Own(th) : d[Base(th)] < d[g] /\ d[g] <= d[ctxGroup[th]]
  /\ \A g, h \in Own(th) : d[g] = d[h] => g = h

(* s is a stack of blocks whose groups are in own, the deeper the later. *)
Ordered(d, own, s) ==
  /\ \A i \in DOMAIN s : s[i] # Try => s[i] \in own
  /\ \A i, j \in DOMAIN s : s[i] # Try /\ s[j] # Try /\ i < j => d[s[i]] < d[s[j]]

Above(d, g, s) == \A i \in DOMAIN s : s[i] # Try => d[s[i]] < d[g]

(* A thread stands in blocks of open groups of its own.  The group it joins *)
(* is below the blocks it is left in, so they stay open.                    *)
Stack(d, th) ==
  /\ Ordered(d, Own(th), blocks[th])
  /\ pc[th] = "joining" => ctxGroup[th] \in Own(th) /\ Above(d, ctxGroup[th], blocks[th])
  /\ pc[th] \notin {"run", "blocked", "await", "joining"} => blocks[th] = <<>>
  /\ pc[th] = "exiting" => th = Main

Lines(d) ==
  Tree(d) /\ \A th \in Threads : (Active(th) => Level(d, th)) /\ Stack(d, th)

Placed == \E d \in [Groups -> Nat] : Lines(d)

LEMMA OrderedPrefix ==
  ASSUME NEW d, NEW own, NEW S, NEW s \in Seq(S), NEW k \in 0 .. Len(s), Ordered(d, own, s)
  PROVE  /\ Ordered(d, own, SubSeq(s, 1, k))
         /\ \A g : Above(d, g, s) => Above(d, g, SubSeq(s, 1, k))
<1> DEFINE p == SubSeq(s, 1, k)
<1>1. Len(p) = k /\ DOMAIN p = 1 .. k /\ \A i \in 1 .. k : p[i] = s[i] /\ i \in DOMAIN s
  OBVIOUS
<1> HIDE DEF p
<1> QED BY <1>1 DEF Ordered, Above

LEMMA OrderedAppend ==
  ASSUME NEW d, NEW own, NEW S, NEW s \in Seq(S), NEW e, Ordered(d, own, s),
         e # Try => e \in own /\ Above(d, e, s)
  PROVE  Ordered(d, own, Append(s, e))
<1> DEFINE p == Append(s, e)
<1>1. /\ Len(s) \in Nat /\ DOMAIN s = 1 .. Len(s) /\ DOMAIN p = 1 .. Len(s) + 1
      /\ p[Len(s) + 1] = e /\ \A i \in 1 .. Len(s) : p[i] = s[i]
  OBVIOUS
<1> HIDE DEF p
<1> QED BY <1>1 DEF Ordered, Above

(* The groups of the stack are the same in another place. *)
LEMMA OrderedMoves ==
  ASSUME NEW d, NEW own, NEW s, NEW e, NEW new, Ordered(d, own, s),
         \A i \in DOMAIN s : s[i] # Try => s[i] \in new /\ e[s[i]] = d[s[i]]
  PROVE  Ordered(e, new, s)
BY DEF Ordered

(* What a throw does to blocks. *)
LEMMA ThrowBlocks ==
  ASSUME TypeOK, NEW th \in Threads, NEW e \in Excs, Throw(th, e)
  PROVE  /\ \A u \in Threads : u # th => pc'[u] = pc[u] /\ blocks'[u] = blocks[u]
         /\ \E k \in 0 .. Len(blocks[th]) : blocks'[th] = SubSeq(blocks[th], 1, k)
         /\ \/ pc'[th] = "run"
            \/ /\ pc'[th] = IF th = Main THEN "crashed" ELSE "failing"
               /\ blocks'[th] = <<>>
<1>1. pc \in [Threads -> PCs] /\ blocks \in [Threads -> Seq(Groups \cup {Try})]
  BY DEF TypeOK
<1>2. ASSUME NEW i \in Handlers(th), pc' = [pc EXCEPT ![th] = "run"],
             blocks' = [blocks EXCEPT ![th] = SubSeq(@, 1, i - 1)]
      PROVE  /\ \A u \in Threads : u # th => pc'[u] = pc[u] /\ blocks'[u] = blocks[u]
             /\ \E k \in 0 .. Len(blocks[th]) : blocks'[th] = SubSeq(blocks[th], 1, k)
             /\ pc'[th] = "run"
  <2>1. i - 1 \in 0 .. Len(blocks[th])
    BY <1>1 DEF Handlers
  <2> QED BY <1>1, <1>2, <2>1
<1>3. ASSUME pc' = [pc EXCEPT ![th] = IF th = Main THEN "crashed" ELSE "failing"],
             blocks' = [blocks EXCEPT ![th] = <<>>]
      PROVE  /\ \A u \in Threads : u # th => pc'[u] = pc[u] /\ blocks'[u] = blocks[u]
             /\ \E k \in 0 .. Len(blocks[th]) : blocks'[th] = SubSeq(blocks[th], 1, k)
             /\ pc'[th] = (IF th = Main THEN "crashed" ELSE "failing") /\ blocks'[th] = <<>>
  <2>1. SubSeq(blocks[th], 1, 0) = <<>> /\ 0 \in 0 .. Len(blocks[th])
    BY <1>1
  <2> QED BY <1>1, <1>3, <2>1
<1>4. CASE \E i \in Handlers(th) : /\ pc' = [pc EXCEPT ![th] = "run"]
                                   /\ blocks' = [blocks EXCEPT ![th] = SubSeq(@, 1, i - 1)]
  BY <1>2, <1>4
<1>5. th \in Tasks => th # Main
  BY ThreadAssumption
<1> QED BY <1>3, <1>4, <1>5 DEF Throw

(* A step of one thread that begins, ends and joins no group. *)
LEMMA LocalLines ==
  ASSUME NEW d, Lines(d), NEW th \in Threads,
         UNCHANGED <<gstate, owner, parent, ctxGroup, taskGroup>>,
         \A u \in Threads : u # th => pc'[u] = pc[u] /\ blocks'[u] = blocks[u],
         Active(th)' => Active(th), Stack(d, th)'
  PROVE  Lines(d)'
<1>1. \A u \in Threads : Own(u)' = Own(u) /\ Base(u)' = Base(u)
  BY DEF Own, Base
<1>2. Tree(d)'
  BY DEF Lines, Tree
<1>3. ASSUME NEW u \in Threads, Active(u)' PROVE Level(d, u)'
  <2>1. Active(u)
    BY <1>3 DEF Active
  <2> QED BY <1>1, <2>1 DEF Lines, Level
<1>4. ASSUME NEW u \in Threads PROVE Stack(d, u)'
  <2>1. CASE u # th
    BY <1>1, <2>1 DEF Lines, Stack, Ordered, Above
  <2> QED BY <2>1
<1> QED BY <1>2, <1>3, <1>4 DEF Lines

(* Steps inside a thread's blocks. *)
LEMMA BlockLines ==
  ASSUME IInv, NEW d, Lines(d), NEW th \in Threads,
         EnterTry(th) \/ LeaveTry(th) \/ TryReturns(th) \/ Block(th) \/ Unblock(th)
         \/ (\E t \in Tasks : Await(th, t)) \/ (AwaitDone(th) /\ exc[awaits[th]] = None)
  PROVE  Lines(d)'
<1> USE DEF At, taskVars, groupVars
<1>1. TypeOK /\ blocks[th] \in Seq(Groups \cup {Try})
  BY DEF IInv, TypeOK
<1>2. /\ UNCHANGED <<gstate, owner, parent, ctxGroup, taskGroup>>
      /\ \A u \in Threads : u # th => pc'[u] = pc[u] /\ blocks'[u] = blocks[u]
      /\ pc[th] \in {"run", "blocked", "await"} /\ pc'[th] \in {"run", "blocked", "await"}
      /\ \/ blocks'[th] = blocks[th] \/ blocks'[th] = Append(blocks[th], Try)
         \/ \E k \in 0 .. Len(blocks[th]) : blocks'[th] = SubSeq(blocks[th], 1, k)
  <2>1. CASE EnterTry(th) \/ Block(th) \/ Unblock(th) \/ (\E t \in Tasks : Await(th, t))
             \/ (AwaitDone(th) /\ exc[awaits[th]] = None)
    BY <1>1, <2>1 DEF EnterTry, Block, Unblock, Await, AwaitDone, TypeOK
  <2>2. CASE LeaveTry(th) \/ TryReturns(th)
    <3>1. Len(blocks[th]) - 1 \in 0 .. Len(blocks[th])
      BY <1>1, <2>2 DEF LeaveTry, TryReturns, Inside
    <3> QED BY <1>1, <2>2, <3>1 DEF LeaveTry, TryReturns, TypeOK
  <2> QED BY <2>1, <2>2
<1>3. Own(th)' = Own(th) /\ Ordered(d, Own(th), blocks[th])
  BY <1>2 DEF Own, Lines, Stack
<1>4. Ordered(d, Own(th), blocks'[th])
  <2>1. CASE blocks'[th] = Append(blocks[th], Try)
    <3>1. Ordered(d, Own(th), Append(blocks[th], Try))
      BY <1>1, <1>3, OrderedAppend
    <3> QED BY <2>1, <3>1
  <2>2. CASE \E k \in 0 .. Len(blocks[th]) : blocks'[th] = SubSeq(blocks[th], 1, k)
    BY <1>1, <1>3, <2>2, OrderedPrefix
  <2> QED BY <1>2, <1>3, <2>1, <2>2
<1>5. Stack(d, th)'
  BY <1>2, <1>3, <1>4 DEF Stack, Ordered
<1> QED BY <1>2, <1>5, LocalLines DEF Active

(* A throw leaves the blocks up to a handler. *)
LEMMA ThrowLines ==
  ASSUME IInv, NEW d, Lines(d), NEW th \in Threads,
         UserThrow(th) \/ CancelPoint(th) \/ (AwaitDone(th) /\ exc[awaits[th]] # None)
  PROVE  Lines(d)'
<1>1. TypeOK /\ Locals /\ blocks[th] \in Seq(Groups \cup {Try})
  BY DEF IInv, TypeOK
<1>2. PICK e \in Excs :
        /\ Throw(th, e) /\ pc[th] \in {"run", "blocked", "await"}
        /\ UNCHANGED <<ctxGroup, taskGroup, groupVars>>
  <2>1. <<"Boom", th>> \in Excs /\ <<"Cancelled", th>> \in Excs
    BY DEF Excs
  <2>2. AwaitDone(th) /\ exc[awaits[th]] # None => exc[awaits[th]] \in Excs
    BY <1>1 DEF AwaitDone, At, Locals, TypeOK
  <2> QED BY <2>1, <2>2 DEF UserThrow, CancelPoint, AwaitDone, At
<1>3. /\ \A u \in Threads : u # th => pc'[u] = pc[u] /\ blocks'[u] = blocks[u]
      /\ \E k \in 0 .. Len(blocks[th]) : blocks'[th] = SubSeq(blocks[th], 1, k)
      /\ \/ pc'[th] = "run"
         \/ /\ pc'[th] = IF th = Main THEN "crashed" ELSE "failing"
            /\ blocks'[th] = <<>>
  BY <1>1, <1>2, ThrowBlocks
<1>4. Own(th)' = Own(th) /\ Ordered(d, Own(th), blocks[th])
  BY <1>2 DEF Own, Lines, Stack, groupVars
<1>5. Ordered(d, Own(th), blocks'[th])
  BY <1>1, <1>3, <1>4, OrderedPrefix
<1>6. Stack(d, th)'
  BY <1>3, <1>4, <1>5 DEF Stack, Ordered
<1> QED BY <1>2, <1>3, <1>6, LocalLines DEF Active, groupVars

(* The end of a block: the context's group is begun by the thread, and      *)
(* deeper than the blocks that are left.                                    *)
LEMMA GroupEndLines ==
  ASSUME IInv, NEW d \in [Groups -> Nat], Lines(d), NEW th \in Threads, GroupEnd(th)
  PROVE  Lines(d)'
<1> DEFINE s == blocks[th]
           n == Len(s)
<1>1. TypeOK /\ s \in Seq(Groups \cup {Try}) /\ n \in Nat /\ DOMAIN s = 1 .. n
  BY DEF IInv, TypeOK
<1>2. /\ UNCHANGED <<gstate, owner, parent, ctxGroup, taskGroup>>
      /\ pc[th] = "run" /\ Active(th)
      /\ \A u \in Threads : u # th => pc'[u] = pc[u] /\ blocks'[u] = blocks[u]
  BY <1>1 DEF GroupEnd, At, taskVars, groupVars, TypeOK, Active
<1>3. Own(th)' = Own(th) /\ Ordered(d, Own(th), s) /\ Level(d, th)
  BY <1>2 DEF Own, Lines, Stack
<1>4. CASE /\ Inside(th) /\ InnermostBlock(th) # Try
           /\ blocks' = [blocks EXCEPT ![th] = SubSeq(@, 1, Len(@) - 1)]
           /\ pc' = [pc EXCEPT ![th] = "joining"]
  <2>1. PICK k \in 0 .. n : k = n - 1 /\ n \in DOMAIN s
    <3>1. n > 0
      BY <1>4 DEF Inside
    <3> HIDE DEF n, s
    <3>2. n - 1 \in 0 .. n /\ n \in 1 .. n
      BY <1>1, <3>1
    <3> QED BY <1>1, <3>2
  <2>2. blocks'[th] = SubSeq(s, 1, k) /\ pc'[th] = "joining"
    BY <1>1, <1>4, <2>1 DEF TypeOK
  <2>3. Ordered(d, Own(th), blocks'[th])
    BY <1>1, <1>3, <2>1, <2>2, OrderedPrefix
  <2>4. s[n] \in Own(th) /\ \A i \in 1 .. k : s[i] # Try => s[i] \in Own(th) /\ d[s[i]] < d[s[n]]
    <3>1. s[n] # Try
      BY <1>4 DEF InnermostBlock
    <3> HIDE DEF n, s
    <3>2. \A i \in 1 .. k : i \in DOMAIN s /\ i < n
      BY <1>1, <2>1
    <3> QED BY <1>3, <2>1, <3>1, <3>2 DEF Ordered
  <2>5. Own(th) \subseteq Groups /\ Base(th) \in Groups /\ ctxGroup[th] \in Groups
    BY <1>3 DEF Own, Level
  <2>6. d[Base(th)] < d[s[n]] /\ d[s[n]] <= d[ctxGroup[th]]
    BY <1>3, <2>4 DEF Level
  <2>7. ctxGroup[th] \in Own(th)
    BY <1>3, <2>4, <2>5, <2>6 DEF Level
  <2>8. Above(d, ctxGroup[th], blocks'[th])
    <3>1. \A i \in 1 .. k : s[i] # Try => d[s[i]] < d[ctxGroup[th]]
      BY <2>4, <2>5, <2>6
    <3>2. DOMAIN blocks'[th] = 1 .. k /\ \A i \in 1 .. k : blocks'[th][i] = s[i]
      BY <1>1, <2>1, <2>2
    <3> QED BY <3>1, <3>2 DEF Above
  <2>9. Stack(d, th)'
    BY <1>2, <1>3, <2>2, <2>3, <2>7, <2>8 DEF Stack, Ordered, Above
  <2> QED BY <1>2, <2>9, LocalLines
<1>5. CASE /\ th = Main /\ ~Inside(th)
           /\ pc' = [pc EXCEPT ![th] = "exiting"] /\ UNCHANGED blocks
  <2>1. s = <<>> /\ pc'[th] = "exiting" /\ blocks'[th] = s
    BY <1>1, <1>5 DEF Inside, TypeOK
  <2>2. Stack(d, th)'
    BY <1>2, <1>3, <1>5, <2>1 DEF Stack, Ordered
  <2> QED BY <1>2, <1>5, <2>2, LocalLines
<1> QED BY <1>4, <1>5 DEF GroupEnd

(* The steps of a task's end, timeouts, and what touches no thread. *)
LEMMA OtherLines ==
  ASSUME IInv, NEW d, Lines(d), NEW th \in Threads,
         \/ JoinTimeout(th) \/ Clock \/ Gone \/ UNCHANGED vars
         \/ th \in Tasks /\ (GroupFail(th) \/ Finish(th) \/ \E isError \in BOOLEAN : Return(th, isError))
  PROVE  Lines(d)'
<1> USE DEF At, taskVars, groupVars, threadVars
<1>1. TypeOK /\ Stack(d, th)
  BY DEF IInv, Lines
<1>2. CASE JoinTimeout(th) \/ Clock \/ Gone \/ UNCHANGED vars
  <2>1. UNCHANGED <<pc, blocks, gstate, owner, parent, ctxGroup, taskGroup>>
    BY <1>2 DEF JoinTimeout, Clock, DeadlinePasses, Gone, vars
  <2>2. Stack(d, th)' /\ (Active(th)' => Active(th))
    BY <1>1, <2>1 DEF Stack, Own, Ordered, Above, Active
  <2> QED BY <2>1, <2>2, LocalLines
<1>3. CASE th \in Tasks /\ (GroupFail(th) \/ Finish(th) \/ \E isError \in BOOLEAN : Return(th, isError))
  <2>1. /\ UNCHANGED <<blocks, gstate, owner, parent, ctxGroup, taskGroup>>
        /\ \A u \in Threads : u # th => pc'[u] = pc[u]
        /\ pc[th] \in {"run", "failing", "finishing"} /\ pc'[th] \in {"failing", "finishing", "done"}
        /\ pc[th] = "run" => ~Inside(th)
    BY <1>1, <1>3 DEF GroupFail, Finish, Return, TypeOK
  <2>2. blocks[th] = <<>>
    BY <1>1, <2>1 DEF Stack, Inside, TypeOK
  <2>3. Stack(d, th)' /\ (Active(th)' => Active(th))
    BY <1>1, <2>1, <2>2 DEF Stack, Own, Ordered, Above, Active
  <2> QED BY <2>1, <2>3, LocalLines
<1> QED BY <1>2, <1>3

(* A task is born and starts, without blocks, in the group it is counted in. *)
LEMMA TaskLines ==
  ASSUME IInv, IInv', NEW d \in [Groups -> Nat], Lines(d), NEW t \in Tasks,
         Start(t) \/ \E th \in Threads : Spawn(th, t)
  PROVE  Lines(d)'
<1> USE DEF At, taskVars, groupVars
<1>1. TypeOK /\ Homes /\ t \in Threads /\ t # Main
  BY ThreadAssumption DEF IInv, Structure, Threads
<1>2. /\ UNCHANGED <<gstate, owner, parent, blocks>>
      /\ \A u \in Threads : u # t => pc'[u] = pc[u] /\ ctxGroup'[u] = ctxGroup[u]
      /\ \A u \in Tasks : u # t => taskGroup'[u] = taskGroup[u]
      /\ \/ pc[t] = "created" /\ pc'[t] = "run" /\ ctxGroup'[t] = taskGroup[t]
                              /\ taskGroup' = taskGroup
         \/ pc[t] = "unborn" /\ pc'[t] = "created"
  BY <1>1 DEF Start, Spawn, TypeOK
<1>3. \A u \in Threads : Own(u)' = Own(u) /\ (u # t => Base(u)' = Base(u))
  BY <1>2 DEF Own, Base, Threads
<1>4. blocks[t] = <<>>
  BY <1>1, <1>2 DEF Lines, Stack
<1>5. Tree(d)'
  BY <1>2 DEF Lines, Tree
<1>6. ASSUME NEW u \in Threads, Active(u)' PROVE Level(d, u)'
  <2>1. CASE u # t
    BY <1>2, <1>3, <1>6, <2>1 DEF Lines, Level, Active
  <2>2. CASE u = t
    <3>1. pc[t] = "created" /\ ctxGroup'[t] = taskGroup'[t] /\ taskGroup'[t] = taskGroup[t]
      BY <1>2, <1>6, <2>2 DEF Active
    <3>2. Own(t) = {}
      BY <1>1, <3>1 DEF Own, Homes
    <3>3. Base(t)' = taskGroup'[t] /\ taskGroup[t] \in Groups
      BY <1>1, <3>1 DEF Base, Homes
    <3> QED BY <1>1, <1>3, <2>2, <3>1, <3>2, <3>3 DEF Level
  <2> QED BY <2>1, <2>2
<1>7. ASSUME NEW u \in Threads PROVE Stack(d, u)'
  <2>1. CASE u # t
    BY <1>2, <1>3, <2>1 DEF Lines, Stack, Ordered, Above
  <2>2. CASE u = t
    BY <1>1, <1>2, <1>4, <2>2 DEF Stack, Ordered
  <2> QED BY <2>1, <2>2
<1> QED BY <1>5, <1>6, <1>7 DEF Lines

(* The new group is one deeper than the context it was begun in. *)
LEMMA GroupBeginLines ==
  ASSUME IInv, IInv', Placed, NEW th \in Threads, NEW g \in Groups, NEW timed \in BOOLEAN,
         GroupBegin(th, g, timed)
  PROVE  Placed'
<1>1. PICK d \in [Groups -> Nat] : Lines(d)
  BY DEF Placed
<1>2. TypeOK /\ Homes /\ blocks[th] \in Seq(Groups \cup {Try})
  BY DEF IInv, Structure, TypeOK
<1>3. PICK c : c = ctxGroup[th]
  OBVIOUS
<1>4. /\ pc[th] = "run" /\ Active(th) /\ gstate[g] = "unused"
      /\ gstate'[g] = "open" /\ owner'[g] = th /\ parent'[g] = c /\ ctxGroup'[th] = g
      /\ \A h \in Groups : h # g => gstate'[h] = gstate[h] /\ owner'[h] = owner[h]
                                    /\ parent'[h] = parent[h]
      /\ blocks'[th] = Append(blocks[th], g)
      /\ \A u \in Threads : u # th => blocks'[u] = blocks[u] /\ ctxGroup'[u] = ctxGroup[u]
      /\ UNCHANGED <<pc, taskGroup>>
  BY <1>2, <1>3 DEF GroupBegin, At, Active, TypeOK, taskVars
<1>5. Level(d, th) /\ Tree(d) /\ Root # g
  BY <1>1, <1>4 DEF Lines, Tree
<1>6. c \in Groups /\ c # g /\ gstate[c] # "unused"
  <2>1. c \in Groups
    BY <1>3, <1>5 DEF Level, Own
  <2>2. gstate[c] = "open"
    BY <1>3, <1>4, <2>1, NoneAssumption DEF IInv, Structure, Context
  <2> QED BY <1>4, <2>1, <2>2
<1>7. \A u \in Threads : Active(u) => Base(u) # g /\ Base(u)' = Base(u)
  BY <1>2, <1>4, <1>5 DEF Homes, Base, Threads, Active
<1>8. \A u \in Threads : g \notin Own(u) /\ Own(u) \subseteq Groups
                         /\ Own(u)' = IF u = th THEN Own(u) \cup {g} ELSE Own(u)
  BY <1>4, <1>5 DEF Own
<1>9. PICK e \in [Groups -> Nat] : e[g] = d[c] + 1 /\ \A h \in Groups : h # g => e[h] = d[h]
  <2> DEFINE x == [d EXCEPT ![g] = d[c] + 1]
  <2>1. x \in [Groups -> Nat] /\ x[g] = d[c] + 1 /\ \A h \in Groups : h # g => x[h] = d[h]
    BY <1>6
  <2> QED BY <2>1
<1>10. Tree(e)'
  <2>1. ASSUME NEW h \in Groups \ {Root}, gstate'[h] # "unused"
        PROVE  parent'[h] \in Groups /\ gstate'[parent'[h]] # "unused" /\ e[h] = e[parent'[h]] + 1
    <3>1. CASE h = g
      BY <1>4, <1>6, <1>9, <3>1
    <3>2. CASE h # g
      <4>1. /\ parent'[h] = parent[h] /\ parent[h] \in Groups /\ gstate[parent[h]] # "unused"
            /\ d[h] = d[parent[h]] + 1
        BY <1>4, <1>5, <2>1, <3>2 DEF Tree
      <4> QED BY <1>4, <1>9, <3>2, <4>1
    <3> QED BY <3>1, <3>2
  <2>2. gstate'[Root] # "unused" /\ owner'[Root] = Main /\ parent'[Root] = None
    BY <1>4, <1>5, GroupAssumption DEF Tree
  <2> QED BY <2>1, <2>2 DEF Tree
<1>11. d[Base(th)] <= d[c] /\ \A h \in Own(th) : d[h] <= d[c]
  BY <1>3, <1>5, <1>6, <1>8 DEF Level
<1>12. ASSUME NEW u \in Threads, Active(u)' PROVE Level(e, u)'
  <2>1. Active(u) /\ Level(d, u)
    BY <1>1, <1>4, <1>12 DEF Active, Lines
  <2>2. CASE u # th
    <3>1. /\ Own(u)' = Own(u) /\ Base(u)' = Base(u) /\ ctxGroup'[u] = ctxGroup[u]
          /\ Base(u) \in Groups /\ ctxGroup[u] \in Own(u) \cup {Base(u)}
      BY <1>4, <1>7, <1>8, <2>1, <2>2 DEF Level
    <3>2. e[Base(u)] = d[Base(u)] /\ \A h \in Own(u) : e[h] = d[h]
      BY <1>7, <1>8, <1>9, <2>1, <3>1
    <3>3. e[ctxGroup[u]] = d[ctxGroup[u]]
      BY <3>1, <3>2
    <3> QED BY <2>1, <3>1, <3>2, <3>3 DEF Level
  <2>3. CASE u = th
    <3>1. /\ Base(th)' = Base(th) /\ Base(th) \in Groups /\ Base(th) # g
          /\ ctxGroup'[th] = g /\ Own(th)' = Own(th) \cup {g}
      BY <1>4, <1>7, <1>8, <2>1, <2>3 DEF Level
    <3>2. \A h \in Own(th) \cup {g} : e[Base(th)] < e[h] /\ e[h] <= e[g]
      <4>1. e[Base(th)] = d[Base(th)] /\ d[Base(th)] \in Nat /\ d[c] \in Nat
        BY <1>6, <1>9, <3>1
      <4>2. ASSUME NEW h \in Own(th) PROVE e[Base(th)] < e[h] /\ e[h] <= e[g]
        <5>1. e[h] = d[h] /\ d[h] \in Nat /\ d[Base(th)] < d[h] /\ d[h] <= d[c]
          BY <1>8, <1>9, <1>11, <2>1, <2>3, <4>2 DEF Level
        <5> QED BY <1>9, <4>1, <5>1
      <4> QED BY <1>9, <1>11, <4>1, <4>2
    <3>3. \A h, k \in Own(th) \cup {g} : e[h] = e[k] => h = k
      <4>1. ASSUME NEW h \in Own(th) PROVE e[h] = d[h] /\ e[h] # e[g]
        BY <1>6, <1>8, <1>9, <1>11, <4>1
      <4> QED BY <2>1, <2>3, <4>1 DEF Level
    <3> QED BY <2>3, <3>1, <3>2, <3>3 DEF Level
  <2> QED BY <2>2, <2>3
<1>13. ASSUME NEW u \in Threads PROVE Stack(e, u)'
  <2>1. Stack(d, u) /\ Ordered(d, Own(u), blocks[u])
    BY <1>1 DEF Lines, Stack
  <2>2. \A i \in DOMAIN blocks[u] :
           blocks[u][i] # Try =>
             /\ blocks[u][i] \in Own(u) /\ blocks[u][i] \in Own(u)'
             /\ e[blocks[u][i]] = d[blocks[u][i]]
    BY <1>8, <1>9, <2>1 DEF Ordered
  <2>3. Ordered(e, Own(u)', blocks[u])
    BY <2>1, <2>2, OrderedMoves
  <2>4. CASE u # th
    <3>1. /\ blocks'[u] = blocks[u] /\ ctxGroup'[u] = ctxGroup[u] /\ Own(u)' = Own(u)
          /\ pc' = pc
      BY <1>4, <1>8, <2>4
    <3>2. Ordered(e, Own(u), blocks[u])'
      BY <2>3, <3>1 DEF Ordered
    <3>3. ctxGroup[u] \in Own(u) => e[ctxGroup[u]] = d[ctxGroup[u]]
      BY <1>8, <1>9
    <3>4. pc[u] = "joining" => ctxGroup[u] \in Own(u) /\ Above(e, ctxGroup[u], blocks[u])
      BY <2>1, <2>2, <3>3 DEF Stack, Above
    <3> QED BY <2>1, <3>1, <3>2, <3>4 DEF Stack, Above
  <2>5. CASE u = th
    <3>1. Above(e, g, blocks[th])
      <4>1. SUFFICES ASSUME NEW i \in DOMAIN blocks[th], blocks[th][i] # Try
                     PROVE  e[blocks[th][i]] < e[g]
        BY DEF Above
      <4>2. blocks[th][i] \in Groups /\ d[blocks[th][i]] <= d[c]
        BY <1>8, <1>11, <2>2, <2>5, <4>1
      <4> QED BY <1>6, <1>9, <2>2, <2>5, <4>1, <4>2
    <3>2. g \in Own(th)'
      BY <1>8
    <3>3. Ordered(e, Own(th)', Append(blocks[th], g))
      BY <1>2, <2>3, <2>5, <3>1, <3>2, OrderedAppend
    <3>4. Ordered(e, Own(th), blocks[th])'
      BY <1>4, <3>3 DEF Ordered
    <3> QED BY <1>4, <2>5, <3>4 DEF Stack
  <2> QED BY <2>4, <2>5
<1> QED BY <1>9, <1>10, <1>12, <1>13 DEF Lines, Placed

(* The group that ends is the deepest of its thread; its parent is then. *)
LEMMA JoinLines ==
  ASSUME IInv, IInv', NEW d \in [Groups -> Nat], Lines(d), NEW th \in Threads,
         NEW asValue \in BOOLEAN, JoinDone(th, asValue)
  PROVE  Lines(d)'
<1>1. TypeOK /\ blocks[th] \in Seq(Groups \cup {Try}) /\ pc \in [Threads -> PCs]
  BY DEF IInv, TypeOK
<1>2. PICK c \in Groups : c = ctxGroup[th]
  BY <1>1 DEF JoinDone, Joining, TypeOK
<1>3. /\ pc[th] \in {"joining", "exiting"} /\ Active(th)
      /\ gstate'[c] = "freed" /\ \A h \in Groups : h # c => gstate'[h] = gstate[h]
      /\ ctxGroup'[th] = parent[c] /\ \A u \in Threads : u # th => ctxGroup'[u] = ctxGroup[u]
      /\ UNCHANGED <<owner, parent, taskGroup>>
  BY <1>1, <1>2 DEF JoinDone, Joining, At, Active, EnclosingGroup, TypeOK
<1>4. Level(d, th) /\ Stack(d, th) /\ Tree(d) /\ owner[c] = th
  <2>1. Level(d, th) /\ Stack(d, th) /\ Tree(d)
    BY <1>3 DEF Lines
  <2>2. CASE pc[th] = "joining"
    BY <1>2, <2>1, <2>2 DEF Stack, Own
  <2>3. CASE pc[th] = "exiting"
    BY <1>2, <2>1, <2>3 DEF Stack, Level, Own, Base, Tree
  <2> QED BY <1>3, <2>1, <2>2, <2>3
<1>5. /\ \A u \in Threads : u # th => pc'[u] = pc[u] /\ blocks'[u] = blocks[u]
      /\ \E k \in 0 .. Len(blocks[th]) : blocks'[th] = SubSeq(blocks[th], 1, k)
      /\ \/ pc[th] = "joining" /\ pc'[th] = "run"
         \/ pc[th] = "joining" /\ pc'[th] \in {"crashed", "failing"} /\ blocks'[th] = <<>>
         \/ pc[th] = "exiting" /\ pc'[th] \in {"crashed", "exited"} /\ blocks'[th] = <<>>
  <2>1. CASE Delivered(c).exc # None /\ Throw(th, Delivered(c).exc)
    <3>1. Delivered(c).exc \in Excs
      BY <1>1, <2>1, DeliveredType DEF Outcomes
    <3>2. /\ \A u \in Threads : u # th => pc'[u] = pc[u] /\ blocks'[u] = blocks[u]
          /\ \E k \in 0 .. Len(blocks[th]) : blocks'[th] = SubSeq(blocks[th], 1, k)
          /\ \/ pc'[th] = "run"
             \/ /\ pc'[th] = IF th = Main THEN "crashed" ELSE "failing"
                /\ blocks'[th] = <<>>
      BY <1>1, <2>1, <3>1, ThrowBlocks
    <3>3. pc[th] = "exiting" => th = Main /\ Handlers(th) = {}
      BY <1>4 DEF Stack, Handlers
    <3>4. pc[th] = "exiting" => pc'[th] = "crashed" /\ blocks'[th] = <<>>
      BY <1>1, <2>1, <3>3, ThreadAssumption DEF Throw, TypeOK
    <3> QED BY <1>3, <3>2, <3>4
  <2>2. CASE /\ pc' = [pc EXCEPT ![th] = IF @ = "joining" THEN "run" ELSE "exited"]
             /\ UNCHANGED <<blocks, exc, raised>>
    <3>1. SubSeq(blocks[th], 1, Len(blocks[th])) = blocks[th] /\ Len(blocks[th]) \in 0 .. Len(blocks[th])
      BY <1>1
    <3>2. pc[th] = "exiting" => blocks[th] = <<>>
      BY <1>4 DEF Stack
    <3> QED BY <1>1, <1>3, <2>2, <3>1, <3>2
  <2> QED BY <1>2, <2>1, <2>2 DEF JoinDone
<1>6. \A u \in Threads : /\ Base(u)' = Base(u) /\ Own(u) \subseteq Groups
                         /\ Own(u)' = Own(u) \ {c} /\ (u # th => c \notin Own(u))
  BY <1>3, <1>4 DEF Own, Base
<1>7. Tree(d)'
  <2>1. \A h \in Groups : (gstate'[h] = "unused") <=> (gstate[h] = "unused")
    BY <1>2, <1>3, <1>4, NoneAssumption DEF IInv, Structure, Context
  <2>2. gstate'[Root] # "unused" /\ owner'[Root] = Main /\ parent'[Root] = None
    BY <1>3, <1>4, <2>1, GroupAssumption DEF Tree
  <2> QED BY <1>3, <1>4, <2>1, <2>2 DEF Tree
<1>8. ASSUME NEW u \in Threads, Active(u)' PROVE Level(d, u)'
  <2>1. CASE u # th
    <3>1. Level(d, u) /\ Own(u)' = Own(u) /\ Base(u)' = Base(u) /\ ctxGroup'[u] = ctxGroup[u]
      BY <1>3, <1>5, <1>6, <1>8, <2>1 DEF Active, Lines
    <3> QED BY <3>1 DEF Level
  <2>2. CASE u = th
    <3>1. pc[th] = "joining"
      BY <1>5, <1>8, <2>2 DEF Active
    <3>2. PICK p : p = parent[c]
      OBVIOUS
    <3>3. c \in Own(th) /\ p \in Groups /\ d[c] = d[p] + 1 /\ d[p] \in Nat
      <4>1. c \in Own(th) /\ c # Root /\ gstate[c] = "open"
        BY <1>2, <1>4, <3>1 DEF Stack, Own
      <4> QED BY <1>4, <3>2, <4>1 DEF Tree
    <3>4. p # c /\ p \in (Own(th) \ {c}) \cup {Base(th)}
      <4>1. p = ctxGroup'[th] /\ p # None
        BY <1>3, <3>2, <3>3, NoneAssumption
      <4>2. gstate'[p] = "open" /\ (owner'[p] = th \/ (th \in Tasks /\ p = taskGroup'[th]))
        BY <1>8, <2>2, <4>1 DEF IInv, Structure, Context, Its
      <4>3. p # c /\ gstate[p] = "open"
        BY <1>3, <3>3, <4>2
      <4>4. th \in Tasks => th # Main
        BY ThreadAssumption
      <4>5. p = Root /\ owner[p] = th => th = Main
        BY <1>4 DEF Tree
      <4> QED BY <1>3, <3>3, <4>2, <4>3, <4>4, <4>5 DEF Own, Base
    <3>5. \A h \in Own(th) \ {c} : d[Base(th)] < d[h] /\ d[h] <= d[p]
      <4>1. SUFFICES ASSUME NEW h \in Own(th) \ {c} PROVE d[Base(th)] < d[h] /\ d[h] <= d[p]
        OBVIOUS
      <4>2. d[Base(th)] < d[h] /\ d[h] <= d[c] /\ d[h] # d[c] /\ d[h] \in Nat
        BY <1>2, <1>4, <1>6, <3>3 DEF Level
      <4> QED BY <3>3, <4>2
    <3>6. Own(th)' = Own(th) \ {c} /\ Base(th)' = Base(th) /\ ctxGroup'[th] = p
      BY <1>3, <1>6, <3>2
    <3> QED BY <1>4, <2>2, <3>4, <3>5, <3>6 DEF Level
  <2> QED BY <2>1, <2>2
<1>9. ASSUME NEW u \in Threads PROVE Stack(d, u)'
  <2>1. CASE u # th
    <3>1. /\ Stack(d, u) /\ Own(u)' = Own(u) /\ pc'[u] = pc[u] /\ blocks'[u] = blocks[u]
          /\ ctxGroup'[u] = ctxGroup[u]
      BY <1>3, <1>5, <1>6, <2>1 DEF Lines
    <3> QED BY <3>1 DEF Stack, Ordered, Above
  <2>2. CASE u = th
    <3>1. Ordered(d, Own(th)', blocks'[th])
      <4>1. CASE pc[th] = "joining"
        <5>1. Ordered(d, Own(th), blocks[th]) /\ Above(d, c, blocks[th])
          BY <1>2, <1>4, <4>1 DEF Stack
        <5>2. Ordered(d, Own(th), blocks'[th]) /\ Above(d, c, blocks'[th])
          BY <1>1, <1>5, <5>1, OrderedPrefix
        <5>3. d[c] \in Nat
          OBVIOUS
        <5>4. \A i \in DOMAIN blocks'[th] :
                 blocks'[th][i] # Try => blocks'[th][i] \in Own(th)'
          BY <1>6, <5>2, <5>3 DEF Ordered, Above
        <5> QED BY <5>2, <5>4, OrderedMoves
      <4>2. CASE blocks'[th] = <<>>
        BY <4>2 DEF Ordered
      <4> QED BY <1>5, <4>1, <4>2
    <3>2. Ordered(d, Own(th), blocks[th])'
      BY <3>1 DEF Ordered
    <3> QED BY <1>5, <2>2, <3>2 DEF Stack
  <2> QED BY <2>1, <2>2
<1> QED BY <1>7, <1>8, <1>9 DEF Lines

LEMMA InitPlaced == Init => Placed
<1>1. SUFFICES ASSUME Init PROVE Placed
  OBVIOUS
<1>2. PICK d \in [Groups -> Nat] : \A g \in Groups : d[g] = 0
  <2>1. [g \in Groups |-> 0] \in [Groups -> Nat]
    OBVIOUS
  <2> QED BY <2>1
<1>3. Tree(d)
  BY <1>1, GroupAssumption DEF Init, Tree
<1>4. ASSUME NEW th \in Threads PROVE (Active(th) => Level(d, th)) /\ Stack(d, th)
  <2>1. Own(th) = {} /\ blocks[th] = <<>> /\ pc[th] = IF th = Main THEN "run" ELSE "unborn"
    BY <1>1 DEF Init, Own
  <2>2. Active(th) => th = Main /\ ctxGroup[th] = Root
    BY <1>1, <2>1 DEF Init, Active
  <2>3. Active(th) => Level(d, th)
    BY <2>1, <2>2, GroupAssumption DEF Level, Base
  <2> QED BY <2>1, <2>3 DEF Stack, Ordered
<1> QED BY <1>3, <1>4 DEF Lines, Placed

LEMMA NextPlaced ==
  ASSUME IInv, IInv', Placed, [Next]_vars
  PROVE  Placed'
<1>1. PICK d \in [Groups -> Nat] : Lines(d)
  BY DEF Placed
<1>2. ASSUME NEW th \in Threads, Runtime(th) PROVE Placed'
  <2>1. CASE \/ LeaveTry(th) \/ CancelPoint(th) \/ AwaitDone(th) \/ JoinTimeout(th) \/ GroupEnd(th)
             \/ \E asValue \in BOOLEAN : JoinDone(th, asValue)
    <3>1. Lines(d)'
      BY <1>1, <2>1, BlockLines, ThrowLines, OtherLines, GroupEndLines, JoinLines
    <3> QED BY <3>1 DEF Placed
  <2>2. CASE th \in Tasks /\ (GroupFail(th) \/ Finish(th) \/ \E isError \in BOOLEAN : Return(th, isError))
    <3>1. Lines(d)'
      BY <1>1, <2>2, OtherLines
    <3> QED BY <3>1 DEF Placed
  <2>3. CASE th \in Tasks /\ Start(th)
    <3>1. Lines(d)'
      BY <1>1, <2>3, TaskLines
    <3> QED BY <3>1 DEF Placed
  <2> QED BY <1>2, <2>1, <2>2, <2>3 DEF Runtime
<1>3. ASSUME NEW th \in Threads, Program(th) PROVE Placed'
  <2>1. CASE \E g \in Groups, timed \in BOOLEAN : GroupBegin(th, g, timed)
    BY <2>1, GroupBeginLines
  <2>2. CASE ~\E g \in Groups, timed \in BOOLEAN : GroupBegin(th, g, timed)
    <3>1. Lines(d)'
      BY <1>1, <1>3, <2>2, BlockLines, ThrowLines, TaskLines DEF Program
    <3> QED BY <3>1 DEF Placed
  <2> QED BY <2>1, <2>2
<1>4. CASE Clock \/ Gone \/ UNCHANGED vars
  <2>1. Main \in Threads
    BY DEF Threads
  <2>2. Lines(d)'
    BY <1>1, <1>4, <2>1, OtherLines
  <2> QED BY <2>2 DEF Placed
<1> QED BY <1>2, <1>3, <1>4 DEF Next

LEMMA PlacedInvariant == Spec => []Placed
<1>1. IInv /\ IInv' /\ Placed /\ [Next]_vars => Placed'
  BY NextPlaced
<1> QED BY <1>1, InitPlaced, Invariance, PTL DEF Spec

(* A thread that lives, main included, spawns into and is cancelled with a  *)
(* group that vl_group_end has not freed, and is never without one.         *)
THEOREM ContextAlwaysOpen == Spec => []ContextOpen
<1>1. IInv /\ Placed => ContextOpen
  <2>1. SUFFICES ASSUME IInv, Placed, NEW th \in Threads, Active(th)
                 PROVE  ctxGroup[th] \in Groups /\ gstate[ctxGroup[th]] = "open"
    BY DEF ContextOpen, Active
  <2>2. ctxGroup[th] \in Groups
    BY <2>1 DEF Placed, Lines, Level, Own
  <2> QED BY <2>1, <2>2, NoneAssumption DEF IInv, Structure, Context
<1> QED BY <1>1, Invariance, PlacedInvariant, PTL

(* A thread that has left no group open stands in its context's group. *)
LEMMA InnermostContext == IInv /\ Placed => ContextIsInnermostBlock
<1>1. SUFFICES ASSUME IInv, Placed, NEW th \in Threads,
                      pc[th] \in {"run", "blocked", "await"}, \A g \in Groups : ~LeftOpen(th, g)
               PROVE  ctxGroup[th] = InnermostGroup(th)
  BY DEF ContextIsInnermostBlock
<1>2. PICK d \in [Groups -> Nat] : Lines(d)
  BY <1>1 DEF Placed
<1> DEFINE s == blocks[th]
           inside == {i \in DOMAIN s : s[i] # Try}
<1>3. /\ Level(d, th) /\ Ordered(d, Own(th), s) /\ Own(th) \subseteq Groups
      /\ s \in Seq(Groups \cup {Try}) /\ DOMAIN s = 1 .. Len(s) /\ Len(s) \in Nat
  <2>1. Level(d, th) /\ Stack(d, th)
    BY <1>1, <1>2 DEF Lines, Active
  <2>2. s \in Seq(Groups \cup {Try})
    BY <1>1 DEF IInv, TypeOK
  <2> QED BY <2>1, <2>2 DEF Stack, Own
<1>4. \A g \in Own(th) : \E i \in inside : s[i] = g
  <2>1. SUFFICES ASSUME NEW g \in Own(th) PROVE \E i \in inside : s[i] = g
    OBVIOUS
  <2>2. owner[g] = th /\ InBlock(g) /\ g # Try
    BY <1>1, <1>3, GroupAssumption DEF LeftOpen, Own, Try
  <2> QED BY <1>1, <2>2 DEF InBlock
<1>5. CASE ctxGroup[th] \in Own(th)
  <2>1. PICK i \in inside : s[i] = ctxGroup[th]
    BY <1>4, <1>5
  <2>2. \A j \in inside : j <= i
    <3>1. SUFFICES ASSUME NEW j \in inside, j > i PROVE FALSE
      BY <1>3
    <3>2. d[s[i]] < d[s[j]] /\ s[j] \in Own(th)
      BY <1>3, <3>1 DEF Ordered
    <3>3. d[s[j]] <= d[s[i]] /\ d[s[j]] \in Nat /\ d[s[i]] \in Nat
      BY <1>3, <1>5, <2>1, <3>2 DEF Level
    <3> QED BY <3>2, <3>3
  <2>3. \A k \in inside : (\A j \in inside : j <= k) => k = i
    BY <1>3, <2>2
  <2>4. (CHOOSE k \in inside : \A j \in inside : j <= k) = i
    BY <2>2, <2>3
  <2> QED BY <2>1, <2>4 DEF InnermostGroup
<1>6. CASE ctxGroup[th] \notin Own(th)
  <2>1. ctxGroup[th] = Base(th)
    BY <1>3, <1>6 DEF Level
  <2>2. Own(th) = {}
    <3>1. SUFFICES ASSUME NEW g \in Own(th) PROVE FALSE
      OBVIOUS
    <3>2. d[Base(th)] < d[g] /\ d[g] <= d[Base(th)] /\ d[g] \in Nat /\ d[Base(th)] \in Nat
      BY <1>3, <2>1 DEF Level
    <3> QED BY <3>2
  <2>3. inside = {}
    BY <1>3, <2>2 DEF Ordered
  <2> QED BY <2>1, <2>3 DEF InnermostGroup, Base
<1> QED BY <1>5, <1>6

(* The context's group is the one of the innermost block, also after what   *)
(* a group inside delivered was caught, in a thread that has ended what it  *)
(* began (task.c: vl_group_end sets c->group from g->parent).               *)
THEOREM ContextIsInnermost == Spec => []ContextIsInnermostBlock
BY InnermostContext, Invariance, PlacedInvariant, PTL

(* A set of groups closed under parents has the whole walk from each. *)
LEMMA ChainWithin ==
  ASSUME NEW S \in SUBSET Groups, \A a \in S : parent[a] \in S \cup {None},
         NEW g \in S \cup {None}
  PROVE  Chain(g) \subseteq S
BY DEF Chain

(* group_cancelled's walk up g->parent meets no freed group as long as no   *)
(* thread has left a block without ending its group.                        *)
THEOREM ChainsAreOpen == Spec => []ChainOpen
<1>1. IInv /\ Placed => ChainOpen
  <2>1. SUFFICES ASSUME IInv, Placed, \A th \in Threads, g \in Groups : ~LeftOpen(th, g),
                        NEW th \in Threads, pc[th] \in {"run", "blocked", "joining", "await"}
                 PROVE  \A a \in Chain(ctxGroup[th]) : gstate[a] = "open"
    BY DEF ChainOpen
  <2> DEFINE S == {g \in Groups : gstate[g] = "open"}
  <2>2. PICK d \in [Groups -> Nat] : Lines(d)
    BY <2>1 DEF Placed
  <2>3. \A a \in S : parent[a] \in S \cup {None}
    <3>1. SUFFICES ASSUME NEW a \in S PROVE parent[a] \in S \cup {None}
      OBVIOUS
    <3>2. Active(owner[a]) => parent[a] \in S \cup {None}
      BY <2>1 DEF IInv, Structure, Nesting, TypeOK
    <3>3. a # Root => owner[a] \in Threads /\ InBlock(a)
      BY <2>1 DEF LeftOpen, IInv, Structure, Homes
    <3>4. a # Root => Active(owner[a])
      BY <2>1, <2>2, <3>3 DEF InBlock, Lines, Stack, Active
    <3>5. a = Root => parent[a] = None
      BY <2>2 DEF Lines, Tree
    <3> QED BY <3>2, <3>4, <3>5
  <2>4. ctxGroup[th] \in S
    BY <2>1, <2>2, NoneAssumption DEF Active, Lines, Level, Own, IInv, Structure, Context
  <2> QED BY <2>3, <2>4, ChainWithin
<1> QED BY <1>1, Invariance, PlacedInvariant, PTL

-----------------------------------------------------------------------------
(* Programs in which no exception leaves a group body.  *)

(* The groups of the stack s are in r. *)
Kept(s, r) == \A i \in DOMAIN s : s[i] # Try => \E k \in DOMAIN r : r[k] = s[i]

(* There is a handler between any two groups of a stack; above each. *)
Apart(s) ==
  \A i, k \in DOMAIN s :
    s[i] # Try /\ s[k] # Try /\ i < k => \E j \in DOMAIN s : s[j] = Try /\ i < j /\ j < k

Topped(s) == \A i \in DOMAIN s : s[i] # Try => \E j \in DOMAIN s : s[j] = Try /\ i < j

(* Whatever a thread throws is caught inside its innermost group. *)
Sheltered ==
  \A th \in Threads :
    /\ Apart(blocks[th])
    /\ pc[th] \in {"blocked", "await", "joining"} => Topped(blocks[th])

NoneLeft == \A th \in Threads, g \in Groups : ~LeftOpen(th, g)

(* What tasks raise and groups deliver comes from a task or a timeout. *)
Failures == ({"Boom", "Cancelled"} \X Tasks) \cup ({"Timeout"} \X Groups)

FromTasks ==
  /\ \A t \in Tasks : exc[t] \in Failures \cup {None} /\ raised[t] \in Failures \cup {None}
  /\ \A g \in Groups : failure[g] \in Failures \cup {None}

Timed ==
  \A g \in Groups :
    /\ gstate[g] = "unused" => deadline[g] = "none"
    /\ timedOut[g] => deadline[g] # "none"

Confined == Sheltered /\ NoneLeft /\ FromTasks /\ Timed

(* What becomes of the stack: cut, *)
LEMMA PrefixApart ==
  ASSUME NEW S, NEW s \in Seq(S), NEW k \in 0 .. Len(s), Apart(s)
  PROVE  Apart(SubSeq(s, 1, k))
<1> DEFINE p == SubSeq(s, 1, k)
<1>1. DOMAIN p = 1 .. k /\ DOMAIN s = 1 .. Len(s) /\ \A i \in 1 .. k : p[i] = s[i] /\ i \in DOMAIN s
  OBVIOUS
<1>2. Len(s) \in Nat
  OBVIOUS
<1> HIDE DEF p
<1> QED BY <1>1, <1>2 DEF Apart

(* cut at its last handler, or at a last one that is nearer than any group, *)
LEMMA HandlerCut ==
  ASSUME NEW S, NEW s \in Seq(S), NEW i \in DOMAIN s, s[i] = Try,
         \A j \in DOMAIN s : s[j] = Try => j <= i,
         Topped(s) \/ i = Len(s)
  PROVE  Kept(s, SubSeq(s, 1, i - 1))
<1> DEFINE p == SubSeq(s, 1, i - 1)
<1>1. /\ DOMAIN s = 1 .. Len(s) /\ Len(s) \in Nat /\ DOMAIN p = 1 .. i - 1
      /\ \A k \in 1 .. i - 1 : p[k] = s[k]
  OBVIOUS
<1> HIDE DEF p
<1>2. ASSUME NEW k \in DOMAIN s, s[k] # Try PROVE k \in 1 .. i - 1
  BY <1>1, <1>2 DEF Topped
<1>3. Kept(s, p)
  BY <1>1, <1>2 DEF Kept
<1> QED BY <1>3 DEF p

(* and grown by a handler, or by a group under one. *)
LEMMA AppendApart ==
  ASSUME NEW S, NEW s \in Seq(S), NEW e, Apart(s), e = Try \/ Topped(s)
  PROVE  /\ Apart(Append(s, e)) /\ Kept(s, Append(s, e))
         /\ \E k \in DOMAIN Append(s, e) : Append(s, e)[k] = e
<1> DEFINE p == Append(s, e)
<1>1. /\ DOMAIN s = 1 .. Len(s) /\ Len(s) \in Nat /\ DOMAIN p = 1 .. Len(s) + 1
      /\ p[Len(s) + 1] = e /\ \A k \in 1 .. Len(s) : p[k] = s[k]
  OBVIOUS
<1> HIDE DEF p
<1>2. Len(s) + 1 \in DOMAIN p /\ \A k \in DOMAIN s : k \in DOMAIN p /\ p[k] = s[k] /\ k < Len(s) + 1
  BY <1>1
<1>3. \A k \in DOMAIN p : k \in DOMAIN s \/ k = Len(s) + 1
  BY <1>1
<1>4. Kept(s, p)
  BY <1>2 DEF Kept
<1>5. Apart(p)
  <2>1. SUFFICES ASSUME NEW i \in DOMAIN p, NEW k \in DOMAIN p, p[i] # Try, p[k] # Try, i < k
                 PROVE  \E j \in DOMAIN p : p[j] = Try /\ i < j /\ j < k
    BY DEF Apart
  <2>2. i \in DOMAIN s
    BY <1>1, <1>3, <2>1
  <2>3. CASE k \in DOMAIN s
    BY <1>2, <2>1, <2>2, <2>3 DEF Apart
  <2>4. CASE k = Len(s) + 1
    BY <1>1, <1>2, <2>1, <2>2, <2>4 DEF Topped
  <2> QED BY <1>3, <2>3, <2>4
<1> QED BY <1>1, <1>2, <1>4, <1>5 DEF p

(* A throw under a handler leaves no group. *)
LEMMA ThrowKept ==
  ASSUME TypeOK, NEW th \in Threads, NEW e, Throw(th, e), Apart(blocks[th]), Topped(blocks[th])
  PROVE  /\ \A u \in Threads : u # th => pc'[u] = pc[u] /\ blocks'[u] = blocks[u]
         /\ pc'[th] \in {"run", "crashed", "failing"}
         /\ Apart(blocks'[th]) /\ Kept(blocks[th], blocks'[th])
<1>1. pc \in [Threads -> PCs] /\ blocks \in [Threads -> Seq(Groups \cup {Try})]
  BY DEF TypeOK
<1>2. ASSUME NEW i \in Handlers(th), \A j \in Handlers(th) : j <= i,
             pc' = [pc EXCEPT ![th] = "run"],
             blocks' = [blocks EXCEPT ![th] = SubSeq(@, 1, i - 1)]
      PROVE  /\ \A u \in Threads : u # th => pc'[u] = pc[u] /\ blocks'[u] = blocks[u]
             /\ pc'[th] = "run"
             /\ Apart(blocks'[th]) /\ Kept(blocks[th], blocks'[th])
  <2>1. i \in DOMAIN blocks[th] /\ i - 1 \in 0 .. Len(blocks[th])
    BY <1>1 DEF Handlers
  <2>2. Kept(blocks[th], SubSeq(blocks[th], 1, i - 1)) /\ Apart(SubSeq(blocks[th], 1, i - 1))
    BY <1>1, <1>2, <2>1, HandlerCut, PrefixApart DEF Handlers
  <2> QED BY <1>1, <1>2, <2>2
<1>3. ASSUME Handlers(th) = {}, NEW q \in {"crashed", "failing"}, pc' = [pc EXCEPT ![th] = q],
             blocks' = [blocks EXCEPT ![th] = <<>>]
      PROVE  /\ \A u \in Threads : u # th => pc'[u] = pc[u] /\ blocks'[u] = blocks[u]
             /\ pc'[th] \in {"crashed", "failing"}
             /\ Apart(blocks'[th]) /\ Kept(blocks[th], blocks'[th])
  <2>1. \A i \in DOMAIN blocks[th] : blocks[th][i] = Try => FALSE
    BY <1>3 DEF Handlers
  <2>2. \A i \in DOMAIN blocks[th] : blocks[th][i] = Try
    BY <2>1 DEF Topped
  <2> QED BY <1>1, <1>3, <2>1, <2>2 DEF Apart, Kept
<1> QED BY <1>2, <1>3 DEF Throw

(* A step of one thread, which opens no group for another. *)
LEMMA PlaceStep ==
  ASSUME Sheltered, NoneLeft, NEW th \in Threads,
         \A u \in Threads :
           u # th => pc'[u] = pc[u] /\ blocks'[u] = blocks[u] /\ ctxGroup'[u] = ctxGroup[u],
         Apart(blocks'[th]),
         pc'[th] \in {"blocked", "await", "joining"} => Topped(blocks'[th]),
         \A g \in Groups : gstate'[g] = "open" /\ owner'[g] # th => gstate[g] = "open" /\ owner'[g] = owner[g],
         \A g \in Groups \ {Root} : gstate'[g] = "open" /\ owner'[g] = th => InBlock(g)'
  PROVE  Sheltered' /\ NoneLeft'
<1>1. Sheltered'
  BY DEF Sheltered
<1>2. NoneLeft'
  <2>1. SUFFICES ASSUME NEW u \in Threads, NEW g \in Groups, g # Root, gstate'[g] = "open", owner'[g] = u
                 PROVE  InBlock(g)'
    BY DEF NoneLeft, LeftOpen
  <2>2. CASE u = th
    BY <2>1, <2>2
  <2>3. CASE u # th
    <3>1. owner[g] = u /\ InBlock(g)
      BY <2>1, <2>3 DEF NoneLeft, LeftOpen
    <3> QED BY <2>1, <2>3, <3>1 DEF InBlock
  <2> QED BY <2>2, <2>3
<1> QED BY <1>1, <1>2

(* A step that leaves no group of the thread's blocks. *)
LEMMA StayStep ==
  ASSUME Sheltered, NoneLeft, NEW th \in Threads,
         \A u \in Threads :
           u # th => pc'[u] = pc[u] /\ blocks'[u] = blocks[u] /\ ctxGroup'[u] = ctxGroup[u],
         Apart(blocks'[th]), Kept(blocks[th], blocks'[th]),
         pc'[th] \in {"blocked", "await", "joining"} => Topped(blocks'[th]),
         UNCHANGED <<gstate, owner>>, pc[th] # "joining"
  PROVE  Sheltered' /\ NoneLeft'
<1>1. ASSUME NEW g \in Groups \ {Root}, gstate'[g] = "open", owner'[g] = th PROVE InBlock(g)'
  <2>1. InBlock(g) /\ owner[g] = th
    BY <1>1 DEF NoneLeft, LeftOpen
  <2>2. PICK i \in DOMAIN blocks[th] : blocks[th][i] = g
    BY <2>1 DEF InBlock
  <2>3. g # Try
    BY GroupAssumption DEF Try
  <2> QED BY <1>1, <2>2, <2>3 DEF Kept, InBlock
<1> QED BY <1>1, PlaceStep

(* Steps within the thread's blocks. *)
LEMMA StayConfined ==
  ASSUME IInv, Sheltered, NoneLeft, Escapes = {}, NEW th \in Threads,
         \/ EnterTry(th) \/ LeaveTry(th) \/ Block(th) \/ Unblock(th)
         \/ (\E t \in Tasks : Await(th, t)) \/ (AwaitDone(th) /\ exc[awaits[th]] = None)
         \/ th \in Tasks /\ \/ Start(th) \/ GroupFail(th) \/ Finish(th)
                            \/ \E isError \in BOOLEAN : Return(th, isError)
  PROVE  Sheltered' /\ NoneLeft'
<1> USE DEF At, taskVars, groupVars
<1>1. TypeOK /\ blocks[th] \in Seq(Groups \cup {Try}) /\ pc \in [Threads -> PCs] /\ Apart(blocks[th])
  BY DEF IInv, TypeOK, Sheltered
<1>2. Kept(blocks[th], blocks[th])
  BY DEF Kept
<1>3. CASE EnterTry(th)
  <2>1. Apart(Append(blocks[th], Try)) /\ Kept(blocks[th], Append(blocks[th], Try))
    BY <1>1, AppendApart
  <2> QED BY <1>1, <1>3, <2>1, StayStep DEF EnterTry, TypeOK
<1>4. CASE LeaveTry(th)
  <2>1. PICK i \in DOMAIN blocks[th] : i = Len(blocks[th]) /\ blocks[th][i] = Try
    BY <1>1, <1>4 DEF LeaveTry, Inside, InnermostBlock
  <2>2. i - 1 \in 0 .. Len(blocks[th]) /\ \A j \in DOMAIN blocks[th] : j <= i
    BY <1>1, <2>1
  <2>3. Apart(SubSeq(blocks[th], 1, i - 1)) /\ Kept(blocks[th], SubSeq(blocks[th], 1, i - 1))
    BY <1>1, <2>1, <2>2, HandlerCut, PrefixApart
  <2>4. /\ blocks'[th] = SubSeq(blocks[th], 1, i - 1)
        /\ \A u \in Threads : u # th => blocks'[u] = blocks[u]
        /\ UNCHANGED <<pc, ctxGroup, gstate, owner>> /\ pc[th] = "run"
    BY <1>1, <1>4, <2>1 DEF LeaveTry, TypeOK
  <2> QED BY <2>3, <2>4, StayStep
<1>5. CASE Block(th) \/ (\E t \in Tasks : Await(th, t))
  <2>1. Topped(blocks[th])
    BY <1>5 DEF Block, Await, Covered, Handlers, Topped
  <2> QED BY <1>1, <1>2, <1>5, <2>1, StayStep DEF Block, Await
<1>6. CASE Unblock(th) \/ (AwaitDone(th) /\ exc[awaits[th]] = None)
  BY <1>1, <1>2, <1>6, StayStep DEF Unblock, AwaitDone
<1>7. CASE th \in Tasks /\ \/ Start(th) \/ GroupFail(th) \/ Finish(th)
                           \/ \E isError \in BOOLEAN : Return(th, isError)
  <2>1. /\ UNCHANGED <<blocks, gstate, owner>>
        /\ \A u \in Threads : u # th => pc'[u] = pc[u] /\ ctxGroup'[u] = ctxGroup[u]
        /\ pc[th] # "joining" /\ pc'[th] \notin {"blocked", "await", "joining"}
    BY <1>1, <1>7 DEF Start, GroupFail, Finish, Return, TypeOK
  <2> QED BY <1>1, <1>2, <2>1, StayStep
<1> QED BY <1>3, <1>4, <1>5, <1>6, <1>7

(* Throws. *)
LEMMA ThrowConfined ==
  ASSUME IInv, Sheltered, NoneLeft, Escapes = {}, NEW th \in Threads,
         UserThrow(th) \/ CancelPoint(th) \/ (AwaitDone(th) /\ exc[awaits[th]] # None)
  PROVE  Sheltered' /\ NoneLeft'
<1>1. TypeOK /\ Apart(blocks[th])
  BY DEF IInv, Sheltered
<1>2. PICK e : Throw(th, e) /\ UNCHANGED <<ctxGroup, groupVars>> /\ pc[th] \in {"run", "blocked", "await"}
  BY DEF UserThrow, CancelPoint, AwaitDone, At
<1>3. Topped(blocks[th])
  BY DEF UserThrow, CancelPoint, AwaitDone, At, Sheltered, Covered, Handlers, Topped
<1>4. /\ \A u \in Threads : u # th => pc'[u] = pc[u] /\ blocks'[u] = blocks[u]
      /\ pc'[th] \in {"run", "crashed", "failing"}
      /\ Apart(blocks'[th]) /\ Kept(blocks[th], blocks'[th])
  BY <1>1, <1>2, <1>3, ThrowKept
<1> QED BY <1>2, <1>4, StayStep DEF groupVars

(* A group begins under a handler, if other groups are around it. *)
LEMMA BeginConfined ==
  ASSUME IInv, Sheltered, NoneLeft, Escapes = {}, NEW th \in Threads, NEW g \in Groups,
         NEW timed \in BOOLEAN, GroupBegin(th, g, timed)
  PROVE  Sheltered' /\ NoneLeft'
<1>1. /\ TypeOK /\ blocks[th] \in Seq(Groups \cup {Try}) /\ Apart(blocks[th]) /\ Topped(blocks[th])
      /\ \A h \in Groups : h # Try
  BY GroupAssumption DEF IInv, TypeOK, Sheltered, GroupBegin, Covered, Handlers, Topped, Try
<1>2. PICK r : r = Append(blocks[th], g)
  OBVIOUS
<1>3. Apart(r) /\ Kept(blocks[th], r) /\ \E k \in DOMAIN r : r[k] = g
  BY <1>1, <1>2, AppendApart
<1>4. /\ blocks'[th] = r /\ pc[th] = "run" /\ UNCHANGED pc
      /\ \A u \in Threads : u # th => blocks'[u] = blocks[u] /\ ctxGroup'[u] = ctxGroup[u]
      /\ \A h \in Groups : h # g => gstate'[h] = gstate[h] /\ owner'[h] = owner[h]
      /\ owner'[g] = th
  BY <1>1, <1>2 DEF GroupBegin, At, TypeOK
<1>5. ASSUME NEW h \in Groups \ {Root}, gstate'[h] = "open", owner'[h] = th PROVE InBlock(h)'
  <2>1. CASE h = g
    BY <1>3, <1>4, <1>5, <2>1 DEF InBlock
  <2>2. CASE h # g
    <3>1. InBlock(h) /\ owner[h] = th
      BY <1>4, <1>5, <2>2 DEF NoneLeft, LeftOpen
    <3>2. PICK i \in DOMAIN blocks[th] : blocks[th][i] = h
      BY <1>4, <3>1 DEF InBlock
    <3> QED BY <1>1, <1>3, <1>4, <1>5, <3>2 DEF Kept, InBlock
  <2> QED BY <2>1, <2>2
<1> QED BY <1>3, <1>4, <1>5, PlaceStep

(* The group that ends is the block's: none is left open. *)
LEMMA EndConfined ==
  ASSUME IInv, Placed, Sheltered, NoneLeft, NEW th \in Threads, GroupEnd(th)
  PROVE  Sheltered' /\ NoneLeft'
<1> DEFINE s == blocks[th]
           n == Len(s)
<1>1. /\ TypeOK /\ s \in Seq(Groups \cup {Try}) /\ n \in Nat /\ DOMAIN s = 1 .. n /\ Apart(s)
      /\ \A h \in Groups : h # Try
  BY GroupAssumption DEF IInv, TypeOK, Sheltered, Try
<1>2. /\ UNCHANGED <<ctxGroup, gstate, owner>> /\ pc[th] = "run"
      /\ \A u \in Threads : u # th => pc'[u] = pc[u] /\ blocks'[u] = blocks[u]
  BY <1>1 DEF GroupEnd, At, groupVars, TypeOK
<1>3. CASE /\ Inside(th) /\ InnermostBlock(th) # Try
           /\ blocks' = [blocks EXCEPT ![th] = SubSeq(@, 1, Len(@) - 1)]
           /\ pc' = [pc EXCEPT ![th] = "joining"]
  <2>1. PICK k \in 0 .. n : n = k + 1
    <3>1. n > 0
      BY <1>3 DEF Inside
    <3> HIDE DEF n, s
    <3>2. n - 1 \in 0 .. n /\ n = (n - 1) + 1
      BY <1>1, <3>1
    <3> QED BY <3>2
  <2>2. PICK r : r = SubSeq(s, 1, k)
    OBVIOUS
  <2>3. /\ Apart(r) /\ DOMAIN r = 1 .. k /\ \A i \in 1 .. k : r[i] = s[i] /\ i \in DOMAIN s
        /\ k + 1 \in DOMAIN s /\ s[k + 1] # Try /\ \A i \in DOMAIN s : i = k + 1 \/ i \in 1 .. k
    BY <1>1, <1>3, <2>1, <2>2, PrefixApart DEF InnermostBlock
  <2>4. blocks'[th] = r /\ pc'[th] = "joining"
    BY <1>1, <1>3, <2>1, <2>2 DEF TypeOK
  <2>5. ctxGroup[th] = s[k + 1]
    <3>1. ctxGroup[th] = InnermostGroup(th)
      BY <1>2, InnermostContext DEF NoneLeft, ContextIsInnermostBlock
    <3> DEFINE inside == {i \in DOMAIN s : s[i] # Try}
    <3> HIDE DEF s
    <3>2. \A i \in inside : i \in Int /\ i <= k + 1
      BY <1>1, <2>3
    <3>3. \A i \in inside : (\A j \in inside : j <= i) => i = k + 1
      BY <2>3, <3>2
    <3>4. k + 1 \in inside
      BY <2>3
    <3>5. (CHOOSE i \in inside : \A j \in inside : j <= i) = k + 1
      BY <3>2, <3>3, <3>4
    <3> QED BY <3>1, <3>4, <3>5 DEF InnermostGroup, s
  <2> HIDE DEF s, n
  <2>6. Topped(r)
    <3>1. SUFFICES ASSUME NEW i \in 1 .. k, r[i] # Try PROVE \E j \in 1 .. k : r[j] = Try /\ i < j
      BY <2>3 DEF Topped
    <3>2. PICK j \in DOMAIN s : s[j] = Try /\ i < j /\ j < k + 1
      BY <1>1, <2>3, <3>1 DEF Apart
    <3> QED BY <2>3, <3>2
  <2>7. ASSUME NEW h \in Groups \ {Root}, gstate'[h] = "open", owner'[h] = th PROVE InBlock(h)'
    <3>1. PICK i \in DOMAIN s : s[i] = h
      BY <1>2, <2>7 DEF InBlock, NoneLeft, LeftOpen, s
    <3>2. CASE i = k + 1
      BY <1>2, <2>4, <2>5, <2>7, <3>1, <3>2 DEF InBlock
    <3>3. CASE i \in 1 .. k
      BY <2>3, <2>4, <2>7, <3>1, <3>3 DEF InBlock
    <3> QED BY <2>3, <3>2, <3>3
  <2> QED BY <1>2, <2>3, <2>4, <2>6, <2>7, PlaceStep
<1>4. CASE pc' = [pc EXCEPT ![th] = "exiting"] /\ UNCHANGED blocks
  <2>1. pc'[th] = "exiting" /\ Kept(s, s)
    BY <1>1, <1>4 DEF TypeOK, Kept
  <2> QED BY <1>1, <1>2, <1>4, <2>1, StayStep
<1> QED BY <1>3, <1>4 DEF GroupEnd

(* What the end of a group throws is caught around that block alone. *)
LEMMA JoinConfined ==
  ASSUME IInv, Placed, Sheltered, NoneLeft, NEW th \in Threads, NEW asValue \in BOOLEAN,
         JoinDone(th, asValue)
  PROVE  Sheltered' /\ NoneLeft'
<1>1. TypeOK /\ Apart(blocks[th])
  BY DEF IInv, Sheltered
<1>2. PICK c \in Groups : c = ctxGroup[th]
  BY <1>1 DEF JoinDone, Joining, TypeOK
<1>3. /\ pc[th] \in {"joining", "exiting"} /\ UNCHANGED owner
      /\ gstate'[c] = "freed" /\ \A h \in Groups : h # c => gstate'[h] = gstate[h]
      /\ \A u \in Threads : u # th => ctxGroup'[u] = ctxGroup[u]
  BY <1>1, <1>2 DEF JoinDone, Joining, At, TypeOK
<1>4. Topped(blocks[th])
  <2>1. CASE pc[th] = "joining"
    BY <2>1 DEF Sheltered
  <2>2. CASE pc[th] = "exiting"
    <3>1. blocks[th] = <<>>
      BY <2>2 DEF Placed, Lines, Stack
    <3> QED BY <3>1 DEF Topped
  <2> QED BY <1>3, <2>1, <2>2
<1>5. /\ \A u \in Threads : u # th => pc'[u] = pc[u] /\ blocks'[u] = blocks[u]
      /\ pc'[th] \in {"run", "crashed", "failing", "exited"}
      /\ Apart(blocks'[th]) /\ Kept(blocks[th], blocks'[th])
  <2>1. CASE Throw(th, Delivered(c).exc)
    <3>1. PICK e : e = Delivered(c).exc
      OBVIOUS
    <3> QED BY <1>1, <1>4, <2>1, <3>1, ThrowKept
  <2>2. CASE /\ pc' = [pc EXCEPT ![th] = IF @ = "joining" THEN "run" ELSE "exited"]
             /\ UNCHANGED blocks
    BY <1>1, <1>3, <2>2 DEF TypeOK, Kept
  <2> QED BY <1>2, <2>1, <2>2 DEF JoinDone
<1>6. ASSUME NEW h \in Groups \ {Root}, gstate'[h] = "open", owner'[h] = th PROVE InBlock(h)'
  <2>1. InBlock(h) /\ owner[h] = th /\ h # c
    BY <1>3, <1>6 DEF NoneLeft, LeftOpen
  <2>2. PICK i \in DOMAIN blocks[th] : blocks[th][i] = h
    BY <1>2, <2>1 DEF InBlock
  <2>3. h # Try
    BY GroupAssumption DEF Try
  <2> QED BY <1>5, <1>6, <2>2, <2>3 DEF Kept, InBlock
<1> QED BY <1>3, <1>5, <1>6, PlaceStep

(* Every step. *)
LEMMA PlaceConfined ==
  ASSUME IInv, Placed, Sheltered, NoneLeft, Escapes = {}, [Next]_vars
  PROVE  Sheltered' /\ NoneLeft'
<1>1. TypeOK
  BY DEF IInv
<1>2. ASSUME NEW th \in Threads, NEW t \in Tasks, Spawn(th, t) PROVE Sheltered' /\ NoneLeft'
  <2>1. /\ t \in Threads /\ pc'[t] = "created" /\ pc[t] = "unborn"
        /\ UNCHANGED <<blocks, ctxGroup, gstate, owner>>
        /\ \A u \in Threads : u # t => pc'[u] = pc[u]
    BY <1>1, <1>2 DEF Spawn, TypeOK, Threads
  <2>2. Apart(blocks[t]) /\ Kept(blocks[t], blocks[t])
    BY <2>1 DEF Sheltered, Kept
  <2> QED BY <2>1, <2>2, StayStep
<1>3. ASSUME (\E th \in Threads : JoinTimeout(th)) \/ Clock \/ Gone \/ UNCHANGED vars
      PROVE  Sheltered' /\ NoneLeft'
  <2>1. UNCHANGED <<pc, blocks, ctxGroup, gstate, owner>>
    BY <1>3 DEF JoinTimeout, Clock, DeadlinePasses, Gone, vars, threadVars, groupVars
  <2> QED BY <2>1 DEF Sheltered, NoneLeft, LeftOpen, InBlock
<1>4. ASSUME NEW th \in Threads, Runtime(th) PROVE Sheltered' /\ NoneLeft'
  BY <1>3, <1>4, StayConfined, ThrowConfined, EndConfined, JoinConfined DEF Runtime
<1>5. ASSUME NEW th \in Threads, Program(th) PROVE Sheltered' /\ NoneLeft'
  <2>1. ~TryReturns(th)
    BY DEF TryReturns
  <2> QED BY <1>2, <1>5, <2>1, StayConfined, ThrowConfined, BeginConfined DEF Program
<1> QED BY <1>3, <1>4, <1>5 DEF Next

(* Where failures come from. *)
LEMMA ThrowSource ==
  ASSUME TypeOK, FromTasks, NEW th \in Threads, NEW e \in Excs, Throw(th, e),
         th \in Tasks => e \in Failures
  PROVE  \A t \in Tasks : exc'[t] \in Failures \cup {None} /\ raised'[t] \in Failures \cup {None}
<1>1. \A t \in Tasks : exc'[t] \in {exc[t], e} /\ raised'[t] \in {raised[t], e}
                       /\ (t # th => exc'[t] = exc[t] /\ raised'[t] = raised[t])
  BY ThrowRaises
<1> QED BY <1>1 DEF FromTasks

LEMMA SourceConfined ==
  ASSUME IInv, FromTasks, [Next]_vars
  PROVE  FromTasks'
<1>1. TypeOK /\ Locals /\ Homes
  BY DEF IInv, Structure
<1> DEFINE Sourced == \A t \in Tasks : exc'[t] \in Failures \cup {None} /\ raised'[t] \in Failures \cup {None}
<1> USE DEF At, taskVars, groupVars
<1>2. UNCHANGED <<exc, raised>> => Sourced
  BY DEF FromTasks
<1>3. UNCHANGED failure => \A g \in Groups : failure'[g] \in Failures \cup {None}
  BY DEF FromTasks
<1>4. \A th \in Threads : <<"Boom", th>> \in Excs /\ <<"Cancelled", th>> \in Excs
                          /\ (th \in Tasks => <<"Boom", th>> \in Failures /\ <<"Cancelled", th>> \in Failures)
  BY DEF Excs, Failures
<1>5. ASSUME NEW th \in Threads, UserThrow(th) \/ CancelPoint(th) PROVE Sourced /\ UNCHANGED failure
  BY <1>1, <1>4, <1>5, ThrowSource DEF UserThrow, CancelPoint
<1>6. ASSUME NEW th \in Threads, AwaitDone(th) PROVE Sourced /\ UNCHANGED failure
  <2>1. CASE exc[awaits[th]] # None
    <3>1. PICK e \in Excs : e = exc[awaits[th]] /\ e \in Failures
      BY <1>1, <1>6, <2>1 DEF AwaitDone, Locals, TypeOK, FromTasks
    <3> QED BY <1>1, <1>6, <2>1, <3>1, ThrowSource DEF AwaitDone
  <2> QED BY <1>2, <1>6, <2>1 DEF AwaitDone
<1>7. ASSUME NEW th \in Threads, NEW asValue \in BOOLEAN, JoinDone(th, asValue)
      PROVE  Sourced /\ UNCHANGED failure
  <2>1. PICK c \in Groups : c = ctxGroup[th]
    BY <1>1, <1>7 DEF JoinDone, Joining, TypeOK
  <2>2. CASE Delivered(c).exc # None /\ Throw(th, Delivered(c).exc)
    <3>1. PICK e \in Excs : e = Delivered(c).exc
      BY <1>1, <2>2, DeliveredType DEF Outcomes
    <3>2. e \in Failures
      BY <2>2, <3>1 DEF Delivered, Failures, FromTasks
    <3> QED BY <1>1, <1>7, <2>2, <3>1, <3>2, ThrowSource DEF JoinDone
  <2>3. CASE UNCHANGED <<exc, raised>>
    BY <1>2, <1>7, <2>3 DEF JoinDone
  <2> QED BY <1>7, <2>1, <2>2, <2>3 DEF JoinDone
<1>8. ASSUME NEW t \in Tasks, NEW isError \in BOOLEAN, Return(t, isError) PROVE Sourced /\ UNCHANGED failure
  <2>1. <<"Boom", t>> \in Failures
    BY <1>4 DEF Threads
  <2> QED BY <1>1, <1>8, <2>1 DEF Return, FromTasks, TypeOK
<1>9. ASSUME NEW t \in Tasks, GroupFail(t)
      PROVE  Sourced /\ \A g \in Groups : failure'[g] \in Failures \cup {None}
  <2>1. PICK g \in Groups : g = taskGroup[t]
    BY <1>1, <1>9 DEF GroupFail, Homes
  <2>2. raised[t] \in Failures
    BY <1>1, <1>9, ExcAssumption DEF GroupFail, Locals, FromTasks
  <2>3. failure' \in {failure, [failure EXCEPT ![g] = raised[t]]}
    BY <1>9, <2>1 DEF GroupFail, RecordFailure
  <2>4. \A h \in Groups : failure'[h] \in {failure[h], raised[t]}
    BY <1>1, <2>3 DEF TypeOK
  <2>5. Sourced
    BY <1>2, <1>9 DEF GroupFail
  <2> QED BY <2>2, <2>4, <2>5 DEF FromTasks
<1> DEFINE Recorded == \A g \in Groups : failure'[g] \in Failures \cup {None}
<1>10. ASSUME NEW th \in Threads, JoinTimeout(th) \/ LeaveTry(th) \/ GroupEnd(th) PROVE Sourced /\ Recorded
  BY <1>2, <1>3, <1>10 DEF JoinTimeout, LeaveTry, GroupEnd
<1>11. ASSUME NEW t \in Tasks, Start(t) \/ Finish(t) PROVE Sourced /\ Recorded
  BY <1>2, <1>3, <1>11 DEF Start, Finish
<1>12. ASSUME NEW th \in Threads, Program(th), ~UserThrow(th) PROVE Sourced /\ Recorded
  <2>1. UNCHANGED <<exc, raised, failure>>
    BY <1>12 DEF Program, EnterTry, TryReturns, Block, Unblock, GroupBegin, Spawn, Await
  <2> QED BY <1>2, <1>3, <2>1
<1>13. ASSUME Clock \/ Gone \/ UNCHANGED vars PROVE Sourced /\ Recorded
  <2>1. UNCHANGED <<exc, raised, failure>>
    BY <1>13 DEF Clock, DeadlinePasses, Gone, vars
  <2> QED BY <1>2, <1>3, <2>1
<1>14. UNCHANGED failure => Recorded
  BY <1>3
<1>15. ASSUME NEW t \in Tasks, GroupFail(t) PROVE Sourced /\ Recorded
  BY <1>9, <1>15
<1> HIDE DEF Sourced, Recorded
<1>16. ASSUME NEW th \in Threads, Runtime(th) PROVE Sourced /\ Recorded
  BY <1>5, <1>6, <1>7, <1>8, <1>10, <1>11, <1>14, <1>15, <1>16 DEF Runtime
<1>17. ASSUME NEW th \in Threads, Program(th) PROVE Sourced /\ Recorded
  BY <1>5, <1>12, <1>14, <1>17
<1>18. Sourced /\ Recorded
  BY <1>13, <1>16, <1>17 DEF Next
<1> QED BY <1>18 DEF Sourced, Recorded, FromTasks

(* A block that timed out has a timeout. *)
LEMMA TimedConfined ==
  ASSUME IInv, Timed, [Next]_vars
  PROVE  Timed'
<1>1. TypeOK
  BY DEF IInv
<1> USE DEF taskVars, groupVars, threadVars
<1>2. ASSUME UNCHANGED <<gstate, deadline, timedOut>> PROVE Timed'
  BY <1>2 DEF Timed
<1>3. ASSUME NEW th \in Threads, NEW g \in Groups, NEW timed \in BOOLEAN, GroupBegin(th, g, timed)
      PROVE  Timed'
  BY <1>1, <1>3 DEF GroupBegin, Timed, TypeOK
<1>4. ASSUME NEW g \in Groups, DeadlinePasses(g) PROVE Timed'
  BY <1>1, <1>4 DEF DeadlinePasses, Timed, TypeOK
<1>5. ASSUME NEW th \in Threads, JoinTimeout(th) PROVE Timed'
  <2>1. PICK g \in Groups : g = ctxGroup[th]
    BY <1>1, <1>5 DEF JoinTimeout, Joining, TypeOK
  <2> QED BY <1>1, <1>5, <2>1 DEF JoinTimeout, Timed, TypeOK
<1>6. ASSUME NEW th \in Threads, NEW asValue \in BOOLEAN, JoinDone(th, asValue) PROVE Timed'
  <2>1. PICK g \in Groups : g = ctxGroup[th]
    BY <1>1, <1>6 DEF JoinDone, Joining, TypeOK
  <2>2. gstate' = [gstate EXCEPT ![g] = "freed"] /\ UNCHANGED <<deadline, timedOut>>
    BY <1>6, <2>1 DEF JoinDone
  <2> QED BY <1>1, <2>2 DEF Timed, TypeOK
<1>7. ASSUME NEW th \in Threads,
             CancelPoint(th) \/ AwaitDone(th) \/ LeaveTry(th) \/ GroupEnd(th) \/ EnterTry(th)
             \/ TryReturns(th) \/ UserThrow(th) \/ Block(th) \/ Unblock(th)
             \/ Start(th) \/ GroupFail(th) \/ Finish(th)
      PROVE  Timed'
  BY <1>2, <1>7 DEF CancelPoint, AwaitDone, LeaveTry, GroupEnd, EnterTry, TryReturns, UserThrow,
                    Block, Unblock, Start, GroupFail, Finish
<1>8. ASSUME NEW th \in Threads, NEW t \in Tasks, Spawn(th, t) \/ Await(th, t) PROVE Timed'
  BY <1>2, <1>8 DEF Spawn, Await
<1>9. ASSUME NEW t \in Tasks, NEW isError \in BOOLEAN, Return(t, isError) PROVE Timed'
  BY <1>2, <1>9 DEF Return
<1>10. ASSUME Gone \/ UNCHANGED vars PROVE Timed'
  BY <1>2, <1>10 DEF Gone, vars
<1>11. ASSUME NEW th \in Threads, Runtime(th) PROVE Timed'
  BY <1>5, <1>6, <1>7, <1>9, <1>11 DEF Runtime
<1>12. ASSUME NEW th \in Threads, Program(th) PROVE Timed'
  BY <1>3, <1>7, <1>8, <1>12 DEF Program
<1>13. ASSUME Clock PROVE Timed'
  BY <1>4, <1>13 DEF Clock
<1> QED BY <1>10, <1>11, <1>12, <1>13 DEF Next

LEMMA InitConfined == Init => Confined
<1>1. SUFFICES ASSUME Init PROVE Confined
  OBVIOUS
<1>2. Sheltered
  BY <1>1 DEF Init, Sheltered, Apart, Topped
<1>3. NoneLeft
  BY <1>1 DEF Init, NoneLeft, LeftOpen
<1> QED BY <1>1, <1>2, <1>3 DEF Init, Confined, FromTasks, Timed

LEMMA ConfinedInvariant ==
  ASSUME Escapes = {}
  PROVE  Spec => []Confined
<1>1. IInv /\ Placed /\ Confined /\ [Next]_vars => Confined'
  BY PlaceConfined, SourceConfined, TimedConfined DEF Confined
<1> QED BY <1>1, InitConfined, Invariance, PlacedInvariant, PTL DEF Spec

-----------------------------------------------------------------------------
(* The promise of StructuredGroups.  *)

(* How a group block looks from outside: its group tells. *)
Shown(g) == IF gstate[g] = "unused" THEN "ahead" ELSE IF gstate[g] = "open" THEN "entered" ELSE "left"

Outside == \A g \in Groups : BlockState(g) = Shown(g)

LEMMA BlockShown == IInv /\ Placed /\ Confined => Outside
<1>1. SUFFICES ASSUME IInv, Placed, Confined, NEW g \in Groups PROVE BlockState(g) = Shown(g)
  BY DEF Outside
<1>2. PICK d \in [Groups -> Nat] : Lines(d)
  BY <1>1 DEF Placed
<1>3. gstate[g] \in {"unused", "open", "freed"} /\ g # Try
  BY <1>1, GroupAssumption DEF IInv, TypeOK, Try
<1>4. gstate[Root] # "unused"
  BY <1>2 DEF Lines, Tree
<1>5. gstate[g] # "unused" => owner[g] \in Threads
  BY <1>1 DEF IInv, Structure, Homes
<1>6. gstate[g] = "open" /\ g # Root => InBlock(g)
  BY <1>1, <1>5 DEF Confined, NoneLeft, LeftOpen
<1>7. gstate[g] = "freed" => ~InBlock(g)
  <2>1. gstate[g] = "freed" => Stack(d, owner[g])
    BY <1>2, <1>5 DEF Lines
  <2> QED BY <1>3, <2>1 DEF InBlock, Stack, Ordered, Own
<1> QED BY <1>3, <1>4, <1>6, <1>7 DEF BlockState, Shown

LEMMA SameResults ==
  ASSUME \A t \in Tasks : (pc'[t] = "done") <=> (pc[t] = "done"),
         \A t \in Tasks : pc[t] = "done" => raised'[t] = raised[t]
  PROVE  \A t \in Tasks : TaskResult(t)' = TaskResult(t)
BY DEF TaskResult

(* What happens within the blocks and the tasks is not seen outside. *)
LEMMA StepUnseen ==
  ASSUME Outside, Outside', UNCHANGED <<gstate, taskGroup, outcome>>,
         \A g \in Groups : (deadline'[g] # "none") <=> (deadline[g] # "none"),
         \A t \in Tasks : (pc'[t] = "done") <=> (pc[t] = "done"),
         \A t \in Tasks : pc[t] = "done" => raised'[t] = raised[t]
  PROVE  UNCHANGED Structured!vars
<1>1. \A g \in Groups : BlockState(g)' = BlockState(g)
  BY DEF Outside, Shown
<1>2. \A t \in Tasks : TaskResult(t)' = TaskResult(t)
  BY SameResults
<1> QED BY <1>1, <1>2 DEF Structured!vars

(* vl_group_begin enters a block. *)
LEMMA BeginSeen ==
  ASSUME TypeOK, Timed, Outside, Outside', NEW th \in Threads, NEW g \in Groups,
         NEW timed \in BOOLEAN, GroupBegin(th, g, timed)
  PROVE  Structured!Enter(g)
<1>1. /\ gstate[g] = "unused" /\ gstate'[g] = "open" /\ deadline[g] = "none"
      /\ deadline'[g] = IF timed THEN "armed" ELSE "none"
      /\ \A h \in Groups : h # g => gstate'[h] = gstate[h] /\ deadline'[h] = deadline[h]
      /\ UNCHANGED <<pc, raised, taskGroup, outcome>>
  BY DEF GroupBegin, taskVars, Timed, TypeOK
<1>2. /\ \A h \in Groups : BlockState(h)' = IF h = g THEN "entered" ELSE BlockState(h)
      /\ BlockState(g) = "ahead"
  BY <1>1 DEF Outside, Shown
<1>3. \A t \in Tasks : TaskResult(t)' = TaskResult(t)
  BY <1>1, SameResults
<1>4. \/ \A h \in Groups : (deadline'[h] # "none") = (deadline[h] # "none")
      \/ \A h \in Groups : (deadline'[h] # "none") = (h = g \/ deadline[h] # "none")
  BY <1>1
<1> QED BY <1>1, <1>2, <1>3, <1>4 DEF Structured!Enter

(* task_new puts a task into an entered block. *)
LEMMA SpawnSeen ==
  ASSUME IInv, Outside, Outside', NEW th \in Threads, NEW t \in Tasks, Spawn(th, t)
  PROVE  Structured!Spawn(t, ctxGroup[th]) /\ ctxGroup[th] \in Groups
<1>1. PICK g \in Groups : g = ctxGroup[th]
  BY DEF Spawn, IInv, TypeOK
<1>2. gstate[g] = "open" /\ taskGroup[t] = None
  BY <1>1, NoneAssumption DEF Spawn, At, IInv, Structure, Context, Homes, Active
<1>3. /\ UNCHANGED <<gstate, raised, deadline, outcome>> /\ pc[t] = "unborn" /\ pc'[t] = "created"
      /\ \A u \in Tasks : u # t => pc'[u] = pc[u]
      /\ taskGroup' = [taskGroup EXCEPT ![t] = g]
  BY <1>1 DEF Spawn, IInv, TypeOK, Threads
<1>4. \A h \in Groups : BlockState(h)' = BlockState(h)
  BY <1>3 DEF Outside, Shown
<1>5. \A u \in Tasks : TaskResult(u)' = TaskResult(u)
  BY <1>3, SameResults
<1>6. BlockState(g) = "entered"
  BY <1>2 DEF Outside, Shown
<1> QED BY <1>1, <1>2, <1>3, <1>4, <1>5, <1>6 DEF Structured!Spawn

(* The end of task_main is the end of the task. *)
LEMMA FinishSeen ==
  ASSUME IInv, Confined, Outside, Outside', NEW t \in Tasks, Finish(t)
  PROVE  Structured!End(t)
<1>1. TypeOK /\ Homes
  BY DEF IInv, Structure
<1>2. /\ UNCHANGED <<gstate, raised, deadline, outcome, taskGroup>> /\ pc[t] = "finishing" /\ pc'[t] = "done"
      /\ \A u \in Tasks : u # t => pc'[u] = pc[u]
  BY <1>1 DEF Finish, At, TypeOK, Threads, taskVars
<1>3. \A h \in Groups : BlockState(h)' = BlockState(h)
  BY <1>2 DEF Outside, Shown
<1>4. taskGroup[t] # None
  BY <1>1, <1>2, NoneAssumption DEF Homes
<1>5. PICK r : r = TaskResult(t)'
  OBVIOUS
<1>6. r \in {Structured!Ok(t)} \cup Structured!Failures
  BY <1>2, <1>5 DEF TaskResult, Structured!Ok, Structured!Failures, Confined, FromTasks, Failures
<1>7. TaskResult(t) = None /\ \A u \in Tasks : TaskResult(u)' = IF u = t THEN r ELSE TaskResult(u)
  BY <1>2, <1>5 DEF TaskResult
<1>8. [u \in Tasks |-> TaskResult(u)'] = [[u \in Tasks |-> TaskResult(u)] EXCEPT ![t] = r]
  BY <1>7
<1> QED BY <1>2, <1>3, <1>4, <1>6, <1>7, <1>8 DEF Structured!End

(* The list of failures is a listing of the failed tasks. *)
LEMMA ReportIsListing ==
  ASSUME TypeOK, Locals, Reports, Confined, NEW g \in Groups, \A t \in Members(g) : pc[t] = "done"
  PROVE  Reported(g) \in Structured!Listings(g)
<1> DEFINE R == Reported(g)
           F == {t \in Members(g) : raised[t] # None}
           n == Cardinality(F)
<1>1. FailedIn(g) = F /\ Len(R) = n /\ R \in Seq(Excs)
  BY AllReported, ReportedType DEF Pending
<1>2. Structured!Failed(g) = F
  <2>1. ASSUME NEW t \in Members(g) PROVE TaskResult(t) # Structured!Ok(t) <=> raised[t] # None
    BY <2>1 DEF TaskResult, Structured!Ok, Confined, FromTasks, Failures, Members
  <2> QED BY <2>1 DEF Structured!Failed, Structured!Members, Members
<1>3. PICK order \in [1 .. n -> F] : Orders(g, order)
  BY <1>1 DEF Reports, Listed
<1>4. \A i, j \in 1 .. n : order[i] = order[j] => i = j
  BY <1>3 DEF Orders
<1>5. \A i \in 1 .. n : R[i] = [t \in Tasks |-> TaskResult(t)][order[i]]
  BY <1>3 DEF Orders, TaskResult, Members
<1>6. R = [i \in 1 .. n |-> [t \in Tasks |-> TaskResult(t)][order[i]]]
  <2> HIDE DEF R, F, n
  <2>1. R = [i \in 1 .. n |-> R[i]]
    BY <1>1
  <2> QED BY <1>5, <2>1
<1>7. n = Cardinality(F)
  OBVIOUS
<1>8. order \in {o \in [1 .. n -> F] : \A i, j \in 1 .. n : o[i] = o[j] => i = j}
  BY <1>3, <1>4
<1>9. R \in {[i \in 1 .. n |-> [t \in Tasks |-> TaskResult(t)][o[i]]] :
              o \in {o \in [1 .. n -> F] : \A i, j \in 1 .. n : o[i] = o[j] => i = j}}
  <2> HIDE DEF R, F, n
  <2> QED BY <1>6, <1>8
<1> HIDE DEF R, F, n
<1>10. n = Structured!Cardinality(F)
  BY <1>7 DEF Cardinality, Structured!Cardinality
<1>11. R \in Structured!Listings(g)
  BY <1>2, <1>9, <1>10 DEF Structured!Listings
<1> QED BY <1>11 DEF R

(* What vl_group_end delivers may be delivered. *)
LEMMA DeliveredMay ==
  ASSUME TypeOK, Locals, Reports, Confined, NEW g \in Groups, \A t \in Members(g) : pc[t] = "done"
  PROVE  Structured!Deliverable(g, Delivered(g))
<1> DEFINE R == Reported(g)
<1>1. R \in Structured!Listings(g) /\ R \in Seq(Excs)
  BY ReportIsListing, ReportedType
<1>2. failure[g] \in Excs \cup {None} /\ suppressed[g] \in Seq(Excs) /\ (failure[g] = None => suppressed[g] = <<>>)
  BY DEF TypeOK, Reports, FirstKept
<1>3. failure[g] = None => R = <<>>
  BY <1>2 DEF Reported
<1>4. failure[g] # None => R # <<>> /\ Head(R) = failure[g] /\ Tail(R) = suppressed[g]
  BY <1>2 DEF Reported
<1>5. CASE timedOut[g] /\ (failure[g] = None \/ failure[g][1] = "Cancelled")
  <2>1. Delivered(g) = [exc |-> <<"Timeout", g>>, suppressed |-> R]
    BY <1>5 DEF Delivered, Reported
  <2>2. deadline[g] # "none"
    BY <1>5 DEF Confined, Timed
  <2>3. R = <<>> \/ Head(R)[1] = "Cancelled"
    BY <1>3, <1>4, <1>5
  <2> HIDE DEF R
  <2> QED BY <1>1, <2>1, <2>2, <2>3 DEF Structured!Deliverable
<1>6. CASE ~(timedOut[g] /\ (failure[g] = None \/ failure[g][1] = "Cancelled"))
  <2>1. Delivered(g) = [exc |-> failure[g], suppressed |-> suppressed[g]]
    BY <1>6 DEF Delivered
  <2>2. \/ R = <<>> /\ Delivered(g) = [exc |-> None, suppressed |-> <<>>]
        \/ R # <<>> /\ Delivered(g) = [exc |-> Head(R), suppressed |-> Tail(R)]
    BY <1>2, <1>3, <1>4, <2>1
  <2> HIDE DEF R
  <2> QED BY <1>1, <2>2 DEF Structured!Deliverable
<1> QED BY <1>5, <1>6

(* vl_group_end leaves the block when all of its tasks have ended. *)
LEMMA JoinSeen ==
  ASSUME IInv, IInv', Reports, Confined, Outside, Outside', NEW th \in Threads,
         NEW asValue \in BOOLEAN, JoinDone(th, asValue)
  PROVE  Structured!Leave(ctxGroup[th]) /\ ctxGroup[th] \in Groups
<1>1. TypeOK /\ Locals /\ JoinedTasksDone' /\ Homes' /\ Context
  BY DEF IInv, Structure
<1>2. PICK g \in Groups : g = ctxGroup[th]
  BY <1>1 DEF JoinDone, Joining, TypeOK
<1>3. /\ pc[th] \in {"joining", "exiting"} /\ gstate[g] = "open"
      /\ gstate' = [gstate EXCEPT ![g] = "freed"]
      /\ outcome' = [outcome EXCEPT ![g] = Delivered(g)]
      /\ UNCHANGED <<deadline, taskGroup>>
  BY <1>1, <1>2, NoneAssumption DEF JoinDone, Joining, At, Context, Active
<1>4. /\ \A u \in Threads : u # th => pc'[u] = pc[u]
      /\ pc'[th] \in {"run", "crashed", "failing", "exited"}
      /\ \A t \in Tasks : t # th => raised'[t] = raised[t]
  <2>1. CASE Delivered(g).exc # None /\ Throw(th, Delivered(g).exc)
    <3>1. PICK e \in Excs : e = Delivered(g).exc
      BY <1>1, <2>1, DeliveredType DEF Outcomes
    <3>2. pc'[th] \in {"run", "crashed", "failing"}
      BY <1>1, <2>1, <3>1, ThrowBlocks
    <3> QED BY <1>1, <2>1, <3>1, <3>2, ThrowRaises
  <2>2. CASE /\ pc' = [pc EXCEPT ![th] = IF @ = "joining" THEN "run" ELSE "exited"]
             /\ UNCHANGED raised
    BY <1>1, <1>3, <2>2 DEF TypeOK
  <2> QED BY <1>2, <2>1, <2>2 DEF JoinDone
<1>5. \A t \in Members(g) : pc[t] = "done"
  <2>1. SUFFICES ASSUME NEW t \in Members(g) PROVE pc[t] = "done"
    OBVIOUS
  <2>2. t \in Tasks /\ t \in Threads /\ taskGroup'[t] = g /\ gstate'[g] = "freed"
    BY <1>1, <1>3, <2>1 DEF Members, Threads, TypeOK
  <2>3. pc'[t] = "unborn" \/ pc'[t] = "done"
    BY <1>1, <2>2 DEF JoinedTasksDone, Members, Pending
  <2>4. pc'[t] # "unborn"
    BY <1>1, <2>2, NoneAssumption DEF Homes
  <2> QED BY <1>4, <2>2, <2>3, <2>4
<1>6. Structured!Deliverable(g, Delivered(g))
  BY <1>1, <1>5, DeliveredMay
<1>7. /\ \A h \in Groups : BlockState(h)' = IF h = g THEN "left" ELSE BlockState(h)
      /\ BlockState(g) = "entered"
  BY <1>1, <1>3 DEF Outside, Shown, TypeOK
<1>8. \A t \in Tasks : TaskResult(t)' = TaskResult(t)
  BY <1>3, <1>4, SameResults DEF Threads
<1>9. \A t \in Members(g) : TaskResult(t) # None
  BY <1>5, ExcAssumption DEF TaskResult, Members
<1>10. Structured!Members(g) = Members(g)
  BY DEF Structured!Members, Members
<1>11. outcome'[g] = Delivered(g) /\ \A h \in Groups \ {g} : outcome'[h] = outcome[h]
  BY <1>1, <1>3 DEF TypeOK
<1>12. Structured!Leave(g)
  <2>1. [h \in Groups |-> BlockState(h)'] = [[h \in Groups |-> BlockState(h)] EXCEPT ![g] = "left"]
    BY <1>7
  <2>2. \A t \in Structured!Members(g) : [u \in Tasks |-> TaskResult(u)][t] # None
    BY <1>9, <1>10 DEF Members
  <2> QED BY <1>3, <1>6, <1>7, <1>8, <1>11, <2>1, <2>2 DEF Structured!Leave
<1> QED BY <1>2, <1>12

(* Every step is one of the promise, or is not seen outside. *)
LEMMA StepSeen ==
  ASSUME IInv, IInv', Reports, Confined, Outside, Outside', [Next]_vars
  PROVE  [Structured!Next]_(Structured!vars)
<1>1. TypeOK /\ Locals
  BY DEF IInv
<1> DEFINE Unseen == UNCHANGED Structured!vars
           Seen == [Structured!Next]_(Structured!vars)
<1> USE DEF At, taskVars, groupVars, threadVars
<1>2. ASSUME NEW th \in Threads, pc[th] # "done", pc'[th] # "done",
             UNCHANGED <<gstate, deadline, taskGroup, outcome>>,
             \A u \in Threads : u # th => pc'[u] = pc[u],
             \A t \in Tasks : t # th => raised'[t] = raised[t]
      PROVE  Unseen
  BY <1>2, StepUnseen DEF Threads
<1>3. ASSUME NEW th \in Threads, UserThrow(th) \/ CancelPoint(th) \/ AwaitDone(th)
      PROVE  Unseen
  <2>1. UNCHANGED <<gstate, deadline, taskGroup, outcome>> /\ pc[th] \in {"run", "blocked", "await"}
    BY <1>3 DEF UserThrow, CancelPoint, AwaitDone
  <2>2. CASE \E e \in Excs : Throw(th, e)
    <3>1. /\ \A u \in Threads : u # th => pc'[u] = pc[u]
          /\ pc'[th] \in {"run", "crashed", "failing"}
      BY <1>1, <2>2, ThrowBlocks
    <3>2. \A t \in Tasks : t # th => raised'[t] = raised[t]
      BY <1>1, <2>2, ThrowRaises
    <3> QED BY <1>2, <2>1, <3>1, <3>2
  <2>3. CASE AwaitDone(th) /\ exc[awaits[th]] = None
    <3>1. /\ \A u \in Threads : u # th => pc'[u] = pc[u]
          /\ pc'[th] = "run" /\ UNCHANGED raised
      BY <1>1, <2>3 DEF AwaitDone, TypeOK
    <3> QED BY <1>2, <2>1, <3>1
  <2>4. <<"Boom", th>> \in Excs /\ <<"Cancelled", th>> \in Excs
    BY DEF Excs
  <2>5. AwaitDone(th) /\ exc[awaits[th]] # None => exc[awaits[th]] \in Excs /\ Throw(th, exc[awaits[th]])
    BY <1>1 DEF AwaitDone, Locals, TypeOK
  <2> QED BY <1>3, <2>2, <2>3, <2>4, <2>5 DEF UserThrow, CancelPoint
<1>4. ASSUME NEW th \in Threads,
             EnterTry(th) \/ LeaveTry(th) \/ TryReturns(th) \/ Block(th) \/ Unblock(th) \/ GroupEnd(th)
             \/ (\E t \in Tasks : Await(th, t))
      PROVE  Unseen
  <2>1. /\ UNCHANGED <<gstate, deadline, taskGroup, outcome, raised>>
        /\ \A u \in Threads : u # th => pc'[u] = pc[u]
        /\ pc[th] \in {"run", "blocked"} /\ pc'[th] \in {"run", "blocked", "await", "joining", "exiting"}
    BY <1>1, <1>4 DEF EnterTry, LeaveTry, TryReturns, Block, Unblock, GroupEnd, Await, TypeOK
  <2> QED BY <1>2, <2>1
<1>5. ASSUME NEW t \in Tasks, Start(t) \/ GroupFail(t) \/ \E isError \in BOOLEAN : Return(t, isError)
      PROVE  Unseen
  <2>1. /\ UNCHANGED <<gstate, deadline, taskGroup, outcome>> /\ t \in Threads
        /\ \A u \in Threads : u # t => pc'[u] = pc[u]
        /\ pc[t] \in {"created", "run", "failing"} /\ pc'[t] \in {"run", "failing", "finishing"}
        /\ \A u \in Tasks : u # t => raised'[u] = raised[u]
    BY <1>1, <1>5 DEF Start, GroupFail, Return, TypeOK, Threads
  <2> QED BY <1>2, <2>1
<1>6. ASSUME (\E th \in Threads : JoinTimeout(th)) \/ Clock \/ Gone \/ UNCHANGED vars PROVE Unseen
  <2>1. UNCHANGED <<pc, gstate, taskGroup, outcome, raised>>
    BY <1>6 DEF JoinTimeout, Clock, DeadlinePasses, Gone, vars
  <2>2. \A g \in Groups : (deadline'[g] # "none") <=> (deadline[g] # "none")
    BY <1>1, <1>6 DEF JoinTimeout, Clock, DeadlinePasses, Gone, vars, TypeOK
  <2> QED BY <2>1, <2>2, StepUnseen
<1>7. ASSUME NEW th \in Threads, NEW g \in Groups, NEW timed \in BOOLEAN, GroupBegin(th, g, timed)
      PROVE  Seen
  <2>1. Structured!Enter(g)
    BY <1>1, <1>7, BeginSeen DEF Confined
  <2> QED BY <2>1 DEF Structured!Next
<1>8. ASSUME NEW th \in Threads, NEW t \in Tasks, Spawn(th, t) PROVE Seen
  <2>1. Structured!Spawn(t, ctxGroup[th]) /\ ctxGroup[th] \in Groups
    BY <1>8, SpawnSeen
  <2> QED BY <2>1 DEF Structured!Next
<1>9. ASSUME NEW t \in Tasks, Finish(t) PROVE Seen
  <2>1. Structured!End(t)
    BY <1>9, FinishSeen
  <2> QED BY <2>1 DEF Structured!Next
<1>10. ASSUME NEW th \in Threads, NEW asValue \in BOOLEAN, JoinDone(th, asValue) PROVE Seen
  <2>1. Structured!Leave(ctxGroup[th]) /\ ctxGroup[th] \in Groups
    BY <1>10, JoinSeen
  <2> QED BY <2>1 DEF Structured!Next
<1>11. Unseen => Seen
  OBVIOUS
<1> HIDE DEF Unseen, Seen
<1>12. ASSUME NEW th \in Threads, Runtime(th) PROVE Seen
  BY <1>3, <1>4, <1>5, <1>6, <1>9, <1>10, <1>11, <1>12 DEF Runtime
<1>13. ASSUME NEW th \in Threads, Program(th) PROVE Seen
  BY <1>3, <1>4, <1>7, <1>8, <1>11, <1>13 DEF Program
<1>14. Seen
  BY <1>6, <1>11, <1>12, <1>13 DEF Next
<1> QED BY <1>14 DEF Seen

(* In the programs of the class, groups keep their promise (specification   *)
(* 8.7 and 9.1): no block is left before its tasks have ended, and each     *)
(* delivers the first failure with all the others (task.c: vl_group_begin,  *)
(* task_new, task_main, group_fail, vl_group_end).                          *)
THEOREM StructuredImplemented ==
  ASSUME Escapes = {}
  PROVE  Spec => ImplementsStructuredGroups
<1>1. Init /\ Outside => Structured!Init
  <2>1. SUFFICES ASSUME Init, Outside PROVE Structured!Init
    OBVIOUS
  <2>2. \A g \in Groups : BlockState(g) = IF g = Root THEN "entered" ELSE "ahead"
    BY <2>1 DEF Init, Outside, Shown
  <2>3. \A t \in Tasks : TaskResult(t) = None
    BY <2>1, ThreadAssumption DEF Init, TaskResult, Threads
  <2> QED BY <2>1, <2>2, <2>3 DEF Init, Structured!Init
<1>2. IInv /\ IInv' /\ Reports /\ Confined /\ Outside /\ Outside' /\ [Next]_vars
      => [Structured!Next]_(Structured!vars)
  BY StepSeen
<1>3. Spec => []Confined
  BY ConfinedInvariant
<1> QED BY <1>1, <1>2, <1>3, BlockShown, Invariance, PlacedInvariant, ReportsInvariant, PTL
        DEF Spec, ImplementsStructuredGroups, Structured!Spec

(* The sentence of the manual that fails once a throw leaves a group body   *)
(* holds in every program of the class: the step that leaves a block, if    *)
(* the process goes on, finds all of its tasks ended (vl_group_end).        *)
THEOREM BlocksWaitForTasks ==
  ASSUME Escapes = {}
  PROVE  Spec => NoTaskOutlivesItsBlock
<1>1. ASSUME IInv, IInv', Outside', [Next]_vars,
             NEW g \in Groups, BlockState(g)' = "left", NEW t \in Members(g)
      PROVE  ~Pending(t)'
  <2>1. TypeOK /\ Homes /\ TypeOK' /\ JoinedTasksDone'
    BY <1>1 DEF IInv, Structure
  <2>2. gstate'[g] = "freed"
    BY <1>1, <2>1 DEF Outside, Shown, TypeOK
  <2>3. t \in Tasks /\ taskGroup[t] = g /\ pc[t] # "unborn"
    BY <1>1, <2>1, NoneAssumption DEF Members, Homes
  <2>4. ASSUME NEW th \in Threads, NEW u \in Tasks, Spawn(th, u) PROVE taskGroup'[t] = g
    <3>1. pc[u] = "unborn"
      BY <2>4 DEF Spawn
    <3> QED BY <2>1, <2>3, <2>4, <3>1 DEF Spawn, TypeOK
  <2>5. ASSUME UNCHANGED taskGroup PROVE taskGroup'[t] = g
    BY <2>3, <2>5
  <2> USE DEF taskVars
  <2>6. ASSUME NEW th \in Threads, Runtime(th) PROVE UNCHANGED taskGroup
    BY <2>6 DEF Runtime, CancelPoint, JoinTimeout, JoinDone, AwaitDone, LeaveTry, GroupEnd,
                Start, Return, GroupFail, Finish
  <2>7. ASSUME NEW th \in Threads, Program(th), \A u \in Tasks : ~Spawn(th, u) PROVE UNCHANGED taskGroup
    BY <2>7 DEF Program, EnterTry, TryReturns, UserThrow, Block, Unblock, GroupBegin, Await
  <2>8. ASSUME Clock \/ Gone \/ UNCHANGED vars PROVE UNCHANGED taskGroup
    BY <2>8 DEF Clock, DeadlinePasses, Gone, vars
  <2>9. taskGroup'[t] = g
    BY <1>1, <2>4, <2>5, <2>6, <2>7, <2>8 DEF Next
  <2> QED BY <2>1, <2>2, <2>3, <2>9 DEF JoinedTasksDone, Members
<1>2. IInv /\ IInv' /\ Outside' /\ [Next]_vars
      => [\A g \in Groups :
            ProcessUp' /\ BlockState(g) = "entered" /\ BlockState(g)' = "left" =>
              \A t \in Members(g) : ~Pending(t)']_vars
  BY <1>1
<1>3. Spec => []Confined
  BY ConfinedInvariant
<1> QED BY <1>2, <1>3, BlockShown, Invariance, PlacedInvariant, PTL DEF Spec, NoTaskOutlivesItsBlock
=============================================================================
