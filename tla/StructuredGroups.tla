-------------------------- MODULE StructuredGroups --------------------------
(***************************************************************************)
(* What the documentation promises of a group block (voila_specification   *)
(* 8.7 and 9.1, programming_manual 10.2): it is not left before all of its *)
(* tasks have ended, and it delivers the first failure with every other    *)
(* one attached to it, a fired timeout taking the place of the first       *)
(* failure only when that is a cancellation.  Tasks.tla implements this    *)
(* for programs in which no exception leaves a group body.                 *)
(***************************************************************************)
EXTENDS Integers, Sequences, FiniteSets

CONSTANTS Tasks, Groups, Root, None

VARIABLES
  block,    \* each group block: not entered, entered, left
  timed,    \* has the block a timeout?
  home,     \* the group a task belongs to
  result,   \* how a task ended: well, or with an exception or error value
  report    \* what the block delivered when it was left

vars == <<block, timed, home, result, report>>

Init ==
  /\ block = [g \in Groups |-> IF g = Root THEN "entered" ELSE "ahead"]
  /\ timed = [g \in Groups |-> FALSE]
  /\ home = [t \in Tasks |-> None]
  /\ result = [t \in Tasks |-> None]
  /\ report = [g \in Groups |-> None]

Enter(g) ==
  /\ block[g] = "ahead"
  /\ block' = [block EXCEPT ![g] = "entered"]
  /\ timed' \in {timed, [timed EXCEPT ![g] = TRUE]}
  /\ UNCHANGED <<home, result, report>>

Spawn(t, g) ==
  /\ block[g] = "entered"
  /\ home[t] = None
  /\ home' = [home EXCEPT ![t] = g]
  /\ UNCHANGED <<block, timed, result, report>>

Ok(t) == <<"ok", t>>

Failures == ({"Boom", "Cancelled"} \X Tasks) \cup ({"Timeout"} \X Groups)

End(t) ==
  /\ home[t] # None /\ result[t] = None
  /\ \E r \in {Ok(t)} \cup Failures : result' = [result EXCEPT ![t] = r]
  /\ UNCHANGED <<block, timed, home, report>>

Members(g) == {t \in Tasks : home[t] = g}
Failed(g)  == {t \in Members(g) : result[t] # Ok(t)}

(* The failures of g's tasks, each once, in some order. *)
Listings(g) ==
  LET F == Failed(g)
      n == Cardinality(F)
  IN  {[i \in 1 .. n |-> result[order[i]]] :
         order \in {o \in [1 .. n -> F] : \A i, j \in 1 .. n : o[i] = o[j] => i = j}}

(* Nothing to deliver; or the first failure with the others attached; or a  *)
(* timeout with all of them attached, the first of them a cancellation.     *)
Deliverable(g, r) ==
  \E list \in Listings(g) :
    \/ list = <<>> /\ r = [exc |-> None, suppressed |-> <<>>]
    \/ list # <<>> /\ r = [exc |-> Head(list), suppressed |-> Tail(list)]
    \/ /\ timed[g] /\ (list = <<>> \/ Head(list)[1] = "Cancelled")
       /\ r = [exc |-> <<"Timeout", g>>, suppressed |-> list]

Leave(g) ==
  /\ block[g] = "entered"
  /\ \A t \in Members(g) : result[t] # None
  /\ block' = [block EXCEPT ![g] = "left"]
  /\ Deliverable(g, report'[g])
  /\ \A h \in Groups \ {g} : report'[h] = report[h]
  /\ UNCHANGED <<timed, home, result>>

Next ==
  \/ \E g \in Groups : Enter(g) \/ Leave(g)
  \/ \E t \in Tasks, g \in Groups : Spawn(t, g)
  \/ \E t \in Tasks : End(t)

Spec == Init /\ [][Next]_vars
=============================================================================
