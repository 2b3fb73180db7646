------------------------------ MODULE MCTasks ------------------------------
EXTENDS Tasks, TLC

(* Tasks are alike, and so are the groups other than the root. *)
Symmetry == Permutations(Tasks) \cup Permutations(Groups \ {Root})

(* Bounds: the bounded steps of each thread.  Where main has none, its      *)
(* exceptions end the process; a task that opens groups catches its own.    *)
OneEach == [th \in {Main} \cup Tasks |-> 1]
TasksOne == [th \in {Main} \cup Tasks |-> IF th = Main THEN 0 ELSE 1]
MainOne == [th \in {Main} \cup Tasks |-> IF th = Main THEN 1 ELSE 2]
=============================================================================
