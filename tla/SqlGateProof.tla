---------------------------- MODULE SqlGateProof ----------------------------
(***************************************************************************)
(* The safety of SqlGate.tla, proved for any tasks and groups and any      *)
(* number of calls: the gate is held as long as the transaction is live,   *)
(* the list a thread's exit goes through is complete, a thread that is     *)
(* gone holds nothing, and a call is inside another thread's transaction   *)
(* only if it was in flight when that began.                               *)
(*                                                                         *)
(* The inductive invariant IInv adds to the properties who may be in which *)
(* call (CallsOfOwner), what the gate is held for while no transaction is  *)
(* open and no call went astray (HeldFor), and that a thread whose call    *)
(* did has finished it and cannot pass the gate again (StraysAreOut).      *)
(***************************************************************************)
EXTENDS SqlGate, TLAPS

(* A live transaction holds the gate. *)
OpenIsHeld == Live => tx

(* The gate is held with no transaction open only inside the owner's begin, *)
(* where another call of the owner has ended it, or when a stray call did.  *)
HeldFor ==
  tx /\ ~open /\ ~closed /\ strays = NoStrays =>
    \/ arg[owner] = "begin" /\ pc[owner] \in {"call", "leave"}
    \/ arg[owner] \in {"statement", "commit", "rollback"} /\ pc[owner] = "leave"

(* Only the gate's owner is past the gate in begin, or ends a transaction. *)
CallsOfOwner ==
  \A th \in Threads :
    /\ pc[th] \in {"call", "leave"} /\ arg[th] = "begin" => Mine(th)
    /\ pc[th] \in {"gate", "call", "leave"} /\ arg[th] \in {"commit", "rollback"} => Mine(th)

GoneHoldNothing == \A th \in Threads : pc[th] = "gone" => ~Mine(th)

(* A thread whose call was run inside another's transaction has that call *)
(* behind it, and the gate is still the other's.                          *)
StraysAreOut ==
  \A th \in Threads :
    strays[th] # 0 => strays[th] = 1 /\ tx /\ ~Mine(th) /\ pc[th] # "call"

IInv ==
  /\ TypeOK /\ OpenIsHeld /\ HeldFor /\ CallsOfOwner
  /\ ListExact /\ GoneHoldNothing /\ StraysAreOut

-----------------------------------------------------------------------------
LEMMA InitHolds == Init => IInv
<1> SUFFICES ASSUME Init PROVE IInv
  OBVIOUS
<1>1. Main \in Threads
  BY DEF Threads
<1>2. TypeOK
  <2>1. {tx, closed, open} \subseteq BOOLEAN /\ owner \in Threads \cup {None} /\ ~tx
    BY DEF Init
  <2>2. pc \in [Threads -> Places] /\ arg \in [Threads -> Calls \cup {None}]
    BY DEF Init, Places
  <2>3. /\ owned \in [Threads -> BOOLEAN] /\ joining \in [Threads -> Groups \cup {None}]
        /\ joined \subseteq Groups
    BY DEF Init
  <2>4. ops \in [Threads -> 0 .. MaxOps] /\ strays \in [Threads -> Nat]
    BY BoundAssumption DEF Init
  <2> QED BY <2>1, <2>2, <2>3, <2>4 DEF TypeOK
<1> QED
  BY <1>2 DEF Init, IInv, OpenIsHeld, HeldFor, CallsOfOwner, ListExact, GoneHoldNothing,
              StraysAreOut, Mine, Live

-----------------------------------------------------------------------------
(* Each step keeps the types. *)
LEMMA CallTypes ==
  ASSUME TypeOK, NEW th \in Threads,
         \/ \E call \in {"statement", "commit", "close", "begin"} : CallDb(th, call)
         \/ Settle(th)
  PROVE  TypeOK'
<1>1. ops' \in [Threads -> 0 .. MaxOps]
  BY BoundAssumption DEF TypeOK, CallDb, MayCall, Settle
<1> QED
  BY <1>1 DEF TypeOK, CallDb, Settle, Arrive, Places, Calls, gateVars, dbVars, groupVars

LEMMA RuntimeTypes ==
  ASSUME TypeOK, NEW th \in Threads, Runtime(th)
  PROVE  TypeOK'
<1>1. CASE Enter(th) \/ TakeGate(th) \/ Refuse(th)
  <2>1. owner' \in Threads \cup {None} /\ (tx' => owner' # None)
    BY <1>1, ThreadAssumption DEF TypeOK, Enter, TakeGate, Taken, Refuse, gateVars
  <2>2. {tx', closed', open'} \subseteq BOOLEAN
    BY <1>1 DEF TypeOK, Enter, TakeGate, Taken, Refuse, gateVars, dbVars
  <2> QED
    BY <1>1, <2>1, <2>2 DEF TypeOK, Enter, TakeGate, Refuse, Places, groupVars
<1>2. CASE Statement(th)
  <2>1. {tx', closed', open'} \subseteq BOOLEAN
    BY <1>2 DEF TypeOK, Statement, gateVars
  <2>2. strays' \in [Threads -> Nat]
    BY <1>2 DEF TypeOK, Statement, Stray, NoStrays
  <2> QED
    BY <1>2, <2>1, <2>2 DEF TypeOK, Statement, Work, Places, gateVars, groupVars
<1>3. CASE EndTransaction(th) \/ Close(th) \/ Begin(th)
  <2>1. {tx', closed', open'} \subseteq BOOLEAN
    BY <1>3 DEF TypeOK, EndTransaction, Close, Begin, gateVars
  <2>2. owned' \in [Threads -> BOOLEAN]
    BY <1>3 DEF TypeOK, EndTransaction, Close, Begin, Listed
  <2>3. strays' = NoStrays \/ UNCHANGED strays
    BY <1>3 DEF EndTransaction, Close, Begin
  <2>4. strays' \in [Threads -> Nat]
    BY <2>3 DEF TypeOK, NoStrays
  <2> QED
    BY <1>3, <2>1, <2>2, <2>4 DEF TypeOK, EndTransaction, Close, Begin, Work, Places,
                                 gateVars, groupVars
<1>4. CASE Leave(th)
  <2>1. strays' \in [Threads -> Nat]
    BY <1>4 DEF TypeOK, Leave, NoStrays
  <2> QED
    BY <1>4, <2>1 DEF TypeOK, Leave, Places, dbVars, groupVars
<1>5. CASE Joined(th)
  BY <1>5 DEF TypeOK, Joined, Places, gateVars, dbVars
<1>6. CASE th \in Tasks /\ ThreadExits(th)
  <2>1. {tx', closed', open'} \subseteq BOOLEAN /\ (tx' => tx)
    BY <1>6 DEF TypeOK, ThreadExits, OpenAfterExit
  <2>2. strays' \in [Threads -> Nat]
    BY <1>6 DEF TypeOK, ThreadExits, NoStrays
  <2> QED
    BY <1>6, <2>1, <2>2 DEF TypeOK, ThreadExits, Places, groupVars
<1> QED BY <1>1, <1>2, <1>3, <1>4, <1>5, <1>6 DEF Runtime

LEMMA ThreadTypes ==
  ASSUME TypeOK,
         \/ \E t \in Tasks : Spawn(t) \/ End(t)
         \/ \E g \in Groups : Join(g)
  PROVE  TypeOK'
<1>1. \A g \in Groups : Opener[g] \in Threads
  BY GroupAssumption
<1>2. Tasks \subseteq Threads
  BY DEF Threads
<1> QED
  BY <1>1, <1>2 DEF TypeOK, Spawn, End, Join, Places, gateVars, dbVars, groupVars

-----------------------------------------------------------------------------
(* Steps that leave the gate, the database and the list as they are and take *)
(* a thread nowhere inside a call but to the gate.                           *)
LEMMA OutsideCalls ==
  ASSUME IInv, TypeOK', NEW th \in Threads,
         UNCHANGED <<gateVars, dbVars, owned, strays>>,
         pc' = [pc EXCEPT ![th] = pc'[th]],
         arg' = [arg EXCEPT ![th] = arg'[th]],
         pc[th] \notin {"call", "leave"},
         pc'[th] \notin {"call", "leave", "gone"},
         pc'[th] = "gate" /\ arg'[th] \in {"commit", "rollback"} => Mine(th)
  PROVE  IInv'
<1> USE DEF gateVars, dbVars
<1>1. OpenIsHeld' /\ HeldFor'
  BY DEF IInv, TypeOK, OpenIsHeld, HeldFor, Live, NoStrays
<1>2. CallsOfOwner' /\ GoneHoldNothing'
  BY DEF IInv, TypeOK, CallsOfOwner, GoneHoldNothing, Mine
<1>3. ListExact' /\ StraysAreOut'
  BY DEF IInv, TypeOK, ListExact, StraysAreOut, Mine
<1> QED BY <1>1, <1>2, <1>3 DEF IInv

LEMMA CallStep ==
  ASSUME IInv, NEW th \in Threads,
         \/ \E call \in {"statement", "commit", "close", "begin"} : CallDb(th, call)
         \/ Settle(th)
  PROVE  IInv'
<1>1. TypeOK'
  BY CallTypes DEF IInv
<1>2. pc[th] = "idle" /\ UNCHANGED <<gateVars, dbVars, owned, strays>>
  BY DEF CallDb, MayCall, Settle, Arrive
<1>3. /\ pc' = [pc EXCEPT ![th] = pc'[th]]
      /\ arg' = [arg EXCEPT ![th] = arg'[th]]
      /\ pc'[th] = "gate"
  BY DEF IInv, TypeOK, CallDb, Settle, Arrive
<1>4. arg'[th] \in {"commit", "rollback"} => Mine(th)
  BY DEF IInv, TypeOK, CallDb, Settle, Arrive, InTransaction
<1> QED BY <1>1, <1>2, <1>3, <1>4, OutsideCalls

LEMMA RefuseStep ==
  ASSUME IInv, NEW th \in Threads, Refuse(th)
  PROVE  IInv'
<1>1. TypeOK'
  BY RuntimeTypes DEF IInv, Runtime
<1>2. /\ pc' = [pc EXCEPT ![th] = pc'[th]]
      /\ arg' = [arg EXCEPT ![th] = arg'[th]]
      /\ pc[th] = "gate" /\ pc'[th] = "idle"
  BY DEF IInv, TypeOK, Refuse
<1> QED BY <1>1, <1>2, OutsideCalls DEF Refuse

LEMMA ThreadStep ==
  ASSUME IInv,
         \/ \E t \in Tasks : Spawn(t) \/ End(t)
         \/ \E g \in Groups : Join(g)
         \/ \E th \in Threads : Joined(th)
  PROVE  IInv'
<1>1. TypeOK'
  BY ThreadTypes, RuntimeTypes DEF IInv, Runtime
<1>2. PICK th \in Threads :
        /\ UNCHANGED <<gateVars, dbVars, arg, owned, strays>>
        /\ pc' = [pc EXCEPT ![th] = pc'[th]]
        /\ pc[th] \in {"unborn", "idle", "join"}
        /\ pc'[th] \in {"idle", "exit", "join"}
  <2>1. \A g \in Groups : Opener[g] \in Threads
    BY GroupAssumption
  <2>2. Tasks \subseteq Threads
    BY DEF Threads
  <2> QED BY <2>1, <2>2 DEF IInv, TypeOK, Spawn, End, Join, Joined, gateVars, dbVars
<1>3. arg' = [arg EXCEPT ![th] = arg'[th]]
  BY <1>2 DEF IInv, TypeOK
<1> QED BY <1>1, <1>2, <1>3, OutsideCalls

-----------------------------------------------------------------------------
(* Steps of a call. *)

(* Past the gate: nobody who is not its owner gets through while it is held. *)
LEMMA EnterStep ==
  ASSUME IInv, NEW th \in Threads, Enter(th)
  PROVE  IInv'
<1>1. TypeOK'
  BY RuntimeTypes DEF IInv, Runtime
<1>2. UNCHANGED <<tx, owner, closed, open, arg, owned, strays>>
  BY DEF Enter, gateVars, dbVars
<1>3. OpenIsHeld' /\ HeldFor'
  BY <1>2 DEF IInv, TypeOK, Enter, OpenIsHeld, HeldFor, Live, NoStrays
<1>4. CallsOfOwner' /\ GoneHoldNothing'
  BY <1>2 DEF IInv, TypeOK, Enter, CallsOfOwner, GoneHoldNothing, Mine
<1>5. ListExact'
  BY <1>2 DEF IInv, TypeOK, Enter, ListExact, Mine
<1>6. StraysAreOut'
  BY <1>2 DEF IInv, TypeOK, Enter, MayPass, StraysAreOut, Mine
<1> QED BY <1>1, <1>3, <1>4, <1>5, <1>6 DEF IInv

(* The gate is free, so no transaction is live and no list has the connection. *)
LEMMA TakeGateStep ==
  ASSUME IInv, NEW th \in Threads, TakeGate(th)
  PROVE  IInv'
<1>1. TypeOK'
  BY RuntimeTypes DEF IInv, Runtime
<1>2. ~tx /\ tx' /\ owner' = th /\ UNCHANGED <<closed, open, arg, owned, strays>>
  BY DEF TakeGate, Taken, dbVars
<1>3. OpenIsHeld' /\ HeldFor'
  BY <1>2 DEF IInv, TypeOK, TakeGate, OpenIsHeld, HeldFor
<1>4. CallsOfOwner' /\ GoneHoldNothing'
  BY <1>2 DEF IInv, TypeOK, TakeGate, CallsOfOwner, GoneHoldNothing, Mine
<1>5. ListExact' /\ StraysAreOut'
  BY <1>2 DEF IInv, TypeOK, TakeGate, ListExact, StraysAreOut, Mine
<1> QED BY <1>1, <1>3, <1>4, <1>5 DEF IInv

(* A thread in a call that is not the owner's has no other stray in this *)
(* transaction, and has none coming.  If SQLite rolls back, either the    *)
(* owner is the one whose call fails, or a stray is counted.              *)
LEMMA StatementStep ==
  ASSUME IInv, NEW th \in Threads, Statement(th)
  PROVE  IInv'
<1>1. TypeOK'
  BY RuntimeTypes DEF IInv, Runtime
<1>2. /\ UNCHANGED <<tx, owner, closed, arg, owned>>
      /\ pc[th] = "call" /\ arg[th] = "statement"
      /\ pc' = [pc EXCEPT ![th] = "leave"]
  BY DEF Statement, Work, gateVars
<1>3. OpenIsHeld'
  <2>1. CASE UNCHANGED open
    BY <1>2, <2>1 DEF IInv, OpenIsHeld, Live
  <2>2. CASE ~open'
    BY <2>2 DEF OpenIsHeld, Live
  <2> QED BY <2>1, <2>2 DEF Statement
<1>4. StraysAreOut'
  <2>1. strays[th] = 0
    BY <1>2 DEF IInv, TypeOK, StraysAreOut
  <2>2. CASE UNCHANGED strays
    BY <1>2, <2>2 DEF IInv, TypeOK, StraysAreOut, Mine
  <2>3. CASE strays' = NoStrays
    BY <2>3 DEF NoStrays, StraysAreOut
  <2>4. CASE Stray(th) /\ tx /\ ~Mine(th)
    BY <1>2, <2>1, <2>4 DEF IInv, TypeOK, Stray, StraysAreOut, Mine
  <2> QED BY <2>2, <2>3, <2>4 DEF IInv, Statement, OpenIsHeld
<1>5. HeldFor'
  <2>1. CASE UNCHANGED open /\ UNCHANGED strays
    BY <1>2, <2>1 DEF IInv, TypeOK, HeldFor, NoStrays
  <2>2. CASE Stray(th)
    <3>1. strays'[th] # 0
      BY <2>2 DEF IInv, TypeOK, Stray
    <3> QED BY <3>1 DEF HeldFor, NoStrays
  <2>3. CASE Mine(th)
    BY <1>2, <2>3 DEF IInv, TypeOK, HeldFor, Mine
  <2> QED BY <2>1, <2>2, <2>3 DEF Statement
<1>6. CallsOfOwner' /\ GoneHoldNothing'
  BY <1>2 DEF IInv, TypeOK, CallsOfOwner, GoneHoldNothing, Mine
<1>7. ListExact'
  BY <1>2 DEF IInv, TypeOK, ListExact, Mine
<1> QED BY <1>1, <1>3, <1>4, <1>5, <1>6, <1>7 DEF IInv

(* Only the owner commits or rolls back. *)
LEMMA EndStep ==
  ASSUME IInv, NEW th \in Threads, EndTransaction(th)
  PROVE  IInv'
<1>1. TypeOK'
  BY RuntimeTypes DEF IInv, Runtime
<1>2. /\ UNCHANGED <<tx, owner, closed, arg, owned>>
      /\ pc[th] = "call" /\ arg[th] \in {"commit", "rollback"}
      /\ pc' = [pc EXCEPT ![th] = "leave"]
  BY DEF EndTransaction, Work, gateVars
<1>3. Mine(th)
  BY <1>2 DEF IInv, CallsOfOwner
<1>4. OpenIsHeld' /\ HeldFor'
  BY <1>2, <1>3 DEF IInv, TypeOK, OpenIsHeld, HeldFor, Mine
<1>5. CallsOfOwner' /\ GoneHoldNothing'
  BY <1>2 DEF IInv, TypeOK, CallsOfOwner, GoneHoldNothing, Mine
<1>6. ListExact'
  BY <1>2 DEF IInv, TypeOK, ListExact, Mine
<1>7. StraysAreOut'
  BY <1>2 DEF IInv, TypeOK, EndTransaction, NoStrays, StraysAreOut, Mine
<1> QED BY <1>1, <1>4, <1>5, <1>6, <1>7 DEF IInv

(* Anybody who is through the gate may close. *)
LEMMA CloseStep ==
  ASSUME IInv, NEW th \in Threads, Close(th)
  PROVE  IInv'
<1>1. TypeOK'
  BY RuntimeTypes DEF IInv, Runtime
<1>2. /\ UNCHANGED <<tx, owner, arg, owned>> /\ closed' /\ strays' = NoStrays
      /\ arg[th] = "close" /\ pc' = [pc EXCEPT ![th] = "leave"]
  BY DEF Close, Work, gateVars
<1>3. OpenIsHeld' /\ HeldFor' /\ StraysAreOut'
  BY <1>2 DEF OpenIsHeld, HeldFor, StraysAreOut, NoStrays, Live
<1>4. CallsOfOwner' /\ GoneHoldNothing'
  BY <1>2 DEF IInv, TypeOK, CallsOfOwner, GoneHoldNothing, Mine
<1>5. ListExact'
  BY <1>2 DEF IInv, TypeOK, ListExact, Mine
<1> QED BY <1>1, <1>3, <1>4, <1>5 DEF IInv

LEMMA BeginStep ==
  ASSUME IInv, NEW th \in Threads, Begin(th)
  PROVE  IInv'
<1>1. TypeOK'
  BY RuntimeTypes DEF IInv, Runtime
<1>2. /\ UNCHANGED <<tx, owner, closed, arg, strays>>
      /\ pc' = [pc EXCEPT ![th] = "leave"]
      /\ owned' = [owned EXCEPT ![th] = TRUE]
  BY DEF Begin, Work, Listed, gateVars
<1>3. Mine(th) /\ pc[th] = "call" /\ arg[th] = "begin"
  BY DEF IInv, Begin, Work, CallsOfOwner
<1>4. OpenIsHeld' /\ HeldFor'
  BY <1>2, <1>3 DEF IInv, TypeOK, OpenIsHeld, HeldFor, Mine
<1>5. CallsOfOwner' /\ GoneHoldNothing'
  BY <1>2, <1>3 DEF IInv, TypeOK, CallsOfOwner, GoneHoldNothing, Mine
<1>6. ListExact'
  BY <1>2, <1>3 DEF IInv, TypeOK, ListExact, Mine
<1>7. StraysAreOut'
  BY <1>2 DEF IInv, TypeOK, StraysAreOut, Mine
<1> QED BY <1>1, <1>4, <1>5, <1>6, <1>7 DEF IInv

(* The gate opens only when the transaction is over. *)
LEMMA LeaveStep ==
  ASSUME IInv, NEW th \in Threads, Leave(th)
  PROVE  IInv'
<1>1. TypeOK'
  BY RuntimeTypes DEF IInv, Runtime
<1>2. /\ UNCHANGED <<owner, closed, open>>
      /\ pc[th] = "leave" /\ pc' = [pc EXCEPT ![th] = "idle"]
      /\ arg' = [arg EXCEPT ![th] = None]
  BY DEF Leave, dbVars
<1>3. CASE Mine(th) /\ Over
  <2>1. ~Live /\ ~tx' /\ owned' = [owned EXCEPT ![th] = FALSE] /\ strays' = NoStrays
    BY <1>3 DEF Leave, Over
  <2>2. OpenIsHeld' /\ HeldFor'
    BY <1>2, <2>1 DEF OpenIsHeld, HeldFor, Live
  <2>3. CallsOfOwner' /\ GoneHoldNothing'
    BY <1>2, <1>3, <2>1 DEF IInv, TypeOK, CallsOfOwner, GoneHoldNothing, Mine
  <2>4. ListExact' /\ StraysAreOut'
    BY <1>2, <1>3, <2>1 DEF IInv, TypeOK, ListExact, StraysAreOut, NoStrays, Mine
  <2> QED BY <1>1, <2>2, <2>3, <2>4 DEF IInv
<1>4. CASE ~(Mine(th) /\ Over)
  <2>1. UNCHANGED <<tx, owned, strays>>
    BY <1>4 DEF Leave
  <2>2. OpenIsHeld' /\ HeldFor'
    BY <1>2, <1>4, <2>1 DEF IInv, TypeOK, OpenIsHeld, HeldFor, Over, Live, NoStrays, Mine
  <2>3. CallsOfOwner' /\ GoneHoldNothing'
    BY <1>2, <2>1 DEF IInv, TypeOK, CallsOfOwner, GoneHoldNothing, Mine
  <2>4. ListExact' /\ StraysAreOut'
    BY <1>2, <2>1 DEF IInv, TypeOK, ListExact, StraysAreOut, Mine
  <2> QED BY <1>1, <2>2, <2>3, <2>4 DEF IInv
<1> QED BY <1>3, <1>4

(* The list has the connection if and only if the thread holds the gate. *)
LEMMA ExitStep ==
  ASSUME IInv, NEW th \in Tasks, ThreadExits(th)
  PROVE  IInv'
<1> th \in Threads
  BY DEF Threads
<1>1. TypeOK'
  BY RuntimeTypes DEF IInv, Runtime
<1>2. /\ UNCHANGED <<owner, closed, arg>>
      /\ pc[th] = "exit" /\ pc' = [pc EXCEPT ![th] = "gone"]
      /\ owned' = [owned EXCEPT ![th] = FALSE]
  BY DEF ThreadExits
<1>3. owned[th] <=> Mine(th)
  BY <1>2 DEF IInv, ListExact
<1>4. CASE Mine(th)
  <2>1. ~tx' /\ strays' = NoStrays /\ open' = (open /\ closed)
    BY <1>3, <1>4 DEF ThreadExits, OpenAfterExit
  <2>2. OpenIsHeld' /\ HeldFor' /\ StraysAreOut'
    BY <1>2, <2>1 DEF OpenIsHeld, HeldFor, StraysAreOut, NoStrays, Live
  <2>3. CallsOfOwner' /\ GoneHoldNothing' /\ ListExact'
    BY <1>2, <1>4, <2>1 DEF IInv, TypeOK, CallsOfOwner, GoneHoldNothing, ListExact, Mine
  <2> QED BY <1>1, <2>2, <2>3 DEF IInv
<1>5. CASE ~Mine(th)
  <2>1. UNCHANGED <<tx, open, strays>>
    BY <1>5 DEF ThreadExits
  <2>2. OpenIsHeld' /\ HeldFor' /\ StraysAreOut'
    BY <1>2, <2>1 DEF IInv, TypeOK, OpenIsHeld, HeldFor, StraysAreOut, Live, NoStrays, Mine
  <2>3. CallsOfOwner' /\ GoneHoldNothing'
    BY <1>2, <1>5, <2>1 DEF IInv, TypeOK, CallsOfOwner, GoneHoldNothing, Mine
  <2>4. ListExact'
    BY <1>2, <1>5, <2>1 DEF IInv, TypeOK, ListExact, Mine
  <2> QED BY <1>1, <2>2, <2>3, <2>4 DEF IInv
<1> QED BY <1>4, <1>5

-----------------------------------------------------------------------------
(* Of a closed connection no conjunct says what is open. *)
LEMMA FinalizeStep ==
  ASSUME IInv, FinalizeLast
  PROVE  IInv'
<1>1. /\ UNCHANGED <<tx, owner, closed, pc, arg, owned, joining, joined, ops, strays>>
      /\ closed /\ ~open'
  BY DEF FinalizeLast, gateVars, threadVars, groupVars
<1>2. TypeOK'
  <2>1. {tx', closed', open'} \subseteq BOOLEAN
    BY <1>1 DEF IInv, TypeOK, FinalizeLast
  <2>2. owner' \in Threads \cup {None} /\ (tx' => owner' # None)
    BY <1>1 DEF IInv, TypeOK
  <2> QED BY <1>1, <2>1, <2>2 DEF IInv, TypeOK
<1>3. OpenIsHeld' /\ HeldFor'
  BY <1>1 DEF OpenIsHeld, HeldFor, Live
<1>4. CallsOfOwner' /\ ListExact' /\ GoneHoldNothing' /\ StraysAreOut'
  BY <1>1 DEF IInv, CallsOfOwner, ListExact, GoneHoldNothing, StraysAreOut, Mine
<1> QED BY <1>2, <1>3, <1>4 DEF IInv

LEMMA StutterStep ==
  ASSUME IInv, UNCHANGED vars
  PROVE  IInv'
BY DEF vars, gateVars, dbVars, threadVars, groupVars, IInv, TypeOK, OpenIsHeld, HeldFor,
       CallsOfOwner, ListExact, GoneHoldNothing, StraysAreOut, Mine, Live, NoStrays

LEMMA StepHolds == IInv /\ [Next]_vars => IInv'
<1> SUFFICES ASSUME IInv, [Next]_vars PROVE IInv'
  OBVIOUS
<1>1. CASE \E th \in Threads, call \in {"statement", "commit", "close", "begin"} :
             CallDb(th, call)
  BY <1>1, CallStep
<1>2. ASSUME NEW th \in Threads, Runtime(th) PROVE IInv'
  <2>1. CASE Enter(th)
    BY <2>1, EnterStep
  <2>2. CASE TakeGate(th)
    BY <2>2, TakeGateStep
  <2>3. CASE Refuse(th)
    BY <2>3, RefuseStep
  <2>4. CASE Statement(th)
    BY <2>4, StatementStep
  <2>5. CASE EndTransaction(th) \/ Close(th)
    BY <2>5, EndStep, CloseStep
  <2>6. CASE Begin(th)
    BY <2>6, BeginStep
  <2>7. CASE Leave(th)
    BY <2>7, LeaveStep
  <2>8. CASE Joined(th)
    BY <2>8, ThreadStep
  <2>9. CASE th \in Tasks /\ ThreadExits(th)
    BY <2>9, ExitStep
  <2> QED BY <1>2, <2>1, <2>2, <2>3, <2>4, <2>5, <2>6, <2>7, <2>8, <2>9 DEF Runtime
<1>3. ASSUME NEW th \in Threads, WindsUp(th) PROVE IInv'
  <2>1. CASE Settle(th)
    BY <2>1, CallStep
  <2>2. CASE ~Settle(th)
    BY <1>3, <2>2, ThreadStep DEF WindsUp
  <2> QED BY <2>1, <2>2
<1>4. CASE \E t \in Tasks : Spawn(t)
  BY <1>4, ThreadStep
<1>5. CASE FinalizeLast
  BY <1>5, FinalizeStep
<1>6. CASE UNCHANGED vars
  BY <1>6, StutterStep
<1> QED BY <1>1, <1>2, <1>3, <1>4, <1>5, <1>6 DEF Next

(* The invariant holds in every state of every program. *)
LEMMA Invariance == Spec => []IInv
BY InitHolds, StepHolds, PTL DEF Spec

-----------------------------------------------------------------------------
(* Every variable keeps its type; with tx set, the gate has an owner. *)
THEOREM TypeCorrect == Spec => []TypeOK
<1>1. IInv => TypeOK
  BY DEF IInv
<1> QED BY <1>1, Invariance, PTL

(* GateExact: a live transaction has an owner at the gate, and on an open    *)
(* connection the gate is held without one only inside the owner's begin, at *)
(* the end of a call of the owner that ended it (commit, rollback, or a      *)
(* statement that made SQLite roll back), or after a stray call did          *)
(* (gate_leave, sq_begin).                                                   *)
THEOREM GateMatchesTransaction == Spec => []GateExact
<1>1. IInv => GateExact
  BY DEF IInv, OpenIsHeld, HeldFor, GateExact
<1> QED BY <1>1, Invariance, PTL

(* ListExact: the list owned_exit goes through has exactly what the thread *)
(* holds (owned_add, owned_drop).                                          *)
THEOREM ListMatchesGate == Spec => []ListExact
<1>1. IInv => ListExact
  BY DEF IInv
<1> QED BY <1>1, Invariance, PTL

(* NothingOutlivesItsThread: a thread that is gone does not hold the gate, *)
(* and no live transaction is its own (owned_exit).                        *)
THEOREM ExitRollsBack == Spec => []NothingOutlivesItsThread
<1>1. ASSUME IInv PROVE NothingOutlivesItsThread
  <2>1. ASSUME NEW th \in Threads, pc[th] = "gone" PROVE ~Mine(th) /\ ~owned[th]
    BY <1>1, <2>1 DEF IInv, GoneHoldNothing, ListExact
  <2>2. Live => owner \in Threads /\ Mine(owner)
    BY <1>1 DEF IInv, TypeOK, OpenIsHeld, Mine
  <2> QED BY <2>1, <2>2 DEF NothingOutlivesItsThread
<1> QED BY <1>1, Invariance, PTL

(* OnlyCallsInFlightStray: of each other thread at most one call is run      *)
(* inside a transaction, the one it had in flight (gate_enter).              *)
THEOREM StraysBounded == Spec => []OnlyCallsInFlightStray
<1>1. ASSUME IInv PROVE OnlyCallsInFlightStray
  <2>1. \A th \in Threads : strays[th] \in Nat /\ (strays[th] # 0 => strays[th] = 1)
    BY <1>1 DEF IInv, TypeOK, StraysAreOut
  <2> QED BY <2>1 DEF OnlyCallsInFlightStray
<1> QED BY <1>1, Invariance, PTL
=============================================================================
