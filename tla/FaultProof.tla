----------------------------- MODULE FaultProof -----------------------------
(***************************************************************************)
(* A fault that is raised under a recovery point of Unwind.tla ends there, *)
(* proved for any program, unless a defer run by an unwinding catches what *)
(* it throws itself: the runtime then delivers that again.                 *)
(*                                                                         *)
(* As long as no defer has done so, FaultShape is inductive: pending is    *)
(* the exception of the innermost throw, and there is a recovery point     *)
(* under each fault that is thrown or kept by a finally.  The handlers     *)
(* match the C stack (UnwindProof), so the handler of that point is there. *)
(***************************************************************************)
EXTENDS UnwindProof

IsFault(e) == e.kind \in {"throw", "finally"} /\ e.exc \in Excs /\ e.exc.fault = TRUE

(* There is a recovery point below n. *)
PointBelow(cs, n) == \E k \in 1 .. Len(cs) : k < n /\ cs[k].kind = "contain"

Innermost(cs, t) ==
  cs[t].kind = "throw" /\ \A u \in 1 .. Len(cs) : u > t => cs[u].kind # "throw"

FaultShape(cs, hd, pd) ==
  /\ \A t \in 1 .. Len(cs) : cs[t].kind = "throw" => cs[t].exc \in Excs /\ pd \in Excs
  /\ hd = FALSE => \A t \in 1 .. Len(cs) : IsFault(cs[t]) => PointBelow(cs, t)
  /\ hd = FALSE => \A t \in 1 .. Len(cs) : Innermost(cs, t) => cs[t].exc = pd

FaultInv ==
  /\ ended = "no" => FaultShape(cstack, handled, pending)
  /\ ended = "uncaught" => handled = TRUE \/ ~(pending.fault)

-----------------------------------------------------------------------------
(* Entries are put on the C stack, and taken off it. *)
LEMMA PointKept ==
  ASSUME NEW cs \in Seq(Entries), NEW e \in Entries, NEW n, PointBelow(cs, n)
  PROVE  PointBelow(Append(cs, e), n)
<1> DEFINE ds == Append(cs, e)
<1>1. Len(cs) \in Nat /\ Len(ds) = Len(cs) + 1 /\ \A i \in 1 .. Len(cs) : ds[i] = cs[i]
  BY Pushed
<1> HIDE DEF ds
<1>2. PICK k \in 1 .. Len(cs) : k < n /\ cs[k].kind = "contain"
  BY DEF PointBelow
<1>3. k \in 1 .. Len(ds) /\ ds[k].kind = "contain"
  BY <1>1, <1>2
<1>4. PointBelow(ds, n)
  BY <1>2, <1>3 DEF PointBelow
<1> QED BY <1>4 DEF ds

LEMMA FaultPut ==
  ASSUME NEW cs \in Seq(Entries), NEW hd \in BOOLEAN, NEW pd, FaultShape(cs, hd, pd),
         NEW e \in Entries, e.kind # "throw",
         hd = FALSE /\ IsFault(e) => PointBelow(cs, Len(cs) + 1)
  PROVE  FaultShape(Append(cs, e), hd, pd)
<1> DEFINE ds == Append(cs, e)
<1>1. /\ Len(cs) \in Nat /\ Len(ds) = Len(cs) + 1 /\ \A i \in 1 .. Len(cs) : ds[i] = cs[i]
      /\ ds[Len(cs) + 1] = e /\ \A i \in 1 .. Len(cs) + 1 : i \in 1 .. Len(cs) \/ i = Len(cs) + 1
  BY Pushed
<1>2. \A n : PointBelow(cs, n) => PointBelow(ds, n)
  BY PointKept
<1> HIDE DEF ds
<1>3. ASSUME NEW t \in 1 .. Len(ds), ds[t].kind = "throw" PROVE ds[t].exc \in Excs /\ pd \in Excs
  <2>1. t \in 1 .. Len(cs) /\ cs[t].kind = "throw" /\ ds[t] = cs[t]
    BY <1>1, <1>3
  <2> QED BY <2>1 DEF FaultShape
<1>4. ASSUME hd = FALSE, NEW t \in 1 .. Len(ds), IsFault(ds[t]) PROVE PointBelow(ds, t)
  <2>1. CASE t \in 1 .. Len(cs)
    <3>1. IsFault(cs[t])
      BY <1>1, <1>4, <2>1
    <3> QED BY <1>2, <1>4, <2>1, <3>1 DEF FaultShape
  <2>2. CASE t = Len(cs) + 1
    BY <1>1, <1>2, <1>4, <2>2
  <2> QED BY <1>1, <2>1, <2>2
<1>5. ASSUME hd = FALSE, NEW t \in 1 .. Len(ds), Innermost(ds, t) PROVE ds[t].exc = pd
  <2>1. t \in 1 .. Len(cs) /\ ds[t] = cs[t] /\ cs[t].kind = "throw"
    BY <1>1, <1>5 DEF Innermost
  <2>2. ASSUME NEW u \in 1 .. Len(cs), u > t PROVE cs[u].kind # "throw"
    <3>1. u \in 1 .. Len(ds) /\ ds[u] = cs[u]
      BY <1>1
    <3> QED BY <1>5, <2>2, <3>1 DEF Innermost
  <2>3. Innermost(cs, t)
    BY <2>1, <2>2 DEF Innermost
  <2> QED BY <1>5, <2>1, <2>3 DEF FaultShape
<1> QED BY <1>3, <1>4, <1>5 DEF FaultShape, ds

LEMMA FaultThrown ==
  ASSUME NEW cs \in Seq(Entries), NEW hd \in BOOLEAN, NEW pd,
         \A t \in 1 .. Len(cs) : cs[t].kind = "throw" => cs[t].exc \in Excs,
         hd = FALSE => \A t \in 1 .. Len(cs) : IsFault(cs[t]) => PointBelow(cs, t),
         NEW exc \in Excs, hd = FALSE /\ exc.fault = TRUE => PointBelow(cs, Len(cs) + 1)
  PROVE  FaultShape(Append(cs, Throwing(exc)), hd, exc)
<1> DEFINE e  == Throwing(exc)
           ds == Append(cs, e)
<1>1. e \in Entries /\ e.kind = "throw" /\ e.exc = exc
  BY EntriesTyped DEF Throwing
<1> HIDE DEF e
<1>2. /\ Len(cs) \in Nat /\ Len(ds) = Len(cs) + 1 /\ \A i \in 1 .. Len(cs) : ds[i] = cs[i]
      /\ ds[Len(cs) + 1] = e /\ \A i \in 1 .. Len(cs) + 1 : i \in 1 .. Len(cs) \/ i = Len(cs) + 1
  BY <1>1, Pushed
<1>3. \A n : PointBelow(cs, n) => PointBelow(ds, n)
  BY <1>1, PointKept
<1> HIDE DEF ds
<1>4. ASSUME NEW t \in 1 .. Len(ds), ds[t].kind = "throw" PROVE ds[t].exc \in Excs /\ exc \in Excs
  BY <1>1, <1>2, <1>4
<1>5. ASSUME hd = FALSE, NEW t \in 1 .. Len(ds), IsFault(ds[t]) PROVE PointBelow(ds, t)
  <2>1. CASE t \in 1 .. Len(cs)
    <3>1. IsFault(cs[t])
      BY <1>2, <1>5, <2>1
    <3> QED BY <1>3, <1>5, <2>1, <3>1
  <2>2. CASE t = Len(cs) + 1
    <3>1. exc.fault = TRUE
      BY <1>1, <1>2, <1>5, <2>2 DEF IsFault
    <3> QED BY <1>3, <1>5, <2>2, <3>1
  <2> QED BY <1>2, <2>1, <2>2
<1>6. ASSUME hd = FALSE, NEW t \in 1 .. Len(ds), Innermost(ds, t) PROVE ds[t].exc = exc
  <2>1. t = Len(cs) + 1
    <3>1. Len(cs) + 1 \in 1 .. Len(ds) /\ ds[Len(cs) + 1].kind = "throw"
      BY <1>1, <1>2
    <3>2. ~(Len(cs) + 1 > t)
      BY <1>6, <3>1 DEF Innermost
    <3> QED BY <1>2, <3>2
  <2> QED BY <1>1, <1>2, <2>1
<1>7. FaultShape(ds, hd, exc)
  BY <1>4, <1>5, <1>6 DEF FaultShape
<1> QED BY <1>7 DEF ds, e

(* A prefix of the C stack keeps what does not depend on its innermost throw. *)
LEMMA FaultPrefix ==
  ASSUME NEW cs \in Seq(Entries), NEW hd \in BOOLEAN, NEW pd, FaultShape(cs, hd, pd),
         NEW n \in 0 .. Len(cs)
  PROVE  /\ \A t \in 1 .. n : SubSeq(cs, 1, n)[t].kind = "throw" =>
              SubSeq(cs, 1, n)[t].exc \in Excs /\ pd \in Excs
         /\ hd = FALSE => \A t \in 1 .. n : IsFault(SubSeq(cs, 1, n)[t]) => PointBelow(SubSeq(cs, 1, n), t)
         /\ Len(SubSeq(cs, 1, n)) = n
<1> DEFINE ds == SubSeq(cs, 1, n)
<1>1. Len(cs) \in Nat /\ Len(ds) = n /\ \A i \in 1 .. n : ds[i] = cs[i]
  BY Cut
<1> HIDE DEF ds
<1>2. \A t \in 1 .. n : t \in 1 .. Len(cs)
  BY <1>1
<1>3. ASSUME NEW t \in 1 .. n, ds[t].kind = "throw" PROVE ds[t].exc \in Excs /\ pd \in Excs
  BY <1>1, <1>2, <1>3 DEF FaultShape
<1>4. ASSUME hd = FALSE, NEW t \in 1 .. n, IsFault(ds[t]) PROVE PointBelow(ds, t)
  <2>1. PointBelow(cs, t)
    BY <1>1, <1>2, <1>4 DEF FaultShape
  <2>2. PICK k \in 1 .. Len(cs) : k < t /\ cs[k].kind = "contain"
    BY <2>1 DEF PointBelow
  <2>3. k \in 1 .. n
    BY <1>1, <2>2
  <2> QED BY <1>1, <2>2, <2>3 DEF PointBelow
<1> QED BY <1>1, <1>3, <1>4 DEF ds

LEMMA FaultPop ==
  ASSUME NEW cs \in Seq(Entries), NEW hd \in BOOLEAN, NEW pd, FaultShape(cs, hd, pd),
         Len(cs) > 0, cs[Len(cs)].kind # "throw"
  PROVE  FaultShape(Front(cs), hd, pd)
<1> DEFINE n  == Len(cs) - 1
           ds == SubSeq(cs, 1, n)
<1>1. Len(cs) \in Nat /\ n \in 0 .. Len(cs) /\ n = Len(cs) - 1
  BY LenProperties
<1> HIDE DEF n
<1>2. Len(ds) = n /\ \A i \in 1 .. n : ds[i] = cs[i]
  BY <1>1, Cut
<1>3. /\ \A t \in 1 .. n : ds[t].kind = "throw" => ds[t].exc \in Excs /\ pd \in Excs
      /\ hd = FALSE => \A t \in 1 .. n : IsFault(ds[t]) => PointBelow(ds, t)
  BY <1>1, FaultPrefix
<1> HIDE DEF ds
<1>4. ASSUME hd = FALSE, NEW t \in 1 .. n, Innermost(ds, t) PROVE ds[t].exc = pd
  <2>1. t \in 1 .. Len(cs) /\ ds[t] = cs[t] /\ cs[t].kind = "throw"
    BY <1>1, <1>2, <1>4 DEF Innermost
  <2>2. ASSUME NEW u \in 1 .. Len(cs), u > t PROVE cs[u].kind # "throw"
    <3>1. CASE u = Len(cs)
      BY <3>1
    <3>2. CASE u # Len(cs)
      <4>1. u \in 1 .. n
        BY <1>1, <3>2
      <4> QED BY <1>2, <1>4, <2>2, <4>1 DEF Innermost
    <3> QED BY <3>1, <3>2
  <2>3. Innermost(cs, t)
    BY <2>1, <2>2 DEF Innermost
  <2> QED BY <1>4, <2>1, <2>3 DEF FaultShape
<1>5. FaultShape(ds, hd, pd)
  BY <1>2, <1>3, <1>4 DEF FaultShape
<1> QED BY <1>5 DEF ds, n, Front

-----------------------------------------------------------------------------
(* The actions that throw nothing. *)
LEMMA FaultPutPlain ==
  ASSUME NEW cs \in Seq(Entries), NEW hd \in BOOLEAN, NEW pd, FaultShape(cs, hd, pd),
         NEW kind \in Kinds \ {"throw", "finally"}
  PROVE  /\ FaultShape(Append(cs, Entry(kind)), hd, pd)
         /\ Append(cs, Entry(kind)) \in Seq(Entries)
<1>1. Entry(kind) \in Entries /\ Entry(kind).kind = kind
  BY EntriesTyped
<1>2. ~IsFault(Entry(kind)) /\ Entry(kind).kind # "throw"
  BY <1>1 DEF IsFault
<1> QED BY <1>1, <1>2, FaultPut, Pushed

LEMMA FaultStacks ==
  ASSUME UnwindInv, FaultInv, ended = "no"
  PROVE  /\ cstack \in Seq(Entries) /\ handled \in BOOLEAN /\ FaultShape(cstack, handled, pending)
         /\ Len(cstack) \in Nat /\ Len(cstack) > 0
BY StackTyped DEF UnwindInv, FaultInv, Data

LEMMA PushesKeepFaults ==
  ASSUME UnwindInv, FaultInv,
         \/ Call \/ CallBack \/ CallContained \/ \E kind \in {"try", "tryf"} : EnterTry(kind)
         \/ ended = "no" /\ RunDefer
  PROVE  FaultInv'
<1>1. ended = "no"
  BY DEF Call, CallBack, CallContained, EnterTry, Code
<1>2. cstack \in Seq(Entries) /\ handled \in BOOLEAN /\ FaultShape(cstack, handled, pending)
  BY <1>1, FaultStacks
<1>3. pending' = pending /\ handled' = handled /\ ended' = ended
  BY DEF Call, CallBack, CallContained, EnterTry, RunDefer
<1>4. FaultShape(cstack', handled, pending)
  <2> DEFINE two(kind) == Append(Append(cstack, Entry(kind)), Entry("fn"))
  <2>1. ASSUME NEW kind \in {"native", "contain", "defer"} PROVE FaultShape(two(kind), handled, pending)
    <3>1. kind \in Kinds \ {"throw", "finally"} /\ "fn" \in Kinds \ {"throw", "finally"}
      BY DEF Kinds
    <3> QED BY <1>2, <3>1, FaultPutPlain
  <2>2. ASSUME NEW kind \in {"native", "contain", "defer"}
        PROVE  /\ cstack \o <<Entry(kind)>> \o <<Entry("fn")>> = two(kind)
               /\ cstack \o <<Entry(kind), Entry("fn")>> = two(kind)
    <3>1. Entry(kind) \in Entries /\ Entry("fn") \in Entries
      BY EntriesTyped DEF Kinds
    <3> QED BY <1>2, <3>1, PushedTwo
  <2>3. CASE Call
    <3>1. Entry("fn") \in Entries /\ "fn" \in Kinds \ {"throw", "finally"}
      BY EntriesTyped DEF Kinds
    <3>2. cstack' = Append(cstack, Entry("fn"))
      BY <1>2, <2>3, <3>1, PushedTwo DEF Call, CallFrom
    <3> QED BY <1>2, <3>1, <3>2, FaultPutPlain
  <2>4. CASE CallBack
    <3>1. cstack' = two("native")
      BY <2>2, <2>4 DEF CallBack, CallFrom
    <3> QED BY <2>1, <3>1
  <2>5. CASE CallContained
    <3>1. cstack' = two("contain")
      BY <2>2, <2>5 DEF CallContained, CallFrom
    <3> QED BY <2>1, <3>1
  <2>6. CASE RunDefer
    <3>1. cstack' = two("defer")
      BY <2>2, <2>6 DEF RunDefer
    <3> QED BY <2>1, <3>1
  <2>7. ASSUME NEW kind \in {"try", "tryf"}, EnterTry(kind) PROVE FaultShape(cstack', handled, pending)
    <3>1. kind \in Kinds \ {"throw", "finally"} /\ cstack' = Append(cstack, Entry(kind))
      BY <2>7 DEF EnterTry, Kinds
    <3> QED BY <1>2, <3>1, FaultPutPlain
  <2> QED BY <2>3, <2>4, <2>5, <2>6, <2>7
<1> QED BY <1>1, <1>3, <1>4 DEF FaultInv

LEMMA PopsKeepFaults ==
  ASSUME UnwindInv, FaultInv,
         LeaveTry \/ LeaveClause \/ StartReturn \/ Return \/ CallBackReturned \/ ContainedReturned
  PROVE  FaultInv'
<1>1. ended = "no" /\ Top.kind # "throw"
  BY DEF LeaveTry, LeaveClause, StartReturn, Return, CallBackReturned, ContainedReturned
<1>2. handled \in BOOLEAN /\ FaultShape(cstack, handled, pending)
  BY <1>1, FaultStacks
<1>3. pending' = pending /\ handled' = handled /\ ended' \in {"no", "returned"}
  BY <1>1 DEF LeaveTry, LeaveClause, StartReturn, Return, CallBackReturned, ContainedReturned
<1>4. FaultShape(Below, handled, pending) /\ Below \in Seq(Entries)
  BY <1>1, <1>2, StackTyped, TopOff, FaultPop
<1>5. FaultShape(cstack', handled, pending)
  <2>1. CASE cstack' = Below
    BY <1>4, <2>1
  <2>2. CASE cstack' = Append(Below, Finally(None))
    <3>1. Finally(None) \in Entries /\ Finally(None).kind = "finally" /\ Finally(None).exc = None
      BY EntriesTyped DEF Finally
    <3>2. ~IsFault(Finally(None))
      BY <3>1, NoneAssumption DEF IsFault
    <3> QED BY <1>2, <1>4, <2>2, <3>1, <3>2, FaultPut
  <2>3. CASE cstack' = Append(Below, Entry("exit"))
    <3>1. "exit" \in Kinds \ {"throw", "finally"}
      BY DEF Kinds
    <3> QED BY <1>2, <1>4, <2>3, <3>1, FaultPutPlain
  <2> QED BY <2>1, <2>2, <2>3
      DEF LeaveTry, LeaveClause, StartReturn, Return, CallBackReturned, ContainedReturned
<1> QED BY <1>3, <1>5 DEF FaultInv

LEMMA FramesKeepFaults ==
  ASSUME UnwindInv, FaultInv, Defer \/ UnwindPops
  PROVE  FaultInv'
BY DEF FaultInv, FaultShape, Defer, UnwindPops, IsFault, PointBelow, Innermost

-----------------------------------------------------------------------------
(* The actions that throw. *)
(* Where a fault is thrown there is a recovery point, thus a handler. *)
LEMMA PointHasHandler ==
  ASSUME NEW cs, NEW hs, NEW fs, NEW cl, Shape(cs, hs, fs, cl), NEW n, PointBelow(cs, n)
  PROVE  hs # <<>>
<1>1. PICK k \in 1 .. Len(cs) : cs[k].kind = "contain"
  BY DEF PointBelow
<1>2. \E i \in 1 .. Len(Ats(hs)) : Ats(hs)[i] = k
  BY <1>1 DEF Shape, Cover, HasHandler
<1>3. hs \in Seq(HEntries)
  BY DEF Shape, Typed
<1>4. Len(Ats(hs)) = Len(hs)
  BY <1>3, HandlerLists
<1>5. Len(<<>>) = 0 /\ 1 .. 0 = {}
  OBVIOUS
<1> QED BY <1>2, <1>4, <1>5

LEMMA RaiseKeepsFaults ==
  ASSUME NEW cs, NEW hs, NEW fs, NEW cl, Shape(cs, hs, fs, cl), ended = "no",
         handled' \in BOOLEAN,
         \A t \in 1 .. Len(cs) : cs[t].kind = "throw" => cs[t].exc \in Excs,
         handled' = FALSE => \A t \in 1 .. Len(cs) : IsFault(cs[t]) => PointBelow(cs, t),
         NEW exc \in Excs, handled' = FALSE /\ exc.fault = TRUE => PointBelow(cs, Len(cs) + 1),
         Raise(exc, hs, cs)
  PROVE  FaultInv'
<1>1. cs \in Seq(Entries)
  BY DEF Shape, Typed
<1>2. CASE hs = <<>>
  <2>1. ended' = "uncaught" /\ pending' = exc
    BY <1>2 DEF Raise
  <2>2. ~(handled' = FALSE /\ exc.fault = TRUE)
    BY <1>2, PointHasHandler
  <2>3. exc.fault \in BOOLEAN
    BY DEF Excs
  <2>4. handled' = TRUE \/ ~(pending'.fault)
    BY <2>1, <2>2, <2>3
  <2> QED BY <2>1, <2>4 DEF FaultInv
<1>3. CASE hs # <<>>
  <2>1. cstack' = Append(cs, Throwing(exc)) /\ pending' = exc /\ ended' = "no"
    BY <1>3 DEF Raise
  <2>2. FaultShape(cstack', handled', pending')
    BY <1>1, <2>1, FaultThrown
  <2> QED BY <2>1, <2>2 DEF FaultInv
<1> QED BY <1>2, <1>3

LEMMA ThrowKeepsFaults ==
  ASSUME UnwindInv, FaultInv, Throw
  PROVE  FaultInv'
<1> DEFINE exc == [n |-> raised + 1, fault |-> FALSE]
<1>1. ended = "no" /\ raised < MaxThrows /\ handled' = handled /\ Raise(exc, handlers, cstack)
  BY DEF Throw, MayRaise, Code
<1>2. exc \in Excs /\ exc.fault = FALSE
  BY <1>1, BoundAssumption DEF Excs, UnwindInv, Data
<1> HIDE DEF exc
<1>3. handled \in BOOLEAN /\ FaultShape(cstack, handled, pending)
  BY <1>1, FaultStacks
<1>4. /\ \A t \in 1 .. Len(cstack) : cstack[t].kind = "throw" => cstack[t].exc \in Excs
      /\ handled' = FALSE => \A t \in 1 .. Len(cstack) : IsFault(cstack[t]) => PointBelow(cstack, t)
      /\ handled' \in BOOLEAN
  BY <1>1, <1>3 DEF FaultShape
<1>5. Shape(cstack, handlers, frames, cleanups)
  BY DEF UnwindInv
<1> QED BY <1>1, <1>2, <1>4, <1>5, RaiseKeepsFaults

LEMMA FaultKeepsFaults ==
  ASSUME UnwindInv, FaultInv, Fault
  PROVE  FaultInv'
<1> DEFINE exc == [n |-> raised + 1, fault |-> TRUE]
<1>1. CASE ~(recover > 0 /\ handlers # <<>>)
  BY <1>1 DEF Fault, FaultInv
<1>2. CASE recover > 0 /\ handlers # <<>>
  <2>1. ended = "no" /\ raised < MaxThrows /\ handled' = handled /\ Raise(exc, handlers, cstack)
    BY <1>2 DEF Fault, MayRaise, Code
  <2>2. exc \in Excs
    BY <2>1, BoundAssumption DEF Excs, UnwindInv, Data
  <2> HIDE DEF exc
  <2>3. handled \in BOOLEAN /\ FaultShape(cstack, handled, pending) /\ Len(cstack) \in Nat
    BY <2>1, FaultStacks
  <2>4. /\ \A t \in 1 .. Len(cstack) : cstack[t].kind = "throw" => cstack[t].exc \in Excs
        /\ handled' = FALSE => \A t \in 1 .. Len(cstack) : IsFault(cstack[t]) => PointBelow(cstack, t)
        /\ handled' \in BOOLEAN
    BY <2>1, <2>3 DEF FaultShape
  <2>5. PointBelow(cstack, Len(cstack) + 1)
    <3>1. Count(cstack, {"contain"}) # 0
      BY <1>2 DEF UnwindInv
    <3>2. Places(cstack, {"contain"}) # {}
      BY <3>1, FS_EmptySet DEF Count
    <3>3. PICK k \in 1 .. Len(cstack) : cstack[k].kind = "contain"
      BY <3>2 DEF Places
    <3>4. k < Len(cstack) + 1
      BY <2>3
    <3> QED BY <3>3, <3>4 DEF PointBelow
  <2>6. Shape(cstack, handlers, frames, cleanups)
    BY DEF UnwindInv
  <2> QED BY <2>1, <2>2, <2>4, <2>5, <2>6, RaiseKeepsFaults
<1> QED BY <1>1, <1>2

LEMMA LeaveFinallyKeepsFaults ==
  ASSUME UnwindInv, FaultInv, LeaveFinally
  PROVE  FaultInv'
<1>1. ended = "no" /\ Top.kind = "finally" /\ handled' = handled
  BY DEF LeaveFinally
<1>2. handled \in BOOLEAN /\ FaultShape(cstack, handled, pending)
  BY <1>1, FaultStacks
<1>3. /\ Len(cstack) > 0 /\ Top = cstack[Len(cstack)] /\ Top \in Entries /\ Below = Front(cstack)
      /\ Below \in Seq(Entries) /\ Len(Below) = Len(cstack) - 1 /\ Len(cstack) \in Nat
      /\ cstack \in Seq(Entries)
  BY <1>1, StackTyped, TopOff
<1>4. FaultShape(Below, handled, pending)
  BY <1>1, <1>2, <1>3, FaultPop
<1>5. Shape(Below, handlers, frames, cleanups)
  <2>1. Top.kind \notin HasHandler \cup HasFrame \cup HasCleanup \cup {"throw"}
    BY <1>1 DEF HasHandler, HasFrame, HasCleanup
  <2> QED BY <1>3, <2>1, PopPlain DEF UnwindInv
<1>6. CASE Top.exc = None
  BY <1>1, <1>4, <1>6 DEF LeaveFinally, FaultInv
<1>7. CASE Top.exc # None
  <2>1. Top.exc \in Excs /\ Raise(Top.exc, handlers, Below)
    BY <1>3, <1>7 DEF LeaveFinally, Entries
  <2>2. ASSUME handled' = FALSE, Top.exc.fault = TRUE PROVE PointBelow(Below, Len(Below) + 1)
    <3>1. IsFault(cstack[Len(cstack)]) /\ Len(cstack) \in 1 .. Len(cstack)
      BY <1>1, <1>3, <2>1, <2>2 DEF IsFault
    <3>2. PointBelow(cstack, Len(cstack))
      BY <1>1, <1>2, <2>2, <3>1 DEF FaultShape
    <3>3. PICK k \in 1 .. Len(cstack) : k < Len(cstack) /\ cstack[k].kind = "contain"
      BY <3>2 DEF PointBelow
    <3>4. Below[k] = cstack[k] /\ k \in 1 .. Len(Below) /\ k < Len(Below) + 1
      <4>1. Len(cstack) - 1 \in 0 .. Len(cstack) /\ k \in 1 .. Len(cstack) - 1
        BY <1>3, <3>3
      <4>2. SubSeq(cstack, 1, Len(cstack) - 1)[k] = cstack[k]
        BY <1>3, <4>1, Cut
      <4> QED BY <1>3, <4>1, <4>2 DEF Front
    <3> QED BY <3>3, <3>4 DEF PointBelow
  <2>3. /\ \A t \in 1 .. Len(Below) : Below[t].kind = "throw" => Below[t].exc \in Excs
        /\ handled' = FALSE => \A t \in 1 .. Len(Below) : IsFault(Below[t]) => PointBelow(Below, t)
        /\ handled' \in BOOLEAN
    BY <1>1, <1>2, <1>4 DEF FaultShape
  <2> QED BY <1>1, <1>5, <2>1, <2>2, <2>3, RaiseKeepsFaults
<1> QED BY <1>6, <1>7

-----------------------------------------------------------------------------
(* The throw arrives. *)
LEMMA DeliverKeepsFaults ==
  ASSUME UnwindInv, FaultInv, NEW kind \in {"try", "tryf", "contain"}, Deliver(kind)
  PROVE  /\ Shape(StackLeft, Front(handlers), frames, CleanupsLeft)
         /\ ended = "no" /\ handled' \in BOOLEAN /\ pending \in Excs
         /\ FaultShape(StackLeft, handled', pending)
         /\ handled' = FALSE /\ pending.fault = TRUE /\ kind # "contain" =>
              PointBelow(StackLeft, Len(StackLeft) + 1)
<1> DEFINE n == Last(handlers).at - 1
<1>1. /\ ended = "no" /\ Top.kind = "throw" /\ cstack[Last(handlers).at].kind = kind
      /\ handled' = HandledInside /\ handlers' = Front(handlers) /\ frames' = frames
      /\ cleanups' = CleanupsLeft /\ StackLeft = SubSeq(cstack, 1, n)
  BY DEF Deliver, Unwinding, Target, StackLeft
<1>2. /\ handled \in BOOLEAN /\ FaultShape(cstack, handled, pending) /\ cstack \in Seq(Entries)
      /\ Len(cstack) \in Nat /\ Len(cstack) > 0 /\ cstack[Len(cstack)].kind = "throw"
  BY <1>1, FaultStacks, TopOff
<1>3. Shape(StackLeft, Front(handlers), frames, CleanupsLeft)
  <2>1. Shape(StackLeft, handlers', frames', cleanups')
    BY DeliverKeeps
  <2> QED BY <1>1, <2>1
<1>4. /\ Last(handlers).at \in 1 .. Len(cstack) /\ Last(handlers) = handlers[Len(handlers)]
      /\ Len(handlers) \in 1 .. Len(handlers)
      /\ Ats(handlers)[Len(handlers)] = Last(handlers).at
      /\ \A i \in 1 .. Len(handlers) : i < Len(handlers) => Ats(handlers)[i] < Last(handlers).at
  BY <1>2, HasTarget DEF UnwindInv, Last
<1>5. n \in 0 .. Len(cstack) /\ n + 1 = Last(handlers).at /\ n < Len(cstack)
  BY <1>2, <1>4
<1> HIDE DEF n
<1>6. Len(StackLeft) = n /\ \A i \in 1 .. n : StackLeft[i] = cstack[i]
  BY <1>1, <1>2, <1>5, Cut
<1>7. handled' \in BOOLEAN /\ (handled' = FALSE => handled = FALSE)
  BY <1>1, <1>2 DEF HandledInside
<1>8. handled' = FALSE => \A t \in 1 .. n : StackLeft[t].kind # "throw"
  BY <1>1, <1>6 DEF HandledInside
<1>9. pending \in Excs
  <2>1. Len(cstack) \in 1 .. Len(cstack)
    BY <1>2
  <2> QED BY <1>2, <2>1 DEF FaultShape
<1>10. FaultShape(StackLeft, handled', pending)
  <2>1. /\ \A t \in 1 .. n : StackLeft[t].kind = "throw" => StackLeft[t].exc \in Excs /\ pending \in Excs
        /\ handled = FALSE => \A t \in 1 .. n : IsFault(StackLeft[t]) => PointBelow(StackLeft, t)
    BY <1>1, <1>2, <1>5, FaultPrefix
  <2>2. handled' = FALSE =>
          \A t \in 1 .. n : Innermost(StackLeft, t) => StackLeft[t].exc = pending
    BY <1>8 DEF Innermost
  <2> QED BY <1>6, <1>7, <2>1, <2>2 DEF FaultShape
<1>11. ASSUME handled' = FALSE, pending.fault = TRUE, kind # "contain"
       PROVE  PointBelow(StackLeft, Len(StackLeft) + 1)
  <2>1. Len(cstack) \in 1 .. Len(cstack) /\ handled = FALSE
    BY <1>2, <1>7, <1>11
  <2>2. Innermost(cstack, Len(cstack))
    BY <1>2, <2>1 DEF Innermost
  <2>3. cstack[Len(cstack)].exc = pending
    BY <1>2, <2>1, <2>2 DEF FaultShape
  <2>4. IsFault(cstack[Len(cstack)])
    BY <1>2, <1>9, <1>11, <2>3 DEF IsFault
  <2>5. PointBelow(cstack, Len(cstack))
    BY <1>2, <2>1, <2>4 DEF FaultShape
  <2>6. PICK k \in 1 .. Len(cstack) : cstack[k].kind = "contain"
    BY <2>5 DEF PointBelow
  <2>7. PICK i \in 1 .. Len(Ats(handlers)) : Ats(handlers)[i] = k
    BY <2>6 DEF UnwindInv, Shape, Cover, HasHandler
  <2>8. Len(Ats(handlers)) = Len(handlers) /\ Len(handlers) \in Nat
    BY StackTyped, HandlerLists
  <2>9. k <= Last(handlers).at
    BY <1>2, <1>4, <2>7, <2>8
  <2>10. k # Last(handlers).at
    BY <1>1, <1>11, <2>6
  <2>11. k \in 1 .. n /\ k < n + 1
    BY <1>2, <1>4, <1>5, <2>9, <2>10
  <2> QED BY <1>6, <2>6, <2>11 DEF PointBelow
<1> QED BY <1>1, <1>3, <1>7, <1>9, <1>10, <1>11

LEMMA DeliveredRaise ==
  ASSUME UnwindInv, FaultInv, NEW kind \in {"try", "contain"}, Deliver(kind),
         kind = "contain" => pending.fault # TRUE,
         Raise(pending, Front(handlers), StackLeft)
  PROVE  FaultInv'
<1>1. /\ Shape(StackLeft, Front(handlers), frames, CleanupsLeft)
      /\ ended = "no" /\ handled' \in BOOLEAN /\ pending \in Excs
      /\ FaultShape(StackLeft, handled', pending)
      /\ handled' = FALSE /\ pending.fault = TRUE /\ kind # "contain" =>
           PointBelow(StackLeft, Len(StackLeft) + 1)
  BY DeliverKeepsFaults
<1>2. /\ \A t \in 1 .. Len(StackLeft) : StackLeft[t].kind = "throw" => StackLeft[t].exc \in Excs
      /\ handled' = FALSE =>
           \A t \in 1 .. Len(StackLeft) : IsFault(StackLeft[t]) => PointBelow(StackLeft, t)
  BY <1>1 DEF FaultShape
<1>3. handled' = FALSE /\ pending.fault = TRUE => PointBelow(StackLeft, Len(StackLeft) + 1)
  BY <1>1
<1> QED BY <1>1, <1>2, <1>3, RaiseKeepsFaults

LEMMA DeliveriesKeepFaults ==
  ASSUME UnwindInv, FaultInv, DeliverToTry \/ DeliverToTryFinally \/ DeliverToRecoveryPoint
  PROVE  FaultInv'
<1>1. CASE DeliverToTry
  <2>1. Deliver("try")
    BY <1>1 DEF DeliverToTry
  <2>2. CASE cstack' = StackLeft /\ UNCHANGED <<pending, ended>>
    BY <2>1, <2>2, DeliverKeepsFaults DEF FaultInv
  <2>3. CASE Raise(pending, Front(handlers), StackLeft)
    BY <2>1, <2>3, DeliveredRaise
  <2> QED BY <1>1, <2>2, <2>3 DEF DeliverToTry
<1>2. CASE DeliverToTryFinally
  <2>1. Deliver("tryf") /\ pending' = pending /\ ended' = ended
    BY <1>2 DEF DeliverToTryFinally
  <2>2. /\ StackLeft \in Seq(Entries)
        /\ ended = "no" /\ handled' \in BOOLEAN /\ pending \in Excs
        /\ FaultShape(StackLeft, handled', pending)
        /\ handled' = FALSE /\ pending.fault = TRUE => PointBelow(StackLeft, Len(StackLeft) + 1)
    BY <2>1, DeliverKeepsFaults DEF Shape, Typed
  <2>3. CASE cstack' = Append(StackLeft, Entry("clause"))
    <3>1. "clause" \in Kinds \ {"throw", "finally"}
      BY DEF Kinds
    <3> QED BY <2>1, <2>2, <2>3, <3>1, FaultPutPlain DEF FaultInv
  <2>4. CASE cstack' = Append(StackLeft, Finally(pending))
    <3>1. Finally(pending) \in Entries /\ Finally(pending).kind = "finally" /\ Finally(pending).exc = pending
      BY <2>2, EntriesTyped DEF Finally
    <3>2. IsFault(Finally(pending)) => pending.fault = TRUE
      BY <3>1 DEF IsFault
    <3>3. FaultShape(cstack', handled', pending)
      BY <2>2, <2>4, <3>1, <3>2, FaultPut
    <3> QED BY <2>1, <2>2, <3>3 DEF FaultInv
  <2> QED BY <1>2, <2>3, <2>4 DEF DeliverToTryFinally
<1>3. CASE DeliverToRecoveryPoint
  <2>1. Deliver("contain")
    BY <1>3 DEF DeliverToRecoveryPoint
  <2>2. CASE pending.fault
    BY <1>3, <2>1, <2>2, DeliverKeepsFaults DEF DeliverToRecoveryPoint, FaultInv
  <2>3. CASE ~pending.fault
    <3>1. Raise(pending, Front(handlers), StackLeft) /\ pending.fault # TRUE
      BY <1>3, <2>3 DEF DeliverToRecoveryPoint
    <3> QED BY <2>1, <3>1, DeliveredRaise
  <2> QED BY <2>2, <2>3
<1> QED BY <1>1, <1>2, <1>3

-----------------------------------------------------------------------------
LEMMA InitFaults == Init => FaultInv
<1> SUFFICES ASSUME Init PROVE FaultInv
  OBVIOUS
<1>1. /\ Len(cstack) = 1 /\ cstack[1].kind = "fn" /\ ended = "no"
      /\ \A t \in 1 .. 1 : t = 1
  BY DEF Init, Entry
<1> QED BY <1>1 DEF FaultInv, FaultShape, IsFault, Innermost

LEMMA StepFaults == UnwindInv /\ FaultInv /\ [Next]_vars => FaultInv'
<1> SUFFICES ASSUME UnwindInv, FaultInv, [Next]_vars PROVE FaultInv'
  OBVIOUS
<1>1. CASE Next
  <2>1. CASE \/ Call \/ CallBack \/ CallContained
             \/ \E kind \in {"try", "tryf"} : EnterTry(kind)
             \/ ReturnRunsDefer \/ UnwindRunsDefer
    BY <2>1, PushesKeepFaults DEF ReturnRunsDefer, UnwindRunsDefer, Unwinding
  <2>2. CASE LeaveTry \/ LeaveClause \/ StartReturn \/ Return \/ CallBackReturned
             \/ ContainedReturned
    BY <2>2, PopsKeepFaults
  <2>3. CASE Defer \/ UnwindPops
    BY <2>3, FramesKeepFaults
  <2>4. CASE Throw \/ Fault \/ LeaveFinally
    BY <2>4, ThrowKeepsFaults, FaultKeepsFaults, LeaveFinallyKeepsFaults
  <2>5. CASE DeliverToTry \/ DeliverToTryFinally \/ DeliverToRecoveryPoint
    BY <2>5, DeliveriesKeepFaults
  <2> QED BY <1>1, <2>1, <2>2, <2>3, <2>4, <2>5 DEF Next, Unwinds
<1>2. CASE UNCHANGED vars
  BY <1>2 DEF vars, FaultInv, FaultShape, IsFault, PointBelow, Innermost
<1> QED BY <1>1, <1>2

LEMMA FaultInvariant == Spec => [](UnwindInv /\ FaultInv)
<1>1. Init => UnwindInv /\ FaultInv
  BY InitUnwind, InitFaults
<1>2. (UnwindInv /\ FaultInv) /\ [Next]_vars => (UnwindInv /\ FaultInv)'
  BY StepUnwind, StepFaults
<1> QED BY <1>1, <1>2, PTL DEF Spec

(* A fault raised under a recovery point does not end the thread as an      *)
(* uncaught exception (err.c: vl_fault, print_uncaught), unless a defer of  *)
(* an unwinding has caught something it had thrown itself.                  *)
THEOREM FaultsAreContained == Spec => []FaultIsContained
<1>1. FaultInv => FaultIsContained
  BY DEF FaultInv, FaultIsContained
<1> QED BY <1>1, FaultInvariant, PTL

=============================================================================
