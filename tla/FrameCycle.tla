----------------------------- MODULE FrameCycle -----------------------------
(***************************************************************************)
(* The count word of a captured frame and the judgement that frees it      *)
(* (runtime/src/value.c).  Closures over the frame hold references to it   *)
(* and its registers hold references to closures, so counts alone never    *)
(* free a cycle: a thread that leaves a closure with one holder, or lets   *)
(* go of one of several references to the frame, judges whether every      *)
(* reference left comes from closures only the frame holds.  The word packs*)
(* references, calls in progress, holds of judgements and a flag; each     *)
(* step below is one atomic operation on it, or on one other location.     *)
(*                                                                         *)
(* One frame.  Its function runs on Owner, makes closures, hands them out  *)
(* and returns; any thread calls, stores, passes on and drops closures it  *)
(* holds.  Registers are those a closure reads through an upvalue, and     *)
(* hold closures directly (a judgement's walk into containers, and the     *)
(* shallow judgement of a frame under the frame, are left out).            *)
(***************************************************************************)
EXTENDS Integers, FiniteSets

CONSTANTS
  Threads,
  Owner,      \* the thread whose call the frame is
  Closures,   \* the closures over the frame
  Slots,      \* its registers
  None,       \* nil
  MaxCalls,   \* bound: calls each thread is in at once
  MaxHolds    \* bound: judgements in progress or deferred

ASSUME ThreadAssumption == IsFiniteSet(Threads) /\ Owner \in Threads
ASSUME SlotAssumption   == IsFiniteSet(Slots) /\ IsFiniteSet(Closures)
ASSUME NoneAssumption   == None \notin Closures
ASSUME BoundAssumption  == MaxCalls \in Nat /\ MaxHolds \in Nat

VARIABLES
  \* VlFrame
  word,      \* f->frc: references, ACTIVE calls, HOLDs, the JUDGING flag
  done,      \* f->done: its function has returned
  pending,   \* f->pending: a judgement was asked for during one
  reg,       \* f->r
  freed,     \* frame_free has run
  deferred,  \* the entries for f on g_deferred
  \* VlClosure
  made,      \* the closures made so far
  rc,        \* o->rc
  \* the program
  own,       \* Owner's call: running, returned (frame cleared), over
  has,       \* the closures a thread holds
  calls,     \* the calls of closures over f a thread is in
  \* a thread inside the runtime
  pc,        \* what it does next
  cls,       \* vl_release: the closure it drops
  held,      \* vl_release: did it take a hold?
  dead,      \* g_dead: closures at 0, their frame reference not dropped yet
  draining,  \* g_freeing around a judgement
  pass,      \* vl_judge_deferred: entries left to judge
  seen,      \* self_cycle_only: the word it set the flag on
  unread,    \* self_cycle_only: registers not read yet
  found,     \* self_cycle_only: references found to be the frame's own
  missed     \* history: a closure went down to one holder unjudged

frameVars   == <<word, done, pending, reg, freed, deferred>>
programVars == <<made, own, has, calls>>
releaseVars == <<cls, held>>
drainVars   == <<dead, draining, pass>>
judgeVars   == <<seen, unread, found>>
vars == <<frameVars, rc, programVars, pc, releaseVars, drainVars, judgeVars, missed>>

Words == [refs : Nat, acts : Nat, holds : Nat, judging : BOOLEAN]

Places == {"idle", "entering", "drop", "judge", "defer", "arm", "scan", "verdict",
           "reap", "again", "ask", "recheck", "unhold", "drain"}

TypeOK ==
  /\ word \in Words
  /\ {done, pending, freed, missed} \subseteq BOOLEAN
  /\ deferred \in Nat
  /\ reg \in [Slots -> Closures \cup {None}]
  /\ made \subseteq Closures
  /\ rc \in [Closures -> Nat]
  /\ own \in {"running", "returned", "over"}
  /\ has \in [Threads -> SUBSET Closures]
  /\ calls \in [Threads -> Nat]
  /\ pc \in [Threads -> Places]
  /\ cls \in [Threads -> Closures \cup {None}]
  /\ held \in [Threads -> BOOLEAN]
  /\ dead \in [Threads -> SUBSET Closures]
  /\ draining \in [Threads -> BOOLEAN]
  /\ pass \in [Threads -> Nat]
  /\ seen \in [Threads -> Words]
  /\ unread \in [Threads -> SUBSET Slots]
  /\ found \in [Threads -> Nat]

NoWord == [refs |-> 0, acts |-> 0, holds |-> 0, judging |-> FALSE]

Init ==
  /\ word = [NoWord EXCEPT !.refs = 1]
  /\ done = FALSE /\ pending = FALSE /\ freed = FALSE /\ missed = FALSE
  /\ deferred = 0
  /\ reg = [i \in Slots |-> None]
  /\ made = {}
  /\ rc = [c \in Closures |-> 0]
  /\ own = "running"
  /\ has = [th \in Threads |-> {}]
  /\ calls = [th \in Threads |-> 0]
  /\ pc = [th \in Threads |-> "idle"]
  /\ cls = [th \in Threads |-> None]
  /\ held = [th \in Threads |-> FALSE]
  /\ dead = [th \in Threads |-> {}]
  /\ draining = [th \in Threads |-> FALSE]
  /\ pass = [th \in Threads |-> 0]
  /\ seen = [th \in Threads |-> NoWord]
  /\ unread = [th \in Threads |-> {}]
  /\ found = [th \in Threads |-> 0]

-----------------------------------------------------------------------------
(* The word.  *)

Add(refs, acts, holds) ==
  [refs  |-> word.refs + refs,   acts    |-> word.acts + acts,
   holds |-> word.holds + holds, judging |-> word.judging]

\* The frame's word becomes w; at 0 the frame is freed (frame_free; its
\* registers then hold no closure over it, each of which would be a reference).
Become(w) ==
  /\ word' = w
  /\ freed' = (freed \/ w = NoWord)

(* Where a thread goes on when a judgement or a release is over: the rest of *)
(* the worklist, then the rest of the deferred list.                         *)
GoOn(th, corpses) ==
  /\ draining' = [draining EXCEPT ![th] = FALSE]
  /\ IF corpses # {}
     THEN pc' = [pc EXCEPT ![th] = "drain"] /\ UNCHANGED pass
     ELSE IF pass[th] > 0
     THEN pc' = [pc EXCEPT ![th] = "judge"] /\ pass' = [pass EXCEPT ![th] = @ - 1]
     ELSE pc' = [pc EXCEPT ![th] = "idle"] /\ UNCHANGED pass

Goto(th, place) == pc' = [pc EXCEPT ![th] = place]

-----------------------------------------------------------------------------
(* The program.  *)

\* Between vl_frame_clear and vl_frame_release Owner only drops registers.
Free(th) == pc[th] = "idle" /\ ~(th = Owner /\ own = "returned")

(* vl_closure *)
Make(c) ==
  /\ Free(Owner) /\ own = "running" /\ c \notin made
  /\ made' = made \cup {c}
  /\ rc' = [rc EXCEPT ![c] = 1]
  /\ has' = [has EXCEPT ![Owner] = @ \cup {c}]
  /\ word' = Add(1, 0, 0)
  /\ UNCHANGED <<done, pending, reg, freed, deferred, own, calls, pc, releaseVars,
                 drainVars, judgeVars, missed>>

(* A closure retained for another thread: a spawn's argument, a value sent. *)
Give(th, u, c) ==
  /\ Free(th) /\ pc[u] = "idle" /\ c \in has[th] \ has[u]
  /\ rc' = [rc EXCEPT ![c] = @ + 1]
  /\ has' = [has EXCEPT ![u] = @ \cup {c}]
  /\ UNCHANGED <<frameVars, made, own, calls, pc, releaseVars, drainVars, judgeVars, missed>>

\* Code that may read and write the registers runs: the function itself, or
\* a call (or an activation it left captured) of a closure over the frame.
Inside(th) == Free(th) /\ (calls[th] > 0 \/ (th = Owner /\ own = "running"))

(* vl_varread *)
Load(th, i) ==
  /\ Inside(th) /\ reg[i] \in Closures \ has[th]
  /\ rc' = [rc EXCEPT ![reg[i]] = @ + 1]
  /\ has' = [has EXCEPT ![th] = @ \cup {reg[i]}]
  /\ UNCHANGED <<frameVars, made, own, calls, pc, releaseVars, drainVars, judgeVars, missed>>

\* vl_release up to the decrement.
StartRelease(th, c) ==
  /\ cls' = [cls EXCEPT ![th] = c]
  /\ held' = [held EXCEPT ![th] = done]
  /\ word' = Add(0, 0, IF done THEN 1 ELSE 0)
  /\ Goto(th, "drop")

\* Bound.
RoomToHold == word.holds < MaxHolds

(* vl_upset: the new value is retained, then the old one released *)
Store(th, i, c) ==
  /\ Inside(th) /\ c \in has[th] \cup {None} /\ c # reg[i] /\ RoomToHold
  /\ reg' = [reg EXCEPT ![i] = c]
  /\ rc' = [x \in Closures |-> IF x = c THEN rc[x] + 1 ELSE rc[x]]
  /\ IF reg[i] = None
     THEN UNCHANGED <<word, pc, releaseVars>>
     ELSE StartRelease(th, reg[i])
  /\ UNCHANGED <<done, pending, freed, deferred, programVars, drainVars, judgeVars, missed>>

(* A thread lets go of a closure. *)
Release(th, c) ==
  /\ pc[th] = "idle" /\ c \in has[th] /\ RoomToHold
  /\ has' = [has EXCEPT ![th] = @ \ {c}]
  /\ StartRelease(th, c)
  /\ UNCHANGED <<done, pending, reg, freed, deferred, rc, made, own, calls, drainVars,
                 judgeVars, missed>>

\* Mutant of MustWait: a call does not look at the flag.
NeverWaits == FALSE

MustWait == word.judging

(* frame_enter *)
Call(th, c) ==
  /\ Free(th) /\ c \in has[th] /\ calls[th] < MaxCalls
  /\ word' = Add(1, 1, 0)
  /\ calls' = [calls EXCEPT ![th] = @ + 1]
  /\ IF MustWait THEN Goto(th, "entering") ELSE UNCHANGED pc
  /\ UNCHANGED <<done, pending, reg, freed, deferred, rc, made, own, has, releaseVars,
                 drainVars, judgeVars, missed>>

Enter(th) ==
  /\ pc[th] = "entering" /\ ~word.judging
  /\ Goto(th, "idle")
  /\ UNCHANGED <<frameVars, rc, programVars, releaseVars, drainVars, judgeVars, missed>>

(* frame_exit *)
Exit(th) ==
  /\ Free(th) /\ calls[th] > 0
  /\ calls' = [calls EXCEPT ![th] = @ - 1]
  /\ Become(Add(-1, -1, 0))
  /\ UNCHANGED <<done, pending, reg, deferred, rc, made, own, has, pc, releaseVars,
                 drainVars, judgeVars, missed>>

(* vl_frame_clear: done is set; what the function still holds is released, *)
(* but for what it returns.                                                *)
Return ==
  /\ Free(Owner) /\ own = "running"
  /\ own' = "returned"
  /\ done' = TRUE
  /\ UNCHANGED <<word, pending, reg, freed, deferred, rc, made, has, calls, pc,
                 releaseVars, drainVars, judgeVars, missed>>

-----------------------------------------------------------------------------
(* Releasing.  *)

\* Mutant of GivenUp: the reference is dropped, no hold taken for it.
NoHoldTaken == IF word.refs > 1 THEN Add(-1, 0, 0) ELSE Add(-1, 0, 0)

GivenUp == IF word.refs > 1 THEN Add(-1, 0, 1) ELSE Add(-1, 0, 0)

(* frame_release_judged, the reference dropped in one step *)
ReleaseFrame(th, corpses, nested) ==
  /\ Become(GivenUp)
  /\ IF word.refs > 1
     THEN /\ Goto(th, "judge")
          /\ draining' = [draining EXCEPT ![th] = nested]
          /\ UNCHANGED pass
     ELSE GoOn(th, corpses)

(* vl_frame_release by the function that returns *)
FrameRelease ==
  /\ own = "returned" /\ pc[Owner] = "idle" /\ RoomToHold
  /\ own' = "over"
  /\ ReleaseFrame(Owner, dead[Owner], FALSE)
  /\ UNCHANGED <<done, pending, reg, deferred, rc, made, has, calls, releaseVars, dead,
                 judgeVars, missed>>

(* vl_release, from the decrement *)
Drop(th) ==
  LET left    == rc[cls[th]] - 1
      corpses == IF left = 0 THEN {cls[th]} ELSE {}
  IN
  /\ pc[th] = "drop"
  /\ rc' = [rc EXCEPT ![cls[th]] = left]
  /\ dead' = [dead EXCEPT ![th] = corpses]
  /\ missed' = (missed \/ (left = 1 /\ ~held[th] /\ done))
  /\ IF held[th]
     THEN Goto(th, IF left = 1 THEN "judge" ELSE "unhold") /\ UNCHANGED <<draining, pass>>
     ELSE GoOn(th, corpses)
  /\ cls' = [cls EXCEPT ![th] = None]
  /\ held' = [held EXCEPT ![th] = FALSE]
  /\ UNCHANGED <<frameVars, programVars, judgeVars>>

(* obj_free of a closure on the worklist: its reference to the frame goes *)
Drain(th) ==
  /\ pc[th] = "drain" /\ RoomToHold
  /\ \E c \in dead[th] :
       /\ dead' = [dead EXCEPT ![th] = @ \ {c}]
       /\ ReleaseFrame(th, dead[th] \ {c}, TRUE)
  /\ UNCHANGED <<done, pending, reg, deferred, rc, programVars, releaseVars, judgeVars,
                 missed>>

(* frame_unhold *)
Unhold(th) ==
  /\ pc[th] = "unhold"
  /\ Become(Add(0, 0, -1))
  /\ GoOn(th, dead[th])
  /\ UNCHANGED <<done, pending, reg, deferred, rc, programVars, releaseVars, dead,
                 judgeVars, missed>>

-----------------------------------------------------------------------------
(* self_cycle_only.  The caller has a hold.  *)

\* Mutant of NoCallInside.
AnyCallInside == word.acts >= 0

NoCallInside == word.acts = 0

(* A running function's frame is not judged; with calls inside it is put on *)
(* the deferred list; a judgement in progress is asked to look again; else  *)
(* the flag goes up, on the word as it is.                                  *)
Judge(th) ==
  /\ pc[th] = "judge"
  /\ IF ~done THEN Goto(th, "unhold") /\ UNCHANGED <<word, judgeVars>>
     ELSE IF ~NoCallInside THEN Goto(th, "defer") /\ UNCHANGED <<word, judgeVars>>
     ELSE IF word.judging THEN Goto(th, "ask") /\ UNCHANGED <<word, judgeVars>>
     ELSE /\ word' = [word EXCEPT !.judging = TRUE]
          /\ seen' = [seen EXCEPT ![th] = word']
          /\ unread' = [unread EXCEPT ![th] = Slots]
          /\ UNCHANGED found
          /\ Goto(th, "arm")
  /\ UNCHANGED <<done, pending, reg, freed, deferred, rc, programVars, releaseVars,
                 drainVars, missed>>

(* defer_judgement, after its look at the word: the hold goes on the list *)
Defer(th) ==
  /\ pc[th] = "defer"
  /\ deferred' = deferred + 1
  /\ GoOn(th, dead[th])
  /\ UNCHANGED <<word, done, pending, reg, freed, rc, programVars, releaseVars, dead,
                 judgeVars, missed>>

Ask(th) ==
  /\ pc[th] = "ask"
  /\ pending' = TRUE
  /\ Goto(th, "recheck")
  /\ UNCHANGED <<word, done, reg, freed, deferred, rc, programVars, releaseVars, drainVars,
                 judgeVars, missed>>

Recheck(th) ==
  /\ pc[th] = "recheck"
  /\ Goto(th, IF word.judging THEN "unhold" ELSE "judge")
  /\ UNCHANGED <<frameVars, rc, programVars, releaseVars, drainVars, judgeVars, missed>>

Arm(th) ==
  /\ pc[th] = "arm"
  /\ pending' = FALSE
  /\ Goto(th, "scan")
  /\ UNCHANGED <<word, done, reg, freed, deferred, rc, programVars, releaseVars, drainVars,
                 judgeVars, missed>>

\* Mutant of OwnRef: other holders of the closure are not looked for.
HeldRef(i) == reg[i] # None

(* owned_refs: a closure only this register holds is one reference *)
OwnRef(i) == reg[i] # None /\ rc[reg[i]] = 1

(* self_refs, one register at a time (in any order) *)
Scan(th) ==
  /\ pc[th] = "scan"
  /\ \E i \in unread[th] :
       /\ unread' = [unread EXCEPT ![th] = @ \ {i}]
       /\ found' = [found EXCEPT ![th] = @ + IF OwnRef(i) THEN 1 ELSE 0]
       /\ IF unread[th] = {i} THEN Goto(th, "verdict") ELSE UNCHANGED pc
  /\ UNCHANGED <<frameVars, rc, programVars, releaseVars, drainVars, seen, missed>>

WordUnchanged(th) == word = seen[th]

Garbage(th) == found[th] > 0 /\ found[th] = seen[th].refs

(* The verdict stands only if the word has not changed since; only a verdict *)
(* of garbage keeps the flag up.                                             *)
Verdict(th) ==
  /\ pc[th] = "verdict"
  /\ LET stands == WordUnchanged(th) IN
     /\ word' = [word EXCEPT !.judging = stands /\ Garbage(th)]
     /\ Goto(th, IF ~stands THEN "judge" ELSE IF Garbage(th) THEN "reap" ELSE "again")
  /\ seen' = [seen EXCEPT ![th] = NoWord]
  /\ found' = [found EXCEPT ![th] = 0]
  /\ UNCHANGED <<done, pending, reg, freed, deferred, rc, programVars, releaseVars,
                 drainVars, unread, missed>>

(* The registers holding the frame's own closures are cleared, as reaper:   *)
(* each closure dies, and its reference to the frame goes now, or with the  *)
(* worklist if this thread is draining one.  Then the flag drops.           *)
Reap(th) ==
  LET cleared == {i \in Slots : OwnRef(i)}
      corpses == {reg[i] : i \in cleared}
  IN
  /\ pc[th] = "reap"
  /\ reg' = [i \in Slots |-> IF i \in cleared THEN None ELSE reg[i]]
  /\ rc' = [c \in Closures |-> IF c \in corpses THEN 0 ELSE rc[c]]
  /\ IF draining[th]
     THEN /\ dead' = [dead EXCEPT ![th] = @ \cup corpses]
          /\ word' = [word EXCEPT !.judging = FALSE]
     ELSE /\ word' = [Add(-Cardinality(corpses), 0, 0) EXCEPT !.judging = FALSE]
          /\ UNCHANGED dead
  /\ Goto(th, "unhold")
  /\ UNCHANGED <<done, pending, freed, deferred, programVars, releaseVars, draining, pass,
                 judgeVars, missed>>

\* Mutant of AskedAgain: nobody looks at pending.
NeverAskedAgain == FALSE

AskedAgain == pending

(* Somebody let go while this thread judged: it judges again. *)
Again(th) ==
  /\ pc[th] = "again"
  /\ pending' = FALSE
  /\ Goto(th, IF AskedAgain THEN "judge" ELSE "unhold")
  /\ UNCHANGED <<word, done, reg, freed, deferred, rc, programVars, releaseVars, drainVars,
                 judgeVars, missed>>

(* vl_judge_deferred, as a task ends or a group is joined *)
JudgeDeferred(th) ==
  /\ Free(th) /\ deferred > 0
  /\ deferred' = 0
  /\ pass' = [pass EXCEPT ![th] = deferred - 1]
  /\ Goto(th, "judge")
  /\ UNCHANGED <<word, done, pending, reg, freed, rc, programVars, releaseVars, dead,
                 draining, judgeVars, missed>>

-----------------------------------------------------------------------------
Runtime(th) ==
  \/ Enter(th) \/ Drop(th) \/ Drain(th) \/ Unhold(th) \/ Judge(th) \/ Defer(th)
  \/ Ask(th) \/ Recheck(th) \/ Arm(th) \/ Scan(th) \/ Verdict(th) \/ Reap(th) \/ Again(th)

Program(th) ==
  \/ \E c \in Closures, u \in Threads : Give(th, u, c)
  \/ \E i \in Slots : Load(th, i)
  \/ \E i \in Slots, c \in Closures \cup {None} : Store(th, i, c)
  \/ \E c \in Closures : Release(th, c)
  \/ \E c \in Closures : Call(th, c)
  \/ Exit(th)

Next ==
  \/ \E c \in Closures : Make(c)
  \/ Return
  \/ FrameRelease
  \/ \E th \in Threads : Runtime(th) \/ Program(th) \/ JudgeDeferred(th)

Spec == Init /\ [][Next]_vars

-----------------------------------------------------------------------------
(* The counts.  *)

\* The sum of f over the threads: its units, each at its thread.
Units(f) == UNION {{th} \X (1 .. f[th]) : th \in Threads}
Total(f) == Cardinality(Units(f))

\* The closures that still hold their reference to the frame.
Live == {c \in Closures : rc[c] > 0} \cup UNION {dead[th] : th \in Threads}

Judging == {th \in Threads : pc[th] \in {"arm", "scan", "verdict", "reap"}}

Holding == {th \in Threads : pc[th] \notin {"idle", "entering", "drop", "drain"} \/ held[th]}

\* The word says what it counts: the references of the function, of closures
\* and of calls; the calls; the judgements in progress or deferred; whether a
\* thread reads the registers.
WordExact ==
  /\ word.refs = (IF own = "over" THEN 0 ELSE 1) + Cardinality(Live) + Total(calls)
  /\ word.acts = Total(calls)
  /\ word.holds = deferred + Total(pass) + Cardinality(Holding)
  /\ Cardinality(Judging) = IF word.judging THEN 1 ELSE 0

\* No judge reads or clears a register while code that writes it runs.
NoReadDuringCall ==
  \A th \in Threads, u \in Threads :
    pc[th] \in {"scan", "reap"} => ~(calls[u] > 0 /\ pc[u] # "entering") /\ own # "running"

\* Nobody is about to touch a freed frame: no closure over it, no call, no
\* judgement, no entry on the list.
NothingLeftOfFreed ==
  freed => Live = {} /\ Total(calls) = 0 /\ Holding = {} /\ deferred = 0 /\ Total(pass) = 0
           /\ own = "over"

-----------------------------------------------------------------------------
(* The promise.  *)

Reached == own # "over" \/ \E th \in Threads : has[th] # {} \/ calls[th] > 0

Promise == INSTANCE Reclaim WITH reached <- Reached

\* A frame in use is never freed, one out of use is freed at most once and
\* never comes back into use.
ImplementsReclaim == Promise!Spec

\* Two registers hold one closure: it has two holders, and owned_refs counts
\* a closure with one holder only.
HeldTwice == \E i, j \in Slots : i # j /\ reg[i] = reg[j] /\ reg[i] # None

\* A judge that is about to clear the registers has found a frame nobody can
\* reach any more, although closures were passed on, called and dropped while it
\* read them one by one.
OnlyGarbageReaped == \A th \in Threads : pc[th] = "reap" => ~Reached

Quiet == deferred = 0 /\ \A th \in Threads : pc[th] = "idle"

\* Of threads that judge at once, give up for each other, or drop references
\* under each other's judgement, one frees the frame: once the last judgement
\* is over and the deferred ones have been made, a frame out of use is freed.
\* Two cases are known to leak: two registers hold one closure; the function
\* returned between vl_release's look at done and its decrement.
NoLeak == Quiet /\ ~Reached => freed \/ HeldTwice \/ missed
=============================================================================
