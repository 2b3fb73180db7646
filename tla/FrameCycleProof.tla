--------------------------- MODULE FrameCycleProof ---------------------------
(***************************************************************************)
(* The count word of FrameCycle.tla and the judgement built on it, proved  *)
(* for any threads, closures, registers and bounds: the word says what it  *)
(* counts, a judge never reads while a call writes, only garbage is        *)
(* cleared and freed, and of threads that give up for each other one       *)
(* judges.                                                                 *)
(*                                                                         *)
(* IInv is inductive.  Counted ties each closure's count to its holders    *)
(* and the word to threads, closures and the deferred list.  Scanned says  *)
(* that what a judge has found its own stays its own while it reads, so a  *)
(* verdict of garbage is right; Owed says that a frame only its own        *)
(* registers hold has somebody who will still judge it.                    *)
(***************************************************************************)
EXTENDS FrameCycle, FiniteSetTheorems, TLAPS

(* Who holds a closure: registers, threads, and threads about to drop it. *)
HoldersIn(r, h, d, c) ==
  ({"reg"} \X {i \in Slots : r[i] = c})
    \cup ({"has"} \X {th \in Threads : c \in h[th]})
    \cup ({"drop"} \X {th \in Threads : d[th] = c})

Holders(c) == HoldersIn(reg, has, cls, c)

RcExact == \A c \in Closures : rc[c] = Cardinality(Holders(c))

(* A closure on a worklist has died, and is on one only. *)
DeadOnce ==
  \A th \in Threads : \A c \in dead[th] :
    rc[c] = 0 /\ c \in made /\ \A u \in Threads : c \in dead[u] => u = th

MadeFirst ==
  \A c \in Closures \ made : rc[c] = 0

Local(th) ==
  /\ pc[th] = "drop" <=> cls[th] # None
  /\ held[th] => pc[th] = "drop" /\ done
  /\ pc[th] \in {"idle", "entering", "drop"} => dead[th] = {} /\ pass[th] = 0
  /\ pc[th] \notin {"scan", "verdict"} => found[th] = 0
  /\ pc[th] = "arm" => unread[th] = Slots
  /\ pc[th] = "verdict" => unread[th] = {}
  /\ pc[th] \in {"arm", "scan", "verdict"} => seen[th].acts = 0
  /\ pc[th] \in {"entering"} => calls[th] > 0

DoneExact  == done <=> own # "running"
FreedExact == freed <=> word = NoWord

(* While the flag is up, the calls over the frame are waiting to enter. *)
FlagKeepsOut ==
  word.judging =>
    done /\ \A th \in Threads : calls[th] > 0 => pc[th] = "entering"

Owned == {i \in Slots : OwnRef(i)}

Scanned ==
  \A th \in Threads :
    pc[th] \in {"scan", "verdict"} => found[th] <= Cardinality(Owned \ unread[th])

(* Registers alone hold the closures over the frame, each held by one. *)
Alone ==
  /\ own = "over"
  /\ \A th \in Threads : dead[th] = {}
  /\ \A c \in Closures : rc[c] > 0 => rc[c] = 1 /\ \E i \in Slots : reg[i] = c

Reaping == \A th \in Threads : pc[th] = "reap" => Alone /\ Total(calls) = 0

(* The thread will judge the frame, or see that it has been asked to. *)
Owes(th) ==
  \/ pass[th] > 0
  \/ pc[th] \in {"judge", "defer", "ask", "arm", "reap"}
  \/ pc[th] \in {"scan", "verdict"} /\ found[th] = Cardinality(Owned \ unread[th])
  \/ pc[th] \in {"scan", "verdict", "again", "recheck"} /\ pending

Owed == Alone /\ Live # {} /\ ~missed => deferred > 0 \/ \E th \in Threads : Owes(th)

Counted == /\ TypeOK /\ (\A th \in Threads : Local(th)) /\ RcExact /\ DeadOnce /\ MadeFirst
           /\ WordExact /\ DoneExact /\ FreedExact /\ FlagKeepsOut

IInv == Counted /\ Scanned /\ Reaping /\ Owed

-----------------------------------------------------------------------------
(* Sums over the threads. *)
LEMMA Interval ==
  ASSUME NEW n \in Nat
  PROVE  IsFiniteSet(1 .. n) /\ Cardinality(1 .. n) = n
<1>1. 1 \in Int /\ n \in Int
  OBVIOUS
<1>2. IsFiniteSet(1 .. n) /\ Cardinality(1 .. n) = IF 1 > n THEN 0 ELSE n - 1 + 1
  BY ONLY <1>1, FS_Interval
<1> QED BY <1>2

LEMMA UnitsAre ==
  ASSUME NEW f \in [Threads -> Nat]
  PROVE  \A e : e \in Units(f) <=> \E th \in Threads : \E k \in 1 .. f[th] : e = <<th, k>>
<1>1. \A e, th : e \in {th} \X (1 .. f[th]) <=> \E k \in 1 .. f[th] : e = <<th, k>>
  OBVIOUS
<1> QED BY <1>1 DEF Units

LEMMA UnitsFinite ==
  ASSUME NEW f \in [Threads -> Nat]
  PROVE  IsFiniteSet(Units(f)) /\ Total(f) \in Nat
<1> DEFINE P(th) == {th} \X (1 .. f[th])
           S     == {P(th) : th \in Threads}
           g     == [th \in Threads |-> P(th)]
<1>1. g \in Surjection(Threads, S)
  BY DEF Surjection
<1>2. IsFiniteSet(S)
  BY <1>1, ThreadAssumption, FS_Surjection
<1>3. \A T \in S : IsFiniteSet(T)
  <2>1. ASSUME NEW th \in Threads PROVE IsFiniteSet(P(th))
    <3>1. IsFiniteSet({th}) /\ IsFiniteSet(1 .. f[th])
      BY FS_Singleton, Interval
    <3> QED BY <3>1, FS_Product
  <2> QED BY <2>1
<1>4. IsFiniteSet(UNION S)
  BY <1>2, <1>3, FS_UNION
<1> QED BY <1>4, FS_CardinalityType DEF Units, Total

LEMMA TotalZero ==
  ASSUME NEW f \in [Threads -> Nat]
  PROVE  Total(f) = 0 <=> \A th \in Threads : f[th] = 0
<1>1. Total(f) = 0 <=> Units(f) = {}
  BY UnitsFinite, FS_EmptySet DEF Total
<1>2. ASSUME Units(f) = {}, NEW th \in Threads PROVE f[th] = 0
  <2>1. CASE f[th] > 0
    <3>1. 1 \in 1 .. f[th]
      BY <2>1
    <3> QED BY <1>2, <3>1, UnitsAre
  <2> QED BY <2>1
<1>3. ASSUME \A th \in Threads : f[th] = 0 PROVE Units(f) = {}
  BY <1>3, UnitsAre
<1> QED BY <1>1, <1>2, <1>3

LEMMA TotalSet ==
  ASSUME NEW f \in [Threads -> Nat], NEW th \in Threads, f[th] = 0, NEW n \in Nat
  PROVE  Total([f EXCEPT ![th] = n]) = Total(f) + n
<1> DEFINE g == [f EXCEPT ![th] = n]
           N == {th} \X (1 .. n)
<1>1. g \in [Threads -> Nat] /\ g[th] = n /\ \A u \in Threads : u # th => g[u] = f[u]
  OBVIOUS
<1>2. \A x : x \in Units(f) <=> \E u \in Threads : \E k \in 1 .. f[u] : x = <<u, k>>
  BY UnitsAre
<1>3. \A x : x \in Units(g) <=> \E u \in Threads : \E k \in 1 .. g[u] : x = <<u, k>>
  BY <1>1, UnitsAre
<1> HIDE DEF g
<1>4. \A x : x \in N <=> \E k \in 1 .. n : x = <<th, k>>
  OBVIOUS
<1> HIDE DEF N
<1>5. \A u \in Threads : \A k \in 1 .. f[u] : u # th
  OBVIOUS
<1>6. Units(f) \cap N = {}
  BY <1>2, <1>4, <1>5
<1>7. Units(g) = Units(f) \cup N
  <2>1. ASSUME NEW x \in Units(g) PROVE x \in Units(f) \cup N
    <3>1. PICK u \in Threads : \E k \in 1 .. g[u] : x = <<u, k>>
      BY <1>3, <2>1
    <3>2. CASE u = th
      BY <1>1, <1>4, <3>1, <3>2
    <3>3. CASE u # th
      BY <1>1, <1>2, <3>1, <3>3
    <3> QED BY <3>2, <3>3
  <2>2. ASSUME NEW x \in Units(f) PROVE x \in Units(g)
    BY <1>1, <1>2, <1>3, <1>5, <2>2
  <2>3. ASSUME NEW x \in N PROVE x \in Units(g)
    BY <1>1, <1>3, <1>4, <2>3
  <2> QED BY <2>1, <2>2, <2>3
<1>8. IsFiniteSet(N) /\ Cardinality(N) = n
  <2>1. IsFiniteSet({th}) /\ Cardinality({th}) = 1
    BY FS_Singleton
  <2>2. IsFiniteSet(1 .. n) /\ Cardinality(1 .. n) = n
    BY Interval
  <2>3. IsFiniteSet(N) /\ Cardinality(N) = 1 * n
    BY ONLY <2>1, <2>2, FS_Product DEF N
  <2> QED BY <2>3
<1>9. IsFiniteSet(Units(f)) /\ Total(f) \in Nat
  BY UnitsFinite
<1>10. Cardinality(Units(f) \cup N) = Cardinality(Units(f)) + Cardinality(N) - Cardinality({})
  BY <1>6, <1>8, <1>9, FS_Union
<1>11. Total(g) = Total(f) + n
  BY <1>7, <1>8, <1>9, <1>10, FS_EmptySet DEF Total
<1> QED BY <1>11 DEF g

LEMMA TotalMoves ==
  ASSUME NEW f \in [Threads -> Nat], NEW g \in [Threads -> Nat], NEW th \in Threads,
         \A u \in Threads \ {th} : g[u] = f[u]
  PROVE  Total(g) = Total(f) - f[th] + g[th]
<1> DEFINE z == [f EXCEPT ![th] = 0]
<1>1. z \in [Threads -> Nat] /\ z[th] = 0
  OBVIOUS
<1>2. f = [z EXCEPT ![th] = f[th]] /\ g = [z EXCEPT ![th] = g[th]]
  OBVIOUS
<1> HIDE DEF z
<1>3. f[th] \in Nat /\ g[th] \in Nat
  OBVIOUS
<1>4. Total([z EXCEPT ![th] = f[th]]) = Total(z) + f[th]
  BY <1>1, <1>3, TotalSet
<1>5. Total([z EXCEPT ![th] = g[th]]) = Total(z) + g[th]
  BY <1>1, <1>3, TotalSet
<1>6. Total(f) = Total(z) + f[th] /\ Total(g) = Total(z) + g[th]
  BY ONLY <1>2, <1>4, <1>5
<1>7. Total(z) \in Nat
  BY <1>1, UnitsFinite
<1> QED BY ONLY <1>3, <1>6, <1>7

Bit(p) == IF p THEN 1 ELSE 0

LEMMA OneMember ==
  ASSUME NEW S, NEW T, NEW x, IsFiniteSet(S), \A y : y # x => (y \in T <=> y \in S)
  PROVE  /\ IsFiniteSet(T)
         /\ Cardinality(T) = Cardinality(S) - Bit(x \in S) + Bit(x \in T)
<1>1. Cardinality(S) \in Nat
  BY FS_CardinalityType
<1>2. CASE x \in S <=> x \in T
  <2>1. S = T
    BY <1>2
  <2> QED BY <1>1, <2>1 DEF Bit
<1>3. CASE x \in S /\ x \notin T
  <2>1. T = S \ {x}
    BY <1>3
  <2>2. IsFiniteSet(T) /\ Cardinality(T) = Cardinality(S) - 1
    BY <1>3, <2>1, FS_RemoveElement
  <2> QED BY <1>1, <1>3, <2>2 DEF Bit
<1>4. CASE x \notin S /\ x \in T
  <2>1. T = S \cup {x}
    BY <1>4
  <2>2. IsFiniteSet(T) /\ Cardinality(T) = Cardinality(S) + 1
    BY <1>4, <2>1, FS_AddElement
  <2> QED BY <1>1, <1>4, <2>2 DEF Bit
<1> QED BY <1>2, <1>3, <1>4

-----------------------------------------------------------------------------
(* Counts of closures: a count changes with the set of holders. *)
LEMMA HoldersAre ==
  ASSUME NEW r, NEW h, NEW d, NEW c
  PROVE  /\ \A e : e \in HoldersIn(r, h, d, c) <=>
                     \/ \E i \in Slots : e = <<"reg", i>> /\ r[i] = c
                     \/ \E th \in Threads : e = <<"has", th>> /\ c \in h[th]
                     \/ \E th \in Threads : e = <<"drop", th>> /\ d[th] = c
         /\ IsFiniteSet(HoldersIn(r, h, d, c))
<1>1. /\ IsFiniteSet({i \in Slots : r[i] = c})
      /\ IsFiniteSet({th \in Threads : c \in h[th]})
      /\ IsFiniteSet({th \in Threads : d[th] = c})
  BY SlotAssumption, ThreadAssumption, FS_Subset
<1>2. /\ IsFiniteSet({"reg"}) /\ IsFiniteSet({"has"}) /\ IsFiniteSet({"drop"})
  BY FS_Singleton
<1>3. IsFiniteSet(HoldersIn(r, h, d, c))
  BY <1>1, <1>2, FS_Product, FS_Union DEF HoldersIn
<1>4. \A e : e \in HoldersIn(r, h, d, c) <=>
                     \/ \E i \in Slots : e = <<"reg", i>> /\ r[i] = c
                     \/ \E th \in Threads : e = <<"has", th>> /\ c \in h[th]
                     \/ \E th \in Threads : e = <<"drop", th>> /\ d[th] = c
  BY DEF HoldersIn
<1> QED BY <1>3, <1>4

(* Each entry by itself. *)
LEMMA HolderEntries ==
  ASSUME NEW r, NEW h, NEW d, NEW c
  PROVE  /\ \A i : <<"reg", i>> \in HoldersIn(r, h, d, c) <=> i \in Slots /\ r[i] = c
         /\ \A th : <<"has", th>> \in HoldersIn(r, h, d, c) <=> th \in Threads /\ c \in h[th]
         /\ \A th : <<"drop", th>> \in HoldersIn(r, h, d, c) <=> th \in Threads /\ d[th] = c
<1>1. \A x, y : <<"reg", x>> # <<"has", y>> /\ <<"reg", x>> # <<"drop", y>> /\ <<"has", x>> # <<"drop", y>>
  OBVIOUS
<1>2. \A x, y, z : <<z, x>> = <<z, y>> => x = y
  OBVIOUS
<1> QED BY <1>1, <1>2, HoldersAre

LEMMA HoldersType ==
  ASSUME RcExact, NEW c \in Closures
  PROVE  /\ IsFiniteSet(Holders(c)) /\ rc[c] = Cardinality(Holders(c)) /\ rc[c] \in Nat
<1>1. IsFiniteSet(Holders(c))
  BY HoldersAre DEF Holders
<1> QED BY <1>1, FS_CardinalityType DEF RcExact

(* A closure that is held has a count; one of 1 leaves no other holder. *)
LEMMA HeldCounts ==
  ASSUME RcExact, NEW c \in Closures
  PROVE  /\ \A i \in Slots : reg[i] = c => rc[c] > 0
         /\ \A th \in Threads : c \in has[th] \/ cls[th] = c => rc[c] > 0
         /\ rc[c] = 1 => \A i \in Slots : reg[i] = c =>
              /\ \A j \in Slots : reg[j] = c => j = i
              /\ \A th \in Threads : c \notin has[th] /\ cls[th] # c
<1> DEFINE H == Holders(c)
<1>1. IsFiniteSet(H) /\ rc[c] = Cardinality(H) /\ rc[c] \in Nat
  BY HoldersType
<1>2. rc[c] = 0 <=> H = {}
  BY <1>1, FS_EmptySet
<1>3. rc[c] = 1 => \E x : H = {x}
  BY <1>1, FS_Singleton
<1>4. /\ \A i : <<"reg", i>> \in H <=> i \in Slots /\ reg[i] = c
      /\ \A th : <<"has", th>> \in H <=> th \in Threads /\ c \in has[th]
      /\ \A th : <<"drop", th>> \in H <=> th \in Threads /\ cls[th] = c
  BY HolderEntries DEF Holders
<1> HIDE DEF H
<1>5. ASSUME NEW i \in Slots, reg[i] = c PROVE rc[c] > 0
  <2>1. <<"reg", i>> \in H
    BY <1>4, <1>5
  <2> QED BY <1>1, <1>2, <2>1
<1>6. ASSUME NEW th \in Threads, c \in has[th] \/ cls[th] = c PROVE rc[c] > 0
  <2>1. <<"has", th>> \in H \/ <<"drop", th>> \in H
    BY <1>4, <1>6
  <2> QED BY <1>1, <1>2, <2>1
<1>7. ASSUME rc[c] = 1, NEW i \in Slots, reg[i] = c
      PROVE  /\ \A j \in Slots : reg[j] = c => j = i
             /\ \A th \in Threads : c \notin has[th] /\ cls[th] # c
  <2>1. H = {<<"reg", i>>}
    BY <1>3, <1>4, <1>7
  <2>2. \A x : <<"reg", i>> # <<"has", x>> /\ <<"reg", i>> # <<"drop", x>>
    OBVIOUS
  <2>3. \A j : <<"reg", j>> = <<"reg", i>> => j = i
    OBVIOUS
  <2> QED BY <1>4, <2>1, <2>2, <2>3
<1> QED BY <1>5, <1>6, <1>7

(* One more thread has a closure. *)
LEMMA OneMoreHas ==
  ASSUME RcExact, NEW u \in Threads, NEW c \in Closures, c \notin has[u],
         has \in [Threads -> SUBSET Closures], rc \in [Closures -> Nat],
         has' = [has EXCEPT ![u] = @ \cup {c}], rc' = [rc EXCEPT ![c] = @ + 1],
         UNCHANGED <<reg, cls>>
  PROVE  RcExact'
<1> SUFFICES ASSUME NEW x \in Closures PROVE rc'[x] = Cardinality(Holders(x)')
  BY DEF RcExact
<1> DEFINE H == Holders(x)
           K == HoldersIn(reg, has', cls, x)
           e == <<"has", u>>
<1>1. IsFiniteSet(H) /\ rc[x] = Cardinality(H)
  BY HoldersType
<1>2. Holders(x)' = K
  BY DEF Holders
<1>3. \A y : y \in H <=> \/ \E i \in Slots : y = <<"reg", i>> /\ reg[i] = x
                         \/ \E th \in Threads : y = <<"has", th>> /\ x \in has[th]
                         \/ \E th \in Threads : y = <<"drop", th>> /\ cls[th] = x
  BY HoldersAre DEF Holders
<1>4. \A y : y \in K <=> \/ \E i \in Slots : y = <<"reg", i>> /\ reg[i] = x
                         \/ \E th \in Threads : y = <<"has", th>> /\ x \in has'[th]
                         \/ \E th \in Threads : y = <<"drop", th>> /\ cls[th] = x
  BY DEF HoldersIn
<1>5. e \in H <=> x \in has[u]
  BY HolderEntries DEF Holders
<1> HIDE DEF H, K
<1>6. CASE x = c
  <2>1. K = H \cup {e}
    BY <1>3, <1>4, <1>6
  <2>2. e \notin H
    BY <1>5, <1>6
  <2>3. Cardinality(K) = Cardinality(H) + 1
    BY <1>1, <2>1, <2>2, FS_AddElement
  <2>4. rc'[x] = rc[x] + 1
    BY <1>6
  <2> QED BY <1>1, <1>2, <2>3, <2>4
<1>7. CASE x # c
  <2>1. K = H
    BY <1>3, <1>4, <1>7
  <2> QED BY <1>1, <1>2, <1>7, <2>1
<1> QED BY <1>6, <1>7

(* A thread lets go of a closure it has. *)
LEMMA HasBecomesDrop ==
  ASSUME RcExact, NEW u \in Threads, NEW c \in Closures, c \in has[u], cls[u] = None,
         has \in [Threads -> SUBSET Closures], cls \in [Threads -> Closures \cup {None}],
         has' = [has EXCEPT ![u] = @ \ {c}], cls' = [cls EXCEPT ![u] = c],
         UNCHANGED <<reg, rc>>
  PROVE  RcExact'
<1> SUFFICES ASSUME NEW x \in Closures PROVE rc[x] = Cardinality(Holders(x)')
  BY DEF RcExact
<1> DEFINE H == Holders(x)
           K == HoldersIn(reg, has', cls', x)
           e == <<"has", u>>
           f == <<"drop", u>>
<1>1. IsFiniteSet(H) /\ rc[x] = Cardinality(H) /\ rc[x] \in Nat
  BY HoldersType
<1>2. Holders(x)' = K
  BY DEF Holders
<1>3. \A y : y \in H <=> \/ \E i \in Slots : y = <<"reg", i>> /\ reg[i] = x
                         \/ \E th \in Threads : y = <<"has", th>> /\ x \in has[th]
                         \/ \E th \in Threads : y = <<"drop", th>> /\ cls[th] = x
  BY HoldersAre DEF Holders
<1>4. \A y : y \in K <=> \/ \E i \in Slots : y = <<"reg", i>> /\ reg[i] = x
                         \/ \E th \in Threads : y = <<"has", th>> /\ x \in has'[th]
                         \/ \E th \in Threads : y = <<"drop", th>> /\ cls'[th] = x
  BY DEF HoldersIn
<1>5. (e \in H <=> x \in has[u]) /\ (f \in H <=> cls[u] = x)
  BY HolderEntries DEF Holders
<1>6. \A z : e # <<"reg", z>> /\ e # <<"drop", z>> /\ f # <<"reg", z>> /\ f # <<"has", z>>
  OBVIOUS
<1>7. \A z : (e = <<"has", z>> => z = u) /\ (f = <<"drop", z>> => z = u)
  OBVIOUS
<1> HIDE DEF H, K, e, f
<1>8. CASE x = c
  <2>1. K = (H \ {e}) \cup {f}
    BY <1>3, <1>4, <1>6, <1>7, <1>8, NoneAssumption DEF e, f
  <2>2. e \in H /\ f \notin H \ {e}
    BY <1>5, <1>8, NoneAssumption
  <2>3. IsFiniteSet(H \ {e}) /\ Cardinality(H \ {e}) = rc[x] - 1
    BY <1>1, <2>2, FS_RemoveElement
  <2>4. Cardinality(K) = Cardinality(H \ {e}) + 1
    BY <2>1, <2>2, <2>3, FS_AddElement
  <2> QED BY <1>1, <1>2, <2>3, <2>4
<1>9. CASE x # c
  <2>1. K = H
    BY <1>3, <1>4, <1>9, NoneAssumption
  <2> QED BY <1>1, <1>2, <2>1
<1> QED BY <1>8, <1>9

(* A register is given a closure more, and what it held is about to go. *)
LEMMA RegChanges ==
  ASSUME RcExact, NEW u \in Threads, NEW i \in Slots, NEW c \in Closures \cup {None},
         c # reg[i], cls[u] = None,
         reg \in [Slots -> Closures \cup {None}], rc \in [Closures -> Nat],
         cls \in [Threads -> Closures \cup {None}],
         reg' = [reg EXCEPT ![i] = c],
         rc' = [x \in Closures |-> IF x = c THEN rc[x] + 1 ELSE rc[x]],
         cls' = [cls EXCEPT ![u] = reg[i]], UNCHANGED has
  PROVE  RcExact'
<1> SUFFICES ASSUME NEW x \in Closures PROVE rc'[x] = Cardinality(Holders(x)')
  BY DEF RcExact
<1> DEFINE H == Holders(x)
           K == HoldersIn(reg', has, cls', x)
           e == <<"reg", i>>
           f == <<"drop", u>>
<1>1. IsFiniteSet(H) /\ rc[x] = Cardinality(H) /\ rc[x] \in Nat
  BY HoldersType
<1>2. Holders(x)' = K
  BY DEF Holders
<1>3. \A y : y \in H <=> \/ \E j \in Slots : y = <<"reg", j>> /\ reg[j] = x
                         \/ \E th \in Threads : y = <<"has", th>> /\ x \in has[th]
                         \/ \E th \in Threads : y = <<"drop", th>> /\ cls[th] = x
  BY HoldersAre DEF Holders
<1>4. \A y : y \in K <=> \/ \E j \in Slots : y = <<"reg", j>> /\ reg'[j] = x
                         \/ \E th \in Threads : y = <<"has", th>> /\ x \in has[th]
                         \/ \E th \in Threads : y = <<"drop", th>> /\ cls'[th] = x
  BY DEF HoldersIn
<1>5. (e \in H <=> reg[i] = x) /\ (f \in H <=> cls[u] = x)
  BY HolderEntries DEF Holders
<1>6. \A z : e # <<"has", z>> /\ e # <<"drop", z>> /\ f # <<"reg", z>> /\ f # <<"has", z>>
  OBVIOUS
<1>7. \A z : (e = <<"reg", z>> => z = i) /\ (f = <<"drop", z>> => z = u)
  OBVIOUS
<1>8. /\ reg'[i] = c /\ \A j \in Slots : j # i => reg'[j] = reg[j]
      /\ cls'[u] = reg[i] /\ \A th \in Threads : th # u => cls'[th] = cls[th]
      /\ rc'[x] = IF x = c THEN rc[x] + 1 ELSE rc[x]
  OBVIOUS
<1> HIDE DEF H, K, e, f
<1>9. CASE x = c
  <2>1. K = H \cup {e}
    BY <1>3, <1>4, <1>6, <1>7, <1>8, <1>9, NoneAssumption DEF e, f
  <2>2. e \notin H
    BY <1>5, <1>9
  <2>3. Cardinality(K) = Cardinality(H) + 1
    BY <1>1, <2>1, <2>2, FS_AddElement
  <2> QED BY <1>1, <1>2, <1>8, <1>9, <2>3
<1>10. CASE x = reg[i]
  <2>1. K = (H \ {e}) \cup {f}
    BY <1>3, <1>4, <1>6, <1>7, <1>8, <1>10, NoneAssumption DEF e, f
  <2>2. e \in H /\ f \notin H \ {e}
    BY <1>5, <1>10, NoneAssumption
  <2>3. IsFiniteSet(H \ {e}) /\ Cardinality(H \ {e}) = rc[x] - 1
    BY <1>1, <2>2, FS_RemoveElement
  <2>4. Cardinality(K) = Cardinality(H \ {e}) + 1
    BY <2>1, <2>2, <2>3, FS_AddElement
  <2> QED BY <1>1, <1>2, <1>8, <1>10, <2>3, <2>4
<1>11. CASE x # c /\ x # reg[i]
  <2>1. \A j \in Slots : reg'[j] = x <=> reg[j] = x
    BY <1>8, <1>11
  <2>2. \A th \in Threads : cls'[th] = x <=> cls[th] = x
    BY <1>8, <1>11, NoneAssumption
  <2>3. K = H
    BY <1>3, <1>4, <2>1, <2>2
  <2> QED BY <1>1, <1>2, <1>8, <1>11, <2>3
<1> QED BY <1>9, <1>10, <1>11

(* The decrement of a release. *)
LEMMA DropCounts ==
  ASSUME RcExact, NEW u \in Threads, cls[u] \in Closures,
         rc \in [Closures -> Nat], cls \in [Threads -> Closures \cup {None}],
         rc' = [rc EXCEPT ![cls[u]] = rc[cls[u]] - 1], cls' = [cls EXCEPT ![u] = None],
         UNCHANGED <<reg, has>>
  PROVE  RcExact'
<1> SUFFICES ASSUME NEW x \in Closures PROVE rc'[x] = Cardinality(Holders(x)')
  BY DEF RcExact
<1> DEFINE H == Holders(x)
           K == HoldersIn(reg, has, cls', x)
           f == <<"drop", u>>
<1>1. IsFiniteSet(H) /\ rc[x] = Cardinality(H) /\ rc[x] \in Nat
  BY HoldersType
<1>2. Holders(x)' = K
  BY DEF Holders
<1>3. \A y : y \in H <=> \/ \E j \in Slots : y = <<"reg", j>> /\ reg[j] = x
                         \/ \E th \in Threads : y = <<"has", th>> /\ x \in has[th]
                         \/ \E th \in Threads : y = <<"drop", th>> /\ cls[th] = x
  BY HoldersAre DEF Holders
<1>4. \A y : y \in K <=> \/ \E j \in Slots : y = <<"reg", j>> /\ reg[j] = x
                         \/ \E th \in Threads : y = <<"has", th>> /\ x \in has[th]
                         \/ \E th \in Threads : y = <<"drop", th>> /\ cls'[th] = x
  BY DEF HoldersIn
<1>5. f \in H <=> cls[u] = x
  BY HolderEntries DEF Holders
<1>6. \A z : f # <<"reg", z>> /\ f # <<"has", z>>
  OBVIOUS
<1>7. \A z : f = <<"drop", z>> => z = u
  OBVIOUS
<1>8. /\ cls'[u] = None /\ \A th \in Threads : th # u => cls'[th] = cls[th]
      /\ rc'[x] = IF x = cls[u] THEN rc[x] - 1 ELSE rc[x]
  OBVIOUS
<1> HIDE DEF H, K, f
<1>9. CASE x = cls[u]
  <2>1. K = H \ {f}
    BY <1>3, <1>4, <1>6, <1>7, <1>8, <1>9, NoneAssumption DEF f
  <2>2. Cardinality(K) = Cardinality(H) - 1
    BY <1>1, <1>5, <1>9, <2>1, FS_RemoveElement
  <2> QED BY <1>1, <1>2, <1>8, <1>9, <2>2
<1>10. CASE x # cls[u]
  <2>1. K = H
    BY <1>3, <1>4, <1>8, <1>10, NoneAssumption
  <2> QED BY <1>1, <1>2, <1>8, <1>10, <2>1
<1> QED BY <1>9, <1>10

(* Registers that are sole holders are cleared with what they hold. *)
LEMMA ClearedCounts ==
  ASSUME RcExact, rc \in [Closures -> Nat], reg \in [Slots -> Closures \cup {None}],
         reg' = [i \in Slots |-> IF i \in Owned THEN None ELSE reg[i]],
         rc' = [c \in Closures |-> IF c \in {reg[i] : i \in Owned} THEN 0 ELSE rc[c]],
         UNCHANGED <<has, cls>>
  PROVE  RcExact'
<1> SUFFICES ASSUME NEW x \in Closures PROVE rc'[x] = Cardinality(Holders(x)')
  BY DEF RcExact
<1> DEFINE H == Holders(x)
           K == HoldersIn(reg', has, cls, x)
<1>1. IsFiniteSet(H) /\ rc[x] = Cardinality(H) /\ rc[x] \in Nat
  BY HoldersType
<1>2. Holders(x)' = K
  BY DEF Holders
<1>3. \A y : y \in H <=> \/ \E j \in Slots : y = <<"reg", j>> /\ reg[j] = x
                         \/ \E th \in Threads : y = <<"has", th>> /\ x \in has[th]
                         \/ \E th \in Threads : y = <<"drop", th>> /\ cls[th] = x
  BY HoldersAre DEF Holders
<1>4. \A y : y \in K <=> \/ \E j \in Slots : y = <<"reg", j>> /\ reg'[j] = x
                         \/ \E th \in Threads : y = <<"has", th>> /\ x \in has[th]
                         \/ \E th \in Threads : y = <<"drop", th>> /\ cls[th] = x
  BY DEF HoldersIn
<1>5. \A i \in Slots : i \in Owned <=> reg[i] # None /\ rc[reg[i]] = 1
  BY DEF Owned, OwnRef
<1>6. \A i \in Owned : i \in Slots
  BY DEF Owned
<1> HIDE DEF H, K
<1>7. CASE \E i \in Owned : x = reg[i]
  <2>1. PICK i \in Owned : x = reg[i]
    BY <1>7
  <2>2. /\ \A j \in Slots : reg[j] = x => j = i
        /\ \A th \in Threads : x \notin has[th] /\ cls[th] # x
    BY <1>5, <1>6, <2>1, HeldCounts
  <2>3. \A j \in Slots : reg'[j] # x
    BY <2>1, <2>2, NoneAssumption
  <2>4. K = {}
    BY <1>4, <2>2, <2>3
  <2>5. rc'[x] = 0
    BY <1>7
  <2> QED BY <1>2, <2>4, <2>5, FS_EmptySet
<1>8. CASE ~ \E i \in Owned : x = reg[i]
  <2>1. rc'[x] = rc[x]
    BY <1>8
  <2>2. \A j \in Slots : reg'[j] = x <=> reg[j] = x
    BY <1>8, NoneAssumption
  <2>3. K = H
    BY <1>3, <1>4, <2>2
  <2> QED BY <1>1, <1>2, <2>1, <2>3
<1> QED BY <1>7, <1>8
-----------------------------------------------------------------------------
(* Steps of one thread: what changes at that thread. *)
Elsewhere(th) ==
  \A u \in Threads \ {th} :
    /\ pc'[u] = pc[u] /\ cls'[u] = cls[u] /\ held'[u] = held[u] /\ dead'[u] = dead[u]
    /\ pass'[u] = pass[u] /\ calls'[u] = calls[u]
    /\ seen'[u] = seen[u] /\ unread'[u] = unread[u] /\ found'[u] = found[u]

Holds == Total(pass) + Cardinality(Holding)

LEMMA ThreadSets ==
  IsFiniteSet(Holding) /\ IsFiniteSet(Judging)
BY ThreadAssumption, FS_Subset DEF Holding, Judging

LEMMA LiveFinite == ASSUME TypeOK PROVE IsFiniteSet(Live)
BY SlotAssumption, FS_Subset DEF Live, TypeOK

LEMMA Sums ==
  ASSUME TypeOK, TypeOK', NEW th \in Threads, Elsewhere(th)
  PROVE  /\ Total(calls') = Total(calls) - calls[th] + calls'[th]
         /\ Total(pass') = Total(pass) - pass[th] + pass'[th]
         /\ Cardinality(Holding') = Cardinality(Holding) - Bit(th \in Holding) + Bit(th \in Holding')
         /\ Cardinality(Judging') = Cardinality(Judging) - Bit(th \in Judging) + Bit(th \in Judging')
         /\ Total(calls) \in Nat /\ Total(pass) \in Nat
         /\ Cardinality(Holding) \in Nat /\ Cardinality(Judging) \in Nat
<1>1. \A u \in Threads \ {th} : calls'[u] = calls[u] /\ pass'[u] = pass[u]
  BY DEF Elsewhere
<1>2. calls \in [Threads -> Nat] /\ calls' \in [Threads -> Nat]
  BY DEF TypeOK
<1>3. pass \in [Threads -> Nat] /\ pass' \in [Threads -> Nat]
  BY DEF TypeOK
<1>4. Total(calls') = Total(calls) - calls[th] + calls'[th]
  BY ONLY <1>1, <1>2, TotalMoves
<1>5. Total(pass') = Total(pass) - pass[th] + pass'[th]
  BY ONLY <1>1, <1>3, TotalMoves
<1>6. \A u : u # th => (u \in Holding' <=> u \in Holding) /\ (u \in Judging' <=> u \in Judging)
  BY DEF Elsewhere, Holding, Judging
<1>7. Cardinality(Holding') = Cardinality(Holding) - Bit(th \in Holding) + Bit(th \in Holding')
  BY <1>6, ThreadSets, OneMember
<1>8. Cardinality(Judging') = Cardinality(Judging) - Bit(th \in Judging) + Bit(th \in Judging')
  BY <1>6, ThreadSets, OneMember
<1>9. Total(calls) \in Nat /\ Total(pass) \in Nat
  BY <1>2, <1>3, UnitsFinite
<1> QED BY <1>4, <1>5, <1>7, <1>8, <1>9, ThreadSets, FS_CardinalityType

(* What the word bounds. *)
LEMMA Bounds ==
  ASSUME TypeOK, WordExact
  PROVE  /\ own # "over" => word.refs >= 1
         /\ \A th \in Threads : calls[th] > 0 => word.refs >= 1 /\ word.acts >= 1
         /\ \A c \in Live : word.refs >= 1
         /\ \A th \in Holding : word.holds >= 1
         /\ \A th \in Threads : pass[th] > 0 => word.holds >= 1
         /\ \A th \in Judging : word.judging /\ Judging = {th}
         /\ word.acts = 0 => \A th \in Threads : calls[th] = 0
         /\ Cardinality(Live) \in Nat /\ Total(calls) \in Nat /\ Total(pass) \in Nat
         /\ Cardinality(Holding) \in Nat
<1>1. Total(calls) \in Nat /\ Total(pass) \in Nat
  BY UnitsFinite DEF TypeOK
<1>2. Cardinality(Live) \in Nat /\ Cardinality(Holding) \in Nat /\ Cardinality(Judging) \in Nat
  BY LiveFinite, ThreadSets, FS_CardinalityType
<1>3. \A c \in Live : Cardinality(Live) # 0
  BY LiveFinite, FS_EmptySet
<1>4. \A th \in Holding : Cardinality(Holding) # 0
  BY ThreadSets, FS_EmptySet
<1>5. \A th \in Judging : Cardinality(Judging) # 0
  BY ThreadSets, FS_EmptySet
<1>6. Cardinality(Judging) = 1 => \A th \in Judging : Judging = {th}
  <2>1. Cardinality(Judging) = 1 => \E x : Judging = {x}
    BY ThreadSets, FS_Singleton
  <2> QED BY <2>1
<1>7. calls \in [Threads -> Nat] /\ pass \in [Threads -> Nat]
  BY DEF TypeOK
<1>8. Total(calls) = 0 <=> \A th \in Threads : calls[th] = 0
  BY <1>7, TotalZero
<1>9. Total(pass) = 0 <=> \A th \in Threads : pass[th] = 0
  BY <1>7, TotalZero
<1>10. word \in Words /\ deferred \in Nat
  BY DEF TypeOK
<1>11. own # "over" => word.refs >= 1
  BY <1>1, <1>2 DEF WordExact
<1>12. ASSUME NEW th \in Threads, calls[th] > 0 PROVE word.refs >= 1 /\ word.acts >= 1
  BY <1>1, <1>2, <1>7, <1>8, <1>12 DEF WordExact
<1>13. \A c \in Live : word.refs >= 1
  BY <1>1, <1>2, <1>3 DEF WordExact
<1>14. \A th \in Holding : word.holds >= 1
  BY <1>1, <1>2, <1>4, <1>10 DEF WordExact
<1>15. ASSUME NEW th \in Threads, pass[th] > 0 PROVE word.holds >= 1
  BY <1>1, <1>2, <1>7, <1>9, <1>10, <1>15 DEF WordExact
<1>16. \A th \in Judging : word.judging /\ Judging = {th}
  BY <1>2, <1>5, <1>6 DEF WordExact
<1>17. word.acts = 0 => \A th \in Threads : calls[th] = 0
  BY <1>8 DEF WordExact
<1> QED BY <1>1, <1>2, <1>11, <1>12, <1>13, <1>14, <1>15, <1>16, <1>17

(* A frame whose word is 0 has nobody left. *)
LEMMA NobodyLeft ==
  ASSUME TypeOK, WordExact, word = NoWord
  PROVE  /\ Live = {} /\ Total(calls) = 0 /\ Holding = {} /\ deferred = 0 /\ Total(pass) = 0
         /\ own = "over"
<1>1. word.refs = 0 /\ word.acts = 0 /\ word.holds = 0 /\ deferred \in Nat
  BY DEF NoWord, TypeOK
<1>2. Cardinality(Live) \in Nat /\ Total(calls) \in Nat /\ Total(pass) \in Nat /\ Cardinality(Holding) \in Nat
  BY Bounds
<1>3. own = "over" /\ Cardinality(Live) = 0 /\ Total(calls) = 0
  BY <1>1, <1>2 DEF WordExact
<1>4. deferred = 0 /\ Total(pass) = 0 /\ Cardinality(Holding) = 0
  BY <1>1, <1>2 DEF WordExact
<1> QED BY <1>3, <1>4, LiveFinite, ThreadSets, FS_EmptySet

LEMMA SomebodyLeft ==
  ASSUME Counted, NEW th \in Threads,
         \/ own # "over" \/ deferred > 0 \/ th \in Holding \/ calls[th] > 0 \/ pass[th] > 0
         \/ dead[th] # {} \/ has[th] # {} \/ cls[th] # None
  PROVE  word # NoWord /\ ~freed
<1> SUFFICES ASSUME word = NoWord PROVE FALSE
  BY DEF Counted, FreedExact
<1>1. TypeOK /\ WordExact /\ RcExact
  BY DEF Counted
<1>2. /\ Live = {} /\ Total(calls) = 0 /\ Holding = {} /\ deferred = 0 /\ Total(pass) = 0
      /\ own = "over"
  BY <1>1, NobodyLeft
<1>3. calls[th] = 0 /\ pass[th] = 0
  BY <1>1, <1>2, TotalZero DEF TypeOK
<1>4. dead[th] = {}
  BY <1>2 DEF Live
<1>5. \A c \in Closures : ~(rc[c] > 0)
  BY <1>2 DEF Live
<1>6. has[th] = {} /\ cls[th] = None
  BY <1>1, <1>5, HeldCounts DEF TypeOK
<1> QED BY <1>2, <1>3, <1>4, <1>6

(* What a step at one thread must show to keep the counts. *)
LEMMA CountedFrom ==
  ASSUME Counted, TypeOK', NEW th \in Threads, Elsewhere(th), Local(th)', done => done',
         RcExact', DeadOnce', MadeFirst', DoneExact', freed' <=> word' = NoWord,
         word'.refs - word.refs = Bit(own' # "over") - Bit(own # "over")
                                  + Cardinality(Live') - Cardinality(Live) + calls'[th] - calls[th],
         word'.acts - word.acts = calls'[th] - calls[th],
         word'.holds - word.holds = deferred' - deferred + pass'[th] - pass[th]
                                    + Bit(th \in Holding') - Bit(th \in Holding),
         Bit(word'.judging) - Bit(word.judging) = Bit(th \in Judging') - Bit(th \in Judging),
         word'.judging => /\ done' /\ (word.judging \/ word.acts = 0)
                          /\ calls'[th] > 0 => pc'[th] = "entering"
  PROVE  Counted'
<1>1. TypeOK /\ WordExact
  BY DEF Counted
<1>2. word \in Words /\ word' \in Words /\ calls[th] \in Nat /\ calls'[th] \in Nat
      /\ pass[th] \in Nat /\ pass'[th] \in Nat /\ deferred \in Nat /\ deferred' \in Nat
  BY <1>1 DEF TypeOK
<1>3. Cardinality(Live) \in Nat /\ Cardinality(Live') \in Nat
  <2>1. IsFiniteSet(Live')
    BY SlotAssumption, FS_Subset DEF Live, TypeOK
  <2> QED BY <1>1, <2>1, LiveFinite, FS_CardinalityType
<1>4. /\ Total(calls') = Total(calls) - calls[th] + calls'[th]
      /\ Total(pass') = Total(pass) - pass[th] + pass'[th]
      /\ Cardinality(Holding') = Cardinality(Holding) - Bit(th \in Holding) + Bit(th \in Holding')
      /\ Cardinality(Judging') = Cardinality(Judging) - Bit(th \in Judging) + Bit(th \in Judging')
      /\ Total(calls) \in Nat /\ Total(pass) \in Nat
      /\ Cardinality(Holding) \in Nat /\ Cardinality(Judging) \in Nat
  BY <1>1, Sums
<1>5. WordExact'
  <2>0. /\ word.refs = Bit(own # "over") + Cardinality(Live) + Total(calls)
        /\ word.holds = deferred + Total(pass) + Cardinality(Holding)
        /\ Bit(own # "over") \in Int /\ Bit(own' # "over") \in Int
        /\ Bit(th \in Holding) \in Int /\ Bit(th \in Holding') \in Int
    BY <1>1 DEF WordExact, Bit
  <2>6. word.refs \in Nat /\ word'.refs \in Nat /\ word.holds \in Nat /\ word'.holds \in Nat
    BY <1>2 DEF Words
  <2>8. word'.refs - word.refs = Bit(own' # "over") - Bit(own # "over")
                                  + Cardinality(Live') - Cardinality(Live) + calls'[th] - calls[th]
    OBVIOUS
  <2>9. word'.holds - word.holds = deferred' - deferred + pass'[th] - pass[th]
                                    + Bit(th \in Holding') - Bit(th \in Holding)
    OBVIOUS
  <2>7. word'.refs = Bit(own' # "over") + Cardinality(Live') + Total(calls')
    BY ONLY <1>2, <1>3, <1>4, <2>0, <2>6, <2>8
  <2>1. word'.refs = (IF own' = "over" THEN 0 ELSE 1) + Cardinality(Live') + Total(calls')
    BY <2>7 DEF Bit
  <2>2. word'.acts = Total(calls')
    BY <1>1, <1>2, <1>4 DEF WordExact, Words
  <2>3. word'.holds = deferred' + Total(pass') + Cardinality(Holding')
    <3> DEFINE a == word.holds    a1 == word'.holds
               h == Cardinality(Holding)   h1 == Cardinality(Holding')
               t == Total(pass)   t1 == Total(pass')
               d == deferred   d1 == deferred'
               x == deferred' - deferred
               y == pass'[th] - pass[th]
               z == Bit(th \in Holding') - Bit(th \in Holding)
    <3>1. /\ a \in Int /\ a1 \in Int /\ h \in Int /\ t \in Int /\ d \in Int
          /\ x \in Int /\ y \in Int /\ z \in Int
      BY ONLY <1>2, <1>4, <2>0, <2>6
    <3>2. t1 = t + y
      BY ONLY <1>2, <1>4
    <3>3. h1 = h + z
      BY ONLY <1>4, <2>0
    <3>4. d1 = d + x
      <4>1. d \in Int /\ d1 \in Int /\ x = d1 - d
        BY ONLY <1>2
      <4> HIDE DEF d, d1, x
      <4> QED BY ONLY <4>1
    <3>5. a = d + t + h /\ a1 - a = x + y + z
      BY ONLY <2>0, <2>9
    <3> HIDE DEF a, a1, h, h1, t, t1, d, d1, x, y, z
    <3>6. a1 = d1 + t1 + h1
      BY ONLY <3>1, <3>2, <3>3, <3>4, <3>5
    <3> QED BY ONLY <3>6 DEF a1, d1, t1, h1
  <2>4. Cardinality(Judging') = IF word'.judging THEN 1 ELSE 0
    BY <1>1, <1>2, <1>4 DEF WordExact, Words, Bit
  <2>5. (Total(calls))' = Total(calls') /\ (Total(pass))' = Total(pass')
    BY DEF Total, Units
  <2> QED BY <2>1, <2>2, <2>3, <2>4, <2>5 DEF WordExact
<1>6. \A u \in Threads : Local(u)'
  <2>1. ASSUME NEW u \in Threads, u # th PROVE Local(u)'
    <3>1. Local(u)
      BY DEF Counted
    <3> QED BY <2>1, <3>1 DEF Elsewhere, Local
  <2> QED BY <2>1
<1>7. FlagKeepsOut'
  <2>1. ASSUME word'.judging, NEW u \in Threads, calls'[u] > 0, u # th PROVE pc'[u] = "entering"
    <3>1. calls[u] > 0 /\ pc'[u] = pc[u]
      BY <2>1 DEF Elsewhere
    <3>2. word.acts # 0
      BY <1>1, <3>1, Bounds
    <3> QED BY <2>1, <3>1, <3>2 DEF Counted, FlagKeepsOut
  <2> QED BY <2>1 DEF FlagKeepsOut
<1> QED BY <1>5, <1>6, <1>7 DEF Counted, FreedExact

LEMMA SameClosures ==
  ASSUME Counted, UNCHANGED <<rc, reg, has, cls, dead, made>>
  PROVE  RcExact' /\ DeadOnce' /\ MadeFirst' /\ Live' = Live
<1>1. \A c : Holders(c)' = Holders(c)
  BY DEF Holders
<1> QED BY <1>1 DEF Counted, RcExact, DeadOnce, MadeFirst, Live

-----------------------------------------------------------------------------
(* Steps that leave the closures alone. *)
LEMMA CountedSame ==
  ASSUME Counted, TypeOK', NEW th \in Threads, Elsewhere(th), Local(th)', done => done',
         UNCHANGED <<rc, reg, has, cls, dead, made>>, DoneExact', freed' <=> word' = NoWord,
         word'.refs - word.refs = Bit(own' # "over") - Bit(own # "over") + calls'[th] - calls[th],
         word'.acts - word.acts = calls'[th] - calls[th],
         word'.holds - word.holds = deferred' - deferred + pass'[th] - pass[th]
                                    + Bit(th \in Holding') - Bit(th \in Holding),
         Bit(word'.judging) - Bit(word.judging) = Bit(th \in Judging') - Bit(th \in Judging),
         word'.judging => /\ done' /\ (word.judging \/ word.acts = 0)
                          /\ calls'[th] > 0 => pc'[th] = "entering"
  PROVE  Counted'
<1>1. RcExact' /\ DeadOnce' /\ MadeFirst' /\ Live' = Live
  BY SameClosures
<1>2. Cardinality(Live) \in Nat
  BY Bounds DEF Counted
<1>3. word'.refs - word.refs = Bit(own' # "over") - Bit(own # "over")
                               + Cardinality(Live') - Cardinality(Live) + calls'[th] - calls[th]
  <2>1. Bit(own' # "over") \in Int /\ Bit(own # "over") \in Int
    BY DEF Bit
  <2>2. calls[th] \in Int /\ calls'[th] \in Int
    BY DEF Counted, TypeOK
  <2> DEFINE b == Bit(own # "over")   b1 == Bit(own' # "over")   n == Cardinality(Live)
             k == calls[th]   k1 == calls'[th]
  <2>3. /\ b \in Int /\ b1 \in Int /\ n \in Int /\ k \in Int /\ k1 \in Int
        /\ word'.refs - word.refs = b1 - b + k1 - k
    BY <1>2, <2>1, <2>2
  <2>4. Cardinality(Live') = n
    BY <1>1
  <2> HIDE DEF b, b1, n, k, k1
  <2>5. word'.refs - word.refs = b1 - b + n - n + k1 - k
    BY ONLY <2>3
  <2> QED BY ONLY <2>4, <2>5 DEF b, b1, n, k, k1
<1> QED BY <1>1, <1>3, CountedFrom

(* Only the place, what the judge keeps and pending change. *)
LEMMA CountedPlace ==
  ASSUME Counted, TypeOK', NEW th \in Threads, Elsewhere(th), Local(th)',
         UNCHANGED <<word, done, reg, freed, deferred, rc, programVars, cls, dead, pass>>,
         th \in Holding' <=> th \in Holding, th \in Judging' <=> th \in Judging,
         pc[th] = "entering" /\ pc'[th] # "entering" => ~word.judging
  PROVE  Counted'
<1>1. word \in Words /\ deferred \in Nat /\ pass[th] \in Nat /\ calls[th] \in Nat
  BY DEF Counted, TypeOK
<1>2. \A p : Bit(p) - Bit(p) = 0
  BY DEF Bit
<1>3. word.judging => done /\ (calls[th] > 0 => pc'[th] = "entering")
  BY DEF Counted, FlagKeepsOut
<1>4. DoneExact' /\ (freed <=> word = NoWord)
  BY DEF Counted, DoneExact, FreedExact, programVars
<1>5. /\ word.refs - word.refs = Bit(own # "over") - Bit(own # "over") + calls[th] - calls[th]
      /\ word.acts - word.acts = calls[th] - calls[th]
      /\ word.holds - word.holds = deferred - deferred + pass[th] - pass[th]
                                    + Bit(th \in Holding) - Bit(th \in Holding)
      /\ Bit(word.judging) - Bit(word.judging) = Bit(th \in Judging) - Bit(th \in Judging)
  BY <1>1, <1>2 DEF Words
<1>6. Bit(th \in Holding') = Bit(th \in Holding) /\ Bit(th \in Judging') = Bit(th \in Judging)
  BY DEF Bit
<1> QED BY <1>1, <1>3, <1>4, <1>5, <1>6, CountedSame DEF programVars

LEMMA EnterCounted ==
  ASSUME Counted, NEW th \in Threads, Enter(th)
  PROVE  Counted'
<1>1. pc[th] = "entering" /\ ~word.judging /\ pc' = [pc EXCEPT ![th] = "idle"]
  BY DEF Enter, Goto
<1>2. TypeOK' /\ Elsewhere(th)
  BY <1>1 DEF Enter, Counted, TypeOK, Elsewhere, Places, frameVars, programVars, releaseVars, drainVars, judgeVars
<1>3. Local(th)
  BY DEF Counted
<1>4. pc'[th] = "idle" /\ ~held[th] /\ held' = held
  BY <1>1, <1>3 DEF Counted, TypeOK, Local, Enter, releaseVars
<1>5. Local(th)'
  BY <1>1, <1>3, <1>4 DEF Local, Enter, frameVars, programVars, releaseVars, drainVars, judgeVars
<1>6. ~(th \in Holding) /\ ~(th \in Holding') /\ ~(th \in Judging) /\ ~(th \in Judging')
  BY <1>1, <1>4 DEF Holding, Judging
<1> QED BY <1>1, <1>2, <1>5, <1>6, CountedPlace DEF Enter, frameVars, releaseVars, drainVars

LEMMA RecheckCounted ==
  ASSUME Counted, NEW th \in Threads, Recheck(th)
  PROVE  Counted'
<1>1. pc[th] = "recheck" /\ pc' = [pc EXCEPT ![th] = IF word.judging THEN "unhold" ELSE "judge"]
  BY DEF Recheck, Goto
<1>2. TypeOK' /\ Elsewhere(th)
  BY <1>1 DEF Recheck, Counted, TypeOK, Elsewhere, Places, frameVars, programVars, releaseVars, drainVars, judgeVars
<1>3. Local(th)
  BY DEF Counted
<1>4. pc'[th] \in {"unhold", "judge"}
  BY <1>1 DEF Counted, TypeOK
<1>5. Local(th)'
  BY <1>1, <1>3, <1>4 DEF Local, Recheck, frameVars, programVars, releaseVars, drainVars, judgeVars
<1>6. th \in Holding /\ th \in Holding' /\ ~(th \in Judging) /\ ~(th \in Judging')
  BY <1>1, <1>4 DEF Holding, Judging
<1> QED BY <1>1, <1>2, <1>5, <1>6, CountedPlace DEF Recheck, frameVars, releaseVars, drainVars

LEMMA AskCounted ==
  ASSUME Counted, NEW th \in Threads, Ask(th)
  PROVE  Counted'
<1>1. pc[th] = "ask" /\ pc' = [pc EXCEPT ![th] = "recheck"]
  BY DEF Ask, Goto
<1>2. TypeOK' /\ Elsewhere(th)
  BY <1>1 DEF Ask, Counted, TypeOK, Elsewhere, Places, programVars, releaseVars, drainVars, judgeVars
<1>3. Local(th)
  BY DEF Counted
<1>4. pc'[th] = "recheck"
  BY <1>1 DEF Counted, TypeOK
<1>5. Local(th)'
  BY <1>1, <1>3, <1>4 DEF Local, Ask, programVars, releaseVars, drainVars, judgeVars
<1>6. th \in Holding /\ th \in Holding' /\ ~(th \in Judging) /\ ~(th \in Judging')
  BY <1>1, <1>4 DEF Holding, Judging
<1> QED BY <1>1, <1>2, <1>5, <1>6, CountedPlace DEF Ask, releaseVars, drainVars

LEMMA ArmCounted ==
  ASSUME Counted, NEW th \in Threads, Arm(th)
  PROVE  Counted'
<1>1. pc[th] = "arm" /\ pc' = [pc EXCEPT ![th] = "scan"]
  BY DEF Arm, Goto
<1>2. TypeOK' /\ Elsewhere(th)
  BY <1>1 DEF Arm, Counted, TypeOK, Elsewhere, Places, programVars, releaseVars, drainVars, judgeVars
<1>3. Local(th)
  BY DEF Counted
<1>4. pc'[th] = "scan"
  BY <1>1 DEF Counted, TypeOK
<1>5. Local(th)'
  BY <1>1, <1>3, <1>4 DEF Local, Arm, programVars, releaseVars, drainVars, judgeVars
<1>6. th \in Holding /\ th \in Holding' /\ th \in Judging /\ th \in Judging'
  BY <1>1, <1>4 DEF Holding, Judging
<1> QED BY <1>1, <1>2, <1>5, <1>6, CountedPlace DEF Arm, releaseVars, drainVars

LEMMA AgainCounted ==
  ASSUME Counted, NEW th \in Threads, Again(th)
  PROVE  Counted'
<1>1. pc[th] = "again" /\ pc' = [pc EXCEPT ![th] = IF AskedAgain THEN "judge" ELSE "unhold"]
  BY DEF Again, Goto
<1>2. TypeOK' /\ Elsewhere(th)
  BY <1>1 DEF Again, Counted, TypeOK, Elsewhere, Places, programVars, releaseVars, drainVars, judgeVars
<1>3. Local(th)
  BY DEF Counted
<1>4. pc'[th] \in {"judge", "unhold"}
  BY <1>1 DEF Counted, TypeOK
<1>5. Local(th)'
  BY <1>1, <1>3, <1>4 DEF Local, Again, programVars, releaseVars, drainVars, judgeVars
<1>6. th \in Holding /\ th \in Holding' /\ ~(th \in Judging) /\ ~(th \in Judging')
  BY <1>1, <1>4 DEF Holding, Judging
<1> QED BY <1>1, <1>2, <1>5, <1>6, CountedPlace DEF Again, releaseVars, drainVars

LEMMA ScanCounted ==
  ASSUME Counted, NEW th \in Threads, Scan(th)
  PROVE  Counted'
<1>1. PICK i \in unread[th] :
        /\ unread' = [unread EXCEPT ![th] = @ \ {i}]
        /\ found' = [found EXCEPT ![th] = @ + IF OwnRef(i) THEN 1 ELSE 0]
        /\ IF unread[th] = {i} THEN Goto(th, "verdict") ELSE UNCHANGED pc
  BY DEF Scan
<1>2. pc[th] = "scan" /\ (\/ pc' = pc /\ unread[th] # {i}
                          \/ pc' = [pc EXCEPT ![th] = "verdict"] /\ unread[th] = {i})
  BY <1>1 DEF Scan, Goto
<1>3. TypeOK'
  <2>1. found' \in [Threads -> Nat] /\ unread' \in [Threads -> SUBSET Slots]
    BY <1>1 DEF Counted, TypeOK
  <2>2. pc' \in [Threads -> Places]
    BY <1>2 DEF Counted, TypeOK, Places
  <2> QED BY <2>1, <2>2 DEF Scan, Counted, TypeOK, frameVars, programVars, releaseVars, drainVars
<1>4. Elsewhere(th)
  BY <1>1, <1>2 DEF Scan, Counted, TypeOK, Elsewhere, frameVars, programVars, releaseVars, drainVars
<1>5. Local(th)
  BY DEF Counted
<1>6. pc'[th] \in {"scan", "verdict"} /\ (pc'[th] = "verdict" => unread'[th] = {})
  BY <1>1, <1>2 DEF Counted, TypeOK
<1>7. Local(th)'
  BY <1>2, <1>5, <1>6 DEF Local, Scan, frameVars, programVars, releaseVars, drainVars
<1>8. th \in Holding /\ th \in Holding' /\ th \in Judging /\ th \in Judging'
  BY <1>2, <1>6 DEF Holding, Judging
<1> QED BY <1>2, <1>3, <1>4, <1>7, <1>8, CountedPlace DEF Scan, frameVars, releaseVars, drainVars

LEMMA JudgeCounted ==
  ASSUME Counted, NEW th \in Threads, Judge(th)
  PROVE  Counted'
<1>1. pc[th] = "judge" /\ Local(th) /\ TypeOK
  BY DEF Judge, Counted
<1>2. CASE \E q \in {"unhold", "defer", "ask"} : pc' = [pc EXCEPT ![th] = q] /\ UNCHANGED <<word, judgeVars>>
  <2>1. PICK q \in {"unhold", "defer", "ask"} : pc' = [pc EXCEPT ![th] = q] /\ UNCHANGED <<word, judgeVars>>
    BY <1>2
  <2>2. TypeOK' /\ Elsewhere(th)
    BY <1>1, <2>1 DEF Judge, TypeOK, Elsewhere, Places, programVars, releaseVars, drainVars, judgeVars
  <2>3. pc'[th] = q
    BY <1>1, <2>1 DEF TypeOK
  <2>4. Local(th)'
    BY <1>1, <2>1, <2>3 DEF Local, Judge, programVars, releaseVars, drainVars, judgeVars
  <2>5. th \in Holding /\ th \in Holding' /\ ~(th \in Judging) /\ ~(th \in Judging')
    BY <1>1, <2>3 DEF Holding, Judging
  <2> QED BY <1>1, <2>1, <2>2, <2>4, <2>5, CountedPlace DEF Judge, releaseVars, drainVars
<1>3. CASE /\ done /\ word.acts = 0 /\ ~word.judging
           /\ word' = [word EXCEPT !.judging = TRUE]
           /\ seen' = [seen EXCEPT ![th] = word']
           /\ unread' = [unread EXCEPT ![th] = Slots]
           /\ UNCHANGED found
           /\ pc' = [pc EXCEPT ![th] = "arm"]
  <2>1. word' \in Words /\ word'.judging /\ word'.refs = word.refs /\ word'.acts = word.acts
        /\ word'.holds = word.holds
    BY <1>1, <1>3 DEF TypeOK, Words
  <2>2. TypeOK' /\ Elsewhere(th)
    BY <1>1, <1>3, <2>1 DEF Judge, TypeOK, Elsewhere, Places, programVars, releaseVars, drainVars
  <2>3. pc'[th] = "arm" /\ unread'[th] = Slots /\ seen'[th].acts = 0
    BY <1>1, <1>3, <2>1 DEF TypeOK
  <2>4. Local(th)'
    BY <1>1, <1>3, <2>3 DEF Local, Judge, programVars, releaseVars, drainVars
  <2>5. th \in Holding /\ th \in Holding' /\ ~(th \in Judging) /\ th \in Judging'
    BY <1>1, <2>3 DEF Holding, Judging
  <2>6. word.refs \in Int /\ word.acts \in Int /\ word.holds \in Int /\ pass[th] \in Int
        /\ deferred \in Int /\ calls[th] \in Int
    BY <1>1 DEF TypeOK, Words
  <2>7. calls[th] = 0
    BY <1>3, Bounds DEF Counted
  <2>8. freed' <=> word' = NoWord
    <3>1. ~freed
      BY <2>5, SomebodyLeft
    <3> QED BY <2>1, <3>1 DEF Judge, NoWord
  <2>9. word'.refs - word.refs = Bit(own' # "over") - Bit(own # "over") + calls'[th] - calls[th]
    BY <2>1, <2>6 DEF Judge, programVars, Bit
  <2>10. word'.holds - word.holds = deferred' - deferred + pass'[th] - pass[th]
                                    + Bit(th \in Holding') - Bit(th \in Holding)
    BY <2>1, <2>5, <2>6 DEF Judge, drainVars, Bit
  <2>11. Bit(word'.judging) - Bit(word.judging) = Bit(th \in Judging') - Bit(th \in Judging)
    BY <1>3, <2>1, <2>5 DEF Bit
  <2>12. word'.acts - word.acts = calls'[th] - calls[th]
    BY <2>1, <2>6 DEF Judge, programVars
  <2>13. done' /\ ~(calls'[th] > 0) /\ DoneExact'
    BY <1>3, <2>7 DEF Judge, programVars, Counted, DoneExact
  <2>14. UNCHANGED <<rc, reg, has, cls, dead, made>>
    BY DEF Judge, programVars, releaseVars, drainVars
  <2>15. word.acts = 0
    BY <1>3
  <2> QED BY ONLY Counted, <2>2, <2>4, <2>8, <2>9, <2>10, <2>11, <2>12, <2>13, <2>14, <2>15,
                  CountedSame
<1>4. \/ Goto(th, "unhold") /\ UNCHANGED <<word, judgeVars>>
      \/ Goto(th, "defer") /\ UNCHANGED <<word, judgeVars>>
      \/ Goto(th, "ask") /\ UNCHANGED <<word, judgeVars>>
      \/ /\ done /\ NoCallInside /\ ~word.judging
         /\ word' = [word EXCEPT !.judging = TRUE]
         /\ seen' = [seen EXCEPT ![th] = word']
         /\ unread' = [unread EXCEPT ![th] = Slots]
         /\ UNCHANGED found
         /\ Goto(th, "arm")
  BY DEF Judge
<1> QED BY <1>2, <1>3, <1>4 DEF NoCallInside, Goto

(* Where a thread goes on: a judgement it starts from the deferred list is  *)
(* one entry less.                                                          *)
LEMMA GoneOn ==
  ASSUME TypeOK, NEW th \in Threads, NEW corpses, GoOn(th, corpses)
  PROVE  /\ pc' \in [Threads -> Places] /\ pass' \in [Threads -> Nat]
         /\ draining' \in [Threads -> BOOLEAN]
         /\ \A u \in Threads \ {th} : pc'[u] = pc[u] /\ pass'[u] = pass[u]
         /\ \/ pc'[th] = "drain" /\ corpses # {} /\ pass'[th] = pass[th]
            \/ pc'[th] = "judge" /\ corpses = {} /\ pass[th] > 0 /\ pass'[th] = pass[th] - 1
            \/ pc'[th] = "idle" /\ corpses = {} /\ pass[th] = 0 /\ pass'[th] = 0
<1>1. \/ pc' = [pc EXCEPT ![th] = "drain"] /\ corpses # {} /\ pass' = pass
      \/ pc' = [pc EXCEPT ![th] = "judge"] /\ corpses = {} /\ pass[th] > 0
         /\ pass' = [pass EXCEPT ![th] = pass[th] - 1]
      \/ pc' = [pc EXCEPT ![th] = "idle"] /\ corpses = {} /\ pass[th] = 0 /\ pass' = pass
  BY DEF GoOn, TypeOK
<1>2. draining' \in [Threads -> BOOLEAN]
  BY DEF GoOn, TypeOK
<1>3. pass \in [Threads -> Nat] /\ pc \in [Threads -> Places]
  BY DEF TypeOK
<1> QED BY <1>1, <1>2, <1>3 DEF Places

LEMMA AddWord ==
  ASSUME word \in Words, NEW a \in Int, NEW b \in Int, NEW c \in Int,
         word.refs + a >= 0, word.acts + b >= 0, word.holds + c >= 0
  PROVE  /\ Add(a, b, c) \in Words /\ Add(a, b, c).refs = word.refs + a
         /\ Add(a, b, c).acts = word.acts + b /\ Add(a, b, c).holds = word.holds + c
         /\ Add(a, b, c).judging = word.judging
<1>1. Add(a, b, c) = [refs |-> word.refs + a, acts |-> word.acts + b, holds |-> word.holds + c,
                      judging |-> word.judging]
  BY DEF Add, Words
<1>2. word.refs + a \in Nat /\ word.acts + b \in Nat /\ word.holds + c \in Nat
      /\ word.judging \in BOOLEAN
  BY DEF Words
<1> QED BY ONLY <1>1, <1>2 DEF Words

LEMMA DeferCounted ==
  ASSUME Counted, NEW th \in Threads, Defer(th)
  PROVE  Counted'
<1>1. pc[th] = "defer" /\ Local(th) /\ TypeOK /\ GoOn(th, dead[th]) /\ deferred' = deferred + 1
  BY DEF Defer, Counted
<1>2. /\ pc' \in [Threads -> Places] /\ pass' \in [Threads -> Nat]
      /\ draining' \in [Threads -> BOOLEAN]
      /\ \A u \in Threads \ {th} : pc'[u] = pc[u] /\ pass'[u] = pass[u]
      /\ \/ pc'[th] = "drain" /\ dead[th] # {} /\ pass'[th] = pass[th]
         \/ pc'[th] = "judge" /\ dead[th] = {} /\ pass[th] > 0 /\ pass'[th] = pass[th] - 1
         \/ pc'[th] = "idle" /\ dead[th] = {} /\ pass[th] = 0 /\ pass'[th] = 0
  BY <1>1, GoneOn
<1>3. TypeOK'
  BY <1>1, <1>2 DEF Defer, TypeOK, programVars, releaseVars, judgeVars
<1>4. Elsewhere(th)
  BY <1>2 DEF Elsewhere, Defer, programVars, releaseVars, judgeVars
<1>5. ~held[th] /\ cls[th] = None
  BY <1>1 DEF Local, TypeOK
<1>6. Local(th)'
  BY <1>1, <1>2, <1>5 DEF Local, Defer, programVars, releaseVars, judgeVars
<1>7. th \in Holding /\ ~(th \in Judging) /\ ~(th \in Judging')
      /\ (th \in Holding' <=> pc'[th] = "judge")
  BY <1>1, <1>2, <1>5 DEF Holding, Judging, Defer, releaseVars
<1>8. word.refs \in Int /\ word.acts \in Int /\ word.holds \in Int /\ pass[th] \in Int
      /\ deferred \in Int /\ calls[th] \in Int
  BY <1>1 DEF TypeOK, Words
<1>9. freed' <=> word' = NoWord
  BY <1>7, SomebodyLeft DEF Defer
<1>10. word'.refs - word.refs = Bit(own' # "over") - Bit(own # "over") + calls'[th] - calls[th]
  BY <1>8 DEF Defer, programVars, Bit
<1>11. word'.holds - word.holds = deferred' - deferred + pass'[th] - pass[th]
                                    + Bit(th \in Holding') - Bit(th \in Holding)
  BY <1>1, <1>2, <1>7, <1>8 DEF Defer, Bit
<1>12. Bit(word'.judging) - Bit(word.judging) = Bit(th \in Judging') - Bit(th \in Judging)
  BY <1>7 DEF Bit, Defer
<1>13. word'.acts - word.acts = calls'[th] - calls[th]
  BY <1>8 DEF Defer, programVars
<1>14. word'.judging => /\ done' /\ (word.judging \/ word.acts = 0)
                        /\ calls'[th] > 0 => pc'[th] = "entering"
  BY <1>1 DEF Defer, programVars, Counted, FlagKeepsOut
<1>15. UNCHANGED <<rc, reg, has, cls, dead, made>> /\ DoneExact' /\ done' = done
  BY DEF Defer, programVars, releaseVars, Counted, DoneExact
<1> QED BY ONLY Counted, <1>3, <1>4, <1>6, <1>9, <1>10, <1>11, <1>12, <1>13, <1>14, <1>15, CountedSame

LEMMA UnholdCounted ==
  ASSUME Counted, NEW th \in Threads, Unhold(th)
  PROVE  Counted'
<1>1. pc[th] = "unhold" /\ Local(th) /\ TypeOK /\ GoOn(th, dead[th])
      /\ word' = Add(0, 0, -1) /\ freed' = (freed \/ word' = NoWord)
  BY DEF Unhold, Counted, Become
<1>2. /\ pc' \in [Threads -> Places] /\ pass' \in [Threads -> Nat]
      /\ draining' \in [Threads -> BOOLEAN]
      /\ \A u \in Threads \ {th} : pc'[u] = pc[u] /\ pass'[u] = pass[u]
      /\ \/ pc'[th] = "drain" /\ dead[th] # {} /\ pass'[th] = pass[th]
         \/ pc'[th] = "judge" /\ dead[th] = {} /\ pass[th] > 0 /\ pass'[th] = pass[th] - 1
         \/ pc'[th] = "idle" /\ dead[th] = {} /\ pass[th] = 0 /\ pass'[th] = 0
  BY <1>1, GoneOn
<1>5. ~held[th] /\ cls[th] = None
  BY <1>1 DEF Local, TypeOK
<1>7. th \in Holding /\ ~(th \in Judging) /\ ~(th \in Judging')
      /\ (th \in Holding' <=> pc'[th] = "judge")
  BY <1>1, <1>2, <1>5 DEF Holding, Judging, Unhold, releaseVars
<1>8. word.refs \in Nat /\ word.acts \in Nat /\ word.holds \in Nat /\ pass[th] \in Int
      /\ deferred \in Int /\ calls[th] \in Int /\ word.holds >= 1
  BY <1>1, <1>7, Bounds DEF TypeOK, Words, Counted
<1>16. word' \in Words /\ word'.refs = word.refs /\ word'.acts = word.acts
       /\ word'.holds = word.holds - 1 /\ word'.judging = word.judging
  <2>1. word.refs + 0 >= 0 /\ word.acts + 0 >= 0 /\ word.holds + (-1) >= 0 /\ word \in Words
    BY <1>1, <1>8 DEF TypeOK
  <2>2. /\ word' \in Words /\ word'.refs = word.refs + 0 /\ word'.acts = word.acts + 0
        /\ word'.holds = word.holds + (-1) /\ word'.judging = word.judging
    BY <1>1, <2>1, AddWord
  <2> QED BY <1>8, <2>2
<1>3. TypeOK'
  BY <1>1, <1>2, <1>16 DEF Unhold, TypeOK, programVars, releaseVars, judgeVars
<1>4. Elsewhere(th)
  BY <1>2 DEF Elsewhere, Unhold, programVars, releaseVars, judgeVars
<1>6. Local(th)'
  BY <1>1, <1>2, <1>5 DEF Local, Unhold, programVars, releaseVars, judgeVars
<1>9. freed' <=> word' = NoWord
  BY <1>1, <1>7, SomebodyLeft
<1>10. word'.refs - word.refs = Bit(own' # "over") - Bit(own # "over") + calls'[th] - calls[th]
  BY <1>8, <1>16 DEF Unhold, programVars, Bit
<1>11. word'.holds - word.holds = deferred' - deferred + pass'[th] - pass[th]
                                    + Bit(th \in Holding') - Bit(th \in Holding)
  BY <1>1, <1>2, <1>7, <1>8, <1>16 DEF Unhold, Bit
<1>12. Bit(word'.judging) - Bit(word.judging) = Bit(th \in Judging') - Bit(th \in Judging)
  BY <1>7, <1>16 DEF Bit
<1>13. word'.acts - word.acts = calls'[th] - calls[th]
  BY <1>8, <1>16 DEF Unhold, programVars
<1>14. word'.judging => /\ done' /\ (word.judging \/ word.acts = 0)
                        /\ calls'[th] > 0 => pc'[th] = "entering"
  BY <1>1, <1>16 DEF Unhold, programVars, Counted, FlagKeepsOut
<1>15. UNCHANGED <<rc, reg, has, cls, dead, made>> /\ DoneExact' /\ done' = done
  BY DEF Unhold, programVars, releaseVars, Counted, DoneExact
<1> QED BY ONLY Counted, <1>3, <1>4, <1>6, <1>9, <1>10, <1>11, <1>12, <1>13, <1>14, <1>15, CountedSame

LEMMA VerdictCounted ==
  ASSUME Counted, NEW th \in Threads, Verdict(th)
  PROVE  Counted'
<1> DEFINE s == WordUnchanged(th)
           g == Garbage(th)
<1>1. /\ pc[th] = "verdict" /\ Local(th) /\ TypeOK /\ word.judging
      /\ word' = [word EXCEPT !.judging = s /\ g]
      /\ pc' = [pc EXCEPT ![th] = IF ~s THEN "judge" ELSE IF g THEN "reap" ELSE "again"]
      /\ seen' = [seen EXCEPT ![th] = NoWord]
      /\ found' = [found EXCEPT ![th] = 0]
  BY Bounds DEF Verdict, Counted, Goto, Judging
<1>2. s \in BOOLEAN /\ g \in BOOLEAN
  BY DEF WordUnchanged, Garbage
<1> HIDE DEF s, g
<1>3. word' \in Words /\ word'.refs = word.refs /\ word'.acts = word.acts
      /\ word'.holds = word.holds /\ (word'.judging <=> s /\ g)
  BY <1>1, <1>2 DEF TypeOK, Words
<1>4. pc'[th] \in {"judge", "reap", "again"} /\ (pc'[th] = "reap" <=> s /\ g)
  BY <1>1, <1>2 DEF TypeOK
<1>5. TypeOK'
  <2>1. NoWord \in Words
    BY DEF NoWord, Words
  <2>2. pc' \in [Threads -> Places] /\ seen' \in [Threads -> Words] /\ found' \in [Threads -> Nat]
    BY <1>1, <1>2, <2>1 DEF TypeOK, Places
  <2> QED BY <1>1, <1>3, <2>2 DEF Verdict, TypeOK, programVars, releaseVars, drainVars
<1>6. Elsewhere(th)
  BY <1>1 DEF Elsewhere, Verdict, programVars, releaseVars, drainVars, TypeOK
<1>7. Local(th)'
  BY <1>1, <1>4 DEF Local, Verdict, programVars, releaseVars, drainVars, TypeOK
<1>8. th \in Holding /\ th \in Holding' /\ th \in Judging /\ (th \in Judging' <=> s /\ g)
  BY <1>1, <1>4 DEF Holding, Judging
<1>9. word.refs \in Int /\ word.acts \in Int /\ word.holds \in Nat /\ pass[th] \in Int
      /\ deferred \in Int /\ calls[th] \in Int /\ word.holds >= 1
  BY <1>1, <1>8, Bounds DEF TypeOK, Words, Counted
<1>10. freed' <=> word' = NoWord
  BY <1>3, <1>8, <1>9, SomebodyLeft DEF Verdict, NoWord
<1>11. word'.refs - word.refs = Bit(own' # "over") - Bit(own # "over") + calls'[th] - calls[th]
  BY <1>3, <1>9 DEF Verdict, programVars, Bit
<1>12. word'.holds - word.holds = deferred' - deferred + pass'[th] - pass[th]
                                    + Bit(th \in Holding') - Bit(th \in Holding)
  BY <1>3, <1>8, <1>9 DEF Verdict, drainVars, Bit
<1>13. Bit(word'.judging) - Bit(word.judging) = Bit(th \in Judging') - Bit(th \in Judging)
  BY <1>1, <1>3, <1>8 DEF Bit
<1>14. word'.acts - word.acts = calls'[th] - calls[th]
  BY <1>3, <1>9 DEF Verdict, programVars
<1>15. word'.judging => /\ done' /\ (word.judging \/ word.acts = 0)
                        /\ calls'[th] > 0 => pc'[th] = "entering"
  BY <1>1 DEF Verdict, programVars, Counted, FlagKeepsOut
<1>16. UNCHANGED <<rc, reg, has, cls, dead, made>> /\ DoneExact' /\ done' = done
  BY DEF Verdict, programVars, releaseVars, drainVars, Counted, DoneExact
<1> QED BY ONLY Counted, <1>5, <1>6, <1>7, <1>10, <1>11, <1>12, <1>13, <1>14, <1>15, <1>16, CountedSame

LEMMA JudgeDeferredCounted ==
  ASSUME Counted, NEW th \in Threads, JudgeDeferred(th)
  PROVE  Counted'
<1>1. /\ pc[th] = "idle" /\ deferred > 0 /\ Local(th) /\ TypeOK
      /\ deferred' = 0 /\ pass' = [pass EXCEPT ![th] = deferred - 1]
      /\ pc' = [pc EXCEPT ![th] = "judge"]
  BY DEF JudgeDeferred, Free, Goto, Counted
<1>2. deferred \in Nat /\ deferred - 1 \in Nat /\ pass[th] = 0
  BY <1>1 DEF TypeOK, Local
<1>3. pc'[th] = "judge" /\ pass'[th] = deferred - 1
  BY <1>1 DEF TypeOK
<1>4. TypeOK'
  <2>1. pc' \in [Threads -> Places] /\ pass' \in [Threads -> Nat]
    BY <1>1, <1>2 DEF TypeOK, Places
  <2> QED BY <1>1, <2>1 DEF JudgeDeferred, TypeOK, programVars, releaseVars, judgeVars
<1>5. Elsewhere(th)
  BY <1>1 DEF Elsewhere, JudgeDeferred, programVars, releaseVars, judgeVars, TypeOK
<1>6. ~held[th] /\ cls[th] = None
  BY <1>1 DEF Local, TypeOK
<1>7. Local(th)'
  BY <1>1, <1>3, <1>6 DEF Local, JudgeDeferred, programVars, releaseVars, judgeVars
<1>8. ~(th \in Holding) /\ ~(th \in Judging) /\ ~(th \in Judging') /\ th \in Holding'
  BY <1>1, <1>3, <1>6 DEF Holding, Judging
<1>9. word.refs \in Int /\ word.acts \in Int /\ word.holds \in Int /\ calls[th] \in Int
  BY <1>1 DEF TypeOK, Words
<1>10. freed' <=> word' = NoWord
  BY <1>1, SomebodyLeft DEF JudgeDeferred
<1>11. word'.refs - word.refs = Bit(own' # "over") - Bit(own # "over") + calls'[th] - calls[th]
  BY <1>9 DEF JudgeDeferred, programVars, Bit
<1>12. word'.holds - word.holds = deferred' - deferred + pass'[th] - pass[th]
                                    + Bit(th \in Holding') - Bit(th \in Holding)
  BY <1>1, <1>2, <1>3, <1>8, <1>9 DEF JudgeDeferred, Bit
<1>13. Bit(word'.judging) - Bit(word.judging) = Bit(th \in Judging') - Bit(th \in Judging)
  BY <1>8 DEF Bit, JudgeDeferred
<1>14. word'.acts - word.acts = calls'[th] - calls[th]
  BY <1>9 DEF JudgeDeferred, programVars
<1>15. word'.judging => /\ done' /\ (word.judging \/ word.acts = 0)
                        /\ calls'[th] > 0 => pc'[th] = "entering"
  BY <1>1 DEF JudgeDeferred, programVars, Counted, FlagKeepsOut
<1>16. UNCHANGED <<rc, reg, has, cls, dead, made>> /\ DoneExact' /\ done' = done
  BY DEF JudgeDeferred, programVars, releaseVars, Counted, DoneExact
<1> QED BY ONLY Counted, <1>4, <1>5, <1>7, <1>10, <1>11, <1>12, <1>13, <1>14, <1>15, <1>16, CountedSame

LEMMA ReturnCounted ==
  ASSUME Counted, Return
  PROVE  Counted'
<1> DEFINE th == Owner
<1>0. th \in Threads
  BY ThreadAssumption
<1> HIDE DEF th
<1>1. /\ pc[th] = "idle" /\ own = "running" /\ own' = "returned" /\ done' = TRUE /\ Local(th) /\ TypeOK
      /\ ~word.judging
  BY <1>0 DEF Return, Free, Counted, FlagKeepsOut, DoneExact, th
<1>2. TypeOK' /\ Elsewhere(th)
  BY <1>1 DEF Return, TypeOK, Elsewhere, releaseVars, drainVars, judgeVars
<1>3. Local(th)'
  BY <1>1 DEF Local, Return, releaseVars, drainVars, judgeVars
<1>4. Holding' = Holding /\ Judging' = Judging
  BY DEF Holding, Judging, Return, releaseVars
<1>5. word \in Words /\ deferred \in Nat /\ pass[th] \in Nat /\ calls[th] \in Nat
  BY <1>0, <1>1 DEF TypeOK
<1>6. /\ word'.refs - word.refs = Bit(own' # "over") - Bit(own # "over") + calls'[th] - calls[th]
      /\ word'.acts - word.acts = calls'[th] - calls[th]
  BY <1>1, <1>5 DEF Return, Bit, Words
<1>7. /\ word'.holds - word.holds = deferred' - deferred + pass'[th] - pass[th]
                                    + Bit(th \in Holding') - Bit(th \in Holding)
      /\ Bit(word'.judging) - Bit(word.judging) = Bit(th \in Judging') - Bit(th \in Judging)
  BY <1>4, <1>5 DEF Return, Bit, Words, drainVars
<1>8. /\ freed' <=> word' = NoWord
      /\ DoneExact' /\ ~word'.judging /\ done'
      /\ UNCHANGED <<rc, reg, has, cls, dead, made>>
  BY <1>1 DEF Return, Counted, FreedExact, DoneExact, releaseVars, drainVars
<1> QED BY ONLY Counted, <1>0, <1>2, <1>3, <1>6, <1>7, <1>8, CountedSame

LEMMA CallCounted ==
  ASSUME Counted, NEW th \in Threads, NEW c, Call(th, c)
  PROVE  Counted'
<1>1. /\ pc[th] = "idle" /\ c \in has[th] /\ Local(th) /\ TypeOK /\ word' = Add(1, 1, 0)
      /\ calls' = [calls EXCEPT ![th] = @ + 1]
      /\ \/ word.judging /\ pc' = [pc EXCEPT ![th] = "entering"]
         \/ ~word.judging /\ pc' = pc
  BY DEF Call, Free, Goto, Counted, MustWait
<1>2. word.refs \in Nat /\ word.acts \in Nat /\ word.holds \in Nat /\ calls[th] \in Nat
      /\ word \in Words /\ pass[th] \in Nat /\ deferred \in Nat
  BY <1>1 DEF TypeOK, Words
<1>3. word' \in Words /\ word'.refs = word.refs + 1 /\ word'.acts = word.acts + 1
      /\ word'.holds = word.holds /\ word'.judging = word.judging
  <2>1. word.refs + 1 >= 0 /\ word.acts + 1 >= 0 /\ word.holds + 0 >= 0
    BY <1>2
  <2>2. /\ word' \in Words /\ word'.refs = word.refs + 1 /\ word'.acts = word.acts + 1
        /\ word'.holds = word.holds + 0 /\ word'.judging = word.judging
    BY <1>1, <1>2, <2>1, AddWord
  <2> QED BY <1>2, <2>2
<1>4. pc' \in [Threads -> Places] /\ calls' \in [Threads -> Nat] /\ calls'[th] = calls[th] + 1
      /\ (pc'[th] = IF word.judging THEN "entering" ELSE "idle")
  BY <1>1 DEF TypeOK, Places
<1>5. TypeOK'
  BY <1>1, <1>3, <1>4 DEF Call, TypeOK, releaseVars, drainVars, judgeVars
<1>6. Elsewhere(th)
  BY <1>1 DEF Elsewhere, Call, releaseVars, drainVars, judgeVars, TypeOK
<1>7. Local(th)'
  BY <1>1, <1>2, <1>4 DEF Local, Call, releaseVars, drainVars, judgeVars
<1>8. (th \in Holding <=> held[th]) /\ (th \in Holding' <=> held[th]) /\ ~(th \in Judging)
      /\ ~(th \in Judging')
  BY <1>1, <1>4 DEF Holding, Judging, Call, releaseVars
<1>9. freed' <=> word' = NoWord
  BY <1>1, <1>2, <1>3, SomebodyLeft DEF Call, NoWord
<1>10. word'.refs - word.refs = Bit(own' # "over") - Bit(own # "over") + calls'[th] - calls[th]
  BY <1>2, <1>3, <1>4 DEF Call, Bit
<1>11. word'.holds - word.holds = deferred' - deferred + pass'[th] - pass[th]
                                    + Bit(th \in Holding') - Bit(th \in Holding)
  BY <1>2, <1>3, <1>8 DEF Call, Bit, drainVars
<1>12. Bit(word'.judging) - Bit(word.judging) = Bit(th \in Judging') - Bit(th \in Judging)
  BY <1>3, <1>8 DEF Bit
<1>13. word'.acts - word.acts = calls'[th] - calls[th]
  BY <1>2, <1>3, <1>4
<1>14. word'.judging => /\ done' /\ (word.judging \/ word.acts = 0)
                        /\ calls'[th] > 0 => pc'[th] = "entering"
  BY <1>3, <1>4 DEF Call, Counted, FlagKeepsOut
<1>15. UNCHANGED <<rc, reg, has, cls, dead, made>> /\ DoneExact' /\ done' = done
  BY DEF Call, releaseVars, drainVars, Counted, DoneExact
<1> QED BY ONLY Counted, <1>5, <1>6, <1>7, <1>9, <1>10, <1>11, <1>12, <1>13, <1>14, <1>15, CountedSame

LEMMA ExitCounted ==
  ASSUME Counted, NEW th \in Threads, Exit(th)
  PROVE  Counted'
<1>1. /\ pc[th] = "idle" /\ calls[th] > 0 /\ Local(th) /\ TypeOK /\ word' = Add(-1, -1, 0)
      /\ calls' = [calls EXCEPT ![th] = @ - 1] /\ freed' = (freed \/ word' = NoWord)
  BY DEF Exit, Free, Become, Counted
<1>2. word.refs \in Nat /\ word.acts \in Nat /\ word.holds \in Nat /\ calls[th] \in Nat
      /\ word \in Words /\ pass[th] \in Nat /\ deferred \in Nat /\ word.refs >= 1 /\ word.acts >= 1
  BY <1>1, Bounds DEF TypeOK, Words, Counted
<1>3. word' \in Words /\ word'.refs = word.refs - 1 /\ word'.acts = word.acts - 1
      /\ word'.holds = word.holds /\ word'.judging = word.judging
  <2>1. word.refs + (-1) >= 0 /\ word.acts + (-1) >= 0 /\ word.holds + 0 >= 0
    BY <1>2
  <2>2. /\ word' \in Words /\ word'.refs = word.refs + (-1) /\ word'.acts = word.acts + (-1)
        /\ word'.holds = word.holds + 0 /\ word'.judging = word.judging
    BY <1>1, <1>2, <2>1, AddWord
  <2> QED BY <1>2, <2>2
<1>4. calls' \in [Threads -> Nat] /\ calls'[th] = calls[th] - 1
  BY <1>1 DEF TypeOK
<1>5. TypeOK'
  BY <1>1, <1>3, <1>4 DEF Exit, TypeOK, releaseVars, drainVars, judgeVars
<1>6. Elsewhere(th)
  BY <1>1 DEF Elsewhere, Exit, releaseVars, drainVars, judgeVars, TypeOK
<1>7. Local(th)'
  BY <1>1, <1>2, <1>4 DEF Local, Exit, releaseVars, drainVars, judgeVars
<1>8. Holding' = Holding /\ Judging' = Judging
  BY DEF Holding, Judging, Exit, releaseVars
<1>9. freed' <=> word' = NoWord
  BY <1>1, SomebodyLeft
<1>10. word'.refs - word.refs = Bit(own' # "over") - Bit(own # "over") + calls'[th] - calls[th]
  BY <1>2, <1>3, <1>4 DEF Exit, Bit
<1>11. word'.holds - word.holds = deferred' - deferred + pass'[th] - pass[th]
                                    + Bit(th \in Holding') - Bit(th \in Holding)
  BY <1>2, <1>3, <1>8 DEF Exit, Bit, drainVars
<1>12. Bit(word'.judging) - Bit(word.judging) = Bit(th \in Judging') - Bit(th \in Judging)
  BY <1>3, <1>8 DEF Bit
<1>13. word'.acts - word.acts = calls'[th] - calls[th]
  BY <1>2, <1>3, <1>4
<1>14. word'.judging => /\ done' /\ (word.judging \/ word.acts = 0)
                        /\ calls'[th] > 0 => pc'[th] = "entering"
  BY <1>1, <1>3, <1>4 DEF Exit, Counted, FlagKeepsOut
<1>15. UNCHANGED <<rc, reg, has, cls, dead, made>> /\ DoneExact' /\ done' = done
  BY DEF Exit, releaseVars, drainVars, Counted, DoneExact
<1> QED BY ONLY Counted, <1>5, <1>6, <1>7, <1>9, <1>10, <1>11, <1>12, <1>13, <1>14, <1>15, CountedSame

-----------------------------------------------------------------------------
(* Steps that pass closures on. *)
LEMMA LiveGains ==
  ASSUME Counted, NEW c \in Closures, rc[c] > 0, rc' = [rc EXCEPT ![c] = @ + 1],
         UNCHANGED <<dead, made>>
  PROVE  Live' = Live /\ DeadOnce' /\ MadeFirst'
<1>1. rc \in [Closures -> Nat] /\ dead \in [Threads -> SUBSET Closures]
  BY DEF Counted, TypeOK
<1>2. \A x \in Closures : /\ rc'[x] > 0 <=> rc[x] > 0
                          /\ rc'[x] = 0 <=> rc[x] = 0
  BY <1>1
<1>3. Live' = Live
  BY <1>2 DEF Live
<1>4. DeadOnce' /\ MadeFirst'
  BY <1>1, <1>2 DEF Counted, DeadOnce, MadeFirst
<1> QED BY <1>3, <1>4

LEMMA RcSameCounted ==
  ASSUME Counted, TypeOK', NEW th \in Threads, Live' = Live, RcExact', DeadOnce', MadeFirst',
         UNCHANGED <<word, done, freed, deferred, own, calls, pc, releaseVars, drainVars, judgeVars>>
  PROVE  Counted'
<1>1. Elsewhere(th) /\ Local(th)'
  BY DEF Elsewhere, releaseVars, drainVars, judgeVars, Local, Counted
<1>2. Holding' = Holding /\ Judging' = Judging
  BY DEF Holding, Judging, releaseVars
<1>3. word \in Words /\ deferred \in Nat /\ pass[th] \in Nat /\ calls[th] \in Nat
  BY DEF Counted, TypeOK
<1>4. Cardinality(Live) \in Nat
  BY Bounds DEF Counted
<1>5. /\ word'.refs - word.refs = Bit(own' # "over") - Bit(own # "over")
                                  + Cardinality(Live') - Cardinality(Live) + calls'[th] - calls[th]
      /\ word'.acts - word.acts = calls'[th] - calls[th]
  BY <1>3, <1>4 DEF Bit, Words
<1>6. /\ word'.holds - word.holds = deferred' - deferred + pass'[th] - pass[th]
                                    + Bit(th \in Holding') - Bit(th \in Holding)
      /\ Bit(word'.judging) - Bit(word.judging) = Bit(th \in Judging') - Bit(th \in Judging)
  BY <1>2, <1>3 DEF Bit, Words, drainVars
<1>7. /\ freed' <=> word' = NoWord
      /\ DoneExact' /\ done' = done
      /\ word'.judging => /\ done' /\ (word.judging \/ word.acts = 0)
                          /\ calls'[th] > 0 => pc'[th] = "entering"
  BY DEF Counted, FreedExact, DoneExact, FlagKeepsOut
<1> QED BY <1>1, <1>5, <1>6, <1>7, CountedFrom

LEMMA GiveCounted ==
  ASSUME Counted, NEW th \in Threads, NEW u \in Threads, NEW c \in Closures, Give(th, u, c)
  PROVE  Counted'
<1>1. /\ c \in has[th] /\ c \notin has[u] /\ TypeOK /\ RcExact
      /\ rc' = [rc EXCEPT ![c] = @ + 1] /\ has' = [has EXCEPT ![u] = @ \cup {c}]
  BY DEF Give, Counted
<1>2. rc[c] > 0
  BY <1>1, HeldCounts
<1>3. Live' = Live /\ DeadOnce' /\ MadeFirst'
  BY <1>1, <1>2, LiveGains DEF Give, drainVars
<1>4. RcExact'
  BY <1>1, OneMoreHas DEF TypeOK, Give, frameVars, releaseVars
<1>5. rc' \in [Closures -> Nat] /\ has' \in [Threads -> SUBSET Closures]
  BY <1>1 DEF TypeOK
<1>6. TypeOK'
  BY <1>1, <1>5 DEF TypeOK, Give, frameVars, releaseVars, drainVars, judgeVars
<1> QED BY <1>3, <1>4, <1>6, RcSameCounted DEF Give, frameVars

LEMMA LoadCounted ==
  ASSUME Counted, NEW th \in Threads, NEW i \in Slots, Load(th, i)
  PROVE  Counted'
<1> DEFINE c == reg[i]
<1>1. /\ c \in Closures /\ c \notin has[th] /\ TypeOK /\ RcExact
      /\ rc' = [rc EXCEPT ![c] = @ + 1] /\ has' = [has EXCEPT ![th] = @ \cup {c}]
  BY DEF Load, Counted
<1>2. rc[c] > 0
  BY <1>1, HeldCounts
<1> HIDE DEF c
<1>3. Live' = Live /\ DeadOnce' /\ MadeFirst'
  BY <1>1, <1>2, LiveGains DEF Load, drainVars
<1>4. RcExact'
  BY <1>1, OneMoreHas DEF TypeOK, Load, frameVars, releaseVars
<1>5. rc' \in [Closures -> Nat] /\ has' \in [Threads -> SUBSET Closures]
  BY <1>1 DEF TypeOK
<1>6. TypeOK'
  BY <1>1, <1>5 DEF TypeOK, Load, frameVars, releaseVars, drainVars, judgeVars
<1> QED BY <1>3, <1>4, <1>6, RcSameCounted DEF Load, frameVars

LEMMA MakeCounted ==
  ASSUME Counted, NEW c \in Closures, Make(c)
  PROVE  Counted'
<1> DEFINE th == Owner
<1>0. th \in Threads
  BY ThreadAssumption
<1>1. /\ pc[th] = "idle" /\ own = "running" /\ c \notin made /\ TypeOK /\ RcExact
      /\ made' = made \cup {c} /\ word' = Add(1, 0, 0)
      /\ rc' = [rc EXCEPT ![c] = 1] /\ has' = [has EXCEPT ![th] = @ \cup {c}]
      /\ UNCHANGED <<done, freed, reg, own, calls, pc, releaseVars, drainVars, judgeVars, deferred>>
  BY DEF Make, Counted, Free
<1> HIDE DEF th
<1>2. rc[c] = 0
  BY <1>1 DEF Counted, MadeFirst
<1>3. c \notin Live
  BY <1>1, <1>2 DEF Counted, DeadOnce, Live
<1>4. Live' = Live \cup {c}
  <2>1. \A x \in Closures : rc'[x] > 0 <=> rc[x] > 0 \/ x = c
    BY <1>1 DEF TypeOK
  <2>2. dead' = dead
    BY <1>1 DEF drainVars
  <2> QED BY <2>1, <2>2 DEF Live
<1>5. DeadOnce' /\ MadeFirst'
  BY <1>1 DEF Counted, DeadOnce, MadeFirst, TypeOK, drainVars
<1>6. RcExact'
  <2>1. c \notin has[th]
    BY <1>0, <1>1, <1>2, HeldCounts
  <2>2. rc' = [rc EXCEPT ![c] = @ + 1]
    BY <1>1, <1>2 DEF TypeOK
  <2> QED BY <1>0, <1>1, <2>1, <2>2, OneMoreHas DEF TypeOK, releaseVars
<1>7. word.refs \in Nat /\ word.acts \in Nat /\ word.holds \in Nat /\ word \in Words
  BY <1>1 DEF TypeOK, Words
<1>8. word' \in Words /\ word'.refs = word.refs + 1 /\ word'.acts = word.acts
      /\ word'.holds = word.holds /\ word'.judging = word.judging
  <2>1. word.refs + 1 >= 0 /\ word.acts + 0 >= 0 /\ word.holds + 0 >= 0
    BY <1>7
  <2>2. /\ word' \in Words /\ word'.refs = word.refs + 1 /\ word'.acts = word.acts + 0
        /\ word'.holds = word.holds + 0 /\ word'.judging = word.judging
    BY <1>1, <1>7, <2>1, AddWord
  <2> QED BY <1>7, <2>2
<1>9. TypeOK'
  <2>1. rc' \in [Closures -> Nat] /\ has' \in [Threads -> SUBSET Closures] /\ made' \subseteq Closures
    BY <1>1 DEF TypeOK
  <2> QED BY <1>1, <1>8, <2>1 DEF TypeOK, Make, releaseVars, drainVars, judgeVars
<1>10. Elsewhere(th) /\ Local(th)'
  BY <1>0, <1>1 DEF Elsewhere, releaseVars, drainVars, judgeVars, Local, Counted
<1>11. Holding' = Holding /\ Judging' = Judging
  BY <1>1 DEF Holding, Judging, releaseVars
<1>12. deferred \in Nat /\ pass[th] \in Nat /\ calls[th] \in Nat
  BY <1>0, <1>1 DEF TypeOK
<1>13. Cardinality(Live) \in Nat /\ Cardinality(Live') = Cardinality(Live) + 1
  BY <1>1, <1>3, <1>4, LiveFinite, FS_AddElement, FS_CardinalityType
<1>14. /\ word'.refs - word.refs = Bit(own' # "over") - Bit(own # "over")
                                  + Cardinality(Live') - Cardinality(Live) + calls'[th] - calls[th]
       /\ word'.acts - word.acts = calls'[th] - calls[th]
  BY <1>1, <1>7, <1>8, <1>12, <1>13 DEF Bit
<1>15. /\ word'.holds - word.holds = deferred' - deferred + pass'[th] - pass[th]
                                    + Bit(th \in Holding') - Bit(th \in Holding)
       /\ Bit(word'.judging) - Bit(word.judging) = Bit(th \in Judging') - Bit(th \in Judging)
  BY <1>1, <1>7, <1>8, <1>11, <1>12 DEF Bit, drainVars
<1>16. freed' <=> word' = NoWord
  BY <1>0, <1>1, <1>7, <1>8, SomebodyLeft DEF NoWord
<1>17. /\ DoneExact' /\ done' = done
       /\ word'.judging => /\ done' /\ (word.judging \/ word.acts = 0)
                           /\ calls'[th] > 0 => pc'[th] = "entering"
  BY <1>0, <1>1, <1>8 DEF Counted, DoneExact, FlagKeepsOut
<1> QED BY ONLY Counted, <1>0, <1>5, <1>6, <1>9, <1>10, <1>14, <1>15, <1>16, <1>17, CountedFrom

(* A thread begins to drop a closure: with a hold, once the function has    *)
(* returned.                                                                *)
LEMMA ReleaseStarted ==
  ASSUME Counted, NEW th \in Threads, pc[th] = "idle", NEW c \in Closures, StartRelease(th, c)
  PROVE  /\ word' \in Words /\ word'.refs = word.refs /\ word'.acts = word.acts
         /\ word'.holds = word.holds + Bit(done) /\ word'.judging = word.judging
         /\ pc' = [pc EXCEPT ![th] = "drop"] /\ cls' = [cls EXCEPT ![th] = c]
         /\ held' = [held EXCEPT ![th] = done]
         /\ pc' \in [Threads -> Places] /\ cls' \in [Threads -> Closures \cup {None}]
         /\ held' \in [Threads -> BOOLEAN]
         /\ cls[th] = None /\ ~held[th]
<1>1. TypeOK /\ Local(th)
  BY DEF Counted
<1>2. word.refs \in Nat /\ word.acts \in Nat /\ word.holds \in Nat /\ word \in Words /\ done \in BOOLEAN
  BY <1>1 DEF TypeOK, Words
<1>3. Bit(done) \in Nat /\ word' = Add(0, 0, Bit(done))
  BY DEF StartRelease, Bit
<1>4. word.refs + 0 >= 0 /\ word.acts + 0 >= 0 /\ word.holds + Bit(done) >= 0
  BY <1>2, <1>3
<1>5. /\ word' \in Words /\ word'.refs = word.refs + 0 /\ word'.acts = word.acts + 0
      /\ word'.holds = word.holds + Bit(done) /\ word'.judging = word.judging
  BY <1>2, <1>3, <1>4, AddWord
<1>6. /\ pc' = [pc EXCEPT ![th] = "drop"] /\ cls' = [cls EXCEPT ![th] = c]
      /\ held' = [held EXCEPT ![th] = done]
  BY DEF StartRelease, Goto
<1>7. /\ pc' \in [Threads -> Places] /\ cls' \in [Threads -> Closures \cup {None}]
      /\ held' \in [Threads -> BOOLEAN]
  BY <1>1, <1>2, <1>6 DEF TypeOK, Places
<1>8. cls[th] = None /\ ~held[th]
  BY <1>1 DEF Local, TypeOK
<1> QED BY <1>2, <1>5, <1>6, <1>7, <1>8

LEMMA ReleaseStartCounted ==
  ASSUME Counted, NEW th \in Threads, pc[th] = "idle", NEW c \in Closures, StartRelease(th, c),
         TypeOK', Live' = Live, RcExact', DeadOnce', MadeFirst', word # NoWord,
         UNCHANGED <<done, freed, deferred, own, calls, drainVars, judgeVars>>
  PROVE  Counted'
<1>1. /\ word' \in Words /\ word'.refs = word.refs /\ word'.acts = word.acts
      /\ word'.holds = word.holds + Bit(done) /\ word'.judging = word.judging
      /\ pc' = [pc EXCEPT ![th] = "drop"] /\ cls' = [cls EXCEPT ![th] = c]
      /\ held' = [held EXCEPT ![th] = done]
      /\ cls[th] = None /\ ~held[th]
  BY ReleaseStarted
<1>2. TypeOK /\ Local(th)
  BY DEF Counted
<1>3. pc'[th] = "drop" /\ cls'[th] = c /\ held'[th] = done
  BY <1>1, <1>2 DEF TypeOK
<1>4. Elsewhere(th)
  BY <1>1, <1>2 DEF Elsewhere, drainVars, judgeVars, TypeOK
<1>5. Local(th)'
  BY <1>2, <1>3, NoneAssumption DEF Local, drainVars, judgeVars
<1>6. ~(th \in Holding) /\ (th \in Holding' <=> done) /\ ~(th \in Judging) /\ ~(th \in Judging')
  BY <1>1, <1>3 DEF Holding, Judging
<1>7. word.refs \in Nat /\ word.acts \in Nat /\ word.holds \in Nat /\ word \in Words
      /\ deferred \in Nat /\ pass[th] \in Nat /\ calls[th] \in Nat
  BY <1>2 DEF TypeOK, Words
<1>8. Cardinality(Live) \in Nat
  BY Bounds DEF Counted
<1>9. /\ word'.refs - word.refs = Bit(own' # "over") - Bit(own # "over")
                                  + Cardinality(Live') - Cardinality(Live) + calls'[th] - calls[th]
      /\ word'.acts - word.acts = calls'[th] - calls[th]
  BY <1>1, <1>7, <1>8 DEF Bit
<1>10. Bit(th \in Holding) = 0 /\ Bit(th \in Holding') = Bit(done) /\ Bit(done) \in Nat
  BY <1>6 DEF Bit
<1>11. word'.holds - word.holds = deferred' - deferred + pass'[th] - pass[th]
                                    + Bit(th \in Holding') - Bit(th \in Holding)
  BY <1>1, <1>7, <1>10 DEF drainVars
<1>12. Bit(word'.judging) - Bit(word.judging) = Bit(th \in Judging') - Bit(th \in Judging)
  BY <1>1, <1>6 DEF Bit
<1>13. freed' <=> word' = NoWord
  <2>1. ~freed
    BY DEF Counted, FreedExact
  <2>2. CASE word' = NoWord
    <3>3. word'.refs = 0 /\ word'.acts = 0 /\ word'.holds = 0 /\ word'.judging = FALSE
      BY <2>2 DEF NoWord
    <3>4. word.holds + Bit(done) = 0
      BY <1>1, <3>3
    <3>5. word.holds = 0
      BY ONLY <1>7, <1>10, <3>4
    <3>1. word.refs = 0 /\ word.acts = 0 /\ word.holds = 0 /\ word.judging = FALSE
      BY <1>1, <3>3, <3>5
    <3>2. word = NoWord
      BY <1>7, <3>1 DEF NoWord, Words
    <3> QED BY <3>2
  <2> QED BY <2>1, <2>2
<1>14. /\ DoneExact' /\ done' = done
       /\ word'.judging => /\ done' /\ (word.judging \/ word.acts = 0)
                           /\ calls'[th] > 0 => pc'[th] = "entering"
  BY <1>1 DEF Counted, DoneExact, FlagKeepsOut
<1> QED BY ONLY Counted, TypeOK', th \in Threads, RcExact', DeadOnce', MadeFirst',
             <1>4, <1>5, <1>9, <1>11, <1>12, <1>13, <1>14, CountedFrom

LEMMA ReleaseCounted ==
  ASSUME Counted, NEW th \in Threads, NEW c \in Closures, Release(th, c)
  PROVE  Counted'
<1>1. /\ pc[th] = "idle" /\ c \in has[th] /\ TypeOK /\ RcExact /\ StartRelease(th, c)
      /\ has' = [has EXCEPT ![th] = @ \ {c}]
  BY DEF Release, Counted
<1>2. /\ word' \in Words
      /\ pc' \in [Threads -> Places] /\ cls' \in [Threads -> Closures \cup {None}]
      /\ held' \in [Threads -> BOOLEAN]
      /\ cls[th] = None /\ cls' = [cls EXCEPT ![th] = c]
  BY <1>1, ReleaseStarted
<1>3. TypeOK'
  <2>1. has' \in [Threads -> SUBSET Closures]
    BY <1>1 DEF TypeOK
  <2> QED BY <1>1, <1>2, <2>1 DEF Release, TypeOK, drainVars, judgeVars
<1>4. RcExact'
  BY <1>1, <1>2, HasBecomesDrop DEF TypeOK, Release
<1>5. Live' = Live /\ DeadOnce' /\ MadeFirst'
  BY DEF Release, drainVars, Counted, Live, DeadOnce, MadeFirst
<1>6. word # NoWord
  BY <1>1, SomebodyLeft
<1> QED BY <1>1, <1>3, <1>4, <1>5, <1>6, ReleaseStartCounted DEF Release

LEMMA StoreCounted ==
  ASSUME Counted, NEW th \in Threads, NEW i \in Slots, NEW c \in Closures \cup {None},
         Store(th, i, c)
  PROVE  Counted'
<1>1. /\ pc[th] = "idle" /\ c \in has[th] \cup {None} /\ c # reg[i] /\ TypeOK /\ RcExact
      /\ reg' = [reg EXCEPT ![i] = c] /\ Local(th)
      /\ rc' = [x \in Closures |-> IF x = c THEN rc[x] + 1 ELSE rc[x]]
      /\ UNCHANGED <<done, freed, deferred, made, own, has, calls, drainVars, judgeVars>>
      /\ (calls[th] > 0 \/ own = "running")
  BY DEF Store, Counted, Inside, Free, programVars
<1>2. cls[th] = None
  BY <1>1 DEF Local
<1>3. c # None => rc[c] > 0
  BY <1>1, HeldCounts
<1>4. rc \in [Closures -> Nat] /\ rc' \in [Closures -> Nat]
      /\ \A x \in Closures : (rc'[x] > 0 <=> rc[x] > 0) /\ (rc'[x] = 0 <=> rc[x] = 0)
  <2>1. rc \in [Closures -> Nat]
    BY <1>1 DEF TypeOK
  <2>2. \A x \in Closures : rc[x] \in Nat /\ rc'[x] = IF x = c THEN rc[x] + 1 ELSE rc[x]
    BY <1>1, <2>1
  <2>3. \A x \in Closures : (x = c => rc[x] > 0)
    BY <1>3, NoneAssumption
  <2>4. \A x \in Closures : (rc'[x] > 0 <=> rc[x] > 0) /\ (rc'[x] = 0 <=> rc[x] = 0)
    BY ONLY <2>2, <2>3
  <2>5. rc' \in [Closures -> Nat]
    BY <1>1, <2>2
  <2> QED BY <2>1, <2>4, <2>5
<1>5. Live' = Live /\ DeadOnce' /\ MadeFirst'
  <2>1. dead' = dead /\ made' = made /\ dead \in [Threads -> SUBSET Closures]
    BY <1>1 DEF drainVars, TypeOK
  <2> QED BY <1>4, <2>1 DEF Counted, Live, DeadOnce, MadeFirst
<1>6. reg' \in [Slots -> Closures \cup {None}]
  BY <1>1 DEF TypeOK
<1>7. CASE reg[i] = None /\ UNCHANGED <<word, pc, releaseVars>>
  <2>1. cls' = [cls EXCEPT ![th] = reg[i]]
    BY <1>2, <1>1, <1>7 DEF releaseVars, TypeOK
  <2>2. RcExact'
    BY <1>1, <1>2, <2>1, RegChanges DEF TypeOK
  <2>3. TypeOK'
    BY <1>1, <1>4, <1>6, <1>7 DEF Store, TypeOK, releaseVars, drainVars, judgeVars
  <2> QED BY <1>1, <1>5, <1>7, <2>2, <2>3, RcSameCounted
<1>8. CASE reg[i] # None /\ StartRelease(th, reg[i])
  <2>1. reg[i] \in Closures
    BY <1>1, <1>8 DEF TypeOK
  <2>2. /\ word' \in Words
        /\ pc' \in [Threads -> Places] /\ cls' \in [Threads -> Closures \cup {None}]
        /\ held' \in [Threads -> BOOLEAN]
        /\ cls' = [cls EXCEPT ![th] = reg[i]]
    BY <1>1, <1>8, <2>1, ReleaseStarted
  <2>3. TypeOK'
    BY <1>1, <1>4, <1>6, <2>2 DEF Store, TypeOK, drainVars, judgeVars
  <2>4. RcExact'
    BY <1>1, <1>2, <2>2, RegChanges DEF TypeOK
  <2>5. word # NoWord
    BY <1>1, SomebodyLeft
  <2> QED BY <1>1, <1>5, <1>8, <2>1, <2>3, <2>4, <2>5, ReleaseStartCounted
<1> QED BY <1>7, <1>8 DEF Store

-----------------------------------------------------------------------------
(* Steps that let references to the frame go. *)
LEMMA FrameReleased ==
  ASSUME TypeOK, word.refs >= 1, NEW th \in Threads, NEW corpses, NEW nested \in BOOLEAN,
         ReleaseFrame(th, corpses, nested)
  PROVE  /\ word' \in Words /\ word'.refs = word.refs - 1 /\ word'.acts = word.acts
         /\ word'.judging = word.judging /\ freed' = (freed \/ word' = NoWord)
         /\ word'.holds - word.holds = pass'[th] - pass[th] + Bit(pc'[th] = "judge")
         /\ pc' \in [Threads -> Places] /\ pass' \in [Threads -> Nat]
         /\ draining' \in [Threads -> BOOLEAN]
         /\ \A u \in Threads \ {th} : pc'[u] = pc[u] /\ pass'[u] = pass[u]
         /\ pc'[th] \in {"judge", "drain", "idle"}
         /\ pc'[th] = "idle" => corpses = {} /\ pass'[th] = 0
         /\ pc'[th] # "judge" => word.refs = 1
<1>1. word.refs \in Nat /\ word.acts \in Nat /\ word.holds \in Nat /\ word \in Words /\ pass[th] \in Nat
  BY DEF TypeOK, Words
<1>2. freed' = (freed \/ word' = NoWord)
  BY DEF ReleaseFrame, Become
<1>3. CASE word.refs > 1
  <2>1. /\ word' = Add(-1, 0, 1) /\ pc' = [pc EXCEPT ![th] = "judge"]
        /\ draining' = [draining EXCEPT ![th] = nested] /\ pass' = pass
    BY <1>3 DEF ReleaseFrame, Become, GivenUp, Goto
  <2>2. word.refs + (-1) >= 0 /\ word.acts + 0 >= 0 /\ word.holds + 1 >= 0
    BY <1>1, <1>3
  <2>3. /\ word' \in Words /\ word'.refs = word.refs + (-1) /\ word'.acts = word.acts + 0
        /\ word'.holds = word.holds + 1 /\ word'.judging = word.judging
    BY <1>1, <2>1, <2>2, AddWord
  <2>4. /\ pc' \in [Threads -> Places] /\ pc'[th] = "judge"
        /\ draining' \in [Threads -> BOOLEAN] /\ \A u \in Threads \ {th} : pc'[u] = pc[u]
    BY <2>1 DEF TypeOK, Places
  <2>5. word'.refs = word.refs - 1 /\ word'.acts = word.acts
    BY <1>1, <2>3
  <2>6. word'.holds - word.holds = pass'[th] - pass[th] + Bit(pc'[th] = "judge")
    BY <1>1, <2>1, <2>3, <2>4 DEF Bit
  <2> QED BY <1>2, <2>1, <2>3, <2>4, <2>5, <2>6 DEF TypeOK
<1>4. CASE word.refs = 1
  <2>1. word' = Add(-1, 0, 0) /\ GoOn(th, corpses)
    BY <1>4 DEF ReleaseFrame, Become, GivenUp
  <2>2. word.refs + (-1) >= 0 /\ word.acts + 0 >= 0 /\ word.holds + 0 >= 0
    BY <1>1, <1>4
  <2>3. /\ word' \in Words /\ word'.refs = word.refs + (-1) /\ word'.acts = word.acts + 0
        /\ word'.holds = word.holds + 0 /\ word'.judging = word.judging
    BY <1>1, <2>1, <2>2, AddWord
  <2>4. /\ pc' \in [Threads -> Places] /\ pass' \in [Threads -> Nat]
        /\ draining' \in [Threads -> BOOLEAN]
        /\ \A u \in Threads \ {th} : pc'[u] = pc[u] /\ pass'[u] = pass[u]
        /\ \/ pc'[th] = "drain" /\ corpses # {} /\ pass'[th] = pass[th]
           \/ pc'[th] = "judge" /\ corpses = {} /\ pass[th] > 0 /\ pass'[th] = pass[th] - 1
           \/ pc'[th] = "idle" /\ corpses = {} /\ pass[th] = 0 /\ pass'[th] = 0
    BY <2>1, GoneOn
  <2>5. word'.refs = word.refs - 1 /\ word'.acts = word.acts /\ word'.holds = word.holds
    BY <1>1, <2>3
  <2>6. word'.holds - word.holds = pass'[th] - pass[th] + Bit(pc'[th] = "judge")
    BY <1>1, <2>4, <2>5 DEF Bit
  <2> QED BY <1>2, <1>4, <2>3, <2>4, <2>5, <2>6
<1> QED BY <1>1, <1>3, <1>4

LEMMA FrameReleaseCounted ==
  ASSUME Counted, FrameRelease
  PROVE  Counted'
<1> DEFINE th == Owner
<1>0. th \in Threads
  BY ThreadAssumption
<1>1. /\ pc[th] = "idle" /\ own = "returned" /\ own' = "over" /\ ReleaseFrame(th, dead[th], FALSE)
      /\ UNCHANGED <<done, pending, reg, deferred, rc, made, has, calls, releaseVars, dead,
                     judgeVars, missed>>
  BY DEF FrameRelease
<1> HIDE DEF th
<1>2. TypeOK /\ Local(th) /\ word.refs >= 1
  BY <1>0, <1>1, Bounds DEF Counted
<1>3. /\ word' \in Words /\ word'.refs = word.refs - 1 /\ word'.acts = word.acts
      /\ word'.judging = word.judging /\ freed' = (freed \/ word' = NoWord)
      /\ word'.holds - word.holds = pass'[th] - pass[th] + Bit(pc'[th] = "judge")
      /\ pc' \in [Threads -> Places] /\ pass' \in [Threads -> Nat]
      /\ draining' \in [Threads -> BOOLEAN]
      /\ \A u \in Threads \ {th} : pc'[u] = pc[u] /\ pass'[u] = pass[u]
      /\ pc'[th] \in {"judge", "drain", "idle"}
      /\ pc'[th] = "idle" => dead[th] = {} /\ pass'[th] = 0
  BY <1>0, <1>1, <1>2, FrameReleased
<1>4. TypeOK'
  BY <1>1, <1>2, <1>3 DEF TypeOK, releaseVars, judgeVars
<1>5. Elsewhere(th)
  BY <1>1, <1>3 DEF Elsewhere, releaseVars, judgeVars
<1>6. ~held[th] /\ cls[th] = None
  BY <1>0, <1>1, <1>2 DEF Local, TypeOK
<1>7. Local(th)'
  BY <1>1, <1>2, <1>3, <1>6 DEF Local, releaseVars, judgeVars
<1>8. ~(th \in Holding) /\ ~(th \in Judging) /\ ~(th \in Judging')
      /\ (th \in Holding' <=> pc'[th] = "judge")
  BY <1>0, <1>1, <1>3, <1>6 DEF Holding, Judging, releaseVars
<1>9. word.refs \in Nat /\ word.acts \in Nat /\ word.holds \in Nat /\ word'.holds \in Nat
      /\ pass[th] \in Nat /\ pass'[th] \in Nat /\ deferred \in Nat /\ calls[th] \in Nat
  BY <1>0, <1>2, <1>3 DEF TypeOK, Words
<1>10. UNCHANGED <<rc, reg, has, cls, dead, made>>
  BY <1>1 DEF releaseVars
<1>11. freed' <=> word' = NoWord
  BY <1>0, <1>1, <1>3, SomebodyLeft
<1>12. word'.refs - word.refs = Bit(own' # "over") - Bit(own # "over") + calls'[th] - calls[th]
  BY <1>1, <1>3, <1>9 DEF Bit
<1>13. word'.holds - word.holds = deferred' - deferred + pass'[th] - pass[th]
                                    + Bit(th \in Holding') - Bit(th \in Holding)
  <2>1. Bit(th \in Holding) = 0 /\ Bit(th \in Holding') = Bit(pc'[th] = "judge")
        /\ Bit(pc'[th] = "judge") \in Nat
    BY <1>8 DEF Bit
  <2> QED BY <1>1, <1>3, <1>9, <2>1
<1>14. Bit(word'.judging) - Bit(word.judging) = Bit(th \in Judging') - Bit(th \in Judging)
  BY <1>3, <1>8 DEF Bit
<1>15. word'.acts - word.acts = calls'[th] - calls[th]
  BY <1>1, <1>3, <1>9
<1>16. word'.judging => /\ done' /\ (word.judging \/ word.acts = 0)
                        /\ calls'[th] > 0 => pc'[th] = "entering"
  BY <1>0, <1>1, <1>3 DEF Counted, FlagKeepsOut
<1>17. DoneExact' /\ done' = done
  BY <1>1 DEF Counted, DoneExact
<1> QED BY ONLY Counted, <1>0, <1>4, <1>5, <1>7, <1>10, <1>11, <1>12, <1>13, <1>14, <1>15, <1>16, <1>17,
                CountedSame

LEMMA DrainCounted ==
  ASSUME Counted, NEW th \in Threads, Drain(th)
  PROVE  Counted'
<1>1. PICK c \in dead[th] : /\ dead' = [dead EXCEPT ![th] = @ \ {c}]
                            /\ ReleaseFrame(th, dead[th] \ {c}, TRUE)
  BY DEF Drain
<1>2. /\ pc[th] = "drain" /\ TypeOK /\ Local(th)
      /\ UNCHANGED <<done, pending, reg, deferred, rc, programVars, releaseVars, judgeVars, missed>>
  BY DEF Drain, Counted
<1>3. c \in Live /\ c \in Closures /\ rc[c] = 0 /\ \A u \in Threads : c \in dead[u] => u = th
  BY <1>1, <1>2 DEF Counted, DeadOnce, Live, TypeOK
<1>4. word.refs >= 1
  BY <1>2, <1>3, Bounds DEF Counted
<1>5. /\ word' \in Words /\ word'.refs = word.refs - 1 /\ word'.acts = word.acts
      /\ word'.judging = word.judging /\ freed' = (freed \/ word' = NoWord)
      /\ word'.holds - word.holds = pass'[th] - pass[th] + Bit(pc'[th] = "judge")
      /\ pc' \in [Threads -> Places] /\ pass' \in [Threads -> Nat]
      /\ draining' \in [Threads -> BOOLEAN]
      /\ \A u \in Threads \ {th} : pc'[u] = pc[u] /\ pass'[u] = pass[u]
      /\ pc'[th] \in {"judge", "drain", "idle"}
      /\ pc'[th] = "idle" => dead[th] \ {c} = {} /\ pass'[th] = 0
  BY <1>1, <1>2, <1>4, FrameReleased
<1>6. /\ dead' \in [Threads -> SUBSET Closures] /\ dead'[th] = dead[th] \ {c}
      /\ \A u \in Threads \ {th} : dead'[u] = dead[u]
  BY <1>1, <1>2 DEF TypeOK
<1>7. TypeOK'
  BY <1>2, <1>5, <1>6 DEF TypeOK, programVars, releaseVars, judgeVars
<1>8. Elsewhere(th)
  BY <1>2, <1>5, <1>6 DEF Elsewhere, programVars, releaseVars, judgeVars
<1>9. ~held[th] /\ cls[th] = None
  BY <1>2 DEF Local, TypeOK
<1>10. Local(th)'
  BY <1>2, <1>5, <1>6, <1>9 DEF Local, programVars, releaseVars, judgeVars
<1>11. ~(th \in Holding) /\ ~(th \in Judging) /\ ~(th \in Judging')
      /\ (th \in Holding' <=> pc'[th] = "judge")
  BY <1>2, <1>5, <1>9 DEF Holding, Judging, releaseVars
<1>12. word.refs \in Nat /\ word.acts \in Nat /\ word.holds \in Nat /\ word'.holds \in Nat
      /\ pass[th] \in Nat /\ pass'[th] \in Nat /\ deferred \in Nat /\ calls[th] \in Nat
  BY <1>2, <1>5 DEF TypeOK, Words
<1>13. Live' = Live \ {c}
  BY <1>2, <1>3, <1>6 DEF Live
<1>14. Cardinality(Live) \in Nat /\ Cardinality(Live') = Cardinality(Live) - 1
  BY <1>2, <1>3, <1>13, LiveFinite, FS_RemoveElement, FS_CardinalityType
<1>15. RcExact'
  BY <1>2 DEF Counted, RcExact, Holders, programVars, releaseVars
<1>16. DeadOnce' /\ MadeFirst'
  <2>1. \A u \in Threads : dead'[u] \subseteq dead[u]
    BY <1>6
  <2> QED BY <1>2, <2>1 DEF Counted, DeadOnce, MadeFirst, programVars
<1>17. freed' <=> word' = NoWord
  BY <1>1, <1>5, SomebodyLeft
<1>18. word'.refs - word.refs = Bit(own' # "over") - Bit(own # "over")
                                  + Cardinality(Live') - Cardinality(Live) + calls'[th] - calls[th]
  BY <1>2, <1>5, <1>12, <1>14 DEF Bit, programVars
<1>19. word'.holds - word.holds = deferred' - deferred + pass'[th] - pass[th]
                                    + Bit(th \in Holding') - Bit(th \in Holding)
  <2>1. Bit(th \in Holding) = 0 /\ Bit(th \in Holding') = Bit(pc'[th] = "judge")
        /\ Bit(pc'[th] = "judge") \in Nat
    BY <1>11 DEF Bit
  <2> QED BY <1>2, <1>5, <1>12, <2>1
<1>20. Bit(word'.judging) - Bit(word.judging) = Bit(th \in Judging') - Bit(th \in Judging)
  BY <1>5, <1>11 DEF Bit
<1>21. word'.acts - word.acts = calls'[th] - calls[th]
  BY <1>2, <1>5, <1>12 DEF programVars
<1>22. word'.judging => /\ done' /\ (word.judging \/ word.acts = 0)
                        /\ calls'[th] > 0 => pc'[th] = "entering"
  BY <1>2, <1>5 DEF Counted, FlagKeepsOut, programVars
<1>23. DoneExact' /\ done' = done
  BY <1>2 DEF Counted, DoneExact, programVars
<1> QED BY ONLY Counted, th \in Threads, <1>7, <1>8, <1>10, <1>15, <1>16, <1>17, <1>18, <1>19, <1>20, <1>21,
                <1>22, <1>23, CountedFrom

LEMMA DropCounted ==
  ASSUME Counted, NEW th \in Threads, Drop(th)
  PROVE  Counted'
<1> DEFINE c       == cls[th]
           left    == rc[c] - 1
           corpses == IF left = 0 THEN {c} ELSE {}
<1>1. /\ pc[th] = "drop" /\ TypeOK /\ Local(th) /\ RcExact
      /\ rc' = [rc EXCEPT ![c] = left]
      /\ dead' = [dead EXCEPT ![th] = corpses]
      /\ \/ /\ held[th] /\ pc' = [pc EXCEPT ![th] = IF left = 1 THEN "judge" ELSE "unhold"]
            /\ UNCHANGED <<draining, pass>>
         \/ ~held[th] /\ GoOn(th, corpses)
      /\ cls' = [cls EXCEPT ![th] = None]
      /\ held' = [held EXCEPT ![th] = FALSE]
      /\ UNCHANGED <<frameVars, programVars, judgeVars>>
  BY DEF Drop, Counted, Goto
<1>2. c \in Closures /\ dead[th] = {} /\ pass[th] = 0
  BY <1>1 DEF Local, TypeOK
<1>3. rc[c] \in Nat /\ rc[c] > 0 /\ left \in Nat
  BY <1>1, <1>2, HeldCounts DEF TypeOK
<1>4. c \in made /\ \A u \in Threads : c \notin dead[u]
  BY <1>2, <1>3 DEF Counted, MadeFirst, DeadOnce
<1>5. corpses \subseteq Closures /\ (corpses = {} <=> left # 0) /\ \A x \in corpses : x = c
  BY <1>2
<1> HIDE DEF corpses
<1>6. /\ rc' \in [Closures -> Nat] /\ rc'[c] = left
      /\ \A x \in Closures : x # c => rc'[x] = rc[x]
  BY <1>1, <1>2, <1>3 DEF TypeOK
<1>7. /\ dead' \in [Threads -> SUBSET Closures] /\ dead'[th] = corpses
      /\ \A u \in Threads : u # th => dead'[u] = dead[u]
  BY <1>1, <1>5 DEF TypeOK
<1>8. /\ cls' \in [Threads -> Closures \cup {None}] /\ cls'[th] = None
      /\ \A u \in Threads : u # th => cls'[u] = cls[u] /\ held'[u] = held[u]
      /\ held' \in [Threads -> BOOLEAN] /\ held'[th] = FALSE
  BY <1>1 DEF TypeOK
<1> HIDE DEF c, left
<1>9. /\ pc' \in [Threads -> Places] /\ pass' \in [Threads -> Nat]
      /\ draining' \in [Threads -> BOOLEAN]
      /\ \A u \in Threads : u # th => pc'[u] = pc[u] /\ pass'[u] = pass[u]
      /\ pass'[th] = 0
      /\ \/ held[th] /\ pc'[th] \in {"judge", "unhold"}
         \/ ~held[th] /\ pc'[th] \in {"drain", "idle"} /\ (pc'[th] = "idle" => corpses = {})
  <2>1. CASE held[th]
    BY <1>1, <1>2, <2>1 DEF TypeOK, Places
  <2>2. CASE ~held[th] /\ GoOn(th, corpses)
    <3>1. /\ pc' \in [Threads -> Places] /\ pass' \in [Threads -> Nat]
          /\ draining' \in [Threads -> BOOLEAN]
          /\ \A u \in Threads \ {th} : pc'[u] = pc[u] /\ pass'[u] = pass[u]
          /\ \/ pc'[th] = "drain" /\ corpses # {} /\ pass'[th] = pass[th]
             \/ pc'[th] = "judge" /\ corpses = {} /\ pass[th] > 0 /\ pass'[th] = pass[th] - 1
             \/ pc'[th] = "idle" /\ corpses = {} /\ pass[th] = 0 /\ pass'[th] = 0
      BY <1>1, <2>2, GoneOn
    <3> QED BY <1>2, <2>2, <3>1
  <2> QED BY <1>1, <2>1, <2>2
<1>10. TypeOK'
  BY <1>1, <1>6, <1>7, <1>8, <1>9 DEF TypeOK, Drop, frameVars, programVars, judgeVars
<1>11. Elsewhere(th)
  BY <1>1, <1>7, <1>8, <1>9 DEF Elsewhere, programVars, judgeVars
<1>12. Local(th)'
  BY <1>1, <1>7, <1>8, <1>9 DEF Local, frameVars, programVars, judgeVars
<1>13. (th \in Holding' <=> th \in Holding) /\ ~(th \in Judging) /\ ~(th \in Judging')
  BY <1>1, <1>8, <1>9 DEF Holding, Judging
<1>14. RcExact'
  BY <1>1, <1>2, DropCounts DEF c, left, TypeOK, frameVars, programVars
<1>15. Live' = Live
  <2>1. \A x \in Closures : x # c => (rc'[x] > 0 <=> rc[x] > 0)
    BY <1>6
  <2>2. \A x : x # c => (x \in Live' <=> x \in Live)
    BY <1>1, <1>2, <1>5, <1>7, <2>1 DEF Live
  <2>3. c \in Live
    BY <1>2, <1>3 DEF Live
  <2>4. c \in Live'
    <3>1. CASE left = 0
      <4>1. c \in dead'[th]
        BY <1>5, <1>7, <3>1
      <4> QED BY <4>1 DEF Live
    <3>2. CASE left # 0
      <4>1. rc'[c] > 0
        BY <1>3, <1>6, <3>2
      <4> QED BY <1>2, <4>1 DEF Live
    <3> QED BY <3>1, <3>2
  <2> QED BY <2>2, <2>3, <2>4
<1>16. DeadOnce'
  <2>1. SUFFICES ASSUME NEW u \in Threads, NEW x \in dead'[u]
                 PROVE  rc'[x] = 0 /\ x \in made /\ \A v \in Threads : x \in dead'[v] => v = u
    BY <1>1 DEF DeadOnce, programVars
  <2>2. CASE u = th
    <3>1. x = c /\ left = 0
      BY <1>5, <1>7, <2>2
    <3> QED BY <1>4, <1>6, <1>7, <2>2, <3>1
  <2>3. CASE u # th
    <3>1. x \in dead[u] /\ x \in Closures /\ x # c
      BY <1>1, <1>4, <1>7, <2>3 DEF TypeOK
    <3>2. x \notin dead'[th]
      BY <1>5, <1>7, <3>1
    <3> QED BY <1>6, <1>7, <3>1, <3>2 DEF Counted, DeadOnce
  <2> QED BY <2>2, <2>3
<1>17. MadeFirst'
  BY <1>1, <1>4, <1>6 DEF Counted, MadeFirst, programVars
<1>18. word.refs \in Nat /\ word.acts \in Nat /\ word.holds \in Nat
      /\ pass[th] \in Nat /\ deferred \in Nat /\ calls[th] \in Nat /\ Cardinality(Live) \in Nat
  BY <1>1, Bounds DEF TypeOK, Words, Counted
<1>19. Bit(th \in Holding') = Bit(th \in Holding) /\ Bit(th \in Judging') = Bit(th \in Judging)
       /\ Bit(th \in Holding) \in Nat /\ Bit(th \in Judging) \in Nat
       /\ Bit(word.judging) \in Nat /\ Bit(own # "over") \in Nat
  BY <1>13 DEF Bit
<1>20. word'.refs - word.refs = Bit(own' # "over") - Bit(own # "over")
                                  + Cardinality(Live') - Cardinality(Live) + calls'[th] - calls[th]
  BY <1>1, <1>15, <1>18, <1>19 DEF frameVars, programVars
<1>21. word'.holds - word.holds = deferred' - deferred + pass'[th] - pass[th]
                                    + Bit(th \in Holding') - Bit(th \in Holding)
  BY <1>1, <1>2, <1>9, <1>18, <1>19 DEF frameVars
<1>22. Bit(word'.judging) - Bit(word.judging) = Bit(th \in Judging') - Bit(th \in Judging)
  BY <1>1, <1>19 DEF frameVars
<1>23. word'.acts - word.acts = calls'[th] - calls[th]
  BY <1>1, <1>18 DEF frameVars, programVars
<1>24. word'.judging => /\ done' /\ (word.judging \/ word.acts = 0)
                        /\ calls'[th] > 0 => pc'[th] = "entering"
  BY <1>1 DEF Counted, FlagKeepsOut, frameVars, programVars
<1>25. DoneExact' /\ done' = done /\ (freed' <=> word' = NoWord)
  BY <1>1 DEF Counted, DoneExact, FreedExact, frameVars, programVars
<1> QED BY ONLY Counted, th \in Threads, <1>10, <1>11, <1>12, <1>14, <1>16, <1>17, <1>20, <1>21, <1>22, <1>23,
                <1>24, <1>25, CountedFrom

(* What the frame's own registers alone hold. *)
Corpses == {reg[i] : i \in Owned}

LEMMA CorpsesLive ==
  ASSUME Counted
  PROVE  /\ Corpses \subseteq Live /\ Corpses \subseteq Closures
         /\ IsFiniteSet(Corpses) /\ IsFiniteSet(Owned)
         /\ Cardinality(Corpses) = Cardinality(Owned)
         /\ Cardinality(Corpses) \in Nat /\ Cardinality(Corpses) <= Cardinality(Live)
         /\ \A c \in Corpses : rc[c] = 1 /\ \A u \in Threads : c \notin dead[u]
<1>1. TypeOK /\ RcExact
  BY DEF Counted
<1>2. \A i \in Owned : i \in Slots /\ reg[i] \in Closures /\ rc[reg[i]] = 1
  BY <1>1 DEF Owned, OwnRef, TypeOK
<1>3. Corpses \subseteq Live /\ Corpses \subseteq Closures /\ \A c \in Corpses : rc[c] = 1
  BY <1>2 DEF Corpses, Live
<1>4. IsFiniteSet(Owned)
  BY SlotAssumption, FS_Subset DEF Owned
<1>5. Cardinality(Corpses) = Cardinality(Owned) /\ IsFiniteSet(Corpses)
  <2> DEFINE f == [i \in Owned |-> reg[i]]
  <2>1. f \in [Owned -> Corpses]
    BY DEF Corpses
  <2>2. \A i, j \in Owned : f[i] = f[j] => i = j
    BY <1>1, <1>2, HeldCounts
  <2>3. \A c \in Corpses : \E i \in Owned : f[i] = c
    BY DEF Corpses
  <2>4. f \in Bijection(Owned, Corpses)
    BY ONLY <2>1, <2>2, <2>3 DEF Bijection, Injection, Surjection, IsInjective
  <2>5. ExistsBijection(Owned, Corpses)
    BY <2>4 DEF ExistsBijection
  <2> QED BY <1>4, <2>5, FS_Bijection
<1>6. Cardinality(Corpses) \in Nat /\ Cardinality(Corpses) <= Cardinality(Live)
  BY <1>1, <1>3, LiveFinite, FS_Subset, FS_CardinalityType
<1>7. \A c \in Corpses : \A u \in Threads : c \notin dead[u]
  BY <1>3 DEF Counted, DeadOnce
<1> QED BY <1>3, <1>4, <1>5, <1>6, <1>7

LEMMA ReapEffects ==
  ASSUME Counted, NEW th \in Threads, Reap(th)
  PROVE  /\ pc[th] = "reap" /\ pc' = [pc EXCEPT ![th] = "unhold"]
         /\ reg' = [i \in Slots |-> IF i \in Owned THEN None ELSE reg[i]]
         /\ rc' = [c \in Closures |-> IF c \in Corpses THEN 0 ELSE rc[c]]
         /\ \/ /\ draining[th] /\ dead' = [dead EXCEPT ![th] = @ \cup Corpses]
               /\ word' = [word EXCEPT !.judging = FALSE]
            \/ /\ ~draining[th] /\ dead' = dead
               /\ word' = [Add(-Cardinality(Corpses), 0, 0) EXCEPT !.judging = FALSE]
         /\ UNCHANGED <<done, pending, freed, deferred, programVars, releaseVars, draining, pass,
                        judgeVars, missed>>
BY DEF Reap, Goto, Owned, Corpses

LEMMA ReapCounted ==
  ASSUME Counted, NEW th \in Threads, Reap(th)
  PROVE  Counted'
<1>1. /\ pc[th] = "reap" /\ pc' = [pc EXCEPT ![th] = "unhold"]
      /\ reg' = [i \in Slots |-> IF i \in Owned THEN None ELSE reg[i]]
      /\ rc' = [c \in Closures |-> IF c \in Corpses THEN 0 ELSE rc[c]]
      /\ \/ /\ draining[th] /\ dead' = [dead EXCEPT ![th] = @ \cup Corpses]
            /\ word' = [word EXCEPT !.judging = FALSE]
         \/ /\ ~draining[th] /\ dead' = dead
            /\ word' = [Add(-Cardinality(Corpses), 0, 0) EXCEPT !.judging = FALSE]
      /\ UNCHANGED <<done, pending, freed, deferred, programVars, releaseVars, draining, pass,
                     judgeVars, missed>>
      /\ TypeOK /\ Local(th) /\ RcExact
  BY ReapEffects DEF Counted
<1>2. /\ Corpses \subseteq Live /\ Corpses \subseteq Closures /\ IsFiniteSet(Corpses)
      /\ Cardinality(Corpses) \in Nat /\ Cardinality(Corpses) <= Cardinality(Live)
      /\ \A c \in Corpses : rc[c] = 1 /\ \A u \in Threads : c \notin dead[u]
  BY CorpsesLive
<1>3. ~held[th] /\ cls[th] = None
  BY <1>1 DEF Local, TypeOK
<1>4. pc' \in [Threads -> Places] /\ pc'[th] = "unhold" /\ \A u \in Threads : u # th => pc'[u] = pc[u]
  BY <1>1 DEF TypeOK, Places
<1>5. th \in Holding /\ th \in Holding' /\ th \in Judging /\ ~(th \in Judging')
  BY <1>1, <1>4 DEF Holding, Judging
<1>6. word.refs \in Nat /\ word.acts \in Nat /\ word.holds \in Nat /\ word \in Words /\ word.judging
      /\ pass[th] \in Nat /\ deferred \in Nat /\ calls[th] \in Nat
      /\ Cardinality(Live) \in Nat /\ Cardinality(Live) <= word.refs /\ word.holds >= 1
  <2>1. word \in Words /\ pass[th] \in Nat /\ deferred \in Nat /\ calls[th] \in Nat
    BY <1>1 DEF TypeOK
  <2>2. WordExact
    BY DEF Counted
  <2>3. Cardinality(Live) \in Nat /\ Total(calls) \in Nat /\ word.judging /\ word.holds >= 1
    BY <1>1, <1>5, <2>2, Bounds
  <2>4. Cardinality(Live) <= word.refs
    BY <2>2, <2>3 DEF WordExact
  <2> QED BY <2>1, <2>3, <2>4 DEF Words
<1>7. reg' \in [Slots -> Closures \cup {None}] /\ rc' \in [Closures -> Nat]
      /\ \A c \in Closures : rc'[c] = IF c \in Corpses THEN 0 ELSE rc[c]
  BY <1>1 DEF TypeOK
<1>8. /\ dead' \in [Threads -> SUBSET Closures] /\ \A u \in Threads : u # th => dead'[u] = dead[u]
      /\ dead'[th] = dead[th] \cup (IF draining[th] THEN Corpses ELSE {})
  BY <1>1, <1>2 DEF TypeOK
<1> DEFINE n == IF draining[th] THEN 0 ELSE Cardinality(Corpses)
<1>9. word' \in Words /\ word'.refs = word.refs - n /\ word'.acts = word.acts
      /\ word'.holds = word.holds /\ ~word'.judging
  <2>1. CASE draining[th]
    <3>1. word' = [word EXCEPT !.judging = FALSE] /\ n = 0
      BY <1>1, <2>1
    <3>2. word' \in Words /\ word'.refs = word.refs /\ word'.acts = word.acts
          /\ word'.holds = word.holds /\ ~word'.judging
      BY ONLY <1>6, <3>1 DEF Words
    <3>3. word.refs - n = word.refs
      BY ONLY <1>6, <3>1
    <3> QED BY <3>2, <3>3
  <2>2. CASE ~draining[th]
    <3> DEFINE m == -Cardinality(Corpses)
               a == Add(m, 0, 0)
    <3>1. m \in Int /\ 0 \in Int /\ word.refs + m >= 0 /\ word.acts + 0 >= 0 /\ word.holds + 0 >= 0
      BY <1>2, <1>6
    <3>3. word' = [a EXCEPT !.judging = FALSE] /\ m = -Cardinality(Corpses) /\ n = Cardinality(Corpses)
      BY <1>1, <2>2
    <3> HIDE DEF m, n
    <3>2. /\ a \in Words /\ a.refs = word.refs + m /\ a.acts = word.acts + 0 /\ a.holds = word.holds + 0
      BY ONLY <1>6, <3>1, AddWord
    <3> HIDE DEF a
    <3>4. word' \in Words /\ word'.refs = a.refs /\ word'.acts = a.acts /\ word'.holds = a.holds
          /\ ~word'.judging
      BY ONLY <3>2, <3>3 DEF Words
    <3>5. word.refs + m = word.refs - n /\ word.acts + 0 = word.acts /\ word.holds + 0 = word.holds
      BY ONLY <1>2, <1>6, <3>3
    <3> QED BY <3>2, <3>4, <3>5
  <2> QED BY <2>1, <2>2
<1>10. TypeOK'
  BY <1>1, <1>4, <1>7, <1>8, <1>9 DEF TypeOK, programVars, releaseVars, judgeVars
<1>11. Elsewhere(th)
  BY <1>1, <1>4, <1>8 DEF Elsewhere, programVars, releaseVars, judgeVars
<1>12. Local(th)'
  BY <1>1, <1>3, <1>4 DEF Local, programVars, releaseVars, judgeVars
<1>13. RcExact'
  BY <1>1, ClearedCounts DEF TypeOK, programVars, releaseVars, Corpses
<1>14. DeadOnce'
  <2>1. SUFFICES ASSUME NEW u \in Threads, NEW x \in dead'[u]
                 PROVE  rc'[x] = 0 /\ x \in made /\ \A v \in Threads : x \in dead'[v] => v = u
    BY <1>1 DEF DeadOnce, programVars
  <2>2. CASE x \in Corpses
    <3>1. u = th /\ \A v \in Threads : x \in dead'[v] => v = th
      BY <1>2, <1>8, <2>1, <2>2
    <3>2. x \in Closures /\ rc[x] = 1 /\ rc'[x] = 0
      BY <1>2, <1>7, <2>2
    <3>3. x \in made
      BY <3>2 DEF Counted, MadeFirst
    <3> QED BY <3>1, <3>2, <3>3
  <2>3. CASE x \notin Corpses
    <3>1. x \in dead[u] /\ \A v \in Threads : x \in dead'[v] => x \in dead[v]
      BY <1>8, <2>1, <2>3
    <3>2. x \in Closures
      BY <1>1, <3>1 DEF TypeOK
    <3> QED BY <1>7, <2>3, <3>1, <3>2 DEF Counted, DeadOnce
  <2> QED BY <2>2, <2>3
<1>15. MadeFirst'
  BY <1>1, <1>7 DEF Counted, MadeFirst, programVars
<1>16. Cardinality(Live') = Cardinality(Live) - n
  <2>1. \A c \in Closures : rc'[c] > 0 <=> rc[c] > 0 /\ c \notin Corpses
    BY <1>1, <1>7 DEF TypeOK
  <2>2. CASE draining[th]
    <3>1. Live' = Live
      BY <1>2, <1>8, <2>1, <2>2 DEF Live
    <3> QED BY <1>6, <2>2, <3>1
  <2>3. CASE ~draining[th]
    <3>1. Live' = Live \ Corpses
      BY <1>2, <1>8, <2>1, <2>3 DEF Live
    <3>2. Live \cap Corpses = Corpses
      BY <1>2
    <3>3. Cardinality(Live \ Corpses) = Cardinality(Live) - Cardinality(Corpses)
      <4>1. IsFiniteSet(Live)
        BY <1>1, LiveFinite
      <4>2. Cardinality(Live \ Corpses) = Cardinality(Live) - Cardinality(Live \cap Corpses)
        BY ONLY <4>1, FS_Difference
      <4> QED BY <3>2, <4>2
    <3> QED BY <2>3, <3>1, <3>3
  <2> QED BY <2>2, <2>3
<1>17. n \in Nat
  BY <1>2
<1> HIDE DEF n
<1>18. word'.refs - word.refs = Bit(own' # "over") - Bit(own # "over")
                                  + Cardinality(Live') - Cardinality(Live) + calls'[th] - calls[th]
  BY <1>1, <1>6, <1>9, <1>16, <1>17 DEF Bit, programVars
<1>19. word'.holds - word.holds = deferred' - deferred + pass'[th] - pass[th]
                                    + Bit(th \in Holding') - Bit(th \in Holding)
  BY <1>1, <1>5, <1>6, <1>9 DEF Bit
<1>20. Bit(word'.judging) - Bit(word.judging) = Bit(th \in Judging') - Bit(th \in Judging)
  BY <1>5, <1>6, <1>9 DEF Bit
<1>21. word'.acts - word.acts = calls'[th] - calls[th]
  BY <1>1, <1>6, <1>9 DEF programVars
<1>22. freed' <=> word' = NoWord
  BY <1>1, <1>5, <1>6, <1>9, SomebodyLeft DEF NoWord
<1>23. ~word'.judging /\ DoneExact' /\ done' = done
  BY <1>1, <1>9 DEF Counted, DoneExact, programVars
<1> QED BY ONLY Counted, th \in Threads, <1>10, <1>11, <1>12, <1>13, <1>14, <1>15, <1>18, <1>19, <1>20, <1>21,
                <1>22, <1>23, CountedFrom

LEMMA InitCounted ==
  ASSUME Init
  PROVE  Counted
<1>1. TypeOK
  <2>1. word \in Words
    BY DEF Init, NoWord, Words
  <2>2. NoWord \in Words
    BY DEF NoWord, Words
  <2> QED BY <2>1, <2>2 DEF Init, TypeOK, Places
<1>2. \A th \in Threads : Local(th)
  BY DEF Init, Local
<1>3. RcExact
  <2>1. ASSUME NEW c \in Closures PROVE rc[c] = Cardinality(Holders(c))
    <3>1. Holders(c) = {}
      BY NoneAssumption DEF Init, Holders, HoldersIn
    <3> QED BY <3>1, FS_EmptySet DEF Init
  <2> QED BY <2>1 DEF RcExact
<1>4. DeadOnce /\ MadeFirst
  BY DEF Init, DeadOnce, MadeFirst
<1>5. WordExact
  <2>1. Live = {} /\ Holding = {} /\ Judging = {}
    BY DEF Init, Live, Holding, Judging
  <2>2. Total(calls) = 0 /\ Total(pass) = 0
    BY <1>1, TotalZero DEF Init, TypeOK
  <2> QED BY <2>1, <2>2, FS_EmptySet DEF Init, WordExact, NoWord
<1>6. DoneExact /\ FreedExact /\ FlagKeepsOut
  BY DEF Init, DoneExact, FreedExact, FlagKeepsOut, NoWord
<1> QED BY <1>1, <1>2, <1>3, <1>4, <1>5, <1>6 DEF Counted

LEMMA NextCounted ==
  ASSUME Counted, Next
  PROVE  Counted'
<1>1. ASSUME NEW th \in Threads, Runtime(th) PROVE Counted'
  BY <1>1, EnterCounted, DropCounted, DrainCounted, UnholdCounted, JudgeCounted, DeferCounted,
     AskCounted, RecheckCounted, ArmCounted, ScanCounted, VerdictCounted, ReapCounted,
     AgainCounted DEF Runtime
<1>2. ASSUME NEW th \in Threads, Program(th) PROVE Counted'
  BY <1>2, GiveCounted, LoadCounted, StoreCounted, ReleaseCounted, CallCounted, ExitCounted
     DEF Program
<1> QED BY <1>1, <1>2, MakeCounted, ReturnCounted, FrameReleaseCounted, JudgeDeferredCounted DEF Next

-----------------------------------------------------------------------------
(* Only garbage is reaped, and somebody judges what is left. *)

\* When the registers alone are left, nobody has a closure or drops one, and
\* the closures left are those the frame owns.
LEMMA AloneMeans ==
  ASSUME Counted, Alone
  PROVE  /\ own = "over" /\ done
         /\ \A th \in Threads : has[th] = {} /\ cls[th] = None /\ dead[th] = {}
         /\ Live = Corpses /\ Cardinality(Live) = Cardinality(Owned)
<1>1. TypeOK /\ RcExact /\ DoneExact
  BY DEF Counted
<1>2. own = "over" /\ done
  BY <1>1 DEF Alone, DoneExact
<1>3. ASSUME NEW c \in Closures, rc[c] > 0
      PROVE  c \in Corpses /\ \A th \in Threads : c \notin has[th] /\ cls[th] # c
  <2>1. rc[c] = 1 /\ \E i \in Slots : reg[i] = c
    BY <1>3 DEF Alone
  <2>2. c # None
    BY NoneAssumption
  <2> QED BY <1>1, <2>1, <2>2, HeldCounts DEF Corpses, Owned, OwnRef
<1>4. \A th \in Threads : has[th] = {} /\ cls[th] = None
  BY <1>1, <1>3, HeldCounts DEF TypeOK
<1>5. \A th \in Threads : dead[th] = {}
  BY DEF Alone
<1>6. Live = Corpses
  <2>1. Live \subseteq Corpses
    BY <1>3, <1>5 DEF Live
  <2> QED BY <2>1, CorpsesLive
<1> QED BY <1>2, <1>4, <1>5, <1>6, CorpsesLive

LEMMA OwnedFinite == IsFiniteSet(Owned) /\ IsFiniteSet(Owned')
BY SlotAssumption, FS_Subset DEF Owned

LEMMA ScannedFrom ==
  ASSUME Counted, Scanned, NEW th \in Threads, Elsewhere(th), Counted',
         (\E u \in Threads \ {th} : pc[u] \in {"scan", "verdict"}) => Owned \subseteq Owned',
         pc'[th] \in {"scan", "verdict"} => found'[th] <= Cardinality(Owned' \ unread'[th])
  PROVE  Scanned'
<1> SUFFICES ASSUME NEW u \in Threads, pc'[u] \in {"scan", "verdict"}
             PROVE  found'[u] <= Cardinality(Owned' \ unread'[u])
  BY DEF Scanned
<1>1. CASE u # th
  <2>1. pc[u] \in {"scan", "verdict"} /\ found'[u] = found[u] /\ unread'[u] = unread[u]
    BY <1>1 DEF Elsewhere
  <2>2. found[u] <= Cardinality(Owned \ unread[u]) /\ Owned \subseteq Owned'
    BY <1>1, <2>1 DEF Scanned
  <2>3. IsFiniteSet(Owned' \ unread[u]) /\ IsFiniteSet(Owned \ unread[u])
    BY OwnedFinite, FS_Subset
  <2>4. Owned \ unread[u] \subseteq Owned' \ unread[u]
    BY <2>2
  <2>5. Cardinality(Owned \ unread[u]) <= Cardinality(Owned' \ unread[u])
    BY ONLY <2>3, <2>4, FS_Subset
  <2>6. /\ Cardinality(Owned \ unread[u]) \in Nat /\ Cardinality(Owned' \ unread[u]) \in Nat
        /\ found[u] \in Nat
    BY <2>3, FS_CardinalityType DEF Counted, TypeOK
  <2> QED BY <2>1, <2>2, <2>5, <2>6
<1> QED BY <1>1

(* A step that leaves registers, counts and corpses alone. *)
LEMMA RestSame ==
  ASSUME IInv, Counted', NEW th \in Threads, Elsewhere(th), UNCHANGED <<own, dead, rc, reg, missed>>,
         pc'[th] \in {"scan", "verdict"} => found'[th] <= Cardinality(Owned \ unread'[th]),
         pc'[th] = "reap" => Alone /\ Total(calls) = 0,
         Alone => calls'[th] <= calls[th],
         Alone /\ Live # {} /\ Owes(th) => deferred' > 0 \/ Owes(th)',
         deferred > 0 => deferred' > 0 \/ Owes(th)',
         Alone /\ pending /\ ~pending' => Owes(th)'
  PROVE  Scanned' /\ Reaping' /\ Owed'
<1>1. Counted /\ Scanned /\ Reaping /\ Owed /\ TypeOK /\ TypeOK' /\ WordExact
  BY DEF IInv, Counted
<1>2. Owned' = Owned /\ Live' = Live /\ (Alone' <=> Alone)
  BY DEF Owned, OwnRef, Live, Alone
<1>3. Scanned'
  BY <1>1, <1>2, ScannedFrom
<1>4. ASSUME Alone, Total(calls) = 0 PROVE Total(calls') = 0
  <2>1. calls \in [Threads -> Nat] /\ calls' \in [Threads -> Nat]
    BY <1>1 DEF TypeOK
  <2>2. \A u \in Threads : calls[u] = 0
    BY <1>4, <2>1, TotalZero
  <2>3. \A u \in Threads : calls'[u] = 0
    <3>1. calls'[th] = 0
      BY <1>4, <2>1, <2>2
    <3> QED BY <2>2, <3>1 DEF Elsewhere
  <2> QED BY ONLY <2>1, <2>3, TotalZero
<1>5. Reaping'
  <2>1. SUFFICES ASSUME NEW u \in Threads, pc'[u] = "reap" PROVE Alone' /\ Total(calls') = 0
    <3>1. (Total(calls))' = Total(calls')
      BY DEF Total, Units
    <3> QED BY <3>1 DEF Reaping
  <2>2. Alone /\ Total(calls) = 0
    <3>1. CASE u = th
      BY <2>1, <3>1
    <3>2. CASE u # th
      BY <1>1, <2>1, <3>2 DEF Elsewhere, Reaping
    <3> QED BY <3>1, <3>2
  <2> QED BY <1>2, <1>4, <2>2
<1>6. Owed'
  <2>1. SUFFICES ASSUME Alone, Live # {}, ~missed
                 PROVE  deferred' > 0 \/ \E u \in Threads : Owes(u)'
    BY <1>2 DEF Owed
  <2>2. CASE deferred > 0
    BY <2>2
  <2>3. CASE Owes(th)
    BY <2>1, <2>3
  <2>4. ASSUME NEW u \in Threads, u # th, Owes(u) PROVE Owes(u)' \/ Owes(th)'
    <3>1. /\ pc'[u] = pc[u] /\ pass'[u] = pass[u] /\ found'[u] = found[u] /\ unread'[u] = unread[u]
      BY <2>4 DEF Elsewhere
    <3>2. CASE pending /\ ~pending'
      BY <2>1, <3>2
    <3>3. CASE pending => pending'
      BY <1>2, <2>4, <3>1, <3>3 DEF Owes
    <3> QED BY <3>2, <3>3
  <2> QED BY <1>1, <2>1, <2>2, <2>3, <2>4 DEF Owed
<1> QED BY <1>3, <1>5, <1>6

(* A step of a frame that is in use. *)
LEMMA RestElse ==
  ASSUME IInv, Counted', NEW th \in Threads, Elsewhere(th), ~(Alone /\ Total(calls) = 0),
         word.judging => Owned \subseteq Owned',
         pc'[th] \notin {"scan", "verdict", "reap"},
         Alone' /\ Live' # {} /\ ~missed' => Owes(th)'
  PROVE  Scanned' /\ Reaping' /\ Owed'
<1>1. Counted /\ Scanned /\ Reaping /\ Owed /\ TypeOK /\ WordExact
  BY DEF IInv, Counted
<1>2. \A u \in Threads : pc[u] \in {"scan", "verdict"} => word.judging
  BY <1>1, Bounds DEF Judging
<1>3. Scanned'
  BY <1>1, <1>2, ScannedFrom
<1>4. Reaping'
  <2>1. \A u \in Threads : pc'[u] # "reap"
    BY <1>1 DEF Reaping, Elsewhere
  <2> QED BY <2>1 DEF Reaping
<1>5. Owed'
  BY DEF Owed
<1> QED BY <1>3, <1>4, <1>5

LEMMA EnterRest ==
  ASSUME IInv, Counted', NEW th \in Threads, Enter(th)
  PROVE  Scanned' /\ Reaping' /\ Owed'
<1>1. /\ pc[th] = "entering" /\ pc' = [pc EXCEPT ![th] = "idle"]
      /\ UNCHANGED <<frameVars, rc, programVars, releaseVars, drainVars, judgeVars, missed>>
      /\ TypeOK /\ Local(th)
  BY DEF Enter, Goto, IInv, Counted
<1>2. pc'[th] = "idle" /\ calls'[th] = calls[th] /\ deferred' = deferred /\ pending' = pending /\ pass[th] = 0
      /\ calls[th] \in Nat
  BY <1>1 DEF TypeOK, frameVars, programVars, Local
<1>3. Elsewhere(th) /\ UNCHANGED <<own, dead, rc, reg, missed>>
  BY <1>1 DEF Elsewhere, frameVars, programVars, releaseVars, drainVars, judgeVars
<1>4. ~Owes(th) /\ calls'[th] <= calls[th] /\ (deferred > 0 => deferred' > 0)
  BY <1>1, <1>2 DEF Owes
<1> QED BY <1>2, <1>3, <1>4, RestSame

LEMMA CallRest ==
  ASSUME IInv, Counted', NEW th \in Threads, NEW c, Call(th, c)
  PROVE  Scanned' /\ Reaping' /\ Owed'
<1>1. /\ pc[th] = "idle" /\ c \in has[th] /\ TypeOK /\ Local(th)
      /\ (pc' = pc \/ pc' = [pc EXCEPT ![th] = "entering"])
      /\ calls' = [calls EXCEPT ![th] = @ + 1]
      /\ UNCHANGED <<done, pending, reg, freed, deferred, rc, made, own, has, releaseVars,
                     drainVars, judgeVars, missed>>
  BY DEF Call, Free, Goto, IInv, Counted
<1>2. pc'[th] \in {"idle", "entering"} /\ pass[th] = 0
  BY <1>1 DEF TypeOK, Local
<1>3. Elsewhere(th) /\ UNCHANGED <<own, dead, rc, reg, missed>>
  BY <1>1 DEF Elsewhere, releaseVars, drainVars, judgeVars, TypeOK
<1>4. ~Alone
  BY <1>1, AloneMeans DEF IInv
<1> QED BY <1>1, <1>2, <1>3, <1>4, RestSame

LEMMA ExitRest ==
  ASSUME IInv, Counted', NEW th \in Threads, Exit(th)
  PROVE  Scanned' /\ Reaping' /\ Owed'
<1>1. /\ pc[th] = "idle" /\ TypeOK /\ Local(th) /\ pc' = pc
      /\ calls' = [calls EXCEPT ![th] = @ - 1]
      /\ UNCHANGED <<done, pending, reg, deferred, rc, made, own, has, pc, releaseVars,
                     drainVars, judgeVars, missed>>
  BY DEF Exit, Free, IInv, Counted
<1>2. pass[th] = 0 /\ calls'[th] <= calls[th]
  BY <1>1 DEF TypeOK, Local
<1>3. Elsewhere(th) /\ UNCHANGED <<own, dead, rc, reg, missed>>
  BY <1>1 DEF Elsewhere, releaseVars, drainVars, judgeVars, TypeOK
<1>4. ~Owes(th)
  BY <1>1, <1>2 DEF Owes
<1> QED BY <1>1, <1>2, <1>3, <1>4, RestSame

LEMMA ReleaseRest ==
  ASSUME IInv, Counted', NEW th \in Threads, NEW c \in Closures, Release(th, c)
  PROVE  Scanned' /\ Reaping' /\ Owed'
<1>1. /\ pc[th] = "idle" /\ c \in has[th] /\ TypeOK /\ Local(th)
      /\ pc' = [pc EXCEPT ![th] = "drop"] /\ cls' = [cls EXCEPT ![th] = c]
      /\ held' = [held EXCEPT ![th] = done]
      /\ UNCHANGED <<done, pending, reg, freed, deferred, rc, made, own, calls, drainVars,
                     judgeVars, missed>>
  BY DEF Release, StartRelease, Goto, IInv, Counted
<1>2. pc'[th] = "drop"
  BY <1>1 DEF TypeOK
<1>3. Elsewhere(th) /\ UNCHANGED <<own, dead, rc, reg, missed>>
  BY <1>1 DEF Elsewhere, drainVars, judgeVars, TypeOK
<1>4. ~Alone
  BY <1>1, AloneMeans DEF IInv
<1> QED BY <1>1, <1>2, <1>3, <1>4, RestSame

LEMMA ReturnRest ==
  ASSUME IInv, Counted', Return
  PROVE  Scanned' /\ Reaping' /\ Owed'
<1> DEFINE th == Owner
<1>0. th \in Threads
  BY ThreadAssumption
<1>1. /\ pc[th] = "idle" /\ own = "running" /\ own' = "returned" /\ pc' = pc
      /\ UNCHANGED <<word, pending, reg, freed, deferred, rc, made, has, calls, pc,
                     releaseVars, drainVars, judgeVars, missed>>
  BY DEF Return, Free
<1> HIDE DEF th
<1>2. Elsewhere(th) /\ Owned' = Owned /\ ~Alone /\ ~Alone'
  BY <1>1 DEF Elsewhere, releaseVars, drainVars, judgeVars, Owned, OwnRef, Alone
<1> QED BY <1>0, <1>1, <1>2, RestElse

LEMMA UnholdRest ==
  ASSUME IInv, Counted', NEW th \in Threads, Unhold(th)
  PROVE  Scanned' /\ Reaping' /\ Owed'
<1>1. /\ pc[th] = "unhold" /\ TypeOK /\ GoOn(th, dead[th])
      /\ UNCHANGED <<done, pending, reg, deferred, rc, programVars, releaseVars, dead,
                     judgeVars, missed>>
  BY DEF Unhold, IInv, Counted
<1>2. /\ \A u \in Threads \ {th} : pc'[u] = pc[u] /\ pass'[u] = pass[u]
      /\ \/ pc'[th] = "drain" /\ dead[th] # {} /\ pass'[th] = pass[th]
         \/ pc'[th] = "judge" /\ dead[th] = {} /\ pass[th] > 0 /\ pass'[th] = pass[th] - 1
         \/ pc'[th] = "idle" /\ dead[th] = {} /\ pass[th] = 0 /\ pass'[th] = 0
  BY <1>1, GoneOn
<1>3. Elsewhere(th) /\ UNCHANGED <<own, dead, rc, reg, missed>>
  BY <1>1, <1>2 DEF Elsewhere, programVars, releaseVars, judgeVars
<1>4. Alone /\ Owes(th) => Owes(th)'
  <2>1. Owes(th) => pass[th] > 0
    BY <1>1 DEF Owes
  <2> QED BY <1>2, <2>1 DEF Owes, Alone
<1>5. calls'[th] <= calls[th] /\ pending' = pending /\ deferred' = deferred
      /\ pc'[th] \notin {"scan", "verdict", "reap"}
  BY <1>1, <1>2 DEF TypeOK, programVars
<1> QED BY <1>3, <1>4, <1>5, RestSame

LEMMA DeferRest ==
  ASSUME IInv, Counted', NEW th \in Threads, Defer(th)
  PROVE  Scanned' /\ Reaping' /\ Owed'
<1>1. /\ pc[th] = "defer" /\ TypeOK /\ GoOn(th, dead[th]) /\ deferred' = deferred + 1
      /\ UNCHANGED <<word, done, pending, reg, freed, rc, programVars, releaseVars, dead,
                     judgeVars, missed>>
  BY DEF Defer, IInv, Counted
<1>2. /\ \A u \in Threads \ {th} : pc'[u] = pc[u] /\ pass'[u] = pass[u]
      /\ pc'[th] \in {"drain", "judge", "idle"}
  BY <1>1, GoneOn
<1>3. Elsewhere(th) /\ UNCHANGED <<own, dead, rc, reg, missed>>
  BY <1>1, <1>2 DEF Elsewhere, programVars, releaseVars, judgeVars
<1>4. deferred' > 0
  BY <1>1 DEF TypeOK
<1>5. calls'[th] <= calls[th] /\ pending' = pending
      /\ pc'[th] \notin {"scan", "verdict", "reap"}
  BY <1>1, <1>2 DEF TypeOK, programVars
<1> QED BY <1>3, <1>4, <1>5, RestSame

LEMMA JudgeRest ==
  ASSUME IInv, Counted', NEW th \in Threads, Judge(th)
  PROVE  Scanned' /\ Reaping' /\ Owed'
<1>1. /\ pc[th] = "judge" /\ TypeOK
      /\ \/ pc' = [pc EXCEPT ![th] = "unhold"] /\ ~done /\ UNCHANGED judgeVars
         \/ pc' = [pc EXCEPT ![th] = "defer"] /\ UNCHANGED judgeVars
         \/ pc' = [pc EXCEPT ![th] = "ask"] /\ UNCHANGED judgeVars
         \/ /\ pc' = [pc EXCEPT ![th] = "arm"] /\ found' = found
            /\ seen' = [seen EXCEPT ![th] = word']
            /\ unread' = [unread EXCEPT ![th] = Slots]
      /\ UNCHANGED <<done, pending, reg, freed, deferred, rc, programVars, releaseVars,
                     drainVars, missed>>
  BY DEF Judge, Goto, IInv, Counted
<1>2. /\ pc'[th] \in {"unhold", "defer", "ask", "arm"}
      /\ pc'[th] = "unhold" => ~done
  BY <1>1 DEF TypeOK
<1>3. Elsewhere(th) /\ UNCHANGED <<own, dead, rc, reg, missed>>
  BY <1>1 DEF Elsewhere, programVars, releaseVars, drainVars, judgeVars, TypeOK
<1>4. Alone => Owes(th)'
  BY <1>2, AloneMeans DEF Owes, IInv
<1>5. calls'[th] <= calls[th] /\ pending' = pending /\ deferred' = deferred
  BY <1>1, <1>2 DEF TypeOK, programVars
<1> QED BY <1>2, <1>3, <1>4, <1>5, RestSame

LEMMA AskRest ==
  ASSUME IInv, Counted', NEW th \in Threads, Ask(th)
  PROVE  Scanned' /\ Reaping' /\ Owed'
<1>1. /\ pc[th] = "ask" /\ TypeOK /\ pending' = TRUE /\ pc' = [pc EXCEPT ![th] = "recheck"]
      /\ UNCHANGED <<word, done, reg, freed, deferred, rc, programVars, releaseVars, drainVars,
                     judgeVars, missed>>
  BY DEF Ask, Goto, IInv, Counted
<1>2. pc'[th] = "recheck" /\ Owes(th)'
  BY <1>1 DEF TypeOK, Owes
<1>3. Elsewhere(th) /\ UNCHANGED <<own, dead, rc, reg, missed>>
  BY <1>1 DEF Elsewhere, programVars, releaseVars, drainVars, judgeVars, TypeOK
<1>4. calls'[th] <= calls[th] /\ deferred' = deferred
  BY <1>1, <1>2 DEF TypeOK, programVars
<1> QED BY <1>1, <1>2, <1>3, <1>4, RestSame

LEMMA AgainRest ==
  ASSUME IInv, Counted', NEW th \in Threads, Again(th)
  PROVE  Scanned' /\ Reaping' /\ Owed'
<1>1. /\ pc[th] = "again" /\ TypeOK /\ pc' = [pc EXCEPT ![th] = IF pending THEN "judge" ELSE "unhold"]
      /\ UNCHANGED <<word, done, reg, freed, deferred, rc, programVars, releaseVars, drainVars,
                     judgeVars, missed>>
  BY DEF Again, Goto, IInv, Counted, AskedAgain
<1>2. pc'[th] = (IF pending THEN "judge" ELSE "unhold") /\ pass'[th] = pass[th]
  BY <1>1 DEF TypeOK, drainVars
<1>3. Elsewhere(th) /\ UNCHANGED <<own, dead, rc, reg, missed>>
  BY <1>1 DEF Elsewhere, programVars, releaseVars, drainVars, judgeVars, TypeOK
<1>4. (Owes(th) => Owes(th)') /\ (pending => Owes(th)')
  BY <1>1, <1>2 DEF Owes
<1>5. calls'[th] <= calls[th] /\ deferred' = deferred
      /\ pc'[th] \notin {"scan", "verdict", "reap"}
  BY <1>1, <1>2 DEF TypeOK, programVars
<1> QED BY <1>3, <1>4, <1>5, RestSame

LEMMA JudgeDeferredRest ==
  ASSUME IInv, Counted', NEW th \in Threads, JudgeDeferred(th)
  PROVE  Scanned' /\ Reaping' /\ Owed'
<1>1. /\ pc[th] = "idle" /\ TypeOK /\ pc' = [pc EXCEPT ![th] = "judge"]
      /\ pass' = [pass EXCEPT ![th] = deferred - 1]
      /\ UNCHANGED <<word, done, pending, reg, freed, rc, programVars, releaseVars, dead,
                     draining, judgeVars, missed>>
  BY DEF JudgeDeferred, Goto, Free, IInv, Counted
<1>2. pc'[th] = "judge" /\ Owes(th)'
  BY <1>1 DEF TypeOK, Owes
<1>3. Elsewhere(th) /\ UNCHANGED <<own, dead, rc, reg, missed>>
  BY <1>1 DEF Elsewhere, programVars, releaseVars, judgeVars, TypeOK
<1>4. calls'[th] <= calls[th]
  BY <1>1, <1>2 DEF TypeOK, programVars
<1> QED BY <1>1, <1>2, <1>3, <1>4, RestSame

LEMMA RecheckRest ==
  ASSUME IInv, Counted', NEW th \in Threads, Recheck(th)
  PROVE  Scanned' /\ Reaping' /\ Owed'
<1>1. /\ pc[th] = "recheck" /\ TypeOK /\ WordExact
      /\ pc' = [pc EXCEPT ![th] = IF word.judging THEN "unhold" ELSE "judge"]
      /\ UNCHANGED <<frameVars, rc, programVars, releaseVars, drainVars, judgeVars, missed>>
  BY DEF Recheck, Goto, IInv, Counted
<1>2. pc'[th] = (IF word.judging THEN "unhold" ELSE "judge") /\ pass'[th] = pass[th]
  BY <1>1 DEF TypeOK, drainVars
<1>3. Elsewhere(th) /\ UNCHANGED <<own, dead, rc, reg, missed>>
  BY <1>1 DEF Elsewhere, frameVars, programVars, releaseVars, drainVars, judgeVars, TypeOK
<1>4. calls'[th] <= calls[th] /\ deferred' = deferred /\ pending' = pending
      /\ pc'[th] \notin {"scan", "verdict", "reap"}
  BY <1>1, <1>2 DEF TypeOK, programVars, frameVars
<1>5. CASE Owes(th) => Owes(th)'
  BY <1>3, <1>4, <1>5, RestSame
<1>6. CASE pending /\ word.judging
  \* The judge in progress has been asked to look again.
  <2>1. PICK v \in Threads : v \in Judging
    <3>1. Cardinality(Judging) = 1
      BY <1>1, <1>6 DEF WordExact
    <3>2. Judging # {}
      BY <3>1, FS_EmptySet
    <3> QED BY <3>2 DEF Judging
  <2>2. pc[v] \in {"arm", "scan", "verdict", "reap"} /\ v # th
    BY <1>1, <2>1 DEF Judging
  <2>3. pc'[v] = pc[v] /\ pending'
    BY <1>3, <1>4, <1>6, <2>2 DEF Elsewhere
  <2>4. Owes(v)'
    BY <2>2, <2>3 DEF Owes
  <2>5. Owed'
    BY <2>4 DEF Owed
  <2>6. Counted /\ Scanned /\ Reaping
    BY DEF IInv
  <2>7. Owned' = Owned /\ (Alone' <=> Alone) /\ (Total(calls))' = Total(calls)
    BY <1>1, <1>3 DEF Owned, OwnRef, Alone, Total, Units, programVars
  <2>8. Scanned'
    BY <1>3, <1>4, <2>6, <2>7, ScannedFrom
  <2>9. Reaping'
    BY <1>3, <1>4, <2>6, <2>7 DEF Reaping, Elsewhere
  <2> QED BY <2>5, <2>8, <2>9
<1>7. CASE ~(pending /\ word.judging)
  <2>1. Owes(th) => Owes(th)'
    BY <1>1, <1>2, <1>7 DEF Owes
  <2> QED BY <1>5, <2>1
<1> QED BY <1>6, <1>7

LEMMA ArmRest ==
  ASSUME IInv, Counted', NEW th \in Threads, Arm(th)
  PROVE  Scanned' /\ Reaping' /\ Owed'
<1>1. /\ pc[th] = "arm" /\ TypeOK /\ Local(th) /\ pc' = [pc EXCEPT ![th] = "scan"]
      /\ UNCHANGED <<word, done, reg, freed, deferred, rc, programVars, releaseVars, drainVars,
                     judgeVars, missed>>
  BY DEF Arm, Goto, IInv, Counted
<1>2. pc'[th] = "scan" /\ found'[th] = 0 /\ unread'[th] = Slots
  BY <1>1 DEF TypeOK, Local, judgeVars
<1>3. Elsewhere(th) /\ UNCHANGED <<own, dead, rc, reg, missed>>
  BY <1>1 DEF Elsewhere, programVars, releaseVars, drainVars, judgeVars, TypeOK
<1>4. Cardinality(Owned \ unread'[th]) = 0
  <2>1. Owned \ unread'[th] = {}
    BY <1>2 DEF Owned
  <2> QED BY <2>1, FS_EmptySet
<1>5. Owes(th)'
  <2>1. Owned' = Owned
    BY <1>3 DEF Owned, OwnRef
  <2> QED BY <1>2, <1>4, <2>1 DEF Owes
<1>6. calls'[th] <= calls[th] /\ deferred' = deferred
  BY <1>1 DEF TypeOK, programVars
<1> QED BY <1>2, <1>3, <1>4, <1>5, <1>6, RestSame

LEMMA ScanRest ==
  ASSUME IInv, Counted', NEW th \in Threads, Scan(th)
  PROVE  Scanned' /\ Reaping' /\ Owed'
<1>1. PICK i \in unread[th] :
        /\ unread' = [unread EXCEPT ![th] = @ \ {i}]
        /\ found' = [found EXCEPT ![th] = @ + IF OwnRef(i) THEN 1 ELSE 0]
        /\ IF unread[th] = {i} THEN Goto(th, "verdict") ELSE UNCHANGED pc
  BY DEF Scan
<1>2. /\ pc[th] = "scan" /\ TypeOK /\ Scanned
      /\ pc' = pc \/ pc' = [pc EXCEPT ![th] = "verdict"]
      /\ UNCHANGED <<frameVars, rc, programVars, releaseVars, drainVars, seen, missed>>
  BY <1>1 DEF Scan, Goto, IInv, Counted
<1>3. /\ pc'[th] \in {"scan", "verdict"} /\ unread'[th] = unread[th] \ {i} /\ i \in Slots
      /\ found'[th] = found[th] + Bit(OwnRef(i)) /\ found[th] \in Nat
  BY <1>1, <1>2 DEF TypeOK, Bit
<1>4. Elsewhere(th) /\ UNCHANGED <<own, dead, rc, reg, missed>>
  BY <1>1, <1>2 DEF Elsewhere, frameVars, programVars, releaseVars, drainVars, judgeVars, TypeOK
<1> DEFINE S == Owned \ unread[th]
           T == Owned \ unread'[th]
<1>5. IsFiniteSet(S) /\ Cardinality(S) \in Nat /\ Cardinality(T) = Cardinality(S) + Bit(OwnRef(i))
  <2>1. IsFiniteSet(S) /\ Cardinality(S) \in Nat
    BY OwnedFinite, FS_Subset, FS_CardinalityType
  <2>2. CASE OwnRef(i)
    <3>1. T = S \cup {i} /\ i \notin S
      BY <1>1, <1>3, <2>2 DEF Owned
    <3> QED BY <2>1, <2>2, <3>1, FS_AddElement DEF Bit
  <2>3. CASE ~OwnRef(i)
    <3>1. T = S
      BY <1>3, <2>3 DEF Owned
    <3> QED BY <2>1, <2>3, <3>1 DEF Bit
  <2> QED BY <2>1, <2>2, <2>3
<1>6. Bit(OwnRef(i)) \in Nat
  BY DEF Bit
<1>7. found[th] <= Cardinality(S)
  BY <1>2 DEF Scanned
<1> HIDE DEF S
<1>8. found'[th] <= Cardinality(T) /\ (found[th] = Cardinality(S) => found'[th] = Cardinality(T))
  BY ONLY <1>3, <1>5, <1>6, <1>7
<1>9. Owes(th) => Owes(th)'
  <2>1. Owned' = Owned /\ pass' = pass /\ pending' = pending
    BY <1>2, <1>4 DEF Owned, OwnRef, frameVars, drainVars
  <2> QED BY <1>2, <1>3, <1>8, <2>1 DEF Owes, S
<1>10. calls'[th] <= calls[th] /\ deferred' = deferred /\ pending' = pending
  BY <1>2 DEF TypeOK, frameVars, programVars
<1> QED BY <1>3, <1>4, <1>8, <1>9, <1>10, RestSame

(* The verdict is right both ways: a frame found garbage is reached by       *)
(* nobody, and one only its registers hold is found garbage by a judge that  *)
(* has counted them all.                                                     *)
LEMMA VerdictRest ==
  ASSUME IInv, Counted', NEW th \in Threads, Verdict(th)
  PROVE  Scanned' /\ Reaping' /\ Owed'
<1> DEFINE s == WordUnchanged(th)
           g == Garbage(th)
<1>1. /\ pc[th] = "verdict" /\ Local(th) /\ TypeOK /\ Counted /\ Scanned /\ WordExact
      /\ pc' = [pc EXCEPT ![th] = IF ~s THEN "judge" ELSE IF g THEN "reap" ELSE "again"]
      /\ seen' = [seen EXCEPT ![th] = NoWord]
      /\ found' = [found EXCEPT ![th] = 0]
      /\ UNCHANGED <<done, pending, reg, freed, deferred, rc, programVars, releaseVars,
                     drainVars, unread, missed>>
  BY DEF Verdict, IInv, Counted, Goto
<1>2. /\ s <=> word = seen[th]
      /\ g <=> found[th] > 0 /\ found[th] = seen[th].refs
  BY DEF WordUnchanged, Garbage
<1> HIDE DEF s, g
<1>3. pc'[th] = (IF ~s THEN "judge" ELSE IF g THEN "reap" ELSE "again")
  BY <1>1 DEF TypeOK
<1>4. Elsewhere(th) /\ UNCHANGED <<own, dead, rc, reg, missed>>
  BY <1>1 DEF Elsewhere, programVars, releaseVars, drainVars, TypeOK
<1>5. unread[th] = {} /\ seen[th].acts = 0 /\ Owned \ unread[th] = Owned /\ found[th] \in Nat
  BY <1>1 DEF Local, TypeOK
<1>6. /\ Corpses \subseteq Live /\ Cardinality(Corpses) = Cardinality(Owned)
      /\ Cardinality(Corpses) \in Nat /\ Cardinality(Corpses) <= Cardinality(Live)
      /\ \A c \in Corpses : rc[c] = 1 /\ \A u \in Threads : c \notin dead[u]
  BY <1>1, CorpsesLive
<1>7. Cardinality(Live) \in Nat /\ Total(calls) \in Nat
  BY <1>1, Bounds
<1>8. word.refs = Bit(own # "over") + Cardinality(Live) + Total(calls) /\ word.acts = Total(calls)
  BY <1>1 DEF WordExact, Bit
<1>9. Bit(own # "over") \in Nat /\ (Bit(own # "over") = 0 => own = "over")
  BY DEF Bit
<1>10. found[th] <= Cardinality(Owned)
  <2>1. found[th] <= Cardinality(Owned \ unread[th])
    BY <1>1 DEF Scanned
  <2> QED BY <1>5, <2>1
<1>11. ASSUME s, g PROVE Alone /\ Total(calls) = 0
  <2>1. word.refs = found[th]
    BY <1>2, <1>11
  <2>2. own = "over" /\ Total(calls) = 0 /\ Cardinality(Live) = Cardinality(Corpses)
    BY ONLY <1>5, <1>6, <1>7, <1>8, <1>9, <1>10, <2>1
  <2>3. Live = Corpses
    BY <1>1, <1>6, <2>2, LiveFinite, FS_Subset
  <2>4. \A u \in Threads : dead[u] = {}
    BY <1>6, <2>3 DEF Live
  <2>5. \A c \in Closures : rc[c] > 0 => rc[c] = 1 /\ \E i \in Slots : reg[i] = c
    BY <1>6, <2>3 DEF Live, Corpses, Owned
  <2> QED BY <2>2, <2>4, <2>5 DEF Alone
<1>12. ASSUME Alone, Live # {}, Owes(th) PROVE Owes(th)'
  <2>1. own = "over" /\ Cardinality(Live) = Cardinality(Owned)
    BY <1>1, <1>12, AloneMeans
  <2>2. Cardinality(Live) # 0
    BY <1>1, <1>12, LiveFinite, FS_EmptySet
  <2>3. pass' = pass /\ pending' = pending
    BY <1>1 DEF drainVars
  <2>4. CASE pass[th] > 0
    BY <2>3, <2>4 DEF Owes
  <2>5. CASE pending
    BY <1>2, <1>3, <2>3, <2>5 DEF Owes
  <2>6. CASE found[th] = Cardinality(Owned)
    <3>1. ASSUME s PROVE g
      <4>1. word.refs = Cardinality(Live)
        <5>1. Total(calls) = 0 /\ Bit(own # "over") = 0
          BY <1>2, <1>5, <1>8, <2>1, <3>1 DEF Bit
        <5> QED BY ONLY <1>7, <1>8, <5>1
      <4> QED BY <1>2, <1>5, <1>7, <2>1, <2>2, <2>6, <3>1, <4>1
    <3>2. pc'[th] \in {"judge", "reap"}
      BY <1>3, <3>1
    <3> QED BY <3>2 DEF Owes
  <2> QED BY <1>1, <1>5, <1>12, <2>4, <2>5, <2>6 DEF Owes
<1>13. calls'[th] <= calls[th] /\ deferred' = deferred /\ pending' = pending
  BY <1>1 DEF TypeOK, programVars
<1>14. pc'[th] \notin {"scan", "verdict"} /\ (pc'[th] = "reap" => Alone /\ Total(calls) = 0)
  BY <1>3, <1>11
<1> QED BY <1>4, <1>12, <1>13, <1>14, RestSame

LEMMA ReapRest ==
  ASSUME IInv, Counted', NEW th \in Threads, Reap(th)
  PROVE  Scanned' /\ Reaping' /\ Owed'
<1>1. /\ pc[th] = "reap" /\ pc' = [pc EXCEPT ![th] = "unhold"]
      /\ rc' = [c \in Closures |-> IF c \in Corpses THEN 0 ELSE rc[c]]
      /\ \/ draining[th] /\ dead' = [dead EXCEPT ![th] = @ \cup Corpses]
         \/ ~draining[th] /\ dead' = dead
      /\ TypeOK /\ Counted /\ Reaping /\ WordExact
  BY ReapEffects DEF IInv, Counted
<1>2. Alone
  BY <1>1 DEF Reaping
<1>3. Live = Corpses /\ \A u \in Threads : dead[u] = {}
  BY <1>1, <1>2, AloneMeans
<1>4. Judging = {th}
  BY <1>1, Bounds DEF Judging
<1>5. \A u \in Threads : pc'[u] \notin {"scan", "verdict", "reap"}
  BY <1>1, <1>4 DEF TypeOK, Judging
<1>6. Scanned' /\ Reaping'
  BY <1>5 DEF Scanned, Reaping
<1>7. Owed'
  <2>1. \A c \in Closures : rc'[c] = 0
    <3>1. \A c \in Closures : c \notin Corpses => ~(rc[c] > 0) /\ rc[c] \in Nat
      BY <1>1, <1>3 DEF Live, TypeOK
    <3> QED BY <1>1, <3>1
  <2>2. CASE draining[th] /\ Corpses # {}
    <3>1. dead'[th] # {}
      BY <1>1, <2>2 DEF TypeOK
    <3> QED BY <3>1 DEF Owed, Alone
  <2>3. CASE ~(draining[th] /\ Corpses # {})
    <3>1. \A u \in Threads : dead'[u] = {}
      BY <1>1, <1>3, <2>3 DEF TypeOK
    <3>2. Live' = {}
      BY <2>1, <3>1 DEF Live
    <3> QED BY <3>2 DEF Owed
  <2> QED BY <2>2, <2>3
<1> QED BY <1>6, <1>7

LEMMA MakeRest ==
  ASSUME IInv, Counted', NEW c \in Closures, Make(c)
  PROVE  Scanned' /\ Reaping' /\ Owed'
<1> DEFINE th == Owner
<1>0. th \in Threads
  BY ThreadAssumption
<1>1. /\ pc[th] = "idle" /\ own = "running"
      /\ UNCHANGED <<done, pending, reg, freed, deferred, own, calls, pc, releaseVars,
                     drainVars, judgeVars, missed>>
      /\ FlagKeepsOut /\ DoneExact
  BY DEF Make, Free, IInv, Counted
<1> HIDE DEF th
<1>2. Elsewhere(th) /\ ~Alone /\ ~Alone' /\ ~word.judging
  BY <1>1 DEF Elsewhere, releaseVars, drainVars, judgeVars, Alone, FlagKeepsOut, DoneExact
<1> QED BY <1>0, <1>1, <1>2, RestElse

\* Two holders: the closure is not the frame's own, before or after.
LEMMA GainRest ==
  ASSUME IInv, Counted', NEW th \in Threads, NEW c \in Closures, rc[c] > 0,
         \E u \in Threads : c \in has[u] \/ calls[u] > 0 \/ own = "running",
         (\E u \in Threads : c \in has[u]) \/ ~word.judging,
         rc' = [rc EXCEPT ![c] = @ + 1], pc[th] = "idle",
         UNCHANGED <<reg, pc, dead, calls, releaseVars, drainVars, judgeVars>>
  PROVE  Scanned' /\ Reaping' /\ Owed'
<1>1. Counted /\ TypeOK /\ RcExact /\ rc[c] \in Nat /\ rc'[c] = rc[c] + 1
      /\ \A x \in Closures : x # c => rc'[x] = rc[x]
  BY DEF IInv, Counted, TypeOK
<1>2. Elsewhere(th)
  BY DEF Elsewhere, releaseVars, drainVars, judgeVars
<1>3. ~Alone'
  BY <1>1 DEF Alone
<1>4. word.judging => Owned \subseteq Owned'
  <2>1. SUFFICES ASSUME word.judging, NEW i \in Owned PROVE i \in Owned'
    OBVIOUS
  <2>2. i \in Slots /\ reg[i] \in Closures /\ rc[reg[i]] = 1
    BY <1>1, <2>1 DEF Owned, OwnRef, TypeOK
  <2>3. reg[i] # c
    BY <1>1, <2>1, <2>2, HeldCounts
  <2> QED BY <1>1, <2>2, <2>3, NoneAssumption DEF Owned, OwnRef
<1>5. ~(Alone /\ Total(calls) = 0)
  <2>1. SUFFICES ASSUME Alone, Total(calls) = 0 PROVE FALSE
    OBVIOUS
  <2>2. \A u \in Threads : calls[u] = 0
    BY <1>1, <2>1, TotalZero DEF TypeOK
  <2>3. own = "over" /\ \A u \in Threads : has[u] = {}
    BY <1>1, <2>1, AloneMeans
  <2> QED BY <2>2, <2>3
<1> QED BY <1>2, <1>3, <1>4, <1>5, RestElse

LEMMA GiveRest ==
  ASSUME IInv, Counted', NEW th \in Threads, NEW u \in Threads, NEW c \in Closures, Give(th, u, c)
  PROVE  Scanned' /\ Reaping' /\ Owed'
<1>1. /\ pc[th] = "idle" /\ c \in has[th] /\ rc' = [rc EXCEPT ![c] = @ + 1]
      /\ UNCHANGED <<frameVars, made, own, calls, pc, releaseVars, drainVars, judgeVars, missed>>
  BY DEF Give, Free
<1>2. rc[c] > 0
  BY <1>1, HeldCounts DEF IInv, Counted
<1> QED BY <1>1, <1>2, GainRest DEF frameVars, drainVars

\* Registers are read by code that keeps every judge out.
LEMMA InsideNotJudged ==
  ASSUME IInv, NEW th \in Threads, Inside(th)
  PROVE  ~word.judging /\ pc[th] = "idle" /\ (calls[th] > 0 \/ own = "running")
BY DEF Inside, Free, IInv, Counted, FlagKeepsOut, DoneExact

LEMMA LoadRest ==
  ASSUME IInv, Counted', NEW th \in Threads, NEW i \in Slots, Load(th, i)
  PROVE  Scanned' /\ Reaping' /\ Owed'
<1>1. /\ Inside(th) /\ reg[i] \in Closures /\ rc' = [rc EXCEPT ![reg[i]] = @ + 1]
      /\ UNCHANGED <<frameVars, made, own, calls, pc, releaseVars, drainVars, judgeVars, missed>>
  BY DEF Load
<1>2. rc[reg[i]] > 0
  BY <1>1, HeldCounts DEF IInv, Counted
<1> QED BY <1>1, <1>2, InsideNotJudged, GainRest DEF frameVars, drainVars

LEMMA StoreRest ==
  ASSUME IInv, Counted', NEW th \in Threads, NEW i \in Slots, NEW c \in Closures \cup {None},
         Store(th, i, c)
  PROVE  Scanned' /\ Reaping' /\ Owed'
<1>1. /\ Inside(th) /\ c \in has[th] \cup {None} /\ c # reg[i]
      /\ reg' = [reg EXCEPT ![i] = c] /\ TypeOK /\ RcExact /\ Counted
      /\ rc' = [x \in Closures |-> IF x = c THEN rc[x] + 1 ELSE rc[x]]
      /\ UNCHANGED <<done, pending, freed, deferred, programVars, drainVars, judgeVars, missed>>
      /\ \/ UNCHANGED <<word, pc, releaseVars>>
         \/ StartRelease(th, reg[i])
  BY DEF Store, IInv, Counted
<1>2. ~word.judging /\ pc[th] = "idle" /\ (calls[th] > 0 \/ own = "running")
  BY <1>1, InsideNotJudged
<1>3. Elsewhere(th) /\ pc'[th] \in {"idle", "drop"}
  <2>1. CASE UNCHANGED <<word, pc, releaseVars>>
    BY <1>1, <1>2, <2>1 DEF Elsewhere, programVars, releaseVars, drainVars, judgeVars
  <2>2. CASE StartRelease(th, reg[i])
    BY <1>1, <1>2, <2>2 DEF StartRelease, Goto, Elsewhere, programVars, drainVars, judgeVars, TypeOK
  <2> QED BY <1>1, <2>1, <2>2
<1>4. ~(Alone /\ Total(calls) = 0)
  <2>1. SUFFICES ASSUME Alone, Total(calls) = 0 PROVE FALSE
    OBVIOUS
  <2>2. \A u \in Threads : calls[u] = 0
    BY <1>1, <2>1, TotalZero DEF TypeOK
  <2> QED BY <1>2, <2>1, <2>2 DEF Alone
<1>5. ~Alone'
  <2>1. SUFFICES ASSUME Alone' PROVE FALSE
    OBVIOUS
  <2>2. own = "over" /\ calls[th] > 0
    BY <1>1, <1>2, <2>1 DEF Alone, programVars
  <2>3. CASE c # None
    <3>1. c \in Closures /\ rc[c] > 0 /\ rc[c] \in Nat
      BY <1>1, <2>3, HeldCounts DEF TypeOK
    <3>2. rc'[c] = rc[c] + 1
      BY <1>1, <3>1
    <3> QED BY <2>1, <3>1, <3>2 DEF Alone
  <2>4. CASE c = None
    <3> DEFINE x == reg[i]
    <3>1. x \in Closures /\ rc[x] > 0
      BY <1>1, <2>4, HeldCounts DEF TypeOK
    <3>2. rc'[x] = rc[x]
      BY <1>1, <2>4, <3>1, NoneAssumption
    <3>3. PICK j \in Slots : reg'[j] = x
      BY <2>1, <3>1, <3>2 DEF Alone
    <3>4. j # i /\ reg[j] = x
      BY <1>1, <2>4, <3>1, <3>3, NoneAssumption DEF TypeOK
    <3>5. rc[x] = 1
      BY <2>1, <3>1, <3>2 DEF Alone
    <3> QED BY <1>1, <3>1, <3>4, <3>5, HeldCounts
  <2> QED BY <2>3, <2>4
<1> QED BY <1>2, <1>3, <1>4, <1>5, RestElse

LEMMA FrameReleaseRest ==
  ASSUME IInv, Counted', FrameRelease
  PROVE  Scanned' /\ Reaping' /\ Owed'
<1> DEFINE th == Owner
<1>0. th \in Threads
  BY ThreadAssumption
<1>1. /\ pc[th] = "idle" /\ own = "returned" /\ own' = "over" /\ ReleaseFrame(th, dead[th], FALSE)
      /\ UNCHANGED <<done, pending, reg, deferred, rc, made, has, calls, releaseVars, dead,
                     judgeVars, missed>>
      /\ TypeOK /\ WordExact /\ Counted
  BY DEF FrameRelease, IInv, Counted
<1> HIDE DEF th
<1>2. word.refs >= 1
  BY <1>1, Bounds
<1>3. /\ \A u \in Threads \ {th} : pc'[u] = pc[u] /\ pass'[u] = pass[u]
      /\ pc'[th] \in {"judge", "drain", "idle"}
      /\ pc'[th] # "judge" => word.refs = 1
  BY <1>0, <1>1, <1>2, FrameReleased
<1>4. Elsewhere(th) /\ Owned' = Owned /\ ~Alone /\ Live' = Live
  BY <1>1, <1>3 DEF Elsewhere, releaseVars, judgeVars, Owned, OwnRef, Alone, Live
<1>5. CASE pc'[th] = "judge"
  BY <1>0, <1>3, <1>4, <1>5, RestElse DEF Owes
<1>6. CASE pc'[th] # "judge"
  <2>1. Cardinality(Live) \in Nat /\ Total(calls) \in Nat
    BY <1>1, Bounds
  <2>2. Cardinality(Live) = 0
    BY <1>1, <1>3, <1>6, <2>1 DEF WordExact
  <2>3. Live' = {}
    BY <1>1, <1>4, <2>2, LiveFinite, FS_EmptySet
  <2> QED BY <1>0, <1>3, <1>4, <2>3, RestElse
<1> QED BY <1>5, <1>6

LEMMA DrainRest ==
  ASSUME IInv, Counted', NEW th \in Threads, Drain(th)
  PROVE  Scanned' /\ Reaping' /\ Owed'
<1>1. PICK c \in dead[th] : /\ dead' = [dead EXCEPT ![th] = @ \ {c}]
                            /\ ReleaseFrame(th, dead[th] \ {c}, TRUE)
  BY DEF Drain
<1>2. /\ pc[th] = "drain" /\ TypeOK /\ WordExact /\ Counted
      /\ UNCHANGED <<done, pending, reg, deferred, rc, programVars, releaseVars, judgeVars, missed>>
  BY DEF Drain, IInv, Counted
<1>3. c \in Live
  BY <1>1 DEF Live
<1>4. word.refs >= 1
  BY <1>2, <1>3, Bounds
<1>5. /\ \A u \in Threads \ {th} : pc'[u] = pc[u] /\ pass'[u] = pass[u]
      /\ pc'[th] \in {"judge", "drain", "idle"}
      /\ pc'[th] # "judge" => word.refs = 1
  BY <1>1, <1>2, <1>4, FrameReleased
<1>6. Elsewhere(th) /\ Owned' = Owned
  BY <1>1, <1>2, <1>5 DEF Elsewhere, programVars, releaseVars, judgeVars, Owned, OwnRef, TypeOK
<1>7. ~Alone
  BY <1>1 DEF Alone
<1>8. CASE pc'[th] = "judge"
  BY <1>5, <1>6, <1>7, <1>8, RestElse DEF Owes
<1>9. CASE pc'[th] # "judge"
  <2>1. Cardinality(Live) \in Nat /\ Total(calls) \in Nat /\ Cardinality(Live) # 0
    BY <1>2, <1>3, Bounds, LiveFinite, FS_EmptySet
  <2>2. Cardinality(Live) = 1
    BY <1>2, <1>5, <1>9, <2>1 DEF WordExact
  <2>3. Live = {c}
    BY <1>2, <1>3, <2>2, LiveFinite, FS_Singleton
  <2>4. rc[c] = 0 /\ \A u \in Threads : c \in dead[u] => u = th
    BY <1>1, <1>2 DEF Counted, DeadOnce
  <2>5. Live' = {}
    <3>1. \A x \in Live' : x \in Live
      BY <1>1, <1>2 DEF Live, TypeOK
    <3>2. c \notin Live'
      BY <1>1, <1>2, <2>4 DEF Live, TypeOK
    <3> QED BY <2>3, <3>1, <3>2
  <2> QED BY <1>5, <1>6, <1>7, <2>5, RestElse
<1> QED BY <1>8, <1>9

LEMMA DropRest ==
  ASSUME IInv, Counted', NEW th \in Threads, Drop(th)
  PROVE  Scanned' /\ Reaping' /\ Owed'
<1> DEFINE c       == cls[th]
           left    == rc[c] - 1
           corpses == IF left = 0 THEN {c} ELSE {}
<1>1. /\ pc[th] = "drop" /\ TypeOK /\ Local(th) /\ RcExact /\ Counted
      /\ rc' = [rc EXCEPT ![c] = left]
      /\ dead' = [dead EXCEPT ![th] = corpses]
      /\ missed' = (missed \/ (left = 1 /\ ~held[th] /\ done))
      /\ \/ /\ held[th] /\ pc' = [pc EXCEPT ![th] = IF left = 1 THEN "judge" ELSE "unhold"]
            /\ UNCHANGED <<draining, pass>>
         \/ ~held[th] /\ GoOn(th, corpses)
      /\ cls' = [cls EXCEPT ![th] = None]
      /\ held' = [held EXCEPT ![th] = FALSE]
      /\ UNCHANGED <<frameVars, programVars, judgeVars>>
  BY DEF Drop, IInv, Counted, Goto
<1>2. c \in Closures /\ c # None /\ pass[th] = 0
  BY <1>1, NoneAssumption DEF Local, TypeOK
<1>3. rc[c] \in Nat /\ rc[c] > 0 /\ left \in Nat
  BY <1>1, <1>2, HeldCounts DEF TypeOK
<1>4. ~Alone
  BY <1>1, <1>2, AloneMeans
<1>5. rc'[c] = left /\ \A x \in Closures : x # c => rc'[x] = rc[x]
  BY <1>1, <1>2 DEF TypeOK
<1>6. dead'[th] = corpses
  BY <1>1 DEF TypeOK
<1>7. corpses = {} <=> left # 0
  OBVIOUS
<1> HIDE DEF corpses
<1>8. /\ \A u \in Threads \ {th} : pc'[u] = pc[u] /\ pass'[u] = pass[u]
      /\ \/ held[th] /\ left = 1 /\ pc'[th] = "judge"
         \/ held[th] /\ left # 1 /\ pc'[th] = "unhold"
         \/ ~held[th] /\ pc'[th] \in {"drain", "judge", "idle"}
  <2>1. CASE held[th]
    BY <1>1, <2>1 DEF TypeOK
  <2>2. CASE ~held[th] /\ GoOn(th, corpses)
    BY <1>1, <2>2, GoneOn
  <2> QED BY <1>1, <2>1, <2>2
<1>9. Elsewhere(th)
  BY <1>1, <1>8 DEF Elsewhere, programVars, judgeVars, TypeOK
<1>10. Owned \subseteq Owned'
  <2>1. SUFFICES ASSUME NEW i \in Owned PROVE i \in Owned'
    OBVIOUS
  <2>2. i \in Slots /\ reg[i] \in Closures /\ rc[reg[i]] = 1 /\ reg[i] # None
    BY <1>1 DEF Owned, OwnRef, TypeOK
  <2>3. reg[i] # c
    BY <1>1, <2>2, HeldCounts
  <2>4. rc'[reg[i]] = 1 /\ reg'[i] = reg[i]
    BY <1>1, <1>5, <2>2, <2>3 DEF frameVars
  <2> QED BY <2>2, <2>4 DEF Owned, OwnRef
<1>11. Alone' /\ ~missed' => Owes(th)'
  <2>1. SUFFICES ASSUME Alone', ~missed' PROVE Owes(th)'
    OBVIOUS
  <2>2. own = "over" /\ done
    BY <1>1, <2>1 DEF Alone, Counted, DoneExact, programVars
  <2>3. left = 1
    <3>1. left # 0
      BY <1>6, <1>7, <2>1 DEF Alone
    <3>2. rc'[c] > 0
      BY <1>3, <1>5, <3>1
    <3> QED BY <1>2, <1>5, <2>1, <3>2 DEF Alone
  <2>4. held[th]
    BY <1>1, <2>1, <2>2, <2>3
  <2> QED BY <1>8, <2>3, <2>4 DEF Owes
<1> QED BY <1>4, <1>8, <1>9, <1>10, <1>11, RestElse

-----------------------------------------------------------------------------
LEMMA InitInv ==
  ASSUME Init
  PROVE  IInv
<1>1. Counted
  BY InitCounted
<1>2. Scanned /\ Reaping /\ Owed
  BY DEF Init, Scanned, Reaping, Owed, Alone
<1> QED BY <1>1, <1>2 DEF IInv

LEMMA NextInv ==
  ASSUME IInv, Next
  PROVE  IInv'
<1>1. Counted'
  BY NextCounted DEF IInv
<1>2. ASSUME NEW th \in Threads, Runtime(th) PROVE Scanned' /\ Reaping' /\ Owed'
  BY <1>1, <1>2, EnterRest, DropRest, DrainRest, UnholdRest, JudgeRest, DeferRest, AskRest,
     RecheckRest, ArmRest, ScanRest, VerdictRest, ReapRest, AgainRest DEF Runtime
<1>3. ASSUME NEW th \in Threads, Program(th) PROVE Scanned' /\ Reaping' /\ Owed'
  BY <1>1, <1>3, GiveRest, LoadRest, StoreRest, ReleaseRest, CallRest, ExitRest DEF Program
<1>4. Scanned' /\ Reaping' /\ Owed'
  BY <1>1, <1>2, <1>3, MakeRest, ReturnRest, FrameReleaseRest, JudgeDeferredRest DEF Next
<1> QED BY <1>1, <1>4 DEF IInv

LEMMA StutterInv ==
  ASSUME IInv, UNCHANGED vars
  PROVE  IInv'
<1>1. /\ UNCHANGED <<word, done, pending, reg, freed, deferred, rc, made, own, has, calls, pc>>
      /\ UNCHANGED <<cls, held, dead, draining, pass, seen, unread, found, missed>>
  BY DEF vars, frameVars, programVars, releaseVars, drainVars, judgeVars
<1>2. /\ Live' = Live /\ Holding' = Holding /\ Judging' = Judging /\ Owned' = Owned
      /\ (Total(calls))' = Total(calls) /\ (Total(pass))' = Total(pass)
      /\ \A c : Holders(c)' = Holders(c)
      /\ (Alone' <=> Alone) /\ \A th \in Threads : (Owes(th)' <=> Owes(th)) /\ (Local(th)' <=> Local(th))
  BY <1>1 DEF Live, Holding, Judging, Owned, OwnRef, Total, Units, Holders, Alone, Owes, Local
<1>3. TypeOK' /\ (\A th \in Threads : Local(th)') /\ RcExact' /\ DeadOnce' /\ MadeFirst'
  BY <1>1, <1>2 DEF IInv, Counted, TypeOK, RcExact, DeadOnce, MadeFirst
<1>4. WordExact' /\ DoneExact' /\ FreedExact' /\ FlagKeepsOut'
  BY <1>1, <1>2 DEF IInv, Counted, WordExact, DoneExact, FreedExact, FlagKeepsOut
<1>5. Scanned' /\ Reaping' /\ Owed'
  BY <1>1, <1>2 DEF IInv, Scanned, Reaping, Owed
<1> QED BY <1>3, <1>4, <1>5 DEF IInv, Counted

THEOREM FrameInvariant == Spec => []IInv
<1>1. Init => IInv
  BY InitInv
<1>2. IInv /\ [Next]_vars => IInv'
  BY NextInv, StutterInv
<1> QED BY <1>1, <1>2, PTL DEF Spec

(* Each field of the word is a natural number and each count the number of  *)
(* what it counts: no release takes a reference, a call or a hold that is   *)
(* not there (value.c: frame_release_judged, frame_exit, frame_unhold).     *)
THEOREM TypeCorrect == Spec => []TypeOK
<1>1. IInv => TypeOK
  BY DEF IInv, Counted
<1> QED BY <1>1, FrameInvariant, PTL

(* The one word tells references, calls, holds and the flag apart, whatever *)
(* the threads do to it at once (value.c: the FRC_ fields).                 *)
THEOREM WordSaysWhatItCounts == Spec => []WordExact
<1>1. IInv => WordExact
  BY DEF IInv, Counted
<1> QED BY <1>1, FrameInvariant, PTL

(* A judge reads and clears registers only while every call over the frame  *)
(* waits in frame_enter, and the function has returned.                     *)
THEOREM CallsWaitForJudges == Spec => []NoReadDuringCall
<1>1. IInv => NoReadDuringCall
  <2>1. SUFFICES ASSUME IInv, NEW th \in Threads, NEW u \in Threads, pc[th] \in {"scan", "reap"}
                 PROVE  ~(calls[u] > 0 /\ pc[u] # "entering") /\ own # "running"
    BY DEF NoReadDuringCall
  <2>2. word.judging
    BY <2>1, Bounds DEF IInv, Counted, Judging
  <2> QED BY <2>1, <2>2 DEF IInv, Counted, FlagKeepsOut, DoneExact
<1> QED BY <1>1, FrameInvariant, PTL

(* Once frame_free has run nobody is left to touch the frame: no closure,   *)
(* no call, no judgement running or on the deferred list.                   *)
THEOREM FreedIsLeftAlone == Spec => []NothingLeftOfFreed
<1>1. IInv => NothingLeftOfFreed
  BY NobodyLeft DEF IInv, Counted, FreedExact, NothingLeftOfFreed
<1> QED BY <1>1, FrameInvariant, PTL

(* A verdict of garbage is right although the registers are read one at a   *)
(* time: what a judge counted stays the frame's own, and the unchanged word *)
(* leaves nothing uncounted (value.c: self_cycle_only).                     *)
THEOREM GarbageIsGarbage == Spec => []OnlyGarbageReaped
<1>1. IInv => OnlyGarbageReaped
  <2>1. SUFFICES ASSUME IInv, NEW th \in Threads, pc[th] = "reap" PROVE ~Reached
    BY DEF OnlyGarbageReaped
  <2>2. Counted /\ TypeOK /\ Alone /\ Total(calls) = 0
    BY <2>1 DEF IInv, Counted, Reaping
  <2>3. own = "over" /\ \A u \in Threads : has[u] = {} /\ calls[u] = 0
    BY <2>2, AloneMeans, TotalZero DEF TypeOK
  <2> QED BY <2>3 DEF Reached
<1> QED BY <1>1, FrameInvariant, PTL

(* Threads that give way to each other, or put a judgement off, leave one   *)
(* that judges: when all is over a frame out of use is freed, but for the   *)
(* two known leaks (value.c: frame_release_judged, defer_judgement, the     *)
(* pending flag).                                                           *)
THEOREM UnusedIsFreed == Spec => []NoLeak
<1>1. IInv => NoLeak
  <2>1. SUFFICES ASSUME IInv, Quiet, ~Reached, ~freed, ~HeldTwice, ~missed PROVE FALSE
    BY DEF NoLeak
  <2>2. Counted /\ TypeOK /\ WordExact /\ RcExact /\ Owed
    BY <2>1 DEF IInv, Counted
  <2>3. /\ own = "over" /\ deferred = 0
        /\ \A th \in Threads : has[th] = {} /\ ~(calls[th] > 0) /\ pc[th] = "idle"
    BY <2>1 DEF Reached, Quiet
  <2>4. \A th \in Threads : dead[th] = {} /\ pass[th] = 0 /\ cls[th] = None /\ ~held[th]
    BY <2>2, <2>3 DEF Counted, Local, TypeOK
  <2>5. Alone
    <3>1. SUFFICES ASSUME NEW c \in Closures, rc[c] > 0
                   PROVE  rc[c] = 1 /\ \E i \in Slots : reg[i] = c
      BY <2>3, <2>4 DEF Alone
    <3>2. c # None
      BY NoneAssumption
    <3>3. \A e : e \in Holders(c) <=> \E i \in Slots : e = <<"reg", i>> /\ reg[i] = c
      <4>1. \A e : e \in Holders(c) <=> \/ \E i \in Slots : e = <<"reg", i>> /\ reg[i] = c
                                        \/ \E th \in Threads : e = <<"has", th>> /\ c \in has[th]
                                        \/ \E th \in Threads : e = <<"drop", th>> /\ cls[th] = c
        BY HoldersAre DEF Holders
      <4> QED BY <2>3, <2>4, <3>2, <4>1
    <3>4. rc[c] = Cardinality(Holders(c)) /\ Holders(c) # {}
      BY <2>2, <3>1, HoldersType, FS_EmptySet
    <3>5. PICK i \in Slots : reg[i] = c
      BY <3>3, <3>4
    <3>6. \A j \in Slots : reg[j] = c => j = i
      BY <2>1, <3>2, <3>5 DEF HeldTwice
    <3>7. Holders(c) = {<<"reg", i>>}
      BY <3>3, <3>5, <3>6
    <3> QED BY <3>4, <3>5, <3>7, FS_Singleton
  <2>6. Live # {}
    <3>1. SUFFICES ASSUME Live = {} PROVE FALSE
      OBVIOUS
    <3>2. Total(calls) = 0 /\ Total(pass) = 0
      BY <2>2, <2>3, <2>4, TotalZero DEF TypeOK
    <3>3. Holding = {} /\ Judging = {}
      BY <2>3, <2>4 DEF Holding, Judging
    <3>4. word.refs = 0 /\ word.acts = 0 /\ word.holds = 0 /\ ~word.judging
      BY <2>2, <2>3, <3>1, <3>2, <3>3, FS_EmptySet DEF WordExact
    <3>5. word = NoWord
      BY <2>2, <3>4 DEF TypeOK, Words, NoWord
    <3> QED BY <2>1, <2>2, <3>5 DEF Counted, FreedExact
  <2>7. \A th \in Threads : ~Owes(th)
    BY <2>3, <2>4 DEF Owes
  <2> QED BY <2>1, <2>2, <2>3, <2>5, <2>6, <2>7 DEF Owed
<1> QED BY <1>1, FrameInvariant, PTL

-----------------------------------------------------------------------------
(* The promise. *)
FreedOutOfUse == freed => ~Reached

LEMMA FreedUnreached == Spec => []FreedOutOfUse
<1>1. IInv => FreedOutOfUse
  <2>1. SUFFICES ASSUME IInv, freed PROVE ~Reached
    BY DEF FreedOutOfUse
  <2>2. own = "over"
    BY <2>1, NobodyLeft DEF IInv, Counted, FreedExact
  <2>3. \A th \in Threads : has[th] = {} /\ ~(calls[th] > 0)
    BY <2>1, SomebodyLeft DEF IInv
  <2> QED BY <2>2, <2>3 DEF Reached
<1> QED BY <1>1, FrameInvariant, PTL

LEMMA NeverBack ==
  ASSUME TypeOK, Next, ~Reached
  PROVE  ~Reached'
<1>1. own = "over" /\ \A th \in Threads : has[th] = {} /\ ~(calls[th] > 0)
  BY DEF Reached
<1>2. has \in [Threads -> SUBSET Closures] /\ calls \in [Threads -> Nat]
  BY DEF TypeOK
<1>3. ASSUME NEW th \in Threads, Runtime(th) PROVE UNCHANGED <<own, has, calls>>
  BY <1>3 DEF Runtime, Enter, Drop, Drain, Unhold, Judge, Defer, Ask, Recheck, Arm, Scan, Verdict,
              Reap, Again, programVars
<1>4. ASSUME NEW th \in Threads PROVE ~Program(th)
  BY <1>1 DEF Program, Give, Load, Store, Release, Call, Exit, Inside
<1>5. ASSUME NEW th \in Threads, JudgeDeferred(th) PROVE UNCHANGED <<own, has, calls>>
  BY <1>5 DEF JudgeDeferred, programVars
<1>6. (\A c \in Closures : ~Make(c)) /\ ~Return /\ ~FrameRelease
  BY <1>1 DEF Make, Return, FrameRelease
<1>7. UNCHANGED <<own, has, calls>>
  BY <1>3, <1>4, <1>5, <1>6 DEF Next
<1> QED BY <1>1, <1>7 DEF Reached

LEMMA FreedForGood ==
  ASSUME TypeOK, Next
  PROVE  freed' \in BOOLEAN /\ (freed => freed')
<1>1. ASSUME NEW th \in Threads, Runtime(th) PROVE freed' = freed \/ freed' = (freed \/ word' = NoWord)
  BY <1>1 DEF Runtime, Enter, Drop, Drain, Unhold, Judge, Defer, Ask, Recheck, Arm, Scan, Verdict,
              Reap, Again, frameVars, Become, ReleaseFrame
<1>2. ASSUME NEW th \in Threads, Program(th) PROVE freed' = freed \/ freed' = (freed \/ word' = NoWord)
  BY <1>2 DEF Program, Give, Load, Store, Release, Call, Exit, frameVars, Become
<1>3. ASSUME NEW th \in Threads, JudgeDeferred(th) PROVE freed' = freed
  BY <1>3 DEF JudgeDeferred
<1>4. ASSUME (\E c \in Closures : Make(c)) \/ Return \/ FrameRelease
      PROVE  freed' = freed \/ freed' = (freed \/ word' = NoWord)
  BY <1>4 DEF Make, Return, FrameRelease, ReleaseFrame, Become
<1>5. freed' = freed \/ freed' = (freed \/ word' = NoWord)
  BY <1>1, <1>2, <1>3, <1>4 DEF Next
<1>6. freed \in BOOLEAN
  BY DEF TypeOK
<1>7. CASE freed' = freed
  BY <1>6, <1>7
<1>8. CASE freed' = (freed \/ word' = NoWord)
  BY <1>6, <1>8, Zenon
<1> QED BY <1>5, <1>7, <1>8

(* A frame in use is never freed, one out of use is freed at most once and  *)
(* never comes back into use (value.c: frame_free, vl_frame_release).       *)
THEOREM ReclaimImplemented == Spec => ImplementsReclaim
<1>1. Init => Promise!Init
  BY DEF Init, Promise!Init, Reached
<1>2. TypeOK /\ FreedOutOfUse' /\ [Next]_vars => [Promise!Next]_(Promise!vars)
  <2>1. CASE UNCHANGED vars
    BY <2>1 DEF vars, frameVars, programVars, Promise!vars, Reached
  <2>2. ASSUME TypeOK, FreedOutOfUse', Next PROVE Promise!Next \/ UNCHANGED Promise!vars
    <3>1. freed \in BOOLEAN /\ freed' \in BOOLEAN /\ (freed => freed') /\ (~Reached => ~Reached')
      BY <2>2, NeverBack, FreedForGood DEF TypeOK
    <3>2. freed' => ~Reached'
      BY <2>2 DEF FreedOutOfUse
    <3>3. Reached \in BOOLEAN /\ Reached' \in BOOLEAN
      BY DEF Reached
    <3> HIDE DEF Reached
    <3> QED BY <3>1, <3>2, <3>3 DEF Promise!Next, Promise!Lose, Promise!Free, Promise!vars
  <2> QED BY <2>1, <2>2
<1> QED BY <1>1, <1>2, TypeCorrect, FreedUnreached, PTL DEF Spec, ImplementsReclaim, Promise!Spec
=============================================================================
